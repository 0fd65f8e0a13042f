------------------------------ MODULE StayAwake ------------------------------
(***************************************************************************)
(* The bits of sStayAwake (radio.c).  They share one byte: a write of the  *)
(* task is a load and a store between which interrupts come.  Interrupts   *)
(* are not interrupted by the task, so theirs are one step.                *)
(*                                                                         *)
(* An ack is held to be over when its protection timer says so: the timer  *)
(* is set to the computed end of the ack.                                  *)
(***************************************************************************)
Bits == {"waitAckTxDone", "waitTxDone", "waitRxPendingData",
         "waitScheduledRxWindow", "rxOnWhenIdle", "appForceStayAwake"}

NoWrite == {"none"}

VARIABLES
  sStayAwake,  \* the bits that are set
  write,       \* what the task is about to store, or NoWrite
  at,          \* where the task goes on after its write
  hasAckTimer, \* could sWaitAckTxDoneTimer be allocated?
  ackTimer,    \* does it run?
  ackState,    \* "imm", "enh": such an ack is on its way; "over": the report of an
               \* enhanced ack is due, if it is not lost; "none"
  restored,    \* history: was waitAckTxDone put back by a store of the task?
  dataTimer,   \* does sWaitRxPendingDataTimer run?
  window       \* is a receive window scheduled?

ackProtection == <<hasAckTimer, ackTimer, ackState, restored>>
awakeVars == <<sStayAwake, write, at, ackProtection, dataTimer, window>>

AwakeInit ==
  /\ sStayAwake = {"appForceStayAwake"}
  /\ write = NoWrite
  /\ at = "idle"
  /\ hasAckTimer \in BOOLEAN
  /\ ackTimer = FALSE
  /\ ackState = "none"
  /\ restored = FALSE
  /\ dataTimer = FALSE
  /\ window = FALSE

-----------------------------------------------------------------------------
(* The task.                                                               *)

Load(bit, value, next) ==
  /\ write = NoWrite
  /\ write' = IF value THEN sStayAwake \cup {bit} ELSE sStayAwake \ {bit}
  /\ at' = next
  /\ UNCHANGED <<sStayAwake, ackProtection>>

Store ==
  /\ write # NoWrite
  /\ sStayAwake' = write
  /\ write' = NoWrite
  /\ restored' = (restored \/ "waitAckTxDone" \in write \ sStayAwake)
  /\ UNCHANGED <<at, hasAckTimer, ackTimer, ackState, dataTimer, window>>

otPlatRadioSetRxOnWhenIdle(aEnable) ==
  /\ at = "idle"
  /\ Load("rxOnWhenIdle", aEnable, IF aEnable THEN "idle" ELSE "takeControl")
  /\ UNCHANGED <<dataTimer, window>>

\* "openthread take control instead of app"
TakeControl ==
  /\ at = "takeControl"
  /\ \/ /\ "appForceStayAwake" \in sStayAwake
        /\ Load("appForceStayAwake", FALSE, "idle")
     \/ /\ "appForceStayAwake" \notin sStayAwake
        /\ write = NoWrite
        /\ at' = "idle"
        /\ UNCHANGED <<sStayAwake, write, ackProtection>>
  /\ UNCHANGED <<dataTimer, window>>

BEE_SleepDirect ==
  /\ at = "idle"
  /\ Load("appForceStayAwake", FALSE, "idle")
  /\ UNCHANGED <<dataTimer, window>>

\* mpan_RxAt succeeds.
otPlatRadioReceiveAt ==
  /\ at = "idle"
  /\ Load("waitScheduledRxWindow", TRUE, "idle")
  /\ window' = TRUE
  /\ UNCHANGED dataTimer

BEE_RadioTxStart ==
  /\ at = "idle"
  /\ Load("waitTxDone", TRUE, "radio_done")
  /\ UNCHANGED <<dataTimer, window>>

TxReturns ==
  /\ at = "given"
  /\ Load("waitTxDone", FALSE, "BEE_RadioTx")
  /\ UNCHANGED <<dataTimer, window>>

\* An ack that announces data keeps the radio awake for it.
BEE_RadioTx ==
  /\ at = "BEE_RadioTx"
  /\ \/ /\ write = NoWrite
        /\ at' = "idle"
        /\ UNCHANGED <<sStayAwake, write, ackProtection>>
     \/ Load("waitRxPendingData", TRUE, "startTimer")
  /\ UNCHANGED <<dataTimer, window>>

StartDataTimer ==
  /\ at = "startTimer" /\ write = NoWrite
  /\ at' = "idle"
  /\ dataTimer' = TRUE
  /\ UNCHANGED <<sStayAwake, write, ackProtection, window>>

-----------------------------------------------------------------------------
(* Interrupts.                                                             *)

OnItsWay == {"imm", "enh"}

ClearAckBit ==
  /\ sStayAwake' = sStayAwake \ {"waitAckTxDone"}
  /\ restored' = FALSE

\* Bug to catch: an ack that is already over keeps the radio awake.
LateAckStaysAwake(kind) ==
  /\ sStayAwake' = sStayAwake \cup {"waitAckTxDone"}
  /\ restored' = FALSE
  /\ ackState' = IF kind = "enh" THEN "over" ELSE "none"
  /\ UNCHANGED ackTimer

\* startWaitAckTxDoneProtection after the end of the ack
LateAck(kind) ==
  /\ ClearAckBit
  /\ ackState' = IF kind = "enh" THEN "over" ELSE "none"
  /\ UNCHANGED ackTimer

\* rxely_handler and rxdone_handler set the bit for an ack that the MAC sends or
\* was told to send, and startWaitAckTxDoneProtection its timer, if there is one.
AckStarts(kind) ==
  /\ ackState \notin OnItsWay
  /\ \/ /\ sStayAwake' = sStayAwake \cup {"waitAckTxDone"}
        /\ restored' = FALSE
        /\ ackTimer' = hasAckTimer
        /\ ackState' = kind
     \/ LateAck(kind)
  /\ UNCHANGED <<write, at, hasAckTimer, dataTimer, window>>

AckStateAtEnd ==
  CASE ackState = "enh" -> "over"
    [] ackState = "imm" -> "none"
    [] OTHER -> ackState

\* The ack is sent, or dropped with a damaged frame.  The handlers are told of
\* the end of an enhanced ack only.
AckEnds ==
  /\ ackState \in OnItsWay
  /\ ackState' = AckStateAtEnd
  /\ UNCHANGED <<sStayAwake, write, at, hasAckTimer, ackTimer, restored, dataTimer, window>>

\* mac_report_enhack_transmit_done
AckReported ==
  /\ ackState = "over"
  /\ ClearAckBit
  /\ ackTimer' = FALSE
  /\ ackState' = "none"
  /\ UNCHANGED <<write, at, hasAckTimer, dataTimer, window>>

waitAckTxDoneProtectionTimeout ==
  /\ ackTimer
  /\ ClearAckBit
  /\ ackTimer' = FALSE
  /\ ackState' = AckStateAtEnd
  /\ UNCHANGED <<write, at, hasAckTimer, dataTimer, window>>

TxDoneInterrupt ==
  /\ at = "radio_done" /\ write = NoWrite
  /\ at' = "given"
  /\ UNCHANGED <<sStayAwake, write, ackProtection, dataTimer, window>>

waitRxPendingDataTimeout ==
  /\ dataTimer
  /\ dataTimer' = FALSE
  /\ sStayAwake' = sStayAwake \ {"waitRxPendingData"}
  /\ UNCHANGED <<write, at, ackProtection, window>>

mpan_RxAt_done_callback ==
  /\ window
  /\ window' = FALSE
  /\ sStayAwake' = sStayAwake \ {"waitScheduledRxWindow"}
  /\ UNCHANGED <<write, at, ackProtection, dataTimer>>

AwakeNext ==
  \/ Store
  \/ \E aEnable \in BOOLEAN : otPlatRadioSetRxOnWhenIdle(aEnable)
  \/ TakeControl
  \/ BEE_SleepDirect
  \/ otPlatRadioReceiveAt
  \/ BEE_RadioTxStart
  \/ TxReturns
  \/ BEE_RadioTx
  \/ StartDataTimer
  \/ \E kind \in OnItsWay : AckStarts(kind)
  \/ AckEnds
  \/ AckReported
  \/ waitAckTxDoneProtectionTimeout
  \/ TxDoneInterrupt
  \/ waitRxPendingDataTimeout
  \/ mpan_RxAt_done_callback

AwakeSpec == AwakeInit /\ [][AwakeNext]_awakeVars

-----------------------------------------------------------------------------
(* Properties.                                                             *)

mac_report_pm_check_result == sStayAwake = {}

\* The power manager may not put the radio to sleep while an ack is on its way
\* (waitAckTxDone: "waiting until ACK transmission is done", radio.c:185).
NoSleepInAck == ackState \in OnItsWay => ~mac_report_pm_check_result

\* waitAckTxDone keeps the radio awake only while the protection timer runs, also
\* when reports of acks are late or lost, acks start late and the task writes the
\* byte at any time.  Two cases are excepted, in which nothing but the next ack or
\* report clears the bit: a store of the task put it back after the end of the ack,
\* and there is no timer.
AwakeHasTimer ==
  "waitAckTxDone" \in sStayAwake => ackTimer \/ restored \/ ~hasAckTimer

Blocked == at \in {"radio_done", "given"} /\ write = NoWrite

\* A bit that only the task writes survives every interrupt: from the moment
\* BEE_RadioTxStart blocks until it goes on the radio stays awake.
NoSleepInTx == Blocked => ~mac_report_pm_check_result

=============================================================================
