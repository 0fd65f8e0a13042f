------------------------------- MODULE RadioTx -------------------------------
(***************************************************************************)
(* The transmit path of radio.c: otPlatRadioTransmit, the CSMA backoff,    *)
(* BEE_RadioTxStart, the interrupts that end a transmission, and           *)
(* BEE_RadioTx, which retries the frame or reports it to OpenThread.       *)
(*                                                                         *)
(* A transmission on its way is a token in one of four places: the flag    *)
(* tx_backoff_tmo, the time tx_backoff_pending, a TX_START event in the    *)
(* driver queue, or the radio itself while the Thread task is blocked on   *)
(* the semaphore radio_done.  The same semaphore serves energy detection.  *)
(*                                                                         *)
(* The client is OpenThread's MAC.  It waits for otPlatRadioTxDone before  *)
(* its next otPlatRadioTransmit, except that it may give up by disabling   *)
(* the radio or by a pseudo reset: neither cancels the token.              *)
(***************************************************************************)
EXTENDS Integers

CONSTANTS
  MaxRetry,    \* MAX_TRANSMIT_RETRY
  MaxCcaFail,  \* MAX_TRANSMIT_CCAFAIL
  MaxAborts    \* bound on the times the client gives up on a transmission

ASSUME RadioTxAssumption ==
  /\ MaxRetry \in Nat \ {0}
  /\ MaxCcaFail \in Nat \ {0}
  /\ MaxAborts \in Nat

VARIABLES
  sState, sDisabled,
  frame,                \* what the code asks of sTransmitFrame
  sTransmitRetry, sTransmitCcaFailCnt,
  tx_backoff_tmo,
  tx_backoff_pending,   \* is tx_backoff_pending nonzero?
  startEvents,          \* TX_START events in the driver queue
  scanEvents,           \* ED_SCAN events in the driver queue
  tx_result, radio_done, ack_receive_done,
  op,                   \* what the radio is doing: "none", "tx", "ed"
  pc,                   \* the task: "run", or blocked on radio_done
  client,               \* "idle", or "waiting" for otPlatRadioTxDone
  aborts,               \* times the client has given up
  ackFresh,             \* history: the frame's own ack came in the last attempt
  strayAck,             \* history: since ack_receive_done was last used, it was set by
                        \* an ack that the radio did not report for its attempt
  txDone                \* the last otPlatRadioTxDone: its error, ack frame or not

radioState == <<sState, sDisabled>>
counters == <<sTransmitRetry, sTransmitCcaFailCnt>>
backoff == <<tx_backoff_tmo, tx_backoff_pending, startEvents>>
ackFlag == <<ack_receive_done, strayAck>>
radio == <<tx_result, radio_done, ackFlag, op, ackFresh>>
clientState == <<client, aborts, txDone>>
vars == <<radioState, frame, counters, backoff, scanEvents, radio, pc, clientState>>

\* mTxDelay: zero, set by the client, or kSwitchedToIndirectTx.
Delays == {"none", "timed", "switched"}
Frames == [ackReq : BOOLEAN, v2015 : BOOLEAN, delay : Delays]
Results == {"TX_OK", "TX_WAIT_ACK", "TX_NO_ACK", "TX_AT_FAIL",
            "TX_TERMED", "TX_CCA_FAIL", "TX_PTA_FAIL"}
Errors == {"NONE", "NO_ACK", "CHANNEL_ACCESS_FAILURE"}

Init ==
  /\ sState = "DISABLED"
  /\ sDisabled = TRUE
  /\ frame = [ackReq |-> FALSE, v2015 |-> FALSE, delay |-> "none"]
  /\ sTransmitRetry = 0
  /\ sTransmitCcaFailCnt = 0
  /\ tx_backoff_tmo = FALSE
  /\ tx_backoff_pending = FALSE
  /\ startEvents = 0
  /\ scanEvents = 0
  /\ tx_result = "TX_OK"
  /\ radio_done = 0
  /\ ack_receive_done = FALSE
  /\ op = "none"
  /\ pc = "run"
  /\ client = "idle"
  /\ aborts = 0
  /\ ackFresh = FALSE
  /\ strayAck = FALSE
  /\ txDone = [error |-> "NONE", ack |-> FALSE]

\* The counters are compared with = only: one value above the limit stands for
\* all of them.
Count(c, limit) == IF c > limit THEN c ELSE c + 1

-----------------------------------------------------------------------------
(* The client's calls, made while the task runs.                           *)

\* Disabling the radio makes a waiting client forget its transmission.
GiveUp ==
  IF client = "waiting"
  THEN /\ aborts < MaxAborts
       /\ aborts' = aborts + 1
       /\ client' = "idle"
       /\ UNCHANGED txDone
  ELSE UNCHANGED clientState

otPlatRadioEnable ==
  /\ pc = "run"
  /\ sState' = IF sState = "DISABLED" THEN "SLEEP" ELSE sState
  /\ sDisabled' = FALSE
  /\ UNCHANGED <<frame, counters, backoff, scanEvents, radio, pc, clientState>>

otPlatRadioDisable ==
  /\ pc = "run"
  /\ sState # "DISABLED"
  /\ sState' = "DISABLED"
  /\ sDisabled' = TRUE
  /\ GiveUp
  /\ UNCHANGED <<frame, counters, backoff, scanEvents, radio, pc>>

\* otPlatRadioSleep, otPlatRadioReceive and otPlatRadioReceiveAt
SetState(s) ==
  /\ pc = "run"
  /\ sState # "DISABLED"
  /\ sState' = s
  /\ UNCHANGED <<sDisabled, frame, counters, backoff, scanEvents, radio, pc, clientState>>

\* otSysInit after a pseudo reset: BEE_RadioInit and dataInit make a new
\* semaphore and set sDisabled, and leave everything else alone.
dataInit ==
  /\ pc = "run"
  /\ radio_done' = 0
  /\ sDisabled' = TRUE
  /\ GiveUp
  /\ UNCHANGED <<sState, frame, counters, backoff, scanEvents, pc,
                 tx_result, ackFlag, op, ackFresh>>

otPlatRadioEnergyScan ==
  /\ pc = "run"
  /\ scanEvents = 0
  /\ scanEvents' = 1
  /\ UNCHANGED <<radioState, frame, counters, backoff, radio, pc, clientState>>

\* A frame with no delay of its own, while the radio is on when idle, waits for
\* a random backoff; any other starts at once.  tmo is the flag tx_backoff_tmo
\* as the caller leaves it.
HandleTxBackoffDelay(f, tmo) ==
  \/ /\ f.delay = "none"
     /\ tx_backoff_pending' = TRUE
     /\ tx_backoff_tmo' = tmo
  \/ /\ tx_backoff_tmo' = TRUE
     /\ UNCHANGED tx_backoff_pending

\* A CSL child turns a frame with no delay into a "switched" one.
otPlatRadioTransmit(f) ==
  /\ pc = "run"
  /\ client = "idle"
  /\ sState # "DISABLED"
  /\ sState' = "TRANSMIT"
  /\ sTransmitRetry' = 0
  /\ sTransmitCcaFailCnt' = 0
  /\ frame' = f
  /\ HandleTxBackoffDelay(f, tx_backoff_tmo)
  /\ client' = "waiting"
  /\ UNCHANGED <<sDisabled, startEvents, scanEvents, radio, pc, aborts, txDone>>

ClientCall ==
  \/ otPlatRadioEnable
  \/ otPlatRadioDisable
  \/ \E s \in {"SLEEP", "RECEIVE"} : SetState(s)
  \/ dataInit
  \/ otPlatRadioEnergyScan
  \/ \E f \in Frames : otPlatRadioTransmit(f)

-----------------------------------------------------------------------------
(* The end of an attempt: BEE_RadioTx.                                     *)

\* The label exit, with otPlatRadioTxDone.
TxExit(error, ack, tmo) ==
  /\ sState' = "RECEIVE"
  /\ frame' = IF frame.delay = "switched" THEN [frame EXCEPT !.delay = "none"] ELSE frame
  /\ client' = "idle"
  /\ txDone' = [error |-> error, ack |-> ack]
  /\ tx_backoff_tmo' = tmo
  /\ UNCHANGED tx_backoff_pending

TxRetry(tmo) ==
  /\ HandleTxBackoffDelay(frame, tmo)
  /\ UNCHANGED <<sState, frame, client, txDone>>

\* Bug to catch: the ack that was used stays flagged.
AckedKeepingFlag(tmo) ==
  /\ strayAck' = FALSE
  /\ TxExit("NONE", TRUE, tmo)
  /\ UNCHANGED <<counters, ack_receive_done>>

TxAcked(tmo) ==
  /\ ack_receive_done' = FALSE
  /\ strayAck' = FALSE
  /\ TxExit("NONE", TRUE, tmo)
  /\ UNCHANGED counters

\* Case TX_NO_ACK.  Only a frame that asks for an ack counts its retries.
TxNoAck(tmo) ==
  /\ sTransmitRetry' = IF frame.ackReq THEN Count(sTransmitRetry, MaxRetry)
                                       ELSE sTransmitRetry
  /\ IF sTransmitRetry' = MaxRetry \/ frame.delay = "timed"
     THEN TxExit("NO_ACK", FALSE, tmo) /\ UNCHANGED sTransmitCcaFailCnt
     ELSE TxRetry(tmo) /\ sTransmitCcaFailCnt' = 0
  /\ UNCHANGED ackFlag

\* Case TX_AT_FAIL for a frame the client scheduled.
TxMissed(tmo) ==
  /\ TxExit("NO_ACK", FALSE, tmo)
  /\ UNCHANGED <<counters, ackFlag>>

\* Bug to catch: a failed channel access forgets the retries counted so far.
NoAccessForgettingRetries(result, tmo) ==
  /\ sTransmitCcaFailCnt' = IF result \in {"TX_AT_FAIL", "TX_CCA_FAIL"}
                            THEN Count(sTransmitCcaFailCnt, MaxCcaFail)
                            ELSE sTransmitCcaFailCnt
  /\ IF sTransmitCcaFailCnt' = MaxCcaFail
     THEN TxExit("CHANNEL_ACCESS_FAILURE", FALSE, tmo)
     ELSE TxRetry(tmo)
  /\ sTransmitRetry' = 0
  /\ UNCHANGED ackFlag

\* Cases TX_AT_FAIL, TX_TERMED, TX_CCA_FAIL and TX_PTA_FAIL, which fall through.
TxNoAccess(result, tmo) ==
  /\ sTransmitCcaFailCnt' = IF result \in {"TX_AT_FAIL", "TX_CCA_FAIL"}
                            THEN Count(sTransmitCcaFailCnt, MaxCcaFail)
                            ELSE sTransmitCcaFailCnt
  /\ IF sTransmitCcaFailCnt' = MaxCcaFail
     THEN TxExit("CHANNEL_ACCESS_FAILURE", FALSE, tmo)
     ELSE TxRetry(tmo)
  /\ UNCHANGED <<sTransmitRetry, ackFlag>>

BEE_RadioTx(result, tmo) ==
  \/ /\ result = "TX_OK"
     /\ TxExit("NONE", FALSE, tmo)
     /\ UNCHANGED <<counters, ackFlag>>
  \/ result = "TX_WAIT_ACK" /\ ack_receive_done /\ TxAcked(tmo)
  \/ result = "TX_WAIT_ACK" /\ ~ack_receive_done /\ TxNoAck(tmo)
  \/ result = "TX_NO_ACK" /\ TxNoAck(tmo)
  \/ result = "TX_AT_FAIL" /\ frame.delay = "timed" /\ TxMissed(tmo)
  \/ result = "TX_AT_FAIL" /\ frame.delay # "timed" /\ TxNoAccess(result, tmo)
  \/ result \in {"TX_TERMED", "TX_CCA_FAIL", "TX_PTA_FAIL"} /\ TxNoAccess(result, tmo)

-----------------------------------------------------------------------------
(* The Thread task starts an attempt and blocks on radio_done.             *)

\* The frame is given to the radio, or the time of a delayed frame has expired.
BEE_RadioTxStart(tmo) ==
  \/ /\ op' = "tx"
     /\ pc' = "waitTx"
     /\ ackFresh' = FALSE
     /\ tx_backoff_tmo' = tmo
     /\ UNCHANGED <<radioState, frame, counters, tx_backoff_pending,
                    tx_result, radio_done, ackFlag, clientState>>
  \/ /\ frame.delay # "none"
     /\ tx_result' = "TX_AT_FAIL"
     /\ BEE_RadioTx("TX_AT_FAIL", tmo)
     /\ UNCHANGED <<sDisabled, radio_done, op, ackFresh, pc, aborts>>

\* Bug to catch: the flag survives the attempt it started.
BackoffFlagKept ==
  /\ pc = "run"
  /\ tx_backoff_tmo
  /\ BEE_RadioTxStart(TRUE)
  /\ UNCHANGED <<startEvents, scanEvents>>

\* The flag is cleared before the attempt, which may set it again.
BEE_RadioBackoffTimeout ==
  /\ pc = "run"
  /\ tx_backoff_tmo
  /\ BEE_RadioTxStart(FALSE)
  /\ UNCHANGED <<startEvents, scanEvents>>

\* The event loop dispatches TX_START.
TxStartEvent ==
  /\ pc = "run"
  /\ startEvents > 0
  /\ startEvents' = startEvents - 1
  /\ BEE_RadioTxStart(tx_backoff_tmo)
  /\ UNCHANGED scanEvents

\* os_sem_take returns in BEE_RadioTxStart.
TxFinish ==
  /\ pc = "waitTx"
  /\ radio_done = 1
  /\ radio_done' = 0
  /\ pc' = "run"
  /\ BEE_RadioTx(tx_result, tx_backoff_tmo)
  /\ UNCHANGED <<sDisabled, startEvents, scanEvents, tx_result, op, ackFresh, aborts>>

EdBegin ==
  /\ pc = "run"
  /\ op' = "ed"
  /\ pc' = "waitEd"
  /\ UNCHANGED <<radioState, frame, counters, backoff,
                 tx_result, radio_done, ackFlag, ackFresh, clientState>>

\* The event loop dispatches ED_SCAN.
BEE_RadioEnergyScan ==
  /\ scanEvents > 0
  /\ scanEvents' = scanEvents - 1
  /\ EdBegin

otPlatRadioGetRssi ==
  /\ EdBegin
  /\ UNCHANGED scanEvents

\* Bug to catch: the scan polls the result and leaves the semaphore given.
EdWithoutTake ==
  /\ pc = "waitEd"
  /\ radio_done = 1
  /\ pc' = "run"
  /\ UNCHANGED <<radioState, frame, counters, backoff, scanEvents, radio, clientState>>

\* os_sem_take returns in BEE_RadioEnergyScan or otPlatRadioGetRssi.
EdFinish ==
  /\ pc = "waitEd"
  /\ radio_done = 1
  /\ radio_done' = 0
  /\ pc' = "run"
  /\ UNCHANGED <<radioState, frame, counters, backoff, scanEvents,
                 tx_result, ackFlag, op, ackFresh, clientState>>

-----------------------------------------------------------------------------
(* Interrupts.                                                             *)

\* Bug to catch: the end of the backoff is consumed and TX_START is not sent.
BackoffEndsSilently ==
  /\ tx_backoff_pending
  /\ tx_backoff_pending' = FALSE
  /\ UNCHANGED <<radioState, frame, counters, tx_backoff_tmo, startEvents, scanEvents,
                 radio, pc, clientState>>

\* btcmp1_handler: handle_tx_backoff_pending, when the time has come.
handle_tx_backoff_pending ==
  /\ tx_backoff_pending
  /\ tx_backoff_pending' = FALSE
  /\ startEvents' = startEvents + 1
  /\ UNCHANGED <<radioState, frame, counters, tx_backoff_tmo, scanEvents, radio, pc, clientState>>

\* rxdone_handler for an ACK frame sets the flag whatever the task does: for the
\* enhanced ack of the frame on the air, before or after the interrupt that ends
\* the transmission, and for one that comes too late or answers nothing.
rxdone_ack ==
  /\ ack_receive_done' = TRUE
  /\ \/ /\ pc = "waitTx"
        /\ op = "tx" \/ tx_result = "TX_WAIT_ACK"
        /\ frame.ackReq /\ frame.v2015
        /\ ackFresh' = TRUE
        /\ UNCHANGED strayAck
     \/ /\ strayAck' = TRUE
        /\ UNCHANGED ackFresh
  /\ UNCHANGED <<radioState, frame, counters, backoff, scanEvents,
                 tx_result, radio_done, op, pc, clientState>>

\* The results the radio can report for the frame on the air: a missed time only
\* for a delayed frame.  It may also report a failure after an ack was received.
Reportable(result) ==
  /\ result = "TX_OK" => ~frame.ackReq
  /\ result = "TX_WAIT_ACK" => frame.ackReq
  /\ result = "TX_AT_FAIL" => frame.delay # "none"

\* txn_handler, txnterr_handler and mac_report_pta_grant_failed.  An immediate
\* ack is known from the status of the transmission.
txn_handler(result) ==
  /\ op = "tx"
  /\ Reportable(result)
  /\ tx_result' = result
  /\ radio_done' = 1
  /\ op' = "none"
  /\ IF result = "TX_WAIT_ACK" /\ ~frame.v2015
     THEN ack_receive_done' = TRUE /\ ackFresh' = TRUE
     ELSE UNCHANGED <<ack_receive_done, ackFresh>>
  /\ strayAck' = (strayAck \/ (ack_receive_done /\ result # "TX_WAIT_ACK"))
  /\ UNCHANGED <<radioState, frame, counters, backoff, scanEvents, pc, clientState>>

edscan_handler ==
  /\ op = "ed"
  /\ radio_done' = 1
  /\ op' = "none"
  /\ UNCHANGED <<radioState, frame, counters, backoff, scanEvents,
                 tx_result, ackFlag, pc, ackFresh, clientState>>

Interrupt ==
  \/ handle_tx_backoff_pending
  \/ rxdone_ack
  \/ \E result \in Results : txn_handler(result)
  \/ edscan_handler

TaskStep ==
  \/ BEE_RadioBackoffTimeout
  \/ TxStartEvent
  \/ TxFinish
  \/ BEE_RadioEnergyScan
  \/ otPlatRadioGetRssi
  \/ EdFinish

Next == ClientCall \/ TaskStep \/ Interrupt

Spec == Init /\ [][Next]_vars

\* The task serves its flag and its queue again and again, whatever else it
\* serves in between (EventQueue), and the radio ends what it was given.
Fairness ==
  /\ SF_vars(BEE_RadioBackoffTimeout)
  /\ SF_vars(TxStartEvent)
  /\ WF_vars(TxFinish)
  /\ WF_vars(EdFinish)
  /\ WF_vars(edscan_handler)
  /\ WF_vars(\E result \in Results : txn_handler(result))

FairSpec == Spec /\ Fairness

-----------------------------------------------------------------------------
(* Properties.                                                             *)

TypeOK ==
  /\ sState \in {"DISABLED", "SLEEP", "RECEIVE", "TRANSMIT"}
  /\ sDisabled \in BOOLEAN
  /\ frame \in Frames
  /\ sTransmitRetry \in 0 .. MaxRetry + 1
  /\ sTransmitCcaFailCnt \in 0 .. MaxCcaFail + 1
  /\ tx_backoff_tmo \in BOOLEAN
  /\ tx_backoff_pending \in BOOLEAN
  /\ startEvents \in Nat
  /\ scanEvents \in 0 .. 1
  /\ tx_result \in Results
  /\ radio_done \in 0 .. 1
  /\ ack_receive_done \in BOOLEAN
  /\ op \in {"none", "tx", "ed"}
  /\ pc \in {"run", "waitTx", "waitEd"}
  /\ client \in {"idle", "waiting"}
  /\ aborts \in 0 .. MaxAborts
  /\ ackFresh \in BOOLEAN /\ strayAck \in BOOLEAN
  /\ txDone \in [error : Errors, ack : BOOLEAN]

One(b) == IF b THEN 1 ELSE 0
Tokens == One(tx_backoff_tmo) + One(tx_backoff_pending) + startEvents + One(pc = "waitTx")

\* A client that waits for otPlatRadioTxDone waits for something: its frame is
\* in one of the four places, even when earlier transmissions were given up.
NeverForgotten == client = "waiting" => Tokens > 0

\* Until the client first gives up, its frame is in exactly one place while it
\* waits and in none otherwise: otPlatRadioTxDone comes once, and
\* BEE_RadioTxStart never runs on a frame buffer that the client owns again.
\* Each time it gives up leaves at most one place more.
SingleToken == Tokens = One(client = "waiting")
TokensLeft == Tokens <= One(client = "waiting") + aborts
OneStartToken == TokensLeft /\ (aborts = 0 => SingleToken)

\* The task is blocked on radio_done exactly while the radio works on what the
\* task gave it or has finished it: no give is lost, none is left over for the
\* next operation.
SemaphoreOfOperation ==
  /\ op = "tx" => pc = "waitTx"
  /\ op = "ed" => pc = "waitEd"
  /\ radio_done = One(pc # "run" /\ op = "none")

\* Between attempts the counters are below the limits they are compared with:
\* the == tests of BEE_RadioTx cannot be jumped over.
CountersBelowLimit ==
  client = "waiting" => sTransmitRetry < MaxRetry /\ sTransmitCcaFailCnt < MaxCcaFail

\* When the task looks at ack_receive_done, the flag speaks of the attempt that
\* has just ended, or of a stray ack that no answer has used up yet: an ack that
\* was used is not left over for the next frame.
AckOfThisAttempt ==
  ack_receive_done => strayAck \/ (pc = "waitTx" /\ ackFresh)

\* Until the client first gives up, otPlatRadioGetState says TRANSMIT only
\* while it waits.
TransmitWhileWaiting == sState = "TRANSMIT" => client = "waiting"
TransmitIsPending == aborts = 0 => TransmitWhileWaiting

\* The last attempt failed in a way that no counter of the driver bounds: the
\* radio was taken by the coexisting protocol, or no ack came for a frame that
\* asked for none (which also resets the count of failed channel accesses).
Uncounted ==
  \/ tx_result \in {"TX_TERMED", "TX_PTA_FAIL"}
  \/ tx_result = "TX_NO_ACK" /\ ~frame.ackReq

\* The radio took an ack for the frame on the air, and delivered it.
Acked == pc = "waitTx" /\ op = "none" /\ tx_result = "TX_WAIT_ACK" /\ ackFresh

\* The transmit path as its client sees it.
Service == INSTANCE TxService WITH
  acked <- Acked, stray <- strayAck, gaveUp <- aborts > 0

\* A frame that asks for an ack is reported as sent if it was acknowledged in its
\* last attempt, and otherwise only for a stray ack: each of those can pass for
\* the ack of one frame and no more.  Every answer but those to a client that gave
\* up is the only one to a transmission.
ImplementsService == Service!Spec

\* Every transmission is answered, provided that no backoff lasts for ever and
\* that attempts do not fail for ever in a way the driver does not count.
TransmitAnswered ==
  []<>~tx_backoff_pending /\ <>[](pc = "waitTx" /\ op = "none" => ~Uncounted)
    => (client = "waiting" ~> client = "idle")
=============================================================================
