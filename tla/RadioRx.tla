------------------------------- MODULE RadioRx -------------------------------
(***************************************************************************)
(* The receive path of radio.c.  Interrupts put received frames into the   *)
(* ring rx_queue and build enhanced acks in the buffer sEnhAckPsdu; the    *)
(* Thread task reads the ring in BEE_RadioRx, describes each frame with    *)
(* how it was acknowledged, and hands it to otPlatRadioReceiveDone.        *)
(*                                                                         *)
(* The buffer, the MAC's source match status and sMacFrameCounter are      *)
(* shared by interrupts and task.  An interrupt handler is one step; the   *)
(* task's increment of sMacFrameCounter is a load and a store, because     *)
(* BEE_RadioTxStart makes it with interrupts enabled.                      *)
(***************************************************************************)
EXTENDS Integers

CONSTANTS
  RX_BUF_SIZE,   \* slots of the ring
  Frames,        \* the frames on the air
  NONE,          \* no frame
  CounterRange,  \* values of sMacFrameCounter, 2^32 in the code
  MayProbe       \* may enhanced-ack probing be configured?

\* sec: not secured, with one of the three keys of the radio, with another key.
\* match: its source is in the source match table.
AnyFrame ==
  [ackReq : BOOLEAN, v2015 : BOOLEAN, sec : {"none", "known", "other"}, match : BOOLEAN]

\* What an ack says of itself.
Acks == [sec : BOOLEAN, pending : BOOLEAN]

\* A frame and the ack it got.
Received == [frame : Frames, ack : Acks]

ASSUME RadioRxAssumption ==
  /\ RX_BUF_SIZE \in Nat \ {0}
  /\ CounterRange \in Nat \ {0}
  /\ Frames \subseteq AnyFrame
  /\ NONE \notin Received
  /\ MayProbe \in BOOLEAN

VARIABLES
  rx_queue, rx_head, rx_tail,
  rx_info,             \* mRxInfo of the otRadioFrame in each slot
  pc,                  \* the task: "run", "rx", "deliver", "count"
  reading,             \* the frame in otPlatRadioReceiveDone, as it was read
  spinning,            \* the task waits in setChannel
  loaded,              \* the counter the task has loaded to increment it
  sEnhAckPsdu,         \* the header of the last enhanced ack built
  enhack_frm_len,      \* is enhack_frm_len nonzero?
  enhack_frm_sec_en,
  enhAckProbing,       \* is enhAckProbingDataLen nonzero?
  sMacFrameCounter,
  waitAckTxDoneTimer,  \* does sWaitAckTxDoneTimer run?
  srcMatch,            \* the MAC's source match status
  txEnhAckPending,     \* the MAC holds an enhanced ack back until rxdone
  nonce,               \* the counter in the nonce last loaded
  onAir,               \* the frame whose header was received
  ackTx,               \* the enhanced ack the MAC was told to send
  psduSlot             \* the slot of the frame that sEnhAckPsdu answers

ring == <<rx_queue, rx_head, rx_tail>>
task == <<pc, reading, spinning, loaded>>
enhAck == <<sEnhAckPsdu, enhack_frm_len, enhack_frm_sec_en, psduSlot>>
counter == <<sMacFrameCounter, nonce>>
vars == <<ring, rx_info, task, enhAck, enhAckProbing, counter, waitAckTxDoneTimer,
          srcMatch, txEnhAckPending, onAir, ackTx>>

Slots == 0 .. RX_BUF_SIZE - 1
Counters == 0 .. CounterRange - 1
IncrCounter(c) == (c + 1) % CounterRange

Incr(s) == (s + 1) % RX_BUF_SIZE
NoAck == [sec |-> FALSE, pending |-> FALSE]
Headers == [sec : BOOLEAN, pending : BOOLEAN, counter : Counters]
SentAcks == [to : Frames, header : Headers, nonce : Counters]
WantsEnhAck(f) == f.ackReq /\ f.v2015
WantsImmAck(f) == f.ackReq /\ ~f.v2015

Init ==
  /\ rx_queue = [s \in Slots |-> NONE]
  /\ rx_head = 0
  /\ rx_tail = 0
  /\ rx_info = [s \in Slots |-> NoAck]
  /\ pc = "run"
  /\ reading = NONE
  /\ spinning = FALSE
  /\ loaded = 0
  /\ sEnhAckPsdu = [sec |-> FALSE, pending |-> FALSE, counter |-> 0]
  /\ enhack_frm_len = FALSE
  /\ enhack_frm_sec_en = FALSE
  /\ enhAckProbing = FALSE
  /\ sMacFrameCounter = 0
  /\ waitAckTxDoneTimer = FALSE
  /\ srcMatch = FALSE
  /\ txEnhAckPending = FALSE
  /\ nonce = 0
  /\ onAir = NONE
  /\ ackTx = NONE
  /\ psduSlot = -1

-----------------------------------------------------------------------------
(* The task.                                                               *)

BEE_RadioRxPending ==
  /\ pc = "run" /\ ~spinning
  /\ pc' = "rx"
  /\ UNCHANGED <<ring, rx_info, reading, spinning, loaded, enhAck, enhAckProbing,
                 counter, waitAckTxDoneTimer, srcMatch, txEnhAckPending, onAir, ackTx>>

RadioRxDone ==
  /\ pc = "rx"
  /\ rx_head = rx_tail
  /\ pc' = "run"
  /\ UNCHANGED <<ring, rx_info, reading, spinning, loaded, enhAck, enhAckProbing,
                 counter, waitAckTxDoneTimer, srcMatch, txEnhAckPending, onAir, ackTx>>

\* A frame of version 2015 takes its ack from sEnhAckPsdu; any other leaves
\* mAckedWithSecEnhAck as the last frame in its slot had it.
readFrame ==
  /\ pc = "rx"
  /\ rx_head # rx_tail
  /\ LET f == rx_queue[rx_head].frame IN
       \/ /\ WantsEnhAck(f)
          /\ rx_info' = [rx_info EXCEPT ![rx_head] =
                           [sec |-> sEnhAckPsdu.sec, pending |-> sEnhAckPsdu.pending]]
          /\ UNCHANGED srcMatch
       \/ /\ WantsImmAck(f)
          /\ rx_info' = [rx_info EXCEPT ![rx_head].pending = srcMatch]
          /\ srcMatch' = FALSE
       \/ /\ ~f.ackReq
          /\ rx_info' = [rx_info EXCEPT ![rx_head].pending = FALSE]
          /\ UNCHANGED srcMatch
  /\ reading' = rx_queue[rx_head]
  /\ pc' = "deliver"
  /\ UNCHANGED <<ring, spinning, loaded, enhAck, enhAckProbing, counter, waitAckTxDoneTimer,
                 txEnhAckPending, onAir, ackTx>>

\* Bug to catch: the frame that is being handled is left in the ring.
DoneWithoutAdvance ==
  /\ pc = "deliver" /\ ~spinning
  /\ reading' = NONE
  /\ pc' = "rx"
  /\ UNCHANGED <<ring, rx_info, spinning, loaded, enhAck, enhAckProbing,
                 counter, waitAckTxDoneTimer, srcMatch, txEnhAckPending, onAir, ackTx>>

\* otPlatRadioReceiveDone returns; only then is the slot free.
ReceiveDone ==
  /\ pc = "deliver" /\ ~spinning
  /\ rx_head' = Incr(rx_head)
  /\ reading' = NONE
  /\ pc' = "rx"
  /\ UNCHANGED <<rx_queue, rx_tail, rx_info, spinning, loaded, enhAck, enhAckProbing,
                 counter, waitAckTxDoneTimer, srcMatch, txEnhAckPending, onAir, ackTx>>

\* OpenThread calls the radio from its main loop and while it handles a frame.
MayCall == pc \in {"run", "deliver"} /\ ~spinning

\* setChannel polls the timer until it has stopped.
setChannel ==
  /\ MayCall
  /\ spinning' = TRUE
  /\ UNCHANGED <<ring, rx_info, pc, reading, loaded, enhAck, enhAckProbing, counter,
                 waitAckTxDoneTimer, srcMatch, txEnhAckPending, onAir, ackTx>>

ChannelSet ==
  /\ spinning
  /\ ~waitAckTxDoneTimer
  /\ spinning' = FALSE
  /\ UNCHANGED <<ring, rx_info, pc, reading, loaded, enhAck, enhAckProbing, counter,
                 waitAckTxDoneTimer, srcMatch, txEnhAckPending, onAir, ackTx>>

otPlatRadioSetMacFrameCounter(c) ==
  /\ MayCall
  /\ sMacFrameCounter' = c
  /\ UNCHANGED <<ring, rx_info, task, enhAck, enhAckProbing, nonce, waitAckTxDoneTimer,
                 srcMatch, txEnhAckPending, onAir, ackTx>>

otPlatRadioConfigureEnhAckProbing(on) ==
  /\ MayCall
  /\ MayProbe
  /\ enhAckProbing' = on
  /\ UNCHANGED <<ring, rx_info, task, enhAck, counter, waitAckTxDoneTimer,
                 srcMatch, txEnhAckPending, onAir, ackTx>>

\* sMacFrameCounter++ in BEE_RadioTxStart
LoadCounter ==
  /\ pc = "run" /\ ~spinning
  /\ loaded' = sMacFrameCounter
  /\ pc' = "count"
  /\ UNCHANGED <<ring, rx_info, reading, spinning, enhAck, enhAckProbing, counter,
                 waitAckTxDoneTimer, srcMatch, txEnhAckPending, onAir, ackTx>>

StoreCounter ==
  /\ pc = "count"
  /\ sMacFrameCounter' = IncrCounter(loaded)
  /\ pc' = "run"
  /\ UNCHANGED <<ring, rx_info, reading, spinning, loaded, enhAck, enhAckProbing, nonce,
                 waitAckTxDoneTimer, srcMatch, txEnhAckPending, onAir, ackTx>>

-----------------------------------------------------------------------------
(* Interrupts.                                                             *)

\* startWaitAckTxDoneProtection: no timer is started after the end of the ack, or
\* if there is none.  The bit waitAckTxDone is in StayAwake.
ProtectAck ==
  \/ waitAckTxDoneTimer' = TRUE
  \/ UNCHANGED waitAckTxDoneTimer

\* Bug to catch: the counter is incremented before the nonce is made of it.
IncrementedFirst(f, secured) ==
  IF secured /\ f.sec = "known"
  THEN nonce' = IncrCounter(sMacFrameCounter) /\ sMacFrameCounter' = nonce'
  ELSE UNCHANGED counter

\* txAckProcessSecurity: without a key no nonce is loaded.
txAckProcessSecurity(f, secured) ==
  IF secured /\ f.sec = "known"
  THEN nonce' = sMacFrameCounter /\ sMacFrameCounter' = IncrCounter(sMacFrameCounter)
  ELSE UNCHANGED counter

\* The end of handleEnhAckTransmission and of rxdone_handler: the ack is
\* secured and triggered, which the MAC may refuse.
TransmitEnhAck(f, header, secured) ==
  /\ txAckProcessSecurity(f, secured)
  /\ \/ ackTx' = [to |-> f, header |-> header, nonce |-> nonce'] /\ ProtectAck
     \/ ackTx' = NONE /\ UNCHANGED waitAckTxDoneTimer

\* The header of a frame has arrived; the radio is neither receiving nor sending.
HeaderArrives(f, ack) ==
  /\ onAir = NONE
  /\ ackTx = NONE
  /\ onAir' = [frame |-> f, ack |-> ack]
  /\ UNCHANGED <<ring, rx_info, task, enhAckProbing>>

\* rxely_handler for a frame that asks for no ack
rxely_none(f) ==
  /\ ~f.ackReq
  /\ HeaderArrives(f, NoAck)
  /\ UNCHANGED <<enhAck, counter, waitAckTxDoneTimer, srcMatch, txEnhAckPending, ackTx>>

\* rxely_handler for a frame the MAC acknowledges by itself
rxely_imm(f) ==
  /\ WantsImmAck(f)
  /\ HeaderArrives(f, [sec |-> FALSE, pending |-> f.match])
  /\ srcMatch' = (srcMatch \/ f.match)
  /\ ProtectAck
  /\ UNCHANGED <<enhAck, counter, txEnhAckPending, ackTx>>

\* The header that rxely_handler writes.
HeaderFor(f) ==
  [sec |-> f.sec # "none", pending |-> srcMatch \/ f.match, counter |-> sMacFrameCounter]

\* With probing the ack reports the quality of the frame, known at its end.
handleEnhAckTx(f, header) ==
  IF enhAckProbing
  THEN txEnhAckPending' = TRUE /\ UNCHANGED <<counter, waitAckTxDoneTimer, ackTx>>
  ELSE TransmitEnhAck(f, header, header.sec) /\ UNCHANGED txEnhAckPending

\* rxely_handler for a frame that gets an enhanced ack
rxely_enh(f) ==
  /\ WantsEnhAck(f)
  /\ HeaderArrives(f, [sec |-> HeaderFor(f).sec, pending |-> HeaderFor(f).pending])
  /\ srcMatch' = FALSE
  /\ sEnhAckPsdu' = HeaderFor(f)
  /\ enhack_frm_len' = TRUE
  /\ enhack_frm_sec_en' = HeaderFor(f).sec
  /\ psduSlot' = rx_tail
  /\ handleEnhAckTx(f, HeaderFor(f))

rxely_handler(f) == rxely_none(f) \/ rxely_imm(f) \/ rxely_enh(f)

\* The MAC drops a damaged frame and the ack for it.
FrameDamaged ==
  /\ onAir # NONE
  /\ onAir' = NONE
  /\ ackTx' = NONE
  /\ txEnhAckPending' = FALSE
  /\ psduSlot' = IF WantsEnhAck(onAir.frame) THEN -1 ELSE psduSlot
  /\ UNCHANGED <<ring, rx_info, task, sEnhAckPsdu, enhack_frm_len, enhack_frm_sec_en,
                 enhAckProbing, counter, waitAckTxDoneTimer, srcMatch>>

\* Bug to catch: any ack in the buffer is sent, held back or not.
SendByLength ==
  IF enhack_frm_len
  THEN /\ TransmitEnhAck(onAir.frame, sEnhAckPsdu, enhack_frm_sec_en)
       /\ txEnhAckPending' = FALSE
  ELSE UNCHANGED <<counter, waitAckTxDoneTimer, ackTx, txEnhAckPending>>

\* The ack held back by rxely_handler.
SendDeferred ==
  IF enhack_frm_len /\ txEnhAckPending
  THEN /\ TransmitEnhAck(onAir.frame, sEnhAckPsdu, enhack_frm_sec_en)
       /\ txEnhAckPending' = FALSE
  ELSE UNCHANGED <<counter, waitAckTxDoneTimer, ackTx, txEnhAckPending>>

\* Bug to catch: the frame is stored behind the slot that is published.
RxdonePastTail ==
  /\ onAir # NONE
  /\ rx_queue' = [rx_queue EXCEPT ![Incr(rx_tail)] = onAir]
  /\ rx_tail' = Incr(rx_tail)
  /\ SendDeferred
  /\ onAir' = NONE
  /\ UNCHANGED <<rx_head, rx_info, task, enhAck, enhAckProbing, srcMatch>>

rxdone_handler ==
  /\ onAir # NONE
  /\ rx_queue' = [rx_queue EXCEPT ![rx_tail] = onAir]
  /\ rx_tail' = Incr(rx_tail)
  /\ SendDeferred
  /\ onAir' = NONE
  /\ UNCHANGED <<rx_head, rx_info, task, enhAck, enhAckProbing, srcMatch>>

mac_report_enhack_transmit_done ==
  /\ ackTx # NONE
  /\ onAir = NONE
  /\ enhack_frm_len' = FALSE
  /\ enhack_frm_sec_en' = FALSE
  /\ waitAckTxDoneTimer' = FALSE
  /\ ackTx' = NONE
  /\ UNCHANGED <<ring, rx_info, task, sEnhAckPsdu, psduSlot, enhAckProbing, counter,
                 srcMatch, txEnhAckPending, onAir>>

waitAckTxDoneProtectionTimeout ==
  /\ waitAckTxDoneTimer
  /\ waitAckTxDoneTimer' = FALSE
  /\ UNCHANGED <<ring, rx_info, task, enhAck, enhAckProbing, counter,
                 srcMatch, txEnhAckPending, onAir, ackTx>>

TaskStep ==
  \/ BEE_RadioRxPending
  \/ RadioRxDone
  \/ readFrame
  \/ ReceiveDone
  \/ setChannel
  \/ ChannelSet
  \/ \E c \in Counters : otPlatRadioSetMacFrameCounter(c)
  \/ \E on \in BOOLEAN : otPlatRadioConfigureEnhAckProbing(on)
  \/ LoadCounter
  \/ StoreCounter

Interrupt ==
  \/ \E f \in Frames : rxely_handler(f)
  \/ FrameDamaged
  \/ rxdone_handler
  \/ mac_report_enhack_transmit_done
  \/ waitAckTxDoneProtectionTimeout

Next == TaskStep \/ Interrupt

Spec == Init /\ [][Next]_vars

\* The task runs and OpenThread's handlers return; setChannel polls far more
\* often than frames arrive; a timer that runs expires.
Fairness ==
  /\ SF_vars(BEE_RadioRxPending) /\ WF_vars(readFrame) /\ SF_vars(ReceiveDone)
  /\ WF_vars(StoreCounter)
  /\ SF_vars(ChannelSet)
  /\ WF_vars(waitAckTxDoneProtectionTimeout)

FairSpec == Spec /\ Fairness

-----------------------------------------------------------------------------
(* Properties.                                                             *)

TypeOK ==
  /\ rx_queue \in [Slots -> Received \cup {NONE}]
  /\ rx_head \in Slots /\ rx_tail \in Slots
  /\ rx_info \in [Slots -> Acks]
  /\ pc \in {"run", "rx", "deliver", "count"}
  /\ reading \in Received \cup {NONE}
  /\ spinning \in BOOLEAN
  /\ loaded \in Counters
  /\ sEnhAckPsdu \in Headers
  /\ enhack_frm_len \in BOOLEAN /\ enhack_frm_sec_en \in BOOLEAN
  /\ enhAckProbing \in BOOLEAN
  /\ sMacFrameCounter \in Counters /\ nonce \in Counters
  /\ waitAckTxDoneTimer \in BOOLEAN
  /\ srcMatch \in BOOLEAN /\ txEnhAckPending \in BOOLEAN
  /\ onAir \in Received \cup {NONE}
  /\ ackTx \in SentAcks \cup {NONE}
  /\ psduSlot \in Slots \cup {-1}

\* The ring implements FrameFifo.  The slot at rx_head is lent to OpenThread
\* while otPlatRadioReceiveDone runs, and no longer waits.
Lent == IF pc = "deliver" THEN 1 ELSE 0

Waiting == (rx_tail - rx_head - Lent) % RX_BUF_SIZE

WaitingFrames ==
  [i \in 1 .. Waiting |-> rx_queue[(rx_head + Lent + i - 1) % RX_BUF_SIZE]]

Fifo == INSTANCE FrameFifo WITH
  AllFrames <- Received, NoFrame <- NONE, Capacity <- RX_BUF_SIZE,
  fifo <- WaitingFrames, lent <- IF pc = "deliver" THEN rx_queue[rx_head] ELSE NONE

\* Frames are delivered once each and in order, and the buffer OpenThread looks
\* at stays as it is, up to the overflow that FrameFifo states.
ImplementsFifo == Fifo!Spec

\* The enhanced ack that goes out is the one built for the frame it answers,
\* whatever was refused, damaged or held back before (handleEnhAckTx,
\* rxdone_handler).
AckForThisFrame ==
  ackTx # NONE =>
    /\ WantsEnhAck(ackTx.to)
    /\ ackTx.header.sec = (ackTx.to.sec # "none")
    /\ onAir # NONE => onAir.frame = ackTx.to

\* An ack sent while its frame is still arriving, not held back for probing, has
\* the frame counter in its header that is in the nonce which secures it:
\* rxely_handler and txAckProcessSecurity read sMacFrameCounter apart.
AckCounterIsNonce ==
  ackTx # NONE /\ onAir # NONE /\ ackTx.to.sec = "known"
    => ackTx.header.counter = ackTx.nonce

\* The frame at the head is eventually delivered, or lost to an overflow.
HeadDelivered ==
  \A s \in Slots : (rx_head = s /\ rx_tail # s) ~> (rx_head # s \/ rx_tail = s)

\* "Inform if this frame was acknowledged with frame pending set." and "Inform
\* if this frame was acknowledged with secured Enh-ACK." (readFrame): what
\* OpenThread is told of a frame's ack is what was sent for that frame.
AckInfoOfThisFrame ==
  pc = "deliver" /\ rx_queue[rx_head] = reading
    => /\ rx_info[rx_head].sec = reading.ack.sec
       /\ rx_info[rx_head].pending = reading.ack.pending
=============================================================================
