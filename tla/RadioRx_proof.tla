--------------------------- MODULE RadioRx_proof ---------------------------
(* Theorems about RadioRx, for a ring of any size and any frames. *)
EXTENDS RadioRx, RingLemmas

N == RX_BUF_SIZE

LEMMA RingFacts ==
  /\ N \in Sizes
  /\ Slots = Ring(N)
  /\ \A s \in Slots : Incr(s) = After(N, s) /\ Incr(s) \in Slots
<1>1. N \in Sizes /\ Slots = Ring(N)
  BY RadioRxAssumption DEF N, Sizes, Slots, Ring
<1>2. ASSUME NEW s \in Slots PROVE Incr(s) = After(N, s) /\ Incr(s) \in Slots
  <2>1. Incr(s) = After(N, s)
    BY DEF Incr, After, N
  <2> QED
    BY <2>1, <1>1, AfterType
<1> QED
  BY <1>1, <1>2

LEMMA CounterFacts ==
  0 \in Counters /\ \A c \in Counters : IncrCounter(c) \in Counters
  BY RadioRxAssumption DEF Counters, IncrCounter

LEMMA FrameFacts ==
  ASSUME NEW f \in Frames
  PROVE  /\ f \in AnyFrame
         /\ WantsEnhAck(f) \in BOOLEAN /\ WantsImmAck(f) \in BOOLEAN
         /\ f.ackReq \in BOOLEAN /\ f.match \in BOOLEAN /\ f.v2015 \in BOOLEAN
  BY RadioRxAssumption DEF AnyFrame, WantsEnhAck, WantsImmAck

-----------------------------------------------------------------------------
(* Type correctness.                                                       *)

\* The parts of TypeOK, by who writes them.
RingType ==
  /\ rx_queue \in [Slots -> Received \cup {NONE}]
  /\ rx_head \in Slots /\ rx_tail \in Slots
  /\ rx_info \in [Slots -> Acks]

TaskType ==
  /\ pc \in {"run", "rx", "deliver", "count"}
  /\ reading \in Received \cup {NONE}
  /\ spinning \in BOOLEAN
  /\ loaded \in Counters

EnhAckType ==
  /\ sEnhAckPsdu \in Headers
  /\ enhack_frm_len \in BOOLEAN /\ enhack_frm_sec_en \in BOOLEAN
  /\ psduSlot \in Slots \cup {-1}

AirType ==
  /\ sMacFrameCounter \in Counters /\ nonce \in Counters
  /\ waitAckTxDoneTimer \in BOOLEAN
  /\ onAir \in Received \cup {NONE}
  /\ ackTx \in SentAcks \cup {NONE}

FlagType ==
  enhAckProbing \in BOOLEAN /\ srcMatch \in BOOLEAN /\ txEnhAckPending \in BOOLEAN

LEMMA TypeParts == TypeOK <=> RingType /\ TaskType /\ EnhAckType /\ AirType /\ FlagType
  BY DEF TypeOK, RingType, TaskType, EnhAckType, AirType, FlagType

LEMMA TypePartsNext ==
  TypeOK' <=> RingType' /\ TaskType' /\ EnhAckType' /\ AirType' /\ FlagType'
  BY DEF TypeOK, RingType, TaskType, EnhAckType, AirType, FlagType

LEMMA TypeInit == Init => TypeOK
<1> SUFFICES ASSUME Init PROVE TypeOK
  OBVIOUS
<1>1. 0 \in Slots
  BY RadioRxAssumption DEF Slots
<1>2. NoAck \in Acks
  BY DEF NoAck, Acks
<1>3. RingType
  BY <1>1, <1>2 DEF Init, RingType
<1>4. sEnhAckPsdu \in Headers
  BY CounterFacts DEF Init, Headers
<1> QED
  BY <1>1, <1>3, <1>4, CounterFacts, TypeParts
     DEF Init, TaskType, EnhAckType, AirType, FlagType

LEMMA TypeTask ==
  ASSUME TypeOK, TaskStep
  PROVE  TypeOK'
<1> USE TypeParts, TypePartsNext
<1>1. CASE BEE_RadioRxPending
  BY <1>1 DEF BEE_RadioRxPending, RingType, TaskType, EnhAckType, AirType, FlagType,
              ring, enhAck, counter
<1>2. CASE RadioRxDone
  BY <1>2 DEF RadioRxDone, RingType, TaskType, EnhAckType, AirType, FlagType,
              ring, enhAck, counter
<1>3. CASE readFrame
  <2>1. /\ UNCHANGED <<ring, spinning, loaded, enhAck, enhAckProbing, counter,
                       waitAckTxDoneTimer, txEnhAckPending, onAir, ackTx>>
        /\ pc' = "deliver" /\ reading' = rx_queue[rx_head]
    BY <1>3 DEF readFrame
  <2>2. srcMatch' \in BOOLEAN
    BY <1>3 DEF readFrame, FlagType
  <2>3. rx_info' \in [Slots -> Acks]
    <3>1. /\ rx_head \in Slots /\ rx_info \in [Slots -> Acks] /\ rx_info[rx_head] \in Acks
          /\ sEnhAckPsdu \in Headers /\ srcMatch \in BOOLEAN
      BY DEF RingType, EnhAckType, FlagType
    <3>2. ASSUME NEW b \in BOOLEAN
          PROVE  [rx_info[rx_head] EXCEPT !.pending = b] \in Acks
      BY <3>1 DEF Acks
    <3>3. [sec |-> sEnhAckPsdu.sec, pending |-> sEnhAckPsdu.pending] \in Acks
      BY <3>1 DEF Headers, Acks
    <3>4. \E a \in Acks : rx_info' = [rx_info EXCEPT ![rx_head] = a]
      <4>1. \/ rx_info' = [rx_info EXCEPT ![rx_head] =
                             [sec |-> sEnhAckPsdu.sec, pending |-> sEnhAckPsdu.pending]]
            \/ rx_info' = [rx_info EXCEPT ![rx_head] =
                             [rx_info[rx_head] EXCEPT !.pending = srcMatch]]
            \/ rx_info' = [rx_info EXCEPT ![rx_head] =
                             [rx_info[rx_head] EXCEPT !.pending = FALSE]]
        BY <1>3 DEF readFrame
      <4> QED
        BY <3>1, <3>2, <3>3, <4>1
    <3> QED
      BY <3>1, <3>4
  <2> QED
    BY <2>1, <2>2, <2>3 DEF RingType, TaskType, EnhAckType, AirType, FlagType,
                            ring, enhAck, counter
<1>4. CASE ReceiveDone
  BY <1>4, RingFacts DEF ReceiveDone, RingType, TaskType, EnhAckType, AirType, FlagType,
                         enhAck, counter
<1>5. CASE setChannel
  BY <1>5 DEF setChannel, RingType, TaskType, EnhAckType, AirType, FlagType,
              ring, enhAck, counter
<1>6. CASE ChannelSet
  BY <1>6 DEF ChannelSet, RingType, TaskType, EnhAckType, AirType, FlagType,
              ring, enhAck, counter
<1>7. ASSUME NEW c \in Counters, otPlatRadioSetMacFrameCounter(c)
      PROVE  TypeOK'
  BY <1>7 DEF otPlatRadioSetMacFrameCounter, RingType, TaskType, EnhAckType, AirType,
              FlagType, ring, task, enhAck
<1>8. ASSUME NEW on \in BOOLEAN, otPlatRadioConfigureEnhAckProbing(on)
      PROVE  TypeOK'
  BY <1>8 DEF otPlatRadioConfigureEnhAckProbing, RingType, TaskType, EnhAckType, AirType,
              FlagType, ring, task, enhAck, counter
<1>9. CASE LoadCounter
  BY <1>9 DEF LoadCounter, RingType, TaskType, EnhAckType, AirType, FlagType,
              ring, enhAck, counter
<1>10. CASE StoreCounter
  BY <1>10, CounterFacts DEF StoreCounter, RingType, TaskType, EnhAckType, AirType,
              FlagType, ring, enhAck
<1> QED
  BY <1>1, <1>2, <1>3, <1>4, <1>5, <1>6, <1>7, <1>8, <1>9, <1>10 DEF TaskStep

LEMMA HeaderType ==
  ASSUME NEW f \in Frames, srcMatch \in BOOLEAN, sMacFrameCounter \in Counters
  PROVE  HeaderFor(f) \in Headers
<1>1. (f.sec # "none") \in BOOLEAN /\ (srcMatch \/ f.match) \in BOOLEAN
  BY FrameFacts
<1> QED
  BY <1>1 DEF HeaderFor, Headers

\* What the two senders of an enhanced ack change.
LEMMA TransmitType ==
  ASSUME AirType, onAir' \in Received \cup {NONE},
         NEW f \in Frames, NEW header \in Headers, NEW secured,
         TransmitEnhAck(f, header, secured)
  PROVE  AirType'
<1>1. sMacFrameCounter' \in Counters /\ nonce' \in Counters
  BY CounterFacts DEF TransmitEnhAck, txAckProcessSecurity, AirType, counter
<1>2. waitAckTxDoneTimer' \in BOOLEAN
  BY DEF TransmitEnhAck, ProtectAck, AirType
<1>3. ackTx' \in SentAcks \cup {NONE}
  BY <1>1 DEF TransmitEnhAck, SentAcks
<1> QED
  BY <1>1, <1>2, <1>3 DEF AirType

LEMMA UnchangedAir ==
  ASSUME AirType, onAir' \in Received \cup {NONE}, UNCHANGED <<counter, waitAckTxDoneTimer, ackTx>>
  PROVE  AirType'
  BY DEF AirType, counter

LEMMA TypeHeader ==
  ASSUME TypeOK, NEW f \in Frames, rxely_handler(f)
  PROVE  TypeOK'
<1> USE TypeParts, TypePartsNext
<1>1. ASSUME NEW a \in Acks, HeaderArrives(f, a)
      PROVE  RingType' /\ TaskType' /\ onAir' \in Received \cup {NONE}
             /\ enhAckProbing' \in BOOLEAN
  BY <1>1 DEF HeaderArrives, RingType, TaskType, FlagType, Received, ring, task
<1>2. CASE rxely_none(f)
  <2>1. NoAck \in Acks
    BY DEF NoAck, Acks
  <2>2. RingType' /\ TaskType' /\ onAir' \in Received \cup {NONE} /\ enhAckProbing' \in BOOLEAN
    BY <1>1, <1>2, <2>1 DEF rxely_none
  <2> QED
    BY <1>2, <2>2, UnchangedAir DEF rxely_none, EnhAckType, FlagType, enhAck
<1>3. CASE rxely_imm(f)
  <2>1. [sec |-> FALSE, pending |-> f.match] \in Acks
    BY FrameFacts DEF Acks
  <2>2. RingType' /\ TaskType' /\ onAir' \in Received \cup {NONE} /\ enhAckProbing' \in BOOLEAN
    BY <1>1, <1>3, <2>1 DEF rxely_imm
  <2>3. srcMatch' \in BOOLEAN /\ UNCHANGED <<enhAck, counter, txEnhAckPending, ackTx>>
    BY <1>3, FrameFacts DEF rxely_imm, FlagType
  <2>4. waitAckTxDoneTimer' \in BOOLEAN
    BY <1>3 DEF rxely_imm, ProtectAck, AirType
  <2> QED
    BY <2>2, <2>3, <2>4 DEF EnhAckType, FlagType, AirType, enhAck, counter
<1>4. CASE rxely_enh(f)
  <2>1. HeaderFor(f) \in Headers
    BY HeaderType DEF FlagType, AirType
  <2>2. [sec |-> HeaderFor(f).sec, pending |-> HeaderFor(f).pending] \in Acks
    BY <2>1 DEF Headers, Acks
  <2>3. RingType' /\ TaskType' /\ onAir' \in Received \cup {NONE} /\ enhAckProbing' \in BOOLEAN
    BY <1>1, <1>4, <2>2 DEF rxely_enh
  <2>4. EnhAckType'
    BY <1>4, <2>1 DEF rxely_enh, EnhAckType, RingType, Headers
  <2>5. AirType' /\ txEnhAckPending' \in BOOLEAN
    <3>1. CASE UNCHANGED <<counter, waitAckTxDoneTimer, ackTx>> /\ txEnhAckPending' = TRUE
      BY <3>1, <2>3, UnchangedAir
    <3>2. CASE TransmitEnhAck(f, HeaderFor(f), HeaderFor(f).sec) /\ UNCHANGED txEnhAckPending
      BY <3>2, <2>1, <2>3, TransmitType DEF FlagType
    <3> QED
      BY <1>4, <3>1, <3>2 DEF rxely_enh, handleEnhAckTx
  <2>6. srcMatch' = FALSE
    BY <1>4 DEF rxely_enh
  <2> QED
    BY <2>3, <2>4, <2>5, <2>6 DEF FlagType
<1> QED
  BY <1>2, <1>3, <1>4 DEF rxely_handler

LEMMA TypeInterrupt ==
  ASSUME TypeOK, Interrupt
  PROVE  TypeOK'
<1> USE TypeParts, TypePartsNext
<1>1. CASE \E f \in Frames : rxely_handler(f)
  BY <1>1, TypeHeader
<1>2. CASE FrameDamaged
  BY <1>2 DEF FrameDamaged, RingType, TaskType, EnhAckType, AirType, FlagType,
              ring, task, counter
<1>3. CASE rxdone_handler
  <2>1. RingType'
    BY <1>3, RingFacts DEF rxdone_handler, RingType, AirType
  <2>2. TaskType' /\ EnhAckType' /\ onAir' \in Received \cup {NONE}
        /\ enhAckProbing' \in BOOLEAN /\ srcMatch' \in BOOLEAN
    BY <1>3 DEF rxdone_handler, TaskType, EnhAckType, FlagType, task, enhAck
  <2>3. onAir.frame \in Frames
    BY <1>3 DEF rxdone_handler, AirType, Received
  <2>4. AirType' /\ txEnhAckPending' \in BOOLEAN
    <3>1. CASE UNCHANGED <<counter, waitAckTxDoneTimer, ackTx, txEnhAckPending>>
      BY <3>1, <2>2, UnchangedAir DEF FlagType
    <3>2. CASE /\ TransmitEnhAck(onAir.frame, sEnhAckPsdu, enhack_frm_sec_en)
               /\ txEnhAckPending' = FALSE
      BY <3>2, <2>2, <2>3, TransmitType DEF EnhAckType
    <3> QED
      BY <1>3, <3>1, <3>2 DEF rxdone_handler, SendDeferred
  <2> QED
    BY <2>1, <2>2, <2>4 DEF FlagType
<1>4. CASE mac_report_enhack_transmit_done
  BY <1>4 DEF mac_report_enhack_transmit_done, RingType, TaskType, EnhAckType, AirType,
              FlagType, ring, task, counter
<1>5. CASE waitAckTxDoneProtectionTimeout
  BY <1>5 DEF waitAckTxDoneProtectionTimeout, RingType, TaskType, EnhAckType, AirType,
              FlagType, ring, task, enhAck, counter
<1> QED
  BY <1>1, <1>2, <1>3, <1>4, <1>5 DEF Interrupt

\* Every variable keeps its type: the indices stay in the ring, its slots hold
\* received frames, and the counter stays in its range when it wraps.
THEOREM TypeCorrect == Spec => []TypeOK
<1>1. TypeOK /\ UNCHANGED vars => TypeOK'
  BY DEF TypeOK, vars, ring, task, enhAck, counter
<1>2. TypeOK /\ [Next]_vars => TypeOK'
  BY <1>1, TypeTask, TypeInterrupt DEF Next
<1> QED
  BY <1>2, TypeInit, PTL DEF Spec

-----------------------------------------------------------------------------
(* The ack answers the frame on the air.  The inductive invariant adds that *)
(* an ack is held back only for the frame on the air, with the header built *)
(* for it.                                                                 *)

BuiltFor(f, header) == WantsEnhAck(f) /\ header.sec = (f.sec # "none")

DeferredForOnAir ==
  txEnhAckPending =>
    onAir # NONE /\ enhack_frm_len /\ BuiltFor(onAir.frame, sEnhAckPsdu)

AckInv == DeferredForOnAir /\ AckForThisFrame

\* The steps that neither start nor end a frame or its ack.
AirQuiet == UNCHANGED <<onAir, ackTx, sEnhAckPsdu, enhack_frm_len, txEnhAckPending>>

LEMMA AirSteps ==
  ASSUME [Next]_vars
  PROVE  \/ AirQuiet
         \/ Interrupt
<1> USE DEF AirQuiet, enhAck
<1>1. CASE TaskStep
  BY <1>1 DEF TaskStep, BEE_RadioRxPending, RadioRxDone, readFrame, ReceiveDone, setChannel,
       ChannelSet, otPlatRadioSetMacFrameCounter, otPlatRadioConfigureEnhAckProbing,
       LoadCounter, StoreCounter
<1> QED
  BY <1>1 DEF Next, vars

LEMMA AckHeader ==
  ASSUME TypeOK, AckInv, NEW f \in Frames, rxely_handler(f)
  PROVE  AckInv'
<1>1. onAir = NONE /\ ackTx = NONE /\ ~txEnhAckPending
  BY DEF AckInv, DeferredForOnAir, rxely_handler, rxely_none, rxely_imm, rxely_enh, HeaderArrives
<1>2. CASE rxely_none(f) \/ rxely_imm(f)
  <2>1. ackTx' = NONE /\ ~txEnhAckPending'
    BY <1>1, <1>2 DEF rxely_none, rxely_imm
  <2> QED
    BY <2>1 DEF AckInv, DeferredForOnAir, AckForThisFrame
<1>3. CASE rxely_enh(f)
  <2>1. /\ \E a : onAir' = [frame |-> f, ack |-> a] /\ a \in Acks
        /\ sEnhAckPsdu' = HeaderFor(f) /\ enhack_frm_len'
        /\ HeaderFor(f).sec = (f.sec # "none")
        /\ WantsEnhAck(f)
    <3>1. HeaderFor(f) \in Headers
      BY HeaderType DEF TypeOK
    <3>2. [sec |-> HeaderFor(f).sec, pending |-> HeaderFor(f).pending] \in Acks
      BY <3>1 DEF Headers, Acks
    <3>3. HeaderFor(f).sec = (f.sec # "none")
      BY DEF HeaderFor
    <3> QED
      BY <1>3, <3>2, <3>3 DEF rxely_enh, HeaderArrives
  <2>2. onAir'.frame = f /\ onAir' # NONE
    BY <2>1, RadioRxAssumption DEF Received
  <2>3. \/ ackTx' = NONE
        \/ ackTx' = [to |-> f, header |-> HeaderFor(f), nonce |-> nonce']
    BY <1>1, <1>3 DEF rxely_enh, handleEnhAckTx, TransmitEnhAck
  <2>4. AckForThisFrame'
    BY <2>1, <2>2, <2>3 DEF AckForThisFrame
  <2>5. DeferredForOnAir'
    BY <2>1, <2>2 DEF DeferredForOnAir, BuiltFor
  <2> QED
    BY <2>4, <2>5 DEF AckInv
<1> QED
  BY <1>2, <1>3 DEF rxely_handler

LEMMA AckInterrupt ==
  ASSUME TypeOK, AckInv, Interrupt
  PROVE  AckInv'
<1>1. CASE \E f \in Frames : rxely_handler(f)
  BY <1>1, AckHeader
<1>2. CASE FrameDamaged
  BY <1>2 DEF FrameDamaged, AckInv, DeferredForOnAir, AckForThisFrame
<1>3. CASE rxdone_handler
  <2>1. onAir' = NONE /\ sEnhAckPsdu' = sEnhAckPsdu
    BY <1>3 DEF rxdone_handler, enhAck
  <2>2. CASE txEnhAckPending /\ enhack_frm_len
    <3>1. /\ ~txEnhAckPending'
          /\ \/ ackTx' = NONE
             \/ ackTx' = [to |-> onAir.frame, header |-> sEnhAckPsdu, nonce |-> nonce']
      BY <1>3, <2>2 DEF rxdone_handler, SendDeferred, TransmitEnhAck
    <3>2. BuiltFor(onAir.frame, sEnhAckPsdu)
      BY <2>2 DEF AckInv, DeferredForOnAir
    <3> QED
      BY <2>1, <3>1, <3>2 DEF AckInv, DeferredForOnAir, AckForThisFrame, BuiltFor
  <2>3. CASE ~(txEnhAckPending /\ enhack_frm_len)
    <3>1. UNCHANGED <<ackTx, txEnhAckPending>> /\ ~txEnhAckPending
      BY <1>3, <2>3 DEF rxdone_handler, SendDeferred, AckInv, DeferredForOnAir
    <3> QED
      BY <2>1, <3>1 DEF AckInv, DeferredForOnAir, AckForThisFrame
  <2> QED
    BY <2>2, <2>3
<1>4. CASE mac_report_enhack_transmit_done
  BY <1>4 DEF mac_report_enhack_transmit_done, AckInv, DeferredForOnAir, AckForThisFrame
<1>5. CASE waitAckTxDoneProtectionTimeout
  BY <1>5 DEF waitAckTxDoneProtectionTimeout, AckInv, DeferredForOnAir, AckForThisFrame, enhAck
<1> QED
  BY <1>1, <1>2, <1>3, <1>4, <1>5 DEF Interrupt

LEMMA AckInvariant == Spec => []AckInv
<1>1. Init => AckInv
  BY DEF Init, AckInv, DeferredForOnAir, AckForThisFrame
<1>2. AckInv /\ AirQuiet => AckInv'
  BY DEF AirQuiet, AckInv, DeferredForOnAir, AckForThisFrame, BuiltFor
<1>3. TypeOK /\ AckInv /\ [Next]_vars => AckInv'
  BY <1>2, AirSteps, AckInterrupt
<1> QED
  BY <1>1, <1>3, TypeCorrect, PTL DEF Spec

\* An enhanced ack on the air was built for the frame it answers, sent at once
\* or held back, whatever was refused or damaged before.
THEOREM AckMatches == Spec => []AckForThisFrame
<1>1. AckInv => AckForThisFrame
  BY DEF AckInv
<1> QED
  BY <1>1, AckInvariant, PTL

-----------------------------------------------------------------------------
(* The counter in the header and the counter in the nonce.                 *)

LEMMA CounterSteps ==
  ASSUME AckCounterIsNonce, [Next]_vars
  PROVE  AckCounterIsNonce'
<1> USE DEF AckCounterIsNonce
<1>1. CASE TaskStep
  <2>1. UNCHANGED <<onAir, ackTx>>
    BY <1>1 DEF TaskStep, BEE_RadioRxPending, RadioRxDone, readFrame, ReceiveDone, setChannel,
         ChannelSet, otPlatRadioSetMacFrameCounter, otPlatRadioConfigureEnhAckProbing,
         LoadCounter, StoreCounter
  <2> QED
    BY <2>1
<1>2. ASSUME NEW f \in Frames, rxely_handler(f)
      PROVE  AckCounterIsNonce'
  <2>1. CASE ackTx' = NONE
    BY <2>1
  <2>2. CASE ackTx' # NONE
    <3>1. TransmitEnhAck(f, HeaderFor(f), HeaderFor(f).sec)
      BY <1>2, <2>2 DEF rxely_handler, rxely_none, rxely_imm, rxely_enh, HeaderArrives,
           handleEnhAckTx
    <3>2. ackTx' = [to |-> f, header |-> HeaderFor(f), nonce |-> nonce']
      BY <2>2, <3>1 DEF TransmitEnhAck
    <3>3. f.sec = "known" => nonce' = sMacFrameCounter
      BY <3>1 DEF TransmitEnhAck, txAckProcessSecurity, HeaderFor
    <3> QED
      BY <3>2, <3>3 DEF HeaderFor
  <2> QED
    BY <2>1, <2>2
<1>3. CASE rxdone_handler \/ FrameDamaged
  BY <1>3 DEF rxdone_handler, FrameDamaged
<1>4. CASE mac_report_enhack_transmit_done
  BY <1>4 DEF mac_report_enhack_transmit_done
<1>5. CASE waitAckTxDoneProtectionTimeout
  BY <1>5 DEF waitAckTxDoneProtectionTimeout
<1>6. CASE UNCHANGED vars
  BY <1>6 DEF vars
<1> QED
  BY <1>1, <1>2, <1>3, <1>4, <1>5, <1>6 DEF Next, Interrupt

\* An ack that is not held back for probing carries the counter in its header
\* that its nonce was made from, whatever the task does to sMacFrameCounter.
THEOREM CounterMatches == Spec => []AckCounterIsNonce
<1>1. Init => AckCounterIsNonce
  BY DEF Init, AckCounterIsNonce
<1> QED
  BY <1>1, CounterSteps, PTL DEF Spec

-----------------------------------------------------------------------------
(* The ring implements the FIFO.                                           *)

Cells == Received \cup {NONE}

LEMMA RingTyped ==
  TypeOK => /\ rx_queue \in RingsOf(N, Cells)
            /\ rx_head \in Ring(N) /\ rx_tail \in Ring(N)
            /\ Incr(rx_head) = After(N, rx_head) /\ Incr(rx_tail) = After(N, rx_tail)
            /\ Lent \in {0, 1}
  BY RingFacts DEF TypeOK, RingsOf, Cells, Lent

\* The steps that neither fill a slot nor enter or leave otPlatRadioReceiveDone.
RingQuiet ==
  /\ UNCHANGED ring
  /\ pc' = "deliver" <=> pc = "deliver"

LEMMA RingSteps ==
  ASSUME [Next]_vars
  PROVE  rxdone_handler \/ readFrame \/ ReceiveDone \/ RingQuiet
<1> USE DEF RingQuiet, ring, task
<1>1. CASE TaskStep
  BY <1>1 DEF TaskStep, BEE_RadioRxPending, RadioRxDone, setChannel, ChannelSet,
       otPlatRadioSetMacFrameCounter, otPlatRadioConfigureEnhAckProbing,
       LoadCounter, StoreCounter, MayCall
<1>2. ASSUME NEW f \in Frames, rxely_handler(f)
      PROVE  RingQuiet
  BY <1>2 DEF rxely_handler, rxely_none, rxely_imm, rxely_enh, HeaderArrives
<1>3. CASE FrameDamaged \/ mac_report_enhack_transmit_done \/ waitAckTxDoneProtectionTimeout
  BY <1>3 DEF FrameDamaged, mac_report_enhack_transmit_done, waitAckTxDoneProtectionTimeout
<1>4. CASE UNCHANGED vars
  BY <1>4 DEF vars
<1> QED
  BY <1>1, <1>2, <1>3, <1>4 DEF Next, Interrupt

\* What the two that do it change.
LEMMA FillStep ==
  ASSUME TypeOK, rxdone_handler
  PROVE  /\ onAir \in Received
         /\ rx_queue' = [rx_queue EXCEPT ![rx_tail] = onAir]
         /\ rx_tail' = After(N, rx_tail) /\ rx_head' = rx_head
         /\ pc' = pc /\ Lent' = Lent
  BY RingTyped DEF rxdone_handler, task, TypeOK, Lent

LEMMA LendStep ==
  ASSUME readFrame
  PROVE  /\ UNCHANGED ring /\ rx_head # rx_tail
         /\ pc = "rx" /\ pc' = "deliver" /\ Lent = 0 /\ Lent' = 1
  BY DEF readFrame, Lent

LEMMA ReturnStep ==
  ASSUME TypeOK, ReceiveDone
  PROVE  /\ UNCHANGED <<rx_queue, rx_tail>> /\ rx_head' = After(N, rx_head)
         /\ pc = "deliver" /\ pc' = "rx" /\ Lent = 1 /\ Lent' = 0
  BY RingTyped DEF ReceiveDone, Lent

\* A waiting slot and the lent one hold received frames.
FrameInv ==
  /\ pc = "deliver" => rx_queue[rx_head] \in Received
  /\ Held(N, rx_queue, rx_head, rx_tail, Lent, Received)

LEMMA FrameStep ==
  ASSUME TypeOK, FrameInv, [Next]_vars
  PROVE  FrameInv'
<1>1. CASE rxdone_handler
  <2>1. onAir \in Cells /\ onAir \in Received
    BY <1>1, FillStep DEF Cells
  <2>2. Held(N, [rx_queue EXCEPT ![rx_tail] = onAir], rx_head, After(N, rx_tail), Lent, Received)
    BY <2>1, RingTyped, RingFacts, HeldSend DEF FrameInv
  <2>3. pc = "deliver" => [rx_queue EXCEPT ![rx_tail] = onAir][rx_head] \in Received
    BY <1>1, FillStep DEF FrameInv, TypeOK
  <2> QED
    BY <1>1, <2>2, <2>3, FillStep DEF FrameInv
<1>2. CASE readFrame
  <2>1. rx_queue[rx_head] \in Received /\ Held(N, rx_queue, rx_head, rx_tail, 1, Received)
    BY <1>2, LendStep, RingTyped, RingFacts, HeldTake DEF FrameInv
  <2> QED
    BY <1>2, <2>1, LendStep DEF FrameInv, ring
<1>3. CASE ReceiveDone
  <2>1. Held(N, rx_queue, After(N, rx_head), rx_tail, 0, Received)
    BY <1>3, ReturnStep, RingTyped, RingFacts, HeldDone DEF FrameInv
  <2> QED
    BY <1>3, <2>1, ReturnStep DEF FrameInv
<1>4. CASE RingQuiet
  BY <1>4 DEF RingQuiet, FrameInv, ring, Lent
<1> QED
  BY <1>1, <1>2, <1>3, <1>4, RingSteps

LEMMA FrameInvariant == Spec => []FrameInv
<1>1. Init => FrameInv
  <2> SUFFICES ASSUME Init PROVE FrameInv
    OBVIOUS
  <2>1. Lent = 0 /\ rx_head = 0 /\ rx_tail = 0 /\ pc = "run"
    BY DEF Init, Lent
  <2>2. Held(N, rx_queue, 0, 0, 0, Received)
    BY <2>1, HeldNone, RingFacts, RingTyped, TypeInit
  <2> QED
    BY <2>1, <2>2 DEF FrameInv
<1> QED
  BY <1>1, FrameStep, TypeCorrect, PTL DEF Spec

LEMMA Mapping ==
  TypeOK => WaitingFrames = ItemsOf(N, rx_queue, rx_head, rx_tail, Lent)
<1> SUFFICES ASSUME TypeOK
             PROVE  WaitingFrames = ItemsOf(N, rx_queue, rx_head, rx_tail, Lent)
  OBVIOUS
<1>1. [i \in 1 .. Span(N, rx_head, rx_tail, Lent)
         |-> rx_queue[(rx_head + Lent + i - 1) % N]]
        = ItemsOf(N, rx_queue, rx_head, rx_tail, Lent)
  BY RingTyped, RingFacts, ItemsWritten
<1> QED
  BY <1>1 DEF WaitingFrames, Waiting, Span, N

LEMMA MappingNext ==
  TypeOK' => WaitingFrames' = ItemsOf(N, rx_queue', rx_head', rx_tail', Lent')
<1> SUFFICES ASSUME TypeOK'
             PROVE  WaitingFrames' = ItemsOf(N, rx_queue', rx_head', rx_tail', Lent')
  OBVIOUS
<1>1. /\ rx_head' \in Ring(N) /\ rx_tail' \in Ring(N) /\ Lent' \in {0, 1}
  BY RingFacts DEF TypeOK, Lent
<1>2. [i \in 1 .. Span(N, rx_head', rx_tail', Lent')
         |-> rx_queue'[(rx_head' + Lent' + i - 1) % N]]
        = ItemsOf(N, rx_queue', rx_head', rx_tail', Lent')
  BY <1>1, RingFacts, ItemsWritten
<1> QED
  BY <1>2 DEF WaitingFrames, Waiting, Span, N

\* What OpenThread looks at.
lentFrame == IF pc = "deliver" THEN rx_queue[rx_head] ELSE NONE

LEMMA MappedInit == Init => Fifo!Init
<1> SUFFICES ASSUME Init PROVE Fifo!Init
  OBVIOUS
<1>1. Lent = 0 /\ rx_head = 0 /\ rx_tail = 0 /\ pc = "run"
  BY DEF Init, Lent
<1>2. Span(N, 0, 0, 0) = 0
  BY HeldNone, RingFacts, RingTyped, TypeInit, <1>1
<1>3. WaitingFrames = ItemsOf(N, rx_queue, 0, 0, 0)
  BY <1>1, TypeInit, Mapping
<1>4. WaitingFrames = <<>>
  BY <1>2, <1>3 DEF ItemsOf
<1> QED
  BY <1>1, <1>4 DEF Fifo!Init

LEMMA MappedFill ==
  ASSUME TypeOK, TypeOK', FrameInv, rxdone_handler
  PROVE  Fifo!Next
<1>1. onAir \in Cells
  BY FillStep DEF Cells
<1>2. ItemsOf(N, [rx_queue EXCEPT ![rx_tail] = onAir], rx_head, After(N, rx_tail), Lent)
        = Sent(N, ItemsOf(N, rx_queue, rx_head, rx_tail, Lent), onAir)
  BY <1>1, RingTyped, RingFacts, ItemsOfSend
<1>3. WaitingFrames' = Sent(N, WaitingFrames, onAir)
  BY <1>2, FillStep, Mapping, MappingNext
<1>4. /\ Len(WaitingFrames) = Span(N, rx_head, rx_tail, Lent)
      /\ Span(N, rx_head, rx_tail, Lent) \in Ring(N)
  <2>1. /\ N \in Sizes /\ rx_queue \in RingsOf(N, Cells)
        /\ rx_head \in Ring(N) /\ rx_tail \in Ring(N) /\ Lent \in {0, 1}
    BY RingTyped, RingFacts
  <2>2. Len(ItemsOf(N, rx_queue, rx_head, rx_tail, Lent)) = Span(N, rx_head, rx_tail, Lent)
    <3>1. CASE Lent = 0
      BY <2>1, <3>1, ItemsOfSeq
    <3>2. CASE Lent = 1
      BY <2>1, <3>2, ItemsOfSeq
    <3> QED
      BY <2>1, <3>1, <3>2
  <2>3. Span(N, rx_head, rx_tail, Lent) \in Ring(N)
    BY <2>1, SpanType
  <2> QED
    BY <2>2, <2>3, Mapping
<1>5. Len(WaitingFrames) + 1 < N <=> Len(WaitingFrames) + 1 # N
  BY <1>4, RingFacts DEF Ring, Sizes
<1>6. lentFrame' = IF pc = "deliver" THEN [rx_queue EXCEPT ![rx_tail] = onAir][rx_head]
                   ELSE NONE
  BY FillStep DEF lentFrame
<1>7. CASE pc # "deliver"
  BY <1>3, <1>5, <1>6, <1>7, FillStep
     DEF Sent, Fifo!Next, Fifo!Receive, lentFrame, N
<1>8. CASE pc = "deliver"
  <2>1. Lent = 1 /\ lentFrame = rx_queue[rx_head] /\ lentFrame # NONE
    BY <1>8, RadioRxAssumption DEF Lent, lentFrame, FrameInv
  <2>2. Len(WaitingFrames) + 1 = N <=> rx_tail = rx_head
    BY <1>4, <2>1, RingTyped, RingFacts, SpanFull
  <2>3. lentFrame' = IF rx_tail = rx_head THEN onAir ELSE lentFrame
    BY <1>6, <1>8, <2>1 DEF TypeOK
  <2> QED
    BY <1>3, <1>5, <2>1, <2>2, <2>3, FillStep
       DEF Sent, Fifo!Next, Fifo!Receive, lentFrame, N
<1> QED
  BY <1>7, <1>8

LEMMA MappedStep ==
  ASSUME TypeOK, TypeOK', FrameInv, [Next]_vars
  PROVE  [Fifo!Next]_(Fifo!frameVars)
<1>1. CASE rxdone_handler
  BY <1>1, MappedFill
<1>2. CASE readFrame
  <2>1. WaitingFrames # <<>> /\ Head(WaitingFrames) = rx_queue[rx_head]
        /\ WaitingFrames' = Tail(WaitingFrames)
    BY <1>2, LendStep, Mapping, MappingNext, RingTyped, RingFacts, ItemsOfTake DEF ring
  <2>2. lentFrame = NONE /\ lentFrame' = rx_queue[rx_head]
    BY <1>2, LendStep DEF lentFrame, ring
  <2> QED
    BY <2>1, <2>2 DEF Fifo!Next, Fifo!Lend, lentFrame
<1>3. CASE ReceiveDone
  <2>1. WaitingFrames' = WaitingFrames
    BY <1>3, ReturnStep, Mapping, MappingNext, RingTyped, RingFacts, ItemsOfTake
  <2>2. lentFrame # NONE /\ lentFrame' = NONE
    BY <1>3, ReturnStep, RadioRxAssumption DEF lentFrame, FrameInv
  <2> QED
    BY <2>1, <2>2 DEF Fifo!Next, Fifo!Return, lentFrame
<1>4. CASE RingQuiet
  <2>1. UNCHANGED ring /\ Lent' = Lent /\ lentFrame' = lentFrame
    BY <1>4 DEF RingQuiet, Lent, lentFrame, ring
  <2>2. WaitingFrames' = WaitingFrames
    BY <2>1, Mapping, MappingNext DEF ring
  <2> QED
    BY <2>1, <2>2 DEF Fifo!frameVars, lentFrame
<1> QED
  BY <1>1, <1>2, <1>3, <1>4, RingSteps

\* The receive ring implements the FIFO with a lent buffer, for every size:
\* frames are delivered once and in order, and the buffer OpenThread looks at
\* changes only when the ring overflows while it is lent.
THEOREM Refines == Spec => ImplementsFifo
<1>1. TypeOK /\ TypeOK' /\ FrameInv /\ [Next]_vars => [Fifo!Next]_(Fifo!frameVars)
  BY MappedStep
<1> QED
  BY <1>1, MappedInit, TypeCorrect, FrameInvariant, PTL DEF Spec, ImplementsFifo, Fifo!Spec

-----------------------------------------------------------------------------
(* What OpenThread is told of an enhanced ack, while frames are read in     *)
(* time.                                                                    *)

\* No header arrives while an earlier frame waits to be read.
ReadInTime == (\E f \in Frames : rxely_handler(f)) => WaitingFrames = <<>>

InTimeSpec == Init /\ [][Next /\ ReadInTime]_vars

PsduSays(r) ==
  WantsEnhAck(r.frame) => r.ack = [sec |-> sEnhAckPsdu.sec, pending |-> sEnhAckPsdu.pending]

\* The only frame that is not read yet is the one sEnhAckPsdu answers, if it
\* got an enhanced ack at all.
UnreadInv ==
  /\ onAir # NONE => WaitingFrames = <<>> /\ PsduSays(onAir)
  /\ WaitingFrames # <<>> => Len(WaitingFrames) = 1 /\ PsduSays(Head(WaitingFrames))

\* The frame in OpenThread's hands was described while that was so.
ToldInv == pc = "deliver" /\ WantsEnhAck(reading.frame) => rx_info[rx_head] = reading.ack

InfoInv == UnreadInv /\ ToldInv

LEMMA InfoQuiet ==
  ASSUME InfoInv, RingQuiet, UNCHANGED <<rx_info, reading, sEnhAckPsdu>>,
         onAir' = onAir \/ onAir' = NONE
  PROVE  InfoInv'
<1>1. WaitingFrames' = WaitingFrames /\ rx_head' = rx_head
  BY DEF RingQuiet, ring, WaitingFrames, Waiting, Lent
<1>2. UnreadInv'
  BY <1>1 DEF InfoInv, UnreadInv, PsduSays
<1>3. ToldInv'
  BY <1>1 DEF InfoInv, ToldInv, RingQuiet
<1> QED
  BY <1>2, <1>3 DEF InfoInv

LEMMA InfoHeader ==
  ASSUME InfoInv, WaitingFrames = <<>>, NEW f \in Frames, rxely_handler(f)
  PROVE  InfoInv'
<1>1. UNCHANGED <<ring, rx_info, pc, reading>>
  BY DEF rxely_handler, rxely_none, rxely_imm, rxely_enh, HeaderArrives, task
<1>2. WaitingFrames' = <<>>
  BY <1>1 DEF ring, WaitingFrames, Waiting, Lent
<1>3. PsduSays(onAir)'
  <2>1. CASE rxely_none(f) \/ rxely_imm(f)
    BY <2>1 DEF rxely_none, rxely_imm, HeaderArrives, PsduSays, WantsEnhAck, WantsImmAck
  <2>2. CASE rxely_enh(f)
    BY <2>2 DEF rxely_enh, HeaderArrives, PsduSays
  <2> QED
    BY <2>1, <2>2 DEF rxely_handler
<1>4. UnreadInv'
  BY <1>2, <1>3 DEF UnreadInv
<1>5. ToldInv'
  BY <1>1 DEF ring, InfoInv, ToldInv
<1> QED
  BY <1>4, <1>5 DEF InfoInv

LEMMA InfoFill ==
  ASSUME TypeOK, TypeOK', InfoInv, rxdone_handler
  PROVE  InfoInv'
<1>1. onAir # NONE /\ onAir' = NONE /\ onAir \in Cells
      /\ UNCHANGED <<rx_head, rx_info, pc, reading, sEnhAckPsdu>>
  BY FillStep DEF rxdone_handler, task, enhAck, Cells
<1>2. WaitingFrames = <<>> /\ PsduSays(onAir)
  BY <1>1 DEF InfoInv, UnreadInv
<1>3. ItemsOf(N, [rx_queue EXCEPT ![rx_tail] = onAir], rx_head, After(N, rx_tail), Lent)
        = Sent(N, ItemsOf(N, rx_queue, rx_head, rx_tail, Lent), onAir)
  BY <1>1, RingTyped, RingFacts, ItemsOfSend
<1>4. WaitingFrames' = Sent(N, <<>>, onAir)
  BY <1>2, <1>3, FillStep, Mapping, MappingNext
<1>5. WaitingFrames' = <<>> \/ WaitingFrames' = <<onAir>>
  BY <1>4 DEF Sent
<1>6. UnreadInv'
  BY <1>1, <1>2, <1>5 DEF UnreadInv, PsduSays
<1>7. ToldInv'
  BY <1>1 DEF InfoInv, ToldInv
<1> QED
  BY <1>6, <1>7 DEF InfoInv

LEMMA InfoRead ==
  ASSUME TypeOK, TypeOK', InfoInv, readFrame
  PROVE  InfoInv'
<1>1. /\ WaitingFrames # <<>> /\ Head(WaitingFrames) = rx_queue[rx_head]
      /\ WaitingFrames' = Tail(WaitingFrames)
  BY LendStep, Mapping, MappingNext, RingTyped, RingFacts, ItemsOfTake DEF ring
<1>2. Len(WaitingFrames) = 1 /\ PsduSays(rx_queue[rx_head]) /\ onAir = NONE
  BY <1>1 DEF InfoInv, UnreadInv
<1>3. WaitingFrames' = <<>> /\ onAir' = NONE
  <2>1. WaitingFrames \in Seq(Cells)
    <3>1. /\ N \in Sizes /\ rx_queue \in RingsOf(N, Cells)
          /\ rx_head \in Ring(N) /\ rx_tail \in Ring(N) /\ 0 \in {0, 1} /\ Lent = 0
      BY LendStep, RingTyped, RingFacts
    <3>2. ItemsOf(N, rx_queue, rx_head, rx_tail, 0) \in Seq(Cells)
      BY <3>1, ItemsOfSeq
    <3> QED
      BY <3>1, <3>2, Mapping
  <2>2. Tail(WaitingFrames) = <<>>
    BY <1>1, <1>2, <2>1, HeadTailProperties, EmptySeq
  <2> QED
    BY <1>1, <1>2, <2>2 DEF readFrame
<1>4. ToldInv'
  <2>1. rx_head' = rx_head /\ reading' = rx_queue[rx_head]
    BY DEF readFrame, ring
  <2>2. rx_head \in Slots /\ rx_info \in [Slots -> Acks]
    BY DEF TypeOK
  <2>3. WantsEnhAck(rx_queue[rx_head].frame)
          => rx_info' = [rx_info EXCEPT ![rx_head] =
                           [sec |-> sEnhAckPsdu.sec, pending |-> sEnhAckPsdu.pending]]
    BY DEF readFrame, WantsEnhAck, WantsImmAck
  <2> QED
    BY <1>2, <2>1, <2>2, <2>3 DEF ToldInv, PsduSays
<1> QED
  BY <1>3, <1>4 DEF InfoInv, UnreadInv

LEMMA InfoReturn ==
  ASSUME TypeOK, TypeOK', InfoInv, ReceiveDone
  PROVE  InfoInv'
<1>1. WaitingFrames' = WaitingFrames
  BY ReturnStep, Mapping, MappingNext, RingTyped, RingFacts, ItemsOfTake
<1>2. UNCHANGED <<onAir, sEnhAckPsdu>> /\ pc' = "rx"
  BY DEF ReceiveDone, enhAck
<1> QED
  BY <1>1, <1>2 DEF InfoInv, UnreadInv, ToldInv, PsduSays

LEMMA InfoStep ==
  ASSUME TypeOK, TypeOK', InfoInv, [Next /\ ReadInTime]_vars
  PROVE  InfoInv'
<1>1. CASE (\E f \in Frames : rxely_handler(f)) /\ ReadInTime
  BY <1>1, InfoHeader DEF ReadInTime
<1>2. CASE rxdone_handler \/ readFrame \/ ReceiveDone
  BY <1>2, InfoFill, InfoRead, InfoReturn
<1>3. CASE FrameDamaged \/ mac_report_enhack_transmit_done \/ waitAckTxDoneProtectionTimeout
           \/ UNCHANGED vars
  BY <1>3, InfoQuiet DEF FrameDamaged, mac_report_enhack_transmit_done,
     waitAckTxDoneProtectionTimeout, vars, RingQuiet, ring, task, enhAck
<1>4. CASE TaskStep /\ ~readFrame /\ ~ReceiveDone
  BY <1>4, InfoQuiet DEF TaskStep, BEE_RadioRxPending, RadioRxDone, setChannel, ChannelSet,
     otPlatRadioSetMacFrameCounter, otPlatRadioConfigureEnhAckProbing,
     LoadCounter, StoreCounter, MayCall, RingQuiet, ring, task, enhAck
<1> QED
  BY <1>1, <1>2, <1>3, <1>4 DEF Next, Interrupt

\* While each frame is read before the next header arrives, a frame that got an
\* enhanced ack is described with its own: readFrame is wrong of such a frame
\* only when it comes late.
THEOREM InfoInTime == InTimeSpec => [](WantsEnhAck(reading.frame) => AckInfoOfThisFrame)
<1>1. Init => InfoInv
  <2> SUFFICES ASSUME Init PROVE InfoInv
    OBVIOUS
  <2>1. WaitingFrames = <<>>
    BY MappedInit DEF Fifo!Init
  <2>2. pc = "run" /\ onAir = NONE
    BY DEF Init
  <2> QED
    BY <2>1, <2>2 DEF InfoInv, UnreadInv, ToldInv
<1>2. TypeOK /\ TypeOK' /\ InfoInv /\ [Next /\ ReadInTime]_vars => InfoInv'
  BY InfoStep
<1>3. InTimeSpec => Spec
  <2>1. [Next /\ ReadInTime]_vars => [Next]_vars
    OBVIOUS
  <2> QED
    BY <2>1, PTL DEF InTimeSpec, Spec
<1>4. InfoInv => (WantsEnhAck(reading.frame) => AckInfoOfThisFrame)
  BY DEF InfoInv, ToldInv, AckInfoOfThisFrame
<1> QED
  BY <1>1, <1>2, <1>3, <1>4, TypeCorrect, PTL DEF InTimeSpec
=============================================================================
