----------------------------- MODULE Parts_proof -----------------------------
(***************************************************************************)
(* Proofs about MacKeys, SrcMatch, BtClock, StayAwake, Xmodem, Boot,       *)
(* MemOps, FrameParser and AckFrame, for all values of their constants.    *)
(***************************************************************************)
EXTENDS AckFrame, MacKeys, SrcMatch, BtClock, StayAwake, Xmodem, Boot, MemOps,
        SequenceTheorems, TLAPS

\* % by its quotient.
LEMMA ModOf ==
  ASSUME NEW N \in Nat, N > 1, NEW q \in Int, NEW r \in 0 .. N - 1
  PROVE  (N * q + r) % N = r
  BY SMTT(30)

LEMMA ModRange ==
  ASSUME NEW N \in Nat, N > 1, NEW a \in Int
  PROVE  /\ a % N \in 0 .. N - 1
         /\ a \div N \in Int
         /\ a = N * (a \div N) + (a % N)
  BY SMTT(30)

LEMMA ModSucc ==
  ASSUME NEW N \in Nat, N > 1, NEW a \in Int
  PROVE  (a + 1) % N = IF (a % N) + 1 = N THEN 0 ELSE (a % N) + 1
<1> DEFINE q == a \div N
           r == a % N
<1>1. q \in Int /\ r \in 0 .. N - 1 /\ a = N * q + r
  BY ModRange
<1> HIDE DEF q, r
<1>2. CASE r + 1 = N
  <2>1. a + 1 = N * (q + 1) + 0
    BY <1>1, <1>2
  <2>2. (N * (q + 1) + 0) % N = 0
    BY <1>1, ModOf
  <2> QED
    BY <1>2, <2>1, <2>2 DEF r
<1>3. CASE r + 1 # N
  <2>1. a + 1 = N * q + (r + 1) /\ r + 1 \in 0 .. N - 1
    BY <1>1, <1>3
  <2>2. (N * q + (r + 1)) % N = r + 1
    BY <1>1, <2>1, ModOf
  <2> QED
    BY <1>3, <2>1, <2>2 DEF r
<1> QED
  BY <1>2, <1>3

-----------------------------------------------------------------------------
(* MacKeys.                                                                *)

LEMMA KeyIdType == ASSUME NEW seq \in Int PROVE KeyIdOf(seq) \in Nat
  BY ModRange, MacKeysAssumption DEF KeyIdOf

\* A frame that has its counter still to store has room for it.
KeysType ==
  /\ KeysTypeOK
  /\ step = "count" => frame.counter < CounterBound

\* What the actions write into frame, header and sent
LEMMA FrameTypes ==
  /\ NoFrame \in Frame
  /\ \A f \in Frame : /\ f.keyId \in Nat /\ f.counter \in Counters
                      /\ f.switched \in BOOLEAN /\ f.stale \in BOOLEAN /\ f.tried \in BOOLEAN
  /\ \A f \in Frame, k \in Nat, c \in Counters :
       [f EXCEPT !.keyId = k, !.counter = c] \in Frame
  /\ \A f \in Frame, b \in BOOLEAN :
       /\ [f EXCEPT !.switched = b] \in Frame
       /\ [f EXCEPT !.stale = b] \in Frame
       /\ [f EXCEPT !.tried = b] \in Frame
<1>1. 0 \in Counters
  BY MacKeysAssumption DEF Counters
<1> QED
  BY <1>1 DEF NoFrame, Frame

LEMMA HeaderTypes ==
  /\ NoHeader \in HeaderOfAck
  /\ \A h \in HeaderOfAck : h.seq \in Int /\ h.counter \in Counters /\ h.moved \in BOOLEAN
  /\ \A h \in HeaderOfAck, b \in BOOLEAN : [h EXCEPT !.moved = b] \in HeaderOfAck
  /\ \A seq \in Int, c \in Counters :
       [seq |-> seq, counter |-> c, moved |-> FALSE] \in HeaderOfAck
<1>1. 0 \in Counters
  BY MacKeysAssumption DEF Counters
<1> QED
  BY <1>1 DEF NoHeader, HeaderOfAck

\* A header that was just written
NewHeader(h) ==
  /\ h \in HeaderOfAck
  /\ h.seq \in Sequences
  /\ h.counter = sMacFrameCounter
  /\ h.moved = FALSE

LEMMA SendsType == ASSUME NEW h \in HeaderOfAck, Sends(h) PROVE sent' \in Ack
<1>1. PICK near, ownKey, ownNonce \in BOOLEAN :
        /\ near = IdsInOrder(h.seq, sCurrKey)
        /\ ownKey = (ackKey' = h.seq)
        /\ ownNonce = (nonce' = h.counter)
  BY Zenon DEF IdsInOrder
<1>2. h.moved \in BOOLEAN
  BY HeaderTypes
<1> QED
  BY <1>1, <1>2, Zenon DEF Sends, Ack

LEMMA KeysTypeInit == KeysInit => KeysType
<1> SUFFICES ASSUME KeysInit PROVE KeysType
  OBVIOUS
<1>1. PICK seq \in Sequences :
        /\ sKeyId = KeyIdOf(seq) /\ sPrevKey = seq - 1 /\ sCurrKey = seq
        /\ sNextKey = seq + 1 /\ txKey = seq /\ ackKey = seq
  BY DEF KeysInit
<1>2. seq \in Int /\ KeyIdOf(seq) \in Nat /\ 0 \in Counters
  BY KeyIdType, MacKeysAssumption DEF Counters
<1>3. sent \in Ack
  BY DEF KeysInit, Ack
<1>4. frame \in Frame /\ header \in HeaderOfAck
  BY FrameTypes, HeaderTypes DEF KeysInit
<1>5. /\ sKeyId \in Nat
      /\ sPrevKey \in Int /\ sCurrKey \in Int /\ sNextKey \in Int
      /\ txKey \in Int /\ ackKey \in Int
  BY <1>1, <1>2
<1>6. KeysTypeOK
  BY <1>2, <1>3, <1>4, <1>5, Zenon DEF KeysInit, KeysTypeOK
<1> QED
  BY <1>6 DEF KeysInit, KeysType

\* What a task's write to the counter does, and a use of a nonce
LEMMA CounterWrittenType ==
  ASSUME KeysTypeOK, NEW c \in Counters, CounterWritten(c)
  PROVE  sMacFrameCounter' \in Counters /\ header' \in HeaderOfAck /\ held' \in BOOLEAN
  BY HeaderTypes, Zenon DEF KeysTypeOK, CounterWritten

LEMMA UsesType ==
  ASSUME KeysTypeOK, NEW n \in Counters, NEW again, NEW excepted, Uses(n, again, excepted)
  PROVE  used' \subseteq Counters /\ excused' \subseteq Counters /\ repeated' \in BOOLEAN
<1>1. used' \subseteq Counters
  BY Zenon DEF KeysTypeOK, Uses
<1>2. excused' \subseteq Counters
  BY Zenon DEF KeysTypeOK, Uses
<1>3. repeated' \in BOOLEAN
  BY Zenon DEF KeysTypeOK, Uses
<1> QED
  BY <1>1, <1>2, <1>3

LEMMA AckSecuredType ==
  ASSUME KeysType, NEW h \in HeaderOfAck, txAckProcessSecurity(h),
         held' \in BOOLEAN, header' \in HeaderOfAck
  PROVE  KeysType'
<1> USE DEF KeysType, KeysTypeOK, macKeys, keysTask
<1>1. CASE AckWithKey(h)
  <2>1. PICK key \in KeyFor(KeyIdOf(h.seq)) :
          /\ sMacFrameCounter < CounterBound
          /\ nonce' = sMacFrameCounter
          /\ sMacFrameCounter' = sMacFrameCounter + 1
          /\ ackKey' = key
          /\ Sends(h)
          /\ Uses(sMacFrameCounter, FALSE, step = "count")
          /\ overtaken' = TRUE
          /\ UNCHANGED <<macKeys, keysTask, txKey>>
    BY <1>1, Zenon DEF AckWithKey
  <2>2. ackKey' \in Int
    BY <2>1, Zenon DEF KeyFor
  <2>3. sMacFrameCounter' \in Counters /\ nonce' \in Counters
    BY <2>1, MacKeysAssumption DEF Counters
  <2>4. used' \subseteq Counters /\ excused' \subseteq Counters /\ repeated' \in BOOLEAN
    BY <2>1, UsesType
  <2> QED
    BY <2>1, <2>2, <2>3, <2>4, SendsType, Zenon
<1>2. CASE AckWithoutKey(h)
  <2>1. used' \subseteq Counters /\ excused' \subseteq Counters /\ repeated' \in BOOLEAN
    BY <1>2, UsesType DEF AckWithoutKey
  <2> QED
    BY <1>2, <2>1, SendsType, Zenon DEF AckWithoutKey
<1> QED
  BY <1>1, <1>2 DEF txAckProcessSecurity

LEMMA HeaderIsNew ==
  ASSUME KeysTypeOK, NEW seq \in Sequences
  PROVE  NewHeader([seq |-> seq, counter |-> sMacFrameCounter, moved |-> FALSE])
  BY HeaderTypes, MacKeysAssumption DEF KeysTypeOK, NewHeader

LEMMA KeysTypeNext == KeysType /\ [KeysNext]_keysVars => KeysType'
<1> SUFFICES ASSUME KeysType, [KeysNext]_keysVars PROVE KeysType'
  OBVIOUS
<1> USE DEF KeysType, KeysTypeOK
<1> USE DEF macKeys, keysTask, mac, heldAck, nonces
<1>1. CASE SetKeyId
  <2>1. frame' \in Frame /\ frame'.counter < CounterBound
    BY <1>1, FrameTypes, MacKeysAssumption DEF SetKeyId, Counters, NoFrame
  <2> QED
    BY <1>1, <2>1, Zenon DEF SetKeyId
<1>2. CASE SetFrameCounter
  <2>1. frame.counter \in Counters /\ frame.counter < CounterBound
    BY <1>2, FrameTypes, Zenon DEF SetFrameCounter
  <2>2. frame.counter + 1 \in Counters
    BY <2>1, MacKeysAssumption DEF Counters
  <2>3. sMacFrameCounter' \in Counters /\ header' \in HeaderOfAck /\ held' \in BOOLEAN
    BY <1>2, <2>2, CounterWrittenType DEF SetFrameCounter
  <2> QED
    BY <1>2, <2>3, Zenon DEF SetFrameCounter
<1>3. CASE txProcessSecurity
  BY <1>3, FrameTypes DEF txProcessSecurity
<1>4. CASE TrigUpperEnc
  <2>1. used' \subseteq Counters /\ excused' \subseteq Counters /\ repeated' \in BOOLEAN
    BY <1>4, UsesType DEF TrigUpperEnc
  <2>2. frame' \in Frame
    BY <1>4, FrameTypes, Zenon DEF TrigUpperEnc
  <2> QED
    BY <1>4, <2>1, <2>2, Zenon DEF TrigUpperEnc
<1>5. CASE Retry
  BY <1>5 DEF Retry
<1>6. CASE TxDone
  BY <1>6, FrameTypes DEF TxDone
<1>7. ASSUME NEW seq \in Sequences, otPlatRadioSetMacKey(seq)
      PROVE  KeysType'
  <2>1. /\ sKeyId' \in Nat
        /\ sPrevKey' \in Int /\ sCurrKey' \in Int /\ sNextKey' \in Int
    BY <1>7, KeyIdType, MacKeysAssumption DEF otPlatRadioSetMacKey
  <2> QED
    BY <1>7, <2>1, FrameTypes, Zenon DEF otPlatRadioSetMacKey, MayCall
<1>8. ASSUME NEW seq \in Sequences, HeaderWritten(seq)
      PROVE  KeysType'
  <2> DEFINE h == [seq |-> seq, counter |-> sMacFrameCounter, moved |-> FALSE]
  <2>1. h \in HeaderOfAck
    BY HeaderIsNew, Zenon DEF NewHeader
  <2>2. CASE txAckProcessSecurity(h) /\ UNCHANGED heldAck
    BY <2>1, <2>2, AckSecuredType, Zenon
  <2>3. CASE held' = TRUE /\ header' = h
             /\ UNCHANGED <<macKeys, sMacFrameCounter, keysTask, mac, nonces>>
    BY <2>1, <2>3, Zenon
  <2> QED
    BY <1>8, <2>2, <2>3, Zenon DEF HeaderWritten
<1>9. CASE HeldAckSecured
  BY <1>9, AckSecuredType, HeaderTypes, Zenon DEF HeldAckSecured
<1>10. ASSUME NEW c \in Counters, otPlatRadioSetMacFrameCounter(c)
      PROVE  KeysType'
  <2>1. sMacFrameCounter' \in Counters /\ header' \in HeaderOfAck /\ held' \in BOOLEAN
    BY <1>10, CounterWrittenType DEF otPlatRadioSetMacFrameCounter
  <2> QED
    BY <1>10, <2>1, FrameTypes, Zenon DEF otPlatRadioSetMacFrameCounter, MayCall
<1>11. CASE UNCHANGED keysVars
  BY <1>11 DEF keysVars
<1>12. CASE HeldAckDropped
  BY <1>12, HeaderTypes, Zenon DEF HeldAckDropped
<1> QED
  BY <1>1, <1>2, <1>3, <1>4, <1>5, <1>6, <1>7, <1>8, <1>9, <1>10, <1>11, <1>12 DEF KeysNext

\* The three keys follow each other.
KeysConsistent ==
  /\ sKeyId = KeyIdOf(sCurrKey)
  /\ sPrevKey = sCurrKey - 1
  /\ sNextKey = sCurrKey + 1

\* What the frame and the MAC hold on the way to encryption
FrameInv ==
  /\ step # "idle" /\ ~frame.switched => frame.keyId = KeyIdOf(sCurrKey)
  /\ step = "trigger" => txKey = sCurrKey
  /\ step = "trigger" /\ ~overtaken => nonce = frame.counter

\* An ack that is held back has the counter of now, or knows that it has not.
HeldInv == held /\ ~header.moved => header.counter = sMacFrameCounter

\* The counter is ahead of every nonce used without an exception, also the one that the
\* task has yet to store; the frame's own was used for the frame only, or is excepted.
CounterInv ==
  /\ ~repeated
  /\ \A c \in used \ excused :
       c < (IF step = "count" THEN frame.counter ELSE sMacFrameCounter)
  /\ step \in {"load", "trigger", "tried"} /\ ~frame.stale =>
       /\ frame.counter < sMacFrameCounter
       /\ frame.counter \in used => frame.tried \/ frame.counter \in excused

KeysInv == KeysType /\ KeysConsistent /\ FrameInv /\ HeldInv /\ AckUnderstood /\ CounterInv

\* Neighbouring key ids name neighbouring keys.
LEMMA KeyForNeighbour ==
  ASSUME KeysConsistent, sCurrKey \in Int, NEW seq \in Int, IdsInOrder(seq, sCurrKey)
  PROVE  KeyFor(KeyIdOf(seq)) = {seq}
<1>1. KeyIdOf(seq) \in Nat /\ KeyIdOf(sCurrKey) \in Nat
  BY KeyIdType
<1>2. CASE seq = sCurrKey
  BY <1>2 DEF KeysConsistent, KeyFor
<1>3. CASE seq = sCurrKey - 1
  <2>1. KeyIdOf(seq) = sKeyId - 1 /\ KeyIdOf(seq) # sKeyId
    BY <1>1, <1>3 DEF IdsInOrder, KeysConsistent
  <2> QED
    BY <1>3, <2>1 DEF KeysConsistent, KeyFor
<1>4. CASE seq = sCurrKey + 1
  <2>1. KeyIdOf(seq) = sKeyId + 1 /\ KeyIdOf(seq) # sKeyId /\ KeyIdOf(seq) # sKeyId - 1
    BY <1>1, <1>4 DEF IdsInOrder, KeysConsistent
  <2> QED
    BY <1>4, <2>1 DEF KeysConsistent, KeyFor
<1> QED
  BY <1>2, <1>3, <1>4 DEF IdsInOrder

LEMMA KeysInvInit == KeysInit => KeysInv
<1> SUFFICES ASSUME KeysInit PROVE KeysInv
  OBVIOUS
<1>1. KeysType
  BY KeysTypeInit
<1>2. KeysConsistent
  BY DEF KeysInit, KeysConsistent
<1>3. FrameInv /\ HeldInv /\ CounterInv
  BY DEF KeysInit, FrameInv, HeldInv, CounterInv
<1>4. AckUnderstood
  BY DEF KeysInit, AckUnderstood
<1> QED
  BY <1>1, <1>2, <1>3, <1>4 DEF KeysInv

\* What an ack leaves alone
LEMMA AckLeaves ==
  ASSUME NEW h, txAckProcessSecurity(h)
  PROVE  UNCHANGED <<macKeys, keysTask, txKey>>
  BY Zenon DEF txAckProcessSecurity, AckWithKey, AckWithoutKey

LEMMA HeaderLeaves ==
  ASSUME NEW seq, HeaderWritten(seq)
  PROVE  UNCHANGED <<macKeys, keysTask, txKey>>
  BY AckLeaves, Zenon DEF HeaderWritten, mac

LEMMA ConsistentNext == KeysInv /\ [KeysNext]_keysVars => KeysConsistent'
<1> SUFFICES ASSUME KeysInv, [KeysNext]_keysVars PROVE KeysConsistent'
  OBVIOUS
<1>1. ASSUME NEW seq \in Sequences, otPlatRadioSetMacKey(seq)
      PROVE  KeysConsistent'
  BY <1>1, Zenon DEF otPlatRadioSetMacKey, KeysConsistent, KeyIdOf
<1>2. CASE UNCHANGED macKeys
  BY <1>2, Zenon DEF KeysInv, KeysConsistent, macKeys, KeyIdOf
<1>3. ASSUME NEW seq \in Sequences, HeaderWritten(seq)
      PROVE  KeysConsistent'
  BY <1>2, <1>3, HeaderLeaves, Zenon
<1>4. CASE HeldAckSecured
  BY <1>2, <1>4, AckLeaves, Zenon DEF HeldAckSecured
<1> QED
  BY <1>1, <1>2, <1>3, <1>4, Zenon DEF KeysNext, SetKeyId, SetFrameCounter, txProcessSecurity,
     TrigUpperEnc, Retry, TxDone, HeldAckDropped, otPlatRadioSetMacFrameCounter, keysVars

LEMMA AckFrameInv ==
  ASSUME KeysInv, NEW h, txAckProcessSecurity(h)
  PROVE  FrameInv'
<1> USE DEF macKeys, keysTask, mac, nonces
<1>1. CASE AckWithKey(h)
  BY <1>1 DEF AckWithKey, KeysInv, FrameInv, KeyIdOf
<1>2. CASE AckWithoutKey(h)
  BY <1>2 DEF AckWithoutKey, KeysInv, FrameInv, KeyIdOf
<1> QED
  BY <1>1, <1>2 DEF txAckProcessSecurity

LEMMA FrameInvNext == KeysInv /\ [KeysNext]_keysVars => FrameInv'
<1> SUFFICES ASSUME KeysInv, [KeysNext]_keysVars PROVE FrameInv'
  OBVIOUS
<1> USE DEF macKeys, keysTask, mac, nonces
<1>0. frame \in Frame /\ NoFrame \in Frame
  BY FrameTypes, Zenon DEF KeysInv, KeysType, KeysTypeOK
<1>1. CASE SetKeyId
  BY <1>0, <1>1 DEF SetKeyId, KeysInv, FrameInv, KeysConsistent, Frame, KeyIdOf
<1>2. CASE SetFrameCounter
  BY <1>2 DEF SetFrameCounter, KeysInv, FrameInv, KeyIdOf
<1>3. CASE txProcessSecurity
  BY <1>3 DEF txProcessSecurity, KeysInv, FrameInv, KeyIdOf
<1>4. CASE TrigUpperEnc
  BY <1>0, <1>4 DEF TrigUpperEnc, KeysInv, FrameInv, Frame, KeyIdOf
<1>5. CASE Retry
  BY <1>5 DEF Retry, KeysInv, FrameInv, KeyIdOf
<1>6. CASE TxDone
  BY <1>6 DEF TxDone, FrameInv
<1>7. ASSUME NEW seq \in Sequences, otPlatRadioSetMacKey(seq)
      PROVE  FrameInv'
  BY <1>0, <1>7 DEF otPlatRadioSetMacKey, MayCall, FrameInv, Frame
<1>8. ASSUME UNCHANGED <<macKeys, sMacFrameCounter, keysTask, mac, nonces>>
      PROVE  FrameInv'
  BY <1>8 DEF KeysInv, FrameInv, KeyIdOf
<1>9. ASSUME NEW seq \in Sequences, HeaderWritten(seq)
      PROVE  FrameInv'
  BY <1>8, <1>9, AckFrameInv, Zenon DEF HeaderWritten
<1>10. ASSUME NEW c \in Counters, otPlatRadioSetMacFrameCounter(c)
      PROVE  FrameInv'
  BY <1>0, <1>10 DEF otPlatRadioSetMacFrameCounter, MayCall, KeysInv, FrameInv, Frame, KeyIdOf
<1>11. CASE HeldAckSecured
  BY <1>11, AckFrameInv, Zenon DEF HeldAckSecured
<1>12. CASE HeldAckDropped \/ UNCHANGED keysVars
  BY <1>8, <1>12, Zenon DEF HeldAckDropped, keysVars
<1> QED
  BY <1>1, <1>2, <1>3, <1>4, <1>5, <1>6, <1>7, <1>9, <1>10, <1>11, <1>12 DEF KeysNext

LEMMA HeldInvNext == KeysInv /\ [KeysNext]_keysVars => HeldInv'
<1> SUFFICES ASSUME KeysInv, [KeysNext]_keysVars PROVE HeldInv'
  OBVIOUS
<1> USE DEF macKeys, keysTask, mac, heldAck, nonces
<1>0. header \in HeaderOfAck /\ held \in BOOLEAN
  BY DEF KeysInv, KeysType, KeysTypeOK
<1>1. ASSUME NEW c \in Counters, CounterWritten(c)
      PROVE  HeldInv'
  BY <1>0, <1>1 DEF CounterWritten, HeldInv, HeaderOfAck
<1>2. CASE SetFrameCounter
  <2>1. frame.counter \in Counters /\ frame.counter < CounterBound
    BY <1>2, FrameTypes, Zenon DEF SetFrameCounter, KeysInv, KeysType, KeysTypeOK
  <2>2. frame.counter + 1 \in Counters
    BY <2>1, MacKeysAssumption DEF Counters
  <2> QED
    BY <1>1, <1>2, <2>2 DEF SetFrameCounter
<1>3. ASSUME NEW c \in Counters, otPlatRadioSetMacFrameCounter(c)
      PROVE  HeldInv'
  BY <1>1, <1>3 DEF otPlatRadioSetMacFrameCounter
<1>4. ASSUME NEW seq \in Sequences, HeaderWritten(seq)
      PROVE  HeldInv'
  <2> DEFINE h == [seq |-> seq, counter |-> sMacFrameCounter, moved |-> FALSE]
  <2>1. CASE ~held /\ UNCHANGED heldAck
    BY <2>1 DEF HeldInv
  <2>2. CASE header' = h /\ UNCHANGED sMacFrameCounter
    BY <2>2 DEF HeldInv
  <2>3. \/ ~held /\ UNCHANGED heldAck
        \/ header' = h /\ UNCHANGED sMacFrameCounter
    BY <1>4, Zenon DEF HeaderWritten
  <2> QED
    BY <2>1, <2>2, <2>3
<1>5. CASE HeldAckSecured \/ HeldAckDropped
  BY <1>5 DEF HeldAckSecured, HeldAckDropped, HeldInv
<1>6. CASE UNCHANGED <<sMacFrameCounter, heldAck>>
  BY <1>6 DEF KeysInv, HeldInv
<1> QED
  BY <1>2, <1>3, <1>4, <1>5, <1>6, Zenon DEF KeysNext, SetKeyId, txProcessSecurity, TrigUpperEnc,
     Retry, TxDone, otPlatRadioSetMacKey, keysVars

\* An ack whose header has the counter of now, or knows that it has not, has what the
\* neighbour expects.
LEMMA AckSecuredUnderstood ==
  ASSUME KeysInv, NEW h \in HeaderOfAck, h.moved \/ h.counter = sMacFrameCounter,
         txAckProcessSecurity(h)
  PROVE  AckUnderstood'
<1>0. h.seq \in Int /\ sCurrKey \in Int
  BY HeaderTypes, Zenon DEF KeysInv, KeysType, KeysTypeOK
<1>1. ASSUME IdsInOrder(h.seq, sCurrKey) PROVE KeyFor(KeyIdOf(h.seq)) = {h.seq}
  BY <1>0, <1>1, KeyForNeighbour DEF KeysInv
<1>2. CASE AckWithKey(h)
  <2>1. PICK key \in KeyFor(KeyIdOf(h.seq)) :
          nonce' = sMacFrameCounter /\ ackKey' = key /\ Sends(h)
    BY <1>2, Zenon DEF AckWithKey
  <2>2. ASSUME IdsInOrder(h.seq, sCurrKey) PROVE ackKey' = h.seq
    BY <1>1, <2>1, <2>2
  <2> HIDE DEF IdsInOrder
  <2> QED
    BY <2>1, <2>2 DEF Sends, AckUnderstood
<1>3. CASE AckWithoutKey(h)
  <2>1. ~IdsInOrder(h.seq, sCurrKey)
    BY <1>1, <1>3 DEF AckWithoutKey
  <2> QED
    BY <1>3, <2>1 DEF AckWithoutKey, Sends, AckUnderstood
<1> QED
  BY <1>2, <1>3 DEF txAckProcessSecurity

LEMMA AckUnderstoodNext == KeysInv /\ [KeysNext]_keysVars => AckUnderstood'
<1> SUFFICES ASSUME KeysInv, [KeysNext]_keysVars PROVE AckUnderstood'
  OBVIOUS
<1>0. KeysTypeOK
  BY DEF KeysInv, KeysType
<1>1. CASE UNCHANGED sent
  BY <1>1 DEF KeysInv, AckUnderstood
<1>2. ASSUME NEW seq \in Sequences, HeaderWritten(seq)
      PROVE  AckUnderstood'
  <2> DEFINE h == [seq |-> seq, counter |-> sMacFrameCounter, moved |-> FALSE]
  <2>1. h \in HeaderOfAck /\ h.counter = sMacFrameCounter
    BY <1>0, HeaderIsNew, Zenon DEF NewHeader
  <2>2. txAckProcessSecurity(h) \/ UNCHANGED sent
    BY <1>2 DEF HeaderWritten, mac
  <2> HIDE DEF h
  <2> QED
    BY <1>1, <2>1, <2>2, AckSecuredUnderstood
<1>3. CASE HeldAckSecured
  <2>1. header \in HeaderOfAck /\ (header.moved \/ header.counter = sMacFrameCounter)
    BY <1>0, <1>3 DEF HeldAckSecured, KeysInv, HeldInv, KeysTypeOK
  <2> QED
    BY <1>3, <2>1, AckSecuredUnderstood DEF HeldAckSecured
<1> QED
  BY <1>1, <1>2, <1>3, Zenon DEF KeysNext, SetKeyId, SetFrameCounter, txProcessSecurity,
     TrigUpperEnc, Retry, TxDone, HeldAckDropped, otPlatRadioSetMacKey,
     otPlatRadioSetMacFrameCounter, keysVars, mac

LEMMA KeysNumbers ==
  ASSUME KeysInv
  PROVE  /\ frame \in Frame /\ NoFrame \in Frame
         /\ sMacFrameCounter \in Int /\ frame.counter \in Int /\ nonce \in Int
         /\ step \in {"idle", "count", "load", "trigger", "tried"}
         /\ \A c \in used : c \in Int
<1>1. \A c \in Counters : c \in Int
  BY MacKeysAssumption DEF Counters
<1> QED
  BY <1>1, FrameTypes, Zenon DEF KeysInv, KeysType, KeysTypeOK

LEMMA UseExcepted ==
  ASSUME NEW n, NEW again, NEW excepted, excepted, Uses(n, again, excepted)
  PROVE  /\ used' = used \cup {n}
         /\ excused' = excused \cup {n}
         /\ repeated' => repeated
<1>1. excused' = excused \cup {n}
  BY Zenon DEF Uses
<1>2. used' = used \cup {n} /\ repeated' = (repeated \/ (n \in used \ excused' /\ ~again))
  BY Zenon DEF Uses
<1> QED
  BY <1>1, <1>2

LEMMA UseCounted ==
  ASSUME NEW n, NEW again, NEW excepted, ~excepted, Uses(n, again, excepted)
  PROVE  /\ used' = used \cup {n}
         /\ excused' = excused
         /\ repeated' = (repeated \/ (n \in used \ excused /\ ~again))
  BY Zenon DEF Uses

LEMMA AckCounterInv ==
  ASSUME KeysInv, NEW h, txAckProcessSecurity(h)
  PROVE  CounterInv'
<1> USE DEF keysTask
<1>1. CASE AckWithKey(h)
  <2>1. /\ sMacFrameCounter' = sMacFrameCounter + 1
        /\ Uses(sMacFrameCounter, FALSE, step = "count")
        /\ UNCHANGED keysTask
    BY <1>1, Zenon DEF AckWithKey
  <2>2. CASE step = "count"
    <3>1. /\ used' = used \cup {sMacFrameCounter}
          /\ excused' = excused \cup {sMacFrameCounter}
          /\ repeated' => repeated
      BY <2>1, <2>2, UseExcepted, Zenon
    <3> QED
      BY <2>1, <2>2, <3>1 DEF KeysInv, CounterInv
  <2>3. CASE step # "count"
    <3>1. sMacFrameCounter \notin used \ excused
      BY <2>3, KeysNumbers DEF KeysInv, CounterInv
    <3>2. /\ used' = used \cup {sMacFrameCounter}
          /\ excused' = excused
          /\ ~repeated'
      BY <2>1, <2>3, <3>1 DEF Uses, KeysInv, CounterInv
    <3>3. \A c \in used' \ excused' : c < sMacFrameCounter'
      BY <2>1, <2>3, <3>2, KeysNumbers DEF KeysInv, CounterInv
    <3>4. ASSUME step \in {"load", "trigger", "tried"}, ~frame.stale
          PROVE  /\ frame.counter < sMacFrameCounter'
                 /\ frame.counter \in used' => frame.tried \/ frame.counter \in excused'
      BY <2>1, <3>2, <3>4, KeysNumbers DEF KeysInv, CounterInv
    <3> QED
      BY <2>1, <2>3, <3>2, <3>3, <3>4 DEF CounterInv
  <2> QED
    BY <2>2, <2>3
<1>2. CASE AckWithoutKey(h)
  <2>1. UNCHANGED <<sMacFrameCounter, keysTask>> /\ Uses(nonce, FALSE, TRUE)
    BY <1>2 DEF AckWithoutKey
  <2>2. /\ used' = used \cup {nonce}
        /\ excused' = excused \cup {nonce}
        /\ repeated' => repeated
    BY <2>1, UseExcepted, Zenon
  <2> QED
    BY <2>1, <2>2 DEF KeysInv, CounterInv
<1> QED
  BY <1>1, <1>2 DEF txAckProcessSecurity

LEMMA CounterInvNext == KeysInv /\ [KeysNext]_keysVars => CounterInv'
<1> SUFFICES ASSUME KeysInv, [KeysNext]_keysVars PROVE CounterInv'
  OBVIOUS
<1> USE DEF macKeys, keysTask, mac, nonces
<1>0. /\ frame \in Frame /\ NoFrame \in Frame
      /\ sMacFrameCounter \in Int /\ frame.counter \in Int /\ nonce \in Int
      /\ step \in {"idle", "count", "load", "trigger", "tried"}
      /\ \A c \in used : c \in Int
  BY KeysNumbers
<1>1. CASE SetKeyId
  <2>1. frame'.counter = sMacFrameCounter
    BY <1>0, <1>1 DEF SetKeyId, Frame
  <2> QED
    BY <1>1, <2>1 DEF SetKeyId, KeysInv, CounterInv
<1>2. CASE SetFrameCounter
  <2>1. sMacFrameCounter' = frame.counter + 1
    BY <1>2 DEF SetFrameCounter, CounterWritten
  <2>2. \A c \in used \ excused : c < frame.counter
    BY <1>2 DEF SetFrameCounter, KeysInv, CounterInv
  <2>3. \A c \in used \ excused : c < frame.counter + 1 /\ c # frame.counter
    BY <1>0, <2>2
  <2>4. frame.counter < frame.counter + 1
    BY <1>0
  <2> QED
    BY <1>2, <2>1, <2>3, <2>4 DEF SetFrameCounter, KeysInv, CounterInv
<1>3. CASE txProcessSecurity
  BY <1>3 DEF txProcessSecurity, KeysInv, CounterInv
<1>4. CASE TrigUpperEnc
  <2>1. frame'.counter = frame.counter /\ frame'.stale = frame.stale
        /\ frame'.tried = (frame.tried \/ ~overtaken)
    BY <1>0, <1>4 DEF TrigUpperEnc, Frame
  <2>2. CASE overtaken \/ frame.stale
    <3>1. /\ used' = used \cup {nonce}
          /\ excused' = excused \cup {nonce}
          /\ repeated' => repeated
      BY <1>4, <2>2, UseExcepted, Zenon DEF TrigUpperEnc
    <3>2. step = "trigger" /\ step' = "tried" /\ UNCHANGED sMacFrameCounter
      BY <1>4 DEF TrigUpperEnc
    <3>3. \A c \in used' \ excused' : c < sMacFrameCounter'
      BY <3>1, <3>2 DEF KeysInv, CounterInv
    <3>4. ASSUME ~frame'.stale
          PROVE  /\ frame'.counter < sMacFrameCounter'
                 /\ frame'.counter \in used' => frame'.tried \/ frame'.counter \in excused'
      <4>1. /\ frame.counter < sMacFrameCounter
            /\ frame.counter \in used => frame.tried \/ frame.counter \in excused
        BY <2>1, <3>2, <3>4 DEF KeysInv, CounterInv
      <4> QED
        BY <2>1, <3>1, <3>2, <4>1
    <3> QED
      BY <3>1, <3>2, <3>3, <3>4 DEF KeysInv, CounterInv
  <2>3. CASE ~overtaken /\ ~frame.stale
    <3>1. nonce = frame.counter
      BY <1>4, <2>3 DEF TrigUpperEnc, KeysInv, FrameInv
    <3>2. /\ frame.counter < sMacFrameCounter
          /\ frame.counter \in used => frame.tried \/ frame.counter \in excused
      BY <1>4, <2>3 DEF TrigUpperEnc, KeysInv, CounterInv
    <3>3. /\ used' = used \cup {frame.counter}
          /\ excused' = excused
          /\ ~repeated'
      BY <1>4, <2>3, <3>1, <3>2 DEF TrigUpperEnc, Uses, KeysInv, CounterInv
    <3> QED
      BY <1>4, <2>1, <2>3, <3>2, <3>3 DEF TrigUpperEnc, KeysInv, CounterInv
  <2> QED
    BY <2>2, <2>3
<1>5. CASE Retry
  BY <1>5 DEF Retry, KeysInv, CounterInv
<1>6. CASE TxDone
  BY <1>6 DEF TxDone, KeysInv, CounterInv
<1>7. ASSUME NEW seq \in Sequences, otPlatRadioSetMacKey(seq)
      PROVE  CounterInv'
  BY <1>0, <1>7 DEF otPlatRadioSetMacKey, MayCall, KeysInv, CounterInv, Frame
<1>8. ASSUME UNCHANGED <<sMacFrameCounter, keysTask, nonces>>
      PROVE  CounterInv'
  BY <1>8 DEF KeysInv, CounterInv
<1>9. ASSUME NEW seq \in Sequences, HeaderWritten(seq)
      PROVE  CounterInv'
  BY <1>8, <1>9, AckCounterInv, Zenon DEF HeaderWritten
<1>10. ASSUME NEW c \in Counters, otPlatRadioSetMacFrameCounter(c)
      PROVE  CounterInv'
  BY <1>0, <1>10 DEF otPlatRadioSetMacFrameCounter, MayCall, CounterInv, Frame
<1>11. CASE HeldAckSecured
  BY <1>11, AckCounterInv, Zenon DEF HeldAckSecured
<1>12. CASE HeldAckDropped \/ UNCHANGED keysVars
  BY <1>8, <1>12, Zenon DEF HeldAckDropped, keysVars
<1> QED
  BY <1>1, <1>2, <1>3, <1>4, <1>5, <1>6, <1>7, <1>9, <1>10, <1>11, <1>12 DEF KeysNext

\* Every behaviour of the keys satisfies the invariant.
THEOREM KeysInvHolds == KeysSpec => []KeysInv
<1>1. KeysInv /\ [KeysNext]_keysVars => KeysInv'
  BY KeysTypeNext, ConsistentNext, FrameInvNext, HeldInvNext, AckUnderstoodNext,
     CounterInvNext DEF KeysInv
<1> QED
  BY <1>1, KeysInvInit, PTL DEF KeysSpec

\* Every variable of MacKeys keeps its type.
THEOREM KeysTypeCorrect == KeysSpec => []KeysTypeOK
<1>1. KeysInv => KeysTypeOK
  BY DEF KeysInv, KeysType
<1> QED
  BY <1>1, KeysInvHolds, PTL

\* A frame's header says key and nonce, however task, acks and changes of the keys
\* interleave; only a change between two attempts and an ack between the two calls of
\* the MAC are excepted.
THEOREM HeadersTell == KeysSpec => []FrameUnderstood
<1>1. KeysInv => FrameUnderstood
  BY DEF KeysInv, FrameInv, FrameUnderstood
<1> QED
  BY <1>1, KeysInvHolds, PTL

\* Acks to neighbours one key apart have the neighbour's key and the nonce of their
\* header, for any number of key ids, unless they were held back over a write of the
\* counter by the task: those have the key.
THEOREM AcksDecrypted == KeysSpec => []AckUnderstood
<1>1. KeysInv => AckUnderstood
  BY DEF KeysInv
<1> QED
  BY <1>1, KeysInvHolds, PTL

\* No nonce serves two frames but by one of the four exceptions of CounterUsedOnce,
\* for any bound of the counter.
THEOREM NoncesDiffer == KeysSpec => []CounterUsedOnce
<1>1. KeysInv => CounterUsedOnce
  BY DEF KeysInv, CounterInv, CounterUsedOnce
<1> QED
  BY <1>1, KeysInvHolds, PTL

-----------------------------------------------------------------------------
(* SrcMatch.                                                               *)

\* What OpenThread was told is in the table; unless the PAN id changed it is all that
\* is, and entered under this PAN id.
MatchInv ==
  /\ told \subseteq table
  /\ ~panChanged => /\ table = told
                    /\ \A entry \in told : entry = Entry(entry.address, sPanid)

LEMMA EntryAddress == \A address, panid : Entry(address, panid).address = address
  BY DEF Entry

LEMMA MatchInvNext == MatchInv /\ [MatchNext]_matchVars => MatchInv'
<1> SUFFICES ASSUME MatchInv, [MatchNext]_matchVars PROVE MatchInv'
  OBVIOUS
<1>1. ASSUME NEW panid \in PanIds, otPlatRadioSetPanId(panid)
      PROVE  MatchInv'
  <2>1. UNCHANGED <<table, told>> /\ sPanid' = panid
    BY <1>1 DEF otPlatRadioSetPanId
  <2>2. ~panChanged' => ~panChanged /\ (sPanid' = sPanid \/ table = {})
    BY <1>1, Zenon DEF otPlatRadioSetPanId
  <2> QED
    BY <2>1, <2>2, Zenon DEF MatchInv, Entry
<1>2. ASSUME NEW mode, otPlatRadioEnableSrcMatch(mode)
      PROVE  MatchInv'
  BY <1>2, Zenon DEF otPlatRadioEnableSrcMatch, MatchInv, Entry
<1>3. ASSUME NEW address \in Addresses, otPlatRadioAddSrcMatchEntry(address)
      PROVE  MatchInv'
  <2> DEFINE new == Entry(address, sPanid)
  <2>1. UNCHANGED <<sPanid, panChanged>> /\ new.address = address
    BY <1>3, EntryAddress DEF otPlatRadioAddSrcMatchEntry
  <2>2. \/ table' = table \cup {new} /\ told' = told \cup {new}
        \/ UNCHANGED <<table, told>>
    BY <1>3 DEF otPlatRadioAddSrcMatchEntry
  <2>3. new = Entry(new.address, sPanid)
    BY <2>1
  <2> HIDE DEF new
  <2>4. CASE table' = table \cup {new} /\ told' = told \cup {new}
    BY <2>1, <2>3, <2>4, Zenon DEF MatchInv, Entry
  <2>5. CASE UNCHANGED <<table, told>>
    BY <2>1, <2>5, Zenon DEF MatchInv, Entry
  <2> QED
    BY <2>2, <2>4, <2>5
<1>4. ASSUME NEW address \in Addresses, otPlatRadioClearSrcMatchEntry(address)
      PROVE  MatchInv'
  <2>1. /\ table' = table \ {Entry(address, sPanid)}
        /\ told' = {entry \in told : entry.address # address}
        /\ UNCHANGED <<sPanid, panChanged>>
    BY <1>4 DEF otPlatRadioClearSrcMatchEntry, Told
  <2>2. told' \subseteq table'
    BY <2>1, EntryAddress DEF MatchInv
  <2>3. ASSUME ~panChanged
        PROVE  table' = told' /\ \A entry \in told' : entry = Entry(entry.address, sPanid)
    <3>1. \A entry \in told : entry.address = address <=> entry = Entry(address, sPanid)
      BY <2>3, EntryAddress DEF MatchInv
    <3> QED
      BY <2>1, <2>3, <3>1 DEF MatchInv
  <2> QED
    BY <2>1, <2>2, <2>3, Zenon DEF MatchInv, Entry
<1>5. CASE otPlatRadioClearSrcMatchEntries
  BY <1>5 DEF otPlatRadioClearSrcMatchEntries, MatchInv
<1>6. CASE UNCHANGED matchVars
  BY <1>6, Zenon DEF matchVars, MatchInv, Entry
<1> QED
  BY <1>1, <1>2, <1>3, <1>4, <1>5, <1>6 DEF MatchNext

\* For any number of children and of entries the hardware table matches whom OpenThread
\* was told it matches.
THEOREM TableTold == MatchSpec => []TableAsTold
<1>1. MatchInit => MatchInv
  BY DEF MatchInit, MatchInv
<1>2. MatchInv => TableAsTold
  BY DEF MatchInv, TableAsTold
<1> QED
  BY <1>1, <1>2, MatchInvNext, PTL DEF MatchSpec

-----------------------------------------------------------------------------
(* BtClock.                                                                *)

Range0 == 0 .. MAX_BT_CLOCK_COUNTER - 1

Received == [bt_time : Int, at : Int, wrapped : BOOLEAN]

ClockType ==
  /\ elapsed \in Nat /\ btus \in Range0 /\ bt_clk_offset \in Int
  /\ overflow \in BOOLEAN
  /\ sleep \in {"awake", "asleep", "waking"}
  /\ enter_time_us \in Range0 /\ wakeupIn \in Nat
  /\ rx \in Received
  /\ sample \in Int

\* What is left to sleep ends before the counter is back where the sleep began, so that
\* comparing it with enter_time_us tells whether it wrapped.
TimeInv ==
  /\ sleep = "awake" =>
       elapsed = bt_clk_offset + btus + (IF overflow THEN MAX_BT_CLOCK_COUNTER ELSE 0)
  /\ sleep # "awake" =>
       /\ ~overflow /\ rx = NoRx
       /\ btus >= enter_time_us =>
            /\ elapsed = bt_clk_offset + btus
            /\ btus - enter_time_us + wakeupIn <= MAX_BT_CLOCK_COUNTER - 2
       /\ btus < enter_time_us =>
            /\ elapsed = bt_clk_offset + MAX_BT_CLOCK_COUNTER + btus
            /\ btus - enter_time_us + wakeupIn <= -2

\* A frame that is still in the ring
RxInv ==
  rx # NoRx =>
    /\ overflow => rx.wrapped
    /\ ~rx.wrapped => rx.at = bt_clk_offset + rx.bt_time

ClockInv == ClockType /\ TimeInv /\ RxInv /\ TimestampExact

LEMMA ClockConstants ==
  /\ MAX_BT_CLOCK_COUNTER \in Nat /\ MAX_BT_CLOCK_COUNTER > 3
  /\ MAX_BT_CLOCK_COUNTER \div 2 \in 2 .. MAX_BT_CLOCK_COUNTER - 1
  /\ LongestPeriod \in Nat
<1>1. MAX_BT_CLOCK_COUNTER \in Nat /\ MAX_BT_CLOCK_COUNTER > 3
  BY BtClockAssumption
<1>2. MAX_BT_CLOCK_COUNTER \div 2 \in 2 .. MAX_BT_CLOCK_COUNTER - 1
  BY <1>1
<1>3. LongestPeriod \in CslPeriods
  BY BtClockAssumption, Zenon DEF LongestPeriod
<1> QED
  BY <1>1, <1>2, <1>3, BtClockAssumption

LEMMA RxTypes ==
  /\ NoRx \in Received
  /\ \A r \in Received : r.bt_time \in Int /\ r.at \in Int /\ r.wrapped \in BOOLEAN
  /\ \A r \in Received, w \in BOOLEAN :
       /\ [r EXCEPT !.wrapped = w] \in Received
       /\ [r EXCEPT !.wrapped = w].bt_time = r.bt_time
       /\ [r EXCEPT !.wrapped = w].at = r.at
       /\ [r EXCEPT !.wrapped = w].wrapped = w
  BY DEF NoRx, Received

LEMMA RxUnwrapped == \A r \in Received : ~r.wrapped => [r EXCEPT !.wrapped = FALSE] = r
  BY DEF Received

LEMMA ClockInvInit == ClockInit => ClockInv
<1> SUFFICES ASSUME ClockInit PROVE ClockInv
  OBVIOUS
<1>1. rx = NoRx /\ mTimestamp.of = NoRx
  BY DEF ClockInit
<1>2. ClockType
  <2>1. 0 \in Nat /\ 0 \in Int /\ 0 \in Range0
    BY ClockConstants DEF Range0
  <2> QED
    BY <1>1, <2>1, RxTypes, Zenon DEF ClockInit, ClockType
<1>3. TimeInv
  BY ClockConstants DEF ClockInit, TimeInv
<1> QED
  BY <1>1, <1>2, <1>3 DEF ClockInv, RxInv, TimestampExact

LEMMA MicrosecondKeeps == ClockInv /\ Microsecond => ClockInv'
<1> SUFFICES ASSUME ClockInv, Microsecond PROVE ClockInv'
  OBVIOUS
<1>1. /\ elapsed' = elapsed + 1
      /\ overflow' = (overflow \/ (Wraps /\ sleep = "awake"))
      /\ wakeupIn' = IF sleep = "asleep" THEN wakeupIn - 1 ELSE wakeupIn
      /\ rx' = [rx EXCEPT !.wrapped = @ \/ (rx # NoRx /\ Wraps)]
      /\ UNCHANGED <<bt_clk_offset, sleep, enter_time_us, mTimestamp, sample>>
      /\ sleep # "waking" /\ (sleep = "asleep" => wakeupIn > 0)
      /\ Wraps => ~overflow
  BY DEF Microsecond
<1>2. btus' = IF Wraps THEN 0 ELSE btus + 1
  <2>1. CASE Wraps
    <3>1. (MAX_BT_CLOCK_COUNTER * 1 + 0) % MAX_BT_CLOCK_COUNTER = 0
      BY ModOf, ClockConstants
    <3> QED
      BY <2>1, <3>1, ClockConstants DEF Microsecond, Wraps
  <2>2. CASE ~Wraps
    <3>1. btus + 1 \in 0 .. MAX_BT_CLOCK_COUNTER - 1
      BY <2>2, ClockConstants DEF ClockInv, ClockType, Range0, Wraps
    <3>2. (MAX_BT_CLOCK_COUNTER * 0 + (btus + 1)) % MAX_BT_CLOCK_COUNTER = btus + 1
      BY <3>1, ModOf, ClockConstants
    <3> QED
      BY <2>2, <3>1, <3>2, ClockConstants DEF Microsecond
  <2> QED
    BY <2>1, <2>2
<1>3. /\ elapsed \in Nat /\ btus \in Int /\ 0 <= btus /\ btus < MAX_BT_CLOCK_COUNTER
      /\ bt_clk_offset \in Int /\ wakeupIn \in Nat /\ MAX_BT_CLOCK_COUNTER \in Nat
      /\ enter_time_us \in Int /\ 0 <= enter_time_us /\ enter_time_us < MAX_BT_CLOCK_COUNTER
      /\ Wraps => btus = MAX_BT_CLOCK_COUNTER - 1
      /\ ~Wraps => btus + 1 < MAX_BT_CLOCK_COUNTER
  BY ClockConstants DEF ClockInv, ClockType, Range0, Wraps
<1>4. /\ overflow \in BOOLEAN /\ sleep \in {"awake", "asleep", "waking"}
      /\ rx \in Received /\ sample \in Int /\ enter_time_us \in Range0
      /\ Wraps \in BOOLEAN
  BY Zenon DEF ClockInv, ClockType, Wraps
<1> DEFINE wraps == Wraps
<1> HIDE DEF wraps
<1>5. ClockType'
  <2>1. elapsed' \in Nat /\ btus' \in Range0 /\ wakeupIn' \in Nat
    BY <1>1, <1>2, <1>3, ClockConstants DEF Range0
  <2>2. rx' \in Received
    BY <1>1, <1>4, RxTypes, Zenon
  <2>3. overflow' \in BOOLEAN
    BY <1>1, <1>4, Zenon
  <2> QED
    BY <1>1, <1>3, <1>4, <2>1, <2>2, <2>3, Zenon DEF ClockType, Range0
<1>6. rx = NoRx => rx' = NoRx
  <2>2. NoRx.wrapped = FALSE
    BY DEF NoRx
  <2>1. [NoRx EXCEPT !.wrapped = FALSE] = NoRx
    BY <2>2, RxTypes, RxUnwrapped, Zenon
  <2>3. rx = NoRx => (rx.wrapped \/ (rx # NoRx /\ Wraps)) = FALSE
    BY <2>2, Zenon
  <2> QED
    BY <1>1, <2>1, <2>3, Zenon
<1>7. TimeInv'
  <2>1. CASE sleep = "awake"
    <3>1. CASE Wraps
      <4>1. ~overflow /\ overflow'
        BY <1>1, <2>1, <3>1, Zenon
      <4>2. btus' = 0 /\ elapsed = bt_clk_offset + btus
        BY <1>2, <1>3, <2>1, <3>1, <4>1 DEF ClockInv, TimeInv
      <4> QED
        BY <1>1, <1>3, <2>1, <3>1, <4>1, <4>2 DEF TimeInv
    <3>2. CASE ~Wraps
      <4>1. overflow' = overflow
        BY <1>1, <1>4, <3>2, Zenon
      <4> QED
        BY <1>1, <1>2, <1>3, <2>1, <3>2, <4>1 DEF ClockInv, TimeInv
    <3> QED
      BY <3>1, <3>2
  <2>2. CASE sleep = "asleep"
    <3>1. ~overflow' /\ rx' = NoRx /\ wakeupIn' = wakeupIn - 1
      BY <1>1, <1>6, <2>2 DEF ClockInv, TimeInv
    <3>2. /\ btus' >= enter_time_us =>
               /\ elapsed' = bt_clk_offset + btus'
               /\ btus' - enter_time_us + wakeupIn' <= MAX_BT_CLOCK_COUNTER - 2
          /\ btus' < enter_time_us =>
               /\ elapsed' = bt_clk_offset + MAX_BT_CLOCK_COUNTER + btus'
               /\ btus' - enter_time_us + wakeupIn' <= -2
      BY <1>1, <1>2, <1>3, <2>2, <3>1 DEF ClockInv, TimeInv
    <3> QED
      BY <1>1, <2>2, <3>1, <3>2 DEF TimeInv
  <2> QED
    BY <1>1, <1>4, <2>1, <2>2
<1>8. RxInv'
  <2> SUFFICES ASSUME rx' # NoRx PROVE RxInv'
    BY DEF RxInv
  <2>1. rx # NoRx /\ sleep = "awake"
    BY <1>4, <1>6 DEF ClockInv, TimeInv
  <2>2. rx'.at = rx.at /\ rx'.bt_time = rx.bt_time /\ rx'.wrapped = (rx.wrapped \/ Wraps)
    <3>1. (rx.wrapped \/ (rx # NoRx /\ Wraps)) = (rx.wrapped \/ Wraps)
      BY <2>1
    <3>2. (rx.wrapped \/ (rx # NoRx /\ Wraps)) \in BOOLEAN
      OBVIOUS
    <3> QED
      BY <1>1, <1>4, <3>1, <3>2, RxTypes, Zenon
  <2> QED
    BY <1>1, <2>1, <2>2, Zenon DEF ClockInv, RxInv
<1>9. TimestampExact'
  BY <1>1, Zenon DEF ClockInv, TimestampExact, NoRx
<1> QED
  BY <1>5, <1>7, <1>8, <1>9 DEF ClockInv

LEMMA OtherClockSteps ==
  ClockInv /\ [ClockNext]_clockVars => ClockInv' \/ Microsecond
<1> SUFFICES ASSUME ClockInv, [ClockNext]_clockVars, ~Microsecond PROVE ClockInv'
  OBVIOUS
<1> USE DEF clock, sleepVars
<1>0. /\ elapsed \in Nat /\ btus \in Int /\ 0 <= btus /\ btus < MAX_BT_CLOCK_COUNTER
      /\ bt_clk_offset \in Int /\ wakeupIn \in Nat /\ MAX_BT_CLOCK_COUNTER \in Nat
      /\ enter_time_us \in Int /\ 0 <= enter_time_us /\ enter_time_us < MAX_BT_CLOCK_COUNTER
  BY ClockConstants DEF ClockInv, ClockType, Range0
<1>1. CASE BtOverflow
  <2>1. /\ overflow /\ ~overflow'
        /\ bt_clk_offset' = bt_clk_offset + MAX_BT_CLOCK_COUNTER
        /\ UNCHANGED <<elapsed, btus, sleep, enter_time_us, wakeupIn, rx, mTimestamp, sample>>
    BY <1>1 DEF BtOverflow
  <2>2. sleep = "awake" /\ elapsed = bt_clk_offset + btus + MAX_BT_CLOCK_COUNTER
    BY <1>0, <2>1 DEF ClockInv, TimeInv
  <2>3. TimeInv'
    BY <1>0, <2>1, <2>2 DEF TimeInv
  <2>4. bt_clk_offset' \in Int /\ overflow' = FALSE
    BY <1>0, <1>1 DEF BtOverflow
  <2>5. ClockType'
    BY <2>1, <2>4, Zenon DEF ClockInv, ClockType, Range0
  <2>6. RxInv'
    BY <2>1, Zenon DEF ClockInv, RxInv, NoRx
  <2> QED
    BY <2>1, <2>3, <2>5, <2>6, Zenon DEF ClockInv, TimestampExact, NoRx
<1>2. ASSUME NEW diff \in 0 .. 2 * MAX_BT_CLOCK_COUNTER, PowerManagerSleeps(diff)
      PROVE  ClockInv'
  <2>1. /\ sleep = "awake" /\ ~overflow /\ rx = NoRx
        /\ sleep' = "asleep" /\ enter_time_us' = btus /\ wakeupIn' = Capped(diff)
        /\ UNCHANGED <<elapsed, btus, bt_clk_offset, overflow, rx, mTimestamp, sample>>
    BY <1>2 DEF PowerManagerSleeps
  <2>2. Capped(diff) \in Nat /\ Capped(diff) <= MAX_BT_CLOCK_COUNTER - 2
    BY ClockConstants DEF Capped
  <2>3. elapsed = bt_clk_offset + btus
    BY <1>0, <2>1 DEF ClockInv, TimeInv
  <2>4. TimeInv'
    BY <1>0, <2>1, <2>2, <2>3 DEF TimeInv, NoRx
  <2>5. ClockType'
    BY <2>1, <2>2, Zenon DEF ClockInv, ClockType, Range0
  <2> QED
    BY <2>1, <2>4, <2>5, Zenon DEF ClockInv, TimestampExact, RxInv, NoRx
<1>3. CASE PowerManagerWakes
  <2>1. /\ sleep = "asleep" /\ sleep' = "waking"
        /\ UNCHANGED <<elapsed, btus, bt_clk_offset, overflow, enter_time_us, wakeupIn, rx,
                       mTimestamp, sample>>
    BY <1>3 DEF PowerManagerWakes
  <2>2. TimeInv'
    BY <2>1, Zenon DEF ClockInv, TimeInv, NoRx
  <2>3. ClockType'
    BY <2>1, Zenon DEF ClockInv, ClockType, Range0
  <2> QED
    BY <2>1, <2>2, <2>3, Zenon DEF ClockInv, TimestampExact, RxInv, NoRx
<1>4. CASE zbpm_exit_pan0
  <2>1. /\ sleep = "waking" /\ sleep' = "awake" /\ wakeupIn' = 0
        /\ bt_clk_offset' = IF btus < enter_time_us
                            THEN bt_clk_offset + MAX_BT_CLOCK_COUNTER ELSE bt_clk_offset
        /\ UNCHANGED <<elapsed, btus, overflow, enter_time_us, rx, mTimestamp, sample>>
    BY <1>4 DEF zbpm_exit_pan0
  <2>2. ~overflow /\ rx = NoRx
    BY <2>1 DEF ClockInv, TimeInv
  <2>3. elapsed = bt_clk_offset' + btus
    BY <1>0, <2>1 DEF ClockInv, TimeInv
  <2>4. bt_clk_offset' \in Int /\ 0 \in Nat
    BY <1>0, <2>1
  <2>5. TimeInv'
    BY <1>0, <2>1, <2>2, <2>3, <2>4 DEF TimeInv
  <2>6. ClockType'
    BY <2>1, <2>4, Zenon DEF ClockInv, ClockType, Range0
  <2> QED
    BY <2>1, <2>2, <2>5, <2>6, Zenon DEF ClockInv, TimestampExact, RxInv, NoRx
<1>5. CASE RxDone
  <2>1. /\ sleep = "awake" /\ rx = NoRx
        /\ rx' = [bt_time |-> btus, at |-> elapsed, wrapped |-> overflow]
        /\ UNCHANGED <<elapsed, btus, bt_clk_offset, overflow, sleep, enter_time_us, wakeupIn,
                       mTimestamp, sample>>
    BY <1>5 DEF RxDone
  <2>2. overflow \in BOOLEAN
    BY DEF ClockInv, ClockType
  <2>3. rx'.bt_time = btus /\ rx'.at = elapsed /\ rx'.wrapped = overflow
    BY <2>1
  <2>4. rx' \in Received
    BY <1>0, <2>1, <2>2 DEF Received
  <2>5. ~overflow => elapsed = bt_clk_offset + btus
    BY <1>0, <2>1 DEF ClockInv, TimeInv
  <2>6. TimeInv'
    BY <2>1, Zenon DEF ClockInv, TimeInv
  <2>7. ClockType'
    BY <2>1, <2>4, Zenon DEF ClockInv, ClockType, Range0
  <2>8. RxInv'
    BY <2>1, <2>3, <2>5, Zenon DEF RxInv
  <2> QED
    BY <2>1, <2>6, <2>7, <2>8, Zenon DEF ClockInv, TimestampExact, NoRx
<1>6. CASE readFrame
  <2>1. /\ rx # NoRx /\ rx' = NoRx
        /\ mTimestamp' = [value |-> bt_clk_offset + rx.bt_time, of |-> rx]
        /\ UNCHANGED <<elapsed, btus, bt_clk_offset, overflow, sleep, enter_time_us, wakeupIn,
                       sample>>
    BY <1>6 DEF readFrame
  <2>2. mTimestamp'.of = rx /\ mTimestamp'.value = bt_clk_offset + rx.bt_time
    BY <2>1
  <2>3. TimestampExact'
    BY <2>1, <2>2, Zenon DEF ClockInv, RxInv, TimestampExact
  <2>4. TimeInv'
    BY <2>1, Zenon DEF ClockInv, TimeInv, NoRx
  <2>5. ClockType'
    BY <2>1, RxTypes, Zenon DEF ClockInv, ClockType, Range0
  <2> QED
    BY <2>1, <2>3, <2>4, <2>5 DEF ClockInv, RxInv, NoRx
<1>7. ASSUME NEW aTime \in NextSample, otPlatRadioUpdateCslSampleTime(aTime)
      PROVE  ClockInv'
  <2>1. sample' = aTime
    BY <1>7 DEF otPlatRadioUpdateCslSampleTime
  <2>2. aTime \in Int
    BY <1>0, ClockConstants DEF NextSample
  <2>3. ClockType'
    BY <1>7, <2>1, <2>2, Zenon DEF otPlatRadioUpdateCslSampleTime, ClockInv, ClockType, Range0
  <2>4. TimeInv'
    BY <1>7, Zenon DEF otPlatRadioUpdateCslSampleTime, ClockInv, TimeInv, NoRx
  <2> QED
    BY <1>7, <2>3, <2>4, Zenon DEF otPlatRadioUpdateCslSampleTime, ClockInv, TimestampExact,
       RxInv, NoRx
<1>8. CASE UNCHANGED clockVars
  <2>1. ClockType' /\ TimeInv'
    BY <1>8, Zenon DEF clockVars, ClockInv, ClockType, TimeInv, Range0, NoRx
  <2> QED
    BY <1>8, <2>1, Zenon DEF clockVars, ClockInv, TimestampExact, RxInv, NoRx
<1> QED
  BY <1>1, <1>2, <1>3, <1>4, <1>5, <1>6, <1>7, <1>8 DEF ClockNext

LEMMA ClockInvHolds == ClockSpec => []ClockInv
<1>1. ClockInv /\ [ClockNext]_clockVars => ClockInv'
  BY MicrosecondKeeps, OtherClockSteps
<1> QED
  BY <1>1, ClockInvInit, PTL DEF ClockSpec

\* For every range of the hardware counter the time is exact, however often the device
\* sleeps and wherever in the range a sleep begins and ends.
THEOREM TimeIsExact == ClockSpec => []TimeExact
<1>1. ClockInv => TimeExact
  BY ClockConstants DEF ClockInv, ClockType, Range0, TimeInv, TimeExact, otPlatTimeGet
<1> QED
  BY <1>1, ClockInvHolds, PTL

\* A frame's timestamp is exact if the counter did not wrap while it was in the ring.
THEOREM TimestampsExact == ClockSpec => []TimestampExact
<1>1. ClockInv => TimestampExact
  BY DEF ClockInv
<1> QED
  BY <1>1, ClockInvHolds, PTL

\* The steps of getCslPhase: reduction to 32 bits, then to the period, of both times;
\* the sum of the difference and the period is never below zero or above 32 bits.
LEMMA CslPhase ==
  ASSUME NEW W \in Nat \ {0}, NEW p \in Nat \ {0}, 2 * p <= W,
         NEW s \in Int, NEW t \in Int,
         s \div W = t \div W \/ W % p = 0
  PROVE  (t + (((((s % W) % p) - ((t % W) % p) + p) % W) % p) - s) % p = 0
<1> DEFINE A == (s % W) % p
           B == (t % W) % p
           a == (s % W) \div p
           b == (t % W) \div p
           phase == (A - B + p) % p
           c == (A - B + p) \div p
<1>0. W > 1
  OBVIOUS
<1>1. CASE p = 1
  BY <1>1
<1>2. CASE p # 1
  <2>0. p > 1
    BY <1>2
  <2>1. /\ s % W \in Int /\ s \div W \in Int /\ s = W * (s \div W) + (s % W)
        /\ t % W \in Int /\ t \div W \in Int /\ t = W * (t \div W) + (t % W)
    BY <1>0, ModRange
  <2>2. /\ A \in 0 .. p - 1 /\ a \in Int /\ s % W = p * a + A
        /\ B \in 0 .. p - 1 /\ b \in Int /\ t % W = p * b + B
    BY <2>0, <2>1, ModRange
  <2> HIDE DEF A, B, a, b
  <2>3. A - B + p \in 0 .. W - 1
    BY <2>2
  <2>4. (W * 0 + (A - B + p)) % W = A - B + p
    BY <1>0, <2>3, ModOf
  <2>5. (A - B + p) % W = A - B + p
    BY <2>3, <2>4
  <2>6. phase \in Int /\ c \in Int /\ A - B + p = p * c + phase
    <3> DEFINE d == A - B + p
    <3>1. d \in Int
      BY <2>3
    <3> HIDE DEF d
    <3>2. d % p \in Int /\ d \div p \in Int /\ d = p * (d \div p) + (d % p)
      BY <2>0, <3>1, ModRange
    <3> QED
      BY <3>2 DEF d
  <2> HIDE DEF phase, c
  <2>7. \E k \in Int : t + phase - s = p * k
    <3>1. CASE s \div W = t \div W
      <4>1. t + phase - s = p * (b - a + 1 - c)
        <5>1. PICK x \in Int : x = W * (s \div W) /\ x = W * (t \div W)
          BY <2>1, <3>1
        <5>2. t + phase - s = p * b - p * a + p - p * c
          BY <2>1, <2>2, <2>6, <5>1
        <5>3. p * (b - a + 1 - c) = p * b - p * a + p - p * c
          BY <2>2, <2>6
        <5> QED
          BY <5>2, <5>3
      <4>2. b - a + 1 - c \in Int
        BY <2>2, <2>6
      <4> QED
        BY <4>1, <4>2, Zenon
    <3>2. CASE W % p = 0
      <4> DEFINE w == W \div p
                 x == t \div W
                 y == s \div W
      <4>1. w \in Int /\ W = p * w
        BY <2>0, <3>2, ModRange
      <4>2. x \in Int /\ y \in Int
        BY <2>1
      <4>3. t = W * x + (p * b + B) /\ s = W * y + (p * a + A)
        BY <2>1, <2>2
      <4> HIDE DEF w, x, y
      <4>4. W * x = p * (w * x) /\ W * y = p * (w * y)
        BY <4>1, <4>2
      <4>5. PICK u \in Int, v \in Int : u = w * x /\ v = w * y
        BY <4>1, <4>2
      <4>6. t + phase - s = p * u - p * v + p * b - p * a + p - p * c
        <5>1. t = p * u + (p * b + B) /\ s = p * v + (p * a + A)
          BY <4>3, <4>4, <4>5
        <5>2. PICK xu \in Int, xv \in Int, xa \in Int, xb \in Int, xc \in Int :
                xu = p * u /\ xv = p * v /\ xa = p * a /\ xb = p * b /\ xc = p * c
          BY <2>2, <2>6
        <5> QED
          BY <2>2, <2>6, <5>1, <5>2
      <4>7. p * (u - v + b - a + 1 - c) = p * u - p * v + p * b - p * a + p - p * c
        BY <2>2, <2>6
      <4>8. u - v + b - a + 1 - c \in Int
        BY <2>2, <2>6
      <4> QED
        BY <4>6, <4>7, <4>8, Zenon
    <3> QED
      BY <3>1, <3>2
  <2>8. PICK k \in Int : t + phase - s = p * k
    BY <2>7
  <2>9. (p * k + 0) % p = 0
    BY <2>0, ModOf
  <2> QED
    BY <2>5, <2>8, <2>9 DEF A, B, phase
<1> QED
  BY <1>1, <1>2

\* The CSL phase is right for every period up to half of the 32 bits, before and after
\* the lower bits wrap.
THEOREM CslPhaseRight == ClockSpec => []CslPhaseExact
<1>1. ClockInv => CslPhaseExact
  <2> SUFFICES ASSUME ClockInv,
                      NEW period \in CslPeriods, NEW phrTxTime \in elapsed .. elapsed + 2,
                      phrTxTime % Width # 0,
                      sample \div Width = phrTxTime \div Width \/ Width % period = 0
               PROVE  (phrTxTime + getCslPhase(period, phrTxTime % Width) - sample)
                        % period = 0
    BY DEF CslPhaseExact
  <2>1. /\ Width \in Nat \ {0} /\ period \in Nat \ {0} /\ 2 * period <= Width
        /\ sample \in Int /\ phrTxTime \in Int
    BY BtClockAssumption DEF ClockInv, ClockType
  <2>2. getCslPhase(period, phrTxTime % Width)
          = ((((sample % Width) % period) - ((phrTxTime % Width) % period) + period) % Width)
              % period
    BY Zenon DEF getCslPhase
  <2>3. (phrTxTime
           + (((((sample % Width) % period) - ((phrTxTime % Width) % period) + period)
                 % Width) % period)
           - sample) % period = 0
    BY <2>1, CslPhase
  <2> QED
    BY <2>2, <2>3, Zenon
<1> QED
  BY <1>1, ClockInvHolds, PTL

-----------------------------------------------------------------------------
(* Xmodem.                                                                 *)

PlainPackets == {[kind |-> k] : k \in {"nothing", "rest", "CAN", "EOT"}}

BlockPackets ==
  [kind : {"block"}, number : 0 .. PacketNumbers - 1, block : Image \cup {Garbage},
   crc : BOOLEAN]

UpdateType ==
  /\ TypeOK
  /\ packet \in PlainPackets \cup BlockPackets
  /\ pc = "sync" => retrans >= 1

ImageWhole ==
  \/ \A b \in Image : b > Skipped => flash[b] = Old
  \/ \A b \in Image : b > Skipped => flash[b] = b

\* The flag says that the update is not done; until it is set the flash is not touched.
FlagInv ==
  /\ Receiving => boot_flag = "0xdeadbeef"
  /\ Receiving /\ misled => pc = "EOT"
  /\ pc = "app" => boot_flag # "0xdeadbeef"
  /\ boot_flag # "0xdeadbeef" /\ ~misled => ImageWhole
  /\ pc = "off" /\ boot_flag = "0xdeadbeef" =>
       sending = 0 /\ packet = Nothing /\ answer = "none"

\* The receiver has what the sender had acknowledged, and perhaps the block that the
\* sender does not know of yet; what is on the line belongs to this block.
AgreeInv ==
  Receiving /\ ~misled =>
    /\ packetno = (len + 1) % PacketNumbers
    /\ sending = 0 => len = 0 /\ packet.kind \in {"nothing", "rest"} /\ answer # "ACK"
    /\ sending \in 1 .. Blocks + 1 => len = sending - 1 \/ (len = sending /\ sending \in Image)
    /\ answer = "ACK" /\ sending \in 1 .. Blocks + 1 =>
         packet.kind \in {"nothing", "rest"} /\ (sending \in Image => len = sending)
    /\ packet.kind = "block" =>
         /\ sending \in Image
         /\ packet.number = sending % PacketNumbers
         /\ packet.block \in {Garbage, sending}
    /\ packet.kind = "EOT" => sending = Blocks + 1
    /\ pc = "EOT" => len = Blocks

UpdateInv == UpdateType /\ FlagInv /\ AgreeInv /\ FlashInOrder

LEMMA UpdateConstants ==
  /\ Blocks \in Nat /\ DestBlocks \in Nat /\ Skipped \in Nat /\ PacketNumbers \in Nat
  /\ Skipped < Blocks /\ Blocks <= DestBlocks /\ PacketNumbers > 2
  /\ Retries \in Nat /\ Retries >= 1 /\ MAXRETRANS \in Nat /\ MAXRETRANS >= 1
  /\ MaxPowerLosses \in Nat
  /\ 1 \in Image
  /\ \A b \in Image : b \in Nat /\ b >= 1 /\ b <= Blocks
  BY XmodemAssumption DEF Image

LEMMA PacketKinds ==
  /\ Nothing \in PlainPackets /\ Nothing.kind = "nothing"
  /\ RestOfPacket \in PlainPackets /\ RestOfPacket.kind = "rest"
  /\ \A k \in {"nothing", "rest", "CAN", "EOT"} :
       [kind |-> k] \in PlainPackets /\ [kind |-> k].kind = k
  /\ \A p \in PlainPackets : p.kind \in {"nothing", "rest", "CAN", "EOT"}
  /\ \A p \in BlockPackets : /\ p.kind = "block" /\ p.number \in 0 .. PacketNumbers - 1
                             /\ p.block \in Image \cup {Garbage} /\ p.crc \in BOOLEAN
                             /\ p # Nothing
  BY DEF PlainPackets, BlockPackets, Nothing, RestOfPacket

\* What the sender sends
LEMMA ToSendIs ==
  ASSUME NEW b \in 1 .. Blocks + 1
  PROVE  /\ ToSend(b) \in PlainPackets \cup BlockPackets
         /\ ToSend(b) # Nothing
         /\ b \in Image => /\ ToSend(b).kind = "block" /\ ToSend(b).block = b
                           /\ ToSend(b).number = b % PacketNumbers
         /\ b \notin Image => ToSend(b).kind = "EOT" /\ b = Blocks + 1
<1>1. CASE b \in Image
  <2>1. b % PacketNumbers \in 0 .. PacketNumbers - 1
    BY <1>1, UpdateConstants, ModRange
  <2>2. ToSend(b) = [kind |-> "block", number |-> b % PacketNumbers, block |-> b,
                     crc |-> asked = "C"]
    BY <1>1 DEF ToSend, Block
  <2>3. ToSend(b) \in BlockPackets
    <3>1. (asked = "C") \in BOOLEAN
      OBVIOUS
    <3> QED
      BY <1>1, <2>1, <2>2, <3>1 DEF BlockPackets
  <2>4. ToSend(b).kind = "block" /\ ToSend(b).block = b /\ ToSend(b).number = b % PacketNumbers
    BY <2>2
  <2> QED
    BY <1>1, <2>3, <2>4, PacketKinds
<1>2. CASE b \notin Image
  <2>1. b = Blocks + 1
    BY <1>2, UpdateConstants DEF Image
  <2>2. ToSend(b) = [kind |-> "EOT"]
    BY <1>2 DEF ToSend
  <2> QED
    BY <1>2, <2>1, <2>2, PacketKinds, Zenon
<1> QED
  BY <1>1, <1>2

LEMMA UpdateInvInit == Init => UpdateInv
<1> SUFFICES ASSUME Init PROVE UpdateInv
  OBVIOUS
<1>1. ~Receiving
  BY DEF Init, Receiving
<1>2. flash \in [Image -> Image \cup {Old, Erased}]
  BY DEF Init
<1>3. /\ 0 \in 0 .. PacketNumbers - 1 /\ 0 \in 0 .. DestBlocks /\ 0 \in 0 .. Retries - 1
      /\ 0 \in 0 .. MAXRETRANS /\ 0 \in 0 .. Blocks + 2 /\ 0 \in 0 .. MaxPowerLosses
  BY UpdateConstants
<1>4. packet.kind = "nothing" /\ packet \in PlainPackets
  BY PacketKinds, Zenon DEF Init
<1>5. UpdateType
  BY <1>2, <1>3, <1>4, Zenon DEF Init, UpdateType, TypeOK
<1>6. ImageWhole
  BY DEF Init, ImageWhole
<1> QED
  BY <1>1, <1>5, <1>6 DEF Init, UpdateInv, FlagInv, AgreeInv, FlashInOrder

\* main, the command, and a power loss
LEMMA StartsKeep == UpdateInv /\ (main \/ ProcessFirmwareUpdate \/ PowerLoss) => UpdateInv'
<1> SUFFICES ASSUME UpdateInv, main \/ ProcessFirmwareUpdate \/ PowerLoss PROVE UpdateInv'
  OBVIOUS
<1> USE DEF receiver, sender, line
<1>0. /\ 0 \in 0 .. PacketNumbers - 1 /\ 1 \in 0 .. PacketNumbers - 1 /\ 0 \in 0 .. DestBlocks
      /\ 0 \in 0 .. Retries - 1 /\ 0 \in 0 .. Blocks + 2 /\ MAXRETRANS \in 0 .. MAXRETRANS
      /\ MAXRETRANS >= 1
  BY UpdateConstants
<1>1. ASSUME NEW flag, BootFlag(flag), flag # "0xdeadbeef", main, pc' = "app",
             misled' = (misled \/ boot_flag = "0xdeadbeef"),
             UNCHANGED <<flash, receiver, answer>>
      PROVE  UpdateInv'
  <2>1. boot_flag' # "0xdeadbeef" /\ boot_flag' \in {"unset", "0"}
    BY <1>1 DEF BootFlag, UpdateInv, UpdateType, TypeOK
  <2>2. UNCHANGED <<packet, sender, powerLosses>>
    BY <1>1 DEF main
  <2>3. misled' \in BOOLEAN /\ misled \in BOOLEAN
    BY <1>1, Zenon DEF UpdateInv, UpdateType, TypeOK
  <2>4. UpdateType'
    BY <1>1, <2>1, <2>2, <2>3, Zenon DEF UpdateInv, UpdateType, TypeOK
  <2>5. ~misled' => ImageWhole'
    BY <1>1, <2>3, Zenon DEF UpdateInv, FlagInv, ImageWhole
  <2> QED
    BY <1>1, <2>1, <2>2, <2>4, <2>5, Zenon
    DEF UpdateInv, FlagInv, AgreeInv, FlashInOrder, Receiving
<1>2. ASSUME BootFlag("0xdeadbeef"), main, pc' = "sync", misled' = FALSE,
             flash' = [b \in Image |-> IF b <= Skipped THEN flash[b] ELSE Erased],
             trychar' = "C", answer' = "C",
             crc' = FALSE, packetno' = 1, len' = 0, retry' = 0, retrans' = MAXRETRANS
      PROVE  UpdateInv'
  <2>1. /\ boot_flag = "0xdeadbeef" /\ boot_flag' = boot_flag /\ pc = "off"
        /\ UNCHANGED <<packet, sender, powerLosses>>
    BY <1>2 DEF main, BootFlag
  <2>2. flash' \in [Image -> Image \cup {Old, Erased}]
    BY <1>2 DEF UpdateInv, UpdateType, TypeOK
  <2>3. UpdateType'
    BY <1>0, <1>2, <2>1, <2>2, Zenon DEF UpdateInv, UpdateType, TypeOK
  <2>4. sending' = 0 /\ packet' = Nothing /\ packet'.kind = "nothing"
    BY <2>1, PacketKinds, Zenon DEF UpdateInv, FlagInv
  <2>5. (PacketNumbers * 0 + 1) % PacketNumbers = 1
    BY UpdateConstants, ModOf
  <2>6. packetno' = (len' + 1) % PacketNumbers
    BY <1>2, <2>5, UpdateConstants
  <2>7. FlashInOrder'
    BY <1>2, UpdateConstants DEF FlashInOrder
  <2> QED
    BY <1>2, <2>1, <2>3, <2>4, <2>6, <2>7 DEF UpdateInv, FlagInv, AgreeInv
<1>3. CASE ProcessFirmwareUpdate
  <2>1. /\ boot_flag' = "0xdeadbeef" /\ pc' = "off"
        /\ packet' = Nothing /\ answer' = "none" /\ sending' = 0 /\ asked' = "none"
        /\ UNCHANGED <<flash, receiver, powerLosses, misled>>
    BY <1>3 DEF ProcessFirmwareUpdate, Reset
  <2>2. UpdateType'
    BY <1>0, <2>1, PacketKinds, Zenon DEF UpdateInv, UpdateType, TypeOK
  <2> QED
    BY <2>1, <2>2, Zenon DEF UpdateInv, FlagInv, AgreeInv, FlashInOrder, Receiving
<1>4. CASE PowerLoss
  <2>1. /\ pc' = "off"
        /\ packet' = Nothing /\ answer' = "none" /\ sending' = 0 /\ asked' = "none"
        /\ UNCHANGED <<boot_flag, flash, receiver, misled>>
    BY <1>4 DEF PowerLoss, Reset
  <2>2. powerLosses' \in 0 .. MaxPowerLosses
    BY <1>4, UpdateConstants DEF PowerLoss, UpdateInv, UpdateType, TypeOK
  <2>3. UpdateType'
    BY <1>0, <2>1, <2>2, PacketKinds, Zenon DEF UpdateInv, UpdateType, TypeOK
  <2>4. boot_flag' # "0xdeadbeef" /\ ~misled' => ImageWhole'
    BY <2>1, Zenon DEF UpdateInv, FlagInv, ImageWhole
  <2> QED
    BY <2>1, <2>3, <2>4, Zenon DEF UpdateInv, FlagInv, AgreeInv, FlashInOrder, Receiving
<1>5. CASE main
  <2>1. PICK flag \in {"unset", "0", "0xdeadbeef"} :
          /\ BootFlag(flag)
          /\ \/ /\ flag # "0xdeadbeef"
                /\ pc' = "app"
                /\ misled' = (misled \/ boot_flag = "0xdeadbeef")
                /\ UNCHANGED <<flash, receiver, answer>>
             \/ /\ flag = "0xdeadbeef"
                /\ pc' = "sync"
                /\ misled' = FALSE
                /\ flash' = [b \in Image |-> IF b <= Skipped THEN flash[b] ELSE Erased]
                /\ trychar' = "C" /\ answer' = "C"
                /\ crc' = FALSE /\ packetno' = 1 /\ len' = 0 /\ retry' = 0
                /\ retrans' = MAXRETRANS
    BY <1>5, Zenon DEF main
  <2> QED
    BY <1>1, <1>2, <1>5, <2>1, Zenon
<1> QED
  BY <1>3, <1>4, <1>5

LEMMA PacketAfter ==
  ASSUME NEW b \in Nat
  PROVE  /\ b % PacketNumbers \in 0 .. PacketNumbers - 1
         /\ (b + 1) % PacketNumbers
              = IF (b % PacketNumbers) + 1 = PacketNumbers THEN 0 ELSE (b % PacketNumbers) + 1
<1>1. PacketNumbers \in Nat /\ PacketNumbers > 1 /\ b \in Int
  BY UpdateConstants
<1>2. b % PacketNumbers \in 0 .. PacketNumbers - 1
  BY <1>1, ModRange
<1>3. (b + 1) % PacketNumbers
        = IF (b % PacketNumbers) + 1 = PacketNumbers THEN 0 ELSE (b % PacketNumbers) + 1
  BY <1>1, ModSucc, Zenon
<1> QED
  BY <1>2, <1>3

\* How the number of the block on the line compares with the one the receiver expects
LEMMA NumberTells ==
  ASSUME NEW b \in Nat, NEW n \in {b - 1, b}
  PROVE  /\ b % PacketNumbers = (n + 1) % PacketNumbers => n = b - 1
         /\ b % PacketNumbers = ((n + 1) % PacketNumbers) - 1 => n = b
<1>1. b % PacketNumbers \in Int
  BY UpdateConstants, ModRange
<1>2. (b + 1) % PacketNumbers
        = IF (b % PacketNumbers) + 1 = PacketNumbers THEN 0 ELSE (b % PacketNumbers) + 1
  BY PacketAfter
<1>3. CASE n = b
  <2>1. b % PacketNumbers # (b + 1) % PacketNumbers
    BY <1>1, <1>2, UpdateConstants
  <2> QED
    BY <1>3, <2>1
<1>4. CASE n = b - 1
  <2>1. n + 1 = b
    BY <1>4
  <2> QED
    BY <1>1, <1>4, <2>1
<1> QED
  BY <1>3, <1>4

\* The start byte of a packet is none: the next try
LEMMA TriesKeep ==
  UpdateInv /\ (NoStart \/ Cancelled \/ Flushed) => UpdateInv'
<1> SUFFICES ASSUME UpdateInv, NoStart \/ Cancelled \/ Flushed PROVE UpdateInv'
  OBVIOUS
<1> USE DEF receiver, sender, line
<1>1. /\ Receiving /\ pc \in {"sync", "flushinput"} /\ pc' \in {pc, "flushinput"}
      /\ packet' \in {packet, Nothing} /\ answer' \in {answer, "C", "NAK"}
      /\ trychar' \in {trychar, "NAK"} /\ retry' \in 0 .. Retries - 1
      /\ UNCHANGED <<boot_flag, flash, crc, packetno, len, retrans, sending, asked,
                     powerLosses, misled>>
  <2>1. CASE NoStart
    <3>1. /\ pc = "sync" /\ pc' \in {pc, "flushinput"}
          /\ packet' \in {packet, Nothing} /\ answer' \in {answer, trychar, "NAK"}
          /\ trychar' \in {trychar, "NAK"}
          /\ trychar = "none" => answer' \in {answer, "NAK"}
          /\ UNCHANGED <<boot_flag, flash, crc, packetno, len, retrans, sending, asked,
                         powerLosses, misled>>
      BY <2>1 DEF NoStart, NextTry, FlushInput
    <3>2. retry' \in 0 .. Retries - 1
      BY <2>1, UpdateConstants DEF NoStart, NextTry, FlushInput, UpdateInv, UpdateType, TypeOK
    <3>3. trychar \in {"C", "NAK", "none"}
      BY DEF UpdateInv, UpdateType, TypeOK
    <3> QED
      BY <3>1, <3>2, <3>3, Zenon DEF Receiving
  <2>2. CASE Cancelled
    BY <2>2, Zenon DEF Cancelled, FlushInput, Receiving, UpdateInv, UpdateType, TypeOK
  <2>3. CASE Flushed
    BY <2>3, Zenon DEF Flushed, Receiving, UpdateInv, UpdateType, TypeOK
  <2> QED
    BY <2>1, <2>2, <2>3
<1>2. packet' \in PlainPackets /\ packet'.kind \in {"nothing", "rest"}
  <2>1. CASE packet' = Nothing
    BY <2>1, PacketKinds, Zenon
  <2>2. CASE packet' = packet /\ packet.kind \in {"nothing", "rest"}
    BY <2>2, PacketKinds DEF UpdateInv, UpdateType
  <2> QED
    BY <2>1, <2>2, Zenon DEF NoStart, Cancelled, Flushed
<1>3. UpdateType'
  <2>1. packet'.kind \in {"nothing", "rest", "block", "EOT", "CAN"}
    BY <1>2
  <2>2. pc' \in {"sync", "flushinput"} /\ trychar' \in {"C", "NAK", "none"}
        /\ answer' \in {"ACK", "NAK", "C", "none"}
    BY <1>1 DEF UpdateInv, UpdateType, TypeOK
  <2>3. TypeOK'
    BY <1>1, <2>1, <2>2, Zenon DEF UpdateInv, UpdateType, TypeOK
  <2>4. pc' = "sync" => retrans' >= 1
    BY <1>1 DEF UpdateInv, UpdateType
  <2> QED
    BY <1>2, <2>3, <2>4, Zenon DEF UpdateType
<1>4. FlagInv'
  BY <1>1, Zenon DEF UpdateInv, FlagInv, Receiving, ImageWhole
<1>5. FlashInOrder'
  BY <1>1, Zenon DEF UpdateInv, FlashInOrder
<1>6. answer' = "ACK" => answer = "ACK"
  BY <1>1
<1>7. AgreeInv'
  BY <1>1, <1>2, <1>6 DEF UpdateInv, AgreeInv
<1> QED
  BY <1>3, <1>4, <1>5, <1>7 DEF UpdateInv

\* A byte that is SOH or STX only by its value begins a packet that is refused.
LEMMA RestRefused == UpdateInv /\ start_recv /\ packet.kind = "rest" => UpdateInv'
<1> SUFFICES ASSUME UpdateInv, start_recv, packet.kind = "rest" PROVE UpdateInv'
  OBVIOUS
<1> USE DEF sender
<1>1. /\ pc = "sync" /\ pc' = "flushinput"
      /\ crc' = (crc \/ trychar = "C") /\ trychar' = "none" /\ packet' = Nothing
      /\ UNCHANGED <<boot_flag, flash, packetno, len, retry, retrans, answer, sending, asked,
                     powerLosses, misled>>
  BY DEF start_recv, Accepts, FlushInput
<1>2. Receiving /\ Receiving'
  BY <1>1 DEF Receiving
<1>3. packet' \in PlainPackets /\ packet'.kind = "nothing" /\ crc' \in BOOLEAN
  BY <1>1, PacketKinds, Zenon
<1>4. UpdateType'
  BY <1>1, <1>3, Zenon DEF UpdateInv, UpdateType, TypeOK
<1>5. FlagInv'
  BY <1>1, <1>2 DEF UpdateInv, FlagInv
<1>6. FlashInOrder'
  BY <1>1, <1>2, Zenon DEF UpdateInv, FlashInOrder
<1>7. AgreeInv'
  BY <1>1, <1>2, <1>3 DEF UpdateInv, AgreeInv
<1> QED
  BY <1>4, <1>5, <1>6, <1>7 DEF UpdateInv

LEMMA BlockKeeps == UpdateInv /\ start_recv => UpdateInv'
<1> SUFFICES ASSUME UpdateInv, start_recv, packet.kind = "block" PROVE UpdateInv'
  BY RestRefused DEF start_recv
<1> USE DEF sender
<1>1. /\ pc = "sync" /\ packet.kind = "block"
      /\ crc' = (crc \/ trychar = "C") /\ trychar' = "none" /\ packet' = Nothing
      /\ UNCHANGED <<boot_flag, sending, asked, powerLosses, misled>>
  BY DEF start_recv
<1>2. Receiving /\ ~misled
  BY <1>1 DEF Receiving, UpdateInv, FlagInv
<1>3. /\ sending \in Image /\ packet.number = sending % PacketNumbers
      /\ packet.block \in {Garbage, sending}
      /\ len \in {sending - 1, sending} /\ packetno = (len + 1) % PacketNumbers
      /\ answer # "ACK" /\ FlashInOrder
  <2>1. packet.kind \notin {"nothing", "rest"}
    BY <1>1
  <2>2. /\ sending \in Image /\ packet.number = sending % PacketNumbers
        /\ packet.block \in {Garbage, sending} /\ packetno = (len + 1) % PacketNumbers
        /\ FlashInOrder
    BY <1>1, <1>2 DEF UpdateInv, AgreeInv
  <2>3. sending \in 1 .. Blocks + 1
    BY <2>2, UpdateConstants DEF Image
  <2> QED
    BY <1>2, <2>1, <2>2, <2>3 DEF UpdateInv, AgreeInv
<1>4. packet' \in PlainPackets /\ packet'.kind = "nothing" /\ crc' \in BOOLEAN
  BY <1>1, PacketKinds, Zenon
<1>5. /\ len \in 0 .. DestBlocks /\ retrans \in 0 .. MAXRETRANS /\ retrans >= 1
      /\ retry \in 0 .. Retries - 1 /\ packetno \in 0 .. PacketNumbers - 1
      /\ flash \in [Image -> Image \cup {Old, Erased}]
      /\ answer \in {"ACK", "NAK", "C", "none"}
  BY <1>1, Zenon DEF UpdateInv, UpdateType, TypeOK
\* What is left to show of either outcome
<1>6. ASSUME len' \in {sending - 1, sending}, len' \in 0 .. DestBlocks,
             packetno' = (len' + 1) % PacketNumbers, packetno' \in 0 .. PacketNumbers - 1,
             FlashInOrder', flash' \in [Image -> Image \cup {Old, Erased}],
             retrans' \in 0 .. MAXRETRANS, retry' \in 0 .. Retries - 1,
             \/ pc' = "flushinput" /\ answer' = answer
             \/ pc' = pc /\ answer' = "ACK" /\ len' = sending /\ retrans' >= 1
      PROVE  UpdateInv'
  <2>1. Receiving' /\ pc' \in {"sync", "flushinput"} /\ answer' \in {"ACK", "NAK", "C", "none"}
    BY <1>1, <1>5, <1>6 DEF Receiving
  <2>2. pc' = "sync" => retrans' >= 1
    BY <1>6
  <2>3. TypeOK'
    BY <1>1, <1>4, <1>6, <2>1, Zenon DEF UpdateInv, UpdateType, TypeOK
  <2>4. UpdateType'
    BY <1>4, <2>2, <2>3, Zenon DEF UpdateType
  <2>5. boot_flag' = "0xdeadbeef"
    BY <1>1, <1>2 DEF UpdateInv, FlagInv
  <2>6. FlagInv'
    BY <1>1, <1>2, <2>1, <2>5 DEF FlagInv
  <2>7. AgreeInv'
    <3>1. sending' = sending /\ sending >= 1 /\ sending <= Blocks /\ sending \in Int
      BY <1>1, <1>3, UpdateConstants
    <3>2. answer' = "ACK" => len' = sending
      BY <1>3, <1>6
    <3>3. sending' \in Image
      BY <1>3, <3>1
    <3> QED
      BY <1>1, <1>4, <1>6, <2>1, <3>1, <3>2, <3>3 DEF AgreeInv
  <2> QED
    BY <1>6, <2>4, <2>6, <2>7 DEF UpdateInv
<1>7. CASE /\ ~Accepts(packet, crc')
           /\ FlushInput
           /\ UNCHANGED <<flash, packetno, len, retry, retrans, answer>>
  <2>1. FlashInOrder'
    BY <1>2, <1>3, <1>7, Zenon DEF FlashInOrder
  <2> QED
    BY <1>3, <1>5, <1>6, <1>7, <2>1, Zenon DEF FlushInput
<1>8. CASE /\ Accepts(packet, crc')
           /\ \/ /\ IsNew(packet.number)
                 /\ WriteBlock(packet.block)
                 /\ packetno' = (packetno + 1) % PacketNumbers
              \/ /\ ~IsNew(packet.number)
                 /\ UNCHANGED <<flash, len, packetno>>
           /\ retrans' = Retrans(IsNew(packet.number))
           /\ \/ retrans' <= 0 /\ FlushInput /\ UNCHANGED <<answer, retry>>
              \/ retrans' > 0 /\ answer' = "ACK" /\ retry' = 0 /\ UNCHANGED pc
  <2>1. packet.block = sending /\ packet.number \in {packetno, packetno - 1}
    BY <1>3, <1>8 DEF Accepts
  <2>2. sending \in Nat /\ sending >= 1 /\ sending <= Blocks
    BY <1>3, UpdateConstants
  <2>3. retrans' \in 0 .. MAXRETRANS
    BY <1>5, <1>8, UpdateConstants DEF Retrans
  <2>4. \/ pc' = "flushinput" /\ answer' = answer
        \/ pc' = pc /\ answer' = "ACK" /\ retrans' >= 1
    BY <1>8, <2>3 DEF FlushInput
  <2>5. retry' \in 0 .. Retries - 1
    BY <1>5, <1>8, UpdateConstants
  <2>6. /\ len' = sending /\ len' \in 0 .. DestBlocks
        /\ packetno' = (len' + 1) % PacketNumbers /\ packetno' \in 0 .. PacketNumbers - 1
        /\ FlashInOrder' /\ flash' \in [Image -> Image \cup {Old, Erased}]
    <3>1. CASE IsNew(packet.number)
      <4>1. len = sending - 1
        BY <1>3, <2>2, <3>1, NumberTells DEF IsNew
      <4>2. /\ len' = sending
            /\ flash' = IF len >= Skipped THEN [flash EXCEPT ![sending] = sending] ELSE flash
            /\ packetno' = (packetno + 1) % PacketNumbers
        BY <1>8, <2>1, <2>2, <3>1, <4>1, UpdateConstants DEF WriteBlock
      <4>3. packetno = sending % PacketNumbers /\ sending % PacketNumbers \in Int
        BY <1>3, <2>2, <4>1, ModRange, UpdateConstants
      <4>4. packetno' = (len' + 1) % PacketNumbers
        <5>1. /\ (sending + 1) % PacketNumbers = IF (sending % PacketNumbers) + 1 = PacketNumbers
                                                THEN 0 ELSE (sending % PacketNumbers) + 1
              /\ sending % PacketNumbers \in 0 .. PacketNumbers - 1
          BY <2>2, PacketAfter
        <5>2. (packetno + 1) % PacketNumbers = IF packetno + 1 = PacketNumbers
                                               THEN 0 ELSE packetno + 1
          <6>1. (PacketNumbers * 1 + 0) % PacketNumbers = 0
            BY ModOf, UpdateConstants
          <6>2. packetno + 1 # PacketNumbers =>
                  (PacketNumbers * 0 + (packetno + 1)) % PacketNumbers = packetno + 1
            BY <1>5, ModOf, UpdateConstants
          <6> QED
            BY <1>5, <6>1, <6>2, UpdateConstants
        <5> QED
          BY <4>2, <4>3, <5>1, <5>2
      <4>5. packetno' \in 0 .. PacketNumbers - 1
        <5>1. len' + 1 \in Nat
          BY <2>2, <4>2
        <5> QED
          BY <4>4, <5>1, PacketAfter
      <4>6. FlashInOrder'
        <5> SUFFICES ASSUME NEW b \in Image, b > Skipped
                     PROVE  flash'[b] = IF b <= sending THEN b ELSE Erased
          BY <4>2 DEF FlashInOrder
        <5>1. flash[b] = IF b <= sending - 1 THEN b ELSE Erased
          BY <1>2, <1>3, <4>1 DEF FlashInOrder
        <5>2. CASE b = sending
          BY <1>5, <2>2, <4>1, <4>2, <5>2, UpdateConstants
        <5>3. CASE b # sending
          <6>1. flash'[b] = flash[b]
            BY <1>5, <4>2, <5>3
          <6>2. b <= sending <=> b <= sending - 1
            BY <2>2, <5>3, UpdateConstants
          <6> QED
            BY <5>1, <6>1, <6>2
        <5> QED
          BY <5>2, <5>3
      <4>7. flash' \in [Image -> Image \cup {Old, Erased}]
        BY <1>3, <1>5, <4>2
      <4> QED
        BY <2>2, <4>2, <4>4, <4>5, <4>6, <4>7, UpdateConstants
    <3>2. CASE ~IsNew(packet.number)
      <4>1. len = sending
        BY <1>3, <2>1, <2>2, <3>2, NumberTells DEF IsNew
      <4>2. UNCHANGED <<flash, len, packetno>>
        BY <1>8, <3>2
      <4>3. FlashInOrder'
        BY <1>2, <1>3, <4>2, Zenon DEF FlashInOrder
      <4> QED
        BY <1>3, <1>5, <4>1, <4>2, <4>3
    <3> QED
      BY <3>1, <3>2
  <2> QED
    BY <1>6, <2>3, <2>4, <2>5, <2>6
<1> QED
  BY <1>7, <1>8 DEF start_recv

LEMMA EndKeeps == UpdateInv /\ (ReceiveEOT \/ SaveAndReset) => UpdateInv'
<1> SUFFICES ASSUME UpdateInv, ReceiveEOT \/ SaveAndReset PROVE UpdateInv'
  OBVIOUS
<1> USE DEF receiver, sender, line
<1>1. CASE ReceiveEOT
  <2>1. /\ pc = "sync" /\ pc' = "EOT" /\ packet.kind \in {"EOT", "rest"}
        /\ misled' = (misled \/ packet.kind = "rest")
        /\ packet' = Nothing /\ answer' = "ACK"
        /\ UNCHANGED <<boot_flag, flash, receiver, sender, powerLosses>>
    BY <1>1 DEF ReceiveEOT
  <2>2. Receiving /\ Receiving' /\ misled' \in BOOLEAN
    BY <2>1, Zenon DEF Receiving, UpdateInv, UpdateType, TypeOK
  <2>3. packet' \in PlainPackets /\ packet'.kind = "nothing"
    BY <2>1, PacketKinds, Zenon
  <2>4. UpdateType'
    BY <2>1, <2>2, <2>3, Zenon DEF UpdateInv, UpdateType, TypeOK
  <2>5. FlashInOrder'
    BY <2>1, <2>2, Zenon DEF UpdateInv, FlashInOrder
  <2>6. FlagInv'
    BY <2>1, <2>2 DEF UpdateInv, FlagInv
  <2>7. AgreeInv'
    <3>1. CASE misled'
      BY <3>1 DEF AgreeInv
    <3>2. CASE ~misled'
      <4>1. packet.kind = "EOT" /\ ~misled
        BY <2>1, <3>2
      <4>2. sending = Blocks + 1
        BY <2>2, <4>1 DEF UpdateInv, AgreeInv
      <4>3. sending \notin Image /\ sending \in 1 .. Blocks + 1
        BY <4>2, UpdateConstants DEF Image
      <4>4. len = Blocks
        BY <2>2, <4>1, <4>2, <4>3, UpdateConstants DEF UpdateInv, AgreeInv
      <4> QED
        BY <2>1, <2>2, <2>3, <4>1, <4>2, <4>3, <4>4, UpdateConstants DEF UpdateInv, AgreeInv
    <3> QED
      BY <3>1, <3>2
  <2> QED
    BY <2>4, <2>5, <2>6, <2>7 DEF UpdateInv
<1>2. CASE SaveAndReset
  <2>1. /\ pc = "EOT" /\ pc' = "off" /\ boot_flag' = "0"
        /\ UNCHANGED <<flash, receiver, line, sender, powerLosses, misled>>
    BY <1>2 DEF SaveAndReset
  <2>2. FlashInOrder /\ Receiving /\ (~misled => len = Blocks)
    BY <2>1 DEF Receiving, UpdateInv, AgreeInv
  <2>3. ~misled => \A b \in Image : b > Skipped => flash'[b] = b
    BY <2>1, <2>2, UpdateConstants DEF FlashInOrder
  <2>4. UpdateType'
    BY <2>1, Zenon DEF UpdateInv, UpdateType, TypeOK
  <2>5. ~Receiving'
    BY <2>1 DEF Receiving
  <2> QED
    BY <2>1, <2>3, <2>4, <2>5 DEF UpdateInv, FlagInv, AgreeInv, ImageWhole, FlashInOrder
<1> QED
  BY <1>1, <1>2

LEMMA OutsideKeeps == UpdateInv /\ Outside => UpdateInv'
<1> SUFFICES ASSUME UpdateInv, Outside PROVE UpdateInv'
  OBVIOUS
<1> USE DEF receiver, sender
<1>0. /\ Blocks \in Nat /\ 1 \in Image /\ sending \in 0 .. Blocks + 2
      /\ \A b \in Image : b \in 1 .. Blocks + 1 /\ b \in Nat
      /\ \A b \in 1 .. Blocks + 1 : b \in Nat /\ (b \in Image <=> b <= Blocks)
  BY UpdateConstants DEF UpdateInv, UpdateType, TypeOK, Image
<1>1. /\ pc # "off"
      /\ UNCHANGED <<boot_flag, flash, pc, trychar, crc, packetno, len, retry, retrans,
                     powerLosses, misled>>
  BY DEF Outside
<1>2. FlagInv'
  BY <1>1, Zenon DEF UpdateInv, FlagInv, Receiving, ImageWhole
<1>3. Receiving' = Receiving /\ FlashInOrder'
  BY <1>1, Zenon DEF Receiving, FlashInOrder, UpdateInv
\* What is left to show of every step
<1>4. ASSUME packet' \in PlainPackets \cup BlockPackets,
             answer' \in {"ACK", "NAK", "C", "none"},
             sending' \in 0 .. Blocks + 2, asked' \in {"C", "NAK", "none"}
      PROVE  UpdateType'
  <2>1. packet'.kind \in {"nothing", "rest", "block", "EOT", "CAN"}
    BY <1>4, PacketKinds, Zenon
  <2> QED
    BY <1>1, <1>4, <2>1, Zenon DEF UpdateInv, UpdateType, TypeOK
<1>5. /\ packet \in PlainPackets \cup BlockPackets
      /\ answer \in {"ACK", "NAK", "C", "none"}
      /\ sending \in 0 .. Blocks + 2 /\ asked \in {"C", "NAK", "none"}
  BY Zenon DEF UpdateInv, UpdateType, TypeOK
<1>6. CASE SenderAsked
  <2>1. /\ sending = 0 /\ sending' = 0 /\ answer \in {"C", "NAK"} /\ asked' = answer
        /\ answer' = "none" /\ packet' = packet
    BY <1>6 DEF SenderAsked
  <2>2. UpdateType'
    BY <1>4, <1>5, <2>1, Zenon
  <2>3. AgreeInv'
    BY <1>0, <1>1, <1>3, <2>1 DEF UpdateInv, AgreeInv
  <2> QED
    BY <1>2, <1>3, <2>2, <2>3 DEF UpdateInv
<1>7. CASE SenderStarts
  <2>1. /\ sending = 0 /\ sending' = 1 /\ packet' = ToSend(1)
        /\ UNCHANGED <<answer, asked>>
    BY <1>7 DEF SenderStarts
  <2>2. 1 \in 1 .. Blocks + 1 /\ 1 \in 0 .. Blocks + 2
    BY <1>0
  <2>3. /\ packet' \in PlainPackets \cup BlockPackets /\ packet'.kind = "block"
        /\ packet'.block = 1 /\ packet'.number = 1 % PacketNumbers
    BY <1>0, <2>1, <2>2, ToSendIs, Zenon
  <2>4. UpdateType'
    BY <1>4, <1>5, <2>1, <2>2, <2>3, Zenon
  <2>5. AgreeInv'
    BY <1>0, <1>1, <1>3, <2>1, <2>3 DEF UpdateInv, AgreeInv
  <2> QED
    BY <1>2, <1>3, <2>4, <2>5 DEF UpdateInv
<1>8. CASE SenderAcked
  <2>1. /\ sending \in 1 .. Blocks + 1 /\ answer = "ACK" /\ sending' = sending + 1
        /\ answer' = "none" /\ asked' = asked
        /\ packet' = IF sending' <= Blocks + 1 THEN ToSend(sending') ELSE packet
    BY <1>8 DEF SenderAcked
  <2>2. sending' \in 0 .. Blocks + 2 /\ (sending' <= Blocks + 1 => sending' \in 1 .. Blocks + 1)
    BY <1>0, <2>1
  <2>3. packet' \in PlainPackets \cup BlockPackets
    BY <1>5, <2>1, <2>2, ToSendIs, Zenon
  <2>4. UpdateType'
    BY <1>4, <1>5, <2>1, <2>2, <2>3, Zenon
  <2>5. CASE sending \in Image
    <3>1. /\ sending' \in 1 .. Blocks + 1 /\ sending' # 0
          /\ sending' \in Nat /\ sending' - 1 = sending
      BY <1>0, <2>1, <2>5
    <3>2. /\ sending' \in Image => /\ packet'.kind = "block" /\ packet'.block = sending'
                                   /\ packet'.number = sending' % PacketNumbers
          /\ sending' \notin Image => packet'.kind = "EOT" /\ sending' = Blocks + 1
      <4>1. packet' = ToSend(sending')
        BY <1>0, <2>1, <3>1
      <4> HIDE DEF AgreeInv
      <4> QED
        BY <3>1, <4>1, ToSendIs, Zenon
    <3>3. Receiving /\ ~misled => /\ len' = sending /\ (pc' = "EOT" => len' = Blocks)
                                  /\ packetno' = (len' + 1) % PacketNumbers
      BY <1>1, <1>3, <2>1, <2>5 DEF UpdateInv, AgreeInv
    <3>4. packet'.kind = "block" => sending' \in Image
      BY <3>2
    <3>5. packet'.kind = "EOT" => sending' = Blocks + 1
      BY <3>2
    <3>6. AgreeInv'
      BY <1>1, <1>3, <2>1, <3>1, <3>2, <3>3, <3>4, <3>5 DEF AgreeInv
    <3> QED
      BY <1>2, <1>3, <2>4, <3>6 DEF UpdateInv
  <2>6. CASE sending \notin Image
    <3>1. sending' = Blocks + 2 /\ sending' \notin 1 .. Blocks + 1 /\ sending' \notin Image
          /\ sending' # 0 /\ packet' = packet
      BY <1>0, <2>1, <2>6
    <3>2. Receiving /\ ~misled => /\ packet'.kind \in {"nothing", "rest"}
                                  /\ (pc' = "EOT" => len' = Blocks)
                                  /\ packetno' = (len' + 1) % PacketNumbers
      BY <1>1, <1>3, <2>1, <3>1 DEF UpdateInv, AgreeInv
    <3>3. AgreeInv'
      BY <1>1, <1>3, <2>1, <3>1, <3>2, PacketKinds DEF AgreeInv
    <3> QED
      BY <1>2, <1>3, <2>4, <3>3 DEF UpdateInv
  <2> QED
    BY <2>5, <2>6
<1>9. CASE SenderRepeats
  <2>1. /\ sending \in 1 .. Blocks + 1 /\ packet' = ToSend(sending) /\ answer' = "none"
        /\ UNCHANGED <<sending, asked>>
    BY <1>9 DEF SenderRepeats
  <2>2. /\ packet' \in PlainPackets \cup BlockPackets
        /\ sending \in Image => /\ packet'.kind = "block" /\ packet'.block = sending
                                /\ packet'.number = sending % PacketNumbers
        /\ sending \notin Image => packet'.kind = "EOT" /\ sending = Blocks + 1
    BY <2>1, ToSendIs, Zenon
  <2>3. UpdateType'
    BY <1>4, <1>5, <2>1, <2>2, Zenon
  <2>4. sending # 0
    BY <1>0, <2>1
  <2>5. AgreeInv'
    BY <1>1, <1>3, <2>1, <2>2, <2>4 DEF UpdateInv, AgreeInv
  <2> QED
    BY <1>2, <1>3, <2>3, <2>5 DEF UpdateInv
<1>10. CASE SenderCancels
  <2>1. /\ sending' = Blocks + 2 /\ packet' = [kind |-> "CAN"]
        /\ UNCHANGED <<answer, asked>>
    BY <1>10 DEF SenderCancels
  <2>2. packet' \in PlainPackets /\ packet'.kind = "CAN"
    BY <2>1, PacketKinds, Zenon
  <2>3. sending' \in 0 .. Blocks + 2 /\ sending' \notin 1 .. Blocks + 1 /\ sending' # 0
    BY <1>0, <2>1
  <2>4. UpdateType'
    BY <1>4, <1>5, <2>1, <2>2, <2>3, Zenon
  <2>5. AgreeInv'
    BY <1>1, <1>3, <2>1, <2>2, <2>3 DEF UpdateInv, AgreeInv
  <2> QED
    BY <1>2, <1>3, <2>4, <2>5 DEF UpdateInv
<1>11. CASE LineDamages
  <2>1. UNCHANGED <<answer, sending, asked>>
    BY <1>11 DEF LineDamages
  <2>2. CASE packet.kind = "block" /\ packet' = [packet EXCEPT !.block = Garbage]
    <3>1. packet \in BlockPackets
      BY <1>5, <2>2, PacketKinds
    <3>2. packet' \in BlockPackets /\ packet'.block = Garbage /\ packet'.number = packet.number
          /\ packet'.kind = "block"
      BY <2>2, <3>1 DEF BlockPackets
    <3>3. UpdateType'
      BY <1>4, <1>5, <2>1, <3>2, Zenon
    <3>5. AgreeInv'
      BY <1>1, <1>3, <2>1, <2>2, <3>2 DEF UpdateInv, AgreeInv
    <3> QED
      BY <1>2, <1>3, <3>3, <3>5 DEF UpdateInv
  <2>3. CASE packet' \in {Nothing, RestOfPacket}
    <3>1. packet' \in PlainPackets /\ packet'.kind \in {"nothing", "rest"}
      BY <2>3, PacketKinds, Zenon
    <3>2. UpdateType'
      BY <1>4, <1>5, <2>1, <3>1, Zenon
    <3>3. AgreeInv'
      BY <1>1, <1>3, <2>1, <2>3, <3>1 DEF UpdateInv, AgreeInv
    <3> QED
      BY <1>2, <1>3, <3>2, <3>3 DEF UpdateInv
  <2> QED
    BY <1>11, <2>2, <2>3 DEF LineDamages
<1>12. CASE LineLosesAnswer
  <2>1. answer' = "none" /\ UNCHANGED <<packet, sending, asked>>
    BY <1>12 DEF LineLosesAnswer
  <2>2. UpdateType'
    BY <1>4, <1>5, <2>1, Zenon
  <2>3. AgreeInv'
    BY <1>1, <1>3, <2>1 DEF UpdateInv, AgreeInv
  <2> QED
    BY <1>2, <1>3, <2>2, <2>3 DEF UpdateInv
<1> QED
  BY <1>6, <1>7, <1>8, <1>9, <1>10, <1>11, <1>12 DEF Outside

LEMMA UpdateInvHolds == Spec => []UpdateInv
<1>1. ASSUME UpdateInv, UNCHANGED vars PROVE UpdateInv'
  <2>1. /\ UNCHANGED <<boot_flag, flash, pc, trychar, crc, packetno, len>>
        /\ UNCHANGED <<retry, retrans, packet, answer, sending, asked, powerLosses, misled>>
    BY <1>1 DEF vars, receiver, sender, line
  <2>2. UpdateType'
    <3>1. TypeOK'
      BY <1>1, <2>1, ZenonT(60) DEF UpdateInv, UpdateType, TypeOK
    <3> QED
      BY <1>1, <2>1, <3>1, Zenon DEF UpdateInv, UpdateType
  <2>3. FlagInv'
    BY <1>1, <2>1, Zenon DEF UpdateInv, FlagInv, Receiving, ImageWhole
  <2>4. (Receiving <=> Receiving') /\ FlashInOrder'
    BY <1>1, <2>1, Zenon DEF Receiving, FlashInOrder, UpdateInv
  <2>5. AgreeInv'
    BY <1>1, <2>1, <2>4 DEF UpdateInv, AgreeInv
  <2> QED
    BY <2>2, <2>3, <2>4, <2>5 DEF UpdateInv
<1>2. UpdateInv /\ [Next]_vars => UpdateInv'
  BY <1>1, StartsKeep, TriesKeep, BlockKeeps, EndKeeps, OutsideKeeps DEF Next, xmodemReceive
<1> QED
  BY <1>2, UpdateInvInit, PTL DEF Spec

\* Every variable of Xmodem keeps its type, for any size of the image and the flash.
THEOREM UpdateTypeCorrect == Spec => []TypeOK
<1>1. UpdateInv => TypeOK
  BY DEF UpdateInv, UpdateType
<1> QED
  BY <1>1, UpdateInvHolds, PTL

\* For any image, any number of power losses and more than two packet numbers: each
\* block is written once and in its place.
THEOREM BlocksInPlace == Spec => []FlashInOrder
<1>1. UpdateInv => FlashInOrder
  BY DEF UpdateInv
<1> QED
  BY <1>1, UpdateInvHolds, PTL

\* The app is never started from a part of an image, unless a byte of a packet without
\* its start byte was read as EOT or FTL lost the flag.
THEOREM AppWhole == Spec => []AppIsWhole
<1>1. UpdateInv => AppIsWhole
  BY DEF UpdateInv, FlagInv, ImageWhole, AppIsWhole
<1> QED
  BY <1>1, UpdateInvHolds, PTL

-----------------------------------------------------------------------------
(* Boot.                                                                   *)

Causes == {"power", "DLPS"} \cup WatchdogTimeouts \cup Reasons

\* What the registers hold until the reason is read
RegistersTell ==
  /\ reset_reason = CASE cause = "DLPS" -> "DLPS" [] cause \in Reasons -> cause [] OTHER -> "HW"
  /\ timeout_flag = CASE cause \in WatchdogTimeouts -> cause
                      [] cause \in Reasons -> "CORE_LV0"
                      [] OTHER -> "none"

BootInv ==
  /\ cause \in Causes
  /\ Started => reset_reason = "HW"
  /\ ~Started => VTOR = "rom"
  /\ ~Started /\ ~unread => RegistersTell
  /\ DOMAIN RamVector = Vectors
  /\ ReasonReported
  /\ HandlersOfThisBoot

\* A cause is of one kind.
LEMMA CausesDiffer ==
  /\ \A r \in Reasons : r # "HW" /\ r # "DLPS" /\ r # "power" /\ r \notin WatchdogTimeouts
  /\ \A w \in WatchdogTimeouts : w # "DLPS" /\ w # "power" /\ w # "none" /\ w \notin Reasons
  /\ "DLPS" \notin Reasons /\ "power" \notin Reasons /\ "HW" \notin Reasons
  BY BootAssumption DEF WatchdogTimeouts

\* Any reset leaves a device that has not started, with the ROM's table in force.
LEMMA ResetKeeps ==
  ASSUME BootInv, NEW why \in Causes, ResetBy(why), ~unread' => RegistersTell'
  PROVE  BootInv'
<1>1. /\ ~Started' /\ VTOR' = "rom" /\ cause' \in Causes
      /\ DOMAIN RamVector' = Vectors
  BY DEF ResetBy, Started
<1> QED
  BY <1>1 DEF BootInv, ReasonReported, HandlersOfThisBoot

LEMMA ResetsKeep ==
  BootInv /\ (\/ PowerOn \/ ResetInDlps
              \/ \E reason \in Reasons : SystemReset(reason)
              \/ \E timeout \in WatchdogTimeouts : WatchdogReset(timeout)) => BootInv'
<1> SUFFICES ASSUME BootInv,
                    \/ PowerOn \/ ResetInDlps
                    \/ \E reason \in Reasons : SystemReset(reason)
                    \/ \E timeout \in WatchdogTimeouts : WatchdogReset(timeout)
             PROVE  BootInv'
  OBVIOUS
<1>1. CASE PowerOn
  <2>1. ResetBy("power") /\ cause' = "power" /\ reset_reason' = "HW" /\ timeout_flag' = "none"
    BY <1>1 DEF PowerOn, ResetBy
  <2>2. RegistersTell'
    BY <2>1, CausesDiffer DEF RegistersTell, WatchdogTimeouts
  <2> QED
    BY <2>1, <2>2, ResetKeeps DEF Causes
<1>2. CASE ResetInDlps
  <2>1. ResetBy("DLPS") /\ cause' = "DLPS" /\ reset_reason' = "DLPS" /\ timeout_flag' = "none"
    BY <1>2 DEF ResetInDlps, ResetBy
  <2>2. RegistersTell'
    BY <2>1, CausesDiffer DEF RegistersTell, WatchdogTimeouts
  <2> QED
    BY <2>1, <2>2, ResetKeeps DEF Causes
<1>3. ASSUME NEW reason \in Reasons, SystemReset(reason) PROVE BootInv'
  <2>1. /\ ResetBy(reason) /\ cause' = reason
        /\ reset_reason' = reason /\ timeout_flag' = "CORE_LV0"
    BY <1>3 DEF SystemReset, ResetBy
  <2>2. RegistersTell'
    BY <2>1, CausesDiffer DEF RegistersTell
  <2> QED
    BY <2>1, <2>2, ResetKeeps DEF Causes
<1>4. ASSUME NEW timeout \in WatchdogTimeouts, WatchdogReset(timeout) PROVE BootInv'
  <2>1. /\ ResetBy(timeout) /\ cause' = timeout /\ timeout_flag' = timeout
        /\ reset_reason' = reset_reason
        /\ unread' = (~Started /\ reset_reason # "HW")
    BY <1>4 DEF WatchdogReset, ResetBy
  <2>2. ~unread' => reset_reason = "HW"
    BY <2>1 DEF BootInv
  <2>3. ~unread' => RegistersTell'
    BY <2>1, <2>2, CausesDiffer DEF RegistersTell
  <2> QED
    BY <2>1, <2>3, ResetKeeps DEF Causes
<1> QED
  BY <1>1, <1>2, <1>3, <1>4

LEMMA PreMainKeeps == BootInv /\ pre_main => BootInv'
<1> SUFFICES ASSUME BootInv, pre_main PROVE BootInv'
  OBVIOUS
<1>1. /\ stage = "pre_main" /\ stage' = "lowerstack"
      /\ reset_reason_print /\ AppUpdateVectorTable
      /\ UNCHANGED <<timeout_flag, cause, unread>>
  BY DEF pre_main
<1>2. ~Started /\ Started'
  BY <1>1 DEF Started
<1>3. reset_reason' = "HW"
  BY <1>1 DEF reset_reason_print, ReasonRead
<1>4. TableBefore = RomTable
  BY <1>2 DEF BootInv, TableBefore
<1>5. DOMAIN RamVector' = Vectors /\ HandlersOfThisBoot'
  <2>1. RamVector' = [v \in Vectors |->
          IF v \in AppVectors THEN "app"
          ELSE IF v \notin UnusedVectors /\ RomTable[v] = "rom default" THEN "app default"
          ELSE RomTable[v]]
    BY <1>1, <1>4 DEF AppUpdateVectorTable
  <2>2. \A v \in Vectors : RomTable[v] \in {"rom", "rom default"}
    BY DEF RomTable
  <2>3. \A v \in Vectors :
          /\ RamVector'[v] # "stale"
          /\ v \in AppVectors => RamVector'[v] \in {"app", "lowerstack", "driver"}
          /\ v \notin UnusedVectors => RamVector'[v] # "rom default"
    BY <2>1, <2>2
  <2> QED
    BY <2>1, <2>3 DEF HandlersOfThisBoot
<1>6. ReasonReported'
  <2> SUFFICES ASSUME ~unread PROVE ReasonReported'
    BY <1>1 DEF ReasonReported
  <2>1. RegistersTell /\ cause \in Causes /\ cause' = cause
    BY <1>1, <1>2 DEF BootInv
  <2>2. /\ sw_reset_reason' = IF timeout_flag # "none" /\ reset_reason = "HW"
                              THEN "WDT_TIMEOUT" ELSE reset_reason
        /\ wdt_reset_type' =
             CASE timeout_flag # "none" ->
                    IF reset_reason = "HW" THEN timeout_flag ELSE "SYSTEM_RESET_REASON"
               [] ~(timeout_flag # "none") /\ reset_reason = "HW" -> "HW_RESET"
               [] ~(timeout_flag # "none") /\ reset_reason = "DLPS" -> "AON_WDT_RESET_DLPS"
               [] OTHER -> wdt_reset_type
    BY <1>1 DEF reset_reason_print
  <2>3. CASE cause = "power"
    <3>1. reset_reason = "HW" /\ timeout_flag = "none"
      BY <2>1, <2>3, CausesDiffer DEF RegistersTell
    <3>2. cause' = "power" /\ cause' \notin WatchdogTimeouts
      BY <2>1, <2>3, CausesDiffer
    <3>3. sw_reset_reason' = "HW" /\ wdt_reset_type' = "HW_RESET"
      BY <2>2, <3>1
    <3>4. TypeFor' = "HW_RESET"
      BY <3>2 DEF TypeFor
    <3> QED
      BY <3>2, <3>3, <3>4 DEF ReasonReported
  <2>4. CASE cause = "DLPS"
    <3>1. reset_reason = "DLPS" /\ timeout_flag = "none"
      BY <2>1, <2>4, CausesDiffer DEF RegistersTell
    <3>2. cause' = "DLPS" /\ cause' \notin WatchdogTimeouts
      BY <2>1, <2>4, CausesDiffer
    <3>3. sw_reset_reason' = "DLPS" /\ wdt_reset_type' = "AON_WDT_RESET_DLPS"
      BY <2>2, <3>1
    <3>4. TypeFor' = "AON_WDT_RESET_DLPS"
      BY <3>2 DEF TypeFor
    <3> QED
      BY <3>2, <3>3, <3>4 DEF ReasonReported
  <2>5. CASE cause \in WatchdogTimeouts
    <3>1. reset_reason = "HW" /\ timeout_flag = cause /\ timeout_flag # "none"
      BY <2>1, <2>5, CausesDiffer DEF RegistersTell
    <3>2. cause' # "power" /\ cause' # "DLPS" /\ cause' \in WatchdogTimeouts
      BY <2>1, <2>5, CausesDiffer
    <3> QED
      BY <2>1, <2>2, <3>1, <3>2 DEF ReasonReported, TypeFor
  <2>6. CASE cause \in Reasons
    <3>1. reset_reason = cause /\ timeout_flag = "CORE_LV0" /\ reset_reason # "HW"
      BY <2>1, <2>6, CausesDiffer DEF RegistersTell
    <3>2. cause' # "power" /\ cause' # "DLPS" /\ cause' \notin WatchdogTimeouts
      BY <2>1, <2>6, CausesDiffer
    <3> QED
      BY <2>1, <2>2, <3>1, <3>2 DEF ReasonReported, TypeFor
  <2> QED
    BY <2>1, <2>3, <2>4, <2>5, <2>6 DEF Causes
<1> QED
  BY <1>1, <1>2, <1>3, <1>5, <1>6 DEF BootInv

LEMMA OtherBootSteps ==
  BootInv /\ (system_init \/ LowerstackInit \/ common_main
                \/ (\E v \in Vectors : RegisterHandler(v)) \/ UNCHANGED bootVars) => BootInv'
<1> SUFFICES ASSUME BootInv,
                    system_init \/ LowerstackInit \/ common_main
                      \/ (\E v \in Vectors : RegisterHandler(v)) \/ UNCHANGED bootVars
             PROVE  BootInv'
  OBVIOUS
<1> USE DEF report, vectors
<1>1. CASE system_init
  <2>1. /\ ~Started /\ ~Started'
        /\ UNCHANGED <<reset_reason, timeout_flag, RamVector, VTOR, cause, unread>>
    BY <1>1 DEF system_init, Started
  <2> QED
    BY <2>1 DEF BootInv, ReasonReported, HandlersOfThisBoot, RegistersTell
\* Neither the registers nor the report change, and a handler of this start is entered.
<1>2. ASSUME Started, Started', NEW v \in Vectors, NEW handler \in {"lowerstack", "driver"},
             RamVector' = [RamVector EXCEPT ![v] = handler] \/ RamVector' = RamVector,
             UNCHANGED <<reset_reason, sw_reset_reason, wdt_reset_type, cause, unread>>
      PROVE  BootInv'
  <2>1. DOMAIN RamVector' = Vectors
    BY <1>2 DEF BootInv
  <2>2. \A w \in Vectors : RamVector'[w] \in {RamVector[w], handler}
    BY <1>2 DEF BootInv
  <2>3. HandlersOfThisBoot'
    BY <1>2, <2>2 DEF BootInv, HandlersOfThisBoot
  <2>4. ReasonReported'
    BY <1>2 DEF BootInv, ReasonReported, TypeFor
  <2> QED
    BY <1>2, <2>1, <2>3, <2>4 DEF BootInv
<1>3. CASE LowerstackInit
  BY <1>2, <1>3, BootAssumption DEF LowerstackInit, Started
<1>4. CASE common_main
  BY <1>2, <1>4, BootAssumption DEF common_main, Started
<1>5. ASSUME NEW v \in Vectors, RegisterHandler(v) PROVE BootInv'
  BY <1>2, <1>5 DEF RegisterHandler, Started
<1>6. CASE UNCHANGED bootVars
  BY <1>6 DEF bootVars, BootInv, Started, ReasonReported, HandlersOfThisBoot, RegistersTell,
     TypeFor
<1> QED
  BY <1>1, <1>3, <1>4, <1>5, <1>6

LEMMA BootInvHolds == BootSpec => []BootInv
<1>1. BootInit => BootInv
  <2> SUFFICES ASSUME BootInit PROVE BootInv
    OBVIOUS
  <2>1. RegistersTell
    BY CausesDiffer DEF BootInit, RegistersTell, WatchdogTimeouts
  <2>2. DOMAIN RamVector = Vectors
    BY DEF BootInit, RomTable
  <2> QED
    BY <2>1, <2>2 DEF BootInit, BootInv, Started, Causes, ReasonReported, HandlersOfThisBoot
<1>2. BootInv /\ [BootNext]_bootVars => BootInv'
  BY ResetsKeep, PreMainKeeps, OtherBootSteps DEF BootNext
<1> QED
  BY <1>1, <1>2, PTL DEF BootSpec

\* Through any sequence of resets of any reasons the start tells the last one, but for a
\* watchdog that bites before the reason was read.
THEOREM ReasonsReported == BootSpec => []ReasonReported
<1>1. BootInv => ReasonReported
  BY DEF BootInv
<1> QED
  BY <1>1, BootInvHolds, PTL

\* For any vector table no handler of before a reset is left in force after it.
THEOREM HandlersFresh == BootSpec => []HandlersOfThisBoot
<1>1. BootInv => HandlersOfThisBoot
  BY DEF BootInv
<1> QED
  BY <1>1, BootInvHolds, PTL

-----------------------------------------------------------------------------
(* MemOps.                                                                 *)

LEMMA BytesAre ==
  ASSUME NEW first \in Nat, NEW n \in Nat
  PROVE  /\ \A s \in Bytes(first, n) :
              /\ s.size = 1 /\ s.at \in first .. first + n - 1
              /\ s = [at |-> s.at, size |-> 1]
         /\ \A i \in first .. first + n - 1 : [at |-> i, size |-> 1] \in Bytes(first, n)
<1>1. ASSUME NEW i \in first .. first + n - 1
      PROVE  [at |-> i, size |-> 1] \in Bytes(first, n)
  <2>1. i - first \in 0 .. n - 1 /\ i = first + (i - first)
    BY <1>1
  <2> QED
    BY <2>1 DEF Bytes
<1>2. ASSUME NEW s \in Bytes(first, n)
      PROVE  /\ s.size = 1 /\ s.at \in first .. first + n - 1
             /\ s = [at |-> s.at, size |-> 1]
  <2>1. PICK i \in 0 .. n - 1 : s = [at |-> first + i, size |-> 1]
    BY <1>2 DEF Bytes
  <2> QED
    BY <2>1
<1> QED
  BY <1>1, <1>2

LEMMA WordsAre ==
  ASSUME NEW first \in Nat, NEW n \in Nat
  PROVE  /\ \A s \in Words(first, n) :
              \E j \in 0 .. n - 1 : s = [at |-> first + 4 * j, size |-> 4]
         /\ \A j \in 0 .. n - 1 : [at |-> first + 4 * j, size |-> 4] \in Words(first, n)
  BY DEF Words, wsize

\* Bytes up to a word, words, and the bytes that are left
LEMMA StoresOnce ==
  ASSUME NEW h \in Nat, NEW w \in Nat, NEW r \in Nat, call.n = h + 4 * w + r
  PROVE  StoredOnce(Bytes(0, h) \cup Words(h, w) \cup Bytes(h + 4 * w, r))
<1> DEFINE S == Bytes(0, h) \cup Words(h, w) \cup Bytes(h + 4 * w, r)
           Kind1(s) == s.size = 1 /\ s.at \in 0 .. h - 1 /\ s = [at |-> s.at, size |-> 1]
           Kind2(s) == \E j \in 0 .. w - 1 : s = [at |-> h + 4 * j, size |-> 4]
           Kind3(s) == /\ s.size = 1 /\ s.at \in h + 4 * w .. h + 4 * w + r - 1
                       /\ s = [at |-> s.at, size |-> 1]
<1>1. \A s \in S : Kind1(s) \/ Kind2(s) \/ Kind3(s)
  <2>1. h + 4 * w \in Nat /\ 0 \in Nat
    OBVIOUS
  <2>2. \A s \in Bytes(0, h) : Kind1(s)
    BY BytesAre, <2>1
  <2>3. \A s \in Words(h, w) : Kind2(s)
    BY WordsAre
  <2>4. \A s \in Bytes(h + 4 * w, r) : Kind3(s)
    BY BytesAre, <2>1
  <2> QED
    BY <2>2, <2>3, <2>4
<1>2. \A s \in S : s.at + s.size <= call.n
  <2> SUFFICES ASSUME NEW s \in S PROVE s.at + s.size <= call.n
    OBVIOUS
  <2>1. CASE Kind1(s)
    BY <2>1
  <2>2. CASE Kind2(s)
    <3>1. PICK j \in 0 .. w - 1 : s = [at |-> h + 4 * j, size |-> 4]
      BY <2>2
    <3> QED
      BY <3>1
  <2>3. CASE Kind3(s)
    BY <2>3
  <2> QED
    BY <1>1, <2>1, <2>2, <2>3
<1>3. ASSUME NEW i \in 0 .. call.n - 1
      PROVE  \E s \in S : \A t \in S : (t.at <= i /\ i < t.at + t.size) <=> t = s
  <2> HIDE DEF S
  <2>1. CASE i < h \/ i >= h + 4 * w
    <3> DEFINE s == [at |-> i, size |-> 1]
    <3>1. s \in S
      <4>1. h + 4 * w \in Nat /\ 0 \in Nat
        OBVIOUS
      <4>2. i \in 0 .. 0 + h - 1 \/ i \in h + 4 * w .. h + 4 * w + r - 1
        BY <2>1
      <4>3. s \in Bytes(0, h) \/ s \in Bytes(h + 4 * w, r)
        BY <4>1, <4>2, BytesAre
      <4> QED
        BY <4>3 DEF S
    <3>2. ASSUME NEW t \in S PROVE (t.at <= i /\ i < t.at + t.size) <=> t = s
      <4>1. CASE Kind2(t)
        <5>1. PICK j \in 0 .. w - 1 : t = [at |-> h + 4 * j, size |-> 4]
          BY <4>1
        <5>2. t.at = h + 4 * j /\ t.size = 4 /\ s.size = 1
          BY <5>1
        <5> QED
          BY <2>1, <5>2
      <4>2. CASE Kind1(t) \/ Kind3(t)
        <5>1. t.size = 1 /\ t.at \in Int /\ t = [at |-> t.at, size |-> 1]
          BY <4>2
        <5>2. (t.at <= i /\ i < t.at + t.size) <=> t.at = i
          BY <5>1
        <5>3. t.at = i <=> t = s
          BY <5>1
        <5> QED
          BY <5>2, <5>3
      <4> QED
        BY <1>1, <4>1, <4>2
    <3> QED
      BY <3>1, <3>2
  <2>2. CASE h <= i /\ i < h + 4 * w
    <3> DEFINE k == (i - h) \div 4
               s == [at |-> h + 4 * k, size |-> 4]
    <3>1. k \in 0 .. w - 1 /\ h + 4 * k <= i /\ i < h + 4 * k + 4
      BY <2>2
    <3> HIDE DEF k
    <3>2. s \in S
      BY <3>1, WordsAre DEF S
    <3>3. ASSUME NEW t \in S PROVE (t.at <= i /\ i < t.at + t.size) <=> t = s
      <4>1. CASE Kind2(t)
        <5>1. PICK j \in 0 .. w - 1 : t = [at |-> h + 4 * j, size |-> 4]
          BY <4>1
        <5>2. t.at = h + 4 * j /\ t.size = 4
          BY <5>1
        <5>3. (t.at <= i /\ i < t.at + t.size) <=> j = k
          BY <3>1, <5>2
        <5>4. j = k <=> t = s
          <6>1. t = s => t.at = h + 4 * k
            OBVIOUS
          <6> QED
            BY <3>1, <5>1, <5>2, <6>1
        <5> QED
          BY <5>3, <5>4
      <4>2. CASE Kind1(t) \/ Kind3(t)
        <5>1. t.size = 1 /\ (t.at \in 0 .. h - 1 \/ t.at \in h + 4 * w .. h + 4 * w + r - 1)
          BY <4>2
        <5>2. ~(t.at <= i /\ i < t.at + t.size) /\ t.size # s.size
          BY <2>2, <5>1
        <5> QED
          BY <5>2
      <4> QED
        BY <1>1, <4>1, <4>2
    <3> QED
      BY <3>2, <3>3
  <2> QED
    BY <2>1, <2>2
<1> QED
  BY <1>2, <1>3 DEF StoredOnce

\* Where the words of such a layout are
LEMMA WordsAligned ==
  ASSUME NEW h \in Nat, NEW w \in Nat, NEW r \in Nat, NEW a \in Nat, (a + h) % 4 = 0
  PROVE  Aligned(Bytes(0, h) \cup Words(h, w) \cup Bytes(h + 4 * w, r), a)
<1> SUFFICES ASSUME NEW s \in Bytes(0, h) \cup Words(h, w) \cup Bytes(h + 4 * w, r), s.size = 4
             PROVE  (a + s.at) % 4 = 0
  BY DEF Aligned, wsize
<1>1. s \notin Bytes(0, h) /\ s \notin Bytes(h + 4 * w, r)
  <2>1. 0 \in Nat /\ h + 4 * w \in Nat
    OBVIOUS
  <2>2. /\ \A t \in Bytes(0, h) : t.size = 1
        /\ \A t \in Bytes(h + 4 * w, r) : t.size = 1
    BY <2>1, BytesAre
  <2> QED
    BY <2>2
<1>2. PICK j \in 0 .. w - 1 : s = [at |-> h + 4 * j, size |-> 4]
  BY <1>1, WordsAre
<1> QED
  BY <1>2

LEMMA BytesOnly ==
  ASSUME NEW n \in Nat
  PROVE  Bytes(0, n) = Bytes(0, n) \cup Words(n, 0) \cup Bytes(n + 4 * 0, 0)
  BY DEF Bytes, Words

\* memcpy and memset are right for every length, byte and alignment of their arguments.
THEOREM MemoryRight == MemInit => MemoryAsC
<1> SUFFICES ASSUME MemInit PROVE MemoryAsC
  OBVIOUS
<1>1. /\ call.dst \in 0 .. 3 /\ call.src \in 0 .. 3 /\ call.n \in Nat
  <2>1. call.dst \in 0 .. wsize - 1 /\ call.src \in 0 .. wsize - 1 /\ call.n \in Lengths
    BY DEF MemInit, Calls
  <2>2. call.n \in Nat
    BY <2>1, MemOpsAssumption, Zenon
  <2> QED
    BY <2>1, <2>2 DEF wsize
<1>2. ASSUME NEW a \in Nat
      PROVE  StoredOnce(Bytes(0, call.n)) /\ Aligned(Bytes(0, call.n), a)
  <2>1. call.n = call.n + 4 * 0 + 0 /\ 0 \in Nat
    BY <1>1
  <2>2. StoredOnce(Bytes(0, call.n))
    BY <1>1, <2>1, StoresOnce, BytesOnly
  <2>3. Aligned(Bytes(0, call.n), a)
    BY <1>1, <2>1, BytesAre DEF Aligned, wsize
  <2> QED
    BY <2>2, <2>3
<1>3. StoredOnce(memcpy) /\ Aligned(memcpy, call.dst) /\ Aligned(memcpy, call.src)
  <2>1. CASE call.n < wsize \/ CHECK_STR_UNALIGNED
    BY <1>1, <1>2, <2>1 DEF memcpy
  <2>2. CASE ~(call.n < wsize \/ CHECK_STR_UNALIGNED)
    <3> DEFINE w == call.n \div 4
               r == call.n % 4
    <3>1. w \in Nat /\ r \in Nat /\ call.n = 0 + 4 * w + r /\ call.dst = 0 /\ call.src = 0
      BY <1>1, <2>2 DEF CHECK_STR_UNALIGNED
    <3>2. memcpy = Words(0, w) \cup Bytes(4 * w, r)
      BY <2>2 DEF memcpy, wsize
    <3> HIDE DEF w, r
    <3>3. memcpy = Bytes(0, 0) \cup Words(0, w) \cup Bytes(0 + 4 * w, r)
      <4>1. Bytes(0, 0) = {}
        BY DEF Bytes
      <4>2. 0 + 4 * w = 4 * w
        BY <3>1
      <4> QED
        BY <3>2, <4>1, <4>2
    <3>4. StoredOnce(memcpy)
      BY <3>1, <3>3, StoresOnce
    <3>5. 0 \in Nat /\ (0 + 0) % 4 = 0
      OBVIOUS
    <3>6. Aligned(memcpy, 0)
      BY <3>1, <3>3, <3>5, WordsAligned
    <3> QED
      BY <3>1, <3>4, <3>6
  <2> QED
    BY <2>1, <2>2
<1>4. StoredOnce(memset) /\ Aligned(memset, call.dst)
  <2>1. CASE TooFewWords
    BY <1>1, <1>2, <2>1 DEF memset
  <2>2. CASE ~TooFewWords
    <3> DEFINE h == (4 - call.dst) % 4
               w == (call.n - h) \div 4
               r == (call.n - h) % 4
    <3>1. call.n >= 12
      BY <1>1, <2>2 DEF TooFewWords, wsize
    <3>2. h \in 0 .. 3 /\ (call.dst + h) % 4 = 0
      BY <1>1
    <3>3. memset = Bytes(0, h) \cup Words(h, DoTimes(w)) \cup Bytes(h + 4 * DoTimes(w), r)
      BY <2>2 DEF memset, wsize
    <3> HIDE DEF h
    <3>4. w \in Nat /\ w # 0 /\ r \in Nat /\ call.n = h + 4 * w + r
      BY <1>1, <3>1, <3>2
    <3>5. DoTimes(w) = w
      BY <3>4 DEF DoTimes
    <3> HIDE DEF w, r
    <3>6. memset = Bytes(0, h) \cup Words(h, w) \cup Bytes(h + 4 * w, r)
      BY <3>3, <3>5
    <3>7. h \in Nat /\ call.dst \in Nat
      BY <1>1, <3>2
    <3>8. StoredOnce(memset)
      BY <3>4, <3>6, <3>7, StoresOnce
    <3>9. Aligned(memset, call.dst)
      BY <3>2, <3>4, <3>6, <3>7, WordsAligned
    <3> QED
      BY <3>8, <3>9
  <2> QED
    BY <2>1, <2>2
<1>5. Val >= 0 => \A s \in memset : \A i \in s.at .. s.at + s.size - 1 : Left(s, i) = Val % 256
  BY DEF Left, WidevalByte
<1> QED
  BY <1>3, <1>4, <1>5 DEF MemoryAsC

-----------------------------------------------------------------------------
(* StayAwake.  NoSleepInTx holds: an interrupt works on the byte in        *)
(* memory, which has waitTxDone from the task's store on.                  *)

TxBit ==
  /\ at = "radio_done" => "waitTxDone" \in (IF write = NoWrite THEN sStayAwake ELSE write)
  /\ at = "given" => write = NoWrite /\ "waitTxDone" \in sStayAwake

LEMMA TxBitStep == ASSUME TxBit, [AwakeNext]_awakeVars PROVE TxBit'
<1>1. CASE Store
  BY <1>1 DEF Store, TxBit, NoWrite
<1>2. ASSUME NEW aEnable \in BOOLEAN, otPlatRadioSetRxOnWhenIdle(aEnable) PROVE TxBit'
  BY <1>2 DEF otPlatRadioSetRxOnWhenIdle, Load, TxBit
<1>3. CASE TakeControl
  BY <1>3 DEF TakeControl, Load, TxBit
<1>4. CASE BEE_SleepDirect \/ otPlatRadioReceiveAt
  BY <1>4 DEF BEE_SleepDirect, otPlatRadioReceiveAt, Load, TxBit
<1>5. CASE BEE_RadioTxStart
  <2>1. write' = sStayAwake \cup {"waitTxDone"} /\ at' = "radio_done"
    BY <1>5 DEF BEE_RadioTxStart, Load
  <2> QED
    BY <2>1 DEF TxBit, NoWrite
<1>6. CASE TxReturns \/ BEE_RadioTx \/ StartDataTimer
  BY <1>6 DEF TxReturns, BEE_RadioTx, StartDataTimer, Load, TxBit
<1>7. ASSUME NEW kind \in OnItsWay, AckStarts(kind) PROVE TxBit'
  BY <1>7 DEF AckStarts, LateAck, ClearAckBit, TxBit
<1>8. CASE AckEnds \/ AckReported \/ waitAckTxDoneProtectionTimeout
  BY <1>8 DEF AckEnds, AckReported, waitAckTxDoneProtectionTimeout, ClearAckBit, TxBit
<1>9. CASE TxDoneInterrupt
  BY <1>9 DEF TxDoneInterrupt, TxBit
<1>10. CASE waitRxPendingDataTimeout
  BY <1>10 DEF waitRxPendingDataTimeout, TxBit
<1>11. CASE mpan_RxAt_done_callback
  BY <1>11 DEF mpan_RxAt_done_callback, TxBit
<1>12. CASE UNCHANGED awakeVars
  BY <1>12 DEF awakeVars, TxBit
<1> QED
  BY <1>1, <1>2, <1>3, <1>4, <1>5, <1>6, <1>7, <1>8, <1>9, <1>10, <1>11, <1>12 DEF AwakeNext

\* radio.c:1181-1185: no interrupt takes the radio's wakefulness from a
\* transmission, however often it tears other writes.
THEOREM AwakeForTx == AwakeSpec => []NoSleepInTx
<1>1. AwakeInit => TxBit
  BY DEF AwakeInit, TxBit
<1>2. TxBit /\ [AwakeNext]_awakeVars => TxBit'
  BY TxBitStep
<1>3. TxBit => NoSleepInTx
  BY DEF TxBit, NoSleepInTx, Blocked, mac_report_pm_check_result
<1> QED
  BY <1>1, <1>2, <1>3, PTL DEF AwakeSpec

\* No ack starts between a load and a store of the task.
AckNotTorn == ackState \notin OnItsWay /\ ackState' \in OnItsWay => write = NoWrite

WholeAckSpec == AwakeInit /\ [][AwakeNext /\ AckNotTorn]_awakeVars

\* The byte has the bit of an ack on its way, and so has what the task will store.
AckBit == ackState \in OnItsWay => "waitAckTxDone" \in sStayAwake
                                   /\ (write = NoWrite \/ "waitAckTxDone" \in write)

\* The steps that leave acks and their timer alone: the task's, but for its stores,
\* and the interrupts of other bits.
LEMMA OtherBits ==
  ASSUME \/ \E aEnable \in BOOLEAN : otPlatRadioSetRxOnWhenIdle(aEnable)
         \/ TakeControl \/ BEE_SleepDirect \/ otPlatRadioReceiveAt
         \/ BEE_RadioTxStart \/ TxReturns \/ BEE_RadioTx \/ StartDataTimer
         \/ TxDoneInterrupt \/ waitRxPendingDataTimeout \/ mpan_RxAt_done_callback
         \/ UNCHANGED awakeVars
  PROVE  /\ UNCHANGED ackProtection
         /\ "waitAckTxDone" \in sStayAwake' <=> "waitAckTxDone" \in sStayAwake
         /\ \/ UNCHANGED write
            \/ "waitAckTxDone" \in write' <=> "waitAckTxDone" \in sStayAwake
<1>1. ASSUME NEW bit, bit # "waitAckTxDone", NEW value, NEW next, Load(bit, value, next)
      PROVE  /\ UNCHANGED <<sStayAwake, ackProtection>>
             /\ "waitAckTxDone" \in write' <=> "waitAckTxDone" \in sStayAwake
  BY <1>1 DEF Load
<1>2. CASE \E aEnable \in BOOLEAN : otPlatRadioSetRxOnWhenIdle(aEnable)
  BY <1>1, <1>2 DEF otPlatRadioSetRxOnWhenIdle
<1>3. CASE TakeControl
  BY <1>1, <1>3 DEF TakeControl
<1>4. CASE BEE_SleepDirect \/ otPlatRadioReceiveAt
  BY <1>1, <1>4 DEF BEE_SleepDirect, otPlatRadioReceiveAt
<1>5. CASE BEE_RadioTxStart \/ TxReturns
  BY <1>1, <1>5 DEF BEE_RadioTxStart, TxReturns
<1>6. CASE BEE_RadioTx \/ StartDataTimer
  BY <1>1, <1>6 DEF BEE_RadioTx, StartDataTimer
<1>7. CASE TxDoneInterrupt \/ waitRxPendingDataTimeout \/ mpan_RxAt_done_callback
  BY <1>7 DEF TxDoneInterrupt, waitRxPendingDataTimeout, mpan_RxAt_done_callback
<1>8. CASE UNCHANGED awakeVars
  BY <1>8 DEF awakeVars
<1> QED
  BY <1>2, <1>3, <1>4, <1>5, <1>6, <1>7, <1>8

LEMMA AckBitStep ==
  ASSUME AckBit, [AwakeNext /\ AckNotTorn]_awakeVars
  PROVE  AckBit'
<1>1. CASE Store
  BY <1>1 DEF Store, AckBit
<1>2. ASSUME NEW kind \in OnItsWay, AckStarts(kind), AckNotTorn PROVE AckBit'
  <2>1. CASE LateAck(kind)
    BY <2>1 DEF LateAck, AckBit, OnItsWay
  <2>2. CASE "waitAckTxDone" \in sStayAwake' /\ ackState' = kind /\ UNCHANGED write
    BY <1>2, <2>2 DEF AckStarts, AckNotTorn, AckBit
  <2> QED
    BY <1>2, <2>1, <2>2 DEF AckStarts
<1>3. ackState' \notin OnItsWay => AckBit'
  BY DEF AckBit
<1>4. AckStateAtEnd \notin OnItsWay
  BY DEF AckStateAtEnd, OnItsWay
<1>5. CASE AckEnds \/ AckReported \/ waitAckTxDoneProtectionTimeout
  BY <1>3, <1>4, <1>5 DEF AckEnds, AckReported, waitAckTxDoneProtectionTimeout, OnItsWay
<1>6. CASE /\ UNCHANGED ackProtection
           /\ "waitAckTxDone" \in sStayAwake' <=> "waitAckTxDone" \in sStayAwake
           /\ \/ UNCHANGED write
              \/ "waitAckTxDone" \in write' <=> "waitAckTxDone" \in sStayAwake
  BY <1>6 DEF AckBit, ackProtection
<1> QED
  BY <1>1, <1>2, <1>5, <1>6, OtherBits DEF AwakeNext

\* The torn write is the only way to NoSleepInAck's violation: an ack that
\* starts at any other moment keeps the radio awake to its end, although the
\* task goes on writing the byte.
THEOREM AwakeForWholeAck == WholeAckSpec => []NoSleepInAck
<1>1. AwakeInit => AckBit
  BY DEF AwakeInit, AckBit, OnItsWay
<1>2. AckBit /\ [AwakeNext /\ AckNotTorn]_awakeVars => AckBit'
  BY AckBitStep
<1>3. AckBit => NoSleepInAck
  BY DEF AckBit, NoSleepInAck, mac_report_pm_check_result
<1> QED
  BY <1>1, <1>2, <1>3, PTL DEF WholeAckSpec

\* AwakeHasTimer is inductive by itself.
LEMMA TimerStep ==
  ASSUME AwakeHasTimer, [AwakeNext]_awakeVars
  PROVE  AwakeHasTimer'
<1>1. CASE Store
  BY <1>1 DEF Store, AwakeHasTimer
<1>2. ASSUME NEW kind \in OnItsWay, AckStarts(kind) PROVE AwakeHasTimer'
  BY <1>2 DEF AckStarts, LateAck, ClearAckBit, AwakeHasTimer
<1>3. CASE AckEnds
  BY <1>3 DEF AckEnds, AwakeHasTimer
<1>4. CASE AckReported \/ waitAckTxDoneProtectionTimeout
  BY <1>4 DEF AckReported, waitAckTxDoneProtectionTimeout, ClearAckBit, AwakeHasTimer
<1>5. CASE /\ UNCHANGED ackProtection
           /\ "waitAckTxDone" \in sStayAwake' <=> "waitAckTxDone" \in sStayAwake
  BY <1>5 DEF AwakeHasTimer, ackProtection
<1> QED
  BY <1>1, <1>2, <1>3, <1>4, <1>5, OtherBits DEF AwakeNext

\* radio.c:2623, 2743 and 2854: however acks are late, dropped or never reported
\* and wherever the task's writes are torn, waitAckTxDone is set without a running
\* timer only where a store of the task put it back, or where no timer could be
\* allocated.
THEOREM TimerEndsAwake == AwakeSpec => []AwakeHasTimer
<1>1. AwakeInit => AwakeHasTimer
  BY DEF AwakeInit, AwakeHasTimer
<1> QED
  BY <1>1, TimerStep, PTL DEF AwakeSpec

-----------------------------------------------------------------------------
(* FrameParser: the offset functions against the parser that goes through  *)
(* the frame once.                                                         *)

\* What a call of mhr_parse and the offset functions must agree on.
Agree(h) ==
  LET m == mhr_parse(h)
  IN IF ~m.ok THEN security_offset(h) = INVALID
     ELSE /\ dst_panid_offset(h) = m.dstPanid /\ dst_addr_offset(h) = m.dstAddr
          /\ src_panid_offset(h) = m.srcPanid /\ src_addr_offset(h) = m.srcAddr
          /\ security_offset(h) = m.end /\ sec_ctrl_offset(h) = m.secCtrl
          /\ HasSrc(h) \/ src_panid_is_present(h) \/ dst_addr_end_offset(h) = m.end

LEMMA HeaderFields ==
  ASSUME NEW h \in Headers
  PROVE  /\ h.ver \in 0 .. 3 /\ h.dst \in AddrModes /\ h.src \in AddrModes
         /\ h.compress \in BOOLEAN /\ h.sec \in BOOLEAN /\ h.keyMode \in 0 .. 3
         /\ h.counterSuppressed \in BOOLEAN /\ h.dsnSuppressed \in BOOLEAN /\ h.ie \in BOOLEAN
  BY DEF Headers

LEMMA AddrSizes ==
  /\ AddrSize("none") = 0 /\ AddrSize("short") = 2
  /\ AddrSize("extended") = 8 /\ AddrSize("reserved") = INVALID
  BY DEF AddrSize

\* Offsets before a reserved address are real ones.
LEMMA OffsetsUpToDst ==
  ASSUME NEW h \in Headers
  PROVE  /\ addressing_offset(h) \in {3, 4}
         /\ dst_panid_offset(h) = Unless0(dst_panid_is_present(h), addressing_offset(h))
         /\ dst_addr_offset(h) =
              Unless0(HasDst(h), addressing_offset(h)
                                   + Unless0(dst_panid_is_present(h), PanIdSize))
<1>1. addressing_offset(h) \in {3, 4}
  BY DEF addressing_offset
<1>2. dst_panid_offset(h) = Unless0(dst_panid_is_present(h), addressing_offset(h))
  BY DEF dst_panid_offset, Unless0
<1>3. dst_panid_offset(h) = 0 <=> ~dst_panid_is_present(h)
  BY <1>1, <1>2 DEF Unless0
<1> QED
  BY <1>1, <1>2, <1>3 DEF dst_addr_offset, Unless0, PanIdSize

LEMMA AfterValid ==
  ASSUME NEW a \in 0 .. 100, NEW b \in 0 .. 100
  PROVE  After(a, b) = a + b /\ a + b \in 0 .. 200
  BY DEF After, INVALID

LEMMA AfterInvalid ==
  ASSUME NEW a
  PROVE  After(a, INVALID) = INVALID /\ After(INVALID, a) = INVALID
  BY DEF After

LEMMA ValidSizes ==
  ASSUME NEW mode \in AddrModes
  PROVE  IF mode = "reserved" THEN AddrSize(mode) = INVALID
         ELSE /\ AddrSize(mode) \in {0, 2, 8}
              /\ AddrSize(mode) = 0 <=> mode = "none"
  BY AddrSizes DEF AddrModes

\* Where the source begins: behind what there is of the destination.
LEMMA AfterDstOffset ==
  ASSUME NEW h \in Headers
  PROVE  AfterDst(h) =
           IF h.dst = "reserved" THEN INVALID
           ELSE addressing_offset(h) + Unless0(dst_panid_is_present(h), PanIdSize)
                  + AddrSize(h.dst)
<1> DEFINE p == dst_panid_is_present(h)
           a == addressing_offset(h)
           pan == Unless0(p, PanIdSize)
<1>1. /\ a \in {3, 4} /\ dst_panid_offset(h) = Unless0(p, a)
      /\ dst_addr_offset(h) = Unless0(HasDst(h), a + pan)
  BY OffsetsUpToDst
<1>2. pan \in {0, 2} /\ (pan = 0 <=> ~p)
  BY DEF Unless0, PanIdSize
<1>3. h.dst \in AddrModes
  BY HeaderFields
<1>4. /\ h.dst = "reserved" => AddrSize(h.dst) = INVALID
      /\ h.dst # "reserved" => AddrSize(h.dst) \in {0, 2, 8}
      /\ h.dst = "none" => AddrSize(h.dst) = 0
  BY <1>3, ValidSizes, AddrSizes
<1>5. AfterDst(h) = IF dst_addr_offset(h) # 0 THEN After(dst_addr_offset(h), AddrSize(h.dst))
                    ELSE IF dst_panid_offset(h) # 0 THEN dst_panid_offset(h) + PanIdSize
                    ELSE addressing_offset(h)
  BY DEF AfterDst
<1> HIDE DEF p, a, pan
<1>6. CASE h.dst = "none"
  <2>1. dst_addr_offset(h) = 0
    BY <1>1, <1>6 DEF HasDst, Unless0
  <2>2. AfterDst(h) = IF p THEN a + 2 ELSE a
    BY <1>1, <1>5, <2>1 DEF Unless0, PanIdSize, a
  <2> QED
    BY <1>1, <1>2, <1>4, <1>6, <2>2 DEF p, a, pan, Unless0, PanIdSize
<1>7. CASE h.dst = "reserved"
  <2>1. dst_addr_offset(h) = a + pan /\ a + pan # 0
    BY <1>1, <1>2, <1>7 DEF HasDst, Unless0
  <2> QED
    BY <1>4, <1>5, <1>7, <2>1, AfterInvalid
<1>8. CASE h.dst \notin {"none", "reserved"}
  <2>1. dst_addr_offset(h) = a + pan /\ a + pan # 0 /\ a + pan \in 0 .. 100
    BY <1>1, <1>2, <1>8 DEF HasDst, Unless0
  <2>2. AddrSize(h.dst) \in 0 .. 100
    BY <1>4, <1>8
  <2>3. After(a + pan, AddrSize(h.dst)) = a + pan + AddrSize(h.dst)
    BY <2>1, <2>2, AfterValid
  <2>4. AfterDst(h) = a + pan + AddrSize(h.dst)
    BY <1>5, <2>1, <2>3
  <2> QED
    BY <1>8, <2>4 DEF p, a, pan
<1> QED
  BY <1>6, <1>7, <1>8

LEMMA SecurityOffset ==
  ASSUME NEW h \in Headers, h.dst # "reserved", h.src # "reserved"
  PROVE  /\ src_panid_offset(h) = mhr_parse(h).srcPanid
         /\ src_addr_offset(h) = mhr_parse(h).srcAddr
         /\ security_offset(h) = mhr_parse(h).end
         /\ mhr_parse(h).end \in 3 .. 24
<1> DEFINE a == addressing_offset(h)
           p == dst_panid_is_present(h)
           q == src_panid_is_present(h)
           from == a + Unless0(p, PanIdSize) + AddrSize(h.dst)
           addr == from + Unless0(q, PanIdSize)
<1>1. AfterDst(h) = from
  BY AfterDstOffset
<1>2. /\ a \in {3, 4} /\ dst_panid_offset(h) = Unless0(p, a)
      /\ AddrSize(h.dst) \in {0, 2, 8} /\ AddrSize(h.src) \in {0, 2, 8}
      /\ h.src = "none" => AddrSize(h.src) = 0
  BY OffsetsUpToDst, HeaderFields, ValidSizes, AddrSizes
<1>3. from \in 3 .. 14 /\ addr \in 3 .. 16 /\ addr + AddrSize(h.src) \in 3 .. 24
  BY <1>2 DEF Unless0, PanIdSize
<1>4. /\ mhr_parse(h).srcPanid = IF q THEN from ELSE Unless0(p, a)
      /\ mhr_parse(h).srcAddr = Unless0(HasSrc(h), addr)
      /\ mhr_parse(h).end = addr + AddrSize(h.src)
  BY DEF mhr_parse
<1> HIDE DEF a, p, from, addr
<1>5. q => HasSrc(h)
  BY DEF src_panid_is_present
<1>6. src_panid_offset(h) = IF q THEN from ELSE Unless0(p, a)
  BY <1>1, <1>2 DEF src_panid_offset
<1>7. src_addr_offset(h) = Unless0(HasSrc(h), addr)
  <2>1. CASE ~HasSrc(h)
    BY <2>1 DEF src_addr_offset, Unless0
  <2>2. CASE HasSrc(h) /\ q
    <3>1. After(from, PanIdSize) = from + 2
      BY <1>3, AfterValid DEF PanIdSize
    <3> QED
      BY <1>6, <2>2, <3>1 DEF src_addr_offset, Unless0, PanIdSize, addr
  <2>3. CASE HasSrc(h) /\ ~q
    <3>1. addr = from
      BY <1>3, <2>3 DEF addr, Unless0
    <3> QED
      BY <1>1, <2>3, <3>1 DEF src_addr_offset, Unless0
  <2> QED
    BY <2>1, <2>2, <2>3
<1>8. security_offset(h) = addr + AddrSize(h.src)
  <2>1. CASE HasSrc(h)
    <3>1. After(addr, AddrSize(h.src)) = addr + AddrSize(h.src)
      BY <1>2, <1>3, AfterValid
    <3> QED
      BY <1>7, <2>1, <3>1 DEF security_offset, Unless0
  <2>2. CASE ~HasSrc(h)
    <3>1. addr = from /\ AddrSize(h.src) = 0
      BY <1>2, <1>3, <1>5, <2>2 DEF addr, Unless0, HasSrc
    <3> QED
      BY <1>1, <1>3, <2>2, <3>1 DEF security_offset
  <2> QED
    BY <2>1, <2>2
<1> QED
  BY <1>3, <1>4, <1>6, <1>7, <1>8

\* For every header of IEEE 802.15.4 there is.
LEMMA ParsersAgreeOn == ASSUME NEW h \in Headers PROVE Agree(h)
<1>1. mhr_parse(h).ok <=> h.dst # "reserved" /\ h.src # "reserved"
  BY DEF mhr_parse
<1>2. h.dst \in AddrModes /\ h.src \in AddrModes
  BY HeaderFields
<1>3. CASE h.dst = "reserved"
  <2>1. AfterDst(h) = INVALID
    BY <1>3, AfterDstOffset
  <2>2. HasSrc(h) => src_addr_offset(h) = INVALID
    BY <2>1, AfterInvalid DEF src_addr_offset, src_panid_offset
  <2>3. security_offset(h) = INVALID
    BY <2>1, <2>2, AfterInvalid DEF security_offset
  <2> QED
    BY <1>1, <1>3, <2>3 DEF Agree
<1>4. CASE h.src = "reserved"
  <2>1. AddrSize(h.src) = INVALID
    BY <1>4, AddrSizes
  <2>2. security_offset(h) = INVALID
    BY <1>4, <2>1, AfterInvalid DEF security_offset, HasSrc
  <2> QED
    BY <1>1, <1>4, <2>2 DEF Agree
<1>5. CASE h.dst # "reserved" /\ h.src # "reserved"
  <2>1. /\ mhr_parse(h).dstPanid = Unless0(dst_panid_is_present(h), addressing_offset(h))
        /\ mhr_parse(h).dstAddr =
             Unless0(HasDst(h), addressing_offset(h)
                                  + Unless0(dst_panid_is_present(h), PanIdSize))
        /\ mhr_parse(h).secCtrl = Unless0(h.sec, mhr_parse(h).end)
        /\ mhr_parse(h).end = addressing_offset(h) + Unless0(dst_panid_is_present(h), PanIdSize)
             + AddrSize(h.dst) + Unless0(src_panid_is_present(h), PanIdSize) + AddrSize(h.src)
    BY DEF mhr_parse
  <2>2. sec_ctrl_offset(h) = mhr_parse(h).secCtrl
    BY <1>5, <2>1, SecurityOffset DEF sec_ctrl_offset, Unless0
  <2>3. ASSUME ~HasSrc(h), ~src_panid_is_present(h)
        PROVE  dst_addr_end_offset(h) = mhr_parse(h).end
    <3> DEFINE to == addressing_offset(h) + Unless0(dst_panid_is_present(h), PanIdSize)
    <3>1. to \in 3 .. 6 /\ AddrSize(h.dst) \in {0, 2, 8} /\ AddrSize(h.src) = 0
      BY <1>2, <1>5, <2>3, OffsetsUpToDst, ValidSizes DEF Unless0, PanIdSize, HasSrc
    <3>2. After(to, AddrSize(h.dst)) = to + AddrSize(h.dst)
      BY <3>1, AfterValid
    <3>3. mhr_parse(h).end = to + AddrSize(h.dst)
      BY <2>1, <2>3, <3>1 DEF Unless0
    <3> QED
      BY <3>2, <3>3 DEF dst_addr_end_offset, Unless0
  <2> QED
    BY <1>1, <1>5, <2>1, <2>2, <2>3, OffsetsUpToDst, SecurityOffset, Zenon DEF Agree
<1> QED
  BY <1>3, <1>4, <1>5

-----------------------------------------------------------------------------
(* AckFrame: what is where in an ack.                                      *)

FieldNames == {"fc", "seq", "panid", "dst", "aux", "csl", "vendor", "old", "phase", "metrics"}

SizeIf(present, n) == IF present THEN n ELSE 0

LEMMA FieldSeq ==
  ASSUME NEW present, NEW field \in FieldNames, NEW n \in Nat
  PROVE  /\ Field(present, field, n) \in Seq(FieldNames)
         /\ Len(Field(present, field, n)) = SizeIf(present, n)
         /\ \A i \in 1 .. SizeIf(present, n) : Field(present, field, n)[i] = field
<1>1. CASE present
  BY <1>1 DEF Field, SizeIf
<1>2. CASE ~present
  BY <1>2 DEF Field, SizeIf
<1> QED
  BY <1>1, <1>2

\* t is s and n bytes of a field behind it.
Longer(s, t, field, n) ==
  /\ t \in Seq(FieldNames)
  /\ Len(t) = Len(s) + n
  /\ \A i \in 1 .. Len(s) : t[i] = s[i]
  /\ \A i \in Len(s) + 1 .. Len(s) + n : t[i] = field

LEMMA Appended ==
  ASSUME NEW s \in Seq(FieldNames), NEW present, NEW field \in FieldNames,
         NEW n \in Nat
  PROVE  Longer(s, s \o Field(present, field, n), field, SizeIf(present, n))
<1> DEFINE f == Field(present, field, n)
           t == s \o f
<1>1. /\ f \in Seq(FieldNames) /\ Len(f) = SizeIf(present, n)
      /\ \A i \in 1 .. SizeIf(present, n) : f[i] = field
  BY FieldSeq
<1> HIDE DEF f
<1>2. t \in Seq(FieldNames) /\ Len(t) = Len(s) + Len(f)
  BY <1>1
<1>3. \A i \in 1 .. Len(s) : t[i] = s[i]
  BY <1>1
<1>4. ASSUME NEW i \in Len(s) + 1 .. Len(s) + Len(f) PROVE t[i] = field
  <2>1. i - Len(s) \in 1 .. Len(f) /\ i \in 1 .. Len(s) + Len(f) /\ i > Len(s)
    BY <1>1
  <2>2. t[i] = f[i - Len(s)]
    BY <1>1, <2>1
  <2> QED
    BY <1>1, <2>1, <2>2
<1> HIDE DEF t
<1>5. Longer(s, t, field, SizeIf(present, n))
  BY <1>1, <1>2, <1>3, <1>4 DEF Longer
<1> QED
  BY <1>5 DEF t, f

\* The headers acks have.
AckFields(fc) ==
  /\ fc \in Headers
  /\ fc.ver = 2 /\ fc.src = "none" /\ fc.dst \in {"none", "short", "extended"}
  /\ ~fc.counterSuppressed /\ ~fc.dsnSuppressed

DstSize(fc) == IF fc.dst = "none" THEN 0 ELSE IF fc.dst = "short" THEN 2 ELSE 8
PanEnd(fc) == 3 + SizeIf(~fc.compress, 2)
DstEnd(fc) == PanEnd(fc) + DstSize(fc)
HeaderEnd(fc) == DstEnd(fc) + SizeIf(fc.sec, 6)

LEMMA HeaderEnds ==
  ASSUME NEW fc, AckFields(fc)
  PROVE  /\ PanEnd(fc) \in {3, 5} /\ DstEnd(fc) \in 3 .. 13 /\ HeaderEnd(fc) \in 3 .. 19
         /\ DstSize(fc) \in {0, 2, 8} /\ SizeIf(fc.sec, 6) \in {0, 6}
         /\ PanEnd(fc) <= DstEnd(fc) /\ DstEnd(fc) <= HeaderEnd(fc)
<1>1. PanEnd(fc) \in {3, 5} /\ DstSize(fc) \in {0, 2, 8} /\ SizeIf(fc.sec, 6) \in {0, 6}
  BY DEF PanEnd, DstSize, SizeIf
<1> QED
  BY <1>1 DEF DstEnd, HeaderEnd

LEMMA HeaderBytes ==
  ASSUME NEW fc, AckFields(fc)
  PROVE  /\ MacHeader(fc) \in Seq(FieldNames)
         /\ Len(MacHeader(fc)) = HeaderEnd(fc)
         /\ \A i \in 1 .. 2 : MacHeader(fc)[i] = "fc"
         /\ MacHeader(fc)[3] = "seq"
         /\ \A i \in 4 .. PanEnd(fc) : MacHeader(fc)[i] = "panid"
         /\ \A i \in PanEnd(fc) + 1 .. DstEnd(fc) : MacHeader(fc)[i] = "dst"
         /\ \A i \in DstEnd(fc) + 1 .. HeaderEnd(fc) : MacHeader(fc)[i] = "aux"
<1> DEFINE n == IF fc.dst = "short" THEN 2 ELSE 8
           there == fc.dst # "none"
           s1 == Field(TRUE, "fc", 2)
           s2 == s1 \o Field(TRUE, "seq", 1)
           s3 == s2 \o Field(~fc.compress, "panid", 2)
           s4 == s3 \o Field(there, "dst", n)
           s5 == s4 \o Field(fc.sec, "aux", 6)
<1>1. /\ n \in Nat /\ 1 \in Nat /\ 2 \in Nat /\ 6 \in Nat
      /\ "fc" \in FieldNames /\ "seq" \in FieldNames /\ "panid" \in FieldNames
      /\ "dst" \in FieldNames /\ "aux" \in FieldNames
  BY DEF FieldNames
<1>2. SizeIf(TRUE, 1) = 1 /\ SizeIf(TRUE, 2) = 2 /\ SizeIf(there, n) = DstSize(fc)
  BY DEF SizeIf, DstSize
<1>3. MacHeader(fc) = s5
  BY DEF MacHeader
<1> HIDE DEF n, there
<1>4. s1 \in Seq(FieldNames) /\ Len(s1) = 2 /\ \A i \in 1 .. 2 : s1[i] = "fc"
  <2>1. /\ s1 \in Seq(FieldNames) /\ Len(s1) = SizeIf(TRUE, 2)
        /\ \A i \in 1 .. SizeIf(TRUE, 2) : s1[i] = "fc"
    BY <1>1, FieldSeq, Zenon
  <2> HIDE DEF s1
  <2> QED
    BY <1>2, <2>1
<1> HIDE DEF s1
<1>5. Longer(s1, s2, "seq", 1)
  BY <1>1, <1>2, <1>4, Appended, Zenon
<1>6. s2 \in Seq(FieldNames)
  BY <1>5 DEF Longer
<1> HIDE DEF s2
<1>7. Longer(s2, s3, "panid", SizeIf(~fc.compress, 2))
  BY <1>1, <1>6, Appended, Zenon
<1>8. s3 \in Seq(FieldNames)
  BY <1>7 DEF Longer
<1> HIDE DEF s3
<1>9. Longer(s3, s4, "dst", DstSize(fc))
  BY <1>1, <1>2, <1>8, Appended, Zenon
<1>10. s4 \in Seq(FieldNames)
  BY <1>9 DEF Longer
<1> HIDE DEF s4
<1>11. Longer(s4, s5, "aux", SizeIf(fc.sec, 6))
  BY <1>1, <1>10, Appended, Zenon
<1> HIDE DEF s5
<1>12. Len(s2) = 3 /\ Len(s3) = PanEnd(fc) /\ Len(s4) = DstEnd(fc)
       /\ Len(s5) = HeaderEnd(fc) /\ s5 \in Seq(FieldNames)
  BY <1>4, <1>5, <1>7, <1>9, <1>11 DEF Longer, PanEnd, DstEnd, HeaderEnd
<1>13. /\ \A i \in 1 .. 2 : s2[i] = s1[i]
       /\ s2[3] = "seq"
       /\ \A i \in 1 .. 3 : s3[i] = s2[i]
       /\ \A i \in 4 .. PanEnd(fc) : s3[i] = "panid"
  <2>1. PanEnd(fc) = 3 + SizeIf(~fc.compress, 2)
    BY DEF PanEnd
  <2> QED
    BY <1>4, <1>5, <1>7, <1>12, <2>1 DEF Longer
<1>14. /\ \A i \in 1 .. PanEnd(fc) : s4[i] = s3[i]
       /\ \A i \in PanEnd(fc) + 1 .. DstEnd(fc) : s4[i] = "dst"
       /\ \A i \in 1 .. DstEnd(fc) : s5[i] = s4[i]
       /\ \A i \in DstEnd(fc) + 1 .. HeaderEnd(fc) : s5[i] = "aux"
  BY <1>9, <1>11, <1>12 DEF Longer, DstEnd, HeaderEnd
<1> QED
  BY <1>3, <1>4, <1>12, <1>13, <1>14, HeaderEnds

\* An ack with the CSL element if c and the vendor element if v, and in them x and y.
Laid(fc, c, v, x, y) ==
  MacHeader(fc) \o Field(c, "csl", 2) \o Field(c, x, 4)
    \o Field(v, "vendor", 2) \o Field(v, y, 6)

Contents == {"old", "phase", "metrics"}

CslEnd(fc, c) == HeaderEnd(fc) + SizeIf(c, 6)
AckEnd(fc, c, v) == CslEnd(fc, c) + SizeIf(v, 8)

\* The byte at i of such an ack.
LaidAt(fc, c, v, x, y, i) ==
  IF i <= HeaderEnd(fc) THEN MacHeader(fc)[i]
  ELSE IF i <= CslEnd(fc, c) THEN IF i <= HeaderEnd(fc) + 2 THEN "csl" ELSE x
  ELSE IF i <= CslEnd(fc, c) + 2 THEN "vendor" ELSE y

\* p is such an ack.
Placed(p, fc, c, v, x, y) ==
  /\ p \in Seq(FieldNames)
  /\ Len(p) = AckEnd(fc, c, v)
  /\ \A i \in 1 .. AckEnd(fc, c, v) : p[i] = LaidAt(fc, c, v, x, y, i)

LEMMA LaidBytes ==
  ASSUME NEW fc, AckFields(fc), NEW c \in BOOLEAN, NEW v \in BOOLEAN,
         NEW x \in Contents, NEW y \in Contents
  PROVE  Placed(Laid(fc, c, v, x, y), fc, c, v, x, y)
<1> DEFINE s0 == MacHeader(fc)
           s1 == s0 \o Field(c, "csl", 2)
           s2 == s1 \o Field(c, x, 4)
           s3 == s2 \o Field(v, "vendor", 2)
           s4 == s3 \o Field(v, y, 6)
           e0 == HeaderEnd(fc)
<1>1. Laid(fc, c, v, x, y) = s4
  BY DEF Laid
<1>2. /\ s0 \in Seq(FieldNames) /\ Len(s0) = e0 /\ e0 \in 3 .. 19
      /\ "csl" \in FieldNames /\ "vendor" \in FieldNames
      /\ x \in FieldNames /\ y \in FieldNames
      /\ 2 \in Nat /\ 4 \in Nat /\ 6 \in Nat
  BY HeaderBytes, HeaderEnds DEF FieldNames, Contents
<1>3. /\ CslEnd(fc, c) = e0 + SizeIf(c, 6)
      /\ AckEnd(fc, c, v) = e0 + SizeIf(c, 6) + SizeIf(v, 8)
      /\ \A i : LaidAt(fc, c, v, x, y, i) =
           IF i <= e0 THEN s0[i]
           ELSE IF i <= e0 + SizeIf(c, 6) THEN IF i <= e0 + 2 THEN "csl" ELSE x
           ELSE IF i <= e0 + SizeIf(c, 6) + 2 THEN "vendor" ELSE y
  BY DEF CslEnd, AckEnd, LaidAt
<1> HIDE DEF s0, e0
<1>4. s1 \in Seq(FieldNames) /\ Longer(s0, s1, "csl", SizeIf(c, 2))
  <2>1. Longer(s0, s1, "csl", SizeIf(c, 2))
    BY <1>2, Appended, Zenon
  <2> QED
    BY <2>1, Zenon DEF Longer
<1> HIDE DEF s1
<1>5. s2 \in Seq(FieldNames) /\ Longer(s1, s2, x, SizeIf(c, 4))
  <2>1. Longer(s1, s2, x, SizeIf(c, 4))
    BY <1>2, <1>4, Appended, Zenon
  <2> QED
    BY <2>1, Zenon DEF Longer
<1> HIDE DEF s2
<1>6. s3 \in Seq(FieldNames) /\ Longer(s2, s3, "vendor", SizeIf(v, 2))
  <2>1. Longer(s2, s3, "vendor", SizeIf(v, 2))
    BY <1>2, <1>5, Appended, Zenon
  <2> QED
    BY <2>1, Zenon DEF Longer
<1> HIDE DEF s3
<1>7. s4 \in Seq(FieldNames) /\ Longer(s3, s4, y, SizeIf(v, 6))
  <2>1. Longer(s3, s4, y, SizeIf(v, 6))
    BY <1>2, <1>6, Appended, Zenon
  <2> QED
    BY <2>1, Zenon DEF Longer
<1> HIDE DEF s4
<1>8. /\ SizeIf(c, 2) = IF c THEN 2 ELSE 0
      /\ SizeIf(c, 4) = IF c THEN 4 ELSE 0
      /\ SizeIf(c, 6) = IF c THEN 6 ELSE 0
      /\ SizeIf(v, 2) = IF v THEN 2 ELSE 0
      /\ SizeIf(v, 6) = IF v THEN 6 ELSE 0
      /\ SizeIf(v, 8) = IF v THEN 8 ELSE 0
  BY DEF SizeIf
<1>9. /\ Len(s1) = e0 + SizeIf(c, 2) /\ Len(s2) = e0 + SizeIf(c, 6)
      /\ Len(s3) = e0 + SizeIf(c, 6) + SizeIf(v, 2) /\ Len(s4) = AckEnd(fc, c, v)
  BY <1>2, <1>3, <1>4, <1>5, <1>6, <1>7, <1>8 DEF Longer
<1>10. ASSUME NEW i \in 1 .. AckEnd(fc, c, v)
       PROVE  s4[i] = LaidAt(fc, c, v, x, y, i)
  <2>1. /\ i \in 1 .. Len(s0) => s1[i] = s0[i]
        /\ i \in Len(s0) + 1 .. Len(s0) + SizeIf(c, 2) => s1[i] = "csl"
        /\ i \in 1 .. Len(s1) => s2[i] = s1[i]
        /\ i \in Len(s1) + 1 .. Len(s1) + SizeIf(c, 4) => s2[i] = x
        /\ i \in 1 .. Len(s2) => s3[i] = s2[i]
        /\ i \in Len(s2) + 1 .. Len(s2) + SizeIf(v, 2) => s3[i] = "vendor"
        /\ i \in 1 .. Len(s3) => s4[i] = s3[i]
        /\ i \in Len(s3) + 1 .. Len(s3) + SizeIf(v, 6) => s4[i] = y
    BY <1>4, <1>5, <1>6, <1>7, Zenon DEF Longer
  <2>2. i \in Int /\ 1 <= i /\ i <= AckEnd(fc, c, v) /\ AckEnd(fc, c, v) \in Int
    BY <1>2, <1>3, <1>8
  <2>3. LaidAt(fc, c, v, x, y, i) =
          IF i <= e0 THEN s0[i]
          ELSE IF i <= e0 + SizeIf(c, 6) THEN IF i <= e0 + 2 THEN "csl" ELSE x
          ELSE IF i <= e0 + SizeIf(c, 6) + 2 THEN "vendor" ELSE y
    BY <1>3
  <2>4. CASE c /\ v
    <3>1. /\ SizeIf(c, 2) = 2 /\ SizeIf(c, 4) = 4 /\ SizeIf(c, 6) = 6
          /\ SizeIf(v, 2) = 2 /\ SizeIf(v, 6) = 6 /\ SizeIf(v, 8) = 8
      BY <2>4 DEF SizeIf
    <3>2. /\ Len(s0) = e0 /\ Len(s1) = e0 + 2 /\ Len(s2) = e0 + 6
          /\ Len(s3) = e0 + 8 /\ AckEnd(fc, c, v) = e0 + 14
      BY <1>2, <1>3, <1>9, <3>1
    <3> QED
      BY <1>2, <2>1, <2>2, <2>3, <3>1, <3>2
  <2>5. CASE c /\ ~v
    <3>1. /\ SizeIf(c, 2) = 2 /\ SizeIf(c, 4) = 4 /\ SizeIf(c, 6) = 6
          /\ SizeIf(v, 2) = 0 /\ SizeIf(v, 6) = 0 /\ SizeIf(v, 8) = 0
      BY <2>5 DEF SizeIf
    <3>2. /\ Len(s0) = e0 /\ Len(s1) = e0 + 2 /\ Len(s2) = e0 + 6
          /\ Len(s3) = e0 + 6 /\ AckEnd(fc, c, v) = e0 + 6
      BY <1>2, <1>3, <1>9, <3>1
    <3> QED
      BY <1>2, <2>1, <2>2, <2>3, <3>1, <3>2
  <2>6. CASE ~c /\ v
    <3>1. /\ SizeIf(c, 2) = 0 /\ SizeIf(c, 4) = 0 /\ SizeIf(c, 6) = 0
          /\ SizeIf(v, 2) = 2 /\ SizeIf(v, 6) = 6 /\ SizeIf(v, 8) = 8
      BY <2>6 DEF SizeIf
    <3>2. /\ Len(s0) = e0 /\ Len(s1) = e0 /\ Len(s2) = e0
          /\ Len(s3) = e0 + 2 /\ AckEnd(fc, c, v) = e0 + 8
      BY <1>2, <1>3, <1>9, <3>1
    <3> QED
      BY <1>2, <2>1, <2>2, <2>3, <3>1, <3>2
  <2>7. CASE ~c /\ ~v
    <3>1. /\ SizeIf(c, 2) = 0 /\ SizeIf(c, 4) = 0 /\ SizeIf(c, 6) = 0
          /\ SizeIf(v, 2) = 0 /\ SizeIf(v, 6) = 0 /\ SizeIf(v, 8) = 0
      BY <2>7 DEF SizeIf
    <3>2. /\ Len(s0) = e0 /\ Len(s1) = e0 /\ Len(s2) = e0
          /\ Len(s3) = e0 /\ AckEnd(fc, c, v) = e0
      BY <1>2, <1>3, <1>9, <3>1
    <3> QED
      BY <1>2, <2>1, <2>2, <2>3, <3>1, <3>2
  <2> QED
    BY <2>4, <2>5, <2>6, <2>7
<1> QED
  BY <1>1, <1>7, <1>9, <1>10 DEF Placed

\* q is p with n bytes of a field in it.
Overwritten(p, q, index, field, n) ==
  /\ q \in Seq(FieldNames)
  /\ Len(q) = Len(p)
  /\ \A i \in 1 .. Len(p) : q[i] = IF i \in index + 3 .. index + 2 + n THEN field ELSE p[i]

LEMMA FilledBytes ==
  ASSUME NEW p \in Seq(FieldNames), NEW index \in Nat, NEW field \in FieldNames, NEW n \in Nat
  PROVE  Overwritten(p, Filled(p, index, field, n), index, field, n)
<1>1. DOMAIN p = 1 .. Len(p) /\ Len(p) \in Nat /\ \A i \in 1 .. Len(p) : p[i] \in FieldNames
  BY ElementOfSeq
<1>2. Filled(p, index, field, n) =
        [i \in 1 .. Len(p) |-> IF i \in index + 3 .. index + 2 + n THEN field ELSE p[i]]
  BY <1>1 DEF Filled
<1> QED
  BY <1>1, <1>2 DEF Overwritten

\* What is written at the index of the CSL element is its content,
LEMMA PhaseFilled ==
  ASSUME NEW fc, AckFields(fc), NEW c \in BOOLEAN, c, NEW v \in BOOLEAN,
         NEW x \in Contents, NEW y \in Contents, NEW z \in Contents
  PROVE  Filled(Laid(fc, c, v, x, y), HeaderEnd(fc), z, 4) = Laid(fc, c, v, z, y)
<1> DEFINE p == Laid(fc, c, v, x, y)
           q == Laid(fc, c, v, z, y)
           e == HeaderEnd(fc)
           f == Filled(p, e, z, 4)
           to == AckEnd(fc, c, v)
<1>1. z \in FieldNames /\ e \in 3 .. 19 /\ CslEnd(fc, c) = e + 6
  BY HeaderEnds DEF Contents, FieldNames, CslEnd, SizeIf
<1>2. Placed(p, fc, c, v, x, y) /\ Placed(q, fc, c, v, z, y)
  BY LaidBytes
<1> HIDE DEF p, q
<1>3. p \in Seq(FieldNames) /\ e \in Nat /\ 4 \in Nat
  BY <1>1, <1>2 DEF Placed
<1>4. Overwritten(p, f, e, z, 4)
  <2> HIDE DEF e
  <2> QED
    BY <1>1, <1>3, FilledBytes
<1> HIDE DEF f
<1>5. /\ q \in Seq(FieldNames) /\ f \in Seq(FieldNames) /\ Len(f) = Len(q) /\ Len(f) = to
      /\ \A i \in 1 .. to : p[i] = LaidAt(fc, c, v, x, y, i)
      /\ \A i \in 1 .. to : q[i] = LaidAt(fc, c, v, z, y, i)
      /\ \A i \in 1 .. to : f[i] = IF i \in e + 3 .. e + 2 + 4 THEN z ELSE p[i]
  <2> HIDE DEF e
  <2> QED
    BY <1>2, <1>4, Zenon DEF Placed, Overwritten
<1>6. ASSUME NEW i \in 1 .. to PROVE f[i] = q[i]
  <2>1. i \in Int
    OBVIOUS
  <2>2. /\ p[i] = LaidAt(fc, c, v, x, y, i) /\ q[i] = LaidAt(fc, c, v, z, y, i)
        /\ f[i] = IF i \in e + 3 .. e + 2 + 4 THEN z ELSE p[i]
    <3> HIDE DEF e, to
    <3> QED
      BY <1>5, Zenon
  <2> HIDE DEF to
  <2> QED
    BY <1>1, <2>1, <2>2 DEF LaidAt
<1>7. f = q
  <2> HIDE DEF to
  <2> QED
    BY <1>5, <1>6, SeqEqual
<1> QED
  BY <1>7 DEF f, q, p

\* and what is written at that of the vendor element its.
LEMMA MetricsFilled ==
  ASSUME NEW fc, AckFields(fc), NEW c \in BOOLEAN, NEW v \in BOOLEAN, v,
         NEW x \in Contents, NEW y \in Contents, NEW z \in Contents
  PROVE  Filled(Laid(fc, c, v, x, y), CslEnd(fc, c), z, 6) = Laid(fc, c, v, x, z)
<1> DEFINE p == Laid(fc, c, v, x, y)
           q == Laid(fc, c, v, x, z)
           e == CslEnd(fc, c)
           f == Filled(p, e, z, 6)
           to == AckEnd(fc, c, v)
<1>1. /\ z \in FieldNames
      /\ e \in 3 .. 25 /\ HeaderEnd(fc) \in 3 .. 19 /\ HeaderEnd(fc) <= e /\ to = e + 8
  BY HeaderEnds DEF Contents, FieldNames, CslEnd, AckEnd, SizeIf
<1>2. Placed(p, fc, c, v, x, y) /\ Placed(q, fc, c, v, x, z)
  BY LaidBytes
<1> HIDE DEF p, q
<1>3. p \in Seq(FieldNames) /\ e \in Nat /\ 6 \in Nat
  <2> HIDE DEF e
  <2> QED
    BY <1>1, <1>2 DEF Placed
<1>4. Overwritten(p, f, e, z, 6)
  <2> HIDE DEF e
  <2> QED
    BY <1>1, <1>3, FilledBytes
<1> HIDE DEF f
<1>5. /\ q \in Seq(FieldNames) /\ f \in Seq(FieldNames) /\ Len(f) = Len(q) /\ Len(f) = to
      /\ \A i \in 1 .. to : p[i] = LaidAt(fc, c, v, x, y, i)
      /\ \A i \in 1 .. to : q[i] = LaidAt(fc, c, v, x, z, i)
      /\ \A i \in 1 .. to : f[i] = IF i \in e + 3 .. e + 2 + 6 THEN z ELSE p[i]
  <2> HIDE DEF e
  <2> QED
    BY <1>2, <1>4, Zenon DEF Placed, Overwritten
<1>6. ASSUME NEW i \in 1 .. to PROVE f[i] = q[i]
  <2>1. i \in Int /\ i <= e + 8
    <3> HIDE DEF e, to
    <3> QED
      BY <1>1
  <2>2. /\ p[i] = LaidAt(fc, c, v, x, y, i) /\ q[i] = LaidAt(fc, c, v, x, z, i)
        /\ f[i] = IF i \in e + 3 .. e + 2 + 6 THEN z ELSE p[i]
    <3> HIDE DEF e, to
    <3> QED
      BY <1>5, Zenon
  <2> HIDE DEF to
  <2> QED
    BY <1>1, <2>1, <2>2 DEF LaidAt
<1>7. f = q
  <2> HIDE DEF to
  <2> QED
    BY <1>5, <1>6, SeqEqual
<1> QED
  BY <1>7 DEF f, q, p

LEMMA FieldIsSeq ==
  ASSUME NEW present, NEW field \in FieldNames, NEW n \in Nat
  PROVE  Field(present, field, n) \in Seq(FieldNames)
  BY FieldSeq

LEMMA JoinedIsSeq ==
  ASSUME NEW s \in Seq(FieldNames), NEW t \in Seq(FieldNames)
  PROVE  s \o t \in Seq(FieldNames)
  OBVIOUS

LEMMA JoinedInAnyOrder ==
  ASSUME NEW s \in Seq(FieldNames), NEW t \in Seq(FieldNames), NEW u \in Seq(FieldNames)
  PROVE  (s \o t) \o u = s \o (t \o u)
  BY ConcatAssociative

\* generate_ieee_enhack_frame lays an ack out so.
LEMMA LaidOut ==
  ASSUME NEW fc, AckFields(fc)
  PROVE  MacHeader(fc) \o Ies = Laid(fc, csl, probing, "old", "old")
<1> DEFINE f1 == Field(csl, "csl", 2)
           f2 == Field(csl, "old", 4)
           f3 == Field(probing, "vendor", 2)
           f4 == Field(probing, "old", 6)
           h == MacHeader(fc)
<1>1. /\ h \in Seq(FieldNames) /\ f1 \in Seq(FieldNames) /\ f2 \in Seq(FieldNames)
      /\ f3 \in Seq(FieldNames) /\ f4 \in Seq(FieldNames)
  <2>1. /\ "csl" \in FieldNames /\ "old" \in FieldNames /\ "vendor" \in FieldNames
        /\ 2 \in Nat /\ 4 \in Nat /\ 6 \in Nat
    BY DEF FieldNames
  <2>2. h \in Seq(FieldNames)
    BY HeaderBytes
  <2> HIDE DEF h
  <2>3. f1 \in Seq(FieldNames) /\ f2 \in Seq(FieldNames)
    BY <2>1, FieldIsSeq, Zenon
  <2>4. f3 \in Seq(FieldNames) /\ f4 \in Seq(FieldNames)
    BY <2>1, FieldIsSeq, Zenon
  <2> QED
    BY <2>2, <2>3, <2>4
<1>2. Ies = ((f1 \o f2) \o f3) \o f4 /\ Laid(fc, csl, probing, "old", "old")
        = (((h \o f1) \o f2) \o f3) \o f4
  BY DEF Ies, Laid
<1> HIDE DEF f1, f2, f3, f4, h
<1> DEFINE f12 == f1 \o f2
           f123 == f12 \o f3
<1>3. f12 \in Seq(FieldNames) /\ f123 \in Seq(FieldNames)
  BY <1>1, JoinedIsSeq, Zenon
<1>4. (h \o f1) \o f2 = h \o f12
  BY <1>1, JoinedInAnyOrder, Zenon
<1>5. Ies = f123 \o f4
  BY <1>2
<1> HIDE DEF f12
<1>6. (h \o f12) \o f3 = h \o (f12 \o f3)
  <2>1. h \in Seq(FieldNames) /\ f12 \in Seq(FieldNames) /\ f3 \in Seq(FieldNames)
    BY <1>1, <1>3
  <2> QED
    BY <2>1, JoinedInAnyOrder
<1>7. f123 = f12 \o f3
  OBVIOUS
<1> HIDE DEF f123
<1>8. (h \o f123) \o f4 = h \o (f123 \o f4)
  <2>1. h \in Seq(FieldNames) /\ f123 \in Seq(FieldNames) /\ f4 \in Seq(FieldNames)
    BY <1>1, <1>3
  <2> QED
    BY <2>1, JoinedInAnyOrder
<1> QED
  BY <1>2, <1>4, <1>5, <1>6, <1>7, <1>8 DEF h

-----------------------------------------------------------------------------
(* AckFrame: every ack the system can build is laid out so.                *)

\* A pending ack has both elements or, with CSL off when its frame came, only the
\* second, which is why CSL turned on while it is pending does harm and turned off
\* does none.
Pending(c) ==
  /\ psdu = Laid(fc_ack, c, TRUE, "old", "old")
  /\ sCslIeIndex = SizeIf(c, HeaderEnd(fc_ack))
  /\ sVendorIeIndex = CslEnd(fc_ack, c)
  /\ csl /\ ~c => cslCameLate

\* A sent one has the elements its header speaks of, filled in or not.
Sent(c, v) ==
  /\ \E x \in {"old", "phase"}, y \in {"old", "metrics"} : psdu = Laid(fc_ack, c, v, x, y)
  /\ fc_ack.ie <=> c \/ v

AckInv ==
  /\ AckFields(fc_ack) /\ csl \in BOOLEAN /\ probing \in BOOLEAN
  /\ ack \in {"none", "pending", "sent"}
  /\ ack = "none" => psdu = <<>>
  /\ ack = "pending" => fc_ack.ie /\ \E c \in BOOLEAN : Pending(c)
  /\ ack = "sent" /\ ~cslCameLate => \E c, v \in BOOLEAN : Sent(c, v)

LEMMA AckHeaderFields ==
  ASSUME NEW ie \in BOOLEAN, NEW fc \in AckHeaders(ie)
  PROVE  AckFields(fc) /\ fc.ie = ie
<1> PICK h \in Headers : h.src # "reserved" /\ fc = AckHeader(h, ie)
  BY DEF AckHeaders
<1>1. /\ h.dst \in AddrModes /\ h.src \in {"none", "short", "extended"}
      /\ h.compress \in BOOLEAN /\ h.sec \in BOOLEAN /\ h.keyMode \in 0 .. 3
      /\ ~h.sec => h.keyMode = 0
  BY DEF Headers, AddrModes
<1> QED
  BY <1>1 DEF AckHeader, AckFields, Headers, AddrModes

LEMMA AckInvInit == AckInit => AckInv
<1> SUFFICES ASSUME AckInit PROVE AckInv
  OBVIOUS
<1>1. AckFields(fc_ack)
  <2>1. FALSE \in BOOLEAN /\ fc_ack \in AckHeaders(FALSE)
    BY DEF AckInit
  <2> QED
    BY <2>1, AckHeaderFields
<1> QED
  BY <1>1 DEF AckInit, AckInv

\* BEE_tx_ack_started, of an ack with a vendor element.
LEMMA PendingFilled ==
  ASSUME NEW fc, AckFields(fc), NEW c \in BOOLEAN, csl => c,
         NEW cslIndex, c => cslIndex = HeaderEnd(fc),
         BEE_tx_ack_started(Laid(fc, c, TRUE, "old", "old"), cslIndex, CslEnd(fc, c))
  PROVE  \E x \in {"old", "phase"}, y \in {"old", "metrics"} : psdu' = Laid(fc, c, TRUE, x, y)
<1>1. PICK v \in BOOLEAN : v = TRUE
  OBVIOUS
<1>2. PICK x \in {"old", "phase"} :
        CslFilled(Laid(fc, c, v, "old", "old"), cslIndex) = Laid(fc, c, v, x, "old")
  <2>1. CASE csl
    <3>1. Filled(Laid(fc, c, v, "old", "old"), HeaderEnd(fc), "phase", 4)
            = Laid(fc, c, v, "phase", "old")
      BY <1>1, <2>1, PhaseFilled DEF Contents
    <3> QED
      BY <2>1, <3>1 DEF CslFilled
  <2>2. CASE ~csl
    BY <2>2 DEF CslFilled
  <2> QED
    BY <2>1, <2>2
<1>3. x \in Contents
  BY DEF Contents
<1>4. Filled(Laid(fc, c, v, x, "old"), CslEnd(fc, c), "metrics", 6)
        = Laid(fc, c, v, x, "metrics")
  BY <1>1, <1>3, MetricsFilled DEF Contents
<1> QED
  BY <1>1, <1>2, <1>4 DEF BEE_tx_ack_started

LEMMA AckInvNext == AckInv /\ [AckNext]_ackVars => AckInv'
<1> SUFFICES ASSUME AckInv, [AckNext]_ackVars PROVE AckInv'
  OBVIOUS
<1> USE DEF settings, buffer
<1>1. ASSUME NEW fc \in AckHeaders(IePresent), rxely_handler(fc)
      PROVE  AckInv'
  <2>1. /\ AckFields(fc) /\ (fc.ie <=> csl \/ probing)
        /\ csl \in BOOLEAN /\ probing \in BOOLEAN
    BY AckHeaderFields DEF AckInv, IePresent
  <2>2. /\ MacHeader(fc) \o Ies = Laid(fc, csl, probing, "old", "old")
        /\ Len(MacHeader(fc)) = HeaderEnd(fc) /\ HeaderEnd(fc) \in 3 .. 19
    BY <2>1, LaidOut, HeaderBytes, HeaderEnds
  <2>3. /\ fc_ack' = fc /\ UNCHANGED <<csl, probing>> /\ ~cslCameLate'
        /\ sCslIeIndex' = CslIndex(HeaderEnd(fc)) /\ sVendorIeIndex' = VendorIndex(HeaderEnd(fc))
    BY <1>1, <2>2 DEF rxely_handler
  <2>4. CASE probing /\ ack' = "pending" /\ psdu' = MacHeader(fc) \o Ies
    <3>1. Pending(csl)'
      BY <2>1, <2>2, <2>3, <2>4 DEF Pending, CslIndex, VendorIndex, SizeIf, CslEnd
    <3> QED
      BY <2>1, <2>3, <2>4, <3>1 DEF AckInv
  <2>5. CASE /\ ~probing /\ ack' = "sent"
             /\ BEE_tx_ack_started(MacHeader(fc) \o Ies, sCslIeIndex', sVendorIeIndex')
    <3>1. psdu' = CslFilled(Laid(fc, csl, probing, "old", "old"), CslIndex(HeaderEnd(fc)))
      BY <2>2, <2>3, <2>5 DEF BEE_tx_ack_started
    <3>2. \E x \in {"old", "phase"} : psdu' = Laid(fc, csl, probing, x, "old")
      <4>1. CASE csl
        <5>1. Filled(Laid(fc, csl, probing, "old", "old"), HeaderEnd(fc), "phase", 4)
                = Laid(fc, csl, probing, "phase", "old")
          BY <2>1, <4>1, PhaseFilled DEF Contents
        <5> QED
          BY <3>1, <4>1, <5>1 DEF CslFilled, CslIndex
      <4>2. CASE ~csl
        BY <3>1, <4>2 DEF CslFilled
      <4> QED
        BY <4>1, <4>2
    <3>3. Sent(csl, probing)'
      BY <2>1, <2>3, <3>2 DEF Sent
    <3> QED
      BY <2>1, <2>3, <2>5, <3>3 DEF AckInv
  <2> QED
    BY <1>1, <2>4, <2>5 DEF rxely_handler
<1>2. ASSUME rxdone_handler
      PROVE  AckInv'
  <2>1. /\ ack = "pending" /\ ack' = "sent" /\ UNCHANGED <<csl, probing, fc_ack, cslCameLate>>
        /\ BEE_tx_ack_started(psdu, sCslIeIndex, sVendorIeIndex)
    BY <1>2 DEF rxdone_handler
  <2>2. fc_ack.ie /\ \E c \in BOOLEAN : Pending(c)
    BY <2>1 DEF AckInv
  <2>3. PICK c \in BOOLEAN : Pending(c)
    BY <2>2
  <2>4. AckFields(fc_ack) /\ csl \in BOOLEAN /\ probing \in BOOLEAN
    BY DEF AckInv
  <2>5. ASSUME ~cslCameLate PROVE Sent(c, TRUE)'
    <3>1. /\ csl => c
          /\ c => sCslIeIndex = HeaderEnd(fc_ack)
          /\ BEE_tx_ack_started(Laid(fc_ack, c, TRUE, "old", "old"), sCslIeIndex,
                                CslEnd(fc_ack, c))
      BY <2>1, <2>3, <2>5 DEF Pending, SizeIf
    <3>2. \E x \in {"old", "phase"}, y \in {"old", "metrics"} :
            psdu' = Laid(fc_ack, c, TRUE, x, y)
      BY <2>4, <3>1, PendingFilled
    <3> QED
      BY <2>1, <2>2, <3>2 DEF Sent
  <2> QED
    BY <2>1, <2>4, <2>5 DEF AckInv
<1>3. CASE mac_report_enhack_transmit_done
  BY <1>3 DEF AckInv, mac_report_enhack_transmit_done
<1>4. CASE otPlatRadioEnableCsl
  <2>1. /\ UNCHANGED <<probing, fc_ack, psdu, sCslIeIndex, sVendorIeIndex, ack>>
        /\ csl' \in BOOLEAN
        /\ cslCameLate' = (cslCameLate \/ (ack = "pending" /\ csl' /\ sCslIeIndex = 0))
    BY <1>4 DEF otPlatRadioEnableCsl
  <2>2. ASSUME NEW c \in BOOLEAN, Pending(c), ack = "pending" PROVE Pending(c)'
    <3>1. SizeIf(c, HeaderEnd(fc_ack)) = 0 <=> ~c
      BY HeaderEnds DEF AckInv, SizeIf
    <3> QED
      BY <2>1, <2>2, <3>1 DEF Pending
  <2>3. ASSUME NEW c \in BOOLEAN, NEW v \in BOOLEAN, Sent(c, v) PROVE Sent(c, v)'
    BY <2>1, <2>3 DEF Sent
  <2> QED
    BY <2>1, <2>2, <2>3 DEF AckInv
<1>5. CASE otPlatRadioConfigureEnhAckProbing
  <2>1. /\ UNCHANGED <<csl, fc_ack, psdu, sCslIeIndex, sVendorIeIndex, ack, cslCameLate>>
        /\ probing' \in BOOLEAN
    BY <1>5 DEF otPlatRadioConfigureEnhAckProbing
  <2> QED
    BY <2>1 DEF AckInv, Pending, Sent
<1>6. CASE UNCHANGED ackVars
  BY <1>6 DEF AckInv, Pending, Sent, ackVars
<1> QED
  BY <1>1, <1>2, <1>3, <1>4, <1>5, <1>6 DEF AckNext

-----------------------------------------------------------------------------
(* AckFrame: the parser understands what is laid out so.                   *)

\* The parser finds the fields of such a header where it ends them.
LEMMA AckOffsets ==
  ASSUME NEW fc, AckFields(fc), fc.dst # "none"
  PROVE  /\ dst_panid_is_present(fc) => dst_panid_offset(fc) = 4 /\ PanEnd(fc) = 5
         /\ dst_addr_offset(fc) = PanEnd(fc) + 1 /\ AddrSize(fc.dst) = DstSize(fc)
         /\ fc.sec => sec_ctrl_offset(fc) = DstEnd(fc) + 1
         /\ (fc.sec => fc.keyMode = 1) => ie_offset(fc) = HeaderEnd(fc) + 1
<1>1. /\ fc \in Headers /\ fc.ver = 2 /\ fc.src = "none" /\ fc.dst \in {"short", "extended"}
      /\ ~fc.counterSuppressed /\ ~fc.dsnSuppressed
  BY DEF AckFields
<1>2. HasDst(fc) /\ ~HasSrc(fc) /\ ~BothExtended(fc)
  BY <1>1 DEF HasDst, HasSrc, BothExtended
<1>3. dst_panid_is_present(fc) <=> ~fc.compress
  BY <1>1, <1>2 DEF dst_panid_is_present
<1>4. addressing_offset(fc) = 4
  BY <1>1 DEF addressing_offset
<1>5. PanEnd(fc) = 3 + Unless0(dst_panid_is_present(fc), PanIdSize)
  BY <1>3 DEF PanEnd, SizeIf, Unless0, PanIdSize
<1>6. AddrSize(fc.dst) = DstSize(fc) /\ DstSize(fc) \in {2, 8}
  BY <1>1, AddrSizes DEF DstSize
<1>7. /\ dst_panid_offset(fc) = Unless0(dst_panid_is_present(fc), 4)
      /\ dst_addr_offset(fc) = PanEnd(fc) + 1
  <2>1. PanIdSize \in Nat
    BY DEF PanIdSize
  <2> QED
    BY <1>1, <1>2, <1>4, <1>5, <2>1, OffsetsUpToDst DEF Unless0
<1>8. AfterDst(fc) = DstEnd(fc) + 1
  <2>1. PanIdSize \in Nat
    BY DEF PanIdSize
  <2> QED
    BY <1>1, <1>4, <1>5, <1>6, <2>1, AfterDstOffset DEF DstEnd, Unless0
<1>9. security_offset(fc) = DstEnd(fc) + 1
  BY <1>2, <1>8 DEF security_offset
<1>10. DstEnd(fc) \in 3 .. 13
  BY HeaderEnds
<1>11. ASSUME fc.sec, fc.keyMode = 1 PROVE ie_offset(fc) = HeaderEnd(fc) + 1
  <2>1. sec_ctrl_offset(fc) = DstEnd(fc) + 1
    BY <1>9, <1>11 DEF sec_ctrl_offset
  <2>2. key_id_offset(fc) = DstEnd(fc) + 6
    BY <1>1, <1>10, <1>11, <2>1 DEF key_id_offset, After, INVALID
  <2>3. key_id_size(fc) = 1
    BY <1>11 DEF key_id_size
  <2>4. HeaderEnd(fc) = DstEnd(fc) + 6
    BY <1>11 DEF HeaderEnd, SizeIf
  <2> QED
    BY <1>10, <1>11, <2>2, <2>3, <2>4 DEF ie_offset, After, INVALID
<1>12. ASSUME ~fc.sec PROVE ie_offset(fc) = HeaderEnd(fc) + 1
  <2>1. HeaderEnd(fc) = DstEnd(fc)
    BY <1>10, <1>12 DEF HeaderEnd, SizeIf
  <2> QED
    BY <1>9, <1>12, <2>1 DEF ie_offset
<1> QED
  BY <1>3, <1>5, <1>6, <1>7, <1>9, <1>11, <1>12 DEF sec_ctrl_offset, Unless0, PanIdSize

\* The bytes of such an ack, one field after the other.
LEMMA AckBytes ==
  ASSUME AckFields(fc_ack), NEW c \in BOOLEAN, NEW v \in BOOLEAN,
         NEW x \in Contents, NEW y \in Contents, psdu = Laid(fc_ack, c, v, x, y)
  PROVE  /\ DOMAIN psdu = 1 .. AckEnd(fc_ack, c, v) /\ Len(psdu) = AckEnd(fc_ack, c, v)
         /\ HeaderEnd(fc_ack) <= AckEnd(fc_ack, c, v)
         /\ \A i \in 1 .. HeaderEnd(fc_ack) : psdu[i] = MacHeader(fc_ack)[i]
         /\ \A i \in 1 .. HeaderEnd(fc_ack) : psdu[i] \notin {"phase", "metrics"}
         /\ c => At(HeaderEnd(fc_ack) + 1, "csl", 2)
         /\ v => At(CslEnd(fc_ack, c) + 1, "vendor", 2)
<1> DEFINE fc == fc_ack
           e == HeaderEnd(fc)
           to == AckEnd(fc, c, v)
<1>1. /\ psdu \in Seq(FieldNames) /\ Len(psdu) = to
      /\ \A i \in 1 .. to : psdu[i] = LaidAt(fc, c, v, x, y, i)
  <2>1. Placed(psdu, fc, c, v, x, y)
    BY LaidBytes
  <2> QED
    BY <2>1 DEF Placed
<1>2. /\ e \in 3 .. 19 /\ PanEnd(fc) \in {3, 5} /\ DstEnd(fc) \in 3 .. 13
      /\ CslEnd(fc, c) = (IF c THEN e + 6 ELSE e)
      /\ to = (IF v THEN CslEnd(fc, c) + 8 ELSE CslEnd(fc, c))
  BY HeaderEnds DEF CslEnd, AckEnd, SizeIf
<1>3. DOMAIN psdu = 1 .. to
  BY <1>1
<1>4. e <= to /\ to \in Nat /\ CslEnd(fc, c) \in Nat /\ e <= CslEnd(fc, c)
  <2> HIDE DEF e, to
  <2> QED
    BY <1>2
<1>5. ASSUME NEW i \in 1 .. e PROVE psdu[i] = MacHeader(fc)[i]
  <2>1. i \in 1 .. to /\ i <= e
    <3> HIDE DEF e, to
    <3> QED
      BY <1>2, <1>4
  <2>2. psdu[i] = LaidAt(fc, c, v, x, y, i)
    BY <1>1, <2>1, Zenon
  <2> QED
    BY <2>1, <2>2 DEF LaidAt
<1>6. ASSUME NEW i \in 1 .. e PROVE MacHeader(fc)[i] \notin {"phase", "metrics"}
  <2>1. i \in 1 .. 2 \/ i = 3 \/ i \in 4 .. PanEnd(fc) \/ i \in PanEnd(fc) + 1 .. DstEnd(fc)
          \/ i \in DstEnd(fc) + 1 .. HeaderEnd(fc)
    BY <1>2
  <2>2. MacHeader(fc)[i] \in {"fc", "seq", "panid", "dst", "aux"}
    BY <2>1, HeaderBytes
  <2> QED
    BY <2>2
<1>7. ASSUME c PROVE At(e + 1, "csl", 2)
  <2>1. CslEnd(fc, c) = e + 6
    BY <1>2, <1>7
  <2> HIDE DEF to
  <2>2. ASSUME NEW i \in e + 1 .. e + 1 + 2 - 1 PROVE i \in DOMAIN psdu /\ psdu[i] = "csl"
    <3>1. i \in 1 .. to /\ ~(i <= e) /\ i <= e + 2 /\ i <= CslEnd(fc, c)
      BY <1>2, <1>4, <2>1
    <3>2. psdu[i] = LaidAt(fc, c, v, x, y, i)
      BY <1>1, <3>1, Zenon
    <3> QED
      BY <1>3, <3>1, <3>2 DEF LaidAt
  <2> QED
    BY <2>2 DEF At
<1>8. ASSUME v PROVE At(CslEnd(fc, c) + 1, "vendor", 2)
  <2>1. to = CslEnd(fc, c) + 8
    BY <1>2, <1>8
  <2> DEFINE f == CslEnd(fc, c)
  <2> HIDE DEF to
  <2>2. ASSUME NEW i \in f + 1 .. f + 1 + 2 - 1 PROVE i \in DOMAIN psdu /\ psdu[i] = "vendor"
    <3>1. i \in 1 .. to /\ ~(i <= e) /\ ~(i <= f) /\ i <= f + 2
      <4> HIDE DEF e, f
      <4> QED
        BY <1>2, <1>4, <2>1 DEF f
    <3> QED
      BY <1>1, <1>3, <3>1 DEF LaidAt
  <2> QED
    BY <2>2 DEF At
<1> QED
  BY <1>1, <1>3, <1>4, <1>5, <1>6, <1>7, <1>8

LEMMA FieldsAreFound ==
  ASSUME AckFields(fc_ack), fc_ack.dst # "none", NEW c \in BOOLEAN, NEW v \in BOOLEAN,
         NEW x \in Contents, NEW y \in Contents, psdu = Laid(fc_ack, c, v, x, y)
  PROVE  FieldsFound
<1> DEFINE fc == fc_ack
           e == HeaderEnd(fc)
<1>1. /\ \A i \in 1 .. e : i \in DOMAIN psdu /\ psdu[i] = MacHeader(fc)[i]
  BY AckBytes, HeaderEnds DEF AckEnd, CslEnd, SizeIf
<1>2. /\ PanEnd(fc) \in {3, 5} /\ DstEnd(fc) \in 3 .. 13 /\ e \in 3 .. 19
      /\ PanEnd(fc) <= DstEnd(fc) /\ DstEnd(fc) <= e
      /\ DstEnd(fc) = PanEnd(fc) + DstSize(fc) /\ DstSize(fc) \in {0, 2, 8}
      /\ fc.sec => e = DstEnd(fc) + 6
  BY HeaderEnds DEF DstEnd, HeaderEnd, SizeIf
<1>3. /\ \A i \in 1 .. 2 : MacHeader(fc)[i] = "fc"
      /\ MacHeader(fc)[3] = "seq"
      /\ \A i \in 4 .. PanEnd(fc) : MacHeader(fc)[i] = "panid"
      /\ \A i \in PanEnd(fc) + 1 .. DstEnd(fc) : MacHeader(fc)[i] = "dst"
      /\ \A i \in DstEnd(fc) + 1 .. e : MacHeader(fc)[i] = "aux"
  BY HeaderBytes
<1>4. /\ dst_panid_is_present(fc) => dst_panid_offset(fc) = 4 /\ PanEnd(fc) = 5
      /\ dst_addr_offset(fc) = PanEnd(fc) + 1 /\ AddrSize(fc.dst) = DstSize(fc)
      /\ fc.sec => sec_ctrl_offset(fc) = DstEnd(fc) + 1
  BY AckOffsets
<1> HIDE DEF e
<1>5. At(1, "fc", 2) /\ At(3, "seq", 1)
  BY <1>1, <1>2, <1>3 DEF At
<1>6. ASSUME dst_panid_is_present(fc) PROVE At(dst_panid_offset(fc), "panid", 2)
  BY <1>1, <1>2, <1>3, <1>4, <1>6 DEF At
<1>7. At(dst_addr_offset(fc), "dst", AddrSize(fc.dst))
  BY <1>1, <1>2, <1>3, <1>4 DEF At
<1>8. ASSUME fc.sec PROVE At(sec_ctrl_offset(fc), "aux", 6)
  BY <1>1, <1>2, <1>3, <1>4, <1>8 DEF At
<1> QED
  BY <1>5, <1>6, <1>7, <1>8 DEF FieldsFound

LEMMA IesAreFound ==
  ASSUME AckFields(fc_ack), fc_ack.dst # "none", fc_ack.sec => fc_ack.keyMode = 1,
         NEW c \in BOOLEAN, NEW v \in BOOLEAN, fc_ack.ie <=> c \/ v,
         NEW x \in Contents, NEW y \in Contents, psdu = Laid(fc_ack, c, v, x, y)
  PROVE  IesFound
<1> DEFINE e == HeaderEnd(fc_ack)
<1>1. ie_offset(fc_ack) = e + 1 /\ e \in 3 .. 19
  BY AckOffsets, HeaderEnds
<1>2. /\ Len(psdu) = AckEnd(fc_ack, c, v)
      /\ c => At(e + 1, "csl", 2)
      /\ v => At(CslEnd(fc_ack, c) + 1, "vendor", 2)
  BY AckBytes
<1>3. /\ ~c => CslEnd(fc_ack, c) = e
      /\ ~c /\ ~v => AckEnd(fc_ack, c, v) = e
  BY <1>1 DEF CslEnd, AckEnd, SizeIf
<1> HIDE DEF e
<1>4. CASE fc_ack.ie
  BY <1>1, <1>2, <1>3, <1>4 DEF IesFound, ie_header_offset
<1>5. CASE ~fc_ack.ie
  BY <1>1, <1>2, <1>3, <1>5 DEF IesFound
<1> QED
  BY <1>4, <1>5

LEMMA AllFilledInPlace ==
  ASSUME AckFields(fc_ack), NEW c \in BOOLEAN, NEW v \in BOOLEAN,
         NEW x \in {"old", "phase"}, NEW y \in {"old", "metrics"},
         psdu = Laid(fc_ack, c, v, x, y)
  PROVE  FilledInPlace
<1> DEFINE e == HeaderEnd(fc_ack)
           f == CslEnd(fc_ack, c)
           to == AckEnd(fc_ack, c, v)
<1>1. x \in Contents /\ y \in Contents
  BY DEF Contents
<1>2. /\ DOMAIN psdu = 1 .. to
      /\ \A i \in 1 .. e : psdu[i] \notin {"phase", "metrics"}
      /\ c => At(e + 1, "csl", 2)
      /\ v => At(f + 1, "vendor", 2)
  BY <1>1, AckBytes
<1>3. \A i \in 1 .. to : psdu[i] = LaidAt(fc_ack, c, v, x, y, i)
  BY <1>1, LaidBytes DEF Placed
<1>4. e \in 3 .. 19 /\ f = (IF c THEN e + 6 ELSE e) /\ to = (IF v THEN f + 8 ELSE f)
  BY HeaderEnds DEF CslEnd, AckEnd, SizeIf
<1>5. ASSUME NEW i \in DOMAIN psdu, psdu[i] = "phase"
      PROVE  c /\ e + 1 \in i - 5 .. i - 2
  <2>1. i \in 1 .. to /\ ~(i <= e)
    <3> HIDE DEF e, to
    <3> QED
      BY <1>2, <1>4, <1>5
  <2>2. LaidAt(fc_ack, c, v, x, y, i) = "phase"
    BY <1>3, <1>5, <2>1, Zenon
  <2>3. i <= f /\ ~(i <= e + 2)
    BY <2>1, <2>2 DEF LaidAt
  <2> HIDE DEF e, f, to
  <2> QED
    BY <1>4, <2>1, <2>3
<1>6. ASSUME NEW i \in DOMAIN psdu, psdu[i] = "metrics"
      PROVE  v /\ f + 1 \in i - 7 .. i - 2
  <2>1. i \in 1 .. to /\ ~(i <= e)
    <3> HIDE DEF e, to
    <3> QED
      BY <1>2, <1>4, <1>6
  <2>2. LaidAt(fc_ack, c, v, x, y, i) = "metrics"
    BY <1>3, <1>6, <2>1, Zenon
  <2>3. ~(i <= f) /\ ~(i <= f + 2)
    BY <2>1, <2>2 DEF LaidAt
  <2> HIDE DEF e, f, to
  <2> QED
    BY <1>4, <2>1, <2>3
<1> HIDE DEF e, f, to
<1> QED
  BY <1>2, <1>5, <1>6 DEF FilledInPlace

\* AckFrame.ParsersAgree, of which every ack gives an instance for each header.
LEMMA InvParsersAgree == AckInv => ParsersAgree
<1> SUFFICES ASSUME AckInv,
                    NEW w \in 0 .. 3, NEW src \in AddrModes, NEW noDsn \in BOOLEAN,
                    NEW dst \in {fc_ack.dst, "reserved"}
             PROVE  Agree([fc_ack EXCEPT !.ver = w, !.src = src, !.dsnSuppressed = noDsn,
                                         !.dst = dst])
  BY Zenon DEF ParsersAgree, Agree
<1>1. fc_ack \in Headers
  BY DEF AckInv, AckFields
<1>2. dst \in AddrModes
  BY <1>1 DEF Headers, AddrModes
<1> DEFINE h == [fc_ack EXCEPT !.ver = w, !.src = src, !.dsnSuppressed = noDsn, !.dst = dst]
<1>3. h \in Headers
  BY <1>1, <1>2 DEF Headers
<1> QED
  BY <1>3, ParsersAgreeOn

LEMMA InvAckParses == AckInv => AckParses
<1> SUFFICES ASSUME AckInv, ~cslCameLate
             PROVE  /\ FilledInPlace
                    /\ ack = "sent" /\ fc_ack.dst # "none" =>
                         /\ FieldsFound
                         /\ (fc_ack.sec => fc_ack.keyMode = 1) => IesFound
  BY DEF AckParses
<1>1. AckFields(fc_ack)
  BY DEF AckInv
<1>2. CASE ack = "none"
  BY <1>2 DEF AckInv, FilledInPlace
<1>3. CASE ack = "pending"
  <2>1. PICK c \in BOOLEAN : psdu = Laid(fc_ack, c, TRUE, "old", "old")
    BY <1>3 DEF AckInv, Pending
  <2>2. PICK v \in BOOLEAN : v = TRUE
    OBVIOUS
  <2>3. psdu = Laid(fc_ack, c, v, "old", "old")
    BY <2>1, <2>2
  <2>4. FilledInPlace
    BY <1>1, <2>3, AllFilledInPlace
  <2> QED
    BY <1>3, <2>4
<1>4. CASE ack = "sent"
  <2>1. PICK c \in BOOLEAN, v \in BOOLEAN : Sent(c, v)
    BY <1>4 DEF AckInv
  <2>2. PICK x \in {"old", "phase"}, y \in {"old", "metrics"} : psdu = Laid(fc_ack, c, v, x, y)
    BY <2>1 DEF Sent
  <2>3. x \in Contents /\ y \in Contents /\ (fc_ack.ie <=> c \/ v)
    BY <2>1 DEF Contents, Sent
  <2>4. FilledInPlace
    BY <1>1, <2>2, AllFilledInPlace
  <2>5. ASSUME fc_ack.dst # "none" PROVE FieldsFound
    BY <1>1, <2>2, <2>3, <2>5, FieldsAreFound
  <2>6. ASSUME fc_ack.dst # "none", fc_ack.sec => fc_ack.keyMode = 1 PROVE IesFound
    BY <1>1, <2>2, <2>3, <2>6, IesAreFound
  <2> QED
    BY <2>4, <2>5, <2>6
<1> QED
  BY <1>2, <1>3, <1>4 DEF AckInv

LEMMA AckInvariant == AckSpec => []AckInv
  BY AckInvInit, AckInvNext, PTL DEF AckSpec

\* radio.c, mac_802154_frame_parser.c: whatever header an ack is made of, both parsers
\* see the same fields in it and in every variant of it.
THEOREM ParsersAlike == AckSpec => []ParsersAgree
  BY AckInvariant, InvParsersAgree, PTL

\* radio.c: unless CSL is turned on while an ack is pending, what is filled in lands in
\* the element it belongs to and the parser finds every field of the ack that is sent.
THEOREM AckUnderstandable == AckSpec => []AckParses
  BY AckInvariant, InvAckParses, PTL
=============================================================================
