------------------------------- MODULE MacKeys -------------------------------
(***************************************************************************)
(* The MAC keys of radio.c and everything that is secured with them.       *)
(* BEE_RadioTxStart secures data frames in the Thread task, with           *)
(* interrupts enabled; txAckProcessSecurity secures enhanced acks in an    *)
(* interrupt: the one that wrote the ack's header, or with enhanced-ack    *)
(* probing a later one.  Both take counters from sMacFrameCounter and give *)
(* nonce and key to registers of the MAC, which has one for the nonce.     *)
(*                                                                         *)
(* A key is named by the key sequence it was derived from; OpenThread      *)
(* derives the key id from the sequence as well, modulo the 128 ids.       *)
(***************************************************************************)
EXTENDS Integers

CONSTANTS
  KeyIdRange,    \* number of key ids, 128 in the code
  Sequences,     \* the key sequences in use
  CounterBound   \* bound on sMacFrameCounter

ASSUME MacKeysAssumption ==
  /\ KeyIdRange \in Nat /\ KeyIdRange > 2
  /\ Sequences \subseteq Int /\ Sequences # {}
  /\ CounterBound \in Nat

KeyIdOf(seq) == (seq % KeyIdRange) + 1

VARIABLES
  sKeyId, sPrevKey, sCurrKey, sNextKey,
  sMacFrameCounter,
  step,         \* the task: "idle", "count", "load", "trigger", "tried"
  frame,      \* sTransmitFrame
  nonce,      \* the counter in the MAC's nonce register
  txKey,      \* the key given by mac_LoadTxNKey
  overtaken,  \* was an ack's nonce loaded since the task's?
  ackKey,     \* the key given by mac_LoadTxEnhAckKey
  sent,       \* the last enhanced ack
  held,       \* is an ack held back until the end of its frame?
  header,     \* the header of that ack
  used,       \* history: the nonces used since the counter was last set
  excused,    \* history: those that an exception to CounterUsedOnce has used
  repeated    \* history: was any other nonce used for two frames?

macKeys == <<sKeyId, sPrevKey, sCurrKey, sNextKey>>
keysTask == <<step, frame>>
mac == <<nonce, txKey, overtaken, ackKey, sent>>
heldAck == <<held, header>>
nonces == <<used, excused, repeated>>
keysVars == <<macKeys, sMacFrameCounter, keysTask, mac, heldAck, nonces>>

Counters == 0 .. CounterBound

\* counter is what the task has loaded until the frame is marked as secured.
\* switched: the keys were set since keyId was written; stale: the counter was set
\* since this one was taken; tried: it was sent with its counter before.
Frame ==
  [keyId : Nat, counter : Counters, switched : BOOLEAN, stale : BOOLEAN, tried : BOOLEAN]

NoFrame ==
  [keyId |-> 0, counter |-> 0, switched |-> FALSE, stale |-> FALSE, tried |-> FALSE]

\* seq is the sequence that the neighbour uses; counter is in the header of the ack.
\* moved: the task wrote sMacFrameCounter since.
HeaderOfAck == [seq : Int, counter : Counters, moved : BOOLEAN]

\* near: the neighbour uses a sequence near the radio's; ownKey: the ack is secured
\* with the neighbour's key; ownNonce: with the counter of its header.
Ack == [near : BOOLEAN, ownKey : BOOLEAN, ownNonce : BOOLEAN, moved : BOOLEAN]

NoHeader == [seq |-> 0, counter |-> 0, moved |-> FALSE]

KeysInit ==
  /\ \E seq \in Sequences :
       /\ sKeyId = KeyIdOf(seq)
       /\ sPrevKey = seq - 1
       /\ sCurrKey = seq
       /\ sNextKey = seq + 1
       /\ txKey = seq
       /\ ackKey = seq
  /\ sMacFrameCounter = 0
  /\ step = "idle"
  /\ frame = NoFrame
  /\ nonce = 0
  /\ overtaken = FALSE
  /\ sent = [near |-> TRUE, ownKey |-> TRUE, ownNonce |-> TRUE, moved |-> FALSE]
  /\ held = FALSE
  /\ header = NoHeader
  /\ used = {}
  /\ excused = {}
  /\ repeated = FALSE

\* A frame is encrypted with nonce n: again the same frame, or one that CounterUsedOnce
\* excepts?
Uses(n, again, excepted) ==
  /\ used' = used \cup {n}
  /\ excused' = IF excepted THEN excused \cup {n} ELSE excused
  /\ repeated' = (repeated \/ (n \in used \ excused' /\ ~again))

\* The task writes sMacFrameCounter.
CounterWritten(c) ==
  /\ sMacFrameCounter' = c
  /\ header' = [header EXCEPT !.moved = held]
  /\ UNCHANGED held

-----------------------------------------------------------------------------
(* The task.                                                               *)

\* BEE_RadioTxStart on a frame that is not yet secured: the key id is written
\* and the counter loaded.
SetKeyId ==
  /\ step = "idle"
  /\ sMacFrameCounter < CounterBound
  /\ frame' = [NoFrame EXCEPT !.keyId = sKeyId, !.counter = sMacFrameCounter]
  /\ step' = "count"
  /\ UNCHANGED <<macKeys, sMacFrameCounter, mac, heldAck, nonces>>

\* The other half of sMacFrameCounter++; the frame is marked as secured.
SetFrameCounter ==
  /\ step = "count"
  /\ CounterWritten(frame.counter + 1)
  /\ step' = "load"
  /\ UNCHANGED <<macKeys, frame, mac, nonces>>

\* Bug to catch: the nonce is made of the counter of the next frame.
NonceOfNext ==
  /\ step = "load"
  /\ nonce' = sMacFrameCounter
  /\ txKey' = sCurrKey
  /\ overtaken' = FALSE
  /\ step' = "trigger"
  /\ UNCHANGED <<macKeys, sMacFrameCounter, frame, ackKey, sent, heldAck, nonces>>

\* Whatever key id the frame has by now, the key is the current one.
txProcessSecurity ==
  /\ step = "load"
  /\ nonce' = frame.counter
  /\ txKey' = sCurrKey
  /\ overtaken' = FALSE
  /\ step' = "trigger"
  /\ UNCHANGED <<macKeys, sMacFrameCounter, frame, ackKey, sent, heldAck, nonces>>

\* mac_TrigUpperEnc, and the attempt.
TrigUpperEnc ==
  /\ step = "trigger"
  /\ Uses(nonce, frame.tried /\ ~overtaken, overtaken \/ frame.stale)
  /\ frame' = [frame EXCEPT !.tried = @ \/ ~overtaken]
  /\ step' = "tried"
  /\ UNCHANGED <<macKeys, sMacFrameCounter, mac, heldAck>>

\* A retry finds mIsSecurityProcessed set.
Retry ==
  /\ step = "tried"
  /\ step' = "load"
  /\ UNCHANGED <<macKeys, sMacFrameCounter, frame, mac, heldAck, nonces>>

TxDone ==
  /\ step = "tried"
  /\ step' = "idle"
  /\ frame' = NoFrame
  /\ UNCHANGED <<macKeys, sMacFrameCounter, mac, heldAck, nonces>>

\* OpenThread calls the radio between frames and between attempts.
MayCall == step \in {"idle", "tried"}

\* Under os_lock, so no interrupt sees a part of it.
otPlatRadioSetMacKey(seq) ==
  /\ MayCall
  /\ sKeyId' = KeyIdOf(seq)
  /\ sPrevKey' = seq - 1
  /\ sCurrKey' = seq
  /\ sNextKey' = seq + 1
  /\ frame' = [frame EXCEPT !.switched = TRUE]
  /\ UNCHANGED <<sMacFrameCounter, step, mac, heldAck, nonces>>

otPlatRadioSetMacFrameCounter(c) ==
  /\ MayCall
  /\ CounterWritten(c)
  /\ frame' = [frame EXCEPT !.stale = TRUE]
  /\ used' = {}
  /\ excused' = {}
  /\ repeated' = FALSE
  /\ UNCHANGED <<macKeys, step, mac>>

-----------------------------------------------------------------------------
(* The interrupt.                                                          *)

\* Bug to catch: the keys before and after the current one are swapped.
KeysSwapped(keyId) ==
  IF keyId = sKeyId THEN {sCurrKey}
  ELSE IF keyId = sKeyId - 1 THEN {sNextKey}
  ELSE IF keyId = sKeyId + 1 THEN {sPrevKey}
  ELSE {}

\* Key ids are compared as integers: 128 is not followed by 1.
KeyFor(keyId) ==
  IF keyId = sKeyId THEN {sCurrKey}
  ELSE IF keyId = sKeyId - 1 THEN {sPrevKey}
  ELSE IF keyId = sKeyId + 1 THEN {sNextKey}
  ELSE {}

\* Neighbour and radio are at most one key apart and the ids do not wrap in between.
IdsInOrder(seq, current) ==
  /\ seq - current \in -1 .. 1
  /\ KeyIdOf(seq) - KeyIdOf(current) = seq - current

\* The ack with header h goes out with what is in the MAC.
Sends(h) ==
  sent' = [near |-> IdsInOrder(h.seq, sCurrKey), ownKey |-> ackKey' = h.seq,
           ownNonce |-> nonce' = h.counter, moved |-> h.moved]

\* Bug to catch: the counter is not advanced.
CounterKept(h) ==
  \E key \in KeyFor(KeyIdOf(h.seq)) :
    /\ sMacFrameCounter < CounterBound
    /\ nonce' = sMacFrameCounter
    /\ ackKey' = key
    /\ Sends(h)
    /\ Uses(sMacFrameCounter, FALSE, step = "count")
    /\ overtaken' = TRUE
    /\ UNCHANGED <<macKeys, sMacFrameCounter, keysTask, txKey>>

\* txAckProcessSecurity makes the nonce of the counter of now and advances it.
AckWithKey(h) ==
  \E key \in KeyFor(KeyIdOf(h.seq)) :
    /\ sMacFrameCounter < CounterBound
    /\ nonce' = sMacFrameCounter
    /\ sMacFrameCounter' = sMacFrameCounter + 1
    /\ ackKey' = key
    /\ Sends(h)
    /\ Uses(sMacFrameCounter, FALSE, step = "count")
    /\ overtaken' = TRUE
    /\ UNCHANGED <<macKeys, keysTask, txKey>>

\* For any other key id it loads nothing, and the ack goes out with the nonce that is
\* there and the key of an earlier ack.
AckWithoutKey(h) ==
  /\ KeyFor(KeyIdOf(h.seq)) = {}
  /\ UNCHANGED <<macKeys, sMacFrameCounter, keysTask, nonce, txKey, overtaken, ackKey>>
  /\ Sends(h)
  /\ Uses(nonce, FALSE, TRUE)

txAckProcessSecurity(h) == AckWithKey(h) \/ AckWithoutKey(h)

\* rxely_handler writes the counter into the ack's header.  The ack is secured at
\* once, or with probing held back.
HeaderWritten(seq) ==
  LET h == [seq |-> seq, counter |-> sMacFrameCounter, moved |-> FALSE]
  IN /\ ~held
     /\ \/ txAckProcessSecurity(h) /\ UNCHANGED heldAck
        \/ /\ held' = TRUE
           /\ header' = h
           /\ UNCHANGED <<macKeys, sMacFrameCounter, keysTask, mac, nonces>>

\* rxdone_handler
HeldAckSecured ==
  /\ held
  /\ txAckProcessSecurity(header)
  /\ held' = FALSE
  /\ header' = NoHeader

\* The frame is damaged.
HeldAckDropped ==
  /\ held
  /\ held' = FALSE
  /\ header' = NoHeader
  /\ UNCHANGED <<macKeys, sMacFrameCounter, keysTask, mac, nonces>>

KeysNext ==
  \/ SetKeyId
  \/ SetFrameCounter
  \/ txProcessSecurity
  \/ TrigUpperEnc
  \/ Retry
  \/ TxDone
  \/ \E seq \in Sequences :
       \/ otPlatRadioSetMacKey(seq)
       \/ HeaderWritten(seq)
  \/ HeldAckSecured
  \/ HeldAckDropped
  \/ \E c \in Counters : otPlatRadioSetMacFrameCounter(c)

KeysSpec == KeysInit /\ [][KeysNext]_keysVars

-----------------------------------------------------------------------------
(* Properties.                                                             *)

\* Every variable has a value of its type.
KeysTypeOK ==
  /\ sKeyId \in Nat
  /\ sPrevKey \in Int /\ sCurrKey \in Int /\ sNextKey \in Int
  /\ txKey \in Int /\ ackKey \in Int
  /\ sMacFrameCounter \in Counters
  /\ step \in {"idle", "count", "load", "trigger", "tried"}
  /\ frame \in Frame
  /\ nonce \in Counters
  /\ overtaken \in BOOLEAN
  /\ sent \in Ack
  /\ held \in BOOLEAN
  /\ header \in HeaderOfAck
  /\ used \subseteq Counters
  /\ excused \subseteq Counters
  /\ repeated \in BOOLEAN

\* A data frame can be decrypted by what its header says: when it is encrypted, key
\* and nonce are those of the key id and the counter in it.  Two cases are excepted,
\* which the code has: a retry after otPlatRadioSetMacKey, which takes the new key
\* under the old id, and an ack secured between mac_LoadNonce and mac_TrigUpperEnc.
FrameUnderstood ==
  (step = "trigger" /\ ~frame.switched /\ ~overtaken) =>
    /\ KeyIdOf(txKey) = frame.keyId
    /\ nonce = frame.counter

\* An ack can be decrypted by the neighbour it is for, if that uses the radio's key
\* or the one before or after: it has this key, and the nonce of its header, whenever
\* otPlatRadioSetMacKey is called.  Where the key ids wrap it has not: such an ack
\* goes out with what was in the MAC.  An ack that was held back, while the task took
\* or set the counter, has the right key but the nonce of a later counter.
AckUnderstood == sent.near => sent.ownKey /\ (sent.ownNonce \/ sent.moved)

\* Since the counter was last set, no two frames or acks were given the same nonce,
\* retries of one frame aside.  Excepted are the nonces that were used
\*  - by an ack between the load and the store of the task's sMacFrameCounter++,
\*  - by a frame that an ack overtook (FrameUnderstood), which is that ack's,
\*  - by an ack for which there was no key, which is what was in the register,
\*  - by a frame whose counter was taken before the counter was set.
CounterUsedOnce == ~repeated

==============================================================================
