---------------------------- MODULE RadioTx_proof ----------------------------
(* Theorems about RadioTx, for any limits on retries, channel accesses and  *)
(* aborts.                                                                  *)
EXTENDS RadioTx, TLAPS

-----------------------------------------------------------------------------
(* What BEE_RadioTx does: it ends the transmission or starts it again.      *)

LEMMA CountTyped ==
  ASSUME NEW limit \in Nat, NEW c \in 0 .. limit + 1
  PROVE  /\ Count(c, limit) \in 0 .. limit + 1
         /\ c < limit /\ Count(c, limit) # limit => Count(c, limit) < limit
  BY DEF Count

Ended(tmo) ==
  /\ sState' = "RECEIVE"
  /\ client' = "idle"
  /\ tx_backoff_tmo' = tmo
  /\ UNCHANGED tx_backoff_pending

Restarted(tmo) ==
  /\ UNCHANGED <<sState, frame, client, txDone>>
  /\ \/ tx_backoff_pending' = TRUE /\ tx_backoff_tmo' = tmo
     \/ tx_backoff_tmo' = TRUE /\ UNCHANGED tx_backoff_pending

BelowLimit == sTransmitRetry < MaxRetry /\ sTransmitCcaFailCnt < MaxCcaFail

CountersType ==
  /\ sTransmitRetry \in 0 .. MaxRetry + 1
  /\ sTransmitCcaFailCnt \in 0 .. MaxCcaFail + 1

LEMMA ExitEnds ==
  ASSUME TypeOK, NEW error \in Errors, NEW ack \in BOOLEAN, NEW tmo \in BOOLEAN,
         TxExit(error, ack, tmo)
  PROVE  Ended(tmo) /\ frame' \in Frames /\ txDone' \in [error : Errors, ack : BOOLEAN]
<1>1. Ended(tmo) /\ txDone' \in [error : Errors, ack : BOOLEAN]
  BY DEF TxExit, Ended
<1>2. frame' \in Frames
  BY DEF TxExit, TypeOK, Frames, Delays
<1> QED
  BY <1>1, <1>2

LEMMA RetryRestarts ==
  ASSUME TypeOK, NEW tmo \in BOOLEAN, TxRetry(tmo)
  PROVE  /\ Restarted(tmo)
         /\ frame' \in Frames /\ txDone' \in [error : Errors, ack : BOOLEAN]
  BY DEF TxRetry, HandleTxBackoffDelay, Restarted, TypeOK

\* The outcome of BEE_RadioTx.
Outcome(tmo) ==
  /\ frame' \in Frames
  /\ txDone' \in [error : Errors, ack : BOOLEAN]
  /\ CountersType'
  /\ \/ Ended(tmo)
     \/ Restarted(tmo) /\ (BelowLimit => BelowLimit')

LEMMA NoAckOutcome ==
  ASSUME TypeOK, NEW tmo \in BOOLEAN, TxNoAck(tmo)
  PROVE  Outcome(tmo)
<1>1. /\ Count(sTransmitRetry, MaxRetry) \in 0 .. MaxRetry + 1
      /\ sTransmitRetry < MaxRetry /\ Count(sTransmitRetry, MaxRetry) # MaxRetry
           => Count(sTransmitRetry, MaxRetry) < MaxRetry
  BY CountTyped, RadioTxAssumption DEF TypeOK
<1>2. CASE sTransmitRetry' = MaxRetry \/ frame.delay = "timed"
  <2>1. TxExit("NO_ACK", FALSE, tmo) /\ UNCHANGED sTransmitCcaFailCnt
    BY <1>2 DEF TxNoAck
  <2>2. CountersType'
    BY <1>1, <2>1, RadioTxAssumption DEF TxNoAck, CountersType, TypeOK
  <2> QED
    BY <2>1, <2>2, ExitEnds DEF Outcome, Errors
<1>3. CASE ~(sTransmitRetry' = MaxRetry \/ frame.delay = "timed")
  <2>1. TxRetry(tmo) /\ sTransmitCcaFailCnt' = 0
    BY <1>3 DEF TxNoAck
  <2>2. CountersType' /\ (BelowLimit => BelowLimit')
    BY <1>1, <1>3, <2>1, RadioTxAssumption DEF TxNoAck, CountersType, BelowLimit, TypeOK
  <2> QED
    BY <2>1, <2>2, RetryRestarts DEF Outcome
<1> QED
  BY <1>2, <1>3

LEMMA NoAccessOutcome ==
  ASSUME TypeOK, NEW tmo \in BOOLEAN, NEW result \in Results, TxNoAccess(result, tmo)
  PROVE  Outcome(tmo)
<1>1. /\ Count(sTransmitCcaFailCnt, MaxCcaFail) \in 0 .. MaxCcaFail + 1
      /\ sTransmitCcaFailCnt < MaxCcaFail /\ Count(sTransmitCcaFailCnt, MaxCcaFail) # MaxCcaFail
           => Count(sTransmitCcaFailCnt, MaxCcaFail) < MaxCcaFail
  BY CountTyped, RadioTxAssumption DEF TypeOK
<1>2. CountersType' /\ UNCHANGED sTransmitRetry
  BY <1>1, RadioTxAssumption DEF TxNoAccess, CountersType, TypeOK
<1>3. CASE sTransmitCcaFailCnt' = MaxCcaFail
  <2>1. TxExit("CHANNEL_ACCESS_FAILURE", FALSE, tmo)
    BY <1>3 DEF TxNoAccess
  <2> QED
    BY <2>1, <1>2, ExitEnds DEF Outcome, Errors
<1>4. CASE sTransmitCcaFailCnt' # MaxCcaFail
  <2>1. TxRetry(tmo)
    BY <1>4 DEF TxNoAccess
  <2>2. BelowLimit => BelowLimit'
    BY <1>1, <1>2, <1>4, RadioTxAssumption DEF TxNoAccess, BelowLimit, TypeOK
  <2> QED
    BY <1>2, <2>1, <2>2, RetryRestarts DEF Outcome
<1> QED
  BY <1>3, <1>4

\* An ack that is flagged is used up when the result is TX_WAIT_ACK.
LEMMA RadioTxOutcome ==
  ASSUME TypeOK, NEW tmo \in BOOLEAN, NEW result \in Results, BEE_RadioTx(result, tmo)
  PROVE  /\ Outcome(tmo)
         /\ ack_receive_done' \in BOOLEAN /\ strayAck' \in BOOLEAN
         /\ ack_receive_done' => ack_receive_done /\ result # "TX_WAIT_ACK"
         /\ ~ack_receive_done' \/ UNCHANGED strayAck
<1>1. CASE result = "TX_OK" /\ TxExit("NONE", FALSE, tmo)
           /\ UNCHANGED <<counters, ackFlag>>
  BY <1>1, ExitEnds DEF Outcome, Errors, CountersType, counters, ackFlag, TypeOK
<1>2. CASE result = "TX_WAIT_ACK" /\ ack_receive_done /\ TxAcked(tmo)
  BY <1>2, ExitEnds DEF TxAcked, Outcome, Errors, CountersType, counters, ackFlag, TypeOK
<1>3. CASE result = "TX_WAIT_ACK" /\ ~ack_receive_done /\ TxNoAck(tmo)
  BY <1>3, NoAckOutcome DEF TxNoAck, ackFlag, TypeOK
<1>4. CASE result = "TX_NO_ACK" /\ TxNoAck(tmo)
  BY <1>4, NoAckOutcome DEF TxNoAck, ackFlag, TypeOK
<1>5. CASE result = "TX_AT_FAIL" /\ TxMissed(tmo)
  BY <1>5, ExitEnds DEF TxMissed, Outcome, Errors, CountersType, counters, ackFlag, TypeOK
<1>6. CASE result # "TX_WAIT_ACK" /\ TxNoAccess(result, tmo)
  BY <1>6, NoAccessOutcome DEF TxNoAccess, ackFlag, TypeOK
<1> QED
  BY <1>1, <1>2, <1>3, <1>4, <1>5, <1>6 DEF BEE_RadioTx

-----------------------------------------------------------------------------
(* Type correctness.                                                        *)

LEMMA TypeInit == Init => TypeOK
<1> SUFFICES ASSUME Init PROVE TypeOK
  OBVIOUS
<1>1. /\ sTransmitRetry \in 0 .. MaxRetry + 1 /\ sTransmitCcaFailCnt \in 0 .. MaxCcaFail + 1
      /\ startEvents \in Nat /\ scanEvents \in 0 .. 1 /\ radio_done \in 0 .. 1
      /\ aborts \in 0 .. MaxAborts
  BY RadioTxAssumption DEF Init
<1>2. frame \in Frames
  BY DEF Init, Frames, Delays
<1>3. txDone \in [error : Errors, ack : BOOLEAN]
  BY DEF Init, Errors
<1> QED
  BY <1>1, <1>2, <1>3 DEF Init, TypeOK, Results

LEMMA TypeClient ==
  ASSUME TypeOK, ClientCall
  PROVE  TypeOK'
<1> USE DEF TypeOK, radioState, counters, backoff, radio, ackFlag, clientState
<1>1. CASE otPlatRadioEnable
  BY <1>1 DEF otPlatRadioEnable
<1>2. CASE otPlatRadioDisable
  BY <1>2, RadioTxAssumption DEF otPlatRadioDisable, GiveUp
<1>3. ASSUME NEW s \in {"SLEEP", "RECEIVE"}, SetState(s)
      PROVE  TypeOK'
  BY <1>3 DEF SetState
<1>4. CASE dataInit
  BY <1>4, RadioTxAssumption DEF dataInit, GiveUp
<1>5. CASE otPlatRadioEnergyScan
  BY <1>5 DEF otPlatRadioEnergyScan
<1>6. ASSUME NEW f \in Frames, otPlatRadioTransmit(f)
      PROVE  TypeOK'
  <2>1. sTransmitRetry' \in 0 .. MaxRetry + 1 /\ sTransmitCcaFailCnt' \in 0 .. MaxCcaFail + 1
    BY <1>6, RadioTxAssumption DEF otPlatRadioTransmit
  <2>2. tx_backoff_tmo' \in BOOLEAN /\ tx_backoff_pending' \in BOOLEAN
    BY <1>6, Zenon DEF otPlatRadioTransmit, HandleTxBackoffDelay
  <2> QED
    BY <1>6, <2>1, <2>2, Zenon DEF otPlatRadioTransmit
<1> QED
  BY <1>1, <1>2, <1>3, <1>4, <1>5, <1>6 DEF ClientCall

\* What BEE_RadioTx leaves of the types.
LEMMA TypeOutcome ==
  ASSUME TypeOK, NEW tmo \in BOOLEAN, Outcome(tmo)
  PROVE  /\ sState' \in {"DISABLED", "SLEEP", "RECEIVE", "TRANSMIT"}
         /\ frame' \in Frames
         /\ sTransmitRetry' \in 0 .. MaxRetry + 1
         /\ sTransmitCcaFailCnt' \in 0 .. MaxCcaFail + 1
         /\ tx_backoff_tmo' \in BOOLEAN
         /\ tx_backoff_pending' \in BOOLEAN
         /\ client' \in {"idle", "waiting"}
         /\ txDone' \in [error : Errors, ack : BOOLEAN]
  BY DEF Outcome, Ended, Restarted, CountersType, TypeOK

LEMMA TypeStart ==
  ASSUME TypeOK, NEW tmo \in BOOLEAN, BEE_RadioTxStart(tmo),
         startEvents' \in Nat, scanEvents' \in 0 .. 1
  PROVE  TypeOK'
<1>1. CASE pc' = "waitTx" /\ op' = "tx" /\ ackFresh' = FALSE /\ tx_backoff_tmo' = tmo
           /\ UNCHANGED <<radioState, frame, counters, tx_backoff_pending,
                          tx_result, radio_done, ackFlag, clientState>>
  BY <1>1 DEF TypeOK, radioState, counters, ackFlag, clientState
<1>2. CASE tx_result' = "TX_AT_FAIL" /\ BEE_RadioTx("TX_AT_FAIL", tmo)
           /\ UNCHANGED <<sDisabled, radio_done, op, ackFresh, pc, aborts>>
  <2>1. "TX_AT_FAIL" \in Results
    BY DEF Results
  <2>2. Outcome(tmo) /\ ack_receive_done' \in BOOLEAN /\ strayAck' \in BOOLEAN
    BY <1>2, <2>1, RadioTxOutcome
  <2> QED
    BY <1>2, <2>1, <2>2, TypeOutcome DEF TypeOK
<1> QED
  BY <1>1, <1>2 DEF BEE_RadioTxStart

LEMMA TypeTask ==
  ASSUME TypeOK, TaskStep
  PROVE  TypeOK'
<1>1. CASE BEE_RadioBackoffTimeout
  BY <1>1, TypeStart DEF BEE_RadioBackoffTimeout, TypeOK
<1>2. CASE TxStartEvent
  BY <1>2, TypeStart DEF TxStartEvent, TypeOK
<1>3. CASE TxFinish
  <2>1. Outcome(tx_backoff_tmo) /\ ack_receive_done' \in BOOLEAN /\ strayAck' \in BOOLEAN
    BY <1>3, RadioTxOutcome DEF TxFinish, TypeOK
  <2> QED
    BY <1>3, <2>1, TypeOutcome DEF TxFinish, TypeOK
<1>4. CASE BEE_RadioEnergyScan \/ otPlatRadioGetRssi
  BY <1>4 DEF BEE_RadioEnergyScan, otPlatRadioGetRssi, EdBegin, TypeOK,
              radioState, counters, backoff, ackFlag, clientState
<1>5. CASE EdFinish
  BY <1>5 DEF EdFinish, TypeOK, radioState, counters, backoff, ackFlag, clientState
<1> QED
  BY <1>1, <1>2, <1>3, <1>4, <1>5 DEF TaskStep

LEMMA TypeInterrupt ==
  ASSUME TypeOK, Interrupt
  PROVE  TypeOK'
<1> USE DEF TypeOK, radioState, counters, backoff, radio, ackFlag, clientState
<1>1. CASE handle_tx_backoff_pending
  <2>1. startEvents' \in Nat
    BY <1>1 DEF handle_tx_backoff_pending
  <2>2. tx_backoff_pending' \in BOOLEAN
    BY <1>1 DEF handle_tx_backoff_pending
  <2>3. UNCHANGED <<radioState, frame, counters, tx_backoff_tmo, scanEvents, radio, pc,
                    clientState>>
    BY <1>1 DEF handle_tx_backoff_pending
  <2> QED
    BY <2>1, <2>2, <2>3
<1>2. CASE rxdone_ack
  <2>1. /\ ack_receive_done' \in BOOLEAN
        /\ ackFresh' \in BOOLEAN
        /\ strayAck' \in BOOLEAN
    BY <1>2 DEF rxdone_ack
  <2>2. UNCHANGED <<radioState, frame, counters, backoff, scanEvents, tx_result,
                    radio_done, op, pc, clientState>>
    BY <1>2 DEF rxdone_ack
  <2> QED
    BY <2>1, <2>2
<1>3. ASSUME NEW result \in Results, txn_handler(result)
      PROVE  TypeOK'
  <2>1. radio_done' \in 0 .. 1
    BY <1>3 DEF txn_handler
  <2>2. ack_receive_done' \in BOOLEAN /\ ackFresh' \in BOOLEAN
    BY <1>3, Zenon DEF txn_handler
  <2>3. strayAck' \in BOOLEAN
    BY <1>3, Zenon DEF txn_handler
  <2> QED
    BY <1>3, <2>1, <2>2, <2>3, Zenon DEF txn_handler
<1>4. CASE edscan_handler
  BY <1>4 DEF edscan_handler
<1> QED
  BY <1>1, <1>2, <1>3, <1>4 DEF Interrupt

\* Every variable keeps its type: in particular no counter of attempts leaves
\* the range in which it is compared with its limit.
THEOREM TypeCorrect == Spec => []TypeOK
<1>1. TypeOK /\ [Next]_vars => TypeOK'
  <2>1. TypeOK /\ UNCHANGED vars => TypeOK'
    BY DEF TypeOK, vars, radioState, counters, backoff, radio, ackFlag, clientState
  <2> QED
    BY <2>1, TypeClient, TypeTask, TypeInterrupt DEF Next
<1> QED
  BY <1>1, TypeInit, PTL DEF Spec

-----------------------------------------------------------------------------
(* The semaphore and the ack flag.                                          *)

\* What the task's own steps do to the radio.
LEMMA StartEffect ==
  ASSUME TypeOK, NEW tmo \in BOOLEAN, BEE_RadioTxStart(tmo)
  PROVE  \/ /\ op' = "tx" /\ pc' = "waitTx" /\ ackFresh' = FALSE /\ tx_backoff_tmo' = tmo
            /\ UNCHANGED <<radioState, frame, counters, tx_backoff_pending,
                           tx_result, radio_done, ackFlag, clientState>>
         \/ /\ Outcome(tmo)
            /\ ack_receive_done' => ack_receive_done /\ UNCHANGED strayAck
            /\ UNCHANGED <<sDisabled, radio_done, op, ackFresh, pc, aborts>>
<1>1. "TX_AT_FAIL" \in Results
  BY DEF Results
<1> QED
  BY <1>1, RadioTxOutcome DEF BEE_RadioTxStart

\* Besides the semaphore, where the ack flag comes from once the radio has ended
\* an attempt.
RadioInv ==
  /\ SemaphoreOfOperation
  /\ AckOfThisAttempt
  /\ ack_receive_done /\ op = "none" => strayAck \/ tx_result = "TX_WAIT_ACK"

LEMMA RadioInvStart ==
  ASSUME TypeOK, RadioInv, pc = "run", NEW tmo \in BOOLEAN, BEE_RadioTxStart(tmo)
  PROVE  RadioInv'
<1>1. (ack_receive_done => strayAck) /\ op = "none" /\ radio_done = 0
  BY DEF RadioInv, SemaphoreOfOperation, AckOfThisAttempt, One, TypeOK
<1>2. ack_receive_done' => strayAck'
  BY <1>1, StartEffect DEF ackFlag
<1>3. SemaphoreOfOperation'
  BY <1>1, StartEffect DEF SemaphoreOfOperation, One
<1> QED
  BY <1>2, <1>3 DEF RadioInv, AckOfThisAttempt

LEMMA RadioInvStep ==
  ASSUME TypeOK, RadioInv, [Next]_vars
  PROVE  RadioInv'
<1> USE DEF radioState, counters, backoff, radio, ackFlag, clientState
<1>1. CASE UNCHANGED <<tx_result, radio_done, ackFlag, op, ackFresh, pc>>
  BY <1>1 DEF RadioInv, SemaphoreOfOperation, AckOfThisAttempt, One
<1>2. CASE dataInit
  BY <1>2 DEF dataInit, RadioInv, SemaphoreOfOperation, AckOfThisAttempt, One
<1>3. CASE BEE_RadioBackoffTimeout
  BY <1>3, RadioInvStart DEF BEE_RadioBackoffTimeout
<1>4. CASE TxStartEvent
  BY <1>4, RadioInvStart DEF TxStartEvent, TypeOK
<1>5. CASE TxFinish
  <2>1. op = "none" /\ op' = op /\ pc' = "run" /\ radio_done' = 0
    BY <1>5 DEF TxFinish, RadioInv, SemaphoreOfOperation, One, TypeOK
  <2>2. ack_receive_done' => strayAck'
    BY <1>5, <2>1, RadioTxOutcome DEF TxFinish, TypeOK, RadioInv
  <2> QED
    BY <2>1, <2>2 DEF RadioInv, SemaphoreOfOperation, AckOfThisAttempt, One
<1>6. CASE BEE_RadioEnergyScan \/ otPlatRadioGetRssi
  BY <1>6 DEF BEE_RadioEnergyScan, otPlatRadioGetRssi, EdBegin,
              RadioInv, SemaphoreOfOperation, AckOfThisAttempt, One
<1>7. CASE EdFinish
  BY <1>7 DEF EdFinish, RadioInv, SemaphoreOfOperation, AckOfThisAttempt, One, TypeOK
<1>8. CASE rxdone_ack
  <2>1. UNCHANGED <<tx_result, radio_done, op, pc>>
    BY <1>8 DEF rxdone_ack
  <2>2. CASE strayAck'
    BY <2>1, <2>2 DEF RadioInv, SemaphoreOfOperation, AckOfThisAttempt, One
  <2>3. CASE pc = "waitTx" /\ (op = "tx" \/ tx_result = "TX_WAIT_ACK") /\ ackFresh'
    BY <2>1, <2>3 DEF RadioInv, SemaphoreOfOperation, AckOfThisAttempt, One
  <2> QED
    BY <1>8, <2>2, <2>3 DEF rxdone_ack
<1>9. ASSUME NEW result \in Results, txn_handler(result)
      PROVE  RadioInv'
  <2>1. /\ op = "tx" /\ pc = "waitTx" /\ op' = "none" /\ pc' = pc
        /\ radio_done' = 1 /\ tx_result' = result
    BY <1>9 DEF txn_handler, RadioInv, SemaphoreOfOperation
  <2>2. ack_receive_done' => strayAck' \/ (ackFresh' /\ result = "TX_WAIT_ACK")
    BY <1>9 DEF txn_handler, RadioInv, AckOfThisAttempt
  <2> QED
    BY <2>1, <2>2 DEF RadioInv, SemaphoreOfOperation, AckOfThisAttempt, One
<1>10. CASE edscan_handler
  BY <1>10 DEF edscan_handler, RadioInv, SemaphoreOfOperation, AckOfThisAttempt, One
<1>11. ClientCall => dataInit \/ UNCHANGED <<tx_result, radio_done, ackFlag, op, ackFresh, pc>>
  BY DEF ClientCall, otPlatRadioEnable, otPlatRadioDisable, SetState,
         otPlatRadioEnergyScan, otPlatRadioTransmit
<1>12. handle_tx_backoff_pending \/ UNCHANGED vars
         => UNCHANGED <<tx_result, radio_done, ackFlag, op, ackFresh, pc>>
  BY DEF handle_tx_backoff_pending, vars
<1> QED
  BY <1>1, <1>2, <1>3, <1>4, <1>5, <1>6, <1>7, <1>8, <1>9, <1>10, <1>11, <1>12
  DEF Next, TaskStep, Interrupt

LEMMA RadioInvariant == Spec => []RadioInv
<1>1. Init => RadioInv
  BY DEF Init, RadioInv, SemaphoreOfOperation, AckOfThisAttempt, One
<1>2. TypeOK /\ RadioInv /\ [Next]_vars => RadioInv'
  BY RadioInvStep
<1> QED
  BY <1>1, <1>2, TypeCorrect, PTL DEF Spec

\* The task and the radio never disagree about radio_done: the task cannot
\* block on an operation that has been answered before, nor be released by the
\* answer of an earlier one.
THEOREM SemaphoreMatches == Spec => []SemaphoreOfOperation
<1>1. RadioInv => SemaphoreOfOperation
  BY DEF RadioInv
<1> QED
  BY <1>1, RadioInvariant, PTL

\* radio.c:1870: acks may come at any time and be left over from an attempt that
\* failed, but an ack that was used for an answer is not used again.
THEOREM AckMatches == Spec => []AckOfThisAttempt
<1>1. RadioInv => AckOfThisAttempt
  BY DEF RadioInv
<1> QED
  BY <1>1, RadioInvariant, PTL

-----------------------------------------------------------------------------
(* The tokens and the counters.                                             *)

LEMMA OneType == \A b \in BOOLEAN : One(b) \in 0 .. 1
  BY DEF One

LEMMA SumOfOnes ==
  ASSUME NEW a \in BOOLEAN, NEW b \in BOOLEAN, NEW n \in Nat, NEW w \in BOOLEAN
  PROVE  /\ One(a) + One(b) + n + One(w) \in Nat
         /\ One(a) + One(b) + n + One(w) = 0 <=> ~a /\ ~b /\ n = 0 /\ ~w
<1>1. One(a) \in 0 .. 1 /\ One(b) \in 0 .. 1 /\ One(w) \in 0 .. 1
  BY OneType
<1>2. (One(a) = 0 <=> ~a) /\ (One(b) = 0 <=> ~b) /\ (One(w) = 0 <=> ~w)
  BY DEF One
<1> QED
  BY <1>1, <1>2

LEMMA TokensNext ==
  ASSUME TypeOK',
         tx_backoff_tmo' \/ tx_backoff_pending' \/ startEvents' # 0 \/ pc' = "waitTx"
  PROVE  Tokens' \in Nat /\ Tokens' # 0
<1>1. /\ tx_backoff_tmo' \in BOOLEAN /\ tx_backoff_pending' \in BOOLEAN
      /\ startEvents' \in Nat /\ (pc' = "waitTx") \in BOOLEAN
  BY DEF TypeOK
<1>2. /\ One(tx_backoff_tmo') + One(tx_backoff_pending') + startEvents' + One(pc' = "waitTx") \in Nat
      /\ One(tx_backoff_tmo') + One(tx_backoff_pending') + startEvents' + One(pc' = "waitTx") = 0
           <=> ~tx_backoff_tmo' /\ ~tx_backoff_pending' /\ startEvents' = 0 /\ ~(pc' = "waitTx")
  BY <1>1, SumOfOnes
<1> QED
  BY <1>2 DEF Tokens

\* The invariant behind both: a waiting client has a token, and its counters
\* are below their limits.
WaitInv == NeverForgotten /\ CountersBelowLimit

\* A step that keeps the counters, the client and the token keeps the
\* invariant; so does one that leaves the client idle.
LEMMA WaitKept ==
  ASSUME TypeOK, TypeOK', WaitInv,
         \/ client' = "idle"
         \/ /\ UNCHANGED <<client, counters>>
            /\ \/ tx_backoff_tmo' \/ tx_backoff_pending' \/ startEvents' # 0 \/ pc' = "waitTx"
               \/ UNCHANGED <<tx_backoff_tmo, tx_backoff_pending, startEvents, pc>>
  PROVE  WaitInv'
<1>1. CASE client' = "idle"
  BY <1>1 DEF WaitInv, NeverForgotten, CountersBelowLimit
<1>2. CASE UNCHANGED <<client, counters>>
           /\ UNCHANGED <<tx_backoff_tmo, tx_backoff_pending, startEvents, pc>>
  BY <1>2 DEF WaitInv, NeverForgotten, CountersBelowLimit, counters, Tokens
<1>3. CASE UNCHANGED <<client, counters>>
           /\ (tx_backoff_tmo' \/ tx_backoff_pending' \/ startEvents' # 0 \/ pc' = "waitTx")
  <2>1. Tokens' \in Nat /\ Tokens' # 0
    BY <1>3, TokensNext
  <2> QED
    BY <1>3, <2>1 DEF WaitInv, NeverForgotten, CountersBelowLimit, counters
<1> QED
  BY <1>1, <1>2, <1>3

LEMMA WaitOutcome ==
  ASSUME TypeOK, TypeOK', WaitInv, NEW tmo \in BOOLEAN, Outcome(tmo)
  PROVE  WaitInv'
<1>1. CASE Ended(tmo)
  BY <1>1 DEF Ended, WaitInv, NeverForgotten, CountersBelowLimit
<1>2. CASE Restarted(tmo) /\ (BelowLimit => BelowLimit')
  <2>1. tx_backoff_tmo' \/ tx_backoff_pending'
    BY <1>2, Zenon DEF Restarted
  <2>2. Tokens' \in Nat /\ Tokens' # 0
    BY <2>1, TokensNext
  <2> QED
    BY <1>2, <2>2 DEF Restarted, BelowLimit, WaitInv, NeverForgotten, CountersBelowLimit
<1> QED
  BY <1>1, <1>2 DEF Outcome

LEMMA WaitStart ==
  ASSUME TypeOK, TypeOK', WaitInv, NEW tmo \in BOOLEAN, BEE_RadioTxStart(tmo)
  PROVE  WaitInv'
<1>1. CASE pc' = "waitTx" /\ UNCHANGED <<counters, clientState>>
  BY <1>1, WaitKept DEF clientState
<1> QED
  BY <1>1, StartEffect, WaitOutcome

LEMMA WaitInvStep ==
  ASSUME TypeOK, TypeOK', WaitInv, [Next]_vars
  PROVE  WaitInv'
<1> USE DEF radioState, backoff, radio, clientState
<1>1. CASE ClientCall
  <2>1. CASE otPlatRadioEnable \/ otPlatRadioEnergyScan
             \/ \E s \in {"SLEEP", "RECEIVE"} : SetState(s)
    BY <2>1, WaitKept DEF otPlatRadioEnable, otPlatRadioEnergyScan, SetState
  <2>2. CASE otPlatRadioDisable \/ dataInit
    <3>1. client' = "idle" \/ UNCHANGED client
      BY <2>2, Zenon DEF otPlatRadioDisable, dataInit, GiveUp
    <3>2. UNCHANGED <<counters, backoff, pc>>
      BY <2>2 DEF otPlatRadioDisable, dataInit
    <3> QED
      BY <3>1, <3>2, WaitKept
  <2>3. ASSUME NEW f \in Frames, otPlatRadioTransmit(f)
        PROVE  WaitInv'
    <3>1. tx_backoff_tmo' \/ tx_backoff_pending'
      BY <2>3, Zenon DEF otPlatRadioTransmit, HandleTxBackoffDelay
    <3>2. Tokens' \in Nat /\ Tokens' # 0
      BY <3>1, TokensNext
    <3>3. sTransmitRetry' = 0 /\ sTransmitCcaFailCnt' = 0
      BY <2>3 DEF otPlatRadioTransmit
    <3> QED
      BY <3>2, <3>3, RadioTxAssumption DEF WaitInv, NeverForgotten, CountersBelowLimit
  <2> QED
    BY <1>1, <2>1, <2>2, <2>3 DEF ClientCall
<1>2. CASE TaskStep
  <2>1. CASE BEE_RadioBackoffTimeout
    BY <2>1, WaitStart DEF BEE_RadioBackoffTimeout
  <2>2. CASE TxStartEvent
    BY <2>2, WaitStart DEF TxStartEvent, TypeOK
  <2>3. CASE TxFinish
    BY <2>3, RadioTxOutcome, WaitOutcome DEF TxFinish, TypeOK
  <2>4. CASE BEE_RadioEnergyScan \/ otPlatRadioGetRssi \/ EdFinish
    <3>1. UNCHANGED <<counters, backoff, client>> /\ pc # "waitTx" /\ pc' # "waitTx"
      BY <2>4 DEF BEE_RadioEnergyScan, otPlatRadioGetRssi, EdBegin, EdFinish
    <3>2. Tokens' = Tokens
      BY <3>1 DEF Tokens, One
    <3> QED
      BY <3>1, <3>2 DEF WaitInv, NeverForgotten, CountersBelowLimit, counters
  <2> QED
    BY <1>2, <2>1, <2>2, <2>3, <2>4 DEF TaskStep
<1>3. CASE Interrupt
  <2>1. CASE handle_tx_backoff_pending
    <3>1. startEvents' # 0 /\ UNCHANGED <<client, counters>>
      BY <2>1 DEF handle_tx_backoff_pending, TypeOK
    <3> QED
      BY <3>1, WaitKept
  <2>2. CASE rxdone_ack \/ edscan_handler \/ \E result \in Results : txn_handler(result)
    BY <2>2, WaitKept DEF rxdone_ack, edscan_handler, txn_handler
  <2> QED
    BY <1>3, <2>1, <2>2 DEF Interrupt
<1>4. CASE UNCHANGED vars
  BY <1>4, WaitKept DEF vars
<1> QED
  BY <1>1, <1>2, <1>3, <1>4 DEF Next

LEMMA WaitInvariant == Spec => []WaitInv
<1>1. Init => WaitInv
  BY DEF Init, WaitInv, NeverForgotten, CountersBelowLimit
<1>2. TypeOK /\ TypeOK' /\ WaitInv /\ [Next]_vars => WaitInv'
  BY WaitInvStep
<1> QED
  BY <1>1, <1>2, TypeCorrect, PTL DEF Spec

\* While OpenThread waits for otPlatRadioTxDone its frame is somewhere in the
\* driver, whatever was given up before.
THEOREM NeverLost == Spec => []NeverForgotten
<1>1. WaitInv => NeverForgotten
  BY DEF WaitInv
<1> QED
  BY <1>1, WaitInvariant, PTL

\* The comparisons of BEE_RadioTx with == catch every counter at its limit.
THEOREM LimitsHold == Spec => []CountersBelowLimit
<1>1. WaitInv => CountersBelowLimit
  BY DEF WaitInv
<1> QED
  BY <1>1, WaitInvariant, PTL

-----------------------------------------------------------------------------
(* A client that never gives up: exactly one token.                         *)

StrictInv == SingleToken /\ TransmitWhileWaiting

\* The tokens that SingleToken leaves besides a given one.
LEMMA OnlyToken ==
  ASSUME TypeOK, SingleToken
  PROVE  /\ Tokens = 0 \/ Tokens = 1
         /\ client = "waiting" <=> Tokens = 1
         /\ pc = "waitTx" =>
              ~tx_backoff_tmo /\ ~tx_backoff_pending /\ startEvents = 0 /\ client = "waiting"
         /\ tx_backoff_tmo =>
              ~tx_backoff_pending /\ startEvents = 0 /\ pc # "waitTx" /\ client = "waiting"
         /\ tx_backoff_pending =>
              ~tx_backoff_tmo /\ startEvents = 0 /\ pc # "waitTx" /\ client = "waiting"
         /\ startEvents # 0 =>
              ~tx_backoff_tmo /\ ~tx_backoff_pending /\ startEvents = 1 /\ pc # "waitTx"
              /\ client = "waiting"
         /\ client # "waiting" =>
              ~tx_backoff_tmo /\ ~tx_backoff_pending /\ startEvents = 0 /\ pc # "waitTx"
<1>1. Tokens = IF client = "waiting" THEN 1 ELSE 0
  BY DEF SingleToken, One
<1>2. /\ One(tx_backoff_tmo) \in 0 .. 1 /\ One(tx_backoff_pending) \in 0 .. 1
      /\ One(pc = "waitTx") \in 0 .. 1 /\ startEvents \in Nat
  BY OneType DEF TypeOK
<1>3. /\ One(tx_backoff_tmo) = 0 <=> ~tx_backoff_tmo
      /\ One(tx_backoff_pending) = 0 <=> ~tx_backoff_pending
      /\ One(pc = "waitTx") = 0 <=> pc # "waitTx"
  BY DEF One
<1>4. Tokens = One(tx_backoff_tmo) + One(tx_backoff_pending) + startEvents + One(pc = "waitTx")
  BY DEF Tokens
<1> QED
  BY <1>1, <1>2, <1>3, <1>4

\* The sums that occur after a step.
LEMMA OneTokenNext ==
  ASSUME \/ /\ client' # "waiting" /\ tx_backoff_tmo' = FALSE
            /\ tx_backoff_pending' = FALSE /\ startEvents' = 0 /\ pc' # "waitTx"
         \/ /\ client' = "waiting" /\ tx_backoff_tmo' = TRUE
            /\ tx_backoff_pending' = FALSE /\ startEvents' = 0 /\ pc' # "waitTx"
         \/ /\ client' = "waiting" /\ tx_backoff_tmo' = FALSE
            /\ tx_backoff_pending' = TRUE /\ startEvents' = 0 /\ pc' # "waitTx"
         \/ /\ client' = "waiting" /\ tx_backoff_tmo' = FALSE
            /\ tx_backoff_pending' = FALSE /\ startEvents' = 1 /\ pc' # "waitTx"
         \/ /\ client' = "waiting" /\ tx_backoff_tmo' = FALSE
            /\ tx_backoff_pending' = FALSE /\ startEvents' = 0 /\ pc' = "waitTx"
  PROVE  SingleToken'
  BY DEF SingleToken, Tokens, One

LEMMA StrictOutcome ==
  ASSUME TypeOK, TransmitWhileWaiting, Outcome(FALSE), client = "waiting",
         tx_backoff_pending = FALSE, startEvents' = 0, pc' = "run"
  PROVE  StrictInv'
<1>1. CASE Ended(FALSE)
  <2>1. SingleToken'
    BY <1>1, OneTokenNext DEF Ended
  <2> QED
    BY <1>1, <2>1 DEF Ended, StrictInv, TransmitWhileWaiting
<1>2. CASE Restarted(FALSE)
  <2>1. SingleToken'
    BY <1>2, OneTokenNext DEF Restarted
  <2> QED
    BY <1>2, <2>1 DEF Restarted, StrictInv, TransmitWhileWaiting
<1> QED
  BY <1>1, <1>2 DEF Outcome

\* An attempt that starts from the only token, which its caller has taken.
LEMMA StrictStart ==
  ASSUME TypeOK, TransmitWhileWaiting, BEE_RadioTxStart(FALSE), client = "waiting",
         pc = "run", tx_backoff_pending = FALSE, startEvents' = 0
  PROVE  StrictInv'
<1>1. CASE pc' = "waitTx" /\ tx_backoff_tmo' = FALSE
           /\ UNCHANGED <<radioState, tx_backoff_pending, clientState>>
  <2>1. SingleToken'
    BY <1>1, OneTokenNext DEF clientState
  <2> QED
    BY <1>1, <2>1 DEF StrictInv, TransmitWhileWaiting, radioState, clientState
<1>2. CASE Outcome(FALSE) /\ UNCHANGED pc
  BY <1>2, StrictOutcome
<1> QED
  BY <1>1, <1>2, StartEffect

\* A step that touches no token, nor the client.
LEMMA StrictKept ==
  ASSUME StrictInv, UNCHANGED <<tx_backoff_tmo, tx_backoff_pending, startEvents, client>>,
         pc' = "waitTx" <=> pc = "waitTx", sState' = "TRANSMIT" => sState = "TRANSMIT"
  PROVE  StrictInv'
  BY DEF StrictInv, SingleToken, TransmitWhileWaiting, Tokens, One

LEMMA StrictClient ==
  ASSUME aborts = 0, aborts' = 0, TypeOK, StrictInv, ClientCall
  PROVE  StrictInv'
<1> USE DEF radioState, backoff, radio, clientState
<1>1. CASE otPlatRadioEnable \/ otPlatRadioEnergyScan
           \/ \E s \in {"SLEEP", "RECEIVE"} : SetState(s)
  BY <1>1, StrictKept DEF otPlatRadioEnable, otPlatRadioEnergyScan, SetState
<1>2. CASE otPlatRadioDisable \/ dataInit
  <2>1. UNCHANGED client
    BY <1>2 DEF otPlatRadioDisable, dataInit, GiveUp, TypeOK
  <2> QED
    BY <1>2, <2>1, StrictKept DEF otPlatRadioDisable, dataInit
<1>3. ASSUME NEW f \in Frames, otPlatRadioTransmit(f)
      PROVE  StrictInv'
  <2>1. ~tx_backoff_tmo /\ ~tx_backoff_pending /\ startEvents = 0
    BY <1>3, OnlyToken DEF StrictInv, otPlatRadioTransmit
  <2>2. SingleToken'
    <3>1. /\ tx_backoff_tmo = FALSE /\ tx_backoff_pending = FALSE
      BY <2>1 DEF TypeOK
    <3> QED
      BY <1>3, <2>1, <3>1, OneTokenNext DEF otPlatRadioTransmit, HandleTxBackoffDelay
  <2> QED
    BY <1>3, <2>2 DEF StrictInv, TransmitWhileWaiting, otPlatRadioTransmit
<1> QED
  BY <1>1, <1>2, <1>3 DEF ClientCall

LEMMA StrictTask ==
  ASSUME TypeOK, StrictInv, TaskStep
  PROVE  StrictInv'
<1> USE DEF radioState, backoff, clientState, StrictInv
<1>1. CASE BEE_RadioBackoffTimeout
  <2>1. ~tx_backoff_pending /\ startEvents = 0 /\ client = "waiting"
    BY <1>1, OnlyToken DEF BEE_RadioBackoffTimeout
  <2>2. tx_backoff_pending = FALSE
    BY <2>1 DEF TypeOK
  <2> QED
    BY <1>1, <2>1, <2>2, StrictStart DEF BEE_RadioBackoffTimeout
<1>2. CASE TxStartEvent
  <2>1. /\ ~tx_backoff_tmo /\ ~tx_backoff_pending /\ startEvents = 1 /\ client = "waiting"
    BY <1>2, OnlyToken DEF TxStartEvent, TypeOK
  <2>2. tx_backoff_tmo = FALSE /\ tx_backoff_pending = FALSE
    BY <2>1 DEF TypeOK
  <2>3. startEvents' = 0 /\ pc = "run" /\ BEE_RadioTxStart(FALSE)
    <3>1. startEvents' = 0 /\ pc = "run"
      BY <1>2, <2>1 DEF TxStartEvent
    <3>2. BEE_RadioTxStart(tx_backoff_tmo)
      BY <1>2 DEF TxStartEvent
    <3> QED
      BY <2>2, <3>1, <3>2
  <2> QED
    BY <2>1, <2>2, <2>3, StrictStart
<1>3. CASE TxFinish
  <2>1. /\ ~tx_backoff_tmo /\ ~tx_backoff_pending /\ startEvents = 0 /\ client = "waiting"
    BY <1>3, OnlyToken DEF TxFinish
  <2>2. tx_backoff_tmo = FALSE /\ tx_backoff_pending = FALSE
    BY <2>1 DEF TypeOK
  <2>3. Outcome(FALSE)
    BY <1>3, <2>2, RadioTxOutcome DEF TxFinish, TypeOK
  <2> QED
    BY <1>3, <2>1, <2>2, <2>3, StrictOutcome DEF TxFinish
<1>4. CASE BEE_RadioEnergyScan \/ otPlatRadioGetRssi \/ EdFinish
  BY <1>4, StrictKept DEF BEE_RadioEnergyScan, otPlatRadioGetRssi, EdBegin, EdFinish
<1> QED
  BY <1>1, <1>2, <1>3, <1>4 DEF TaskStep

LEMMA StrictInterrupt ==
  ASSUME TypeOK, StrictInv, Interrupt
  PROVE  StrictInv'
<1> USE DEF radioState, backoff, clientState, StrictInv
<1>1. CASE handle_tx_backoff_pending
  <2>1. /\ ~tx_backoff_tmo /\ startEvents = 0 /\ pc # "waitTx" /\ client = "waiting"
    BY <1>1, OnlyToken DEF handle_tx_backoff_pending
  <2>2. tx_backoff_tmo = FALSE
    BY <2>1 DEF TypeOK
  <2>3. SingleToken'
    <3>1. startEvents' = 1
      BY <1>1, <2>1 DEF handle_tx_backoff_pending
    <3>2. /\ client' = "waiting" /\ pc' # "waitTx"
          /\ tx_backoff_tmo' = FALSE /\ tx_backoff_pending' = FALSE
      BY <1>1, <2>1, <2>2 DEF handle_tx_backoff_pending
    <3> QED
      BY <3>1, <3>2, OneTokenNext
  <2> QED
    BY <1>1, <2>3 DEF handle_tx_backoff_pending, TransmitWhileWaiting
<1>2. CASE rxdone_ack \/ edscan_handler \/ \E result \in Results : txn_handler(result)
  BY <1>2, StrictKept DEF rxdone_ack, edscan_handler, txn_handler
<1> QED
  BY <1>1, <1>2 DEF Interrupt

\* The client's giving up cannot be undone.
LEMMA AbortsStay ==
  ASSUME TypeOK, [Next]_vars, aborts' = 0
  PROVE  aborts = 0
<1> USE DEF radioState, counters, backoff, radio, clientState
<1>1. CASE UNCHANGED vars
  BY <1>1 DEF vars
<1>2. CASE ClientCall
  <2>1. CASE UNCHANGED aborts
    BY <2>1
  <2>2. CASE GiveUp
    BY <2>2 DEF GiveUp, TypeOK
  <2> QED
    BY <1>2, <2>1, <2>2 DEF ClientCall, otPlatRadioEnable, otPlatRadioDisable, SetState,
       dataInit, otPlatRadioEnergyScan, otPlatRadioTransmit
<1>3. CASE TaskStep
  BY <1>3, StartEffect DEF TaskStep, BEE_RadioBackoffTimeout, TxStartEvent, TxFinish,
     BEE_RadioEnergyScan, otPlatRadioGetRssi, EdBegin, EdFinish, TypeOK
<1>4. CASE Interrupt
  BY <1>4 DEF Interrupt, handle_tx_backoff_pending, rxdone_ack, edscan_handler, txn_handler
<1> QED
  BY <1>1, <1>2, <1>3, <1>4 DEF Next

LEMMA StrictInvariant == Spec => [](aborts = 0 => StrictInv)
<1> DEFINE I == aborts = 0 => StrictInv
<1>1. Init => I
  BY DEF Init, StrictInv, SingleToken, TransmitWhileWaiting, Tokens, One
<1>2. TypeOK /\ I /\ [Next]_vars => I'
  <2> SUFFICES ASSUME TypeOK, I, [Next]_vars, aborts' = 0
               PROVE  StrictInv'
    OBVIOUS
  <2>1. aborts = 0 /\ StrictInv
    BY AbortsStay
  <2>2. CASE UNCHANGED vars
    BY <2>1, <2>2, StrictKept DEF vars, radioState, backoff, clientState
  <2> QED
    BY <2>1, <2>2, StrictClient, StrictTask, StrictInterrupt DEF Next
<1> QED
  BY <1>1, <1>2, TypeCorrect, PTL DEF Spec

\* Until the client first gives up, the radio does not stay in the TRANSMIT state
\* after the answer.
THEOREM LeavesTransmit == Spec => []TransmitIsPending
<1>1. (aborts = 0 => StrictInv) => TransmitIsPending
  BY DEF StrictInv, TransmitIsPending
<1> QED
  BY <1>1, StrictInvariant, PTL

-----------------------------------------------------------------------------
(* A client that gives up: at most one token more each time.                *)

LEMMA TokenTypes ==
  ASSUME TypeOK
  PROVE  /\ One(tx_backoff_tmo) \in 0 .. 1 /\ One(tx_backoff_pending) \in 0 .. 1
         /\ One(pc = "waitTx") \in 0 .. 1 /\ One(client = "waiting") \in 0 .. 1
         /\ startEvents \in Nat /\ aborts \in Nat
<1>1. tx_backoff_tmo \in BOOLEAN /\ tx_backoff_pending \in BOOLEAN
  BY DEF TypeOK
<1>2. (pc = "waitTx") \in BOOLEAN /\ (client = "waiting") \in BOOLEAN
  OBVIOUS
<1>3. /\ One(tx_backoff_tmo) \in 0 .. 1 /\ One(tx_backoff_pending) \in 0 .. 1
      /\ One(pc = "waitTx") \in 0 .. 1 /\ One(client = "waiting") \in 0 .. 1
  BY <1>1, <1>2, OneType, Zenon
<1>4. startEvents \in Nat /\ aborts \in Nat
  BY RadioTxAssumption DEF TypeOK
<1> QED
  BY <1>3, <1>4

\* The tokens there are besides the one an attempt is started from or ends with.
OthersLeft(tmo) ==
  One(tmo) + One(tx_backoff_pending) + startEvents' + 1 <= One(client = "waiting") + aborts

LEMMA LeftOutcome ==
  ASSUME TypeOK, TypeOK', NEW tmo \in BOOLEAN, Outcome(tmo), OthersLeft(tmo),
         pc' = "run", aborts' = aborts
  PROVE  TokensLeft'
<1> USE DEF OthersLeft, TokensLeft, Tokens
<1>1. /\ One(tmo) \in 0 .. 1 /\ One(tx_backoff_pending) \in 0 .. 1
      /\ One(client = "waiting") \in 0 .. 1 /\ aborts \in Nat /\ startEvents' \in Nat
  BY OneType, TokenTypes DEF TypeOK
<1>2. One(pc' = "waitTx") = 0 /\ One(TRUE) = 1
  BY DEF One
<1>3. CASE Ended(tmo)
  <2>1. /\ One(client' = "waiting") = 0
        /\ One(tx_backoff_tmo') = One(tmo) /\ One(tx_backoff_pending') = One(tx_backoff_pending)
    BY <1>3 DEF Ended, One
  <2> QED
    BY <1>1, <1>2, <2>1
<1>4. CASE Restarted(tmo)
  <2>1. One(client' = "waiting") = One(client = "waiting")
    BY <1>4 DEF Restarted
  <2>2. \/ One(tx_backoff_pending') = 1 /\ One(tx_backoff_tmo') = One(tmo)
        \/ One(tx_backoff_tmo') = 1 /\ One(tx_backoff_pending') = One(tx_backoff_pending)
    BY <1>4, <1>2 DEF Restarted
  <2> QED
    BY <1>1, <1>2, <2>1, <2>2
<1> QED
  BY <1>3, <1>4 DEF Outcome

LEMMA LeftStart ==
  ASSUME TypeOK, TypeOK', NEW tmo \in BOOLEAN, BEE_RadioTxStart(tmo), OthersLeft(tmo), pc = "run"
  PROVE  TokensLeft'
<1>1. CASE pc' = "waitTx" /\ tx_backoff_tmo' = tmo
           /\ UNCHANGED <<tx_backoff_pending, clientState>>
  <2>1. /\ One(tmo) \in 0 .. 1 /\ One(tx_backoff_pending) \in 0 .. 1
        /\ One(client = "waiting") \in 0 .. 1 /\ aborts \in Nat /\ startEvents' \in Nat
    BY OneType, TokenTypes DEF TypeOK
  <2>2. One(pc' = "waitTx") = 1 /\ client' = client /\ aborts' = aborts
    BY <1>1 DEF One, clientState
  <2> QED
    BY <1>1, <2>1, <2>2 DEF OthersLeft, TokensLeft, Tokens
<1>2. CASE Outcome(tmo) /\ UNCHANGED <<pc, aborts>>
  BY <1>2, LeftOutcome
<1> QED
  BY <1>1, <1>2, StartEffect

\* A step that touches no token, nor the client.
LEMMA LeftKept ==
  ASSUME TokensLeft, UNCHANGED <<tx_backoff_tmo, tx_backoff_pending, startEvents, client, aborts>>,
         pc' = "waitTx" <=> pc = "waitTx"
  PROVE  TokensLeft'
  BY DEF TokensLeft, Tokens, One

LEMMA LeftClient ==
  ASSUME TypeOK, TypeOK', TokensLeft, ClientCall
  PROVE  TokensLeft'
<1> USE DEF radioState, backoff, radio, clientState
<1>1. CASE otPlatRadioEnable \/ otPlatRadioEnergyScan
           \/ \E s \in {"SLEEP", "RECEIVE"} : SetState(s)
  BY <1>1, LeftKept DEF otPlatRadioEnable, otPlatRadioEnergyScan, SetState
<1>2. CASE otPlatRadioDisable \/ dataInit
  <2>1. GiveUp /\ UNCHANGED <<tx_backoff_tmo, tx_backoff_pending, startEvents, pc>>
    BY <1>2 DEF otPlatRadioDisable, dataInit
  <2>2. CASE client = "waiting"
    <3>1. aborts' = aborts + 1 /\ client' = "idle"
      BY <2>1, <2>2 DEF GiveUp
    <3>2. One(client = "waiting") = 1 /\ One(client' = "waiting") = 0 /\ Tokens' = Tokens
      BY <2>1, <2>2, <3>1 DEF One, Tokens
    <3>3. Tokens <= 1 + aborts
      BY <3>2 DEF TokensLeft
    <3>4. Tokens \in Nat /\ aborts \in Nat
      BY TokenTypes DEF Tokens
    <3>5. Tokens' <= 0 + aborts'
      BY <3>1, <3>2, <3>3, <3>4
    <3> QED
      BY <3>2, <3>5 DEF TokensLeft
  <2>3. CASE client # "waiting"
    BY <2>1, <2>3, LeftKept DEF GiveUp
  <2> QED
    BY <2>2, <2>3
<1>3. ASSUME NEW f \in Frames, otPlatRadioTransmit(f)
      PROVE  TokensLeft'
  <2>1. /\ One(client = "waiting") = 0 /\ One(client' = "waiting") = 1
        /\ UNCHANGED <<startEvents, pc, aborts>>
    BY <1>3 DEF otPlatRadioTransmit, One
  <2>2. \/ One(tx_backoff_pending') = 1 /\ One(tx_backoff_tmo') = One(tx_backoff_tmo)
        \/ One(tx_backoff_tmo') = 1 /\ One(tx_backoff_pending') = One(tx_backoff_pending)
    <3>1. One(TRUE) = 1
      BY DEF One
    <3> QED
      BY <1>3, <3>1 DEF otPlatRadioTransmit, HandleTxBackoffDelay
  <2> QED
    BY <2>1, <2>2, TokenTypes DEF TokensLeft, Tokens
<1> QED
  BY <1>1, <1>2, <1>3 DEF ClientCall

LEMMA LeftTask ==
  ASSUME TypeOK, TypeOK', TokensLeft, TaskStep
  PROVE  TokensLeft'
<1> USE DEF radioState, backoff, clientState
<1>1. CASE BEE_RadioBackoffTimeout
  <2>1. PICK none \in BOOLEAN : none = FALSE
    OBVIOUS
  <2>2. /\ One(tx_backoff_tmo) = 1 /\ One(none) = 0 /\ One(pc = "waitTx") = 0
        /\ startEvents' = startEvents
    BY <1>1, <2>1 DEF BEE_RadioBackoffTimeout, One
  <2>3. OthersLeft(none)
    BY <2>2, TokenTypes DEF OthersLeft, TokensLeft, Tokens
  <2>4. BEE_RadioTxStart(none) /\ pc = "run"
    BY <1>1, <2>1 DEF BEE_RadioBackoffTimeout
  <2> QED
    BY <2>3, <2>4, LeftStart
<1>2. CASE TxStartEvent
  <2>1. /\ startEvents' = startEvents - 1 /\ One(pc = "waitTx") = 0 /\ tx_backoff_tmo \in BOOLEAN
    BY <1>2 DEF TxStartEvent, One, TypeOK
  <2>2. OthersLeft(tx_backoff_tmo)
    BY <2>1, TokenTypes DEF OthersLeft, TokensLeft, Tokens
  <2> QED
    BY <1>2, <2>1, <2>2, LeftStart DEF TxStartEvent
<1>3. CASE TxFinish
  <2>1. /\ One(pc = "waitTx") = 1 /\ startEvents' = startEvents /\ pc' = "run"
        /\ aborts' = aborts /\ tx_backoff_tmo \in BOOLEAN
    BY <1>3 DEF TxFinish, One, TypeOK
  <2>2. OthersLeft(tx_backoff_tmo)
    BY <2>1, TokenTypes DEF OthersLeft, TokensLeft, Tokens
  <2>3. Outcome(tx_backoff_tmo)
    BY <1>3, RadioTxOutcome DEF TxFinish, TypeOK
  <2> QED
    BY <2>1, <2>2, <2>3, LeftOutcome
<1>4. CASE BEE_RadioEnergyScan \/ otPlatRadioGetRssi \/ EdFinish
  BY <1>4, LeftKept DEF BEE_RadioEnergyScan, otPlatRadioGetRssi, EdBegin, EdFinish
<1> QED
  BY <1>1, <1>2, <1>3, <1>4 DEF TaskStep

LEMMA LeftInterrupt ==
  ASSUME TypeOK, TokensLeft, Interrupt
  PROVE  TokensLeft'
<1> USE DEF radioState, backoff, clientState
<1>1. CASE handle_tx_backoff_pending
  <2>1. /\ One(tx_backoff_pending) = 1 /\ One(tx_backoff_pending') = 0
        /\ startEvents' = startEvents + 1 /\ UNCHANGED <<tx_backoff_tmo, pc, client, aborts>>
    BY <1>1 DEF handle_tx_backoff_pending, One
  <2> QED
    BY <2>1, TokenTypes DEF TokensLeft, Tokens
<1>2. CASE rxdone_ack \/ edscan_handler \/ \E result \in Results : txn_handler(result)
  BY <1>2, LeftKept DEF rxdone_ack, edscan_handler, txn_handler
<1> QED
  BY <1>1, <1>2 DEF Interrupt

LEMMA LeftInvariant == Spec => []TokensLeft
<1>1. Init => TokensLeft
  BY RadioTxAssumption DEF Init, TokensLeft, Tokens, One
<1>2. TypeOK /\ TypeOK' /\ TokensLeft /\ [Next]_vars => TokensLeft'
  <2>1. TokensLeft /\ UNCHANGED vars => TokensLeft'
    BY LeftKept DEF vars, backoff, clientState
  <2> QED
    BY <2>1, LeftClient, LeftTask, LeftInterrupt DEF Next
<1> QED
  BY <1>1, <1>2, TypeCorrect, PTL DEF Spec

\* Until the client first gives up, the driver holds exactly one token per
\* transmission: it starts no attempt on a frame it does not own and answers
\* each otPlatRadioTransmit with one otPlatRadioTxDone.  Later it holds at most one
\* more for each time the client gave up, so that the stale answers run out.
THEOREM OneToken == Spec => []OneStartToken
<1>1. (aborts = 0 => StrictInv) /\ TokensLeft => OneStartToken
  BY DEF StrictInv, OneStartToken
<1> QED
  BY <1>1, StrictInvariant, LeftInvariant, PTL

-----------------------------------------------------------------------------
(* The refinement of TxService.                                             *)

\* What the ack flag, the result and the retries say of the frame on the air.
AnswerInv ==
  /\ ~frame.ackReq => sTransmitRetry = 0
  /\ pc = "waitTx" /\ ackFresh => ack_receive_done
  /\ pc = "waitTx" /\ op = "none" =>
       /\ tx_result = "TX_OK" => ~frame.ackReq
       /\ tx_result = "TX_WAIT_ACK" => frame.ackReq

\* BEE_RadioTx counts retries only for a frame that asks for an ack.
RetriesOfAcked ==
  /\ frame'.ackReq = frame.ackReq
  /\ ~frame.ackReq => sTransmitRetry' = sTransmitRetry

LEMMA RadioTxRetries ==
  ASSUME TypeOK, NEW tmo \in BOOLEAN, NEW result \in Results, BEE_RadioTx(result, tmo)
  PROVE  RetriesOfAcked
<1>1. ASSUME NEW error, NEW ack, TxExit(error, ack, tmo)
      PROVE  frame'.ackReq = frame.ackReq
  BY <1>1 DEF TxExit, TypeOK, Frames
<1>2. TxRetry(tmo) => frame'.ackReq = frame.ackReq
  BY DEF TxRetry
<1>3. TxNoAck(tmo) => RetriesOfAcked
  BY <1>1, <1>2 DEF TxNoAck, RetriesOfAcked
<1>4. TxNoAccess(result, tmo) => RetriesOfAcked
  BY <1>1, <1>2 DEF TxNoAccess, RetriesOfAcked
<1>5. TxMissed(tmo) \/ TxAcked(tmo) => RetriesOfAcked
  BY <1>1 DEF TxMissed, TxAcked, counters, RetriesOfAcked
<1>6. TxExit("NONE", FALSE, tmo) /\ UNCHANGED counters => RetriesOfAcked
  BY <1>1 DEF counters, RetriesOfAcked
<1> QED
  BY <1>3, <1>4, <1>5, <1>6 DEF BEE_RadioTx

LEMMA AnswerInvStart ==
  ASSUME TypeOK, AnswerInv, pc = "run", NEW tmo \in BOOLEAN, BEE_RadioTxStart(tmo)
  PROVE  AnswerInv'
<1>2. CASE /\ op' = "tx" /\ pc' = "waitTx" /\ ackFresh' = FALSE
           /\ UNCHANGED <<frame, counters>>
  BY <1>2 DEF AnswerInv, counters
<1>3. CASE BEE_RadioTx("TX_AT_FAIL", tmo) /\ UNCHANGED pc
  <2>1. PICK result \in Results : result = "TX_AT_FAIL"
    BY DEF Results
  <2>2. RetriesOfAcked
    BY <1>3, <2>1, RadioTxRetries
  <2> QED
    BY <1>3, <2>2 DEF AnswerInv, RetriesOfAcked
<1> QED
  BY <1>2, <1>3 DEF BEE_RadioTxStart

LEMMA AnswerInvStep ==
  ASSUME TypeOK, RadioInv, AnswerInv, [Next]_vars
  PROVE  AnswerInv'
<1> USE DEF radioState, counters, backoff, radio, ackFlag, clientState
<1>1. CASE ClientCall
  <2>1. pc' = "run" /\ ((~frame'.ackReq => sTransmitRetry' = 0)
                          \/ UNCHANGED <<frame, sTransmitRetry>>)
    BY <1>1 DEF ClientCall, otPlatRadioEnable, otPlatRadioDisable, SetState, dataInit,
                otPlatRadioEnergyScan, otPlatRadioTransmit
  <2> QED
    BY <2>1 DEF AnswerInv
<1>2. CASE BEE_RadioBackoffTimeout
  BY <1>2, AnswerInvStart DEF BEE_RadioBackoffTimeout
<1>3. CASE TxStartEvent
  BY <1>3, AnswerInvStart DEF TxStartEvent, TypeOK
<1>4. CASE TxFinish
  <2>1. pc' = "run" /\ RetriesOfAcked
    BY <1>4, RadioTxRetries DEF TxFinish, TypeOK
  <2> QED
    BY <2>1 DEF AnswerInv, RetriesOfAcked
<1>5. CASE BEE_RadioEnergyScan \/ otPlatRadioGetRssi \/ EdFinish
  BY <1>5 DEF BEE_RadioEnergyScan, otPlatRadioGetRssi, EdBegin, EdFinish, AnswerInv
<1>6. CASE handle_tx_backoff_pending \/ UNCHANGED vars
  BY <1>6 DEF handle_tx_backoff_pending, vars, AnswerInv
<1>7. CASE rxdone_ack
  BY <1>7 DEF rxdone_ack, AnswerInv
<1>8. ASSUME NEW result \in Results, txn_handler(result)
      PROVE  AnswerInv'
  BY <1>8 DEF txn_handler, Reportable, AnswerInv, RadioInv, SemaphoreOfOperation
<1>9. CASE edscan_handler
  BY <1>9 DEF edscan_handler, AnswerInv, RadioInv, SemaphoreOfOperation
<1> QED
  BY <1>1, <1>2, <1>3, <1>4, <1>5, <1>6, <1>7, <1>8, <1>9 DEF Next, TaskStep, Interrupt

LEMMA AnswerInvariant == Spec => []AnswerInv
<1>1. Init => AnswerInv
  BY DEF Init, AnswerInv
<1>2. TypeOK /\ RadioInv /\ AnswerInv /\ [Next]_vars => AnswerInv'
  BY AnswerInvStep
<1> QED
  BY <1>1, <1>2, TypeCorrect, RadioInvariant, PTL DEF Spec

\* The step of the service, or none.
Serves == Service!Next \/ UNCHANGED <<client, frame, Acked, strayAck, txDone, aborts>>

LEMMA ExitAnswers ==
  ASSUME TypeOK, NEW error \in Errors, NEW ack \in BOOLEAN, NEW tmo \in BOOLEAN,
         Service!Due, Service!Truthful(error, ack), TxExit(error, ack, tmo),
         strayAck' = (strayAck /\ ~ack), pc' = "run", aborts' = aborts
  PROVE  Serves
<1>1. Service!Answer(error, ack)
  BY DEF Service!Answer, TxExit, Acked
<1> QED
  BY <1>1 DEF Serves, Service!Next

\* What an attempt that ends with a result, from the radio or for want of time,
\* does for the client.
LEMMA AnswerOrRetry ==
  ASSUME TypeOK, NEW tmo \in BOOLEAN, NEW result \in Results, BEE_RadioTx(result, tmo),
         Service!Due, pc' = "run", aborts' = aborts,
         Acked => result = "TX_WAIT_ACK" /\ ack_receive_done,
         result = "TX_WAIT_ACK" /\ ack_receive_done => Acked \/ strayAck,
         result = "TX_WAIT_ACK" => frame.ackReq,
         result = "TX_OK" => ~frame.ackReq,
         ~frame.ackReq => sTransmitRetry = 0
  PROVE  Serves
<1> PICK no \in BOOLEAN : no = FALSE
  OBVIOUS
<1>1. ASSUME ~Acked, UNCHANGED strayAck, TxRetry(tmo)
      PROVE  Serves
  BY <1>1 DEF TxRetry, Serves, Acked
<1>2. ASSUME ~Acked, UNCHANGED strayAck, NEW error \in Errors, TxExit(error, no, tmo),
             error = "NONE" => ~frame.ackReq,
             error = "NO_ACK" => frame.ackReq \/ frame.delay = "timed"
      PROVE  Serves
  <2>1. Service!Truthful(error, no)
    BY <1>2 DEF Service!Truthful
  <2>2. strayAck' = (strayAck /\ ~no)
    BY <1>2, Zenon DEF TypeOK
  <2> QED
    BY <1>2, <2>1, <2>2, ExitAnswers
<1>3. CASE result = "TX_WAIT_ACK" /\ ack_receive_done /\ TxAcked(tmo)
  <2>1. PICK yes \in BOOLEAN, error \in Errors : yes = TRUE /\ error = "NONE"
    BY DEF Errors
  <2>2. (Acked \/ strayAck) /\ frame.ackReq /\ TxExit(error, yes, tmo)
    BY <1>3, <2>1 DEF TxAcked
  <2>3. Service!Truthful(error, yes)
    BY <2>1, <2>2 DEF Service!Truthful
  <2>4. strayAck' = (strayAck /\ ~yes)
    BY <1>3, <2>1 DEF TxAcked
  <2> QED
    BY <2>2, <2>3, <2>4, ExitAnswers
<1>4. CASE ~Acked /\ TxNoAck(tmo)
  <2>1. PICK error \in Errors : error = "NO_ACK"
    BY DEF Errors
  <2>2. UNCHANGED strayAck
    BY <1>4 DEF TxNoAck, ackFlag
  <2>3. CASE sTransmitRetry' = MaxRetry \/ frame.delay = "timed"
    <3>1. frame.ackReq \/ frame.delay = "timed"
      BY <1>4, <2>3, RadioTxAssumption DEF TxNoAck
    <3>2. TxExit(error, no, tmo)
      BY <1>4, <2>1, <2>3 DEF TxNoAck
    <3> QED
      BY <1>2, <1>4, <2>1, <2>2, <3>1, <3>2
  <2> QED
    BY <1>1, <1>4, <2>2, <2>3 DEF TxNoAck
<1>5. CASE ~Acked /\ frame.delay = "timed" /\ TxMissed(tmo)
  <2>1. PICK error \in Errors : error = "NO_ACK"
    BY DEF Errors
  <2> QED
    BY <1>2, <1>5, <2>1 DEF TxMissed, ackFlag
<1>6. CASE ~Acked /\ TxNoAccess(result, tmo)
  <2>1. PICK error \in Errors : error = "CHANNEL_ACCESS_FAILURE"
    BY DEF Errors
  <2>2. TxExit(error, no, tmo) \/ TxRetry(tmo)
    BY <1>6, <2>1 DEF TxNoAccess
  <2>3. UNCHANGED strayAck
    BY <1>6 DEF TxNoAccess, ackFlag
  <2> QED
    BY <1>1, <1>2, <1>6, <2>1, <2>2, <2>3
<1>7. CASE ~Acked /\ result = "TX_OK" /\ TxExit("NONE", FALSE, tmo) /\ UNCHANGED ackFlag
  <2>1. PICK error \in Errors : error = "NONE"
    BY DEF Errors
  <2> QED
    BY <1>2, <1>7, <2>1 DEF ackFlag
<1> QED
  BY <1>3, <1>4, <1>5, <1>6, <1>7, Zenon DEF BEE_RadioTx, ackFlag

LEMMA StartServes ==
  ASSUME TypeOK, AnswerInv, pc = "run", Service!Due,
         NEW tmo \in BOOLEAN, BEE_RadioTxStart(tmo)
  PROVE  Serves
<1>1. ~Acked
  BY DEF Acked
<1>2. CASE op' = "tx" /\ UNCHANGED <<frame, ackFlag, clientState>>
  BY <1>1, <1>2 DEF Serves, Acked, ackFlag, clientState
<1>3. CASE BEE_RadioTx("TX_AT_FAIL", tmo) /\ UNCHANGED <<pc, aborts>>
  <2>1. PICK result \in Results : result = "TX_AT_FAIL"
    BY DEF Results
  <2> QED
    BY <1>1, <1>3, <2>1, AnswerOrRetry DEF AnswerInv
<1> QED
  BY <1>2, <1>3 DEF BEE_RadioTxStart

\* An attempt is due: someone waits for it, unless the client gave up before.
LEMMA TokenDue ==
  ASSUME TypeOK, aborts = 0 => StrictInv,
         tx_backoff_tmo \/ startEvents > 0 \/ pc = "waitTx"
  PROVE  Service!Due
<1>1. CASE aborts = 0
  BY <1>1, OnlyToken DEF StrictInv, Service!Due, TypeOK
<1>2. CASE aborts # 0
  BY <1>2, RadioTxAssumption DEF Service!Due, TypeOK
<1> QED
  BY <1>1, <1>2

LEMMA ClientServed ==
  ASSUME TypeOK, ClientCall
  PROVE  Serves
<1> USE DEF clientState, radio, ackFlag
<1>1. pc = "run" /\ pc' = "run" /\ UNCHANGED strayAck
  BY DEF ClientCall, otPlatRadioEnable, otPlatRadioDisable, SetState, dataInit,
         otPlatRadioEnergyScan, otPlatRadioTransmit
<1>2. ~Acked /\ ~Acked'
  BY <1>1 DEF Acked
<1>3. CASE UNCHANGED <<frame, clientState>>
  BY <1>1, <1>3 DEF Serves, Acked
<1>4. CASE UNCHANGED frame /\ GiveUp /\ client = "waiting"
  <2>1. UNCHANGED <<Acked, strayAck>>
    BY <1>1, <1>2 DEF Acked
  <2>2. Service!GiveUp
    BY <1>4, <2>1, RadioTxAssumption DEF GiveUp, Service!GiveUp, TypeOK
  <2> QED
    BY <2>2 DEF Serves, Service!Next
<1>5. ASSUME NEW f \in Frames, otPlatRadioTransmit(f)
      PROVE  Serves
  <2>1. Service!Transmit(f)
    BY <1>2, <1>5 DEF otPlatRadioTransmit, Service!Transmit, Acked
  <2> QED
    BY <2>1 DEF Serves, Service!Next
<1>6. UNCHANGED frame /\ GiveUp => Serves
  BY <1>3, <1>4 DEF GiveUp
<1> QED
  BY <1>3, <1>5, <1>6 DEF ClientCall, otPlatRadioEnable, otPlatRadioDisable, SetState,
     dataInit, otPlatRadioEnergyScan

LEMMA TaskServes ==
  ASSUME TypeOK, RadioInv, AnswerInv, aborts = 0 => StrictInv, TaskStep
  PROVE  Serves
<1>1. CASE BEE_RadioBackoffTimeout
  <2>1. PICK none \in BOOLEAN : none = FALSE
    OBVIOUS
  <2>2. BEE_RadioTxStart(none) /\ pc = "run" /\ Service!Due
    BY <1>1, <2>1, TokenDue DEF BEE_RadioBackoffTimeout
  <2> QED
    BY <2>2, StartServes
<1>2. CASE TxStartEvent
  <2>1. BEE_RadioTxStart(tx_backoff_tmo) /\ pc = "run" /\ Service!Due
    BY <1>2, TokenDue DEF TxStartEvent
  <2> QED
    BY <2>1, StartServes DEF TypeOK
<1>3. CASE TxFinish
  <2>1. /\ pc = "waitTx" /\ op = "none" /\ pc' = "run" /\ aborts' = aborts
        /\ BEE_RadioTx(tx_result, tx_backoff_tmo)
        /\ Service!Due
    BY <1>3, TokenDue DEF TxFinish, RadioInv, SemaphoreOfOperation, One
  <2> QED
    BY <2>1, AnswerOrRetry DEF AnswerInv, RadioInv, AckOfThisAttempt, Acked, TypeOK
<1>4. CASE BEE_RadioEnergyScan \/ otPlatRadioGetRssi \/ EdFinish
  BY <1>4 DEF BEE_RadioEnergyScan, otPlatRadioGetRssi, EdBegin, EdFinish,
     clientState, ackFlag, Serves, Acked
<1> QED
  BY <1>1, <1>2, <1>3, <1>4 DEF TaskStep

LEMMA InterruptServes ==
  ASSUME TypeOK, RadioInv, AnswerInv, aborts = 0 => StrictInv, Interrupt
  PROVE  Serves
<1> USE DEF clientState, radio, ackFlag
<1>1. CASE UNCHANGED <<frame, clientState, Acked, strayAck>>
  BY <1>1 DEF Serves
<1>2. CASE /\ UNCHANGED <<frame, clientState, strayAck>>
           /\ pc = "waitTx" /\ frame.ackReq /\ Acked'
  <2>1. Service!Due
    BY <1>2, TokenDue
  <2>2. Service!Acknowledge
    BY <1>2, <2>1 DEF Service!Acknowledge
  <2> QED
    BY <2>2 DEF Serves, Service!Next
<1>3. CASE UNCHANGED <<frame, clientState, Acked>> /\ strayAck'
  <2>1. Service!StrayAck
    BY <1>3 DEF Service!StrayAck, TypeOK
  <2> QED
    BY <2>1 DEF Serves, Service!Next
<1>4. ASSUME NEW result \in Results, txn_handler(result)
      PROVE  Serves
  <2>1. /\ op = "tx" /\ pc = "waitTx" /\ op' = "none" /\ tx_result' = result
        /\ UNCHANGED <<frame, clientState, pc>>
    BY <1>4 DEF txn_handler, RadioInv, SemaphoreOfOperation
  <2>2. ~Acked
    BY <2>1 DEF Acked
  <2>3. CASE result = "TX_WAIT_ACK"
    <3>1. frame.ackReq /\ UNCHANGED strayAck
      BY <1>4, <2>3 DEF txn_handler, Reportable, TypeOK
    <3>2. Acked' \/ UNCHANGED Acked
      BY <2>2 DEF Acked
    <3> QED
      BY <1>1, <1>2, <2>1, <3>1, <3>2
  <2>4. CASE result # "TX_WAIT_ACK"
    <3>1. UNCHANGED Acked
      BY <2>1, <2>2, <2>4 DEF Acked
    <3>2. strayAck' \/ UNCHANGED strayAck
      BY <1>4 DEF txn_handler, TypeOK
    <3> QED
      BY <1>1, <1>3, <2>1, <3>1, <3>2
  <2> QED
    BY <2>3, <2>4
<1>5. CASE rxdone_ack
  <2>1. UNCHANGED <<frame, clientState, op, pc, tx_result>>
    BY <1>5 DEF rxdone_ack
  <2>2. CASE strayAck' /\ UNCHANGED ackFresh
    BY <1>3, <2>1, <2>2 DEF Acked
  <2>3. CASE pc = "waitTx" /\ frame.ackReq /\ UNCHANGED strayAck /\ ackFresh'
    <3>1. Acked' \/ UNCHANGED Acked
      BY <2>1, <2>3 DEF Acked
    <3> QED
      BY <1>1, <1>2, <2>1, <2>3, <3>1
  <2> QED
    BY <1>5, <2>2, <2>3 DEF rxdone_ack
<1>6. CASE handle_tx_backoff_pending
  BY <1>1, <1>6 DEF handle_tx_backoff_pending, Acked
<1>7. CASE edscan_handler
  BY <1>1, <1>7 DEF edscan_handler, Acked, RadioInv, SemaphoreOfOperation
<1> QED
  BY <1>4, <1>5, <1>6, <1>7 DEF Interrupt

\* For any number of retries and any client that may give up, the transmit path
\* implements its service, whenever ACK frames arrive: a frame that asks for an ack
\* is answered as sent if it was acknowledged in its last attempt, and otherwise only
\* at the cost of a stray ack; until the client gives up, an answer comes only while
\* it waits.
THEOREM RefinesService == Spec => ImplementsService
<1>1. Init => Service!Init
  <2>1. Init => frame \in Frames /\ txDone \in [error : Errors, ack : BOOLEAN]
    BY TypeInit DEF TypeOK
  <2> QED
    BY <2>1 DEF Init, Service!Init, Acked
<1>2. TypeOK /\ RadioInv /\ AnswerInv /\ (aborts = 0 => StrictInv) /\ [Next]_vars
        => [Service!Next]_(Service!serviceVars)
  <2>1. Serves => [Service!Next]_(Service!serviceVars)
    BY DEF Serves, Service!serviceVars
  <2>2. UNCHANGED vars => Serves
    BY DEF vars, clientState, radio, ackFlag, Serves, Acked
  <2> QED
    BY <2>1, <2>2, ClientServed, TaskServes, InterruptServes DEF Next
<1> QED
  BY <1>1, <1>2, TypeCorrect, RadioInvariant, AnswerInvariant, StrictInvariant, PTL
  DEF Spec, ImplementsService, Service!Spec
=============================================================================
