----------------------------- MODULE Uart_proof -----------------------------
(***************************************************************************)
(* Proofs about Uart, for every ring size, burst and number of packets.    *)
(*                                                                         *)
(* SemaphoreOfSender needs who has the mutex in each state of the two      *)
(* senders.  BytesInOrder needs, between BEE_UartRx's call of OpenThread   *)
(* and its move of the head, where the head will be (Front), that the      *)
(* snapshot is behind what is published and that behind what is received,  *)
(* and which byte each slot between Front and rx_tail holds.               *)
(***************************************************************************)
EXTENDS Uart, RingLemmas

Numbers == 0 .. ByteNumbers - 1

RingTypeOK ==
  /\ rx_buffer \in [Slots -> Numbers]
  /\ rx_tail \in Slots /\ curr_rx_tail \in Slots /\ rx_head \in Slots /\ tail \in Slots
  /\ received \in Numbers /\ given \in Numbers
  /\ overrun \in BOOLEAN /\ jumbled \in BOOLEAN

TaskTypeOK ==
  /\ build \in {"serial", "dlps", "usb"}
  /\ rxEvents \in 0 .. MaxEvents /\ txEvents \in 0 .. MaxEvents
  /\ task \in {"idle", "rx", "received", "locking", "sending"}
  /\ packets \in 0 .. MaxPackets
  /\ client \in BOOLEAN /\ sTransmitDone \in BOOLEAN
  /\ usb_uart_ready \in BOOLEAN /\ leaked \in BOOLEAN
  /\ mutex \in {"none", "task", "dfu"} /\ sem \in {0, 1}
  /\ inFlight \in {"none", "task", "dfu", "refused"}
  /\ dfu \in {"idle", "locked", "waiting"}

UartTypeOK == RingTypeOK /\ TaskTypeOK

-----------------------------------------------------------------------------
(* Arithmetic of the ring and of byte numbers.                             *)

LEMMA UartSizes ==
  /\ kReceiveBufferSize \in Sizes /\ ByteNumbers \in Sizes
  /\ kReceiveBufferSize > 1 /\ ByteNumbers >= 2 * kReceiveBufferSize
  /\ Slots = Ring(kReceiveBufferSize) /\ Numbers = Ring(ByteNumbers)
  BY UartAssumption DEF Sizes, Slots, Numbers, Ring

\* % by its bounds, for any dividend.
LEMMA ModBounds ==
  ASSUME NEW N \in Sizes, NEW a \in Int
  PROVE  a % N \in Ring(N)
  BY SMT DEF Sizes, Ring

LEMMA RingIndex ==
  ASSUME NEW s \in Slots, NEW n \in 0 .. kReceiveBufferSize
  PROVE  /\ (s + n) % kReceiveBufferSize \in Slots
         /\ (s + n) % kReceiveBufferSize
              = IF s + n < kReceiveBufferSize THEN s + n ELSE s + n - kReceiveBufferSize
<1> DEFINE N == kReceiveBufferSize
<1>1. N \in Sizes /\ s \in 0 .. N - 1 /\ n \in 0 .. N
  BY UartSizes DEF Slots
<1> HIDE DEF N
<1>2. s + n \in Twice(N)
  BY <1>1 DEF Twice, Sizes
<1>3. (s + n) % N = IF s + n < N THEN s + n ELSE s + n - N
  BY <1>1, <1>2, ModRange DEF Sizes
<1>4. (s + n) % N \in 0 .. N - 1
  BY <1>1, <1>3 DEF Sizes
<1> QED
  BY <1>3, <1>4 DEF N, Slots

LEMMA DistanceType ==
  ASSUME NEW a \in Slots, NEW b \in Slots
  PROVE  /\ Distance(a, b) \in Slots
         /\ Distance(a, b) = IF b >= a THEN b - a ELSE b - a + kReceiveBufferSize
<1> DEFINE N == kReceiveBufferSize
<1>1. N \in Sizes /\ a \in 0 .. N - 1 /\ b \in 0 .. N - 1
  BY UartSizes DEF Slots
<1> HIDE DEF N
<1>2. b - a \in Signed(N)
  BY <1>1 DEF Signed, Sizes
<1>3. (b - a) % N = IF b - a >= 0 THEN b - a ELSE b - a + N
  BY <1>1, <1>2, ModSigned DEF Sizes
<1>4. (b - a) % N \in 0 .. N - 1
  BY <1>1, <1>3 DEF Sizes
<1>5. (b - a) % N = IF b >= a THEN b - a ELSE b - a + N
  BY <1>1, <1>3 DEF Sizes
<1> QED
  BY <1>4, <1>5 DEF N, Slots, Distance

LEMMA DistanceNat == ASSUME NEW a \in Slots, NEW b \in Slots PROVE Distance(a, b) \in Nat
<1>1. \A s \in Slots : s \in Nat
  BY UartAssumption DEF Slots
<1> QED
  BY <1>1, DistanceType

\* The number of the byte n behind byte b, and how far it is behind it.
LEMMA ByteAfter ==
  ASSUME NEW b \in Numbers, NEW n \in 0 .. kReceiveBufferSize
  PROVE  /\ (b + n) % ByteNumbers \in Numbers
         /\ (b + n) % ByteNumbers = IF b + n < ByteNumbers THEN b + n ELSE b + n - ByteNumbers
<1> DEFINE M == ByteNumbers
<1>1. M \in Sizes /\ b \in 0 .. M - 1 /\ n \in 0 .. M
  BY UartSizes DEF Numbers, Sizes
<1> HIDE DEF M
<1>2. b + n \in Twice(M)
  BY <1>1 DEF Twice, Sizes
<1>3. (b + n) % M = IF b + n < M THEN b + n ELSE b + n - M
  BY <1>1, <1>2, ModRange DEF Sizes
<1>4. (b + n) % M \in 0 .. M - 1
  BY <1>1, <1>3 DEF Sizes
<1> QED
  BY <1>3, <1>4 DEF M, Numbers

LEMMA ByteGap ==
  ASSUME NEW a \in Numbers, NEW b \in Numbers
  PROVE  /\ (b - a) % ByteNumbers \in Numbers
         /\ (b - a) % ByteNumbers = IF b >= a THEN b - a ELSE b - a + ByteNumbers
<1> DEFINE M == ByteNumbers
<1>1. M \in Sizes /\ a \in 0 .. M - 1 /\ b \in 0 .. M - 1
  BY UartSizes DEF Numbers
<1> HIDE DEF M
<1>2. b - a \in Signed(M)
  BY <1>1 DEF Signed, Sizes
<1>3. (b - a) % M = IF b - a >= 0 THEN b - a ELSE b - a + M
  BY <1>1, <1>2, ModSigned DEF Sizes
<1>4. (b - a) % M \in 0 .. M - 1
  BY <1>1, <1>3 DEF Sizes
<1>5. (b - a) % M = IF b >= a THEN b - a ELSE b - a + M
  BY <1>1, <1>3 DEF Sizes
<1> QED
  BY <1>4, <1>5 DEF M, Numbers

LEMMA ByteOf ==
  ASSUME NEW a \in Numbers, NEW b \in Numbers, NEW n \in 0 .. kReceiveBufferSize
  PROVE  (b - a) % ByteNumbers = n <=> b = (a + n) % ByteNumbers
<1>1. /\ (a + n) % ByteNumbers = IF a + n < ByteNumbers THEN a + n ELSE a + n - ByteNumbers
      /\ (b - a) % ByteNumbers = IF b >= a THEN b - a ELSE b - a + ByteNumbers
  BY ByteAfter, ByteGap
<1>2. n \in Nat /\ n < ByteNumbers /\ a \in 0 .. ByteNumbers - 1 /\ b \in 0 .. ByteNumbers - 1
      /\ ByteNumbers \in Nat
  BY UartAssumption DEF Numbers
<1> QED
  BY <1>1, <1>2

LEMMA ByteSum ==
  ASSUME NEW b \in Numbers, NEW m \in Nat, NEW n \in Nat, m + n <= kReceiveBufferSize
  PROVE  (((b + m) % ByteNumbers) + n) % ByteNumbers = (b + m + n) % ByteNumbers
<1>1. m \in 0 .. kReceiveBufferSize /\ n \in 0 .. kReceiveBufferSize
      /\ m + n \in 0 .. kReceiveBufferSize
  BY UartAssumption
<1>2. /\ (b + m) % ByteNumbers \in Numbers
      /\ (b + m) % ByteNumbers = IF b + m < ByteNumbers THEN b + m ELSE b + m - ByteNumbers
  BY <1>1, ByteAfter
<1>3. (((b + m) % ByteNumbers) + n) % ByteNumbers
        = IF ((b + m) % ByteNumbers) + n < ByteNumbers THEN ((b + m) % ByteNumbers) + n
          ELSE ((b + m) % ByteNumbers) + n - ByteNumbers
  BY <1>1, <1>2, ByteAfter
<1>4. (b + (m + n)) % ByteNumbers = IF b + (m + n) < ByteNumbers THEN b + (m + n)
                                    ELSE b + (m + n) - ByteNumbers
  BY <1>1, ByteAfter
<1>5. b \in 0 .. ByteNumbers - 1 /\ ByteNumbers \in Nat /\ 2 * kReceiveBufferSize <= ByteNumbers
      /\ kReceiveBufferSize \in Nat
  BY UartAssumption DEF Numbers
<1>6. b + (m + n) = b + m + n
  BY <1>5
<1> DEFINE x == (b + m) % ByteNumbers
           y == (x + n) % ByteNumbers
           z == (b + (m + n)) % ByteNumbers
<1>7. /\ x = IF b + m < ByteNumbers THEN b + m ELSE b + m - ByteNumbers
      /\ y = IF x + n < ByteNumbers THEN x + n ELSE x + n - ByteNumbers
      /\ z = IF b + (m + n) < ByteNumbers THEN b + (m + n) ELSE b + (m + n) - ByteNumbers
  BY <1>2, <1>3, <1>4
<1> HIDE DEF x, y, z
<1>8. y = z
  BY <1>1, <1>5, <1>7
<1> QED
  BY <1>6, <1>8 DEF x, y, z

\* Distances add up round the ring.
LEMMA DistanceSum ==
  ASSUME NEW a \in Slots, NEW b \in Slots, NEW c \in Slots
  PROVE  /\ Distance(a, b) <= Distance(a, c) =>
              Distance(b, c) = Distance(a, c) - Distance(a, b)
         /\ Distance(a, b) + Distance(b, c) < kReceiveBufferSize =>
              Distance(a, c) = Distance(a, b) + Distance(b, c)
<1>1. /\ Distance(a, b) = IF b >= a THEN b - a ELSE b - a + kReceiveBufferSize
      /\ Distance(b, c) = IF c >= b THEN c - b ELSE c - b + kReceiveBufferSize
      /\ Distance(a, c) = IF c >= a THEN c - a ELSE c - a + kReceiveBufferSize
  BY DistanceType
<1>2. /\ a \in 0 .. kReceiveBufferSize - 1 /\ b \in 0 .. kReceiveBufferSize - 1
      /\ c \in 0 .. kReceiveBufferSize - 1 /\ kReceiveBufferSize \in Nat
  BY UartAssumption DEF Slots
<1> QED
  BY <1>1, <1>2

\* The slot n behind s is at distance n, and the only one that is.
LEMMA DistanceOfNth ==
  ASSUME NEW s \in Slots, NEW n \in Slots
  PROVE  /\ (s + n) % kReceiveBufferSize \in Slots
         /\ Distance(s, (s + n) % kReceiveBufferSize) = n
<1>1. n \in 0 .. kReceiveBufferSize /\ kReceiveBufferSize \in Nat
      /\ s \in 0 .. kReceiveBufferSize - 1 /\ n \in 0 .. kReceiveBufferSize - 1
  BY UartAssumption DEF Slots
<1> DEFINE e == (s + n) % kReceiveBufferSize
<1>2. /\ e \in Slots
      /\ e = IF s + n < kReceiveBufferSize THEN s + n ELSE s + n - kReceiveBufferSize
  BY <1>1, RingIndex
<1>3. Distance(s, e) = IF e >= s THEN e - s ELSE e - s + kReceiveBufferSize
  BY <1>2, DistanceType
<1> HIDE DEF e
<1>4. Distance(s, e) = n
  BY <1>1, <1>2, <1>3
<1> QED
  BY <1>2, <1>4 DEF e

LEMMA NthOfDistance ==
  ASSUME NEW s \in Slots, NEW i \in Slots
  PROVE  (s + Distance(s, i)) % kReceiveBufferSize = i
<1> DEFINE d == Distance(s, i)
<1>1. /\ d \in Slots
      /\ d = IF i >= s THEN i - s ELSE i - s + kReceiveBufferSize
  BY DistanceType
<1> HIDE DEF d
<1>2. /\ d \in 0 .. kReceiveBufferSize /\ kReceiveBufferSize \in Nat
      /\ s \in 0 .. kReceiveBufferSize - 1 /\ i \in 0 .. kReceiveBufferSize - 1
  BY <1>1, UartAssumption DEF Slots
<1>3. (s + d) % kReceiveBufferSize
        = IF s + d < kReceiveBufferSize THEN s + d ELSE s + d - kReceiveBufferSize
  BY <1>2, RingIndex
<1> QED
  BY <1>1, <1>2, <1>3 DEF d

-----------------------------------------------------------------------------
(* Types.                                                                  *)

LEMMA UartTypeInit == Init => UartTypeOK
<1>1. 0 \in Slots /\ 0 \in Numbers /\ 0 \in 0 .. MaxEvents /\ 0 \in 0 .. MaxPackets
  BY UartAssumption DEF Slots, Numbers
<1> QED
  BY <1>1 DEF Init, UartTypeOK, RingTypeOK, TaskTypeOK

LEMMA StoreType ==
  ASSUME RingTypeOK, NEW n \in 0 .. MaxBurst, Store(n)
  PROVE  /\ rx_buffer' \in [Slots -> Numbers] /\ rx_tail' \in Slots
         /\ received' \in Numbers /\ overrun' \in BOOLEAN
<1>1. /\ received \in Int /\ rx_tail \in Int /\ n \in Int
      /\ rx_tail \in Slots /\ overrun \in BOOLEAN
  BY UartAssumption DEF RingTypeOK, Slots, Numbers
<1>2. ASSUME NEW a \in Int PROVE a % kReceiveBufferSize \in Slots /\ a % ByteNumbers \in Numbers
  BY UartSizes, ModBounds
<1>3. rx_tail' \in Slots
  BY <1>1, <1>2 DEF Store, Advanced
<1>4. received' \in Numbers
  BY <1>1, <1>2 DEF Store
<1>5. ASSUME NEW i \in Slots
      PROVE  (received + 1 + Distance(rx_tail, i)) % ByteNumbers \in Numbers
  <2>1. Distance(rx_tail, i) \in Int
    BY <1>1, DistanceType, UartAssumption DEF Slots
  <2>2. received + 1 + Distance(rx_tail, i) \in Int
    BY <1>1, <2>1
  <2> QED
    BY <1>2, <2>2
<1>6. rx_buffer' \in [Slots -> Numbers]
  BY <1>5 DEF Store, RingTypeOK
<1>7. overrun' \in BOOLEAN
  BY DEF Store
<1> QED
  BY <1>3, <1>4, <1>6, <1>7

LEMMA RingTypeStep == ASSUME UartTypeOK, [Next]_vars PROVE RingTypeOK'
<1> USE DEF UartTypeOK
<1>1. ASSUME NEW n \in 0 .. MaxBurst, ReceiveAndPublish(n) PROVE RingTypeOK'
  <2>1. Store(n) /\ curr_rx_tail' = rx_tail' /\ UNCHANGED <<rx_head, tail, given, jumbled>>
    BY <1>1 DEF ReceiveAndPublish, Publish, rx
  <2> QED
    BY <2>1, StoreType DEF RingTypeOK
<1>2. ASSUME NEW n \in 0 .. MaxBurst, ReceiveOnly(n) PROVE RingTypeOK'
  <2>1. Store(n) /\ UNCHANGED <<curr_rx_tail, rx_head, tail, given, jumbled>>
    BY <1>2 DEF ReceiveOnly, rx
  <2> QED
    BY <2>1, StoreType DEF RingTypeOK
<1>3. CASE BEE_UartRx
  BY <1>3 DEF BEE_UartRx, ring, RingTypeOK
<1>4. CASE otPlatUartReceived
  <2>1. ChunkEnd - 1 \in Slots
    BY <1>4, UartAssumption DEF otPlatUartReceived, ChunkEnd, RingTypeOK, Slots
  <2>2. given' \in Numbers /\ jumbled' \in BOOLEAN
    BY <1>4, <2>1 DEF otPlatUartReceived, RingTypeOK
  <2> QED
    BY <1>4, <2>2 DEF otPlatUartReceived, ring, RingTypeOK
<1>5. CASE MoveHead
  BY <1>5, UartAssumption DEF MoveHead, NewHead, ring, RingTypeOK, Slots
<1>6. CASE \/ RxDone \/ otPlatUartSend \/ UartTxStep \/ TransferEnds \/ SetControlLineStateCb
           \/ DfuTakeMutex \/ DfuStep \/ UNCHANGED vars
  <2>1. UNCHANGED <<ring, rx>>
    BY <1>6 DEF RxDone, otPlatUartSend, UartTxStep, TakeMutex, SemTaken, BEE_UartTx,
       TransferEnds, SetControlLineStateCb, DfuTakeMutex, DfuStep, DfuSend, DfuSemTaken, vars
  <2> QED
    BY <2>1 DEF ring, rx, RingTypeOK
<1> QED
  BY <1>1, <1>2, <1>3, <1>4, <1>5, <1>6 DEF Next, UartRxStep

LEMMA EventCounts ==
  ASSUME NEW n \in 0 .. MaxEvents
  PROVE  /\ More(n) \in 0 .. MaxEvents
         /\ n > 0 => \A m \in Fewer(n) : m \in 0 .. MaxEvents
  BY UartAssumption DEF More, Fewer

LEMMA TaskTypeStep == ASSUME UartTypeOK, [Next]_vars PROVE TaskTypeOK'
<1> USE DEF UartTypeOK
<1>1. ASSUME NEW n \in 0 .. MaxBurst, ReceiveAndPublish(n) \/ ReceiveOnly(n)
      PROVE  TaskTypeOK'
  <2>1. /\ UNCHANGED <<build, task, tx, pipe>>
        /\ rxEvents' \in {rxEvents, More(rxEvents)}
    BY <1>1 DEF ReceiveAndPublish, ReceiveOnly, Publish
  <2> QED
    BY <2>1, EventCounts DEF tx, pipe, TaskTypeOK
<1>2. CASE UartRxStep
  <2>1. /\ UNCHANGED <<build, tx, pipe>>
        /\ task' \in {"rx", "received", "idle"}
        /\ \/ rxEvents' = rxEvents
           \/ rxEvents > 0 /\ rxEvents' \in Fewer(rxEvents)
    BY <1>2 DEF UartRxStep, BEE_UartRx, otPlatUartReceived, MoveHead, RxDone
  <2> QED
    BY <2>1, EventCounts DEF tx, pipe, TaskTypeOK
<1>3. CASE otPlatUartSend
  <2>1. /\ UNCHANGED <<build, rxEvents, usb_uart_ready, mutex, sem, dfu, leaked>>
        /\ task' \in {"sending", "locking", "idle"}
        /\ packets' = packets \/ packets' \in 1 .. MaxPackets
        /\ inFlight' \in {inFlight, "task", "refused"}
        /\ txEvents' \in {txEvents, More(txEvents)}
    BY <1>3 DEF otPlatUartSend, TransmitDone
  <2>2. packets' \in 0 .. MaxPackets /\ txEvents' \in 0 .. MaxEvents
    BY <2>1, EventCounts, UartAssumption DEF TaskTypeOK
  <2>3. client' \in BOOLEAN /\ sTransmitDone' \in BOOLEAN
    BY <1>3, Zenon DEF otPlatUartSend, TransmitDone, TaskTypeOK
  <2>4. /\ build' \in {"serial", "dlps", "usb"} /\ rxEvents' \in 0 .. MaxEvents
        /\ task' \in {"idle", "rx", "received", "locking", "sending"}
        /\ mutex' \in {"none", "task", "dfu"} /\ sem' \in {0, 1}
        /\ inFlight' \in {"none", "task", "dfu", "refused"} /\ dfu' \in {"idle", "locked", "waiting"}
    BY <2>1 DEF TaskTypeOK
  <2>5. usb_uart_ready' \in BOOLEAN /\ leaked' \in BOOLEAN
    BY <2>1, Zenon DEF TaskTypeOK
  <2> QED
    BY <2>2, <2>3, <2>4, <2>5, Zenon DEF TaskTypeOK
<1>4. CASE TakeMutex
  BY <1>4 DEF StartTransfer, TakeMutex, tx, TaskTypeOK
<1>5. CASE SemTaken
  <2>1. /\ UNCHANGED <<build, rxEvents, usb_uart_ready, dfu, leaked>>
        /\ sem' = 0 /\ mutex' \in {mutex, "task", "none"} /\ inFlight' \in {inFlight, "task", "refused"}
        /\ task' \in {task, "idle"}
        /\ \/ packets' = packets
           \/ packets' = packets - 1 /\ (packets' > 0 \/ packets' = 0)
        /\ txEvents' \in {txEvents, More(txEvents)}
    BY <1>5 DEF StartTransfer, SemTaken, TransmitDone, MutexAfter
  <2>2. packets' \in 0 .. MaxPackets /\ txEvents' \in 0 .. MaxEvents
    BY <2>1, EventCounts, UartAssumption DEF TaskTypeOK
  <2>3. client' \in BOOLEAN /\ sTransmitDone' \in BOOLEAN
    BY <1>5, Zenon DEF SemTaken, TransmitDone, TaskTypeOK
  <2>4. /\ build' \in {"serial", "dlps", "usb"} /\ rxEvents' \in 0 .. MaxEvents
        /\ task' \in {"idle", "rx", "received", "locking", "sending"}
        /\ mutex' \in {"none", "task", "dfu"} /\ sem' \in {0, 1}
        /\ inFlight' \in {"none", "task", "dfu", "refused"} /\ dfu' \in {"idle", "locked", "waiting"}
    BY <2>1 DEF TaskTypeOK
  <2>5. usb_uart_ready' \in BOOLEAN /\ leaked' \in BOOLEAN
    BY <2>1, Zenon DEF TaskTypeOK
  <2> QED
    BY <2>2, <2>3, <2>4, <2>5, Zenon DEF TaskTypeOK
<1>6. CASE BEE_UartTx
  <2>1. /\ UNCHANGED <<build, rxEvents, task, packets, pipe>>
        /\ txEvents > 0 /\ txEvents' \in Fewer(txEvents)
        /\ sTransmitDone' = FALSE /\ client' \in BOOLEAN
    BY <1>6 DEF BEE_UartTx, DoneFlagAfter
  <2>2. rxEvents' \in 0 .. MaxEvents /\ txEvents' \in 0 .. MaxEvents
    BY <2>1, EventCounts DEF TaskTypeOK
  <2> QED
    BY <2>1, <2>2, Zenon DEF pipe, TaskTypeOK
<1>7. CASE TransferEnds \/ SetControlLineStateCb
  BY <1>7 DEF TransferEnds, SetControlLineStateCb, tx, TaskTypeOK
<1>8. CASE DfuTakeMutex \/ DfuStep
  BY <1>8 DEF DfuTakeMutex, DfuStep, DfuSend, StartTransfer, DfuSemTaken, tx, TaskTypeOK
<1>9. CASE UNCHANGED vars
  BY <1>9 DEF vars, tx, pipe, TaskTypeOK
<1> QED
  BY <1>1, <1>2, <1>3, <1>4, <1>5, <1>6, <1>7, <1>8, <1>9 DEF Next, UartTxStep

\* uart.c, all three builds: indices stay inside rx_buffer and the counts of events,
\* packets and semaphore in their ranges.
THEOREM UartTypeCorrect == Spec => []UartTypeOK
<1>1. UartTypeOK /\ [Next]_vars => UartTypeOK'
  BY RingTypeStep, TaskTypeStep DEF UartTypeOK
<1> QED
  BY <1>1, UartTypeInit, PTL DEF Spec

-----------------------------------------------------------------------------
(* The semaphore.                                                          *)

\* Who holds the mutex: a sender in the middle of a transfer, and nobody in the
\* builds that do not share.
MutexInv ==
  /\ build = "usb" => (mutex = "task" <=> task = "sending")
  /\ build # "usb" => dfu = "idle" /\ mutex = "none" /\ task # "locking"
  /\ dfu # "idle" => mutex = "dfu"
  /\ build = "usb" /\ task \in {"locking", "sending"} => packets > 0

SemInv == MutexInv /\ SemaphoreOfSender

LEMMA SemInvStep == ASSUME UartTypeOK, SemInv, [Next]_vars PROVE SemInv'
<1> USE DEF SemInv, MutexInv, SemaphoreOfSender
<1>1. ASSUME NEW n \in 0 .. MaxBurst, ReceiveAndPublish(n) \/ ReceiveOnly(n) PROVE SemInv'
  <2>1. UNCHANGED <<build, task, packets, mutex, sem, inFlight, dfu>>
    BY <1>1 DEF ReceiveAndPublish, ReceiveOnly, tx, pipe
  <2> QED
    BY <2>1
<1>2. CASE UartRxStep
  <2>1. /\ UNCHANGED <<build, packets, mutex, sem, inFlight, dfu>>
        /\ task \notin {"sending", "locking"} /\ task' \notin {"sending", "locking"}
    BY <1>2 DEF UartRxStep, BEE_UartRx, otPlatUartReceived, MoveHead, RxDone, tx, pipe
  <2> QED
    BY <2>1
<1>3. CASE otPlatUartSend
  BY <1>3 DEF otPlatUartSend, TransmitDone
<1>4. CASE TakeMutex
  BY <1>4 DEF TakeMutex, StartTransfer, tx
<1>5. CASE SemTaken
  <2>1. CASE build = "serial"
    BY <1>5, <2>1 DEF SemTaken
  <2>2. CASE build = "usb"
    <3>1. /\ task = "sending" /\ sem' = 0 /\ packets' = packets - 1 /\ mutex' = MutexAfter
          /\ UNCHANGED <<build, dfu>> /\ inFlight = "none"
      BY <1>5, <2>2 DEF SemTaken
    <3>2. packets \in Nat /\ packets > 0
      BY <2>2, <3>1, UartAssumption DEF UartTypeOK, TaskTypeOK
    <3>3. CASE packets > 1
      <4>1. task' = "sending" /\ inFlight' \in {"task", "refused"} /\ mutex' = "task" /\ packets' > 0
        BY <1>5, <2>2, <3>1, <3>2, <3>3 DEF SemTaken, MutexAfter, StartTransfer
      <4> QED
        BY <2>2, <3>1, <4>1
    <3>4. CASE packets = 1
      <4>1. task' = "idle" /\ inFlight' = "none" /\ mutex' = "none"
        BY <1>5, <2>2, <3>1, <3>2, <3>4 DEF SemTaken, MutexAfter, TransmitDone
      <4> QED
        BY <2>2, <3>1, <4>1
    <3> QED
      BY <3>2, <3>3, <3>4
  <2> QED
    BY <1>5, <2>1, <2>2 DEF SemTaken
<1>6. CASE BEE_UartTx
  BY <1>6 DEF BEE_UartTx, pipe
<1>7. CASE TransferEnds
  BY <1>7 DEF TransferEnds, tx
<1>8. CASE SetControlLineStateCb
  BY <1>8 DEF SetControlLineStateCb, tx
<1>9. CASE DfuTakeMutex
  BY <1>9 DEF DfuTakeMutex, tx
<1>10. CASE DfuSend
  BY <1>10 DEF StartTransfer, DfuSend, tx
<1>11. CASE DfuSemTaken
  BY <1>11 DEF DfuSemTaken, tx
<1>12. CASE UNCHANGED vars
  BY <1>12 DEF vars, tx, pipe
<1> QED
  BY <1>1, <1>2, <1>3, <1>4, <1>5, <1>6, <1>7, <1>8, <1>9, <1>10, <1>11, <1>12
  DEF Next, UartTxStep, DfuStep

\* uart.c:550-606: uart_tx_sem, which two senders wait for, wakes the one whose
\* transfer ended, for any number of packets.
THEOREM SemaphoreRight == Spec => []SemaphoreOfSender
<1>1. Init => SemInv
  BY DEF Init, SemInv, MutexInv, SemaphoreOfSender
<1>2. SemInv => SemaphoreOfSender
  BY DEF SemInv
<1> QED
  BY <1>1, <1>2, SemInvStep, UartTypeCorrect, PTL DEF Spec

-----------------------------------------------------------------------------
(* The bytes.                                                              *)

\* Where the head is, or will be once OpenThread returns.
Front == IF task = "received" THEN NewHead ELSE rx_head

\* The slots from h to the tail hold the bytes behind the one given last.
Holds(h) ==
  /\ (received - given) % ByteNumbers = Distance(h, rx_tail)
  /\ \A i \in Slots : Distance(h, i) < Distance(h, rx_tail) =>
       rx_buffer[i] = (given + 1 + Distance(h, i)) % ByteNumbers

\* The snapshot is no further than what is published, and that no further than
\* what is received.
TailsInOrder ==
  /\ Distance(rx_head, tail) <= Distance(rx_head, curr_rx_tail)
  /\ Distance(rx_head, curr_rx_tail) <= Distance(rx_head, rx_tail)

BytesInv ==
  ~overrun =>
    /\ ~jumbled
    /\ Holds(Front)
    /\ TailsInOrder
    /\ task = "received" => rx_head # tail

LEMMA Chunk ==
  ASSUME rx_head \in Slots, tail \in Slots, rx_head # tail
  PROVE  /\ NewHead \in Slots
         /\ Distance(rx_head, NewHead) = ChunkEnd - rx_head
         /\ ChunkEnd - rx_head \in Slots \ {0}
         /\ Distance(rx_head, NewHead) <= Distance(rx_head, tail)
         /\ \A i \in rx_head .. ChunkEnd - 1 :
              i \in Slots /\ Distance(rx_head, i) = i - rx_head /\ i - rx_head < ChunkEnd - rx_head
<1> DEFINE N == kReceiveBufferSize
<1>1. N \in Nat /\ N > 1 /\ rx_head \in 0 .. N - 1 /\ tail \in 0 .. N - 1 /\ 0 \in Slots
  BY UartAssumption DEF Slots
<1>2. NewHead \in Slots
  BY <1>1 DEF NewHead
<1>3. Distance(rx_head, tail) = IF tail >= rx_head THEN tail - rx_head ELSE tail - rx_head + N
  BY DistanceType
<1>4. Distance(rx_head, NewHead) = IF NewHead >= rx_head THEN NewHead - rx_head
                                   ELSE NewHead - rx_head + N
  BY <1>2, DistanceType
<1>5. ChunkEnd = IF rx_head > tail THEN N ELSE tail
  BY DEF ChunkEnd
<1> HIDE DEF N
<1>6. /\ Distance(rx_head, NewHead) = ChunkEnd - rx_head
      /\ ChunkEnd - rx_head \in 1 .. N - 1
      /\ Distance(rx_head, NewHead) <= Distance(rx_head, tail)
      /\ ChunkEnd \in 0 .. N
  BY <1>1, <1>3, <1>4, <1>5 DEF NewHead
<1>7. ChunkEnd - rx_head \in Slots \ {0}
  BY <1>6 DEF Slots, N
<1>8. ASSUME NEW i \in rx_head .. ChunkEnd - 1
      PROVE  i \in Slots /\ Distance(rx_head, i) = i - rx_head /\ i - rx_head < ChunkEnd - rx_head
  <2>1. i \in 0 .. N - 1 /\ i >= rx_head /\ i < ChunkEnd
    BY <1>1, <1>6
  <2>2. i \in Slots
    BY <2>1 DEF Slots, N
  <2>3. Distance(rx_head, i) = IF i >= rx_head THEN i - rx_head
                               ELSE i - rx_head + kReceiveBufferSize
    BY <2>2, DistanceType
  <2> QED
    BY <1>1, <1>6, <2>1, <2>2, <2>3
<1> QED
  BY <1>2, <1>6, <1>7, <1>8

LEMMA FrontType ==
  ASSUME RingTypeOK, task = "received" => rx_head # tail
  PROVE  /\ Front \in Slots
         /\ Distance(rx_head, Front) <= Distance(rx_head, tail)
<1>1. rx_head \in Slots /\ tail \in Slots
  BY DEF RingTypeOK
<1>2. CASE task = "received"
  BY <1>1, <1>2, Chunk DEF Front
<1>3. CASE task # "received"
  <2>1. Distance(rx_head, rx_head) = 0
    BY <1>1, DistanceType, UartAssumption DEF Slots
  <2>2. Distance(rx_head, tail) \in Nat
    BY <1>1, DistanceType, UartAssumption DEF Slots
  <2> QED
    BY <1>1, <1>3, <2>1, <2>2 DEF Front
<1> QED
  BY <1>2, <1>3

\* Bytes that fit are put behind those that wait.
LEMMA StoreHolds ==
  ASSUME RingTypeOK, NEW n \in Nat, Store(n), ~overrun', NEW h \in Slots, Holds(h),
         Distance(rx_head, h) <= Distance(rx_head, rx_tail),
         UNCHANGED <<rx_head, given>>
  PROVE  /\ (received' - given) % ByteNumbers = Distance(h, rx_tail')
         /\ \A i \in Slots : Distance(h, i) < Distance(h, rx_tail') =>
              rx_buffer'[i] = (given + 1 + Distance(h, i)) % ByteNumbers
         /\ Distance(rx_head, rx_tail') = Distance(rx_head, rx_tail) + n
<1> DEFINE N == kReceiveBufferSize
           d == Distance(h, rx_tail)
<1>0. /\ N \in Nat /\ N > 1 /\ Slots = 0 .. N - 1
      /\ rx_tail \in Slots /\ rx_head \in Slots /\ received \in Numbers /\ given \in Numbers
  BY UartAssumption DEF Slots, RingTypeOK
<1>1. /\ Distance(rx_head, rx_tail) \in Slots /\ Distance(rx_head, h) \in Slots
      /\ d \in Slots /\ d = Distance(rx_head, rx_tail) - Distance(rx_head, h)
  BY <1>0, DistanceType, DistanceSum
<1>2. Distance(rx_head, rx_tail) + n < N
  <2>1. ~(Distance(rx_head, rx_tail) + n >= N)
    BY DEF Store
  <2> QED
    BY <1>0, <1>1, <2>1
<1> HIDE DEF d, N
<1>3. n \in Slots /\ d + n \in Slots /\ d \in Nat /\ d <= Distance(rx_head, rx_tail)
  BY <1>0, <1>1, <1>2
<1>4. rx_tail' = (rx_tail + n) % kReceiveBufferSize
  BY DEF Store, Advanced
<1>5. rx_tail' \in Slots /\ Distance(rx_tail, rx_tail') = n
  BY <1>0, <1>3, <1>4, DistanceOfNth
<1>6. Distance(rx_head, rx_tail') = Distance(rx_head, rx_tail) + n
  BY <1>0, <1>2, <1>5, DistanceSum DEF N
<1>7. Distance(h, rx_tail') = d + n
  <2>1. d + Distance(rx_tail, rx_tail') < N
    BY <1>0, <1>1, <1>2, <1>3, <1>5
  <2> QED
    BY <1>0, <1>5, <2>1, DistanceSum DEF d, N
<1>8. /\ d \in 0 .. kReceiveBufferSize /\ d + n \in 0 .. kReceiveBufferSize
      /\ n \in 0 .. kReceiveBufferSize /\ d + n <= kReceiveBufferSize
  BY <1>0, <1>3 DEF N
<1>9. received = (given + d) % ByteNumbers
  <2>1. (received - given) % ByteNumbers = d
    BY DEF Holds, d
  <2> QED
    BY <1>0, <1>8, <2>1, ByteOf
<1>10. (received' - given) % ByteNumbers = d + n
  <2>1. received' = (received + n) % ByteNumbers
    BY DEF Store
  <2>2. received' = (given + d + n) % ByteNumbers
    BY <1>0, <1>3, <1>8, <1>9, <2>1, ByteSum
  <2>3. given + d + n = given + (d + n)
    BY <1>0, <1>3, UartAssumption DEF Numbers
  <2>4. received' \in Numbers /\ received' = (given + (d + n)) % ByteNumbers
    BY <1>0, <1>8, <2>2, <2>3, ByteAfter
  <2> QED
    BY <1>0, <1>8, <2>4, ByteOf
<1>11. ASSUME NEW i \in Slots, Distance(h, i) < d + n
       PROVE  rx_buffer'[i] = (given + 1 + Distance(h, i)) % ByteNumbers
  <2> DEFINE e == Distance(h, i)
  <2>0. e \in Slots /\ e \in Nat /\ e < d + n
    BY <1>0, <1>11, DistanceType
  <2>1. rx_buffer'[i] = IF \E j \in 0 .. n - 1 : i = (rx_tail + j) % kReceiveBufferSize
                        THEN (received + 1 + Distance(rx_tail, i)) % ByteNumbers
                        ELSE rx_buffer[i]
    BY DEF Store
  <2>2. CASE e < d
    <3>1. ASSUME NEW j \in 0 .. n - 1, i = (rx_tail + j) % kReceiveBufferSize PROVE FALSE
      <4>1. j \in Slots /\ j \in Nat
        BY <1>0, <1>3
      <4>2. Distance(rx_tail, i) = j
        BY <1>0, <3>1, <4>1, DistanceOfNth
      <4>3. d + j < N
        BY <1>0, <1>3, <1>1
      <4>4. e = d + j
        BY <1>0, <4>2, <4>3, DistanceSum DEF d, N
      <4> QED
        BY <1>3, <2>0, <2>2, <4>1, <4>4
    <3>2. rx_buffer'[i] = rx_buffer[i]
      BY <2>1, <3>1
    <3> QED
      BY <2>2, <3>2 DEF Holds, d
  <2>3. CASE ~(e < d)
    <3> DEFINE j == Distance(rx_tail, i)
    <3>1. j = e - d
      BY <1>0, <1>3, <2>0, <2>3, DistanceSum DEF d
    <3> HIDE DEF e
    <3>2. j \in 0 .. n - 1
      BY <1>3, <2>0, <2>3, <3>1
    <3>3. i = (rx_tail + j) % kReceiveBufferSize
      BY <1>0, NthOfDistance
    <3>4. rx_buffer'[i] = (received + 1 + j) % ByteNumbers
      BY <2>1, <3>2, <3>3
    <3> HIDE DEF j
    <3>5. 1 + j \in Nat /\ d + (1 + j) <= kReceiveBufferSize
      BY <1>0, <1>3, <1>8, <3>2 DEF N
    <3>6. (received + (1 + j)) % ByteNumbers = (given + d + (1 + j)) % ByteNumbers
      BY <1>0, <1>3, <1>9, <3>5, ByteSum
    <3>7. received + (1 + j) = received + 1 + j /\ given + d + (1 + j) = given + 1 + e
      BY <1>0, <1>3, <2>0, <3>1, <3>2, UartAssumption DEF Numbers
    <3> QED
      BY <3>4, <3>6, <3>7 DEF e
  <2> QED
    BY <2>2, <2>3
<1> QED
  BY <1>6, <1>7, <1>10, <1>11

\* OpenThread gets the next bytes, and the rest follows behind them.
LEMMA ChunkInTurn ==
  ASSUME RingTypeOK, rx_head # tail, Holds(rx_head), TailsInOrder
  PROVE  /\ InTurn
         /\ rx_buffer[ChunkEnd - 1] \in Numbers
         /\ (received - rx_buffer[ChunkEnd - 1]) % ByteNumbers = Distance(NewHead, rx_tail)
         /\ \A i \in Slots : Distance(NewHead, i) < Distance(NewHead, rx_tail) =>
              rx_buffer[i] = (rx_buffer[ChunkEnd - 1] + 1 + Distance(NewHead, i)) % ByteNumbers
<1> DEFINE N == kReceiveBufferSize
           c == ChunkEnd - rx_head
           d == Distance(rx_head, rx_tail)
           last == rx_buffer[ChunkEnd - 1]
<1>0. /\ N \in Nat /\ N > 1 /\ Slots = 0 .. N - 1
      /\ rx_tail \in Slots /\ rx_head \in Slots /\ received \in Numbers /\ given \in Numbers
      /\ tail \in Slots /\ curr_rx_tail \in Slots
  BY UartAssumption DEF Slots, RingTypeOK
<1>1. /\ NewHead \in Slots /\ Distance(rx_head, NewHead) = c
      /\ c \in Slots \ {0} /\ c <= Distance(rx_head, tail)
      /\ \A i \in rx_head .. ChunkEnd - 1 :
           i \in Slots /\ Distance(rx_head, i) = i - rx_head /\ i - rx_head < c
  BY <1>0, Chunk
<1>2. d \in Slots /\ Distance(rx_head, tail) \in Slots /\ Distance(rx_head, curr_rx_tail) \in Slots
  BY <1>0, DistanceType
<1>3. c <= d /\ c \in Nat /\ c > 0 /\ d \in Nat /\ d < N
  BY <1>0, <1>1, <1>2 DEF TailsInOrder
<1>4. Distance(NewHead, rx_tail) = d - c
  BY <1>0, <1>1, <1>3, DistanceSum
<1>5. ASSUME NEW i \in rx_head .. ChunkEnd - 1
      PROVE  rx_buffer[i] = (given + 1 + i - rx_head) % ByteNumbers
  <2>1. i \in Slots /\ Distance(rx_head, i) = i - rx_head /\ i - rx_head < c /\ i \in Int
    BY <1>1, <1>5, <1>0
  <2>2. Distance(rx_head, i) < d
    BY <1>0, <1>3, <2>1
  <2>3. rx_buffer[i] = (given + 1 + (i - rx_head)) % ByteNumbers
    BY <2>1, <2>2 DEF Holds
  <2>4. given + 1 + (i - rx_head) = given + 1 + i - rx_head
    BY <1>0, <2>1, UartAssumption DEF Numbers
  <2> QED
    BY <2>3, <2>4
<1>6. InTurn
  BY <1>5 DEF InTurn
<1>7. ChunkEnd - 1 \in rx_head .. ChunkEnd - 1
  <2>1. ChunkEnd = rx_head + c
    BY <1>0, UartAssumption DEF ChunkEnd
  <2> HIDE DEF c
  <2> QED
    BY <1>0, <1>3, <2>1
<1>8. last = (given + c) % ByteNumbers
  <2>1. given + 1 + (ChunkEnd - 1) - rx_head = given + c
    BY <1>0, UartAssumption DEF Numbers, ChunkEnd
  <2> QED
    BY <1>5, <1>7, <2>1
<1>9. last \in Numbers
  BY <1>1, <1>7 DEF RingTypeOK
<1> HIDE DEF N, c, d, last
<1>10. /\ c \in 0 .. kReceiveBufferSize /\ d \in 0 .. kReceiveBufferSize
       /\ d - c \in 0 .. kReceiveBufferSize /\ d - c \in Nat
  BY <1>0, <1>3 DEF N
<1>11. (received - last) % ByteNumbers = d - c
  <2>1. received = (given + d) % ByteNumbers
    BY <1>0, <1>10, ByteOf DEF Holds, d
  <2>2. (last + (d - c)) % ByteNumbers = (given + c + (d - c)) % ByteNumbers
    BY <1>0, <1>3, <1>8, <1>10, ByteSum
  <2>3. given + c + (d - c) = given + d
    BY <1>0, <1>3, UartAssumption DEF Numbers
  <2> QED
    BY <1>0, <1>9, <1>10, <2>1, <2>2, <2>3, ByteOf
<1>12. ASSUME NEW i \in Slots, Distance(NewHead, i) < d - c
       PROVE  rx_buffer[i] = (last + 1 + Distance(NewHead, i)) % ByteNumbers
  <2> DEFINE e == Distance(NewHead, i)
  <2>1. e \in Nat /\ e < d - c
    BY <1>0, <1>1, <1>12, DistanceType
  <2>2. Distance(rx_head, i) = c + e
    <3>1. Distance(rx_head, NewHead) + e < kReceiveBufferSize
      BY <1>0, <1>1, <1>3, <2>1 DEF N
    <3> QED
      BY <1>0, <1>1, <3>1, DistanceSum
  <2> HIDE DEF e
  <2>3. rx_buffer[i] = (given + 1 + (c + e)) % ByteNumbers
    <3>1. Distance(rx_head, i) < d
      BY <1>3, <2>1, <2>2
    <3> QED
      BY <2>2, <3>1 DEF Holds, d
  <2>4. (last + (1 + e)) % ByteNumbers = (given + c + (1 + e)) % ByteNumbers
    <3>1. 1 + e \in Nat /\ c + (1 + e) <= kReceiveBufferSize
      BY <1>0, <1>3, <1>10, <2>1 DEF N
    <3> QED
      BY <1>0, <1>3, <1>8, <3>1, ByteSum
  <2>5. given + c + (1 + e) = given + 1 + (c + e) /\ last + (1 + e) = last + 1 + e
    BY <1>0, <1>3, <1>9, <2>1, UartAssumption DEF Numbers
  <2> QED
    BY <2>3, <2>4, <2>5 DEF e
<1> QED
  BY <1>4, <1>6, <1>9, <1>11, <1>12 DEF last

LEMMA BytesInvInit == Init => BytesInv
<1> SUFFICES ASSUME Init PROVE BytesInv
  OBVIOUS
<1>1. 0 \in Slots /\ 0 \in Numbers
  BY UartAssumption DEF Slots, Numbers
<1>2. Distance(0, 0) = 0 /\ (0 - 0) % ByteNumbers = 0
  BY <1>1, DistanceType, ByteGap
<1>3. \A i \in Slots : Distance(0, i) \in Nat
  BY <1>1, DistanceType, UartAssumption DEF Slots
<1>4. /\ rx_head = 0 /\ tail = 0 /\ rx_tail = 0 /\ curr_rx_tail = 0 /\ received = 0 /\ given = 0
      /\ ~jumbled /\ task = "idle" /\ Front = 0
  BY DEF Init, Front
<1>5. \A i \in Slots : ~(Distance(0, i) < 0)
  BY <1>3
<1>6. Holds(Front) /\ TailsInOrder
  BY <1>2, <1>4, <1>5 DEF Holds, TailsInOrder
<1> QED
  BY <1>4, <1>6 DEF BytesInv

\* The interrupt, at any point of BEE_UartRx.
LEMMA StoreKeeps ==
  ASSUME UartTypeOK, BytesInv, NEW n \in 0 .. MaxBurst, Store(n), UNCHANGED <<rx, task>>,
         curr_rx_tail' = curr_rx_tail \/ curr_rx_tail' = rx_tail'
  PROVE  BytesInv'
<1> SUFFICES ASSUME ~overrun' PROVE BytesInv'
  BY DEF BytesInv
<1>1. ~overrun
  BY DEF Store
<1>2. RingTypeOK /\ n \in Nat /\ UNCHANGED <<rx_head, tail, given, jumbled>>
  BY UartAssumption DEF UartTypeOK, rx
<1>3. /\ ~jumbled /\ Holds(Front) /\ TailsInOrder
      /\ task = "received" => rx_head # tail
  BY <1>1 DEF BytesInv
<1>4. Front \in Slots /\ Distance(rx_head, Front) <= Distance(rx_head, tail)
  BY <1>2, <1>3, FrontType
<1>5. /\ Distance(rx_head, tail) \in Nat /\ Distance(rx_head, Front) \in Nat
      /\ Distance(rx_head, curr_rx_tail) \in Nat /\ Distance(rx_head, rx_tail) \in Nat
  BY <1>2, <1>4, DistanceNat DEF RingTypeOK
<1>6. Distance(rx_head, Front) <= Distance(rx_head, rx_tail)
  BY <1>3, <1>4, <1>5 DEF TailsInOrder
<1>7. /\ (received' - given) % ByteNumbers = Distance(Front, rx_tail')
      /\ \A i \in Slots : Distance(Front, i) < Distance(Front, rx_tail') =>
           rx_buffer'[i] = (given + 1 + Distance(Front, i)) % ByteNumbers
      /\ Distance(rx_head, rx_tail') = Distance(rx_head, rx_tail) + n
  BY <1>2, <1>3, <1>4, <1>6, StoreHolds
<1>8. Front' = Front
  BY <1>2 DEF Front, NewHead
<1>9. Holds(Front)'
  BY <1>2, <1>7, <1>8 DEF Holds, Distance
<1>10. TailsInOrder'
  <2>1. /\ Distance(rx_head, tail) <= Distance(rx_head, curr_rx_tail')
        /\ Distance(rx_head, curr_rx_tail') <= Distance(rx_head, rx_tail')
    BY <1>2, <1>3, <1>5, <1>7 DEF TailsInOrder
  <2> QED
    BY <1>2, <2>1 DEF TailsInOrder, Distance
<1> QED
  BY <1>2, <1>3, <1>9, <1>10 DEF BytesInv

LEMMA BytesInvStep == ASSUME UartTypeOK, BytesInv, [Next]_vars PROVE BytesInv'
<1>0. RingTypeOK
  BY DEF UartTypeOK
<1>1. ASSUME NEW n \in 0 .. MaxBurst, ReceiveAndPublish(n) \/ ReceiveOnly(n) PROVE BytesInv'
  <2>1. /\ Store(n) /\ UNCHANGED <<rx, task>>
        /\ curr_rx_tail' = curr_rx_tail \/ curr_rx_tail' = rx_tail'
    BY <1>1 DEF ReceiveAndPublish, ReceiveOnly, Publish
  <2> QED
    BY <2>1, StoreKeeps
<1>2. CASE BEE_UartRx
  <2>1. /\ UNCHANGED <<rx_buffer, rx_tail, curr_rx_tail, received, overrun, rx_head, given, jumbled>>
        /\ tail' = curr_rx_tail /\ task = "idle" /\ task' = "rx"
    BY <1>2 DEF BEE_UartRx, ring
  <2> SUFFICES ASSUME ~overrun PROVE BytesInv'
    BY <2>1 DEF BytesInv
  <2>2. Front = rx_head /\ Front' = rx_head
    BY <2>1 DEF Front
  <2>3. Holds(Front)'
    BY <2>1, <2>2 DEF BytesInv, Holds, Distance
  <2>4. Distance(rx_head, curr_rx_tail) \in Nat
    BY <1>0, DistanceNat DEF RingTypeOK
  <2>5. /\ Distance(rx_head, curr_rx_tail) <= Distance(rx_head, curr_rx_tail)
        /\ Distance(rx_head, curr_rx_tail) <= Distance(rx_head, rx_tail)
    BY <2>4 DEF BytesInv, TailsInOrder
  <2>6. TailsInOrder'
    BY <2>1, <2>5 DEF TailsInOrder, Distance
  <2> QED
    BY <2>1, <2>3, <2>6 DEF BytesInv
<1>3. CASE otPlatUartReceived
  <2>1. /\ UNCHANGED <<rx_buffer, rx_tail, curr_rx_tail, received, overrun, rx_head, tail>>
        /\ task = "rx" /\ task' = "received" /\ rx_head # tail
        /\ given' = rx_buffer[ChunkEnd - 1] /\ jumbled' = (jumbled \/ ~InTurn)
    BY <1>3 DEF otPlatUartReceived, ring
  <2> SUFFICES ASSUME ~overrun PROVE BytesInv'
    BY <2>1 DEF BytesInv
  <2>2. Front = rx_head /\ Front' = NewHead
    BY <2>1 DEF Front, NewHead
  <2>3. ~jumbled /\ Holds(rx_head) /\ TailsInOrder
    BY <2>2 DEF BytesInv
  <2>4. /\ InTurn
        /\ (received - given') % ByteNumbers = Distance(NewHead, rx_tail)
        /\ \A i \in Slots : Distance(NewHead, i) < Distance(NewHead, rx_tail) =>
             rx_buffer[i] = (given' + 1 + Distance(NewHead, i)) % ByteNumbers
    BY <1>0, <2>1, <2>3, ChunkInTurn
  <2>5. Holds(Front)'
    BY <2>1, <2>2, <2>4 DEF Holds, Distance
  <2>6. TailsInOrder'
    BY <2>1, <2>3 DEF TailsInOrder, Distance
  <2> QED
    BY <2>1, <2>3, <2>4, <2>5, <2>6 DEF BytesInv
<1>4. CASE MoveHead
  <2>1. /\ UNCHANGED <<rx_buffer, rx_tail, curr_rx_tail, received, overrun, tail, given, jumbled>>
        /\ task = "received" /\ task' = "rx" /\ rx_head' = NewHead
    BY <1>4 DEF MoveHead, ring
  <2> SUFFICES ASSUME ~overrun PROVE BytesInv'
    BY <2>1 DEF BytesInv
  <2>2. ~jumbled /\ Holds(Front) /\ TailsInOrder /\ rx_head # tail
    BY <2>1 DEF BytesInv
  <2>3. Front = NewHead /\ Front' = NewHead
    BY <2>1 DEF Front
  <2>4. Holds(Front)'
    BY <2>1, <2>2, <2>3 DEF Holds, Distance
  <2>5. /\ rx_head \in Slots /\ tail \in Slots /\ curr_rx_tail \in Slots /\ rx_tail \in Slots
        /\ NewHead \in Slots /\ Distance(rx_head, NewHead) <= Distance(rx_head, tail)
    BY <1>0, <2>2, Chunk DEF RingTypeOK
  <2>6. \A s \in Slots : Distance(rx_head, s) \in Nat
    BY <2>5, DistanceNat
  <2>7. \A s \in {tail, curr_rx_tail, rx_tail} :
          Distance(NewHead, s) = Distance(rx_head, s) - Distance(rx_head, NewHead)
    <3>1. \A s \in {tail, curr_rx_tail, rx_tail} :
            Distance(rx_head, NewHead) <= Distance(rx_head, s)
      BY <2>2, <2>5, <2>6 DEF TailsInOrder
    <3> QED
      BY <2>5, <3>1, DistanceSum
  <2>8. /\ Distance(NewHead, tail) <= Distance(NewHead, curr_rx_tail)
        /\ Distance(NewHead, curr_rx_tail) <= Distance(NewHead, rx_tail)
    BY <2>2, <2>5, <2>6, <2>7 DEF TailsInOrder
  <2>9. TailsInOrder'
    BY <2>1, <2>8 DEF TailsInOrder, Distance
  <2> QED
    BY <2>1, <2>2, <2>4, <2>9 DEF BytesInv
<1>5. CASE \/ RxDone \/ otPlatUartSend \/ UartTxStep \/ TransferEnds \/ SetControlLineStateCb
           \/ DfuTakeMutex \/ DfuStep \/ UNCHANGED vars
  <2>1. /\ UNCHANGED <<ring, rx>>
        /\ (task' = "received" /\ task = "received") \/ (task' # "received" /\ task # "received")
    BY <1>5 DEF RxDone, otPlatUartSend, UartTxStep, TakeMutex, SemTaken, BEE_UartTx,
       TransmitDone, TransferEnds, SetControlLineStateCb, DfuTakeMutex, DfuStep, DfuSend,
       DfuSemTaken, vars
  <2>2. /\ UNCHANGED <<rx_buffer, rx_tail, curr_rx_tail, received, overrun>>
        /\ UNCHANGED <<rx_head, tail, given, jumbled>>
    BY <2>1 DEF ring, rx
  <2>3. Front' = Front
    BY <2>1, <2>2 DEF Front, NewHead
  <2>4. (Holds(Front) <=> Holds(Front)') /\ (TailsInOrder <=> TailsInOrder')
    BY <2>2, <2>3 DEF Holds, TailsInOrder, Distance
  <2> QED
    BY <2>1, <2>2, <2>4 DEF BytesInv
<1> QED
  BY <1>1, <1>2, <1>3, <1>4, <1>5 DEF Next, UartRxStep

\* BEE_UartRx (uart.c:908-928) against OT_UARTIntHandler and CdcRecvDataCb: wherever they
\* come between its snapshot, its two chunks and its head, no byte is skipped, given
\* twice or given before it came, for every ring size, until the ring is first full.
THEOREM InOrder == Spec => []BytesInOrder
<1>1. BytesInv => BytesInOrder
  BY DEF BytesInv, Holds, Front, BytesInOrder
<1> QED
  BY <1>1, BytesInvInit, BytesInvStep, UartTypeCorrect, PTL DEF Spec
=============================================================================
