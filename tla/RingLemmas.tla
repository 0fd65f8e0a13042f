----------------------------- MODULE RingLemmas -----------------------------
(***************************************************************************)
(* The drivers keep their queues in rings: an array of N slots, the index  *)
(* of the slot to take next (head) and of the slot to fill next (tail),    *)
(* advanced modulo N by writers that never look at the other index.        *)
(* These lemmas relate such a ring to the sequence of items waiting in it. *)
(* o is 1 while the item at the head is being handled: it still has its    *)
(* slot and no longer waits.                                               *)
(***************************************************************************)
EXTENDS Integers, Sequences, SequenceTheorems, TLAPS

Sizes == Nat \ {0}
Ring(N) == 0 .. N - 1
Twice(N) == 0 .. 2 * N - 1
Signed(N) == -N .. N - 1
RingsOf(N, A) == [Ring(N) -> A]

\* The slot after s, the number of items waiting, the slot of the k-th of them
\* (from 0), and the items waiting in a ring q.
After(N, s) == (s + 1) % N
Span(N, h, t, o) == (t - h - o) % N
SlotOf(N, h, o, k) == (h + o + k) % N
ItemsOf(N, q, h, t, o) == [i \in 1 .. Span(N, h, t, o) |-> q[SlotOf(N, h, o, i - 1)]]

\* The items that wait after e was put behind the items s: none when s was one
\* short of the ring.
Sent(N, s, e) == IF Len(s) + 1 = N THEN <<>> ELSE Append(s, e)

\* % on the numbers a ring index reaches before it is reduced.
LEMMA ModRange ==
  ASSUME NEW N \in Sizes, NEW a \in Twice(N)
  PROVE  a % N = IF a < N THEN a ELSE a - N
  BY SMT DEF Sizes, Twice

LEMMA ModSigned ==
  ASSUME NEW N \in Sizes, NEW a \in Signed(N)
  PROVE  a % N = IF a >= 0 THEN a ELSE a + N
  BY SMT DEF Sizes, Signed

LEMMA AfterType ==
  ASSUME NEW N \in Sizes, NEW s \in Ring(N)
  PROVE  /\ After(N, s) \in Ring(N)
         /\ After(N, s) = IF s + 1 < N THEN s + 1 ELSE 0
<1>1. s + 1 \in Twice(N)
  BY DEF Sizes, Ring, Twice
<1>2. (s + 1) % N = IF s + 1 < N THEN s + 1 ELSE s + 1 - N
  BY <1>1, ModRange DEF Sizes, Ring
<1> QED
  BY <1>2 DEF After, Sizes, Ring

LEMMA SpanType ==
  ASSUME NEW N \in Sizes, NEW h \in Ring(N), NEW t \in Ring(N), NEW o \in {0, 1}
  PROVE  /\ Span(N, h, t, o) \in Ring(N)
         /\ Span(N, h, t, o) = IF t - h - o >= 0 THEN t - h - o ELSE t - h - o + N
<1>1. t - h - o \in Signed(N)
  BY DEF Sizes, Ring, Signed
<1>2. (t - h - o) % N = IF t - h - o >= 0 THEN t - h - o ELSE t - h - o + N
  BY <1>1, ModSigned
<1> QED
  BY <1>2 DEF Span, Sizes, Ring

LEMMA SlotOfType ==
  ASSUME NEW N \in Sizes, NEW h \in Ring(N), NEW o \in {0, 1}, NEW k \in Ring(N)
  PROVE  /\ SlotOf(N, h, o, k) \in Ring(N)
         /\ SlotOf(N, h, o, k) = IF h + o + k < N THEN h + o + k ELSE h + o + k - N
<1>1. h + o + k \in Twice(N)
  BY DEF Sizes, Ring, Twice
<1>2. (h + o + k) % N = IF h + o + k < N THEN h + o + k ELSE h + o + k - N
  BY <1>1, ModRange DEF Sizes, Ring
<1> QED
  BY <1>2 DEF SlotOf, Sizes, Ring

\* Filling the tail lengthens the span by one, or empties it when it was one
\* short of the ring; the tail is the slot right after the span.
LEMMA SpanSend ==
  ASSUME NEW N \in Sizes, NEW h \in Ring(N), NEW t \in Ring(N), NEW o \in {0, 1}
  PROVE  /\ Span(N, h, t, o) \in Ring(N)
         /\ Span(N, h, After(N, t), o) = IF Span(N, h, t, o) + 1 = N
                                         THEN 0 ELSE Span(N, h, t, o) + 1
         /\ SlotOf(N, h, o, Span(N, h, t, o)) = t
<1>1. /\ After(N, t) \in Ring(N)
      /\ After(N, t) = IF t + 1 < N THEN t + 1 ELSE 0
  BY AfterType
<1>2. /\ Span(N, h, t, o) \in Ring(N)
      /\ Span(N, h, t, o) = IF t - h - o >= 0 THEN t - h - o ELSE t - h - o + N
  BY SpanType
<1>3. Span(N, h, After(N, t), o) = IF After(N, t) - h - o >= 0 THEN After(N, t) - h - o
                                   ELSE After(N, t) - h - o + N
  BY <1>1, SpanType
<1>4. SlotOf(N, h, o, Span(N, h, t, o))
        = IF h + o + Span(N, h, t, o) < N THEN h + o + Span(N, h, t, o)
          ELSE h + o + Span(N, h, t, o) - N
  BY <1>2, SlotOfType
<1> QED
  BY <1>1, <1>2, <1>3, <1>4 DEF Sizes, Ring

\* Taking the item at the head leaves one waiting item less; freeing its slot
\* moves the head without changing what waits.
LEMMA SpanTake ==
  ASSUME NEW N \in Sizes, NEW h \in Ring(N), NEW t \in Ring(N)
  PROVE  /\ Span(N, h, t, 0) = 0 <=> h = t
         /\ h # t => Span(N, h, t, 1) = Span(N, h, t, 0) - 1
         /\ Span(N, After(N, h), t, 0) = Span(N, h, t, 1)
<1>1. /\ After(N, h) \in Ring(N)
      /\ After(N, h) = IF h + 1 < N THEN h + 1 ELSE 0
  BY AfterType
<1>2. /\ Span(N, h, t, 0) = IF t - h - 0 >= 0 THEN t - h - 0 ELSE t - h - 0 + N
      /\ Span(N, h, t, 1) = IF t - h - 1 >= 0 THEN t - h - 1 ELSE t - h - 1 + N
  BY SpanType
<1>3. Span(N, After(N, h), t, 0) = IF t - After(N, h) - 0 >= 0 THEN t - After(N, h) - 0
                                   ELSE t - After(N, h) - 0 + N
  BY <1>1, SpanType
<1> QED
  BY <1>1, <1>2, <1>3 DEF Sizes, Ring

\* While the item at the head is handled, the ring is one short of full when
\* the slot to fill next is the one being handled.
LEMMA SpanFull ==
  ASSUME NEW N \in Sizes, NEW h \in Ring(N), NEW t \in Ring(N)
  PROVE  Span(N, h, t, 1) + 1 = N <=> t = h
<1>1. Span(N, h, t, 1) = IF t - h - 1 >= 0 THEN t - h - 1 ELSE t - h - 1 + N
  BY SpanType
<1> QED
  BY <1>1 DEF Sizes, Ring

\* No waiting item is in the slot that is filled next.
LEMMA TailIsFree ==
  ASSUME NEW N \in Sizes, NEW h \in Ring(N), NEW t \in Ring(N), NEW o \in {0, 1},
         NEW k \in 0 .. Span(N, h, t, o) - 1
  PROVE  k \in Ring(N) /\ SlotOf(N, h, o, k) \in Ring(N) /\ SlotOf(N, h, o, k) # t
<1>1. Span(N, h, t, o) \in Ring(N) /\ SlotOf(N, h, o, Span(N, h, t, o)) = t
  BY SpanSend
<1>2. k \in Ring(N)
  BY <1>1 DEF Sizes, Ring
<1>3. /\ SlotOf(N, h, o, k) \in Ring(N)
      /\ SlotOf(N, h, o, k) = IF h + o + k < N THEN h + o + k ELSE h + o + k - N
  BY <1>2, SlotOfType
<1>4. SlotOf(N, h, o, Span(N, h, t, o))
        = IF h + o + Span(N, h, t, o) < N THEN h + o + Span(N, h, t, o)
          ELSE h + o + Span(N, h, t, o) - N
  BY <1>1, SlotOfType
<1> QED
  BY <1>1, <1>2, <1>3, <1>4 DEF Sizes, Ring

\* The head is the slot of the first waiting item; moving it past a handled
\* item keeps the slots of the waiting ones.
LEMMA SlotOfHead ==
  ASSUME NEW N \in Sizes, NEW h \in Ring(N)
  PROVE  SlotOf(N, h, 0, 0) = h
<1>1. 0 \in Ring(N)
  BY DEF Sizes, Ring
<1>2. SlotOf(N, h, 0, 0) = IF h + 0 + 0 < N THEN h + 0 + 0 ELSE h + 0 + 0 - N
  BY <1>1, SlotOfType
<1> QED
  BY <1>2 DEF Sizes, Ring

LEMMA SlotOfDone ==
  ASSUME NEW N \in Sizes, NEW h \in Ring(N), NEW k \in Ring(N)
  PROVE  SlotOf(N, After(N, h), 0, k) = SlotOf(N, h, 1, k)
<1>1. /\ After(N, h) \in Ring(N)
      /\ After(N, h) = IF h + 1 < N THEN h + 1 ELSE 0
  BY AfterType
<1>2. SlotOf(N, After(N, h), 0, k) = IF After(N, h) + 0 + k < N THEN After(N, h) + 0 + k
                                     ELSE After(N, h) + 0 + k - N
  BY <1>1, SlotOfType
<1>3. SlotOf(N, h, 1, k) = IF h + 1 + k < N THEN h + 1 + k ELSE h + 1 + k - N
  BY SlotOfType
<1> QED
  BY <1>1, <1>2, <1>3 DEF Sizes, Ring

\* What waits is a sequence, read slot by slot.
LEMMA ItemsOfSeq ==
  ASSUME NEW N \in Sizes, NEW A, NEW q \in RingsOf(N, A),
         NEW h \in Ring(N), NEW t \in Ring(N), NEW o \in {0, 1}
  PROVE  /\ ItemsOf(N, q, h, t, o) \in Seq(A)
         /\ Len(ItemsOf(N, q, h, t, o)) = Span(N, h, t, o)
         /\ Span(N, h, t, o) \in Nat
         /\ \A i \in 1 .. Span(N, h, t, o) :
               /\ ItemsOf(N, q, h, t, o)[i] = q[SlotOf(N, h, o, i - 1)]
               /\ i - 1 \in Ring(N)
               /\ SlotOf(N, h, o, i - 1) \in Ring(N)
<1>1. Span(N, h, t, o) \in Ring(N) /\ Span(N, h, t, o) \in Nat
  BY SpanType DEF Sizes, Ring
<1>2. ASSUME NEW i \in 1 .. Span(N, h, t, o)
      PROVE  i - 1 \in Ring(N) /\ SlotOf(N, h, o, i - 1) \in Ring(N)
  <2>1. i - 1 \in Ring(N)
    BY <1>1 DEF Sizes, Ring
  <2> QED
    BY <2>1, SlotOfType
<1>3. ItemsOf(N, q, h, t, o) \in [1 .. Span(N, h, t, o) -> A]
  BY <1>2 DEF ItemsOf, RingsOf
<1>4. /\ ItemsOf(N, q, h, t, o) \in Seq(A)
      /\ Len(ItemsOf(N, q, h, t, o)) = Span(N, h, t, o)
  BY <1>1, <1>3
<1> QED
  BY <1>1, <1>2, <1>4 DEF ItemsOf

\* Filling the tail with e appends it, or empties a ring that was one short of
\* full.
LEMMA ItemsOfSend ==
  ASSUME NEW N \in Sizes, NEW A, NEW q \in RingsOf(N, A),
         NEW h \in Ring(N), NEW t \in Ring(N), NEW o \in {0, 1}, NEW e \in A
  PROVE  ItemsOf(N, [q EXCEPT ![t] = e], h, After(N, t), o)
           = Sent(N, ItemsOf(N, q, h, t, o), e)
<1> DEFINE r == [q EXCEPT ![t] = e]
           n == Span(N, h, t, o)
           old == ItemsOf(N, q, h, t, o)
           new == ItemsOf(N, r, h, After(N, t), o)
<1>1. r \in RingsOf(N, A) /\ After(N, t) \in Ring(N)
  BY AfterType DEF RingsOf
<1>2. r[t] = e /\ \A s \in Ring(N) \ {t} : r[s] = q[s]
  BY DEF RingsOf
<1> HIDE DEF r
<1>3. /\ Span(N, h, After(N, t), o) = IF n + 1 = N THEN 0 ELSE n + 1
      /\ SlotOf(N, h, o, n) = t
  BY SpanSend
<1>4. /\ old \in Seq(A) /\ Len(old) = n /\ n \in Nat
      /\ \A i \in 1 .. n : old[i] = q[SlotOf(N, h, o, i - 1)]
  <2>1. CASE o = 0
    BY <2>1, ItemsOfSeq
  <2>2. CASE o = 1
    BY <2>2, ItemsOfSeq
  <2> QED
    BY <2>1, <2>2
<1>5. /\ new \in Seq(A) /\ Len(new) = Span(N, h, After(N, t), o)
      /\ \A i \in 1 .. Span(N, h, After(N, t), o) : new[i] = r[SlotOf(N, h, o, i - 1)]
  <2>1. CASE o = 0
    BY <2>1, <1>1, ItemsOfSeq
  <2>2. CASE o = 1
    BY <2>2, <1>1, ItemsOfSeq
  <2> QED
    BY <2>1, <2>2
<1>6. CASE n + 1 = N
  <2>1. Len(new) = 0
    BY <1>3, <1>5, <1>6
  <2>2. new = <<>>
    BY <1>5, <2>1, EmptySeq
  <2> QED
    BY <2>2, <1>4, <1>6 DEF r, Sent
<1>7. CASE n + 1 # N
  <2>1. Span(N, h, After(N, t), o) = n + 1
    BY <1>3, <1>7
  <2>2. ASSUME NEW i \in 1 .. n
        PROVE  new[i] = old[i]
    <3>1. i - 1 \in 0 .. Span(N, h, t, o) - 1
      BY <1>4
    <3>2. SlotOf(N, h, o, i - 1) \in Ring(N) /\ SlotOf(N, h, o, i - 1) # t
      BY <3>1, TailIsFree
    <3>3. r[SlotOf(N, h, o, i - 1)] = q[SlotOf(N, h, o, i - 1)]
      BY <3>2, <1>2
    <3>4. i \in 1 .. n + 1
      BY <1>4
    <3> QED
      BY <3>3, <3>4, <2>1, <1>4, <1>5
  <2>3. ASSUME NEW i \in Nat, i = n + 1
        PROVE  new[i] = e
    <3>1. i \in 1 .. Span(N, h, After(N, t), o) /\ i - 1 = n
      BY <1>4, <2>1, <2>3
    <3>2. new[i] = r[SlotOf(N, h, o, i - 1)]
      BY <3>1, <1>5
    <3> QED
      BY <3>1, <3>2, <1>3, <1>2
  <2>4. /\ Append(old, e) \in Seq(A)
        /\ Len(Append(old, e)) = n + 1
        /\ \A i \in 1 .. n : Append(old, e)[i] = old[i]
        /\ Append(old, e)[n + 1] = e
    BY <1>4, AppendProperties
  <2>5. ASSUME NEW i \in 1 .. n + 1
        PROVE  new[i] = Append(old, e)[i]
    <3>1. CASE i = n + 1
      <4>1. i \in Nat
        BY <1>4
      <4> QED
        BY <3>1, <4>1, <2>3, <2>4
    <3>2. CASE i # n + 1
      <4>1. i \in 1 .. n
        BY <3>2, <1>4
      <4> QED
        BY <4>1, <2>2, <2>4
    <3> QED
      BY <3>1, <3>2
  <2>6. new = Append(old, e)
    BY <1>5, <2>1, <2>4, <2>5, SeqEqual
  <2> QED
    BY <2>6, <1>4, <1>7 DEF r, Sent
<1> QED
  BY <1>6, <1>7

\* Taking the item at the head removes the first waiting item; freeing its slot
\* afterwards changes nothing.
LEMMA ItemsOfTake ==
  ASSUME NEW N \in Sizes, NEW A, NEW q \in RingsOf(N, A),
         NEW h \in Ring(N), NEW t \in Ring(N)
  PROVE  /\ h # t => /\ ItemsOf(N, q, h, t, 0) # <<>>
                     /\ Head(ItemsOf(N, q, h, t, 0)) = q[h]
                     /\ ItemsOf(N, q, h, t, 1) = Tail(ItemsOf(N, q, h, t, 0))
         /\ ItemsOf(N, q, After(N, h), t, 0) = ItemsOf(N, q, h, t, 1)
<1> DEFINE s0 == ItemsOf(N, q, h, t, 0)
           s1 == ItemsOf(N, q, h, t, 1)
           n == Span(N, h, t, 0)
<1>1. /\ s0 \in Seq(A) /\ Len(s0) = n /\ n \in Nat
      /\ \A i \in 1 .. n : s0[i] = q[SlotOf(N, h, 0, i - 1)]
  BY ItemsOfSeq
<1>2. /\ s1 \in Seq(A) /\ Len(s1) = Span(N, h, t, 1)
      /\ \A i \in 1 .. Span(N, h, t, 1) :
            s1[i] = q[SlotOf(N, h, 1, i - 1)] /\ i - 1 \in Ring(N)
  BY ItemsOfSeq
<1>3. ASSUME h # t
      PROVE  s0 # <<>> /\ Head(s0) = q[h] /\ s1 = Tail(s0)
  <2>1. n # 0 /\ Span(N, h, t, 1) = n - 1
    BY <1>3, SpanTake
  <2>2. s0 # <<>>
    BY <2>1, <1>1, EmptySeq
  <2>3. Head(s0) = q[h]
    <3>1. Head(s0) = s0[1]
      BY <2>2, <1>1
    <3>2. s0[1] = q[SlotOf(N, h, 0, 1 - 1)]
      BY <2>1, <1>1
    <3> QED
      BY <3>1, <3>2, SlotOfHead
  <2>4. /\ Tail(s0) \in Seq(A)
        /\ Len(Tail(s0)) = n - 1
        /\ \A i \in 1 .. n - 1 : Tail(s0)[i] = s0[i + 1]
    BY <1>1, <2>2, HeadTailProperties
  <2>5. ASSUME NEW i \in 1 .. n - 1
        PROVE  s1[i] = Tail(s0)[i]
    <3>1. s1[i] = q[SlotOf(N, h, 1, i - 1)]
      BY <1>2, <2>1
    <3>2. Tail(s0)[i] = q[SlotOf(N, h, 0, i + 1 - 1)]
      <4>1. i + 1 \in 1 .. n
        BY <1>1
      <4> QED
        BY <4>1, <1>1, <2>4
    <3>3. h + 1 + (i - 1) = h + 0 + (i + 1 - 1)
      BY <1>1 DEF Sizes, Ring
    <3> QED
      BY <3>1, <3>2, <3>3 DEF SlotOf
  <2>6. s1 = Tail(s0)
    BY <1>2, <2>1, <2>4, <2>5, SeqEqual
  <2> QED
    BY <2>2, <2>3, <2>6
<1>4. ItemsOf(N, q, After(N, h), t, 0) = s1
  <2>1. Span(N, After(N, h), t, 0) = Span(N, h, t, 1)
    BY SpanTake
  <2>2. ASSUME NEW i \in 1 .. Span(N, h, t, 1)
        PROVE  SlotOf(N, After(N, h), 0, i - 1) = SlotOf(N, h, 1, i - 1)
    BY <1>2, SlotOfDone
  <2> QED
    BY <2>1, <2>2 DEF ItemsOf
<1> QED
  BY <1>3, <1>4

\* Every waiting item is in B.
Held(N, q, h, t, o, B) == \A k \in 0 .. Span(N, h, t, o) - 1 : q[SlotOf(N, h, o, k)] \in B

\* Filling, taking and freeing keep it so, and what is taken is in B.
LEMMA HeldSend ==
  ASSUME NEW N \in Sizes, NEW A, NEW q \in RingsOf(N, A), NEW B, NEW e \in A,
         NEW h \in Ring(N), NEW t \in Ring(N), NEW o \in {0, 1},
         Held(N, q, h, t, o, B), e \in B
  PROVE  Held(N, [q EXCEPT ![t] = e], h, After(N, t), o, B)
<1> DEFINE n == Span(N, h, t, o)
<1> SUFFICES ASSUME NEW k \in 0 .. Span(N, h, After(N, t), o) - 1
             PROVE  [q EXCEPT ![t] = e][SlotOf(N, h, o, k)] \in B
  BY DEF Held
<1>1. /\ Span(N, h, After(N, t), o) = IF n + 1 = N THEN 0 ELSE n + 1
      /\ n \in Ring(N)
      /\ SlotOf(N, h, o, n) = t
  BY SpanSend
<1>2. k \in 0 .. n - 1 \/ k = n
  BY <1>1 DEF Ring, Sizes
<1>3. CASE k = n
  BY <1>1, <1>3 DEF RingsOf
<1>4. CASE k \in 0 .. n - 1
  <2>1. SlotOf(N, h, o, k) \in Ring(N) /\ SlotOf(N, h, o, k) # t
    BY <1>4, TailIsFree
  <2>2. q[SlotOf(N, h, o, k)] \in B
    BY <1>4 DEF Held
  <2> QED
    BY <2>1, <2>2 DEF RingsOf
<1> QED
  BY <1>2, <1>3, <1>4

LEMMA HeldTake ==
  ASSUME NEW N \in Sizes, NEW q, NEW B, NEW h \in Ring(N), NEW t \in Ring(N),
         Held(N, q, h, t, 0, B), h # t
  PROVE  q[h] \in B /\ Held(N, q, h, t, 1, B)
<1>1. /\ Span(N, h, t, 1) = Span(N, h, t, 0) - 1
      /\ Span(N, h, t, 0) # 0
  BY SpanTake
<1>2. Span(N, h, t, 0) \in Ring(N)
  BY SpanType
<1>3. q[h] \in B
  <2>1. 0 \in 0 .. Span(N, h, t, 0) - 1
    BY <1>1, <1>2 DEF Ring, Sizes
  <2> QED
    BY <2>1, SlotOfHead DEF Held
<1>4. ASSUME NEW k \in 0 .. Span(N, h, t, 1) - 1
      PROVE  q[SlotOf(N, h, 1, k)] \in B
  <2>1. k + 1 \in 0 .. Span(N, h, t, 0) - 1
    BY <1>1, <1>2 DEF Ring, Sizes
  <2>2. h + 1 + k = h + 0 + (k + 1)
    BY <1>1, <1>2 DEF Ring, Sizes
  <2>3. SlotOf(N, h, 1, k) = SlotOf(N, h, 0, k + 1)
    BY <2>2 DEF SlotOf
  <2> QED
    BY <2>1, <2>3 DEF Held
<1> QED
  BY <1>3, <1>4 DEF Held

LEMMA HeldDone ==
  ASSUME NEW N \in Sizes, NEW q, NEW B, NEW h \in Ring(N), NEW t \in Ring(N),
         Held(N, q, h, t, 1, B)
  PROVE  Held(N, q, After(N, h), t, 0, B)
<1>1. Span(N, After(N, h), t, 0) = Span(N, h, t, 1)
  BY SpanTake
<1>2. ASSUME NEW k \in 0 .. Span(N, h, t, 1) - 1
      PROVE  q[SlotOf(N, After(N, h), 0, k)] \in B
  <2>1. k \in Ring(N)
    BY SpanType DEF Ring, Sizes
  <2>2. SlotOf(N, After(N, h), 0, k) = SlotOf(N, h, 1, k)
    BY <2>1, SlotOfDone
  <2> QED
    BY <2>2 DEF Held
<1> QED
  BY <1>1, <1>2 DEF Held

LEMMA HeldNone ==
  ASSUME NEW N \in Sizes, NEW q, NEW B, NEW h \in Ring(N)
  PROVE  Span(N, h, h, 0) = 0 /\ Held(N, q, h, h, 0, B)
<1>1. Span(N, h, h, 0) = 0
  BY SpanTake
<1> QED
  BY <1>1 DEF Held

\* A slot between head and tail is the slot being handled or of a waiting item.
LEMMA PendingSlot ==
  ASSUME NEW N \in Sizes, NEW h \in Ring(N), NEW t \in Ring(N), NEW o \in {0, 1},
         NEW s \in Ring(N),
         IF h <= t THEN h <= s /\ s < t ELSE h <= s \/ s < t
  PROVE  \/ o = 1 /\ s = h
         \/ \E k \in 0 .. Span(N, h, t, o) - 1 : SlotOf(N, h, o, k) = s
<1> DEFINE k == IF s - h - o >= 0 THEN s - h - o ELSE s - h - o + N
<1> SUFFICES ASSUME ~(o = 1 /\ s = h)
             PROVE  k \in 0 .. Span(N, h, t, o) - 1 /\ SlotOf(N, h, o, k) = s
  OBVIOUS
<1>1. Span(N, h, t, o) = IF t - h - o >= 0 THEN t - h - o ELSE t - h - o + N
  BY SpanType
<1>2. k \in 0 .. Span(N, h, t, o) - 1 /\ k \in Ring(N)
  BY <1>1 DEF Sizes, Ring
<1>3. SlotOf(N, h, o, k) = IF h + o + k < N THEN h + o + k ELSE h + o + k - N
  <2> HIDE DEF k
  <2> QED
    BY <1>2, SlotOfType
<1> QED
  BY <1>2, <1>3 DEF Sizes, Ring

\* The refinement mappings write the slot of the i-th item out.
LEMMA ItemsWritten ==
  ASSUME NEW N \in Sizes, NEW q, NEW h \in Ring(N), NEW t \in Ring(N),
         NEW o \in {0, 1}
  PROVE  [i \in 1 .. Span(N, h, t, o) |-> q[(h + o + i - 1) % N]] = ItemsOf(N, q, h, t, o)
<1>1. ASSUME NEW i \in 1 .. Span(N, h, t, o)
      PROVE  h + o + i - 1 = h + o + (i - 1)
  BY SpanType
<1> QED
  BY <1>1 DEF ItemsOf, SlotOf
=============================================================================
