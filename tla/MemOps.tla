------------------------------- MODULE MemOps -------------------------------
(***************************************************************************)
(* memcpy and memset, for which the link takes those of zb_main.c.  They   *)
(* store whole words where they can: what a call does is a set of stores,  *)
(* of one byte or of four.  A call is all there is to the state.           *)
(***************************************************************************)
EXTENDS Integers

CONSTANTS
  Lengths,    \* those tried
  Chars,      \* the bytes a memset may be given
  SizeWidth   \* 2^32, the range of size_t

ASSUME MemOpsAssumption ==
  /\ Lengths \subseteq Nat
  /\ Chars \subseteq 0 .. 255
  /\ SizeWidth \in Nat \ {0}

wsize == 4

VARIABLE call   \* the arguments, addresses modulo wsize

\* signed: did Val come from a char, which extends the sign, or from an unsigned char?
Calls ==
  [dst : 0 .. wsize - 1, src : 0 .. wsize - 1, n : Lengths, char : Chars, signed : BOOLEAN]

MemInit == call \in Calls

Val == IF call.signed /\ call.char >= 128 THEN call.char - 256 ELSE call.char

\* The stores of n bytes from first on, and of n words
Bytes(first, n) == {[at |-> first + i, size |-> 1] : i \in 0 .. n - 1}
Words(first, n) == {[at |-> first + wsize * i, size |-> wsize] : i \in 0 .. n - 1}

CHECK_STR_UNALIGNED == call.dst # 0 \/ call.src # 0

memcpy ==
  IF call.n < wsize \/ CHECK_STR_UNALIGNED
  THEN Bytes(0, call.n)
  ELSE LET words == call.n \div wsize
       IN Words(0, words) \cup Bytes(wsize * words, call.n % wsize)

\* Bug to catch: a word is taken to be enough for the loop over words.
OneWordEnough == call.n < wsize

\* "not enough words, just fill bytes"
TooFewWords == call.n < 3 * wsize

\* do ... while (--t != 0)
DoTimes(t) == IF t = 0 THEN SizeWidth ELSE t

memset ==
  IF TooFewWords
  THEN Bytes(0, call.n)
  ELSE LET head  == (wsize - call.dst) % wsize
           words == DoTimes((call.n - head) \div wsize)
       IN Bytes(0, head)
             \cup Words(head, words)
             \cup Bytes(head + wsize * words, (call.n - head) % wsize)

\* Byte k of Wideval: Val is not cut to a byte before it is shifted, and of a Val
\* below zero the upper bytes are 0xff.
WidevalByte(k) == IF k = 0 \/ Val >= 0 THEN Val % 256 ELSE 255

\* The byte that a store of memset leaves at i
Left(store, i) == IF store.size = 1 THEN Val % 256 ELSE WidevalByte(i - store.at)

-----------------------------------------------------------------------------
(* Properties.                                                             *)

\* Each of the n bytes is stored once, and none but these.
StoredOnce(stores) ==
  /\ \A s \in stores : s.at + s.size <= call.n
  /\ \A i \in 0 .. call.n - 1 :
       \E s \in stores : \A t \in stores : (t.at <= i /\ i < t.at + t.size) <=> t = s

Aligned(stores, address) == \A s \in stores : s.size = wsize => (address + s.at) % wsize = 0

\* memcpy and memset do what the C standard says, whatever the length and however the
\* addresses are aligned; only memset with a char below zero leaves other bytes than
\* (unsigned char)Val, where it stores words.
MemoryAsC ==
  /\ StoredOnce(memcpy) /\ Aligned(memcpy, call.dst) /\ Aligned(memcpy, call.src)
  /\ StoredOnce(memset) /\ Aligned(memset, call.dst)
  /\ Val >= 0 =>
       \A s \in memset : \A i \in s.at .. s.at + s.size - 1 : Left(s, i) = Val % 256
=============================================================================
