-------------------------- MODULE WindowLoop_proofs --------------------------
(***************************************************************************)
(* The loop of Received() implements the closed form of SequenceTest, for  *)
(* every window size and sequence space: proofs about module WindowLoop.   *)
(*                                                                         *)
(* LoopInv is the invariant of the loop.  It says what a round may not     *)
(* lose: _bitfield is the old one moved by the distance covered so far,    *)
(* that distance ends at a zero bit of the old field, and no zero bit      *)
(* behind it would have brought the number inside the window.  The last    *)
(* part is what makes the stop the first one, and restart the only way     *)
(* left when the distance is a whole window.                               *)
(***************************************************************************)
EXTENDS WindowLoop, SequenceTest_proofs

Round == [newest : Seqs, min : Nat, bits : SUBSET (0..(Window - 1))]

\* How far the loop has moved, what that says of the bit field and what of
\* the zero bits it moved past.
Moved(w) ==
  LET d == w.min - min
  IN  /\ d \in Nat
      /\ w.newest > min + Window
      /\ w.bits = ShiftRight(bitfield, d)
      /\ d \in 1..(Window - 1) => d - 1 \notin bitfield
      /\ \A j \in 1..(Window - 1) :
           j < d /\ j - 1 \notin bitfield => min + j + Window <= w.newest

LoopInv ==
  /\ loop \subseteq Round
  /\ \A v, w \in loop : v = w
  /\ \A w \in loop : Moved(w)

-----------------------------------------------------------------------------
\* Two shifts are one shift by the sum, and the shift by nothing is none.
LEMMA ShiftTwice ==
  ASSUME NEW bits \in SUBSET Nat, NEW j \in Nat, NEW k \in Nat
  PROVE  ShiftRight(ShiftRight(bits, j), k) = ShiftRight(bits, j + k)
<1>1. ASSUME NEW x \in ShiftRight(ShiftRight(bits, j), k)
      PROVE  x \in ShiftRight(bits, j + k)
  <2>1. PICK b \in ShiftRight(bits, j) : b >= k /\ x = b - k
    BY <1>1 DEF ShiftRight
  <2>2. PICK c \in bits : c >= j /\ b = c - j
    BY <2>1 DEF ShiftRight
  <2>3. c \in Int /\ c >= j + k /\ x = c - (j + k)
    BY <2>1, <2>2
  <2>. QED
    BY <2>2, <2>3 DEF ShiftRight
<1>2. ASSUME NEW x \in ShiftRight(bits, j + k)
      PROVE  x \in ShiftRight(ShiftRight(bits, j), k)
  <2>1. PICK c \in bits : c >= j + k /\ x = c - (j + k)
    BY <1>2 DEF ShiftRight
  <2>2. c \in Int /\ c >= j /\ c - j >= k /\ x = (c - j) - k
    BY <2>1
  <2>3. c - j \in ShiftRight(bits, j)
    BY <2>1, <2>2 DEF ShiftRight
  <2>. QED
    BY <2>2, <2>3 DEF ShiftRight
<1>. QED
  BY <1>1, <1>2

LEMMA ShiftNone ==
  ASSUME NEW bits \in SUBSET Nat
  PROVE  ShiftRight(bits, 0) = bits
<1>1. ASSUME NEW x \in bits
      PROVE  x \in ShiftRight(bits, 0)
  <2>1. x >= 0 /\ x = x - 0
    OBVIOUS
  <2>. QED
    BY <2>1 DEF ShiftRight
<1>2. ASSUME NEW x \in ShiftRight(bits, 0)
      PROVE  x \in bits
  <2>1. PICK c \in bits : x = c - 0
    BY <1>2 DEF ShiftRight
  <2>2. x = c
    BY <2>1
  <2>. QED
    BY <2>2
<1>. QED
  BY <1>1, <1>2

\* A bit survives a shift exactly as its place before it.
LEMMA ShiftedBit ==
  ASSUME NEW bits \in SUBSET Nat, NEW j \in Nat, NEW b \in Nat
  PROVE  b \in ShiftRight(bits, j) <=> b + j \in bits
<1>1. ASSUME b + j \in bits
      PROVE  b \in ShiftRight(bits, j)
  <2>1. b + j >= j /\ b = (b + j) - j
    OBVIOUS
  <2>. QED
    BY <1>1, <2>1 DEF ShiftRight
<1>2. ASSUME b \in ShiftRight(bits, j)
      PROVE  b + j \in bits
  <2>1. PICK c \in bits : c >= j /\ b = c - j
    BY <1>2 DEF ShiftRight
  <2>2. c = b + j
    BY <2>1
  <2>. QED
    BY <2>1, <2>2
<1>. QED
  BY <1>1, <1>2
-----------------------------------------------------------------------------
\* The loop starts at distance zero.
LEMMA BeginLoopInv ==
  ASSUME TypeOK, NEW s \in Seqs, beginLoop(s)
  PROVE  LoopInv'
<1>. USE WindowAssumption
<1>1. /\ min \in Nat /\ bitfield \in SUBSET (0..(Window - 1)) /\ bitfield \in SUBSET Nat
      /\ min' = min /\ bitfield' = bitfield /\ s > min + Window
  BY DEF TypeOK, beginLoop, vars
<1>2. PICK w : w = [newest |-> s, min |-> min, bits |-> bitfield]
  OBVIOUS
<1>3. w \in Round /\ w.min = min /\ w.bits = bitfield /\ w.newest = s
  BY <1>1, <1>2 DEF Round
<1>4. loop' = {w}
  BY <1>2 DEF beginLoop
<1>5. Moved(w)'
  <2>1. w.min - min = 0
    BY <1>1, <1>3
  <2>2. w.bits = ShiftRight(bitfield, 0)
    BY <1>1, <1>3, ShiftNone
  <2>3. Moved(w)
    BY <1>1, <1>3, <2>1, <2>2 DEF Moved
  <2>. QED
    BY <1>1, <2>3 DEF Moved
<1>. QED
  BY <1>3, <1>4, <1>5 DEF LoopInv

\* A round keeps what the earlier rounds found: every place it moves past is a
\* one bit, except the first, which the guard of the loop covers.
LEMMA IterateInv ==
  ASSUME TypeOK, LoopInv, iterate
  PROVE  LoopInv'
<1>. USE WindowAssumption
<1>1. PICK v \in loop :
        /\ GoesOn(v)
        /\ \E k \in 1..Window :
             /\ AdvancesBy(v.bits, k)
             /\ loop' = {[v EXCEPT !.min = @ + k, !.bits = ShiftRight(@, k)]}
  BY DEF iterate
<1>2. PICK k \in 1..Window :
        /\ AdvancesBy(v.bits, k)
        /\ loop' = {[v EXCEPT !.min = @ + k, !.bits = ShiftRight(@, k)]}
  BY <1>1
<1>3. /\ min \in Nat /\ bitfield \in SUBSET (0..(Window - 1)) /\ bitfield \in SUBSET Nat
      /\ min' = min /\ bitfield' = bitfield
  BY DEF TypeOK, iterate, vars
<1>4. PICK w : w = [v EXCEPT !.min = @ + k, !.bits = ShiftRight(@, k)]
  OBVIOUS
<1>5. v \in Round /\ Moved(v)
  BY <1>1 DEF LoopInv
<1>6. w \in Round /\ w.newest = v.newest /\ w.min = v.min + k /\ w.bits = ShiftRight(v.bits, k)
  <2>1. v \in [newest : Seqs, min : Nat, bits : SUBSET (0..(Window - 1))]
    BY <1>5 DEF Round
  <2>2. ShiftRight(v.bits, k) \in SUBSET (0..(Window - 1))
    BY <2>1 DEF ShiftRight
  <2>3. w = [newest |-> v.newest, min |-> v.min + k, bits |-> ShiftRight(v.bits, k)]
    BY <1>4, <2>1
  <2>. QED
    BY <2>1, <2>2, <2>3 DEF Round
<1>7. Moved(w)
  <2>. DEFINE d == v.min - min
              e == w.min - min
  <2>1. /\ d \in Nat /\ e = d + k /\ e \in Nat /\ d < Window
        /\ v.newest > min + Window
        /\ v.bits = ShiftRight(bitfield, d)
    BY <1>1, <1>3, <1>5, <1>6 DEF Moved, Round, GoesOn
  <2>2. \A j \in 1..(Window - 1) :
           j < d /\ j - 1 \notin bitfield => min + j + Window <= v.newest
    BY <1>5 DEF Moved
  <2>3. w.newest = v.newest /\ min + d + Window <= v.newest
    BY <1>1, <1>3, <1>5, <1>6 DEF GoesOn, Round
  <2>. HIDE DEF d, e
  <2>4. w.bits = ShiftRight(bitfield, e)
    BY <1>3, <1>6, <2>1, ShiftTwice
  <2>5. ASSUME e \in 1..(Window - 1)
        PROVE  e - 1 \notin bitfield
    <3>1. k - 1 \notin v.bits
      BY <1>2, <2>1, <2>5 DEF AdvancesBy
    <3>2. (k - 1) + d \notin bitfield
      BY <1>3, <2>1, <3>1, ShiftedBit
    <3>3. (k - 1) + d = e - 1
      BY <2>1
    <3>. QED
      BY <3>2, <3>3
  <2>6. ASSUME NEW j \in 1..(Window - 1), j < e, j - 1 \notin bitfield
        PROVE  min + j + Window <= w.newest
    <3>1. CASE j < d
      BY <2>2, <2>3, <2>6, <3>1
    <3>2. CASE j = d
      BY <2>3, <3>2
    <3>3. CASE j > d
      <4>1. j - 1 - d \in 0..(k - 2) /\ j - 1 - d \in Nat /\ (j - 1 - d) + d = j - 1
        BY <2>1, <2>6, <3>3
      <4>2. j - 1 - d \in v.bits
        BY <1>2, <4>1 DEF AdvancesBy
      <4>3. j - 1 \in bitfield
        BY <1>3, <2>1, <4>1, <4>2, ShiftedBit
      <4>. QED
        BY <2>6, <4>3
    <3>. QED
      BY <2>1, <3>1, <3>2, <3>3
  <2>7. w.newest > min + Window
    BY <2>1, <2>3
  <2>. QED
    BY <2>1, <2>4, <2>5, <2>6, <2>7 DEF Moved, e
<1>8. Moved(w)'
  BY <1>3, <1>7 DEF Moved
<1>9. loop' = {w}
  BY <1>2, <1>4
<1>. QED
  BY <1>6, <1>8, <1>9 DEF LoopInv

-----------------------------------------------------------------------------
\* The end of the loop inside the window is the slide of SequenceTest.
LEMMA MarkSlides ==
  ASSUME TypeOK, LoopInv, mark
  PROVE  \E s \in Seqs : ReceiveSlide(s)
<1>. USE WindowAssumption
<1>1. PICK w \in loop :
        /\ ~GoesOn(w) /\ w.min < min + Window
        /\ min' = w.min
        /\ bitfield' = w.bits \cup {w.newest - w.min - 1}
        /\ Count(w.newest)
  BY DEF mark
<1>2. w \in Round /\ Moved(w) /\ min \in Nat
  BY <1>1 DEF LoopInv, TypeOK
<1>. DEFINE k == w.min - min
<1>3. w.newest \in Seqs /\ w.newest \in Nat /\ w.min \in Nat
  BY <1>2, MaxSeqAssumption DEF Round, Seqs
<1>4. /\ k \in Nat /\ w.min = min + k
      /\ w.newest > min + Window
      /\ w.bits = ShiftRight(bitfield, k)
      /\ k \in 1..(Window - 1) => k - 1 \notin bitfield
      /\ \A j \in 1..(Window - 1) :
           j < k /\ j - 1 \notin bitfield => min + j + Window <= w.newest
  BY <1>2, <1>3 DEF Moved
<1>5. min + k < min + Window /\ min + k + Window > w.newest
  BY <1>1, <1>3, <1>4 DEF GoesOn
<1>. HIDE DEF k
<1>6. k \in 1..(Window - 1)
  BY <1>2, <1>3, <1>4, <1>5
<1>7. SlidesBy(w.newest, k)
  BY <1>2, <1>3, <1>4, <1>5, <1>6 DEF SlidesBy, Stops
<1>8. bitfield' = ShiftRight(bitfield, k) \cup {w.newest - (min + k) - 1} /\ min' = min + k
  BY <1>1, <1>4
<1>. QED
  BY <1>1, <1>3, <1>4, <1>6, <1>7, <1>8 DEF ReceiveSlide

\* The end of the loop past the whole window is the jump of SequenceTest: no
\* stop inside the old window would have done.
LEMMA RestartJumps ==
  ASSUME TypeOK, LoopInv, restart
  PROVE  \E s \in Seqs : ReceiveJump(s)
<1>. USE WindowAssumption
<1>1. PICK w \in loop :
        /\ w.min >= min + Window
        /\ min' = w.newest + 1
        /\ bitfield' = {}
        /\ Count(w.newest)
  BY DEF restart
<1>2. w \in Round /\ Moved(w) /\ min \in Nat
  BY <1>1 DEF LoopInv, TypeOK
<1>3. w.newest \in Seqs /\ w.newest \in Nat /\ w.min \in Nat
  BY <1>2, MaxSeqAssumption DEF Round, Seqs
<1>4. ASSUME NEW j \in 1..(Window - 1), j - 1 \notin bitfield
      PROVE  min + j + Window <= w.newest
  <2>1. j < w.min - min
    BY <1>1, <1>2, <1>3
  <2>. QED
    BY <1>2, <1>4, <2>1 DEF Moved
<1>5. Stops(w.newest) = {}
  BY <1>2, <1>3, <1>4 DEF Stops
<1>6. w.newest > min + Window
  BY <1>2 DEF Moved
<1>. QED
  BY <1>1, <1>3, <1>5, <1>6 DEF ReceiveJump

\* Every step of the loop version is a step of SequenceTest or changes
\* nothing of it.
LEMMA StepAgrees ==
  ASSUME TypeOK, LoopInv, [LoopNext]_loopVars
  PROVE  [Next]_vars
<1>1. CASE \E s \in Seqs : beginLoop(s)
  BY <1>1 DEF beginLoop
<1>2. CASE iterate
  BY <1>2 DEF iterate
<1>3. CASE restart
  BY <1>3, RestartJumps DEF Next, Received
<1>4. CASE mark
  BY <1>4, MarkSlides DEF Next, Received
<1>5. CASE noLoop
  BY <1>5 DEF noLoop, Next, Received
<1>6. CASE UNCHANGED loopVars
  BY <1>6 DEF loopVars
<1>. QED
  BY <1>1, <1>2, <1>3, <1>4, <1>5, <1>6 DEF LoopNext

\* Every step keeps the invariant of the loop.
LEMMA StepLoopInv ==
  ASSUME TypeOK, LoopInv, [LoopNext]_loopVars
  PROVE  LoopInv'
<1>1. CASE \E s \in Seqs : beginLoop(s)
  BY <1>1, BeginLoopInv
<1>2. CASE iterate
  BY <1>2, IterateInv
<1>3. CASE loop' = {}
  BY <1>3 DEF LoopInv
<1>4. CASE UNCHANGED loopVars
  BY <1>4 DEF loopVars, vars, LoopInv, Moved
<1>. QED
  BY <1>1, <1>2, <1>3, <1>4 DEF LoopNext, restart, mark, noLoop

\* The loop of Received() implements the closed form, for every window size
\* and sequence space.
THEOREM LoopImplements == LoopSpec => LoopAgrees
<1>1. LoopInit => Init /\ IInv /\ LoopInv
  BY InitIInv DEF LoopInit, LoopInv
<1>2. IInv /\ LoopInv /\ [LoopNext]_loopVars => IInv' /\ LoopInv' /\ [Next]_vars
  BY StepLoopInv, StepAgrees, NextIInv DEF IInv
<1>. QED
  BY <1>1, <1>2, PTL DEF LoopSpec, LoopAgrees, Spec

\* So what is proved of the closed form is proved of the loop.
THEOREM LoopKeepsWindow ==
  LoopSpec => /\ [](TypeOK /\ BitsAreSeen /\ SeenIsCovered /\ AtMostTwice /\ NewestIsAccepted)
              /\ GivesUpOnlyOld
BY LoopImplements, TypeCorrect, BitsHonest, NothingForgotten, DuplicateBound,
   NewestHeard, RecentIsKept, PTL DEF LoopAgrees
=============================================================================
