------------------------ MODULE SequenceTest_proofs ------------------------
(***************************************************************************)
(* What the receive window guarantees for every window size and every      *)
(* sequence space: proofs about module SequenceTest.                       *)
(*                                                                         *)
(* AtMostTwice and NewestIsAccepted are not inductive.  The first needs to *)
(* know where the second acceptance leaves _min (SecondIsPassed) and that  *)
(* nothing accepted is forgotten (SeenIsCovered); the second needs _min to *)
(* stay behind something accepted (MinNotAhead) and the bits to be honest  *)
(* (BitsAreSeen).                                                          *)
(***************************************************************************)
EXTENDS SequenceTest, TLAPS

\* A number accepted for the second time has been passed.
SecondIsPassed == \A s \in Seqs : times[s] <= 1 \/ (times[s] = 2 /\ s < min)

\* _min is never more than one ahead of some accepted number.
MinNotAhead == min = 0 \/ \E t \in Seen : t >= min - 1

IInv ==
  /\ TypeOK
  /\ BitsAreSeen
  /\ SeenIsCovered
  /\ SecondIsPassed
  /\ MinNotAhead

-----------------------------------------------------------------------------
\* What an acceptance does to the numbers seen: s joins them, none leaves.
LEMMA CountSeen ==
  ASSUME TypeOK, NEW s \in Seqs, Count(s)
  PROVE  /\ times' \in [Seqs -> Nat]
         /\ Seen' = Seen \cup {s}
         /\ times'[s] = times[s] + 1
         /\ \A t \in Seqs : t # s => times'[t] = times[t]
BY DEF TypeOK, Count, Seen, Seqs

\* The initial state satisfies the invariant.
LEMMA InitIInv == Init => IInv
BY WindowAssumption, MaxSeqAssumption
   DEF Init, IInv, TypeOK, BitsAreSeen, SeenIsCovered, SecondIsPassed,
       MinNotAhead, Seen, Seqs

\* The number at _min: the window moves past the run of accepted numbers.
LEMMA MinIInv ==
  ASSUME IInv, NEW s \in Seqs, ReceiveMin(s)
  PROVE  IInv'
<1>. USE WindowAssumption, MaxSeqAssumption
<1>0. Count(s) /\ s = min
  BY DEF ReceiveMin
<1>1. PICK k \in 1..Window :
        /\ AdvancesBy(bitfield, k)
        /\ min' = min + k
        /\ bitfield' = ShiftRight(bitfield, k)
  BY DEF ReceiveMin
<1>2. /\ times' \in [Seqs -> Nat]
      /\ Seen' = Seen \cup {s}
      /\ times'[s] = times[s] + 1
      /\ \A t \in Seqs : t # s => times'[t] = times[t]
  BY <1>0, CountSeen DEF IInv
<1>3. min \in Nat /\ bitfield \subseteq 0..(Window - 1)
  BY DEF IInv, TypeOK
<1>4. k = 1 \/ (k >= 2 /\ k - 2 \in bitfield)
  BY <1>1, <1>3 DEF AdvancesBy
<1>5. k = 1 \/ (min + k - 1 \in Seen /\ min + k - 1 \in Seqs)
  <2>1. CASE k >= 2
    <3>1. min + 1 + (k - 2) \in Seen
      BY <1>4, <2>1 DEF IInv, BitsAreSeen
    <3>2. min + 1 + (k - 2) = min + k - 1
      BY <1>3
    <3>3. QED
      BY <3>1, <3>2 DEF Seen
  <2>2. QED
    BY <1>4, <2>1
<1>6. TypeOK'
  BY <1>0, <1>1, <1>2, <1>3, <1>5 DEF TypeOK, ShiftRight, Seqs
<1>7. BitsAreSeen'
  <2>. SUFFICES ASSUME NEW b \in bitfield'
                PROVE  min' + 1 + b \in Seen'
    BY DEF BitsAreSeen
  <2>1. b \in Int /\ b + k \in bitfield
    BY <1>1, <1>3 DEF ShiftRight
  <2>2. min + 1 + (b + k) \in Seen
    BY <2>1 DEF IInv, BitsAreSeen
  <2>3. min' + 1 + b = min + 1 + (b + k)
    BY <1>1, <1>3, <2>1
  <2>. QED
    BY <1>2, <2>2, <2>3
<1>8. SeenIsCovered'
  <2>. SUFFICES ASSUME NEW t \in Seen'
                PROVE  t <= min' \/ t - min' - 1 \in bitfield'
    BY DEF SeenIsCovered
  <2>1. t = min \/ (t \in Seen /\ t \in Seqs)
    BY <1>0, <1>2 DEF Seen
  <2>2. CASE t <= min
    BY <1>1, <1>3, <2>1, <2>2 DEF Seqs
  <2>3. CASE t \in Seen /\ t - min - 1 \in bitfield
    <3>1. t \in Nat
      BY <2>3 DEF Seen, Seqs
    <3>2. t - min - 1 < k => t <= min'
      BY <1>1, <1>3, <3>1
    <3>3. t - min - 1 >= k => t - min' - 1 \in bitfield'
      BY <1>1, <1>3, <2>3, <3>1 DEF ShiftRight
    <3>. QED
      BY <1>3, <3>1, <3>2, <3>3
  <2>. QED
    BY <1>3, <2>1, <2>2, <2>3 DEF IInv, SeenIsCovered
<1>9. SecondIsPassed'
  <2>. SUFFICES ASSUME NEW t \in Seqs
                PROVE  times'[t] <= 1 \/ (times'[t] = 2 /\ t < min')
    BY DEF SecondIsPassed
  <2>1. CASE t = s
    <3>1. times[s] \in Nat /\ times[s] <= 1
      BY <1>0, <1>3 DEF IInv, SecondIsPassed, TypeOK
    <3>. QED
      BY <1>0, <1>1, <1>2, <1>3, <2>1, <3>1
  <2>2. CASE t # s
    <3>1. times'[t] = times[t] /\ min' > min /\ t \in Int
      BY <1>1, <1>2, <1>3, <2>2 DEF Seqs
    <3>. QED
      BY <1>1, <1>3, <3>1 DEF IInv, SecondIsPassed
  <2>. QED
    BY <2>1, <2>2
<1>10. MinNotAhead'
  <2>1. CASE k = 1
    <3>1. s \in Seen' /\ s >= min' - 1
      BY <1>0, <1>1, <1>2, <1>3, <2>1
    <3>. QED
      BY <3>1 DEF MinNotAhead
  <2>2. CASE k # 1
    <3>1. min + k - 1 \in Seen' /\ min + k - 1 >= min' - 1
      BY <1>1, <1>2, <1>3, <1>5, <2>2
    <3>. QED
      BY <3>1 DEF MinNotAhead
  <2>. QED
    BY <2>1, <2>2
<1>. QED
  BY <1>6, <1>7, <1>8, <1>9, <1>10 DEF IInv

\* A number inside the window: its bit is set and nothing moves.
LEMMA InWindowIInv ==
  ASSUME IInv, NEW s \in Seqs, ReceiveInWindow(s)
  PROVE  IInv'
<1>. USE WindowAssumption, MaxSeqAssumption
<1>1. /\ Count(s)
      /\ min < s /\ s <= min + Window
      /\ s - min - 1 \notin bitfield
      /\ bitfield' = bitfield \cup {s - min - 1}
      /\ min' = min
  BY DEF ReceiveInWindow
<1>2. /\ times' \in [Seqs -> Nat]
      /\ Seen' = Seen \cup {s}
      /\ times'[s] = times[s] + 1
      /\ \A t \in Seqs : t # s => times'[t] = times[t]
  BY <1>1, CountSeen DEF IInv
<1>3. min \in Nat /\ min \in 0..(MaxSeq + 1) /\ s \in Nat /\ bitfield \subseteq 0..(Window - 1)
  BY DEF IInv, TypeOK, Seqs
<1>4. times[s] = 0
  <2>1. s \notin Seen
    BY <1>1, <1>3 DEF IInv, SeenIsCovered
  <2>. QED
    BY <2>1 DEF IInv, TypeOK, Seen
<1>5. TypeOK'
  BY <1>1, <1>2, <1>3 DEF TypeOK
<1>6. BitsAreSeen'
  <2>. SUFFICES ASSUME NEW b \in bitfield'
                PROVE  min + 1 + b \in Seen'
    BY <1>1 DEF BitsAreSeen
  <2>1. CASE b \in bitfield
    BY <1>2, <2>1 DEF IInv, BitsAreSeen
  <2>2. CASE b = s - min - 1
    BY <1>2, <1>3, <2>2
  <2>. QED
    BY <1>1, <2>1, <2>2
<1>7. SeenIsCovered'
  BY <1>1, <1>2, <1>3 DEF IInv, SeenIsCovered
<1>8. SecondIsPassed'
  BY <1>1, <1>2, <1>4 DEF IInv, SecondIsPassed
<1>9. MinNotAhead'
  BY <1>1, <1>2 DEF IInv, MinNotAhead
<1>. QED
  BY <1>5, <1>6, <1>7, <1>8, <1>9 DEF IInv

\* A number beyond the window that a partial move brings inside: what the
\* move passes is at or below the new _min, what it keeps keeps its bit.
LEMMA SlideIInv ==
  ASSUME IInv, NEW s \in Seqs, ReceiveSlide(s)
  PROVE  IInv'
<1>. USE WindowAssumption, MaxSeqAssumption
<1>1. PICK k \in 1..(Window - 1) :
        /\ SlidesBy(s, k)
        /\ min' = min + k
        /\ bitfield' = ShiftRight(bitfield, k) \cup {s - (min + k) - 1}
  BY DEF ReceiveSlide
<1>2. Count(s) /\ s > min + Window
  BY DEF ReceiveSlide
<1>3. /\ times' \in [Seqs -> Nat]
      /\ Seen' = Seen \cup {s}
      /\ times'[s] = times[s] + 1
      /\ \A t \in Seqs : t # s => times'[t] = times[t]
  BY <1>2, CountSeen DEF IInv
<1>4. min \in Nat /\ s \in Nat /\ s <= MaxSeq /\ bitfield \subseteq 0..(Window - 1)
  BY DEF IInv, TypeOK, Seqs
<1>5. min + k + Window > s
  BY <1>1 DEF SlidesBy, Stops
<1>6. times[s] = 0
  <2>1. s \notin Seen
    BY <1>2, <1>4 DEF IInv, SeenIsCovered
  <2>. QED
    BY <2>1 DEF IInv, TypeOK, Seen
<1>7. TypeOK'
  <2>1. min' \in 0..(MaxSeq + 1)
    BY <1>1, <1>2, <1>4
  <2>2. s - (min + k) - 1 \in 0..(Window - 1)
    BY <1>2, <1>4, <1>5
  <2>3. bitfield' \subseteq 0..(Window - 1)
    BY <1>1, <1>4, <2>2 DEF ShiftRight
  <2>. QED
    BY <1>3, <2>1, <2>3 DEF TypeOK
<1>8. BitsAreSeen'
  <2>. SUFFICES ASSUME NEW b \in bitfield'
                PROVE  min' + 1 + b \in Seen'
    BY DEF BitsAreSeen
  <2>1. CASE b = s - (min + k) - 1
    <3>1. min' + 1 + b = s
      BY <1>1, <1>4, <2>1
    <3>. QED
      BY <1>3, <3>1
  <2>2. CASE b \in ShiftRight(bitfield, k)
    <3>0. PICK c \in bitfield : c >= k /\ b = c - k
      BY <2>2 DEF ShiftRight
    <3>1. b \in Int /\ b + k \in bitfield
      BY <1>4, <3>0
    <3>2. min + 1 + (b + k) \in Seen
      BY <3>1 DEF IInv, BitsAreSeen
    <3>3. min' + 1 + b = min + 1 + (b + k)
      BY <1>1, <1>4, <3>1
    <3>. QED
      BY <1>3, <3>2, <3>3
  <2>. QED
    BY <1>1, <2>1, <2>2
<1>9. SeenIsCovered'
  <2>. SUFFICES ASSUME NEW t \in Seen'
                PROVE  t <= min' \/ t - min' - 1 \in bitfield'
    BY DEF SeenIsCovered
  <2>0. t \in Seqs /\ t \in Nat /\ (t = s \/ t \in Seen)
    BY <1>3 DEF Seen, Seqs
  <2>1. CASE t = s
    BY <1>1, <1>4, <2>1
  <2>2. CASE t \in Seen /\ t <= min
    BY <1>1, <1>4, <2>0, <2>2
  <2>3. CASE t \in Seen /\ t - min - 1 \in bitfield
    <3>1. t - min - 1 < k => t <= min'
      BY <1>1, <1>4, <2>0
    <3>2. t - min - 1 >= k => t - min' - 1 \in ShiftRight(bitfield, k)
      BY <1>1, <1>4, <2>0, <2>3 DEF ShiftRight
    <3>. QED
      BY <1>1, <1>4, <2>0, <3>1, <3>2
  <2>. QED
    BY <2>0, <2>1, <2>2, <2>3 DEF IInv, SeenIsCovered
<1>10. SecondIsPassed'
  <2>. SUFFICES ASSUME NEW t \in Seqs
                PROVE  times'[t] <= 1 \/ (times'[t] = 2 /\ t < min')
    BY DEF SecondIsPassed
  <2>1. t \in Int /\ min' > min
    BY <1>1, <1>4 DEF Seqs
  <2>. QED
    BY <1>1, <1>3, <1>4, <1>6, <2>1 DEF IInv, SecondIsPassed
<1>11. MinNotAhead'
  <2>1. s \in Seen' /\ s >= min' - 1
    BY <1>1, <1>2, <1>3, <1>4
  <2>. QED
    BY <2>1 DEF MinNotAhead
<1>. QED
  BY <1>7, <1>8, <1>9, <1>10, <1>11 DEF IInv

\* A number that restarts the stream: everything accepted falls below _min.
LEMMA JumpIInv ==
  ASSUME IInv, NEW s \in Seqs, ReceiveJump(s)
  PROVE  IInv'
<1>. USE WindowAssumption, MaxSeqAssumption
<1>1. Count(s) /\ s > min + Window /\ min' = s + 1 /\ bitfield' = {}
  BY DEF ReceiveJump
<1>2. /\ times' \in [Seqs -> Nat]
      /\ Seen' = Seen \cup {s}
      /\ times'[s] = times[s] + 1
      /\ \A t \in Seqs : t # s => times'[t] = times[t]
  BY <1>1, CountSeen DEF IInv
<1>3. min \in Nat /\ s \in Nat /\ s <= MaxSeq /\ bitfield \subseteq 0..(Window - 1)
  BY DEF IInv, TypeOK, Seqs
<1>4. times[s] = 0
  <2>1. s \notin Seen
    BY <1>1, <1>3 DEF IInv, SeenIsCovered
  <2>. QED
    BY <2>1 DEF IInv, TypeOK, Seen
<1>5. TypeOK'
  BY <1>1, <1>2, <1>3 DEF TypeOK
<1>6. BitsAreSeen'
  BY <1>1 DEF BitsAreSeen
<1>7. SeenIsCovered'
  <2>. SUFFICES ASSUME NEW t \in Seen'
                PROVE  t <= min'
    BY DEF SeenIsCovered
  <2>1. t \in Nat /\ (t = s \/ t \in Seen)
    BY <1>2 DEF Seen, Seqs
  <2>2. t \in Seen => t <= min + Window
    BY <1>3, <2>1 DEF IInv, SeenIsCovered
  <2>. QED
    BY <1>1, <1>3, <2>1, <2>2
<1>8. SecondIsPassed'
  <2>. SUFFICES ASSUME NEW t \in Seqs
                PROVE  times'[t] <= 1 \/ (times'[t] = 2 /\ t < min')
    BY DEF SecondIsPassed
  <2>1. t \in Int /\ min' > min
    BY <1>1, <1>3 DEF Seqs
  <2>. QED
    BY <1>1, <1>2, <1>3, <1>4, <2>1 DEF IInv, SecondIsPassed
<1>9. MinNotAhead'
  <2>1. s \in Seen' /\ s >= min' - 1
    BY <1>1, <1>2, <1>3
  <2>. QED
    BY <2>1 DEF MinNotAhead
<1>. QED
  BY <1>5, <1>6, <1>7, <1>8, <1>9 DEF IInv

\* Received(s) counts s when the number is acceptable and changes nothing
\* when it is not.
LEMMA ReceivedCounts ==
  ASSUME TypeOK, NEW s \in Seqs, Received(s)
  PROVE  /\ Acceptable(s) => Count(s)
         /\ ~Acceptable(s) => UNCHANGED vars
<1>. USE WindowAssumption DEF TypeOK, Acceptable, Verdict
<1>1. CASE ReceiveMin(s)
  BY <1>1 DEF ReceiveMin, Seqs
<1>2. CASE ReceiveInWindow(s)
  BY <1>2 DEF ReceiveInWindow, Seqs
<1>3. CASE ReceiveSlide(s)
  BY <1>3 DEF ReceiveSlide, Seqs
<1>4. CASE ReceiveJump(s)
  BY <1>4 DEF ReceiveJump, Seqs
<1>5. CASE ReceiveBefore(s)
  BY <1>5 DEF ReceiveBefore
<1>6. QED
  BY <1>1, <1>2, <1>3, <1>4, <1>5 DEF Received

\* Every step keeps the invariant.
LEMMA NextIInv == IInv /\ [Next]_vars => IInv'
<1>. SUFFICES ASSUME IInv, [Next]_vars
              PROVE  IInv'
  OBVIOUS
<1>1. CASE UNCHANGED vars
  BY <1>1 DEF vars, IInv, TypeOK, BitsAreSeen, SeenIsCovered, SecondIsPassed,
              MinNotAhead, Seen
<1>2. CASE reset
  BY <1>2, WindowAssumption, MaxSeqAssumption
     DEF reset, IInv, TypeOK, BitsAreSeen, SeenIsCovered, SecondIsPassed,
         MinNotAhead, Seen, Seqs
<1>3. ASSUME NEW s \in Seqs, Received(s)
      PROVE  IInv'
  <2>1. CASE ReceiveBefore(s)
    BY <1>1, <2>1 DEF ReceiveBefore
  <2>. QED
    BY <1>3, <2>1, MinIInv, InWindowIInv, SlideIInv, JumpIInv DEF Received
<1>. QED
  BY <1>1, <1>2, <1>3 DEF Next

\* The whole invariant holds in every reachable state.
THEOREM SequenceInvariant == Spec => []IInv
BY InitIInv, NextIInv, PTL DEF Spec

-----------------------------------------------------------------------------
\* The window and its bit field keep their ranges: no bit is ever outside
\* 0..Window-1, so the shift of Received() is never by a negative amount.
THEOREM TypeCorrect == Spec => []TypeOK
<1>1. IInv => TypeOK
  BY DEF IInv
<1>. QED
  BY <1>1, SequenceInvariant, PTL

\* Nothing accepted is forgotten, except the number at _min itself.
THEOREM NothingForgotten == Spec => []SeenIsCovered
<1>1. IInv => SeenIsCovered
  BY DEF IInv
<1>. QED
  BY <1>1, SequenceInvariant, PTL

\* The window refuses no number it has not accepted on account of a bit.
THEOREM BitsHonest == Spec => []BitsAreSeen
<1>1. IInv => BitsAreSeen
  BY DEF IInv
<1>. QED
  BY <1>1, SequenceInvariant, PTL

\* The invariant allows no third acceptance.
LEMMA NoThird == IInv => AtMostTwice
BY DEF IInv, TypeOK, SecondIsPassed, AtMostTwice

\* No number is accepted more than twice before the next reset().
THEOREM DuplicateBound == Spec => []AtMostTwice
BY NoThird, SequenceInvariant, PTL

\* The invariant leaves nothing that would refuse the newest number.
LEMMA NewestFits == IInv => NewestIsAccepted
<1>. SUFFICES ASSUME IInv, NEW s \in Seqs, \A t \in Seen : t < s
              PROVE  Acceptable(s)
  BY DEF NewestIsAccepted
<1>1. s \in Nat /\ min \in Nat /\ bitfield \subseteq 0..(Window - 1)
  BY MaxSeqAssumption DEF IInv, TypeOK, Seqs
<1>2. s >= min
  <2>1. CASE min = 0
    BY <1>1, <2>1
  <2>2. ASSUME NEW t \in Seen, t >= min - 1
        PROVE  s >= min
    BY <1>1, <2>2 DEF Seen, Seqs
  <2>. QED
    BY <2>1, <2>2 DEF IInv, MinNotAhead
<1>3. s - min - 1 \notin bitfield
  <2>1. s - min - 1 \in bitfield => min + 1 + (s - min - 1) \in Seen
    BY DEF IInv, BitsAreSeen
  <2>2. min + 1 + (s - min - 1) = s
    BY <1>1
  <2>. QED
    BY <1>1, <2>1, <2>2
<1>. QED
  BY <1>1, <1>2, <1>3, WindowAssumption DEF Acceptable, Verdict

\* A number above everything accepted so far is always accepted.
THEOREM NewestHeard == Spec => []NewestIsAccepted
BY NewestFits, SequenceInvariant, PTL

-----------------------------------------------------------------------------
\* After a step that accepts s without restarting the stream after it, a number
\* that was acceptable and is less than a window behind still is.
LEMMA KeepsRecent ==
  ASSUME TypeOK, NEW s \in Seqs, NEW t \in Seqs, Received(s), Acceptable(s),
         t # s, min' # s + 1, Acceptable(t), t + Window > s
  PROVE  Acceptable(t)'
<1>. USE WindowAssumption, MaxSeqAssumption
<1>0. /\ s \in Nat /\ t \in Nat /\ min \in Nat
      /\ bitfield \subseteq 0..(Window - 1)
  BY DEF TypeOK, Seqs
<1>1. t >= min /\ t - min - 1 \notin bitfield
  BY <1>0 DEF Acceptable, Verdict
<1>. SUFFICES t >= min' /\ min' \in Nat /\ t - min' - 1 \notin bitfield'
  BY <1>0 DEF Acceptable, Verdict
<1>2. CASE ReceiveMin(s)
  <2>1. PICK k \in 1..Window :
          AdvancesBy(bitfield, k) /\ min' = min + k /\ bitfield' = ShiftRight(bitfield, k)
    BY <1>2 DEF ReceiveMin
  <2>2. t > min /\ k >= 2
    BY <1>0, <1>1, <1>2, <2>1 DEF ReceiveMin
  <2>3. t - min - 1 \notin 0..(k - 2)
    BY <1>1, <2>1 DEF AdvancesBy
  <2>4. t >= min + k
    BY <1>0, <2>2, <2>3
  <2>. QED
    BY <1>0, <1>1, <2>1, <2>4 DEF ShiftRight
<1>3. CASE ReceiveInWindow(s)
  BY <1>0, <1>1, <1>3 DEF ReceiveInWindow
<1>4. CASE ReceiveSlide(s)
  <2>1. PICK k \in 1..(Window - 1) :
          /\ SlidesBy(s, k)
          /\ min' = min + k
          /\ bitfield' = ShiftRight(bitfield, k) \cup {s - (min + k) - 1}
    BY <1>4 DEF ReceiveSlide
  <2>2. t - min \in 1..(Window - 1) => t - min \in Stops(s)
    BY <1>0, <1>1 DEF Stops
  <2>3. t > min
    BY <1>0, <1>4 DEF ReceiveSlide
  <2>4. t >= min + k
    BY <1>0, <2>1, <2>2, <2>3 DEF SlidesBy
  <2>. QED
    BY <1>0, <1>1, <2>1, <2>4 DEF ShiftRight
<1>5. CASE ReceiveJump(s)
  BY <1>5 DEF ReceiveJump
<1>6. CASE ReceiveBefore(s)
  BY <1>6 DEF ReceiveBefore, Acceptable
<1>. QED
  BY <1>2, <1>3, <1>4, <1>5, <1>6 DEF Received

\* A number is given up only when it is a window behind, or when the stream
\* restarts, for every window size and sequence space.
THEOREM RecentIsKept == Spec => GivesUpOnlyOld
<1>1. ASSUME IInv, [Next]_vars, NEW s \in Seqs, NEW t \in Seqs, times'[s] > times[s],
             t # s, min' # s + 1, Acceptable(t), t + Window > s
      PROVE  Acceptable(t)'
  <2>1. times \in [Seqs -> Nat] /\ TypeOK
    BY <1>1 DEF IInv, TypeOK
  <2>2. ~UNCHANGED vars /\ ~reset
    BY <1>1, <2>1 DEF vars, reset
  <2>3. PICK r \in Seqs : Received(r)
    BY <1>1, <2>2 DEF Next
  <2>4. Acceptable(r) /\ Count(r)
    BY <2>1, <2>2, <2>3, ReceivedCounts
  <2>5. r = s
    BY <1>1, <2>1, <2>4, CountSeen
  <2>. QED
    BY <1>1, <2>1, <2>3, <2>4, <2>5, KeepsRecent
<1>2. IInv /\ [Next]_vars =>
        [\A s, t \in Seqs :
           /\ times'[s] > times[s]
           /\ t # s
           /\ min' # s + 1
           /\ Acceptable(t) /\ times[t] = 0
           /\ t + Window > s
           => Acceptable(t)']_vars
  BY <1>1
<1>. QED
  BY <1>2, SequenceInvariant, PTL DEF Spec, GivesUpOnlyOld
=============================================================================
