---------------------------- MODULE SequenceTest ----------------------------
(***************************************************************************)
(* The receive window of the voice channel: the class SequenceTest, whose  *)
(* Received() decides for every datagram that decrypts whether its         *)
(* sequence number is new.  _min is the lowest number not yet passed and   *)
(* bit i of _bitfield stands for the number _min + 1 + i.                  *)
(*                                                                         *)
(* The bit field is the set of its bit numbers, so a shift right by k      *)
(* subtracts k from every member and loses those below k.                  *)
(***************************************************************************)
EXTENDS Integers

CONSTANTS
  Window,   \* _window
  MaxSeq    \* bound: the highest sequence number the peer uses

(***************************************************************************)
(* The constructor clamps the window to 1..64 and UDPChannel asks for 10.  *)
(* From 32 on, __builtin_ctz sees 32 one bits as a zero argument, which is *)
(* undefined, so the model stops at 31.  Numbers are 64 bits wide in the   *)
(* code; the peer counts up from 0 and MaxSeq + Window < 2^64, so the sums *)
(* below do not wrap.                                                      *)
(***************************************************************************)
ASSUME WindowAssumption == Window \in 1..31
ASSUME MaxSeqAssumption == MaxSeq \in Nat

VARIABLES
  min,       \* _min
  bitfield,  \* _bitfield: the set of bits that are 1
  times      \* auxiliary: how often each number was accepted since reset()

vars == <<min, bitfield, times>>

Seqs == 0..MaxSeq

Seen == {s \in Seqs : times[s] > 0}

(***************************************************************************)
(* What Received(s) answers, before it changes anything.  "OK" is the      *)
(* number at _min or one inside the window, "Overflow" one beyond it.      *)
(***************************************************************************)
Verdict(s) ==
  CASE s < min                              -> "Before"
    [] s = min                              -> "OK"
    [] s > min /\ s <= min + Window         -> IF s - min - 1 \in bitfield
                                               THEN "Before" ELSE "OK"
    [] s > min + Window                     -> "Overflow"

Acceptable(s) == Verdict(s) # "Before"

\* Fault: one position too few.
ShiftsShort(bits, k) == {b - k + 1 : b \in {c \in bits : c >= k - 1}}

\* Fault: the bit that becomes bit 0 is lost.
ShiftsOutOne(bits, k) == {b - k : b \in {c \in bits : c > k}}

ShiftRight(bits, k) == {b - k : b \in {c \in bits : c >= k}}

(***************************************************************************)
(* advanceWindow moves by k: past _min and the run of one bits that        *)
(* follows it, up to the first zero bit, and never by more than the        *)
(* window.                                                                 *)
(***************************************************************************)
AdvancesBy(bits, k) ==
  /\ 0..(k - 2) \subseteq bits
  /\ k - 1 \notin bits \/ k = Window

(***************************************************************************)
(* Where the loop of Received(s) stops when it stops early: each           *)
(* advanceWindow moves _min to the next zero bit, and the loop breaks at   *)
(* the first that brings s inside the window again.  The loop itself is in *)
(* WindowLoop, which is proved to end here.                                *)
(***************************************************************************)
Stops(s) == {k \in 1..(Window - 1) : k - 1 \notin bitfield /\ min + k + Window > s}

SlidesBy(s, k) == k \in Stops(s) /\ \A j \in Stops(s) : k <= j

Count(s) == times' = [times EXCEPT ![s] = @ + 1]

-----------------------------------------------------------------------------
Init ==
  /\ min = 0
  /\ bitfield = {}
  /\ times = [s \in Seqs |-> 0]

\* newSequence == _min: the window moves up to the next number not yet seen.
ReceiveMin(s) ==
  /\ s = min
  /\ \E k \in 1..Window :
       /\ AdvancesBy(bitfield, k)
       /\ min' = min + k
       /\ bitfield' = ShiftRight(bitfield, k)
  /\ Count(s)

\* Fault: the window is one number too wide.
ReceiveTooFar(s) ==
  /\ min < s /\ s <= min + Window + 1
  /\ s - min - 1 \notin bitfield
  /\ bitfield' = bitfield \cup {s - min - 1}
  /\ Count(s)
  /\ UNCHANGED min

\* Fault: the number is not marked.
ReceiveUnmarked(s) ==
  /\ min < s /\ s <= min + Window
  /\ s - min - 1 \notin bitfield
  /\ Count(s)
  /\ UNCHANGED <<min, bitfield>>

\* newSequence is inside the window and its bit is still 0.
ReceiveInWindow(s) ==
  /\ min < s /\ s <= min + Window
  /\ s - min - 1 \notin bitfield
  /\ bitfield' = bitfield \cup {s - min - 1}
  /\ Count(s)
  /\ UNCHANGED min

\* newSequence is beyond the window, and moving the window part of the way
\* brings it inside.
ReceiveSlide(s) ==
  /\ s > min + Window
  /\ \E k \in 1..(Window - 1) :
       /\ SlidesBy(s, k)
       /\ min' = min + k
       /\ bitfield' = ShiftRight(bitfield, k) \cup {s - (min + k) - 1}
  /\ Count(s)

\* newSequence is so far ahead that the whole window has gone by: the old
\* position is abandoned and the stream restarts after newSequence.
ReceiveJump(s) ==
  /\ s > min + Window
  /\ Stops(s) = {}
  /\ min' = s + 1
  /\ bitfield' = {}
  /\ Count(s)

\* newSequence is old: ReceiveOutcome::Before, nothing changes.
ReceiveBefore(s) == Verdict(s) = "Before" /\ UNCHANGED vars

Received(s) ==
  \/ ReceiveMin(s)
  \/ ReceiveInWindow(s)
  \/ ReceiveSlide(s)
  \/ ReceiveJump(s)
  \/ ReceiveBefore(s)

\* UDPChannel calls this when it closes and when the receive key changes.
reset ==
  /\ min' = 0
  /\ bitfield' = {}
  /\ times' = [s \in Seqs |-> 0]

Next == reset \/ \E s \in Seqs : Received(s)

Spec == Init /\ [][Next]_vars

-----------------------------------------------------------------------------
\* The types: every bit lies inside the window, and min is at most one past
\* the highest number the peer uses.
TypeOK ==
  /\ min \in 0..(MaxSeq + 1)
  /\ bitfield \subseteq 0..(Window - 1)
  /\ times \in [Seqs -> Nat]

\* Every 1 bit stands for a number that really was accepted: no shift and no
\* jump leaves a stale bit behind that would refuse a number never seen.
BitsAreSeen == \A b \in bitfield : min + 1 + b \in Seen

\* Every accepted number is remembered: it is below min, or its bit is set.
\* The one exception is min itself, where advanceWindow stops short when the
\* whole window had been received.
SeenIsCovered == \A s \in Seen : s <= min \/ s - min - 1 \in bitfield

\* The exception costs one duplicate at most: no number is accepted a third
\* time, whatever the network repeats and however the window moved.
AtMostTwice == \A s \in Seqs : times[s] <= 2

\* A number higher than everything accepted so far is never refused, so a
\* peer that sends in order is heard however much the network loses.
NewestIsAccepted ==
  \A s \in Seqs : (\A t \in Seen : t < s) => Acceptable(s)

\* Reordering within the window is tolerated: accepting s gives up a number
\* that was still acceptable only if that number is Window or more behind s,
\* unless the stream restarts after s.
GivesUpOnlyOld ==
  [][\A s, t \in Seqs :
       /\ times'[s] > times[s]
       /\ t # s
       /\ min' # s + 1
       /\ Acceptable(t) /\ times[t] = 0
       /\ t + Window > s
       => Acceptable(t)']_vars

\* What the comment on ReceiveOutcome::Before says: a number "previously seen
\* within the current window" is answered Before, so none is accepted twice.
AtMostOnce == \A s \in Seqs : times[s] <= 1
=============================================================================
