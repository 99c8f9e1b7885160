----------------------------- MODULE WindowLoop -----------------------------
(***************************************************************************)
(* The loop of Received() as the code runs it, one advanceWindow at a      *)
(* time, for a number beyond the window.  SequenceTest makes one step of   *)
(* it, with a closed form of where the loop ends; LoopAgrees says that     *)
(* the loop implements that step.                                          *)
(*                                                                         *)
(* While the loop runs, loop holds the members _min and _bitfield, and min *)
(* keeps the local oldmin.  Nothing else runs meanwhile: UDPChannel resets *)
(* the window only after it took the socket out of the reactor, and that   *)
(* waits for a callback that runs.                                         *)
(***************************************************************************)
EXTENDS SequenceTest

VARIABLE loop    \* {}, or one record: newSequence and _min, _bitfield so far

loopVars == <<vars, loop>>

LoopInit == Init /\ loop = {}

\* The number is beyond the window: oldmin is kept and the loop starts.
beginLoop(s) ==
  /\ loop = {}
  /\ s > min + Window
  /\ loop' = {[newest |-> s, min |-> min, bits |-> bitfield]}
  /\ UNCHANGED vars

\* Fault: the loop never breaks.
RunsToTheEnd(w) == w.min < min + Window

\* Fault: the break asks for one number more than the new one.
BreaksLate(w) == w.min < min + Window /\ w.min + Window <= w.newest + 1

\* Whether the loop goes round again: the old window is not all gone and the
\* number is not yet inside the new one.
GoesOn(w) == w.min < min + Window /\ w.min + Window <= w.newest

iterate ==
  \E w \in loop :
    /\ GoesOn(w)
    /\ \E k \in 1..Window :
         /\ AdvancesBy(w.bits, k)
         /\ loop' = {[w EXCEPT !.min = @ + k, !.bits = ShiftRight(@, k)]}
    /\ UNCHANGED vars

\* Fault: the stream restarts a whole window later.
restartsTooFar ==
  \E w \in loop :
    /\ w.min >= min + Window
    /\ min' = w.newest + Window
    /\ bitfield' = {}
    /\ Count(w.newest)
    /\ loop' = {}

\* The loop passed the whole window: the stream restarts after the number.
restart ==
  \E w \in loop :
    /\ w.min >= min + Window
    /\ min' = w.newest + 1
    /\ bitfield' = {}
    /\ Count(w.newest)
    /\ loop' = {}

\* The loop broke with the number inside the window: its bit is set.
mark ==
  \E w \in loop :
    /\ ~GoesOn(w) /\ w.min < min + Window
    /\ min' = w.min
    /\ bitfield' = w.bits \cup {w.newest - w.min - 1}
    /\ Count(w.newest)
    /\ loop' = {}

\* Every other way through Received(), and reset(), is the one step it is in
\* SequenceTest.
noLoop ==
  /\ loop = {}
  /\ \/ reset
     \/ \E s \in Seqs : ReceiveMin(s) \/ ReceiveInWindow(s) \/ ReceiveBefore(s)
  /\ UNCHANGED loop

LoopNext ==
  \/ \E s \in Seqs : beginLoop(s)
  \/ iterate
  \/ restart
  \/ mark
  \/ noLoop

LoopSpec == LoopInit /\ [][LoopNext]_loopVars

-----------------------------------------------------------------------------
\* However the loop runs, Received() does what the closed form of
\* SequenceTest says: it stops at the first zero bit that brings the number
\* inside the window, and restarts the stream exactly when there is none.
LoopAgrees == Spec
=============================================================================
