------------------------- MODULE UdpChannel_proofs -------------------------
(***************************************************************************)
(* Proofs about module UdpChannel, for any number of senders and sessions  *)
(* and any window.                                                         *)
(*                                                                         *)
(* Three invariants, each inductive given the types.  SenderInv: a number  *)
(* that a sender holds has been handed out, to nobody else, and has not    *)
(* been encrypted with yet.  FrameInv: in an open channel the keys are     *)
(* those of the session, and what a current sender has read are those too. *)
(* WindowInv: the receive window satisfies the invariant that is proved in *)
(* SequenceTest_proofs, whose lemmas are used here through the instance    *)
(* Rx, and counts the datagrams of this session.                           *)
(***************************************************************************)
EXTENDS UdpChannel, TLAPS

Rx == INSTANCE SequenceTest_proofs

\* The types of what the senders and the event loop share.
Typed ==
  /\ phase \in {"closed", "configuring", "open"}
  /\ session \in 0..MaxSession
  /\ config \in 0..session
  /\ mTxSequence \in 0..(MaxTx + 1)
  /\ frame \in [Senders -> Frames]
  /\ sealed \in [Keys -> [Numbers -> Nat]]
  /\ heard \in [Sessions -> [Seqs -> Nat]]

\* A sender between taking its number and encrypting with it.
Holds(t) == frame[t].stage \in {"numbered", "addressed"}

SenderInv ==
  /\ \A t \in Senders : Holds(t) =>
       /\ frame[t].seq < mTxSequence
       /\ \A k \in Keys : sealed[k][frame[t].seq] = 0
  /\ \A t, u \in Senders : Holds(t) /\ Holds(u) /\ t # u => frame[t].seq # frame[u].seq
  /\ \A k \in Keys, n \in Numbers : n >= mTxSequence => sealed[k][n] = 0
  /\ NonceUnique

FrameInv ==
  /\ isOpen => config = session /\ session # 0
  /\ phase = "configuring" => config < session
  /\ \A t \in Senders : frame[t].current =>
       /\ isOpen
       /\ frame[t].stage \in {"addressed", "sealed"} => frame[t].tag = session
       /\ frame[t].stage = "sealed" => frame[t].key = session

WindowInv ==
  /\ Rx!IInv
  /\ OwnWindow
  /\ \A n \in Sessions : n > config => heard[n] = [s \in Seqs |-> 0]
  /\ HeardAtMostTwice

IInv == Typed /\ SenderInv /\ FrameInv /\ WindowInv

-----------------------------------------------------------------------------
\* The instance the specification uses and the one the proofs use are the same.
LEMMA SameWindow ==
  /\ receiveSequence!Init <=> Rx!Init
  /\ receiveSequence!reset <=> Rx!reset
  /\ receiveSequence!TypeOK <=> Rx!TypeOK
  /\ \A s \in Seqs : receiveSequence!Acceptable(s) <=> Rx!Acceptable(s)
  /\ \A s \in Seqs : receiveSequence!Received(s) <=> Rx!Received(s)
<1>1. receiveSequence!Init <=> Rx!Init
  BY DEF receiveSequence!Init, Rx!Init, receiveSequence!Seqs, Rx!Seqs
<1>2. receiveSequence!reset <=> Rx!reset
  BY DEF receiveSequence!reset, Rx!reset, receiveSequence!Seqs, Rx!Seqs
<1>3. receiveSequence!TypeOK <=> Rx!TypeOK
  BY DEF receiveSequence!TypeOK, Rx!TypeOK, receiveSequence!Seqs, Rx!Seqs
<1>4. \A s \in Seqs : receiveSequence!Acceptable(s) <=> Rx!Acceptable(s)
  BY DEF receiveSequence!Acceptable, Rx!Acceptable, receiveSequence!Verdict, Rx!Verdict
<1>5. ASSUME NEW s \in Seqs
      PROVE  receiveSequence!Received(s) <=> Rx!Received(s)
  <2>1. receiveSequence!Count(s) <=> Rx!Count(s)
    BY DEF receiveSequence!Count, Rx!Count
  <2>2. \A k \in Nat : receiveSequence!SlidesBy(s, k) <=> Rx!SlidesBy(s, k)
    BY DEF receiveSequence!SlidesBy, Rx!SlidesBy, receiveSequence!Stops, Rx!Stops
  <2>3. receiveSequence!ReceiveMin(s) <=> Rx!ReceiveMin(s)
    BY <2>1 DEF receiveSequence!ReceiveMin, Rx!ReceiveMin,
           receiveSequence!AdvancesBy, Rx!AdvancesBy,
           receiveSequence!ShiftRight, Rx!ShiftRight
  <2>4. receiveSequence!ReceiveInWindow(s) <=> Rx!ReceiveInWindow(s)
    BY <2>1 DEF receiveSequence!ReceiveInWindow, Rx!ReceiveInWindow
  <2>5. receiveSequence!ReceiveSlide(s) <=> Rx!ReceiveSlide(s)
    BY <2>1, <2>2, WindowAssumption
       DEF receiveSequence!ReceiveSlide, Rx!ReceiveSlide,
           receiveSequence!ShiftRight, Rx!ShiftRight
  <2>6. receiveSequence!ReceiveJump(s) <=> Rx!ReceiveJump(s)
    BY <2>1 DEF receiveSequence!ReceiveJump, Rx!ReceiveJump,
           receiveSequence!Stops, Rx!Stops
  <2>7. receiveSequence!ReceiveBefore(s) <=> Rx!ReceiveBefore(s)
    BY DEF receiveSequence!ReceiveBefore, Rx!ReceiveBefore,
           receiveSequence!Verdict, Rx!Verdict, receiveSequence!vars, Rx!vars
  <2>. QED
    BY <2>3, <2>4, <2>5, <2>6, <2>7 DEF receiveSequence!Received, Rx!Received
<1>. QED
  BY <1>1, <1>2, <1>3, <1>4, <1>5

-----------------------------------------------------------------------------
\* What a sender may read is a key.
LEMMA ConfigIsKey ==
  ASSUME Typed
  PROVE  ConfigRead \subseteq Keys
BY MaxSessionAssumption DEF Typed, ConfigRead, Keys, Torn

LEMMA InitIInv == Init => IInv
<1>. SUFFICES ASSUME Init
              PROVE  IInv
  OBVIOUS
<1>. USE MaxSeqAssumption, MaxSessionAssumption, MaxTxAssumption
<1>1. Typed
  BY DEF Init, Typed, Frames, NoFrame, Stages, Keys, Torn, Numbers, Seqs, Sessions
<1>2. SenderInv
  BY DEF Init, SenderInv, Holds, NoFrame, NonceUnique
<1>3. FrameInv
  BY DEF Init, FrameInv, NoFrame, isOpen
<1>4. Rx!IInv
  BY SameWindow, Rx!InitIInv, WindowAssumption DEF Init
<1>5. OwnWindow
  BY DEF Init, OwnWindow, isOpen, receiveSequence!Init, receiveSequence!Seqs, Seqs
<1>6. HeardAtMostTwice
  BY DEF Init, HeardAtMostTwice
<1>. QED
  BY <1>1, <1>2, <1>3, <1>4, <1>5, <1>6 DEF IInv, WindowInv, Init

-----------------------------------------------------------------------------
\* The types survive every step.
LEMMA NextTyped ==
  ASSUME Typed, [Next]_vars
  PROVE  Typed'
<1>. USE MaxSeqAssumption, MaxSessionAssumption, MaxTxAssumption DEF Typed
<1>1. CASE UNCHANGED vars
  BY <1>1 DEF vars
<1>2. CASE close \/ setChannelConfig
  <2>1. frame' \in [Senders -> Frames]
    BY <1>2 DEF close, setChannelConfig, Outdate, Frames
  <2>. QED
    BY <1>2, <2>1 DEF close, setChannelConfig
<1>3. CASE open
  BY <1>3 DEF open
<1>4. ASSUME NEW t \in Senders, sendDto(t)
      PROVE  Typed'
  <2>1. CASE checkOpen(t)
    BY <2>1 DEF checkOpen, Frames, Stages
  <2>2. CASE takeSequence(t)
    <3>1. mTxSequence \in Numbers
      BY <2>2 DEF takeSequence, Numbers
    <3>2. frame' \in [Senders -> Frames]
      BY <2>2, <3>1 DEF takeSequence, Frames, Stages
    <3>. QED
      BY <2>2, <3>1, <3>2 DEF takeSequence, Numbers
  <2>3. CASE addHeader(t)
    <3>1. PICK tag \in Keys :
            frame' = [frame EXCEPT ![t].stage = "addressed", ![t].tag = tag]
      BY <2>3, ConfigIsKey DEF addHeader
    <3>2. frame' \in [Senders -> Frames]
      BY <3>1 DEF Frames, Stages
    <3>. QED
      BY <2>3, <3>2 DEF addHeader
  <2>4. CASE encrypt(t)
    <3>1. PICK key \in Keys :
            /\ frame' = [frame EXCEPT ![t].stage = "sealed", ![t].key = key]
            /\ sealed' = [sealed EXCEPT ![key][frame[t].seq] = @ + 1]
      BY <2>4, ConfigIsKey DEF encrypt
    <3>2. frame[t].seq \in Numbers
      BY DEF Frames
    <3>3. sealed' \in [Keys -> [Numbers -> Nat]]
      BY <3>1, <3>2
    <3>4. frame' \in [Senders -> Frames]
      BY <3>1 DEF Frames, Stages
    <3>. QED
      BY <2>4, <3>3, <3>4 DEF encrypt
  <2>5. CASE sendBytes(t)
    BY <2>5 DEF sendBytes, NoFrame, Frames, Stages, Keys, Numbers
  <2>. QED
    BY <1>4, <2>1, <2>2, <2>3, <2>4, <2>5 DEF sendDto
<1>5. ASSUME NEW n \in 1..session, NEW s \in Seqs, readCallback(n, s)
      PROVE  Typed'
  <2>1. n \in Sessions
    BY DEF Sessions
  <2>2. heard' \in [Sessions -> [Seqs -> Nat]]
    BY <1>5, <2>1 DEF readCallback
  <2>. QED
    BY <1>5, <2>2 DEF readCallback
<1>. QED
  BY <1>1, <1>2, <1>3, <1>4, <1>5 DEF Next, EventLoop

-----------------------------------------------------------------------------
\* The sender's side: only takeSequence hands a number out and only encrypt
\* uses one up.
LEMMA NextSender ==
  ASSUME Typed, SenderInv, [Next]_vars
  PROVE  SenderInv'
<1>. USE DEF SenderInv, Holds
<1>1. CASE UNCHANGED vars
  BY <1>1 DEF vars, NonceUnique
<1>2. CASE close \/ setChannelConfig
  <2>1. \A t \in Senders : frame'[t].stage = frame[t].stage /\ frame'[t].seq = frame[t].seq
    BY <1>2 DEF close, setChannelConfig, Outdate, Typed, Frames
  <2>. QED
    BY <1>2, <2>1 DEF close, setChannelConfig, NonceUnique
<1>3. CASE open
  BY <1>3 DEF open, NonceUnique
<1>4. ASSUME NEW t \in Senders, sendDto(t)
      PROVE  SenderInv'
  <2>0. /\ mTxSequence \in Int
        /\ \A u \in Senders : frame[u].seq \in Numbers
        /\ frame \in [Senders -> Frames]
    BY MaxTxAssumption DEF Typed, Frames
  <2>1. CASE checkOpen(t)
    BY <2>0, <2>1 DEF checkOpen, Frames, NonceUnique
  <2>2. CASE takeSequence(t)
    <3>1. mTxSequence \in Numbers /\ mTxSequence' = mTxSequence + 1 /\ sealed' = sealed
      BY <2>0, <2>2, MaxTxAssumption DEF takeSequence, Numbers, Typed
    <3>2. /\ frame'[t].seq = mTxSequence
          /\ \A u \in Senders : u # t => frame'[u] = frame[u]
      BY <2>0, <2>2 DEF takeSequence, Frames
    <3>3. \A u \in Senders : Holds(u)' => u = t \/ Holds(u)
      BY <3>2
    <3>4. \A u \in Senders : Holds(u)' /\ u # t => frame'[u].seq < mTxSequence
      BY <3>2, <3>3
    <3>5. \A u \in Senders : frame[u].seq \in Int
      BY <2>0 DEF Numbers
    <3>6. \A u \in Senders : Holds(u)' =>
            /\ frame'[u].seq < mTxSequence'
            /\ \A k \in Keys : sealed'[k][frame'[u].seq] = 0
      <4>1. frame'[t].seq < mTxSequence' /\ \A k \in Keys : sealed'[k][frame'[t].seq] = 0
        BY <2>0, <3>1, <3>2
      <4>2. ASSUME NEW u \in Senders, u # t, Holds(u)
            PROVE  /\ frame'[u].seq < mTxSequence'
                   /\ \A k \in Keys : sealed'[k][frame'[u].seq] = 0
        BY <2>0, <3>1, <3>2, <3>5, <4>2
      <4>. QED
        BY <3>3, <4>1, <4>2
    <3>7. \A u, v \in Senders : Holds(u)' /\ Holds(v)' /\ u # v => frame'[u].seq # frame'[v].seq
      <4>1. \A u \in Senders : Holds(u)' /\ u # t => frame'[u].seq # frame'[t].seq
        BY <2>0, <3>2, <3>4, <3>5
      <4>2. \A u, v \in Senders :
              Holds(u)' /\ Holds(v)' /\ u # v /\ u # t /\ v # t => frame'[u].seq # frame'[v].seq
        BY <3>2, <3>3
      <4>. QED
        BY <4>1, <4>2
    <3>8. \A k \in Keys, n \in Numbers : n >= mTxSequence' => sealed'[k][n] = 0
      BY <2>0, <3>1 DEF Numbers
    <3>. QED
      BY <3>1, <3>6, <3>7, <3>8 DEF NonceUnique
  <2>3. CASE addHeader(t)
    <3>1. /\ Holds(t)
          /\ \A u \in Senders : frame'[u].seq = frame[u].seq /\ (Holds(u)' => Holds(u))
      BY <2>0, <2>3 DEF addHeader, At, Frames
    <3>. QED
      BY <2>3, <3>1 DEF addHeader, NonceUnique
  <2>4. CASE encrypt(t)
    <3>1. PICK key \in Keys :
            /\ frame' = [frame EXCEPT ![t].stage = "sealed", ![t].key = key]
            /\ sealed' = [sealed EXCEPT ![key][frame[t].seq] = @ + 1]
      BY <2>4, ConfigIsKey DEF encrypt
    <3>2. /\ Holds(t)
          /\ mTxSequence' = mTxSequence
          /\ frame[t].seq \in Numbers
      BY <2>0, <2>4 DEF encrypt, At
    <3>3. \A u \in Senders :
            frame'[u].seq = frame[u].seq /\ (Holds(u)' => Holds(u) /\ u # t)
      BY <2>0, <3>1 DEF Frames
    <3>4. \A k \in Keys, n \in Numbers :
            sealed'[k][n] = IF k = key /\ n = frame[t].seq THEN 1 ELSE sealed[k][n]
      BY <3>1, <3>2 DEF Typed
    <3>5. \A u \in Senders : Holds(u)' => frame[u].seq # frame[t].seq /\ frame[u].seq \in Numbers
      BY <2>0, <3>2, <3>3
    <3>6. \A u \in Senders : Holds(u)' =>
            /\ frame'[u].seq < mTxSequence'
            /\ \A k \in Keys : sealed'[k][frame'[u].seq] = 0
      BY <3>2, <3>3, <3>4, <3>5
    <3>7. \A k \in Keys, n \in Numbers : n >= mTxSequence' => sealed'[k][n] = 0
      BY <2>0, <3>2, <3>4 DEF Numbers
    <3>8. NonceUnique'
      BY <3>4 DEF NonceUnique
    <3>. QED
      BY <3>3, <3>5, <3>6, <3>7, <3>8
  <2>5. CASE sendBytes(t)
    <3>1. \A u \in Senders : Holds(u)' => frame'[u] = frame[u] /\ Holds(u)
      BY <2>0, <2>5 DEF sendBytes, NoFrame
    <3>. QED
      BY <2>5, <3>1 DEF sendBytes, NonceUnique
  <2>. QED
    BY <1>4, <2>1, <2>2, <2>3, <2>4, <2>5 DEF sendDto
<1>5. ASSUME NEW n \in 1..session, NEW s \in Seqs, readCallback(n, s)
      PROVE  SenderInv'
  BY <1>5 DEF readCallback, NonceUnique
<1>. QED
  BY <1>1, <1>2, <1>3, <1>4, <1>5 DEF Next, EventLoop

-----------------------------------------------------------------------------
\* What a current sender reads: the event loop copies only while the channel is
\* closed, and closing leaves no sender current.
LEMMA NextFrame ==
  ASSUME Typed, FrameInv, [Next]_vars
  PROVE  FrameInv'
<1>. USE DEF FrameInv, isOpen
<1>1. CASE UNCHANGED vars
  BY <1>1 DEF vars
<1>2. CASE close \/ setChannelConfig
  <2>1. \A t \in Senders : frame'[t].current = FALSE
    BY <1>2 DEF close, setChannelConfig, Outdate, Typed, Frames
  <2>. QED
    BY <1>2, <2>1, MaxSessionAssumption DEF close, setChannelConfig, Typed
<1>3. CASE open
  BY <1>3, MaxSessionAssumption DEF open, Typed
<1>4. ASSUME NEW t \in Senders, sendDto(t)
      PROVE  FrameInv'
  <2>. USE DEF Typed, Frames, At
  <2>1. CASE checkOpen(t)
    BY <2>1 DEF checkOpen, isOpen
  <2>2. CASE takeSequence(t)
    BY <2>2 DEF takeSequence
  <2>3. CASE addHeader(t)
    BY <2>3 DEF addHeader, ConfigRead
  <2>4. CASE encrypt(t)
    BY <2>4 DEF encrypt, ConfigRead
  <2>5. CASE sendBytes(t)
    BY <2>5 DEF sendBytes, NoFrame
  <2>. QED
    BY <1>4, <2>1, <2>2, <2>3, <2>4, <2>5 DEF sendDto
<1>5. ASSUME NEW n \in 1..session, NEW s \in Seqs, readCallback(n, s)
      PROVE  FrameInv'
  BY <1>5 DEF readCallback
<1>. QED
  BY <1>1, <1>2, <1>3, <1>4, <1>5 DEF Next, EventLoop

-----------------------------------------------------------------------------
\* The receive window: it moves by its own steps, starts over whenever the
\* channel closes, and what it counts is what the handlers of this session got.
LEMMA NextWindow ==
  ASSUME Typed, FrameInv, WindowInv, [Next]_vars
  PROVE  WindowInv'
<1>. USE DEF WindowInv
<1>1. ASSUME UNCHANGED rxVars
      PROVE  Rx!IInv'
  BY <1>1, Rx!NextIInv, WindowAssumption, MaxSeqAssumption DEF Rx!vars, rxVars
<1>2. CASE UNCHANGED vars
  BY <1>1, <1>2 DEF vars, rxVars, OwnWindow, isOpen, HeardAtMostTwice
<1>3. CASE close \/ setChannelConfig
  <2>1. receiveSequence!reset /\ ~isOpen' /\ UNCHANGED <<config, heard>>
    BY <1>3 DEF close, setChannelConfig, isOpen
  <2>2. Rx!IInv'
    BY <2>1, SameWindow, Rx!NextIInv, WindowAssumption, MaxSeqAssumption DEF Rx!Next
  <2>3. OwnWindow'
    BY <2>1 DEF OwnWindow, receiveSequence!reset, receiveSequence!Seqs, Seqs
  <2>. QED
    BY <2>1, <2>2, <2>3 DEF HeardAtMostTwice
<1>4. CASE open
  <2>1. /\ UNCHANGED <<session, heard, rxVars>>
        /\ config' = session
        /\ ~isOpen
    BY <1>4 DEF open, isOpen
  <2>2. session \in Sessions /\ config < session /\ config \in Int
    BY <1>4, MaxSessionAssumption DEF open, FrameInv, Typed, Sessions
  <2>3. times' = [s \in Seqs |-> 0] /\ heard'[session] = [s \in Seqs |-> 0]
    BY <2>1, <2>2 DEF OwnWindow, rxVars
  <2>4. OwnWindow'
    BY <2>1, <2>3 DEF OwnWindow
  <2>5. \A n \in Sessions : n > config' => heard'[n] = [s \in Seqs |-> 0]
    BY <2>1, <2>2 DEF Sessions
  <2>. QED
    BY <1>1, <2>1, <2>4, <2>5 DEF HeardAtMostTwice
<1>5. ASSUME NEW t \in Senders, sendDto(t)
      PROVE  WindowInv'
  <2>1. UNCHANGED <<phase, session, config, heard, rxVars>>
    BY <1>5 DEF sendDto, checkOpen, takeSequence, addHeader, encrypt, sendBytes
  <2>. QED
    BY <1>1, <2>1 DEF OwnWindow, isOpen, rxVars, HeardAtMostTwice
<1>6. ASSUME NEW n \in 1..session, NEW s \in Seqs, readCallback(n, s)
      PROVE  WindowInv'
  <2>1. /\ isOpen /\ isOpen'
        /\ UNCHANGED <<session, config>>
        /\ n = session /\ n = config /\ n \in Sessions
    BY <1>6, MaxSessionAssumption
       DEF readCallback, Decapsulate, FrameInv, isOpen, Typed, Sessions
  <2>3. Rx!Received(s) /\ s \in Rx!Seqs
    BY <1>6, SameWindow DEF readCallback, Rx!Seqs, Seqs
  <2>4. Rx!IInv'
    BY <2>3, Rx!NextIInv, WindowAssumption, MaxSeqAssumption DEF Rx!Next
  <2>5. /\ Rx!Acceptable(s) => times' = [times EXCEPT ![s] = @ + 1]
        /\ ~Rx!Acceptable(s) => times' = times
    BY <2>3, Rx!ReceivedCounts, WindowAssumption, MaxSeqAssumption
       DEF Rx!IInv, Rx!Count, Rx!vars
  <2>6. times = heard[n]
    BY <2>1 DEF OwnWindow
  <2>7. /\ Rx!Acceptable(s) => heard' = [heard EXCEPT ![n][s] = @ + 1]
        /\ ~Rx!Acceptable(s) => heard' = heard
    BY <1>6, SameWindow DEF readCallback
  <2>8. /\ heard'[n] = times'
        /\ \A m \in Sessions : m # n => heard'[m] = heard[m]
    BY <2>1, <2>5, <2>6, <2>7 DEF Typed
  <2>9. \A u \in Seqs : times'[u] <= 2
    BY <2>4 DEF Rx!IInv, Rx!TypeOK, Rx!SecondIsPassed, Rx!Seqs, Seqs
  <2>10. HeardAtMostTwice'
    BY <2>1, <2>8, <2>9 DEF HeardAtMostTwice
  <2>11. \A m \in Sessions : m > config' => heard'[m] = [u \in Seqs |-> 0]
    BY <2>1, <2>8 DEF Sessions, Typed
  <2>. QED
    BY <2>1, <2>4, <2>8, <2>10, <2>11 DEF OwnWindow
<1>. QED
  BY <1>2, <1>3, <1>4, <1>5, <1>6 DEF Next, EventLoop

\* The whole invariant holds in every reachable state.
THEOREM ChannelInvariant == Spec => []IInv
<1>1. IInv /\ [Next]_vars => IInv'
  BY NextTyped, NextSender, NextFrame, NextWindow DEF IInv
<1>. QED
  BY InitIInv, <1>1, PTL DEF Spec

-----------------------------------------------------------------------------
\* sendDto keeps its types, and the receive window keeps its range.
THEOREM TypeCorrect == Spec => []TypeOK
<1>1. IInv => TypeOK
  BY SameWindow DEF IInv, Typed, WindowInv, TypeOK, Rx!IInv
<1>. QED
  BY <1>1, ChannelInvariant, PTL

\* However many threads send, and whatever the event loop does to the keys
\* meanwhile, no number is used twice with one key.
THEOREM NoncesUnique == Spec => []NonceUnique
<1>1. IInv => NonceUnique
  BY DEF IInv, SenderInv
<1>. QED
  BY <1>1, ChannelInvariant, PTL

\* A datagram begun and finished in one session is wholly of that session.
THEOREM FramesAreWhole == Spec => []FramesWhole
<1>1. IInv => FramesWhole
  BY DEF IInv, FrameInv, FramesWhole, At
<1>. QED
  BY <1>1, ChannelInvariant, PTL

\* The receive window counts this session's datagrams and no others.
THEOREM WindowIsOwn == Spec => []OwnWindow
<1>1. IInv => OwnWindow
  BY DEF IInv, WindowInv
<1>. QED
  BY <1>1, ChannelInvariant, PTL

\* No datagram reaches a handler three times, over all sessions.
THEOREM DuplicatesBounded == Spec => []HeardAtMostTwice
<1>1. IInv => HeardAtMostTwice
  BY DEF IInv, WindowInv
<1>. QED
  BY <1>1, ChannelInvariant, PTL

\* In an open channel a number above all heard in this session is taken.
THEOREM NewestOfSessionHeard == Spec => []SessionHeard
<1>1. IInv => SessionHeard
  <2>. SUFFICES ASSUME IInv, isOpen, NEW s \in Seqs,
                       \A u \in Seqs : heard[session][u] > 0 => u < s
                PROVE  receiveSequence!Acceptable(s)
    BY DEF SessionHeard
  <2>1. \A u \in Rx!Seen : u < s
    BY DEF IInv, WindowInv, OwnWindow, Rx!Seen, Rx!Seqs, Seqs
  <2>2. Rx!NewestIsAccepted
    BY Rx!NewestFits, WindowAssumption, MaxSeqAssumption DEF IInv, WindowInv
  <2>3. Rx!Acceptable(s)
    BY <2>1, <2>2 DEF Rx!NewestIsAccepted, Rx!Seqs, Seqs
  <2>. QED
    BY <2>3, SameWindow
<1>. QED
  BY <1>1, ChannelInvariant, PTL
=============================================================================
