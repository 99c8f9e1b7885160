----------------------------- MODULE UdpChannel -----------------------------
(***************************************************************************)
(* The encrypted voice channel: Channel and UDPChannel.  Three kinds of    *)
(* thread share it.  The event loop tears it down and sets it up with the  *)
(* keys of a new voice session; the reactor thread decrypts what arrives   *)
(* and passes it through the receive window of SequenceTest; and any       *)
(* number of threads (audio capture, the heartbeat) run sendDto, one step  *)
(* at a time and without a lock.                                           *)
(*                                                                         *)
(* Taking the socket out of the reactor waits for a callback that runs, so *)
(* the reactor's callback is one step.  The server gives every voice       *)
(* session keys and a channel tag of its own, which stand here for the     *)
(* number of the session; it counts its datagrams up from 0 in each.       *)
(***************************************************************************)
EXTENDS Integers

CONSTANTS
  Senders,     \* the threads that call sendDto
  Window,      \* receiveSequenceHistorySize
  MaxSeq,      \* bound: the highest number the server uses in a session
  MaxSession,  \* bound: the number of voice sessions
  MaxTx        \* bound: the highest number the channel sends with

ASSUME WindowAssumption == Window \in 1..31
ASSUME MaxSeqAssumption == MaxSeq \in Nat
ASSUME MaxSessionAssumption == MaxSession \in Nat
ASSUME MaxTxAssumption == MaxTx \in Nat

VARIABLES
  phase,        \* "closed", "configuring" or "open": how far the event loop is
  session,      \* the last session whose configuration the server sent; 0 at first
  config,       \* the session whose keys and tag the channel holds; 0 stands for
                \* the random keys of the constructor
  mTxSequence,  \* mTxSequence
  frame,        \* what each sender has of its datagram so far
  sealed,       \* auxiliary: how often each number was encrypted under each key
  heard,        \* auxiliary: how often each datagram of each session reached a handler
  min, bitfield, times  \* receiveSequence

rxVars == <<min, bitfield, times>>
vars   == <<phase, session, config, mTxSequence, frame, sealed, heard, rxVars>>

receiveSequence == INSTANCE SequenceTest

Sessions == 1..MaxSession
Seqs     == 0..MaxSeq
Numbers  == 0..MaxTx
Torn     == -1                    \* read while the event loop is copying
Keys     == {Torn} \cup 0..MaxSession

Stages == {"idle", "checked", "numbered", "addressed", "sealed"}

Frames ==
  [stage : Stages, seq : Numbers, tag : Keys, key : Keys, current : BOOLEAN]

NoFrame == [stage |-> "idle", seq |-> 0, tag |-> 0, key |-> 0, current |-> FALSE]

isOpen == phase = "open"

(***************************************************************************)
(* What a sender finds in the keys or the tag.  The event loop copies them *)
(* without a lock, so while it does, a reader may find the old ones, the   *)
(* new ones or something in between.                                       *)
(***************************************************************************)
ConfigRead ==
  IF phase = "configuring" THEN {config, session, Torn} ELSE {config}

Init ==
  /\ phase = "closed"
  /\ session = 0 /\ config = 0
  /\ mTxSequence = 0
  /\ frame = [t \in Senders |-> NoFrame]
  /\ sealed = [k \in Keys |-> [n \in Numbers |-> 0]]
  /\ heard = [n \in Sessions |-> [s \in Seqs |-> 0]]
  /\ receiveSequence!Init

-----------------------------------------------------------------------------
\* The event loop.

\* Auxiliary: what the senders have begun no longer belongs to the open channel.
Outdate == frame' = [t \in Senders |-> [frame[t] EXCEPT !.current = FALSE]]

\* VoiceSession::failSession: UDPChannel::close.
close ==
  /\ phase # "configuring"
  /\ phase' = "closed"
  /\ receiveSequence!reset
  /\ Outdate
  /\ UNCHANGED <<session, config, mTxSequence, sealed, heard>>

\* Fault: the window is not reset.
setChannelConfigKeepsWindow ==
  /\ phase # "configuring"
  /\ session < MaxSession
  /\ phase' = "configuring"
  /\ session' = session + 1
  /\ Outdate
  /\ UNCHANGED <<config, mTxSequence, sealed, heard, rxVars>>

\* VoiceSession::setupSession: close, then setChannelConfig begins to copy.
setChannelConfig ==
  /\ phase # "configuring"
  /\ session < MaxSession
  /\ phase' = "configuring"
  /\ session' = session + 1
  /\ receiveSequence!reset
  /\ Outdate
  /\ UNCHANGED <<config, mTxSequence, sealed, heard>>

\* Fault: the sequence restarts with the session.
openRestarts ==
  /\ phase = "configuring"
  /\ config' = session
  /\ mTxSequence' = 0
  /\ phase' \in {"open", "closed"}
  /\ UNCHANGED <<session, frame, sealed, heard, rxVars>>

\* Fault: the channel opens with the keys it had.
openUnconfigured ==
  /\ phase = "configuring"
  /\ phase' \in {"open", "closed"}
  /\ UNCHANGED <<session, config, mTxSequence, frame, sealed, heard, rxVars>>

\* The copy is complete, and open() succeeds or not.
open ==
  /\ phase = "configuring"
  /\ config' = session
  /\ phase' \in {"open", "closed"}
  /\ UNCHANGED <<session, mTxSequence, frame, sealed, heard, rxVars>>

-----------------------------------------------------------------------------
\* A sender t, from its isOpen() to the end of sendDto.

At(t, stage) == frame[t].stage = stage

checkOpen(t) ==
  /\ At(t, "idle")
  /\ isOpen
  /\ frame' = [frame EXCEPT ![t].stage = "checked", ![t].current = TRUE]
  /\ UNCHANGED <<phase, session, config, mTxSequence, sealed, heard, rxVars>>

\* Fault: the number after the addition, not the one before.
takeNext(t) ==
  /\ At(t, "checked")
  /\ mTxSequence <= MaxTx
  /\ mTxSequence' = mTxSequence + 1
  /\ frame' = [frame EXCEPT ![t].stage = "numbered", ![t].seq = mTxSequence + 1]
  /\ UNCHANGED <<phase, session, config, sealed, heard, rxVars>>

\* atomic_fetch_add.  The impl() of a Poco socket is never null, so the test
\* before it lets every sender through.
takeSequence(t) ==
  /\ At(t, "checked")
  /\ mTxSequence <= MaxTx
  /\ mTxSequence' = mTxSequence + 1
  /\ frame' = [frame EXCEPT ![t].stage = "numbered", ![t].seq = mTxSequence]
  /\ UNCHANGED <<phase, session, config, sealed, heard, rxVars>>

\* Encapsulate: the header takes the channel tag ...
addHeader(t) ==
  /\ At(t, "numbered")
  /\ \E tag \in ConfigRead :
       frame' = [frame EXCEPT ![t].stage = "addressed", ![t].tag = tag]
  /\ UNCHANGED <<phase, session, config, mTxSequence, sealed, heard, rxVars>>

\* ... and the body is encrypted, with the number as the nonce.
encrypt(t) ==
  /\ At(t, "addressed")
  /\ \E key \in ConfigRead :
       /\ frame' = [frame EXCEPT ![t].stage = "sealed", ![t].key = key]
       /\ sealed' = [sealed EXCEPT ![key][frame[t].seq] = @ + 1]
  /\ UNCHANGED <<phase, session, config, mTxSequence, heard, rxVars>>

\* sendBytes, which drops the datagram if the socket has been closed.
sendBytes(t) ==
  /\ At(t, "sealed")
  /\ frame' = [frame EXCEPT ![t] = NoFrame]
  /\ UNCHANGED <<phase, session, config, mTxSequence, sealed, heard, rxVars>>

sendDto(t) ==
  checkOpen(t) \/ takeSequence(t) \/ addHeader(t) \/ encrypt(t) \/ sendBytes(t)

-----------------------------------------------------------------------------
\* Fault: a datagram of any session is good enough.
DecapsulateAny(n) == n \in Sessions

\* Channel::Decapsulate and the test of the tag: a datagram of session n
\* decrypts under the receive key, and carries the channel's tag.
Decapsulate(n) == n = config

\* Fault: a datagram that the window refuses is handled all the same.
readCallbackDuplicates(n, s) ==
  /\ isOpen
  /\ Decapsulate(n)
  /\ receiveSequence!Received(s)
  /\ heard' = [heard EXCEPT ![n][s] = @ + 1]
  /\ heard[n][s] <= MaxSeq
  /\ UNCHANGED <<phase, session, config, mTxSequence, frame, sealed>>

(***************************************************************************)
(* readCallback, on the reactor thread.  The network may deliver datagram  *)
(* s of any session so far, at any time, again and again or never.  What   *)
(* is not discarded by Decapsulate goes to the window, and what the window *)
(* takes to a handler.                                                     *)
(***************************************************************************)
readCallback(n, s) ==
  /\ isOpen
  /\ Decapsulate(n)
  /\ receiveSequence!Received(s)
  /\ heard' = IF receiveSequence!Acceptable(s)
              THEN [heard EXCEPT ![n][s] = @ + 1] ELSE heard
  /\ UNCHANGED <<phase, session, config, mTxSequence, frame, sealed>>

-----------------------------------------------------------------------------
EventLoop == close \/ setChannelConfig \/ open

Next ==
  \/ EventLoop
  \/ \E t \in Senders : sendDto(t)
  \/ \E n \in 1..session, s \in Seqs : readCallback(n, s)

Spec == Init /\ [][Next]_vars

-----------------------------------------------------------------------------
TypeOK ==
  /\ phase \in {"closed", "configuring", "open"}
  /\ session \in 0..MaxSession
  /\ config \in 0..session
  /\ mTxSequence \in 0..(MaxTx + 1)
  /\ frame \in [Senders -> Frames]
  /\ sealed \in [Keys -> [Numbers -> Nat]]
  /\ heard \in [Sessions -> [Seqs -> Nat]]
  /\ receiveSequence!TypeOK

\* The cipher never sees a number twice under one key, whatever the senders
\* and the event loop interleave and also when a key is read half copied.
NonceUnique == \A k \in Keys, n \in Numbers : sealed[k][n] <= 1

\* A sender that found the channel open, and finishes before it closes, sends
\* a datagram of this session throughout: tag and key are those of the server
\* it goes to.  Only a datagram begun in an earlier session can be mixed.
FramesWhole ==
  \A t \in Senders :
    /\ frame[t].current => isOpen
    /\ frame[t].current /\ At(t, "sealed") =>
         frame[t].key = session /\ frame[t].tag = session

\* The receive window counts the datagrams of this session and of no other: a
\* server that starts over is heard from its first datagram, and what arrives
\* late from the session before neither fills the window nor moves it.
OwnWindow ==
  IF isOpen THEN times = heard[session] ELSE times = [s \in Seqs |-> 0]

\* Over all sessions, no datagram reaches a handler a third time.
HeardAtMostTwice == \A n \in Sessions, s \in Seqs : heard[n][s] <= 2

\* The peer that numbers upwards is heard however much is lost: in an open
\* channel, a datagram above everything heard in this session is taken.
SessionHeard ==
  isOpen => \A s \in Seqs :
    (\A u \in Seqs : heard[session][u] > 0 => u < s) => receiveSequence!Acceptable(s)
=============================================================================
