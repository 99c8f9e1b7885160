-------------------------- MODULE PttGuard_proofs --------------------------
(***************************************************************************)
(* Proofs about module PttGuard: the microphone is never stuck on, and the *)
(* guard is sound within a voice session for every set of radios and       *)
(* frequencies.                                                            *)
(***************************************************************************)
EXTENDS PttGuard, TLAPS

\* mTxUpdatePending covers every update this session has posted, and an update
\* left over from an earlier one meets a server that has acknowledged nothing.
PendingCovers ==
  \A u \in update : IF u.live THEN pending ELSE server = {}

\* Once the server has acknowledged something, what the client believes it has
\* is true unless an update is pending.
BeliefIsTrue == server # {} => pending \/ server = {currentFreq}

IInv ==
  /\ TypeOK
  /\ NoHotMic
  /\ PendingCovers
  /\ BeliefIsTrue

-----------------------------------------------------------------------------
\* The initial state satisfies the invariant.
LEMMA InitIInv == Init => IInv
<1>. SUFFICES ASSUME Init PROVE IInv
  OBVIOUS
<1>1. TypeOK
  BY NoFreqAssumption DEF Init, StatusInit, TypeOK, Tunings
<1>2. NoHotMic /\ PendingCovers /\ BeliefIsTrue
  BY DEF Init, NoHotMic, PendingCovers, BeliefIsTrue
<1>. QED
  BY <1>1, <1>2 DEF IInv

\* The flags keep their types.
LEMMA FlagsTyped ==
  ASSUME IInv, [Next]_vars
  PROVE  \A flag \in {connected, voice, timer, pending, wantPtt, ptt, mic}' :
           flag \in BOOLEAN
<1>. USE DEF IInv, TypeOK, status, radioVars, pttVars, queueTransceiverUpdate, Linked,
             SetPtt, unguardPtt
<1>1. CASE guardPtt
  BY <1>1 DEF guardPtt
<1>2. CASE openPtt
  BY <1>2 DEF openPtt
<1>3. CASE closePtt
  BY <1>3 DEF closePtt
<1>4. CASE \E r \in Radios, f \in Freqs : setRadioState(r, f)
  BY <1>4 DEF setRadioState
<1>5. CASE sendTransceiverUpdate
  BY <1>5 DEF sendTransceiverUpdate
<1>6. CASE updateAcknowledged
  BY <1>6 DEF updateAcknowledged
<1>7. CASE updateFailed
  BY <1>7 DEF updateFailed
<1>8. CASE apiChanged
  BY <1>8 DEF apiChanged, APIUp, APIDown
<1>9. CASE voiceConnected
  BY <1>9 DEF voiceConnected, startSession, VoiceUp
<1>10. CASE voiceEnded
  BY <1>10 DEF voiceEnded, endSession, VoiceDown
<1>11. CASE UNCHANGED vars
  BY <1>11 DEF vars
<1>. QED
  BY <1>1, <1>2, <1>3, <1>4, <1>5, <1>6, <1>7, <1>8, <1>9, <1>10, <1>11
     DEF Next, Pilot

\* The tunings, the update and the server's view keep their types.
LEMMA TuningsTyped ==
  ASSUME IInv, [Next]_vars
  PROVE  /\ (nextFreq \in Tunings /\ currentFreq \in Tunings)'
         /\ (update \subseteq Update /\ server \subseteq Tunings)'
         /\ (\A u, v \in update : u = v)'
<1>. USE DEF IInv, TypeOK, radioVars, Update, Tunings
<1>1. CASE guardPtt \/ openPtt \/ closePtt
  BY <1>1 DEF guardPtt, openPtt, closePtt
<1>2. ASSUME NEW r \in Radios, NEW f \in Freqs, setRadioState(r, f)
      PROVE  nextFreq' \in Tunings
  BY <1>2 DEF setRadioState
<1>3. CASE \E r \in Radios, f \in Freqs : setRadioState(r, f)
  BY <1>2, <1>3 DEF setRadioState
<1>4. CASE sendTransceiverUpdate
  <2>1. [tuning |-> nextFreq, live |-> TRUE] \in Update
    OBVIOUS
  <2>. QED
    BY <1>4, <2>1 DEF sendTransceiverUpdate
<1>5. CASE updateAcknowledged
  <2>1. PICK u \in update : /\ currentFreq' = u.tuning
                           /\ server' = IF u.live THEN {u.tuning} ELSE server
    BY <1>5 DEF updateAcknowledged
  <2>2. u.tuning \in Tunings
    BY <2>1
  <2>. QED
    BY <1>5, <2>1, <2>2 DEF updateAcknowledged
<1>6. CASE updateFailed
  BY <1>6 DEF updateFailed
<1>7. CASE apiChanged
  BY <1>7 DEF apiChanged
<1>8. CASE voiceConnected \/ voiceEnded
  <2>1. update' = {[u EXCEPT !.live = FALSE] : u \in update}
    BY <1>8 DEF voiceConnected, voiceEnded, startSession, endSession, Orphaned
  <2>2. \A u \in update : [u EXCEPT !.live = FALSE] \in Update
    OBVIOUS
  <2>3. server' = {} /\ UNCHANGED <<nextFreq, currentFreq>>
    BY <1>8 DEF voiceConnected, voiceEnded, startSession, endSession
  <2>. QED
    BY <2>1, <2>2, <2>3
<1>9. CASE UNCHANGED vars
  BY <1>9 DEF vars
<1>. QED
  BY <1>1, <1>3, <1>4, <1>5, <1>6, <1>7, <1>8, <1>9 DEF Next, Pilot

\* Every step keeps the invariant.
LEMMA NextIInv == IInv /\ [Next]_vars => IInv'
<1>. SUFFICES ASSUME IInv, [Next]_vars PROVE IInv'
  OBVIOUS
<1>1. TypeOK'
  BY FlagsTyped, TuningsTyped DEF TypeOK
<1>2. (NoHotMic /\ PendingCovers /\ BeliefIsTrue)'
  <2>. USE DEF IInv, NoHotMic, PendingCovers, BeliefIsTrue, radioVars, pttVars, SetPtt
  <2>1. CASE guardPtt
    BY <2>1 DEF guardPtt
  <2>2. CASE openPtt
    BY <2>2 DEF openPtt
  <2>3. CASE closePtt
    BY <2>3 DEF closePtt
  <2>4. CASE \E r \in Radios, f \in Freqs : setRadioState(r, f)
    BY <2>4 DEF setRadioState
  <2>5. CASE sendTransceiverUpdate
    BY <2>5 DEF sendTransceiverUpdate
  <2>6. CASE updateAcknowledged
    BY <2>6 DEF updateAcknowledged, unguardPtt
  <2>7. CASE updateFailed
    BY <2>7 DEF updateFailed
  <2>8. CASE apiChanged
    BY <2>8 DEF apiChanged
  <2>9. CASE voiceConnected \/ voiceEnded
    BY <2>9 DEF voiceConnected, voiceEnded, startSession, endSession, Orphaned, TypeOK, Update
  <2>10. CASE UNCHANGED vars
    BY <2>10 DEF vars
  <2>. QED
    BY <2>1, <2>2, <2>3, <2>4, <2>5, <2>6, <2>7, <2>8, <2>9, <2>10 DEF Next, Pilot
<1>. QED
  BY <1>1, <1>2 DEF IInv

\* The invariant holds in every reachable state.
THEOREM GuardInvariant == Spec => []IInv
BY InitIInv, NextIInv, PTL DEF Spec

-----------------------------------------------------------------------------
\* The tunings, the PTT and the update request keep their types.
THEOREM TypeCorrect == Spec => []TypeOK
<1>1. IInv => TypeOK
  BY DEF IInv
<1>. QED
  BY <1>1, GuardInvariant, PTL

\* The microphone is live only while the pilot wants it and the client has it
\* down as open.
THEOREM MicNeverStuck == Spec => []NoHotMic
<1>1. IInv => NoHotMic
  BY DEF IInv
<1>. QED
  BY <1>1, GuardInvariant, PTL

\* A step that goes on the air finds the server in step with the radios, if
\* the session has had an acknowledgement at all.
LEMMA OpensInSync ==
  ASSUME IInv, [Next]_vars, ~OnAir, OnAir', server' # {}
  PROVE  server' = {nextFreq'}
<1>. USE DEF IInv, PendingCovers, BeliefIsTrue, OnAir, areTransceiversSynced,
             status, radioVars, pttVars, SetPtt
<1>1. CASE guardPtt
  BY <1>1 DEF guardPtt
<1>2. CASE openPtt
  BY <1>2 DEF openPtt
<1>3. CASE closePtt
  BY <1>3 DEF closePtt
<1>4. CASE \E r \in Radios, f \in Freqs : setRadioState(r, f)
  BY <1>4 DEF setRadioState
<1>5. CASE sendTransceiverUpdate
  BY <1>5 DEF sendTransceiverUpdate
<1>6. CASE updateAcknowledged
  BY <1>6 DEF updateAcknowledged, unguardPtt
<1>7. CASE updateFailed
  BY <1>7 DEF updateFailed
<1>8. CASE apiChanged
  BY <1>8 DEF apiChanged, APIUp, APIDown
<1>9. CASE voiceConnected \/ voiceEnded
  BY <1>9 DEF voiceConnected, voiceEnded, startSession, endSession
<1>10. CASE UNCHANGED vars
  BY <1>10 DEF vars
<1>. QED
  BY <1>1, <1>2, <1>3, <1>4, <1>5, <1>6, <1>7, <1>8, <1>9, <1>10 DEF Next, Pilot

\* Within a voice session the guard is sound.
THEOREM GuardHolds == Spec => GuardSound
<1>1. IInv /\ [Next]_vars => [~OnAir /\ OnAir' /\ server' # {} => server' = {nextFreq'}]_vars
  BY OpensInSync
<1>. QED
  BY <1>1, GuardInvariant, PTL DEF Spec, GuardSound

-----------------------------------------------------------------------------
\* The periodic update runs as long as both sessions do.
THEOREM UpdatesNeverStop == Spec => UpdatesGoOn
<1>1. IInv /\ [Next]_vars => [timer /\ Linked /\ Linked' => timer']_vars
  <2>. SUFFICES ASSUME IInv, [Next]_vars, timer, Linked, Linked'
                PROVE  timer'
    OBVIOUS
  <2>. USE DEF status, Linked, queueTransceiverUpdate, unguardPtt
  <2>1. CASE Pilot
    BY <2>1 DEF Pilot, guardPtt, openPtt, closePtt, setRadioState
  <2>2. CASE sendTransceiverUpdate \/ updateAcknowledged \/ updateFailed
    BY <2>2 DEF sendTransceiverUpdate, updateAcknowledged, updateFailed
  <2>3. CASE apiChanged \/ voiceConnected \/ voiceEnded
    BY <2>3 DEF apiChanged, voiceConnected, voiceEnded, startSession, endSession, VoiceUp, VoiceDown
  <2>4. CASE UNCHANGED vars
    BY <2>4 DEF vars
  <2>. QED
    BY <2>1, <2>2, <2>3, <2>4 DEF Next
<1>. QED
  BY <1>1, GuardInvariant, PTL DEF Spec, UpdatesGoOn

-----------------------------------------------------------------------------
\* The situation in which a guarded PTT has to open.
Pressing == wantPtt /\ Linked /\ timer

\* The update in flight carries what the pilot has tuned by now.
Fresh == \A u \in update : u.tuning = nextFreq

\* While the pilot presses, tunes nothing and the PTT stays closed: an update
\* that is fresh stays so and cannot be acknowledged, for that would open the
\* PTT; the acknowledgement of a stale one leaves nothing stale in flight.
LEMMA PressingStep ==
  ASSUME TypeOK, [Next]_vars, Pressing, Pressing', ~ptt, ~ptt', nextFreq' = nextFreq
  PROVE  /\ updateAcknowledged => ~Fresh /\ Fresh'
         /\ Fresh => Fresh'
         /\ sendTransceiverUpdate => update' # {}
<1>. USE DEF Fresh, Pressing, status, radioVars, pttVars
<1>1. ASSUME updateAcknowledged PROVE ~Fresh /\ Fresh'
  <2>1. PICK u \in update : currentFreq' = u.tuning
    BY <1>1 DEF updateAcknowledged
  <2>2. update' = {} /\ unguardPtt
    BY <1>1 DEF updateAcknowledged
  <2>3. ~areTransceiversSynced'
    BY <2>2 DEF unguardPtt, SetPtt
  <2>. QED
    BY <2>1, <2>2, <2>3 DEF areTransceiversSynced
<1>2. sendTransceiverUpdate => update' # {} /\ Fresh'
  <2>1. SUFFICES ASSUME sendTransceiverUpdate PROVE update' # {} /\ Fresh'
    OBVIOUS
  <2>2. update' = {[tuning |-> nextFreq, live |-> TRUE]}
    BY <2>1 DEF sendTransceiverUpdate
  <2>. QED
    BY <2>2
<1>3. CASE Pilot
  <2>1. update' = update
    BY <1>3 DEF Pilot, guardPtt, openPtt, closePtt, setRadioState
  <2>. QED
    BY <1>1, <1>2, <2>1
<1>4. CASE sendTransceiverUpdate \/ updateAcknowledged
  BY <1>1, <1>2, <1>4
<1>5. CASE updateFailed \/ apiChanged
  BY <1>1, <1>2, <1>5 DEF updateFailed, apiChanged
<1>6. CASE voiceConnected \/ voiceEnded
  <2>1. update' = {[u EXCEPT !.live = FALSE] : u \in update}
    BY <1>6 DEF voiceConnected, voiceEnded, startSession, endSession, Orphaned
  <2>2. \A u \in update : [u EXCEPT !.live = FALSE].tuning = u.tuning
    BY DEF TypeOK, Update
  <2>3. Fresh => Fresh'
    BY <2>1, <2>2
  <2>. QED
    BY <1>1, <1>2, <2>3
<1>7. CASE UNCHANGED vars
  BY <1>1, <1>2, <1>7 DEF vars
<1>. QED
  BY <1>3, <1>4, <1>5, <1>6, <1>7 DEF Next

\* While the pilot presses, nothing closes a PTT that is open.
LEMMA OpenStays ==
  ASSUME [Next]_vars, Pressing', ptt
  PROVE  ptt'
<1>. USE DEF status, radioVars, pttVars, SetPtt
<1>1. CASE guardPtt \/ openPtt
  BY <1>1 DEF guardPtt, openPtt
<1>2. CASE closePtt
  BY <1>2 DEF closePtt, Pressing
<1>3. CASE \E r \in Radios, f \in Freqs : setRadioState(r, f)
  BY <1>3 DEF setRadioState
<1>4. CASE sendTransceiverUpdate \/ updateAcknowledged \/ updateFailed
  BY <1>4 DEF sendTransceiverUpdate, updateAcknowledged, unguardPtt, updateFailed
<1>5. CASE apiChanged \/ voiceConnected \/ voiceEnded
  BY <1>5 DEF apiChanged, voiceConnected, voiceEnded, startSession, endSession
<1>6. CASE UNCHANGED vars
  BY <1>6 DEF vars
<1>. QED
  BY <1>1, <1>2, <1>3, <1>4, <1>5, <1>6 DEF Next, Pilot

\* A guarded PTT opens.  Were it to stay closed, a stale update could not be in
\* flight for ever: the server would answer it or another, and that leaves none.
\* From then on no answer is possible, so by fairness none is asked for; but
\* with nothing in flight the timer fires and asks.  Once open it stays so, and
\* therefore what was open before the pilot last pressed does not matter.
THEOREM GuardedPttOpens == FairSpec => GuardOpens
<1>1. TypeOK /\ [Next]_vars /\ [UNCHANGED nextFreq]_vars /\ Pressing /\ Pressing' /\ ~ptt /\ ~ptt'
        => /\ <<updateAcknowledged>>_vars => ~Fresh /\ Fresh'
           /\ Fresh => Fresh'
           /\ <<sendTransceiverUpdate>>_vars => ~(update = {})'
  <2>1. [UNCHANGED nextFreq]_vars => nextFreq' = nextFreq
    BY DEF vars, radioVars
  <2>. QED
    BY <2>1, PressingStep
<1>2. update = {} => Fresh
  BY DEF Fresh
<1>3. Pressing => timer
  BY DEF Pressing
<1>4. [Next]_vars /\ Pressing' /\ ptt => ptt'
  BY OpenStays
<1>5. FairSpec /\ <>[]Pressing /\ <>[][UNCHANGED nextFreq]_vars => ~<>[]~ptt
  BY <1>1, <1>2, <1>3, TypeCorrect, PTL DEF FairSpec, Spec, TimerFires, ServerAnswers
<1>6. Spec /\ <>[]Pressing /\ ~<>[]~ptt => <>[]ptt
  BY <1>4, PTL DEF Spec
<1>7. Pressing <=> wantPtt /\ Linked /\ timer
  BY DEF Pressing
<1>. QED
  BY <1>5, <1>6, <1>7, PTL DEF GuardOpens, FairSpec
=============================================================================
