------------------------------ MODULE PttGuard ------------------------------
(***************************************************************************)
(* Push-to-talk in the pilots' Client: the PTT opens at once when the      *)
(* server knows the frequencies of all radios, and is guarded until an     *)
(* update of the transceivers has been acknowledged when it does not.      *)
(*                                                                         *)
(* The sessions are those of ClientStatus.  There is one update request    *)
(* object, so posting an update cancels the one in flight; the end of a    *)
(* voice session cancels none.                                             *)
(***************************************************************************)
EXTENDS ClientStatus

CONSTANTS
  Radios,   \* indices of mRadioState
  Freqs,    \* the frequencies in use
  NoFreq    \* frequency 0, to which every radio is set at first

ASSUME NoFreqAssumption == NoFreq \in Freqs

Tunings == [Radios -> Freqs]

Update == [tuning : Tunings, live : BOOLEAN]

VARIABLES
  nextFreq,     \* mRadioState[..].mNextFreq: what the pilot has tuned
  currentFreq,  \* mRadioState[..].mCurrentFreq: what the client believes the server has
  timer,        \* mTransceiverUpdateTimer is pending
  pending,      \* mTxUpdatePending
  wantPtt,      \* mWantPtt
  ptt,          \* mPtt; the application was told PttOpen or PttClosed accordingly
  mic,          \* RadioSimulation::mPtt: audio frames go out
  update,       \* the request in flight, if any; it is live while the voice
                \* session that posted it lasts
  server        \* auxiliary: the tunings the server may have for this voice
                \* session; {} stands for none yet acknowledged

radioVars == <<nextFreq, currentFreq>>
pttVars   == <<wantPtt, ptt, mic>>
vars      == <<status, radioVars, timer, pending, pttVars, update, server>>

areTransceiversSynced == nextFreq = currentFreq

Linked == connected /\ voice

Init ==
  /\ StatusInit
  /\ nextFreq = [r \in Radios |-> NoFreq]
  /\ currentFreq = nextFreq
  /\ timer = FALSE /\ pending = FALSE
  /\ wantPtt = FALSE /\ ptt = FALSE /\ mic = FALSE
  /\ update = {}
  /\ server = {}

\* Fault: an update is queued for a session that has ended.
queueAnyway == timer' = TRUE

\* queueTransceiverUpdate: the timer is armed again, or stopped when there is
\* no session to update.
queueTransceiverUpdate == timer' = Linked

SetPtt(on) == ptt' = on /\ mic' = on

-----------------------------------------------------------------------------
\* The pilot.

\* Client::setRadioState(r, f), when it changes something.
setRadioState(r, f) ==
  /\ nextFreq[r] # f
  /\ nextFreq' = [nextFreq EXCEPT ![r] = f]
  /\ IF currentFreq[r] # f THEN queueTransceiverUpdate ELSE UNCHANGED timer
  /\ UNCHANGED <<status, currentFreq, pending, pttVars, update, server>>

\* Client::setPtt(true) while the server is behind or may be: guarded.
guardPtt ==
  /\ ~areTransceiversSynced \/ pending
  /\ wantPtt' = TRUE
  /\ IF pending THEN UNCHANGED timer ELSE queueTransceiverUpdate
  /\ UNCHANGED <<status, radioVars, pending, ptt, mic, update, server>>

\* Fault: a pending update is not waited for.
openWhilePending ==
  /\ areTransceiversSynced
  /\ wantPtt' = TRUE
  /\ IF ptt THEN UNCHANGED <<ptt, mic>> ELSE SetPtt(TRUE)
  /\ UNCHANGED <<status, radioVars, timer, pending, update, server>>

\* Client::setPtt(true) otherwise; nothing happens when mPtt is already set.
openPtt ==
  /\ areTransceiversSynced /\ ~pending
  /\ wantPtt' = TRUE
  /\ IF ptt THEN UNCHANGED <<ptt, mic>> ELSE SetPtt(TRUE)
  /\ UNCHANGED <<status, radioVars, timer, pending, update, server>>

\* Client::setPtt(false).
closePtt ==
  /\ wantPtt' = FALSE
  /\ IF ptt THEN SetPtt(FALSE) ELSE UNCHANGED <<ptt, mic>>
  /\ UNCHANGED <<status, radioVars, timer, pending, update, server>>

-----------------------------------------------------------------------------
\* The update of the transceivers.

\* Fault: the timer is not armed again.
sendOnce ==
  /\ timer
  /\ timer' = FALSE
  /\ IF Linked
     THEN /\ pending' = TRUE
          /\ update' = {[tuning |-> nextFreq, live |-> TRUE]}
          /\ server' = IF server = {} THEN {} ELSE server \cup {nextFreq}
     ELSE UNCHANGED <<pending, update, server>>
  /\ UNCHANGED <<status, radioVars, pttVars>>

\* Fault: the update in flight is not cancelled.
sendAnother ==
  /\ timer
  /\ timer' = Linked
  /\ IF Linked
     THEN /\ pending' = TRUE
          /\ update' = update \cup {[tuning |-> nextFreq, live |-> TRUE]}
          /\ server' = IF server = {} THEN {} ELSE server \cup {nextFreq}
     ELSE UNCHANGED <<pending, update, server>>
  /\ UNCHANGED <<status, radioVars, pttVars>>

\* mTransceiverUpdateTimer fires.  The server may act on the update from now
\* on; before the first acknowledgement there is nothing to keep track of.
sendTransceiverUpdate ==
  /\ timer
  /\ timer' = Linked
  /\ IF Linked
     THEN /\ pending' = TRUE
          /\ update' = {[tuning |-> nextFreq, live |-> TRUE]}
          /\ server' = IF server = {} THEN {} ELSE server \cup {nextFreq}
     ELSE UNCHANGED <<pending, update, server>>
  /\ UNCHANGED <<status, radioVars, pttVars>>

\* Fault: what the pilot wants by now is not looked at.
unguardAnyway ==
  IF ~ptt
  THEN IF areTransceiversSynced'
       THEN SetPtt(TRUE) /\ UNCHANGED timer
       ELSE queueTransceiverUpdate /\ UNCHANGED <<ptt, mic>>
  ELSE UNCHANGED <<ptt, mic, timer>>

\* Fault: the acknowledgement does not open the PTT.
unguardNever == UNCHANGED <<ptt, mic, timer>>

\* unguardPtt, after the answer has set mCurrentFreq.
unguardPtt ==
  IF wantPtt /\ ~ptt
  THEN IF areTransceiversSynced'
       THEN SetPtt(TRUE) /\ UNCHANGED timer
       ELSE queueTransceiverUpdate /\ UNCHANGED <<ptt, mic>>
  ELSE UNCHANGED <<ptt, mic, timer>>

\* The answer is 200.
updateAcknowledged ==
  /\ \E u \in update :
       /\ currentFreq' = u.tuning
       /\ server' = IF u.live THEN {u.tuning} ELSE server
  /\ update' = {}
  /\ pending' = FALSE
  /\ UNCHANGED <<status, nextFreq, wantPtt>>
  /\ unguardPtt

\* The request failed or the answer was anything else: the callback does
\* nothing, so the update stays pending until a later one succeeds.
updateFailed ==
  /\ update # {}
  /\ update' = {}
  /\ UNCHANGED <<status, radioVars, timer, pending, pttVars, server>>

-----------------------------------------------------------------------------
\* The sessions, and Client::voiceStateCallback.

apiChanged ==
  /\ APIUp \/ APIDown
  /\ UNCHANGED <<radioVars, timer, pending, pttVars, update, server>>

\* No session is left that the update in flight belongs to.
Orphaned == update' = {[u EXCEPT !.live = FALSE] : u \in update}

\* The new session's server side has no transceivers yet.
startSession ==
  /\ server' = {}
  /\ Orphaned
  /\ UNCHANGED <<radioVars, pending, pttVars>>

\* RadioSimulation::reset.  mPtt and mWantPtt stay as they are.
endSession ==
  /\ mic' = FALSE
  /\ server' = {}
  /\ Orphaned
  /\ UNCHANGED <<radioVars, pending, wantPtt, ptt>>

\* VoiceSessionState::Connected queues an update.
voiceConnected == VoiceUp /\ timer' = (connected /\ voice') /\ startSession

\* VoiceSessionState::Disconnected or Error stops the updates.
voiceEnded == VoiceDown /\ timer' = FALSE /\ endSession

-----------------------------------------------------------------------------
Pilot == guardPtt \/ openPtt \/ closePtt
         \/ \E r \in Radios, f \in Freqs : setRadioState(r, f)

Next ==
  \/ Pilot
  \/ sendTransceiverUpdate
  \/ updateAcknowledged
  \/ updateFailed
  \/ apiChanged
  \/ voiceConnected
  \/ voiceEnded

Spec == Init /\ [][Next]_vars

(***************************************************************************)
(* Timers fire, and a server that is asked again and again acknowledges in *)
(* the end.  The first is no more than weak fairness of the timer while no *)
(* request is in flight; the second is strong fairness of the answer 200,  *)
(* which can come exactly while one is.  Both are written out, without     *)
(* ENABLED, so that PttGuard_proofs can reason from them.                  *)
(***************************************************************************)
TimerFires == []<>~(timer /\ update = {}) \/ []<><<sendTransceiverUpdate>>_vars

ServerAnswers == <>[](update = {}) \/ []<><<updateAcknowledged>>_vars

FairSpec == Spec /\ TimerFires /\ ServerAnswers

-----------------------------------------------------------------------------
TypeOK ==
  /\ nextFreq \in Tunings
  /\ currentFreq \in Tunings
  /\ update \subseteq Update
  /\ \A u, v \in update : u = v
  /\ server \subseteq Tunings
  /\ \A flag \in {connected, voice, timer, pending, wantPtt, ptt, mic} : flag \in BOOLEAN

\* The microphone is live only while the pilot's last word is that it should
\* be and the client has it down as open: no late acknowledgement and no end
\* of a session leaves it stuck on.
NoHotMic == mic => ptt /\ wantPtt

\* The periodic update never stops while both sessions last, so a frequency
\* the server refused or never heard of is sent again.
UpdatesGoOn == [][timer /\ Linked /\ Linked' => timer']_vars

OnAir == voice /\ mic

\* Going on the air in a session the server has acknowledged transceivers for
\* needs the server to have exactly the tuning the pilot transmits on, however
\* updates, failures and retuning were interleaved before.
GuardSound == [][~OnAir /\ OnAir' /\ server' # {} => server' = {nextFreq'}]_vars

\* A guarded PTT opens in the end and stays open, whatever updates failed and
\* however often it was open before: it is enough that the pilot keeps pressing
\* and stops tuning and that the sessions last with their update timer started.
GuardOpens ==
  /\ <>[](wantPtt /\ Linked /\ timer)
  /\ <>[][UNCHANGED nextFreq]_vars
  => <>[]ptt

-----------------------------------------------------------------------------
\* What Client.h says of setPtt(true): it starts transmitting.  A PTT that the
\* client has open in a live session has the microphone live.
OpenPttTransmits == Linked /\ ptt => mic
=============================================================================
