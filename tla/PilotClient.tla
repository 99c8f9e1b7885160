---------------------------- MODULE PilotClient ----------------------------
(***************************************************************************)
(* The pilots' Client as a whole: the sessions of ClientSession and the    *)
(* push-to-talk of PttGuard, run together by the one class that owns both. *)
(* They share the two connections and mTransceiverUpdateTimer, and meet in *)
(* voiceStateCallback.                                                     *)
(*                                                                         *)
(* Neither part constrains the other here: a step of the sessions is taken *)
(* with what the callback does to the PTT, and a step of the PTT leaves    *)
(* the sessions alone.  That each part then sees only steps it allows is   *)
(* what ImplementsSessions and ImplementsGuard say.                        *)
(***************************************************************************)
EXTENDS ClientSession

CONSTANTS
  Radios,   \* indices of mRadioState
  Freqs,    \* the frequencies in use
  NoFreq    \* frequency 0, to which every radio is set at first

ASSUME NoFreqAssumption == NoFreq \in Freqs

VARIABLES
  nextFreq,     \* mRadioState[..].mNextFreq
  currentFreq,  \* mRadioState[..].mCurrentFreq
  pending,      \* mTxUpdatePending
  wantPtt,      \* mWantPtt
  ptt,          \* mPtt
  mic,          \* RadioSimulation::mPtt
  update,       \* the request in flight, if any
  server        \* auxiliary: the tunings the server may have

Guard == INSTANCE PttGuard WITH connected <- isAPIConnected,
                                voice <- channel,
                                timer <- updateTimer

guardVars   == <<nextFreq, currentFreq, pending, wantPtt, ptt, mic, update, server>>
sessionVars == <<apiVars, voiceVars, voiceEvent, awaiting, auxVars>>
clientVars  == <<vars, guardVars>>

ClientInit ==
  /\ Init
  /\ nextFreq = [r \in Radios |-> NoFreq]
  /\ currentFreq = nextFreq
  /\ update = {} /\ server = {}
  /\ pending = FALSE /\ wantPtt = FALSE /\ ptt = FALSE /\ mic = FALSE

-----------------------------------------------------------------------------
\* What happens to the sessions without a change of the voice session.
sessionStep ==
  /\ \/ connectAPI \/ connectVoice \/ disconnectAPI
     \/ authenticated \/ authFailed \/ refreshToken \/ sendHeartbeat
  /\ UNCHANGED guardVars

\* voiceStateCallback(Connected).
voiceConnected == setupSession /\ Guard!startSession

\* Fault: the radio simulation is not reset.
voiceEndedKeepingMic ==
  /\ \/ disconnectVoice \/ authFailedInSession \/ heartbeatTimedOut
     \/ setupRefused \/ channelNotOpened
  /\ server' = {}
  /\ Guard!Orphaned
  /\ UNCHANGED <<nextFreq, currentFreq, pending, wantPtt, ptt, mic>>

\* voiceStateCallback(Disconnected) and (Error), whatever ended the session.
voiceEnded ==
  /\ \/ disconnectVoice \/ authFailedInSession \/ heartbeatTimedOut
     \/ setupRefused \/ channelNotOpened
  /\ Guard!endSession

\* The pilot, and the transceiver updates.
pttStep ==
  /\ UNCHANGED sessionVars
  /\ \/ Guard!Pilot
     \/ Guard!sendTransceiverUpdate
     \/ Guard!updateAcknowledged
     \/ Guard!updateFailed

ClientNext == sessionStep \/ voiceConnected \/ voiceEnded \/ pttStep

ClientSpec == ClientInit /\ [][ClientNext]_clientVars

\* What RequestsEnd asks of the requests of the sessions is asked here too.
FairClientSpec == ClientSpec /\ RequestsEnd

-----------------------------------------------------------------------------
\* The sessions of the whole client behave as ClientSession says: what the PTT
\* does to the shared timer is nothing the sessions did not reckon with.
ImplementsSessions == Spec

\* Its push-to-talk behaves as PttGuard says, which knows the sessions only
\* through ClientStatus: no end, failure or renewal of a session does anything
\* to the PTT, the updates and their timer that PttGuard did not reckon with.
ImplementsGuard == Guard!Spec
=============================================================================
