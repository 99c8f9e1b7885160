--------------------------- MODULE ClientSession ---------------------------
(***************************************************************************)
(* The life of a connection: APISession (authentication and token refresh),*)
(* VoiceSession (set-up, heartbeat, tear-down) and the Client that drives  *)
(* both from their state callbacks.                                        *)
(*                                                                         *)
(* One action is one entry into this code: a call of the application, the  *)
(* completion of an HTTP request, or a timer.  Each stands for everything  *)
(* that runs before control returns to the event loop, the chain of        *)
(* callbacks included.  A request that reset() cancelled never completes.  *)
(* The reactor thread takes part in one place: a heartbeat it is handling  *)
(* while the event loop tears the session down (see VoiceDown).            *)
(***************************************************************************)

APISessionState == {"Disconnected", "Connecting", "Running", "Reconnecting"}
VoiceSessionError == {"NoError", "UDPChannelError", "BadResponseFromAPIServer", "Timeout"}
VoiceEvent == {"None", "Connected", "Disconnected", "Error"}

VARIABLES
  \* APISession
  api,            \* mState
  token,          \* mBearerToken is not empty
  authReq,        \* mAuthenticationRequest is in flight
  refreshTimer,   \* mRefreshTokenTimer is pending
  hooked,         \* VoiceSession is in mSession.StateCallback
  \* VoiceSession
  setupReq,       \* mVoiceSessionSetupRequest is in flight
  channel,        \* mChannel.isOpen(), which is isConnected()
  hbTimer,        \* mHeartbeatTimer is pending
  hbTimeout,      \* mHeartbeatTimeout is pending
  lastError,      \* mLastError
  \* Client
  updateTimer,    \* mTransceiverUpdateTimer is pending
  \* What the application knows, and what the run has done (auxiliary)
  voiceEvent,     \* the last voice event it was sent
  awaiting,       \* a connection attempt was started and no event ended it yet
  wanted,         \* its last call was connect(), not disconnect()
  selfErase       \* a callback was erased from the chain that was calling it

apiVars   == <<api, token, authReq, refreshTimer>>
voiceVars == <<hooked, setupReq, channel, hbTimer, hbTimeout, lastError>>
auxVars   == <<wanted, selfErase>>
vars      == <<apiVars, voiceVars, updateTimer, voiceEvent, awaiting, auxVars>>

isAPIConnected == api \in {"Running", "Reconnecting"}

Init ==
  /\ api = "Disconnected"
  /\ lastError = "NoError"
  /\ voiceEvent = "None"
  /\ token = FALSE /\ authReq = FALSE /\ refreshTimer = FALSE
  /\ hooked = FALSE /\ setupReq = FALSE /\ channel = FALSE
  /\ hbTimer = FALSE /\ hbTimeout = FALSE /\ updateTimer = FALSE
  /\ awaiting = FALSE /\ wanted = FALSE /\ selfErase = FALSE

-----------------------------------------------------------------------------
\* Parts of the handlers below.

\* APISession::Connect: a new authentication request replaces the old one.
APIConnect ==
  /\ authReq' = TRUE
  /\ api' = CASE api = "Disconnected" -> "Connecting"
              [] api = "Running"      -> "Reconnecting"
              [] OTHER                -> api

\* Fault: the authentication request is not cancelled.
APIDownLeavesRequest ==
  /\ api' = "Disconnected"
  /\ token' = FALSE
  /\ refreshTimer' = FALSE
  /\ UNCHANGED authReq

\* Fault: the token survives.
APIDownLeavesToken ==
  /\ api' = "Disconnected"
  /\ authReq' = FALSE
  /\ refreshTimer' = FALSE
  /\ UNCHANGED token

\* Fault: the refresh timer keeps running.
APIDownLeavesTimer ==
  /\ api' = "Disconnected"
  /\ token' = FALSE
  /\ authReq' = FALSE
  /\ UNCHANGED refreshTimer

\* APISession::Disconnect.
APIDown ==
  /\ api' = "Disconnected"
  /\ token' = FALSE
  /\ authReq' = FALSE
  /\ refreshTimer' = FALSE

\* Fault: an orderly end of the session is not reported.
VoiceDownSilently(e) ==
  /\ hbTimer' = FALSE
  /\ hbTimeout' \in {FALSE, channel}
  /\ channel' = FALSE
  /\ setupReq' = FALSE
  /\ hooked' = FALSE
  /\ lastError' = e
  /\ updateTimer' = FALSE
  /\ voiceEvent' = IF e = "NoError" THEN voiceEvent ELSE "Error"

\* failSession with error e, and what Client::voiceStateCallback does to the
\* transceiver timer.  The session's hook goes first, so the API session that
\* the callback then takes down does not come back here.  A heartbeat that the
\* reactor thread is handling may arm the timeout between the moment this
\* disables it and the moment the channel closes.
VoiceDown(e) ==
  /\ hbTimer' = FALSE
  /\ hbTimeout' \in {FALSE, channel}
  /\ channel' = FALSE
  /\ setupReq' = FALSE
  /\ hooked' = FALSE
  /\ lastError' = e
  /\ updateTimer' = FALSE
  /\ voiceEvent' = IF e = "NoError" THEN "Disconnected" ELSE "Error"

-----------------------------------------------------------------------------
\* Calls of the application.

\* Client::connect while the API session is down.
connectAPI ==
  /\ api = "Disconnected"
  /\ APIConnect
  /\ awaiting' = TRUE
  /\ wanted' = TRUE
  /\ UNCHANGED <<token, refreshTimer, voiceVars, updateTimer, voiceEvent, selfErase>>

\* Client::connect while the API session is up: VoiceSession::Connect, which
\* does nothing unless the API session is Running.  The result is not used.
connectVoice ==
  /\ isAPIConnected
  /\ setupReq' = (setupReq \/ api = "Running")
  /\ awaiting' = TRUE
  /\ wanted' = TRUE
  /\ UNCHANGED <<apiVars, hooked, channel, hbTimer, hbTimeout, lastError,
                 updateTimer, voiceEvent, selfErase>>

\* Client::disconnect with a voice session: VoiceSession::Disconnect posts the
\* tear-down request and fails the session, whose callback ends the API session.
disconnectVoice ==
  /\ channel
  /\ VoiceDown(lastError)
  /\ APIDown
  /\ awaiting' = FALSE
  /\ wanted' = FALSE
  /\ UNCHANGED selfErase

\* Fault: the voice session is forgotten.
disconnectOnlyAPI ==
  /\ APIDown
  /\ awaiting' = FALSE
  /\ wanted' = FALSE
  /\ UNCHANGED <<voiceVars, updateTimer, voiceEvent, selfErase>>

\* Client::disconnect without one: only the API session is disconnected.
disconnectAPI ==
  /\ ~channel
  /\ APIDown
  /\ awaiting' = FALSE
  /\ wanted' = FALSE
  /\ UNCHANGED <<voiceVars, updateTimer, voiceEvent, selfErase>>

\* setRadioState and the other callers of queueTransceiverUpdate.
queueTransceiverUpdate ==
  /\ updateTimer' = (isAPIConnected /\ channel)
  /\ UNCHANGED <<apiVars, voiceVars, voiceEvent, awaiting, auxVars>>

-----------------------------------------------------------------------------
\* Completions of the authentication request.

\* A good token.  setState(Running) runs Client::sessionStateCallback, which
\* starts the voice session and asks for the station aliases, unless a voice
\* session is already up.
authenticated ==
  /\ authReq
  /\ authReq' = FALSE
  /\ token' = TRUE
  /\ refreshTimer' = TRUE
  /\ api' = "Running"
  /\ setupReq' = (setupReq \/ (api # "Running" /\ ~channel))
  /\ UNCHANGED <<hooked, channel, hbTimer, hbTimeout, lastError, updateTimer,
                 voiceEvent, awaiting, auxVars>>

\* Fault: Error is stored as a state.
authFailedIntoError ==
  /\ authReq
  /\ ~(hooked /\ channel)
  /\ authReq' = FALSE
  /\ token' = FALSE
  /\ api' = "Error"
  /\ awaiting' = FALSE
  /\ UNCHANGED <<refreshTimer, voiceVars, updateTimer, voiceEvent, auxVars>>

\* Fault: the error event is left out.
authFailedSilently ==
  /\ authReq
  /\ ~(hooked /\ channel)
  /\ authReq' = FALSE
  /\ token' = FALSE
  /\ api' = "Disconnected"
  /\ UNCHANGED <<refreshTimer, voiceVars, updateTimer, voiceEvent, awaiting, auxVars>>

\* No usable token, and no voice session listening: raiseError.
authFailed ==
  /\ authReq
  /\ ~(hooked /\ channel)
  /\ authReq' = FALSE
  /\ token' = FALSE
  /\ api' = "Disconnected"
  /\ awaiting' = FALSE
  /\ UNCHANGED <<refreshTimer, voiceVars, updateTimer, voiceEvent, auxVars>>

\* The same with a voice session up: raiseError calls sessionStateCallback,
\* which fails the session and so erases its own entry from the chain that
\* raiseError is walking; Client then ends the API session.  How the walk goes
\* on is undefined, but all it had left to do is send an error event.
authFailedInSession ==
  /\ authReq
  /\ hooked /\ channel
  /\ VoiceDown(lastError)
  /\ APIDown
  /\ awaiting' = FALSE
  /\ selfErase' = TRUE
  /\ UNCHANGED wanted

\* mRefreshTokenTimer: the token is about to expire, authenticate again.
refreshToken ==
  /\ refreshTimer
  /\ refreshTimer' = FALSE
  /\ APIConnect
  /\ UNCHANGED <<token, voiceVars, updateTimer, voiceEvent, awaiting, auxVars>>

-----------------------------------------------------------------------------
\* Completions of the voice set-up request, and the voice timers.

\* Fault: the session does not listen to the API session.
setupUnhooked ==
  /\ setupReq
  /\ setupReq' = FALSE
  /\ channel' = TRUE
  /\ hbTimer' = TRUE
  /\ hbTimeout' = TRUE
  /\ lastError' = "NoError"
  /\ updateTimer' = (isAPIConnected /\ channel')
  /\ voiceEvent' = "Connected"
  /\ awaiting' = FALSE
  /\ UNCHANGED <<apiVars, hooked, auxVars>>

\* setupSession succeeds; the Connected callback queues a transceiver update.
setupSession ==
  /\ setupReq
  /\ setupReq' = FALSE
  /\ channel' = TRUE
  /\ hbTimer' = TRUE
  /\ hbTimeout' = TRUE
  /\ hooked' = TRUE
  /\ lastError' = "NoError"
  /\ updateTimer' = (isAPIConnected /\ channel')
  /\ voiceEvent' = "Connected"
  /\ awaiting' = FALSE
  /\ UNCHANGED <<apiVars, auxVars>>

\* Fault: the API session stays up.
setupRefusedKeepsAPI ==
  /\ setupReq
  /\ VoiceDown("BadResponseFromAPIServer")
  /\ awaiting' = FALSE
  /\ UNCHANGED <<apiVars, auxVars>>

\* The request failed, or its answer made no sense.
setupRefused ==
  /\ setupReq
  /\ VoiceDown("BadResponseFromAPIServer")
  /\ APIDown
  /\ awaiting' = FALSE
  /\ UNCHANGED auxVars

\* setupSession closes the channel, gives it the new configuration and cannot
\* open it again; no heartbeat can arrive any more when failSession runs.
channelNotOpened ==
  /\ setupReq
  /\ VoiceDown("UDPChannelError")
  /\ hbTimeout' = FALSE
  /\ APIDown
  /\ awaiting' = FALSE
  /\ UNCHANGED auxVars

\* mHeartbeatTimer: send one and wait for the next, while the channel is open.
sendHeartbeat ==
  /\ hbTimer
  /\ hbTimer' = channel
  /\ UNCHANGED <<apiVars, hooked, setupReq, channel, hbTimeout, lastError,
                 updateTimer, voiceEvent, awaiting, auxVars>>

\* mHeartbeatTimeout: tear the session down and authenticate anew.  The
\* tear-down has left the API session Disconnected, so Connect starts it.
heartbeatTimedOut ==
  /\ hbTimeout
  /\ VoiceDown("Timeout")
  /\ api' = "Connecting"
  /\ token' = FALSE
  /\ refreshTimer' = FALSE
  /\ authReq' = TRUE
  /\ awaiting' = TRUE
  /\ UNCHANGED <<wanted, selfErase>>

\* mTransceiverUpdateTimer: post the transceivers and come back later, or stop
\* when either session is gone.
sendTransceiverUpdate ==
  /\ updateTimer
  /\ updateTimer' = (isAPIConnected /\ channel)
  /\ UNCHANGED <<apiVars, voiceVars, voiceEvent, awaiting, auxVars>>

-----------------------------------------------------------------------------
Application == connectAPI \/ connectVoice \/ disconnectVoice \/ disconnectAPI
               \/ queueTransceiverUpdate

AuthCompletes  == authenticated \/ authFailed \/ authFailedInSession
SetupCompletes == setupSession \/ setupRefused \/ channelNotOpened

Next ==
  \/ Application
  \/ AuthCompletes
  \/ SetupCompletes
  \/ refreshToken
  \/ sendHeartbeat
  \/ heartbeatTimedOut
  \/ sendTransceiverUpdate

Spec == Init /\ [][Next]_vars

(***************************************************************************)
(* libcurl reports the end of every transfer, good or bad, and the event   *)
(* loop delivers it.  Nothing is assumed of the application, of the timers *)
(* or of the answers.                                                      *)
(*                                                                         *)
(* This is weak fairness of AuthCompletes and of SetupCompletes, with      *)
(* ENABLED replaced by what it is: a completion can come exactly while the *)
(* request is in flight.  ClientSession_proofs reasons from this form.     *)
(***************************************************************************)
RequestsEnd ==
  /\ []<>~authReq \/ []<><<AuthCompletes>>_vars
  /\ []<>~setupReq \/ []<><<SetupCompletes>>_vars

FairSpec == Spec /\ RequestsEnd

-----------------------------------------------------------------------------
\* Types of the variables that are not flags.
TypeOK ==
  /\ api \in APISessionState
  /\ lastError \in VoiceSessionError
  /\ voiceEvent \in VoiceEvent
  /\ \A flag \in {token, authReq, refreshTimer, hooked, setupReq, channel, hbTimer,
                   hbTimeout, updateTimer, awaiting, wanted, selfErase} :
       flag \in BOOLEAN

\* The API session waits for an answer exactly while a request is in flight:
\* no cancelled request leaves it Connecting for ever (connect() would then
\* refuse to start), and no answer arrives that it does not wait for.
AuthInFlight == authReq <=> api \in {"Connecting", "Reconnecting"}

\* The session is up, renewals included, exactly while there is a token to
\* authenticate with; a session that ended leaves no token behind.
TokenWhileUp == token <=> isAPIConnected

\* The token of a Running session is always going to be renewed, and nothing
\* re-authenticates a session that ended.
RenewalScheduled == refreshTimer <=> api = "Running"

\* A Running API session has a voice session or is setting one up: no path of
\* failures leaves the client logged in with nothing to wait for.
NoLimbo == api = "Running" => channel \/ setupReq

\* A live voice session is watched: it sends heartbeats, its loss is timed, and
\* it hears of the end of the API session; a dead one does none of that, nor
\* reports its transceivers any more, but for the timeout, which a late
\* heartbeat can leave behind.
VoiceWatched ==
  /\ channel <=> hbTimer
  /\ channel <=> hooked
  /\ channel => hbTimeout
  /\ updateTimer => channel

\* The application's last word about voice is true: Connected while the
\* channel is open and no longer.  And what it is told next will be: a live
\* session carries no error of an earlier one, so that disconnect() would be
\* reported as the Timeout that preceded a reconnection.
VoiceReported ==
  /\ channel <=> voiceEvent = "Connected"
  /\ channel => lastError = "NoError"

\* Every attempt to connect, the automatic one after a lost heartbeat included,
\* ends with voice up or with an event that says it is not going to be.
AttemptsEnd == awaiting ~> (channel \/ ~awaiting)

\* The sessions implement ClientStatus: seen through isAPIConnected() and
\* isVoiceConnected() alone, the API session never goes away under a live voice
\* session, and a voice session never ends without taking it along.
Status == INSTANCE ClientStatus WITH connected <- isAPIConnected, voice <- channel

ImplementsStatus == Status!StatusSpec

-----------------------------------------------------------------------------
\* What Client.h says of disconnect(): it tears down the voice session.  None
\* comes up after it until the application asks for one again.
DisconnectIsFinal == [][~channel /\ channel' => wanted]_vars

\* What VoiceSession.h says of failSession(): it tears the session down, here
\* its watchdog: no timeout is left pending for a session that is gone.
TimeoutDiesWithSession == hbTimeout => channel

\* What ChainedCallback.h promises: the owner reference makes the removal of a
\* callback safe, also from inside the chain.
RemovalIsSafe == ~selfErase
=============================================================================
