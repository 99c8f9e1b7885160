----------------------- MODULE ClientSession_proofs -----------------------
(***************************************************************************)
(* Proofs about modules ClientSession and PilotClient.  The conjunction of *)
(* the session's invariants is inductive, and none of the parts is so      *)
(* alone: RenewalScheduled needs AuthInFlight to know that an answer never *)
(* finds the session Running, NoLimbo needs it to know that a good answer  *)
(* starts the voice session, AuthInFlight needs RenewalScheduled to know   *)
(* that the timer finds the session Running, and VoiceReported and         *)
(* VoiceWatched go with the channel.  The whole client then implements     *)
(* ClientSession and PttGuard, and has what is proved of either.           *)
(***************************************************************************)
EXTENDS PilotClient, TLAPS

IInv ==
  /\ TypeOK
  /\ AuthInFlight
  /\ TokenWhileUp
  /\ RenewalScheduled
  /\ NoLimbo
  /\ VoiceWatched
  /\ VoiceReported

\* The initial state satisfies the invariant.
LEMMA InitIInv == Init => IInv
BY DEF Init, IInv, TypeOK, AuthInFlight, TokenWhileUp, RenewalScheduled,
       NoLimbo, VoiceWatched, VoiceReported,
       isAPIConnected, APISessionState, VoiceSessionError, VoiceEvent

\* Every step keeps it.
LEMMA NextIInv == IInv /\ [Next]_vars => IInv'
<1>. SUFFICES ASSUME IInv, [Next]_vars
              PROVE  IInv'
  OBVIOUS
<1>. USE DEF IInv, TypeOK, AuthInFlight, TokenWhileUp, RenewalScheduled, NoLimbo,
             VoiceWatched, VoiceReported,
             isAPIConnected, APISessionState, VoiceSessionError, VoiceEvent,
             APIConnect, APIDown, VoiceDown,
             apiVars, voiceVars, auxVars
<1>1. CASE connectAPI
  BY <1>1 DEF connectAPI
<1>2. CASE connectVoice
  BY <1>2 DEF connectVoice
<1>3. CASE disconnectVoice
  BY <1>3 DEF disconnectVoice
<1>4. CASE disconnectAPI
  BY <1>4 DEF disconnectAPI
<1>5. CASE queueTransceiverUpdate
  BY <1>5 DEF queueTransceiverUpdate
<1>6. CASE authenticated
  BY <1>6 DEF authenticated
<1>7. CASE authFailed
  BY <1>7 DEF authFailed
<1>8. CASE authFailedInSession
  BY <1>8 DEF authFailedInSession
<1>9. CASE refreshToken
  BY <1>9 DEF refreshToken
<1>10. CASE setupSession
  BY <1>10 DEF setupSession
<1>11. CASE setupRefused
  BY <1>11 DEF setupRefused
<1>12. CASE channelNotOpened
  BY <1>12 DEF channelNotOpened
<1>13. CASE sendHeartbeat
  BY <1>13 DEF sendHeartbeat
<1>14. CASE heartbeatTimedOut
  BY <1>14 DEF heartbeatTimedOut
<1>15. CASE sendTransceiverUpdate
  BY <1>15 DEF sendTransceiverUpdate
<1>16. CASE UNCHANGED vars
  BY <1>16 DEF vars
<1>. QED
  BY <1>1, <1>2, <1>3, <1>4, <1>5, <1>6, <1>7, <1>8, <1>9, <1>10, <1>11,
     <1>12, <1>13, <1>14, <1>15, <1>16
     DEF Next, Application, AuthCompletes, SetupCompletes

\* The conjunction of the invariants holds in every reachable state.
THEOREM SessionInvariant == Spec => []IInv
BY InitIInv, NextIInv, PTL DEF Spec

-----------------------------------------------------------------------------
\* The session waits for an answer exactly while a request is in flight.
THEOREM NeverStuckConnecting == Spec => []AuthInFlight
<1>1. IInv => AuthInFlight
  BY DEF IInv
<1>. QED
  BY <1>1, SessionInvariant, PTL

\* There is a token exactly while the API session is up.
THEOREM TokenFollowsState == Spec => []TokenWhileUp
<1>1. IInv => TokenWhileUp
  BY DEF IInv
<1>. QED
  BY <1>1, SessionInvariant, PTL

\* A Running session always has its renewal scheduled, and only that one has.
THEOREM AlwaysRenewed == Spec => []RenewalScheduled
<1>1. IInv => RenewalScheduled
  BY DEF IInv
<1>. QED
  BY <1>1, SessionInvariant, PTL

\* A Running session has a voice session or is setting one up.
THEOREM LoggedInForVoice == Spec => []NoLimbo
<1>1. IInv => NoLimbo
  BY DEF IInv
<1>. QED
  BY <1>1, SessionInvariant, PTL

\* A live voice session, and only it, has its heartbeat timer running and its
\* hook in the callback chain of the API session, and may have an update queued.
THEOREM VoiceIsWatched == Spec => []VoiceWatched
<1>1. IInv => VoiceWatched
  BY DEF IInv
<1>. QED
  BY <1>1, SessionInvariant, PTL

\* The last voice event the application got tells whether there is a channel,
\* and no live voice session carries the error of the one before.
THEOREM VoiceEventsTrue == Spec => []VoiceReported
<1>1. IInv => VoiceReported
  BY DEF IInv
<1>. QED
  BY <1>1, SessionInvariant, PTL

\* The flags and states of the sessions keep their types.
THEOREM TypeCorrect == Spec => []TypeOK
<1>1. IInv => TypeOK
  BY DEF IInv
<1>. QED
  BY <1>1, SessionInvariant, PTL

-----------------------------------------------------------------------------
\* The ends of a voice session are steps of ClientStatus.
LEMMA DownImplementsStatus ==
  ASSUME NEW e, VoiceDown(e), api' \notin {"Running", "Reconnecting"}
  PROVE  Status!VoiceDown
<1>1. channel' = FALSE
  BY DEF VoiceDown
<1>2. isAPIConnected' = FALSE
  BY DEF isAPIConnected
<1>. QED
  BY <1>1, <1>2, Zenon DEF Status!VoiceDown

\* What a step does to the two things ClientStatus looks at, given the
\* invariant: it is a step of ClientStatus or changes neither.
LEMMA StepImplementsStatus ==
  ASSUME IInv, [Next]_vars
  PROVE  [Status!StatusNext]_(Status!status)
<1>. USE DEF IInv, AuthInFlight, VoiceWatched, isAPIConnected, APIConnect, APIDown,
             apiVars, voiceVars, Status!StatusNext, Status!APIUp, Status!APIDown,
             Status!VoiceUp, Status!status
<1>1. CASE connectAPI
  BY <1>1 DEF connectAPI
<1>2. CASE connectVoice
  BY <1>2 DEF connectVoice
<1>3. CASE disconnectVoice
  <2>1. VoiceDown(lastError) /\ api' \notin {"Running", "Reconnecting"}
    BY <1>3 DEF disconnectVoice
  <2>. QED
    BY <2>1, DownImplementsStatus
<1>4. CASE disconnectAPI
  BY <1>4 DEF disconnectAPI
<1>5. CASE queueTransceiverUpdate
  BY <1>5 DEF queueTransceiverUpdate
<1>6. CASE authenticated
  BY <1>6 DEF authenticated
<1>7. CASE authFailed
  BY <1>7 DEF authFailed
<1>8. CASE authFailedInSession
  <2>1. VoiceDown(lastError) /\ api' \notin {"Running", "Reconnecting"}
    BY <1>8 DEF authFailedInSession
  <2>. QED
    BY <2>1, DownImplementsStatus
<1>9. CASE refreshToken
  BY <1>9 DEF refreshToken
<1>10. CASE setupSession
  BY <1>10 DEF setupSession
<1>11. CASE setupRefused
  <2>1. VoiceDown("BadResponseFromAPIServer") /\ api' \notin {"Running", "Reconnecting"}
    BY <1>11 DEF setupRefused
  <2>. QED
    BY <2>1, DownImplementsStatus
<1>12. CASE channelNotOpened
  <2>1. VoiceDown("UDPChannelError") /\ api' \notin {"Running", "Reconnecting"}
    BY <1>12 DEF channelNotOpened
  <2>. QED
    BY <2>1, DownImplementsStatus
<1>13. CASE sendHeartbeat
  BY <1>13 DEF sendHeartbeat
<1>14. CASE heartbeatTimedOut
  <2>1. VoiceDown("Timeout") /\ api' \notin {"Running", "Reconnecting"}
    BY <1>14 DEF heartbeatTimedOut
  <2>. QED
    BY <2>1, DownImplementsStatus
<1>15. CASE sendTransceiverUpdate
  BY <1>15 DEF sendTransceiverUpdate
<1>16. CASE UNCHANGED vars
  BY <1>16 DEF vars
<1>. QED
  BY <1>1, <1>2, <1>3, <1>4, <1>5, <1>6, <1>7, <1>8, <1>9, <1>10, <1>11,
     <1>12, <1>13, <1>14, <1>15, <1>16
     DEF Next, Application, AuthCompletes, SetupCompletes

\* The sessions implement the abstract status on which PttGuard is built.
THEOREM SessionsImplementStatus == Spec => ImplementsStatus
<1>1. Init => Status!StatusInit
  BY DEF Init, Status!StatusInit, isAPIConnected
<1>2. IInv /\ [Next]_vars => [Status!StatusNext]_(Status!status)
  BY StepImplementsStatus
<1>. QED
  BY <1>1, <1>2, SessionInvariant, PTL
     DEF Spec, ImplementsStatus, Status!StatusSpec

-----------------------------------------------------------------------------
\* An attempt that has not ended has a request in flight that will end it.
Attempting == awaiting /\ ~channel

Awaited == Attempting => authReq \/ setupReq

\* Awaited goes with the invariant.
LEMMA NextAwaited == IInv /\ Awaited /\ [Next]_vars => Awaited'
<1>. SUFFICES ASSUME IInv, Awaited, [Next]_vars
              PROVE  Awaited'
  OBVIOUS
<1>. USE DEF IInv, AuthInFlight, NoLimbo, Awaited, Attempting, isAPIConnected,
             APIConnect, APIDown, VoiceDown, apiVars, voiceVars, auxVars
<1>1. CASE Application
  BY <1>1 DEF Application, connectAPI, connectVoice, disconnectVoice, disconnectAPI,
              queueTransceiverUpdate, TypeOK, APISessionState
<1>2. CASE AuthCompletes
  BY <1>2 DEF AuthCompletes, authenticated, authFailed, authFailedInSession
<1>3. CASE SetupCompletes
  BY <1>3 DEF SetupCompletes, setupSession, setupRefused, channelNotOpened
<1>4. CASE refreshToken
  BY <1>4 DEF refreshToken
<1>5. CASE sendHeartbeat \/ heartbeatTimedOut \/ sendTransceiverUpdate
  BY <1>5 DEF sendHeartbeat, heartbeatTimedOut, sendTransceiverUpdate
<1>6. CASE UNCHANGED vars
  BY <1>6 DEF vars
<1>. QED
  BY <1>1, <1>2, <1>3, <1>4, <1>5, <1>6 DEF Next

\* What a step can do while an attempt goes on.  The set-up request ends only
\* in a timeout left behind by the last session, and that comes once; a good
\* answer to the authentication starts the set-up.
LEMMA AttemptStep ==
  ASSUME IInv, Attempting, [Next]_vars, Attempting'
  PROVE  /\ ~SetupCompletes
         /\ AuthCompletes => setupReq'
         /\ ~hbTimeout => ~hbTimeout'
         /\ setupReq => setupReq' \/ (hbTimeout /\ ~hbTimeout')
<1>. USE DEF IInv, AuthInFlight, Attempting, isAPIConnected, APIConnect, APIDown,
             VoiceDown, apiVars, voiceVars, auxVars
<1>1. ~SetupCompletes
  BY DEF SetupCompletes, setupSession, setupRefused, channelNotOpened
<1>2. AuthCompletes => setupReq'
  BY DEF AuthCompletes, authenticated, authFailed, authFailedInSession
<1>3. CASE Application
  <2>1. setupReq => setupReq'
    BY <1>3 DEF Application, connectAPI, connectVoice, disconnectVoice, disconnectAPI,
                queueTransceiverUpdate
  <2>2. hbTimeout' = hbTimeout
    BY <1>3 DEF Application, connectAPI, connectVoice, disconnectVoice, disconnectAPI,
                queueTransceiverUpdate
  <2>. QED
    BY <1>1, <1>2, <2>1, <2>2
<1>4. CASE AuthCompletes
  BY <1>1, <1>2, <1>4 DEF AuthCompletes, authenticated, authFailed, authFailedInSession
<1>5. CASE refreshToken
  BY <1>1, <1>2, <1>5 DEF refreshToken
<1>6. CASE sendHeartbeat \/ sendTransceiverUpdate
  BY <1>1, <1>2, <1>6 DEF sendHeartbeat, sendTransceiverUpdate
<1>7. CASE heartbeatTimedOut
  <2>1. channel = FALSE
    BY DEF TypeOK
  <2>2. hbTimeout /\ hbTimeout' \in {FALSE, channel}
    BY <1>7 DEF heartbeatTimedOut
  <2>. QED
    BY <1>1, <1>2, <2>1, <2>2
<1>8. CASE UNCHANGED vars
  BY <1>1, <1>2, <1>8 DEF vars
<1>. QED
  BY <1>1, <1>3, <1>4, <1>5, <1>6, <1>7, <1>8 DEF Next

\* Every attempt to connect ends.  Were one to go on for ever, the timeout of
\* the last session would come no more from some point on; from there a set-up
\* request could only stay in flight, which fairness excludes, so there would
\* be none; then the authentication would be in flight, and its answer starts
\* the set-up.
THEOREM EveryAttemptEnds == FairSpec => AttemptsEnd
<1>. DEFINE OnGoing == Attempting /\ Attempting'
<1>1. Init => Awaited
  BY DEF Init, Awaited, Attempting
<1>2. Spec => [](IInv /\ Awaited)
  BY <1>1, InitIInv, NextIInv, NextAwaited, PTL DEF Spec
<1>3. IInv /\ [Next]_vars /\ OnGoing =>
        /\ ~<<SetupCompletes>>_vars
        /\ <<AuthCompletes>>_vars => setupReq'
        /\ ~hbTimeout => ~hbTimeout'
        /\ setupReq => setupReq' \/ (hbTimeout /\ ~hbTimeout')
  BY AttemptStep
<1>4. Awaited /\ Attempting => authReq \/ setupReq
  BY DEF Awaited
<1>5. Spec /\ RequestsEnd => [](~[]Attempting)
  BY <1>2, <1>3, <1>4, PTL DEF Spec, RequestsEnd
<1>6. ~Attempting => channel \/ ~awaiting
  BY DEF Attempting
<1>. QED
  BY <1>5, <1>6, PTL DEF FairSpec, AttemptsEnd

-----------------------------------------------------------------------------
\* Whatever the pilot and the updates do, they leave the shared timer alone or
\* set it as queueTransceiverUpdate and sendTransceiverUpdate do.
LEMMA PttStepTimer ==
  ASSUME pttStep
  PROVE  updateTimer' = updateTimer \/ updateTimer' = (isAPIConnected /\ channel)
<1>. USE DEF Guard!queueTransceiverUpdate, Guard!Linked
<1>1. CASE Guard!Pilot
  BY <1>1 DEF Guard!Pilot, Guard!guardPtt, Guard!openPtt, Guard!closePtt, Guard!setRadioState
<1>2. CASE Guard!sendTransceiverUpdate
  BY <1>2 DEF Guard!sendTransceiverUpdate
<1>3. CASE Guard!updateAcknowledged
  BY <1>3 DEF Guard!updateAcknowledged, Guard!unguardPtt
<1>4. CASE Guard!updateFailed
  BY <1>4 DEF Guard!updateFailed
<1>. QED
  BY <1>1, <1>2, <1>3, <1>4 DEF pttStep

\* A step of the client is a step of the sessions, or changes nothing of them.
LEMMA StepOfSessions == [ClientNext]_clientVars => [Next]_vars
<1>. SUFFICES ASSUME [ClientNext]_clientVars PROVE [Next]_vars
  OBVIOUS
<1>. USE DEF Next, Application, AuthCompletes, SetupCompletes
<1>1. CASE sessionStep
  BY <1>1 DEF sessionStep
<1>2. CASE voiceConnected
  BY <1>2 DEF voiceConnected
<1>3. CASE voiceEnded
  BY <1>3 DEF voiceEnded
<1>4. CASE pttStep
  <2>1. UNCHANGED <<apiVars, voiceVars, voiceEvent, awaiting, auxVars>>
    BY <1>4 DEF pttStep, sessionVars
  <2>2. CASE updateTimer' = updateTimer
    BY <2>1, <2>2 DEF vars
  <2>3. CASE updateTimer' = (isAPIConnected /\ channel)
    BY <2>1, <2>3 DEF queueTransceiverUpdate
  <2>. QED
    BY <1>4, <2>2, <2>3, PttStepTimer
<1>5. CASE UNCHANGED clientVars
  BY <1>5 DEF clientVars
<1>. QED
  BY <1>1, <1>2, <1>3, <1>4, <1>5 DEF ClientNext

\* The sessions of the client behave as ClientSession says.
THEOREM ClientRunsSessions == ClientSpec => ImplementsSessions
<1>1. ClientInit => Init
  BY DEF ClientInit
<1>. QED
  BY <1>1, StepOfSessions, PTL DEF ClientSpec, ImplementsSessions, Spec

\* What the ends of a voice session are to PttGuard.
LEMMA EndOfVoice ==
  ASSUME voiceEnded
  PROVE  Guard!VoiceDown /\ updateTimer' = FALSE
<1>1. PICK e \in VoiceSessionError \cup {lastError} : VoiceDown(e)
  BY DEF voiceEnded, disconnectVoice, authFailedInSession, heartbeatTimedOut,
         setupRefused, channelNotOpened, VoiceSessionError
<1>2. api' \notin {"Running", "Reconnecting"}
  BY DEF voiceEnded, disconnectVoice, authFailedInSession, heartbeatTimedOut,
         setupRefused, channelNotOpened, APIDown
<1>3. isAPIConnected' = FALSE
  BY <1>2 DEF isAPIConnected
<1>4. channel' = FALSE /\ updateTimer' = FALSE
  BY <1>1 DEF VoiceDown
<1>. QED
  BY <1>3, <1>4 DEF Guard!VoiceDown

\* The changes of the API session alone are changes that PttGuard knows: it ends
\* on its own only when there is no voice session.
LEMMA ChangeOfAPI ==
  ASSUME IInv, sessionStep
  PROVE  Guard!apiChanged \/ UNCHANGED Guard!vars
<1>1. UNCHANGED guardVars /\ UNCHANGED <<channel, updateTimer>>
  BY DEF sessionStep, connectAPI, connectVoice, disconnectAPI, authenticated, authFailed,
         refreshToken, sendHeartbeat, voiceVars, apiVars, vars
<1>2. \/ isAPIConnected' = isAPIConnected
      \/ isAPIConnected = FALSE /\ isAPIConnected' = TRUE
      \/ channel = FALSE /\ isAPIConnected' = FALSE
  BY DEF sessionStep, connectAPI, connectVoice, disconnectAPI, authenticated, authFailed,
         refreshToken, sendHeartbeat, apiVars, APIConnect, APIDown, isAPIConnected,
         IInv, TypeOK, VoiceWatched
<1>. QED
  BY <1>1, <1>2 DEF guardVars, Guard!apiChanged, Guard!APIUp, Guard!APIDown, Guard!vars,
                    Guard!status, Guard!radioVars, Guard!pttVars

\* A step of the client is a step of PttGuard, or changes nothing of it.
LEMMA StepOfGuard == IInv /\ [ClientNext]_clientVars => [Guard!Next]_(Guard!vars)
<1>. SUFFICES ASSUME IInv, [ClientNext]_clientVars PROVE [Guard!Next]_(Guard!vars)
  OBVIOUS
<1>1. CASE sessionStep
  BY <1>1, ChangeOfAPI DEF Guard!Next
<1>2. CASE voiceConnected
  <2>1. /\ channel' = TRUE /\ UNCHANGED isAPIConnected
        /\ updateTimer' = (isAPIConnected /\ channel')
    BY <1>2 DEF voiceConnected, setupSession, apiVars, isAPIConnected
  <2>2. Guard!startSession
    BY <1>2 DEF voiceConnected
  <2>3. Guard!voiceConnected
    BY <2>1, <2>2, Zenon DEF Guard!voiceConnected, Guard!VoiceUp
  <2>. QED
    BY <2>3 DEF Guard!Next
<1>3. CASE voiceEnded
  <2>1. Guard!voiceEnded
    BY <1>3, EndOfVoice DEF voiceEnded, Guard!voiceEnded
  <2>. QED
    BY <2>1 DEF Guard!Next
<1>4. CASE pttStep
  BY <1>4 DEF pttStep, Guard!Next
<1>5. CASE UNCHANGED clientVars
  BY <1>5 DEF clientVars, vars, apiVars, voiceVars, guardVars, isAPIConnected, Guard!vars,
              Guard!status, Guard!radioVars, Guard!pttVars
<1>. QED
  BY <1>1, <1>2, <1>3, <1>4, <1>5 DEF ClientNext

\* The push-to-talk of the client behaves as PttGuard says, with the real
\* sessions below it.
THEOREM ClientGuardsPtt == ClientSpec => ImplementsGuard
<1>1. ClientInit => Guard!Init
  BY DEF ClientInit, Init, isAPIConnected, Guard!Init, Guard!StatusInit
<1>2. ClientSpec => []IInv
  BY ClientRunsSessions, SessionInvariant, PTL DEF ImplementsSessions
<1>. QED
  BY <1>1, <1>2, StepOfGuard, PTL DEF ClientSpec, ImplementsGuard, Guard!Spec

\* Every attempt to connect ends in the whole client too.
THEOREM ClientAttemptsEnd == FairClientSpec => AttemptsEnd
BY ClientRunsSessions, EveryAttemptEnds, PTL DEF FairClientSpec, FairSpec, ImplementsSessions

-----------------------------------------------------------------------------
\* The theorems about PttGuard, with the sessions of the client in its place.
Proved == INSTANCE PttGuard_proofs WITH connected <- isAPIConnected,
                                        voice <- channel,
                                        timer <- updateTimer

\* The instance the specification uses and the one the proofs use are the same.
LEMMA SameGuard == Guard!Spec => Proved!Spec
<1>. USE DEF Guard!status, Proved!status, Guard!radioVars, Proved!radioVars,
         Guard!pttVars, Proved!pttVars, Guard!areTransceiversSynced,
         Proved!areTransceiversSynced, Guard!Linked, Proved!Linked,
         Guard!queueTransceiverUpdate, Proved!queueTransceiverUpdate, Guard!SetPtt,
         Proved!SetPtt
<1>1. Guard!Pilot <=> Proved!Pilot
  BY DEF Guard!Pilot, Proved!Pilot, Guard!guardPtt, Proved!guardPtt, Guard!openPtt,
         Proved!openPtt, Guard!closePtt, Proved!closePtt, Guard!setRadioState,
         Proved!setRadioState
<1>2. Guard!sendTransceiverUpdate <=> Proved!sendTransceiverUpdate
  BY DEF Guard!sendTransceiverUpdate, Proved!sendTransceiverUpdate
<1>3. Guard!updateAcknowledged <=> Proved!updateAcknowledged
  BY DEF Guard!updateAcknowledged, Proved!updateAcknowledged, Guard!unguardPtt,
         Proved!unguardPtt
<1>4. Guard!updateFailed <=> Proved!updateFailed
  BY DEF Guard!updateFailed, Proved!updateFailed
<1>5. Guard!apiChanged <=> Proved!apiChanged
  BY DEF Guard!apiChanged, Proved!apiChanged, Guard!APIUp, Proved!APIUp,
         Guard!APIDown, Proved!APIDown
<1>6. Guard!voiceConnected <=> Proved!voiceConnected
  BY DEF Guard!voiceConnected, Proved!voiceConnected, Guard!VoiceUp, Proved!VoiceUp,
         Guard!startSession, Proved!startSession, Guard!Orphaned, Proved!Orphaned
<1>7. Guard!voiceEnded <=> Proved!voiceEnded
  BY DEF Guard!voiceEnded, Proved!voiceEnded, Guard!VoiceDown, Proved!VoiceDown,
         Guard!endSession, Proved!endSession, Guard!Orphaned, Proved!Orphaned
<1>8. Guard!Next <=> Proved!Next
  BY <1>1, <1>2, <1>3, <1>4, <1>5, <1>6, <1>7 DEF Guard!Next, Proved!Next
<1>9. Guard!Init <=> Proved!Init
  BY DEF Guard!Init, Proved!Init, Guard!StatusInit, Proved!StatusInit
<1>10. /\ Guard!vars = Proved!vars
       /\ (Guard!vars = Proved!vars)'
  BY DEF Guard!vars, Proved!vars
<1>11. [Guard!Next]_(Guard!vars) => [Proved!Next]_(Proved!vars)
  <2>1. CASE Guard!Next
    BY <1>8, <2>1
  <2>2. CASE Guard!vars' = Guard!vars
    BY <1>10, <2>2
  <2>. QED
    BY <2>1, <2>2
<1>. QED
  BY <1>9, <1>11, PTL DEF Guard!Spec, Proved!Spec

\* The microphone of the whole client is never stuck on, its guard is sound and
\* its updates go on, whatever becomes of the sessions.
THEOREM ClientKeepsGuard ==
  ClientSpec => [](Guard!NoHotMic) /\ Guard!GuardSound /\ Guard!UpdatesGoOn
<1>1. ClientSpec => Proved!Spec
  BY ClientGuardsPtt, SameGuard, PTL DEF ImplementsGuard
<1>2. Proved!NoHotMic => Guard!NoHotMic
  BY DEF Proved!NoHotMic, Guard!NoHotMic
<1>3. (Guard!vars = Proved!vars) /\ (Guard!vars = Proved!vars)'
  BY DEF Guard!vars, Proved!vars, Guard!status, Proved!status, Guard!radioVars,
         Proved!radioVars, Guard!pttVars, Proved!pttVars
<1>4. ASSUME [~Proved!OnAir /\ Proved!OnAir' /\ server' # {}
                => server' = {nextFreq'}]_(Proved!vars)
      PROVE  [~Guard!OnAir /\ Guard!OnAir' /\ server' # {}
                => server' = {nextFreq'}]_(Guard!vars)
  BY <1>3, <1>4 DEF Proved!OnAir, Guard!OnAir
<1>5. ASSUME [updateTimer /\ Proved!Linked /\ Proved!Linked' => updateTimer']_(Proved!vars)
      PROVE  [updateTimer /\ Guard!Linked /\ Guard!Linked' => updateTimer']_(Guard!vars)
  BY <1>3, <1>5 DEF Proved!Linked, Guard!Linked
<1>6. Proved!GuardSound => Guard!GuardSound
  BY <1>4, PTL DEF Proved!GuardSound, Guard!GuardSound
<1>7. Proved!UpdatesGoOn => Guard!UpdatesGoOn
  BY <1>5, PTL DEF Proved!UpdatesGoOn, Guard!UpdatesGoOn
<1>8. Proved!Spec => []Proved!NoHotMic /\ Proved!GuardSound /\ Proved!UpdatesGoOn
  BY NoFreqAssumption, Proved!MicNeverStuck, Proved!GuardHolds, Proved!UpdatesNeverStop
<1>. QED
  BY <1>1, <1>2, <1>6, <1>7, <1>8, PTL
=============================================================================
