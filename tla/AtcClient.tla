----------------------------- MODULE AtcClient ------------------------------
(***************************************************************************)
(* The controllers' ATCClient between two threads.  The application calls  *)
(* setPtt and asks for the transceivers of stations under a mutex of the   *)
(* wrapper; the event loop runs the callbacks of the requests without it.  *)
(* mWantPtt, mPtt and the flag of the frequency to be linked are plain     *)
(* members that both use: every read and write of them is a step of its    *)
(* own.                                                                    *)
(*                                                                         *)
(* The requests are those of HttpRequest, the sessions those of            *)
(* ClientStatus.  Whether the transceivers of a station are already cached *)
(* is left open; if they are, linking needs no request and no flag.        *)
(***************************************************************************)
EXTENDS ClientStatus, HttpRequest

CONSTANTS
  Freqs,     \* the frequencies in use
  NoFreq,    \* -1
  Stations,  \* the stations a frequency can be linked to
  Update     \* the content of a transceiver update

ASSUME RequestsAssumption == Requests = {"update", "station"}
ASSUME AsksAssumption == Asks = Stations \cup {Update} /\ Update \notin Stations
ASSUME NoFreqAssumption == NoFreq \notin Freqs

VARIABLES
  wantPtt,   \* mWantPtt
  ptt,       \* mPtt
  mic,       \* ATCRadioSimulation::mPtt: audio frames go out
  pending,   \* mTxUpdatePending
  setting,   \* where the application is in setPtt
  guarding,  \* where the event loop is in the callback of the update
  raced,     \* auxiliary: a release overlapped unguardPtt, and setPtt has not
             \* assigned mPtt since
  flag,      \* linkNewTransceiversFrequencyFlag
  requesting,  \* the station that linkTransceivers has yet to request, at most one
  linking,   \* where the event loop is in stationTransceiversUpdateCallback
  link,      \* auxiliary: the link it has just made, as <<frequency, station>>
  awaited,   \* auxiliary: the link asked for last, until the flag is cleared
  muddled    \* auxiliary: that link was asked for while another was awaited or a
             \* request for a station was out or being answered; or a station was
             \* requested since, or its own request was dropped or failed

pttVars  == <<wantPtt, ptt, mic, pending, setting, guarding, raced>>
linkVars == <<flag, requesting, linking, link, awaited, muddled>>
vars     == <<status, httpVars, pttVars, linkVars>>

Linked == connected /\ voice

NoLink == <<>>

Init ==
  /\ StatusInit /\ HttpInit
  /\ wantPtt = FALSE /\ ptt = FALSE /\ mic = FALSE /\ pending = FALSE
  /\ setting = "no" /\ guarding = "no" /\ raced = FALSE
  /\ flag = NoFreq /\ requesting = {} /\ linking = "no"
  /\ link = NoLink /\ awaited = NoLink /\ muddled = FALSE

-----------------------------------------------------------------------------
\* ATCClient::setPtt, on a thread of the application, which holds the mutex.

PttUnchanged == UNCHANGED <<status, httpVars, linkVars, guarding, pending>>

\* Nobody holds the mutex of the wrapper.
Free == setting = "no" /\ requesting = {}

Unguarding == guarding \in {"open", "transmit"}

\* setPtt(true) writes mWantPtt, then looks at mTxUpdatePending.
pressPtt ==
  /\ Free
  /\ wantPtt' = TRUE
  /\ setting' = "pressed"
  /\ UNCHANGED <<ptt, mic, raced>>
  /\ PttUnchanged

guardPtt ==
  /\ setting = "pressed"
  /\ setting' = IF pending THEN "no" ELSE "compare"
  /\ UNCHANGED <<wantPtt, ptt, mic, raced>>
  /\ PttUnchanged

\* Fault: a release waits for the update as a press does.
releaseGuarded ==
  /\ Free
  /\ wantPtt' = FALSE
  /\ setting' = IF pending THEN "no" ELSE "compare"
  /\ raced' = (raced \/ Unguarding)
  /\ UNCHANGED <<ptt, mic>>
  /\ PttUnchanged

\* setPtt(false) writes mWantPtt.
releasePtt ==
  /\ Free
  /\ wantPtt' = FALSE
  /\ setting' = "compare"
  /\ raced' = (raced \/ Unguarding)
  /\ UNCHANGED <<ptt, mic>>
  /\ PttUnchanged

\* It returns if mPtt is as wanted, ...
comparePtt ==
  /\ setting = "compare"
  /\ setting' = IF wantPtt = ptt THEN "no" ELSE "assign"
  /\ UNCHANGED <<wantPtt, ptt, mic, raced>>
  /\ PttUnchanged

\* ... otherwise sets mPtt ...
assignPtt ==
  /\ setting = "assign"
  /\ ptt' = wantPtt
  /\ setting' = "transmit"
  /\ raced' = (raced /\ Unguarding)
  /\ UNCHANGED <<wantPtt, mic>>
  /\ PttUnchanged

\* ... and passes it, read again, to the radio simulation.
transmitPtt ==
  /\ setting = "transmit"
  /\ mic' = ptt
  /\ setting' = "no"
  /\ UNCHANGED <<wantPtt, ptt, raced>>
  /\ PttUnchanged

-----------------------------------------------------------------------------
\* The transceiver update, on the event loop.

Idle == notifying = {}

\* The part of sendTransceiverUpdate that matters here; the timer is left open.
sendTransceiverUpdate ==
  /\ Idle /\ Linked
  /\ pending' = TRUE
  /\ start("update", Update)
  /\ UNCHANGED <<status, notifying, linkVars, wantPtt, ptt, mic, setting, guarding, raced>>

\* The callback of the update; only an answer of 200 does anything.
updateAnswered(ok) ==
  /\ \E h \in finished : transfers[h] = "update" /\ notify(h)
  /\ IF ok THEN pending' = FALSE /\ guarding' = "test" ELSE UNCHANGED <<pending, guarding>>
  /\ UNCHANGED <<status, linkVars, wantPtt, ptt, mic, setting, raced>>

\* unguardPtt tests, sets mPtt and passes TRUE on to the radio simulation.
testGuard ==
  /\ guarding = "test"
  /\ guarding' = IF wantPtt /\ ~ptt THEN "open" ELSE "no"
  /\ UNCHANGED <<wantPtt, ptt, mic, pending, setting, raced>>
  /\ UNCHANGED <<status, httpVars, linkVars>>

openPtt ==
  /\ guarding = "open"
  /\ ptt' = TRUE
  /\ guarding' = "transmit"
  /\ UNCHANGED <<wantPtt, mic, pending, setting, raced>>
  /\ UNCHANGED <<status, httpVars, linkVars>>

transmitUnguarded ==
  /\ guarding = "transmit"
  /\ mic' = TRUE
  /\ guarding' = "no"
  /\ UNCHANGED <<wantPtt, ptt, pending, setting, raced>>
  /\ UNCHANGED <<status, httpVars, linkVars>>

updateReturns ==
  /\ \E c \in notifying : c[1] = "update"
  /\ guarding = "no"
  /\ notifying' = {}
  /\ UNCHANGED <<status, handle, managed, transfers, multi, finished, asked, pttVars, linkVars>>

-----------------------------------------------------------------------------
\* Linking a frequency to the transceivers of a station.

\* APISession::requestStationTransceivers; dropped unless the session runs,
\* which it does not either while it renews its token.
requestAccepted(s) == connected /\ start("station", s)

requestDropped == UNCHANGED <<handle, managed, transfers, multi, finished, asked>>

\* The callback of an earlier request is not through and will reset this one.
AboutToReset == \E c \in notifying : c[1] = "station"

\* A request for a station is out, or its callback is not through.
StationBusy == asking["station"] # NoAsk \/ AboutToReset

\* linkTransceivers(s, f) of a station that is not cached, by the application
\* or by its handler of an event: first the flag is written, ...
linkTransceivers(s, f) ==
  /\ Free
  /\ flag' = f
  /\ requesting' = {s}
  /\ awaited' = <<f, s>>
  /\ muddled' = (muddled \/ awaited # NoLink \/ StationBusy)
  /\ UNCHANGED <<status, httpVars, pttVars, linking, link>>

\* ... and then the station is requested.
requestLinked ==
  /\ \E s \in requesting :
       \/ requestAccepted(s) /\ UNCHANGED muddled
       \/ requestDropped /\ muddled' = (muddled \/ awaited # NoLink)
  /\ requesting' = {}
  /\ UNCHANGED <<status, notifying, pttVars, flag, linking, link, awaited>>

\* The application asks for the transceivers of a station without linking.
requestStationTransceivers(s) ==
  /\ Free
  /\ requestAccepted(s)
  /\ muddled' = (muddled \/ awaited # NoLink)
  /\ UNCHANGED <<status, notifying, pttVars, flag, requesting, linking, link, awaited>>

\* _stationTransceiversCallback for an answer of 200 with a list calls
\* stationTransceiversUpdateCallback.
stationAnswered ==
  /\ \E h \in finished : transfers[h] = "station" /\ notify(h)
  /\ linking' = "test"
  /\ UNCHANGED <<status, pttVars, flag, requesting, link, awaited, muddled>>

\* That looks at the flag.  Without it the new transceivers go to the radio of
\* the station; with it there is something to link unless the list is empty.
testFlag(empty) ==
  /\ linking = "test"
  /\ linking' = IF flag = NoFreq THEN "no" ELSE IF empty THEN "clear" ELSE "link"
  /\ UNCHANGED <<status, httpVars, pttVars, flag, requesting, link, awaited, muddled>>

\* The link is made to the frequency that the flag, read again, holds by now.
linkStation ==
  /\ linking = "link"
  /\ link' \in {<<flag, c[2]>> : c \in notifying}
  /\ linking' = "clear"
  /\ UNCHANGED <<status, httpVars, pttVars, flag, requesting, awaited, muddled>>

\* Fault: the flag survives the answer.
flagAfterAnswer == flag

\* What stationTransceiversUpdateCallback leaves in the flag.
flagAfterLink == NoFreq

clearFlag ==
  /\ linking = "clear"
  /\ flag' = flagAfterLink
  /\ linking' = "no"
  /\ link' = NoLink /\ awaited' = NoLink /\ muddled' = FALSE
  /\ UNCHANGED <<status, httpVars, pttVars, requesting>>

\* Any other answer leaves the flag.
stationFailed ==
  /\ \E h \in finished : transfers[h] = "station" /\ notify(h)
  /\ muddled' = (muddled \/ awaited # NoLink)
  /\ UNCHANGED <<status, pttVars, flag, requesting, linking, link, awaited>>

\* The callback ends with a reset of the request.
stationReturns ==
  /\ \E c \in notifying : c[1] = "station"
  /\ linking = "no"
  /\ resetRequest("station")
  /\ notifying' = {}
  /\ UNCHANGED <<status, pttVars, linkVars>>

-----------------------------------------------------------------------------
\* The sessions: they begin on the event loop and end on any thread.  The end
\* of the voice session resets the radio simulation and nothing else here.

apiChanged ==
  /\ (Idle /\ APIUp) \/ APIDown
  /\ UNCHANGED <<httpVars, pttVars, linkVars>>

voiceConnected ==
  /\ Idle /\ VoiceUp
  /\ UNCHANGED <<httpVars, pttVars, linkVars>>

voiceEnded ==
  /\ VoiceDown
  /\ mic' = FALSE
  /\ UNCHANGED <<wantPtt, ptt, pending, setting, guarding, raced, httpVars, linkVars>>

-----------------------------------------------------------------------------
Application ==
  \/ pressPtt \/ guardPtt \/ releasePtt \/ comparePtt \/ assignPtt \/ transmitPtt
  \/ requestLinked
  \/ \E s \in Stations : requestStationTransceivers(s)
                         \/ \E f \in Freqs : linkTransceivers(s, f)

EventLoop ==
  \/ sendTransceiverUpdate
  \/ \E ok \in BOOLEAN : updateAnswered(ok)
  \/ testGuard \/ openPtt \/ transmitUnguarded \/ updateReturns
  \/ stationAnswered
  \/ \E empty \in BOOLEAN : testFlag(empty)
  \/ linkStation \/ clearFlag \/ stationFailed \/ stationReturns

Curl == transferDone /\ UNCHANGED <<status, pttVars, linkVars>>

Next == Application \/ EventLoop \/ Curl \/ apiChanged \/ voiceConnected \/ voiceEnded

Spec == Init /\ [][Next]_vars

-----------------------------------------------------------------------------
TypeOK ==
  /\ HttpTypeOK
  /\ setting \in {"no", "pressed", "compare", "assign", "transmit"}
  /\ guarding \in {"no", "test", "open", "transmit"}
  /\ guarding # "no" => notifying = {<<"update", Update>>}
  /\ flag \in Freqs \cup {NoFreq}
  /\ requesting \subseteq Stations /\ \A s, t \in requesting : s = t
  /\ linking \in {"no", "test", "link", "clear"}
  /\ linking # "no" => \E s \in Stations : notifying = {<<"station", s>>}
  /\ linking \in {"link", "clear"} => flag # NoFreq
  /\ {link, awaited} \subseteq (Freqs \X Stations) \cup {NoLink}
  /\ \A b \in {connected, voice, wantPtt, ptt, mic, pending, raced, muddled} : b \in BOOLEAN

\* Once setPtt(false) has returned the microphone is off and the client has it
\* down as closed, whatever update was acknowledged around it; the exception is
\* a release in the middle of unguardPtt, and that lasts only until setPtt next
\* gets to assign mPtt.
MicFollowsRelease ==
  setting = "no" /\ ~Unguarding /\ ~wantPtt /\ ~raced => ~ptt /\ ~mic

\* A frequency is linked to the station the application asked for, wherever its
\* calls fall between the steps of the event loop, as long as it asks for one
\* thing at a time - with no request for a station out or being answered - and
\* the request is answered.  The flag alone does not promise more: an answer
\* that overlaps a later request is linked to the wrong frequency, or takes the
\* flag with it.
LinksAsAsked == [][link' \notin {link, NoLink} => muddled \/ link' = awaited]_vars
=============================================================================
