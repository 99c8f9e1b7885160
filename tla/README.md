# TLA+ models of afv-native

afv-native is the voice client library of the VATSIM network. An application (a
pilot's simulator plug-in or a controller's radar client) connects to an HTTP API
server, is given a UDP voice channel by it, and sends and receives compressed audio
on the radio frequencies it tunes. This directory holds TLA+ models of the library's
control logic, TLC configurations that check them on small instances, and theorems
about them checked by TLAPS. Paths below are relative to the root of the repository.

    tlc -config WindowLoop.cfg WindowLoop             # model-check one run
    tlc -config AtcRadio.cfg AtcRadio
    tlapm ClientSession_proofs.tla                    # check the proofs of a module

PROJECT.json lists the components, the runs, the lines of source each definition
stands for, the hazards, the findings and the theorems.

## 1. The system

### Threads

| thread | what runs on it |
|---|---|
| event loop (libevent) | completions of HTTP requests, timers, and the state callbacks they lead to; in the wrapper (`src/atcClientWrapper.cpp`) a thread of its own that does not take `afvMutex` |
| application | calls of the public interface; in the pilots' `Client` normally the event-loop thread, in `ATCClient` any thread that holds the wrapper's `afvMutex` |
| reactor (Poco) | `UDPChannel::readCallback`: every received datagram, up to the radio simulation |
| audio | `getAudioFrame` and `putAudioFrame` of the devices: mixing, and `sendDto` for outgoing voice |

`evthread_use_pthreads` is never called, so libevent itself does not lock.

### Components

| component | state it keeps | operations | what is hard, and what makes it correct |
|---|---|---|---|
| `SequenceTest` | `_min`, `_bitfield` | `Received`, `reset` | loss, reordering and repetition at the edges of the window: never refuse what is new, never accept what is old |
| `Channel`, `UDPChannel` | keys, `mTxSequence`, the window, the socket | `open`, `close`, `setChannelConfig`, `sendDto`, `readCallback` | the audio thread, the event loop and the reactor share it: no sequence number twice under one key, no datagram of an old session heard |
| `APISession` | `mState`, bearer token, refresh timer, one request object per query | `Connect`, `Disconnect`, `setUsername`, the queries, `raiseError` | failures and renewals in any order leave no state waiting for an answer that is not coming |
| `VoiceSession` | channel, heartbeat timer and timeout, set-up and update requests, last error | `Connect`, `Disconnect`, `setupSession`, `failSession`, `postTransceiverUpdate` | tear-down from inside callbacks, heartbeats from another thread: a live session is watched, a dead one silent |
| `Client` | radio states, PTT wishes, the transceiver timer | `connect`, `disconnect`, `setRadioState`, `setPtt`, the callbacks | the PTT must wait for the server to know the frequency, across failed updates and new sessions |
| `ATCClient` | the same for controllers, the frequency waiting to be linked | the same, `linkTransceivers`, `fetchStationVccs` | called from application threads while callbacks run on the event loop: a released PTT must stay off, a frequency must get the transceivers it was linked to |
| `RadioSimulation`, `ATCRadioSimulation` | radios, incoming streams, transceivers, events | `rxVoicePacket`, `putAudioFrame`, `getAudioFrame`, `setFrequency`, `addFrequency`, the timers | a stream's begin and end events must pair; a transceiver identity must name one frequency |
| `RemoteVoiceSource`, `VoiceCompressionSink` | jitter buffer, codec state | `appendAudioDTO`, `getAudioFrame`, `putAudioFrame` | packets late and out of order |
| `ATISClient` | cached frames and playback position | `startAudio`, `sendCachedFrame`, recording | replay while recording |
| `Request`, `TransferManager` | a curl handle per request, the set of pending transfers | `doAsync`, `reset`, `process` | a request reset or repeated from its own callback |
| `ChainedCallback` | a map of owner to callback | `addCallback`, `removeCallback`, `invokeAll` | removal during the walk |
| timers | one libevent event | `enable`, `disable` | a timer that fires for a session that ended |
| frame adjusters, sources, mixers | partial frames | `putAudioFrame`, `getAudioFrame` | no sample lost or repeated |
| devices, signal processing, data transfer objects, wrappers, logging | – | – | input and output, floating-point arithmetic, encoding, forwarding |

### How they interact

`Client::connect` starts `APISession::Connect`. Its answer sets the state Running;
`Client::sessionStateCallback` then starts `VoiceSession::Connect`, whose answer opens
the channel, hooks the voice session into the API session's callback chain and reports
Connected to `Client::voiceStateCallback`, which queues the first transceiver update.
A failure anywhere runs the chain the other way: `failSession` closes the channel and
calls the client, which stops the update timer, resets the radio simulation and
disconnects the API session. Only a lost heartbeat authenticates anew by itself. The
PTT is opened by `setPtt` when the frequencies are in step with the server, and by the
acknowledgement of an update (`unguardPtt`) when they were not.

`ATCClient` joins the same two sessions in the same way, but is called from the
application's threads. Its `sendTransceiverUpdate` makes `ATCRadioSimulation` number the
transceivers of all receiving radios, posts them, and then posts the cross-coupling
groups, which name transceivers by these numbers; so does every frame of outgoing voice.
Linking a frequency to a station asks the API session for the station's transceivers; the
answer comes back through a callback chain to `ATCClient`, which finds the frequency in a
flag, hands the list to the radio simulation and queues an update. Incoming voice goes from
the channel through `rxVoicePacket` into one set of streams per output device; the devices'
threads pull frames out of them and report when a frequency begins and ends to be busy.

## 2. Modules

| module | models | built on |
|---|---|---|
| `SequenceTest` | the receive window | – |
| `SequenceTest_proofs` | theorems | `SequenceTest` |
| `WindowLoop` | the loop of `Received` as written, one `advanceWindow` at a time; it implements `SequenceTest` | `SequenceTest` |
| `WindowLoop_proofs` | theorems, among them that it does | `WindowLoop`, `SequenceTest_proofs` |
| `ClientSession` | `APISession`, `VoiceSession` and the `Client` callbacks that join them | – |
| `ClientStatus` | abstract: what the sessions promise to whoever only asks `isAPIConnected()` and `isVoiceConnected()` | – |
| `PttGuard` | radio states, push-to-talk and transceiver updates of `Client` | `ClientStatus` |
| `PttGuard_proofs` | theorems | `PttGuard` |
| `PilotClient` | `Client` as a whole: the sessions and the PTT, and the transceiver timer they share | `ClientSession`, `PttGuard` (instance) |
| `ClientSession_proofs` | theorems on the sessions, among them that they implement `ClientStatus`, and on the whole client, among them that it implements `ClientSession` and `PttGuard` | `PilotClient`, `PttGuard_proofs` (instance) |
| `UdpChannel` | `Channel` and `UDPChannel`: keys, transmit sequence, reception | `SequenceTest` (instance) |
| `UdpChannel_proofs` | theorems | `UdpChannel`, `SequenceTest_proofs` (instance) |
| `AtcRadio` | tuning, identities and cross-coupling of the controllers' radios, and their updates | `ClientStatus` |
| `AtcRadio_proofs` | theorems | `AtcRadio` |
| `HttpRequest` | request objects, curl's handles and the transfer manager | – |
| `RequestFlag` | abstract: what a request object promises to whoever posts it | – |
| `AtcClient` | push-to-talk and linking of `ATCClient`, between the application's threads and the event loop | `ClientStatus`, `HttpRequest` |
| `AtcClient_proofs` | theorems, among them that its requests implement `RequestFlag` | `AtcClient` |
| `RxEvents` | incoming streams, audio frames and the receive events of a frequency | – |
| `RxEvents_proofs` | theorems | `RxEvents` |

Two kinds of composition. The pilots' client is put together in `PilotClient`, where each
step of `ClientSession` is joined with what the callback does to the state of `PttGuard`.
The controllers' is composed by refinement. `ClientSession` implements `ClientStatus` (its
variables `connected` and `voice` are `isAPIConnected` and `channel`), and `PttGuard`,
`AtcRadio` and `AtcClient` take their session steps from `ClientStatus` instead of
repeating the sessions. That this is sound is checked and proved for `PttGuard`, which
`PilotClient` implements with the real sessions below it; `ATCClient` has the same session
callbacks as `Client`. In the same way a
request is a single flag in `ClientSession`, `PttGuard` and `AtcRadio`: posting sets it,
`reset()` clears it, and the callback runs at most once while it is set. That is what
`RequestFlag` says, and `AtcClient`, which has the real handles, implements it.

Operators whose comment begins with "Fault:" are deliberately wrong variants of the
definition that follows them (a guard dropped, a reset left out, an edge off by one).
No specification uses them; put in place of the definition, each makes the property
named with it in PROJECT.json fail, which shows that the property notices.

### SequenceTest

`bitfield` is the set of bit numbers that are 1, so `>>` subtracts. `Received` is one
action per branch: the number at `_min` (`ReceiveMin`), inside the window
(`ReceiveInWindow`), beyond it where `advanceWindow` stops on a zero bit that brings it
inside (`ReceiveSlide`), beyond it by more (`ReceiveJump`), or old (`ReceiveBefore`).
The loop over `advanceWindow` is given in closed form (`Stops`, `SlidesBy`). The auxiliary
`times` counts the acceptances of each number. `reset` is what `UDPChannel` calls on `close`
and on a new key.

### WindowLoop

The branch for a number beyond the window, as the code writes it: `beginLoop` keeps `_min` as
`oldmin`, `iterate` is one round (`GoesOn` is the loop's condition together with its `break`),
and after the loop the code either restarts the stream (`restart`) or sets the number's bit
(`mark`). While the loop runs, the record in `loop` is `_min` and `_bitfield` and the variable
`min` is `oldmin`, so that to `SequenceTest` nothing has happened until the loop is over. That
is the refinement `LoopAgrees`: with `loop` hidden, every behaviour is one of `SequenceTest`.
`UdpChannel` uses the closed form.

### ClientSession

Every variable is a member of a class, a timer being a flag that is set while it is
pending and a request a flag that is set while it is in flight. One action is one
entry from the event loop or the application with everything that runs before
control returns, the callback chain included. `VoiceDown(e)` is `failSession` plus
what `voiceStateCallback` does; `APIDown` is `APISession::Disconnect`. The reactor
thread enters at one point: a heartbeat it is handling while `failSession` runs can
arm the timeout between its `disable()` and the channel's `close()`; closing waits for
a running callback, so nothing arrives afterwards.

Auxiliary variables: `awaiting` (an attempt to connect has no outcome yet), `wanted`
(the last call was `connect`), `selfErase` (a callback was erased from the map being
walked).

### PttGuard

`nextFreq` and `currentFreq` are the two fields of each radio's state. `setPtt` is three
actions: `guardPtt` (out of step or an update pending), `openPtt`, `closePtt`. One request
object carries every update, so posting one cancels the one in flight, whose answer is
then never seen; the end of a session cancels none, so an answer may arrive in a later
session (`live` tells). The auxiliary `server` is the set of tunings the server may
have for this voice session: the last one it acknowledged and those posted since.

### PilotClient

`ClientSession` and `PttGuard` on one set of variables: `connected` is `isAPIConnected`,
`voice` is `channel`, and the `timer` of one and the `updateTimer` of the other are the same
member. The actions are those of `voiceStateCallback`: `voiceConnected` joins `setupSession`
with the start of a session as the PTT sees it, `voiceEnded` joins each of the five ends of a
session with the reset of the radio simulation. `sessionStep` is any other step of the
sessions, `pttStep` any step of the pilot or of an update. A step of the PTT says only what
becomes of the sessions' other variables, and a step of the sessions says nothing of what
`PttGuard` would allow, so neither refinement holds by construction: were the update timer
left armed, or the microphone on, at the end of a session, one of them would fail.

### UdpChannel

Three kinds of process. The event loop: `close`, `setChannelConfig` (with the `close` that
`setupSession` calls before it), `open`. Any number of senders, each running `sendDto` step
by step: `checkOpen` (the caller's `isOpen()`), `takeSequence` (the atomic fetch-and-add),
`addHeader` (reads the tag), `encrypt` (reads the key), `sendBytes`. The reactor: `readCallback`, one
step, since removing the socket waits for it. The receive window is an instance of
`SequenceTest` on the same variables. Keys and tag of a voice session stand for its number;
while the event loop copies them a reader may get the old, the new or a torn value
(`ConfigRead`). The auxiliary `sealed` counts encryptions per key and number, `heard` the
datagrams of every session that reached a handler, and `current` in a sender's frame says
that the channel has not closed since its `isOpen()`.

### AtcRadio

`radios` is `mRadioState`, a function on the active frequencies, so a lookup with
`operator[]` of an inactive frequency extends its domain (`touch`). A setter has the effect
of the whole handler, the queued update included. `numberTransceivers` and `Transceivers`
are the two things `makeTransceiverDto` does: it walks the receiving radios in the order of
their frequencies and numbers their transceivers from 0, in the radios and in what it posts.
The order of `std::map` makes that a sum over the lower frequencies (`FirstId`). An update
is two steps, `sendTransceiverUpdate` up to the post of the transceivers and
`postCrossCoupleGroups`, because the application may tune in between: it holds only the lock
of `mRadioState`, and that only within one setter. The walk that makes the groups takes no
lock at all, so it may see a setter's change to one radio and miss that to another: `retuned`
remembers for which frequencies `tx`, `xc` or `crossCoupleAcross` was set since the first
post, and the groups are `CrossCoupleGroups(seen)` for any `seen` in `Sights`, in which those
flags are arbitrary. The auxiliary `posted` is the last list of this voice session, `acked`
that the server has it, and `dirty` the frequencies whose transceivers have changed since.

`Sent` is what `processCompressedFrame` names: the identities of every radio with `tx`, whether
it receives or not. `makeTransceiverDto` passes over a radio that does not receive, so one with
`tx` on and `rx` off keeps the identities of some earlier update and transmits under them, on
whatever frequency they stand for by now; so does a radio that was relinked after the update.
These are the `Stale` radios. The code promises nothing better for them, and `OnAirAsTuned`
says no more than that they are the only cause: every other transmitting radio is on the air
on its own frequency, and a frequency that is on the air without its `tx` being set is named by a
stale radio.

### HttpRequest and RequestFlag

`handle` is `mCurlHandle` of each object; `multi`, `transfers` and `finished` are what curl
and the `TransferManager` know. curl may hand out a handle again as soon as it was given
back, so `start` takes any handle that no other object holds, the one just returned
included. `notify` forgets the transfer before it calls the object, as
`processPendingMultiEvents` does, so the callback may start the object again. The
refinement mapping sees an object as waiting for what the transfer on its handle asks.

### AtcClient

`setPtt` takes up to five steps and `unguardPtt` three, since one runs on a thread of the
application and the other on the event loop and they share plain members. `setting` and
`guarding` are the places of the two. Each of the members is `bool` or `int`, so a read gives
the value before or after a write. `flag` is the one `linkNewTransceiversFrequencyFlag` for
all requests. `linkTransceivers` writes it in one step and requests the station in the next
(`requestLinked`; `requesting` holds the station meanwhile). The answer to any request for a
station (`stationAnswered`) reads the flag (`testFlag`), reads it again for the frequency to
link (`linkStation`), and clears it (`clearFlag`), with `linking` the place in between, so the
application may write the flag before, between or after these.
Auxiliary: `raced`, a release overlapped `unguardPtt`; `awaited`, the link the application
asked for last; `link`, the link the answer being handled has made; `muddled`, the link was asked
for while another was awaited or a request for a station was out or being answered, a station
was requested since, or its own request was dropped or failed.

### RxEvents

Each device has its own sources for a callsign. `left` bounds the frames a source can
still yield: a packet sets it to `Patience`, every frame lowers it by one or more, and at 0
the source is closed, so when a source runs dry is left open. `getAudioFrame(d)` is
`_process_radio` for all radios of device d after all sources have been asked; it holds both locks and is one step, as is
every setter. `rxVoicePacket` takes one lock after the other and is two steps, on the reactor's
thread; the maintenance timers are on the event loop and may come between them. The auxiliary
`lit` holds the frequencies whose last event was `FrequencyRxBegin`, `forgotten` those of
them whose radio was replaced or reset, which sends no event.

## 3. Runs

| run | instance | asks |
|---|---|---|
| `receive_window` | window 4, numbers 0..12, any order | types; a set bit is an accepted number; an accepted number is remembered; at most two acceptances; the newest number is heard; the loop implements the closed form; only numbers a window behind are given up |
| `receive_window_duplicate` | window 3, numbers 0..8 | violated: a number inside the window is accepted once |
| `client_session` | the whole pilots' client, 2 radios, 2 frequencies | requests, timers, token, hook and events agree with the state after every history; the attempts end; `ClientStatus`, `ClientSession` and `PttGuard` are implemented |
| `disconnect_final` | the sessions alone, complete | violated: no voice session after `disconnect()` |
| `timeout_dies` | the same | violated: no heartbeat timeout without a session |
| `removal_safe` | the same | violated: no callback is erased from the chain that is calling it |
| `ptt_guard` | 2 radios, 2 frequencies | no stuck microphone; updates go on; the guard is sound within an acknowledged session; a guarded PTT opens and stays open |
| `ptt_transmits` | the same | violated: an open PTT in a live session has the microphone live |
| `udp_channel` | 2 senders, 2 sessions, numbers 0..1 out, window 2 and numbers 0..3 in | no nonce twice; frames whole; the window counts its own session; at most two deliveries over all sessions; the newest is heard |
| `atc_radio` | 2 frequencies, stations of 1 or 2 transceivers | in an acknowledged client a receiving radio transmits on its own frequency, and only radios with stale identities on another; the groups couple what the controller coupled, whatever the walk saw of radios being retuned; updates go on |
| `atc_client` | 2 handles for 2 request objects, 2 stations, 2 frequencies | a release has the microphone off; a frequency gets the station it was linked to, one link at a time; request objects keep the promise of `RequestFlag` |
| `rx_events` | 2 frequencies, 1 pilot, `Patience` 2 | a busy frequency has audio behind it; when nobody speaks every indication ends |

**Bounds.** A window of 4 with 13 numbers lets a stream fill the window, slide by part
of it, jump over it and fill it again, three windows long; the transitions of the
window depend only on differences of numbers, and the proofs cover every window up to
31. `ClientSession` has no bound: its state space is finite and TLC visits all of it, in
`client_session` together with the PTT. In `PttGuard` two radios are the fewest in which one is in step and the other not, and
two frequencies (0 and one more) the fewest that can differ; the proofs cover every
set of either. `UdpChannel` needs two senders to race, two sessions for anything to be
left over from the first, two numbers for the senders to hold at once, and a window of 2
with four numbers for the window to slide, jump and repeat.
`AtcRadio` needs two frequencies, one of them with a number of transceivers that can grow
and shrink, for the numbers of the other to move; `ListLengths` bounds the transceivers of a
station. `AtcClient` has as many handles as objects, the fewest, so that handles are reused
as often as can be, and two stations and two frequencies for a link to go wrong in either
part. `RxEvents` has two frequencies for a stream to be heard on one, both or none,
a pilot who can be heard on both, and a `Patience` of 2, so that a source can stop
before, at or after the next frame. Its state space with two pilots is too large to be
checked with liveness; the safety part is proved for any number.

**Fairness.** Fairness is stated without `ENABLED` in `ClientSession` and `PttGuard`, so that
the same formula serves TLC and the proofs: instead of "enabled" it says when the action can
be taken, which is `authReq` for `AuthCompletes`, `setupReq` for `SetupCompletes` and
`update # {}` for `updateAcknowledged`, the guards of their disjuncts. For the timer of
`PttGuard` it asks less than weak fairness does, only that the timer fires while no request
is in flight. In `ClientSession`, and so in `PilotClient`: libcurl reports the end of every transfer, so a request
in flight completes, well or badly; nothing is assumed of timers, answers or the
application. In `PttGuard`: the event loop fires a pending timer, and a server that is
asked again and again acknowledges in the end (strong fairness, since an update may
fail and be posted again). In `RxEvents`: each of the two output devices goes on asking for
a frame, which the audio library does every 20 ms. `AtcRadio` and `AtcClient` state safety
only. The code sets no timeout on a transfer, so "completes" rests
on the transport noticing a lost peer.

## 4. What the violated runs show

* `receive_window_duplicate`: `advanceWindow` moves by at most the window. When every
  number of the window has been received it stops on a number that was received too,
  and that number is accepted again: in a window of 3, after 1, 2, 3 and 0, number 3
  is. `AtMostTwice`, which is proved, bounds the damage to one repetition.
* `disconnect_final`: without a voice session `Client::disconnect` only ends the API
  session. The set-up request of the voice session stays in flight and its answer opens
  the session.
* `timeout_dies`: the race described under ClientSession. The timeout fires later,
  reports an error and authenticates anew, though the application had disconnected.
* `removal_safe`: a token refresh that fails during a voice session calls `raiseError`,
  which walks the callback chain; `VoiceSession`'s entry fails the session, and that
  removes the entry from the map being walked.
* `ptt_transmits`: the end of a session clears the radio simulation's PTT and not the
  client's. `setPtt(true)` then finds nothing to change until the PTT is released once.

## 5. Theorems

All hold for every value of the constants under the assumptions named in the modules:
`WindowAssumption` (1 to 31), `MaxSeqAssumption`, `MaxSessionAssumption`, `MaxTxAssumption`
(natural numbers), `FreqsAssumption` (finitely many frequencies; in `AtcRadio` positive
numbers, since their order matters), `ListAssumption` (a station has at least one
transceiver), `HandlesAssumption`, `NoFreqAssumption` and `AsksAssumption` (what stands for
"none" is not one of the values), `RequestsAssumption` (the two request objects of
`AtcClient`) and `PatienceAssumption` (a packet can give a frame).

| module | theorem | states |
|---|---|---|
| `SequenceTest_proofs` | `TypeCorrect`, `NothingForgotten`, `BitsHonest`, `DuplicateBound`, `NewestHeard` | the invariants of `receive_window` |
| | `RecentIsKept` | `Spec => GivesUpOnlyOld`, the action property |
| `WindowLoop_proofs` | `LoopImplements`, `LoopKeepsWindow` | `LoopSpec => LoopAgrees`: the loop implements `SequenceTest`, and so has all of the above |
| `ClientSession_proofs` | `SessionInvariant`, `NeverStuckConnecting`, `TokenFollowsState`, `AlwaysRenewed`, `LoggedInForVoice`, `VoiceIsWatched`, `VoiceEventsTrue`, `TypeCorrect` | the invariants of `client_session` |
| | `SessionsImplementStatus` | `Spec => ImplementsStatus`: every step of the sessions is a step or a stutter of `ClientStatus` |
| | `EveryAttemptEnds` | `FairSpec => AttemptsEnd`, liveness |
| | `ClientRunsSessions`, `ClientGuardsPtt` | `ClientSpec => ImplementsSessions` and `ClientSpec => ImplementsGuard`: the whole client implements both its parts |
| | `ClientAttemptsEnd` | `FairClientSpec => AttemptsEnd`, liveness |
| | `ClientKeepsGuard` | the safety properties of `PttGuard`, of the whole client |
| `UdpChannel_proofs` | `NoncesUnique`, `FramesAreWhole`, `WindowIsOwn`, `DuplicatesBounded`, `NewestOfSessionHeard`, `TypeCorrect` | the invariants of `udp_channel` |
| `PttGuard_proofs` | `MicNeverStuck`, `GuardHolds`, `UpdatesNeverStop`, `TypeCorrect` | the safety properties of `ptt_guard` |
| | `GuardedPttOpens` | `FairSpec => GuardOpens`, liveness |
| `AtcRadio_proofs` | `RadioInvariant`, `TypeCorrect`, `AirFollowsTuning`, `CouplingIsExact`, `UpdatesNeverStop` | the properties of `atc_radio` |
| `AtcClient_proofs` | `ClientInvariant`, `TypeCorrect`, `ReleasedIsOff`, `LinkedAsAsked` | the properties of `atc_client` |
| | `RequestsKeepPromise` | `Spec => RequestsAreFlags`: every step of the requests is a step or a stutter of `RequestFlag` |
| `RxEvents_proofs` | `RxInvariant`, `TypeCorrect`, `NoPhantomSpeaker` | the safety properties of `rx_events` |
| | `SilenceEndsIndications` | liveness: when the streams are dry and nobody speaks, every indication ends |

*SequenceTest.* No invariant is inductive by itself. That a number is not accepted a
third time needs to know that any number other than `min` seen already is covered,
that bits stand for seen numbers, and that nothing at or above `min` has been
accepted twice; the inductive invariant is the conjunction. The moves of the window
enter through lemmas on `AdvancesBy` and `ShiftRight`, which say where each
number is found after a shift. `RecentIsKept` needs no more than the types: a slide stops at
the first place that will do (`SlidesBy`), so it never passes a number that is still missing
and less than a window behind.

*WindowLoop.* `LoopInv` says of a round what the rounds before it established: the bit field
is the old one shifted by the whole distance so far (`ShiftTwice`), the distance ends at a zero
bit of the old field, and no zero bit on the way would have brought the number inside, because
the loop would have stopped there. When the loop breaks inside the old window, the distance
is therefore the least member of `Stops`, which is `ReceiveSlide`; when it has passed the
window, `Stops` is empty, which is `ReceiveJump`. The rounds need no induction over data:
each is a step, and the invariant is kept by every step.

*ClientSession.* The invariant ties each flag to the API state or to the channel. A
single part is not inductive: `NoLimbo` needs that an authentication in flight with the
session Running cannot occur (`AuthInFlight`), `VoiceWatched` that the heartbeat timer and
the hook change with the channel. The step case goes through the actions one by one. The refinement follows from the same invariant:
`APIDown` alone is only ever taken without a channel because the hook is set with it.
`EveryAttemptEnds` adds that an attempt without an outcome has a request in flight
(`Awaited`). Suppose one never ended. A set-up request can then be taken back only by the
heartbeat timeout that the last session left behind, and without a channel nothing arms
that again, so it comes at most once. After it a set-up request in flight would stay there
for ever, and requests complete; so there is none, the authentication is in flight, and its
answer either ends the attempt or posts the set-up. The timers need no fairness.

*PilotClient.* `ClientRunsSessions` is short: the PTT leaves the shared timer alone or sets it
as `queueTransceiverUpdate` and `sendTransceiverUpdate` of the sessions do (`PttStepTimer`), so
its steps are theirs or stutters. With that the invariant of the sessions holds of the whole
client, and `ClientGuardsPtt` needs it in one place: `PttGuard` knows no step in which the API
session goes down and a voice session stays up. `disconnectAPI` is guarded against that, but
a refused token (`authFailed`) is not, and only the hook, which a live session always has
(`VoiceWatched`), turns it into the end of both (`ChangeOfAPI`). The rest is that every way a session
ends leaves it as `voiceEnded` of `PttGuard` does (`EndOfVoice`). `ClientKeepsGuard` then takes the
theorems of `PttGuard_proofs` over through an instance.

*PttGuard.* `GuardHolds` needs that outside a pending update the acknowledged tuning is the
one the client believes in (`currentFreq`), that an update in flight belongs to the
tunings the server may have, and that a pending flag is set whenever the server may
have more than one; these are the parts of `IInv`. `GuardedPttOpens` turns on whether the update
in flight is `Fresh`, that is, carries what is tuned by now. Suppose the PTT never opened
though the pilot keeps pressing and has stopped tuning. A fresh update stays fresh, also when
the timer posts another, and its acknowledgement would open the PTT, so it is never
acknowledged; the acknowledgement of a stale one leaves nothing in flight. So the answers
cease, by strong fairness the requests do too, and then the timer, which is armed, posts one.
The property asks for `<>[]ptt`, so that a PTT that was open once and is guarded again counts as
closed: from the point on at which the pilot keeps pressing and both sessions last, an open PTT
stays open (`OpenStays`), and the argument above starts from that point.

*UdpChannel.* Three invariants. A number some sender holds is below `mTxSequence`, held by no
other and not yet encrypted with under any key, so it does not matter which key the sender
then reads. A sender marked current implies an open channel, whose keys do not change. And
the window satisfies the invariant of `SequenceTest_proofs` (its lemmas are used through an
instance) while its counts are those of this session. That `mTxSequence` is never reset is
what the first rests on: restarting it with a session lets a sender that is late from the
session before use its number a second time under the new key.

*AtcRadio.* The identities of a frequency are a block of numbers that begins with the count
of all transceivers before it (`Before`). The lemmas on the numbering show that the blocks
of two receiving frequencies do not meet, and that what is posted for a frequency is what its
radio then holds. The invariant keeps that true of the frequencies that are not `dirty`
(`ToldAsTuned`), that an identity posted stands for one frequency (`IdentitiesUnique`), and
that what was sent in this voice session is pending or acknowledged and no answer to an
update of an earlier one can be taken for its own (`SentIsTracked`). `AirFollowsTuning` takes
from them that a radio neither `dirty` nor deaf transmits what the server was told of it, and
that an identity which reaches another frequency cannot be such a radio's (`AirIsExplained`).
`CouplingIsExact` follows because groups are unions of blocks, and blocks that share a number are
the same; every sight agrees with the radios on identities and on `rx`, and on all flags of the
radios not retuned (`SightsSee`), and that is all `GroupsExact` needs of it.

*AtcClient.* Three parts. `HttpTypeOK` ties handles, transfers and the manager to each other;
with `AsksFit`, that each object only asks what is its own, every step of the requests maps to
one of `RequestFlag`. `PttInv` goes through the places of the two threads: a live microphone
has `ptt` or a `transmit` step to come, `unguardPtt` only opens what was wanted when it
tested, and a release that nothing overlapped closes. `LinkInFlight` says that while
nothing is muddled the flag is the awaited frequency and its station is in one of three places:
still to be requested, in the object's transfer, or in the answer being handled. In the first
place no other request is out, or the link would be muddled, so no answer can take the flag.

*RxEvents.* `IndicationBacked` is inductive together with the types. It rests on the count
of a radio changing only in the step that also sends the event, on reset and replacement
being remembered in `forgotten`, and on the end of an indication by timeout or `setRx`
only taking frequencies out of `lit`.

`SilenceEndsIndications` follows its consequence for the two devices: with the streams of a
device dry, a frame leaves all its radios without audio (`DryFrame`), only a packet, a move or
a new radio changes that (`QuietStep`), and a lit frequency has a radio with audio. Its
hypothesis `FramesCome` follows from the weak fairness of `Spec`: on a radio with audio a frame
in which every source closes is always possible and changes something.

*Only model-checked.* `Quiesces`. Of it `SilenceEndsIndications` and `FrameDrains` (a frame
takes every live stream closer to its end) are proved; what is left is that a number that
keeps falling reaches zero. That is an induction over temporal formulas, and the provers
have no rule for it. That the fairness with `ENABLED` and the fairness written out agree is read
off the guards, as `ENABLED` is out of the provers' reach too.

## 6. Assumptions and what is left out

* A handler is atomic with respect to the other handlers of the event loop, and the
  application calls the pilots' `Client` on that thread. In `AtcRadio`, `AtcClient` and
  `RxEvents` the application's threads come in between, at the places that no lock covers.
* The application's event callbacks do nothing that comes back into the library.
  Calling `connect()` or `disconnect()` from an event is a hazard listed in PROJECT.json. The
  exception is `linkTransceivers`, which `AtcClient` also lets a handler call.
* In `HttpRequest` a request is started in one step and its completion delivered in one step.
  In the code the application's threads start requests (`requestStationTransceivers` and the
  other queries) without a lock against `TransferManager::processPendingMultiEvents`, which
  changes the same map and the same multi handle on the event loop. What comes of that is
  undefined; `RequestsAreFlags` holds of uses that do not overlap in this way. It is listed as a
  hazard.
* The unlocked walks over `mRadioState` (for the groups, and for the radio of a station) are
  modelled as far as values go; that a radio is added or removed under them is undefined and
  left out.
* Removing a handle from curl's multi handle also withdraws the message that it is done.
* The server transmits and relays by the identities of the last update it acknowledged.
* Removing the socket's handler from the Poco reactor waits for a running callback.
* The server gives each voice session new keys and counts its datagrams up from 0. Nothing
  in the library checks it: `close()` restarts the receive window whatever comes next.
* The server handles requests in the order they are posted and begins a voice session
  without transceivers.
* Time is not modelled: a pending timer fires at some time. The overflow of the refresh
  delay is listed as a hazard.
* Sequence numbers stay below 2^64, and the window below 32, where `__builtin_ctz`
  would be given a zero argument; the library asks for 10.

**Not modelled.**

* The vendored `miniaudio.h`, of which the repository holds two copies, and the devices built
  on it: input and output. These two files are 185,000 of its 201,000 lines, so the share
  of lines that the modules stand for is small whatever else is modelled.
* Signal processing, the codec and the jitter buffer (Speex), WAV files, encoding to JSON and
  MessagePack, logging: data without control. `RxEvents` has of `RemoteVoiceSource` only
  when it yields a frame and when it closes.
* The C and C++ wrappers, which forward to `ATCClient` under one mutex. That this mutex
  does not keep out the event loop is part of `AtcClient` and `AtcRadio`.
* The events of single stations (`StationRxBegin` and `StationRxEnd`) and the indices of
  stations in `ATCRadioSimulation`; reception in the pilots' `RadioSimulation`, which sends no
  events and mixes as the controllers' does.
* `ATISClient`. Its recording and replay run on one thread, and after one loop of the replay
  it reads past its last frame (a hazard in PROJECT.json), after which nothing can be said.
* The frame adjusters, which nothing in the library uses; one of them does not return for some
  frame sizes, which is listed as a hazard.
* The queries for aliases, stations and VCCS, which fill caches that nothing modelled reads.

## 7. Plan

Done, in this order: `SequenceTest`, later with `WindowLoop`; `ClientSession` with `ClientStatus`; `PttGuard`, later
with `PilotClient`; `UdpChannel`; `AtcRadio`; `HttpRequest` with `RequestFlag`; `AtcClient`;
`RxEvents`. What would come next:

* an application whose event handlers call back into the library, in `ClientSession` and
  `RxEvents`: the hazards about `connect()` and `disconnect()` inside an event, and about
  queries under a lock, wait for it;
* the events of single stations, with an abstract specification of one station's light that
  `RxEvents` implements;
* `ATCClient` as a whole: `AtcRadio` and `AtcClient` over the real sessions, as `PilotClient`
  has `PttGuard`;
* sessions that restart with the keys of the session before, in `UdpChannel`.
