------------------------------ MODULE RxEvents ------------------------------
(***************************************************************************)
(* Reception on the controllers' radios: voice packets, the audio frames   *)
(* of the two output devices, and the FrequencyRxBegin and FrequencyRxEnd  *)
(* events from which an application shows on which frequencies somebody is *)
(* speaking.  The event loop, the threads of the audio devices and those   *)
(* of the application meet under two locks, that of the streams and that   *)
(* of the radios.                                                          *)
(*                                                                         *)
(* The stations on a frequency and their events are left out: they do not  *)
(* influence those of the frequency.  So is all audio: a source yields     *)
(* some number of frames, fewer than Patience after its last packet.       *)
(* A radio that a setter creates for a frequency never added has frequency *)
(* 0, hears nothing, and is left out too.                                  *)
(***************************************************************************)
EXTENDS Integers, FiniteSets, FiniteSetsExt, Functions

CONSTANTS
  Freqs,      \* the frequencies in use
  Callsigns,  \* the pilots that can be heard
  Patience    \* most frames from a packet to the end of its source

ASSUME FreqsAssumption == IsFiniteSet(Freqs) /\ IsFiniteSet(Callsigns)
ASSUME PatienceAssumption == Patience \in Nat \ {0, 1}

Devices == {"headset", "speaker"}

\* AtcRadioState, as far as reception is concerned.  device is onHeadset, count
\* mLastRxCount, and heard whether lastVoiceTime is set.
Radio == [rx : BOOLEAN, device : Devices, count : 0 .. Cardinality(Callsigns),
          heard : BOOLEAN]

VARIABLES
  radios,     \* mRadioState: a function on the active frequencies
  left,       \* mIncomingStreams of each device: the frames that the source of
              \* a callsign still has, 0 when it is inactive or not there
  on,         \* the frequencies of the transceivers of each stream
  arriving,   \* the packet between the two locks of rxVoicePacket, at most one
  transmitting,  \* the radios with tx while mPtt is set
  lit,        \* auxiliary: FrequencyRxBegin was the last event of these frequencies
  forgotten   \* auxiliary: those lit when their radio was replaced or reset

streamVars == <<left, on, arriving>>
vars == <<radios, streamVars, transmitting, lit, forgotten>>

isFrequencyActive(f) == f \in DOMAIN radios

Init ==
  /\ radios = [f \in {} |-> {}]
  /\ left = [c \in Callsigns |-> [d \in Devices |-> 0]]
  /\ on = [c \in Callsigns |-> {}]
  /\ arriving = {} /\ transmitting = {}
  /\ lit = {} /\ forgotten = {}

-----------------------------------------------------------------------------
\* Voice packets, on the reactor's thread.

\* _packetListening, for a packet heard by some transceivers of the frequencies
\* in F.  Only the first that is tuned takes notice.  A packet that is the last
\* of its transmission is not told apart.
packetListening(c, F) ==
  /\ arriving = {}
  /\ \E f \in F :
       /\ isFrequencyActive(f) /\ radios[f].rx
       /\ radios' = [radios EXCEPT ![f].heard = TRUE]
  /\ arriving' = {<<c, F>>}
  /\ UNCHANGED <<left, on, transmitting, lit, forgotten>>

\* The rest of rxVoicePacket: it goes to the streams of both devices, whatever
\* has become of the radio.
rxVoicePacket ==
  \E p \in arriving :
    /\ left' = [left EXCEPT ![p[1]] = [d \in Devices |-> Patience]]
    /\ on' = [on EXCEPT ![p[1]] = p[2]]
    /\ arriving' = {}
    /\ UNCHANGED <<radios, transmitting, lit, forgotten>>

\* The maintenance timers run on the event loop, so they may come between the
\* two halves of a packet, which arrives on the reactor's thread.

\* maintainIncomingStreams drops the streams of both devices for a callsign
\* that was silent for a minute; each has a clock of its own.
maintainIncomingStreams(c, d) ==
  /\ left[c][d] # 0
  /\ left' = [left EXCEPT ![c][d] = 0]
  /\ UNCHANGED <<radios, on, arriving, transmitting, lit, forgotten>>

\* maintainVoiceTimeout: the indication ends, the count of the radio stays.  How
\* long each was silent is left open.
maintainVoiceTimeout ==
  /\ \E timedOut \in SUBSET {f \in DOMAIN radios : radios[f].heard} :
       /\ timedOut # {}
       /\ radios' = [f \in DOMAIN radios |->
                       [radios[f] EXCEPT !.heard = @ /\ f \notin timedOut]]
       /\ lit' = lit \ timedOut
       /\ forgotten' = forgotten \ timedOut
  /\ UNCHANGED <<streamVars, transmitting>>

-----------------------------------------------------------------------------
\* An audio frame of a device.

\* Fault: the streams of both devices count.
streamsOfBoth(f, sources) ==
  Cardinality({s \in Callsigns \X Devices :
                 f \in on[s[1]] /\ (s[1] \in sources \/ left[s[1]][s[2]] > 0)})

\* concurrentStreams: the sources that yielded audio and are heard on f.
concurrentStreams(f, sources) == Cardinality({c \in sources : f \in on[c]})

RxBegins(f, sources) == concurrentStreams(f, sources) > 0 /\ radios[f].count = 0

RxEnds(f, sources) == concurrentStreams(f, sources) = 0 /\ radios[f].count > 0

\* Fault: a radio that is transmitting is not looked at.
unlessTransmitting(f, sources) ==
  IF f \in transmitting THEN radios[f]
  ELSE [radios[f] EXCEPT !.count = concurrentStreams(f, sources),
                         !.heard = @ /\ ~RxEnds(f, sources)]

\* What _process_radio leaves of a radio, one that is transmitting too.
processed(f, sources) ==
  [radios[f] EXCEPT !.count = concurrentStreams(f, sources),
                    !.heard = @ /\ ~RxEnds(f, sources)]

\* getAudioFrame: first every active source yields a frame or closes, then the
\* radios of the device are processed.  On those that are transmitting no
\* reception begins, but one may end.
getAudioFrame(d) ==
  \E after \in [Callsigns -> 0 .. Patience - 1] :
    LET sources == {c \in Callsigns : after[c] > 0}
        mine    == {f \in DOMAIN radios : radios[f].device = d}
        begun   == {f \in mine \ transmitting : RxBegins(f, sources)}
        ended   == {f \in mine : radios[f].count > 0 /\ processed(f, sources).count = 0}
    IN /\ \A c \in Callsigns : after[c] = 0 \/ after[c] < left[c][d]
       /\ left' = [c \in Callsigns |-> [left[c] EXCEPT ![d] = after[c]]]
       /\ radios' = [f \in DOMAIN radios |->
                       IF f \in mine THEN processed(f, sources) ELSE radios[f]]
       /\ lit' = (lit \ ended) \cup begun
       /\ forgotten' = forgotten \ (ended \cup begun)
       /\ UNCHANGED <<on, arriving, transmitting>>

-----------------------------------------------------------------------------
\* The application.  Each setter is for an active frequency, and takes the lock
\* of the radios.

\* setPtt, or setTx while the PTT is pressed.
transmit(F) ==
  /\ F \subseteq DOMAIN radios
  /\ transmitting' = F
  /\ UNCHANGED <<radios, streamVars, lit, forgotten>>

\* addFrequency replaces a radio that is not in use; whether one that does not
\* receive is in use otherwise is left open.
addFrequency(f, d) ==
  /\ isFrequencyActive(f) => ~radios[f].rx /\ f \notin transmitting
  /\ radios' = [g \in DOMAIN radios \cup {f} |->
                  IF g = f THEN [rx |-> TRUE, device |-> d, count |-> 0, heard |-> FALSE]
                           ELSE radios[g]]
  /\ forgotten' = forgotten \cup (lit \cap {f})
  /\ UNCHANGED <<streamVars, transmitting, lit>>

\* Fault: the frequency goes without an event.
removeQuietly(f) ==
  /\ isFrequencyActive(f)
  /\ radios' = Restrict(radios, DOMAIN radios \ {f})
  /\ transmitting' = transmitting \ {f}
  /\ UNCHANGED <<streamVars, lit, forgotten>>

removeFrequency(f) ==
  /\ isFrequencyActive(f)
  /\ radios' = Restrict(radios, DOMAIN radios \ {f})
  /\ lit' = lit \ {f}
  /\ forgotten' = forgotten \ {f}
  /\ transmitting' = transmitting \ {f}
  /\ UNCHANGED streamVars

\* setRx(false) ends the indication whether or not there was one.
setRx(f, rx) ==
  /\ isFrequencyActive(f)
  /\ radios' = [radios EXCEPT ![f].rx = rx, ![f].heard = @ /\ rx]
  /\ lit' = IF rx THEN lit ELSE lit \ {f}
  /\ forgotten' = IF rx THEN forgotten ELSE forgotten \ {f}
  /\ UNCHANGED <<streamVars, transmitting>>

setOnHeadset(f, d) ==
  /\ isFrequencyActive(f)
  /\ radios' = [radios EXCEPT ![f].device = d]
  /\ UNCHANGED <<streamVars, transmitting, lit, forgotten>>

\* reset clears the streams, then the radios, each under their lock, so streams
\* of packets filed in between stay.  No event is sent.
reset ==
  /\ radios' = [f \in {} |-> {}]
  /\ \E filed \in SUBSET Callsigns :
       left' = [c \in Callsigns |-> IF c \in filed THEN left[c] ELSE [d \in Devices |-> 0]]
  /\ transmitting' = {}
  /\ forgotten' = lit
  /\ UNCHANGED <<on, arriving, lit>>

-----------------------------------------------------------------------------
Application ==
  \/ \E F \in SUBSET Freqs : transmit(F)
  \/ \E f \in Freqs, b \in BOOLEAN : setRx(f, b)
  \/ \E f \in Freqs : removeFrequency(f)
                      \/ \E d \in Devices : addFrequency(f, d) \/ setOnHeadset(f, d)
  \/ reset

EventLoop ==
  \/ \E c \in Callsigns : \/ \E F \in SUBSET Freqs : packetListening(c, F)
                          \/ \E d \in Devices : maintainIncomingStreams(c, d)
  \/ rxVoicePacket
  \/ maintainVoiceTimeout

Next == Application \/ EventLoop \/ \E d \in Devices : getAudioFrame(d)

\* Each output device asks for a frame every 20 ms.
Spec == Init /\ [][Next]_vars /\ \A d \in Devices : WF_vars(getAudioFrame(d))

-----------------------------------------------------------------------------
TypeOK ==
  /\ DOMAIN radios \subseteq Freqs
  /\ \A f \in DOMAIN radios : radios[f] \in Radio
  /\ left \in [Callsigns -> [Devices -> 0 .. Patience]]
  /\ on \in [Callsigns -> SUBSET Freqs]
  /\ arriving \in SUBSET (Callsigns \X SUBSET Freqs) /\ Cardinality(arriving) <= 1
  /\ transmitting \subseteq DOMAIN radios
  /\ lit \subseteq Freqs /\ forgotten \subseteq lit

\* A frequency the application shows as busy has a radio with audio in its last
\* frame, whatever was received, transmitted, moved between the devices or timed
\* out meanwhile; only a radio that was reset or replaced leaves its frequency
\* lit, as neither sends an event.
IndicationBacked ==
  \A f \in lit \ forgotten : isFrequencyActive(f) /\ radios[f].count > 0

\* No packet is filed and no radio is moved to the other device or added.
Quiet ==
  /\ \A c \in Callsigns, d \in Devices : left'[c][d] <= left[c][d]
  /\ DOMAIN radios' \subseteq DOMAIN radios
  /\ \A f \in DOMAIN radios' : radios'[f].device = radios[f].device

\* When nobody speaks any more, every indication ends, even if the controller
\* goes on transmitting and no packet marked the end of a transmission.
Quiesces == <>[][Quiet]_vars => <>[](lit \subseteq forgotten)
=============================================================================
