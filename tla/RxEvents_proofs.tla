-------------------------- MODULE RxEvents_proofs --------------------------
(***************************************************************************)
(* Proofs about module RxEvents: its types, and that an indication always  *)
(* has a radio with audio behind it, for any number of frequencies and     *)
(* pilots.                                                                 *)
(***************************************************************************)
EXTENDS RxEvents, FiniteSetTheorems, TLAPS

\* The streams, and who transmits.
StreamsTyped ==
  /\ left \in [Callsigns -> [Devices -> 0 .. Patience]]
  /\ on \in [Callsigns -> SUBSET Freqs]
  /\ arriving \in SUBSET (Callsigns \X SUBSET Freqs) /\ Cardinality(arriving) <= 1

RadiosTyped ==
  /\ DOMAIN radios \subseteq Freqs
  /\ \A f \in DOMAIN radios : radios[f] \in Radio
  /\ transmitting \subseteq DOMAIN radios

EventsTyped == lit \subseteq Freqs /\ forgotten \subseteq lit

IInv == TypeOK /\ IndicationBacked

\* Sources are counted as the radio can hold them.
LEMMA CountTyped ==
  ASSUME NEW f, NEW sources \in SUBSET Callsigns
  PROVE  concurrentStreams(f, sources) \in 0 .. Cardinality(Callsigns)
<1>1. {c \in sources : f \in on[c]} \subseteq Callsigns
  OBVIOUS
<1>2. /\ IsFiniteSet({c \in sources : f \in on[c]})
      /\ Cardinality({c \in sources : f \in on[c]}) <= Cardinality(Callsigns)
  BY <1>1, FreqsAssumption, FS_Subset
<1>. QED
  BY <1>2, FreqsAssumption, FS_CardinalityType DEF concurrentStreams

\* It holds in the initial state.
LEMMA InitIInv == Init => IInv
<1>. SUFFICES ASSUME Init PROVE IInv
  OBVIOUS
<1>1. Cardinality({}) = 0
  BY FS_EmptySet
<1>2. TypeOK
  BY <1>1, PatienceAssumption DEF Init, TypeOK
<1>3. IndicationBacked
  BY DEF Init, IndicationBacked
<1>. QED
  BY <1>2, <1>3 DEF IInv

\* What a frame leaves of a radio is a radio.
LEMMA ProcessedTyped ==
  ASSUME NEW f, radios[f] \in Radio, NEW sources \in SUBSET Callsigns
  PROVE  /\ processed(f, sources) \in Radio
         /\ processed(f, sources).count = concurrentStreams(f, sources)
         /\ processed(f, sources).device = radios[f].device
<1>1. concurrentStreams(f, sources) \in 0 .. Cardinality(Callsigns)
  BY CountTyped
<1>2. RxEnds(f, sources) \in BOOLEAN
  BY DEF RxEnds
<1>. HIDE DEF concurrentStreams, RxEnds
<1>. QED
  BY <1>1, <1>2 DEF processed, Radio

\* An audio frame of a device.
LEMMA FrameStep ==
  ASSUME IInv, NEW d \in Devices, getAudioFrame(d)
  PROVE  IInv'
<1>1. PICK after \in [Callsigns -> 0 .. Patience - 1] :
        LET sources == {c \in Callsigns : after[c] > 0}
            mine    == {f \in DOMAIN radios : radios[f].device = d}
            begun   == {f \in mine \ transmitting : RxBegins(f, sources)}
            ended   == {f \in mine : radios[f].count > 0 /\ processed(f, sources).count = 0}
        IN /\ left' = [c \in Callsigns |-> [left[c] EXCEPT ![d] = after[c]]]
           /\ radios' = [f \in DOMAIN radios |->
                           IF f \in mine THEN processed(f, sources) ELSE radios[f]]
           /\ lit' = (lit \ ended) \cup begun
           /\ forgotten' = forgotten \ (ended \cup begun)
           /\ UNCHANGED <<on, arriving, transmitting>>
  BY DEF getAudioFrame
<1>. DEFINE sources == {c \in Callsigns : after[c] > 0}
            mine    == {f \in DOMAIN radios : radios[f].device = d}
            begun   == {f \in mine \ transmitting : RxBegins(f, sources)}
            ended   == {f \in mine : radios[f].count > 0 /\ processed(f, sources).count = 0}
<1>2. /\ left' = [c \in Callsigns |-> [left[c] EXCEPT ![d] = after[c]]]
      /\ radios' = [f \in DOMAIN radios |->
                      IF f \in mine THEN processed(f, sources) ELSE radios[f]]
      /\ lit' = (lit \ ended) \cup begun
      /\ forgotten' = forgotten \ (ended \cup begun)
      /\ UNCHANGED <<on, arriving, transmitting>>
  BY <1>1
<1>3. RadiosTyped /\ StreamsTyped /\ EventsTyped /\ IndicationBacked
  BY DEF IInv, TypeOK, RadiosTyped, StreamsTyped, EventsTyped
<1>4. \A f \in mine : /\ processed(f, sources) \in Radio
                      /\ processed(f, sources).count = concurrentStreams(f, sources)
  BY <1>3, ProcessedTyped DEF RadiosTyped
<1>5. DOMAIN radios' = DOMAIN radios
  BY <1>2
<1>6. \A f \in DOMAIN radios : radios'[f] = IF f \in mine THEN processed(f, sources) ELSE radios[f]
  BY <1>2
<1>. HIDE DEF sources
<1>7. begun \subseteq Freqs
  BY <1>3 DEF RadiosTyped
<1>8. StreamsTyped'
  BY <1>2, <1>3, PatienceAssumption DEF StreamsTyped, Devices
<1>9. RadiosTyped'
  BY <1>2, <1>3, <1>4, <1>5, <1>6 DEF RadiosTyped
<1>10. EventsTyped'
  BY <1>2, <1>3, <1>7 DEF EventsTyped
<1>11. IndicationBacked'
  <2>. SUFFICES ASSUME NEW f \in lit', f \notin forgotten'
                PROVE  f \in DOMAIN radios' /\ radios'[f].count > 0
    BY DEF IndicationBacked, isFrequencyActive
  <2>1. CASE f \in begun
    <3>1. f \in mine /\ concurrentStreams(f, sources) > 0
      BY <2>1 DEF RxBegins
    <3>. QED
      BY <1>4, <1>5, <1>6, <3>1
  <2>2. CASE f \notin begun
    <3>1. f \in lit \ forgotten /\ f \notin ended
      BY <1>2, <2>2
    <3>2. f \in DOMAIN radios /\ radios[f].count > 0
      BY <1>3, <3>1 DEF IndicationBacked, isFrequencyActive
    <3>3. CASE f \in mine
      <4>1. processed(f, sources).count \in Nat /\ processed(f, sources).count # 0
        BY <1>4, <3>1, <3>2, <3>3, FS_CardinalityType, FreqsAssumption DEF Radio
      <4>. QED
        BY <1>5, <1>6, <3>2, <3>3, <4>1
    <3>. QED
      BY <1>5, <1>6, <3>2, <3>3
  <2>. QED
    BY <2>1, <2>2
<1>. QED
  BY <1>8, <1>9, <1>10, <1>11
     DEF IInv, TypeOK, RadiosTyped, StreamsTyped, EventsTyped

\* Packets and the maintenance of the streams.
LEMMA StreamStep ==
  ASSUME IInv,
         \/ rxVoicePacket
         \/ \E c \in Callsigns : \/ \E F \in SUBSET Freqs : packetListening(c, F)
                                 \/ \E d \in Devices : maintainIncomingStreams(c, d)
  PROVE  IInv'
<1>0. RadiosTyped /\ StreamsTyped /\ EventsTyped /\ IndicationBacked
  BY DEF IInv, TypeOK, RadiosTyped, StreamsTyped, EventsTyped
<1>1. CASE rxVoicePacket
  <2>1. PICK p \in arriving :
          /\ left' = [left EXCEPT ![p[1]] = [d \in Devices |-> Patience]]
          /\ on' = [on EXCEPT ![p[1]] = p[2]]
          /\ arriving' = {}
          /\ UNCHANGED <<radios, transmitting, lit, forgotten>>
    BY <1>1 DEF rxVoicePacket
  <2>2. p \in Callsigns \X SUBSET Freqs
    BY <1>0 DEF StreamsTyped
  <2>3. StreamsTyped'
    BY <1>0, <2>1, <2>2, PatienceAssumption, FS_EmptySet DEF StreamsTyped
  <2>. QED
    BY <1>0, <2>1, <2>3 DEF IInv, TypeOK, RadiosTyped, StreamsTyped, EventsTyped,
       IndicationBacked, isFrequencyActive
<1>2. ASSUME NEW c \in Callsigns, NEW F \in SUBSET Freqs, packetListening(c, F) PROVE IInv'
  <2>1. PICK f \in F : /\ isFrequencyActive(f)
                       /\ radios' = [radios EXCEPT ![f].heard = TRUE]
    BY <1>2 DEF packetListening
  <2>2. /\ arriving' = {<<c, F>>}
        /\ UNCHANGED <<left, on, transmitting, lit, forgotten>>
    BY <1>2 DEF packetListening
  <2>3. StreamsTyped'
    <3>1. Cardinality(arriving') = 1
      BY <2>2, FS_Singleton
    <3>. QED
      BY <1>0, <1>2, <2>2, <3>1 DEF StreamsTyped
  <2>4. /\ DOMAIN radios' = DOMAIN radios
        /\ \A g \in DOMAIN radios : radios'[g] \in Radio /\ radios'[g].count = radios[g].count
    BY <1>0, <2>1 DEF RadiosTyped, Radio
  <2>5. RadiosTyped' /\ EventsTyped'
    BY <1>0, <2>2, <2>4 DEF RadiosTyped, EventsTyped
  <2>6. IndicationBacked'
    BY <1>0, <2>2, <2>4 DEF IndicationBacked, isFrequencyActive
  <2>. QED
    BY <2>3, <2>5, <2>6 DEF IInv, TypeOK, RadiosTyped, StreamsTyped, EventsTyped
<1>3. ASSUME NEW c \in Callsigns, NEW d \in Devices, maintainIncomingStreams(c, d) PROVE IInv'
  <2>1. /\ left' = [left EXCEPT ![c][d] = 0]
        /\ UNCHANGED <<radios, on, arriving, transmitting, lit, forgotten>>
    BY <1>3 DEF maintainIncomingStreams
  <2>2. StreamsTyped'
    BY <1>0, <1>3, <2>1, PatienceAssumption DEF StreamsTyped
  <2>. QED
    BY <1>0, <2>1, <2>2 DEF IInv, TypeOK, RadiosTyped, StreamsTyped, EventsTyped,
       IndicationBacked, isFrequencyActive
<1>. QED
  BY <1>1, <1>2, <1>3

\* Steps that change the radios and the events and leave the counts of those
\* that stay lit.
LEMMA RadiosKeep ==
  ASSUME IInv, RadiosTyped', EventsTyped', StreamsTyped',
         \A f \in lit' \ forgotten' :
           /\ f \in lit \ forgotten
           /\ f \in DOMAIN radios' /\ radios'[f].count = radios[f].count
  PROVE  IInv'
<1>1. IndicationBacked'
  BY DEF IInv, IndicationBacked, isFrequencyActive
<1>. QED
  BY <1>1 DEF IInv, TypeOK, RadiosTyped, StreamsTyped, EventsTyped

\* The indications that time out, and what the application does.
LEMMA RadiosStep ==
  ASSUME IInv, Application \/ maintainVoiceTimeout
  PROVE  IInv'
<1>0. RadiosTyped /\ StreamsTyped /\ EventsTyped
  BY DEF IInv, TypeOK, RadiosTyped, StreamsTyped, EventsTyped
<1>1. CASE maintainVoiceTimeout
  <2>1. PICK timedOut \in SUBSET DOMAIN radios :
          /\ radios' = [f \in DOMAIN radios |->
                          [radios[f] EXCEPT !.heard = @ /\ f \notin timedOut]]
          /\ lit' = lit \ timedOut
          /\ forgotten' = forgotten \ timedOut
    BY <1>1 DEF maintainVoiceTimeout
  <2>2. UNCHANGED <<streamVars, transmitting>>
    BY <1>1 DEF maintainVoiceTimeout
  <2>3. /\ DOMAIN radios' = DOMAIN radios
        /\ \A f \in DOMAIN radios : radios'[f] \in Radio /\ radios'[f].count = radios[f].count
    BY <1>0, <2>1 DEF RadiosTyped, Radio
  <2>4. RadiosTyped' /\ StreamsTyped' /\ EventsTyped'
    BY <1>0, <2>1, <2>2, <2>3 DEF RadiosTyped, StreamsTyped, EventsTyped, streamVars
  <2>5. \A f \in lit' \ forgotten' : f \in lit \ forgotten /\ f \in DOMAIN radios
    BY <2>1 DEF IInv, IndicationBacked, isFrequencyActive
  <2>. QED
    BY <2>3, <2>4, <2>5, RadiosKeep
<1>2. ASSUME NEW F \in SUBSET Freqs, transmit(F) PROVE IInv'
  BY <1>0, <1>2 DEF transmit, streamVars, IInv, TypeOK, IndicationBacked,
     isFrequencyActive
<1>3. ASSUME NEW f \in Freqs, NEW b \in BOOLEAN, setRx(f, b) PROVE IInv'
  <2>1. /\ DOMAIN radios' = DOMAIN radios
        /\ \A g \in DOMAIN radios : radios'[g] \in Radio /\ radios'[g].count = radios[g].count
        /\ UNCHANGED <<streamVars, transmitting>>
    BY <1>0, <1>3 DEF setRx, isFrequencyActive, RadiosTyped, Radio
  <2>2. /\ lit' \subseteq lit /\ lit' \ forgotten' \subseteq lit \ forgotten
        /\ forgotten' \subseteq lit'
    BY <1>0, <1>3 DEF setRx, EventsTyped
  <2>3. RadiosTyped' /\ StreamsTyped' /\ EventsTyped'
    BY <1>0, <2>1, <2>2 DEF RadiosTyped, StreamsTyped, EventsTyped, streamVars
  <2>4. \A g \in lit' \ forgotten' : g \in lit \ forgotten /\ g \in DOMAIN radios
    BY <2>2 DEF IInv, IndicationBacked, isFrequencyActive
  <2>. QED
    BY <2>1, <2>3, <2>4, RadiosKeep
<1>4. ASSUME NEW f \in Freqs, removeFrequency(f) PROVE IInv'
  <2>1. /\ DOMAIN radios' = DOMAIN radios \ {f}
        /\ \A g \in DOMAIN radios' : radios'[g] = radios[g]
        /\ lit' = lit \ {f} /\ forgotten' = forgotten \ {f}
        /\ transmitting' = transmitting \ {f} /\ UNCHANGED streamVars
    BY <1>4 DEF removeFrequency, Restrict
  <2>2. RadiosTyped' /\ StreamsTyped' /\ EventsTyped'
    BY <1>0, <2>1 DEF RadiosTyped, StreamsTyped, EventsTyped, streamVars
  <2>3. \A g \in lit' \ forgotten' : g \in lit \ forgotten /\ g \in DOMAIN radios'
    BY <2>1 DEF IInv, IndicationBacked, isFrequencyActive
  <2>. QED
    BY <2>1, <2>2, <2>3, RadiosKeep
<1>5. ASSUME NEW f \in Freqs, NEW d \in Devices, addFrequency(f, d) PROVE IInv'
  <2>1. /\ DOMAIN radios' = DOMAIN radios \cup {f}
        /\ radios'[f] = [rx |-> TRUE, device |-> d, count |-> 0, heard |-> FALSE]
        /\ \A g \in DOMAIN radios \ {f} : radios'[g] = radios[g]
        /\ forgotten' = forgotten \cup (lit \cap {f})
        /\ lit' = lit /\ transmitting' = transmitting /\ UNCHANGED streamVars
    BY <1>5 DEF addFrequency
  <2>2. radios'[f] \in Radio
    BY <2>1, FreqsAssumption, FS_CardinalityType DEF Radio
  <2>3. RadiosTyped' /\ StreamsTyped' /\ EventsTyped'
    BY <1>0, <2>1, <2>2 DEF RadiosTyped, StreamsTyped, EventsTyped, streamVars
  <2>4. \A g \in lit' \ forgotten' : g \in lit \ forgotten /\ g \in DOMAIN radios /\ g # f
    BY <2>1 DEF IInv, IndicationBacked, isFrequencyActive
  <2>. QED
    BY <2>1, <2>3, <2>4, RadiosKeep
<1>6. ASSUME NEW f \in Freqs, NEW d \in Devices, setOnHeadset(f, d) PROVE IInv'
  <2>1. /\ DOMAIN radios' = DOMAIN radios
        /\ \A g \in DOMAIN radios : radios'[g] \in Radio /\ radios'[g].count = radios[g].count
        /\ UNCHANGED <<streamVars, transmitting, lit, forgotten>>
    BY <1>0, <1>6 DEF setOnHeadset, isFrequencyActive, RadiosTyped, Radio
  <2>2. RadiosTyped' /\ StreamsTyped' /\ EventsTyped'
    BY <1>0, <2>1 DEF RadiosTyped, StreamsTyped, EventsTyped, streamVars
  <2>3. \A g \in lit' \ forgotten' : g \in lit \ forgotten /\ g \in DOMAIN radios
    BY <2>1 DEF IInv, IndicationBacked, isFrequencyActive
  <2>. QED
    BY <2>1, <2>2, <2>3, RadiosKeep
<1>7. CASE reset
  <2>1. PICK filed \in SUBSET Callsigns :
          left' = [c \in Callsigns |-> IF c \in filed THEN left[c] ELSE [d \in Devices |-> 0]]
    BY <1>7 DEF reset
  <2>2. /\ DOMAIN radios' = {} /\ transmitting' = {} /\ forgotten' = lit
        /\ UNCHANGED <<on, arriving, lit>>
    BY <1>7 DEF reset
  <2>3. StreamsTyped'
    BY <1>0, <2>1, <2>2, PatienceAssumption DEF StreamsTyped
  <2>4. RadiosTyped' /\ EventsTyped'
    BY <1>0, <2>2 DEF RadiosTyped, EventsTyped
  <2>. QED
    BY <2>2, <2>3, <2>4, RadiosKeep
<1>. QED
  BY <1>1, <1>2, <1>3, <1>4, <1>5, <1>6, <1>7 DEF Application

-----------------------------------------------------------------------------
\* The invariant holds throughout.
THEOREM RxInvariant == Spec => []IInv
<1>1. IInv /\ [Next]_vars => IInv'
  <2>. SUFFICES ASSUME IInv, [Next]_vars PROVE IInv'
    OBVIOUS
  <2>1. CASE UNCHANGED vars
    BY <2>1 DEF vars, streamVars, IInv, TypeOK, IndicationBacked, isFrequencyActive
  <2>. QED
    BY <2>1, FrameStep, StreamStep, RadiosStep DEF Next, EventLoop
<1>. QED
  BY <1>1, InitIInv, PTL DEF Spec

\* Streams, radios and indications keep their types: a radio never counts more
\* pilots than there are, whichever devices their streams are heard on.
THEOREM TypeCorrect == Spec => []TypeOK
<1>1. IInv => TypeOK
  BY DEF IInv
<1>. QED
  BY <1>1, RxInvariant, PTL

\* No frequency is shown as busy without a radio that had audio last.
THEOREM NoPhantomSpeaker == Spec => []IndicationBacked
<1>1. IInv => IndicationBacked
  BY DEF IInv
<1>. QED
  BY <1>1, RxInvariant, PTL

-----------------------------------------------------------------------------
\* Every stream has run dry.
Dry == \A c \in Callsigns, d \in Devices : left[c][d] = 0

\* Some radio of the device had audio in its last frame.
Backed(d) == \E f \in DOMAIN radios : radios[f].device = d /\ radios[f].count > 0

\* A frame takes a stream closer to its end: it yields fewer frames than it had
\* left, or none.
LEMMA FrameDrains ==
  ASSUME TypeOK, NEW d \in Devices, getAudioFrame(d), NEW c \in Callsigns
  PROVE  left'[c][d] = 0 \/ left'[c][d] < left[c][d]
<1>1. PICK after \in [Callsigns -> 0 .. Patience - 1] :
        /\ \A s \in Callsigns : after[s] = 0 \/ after[s] < left[s][d]
        /\ left' = [s \in Callsigns |-> [left[s] EXCEPT ![d] = after[s]]]
  BY DEF getAudioFrame
<1>2. left'[c][d] = after[c]
  BY <1>1 DEF TypeOK
<1>. QED
  BY <1>1, <1>2

\* A frame of a device whose streams are dry leaves none of its radios with audio.
LEMMA DryFrame ==
  ASSUME IInv, Dry, NEW d \in Devices, getAudioFrame(d)
  PROVE  ~Backed(d)'
<1>1. PICK after \in [Callsigns -> 0 .. Patience - 1] :
        LET sources == {c \in Callsigns : after[c] > 0}
            mine    == {f \in DOMAIN radios : radios[f].device = d}
        IN /\ \A c \in Callsigns : after[c] = 0 \/ after[c] < left[c][d]
           /\ radios' = [f \in DOMAIN radios |->
                           IF f \in mine THEN processed(f, sources) ELSE radios[f]]
  BY DEF getAudioFrame
<1>. DEFINE sources == {c \in Callsigns : after[c] > 0}
            mine    == {f \in DOMAIN radios : radios[f].device = d}
<1>2. sources = {}
  BY <1>1, PatienceAssumption DEF Dry
<1>3. radios' = [f \in DOMAIN radios |->
                   IF f \in mine THEN processed(f, sources) ELSE radios[f]]
  BY <1>1
<1>4. ASSUME NEW f \in mine
      PROVE  processed(f, sources).count = 0
  <2>1. {c \in sources : f \in on[c]} = {}
    BY <1>2
  <2>2. concurrentStreams(f, sources) = 0
    BY <2>1, FS_EmptySet DEF concurrentStreams
  <2>3. processed(f, sources).count = concurrentStreams(f, sources)
    BY ProcessedTyped DEF IInv, TypeOK
  <2>. QED
    BY <2>2, <2>3
<1>. HIDE DEF sources
<1>. SUFFICES ASSUME NEW f \in DOMAIN radios', radios'[f].device = d
              PROVE  radios'[f].count = 0
  BY DEF Backed
<1>5. f \in DOMAIN radios /\ radios'[f] = IF f \in mine THEN processed(f, sources) ELSE radios[f]
  BY <1>3
<1>. QED
  BY <1>4, <1>5

\* Once they are dry, nothing but a new packet, a move or a new radio gives a
\* radio of a device audio again.
LEMMA QuietStep ==
  ASSUME IInv, Dry, [Next]_vars, [Quiet]_vars, NEW d \in Devices, ~Backed(d)
  PROVE  ~Backed(d)'
<1>0. \A f \in DOMAIN radios : radios[f] \in Radio
  BY DEF IInv, TypeOK
<1>1. /\ DOMAIN radios' \subseteq DOMAIN radios
      /\ \A f \in DOMAIN radios' : radios'[f].device = radios[f].device
  BY DEF Quiet, vars
<1>2. SUFFICES ASSUME ~getAudioFrame(d) PROVE ~Backed(d)'
  BY DryFrame
<1>. SUFFICES ASSUME NEW f \in DOMAIN radios', radios'[f].device = d
              PROVE  radios'[f].count = 0 \/ radios'[f].count = radios[f].count
  BY <1>1 DEF Backed
<1>3. f \in DOMAIN radios /\ radios[f] \in Radio
  BY <1>0, <1>1
<1>4. ASSUME NEW e \in Devices \ {d}, getAudioFrame(e)
      PROVE  radios'[f] = radios[f]
  BY <1>1, <1>3, <1>4 DEF getAudioFrame
<1>5. CASE EventLoop
  <2>1. CASE maintainVoiceTimeout
    BY <1>3, <2>1 DEF maintainVoiceTimeout, Radio
  <2>2. ASSUME NEW c \in Callsigns, NEW F \in SUBSET Freqs, packetListening(c, F)
        PROVE  radios'[f].count = radios[f].count
    BY <1>3, <2>2 DEF packetListening, Radio
  <2>3. CASE UNCHANGED radios
    BY <2>3
  <2>. QED
    BY <1>5, <2>1, <2>2, <2>3 DEF EventLoop, rxVoicePacket, maintainIncomingStreams
<1>6. CASE Application
  <2>1. ASSUME NEW g \in Freqs, NEW b \in BOOLEAN, setRx(g, b)
        PROVE  radios'[f].count = radios[f].count
    BY <1>3, <2>1 DEF setRx, Radio
  <2>2. ASSUME NEW g \in Freqs, removeFrequency(g)
        PROVE  radios'[f].count = radios[f].count
    BY <1>3, <2>2 DEF removeFrequency, Restrict
  <2>3. ASSUME NEW g \in Freqs, NEW e \in Devices, addFrequency(g, e)
        PROVE  radios'[f].count = 0 \/ radios'[f].count = radios[f].count
    BY <1>3, <2>3 DEF addFrequency
  <2>4. ASSUME NEW g \in Freqs, NEW e \in Devices, setOnHeadset(g, e)
        PROVE  radios'[f].count = radios[f].count
    BY <1>3, <2>4 DEF setOnHeadset, Radio
  <2>5. CASE reset
    BY <2>5 DEF reset
  <2>6. ASSUME NEW F \in SUBSET Freqs, transmit(F)
        PROVE  radios'[f].count = radios[f].count
    BY <2>6 DEF transmit
  <2>. QED
    BY <1>6, <2>1, <2>2, <2>3, <2>4, <2>5, <2>6 DEF Application
<1>7. CASE UNCHANGED vars
  BY <1>7 DEF vars
<1>. QED
  BY <1>1, <1>2, <1>4, <1>5, <1>6, <1>7 DEF Next

\* Frames of the device come as long as one of its radios counts audio.  This
\* follows from the fairness of Spec: such a frame is always possible, and one in
\* which every source closes changes the count.
FramesCome(d) == []<>~Backed(d) \/ []<><<getAudioFrame(d)>>_vars

\* Once every stream has run dry and no packet comes, no radio is moved and none
\* is added, every indication ends.  With FrameDrains this is Quiesces but for
\* the induction: that a stream which keeps losing frames runs dry.
THEOREM SilenceEndsIndications ==
  Spec /\ FramesCome("headset") /\ FramesCome("speaker")
    => (<>[][Quiet]_vars /\ <>[]Dry => <>[](lit \subseteq forgotten))
<1>1. "headset" \in Devices /\ "speaker" \in Devices
  BY DEF Devices
<1>2. IInv /\ Dry /\ [Next]_vars /\ [Quiet]_vars =>
        /\ ~Backed("headset") => ~Backed("headset")'
        /\ <<getAudioFrame("headset")>>_vars => ~Backed("headset")'
  BY <1>1, QuietStep, DryFrame
<1>3. IInv /\ Dry /\ [Next]_vars /\ [Quiet]_vars =>
        /\ ~Backed("speaker") => ~Backed("speaker")'
        /\ <<getAudioFrame("speaker")>>_vars => ~Backed("speaker")'
  BY <1>1, QuietStep, DryFrame
<1>4. IInv /\ ~Backed("headset") /\ ~Backed("speaker") => lit \subseteq forgotten
  BY DEF IInv, TypeOK, IndicationBacked, isFrequencyActive, Backed, Radio, Devices
<1>. QED
  BY <1>2, <1>3, <1>4, RxInvariant, PTL DEF Spec, FramesCome
=============================================================================
