-------------------------- MODULE AtcRadio_proofs ---------------------------
(***************************************************************************)
(* Proofs about module AtcRadio: for any set of frequencies and stations   *)
(* of any size, what the server knows of a radio after an update is what   *)
(* the radio has, and no two frequencies share an identity.                *)
(***************************************************************************)
EXTENDS AtcRadio, FiniteSetTheorems, TLAPS

RadiosTyped == DOMAIN radios \subseteq Freqs /\ \A f \in DOMAIN radios : radios[f] \in Radio

\* Frequencies that did not change since the update are known as they are.
ToldAsTuned ==
  \A f \in Freqs \ dirty :
    /\ ToldOf(f) # {} <=> f \in Receiving
    /\ f \in Receiving => ToldOf(f) = Range(radios[f].ids)

\* An identity stands for one frequency.
IdentitiesUnique == \A t, u \in posted : t[1] = u[1] => t[2] = u[2]

\* What was sent in this voice session is pending or acknowledged, and no
\* answer to an earlier one can clear the flag once it has been sent.
SentIsTracked ==
  voice /\ (timer = "later" \/ posting) => (pending \/ acked) /\ update # "stale"

IInv == TypeOK /\ ToldAsTuned /\ IdentitiesUnique /\ SentIsTracked

-----------------------------------------------------------------------------
\* How the transceivers are numbered.

\* A radio announces at least one transceiver.
LEMMA AnnouncedPositive ==
  ASSUME NEW f \in DOMAIN radios, radios[f] \in Radio
  PROVE  Announced(f) \in Nat \ {0}
<1>. radios[f].ids \in Seq(Nat)
  BY DEF Radio
<1>1. CASE radios[f].ids = <<>>
  BY <1>1 DEF Announced
<1>2. CASE radios[f].ids # <<>>
  <2>1. Len(radios[f].ids) \in Nat /\ Len(radios[f].ids) # 0
    BY <1>2
  <2>. QED
    BY <1>2, <2>1 DEF Announced
<1>. QED
  BY <1>1, <1>2

\* The frequencies are ordered and there are finitely many radios.
LEMMA RadiosFinite ==
  ASSUME RadiosTyped
  PROVE  IsFiniteSet(Receiving) /\ Receiving \subseteq Nat
<1>1. Receiving \in SUBSET Freqs
  BY DEF Receiving, RadiosTyped
<1>. QED
  BY <1>1, FreqsAssumption, FS_Subset

\* The block of transceivers of a radio is as large as what it announces.
LEMMA BlockSize ==
  ASSUME RadiosTyped, NEW f \in Receiving
  PROVE  /\ IsFiniteSet({f} \X (1 .. Announced(f)))
         /\ Cardinality({f} \X (1 .. Announced(f))) = Announced(f)
<1>1. Announced(f) \in Nat \ {0}
  BY AnnouncedPositive DEF RadiosTyped, Receiving
<1>2. IsFiniteSet({f}) /\ Cardinality({f}) = 1
  BY FS_Singleton
<1>3. IsFiniteSet(1 .. Announced(f)) /\ Cardinality(1 .. Announced(f)) = Announced(f)
  BY <1>1, FS_Interval
<1>. DEFINE T == 1 .. Announced(f)
<1>4. IsFiniteSet(T) /\ Cardinality(T) = Announced(f)
  BY <1>3
<1>5. /\ IsFiniteSet({f} \X T)
      /\ Cardinality({f} \X T) = Cardinality({f}) * Cardinality(T)
  <2>. HIDE DEF T
  <2>. QED
    BY <1>2, <1>4, FS_Product
<1>6. Cardinality({f} \X T) = Announced(f)
  <2>. HIDE DEF T
  <2>. QED
    BY <1>1, <1>2, <1>4, <1>5
<1>. QED
  BY <1>5, <1>6

\* What is announced before a radio can be counted.
LEMMA BeforeFinite ==
  ASSUME RadiosTyped, NEW f
  PROVE  IsFiniteSet(Before(f)) /\ FirstId(f) \in Nat
<1>. DEFINE S == {h \in Receiving : h < f}
            Block(g) == {g} \X (1 .. Announced(g))
            B == [g \in S |-> Block(g)]
            T == {Block(g) : g \in S}
<1>1. IsFiniteSet(S)
  <2>1. S \in SUBSET Receiving
    OBVIOUS
  <2>. QED
    BY <2>1, RadiosFinite, FS_Subset
<1>2. B \in Surjection(S, T)
  BY DEF Surjection
<1>3. IsFiniteSet(T)
  BY <1>1, <1>2, FS_Surjection
<1>4. \A b \in T : IsFiniteSet(b)
  BY BlockSize
<1>5. IsFiniteSet(UNION T)
  BY <1>3, <1>4, FS_UNION
<1>6. Before(f) = UNION T
  BY DEF Before
<1>. QED
  BY <1>5, <1>6, FS_CardinalityType DEF FirstId

\* The identities of a radio end before those of the next begin.
LEMMA BlocksApart ==
  ASSUME RadiosTyped, NEW f \in Receiving, NEW g \in Receiving, f < g
  PROVE  FirstId(f) + Announced(f) <= FirstId(g)
<1>. DEFINE X == {f} \X (1 .. Announced(f))
<1>1. /\ IsFiniteSet(Before(f)) /\ IsFiniteSet(Before(g)) /\ IsFiniteSet(X)
      /\ Cardinality(X) = Announced(f)
  BY BeforeFinite, BlockSize
<1>2. Before(f) \cap X = {}
  <2>1. ASSUME NEW p \in Before(f), p \in X PROVE FALSE
    <3>1. PICK h \in Receiving : h < f /\ p \in {h} \X (1 .. Announced(h))
      BY <2>1 DEF Before
    <3>2. p[1] = h /\ p[1] = f
      BY <2>1, <3>1
    <3>. QED
      BY <3>1, <3>2, RadiosFinite
  <2>. QED
    BY <2>1
<1>3. Before(f) \cup X \in SUBSET Before(g)
  <2>1. \A h \in Receiving : h < f => h < g
    BY RadiosFinite
  <2>. QED
    BY <2>1 DEF Before
<1>4. Cardinality(Before(f) \cup X) = Cardinality(Before(f)) + Cardinality(X)
  <2>1. Cardinality(Before(f) \cup X)
          = Cardinality(Before(f)) + Cardinality(X) - Cardinality(Before(f) \cap X)
    BY <1>1, FS_Union
  <2>2. Cardinality(Before(f) \cap X) = 0
    BY <1>2, FS_EmptySet
  <2>3. Cardinality(Before(f)) \in Nat /\ Cardinality(X) \in Nat
    BY <1>1, FS_CardinalityType
  <2>. HIDE DEF X
  <2>. QED
    BY <2>1, <2>2, <2>3
<1>5. Cardinality(Before(f) \cup X) <= Cardinality(Before(g))
  BY <1>1, <1>3, FS_Subset
<1>. QED
  BY <1>1, <1>4, <1>5 DEF FirstId

\* So no identity is handed out twice in an update.
LEMMA NumberedApart ==
  ASSUME RadiosTyped
  PROVE  \A t, u \in Transceivers : t[1] = u[1] => t[2] = u[2]
<1>. SUFFICES ASSUME NEW t \in Transceivers, NEW u \in Transceivers, t[1] = u[1]
              PROVE  t[2] = u[2]
  OBVIOUS
<1>1. PICK f \in Receiving : t \in Identities(f) \X {f}
  BY DEF Transceivers
<1>2. PICK g \in Receiving : u \in Identities(g) \X {g}
  BY DEF Transceivers
<1>3. /\ t[1] \in Identities(f) /\ t[2] = f
      /\ t[1] \in Identities(g) /\ u[2] = g
  BY <1>1, <1>2
<1>4. /\ FirstId(f) \in Nat /\ FirstId(g) \in Nat
      /\ Announced(f) \in Nat /\ Announced(g) \in Nat
  BY BeforeFinite, AnnouncedPositive DEF RadiosTyped, Receiving
<1>5. f \in Nat /\ g \in Nat
  BY RadiosFinite
<1>6. ~(f < g)
  <2>1. f < g => FirstId(f) + Announced(f) <= FirstId(g)
    BY BlocksApart
  <2>. QED
    BY <1>3, <1>4, <2>1 DEF Identities
<1>7. ~(g < f)
  <2>1. g < f => FirstId(g) + Announced(g) <= FirstId(f)
    BY BlocksApart
  <2>. QED
    BY <1>3, <1>4, <2>1 DEF Identities
<1>. QED
  BY <1>3, <1>5, <1>6, <1>7

\* The identities are numbers, and those of a radio that receives.
LEMMA TransceiversTyped ==
  ASSUME RadiosTyped
  PROVE  Transceivers \subseteq Nat \X Freqs
<1>. SUFFICES ASSUME NEW t \in Transceivers PROVE t \in Nat \X Freqs
  OBVIOUS
<1>1. PICK f \in Receiving : t \in Identities(f) \X {f}
  BY DEF Transceivers
<1>2. f \in Freqs /\ Announced(f) \in Nat /\ FirstId(f) \in Nat
  BY BeforeFinite, AnnouncedPositive DEF RadiosTyped, Receiving
<1>3. Identities(f) \subseteq Nat
  BY <1>2 DEF Identities
<1>. QED
  BY <1>1, <1>2, <1>3

\* Once a frame of an update is posted, the server has of each radio that
\* receives what the radio has, and nothing of the others.
LEMMA NumberingTells ==
  ASSUME RadiosTyped, NEW f \in Freqs
  PROVE  LET told == {t[1] : t \in {u \in Transceivers : u[2] = f}}
         IN  /\ told # {} <=> f \in Receiving
             /\ f \in Receiving => told = Range(numberTransceivers[f].ids)
<1>. DEFINE told == {t[1] : t \in {u \in Transceivers : u[2] = f}}
<1>1. f \notin Receiving => told = {}
  BY DEF Transceivers
<1>2. ASSUME f \in Receiving PROVE told = Identities(f)
  <2>1. ASSUME NEW i \in Identities(f) PROVE i \in told
    <3>1. <<i, f>> \in Transceivers
      BY <1>2, <2>1 DEF Transceivers
    <3>2. <<i, f>> \in {u \in Transceivers : u[2] = f} /\ <<i, f>>[1] = i
      BY <3>1
    <3>. QED
      BY <3>2
  <2>2. ASSUME NEW t \in Transceivers, t[2] = f PROVE t[1] \in Identities(f)
    BY <2>2 DEF Transceivers
  <2>. QED
    BY <2>1, <2>2
<1>3. ASSUME f \in Receiving
      PROVE  /\ Identities(f) # {}
             /\ Identities(f) = Range(numberTransceivers[f].ids)
  <2>1. FirstId(f) \in Nat /\ Announced(f) \in Nat \ {0}
    BY <1>3, BeforeFinite, AnnouncedPositive DEF RadiosTyped, Receiving
  <2>2. f \in DOMAIN radios /\ radios[f].rx /\ radios[f] \in Radio
    BY <1>3 DEF Receiving, RadiosTyped
  <2>3. numberTransceivers[f].ids = [k \in 1 .. Announced(f) |-> FirstId(f) + k - 1]
    BY <2>2 DEF numberTransceivers, Radio
  <2>4. Range(numberTransceivers[f].ids) = {FirstId(f) + k - 1 : k \in 1 .. Announced(f)}
    BY <2>3 DEF Range
  <2>5. FirstId(f) .. FirstId(f) + Announced(f) - 1
          = {FirstId(f) + k - 1 : k \in 1 .. Announced(f)}
    <3>1. ASSUME NEW i \in FirstId(f) .. FirstId(f) + Announced(f) - 1
          PROVE  i \in {FirstId(f) + k - 1 : k \in 1 .. Announced(f)}
      <4>1. i - FirstId(f) + 1 \in 1 .. Announced(f)
        BY <2>1, <3>1
      <4>2. i = FirstId(f) + (i - FirstId(f) + 1) - 1
        BY <2>1, <3>1
      <4>. QED
        BY <4>1, <4>2
    <3>2. ASSUME NEW k \in 1 .. Announced(f)
          PROVE  FirstId(f) + k - 1 \in FirstId(f) .. FirstId(f) + Announced(f) - 1
      BY <2>1
    <3>. QED
      BY <3>1, <3>2
  <2>6. FirstId(f) \in Identities(f)
    BY <2>1 DEF Identities
  <2>. QED
    BY <2>4, <2>5, <2>6 DEF Identities
<1>. QED
  BY <1>1, <1>2, <1>3

\* Numbering keeps the radios what they are.
LEMMA NumberingTyped ==
  ASSUME RadiosTyped
  PROVE  /\ DOMAIN numberTransceivers = DOMAIN radios
         /\ \A f \in DOMAIN radios : /\ numberTransceivers[f] \in Radio
                                     /\ numberTransceivers[f].rx = radios[f].rx
<1>1. DOMAIN numberTransceivers = DOMAIN radios
  BY DEF numberTransceivers
<1>2. ASSUME NEW f \in DOMAIN radios, radios[f].rx
      PROVE  numberTransceivers[f] \in Radio /\ numberTransceivers[f].rx = radios[f].rx
  <2>1. FirstId(f) \in Nat /\ Announced(f) \in Nat /\ radios[f] \in Radio
    BY BeforeFinite, AnnouncedPositive DEF RadiosTyped
  <2>. DEFINE ids == [k \in 1 .. Announced(f) |-> FirstId(f) + k - 1]
  <2>2. ids \in [1 .. Announced(f) -> Nat]
    BY <2>1
  <2>3. ids \in Seq(Nat)
    BY <2>1, <2>2
  <2>4. numberTransceivers[f] = [radios[f] EXCEPT !.ids = ids]
    BY <1>2 DEF numberTransceivers
  <2>. HIDE DEF ids
  <2>. QED
    BY <2>1, <2>3, <2>4 DEF Radio
<1>3. ASSUME NEW f \in DOMAIN radios, ~radios[f].rx
      PROVE  numberTransceivers[f] \in Radio /\ numberTransceivers[f].rx = radios[f].rx
  BY <1>3 DEF numberTransceivers, RadiosTyped
<1>. QED
  BY <1>1, <1>2, <1>3

-----------------------------------------------------------------------------
\* The invariant.

\* It holds in the initial state.
LEMMA InitIInv == Init => IInv
<1>. SUFFICES ASSUME Init PROVE IInv
  OBVIOUS
<1>1. TypeOK
  BY DEF Init, StatusInit, TypeOK
<1>2. ToldAsTuned /\ IdentitiesUnique /\ SentIsTracked
  BY DEF Init, StatusInit, ToldAsTuned, IdentitiesUnique, SentIsTracked
<1>. QED
  BY <1>1, <1>2 DEF IInv

\* The steps of the application and of the event loop that only touch radios.
Tunes ==
  \/ Controller
  \/ \E f \in Freqs, n \in ListLengths : stationTransceiversUpdateCallback(f, n)

\* What the application does to the radios keeps them radios, and a frequency
\* that does not become dirty receives as before under the same identities.
LEMMA TuningStep ==
  ASSUME RadiosTyped, dirty \subseteq Freqs, Tunes
  PROVE  /\ RadiosTyped'
         /\ dirty \subseteq dirty' /\ dirty' \subseteq Freqs
         /\ \A g \in Freqs \ dirty' : /\ g \in Receiving' <=> g \in Receiving
                                      /\ g \in Receiving => radios'[g].ids = radios[g].ids
         /\ UNCHANGED <<status, pending, posting, serverVars>>
<1>. DEFINE Goal == /\ RadiosTyped'
                    /\ dirty \subseteq dirty' /\ dirty' \subseteq Freqs
                    /\ \A g \in Freqs \ dirty' :
                         /\ g \in Receiving' <=> g \in Receiving
                         /\ g \in Receiving => radios'[g].ids = radios[g].ids
                    /\ UNCHANGED <<status, pending, posting, serverVars>>
<1>. USE DEF RadiosTyped, Receiving
<1>0. NewRadio \in Radio
  BY DEF NewRadio, Radio
<1>1. CASE reset
  BY <1>1 DEF reset
<1>2. ASSUME NEW f \in Freqs, addFrequency(f) \/ touch(f) PROVE Goal
  <2>1. radios' = withNewRadio(f) /\ dirty' = dirty \cup {f}
    BY <1>2 DEF addFrequency, touch
  <2>2. RadiosTyped'
    BY <1>0, <2>1 DEF withNewRadio
  <2>. QED
    BY <1>2, <2>1, <2>2 DEF addFrequency, touch, withNewRadio
<1>3. ASSUME NEW f \in Freqs, removeFrequency(f) PROVE Goal
  <2>1. radios' = [g \in DOMAIN radios \ {f} |-> radios[g]]
    BY <1>3 DEF removeFrequency, Restrict
  <2>2. dirty' = dirty \/ dirty' = dirty \cup {f}
    BY <1>3 DEF removeFrequency
  <2>3. dirty' = dirty => radios' = radios \/ f \in dirty
    BY <1>3 DEF removeFrequency
  <2>. QED
    BY <1>3, <2>1, <2>2, <2>3 DEF removeFrequency
<1>4. ASSUME NEW f \in Freqs, NEW on \in BOOLEAN,
             setTx(f, on) \/ setXc(f, on) \/ setCrossCoupleAcross(f, on)
      PROVE  Goal
  <2>1. CASE ~isFrequencyActive(f)
    BY <1>4, <2>1 DEF setTx, setXc, setCrossCoupleAcross, setFlags, set
  <2>2. CASE isFrequencyActive(f)
    <3>1. PICK r : /\ r \in Radio /\ r.rx = radios[f].rx /\ r.ids = radios[f].ids
                   /\ radios' = [radios EXCEPT ![f] = r]
      <4>. radios[f] \in Radio
        BY <2>2 DEF isFrequencyActive
      <4>1. CASE setTx(f, on)
        <5>1. radios' = [radios EXCEPT ![f] = [radios[f] EXCEPT !.tx = on]]
          BY <4>1, <2>2 DEF setTx, setFlags, set
        <5>. QED
          BY <5>1 DEF Radio
      <4>2. CASE setXc(f, on)
        <5>1. radios' = [radios EXCEPT ![f] = [radios[f] EXCEPT !.xc = on]]
          BY <4>2, <2>2 DEF setXc, setFlags, set
        <5>. QED
          BY <5>1 DEF Radio
      <4>3. CASE setCrossCoupleAcross(f, on)
        <5>1. radios' = [radios EXCEPT
                ![f] = [radios[f] EXCEPT !.crossCoupleAcross = on, !.xc = FALSE]]
          BY <4>3, <2>2 DEF setCrossCoupleAcross, setFlags, set
        <5>. QED
          BY <5>1 DEF Radio
      <4>. QED
        BY <1>4, <4>1, <4>2, <4>3
    <3>2. UNCHANGED <<status, pending, posting, serverVars, dirty>>
      BY <1>4 DEF setTx, setXc, setCrossCoupleAcross, setFlags, set
    <3>. QED
      BY <3>1, <3>2
  <2>. QED
    BY <2>1, <2>2
<1>5. ASSUME NEW f \in Freqs, NEW on \in BOOLEAN, setRx(f, on) PROVE Goal
  <2>1. CASE radios' = radios
    BY <1>5, <2>1 DEF setRx, set
  <2>2. CASE radios' # radios
    <3>1. isFrequencyActive(f)
          /\ radios' = [radios EXCEPT ![f] = [radios[f] EXCEPT !.rx = on]]
      BY <1>5, <2>2 DEF setRx, set
    <3>2. [radios[f] EXCEPT !.rx = on] \in Radio
      BY <3>1 DEF isFrequencyActive, Radio
    <3>3. dirty' = dirty \cup {f}
      BY <1>5, <2>2 DEF setRx
    <3>. QED
      BY <1>5, <3>1, <3>2, <3>3 DEF setRx, set
  <2>. QED
    BY <2>1, <2>2
<1>6. ASSUME NEW f \in Freqs, NEW n \in ListLengths, setTransceivers(f, n) PROVE Goal
  <2>1. CASE ~isFrequencyActive(f)
    BY <1>6, <2>1 DEF setTransceivers
  <2>2. CASE isFrequencyActive(f)
    <3>. DEFINE r == [radios[f] EXCEPT !.ids = [k \in 1 .. n |-> 0]]
    <3>1. radios' = [radios EXCEPT ![f] = r] /\ dirty' = dirty \cup {f}
      BY <1>6, <2>2 DEF setTransceivers
    <3>2. r \in Radio
      <4>1. n \in Nat
        BY ListAssumption
      <4>2. [k \in 1 .. n |-> 0] \in Seq(Nat)
        BY <4>1
      <4>3. radios[f] \in Radio
        BY <2>2 DEF isFrequencyActive
      <4>. QED
        BY <4>2, <4>3 DEF Radio
    <3>. HIDE DEF r
    <3>. QED
      BY <1>6, <3>1, <3>2 DEF setTransceivers
  <2>. QED
    BY <2>1, <2>2
<1>. HIDE DEF RadiosTyped, Receiving
<1>. QED
  BY <1>1, <1>2, <1>3, <1>4, <1>5, <1>6
     DEF Tunes, Controller, linkTransceivers, stationTransceiversUpdateCallback

\* The timer keeps its type, and the application never puts it off.
LEMMA TuningTimer ==
  ASSUME Tunes, timer \in {"off", "now", "later"}
  PROVE  /\ timer' \in {"off", "now", "later"}
         /\ timer' = "later" => timer = "later"
         /\ Linked /\ timer # "off" => timer' # "off"
<1>. USE DEF queueTransceiverUpdate
<1>. QED
  BY DEF Tunes, Controller, reset, addFrequency, removeFrequency, touch, setTx, setRx,
         setXc, setCrossCoupleAcross, setFlags, set, linkTransceivers,
         stationTransceiversUpdateCallback, setTransceivers

\* The server's knowledge of a frequency stays true while the frequency does
\* not change.
LEMMA ToldStays ==
  ASSUME ToldAsTuned, posted' = posted, dirty \subseteq dirty',
         \A g \in Freqs \ dirty' : /\ g \in Receiving' <=> g \in Receiving
                                   /\ g \in Receiving => radios'[g].ids = radios[g].ids
  PROVE  ToldAsTuned'
<1>1. \A g : ToldOf(g)' = ToldOf(g)
  BY DEF ToldOf
<1>. QED
  BY <1>1 DEF ToldAsTuned

\* An update makes all frequencies known as they are.
LEMMA UpdateTells ==
  ASSUME RadiosTyped, sendTransceiverUpdate, Linked
  PROVE  RadiosTyped' /\ ToldAsTuned' /\ IdentitiesUnique' /\ posted' \subseteq Nat \X Freqs
<1>1. radios' = numberTransceivers /\ posted' = Transceivers /\ dirty' = {}
  BY DEF sendTransceiverUpdate
<1>2. RadiosTyped'
  BY <1>1, NumberingTyped DEF RadiosTyped
<1>3. Receiving' = Receiving
  BY <1>1, NumberingTyped DEF Receiving
<1>4. ASSUME NEW f \in Freqs
      PROVE  /\ ToldOf(f)' # {} <=> f \in Receiving'
             /\ f \in Receiving' => ToldOf(f)' = Range(radios'[f].ids)
  <2>1. ToldOf(f)' = {t[1] : t \in {u \in Transceivers : u[2] = f}}
    BY <1>1 DEF ToldOf
  <2>. QED
    BY <1>1, <1>3, <2>1, NumberingTells
<1>. QED
  BY <1>1, <1>2, <1>4, NumberedApart, TransceiversTyped DEF ToldAsTuned, IdentitiesUnique

\* The radios, and what the server knows of them.
LEMMA RadiosStep ==
  ASSUME IInv, [Next]_vars
  PROVE  /\ RadiosTyped' /\ dirty' \subseteq Freqs /\ posted' \subseteq Nat \X Freqs
         /\ ToldAsTuned' /\ IdentitiesUnique'
<1>0. /\ RadiosTyped /\ dirty \subseteq Freqs /\ posted \subseteq Nat \X Freqs
      /\ ToldAsTuned /\ IdentitiesUnique
  BY DEF IInv, TypeOK, RadiosTyped
<1>1. CASE Tunes
  <2>1. RadiosTyped' /\ dirty' \subseteq Freqs /\ posted' = posted
    BY <1>1, <1>0, TuningStep DEF serverVars
  <2>2. ToldAsTuned'
    BY <1>1, <1>0, <2>1, TuningStep, ToldStays
  <2>. QED
    BY <1>0, <2>1, <2>2 DEF IdentitiesUnique
<1>2. CASE sendTransceiverUpdate /\ Linked
  BY <1>0, <1>2, UpdateTells DEF sendTransceiverUpdate
<1>3. CASE UNCHANGED <<radios, posted, dirty>>
  <2>1. ToldAsTuned'
    BY <1>0, <1>3, ToldStays DEF Receiving
  <2>. QED
    BY <1>0, <1>3, <2>1 DEF RadiosTyped, IdentitiesUnique
<1>4. CASE voiceConnected \/ voiceEnded
  <2>1. dirty' = Freqs /\ posted' = {}
    BY <1>4 DEF voiceConnected, voiceEnded, ServerForgets
  <2>2. RadiosTyped'
    BY <1>0, <1>4 DEF voiceConnected, voiceEnded, RadiosTyped
  <2>. QED
    BY <2>1, <2>2 DEF ToldAsTuned, IdentitiesUnique
<1>. QED
  BY <1>1, <1>2, <1>3, <1>4
     DEF Next, Tunes, sendTransceiverUpdate, postCrossCoupleGroups, updateAcknowledged,
         updateFailed, apiChanged, vars, serverVars

\* The flags, the timer and the update keep their types.
LEMMA FlagsTyped ==
  ASSUME IInv, [Next]_vars
  PROVE  /\ \A flag \in {connected, voice, pending, posting, acked}' : flag \in BOOLEAN
         /\ timer' \in {"off", "now", "later"}
         /\ update' \in {"none", "live", "stale"}
<1>. USE DEF IInv, TypeOK, status, serverVars, ServerForgets
<1>1. CASE Tunes
  BY <1>1, TuningStep, TuningTimer DEF RadiosTyped
<1>2. CASE sendTransceiverUpdate
  BY <1>2 DEF sendTransceiverUpdate
<1>3. CASE postCrossCoupleGroups
  BY <1>3 DEF postCrossCoupleGroups
<1>4. CASE updateAcknowledged
  BY <1>4 DEF updateAcknowledged
<1>5. CASE updateFailed
  BY <1>5 DEF updateFailed
<1>6. CASE apiChanged
  BY <1>6 DEF apiChanged, APIUp, APIDown
<1>7. CASE voiceConnected
  BY <1>7 DEF voiceConnected, VoiceUp
<1>8. CASE voiceEnded
  BY <1>8 DEF voiceEnded, VoiceDown
<1>9. CASE UNCHANGED vars
  BY <1>9 DEF vars
<1>. QED
  BY <1>1, <1>2, <1>3, <1>4, <1>5, <1>6, <1>7, <1>8, <1>9 DEF Next, Tunes

\* The frequencies retuned while posting are frequencies.
LEMMA RetunedTyped ==
  ASSUME IInv, [Next]_vars
  PROVE  retuned' \subseteq Freqs
<1>0. retuned \subseteq Freqs
  BY DEF IInv, TypeOK
<1>1. ASSUME NEW f \in Freqs, NEW radio, setFlags(f, radio) PROVE retuned' \subseteq Freqs
  BY <1>0, <1>1 DEF setFlags
<1>2. CASE Controller
  BY <1>0, <1>1, <1>2
     DEF Controller, reset, addFrequency, removeFrequency, touch, setTx, setRx, setXc,
         setCrossCoupleAcross, linkTransceivers, setTransceivers
<1>3. CASE \E f \in Freqs, n \in ListLengths : stationTransceiversUpdateCallback(f, n)
  BY <1>0, <1>3 DEF stationTransceiversUpdateCallback, setTransceivers
<1>4. CASE sendTransceiverUpdate \/ postCrossCoupleGroups \/ updateAcknowledged \/ updateFailed
  BY <1>0, <1>4
     DEF sendTransceiverUpdate, postCrossCoupleGroups, updateAcknowledged, updateFailed
<1>5. CASE apiChanged \/ voiceConnected \/ voiceEnded \/ UNCHANGED vars
  BY <1>0, <1>5 DEF apiChanged, voiceConnected, voiceEnded, vars
<1>. QED
  BY <1>2, <1>3, <1>4, <1>5 DEF Next

\* What was sent stays tracked.
LEMMA SentStays ==
  ASSUME IInv, [Next]_vars
  PROVE  SentIsTracked'
<1>. USE DEF IInv, SentIsTracked, status, serverVars
<1>1. CASE Tunes
  <2>1. UNCHANGED <<status, pending, posting, serverVars>> /\ (timer' = "later" => timer = "later")
    BY <1>1, TuningStep, TuningTimer DEF RadiosTyped, TypeOK
  <2>. QED
    BY <2>1
<1>2. CASE sendTransceiverUpdate
  BY <1>2 DEF sendTransceiverUpdate, TypeOK
<1>3. CASE postCrossCoupleGroups
  BY <1>3 DEF postCrossCoupleGroups
<1>4. CASE updateAcknowledged
  BY <1>4 DEF updateAcknowledged, TypeOK
<1>5. CASE updateFailed
  BY <1>5 DEF updateFailed
<1>6. CASE apiChanged
  BY <1>6 DEF apiChanged, APIUp, APIDown
<1>7. CASE voiceConnected
  BY <1>7 DEF voiceConnected, VoiceUp
<1>8. CASE voiceEnded
  BY <1>8 DEF voiceEnded, VoiceDown
<1>9. CASE UNCHANGED vars
  BY <1>9 DEF vars
<1>. QED
  BY <1>1, <1>2, <1>3, <1>4, <1>5, <1>6, <1>7, <1>8, <1>9 DEF Next, Tunes

\* Every step keeps the invariant.
LEMMA NextIInv == IInv /\ [Next]_vars => IInv'
<1>. SUFFICES ASSUME IInv, [Next]_vars PROVE IInv'
  OBVIOUS
<1>1. TypeOK'
  BY RadiosStep, FlagsTyped, RetunedTyped DEF TypeOK, RadiosTyped
<1>. QED
  BY <1>1, RadiosStep, SentStays DEF IInv

-----------------------------------------------------------------------------
\* The invariant holds in every reachable state.
THEOREM RadioInvariant == Spec => []IInv
<1>. QED
  BY InitIInv, NextIInv, PTL DEF Spec

\* The state keeps its type, so every identity is a number from 0 on.
THEOREM TypeCorrect == Spec => []TypeOK
<1>1. IInv => TypeOK
  BY DEF IInv
<1>. QED
  BY <1>1, RadioInvariant, PTL

\* A shared identity betrays the frequency.
LEMMA ToldApart ==
  ASSUME IdentitiesUnique, NEW f, NEW g, NEW i \in ToldOf(f) \cap ToldOf(g)
  PROVE  f = g
<1>1. PICK t \in posted : t[2] = f /\ t[1] = i
  BY DEF ToldOf
<1>2. PICK u \in posted : u[2] = g /\ u[1] = i
  BY DEF ToldOf
<1>. QED
  BY <1>1, <1>2 DEF IdentitiesUnique

\* Once what the server has been told is acknowledged, radios with tx on are on
\* the air where they are tuned, and nothing else is but by a stale radio.
LEMMA AirIsExplained ==
  ASSUME IInv
  PROVE  /\ (Transmitting \cap Receiving) \ dirty \subseteq OnAir
         /\ \A f \in OnAir \ Transmitting :
              \E g \in Stale : Range(radios[g].ids) \cap ToldOf(f) # {}
<1>1. Transmitting \subseteq Freqs
  BY DEF IInv, TypeOK, Transmitting
<1>2. \A f \in Freqs \ dirty : f \in Receiving => ToldOf(f) # {} /\ ToldOf(f) = Range(radios[f].ids)
  BY DEF IInv, ToldAsTuned
<1>3. ASSUME NEW f \in Transmitting, f \in Receiving, f \notin dirty PROVE f \in OnAir
  <2>1. ToldOf(f) # {} /\ ToldOf(f) = Range(radios[f].ids)
    BY <1>1, <1>2, <1>3
  <2>2. Range(radios[f].ids) \subseteq Sent
    BY DEF Sent
  <2>. QED
    BY <1>1, <2>1, <2>2 DEF OnAir
<1>4. ASSUME NEW f \in OnAir, f \notin Transmitting
      PROVE  \E g \in Stale : Range(radios[g].ids) \cap ToldOf(f) # {}
  <2>1. PICK i : i \in ToldOf(f) /\ i \in Sent
    BY DEF OnAir
  <2>2. PICK g \in Transmitting : i \in Range(radios[g].ids)
    BY <2>1 DEF Sent
  <2>3. ASSUME g \notin Stale PROVE FALSE
    <3>1. g \in Receiving /\ g \notin dirty
      BY <2>3 DEF Stale
    <3>2. i \in ToldOf(g)
      BY <1>1, <1>2, <2>2, <3>1
    <3>3. f = g
      BY <2>1, <3>2, ToldApart DEF IInv
    <3>. QED
      BY <1>4, <3>3
  <2>. QED
    BY <2>1, <2>2, <2>3
<1>. QED
  BY <1>3, <1>4

\* For any frequencies and any stations, once an acknowledged client has nothing
\* to send, what its radios transmit goes out where they are tuned; only a
\* radio whose identities the last update passed by goes out elsewhere.
THEOREM AirFollowsTuning == Spec => []OnAirAsTuned
<1>1. IInv => OnAirAsTuned
  <2>. SUFFICES ASSUME IInv PROVE OnAirAsTuned
    OBVIOUS
  <2>1. Linked /\ ~pending /\ timer = "later" => acked
    BY DEF IInv, SentIsTracked, TypeOK, Linked
  <2>2. \A f \in Freqs \ dirty : ToldOf(f) # {} <=> f \in Receiving
    BY DEF IInv, ToldAsTuned
  <2>. QED
    BY <2>1, <2>2, AirIsExplained DEF OnAirAsTuned
<1>. QED
  BY <1>1, RadioInvariant, PTL

\* A sight of the radios has them all, under the identities they have, and is
\* wrong at most about the flags of those that are being retuned.
LEMMA SightsSee ==
  ASSUME RadiosTyped, NEW seen \in Sights
  PROVE  /\ DOMAIN seen = DOMAIN radios
         /\ \A f \in DOMAIN radios : /\ seen[f].rx = radios[f].rx
                                     /\ seen[f].ids = radios[f].ids
                                     /\ f \notin retuned => seen[f] = radios[f]
<1>1. DOMAIN seen = DOMAIN radios /\ \A f \in DOMAIN radios : seen[f] \in Seen(f)
  BY DEF Sights
<1>2. ASSUME NEW f \in DOMAIN radios, NEW radio \in Seen(f)
      PROVE  /\ radio.rx = radios[f].rx /\ radio.ids = radios[f].ids
             /\ f \notin retuned => radio = radios[f]
  <2>1. radios[f] \in Radio
    BY DEF RadiosTyped
  <2>2. CASE f \notin retuned
    BY <2>2 DEF Seen
  <2>3. CASE f \in retuned
    <3>1. PICK r \in Flags :
            radio = [radios[f] EXCEPT !.tx = r.tx, !.xc = r.xc,
                                      !.crossCoupleAcross = r.crossCoupleAcross]
      BY <2>3 DEF Seen
    <3>. QED
      BY <2>1, <2>3, <3>1 DEF Radio
  <2>. QED
    BY <2>2, <2>3
<1>. QED
  BY <1>1, <1>2

\* With all transceivers known, the groups make the server relay what is to be
\* relayed by the flags the walk has seen, and nothing else.
LEMMA GroupsExact ==
  ASSUME IInv, dirty = {}, NEW seen \in Sights, NEW f \in Freqs, NEW g \in Freqs
  PROVE  Relayed(CrossCoupleGroups(seen), f, g) <=> ToBeRelayed(seen, f, g)
<1>. DEFINE coupled == {h \in DOMAIN seen : Coupled(seen[h])}
            across  == {h \in coupled : seen[h].crossCoupleAcross}
            Ids(h)  == Range(seen[h].ids)
<1>1. CrossCoupleGroups(seen)
        = {UNION {Ids(h) : h \in across}} \cup {Ids(h) : h \in coupled \ across}
  BY DEF CrossCoupleGroups
<1>0. /\ DOMAIN seen = DOMAIN radios /\ DOMAIN radios \subseteq Freqs
      /\ \A h \in DOMAIN radios : seen[h].rx = radios[h].rx /\ seen[h].ids = radios[h].ids
  BY SightsSee DEF IInv, TypeOK, RadiosTyped
<1>2. \A h \in Receiving : ToldOf(h) = Ids(h) /\ ToldOf(h) # {}
  BY <1>0 DEF IInv, ToldAsTuned, Receiving
<1>3. \A h \in Freqs : ToldOf(h) # {} => h \in Receiving
  BY DEF IInv, ToldAsTuned
<1>4. coupled \subseteq Receiving
  BY <1>0 DEF Coupled, Receiving
<1>5. \A h \in Freqs, k \in coupled : \A i : i \in ToldOf(h) /\ i \in Ids(k) => h = k
  BY <1>2, <1>4, ToldApart DEF IInv
<1>6. \A h \in Receiving : seen[h].tx /\ (seen[h].xc \/ seen[h].crossCoupleAcross)
                             => h \in coupled
  <2>. SUFFICES ASSUME NEW h \in Receiving,
                       seen[h].tx /\ (seen[h].xc \/ seen[h].crossCoupleAcross)
                PROVE  seen[h].ids # <<>>
    BY <1>0 DEF Coupled, Receiving
  <2>1. Range(seen[h].ids) # {}
    BY <1>2
  <2>2. Range(<<>>) = {}
    BY DEF Range
  <2>. QED
    BY <2>1, <2>2
<1>7. ASSUME Relayed(CrossCoupleGroups(seen), f, g) PROVE ToBeRelayed(seen, f, g)
  <2>1. PICK G \in CrossCoupleGroups(seen) : G \cap ToldOf(f) # {} /\ G \cap ToldOf(g) # {}
    BY <1>7 DEF Relayed
  <2>2. PICK i, j : i \in G /\ i \in ToldOf(f) /\ j \in G /\ j \in ToldOf(g)
    BY <2>1
  <2>3. CASE G = UNION {Ids(h) : h \in across}
    <3>1. PICK h \in across, k \in across : i \in Ids(h) /\ j \in Ids(k)
      BY <2>2, <2>3
    <3>2. f \in across /\ g \in across
      BY <1>5, <2>2, <3>1
    <3>. QED
      BY <1>4, <3>2 DEF ToBeRelayed, Coupled
  <2>4. CASE \E h \in coupled \ across : G = Ids(h)
    <3>1. PICK h \in coupled \ across : G = Ids(h)
      BY <2>4
    <3>2. f = h /\ g = h
      BY <1>5, <2>2, <3>1
    <3>. QED
      BY <1>4, <3>1, <3>2 DEF ToBeRelayed, Coupled
  <2>. QED
    BY <1>1, <2>1, <2>3, <2>4
<1>8. ASSUME ToBeRelayed(seen, f, g) PROVE Relayed(CrossCoupleGroups(seen), f, g)
  <2>1. f \in Receiving /\ g \in Receiving /\ seen[f].tx /\ seen[g].tx
    BY <1>8 DEF ToBeRelayed
  <2>2. CASE seen[f].crossCoupleAcross /\ seen[g].crossCoupleAcross
    <3>1. f \in across /\ g \in across
      BY <1>6, <2>1, <2>2
    <3>. DEFINE G == UNION {Ids(h) : h \in across}
    <3>2. ToldOf(f) \subseteq G /\ ToldOf(g) \subseteq G
      BY <1>2, <2>1, <3>1
    <3>3. G \in CrossCoupleGroups(seen)
      BY <1>1
    <3>. HIDE DEF G
    <3>. QED
      BY <1>2, <2>1, <3>2, <3>3 DEF Relayed
  <2>3. CASE f = g /\ seen[f].xc /\ ~seen[f].crossCoupleAcross
    <3>1. f \in coupled \ across
      BY <1>6, <2>1, <2>3
    <3>2. Ids(f) \in CrossCoupleGroups(seen)
      BY <1>1, <3>1
    <3>. QED
      BY <1>2, <2>1, <2>3, <3>2 DEF Relayed
  <2>. QED
    BY <1>8, <2>2, <2>3 DEF ToBeRelayed
<1>. QED
  BY <1>7, <1>8

\* For any frequencies, stations and couplings, the groups that follow an update
\* are those the controller asked for, between frequencies whose flags were not
\* set meanwhile and whatever the walk saw of those that were.
THEOREM CouplingIsExact == Spec => GroupsAsCoupled
<1>1. ASSUME IInv, dirty = {}, NEW seen \in Sights,
             NEW f \in Freqs \ retuned, NEW g \in Freqs \ retuned
      PROVE  Relayed(CrossCoupleGroups(seen), f, g) <=> ToBeRelayed(radios, f, g)
  <2>1. {f, g} \subseteq Receiving => seen[f] = radios[f] /\ seen[g] = radios[g]
    BY <1>1, SightsSee DEF IInv, TypeOK, RadiosTyped, Receiving
  <2>2. ToBeRelayed(seen, f, g) <=> ToBeRelayed(radios, f, g)
    BY <2>1 DEF ToBeRelayed
  <2>. QED
    BY <1>1, <2>2, GroupsExact
<1>2. IInv => [posting /\ ~posting' /\ dirty = {} =>
                \A seen \in Sights : \A f, g \in Freqs \ retuned :
                  Relayed(CrossCoupleGroups(seen), f, g) <=> ToBeRelayed(radios, f, g)]_vars
  BY <1>1
<1>. QED
  BY <1>2, RadioInvariant, PTL DEF Spec, GroupsAsCoupled

\* Updates of the transceivers do not stop while both sessions last.
THEOREM UpdatesNeverStop == Spec => UpdatesGoOn
<1>1. ASSUME IInv, [Next]_vars, Linked, Linked', timer # "off" \/ posting
      PROVE  timer' # "off" \/ posting'
  <2>0. timer \in {"off", "now", "later"} /\ posting \in BOOLEAN
    BY <1>1 DEF IInv, TypeOK
  <2>1. CASE Tunes
    <3>1. posting' = posting
      BY <1>1, <2>1, TuningStep DEF IInv, TypeOK, RadiosTyped
    <3>. QED
      BY <1>1, <2>0, <2>1, <3>1, TuningTimer
  <2>2. CASE sendTransceiverUpdate
    BY <1>1, <2>2 DEF sendTransceiverUpdate
  <2>3. CASE postCrossCoupleGroups
    BY <2>3 DEF postCrossCoupleGroups
  <2>4. CASE updateAcknowledged \/ updateFailed \/ apiChanged
    BY <1>1, <2>4 DEF updateAcknowledged, updateFailed, apiChanged
  <2>5. CASE voiceConnected
    BY <1>1, <2>5 DEF voiceConnected, VoiceUp, Linked
  <2>6. CASE voiceEnded
    BY <1>1, <2>6 DEF voiceEnded, VoiceDown, Linked
  <2>7. CASE UNCHANGED vars
    BY <1>1, <2>7 DEF vars
  <2>. QED
    BY <1>1, <2>1, <2>2, <2>3, <2>4, <2>5, <2>6, <2>7 DEF Next, Tunes
<1>. QED
  BY <1>1, RadioInvariant, PTL DEF Spec, UpdatesGoOn
=============================================================================
