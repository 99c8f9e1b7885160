------------------------------ MODULE AtcRadio ------------------------------
(***************************************************************************)
(* The controllers' radios: ATCClient and ATCRadioSimulation from tuning a *)
(* frequency to the server knowing it.  A radio transmits and is cross     *)
(* coupled by the identities of its transceivers, which are handed out     *)
(* anew, over all receiving radios in the order of their frequencies,      *)
(* whenever an update is posted.                                           *)
(*                                                                         *)
(* The application's threads and the event loop share only the lock around *)
(* mRadioState, so the application may act between the two halves of an    *)
(* update; and the second half reads the radios without that lock, so a    *)
(* setter's change may be seen or missed by it.  The sessions are those of *)
(* ClientStatus.                                                           *)
(***************************************************************************)
EXTENDS ClientStatus, Integers, Sequences, FiniteSets, Functions

CONSTANTS
  Freqs,       \* the frequencies in use
  ListLengths  \* how many transceivers a station may have

ASSUME FreqsAssumption == Freqs \subseteq Nat \ {0} /\ IsFiniteSet(Freqs)
ASSUME ListAssumption == ListLengths \subseteq Nat \ {0}

\* AtcRadioState, as far as the server is concerned.  ids are the identities
\* of transceivers; there are none until the server has named some or an
\* update has put the radio at the position of the client.
Radio == [tx : BOOLEAN, rx : BOOLEAN, xc : BOOLEAN, crossCoupleAcross : BOOLEAN,
          ids : Seq(Nat)]

NewRadio == [tx |-> FALSE, rx |-> TRUE, xc |-> FALSE, crossCoupleAcross |-> FALSE,
             ids |-> <<>>]

VARIABLES
  radios,   \* mRadioState: a function on the active frequencies
  timer,    \* mTransceiverUpdateTimer: "off", due "now" or in a minute, "later"
  pending,  \* mTxUpdatePending
  posting,  \* the event loop is between the two posts of an update, where it
            \* walks mRadioState for the groups
  retuned,  \* auxiliary: while posting, the frequencies a setter of tx, xc or
            \* crossCoupleAcross was called for since the first post
  update,   \* the update request in flight: "none", "live", or "stale" when its
            \* voice session has ended
  posted,   \* auxiliary: the transceivers in the last update of this voice
            \* session, pairs of identity and frequency
  acked,    \* auxiliary: the server has acknowledged posted
  dirty     \* auxiliary: frequencies whose transceivers changed since posted

serverVars == <<update, posted, acked>>
vars == <<status, radios, timer, pending, posting, retuned, serverVars, dirty>>

Linked == connected /\ voice

isFrequencyActive(f) == f \in DOMAIN radios

isFrequencyActiveButUnused(f) ==
  isFrequencyActive(f) /\ ~radios[f].tx /\ ~radios[f].rx /\ ~radios[f].xc

Init ==
  /\ StatusInit
  /\ radios = [f \in {} |-> NewRadio]
  /\ timer = "off" /\ pending = FALSE /\ posting = FALSE /\ retuned = {}
  /\ update = "none"
  /\ posted = {} /\ acked = FALSE /\ dirty = Freqs

-----------------------------------------------------------------------------
\* The update: who announces what, and under which identities.

Receiving == {f \in DOMAIN radios : radios[f].rx}

\* A radio without transceivers announces one, at the position of the client.
Announced(f) == IF radios[f].ids = <<>> THEN 1 ELSE Len(radios[f].ids)

\* The transceivers announced before those of f.
Before(f) == UNION {{g} \X (1 .. Announced(g)) : g \in {h \in Receiving : h < f}}

\* Fault: the numbers start below zero.
FirstIdTooLow(f) == Cardinality(Before(f)) - 1

FirstId(f) == Cardinality(Before(f))

Identities(f) == FirstId(f) .. FirstId(f) + Announced(f) - 1

\* What makeTransceiverDto returns.
Transceivers == UNION {Identities(f) \X {f} : f \in Receiving}

\* Fault: the radios are not told their new identities.
keepIdentities == radios

\* What makeTransceiverDto does to the radios: only those that receive are
\* numbered, the others keep what they had.
numberTransceivers ==
  [f \in DOMAIN radios |->
     IF radios[f].rx
     THEN [radios[f] EXCEPT !.ids = [k \in 1 .. Announced(f) |-> FirstId(f) + k - 1]]
     ELSE radios[f]]

\* What decides, besides rx, whether and how a radio is coupled.
Flags == [tx : BOOLEAN, xc : BOOLEAN, crossCoupleAcross : BOOLEAN]

\* What the walk over the radios may read of each: the flags of a radio that is
\* being retuned are read one by one, before or after they are written.
Seen(f) ==
  IF f \in retuned
  THEN {[radios[f] EXCEPT !.tx = r.tx, !.xc = r.xc,
                          !.crossCoupleAcross = r.crossCoupleAcross] : r \in Flags}
  ELSE {radios[f]}

Sights ==
  {seen \in [DOMAIN radios -> UNION {Seen(f) : f \in DOMAIN radios}] :
     \A f \in DOMAIN radios : seen[f] \in Seen(f)}

\* Fault: a radio that does not receive is coupled as well.
CoupledAnyhow(radio) ==
  /\ radio.xc \/ radio.crossCoupleAcross
  /\ radio.tx
  /\ radio.ids # <<>>

Coupled(radio) ==
  /\ radio.xc \/ radio.crossCoupleAcross
  /\ radio.tx /\ radio.rx
  /\ radio.ids # <<>>

\* makeCrossCoupleGroupDto, for the radios as its walk sees them: one group for
\* all that are coupled across, and one for each that is coupled in itself.
CrossCoupleGroups(seen) ==
  LET coupled == {f \in DOMAIN seen : Coupled(seen[f])}
      across  == {f \in coupled : seen[f].crossCoupleAcross}
      Ids(f)  == Range(seen[f].ids)
  IN {UNION {Ids(f) : f \in across}} \cup {Ids(f) : f \in coupled \ across}

-----------------------------------------------------------------------------
\* The application tunes its radios.

queueTransceiverUpdate == timer' = IF Linked THEN "now" ELSE "off"

\* A setter of a radio: without effect when the frequency is not active, but
\* the update is queued in either case.
set(f, radio) ==
  /\ radios' = IF isFrequencyActive(f) THEN [radios EXCEPT ![f] = radio] ELSE radios
  /\ queueTransceiverUpdate
  /\ UNCHANGED <<status, pending, posting, serverVars>>

\* The walk for the groups, if there is one by now, may see this or not.
setFlags(f, radio) ==
  /\ set(f, radio)
  /\ retuned' = IF posting THEN retuned \cup {f} ELSE retuned
  /\ UNCHANGED dirty

setTx(f, on) == setFlags(f, [radios[f] EXCEPT !.tx = on])

setXc(f, on) == setFlags(f, [radios[f] EXCEPT !.xc = on])

\* Coupling across ends the coupling of the frequency in itself, either way.
setCrossCoupleAcross(f, on) ==
  setFlags(f, [radios[f] EXCEPT !.crossCoupleAcross = on, !.xc = FALSE])

setRx(f, on) ==
  /\ set(f, [radios[f] EXCEPT !.rx = on])
  /\ dirty' = IF radios' = radios THEN dirty ELSE dirty \cup {f}
  /\ UNCHANGED retuned

\* mRadioState[f] = AtcRadioState().
withNewRadio(f) ==
  [g \in DOMAIN radios \cup {f} |-> IF g = f THEN NewRadio ELSE radios[g]]

\* addFrequency: nothing happens to a frequency in use.
addFrequency(f) ==
  /\ ~isFrequencyActive(f) \/ isFrequencyActiveButUnused(f)
  /\ radios' = withNewRadio(f)
  /\ queueTransceiverUpdate
  /\ dirty' = dirty \cup {f}
  /\ UNCHANGED <<status, pending, posting, retuned, serverVars>>

removeFrequency(f) ==
  /\ radios' = Restrict(radios, DOMAIN radios \ {f})
  /\ queueTransceiverUpdate
  /\ dirty' = IF radios' = radios THEN dirty ELSE dirty \cup {f}
  /\ UNCHANGED <<status, pending, posting, retuned, serverVars>>

\* setGain and getLastTransmitOnFreq look a frequency up with operator[], so
\* one that is not active becomes active, receives, and waits for the next
\* update.
touch(f) ==
  /\ ~isFrequencyActive(f)
  /\ radios' = withNewRadio(f)
  /\ dirty' = dirty \cup {f}
  /\ UNCHANGED <<status, timer, pending, posting, retuned, serverVars>>

\* setTransceivers: the n transceivers of a station, with no identity yet.
setTransceivers(f, n) ==
  /\ IF isFrequencyActive(f)
     THEN /\ radios' = [radios EXCEPT ![f].ids = [k \in 1 .. n |-> 0]]
          /\ dirty' = dirty \cup {f}
     ELSE UNCHANGED <<radios, dirty>>
  /\ UNCHANGED <<status, pending, posting, retuned, serverVars>>

\* setManualTransceivers, and linkTransceivers of a station known already.
linkTransceivers(f, n) == setTransceivers(f, n) /\ queueTransceiverUpdate

\* stationTransceiversUpdateCallback for a station that nobody waits to link:
\* the radio of the station has new transceivers and no update is queued.
stationTransceiversUpdateCallback(f, n) ==
  /\ ~posting
  /\ isFrequencyActive(f)
  /\ setTransceivers(f, n)
  /\ UNCHANGED timer

\* ATCClient::reset forgets all radios and queues nothing.
reset ==
  /\ radios' = [f \in {} |-> NewRadio]
  /\ dirty' = dirty \cup DOMAIN radios
  /\ UNCHANGED <<status, timer, pending, posting, retuned, serverVars>>

-----------------------------------------------------------------------------
\* The event loop sends the update.

\* sendTransceiverUpdate up to the post of the transceivers, which cancels the
\* update in flight.
sendTransceiverUpdate ==
  /\ timer # "off" /\ ~posting
  /\ timer' = "off"
  /\ IF Linked
     THEN /\ radios' = numberTransceivers
          /\ pending' = TRUE
          /\ update' = "live"
          /\ posted' = Transceivers
          /\ acked' = FALSE
          /\ dirty' = {}
          /\ posting' = TRUE
     ELSE UNCHANGED <<radios, pending, serverVars, dirty, posting>>
  /\ UNCHANGED <<status, retuned>>

\* Fault: the update is not repeated.
postOnce ==
  /\ posting
  /\ posting' = FALSE
  /\ retuned' = {}
  /\ UNCHANGED <<status, radios, timer, pending, serverVars, dirty>>

\* sendTransceiverUpdate from the walk for the cross-coupling to the end; what
\* the walk gives is CrossCoupleGroups of one of the Sights at this point.  An update
\* that the application queued in between is put off until the next minute.
postCrossCoupleGroups ==
  /\ posting
  /\ posting' = FALSE
  /\ retuned' = {}
  /\ timer' = "later"
  /\ UNCHANGED <<status, radios, pending, serverVars, dirty>>

\* The answer is 200.
updateAcknowledged ==
  /\ ~posting
  /\ update # "none"
  /\ acked' = (acked \/ update = "live")
  /\ update' = "none"
  /\ pending' = FALSE
  /\ UNCHANGED <<status, radios, timer, posting, retuned, posted, dirty>>

\* Any other answer leaves the update pending.
updateFailed ==
  /\ ~posting
  /\ update # "none"
  /\ update' = "none"
  /\ UNCHANGED <<status, radios, timer, pending, posting, retuned, posted, acked, dirty>>

-----------------------------------------------------------------------------
\* The sessions, and ATCClient::voiceStateCallback.  They begin on the event
\* loop; the application may end them at any time.

apiChanged ==
  /\ (~posting /\ APIUp) \/ APIDown
  /\ UNCHANGED <<radios, timer, pending, posting, retuned, serverVars, dirty>>

\* The server has nothing of this session, and what is in flight is not of it.
ServerForgets ==
  /\ update' = IF update = "none" THEN "none" ELSE "stale"
  /\ posted' = {}
  /\ acked' = FALSE

voiceConnected ==
  /\ ~posting
  /\ VoiceUp
  /\ timer' = IF connected /\ voice' THEN "now" ELSE "off"
  /\ ServerForgets
  /\ dirty' = Freqs
  /\ UNCHANGED <<radios, pending, posting, retuned>>

voiceEnded ==
  /\ VoiceDown
  /\ timer' = "off"
  /\ radios' = [f \in {} |-> NewRadio]
  /\ ServerForgets
  /\ dirty' = Freqs
  /\ UNCHANGED <<pending, posting, retuned>>

-----------------------------------------------------------------------------
Controller ==
  \/ reset
  \/ \E f \in Freqs : addFrequency(f) \/ removeFrequency(f) \/ touch(f)
  \/ \E f \in Freqs, on \in BOOLEAN :
       setTx(f, on) \/ setRx(f, on) \/ setXc(f, on) \/ setCrossCoupleAcross(f, on)
  \/ \E f \in Freqs, n \in ListLengths : linkTransceivers(f, n)

Next ==
  \/ Controller
  \/ \E f \in Freqs, n \in ListLengths : stationTransceiversUpdateCallback(f, n)
  \/ sendTransceiverUpdate
  \/ postCrossCoupleGroups
  \/ updateAcknowledged
  \/ updateFailed
  \/ apiChanged
  \/ voiceConnected
  \/ voiceEnded

Spec == Init /\ [][Next]_vars

-----------------------------------------------------------------------------
TypeOK ==
  /\ DOMAIN radios \subseteq Freqs
  /\ \A f \in DOMAIN radios : radios[f] \in Radio
  /\ timer \in {"off", "now", "later"}
  /\ update \in {"none", "live", "stale"}
  /\ posted \subseteq Nat \X Freqs
  /\ dirty \subseteq Freqs /\ retuned \subseteq Freqs
  /\ \A flag \in {connected, voice, pending, posting, acked} : flag \in BOOLEAN

\* The identities under which the server was told of a frequency.
ToldOf(f) == {t[1] : t \in {u \in posted : u[2] = f}}

\* processCompressedFrame sends a frame to all transceivers of the radios with tx
\* on, whether they receive or not, and the server transmits it on the
\* frequencies it was told those identities stand for.
Transmitting == {f \in DOMAIN radios : radios[f].tx}

Sent == UNION {Range(radios[f].ids) : f \in Transmitting}

OnAir == {f \in Freqs : ToldOf(f) \cap Sent # {}}

\* A radio that transmits under identities the last update did not give it: it
\* does not receive, so makeTransceiverDto passed it by, or it changed since.
Stale == {f \in Transmitting : f \notin Receiving \/ f \in dirty}

\* Once the client has an acknowledgement and nothing more to send, the server
\* has exactly the radios that receive, apart from those that changed since.
\* Each of these whose tx is on is on the air, and any other frequency that is
\* on the air is there through an identity that a stale radio kept: with no
\* stale radio the client is on the air where it is tuned and nowhere else,
\* whatever was added, removed or relinked before and however the numbering
\* moved.
OnAirAsTuned ==
  Linked /\ ~pending /\ timer = "later" =>
    /\ acked
    /\ \A f \in Freqs \ dirty : ToldOf(f) # {} <=> f \in Receiving
    /\ (Transmitting \cap Receiving) \ dirty \subseteq OnAir
    /\ \A f \in OnAir \ Transmitting :
         \E g \in Stale : Range(radios[g].ids) \cap ToldOf(f) # {}

\* The server relays what it receives on f to g when a group has a transceiver
\* of each; with f = g, between the transceivers of one frequency.
Relayed(groups, f, g) ==
  \E G \in groups : G \cap ToldOf(f) # {} /\ G \cap ToldOf(g) # {}

ToBeRelayed(tuned, f, g) ==
  /\ {f, g} \subseteq Receiving
  /\ tuned[f].tx /\ tuned[g].tx
  /\ \/ f = g /\ tuned[f].xc
     \/ tuned[f].crossCoupleAcross /\ tuned[g].crossCoupleAcross

\* When no transceivers change between the two posts of an update, the groups
\* make the server relay exactly what the controller coupled, between all
\* frequencies that were not retuned meanwhile and whatever the walk for the
\* groups saw of the others.  Two frequencies that were both retuned in the
\* middle of the walk may be grouped although they were never coupled together.
GroupsAsCoupled ==
  [][posting /\ ~posting' /\ dirty = {} =>
       \A seen \in Sights : \A f, g \in Freqs \ retuned :
         Relayed(CrossCoupleGroups(seen), f, g) <=> ToBeRelayed(radios, f, g)]_vars

\* While both sessions last the client never stops updating the server once it
\* has begun, so a change made in the middle of an update, or without queueing
\* one, goes out in the end.
UpdatesGoOn ==
  [][Linked /\ Linked' /\ (timer # "off" \/ posting) => timer' # "off" \/ posting']_vars
=============================================================================
