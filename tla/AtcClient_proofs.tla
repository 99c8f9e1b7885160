-------------------------- MODULE AtcClient_proofs --------------------------
(***************************************************************************)
(* Proofs about modules HttpRequest and AtcClient: requests keep what      *)
(* RequestFlag promises however handles are reused, a released PTT is off, *)
(* and a frequency is linked to the station that was asked for, for any    *)
(* number of handles, frequencies and stations.                            *)
(***************************************************************************)
EXTENDS AtcClient, TLAPS

-----------------------------------------------------------------------------
\* The requests.

\* Starting a request.
LEMMA StartStep ==
  ASSUME HttpTypeOK, NEW r \in Requests, NEW a \in Asks, start(r, a), UNCHANGED notifying
  PROVE  /\ HttpTypeOK'
         /\ asking' = [asking EXCEPT ![r] = a]
         /\ \A k \in multi' : IF transfers'[k] = r
                              THEN asked'[k] = a
                              ELSE k \in multi /\ UNCHANGED <<transfers[k], asked[k]>>
<1>1. PICK h \in Handles \ {handle[q] : q \in Requests \ {r}} :
        /\ handle' = [handle EXCEPT ![r] = h]
        /\ managed' = managed \cup {r}
        /\ transfers' = [k \in (DOMAIN transfers \ Dropped(r)) \cup {h} |->
                           IF k = h THEN r ELSE transfers[k]]
        /\ multi' = (multi \ Dropped(r)) \cup {h}
        /\ finished' = finished \ (Dropped(r) \cup {h})
        /\ asked' = [asked EXCEPT ![h] = a]
  BY DEF start
<1>2. /\ handle \in [Requests -> Handles \cup {NoHandle}]
      /\ managed \subseteq {q \in Requests : handle[q] # NoHandle}
      /\ DOMAIN transfers = multi
      /\ finished \subseteq multi /\ multi \subseteq Handles
      /\ \A k \in multi : transfers[k] \in managed /\ handle[transfers[k]] = k
      /\ asked \in [Handles -> Asks \cup {NoAsk}]
      /\ notifying \subseteq Requests \X Asks /\ \A c, d \in notifying : c = d
  BY DEF HttpTypeOK
<1>3. /\ h \in Handles /\ h # NoHandle
      /\ \A q \in Requests \ {r} : handle[q] # h
      /\ handle' \in [Requests -> Handles \cup {NoHandle}]
      /\ handle'[r] = h /\ \A q \in Requests \ {r} : handle'[q] = handle[q]
      /\ asked' \in [Handles -> Asks \cup {NoAsk}]
      /\ asked'[h] = a /\ \A k \in Handles \ {h} : asked'[k] = asked[k]
  BY <1>1, <1>2, HandlesAssumption
<1>4. ASSUME NEW k \in multi', k # h
      PROVE  k \in multi /\ transfers[k] # r /\ transfers'[k] = transfers[k]
  <2>1. k \in multi /\ k \notin Dropped(r)
    BY <1>1, <1>4
  <2>2. transfers[k] # r
    BY <1>2, <2>1 DEF Dropped
  <2>. QED
    BY <1>1, <1>2, <1>4, <2>1, <2>2
<1>5. h \in multi' /\ transfers'[h] = r
  BY <1>1
<1>6. HttpTypeOK'
  <2>1. managed' \subseteq {q \in Requests : handle'[q] # NoHandle}
    BY <1>1, <1>2, <1>3
  <2>2. DOMAIN transfers' = multi'
    BY <1>1, <1>2
  <2>3. finished' \subseteq multi' /\ multi' \subseteq Handles
    BY <1>1, <1>2
  <2>4. \A k \in multi' : transfers'[k] \in managed' /\ handle'[transfers'[k]] = k
    BY <1>1, <1>2, <1>3, <1>4, <1>5
  <2>. QED
    BY <1>2, <1>3, <2>1, <2>2, <2>3, <2>4 DEF HttpTypeOK
<1>7. \A q \in Requests \ {r} : /\ q \in managed' <=> q \in managed
                                /\ UNCHANGED handle[q]
                                /\ q \in managed => UNCHANGED asked[handle[q]]
  BY <1>1, <1>2, <1>3
<1>8. asking' = [asking EXCEPT ![r] = a]
  <2>1. \A q \in Requests \ {r} : asking'[q] = asking[q]
    BY <1>7 DEF asking
  <2>2. asking'[r] = a
    BY <1>1, <1>3 DEF asking
  <2>3. asking = [q \in Requests |-> asking[q]] /\ asking' = [q \in Requests |-> asking'[q]]
    BY DEF asking
  <2>. HIDE DEF asking
  <2>. QED
    BY <2>1, <2>2, <2>3
<1>9. \A k \in multi' : IF transfers'[k] = r
                        THEN asked'[k] = a
                        ELSE k \in multi /\ UNCHANGED <<transfers[k], asked[k]>>
  BY <1>2, <1>3, <1>4, <1>5
<1>. QED
  BY <1>6, <1>8, <1>9

\* A finished request is answered.
LEMMA NotifyStep ==
  ASSUME HttpTypeOK, NEW h, notify(h), asked[h] \in Asks
  PROVE  /\ HttpTypeOK'
         /\ h \in multi /\ transfers[h] \in Requests
         /\ asking[transfers[h]] = asked[h]
         /\ asking' = [asking EXCEPT ![transfers[h]] = NoAsk]
         /\ multi' \subseteq multi /\ asked' = asked
         /\ \A k \in multi' : transfers'[k] = transfers[k]
         /\ notifying = {} /\ notifying' = {<<transfers[h], asked[h]>>}
<1>1. /\ handle \in [Requests -> Handles \cup {NoHandle}]
      /\ managed \subseteq {q \in Requests : handle[q] # NoHandle}
      /\ DOMAIN transfers = multi
      /\ finished \subseteq multi /\ multi \subseteq Handles
      /\ \A k \in multi : transfers[k] \in managed /\ handle[transfers[k]] = k
      /\ asked \in [Handles -> Asks \cup {NoAsk}]
  BY DEF HttpTypeOK
<1>2. /\ h \in finished
      /\ multi' = multi \ {h} /\ finished' = finished \ {h}
      /\ transfers' = [k \in DOMAIN transfers \ {h} |-> transfers[k]]
      /\ managed' = managed \ {transfers[h]}
      /\ notifying = {} /\ notifying' = {<<transfers[h], asked[h]>>}
      /\ UNCHANGED <<handle, asked>>
  BY DEF notify, Restrict
<1>3. h \in multi /\ transfers[h] \in managed /\ transfers[h] \in Requests
      /\ handle[transfers[h]] = h
  BY <1>1, <1>2
<1>4. \A k \in multi' : transfers'[k] = transfers[k] /\ transfers[k] # transfers[h]
  BY <1>1, <1>2, <1>3
<1>5. HttpTypeOK'
  <2>1. notifying' \subseteq Requests \X Asks /\ \A c, d \in notifying' : c = d
    BY <1>2, <1>3
  <2>2. \A k \in multi' : transfers'[k] \in managed' /\ handle'[transfers'[k]] = k
    BY <1>1, <1>2, <1>4
  <2>3. DOMAIN transfers' = multi' /\ finished' \subseteq multi' /\ multi' \subseteq Handles
    BY <1>1, <1>2
  <2>. QED
    BY <1>1, <1>2, <2>1, <2>2, <2>3 DEF HttpTypeOK
<1>6. asking[transfers[h]] = asked[h]
  BY <1>3 DEF asking
<1>7. asking' = [asking EXCEPT ![transfers[h]] = NoAsk]
  <2>1. \A q \in Requests \ {transfers[h]} : asking'[q] = asking[q]
    BY <1>2 DEF asking
  <2>2. asking'[transfers[h]] = NoAsk
    BY <1>2, <1>3 DEF asking
  <2>3. asking = [q \in Requests |-> asking[q]] /\ asking' = [q \in Requests |-> asking'[q]]
    BY DEF asking
  <2>. HIDE DEF asking
  <2>. QED
    BY <1>3, <2>1, <2>2, <2>3
<1>. QED
  BY <1>2, <1>3, <1>4, <1>5, <1>6, <1>7

\* A request is reset at the end of its callback.
LEMMA ResetStep ==
  ASSUME HttpTypeOK, NEW r \in Requests, resetRequest(r), notifying' = {}
  PROVE  /\ HttpTypeOK'
         /\ asking' = [asking EXCEPT ![r] = NoAsk]
         /\ multi' \subseteq multi /\ asked' = asked
         /\ \A k \in multi' : transfers'[k] = transfers[k]
<1>1. /\ handle \in [Requests -> Handles \cup {NoHandle}]
      /\ managed \subseteq {q \in Requests : handle[q] # NoHandle}
      /\ DOMAIN transfers = multi
      /\ finished \subseteq multi /\ multi \subseteq Handles
      /\ \A k \in multi : transfers[k] \in managed /\ handle[transfers[k]] = k
      /\ asked \in [Handles -> Asks \cup {NoAsk}]
  BY DEF HttpTypeOK
<1>2. /\ handle' = [handle EXCEPT ![r] = NoHandle]
      /\ managed' = managed \ {r}
      /\ transfers' = [k \in DOMAIN transfers \ Dropped(r) |-> transfers[k]]
      /\ multi' = multi \ Dropped(r) /\ finished' = finished \ Dropped(r)
      /\ asked' = asked
  BY DEF resetRequest, Restrict
<1>3. \A k \in multi' : transfers'[k] = transfers[k] /\ transfers[k] # r
  BY <1>1, <1>2 DEF Dropped
<1>4. HttpTypeOK'
  <2>1. \A k \in multi' : transfers'[k] \in managed' /\ handle'[transfers'[k]] = k
    BY <1>1, <1>2, <1>3
  <2>2. managed' \subseteq {q \in Requests : handle'[q] # NoHandle}
    BY <1>1, <1>2
  <2>3. DOMAIN transfers' = multi' /\ finished' \subseteq multi' /\ multi' \subseteq Handles
    BY <1>1, <1>2
  <2>. QED
    BY <1>1, <1>2, <2>1, <2>2, <2>3 DEF HttpTypeOK
<1>5. asking' = [asking EXCEPT ![r] = NoAsk]
  <2>1. \A q \in Requests \ {r} : asking'[q] = asking[q]
    BY <1>1, <1>2 DEF asking
  <2>2. asking'[r] = NoAsk
    BY <1>2 DEF asking
  <2>3. asking = [q \in Requests |-> asking[q]] /\ asking' = [q \in Requests |-> asking'[q]]
    BY DEF asking
  <2>. HIDE DEF asking
  <2>. QED
    BY <2>1, <2>2, <2>3
<1>. QED
  BY <1>1, <1>2, <1>3, <1>4, <1>5

\* Nothing but finished and notifying changes.
LEMMA IdleStep ==
  ASSUME HttpTypeOK, UNCHANGED <<handle, managed, transfers, multi, asked>>,
         finished' \subseteq multi, notifying' \in {notifying, {}}
  PROVE  /\ HttpTypeOK'
         /\ asking' = asking
<1>1. HttpTypeOK'
  BY DEF HttpTypeOK
<1>. QED
  BY <1>1 DEF asking

-----------------------------------------------------------------------------
\* The invariant.

\* The transfers ask what their objects are there for.
AsksFit ==
  \A k \in multi : IF transfers[k] = "update" THEN asked[k] = Update ELSE asked[k] \in Stations

\* unguardPtt goes on only while the PTT is wanted, unless a release overlaps.
UnguardingWanted ==
  Unguarding /\ ~raced => wantPtt /\ (guarding = "transmit" => ptt)

\* The microphone is on only with mPtt, until the one who changed that passes
\* it on.
MicNeedsPtt ==
  ~raced /\ setting # "transmit" /\ guarding # "transmit" => (mic => ptt)

\* setPtt leaves mPtt open only when the PTT is wanted.
ReleaseCloses ==
  /\ setting = "pressed" => wantPtt
  /\ ~wantPtt /\ ~raced /\ ~Unguarding /\ setting \in {"no", "transmit"} => ~ptt

\* The link that is awaited is about to be requested, or its request is out, or
\* the answer is being handled; and the flag is that of the link.
LinkInFlight ==
  muddled \/ IF awaited = NoLink
             THEN flag = NoFreq
             ELSE /\ flag = awaited[1]
                  /\ \/ requesting = {awaited[2]} /\ ~StationBusy
                     \/ /\ requesting = {} /\ ~AboutToReset
                        /\ asking["station"] = awaited[2]
                     \/ /\ requesting = {} /\ linking # "no"
                        /\ notifying = {<<"station", awaited[2]>>}

PttInv == UnguardingWanted /\ MicNeedsPtt /\ ReleaseCloses

IInv == TypeOK /\ AsksFit /\ PttInv /\ LinkInFlight

\* It holds in the initial state.
LEMMA InitIInv == Init => IInv
<1>. SUFFICES ASSUME Init PROVE IInv
  OBVIOUS
<1>1. HttpTypeOK
  BY DEF Init, HttpInit, HttpTypeOK
<1>2. TypeOK
  BY <1>1 DEF Init, StatusInit, HttpInit, TypeOK, NoLink
<1>3. AsksFit /\ PttInv /\ LinkInFlight
  BY DEF Init, HttpInit, AsksFit, PttInv, UnguardingWanted, MicNeedsPtt, ReleaseCloses,
         Unguarding, LinkInFlight, NoLink
<1>. QED
  BY <1>2, <1>3 DEF IInv

\* A transfer that finishes was asked something.
LEMMA AskedSomething ==
  ASSUME HttpTypeOK, AsksFit, NEW k \in multi
  PROVE  /\ asked[k] \in Asks
         /\ transfers[k] = "station" => asked[k] \in Stations
         /\ transfers[k] = "update" => asked[k] = Update
<1>1. transfers[k] \in Requests
  BY DEF HttpTypeOK
<1>. QED
  BY <1>1, RequestsAssumption, AsksAssumption DEF AsksFit

\* What a step does to the requests.
HttpGoal == HttpTypeOK' /\ AsksFit' /\ [Flag!Next]_(Flag!vars)

\* Starting the update or a station request.
LEMMA AskStep ==
  ASSUME HttpTypeOK, AsksFit, NEW r \in Requests, NEW a \in Asks, start(r, a),
         UNCHANGED notifying, IF r = "update" THEN a = Update ELSE a \in Stations
  PROVE  HttpGoal /\ asking' = [asking EXCEPT ![r] = a]
<1>1. HttpTypeOK' /\ asking' = [asking EXCEPT ![r] = a]
  BY StartStep
<1>2. Flag!Next
  BY <1>1 DEF Flag!Next, Flag!Ask
<1>3. \A k \in multi' : IF transfers'[k] = r
                        THEN asked'[k] = a
                        ELSE k \in multi /\ UNCHANGED <<transfers[k], asked[k]>>
  BY StartStep
<1>4. AsksFit'
  BY <1>3 DEF AsksFit
<1>. QED
  BY <1>1, <1>2, <1>4 DEF HttpGoal

\* Notifying an object.
LEMMA AnswerStep ==
  ASSUME HttpTypeOK, AsksFit, NEW h \in finished, notify(h)
  PROVE  /\ HttpGoal
         /\ h \in multi /\ asking[transfers[h]] = asked[h]
         /\ asking' = [asking EXCEPT ![transfers[h]] = NoAsk]
         /\ notifying = {} /\ notifying' = {<<transfers[h], asked[h]>>}
<1>1. h \in multi /\ asked[h] \in Asks
  BY AskedSomething DEF HttpTypeOK
<1>2. /\ HttpTypeOK' /\ transfers[h] \in Requests
      /\ asking[transfers[h]] = asked[h]
      /\ asking' = [asking EXCEPT ![transfers[h]] = NoAsk]
      /\ multi' \subseteq multi /\ asked' = asked
      /\ \A k \in multi' : transfers'[k] = transfers[k]
      /\ notifying = {} /\ notifying' = {<<transfers[h], asked[h]>>}
  BY <1>1, NotifyStep
<1>3. AsksFit'
  BY <1>2 DEF AsksFit
<1>4. Flag!Answer(transfers[h])
  BY <1>1, <1>2, HandlesAssumption DEF Flag!Answer
<1>. QED
  BY <1>1, <1>2, <1>3, <1>4 DEF HttpGoal, Flag!Next

\* The end of a callback, with or without a reset, and steps of others.
LEMMA QuietStep ==
  ASSUME HttpTypeOK, AsksFit, UNCHANGED <<handle, managed, transfers, multi, asked>>,
         finished' \subseteq multi, notifying' \in {notifying, {}}
  PROVE  HttpGoal /\ asking' = asking
<1>1. HttpTypeOK' /\ asking' = asking
  BY IdleStep
<1>2. AsksFit'
  BY DEF AsksFit
<1>3. Requests # {}
  BY RequestsAssumption
<1>4. [Flag!Next]_(Flag!vars)
  BY <1>1, <1>3 DEF Flag!Next, Flag!Return, Flag!vars
<1>. QED
  BY <1>1, <1>2, <1>4 DEF HttpGoal

\* The callback of a request for a station ends with a reset.
LEMMA ReturnStep ==
  ASSUME HttpTypeOK, AsksFit, stationReturns
  PROVE  HttpGoal /\ asking' = [asking EXCEPT !["station"] = NoAsk] /\ notifying' = {}
<1>1. /\ HttpTypeOK' /\ asking' = [asking EXCEPT !["station"] = NoAsk]
      /\ multi' \subseteq multi /\ asked' = asked
      /\ \A k \in multi' : transfers'[k] = transfers[k]
      /\ notifying' = {}
  BY ResetStep, RequestsAssumption DEF stationReturns
<1>2. AsksFit'
  BY <1>1 DEF AsksFit
<1>3. Flag!Next
  BY <1>1, RequestsAssumption DEF Flag!Next, Flag!Return
<1>. QED
  BY <1>1, <1>2, <1>3 DEF HttpGoal

\* Every step is one of these.
LEMMA HttpStep ==
  ASSUME IInv, [Next]_vars
  PROVE  HttpGoal
<1>0. HttpTypeOK /\ AsksFit
  BY DEF IInv, TypeOK
<1>. finished \subseteq multi
  BY <1>0 DEF HttpTypeOK
<1>1. CASE sendTransceiverUpdate
  BY <1>0, <1>1, AskStep, RequestsAssumption, AsksAssumption DEF sendTransceiverUpdate
<1>2. ASSUME NEW s \in Stations, requestAccepted(s), UNCHANGED notifying PROVE HttpGoal
  <2>1. start("station", s) /\ "station" \in Requests /\ s \in Asks /\ "station" # "update"
    BY <1>2, RequestsAssumption, AsksAssumption DEF requestAccepted
  <2>. QED
    BY <1>0, <1>2, <2>1, AskStep
<1>3. CASE \/ \E ok \in BOOLEAN : updateAnswered(ok)
           \/ stationAnswered \/ stationFailed
  <2>1. PICK h \in finished : notify(h)
    BY <1>3 DEF updateAnswered, stationAnswered, stationFailed
  <2>. QED
    BY <1>0, <2>1, AnswerStep
<1>4. CASE stationReturns
  BY <1>0, <1>4, ReturnStep
<1>5. CASE transferDone
  BY <1>0, <1>5, QuietStep DEF transferDone
<1>6. CASE updateReturns
  BY <1>0, <1>6, QuietStep DEF updateReturns
<1>7. CASE requestDropped /\ UNCHANGED notifying
  BY <1>0, <1>7, QuietStep DEF requestDropped
<1>8. CASE UNCHANGED httpVars
  BY <1>0, <1>8, QuietStep DEF httpVars
<1>9. CASE pressPtt \/ guardPtt \/ releasePtt \/ comparePtt \/ assignPtt \/ transmitPtt
           \/ testGuard \/ openPtt \/ transmitUnguarded
           \/ apiChanged \/ voiceConnected \/ voiceEnded
           \/ linkStation \/ clearFlag
           \/ \E empty \in BOOLEAN : testFlag(empty)
           \/ \E s \in Stations, f \in Freqs : linkTransceivers(s, f)
  BY <1>8, <1>9 DEF pressPtt, guardPtt, releasePtt, comparePtt, assignPtt, transmitPtt,
       PttUnchanged, testGuard, openPtt, transmitUnguarded, apiChanged, voiceConnected,
       voiceEnded, linkStation, clearFlag, testFlag, linkTransceivers
<1>10. CASE requestLinked \/ \E s \in Stations : requestStationTransceivers(s)
  <2>1. requesting \subseteq Stations
    BY DEF IInv, TypeOK
  <2>. QED
    BY <1>2, <1>7, <1>10, <2>1 DEF requestStationTransceivers, requestLinked
<1>11. CASE UNCHANGED vars
  BY <1>8, <1>11 DEF vars
<1>. QED
  BY <1>1, <1>3, <1>4, <1>5, <1>6, <1>9, <1>10, <1>11
     DEF Next, Application, EventLoop, Curl

-----------------------------------------------------------------------------
\* The PTT.

\* The two threads keep their places, and the flags their types.
LEMMA PlacesTyped ==
  ASSUME IInv, [Next]_vars
  PROVE  /\ setting' \in {"no", "pressed", "compare", "assign", "transmit"}
         /\ guarding' \in {"no", "test", "open", "transmit"}
         /\ \A b \in {connected, voice, wantPtt, ptt, mic, pending, raced, muddled}' :
              b \in BOOLEAN
<1>. USE DEF IInv, TypeOK, status, pttVars, linkVars, PttUnchanged
<1>1. CASE pressPtt \/ guardPtt
  BY <1>1 DEF pressPtt, guardPtt
<1>2. CASE releasePtt
  BY <1>2 DEF releasePtt
<1>3. CASE comparePtt \/ transmitPtt
  BY <1>3 DEF comparePtt, transmitPtt
<1>4. CASE assignPtt
  BY <1>4 DEF assignPtt
<1>5. CASE requestLinked \/ \E s \in Stations : requestStationTransceivers(s)
  BY <1>5 DEF requestStationTransceivers, requestLinked
<1>6. CASE \E s \in Stations, f \in Freqs : linkTransceivers(s, f)
  BY <1>6 DEF linkTransceivers
<1>7. CASE sendTransceiverUpdate
  BY <1>7 DEF sendTransceiverUpdate
<1>8. CASE \E ok \in BOOLEAN : updateAnswered(ok)
  BY <1>8 DEF updateAnswered
<1>9. CASE testGuard \/ openPtt \/ transmitUnguarded \/ updateReturns
  BY <1>9 DEF testGuard, openPtt, transmitUnguarded, updateReturns
<1>10. CASE stationAnswered \/ linkStation \/ clearFlag
            \/ \E empty \in BOOLEAN : testFlag(empty)
  BY <1>10 DEF stationAnswered, linkStation, clearFlag, testFlag
<1>11. CASE stationFailed
  BY <1>11 DEF stationFailed
<1>12. CASE stationReturns \/ Curl
  BY <1>12 DEF stationReturns, Curl
<1>13. CASE apiChanged \/ voiceConnected
  BY <1>13 DEF apiChanged, APIUp, APIDown, voiceConnected, VoiceUp
<1>14. CASE voiceEnded
  BY <1>14 DEF voiceEnded, VoiceDown
<1>15. CASE UNCHANGED vars
  BY <1>15 DEF vars
<1>. QED
  BY <1>1, <1>2, <1>3, <1>4, <1>5, <1>6, <1>7, <1>8, <1>9, <1>10, <1>11, <1>12, <1>13,
     <1>14, <1>15 DEF Next, Application, EventLoop

\* Both threads keep the PTT in order.
LEMMA PttStep ==
  ASSUME IInv, [Next]_vars
  PROVE  PttInv'
<1>. USE DEF IInv, PttInv, UnguardingWanted, MicNeedsPtt, ReleaseCloses, Unguarding,
             PttUnchanged
<1>0. /\ setting \in {"no", "pressed", "compare", "assign", "transmit"}
      /\ guarding \in {"no", "test", "open", "transmit"}
      /\ guarding # "no" => notifying # {}
      /\ wantPtt \in BOOLEAN /\ ptt \in BOOLEAN /\ mic \in BOOLEAN /\ raced \in BOOLEAN
  BY DEF TypeOK
<1>1. CASE pressPtt
  BY <1>0, <1>1 DEF pressPtt, Free
<1>2. CASE guardPtt
  BY <1>0, <1>2 DEF guardPtt
<1>3. CASE releasePtt
  BY <1>0, <1>3 DEF releasePtt, Free
<1>4. CASE comparePtt
  BY <1>0, <1>4 DEF comparePtt
<1>5. CASE assignPtt
  BY <1>0, <1>5 DEF assignPtt
<1>6. CASE transmitPtt
  BY <1>0, <1>6 DEF transmitPtt
<1>7. CASE testGuard
  BY <1>0, <1>7 DEF testGuard
<1>8. CASE openPtt
  BY <1>0, <1>8 DEF openPtt
<1>9. CASE transmitUnguarded
  BY <1>0, <1>9 DEF transmitUnguarded
<1>10. CASE \E ok \in BOOLEAN : updateAnswered(ok)
  <2>1. /\ UNCHANGED <<wantPtt, ptt, mic, setting, raced>>
        /\ notifying = {} /\ guarding' \in {guarding, "test"}
    BY <1>10 DEF updateAnswered, notify
  <2>. QED
    BY <1>0, <2>1
<1>11. CASE voiceEnded
  BY <1>0, <1>11 DEF voiceEnded
<1>12. CASE UNCHANGED <<wantPtt, ptt, mic, setting, guarding, raced>>
  BY <1>0, <1>12
<1>13. CASE \/ \E s \in Stations : requestStationTransceivers(s)
                                  \/ \E f \in Freqs : linkTransceivers(s, f)
            \/ sendTransceiverUpdate \/ updateReturns \/ Curl
            \/ requestLinked \/ linkStation \/ clearFlag
            \/ \E empty \in BOOLEAN : testFlag(empty)
            \/ stationAnswered \/ stationFailed \/ stationReturns
            \/ apiChanged \/ voiceConnected \/ UNCHANGED vars
  <2>1. UNCHANGED <<wantPtt, ptt, mic, setting, guarding, raced>>
    BY <1>13 DEF requestStationTransceivers, linkTransceivers, sendTransceiverUpdate,
         requestLinked, linkStation, clearFlag, testFlag, updateReturns, Curl,
         stationAnswered, stationFailed, stationReturns, apiChanged, voiceConnected,
         pttVars, vars
  <2>. QED
    BY <1>12, <2>1
<1>. QED
  BY <1>1, <1>2, <1>3, <1>4, <1>5, <1>6, <1>7, <1>8, <1>9, <1>10, <1>11, <1>13
     DEF Next, Application, EventLoop

-----------------------------------------------------------------------------
\* The links.

\* What TypeOK says of the flag and the links.
LinksTyped ==
  /\ flag \in Freqs \cup {NoFreq}
  /\ requesting \subseteq Stations /\ \A s, t \in requesting : s = t
  /\ linking \in {"no", "test", "link", "clear"}
  /\ linking # "no" => \E s \in Stations : notifying = {<<"station", s>>}
  /\ linking \in {"link", "clear"} => flag # NoFreq
  /\ {link, awaited} \subseteq (Freqs \X Stations) \cup {NoLink}

\* An update does not touch the request for a station.
LEMMA LinkUndisturbed ==
  ASSUME LinkInFlight, LinksTyped, UNCHANGED <<flag, requesting, linking, awaited, muddled>>,
         asking'["station"] = asking["station"],
         \A c \in notifying' : c \in notifying \/ c[1] # "station",
         linking # "no" => notifying' = notifying
  PROVE  LinkInFlight'
<1>. QED
  BY DEF LinkInFlight, StationBusy, AboutToReset

\* A link that is awaited and not muddled is one.
LEMMA AwaitedLink ==
  ASSUME LinksTyped, awaited # NoLink
  PROVE  /\ awaited \in Freqs \X Stations
         /\ awaited[1] \in Freqs /\ awaited[2] \in Stations /\ awaited[1] # NoFreq
         /\ awaited = <<awaited[1], awaited[2]>>
  BY NoFreqAssumption DEF LinksTyped

\* Steps in the callback of a request for a station, and around it, leave the
\* links in order and make the one that is awaited.
LEMMA LinkStep ==
  ASSUME IInv, [Next]_vars
  PROVE  /\ LinkInFlight' /\ LinksTyped'
         /\ link' \notin {link, NoLink} => muddled \/ link' = awaited
<1>0. /\ HttpTypeOK /\ AsksFit /\ LinkInFlight /\ LinksTyped
      /\ muddled \in BOOLEAN /\ finished \subseteq multi
      /\ guarding # "no" => notifying = {<<"update", Update>>}
  BY DEF IInv, TypeOK, LinksTyped, HttpTypeOK
<1>. DEFINE Goal == /\ LinkInFlight' /\ LinksTyped'
                    /\ link' \notin {link, NoLink} => muddled \/ link' = awaited
<1>a. ASSUME UNCHANGED linkVars, asking'["station"] = asking["station"],
             \A c \in notifying' : c \in notifying \/ c[1] # "station",
             linking # "no" => notifying' = notifying
      PROVE  Goal
  BY <1>0, <1>a, LinkUndisturbed DEF linkVars, LinksTyped
<1>b. "station" \in Requests /\ "update" \in Requests
      /\ \A s \in Stations : s \in Asks /\ s # NoAsk
  BY RequestsAssumption, AsksAssumption, HandlesAssumption
<1>c. "station" \in DOMAIN asking
  BY <1>b DEF asking
<1>d. linking # "no" => AboutToReset
  <2>. SUFFICES ASSUME linking # "no" PROVE AboutToReset
    OBVIOUS
  <2>1. PICK s \in Stations : notifying = {<<"station", s>>}
    BY <1>0 DEF LinksTyped
  <2>2. <<"station", s>> \in notifying /\ <<"station", s>>[1] = "station"
    BY <2>1
  <2>. QED
    BY <2>2 DEF AboutToReset
<1>1. CASE sendTransceiverUpdate
  <2>1. start("update", Update) /\ UNCHANGED <<notifying, linkVars>>
    BY <1>1 DEF sendTransceiverUpdate
  <2>2. Update \in Asks
    BY AsksAssumption
  <2>3. asking' = [asking EXCEPT !["update"] = Update]
    BY <1>0, <1>b, <2>1, <2>2, AskStep
  <2>. QED
    BY <1>a, <1>c, <2>1, <2>3
<1>2. ASSUME NEW s \in Stations, NEW f \in Freqs, linkTransceivers(s, f) PROVE Goal
  <2>1. /\ flag' = f /\ awaited' = <<f, s>> /\ requesting' = {s}
        /\ muddled' = (muddled \/ awaited # NoLink \/ StationBusy)
        /\ UNCHANGED <<linking, link>> /\ UNCHANGED httpVars
    BY <1>2 DEF linkTransceivers
  <2>2. f # NoFreq /\ awaited' # NoLink /\ awaited'[1] = f /\ awaited'[2] = s
    BY <2>1, NoFreqAssumption DEF NoLink
  <2>3. LinksTyped'
    BY <1>0, <2>1, <2>2 DEF LinksTyped, httpVars
  <2>4. StationBusy' = StationBusy
    BY <2>1 DEF StationBusy, AboutToReset, asking, httpVars
  <2>. QED
    BY <1>0, <2>1, <2>2, <2>3, <2>4 DEF LinkInFlight
<1>3. ASSUME NEW s \in requesting, requestAccepted(s), UNCHANGED muddled, requesting' = {},
             UNCHANGED <<notifying, flag, linking, link, awaited>>
      PROVE  Goal
  <2>1. s \in Stations /\ requesting = {s}
    BY <1>0, <1>3 DEF LinksTyped
  <2>2. asking' = [asking EXCEPT !["station"] = s]
    BY <1>0, <1>3, <1>b, <2>1, AskStep DEF requestAccepted
  <2>3. asking'["station"] = s
    BY <1>c, <2>2
  <2>4. LinksTyped'
    BY <1>0, <1>3 DEF LinksTyped
  <2>5. LinkInFlight'
    BY <1>0, <1>3, <2>1, <2>3 DEF LinkInFlight, StationBusy, AboutToReset
  <2>. QED
    BY <1>3, <2>4, <2>5
<1>4. ASSUME NEW s \in requesting, requestDropped, requesting' = {},
             muddled' = (muddled \/ awaited # NoLink),
             UNCHANGED <<notifying, flag, linking, link, awaited>>
      PROVE  Goal
  BY <1>0, <1>4 DEF LinksTyped, LinkInFlight
<1>5. CASE requestLinked
  BY <1>3, <1>4, <1>5 DEF requestLinked
<1>6. ASSUME NEW s \in Stations, requestStationTransceivers(s) PROVE Goal
  <2>1. /\ UNCHANGED <<flag, requesting, linking, awaited, link, notifying>>
        /\ muddled' = (muddled \/ awaited # NoLink)
    BY <1>6 DEF requestStationTransceivers
  <2>. QED
    BY <1>0, <2>1 DEF LinksTyped, LinkInFlight
<1>7. CASE \E ok \in BOOLEAN : updateAnswered(ok)
  <2>1. PICK h \in finished : transfers[h] = "update" /\ notify(h)
    BY <1>7 DEF updateAnswered
  <2>2. /\ asking' = [asking EXCEPT !["update"] = NoAsk]
        /\ notifying = {} /\ notifying' = {<<"update", asked[h]>>}
    BY <1>0, <2>1, AnswerStep
  <2>3. UNCHANGED linkVars
    BY <1>7 DEF updateAnswered
  <2>4. linking = "no"
    BY <1>0, <2>2 DEF LinksTyped
  <2>. QED
    BY <1>a, <1>c, <2>2, <2>3, <2>4
<1>8. CASE stationAnswered
  <2>1. PICK h \in finished : transfers[h] = "station" /\ notify(h)
    BY <1>8 DEF stationAnswered
  <2>2. linking' = "test" /\ UNCHANGED <<flag, requesting, link, awaited, muddled>>
    BY <1>8 DEF stationAnswered
  <2>3. /\ asking["station"] = asked[h] /\ asked[h] \in Stations
        /\ notifying' = {<<"station", asked[h]>>} /\ notifying = {}
    BY <1>0, <2>1, AnswerStep, AskedSomething
  <2>4. StationBusy
    BY <1>b, <2>3 DEF StationBusy
  <2>5. LinksTyped'
    BY <1>0, <2>2, <2>3 DEF LinksTyped
  <2>6. LinkInFlight'
    BY <1>0, <2>2, <2>3, <2>4 DEF LinkInFlight
  <2>. QED
    BY <2>2, <2>5, <2>6
<1>9. ASSUME NEW empty \in BOOLEAN, testFlag(empty) PROVE Goal
  <2>1. /\ linking = "test"
        /\ linking' = IF flag = NoFreq THEN "no" ELSE IF empty THEN "clear" ELSE "link"
        /\ UNCHANGED <<flag, requesting, link, awaited, muddled>> /\ UNCHANGED httpVars
    BY <1>9 DEF testFlag
  <2>2. LinksTyped'
    BY <1>0, <2>1 DEF LinksTyped, httpVars
  <2>3. AboutToReset
    BY <1>d, <2>1
  <2>4. /\ UNCHANGED <<notifying, asking["station"]>>
        /\ AboutToReset' = AboutToReset /\ StationBusy' = StationBusy
    BY <2>1 DEF asking, AboutToReset, StationBusy, httpVars
  <2>5. LinkInFlight'
    BY <1>0, <2>1, <2>3, <2>4, AwaitedLink DEF LinkInFlight, StationBusy
  <2>. QED
    BY <2>1, <2>2, <2>5
<1>10. CASE linkStation
  <2>1. /\ linking = "link" /\ linking' = "clear"
        /\ link' \in {<<flag, c[2]>> : c \in notifying}
        /\ UNCHANGED <<flag, requesting, awaited, muddled>> /\ UNCHANGED httpVars
    BY <1>10 DEF linkStation
  <2>2. PICK s \in Stations : notifying = {<<"station", s>>}
    BY <1>0, <2>1 DEF LinksTyped
  <2>3. link' = <<flag, s>> /\ flag \in Freqs /\ flag # NoFreq
    BY <1>0, <2>1, <2>2 DEF LinksTyped
  <2>4. LinksTyped'
    BY <1>0, <2>1, <2>2, <2>3 DEF LinksTyped, httpVars
  <2>5. /\ UNCHANGED <<notifying, asking["station"]>> /\ AboutToReset
        /\ AboutToReset' = AboutToReset /\ StationBusy' = StationBusy
    BY <1>d, <2>1 DEF asking, AboutToReset, StationBusy, httpVars
  <2>6. LinkInFlight'
    BY <1>0, <2>1, <2>5 DEF LinkInFlight, StationBusy
  <2>7. ~muddled => awaited # NoLink /\ flag = awaited[1] /\ s = awaited[2]
    <3>. SUFFICES ASSUME ~muddled
                  PROVE  awaited # NoLink /\ flag = awaited[1] /\ s = awaited[2]
      OBVIOUS
    <3>1. awaited # NoLink /\ flag = awaited[1] /\ notifying = {<<"station", awaited[2]>>}
      BY <1>0, <2>3, <2>5 DEF LinkInFlight, StationBusy
    <3>2. <<"station", s>> = <<"station", awaited[2]>>
      BY <2>2, <3>1
    <3>. QED
      BY <3>1, <3>2
  <2>8. ~muddled => link' = awaited
    BY <1>0, <2>3, <2>7, AwaitedLink
  <2>. QED
    BY <2>4, <2>6, <2>8
<1>11. CASE clearFlag
  <2>1. /\ flag' = NoFreq /\ linking' = "no" /\ link' = NoLink /\ awaited' = NoLink
        /\ UNCHANGED requesting /\ UNCHANGED httpVars
    BY <1>11 DEF clearFlag, flagAfterLink
  <2>. QED
    BY <1>0, <2>1 DEF LinksTyped, LinkInFlight, httpVars
<1>12. CASE stationFailed
  <2>1. PICK h \in finished : notify(h)
    BY <1>12 DEF stationFailed
  <2>2. notifying = {}
    BY <2>1 DEF notify
  <2>3. /\ UNCHANGED <<flag, requesting, linking, link, awaited>>
        /\ muddled' = (muddled \/ awaited # NoLink)
    BY <1>12 DEF stationFailed
  <2>4. linking = "no"
    BY <1>0, <2>2 DEF LinksTyped
  <2>. QED
    BY <1>0, <2>3, <2>4 DEF LinksTyped, LinkInFlight
<1>13. CASE stationReturns
  <2>1. AboutToReset /\ linking = "no" /\ UNCHANGED linkVars
    BY <1>13 DEF stationReturns, AboutToReset
  <2>2. muddled \/ (awaited = NoLink /\ flag = NoFreq)
    BY <1>0, <2>1 DEF LinkInFlight, StationBusy
  <2>. QED
    BY <1>0, <2>1, <2>2 DEF linkVars, LinkInFlight, LinksTyped
<1>14. CASE updateReturns
  <2>1. /\ UNCHANGED linkVars /\ UNCHANGED <<handle, managed, transfers, multi, asked>>
        /\ notifying' = {} /\ \E c \in notifying : c[1] = "update"
    BY <1>14 DEF updateReturns
  <2>2. linking = "no"
    BY <1>0, <2>1 DEF LinksTyped
  <2>3. asking' = asking
    BY <2>1 DEF asking
  <2>. QED
    BY <1>a, <2>1, <2>2, <2>3
<1>15. CASE \/ pressPtt \/ guardPtt \/ releasePtt \/ comparePtt \/ assignPtt \/ transmitPtt
           \/ testGuard \/ openPtt \/ transmitUnguarded \/ Curl
           \/ apiChanged \/ voiceConnected \/ voiceEnded \/ UNCHANGED vars
  <2>1. /\ UNCHANGED linkVars /\ UNCHANGED <<handle, managed, transfers, multi, asked>>
        /\ notifying' = notifying
    BY <1>15 DEF pressPtt, guardPtt, releasePtt, comparePtt, assignPtt, transmitPtt,
       PttUnchanged, testGuard, openPtt, transmitUnguarded, Curl,
       transferDone, apiChanged, voiceConnected, voiceEnded, vars, httpVars
  <2>2. asking' = asking
    BY <2>1 DEF asking
  <2>. QED
    BY <1>a, <2>1, <2>2
<1>. QED
  BY <1>1, <1>2, <1>5, <1>6, <1>7, <1>8, <1>9, <1>10, <1>11, <1>12, <1>13, <1>14, <1>15
     DEF Next, Application, EventLoop

-----------------------------------------------------------------------------
\* unguardPtt runs inside the callback of the update.
LEMMA GuardInCallback ==
  ASSUME IInv, [Next]_vars
  PROVE  guarding' # "no" => notifying' = {<<"update", Update>>}
<1>0. /\ HttpTypeOK /\ AsksFit /\ finished \subseteq multi
      /\ guarding # "no" => notifying = {<<"update", Update>>}
  BY DEF IInv, TypeOK, HttpTypeOK
<1>1. CASE \E ok \in BOOLEAN : updateAnswered(ok)
  <2>1. PICK h \in finished : transfers[h] = "update" /\ notify(h)
    BY <1>1 DEF updateAnswered
  <2>2. notifying' = {<<"update", Update>>}
    BY <1>0, <2>1, AnswerStep, AskedSomething
  <2>. QED
    BY <2>2
<1>2. CASE stationFailed \/ stationAnswered
  <2>1. notifying = {} /\ UNCHANGED guarding
    BY <1>2 DEF stationFailed, stationAnswered, notify, pttVars
  <2>. QED
    BY <1>0, <2>1
<1>3. CASE updateReturns
  BY <1>3 DEF updateReturns, pttVars
<1>4. CASE stationReturns
  <2>1. (\E c \in notifying : c[1] = "station") /\ UNCHANGED guarding
    BY <1>4 DEF stationReturns, pttVars
  <2>. QED
    BY <1>0, <2>1
<1>5. CASE testGuard \/ openPtt \/ transmitUnguarded
  BY <1>0, <1>5 DEF testGuard, openPtt, transmitUnguarded, httpVars
<1>6. CASE \/ linkStation \/ clearFlag \/ \E empty \in BOOLEAN : testFlag(empty)
           \/ pressPtt \/ guardPtt \/ releasePtt \/ comparePtt \/ assignPtt \/ transmitPtt
           \/ Curl \/ apiChanged \/ voiceConnected \/ voiceEnded \/ UNCHANGED vars
  <2>1. UNCHANGED <<guarding, notifying>>
    BY <1>6 DEF pressPtt, guardPtt, releasePtt, comparePtt, assignPtt, transmitPtt,
       PttUnchanged, Curl, transferDone, apiChanged, voiceConnected, voiceEnded, vars,
       linkStation, clearFlag, testFlag, httpVars, pttVars
  <2>. QED
    BY <1>0, <2>1
<1>7. CASE \/ sendTransceiverUpdate \/ requestLinked
           \/ \E s \in Stations : requestStationTransceivers(s)
                                  \/ \E f \in Freqs : linkTransceivers(s, f)
  <2>1. UNCHANGED <<guarding, notifying>>
    BY <1>7 DEF sendTransceiverUpdate, requestLinked, requestStationTransceivers,
         linkTransceivers, pttVars, httpVars
  <2>. QED
    BY <1>0, <2>1
<1>. QED
  BY <1>1, <1>2, <1>3, <1>4, <1>5, <1>6, <1>7 DEF Next, Application, EventLoop

\* Every step keeps the invariant.
LEMMA NextIInv == IInv /\ [Next]_vars => IInv'
<1>. SUFFICES ASSUME IInv, [Next]_vars PROVE IInv'
  OBVIOUS
<1>1. HttpTypeOK' /\ AsksFit'
  BY HttpStep DEF HttpGoal
<1>2. PttInv'
  BY PttStep
<1>3. LinkInFlight' /\ LinksTyped'
  BY LinkStep
<1>4. /\ setting' \in {"no", "pressed", "compare", "assign", "transmit"}
      /\ guarding' \in {"no", "test", "open", "transmit"}
      /\ \A b \in {connected, voice, wantPtt, ptt, mic, pending, raced, muddled}' :
           b \in BOOLEAN
  BY PlacesTyped
<1>5. guarding' # "no" => notifying' = {<<"update", Update>>}
  BY GuardInCallback
<1>6. TypeOK'
  BY <1>1, <1>3, <1>4, <1>5 DEF TypeOK, LinksTyped
<1>. QED
  BY <1>1, <1>2, <1>3, <1>6 DEF IInv

-----------------------------------------------------------------------------
\* The invariant holds throughout.
THEOREM ClientInvariant == Spec => []IInv
<1>. QED
  BY InitIInv, NextIInv, PTL DEF Spec

\* Handles, transfers, PTT and links keep their types, and the handles of the
\* transfers are those of their objects.
THEOREM TypeCorrect == Spec => []TypeOK
<1>1. IInv => TypeOK
  BY DEF IInv
<1>. QED
  BY <1>1, ClientInvariant, PTL

\* After setPtt(false) the microphone is off, for every interleaving of the
\* application and the event loop but a release inside unguardPtt.
THEOREM ReleasedIsOff == Spec => []MicFollowsRelease
<1>1. IInv => MicFollowsRelease
  BY DEF IInv, PttInv, ReleaseCloses, MicNeedsPtt, Unguarding, MicFollowsRelease
<1>. QED
  BY <1>1, ClientInvariant, PTL

\* linkTransceivers links the frequency to the station it was called with, for
\* every interleaving of its two steps with those of the answers, as long as one
\* thing is asked at a time.
THEOREM LinkedAsAsked == Spec => LinksAsAsked
<1>1. IInv /\ [Next]_vars => [link' \notin {link, NoLink} => muddled \/ link' = awaited]_vars
  BY LinkStep
<1>. QED
  BY <1>1, ClientInvariant, PTL DEF Spec, LinksAsAsked

\* The requests of the client, on handles that curl reuses, implement
\* RequestFlag.
THEOREM RequestsKeepPromise == Spec => RequestsAreFlags
<1>1. Init => Flag!Init
  BY DEF Init, HttpInit, Flag!Init, asking
<1>2. IInv /\ [Next]_vars => [Flag!Next]_(Flag!vars)
  BY HttpStep DEF HttpGoal
<1>. QED
  BY <1>1, <1>2, ClientInvariant, PTL DEF Spec, RequestsAreFlags, Flag!Spec
=============================================================================
