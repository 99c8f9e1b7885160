---------------------------- MODULE ClientStatus ----------------------------
(***************************************************************************)
(* What the two sessions promise to the parts of the client that only ask  *)
(* isAPIConnected() and isVoiceConnected() and wait for voice events: the  *)
(* abstract specification that ClientSession implements and on which       *)
(* PttGuard is built.                                                      *)
(***************************************************************************)

VARIABLES
  connected,  \* isAPIConnected()
  voice       \* isVoiceConnected()

status == <<connected, voice>>

StatusInit == connected = FALSE /\ voice = FALSE

\* The first authentication succeeds.
APIUp == ~connected /\ connected' = TRUE /\ UNCHANGED voice

\* The API session ends on its own only when there is no voice session.
APIDown == ~voice /\ connected' = FALSE /\ UNCHANGED voice

\* A voice session is set up, also in place of a live one, and also when the
\* API session has ended in the meantime.
VoiceUp == voice' = TRUE /\ UNCHANGED connected

\* A voice session ends, or its set-up is refused; the API session goes with it.
VoiceDown == voice' = FALSE /\ connected' = FALSE

StatusNext == APIUp \/ APIDown \/ VoiceUp \/ VoiceDown

StatusSpec == StatusInit /\ [][StatusNext]_status
=============================================================================
