---------------------------- MODULE HttpRequest -----------------------------
(***************************************************************************)
(* HTTP requests: Request objects whose transfers a TransferManager drives *)
(* through libcurl.  An object gets a new easy handle for every transfer   *)
(* and gives it back in reset(); the manager finds the object of a         *)
(* finished transfer by its handle, which curl may have handed out before. *)
(*                                                                         *)
(* libcurl is modelled from its use: removing a handle also withdraws the  *)
(* message that its transfer is done.                                      *)
(***************************************************************************)
EXTENDS FiniteSets, Functions

CONSTANTS
  Requests,  \* the request objects
  Asks,      \* what can be asked: the URL or the body of a transfer
  NoAsk,     \* nothing
  Handles,   \* the easy handles curl can have at a time
  NoHandle   \* nullptr

ASSUME HandlesAssumption == NoHandle \notin Handles /\ NoAsk \notin Asks

VARIABLES
  handle,     \* Request::mCurlHandle
  managed,    \* the requests with mTM set
  transfers,  \* mPendingTransfers: handles to requests
  multi,      \* the handles added to the multi handle
  finished,   \* those with a CURLMSG_DONE to be read
  asked,      \* what the transfer of a handle was set up to ask
  notifying   \* the completion callback the event loop is in, as <<request, asked>>

httpVars == <<handle, managed, transfers, multi, finished, asked, notifying>>

HttpInit ==
  /\ handle = [r \in Requests |-> NoHandle]
  /\ managed = {}
  /\ transfers = [h \in {} |-> NoHandle]
  /\ multi = {} /\ finished = {}
  /\ asked = [h \in Handles |-> NoAsk]
  /\ notifying = {}

-----------------------------------------------------------------------------
\* Fault: the manager is left with the transfer.
NotDropped(r) == {}

\* The handles that reset() of r takes out of the transfer manager.
Dropped(r) == IF r \in managed THEN {handle[r]} ELSE {}

\* Request::reset.
resetRequest(r) ==
  /\ handle' = [handle EXCEPT ![r] = NoHandle]
  /\ managed' = managed \ {r}
  /\ transfers' = Restrict(transfers, DOMAIN transfers \ Dropped(r))
  /\ multi' = multi \ Dropped(r)
  /\ finished' = finished \ Dropped(r)
  /\ UNCHANGED asked

\* reset(), then setupHandle and doAsync, as every caller does.  The new handle
\* may be the one just given back.
start(r, a) ==
  \E h \in Handles \ {handle[q] : q \in Requests \ {r}} :
    /\ handle' = [handle EXCEPT ![r] = h]
    /\ managed' = managed \cup {r}
    /\ transfers' = [k \in (DOMAIN transfers \ Dropped(r)) \cup {h} |->
                       IF k = h THEN r ELSE transfers[k]]
    /\ multi' = (multi \ Dropped(r)) \cup {h}
    /\ finished' = finished \ (Dropped(r) \cup {h})
    /\ asked' = [asked EXCEPT ![h] = a]

\* curl is done with a transfer.
transferDone ==
  \E h \in multi \ finished :
    /\ finished' = finished \cup {h}
    /\ UNCHANGED <<handle, managed, transfers, multi, asked, notifying>>

\* Fault: the object believes that its transfer still goes on.
notifyStaysManaged(h) ==
  /\ notifying = {}
  /\ h \in finished
  /\ multi' = multi \ {h}
  /\ finished' = finished \ {h}
  /\ transfers' = Restrict(transfers, DOMAIN transfers \ {h})
  /\ notifying' = {<<transfers[h], asked[h]>>}
  /\ UNCHANGED <<handle, managed, asked>>

\* processPendingMultiEvents reads a message: the transfer is forgotten before
\* its object is notified.  The object keeps the handle.
notify(h) ==
  /\ notifying = {}
  /\ h \in finished
  /\ multi' = multi \ {h}
  /\ finished' = finished \ {h}
  /\ transfers' = Restrict(transfers, DOMAIN transfers \ {h})
  /\ managed' = managed \ {transfers[h]}
  /\ notifying' = {<<transfers[h], asked[h]>>}
  /\ UNCHANGED <<handle, asked>>

-----------------------------------------------------------------------------
HttpTypeOK ==
  /\ handle \in [Requests -> Handles \cup {NoHandle}]
  /\ managed \subseteq {r \in Requests : handle[r] # NoHandle}
  /\ DOMAIN transfers = multi
  /\ finished \subseteq multi /\ multi \subseteq Handles
  /\ \A h \in multi : transfers[h] \in managed /\ handle[transfers[h]] = h
  /\ asked \in [Handles -> Asks \cup {NoAsk}]
  /\ notifying \subseteq Requests \X Asks /\ \A c, d \in notifying : c = d

\* What an object waits for, as it knows itself.
asking == [r \in Requests |-> IF r \in managed THEN asked[handle[r]] ELSE NoAsk]

Flag == INSTANCE RequestFlag WITH answering <- notifying

\* Every request object keeps the promise of RequestFlag.  An answer never
\* reaches an object that was reset, asked something else meanwhile, or only
\* got the handle of another's transfer.
RequestsAreFlags == Flag!Spec
=============================================================================
