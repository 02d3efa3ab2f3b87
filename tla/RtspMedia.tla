----------------------------- MODULE RtspMedia -----------------------------
(***************************************************************************)
(* RtspMedia (src/RtspMedia.cpp): the life of source_ over the calls of    *)
(* the media's owner, which may open it, open it again, cancel it and      *)
(* close it at any time, and over the answers of the sources it made.  An  *)
(* open binds its handler to the media, not to the source: what the        *)
(* handler reads when it runs is the source_ of that moment.               *)
(*                                                                         *)
(* A source is what OpenOnce says (RtspServer implements it for            *)
(* RtspSource; an exception of a source ends everything, and is no step    *)
(* here); the n-th open makes source n.  External: a media has one url, so *)
(* that the factory knows its protocol for every open or for none, and a   *)
(* source deletes itself (the destructor says "auto delete").              *)
(***************************************************************************)
EXTENDS Integers, Sequences

CONSTANT MaxOpens  \* bound on the calls of async_open

ASSUME MediaAssumption == MaxOpens \in Nat

Opens   == 1 .. MaxOpens
NoSource == 0
Results == {"ok", "error"}

VARIABLES
  known,     \* the url has no proto parameter, or one the factory knows
  source,    \* source_
  opens,     \* how often async_open was called
  status,    \* of each source: "new", "opening", or how its open was answered
  granted,   \* of each source: the server granted its open
  stopped,   \* of each source: closed or cancelled
  posted,    \* the opens whose answer waits in the io_service
  resps,     \* what the resp of each open was called with
  info,      \* whose info is in info_ (NoSource: the constructor's)
  withdrawn, \* the owner closed or cancelled the media since it opened it last,
             \* and the server had not granted that open
  fault      \* what dereferenced a source_ that is NULL

vars == <<known, source, opens, status, granted, stopped, posted, resps, info, withdrawn, fault>>

(* The sources, as RtspServer implements them. *)
Source(n) == INSTANCE OpenOnce WITH
  status <- status[n], granted <- granted[n], stopped <- stopped[n]

Init ==
  /\ known \in BOOLEAN
  /\ source = NoSource
  /\ opens = 0
  /\ status = [n \in Opens |-> "new"]
  /\ granted = [n \in Opens |-> FALSE]
  /\ stopped = [n \in Opens |-> FALSE]
  /\ posted = {}
  /\ resps = [n \in Opens |-> <<>>]
  /\ info = NoSource
  /\ withdrawn = FALSE
  /\ fault = "none"

Respond(n, result) == resps' = [resps EXCEPT ![n] = Append(@, result)]

(* Mutant of FailLater: the failure of the factory is not posted. *)
FailLaterNever(n) == UNCHANGED posted

(* io_svc.post(resp, ec). *)
FailLater(n) == posted' = posted \union {n}

(* The n-th async_open. *)
AsyncOpen(n) ==
  /\ fault = "none"
  /\ n = opens + 1
  /\ opens' = n
  /\ withdrawn' = FALSE
  /\ UNCHANGED <<granted, stopped>>
  /\ \/ /\ known
        /\ source' = n
        /\ status' = [status EXCEPT ![n] = "opening"]
        /\ Source(n)!Start
        /\ UNCHANGED posted
     \/ /\ ~known
        /\ source' = NoSource
        /\ FailLater(n)
        /\ UNCHANGED status
  /\ UNCHANGED <<known, resps, info, fault>>

(* The posted answer of an open whose source could not be made. *)
RunPosted(n) ==
  /\ n \in posted
  /\ posted' = posted \ {n}
  /\ Respond(n, "error")
  /\ UNCHANGED <<known, source, opens, status, granted, stopped, info, withdrawn, fault>>

(* Mutant of TakeInfo: info_ stays what the constructor made it. *)
TakeInfoNot == UNCHANGED info

(* info_ = source_->info(), but for the basic part. *)
TakeInfo == info' = source

(* The server grants the open of a source: its answer is on the way. *)
Granted(n) ==
  /\ fault = "none"
  /\ UNCHANGED <<status, stopped>>
  /\ granted' = [granted EXCEPT ![n] = TRUE]
  /\ Source(n)!Grant
  /\ UNCHANGED <<known, source, opens, posted, resps, info, withdrawn, fault>>

(* A source answers, and handle_open runs. *)
HandleOpen(n, result) ==
  /\ fault = "none"
  /\ UNCHANGED <<granted, stopped>>
  /\ status' = [status EXCEPT ![n] = result]
  /\ Source(n)!Answered(result)
  /\ \/ /\ source = NoSource
        /\ fault' = "handle_open"
        /\ UNCHANGED <<resps, info>>
     \/ /\ source # NoSource
        /\ TakeInfo
        /\ Respond(n, result)
        /\ UNCHANGED fault
  /\ UNCHANGED <<known, source, opens, posted, withdrawn>>

Withdraw == withdrawn' = (withdrawn \/ source = NoSource \/ ~granted[source])

(* cancel does not look whether there is a source. *)
Cancel ==
  /\ fault = "none"
  /\ Withdraw
  /\ \/ /\ source = NoSource
        /\ fault' = "cancel"
        /\ UNCHANGED stopped
     \/ /\ source # NoSource
        /\ stopped' = [stopped EXCEPT ![source] = TRUE]
        /\ UNCHANGED fault
  /\ UNCHANGED <<known, source, opens, status, granted, posted, resps, info>>

(* Mutants of Close: source_ is forgotten, as the destructor does, and the  *)
(* source is not told.                                                      *)
CloseAs(src, stops) ==
  /\ fault = "none"
  /\ Withdraw
  /\ source' = src
  /\ stopped' = IF source = NoSource THEN stopped ELSE [stopped EXCEPT ![source] = stops]
  /\ UNCHANGED <<known, opens, status, granted, posted, resps, info, fault>>
CloseForgets == CloseAs(NoSource, TRUE)
CloseSilent  == CloseAs(source, stopped[source])

(* close does look. *)
Close ==
  /\ fault = "none"
  /\ Withdraw
  /\ stopped' = IF source = NoSource THEN stopped ELSE [stopped EXCEPT ![source] = TRUE]
  /\ UNCHANGED <<known, source, opens, status, granted, posted, resps, info, fault>>

Next ==
  \/ \E n \in Opens : AsyncOpen(n)
  \/ \E n \in Opens : RunPosted(n)
  \/ \E n \in Opens : Granted(n)
  \/ \E n \in Opens, result \in Results : HandleOpen(n, result)
  \/ Cancel
  \/ Close

Spec == Init /\ [][Next]_vars

(* The io_service runs what was posted, and a source answers its open: what *)
(* RtspServer's EventuallyAnswered shows of RtspSource with a server that   *)
(* answers.  (RtspSourceWfd does it unless an exception leaves it, which    *)
(* ends everything: RtspServerWfd's WfdEventuallyAnswered.)                 *)
Fairness ==
  /\ WF_vars(\E n \in Opens : RunPosted(n))
  /\ \A n \in Opens : WF_vars(\E result \in Results : HandleOpen(n, result))

FairSpec == Spec /\ Fairness

----------------------------------------------------------------------------
TypeOK ==
  /\ known \in BOOLEAN
  /\ source \in Opens \union {NoSource} /\ opens \in Opens \union {0}
  /\ status \in [Opens -> {"new", "opening"} \union Results]
  /\ granted \in [Opens -> BOOLEAN] /\ stopped \in [Opens -> BOOLEAN]
  /\ posted \subseteq Opens
  /\ resps \in [Opens -> Seq(Results)]
  /\ info \in Opens \union {NoSource}
  /\ withdrawn \in BOOLEAN
  /\ fault \in {"none", "cancel", "handle_open"}

Responds(n) == resps'[n] # resps[n]

(* source_ is NULL when a handler of an open runs only if no open was made: *)
(* what dereferences it is a cancel, before the first open or after the     *)
(* factory failed (src/RtspMedia.cpp:71, 86).                               *)
NullOnlyByCancel ==
  fault # "none" => fault = "cancel" /\ (opens = 0 \/ ~known)

(* A close or cancel before the server granted the last open is in time:    *)
(* that open does not succeed any more, whatever comes between, though      *)
(* handle_open looks at nothing; but one that a later async_open had        *)
(* orphaned may, and so may one whose answer was on its way                 *)
(* (src/RtspMedia.cpp:53, 76-81, 86, 93).                                   *)
NoSuccessAfterClose ==
  [][ \A n \in Opens : Responds(n) /\ withdrawn => n < opens \/ resps'[n] = <<"error">> ]_vars

(* When an open succeeds, info_ is of its own source, unless the media was  *)
(* opened again in between (src/RtspMedia.cpp:71, 79).                      *)
InfoOfItsSource ==
  [][ \A n \in Opens : Responds(n) /\ resps'[n] = <<"ok">> => n < opens \/ info' = n ]_vars

(* Every open is answered, also one that could not make its source, and one *)
(* that was closed or replaced, unless a cancel found no source             *)
(* (src/RtspMedia.cpp:59, 64).                                              *)
EveryOpenAnswered ==
  \A n \in Opens : (opens >= n) ~> (resps[n] # <<>> \/ fault # "none")
=============================================================================
