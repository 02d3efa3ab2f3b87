------------------------------ MODULE OpenOnce ------------------------------
(***************************************************************************)
(* What a source promises to whoever opens it, without a word of the       *)
(* dialogue behind it: an open is answered at most once, it succeeds only  *)
(* when it was granted, and once the source is stopped it is not granted   *)
(* any more.  A grant that is on its way at the stop may still win.        *)
(***************************************************************************)
VARIABLES
  status,   \* "new", "opening", or how the open was answered
  granted,  \* the open was granted by the server: it plays
  stopped   \* the source was closed or cancelled

vars == <<status, granted, stopped>>

Init == status = "new" /\ granted = FALSE /\ stopped = FALSE

Start ==
  /\ status = "new"
  /\ ~stopped
  /\ status' = "opening"
  /\ UNCHANGED <<granted, stopped>>

Grant ==
  /\ status = "opening"
  /\ ~stopped
  /\ granted' = TRUE
  /\ UNCHANGED <<status, stopped>>

Answered(result) ==
  /\ status = "opening"
  /\ result = "ok" => granted
  /\ status' = result
  /\ UNCHANGED <<granted, stopped>>

Stop == stopped' = TRUE /\ UNCHANGED <<status, granted>>

Next == Start \/ Grant \/ Stop \/ \E result \in {"ok", "error"} : Answered(result)

Spec == Init /\ [][Next]_vars
=============================================================================
