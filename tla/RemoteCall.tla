----------------------------- MODULE RemoteCall -----------------------------
(***************************************************************************)
(* What a caller of the client may rely on when it sends a request that    *)
(* changes the server (POST, PUT): the change happens at most once,        *)
(* success means that it happened, a refusal that it did not and will not, *)
(* and after any other error it may have happened or happen yet.           *)
(*                                                                         *)
(* The bug commands are modelled with calls of this kind (BugWrites); the  *)
(* client's retries and the alternate authentication are shown to          *)
(* implement it (Transport).                                               *)
(***************************************************************************)
VARIABLES
  effect,   \* the times the change has been made, each under a name of its own
  outcome   \* what the caller was told

vars == <<effect, outcome>>

Init == effect = {} /\ outcome = "pending"

Apply ==
  /\ effect = {}
  /\ outcome \in {"pending", "unknown"}
  /\ effect' # {}
  /\ \A m, n \in effect' : m = n
  /\ UNCHANGED outcome

Return ==
  /\ outcome = "pending"
  /\ \/ effect # {} /\ outcome' = "ok"
     \/ effect = {} /\ outcome' = "refused"
     \/ outcome' = "unknown"
  /\ UNCHANGED effect

Next == Apply \/ Return

Spec == Init /\ [][Next]_vars
=============================================================================
