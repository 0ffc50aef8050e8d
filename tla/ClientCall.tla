------------------------------ MODULE ClientCall ------------------------------
(***************************************************************************)
(* What LiveLockClient takes for granted of one client's calls: a call     *)
(* needs a connection that has been introduced; if there is none, the      *)
(* client connects and says CONN first; after a failure it does so again,  *)
(* on another connection, or raises.                                       *)
(***************************************************************************)
VARIABLES
  doing,     \* "idle", "connecting", "introducing" or "waiting"
  has_sock   \* has the client a socket it can use

callVars == <<doing, has_sock>>

CallInit == doing = "idle" /\ has_sock = FALSE

Begin ==
  /\ doing = "idle"
  /\ doing' = IF has_sock THEN "waiting" ELSE "connecting"
  /\ UNCHANGED has_sock

Connect ==
  /\ doing = "connecting"
  /\ doing' = "introducing" /\ has_sock' = TRUE

Introduced ==
  /\ doing = "introducing"
  /\ doing' = "waiting"
  /\ UNCHANGED has_sock

Return ==
  /\ doing = "waiting"
  /\ doing' = "idle"
  /\ UNCHANGED has_sock

Fail ==
  /\ doing # "idle"
  /\ doing' \in {"connecting", "idle"} /\ has_sock' = FALSE

CallNext == Begin \/ Connect \/ Introduced \/ Return \/ Fail

CallSpec == CallInit /\ [][CallNext]_callVars
=============================================================================
