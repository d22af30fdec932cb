------------------------------ MODULE TestRun ------------------------------
(***************************************************************************)
(* What one speed test promises its client, with the measuring, the        *)
(* progress channel and the goroutines left out.                           *)
(*                                                                         *)
(* A test runs until the outcome of its INSERT is decided, once.  Only     *)
(* then may the client be told its test id and share code, and only while  *)
(* its connection is open.  A row that was lost because the request was    *)
(* cancelled belongs to a connection that had already closed, so its codes *)
(* are never told to anyone.  The process may die at any point.            *)
(*                                                                         *)
(* SpeedTestSession implements this module.                                *)
(***************************************************************************)

VARIABLES
  outcome,   \* "none" until the INSERT returns, then what it returned
  told,      \* has the client received the final result?
  open,      \* is the WebSocket connection open on the server's side?
  dead       \* has the process died?

vars == <<outcome, told, open, dead>>

Outcome == {"stored", "refused", "timedOut", "cancelled"}

TypeOK ==
  /\ outcome \in Outcome \union {"none"}
  /\ told \in BOOLEAN
  /\ open \in BOOLEAN
  /\ dead \in BOOLEAN

Init ==
  /\ outcome = "none"
  /\ told = FALSE
  /\ open = TRUE
  /\ dead = FALSE

Decide ==
  /\ ~dead
  /\ outcome = "none"
  /\ outcome' \in Outcome
  /\ outcome' = "cancelled" => ~open
  /\ UNCHANGED <<told, open, dead>>

Tell ==
  /\ ~dead
  /\ open
  /\ outcome # "none"
  /\ told' = TRUE
  /\ UNCHANGED <<outcome, open, dead>>

Hangup ==
  /\ ~dead
  /\ open' = FALSE
  /\ UNCHANGED <<outcome, told, dead>>

Die ==
  /\ dead' = TRUE
  /\ UNCHANGED <<outcome, told, open>>

Next == Decide \/ Tell \/ Hangup \/ Die

Spec == Init /\ [][Next]_vars

=============================================================================
