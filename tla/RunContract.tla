----------------------------- MODULE RunContract -----------------------------
(***************************************************************************)
(* What a run promises to those who read its row: attempts advance until   *)
(* one completion, of the latest attempt, ends it.  The only other way to  *)
(* end is a creation that fails, which overwrites whatever the row says.   *)
(***************************************************************************)
EXTENDS Integers

CONSTANT Gens

VARIABLES status, attempt, completion, output

contractVars == <<status, attempt, completion, output>>

Terminals == {"success", "error", "interrupted", "timeout"}

Init ==
    /\ status = "absent"
    /\ attempt = 0
    /\ completion = -1
    /\ output = 0

Create ==
    /\ status = "absent"
    /\ status' = "pending"
    /\ UNCHANGED <<attempt, completion, output>>

Active == status \in {"pending", "running"}

BeginAttempt(g) ==
    /\ Active
    /\ g >= attempt
    /\ status' = "running"
    /\ attempt' = g
    /\ UNCHANGED <<completion, output>>

\* The result of the latest attempt, and of no other, becomes the run's.  A
\* success is the outcome of an attempt; it need not have an output.
Complete(s) ==
    /\ Active
    /\ completion = -1
    /\ status' = s
    /\ completion' = attempt
    /\ output' \in {0, attempt}
    /\ s = "success" => attempt \in Gens
    /\ UNCHANGED attempt

FailCreation ==
    /\ status # "absent"
    /\ status' = "error"
    /\ output' = 0
    /\ UNCHANGED <<attempt, completion>>

Next ==
    \/ Create
    \/ \E g \in Gens : BeginAttempt(g)
    \/ \E s \in Terminals : Complete(s)
    \/ FailCreation

Spec == Init /\ [][Next]_contractVars
=============================================================================
