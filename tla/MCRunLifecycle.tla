--------------------------- MODULE MCRunLifecycle ---------------------------
(* Small instances of RunLifecycle for TLC. *)
EXTENDS RunLifecycle, TLC

Slots == Permutations(Bridge) \cup Permutations(Clients) \cup Permutations(Sweepers)
=============================================================================
