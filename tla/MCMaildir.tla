----------------------------- MODULE MCMaildir -----------------------------
(***************************************************************************)
(* Small instances of Maildir, under four scenarios: three opens under     *)
(* deliveries and expunges; stale views under flag changes; one torn       *)
(* operation; one loss of the list or rename of INBOX.                     *)
(***************************************************************************)
EXTENDS Maildir, TLC

Scenario(o, m, f, r) == [opens |-> o, modseq |-> m, faults |-> f, rebuilds |-> r]

Scenarios == {Scenario(3, 1, 0, 0), Scenario(2, 4, 0, 0), Scenario(2, 2, 1, 0), Scenario(2, 1, 0, 1)}

Symmetry == Permutations(Sessions) \cup Permutations(Bases)
=============================================================================
