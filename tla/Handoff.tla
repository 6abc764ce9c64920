------------------------------ MODULE Handoff ------------------------------
(***************************************************************************)
(* What one LMTP delivery attempt promises the queue: copies are stored    *)
(* for some of the recipients, and then either every recipient is told its *)
(* own fate exactly, or the whole attempt is reported as failed and        *)
(* nothing is claimed about anybody.                                       *)
(***************************************************************************)
EXTENDS Integers

VARIABLES
    people,     \* the recipients of the attempt
    stored,     \* those whose mailbox took the message
    told        \* Untold, Failed, or the verdict on every recipient

Untold == [state |-> "untold"]
Failed == [state |-> "failed"]
Verdicts == {"delivered", "refused", "deferred"}

Init == stored = {} /\ told = Untold

\* After a failure was reported the server may still be delivering.
Store ==
    /\ told \in {Untold, Failed}
    /\ \E more \in SUBSET people : stored' = stored \cup more
    /\ UNCHANGED <<people, told>>

Report ==
    /\ told = Untold
    /\ \E v \in [people -> Verdicts] :
        /\ \A r \in people : v[r] = "delivered" <=> r \in stored
        /\ told' = [state |-> "told", verdict |-> v]
    /\ UNCHANGED <<people, stored>>

GiveUp == told = Untold /\ told' = Failed /\ UNCHANGED <<people, stored>>

Next == Store \/ Report \/ GiveUp
vars == <<people, stored, told>>
Spec == Init /\ [][Next]_vars
=============================================================================
