-------------------------- MODULE MCOutboundQueue --------------------------
(***************************************************************************)
(* Small instances of OutboundQueue.  A message is mixed (a local and a    *)
(* remote recipient) or remote only, from a local sender or from the null  *)
(* sender; the policy gives up at the second failed attempt.               *)
(***************************************************************************)
EXTENDS OutboundQueue, TLC

CONSTANTS alice, bob

FlatPolicy  == [base_secs |-> 1, factor |-> 1, max_secs |-> 1, max_attempts |-> 2]

Mixed      == {[from |-> alice, rcpts |-> {alice, bob}]}
RemoteNull == {[from |-> Null, rcpts |-> {bob}]}

Only(S) == [k \in Mishaps |-> IF k \in S THEN 1 ELSE 0]

Faults == {Only({"dsn", "abort", "reply"}), Only({"receipt", "claim"}), Only({"crash", "write"}),
           Only({"flush"}), Only({"retry"}), Only({"delete", "write"})}

RouteTrouble == {Only({"sign", "crash"}), Only({"health"})}
AbortOnce    == {Only({"abort"})}

(* Bound: a behaviour ends when the ids left for reports are used up. *)
RoomForReports == \E m \in Ids : Unused(m)

(* A grid of policies for the backoff arithmetic: factors 0 and 1, a base  *)
(* beyond the cap, a cap of zero, delays on both sides of ten seconds.     *)
Grid   == [base_secs : {0, 1, 3, 10, 25}, factor : 0 .. 3, max_secs : {0, 1, 5, 20, 60},
           max_attempts : {3}]
Hashes == 0 .. 13

(* Over all queue ids, delay_secs gives exactly the delays within a tenth  *)
(* (at least a second) of min(base * factor^(n-1), max), never zero for a  *)
(* deferred entry and never beyond the cap; and this is the set the model  *)
(* of the queue draws from (backoff.rs, nominal_delay_secs, delay_secs).   *)
(* It depends on no state, so it is evaluated before the first message.    *)
DelaysExact ==
    (\A m \in Ids : Unused(m)) => \A p \in Grid, n \in 1 .. 6 :
      LET power    == IF n = 1 THEN p.base_secs ELSE p.base_secs * p.factor ^ (n - 1)
          centre   == IF power < p.max_secs THEN power ELSE p.max_secs
          spread   == IF centre < 10 THEN 1 ELSE centre \div 10
          expected == IF centre = 0 THEN {0}
                      ELSE {d \in 1 .. p.max_secs : centre - spread <= d /\ d <= centre + spread}
      IN  {delay_secs(p, n, h) : h \in Hashes} = expected /\ Delays(p, n) = expected

Symmetry == Permutations(Ids)
=============================================================================
