---------------------------- MODULE MCAdmission ----------------------------
(***************************************************************************)
(* Small instances of Admission, under five scenarios.  There are two      *)
(* peers, one of them an IPv6 prefix with two addresses, and a plain and   *)
(* an implicit TLS listener.                                               *)
(***************************************************************************)
EXTENDS Admission, TLC

PeerOf == ("a" :> "pa") @@ ("b1" :> "pb") @@ ("b2" :> "pb")

Quiet == [conns |-> 1, ports |-> {"smtp"}, ips |-> {"a", "b1"}, until |-> 0, back |-> 0, fault |-> 0,
          restart |-> 0, order |-> 0, allowed |-> 0]

\* Bans that begin, escalate and run out; tables at their limit.
BanScenario == [Quiet EXCEPT !.until = 4]

\* The operator's file, with damage and a restart: two addresses of one peer.
ManualScenario == [Quiet EXCEPT !.ips = {"b1", "b2"}, !.fault = 1, !.restart = 1, !.order = 3]

\* Three connections on two listeners, until both are shut down.
SlotScenario == [Quiet EXCEPT !.conns = 3, !.ports = {"smtp", "smtps"}]

\* Two connections of one peer under a clock that is set back; two peers
\* that compete for one bucket.
RateScenario == [Quiet EXCEPT !.conns = 2, !.ips = {"a"}, !.until = 3, !.back = 1, !.allowed = 6]
EvictScenario == [Quiet EXCEPT !.until = 1, !.allowed = 4]

Scenarios == {BanScenario, ManualScenario, SlotScenario, RateScenario, EvictScenario}

Symmetry == Permutations(Conns)
=============================================================================
