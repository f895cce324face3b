----------------------------- MODULE MCService -----------------------------
(* Small instances of Service: two sessions, of which the first allows one *)
(* destination the second refuses.                                         *)
EXTENDS Service, TLC

CONSTANTS t1, t2, ip1, ip2

MCTunnels == {t1, t2}
MCTargets == {ip1, ip2}
MCAllow == t1 :> {ip1, ip2} @@ t2 :> {ip2}
RaceAllow == [t \in Tunnels |-> Targets]
Symmetry == Permutations(Calls)
============================================================================
