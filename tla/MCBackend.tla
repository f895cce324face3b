----------------------------- MODULE MCBackend -----------------------------
(* Small instances of Backend: two tunnels with different ACLs, an IPv4     *)
(* destination only the first allows, one only the second allows, and a    *)
(* name the first allows.                                                  *)
EXTENDS Backend, TLC

CONSTANTS t1, t2, ip1, ip2, name

MCTunnels == {t1, t2}
MCTargets == {ip1, ip2, name}
MCDomains == {name}
MCAllow == t1 :> {ip1, name} @@ t2 :> {ip2}

Symmetry == Permutations(Calls)
============================================================================
