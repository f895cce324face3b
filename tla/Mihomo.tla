------------------------------- MODULE Mihomo ------------------------------
(***************************************************************************)
(* Package mihomo: the routing rules Render makes of a snapshot, and how   *)
(* Mihomo reads them: the first rule that matches decides.  Render sorts   *)
(* the allows and the guards, whose order does not matter among            *)
(* themselves: the rules are a sequence of tiers, each a set of conditions *)
(* with one action.                                                        *)
(***************************************************************************)
EXTENDS Acl, FiniteSetsExt

CONSTANTS Remote,   \* the address of the VPN server
          Loopback  \* 127.0.0.0/8

Zone == <<"xmu", "edu", "cn">>
IP == <<"ip">> \o Zone
IP4 == <<"ip4">> \o Zone
Control == {<<l>> \o Zone : l \in {"svpnlink", "svpnsso", "ids"}}

\* What Mihomo is asked to route: to an address or a name, from this program
\* or another.
Flow(own, to, port, tcp) == [own |-> own, to |-> to, port |-> port, tcp |-> tcp]

\* A condition: a destination, or the process name; port 0 and net "any" match
\* all.
Rule(dest, port, net) == [dest |-> dest, port |-> port, net |-> net]
Process == [kind |-> "process"]
Suffix(l) == [kind |-> "suffix", name |-> l]
All == [kind |-> "all"]

\* IP-CIDR rules say no-resolve: a name never matches them.  A wildcard is
\* AND(DOMAIN-SUFFIX, NOT DOMAIN).
hitDest(d, f) ==
  \/ d.kind = "all"
  \/ d.kind = "process" /\ f.own
  \/ d.kind \in {"suffix", "wildcard"} /\ f.to.kind = "name" /\ IsSuffix(d.name, f.to.name)
       /\ (d.kind = "wildcard" => f.to.name # d.name)
  \/ d.kind \in {"prefix", "name"} /\ matches(d, f.to)

hit(r, f) == hitDest(r.dest, f) /\ r.port \in {0, f.port} /\ (r.net = "any" \/ f.tcp)

\* The action of the first tier that matches, or what the user's own rules say.
route(tiers, f) ==
  LET hits == {i \in 1..Len(tiers) : \E r \in tiers[i].rules : hit(r, f)}
  IN IF hits = {} THEN "own rules" ELSE tiers[Min(hits)].to

----------------------------------------------------------------------------
(* Render.                                                                 *)

\* The campus detector is reached under a second name.
aliased(s) ==
  {[dest |-> Name(IP4), port |-> e.port] : e \in {f \in s : matches(f.dest, Name(IP))}}

exceptions == {Rule(d, 0, "any") : d \in {Process, Prefix(Remote, Bits), Loopback} \cup {Name(l) : l \in Control}}
allows(s) == {Rule(e.dest, e.port, "tcp") : e \in s \cup aliased(s)}
guards(s) == {Rule(e.dest, 0, "any") : e \in s \cup aliased(s)}

tier(rules, to) == [rules |-> rules, to |-> to]

\* Mutant: the guards come before the allows.
tiersGuarded(s) == <<tier(exceptions, "DIRECT"), tier(guards(s), "REJECT"), tier(allows(s), "XMU")>>
tiersOf(s) == <<tier(exceptions, "DIRECT"), tier(allows(s), "XMU"), tier(guards(s), "REJECT")>>

Render(s, fragment) ==
  tiersOf(s) \o <<tier({Rule(Suffix(Zone), 0, "any")}, "REJECT")>>
             \o (IF fragment THEN <<>> ELSE <<tier({Rule(All, 0, "any")}, "DIRECT")>>)
============================================================================
