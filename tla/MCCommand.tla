----------------------------- MODULE MCCommand -----------------------------
(* Addresses of three bits, two ports, and options that overlap, name the   *)
(* detector, hold IPv4 literals in a domain field, or are malformed; every   *)
(* push of up to two of them.                                               *)
EXTENDS Command

App(field, value, ports) == [field |-> field, value |-> value, ports |-> ports]
Library == <<"lib", "org">>
Journal == <<"a">> \o Library

MCLoopback == Prefix(7, 3)
MCOptions == {
  Other, Bad,
  App("addr", Prefix(0, 0), {2}), App("addr", Prefix(4, 1), {}), App("addr", Prefix(5, 3), {1}),
  App("addr", Prefix(2, 2), {0}), App("domain", Addr(6), {1, 2}),
  App("domain", Wildcard(Library), {1}), App("domain", Name(Library), {2}),
  App("domain", Name(IP), {1}), App("domain", Wildcard(Zone), {2}), App("domain", Bad, {})}
MCPushes == {S \in SUBSET MCOptions : Cardinality(S) <= 2}
MCTargets == {[to |-> Addr(n), port |-> p] : n \in {5, 6}, p \in 1..2}
MCFlows == {Flow(own, to, p, tcp) : own \in BOOLEAN, p \in 1..2, tcp \in BOOLEAN, to \in
  {Addr(n) : n \in 0..7}
    \cup {Name(l) : l \in {Library, Journal, <<"org">>, Zone, IP, IP4, <<"ids">> \o Zone, <<"www">> \o Zone}}}
============================================================================
