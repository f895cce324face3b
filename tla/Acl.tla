-------------------------------- MODULE Acl --------------------------------
(***************************************************************************)
(* Package acl: a PUSH body read as one authorization snapshot, and what   *)
(* the snapshot allows.                                                    *)
(*                                                                         *)
(* An address is a number of Bits bits, a name a sequence of labels, both  *)
(* canonical.  A push is a set of options [field, value, ports], where the *)
(* ports are those of the list, none for "any".  Bad stands for any text   *)
(* that is not accepted, and Other for an option that is not an app.       *)
(***************************************************************************)
EXTENDS Integers, Sequences, SequencesExt

CONSTANTS Bits,     \* 32
          MaxPort,  \* 2^16 - 1
          Bad, Other

ASSUME AclAssumption == Bits \in Nat /\ MaxPort \in Nat \ {0} /\ Bad # Other

Addr(n) == [kind |-> "addr", addr |-> n]
Name(l) == [kind |-> "name", name |-> l]
Prefix(n, len) == [kind |-> "prefix", addr |-> n, len |-> len]
Wildcard(l) == [kind |-> "wildcard", name |-> l]

masked(n, len) == n \div 2^(Bits - len)

\* prefix.Contains(target.Addr())
contains(d, to) ==
  d.kind = "prefix" /\ to.kind = "addr" /\ masked(to.addr, d.len) = masked(d.addr, d.len)

\* name == r.name, or a proper suffix on a label boundary.
covers(d, to) ==
  \/ d.kind = "name" /\ to = d
  \/ d.kind = "wildcard" /\ to.kind = "name" /\ IsStrictSuffix(d.name, to.name)

matches(d, to) == contains(d, to) \/ covers(d, to)

----------------------------------------------------------------------------
(* ParsePush.                                                              *)

\* appPattern, strconv.ParseUint(part, 10, 16), CanonicalDomain, ParsePrefix:
\* port 0 is an error, not "any".
valid(o) ==
  \/ o = Other
  \/ /\ o # Bad /\ o.value # Bad
     /\ o.ports \subseteq 1..MaxPort
     /\ o.value.kind \in IF o.field = "addr" THEN {"prefix"} ELSE {"addr", "name", "wildcard"}

\* An IPv4 literal in a domain field is a /32; 0 is any port.
entries(o) ==
  LET dest == IF o.value.kind = "addr" THEN Prefix(o.value.addr, Bits) ELSE o.value
  IN {[dest |-> dest, port |-> p] : p \in IF o.ports = {} THEN {0} ELSE o.ports}

\* "Unknown syntax invalidates the entire snapshot."  A snapshot is its Entries.
ParsePush(push) ==
  IF \A o \in push : valid(o) THEN UNION {entries(o) : o \in push \ {Other}} ELSE Bad

----------------------------------------------------------------------------
(* What a snapshot allows.                                                 *)

\* The destinations of the entries whose ports include this one; a request has
\* a port.
granted(s, port) == {e.dest : e \in {f \in s : port # 0 /\ f.port \in {0, port}}}

AllowsTCP(s, to, port) == \E d \in granted(s, port) : contains(d, to)
AllowsDomainTCP(s, to, port) == \E d \in granted(s, port) : covers(d, to)
Allows(s, to, port) == AllowsTCP(s, to, port) \/ AllowsDomainTCP(s, to, port)
============================================================================
