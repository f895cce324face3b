----------------------------- MODULE Resolver ------------------------------
(***************************************************************************)
(* One Session.DialDomainContext: lookupIPv4 asks the pushed resolvers one *)
(* after the other, resolveDNS follows aliases from query to query, over   *)
(* UDP and then TCP, and dialDomain dials the addresses the ACL permits.   *)
(*                                                                         *)
(* Time counts in half seconds.  A query or a dial is one step that takes  *)
(* some of what its context has left.  A name is canonical; a message is a *)
(* sequence of records [owner, addr] or [owner, alias].  The host is one    *)
(* that Backend.DialContext passes on: canonical, with a port above 0; the  *)
(* ErrDenied of dialDomain for another, or without an ACL, is left out.     *)
(***************************************************************************)
EXTENDS Integers, Sequences, FiniteSets

CONSTANTS
  Names, Host,    \* canonical names, and the one asked for
  Addrs, Unicast, \* IPv4 addresses, and the global unicast ones
  Allows,         \* the sets of addresses an ACL may permit with a port
  Messages,       \* the record sequences a resolver may answer with
  Servers,        \* for each pushed resolver, whether it is IPv4 unicast
  Invalid, None,
  MaxDepth,       \* 8 in the code: names and queries of an alias chain
  MaxIps          \* 16 in the code: addresses kept of an answer

Outcomes == {"denied", "failed", "expired", "connected"}

ASSUME ResolverAssumption ==
  /\ Host \in Names /\ Invalid \notin Names /\ None \notin Names \cup {Invalid} \cup Outcomes
  /\ Unicast \subseteq Addrs /\ Allows \subseteq SUBSET Addrs /\ Servers \in Seq(BOOLEAN)
  /\ MaxDepth \in Nat \ {0} /\ MaxIps \in Nat \ {0}
  /\ Messages \subseteq Seq([owner : Names, addr : Addrs]
                              \cup [owner : Names, alias : Names \cup {Invalid}])

Dial == 20     \* SOCKS gives a dial ten seconds
Server == 6    \* lookupIPv4 gives a resolver three
Exchange == 3  \* resolveDNS gives an exchange one and a half

VARIABLES
  pc,        \* "lookup", "query", "dial" or "done"
  named,     \* AllowsDomainTCP(host, port)
  allow,     \* the addresses AllowsTCP permits with this port
  server,    \* lookupIPv4's i
  network, depth, host,  \* resolveDNS's
  left,      \* of the dial's context
  sleft,     \* of the resolver's
  ips,       \* the addresses still to be dialled
  last,      \* the error of the last one
  result,
  reached,   \* history: the names the host is an alias of, by the answers used
  owned,     \* history: the addresses those names have
  tried      \* history: the addresses dialled

policyVars == <<named, allow>>
queryVars == <<network, depth, host, sleft>>
historyVars == <<reached, owned, tried>>
vars == <<pc, policyVars, server, queryVars, left, ips, last, result, historyVars>>

TypeOK ==
  /\ pc \in {"lookup", "query", "dial", "done"} /\ named \in BOOLEAN /\ allow \in Allows
  /\ server \in 0..Len(Servers) /\ network \in {"udp4", "tcp4"} /\ depth \in 0..MaxDepth
  /\ host \in Names /\ left \in 0..Dial /\ sleft \in 0..Server
  /\ ips \in Seq(Addrs) /\ Len(ips) <= MaxIps /\ last \in Outcomes /\ result \in Outcomes \cup {None}
  /\ reached \subseteq Names /\ owned \subseteq Addrs /\ tried \subseteq Addrs

Init ==
  /\ pc = "lookup" /\ named \in BOOLEAN /\ allow \in Allows
  /\ server = 0 /\ network = "udp4" /\ depth = 0 /\ host = Host
  /\ left = Dial /\ sleft = 0 /\ ips = <<>> /\ last = "denied" /\ result = None
  /\ reached = {Host} /\ owned = {} /\ tried = {}

finish(r) == pc' = "done" /\ result' = r

----------------------------------------------------------------------------
(* dnsAnswers.                                                             *)

\* Mutant: every address of the message is taken for the name's.
recordsOfAll(m, h) == 1..Len(m)
\* strings.EqualFold(r.Header.Name, host)
recordsOf(m, h) == {k \in 1..Len(m) : m[k].owner = h}

addrRecords(m, h) == {k \in recordsOf(m, h) : "addr" \in DOMAIN m[k]}
aliasRecords(m, h) == {k \in recordsOf(m, h) : "alias" \in DOMAIN m[k]}

\* The first MaxIps addresses, record by record.
addrsOf(m, h) ==
  LET kept[k \in 0..Len(m)] ==
        IF k = 0 THEN <<>>
        ELSE IF k \in addrRecords(m, h) /\ Len(kept[k-1]) < MaxIps
             THEN Append(kept[k-1], m[k].addr)
             ELSE kept[k-1]
  IN kept[Len(m)]

\* The last alias wins.  None: there is none.
nextOf(m, h) ==
  IF aliasRecords(m, h) = {} THEN None
  ELSE m[CHOOSE k \in aliasRecords(m, h) : \A j \in aliasRecords(m, h) : j <= k].alias

\* The first invalid alias ends it, even beside addresses.
malformed(m, h) == \E k \in aliasRecords(m, h) : m[k].alias = Invalid

\* The name of every turn of the loop, for as long as there is one.
chain(m, h) ==
  LET name[d \in 0..MaxDepth] ==
        IF d = 0 THEN h
        ELSE IF name[d-1] \in Names THEN nextOf(m, name[d-1]) ELSE name[d-1]
  IN name

\* The name was seen before.
loop(c, d) == \E e \in 0..(d-1) : c[e] = c[d]

stops(m, c, d) ==
  loop(c, d) \/ malformed(m, c[d]) \/ addrsOf(m, c[d]) # <<>> \/ nextOf(m, c[d]) = None

\* The turn that ends the loop: with addresses, without an answer, or with an
\* error (a loop, an invalid alias, too many names).
dnsAnswers(m, h) ==
  LET c == chain(m, h)
      ends == {d \in 0..(MaxDepth - 1) : stops(m, c, d) /\ \A e \in 0..(d-1) : ~stops(m, c, e)}
      end == CHOOSE d \in ends : TRUE
  IN IF ends = {} \/ loop(c, end) \/ malformed(m, c[end])
     THEN [ok |-> FALSE, ips |-> <<>>, next |-> h]
     ELSE [ok |-> TRUE, ips |-> addrsOf(m, c[end]), next |-> c[end]]

Readings == [m \in Messages |-> [n \in Names |-> dnsAnswers(m, n)]]

----------------------------------------------------------------------------
(* lookupIPv4.                                                             *)

skip == UNCHANGED <<pc, queryVars, result, historyVars>>

\* resolveDNS starts anew with this resolver.
ask ==
  /\ pc' = "query" /\ network' = "udp4" /\ depth' = 0 /\ host' = Host
  /\ sleft' = IF left < Server THEN left ELSE Server
  /\ reached' = {Host} /\ owned' = {} /\ UNCHANGED <<tried, result>>

\* The next resolver of the first four, the unsuitable ones included.
Lookup ==
  /\ pc = "lookup"
  /\ \/ /\ server < Len(Servers) /\ server < 4
        /\ server' = server + 1
        /\ IF Servers[server + 1] THEN ask ELSE skip
     \/ /\ server = Len(Servers) \/ server >= 4
        /\ finish("failed")
        /\ UNCHANGED <<server, queryVars, historyVars>>
  /\ UNCHANGED <<policyVars, left, ips, last>>

\* resolveDNS fails: lookupIPv4 goes on if the dial's context does.
noAddress ==
  /\ IF left' = 0 THEN finish("expired") ELSE pc' = "lookup" /\ UNCHANGED result
  /\ UNCHANGED <<network, depth, host, ips, reached, owned>>

----------------------------------------------------------------------------
(* resolveDNS.                                                             *)

\* Mutant: UDP may use all that the resolver has.
budgetWhole == sleft
\* The exchange's own timeout, within the resolver's.
budget == IF sleft < Exchange THEN sleft ELSE Exchange

spend(t) == left' = left - t /\ sleft' = sleft - t

\* Neither a usable answer nor a refusal: TCP after UDP, then the end.
tryTCP ==
  /\ network = "udp4" /\ network' = "tcp4"
  /\ UNCHANGED <<pc, depth, host, ips, result, reached, owned>>

\* No answer, a wrong or a truncated one, by the end of the exchange.
NoAnswer ==
  /\ pc = "query"
  /\ \E t \in 0..budget : spend(t)
  /\ tryTCP \/ (network = "tcp4" /\ noAddress)
  /\ UNCHANGED <<policyVars, server, last, tried>>

\* An answer with an RCode.
Refused ==
  /\ pc = "query" /\ budget > 0
  /\ \E t \in 0..(budget - 1) : spend(t)
  /\ noAddress
  /\ UNCHANGED <<policyVars, server, last, tried>>

\* Mutant: the bound on queries is lost.
nextDepthAlways == depth
nextDepth == depth + 1

\* The reference for what may be learnt from m: the names that every set of
\* names closed under m's aliases contains, if it contains those reached.
closure(m) ==
  LET closed(S) == \A k \in 1..Len(m) :
                     "alias" \in DOMAIN m[k] /\ m[k].owner \in S => m[k].alias \in S \cup {Invalid}
  IN {n \in Names : \A S \in SUBSET Names : reached \subseteq S /\ closed(S) => n \in S}

learn(m) ==
  /\ reached' = closure(m)
  /\ owned' = owned \cup {m[k].addr : k \in {j \in 1..Len(m) :
                            "addr" \in DOMAIN m[j] /\ m[j].owner \in reached'}}

\* An answer: addresses, an alias to ask for next, or neither.
Answer ==
  /\ pc = "query" /\ budget > 0
  /\ \E t \in 0..(budget - 1) : spend(t)
  /\ \E m \in Messages :
       LET reading == Readings[m][host] IN
       \/ /\ reading.ok /\ reading.ips # <<>>
          /\ learn(m) /\ pc' = "dial" /\ ips' = reading.ips
          /\ UNCHANGED <<network, depth, host, result>>
       \/ /\ reading.ok /\ reading.ips = <<>> /\ reading.next # host /\ nextDepth < MaxDepth
          /\ learn(m) /\ depth' = nextDepth /\ host' = reading.next /\ network' = "udp4"
          /\ UNCHANGED <<pc, ips, result>>
       \/ /\ ~reading.ok \/ (reading.ips = <<>> /\ (reading.next = host \/ nextDepth >= MaxDepth))
          /\ noAddress
  /\ UNCHANGED <<policyVars, server, last, tried>>

----------------------------------------------------------------------------
(* dialDomain.                                                             *)

\* domainAllowed || policy.AllowsTCP(target)
permitted(ip) == named \/ ip \in allow

\* Mutant: an address that is passed over counts as a failure.
passedFailed == "failed"
passedOver == last

\* The stack's dial succeeds, fails, or ends with the context; one that has
\* ended is not dialled with.
dial(ip) ==
  /\ tried' = tried \cup {ip}
  /\ \E t \in 0..left : left' = left - t
  /\ \/ left' > 0 /\ finish("connected") /\ UNCHANGED last
     \/ last' = "failed" /\ UNCHANGED <<pc, result>>

DialDomain ==
  /\ pc = "dial"
  /\ \/ ips = <<>> /\ finish(last) /\ UNCHANGED <<left, ips, last, tried>>
     \/ /\ ips # <<>> /\ left = 0
        /\ finish("expired") /\ UNCHANGED <<left, ips, last, tried>>
     \/ /\ ips # <<>> /\ left > 0
        /\ ips' = Tail(ips)
        /\ IF Head(ips) \in Unicast /\ permitted(Head(ips))
           THEN dial(Head(ips))
           ELSE last' = passedOver /\ UNCHANGED <<pc, result, left, tried>>
  /\ UNCHANGED <<policyVars, server, queryVars, reached, owned>>

\* The tunnel is replaced or the service ends.
Cancel ==
  /\ pc # "done" /\ left > 0
  /\ left' = 0 /\ sleft' = 0
  /\ UNCHANGED <<pc, policyVars, server, network, depth, host, ips, last, result, historyVars>>

Step == Lookup \/ NoAnswer \/ Refused \/ Answer \/ DialDomain

Next == Step \/ Cancel

Spec == Init /\ [][Next]_vars /\ WF_vars(Step)

----------------------------------------------------------------------------
(* Properties.                                                             *)

\* The address dialled is one the host owns by the answers used, through any
\* number of aliases and queries; it is unicast and authorised, by the name the
\* client gave (never by an alias of it) or by itself.
DialsOwned == \A ip \in tried : ip \in owned \cap Unicast /\ (named \/ ip \in allow)

\* The client is told that the ACL refused it (ErrDenied, reply 2) when answers
\* had addresses and none could be dialled, never after a dial that failed or a
\* resolver that did not answer.
DeniedUntried ==
  /\ result = "denied" => owned # {} /\ tried = {}
  /\ pc = "dial" => (last = "denied" <=> tried = {})

\* "Leave time for TCP when a server silently drops UDP" (dns.go:40), as far as
\* it goes: for the name the client gave.
FirstTCPHasTime == pc = "query" /\ network = "tcp4" /\ depth = 0 /\ left > 0 => budget > 0

\* The same for every query of the alias chain, as the comment says it.
TCPHasTime == pc = "query" /\ network = "tcp4" /\ left > 0 => budget > 0

\* Aliases without end, in no time at all, do not hold the dial.
DialEnds == <>(pc = "done")
============================================================================
