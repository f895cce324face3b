---------------------------- MODULE CommandProofs ----------------------------
(* The safety properties of Command, for any pushes, policies and sessions.  *)
EXTENDS Command, FiniteSetTheorems, TLAPS

Opened == {"pushed", "verify", "stack", "perform", "write", "close"}
Stages == {"start", "serve", "new", "authenticate", "login", "config", "refresh", "dial", "returned"} \cup Opened

\* Where the program is says whether the OpenVPN client is open.
ClientInv == pc \in Stages /\ clients = IF pc \in Opened THEN 1 ELSE 0

\* Profiles are made with ever later sessions; the sessions rejected so far are
\* at most those tried, and when a profile is asked for all are past.
SessionInv ==
  /\ session \in Nat /\ profile \in Nat /\ try \in 0..2
  /\ IsFiniteSet(refused) /\ Cardinality(refused) <= try
  /\ \A r \in refused : r \in Nat /\ r <= session
  /\ pc \in {"start", "serve", "new", "authenticate", "login"} => try = 0
  /\ pc = "refresh" => try \in 0..1
  /\ pc = "config" => try \in 0..1 /\ session \notin refused
  /\ pc = "config" => \A r \in refused : r < session
  /\ pc = "dial" => /\ try \in 1..2 /\ profile = session
                    /\ Cardinality(refused) <= try - 1
                    /\ \A r \in refused : r < session

\* What is verified stays so until the next Open.
VerifiedInv ==
  /\ pc \in {"verify", "stack", "perform", "write", "close"} => policy \notin {None, Bad, {}}
  /\ pc \in {"stack", "perform", "write", "close"} => verified
  /\ file # None => /\ pc \in {"close", "returned"}
                    /\ verified /\ policy \notin {None, Bad, {}}

CommandInv == ClientInv /\ SessionInv /\ VerifiedInv

\* Before the arguments are read nothing is open, tried or written.
LEMMA InitCommand == Init => CommandInv
<1> SUFFICES ASSUME Init PROVE CommandInv
  OBVIOUS
<1>1. IsFiniteSet(refused) /\ Cardinality(refused) = 0
  BY FS_EmptySet DEF Init
<1> QED
  BY <1>1 DEF Init, CommandInv, ClientInv, SessionInv, VerifiedInv, Stages, Opened

\* The stages of Open and the last one alone touch the clients.
LEMMA ClientKeeps == ClientInv /\ [Next]_vars => ClientInv'
<1> SUFFICES ASSUME ClientInv, [Next]_vars PROVE ClientInv'
  OBVIOUS
<1> USE DEF ClientInv, Stages, Opened, vpnVars, goTo, return
<1>1. CASE Dispatch \/ New \/ Authenticate \/ Serve \/ Login
  BY <1>1 DEF Dispatch, New, Authenticate, Serve, Login, authenticated, resolve
<1>2. CASE Config \/ Refresh \/ Check \/ Export \/ Write
  BY <1>2 DEF Config, Refresh, Check, Export, Write, finish
<1>3. CASE OpenDial
  BY <1>3 DEF OpenDial
<1>4. CASE OpenPushed
  BY <1>4 DEF OpenPushed, closeClient
<1>5. CASE OpenVerified
  BY <1>5 DEF OpenVerified
<1>6. CASE OpenUnverified
  BY <1>6 DEF OpenUnverified, unverified, closeClient
<1>7. CASE OpenStack \/ Close
  BY <1>7 DEF OpenStack, Close, closeClient
<1>8. CASE Cancel \/ Lose
  BY <1>8 DEF Cancel, Lose
<1>9. CASE UNCHANGED vars
  BY <1>9 DEF vars
<1> QED
  BY <1>1, <1>2, <1>3, <1>4, <1>5, <1>6, <1>7, <1>8, <1>9 DEF Next, Progress

\* A rejected profile is of the current session; the refresh that follows
\* makes it a past one.
LEMMA SessionKeeps == SessionInv /\ [Next]_vars => SessionInv'
<1> SUFFICES ASSUME SessionInv, [Next]_vars PROVE SessionInv'
  OBVIOUS
<1>0. Cardinality(refused) \in Nat
  BY FS_CardinalityType DEF SessionInv
<1> USE DEF SessionInv, apiVars, vpnVars, goTo, return
<1>1. CASE Dispatch \/ New \/ Serve
  BY <1>1 DEF Dispatch, New, Serve, resolve
<1>2. CASE Authenticate \/ Login
  <2>1. try = 0 /\ refused = {}
    BY <1>0, <1>2, FS_EmptySet DEF Authenticate, Login
  <2> QED
    BY <1>2, <2>1 DEF Authenticate, Login, authenticated
<1>3. CASE Config
  BY <1>0, <1>3 DEF Config
<1>4. CASE Refresh
  BY <1>4 DEF Refresh, renewed
<1>5. CASE OpenDial
  <2>1. CASE refused' = refused
    BY <1>5, <2>1, <1>0 DEF OpenDial
  <2>2. CASE refused' # refused
    <3>1. /\ refused' = refused \cup {profile}
          /\ IF try = 1 THEN goTo("refresh") ELSE return(TRUE)
      BY <1>5, <2>2 DEF OpenDial
    <3>2. pc = "dial" /\ UNCHANGED <<session, profile, try>>
      BY <1>5 DEF OpenDial
    <3>3. IsFiniteSet(refused') /\ Cardinality(refused') <= Cardinality(refused) + 1
      BY <3>1, FS_AddElement, <1>0
    <3>4. Cardinality(refused') <= try'
      BY <3>2, <3>3, <1>0, FS_CardinalityType
    <3>5. \A r \in refused' : r \in Nat /\ r <= session'
      BY <3>1, <3>2
    <3> QED
      BY <3>1, <3>2, <3>3, <3>4, <3>5
  <2> QED
    BY <2>1, <2>2
<1>6. CASE OpenPushed \/ OpenVerified \/ OpenUnverified \/ OpenStack
  BY <1>6 DEF OpenPushed, OpenVerified, OpenUnverified, unverified, OpenStack
<1>7. CASE Check \/ Export \/ Write \/ Close
  BY <1>7 DEF Check, Export, Write, Close, finish
<1>8. CASE Cancel \/ Lose
  BY <1>8 DEF Cancel, Lose
<1>9. CASE UNCHANGED vars
  BY <1>9 DEF vars
<1> QED
  BY <1>1, <1>2, <1>3, <1>4, <1>5, <1>6, <1>7, <1>8, <1>9 DEF Next, Progress

\* Every way on from "verify" that does not return has seen data.
LEMMA VerifiedKeeps == VerifiedInv /\ [Next]_vars => VerifiedInv'
<1> SUFFICES ASSUME VerifiedInv, [Next]_vars PROVE VerifiedInv'
  OBVIOUS
<1> USE DEF VerifiedInv, vpnVars, goTo, return
<1>1. CASE Dispatch \/ New \/ Authenticate \/ Serve \/ Login
  BY <1>1 DEF Dispatch, New, Authenticate, Serve, Login, authenticated, resolve
<1>2. CASE Config \/ Refresh \/ OpenDial
  BY <1>2 DEF Config, Refresh, OpenDial
<1>3. CASE OpenPushed
  BY <1>3, CommandAssumption DEF OpenPushed
<1>4. CASE OpenVerified \/ OpenUnverified \/ OpenStack
  BY <1>4 DEF OpenVerified, OpenUnverified, unverified, OpenStack
<1>5. CASE Check \/ Export \/ Write \/ Close
  BY <1>5 DEF Check, Export, Write, Close, finish
<1>6. CASE Cancel \/ Lose
  BY <1>6 DEF Cancel, Lose
<1>7. CASE UNCHANGED vars
  BY <1>7 DEF vars
<1> QED
  BY <1>1, <1>2, <1>3, <1>4, <1>5, <1>6, <1>7 DEF Next, Progress

\* The inductive invariant, in three parts that keep themselves.
THEOREM CommandInvariant == Spec => []CommandInv
<1>1. CommandInv /\ [Next]_vars => CommandInv'
  BY ClientKeeps, SessionKeeps, VerifiedKeeps DEF CommandInv
<1> QED
  BY <1>1, InitCommand, PTL DEF Spec

\* tunnel/session.go and main.go: never two VPN sessions, and none left open.
THEOREM ClosesClients == Spec => []ClientsClosed
<1>1. CommandInv => ClientsClosed
  BY DEF CommandInv, ClientInv, Opened, ClientsClosed
<1> QED
  BY <1>1, CommandInvariant, PTL

\* main.go: a rejected profile is never presented again.
THEOREM RejectsOnce == Spec => []RejectedOnce
<1>1. CommandInv => RejectedOnce
  BY FS_CardinalityType DEF CommandInv, SessionInv, RejectedOnce
<1> QED
  BY <1>1, CommandInvariant, PTL

\* main.go and export.go: success and a new file only for a verified session.
THEOREM SucceedsVerified == Spec => []SuccessVerified
<1>1. CommandInv => SuccessVerified
  BY DEF CommandInv, VerifiedInv, SuccessVerified
<1> QED
  BY <1>1, CommandInvariant, PTL

----------------------------------------------------------------------------
(* The exported rules.                                                     *)

\* The entries of a snapshot are prefixes, names and wildcards.
Parsed(s) == \A e \in s : e.dest.kind \in {"prefix", "name", "wildcard"}

\* A push that is accepted has entries of these kinds.
LEMMA ParsesPush ==
  ASSUME NEW push, ParsePush(push) # Bad
  PROVE  Parsed(ParsePush(push))
<1>1. \A o \in push : valid(o)
  BY DEF ParsePush
<1>2. ASSUME NEW o \in push \ {Other}, NEW e \in entries(o)
      PROVE  e.dest.kind \in {"prefix", "name", "wildcard"}
  <2>1. o.value.kind \in {"prefix", "addr", "name", "wildcard"}
    BY <1>1 DEF valid
  <2>2. e.dest = IF o.value.kind = "addr" THEN Prefix(o.value.addr, Bits) ELSE o.value
    BY DEF entries
  <2> QED
    BY <2>1, <2>2 DEF Prefix
<1> QED
  BY <1>1, <1>2 DEF ParsePush, Parsed

\* Mihomo reads an entry's destination as the snapshot does.
LEMMA HitsDest ==
  ASSUME NEW d, NEW f, d.kind \in {"prefix", "name", "wildcard"}
  PROVE  hitDest(d, f) <=> matches(d, f.to)
BY DEF hitDest, matches, contains, covers, IsStrictSuffix

\* A name in the rules is met by that name alone.
LEMMA HitsName ==
  ASSUME NEW l, NEW f
  PROVE  hitDest(Name(l), f) <=> f.to = Name(l)
BY HitsDest DEF matches, contains, covers, Name

\* A rule is met by its destination, its port and its network.
LEMMA HitsRule ==
  ASSUME NEW d, NEW p, NEW net, NEW f
  PROVE  hit(Rule(d, p, net), f) <=> hitDest(d, f) /\ p \in {0, f.port} /\ (net = "any" \/ f.tcp)
BY DEF hit, Rule

\* A snapshot allows by one entry, with any port or with the port asked for.
LEMMA AllowsBy ==
  ASSUME NEW s, NEW n, NEW port, port # 0
  PROVE  Allows(s, n, port) <=> \E e \in s : e.port \in {0, port} /\ matches(e.dest, n)
BY DEF Allows, AllowsTCP, AllowsDomainTCP, granted, matches

\* Whom an entry of the snapshot, or its alias, matches.
LEMMA MatchesEntries ==
  ASSUME NEW s, Parsed(s), NEW f, NEW P
  PROVE  (\E e \in s \cup aliased(s) : hitDest(e.dest, f) /\ e.port \in P)
           <=> \E n \in names(f), e \in s : matches(e.dest, n) /\ e.port \in P
<1>1. ASSUME NEW e \in s PROVE hitDest(e.dest, f) <=> matches(e.dest, f.to)
  BY HitsDest DEF Parsed
<1>2. ASSUME NEW e \in aliased(s), hitDest(e.dest, f)
      PROVE  f.to = Name(IP4) /\ \E g \in s : g.port = e.port /\ matches(g.dest, Name(IP))
  <2>1. PICK g \in s : e = [dest |-> Name(IP4), port |-> g.port] /\ matches(g.dest, Name(IP))
    BY DEF aliased
  <2> QED
    BY <1>2, <2>1, HitsName
<1>3. ASSUME NEW g \in s, f.to = Name(IP4), matches(g.dest, Name(IP))
      PROVE  \E e \in aliased(s) : hitDest(e.dest, f) /\ e.port = g.port
  <2> DEFINE e == [dest |-> Name(IP4), port |-> g.port]
  <2>1. e \in aliased(s)
    BY <1>3 DEF aliased
  <2> QED
    BY <1>3, <2>1, HitsName
<1> QED
  BY <1>1, <1>2, <1>3 DEF names

\* What an ordinary connection does not meet: the exceptions.
LEMMA MissesExceptions ==
  ASSUME NEW f, ~exempt(f), NEW r \in exceptions
  PROVE  ~hit(r, f)
<1>1. PICK d \in {Process, Prefix(Remote, Bits), Loopback} \cup {Name(l) : l \in Control} :
        r = Rule(d, 0, "any")
  BY DEF exceptions
<1>2. SUFFICES ~hitDest(d, f)
  BY <1>1, HitsRule
<1>3. CASE d = Process
  BY <1>3 DEF Process, hitDest, exempt
<1>4. CASE d = Prefix(Remote, Bits)
  BY <1>4, HitsDest DEF Prefix, exempt
<1>5. CASE d = Loopback
  BY <1>5, HitsDest, CommandAssumption DEF exempt
<1>6. ASSUME NEW l \in Control, d = Name(l) PROVE ~hitDest(d, f)
  BY <1>6, HitsName DEF exempt, Name
<1> QED
  BY <1>1, <1>3, <1>4, <1>5, <1>6

\* It meets an allow if and only if it is authorised.
LEMMA HitsAllows ==
  ASSUME NEW s, Parsed(s), NEW f, f.port # 0
  PROVE  (\E r \in allows(s) : hit(r, f)) <=> authorised(s, f)
<1>1. (\E r \in allows(s) : hit(r, f))
        <=> f.tcp /\ \E e \in s \cup aliased(s) : hitDest(e.dest, f) /\ e.port \in {0, f.port}
  <2>1. \A e \in s \cup aliased(s) :
          hit(Rule(e.dest, e.port, "tcp"), f) <=> hitDest(e.dest, f) /\ e.port \in {0, f.port} /\ f.tcp
    BY HitsRule
  <2> QED
    BY <2>1 DEF allows
<1>2. authorised(s, f)
        <=> f.tcp /\ \E n \in names(f), e \in s : matches(e.dest, n) /\ e.port \in {0, f.port}
  BY AllowsBy DEF authorised
<1> QED
  BY <1>1, <1>2, MatchesEntries

\* It meets a guard, or the university's zone, if its destination is known.
LEMMA HitsGuards ==
  ASSUME NEW s, Parsed(s), NEW f, known(s, f)
  PROVE  (\E r \in guards(s) : hit(r, f)) \/ hit(Rule(Suffix(Zone), 0, "any"), f)
<1>1. CASE \E n \in names(f), e \in s : matches(e.dest, n)
  <2>1. PICK n \in names(f), g \in s : matches(g.dest, n)
    BY <1>1
  <2>2. PICK e \in s \cup aliased(s) : hitDest(e.dest, f) /\ e.port \in {g.port}
    BY <2>1, MatchesEntries
  <2>3. Rule(e.dest, 0, "any") \in guards(s)
    BY <2>2 DEF guards
  <2> QED
    BY <2>2, <2>3, HitsRule
<1>2. CASE f.to.kind = "name" /\ IsSuffix(Zone, f.to.name)
  BY <1>2, HitsRule DEF hitDest, Suffix
<1> QED
  BY <1>1, <1>2 DEF known

\* The four or five tiers of the rules, in their order.
LEMMA Tiers ==
  ASSUME NEW s, NEW b \in BOOLEAN
  PROVE  LET q == Render(s, b) IN
         /\ Len(q) \in {4, 5}
         /\ q[1] = tier(exceptions, "DIRECT") /\ q[2] = tier(allows(s), "XMU")
         /\ q[3] = tier(guards(s), "REJECT") /\ q[4] = tier({Rule(Suffix(Zone), 0, "any")}, "REJECT")
         /\ Len(q) = 5 => q[5] = tier({Rule(All, 0, "any")}, "DIRECT")
BY DEF Render, tiersOf

\* The first tier that is met decides.
LEMMA FirstDecides ==
  ASSUME NEW q, Len(q) \in Nat, NEW f, NEW i \in 1..Len(q),
         \E r \in q[i].rules : hit(r, f),
         \A k \in 1..(i-1) : \A r \in q[k].rules : ~hit(r, f)
  PROVE  route(q, f) = q[i].to
<1> DEFINE hits == {k \in 1..Len(q) : \E r \in q[k].rules : hit(r, f)}
<1>1. i \in hits /\ \A k \in hits : i <= k
  OBVIOUS
<1>2. Min(hits) = i
  <2>1. hits \subseteq Int
    OBVIOUS
  <2> HIDE DEF hits
  <2>2. \A k \in hits : (\A j \in hits : k <= j) => k = i
    BY <1>1, <2>1
  <2> QED
    BY <1>1, <2>2 DEF Min
<1> QED
  BY <1>1, <1>2 DEF route

\* What one option of a push says, read on its own.
grants(o, to, port) ==
  /\ o # Other
  /\ o.ports = {} \/ port \in o.ports
  /\ matches(IF o.value.kind = "addr" THEN Prefix(o.value.addr, Bits) ELSE o.value, to)

\* acl.go: a snapshot allows a request if and only if one option of its push
\* does: nothing is lost or added when options are merged, and "any" port is
\* never confused with a port that an option names.
THEOREM PushDecides ==
  ASSUME NEW push, ParsePush(push) # Bad, NEW to, NEW port, port # 0
  PROVE  Allows(ParsePush(push), to, port) <=> \E o \in push : grants(o, to, port)
<1>1. /\ \A o \in push : valid(o)
      /\ ParsePush(push) = UNION {entries(o) : o \in push \ {Other}}
  BY DEF ParsePush
<1>2. ASSUME NEW o \in push \ {Other}
      PROVE  grants(o, to, port) <=> \E e \in entries(o) : e.port \in {0, port} /\ matches(e.dest, to)
  <2> DEFINE dest == IF o.value.kind = "addr" THEN Prefix(o.value.addr, Bits) ELSE o.value
             ports == IF o.ports = {} THEN {0} ELSE o.ports
  <2>1. 0 \notin o.ports
    BY <1>1, AclAssumption DEF valid
  <2>2. entries(o) = {[dest |-> dest, port |-> p] : p \in ports}
    BY DEF entries
  <2>3. (\E p \in ports : p \in {0, port}) <=> o.ports = {} \/ port \in o.ports
    BY <2>1
  <2>4. grants(o, to, port) <=> (o.ports = {} \/ port \in o.ports) /\ matches(dest, to)
    BY DEF grants
  <2> HIDE DEF dest, ports
  <2>5. \A p : [dest |-> dest, port |-> p].dest = dest /\ [dest |-> dest, port |-> p].port = p
    OBVIOUS
  <2>6. (\E e \in entries(o) : e.port \in {0, port} /\ matches(e.dest, to))
          <=> \E p \in ports : p \in {0, port} /\ matches(dest, to)
    <3>1. ASSUME NEW e \in entries(o) PROVE e.dest = dest /\ e.port \in ports
      BY <2>2, <2>5
    <3>2. ASSUME NEW p \in ports PROVE \E e \in entries(o) : e.dest = dest /\ e.port = p
      BY <2>2, <2>5
    <3> QED
      BY <3>1, <3>2, Zenon
  <2> QED
    BY <2>3, <2>4, <2>6
<1>3. Allows(ParsePush(push), to, port)
        <=> \E o \in push \ {Other} : \E e \in entries(o) : e.port \in {0, port} /\ matches(e.dest, to)
  BY <1>1, AllowsBy
<1>4. \A o \in push : grants(o, to, port) => o # Other
  BY DEF grants
<1> QED
  BY <1>2, <1>3, <1>4

\* export.go and mihomo/export.go: for any snapshot and any connection that is
\* not exempt, the rules grant the ACL and nothing but the ACL, and let nothing
\* that it knows out in the open.
THEOREM RulesFaithful ==
  ASSUME NEW s, Parsed(s), NEW b \in BOOLEAN, NEW f, f.port # 0
  PROVE  faithful(s, Render(s, b), f)
<1> SUFFICES ASSUME ~exempt(f)
             PROVE  /\ route(Render(s, b), f) = "XMU" <=> authorised(s, f)
                    /\ known(s, f) => route(Render(s, b), f) \in {"XMU", "REJECT"}
  BY DEF faithful
<1> DEFINE q == Render(s, b)
           met(k) == \E r \in q[k].rules : hit(r, f)
<1>1. /\ Len(q) \in {4, 5}
      /\ q[1].rules = exceptions
      /\ q[2].rules = allows(s) /\ q[2].to = "XMU"
      /\ q[3].rules = guards(s) /\ q[3].to = "REJECT"
      /\ q[4].rules = {Rule(Suffix(Zone), 0, "any")} /\ q[4].to = "REJECT"
      /\ Len(q) = 5 => q[5].to = "DIRECT"
  <2>1. \A R, to : tier(R, to).rules = R /\ tier(R, to).to = to
    BY DEF tier
  <2>2. /\ Len(q) \in {4, 5}
        /\ q[1] = tier(exceptions, "DIRECT") /\ q[2] = tier(allows(s), "XMU")
        /\ q[3] = tier(guards(s), "REJECT") /\ q[4] = tier({Rule(Suffix(Zone), 0, "any")}, "REJECT")
        /\ Len(q) = 5 => q[5] = tier({Rule(All, 0, "any")}, "DIRECT")
    BY Tiers
  <2> HIDE DEF q
  <2> QED
    BY <2>1, <2>2
<1>2. ~met(1)
  BY <1>1, MissesExceptions
<1>3. met(2) <=> authorised(s, f)
  BY <1>1, HitsAllows
<1>4. known(s, f) => met(3) \/ met(4)
  BY <1>1, HitsGuards
<1>5. \A i \in 1..Len(q) : met(i) /\ (\A k \in 1..(i-1) : ~met(k)) => route(q, f) = q[i].to
  <2> HIDE DEF q
  <2> QED
    BY <1>1, FirstDecides
<1>6. (\A i \in 1..Len(q) : ~met(i)) => route(q, f) = "own rules"
  <2> HIDE DEF q
  <2> QED
    BY <1>1 DEF route
<1> HIDE DEF q, met
<1>7. CASE met(2)
  <2>1. route(q, f) = "XMU"
    BY <1>1, <1>2, <1>5, <1>7
  <2> QED
    BY <1>3, <1>7, <2>1 DEF q
<1>8. CASE ~met(2) /\ (met(3) \/ met(4))
  <2>1. route(q, f) = "REJECT"
    BY <1>1, <1>2, <1>5, <1>8
  <2> QED
    BY <1>3, <1>8, <2>1 DEF q
<1>9. CASE ~met(2) /\ ~met(3) /\ ~met(4)
  <2>1. route(q, f) \in {"DIRECT", "own rules"}
    <3>1. CASE Len(q) = 5 /\ met(5)
      <4>1. 5 \in 1..Len(q) /\ \A k \in 1..(5-1) : k = 1 \/ k = 2 \/ k = 3 \/ k = 4
        BY <3>1
      <4>2. \A k \in 1..(5-1) : ~met(k)
        BY <1>2, <1>9, <4>1, Zenon
      <4> QED
        BY <1>1, <1>5, <3>1, <4>1, <4>2
    <3>2. CASE ~(Len(q) = 5 /\ met(5))
      <4>1. \A i \in 1..Len(q) : i = 1 \/ i = 2 \/ i = 3 \/ i = 4 \/ (i = 5 /\ Len(q) = 5)
        <5>1. Len(q) \in {4, 5}
          BY <1>1
        <5>2. \A n \in {4, 5} : \A i \in 1..n :
                i = 1 \/ i = 2 \/ i = 3 \/ i = 4 \/ (i = 5 /\ n = 5)
          OBVIOUS
        <5> QED
          BY <5>1, <5>2, Zenon
      <4>2. \A i \in 1..Len(q) : ~met(i)
        BY <1>2, <1>9, <3>2, <4>1, Zenon
      <4> QED
        BY <1>6, <4>2
    <3> QED
      BY <3>1, <3>2
  <2> QED
    BY <1>3, <1>4, <1>9, <2>1 DEF q
<1> QED
  BY <1>7, <1>8, <1>9

\* acl.go, export.go: from the options of a push to the routing rules, Mihomo
\* sends an ordinary connection to the gateway if and only if one option grants
\* it, by its own name or, for the campus detector, by the other.
THEOREM RulesFollowPush ==
  ASSUME NEW push, ParsePush(push) # Bad, NEW b \in BOOLEAN, NEW f, f.port # 0, ~exempt(f)
  PROVE  route(Render(ParsePush(push), b), f) = "XMU"
           <=> f.tcp /\ \E n \in names(f), o \in push : grants(o, n, f.port)
<1>1. faithful(ParsePush(push), Render(ParsePush(push), b), f)
  BY ParsesPush, RulesFaithful
<1>2. \A n : Allows(ParsePush(push), n, f.port) <=> \E o \in push : grants(o, n, f.port)
  BY PushDecides
<1> QED
  BY <1>1, <1>2 DEF faithful, authorised

\* What is written was rendered from a snapshot that a PUSH was parsed to.
FileInv ==
  /\ policy \notin {None, Bad} => Parsed(policy)
  /\ fragment \in BOOLEAN
  /\ file # None => Parsed(file.of) /\ file.tiers = Render(file.of, fragment)

\* The file is written with the rules of the session that was verified.
LEMMA FileKeeps == VerifiedInv /\ FileInv /\ [Next]_vars => FileInv'
<1> SUFFICES ASSUME VerifiedInv, FileInv, [Next]_vars PROVE FileInv'
  OBVIOUS
<1> USE DEF FileInv, vpnVars, argVars, goTo, return
<1>1. CASE Dispatch \/ New \/ Authenticate \/ Serve \/ Login
  BY <1>1 DEF Dispatch, New, Authenticate, Serve, Login, authenticated, resolve
<1>2. CASE Config \/ Refresh \/ OpenDial
  BY <1>2 DEF Config, Refresh, OpenDial
<1>3. CASE OpenPushed
  BY <1>3, ParsesPush DEF OpenPushed
<1>4. CASE OpenVerified \/ OpenUnverified \/ OpenStack
  BY <1>4 DEF OpenVerified, OpenUnverified, unverified, OpenStack
<1>5. CASE Check \/ Export \/ Close
  BY <1>5 DEF Check, Export, Close, finish
<1>6. CASE Write
  BY <1>6 DEF Write, VerifiedInv, finish
<1>7. CASE Cancel \/ Lose
  BY <1>7 DEF Cancel, Lose
<1>8. CASE UNCHANGED vars
  BY <1>8 DEF vars
<1> QED
  BY <1>1, <1>2, <1>3, <1>4, <1>5, <1>6, <1>7, <1>8 DEF Next, Progress

\* Whatever file export-mihomo leaves behind grants its session's ACL, for any
\* PUSH the server sent.
THEOREM ExportsFaithfully == Spec => []ExportFaithful
<1>1. Init => FileInv
  BY DEF Init, FileInv
<1>2. CommandInv /\ FileInv /\ [Next]_vars => FileInv'
  BY FileKeeps DEF CommandInv
<1>3. FileInv => ExportFaithful
  BY RulesFaithful, CommandAssumption DEF FileInv, ExportFaithful
<1> QED
  BY <1>1, <1>2, <1>3, CommandInvariant, PTL DEF Spec

----------------------------------------------------------------------------
(* The command ends: of what CommandEnds needs, the part that no fairness   *)
(* is needed for.                                                          *)

\* How many steps are left at most.  A handshake that fails may cost a refresh
\* and a second profile, a profile that needs a login another refresh, once.
stepsLeft ==
  CASE pc = "returned" -> 0
    [] pc = "close" -> 1
    [] pc \in {"write", "serve"} -> 2
    [] pc = "perform" -> 3
    [] pc = "stack" -> 4
    [] pc = "verify" -> 5
    [] pc = "pushed" -> 6
    [] pc = "dial" -> IF try = 2 THEN 7 ELSE 12
    [] pc = "config" -> IF try = 1 THEN IF refreshed THEN 8 ELSE 10 ELSE IF refreshed THEN 13 ELSE 15
    [] pc = "refresh" -> IF try = 1 THEN 11 ELSE 14
    [] pc = "login" -> 16
    [] pc = "authenticate" -> 17
    [] pc = "new" -> 18
    [] pc = "start" -> 19

\* Nothing is refreshed for a profile before the first refresh.
RefreshedInv ==
  /\ refreshed \in BOOLEAN
  /\ pc \in {"start", "serve", "new", "authenticate", "login"} => ~refreshed
  /\ pc = "refresh" => try = 1 \/ refreshed

\* Every step of the program leaves fewer steps to take; Ctrl-C and the end of
\* the session leave as many.
fewer ==
  /\ stepsLeft \in 0..19 /\ stepsLeft' \in 0..19
  /\ stepsLeft' < stepsLeft \/ (UNCHANGED stepsLeft /\ (Cancel \/ Lose))

\* A refresh is asked for before the first try, or follows a refused handshake.
LEMMA RefreshedKeeps == SessionInv /\ RefreshedInv /\ [Next]_vars => RefreshedInv'
<1> SUFFICES ASSUME SessionInv, RefreshedInv, [Next]_vars PROVE RefreshedInv'
  OBVIOUS
<1> USE DEF RefreshedInv, SessionInv, apiVars, vpnVars, goTo, return
<1>1. CASE Dispatch \/ New \/ Authenticate \/ Serve \/ Login
  BY <1>1 DEF Dispatch, New, Authenticate, Serve, Login, authenticated, resolve
<1>2. CASE Config \/ Refresh
  BY <1>2 DEF Config, Refresh
<1>3. CASE OpenDial \/ OpenPushed \/ OpenVerified \/ OpenUnverified \/ OpenStack
  BY <1>3 DEF OpenDial, OpenPushed, OpenVerified, OpenUnverified, unverified, OpenStack
<1>4. CASE Check \/ Export \/ Write \/ Close
  BY <1>4 DEF Check, Export, Write, Close, finish
<1>5. CASE Cancel \/ Lose
  BY <1>5 DEF Cancel, Lose
<1>6. CASE UNCHANGED vars
  BY <1>6 DEF vars
<1> QED
  BY <1>1, <1>2, <1>3, <1>4, <1>5, <1>6 DEF Next, Progress

\* The measure is a number of steps at every stage.
LEMMA StepsBounded == ASSUME ClientInv PROVE stepsLeft \in 0..19
BY DEF ClientInv, Stages, Opened, stepsLeft

\* Action by action: one step fewer is left, by Ctrl-C or a loss as many.
LEMMA StepsFewer ==
  ASSUME ClientInv, ClientInv', SessionInv, RefreshedInv, Next
  PROVE  fewer
<1>0. stepsLeft \in 0..19 /\ stepsLeft' \in 0..19
  BY StepsBounded DEF ClientInv, Stages, Opened, stepsLeft
<1> USE DEF SessionInv, RefreshedInv, apiVars, vpnVars, goTo, return, stepsLeft
<1>1. CASE Dispatch \/ New \/ Serve
  BY <1>0, <1>1 DEF Dispatch, New, Serve, resolve, fewer
<1>2. CASE Authenticate \/ Login
  BY <1>0, <1>2 DEF Authenticate, Login, authenticated, fewer
<1>3. CASE Config \/ Refresh
  BY <1>0, <1>3 DEF Config, Refresh, fewer
<1>4. CASE OpenDial
  BY <1>0, <1>4 DEF OpenDial, fewer
<1>5. CASE OpenPushed \/ OpenVerified \/ OpenUnverified \/ OpenStack
  BY <1>0, <1>5 DEF OpenPushed, OpenVerified, OpenUnverified, unverified, OpenStack, fewer
<1>6. CASE Check \/ Export \/ Write \/ Close
  BY <1>0, <1>6 DEF Check, Export, Write, Close, finish, fewer
<1>7. CASE Cancel \/ Lose
  <2>1. UNCHANGED <<pc, try, refreshed>>
    BY <1>7 DEF Cancel, Lose
  <2>2. UNCHANGED stepsLeft
    BY <2>1, Zenon
  <2> QED
    BY <1>0, <1>7, <2>2, Zenon DEF fewer
<1> QED
  BY <1>1, <1>2, <1>3, <1>4, <1>5, <1>6, <1>7 DEF Next, Progress

\* main.go: no command takes more than nineteen steps, whatever the servers, the
\* disk and the user do: its retries are bounded together, not only each alone.
THEOREM EndsInSteps == Spec => [][fewer]_vars
<1>1. Init => RefreshedInv
  BY DEF Init, RefreshedInv
<1>2. CommandInv /\ RefreshedInv /\ [Next]_vars => RefreshedInv'
  BY RefreshedKeeps DEF CommandInv
<1>3. CommandInv /\ CommandInv' /\ RefreshedInv /\ [Next]_vars => [fewer]_vars
  BY StepsFewer DEF CommandInv
<1> QED
  BY <1>1, <1>2, <1>3, CommandInvariant, PTL DEF Spec
==============================================================================
