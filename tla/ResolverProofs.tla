--------------------------- MODULE ResolverProofs ----------------------------
(***************************************************************************)
(* Theorems about Resolver, for any resolvers, answers and policies: the   *)
(* time left for TCP, and what dnsAnswers reads of any message, on which   *)
(* the ownership of every address dialled rests.                           *)
(***************************************************************************)
EXTENDS Resolver, WellFoundedInduction, TLAPS

----------------------------------------------------------------------------
(* Time.                                                                   *)

\* A resolver starts with its three seconds or all that the dial has left; UDP
\* takes at most one exchange of it.
TimeInv ==
  /\ left \in Nat /\ sleft \in Nat /\ depth \in Nat
  /\ pc = "query" => sleft <= left
  /\ pc = "query" /\ depth = 0 /\ network = "udp4" => sleft = IF left < Server THEN left ELSE Server
  /\ pc = "query" /\ depth = 0 /\ network = "tcp4" /\ left > 0 => sleft > 0

\* The dial starts with all its time, and no query is under way.
LEMMA InitTime == Init => TimeInv
BY DEF Init, TimeInv, Dial

\* An exchange takes no more than its timeout and than the resolver has.
LEMMA BudgetBounds ==
  ASSUME sleft \in Nat
  PROVE  budget \in Nat /\ budget <= sleft /\ budget <= Exchange
BY DEF budget, Exchange

\* An exchange takes the same time from both contexts.
LEMMA QueryKeeps ==
  ASSUME TimeInv, NoAnswer \/ Refused \/ Answer
  PROVE  TimeInv'
<1>1. budget \in Nat /\ budget <= sleft /\ budget <= Exchange
  BY BudgetBounds DEF TimeInv
<1>2. PICK t \in Nat : t <= budget /\ left' = left - t /\ sleft' = sleft - t
  BY <1>1 DEF NoAnswer, Refused, Answer, spend
<1>3. pc = "query"
  BY DEF NoAnswer, Refused, Answer
<1>4. left' \in Nat /\ sleft' \in Nat /\ sleft' <= left'
  BY <1>1, <1>2, <1>3 DEF TimeInv
<1>5. CASE noAddress
  BY <1>4, <1>5 DEF noAddress, finish, TimeInv
<1>6. CASE tryTCP
  BY <1>1, <1>2, <1>3, <1>4, <1>6 DEF tryTCP, TimeInv, Exchange, Server
<1>7. CASE Answer /\ ~noAddress
  <2>1. \/ pc' = "dial" /\ UNCHANGED depth
        \/ depth' = nextDepth
    BY <1>7 DEF Answer
  <2> QED
    BY <1>4, <2>1 DEF TimeInv, nextDepth
<1> QED
  BY <1>5, <1>6, <1>7 DEF NoAnswer, Refused, Answer

\* Lookup gives a resolver its time; dials and the end of ctx only take time.
LEMMA OthersKeep ==
  ASSUME TimeInv, Lookup \/ DialDomain \/ Cancel \/ UNCHANGED vars
  PROVE  TimeInv'
<1> USE DEF TimeInv, queryVars, policyVars, historyVars
<1>1. CASE Lookup
  BY <1>1 DEF Lookup, ask, skip, finish, Server
<1>2. CASE DialDomain
  BY <1>2 DEF DialDomain, dial, finish
<1>3. CASE Cancel
  BY <1>3 DEF Cancel, Server
<1>4. CASE UNCHANGED vars
  BY <1>4 DEF vars
<1> QED
  BY <1>1, <1>2, <1>3, <1>4

\* dns.go:40: the comment's promise for the first query, however late in the
\* dial its resolver is asked and whatever was answered before.
THEOREM LeavesTimeForTCP == Spec => []FirstTCPHasTime
<1>1. TimeInv /\ [Next]_vars => TimeInv'
  BY QueryKeeps, OthersKeep DEF Next, Step
<1>2. TimeInv => FirstTCPHasTime
  BY DEF TimeInv, FirstTCPHasTime, budget, Exchange
<1> QED
  BY <1>1, <1>2, InitTime, PTL DEF Spec

----------------------------------------------------------------------------
(* Induction and recursion on the naturals.                                *)

\* A set of naturals that is not empty has a least one.
LEMMA LeastNatural ==
  ASSUME NEW T \in SUBSET Nat, T # {}
  PROVE  \E n \in T : \A k \in T : n <= k
<1> DEFINE R == OpToRel(<, Nat)
<1>1. IsWellFoundedOn(R, Nat)
  BY NatLessThanWellFounded
<1>2. PICK n \in T : \A k \in T : <<k, n>> \notin R
  <2> HIDE DEF R
  <2> QED
    BY <1>1, WFMin, Zenon
<1>3. \A k \in T : <<k, n>> \in R <=> k < n
  BY DEF OpToRel
<1>4. \A k \in T : ~(k < n)
  <2> HIDE DEF R
  <2> QED
    BY <1>2, <1>3, Zenon
<1>5. \A k \in T : n <= k
  BY <1>4
<1> QED
  BY <1>5

\* A bounded set of naturals that is not empty has a greatest one.
LEMMA GreatestNatural ==
  ASSUME NEW n \in Nat, NEW T \in SUBSET (1..n), T # {}
  PROVE  \E k \in T : \A j \in T : j <= k
<1> DEFINE D == {n - k : k \in T}
<1>1. D \subseteq Nat /\ D # {}
  <2>1. \A k \in T : n - k \in Nat
    OBVIOUS
  <2> QED
    BY <2>1
<1>2. PICK d \in D : \A e \in D : d <= e
  <2> HIDE DEF D
  <2> QED
    BY <1>1, LeastNatural
<1>3. PICK k \in T : d = n - k
  OBVIOUS
<1>4. \A j \in T : n - k <= n - j
  BY <1>2, <1>3
<1> QED
  BY <1>4

\* What 0 has and n passes on to n + 1, every natural has.
LEMMA Induction ==
  ASSUME NEW T, 0 \in T, \A n \in Nat : n \in T => n + 1 \in T
  PROVE  Nat \subseteq T
<1> SUFFICES ASSUME Nat \ T # {} PROVE FALSE
  OBVIOUS
<1>1. PICK n \in Nat \ T : \A k \in Nat \ T : n <= k
  BY LeastNatural
<1>2. n - 1 \in Nat /\ n - 1 \in T
  BY <1>1
<1> QED
  BY <1>1, <1>2

\* Along a function: what f[0] is in, and is never left, all are in.
LEMMA Along ==
  ASSUME NEW n \in Nat, NEW f, NEW V, f[0] \in V, \A d \in 1..n : f[d-1] \in V => f[d] \in V
  PROVE  \A d \in 0..n : f[d] \in V
<1> DEFINE T == {d \in Nat : d <= n => f[d] \in V}
<1>1. 0 \in T
  OBVIOUS
<1>2. ASSUME NEW d \in Nat, d \in T PROVE d + 1 \in T
  <2>1. d + 1 <= n => d + 1 \in 1..n /\ (d + 1) - 1 = d
    OBVIOUS
  <2> QED
    BY <1>2, <2>1
<1>3. Nat \subseteq T
  <2> HIDE DEF T
  <2> QED
    BY <1>1, <1>2, Induction
<1> QED
  BY <1>3

\* The steps of a recursion up to n, on the values V.
Steps(n, V) == [1..n -> [V -> V]]

\* A function on 0..n can be defined by its first value and its steps.
LEMMA Recursion ==
  ASSUME NEW n \in Nat, NEW V, NEW a \in V, NEW G \in Steps(n, V)
  PROVE  \E f \in [0..n -> V] : f[0] = a /\ \A d \in 1..n : f[d] = G[d][f[d-1]]
<1> DEFINE upTo(m, f) == /\ f \in [0..m -> V] /\ f[0] = a
                         /\ \A d \in 1..m : f[d] = G[d][f[d-1]]
           T == {m \in Nat : m <= n => \E f : upTo(m, f)}
<1>1. 0 \in T
  <2>1. upTo(0, [d \in 0..0 |-> a])
    OBVIOUS
  <2> QED
    BY <2>1
<1>2. ASSUME NEW m \in Nat, m \in T PROVE m + 1 \in T
  <2> SUFFICES ASSUME m + 1 <= n PROVE \E f : upTo(m + 1, f)
    OBVIOUS
  <2>1. PICK f : upTo(m, f)
    BY <1>2
  <2> DEFINE g == [d \in 0..(m + 1) |-> IF d <= m THEN f[d] ELSE G[m + 1][f[m]]]
  <2>2. f[m] \in V /\ m + 1 \in 1..n
    BY <2>1
  <2>3. g \in [0..(m + 1) -> V]
    BY <2>1, <2>2 DEF Steps
  <2>4. g[0] = a
    BY <2>1
  <2>5. \A d \in 1..(m + 1) : g[d] = G[d][g[d-1]]
    BY <2>1
  <2> QED
    BY <2>3, <2>4, <2>5
<1>3. n \in T
  <2> HIDE DEF T
  <2> QED
    BY <1>1, <1>2, Induction
<1>4. PICK f : upTo(n, f)
  BY <1>3
<1> QED
  BY <1>4

----------------------------------------------------------------------------
(* What dnsAnswers reads of a message.                                     *)

\* The addresses m gives the name h.
given(m, h) == {m[k].addr : k \in addrRecords(m, h)}

\* The records of a name are records of the message, and of their type.
LEMMA Records ==
  ASSUME NEW m \in Messages, NEW h
  PROVE  /\ Len(m) \in Nat
         /\ addrRecords(m, h) \subseteq 1..Len(m) /\ aliasRecords(m, h) \subseteq 1..Len(m)
         /\ given(m, h) \subseteq Addrs
         /\ \A k \in aliasRecords(m, h) : m[k].alias \in Names \cup {Invalid}
<1> DEFINE A == [owner : Names, addr : Addrs]
           C == [owner : Names, alias : Names \cup {Invalid}]
<1>1. m \in Seq(A \cup C)
  BY ResolverAssumption
<1>2. ASSUME NEW k \in 1..Len(m)
      PROVE  /\ "addr" \in DOMAIN m[k] => m[k].addr \in Addrs
             /\ "alias" \in DOMAIN m[k] => m[k].alias \in Names \cup {Invalid}
  <2>1. m[k] \in A \/ m[k] \in C
    BY <1>1
  <2>2. CASE m[k] \in A
    BY <2>2
  <2>3. CASE m[k] \in C
    BY <2>3
  <2> QED
    BY <2>1, <2>2, <2>3
<1>3. Len(m) \in Nat
  BY <1>1
<1> QED
  BY <1>2, <1>3 DEF given, addrRecords, aliasRecords, recordsOf

\* At most MaxIps addresses are kept, each of a record of h, and none only if
\* there is none.
LEMMA AddrsRead ==
  ASSUME NEW m \in Messages, NEW h
  PROVE  addrsOf(m, h) \in Seq(given(m, h)) /\ Len(addrsOf(m, h)) <= MaxIps
<1> DEFINE n == Len(m)
           V == {s \in Seq(given(m, h)) : Len(s) <= MaxIps}
           step(k, s) == IF k \in addrRecords(m, h) /\ Len(s) < MaxIps
                         THEN Append(s, m[k].addr) ELSE s
           isKept(f) == f = [k \in 0..n |-> IF k = 0 THEN <<>> ELSE step(k, f[k-1])]
           kept == CHOOSE f : isKept(f)
<1>1. n \in Nat /\ MaxIps \in Nat
  BY Records, ResolverAssumption
<1>2. \A k \in 1..n, s \in V : step(k, s) \in V
  <2> SUFFICES ASSUME NEW k \in 1..n, NEW s \in V, k \in addrRecords(m, h), Len(s) < MaxIps
               PROVE  Append(s, m[k].addr) \in V
    OBVIOUS
  <2>1. m[k].addr \in given(m, h)
    BY DEF given
  <2> QED
    BY <1>1, <2>1
<1>3. <<>> \in V
  BY <1>1
<1> HIDE DEF n, V, step
<1>4. PICK G : G = [k \in 1..n |-> [s \in V |-> step(k, s)]]
  OBVIOUS
<1>5. PICK f : isKept(f)
  <2>1. G \in Steps(n, V)
    BY <1>2, <1>4 DEF Steps
  <2>2. PICK f \in [0..n -> V] : f[0] = <<>> /\ \A k \in 1..n : f[k] = G[k][f[k-1]]
    <3> HIDE DEF isKept, kept
    <3>1. \A a \in V : \E f \in [0..n -> V] : f[0] = a /\ \A k \in 1..n : f[k] = G[k][f[k-1]]
      BY <1>1, <2>1, Recursion
    <3> QED
      BY <1>3, <3>1
  <2>3. ASSUME NEW k \in 1..n PROVE G[k][f[k-1]] = step(k, f[k-1])
    <3>1. k - 1 \in 0..n
      BY <1>1
    <3>2. f[k-1] \in V
      BY <3>1
    <3> QED
      BY <1>4, <3>2
  <2>4. isKept(f)
    BY <1>1, <2>2, <2>3
  <2> QED
    BY <2>4
<1>6. isKept(kept)
  <2> HIDE DEF isKept
  <2> QED
    BY <1>5, Zenon
<1>7. kept[n] \in V
  <2> HIDE DEF kept
  <2>1. kept[0] = <<>> /\ \A k \in 1..n : kept[k] = step(k, kept[k-1])
    BY <1>1, <1>6
  <2> HIDE DEF isKept
  <2>2. \A k \in 0..n : kept[k] \in V
    BY <1>1, <1>2, <1>3, <2>1, Along
  <2> QED
    BY <1>1, <2>2
<1>8. addrsOf(m, h) = kept[n]
  BY Zenon DEF addrsOf, step, n
<1> QED
  BY <1>7, <1>8 DEF V

\* nextOf is the alias of a record of h, if there is one.
LEMMA NextRead ==
  ASSUME NEW m \in Messages, NEW h
  PROVE  /\ nextOf(m, h) \in Names \cup {Invalid, None}
         /\ nextOf(m, h) # None => \E k \in aliasRecords(m, h) : nextOf(m, h) = m[k].alias
<1> DEFINE A == aliasRecords(m, h)
<1>1. CASE A = {}
  BY <1>1 DEF nextOf
<1>2. CASE A # {}
  <2> DEFINE isLast(k) == k \in A /\ \A j \in A : j <= k
             k == CHOOSE i \in A : \A j \in A : j <= i
  <2>1. \E i \in A : \A j \in A : j <= i
    BY <1>2, Records, GreatestNatural
  <2>2. k \in A
    <3> HIDE DEF A
    <3> QED
      BY <2>1, Zenon
  <2>3. nextOf(m, h) = m[k].alias
    BY <1>2, Zenon DEF nextOf
  <2> HIDE DEF k
  <2> QED
    BY <2>2, <2>3, Records
<1> QED
  BY <1>1, <1>2

\* The chain starts with the name and goes from alias to alias.
LEMMA ChainNames ==
  ASSUME NEW m \in Messages, NEW h \in Names
  PROVE  /\ chain(m, h)[0] = h
         /\ \A d \in 1..MaxDepth :
              chain(m, h)[d-1] \in Names => chain(m, h)[d] = nextOf(m, chain(m, h)[d-1])
<1> DEFINE n == MaxDepth
           V == Names \cup {Invalid, None}
           step(v) == IF v \in Names THEN nextOf(m, v) ELSE v
           isChain(f) == f = [d \in 0..n |-> IF d = 0 THEN h ELSE step(f[d-1])]
           name == CHOOSE f : isChain(f)
<1>1. n \in Nat /\ h \in V
  BY ResolverAssumption
<1>2. \A v \in V : step(v) \in V
  BY NextRead
<1> HIDE DEF n, V
<1>3. PICK G : G = [d \in 1..n |-> [v \in V |-> step(v)]]
  OBVIOUS
<1>4. PICK f : isChain(f)
  <2> HIDE DEF step
  <2>1. G \in Steps(n, V)
    BY <1>2, <1>3 DEF Steps
  <2>2. PICK f \in [0..n -> V] : f[0] = h /\ \A d \in 1..n : f[d] = G[d][f[d-1]]
    <3> HIDE DEF isChain, name
    <3> QED
      BY <1>1, <2>1, Recursion
  <2>3. ASSUME NEW d \in 1..n PROVE G[d][f[d-1]] = step(f[d-1])
    <3>1. d - 1 \in 0..n
      BY <1>1
    <3>2. f[d-1] \in V
      BY <3>1
    <3> QED
      BY <1>3, <3>2
  <2>4. isChain(f)
    BY <1>1, <2>2, <2>3
  <2> QED
    BY <2>4
<1>5. isChain(name)
  <2> HIDE DEF isChain
  <2> QED
    BY <1>4, Zenon
<1>6. chain(m, h) = name
  BY Zenon DEF chain, n
<1>7. name[0] = h /\ \A d \in 1..n : name[d] = step(name[d-1])
  <2> HIDE DEF name, step
  <2> QED
    BY <1>1, <1>5
<1> HIDE DEF name
<1> QED
  BY <1>6, <1>7 DEF n

\* No alias of m leads out of S.
closedUnder(m, S) ==
  \A k \in 1..Len(m) : "alias" \in DOMAIN m[k] /\ m[k].owner \in S => m[k].alias \in S \cup {Invalid}

\* dns.go:84: whatever a resolver sends, the name that dnsAnswers ends at is one
\* that the aliases of the message lead to, and the addresses are its own, no
\* more than MaxIps.
THEOREM AnswersFollow ==
  ASSUME NEW m \in Messages, NEW h \in Names, NEW S, h \in S, closedUnder(m, S),
         dnsAnswers(m, h).ok
  PROVE  LET next == dnsAnswers(m, h).next
             read == dnsAnswers(m, h).ips
         IN /\ next \in S \cap Names
            /\ read \in Seq(given(m, next)) /\ Len(read) <= MaxIps
<1> DEFINE c == chain(m, h)
           ends == {d \in 0..(MaxDepth - 1) : stops(m, c, d) /\ \A e \in 0..(d-1) : ~stops(m, c, e)}
           end == CHOOSE d \in ends : TRUE
<1>1. /\ ends # {}
      /\ dnsAnswers(m, h) = [ok |-> TRUE, ips |-> addrsOf(m, c[end]), next |-> c[end]]
  <2> HIDE DEF c, ends, end
  <2>1. dnsAnswers(m, h) = IF ends = {} \/ loop(c, end) \/ malformed(m, c[end])
          THEN [ok |-> FALSE, ips |-> <<>>, next |-> h]
          ELSE [ok |-> TRUE, ips |-> addrsOf(m, c[end]), next |-> c[end]]
    BY Zenon DEF dnsAnswers, c, ends, end
  <2> QED
    BY <2>1
<1>2. end \in ends
  <2> HIDE DEF ends
  <2> QED
    BY <1>1, Zenon
<1> HIDE DEF end
<1>3. end \in 0..(MaxDepth - 1) /\ \A e \in 0..(end - 1) : ~stops(m, c, e)
  BY <1>2
<1> HIDE DEF ends, c
<1>4. \A d \in 0..end : c[d] \in S \cap Names
  <2>1. c[0] \in S \cap Names
    BY ChainNames DEF c
  <2>2. ASSUME NEW d \in 1..end, c[d-1] \in S \cap Names PROVE c[d] \in S \cap Names
    <3>1. d - 1 \in 0..(end - 1) /\ d \in 1..MaxDepth
      BY <1>3, ResolverAssumption
    <3>2. c[d] = nextOf(m, c[d-1])
      BY <2>2, <3>1, ChainNames DEF c
    <3>3. c[d] # None /\ ~malformed(m, c[d-1])
      BY <1>3, <3>1, <3>2 DEF stops
    <3>4. PICK k \in aliasRecords(m, c[d-1]) : c[d] = m[k].alias
      BY <3>2, <3>3, NextRead
    <3>5. m[k].alias \in S \cup {Invalid}
      BY <2>2 DEF closedUnder, aliasRecords, recordsOf
    <3> QED
      BY <3>2, <3>3, <3>4, <3>5, NextRead DEF malformed
  <2>3. end \in Nat
    BY <1>3, ResolverAssumption
  <2> QED
    BY <2>1, <2>2, <2>3, Along
<1>5. c[end] \in S \cap Names
  BY <1>3, <1>4, ResolverAssumption
<1> QED
  BY <1>1, <1>5, AddrsRead

----------------------------------------------------------------------------
(* Ownership.                                                              *)

\* The name asked for is always one the host leads to; before dialDomain
\* nothing was tried, and in it the addresses left are owned.
AskInv ==
  /\ host \in reached
  /\ pc # "done" => result = None
  /\ pc \in {"lookup", "query"} => tried = {} /\ last = "denied"
  /\ pc = "dial" => ips \in Seq(owned) /\ owned # {}

OwnInv == TypeOK /\ AskInv /\ DialsOwned /\ DeniedUntried

\* Before the first answer only the host itself is known.
LEMMA InitOwn == Init => OwnInv
<1> SUFFICES ASSUME Init PROVE OwnInv
  OBVIOUS
<1>1. TypeOK
  BY ResolverAssumption DEF Init, TypeOK, Dial, Server, Outcomes
<1>2. AskInv /\ DialsOwned /\ DeniedUntried
  BY ResolverAssumption DEF Init, AskInv, DialsOwned, DeniedUntried, Outcomes
<1> QED
  BY <1>1, <1>2 DEF OwnInv

\* Nothing is dialled, and nothing denied, before dialDomain.
LEMMA Undialled ==
  ASSUME AskInv, pc \in {"lookup", "query"}, UNCHANGED tried,
         pc' # "dial", result' \in {None, "failed", "expired"}
  PROVE  DialsOwned' /\ DeniedUntried'
BY ResolverAssumption DEF AskInv, DialsOwned, DeniedUntried, Outcomes

\* Each resolver starts with the host alone.
LEMMA LookupOwns ==
  ASSUME OwnInv, Lookup
  PROVE  OwnInv'
<1> USE DEF OwnInv
<1>1. /\ pc = "lookup" /\ tried = {} /\ last = "denied" /\ result = None
      /\ UNCHANGED <<named, allow, left, ips, last, tried>>
  BY DEF Lookup, ask, skip, AskInv, policyVars, historyVars
<1>2. CASE ask /\ server < Len(Servers) /\ server' = server + 1
  <2>1. pc' = "query" /\ network' = "udp4" /\ depth' = 0 /\ host' = Host
        /\ reached' = {Host} /\ owned' = {} /\ result' = None
    BY <1>1, <1>2 DEF ask
  <2>2. sleft' \in 0..Server
    BY <1>2 DEF ask, TypeOK, Server, Dial
  <2>3. server' \in 0..Len(Servers)
    BY <1>2, ResolverAssumption DEF TypeOK
  <2>4. TypeOK'
    BY <1>1, <2>1, <2>2, <2>3, ResolverAssumption DEF TypeOK
  <2>5. AskInv'
    BY <1>1, <2>1 DEF AskInv
  <2> QED
    BY <1>1, <2>1, <2>4, <2>5, Undialled
<1>3. CASE (skip /\ server < Len(Servers) /\ server' = server + 1) \/ (finish("failed") /\ UNCHANGED <<server, queryVars, historyVars>>)
  <2>1. /\ UNCHANGED <<network, depth, host, sleft, reached, owned>>
        /\ \/ pc' = "lookup" /\ result' = None
           \/ pc' = "done" /\ result' = "failed"
    BY <1>1, <1>3 DEF skip, finish, queryVars, historyVars
  <2>2. server' \in 0..Len(Servers)
    BY <1>3, ResolverAssumption DEF TypeOK
  <2>3. TypeOK'
    BY <1>1, <2>1, <2>2 DEF TypeOK, Outcomes
  <2>4. AskInv'
    BY <1>1, <2>1 DEF AskInv
  <2> QED
    BY <1>1, <2>1, <2>3, <2>4, Undialled
<1> QED
  BY <1>2, <1>3 DEF Lookup

\* A query takes no more time than there is.
LEMMA QueryTimes ==
  ASSUME TypeOK, TimeInv, NoAnswer \/ Refused \/ Answer
  PROVE  left' \in 0..Dial /\ sleft' \in 0..Server
<1>1. PICK t \in Nat : t <= budget /\ left' = left - t /\ sleft' = sleft - t
  BY BudgetBounds DEF NoAnswer, Refused, Answer, spend, TypeOK
<1>2. t <= sleft /\ sleft <= left /\ sleft \in 0..Server /\ left \in 0..Dial
  BY <1>1, BudgetBounds DEF TypeOK, TimeInv, NoAnswer, Refused, Answer
<1> QED
  BY <1>1, <1>2 DEF Dial, Server

\* A query that brings no address.
LEMMA NoneOwns ==
  ASSUME OwnInv, TimeInv, NoAnswer \/ Refused \/ (Answer /\ noAddress)
  PROVE  OwnInv'
<1> USE DEF OwnInv
<1>1. /\ pc = "query" /\ tried = {} /\ last = "denied" /\ result = None
      /\ UNCHANGED <<named, allow, server, last, tried>>
  BY DEF NoAnswer, Refused, Answer, AskInv, policyVars
<1>2. /\ UNCHANGED <<depth, host, ips, reached, owned>> /\ network' \in {"udp4", "tcp4"}
      /\ \/ pc' \in {"lookup", "query"} /\ result' = None
         \/ pc' = "done" /\ result' = "expired"
  BY <1>1 DEF NoAnswer, Refused, noAddress, finish, tryTCP, TypeOK
<1>3. TypeOK'
  BY <1>1, <1>2, QueryTimes DEF TypeOK, Outcomes
<1>4. AskInv'
  BY <1>1, <1>2 DEF AskInv
<1> QED
  BY <1>1, <1>2, <1>3, <1>4, Undialled

\* What is learnt of m is closed under its aliases, and owns its addresses.
LEMMA Learnt ==
  ASSUME NEW m \in Messages, learn(m), reached \subseteq Names, owned \subseteq Addrs
  PROVE  /\ reached \subseteq reached' /\ reached' \subseteq Names /\ closedUnder(m, reached')
         /\ owned' \subseteq Addrs /\ \A n \in reached' : given(m, n) \subseteq owned'
<1>1. reached \subseteq closure(m) /\ closure(m) \subseteq Names
  BY DEF closure
<1>2. closedUnder(m, closure(m))
  <2> SUFFICES ASSUME NEW k \in 1..Len(m), "alias" \in DOMAIN m[k], m[k].owner \in closure(m),
                      m[k].alias # Invalid
               PROVE  m[k].alias \in closure(m)
    BY DEF closedUnder
  <2>1. m[k].alias \in Names
    BY Records DEF aliasRecords, recordsOf
  <2>2. ASSUME NEW S \in SUBSET Names, reached \subseteq S, closedUnder(m, S)
        PROVE  m[k].alias \in S
    <3>1. m[k].owner \in S
      BY <2>2 DEF closure, closedUnder
    <3> QED
      BY <2>2, <3>1 DEF closedUnder
  <2> QED
    BY <2>1, <2>2 DEF closure, closedUnder
<1>3. \A n \in reached' : given(m, n) \subseteq owned'
  BY DEF learn, given, addrRecords, recordsOf
<1>4. owned' \subseteq Addrs
  <2>1. ASSUME NEW j \in 1..Len(m), "addr" \in DOMAIN m[j] PROVE m[j].addr \in Addrs
    <3>1. j \in addrRecords(m, m[j].owner)
      BY <2>1 DEF addrRecords, recordsOf
    <3> QED
      BY <3>1, Records DEF given
  <2> QED
    BY <2>1 DEF learn
<1> QED
  BY <1>1, <1>2, <1>3, <1>4 DEF learn

\* A usable answer: what is dialled or asked for next is learnt first.
LEMMA AnswerOwns ==
  ASSUME OwnInv, TimeInv, Answer, ~noAddress
  PROVE  OwnInv'
<1> USE DEF OwnInv
<1>1. /\ pc = "query" /\ tried = {} /\ last = "denied" /\ result = None
      /\ UNCHANGED <<named, allow, server, last, tried>>
  BY DEF Answer, AskInv, policyVars
<1>2. PICK m \in Messages :
        LET reading == dnsAnswers(m, host) IN
        /\ reading.ok /\ learn(m) /\ UNCHANGED result
        /\ \/ reading.ips # <<>> /\ pc' = "dial" /\ ips' = reading.ips /\ UNCHANGED <<network, depth, host>>
           \/ depth' = nextDepth /\ nextDepth < MaxDepth /\ host' = reading.next /\ network' = "udp4" /\ UNCHANGED <<pc, ips>>
  <2>1. \A m \in Messages : Readings[m][host] = dnsAnswers(m, host)
    BY DEF Readings, TypeOK
  <2> QED
    BY <2>1 DEF Answer
<1> DEFINE reading == dnsAnswers(m, host)
<1>3. /\ reached \subseteq reached' /\ reached' \subseteq Names /\ closedUnder(m, reached')
      /\ owned' \subseteq Addrs /\ \A n \in reached' : given(m, n) \subseteq owned'
  BY <1>2, Learnt DEF TypeOK
<1>4. /\ reading.next \in reached' \cap Names
      /\ reading.ips \in Seq(given(m, reading.next)) /\ Len(reading.ips) <= MaxIps
  BY <1>2, <1>3, AnswersFollow DEF TypeOK, AskInv
<1>5. reading.ips \in Seq(owned') /\ UNCHANGED result
  BY <1>2, <1>3, <1>4
<1> HIDE DEF reading
<1>6. CASE reading.ips # <<>> /\ pc' = "dial" /\ ips' = reading.ips /\ UNCHANGED <<network, depth, host>>
  <2>1. owned' # {}
    BY <1>5, <1>6
  <2>2. ips' \in Seq(Addrs)
    BY <1>3, <1>5, <1>6
  <2>3. TypeOK'
    BY <1>1, <1>2, <1>3, <1>4, <1>6, <2>2, QueryTimes DEF TypeOK
  <2>4. AskInv'
    BY <1>3, <1>5, <1>6, <2>1, <1>1 DEF AskInv
  <2>5. DialsOwned' /\ DeniedUntried'
    BY <1>1, <1>2, <2>1 DEF DialsOwned, DeniedUntried
  <2> QED
    BY <2>3, <2>4, <2>5
<1>7. CASE depth' = nextDepth /\ nextDepth < MaxDepth /\ host' = reading.next /\ network' = "udp4" /\ UNCHANGED <<pc, ips>>
  <2>1. depth' \in 0..MaxDepth
    BY <1>7, ResolverAssumption DEF nextDepth, TypeOK
  <2>2. TypeOK'
    BY <1>1, <1>2, <1>3, <1>4, <1>7, <2>1, QueryTimes DEF TypeOK
  <2>3. AskInv'
    BY <1>1, <1>2, <1>4, <1>7 DEF AskInv
  <2> QED
    BY <1>1, <1>2, <1>7, <2>2, <2>3, Undialled
<1> QED
  BY <1>2, <1>6, <1>7 DEF reading

\* Only addresses of the answer are dialled.
LEMMA DialOwns ==
  ASSUME OwnInv, DialDomain
  PROVE  OwnInv'
<1> USE DEF OwnInv
<1>1. /\ pc = "dial" /\ result = None /\ ips \in Seq(owned) /\ ips \in Seq(Addrs) /\ owned # {}
      /\ UNCHANGED <<named, allow, server, network, depth, host, sleft, reached, owned>>
  BY DEF DialDomain, AskInv, TypeOK, policyVars, queryVars
<1>2. CASE /\ pc' = "done" /\ result' \in {last, "expired"} /\ UNCHANGED <<left, ips, last, tried>>
  <2>1. TypeOK' /\ AskInv' /\ DialsOwned'
    BY <1>1, <1>2 DEF TypeOK, AskInv, DialsOwned, Outcomes
  <2>2. DeniedUntried'
    BY <1>1, <1>2 DEF DeniedUntried
  <2> QED
    BY <2>1, <2>2
<1>3. CASE ips # <<>> /\ left > 0 /\ ips' = Tail(ips)
  <2>1. Head(ips) \in owned /\ ips' \in Seq(owned) /\ ips' \in Seq(Addrs) /\ Len(ips') <= MaxIps
    BY <1>1, <1>3, ResolverAssumption DEF TypeOK
  <2>2. CASE dial(Head(ips)) /\ Head(ips) \in Unicast /\ permitted(Head(ips))
    <3>1. left' \in 0..Dial
      BY <1>3, <2>2 DEF dial, TypeOK, Dial
    <3>2. /\ tried' = tried \cup {Head(ips)}
          /\ \/ pc' = "done" /\ result' = "connected" /\ UNCHANGED last
             \/ last' = "failed" /\ UNCHANGED <<pc, result>>
      BY <2>2 DEF dial, finish
    <3>3. TypeOK' /\ AskInv'
      BY <1>1, <2>1, <3>1, <3>2, ResolverAssumption DEF TypeOK, AskInv, Outcomes
    <3>4. DialsOwned'
      BY <1>1, <2>1, <2>2, <3>2 DEF DialsOwned, permitted
    <3>5. DeniedUntried'
      BY <1>1, <3>2, ResolverAssumption DEF DeniedUntried, Outcomes
    <3> QED
      BY <3>3, <3>4, <3>5
  <2>3. CASE last' = passedOver /\ UNCHANGED <<pc, result, left, tried>>
    BY <1>1, <2>1, <2>3 DEF TypeOK, AskInv, DialsOwned, DeniedUntried, passedOver
  <2> QED
    BY <1>3, <2>2, <2>3 DEF DialDomain
<1> QED
  BY <1>1, <1>2, <1>3 DEF DialDomain, finish

\* The inductive invariant: types, the name asked for, the addresses to dial,
\* and what both properties say.
THEOREM OwnInvariant == Spec => [](TimeInv /\ OwnInv)
<1>1. OwnInv /\ Cancel => OwnInv'
  BY DEF OwnInv, Cancel, TypeOK, AskInv, DialsOwned, DeniedUntried, policyVars, historyVars, Dial, Server
<1>2. OwnInv /\ UNCHANGED vars => OwnInv'
  BY DEF OwnInv, vars, TypeOK, AskInv, DialsOwned, DeniedUntried, policyVars, queryVars, historyVars
<1>3. TimeInv /\ OwnInv /\ [Next]_vars => (TimeInv /\ OwnInv)'
  BY <1>1, <1>2, QueryKeeps, OthersKeep, LookupOwns, NoneOwns, AnswerOwns, DialOwns DEF Next, Step
<1> QED
  BY <1>3, InitTime, InitOwn, PTL DEF Spec

\* domain.go:66: every address dialled is the host's own, by whatever aliases,
\* unicast and authorised by the host's name or by itself.
THEOREM OnlyOwned == Spec => []DialsOwned
BY OwnInvariant, PTL DEF OwnInv

\* domain.go:79: a refusal means that addresses were known and none was dialled.
THEOREM RefusesUntried == Spec => []DeniedUntried
BY OwnInvariant, PTL DEF OwnInv

----------------------------------------------------------------------------
(* The dial ends: of what DialEnds needs, the part that no fairness is      *)
(* needed for.                                                             *)

\* The steps a resolver may cost: two exchanges for each of MaxDepth names, and
\* the steps of lookupIPv4 before and after them.
turn == 2 * MaxDepth + 2
turnsLeft == turn * (4 - server)

\* How many steps are left at most.
stepsLeft ==
  IF pc = "lookup" THEN MaxIps + turnsLeft + 2
  ELSE IF pc = "query" THEN MaxIps + turnsLeft + 2 * (MaxDepth - depth) + (IF network = "udp4" THEN 2 ELSE 1)
  ELSE IF pc = "dial" THEN 1 + Len(ips)
  ELSE 0

\* lookupIPv4 asks four resolvers, and resolveDNS for MaxDepth names.
BoundsInv == server \in 0..4 /\ depth \in 0..(MaxDepth - 1)

\* Every step of the dial leaves fewer steps to take; the end of ctx leaves as
\* many.
fewer == stepsLeft' < stepsLeft \/ (UNCHANGED stepsLeft /\ Cancel)

\* What is left of the turns is a number of steps, and a resolver takes its turn
\* off it.
LEMMA Turns ==
  /\ turn \in Nat /\ turn = 2 * MaxDepth + 2 /\ turn' = turn
  /\ \A s \in 0..4 : turn * (4 - s) \in Nat
  /\ \A s \in 0..3 : turn * (4 - s) = turn * (4 - (s + 1)) + turn
<1>1. turn \in Nat /\ turn = 2 * MaxDepth + 2 /\ turn' = turn
  BY ResolverAssumption DEF turn
<1>2. ASSUME NEW k \in Nat, NEW s \in 0..3 PROVE k * (4 - s) = k * (4 - (s + 1)) + k
  OBVIOUS
<1>3. \A s \in 0..4 : turn * (4 - s) \in Nat
  BY <1>1
<1> QED
  BY <1>1, <1>2, <1>3

\* The guards of lookupIPv4 and of resolveDNS keep the bounds.
LEMMA BoundsKeep == ASSUME BoundsInv, [Next]_vars PROVE BoundsInv'
<1> USE ResolverAssumption DEF BoundsInv
<1>1. CASE Lookup
  BY <1>1 DEF Lookup, ask, skip, finish, queryVars
<1>2. CASE NoAnswer \/ Refused
  BY <1>2 DEF NoAnswer, Refused, tryTCP, noAddress
<1>3. CASE Answer
  <2>1. UNCHANGED server /\ (UNCHANGED depth \/ (depth' = nextDepth /\ nextDepth < MaxDepth))
    BY <1>3 DEF Answer, noAddress
  <2> QED
    BY <2>1 DEF nextDepth
<1>4. CASE DialDomain \/ Cancel
  BY <1>4 DEF DialDomain, Cancel, queryVars
<1>5. CASE UNCHANGED vars
  BY <1>5 DEF vars, queryVars
<1> QED
  BY <1>1, <1>2, <1>3, <1>4, <1>5 DEF Next, Step

\* The measure is a number of steps wherever the dial is.
LEMMA StepsNat == ASSUME OwnInv, BoundsInv PROVE stepsLeft \in Nat
<1>1. turnsLeft \in Nat
  BY Turns DEF BoundsInv, turnsLeft
<1>2. MaxIps \in Nat /\ MaxDepth \in Nat /\ Len(ips) \in Nat /\ depth \in Nat /\ depth < MaxDepth
  BY ResolverAssumption DEF OwnInv, TypeOK, BoundsInv
<1> QED
  BY <1>1, <1>2 DEF stepsLeft

\* Where the next step may lead, and what it leaves.
LEMMA StepsFewer ==
  ASSUME OwnInv, OwnInv', BoundsInv, BoundsInv', Next
  PROVE  fewer
<1> DEFINE rest == turn * (4 - server)
           rest1 == turn * (4 - server')
<1>s. rest \in Nat /\ rest1 \in Nat
  BY Turns DEF BoundsInv
<1>d. server' = server + 1 => rest = rest1 + turn
  <2>1. server' = server + 1 => server \in 0..3
    BY DEF BoundsInv
  <2> QED
    BY <2>1, Turns
<1>e. server' = server => rest1 = rest
  OBVIOUS
<1>v. /\ stepsLeft = IF pc = "lookup" THEN MaxIps + rest + 2
                     ELSE IF pc = "query" THEN MaxIps + rest + 2 * (MaxDepth - depth) + (IF network = "udp4" THEN 2 ELSE 1)
                     ELSE IF pc = "dial" THEN 1 + Len(ips) ELSE 0
      /\ stepsLeft' = IF pc' = "lookup" THEN MaxIps + rest1 + 2
                      ELSE IF pc' = "query" THEN MaxIps + rest1 + 2 * (MaxDepth - depth') + (IF network' = "udp4" THEN 2 ELSE 1)
                      ELSE IF pc' = "dial" THEN 1 + Len(ips') ELSE 0
  BY Turns DEF stepsLeft, turnsLeft
<1> HIDE DEF rest, rest1
<1>t. /\ turn = 2 * MaxDepth + 2 /\ MaxDepth \in Nat \ {0} /\ MaxIps \in Nat
      /\ depth \in Nat /\ depth < MaxDepth /\ Len(ips) \in Nat /\ network \in {"udp4", "tcp4"}
      /\ depth' \in Nat /\ depth' < MaxDepth /\ Len(ips') <= MaxIps /\ network' \in {"udp4", "tcp4"}
      /\ ips \in Seq(Addrs) /\ ips' \in Seq(Addrs)
      /\ pc \in {"lookup", "query", "dial", "done"} /\ pc' \in {"lookup", "query", "dial", "done"}
  BY Turns, ResolverAssumption DEF OwnInv, TypeOK, BoundsInv
<1>1. ASSUME Lookup PROVE stepsLeft' < stepsLeft
  <2>1. CASE server < 4 /\ server' = server + 1 /\ ask
    BY <1>1, <1>s, <1>d, <1>t, <1>v, <2>1 DEF Lookup, ask
  <2>2. CASE server < 4 /\ server' = server + 1 /\ skip
    BY <1>1, <1>s, <1>d, <1>t, <1>v, <2>2 DEF Lookup, skip
  <2>3. CASE finish("failed")
    BY <1>1, <1>s, <1>t, <1>v, <2>3 DEF Lookup, finish
  <2> QED
    BY <1>1, <2>1, <2>2, <2>3 DEF Lookup
<1>2. ASSUME NoAnswer \/ Refused \/ Answer PROVE stepsLeft' < stepsLeft
  <2>1. pc = "query" /\ rest1 = rest
    BY <1>2, <1>e DEF NoAnswer, Refused, Answer
  <2>2. CASE noAddress
    BY <1>s, <1>t, <1>v, <2>1, <2>2 DEF noAddress, finish
  <2>3. CASE tryTCP
    BY <1>s, <1>t, <1>v, <2>1, <2>3 DEF tryTCP
  <2>4. CASE pc' = "dial"
    BY <1>s, <1>t, <1>v, <2>1, <2>4
  <2>5. CASE depth' = depth + 1 /\ UNCHANGED pc
    BY <1>s, <1>t, <1>v, <2>1, <2>5
  <2> QED
    BY <1>2, <2>2, <2>3, <2>4, <2>5 DEF NoAnswer, Refused, Answer, nextDepth
<1>3. ASSUME DialDomain PROVE stepsLeft' < stepsLeft
  <2>1. CASE pc' = "done"
    BY <1>3, <1>s, <1>t, <1>v, <2>1 DEF DialDomain
  <2>2. CASE ips # <<>> /\ ips' = Tail(ips) /\ pc' = pc
    <3>1. Len(ips') < Len(ips)
      BY <2>2 DEF OwnInv, TypeOK
    <3> QED
      BY <1>3, <1>s, <1>t, <1>v, <2>2, <3>1 DEF DialDomain
  <2> QED
    BY <1>3, <2>1, <2>2 DEF DialDomain, dial, finish
<1>4. ASSUME Cancel PROVE UNCHANGED stepsLeft
  <2>1. UNCHANGED <<pc, server, depth, network, ips>>
    BY <1>4 DEF Cancel
  <2> QED
    BY <2>1, Zenon DEF stepsLeft, turnsLeft, turn
<1> QED
  BY <1>1, <1>2, <1>3, <1>4 DEF fewer, Next, Step

\* domain.go and dns.go: a dial is at most MaxIps + 4 * (2 * MaxDepth + 2) + 2
\* steps, whatever the resolvers answer, in no time at all if they like, and
\* whichever aliases they invent.
THEOREM EndsInSteps == Spec => [](stepsLeft \in Nat) /\ [][fewer]_vars
<1>1. Init => BoundsInv
  BY ResolverAssumption DEF Init, BoundsInv
<1>2. BoundsInv /\ [Next]_vars => BoundsInv'
  BY BoundsKeep
<1>3. OwnInv /\ OwnInv' /\ BoundsInv /\ BoundsInv' /\ [Next]_vars => [fewer]_vars
  BY StepsFewer
<1>4. OwnInv /\ BoundsInv => stepsLeft \in Nat
  BY StepsNat
<1> QED
  BY <1>1, <1>2, <1>3, <1>4, OwnInvariant, PTL DEF Spec
==============================================================================
