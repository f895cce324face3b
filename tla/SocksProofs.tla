----------------------------- MODULE SocksProofs -----------------------------
(* The safety properties of Socks, for any set of clients.                   *)
EXTENDS Socks, TLAPS

\* A connection is there from its dial to the end of the handler, and both
\* copies run in the relay only: what ServeJoins needs of every earlier state.
HandlerInv(k) ==
  /\ hpc[k] = "none" => cl[k] = "none" /\ dl[k] = "none"
  /\ hpc[k] = "ended" => cl[k] # "open"
  /\ hpc[k] \in {"none", "greet", "request", "ready", "dial"} => rem[k] = "none"
  /\ hpc[k] = "ended" => rem[k] # "open"
  /\ hpc[k] \in {"reply", "relay"} => rem[k] # "none"
  /\ up[k] = "copy" \/ down[k] = "copy" => hpc[k] = "relay"
  /\ up[k] = "ended" => hpc[k] \in {"relay", "exit", "ended"}

\* What has closed a connection of a handler that runs.
closedBy(k) ==
  \/ done \/ revoked[k] \/ peer[k] = "gone" \/ rpeer[k] = "gone"
  \/ up[k] = "ended" /\ ~half[k]

\* What HalfCloseKept needs of the earlier states: before the relay too nothing
\* else closes them, and in the relay no deadline does.
KeptInv(k) ==
  /\ hpc[k] \notin {"exit", "ended"} /\ (cl[k] = "closed" \/ rem[k] = "closed") => closedBy(k)
  /\ hpc[k] = "relay" => dl[k] = "none"

JoinedInv == serve = "returned" => \A k \in Conns : hpc[k] \in {"none", "ended"}

SocksInv == TypeOK /\ JoinedInv /\ \A k \in Conns : HandlerInv(k) /\ KeptInv(k)

\* Before the first Accept nothing runs and nothing is open.
LEMMA InitSocks == Init => SocksInv
<1>1. Init => done \in BOOLEAN
  BY Zenon DEF Init
<1>2. Init => /\ late \in [Conns -> BOOLEAN] /\ half \in [Conns -> BOOLEAN] /\ revoked \in [Conns -> BOOLEAN]
              /\ stalled \in [Conns -> BOOLEAN] /\ rstalled \in [Conns -> BOOLEAN]
  <2>1. Init => LET off == [k \in Conns |-> FALSE]
                IN  late = off /\ half = off /\ revoked = off /\ stalled = off /\ rstalled = off
    BY DEF Init
  <2>2. [k \in Conns |-> FALSE] \in [Conns -> BOOLEAN]
    BY Zenon
  <2> QED
    BY <2>1, <2>2, Zenon
<1>3. Init => code \in [Conns -> -1..8]
  BY DEF Init
<1>4. Init => TypeOK
  <2>1. Init => /\ serve \in {"accept", "drain", "returned"}
                /\ hpc \in [Conns -> {"none", "greet", "request", "ready", "dial", "reply", "relay", "exit", "ended"}]
                /\ cl \in [Conns -> {"none", "open", "closed"}] /\ rem \in [Conns -> {"none", "open", "closed"}]
                /\ peer \in [Conns -> {"open", "shut", "gone"}] /\ rpeer \in [Conns -> {"open", "shut", "gone"}]
                /\ dl \in [Conns -> {"armed", "passed", "none"}]
                /\ up \in [Conns -> {"none", "copy", "ended"}] /\ down \in [Conns -> {"none", "copy", "ended"}]
    BY DEF Init
  <2> QED
    BY <1>1, <1>2, <1>3, <2>1 DEF TypeOK
<1>5. Init => JoinedInv /\ \A k \in Conns : HandlerInv(k) /\ KeptInv(k)
  BY DEF Init, JoinedInv, HandlerInv, KeptInv, closedBy
<1> QED
  BY <1>4, <1>5 DEF SocksInv

\* One lemma per goroutine or actor; the steps of a client leave the others alone.
LEMMA ServeKeeps ==
  ASSUME SocksInv, AcceptError \/ ServeReturn \/ Cancel
  PROVE  SocksInv'
<1>1. done' \in BOOLEAN
  BY Zenon DEF SocksInv, TypeOK, AcceptError, ServeReturn, Cancel
<1>2. TypeOK'
  BY <1>1 DEF SocksInv, TypeOK, AcceptError, ServeReturn, Cancel, clientVars, remoteVars
<1>3. JoinedInv' /\ \A k \in Conns : HandlerInv(k)' /\ KeptInv(k)'
  BY DEF SocksInv, JoinedInv, HandlerInv, KeptInv, closedBy, AcceptError, ServeReturn, Cancel, joined,
         clientVars, remoteVars
<1> QED
  BY <1>2, <1>3 DEF SocksInv

\* The steps of a handler, from Accept to its return.
LEMMA HandleKeeps ==
  ASSUME SocksInv, NEW k \in Conns, Accept(k) \/ HandleStep(k)
  PROVE  SocksInv'
<1> USE DEF SocksInv, TypeOK, JoinedInv, HandlerInv, KeptInv, closedBy, clientVars, remoteVars, step
<1>1. CASE Accept(k)
  BY <1>1 DEF Accept
<1>2. CASE Greet(k)
  BY <1>2 DEF Greet
<1>3. CASE Request(k)
  BY <1>3 DEF Request, reply
<1>4. CASE Ready(k)
  BY <1>4 DEF Ready, reply
<1>5. CASE Dial(k)
  BY <1>5 DEF Dial, reply, errorReply, DialErrors
<1>6. CASE Reply(k)
  BY <1>6 DEF Reply, reply, broken
<1>7. CASE Join(k)
  BY <1>7 DEF Join, copied
<1>8. CASE Exit(k)
  BY <1>8 DEF Exit, closeRemote, closeClient
<1> QED
  BY <1>1, <1>2, <1>3, <1>4, <1>5, <1>6, <1>7, <1>8 DEF HandleStep

\* The copying goroutines, the watcher and the end of ctx close what they share.
LEMMA RelayKeeps ==
  ASSUME SocksInv, NEW k \in Conns, RelayStep(k) \/ Watch(k) \/ Cut(k)
  PROVE  SocksInv'
<1> USE DEF SocksInv, TypeOK, JoinedInv, HandlerInv, KeptInv, closedBy, clientVars, remoteVars,
            closeRemote, closeClient
<1>1. CASE UpEOF(k)
  BY <1>1 DEF UpEOF, finishUpload
<1>2. CASE UpError(k)
  BY <1>2 DEF UpError, broken
<1>3. CASE DownEOF(k)
  BY <1>3 DEF DownEOF
<1>4. CASE DownError(k)
  BY <1>4 DEF DownError, broken
<1>5. CASE Watch(k)
  BY <1>5 DEF Watch, watched
<1>6. CASE Cut(k)
  BY <1>6 DEF Cut
<1> QED
  BY <1>1, <1>2, <1>3, <1>4, <1>5, <1>6 DEF RelayStep

\* The peers, the Backend and the timers leave the handlers where they are.
LEMMA EnvKeeps ==
  ASSUME SocksInv, NEW k \in Conns, EnvStep(k)
  PROVE  SocksInv'
<1> USE DEF SocksInv, TypeOK, JoinedInv, HandlerInv, KeptInv, closedBy, clientVars, remoteVars
<1>1. CASE PeerEnds(k)
  BY <1>1 DEF PeerEnds
<1>2. CASE RemoteEnds(k)
  BY <1>2 DEF RemoteEnds
<1>3. CASE PeerStalls(k)
  BY <1>3 DEF PeerStalls
<1>4. CASE RemoteStalls(k)
  BY <1>4 DEF RemoteStalls
<1>5. CASE Revoke(k)
  BY <1>5 DEF Revoke, closeRemote
<1>6. CASE Deadline(k)
  BY <1>6 DEF Deadline
<1>7. CASE DialTimeout(k)
  BY <1>7 DEF DialTimeout
<1> QED
  BY <1>1, <1>2, <1>3, <1>4, <1>5, <1>6, <1>7 DEF EnvStep

\* A stuttering step keeps the invariant.
LEMMA StutterKeepsSocks == SocksInv /\ UNCHANGED vars => SocksInv'
BY DEF SocksInv, TypeOK, JoinedInv, HandlerInv, KeptInv, closedBy, vars, clientVars, remoteVars

\* The inductive invariant: where a handler is says which of its connections
\* and goroutines are alive.
THEOREM SocksInvariant == Spec => []SocksInv
<1>1. SocksInv /\ [Next]_vars => SocksInv'
  BY ServeKeeps, HandleKeeps, RelayKeeps, EnvKeeps, StutterKeepsSocks DEF Next
<1> QED
  BY <1>1, InitSocks, PTL DEF Spec

\* Every variable of Socks always has its type.
THEOREM SocksTypes == Spec => []TypeOK
<1>1. SocksInv => TypeOK
  BY DEF SocksInv
<1> QED
  BY <1>1, SocksInvariant, PTL

\* server.go: when Serve returns nothing of it is left running, with any number
\* of clients.
THEOREM Joins == Spec => []ServeJoins
<1>1. SocksInv => ServeJoins
  BY DEF SocksInv, JoinedInv, HandlerInv, ServeJoins
<1> QED
  BY <1>1, SocksInvariant, PTL

\* server.go: whatever a direction of the relay ends with, neither connection is
\* closed for it, for any number of clients.
THEOREM KeepsHalfClose == Spec => []HalfCloseKept
<1>1. SocksInv => HalfCloseKept
  BY DEF SocksInv, KeptInv, closedBy, HalfCloseKept
<1> QED
  BY <1>1, SocksInvariant, PTL

----------------------------------------------------------------------------
(* A client ends: of what HandshakeBounded, RevocationReaches, RelayCompletes *)
(* and ServeEnds need, the part that no fairness is needed for.            *)

\* The steps of Accept and Handle that are left, at most, with what they start.
placeLeft(k) ==
  IF hpc[k] = "none" THEN 13
  ELSE IF hpc[k] = "greet" THEN 10
  ELSE IF hpc[k] = "request" THEN 9
  ELSE IF hpc[k] = "ready" THEN 8
  ELSE IF hpc[k] = "dial" THEN 7
  ELSE IF hpc[k] = "reply" THEN 5
  ELSE IF hpc[k] = "relay" THEN 2
  ELSE IF hpc[k] = "exit" THEN 1
  ELSE 0

\* The copies, connections and timers that can still end, once each.
copiesLeft(k) == (IF up[k] = "copy" THEN 1 ELSE 0) + (IF down[k] = "copy" THEN 1 ELSE 0)
opensLeft(k) == (IF cl[k] = "open" THEN 1 ELSE 0) + (IF rem[k] = "open" THEN 1 ELSE 0)
timersLeft(k) == (IF dl[k] = "armed" THEN 1 ELSE 0) + (IF late[k] THEN 0 ELSE 1)

\* The two peers, each of which may shut its side and then go, and stop reading.
endLeft(e) == IF e = "open" THEN 2 ELSE IF e = "shut" THEN 1 ELSE 0
peersLeft(k) == endLeft(peer[k]) + endLeft(rpeer[k])
stallsLeft(k) == (IF stalled[k] THEN 0 ELSE 1) + (IF rstalled[k] THEN 0 ELSE 1)

clientLeft(k) ==
  placeLeft(k) + copiesLeft(k) + opensLeft(k) + timersLeft(k) + peersLeft(k) + stallsLeft(k)

\* Whoever acts for client k: its handler, its copies, its callbacks, its timers
\* and its peers.
clientStep(k) == Accept(k) \/ HandleStep(k) \/ RelayStep(k) \/ Watch(k) \/ Cut(k) \/ EnvStep(k)

\* A step for a client leaves that client fewer steps; no step leaves any client
\* more.
nearer ==
  \A k \in Conns : clientLeft(k)' <= clientLeft(k) /\ (clientStep(k) => clientLeft(k)' < clientLeft(k))

\* What is left is a number.
LEMMA LeftBounded == ASSUME SocksInv, NEW k \in Conns PROVE clientLeft(k) \in 0..20
<1>1. endLeft(peer[k]) \in 0..2 /\ endLeft(rpeer[k]) \in 0..2
  BY DEF endLeft
<1>2. peersLeft(k) \in 0..4
  BY <1>1 DEF peersLeft
<1>3. /\ copiesLeft(k) \in 0..2 /\ opensLeft(k) \in 0..2 /\ timersLeft(k) \in 0..2
      /\ stallsLeft(k) \in 0..2
  BY DEF copiesLeft, opensLeft, timersLeft, stallsLeft
<1>4. CASE hpc[k] = "none"
  <2>1. copiesLeft(k) = 0 /\ opensLeft(k) = 0 /\ timersLeft(k) \in 0..1
    BY <1>4 DEF SocksInv, HandlerInv, copiesLeft, opensLeft, timersLeft
  <2>2. placeLeft(k) = 13
    BY <1>4 DEF placeLeft
  <2> QED
    BY <1>2, <1>3, <2>1, <2>2 DEF clientLeft
<1>5. CASE hpc[k] \in {"reply", "relay", "exit"}
  <2>1. placeLeft(k) \in 0..5
    BY <1>5 DEF placeLeft
  <2> QED
    BY <1>2, <1>3, <2>1 DEF clientLeft
<1>6. CASE hpc[k] \notin {"none", "reply", "relay", "exit"}
  <2>1. copiesLeft(k) = 0 /\ opensLeft(k) \in 0..1
    BY <1>6 DEF SocksInv, TypeOK, HandlerInv, copiesLeft, opensLeft
  <2>2. placeLeft(k) \in 0..10
    BY <1>6 DEF placeLeft
  <2> QED
    BY <1>2, <1>3, <2>1, <2>2 DEF clientLeft
<1> QED
  BY <1>4, <1>5, <1>6

\* What a client has left depends on nothing but its own.
LEMMA SameLeft ==
  ASSUME NEW k \in Conns,
         UNCHANGED <<hpc[k], cl[k], peer[k], dl[k], stalled[k], late[k], rem[k], rpeer[k], rstalled[k],
                     up[k], down[k]>>
  PROVE  clientLeft(k)' = clientLeft(k)
<1>1. placeLeft(k)' = placeLeft(k)
  BY DEF placeLeft
<1>2. copiesLeft(k)' = copiesLeft(k) /\ opensLeft(k)' = opensLeft(k) /\ timersLeft(k)' = timersLeft(k)
  BY DEF copiesLeft, opensLeft, timersLeft
<1>3. peersLeft(k)' = peersLeft(k) /\ stallsLeft(k)' = stallsLeft(k)
  BY DEF peersLeft, stallsLeft, endLeft
<1> QED
  BY <1>1, <1>2, <1>3 DEF clientLeft

\* The steps for another client leave it as many.
LEMMA OthersLeft ==
  ASSUME SocksInv, NEW k \in Conns, NEW j \in Conns \ {k}, clientStep(j)
  PROVE  clientLeft(k)' = clientLeft(k)
<1>1. UNCHANGED <<hpc[k], cl[k], peer[k], dl[k], stalled[k], late[k], rem[k], rpeer[k], rstalled[k],
                     up[k], down[k]>>
  BY DEF SocksInv, TypeOK, clientStep, Accept, HandleStep, Greet, Request, Ready, Dial, Reply, Join, Exit,
         RelayStep, UpEOF, UpError, DownEOF, DownError, Watch, Cut, EnvStep, PeerEnds, RemoteEnds,
         PeerStalls, RemoteStalls, Revoke, Deadline, DialTimeout, clientVars, remoteVars, step, reply,
         closeRemote, closeClient, finishUpload
<1> QED
  BY <1>1, SameLeft

\* Those of Serve leave it as many.
LEMMA ServeLeft ==
  ASSUME NEW k \in Conns, AcceptError \/ ServeReturn \/ Cancel \/ UNCHANGED vars
  PROVE  clientLeft(k)' = clientLeft(k)
<1>1. UNCHANGED <<hpc[k], cl[k], peer[k], dl[k], stalled[k], late[k], rem[k], rpeer[k], rstalled[k],
                     up[k], down[k]>>
  BY DEF AcceptError, ServeReturn, Cancel, vars, clientVars, remoteVars
<1> QED
  BY <1>1, SameLeft

\* The steps of a handler: it moves on, and what it starts weighs less than its
\* move.
LEMMA HandleLeft ==
  ASSUME SocksInv, NEW k \in Conns, Accept(k) \/ HandleStep(k)
  PROVE  clientLeft(k)' < clientLeft(k)
<1>1. peersLeft(k)' = peersLeft(k) /\ stallsLeft(k)' = stallsLeft(k)
  BY DEF peersLeft, stallsLeft, endLeft, Accept, HandleStep, Greet, Request, Ready, Dial, Reply, Join, Exit,
         clientVars, remoteVars
<1>2. /\ peersLeft(k) \in Int /\ copiesLeft(k) \in Int /\ opensLeft(k) \in Int /\ timersLeft(k) \in Int
      /\ stallsLeft(k) \in Int
      /\ copiesLeft(k)' \in Int /\ opensLeft(k)' \in Int /\ timersLeft(k)' \in Int
  BY DEF peersLeft, stallsLeft, endLeft, copiesLeft, opensLeft, timersLeft
<1> USE DEF SocksInv, TypeOK, HandlerInv, clientVars, remoteVars, step
<1>5. CASE Accept(k)
  <2>1. /\ placeLeft(k) = 13 /\ placeLeft(k)' = 10
        /\ copiesLeft(k)' = copiesLeft(k) /\ opensLeft(k)' <= opensLeft(k) + 1
        /\ timersLeft(k)' <= timersLeft(k) + 1
    BY <1>5 DEF Accept, placeLeft, copiesLeft, opensLeft, timersLeft
  <2> QED
    BY <1>1, <1>2, <2>1 DEF clientLeft
<1>6. CASE Greet(k) \/ Request(k) \/ Ready(k) \/ Join(k)
  <2>1. placeLeft(k)' < placeLeft(k)
    <3>1. CASE Greet(k)
      <4>1. placeLeft(k) = 10 /\ placeLeft(k)' \in {1, 9}
        BY <3>1 DEF Greet, placeLeft
      <4> QED
        BY <4>1
    <3>2. CASE Request(k)
      <4>1. placeLeft(k) = 9 /\ placeLeft(k)' \in {1, 8}
        BY <3>2 DEF Request, placeLeft
      <4> QED
        BY <4>1
    <3>3. CASE Ready(k)
      <4>1. placeLeft(k) = 8 /\ placeLeft(k)' \in {1, 7}
        BY <3>3 DEF Ready, placeLeft
      <4> QED
        BY <4>1
    <3>4. CASE Join(k)
      <4>1. placeLeft(k) = 2 /\ placeLeft(k)' = 1
        BY <3>4 DEF Join, placeLeft
      <4> QED
        BY <4>1
    <3> QED
      BY <1>6, <3>1, <3>2, <3>3, <3>4
  <2>2. /\ copiesLeft(k)' = copiesLeft(k) /\ opensLeft(k)' = opensLeft(k)
        /\ timersLeft(k)' = timersLeft(k)
    BY <1>6 DEF Greet, Request, Ready, Join, copiesLeft, opensLeft, timersLeft
  <2>3. placeLeft(k) \in Int /\ placeLeft(k)' \in Int
    BY DEF placeLeft
  <2> QED
    BY <1>1, <1>2, <2>1, <2>2, <2>3 DEF clientLeft
<1>7. CASE Dial(k)
  <2>1. /\ placeLeft(k) = 7 /\ placeLeft(k)' \in {1, 5}
        /\ copiesLeft(k)' = copiesLeft(k) /\ opensLeft(k)' <= opensLeft(k) + 1
        /\ timersLeft(k)' = timersLeft(k)
    BY <1>7 DEF Dial, placeLeft, copiesLeft, opensLeft, timersLeft
  <2> QED
    BY <1>1, <1>2, <2>1 DEF clientLeft
<1>8. CASE Reply(k)
  <2>1. /\ placeLeft(k) = 5 /\ placeLeft(k)' \in {1, 2}
        /\ copiesLeft(k)' <= copiesLeft(k) + 2 /\ opensLeft(k)' = opensLeft(k)
        /\ timersLeft(k)' <= timersLeft(k)
    BY <1>8 DEF Reply, placeLeft, copiesLeft, opensLeft, timersLeft
  <2> QED
    BY <1>1, <1>2, <2>1 DEF clientLeft
<1>9. CASE Exit(k)
  <2>1. /\ placeLeft(k) = 1 /\ placeLeft(k)' = 0
        /\ copiesLeft(k)' = copiesLeft(k) /\ opensLeft(k)' <= opensLeft(k)
        /\ timersLeft(k)' <= timersLeft(k)
    BY <1>9 DEF Exit, closeRemote, closeClient, placeLeft, copiesLeft, opensLeft, timersLeft
  <2> QED
    BY <1>1, <1>2, <2>1 DEF clientLeft
<1> QED
  BY <1>5, <1>6, <1>7, <1>8, <1>9 DEF HandleStep

\* A copy, a callback, a timer or a peer ends one thing, and starts none.
LEMMA EndingLeft ==
  ASSUME SocksInv, NEW k \in Conns, RelayStep(k) \/ Watch(k) \/ Cut(k) \/ EnvStep(k)
  PROVE  clientLeft(k)' < clientLeft(k)
<1>1. placeLeft(k)' = placeLeft(k) /\ placeLeft(k) \in Int
  BY DEF placeLeft, RelayStep, UpEOF, UpError, DownEOF, DownError, Watch, Cut, EnvStep, PeerEnds,
         RemoteEnds, PeerStalls, RemoteStalls, Revoke, Deadline, DialTimeout, clientVars, remoteVars
<1>2. /\ peersLeft(k) \in Int /\ copiesLeft(k) \in Int /\ opensLeft(k) \in Int /\ timersLeft(k) \in Int
      /\ stallsLeft(k) \in Int /\ stallsLeft(k)' \in Int
      /\ peersLeft(k)' \in Int /\ copiesLeft(k)' \in Int /\ opensLeft(k)' \in Int /\ timersLeft(k)' \in Int
  BY DEF peersLeft, stallsLeft, endLeft, copiesLeft, opensLeft, timersLeft
<1> USE DEF SocksInv, TypeOK, HandlerInv, clientVars, remoteVars
<1>3. CASE RelayStep(k)
  <2>1. copiesLeft(k)' < copiesLeft(k)
    BY <1>3 DEF copiesLeft, RelayStep, UpEOF, UpError, DownEOF, DownError
  <2>2. opensLeft(k)' <= opensLeft(k)
    BY <1>3 DEF opensLeft, RelayStep, UpEOF, UpError, DownEOF, DownError, closeRemote, closeClient, finishUpload
  <2>3. timersLeft(k)' = timersLeft(k) /\ peersLeft(k)' = peersLeft(k) /\ stallsLeft(k)' = stallsLeft(k)
    BY <1>3 DEF timersLeft, peersLeft, stallsLeft, endLeft, RelayStep, UpEOF, UpError, DownEOF, DownError
  <2> QED
    BY <1>1, <1>2, <2>1, <2>2, <2>3 DEF clientLeft
<1>4. CASE Watch(k) \/ Cut(k) \/ Revoke(k)
  <2>1. opensLeft(k)' < opensLeft(k)
    BY <1>4 DEF opensLeft, Watch, watched, Cut, Revoke, closeRemote, closeClient
  <2>2. /\ copiesLeft(k)' = copiesLeft(k) /\ timersLeft(k)' = timersLeft(k)
        /\ peersLeft(k)' = peersLeft(k) /\ stallsLeft(k)' = stallsLeft(k)
    BY <1>4 DEF copiesLeft, timersLeft, peersLeft, stallsLeft, endLeft, Watch, Cut, Revoke
  <2> QED
    BY <1>1, <1>2, <2>1, <2>2 DEF clientLeft
<1>5. CASE PeerEnds(k) \/ RemoteEnds(k)
  <2>1. peersLeft(k)' < peersLeft(k)
    BY <1>5 DEF peersLeft, endLeft, PeerEnds, RemoteEnds
  <2>2. /\ copiesLeft(k)' = copiesLeft(k) /\ timersLeft(k)' = timersLeft(k)
        /\ opensLeft(k)' = opensLeft(k) /\ stallsLeft(k)' = stallsLeft(k)
    BY <1>5 DEF copiesLeft, timersLeft, opensLeft, stallsLeft, PeerEnds, RemoteEnds
  <2> QED
    BY <1>1, <1>2, <2>1, <2>2 DEF clientLeft
<1>6. CASE Deadline(k) \/ DialTimeout(k)
  <2>1. timersLeft(k)' < timersLeft(k)
    BY <1>6 DEF timersLeft, Deadline, DialTimeout
  <2>2. /\ copiesLeft(k)' = copiesLeft(k) /\ peersLeft(k)' = peersLeft(k)
        /\ opensLeft(k)' = opensLeft(k) /\ stallsLeft(k)' = stallsLeft(k)
    BY <1>6 DEF copiesLeft, peersLeft, stallsLeft, endLeft, opensLeft, Deadline, DialTimeout
  <2> QED
    BY <1>1, <1>2, <2>1, <2>2 DEF clientLeft
<1>7. CASE PeerStalls(k) \/ RemoteStalls(k)
  <2>1. stallsLeft(k)' < stallsLeft(k)
    BY <1>7 DEF stallsLeft, PeerStalls, RemoteStalls
  <2>2. /\ copiesLeft(k)' = copiesLeft(k) /\ timersLeft(k)' = timersLeft(k)
        /\ opensLeft(k)' = opensLeft(k) /\ peersLeft(k)' = peersLeft(k)
    BY <1>7 DEF copiesLeft, timersLeft, opensLeft, peersLeft, endLeft, PeerStalls, RemoteStalls
  <2> QED
    BY <1>1, <1>2, <2>1, <2>2 DEF clientLeft
<1> QED
  BY <1>3, <1>4, <1>5, <1>6, <1>7 DEF EnvStep

\* server.go: from Accept to its end a client is at most twenty steps, those
\* of its peers, its timers, the Backend and Ctrl-C included, however they
\* interleave and whatever the other clients do: no part of a handler restarts
\* another.
THEOREM EndsInSteps == Spec => [](\A k \in Conns : clientLeft(k) \in 0..20) /\ [][nearer]_vars
<1>1. SocksInv => \A k \in Conns : clientLeft(k) \in 0..20
  BY LeftBounded
<1>2. ASSUME SocksInv, Next, NEW k \in Conns
      PROVE  clientLeft(k)' <= clientLeft(k) /\ (clientStep(k) => clientLeft(k)' < clientLeft(k))
  <2>1. clientLeft(k) \in 0..20
    BY <1>2, LeftBounded
  <2>2. CASE clientStep(k)
    <3>1. clientLeft(k)' < clientLeft(k)
      BY <1>2, <2>2, HandleLeft, EndingLeft DEF clientStep
    <3>2. clientLeft(k)' \in Int
      BY DEF clientLeft, placeLeft, peersLeft, stallsLeft, endLeft, copiesLeft, opensLeft, timersLeft
    <3> QED
      BY <2>1, <3>1, <3>2
  <2>3. CASE ~clientStep(k)
    <3>1. clientLeft(k)' = clientLeft(k)
      BY <1>2, <2>3, OthersLeft, ServeLeft DEF Next, clientStep
    <3> QED
      BY <2>1, <2>3, <3>1
  <2> QED
    BY <2>2, <2>3
<1>3. SocksInv /\ [Next]_vars => [nearer]_vars
  BY <1>2 DEF nearer
<1> QED
  BY <1>1, <1>3, SocksInvariant, PTL DEF Spec
==============================================================================
