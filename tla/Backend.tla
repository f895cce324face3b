------------------------------ MODULE Backend ------------------------------
(***************************************************************************)
(* gateway.Backend: the one object every SOCKS handler dials through.  It  *)
(* publishes a tunnel with its ACL as a generation; Replace switches the   *)
(* generation, cancels the dials the old one admitted and closes the       *)
(* connections it authorised, outside the lock.  Three kinds of goroutine  *)
(* meet here: one DialContext per SOCKS request, the closers of tracked    *)
(* connections, and the supervisor, the only caller of Replace.            *)
(*                                                                         *)
(* A call names the tracked connection it may return, and a tunnel names   *)
(* the generation Replace makes of it: both are created at most once.      *)
(***************************************************************************)
CONSTANTS Calls,    \* DialContext calls
          Tunnels,  \* tunnels the supervisor may open
          Targets,  \* well-formed destinations
          Domains,  \* those given by name: only the tunnel can judge them
          Allow,    \* Allow[t]: destinations the ACL snapshot of t authorises
          None

ASSUME BackendAssumption ==
  /\ Domains \subseteq Targets
  /\ Allow \in [Tunnels -> SUBSET Targets]
  /\ None \notin Tunnels \cup Targets \cup Calls

VARIABLES
  mu,         \* Backend.mu is held
  current,    \* Backend.current: a generation or None (nil)
  conns,      \* conns[t]: generation.conns
  cancelled,  \* the generations whose ctx is cancelled
  tun,        \* tun[t]: "fresh" before Connect made it, then "open",
              \* "lost" (Done is closed) or "closed" (Close was called)
  dpc,        \* dpc[c]: where DialContext is, or the result it returned
  dest,       \* dest[c]: the address asked for
  gen,        \* gen[c]: g, the generation that admitted the call
  expired,    \* the calls whose own ctx is done (10 s timeout, shutdown)
  conn,       \* conn[c]: life of the connection dialled by c
  rpc,        \* where Replace is
  rarg,       \* the argument of Replace
  old,        \* Replace's local old
  rpend,      \* Replace's local conns, those it has still to close
  rwait       \* the connection whose Close Replace is waiting for

lockVars == <<mu, current, conns, cancelled>>
dialVars == <<dpc, dest, gen, expired>>
replaceVars == <<rpc, rarg, old, rpend, rwait>>
vars == <<lockVars, tun, dialVars, conn, replaceVars>>

Results == {"ok", "unavailable", "denied", "failed"}
DialPC == {"idle", "lock1", "admit", "dialing", "lock2", "settle"} \cup Results
ConnState == {"none", "raw", "open", "closing", "closed", "deleting", "removed"}

TypeOK ==
  /\ mu \in BOOLEAN
  /\ current \in Tunnels \cup {None}
  /\ conns \in [Tunnels -> SUBSET Calls]
  /\ cancelled \in SUBSET Tunnels
  /\ tun \in [Tunnels -> {"fresh", "open", "lost", "closed"}]
  /\ dpc \in [Calls -> DialPC]
  /\ dest \in [Calls -> Targets \cup {None}]
  /\ gen \in [Calls -> Tunnels \cup {None}]
  /\ expired \in SUBSET Calls
  /\ conn \in [Calls -> ConnState]
  /\ rpc \in {"idle", "lock", "swap", "close"}
  /\ rarg \in Tunnels \cup {None}
  /\ old \in Tunnels \cup {None}
  /\ rpend \in SUBSET Calls
  /\ rwait \in Calls \cup {None}

Init ==
  /\ mu = FALSE
  /\ current = None
  /\ conns = [t \in Tunnels |-> {}]
  /\ cancelled = {}
  /\ tun = [t \in Tunnels |-> "fresh"]
  /\ dpc = [c \in Calls |-> "idle"]
  /\ dest = [c \in Calls |-> None]
  /\ gen = [c \in Calls |-> None]
  /\ expired = {}
  /\ conn = [c \in Calls |-> "none"]
  /\ rpc = "idle"
  /\ rarg = None
  /\ old = None
  /\ rpend = {}
  /\ rwait = None

----------------------------------------------------------------------------
(* Ready and the two critical sections of DialContext.                     *)

alive(t) == tun[t] \notin {"lost", "closed"}

Ready == current # None /\ alive(current)

\* DialContext is entered; anything but a tcp4 IPv4 or domain address with a
\* nonzero port is refused before the lock is touched.
Dial(c) ==
  /\ dpc[c] = "idle"
  /\ \/ /\ dpc' = [dpc EXCEPT ![c] = "denied"]
        /\ UNCHANGED dest
     \/ \E a \in Targets : /\ dest' = [dest EXCEPT ![c] = a]
                           /\ dpc' = [dpc EXCEPT ![c] = "lock1"]
  /\ UNCHANGED <<lockVars, tun, gen, expired, conn, replaceVars>>

\* b.mu.Lock(): from lock1 to the admission check, from lock2 to the last one.
DialLock(c) ==
  /\ ~mu /\ mu' = TRUE
  /\ \/ dpc[c] = "lock1" /\ dpc' = [dpc EXCEPT ![c] = "admit"]
     \/ dpc[c] = "lock2" /\ dpc' = [dpc EXCEPT ![c] = "settle"]
  /\ UNCHANGED <<current, conns, cancelled, tun, dest, gen, expired, conn, replaceVars>>

\* Mutant: the ACL is left to the tunnel for addresses as for names.
permittedUnchecked(c) == TRUE
permitted(c) == dest[c] \in Domains \/ dest[c] \in Allow[current]

\* The first critical section: an IPv4 address is authorised here, a domain
\* only inside the tunnel.
Admit(c) ==
  /\ dpc[c] = "admit"
  /\ mu' = FALSE
  /\ \/ /\ ~Ready
        /\ dpc' = [dpc EXCEPT ![c] = "unavailable"] /\ UNCHANGED gen
     \/ /\ Ready /\ ~permitted(c)
        /\ dpc' = [dpc EXCEPT ![c] = "denied"] /\ UNCHANGED gen
     \/ /\ Ready /\ permitted(c)
        /\ dpc' = [dpc EXCEPT ![c] = "dialing"]
        /\ gen' = [gen EXCEPT ![c] = current]
  /\ UNCHANGED <<current, conns, cancelled, tun, dest, expired, conn, replaceVars>>

\* Mutant: dialCtx is not tied to the generation (no AfterFunc).
dialDoneCaller(c) == c \in expired
\* dialCtx: done with the caller's ctx, or by AfterFunc with the generation's.
dialDone(c) == c \in expired \/ gen[c] \in cancelled

\* The tunnel's DialContext or DialDomainContext returns.  It may succeed
\* although dialCtx is done (a late dial).  The tunnel judges names only: it
\* dials whatever IPv4 address it is given.
DialReturn(c) ==
  /\ dpc[c] = "dialing"
  /\ dpc' = [dpc EXCEPT ![c] = "lock2"]
  /\ \/ /\ dest[c] \in Domains => dest[c] \in Allow[gen[c]]
        /\ conn' = [conn EXCEPT ![c] = "raw"]
     \/ UNCHANGED conn
  /\ UNCHANGED <<lockVars, tun, dest, gen, expired, replaceVars>>

\* Mutant: the generation is not looked at again after the dial.
staleCaller(c) == c \in expired
stale(c) == \/ current # gen[c] \/ ~alive(gen[c])
            \/ gen[c] \in cancelled \/ c \in expired

\* Mutant: a late connection is not closed.
keepLate(c) == UNCHANGED conn
\* if conn != nil { conn.Close() }
closeLate(c) == conn' = [conn EXCEPT ![c] = IF @ = "raw" THEN "removed" ELSE @]

\* The second critical section: publish the connection in its generation, or
\* close it if the world has moved on since admission.
Settle(c) ==
  /\ dpc[c] = "settle"
  /\ mu' = FALSE
  /\ \/ /\ stale(c)
        /\ dpc' = [dpc EXCEPT ![c] = "unavailable"]
        /\ closeLate(c)
        /\ UNCHANGED conns
     \/ /\ ~stale(c) /\ conn[c] = "none"
        /\ \/ dpc' = [dpc EXCEPT ![c] = "failed"]
           \/ dest[c] \in Domains /\ dpc' = [dpc EXCEPT ![c] = "denied"]
        /\ UNCHANGED <<conn, conns>>
     \/ /\ ~stale(c) /\ conn[c] = "raw"
        /\ dpc' = [dpc EXCEPT ![c] = "ok"]
        /\ conn' = [conn EXCEPT ![c] = "open"]
        /\ conns' = [conns EXCEPT ![gen[c]] = @ \cup {c}]
  /\ UNCHANGED <<current, cancelled, tun, dest, gen, expired, replaceVars>>

----------------------------------------------------------------------------
(* trackedConn.Close: once.Do lets the first closer run the three steps    *)
(* and makes every other closer wait for "removed".                        *)

\* close(c.done): the first step of Close, by whichever goroutine calls it.
enterClose(c) == conn' = [conn EXCEPT ![c] = IF @ = "open" THEN "closing" ELSE @]

\* The SOCKS handler closes the connection DialContext gave it.
CallerClose(c) ==
  /\ dpc[c] = "ok" /\ conn[c] = "open"
  /\ enterClose(c)
  /\ UNCHANGED <<lockVars, tun, dialVars, replaceVars>>

\* c.Conn.Close()
CloseRaw(c) ==
  /\ conn[c] = "closing"
  /\ conn' = [conn EXCEPT ![c] = "closed"]
  /\ UNCHANGED <<lockVars, tun, dialVars, replaceVars>>

CloseLock(c) ==
  /\ conn[c] = "closed" /\ ~mu
  /\ mu' = TRUE
  /\ conn' = [conn EXCEPT ![c] = "deleting"]
  /\ UNCHANGED <<current, conns, cancelled, tun, dialVars, replaceVars>>

forget(c) == [conns EXCEPT ![gen[c]] = @ \ {c}]

\* delete(c.g.conns, c) under the lock
CloseDelete(c) ==
  /\ conn[c] = "deleting"
  /\ mu' = FALSE
  /\ conn' = [conn EXCEPT ![c] = "removed"]
  /\ conns' = forget(c)
  /\ UNCHANGED <<current, cancelled, tun, dialVars, replaceVars>>

----------------------------------------------------------------------------
(* Replace, called by one goroutine.                                       *)

\* Replace(t) is called with a tunnel no earlier call was given, or with nil.
ReplaceCall(t) ==
  /\ rpc = "idle"
  /\ t # None => t # current /\ tun[t] \in {"open", "lost"}
  /\ rpc' = "lock" /\ rarg' = t
  /\ UNCHANGED <<lockVars, tun, dialVars, conn, old, rpend, rwait>>

ReplaceLock ==
  /\ rpc = "lock" /\ ~mu
  /\ mu' = TRUE /\ rpc' = "swap"
  /\ UNCHANGED <<current, conns, cancelled, tun, dialVars, conn, rarg, old, rpend, rwait>>

\* Mutant: the old generation is not cancelled.
cancelNone == cancelled
cancelOld == cancelled \cup ({current} \ {None})

oldConns == IF current = None THEN {} ELSE conns[current]

\* Mutant: the mutex is held until Replace returns, which it does only if there
\* is nothing to close.
deferUnlock == mu' = (oldConns # {})
unlock == mu' = FALSE

\* The critical section: cancel the old generation, remember its connections,
\* publish the new one.
ReplaceSwap ==
  /\ rpc = "swap"
  /\ unlock
  /\ old' = current
  /\ current' = rarg
  /\ cancelled' = cancelOld
  /\ rpend' = oldConns
  /\ rpc' = "close"
  /\ UNCHANGED <<conns, tun, dialVars, conn, rarg, rwait>>

\* for _, c := range conns { c.Close() }: one at a time, in map order.
ReplaceClose(c) ==
  /\ rpc = "close" /\ rwait = None /\ c \in rpend
  /\ rpend' = rpend \ {c}
  /\ rwait' = c
  /\ enterClose(c)
  /\ UNCHANGED <<lockVars, tun, dialVars, rpc, rarg, old>>

\* Mutant: the closes are started, not waited for.
closeStarted(c) == TRUE
closeReturned(c) == conn[c] = "removed"

ReplaceClosed ==
  /\ rwait # None /\ closeReturned(rwait)
  /\ rwait' = None
  /\ UNCHANGED <<lockVars, tun, dialVars, conn, rpc, rarg, old, rpend>>

\* Mutant: the tunnel just published is closed instead of the old one.
shutCurrent == tun' = [t \in Tunnels |-> IF t = current THEN "closed" ELSE tun[t]]
shutOld == tun' = [t \in Tunnels |-> IF t = old THEN "closed" ELSE tun[t]]

\* old.tunnel.Close(), and Replace returns.
ReplaceShut ==
  /\ rpc = "close" /\ rwait = None /\ rpend = {}
  /\ shutOld
  /\ rpc' = "idle"
  /\ UNCHANGED <<lockVars, dialVars, conn, rarg, old, rpend, rwait>>

----------------------------------------------------------------------------
(* The environment: a tunnel comes up, is lost (disconnect, PUSH update),  *)
(* or is closed unpublished; a caller's ctx ends.                          *)

TunnelUp(t) ==
  /\ tun[t] = "fresh"
  /\ tun' = [tun EXCEPT ![t] = "open"]
  /\ UNCHANGED <<lockVars, dialVars, conn, replaceVars>>

TunnelLost(t) ==
  /\ tun[t] = "open"
  /\ tun' = [tun EXCEPT ![t] = "lost"]
  /\ UNCHANGED <<lockVars, dialVars, conn, replaceVars>>

TunnelDiscard(t) ==
  /\ tun[t] \in {"open", "lost"} /\ rpc = "idle" /\ t # current
  /\ tun' = [tun EXCEPT ![t] = "closed"]
  /\ UNCHANGED <<lockVars, dialVars, conn, replaceVars>>

Expire(c) ==
  /\ dpc[c] \in DialPC \ Results /\ dpc[c] # "idle" /\ c \notin expired
  /\ expired' = expired \cup {c}
  /\ UNCHANGED <<lockVars, tun, dpc, dest, gen, conn, replaceVars>>

----------------------------------------------------------------------------
CallStep(c) == \/ Dial(c) \/ DialLock(c) \/ Admit(c) \/ DialReturn(c) \/ Settle(c)
               \/ Expire(c) \/ CallerClose(c)
CloseStep(c) == CloseRaw(c) \/ CloseLock(c) \/ CloseDelete(c)
ReplaceStep == \/ ReplaceLock \/ ReplaceSwap \/ ReplaceClosed \/ ReplaceShut
               \/ \E c \in Calls : ReplaceClose(c)
TunnelStep(t) == TunnelUp(t) \/ TunnelLost(t) \/ TunnelDiscard(t)

Next == \/ \E c \in Calls : CallStep(c) \/ CloseStep(c)
        \/ ReplaceStep
        \/ \E t \in Tunnels : TunnelStep(t)
        \/ \E t \in Tunnels \cup {None} : ReplaceCall(t)

Spec == Init /\ [][Next]_vars

----------------------------------------------------------------------------
(* Properties.                                                             *)

\* A connection DialContext handed to its caller, whose Close is not over.
tracked(c) == conn[c] \in {"open", "closing", "closed", "deleting"}

\* "Replacing it ... closes all connections authorized by the old ACL"
\* (backend.go:26): outside Replace's closing loop no connection of an
\* earlier generation is left in any stage of its life, including those
\* whose dial was racing with the switch.
RevokedOnReturn ==
  rpc # "close" => \A c \in Calls : tracked(c) => gen[c] = current

\* Inside the loop every connection of an earlier generation that still
\* carries traffic is one the loop has not reached yet: none slipped into a
\* generation after its connections were collected.
OldConnsDoomed ==
  \A c \in Calls : conn[c] = "open" /\ gen[c] # current => rpc = "close" /\ c \in rpend

\* A generation's table holds exactly its live connections: Replace would
\* miss an untracked one and hold on to one never removed.
ConnsExact == \A t \in Tunnels : conns[t] = {c \in Calls : tracked(c) /\ gen[c] = t}

\* Every connection that exists was authorised by the ACL snapshot of the
\* generation it was dialled in, not by one published while it was dialled.
Authorised == \A c \in Calls : conn[c] # "none" => dest[c] \in Allow[gen[c]]

\* DialContext never reports an error and leaves the connection it dialled
\* open behind it; a connection it returns is never a closed leftover.
NoRawLeak ==
  \A c \in Calls : dpc[c] \in Results =>
    IF dpc[c] = "ok" THEN conn[c] \notin {"none", "raw"} ELSE conn[c] \in {"none", "removed"}

\* Replace owns the tunnel it retires: once it returned, every generation it
\* ever replaced has its tunnel closed, and the published one is not closed.
RetiredTunnelsClosed ==
  /\ rpc # "close" => \A t \in cancelled : tun[t] = "closed"
  /\ current # None => tun[current] # "closed"

\* A dial admitted by a generation that was since replaced returns, and
\* returns ErrUnavailable whatever the tunnel answered
\* (TestLateDialCannotJoinNewGeneration, TestReplacementCancelsInflightDial).
StaleDialsFail ==
  \A c \in Calls : (dpc[c] = "dialing" /\ gen[c] # current) ~> dpc[c] = "unavailable"

\* A Close, by the caller or by Replace, ends with the connection removed from
\* its generation.
CloseCompletes == \A c \in Calls : conn[c] = "closing" ~> conn[c] = "removed"

\* The mapping to the abstract specification: a connection is live until its
\* raw Close, and the switch lasts from the swap to the return of Replace.
absLink == [c \in Calls |-> IF conn[c] \in {"open", "closing"} THEN "live"
                           ELSE IF dpc[c] = "ok" THEN "dead" ELSE "none"]
absOwner == [c \in Calls |-> IF dpc[c] = "ok" THEN gen[c] ELSE None]

Abs == INSTANCE Revocation
         WITH cur <- current, link <- absLink, owner <- absOwner, revoking <- (rpc = "close")

\* Backend implements Revocation: each of its steps is one of the abstract
\* steps or changes nothing a user of the gateway can observe.
AbsSpec == Abs!ASpec
----------------------------------------------------------------------------
(* The inductive invariant behind the safety properties.                   *)

\* What the stage of a call says of its generation, address and connection.
CallInv ==
  \A c \in Calls :
    /\ dpc[c] \notin {"idle"} \cup Results => dest[c] \in Targets
    /\ dpc[c] \in {"dialing", "lock2", "settle", "ok"} => gen[c] \in Tunnels
    /\ gen[c] # None => gen[c] \in cancelled \cup {current}
    /\ dpc[c] \in {"idle", "lock1", "admit", "dialing"} => conn[c] = "none"
    /\ dpc[c] \in {"lock2", "settle"} => conn[c] \in {"none", "raw"}
    /\ tracked(c) => dpc[c] = "ok"
    /\ dpc[c] = "ok" => conn[c] \notin {"none", "raw"}
    /\ dpc[c] \in Results \ {"ok"} => conn[c] \in {"none", "removed"}

\* A generation is published once, and cancelled before its tunnel is closed.
GenInv ==
  /\ current \notin cancelled
  /\ current # None => tun[current] \in {"open", "lost"}
  /\ old # None => old \in cancelled
  /\ \A t \in cancelled : tun[t] = "closed" \/ (rpc = "close" /\ t = old)
  /\ rpc \in {"lock", "swap"} /\ rarg # None =>
       rarg # current /\ rarg \notin cancelled /\ tun[rarg] \in {"open", "lost"}

\* A connection of an earlier generation is in the hands of Replace.
StaleInv ==
  \A c \in Calls : tracked(c) /\ gen[c] # current =>
    /\ rpc = "close"
    /\ c \in rpend \/ (c = rwait /\ conn[c] # "open")

\* An IPv4 address was authorised before it is dialled.
AuthInv ==
  /\ Authorised
  /\ \A c \in Calls : dpc[c] = "dialing" /\ dest[c] \notin Domains => dest[c] \in Allow[gen[c]]

IInv == TypeOK /\ CallInv /\ GenInv /\ ConnsExact /\ StaleInv /\ AuthInv
============================================================================
