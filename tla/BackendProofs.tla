--------------------------- MODULE BackendProofs ---------------------------
(***************************************************************************)
(* Proofs about gateway.Backend for any calls, tunnels, targets and ACLs.  *)
(***************************************************************************)
EXTENDS Backend, TLAPS

USE DEF Results, DialPC, ConnState, permitted, stale, closeLate, forget, cancelOld, oldConns, unlock,
        closeReturned, shutOld

\* The initial state satisfies the inductive invariant: nothing is published,
\* dialled or cancelled before the first Replace.
LEMMA InitIInv == ASSUME Init PROVE IInv
  BY BackendAssumption
  DEF Init, IInv, TypeOK, CallInv, GenInv, ConnsExact, StaleInv, AuthInv, Authorised, tracked

\* Every step of every goroutine keeps the variables in their types.
LEMMA TypeStep == ASSUME TypeOK, [Next]_vars PROVE TypeOK'
<1> USE BackendAssumption DEF TypeOK
<1>1. ASSUME NEW c \in Calls, CallStep(c) PROVE TypeOK'
  <2>1. CASE Dial(c) BY <2>1 DEF Dial, lockVars, replaceVars
  <2>2. CASE DialLock(c) BY <2>2 DEF DialLock, replaceVars
  <2>3. CASE Admit(c)
    <3>1. Ready => current \in Tunnels BY DEF Ready
    <3>2. UNCHANGED <<current, conns, cancelled, tun, dest, expired, conn, replaceVars>> /\ mu' = FALSE
      BY <2>3 DEF Admit
    <3>3. dpc' \in [Calls -> DialPC] BY <2>3 DEF Admit
    <3>4. gen' \in [Calls -> Tunnels \cup {None}] BY <2>3, <3>1 DEF Admit
    <3> QED BY <3>2, <3>3, <3>4 DEF replaceVars
  <2>4. CASE DialReturn(c) BY <2>4 DEF DialReturn, lockVars, replaceVars
  <2>5. CASE Settle(c)
    <3>1. UNCHANGED <<current, cancelled, tun, dest, gen, expired, replaceVars>> /\ mu' = FALSE
      BY <2>5 DEF Settle
    <3>2. dpc' \in [Calls -> DialPC] /\ conn' \in [Calls -> ConnState] /\ conns' \in [Tunnels -> SUBSET Calls]
      BY <2>5 DEF Settle
    <3> QED BY <3>1, <3>2 DEF replaceVars
  <2>6. CASE Expire(c) BY <2>6 DEF Expire, lockVars, replaceVars
  <2>7. CASE CallerClose(c) BY <2>7 DEF CallerClose, enterClose, lockVars, dialVars, replaceVars
  <2> QED BY <1>1, <2>1, <2>2, <2>3, <2>4, <2>5, <2>6, <2>7 DEF CallStep
<1>2. ASSUME NEW c \in Calls, CloseStep(c) PROVE TypeOK'
  <2>1. CASE CloseRaw(c) BY <2>1 DEF CloseRaw, lockVars, dialVars, replaceVars
  <2>2. CASE CloseLock(c) BY <2>2 DEF CloseLock, dialVars, replaceVars
  <2>3. CASE CloseDelete(c) BY <2>3 DEF CloseDelete, dialVars, replaceVars
  <2> QED BY <1>2, <2>1, <2>2, <2>3 DEF CloseStep
<1>3. ASSUME ReplaceStep PROVE TypeOK'
  <2>1. CASE ReplaceLock BY <2>1 DEF ReplaceLock, dialVars
  <2>2. CASE ReplaceSwap BY <2>2 DEF ReplaceSwap, dialVars
  <2>3. CASE ReplaceClosed BY <2>3 DEF ReplaceClosed, lockVars, dialVars
  <2>4. CASE ReplaceShut BY <2>4 DEF ReplaceShut, lockVars, dialVars
  <2>5. ASSUME NEW c \in Calls, ReplaceClose(c) PROVE TypeOK'
    BY <2>5 DEF ReplaceClose, enterClose, lockVars, dialVars
  <2> QED BY <1>3, <2>1, <2>2, <2>3, <2>4, <2>5 DEF ReplaceStep
<1>4. ASSUME NEW t \in Tunnels, TunnelStep(t) PROVE TypeOK'
  BY <1>4 DEF TunnelStep, TunnelUp, TunnelLost, TunnelDiscard, lockVars, dialVars, replaceVars
<1>5. ASSUME NEW t \in Tunnels \cup {None}, ReplaceCall(t) PROVE TypeOK'
  BY <1>5 DEF ReplaceCall, lockVars, dialVars
<1>6. CASE UNCHANGED vars BY <1>6 DEF vars, lockVars, dialVars, replaceVars
<1> QED BY <1>1, <1>2, <1>3, <1>4, <1>5, <1>6 DEF Next

\* The variables always have their types.
THEOREM TypeCorrect == Spec => []TypeOK
<1>1. Init => TypeOK BY InitIInv DEF IInv
<1>2. TypeOK /\ [Next]_vars => TypeOK' BY TypeStep
<1> QED BY <1>1, <1>2, PTL DEF Spec

\* Every step keeps the inductive invariant; under each action, the conjuncts
\* it does not touch come last.
LEMMA IInvStep == ASSUME IInv, [Next]_vars PROVE IInv'
<1> USE BackendAssumption DEF IInv, lockVars, dialVars, replaceVars
<1>0. TypeOK' BY TypeStep
<1>1. ASSUME NEW c \in Calls, Dial(c) PROVE IInv'
  <2>1. CallInv' BY <1>1 DEF TypeOK, Dial, CallInv, tracked
  <2>2. AuthInv' BY <1>1 DEF TypeOK, Dial, AuthInv, Authorised, CallInv
  <2>3. GenInv' /\ ConnsExact' /\ StaleInv'
    BY <1>1 DEF Dial, GenInv, ConnsExact, tracked, StaleInv
  <2> QED BY <1>0, <2>1, <2>2, <2>3
<1>2. ASSUME NEW c \in Calls, DialLock(c) PROVE IInv'
  <2>1. CallInv' BY <1>2 DEF TypeOK, DialLock, CallInv, tracked
  <2>2. AuthInv' BY <1>2 DEF TypeOK, DialLock, AuthInv, Authorised
  <2>3. GenInv' /\ ConnsExact' /\ StaleInv'
    BY <1>2 DEF DialLock, GenInv, ConnsExact, tracked, StaleInv
  <2> QED BY <1>0, <2>1, <2>2, <2>3
<1>3. ASSUME NEW c \in Calls, Admit(c) PROVE IInv'
  <2>1. CallInv' BY <1>3 DEF TypeOK, Admit, Ready, alive, CallInv, tracked
  <2>2. ConnsExact' BY <1>3 DEF TypeOK, Admit, Ready, alive, ConnsExact, tracked, CallInv
  <2>3. StaleInv' BY <1>3 DEF TypeOK, Admit, Ready, alive, StaleInv, tracked, CallInv
  <2>4. AuthInv' BY <1>3 DEF TypeOK, Admit, Ready, alive, AuthInv, Authorised, CallInv
  <2>5. GenInv'
    BY <1>3 DEF Admit, GenInv
  <2> QED BY <1>0, <2>1, <2>2, <2>3, <2>4, <2>5
<1>4. ASSUME NEW c \in Calls, DialReturn(c) PROVE IInv'
  <2>1. CallInv' BY <1>4 DEF TypeOK, DialReturn, CallInv, tracked
  <2>2. ConnsExact' BY <1>4 DEF TypeOK, DialReturn, ConnsExact, tracked, CallInv
  <2>3. StaleInv' BY <1>4 DEF TypeOK, DialReturn, StaleInv, tracked, CallInv
  <2>4. AuthInv' BY <1>4 DEF TypeOK, DialReturn, AuthInv, Authorised, CallInv
  <2>5. GenInv'
    BY <1>4 DEF DialReturn, GenInv
  <2> QED BY <1>0, <2>1, <2>2, <2>3, <2>4, <2>5
<1>5. ASSUME NEW c \in Calls, Settle(c) PROVE IInv'
  <2>1. CallInv' BY <1>5 DEF TypeOK, Settle, stale, alive, CallInv, tracked
  <2>2. ConnsExact' BY <1>5 DEF TypeOK, Settle, stale, alive, ConnsExact, tracked
  <2>3. StaleInv' BY <1>5 DEF TypeOK, Settle, stale, alive, StaleInv, tracked
  <2>4. AuthInv' BY <1>5 DEF TypeOK, Settle, stale, alive, AuthInv, Authorised
  <2>5. GenInv'
    BY <1>5 DEF Settle, GenInv
  <2> QED BY <1>0, <2>1, <2>2, <2>3, <2>4, <2>5
<1>6. ASSUME NEW c \in Calls, Expire(c) PROVE IInv'
  <2>1. CallInv' /\ GenInv' /\ ConnsExact' /\ StaleInv' /\ AuthInv'
    BY <1>6 DEF Expire, CallInv, tracked, GenInv, ConnsExact, StaleInv, AuthInv, Authorised
  <2> QED BY <1>0, <2>1
<1>7. ASSUME NEW c \in Calls, CallerClose(c) PROVE IInv'
  <2>1. CallInv' BY <1>7 DEF TypeOK, CallerClose, enterClose, CallInv, tracked
  <2>2. ConnsExact' BY <1>7 DEF TypeOK, CallerClose, enterClose, ConnsExact, tracked
  <2>3. StaleInv' BY <1>7 DEF TypeOK, CallerClose, enterClose, StaleInv, tracked
  <2>4. AuthInv' BY <1>7 DEF TypeOK, CallerClose, enterClose, AuthInv, Authorised
  <2>5. GenInv'
    BY <1>7 DEF CallerClose, GenInv
  <2> QED BY <1>0, <2>1, <2>2, <2>3, <2>4, <2>5
<1>8. ASSUME NEW c \in Calls, CloseRaw(c) PROVE IInv'
  <2>1. CallInv' BY <1>8 DEF TypeOK, CloseRaw, CallInv, tracked
  <2>2. ConnsExact' BY <1>8 DEF TypeOK, CloseRaw, ConnsExact, tracked
  <2>3. StaleInv' BY <1>8 DEF TypeOK, CloseRaw, StaleInv, tracked
  <2>4. AuthInv' BY <1>8 DEF TypeOK, CloseRaw, AuthInv, Authorised
  <2>5. GenInv'
    BY <1>8 DEF CloseRaw, GenInv
  <2> QED BY <1>0, <2>1, <2>2, <2>3, <2>4, <2>5
<1>9. ASSUME NEW c \in Calls, CloseLock(c) PROVE IInv'
  <2>1. CallInv' BY <1>9 DEF TypeOK, CloseLock, CallInv, tracked
  <2>2. ConnsExact' BY <1>9 DEF TypeOK, CloseLock, ConnsExact, tracked
  <2>3. StaleInv' BY <1>9 DEF TypeOK, CloseLock, StaleInv, tracked
  <2>4. AuthInv' BY <1>9 DEF TypeOK, CloseLock, AuthInv, Authorised
  <2>5. GenInv'
    BY <1>9 DEF CloseLock, GenInv
  <2> QED BY <1>0, <2>1, <2>2, <2>3, <2>4, <2>5
<1>10. ASSUME NEW c \in Calls, CloseDelete(c) PROVE IInv'
  <2>1. CallInv' BY <1>10 DEF TypeOK, CloseDelete, CallInv, tracked
  <2>2. ConnsExact' BY <1>10 DEF TypeOK, CloseDelete, ConnsExact, tracked
  <2>3. StaleInv' BY <1>10 DEF TypeOK, CloseDelete, StaleInv, tracked
  <2>4. AuthInv' BY <1>10 DEF TypeOK, CloseDelete, AuthInv, Authorised
  <2>5. GenInv'
    BY <1>10 DEF CloseDelete, GenInv
  <2> QED BY <1>0, <2>1, <2>2, <2>3, <2>4, <2>5
<1>11. ASSUME ReplaceLock PROVE IInv'
  <2>1. GenInv' BY <1>11 DEF TypeOK, ReplaceLock, GenInv
  <2>2. StaleInv' BY <1>11 DEF TypeOK, ReplaceLock, StaleInv, tracked
  <2>3. CallInv' /\ ConnsExact' /\ AuthInv'
    BY <1>11 DEF ReplaceLock, CallInv, tracked, ConnsExact, AuthInv, Authorised
  <2> QED BY <1>0, <2>1, <2>2, <2>3
<1>12. ASSUME ReplaceSwap PROVE IInv'
  <2>1. CallInv' BY <1>12 DEF TypeOK, ReplaceSwap, CallInv, tracked
  <2>2. GenInv' BY <1>12 DEF TypeOK, ReplaceSwap, GenInv
  <2>3. StaleInv'
    <3>1. \A c \in Calls : tracked(c) => gen[c] = current BY <1>12 DEF ReplaceSwap, StaleInv
    <3>2. \A c \in Calls : tracked(c)' => tracked(c) /\ gen'[c] = gen[c] BY <1>12 DEF ReplaceSwap, tracked
    <3>3. SUFFICES ASSUME NEW c \in Calls, tracked(c)', gen'[c] # current'
                   PROVE rpc' = "close" /\ c \in rpend'
      BY DEF StaleInv
    <3>4. gen[c] = current /\ current \in Tunnels BY <3>1, <3>2, <3>3 DEF TypeOK, CallInv
    <3>5. c \in conns[current] BY <3>2, <3>3, <3>4 DEF ConnsExact
    <3> QED BY <3>4, <3>5, <1>12 DEF ReplaceSwap, TypeOK
  <2>4. ConnsExact' /\ AuthInv'
    BY <1>12 DEF ReplaceSwap, ConnsExact, tracked, AuthInv, Authorised
  <2> QED BY <1>0, <2>1, <2>2, <2>3, <2>4
<1>13. ASSUME ReplaceClosed PROVE IInv'
  <2>1. StaleInv' BY <1>13 DEF TypeOK, ReplaceClosed, StaleInv, tracked
  <2>2. CallInv' /\ GenInv' /\ ConnsExact' /\ AuthInv'
    BY <1>13 DEF ReplaceClosed, CallInv, tracked, GenInv, ConnsExact, AuthInv, Authorised
  <2> QED BY <1>0, <2>1, <2>2
<1>14. ASSUME ReplaceShut PROVE IInv'
  <2>1. GenInv' BY <1>14 DEF TypeOK, ReplaceShut, GenInv
  <2>2. StaleInv' BY <1>14 DEF TypeOK, ReplaceShut, StaleInv, tracked
  <2>3. CallInv' /\ ConnsExact' /\ AuthInv'
    BY <1>14 DEF ReplaceShut, CallInv, tracked, ConnsExact, AuthInv, Authorised
  <2> QED BY <1>0, <2>1, <2>2, <2>3
<1>15. ASSUME NEW c \in Calls, ReplaceClose(c) PROVE IInv'
  <2>1. CallInv' BY <1>15 DEF TypeOK, ReplaceClose, enterClose, CallInv, tracked
  <2>2. ConnsExact' BY <1>15 DEF TypeOK, ReplaceClose, enterClose, ConnsExact, tracked
  <2>3. StaleInv' BY <1>15 DEF TypeOK, ReplaceClose, enterClose, StaleInv, tracked
  <2>4. AuthInv' BY <1>15 DEF TypeOK, ReplaceClose, enterClose, AuthInv, Authorised
  <2>5. GenInv'
    BY <1>15 DEF ReplaceClose, GenInv
  <2> QED BY <1>0, <2>1, <2>2, <2>3, <2>4, <2>5
<1>16. ASSUME NEW t \in Tunnels, TunnelUp(t) PROVE IInv'
  <2>1. GenInv' BY <1>16 DEF TypeOK, TunnelUp, GenInv
  <2>2. CallInv' /\ ConnsExact' /\ StaleInv' /\ AuthInv'
    BY <1>16 DEF TunnelUp, CallInv, tracked, ConnsExact, StaleInv, AuthInv, Authorised
  <2> QED BY <1>0, <2>1, <2>2
<1>17. ASSUME NEW t \in Tunnels, TunnelLost(t) PROVE IInv'
  <2>1. GenInv' BY <1>17 DEF TypeOK, TunnelLost, GenInv
  <2>2. CallInv' /\ ConnsExact' /\ StaleInv' /\ AuthInv'
    BY <1>17 DEF TunnelLost, CallInv, tracked, ConnsExact, StaleInv, AuthInv, Authorised
  <2> QED BY <1>0, <2>1, <2>2
<1>18. ASSUME NEW t \in Tunnels, TunnelDiscard(t) PROVE IInv'
  <2>1. GenInv' BY <1>18 DEF TypeOK, TunnelDiscard, GenInv
  <2>2. CallInv' /\ ConnsExact' /\ StaleInv' /\ AuthInv'
    BY <1>18 DEF TunnelDiscard, CallInv, tracked, ConnsExact, StaleInv, AuthInv, Authorised
  <2> QED BY <1>0, <2>1, <2>2
<1>19. ASSUME NEW t \in Tunnels \cup {None}, ReplaceCall(t) PROVE IInv'
  <2>1. GenInv' BY <1>19 DEF TypeOK, ReplaceCall, GenInv
  <2>2. StaleInv' BY <1>19 DEF TypeOK, ReplaceCall, StaleInv, tracked
  <2>3. CallInv' /\ ConnsExact' /\ AuthInv'
    BY <1>19 DEF ReplaceCall, CallInv, tracked, ConnsExact, AuthInv, Authorised
  <2> QED BY <1>0, <2>1, <2>2, <2>3
<1>20. CASE UNCHANGED vars
  BY <1>20 DEF vars, TypeOK, CallInv, GenInv, ConnsExact, StaleInv, AuthInv, Authorised, tracked
<1> QED
  BY <1>1, <1>2, <1>3, <1>4, <1>5, <1>6, <1>7, <1>8, <1>9, <1>10,
     <1>11, <1>12, <1>13, <1>14, <1>15, <1>16, <1>17, <1>18, <1>19, <1>20
  DEF Next, CallStep, CloseStep, ReplaceStep, TunnelStep

\* The inductive invariant holds in every reachable state.
THEOREM IInvariant == Spec => []IInv
<1>1. Init => IInv BY InitIInv
<1>2. IInv /\ [Next]_vars => IInv' BY IInvStep
<1> QED BY <1>1, <1>2, PTL DEF Spec

\* Whatever the ACLs and however calls, closes and replacements interleave, no
\* connection of an earlier generation is left once Replace has returned.
THEOREM Revoked == Spec => []RevokedOnReturn
<1>1. IInv => RevokedOnReturn BY DEF IInv, StaleInv, RevokedOnReturn
<1> QED BY <1>1, IInvariant, PTL

\* While Replace closes them, the open connections of earlier generations are
\* all in its list: none joins a generation after the list was made.
THEOREM Doomed == Spec => []OldConnsDoomed
<1>1. IInv => OldConnsDoomed BY DEF IInv, StaleInv, OldConnsDoomed, tracked
<1> QED BY <1>1, IInvariant, PTL

\* The table of a generation is exactly its live connections.
THEOREM TablesExact == Spec => []ConnsExact
<1>1. IInv => ConnsExact BY DEF IInv
<1> QED BY <1>1, IInvariant, PTL

\* Every connection was authorised by the ACL of the generation it belongs to.
THEOREM AllAuthorised == Spec => []Authorised
<1>1. IInv => Authorised BY DEF IInv, AuthInv
<1> QED BY <1>1, IInvariant, PTL

\* No failed dial leaves a connection open.
THEOREM NoLeak == Spec => []NoRawLeak
<1>1. IInv => NoRawLeak BY DEF IInv, CallInv, NoRawLeak
<1> QED BY <1>1, IInvariant, PTL

\* Retired tunnels are closed when Replace returns, the current one never is.
THEOREM TunnelsRetired == Spec => []RetiredTunnelsClosed
<1>1. IInv => RetiredTunnelsClosed BY DEF IInv, GenInv, RetiredTunnelsClosed
<1> QED BY <1>1, IInvariant, PTL

----------------------------------------------------------------------------
(* Of StaleDialsFail, the part that no fairness is needed for.             *)

\* A dial of a generation that was replaced is not over.
late(c) == dpc[c] \in {"dialing", "lock2", "settle"} /\ gen[c] # current

\* It stays late or fails as unavailable, and what it dialled is closed by then.
lateRejected ==
  \A c \in Calls : late(c) => late(c)' \/ (dpc'[c] = "unavailable" /\ conn'[c] \in {"none", "removed"})

\* No step of the call itself, and no replacement, makes a late dial succeed.
LEMMA LateStep == ASSUME IInv, IInv', Next PROVE lateRejected
<1> SUFFICES ASSUME NEW c \in Calls, late(c)
             PROVE  late(c)' \/ (dpc'[c] = "unavailable" /\ conn'[c] \in {"none", "removed"})
  BY DEF lateRejected
<1> USE DEF late, lockVars, dialVars, replaceVars
<1>t. /\ dpc \in [Calls -> DialPC] /\ gen \in [Calls -> Tunnels \cup {None}]
      /\ conn \in [Calls -> ConnState]
  BY DEF IInv, TypeOK
<1>g. gen[c] \in Tunnels /\ gen[c] \in cancelled
  BY BackendAssumption DEF IInv, CallInv
<1>c. gen[c] \in cancelled' => gen[c] # current'
  BY DEF IInv, GenInv
<1>1. ASSUME NEW d \in Calls, CallStep(d) PROVE late(c)' \/ (dpc'[c] = "unavailable" /\ conn'[c] \in {"none", "removed"})
  <2>1. CASE Settle(d)
    <3>1. CASE c = d
      <4>1. dpc'[c] = "unavailable" /\ closeLate(c)
        BY <1>t, <2>1, <3>1 DEF Settle
      <4> QED
        BY <1>t, <4>1 DEF IInv, CallInv
    <3>2. CASE c # d
      BY <1>t, <2>1, <3>2 DEF Settle
    <3> QED
      BY <3>1, <3>2
  <2>2. CASE Dial(d) \/ DialLock(d) \/ Admit(d) \/ DialReturn(d) \/ Expire(d) \/ CallerClose(d)
    BY <1>t, <2>2 DEF Dial, DialLock, Admit, DialReturn, Expire, CallerClose
  <2> QED
    BY <1>1, <2>1, <2>2 DEF CallStep
<1>2. ASSUME NEW d \in Calls, CloseStep(d) PROVE late(c)'
  BY <1>2 DEF CloseStep, CloseRaw, CloseLock, CloseDelete
<1>3. CASE ReplaceStep
  <2>1. UNCHANGED <<dpc, gen>> /\ gen[c] \in cancelled'
    BY <1>g, <1>3 DEF ReplaceStep, ReplaceLock, ReplaceSwap, ReplaceClosed, ReplaceShut, ReplaceClose
  <2> QED
    BY <1>c, <2>1
<1>4. ASSUME NEW t \in Tunnels, TunnelStep(t) PROVE late(c)'
  BY <1>4 DEF TunnelStep, TunnelUp, TunnelLost, TunnelDiscard
<1>5. ASSUME NEW t \in Tunnels \cup {None}, ReplaceCall(t) PROVE late(c)'
  BY <1>5 DEF ReplaceCall
<1> QED
  BY <1>1, <1>2, <1>3, <1>4, <1>5 DEF Next

\* backend.go: a dial that a replacement overtakes never joins a generation and
\* never reports anything but ErrUnavailable, whatever the tunnel answers, and
\* leaves nothing open.
THEOREM LateRejected == Spec => [][lateRejected]_vars
<1>1. IInv /\ IInv' /\ [Next]_vars => [lateRejected]_vars
  BY LateStep
<1> QED
  BY <1>1, IInvariant, PTL DEF Spec

----------------------------------------------------------------------------
(* Refinement.                                                             *)

\* The abstract links are a function on the calls, before and after a step.
LEMMA OnCalls ==
  absLink = [c \in Calls |-> absLink[c]] /\ absLink' = [c \in Calls |-> absLink'[c]]
  BY DEF absLink

\* Backend implements Revocation.  Publishing a connection is Connect, its raw
\* Close is Drop, the swap of Replace is Switch and its return is Revoked; every
\* other step is a stutter.
THEOREM ImplementsRevocation == Spec => AbsSpec
<1> USE BackendAssumption
<1>1. Init => Abs!AInit BY DEF Init, Abs!AInit, absLink, absOwner
<1>2. ASSUME IInv, IInv', [Next]_vars PROVE [Abs!ANext]_(Abs!avars)
  <2> USE <1>2 DEF IInv, TypeOK, lockVars, dialVars, replaceVars
  <2> DEFINE Stutter == UNCHANGED <<current, absLink, absOwner, rpc = "close">>
  <2>1. ASSUME NEW c \in Calls, Settle(c) PROVE Abs!Connect(c) \/ Stutter
    <3>1. CASE conn'[c] # "open"
      BY <2>1, <3>1 DEF Settle, stale, CallInv, absLink, absOwner
    <3>2. CASE conn'[c] = "open"
      <4>1. conn[c] = "raw" /\ dpc[c] = "settle" /\ gen[c] = current /\ current # None
        BY <2>1, <3>2 DEF Settle, stale, CallInv
      <4>2. dpc' = [dpc EXCEPT ![c] = "ok"] /\ conn' = [conn EXCEPT ![c] = "open"]
        BY <2>1, <3>2 DEF Settle, CallInv
      <4>3. UNCHANGED <<current, gen, rpc>> BY <2>1 DEF Settle
      <4>4. absLink[c] = "none" /\ absLink' = [absLink EXCEPT ![c] = "live"]
        <5>1. absLink[c] = "none" /\ absLink'[c] = "live" BY <4>1, <4>2 DEF absLink
        <5>2. \A d \in Calls \ {c} : absLink'[d] = absLink[d] BY <4>2 DEF absLink
        <5> QED BY <5>1, <5>2, OnCalls
      <4>5. absOwner' = [absOwner EXCEPT ![c] = current]
        BY <4>1, <4>2, <4>3 DEF absOwner
      <4> QED BY <4>1, <4>3, <4>4, <4>5 DEF Abs!Connect
    <3> QED BY <3>1, <3>2
  <2>2. ASSUME NEW c \in Calls, CloseRaw(c) PROVE Abs!Drop(c)
    <3>1. conn[c] = "closing" /\ dpc[c] = "ok" BY <2>2 DEF CloseRaw, CallInv, tracked
    <3>2. conn' = [conn EXCEPT ![c] = "closed"] /\ UNCHANGED <<current, dpc, gen, rpc>>
      BY <2>2 DEF CloseRaw
    <3>3. absLink[c] = "live" /\ absLink' = [absLink EXCEPT ![c] = "dead"]
      <4>1. absLink[c] = "live" /\ absLink'[c] = "dead" BY <3>1, <3>2 DEF absLink
      <4>2. \A d \in Calls \ {c} : absLink'[d] = absLink[d] BY <3>2 DEF absLink
      <4> QED BY <4>1, <4>2, OnCalls
    <3> QED BY <3>2, <3>3 DEF absOwner, Abs!Drop
  <2>3. ASSUME ReplaceSwap PROVE Abs!Switch(rarg)
    <3>1. rarg # None => \A c \in Calls : absOwner[c] # rarg
      BY <2>3 DEF ReplaceSwap, GenInv, CallInv, absOwner
    <3>2. /\ rpc = "swap" /\ rpc' = "close" /\ current' = rarg
          /\ UNCHANGED <<conn, dpc, gen>> /\ (rarg # None => rarg # current)
      BY <2>3 DEF ReplaceSwap, GenInv
    <3> QED BY <3>1, <3>2 DEF Abs!Switch, absLink, absOwner
  <2>4. ASSUME ReplaceShut PROVE Abs!Revoked
    <3>1. \A c \in Calls : absLink[c] = "live" => absOwner[c] = current
      BY <2>4 DEF ReplaceShut, StaleInv, CallInv, tracked, absLink, absOwner
    <3> QED BY <2>4, <3>1 DEF ReplaceShut, Abs!Revoked, absLink, absOwner
  <2>5. ASSUME NEW c \in Calls,
               \/ Dial(c) \/ DialLock(c) \/ Admit(c) \/ DialReturn(c) \/ Expire(c)
               \/ CallerClose(c) \/ CloseLock(c) \/ CloseDelete(c) \/ ReplaceClose(c)
        PROVE Stutter
    <3>1. UNCHANGED <<current, rpc>>
      BY <2>5 DEF Dial, DialLock, Admit, DialReturn, Expire, CallerClose, CloseLock, CloseDelete, ReplaceClose
    <3>2. absOwner' = absOwner
      <4>1. \A d \in Calls : (dpc'[d] = "ok" <=> dpc[d] = "ok") /\ (dpc[d] = "ok" => gen'[d] = gen[d])
        BY <2>5 DEF Dial, DialLock, Admit, DialReturn, Expire, CallerClose, CloseLock, CloseDelete, ReplaceClose
      <4> QED BY <4>1 DEF absOwner
    <3>3. absLink' = absLink
      <4>1. \A d \in Calls : /\ dpc'[d] = "ok" <=> dpc[d] = "ok"
                             /\ conn'[d] \in {"open", "closing"} <=> conn[d] \in {"open", "closing"}
        <5>1. CASE Dial(c) \/ DialLock(c) \/ Admit(c) \/ Expire(c)
          BY <5>1 DEF Dial, DialLock, Admit, Expire
        <5>2. CASE DialReturn(c) BY <5>2 DEF DialReturn, CallInv
        <5>3. CASE CallerClose(c) \/ ReplaceClose(c) BY <5>3 DEF CallerClose, ReplaceClose, enterClose
        <5>4. CASE CloseLock(c) \/ CloseDelete(c) BY <5>4 DEF CloseLock, CloseDelete
        <5> QED BY <2>5, <5>1, <5>2, <5>3, <5>4
      <4> QED BY <4>1 DEF absLink
    <3> QED BY <3>1, <3>2, <3>3
  <2>6. ASSUME ReplaceLock \/ ReplaceClosed PROVE Stutter
    BY <2>6 DEF ReplaceLock, ReplaceClosed, StaleInv, absLink, absOwner
  <2>7. ASSUME NEW t \in Tunnels, TunnelStep(t) PROVE Stutter
    BY <2>7 DEF TunnelStep, TunnelUp, TunnelLost, TunnelDiscard, absLink, absOwner
  <2>8. ASSUME NEW t \in Tunnels \cup {None}, ReplaceCall(t) PROVE Stutter
    BY <2>8 DEF ReplaceCall, absLink, absOwner
  <2>9. ASSUME UNCHANGED vars PROVE Stutter
    BY <2>9 DEF vars, absLink, absOwner
  <2> QED
    BY <2>1, <2>2, <2>3, <2>4, <2>5, <2>6, <2>7, <2>8, <2>9
    DEF Next, CallStep, CloseStep, ReplaceStep, Abs!ANext, Abs!avars
<1> QED BY <1>1, <1>2, IInvariant, PTL DEF Spec, AbsSpec, Abs!ASpec
============================================================================
