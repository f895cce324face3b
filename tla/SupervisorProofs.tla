-------------------------- MODULE SupervisorProofs --------------------------
(***************************************************************************)
(* Theorems about Supervisor, for any number of sessions and any bounds of *)
(* the backoff: its inductive invariant SInv, and from it that no session  *)
(* leaks, that nothing is published outside Ready, and that failures never *)
(* shorten the backoff.                                                    *)
(***************************************************************************)
EXTENDS Supervisor, TLAPS

\* The defaults make the bounds of the backoff positive.
LEMMA Bounds == minimum \in Nat \ {0} /\ maximum \in Nat \ {0}
  BY SupervisorAssumption DEF minimum, maximum

\* Doubling keeps the delay between 1 and the larger bound.
LEMMA NextDelayBounded ==
  ASSUME delay \in 1..(IF maximum < minimum THEN minimum ELSE maximum)
  PROVE  nextDelay \in 1..(IF maximum < minimum THEN minimum ELSE maximum)
  BY Bounds DEF nextDelay

\* Initially nothing is published and every tunnel is fresh.
LEMMA InitSInv == ASSUME Init PROVE SInv
<1>1. minimum \in 1..(IF maximum < minimum THEN minimum ELSE maximum) BY Bounds
<1>2. TypeOK BY <1>1, SupervisorAssumption DEF Init, TypeOK, States
<1> QED BY <1>2 DEF Init, SInv, FailClosed, HeldInv, CallInv, RunInv, live

\* Every step of Run, of Replace and of the environment keeps SInv.
LEMMA SInvStep == ASSUME SInv, [Next]_vars PROVE SInv'
<1> USE SupervisorAssumption
        DEF SInv, TypeOK, States, FailClosed, HeldInv, CallInv, RunInv, live, runVars, replaceVars
<1> DEFINE Delays == 1..(IF maximum < minimum THEN minimum ELSE maximum)
<1>0. minimum \in Delays /\ nextDelay \in Delays BY Bounds, NextDelayBounded
<1>d. delay \in Delays OBVIOUS
<1> HIDE DEF Delays
<1>1. CASE Top
  BY <1>1, <1>d DEF Top, Delays
<1>2. CASE Handshake
  BY <1>2 DEF Handshake
<1>3. CASE ConnectReturn
  BY <1>3 DEF ConnectReturn
<1>4. CASE AfterConnect
  BY <1>4 DEF AfterConnect, closeUnpublished, callReplace
<1>5. CASE Published
  BY <1>5 DEF Published
<1>6. CASE ReadyDone
  BY <1>6 DEF ReadyDone
<1>7. CASE ReadyLost
  BY <1>7 DEF ReadyLost, revoke, callReplace
<1>8. CASE Revoked
  BY <1>8, <1>0 DEF Revoked, Delays
<1>9. CASE Fault
  BY <1>9 DEF Fault
<1>10. CASE LoginReturn
  BY <1>10, <1>0 DEF LoginReturn, Delays
<1>11. CASE BackoffDone
  BY <1>11 DEF BackoffDone
<1>12. CASE BackoffOver
  BY <1>12, <1>0 DEF BackoffOver, Delays
<1>13. CASE Stop
  BY <1>13 DEF Stop, callReplace
<1>14. CASE Stopped
  BY <1>14 DEF Stopped
<1>15. CASE Replace
  <2>1. CASE EnvLock BY <2>1 DEF EnvLock
  <2>2. CASE EnvSwap BY <2>2 DEF EnvSwap
  <2>3. CASE EnvReturn BY <2>3 DEF EnvReturn
  <2> QED BY <1>15, <2>1, <2>2, <2>3 DEF Replace
<1>16. CASE Cancel
  BY <1>16 DEF Cancel
<1>17. ASSUME NEW t \in Tunnels, Lose(t) PROVE SInv'
  BY <1>17 DEF Lose
<1>18. CASE UNCHANGED vars
  BY <1>18 DEF vars
<1> QED
  BY <1>1, <1>2, <1>3, <1>4, <1>5, <1>6, <1>7, <1>8, <1>9, <1>10, <1>11, <1>12, <1>13, <1>14,
     <1>15, <1>16, <1>17, <1>18
  DEF Next, RunStep

\* The inductive invariant holds in every reachable state.
THEOREM SInvariant == Spec => []SInv
<1>1. Init => SInv BY InitSInv
<1>2. SInv /\ [Next]_vars => SInv' BY SInvStep
<1> QED BY <1>1, <1>2, PTL DEF Spec

\* Two live tunnels would have two holders, and in no state are there two.
LEMMA OneHolder == ASSUME SInv PROVE OneTunnel
<1> SUFFICES ASSUME NEW t \in Tunnels, NEW u \in Tunnels \ {t}, live(t), live(u)
             PROVE FALSE
  BY DEF OneTunnel, live, SInv, TypeOK, HeldInv
<1> USE SupervisorAssumption DEF SInv, HeldInv
<1>1. CASE spc = "connected"
  BY <1>1 DEF FailClosed
<1>2. CASE spc = "publish"
  BY <1>2 DEF CallInv, TypeOK
<1>3. CASE spc \in {"revoke", "stopping"}
  BY <1>3 DEF CallInv, TypeOK
<1>4. CASE spc \notin {"connected", "publish", "revoke", "stopping"}
  BY <1>4 DEF CallInv
<1> QED BY <1>1, <1>2, <1>3, <1>4

\* No session leaks: at most one tunnel is not closed, whatever Connect
\* returns and whenever ctx ends.
THEOREM NoSessionLeaks == Spec => []OneTunnel
<1>1. SInv => OneTunnel BY OneHolder
<1> QED BY <1>1, SInvariant, PTL

\* Nothing is published while Run connects, backs off or waits for a login.
THEOREM FailsClosed == Spec => []FailClosed
<1>1. SInv => FailClosed BY DEF SInv
<1> QED BY <1>1, SInvariant, PTL

\* With a minimum that does not exceed the maximum, failures never shorten the
\* delay.  A minimum above 30 s without a maximum is not of this kind.
THEOREM BackoffMonotone == minimum <= maximum => (Spec => BackoffGrows)
<1> SUFFICES ASSUME minimum <= maximum PROVE Spec => BackoffGrows
  OBVIOUS
<1>1. SInv /\ [Next]_vars => [delay' < delay => spc \in {"login", "revoke"}]_vars
  <2> SUFFICES ASSUME SInv, Next, delay' < delay PROVE spc \in {"login", "revoke"}
    OBVIOUS
  <2>1. delay \in Nat /\ delay <= maximum BY Bounds DEF SInv, TypeOK
  <2>2. nextDelay >= delay BY <2>1, Bounds DEF nextDelay
  <2>3. delay' = delay \/ BackoffOver \/ LoginReturn \/ Revoked
    BY DEF Next, RunStep, Top, Handshake, ConnectReturn, AfterConnect, Published, ReadyDone,
           ReadyLost, Fault, BackoffDone, Stop, Stopped, Replace, EnvLock, EnvSwap, EnvReturn,
           Cancel, Lose, runVars
  <2> QED BY <2>1, <2>2, <2>3, Bounds DEF BackoffOver, LoginReturn, Revoked, nextDelay
<1> QED BY <1>1, SInvariant, PTL DEF Spec, BackoffGrows

----------------------------------------------------------------------------
(* Run ends after Ctrl-C: of what Terminates needs of Run, the part that no *)
(* fairness is needed for.                                                 *)

\* The steps of a call of Replace that are left, and n more.
replaceLeft(n) ==
  IF rpc = "lock" THEN n + 3 ELSE IF rpc = "swap" THEN n + 2 ELSE IF rpc = "close" THEN n + 1 ELSE n

\* The steps of Run that are left at most once ctx is done: wherever it is, it
\* begins no connect, calls Replace at most twice, and returns.
stopLeft ==
  IF spc = "stopped" THEN 0
  ELSE IF spc = "stopping" THEN replaceLeft(1)
  ELSE IF spc = "stop" THEN 5
  ELSE IF spc \in {"top", "connected"} THEN 6
  ELSE IF spc \in {"login", "backoff"} THEN 7
  ELSE IF spc = "connect" THEN IF state = "Connecting" THEN 7 ELSE 8
  ELSE IF spc = "fault" THEN 8
  ELSE IF spc = "revoke" THEN replaceLeft(9)
  ELSE IF spc = "ready" THEN 13
  ELSE replaceLeft(14)

\* Every step after ctx is done leaves fewer; the loss of a tunnel as many.
stopNearer == done => stopLeft' < stopLeft \/ (UNCHANGED stopLeft /\ \E t \in Tunnels : Lose(t))

\* Action by action.
LEMMA StopStep == ASSUME SInv, Next PROVE stopNearer
<1> SUFFICES ASSUME done PROVE stopLeft' < stopLeft \/ (UNCHANGED stopLeft /\ \E t \in Tunnels : Lose(t))
  BY DEF stopNearer
<1>1. rpc \in {"idle", "lock", "swap", "close"} /\ (rpc = "idle" \/ spc \in {"publish", "revoke", "stopping"})
  BY DEF SInv, TypeOK, CallInv
<1> USE DEF stopLeft, replaceLeft, replaceVars, runVars
<1>2. ASSUME Top \/ Handshake \/ ConnectReturn \/ AfterConnect PROVE stopLeft' < stopLeft
  <2>1. CASE Top
    BY <2>1 DEF Top
  <2>2. CASE Handshake
    <3>1. stopLeft = 8 /\ stopLeft' = 7
      BY <2>2 DEF Handshake
    <3> QED
      BY <3>1
  <2>3. CASE ConnectReturn
    <3>1. stopLeft \in {7, 8} /\ stopLeft' = 6
      BY <2>3 DEF ConnectReturn
    <3> QED
      BY <3>1
  <2>4. CASE AfterConnect
    <3>1. stopLeft = 6 /\ stopLeft' = 5
      BY <2>4 DEF AfterConnect
    <3> QED
      BY <3>1
  <2> QED
    BY <1>2, <2>1, <2>2, <2>3, <2>4
<1>3. ASSUME Published \/ ReadyDone \/ ReadyLost \/ Revoked PROVE stopLeft' < stopLeft
  <2>1. CASE Published
    <3>1. stopLeft = 14 /\ stopLeft' = 13
      BY <1>1, <2>1 DEF Published
    <3> QED
      BY <3>1
  <2>2. CASE ReadyDone
    <3>1. stopLeft = 13 /\ stopLeft' = 5
      BY <1>1, <2>2 DEF ReadyDone
    <3> QED
      BY <3>1
  <2>3. CASE ReadyLost
    <3>1. stopLeft = 13 /\ stopLeft' = 12
      BY <1>1, <2>3 DEF ReadyLost, revoke, callReplace
    <3> QED
      BY <3>1
  <2>4. CASE Revoked
    <3>1. stopLeft = 9 /\ stopLeft' = 8
      BY <1>1, <2>4 DEF Revoked
    <3> QED
      BY <3>1
  <2> QED
    BY <1>3, <2>1, <2>2, <2>3, <2>4
<1>4. ASSUME Fault \/ LoginReturn \/ BackoffDone \/ BackoffOver PROVE stopLeft' < stopLeft
  <2>1. <<stopLeft, stopLeft'>> \in {<<8, 7>>, <<7, 6>>, <<7, 5>>}
    BY <1>1, <1>4 DEF Fault, LoginReturn, BackoffDone, BackoffOver
  <2> QED
    BY <2>1
<1>5. ASSUME Stop \/ Stopped PROVE stopLeft' < stopLeft
  <2>1. CASE Stop
    <3>1. stopLeft = 5 /\ stopLeft' = 4
      BY <2>1 DEF Stop, callReplace
    <3> QED
      BY <3>1
  <2>2. CASE Stopped
    <3>1. stopLeft = 1 /\ stopLeft' = 0
      BY <2>2 DEF Stopped
    <3> QED
      BY <3>1
  <2> QED
    BY <1>5, <2>1, <2>2
<1>6. ASSUME Replace PROVE stopLeft' < stopLeft
  <2>1. \E n \in {1, 9, 14} : <<stopLeft, stopLeft'>> \in {<<n + 3, n + 2>>, <<n + 2, n + 1>>, <<n + 1, n>>}
    BY <1>1, <1>6 DEF Replace, EnvLock, EnvSwap, EnvReturn, SInv, TypeOK
  <2> QED
    BY <2>1
<1>7. ASSUME NEW t \in Tunnels, Lose(t) PROVE UNCHANGED stopLeft
  <2>1. UNCHANGED <<spc, state, rpc>>
    BY <1>7 DEF Lose
  <2> QED
    BY <2>1, Zenon
<1>8. ~Cancel
  BY DEF Cancel
<1> QED
  BY <1>2, <1>3, <1>4, <1>5, <1>6, <1>7, <1>8 DEF Next, RunStep

\* supervisor.go: after Ctrl-C, Run takes at most seventeen steps more, those
\* of Replace included, whatever it was doing and whatever Connect returns.
THEOREM StopsInSteps == Spec => [](stopLeft \in 0..17) /\ [][stopNearer]_vars
<1>1. SInv /\ [Next]_vars => [stopNearer]_vars
  BY StopStep
<1>2. stopLeft \in 0..17
  BY DEF stopLeft, replaceLeft
<1> QED
  BY <1>1, <1>2, SInvariant, PTL DEF Spec
=============================================================================
