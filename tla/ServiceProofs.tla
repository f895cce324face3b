---------------------------- MODULE ServiceProofs ----------------------------
(***************************************************************************)
(* Theorems about Service: it implements the specifications of its two     *)
(* parts, so that what is proved of each holds of the whole, and from both *)
(* invariants follow the promises neither part can make alone.             *)
(* ServiceAssumption is what the assumptions of the two parts say.         *)
(***************************************************************************)
EXTENDS Service, TLAPS

SP == INSTANCE SupervisorProofs
BP == INSTANCE BackendProofs

----------------------------------------------------------------------------
(* The instances of the proof modules are the instances Service is made of. *)

\* Supervisor's specification is the one the theorems of SupervisorProofs are
\* about.
LEMMA SameSupervisor == S!Spec <=> SP!Spec
  BY DEF S!Spec, SP!Spec, S!Init, SP!Init,
    S!Next, SP!Next, S!RunStep, SP!RunStep, S!Top, SP!Top, S!Handshake, SP!Handshake,
    S!ConnectReturn, SP!ConnectReturn, S!AfterConnect, SP!AfterConnect, S!Published,
    SP!Published, S!ReadyDone, SP!ReadyDone, S!ReadyLost, SP!ReadyLost, S!Revoked, SP!Revoked,
    S!Fault, SP!Fault, S!LoginReturn, SP!LoginReturn, S!BackoffDone, SP!BackoffDone,
    S!BackoffOver, SP!BackoffOver, S!Stop, SP!Stop, S!Stopped, SP!Stopped, S!callReplace,
    SP!callReplace, S!closeUnpublished, SP!closeUnpublished, S!revoke, SP!revoke, S!nextDelay,
    SP!nextDelay, S!minimum, SP!minimum, S!maximum, SP!maximum, S!Replace, SP!Replace,
    S!EnvLock, SP!EnvLock, S!EnvSwap, SP!EnvSwap, S!EnvReturn, SP!EnvReturn, S!Cancel,
    SP!Cancel, S!Lose, SP!Lose, S!vars, SP!vars, S!runVars, SP!runVars, S!replaceVars,
    SP!replaceVars

\* Backend's specification is the one the theorems of BackendProofs are about.
LEMMA SameBackend == B!Spec <=> BP!Spec
  BY DEF B!Spec, BP!Spec, B!Init, BP!Init,
    B!Next, BP!Next, B!CallStep, BP!CallStep, B!CloseStep, BP!CloseStep, B!ReplaceStep,
    BP!ReplaceStep, B!TunnelStep, BP!TunnelStep, B!Dial, BP!Dial, B!DialLock, BP!DialLock,
    B!Admit, BP!Admit, B!DialReturn, BP!DialReturn, B!Settle, BP!Settle, B!Expire, BP!Expire,
    B!CallerClose, BP!CallerClose, B!CloseRaw, BP!CloseRaw, B!CloseLock, BP!CloseLock,
    B!CloseDelete, BP!CloseDelete, B!ReplaceCall, BP!ReplaceCall, B!ReplaceLock,
    BP!ReplaceLock, B!ReplaceSwap, BP!ReplaceSwap, B!ReplaceClose, BP!ReplaceClose,
    B!ReplaceClosed, BP!ReplaceClosed, B!ReplaceShut, BP!ReplaceShut, B!TunnelUp, BP!TunnelUp,
    B!TunnelLost, BP!TunnelLost, B!TunnelDiscard, BP!TunnelDiscard, B!alive, BP!alive,
    B!Ready, BP!Ready, B!permitted, BP!permitted, B!stale, BP!stale, B!closeLate,
    BP!closeLate, B!enterClose, BP!enterClose, B!forget, BP!forget, B!cancelOld, BP!cancelOld,
    B!oldConns, BP!oldConns, B!unlock, BP!unlock, B!closeReturned, BP!closeReturned,
    B!shutOld, BP!shutOld, B!DialPC, BP!DialPC, B!Results, BP!Results, B!lockVars,
    BP!lockVars, B!dialVars, BP!dialVars, B!replaceVars, BP!replaceVars, B!vars, BP!vars

----------------------------------------------------------------------------
(* Service implements Supervisor.                                          *)

\* A step of the Backend is a step of the Replace that Run sees, or is
\* invisible to Run; the other steps are Run's own or its environment's.
LEMMA SupervisorSteps == ASSUME [Next]_vars PROVE [S!Next]_(S!vars)
<1> USE DEF supervisorOnly, S!vars, S!runVars, S!replaceVars
<1>1. CASE BackendStep
  <2>1. CASE B!ReplaceStep
    BY <1>1, <2>1
    DEF BackendStep, B!ReplaceStep, B!ReplaceLock, B!ReplaceSwap, B!ReplaceClosed, B!ReplaceShut,
        B!ReplaceClose, B!shutOld, B!lockVars, B!dialVars,
        S!Next, S!Replace, S!EnvLock, S!EnvSwap, S!EnvReturn
  <2>2. ASSUME NEW c \in Calls, B!CallStep(c) \/ B!CloseStep(c) PROVE UNCHANGED S!vars
    BY <1>1, <2>2
    DEF BackendStep, B!CallStep, B!CloseStep, B!Dial, B!DialLock, B!Admit, B!DialReturn, B!Settle,
        B!Expire, B!CallerClose, B!CloseRaw, B!CloseLock, B!CloseDelete,
        B!lockVars, B!dialVars, B!replaceVars
  <2> QED BY <1>1, <2>1, <2>2 DEF BackendStep
<1>2. CASE SupervisorStep BY <1>2 DEF SupervisorStep, S!Next
<1>3. CASE Cancel BY <1>3 DEF Cancel, S!Next
<1>4. ASSUME NEW t \in Tunnels, Lose(t) PROVE S!Next BY <1>4 DEF Lose, S!Next
<1>5. CASE UNCHANGED vars BY <1>5 DEF vars
<1> QED BY <1>1, <1>2, <1>3, <1>4, <1>5 DEF Next

\* The Backend's Replace is what Run expects: Service implements Supervisor.
THEOREM ImplementsSupervisor == Spec => SupervisorSpec
<1>1. Init => S!Init BY DEF Init
<1>2. [Next]_vars => [S!Next]_(S!vars) BY SupervisorSteps
<1> QED BY <1>1, <1>2, PTL DEF Spec, SupervisorSpec, S!Spec

\* So Supervisor's inductive invariant holds of the service.
LEMMA SupervisorInvariant == Spec => []SP!SInv
<1>1. Spec => SP!Spec BY ImplementsSupervisor, SameSupervisor DEF SupervisorSpec
<1>2. SP!Spec => []SP!SInv BY ServiceAssumption, SP!SInvariant DEF SP!SupervisorAssumption
<1> QED BY <1>1, <1>2

----------------------------------------------------------------------------
(* Service implements Backend.                                             *)

\* Run opens a fresh tunnel, discards one that is not published, and calls
\* Replace when it is idle, with nil or with a tunnel that is live and not
\* published: Backend's environment, no more.
LEMMA BackendSteps == ASSUME SP!SInv, [Next]_vars PROVE [B!Next]_(B!vars)
<1> USE ServiceAssumption
    DEF backendOnly, B!vars, B!lockVars, B!dialVars, B!replaceVars, S!runVars, S!replaceVars
<1>1. CASE BackendStep BY <1>1 DEF BackendStep, B!Next
<1>2. CASE SupervisorStep
  <2> USE <1>2 DEF SupervisorStep
  <2>1. CASE \/ S!Top \/ S!Handshake \/ S!Published \/ S!ReadyDone \/ S!Revoked \/ S!Fault
             \/ S!LoginReturn \/ S!BackoffDone \/ S!BackoffOver \/ S!Stopped
    BY <2>1 DEF S!Top, S!Handshake, S!Published, S!ReadyDone, S!Revoked, S!Fault,
                S!LoginReturn, S!BackoffDone, S!BackoffOver, S!Stopped
  <2>2. CASE S!ConnectReturn
    BY <2>2 DEF S!ConnectReturn, B!Next, B!TunnelStep, B!TunnelUp
  <2>3. CASE S!AfterConnect
    <3> USE <2>3 DEF S!AfterConnect
    <3>1. /\ current = None /\ rpc = "idle"
          /\ IF err = "ok" THEN stun \in Tunnels /\ tun[stun] \in {"open", "lost"} ELSE stun = None
      BY DEF SP!SInv, SP!FailClosed, SP!RunInv, SP!live
    <3>2. CASE done /\ err = "ok"
      <4>1. stun \in Tunnels /\ stun # current /\ tun \in [Tunnels -> {"fresh", "open", "lost", "closed"}]
        BY <3>1, <3>2 DEF SP!SInv, SP!TypeOK
      <4>2. tun' = [tun EXCEPT ![stun] = "closed"]
        BY <3>2, <4>1 DEF S!closeUnpublished
      <4> QED BY <3>1, <3>2, <4>1, <4>2 DEF B!Next, B!TunnelStep, B!TunnelDiscard
    <3>3. CASE done /\ err # "ok"
      <4>1. tun' = tun
        BY <3>1, <3>3 DEF S!closeUnpublished, SP!SInv, SP!TypeOK
      <4> QED BY <3>3, <4>1
    <3>4. CASE ~done /\ err = "ok"
      BY <3>1, <3>4 DEF S!callReplace, B!Next, B!ReplaceCall
    <3>5. CASE ~done /\ err # "ok"
      BY <3>5
    <3> QED BY <3>2, <3>3, <3>4, <3>5
  <2>4. CASE S!ReadyLost
    BY <2>4 DEF S!ReadyLost, S!revoke, S!callReplace, B!Next, B!ReplaceCall
  <2>5. CASE S!Stop
    BY <2>5 DEF S!Stop, S!callReplace, B!Next, B!ReplaceCall
  <2> QED BY <2>1, <2>2, <2>3, <2>4, <2>5 DEF S!RunStep
<1>3. CASE Cancel BY <1>3 DEF Cancel, S!Cancel
<1>4. ASSUME NEW t \in Tunnels, Lose(t) PROVE B!Next
  BY <1>4 DEF Lose, S!Lose, B!Next, B!TunnelStep, B!TunnelLost
<1>5. CASE UNCHANGED vars BY <1>5 DEF vars
<1> QED BY <1>1, <1>2, <1>3, <1>4, <1>5 DEF Next

\* Run calls Replace the way the Backend needs: Service implements Backend.
THEOREM ImplementsBackend == Spec => BackendSpec
<1>1. Init => B!Init BY DEF Init
<1>2. SP!SInv /\ [Next]_vars => [B!Next]_(B!vars) BY BackendSteps
<1> QED BY <1>1, <1>2, SupervisorInvariant, PTL DEF Spec, BackendSpec, B!Spec

\* So Backend's inductive invariant holds of the service.
LEMMA BackendInvariant == Spec => []BP!IInv
<1>1. Spec => BP!Spec BY ImplementsBackend, SameBackend DEF BackendSpec
<1>2. BP!Spec => []BP!IInv BY ServiceAssumption, BP!IInvariant DEF BP!BackendAssumption
<1> QED BY <1>1, <1>2

----------------------------------------------------------------------------
(* What neither part can promise alone.                                    *)

\* While Replace closes, a tracked connection belongs to the generation just
\* retired or to the one just published: older ones were closed before.
OldInv ==
  rpc = "close" => \A c \in Calls : B!tracked(c) => gen[c] \in {current, old}

\* The states that report the VPN down are announced only when nothing is
\* published, and last until Run connects again or stops.
DownInv ==
  state \in {"NeedsLogin", "Reconnecting"} =>
    current = None /\ rpc = "idle" /\ spc \in {"login", "backoff", "top", "stop"}

\* No Replace is closing and nothing is down at the start.
LEMMA InitService == ASSUME Init PROVE OldInv /\ DownInv
  BY DEF Init, B!Init, S!Init, OldInv, DownInv

\* A step keeps OldInv: a connection joins only the current generation, and
\* when Replace swaps, every tracked connection belongs to the one it retires.
LEMMA OldStep == ASSUME BP!IInv, OldInv, [Next]_vars PROVE OldInv'
<1> SUFFICES ASSUME rpc' = "close", NEW c \in Calls, B!tracked(c)'
             PROVE  gen'[c] \in {current', old'}
  BY DEF OldInv, B!tracked
<1>t. /\ dpc \in [Calls -> B!DialPC] /\ gen \in [Calls -> Tunnels \cup {None}]
      /\ conn \in [Calls -> B!ConnState]
  BY DEF BP!IInv, BP!TypeOK, BP!DialPC, BP!Results, BP!ConnState, B!DialPC, B!Results, B!ConnState
<1>i. /\ dpc[c] = "admit" => conn[c] = "none"
      /\ B!tracked(c) /\ gen[c] # current => rpc = "close"
  BY DEF BP!IInv, BP!CallInv, BP!StaleInv, BP!tracked, B!tracked
<1> USE <1>t DEF B!tracked, OldInv
<1>1. CASE BackendStep
  <2>1. ASSUME NEW d \in Calls, B!CallStep(d) PROVE gen'[c] \in {current', old'}
    <3>1. UNCHANGED <<rpc, current, old>>
      BY <2>1 DEF B!CallStep, B!Dial, B!DialLock, B!Admit, B!DialReturn, B!Settle, B!Expire,
                  B!CallerClose, B!lockVars, B!replaceVars
    <3>2. CASE B!Admit(d)
      BY <3>1, <3>2, <1>i DEF B!Admit
    <3>3. CASE B!Settle(d)
      <4>1. c # d \/ ~B!stale(d) => B!tracked(c) \/ gen[c] = current
        BY <3>3 DEF B!Settle, B!stale, B!closeLate
      <4>2. c = d => ~B!stale(d)
        BY <3>3, <1>i DEF B!Settle, B!closeLate, BP!IInv, BP!CallInv
      <4> QED BY <3>1, <3>3, <4>1, <4>2 DEF B!Settle
    <3>4. CASE B!Dial(d) \/ B!DialLock(d) \/ B!DialReturn(d) \/ B!Expire(d) \/ B!CallerClose(d)
      BY <3>1, <3>4 DEF B!Dial, B!DialLock, B!DialReturn, B!Expire, B!CallerClose, B!enterClose,
                        B!dialVars
    <3> QED BY <2>1, <3>2, <3>3, <3>4 DEF B!CallStep
  <2>2. ASSUME NEW d \in Calls, B!CloseStep(d) PROVE gen'[c] \in {current', old'}
    BY <2>2 DEF B!CloseStep, B!CloseRaw, B!CloseLock, B!CloseDelete, B!lockVars, B!dialVars,
                B!replaceVars
  <2>3. CASE B!ReplaceSwap
    BY <2>3, <1>i DEF B!ReplaceSwap, B!dialVars
  <2>4. CASE B!ReplaceLock \/ B!ReplaceClosed \/ B!ReplaceShut \/ \E d \in Calls : B!ReplaceClose(d)
    BY <2>4 DEF B!ReplaceLock, B!ReplaceClosed, B!ReplaceShut, B!ReplaceClose, B!enterClose,
                B!lockVars, B!dialVars
  <2> QED BY <1>1, <2>1, <2>2, <2>3, <2>4 DEF BackendStep, B!ReplaceStep
<1>2. CASE SupervisorStep
  <2>1. rpc = "close" /\ UNCHANGED <<current, old>>
    BY <1>2 DEF SupervisorStep, S!RunStep, S!Top, S!Handshake, S!ConnectReturn, S!AfterConnect,
                S!Published, S!ReadyDone, S!ReadyLost, S!Revoked, S!Fault, S!LoginReturn,
                S!BackoffDone, S!BackoffOver, S!Stop, S!Stopped, S!callReplace, S!revoke,
                S!replaceVars
  <2> QED BY <1>2, <2>1 DEF SupervisorStep, backendOnly
<1>3. CASE Cancel \/ UNCHANGED vars \/ \E t \in Tunnels : Lose(t)
  BY <1>3 DEF Cancel, S!Cancel, Lose, S!Lose, vars, backendOnly, S!replaceVars
<1> QED BY <1>1, <1>2, <1>3 DEF Next

\* A step keeps DownInv: Run calls Replace from other states, and Replace does
\* nothing while it is idle.
LEMMA DownStep == ASSUME SP!SInv, DownInv, [Next]_vars PROVE DownInv'
<1> USE DEF DownInv
<1>1. CASE BackendStep
  BY <1>1 DEF BackendStep, supervisorOnly, B!ReplaceStep, B!ReplaceLock, B!ReplaceSwap,
              B!ReplaceClosed, B!ReplaceShut, B!ReplaceClose, B!CallStep, B!CloseStep, B!Dial,
              B!DialLock, B!Admit, B!DialReturn, B!Settle, B!Expire, B!CallerClose, B!CloseRaw,
              B!CloseLock, B!CloseDelete, B!lockVars, B!replaceVars, SP!SInv, SP!TypeOK
<1>2. CASE SupervisorStep
  BY <1>2 DEF SupervisorStep, S!RunStep, S!Top, S!Handshake, S!ConnectReturn, S!AfterConnect,
              S!Published, S!ReadyDone, S!ReadyLost, S!Revoked, S!Fault, S!LoginReturn,
              S!BackoffDone, S!BackoffOver, S!Stop, S!Stopped, S!callReplace, S!replaceVars,
              SP!SInv, SP!FailClosed
<1>3. CASE Cancel \/ UNCHANGED vars \/ \E t \in Tunnels : Lose(t)
  BY <1>3 DEF Cancel, S!Cancel, Lose, S!Lose, vars, supervisorOnly, S!replaceVars, S!runVars
<1> QED BY <1>1, <1>2, <1>3 DEF Next

\* The two parts' invariants and what relates them hold together.
LEMMA ServiceInvariant == Spec => [](SP!SInv /\ BP!IInv /\ OldInv /\ DownInv)
<1>1. Init => OldInv /\ DownInv BY InitService
<1>2. SP!SInv /\ BP!IInv /\ OldInv /\ DownInv /\ [Next]_vars => (OldInv /\ DownInv)'
  BY OldStep, DownStep
<1> QED BY <1>1, <1>2, SupervisorInvariant, BackendInvariant, PTL DEF Spec

\* A tracked connection belongs to a tunnel, and outside the closing loop of
\* Replace to the published one.
LEMMA TrackedCurrent ==
  ASSUME BP!IInv, NEW c \in Calls, B!tracked(c)
  PROVE  gen[c] \in Tunnels /\ (rpc # "close" => gen[c] = current)
  BY DEF BP!IInv, BP!CallInv, BP!StaleInv, BP!tracked, B!tracked

\* While the user is told that the VPN is down no connection carries data, for
\* any number of requests, sessions and destinations.
THEOREM DownMeansDown == Spec => []NoTrafficWhenDown
<1>1. ASSUME SP!SInv, BP!IInv, DownInv PROVE NoTrafficWhenDown
  <2> SUFFICES ASSUME state = "NeedsLogin" \/ state = "Reconnecting" \/ spc = "connect",
                      NEW c \in Calls, B!tracked(c)
               PROVE  FALSE
    BY DEF NoTrafficWhenDown
  <2>1. current = None /\ rpc = "idle" BY <1>1 DEF DownInv, SP!SInv, SP!FailClosed
  <2> QED BY <1>1, <2>1, TrackedCurrent, ServiceAssumption
<1> QED BY <1>1, ServiceInvariant, PTL

\* No two clients are ever served under two generations.
THEOREM SingleGeneration == Spec => []OneGeneration
<1>1. ASSUME SP!SInv, BP!IInv, OldInv PROVE OneGeneration
  <2> SUFFICES ASSUME NEW c \in Calls, NEW d \in Calls, B!tracked(c), B!tracked(d)
               PROVE  gen[c] = gen[d]
    BY DEF OneGeneration
  <2>1. gen[c] \in Tunnels /\ gen[d] \in Tunnels BY <1>1, TrackedCurrent
  <2>2. CASE rpc # "close" BY <1>1, <2>2, TrackedCurrent
  <2>3. CASE rpc = "close"
    <3>1. gen[c] \in {current, old} /\ gen[d] \in {current, old} BY <1>1, <2>3 DEF OldInv
    <3>2. current = None \/ old = None BY <1>1, <2>3 DEF SP!SInv, SP!CallInv
    <3> QED BY <2>1, <3>1, <3>2, ServiceAssumption
  <2> QED BY <2>2, <2>3
<1> QED BY <1>1, ServiceInvariant, PTL

\* When Run has returned nothing is left: no connection, no tunnel.
THEOREM StopsClean == Spec => []StoppedClean
<1>1. ASSUME SP!SInv, BP!IInv PROVE StoppedClean
  <2> SUFFICES ASSUME spc = "stopped" PROVE StoppedClean BY DEF StoppedClean
  <2>1. current = None /\ rpc = "idle" BY <1>1 DEF SP!SInv, SP!CallInv, SP!RunInv
  <2>2. \A c \in Calls : ~B!tracked(c) BY <1>1, <2>1, TrackedCurrent, ServiceAssumption
  <2>3. \A t \in Tunnels : tun[t] \in {"fresh", "closed"}
    BY <1>1, <2>1, ServiceAssumption DEF SP!SInv, SP!HeldInv, SP!TypeOK, SP!live
  <2> QED BY <2>1, <2>2, <2>3 DEF StoppedClean
<1> QED BY <1>1, ServiceInvariant, PTL

----------------------------------------------------------------------------
(* What both parts promise holds of the service.                           *)

\* The two instances of the abstract specification are one.
LEMMA SameRevocation == B!AbsSpec <=> BP!AbsSpec
  BY DEF B!AbsSpec, BP!AbsSpec, B!Abs!ASpec, BP!Abs!ASpec, B!Abs!AInit, BP!Abs!AInit,
    B!Abs!ANext, BP!Abs!ANext, B!Abs!avars, BP!Abs!avars, B!Abs!Connect, BP!Abs!Connect,
    B!Abs!Drop, BP!Abs!Drop, B!Abs!Switch, BP!Abs!Switch, B!Abs!Revoked, BP!Abs!Revoked,
    B!absLink, BP!absLink, B!absOwner, BP!absOwner

\* From Ctrl-C down to the locks of the Backend, the service implements
\* Revocation: every step of Run, of a request or of the network is a
\* connection, a drop, a switch, its end, or nothing a client can observe.
THEOREM ServiceRevokes == Spec => B!AbsSpec
<1>1. Spec => BP!Spec BY ImplementsBackend, SameBackend DEF BackendSpec
<1>2. BP!Spec => BP!AbsSpec BY ServiceAssumption, BP!ImplementsRevocation DEF BP!BackendAssumption
<1> QED BY <1>1, <1>2, SameRevocation

\* Connections are authorised by their own generation, no failed dial leaves
\* one open, and the account has one VPN session, published or not, all at once.
THEOREM KeepsPromises == Spec => [](B!Authorised /\ B!NoRawLeak /\ B!RetiredTunnelsClosed /\ S!OneTunnel)
<1>1. ASSUME BP!IInv, SP!SInv
      PROVE  B!Authorised /\ B!NoRawLeak /\ B!RetiredTunnelsClosed /\ S!OneTunnel
  <2>1. B!Authorised
    BY <1>1 DEF BP!IInv, BP!AuthInv, BP!Authorised, B!Authorised
  <2>2. B!NoRawLeak
    BY <1>1 DEF BP!IInv, BP!CallInv, BP!Results, B!Results, B!NoRawLeak
  <2>3. B!RetiredTunnelsClosed
    BY <1>1 DEF BP!IInv, BP!GenInv, B!RetiredTunnelsClosed
  <2>4. S!OneTunnel
    BY <1>1, ServiceAssumption, SP!OneHolder DEF SP!SupervisorAssumption, SP!OneTunnel, S!OneTunnel, SP!live, S!live
  <2> QED
    BY <2>1, <2>2, <2>3, <2>4
<1> QED BY <1>1, ServiceInvariant, PTL
===============================================================================
