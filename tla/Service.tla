------------------------------ MODULE Service ------------------------------
(***************************************************************************)
(* The service of cmd/securelink2socks serve: one Supervisor goroutine and *)
(* the SOCKS requests, meeting in one Backend.  The supervisor's calls of  *)
(* Replace are the Backend's, a tunnel is opened and discarded by the      *)
(* supervisor only, and the end of ctx reaches every request.              *)
(***************************************************************************)
EXTENDS Integers

CONSTANTS Calls, Tunnels, Targets, Domains, Allow, MinBackoff, MaxBackoff, None

ASSUME ServiceAssumption ==
  /\ Domains \subseteq Targets
  /\ Allow \in [Tunnels -> SUBSET Targets]
  /\ None \notin Tunnels \cup Targets \cup Calls
  /\ MinBackoff \in Int /\ MaxBackoff \in Int

VARIABLES mu, current, conns, cancelled, tun, dpc, dest, gen, expired, conn,
          rpc, rarg, old, rpend, rwait,      \* Backend
          spc, stun, err, delay, state, done \* Supervisor

B == INSTANCE Backend
S == INSTANCE Supervisor

backendOnly == <<mu, conns, cancelled, dpc, dest, gen, expired, conn, rpend, rwait>>
supervisorOnly == <<spc, stun, err, delay, state, done>>
vars == <<backendOnly, current, tun, rpc, rarg, old, supervisorOnly>>

Init == B!Init /\ S!Init

\* A goroutine of the Backend moves: a request, a closer, or Replace.
BackendStep ==
  /\ B!ReplaceStep \/ \E c \in Calls : B!CallStep(c) \/ B!CloseStep(c)
  /\ UNCHANGED supervisorOnly

\* Run moves; calling Replace is part of its step.
SupervisorStep == S!RunStep /\ UNCHANGED backendOnly

\* Ctrl-C, a signal, or an Accept error that ends Serve.
Cancel == S!Cancel /\ UNCHANGED backendOnly

\* The server, the network or a PUSH update ends the session.
Lose(t) == S!Lose(t) /\ UNCHANGED backendOnly

Next == BackendStep \/ SupervisorStep \/ Cancel \/ \E t \in Tunnels : Lose(t)

Spec == Init /\ [][Next]_vars

\* The steps of the goroutine of Replace, and of request c with whoever closes
\* its connection; a dial returns when its ctx is done.
replacing == B!ReplaceSwap \/ B!ReplaceClosed \/ B!ReplaceShut \/ \E c \in Calls : B!ReplaceClose(c)
requesting(c) == \/ B!Admit(c) \/ B!Settle(c) \/ (B!dialDone(c) /\ B!DialReturn(c))
                 \/ B!CloseRaw(c) \/ B!CloseDelete(c)

(* Every goroutine is scheduled, timers fire, Connect returns, and the     *)
(* mutex starves nobody.                                                   *)
Fairness ==
  /\ WF_vars(SupervisorStep /\ (spc = "login" => done))
  /\ WF_vars(replacing /\ UNCHANGED supervisorOnly)
  /\ SF_vars(B!ReplaceLock /\ UNCHANGED supervisorOnly)
  /\ \A c \in Calls :
       /\ WF_vars(requesting(c) /\ UNCHANGED supervisorOnly)
       /\ SF_vars((B!DialLock(c) \/ B!CloseLock(c)) /\ UNCHANGED supervisorOnly)

FairSpec == Spec /\ Fairness

----------------------------------------------------------------------------
(* Properties of the whole.                                                *)

\* While the user is told that the VPN is down, no connection carries data:
\* outside Ready (and the instants of publishing and revoking) every
\* connection ever handed to a client is gone.
NoTrafficWhenDown ==
  \/ state = "NeedsLogin" \/ state = "Reconnecting" \/ spc = "connect"
  => \A c \in Calls : ~B!tracked(c)

\* One generation at a time: two clients never exchange data under two
\* different tunnels, although the Backend alone would let them while Replace
\* closes the older connections.
OneGeneration ==
  \A c, d \in Calls : B!tracked(c) /\ B!tracked(d) => gen[c] = gen[d]

\* When Run has returned no connection is left, no tunnel is left open, and no
\* dial still under way can produce one.
StoppedClean ==
  spc = "stopped" =>
    /\ \A c \in Calls : ~B!tracked(c)
    /\ \A t \in Tunnels : tun[t] \in {"fresh", "closed"}
    /\ current = None

\* The Supervisor calls Replace the way the Backend needs: one call at a time,
\* each tunnel once; and everything proved of the Backend holds here.
BackendSpec == B!Spec

\* The Backend's Replace is what Run expects of it.
SupervisorSpec == S!Spec

\* What Backend promises of late dials and of closes holds in the service.
StaleDialsFail == B!StaleDialsFail
CloseCompletes == B!CloseCompletes

\* Ctrl-C ends Run although clients hold connections and dials are under way.
Terminates == done ~> spc = "stopped"

\* Every connection of a lost tunnel is taken from its client.
LostConnsRemoved ==
  \A c \in Calls : (conn[c] = "open" /\ tun[gen[c]] = "lost") ~> conn[c] = "removed"
============================================================================
