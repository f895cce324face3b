----------------------------- MODULE Supervisor -----------------------------
(***************************************************************************)
(* app.Supervisor.Run: the goroutine that connects, publishes the tunnel   *)
(* in the Backend, revokes it when it is lost, waits for a login or backs  *)
(* off, and starts again until its ctx is done.  The Backend appears here  *)
(* as what Run sees of it: a call of Replace that takes some time, swaps   *)
(* current and closes the old tunnel.  Service puts the real one in its    *)
(* place.                                                                  *)
(***************************************************************************)
EXTENDS Integers

CONSTANTS Tunnels,     \* the tunnels Connect may open, one per success
          MinBackoff, MaxBackoff,   \* seconds; 0 or less means the default
          None

ASSUME SupervisorAssumption ==
  MinBackoff \in Int /\ MaxBackoff \in Int /\ None \notin Tunnels

VARIABLES
  tun,      \* tun[t]: "fresh", "open", "lost" (Done is closed) or "closed"
  current,  \* the tunnel published by the Backend
  rpc,      \* where the Backend's Replace is
  rarg,     \* its argument
  old,      \* its local old
  spc,      \* where Run is
  stun,     \* Run's local t, the tunnel Connect returned
  err,      \* Run's local err: "ok", "login" (ErrNeedsLogin) or "other"
  delay,    \* Run's local delay
  state,    \* the last state given to Notify
  done      \* ctx is done

replaceVars == <<rpc, rarg, old>>
runVars == <<spc, stun, err, delay, state>>
vars == <<tun, current, replaceVars, runVars, done>>

\* The defaults of lines 40 to 46.
minimum == IF MinBackoff <= 0 THEN 1 ELSE MinBackoff
maximum == IF MaxBackoff < minimum THEN 30 ELSE MaxBackoff

States == {"Starting", "Authenticating", "Connecting", "Ready", "Reconnecting",
           "NeedsLogin", "Stopping"}

TypeOK ==
  /\ tun \in [Tunnels -> {"fresh", "open", "lost", "closed"}]
  /\ current \in Tunnels \cup {None}
  /\ rpc \in {"idle", "lock", "swap", "close"}
  /\ rarg \in Tunnels \cup {None}
  /\ old \in Tunnels \cup {None}
  /\ spc \in {"top", "connect", "connected", "publish", "ready", "revoke", "fault",
              "login", "backoff", "stop", "stopping", "stopped"}
  /\ stun \in Tunnels \cup {None}
  /\ err \in {"ok", "login", "other"}
  /\ delay \in 1..(IF maximum < minimum THEN minimum ELSE maximum)
  /\ state \in States
  /\ done \in BOOLEAN

Init ==
  /\ tun = [t \in Tunnels |-> "fresh"]
  /\ current = None
  /\ rpc = "idle" /\ rarg = None /\ old = None
  /\ spc = "top"
  /\ stun = None
  /\ err = "ok"
  /\ delay = minimum
  /\ state = "Starting"
  /\ done = FALSE

----------------------------------------------------------------------------
(* Run, in the order of its lines.                                         *)

\* s.Backend.Replace(t) is entered; Run goes on when rpc is idle again.
callReplace(t) == rpc = "idle" /\ rpc' = "lock" /\ rarg' = t

\* for ctx.Err() == nil { s.state(Authenticating)
Top ==
  /\ spc = "top"
  /\ IF done THEN spc' = "stop" /\ UNCHANGED state
             ELSE spc' = "connect" /\ state' = "Authenticating"
  /\ UNCHANGED <<tun, current, replaceVars, stun, err, delay, done>>

\* The Connector notifies Connecting before each handshake.
Handshake ==
  /\ spc = "connect" /\ state # "Connecting"
  /\ state' = "Connecting"
  /\ UNCHANGED <<tun, current, replaceVars, spc, stun, err, delay, done>>

\* s.Connect(ctx) returns a tunnel or an error, whether or not ctx is done.
ConnectReturn ==
  /\ spc = "connect"
  /\ spc' = "connected"
  /\ \/ \E t \in Tunnels : /\ tun[t] = "fresh"
                           /\ tun' = [tun EXCEPT ![t] = "open"]
                           /\ stun' = t /\ err' = "ok"
     \/ stun' = None /\ err' \in {"login", "other"} /\ UNCHANGED tun
  /\ UNCHANGED <<current, replaceVars, delay, state, done>>

\* Mutant: a tunnel that comes up after ctx is done is dropped, not closed.
abandon == UNCHANGED tun
\* if t != nil { t.Close() }
closeUnpublished == tun' = [t \in Tunnels |-> IF t = stun THEN "closed" ELSE tun[t]]

\* if ctx.Err() != nil { ... return }; if err == nil { s.Backend.Replace(t)
AfterConnect ==
  /\ spc = "connected"
  /\ \/ done /\ closeUnpublished /\ spc' = "stop" /\ UNCHANGED replaceVars
     \/ /\ ~done /\ err = "ok"
        /\ callReplace(stun) /\ spc' = "publish" /\ UNCHANGED <<tun, old>>
     \/ ~done /\ err # "ok" /\ spc' = "fault" /\ UNCHANGED <<tun, replaceVars>>
  /\ UNCHANGED <<current, stun, err, delay, state, done>>

Published ==
  /\ spc = "publish" /\ rpc = "idle"
  /\ spc' = "ready" /\ state' = "Ready"
  /\ UNCHANGED <<tun, current, replaceVars, stun, err, delay, done>>

\* <-ctx.Done() while the tunnel is up.
ReadyDone ==
  /\ spc = "ready" /\ done
  /\ spc' = "stop"
  /\ UNCHANGED <<tun, current, replaceVars, stun, err, delay, state, done>>

\* Mutant: a lost tunnel is left published while Run backs off.
leavePublished == UNCHANGED replaceVars
\* Mutant: the lost tunnel is published again.
republish == callReplace(stun) /\ UNCHANGED old
revoke == callReplace(None) /\ UNCHANGED old

\* <-t.Done(); Err is never ErrNeedsLogin; s.Backend.Replace(nil) is called.
ReadyLost ==
  /\ spc = "ready" /\ tun[stun] \in {"lost", "closed"}
  /\ spc' = "revoke" /\ err' = "other"
  /\ revoke
  /\ UNCHANGED <<tun, current, stun, delay, state, done>>

\* A session of more than a minute resets the delay.
Revoked ==
  /\ spc = "revoke" /\ rpc = "idle"
  /\ spc' = "fault"
  /\ delay' \in {delay, minimum}
  /\ UNCHANGED <<tun, current, replaceVars, stun, err, state, done>>

Fault ==
  /\ spc = "fault"
  /\ IF err = "login" THEN spc' = "login" /\ state' = "NeedsLogin"
                      ELSE spc' = "backoff" /\ state' = "Reconnecting"
  /\ UNCHANGED <<tun, current, replaceVars, stun, err, delay, done>>

\* s.WaitLogin(ctx) returns: the session file changed, or ctx is done.
LoginReturn ==
  /\ spc = "login"
  /\ spc' = "top" /\ delay' = minimum
  /\ UNCHANGED <<tun, current, replaceVars, stun, err, state, done>>

BackoffDone ==
  /\ spc = "backoff" /\ done
  /\ spc' = "stop"
  /\ UNCHANGED <<tun, current, replaceVars, stun, err, delay, state, done>>

\* Mutant: the cap is forgotten.
uncapped == IF delay < 100 THEN delay * 2 ELSE delay
\* Mutant: the delay wraps to the minimum once it reached the maximum.
wrapped == IF delay = maximum THEN minimum ELSE IF delay * 2 < maximum THEN delay * 2 ELSE maximum
nextDelay == IF delay * 2 < maximum THEN delay * 2 ELSE maximum

\* <-timer.C
BackoffOver ==
  /\ spc = "backoff"
  /\ spc' = "top" /\ delay' = nextDelay
  /\ UNCHANGED <<tun, current, replaceVars, stun, err, state, done>>

\* The deferred s.state(Stopping); s.Backend.Replace(nil).
Stop ==
  /\ spc = "stop"
  /\ spc' = "stopping" /\ state' = "Stopping"
  /\ callReplace(None)
  /\ UNCHANGED <<tun, current, old, stun, err, delay, done>>

Stopped ==
  /\ spc = "stopping" /\ rpc = "idle"
  /\ spc' = "stopped"
  /\ UNCHANGED <<tun, current, replaceVars, stun, err, delay, state, done>>

RunStep ==
  \/ Top \/ Handshake \/ ConnectReturn \/ AfterConnect \/ Published \/ ReadyDone
  \/ ReadyLost \/ Revoked \/ Fault \/ LoginReturn \/ BackoffDone \/ BackoffOver
  \/ Stop \/ Stopped

----------------------------------------------------------------------------
(* The environment: Ctrl-C or the end of Serve, a lost tunnel, and the     *)
(* three steps of Replace that Run can tell apart.                         *)

Cancel == ~done /\ done' = TRUE /\ UNCHANGED <<tun, current, replaceVars, runVars>>

Lose(t) ==
  /\ tun[t] = "open"
  /\ tun' = [tun EXCEPT ![t] = "lost"]
  /\ UNCHANGED <<current, replaceVars, runVars, done>>

EnvLock ==
  /\ rpc = "lock" /\ rpc' = "swap"
  /\ UNCHANGED <<tun, current, rarg, old, runVars, done>>

EnvSwap ==
  /\ rpc = "swap" /\ rpc' = "close"
  /\ old' = current /\ current' = rarg
  /\ UNCHANGED <<tun, rarg, runVars, done>>

EnvReturn ==
  /\ rpc = "close" /\ rpc' = "idle"
  /\ tun' = [t \in Tunnels |-> IF t = old THEN "closed" ELSE tun[t]]
  /\ UNCHANGED <<current, rarg, old, runVars, done>>

Replace == EnvLock \/ EnvSwap \/ EnvReturn

Next == RunStep \/ Replace \/ Cancel \/ \E t \in Tunnels : Lose(t)

Spec == Init /\ [][Next]_vars

----------------------------------------------------------------------------
(* Properties.                                                             *)

\* At most one tunnel is not closed, and it is in the hands of Run, of
\* Replace or of the Backend: no attempt, cancelled or not, leaks a session.
OneTunnel ==
  \A t \in Tunnels : tun[t] \in {"open", "lost"} =>
    /\ \A u \in Tunnels \ {t} : tun[u] \in {"fresh", "closed"}
    /\ \/ t = current
       \/ spc = "connected" /\ t = stun
       \/ rpc \in {"lock", "swap"} /\ t = rarg
       \/ rpc = "close" /\ t = old

\* Fail closed: while Run logs in, connects, backs off or waits for a login,
\* nothing is published and no Replace is pending.
FailClosed ==
  spc \in {"top", "connect", "connected", "fault", "login", "backoff"} =>
    current = None /\ rpc = "idle"

\* Failures never shorten the delay: only a login or a session of more than a
\* minute does.
BackoffGrows == [][delay' < delay => spc \in {"login", "revoke"}]_vars

----------------------------------------------------------------------------
(* The inductive invariant behind OneTunnel and FailClosed.                *)

live(t) == tun[t] \in {"open", "lost"}

\* Whoever may still close a live tunnel knows it: Run before it publishes it,
\* Replace before and after the swap, the Backend between.
HeldInv ==
  \A t \in Tunnels : live(t) =>
    \/ t = current
    \/ spc = "connected" /\ t = stun
    \/ rpc \in {"lock", "swap"} /\ t = rarg
    \/ rpc = "close" /\ t = old

\* What a call of Replace is for, and what it has done so far.
CallInv ==
  /\ spc \notin {"publish", "revoke", "stopping"} => rpc = "idle"
  /\ spc = "publish" =>
       /\ stun \in Tunnels
       /\ rpc \in {"lock", "swap"} => current = None /\ rarg = stun
       /\ rpc \in {"close", "idle"} => current = stun
       /\ rpc = "close" => old = None
  /\ spc \in {"revoke", "stopping"} =>
       IF rpc \in {"lock", "swap"} THEN rarg = None ELSE current = None

\* What Run holds and has published between two calls.
RunInv ==
  /\ spc = "connected" => IF err = "ok" THEN stun \in Tunnels /\ live(stun) ELSE stun = None
  /\ spc = "ready" => stun \in Tunnels /\ current = stun
  /\ spc = "stopped" => current = None

SInv == TypeOK /\ FailClosed /\ HeldInv /\ CallInv /\ RunInv
============================================================================
