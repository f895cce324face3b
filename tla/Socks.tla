------------------------------- MODULE Socks -------------------------------
(***************************************************************************)
(* socks.Serve and Handle: the accept loop, and for every client one       *)
(* handler with its deadline, its dial through the Backend, two copying    *)
(* goroutines, the watcher of the remote's Done and the functions that the *)
(* end of ctx runs.  The Backend is what Handle sees of it: Ready,         *)
(* DialContext, and a connection that may be revoked at any time.          *)
(***************************************************************************)
EXTENDS Integers

CONSTANTS Conns  \* client connections

VARIABLES
  serve,  \* Serve: "accept", "drain" (wg.Wait) or "returned"
  done,   \* Serve's ctx is done
  hpc,    \* hpc[k]: where Handle is; "none" before Accept, "ended" after
  cl,     \* cl[k]: the server side of the client's connection
  peer,   \* peer[k]: the client: "open", "shut" (it sent FIN) or "gone"
  dl,     \* dl[k]: the deadline set on it: "armed", "passed" or "none"
  late,   \* late[k]: dialCtx has timed out
  code,   \* code[k]: the reply delivered to the client, or -1
  rem,    \* rem[k]: the tracked connection: "none", "open" or "closed"
  rpeer,  \* rpeer[k]: its other end: "open", "shut" or "gone"
  half,   \* half[k]: the tunnel's connection can close one direction
  stalled,  \* stalled[k]: the client has stopped reading for good
  rstalled, \* rstalled[k]: the remote's other end has
  revoked, \* history: the Backend closed the remote of k
  up,     \* up[k]: the goroutine copying to the remote
  down    \* down[k]: Handle copying from it

clientVars == <<peer, dl, stalled>>
remoteVars == <<rpeer, half, rstalled, revoked>>
vars == <<serve, done, hpc, cl, clientVars, late, code, rem, remoteVars, up, down>>

TypeOK ==
  /\ serve \in {"accept", "drain", "returned"} /\ done \in BOOLEAN
  /\ hpc \in [Conns -> {"none", "greet", "request", "ready", "dial", "reply", "relay", "exit", "ended"}]
  /\ cl \in [Conns -> {"none", "open", "closed"}]
  /\ peer \in [Conns -> {"open", "shut", "gone"}]
  /\ dl \in [Conns -> {"armed", "passed", "none"}]
  /\ late \in [Conns -> BOOLEAN]
  /\ code \in [Conns -> -1..8]
  /\ rem \in [Conns -> {"none", "open", "closed"}]
  /\ rpeer \in [Conns -> {"open", "shut", "gone"}]
  /\ half \in [Conns -> BOOLEAN] /\ revoked \in [Conns -> BOOLEAN]
  /\ stalled \in [Conns -> BOOLEAN] /\ rstalled \in [Conns -> BOOLEAN]
  /\ up \in [Conns -> {"none", "copy", "ended"}]
  /\ down \in [Conns -> {"none", "copy", "ended"}]

Init ==
  /\ serve = "accept" /\ done = FALSE
  /\ hpc = [k \in Conns |-> "none"]
  /\ cl = [k \in Conns |-> "none"]
  /\ peer = [k \in Conns |-> "open"]
  /\ dl = [k \in Conns |-> "none"]
  /\ late = [k \in Conns |-> FALSE]
  /\ code = [k \in Conns |-> -1]
  /\ rem = [k \in Conns |-> "none"]
  /\ rpeer = [k \in Conns |-> "open"]
  /\ half = [k \in Conns |-> FALSE] /\ revoked = [k \in Conns |-> FALSE]
  /\ stalled = [k \in Conns |-> FALSE] /\ rstalled = [k \in Conns |-> FALSE]
  /\ up = [k \in Conns |-> "none"]
  /\ down = [k \in Conns |-> "none"]

----------------------------------------------------------------------------
(* Serve.                                                                  *)

Accept(k) ==
  /\ serve = "accept" /\ hpc[k] = "none"
  /\ hpc' = [hpc EXCEPT ![k] = "greet"]
  /\ cl' = [cl EXCEPT ![k] = "open"]
  /\ dl' = [dl EXCEPT ![k] = "armed"]
  /\ UNCHANGED <<serve, done, peer, stalled, late, code, rem, remoteVars, up, down>>

\* Accept fails, because ctx closed the listener or for a reason of its own;
\* the deferred function cancels ctx and waits.
AcceptError ==
  /\ serve = "accept"
  /\ serve' = "drain" /\ done' = TRUE
  /\ UNCHANGED <<hpc, cl, clientVars, late, code, rem, remoteVars, up, down>>

\* Mutant: Serve does not wait for the handlers.
joinedNone == TRUE
\* wg.Wait()
joined == \A k \in Conns : hpc[k] \in {"none", "ended"}

ServeReturn ==
  /\ serve = "drain" /\ joined
  /\ serve' = "returned"
  /\ UNCHANGED <<done, hpc, cl, clientVars, late, code, rem, remoteVars, up, down>>

----------------------------------------------------------------------------
(* Handle, up to the reply.                                                *)

\* Reads and writes on the client's connection fail for good.
broken(k) == cl[k] = "closed" \/ peer[k] = "gone" \/ dl[k] = "passed"

\* Handle goes on to pc, or runs its deferred functions.
step(k, pc) == hpc' = [hpc EXCEPT ![k] = pc]

\* reply(c, n): the client sees it unless the write fails.
reply(k, n) == code' = [code EXCEPT ![k] = IF broken(k) THEN -1 ELSE n]

\* The version and methods are read and NO AUTH is chosen; or they are wrong,
\* or the client ends, or the read fails.
Greet(k) ==
  /\ hpc[k] = "greet"
  /\ \/ ~broken(k) /\ (step(k, "request") \/ step(k, "exit"))
     \/ (broken(k) \/ peer[k] = "shut") /\ step(k, "exit")
  /\ UNCHANGED <<serve, done, cl, clientVars, late, code, rem, remoteVars, up, down>>

\* The request is read: CONNECT to an IPv4 address or a name is looked at
\* further, anything else is refused with 1, 2, 7 or 8.
Request(k) ==
  /\ hpc[k] = "request"
  /\ \/ ~broken(k) /\ step(k, "ready") /\ UNCHANGED code
     \/ ~broken(k) /\ step(k, "exit") /\ \E n \in {1, 2, 7, 8} : reply(k, n)
     \/ (broken(k) \/ peer[k] # "open") /\ step(k, "exit") /\ UNCHANGED code
  /\ UNCHANGED <<serve, done, cl, clientVars, late, rem, remoteVars, up, down>>

\* if !b.Ready() { reply(c, 3) }; then dialCtx is made.
Ready(k) ==
  /\ hpc[k] = "ready"
  /\ \/ step(k, "dial") /\ UNCHANGED code
     \/ step(k, "exit") /\ reply(k, 3)
  /\ UNCHANGED <<serve, done, cl, clientVars, late, rem, remoteVars, up, down>>

errorReply ==
  [denied |-> 2, unavailable |-> 3, timeout |-> 6, refused |-> 5, netunreach |-> 3, hostunreach |-> 4,
   other |-> 1]
DialErrors == DOMAIN errorReply

\* b.DialContext returns.  Once dialCtx is done a dial is always ErrUnavailable,
\* even one the tunnel answered with context.DeadlineExceeded.
Dial(k) ==
  /\ hpc[k] = "dial"
  /\ \/ /\ ~done /\ ~late[k]
        /\ rem' = [rem EXCEPT ![k] = "open"] /\ step(k, "reply") /\ UNCHANGED code
        /\ \E b \in BOOLEAN : half' = [half EXCEPT ![k] = b]
     \/ /\ \E e \in IF done \/ late[k] THEN {"denied", "unavailable"} ELSE DialErrors \ {"timeout"} :
             reply(k, errorReply[e])
        /\ step(k, "exit") /\ UNCHANGED <<rem, half>>
  /\ UNCHANGED <<serve, done, cl, clientVars, late, rpeer, rstalled, revoked, up, down>>

\* reply(c, 0), SetDeadline(time.Time{}), and both directions are copied.
Reply(k) ==
  /\ hpc[k] = "reply"
  /\ reply(k, 0)
  /\ IF broken(k) THEN step(k, "exit") /\ UNCHANGED <<dl, up, down>>
     ELSE /\ step(k, "relay")
          /\ dl' = [dl EXCEPT ![k] = "none"]
          /\ up' = [up EXCEPT ![k] = "copy"] /\ down' = [down EXCEPT ![k] = "copy"]
  /\ UNCHANGED <<serve, done, cl, peer, stalled, late, rem, remoteVars>>

----------------------------------------------------------------------------
(* The relay.                                                              *)

closeClient(k) == cl' = [cl EXCEPT ![k] = "closed"]
closeRemote(k) == rem' = [rem EXCEPT ![k] = IF @ = "none" THEN @ ELSE "closed"]

\* Mutant: the end of the upload closes the remote.
finishRemote(k) == closeRemote(k) /\ UNCHANGED cl
\* closeWrite(remote): the download goes on, if the tunnel's connection can
\* close one direction; if not, trackedConn.CloseWrite closes both.
finishUpload(k) == IF half[k] THEN UNCHANGED <<rem, cl>> ELSE closeRemote(k) /\ UNCHANGED cl

\* io.Copy(remote, c) reaches the client's FIN, or fails on either side.
UpEOF(k) ==
  /\ up[k] = "copy" /\ cl[k] = "open" /\ peer[k] = "shut"
  /\ up' = [up EXCEPT ![k] = "ended"]
  /\ finishUpload(k)
  /\ UNCHANGED <<serve, done, hpc, clientVars, late, code, remoteVars, down>>

UpError(k) ==
  /\ up[k] = "copy" /\ (broken(k) \/ rem[k] = "closed" \/ rpeer[k] = "gone")
  /\ up' = [up EXCEPT ![k] = "ended"]
  /\ closeRemote(k) /\ closeClient(k)
  /\ UNCHANGED <<serve, done, hpc, clientVars, late, code, remoteVars, down>>

\* io.Copy(c, remote) likewise; on EOF closeWrite(c) leaves the upload alone,
\* since c is a TCP connection.
DownEOF(k) ==
  /\ down[k] = "copy" /\ rem[k] = "open" /\ rpeer[k] = "shut"
  /\ down' = [down EXCEPT ![k] = "ended"]
  /\ UNCHANGED <<serve, done, hpc, cl, clientVars, late, code, rem, remoteVars, up>>

DownError(k) ==
  /\ down[k] = "copy" /\ (broken(k) \/ rem[k] = "closed" \/ rpeer[k] = "gone")
  /\ down' = [down EXCEPT ![k] = "ended"]
  /\ closeRemote(k) /\ closeClient(k)
  /\ UNCHANGED <<serve, done, hpc, clientVars, late, code, remoteVars, up>>

\* Mutant: Handle waits for the watcher, which waits for Handle.
copiedWatcher(k) == up[k] = "ended" /\ down[k] = "ended" /\ cl[k] = "closed"
\* <-done: the upload has ended as well.
copied(k) == up[k] = "ended" /\ down[k] = "ended"

Join(k) ==
  /\ hpc[k] = "relay" /\ copied(k)
  /\ step(k, "exit")
  /\ UNCHANGED <<serve, done, cl, clientVars, late, code, rem, remoteVars, up, down>>

\* The deferred functions: remote.Close(), c.Close(), wg.Done().
Exit(k) ==
  /\ hpc[k] = "exit"
  /\ step(k, "ended")
  /\ closeRemote(k) /\ closeClient(k)
  /\ dl' = [dl EXCEPT ![k] = "none"]
  /\ UNCHANGED <<serve, done, peer, stalled, late, code, remoteVars, up, down>>

\* Mutant: only the tunnel side of a revoked connection is closed.
unwatched(k) == FALSE
watched(k) == rem[k] = "closed" /\ hpc[k] \in {"reply", "relay"}

\* The watcher: <-v.Done(), c.Close().
Watch(k) ==
  /\ watched(k) /\ cl[k] = "open"
  /\ closeClient(k)
  /\ UNCHANGED <<serve, done, hpc, clientVars, late, code, rem, remoteVars, up, down>>

\* Mutant: the end of ctx does not reach the handler's connections.
uncut(k) == FALSE
\* context.AfterFunc(ctx, ...): c and, once dialled, remote are closed.
Cut(k) ==
  /\ done /\ hpc[k] \notin {"none", "ended"}
  /\ \/ cl[k] = "open" /\ closeClient(k) /\ UNCHANGED rem
     \/ rem[k] = "open" /\ closeRemote(k) /\ UNCHANGED cl
  /\ UNCHANGED <<serve, done, hpc, clientVars, late, code, remoteVars, up, down>>

HandleStep(k) == Greet(k) \/ Request(k) \/ Ready(k) \/ Dial(k) \/ Reply(k) \/ Join(k) \/ Exit(k)
RelayStep(k) == UpEOF(k) \/ UpError(k) \/ DownEOF(k) \/ DownError(k)

----------------------------------------------------------------------------
(* The environment.                                                        *)

Cancel == ~done /\ done' = TRUE
          /\ UNCHANGED <<serve, hpc, cl, clientVars, late, code, rem, remoteVars, up, down>>

\* The client, or the other end of the remote, sends FIN, disappears, or stops
\* reading for good.
PeerEnds(k) ==
  /\ cl[k] = "open" /\ peer[k] # "gone"
  /\ \E p \in {"shut", "gone"} \ {peer[k]} : peer' = [peer EXCEPT ![k] = p]
  /\ UNCHANGED <<serve, done, hpc, cl, dl, stalled, late, code, rem, remoteVars, up, down>>

RemoteEnds(k) ==
  /\ rem[k] = "open" /\ rpeer[k] # "gone"
  /\ \E p \in {"shut", "gone"} \ {rpeer[k]} : rpeer' = [rpeer EXCEPT ![k] = p]
  /\ UNCHANGED <<serve, done, hpc, cl, clientVars, late, code, rem, half, rstalled, revoked, up, down>>

PeerStalls(k) ==
  /\ cl[k] = "open" /\ ~stalled[k]
  /\ stalled' = [stalled EXCEPT ![k] = TRUE]
  /\ UNCHANGED <<serve, done, hpc, cl, peer, dl, late, code, rem, remoteVars, up, down>>

RemoteStalls(k) ==
  /\ rem[k] = "open" /\ ~rstalled[k]
  /\ rstalled' = [rstalled EXCEPT ![k] = TRUE]
  /\ UNCHANGED <<serve, done, hpc, cl, clientVars, late, code, rem, rpeer, half, revoked, up, down>>

\* The Backend closes the remote: its generation is replaced.
Revoke(k) ==
  /\ rem[k] = "open" /\ hpc[k] \in {"reply", "relay"}
  /\ closeRemote(k) /\ revoked' = [revoked EXCEPT ![k] = TRUE]
  /\ UNCHANGED <<serve, done, hpc, cl, clientVars, late, code, rpeer, half, rstalled, up, down>>

\* Mutant: the handshake has no deadline.
noDeadline(k) == FALSE
\* Ten seconds after Accept, and ten seconds after the start of the dial.
Deadline(k) ==
  /\ dl[k] = "armed" /\ dl' = [dl EXCEPT ![k] = "passed"]
  /\ UNCHANGED <<serve, done, hpc, cl, peer, stalled, late, code, rem, remoteVars, up, down>>

DialTimeout(k) ==
  /\ hpc[k] = "dial" /\ dl[k] = "passed" /\ ~late[k]
  /\ late' = [late EXCEPT ![k] = TRUE]
  /\ UNCHANGED <<serve, done, hpc, cl, clientVars, code, rem, remoteVars, up, down>>

EnvStep(k) ==
  \/ PeerEnds(k) \/ RemoteEnds(k) \/ PeerStalls(k) \/ RemoteStalls(k)
  \/ Revoke(k) \/ Deadline(k) \/ DialTimeout(k)

Next ==
  \/ AcceptError \/ ServeReturn \/ Cancel
  \/ \E k \in Conns : Accept(k) \/ HandleStep(k) \/ RelayStep(k) \/ Watch(k) \/ Cut(k) \/ EnvStep(k)

Spec == Init /\ [][Next]_vars

\* A Write to the client, or to the remote, returns: its peer reads on, or the
\* connection is closed or reset.  The relay has no deadline.
receives(k) == ~stalled[k] \/ cl[k] = "closed" \/ peer[k] = "gone"
sends(k) == ~rstalled[k] \/ rem[k] = "closed" \/ rpeer[k] = "gone"

(* The handlers run, timers fire, and a read returns once its connection is *)
(* closed, ended or past its deadline.  A copy sees the end of what it     *)
(* reads only when its writes return.  Nothing makes a peer send, end, or  *)
(* read.                                                                   *)
Fairness ==
  /\ WF_vars(done /\ AcceptError) /\ WF_vars(ServeReturn)
  /\ \A k \in Conns :
       /\ WF_vars((broken(k) \/ peer[k] # "open") /\ (Greet(k) \/ Request(k)))
       /\ WF_vars(Ready(k) \/ Reply(k) \/ Join(k) \/ Exit(k))
       /\ WF_vars((done \/ late[k]) /\ Dial(k))
       /\ WF_vars(sends(k) /\ UpEOF(k)) /\ WF_vars(receives(k) /\ DownEOF(k))
       /\ WF_vars(sends(k) /\ (cl[k] = "closed" \/ peer[k] = "gone") /\ UpError(k))
       /\ WF_vars(receives(k) /\ (rem[k] = "closed" \/ rpeer[k] = "gone") /\ DownError(k))
       /\ WF_vars(Watch(k)) /\ WF_vars(Cut(k)) /\ WF_vars(Deadline(k)) /\ WF_vars(DialTimeout(k))

FairSpec == Spec /\ Fairness

----------------------------------------------------------------------------
(* Properties.                                                             *)

\* When Serve has returned no handler and no copying goroutine runs, and every
\* connection on both sides is closed.
ServeJoins ==
  serve = "returned" => \A k \in Conns :
    /\ hpc[k] \in {"none", "ended"} /\ cl[k] # "open" /\ rem[k] # "open"
    /\ up[k] # "copy" /\ down[k] # "copy"

\* Half-close (TestTCPHalfClose): the end of one direction never costs a client
\* the other.  Whichever direction has ended and however, in the relay neither
\* connection is closed before the service stops, the Backend revokes it or one
\* of its peers disappears; only a tunnel connection that cannot close one
\* direction is closed by the end of the upload.
HalfCloseKept ==
  \A k \in Conns : hpc[k] = "relay" /\ (cl[k] = "closed" \/ rem[k] = "closed") =>
    \/ done \/ revoked[k] \/ peer[k] = "gone" \/ rpeer[k] = "gone"
    \/ up[k] = "ended" /\ ~half[k]

\* "Revocation also closes an idle client-side reader" (server.go:142): once
\* the Backend closed the remote, the client's connection is closed and the
\* handler ends, although the client neither sends nor ends, and although either
\* copy may be blocked in a Write to a peer that does not read.
RevocationReaches ==
  \A k \in Conns : (hpc[k] = "relay" /\ rem[k] = "closed") ~> (hpc[k] = "ended" /\ cl[k] = "closed")

\* No client can hold a handler in the handshake: it reaches the relay or ends.
HandshakeBounded ==
  \A k \in Conns : hpc[k] = "greet" ~> hpc[k] \in {"relay", "ended"}

\* A relay whose two ends have both finished sending ends, unless one of them
\* has stopped reading what the other sent.
RelayCompletes ==
  \A k \in Conns : (hpc[k] = "relay" /\ peer[k] = "shut" /\ rpeer[k] = "shut")
                     ~> (hpc[k] = "ended" \/ stalled[k] \/ rstalled[k])

\* Ctrl-C, or an Accept error, ends Serve whatever the clients do.
ServeEnds == done ~> serve = "returned"
============================================================================
