---------------------------- MODULE Credentials ----------------------------
(***************************************************************************)
(* The credentials of the service: app.Connector and WaitForLogin, the     *)
(* securelink.Client they use (New, EnsureSession, VPNConfig, capture,     *)
(* save), the session.json file, and `securelink2socks login` run in       *)
(* another terminal on the same file.                                      *)
(*                                                                         *)
(* A token is the number of its issue; 0 is the empty string.  The server  *)
(* may answer any request with new tokens, "login required" or a failure.  *)
(***************************************************************************)
EXTENDS Integers

CONSTANTS MaxTokens,  \* bound: tokens the server issues
          MaxSaves    \* bound: times session.json is replaced

ASSUME CredentialsAssumption == MaxTokens \in Nat \ {0} /\ MaxSaves \in Nat \ {0}

VARIABLES
  file,      \* the content of session.json
  fver,      \* its identity (inode, mtime, size): 0 if missing, else the save
  corrupt,   \* it is unreadable or not the JSON of a session
  issued,    \* the tokens issued so far are 1..issued
  expired,   \* access tokens Session.Valid refuses
  cpc,       \* where the service is in Connect or WaitForLogin
  sess,      \* its Client's session
  attempt,   \* Connector's loop variable
  inner,     \* VPNConfig was called in this attempt
  seen,      \* version of the file this Connect read or wrote last
  rejected,  \* the access token attempt 0 failed with
  refused,   \* version of the file with which the last Connect needed a login
  requests,  \* requests and handshakes of this Connect, by kind
  base,      \* WaitForLogin's previous
  lpc,       \* where the login command is
  lsess,     \* its Client's session
  lforce     \* it was given --force

fileVars == <<file, fver, corrupt>>
serverVars == <<issued, expired>>
connectVars == <<cpc, sess, attempt, inner, seen, rejected, refused, requests, base>>
loginVars == <<lpc, lsess, lforce>>
vars == <<fileVars, serverVars, connectVars, loginVars>>

Tokens == 0..MaxTokens
Sessions == [at : Tokens, rt : Tokens, st : BOOLEAN]  \* st: ServerType is set
Empty == [at |-> 0, rt |-> 0, st |-> FALSE]
NoRequests == [refresh |-> 0, forced |-> 0, config |-> 0, open |-> 0]
Connecting == {"ensure", "refresh", "save", "typed", "fetch", "open"}

TypeOK ==
  /\ file \in Sessions /\ fver \in 0..MaxSaves /\ corrupt \in BOOLEAN
  /\ issued \in Tokens /\ expired \subseteq 1..issued
  /\ cpc \in {"start", "tunnel", "failed", "needslogin", "waiting"} \cup Connecting
  /\ sess \in Sessions /\ sess.at <= issued /\ attempt \in 0..1 /\ inner \in BOOLEAN
  /\ seen \in 0..MaxSaves /\ rejected \in Tokens
  /\ refused \in -1..MaxSaves /\ base \in 0..MaxSaves
  /\ requests \in [refresh : Nat, forced : Nat, config : Nat, open : Nat]
  /\ lpc \in {"idle", "loaded", "refresh", "sso", "save", "done", "error"}
  /\ lsess \in Sessions /\ lforce \in BOOLEAN

\* The file is missing, corrupt, or holds a session saved by an earlier run.
Init ==
  /\ \/ file = Empty /\ fver = 0 /\ corrupt = FALSE
     \/ file = Empty /\ fver = 1 /\ corrupt = TRUE
     \/ file \in [at : {1}, rt : {0, 1}, st : BOOLEAN] /\ fver = 1 /\ corrupt = FALSE
  /\ issued = 1 /\ expired \in SUBSET {1}
  /\ cpc = "start" /\ sess = Empty /\ attempt = 0 /\ inner = FALSE
  /\ seen = 0 /\ rejected = 0 /\ refused = -1 /\ base = 0
  /\ requests = NoRequests
  /\ lpc = "idle" /\ lsess = Empty /\ lforce = FALSE

----------------------------------------------------------------------------
(* securelink.Client.                                                      *)

valid(s) == s.at # 0 /\ s.at \notin expired

\* The server issues tokens; without an expiry Valid refuses them at once.
issue ==
  /\ issued < MaxTokens /\ issued' = issued + 1
  /\ expired' \in {expired, expired \cup {issued + 1}}

\* capture: a refresh whose reply has no refresh token keeps the old one, and
\* a reply without a server type keeps that.
captured(s, refreshing) ==
  {[at |-> issued + 1, rt |-> r, st |-> t] :
     r \in {issued + 1, IF refreshing THEN s.rt ELSE 0}, t \in {s.st, TRUE}}

\* storage.SaveJSON renames a complete temporary file over session.json.
save(s) == fver < MaxSaves /\ file' = s /\ fver' = fver + 1 /\ corrupt' = FALSE

----------------------------------------------------------------------------
(* Connector: two attempts, the second with a forced refresh.              *)

\* Mutant: the loop variable is not incremented.
sameAttempt == attempt' = attempt
nextAttempt == attempt' = attempt + 1

\* Connect returns: its Client is dropped.
return(result) ==
  /\ cpc' = result /\ refused' = IF result = "needslogin" THEN seen ELSE -1
  /\ sess' = Empty /\ attempt' = 0 /\ inner' = FALSE /\ rejected' = 0
  /\ requests' = NoRequests

\* for attempt := 0; attempt < 2 && errors.Is(err, ErrNeedsLogin or
\* ErrVPNAuthRejected)
retried(e) == inner /\ e = "needslogin" /\ attempt = 0

\* An error ends Connect, unless it is ErrNeedsLogin or ErrVPNAuthRejected
\* from VPNConfig or Open in the first attempt.
fail(e) ==
  IF retried(e)
  THEN /\ cpc' = "ensure" /\ inner' = FALSE /\ nextAttempt
       /\ rejected' = sess.at /\ UNCHANGED <<sess, refused, requests>>
  ELSE return(e)

anyFailure == fail("needslogin") \/ fail("failed")

\* The next step of Connect, without an error.
goTo(pc) == cpc' = pc /\ UNCHANGED <<attempt, rejected, refused>>

\* EnsureSession returned nil: on to VPNConfig's, or to its server type.
ensured == inner' = TRUE /\ goTo(IF inner THEN "typed" ELSE "ensure") /\ UNCHANGED requests

\* Supervisor calls Connect; securelink.New reads the file, and an error of
\* any kind is returned as ErrNeedsLogin.
New ==
  /\ cpc = "start"
  /\ seen' = fver
  /\ IF corrupt THEN cpc' = "needslogin" /\ refused' = fver /\ UNCHANGED sess
                ELSE cpc' = "ensure" /\ sess' = file /\ UNCHANGED refused
  /\ UNCHANGED <<fileVars, serverVars, attempt, inner, rejected, requests, base, loginVars>>

\* Mutant: the second attempt does not force a refresh.
unforced == FALSE
forced == attempt > 0 /\ ~inner

\* EnsureSession(ctx, attempt > 0), then VPNConfig's EnsureSession(ctx, false).
Ensure ==
  /\ cpc = "ensure"
  /\ \/ ~forced /\ valid(sess) /\ ensured /\ UNCHANGED sess
     \/ (forced \/ ~valid(sess)) /\ sess.rt = 0 /\ fail("needslogin")
     \/ /\ (forced \/ ~valid(sess)) /\ sess.rt # 0
        /\ goTo("refresh") /\ UNCHANGED <<sess, inner>>
        /\ requests' = [requests EXCEPT !.refresh = @ + 1, !.forced = IF forced THEN @ + 1 ELSE @]
  /\ UNCHANGED <<fileVars, serverVars, seen, base, loginVars>>

\* The refresh request fails, or its reply is captured in memory.
Refresh ==
  /\ cpc = "refresh"
  /\ \/ anyFailure /\ UNCHANGED serverVars
     \/ issue /\ sess' \in captured(sess, TRUE) /\ goTo("save") /\ UNCHANGED <<inner, requests>>
  /\ UNCHANGED <<fileVars, seen, base, loginVars>>

\* Mutant: a failed save is ignored.
saveIgnored == ensured /\ UNCHANGED sess
saveFailed == fail("failed")

\* return c.save()
Save ==
  /\ cpc = "save"
  /\ \/ save(sess) /\ seen' = fver' /\ ensured /\ UNCHANGED sess
     \/ saveFailed /\ UNCHANGED <<fileVars, seen>>
  /\ UNCHANGED <<serverVars, base, loginVars>>

\* VPNConfig chooses and saves a server type, and asks for the configuration.
Fetch ==
  /\ cpc = "typed"
  /\ \/ /\ \/ sess.st /\ UNCHANGED <<fileVars, sess, seen>>
           \/ ~sess.st /\ sess' = [sess EXCEPT !.st = TRUE] /\ save(sess') /\ seen' = fver'
        /\ goTo("fetch") /\ UNCHANGED inner
        /\ requests' = [requests EXCEPT !.config = @ + 1]
     \/ ~sess.st /\ fail("failed") /\ UNCHANGED <<fileVars, seen>>
  /\ UNCHANGED <<serverVars, base, loginVars>>

\* The configuration arrives and its profile is good, or not; then tunnel.Open.
Open ==
  /\ cpc = "fetch"
  /\ \/ goTo("open") /\ requests' = [requests EXCEPT !.open = @ + 1] /\ UNCHANGED <<sess, inner>>
     \/ anyFailure
  /\ UNCHANGED <<fileVars, serverVars, seen, base, loginVars>>

\* Mutant: the handshake has no timeout, and the server is silent.
openHangs == FALSE
\* Open returns a tunnel, ErrVPNAuthRejected or another error.
OpenReturn ==
  /\ cpc = "open"
  /\ return("tunnel") \/ anyFailure
  /\ UNCHANGED <<fileVars, serverVars, seen, base, loginVars>>

\* The supervisor backs off, or loses the tunnel, and calls Connect again.
Again ==
  /\ cpc \in {"failed", "tunnel"}
  /\ cpc' = "start"
  /\ UNCHANGED <<fileVars, serverVars, sess, attempt, inner, seen, rejected, refused, requests, base, loginVars>>

\* Only now does WaitForLogin take its baseline.
Baseline ==
  /\ cpc = "needslogin"
  /\ cpc' = "waiting" /\ base' = fver
  /\ UNCHANGED <<fileVars, serverVars, sess, attempt, inner, seen, rejected, refused, requests, loginVars>>

\* Mutant: any readable file ends the wait.
exists == fver # 0
changed == fver # 0 /\ fver # base

\* A tick of WaitForLogin finds another file.
Watch ==
  /\ cpc = "waiting" /\ changed
  /\ cpc' = "start" /\ base' = 0
  /\ UNCHANGED <<fileVars, serverVars, sess, attempt, inner, seen, rejected, refused, requests, loginVars>>

ConnectStep == New \/ Ensure \/ Refresh \/ Save \/ Fetch \/ Open \/ OpenReturn

\* The service is stopped anywhere and started again.
Restart ==
  /\ cpc # "start"
  /\ return("start") /\ base' = 0
  /\ UNCHANGED <<fileVars, serverVars, seen, loginVars>>

----------------------------------------------------------------------------
(* securelink2socks login, with or without --force.                        *)

LoginNew ==
  /\ lpc = "idle"
  /\ lforce' \in BOOLEAN
  /\ IF corrupt THEN lpc' = "error" /\ UNCHANGED lsess
                ELSE lpc' = "loaded" /\ lsess' = file
  /\ UNCHANGED <<fileVars, serverVars, connectVars>>

\* authenticate: reuse, refresh, or go through the SSO.
LoginEnsure ==
  /\ lpc = "loaded"
  /\ lpc' = IF ~lforce /\ valid(lsess) THEN "done"
            ELSE IF ~lforce /\ lsess.rt # 0 THEN "refresh" ELSE "sso"
  /\ UNCHANGED <<fileVars, serverVars, connectVars, lsess, lforce>>

\* The replies of the server; a refused refresh leads to the SSO.
LoginReply ==
  /\ lpc \in {"refresh", "sso"}
  /\ \/ issue /\ lsess' \in captured(lsess, lpc = "refresh") /\ lpc' = "save"
     \/ lpc' = "error" /\ UNCHANGED <<serverVars, lsess>>
     \/ lpc = "refresh" /\ lpc' = "sso" /\ UNCHANGED <<serverVars, lsess>>
  /\ UNCHANGED <<fileVars, connectVars, lforce>>

LoginSave ==
  /\ lpc = "save"
  /\ \/ save(lsess) /\ lpc' = "done"
     \/ lpc' = "error" /\ UNCHANGED fileVars
  /\ lsess' = Empty
  /\ UNCHANGED <<serverVars, connectVars, lforce>>

\* The command ends, or is interrupted.
LoginExit ==
  /\ lpc # "idle" /\ lpc' = "idle" /\ lsess' = Empty /\ lforce' = FALSE
  /\ UNCHANGED <<fileVars, serverVars, connectVars>>

LoginStep == LoginNew \/ LoginEnsure \/ LoginReply \/ LoginSave \/ LoginExit

\* Time passes: an access token has less than five minutes left.
Expire ==
  /\ \E t \in 1..issued \ expired : expired' = expired \cup {t}
  /\ UNCHANGED <<fileVars, issued, connectVars, loginVars>>

Next == ConnectStep \/ Again \/ Baseline \/ Watch \/ Restart \/ LoginStep \/ Expire

Spec == Init /\ [][Next]_vars

(* The supervisor and its Connect run on: requests and handshakes have      *)
(* timeouts and the watch a ticker.  Nobody has to log in.                 *)
Fairness == WF_vars(ConnectStep) /\ WF_vars(Again) /\ WF_vars(Baseline) /\ WF_vars(Watch)

FairSpec == Spec /\ Fairness

----------------------------------------------------------------------------
(* Properties.                                                             *)

\* One Connect makes at most one forced refresh and two handshakes, and no
\* more than four refresh requests in all, whatever the server answers: "VPN
\* auth rejection gets one forced refresh" (connect.go:17).
ConnectBounded ==
  /\ requests.forced <= 1 /\ requests.refresh <= 4
  /\ requests.config <= 2 /\ requests.open <= 2

\* The tokens the service uses are on disk first: unless another process has
\* replaced the file since, it holds exactly the session in use, so a crash
\* loses nothing the server has already rotated.
SavedBeforeUse == cpc \in {"typed", "fetch", "open"} /\ fver = seen => file = sess

\* The second attempt never presents the token the first one was refused with.
RetryUsesNewToken ==
  attempt = 1 /\ cpc \in {"typed", "fetch", "open"} => sess.at # rejected

\* After ErrNeedsLogin the service makes no request with the file that was
\* refused: "NeedsLogin makes no further network requests until an external
\* login atomically replaces the session file" (connect.go:60).
NoSpin == cpc = "ensure" /\ requests = NoRequests => seen # refused

\* Every Connect ends, whatever the server answers.
ConnectEnds == cpc \in Connecting ~> cpc \notin Connecting

\* Stated by docs/usage.md:39 (the service waits for the session file to be
\* updated, then recovers): a waiting service notices every file newer than
\* the one its last Connect used.
LoginNoticed == (cpc = "waiting" /\ fver # seen) ~> cpc # "waiting"

\* Stated by main.go:244 and README.md:38 (on NeedsLogin, run login --force in
\* another terminal): that command gets as far as the login itself.
HintWorks == [][cpc = "waiting" /\ lforce' /\ lpc' = "error" => lpc \in {"sso", "save", "error"}]_vars
============================================================================
