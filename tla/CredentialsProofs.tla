-------------------------- MODULE CredentialsProofs --------------------------
(* The safety properties of Credentials, for any number of tokens and saves. *)
EXTENDS Credentials, TLAPS

\* What the other parts compare, and that no token is in use before its issue.
CountsOK ==
  /\ fver \in Nat /\ seen \in Nat /\ base \in Nat /\ refused \in Int
  /\ issued \in Nat /\ rejected \in Nat /\ attempt \in 0..1
  /\ requests \in [refresh : Nat, forced : Nat, config : Nat, open : Nat]
  /\ \A s \in {sess, file, lsess} : "at" \in DOMAIN s /\ s.at \in 0..issued

\* What an attempt may still ask for at each stage of it.
BoundInv ==
  LET first == 2 * attempt  \* refreshes of the attempts before
      again == IF inner THEN 1 ELSE 0 IN
  /\ requests.forced <= attempt
  /\ cpc = "ensure" /\ ~inner => requests.forced = 0
  /\ cpc \notin Connecting => requests = NoRequests
  /\ cpc = "ensure" => requests.refresh <= first + again
  /\ cpc \in {"refresh", "save"} => requests.refresh <= first + again + 1
  /\ cpc \in {"typed", "fetch", "open"} => requests.refresh <= first + 2
  /\ requests.config <= IF cpc \in {"fetch", "open"} THEN attempt + 1 ELSE attempt
  /\ requests.open <= IF cpc = "open" THEN attempt + 1 ELSE attempt

\* The session in memory is the one in the file, except between a refresh and
\* its save; another process's save is of a later version.
FileInv ==
  /\ seen <= fver
  /\ cpc \in {"ensure", "refresh", "typed", "fetch", "open"} /\ fver = seen => file = sess

\* The token attempt 0 failed with was issued before that of attempt 1.
TokenInv ==
  /\ rejected <= issued
  /\ cpc \in {"typed", "fetch", "open"} => inner
  /\ attempt = 1 /\ (cpc = "save" \/ inner) => sess.at # rejected

\* The refused version is an old one whenever Connect runs.
SpinInv ==
  /\ refused <= fver
  /\ cpc = "start" => refused < fver
  /\ cpc \in Connecting => refused < seen
  /\ cpc \in {"failed", "tunnel"} => refused = -1
  /\ cpc = "waiting" => refused <= base /\ base <= fver

\* Between two calls of Connect its variables are reset.
ResetInv == cpc \notin Connecting => attempt = 0 /\ inner = FALSE

CredentialsInv == CountsOK /\ BoundInv /\ FileInv /\ TokenInv /\ SpinInv /\ ResetInv

\* Before the first connect and login the parts of the invariant hold.
LEMMA InitCredentials == Init => CredentialsInv
BY CredentialsAssumption
   DEF Init, CredentialsInv, CountsOK, BoundInv, FileInv, TokenInv, SpinInv, ResetInv,
           Empty, NoRequests, Connecting, fileVars, serverVars, loginVars, connectVars

\* One step per stage of Connect and of the wait.
LEMMA ServiceKeeps ==
  ASSUME CredentialsInv, ConnectStep \/ Again \/ Baseline \/ Watch \/ Restart
  PROVE  CredentialsInv'
<1> USE CredentialsAssumption
    DEF CredentialsInv, CountsOK, BoundInv, FileInv, TokenInv, SpinInv, ResetInv,
           Empty, NoRequests, Connecting, fileVars, serverVars, loginVars, connectVars,
        fail, retried, nextAttempt, return
<1>1. CASE New
  BY <1>1 DEF New
<1>2. CASE Ensure
  <2>1. CASE ~forced /\ ensured /\ UNCHANGED sess
    BY <1>2, <2>1 DEF Ensure, forced, ensured, goTo
  <2>2. CASE fail("needslogin")
    BY <1>2, <2>2 DEF Ensure
  <2>3. CASE /\ goTo("refresh") /\ UNCHANGED <<sess, inner>>
             /\ requests' = [requests EXCEPT !.refresh = @ + 1, !.forced = IF forced THEN @ + 1 ELSE @]
    <3>1. /\ requests'.refresh = requests.refresh + 1 /\ requests'.config = requests.config
          /\ requests'.forced = (IF forced THEN requests.forced + 1 ELSE requests.forced)
          /\ requests'.open = requests.open
      BY <2>3
    <3>2. requests' = [refresh |-> requests'.refresh, forced |-> requests'.forced,
                       config |-> requests'.config, open |-> requests'.open]
      BY <2>3
    <3>3. requests' \in [refresh : Nat, forced : Nat, config : Nat, open : Nat]
      BY <3>1, <3>2
    <3> QED
      BY <1>2, <2>3, <3>1, <3>3 DEF Ensure, forced, goTo
  <2> QED
    BY <1>2, <2>1, <2>2, <2>3 DEF Ensure
<1>3. CASE Refresh
  BY <1>3 DEF Refresh, anyFailure, issue, captured, goTo
<1>4. CASE Save
  BY <1>4 DEF Save, save, saveFailed, ensured, goTo
<1>5. CASE Fetch
  <2>1. CASE fail("failed") /\ UNCHANGED <<fileVars, seen>>
    BY <1>5, <2>1 DEF Fetch
  <2>2. CASE /\ goTo("fetch") /\ UNCHANGED inner
             /\ requests' = [requests EXCEPT !.config = @ + 1]
    <3>1. /\ requests'.refresh = requests.refresh /\ requests'.config = requests.config + 1
          /\ requests'.forced = requests.forced /\ requests'.open = requests.open
          /\ requests' \in [refresh : Nat, forced : Nat, config : Nat, open : Nat]
      BY <2>2
    <3>2. \/ UNCHANGED <<fileVars, sess, seen>>
          \/ sess' = [sess EXCEPT !.st = TRUE] /\ save(sess') /\ seen' = fver'
      BY <1>5, <2>2 DEF Fetch
    <3>3. sess'.at = sess.at
      BY <3>2
    <3> QED
      BY <1>5, <2>2, <3>1, <3>2, <3>3 DEF Fetch, save, goTo
  <2> QED
    BY <1>5, <2>1, <2>2 DEF Fetch
<1>6. CASE Open
  <2>1. CASE anyFailure
    BY <1>6, <2>1 DEF Open, anyFailure
  <2>2. CASE goTo("open") /\ requests' = [requests EXCEPT !.open = @ + 1] /\ UNCHANGED <<sess, inner>>
    <3>1. /\ requests'.refresh = requests.refresh /\ requests'.config = requests.config
          /\ requests'.forced = requests.forced /\ requests'.open = requests.open + 1
          /\ requests' \in [refresh : Nat, forced : Nat, config : Nat, open : Nat]
      BY <2>2
    <3> QED
      BY <1>6, <2>2, <3>1 DEF Open, goTo
  <2> QED
    BY <1>6, <2>1, <2>2 DEF Open
<1>7. CASE OpenReturn
  BY <1>7 DEF OpenReturn, anyFailure
<1>8. CASE Again
  BY <1>8 DEF Again
<1>9. CASE Baseline
  BY <1>9 DEF Baseline
<1>10. CASE Watch
  BY <1>10 DEF Watch, changed
<1>11. CASE Restart
  BY <1>11 DEF Restart
<1> QED
  BY <1>1, <1>2, <1>3, <1>4, <1>5, <1>6, <1>7, <1>8, <1>9, <1>10, <1>11 DEF ConnectStep

\* The other process only replaces the file, or has tokens issued.
LEMMA LoginKeeps ==
  ASSUME CredentialsInv, LoginStep \/ Expire
  PROVE  CredentialsInv'
<1> USE CredentialsAssumption
    DEF CredentialsInv, CountsOK, BoundInv, FileInv, TokenInv, SpinInv, ResetInv,
           Empty, NoRequests, Connecting, fileVars, serverVars, loginVars, connectVars
<1>1. CASE LoginNew \/ LoginEnsure \/ LoginExit
  BY <1>1 DEF LoginNew, LoginEnsure, LoginExit
<1>2. CASE LoginReply
  BY <1>2 DEF LoginReply, issue, captured
<1>3. CASE LoginSave
  BY <1>3 DEF LoginSave, save
<1>4. CASE Expire
  BY <1>4 DEF Expire
<1> QED
  BY <1>1, <1>2, <1>3, <1>4 DEF LoginStep

\* The inductive invariant of the service, the server and the login command.
THEOREM CredentialsInvariant == Spec => []CredentialsInv
<1>1. ASSUME CredentialsInv, UNCHANGED vars PROVE CredentialsInv'
  BY <1>1 DEF CredentialsInv, CountsOK, BoundInv, FileInv, TokenInv, SpinInv, ResetInv,
           Empty, NoRequests, Connecting, fileVars, serverVars, loginVars, connectVars, vars
<1>2. CredentialsInv /\ [Next]_vars => CredentialsInv'
  BY <1>1, ServiceKeeps, LoginKeeps DEF Next
<1> QED
  BY <1>2, InitCredentials, PTL DEF Spec

\* connect.go: what one Connect may ask of the server is bounded.
THEOREM BoundsConnect == Spec => []ConnectBounded
<1>1. CredentialsInv => ConnectBounded
  BY DEF CredentialsInv, CountsOK, BoundInv, ConnectBounded, NoRequests, Connecting
<1> QED
  BY <1>1, CredentialsInvariant, PTL

\* api.go: a rotated token is on disk before it is used.
THEOREM SavesBeforeUse == Spec => []SavedBeforeUse
<1>1. CredentialsInv => SavedBeforeUse
  BY DEF CredentialsInv, CountsOK, FileInv, SavedBeforeUse
<1> QED
  BY <1>1, CredentialsInvariant, PTL

\* connect.go: the second attempt has a token of its own.
THEOREM RetriesWithNewToken == Spec => []RetryUsesNewToken
<1>1. CredentialsInv => RetryUsesNewToken
  BY DEF CredentialsInv, TokenInv, RetryUsesNewToken
<1> QED
  BY <1>1, CredentialsInvariant, PTL

\* connect.go: after a refusal the service waits for another file.
THEOREM NeverSpins == Spec => []NoSpin
<1>1. CredentialsInv => NoSpin
  BY DEF CredentialsInv, CountsOK, SpinInv, NoSpin, Connecting
<1> QED
  BY <1>1, CredentialsInvariant, PTL

----------------------------------------------------------------------------
(* Connect ends: of ConnectEnds, the part that no fairness is needed for.   *)

\* The steps that are left of an attempt: EnsureSession, and again in VPNConfig.
stageLeft ==
  IF cpc = "open" THEN 1
  ELSE IF cpc = "fetch" THEN 2
  ELSE IF cpc = "typed" THEN 3
  ELSE IF cpc = "save" THEN IF inner THEN 4 ELSE 7
  ELSE IF cpc = "refresh" THEN IF inner THEN 5 ELSE 8
  ELSE IF inner THEN 6 ELSE 9

\* The steps that are left of Connect: the first attempt may cost a second.
connectLeft == IF cpc \in Connecting THEN stageLeft + 9 * (1 - attempt) ELSE 0

\* Every step of Connect leaves it fewer; a login in another process, and a
\* token that expires under it, as many.
nearer ==
  cpc \in Connecting => connectLeft' < connectLeft \/ (UNCHANGED connectLeft /\ (LoginStep \/ Expire))

\* A stage goes on to a later one, to the second attempt or out of Connect.
LEMMA StageLeft ==
  ASSUME CredentialsInv, ConnectStep, cpc \in Connecting
  PROVE  connectLeft' < connectLeft
<1>1. attempt \in 0..1
  BY DEF CredentialsInv, CountsOK
<1>2. CASE cpc' = "ensure" /\ ~inner' /\ inner /\ attempt = 0 /\ attempt' = 1
  <2>1. stageLeft \in 1..6 /\ stageLeft' = 9
    BY <1>1, <1>2 DEF stageLeft, Connecting
  <2> QED
    BY <1>2, <2>1 DEF connectLeft, Connecting
<1>3. CASE cpc' \notin Connecting
  <2>1. stageLeft \in 1..9
    BY <1>1 DEF stageLeft
  <2> QED
    BY <1>1, <1>3, <2>1 DEF connectLeft
<1>4. CASE cpc' \in Connecting /\ attempt' = attempt /\ stageLeft' < stageLeft
  <2>1. stageLeft \in 1..9 /\ stageLeft' \in 1..9
    BY DEF stageLeft
  <2>2. connectLeft = stageLeft + 9 * (1 - attempt) /\ connectLeft' = stageLeft' + 9 * (1 - attempt)
    BY <1>4 DEF connectLeft, Connecting
  <2>3. \A i, j \in 1..9, a \in 0..1 : i < j => i + 9 * (1 - a) < j + 9 * (1 - a)
    OBVIOUS
  <2>4. stageLeft' + 9 * (1 - attempt) < stageLeft + 9 * (1 - attempt)
    BY <1>1, <1>4, <2>1, <2>3
  <2> QED
    BY <2>2, <2>4, Zenon
<1>5. ASSUME NEW e, fail(e)
      PROVE  \/ cpc' = "ensure" /\ ~inner' /\ inner /\ attempt = 0 /\ attempt' = 1
             \/ cpc' = e
  BY <1>5 DEF fail, retried, nextAttempt, return
<1> DEFINE onward == cpc' \in Connecting /\ attempt' = attempt /\ stageLeft' < stageLeft
           retry == cpc' = "ensure" /\ ~inner' /\ inner /\ attempt = 0 /\ attempt' = 1
           out == cpc' \notin Connecting
<1>6. ASSUME anyFailure \/ fail("failed") \/ fail("needslogin") PROVE retry \/ out
  BY <1>5, <1>6 DEF anyFailure, Connecting
<1>7. CASE Ensure
  <2>1. CASE ensured
    <3>1. \/ ~inner /\ stageLeft = 9 /\ stageLeft' = 6
          \/ inner /\ stageLeft = 6 /\ stageLeft' = 3
      BY <1>1, <1>7, <2>1 DEF Ensure, ensured, goTo, stageLeft
    <3>2. onward
      BY <2>1, <3>1 DEF ensured, goTo, Connecting
    <3> QED
      BY <1>4, <3>2
  <2>2. CASE goTo("refresh") /\ UNCHANGED inner
    <3>1. \/ stageLeft = 9 /\ stageLeft' = 8
          \/ stageLeft = 6 /\ stageLeft' = 5
      BY <1>1, <1>7, <2>2 DEF Ensure, goTo, stageLeft
    <3>2. onward
      BY <2>2, <3>1 DEF goTo, Connecting
    <3> QED
      BY <1>4, <3>2
  <2>3. CASE fail("needslogin")
    BY <1>2, <1>3, <1>6, <2>3
  <2> QED
    BY <1>7, <2>1, <2>2, <2>3 DEF Ensure
<1>8. CASE Refresh
  <2>1. CASE goTo("save") /\ UNCHANGED inner
    <3>1. \/ stageLeft = 8 /\ stageLeft' = 7
          \/ stageLeft = 5 /\ stageLeft' = 4
      BY <1>1, <1>8, <2>1 DEF Refresh, goTo, stageLeft
    <3>2. onward
      BY <2>1, <3>1 DEF goTo, Connecting
    <3> QED
      BY <1>4, <3>2
  <2>2. CASE anyFailure
    BY <1>2, <1>3, <1>6, <2>2
  <2> QED
    BY <1>8, <2>1, <2>2 DEF Refresh
<1>9. CASE Save
  <2>1. CASE ensured
    <3>1. \/ stageLeft = 7 /\ stageLeft' = 6
          \/ stageLeft = 4 /\ stageLeft' = 3
      BY <1>1, <1>9, <2>1 DEF Save, ensured, goTo, stageLeft
    <3>2. onward
      BY <2>1, <3>1 DEF ensured, goTo, Connecting
    <3> QED
      BY <1>4, <3>2
  <2>2. CASE saveFailed
    BY <1>2, <1>3, <1>6, <2>2 DEF saveFailed
  <2> QED
    BY <1>9, <2>1, <2>2 DEF Save
<1>10. CASE Fetch \/ Open
  <2>1. CASE cpc = "typed" /\ goTo("fetch")
    <3>1. stageLeft = 3 /\ stageLeft' = 2
      BY <2>1 DEF goTo, stageLeft
    <3>2. onward
      BY <2>1, <3>1 DEF goTo, Connecting
    <3> QED
      BY <1>4, <3>2
  <2>2. CASE cpc = "fetch" /\ goTo("open")
    <3>1. stageLeft = 2 /\ stageLeft' = 1
      BY <2>2 DEF goTo, stageLeft
    <3>2. onward
      BY <2>2, <3>1 DEF goTo, Connecting
    <3> QED
      BY <1>4, <3>2
  <2>3. CASE anyFailure \/ fail("failed")
    BY <1>2, <1>3, <1>6, <2>3
  <2> QED
    BY <1>10, <2>1, <2>2, <2>3 DEF Fetch, Open
<1>11. CASE OpenReturn
  <2>1. CASE return("tunnel")
    BY <1>3, <2>1 DEF return, Connecting
  <2>2. CASE anyFailure
    BY <1>2, <1>3, <1>6, <2>2
  <2> QED
    BY <1>11, <2>1, <2>2 DEF OpenReturn
<1>12. ~New
  BY DEF New, Connecting
<1> QED
  BY <1>7, <1>8, <1>9, <1>10, <1>11, <1>12 DEF ConnectStep

\* connect.go and api.go: a Connect is at most eighteen steps, two attempts with
\* their refreshes, however often its tokens expire and whatever the server and
\* a login in another process do.
THEOREM EndsInSteps == Spec => [](connectLeft \in 0..18) /\ [][nearer]_vars
<1>1. CredentialsInv => connectLeft \in 0..18
  <2> SUFFICES ASSUME CredentialsInv PROVE connectLeft \in 0..18
    OBVIOUS
  <2>1. stageLeft \in 1..9
    BY DEF stageLeft
  <2>2. attempt \in 0..1
    BY DEF CredentialsInv, CountsOK
  <2> QED
    BY <2>1, <2>2 DEF connectLeft
<1>2. ASSUME CredentialsInv, Next, cpc \in Connecting
      PROVE  connectLeft' < connectLeft \/ (UNCHANGED connectLeft /\ (LoginStep \/ Expire))
  <2>1. CASE ConnectStep
    BY <1>2, <2>1, StageLeft
  <2>2. CASE LoginStep \/ Expire
    <3>1. UNCHANGED <<cpc, inner, attempt>>
      BY <2>2 DEF LoginStep, LoginNew, LoginEnsure, LoginReply, LoginSave, LoginExit, Expire, connectVars
    <3>2. UNCHANGED connectLeft
      BY <3>1, Zenon DEF connectLeft, stageLeft, Connecting
    <3> QED
      BY <2>2, <3>2
  <2>3. CASE Restart
    <3>1. stageLeft \in 1..9 /\ attempt \in 0..1
      BY <1>2 DEF stageLeft, CredentialsInv, CountsOK
    <3>2. connectLeft' = 0
      BY <2>3 DEF Restart, return, connectLeft, Connecting
    <3> QED
      BY <1>2, <3>1, <3>2 DEF connectLeft
  <2>4. ~Again /\ ~Baseline /\ ~Watch
    BY <1>2 DEF Again, Baseline, Watch, Connecting
  <2> QED
    BY <1>2, <2>1, <2>2, <2>3, <2>4 DEF Next
<1>3. CredentialsInv /\ [Next]_vars => [nearer]_vars
  BY <1>2 DEF nearer
<1> QED
  BY <1>1, <1>3, CredentialsInvariant, PTL DEF Spec
==============================================================================
