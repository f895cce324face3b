------------------------------ MODULE Command ------------------------------
(***************************************************************************)
(* One run of the program: runWithServices, authenticate, and for check,   *)
(* probe and export-mihomo the stages of tunnel.Open, check and            *)
(* exportMihomo, with their one retry.  serve is module Service; here it   *)
(* runs and returns.                                                       *)
(*                                                                         *)
(* A session of the API is its number: every login and every refresh gives *)
(* a new one.  The server, the network, the disk and the user do as they   *)
(* please; Ctrl-C may come at any time.                                    *)
(***************************************************************************)
EXTENDS Mihomo

CONSTANTS Pushes,  \* the PUSH bodies a server may send
          Targets, \* what probe may be given, a pair of destination and port
  Flows,   \* what Mihomo may be asked to route
          None

\* A connection goes to a port; Loopback is a prefix.
ASSUME CommandAssumption ==
  /\ \A push \in Pushes : ParsePush(push) # None
  /\ \A f \in Flows : f.port # 0
  /\ Loopback.kind = "prefix"

Commands == {"help", "invalid", "automatic", "serve", "login", "check", "probe", "export"}

VARIABLES
  cmd, force, fragment, callback, \* the command line and SL_CALLBACK_URL
  pc,
  done,      \* ctx is cancelled
  session,   \* the number of the API session, 0 for none
  profile,   \* the session the VPN profile was made with
  refreshed, \* VPNConfig asked for a login, and the session was refreshed
  try,       \* how often perform was called
  refused,   \* history: the profiles the VPN rejected
  clients,   \* the OpenVPN clients that are open
  lost,      \* SessionDone is closed
  policy,    \* the snapshot, once parsed
  verified,  \* report.DataChannelVerified
  file,      \* the output file: None for what was there before
  err        \* what run returns

argVars == <<cmd, force, fragment, callback>>
apiVars == <<session, profile, refreshed>>
vpnVars == <<clients, lost, policy, verified>>
vars == <<argVars, pc, done, apiVars, try, refused, vpnVars, file, err>>

Init ==
  /\ cmd \in Commands /\ force \in BOOLEAN /\ fragment \in BOOLEAN /\ callback \in BOOLEAN
  /\ force => cmd = "login"
  /\ fragment => cmd = "export"
  /\ pc = "start" /\ done \in BOOLEAN
  /\ session \in {0, 1} /\ profile = 0 /\ refreshed = FALSE
  /\ try = 0 /\ refused = {} /\ file = None /\ err = FALSE
  /\ clients = 0 /\ lost = FALSE /\ policy = None /\ verified = FALSE

goTo(l) == pc' = l /\ UNCHANGED err
return(e) == pc' = "returned" /\ err' = e

----------------------------------------------------------------------------
(* runWithServices, up to the VPN profile.                                 *)

\* parseExportOptions and resolve, for export-mihomo: an option, the extension
\* of the output or the listener's address is refused.
resolve == cmd = "export" /\ return(TRUE)

\* The arguments are checked, then ctx and the directories.  The usage text may
\* not be written.
Dispatch ==
  /\ pc = "start"
  /\ \/ cmd = "help" /\ return(FALSE)
     \/ resolve \/ return(TRUE)
     \/ ~done /\ cmd = "serve" /\ goTo("serve")
     \/ ~done /\ cmd \notin {"help", "invalid", "serve"} /\ goTo("new")
  /\ UNCHANGED <<argVars, done, apiVars, try, refused, vpnVars, file>>

\* svc.serve returns.
Serve ==
  /\ pc = "serve" /\ (return(TRUE) \/ return(FALSE))
  /\ UNCHANGED <<argVars, done, apiVars, try, refused, vpnVars, file>>

\* securelink.New reads the session file or fails.
New ==
  /\ pc = "new" /\ (goTo("authenticate") \/ return(TRUE))
  /\ UNCHANGED <<argVars, done, apiVars, try, refused, vpnVars, file>>

\* What follows authenticate.
authenticated ==
  \/ cmd = "login" /\ return(FALSE)
  \/ cmd = "automatic" /\ IF done THEN return(TRUE) ELSE goTo("serve")
  \/ cmd \notin {"login", "automatic"} /\ goTo("config")

\* EnsureSession(ctx, false), unless a new login is asked for: the cached
\* session is valid, is refreshed, has to be replaced, or there is an error.
Authenticate ==
  /\ pc = "authenticate"
  /\ \/ (callback \/ force) /\ goTo("login") /\ UNCHANGED session
     \/ /\ ~callback /\ ~force
        /\ \/ session > 0 /\ session' \in {session, session + 1} /\ authenticated
           \/ (goTo("login") \/ return(TRUE)) /\ UNCHANGED session
  /\ UNCHANGED <<argVars, done, profile, refreshed, try, refused, vpnVars, file>>

\* Login, with the prompt: the user may never answer.
Login ==
  /\ pc = "login"
  /\ \/ ~done /\ session' = session + 1 /\ authenticated
     \/ return(TRUE) /\ UNCHANGED session
  /\ UNCHANGED <<argVars, done, profile, refreshed, try, refused, vpnVars, file>>

\* VPNConfig, which may refresh an expired session, and Profile.  A login
\* required is answered by one forced refresh, before the first try only.
Config ==
  /\ pc = "config"
  /\ \/ /\ session' \in {session, session + 1} /\ profile' = session'
        /\ try' = try + 1 /\ goTo("dial") /\ UNCHANGED refreshed
     \/ /\ try = 0 /\ ~refreshed /\ refreshed' = TRUE
        /\ goTo("refresh") /\ UNCHANGED <<session, profile, try>>
     \/ return(TRUE) /\ UNCHANGED <<apiVars, try>>
  /\ UNCHANGED <<argVars, done, refused, vpnVars, file>>

\* Mutant: the session that was rejected is used again.
renewedNever == session
renewed == session + 1

\* EnsureSession(ctx, true).
Refresh ==
  /\ pc = "refresh"
  /\ \/ session' = renewed /\ goTo("config")
     \/ return(TRUE) /\ UNCHANGED session
  /\ UNCHANGED <<argVars, done, profile, refreshed, try, refused, vpnVars, file>>

----------------------------------------------------------------------------
(* tunnel.Open.                                                            *)

\* Mutant: an early return leaves the client open.
closeClientNever == UNCHANGED clients
\* The deferred function: if result == nil { cli.Close() }
closeClient == clients' = clients - 1

\* ParseXMU and openvpn.Dial.
OpenDial ==
  /\ pc = "dial"
  /\ \/ ~done /\ clients' = clients + 1 /\ lost' = FALSE /\ goTo("pushed") /\ UNCHANGED refused
     \/ /\ refused' = refused \cup {profile}
        /\ IF try = 1 THEN goTo("refresh") ELSE return(TRUE)
        /\ UNCHANGED <<clients, lost>>
     \/ return(TRUE) /\ UNCHANGED <<clients, lost, refused>>
  /\ policy' = None /\ verified' = FALSE
  /\ UNCHANGED <<argVars, done, apiVars, try, file>>

\* The address, the cipher and the ACL of the PUSH_REPLY.
OpenPushed ==
  /\ pc = "pushed"
  /\ \/ \E push \in Pushes :
          /\ policy' = ParsePush(push)
          /\ IF policy' \notin {Bad, {}} THEN goTo("verify") /\ UNCHANGED clients
             ELSE return(TRUE) /\ closeClient
     \/ return(TRUE) /\ closeClient /\ UNCHANGED policy
  /\ UNCHANGED <<argVars, done, apiVars, try, refused, lost, verified, file>>

\* The ticker finds that data was received ...
OpenVerified ==
  /\ pc = "verify"
  /\ verified' = TRUE /\ goTo("stack")
  /\ UNCHANGED <<argVars, done, apiVars, try, refused, clients, lost, policy, file>>

\* Mutant: the loop waits for the session or for Ctrl-C only.
verifyOverNever == lost \/ done
\* verifyCtx expires after twelve seconds.
verifyOver == TRUE

\* Mutant: the loop is left and Open goes on.
unverifiedBreaks == goTo("stack") /\ UNCHANGED clients
unverified == return(TRUE) /\ closeClient

\* ... or the time, ctx or the session ends first.
OpenUnverified ==
  /\ pc = "verify" /\ verifyOver
  /\ unverified
  /\ UNCHANGED <<argVars, done, apiVars, try, refused, lost, policy, verified, file>>

\* netstack.New, and Open returns.
OpenStack ==
  /\ pc = "stack"
  /\ \/ goTo("perform") /\ UNCHANGED clients
     \/ return(TRUE) /\ closeClient
  /\ UNCHANGED <<argVars, done, apiVars, try, refused, lost, policy, verified, file>>
----------------------------------------------------------------------------
(* check, exportMihomo, and the end of runWithServices.                    *)

\* perform is over with error e; the session is closed by a deferred call.
finish(e) == pc' = "close" /\ err' = e

\* check: the target of a probe is authorised and dialled.
Check ==
  /\ pc = "perform" /\ cmd \in {"check", "probe"}
  /\ \/ cmd = "check" /\ finish(FALSE)
     \/ cmd = "probe" /\ (\E t \in Targets : AllowsTCP(policy, t.to, t.port)) /\ finish(FALSE)
     \/ cmd = "probe" /\ finish(TRUE)
  /\ UNCHANGED <<argVars, done, apiVars, try, refused, vpnVars, file>>

\* exportMihomo: the remote is an address and the session still lives.
Export ==
  /\ pc = "perform" /\ cmd = "export"
  /\ finish(TRUE) \/ (~lost /\ goTo("write"))
  /\ UNCHANGED <<argVars, done, apiVars, try, refused, vpnVars, file>>

\* mihomo.Write: Render, ctx.Err, and the file is replaced or kept.
Write ==
  /\ pc = "write"
  /\ \/ /\ ~done
        /\ file' = [of |-> policy, tiers |-> Render(policy, fragment)]
        /\ finish(FALSE)
     \/ finish(TRUE) /\ UNCHANGED file
  /\ UNCHANGED <<argVars, done, apiVars, try, refused, vpnVars>>

\* session.Close; then a report that cannot be printed is an error.
Close ==
  /\ pc = "close"
  /\ closeClient
  /\ return(err) \/ (cmd # "export" /\ return(TRUE))
  /\ UNCHANGED <<argVars, done, apiVars, try, refused, lost, policy, verified, file>>

Cancel ==
  /\ ~done /\ pc # "returned" /\ done' = TRUE
  /\ UNCHANGED <<argVars, pc, apiVars, try, refused, vpnVars, file, err>>

Lose ==
  /\ clients > 0 /\ ~lost /\ lost' = TRUE
  /\ UNCHANGED <<argVars, pc, done, apiVars, try, refused, clients, policy, verified, file, err>>

\* What ends without the user and the server.
Progress ==
  \/ Dispatch \/ New \/ Authenticate \/ Config \/ Refresh
  \/ OpenDial \/ OpenPushed \/ OpenUnverified \/ OpenStack \/ Check \/ Export \/ Write \/ Close
  \/ done /\ (Serve \/ Login)

Next == Progress \/ Serve \/ Login \/ OpenVerified \/ Cancel \/ Lose

\* Requests, the handshake and dials have timeouts; nothing makes a user log in
\* or a server send data.
Spec == Init /\ [][Next]_vars /\ WF_vars(Progress)

----------------------------------------------------------------------------
(* Properties.                                                             *)

\* The account allows one VPN session: two are never open together, also when
\* the handshake is retried, and none is left behind by any early return.
ClientsClosed ==
  /\ clients \in 0..1
  /\ pc = "dial" \/ pc = "returned" => clients = 0

\* "refreshing SecureLink session once": at most two handshakes, and the second
\* never with a profile of the session the VPN rejected.
RejectedOnce == /\ pc = "dial" => try \in 1..2 /\ profile \notin refused
                /\ Cardinality(refused) <= 2

\* The commands report success, and replace the file, only for a session whose
\* data channel was verified and whose ACL grants something.
SuccessVerified ==
  (pc = "close" /\ ~err) \/ file # None => verified /\ policy \notin {None, Bad, {}}

\* The destinations the documentation exempts from the ACL's rules.
exempt(f) ==
  \/ f.own \/ matches(Prefix(Remote, Bits), f.to) \/ matches(Loopback, f.to)
  \/ f.to.kind = "name" /\ f.to.name \in Control

\* The campus detector has a second name.
names(f) == {f.to} \cup IF f.to = Name(IP4) THEN {Name(IP)} ELSE {}

authorised(s, f) == f.tcp /\ \E n \in names(f) : Allows(s, n, f.port)

known(s, f) ==
  \/ \E n \in names(f), e \in s : matches(e.dest, n)
  \/ f.to.kind = "name" /\ IsSuffix(Zone, f.to.name)

faithful(s, tiers, f) ==
  ~exempt(f) => /\ route(tiers, f) = "XMU" <=> authorised(s, f)
                /\ known(s, f) => route(tiers, f) \in {"XMU", "REJECT"}

\* The exported rules send to the gateway what the snapshot authorises (and the
\* campus detector, under its second name, what it authorises under the first)
\* and nothing else; other ports and UDP of a destination the snapshot knows,
\* and the other names of the university, never become public traffic, however
\* the grants overlap.
ExportFaithful == file # None => \A f \in Flows : faithful(file.of, file.tiers, f)

\* With credentials at hand the command ends by itself, and Ctrl-C ends it in
\* any state.
CommandEnds == (pc = "config" \/ done) ~> pc = "returned"
============================================================================
