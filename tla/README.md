# A formal model of securelink2socks

securelink2socks logs in to the XMU SecureLink service, keeps a userspace OpenVPN session, and offers it as a SOCKS5 server on 127.0.0.1.  Every connection it relays must have been authorised by the ACL of the session that carries it, and when that session ends everything it authorised must end with it ("fail closed").  These modules model the parts of the program that make this true, TLC checks them on small instances, and TLAPS proves every safety property of them for instances of any size.

Paths below are relative to the repository; line numbers are in `PROJECT.json`.

## 1. Inventory

| Component | State it keeps | Operations | What makes it correct |
|---|---|---|---|
| `gateway.Backend` (`internal/gateway/backend.go`) | mutex, current generation (tunnel, ctx, table of tracked connections) | `Ready`, `Replace`, `DialContext`, `trackedConn.Close/CloseWrite/Done` | no connection outlives its generation; each was authorised by its own ACL; tables exact; no deadlock with `Close`; late dials fail |
| `app.Supervisor` (`internal/app/supervisor.go`) | local tunnel, delay, last state notified | `Run` | at most one tunnel, closed on every path; nothing published unless ready; backoff bounded and growing; stops on Ctrl-C |
| service assembly (`cmd/.../main.go` `serve`) | one Backend, one ctx, two goroutines | `serve` | the two components meet each other's assumptions; no traffic while the user is told that the VPN is down |
| SOCKS server (`internal/socks/server.go`) | per client: connection, deadline, remote, two copiers, a watcher, two ctx callbacks | `Serve`, `Handle`, relay | every handler and copy is joined (a watcher ends with its handler, which does not wait for it); half-close respected; revocation and shutdown reach idle clients; right replies |
| Connector, WaitForLogin (`internal/app/connect.go`) | loop variable; baseline of a file | `Connector`, `WaitForLogin` | bounded retries, one forced refresh, no request with a refused file, no login missed |
| API client (`internal/securelink/api.go`) | session in memory, `session.json` | `New`, `EnsureSession`, `Login`, `VPNConfig`, `capture`, `save`, `post` | tokens saved before use; retries use a new token |
| state files (`internal/storage/state.go`) | `session.json`, `device_id` | `Write`, `SaveJSON`, `DeviceID` | readers see whole files; one device ID per directory |
| command line (`cmd/.../main.go`) | none | `run`, `login`, `authenticate`, `prompt` | one retry with a renewed session; success only for a verified tunnel; every command ends |
| tunnel session (`internal/tunnel/session.go`, `check.go`) | OpenVPN client, stack, ACL, DNS servers | `Open`, `DialContext`, `Done`, `Close` | only verified tunnels with an ACL; the client closed on every failure |
| domain dials, DNS (`internal/tunnel/domain.go`, `dns.go`) | none | `dialDomain`, `lookupIPv4`, `resolveDNS`, `dnsAnswers` | only authorised addresses; alias loops end |
| ACL (`internal/acl/acl.go`) | immutable rules | `ParsePush`, `AllowsTCP`, `AllowsDomainTCP` | exact matching of prefixes, ports, wildcards |
| Mihomo export (`internal/mihomo/export.go`, `cmd/.../export.go`) | output file | `Render`, `Write` | rules grant exactly the ACL; output independent of order |
| profile, crypto, AEAD policy (`internal/securelink/`) | none | text and cipher transformations | not a state machine |

How they interact.  `serve` starts `Supervisor.Run` in a goroutine and runs `socks.Serve` in its own; both use one `Backend` and one ctx.  The supervisor calls the Connector, which reads `session.json` through the API client and opens a tunnel, then gives it to `Backend.Replace`.  Every SOCKS handler calls `Backend.DialContext` and gets a tracked connection, which it closes itself or which `Replace` closes under its feet; the handler's watcher learns of it through `Done`.  A `login` command in another process meets the service only in `session.json`.

What is hard: dials race with `Replace` and with the end of ctx; closes race with each other and take the mutex `Replace` uses; the supervisor can be cancelled or lose its tunnel between any two of its steps; a session file is replaced by another process between a read and a later stat; a client may stay silent in every state of a handler.  `PROJECT.json` lists these hazards at their lines, each with the properties that cover it or the reason that none does.

## 2. Modules

| Module | Models | State and actions |
|---|---|---|
| `Revocation` | abstract: what the Backend promises | a current tunnel, links with their owners, a switch under way; `Connect`, `Drop`, `Switch`, `Revoked` |
| `Backend` | `gateway/backend.go` | one `pc` per `DialContext` call (`dpc`), a life cycle per connection (`conn`), `Replace`'s locals, the mutex; one action per critical section and per step outside the lock |
| `Supervisor` | `app/supervisor.go` | `spc` walks through the lines of `Run`; the Backend appears as the three steps of a `Replace` that takes time |
| `Service` | `serve` | INSTANCEs of `Backend` and `Supervisor` sharing `current`, `tun` and `Replace`'s variables; the supervisor's calls *are* the Backend's |
| `Credentials` | `app/connect.go`, `securelink/api.go`, `login` | session file with identity, the service's client, a login command; server answers are arbitrary |
| `Socks` | `socks/server.go` | per client: handler's place, both connections and their peers, deadline, both copiers |
| `Once` | abstract: what `DeviceID` promises | the ID chosen, the IDs given; `Choose`, `Give`, `PowerLoss` |
| `Storage` | `storage/state.go` | per process its place in `Write` and in `DeviceID`; both files as a reader finds them and as a power failure may leave them; `Kill`, `WriteBack`, `PowerLoss` |
| `Resolver` | `tunnel/domain.go`, `tunnel/dns.go` | one `DialDomainContext`: the resolver, the network, the depth and name of `resolveDNS`, the time left of both contexts, the addresses to dial |
| `Acl` | `acl/acl.go` | no state: `ParsePush` and the two `Allows` operators |
| `Mihomo` | `mihomo/export.go` | no state: `Render` as tiers of rules, and `route`, how Mihomo reads them |
| `Command` | `main.go` `runWithServices`, `tunnel/session.go` `Open`, `check.go`, `export.go` | one run of the program: `pc` walks through its stages; API session and profile by number, open OpenVPN clients, the parsed ACL, the output file |
| `XProofs` | theorems about `X`, for `Backend`, `Supervisor`, `Service`, `Credentials`, `Socks`, `Storage`, `Resolver`, `Command` | |
| `MCBackend`, `MCService`, `MCStorage`, `MCResolver`, `MCCommand` | constants and symmetry for TLC | |

Composition: `Service` composes `Backend` and `Supervisor`; `Command` extends `Mihomo`, which extends `Acl`.

Correspondence, and what is abstracted:

* **Backend.**  `lock1/admit` is the first critical section of `DialContext`, `dialing` the dial outside the lock, `lock2/settle` the second critical section.  A dial may return a connection although its ctx is done (the late dial of `TestLateDialCannotJoinNewGeneration`).  `conn[c]` goes `raw` (dialled), `open` (tracked), `closing` (done closed), `closed` (raw Close returned), `deleting` (lock held), `removed`.  `sync.Once` is the guard of `enterClose`: later closers wait for `removed`, as `ReplaceClosed` does.  A generation is named by its tunnel because each is published once, which `ReplaceCall` assumes and `Service` shows (`BackendSpec`).  `Ready` has no action: it reads under the lock.  `CloseWrite` changes nothing here: where the tunnel's connection cannot close one direction it is the caller's `Close`, and `Socks` models it.
* **Supervisor.**  Time is the value of `delay`; a session of more than a minute is a choice in `Revoked`.  `Connect` returns a tunnel, a login error or another error at any time, also after ctx is done.
* **Service.**  A step of `Run` that calls `Replace` moves the Backend's `rpc` to `lock` in the same step; `TunnelUp`, `TunnelDiscard` and `ReplaceCall` of `Backend` are then the supervisor's.
* **Credentials.**  A token is its issue number; expiry can strike at any time.  `fver` stands for inode, mtime and size of `session.json`: every `Write` renames a new file.  `seen` and `refused` are history variables for the properties.  The SSO of `Login` is one request that succeeds or fails.
* **Socks.**  Bytes are not modelled; a read returns data, FIN or an error.  Either peer may send FIN, disappear, or stop reading for good (`stalled`, `rstalled`), which blocks the copy that writes to it.  `half` is a choice of the dial: whether the tunnel's connection can close one direction; if not, `closeWrite` closes both.  `revoked` is history.  A malformed greeting or request is a choice.
* **Storage.**  The content of a file is one value, `Torn` if it is not complete (the empty file too).  A temporary file has a random name and so belongs to its process.  `sdisk` and `ddisk` are the contents a power failure may leave: a rename adds the new content and keeps the earlier ones, because the directory is not synced; without `f.Sync` it would add `Torn`.
* **Resolver.**  The host and the port are such as `Backend.DialContext` passes on, so that the refusal at the head of `dialDomain` (a name that is not canonical, port 0, no ACL) has no step.  Time counts in half seconds, and an exchange or a dial is one step that takes some of what its context has left.  `dnsAnswers` follows the names turn by turn (`chain`) over a message, a sequence of records, and stops at the first turn that ends the loop.  `reached` and `owned` are history, computed by a definition that does not follow the code: the least set of names closed under the aliases of the answers used.
* **Acl, Mihomo.**  Addresses have `Bits` bits and ports go up to `MaxPort`; a name is a sequence of labels, already canonical (`CanonicalDomain` is text).  A snapshot is its entries; `Render` sorts its rules, whose order within the allows and within the guards does not matter, so they are tiers.  `route` is external: Mihomo takes the first rule that matches, an IP rule with no-resolve never matches a name, and `hosts` gives `ip4.xmu.edu.cn` the address of `ip.xmu.edu.cn`.
* **Command.**  A session of the API is its number, and every login or refresh makes the next.  `refused` is history: the profiles the VPN rejected.  A loss of the session is seen only where the code looks: while it verifies, and before an export.  `serve` is one step that returns; `Service` models it.

`TypeOK` of `Credentials`, `Storage` and `Resolver` documents the states; in `Backend`, `Supervisor` and `Socks` it is part of the inductive invariant that is checked or proved, in `Storage` likewise (`StorageInv`).

Mutants: an operator preceded by "Mutant:" is not part of any specification.  Each property has one, in `PROJECT.json`: with it in place of the operator below it, TLC reports the property violated.  They show that the properties depend on the code's guards.

## 3. Runs and bounds

| Run | Instance | Shows |
|---|---|---|
| `Backend_safety` | 2 calls, 2 tunnels, 2 addresses and a name, different ACLs | the inductive invariant `IInv` (which contains `TypeOK` and `ConnsExact`), `RevokedOnReturn`, `Authorised`, `NoRawLeak`, and that `Backend` implements `Revocation` (`AbsSpec`) |
| `Supervisor` | 4 tunnels, backoff 1 to 5 | the inductive invariant `SInv` (which contains `TypeOK`), no leaked tunnel (`OneTunnel`), `FailClosed`, `BackoffGrows` |
| `Service_safety` | 2 calls, 2 tunnels, 2 addresses | `NoTrafficWhenDown`, `OneGeneration`, `StoppedClean`, and that each component satisfies the specification of the other's environment (`BackendSpec`, `SupervisorSpec`) |
| `Service_live` | 2 calls, 1 tunnel | stale dials fail (`StaleDialsFail`), closes complete (`CloseCompletes`), shutdown (`Terminates`) and loss (`LostConnsRemoved`) reach everything |
| `Credentials` | 3 tokens, 3 saves | bounded requests (`ConnectBounded`), tokens saved before use (`SavedBeforeUse`), a retry with a newer token (`RetryUsesNewToken`), no request with a refused file (`NoSpin`), `Connect` ends (`ConnectEnds`) |
| `Socks` | 1 client | joins (`ServeJoins`), half-close (`HalfCloseKept`); revocation (`RevocationReaches`), handshake (`HandshakeBounded`), relay (`RelayCompletes`) and shutdown (`ServeEnds`) end |
| `Storage` | 3 processes, 2 sessions, 2 IDs | whole session files (`WholeFiles`), and that `DeviceID` implements `Once` (`OnceSpec`) |
| `Resolver` | 5 resolvers (1 unsuitable), a name and an alias, 3 addresses (1 private), 13 messages | what is dialled (`DialsOwned`), what error is reported (`DeniedUntried`), the time of the first query (`FirstTCPHasTime`), the end of alias chains (`DialEnds`) |
| `Command` | addresses of 3 bits, 2 ports, every PUSH of up to 2 of 12 options, 64 flows | one VPN session (`ClientsClosed`), one retry of the handshake and never with a rejected session (`RejectedOnce`; refreshes it does not count: VPNConfig and the retry may each make one), verified success (`SuccessVerified`), faithful rules (`ExportFaithful`), the end (`CommandEnds`) |
| `Credentials_lostlogin`, `Credentials_hint` | 2 tokens, 2 saves | `LoginNoticed` and `HintWorks` are violated: section 5 |
| `Resolver_tcp` | as `Resolver` | `TCPHasTime` is violated: section 5 |

Why the bounds are enough.  The interesting races need two dials (one late, one admitted by the new generation) and two tunnels (old and new); with `None` as a third generation, `current` passes through nil, old and new.  The theorems remove these bounds for safety.  The supervisor needs three tunnels for one lost, one discarded and one published; its backoff reaches the maximum in three failures.  Credentials needs two tokens for a retry, one more for a login between, one for a second refresh; `ConnectBounded` is tight at these bounds (four refreshes are reached, three as the bound is violated).  Handlers of different clients meet only in `Serve`'s WaitGroup and in ctx; `Joins` and `KeepsHalfClose` are proved for any number of them.  `MaxTokens` and `MaxSaves` are guards of the model, not of the code: at the bound the server answers nothing and saves fail, which the code allows anyway.

Storage needs two processes for the race and a third that reads between them.  Resolver has the real depth (8), timeouts and cut-off (4 resolvers); `MaxIps` is 2 instead of 16 so that an answer can have more; the messages are one for every branch of `dnsAnswers`, and `h`, `a` suffice for loops and chains of any length, since the depth counts queries and not names.  Command's two options are the overlap of two grants (prefix in prefix, wildcard over name, port in any port, malformed beside good); the rules of a push are the union of those of its options.

`CHECK_DEADLOCK FALSE` is set only where the program ends: Supervisor, Service, Socks, Resolver and Command stop when they are done.  Deadlock is checked for Backend, Credentials and Storage, whose environments can always go on; the Backend's own freedom from deadlock is stated by `CloseCompletes` and `Terminates` of `Service_live`.

### Fairness

* Service: weak fairness of the supervisor's goroutine, of the one in `Replace` and of each request's, since Go schedules runnable goroutines; strong fairness of each lock step, since `sync.Mutex` hands the lock to a waiter that starves.  A dial whose ctx is done returns, since the stack's dials take that ctx; a raw Close returns; `Connect` returns because the API client has a 30 s timeout and `Open` has timeouts of 45 s and 12 s; timers fire; `WaitLogin` returns once ctx is done.  No fairness of dials in general, of requests, of the caller's own `Close`, of the loss of a tunnel or of Ctrl-C, and nothing makes a user log in.
* Credentials: the service's own steps only, never the login command's.
* Socks: handlers, timers and callbacks, a read that has something to see, and a copy only while its writes return (`sends`, `receives`): from `SetDeadline(time.Time{})` on nothing bounds a Write to a peer that does not read.  A Write returns once its connection is closed or reset.  Nothing makes a peer send, read or end.  So `RelayCompletes` is about peers that have not stopped reading, while `RevocationReaches` and `ServeEnds` hold for all.
* Resolver: its own steps, every one of which returns within its context.  That time passes is not assumed: `DialEnds` holds for answers that take no time.
* Command: what ends without the user and the server (`Progress`): requests, handshakes and dials have timeouts, and so has the verification.  A login and `serve` end for certain only when ctx is done.

## 4. What is proved

tlapm checks eight modules of theorems.  All hold for any sets of calls, tunnels and targets, finite or not.

**`BackendProofs`**, from `BackendAssumption` (names are targets, ACLs are sets of targets, `None` is none of these):

| Theorem | States |
|---|---|
| `TypeCorrect` | `Spec => []TypeOK` |
| `IInvariant` | `Spec => []IInv` |
| `Revoked` | `Spec => []RevokedOnReturn`: outside Replace's closing loop every live connection belongs to the current generation |
| `Doomed` | `Spec => []OldConnsDoomed` |
| `TablesExact` | `Spec => []ConnsExact` |
| `AllAuthorised` | `Spec => []Authorised` |
| `NoLeak` | `Spec => []NoRawLeak` |
| `TunnelsRetired` | `Spec => []RetiredTunnelsClosed`: once `Replace` has returned every retired tunnel is closed, and the published one never is |
| `LateRejected` | `Spec => [][lateRejected]_vars`: a dial overtaken by a replacement stays late until it fails as unavailable, with what it dialled closed |
| `ImplementsRevocation` | `Spec => AbsSpec` |

The argument.  `RevokedOnReturn` is not inductive: a connection that joins an old generation's table after `Replace` has collected it would survive.  `IInv` adds what excludes this.  `CallInv` ties the stage of a call to its generation and connection.  `GenInv` says that a generation is published once: `current` is not cancelled, everything ever admitted is `current` or cancelled, and retired tunnels are closed (or being closed).  `ConnsExact` says that the tables are exact, so that collecting a table collects everything.  `StaleInv` says that a live connection of an earlier generation is in `rpend` or is the one `Replace` waits for.  `AuthInv` carries the admission check to the end of the dial.  `Settle` preserves `StaleInv` because its check and its insertion are in one critical section, and `ReplaceSwap` because it collects under the same lock.  `InitIInv` and `IInvStep` (one step per action) give the theorem `IInvariant`; every other safety theorem follows from it.  `ImplementsRevocation` uses it for the guards of the abstract steps: `Switch` needs a tunnel that no connection belongs to, `Revoked` needs the closing loop to have finished.  TLC checks `IInv` and `AbsSpec` in `Backend_safety` as well.

**`SupervisorProofs`**, from `SupervisorAssumption` (the backoff bounds are integers of any sign and order, `None` is no tunnel):

| Theorem | States |
|---|---|
| `SInvariant` | `Spec => []SInv` |
| `NoSessionLeaks` | `Spec => []OneTunnel` |
| `FailsClosed` | `Spec => []FailClosed` |
| `BackoffMonotone` | `minimum <= maximum => (Spec => BackoffGrows)` |
| `StopsInSteps` | `Spec => [](stopLeft \in 0..17) /\ [][stopNearer]_vars`: once ctx is done Run has at most seventeen steps left |

The argument.  Whether a tunnel leaks depends on what the pending `Replace` is for.  `HeldInv` names the holder of every live tunnel: Run before it publishes, `Replace`'s argument before the swap, the Backend after it, `Replace`'s old tunnel while it closes.  `CallInv` says what each call of `Replace` was given and what it has done at each of its steps, and `RunInv` what Run holds between two calls.  With the two, each of the four holders excludes the others (`OneHolder`), which is `OneTunnel`.  The hypothesis of `BackoffMonotone` is needed: with `MinBackoff` above 30 s and no maximum, the maximum becomes 30 s and the first failure shortens the delay.  No caller configures that (`serve` leaves both at their defaults).  `stopLeft` counts the steps to the end of Run from each of its places, with two calls of `Replace` at most: one for the tunnel it may hold, one for the deferred stop.

**`ServiceProofs`**, from `ServiceAssumption` (the two assumptions together):

| Theorem | States |
|---|---|
| `ImplementsSupervisor` | `Spec => SupervisorSpec` |
| `ImplementsBackend` | `Spec => BackendSpec` |
| `DownMeansDown` | `Spec => []NoTrafficWhenDown` |
| `SingleGeneration` | `Spec => []OneGeneration` |
| `StopsClean` | `Spec => []StoppedClean` |
| `ServiceRevokes` | `Spec => B!AbsSpec`: the service as a whole implements `Revocation` |
| `KeepsPromises` | the invariants of both parts hold of the service: `Authorised`, `NoRawLeak`, `RetiredTunnelsClosed`, `OneTunnel` |

The argument.  Neither part's specification says what its environment is: `Backend` lets anyone bring up tunnels and call `Replace` when none is pending, `Supervisor` takes the Backend's `Replace` for granted.  Every step of the service is a step of `Supervisor` or leaves its variables alone, by the definitions.  That every step is one of `Backend` needs `SInv`: Run calls `Replace` only with nil or with the unpublished tunnel it holds, and only when no call is pending.  So both inductive invariants hold of the service, and what is proved of each part with them.  The rest is what neither says alone.  `OldInv`: while `Replace` closes, tracked connections belong to the generation it retired or to the one it published.  `DownInv`: the states that report the VPN down are announced when nothing is published, and last no longer than that.  `OneGeneration` then follows because one of the two generations is always nil, which is `CallInv` of the supervisor.  `ServiceRevokes` composes two refinements: the service implements `Backend`, and `Backend` implements `Revocation`.

**`CredentialsProofs`**, from `CredentialsAssumption` (the two bounds of the model are positive): `BoundsConnect`, `SavesBeforeUse`, `RetriesWithNewToken`, `NeverSpins` and `EndsInSteps`, from `CredentialsInvariant`.  None of the first four is inductive.  `BoundInv` says what an attempt may still ask for at each stage; `FileInv`, that the session in memory is the one in the file except between a refresh and its save, and that another process's save has a later version; `TokenInv`, that whatever attempt 1 uses was issued after the token attempt 0 was refused with; `SpinInv`, that the refused version is older than any that `Connect` reads.  `EndsInSteps` gives each stage of an attempt a number below that of the stage before it, and the first attempt nine more, which the retry gives up.

**`SocksProofs`**, with no assumption: `SocksTypes`, `Joins`, `KeepsHalfClose` and `EndsInSteps`, from `SocksInvariant`, which says of each client, by the place of its handler, which connections and copiers are alive.  That `Serve` leaves nothing behind then follows from the WaitGroup alone.  `HalfCloseKept` is not inductive: a connection may be closed before the relay begins, and a passed deadline would be an error of a copy that nothing excuses.  `KeptInv` says that whatever is closed before the handler's own exit has one of the causes the property names (`closedBy`), and that the relay has no deadline.  `EndsInSteps` weighs what a client has left: its place, the copies, connections and timers that can still end, and what its two peers can still do: twenty steps at most.  Every step for a client takes at least one off, because what a handler starts (a remote, two copies, a deadline) weighs less than the step that starts it; nothing adds to another client.

**`StorageProofs`**, from `StorageAssumption` (`Missing`, `Torn`, `None` are no contents): `FilesWhole` and `ImplementsOnce`, from `StorageInvariant`: a temporary file is synced before it is renamed (`TempInv`), and only the process that created `device_id` writes it, once, while it is still torn (`CreatorInv`).

**`CommandProofs`**, from `CommandAssumption` (`None` is no snapshot, no flow goes to port 0, and `Loopback`, one of the exceptions that come first in the rules, is a prefix):

| Theorem | States |
|---|---|
| `ClosesClients`, `RejectsOnce`, `SucceedsVerified` | `Spec => []ClientsClosed` and so on, from `CommandInvariant` |
| `PushDecides` | a snapshot allows a request if and only if one option of its push, read on its own, grants it |
| `RulesFaithful` | for any parsed snapshot and any flow, the rules that `Render` writes are faithful to the ACL |
| `RulesFollowPush` | from the push to the rules: an ordinary flow is routed to the gateway if and only if it is TCP and one option grants it |
| `ExportsFaithfully` | `Spec => []ExportFaithful` |
| `EndsInSteps` | `Spec => [][fewer]_vars`: a command is at most nineteen steps |

The argument.  The three parts of `CommandInvariant` keep themselves: where the client is open (`ClientInv`), that at a handshake the profile is of the current session and every rejected one of an earlier (`SessionInv`), and that verification and a usable ACL stay until the next `Open` (`VerifiedInv`).  The rules are proved about as operators, for any push, any number of options and any flow.  `HitsRule` and `AllowsBy` reduce a rule and a snapshot to one condition on the destination; `MatchesEntries` says what the merging of options keeps; `MissesExceptions`, `HitsAllows` and `HitsGuards` say when a tier of the rules decides, and `FirstDecides` that the first tier that hits does.  `FileInv` (an exported file holds the rules rendered from a snapshot that a push was parsed to) carries this to the program.  Port 0 is excluded because a rule that allows every port is written without one; no connection goes to it.

**`ResolverProofs`**, from `ResolverAssumption` (the host is a name; `Invalid` and `None` are none; messages are sequences of records with an address or an alias):

| Theorem | States |
|---|---|
| `LeavesTimeForTCP` | `Spec => []FirstTCPHasTime` |
| `AnswersFollow` | the name `dnsAnswers` ends at is in every set of names closed under the message's aliases that holds the first; the addresses are of that name, at most `MaxIps` |
| `OwnInvariant` | `Spec => [](TimeInv /\ OwnInv)` |
| `OnlyOwned` | `Spec => []DialsOwned` |
| `RefusesUntried` | `Spec => []DeniedUntried` |
| `EndsInSteps` | `Spec => [](stepsLeft \in Nat) /\ [][fewer]_vars`: a dial is at most `MaxIps + 4 * (2 * MaxDepth + 2) + 2` steps |

The argument.  `TimeInv` says that a resolver starts with its three seconds or all that the dial has left, and that UDP takes at most one exchange of it; it is not true of the second query, which is the finding of section 5.  `dnsAnswers` is two recursive functions: the addresses kept record by record, and the chain of names turn by turn.  The library's induction theorems take an operator as a parameter, which the provers cannot instantiate, so the module proves what it needs of the natural numbers itself: a nonempty set of them has a least element (`LeastNatural`, from `NatLessThanWellFounded` of the library), hence what is a set of numbers can be induced on (`Induction`, `Along`), and a function defined by its predecessor exists (`Recursion`).  With these, `AddrsRead` and `ChainNames` say what the two functions compute for every message, and `AnswersFollow` compares that with the reference, which does not follow the code.  `OwnInv` then carries it from query to query: what was reached stays reached, and the addresses to dial are owned.  `EndsInSteps` gives every resolver its two exchanges for each of `MaxDepth` names, whatever aliases come back.

Only model-checked: the eleven liveness properties, since fairness and ENABLED are beyond the prover.  For most of them the part that needs no fairness is proved.  That the program cannot go round in circles: `EndsInSteps` of `ResolverProofs` for `DialEnds`, of `CommandProofs` for `CommandEnds`, of `CredentialsProofs` for `ConnectEnds`, and of `SocksProofs` for `HandshakeBounded`, `RevocationReaches`, `RelayCompletes` and `ServeEnds`; `StopsInSteps` is Run's part of `Terminates`.  That a late dial can end in one way only: `LateRejected`, for `StaleDialsFail`.  That the steps left are taken, and that none of them waits for another forever, is what TLC checks.

## 5. Where the code and its documentation part

* `Credentials_lostlogin`: Connect reads `session.json` at its start; `WaitForLogin` takes its baseline after Connect has failed.  A login saved in between is part of the baseline and is not noticed until the file changes once more.
* `Credentials_hint`: an unreadable `session.json` is reported as NeedsLogin, and the user is told to run `login --force`, which fails on the same file before it looks at `--force`.
* `Resolver_tcp`: "Leave time for TCP when a server silently drops UDP" (`dns.go`).  The 1.5 s of an exchange do so for the first query.  The queries of an alias chain share the resolver's 3 s, so that after a slow first answer the second query's UDP exchange may use up the rest, and TCP is tried with a context that is done while the dial has time left.

Not a disagreement, but worth knowing: `errorReply` maps a dial timeout to 6 (TTL expired), and no client ever receives it.  The Backend reports ErrUnavailable once ctx is done, and the client's ten seconds, which start at Accept, are over before the dial's, so that no reply can be written at all.

Behaviours the models have and no property forbids, because the repository promises nothing about them: a login killed between the creation and the write of `device_id` leaves a file that every later login refuses; a power failure may bring back the session file before the last save, since the directory is not synced; a process killed in `Write` leaves its temporary file; any return code but 1 of the API, a transient one too, is a login required; a temporary error of `Accept` ends the service; after the remote's FIN a silent client keeps its handler as long as the tunnel lives, and so does, with both directions ended or not, a peer that has stopped reading what the other sent; the first four resolvers share a dial's ten seconds, the unsuitable ones counted; a session may be lost between the last look at it and the write of its export; a raw `Close` that blocked would hold up `Replace`, and the model assumes that the stack's returns.

## 6. Not modelled

Profile text (`profile.go`), API cryptography and the AEAD certificate policy: pure transformations without state or control worth checking.  The browser prompt, report text, the classification of handshake errors, the canonical form of names, the header of the exported file, CI workflows.  Of the API client, the requests of the SSO one by one and the envelope of `post`: each is one request whose only effect is its reply.  The OpenVPN client and the userspace stack are a git submodule and external: the models use only that `Done` closes when a session ends, that `Close` returns, that `Stats` counts received data and that dials honour ctx.  The models have no byte streams, and no clock but that of `Resolver`: what must hold for every timing is left to interleaving.

## 7. Plan

Done, in this order: `Backend`, `Revocation`, `Supervisor`, `Service` and their proofs; `Credentials`, `Socks`; `Storage`; `Resolver`; `Acl`, `Mihomo` and `Command`; the proofs about them.  Left:

1. `Gateway`: `Socks` on `Service`, so that `Revoke`, `Ready` and `Dial` are the Backend's, and a `Domain` dial is `Resolver`'s.
2. The SSO of `Login` request by request, with the deadline of the prompt.
3. Proofs: the composition of `Command` with `Credentials` (that a session number of the one is a token of the other); a step measure for `Replace` in the Backend, for `CloseCompletes`.
