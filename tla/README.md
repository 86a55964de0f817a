# Formal model of secure-telegram-mcp

The program is a daemon that owns Telegram sessions and serves MCP tool calls
through *endpoints*: an endpoint is an account, a scope of peers and a set of
verbs, fixed by a sealed policy that only an authenticated operator can change.
This directory holds TLA+ models of its concurrent core, the TLC runs that
check them on small instances, and TLAPS proofs of what matters most. Paths
below are relative to the repository's `src/` unless said otherwise.

## 1. Inventory

### Runtime core (modelled)

| Component | State | Operations | Interacts with | What is hard | Correct when |
|---|---|---|---|---|---|
| **Account runtimes**, `presentation/mcp/account-runtimes.ts` | per session reference the `current` runtime promise and the latest `retired` barrier | `get`, `withRetired`, `retireAll` | built and disposed by the daemon over the gateway | builds behind chains of retirements, each of which may reject; a retirement awaits a build that may await a retirement | one owner of a Telegram key, none during a mutation, no successor of an owner that could not be closed, every promise settles |
| **Policy contexts**, `presentation/mcp/policy-contexts.ts` | per endpoint a `current` context promise; the chain of retirements | `get`, `retire`, `barrier` | published by the session gate, built over account runtimes | contexts are captured while they are built or used | the barrier covers all of the old contexts, and nothing of them is cached |
| **Session gate**, `application/services/session-gate.ts`, and **policy application**, `policy-application.ts` | the enforced configuration | unlock, validate, seal, publish | session store, policy contexts | publication races calls | the published policy is the one new calls get, and an acknowledged policy governs |
| **Daemon**, `presentation/mcp/daemon.ts`, `endpoint-stack.ts` | posture, active key source, idle deadline, backoff, `shuttingDown` | connection handshake, context provider, operator handlers, shutdown | everything | operator operations, calls and shutdown interleave at every `await` | contexts are fresh, connections are closed under nobody, the lease is given up last |

### Start and end of the process (modelled but for the shims)

| Component | State | Operations | Interacts with | What is hard | Correct when |
|---|---|---|---|---|---|
| **Process lease**, `presentation/daemon-socket.ts` | a directory with the owner's record, under the name `owner` or that of a claim | acquire, replace a dead owner, recover an interrupted removal, release | the file system and the process table; other starters only through them | each decision is about a record read earlier; a crash between two renames; a PID that is free, or used again | one live holder; who is replaced is dead; a crash loses neither the lease nor the proof of a death |
| **Service start and stop**, `startDaemon()` and `shutdown()` in `presentation/mcp/daemon.ts` | two sockets and the lease | recover stale sockets, bind, serve, close, release | the lease, the connections of the runtime core | crashes anywhere, a socket unlinked by its path after a check | a serving process keeps its sockets; a dead one's can be removed |

### Data at rest (modelled but for the cryptography)

| Component | State | Operations | Interacts with | What is hard | Correct when |
|---|---|---|---|---|---|
| **Session store**, `infrastructure/session/EncryptedFileSessionStore.ts`, `session-envelope.ts`, `infrastructure/atomic-write.ts` | one blob per account and one for the policy, each with its key slots; the active source | save, remove, policy, PIN set/change/remove as a sweep over all blobs, recovery keyfile | the daemon's operator handlers, which keep the posture in memory; login sessions; session gate | a sweep that fails at one of many files or stops half way; writes that report failure and happened; posture and active source in memory against the files | the retained credentials open every blob; an acknowledged change left none behind; a hardened store is never taken for machine-bound |

### Requests and operators (modelled)

| Component | State | Operations | Interacts with | What is hard | Correct when |
|---|---|---|---|---|---|
| **Operator server**, `presentation/operator/server.ts`, `protocol.ts`, with the posture of `presentation/mcp/daemon.ts` | sockets and their request queues, the serial chain, the generation of authentications, failed guesses, closing flag | receive, authenticate, serial and other requests, prompt answer, disconnect, close, drain | login sessions, daemon handlers, the peer's reading | queueing against closing, posture against generation, a peer that stops reading | nothing privileged runs on an outdated credential; drain covers what may still change something; serial work gets its turn |
| **Login sessions**, `presentation/operator/login-sessions.ts`, `infrastructure/telegram/gramjs-account-login-client.ts` | sign-ins under way, their Telegram connections, logins ready to be committed | begin, commit, cancel, cancelOwner, disposeAll | the operator server's prompts, the account's runtime, the session store | commit against cancel, disconnect and shutdown | a connection always has an owner; a session is stored only after the connection that made it is closed |
| **Bounded transport**, `presentation/mcp/bounded-stream-transport.ts` | ids in flight | receive, send, close | the MCP SDK (external) | answers that never come | the bound holds and places are given back |
| **Use-case engine**, `application/use-cases/`, `application/services/access-policy.ts` | none of its own | resolve, authorise, confirm, charge, execute, audit | all below | a human's confirmation between check and effect | no effect without each check, every outcome audited |
| **Rate limiter**, `infrastructure/rate-limit/token-bucket-rate-limiter.ts` | per account the buckets, strikes, breaker | reserve, forgetSession | the engine and the clock | boundaries in time, buckets shared by endpoints | no interval admits more than a burst and the refill; a tripped breaker is respected |
| **Scoped client**, `infrastructure/telegram/gramjs-telegram-gateway.ts` | tracked operations, prepared media, idempotency keys | reads, lists, searches, writes, prepare and send media, dispose | the shared client | overlapping checks of engine and data layer; caps checked before an await | only declared chats and verbs are touched; a retry is not sent again; caps hold |
| **Gateway** (same file) | the shared client, its opening and reconnection, loans | loan, bind, snapshot, reconnect, dispose | account runtimes | disposal during opening and reconnection; a reconnect of a client that is being opened or aborted | nothing it knows of is alive after disposal |
| **Audit log**, `infrastructure/audit/` | a chain of appends | append | the engine | a failing append | order kept, an answer waits for its record |
| **Folder resolver**, `infrastructure/telegram/DialogFilterFolderResolver.ts`, and access lists | none | resolve | contexts | overlapping rules, exclusions | fails closed |

### The setup program (modelled but for texts and layout)

| Component | State | Operations | Interacts with | What is hard | Correct when |
|---|---|---|---|---|---|
| **Setup**, `presentation/cli/setup.ts`, `endpoint-hub.ts`, `endpoint-draft.ts` | the screen, a draft, the cached unlock, minted keys | edit, save and apply endpoints, login, logout, PIN changes | the configuration file and the daemon | a save that fails after its rename, edits by hand, runs that are killed | what the operator is told and shown holds |
| **Access picker**, `presentation/cli/picker/`, `config-mapper-impl.ts` | a selection of chats and folder units, cursor, tab, query | the keys of the screen, review, hydration and projection | setup; the projected access is what the runtime resolves | a folder is a unit or the sum of its chats; a chat in several folders; the own account twice | saved access is what the screen showed |

### Not modelled

- The **shim** (`presentation/mcp/connect.ts`, `openDaemonSocket`): it finds the daemon or
  starts one under a lease of the kind that `ProcessLease` models. Which of several
  shims starts it is decided by that lease.
- The **tool registry** and its schemas (a static table; `ToolCalls` has a tool of each kind of
  effect), the **Telegram mapping** (pure conversion), **cryptography** (ideal: a blob opens with
  exactly its secrets).
- The **Ink interface** but for the picker's keys and screens, and the parsing of
  **configuration** and domain values but for the rules that a saved document must meet.

## 2. Modules

| Module | Models |
|---|---|
| `OneOwner` | abstract: a key has at most one owner, and an owner that got stuck has no successor |
| `AccountRuntimes` | the class, each retirement chain step by step |
| `AccountRuntimesProofs` | its theorems |
| `PolicyContexts` | the class, as operators and actions for the daemon to compose |
| `Daemon` | tool calls, operator operations and shutdown over the two |
| `DaemonProofs` | theorems of the composition |
| `ProcessLease` | acquisition and release of a lease, one system call a step, and the deaths of processes |
| `ProcessLeaseProofs` | its theorems |
| `ServiceStart` | a daemon process around the lease: recovery of sockets, binding, shutdown; it extends `ProcessLease` and drives it |
| `ServiceStartProofs` | its theorems; it also extends `ProcessLeaseProofs` |
| `SessionStore` | the encrypted blobs, and the operator handlers of the daemon that write them |
| `SessionStoreProofs` | its theorems |
| `OperatorServer` | connections of operators, their requests, logins, shutdown |
| `OperatorServerProofs` | its theorems |
| `AccessRules` | operators: how a declared access resolves, which requests a call makes and where |
| `RateLimiter` | operators: the quota and breaker of an account as a record |
| `TelegramGateway` | the one connection of an account: opening, reconnection, loans, teardown |
| `ToolCalls` | a call from its frame to its answer; extends the three above |
| `ToolCallsProofs` | its theorems |
| `AccessPicker` | the access editor; extends `AccessRules`, with which the saved access is resolved |
| `Setup` | the setup program around the picker; extends it |
| `SetupProofs` | theorems about the picker and the program |
| `MC...` | constants for TLC: `MCAccountRuntimes`, `MCDaemon`, `MCProcessLease`, `MCServiceStart`, `MCSessionStore`, `MCOperatorServer`, `MCToolCalls`, `MCSetup` |

Three places are modelled twice, at two levels. `Daemon` has the contexts and runtimes of
all accounts and abstracts a call to its operations; `ToolCalls` has one account, and calls step by
step. `SessionStore` has secrets and files; `OperatorServer` numbers the secrets
and has the connections that know them. `Setup` sees of the daemon what it answers.

### State and actions against the code

**Promises by counting.** The code tells promises apart by identity
(`this.current.get(ref) === building`). The models number instead. The
`withRetired` calls of a reference are numbered as they are made, and because
each starts with `prior.then`, they complete in that order: `filed` counts the
calls, `settled` the completed ones, and `phase` says where the one under way
stands. A `get` made after *n* calls has retirement *n* as its barrier, and it
is captured by retirement *n + 1*, so its runtime is `runtime[r][n]`. A failed
build is evicted and leaves the place empty; a second build at the same place is
again the only one there. `PolicyContexts` counts the `retire` calls that
capture something in the same way (`evicted`, `disposed`, `sweeping`), with
`retiredBy` recording the batch of a context: an endpoint-wise retirement does not
capture the others.

**Steps.** Node runs one callback at a time and drains its microtasks before the
next one. What the code does between two waits for I/O, a timer or another
party is one step, and so is a settled promise with the continuations of those
who await it: `BuildStack` makes the runtime live and lets the contexts that
await it read the download cap, `BuildStackFails` evicts it and rejects them. A
wait for I/O always ends a step. Orders *within* one microtask drain are
outside the model; the one property that could depend on such an order
(`NeverExecutesStale`) leaves those states out.

**A policy** is the account each endpoint runs under, `NoRef` when the endpoint
is missing or when the key presented by the connection no longer matches
(`lockedContextProvider` checks all three on each call). Scope, verbs, kill
switch and cap are represented by the `revision` of the publication they came
with; a context's `binding` records the revision its endpoint was read at, the
revision its cap was read at, and the account runtime it stands on.

| Action | Code |
|---|---|
| `Acquire` | `lockedContextProvider`, `contextFor`, `stackForRef` up to the first wait |
| `StartStack`, `BuildStack`, `BuildStackFails` | the build in `stackForRef` after its barrier, and the continuation in `contextFor` |
| `FinishContext` | `resolveEndpointRuntime` settles |
| `BeginOperation`, `EndOperation`, `Answer` | a scoped operation is tracked and settles; the call is answered |
| `StartContextSweep`, `FinishContextSweep` | `allSettled(contexts)` and `allSettled(disposals)` of a retirement; `dispose()` of a scoped client waits for its tracked operations |
| `StartAuthenticate`, `Authenticated`, `StartApplyPolicy`, `PolicySealed`, `CheckFails`, `Acknowledge` | the operator handlers `authenticate` and `applyPolicy` with the gate's publication and the barrier behind it |
| `StartSnapshot`, `FinishSnapshot` | `snapshotAccount` |
| `StartMutation`, `RetireStack`, `AwaitContextBarrier`, `Mutate`, `FinishMutation` | `mutateAccountRuntime` under `commitLogin` and `removeAccount` |
| `Shutdown`, `OperatorDrained`, `ContextsDrained`, `RetireAll`, `ReleaseLease`, `ForceExit` | `shutdown`, its drain order, its failures and its watchdog |

Two guards of the operator operations come from `operator/server.ts`: one serial
operation at a time (`op.kind = "none"`), and an unlocked daemon for all but
`authenticate` (a locked daemon is hardened, and a hardened one wants an
authenticated operator). An operation admitted before a shutdown is still run
while `drain()` waits, hence `stage = "draining"` in `StartMutation`.
A snapshot or a mutation may find `stackForRef` refusing during a shutdown; it is
then answered with an error and changes nothing, and is left out.

Where a locked daemon is authenticated, the first policy it publishes is the
sealed one (`menu`). If it is already unlocked, the credential is verified and
nothing published, but the barrier is awaited all the same.

### The lease and the service

A *starter* is one acquisition, with its random identifier; `PidOf` gives its
process, which several starters may share (a process acquires again) or inherit
(a number is used again after its first user died). `strangers` holds the numbers of
unrelated processes. `lease[f]` is the owner recorded in file `f`: `OwnerFile`
or the claim of a starter, which renames the record to a name of its own before it judges
it. Candidate directories are private and left out: a record is complete when it
is published.

| Action | Code in `daemon-socket.ts` |
|---|---|
| `Begin`, `Publish`, `Inspect`, `ReadOwner` | a round of `acquireDaemonLease` up to the decision |
| `ClaimDeadOwner`, `VerifyClaim` | `replaceDeadOwner` |
| `ScanClaims`, `ReclaimClaim`, `JudgeClaim` | `recoverInterruptedRemoval` |
| `EnterClaim`, `SettleClaim`; `Restore` | `publishClaimedOwner`; the renames that give a record back |
| `ClaimOwnLease`, `RemoveLease` | `removeOwnedLease` |
| `Die`, `Stranger` | the operating system, at any moment |

`ServiceStart` adds the sockets: `EnterService` to `UnlinkSocket` is
`recoverStaleDaemonSocket` for the client and then the operator socket,
`BindSocket` the two `listen` calls with their failures, `StopOperator` and `CloseClients` the order of
`shutdown` (what it drains in between is `Daemon`'s), `GiveUpLease` the
release after a shutdown or a failed start. A socket file is told apart by the process that
bound it, where the code compares device and inode. The watchdog's exit is `ProcessEnds`.

### The session store

`slots[b]` is the set of secrets that open blob `b`, empty without a file; the
kind of a slot follows from its secret (`MachineId`, a PIN, a keyfile's bytes).
Opening a blob succeeds exactly when the source's secret is among them, which is what
`useSourceSlot` amounts to with ideal cryptography. The daemon has `active` (the
store's `keySource`), `posture` and `sourceKind` (`operatorPosture`,
`activeSourceKind`), and `unlocked`; `trusted` says that some operator connection is
authenticated. `change` is the sweep in progress, with the blobs left to do.
`kept` is no state of the program: it is what the operator must retain, every
credential used since the last acknowledged change, and that change's new one.

| Action | Code |
|---|---|
| `Boot`, `Stop` | `startDaemon` with the source of its environment, `shutdown` or a crash |
| `Authenticate`, `Disconnect` | `authenticate` with `SessionGate.authenticateOperator`; an operator's socket closes |
| `ApplyPolicy` | `applyPolicy`, `savePolicy` |
| `CommitLogin` | `commitLogin`, `OperatorLoginSessions.commit`, `save` |
| `RemoveAccount` | `removeAccount`, `remove` |
| `SetPin`, `ChangePin`, `RemovePin`, `ExportRecovery` | the start of `reseal` or `emitRecoveryKeyfile`, the keyfile's creation included |
| `ResealBlob` | one round of `resealAll` |
| `FinishFailed`, `AcknowledgeChange`, `AcknowledgeExport` | the handler's answer |

Operations that read or write blobs are serial in the operator server
(`OPERATOR_OPERATION_IS_SERIAL`), so only a sweep takes more than one step: a crash
during any other write is a write that failed or one that was not answered. `atomicWrite` renames before it
syncs the directory, so a write that reports failure may have happened (`Persisted`). When such a
write is the store's first, the daemon does not know the posture it decided, and
the next login may still choose the machine; `Undecided` then adds the machine to
`kept`. The source a login is committed with follows the setup program
(`cli/setup.ts:800`), which derives it from the daemon's posture (`Offered`); the
daemon itself does not check it.

### The operator server

`queue[c]` holds the requests of connection `c` that were accepted, its first being handled;
`job[c]` says where. A login is a connection and a number, `<<c, n>>`, so that one that is
ready and one under way can belong to the same peer. `serial` is the promise chain `serialOperations`: an
entry of flow 0 is the request of a connection, any other the answer to a prompt of that login. `credential` counts the secrets that have protected the store and
`proven[c]` is the last that `c` has shown or set; both are history, since the code has only
generations. A peer is a script of requests, chosen by `Init` among `Scenarios`, and humans and
Telegram decide each outcome.

| Action | Code |
|---|---|
| `Receive`, `FirstFrameTimeout`, `PeerLeaves`, `PeerReads`, `Disconnect` | the socket's data, first-frame timer, close and drain events |
| `TakeRequest`, `TakeTurn`, `Answer`, `HandleAnswer` | `enqueue`, `runSerial`, `handle` up to the first wait; the prompt broker |
| `AuthenticateEnds`, `CoolDown`, `HandlerEnds` | the handlers of `daemon.ts`, as far as they move posture and credential |
| `RetireForCommit`, `SaveLogin` | `OperatorLoginSessions.commit` around `mutateAccountRuntime` |
| `Conclude`, `ConcludeLogin`, `CancelEnds`, `EndFlush`, `EndStop` | the rest of `handle`: generation, answer, and its wait for the peer |
| `ConnectEnds`, `SignInError`, `SignInSucceeds`, `Ask`, `PublishLogin`, `DisposeEnds` | a sign-in and its client |
| `Shutdown`, `Drained`, `LoginsDisposed` | `shutdown` with `closeConnections`, `drain` and `disposeAll` |

### Calls

`at[c]` is the place of call `c` between its frame and its answer, `home[c]` the policy
generation its context belongs to. A *scene* says which calls the clients send, what the endpoints
may do in each generation, and which events may happen. A request to Telegram is a number
and the (chat, verb) pairs that it touches, `Requests` of `AccessRules`; `touched`, `approved`,
`ledger`, `spent`, `acks` and `knew` record what was done for the properties.

| Action | Code |
|---|---|
| `Receive`, `Answer`, `Cancel`, `Stall`, `Close` | `BoundedStreamTransport` and its client |
| `Acquire`, `AccessResolved`, `BindStarts`, `ClientBound`, `BuildFails` | `resolveEndpointRuntime`: resolve the access over a loan, bind a scoped client over another |
| `Execute`, `Approve`, `Decline` | the engine up to the scoped client's first wait: validation, access list, confirmation, then the limiter (`Charge`) and the client (`Run`) |
| `Linked`, `RequestEnds`, `Prepared`, `MediaConfined` | `withConnection` and the operations over it |
| `Audited` | an append of the audit log |
| `Publish`, `ReleaseSettles`, `Dispose`, `TeardownStep`, `Replace` | the disposal of scoped clients and of the gateway, for a policy or an account |
| `AskSnapshot`, `SnapshotEnds` | an operator's `snapshotAccount` |
| `ConnectionFails` (`LinkDrops`, `SenderReconnects`) | the network, and the hooks through which senders ask for a reconnect |
| `RelinkSettles`, `OpeningSettles` | `reconnectShared`, `openShared`, `destroyAbortedClient`, destroying |
| `Tick` | the clock, in units that refill a whole number of parts of a token |

Of the gateway, `link` is the shared client, `opening` the promise of `openShared` and `relink` that of
`reconnectShared`, one at a time whatever client it is for. Hooks are in place from the moment a client is connected,
so a sender can ask for a reconnect while its client is still checked. If the client is then
shared the reconnect goes on for it; if its opening is aborted the reconnect goes on as well: `relinkOf` says that
its client was aborted, and `aborted` that such a client has come up again. Both variables are about
clients that the code has let go: nothing in it reads them but that hook. `Disposed` and the beginning of an
abort neutralise the hooks, not a reconnect that is under way.

The MCP SDK is external: it answers every request but those its client cancelled, which therefore
keep their place in flight until the connection closes. `Dispose` waits for retired contexts, as the
barrier of `mutateAccountRuntime` does (`presentation/mcp/daemon.ts:471`).

### The setup program and its picker

Each step is an answer of the human or of the daemon. `ui` is the program, `pick` the picker's
reducer state, `file` the configuration on disk, `enforced` what the daemon has. A key of an endpoint is a
number; `token` says that the run still has its plaintext. `secret` is what the daemon seals under and
`opener` what opens the blob that verifies a credential; they differ after a sweep that failed.
`turns`, `faults` and `strokes` bound the choices, failures and keys in the picker.

| Action | Code |
|---|---|
| `Home`, `Unlock`, `Quit`, `SwitchAccount` | `runMainMenu` |
| `Configure`, `SelectEndpoint`, `AddEndpoint`, `EditAccess`, `EditEndpoint`, `DeleteEndpoint`, `ShowKey`, `RegenerateKey`, `LeaveEditor` | the editor loop, the endpoint hub and its spokes |
| `PressKey` (`Press`), `EndPicking` (`Save`, `Leave`, `Review`), `TakeAccess` | the picker's keys and reducer, the review, the projection into the draft |
| `Persist`, `Apply` | `persistDraft` and `applySavedConfig` |
| `AskLogout`, `ConfirmLogout`, `RemoveSession` | `logOutAccount` |
| `StartLogin`, `CommitLogin`, `CancelLogin`; `OpenSecurity`, `ChangePin`, `ApplyFile`, `LeaveSecurity` | `doLogin`, `runSecurityMenu` |
| `HandEdit`, `Rerun` | somebody edits the file; the program is killed or run again |

Chats that a folder's flags match are given by `Matched`; typing a query is one step. Where the code
filters a list, the model has `Among(list, set)`, the members of a set in the order of the list.
`scene.orphans` are the sessions that the documents name at the start and the daemon does not have:
such endpoints may be in force, and the program offers to delete them.

Assumed of the platform: rename is atomic and fails only with ENOENT or
ENOTEMPTY, a directory is listed atomically, and the files are where the code
made them, nobody else writes in that directory. Windows pipes have no files to
recover and are left out.

## 3. Runs

`tlc -config X.cfg M` in this directory. No run checks for deadlock: the
counters are bounded and the process may exit.

| Run | Module and configuration | Asks | States, time |
|---|---|---|---|
| `accounts` | `MCAccountRuntimes` | types; `ExclusiveOwnership`; refinement `ImplementsOneOwner`; liveness `EveryPromiseSettles` | 1008, seconds |
| `daemon` | `MCDaemon`, `MCDaemon.cfg` | the safety of the composition, see below | 1.2 million, 1.5 min |
| `daemon_progress` | `MCDaemon`, `MCDaemonLive.cfg` | liveness `WaitsEnd`; the daemon as a client of `AccountSpec` | 181 thousand, 2 min |
| `daemon_stale` | `MCDaemon`, `MCDaemonStale.cfg` | a claim of a comment, which is violated (section 6) | stops at the violation |
| `lease` | `MCProcessLease`, `MCProcessLease.cfg` | exclusion, one marker, and that only the dead are replaced | 528 thousand, 30 s |
| `service` | `MCServiceStart` | stale sockets, reachability of the service, and that a lone start succeeds (liveness) | 359 thousand, 2 min |
| `lease_release` | `MCProcessLease`, `MCProcessLeaseRelease.cfg` | what a test says of releases, which is violated (section 6) | stops at the violation |
| `store` | `MCSessionStore`, `MCSessionStore.cfg` | retained credentials, complete changes, required authentication | 776 thousand, 20 s |
| `store_export` | `MCSessionStore`, `MCSessionStoreExport.cfg` | what a comment says of recovery exports, which is violated (section 6) | stops at the violation |
| `operator` | `MCOperatorServer` | credentials, owned logins, the drain, throttling; that serial work and shutdown end (liveness) | 219 thousand, 3 min |
| `calls` | `MCToolCalls` | declared access, quota, retries, the end of ownership; that calls and disposals end (liveness) | 240 thousand, 1.5 min |
| `setup` | `MCSetup` | saved access and what the operator is told | 1.6 million, 1 min |

Safety of the composition:

- `CachedContextsAreEnforced`: what a new call can find is bound to the account,
  scope and cap of the policy in force, although the cap is read only after the
  account has been reached.
- `AcknowledgedPolicyGoverns`: once `applyPolicy` or `authenticate` has answered,
  no context of an earlier policy exists, not even one that was being built.
- `BindingsOwnLiveStacks`: a connection is never closed under a scoped client
  that is open, in use or being closed, nor under an operator's snapshot.
- `StacksAreStored`: no stack survives its account's removal, and none is built from a
  session that is about to be removed.
- `LeaseOutlivesOwnership`: a clean exit, with the lease released, leaves no
  runtime in any state, no context and no operation.

Safety of lease and service:

- `LeaseIsExclusive`: two live processes never both hold the lease, and the holder is
  on record, if only in a file that another starter has just claimed.
- `OneMarker`: one file holds the one record, across every crash.
- `OnlyTheDeadAreReplaced` (of steps): whoever's record is overwritten is dead. The
  reader of the record, the prober of the PID and the remover of the sockets rely
  on it, and each acts on what it saw earlier.
- `StaleSocketsAreProvable`: while a dead process's socket exists, the record in
  the lease will prove a death to its next holder, or the holder has that proof
  and the removal still before it; otherwise all later starts would end at `EADDRINUSE`.
- `ServiceIsReachable`: both sockets are those of the serving process.

Safety of the session store:

- `RetainedCredentialsOpen`: SECURITY.md asks the operator to retain both credentials
  until a change is done. With them every blob opens, wherever sweeps failed or the
  process stopped, and whatever was written before, between and after.
- `ChangeIsComplete`: an acknowledged change left no blob under an earlier PIN or the
  machine, and the daemon seals under the new secret, until a credential is used that
  is not the new one.
- `AuthenticationIsRequired`: a store that was changed to a given secret is hardened in
  each daemon from then on, across restarts, emptied stores and failed writes: operators
  are not admitted without a credential.

Safety of the operator plane:

- `OnlyTheCurrentCredential`: under a hardened posture a handler works only for a
  connection that has shown, or itself set, the secret that protects the store now.
  Generations advance after the handlers that change the posture, and serial requests may be queued
  between; the property says that the gap admits nobody.
- `LoginsAreOwned`: an open login connection belongs to a sign-in that has not been
  revoked or to a login ready to be committed, a ready one to a peer that is still there, and none is
  open once the disposal of all has begun: later nobody would close it.
- `SavedLoginsAreClosed`: a stored session's key is not in use by the connection that made it.
- `DrainCoversMutations`: when `drain()` has returned, no serial handler works or ever will.
- `GuessesAreThrottled` (of steps): a wrong credential is never counted during a cool-down, so
  checks of several connections do not overlap.

Safety of the calls:

- `OnlyDeclaredAccess`: a call touches chats that the policy of its context declares, with
  verbs it grants there, however it is scoped: the property reads the declaration by itself and
  does not use the operators by which the engine and the data layer decide. A write that must be confirmed
  is made only after its approval.
- `QuotaHolds`: between any two grants the account spends no more than a burst and the refill;
  nothing is granted in the cool-down of a tripped breaker; what is in flight is paid for; and a
  refused confirmation costs nothing.
- `RetriesAreNotResent` (of steps): a send that had succeeded when its retry was taken up is
  not made again while fewer than `MaxKeys` other keys have succeeded since.
- `OwnershipEnds`: once a gateway's disposal has resolved nothing that it knows of is alive or comes alive, no
  connection, opening, reconnect, loan or operation; the same for a scoped client whose release was reported. It
  excepts a client that a reconnect revived after its opening was aborted (section 6).

Safety of the setup program:

- `SavedAccessIsAsShown`: what the picker saves, resolved and evaluated as the runtime does it, gives a
  chat with one row exactly the verbs of its row, and no chat more than its rows show, whatever order of
  ticks, ranges, folders and hydration led there; opened again, the picker shows the same. The own account
  has two rows, and only their union holds of it (section 6).
- `SetupReportsHold`: a key on the screen is saved already; after an edit that is reported as applied,
  the daemon enforces what the screen shows, also if the file is edited meanwhile; an endpoint
  in force has an account, so a later login under an old name revives no key; the cached unlock is
  good after PIN changes, unless one failed halfway.

**Bounds.** `accounts`: one reference (references do not interact; the proofs
cover any set), `MaxRetirements = 4`, so a build, two waiting retirements and
their builds coexist. `daemon`: two endpoints that share an account until a
policy moves one of them to the other (`Relocation`), so that a mutation of an
account captures part of the contexts; `MaxRevisions = 3` gives an unlock and
two further policies; `MaxBatches = 4` and `MaxRetirements = 2` leave room for
a mutation between publications and for the shutdown (the mutation's guard
keeps the last number for it). One call is enough for the safety properties:
calls meet only in a shared context. `daemon_progress`: one account, two calls
that can wait on each other's contexts, a policy that withdraws an endpoint.
`daemon_stale`: the same instance.
`lease`: four starters, the first and last with one PID, so that a dead owner, two
racing replacements of it and a reuse of its number meet; `Attempts = 2` rounds instead
of the code's four, the second of which starts from any state the first can leave. `service`: three
processes, enough for a predecessor, a recovering process that dies too, and its successor.
`lease_release`: three starters. `store`: two accounts and the policy, so that a sweep has a first, a
middle and a last blob, two PINs and one keyfile; the runs are not bounded otherwise, any number of changes and
restarts follow each other. `store_export`: one account, one PIN, two keyfiles.
`operator`: two connections, one of which may stop reading, each with at most three requests and two
logins (`MaxLogins`), in six scenarios: a PIN change
beside a login; a first account and a first policy that decide the posture; a login on a smooth store
that gets a PIN meanwhile; two connections that guess, and a stop; two logins of one connection, one of
which is committed while the other goes on. `calls`: two endpoints of one account, up to four calls in sixteen scenes, each around one
hazard (`MCToolCalls`): limits of one handle and one key, so that eviction and its races happen with
three calls; a minute of four ticks, with buckets of three, three and two; two policies.
`setup`: ten scenes; three dialogs, one of them the account itself, and three folders, one of mixed
members, one by flags, one empty. Four scenes press up to four keys in the picker over each
kind of access that may have been written by hand; the others have up to six choices and two failures.

**Fairness.** Builds, bindings, operations, disposals, policy checks and
mutations settle (`AccountFairness`, `DaemonFairness`): each wait is for Telegram
with a timeout, a file, or a timer. Continuations run. A call that holds a
context is not assumed to go on, an operator not to ask, and nothing to fail or
to succeed. `WaitsEnd` ends with the process: that a shutdown ends is the
watchdog's business and needs no argument.

Operators and calls: handlers, disposals, close events and the daemon's steps are fair, one
condition for each kind of worker, which is enough since each takes finitely many steps. No client is
assumed to send or to read, no human to answer and Telegram not to accept; a request for a
confirmation ends after a minute by itself. Openings and reconnects settle each by themselves: senders may
ask for reconnects for ever, which must not keep an opening waiting. `SerialOperationsEnd` excludes a peer that does not read its
answer: it holds its turn until it reads or goes. `WorkEnds` excludes the answers that wait for such a client.

For the service only the acquisition and the start are fair: system calls return,
and a process that is not killed goes on. `ServiceRestarts` is stated for a start that
remains alone and whose PID no dead owner had, and only while no stranger has taken a
dead owner's number: `process.kill(pid, 0)` cannot tell such a process from the
owner, and the start is refused until that process is gone. A restarted container, where
the new daemon has the PID of the old one, is such a case.

**Mutants.** Every property has a mutant of the code it depends on, defined next
to what it changes (`StartBuildWithoutBarrier`, `SwallowRejection`,
`AwaitOnlyLiveRuntime`, `CompleteAll`, `PublishWithoutRetiring`,
`AcknowledgeAtOnce`, `SkipContextBarrier`, `AwaitLatestBarrier`,
`StackForRefDuringShutdown`, `FinishSnapshotByClosing`, `AgainForever`,
`VerifyLivenessOnly`, `EnterBesideClaim`, `TrustFileName`, `StopReleasingFirst`,
`ScanForOwnerOnly`, `FinishKeepingSecrets`, `AcknowledgePartialSweep`, `TargetsWithoutPolicy`,
`AcknowledgeKeepingPosture`, `ReceiveOneMore`, `ConcludePinChanges`, `PublishAnyLogin`, `SaveAnyLogin`,
`TakeAnyRequest`, `IsSerialUnlessAuthenticating`, `IsSerialWithLogins`, `DisconnectKeepingWriters`,
`PrepareUnreserved`, `EveryPlace`, `TeardownSkipsRelink`, `RememberOldest`, `RefillUnbounded`,
`RelinkFailsSilently`, `MarkedUnit`, `PublishedFromFile`); no specification uses
them.

## 4. Proofs

For every value of the constants, subject to the named assumptions
(`RetirementBound`, `BatchBound`, `PolicyAssumption`, `LeaseAssumption`, `StoreAssumption`,
`OperatorAssumption`, which say
that the bounds are numbers, that `NoRef`, `Nobody` and `OwnerFile` are no
references or starters, that every starter has a process number, that PINs, keyfiles and
the machine's secret differ, and that a scenario is a posture, a source and a sequence of frames for each
operator connection; `AccountAssumption`, `LimiterAssumption`, `CallsAssumption` and `ScenesAssumption`, by
which dialogs and overrides are lists, capacities and times are positive and a strike is not remembered for
longer than a cool-down, the loans of a connection are the contexts and the operator's snapshot, and
references and calls are what the schemas let through; `TreeAssumption` and `SetupAssumption`: the names
the picker gives to its own rows are no chats, no folder has the row "me" for a member, what a scene starts
with are documents without plaintext keys, and an account is only saved under some secret):

| Theorem | States |
|---|---|
| `AccountsTyped` | `AccountSpec => []AccountTypeOK` |
| `AccountsExclusive` | `AccountSpec => []ExclusiveOwnership` |
| `AccountsImplementOneOwner` | `AccountSpec => ImplementsOneOwner` |
| `DaemonUsesAccounts` | `DaemonSpec => UsesAccountRuntimes` |
| `DaemonIsExclusive` | `DaemonSpec => []ExclusiveOwnership` |
| `CachedContexts` | `DaemonSpec => []CachedContextsAreEnforced` |
| `AcknowledgedPolicy` | `DaemonSpec => []AcknowledgedPolicyGoverns` |
| `BindingsLive` | `DaemonSpec => []BindingsOwnLiveStacks` |
| `StacksStored` | `DaemonSpec => []StacksAreStored` |
| `LeaseOutlives` | `DaemonSpec => []LeaseOutlivesOwnership` |
| `DaemonTyped` | `DaemonSpec => []DaemonTypeOK` |
| `LeaseTyped` | `LeaseSpec => []LeaseTypeOK` |
| `LeaseKeepsOneMarker` | `LeaseSpec => []OneMarker` |
| `LeaseExclusive` | `LeaseSpec => []LeaseIsExclusive` |
| `LeaseReplacesTheDead` | `LeaseSpec => OnlyTheDeadAreReplaced` |
| `ServiceUsesLease` | `ServiceSpec => LeaseSpec` |
| `ServiceIsExclusive` | `ServiceSpec => []LeaseIsExclusive` |
| `ServiceTyped` | `ServiceSpec => []ServiceTypeOK` |
| `StaleSocketsStayProvable` | `ServiceSpec => []StaleSocketsAreProvable` |
| `ServiceStaysReachable` | `ServiceSpec => []ServiceIsReachable` |
| `StoreTyped` | `StoreSpec => []StoreTypeOK` |
| `RetainedCredentialsSuffice` | `StoreSpec => []RetainedCredentialsOpen` |
| `ChangesComplete` | `StoreSpec => []ChangeIsComplete` |
| `HardeningHolds` | `StoreSpec => []AuthenticationIsRequired` |
| `OperatorTypes` | `OperatorSpec => []OperatorTypeOK` |
| `CredentialsAreCurrent` | `OperatorSpec => []OnlyTheCurrentCredential` |
| `LoginsHaveOwners` | `OperatorSpec => []LoginsAreOwned` |
| `SavedAreClosed` | `OperatorSpec => []SavedLoginsAreClosed` |
| `DrainCovers` | `OperatorSpec => []DrainCoversMutations` |
| `GuessesThrottled` | `OperatorSpec => GuessesAreThrottled` |
| `CallsLimits` | `CallsSpec => []CallsTypeOK` |
| `OperationsEndFirst` | `CallsSpec => []OwnershipEnds` |
| `AccessHolds` | `CallsSpec => []OnlyDeclaredAccess` |
| `QuotaKept` | `CallsSpec => []QuotaHolds` |
| `RetriesAreKnown` | `CallsSpec => RetriesAreNotResent` |
| `SavedAsShown` | `SetupSpec => []SavedAccessIsAsShown` |
| `ReportsHold` | `SetupSpec => []SetupReportsHold` |

*Accounts.* `ExclusiveOwnership` is not inductive: it does not know why a build
may start. The invariant of `AccountRuntimesProofs` ties a runtime's number to the
counters: only the place of the oldest retirement that is not complete can own
the key, every earlier place is empty, and every later one is still waiting. A
retirement that reached its work found its place empty. Every action is then
checked on its own; the refinement follows by mapping the places that own the
key, and the work of a retirement, to the parties of `OneOwner`.

*Composition.* `DaemonUsesAccounts` shows that each action of the daemon is an
account action or leaves them alone, which carries the account theorems over.
For the contexts, `ContextInv` says: the counters are ordered and a captured
context belongs to a batch that is still pending; a context that is not
captured is bound to the enforced revision; one that is captured by a batch
number above `disposed`; and an operation that waits for a barrier waits for
every batch filed up to its publication. `disposed >= mark` thus leaves no
older context.

`OwnInv` goes on to who may close a connection. An open context is bound either
to a build nobody has retired past awaiting, or to a live connection that no
retirement has reached (`BoundInv`): a current one to the connection filed last, a
captured one, during a mutation of its account, within the batch whose barrier that
mutation awaits. A retirement that is due has someone waiting for it, the
mutation or the shutdown (`RetirementInv`), and the shutdown only retires once
no context is open (`StageInv`). This needs that the place of a context in use is
never given out again (`PlacesFree`), which is why a captured context leaves its number
behind. The three properties at the end of `Daemon` follow; that a session is
stored for every live connection also uses that a mutation at work finds no owner.
The invariant was model-checked on the instance of `daemon` (1.2 million states) before it was proved.

*Lease.* Exclusion follows from `OneMarker` and `HoldersAreRecorded`. To keep them,
`LeaseInv` says who may touch the record: a claim belongs to a starter that works on
it or died doing so (`ClaimsAreOwned`); what a starter has judged dead, the owner
it is about to overwrite or the remover whose claim it is about to take, is
dead for good (`JudgedDead`), as a starter never comes back although
its number may; nobody is on record before it began (`RecordsAreBorn`), without which a
restored record could make an unborn starter an owner.

*Service.* `ServiceUsesLease` is step simulation. `ServiceInv` adds which sockets a
live process has at each stage (`SocketsFollowStages`), when it has the lease
(`StagesAreHeld`), and that the recovery has passed the client socket when it looks at the
operator's and still finds there what it saw (`RecoveredInOrder`). With the lease exclusive,
whoever is past the recovery sees no stale socket (`HolderSeesNoStale`), hence gives the lease up
with none behind; and whoever dies with sockets is on record, so that its
own record becomes the proof.

*Session store.* `RetainedCredentialsOpen` does not survive an acknowledgement by itself. `SweepInv`
says what the sweep has achieved so far: unless one failed, the blobs it is past carry the
new secret and nothing else, and nobody else writes meanwhile. `ActiveInv` keeps every
source that may seal a blob among the retained ones, `SlotsInv` what can be in a slot once a single
one is retained. For the posture, `PostureInv` has two parts: while a daemon knows of no
posture, a store with anything in it still retains the machine; and once a given secret
alone is retained no daemon is in the machine-bound posture, even over an emptied
store, and none believes its source to be the machine. The
invariant was model-checked on the instance of `store` before it was proved.

*Operator server.* The invariants are in layers. `SerialInv` says that whoever is at work, from the
admission of a serial operation to its conclusion, is at the head of the serial queue, and whoever waits
has an entry there; so one connection is at work at a time, and an empty queue after a shutdown stays
empty. `JobMoves` describes what nearly every step does to one job and its entry, and each action is
shown to be such a move. `LoginInv` adds to `LoginsAreOwned` that the sign-ins of a closed
connection have been aborted, which is what a login that is being published relies on. For the
credentials, "authenticated in this generation implies the current secret" is false between
the change of posture in a handler and the advance of the generation after it: `GenerationsStand` excepts
the moment, when one connection is deciding (`Deciding`), and gives that connection the secret it
has just set. As it is at the head of the queue nobody is admitted meanwhile, and
`AdmissionsHold` carries what a job was admitted with to its end.

*Calls.* The invariants are in layers, each checked by TLC on the instance of `calls` before it was proved,
and each property is read off one or two of them.

- `OwnerInv` is about who uses the connection. `LinkInv` says what is left at each stage of a teardown, and
  that whoever waits for a reconnect, even one of an aborted client, or has a connection, has a shared client. Once
  the teardown is past its first stage no caller has an operation on the connection. `ClientInv` explains why:
  a teardown gets past that stage when every scoped client has been released, a client is released when
  the operations that its disposal found have ended, and later operations are refused. `HomeInv` ties the place of
  a call to its context. Hence `OwnershipEnds`. `AuditInv` says that the audit chain has exactly the calls that wait for
  it, once each.
- `LimitInv` counts: ids in flight, media handles together with those being prepared, remembered keys.
- `AccessInv` carries what the engine has checked from state to state: from its authorisation on, a call has only
  requests among those its access allows, is approved if it must be, and whatever it has touched is declared.
  The lemmas below it are about the operators: each pair in `Requests` is one that the declaration grants, for each
  kind of reference, override and folder, although engine and data layer check different halves.
- `BucketInv` keeps an account for each earlier grant: what was spent since, with the tokens that are left, is at most
  a burst and the refill since (`Backed`), from which two grants are apart as they must be (`Apart`).
  `BreakerInv` does the same for strikes: the long refusals counted since the last trip are those still in the
  list, so the one that fills the window opens the breaker, and no grant follows before its cool-down. `PaidInv`
  says that what is in flight was paid for after it had been approved; a removal of the account forgets the limiter, but only when
  nothing that was paid for can go on.
- `RetryInv` relates the bounded memory to the history: a key that has been acknowledged is still in `keys`, or at least
  `MaxKeys` others came after it (`Recalls`). What a retry knew when it was taken up is therefore found, or excused.

*Setup.* `SavedAccessIsAsShown` needs only that the picker's state is well formed (`IsPick`: rows of the tree, bits of the
two axes, folders of the account), which every key keeps. The rest is about operators, for any tree: what
`Among` returns (by the least place at which its recursion could go wrong, since the provers have no induction); that
the projected overrides are those of the rows that differ from the default, the last of one chat being its
row "me" (`OverridesAre`, `OverriddenIs`); that the projected scope is the chats of the selected rows and what the units cover
(`ChatsAre`, `ScopeIs`); then that evaluating them grants what the rows show (`GrantsAreShown`), and hydrating them restores
the selection (`HydratedBack`). For the program, `SetupInv` has a part for each promise: documents are well formed and
name sessions that exist or were missing at the start (`WorldInv`); a draft with a plaintext key is the one saved last, and what is
being applied is what was saved, whatever the file is by then (`DraftInv`); the endpoint on the screen is in the draft (`PlaceInv`); a
session that is being removed is in no document any more (`SessionInv`); what is cached opens, unless a change of
PIN is still being told (`UnlockInv`); and an edit told as applied governs (`GovernInv`). `SetupReportsHold` follows. The
invariant was model-checked on the instance of `setup` first.

*Only model-checked*: liveness, which is out of the provers' reach (`EveryPromiseSettles`, `WaitsEnd`,
`ServiceRestarts`, `SerialOperationsEnd`, `ShutdownEnds`, `WorkEnds`). Every safety property of a passing run is
a theorem.

## 5. What the model leaves out

- The disposal of a scoped client cannot reject (it waits with `allSettled`), so
  the failing barrier of `PolicyContexts` is unreachable and absent.
- `Daemon` has no key source: the tentative change of it while a locked daemon
  opens its policy is inside `Authenticate` of `SessionStore`, where a source that fails
  leaves the machine as before.
- Files that are malformed, too large or unreadable: to `SessionStore`, a blob that cannot be
  read is one whose reseal fails. A machine id that changes, and a passphrase slot that
  is made of a keyfile's bytes given as the new PIN.
- A first save that fails after its rename leaves the daemon's posture and active source out of
  step with the files until a restart. The model has it; no property forbids it.
- The handshake of connections of the runtime core, and the idle timer, but as a cause of `Shutdown`.
- `retireAll` files its retirements in one frame, `RetireAll(r)` one after the
  other; no build can be filed in between, as `shuttingDown` refuses them.
- Of the operator plane, `OperatorServer` has the effects that concern posture, generation, logins
  and drain; what the handlers write is in `SessionStore` and `Daemon`. Continuations of one
  settlement are one step. Frames are whole.
- Of the calls: contents, pagination beyond whether a page is full, file paths and sizes. A rejected
  disposal ends in `failed`. An account is added again only after the contexts that were being built
  for it have failed.
- Of the setup program: texts, colours, the QR code, the non-interactive plan, the terminal guard and
  the export of recovery keys. Login failures are one outcome. Two runs at once, and edits by hand other
  than dropping an endpoint or breaking the file. Which blobs a failed sweep has reached is one
  choice: whether the one that verifies credentials is among them.

## 6. Findings

**Stale contexts** (`daemon_stale`). The comment over `SessionGate.publish` (`application/services/session-gate.ts:104`)
says that "an in-flight call can never execute against a stale cache while the
new menu is live". It does not follow from retiring the contexts in the same
frame: a retired context is disposed only when *every* context of its batch has
settled (`policy-contexts.ts:42`). Run `daemon_stale` shows a call that holds a context of one
endpoint, the build of another endpoint's context still pending, a publication,
and the call then starting an operation under the previous policy.
`AcknowledgedPolicyGoverns` is what does hold: the operator is told of the
new policy only after that has ended.

**A release that releases nothing** (`lease_release`). `removeOwnedLease` returns as if
done when the file `owner` is missing (`presentation/daemon-socket.ts:409`). It may be
missing because another starter, which had read the record of an older, dead
owner, has just claimed the successor's; that starter notices, gives the record back, and
the lease is now held by a live process that has released it. Nobody can acquire
it until that process exits, at once for the daemon, whose exit follows its
release, but possibly much later for a shim's start lease. The test "elects one
replacement when many shims recover a dead starter" (`tests/presentation/daemon-socket.test.ts:130-131`)
expects the lease free once every acquisition and release has resolved; it releases only after all
acquisitions have, and cannot meet this order. `ReleasedLeaseIsFree` asks for what it expects.

**An export that takes a slot away** (`store_export`). `EmitRecoveryKeyfileInput`
(`application/ports/session.ts:51`) is described as "Export a recovery keyfile and add its slot", and
`docs/USAGE.md:259-261` says that a previously exported keyfile "unlocks the data present when
it was exported". The sweep writes the current slot and the new one alone
(`EncryptedFileSessionStore.ts:384`): a second export, with the same PIN and no other
change, ends the use of the first keyfile, blob by blob. If that export fails it removes its own keyfile,
and the blobs it had reached open with the PIN only; the comment at line 400 calls the new
keyfile an "inert orphan" although those blobs carry its slot. With a keyfile as the current
source it is the PIN's slot that is lost.

**A client that outlives its abort** (no run of its own; excepted by `OwnershipEnds`). The comment over `dispose()`
calls it "a complete ownership barrier: once it resolves, this gateway can never own a Telegram connection again"
(`infrastructure/telegram/gramjs-telegram-gateway.ts:486-487`). `openShared` tracks the senders of its client at line 594,
before it knows whether the session is authorized and before it assigns `this.shared` at 615. A sender that asks for a
reconnect in between starts `reconnectShared` for a client that is not shared yet. If the opening is
aborted then, `destroyAbortedClient` neutralises later requests and destroys the client, but does not wait for
that reconnect, whose `connect()` (line 677) brings the client up again. `this.shared` stays undefined:
`dispose()` waits for the reconnect and resolves, with the connection alive, and a retry before that opens a second
client on the same key. `TelegramGateway` has this behaviour. TLC refutes `teardown = "done" => aborted = "gone"` on the
instance of `calls` within 13 states (snapshot, connected, sender reconnects, disposal begins, opening
aborted, reconnect comes up, teardown done), and also that a shared connection is never up beside a
revived one. That `connect()` works on a destroyed client is taken from how the code calls it; GramJS is
external. What does hold, and is proved, is `OwnershipEnds`.

**Observations** met while modelling, which no run is about:

- `presentation/mcp/daemon.ts:1000-1001` says that "queued operator work was refused synchronously" at a
  shutdown. What has entered the serial queue is run (`presentation/operator/server.ts:419-427`), and
  `drain()` waits for it: that is what `DrainCoversMutations` relies on.
- Two sends of one prepared handle both find it when the second is taken up before the first has
  succeeded (`gramjs-telegram-gateway.ts:1520`, `CheckMedia`), and both upload.
- The error gate of a phone login gets no signal (`gramjs-account-login-client.ts:294`): after a
  revocation its loop asks again until its attempts are used up; nobody is asked, as the generation has moved.
- A request that its client cancels is not answered by the SDK and keeps its place in flight.
- After a PIN sweep that failed, the setup's cached unlock may open nothing, though the comment at
  `presentation/cli/setup.ts:1674-1676` calls it verified. On a hardened store with a configured credential that
  was changed, "Enter PIN" tries that credential only and never prompts.
- Committing the picker collapses hand-written sets of verbs to its tiers in every chat of the endpoint,
  not only in the edited ones (`presentation/cli/picker/config-mapper-impl.ts:5-7` says "the moment that chat is edited").
- The own account is listed among its dialogs and offered once more as "me": its rows may show
  different access, and the policy grants what either of them gives.
- The configuration shown for MCP clients after a first edit stays as it was when a second edit in the same
  run deletes the last endpoint (`configureExistingSession` returns without emitting).

## 7. Plan

Done: accounts, contexts, daemon, lease and service, session store; operator server and logins; rate
limiter, gateway, scoped client, engine and transport; access resolution and the picker; the setup program.

Proved: every safety property that the runs check (section 4).

Left, in this order:

1. The shims (`openDaemonSocket` with the start lease), on top of `ProcessLease`.
2. Exports of recovery keyfiles in the setup program, and its two screens after a PIN change.
3. The handshake of connections of the runtime core and its idle timer.
