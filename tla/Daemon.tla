------------------------------- MODULE Daemon -------------------------------
(***************************************************************************)
(* The runtime core of the service (src/presentation/mcp/daemon.ts): tool  *)
(* calls that bind an execution context under the enforced policy          *)
(* (SessionGate), the operator operations that replace the policy or an    *)
(* account, and the shutdown that hands the process lease over.            *)
(*                                                                         *)
(* Node runs one callback at a time and drains its microtasks before the   *)
(* next one, so what the code does without waiting for I/O, a timer or     *)
(* another party is one step here, continuations of a settled promise      *)
(* included.                                                               *)
(*                                                                         *)
(* A policy is abstracted to the account each endpoint runs under: NoRef   *)
(* for an endpoint that is missing, or whose key the connection no longer  *)
(* presents.  Everything else a policy says (scope, verbs, kill switch,    *)
(* download cap) is represented by the number of its publication.          *)
(***************************************************************************)
EXTENDS AccountRuntimes, PolicyContexts

CONSTANTS
  NoRef,        \* no account
  Calls,        \* tool calls that may be in flight at once
  Policies,     \* the policies an operator may apply
  MaxRevisions  \* bound: publications

ASSUME PolicyAssumption ==
  /\ NoRef \notin Refs
  /\ Policies \subseteq [Endpoints -> Refs \cup {NoRef}]
  /\ MaxRevisions \in Nat \ {0}

VARIABLES
  revision,  \* number of the enforced policy, 0 while the daemon is locked
  menu,      \* the sealed policy; enforced as well once revision > 0
  acked,     \* revision of the last publication an operator was told of
  session,   \* session[r]: an encrypted Telegram session is stored for r
  binding,   \* binding[e][n]: what the context at place n of e is bound to
  at,        \* at[c]: progress of tool call c
  uses,      \* uses[c]: the place of the context that c obtained
  op,        \* the serial operator operation under way
  stage,     \* progress of shutdown()
  exit       \* how the process ended

gateVars   == <<revision, menu, acked>>
callVars   == <<at, uses>>
lifeVars   == <<stage, exit>>
daemonVars == <<gateVars, session, binding, callVars, op, lifeVars>>
vars       == <<accountVars, contextVars, daemonVars>>

Revisions == 0..MaxRevisions

Places == Endpoints \X Batches

NoPlace == <<>>

NoBinding == [rev |-> 0, cap |-> 0, ref |-> NoRef, epoch |-> 0]

NoOp == [kind |-> "none", step |-> "none", ref |-> NoRef, epoch |-> 0, mark |-> 0]

Mutations == {"commitLogin", "removeAccount"}

OpKinds == Mutations \cup {"none", "authenticate", "applyPolicy", "snapshotAccount"}

OpSteps == {"none", "checking", "barrier", "stack", "using", "mutating"}

DaemonTypeOK ==
  /\ AccountTypeOK
  /\ ContextTypeOK
  /\ revision \in Revisions
  /\ acked \in Revisions
  /\ menu \in Policies
  /\ session \in [Refs -> BOOLEAN]
  /\ binding \in [Endpoints -> [Batches -> [rev : Revisions, cap : Revisions,
                                            ref : Refs \cup {NoRef}, epoch : Epochs]]]
  /\ at \in [Calls -> {"idle", "awaiting", "holding", "operating"}]
  /\ uses \in [Calls -> Places \cup {NoPlace}]
  /\ op \in [kind : OpKinds, step : OpSteps, ref : Refs \cup {NoRef},
             epoch : Epochs, mark : Batches]
  /\ stage \in {"serving", "draining", "contexts", "accounts"}
  /\ exit \in {"running", "clean", "failed"}

(* Boot: a hardened store without a PIN comes up locked, any other opens   *)
(* the sealed policy.                                                      *)
DaemonInit ==
  /\ AccountInit
  /\ ContextInit
  /\ revision \in {0, 1}
  /\ acked    = revision
  /\ menu     \in Policies
  /\ session  \in [Refs -> BOOLEAN]
  /\ binding  = [e \in Endpoints |-> [n \in Batches |-> NoBinding]]
  /\ at       = [c \in Calls |-> "idle"]
  /\ uses     = [c \in Calls |-> NoPlace]
  /\ op       = NoOp
  /\ stage    = "serving"
  /\ exit     = "running"

Locked == revision = 0

Running == exit = "running"

shuttingDown == stage # "serving"

BindingOf(p) == binding[p[1]][p[2]]

StateOf(p) == context[p[1]][p[2]]

-----------------------------------------------------------------------------
(* Tool calls. *)

(* stackForRef() *)
StackForRefDuringShutdown(r) == Get(r)

StackForRef(r) ==
  /\ ~shuttingDown
  /\ Get(r)

(* The build that contextFor() files: it takes the account stack of the    *)
(* endpoint and, once that is there, the download cap enforced then.       *)
BindContext(e) ==
  LET r == menu[e] IN
  /\ FileContext(e)
  /\ StackForRef(r)
  /\ binding' = [binding EXCEPT ![e][evicted] =
       [rev |-> revision, ref |-> r, epoch |-> filed[r],
        cap |-> IF runtime[r][filed[r]] = "live" THEN revision ELSE 0]]

(* lockedContextProvider(): the menu and the key are checked, then the     *)
(* context is looked up or built.                                          *)
Acquire(c, e) ==
  /\ Running
  /\ at[c] = "idle"
  /\ ~Locked
  /\ menu[e] # NoRef
  /\ \/ \E n \in Batches :
          /\ IsCurrent(e, n)
          /\ at' = [at EXCEPT ![c] =
               IF context[e][n] = "live" THEN "holding" ELSE "awaiting"]
          /\ uses' = [uses EXCEPT ![c] = <<e, n>>]
          /\ UNCHANGED <<accountVars, contextVars, binding>>
     \/ /\ BindContext(e)
        /\ at' = [at EXCEPT ![c] = "awaiting"]
        /\ uses' = [uses EXCEPT ![c] = <<e, evicted>>]
  /\ UNCHANGED <<gateVars, session, op, lifeVars>>

(* Calls that awaited the contexts in B go on, or are answered an error. *)
Resume(B, s) ==
  LET waiting == {c \in Calls : at[c] = "awaiting" /\ uses[c] \in B} IN
  /\ at' = [c \in Calls |->
       IF c \notin waiting THEN at[c] ELSE IF s = "live" THEN "holding" ELSE "idle"]
  /\ uses' = [c \in Calls |->
       IF c \in waiting /\ s # "live" THEN NoPlace ELSE uses[c]]

(* Nobody can reach the closed or failed contexts of B any more. *)
Unbind(B) ==
  binding' = [e \in Endpoints |-> [n \in Batches |->
    IF <<e, n>> \in B THEN NoBinding ELSE binding[e][n]]]

(* resolveEndpointRuntime() settles: the scope was resolved over the       *)
(* account connection and a scoped client bound, or either failed.         *)
FinishContext(e, n) ==
  /\ Running
  /\ context[e][n] = "building"
  /\ binding[e][n].cap # 0
  /\ \E s \in {"live", "absent"} :
       /\ SettleContexts({<<e, n>>}, s)
       /\ Resume({<<e, n>>}, s)
       /\ Unbind(IF s = "live" THEN {} ELSE {<<e, n>>})
  /\ UNCHANGED <<accountVars, gateVars, session, op, lifeVars>>

(* A scoped operation passes ensureLive() and is tracked. *)
BeginOperation(c) ==
  /\ Running
  /\ at[c] = "holding"
  /\ StateOf(uses[c]) = "live"
  /\ at' = [at EXCEPT ![c] = "operating"]
  /\ UNCHANGED <<accountVars, contextVars, gateVars, session, binding, uses, op, lifeVars>>

(* It settles, and the call continues with what it still has to do. *)
EndOperation(c) ==
  /\ Running
  /\ at[c] = "operating"
  /\ at' = [at EXCEPT ![c] = "holding"]
  /\ UNCHANGED <<accountVars, contextVars, gateVars, session, binding, uses, op, lifeVars>>

(* The call is answered: with its result, a refusal of the engine, or the  *)
(* error of an operation that found its client disposed.                   *)
Answer(c) ==
  /\ Running
  /\ at[c] = "holding"
  /\ at' = [at EXCEPT ![c] = "idle"]
  /\ uses' = [uses EXCEPT ![c] = NoPlace]
  /\ UNCHANGED <<accountVars, contextVars, gateVars, session, binding, op, lifeVars>>

-----------------------------------------------------------------------------
(* Account builds, with what awaits them. *)

(* The open contexts whose build awaits the account build filed at k. *)
Awaiting(r, k) ==
  {p \in Places : /\ StateOf(p) = "building"
                  /\ BindingOf(p).cap = 0
                  /\ BindingOf(p).ref = r
                  /\ BindingOf(p).epoch = k}

Snapshot(step, r, k) ==
  [kind |-> "snapshotAccount", step |-> step, ref |-> r, epoch |-> k, mark |-> 0]

SnapshotAwaits(r, k) == op = Snapshot("stack", r, k)

(* `await barrier` resolved: the stored session is read and a stack made. *)
StartStack(r, k) ==
  /\ Running
  /\ StartBuild(r, k)
  /\ UNCHANGED <<contextVars, daemonVars>>

BuildStack(r, k) ==
  /\ Running
  /\ FinishBuild(r, k)
  /\ runtime'[r][k] = "live"
  /\ session[r]
  /\ binding' = [e \in Endpoints |-> [n \in Batches |->
       IF <<e, n>> \in Awaiting(r, k)
         THEN [rev |-> binding[e][n].rev, cap |-> revision, ref |-> r, epoch |-> k]
         ELSE binding[e][n]]]
  /\ op' = IF SnapshotAwaits(r, k) THEN Snapshot("using", r, k) ELSE op
  /\ UNCHANGED <<contextVars, gateVars, session, callVars, lifeVars>>

(* The build or its barrier rejects, and so does what awaited it. *)
BuildStackFails(r, k) ==
  /\ Running
  /\ FinishBuild(r, k) \/ RefuseBuild(r, k)
  /\ runtime'[r][k] = "absent"
  /\ SettleContexts(Awaiting(r, k), "absent")
  /\ Resume(Awaiting(r, k), "absent")
  /\ Unbind(Awaiting(r, k))
  /\ op' = IF SnapshotAwaits(r, k) THEN NoOp ELSE op
  /\ UNCHANGED <<gateVars, session, lifeVars>>

-----------------------------------------------------------------------------
(* Retired contexts. *)

StartContextSweep ==
  /\ Running
  /\ StartSweep
  /\ UNCHANGED <<accountVars, daemonVars>>

(* The scoped clients' dispose() waits for the operations they track. *)
FinishContextSweep ==
  /\ Running
  /\ FinishSweep
  /\ \A c \in Calls : at[c] = "operating" => uses[c] \notin OldestBatch
  /\ Unbind(OldestBatch)
  /\ UNCHANGED <<accountVars, gateVars, session, callVars, op, lifeVars>>

-----------------------------------------------------------------------------
(* Operator operations; the operator server runs them one at a time. *)

Publication(kind, step, mark) ==
  [kind |-> kind, step |-> step, ref |-> NoRef, epoch |-> 0, mark |-> mark]

(* authenticate: opening the sealed policy of a locked daemon unlocks it;  *)
(* otherwise the credential is only verified.                              *)
StartAuthenticate ==
  /\ Running
  /\ op.kind = "none"
  /\ ~shuttingDown
  /\ op' = Publication("authenticate", "checking", 0)
  /\ UNCHANGED <<accountVars, contextVars, gateVars, session, binding, callVars, lifeVars>>

(* applyPolicy: refused while locked or stopping, else validated and sealed. *)
StartApplyPolicy ==
  /\ Running
  /\ op.kind = "none"
  /\ ~shuttingDown
  /\ ~Locked
  /\ op' = Publication("applyPolicy", "checking", 0)
  /\ UNCHANGED <<accountVars, contextVars, gateVars, session, binding, callVars, lifeVars>>

(* The credential is wrong, the document invalid or the seal not written. *)
CheckFails ==
  /\ Running
  /\ op.step = "checking"
  /\ op' = NoOp
  /\ UNCHANGED <<accountVars, contextVars, gateVars, session, binding, callVars, lifeVars>>

(* What the operation awaits next is the barrier of this moment. *)
AwaitBarrier == op' = Publication(op.kind, "barrier", evicted')

(* SessionGate.publish(): the enforced policy is swapped and the contexts  *)
(* of the old one retire in the same frame.                                *)
PublishWithoutRetiring(p) ==
  /\ revision < MaxRevisions
  /\ revision' = revision + 1
  /\ menu' = p
  /\ Retire({})
  /\ UNCHANGED <<accountVars, acked, session, binding, callVars, lifeVars>>

Publish(p) ==
  /\ revision < MaxRevisions
  /\ revision' = revision + 1
  /\ menu' = p
  /\ Retire(Endpoints)
  /\ UNCHANGED <<accountVars, acked, session, binding, callVars, lifeVars>>

Authenticated ==
  /\ Running
  /\ op.kind = "authenticate" /\ op.step = "checking"
  /\ IF Locked
       THEN Publish(menu)
       ELSE UNCHANGED <<accountVars, contextVars, gateVars, session, binding, callVars, lifeVars>>
  /\ AwaitBarrier

PolicySealed ==
  /\ Running
  /\ op.kind = "applyPolicy" /\ op.step = "checking"
  /\ evicted + 1 < MaxBatches
  /\ \E p \in Policies : Publish(p)
  /\ AwaitBarrier

AcknowledgeAtOnce ==
  /\ Running
  /\ op.step = "barrier"
  /\ acked' = revision
  /\ op' = NoOp
  /\ UNCHANGED <<accountVars, contextVars, revision, menu, session, binding, callVars, lifeVars>>

(* contexts.barrier() resolved: the operator is told of the success. *)
Acknowledge ==
  /\ Running
  /\ op.step = "barrier"
  /\ disposed >= op.mark
  /\ acked' = revision
  /\ op' = NoOp
  /\ UNCHANGED <<accountVars, contextVars, revision, menu, session, binding, callVars, lifeVars>>

(* snapshotAccount: the account stack, then a loan of its connection. *)
StartSnapshot(r) ==
  /\ Running
  /\ op.kind = "none"
  /\ ~Locked
  /\ StackForRef(r)
  /\ op' = Snapshot(IF runtime[r][filed[r]] = "live" THEN "using" ELSE "stack",
                    r, filed[r])
  /\ UNCHANGED <<contextVars, gateVars, session, binding, callVars, lifeVars>>

FinishSnapshotByClosing ==
  /\ Running
  /\ op.step = "using"
  /\ op' = NoOp
  /\ SetRuntime(op.ref, op.epoch, "absent")
  /\ UNCHANGED <<filed, settled, failed, phase,
                 contextVars, gateVars, session, binding, callVars, lifeVars>>

FinishSnapshot ==
  /\ Running
  /\ op.step = "using"
  /\ op' = NoOp
  /\ UNCHANGED <<accountVars, contextVars, gateVars, session, binding, callVars, lifeVars>>

(* mutateAccountRuntime(): the contexts bound to the account retire, and   *)
(* the account runtime behind them.  An operation admitted before the      *)
(* shutdown still runs while drain() waits for the queue.                  *)
StartMutation(kind, r) ==
  /\ Running
  /\ op.kind = "none"
  /\ stage \in {"serving", "draining"}
  /\ ~Locked
  /\ filed[r] + 1 < MaxRetirements
  /\ evicted + 1 < MaxBatches
  /\ Retire({e \in Endpoints : menu[e] = r})
  /\ WithRetired(r)
  /\ op' = [kind |-> kind, step |-> "mutating", ref |-> r,
            epoch |-> filed[r] + 1, mark |-> evicted']
  /\ UNCHANGED <<gateVars, session, binding, callVars, lifeVars>>

(* The mutation, or the rejection of its chain, is answered. *)
FinishMutation ==
  /\ Running
  /\ op.step = "mutating"
  /\ settled[op.ref] >= op.epoch \/ failed[op.ref]
  /\ op' = NoOp
  /\ UNCHANGED <<accountVars, contextVars, gateVars, session, binding, callVars, lifeVars>>

-----------------------------------------------------------------------------
(* The retirement of an account, for a mutation or for the shutdown. *)

RetireStack(r) ==
  /\ Running
  /\ \/ StartRetirement(r)
     \/ RetiredRuntimeSettled(r)
     \/ DisposeDone(r)
     \/ RetirementRejects(r) /\ phase[r] = "disposing"
  /\ UNCHANGED <<contextVars, daemonVars>>

SkipContextBarrier(r) ==
  /\ Running
  /\ BeforeDisposeDone(r)
  /\ UNCHANGED <<contextVars, daemonVars>>

AwaitLatestBarrier(r) ==
  /\ Running
  /\ BeforeDisposeDone(r)
  /\ op.step = "mutating" /\ op.ref = r => disposed = evicted
  /\ UNCHANGED <<contextVars, daemonVars>>

(* beforeDispose: a mutation waits for the scoped clients it retired. *)
AwaitContextBarrier(r) ==
  /\ Running
  /\ BeforeDisposeDone(r)
  /\ op.step = "mutating" /\ op.ref = r => disposed >= op.mark
  /\ UNCHANGED <<contextVars, daemonVars>>

(* The session store writes or removes the account, or reports an error. *)
Mutate(r) ==
  /\ Running
  /\ WorkDone(r)
  /\ \/ UNCHANGED session
     \/ /\ op.step = "mutating" /\ op.ref = r
        /\ session' = [session EXCEPT ![r] = (op.kind = "commitLogin")]
  /\ UNCHANGED <<contextVars, gateVars, binding, callVars, op, lifeVars>>

-----------------------------------------------------------------------------
(* Shutdown, on a signal, an operator stop or the idle timeout. *)

Shutdown ==
  /\ Running
  /\ ~shuttingDown
  /\ stage' = "draining"
  /\ Retire(Endpoints)
  /\ UNCHANGED <<accountVars, gateVars, session, binding, callVars, op, exit>>

(* operatorServer.drain() resolved. *)
OperatorDrained ==
  /\ Running
  /\ stage = "draining"
  /\ op.kind = "none"
  /\ stage' = "contexts"
  /\ UNCHANGED <<accountVars, contextVars, gateVars, session, binding, callVars, op, exit>>

(* contexts.barrier() resolved, and the login clients closed. *)
ContextsDrained ==
  /\ Running
  /\ stage = "contexts"
  /\ disposed = evicted
  /\ stage' = "accounts"
  /\ UNCHANGED <<accountVars, contextVars, gateVars, session, binding, callVars, op, exit>>

(* accounts.retireAll(): each runtime still current is retired.  The code  *)
(* does it for all of them in one frame; references are independent.       *)
RetireAll(r) ==
  /\ Running
  /\ stage = "accounts"
  /\ Filed(r)
  /\ WithRetired(r)
  /\ UNCHANGED <<contextVars, daemonVars>>

(* Every retirement resolved: the socket closes, the process lease is      *)
(* released and the process exits with 0.                                  *)
ReleaseLease ==
  /\ Running
  /\ stage = "accounts"
  /\ \A r \in Refs : ~Filed(r) /\ settled[r] = filed[r]
  /\ exit' = "clean"
  /\ UNCHANGED <<accountVars, contextVars, gateVars, session, binding, callVars, op, stage>>

(* A step of the teardown rejects or the watchdog fires: exit with 1, the  *)
(* lease still naming this process.                                        *)
ForceExit ==
  /\ Running
  /\ shuttingDown
  /\ exit' = "failed"
  /\ UNCHANGED <<accountVars, contextVars, gateVars, session, binding, callVars, op, stage>>

-----------------------------------------------------------------------------
(* What the program, its timers and its peers bring to an end. *)
Progress ==
  \/ \E e \in Endpoints, n \in Batches : FinishContext(e, n)
  \/ \E c \in Calls : EndOperation(c)
  \/ \E r \in Refs, k \in Epochs :
       StartStack(r, k) \/ BuildStack(r, k) \/ BuildStackFails(r, k)
  \/ StartContextSweep
  \/ FinishContextSweep
  \/ CheckFails
  \/ Acknowledge
  \/ FinishSnapshot
  \/ FinishMutation
  \/ \E r \in Refs : RetireStack(r) \/ AwaitContextBarrier(r) \/ Mutate(r)
  \/ OperatorDrained
  \/ ContextsDrained
  \/ \E r \in Refs : RetireAll(r)
  \/ ReleaseLease

(* What clients, operators and failures may do, or never do. *)
Choice ==
  \/ \E c \in Calls, e \in Endpoints : Acquire(c, e)
  \/ \E c \in Calls : BeginOperation(c) \/ Answer(c)
  \/ StartAuthenticate
  \/ StartApplyPolicy
  \/ Authenticated
  \/ PolicySealed
  \/ \E r \in Refs : StartSnapshot(r)
  \/ \E kind \in Mutations, r \in Refs : StartMutation(kind, r)
  \/ Shutdown
  \/ ForceExit

DaemonNext == Progress \/ Choice

DaemonSpec == DaemonInit /\ [][DaemonNext]_vars

(* A promise that waits for Telegram, a file or a timer settles: each such  *)
(* wait is bounded by a timeout or answered by the kernel.  Nothing is     *)
(* assumed of clients, operators and failures.                             *)
DaemonFairness ==
  /\ \A e \in Endpoints, n \in Batches : WF_vars(FinishContext(e, n))
  /\ \A c \in Calls : WF_vars(EndOperation(c))
  /\ \A r \in Refs, k \in Epochs :
       WF_vars(StartStack(r, k) \/ BuildStack(r, k) \/ BuildStackFails(r, k))
  /\ WF_vars(StartContextSweep \/ FinishContextSweep)
  /\ WF_vars(CheckFails \/ Authenticated \/ PolicySealed)
  /\ WF_vars(Acknowledge \/ FinishSnapshot \/ FinishMutation)
  /\ \A r \in Refs : WF_vars(RetireStack(r) \/ AwaitContextBarrier(r) \/ Mutate(r))

DaemonFairSpec == DaemonSpec /\ DaemonFairness

-----------------------------------------------------------------------------
(* Properties. *)

(* The cached contexts are exactly as the enforced policy has them: a new  *)
(* call never binds the account, scope or download cap of another policy,  *)
(* although the cap is read only after the account was reached.            *)
CachedContextsAreEnforced ==
  \A e \in Endpoints, n \in Batches :
    IsCurrent(e, n) =>
      /\ binding[e][n].rev = revision
      /\ binding[e][n].ref = menu[e]
      /\ binding[e][n].cap \in {0, revision}

(* The comment over SessionGate.publish(): an in-flight call can never      *)
(* execute against a stale cache while the new menu is live.  Calls that   *)
(* one event resumes together with the sweep are left out of it: which of  *)
(* the two goes first is then a matter of microtask order.                 *)
NeverExecutesStale ==
  [][\A c \in Calls :
       at[c] = "holding" /\ at'[c] = "operating" /\ ~SweepReady
         => BindingOf(uses[c]).rev = revision]_vars

(* Once an operator is told that a policy is in force, nothing runs or can *)
(* still start under an earlier one: the acknowledgement waits for builds  *)
(* begun before it and for the operations already admitted.                *)
AcknowledgedPolicyGoverns ==
  \A p \in Places : StateOf(p) # "absent" => BindingOf(p).rev >= acked

(* A connection is only closed under bindings that are closed already, in  *)
(* a mutation of the account and in the shutdown; neither is it under an   *)
(* operator's snapshot.                                                    *)
BindingsOwnLiveStacks ==
  /\ \A p \in Places :
       StateOf(p) # "absent" /\ BindingOf(p).cap # 0 =>
         runtime[BindingOf(p).ref][BindingOf(p).epoch] = "live"
  /\ op.step = "using" => runtime[op.ref][op.epoch] = "live"
  /\ \A c \in Calls : at[c] = "operating" => StateOf(uses[c]) \in {"live", "closing"}

(* A stack exists only for a stored account: none survives, or is built    *)
(* from, a session that was removed.                                       *)
StacksAreStored ==
  \A r \in Refs, k \in Epochs : runtime[r][k] = "live" => session[r]

(* The lease is released, and the process exits with 0, only when it owns  *)
(* no Telegram connection and no operation is under way.                   *)
LeaseOutlivesOwnership ==
  exit = "clean" =>
    /\ \A r \in Refs, k \in Epochs : runtime[r][k] = "absent"
    /\ \A p \in Places : StateOf(p) = "absent"
    /\ \A c \in Calls : at[c] # "operating"

(* Every call is bound or refused, and every operator operation answered,  *)
(* while the process runs: contexts wait for account builds, these for     *)
(* mutations, mutations for retired contexts, and the chain never closes.  *)
WaitsEnd ==
  /\ \A c \in Calls : at[c] = "awaiting" ~> at[c] # "awaiting" \/ ~Running
  /\ op.kind # "none" ~> op.kind = "none" \/ ~Running

(* Within the daemon, account runtimes are only used as their class allows *)
(* it, so that what is proved of AccountRuntimes holds of the daemon too.  *)
UsesAccountRuntimes == AccountSpec
=============================================================================
