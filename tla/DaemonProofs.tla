---------------------------- MODULE DaemonProofs ----------------------------
(***************************************************************************)
(* Proofs about Daemon, for any number of endpoints, accounts, calls and   *)
(* operations.                                                             *)
(***************************************************************************)
EXTENDS Daemon, AccountRuntimesProofs

-----------------------------------------------------------------------------
(* The daemon uses account runtimes only through their class. *)

LEMMA ProgressUsesAccounts == Progress => [AccountNext]_accountVars
<1> SUFFICES ASSUME Progress
             PROVE  [AccountNext]_accountVars
  OBVIOUS
<1>1. CASE \E e \in Endpoints, n \in Batches : FinishContext(e, n)
  BY <1>1 DEF FinishContext, accountVars
<1>2. CASE \E c \in Calls : EndOperation(c)
  BY <1>2 DEF EndOperation, accountVars
<1>3. CASE \E r \in Refs, k \in Epochs :
             StartStack(r, k) \/ BuildStack(r, k) \/ BuildStackFails(r, k)
  BY <1>3 DEF StartStack, BuildStack, BuildStackFails, AccountNext, BuildStep
<1>4. CASE StartContextSweep \/ FinishContextSweep
  BY <1>4 DEF StartContextSweep, FinishContextSweep, accountVars
<1>5. CASE CheckFails \/ Acknowledge \/ FinishSnapshot \/ FinishMutation
  BY <1>5 DEF CheckFails, Acknowledge, FinishSnapshot, FinishMutation, accountVars
<1>6. CASE \E r \in Refs : RetireStack(r) \/ AwaitContextBarrier(r) \/ Mutate(r)
  BY <1>6 DEF RetireStack, AwaitContextBarrier, Mutate, AccountNext, RetirementStep
<1>7. CASE OperatorDrained \/ ContextsDrained \/ ReleaseLease
  BY <1>7 DEF OperatorDrained, ContextsDrained, ReleaseLease, accountVars
<1>8. CASE \E r \in Refs : RetireAll(r)
  BY <1>8 DEF RetireAll, AccountNext
<1> QED
  BY <1>1, <1>2, <1>3, <1>4, <1>5, <1>6, <1>7, <1>8 DEF Progress

(* The policy is one of the declared ones, so an endpoint that is served   *)
(* runs under a known account.                                             *)
PolicyTyped == menu \in Policies

LEMMA ServedEndpoint ==
  ASSUME PolicyTyped, NEW e \in Endpoints, menu[e] # NoRef
  PROVE  menu[e] \in Refs
  BY PolicyAssumption DEF PolicyTyped

LEMMA ChoiceUsesAccounts ==
  PolicyTyped /\ Choice => [AccountNext]_accountVars
<1> SUFFICES ASSUME PolicyTyped, Choice
             PROVE  [AccountNext]_accountVars
  OBVIOUS
<1>1. CASE \E c \in Calls, e \in Endpoints : Acquire(c, e)
  <2>1. PICK c \in Calls, e \in Endpoints : Acquire(c, e)
    BY <1>1
  <2>2. menu[e] \in Refs
    BY <2>1, ServedEndpoint DEF Acquire
  <2>3. UNCHANGED accountVars \/ BindContext(e)
    BY <2>1 DEF Acquire
  <2> QED
    BY <2>2, <2>3 DEF BindContext, StackForRef, AccountNext
<1>2. CASE \E c \in Calls : BeginOperation(c) \/ Answer(c)
  BY <1>2 DEF BeginOperation, Answer, accountVars
<1>3. CASE StartAuthenticate \/ StartApplyPolicy \/ Shutdown \/ ForceExit
  BY <1>3 DEF StartAuthenticate, StartApplyPolicy, Shutdown, ForceExit, accountVars
<1>4. CASE Authenticated \/ PolicySealed
  BY <1>4 DEF Authenticated, PolicySealed, Publish, accountVars
<1>5. CASE \E r \in Refs : StartSnapshot(r)
  BY <1>5 DEF StartSnapshot, StackForRef, AccountNext
<1>6. CASE \E kind \in Mutations, r \in Refs : StartMutation(kind, r)
  BY <1>6 DEF StartMutation, AccountNext
<1> QED
  BY <1>1, <1>2, <1>3, <1>4, <1>5, <1>6 DEF Choice

LEMMA PolicyTypedInvariant == DaemonSpec => []PolicyTyped
<1>1. DaemonInit => PolicyTyped
  BY DEF DaemonInit, PolicyTyped
<1>2. PolicyTyped /\ [DaemonNext]_vars => PolicyTyped'
  <2> SUFFICES ASSUME PolicyTyped, [DaemonNext]_vars
               PROVE  menu' \in Policies
    BY DEF PolicyTyped
  <2>1. CASE UNCHANGED vars
    BY <2>1 DEF vars, daemonVars, gateVars, PolicyTyped
  <2>2. CASE Progress
    BY <2>2 DEF Progress, FinishContext, EndOperation, StartStack, BuildStack,
      BuildStackFails, StartContextSweep, FinishContextSweep, CheckFails,
      Acknowledge, FinishSnapshot, FinishMutation, RetireStack,
      AwaitContextBarrier, Mutate, OperatorDrained, ContextsDrained, RetireAll,
      ReleaseLease, gateVars, daemonVars, PolicyTyped
  <2>3. CASE Choice
    BY <2>3 DEF Choice, Acquire, BeginOperation, Answer, StartAuthenticate,
      StartApplyPolicy, Authenticated, PolicySealed, Publish, StartSnapshot,
      StartMutation, Shutdown, ForceExit, gateVars, PolicyTyped
  <2> QED
    BY <2>1, <2>2, <2>3 DEF DaemonNext
<1> QED
  BY <1>1, <1>2, PTL DEF DaemonSpec

(* Whatever calls, operators and the shutdown do, the account runtimes of  *)
(* the daemon behave as AccountRuntimes describes.                         *)
THEOREM DaemonUsesAccounts == DaemonSpec => UsesAccountRuntimes
<1>1. DaemonInit => AccountInit
  BY DEF DaemonInit
<1>2. PolicyTyped /\ [DaemonNext]_vars => [AccountNext]_accountVars
  <2>1. UNCHANGED vars => UNCHANGED accountVars
    BY DEF vars, accountVars
  <2> QED
    BY <2>1, ProgressUsesAccounts, ChoiceUsesAccounts DEF DaemonNext
<1>3. DaemonSpec => []PolicyTyped
  BY PolicyTypedInvariant
<1> QED
  BY <1>1, <1>2, <1>3, PTL DEF DaemonSpec, UsesAccountRuntimes, AccountSpec

(* No two connections of the daemon ever own the same Telegram key, and    *)
(* none owns it while an operator replaces or removes the account.         *)
THEOREM DaemonIsExclusive == DaemonSpec => []ExclusiveOwnership
  BY DaemonUsesAccounts, AccountsExclusive, PTL DEF UsesAccountRuntimes

-----------------------------------------------------------------------------
(* Contexts and the policies they were built under. *)

Bindings == [rev : Nat, cap : Nat, ref : Refs \cup {NoRef}, epoch : Epochs]

(* The numbers and functions the argument is about. *)
ContextTypes ==
  /\ evicted \in Nat /\ disposed \in Nat /\ disposed <= evicted
  /\ sweeping => disposed < evicted
  /\ op.step = "barrier" => op.mark \in Nat
  /\ revision \in Nat /\ acked \in Nat /\ acked <= revision
  /\ context   \in [Endpoints -> [Batches -> ContextStates]]
  /\ retiredBy \in [Endpoints -> [Batches -> Nat]]
  /\ binding   \in [Endpoints -> [Batches -> Bindings]]

(* A captured context belongs to a batch that is still pending. *)
Pending(e, n) ==
  retiredBy[e][n] # 0 => disposed < retiredBy[e][n] /\ retiredBy[e][n] <= evicted

(* An open context is current and enforced, or retired; it is not older    *)
(* than what was acknowledged; and while a publication awaits its barrier, *)
(* the contexts it replaced are in the batches that barrier covers.        *)
OpenInv(e, n) ==
  context[e][n] # "absent" =>
    /\ acked <= binding[e][n].rev
    /\ retiredBy[e][n] = 0 =>
         /\ binding[e][n].rev = revision
         /\ binding[e][n].ref = menu[e]
         /\ binding[e][n].cap \in {0, revision}
    /\ op.step = "barrier" /\ binding[e][n].rev # revision =>
         retiredBy[e][n] <= op.mark

PlacesInv == \A e \in Endpoints, n \in Batches : Pending(e, n) /\ OpenInv(e, n)

ContextInv == ContextTypes /\ PlacesInv

LEMMA ContextInvInit == DaemonInit => ContextInv
  BY RetirementBound, BatchBound
  DEF DaemonInit, ContextInit, ContextInv, ContextTypes, PlacesInv, Pending,
      OpenInv, NoBinding, NoOp, Bindings, ContextStates, Epochs, Batches

(* What retire() does: some current contexts of K join a new batch. *)
LEMMA RetireFacts ==
  ASSUME ContextTypes, NEW K \in SUBSET Endpoints, Retire(K)
  PROVE  /\ disposed' = disposed /\ sweeping' = sweeping /\ context' = context
         /\ evicted' \in {evicted, evicted + 1}
         /\ retiredBy' \in [Endpoints -> [Batches -> Nat]]
         /\ \A e \in Endpoints, n \in Batches :
              \/ /\ IsCurrent(e, n) /\ evicted' = evicted + 1
                 /\ retiredBy'[e][n] = evicted + 1
              \/ retiredBy'[e][n] = retiredBy[e][n] /\ (e \in K => ~IsCurrent(e, n))
<1>1. evicted \in Nat /\ retiredBy \in [Endpoints -> [Batches -> Nat]]
  BY DEF ContextTypes
<1>2. \A e \in Endpoints, n \in Batches :
        <<e, n>> \in Captured(K) <=> e \in K /\ IsCurrent(e, n)
  BY DEF Captured
<1>3. CASE Captured(K) = {}
  BY <1>1, <1>2, <1>3 DEF Retire
<1>4. CASE Captured(K) # {}
  <2>1. /\ evicted' = evicted + 1
        /\ retiredBy' = [e \in Endpoints |-> [n \in Batches |->
             IF <<e, n>> \in Captured(K) THEN evicted + 1 ELSE retiredBy[e][n]]]
    BY <1>4 DEF Retire
  <2>2. retiredBy' \in [Endpoints -> [Batches -> Nat]]
    BY <1>1, <2>1
  <2> QED
    BY <1>1, <1>2, <2>1, <2>2 DEF Retire
<1> QED
  BY <1>3, <1>4

(* Retiring some contexts while no policy is swapped. *)
LEMMA RetireInv ==
  ASSUME ContextInv, NEW K \in SUBSET Endpoints, Retire(K),
         UNCHANGED <<gateVars, binding>>,
         op' = op \/ op'.step # "barrier"
  PROVE  ContextInv'
<1>1. /\ revision' = revision /\ menu' = menu /\ acked' = acked
      /\ binding' = binding
  BY DEF gateVars
<1>2. ContextTypes /\ evicted \in Nat /\ disposed \in Nat /\ disposed <= evicted
  BY DEF ContextInv, ContextTypes
<1>3. ContextTypes'
  BY <1>1, <1>2, RetireFacts DEF ContextTypes
<1> SUFFICES ASSUME NEW e \in Endpoints, NEW n \in Batches
             PROVE  Pending(e, n)' /\ OpenInv(e, n)'
  BY <1>3 DEF ContextInv, PlacesInv
<1>4. Pending(e, n) /\ OpenInv(e, n) /\ retiredBy[e][n] \in Nat
  BY <1>2 DEF ContextInv, PlacesInv, ContextTypes
<1>5. /\ disposed' = disposed /\ context' = context
      /\ evicted' \in {evicted, evicted + 1}
  BY <1>2, RetireFacts
<1>6. CASE IsCurrent(e, n) /\ evicted' = evicted + 1 /\ retiredBy'[e][n] = evicted + 1
  BY <1>1, <1>2, <1>4, <1>5, <1>6 DEF Pending, OpenInv, IsCurrent
<1>7. CASE retiredBy'[e][n] = retiredBy[e][n]
  BY <1>1, <1>2, <1>4, <1>5, <1>7 DEF Pending, OpenInv
<1> QED
  BY <1>2, <1>6, <1>7, RetireFacts

(* Publishing: every context that was current is retired. *)
LEMMA PublishInv ==
  ASSUME ContextInv, NEW p, Publish(p), op'.step = "barrier", op'.mark = evicted'
  PROVE  ContextInv'
<1>1. /\ revision' = revision + 1 /\ acked' = acked /\ binding' = binding
      /\ Retire(Endpoints)
  BY DEF Publish
<1>2. /\ ContextTypes /\ evicted \in Nat /\ disposed \in Nat /\ disposed <= evicted
      /\ revision \in Nat /\ acked \in Nat /\ acked <= revision
  BY DEF ContextInv, ContextTypes
<1>3. ContextTypes'
  BY <1>1, <1>2, RetireFacts DEF ContextTypes
<1> SUFFICES ASSUME NEW e \in Endpoints, NEW n \in Batches
             PROVE  Pending(e, n)' /\ OpenInv(e, n)'
  BY <1>3 DEF ContextInv, PlacesInv
<1>4. Pending(e, n) /\ OpenInv(e, n) /\ retiredBy[e][n] \in Nat
  BY <1>2 DEF ContextInv, PlacesInv, ContextTypes
<1>5. /\ disposed' = disposed /\ context' = context
      /\ evicted' \in {evicted, evicted + 1}
  BY <1>1, <1>2, RetireFacts
<1>6. CASE IsCurrent(e, n) /\ evicted' = evicted + 1 /\ retiredBy'[e][n] = evicted + 1
  BY <1>1, <1>2, <1>4, <1>5, <1>6 DEF Pending, OpenInv, IsCurrent
<1>7. CASE retiredBy'[e][n] = retiredBy[e][n] /\ ~IsCurrent(e, n)
  BY <1>1, <1>2, <1>4, <1>5, <1>7 DEF Pending, OpenInv, IsCurrent
<1> QED
  BY <1>1, <1>2, <1>6, <1>7, RetireFacts

LEMMA UnbindAt ==
  ASSUME NEW B, Unbind(B), NEW e \in Endpoints, NEW n \in Batches
  PROVE  binding'[e][n] = IF <<e, n>> \in B THEN NoBinding ELSE binding[e][n]
  BY DEF Unbind

LEMMA UnbindType ==
  ASSUME binding \in [Endpoints -> [Batches -> Bindings]], NoBinding \in Bindings,
         NEW B, Unbind(B)
  PROVE  binding' \in [Endpoints -> [Batches -> Bindings]]
<1>1. \A e \in Endpoints, n \in Batches : binding[e][n] \in Bindings
  OBVIOUS
<1> HIDE DEF NoBinding, Bindings
<1> QED
  BY <1>1 DEF Unbind

(* Contexts settle; the places of those that failed are cleared. *)
LEMMA SettleInv ==
  ASSUME ContextInv, NEW B, NEW s \in {"live", "absent"}, SettleContexts(B, s),
         \A e \in Endpoints, n \in Batches :
           <<e, n>> \in B => context[e][n] # "absent",
         Unbind(IF s = "live" THEN {} ELSE B), UNCHANGED gateVars,
         op' = op \/ op'.step # "barrier"
  PROVE  ContextInv'
<1>1. /\ revision' = revision /\ menu' = menu /\ acked' = acked
      /\ evicted' = evicted /\ disposed' = disposed /\ retiredBy' = retiredBy
      /\ sweeping' = sweeping
  BY DEF gateVars, SettleContexts
<1>2. /\ context' \in [Endpoints -> [Batches -> ContextStates]]
      /\ \A e \in Endpoints, n \in Batches :
           context'[e][n] = IF <<e, n>> \in B THEN s ELSE context[e][n]
  BY DEF ContextInv, ContextTypes, SettleContexts, ContextStates
<1>3. NoBinding \in Bindings
  BY RetirementBound DEF NoBinding, Bindings, Epochs
<1>4. binding' \in [Endpoints -> [Batches -> Bindings]]
  <2> DEFINE D == IF s = "live" THEN {} ELSE B
  <2>1. Unbind(D) /\ binding \in [Endpoints -> [Batches -> Bindings]]
    BY DEF ContextInv, ContextTypes
  <2> HIDE DEF D
  <2> QED
    BY <1>3, <2>1, UnbindType
<1>5. \A e \in Endpoints, n \in Batches :
        binding'[e][n] = binding[e][n] \/ (s = "absent" /\ <<e, n>> \in B)
  <2>1. CASE s = "live"
    BY <2>1 DEF Unbind
  <2>2. CASE s = "absent"
    <3>1. Unbind(B)
      BY <2>2
    <3>2. \A e \in Endpoints, n \in Batches :
            <<e, n>> \notin B => binding'[e][n] = binding[e][n]
      <4> HIDE DEF Unbind
      <4> QED
        BY <3>1, UnbindAt
    <3> QED
      BY <2>2, <3>2
  <2> QED
    BY <2>1, <2>2
<1>6. ContextTypes'
  BY <1>1, <1>2, <1>4 DEF ContextInv, ContextTypes
<1> SUFFICES ASSUME NEW e \in Endpoints, NEW n \in Batches
             PROVE  Pending(e, n)' /\ OpenInv(e, n)'
  BY <1>6 DEF ContextInv, PlacesInv
<1>7. Pending(e, n) /\ OpenInv(e, n)
  BY DEF ContextInv, PlacesInv
<1>8. context'[e][n] # "absent" =>
        context[e][n] # "absent" /\ binding'[e][n] = binding[e][n]
  BY <1>2, <1>5
<1>9. Pending(e, n)'
  BY <1>1, <1>7 DEF Pending
<1>10. OpenInv(e, n)'
  BY <1>1, <1>7, <1>8 DEF OpenInv
<1> QED
  BY <1>9, <1>10

(* A context is filed in a free place, bound to the enforced policy. *)
LEMMA AcquireInv ==
  ASSUME AccountTypeOK, PolicyTyped, ContextInv,
         NEW c \in Calls, NEW x \in Endpoints, Acquire(c, x)
  PROVE  ContextInv'
<1>1. UNCHANGED <<gateVars, op>>
  BY DEF Acquire
<1>2. CASE UNCHANGED <<contextVars, binding>>
  BY <1>1, <1>2 DEF ContextInv, ContextTypes, PlacesInv, Pending, OpenInv,
    gateVars, contextVars
<1>3. CASE BindContext(x)
  <2> DEFINE b == [rev |-> revision, ref |-> menu[x], epoch |-> filed[menu[x]],
                   cap |-> IF runtime[menu[x]][filed[menu[x]]] = "live"
                             THEN revision ELSE 0]
  <2>1. b \in Bindings /\ b.rev = revision /\ b.ref = menu[x] /\ b.cap \in {0, revision}
    <3>1. menu[x] \in Refs /\ filed[menu[x]] \in Epochs
      BY ServedEndpoint DEF Acquire, AccountTypeOK
    <3> QED
      BY <3>1 DEF ContextInv, ContextTypes, Bindings
  <2>2. binding' = [binding EXCEPT ![x][evicted] = b]
    BY <1>3 DEF BindContext
  <2> HIDE DEF b
  <2>3. /\ revision' = revision /\ menu' = menu /\ acked' = acked /\ op' = op
        /\ evicted' = evicted /\ disposed' = disposed /\ sweeping' = sweeping
        /\ retiredBy' = retiredBy
        /\ context' = [context EXCEPT ![x][evicted] = "building"]
        /\ \A n \in Batches : ~IsCurrent(x, n)
    BY <1>1, <1>3 DEF BindContext, FileContext, gateVars
  <2>4. ContextTypes'
    BY <2>1, <2>2, <2>3 DEF ContextInv, ContextTypes, ContextStates
  <2> SUFFICES ASSUME NEW e \in Endpoints, NEW n \in Batches
               PROVE  Pending(e, n)' /\ OpenInv(e, n)'
    BY <2>4 DEF ContextInv, PlacesInv
  <2>5. Pending(e, n) /\ OpenInv(e, n)
    BY DEF ContextInv, PlacesInv
  <2>6. Pending(e, n)'
    BY <2>3, <2>5 DEF Pending
  <2>9. /\ revision' = revision /\ menu' = menu /\ acked' = acked /\ op' = op
        /\ retiredBy' = retiredBy
    BY <2>3
  <2>7. CASE e = x /\ n = evicted
    <3>1. binding'[e][n] = b
      BY <2>2, <2>7 DEF ContextInv, ContextTypes
    <3>2. acked <= revision
      BY DEF ContextInv, ContextTypes
    <3> QED
      BY <2>1, <2>6, <2>7, <2>9, <3>1, <3>2 DEF OpenInv
  <2>8. CASE ~(e = x /\ n = evicted)
    <3>1. binding'[e][n] = binding[e][n] /\ context'[e][n] = context[e][n]
      BY <2>2, <2>3, <2>8 DEF ContextInv, ContextTypes
    <3> QED
      BY <2>5, <2>6, <2>9, <3>1 DEF OpenInv
  <2> QED
    BY <2>6, <2>7, <2>8
<1> QED
  BY <1>2, <1>3 DEF Acquire

(* An account build succeeds: contexts that awaited it read the cap. *)
LEMMA BuildStackInv ==
  ASSUME AccountTypeOK, ContextInv, NEW r \in Refs, NEW k \in Epochs, BuildStack(r, k)
  PROVE  ContextInv'
<1>1. /\ revision' = revision /\ menu' = menu /\ acked' = acked
      /\ evicted' = evicted /\ disposed' = disposed /\ sweeping' = sweeping
      /\ retiredBy' = retiredBy /\ context' = context
      /\ op' = op \/ op'.step # "barrier"
  BY DEF BuildStack, gateVars, contextVars, Snapshot
<1>2. \A e \in Endpoints, n \in Batches :
        \/ binding'[e][n] = binding[e][n]
        \/ /\ binding[e][n].ref = r
           /\ binding'[e][n] =
                [rev |-> binding[e][n].rev, cap |-> revision, ref |-> r, epoch |-> k]
  BY DEF BuildStack, Awaiting, BindingOf
<1>3. /\ revision \in Nat
      /\ \A e \in Endpoints, n \in Batches :
           binding[e][n] \in Bindings /\ binding[e][n].rev \in Nat
  BY DEF ContextInv, ContextTypes, Bindings
<1>4. binding' \in [Endpoints -> [Batches -> Bindings]]
  <2>1. ASSUME NEW e \in Endpoints, NEW n \in Batches
        PROVE  binding'[e][n] \in Bindings
    <3>1. CASE binding'[e][n] = binding[e][n]
      BY <1>3, <3>1
    <3>2. CASE binding'[e][n] =
                 [rev |-> binding[e][n].rev, cap |-> revision, ref |-> r, epoch |-> k]
      BY <1>3, <3>2 DEF Bindings
    <3> QED
      BY <1>2, <3>1, <3>2
  <2> HIDE DEF Bindings
  <2> QED
    BY <2>1 DEF BuildStack
<1>5. ContextTypes'
  BY <1>1, <1>4 DEF ContextInv, ContextTypes
<1> SUFFICES ASSUME NEW e \in Endpoints, NEW n \in Batches
             PROVE  Pending(e, n)' /\ OpenInv(e, n)'
  BY <1>5 DEF ContextInv, PlacesInv
<1>6. Pending(e, n) /\ OpenInv(e, n)
  BY DEF ContextInv, PlacesInv
<1>7. /\ binding'[e][n].rev = binding[e][n].rev
      /\ binding'[e][n].ref = binding[e][n].ref
      /\ binding'[e][n].cap \in {binding[e][n].cap, revision}
  <2>1. CASE binding'[e][n] = binding[e][n]
    BY <2>1
  <2>2. CASE /\ binding[e][n].ref = r
             /\ binding'[e][n] =
                  [rev |-> binding[e][n].rev, cap |-> revision, ref |-> r, epoch |-> k]
    BY <2>2
  <2> QED
    BY <1>2, <2>1, <2>2
<1> QED
  BY <1>1, <1>6, <1>7 DEF Pending, OpenInv

(* The oldest batch starts to close. *)
LEMMA StartSweepInv ==
  ASSUME ContextInv, StartContextSweep
  PROVE  ContextInv'
<1>1. /\ UNCHANGED <<gateVars, binding, op, evicted, disposed, retiredBy>>
      /\ disposed < evicted
      /\ context' \in [Endpoints -> [Batches -> ContextStates]]
      /\ \A e \in Endpoints, n \in Batches :
           context'[e][n] # "absent" => context[e][n] # "absent"
  BY DEF StartContextSweep, StartSweep, SweepReady, daemonVars, ContextInv,
    ContextTypes, ContextStates
<1> QED
  BY <1>1 DEF ContextInv, ContextTypes, PlacesInv, Pending, OpenInv, gateVars

(* ... and is done: its places are free, and later batches stay pending. *)
LEMMA FinishSweepInv ==
  ASSUME ContextInv, FinishContextSweep
  PROVE  ContextInv'
<1>1. /\ revision' = revision /\ menu' = menu /\ acked' = acked /\ op' = op
      /\ evicted' = evicted /\ disposed' = disposed + 1 /\ sweeping' = FALSE
      /\ disposed \in Nat /\ evicted \in Nat /\ disposed < evicted
  BY DEF FinishContextSweep, FinishSweep, gateVars, ContextInv, ContextTypes
<1>2. NoBinding \in Bindings
  BY RetirementBound DEF NoBinding, Bindings, Epochs
<1>3. binding' \in [Endpoints -> [Batches -> Bindings]]
  BY <1>2, UnbindType DEF FinishContextSweep, ContextInv, ContextTypes
<1>4. /\ context' \in [Endpoints -> [Batches -> ContextStates]]
      /\ retiredBy' \in [Endpoints -> [Batches -> Nat]]
  BY DEF FinishContextSweep, FinishSweep, ContextInv, ContextTypes, ContextStates
<1>5. ContextTypes'
  BY <1>1, <1>3, <1>4 DEF ContextInv, ContextTypes
<1> SUFFICES ASSUME NEW e \in Endpoints, NEW n \in Batches
             PROVE  Pending(e, n)' /\ OpenInv(e, n)'
  BY <1>5 DEF ContextInv, PlacesInv
<1>6. Pending(e, n) /\ OpenInv(e, n) /\ retiredBy[e][n] \in Nat
  BY DEF ContextInv, PlacesInv, ContextTypes
<1>7. CASE retiredBy[e][n] = disposed + 1
  <2>1. retiredBy'[e][n] = 0 /\ context'[e][n] = "absent"
    BY <1>7 DEF FinishContextSweep, FinishSweep, OldestBatch
  <2> QED
    BY <2>1 DEF Pending, OpenInv
<1>8. CASE retiredBy[e][n] # disposed + 1
  <2>1. /\ retiredBy'[e][n] = retiredBy[e][n] /\ context'[e][n] = context[e][n]
        /\ binding'[e][n] = binding[e][n]
    BY <1>8 DEF FinishContextSweep, FinishSweep, OldestBatch, Unbind
  <2> QED
    BY <1>1, <1>6, <1>8, <2>1 DEF Pending, OpenInv
<1> QED
  BY <1>7, <1>8

(* A publication is acknowledged: its barrier covered every older context. *)
LEMMA AcknowledgeInv ==
  ASSUME ContextInv, Acknowledge
  PROVE  ContextInv'
<1>1. /\ UNCHANGED <<contextVars, binding, revision, menu>>
      /\ acked' = revision /\ op'.step # "barrier"
      /\ op.step = "barrier" /\ disposed >= op.mark
  BY DEF Acknowledge, NoOp
<1>2. ContextTypes'
  BY <1>1 DEF ContextInv, ContextTypes, contextVars
<1> SUFFICES ASSUME NEW e \in Endpoints, NEW n \in Batches
             PROVE  Pending(e, n)' /\ OpenInv(e, n)'
  BY <1>2 DEF ContextInv, PlacesInv
<1>3. Pending(e, n) /\ OpenInv(e, n)
  BY DEF ContextInv, PlacesInv
<1>4. retiredBy[e][n] \in Nat /\ disposed \in Nat /\ op.mark \in Nat
  BY <1>1 DEF ContextInv, ContextTypes
<1>5. context[e][n] # "absent" => binding[e][n].rev = revision
  BY <1>1, <1>3, <1>4 DEF Pending, OpenInv
<1>6. /\ evicted' = evicted /\ disposed' = disposed /\ retiredBy' = retiredBy
      /\ context' = context /\ binding' = binding /\ menu' = menu
      /\ revision' = revision /\ revision \in Nat
  BY <1>1 DEF contextVars, ContextInv, ContextTypes
<1> QED
  BY <1>1, <1>3, <1>5, <1>6 DEF Pending, OpenInv

(* Steps that leave the contexts and the enforced policy alone. *)
LEMMA OtherInv ==
  ASSUME ContextInv, UNCHANGED <<contextVars, binding, gateVars>>,
         \/ op' = op
         \/ op'.step # "barrier"
         \/ op'.step = "barrier" /\ op'.mark = evicted'
  PROVE  ContextInv'
<1>1. /\ evicted' = evicted /\ disposed' = disposed /\ retiredBy' = retiredBy
      /\ sweeping' = sweeping /\ context' = context /\ binding' = binding
      /\ revision' = revision /\ menu' = menu /\ acked' = acked
  BY DEF contextVars, gateVars
<1>2. ContextTypes' /\ evicted \in Nat
  BY <1>1 DEF ContextInv, ContextTypes
<1> SUFFICES ASSUME NEW e \in Endpoints, NEW n \in Batches
             PROVE  Pending(e, n)' /\ OpenInv(e, n)'
  BY <1>2 DEF ContextInv, PlacesInv
<1>3. Pending(e, n) /\ OpenInv(e, n)
  BY DEF ContextInv, PlacesInv
<1>4. retiredBy[e][n] <= evicted
  BY <1>2, <1>3 DEF Pending
<1> QED
  BY <1>1, <1>3, <1>4 DEF Pending, OpenInv

LEMMA ProgressContextInv ==
  ASSUME AccountTypeOK, ContextInv, Progress
  PROVE  ContextInv'
<1>1. CASE \E e \in Endpoints, n \in Batches : FinishContext(e, n)
  <2>1. PICK e \in Endpoints, n \in Batches : FinishContext(e, n)
    BY <1>1
  <2>2. PICK s \in {"live", "absent"} :
          /\ SettleContexts({<<e, n>>}, s)
          /\ Unbind(IF s = "live" THEN {} ELSE {<<e, n>>})
    BY <2>1 DEF FinishContext
  <2>3. UNCHANGED gateVars /\ op' = op /\ context[e][n] = "building"
    BY <2>1 DEF FinishContext
  <2> QED
    BY <2>2, <2>3, SettleInv
<1>2. CASE \E r \in Refs, k \in Epochs : StartStack(r, k)
  BY <1>2, OtherInv DEF StartStack, daemonVars
<1>3. CASE \E r \in Refs, k \in Epochs : BuildStack(r, k)
  BY <1>3, BuildStackInv
<1>4. CASE \E r \in Refs, k \in Epochs : BuildStackFails(r, k)
  <2>1. PICK r \in Refs, k \in Epochs : BuildStackFails(r, k)
    BY <1>4
  <2>2. /\ SettleContexts(Awaiting(r, k), "absent") /\ UNCHANGED gateVars
        /\ Unbind(Awaiting(r, k))
        /\ op' = op \/ op'.step # "barrier"
    BY <2>1 DEF BuildStackFails, NoOp
  <2>3. \A e \in Endpoints, n \in Batches :
          <<e, n>> \in Awaiting(r, k) => context[e][n] # "absent"
    BY DEF Awaiting, StateOf
  <2> QED
    BY <2>2, <2>3, SettleInv
<1>5. CASE StartContextSweep
  BY <1>5, StartSweepInv
<1>6. CASE FinishContextSweep
  BY <1>6, FinishSweepInv
<1>7. CASE Acknowledge
  BY <1>7, AcknowledgeInv
<1>8. CASE CheckFails \/ FinishSnapshot \/ FinishMutation
  BY <1>8, OtherInv DEF CheckFails, FinishSnapshot, FinishMutation, NoOp
<1>9. CASE (\E c \in Calls : EndOperation(c)) \/ OperatorDrained \/ ContextsDrained
           \/ ReleaseLease
  BY <1>9, OtherInv DEF EndOperation, OperatorDrained, ContextsDrained, ReleaseLease
<1>10. CASE \E r \in Refs : \/ RetireStack(r) \/ AwaitContextBarrier(r) \/ Mutate(r)
                            \/ RetireAll(r)
  BY <1>10, OtherInv DEF RetireStack, AwaitContextBarrier, Mutate, RetireAll, daemonVars
<1> QED
  BY <1>1, <1>2, <1>3, <1>4, <1>5, <1>6, <1>7, <1>8, <1>9, <1>10 DEF Progress

LEMMA ChoiceContextInv ==
  ASSUME AccountTypeOK, PolicyTyped, ContextInv, Choice
  PROVE  ContextInv'
<1>1. CASE \E c \in Calls, e \in Endpoints : Acquire(c, e)
  BY <1>1, AcquireInv
<1>2. CASE (\E c \in Calls : BeginOperation(c) \/ Answer(c)) \/ ForceExit
  BY <1>2, OtherInv DEF BeginOperation, Answer, ForceExit
<1>3. CASE StartAuthenticate \/ StartApplyPolicy
  BY <1>3, OtherInv DEF StartAuthenticate, StartApplyPolicy, Publication
<1>4. CASE Authenticated
  <2>1. op'.step = "barrier" /\ op'.mark = evicted'
    BY <1>4 DEF Authenticated, AwaitBarrier, Publication
  <2>2. CASE Locked
    BY <1>4, <2>1, <2>2, PublishInv DEF Authenticated
  <2>3. CASE ~Locked
    BY <1>4, <2>1, <2>3, OtherInv DEF Authenticated
  <2> QED
    BY <2>2, <2>3
<1>5. CASE PolicySealed
  <2>1. op'.step = "barrier" /\ op'.mark = evicted'
    BY <1>5 DEF PolicySealed, AwaitBarrier, Publication
  <2> QED
    BY <1>5, <2>1, PublishInv DEF PolicySealed
<1>6. CASE \E r \in Refs : StartSnapshot(r)
  BY <1>6, OtherInv DEF StartSnapshot, Snapshot
<1>7. CASE \E kind \in Mutations, r \in Refs : StartMutation(kind, r)
  <2>1. PICK kind \in Mutations, r \in Refs : StartMutation(kind, r)
    BY <1>7
  <2>2. /\ Retire({e \in Endpoints : menu[e] = r})
        /\ UNCHANGED <<gateVars, binding>> /\ op'.step # "barrier"
    BY <2>1 DEF StartMutation
  <2> QED
    BY <2>2, RetireInv
<1>8. CASE Shutdown
  BY <1>8, RetireInv DEF Shutdown
<1> QED
  BY <1>1, <1>2, <1>3, <1>4, <1>5, <1>6, <1>7, <1>8 DEF Choice

LEMMA ContextInvariant == DaemonSpec => []ContextInv
<1>1. DaemonSpec => [](AccountTypeOK /\ PolicyTyped)
  BY DaemonUsesAccounts, AccountsTyped, PolicyTypedInvariant, PTL DEF UsesAccountRuntimes
<1>2. AccountTypeOK /\ PolicyTyped /\ ContextInv /\ [DaemonNext]_vars => ContextInv'
  <2> SUFFICES ASSUME AccountTypeOK, PolicyTyped, ContextInv, [DaemonNext]_vars
               PROVE  ContextInv'
    OBVIOUS
  <2>1. CASE UNCHANGED vars
    BY <2>1, OtherInv DEF vars, daemonVars
  <2> QED
    BY <2>1, ProgressContextInv, ChoiceContextInv DEF DaemonNext
<1> QED
  BY <1>1, <1>2, ContextInvInit, PTL DEF DaemonSpec

(* A cached context is always the one the enforced policy asks for, with   *)
(* the account, the scope and the download cap of that publication.        *)
THEOREM CachedContexts == DaemonSpec => []CachedContextsAreEnforced
<1>1. ContextInv => CachedContextsAreEnforced
  BY DEF ContextInv, PlacesInv, OpenInv, CachedContextsAreEnforced, IsCurrent
<1> QED
  BY <1>1, ContextInvariant, PTL

(* After the acknowledgement of a publication no context of an older one   *)
(* is open, and so nothing runs or can start under the older policy.       *)
THEOREM AcknowledgedPolicy == DaemonSpec => []AcknowledgedPolicyGoverns
<1>1. ContextInv => AcknowledgedPolicyGoverns
  <2> SUFFICES ASSUME ContextInv, NEW p \in Places, StateOf(p) # "absent"
               PROVE  BindingOf(p).rev >= acked
    BY DEF AcknowledgedPolicyGoverns
  <2>1. PICK e \in Endpoints, n \in Batches : p = <<e, n>>
    BY DEF Places
  <2>2. context[e][n] # "absent" /\ BindingOf(p) = binding[e][n]
    BY <2>1 DEF StateOf, BindingOf
  <2>3. acked <= binding[e][n].rev
    BY <2>2 DEF ContextInv, PlacesInv, OpenInv
  <2> QED
    BY <2>2, <2>3
<1> QED
  BY <1>1, ContextInvariant, PTL

-----------------------------------------------------------------------------
(* Connections, what is bound to them, and what may close them. *)

(* A retirement that is due has somebody waiting for it: the mutation in   *)
(* progress, or the shutdown; and what is filed is not being closed.       *)
RetirementInv(r) ==
  /\ runtime[r][filed[r]] \notin {"disposing", "uncertain"}
  /\ failed[r] => phase[r] = "idle"
  /\ ~failed[r] /\ settled[r] < filed[r] =>
       (op.step = "mutating" /\ op.ref = r) \/ stage = "accounts"

(* The operation under way is the one its step says, and none is left once *)
(* the operator plane is drained.                                          *)
OperationInv ==
  /\ op.kind = "none" => op = NoOp
  /\ op.step = "mutating" =>
       op.ref \in Refs /\ op.epoch = filed[op.ref] /\ op.mark \in Batches
  /\ op.step = "using" =>
       op.ref \in Refs /\ op.epoch \in Epochs /\ runtime[op.ref][op.epoch] = "live"
  /\ stage \in {"contexts", "accounts"} => op = NoOp

(* The context at n of e, if it is open, waits for an account build or is  *)
(* bound to a connection that no retirement has reached.  While it is      *)
(* current no retirement is even due, and one that is waits for the batch  *)
(* which captured it.                                                      *)
BoundInv(e, n) ==
  context[e][n] # "absent" =>
    /\ binding[e][n].ref \in Refs
    /\ revision # 0
    /\ binding[e][n].cap = 0 =>
         /\ context[e][n] = "building"
         /\ runtime[binding[e][n].ref][binding[e][n].epoch] \in {"waiting", "building"}
    /\ binding[e][n].cap # 0 =>
         runtime[binding[e][n].ref][binding[e][n].epoch] = "live"
    /\ phase[binding[e][n].ref] \in {"await", "disposing", "work"} =>
         binding[e][n].epoch # settled[binding[e][n].ref]
    /\ retiredBy[e][n] = 0 => binding[e][n].epoch = filed[binding[e][n].ref]
    /\ op.step = "mutating" /\ op.ref = binding[e][n].ref
         /\ binding[e][n].epoch # filed[binding[e][n].ref] =>
           retiredBy[e][n] <= op.mark

(* A place is given out once between two retirements, so that no context   *)
(* takes the place of one that is still in use.                            *)
PlacesFree ==
  /\ evicted \in Batches
  /\ ~shuttingDown => evicted < MaxBatches
  /\ \A e \in Endpoints, n \in Batches :
       /\ context[e][n] # "absent" => n <= evicted
       /\ retiredBy[e][n] # 0 => n < retiredBy[e][n]

(* A call that is not idle has a context, and an operation an open one. *)
CallInv(c) ==
  /\ at[c] # "idle" => uses[c] \in Places
  /\ at[c] = "operating" => StateOf(uses[c]) \in {"live", "closing"}

CallsInv ==
  /\ at \in [Calls -> {"idle", "awaiting", "holding", "operating"}]
  /\ uses \in [Calls -> Places \cup {NoPlace}]
  /\ \A c \in Calls : CallInv(c)

(* What each stage of the shutdown leaves behind. *)
StageInv ==
  /\ shuttingDown => \A e \in Endpoints, n \in Batches : ~IsCurrent(e, n)
  /\ stage = "accounts" => \A e \in Endpoints, n \in Batches : context[e][n] = "absent"
  /\ exit = "clean" => stage = "accounts" /\ \A r \in Refs : ~Filed(r) /\ settled[r] = filed[r]

StoredInv ==
  /\ session \in [Refs -> BOOLEAN]
  /\ \A r \in Refs, k \in Epochs : runtime[r][k] = "live" => session[r]

OwnInv ==
  /\ \A r \in Refs : RetirementInv(r)
  /\ OperationInv
  /\ \A e \in Endpoints, n \in Batches : BoundInv(e, n)
  /\ PlacesFree
  /\ CallsInv
  /\ StageInv
  /\ StoredInv

(* Everything that is known of a state. *)
Known == AccountInv /\ PolicyTyped /\ ContextInv /\ OwnInv

LEMMA OwnInvInit == DaemonInit => OwnInv
  BY RetirementBound, BatchBound
  DEF DaemonInit, AccountInit, ContextInit, OwnInv, RetirementInv, OperationInv,
      BoundInv, PlacesFree, CallsInv, CallInv, StageInv, StoredInv, shuttingDown, NoOp, Epochs, Batches

(* Steps of an account that leave everything else alone: a runtime that is *)
(* bound stays live, and one that is awaited keeps being built.            *)
LEMMA StartStackOwn ==
  ASSUME Known, NEW r \in Refs, NEW k \in Epochs, StartStack(r, k)
  PROVE  OwnInv'
<1>1. /\ UNCHANGED <<filed, settled, failed, phase, evicted, disposed, sweeping, context,
                     retiredBy, revision, session, binding, at, uses, op, stage, exit>>
      /\ runtime[r][k] = "waiting" /\ exit = "running"
      /\ \A q \in Refs, m \in Epochs :
           runtime'[q][m] = IF q = r /\ m = k THEN "building" ELSE runtime[q][m]
  BY SetRuntimeAt DEF StartStack, StartBuild, contextVars, daemonVars, gateVars, callVars,
    lifeVars, Known, AccountInv, AccountTypeOK, RuntimeStates, Running
<1>2. \A e \in Endpoints, n \in Batches : binding[e][n].epoch \in Epochs
  BY DEF Known, ContextInv, ContextTypes, Bindings
<1>3. (\A q \in Refs : RetirementInv(q))' /\ OperationInv'
  BY <1>1 DEF Known, OwnInv, RetirementInv, OperationInv, AccountInv, AccountTypeOK
<1>4. (\A e \in Endpoints, n \in Batches : BoundInv(e, n))'
  BY <1>1, <1>2 DEF Known, OwnInv, BoundInv
<1>5. CallsInv'
  BY <1>1 DEF Known, OwnInv, CallsInv, CallInv, StateOf
<1>6. StageInv' /\ PlacesFree' /\ StoredInv'
  BY <1>1 DEF Known, OwnInv, StageInv, PlacesFree, StoredInv, shuttingDown, IsCurrent
<1> QED
  BY <1>3, <1>4, <1>5, <1>6 DEF OwnInv

(* The open contexts of an account whose runtime is awaited by a           *)
(* retirement are those of its successor.                                  *)
LEMMA RetireStackOwn ==
  ASSUME Known, NEW r \in Refs, RetireStack(r)
  PROVE  OwnInv'
<1>1. /\ UNCHANGED <<filed, settled, evicted, disposed, sweeping, context,
                     retiredBy, revision, session, binding, at, uses, op, stage, exit>>
      /\ exit = "running"
  BY DEF RetireStack, StartRetirement, RetiredRuntimeSettled, DisposeDone, RetirementRejects,
    contextVars, daemonVars, gateVars, callVars, lifeVars, Running
<1>2. /\ phase \in [Refs -> Phases] /\ failed \in [Refs -> BOOLEAN]
      /\ runtime \in [Refs -> [Epochs -> RuntimeStates]]
      /\ settled[r] \in Epochs
      /\ \A q \in Refs : RetirementInv(q) /\ OwningInv(q)
  BY DEF Known, AccountInv, AccountTypeOK, OwnInv
<1>3. \A e \in Endpoints, n \in Batches : BoundInv(e, n) /\ binding[e][n].epoch \in Epochs
  BY DEF Known, OwnInv, ContextInv, ContextTypes, Bindings
<1>4. CallsInv'
  BY <1>1 DEF Known, OwnInv, CallsInv, CallInv, StateOf
<1>5. StageInv' /\ PlacesFree'
  BY <1>1 DEF Known, OwnInv, StageInv, PlacesFree, shuttingDown, IsCurrent
<1>6. \A q \in Refs : q # r => phase'[q] = phase[q] /\ failed'[q] = failed[q] /\ runtime'[q] = runtime[q]
  BY <1>2 DEF RetireStack, StartRetirement, RetiredRuntimeSettled, DisposeDone,
    RetirementRejects, SetPhase, SetRuntime
<1>7. \A m \in Epochs : m # settled[r] => runtime'[r][m] = runtime[r][m]
  BY <1>2 DEF RetireStack, StartRetirement, RetiredRuntimeSettled, DisposeDone,
    RetirementRejects, SetPhase, SetRuntime
<1>8. /\ phase'[r] \in {"before", "disposing", "work"} \/ failed'[r]
      /\ failed'[r] => phase'[r] = "idle"
      /\ phase'[r] # "before" \/ runtime' = runtime
      /\ phase'[r] # "before" => phase[r] \in {"await", "disposing"}
      /\ ~failed[r]
      /\ runtime'[r][settled[r]] = "live" => runtime' = runtime
  BY <1>2 DEF RetireStack, StartRetirement, RetiredRuntimeSettled, DisposeDone,
    RetirementRejects, SetPhase, SetRuntime, RetirementInv
<1>9. \A q \in Refs : RetirementInv(q)'
  <2>1. filed[r] \in Epochs /\ (runtime' # runtime => filed[r] # settled[r])
    BY <1>2, <1>8, RetirementBound DEF Known, AccountInv, AccountTypeOK, ChainInv, Epochs
  <2>2. runtime'[r][filed[r]] = runtime[r][filed[r]]
    BY <1>7, <2>1
  <2> QED
    BY <1>1, <1>2, <1>6, <1>8, <2>2 DEF RetirementInv
<1>10. OperationInv'
  <2>1. OperationInv /\ ChainInv(r) /\ filed[r] \in Epochs
    BY DEF Known, OwnInv, AccountInv, AccountTypeOK
  <2>2. phase[r] # "idle" => op.step # "using"
    BY <1>2, <2>1, RetirementBound DEF OperationInv, RetirementInv, ChainInv, NoOp, Epochs
  <2>3. op.step = "using" => runtime' = runtime
    BY <1>8, <2>2
  <2> QED
    BY <1>1, <2>1, <2>3 DEF OperationInv
<1>11. ASSUME NEW e \in Endpoints, NEW n \in Batches
       PROVE  BoundInv(e, n)'
  <2>1. CASE binding[e][n].ref = r
    BY <1>1, <1>3, <1>7, <1>8, <2>1 DEF BoundInv
  <2>2. CASE binding[e][n].ref # r
    BY <1>1, <1>3, <1>6, <2>2 DEF BoundInv
  <2> QED
    BY <2>1, <2>2
<1>12. StoredInv'
  BY <1>1, <1>2, <1>6, <1>7, <1>8 DEF Known, OwnInv, StoredInv
<1> QED
  BY <1>4, <1>5, <1>9, <1>10, <1>11, <1>12 DEF OwnInv

(* beforeDispose: what was bound to the account is closed by then.         *)
LEMMA AwaitContextBarrierOwn ==
  ASSUME Known, NEW r \in Refs, AwaitContextBarrier(r)
  PROVE  OwnInv'
<1>1. /\ UNCHANGED <<filed, settled, failed, runtime, evicted, disposed, sweeping, context,
                     retiredBy, revision, session, binding, at, uses, op, stage, exit>>
      /\ phase[r] = "before" /\ exit = "running"
      /\ op.step = "mutating" /\ op.ref = r => disposed >= op.mark
  BY DEF AwaitContextBarrier, BeforeDisposeDone, contextVars, daemonVars, gateVars, callVars,
    lifeVars, Running
<1>2. \A q \in Refs : phase'[q] = IF q = r THEN "await" ELSE phase[q]
  BY DEF AwaitContextBarrier, BeforeDisposeDone, SetPhase, Known, AccountInv, AccountTypeOK
<1>3. /\ settled[r] < filed[r] /\ settled[r] \in Nat /\ filed[r] \in Nat
      /\ RetirementInv(r) /\ failed[r] \in BOOLEAN
  BY <1>1, RetirementBound
  DEF Known, OwnInv, AccountInv, AccountTypeOK, ChainInv, Epochs
<1>4. ASSUME NEW e \in Endpoints, NEW n \in Batches
      PROVE  BoundInv(e, n)'
  <2>1. /\ BoundInv(e, n) /\ Pending(e, n) /\ retiredBy[e][n] \in Nat /\ disposed \in Nat
        /\ StageInv
    BY DEF Known, OwnInv, ContextInv, ContextTypes, PlacesInv
  <2>2. CASE binding[e][n].ref = r /\ context[e][n] # "absent"
    <3>1. op.step = "mutating" /\ op.ref = r
      BY <1>1, <1>3, <2>1, <2>2 DEF RetirementInv, StageInv
    <3>2. op.mark \in Nat
      BY <3>1, BatchBound DEF Known, OwnInv, OperationInv, Batches
    <3>3. binding[e][n].epoch = filed[r]
      BY <1>1, <2>1, <2>2, <3>1, <3>2 DEF BoundInv, Pending
    <3> QED
      BY <1>1, <1>2, <1>3, <2>1, <2>2, <3>3 DEF BoundInv
  <2>3. CASE binding[e][n].ref # r \/ context[e][n] = "absent"
    BY <1>1, <1>2, <2>1, <2>3 DEF BoundInv
  <2> QED
    BY <2>2, <2>3
<1>5. (\A q \in Refs : RetirementInv(q))' /\ OperationInv'
  BY <1>1, <1>2 DEF Known, OwnInv, RetirementInv, OperationInv
<1>6. CallsInv' /\ StageInv' /\ PlacesFree' /\ StoredInv'
  BY <1>1 DEF Known, OwnInv, CallsInv, CallInv, StateOf, StageInv, PlacesFree, StoredInv, shuttingDown, IsCurrent
<1> QED
  BY <1>4, <1>5, <1>6 DEF OwnInv

(* The session is written or removed while nothing owns the account.       *)
LEMMA MutateOwn ==
  ASSUME Known, NEW r \in Refs, Mutate(r)
  PROVE  OwnInv'
<1>1. /\ UNCHANGED <<filed, failed, runtime, evicted, disposed, sweeping, context,
                     retiredBy, revision, binding, at, uses, op, stage, exit>>
      /\ phase[r] = "work" /\ exit = "running"
  BY DEF Mutate, WorkDone, contextVars, gateVars, callVars, lifeVars, Running
<1>2. /\ settled[r] \in Nat /\ filed[r] \in Nat /\ settled[r] < filed[r]
      /\ \A n \in Epochs : runtime[r][n] # "live"
      /\ ~failed[r]
  BY <1>1, RetirementBound
  DEF Known, OwnInv, AccountInv, AccountTypeOK, ChainInv, OwningInv, Epochs, Owning, RetirementInv
<1>3. \A q \in Refs : /\ phase'[q] = IF q = r THEN "idle" ELSE phase[q]
                      /\ settled'[q] = IF q = r THEN settled[r] + 1 ELSE settled[q]
  BY DEF Mutate, WorkDone, SetPhase, Known, AccountInv, AccountTypeOK
<1>7. /\ session' \in [Refs -> BOOLEAN]
      /\ \A q \in Refs \ {r} : session'[q] = session[q]
  BY DEF Mutate, Known, OwnInv, StoredInv
<1>4. (\A q \in Refs : RetirementInv(q))' /\ OperationInv'
  BY <1>1, <1>2, <1>3 DEF Known, OwnInv, RetirementInv, OperationInv
<1>5. (\A e \in Endpoints, n \in Batches : BoundInv(e, n))'
  BY <1>1, <1>3 DEF Known, OwnInv, BoundInv
<1>6. CallsInv' /\ StageInv' /\ PlacesFree' /\ StoredInv'
  BY <1>1, <1>2, <1>3, <1>7 DEF Known, OwnInv, CallsInv, CallInv, StateOf, StageInv, PlacesFree, StoredInv,
    shuttingDown, IsCurrent
<1> QED
  BY <1>4, <1>5, <1>6 DEF OwnInv

(* The shutdown retires what it finds, when no context is open any more.   *)
LEMMA RetireAllOwn ==
  ASSUME Known, NEW r \in Refs, RetireAll(r)
  PROVE  OwnInv'
<1>1. /\ UNCHANGED <<settled, failed, phase, runtime, evicted, disposed, sweeping, context,
                     retiredBy, revision, session, binding, at, uses, op, stage, exit>>
      /\ stage = "accounts" /\ exit = "running"
  BY DEF RetireAll, WithRetired, contextVars, daemonVars, gateVars, callVars, lifeVars, Running
<1>2. /\ op = NoOp
      /\ \A e \in Endpoints, n \in Batches : context[e][n] = "absent"
  BY <1>1 DEF Known, OwnInv, OperationInv, StageInv
<1>6. \A q \in Refs : IF q = r THEN runtime[q][filed'[q]] = "absent" ELSE filed'[q] = filed[q]
  BY RetirementBound
  DEF RetireAll, WithRetired, Known, AccountInv, AccountTypeOK, FiledInv, Epochs
<1>3. (\A q \in Refs : RetirementInv(q))' /\ OperationInv'
  BY <1>1, <1>2, <1>6 DEF Known, OwnInv, RetirementInv, OperationInv, NoOp
<1>4. (\A e \in Endpoints, n \in Batches : BoundInv(e, n))'
  BY <1>1, <1>2 DEF BoundInv
<1>5. CallsInv' /\ StageInv' /\ PlacesFree' /\ StoredInv'
  BY <1>1 DEF Known, OwnInv, CallsInv, CallInv, StateOf, StageInv, PlacesFree, StoredInv, shuttingDown, IsCurrent
<1> QED
  BY <1>3, <1>4, <1>5 DEF OwnInv

(* An account build succeeds: what awaited it is bound to the connection.  *)
LEMMA BuildStackOwn ==
  ASSUME Known, NEW r \in Refs, NEW k \in Epochs, BuildStack(r, k)
  PROVE  OwnInv'
<1>1. /\ UNCHANGED <<filed, settled, failed, phase, evicted, disposed, sweeping, context,
                     retiredBy, revision, session, at, uses, stage, exit>>
      /\ exit = "running" /\ runtime[r][k] = "building" /\ session[r]
      /\ op' = IF SnapshotAwaits(r, k) THEN Snapshot("using", r, k) ELSE op
  BY DEF BuildStack, FinishBuild, contextVars, gateVars, callVars, lifeVars, Running
<1>2. \A q \in Refs, m \in Epochs :
        runtime'[q][m] = IF q = r /\ m = k THEN "live" ELSE runtime[q][m]
  <2>1. PICK s \in {"live", "absent"} : SetRuntime(r, k, s)
    BY DEF BuildStack, FinishBuild
  <2>2. runtime'[r][k] = "live" /\ s \in RuntimeStates
    BY DEF BuildStack, RuntimeStates
  <2>3. \A q \in Refs, m \in Epochs :
          runtime'[q][m] = IF q = r /\ m = k THEN s ELSE runtime[q][m]
    BY <2>1, <2>2, SetRuntimeAt DEF Known, AccountInv, AccountTypeOK
  <2> QED
    BY <2>2, <2>3
<1>3. ASSUME NEW e \in Endpoints, NEW n \in Batches
      PROVE  BoundInv(e, n)'
  <2>1. BoundInv(e, n) /\ binding[e][n].epoch \in Epochs
    BY DEF Known, OwnInv, ContextInv, ContextTypes, Bindings
  <2>2. op'.step = "mutating" => op' = op
    BY <1>1 DEF Snapshot
  <2>3. CASE <<e, n>> \in Awaiting(r, k)
    <3>1. /\ binding'[e][n].cap = revision /\ binding'[e][n].ref = r
          /\ binding'[e][n].epoch = k
          /\ binding[e][n].ref = r /\ binding[e][n].epoch = k
      BY <2>3 DEF BuildStack, Awaiting, BindingOf
    <3> QED
      BY <1>1, <1>2, <2>1, <2>2, <3>1 DEF BoundInv
  <2>4. CASE <<e, n>> \notin Awaiting(r, k)
    <3>1. binding'[e][n] = binding[e][n]
      BY <2>4 DEF BuildStack
    <3>2. context[e][n] # "absent" => ~(binding[e][n].ref = r /\ binding[e][n].epoch = k)
      BY <1>1, <2>1, <2>4 DEF BoundInv, Awaiting, BindingOf, StateOf, Places
    <3> QED
      BY <1>1, <1>2, <2>1, <2>2, <3>1, <3>2 DEF BoundInv
  <2> QED
    BY <2>3, <2>4
<1>4. (\A q \in Refs : RetirementInv(q))'
  BY <1>1, <1>2
  DEF Known, OwnInv, RetirementInv, SnapshotAwaits, Snapshot, AccountInv, AccountTypeOK
<1>5. OperationInv'
  BY <1>1, <1>2 DEF Known, OwnInv, OperationInv, SnapshotAwaits, Snapshot, NoOp
<1>6. CallsInv' /\ StageInv' /\ PlacesFree' /\ StoredInv'
  BY <1>1, <1>2 DEF Known, OwnInv, CallsInv, CallInv, StateOf, StageInv, PlacesFree, StoredInv, shuttingDown,
    IsCurrent
<1> QED
  BY <1>3, <1>4, <1>5, <1>6 DEF OwnInv

(* Contexts that are being built settle, and the calls that awaited them.  *)
LEMMA SettleCalls ==
  ASSUME Known, NEW B, NEW s \in {"live", "absent"}, SettleContexts(B, s), Resume(B, s),
         \A e \in Endpoints, n \in Batches : <<e, n>> \in B => context[e][n] = "building"
  PROVE  CallsInv'
<1>1. \A e \in Endpoints, n \in Batches :
        context'[e][n] = IF <<e, n>> \in B THEN s ELSE context[e][n]
  BY DEF SettleContexts
<1>5. CallsInv
  BY DEF Known, OwnInv
<1>6. /\ at' \in [Calls -> {"idle", "awaiting", "holding", "operating"}]
      /\ uses' \in [Calls -> Places \cup {NoPlace}]
  BY <1>5 DEF CallsInv, Resume
<1> SUFFICES ASSUME NEW c \in Calls
             PROVE  CallInv(c)'
  BY <1>6 DEF CallsInv
<1>2. CallInv(c)
  BY <1>5 DEF CallsInv
<1>3. /\ at'[c] # "idle" => at[c] # "idle" /\ uses'[c] = uses[c]
      /\ at'[c] = "operating" => at[c] = "operating"
  BY DEF Resume
<1>4. ASSUME at'[c] = "operating"
      PROVE  StateOf(uses[c])' \in {"live", "closing"}
  <2>1. PICK e \in Endpoints, n \in Batches : uses[c] = <<e, n>>
    BY <1>2, <1>3, <1>4 DEF CallsInv, CallInv, Places
  <2>2. context[e][n] \in {"live", "closing"}
    BY <1>2, <1>3, <1>4, <2>1 DEF CallsInv, CallInv, StateOf
  <2>3. context'[e][n] = context[e][n]
    BY <1>1, <2>2
  <2>4. uses'[c] = <<e, n>>
    BY <1>3, <1>4, <2>1
  <2> QED
    BY <2>2, <2>3, <2>4 DEF StateOf
<1> QED
  BY <1>2, <1>3, <1>4 DEF CallsInv, CallInv, StateOf, Places

(* An account build fails, or is refused, with everything that awaits it.  *)
LEMMA BuildStackFailsOwn ==
  ASSUME Known, NEW r \in Refs, NEW k \in Epochs, BuildStackFails(r, k)
  PROVE  OwnInv'
<1> DEFINE B == Awaiting(r, k)
<1>1. /\ UNCHANGED <<filed, settled, failed, phase, evicted, disposed, sweeping, retiredBy,
                     revision, session, stage, exit>>
      /\ exit = "running" /\ runtime[r][k] \in {"waiting", "building"}
      /\ op' = op \/ op' = NoOp
      /\ SettleContexts(B, "absent") /\ Resume(B, "absent") /\ Unbind(B)
  BY DEF BuildStackFails, FinishBuild, RefuseBuild, SettleContexts, gateVars, lifeVars, Running
<1>2. \A q \in Refs, m \in Epochs :
        runtime'[q][m] = IF q = r /\ m = k THEN "absent" ELSE runtime[q][m]
  <2>1. PICK s \in {"live", "absent"} : SetRuntime(r, k, s)
    BY DEF BuildStackFails, FinishBuild, RefuseBuild
  <2>2. runtime'[r][k] = "absent" /\ s \in RuntimeStates
    BY DEF BuildStackFails, RuntimeStates
  <2>3. \A q \in Refs, m \in Epochs :
          runtime'[q][m] = IF q = r /\ m = k THEN s ELSE runtime[q][m]
    BY <2>1, <2>2, SetRuntimeAt DEF Known, AccountInv, AccountTypeOK
  <2> QED
    BY <2>2, <2>3
<1>3. \A e \in Endpoints, n \in Batches : <<e, n>> \in B => context[e][n] = "building"
  BY DEF Awaiting, StateOf
<1>4. \A e \in Endpoints, n \in Batches :
        context'[e][n] # "absent" => <<e, n>> \notin B /\ context'[e][n] = context[e][n]
  BY <1>1 DEF SettleContexts
<1>5. \A e \in Endpoints, n \in Batches : <<e, n>> \notin B => binding'[e][n] = binding[e][n]
  BY <1>1, UnbindAt
<1>6. ASSUME NEW e \in Endpoints, NEW n \in Batches, context'[e][n] # "absent"
      PROVE  BoundInv(e, n)'
  <2>1. /\ BoundInv(e, n) /\ binding[e][n].epoch \in Epochs /\ <<e, n>> \notin B
        /\ binding'[e][n] = binding[e][n] /\ context'[e][n] = context[e][n]
    BY <1>4, <1>5, <1>6 DEF Known, OwnInv, ContextInv, ContextTypes, Bindings
  <2>2. ~(binding[e][n].ref = r /\ binding[e][n].epoch = k)
    BY <1>1, <1>6, <2>1 DEF BoundInv, Awaiting, BindingOf, StateOf, Places
  <2> HIDE DEF B
  <2> QED
    BY <1>1, <1>2, <1>6, <2>1, <2>2 DEF BoundInv, NoOp
<1>7. (\A e \in Endpoints, n \in Batches : BoundInv(e, n))'
  BY <1>6 DEF BoundInv
<1>8. (\A q \in Refs : RetirementInv(q))'
  <2>1. op.step = "mutating" => op' = op
    BY DEF BuildStackFails, SnapshotAwaits, Snapshot
  <2> QED
    BY <1>1, <1>2, <2>1 DEF Known, OwnInv, RetirementInv, AccountInv, AccountTypeOK
<1>9. OperationInv'
  BY <1>1, <1>2 DEF Known, OwnInv, OperationInv, NoOp
<1>10. StageInv' /\ PlacesFree' /\ StoredInv'
  <2>1. StageInv /\ StoredInv
    BY DEF Known, OwnInv
  <2>2. \A e \in Endpoints, n \in Batches :
          context'[e][n] # "absent" => context'[e][n] = context[e][n]
    BY <1>4
  <2>3. /\ UNCHANGED <<evicted, retiredBy, session, stage, exit>> /\ exit = "running"
    BY <1>1
  <2>6. PlacesFree /\ \A e \in Endpoints, n \in Batches : retiredBy'[e][n] = retiredBy[e][n]
    BY <2>3 DEF Known, OwnInv
  <2>7. PlacesFree'
    BY <2>2, <2>3, <2>6 DEF PlacesFree, shuttingDown
  <2>8. StageInv'
    BY <2>1, <2>2, <2>3, <2>6 DEF StageInv, shuttingDown, IsCurrent
  <2>4. StageInv' /\ PlacesFree'
    BY <2>7, <2>8
  <2>5. StoredInv'
    BY <1>2, <2>1, <2>3 DEF StoredInv
  <2> QED
    BY <2>4, <2>5
<1>11. CallsInv'
  BY <1>1, <1>3, SettleCalls
<1> QED
  BY <1>7, <1>8, <1>9, <1>10, <1>11 DEF OwnInv

LEMMA FinishContextOwn ==
  ASSUME Known, NEW x \in Endpoints, NEW k \in Batches, FinishContext(x, k)
  PROVE  OwnInv'
<1>1. PICK s \in {"live", "absent"} :
        /\ SettleContexts({<<x, k>>}, s) /\ Resume({<<x, k>>}, s)
        /\ Unbind(IF s = "live" THEN {} ELSE {<<x, k>>})
  BY DEF FinishContext
<1>2. /\ UNCHANGED <<filed, settled, failed, phase, runtime, evicted, disposed, sweeping,
                     retiredBy, revision, session, op, stage, exit>>
      /\ exit = "running" /\ context[x][k] = "building" /\ binding[x][k].cap # 0
  BY <1>1 DEF FinishContext, SettleContexts, accountVars, gateVars, lifeVars, Running
<1>3. \A e \in Endpoints, n \in Batches :
        context'[e][n] = IF e = x /\ n = k THEN s ELSE context[e][n]
  BY <1>1 DEF SettleContexts
<1>4. \A e \in Endpoints, n \in Batches :
        context'[e][n] # "absent" =>
          /\ binding'[e][n] = binding[e][n]
          /\ context[e][n] # "absent"
          /\ binding[e][n].cap = 0 => context'[e][n] = context[e][n]
  <2>1. CASE s = "live"
    BY <1>1, <1>2, <1>3, <2>1 DEF Unbind
  <2>2. CASE s = "absent"
    BY <1>1, <1>2, <1>3, <2>2 DEF Unbind
  <2> QED
    BY <2>1, <2>2
<1>5. (\A e \in Endpoints, n \in Batches : BoundInv(e, n))'
  BY <1>2, <1>4 DEF Known, OwnInv, BoundInv
<1>6. (\A q \in Refs : RetirementInv(q))' /\ OperationInv' /\ StoredInv'
  BY <1>2 DEF Known, OwnInv, RetirementInv, OperationInv, StoredInv
<1>7. StageInv' /\ PlacesFree'
  BY <1>2, <1>4 DEF Known, OwnInv, StageInv, PlacesFree, shuttingDown, IsCurrent
<1>8. CallsInv'
  BY <1>1, <1>2, SettleCalls
<1> QED
  BY <1>5, <1>6, <1>7, <1>8 DEF OwnInv

(* The oldest batch starts to close, and is closed.                        *)
LEMMA StartContextSweepOwn ==
  ASSUME Known, StartContextSweep
  PROVE  OwnInv'
<1>1. /\ UNCHANGED <<filed, settled, failed, phase, runtime, evicted, retiredBy, revision,
                     session, binding, at, uses, op, stage, exit>>
      /\ exit = "running"
      /\ \A e \in Endpoints, n \in Batches :
           context'[e][n] = IF <<e, n>> \in OldestBatch /\ context[e][n] = "live"
                              THEN "closing" ELSE context[e][n]
  BY DEF StartContextSweep, StartSweep, accountVars, daemonVars, gateVars, callVars, lifeVars,
    Running
<1>2. \A e \in Endpoints, n \in Batches :
        \/ context'[e][n] = context[e][n]
        \/ context[e][n] = "live" /\ context'[e][n] = "closing"
  BY <1>1
<1>3. (\A e \in Endpoints, n \in Batches : BoundInv(e, n))'
  BY <1>1, <1>2 DEF Known, OwnInv, BoundInv
<1>4. (\A q \in Refs : RetirementInv(q))' /\ OperationInv' /\ StoredInv'
  BY <1>1 DEF Known, OwnInv, RetirementInv, OperationInv, StoredInv
<1>5. StageInv' /\ PlacesFree'
  BY <1>1, <1>2 DEF Known, OwnInv, StageInv, PlacesFree, shuttingDown, IsCurrent
<1>6. CallsInv'
  BY <1>1, <1>2 DEF Known, OwnInv, CallsInv, CallInv, StateOf, Places
<1> QED
  BY <1>3, <1>4, <1>5, <1>6 DEF OwnInv

LEMMA FinishContextSweepOwn ==
  ASSUME Known, FinishContextSweep
  PROVE  OwnInv'
<1>1. /\ UNCHANGED <<filed, settled, failed, phase, runtime, evicted, revision,
                     session, at, uses, op, stage, exit>>
      /\ exit = "running" /\ Unbind(OldestBatch)
      /\ \A c \in Calls : at[c] = "operating" => uses[c] \notin OldestBatch
      /\ \A e \in Endpoints, n \in Batches :
           /\ context'[e][n] = IF <<e, n>> \in OldestBatch THEN "absent" ELSE context[e][n]
           /\ retiredBy'[e][n] = IF <<e, n>> \in OldestBatch THEN 0 ELSE retiredBy[e][n]
  BY DEF FinishContextSweep, FinishSweep, accountVars, gateVars, callVars, lifeVars, Running
<1>2. \A e \in Endpoints, n \in Batches :
        <<e, n>> \notin OldestBatch =>
          /\ binding'[e][n] = binding[e][n]
          /\ context'[e][n] = context[e][n] /\ retiredBy'[e][n] = retiredBy[e][n]
  BY <1>1, UnbindAt
<1>3. \A e \in Endpoints, n \in Batches : context'[e][n] # "absent" => <<e, n>> \notin OldestBatch
  BY <1>1
<1>9. \A e \in Endpoints, n \in Batches :
        context'[e][n] # "absent" =>
          /\ binding'[e][n] = binding[e][n]
          /\ context'[e][n] = context[e][n] /\ retiredBy'[e][n] = retiredBy[e][n]
  BY <1>2, <1>3
<1>4. ASSUME NEW e \in Endpoints, NEW n \in Batches
      PROVE  BoundInv(e, n)'
  <2>1. BoundInv(e, n)
    BY DEF Known, OwnInv
  <2> QED
    BY <1>1, <1>9, <2>1 DEF BoundInv
<1>5. (\A q \in Refs : RetirementInv(q))' /\ OperationInv' /\ StoredInv'
  BY <1>1 DEF Known, OwnInv, RetirementInv, OperationInv, StoredInv
<1>6. StageInv'
  BY <1>1, <1>9 DEF Known, OwnInv, StageInv, shuttingDown, IsCurrent
<1>7. PlacesFree'
  BY <1>1 DEF Known, OwnInv, PlacesFree, shuttingDown
<1>8. CallsInv'
  BY <1>1, <1>2 DEF Known, OwnInv, CallsInv, CallInv, StateOf, Places
<1> QED
  BY <1>4, <1>5, <1>6, <1>7, <1>8 DEF OwnInv

(* Calls: one shares a context or files a new one.                         *)
LEMMA AcquireOwn ==
  ASSUME Known, NEW c \in Calls, NEW x \in Endpoints, Acquire(c, x)
  PROVE  OwnInv'
<1>1. /\ UNCHANGED <<revision, menu, acked, session, op, stage, exit>>
      /\ exit = "running" /\ at[c] = "idle" /\ menu[x] # NoRef /\ revision # 0
  BY DEF Acquire, gateVars, lifeVars, Running, Locked
<1>2. menu[x] \in Refs
  BY <1>1, ServedEndpoint DEF Known
<1>3. CallsInv /\ evicted \in Batches
  BY DEF Known, OwnInv, CallsInv, PlacesFree
<1>4. PICK n \in Batches, s \in {"holding", "awaiting"} :
        /\ at' = [at EXCEPT ![c] = s] /\ uses' = [uses EXCEPT ![c] = <<x, n>>]
        /\ \/ UNCHANGED <<accountVars, contextVars, binding>>
           \/ BindContext(x)
  BY <1>3 DEF Acquire
<1>5. /\ at' \in [Calls -> {"idle", "awaiting", "holding", "operating"}]
      /\ uses' \in [Calls -> Places \cup {NoPlace}]
      /\ at'[c] # "operating" /\ uses'[c] \in Places
      /\ \A d \in Calls \ {c} : at'[d] = at[d] /\ uses'[d] = uses[d]
  BY <1>3, <1>4 DEF CallsInv, Places
<1>6. CASE UNCHANGED <<accountVars, contextVars, binding>>
  <2>1. UNCHANGED <<filed, settled, failed, phase, runtime, evicted, disposed, sweeping,
                    context, retiredBy, binding>>
    BY <1>6 DEF accountVars, contextVars
  <2>2. (\A q \in Refs : RetirementInv(q))' /\ OperationInv' /\ StoredInv'
    BY <1>1, <2>1 DEF Known, OwnInv, RetirementInv, OperationInv, StoredInv
  <2>3. (\A e \in Endpoints, n1 \in Batches : BoundInv(e, n1))'
    BY <1>1, <2>1 DEF Known, OwnInv, BoundInv
  <2>4. StageInv' /\ PlacesFree'
    BY <1>1, <2>1 DEF Known, OwnInv, StageInv, PlacesFree, shuttingDown, IsCurrent
  <2>5. CallsInv'
    BY <1>3, <1>5, <2>1 DEF CallsInv, CallInv, StateOf
  <2> QED
    BY <2>2, <2>3, <2>4, <2>5 DEF OwnInv
<1>7. CASE BindContext(x)
  <2> DEFINE r == menu[x]
  <2>1. /\ UNCHANGED <<filed, settled, failed, phase, evicted, disposed, sweeping, retiredBy>>
        /\ ~shuttingDown
        /\ context' = [context EXCEPT ![x][evicted] = "building"]
        /\ \A n1 \in Batches : ~IsCurrent(x, n1)
        /\ Get(r)
    BY <1>7 DEF BindContext, FileContext, StackForRef, Get
  <2>2. /\ filed[r] \in Epochs
        /\ \A q \in Refs, m \in Epochs :
             runtime'[q][m] = IF q = r /\ m = filed[q] /\ runtime[q][m] = "absent"
                                THEN "waiting" ELSE runtime[q][m]
    <3>1. r \in Refs /\ filed[r] \in Epochs /\ "waiting" \in RuntimeStates
      BY <1>2 DEF Known, AccountInv, AccountTypeOK, RuntimeStates
    <3>2. CASE Filed(r)
      BY <2>1, <3>1, <3>2 DEF Get, Filed
    <3>3. CASE ~Filed(r)
      <4>1. SetRuntime(r, filed[r], "waiting")
        BY <2>1, <3>3 DEF Get
      <4>2. runtime \in [Refs -> [Epochs -> RuntimeStates]]
        BY DEF Known, AccountInv, AccountTypeOK
      <4> HIDE DEF r
      <4> QED
        BY <3>1, <3>3, <4>1, <4>2, SetRuntimeAt DEF Filed
    <3> QED
      BY <3>1, <3>2, <3>3
  <2>3. \A e \in Endpoints, n1 \in Batches :
          IF e = x /\ n1 = evicted
            THEN /\ context'[e][n1] = "building"
                 /\ binding'[e][n1].ref = r /\ binding'[e][n1].epoch = filed[r]
                 /\ binding'[e][n1].cap =
                      IF runtime[r][filed[r]] = "live" THEN revision ELSE 0
            ELSE context'[e][n1] = context[e][n1] /\ binding'[e][n1] = binding[e][n1]
    BY <1>3, <1>7, <2>1 DEF BindContext, Known, ContextInv, ContextTypes
  <2>4. ASSUME NEW e \in Endpoints, NEW n1 \in Batches
        PROVE  BoundInv(e, n1)'
    <3>4. r \in Refs
      BY <1>2
    <3> HIDE DEF r
    <3>5. BoundInv(e, n1) /\ binding[e][n1].epoch \in Epochs
      BY DEF Known, OwnInv, ContextInv, ContextTypes, Bindings
    <3>6. /\ RetirementInv(r) /\ OperationInv /\ ChainInv(r)
          /\ runtime[r][filed[r]] \in RuntimeStates
      BY <2>2, <3>4 DEF Known, OwnInv, AccountInv, AccountTypeOK
    <3>7. settled[r] \in Nat /\ filed[r] \in Nat
      BY <3>4, RetirementBound DEF Known, AccountInv, AccountTypeOK, Epochs
    <3>1. /\ BoundInv(e, n1) /\ binding[e][n1].epoch \in Epochs /\ r \in Refs
          /\ RetirementInv(r) /\ OperationInv /\ ChainInv(r)
          /\ runtime[r][filed[r]] \in RuntimeStates
          /\ settled[r] \in Nat /\ filed[r] \in Nat
      BY <3>4, <3>5, <3>6, <3>7
    <3>2. CASE e = x /\ n1 = evicted
      BY <1>1, <2>1, <2>2, <2>3, <3>1, <3>2
      DEF BoundInv, RetirementInv, ChainInv, OperationInv, RuntimeStates
    <3>3. CASE ~(e = x /\ n1 = evicted)
      <4>1. context'[e][n1] = context[e][n1] /\ binding'[e][n1] = binding[e][n1]
        BY <2>3, <3>3
      <4>2. context[e][n1] # "absent" =>
              runtime'[binding[e][n1].ref][binding[e][n1].epoch]
                = runtime[binding[e][n1].ref][binding[e][n1].epoch]
        BY <2>2, <3>1 DEF BoundInv
      <4>3. UNCHANGED <<filed, settled, phase, retiredBy, revision, op>>
        BY <1>1, <2>1
      <4> QED
        BY <3>1, <4>1, <4>2, <4>3 DEF BoundInv
    <3> QED
      BY <3>2, <3>3
  <2>5. (\A q \in Refs : RetirementInv(q))'
    BY <1>1, <2>1, <2>2 DEF Known, OwnInv, RetirementInv, AccountInv, AccountTypeOK
  <2>6. OperationInv' /\ StoredInv'
    BY <1>1, <2>1, <2>2 DEF Known, OwnInv, OperationInv, StoredInv
  <2>7. StageInv'
    BY <1>1, <2>1 DEF Known, OwnInv, StageInv, shuttingDown
  <2>8. PlacesFree'
    BY <1>1, <2>1, <2>3, BatchBound DEF Known, OwnInv, PlacesFree, shuttingDown, Batches
  <2>9. CallsInv'
    <3>1. ASSUME NEW d \in Calls, at'[d] = "operating"
          PROVE  StateOf(uses[d])' \in {"live", "closing"}
      <4>1. /\ d # c /\ at[d] = "operating" /\ uses'[d] = uses[d] /\ CallInv(d)
        BY <1>3, <1>5, <3>1 DEF CallsInv
      <4>2. PICK e \in Endpoints, n1 \in Batches : uses[d] = <<e, n1>>
        BY <4>1 DEF CallInv, Places
      <4>3. context[e][n1] \in {"live", "closing"}
        BY <4>1, <4>2 DEF CallInv, StateOf
      <4>4. ~(e = x /\ n1 = evicted)
        <5>1. SUFFICES ASSUME e = x, n1 = evicted
                       PROVE  FALSE
          OBVIOUS
        <5>2. retiredBy[e][n1] # 0
          BY <2>1, <4>3, <5>1 DEF IsCurrent
        <5>3. /\ n1 < retiredBy[e][n1] /\ retiredBy[e][n1] <= evicted
              /\ evicted \in Nat /\ retiredBy[e][n1] \in Nat
          BY <5>2 DEF Known, OwnInv, PlacesFree, ContextInv, PlacesInv, Pending, ContextTypes
        <5> QED
          BY <5>1, <5>3
      <4> QED
        BY <2>3, <4>1, <4>2, <4>3, <4>4 DEF StateOf
    <3> QED
      BY <1>3, <1>5, <3>1 DEF CallsInv, CallInv
  <2> QED
    BY <2>4, <2>5, <2>6, <2>7, <2>8, <2>9 DEF OwnInv
<1> QED
  BY <1>4, <1>6, <1>7

(* Steps of one call, and of one operation, that touch nothing they share. *)
LEMMA CallStepOwn ==
  ASSUME Known, NEW c \in Calls, BeginOperation(c) \/ EndOperation(c) \/ Answer(c)
  PROVE  OwnInv'
<1>1. /\ UNCHANGED <<filed, settled, failed, phase, runtime, evicted, disposed, sweeping,
                     context, retiredBy, revision, binding, session, op, stage, exit>>
  BY DEF BeginOperation, EndOperation, Answer, accountVars, contextVars, gateVars, lifeVars
<1>2. (\A q \in Refs : RetirementInv(q))' /\ OperationInv' /\ StoredInv'
  BY <1>1 DEF Known, OwnInv, RetirementInv, OperationInv, StoredInv
<1>3. (\A e \in Endpoints, n \in Batches : BoundInv(e, n))'
  BY <1>1 DEF Known, OwnInv, BoundInv
<1>4. StageInv' /\ PlacesFree'
  BY <1>1 DEF Known, OwnInv, StageInv, PlacesFree, shuttingDown, IsCurrent, Filed
<1>5. CallsInv'
  BY <1>1 DEF Known, OwnInv, CallsInv, CallInv, StateOf, BeginOperation, EndOperation, Answer
<1> QED
  BY <1>2, <1>3, <1>4, <1>5 DEF OwnInv

LEMMA OperationStepOwn ==
  ASSUME Known,
         UNCHANGED <<accountVars, contextVars, revision, session, binding, callVars, lifeVars>>,
         op'.step # "mutating", OperationInv', (\A q \in Refs : RetirementInv(q))'
  PROVE  OwnInv'
<1>1. UNCHANGED <<filed, settled, failed, phase, runtime, evicted, disposed, sweeping,
                  context, retiredBy, revision, session, binding, at, uses, stage, exit>>
  BY DEF accountVars, contextVars, callVars, lifeVars
<1>2. (\A e \in Endpoints, n \in Batches : BoundInv(e, n))'
  BY <1>1 DEF Known, OwnInv, BoundInv
<1>3. CallsInv' /\ StageInv' /\ PlacesFree' /\ StoredInv'
  BY <1>1 DEF Known, OwnInv, CallsInv, CallInv, StateOf, StageInv, PlacesFree, StoredInv,
    shuttingDown, IsCurrent, Filed
<1> QED
  BY <1>2, <1>3 DEF OwnInv

LEMMA OperationStepsOwn ==
  ASSUME Known,
         StartAuthenticate \/ StartApplyPolicy \/ CheckFails \/ Acknowledge
           \/ FinishSnapshot \/ FinishMutation
  PROVE  OwnInv'
<1>1. UNCHANGED <<accountVars, contextVars, revision, session, binding, callVars, lifeVars>>
  BY DEF StartAuthenticate, StartApplyPolicy, CheckFails, Acknowledge, FinishSnapshot,
    FinishMutation, gateVars
<1>2. UNCHANGED <<filed, settled, failed, phase, runtime, stage>>
  BY <1>1 DEF accountVars, lifeVars
<1>3. op' = NoOp \/ (op'.step = "checking" /\ op'.kind # "none" /\ ~shuttingDown)
  BY DEF StartAuthenticate, StartApplyPolicy, CheckFails, Acknowledge, FinishSnapshot,
    FinishMutation, Publication
<1>4. op'.step # "mutating" /\ OperationInv'
  BY <1>2, <1>3 DEF OperationInv, NoOp, shuttingDown
<1>5. ASSUME NEW q \in Refs
      PROVE  RetirementInv(q)'
  <2>1. RetirementInv(q) /\ OperationInv /\ filed[q] \in Nat /\ settled[q] \in Nat
    BY RetirementBound DEF Known, OwnInv, AccountInv, AccountTypeOK, Epochs
  <2>2. op.step = "mutating" /\ op.ref = q => settled[q] >= filed[q] \/ failed[q]
    BY <2>1 DEF OperationInv, StartAuthenticate, StartApplyPolicy, CheckFails, Acknowledge,
      FinishSnapshot, FinishMutation, NoOp
  <2> QED
    BY <1>2, <2>1, <2>2 DEF RetirementInv
<1> QED
  BY <1>1, <1>4, <1>5, OperationStepOwn

(* An operator's snapshot finds a runtime, or files a build.               *)
LEMMA StartSnapshotOwn ==
  ASSUME Known, NEW r \in Refs, StartSnapshot(r)
  PROVE  OwnInv'
<1>1. /\ UNCHANGED <<filed, settled, failed, phase, evicted, disposed, sweeping, context,
                     retiredBy, revision, binding, session, at, uses, stage, exit>>
      /\ exit = "running" /\ ~shuttingDown /\ op.kind = "none" /\ Get(r)
      /\ op' = Snapshot(IF runtime[r][filed[r]] = "live" THEN "using" ELSE "stack", r, filed[r])
  BY DEF StartSnapshot, StackForRef, Get, contextVars, gateVars, callVars, lifeVars, Running
<1>2. /\ filed[r] \in Epochs
      /\ \A q \in Refs, m \in Epochs :
           runtime'[q][m] = IF q = r /\ m = filed[q] /\ runtime[q][m] = "absent"
                              THEN "waiting" ELSE runtime[q][m]
  <2>1. /\ filed[r] \in Epochs /\ "waiting" \in RuntimeStates
        /\ runtime \in [Refs -> [Epochs -> RuntimeStates]]
    BY DEF Known, AccountInv, AccountTypeOK, RuntimeStates
  <2>2. CASE Filed(r)
    BY <1>1, <2>1, <2>2 DEF Get, Filed
  <2>3. CASE ~Filed(r)
    BY <1>1, <2>1, <2>3, SetRuntimeAt DEF Get, Filed
  <2> QED
    BY <2>1, <2>2, <2>3
<1>3. /\ OperationInv /\ op'.step \in {"using", "stack"} /\ op'.kind = "snapshotAccount"
      /\ op'.ref = r /\ op'.epoch = filed[r]
      /\ op'.step = "using" <=> runtime[r][filed[r]] = "live"
  BY <1>1 DEF Known, OwnInv, Snapshot
<1>4. OperationInv'
  BY <1>1, <1>2, <1>3 DEF OperationInv, shuttingDown
<1>5. (\A q \in Refs : RetirementInv(q))'
  BY <1>1, <1>2, <1>3
  DEF Known, OwnInv, RetirementInv, OperationInv, NoOp, AccountInv, AccountTypeOK
<1>6. ASSUME NEW e \in Endpoints, NEW n \in Batches
      PROVE  BoundInv(e, n)'
  <2>1. BoundInv(e, n) /\ binding[e][n].epoch \in Epochs
    BY DEF Known, OwnInv, ContextInv, ContextTypes, Bindings
  <2>2. context[e][n] # "absent" =>
          runtime'[binding[e][n].ref][binding[e][n].epoch]
            = runtime[binding[e][n].ref][binding[e][n].epoch]
    BY <1>2, <2>1 DEF BoundInv
  <2> QED
    BY <1>1, <1>3, <2>1, <2>2 DEF BoundInv
<1>7. CallsInv' /\ StageInv' /\ PlacesFree' /\ StoredInv'
  BY <1>1, <1>2 DEF Known, OwnInv, CallsInv, CallInv, StateOf, StageInv, PlacesFree, StoredInv,
    shuttingDown, IsCurrent
<1> QED
  BY <1>4, <1>5, <1>6, <1>7 DEF OwnInv

(* Retiring contexts for a publication, a mutation or the shutdown: none   *)
(* closes, and what was current is captured by the batch of this moment.   *)
LEMMA RetireBound ==
  ASSUME Known, NEW K \in SUBSET Endpoints, Retire(K),
         UNCHANGED <<settled, failed, phase, runtime, binding>>,
         op'.step # "mutating",
         filed' = filed,
         revision # 0 => revision' # 0
  PROVE  (\A e \in Endpoints, n \in Batches : BoundInv(e, n))'
<1> SUFFICES ASSUME NEW e \in Endpoints, NEW n \in Batches
             PROVE  BoundInv(e, n)'
  OBVIOUS
<1>1. BoundInv(e, n) /\ ContextTypes
  BY DEF Known, OwnInv, ContextInv
<1>2. evicted \in Nat /\ context' = context
  BY <1>1, RetireFacts DEF ContextTypes
<1>3. retiredBy'[e][n] = 0 => retiredBy[e][n] = 0
  BY <1>1, <1>2, RetireFacts
<1> QED
  BY <1>1, <1>2, <1>3 DEF BoundInv

LEMMA RetirePlaces ==
  ASSUME Known, NEW K \in SUBSET Endpoints, Retire(K),
         evicted' < MaxBatches \/ shuttingDown', evicted' \in Batches
  PROVE  PlacesFree'
<1>1. ContextTypes /\ PlacesFree
  BY DEF Known, OwnInv, ContextInv
<1>2. evicted \in Nat /\ context' = context /\ evicted' \in {evicted, evicted + 1}
  BY <1>1, RetireFacts DEF ContextTypes
<1>3. ASSUME NEW e \in Endpoints, NEW n \in Batches
      PROVE  /\ context'[e][n] # "absent" => n <= evicted'
             /\ retiredBy'[e][n] # 0 => n < retiredBy'[e][n]
  <2>1. /\ context[e][n] # "absent" => n <= evicted
        /\ retiredBy[e][n] # 0 => n < retiredBy[e][n]
        /\ n \in Nat
    BY <1>1, BatchBound DEF PlacesFree, Batches
  <2>2. \/ IsCurrent(e, n) /\ retiredBy'[e][n] = evicted + 1
        \/ retiredBy'[e][n] = retiredBy[e][n]
    BY <1>1, RetireFacts
  <2> QED
    BY <1>2, <2>1, <2>2 DEF IsCurrent
<1> QED
  BY <1>3 DEF PlacesFree

(* A context that is not current stays so. *)
LEMMA RetireStage ==
  ASSUME Known, NEW K \in SUBSET Endpoints, Retire(K), exit = "running", UNCHANGED exit,
         stage' = stage \/ (stage' = "draining" /\ K = Endpoints)
  PROVE  StageInv'
<1>1. ContextTypes /\ StageInv
  BY DEF Known, OwnInv, ContextInv
<1>2. context' = context /\ evicted \in Nat
  BY <1>1, RetireFacts DEF ContextTypes
<1>3. \A e \in Endpoints, n \in Batches :
        /\ e \in K => ~IsCurrent(e, n)'
        /\ IsCurrent(e, n)' => IsCurrent(e, n)
  BY <1>1, <1>2, RetireFacts DEF IsCurrent
<1>4. (shuttingDown => \A e \in Endpoints, n \in Batches : ~IsCurrent(e, n))'
  BY <1>1, <1>3 DEF StageInv, shuttingDown
<1> QED
  BY <1>1, <1>2, <1>4 DEF StageInv

LEMMA PublishOwn ==
  ASSUME Known, NEW p, Publish(p), op.step = "checking", AwaitBarrier, op.kind # "none",
         evicted' \in Batches, ~shuttingDown => evicted' < MaxBatches, exit = "running"
  PROVE  OwnInv'
<1>1. /\ UNCHANGED <<filed, settled, failed, phase, runtime, session, binding, at, uses,
                     stage, exit>>
      /\ revision' = revision + 1 /\ Retire(Endpoints)
      /\ op'.step = "barrier" /\ op'.kind = op.kind
  BY DEF Publish, AwaitBarrier, Publication, accountVars, callVars, lifeVars
<1>2. ContextTypes /\ PlacesFree /\ OperationInv /\ CallsInv /\ StoredInv
  BY DEF Known, OwnInv, ContextInv
<1>3. /\ context' = context /\ evicted' \in {evicted, evicted + 1}
      /\ evicted \in Nat /\ revision \in Nat
  BY <1>1, <1>2, RetireFacts DEF ContextTypes
<1>5. (\A e \in Endpoints, n \in Batches : BoundInv(e, n))'
  BY <1>1, <1>3, RetireBound
<1>6. PlacesFree'
  BY <1>1, RetirePlaces DEF shuttingDown
<1>7. StageInv'
  BY <1>1, RetireStage
<1>8. OperationInv'
  BY <1>1, <1>2 DEF OperationInv, NoOp
<1>9. (\A q \in Refs : RetirementInv(q))'
  BY <1>1 DEF Known, OwnInv, RetirementInv
<1>10. CallsInv' /\ StoredInv'
  BY <1>1, <1>2, <1>3 DEF CallsInv, CallInv, StateOf, StoredInv
<1> QED
  BY <1>5, <1>6, <1>7, <1>8, <1>9, <1>10 DEF OwnInv

LEMMA AuthenticatedOwn ==
  ASSUME Known, Authenticated
  PROVE  OwnInv'
<1>1. /\ op.step = "checking" /\ op.kind = "authenticate" /\ exit = "running"
      /\ AwaitBarrier
  BY DEF Authenticated, Running
<1>2. OperationInv /\ ContextTypes /\ PlacesFree
  BY DEF Known, OwnInv, ContextInv
<1>3. CASE Locked
  <2>1. Publish(menu) /\ Retire(Endpoints) /\ stage' = stage
    BY <1>3 DEF Authenticated, Publish, lifeVars
  <2>2. \A e \in Endpoints, n \in Batches : ~IsCurrent(e, n)
    BY <1>3 DEF Known, OwnInv, BoundInv, IsCurrent, Locked
  <2>3. evicted' = evicted
    BY <1>2, <2>1, <2>2 DEF Retire, Captured
  <2>4. evicted' \in Batches /\ (~shuttingDown => evicted' < MaxBatches)
    BY <1>2, <2>3 DEF PlacesFree
  <2> QED
    BY <1>1, <2>1, <2>4, PublishOwn
<1>4. CASE ~Locked
  <2>1. UNCHANGED <<accountVars, contextVars, revision, session, binding, callVars, lifeVars>>
    BY <1>4 DEF Authenticated, gateVars
  <2>2. op'.step = "barrier" /\ op'.kind = "authenticate" /\ UNCHANGED <<filed, settled, failed, phase, runtime, stage>>
    BY <1>1, <2>1 DEF AwaitBarrier, Publication, accountVars, lifeVars
  <2>3. OperationInv' /\ (\A q \in Refs : RetirementInv(q))'
    BY <1>1, <1>2, <2>2 DEF Known, OwnInv, OperationInv, RetirementInv, NoOp
  <2> QED
    BY <2>1, <2>2, <2>3, OperationStepOwn
<1> QED
  BY <1>3, <1>4

LEMMA PolicySealedOwn ==
  ASSUME Known, PolicySealed
  PROVE  OwnInv'
<1>1. PICK p \in Policies : Publish(p)
  BY DEF PolicySealed
<1>2. /\ op.step = "checking" /\ op.kind = "applyPolicy" /\ exit = "running"
      /\ AwaitBarrier /\ evicted + 1 < MaxBatches
  BY DEF PolicySealed, Running
<1>3. evicted' \in {evicted, evicted + 1} /\ evicted \in Nat
  BY <1>1, RetireFacts DEF Publish, Known, ContextInv, ContextTypes
<1>4. evicted' < MaxBatches /\ evicted' \in Batches
  BY <1>2, <1>3, BatchBound DEF Batches
<1> QED
  BY <1>1, <1>2, <1>4, PublishOwn

(* A mutation retires the account together with the contexts bound to it.  *)
LEMMA StartMutationOwn ==
  ASSUME Known, NEW kind \in Mutations, NEW r \in Refs, StartMutation(kind, r)
  PROVE  OwnInv'
<1> DEFINE K == {e \in Endpoints : menu[e] = r}
<1>1. /\ UNCHANGED <<settled, failed, phase, runtime, revision, menu, session, binding, at,
                     uses, stage, exit>>
      /\ exit = "running" /\ op.kind = "none" /\ stage \in {"serving", "draining"}
      /\ filed' = [filed EXCEPT ![r] = @ + 1] /\ filed[r] < MaxRetirements
      /\ evicted + 1 < MaxBatches /\ Retire(K)
      /\ op'.kind = kind /\ op'.step = "mutating" /\ op'.ref = r
      /\ op'.epoch = filed[r] + 1 /\ op'.mark = evicted'
  BY DEF StartMutation, WithRetired, gateVars, callVars, lifeVars, Running
<1>2. /\ ContextTypes /\ PlacesFree /\ OperationInv /\ CallsInv /\ StoredInv
      /\ op.step = "none"
  BY <1>1 DEF Known, OwnInv, ContextInv, OperationInv, NoOp
<1>3. /\ context' = context /\ evicted' \in {evicted, evicted + 1} /\ evicted \in Nat
  BY <1>1, <1>2, RetireFacts DEF ContextTypes
<1>4. evicted' < MaxBatches /\ evicted' \in Batches
  BY <1>1, <1>3, BatchBound DEF Batches
<1>5. /\ filed \in [Refs -> Epochs] /\ settled \in [Refs -> Epochs] /\ MaxRetirements \in Nat
      /\ \A q \in Refs : settled[q] <= filed[q] /\ FiledInv(q)
  BY RetirementBound DEF Known, AccountInv, AccountTypeOK
<1>6. /\ filed[r] \in Nat /\ filed[r] + 1 \in Epochs
      /\ \A q \in Refs : filed'[q] = IF q = r THEN filed[r] + 1 ELSE filed[q]
      /\ runtime[r][filed[r] + 1] = "absent"
  BY <1>1, <1>5 DEF Epochs, FiledInv
<1>7. ASSUME NEW q \in Refs
      PROVE  RetirementInv(q)'
  BY <1>1, <1>2, <1>6 DEF Known, OwnInv, RetirementInv
<1>8. OperationInv'
  BY <1>1, <1>4, <1>6 DEF OperationInv, Mutations, NoOp
<1>9. ASSUME NEW e \in Endpoints, NEW n \in Batches
      PROVE  BoundInv(e, n)'
  <2>1. BoundInv(e, n) /\ OpenInv(e, n) /\ Pending(e, n) /\ retiredBy[e][n] \in Nat
    BY <1>2 DEF Known, OwnInv, ContextInv, PlacesInv, ContextTypes
  <2>2. \/ /\ IsCurrent(e, n) /\ evicted' = evicted + 1 /\ retiredBy'[e][n] = evicted + 1
        \/ retiredBy'[e][n] = retiredBy[e][n] /\ (menu[e] = r => ~IsCurrent(e, n))
    BY <1>1, <1>2, RetireFacts
  <2>3. retiredBy'[e][n] = 0 => retiredBy[e][n] = 0 /\ (context[e][n] # "absent" => menu[e] # r)
    BY <1>3, <2>1, <2>2 DEF IsCurrent
  <2>4. retiredBy'[e][n] <= evicted'
    BY <1>3, <2>1, <2>2 DEF Pending
  <2>5. context[e][n] # "absent" /\ retiredBy[e][n] = 0 => binding[e][n].ref = menu[e]
    BY <2>1 DEF OpenInv
  <2>6. context'[e][n] # "absent" /\ retiredBy'[e][n] = 0 =>
          binding[e][n].epoch = filed'[binding[e][n].ref]
    BY <1>3, <1>6, <2>1, <2>3, <2>5 DEF BoundInv
  <2> HIDE DEF K
  <2> QED
    BY <1>1, <1>3, <2>1, <2>4, <2>6 DEF BoundInv
<1>10. StageInv'
  BY <1>1, RetireStage
<1>11. PlacesFree'
  BY <1>1, <1>4, RetirePlaces
<1>12. CallsInv' /\ StoredInv'
  BY <1>1, <1>2, <1>3 DEF CallsInv, CallInv, StateOf, StoredInv
<1> QED
  BY <1>7, <1>8, <1>9, <1>10, <1>11, <1>12 DEF OwnInv

LEMMA ShutdownOwn ==
  ASSUME Known, Shutdown
  PROVE  OwnInv'
<1>1. /\ UNCHANGED <<filed, settled, failed, phase, runtime, revision, session, binding, at,
                     uses, op, exit>>
      /\ exit = "running" /\ stage = "serving" /\ stage' = "draining" /\ Retire(Endpoints)
  BY DEF Shutdown, accountVars, gateVars, callVars, Running, shuttingDown
<1>2. ContextTypes /\ PlacesFree /\ OperationInv /\ CallsInv /\ StoredInv
  BY DEF Known, OwnInv, ContextInv
<1>3. context' = context /\ evicted' \in {evicted, evicted + 1} /\ evicted \in Nat
  BY <1>1, <1>2, RetireFacts DEF ContextTypes
<1>4. evicted' \in Batches /\ evicted < MaxBatches
  BY <1>1, <1>2, <1>3, BatchBound DEF Batches, PlacesFree, shuttingDown
<1>5. PlacesFree'
  BY <1>1, <1>4, RetirePlaces DEF shuttingDown
<1>6. StageInv'
  BY <1>1, RetireStage
<1>7. ASSUME NEW e \in Endpoints, NEW n \in Batches
      PROVE  BoundInv(e, n)'
  <2>1. BoundInv(e, n) /\ OperationInv
    BY <1>2 DEF Known, OwnInv
  <2>2. \/ context[e][n] # "absent" /\ retiredBy[e][n] = 0 /\ retiredBy'[e][n] = evicted + 1
        \/ retiredBy'[e][n] = retiredBy[e][n]
    BY <1>1, <1>2, RetireFacts DEF IsCurrent
  <2> QED
    BY <1>1, <1>3, <2>1, <2>2 DEF BoundInv
<1>8. (\A q \in Refs : RetirementInv(q))' /\ OperationInv'
  BY <1>1, <1>2 DEF Known, OwnInv, RetirementInv, OperationInv
<1>9. CallsInv' /\ StoredInv'
  BY <1>1, <1>2, <1>3 DEF CallsInv, CallInv, StateOf, StoredInv
<1> QED
  BY <1>5, <1>6, <1>7, <1>8, <1>9 DEF OwnInv

(* The stages of the shutdown follow each other. *)
LEMMA StageStepOwn ==
  ASSUME Known, OperatorDrained \/ ContextsDrained \/ ReleaseLease \/ ForceExit
  PROVE  OwnInv'
<1>1. /\ UNCHANGED <<filed, settled, failed, phase, runtime, evicted, disposed, sweeping,
                     context, retiredBy, revision, binding, session, at, uses, op>>
  BY DEF OperatorDrained, ContextsDrained, ReleaseLease, ForceExit, accountVars, contextVars,
    gateVars, callVars
<1>2. /\ \A q \in Refs : RetirementInv(q)
      /\ OperationInv /\ PlacesFree /\ CallsInv /\ StageInv /\ StoredInv
      /\ \A e \in Endpoints, n \in Batches : BoundInv(e, n)
  BY DEF Known, OwnInv
<1>3. /\ \/ stage' = stage
         \/ stage' \in {"contexts", "accounts"} /\ op = NoOp /\ shuttingDown
      /\ stage = "accounts" => stage' = "accounts"
  <2>1. CASE OperatorDrained
    BY <1>2, <2>1 DEF OperatorDrained, OperationInv, shuttingDown
  <2>2. CASE ContextsDrained
    BY <1>2, <2>2 DEF ContextsDrained, OperationInv, shuttingDown
  <2>3. CASE ReleaseLease \/ ForceExit
    <3>1. stage' = stage
      BY <2>3 DEF ReleaseLease, ForceExit
    <3> QED
      BY <3>1
  <2> QED
    BY <2>1, <2>2, <2>3
<1>4. (\A q \in Refs : RetirementInv(q))' /\ OperationInv'
  BY <1>1, <1>2, <1>3 DEF RetirementInv, OperationInv
<1>5. (\A e \in Endpoints, n \in Batches : BoundInv(e, n))'
  BY <1>1, <1>2 DEF BoundInv
<1>6. PlacesFree' /\ CallsInv' /\ StoredInv'
  BY <1>1, <1>2, <1>3 DEF PlacesFree, CallsInv, CallInv, StateOf, StoredInv, shuttingDown
<1>7. (shuttingDown => \A e \in Endpoints, n \in Batches : ~IsCurrent(e, n))'
  BY <1>1, <1>2, <1>3 DEF StageInv, shuttingDown, IsCurrent
<1>8. (stage = "accounts" => \A e \in Endpoints, n \in Batches : context[e][n] = "absent")'
  <2>1. CASE ContextsDrained
    <3>1. disposed = evicted /\ stage = "contexts"
      BY <2>1 DEF ContextsDrained
    <3>2. ASSUME NEW e \in Endpoints, NEW n \in Batches
          PROVE  context[e][n] = "absent"
      <4>1. /\ Pending(e, n) /\ ~IsCurrent(e, n)
            /\ retiredBy[e][n] \in Nat /\ evicted \in Nat
        BY <1>2, <3>1
        DEF Known, ContextInv, ContextTypes, PlacesInv, StageInv, shuttingDown
      <4> QED
        BY <3>1, <4>1 DEF Pending, IsCurrent
    <3> QED
      BY <1>1, <3>2
  <2>2. CASE ~ContextsDrained
    <3>1. stage' = "accounts" => stage = "accounts"
      BY <2>2 DEF OperatorDrained, ReleaseLease, ForceExit
    <3> QED
      BY <1>1, <1>2, <3>1 DEF StageInv
  <2> QED
    BY <2>1, <2>2
<1>9. (exit = "clean" => stage = "accounts" /\ \A r \in Refs : ~Filed(r) /\ settled[r] = filed[r])'
  BY <1>1, <1>3
  DEF OperatorDrained, ContextsDrained, ReleaseLease, ForceExit, Filed, Running
<1> QED
  BY <1>4, <1>5, <1>6, <1>7, <1>8, <1>9 DEF OwnInv, StageInv

LEMMA ProgressOwn ==
  ASSUME Known, Progress
  PROVE  OwnInv'
<1>1. CASE \E e \in Endpoints, n \in Batches : FinishContext(e, n)
  BY <1>1, FinishContextOwn
<1>2. CASE \E c \in Calls : EndOperation(c)
  BY <1>2, CallStepOwn
<1>3. CASE \E r \in Refs, k \in Epochs :
             StartStack(r, k) \/ BuildStack(r, k) \/ BuildStackFails(r, k)
  BY <1>3, StartStackOwn, BuildStackOwn, BuildStackFailsOwn
<1>4. CASE StartContextSweep \/ FinishContextSweep
  BY <1>4, StartContextSweepOwn, FinishContextSweepOwn
<1>5. CASE CheckFails \/ Acknowledge \/ FinishSnapshot \/ FinishMutation
  BY <1>5, OperationStepsOwn
<1>6. CASE \E r \in Refs : RetireStack(r) \/ AwaitContextBarrier(r) \/ Mutate(r)
  BY <1>6, RetireStackOwn, AwaitContextBarrierOwn, MutateOwn
<1>7. CASE OperatorDrained \/ ContextsDrained \/ ReleaseLease
  BY <1>7, StageStepOwn
<1>8. CASE \E r \in Refs : RetireAll(r)
  BY <1>8, RetireAllOwn
<1> QED
  BY <1>1, <1>2, <1>3, <1>4, <1>5, <1>6, <1>7, <1>8 DEF Progress

LEMMA ChoiceOwn ==
  ASSUME Known, Choice
  PROVE  OwnInv'
<1>1. CASE \E c \in Calls, e \in Endpoints : Acquire(c, e)
  BY <1>1, AcquireOwn
<1>2. CASE \E c \in Calls : BeginOperation(c) \/ Answer(c)
  BY <1>2, CallStepOwn
<1>3. CASE StartAuthenticate \/ StartApplyPolicy
  BY <1>3, OperationStepsOwn
<1>4. CASE Authenticated \/ PolicySealed
  BY <1>4, AuthenticatedOwn, PolicySealedOwn
<1>5. CASE \E r \in Refs : StartSnapshot(r)
  BY <1>5, StartSnapshotOwn
<1>6. CASE \E kind \in Mutations, r \in Refs : StartMutation(kind, r)
  BY <1>6, StartMutationOwn
<1>7. CASE Shutdown \/ ForceExit
  BY <1>7, ShutdownOwn, StageStepOwn
<1> QED
  BY <1>1, <1>2, <1>3, <1>4, <1>5, <1>6, <1>7 DEF Choice

LEMMA OwnInvariant == DaemonSpec => []Known
<1>1. DaemonSpec => [](AccountInv /\ PolicyTyped /\ ContextInv)
  BY DaemonUsesAccounts, AccountInvariant, PolicyTypedInvariant, ContextInvariant, PTL
  DEF UsesAccountRuntimes
<1>2. Known /\ [DaemonNext]_vars => OwnInv'
  <2> SUFFICES ASSUME Known, [DaemonNext]_vars
               PROVE  OwnInv'
    OBVIOUS
  <2>1. CASE UNCHANGED vars
    <3>1. UNCHANGED <<filed, settled, failed, phase, runtime, evicted, retiredBy, context,
                      revision, session, binding, at, uses, op, stage, exit>>
      BY <2>1 DEF vars, accountVars, contextVars, daemonVars, gateVars, callVars, lifeVars
    <3>2. (\A q \in Refs : RetirementInv(q))' /\ OperationInv' /\ StoredInv'
      BY <3>1 DEF Known, OwnInv, RetirementInv, OperationInv, StoredInv
    <3>3. (\A e \in Endpoints, n \in Batches : BoundInv(e, n))'
      BY <3>1 DEF Known, OwnInv, BoundInv
    <3>4. CallsInv' /\ StageInv' /\ PlacesFree'
      BY <3>1 DEF Known, OwnInv, CallsInv, CallInv, StateOf, StageInv, PlacesFree,
        shuttingDown, IsCurrent, Filed
    <3> QED
      BY <3>2, <3>3, <3>4 DEF OwnInv
  <2> QED
    BY <2>1, ProgressOwn, ChoiceOwn DEF DaemonNext
<1>3. (AccountInv /\ PolicyTyped /\ ContextInv) /\ OwnInv <=> Known
  BY DEF Known
<1> QED
  BY <1>1, <1>2, <1>3, OwnInvInit, PTL DEF DaemonSpec

(* A Telegram connection is closed only when no open context is bound to   *)
(* it and no operator's snapshot uses it; an operation runs only on an     *)
(* open context.                                                           *)
THEOREM BindingsLive == DaemonSpec => []BindingsOwnLiveStacks
<1>1. Known => BindingsOwnLiveStacks
  <2> SUFFICES ASSUME Known
               PROVE  BindingsOwnLiveStacks
    OBVIOUS
  <2>1. ASSUME NEW p \in Places, StateOf(p) # "absent", BindingOf(p).cap # 0
        PROVE  runtime[BindingOf(p).ref][BindingOf(p).epoch] = "live"
    <3>1. PICK e \in Endpoints, n \in Batches : p = <<e, n>>
      BY DEF Places
    <3>2. context[e][n] # "absent" /\ BindingOf(p) = binding[e][n]
      BY <2>1, <3>1 DEF StateOf, BindingOf
    <3>3. BoundInv(e, n)
      BY DEF Known, OwnInv
    <3> QED
      BY <2>1, <3>2, <3>3 DEF BoundInv
  <2>2. op.step = "using" => runtime[op.ref][op.epoch] = "live"
    BY DEF Known, OwnInv, OperationInv
  <2>3. \A c \in Calls : at[c] = "operating" => StateOf(uses[c]) \in {"live", "closing"}
    BY DEF Known, OwnInv, CallsInv, CallInv
  <2> QED
    BY <2>1, <2>2, <2>3 DEF BindingsOwnLiveStacks
<1> QED
  BY <1>1, OwnInvariant, PTL

(* A session is removed only when no connection was made from it, and a    *)
(* connection is only made from a session that is stored.                  *)
THEOREM StacksStored == DaemonSpec => []StacksAreStored
<1>1. Known => StacksAreStored
  BY DEF Known, OwnInv, StoredInv, StacksAreStored
<1> QED
  BY <1>1, OwnInvariant, PTL

(* The process releases its lease only when every Telegram connection it   *)
(* ever made is closed, whatever calls, operators and the account chains   *)
(* were doing when the shutdown began.                                     *)
THEOREM LeaseOutlives == DaemonSpec => []LeaseOutlivesOwnership
<1>1. Known => LeaseOutlivesOwnership
  <2> SUFFICES ASSUME Known, exit = "clean"
               PROVE  /\ \A r \in Refs, k \in Epochs : runtime[r][k] = "absent"
                      /\ \A p \in Places : StateOf(p) = "absent"
                      /\ \A c \in Calls : at[c] # "operating"
    BY DEF LeaseOutlivesOwnership
  <2>1. /\ stage = "accounts"
        /\ \A r \in Refs : ~Filed(r) /\ settled[r] = filed[r]
        /\ \A e \in Endpoints, n \in Batches : context[e][n] = "absent"
    BY DEF Known, OwnInv, StageInv
  <2>2. ASSUME NEW r \in Refs, NEW k \in Epochs
        PROVE  runtime[r][k] = "absent"
    <3>1. /\ FiledInv(r) /\ filed[r] \in Nat /\ k \in Nat
          /\ runtime[r][filed[r]] = "absent" /\ settled[r] = filed[r]
      BY <2>1, RetirementBound DEF Known, AccountInv, AccountTypeOK, Epochs, Filed
    <3>2. k = filed[r] \/ k < settled[r] \/ k > filed[r]
      BY <3>1
    <3> QED
      BY <3>1, <3>2 DEF FiledInv
  <2>3. ASSUME NEW p \in Places
        PROVE  StateOf(p) = "absent"
    BY <2>1 DEF Places, StateOf
  <2>4. ASSUME NEW c \in Calls
        PROVE  at[c] # "operating"
    BY <2>3 DEF Known, OwnInv, CallsInv, CallInv
  <2> QED
    BY <2>2, <2>3, <2>4
<1> QED
  BY <1>1, OwnInvariant, PTL

-----------------------------------------------------------------------------
(* The type invariant.                                                     *)

Bounded == [rev : Revisions, cap : Revisions, ref : Refs \cup {NoRef}, epoch : Epochs]

OpTyped ==
  op \in [kind : OpKinds, step : OpSteps, ref : Refs \cup {NoRef},
          epoch : Epochs, mark : Batches]

(* What Known does not say of the types. *)
TypeInv ==
  /\ revision \in Revisions
  /\ sweeping \in BOOLEAN
  /\ binding \in [Endpoints -> [Batches -> Bounded]]
  /\ OpTyped
  /\ stage \in {"serving", "draining", "contexts", "accounts"}
  /\ exit \in {"running", "clean", "failed"}

LEMMA TypeInvInit == DaemonInit => TypeInv
<1> SUFFICES ASSUME DaemonInit
             PROVE  TypeInv
  OBVIOUS
<1>1. /\ 0 \in Revisions /\ 1 \in Revisions /\ 0 \in Epochs /\ 0 \in Batches
      /\ revision \in {0, 1} /\ sweeping = FALSE /\ stage = "serving" /\ exit = "running"
      /\ op = NoOp
      /\ binding = [e \in Endpoints |-> [n \in Batches |-> NoBinding]]
  BY PolicyAssumption, RetirementBound, BatchBound
  DEF DaemonInit, ContextInit, Revisions, Epochs, Batches
<1>2. NoBinding \in Bounded
  BY <1>1 DEF NoBinding, Bounded
<1>3. binding \in [Endpoints -> [Batches -> Bounded]]
  <2> HIDE DEF NoBinding, Bounded
  <2> QED
    BY <1>1, <1>2
<1>4. OpTyped
  BY <1>1 DEF OpTyped, NoOp, OpKinds, OpSteps
<1> QED
  BY <1>1, <1>3, <1>4 DEF TypeInv

LEMMA BindingTyped ==
  ASSUME TypeInv, Known, DaemonNext
  PROVE  binding' \in [Endpoints -> [Batches -> Bounded]]
<1>1. /\ NoBinding \in Bounded /\ revision \in Revisions
      /\ binding \in [Endpoints -> [Batches -> Bounded]]
  BY PolicyAssumption, RetirementBound
  DEF TypeInv, NoBinding, Bounded, Revisions, Epochs
<1>2. CASE UNCHANGED binding
  BY <1>1, <1>2
<1>3. ASSUME NEW B, Unbind(B)
      PROVE  binding' \in [Endpoints -> [Batches -> Bounded]]
  <2> HIDE DEF NoBinding, Bounded
  <2> QED
    BY <1>1, <1>3 DEF Unbind
<1>4. ASSUME NEW e \in Endpoints, BindContext(e), menu[e] \in Refs
      PROVE  binding' \in [Endpoints -> [Batches -> Bounded]]
  <2> DEFINE b == [rev |-> revision, ref |-> menu[e], epoch |-> filed[menu[e]],
                   cap |-> IF runtime[menu[e]][filed[menu[e]]] = "live"
                             THEN revision ELSE 0]
  <2>1. 0 \in Revisions /\ filed[menu[e]] \in Epochs
    BY <1>4, PolicyAssumption DEF Revisions, Known, AccountInv, AccountTypeOK
  <2>2. b \in Bounded
    BY <1>1, <1>4, <2>1 DEF Bounded
  <2>3. binding' = [binding EXCEPT ![e][evicted] = b]
    BY <1>4 DEF BindContext
  <2> HIDE DEF b, Bounded
  <2> QED
    BY <1>1, <2>2, <2>3
<1>5. ASSUME NEW r \in Refs, NEW k \in Epochs, BuildStack(r, k)
      PROVE  binding' \in [Endpoints -> [Batches -> Bounded]]
  <2>1. \A e \in Endpoints, n \in Batches :
          [rev |-> binding[e][n].rev, cap |-> revision, ref |-> r, epoch |-> k] \in Bounded
    BY <1>1 DEF Bounded
  <2> HIDE DEF Bounded
  <2> QED
    BY <1>1, <1>5, <2>1 DEF BuildStack
<1>6. CASE Progress
  <2>1. \/ UNCHANGED binding
        \/ \E B : Unbind(B)
        \/ \E r \in Refs, k \in Epochs : BuildStack(r, k)
    <3>1. CASE \E e \in Endpoints, n \in Batches : FinishContext(e, n)
      BY <3>1 DEF FinishContext
    <3>2. CASE \E r \in Refs, k \in Epochs :
                 StartStack(r, k) \/ BuildStack(r, k) \/ BuildStackFails(r, k)
      BY <3>2 DEF StartStack, BuildStackFails, daemonVars
    <3>3. CASE StartContextSweep \/ FinishContextSweep
      BY <3>3 DEF StartContextSweep, FinishContextSweep, daemonVars
    <3>4. CASE \/ CheckFails \/ Acknowledge \/ FinishSnapshot \/ FinishMutation
               \/ OperatorDrained \/ ContextsDrained \/ ReleaseLease
               \/ \E c \in Calls : EndOperation(c)
      BY <3>4 DEF CheckFails, Acknowledge, FinishSnapshot, FinishMutation, OperatorDrained,
        ContextsDrained, ReleaseLease, EndOperation
    <3>5. CASE \E r \in Refs :
                 RetireStack(r) \/ AwaitContextBarrier(r) \/ Mutate(r) \/ RetireAll(r)
      BY <3>5 DEF RetireStack, AwaitContextBarrier, Mutate, RetireAll, daemonVars
    <3> QED
      BY <1>6, <3>1, <3>2, <3>3, <3>4, <3>5 DEF Progress
  <2> QED
    BY <1>2, <1>3, <1>5, <2>1
<1>7. CASE Choice
  <2>1. \/ UNCHANGED binding
        \/ \E e \in Endpoints : BindContext(e) /\ menu[e] # NoRef
    BY <1>7
    DEF Choice, Acquire, BeginOperation, Answer, StartAuthenticate, StartApplyPolicy,
      Authenticated, PolicySealed, Publish, StartSnapshot, StartMutation, Shutdown, ForceExit
  <2> QED
    BY <1>2, <1>4, <2>1, ServedEndpoint DEF Known
<1> QED
  BY <1>6, <1>7 DEF DaemonNext

LEMMA OpTypedStep ==
  ASSUME TypeInv, Known, Known', DaemonNext
  PROVE  OpTyped'
<1>1. /\ 0 \in Epochs /\ 0 \in Batches /\ evicted' \in Batches
      /\ OpTyped
  BY RetirementBound, BatchBound DEF TypeInv, Known, OwnInv, PlacesFree, Epochs, Batches
<1>2. ASSUME UNCHANGED op
      PROVE  OpTyped'
  BY <1>1, <1>2 DEF OpTyped
<1>3. ASSUME op' = NoOp
      PROVE  OpTyped'
  BY <1>1, <1>3 DEF OpTyped, NoOp, OpKinds, OpSteps
<1>4. ASSUME NEW kind \in OpKinds, NEW step \in {"checking", "barrier"},
             NEW mark \in Batches, op' = Publication(kind, step, mark)
      PROVE  OpTyped'
  BY <1>1, <1>4 DEF OpTyped, Publication, OpSteps
<1>5. ASSUME NEW step \in {"stack", "using"}, NEW r \in Refs, NEW k \in Epochs,
             op' = Snapshot(step, r, k)
      PROVE  OpTyped'
  BY <1>1, <1>5 DEF OpTyped, Snapshot, OpKinds, OpSteps
<1>6. CASE Progress
  <2>1. \/ UNCHANGED op
        \/ op' = NoOp
        \/ \E r \in Refs, k \in Epochs : op' = Snapshot("using", r, k)
    <3>1. CASE \E e \in Endpoints, n \in Batches : FinishContext(e, n)
      BY <3>1 DEF FinishContext
    <3>2. CASE \E r \in Refs, k \in Epochs :
                 StartStack(r, k) \/ BuildStack(r, k) \/ BuildStackFails(r, k)
      BY <3>2 DEF StartStack, BuildStack, BuildStackFails, daemonVars
    <3>3. CASE StartContextSweep \/ FinishContextSweep
      BY <3>3 DEF StartContextSweep, FinishContextSweep, daemonVars
    <3>4. CASE \/ CheckFails \/ Acknowledge \/ FinishSnapshot \/ FinishMutation
               \/ OperatorDrained \/ ContextsDrained \/ ReleaseLease
               \/ \E c \in Calls : EndOperation(c)
      BY <3>4 DEF CheckFails, Acknowledge, FinishSnapshot, FinishMutation, OperatorDrained,
        ContextsDrained, ReleaseLease, EndOperation
    <3>5. CASE \E r \in Refs :
                 RetireStack(r) \/ AwaitContextBarrier(r) \/ Mutate(r) \/ RetireAll(r)
      BY <3>5 DEF RetireStack, AwaitContextBarrier, Mutate, RetireAll, daemonVars
    <3> QED
      BY <1>6, <3>1, <3>2, <3>3, <3>4, <3>5 DEF Progress
  <2> QED
    BY <1>2, <1>3, <1>5, <2>1
<1>7. CASE StartAuthenticate \/ StartApplyPolicy \/ Authenticated \/ PolicySealed
  <2>1. op.kind \in OpKinds
    BY <1>1 DEF OpTyped
  <2>2. \E kind \in OpKinds, step \in {"checking", "barrier"}, mark \in Batches :
          op' = Publication(kind, step, mark)
    BY <1>1, <1>7, <2>1
    DEF StartAuthenticate, StartApplyPolicy, Authenticated, PolicySealed, AwaitBarrier, OpKinds
  <2> QED
    BY <1>4, <2>2
<1>8. CASE \E r \in Refs : StartSnapshot(r)
  <2>1. PICK r \in Refs : StartSnapshot(r)
    BY <1>8
  <2>2. filed[r] \in Epochs
    BY DEF Known, AccountInv, AccountTypeOK
  <2> QED
    BY <1>5, <2>1, <2>2 DEF StartSnapshot
<1>9. CASE \E kind \in Mutations, r \in Refs : StartMutation(kind, r)
  <2>1. PICK kind \in Mutations, r \in Refs : StartMutation(kind, r)
    BY <1>9
  <2>2. filed[r] + 1 \in Epochs
    BY <2>1, RetirementBound DEF StartMutation, Known, AccountInv, AccountTypeOK, Epochs
  <2>3. op' = [kind |-> kind, step |-> "mutating", ref |-> r,
               epoch |-> filed[r] + 1, mark |-> evicted']
    BY <2>1 DEF StartMutation
  <2> QED
    BY <1>1, <2>2, <2>3 DEF OpTyped, OpKinds, OpSteps
<1>10. CASE \/ \E c \in Calls, e \in Endpoints : Acquire(c, e)
            \/ \E c \in Calls : BeginOperation(c) \/ Answer(c)
            \/ Shutdown \/ ForceExit
  BY <1>2, <1>10 DEF Acquire, BeginOperation, Answer, Shutdown, ForceExit
<1> QED
  BY <1>6, <1>7, <1>8, <1>9, <1>10 DEF DaemonNext, Choice

LEMMA TypeInvStep ==
  ASSUME TypeInv, Known, Known', [DaemonNext]_vars
  PROVE  TypeInv'
<1>1. CASE UNCHANGED vars
  BY <1>1 DEF TypeInv, OpTyped, vars, contextVars, daemonVars, gateVars, lifeVars
<1>2. CASE DaemonNext
  <2>1. binding' \in [Endpoints -> [Batches -> Bounded]] /\ OpTyped'
    BY <1>2, BindingTyped, OpTypedStep
  <2>2. revision' \in Revisions
    <3>1. UNCHANGED revision \/ (revision < MaxRevisions /\ revision' = revision + 1)
      BY <1>2
      DEF DaemonNext, Progress, Choice, FinishContext, EndOperation, StartStack, BuildStack,
        BuildStackFails, StartContextSweep, FinishContextSweep, CheckFails, Acknowledge,
        FinishSnapshot, FinishMutation, RetireStack, AwaitContextBarrier, Mutate,
        OperatorDrained, ContextsDrained, RetireAll, ReleaseLease, Acquire, BeginOperation,
        Answer, StartAuthenticate, StartApplyPolicy, Authenticated, PolicySealed, Publish,
        StartSnapshot, StartMutation, Shutdown, ForceExit, gateVars, daemonVars
    <3> QED
      BY <3>1, PolicyAssumption DEF TypeInv, Revisions
  <2>3. sweeping' \in BOOLEAN
    <3>1. UNCHANGED sweeping \/ sweeping' = TRUE \/ sweeping' = FALSE
      BY <1>2
      DEF DaemonNext, Progress, Choice, FinishContext, EndOperation, StartStack, BuildStack,
        BuildStackFails, StartContextSweep, FinishContextSweep, CheckFails, Acknowledge,
        FinishSnapshot, FinishMutation, RetireStack, AwaitContextBarrier, Mutate,
        OperatorDrained, ContextsDrained, RetireAll, ReleaseLease, Acquire, BeginOperation,
        Answer, StartAuthenticate, StartApplyPolicy, Authenticated, PolicySealed, Publish,
        StartSnapshot, StartMutation, Shutdown, ForceExit, contextVars, StartSweep,
        FinishSweep, SettleContexts, Retire, BindContext, FileContext
    <3> QED
      BY <3>1 DEF TypeInv
  <2>4. /\ stage' \in {"serving", "draining", "contexts", "accounts"}
        /\ exit' \in {"running", "clean", "failed"}
    BY <1>2
    DEF TypeInv, DaemonNext, Progress, Choice, FinishContext, EndOperation, StartStack,
      BuildStack, BuildStackFails, StartContextSweep, FinishContextSweep, CheckFails,
      Acknowledge, FinishSnapshot, FinishMutation, RetireStack, AwaitContextBarrier, Mutate,
      OperatorDrained, ContextsDrained, RetireAll, ReleaseLease, Acquire, BeginOperation,
      Answer, StartAuthenticate, StartApplyPolicy, Authenticated, PolicySealed, Publish,
      StartSnapshot, StartMutation, Shutdown, ForceExit, lifeVars, daemonVars
  <2> QED
    BY <2>1, <2>2, <2>3, <2>4 DEF TypeInv
<1> QED
  BY <1>1, <1>2

(* Every variable of the daemon keeps its type, its bounds included: the   *)
(* counters of publications, retirements and batches stay within theirs.   *)
THEOREM DaemonTyped == DaemonSpec => []DaemonTypeOK
<1>1. DaemonSpec => []TypeInv
  BY OwnInvariant, TypeInvInit, TypeInvStep, PTL DEF DaemonSpec
<1>2. Known /\ TypeInv => DaemonTypeOK
  <2> SUFFICES ASSUME Known, TypeInv
               PROVE  DaemonTypeOK
    OBVIOUS
  <2>1. AccountTypeOK /\ menu \in Policies
    BY DEF Known, AccountInv, PolicyTyped
  <2>2. ContextTypeOK
    <3>1. /\ ContextTypes /\ evicted \in Batches /\ disposed \in Nat /\ disposed <= evicted
      BY DEF Known, ContextInv, ContextTypes, OwnInv, PlacesFree
    <3>2. disposed \in Batches /\ sweeping \in BOOLEAN
      BY <3>1, BatchBound DEF Batches, TypeInv
    <3>3. ASSUME NEW e \in Endpoints, NEW n \in Batches
          PROVE  retiredBy[e][n] \in Batches
      <4>1. Pending(e, n) /\ retiredBy[e][n] \in Nat
        BY <3>1 DEF Known, ContextInv, PlacesInv, ContextTypes
      <4> QED
        BY <3>1, <4>1, BatchBound DEF Pending, Batches
    <3>4. retiredBy \in [Endpoints -> [Batches -> Batches]]
      BY <3>1, <3>3 DEF ContextTypes
    <3> QED
      BY <3>1, <3>2, <3>4 DEF ContextTypeOK, ContextTypes
  <2>3. acked \in Revisions
    BY PolicyAssumption DEF Known, ContextInv, ContextTypes, TypeInv, Revisions
  <2> QED
    BY <2>1, <2>2, <2>3
    DEF DaemonTypeOK, TypeInv, OpTyped, Bounded, Known, OwnInv, CallsInv, StoredInv
<1> QED
  BY <1>1, <1>2, OwnInvariant, PTL
=============================================================================
