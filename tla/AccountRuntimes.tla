--------------------------- MODULE AccountRuntimes ---------------------------
(***************************************************************************)
(* AccountRuntimes (src/presentation/mcp/account-runtimes.ts): one runtime *)
(* promise per session reference, and a chain of retirements per reference *)
(* that every new build waits behind.                                      *)
(*                                                                         *)
(* Promise identities are replaced by counting.  The withRetired calls of  *)
(* a reference are numbered 1, 2, ... as they are made; their `prior.then` *)
(* chain settles them in that order.  A get() made after n of them files   *)
(* its build under n, its barrier is retirement n, and retirement n + 1 is *)
(* the one that takes it out of `current`.  A failed build leaves its      *)
(* place empty, which is what the eviction in get() does, so at most one   *)
(* build or runtime is ever filed under a number.                          *)
(***************************************************************************)
EXTENDS Naturals

CONSTANTS
  Refs,           \* session references
  MaxRetirements  \* bound: withRetired calls per reference

ASSUME RetirementBound == MaxRetirements \in Nat

VARIABLES
  filed,    \* filed[r]: withRetired calls made so far
  settled,  \* settled[r]: how many of them have completed
  failed,   \* failed[r]: one rejected; its barrier stays in `retired`
  phase,    \* phase[r]: progress of the oldest retirement not yet complete
  runtime   \* runtime[r][n]: the build or runtime filed under n

accountVars == <<filed, settled, failed, phase, runtime>>

Epochs == 0..MaxRetirements

RuntimeStates == {"absent", "waiting", "building", "live", "disposing", "uncertain"}

(* The states in which a runtime may hold the Telegram key of its reference. *)
Owning == {"building", "live", "disposing", "uncertain"}

Phases == {"idle", "before", "await", "disposing", "work"}

(* Numbers are typed, and no retirement completes before it was requested. *)
AccountTypeOK ==
  /\ filed   \in [Refs -> Epochs]
  /\ settled \in [Refs -> Epochs]
  /\ failed  \in [Refs -> BOOLEAN]
  /\ phase   \in [Refs -> Phases]
  /\ runtime \in [Refs -> [Epochs -> RuntimeStates]]
  /\ \A r \in Refs : settled[r] <= filed[r]

AccountInit ==
  /\ filed   = [r \in Refs |-> 0]
  /\ settled = [r \in Refs |-> 0]
  /\ failed  = [r \in Refs |-> FALSE]
  /\ phase   = [r \in Refs |-> "idle"]
  /\ runtime = [r \in Refs |-> [n \in Epochs |-> "absent"]]

-----------------------------------------------------------------------------
(* Looking a runtime up, and building it. *)

SetRuntime(r, n, s) == runtime' = [runtime EXCEPT ![r][n] = s]

(* `current` holds a promise for r. *)
Filed(r) == runtime[r][filed[r]] # "absent"

(* get(): an existing promise is shared, else a build is filed. *)
Get(r) ==
  /\ IF Filed(r) THEN UNCHANGED runtime ELSE SetRuntime(r, filed[r], "waiting")
  /\ UNCHANGED <<filed, settled, failed, phase>>

StartBuildWithoutBarrier(r, n) ==
  /\ runtime[r][n] = "waiting"
  /\ SetRuntime(r, n, "building")
  /\ UNCHANGED <<filed, settled, failed, phase>>

(* `await barrier` resolved: every retirement the build waits for is done. *)
StartBuild(r, n) ==
  /\ runtime[r][n] = "waiting"
  /\ settled[r] >= n
  /\ SetRuntime(r, n, "building")
  /\ UNCHANGED <<filed, settled, failed, phase>>

(* `await barrier` rejected: the build fails without having started. *)
RefuseBuild(r, n) ==
  /\ runtime[r][n] = "waiting"
  /\ settled[r] < n
  /\ failed[r]
  /\ SetRuntime(r, n, "absent")
  /\ UNCHANGED <<filed, settled, failed, phase>>

(* build() resolves, or rejects and the promise is evicted. *)
FinishBuild(r, n) ==
  /\ runtime[r][n] = "building"
  /\ \E s \in {"live", "absent"} : SetRuntime(r, n, s)
  /\ UNCHANGED <<filed, settled, failed, phase>>

-----------------------------------------------------------------------------
(* Retiring a runtime around an account mutation. *)

(* withRetired(): takes the runtime out of `current` and joins the chain. *)
WithRetired(r) ==
  /\ filed[r] < MaxRetirements
  /\ filed' = [filed EXCEPT ![r] = @ + 1]
  /\ UNCHANGED <<settled, failed, phase, runtime>>

SetPhase(r, p) == phase' = [phase EXCEPT ![r] = p]

(* prior resolved: the oldest retirement runs, first awaiting beforeDispose. *)
StartRetirement(r) ==
  /\ phase[r] = "idle"
  /\ settled[r] < filed[r]
  /\ ~failed[r]
  /\ SetPhase(r, "before")
  /\ UNCHANGED <<filed, settled, failed, runtime>>

BeforeDisposeDone(r) ==
  /\ phase[r] = "before"
  /\ SetPhase(r, "await")
  /\ UNCHANGED <<filed, settled, failed, runtime>>

AwaitOnlyLiveRuntime(r) ==
  /\ phase[r] = "await"
  /\ runtime[r][settled[r]] = "live"
  /\ SetPhase(r, "disposing")
  /\ SetRuntime(r, settled[r], "disposing")
  /\ UNCHANGED <<filed, settled, failed>>

(* The retired promise settled: dispose what it built, if anything. *)
RetiredRuntimeSettled(r) ==
  /\ phase[r] = "await"
  /\ \/ /\ runtime[r][settled[r]] = "live"
        /\ SetPhase(r, "disposing")
        /\ SetRuntime(r, settled[r], "disposing")
     \/ /\ runtime[r][settled[r]] = "absent"
        /\ SetPhase(r, "work")
        /\ UNCHANGED runtime
  /\ UNCHANGED <<filed, settled, failed>>

DisposeDone(r) ==
  /\ phase[r] = "disposing"
  /\ SetRuntime(r, settled[r], "absent")
  /\ SetPhase(r, "work")
  /\ UNCHANGED <<filed, settled, failed>>

CompleteAll(r) ==
  /\ phase[r] = "work"
  /\ settled' = [settled EXCEPT ![r] = filed[r] + 1]
  /\ SetPhase(r, "idle")
  /\ UNCHANGED <<filed, failed, runtime>>

(* The work resolved, and with it the barrier of this retirement. *)
WorkDone(r) ==
  /\ phase[r] = "work"
  /\ settled' = [settled EXCEPT ![r] = @ + 1]
  /\ SetPhase(r, "idle")
  /\ UNCHANGED <<filed, failed, runtime>>

SwallowRejection(r) ==
  /\ phase[r] = "disposing"
  /\ SetRuntime(r, settled[r], "uncertain")
  /\ settled' = [settled EXCEPT ![r] = @ + 1]
  /\ SetPhase(r, "idle")
  /\ UNCHANGED <<filed, failed>>

(* beforeDispose, dispose or the work rejected.  The barrier rejects, so do *)
(* the retirements chained behind it, and none of them leaves `retired`.    *)
RetirementRejects(r) ==
  /\ phase[r] \in {"before", "disposing", "work"}
  /\ IF phase[r] = "disposing"
       THEN SetRuntime(r, settled[r], "uncertain")
       ELSE UNCHANGED runtime
  /\ failed' = [failed EXCEPT ![r] = TRUE]
  /\ SetPhase(r, "idle")
  /\ UNCHANGED <<filed, settled>>

RetirementStep(r) ==
  \/ StartRetirement(r)
  \/ BeforeDisposeDone(r)
  \/ RetiredRuntimeSettled(r)
  \/ DisposeDone(r)
  \/ WorkDone(r)
  \/ RetirementRejects(r)

BuildStep(r, n) ==
  StartBuild(r, n) \/ RefuseBuild(r, n) \/ FinishBuild(r, n)

AccountNext ==
  \E r \in Refs :
    \/ Get(r)
    \/ WithRetired(r)
    \/ RetirementStep(r)
    \/ \E n \in Epochs : BuildStep(r, n)

AccountSpec == AccountInit /\ [][AccountNext]_accountVars

(* Continuations of settled promises run, and a build, a disposal and a    *)
(* mutation settle in the end: each Telegram and file operation they await *)
(* is bounded by a timeout or answered by the kernel.                      *)
AccountFairness ==
  \A r \in Refs :
    /\ WF_accountVars(RetirementStep(r))
    /\ \A n \in Epochs : WF_accountVars(BuildStep(r, n))

AccountFairSpec == AccountSpec /\ AccountFairness

-----------------------------------------------------------------------------
(* Properties. *)

(* Never two owners of one Telegram key, and none at all while an account  *)
(* mutation is writing or removing the key (the comment over withRetired:  *)
(* new builds wait for old ownership disposal and the complete mutation).  *)
ExclusiveOwnership ==
  \A r \in Refs :
    /\ \A m, n \in Epochs :
         runtime[r][m] \in Owning /\ runtime[r][n] \in Owning => m = n
    /\ phase[r] = "work" => \A n \in Epochs : runtime[r][n] \notin Owning

(* Runtimes and mutations as the parties of OneOwner. *)
Mutation == MaxRetirements + 1

Holders(r) ==
  {n \in Epochs : runtime[r][n] \in Owning}
    \cup (IF phase[r] = "work" THEN {Mutation} ELSE {})

Owner == INSTANCE OneOwner WITH
  Parties <- Epochs \cup {Mutation},
  holders <- [r \in Refs |-> Holders(r)],
  stuck   <- [r \in Refs |-> \E n \in Epochs : runtime[r][n] = "uncertain"]

(* The counters and chains implement the one-owner promise, including that *)
(* a runtime whose disposal rejected is never succeeded.                   *)
ImplementsOneOwner == Owner!Spec

(* Every promise handed out settles: a build ends live or failed, and a    *)
(* retirement completes or its reference is closed.  It would not if a     *)
(* retirement waited for a build that waits for the same retirement.       *)
EveryPromiseSettles ==
  \A r \in Refs, n \in Epochs :
    /\ runtime[r][n] \in {"waiting", "building"}
         ~> runtime[r][n] \notin {"waiting", "building"}
    /\ filed[r] > n ~> settled[r] > n \/ failed[r]
=============================================================================
