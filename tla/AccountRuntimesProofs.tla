------------------------ MODULE AccountRuntimesProofs ------------------------
(***************************************************************************)
(* Proofs about AccountRuntimes, for every set of references and every     *)
(* number of retirements.                                                  *)
(***************************************************************************)
EXTENDS AccountRuntimes, TLAPS

(* One retirement at a time is in progress, and it is ahead of `settled`.  *)
ChainInv(r) == phase[r] # "idle" => settled[r] < filed[r]

(* Nothing is filed ahead of the last retirement, and nothing is left      *)
(* behind one that completed.                                              *)
FiledInv(r) ==
  \A n \in Epochs : n > filed[r] \/ n < settled[r] => runtime[r][n] = "absent"

(* Only the runtime the next retirement will take can own the key, and it  *)
(* is gone or on its way out while that retirement is past awaiting it.    *)
OwningInv(r) ==
  /\ \A n \in Epochs : runtime[r][n] \in Owning => n = settled[r]
  /\ phase[r] = "work" => runtime[r][settled[r]] = "absent"
  /\ phase[r] = "disposing" => runtime[r][settled[r]] = "disposing"

AccountInv ==
  AccountTypeOK /\ \A r \in Refs : ChainInv(r) /\ FiledInv(r) /\ OwningInv(r)

LEMMA AccountInvInit == AccountInit => AccountInv
  BY RetirementBound
  DEF AccountInit, AccountInv, AccountTypeOK, ChainInv, FiledInv, OwningInv,
      Epochs, RuntimeStates, Phases, Owning

(* Writing one place of `runtime` keeps its type and every other place.    *)
LEMMA SetRuntimeAt ==
  ASSUME runtime \in [Refs -> [Epochs -> RuntimeStates]],
         NEW r \in Refs, NEW n \in Epochs, NEW s \in RuntimeStates,
         SetRuntime(r, n, s)
  PROVE  /\ runtime' \in [Refs -> [Epochs -> RuntimeStates]]
         /\ \A q \in Refs, m \in Epochs :
              runtime'[q][m] = IF q = r /\ m = n THEN s ELSE runtime[q][m]
  BY DEF SetRuntime

(* Each step keeps the inductive invariant: looking up and building.       *)
LEMMA BuildStepInv ==
  ASSUME AccountInv, NEW r \in Refs, NEW n \in Epochs,
         Get(r) \/ BuildStep(r, n)
  PROVE  AccountInv'
<1> USE RetirementBound DEF AccountInv, AccountTypeOK, Epochs, RuntimeStates,
      Phases, Owning, ChainInv, FiledInv, OwningInv, SetRuntime
<1>1. CASE Get(r)
  <2>1. CASE Filed(r)
    BY <1>1, <2>1 DEF Get
  <2>2. CASE ~Filed(r)
    <3>1. SetRuntime(r, filed[r], "waiting") /\ UNCHANGED <<filed, settled, failed, phase>>
      BY <1>1, <2>2 DEF Get
    <3> QED
      BY <2>2, <3>1, SetRuntimeAt DEF Filed
  <2> QED
    BY <2>1, <2>2
<1>2. CASE StartBuild(r, n)
  BY <1>2 DEF StartBuild
<1>3. CASE RefuseBuild(r, n)
  BY <1>3 DEF RefuseBuild
<1>4. CASE FinishBuild(r, n)
  BY <1>4 DEF FinishBuild
<1> QED
  BY <1>1, <1>2, <1>3, <1>4 DEF BuildStep

(* ... and retiring.                                                       *)
LEMMA RetirementStepInv ==
  ASSUME AccountInv, NEW r \in Refs, WithRetired(r) \/ RetirementStep(r)
  PROVE  AccountInv'
<1> USE RetirementBound DEF AccountInv, AccountTypeOK, Epochs, RuntimeStates,
      Phases, Owning, ChainInv, FiledInv, OwningInv, SetRuntime, SetPhase
<1>1. CASE WithRetired(r)
  BY <1>1 DEF WithRetired
<1>2. CASE StartRetirement(r)
  BY <1>2 DEF StartRetirement
<1>3. CASE BeforeDisposeDone(r)
  BY <1>3 DEF BeforeDisposeDone
<1>4. CASE RetiredRuntimeSettled(r)
  <2>1. CASE runtime[r][settled[r]] = "live"
    <3>1. /\ SetRuntime(r, settled[r], "disposing")
          /\ SetPhase(r, "disposing")
          /\ phase[r] = "await"
          /\ UNCHANGED <<filed, settled, failed>>
      BY <1>4, <2>1 DEF RetiredRuntimeSettled
    <3> QED
      BY <2>1, <3>1, SetRuntimeAt
  <2>2. CASE runtime[r][settled[r]] = "absent"
    BY <1>4, <2>2 DEF RetiredRuntimeSettled
  <2> QED
    BY <1>4, <2>1, <2>2 DEF RetiredRuntimeSettled
<1>5. CASE DisposeDone(r)
  BY <1>5 DEF DisposeDone
<1>6. CASE WorkDone(r)
  <2>1. AccountTypeOK'
    BY <1>6 DEF WorkDone
  <2>2. ASSUME NEW q \in Refs
        PROVE  (ChainInv(q) /\ FiledInv(q) /\ OwningInv(q))'
    BY <1>6, <2>2 DEF WorkDone
  <2> QED
    BY <2>1, <2>2
<1>7. CASE RetirementRejects(r)
  <2>1. CASE phase[r] = "disposing"
    <3>1. /\ SetRuntime(r, settled[r], "uncertain")
          /\ SetPhase(r, "idle")
          /\ failed' = [failed EXCEPT ![r] = TRUE]
          /\ UNCHANGED <<filed, settled>>
      BY <1>7, <2>1 DEF RetirementRejects
    <3> QED
      BY <2>1, <3>1, SetRuntimeAt
  <2>2. CASE phase[r] # "disposing"
    BY <1>7, <2>2 DEF RetirementRejects
  <2> QED
    BY <2>1, <2>2
<1> QED
  BY <1>1, <1>2, <1>3, <1>4, <1>5, <1>6, <1>7 DEF RetirementStep

(* The inductive invariant holds in every reachable state.                 *)
THEOREM AccountInvariant == AccountSpec => []AccountInv
<1>1. AccountInv /\ [AccountNext]_accountVars => AccountInv'
  <2> SUFFICES ASSUME AccountInv, [AccountNext]_accountVars
               PROVE  AccountInv'
    OBVIOUS
  <2>1. CASE AccountNext
    BY <2>1, BuildStepInv, RetirementStepInv, RetirementBound
    DEF AccountNext, Epochs
  <2>2. CASE UNCHANGED accountVars
    BY <2>2 DEF accountVars, AccountInv, AccountTypeOK, ChainInv, FiledInv,
                OwningInv
  <2> QED
    BY <2>1, <2>2
<1> QED
  BY AccountInvInit, <1>1, PTL DEF AccountSpec

(* No two runtimes own a key at once, and none does while an account       *)
(* mutation runs: the comment over withRetired in account-runtimes.ts.     *)
THEOREM AccountsExclusive == AccountSpec => []ExclusiveOwnership
<1>1. AccountInv => ExclusiveOwnership
  BY DEF AccountInv, AccountTypeOK, OwningInv, ExclusiveOwnership, Owning
<1> QED
  BY AccountInvariant, <1>1, PTL

(* Every value keeps its type and no retirement completes before it is     *)
(* requested.                                                              *)
THEOREM AccountsTyped == AccountSpec => []AccountTypeOK
<1>1. AccountInv => AccountTypeOK
  BY DEF AccountInv
<1> QED
  BY AccountInvariant, <1>1, PTL

-----------------------------------------------------------------------------
(* AccountRuntimes implements OneOwner. *)

(* Who owns the key of r, and whether its disposal failed, read off the    *)
(* place the next retirement will take.                                    *)
Nobody == MaxRetirements + 2

HolderNow(r) ==
  IF phase[r] = "work" THEN Mutation
  ELSE IF runtime[r][settled[r]] \in Owning THEN settled[r] ELSE Nobody

StuckNow(r) == runtime[r][settled[r]] = "uncertain"

AsSet(h) == IF h = Nobody THEN {} ELSE {h}

LEMMA HoldersAre ==
  ASSUME AccountInv, NEW r \in Refs
  PROVE  /\ HolderNow(r) \in Epochs \cup {Mutation, Nobody}
         /\ Holders(r) = AsSet(HolderNow(r))
         /\ (\E n \in Epochs : runtime[r][n] = "uncertain") <=> StuckNow(r)
<1>1. settled[r] \in Epochs /\ settled[r] # Nobody /\ Mutation # Nobody
  BY RetirementBound
  DEF AccountInv, AccountTypeOK, Owning, Epochs, Mutation, Nobody
<1>2. "uncertain" \in Owning /\ "absent" \notin Owning
  BY DEF Owning
<1>3. OwningInv(r)
  BY DEF AccountInv
<1>4. CASE phase[r] = "work"
  BY <1>1, <1>2, <1>3, <1>4 DEF OwningInv, Holders, HolderNow, AsSet, StuckNow
<1>5. CASE phase[r] # "work" /\ runtime[r][settled[r]] \in Owning
  BY <1>1, <1>2, <1>3, <1>5 DEF OwningInv, Holders, HolderNow, AsSet, StuckNow
<1>6. CASE phase[r] # "work" /\ runtime[r][settled[r]] \notin Owning
  BY <1>1, <1>2, <1>3, <1>6 DEF OwningInv, Holders, HolderNow, AsSet, StuckNow
<1> QED
  BY <1>4, <1>5, <1>6

(* The variables of OneOwner under the mapping. *)
HoldersMap == [r \in Refs |-> Holders(r)]
StuckMap == [r \in Refs |-> \E n \in Epochs : runtime[r][n] = "uncertain"]

HoldersFact ==
  \A r \in Refs :
    /\ HolderNow(r) \in Epochs \cup {Mutation, Nobody}
    /\ HoldersMap[r] = AsSet(HolderNow(r))
    /\ StuckMap[r] \in BOOLEAN
    /\ StuckMap[r] <=> StuckNow(r)

LEMMA HoldersAreAlways == AccountInv => HoldersFact
  BY HoldersAre DEF HoldersFact, HoldersMap, StuckMap

(* What a step may do to the owner of r.                                   *)
OwnerStep(r) ==
  \/ HolderNow(r)' = HolderNow(r) /\ (StuckNow(r)' <=> StuckNow(r))
  \/ HolderNow(r) = Nobody /\ (StuckNow(r)' <=> StuckNow(r))
  \/ ~StuckNow(r) /\ ~StuckNow(r)' /\ HolderNow(r) # Nobody
  \/ /\ HolderNow(r) # Nobody /\ HolderNow(r)' = HolderNow(r)
     /\ StuckNow(r)'

Untouched(q) ==
  /\ settled'[q] = settled[q] /\ phase'[q] = phase[q]
  /\ runtime'[q] = runtime[q]

LEMMA BuildStepOwner ==
  ASSUME AccountInv, NEW r \in Refs, NEW n \in Epochs,
         Get(r) \/ BuildStep(r, n)
  PROVE  OwnerStep(r) /\ \A q \in Refs \ {r} : Untouched(q)
<1> USE RetirementBound DEF AccountInv, AccountTypeOK, Epochs, RuntimeStates,
      Phases, Owning, ChainInv, FiledInv, OwningInv, OwnerStep, HolderNow,
      StuckNow, Untouched, Mutation, Nobody
<1>1. CASE Get(r)
  <2>1. CASE Filed(r)
    BY <1>1, <2>1 DEF Get
  <2>2. CASE ~Filed(r)
    <3>1. SetRuntime(r, filed[r], "waiting") /\ UNCHANGED <<filed, settled, failed, phase>>
      BY <1>1, <2>2 DEF Get
    <3> QED
      BY <2>2, <3>1 DEF Filed, SetRuntime
  <2> QED
    BY <2>1, <2>2
<1>2. CASE StartBuild(r, n)
  <2>1. n = settled[r] /\ phase[r] # "work"
    BY <1>2 DEF StartBuild
  <2> QED
    BY <1>2, <2>1 DEF StartBuild, SetRuntime
<1>3. CASE RefuseBuild(r, n)
  BY <1>3 DEF RefuseBuild, SetRuntime
<1>4. CASE FinishBuild(r, n)
  <2>1. n = settled[r] /\ phase[r] # "work" /\ runtime[r][n] = "building"
    BY <1>4 DEF FinishBuild
  <2>2. PICK s \in {"live", "absent"} : SetRuntime(r, n, s)
    BY <1>4 DEF FinishBuild
  <2>3. runtime'[r][n] \in {"live", "absent"}
    BY <2>2 DEF SetRuntime
  <2> QED
    BY <1>4, <2>1, <2>2, <2>3 DEF FinishBuild, SetRuntime
<1> QED
  BY <1>1, <1>2, <1>3, <1>4 DEF BuildStep

LEMMA RetirementStepOwner ==
  ASSUME AccountInv, NEW r \in Refs,
         WithRetired(r) \/ RetirementStep(r)
  PROVE  OwnerStep(r) /\ \A q \in Refs \ {r} : Untouched(q)
<1> USE RetirementBound DEF AccountInv, AccountTypeOK, Epochs, RuntimeStates,
      Phases, Owning, ChainInv, FiledInv, OwningInv, OwnerStep, HolderNow,
      StuckNow, Untouched, Mutation, Nobody, SetPhase
<1>1. CASE WithRetired(r)
  BY <1>1 DEF WithRetired
<1>2. CASE StartRetirement(r)
  BY <1>2 DEF StartRetirement
<1>3. CASE BeforeDisposeDone(r)
  BY <1>3 DEF BeforeDisposeDone
<1>4. CASE RetiredRuntimeSettled(r)
  <2>1. CASE runtime[r][settled[r]] = "live"
    <3>1. /\ SetRuntime(r, settled[r], "disposing")
          /\ SetPhase(r, "disposing")
          /\ phase[r] = "await"
          /\ UNCHANGED <<filed, settled, failed>>
      BY <1>4, <2>1 DEF RetiredRuntimeSettled
    <3> QED
      BY <2>1, <3>1 DEF SetRuntime
  <2>2. CASE runtime[r][settled[r]] = "absent"
    BY <1>4, <2>2 DEF RetiredRuntimeSettled
  <2> QED
    BY <1>4, <2>1, <2>2 DEF RetiredRuntimeSettled
<1>5. CASE DisposeDone(r)
  BY <1>5 DEF DisposeDone, SetRuntime
<1>6. CASE WorkDone(r)
  <2>1. /\ phase[r] = "work" /\ runtime[r][settled[r]] = "absent"
        /\ settled[r] < filed[r]
    BY <1>6 DEF WorkDone
  <2>2. settled'[r] = settled[r] + 1 /\ settled'[r] \in Epochs /\ phase'[r] = "idle"
    BY <1>6, <2>1 DEF WorkDone
  <2>3. runtime[r][settled'[r]] # "uncertain"
    BY <2>1, <2>2
  <2> QED
    BY <1>6, <2>1, <2>2, <2>3 DEF WorkDone
<1>7. CASE RetirementRejects(r)
  <2>1. CASE phase[r] = "disposing"
    <3>1. /\ SetRuntime(r, settled[r], "uncertain")
          /\ SetPhase(r, "idle")
          /\ UNCHANGED <<filed, settled>>
      BY <1>7, <2>1 DEF RetirementRejects
    <3> QED
      BY <2>1, <3>1 DEF SetRuntime
  <2>2. CASE phase[r] # "disposing"
    BY <1>7, <2>2 DEF RetirementRejects
  <2> QED
    BY <2>1, <2>2
<1> QED
  BY <1>1, <1>2, <1>3, <1>4, <1>5, <1>6, <1>7 DEF RetirementStep

(* A step that treats one reference so is a step, or a stutter, of OneOwner. *)
LEMMA OwnerStepRefines ==
  ASSUME AccountInv, AccountInv', NEW r \in Refs, OwnerStep(r),
         \A q \in Refs \ {r} : Untouched(q)
  PROVE  [Owner!Next]_(Owner!vars)
<1> DEFINE h == HolderNow(r)
           k == HolderNow(r)'
<1>1. HoldersFact
  BY HoldersAreAlways
<1>2. HoldersFact'
  BY HoldersAreAlways, PTL
<1>3. \A q \in Refs \ {r} : HoldersMap'[q] = HoldersMap[q] /\ StuckMap'[q] = StuckMap[q]
  BY DEF Untouched, Holders, HoldersMap, StuckMap
<1>4. HoldersMap' = [HoldersMap EXCEPT ![r] = AsSet(k)]
  <2>1. HoldersMap'[r] = AsSet(k)
    BY <1>2 DEF HoldersFact, AsSet, Nobody
  <2> QED
    BY <1>3, <2>1 DEF HoldersMap
<1>5. HoldersMap[r] = AsSet(h) /\ h \in Epochs \cup {Mutation, Nobody}
  BY <1>1 DEF HoldersFact
<1>6. k \in Epochs \cup {Mutation, Nobody}
  BY <1>2 DEF HoldersFact, Epochs, Mutation, Nobody
<1>7. /\ StuckMap[r] \in BOOLEAN /\ (StuckMap[r] <=> StuckNow(r))
      /\ StuckMap'[r] \in BOOLEAN /\ (StuckMap'[r] <=> StuckNow(r)')
  BY <1>1, <1>2 DEF HoldersFact
<1>8. ASSUME StuckNow(r)' <=> StuckNow(r)
      PROVE  StuckMap' = StuckMap
  <2>1. \A q \in Refs : StuckMap'[q] = StuckMap[q]
    BY <1>3, <1>7, <1>8
  <2> QED
    BY <2>1 DEF StuckMap
<1>9. CASE k = h /\ (StuckNow(r)' <=> StuckNow(r))
  <2>1. HoldersMap' = HoldersMap
    BY <1>4, <1>5, <1>9 DEF HoldersMap
  <2> QED
    BY <1>8, <1>9, <2>1 DEF Owner!vars, HoldersMap, StuckMap
<1>10. CASE h = Nobody /\ k # Nobody /\ (StuckNow(r)' <=> StuckNow(r))
  <2>1. k \in Epochs \cup {Mutation} /\ HoldersMap[r] = {} /\ AsSet(k) = {k}
    BY <1>5, <1>6, <1>10 DEF AsSet
  <2>2. Owner!Acquire(r, k)
    BY <1>4, <1>8, <1>10, <2>1 DEF Owner!Acquire, HoldersMap, StuckMap
  <2> QED
    BY <2>1, <2>2 DEF Owner!Next
<1>11. CASE ~StuckNow(r) /\ ~StuckNow(r)' /\ h # Nobody
  <2>1. h \in Epochs \cup {Mutation} /\ HoldersMap[r] = {h} /\ ~StuckMap[r]
    BY <1>5, <1>7, <1>11 DEF AsSet
  <2>2. \/ HoldersMap' = [HoldersMap EXCEPT ![r] = {}]
        \/ \E q \in Epochs \cup {Mutation} : HoldersMap' = [HoldersMap EXCEPT ![r] = {q}]
    BY <1>4, <1>6 DEF AsSet
  <2>3. Owner!Release(r, h)
    BY <1>8, <1>11, <2>1, <2>2 DEF Owner!Release, HoldersMap, StuckMap
  <2> QED
    BY <2>1, <2>3 DEF Owner!Next
<1>12. CASE h # Nobody /\ k = h /\ StuckNow(r)'
  <2>1. HoldersMap[r] # {} /\ HoldersMap' = HoldersMap
    BY <1>4, <1>5, <1>12 DEF AsSet, HoldersMap
  <2>2. StuckMap' = [StuckMap EXCEPT ![r] = TRUE]
    <3>1. StuckMap'[r] = TRUE
      BY <1>7, <1>12
    <3> QED
      BY <1>3, <3>1 DEF StuckMap
  <2>3. Owner!GetStuck(r)
    BY <2>1, <2>2 DEF Owner!GetStuck, HoldersMap, StuckMap
  <2> QED
    BY <2>3 DEF Owner!Next
<1> QED
  BY <1>9, <1>10, <1>11, <1>12 DEF OwnerStep

(* Every behaviour of the account runtimes is one of OneOwner: a key passes *)
(* between builds, runtimes and mutations one at a time, and never from a   *)
(* runtime whose disposal failed.                                           *)
THEOREM AccountsImplementOneOwner == AccountSpec => ImplementsOneOwner
<1>1. AccountInit => Owner!Init
  BY RetirementBound DEF AccountInit, Owner!Init, Holders, Owning, Epochs
<1>2. AccountInv /\ AccountInv' /\ [AccountNext]_accountVars => [Owner!Next]_(Owner!vars)
  <2>1. CASE UNCHANGED accountVars
    BY <2>1 DEF accountVars, Owner!vars, Holders
  <2>2. ASSUME AccountInv, AccountInv', AccountNext
        PROVE  [Owner!Next]_(Owner!vars)
    <3>1. PICK r \in Refs : \/ Get(r) \/ WithRetired(r) \/ RetirementStep(r)
                            \/ \E n \in Epochs : BuildStep(r, n)
      BY <2>2 DEF AccountNext
    <3>2. CASE WithRetired(r) \/ RetirementStep(r)
      BY <2>2, <3>2, RetirementStepOwner, OwnerStepRefines
    <3>3. CASE Get(r)
      <4>1. 0 \in Epochs
        BY RetirementBound DEF Epochs
      <4> QED
        BY <2>2, <3>3, <4>1, BuildStepOwner, OwnerStepRefines
    <3>4. CASE \E n \in Epochs : BuildStep(r, n)
      BY <2>2, <3>4, BuildStepOwner, OwnerStepRefines
    <3> QED
      BY <3>1, <3>2, <3>3, <3>4
  <2> QED
    BY <2>1, <2>2
<1>3. AccountSpec => []AccountInv
  BY AccountInvariant
<1> QED
  BY <1>1, <1>2, <1>3, PTL DEF AccountSpec, ImplementsOneOwner, Owner!Spec
=============================================================================
