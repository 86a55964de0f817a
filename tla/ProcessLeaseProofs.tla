------------------------- MODULE ProcessLeaseProofs -------------------------
(***************************************************************************)
(* The lease is exclusive for every number of starters, every assignment   *)
(* of process numbers to them, and every crash.                            *)
(***************************************************************************)
EXTENDS ProcessLease, TLAPS

(* The starters that have renamed the record to a claim of their own. *)
Claiming == {"verify", "judge", "retry", "refuse", "enter", "settle", "check"}

(* A claim belongs to one who works on it, or died doing so. *)
ClaimsAreOwned ==
  \A p \in Starters :
    /\ lease[p] # Nobody => at[p] \in Claiming \cup {"dead"}
    /\ at[p] \in Claiming => lease[p] # Nobody

(* Holders are on record, and so are those about to hold or to let go. *)
HoldersAreRecorded ==
  \A p \in Starters :
    /\ at[p] = "holding" => \E f \in Files : lease[f] = p
    /\ at[p] \in {"settle", "check"} => lease[p] = p

(* What was judged dead is dead for good. *)
JudgedDead ==
  \A p \in Starters :
    /\ at[p] = "enter" => at[lease[p]] = "dead"
    /\ at[p] = "reclaim" => saw[p] \in Starters /\ at[saw[p]] = "dead"

(* Nobody is on record before it began. *)
RecordsAreBorn ==
  \A f \in Files : lease[f] # Nobody => at[lease[f]] # "unborn"

(* A starter at work has a round left for it. *)
RoundsAreLeft ==
  \A p \in Starters :
    /\ at[p] = "unborn" => round[p] = 0
    /\ at[p] \in Acquiring => round[p] < Attempts

(* The invariant: one marker, and who may touch it. *)
LeaseInv ==
  /\ LeaseTypeOK
  /\ OneMarker
  /\ ClaimsAreOwned
  /\ HoldersAreRecorded
  /\ JudgedDead
  /\ RecordsAreBorn
  /\ RoundsAreLeft

-----------------------------------------------------------------------------

LEMMA LeaseInitial == LeaseInit => LeaseInv
BY LeaseAssumption DEF LeaseInit, LeaseInv, LeaseTypeOK, OneMarker, ClaimsAreOwned,
  HoldersAreRecorded, JudgedDead, RecordsAreBorn, RoundsAreLeft, Claiming, Acquiring, Files

(* Each step of a starter keeps the invariant. *)
LEMMA StarterKeeps ==
  ASSUME LeaseInv, NEW p \in Starters, Begin(p) \/ Acquire(p) \/ Release(p)
  PROVE  LeaseInv'
<1> USE LeaseAssumption DEF Go, LeaseInv, LeaseTypeOK, OneMarker, ClaimsAreOwned,
          HoldersAreRecorded, JudgedDead, RecordsAreBorn, RoundsAreLeft, Files, Claiming
<1>1. CASE Begin(p)
  BY <1>1 DEF Begin, Acquiring
<1>2. CASE Publish(p)
  BY <1>2 DEF Publish, Acquiring, Absent
<1>3. CASE Inspect(p)
  BY <1>3 DEF Inspect, Acquiring, Ended
<1>4. CASE ReadOwner(p)
  BY <1>4 DEF ReadOwner, Acquiring, Ended
<1>5. CASE ClaimDeadOwner(p)
  BY <1>5 DEF ClaimDeadOwner, Acquiring, Ended, Again, Rename
<1>6. CASE VerifyClaim(p)
  BY <1>6 DEF VerifyClaim, Acquiring, processIsAlive, Living
<1>7. CASE ScanClaims(p)
  BY <1>7 DEF ScanClaims, Acquiring, Ended, Again, processIsAlive, Living
<1>8. CASE ReclaimClaim(p)
  <2>1. saw[p] \in Starters /\ at[saw[p]] = "dead" /\ saw[p] # p
    BY <1>8 DEF ReclaimClaim
  <2>2. CASE lease[saw[p]] = Nobody
    BY <1>8, <2>1, <2>2 DEF ReclaimClaim, Again, Acquiring, Ended
  <2>3. CASE lease[saw[p]] # Nobody
    <3>1. \A f \in Files : f # saw[p] => lease[f] = Nobody
      BY <2>1, <2>3
    <3>2. lease' = [lease EXCEPT ![p] = lease[saw[p]], ![saw[p]] = Nobody]
      BY <1>8, <2>3 DEF ReclaimClaim, Rename
    <3>3. \A f \in Files : lease'[f] = IF f = p THEN lease[saw[p]] ELSE Nobody
      BY <2>1, <3>1, <3>2
    <3> QED
      BY <1>8, <2>1, <2>3, <3>2, <3>3 DEF ReclaimClaim, Acquiring
  <2> QED
    BY <2>2, <2>3
<1>9. CASE JudgeClaim(p)
  BY <1>9 DEF JudgeClaim, Acquiring, processIsAlive, Living
<1>10. CASE Restore(p)
  BY <1>10 DEF Restore, Acquiring, Ended, Again, Rename
<1>11. CASE EnterClaim(p)
  BY <1>11 DEF EnterClaim, Acquiring
<1>12. CASE SettleClaim(p)
  BY <1>12 DEF SettleClaim, Acquiring, Rename
<1>13. CASE ClaimOwnLease(p)
  BY <1>13 DEF ClaimOwnLease, Acquiring, Releasing, Ended, Rename
<1>14. CASE RemoveLease(p)
  BY <1>14 DEF RemoveLease, Acquiring, Releasing, Ended, Rename
<1> QED
  BY <1>1, <1>2, <1>3, <1>4, <1>5, <1>6, <1>7, <1>8, <1>9, <1>10, <1>11, <1>12,
     <1>13, <1>14 DEF Acquire, Release

(* So does every step of the operating system. *)
LEMMA SystemKeeps ==
  ASSUME LeaseInv, NEW n \in Pids, Die(n) \/ Stranger(n)
  PROVE  LeaseInv'
<1> USE DEF LeaseInv, LeaseTypeOK, OneMarker, ClaimsAreOwned, HoldersAreRecorded,
          JudgedDead, RecordsAreBorn, RoundsAreLeft, Files, Claiming, Acquiring
<1>1. CASE Die(n)
  BY <1>1 DEF Die, Living
<1>2. CASE Stranger(n)
  BY <1>2 DEF Stranger
<1> QED
  BY <1>1, <1>2

LEMMA LeaseStep ==
  ASSUME LeaseInv, [LeaseNext]_leaseVars
  PROVE  LeaseInv'
<1>1. CASE LeaseNext
  BY <1>1, StarterKeeps, SystemKeeps DEF LeaseNext
<1>2. CASE UNCHANGED leaseVars
  BY <1>2 DEF leaseVars, LeaseInv, LeaseTypeOK, OneMarker, ClaimsAreOwned,
    HoldersAreRecorded, JudgedDead, RecordsAreBorn, RoundsAreLeft
<1> QED
  BY <1>1, <1>2

(* The invariant holds throughout, whoever starts, dies or reuses a number. *)
THEOREM LeaseInvariant == LeaseSpec => []LeaseInv
BY LeaseInitial, LeaseStep, PTL DEF LeaseSpec

(* The lease stays within its types and never goes beyond its rounds. *)
THEOREM LeaseTyped == LeaseSpec => []LeaseTypeOK
BY LeaseInvariant, PTL DEF LeaseInv

(* publishClaimedOwner() and the renames around it keep one marker. *)
THEOREM LeaseKeepsOneMarker == LeaseSpec => []OneMarker
BY LeaseInvariant, PTL DEF LeaseInv

(* At most one live process was told that the lease is its own. *)
THEOREM LeaseExclusive == LeaseSpec => []LeaseIsExclusive
<1>1. LeaseInv => LeaseIsExclusive
  BY LeaseAssumption DEF LeaseInv, LeaseIsExclusive, HoldersAreRecorded, OneMarker,
    Holding, Files
<1> QED
  BY <1>1, LeaseInvariant, PTL

(* No record of a live process is ever replaced by that of another one. *)
THEOREM LeaseReplacesTheDead == LeaseSpec => OnlyTheDeadAreReplaced
<1> DEFINE A == \A p \in Starters, f \in Files :
       lease[f] # Nobody /\ lease[f] # p /\ lease'[f] = p => ~Living(lease[f])
<1>1. ASSUME LeaseInv, [LeaseNext]_leaseVars
      PROVE  [A]_leaseVars
  <2> SUFFICES ASSUME LeaseNext, NEW p \in Starters, NEW f \in Files,
                      lease[f] # Nobody, lease[f] # p, lease'[f] = p
               PROVE  ~Living(lease[f])
    BY <1>1
  <2> USE LeaseAssumption
  <2>1. lease' # lease /\ lease'[f] # Nobody
    OBVIOUS
  <2>2. \A g, h \in Files : lease[g] # Nobody => ~Rename(g, h)
    <3> SUFFICES ASSUME NEW g \in Files, NEW h \in Files, lease[g] # Nobody, Rename(g, h)
                 PROVE  FALSE
      OBVIOUS
    <3>1. f = g
      BY <1>1 DEF LeaseInv, OneMarker
    <3> QED
      BY <1>1, <2>1, <3>1 DEF LeaseInv, LeaseTypeOK, OneMarker, Rename
  <2>3. ASSUME NEW r \in Starters, Begin(r) \/ Acquire(r) \/ Release(r)
        PROVE  ~Living(lease[f])
    <3>1. ~Begin(r) /\ ~Inspect(r) /\ ~ReadOwner(r) /\ ~VerifyClaim(r) /\ ~ScanClaims(r)
            /\ ~JudgeClaim(r)
      BY <2>1 DEF Begin, Inspect, ReadOwner, VerifyClaim, ScanClaims, JudgeClaim
    <3>2. ~Publish(r)
      BY <2>1 DEF Publish, Absent
    <3>3. ~ClaimDeadOwner(r) /\ ~ClaimOwnLease(r)
      BY <2>1, <2>2 DEF ClaimDeadOwner, ClaimOwnLease, Files
    <3>4. ~ReclaimClaim(r)
      BY <1>1, <2>1, <2>2 DEF ReclaimClaim, LeaseInv, JudgedDead, Files
    <3>5. ~Restore(r) /\ ~SettleClaim(r) /\ ~RemoveLease(r)
      BY <1>1, <2>1, <2>2 DEF Restore, SettleClaim, RemoveLease, LeaseInv,
        ClaimsAreOwned, Claiming, Files
    <3>6. CASE EnterClaim(r)
      BY <1>1, <2>1, <3>6 DEF EnterClaim, LeaseInv, LeaseTypeOK, JudgedDead, Living
    <3> QED
      BY <2>3, <3>1, <3>2, <3>3, <3>4, <3>5, <3>6 DEF Acquire, Release
  <2>4. ASSUME NEW n \in Pids, Die(n) \/ Stranger(n)
        PROVE  FALSE
    BY <2>1, <2>4 DEF Die, Stranger
  <2> QED
    BY <2>3, <2>4 DEF LeaseNext
<1> QED
  BY <1>1, LeaseInvariant, PTL DEF LeaseSpec, OnlyTheDeadAreReplaced
=============================================================================
