---------------------------- MODULE ProcessLease ----------------------------
(***************************************************************************)
(* The lease of src/presentation/daemon-socket.ts: a directory that holds  *)
(* the record of its owner, taken and given up with renames only.  The     *)
(* record is the file `owner` while the lease is at rest, and a claim file *)
(* named for its remover while somebody is about to replace or remove it.  *)
(*                                                                         *)
(* A starter is one acquisition, that is one random lease identifier.  Its *)
(* process may crash between any two system calls, and its PID may then be *)
(* used by another starter or by a stranger.                               *)
(*                                                                         *)
(* Each system call is a step, with the computation that follows it.  File *)
(* operations fail only with ENOENT or ENOTEMPTY, as the state of the      *)
(* directory has it.  A record is written before it is published, so it is *)
(* always complete; the file name of a claim is not consulted for it.      *)
(***************************************************************************)
EXTENDS Naturals

CONSTANTS
  Starters,   \* acquisitions
  OwnerFile,  \* the file name `owner`; a claim is named by its remover
  Nobody,     \* no record
  Pids,       \* process numbers
  PidOf,      \* PidOf[p]: the process number of p
  Attempts    \* rounds of acquireDaemonLease()

ASSUME LeaseAssumption ==
  /\ OwnerFile \notin Starters
  /\ Nobody \notin Starters
  /\ PidOf \in [Starters -> Pids]
  /\ Attempts \in Nat \ {0}

VARIABLES
  lease,      \* lease[f]: the owner recorded in file f, Nobody if it is absent
  at,         \* at[p]: progress of p
  round,      \* round[p]: attempts made
  saw,        \* saw[p]: the owner, or the stale claim, that p has read
  recovered,  \* recovered[p]: p replaced a dead owner
  strangers   \* process numbers used by unrelated processes

leaseVars == <<lease, at, round, saw, recovered, strangers>>

Files == Starters \cup {OwnerFile}

Acquiring == {"publish", "inspect", "read", "claim", "verify", "scan", "reclaim",
              "judge", "enter", "settle", "refuse", "retry"}

Releasing == {"check"}

Ended == {"refused", "failed", "released"}

Living(p) == at[p] \notin {"unborn", "dead"}

(* p was told that the lease is its own and has not begun to give it up. *)
Holding(p) == at[p] = "holding"

LeaseTypeOK ==
  /\ lease \in [Files -> Starters \cup {Nobody}]
  /\ at \in [Starters -> Acquiring \cup Releasing \cup Ended
                           \cup {"unborn", "holding", "dead"}]
  /\ round \in [Starters -> 0..Attempts]
  /\ saw \in [Starters -> Starters \cup {Nobody}]
  /\ recovered \in [Starters -> BOOLEAN]
  /\ strangers \subseteq Pids

LeaseInit ==
  /\ lease = [f \in Files |-> Nobody]
  /\ at = [p \in Starters |-> "unborn"]
  /\ round = [p \in Starters |-> 0]
  /\ saw = [p \in Starters |-> Nobody]
  /\ recovered = [p \in Starters |-> FALSE]
  /\ strangers = {}

(* The lease directory does not exist; it is never left there empty. *)
Absent == \A f \in Files : lease[f] = Nobody

(* process.kill(pid, 0) *)
processIsAlive(o) ==
  \/ PidOf[o] \in strangers
  \/ \E q \in Starters : PidOf[q] = PidOf[o] /\ Living(q)

Go(p, s) == at' = [at EXCEPT ![p] = s]

Rename(f, g) == lease' = [lease EXCEPT ![g] = lease[f], ![f] = Nobody]

AgainForever(p) ==
  /\ round' = [round EXCEPT ![p] = @ + 1]
  /\ Go(p, "publish")

(* The next round, or the answer after the last. *)
Again(p) ==
  /\ round' = [round EXCEPT ![p] = @ + 1]
  /\ Go(p, IF round[p] + 1 < Attempts THEN "publish" ELSE "refused")

-----------------------------------------------------------------------------
(* acquireDaemonLease(). *)

(* A process starts to acquire; it may have given up another lease before. *)
Begin(p) ==
  /\ at[p] = "unborn"
  /\ PidOf[p] \notin strangers
  /\ \A q \in Starters :
       PidOf[q] = PidOf[p] /\ Living(q) => at[q] \in Ended
  /\ Go(p, "publish")
  /\ UNCHANGED <<lease, round, saw, recovered, strangers>>

(* rename(candidatePath, leasePath): succeeds unless the target is filled. *)
Publish(p) ==
  /\ at[p] = "publish"
  /\ IF Absent
       THEN lease' = [lease EXCEPT ![OwnerFile] = p] /\ Go(p, "holding")
       ELSE Go(p, "inspect") /\ UNCHANGED lease
  /\ UNCHANGED <<round, saw, recovered, strangers>>

(* lstat(leasePath): a lease released since is an error. *)
Inspect(p) ==
  /\ at[p] = "inspect"
  /\ Go(p, IF Absent THEN "failed" ELSE "read")
  /\ UNCHANGED <<lease, round, saw, recovered, strangers>>

(* readFile(owner): a live owner ends it, a dead one is to be replaced. *)
ReadOwner(p) ==
  /\ at[p] = "read"
  /\ LET o == lease[OwnerFile] IN
       \/ /\ o = Nobody
          /\ Go(p, "scan")
          /\ UNCHANGED saw
       \/ /\ o # Nobody
          /\ Go(p, IF processIsAlive(o) THEN "refused" ELSE "claim")
          /\ saw' = [saw EXCEPT ![p] = o]
  /\ UNCHANGED <<lease, round, recovered, strangers>>

(* replaceDeadOwner(): the record is claimed, whoever it names by now ... *)
ClaimDeadOwner(p) ==
  /\ at[p] = "claim"
  /\ IF lease[OwnerFile] = Nobody
       THEN Again(p) /\ UNCHANGED lease
       ELSE Rename(OwnerFile, p) /\ Go(p, "verify") /\ UNCHANGED round
  /\ UNCHANGED <<saw, recovered, strangers>>

VerifyLivenessOnly(p) ==
  /\ at[p] = "verify"
  /\ Go(p, IF processIsAlive(saw[p]) THEN "refuse" ELSE "enter")
  /\ UNCHANGED <<lease, round, saw, recovered, strangers>>

(* ... then read again: another one's record is given back, and the next   *)
(* round decides about it.                                                 *)
VerifyClaim(p) ==
  /\ at[p] = "verify"
  /\ Go(p, IF lease[p] # saw[p] THEN "retry"
           ELSE IF processIsAlive(saw[p]) THEN "refuse" ELSE "enter")
  /\ UNCHANGED <<lease, round, saw, recovered, strangers>>

ScanForOwnerOnly(p) ==
  /\ at[p] = "scan"
  /\ IF Absent THEN Again(p) ELSE Go(p, "refused") /\ UNCHANGED round
  /\ UNCHANGED <<lease, saw, recovered, strangers>>

(* recoverInterruptedRemoval(): readdir finds the claim of a remover.  A   *)
(* live one is about to own the lease or to give it back.                  *)
ScanClaims(p) ==
  LET claims == {q \in Starters : lease[q] # Nobody} IN
  /\ at[p] = "scan"
  /\ IF claims = {}
       THEN Again(p) /\ UNCHANGED saw
       ELSE \E q \in claims :
              /\ Go(p, IF processIsAlive(q) THEN "refused" ELSE "reclaim")
              /\ saw' = [saw EXCEPT ![p] = q]
              /\ UNCHANGED round
  /\ UNCHANGED <<lease, recovered, strangers>>

(* The claim of a dead remover is claimed in turn ... *)
ReclaimClaim(p) ==
  /\ at[p] = "reclaim"
  /\ IF lease[saw[p]] = Nobody
       THEN Again(p) /\ UNCHANGED lease
       ELSE Rename(saw[p], p) /\ Go(p, "judge") /\ UNCHANGED round
  /\ UNCHANGED <<saw, recovered, strangers>>

TrustFileName(p) ==
  /\ at[p] = "judge"
  /\ Go(p, "enter")
  /\ UNCHANGED <<lease, round, saw, recovered, strangers>>

(* ... and the record in it decides, not the name of the file. *)
JudgeClaim(p) ==
  /\ at[p] = "judge"
  /\ Go(p, IF processIsAlive(lease[p]) THEN "refuse" ELSE "enter")
  /\ UNCHANGED <<lease, round, saw, recovered, strangers>>

(* The claimed record belongs to somebody else or to the living: put back. *)
Restore(p) ==
  /\ at[p] \in {"retry", "refuse"}
  /\ Rename(p, OwnerFile)
  /\ IF at[p] = "retry" THEN Again(p) ELSE Go(p, "refused") /\ UNCHANGED round
  /\ UNCHANGED <<saw, recovered, strangers>>

EnterBesideClaim(p) ==
  /\ at[p] = "enter"
  /\ lease' = [lease EXCEPT ![OwnerFile] = p]
  /\ Go(p, "holding")
  /\ UNCHANGED <<round, saw, recovered, strangers>>

(* publishClaimedOwner(): the candidate record replaces the claimed one ... *)
EnterClaim(p) ==
  /\ at[p] = "enter"
  /\ lease' = [lease EXCEPT ![p] = p]
  /\ Go(p, "settle")
  /\ UNCHANGED <<round, saw, recovered, strangers>>

(* ... and the claim becomes the owner. *)
SettleClaim(p) ==
  /\ at[p] = "settle"
  /\ Rename(p, OwnerFile)
  /\ Go(p, "holding")
  /\ recovered' = [recovered EXCEPT ![p] = TRUE]
  /\ UNCHANGED <<round, saw, strangers>>

-----------------------------------------------------------------------------
(* removeOwnedLease(). *)

(* The own record is claimed; if somebody else has just claimed it, the    *)
(* release is over and nothing was removed.                                *)
ClaimOwnLease(p) ==
  /\ at[p] = "holding"
  /\ IF lease[OwnerFile] = Nobody
       THEN Go(p, "released") /\ UNCHANGED lease
       ELSE Rename(OwnerFile, p) /\ Go(p, "check")
  /\ UNCHANGED <<round, saw, recovered, strangers>>

(* The directory leaves its path as a whole, unless it is another's by now. *)
RemoveLease(p) ==
  /\ at[p] = "check"
  /\ IF lease[p] = p
       THEN lease' = [f \in Files |-> Nobody]
       ELSE Rename(p, OwnerFile)
  /\ Go(p, "released")
  /\ UNCHANGED <<round, saw, recovered, strangers>>

-----------------------------------------------------------------------------
(* The operating system. *)

(* A process ends, by a crash or by itself, with all its starters. *)
Die(n) ==
  /\ at' = [q \in Starters |-> IF PidOf[q] = n /\ Living(q) THEN "dead" ELSE at[q]]
  /\ at' # at
  /\ UNCHANGED <<lease, round, saw, recovered, strangers>>

(* A stranger gets a process number that is free, or ends. *)
Stranger(n) ==
  /\ \A q \in Starters : PidOf[q] = n => ~Living(q)
  /\ strangers' = IF n \in strangers THEN strangers \ {n} ELSE strangers \cup {n}
  /\ UNCHANGED <<lease, at, round, saw, recovered>>

-----------------------------------------------------------------------------

Acquire(p) ==
  \/ Publish(p)
  \/ Inspect(p)
  \/ ReadOwner(p)
  \/ ClaimDeadOwner(p)
  \/ VerifyClaim(p)
  \/ ScanClaims(p)
  \/ ReclaimClaim(p)
  \/ JudgeClaim(p)
  \/ Restore(p)
  \/ EnterClaim(p)
  \/ SettleClaim(p)

Release(p) == ClaimOwnLease(p) \/ RemoveLease(p)

LeaseNext ==
  \/ \E p \in Starters : Begin(p) \/ Acquire(p) \/ Release(p)
  \/ \E n \in Pids : Die(n) \/ Stranger(n)

LeaseSpec == LeaseInit /\ [][LeaseNext]_leaseVars

-----------------------------------------------------------------------------
(* Properties. *)

(* Two live processes are never both told that the lease is theirs, and    *)
(* whoever holds it is on record, be it in a file claimed by another       *)
(* starter at the moment.                                                  *)
LeaseIsExclusive ==
  \A p \in Starters : Holding(p) =>
    /\ \A q \in Starters : Holding(q) => p = q
    /\ \E f \in Files : lease[f] = p

(* The comment in publishClaimedOwner(): a one-marker state machine.       *)
OneMarker ==
  \A f, g \in Files : lease[f] # Nobody /\ lease[g] # Nobody => f = g

(* recoveredDeadOwner authorises the removal of the sockets of the owner   *)
(* before: it is never replaced while it lives.                            *)
OnlyTheDeadAreReplaced ==
  [][\A p \in Starters, f \in Files :
       lease[f] # Nobody /\ lease[f] # p /\ lease'[f] = p
         => ~Living(lease[f])]_leaseVars

(* The tests of the lease acquire it again once every acquisition has been *)
(* answered and every release has resolved: the owner on record is then    *)
(* not a live process that has released.                                   *)
ReleasedLeaseIsFree ==
  (\A p \in Starters : at[p] \in Ended \cup {"unborn", "dead"})
    => \A p \in Starters : at[p] = "released" => lease[OwnerFile] # p
=============================================================================
