------------------------- MODULE ServiceStartProofs -------------------------
(***************************************************************************)
(* The sockets of a dead service never get out of reach, and those of a    *)
(* live one are its own, for every number of processes and crashes.        *)
(***************************************************************************)
EXTENDS ServiceStart, ProcessLeaseProofs

Recovering == {"look", "probe", "compare", "unlink"}

ServiceTypes ==
  /\ socket \in [Sockets -> Holders]
  /\ stage \in [Starters -> Stages]
  /\ which \in [Starters -> Sockets]
  /\ seen \in [Starters -> Holders]

(* A live process has its stage in the service only while it has the lease. *)
StagesAreHeld ==
  \A p \in Starters : Living(p) =>
    /\ stage[p] = "lease" => at[p] \notin {"check", "released"} /\ which[p] = "client"
    /\ stage[p] = "leaving" => at[p] \in {"holding", "check", "released"}
    /\ stage[p] \notin {"lease", "leaving"} => at[p] = "holding"

(* Nothing is done before the process began. *)
UnbornIsIdle ==
  \A p \in Starters :
    at[p] = "unborn" => /\ stage[p] = "lease" /\ which[p] = "client"
                        /\ \A s \in Sockets : socket[s] # p

(* Which sockets a live process has bound, by its stage. *)
SocketsFollowStages ==
  \A p \in Starters : Living(p) =>
    /\ stage[p] = "serving" => \A s \in Sockets : socket[s] = p
    /\ stage[p] = "bind" /\ which[p] = "operator" => socket["client"] = p
    /\ \A s \in Sockets : socket[s] = p =>
         \/ stage[p] = "serving"
         \/ s = "client" /\ stage[p] = "closing"
         \/ s = "client" /\ stage[p] = "bind" /\ which[p] = "operator"

(* The recovery is done with the client socket when it turns to the other, *)
(* and what it looked at stays there meanwhile.                            *)
RecoveredInOrder ==
  \A p \in Starters : Holding(p) /\ stage[p] \in Recovering =>
    /\ which[p] = "operator" => socket["client"] = Nobody
    /\ stage[p] # "look" => seen[p] = socket[which[p]]

ServiceInv ==
  /\ LeaseInv
  /\ LeaseIsExclusive
  /\ ServiceTypes
  /\ StagesAreHeld
  /\ UnbornIsIdle
  /\ SocketsFollowStages
  /\ RecoveredInOrder
  /\ StaleSocketsAreProvable

-----------------------------------------------------------------------------

LEMMA Exclusive == LeaseInv => LeaseIsExclusive
BY LeaseAssumption DEF LeaseInv, LeaseIsExclusive, HoldersAreRecorded, OneMarker,
  Holding, Files

LEMMA ServiceInitial == ServiceInit => ServiceInv
BY LeaseInitial, Exclusive, LeaseAssumption DEF ServiceInit, ServiceInv, ServiceTypes, StagesAreHeld,
  UnbornIsIdle, SocketsFollowStages, RecoveredInOrder, StaleSocketsAreProvable, LeaseInit,
  Living, Holding, Holders, Stages, Sockets

(* A holder that is past the recovery has no stale socket before it. *)
LEMMA HolderSeesNoStale ==
  ASSUME ServiceInv, NEW p \in Starters, at[p] \in {"holding", "check"},
         ~(recovered[p] /\ stage[p] \in Recovering \cup {"lease"}),
         NEW s \in Sockets, socket[s] # Nobody
  PROVE  Living(socket[s])
<1>1. \E f \in Files : lease[f] = p
  BY DEF ServiceInv, LeaseInv, HoldersAreRecorded, Files
<1>2. \A f \in Files : lease[f] # Nobody => lease[f] = p
  BY <1>1, LeaseAssumption DEF ServiceInv, LeaseInv, OneMarker
<1>3. Living(p) /\ at[p] # "settle"
  BY DEF Living
<1> QED
  BY <1>2, <1>3 DEF ServiceInv, StaleSocketsAreProvable, ProvesDeath, Recovering

(* A process that has sockets holds the lease. *)
LEMMA BinderHolds ==
  ASSUME ServiceInv, NEW s \in Sockets, socket[s] # Nobody, Living(socket[s])
  PROVE  socket[s] \in Starters /\ Holding(socket[s])
BY DEF ServiceInv, ServiceTypes, Holders, SocketsFollowStages, StagesAreHeld, Holding

LEMMA StartLeaseKeeps ==
  ASSUME ServiceInv, LeaseInv', NEW p \in Starters, StartLease(p)
  PROVE  ServiceInv'
<1> USE LeaseAssumption
<1>1. /\ at[p] \in Acquiring \cup {"unborn"}
      /\ at'[p] \in Acquiring \cup {"holding", "refused", "failed"}
      /\ \A q \in Starters : q # p => at'[q] = at[q] /\ recovered'[q] = recovered[q]
      /\ UNCHANGED <<socket, stage, which, seen>>
  BY DEF StartLease, socketVars, Begin, Acquire, Publish, Inspect, ReadOwner, ClaimDeadOwner,
    VerifyClaim, ScanClaims, ReclaimClaim, JudgeClaim, Restore, EnterClaim, SettleClaim, Go,
    Again, Acquiring, ServiceInv, LeaseInv, LeaseTypeOK
<1>2. stage[p] = "lease"
  BY <1>1 DEF ServiceInv, StagesAreHeld, UnbornIsIdle, Living, Acquiring
<1>3. \A s \in Sockets : socket[s] # p
  BY <1>1, <1>2 DEF ServiceInv, SocketsFollowStages, UnbornIsIdle, Living, Acquiring
<1>4. ServiceTypes' /\ StagesAreHeld' /\ UnbornIsIdle' /\ SocketsFollowStages'
  BY <1>1, <1>2, <1>3 DEF ServiceInv, ServiceTypes, StagesAreHeld, UnbornIsIdle,
    SocketsFollowStages, Living, Acquiring
<1>5. RecoveredInOrder'
  BY <1>1, <1>2 DEF ServiceInv, RecoveredInOrder, Recovering, Holding
<1>6. \A q \in Starters :
        ProvesDeath(q) /\ at[q] # "unborn" /\ ~(q = p /\ SettleClaim(p)) => ProvesDeath(q)'
  <2>1. ASSUME at[p] = "settle"
        PROVE  SettleClaim(p)
    BY <2>1 DEF StartLease, Begin, Acquire, Publish, Inspect, ReadOwner, ClaimDeadOwner,
      VerifyClaim, ScanClaims, ReclaimClaim, JudgeClaim, Restore, EnterClaim
  <2>2. ~SettleClaim(p) => recovered'[p] = recovered[p]
    BY DEF StartLease, Begin, Acquire, Publish, Inspect, ReadOwner, ClaimDeadOwner,
      VerifyClaim, ScanClaims, ReclaimClaim, JudgeClaim, Restore, EnterClaim
  <2> QED
    BY <1>1, <2>1, <2>2 DEF ProvesDeath, Living, Acquiring
<1>7. SettleClaim(p) => ProvesDeath(p)'
  BY <1>1, <1>2 DEF SettleClaim, ProvesDeath, ServiceInv, LeaseInv, LeaseTypeOK
<1>8. EnterClaim(p) => ProvesDeath(p)'
  BY DEF EnterClaim, Go, ProvesDeath, ServiceInv, LeaseInv, LeaseTypeOK
<1>9. ASSUME NEW f \in Files, lease[f] # Nobody, ProvesDeath(lease[f])
      PROVE  \E g \in Files : lease'[g] # Nobody /\ ProvesDeath(lease[g])'
  <2>1. lease[f] \in Starters /\ at[lease[f]] # "unborn"
    BY <1>9 DEF ServiceInv, LeaseInv, LeaseTypeOK, RecordsAreBorn
  <2>2. CASE SettleClaim(p)
    BY <1>7, <2>2 DEF SettleClaim, Rename, Files, ServiceInv, LeaseInv, LeaseTypeOK,
      HoldersAreRecorded
  <2>3. CASE EnterClaim(p)
    BY <1>8, <2>3 DEF EnterClaim, Files, ServiceInv, LeaseInv, LeaseTypeOK
  <2>4. CASE ~SettleClaim(p) /\ ~EnterClaim(p)
    <3>1. ProvesDeath(lease[f]) => \A g \in Files : lease'[g] = lease[f] => ProvesDeath(lease[g])'
      BY <1>6, <2>1, <2>4 DEF ProvesDeath, Living
    <3>2. \E g \in Files : lease'[g] = lease[f]
      <4> USE DEF ServiceInv, LeaseInv, LeaseTypeOK, OneMarker, ClaimsAreOwned, Files
      <4>1. CASE UNCHANGED lease
        BY <4>1, <1>9
      <4>2. CASE ClaimDeadOwner(p) /\ lease[OwnerFile] # Nobody
        BY <4>2, <1>9 DEF ClaimDeadOwner, Rename
      <4>3. CASE ReclaimClaim(p) /\ lease[saw[p]] # Nobody
        <5>1. saw[p] \in Starters /\ lease[p] = Nobody /\ f = saw[p]
          BY <4>3, <1>9 DEF ReclaimClaim, JudgedDead, Claiming
        <5> QED
          BY <4>3, <5>1 DEF ReclaimClaim, Rename
      <4>4. CASE Restore(p)
        BY <4>4, <1>9 DEF Restore, Rename, Claiming
      <4>5. CASE Publish(p) /\ Absent
        BY <4>5, <1>9 DEF Absent
      <4> QED
        BY <2>4, <4>1, <4>2, <4>3, <4>4, <4>5 DEF StartLease, Begin, Acquire, Publish, Inspect,
          ReadOwner, ClaimDeadOwner, VerifyClaim, ScanClaims, ReclaimClaim, JudgeClaim
    <3> QED
      BY <1>9, <2>1, <3>1, <3>2, LeaseAssumption
  <2> QED
    BY <2>2, <2>3, <2>4
<1>10. StaleSocketsAreProvable'
  BY <1>1, <1>3, <1>9 DEF StaleSocketsAreProvable, Living, ServiceInv, ServiceTypes, Holders
<1> QED
  BY <1>4, <1>5, <1>10, Exclusive, PTL DEF ServiceInv

(* A record keeps proving a death while its process is about to do so.     *)
LEMMA ProofsSurvive ==
  ASSUME ServiceInv, UNCHANGED leaseVars,
         \A q \in Starters : ProvesDeath(q) => ProvesDeath(q)',
         \A s \in Sockets : socket'[s] # Nobody => socket'[s] = socket[s] \/ Living(socket'[s])
  PROVE  StaleSocketsAreProvable'
BY DEF leaseVars, ServiceInv, StaleSocketsAreProvable, ServiceTypes, Living, LeaseInv, LeaseTypeOK

LEMMA StartStepKeeps ==
  ASSUME ServiceInv, NEW p \in Starters, StartStep(p)
  PROVE  ServiceInv'
<1> USE LeaseAssumption DEF Recovering, Up, Holding, Living
<1>1. /\ UNCHANGED leaseVars
      /\ at[p] = "holding"
      /\ \A q \in Starters : q # p => stage'[q] = stage[q] /\ which'[q] = which[q]
      /\ \A s \in Sockets : socket[s] # Nobody /\ Living(socket[s]) => socket[s] = p
  <2>1. \A s \in Sockets : socket[s] # Nobody /\ Living(socket[s]) => socket[s] = p
    BY BinderHolds DEF StartStep, EnterService, LookAtSocket, ProbeSocket, CompareSocket,
      UnlinkSocket, BindSocket, ServiceInv, LeaseIsExclusive
  <2> QED
    BY <2>1 DEF StartStep, EnterService, LookAtSocket, ProbeSocket, CompareSocket, UnlinkSocket,
      BindSocket, Onward, Move, Point, ServiceInv, ServiceTypes
<1>2. LeaseInv' /\ LeaseIsExclusive'
  BY <1>1 DEF ServiceInv, leaseVars, LeaseInv, LeaseIsExclusive, LeaseTypeOK, OneMarker,
    ClaimsAreOwned, HoldersAreRecorded, JudgedDead, RecordsAreBorn, RoundsAreLeft
<1>3. ASSUME ~(recovered[p] /\ stage[p] \in Recovering \cup {"lease"})
      PROVE  \A s \in Sockets : socket[s] \in {p, Nobody}
  BY <1>1, <1>3, HolderSeesNoStale
<1>5. ServiceTypes' /\ UnbornIsIdle'
  BY <1>1 DEF StartStep, EnterService, LookAtSocket, ProbeSocket, CompareSocket, UnlinkSocket,
    BindSocket, Onward, Move, Point, ServiceInv, ServiceTypes, Stages, Sockets, Holders,
    UnbornIsIdle, leaseVars
<1>6. StagesAreHeld'
  BY <1>1 DEF StartStep, EnterService, LookAtSocket, ProbeSocket, CompareSocket, UnlinkSocket,
    BindSocket, Onward, Move, Point, ServiceInv, ServiceTypes, StagesAreHeld, leaseVars
<1>7. SocketsFollowStages'
  BY <1>1 DEF StartStep, EnterService, LookAtSocket, ProbeSocket, CompareSocket, UnlinkSocket,
    BindSocket, Onward, Move, Point, ServiceInv, ServiceTypes, Sockets, Holders,
    StagesAreHeld, SocketsFollowStages, leaseVars
<1>8. RecoveredInOrder'
  BY <1>1 DEF StartStep, EnterService, LookAtSocket, ProbeSocket, CompareSocket, UnlinkSocket,
    BindSocket, Onward, Move, Point, ServiceInv, ServiceTypes, Sockets, Holders,
    StagesAreHeld, SocketsFollowStages, RecoveredInOrder, LeaseIsExclusive, leaseVars
<1>9. StaleSocketsAreProvable'
  <2>1. CASE \A s \in Sockets : socket'[s] \in {p, Nobody}
    BY <1>1, <2>1 DEF StaleSocketsAreProvable, leaseVars
  <2>2. CASE /\ stage[p] \in Recovering \cup {"lease"} => stage'[p] \in Recovering \cup {"lease"}
             /\ \A s \in Sockets : socket'[s] \in {socket[s], Nobody}
    <3>1. \A q \in Starters : ProvesDeath(q) => ProvesDeath(q)'
      BY <1>1, <2>2 DEF ProvesDeath, leaseVars
    <3> QED
      BY <1>1, <2>2, <3>1, ProofsSurvive
  <2>3. CASE ~(recovered[p] /\ stage[p] \in Recovering \cup {"lease"})
    <3>1. \A s \in Sockets : socket'[s] \in {p, Nobody}
      BY <1>1, <1>3, <2>3 DEF StartStep, EnterService, LookAtSocket, ProbeSocket, CompareSocket,
        UnlinkSocket, BindSocket, ServiceInv, ServiceTypes, Sockets
    <3> QED
      BY <2>1, <3>1
  <2> QED
    BY <1>1, <2>1, <2>2, <2>3 DEF StartStep, EnterService, LookAtSocket, ProbeSocket,
      CompareSocket, UnlinkSocket, BindSocket, Onward, Move, Point, Answers, ServiceInv,
      ServiceTypes, Sockets, SocketsFollowStages, RecoveredInOrder
<1> QED
  BY <1>2, <1>5, <1>6, <1>7, <1>8, <1>9 DEF ServiceInv

LEMMA StopKeeps ==
  ASSUME ServiceInv, NEW p \in Starters, StopOperator(p) \/ CloseClients(p)
  PROVE  ServiceInv'
<1> USE LeaseAssumption DEF Recovering, Up, Holding, Living
<1>1. /\ UNCHANGED leaseVars
      /\ at[p] = "holding"
      /\ stage[p] \in {"serving", "closing"}
      /\ UNCHANGED <<which, seen>>
  BY DEF StopOperator, CloseClients
<1>2. LeaseInv' /\ LeaseIsExclusive'
  BY <1>1 DEF ServiceInv, leaseVars, LeaseInv, LeaseIsExclusive, LeaseTypeOK, OneMarker,
    ClaimsAreOwned, HoldersAreRecorded, JudgedDead, RecordsAreBorn, RoundsAreLeft
<1>3. \A s \in Sockets : socket[s] \in {p, Nobody}
  BY <1>1, HolderSeesNoStale, BinderHolds DEF ServiceInv, LeaseIsExclusive
<1>4. \A s \in Sockets : socket'[s] \in {p, Nobody}
  BY <1>3 DEF StopOperator, CloseClients, ServiceInv, ServiceTypes
<1>5. StaleSocketsAreProvable'
  BY <1>1, <1>4 DEF StaleSocketsAreProvable, leaseVars
<1>6. ServiceTypes' /\ StagesAreHeld' /\ UnbornIsIdle'
  BY <1>1 DEF StopOperator, CloseClients, Move, ServiceInv, ServiceTypes, Holders, Stages,
    StagesAreHeld, UnbornIsIdle, leaseVars
<1>7. SocketsFollowStages' /\ RecoveredInOrder'
  BY <1>1, <1>3 DEF StopOperator, CloseClients, Move, ServiceInv, ServiceTypes, Stages,
    Sockets, StagesAreHeld, SocketsFollowStages, RecoveredInOrder, LeaseIsExclusive, leaseVars
<1> QED
  BY <1>2, <1>5, <1>6, <1>7 DEF ServiceInv

LEMMA GiveUpKeeps ==
  ASSUME ServiceInv, LeaseInv', NEW p \in Starters, GiveUpLease(p)
  PROVE  ServiceInv'
<1> USE LeaseAssumption DEF Recovering, Holding, Living
<1>1. /\ stage[p] = "leaving"
      /\ at[p] \in {"holding", "check"}
      /\ at' = [at EXCEPT ![p] = at'[p]]
      /\ at'[p] \in {"check", "released"}
      /\ UNCHANGED <<recovered, socket, stage, which, seen>>
  BY DEF GiveUpLease, Release, ClaimOwnLease, RemoveLease, Go, socketVars, ServiceInv,
    LeaseInv, LeaseTypeOK
<1>2. \A s \in Sockets : socket[s] = Nobody
  <2>1. \A s \in Sockets : socket[s] # Nobody => Living(socket[s])
    BY <1>1, HolderSeesNoStale
  <2>2. \A s \in Sockets : socket[s] # p
    BY <1>1 DEF ServiceInv, SocketsFollowStages
  <2>3. \A q \in Starters : Holding(q) => q = p
    BY <1>1 DEF ServiceInv, LeaseInv, HoldersAreRecorded, OneMarker, Files
  <2> QED
    BY <2>1, <2>2, <2>3, BinderHolds
<1>3. ServiceTypes' /\ StagesAreHeld' /\ UnbornIsIdle' /\ SocketsFollowStages'
  BY <1>1, <1>2 DEF ServiceInv, ServiceTypes, StagesAreHeld, UnbornIsIdle, SocketsFollowStages,
    LeaseInv, LeaseTypeOK
<1>4. RecoveredInOrder' /\ StaleSocketsAreProvable'
  BY <1>1, <1>2 DEF ServiceInv, RecoveredInOrder, StaleSocketsAreProvable, LeaseInv, LeaseTypeOK
<1> QED
  BY <1>3, <1>4, Exclusive, PTL DEF ServiceInv

LEMMA EndKeeps ==
  ASSUME ServiceInv, LeaseInv', NEW n \in Pids, ProcessEnds(n)
  PROVE  ServiceInv'
<1> USE LeaseAssumption
<1>1. /\ \A q \in Starters : at'[q] \in {at[q], "dead"} /\ (at[q] = "unborn" => at'[q] = at[q])
      /\ UNCHANGED <<lease, recovered, socket, stage, which, seen>>
  BY DEF ProcessEnds, Die, Stranger, socketVars, Living, ServiceInv, LeaseInv, LeaseTypeOK
<1>2. ServiceTypes' /\ StagesAreHeld' /\ UnbornIsIdle' /\ SocketsFollowStages' /\ RecoveredInOrder'
  BY <1>1 DEF ServiceInv, ServiceTypes, StagesAreHeld, UnbornIsIdle, SocketsFollowStages,
    RecoveredInOrder, Recovering, Holding, Living
<1>3. \A q \in Starters : ProvesDeath(q) => ProvesDeath(q)'
  BY <1>1 DEF ProvesDeath, Living
<1>4. ASSUME NEW s \in Sockets, socket[s] # Nobody, ~Living(socket[s])'
      PROVE  \E f \in Files : lease[f] # Nobody /\ ProvesDeath(lease[f])'
  <2>1. CASE Living(socket[s])
    <3>1. socket[s] \in Starters /\ Holding(socket[s])
      BY <1>4, <2>1, BinderHolds
    <3>2. PICK f \in Files : lease[f] = socket[s]
      BY <3>1 DEF ServiceInv, LeaseIsExclusive
    <3> QED
      BY <1>1, <1>4, <3>1, <3>2 DEF ProvesDeath, Living
  <2>2. CASE ~Living(socket[s])
    <3>1. PICK f \in Files : lease[f] # Nobody /\ ProvesDeath(lease[f])
      BY <1>4, <2>2 DEF ServiceInv, StaleSocketsAreProvable
    <3>2. lease[f] \in Starters
      BY <3>1 DEF ServiceInv, LeaseInv, LeaseTypeOK
    <3>3. ProvesDeath(lease[f])'
      BY <1>1, <1>3, <3>1, <3>2 DEF ProvesDeath, Living
    <3> QED
      BY <3>1, <3>3
  <2> QED
    BY <2>1, <2>2
<1>5. StaleSocketsAreProvable'
  BY <1>1, <1>4 DEF StaleSocketsAreProvable, ProvesDeath, Living
<1> QED
  BY <1>2, <1>5, Exclusive, PTL DEF ServiceInv

LEMMA ServiceStepIsLeaseStep ==
  ASSUME [ServiceNext]_vars
  PROVE  [LeaseNext]_leaseVars
BY DEF ServiceNext, vars, StartLease, StartStep, EnterService, LookAtSocket, ProbeSocket,
  CompareSocket, UnlinkSocket, BindSocket, StopOperator, CloseClients, GiveUpLease,
  ProcessEnds, LeaseNext, leaseVars

(* What the service does with the lease is what an acquirer may do. *)
THEOREM ServiceUsesLease == ServiceSpec => LeaseSpec
BY ServiceStepIsLeaseStep, PTL DEF ServiceSpec, LeaseSpec, ServiceInit

(* At most one live process has the lease, hence the Telegram connections. *)
THEOREM ServiceIsExclusive == ServiceSpec => []LeaseIsExclusive
BY ServiceUsesLease, LeaseExclusive, PTL

(* The invariant of the service, along every step of the processes. *)
THEOREM ServiceInvariant == ServiceSpec => []ServiceInv
<1>1. ASSUME ServiceInv, [ServiceNext]_vars
      PROVE  ServiceInv'
  <2>1. LeaseInv'
    BY <1>1, ServiceStepIsLeaseStep, LeaseStep DEF ServiceInv
  <2>2. CASE ServiceNext
    <3>1. ASSUME NEW p \in Starters,
                 \/ StartLease(p) \/ StartStep(p) \/ StopOperator(p) \/ CloseClients(p)
                 \/ GiveUpLease(p)
          PROVE  ServiceInv'
      BY <1>1, <2>1, <3>1, StartLeaseKeeps, StartStepKeeps, StopKeeps, GiveUpKeeps
    <3>2. ASSUME NEW n \in Pids, ProcessEnds(n)
          PROVE  ServiceInv'
      BY <1>1, <2>1, <3>2, EndKeeps
    <3> QED
      BY <2>2, <3>1, <3>2 DEF ServiceNext
  <2>3. CASE UNCHANGED vars
    BY <1>1, <2>1, <2>3 DEF vars, leaseVars, socketVars, ServiceInv, LeaseIsExclusive, Holding,
      Living, ServiceTypes, StagesAreHeld, UnbornIsIdle, SocketsFollowStages, RecoveredInOrder,
      StaleSocketsAreProvable, ProvesDeath
  <2> QED
    BY <1>1, <2>2, <2>3
<1> QED
  BY <1>1, ServiceInitial, PTL DEF ServiceSpec

(* Every variable of the start keeps its range. *)
THEOREM ServiceTyped == ServiceSpec => []ServiceTypeOK
<1>1. ServiceInv => ServiceTypeOK
  BY DEF ServiceInv, LeaseInv, ServiceTypes, ServiceTypeOK
<1> QED
  BY <1>1, ServiceInvariant, PTL

(* No crash, of the owner or of whoever recovers from its death, leaves a  *)
(* socket that the next owner has no right to remove.                      *)
THEOREM StaleSocketsStayProvable == ServiceSpec => []StaleSocketsAreProvable
<1>1. ServiceInv => StaleSocketsAreProvable
  BY DEF ServiceInv
<1> QED
  BY <1>1, ServiceInvariant, PTL

(* A serving process has both sockets, whatever other starters do. *)
THEOREM ServiceStaysReachable == ServiceSpec => []ServiceIsReachable
<1>1. ServiceInv => ServiceIsReachable
  BY DEF ServiceInv, SocketsFollowStages, ServiceIsReachable, Up, Holding, Living
<1> QED
  BY <1>1, ServiceInvariant, PTL
=============================================================================
