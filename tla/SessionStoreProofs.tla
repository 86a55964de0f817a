------------------------- MODULE SessionStoreProofs -------------------------
(***************************************************************************)
(* The safety properties of SessionStore, for any number of accounts, PINs *)
(* and recovery keyfiles.  They rest on what a sweep has done so far: the  *)
(* blobs it is past carry the new secret alone unless one of them failed,  *)
(* and nothing else writes a blob until the sweep has ended.               *)
(***************************************************************************)
EXTENDS SessionStore, TLAPS

PinChange == {"pin.set", "pin.change", "pin.remove"}

(* What a sweep writes is retained, and what it has passed is complete. *)
SweepInv ==
  change.op # "none" =>
    /\ unlocked
    /\ change.current \in kept
    /\ change.new \subseteq kept \cup Keyfiles
    /\ change.new \cap kept # {}
    /\ change.op \in PinChange =>
         /\ \E s \in change.new : change.new = {s}
         /\ ~change.failed =>
              \A b \in Blobs \ change.todo : slots[b] # {} => slots[b] = change.new

(* A daemon whose operators need no authentication is open, and an open *)
(* one works with a retained secret.                                    *)
ActiveInv ==
  /\ kept # {}
  /\ up /\ unlocked => active \in kept
  /\ up /\ posture # "hardened" => unlocked
  /\ trusted => unlocked

(* Only the retained secrets and recovery keyfiles open a blob once a *)
(* single one is retained.                                            *)
SlotsInv ==
  \A c \in Secrets : kept = {c} => \A b \in Blobs : slots[b] \subseteq {c} \cup Keyfiles

(* While nothing is acknowledged the machine may open what is there, and *)
(* after a change to a given secret the daemon knows that it is given.   *)
PostureInv ==
  /\ up /\ posture = "none" /\ Present # {} => MachineId \in kept
  /\ \A c \in Given : kept = {c} /\ up =>
       /\ posture # "smooth"
       /\ unlocked => sourceKind = "given"

StoreInv ==
  /\ StoreTypeOK
  /\ RetainedCredentialsOpen
  /\ SweepInv
  /\ ActiveInv
  /\ SlotsInv
  /\ PostureInv

-----------------------------------------------------------------------------

LEMMA StoreInitial == StoreInit => StoreInv
<1> SUFFICES ASSUME StoreInit PROVE StoreInv
  OBVIOUS
<1> USE StoreAssumption DEF StoreInit
<1>1. StoreTypeOK
  BY DEF StoreTypeOK, Changes, Idle, Secrets
<1>2. RetainedCredentialsOpen /\ SlotsInv
  BY DEF RetainedCredentialsOpen, SlotsInv
<1>3. SweepInv
  BY DEF SweepInv, Idle
<1>4. ActiveInv /\ PostureInv
  BY DEF ActiveInv, PostureInv
<1> QED
  BY <1>1, <1>2, <1>3, <1>4 DEF StoreInv

(* Every step keeps the types. *)
LEMMA StoreStepTyped ==
  ASSUME StoreTypeOK, [StoreNext]_storeVars
  PROVE  StoreTypeOK'
<1> USE StoreAssumption DEF StoreTypeOK, Blobs, Secrets, Given, AtHand
<1>1. CASE UNCHANGED storeVars
  BY <1>1 DEF storeVars, daemonVars
<1>2. ASSUME NEW s \in AtHand \cup {MachineId}, Boot(s)
      PROVE  StoreTypeOK'
  BY <1>2 DEF Boot, KindOf
<1>3. CASE Stop
  BY <1>3 DEF Stop, Changes, Idle
<1>4. CASE Disconnect
  BY <1>4 DEF Disconnect
<1>5. ASSUME NEW s \in AtHand, Authenticate(s)
      PROVE  StoreTypeOK'
  BY <1>5 DEF Authenticate
<1>6. CASE ApplyPolicy
  BY <1>6 DEF ApplyPolicy, Admitted, Persisted, Undecided
<1>7. ASSUME NEW r \in Refs, NEW s \in AtHand \cup {MachineId}, CommitLogin(r, s)
      PROVE  StoreTypeOK'
  BY <1>7 DEF CommitLogin, Admitted, Persisted, Undecided, PostureOf, KindOf
<1>8. ASSUME NEW r \in Refs, RemoveAccount(r)
      PROVE  StoreTypeOK'
  BY <1>8 DEF RemoveAccount, Admitted, daemonVars
<1>9. ASSUME NEW op \in PinChange \cup {"recovery.export"}, NEW c \in Secrets,
             NEW new \in SUBSET Secrets, StartSweep(op, c, new), keyfiles' \subseteq Keyfiles
      PROVE  StoreTypeOK'
  BY <1>9 DEF StartSweep, Admitted, daemonVars, Changes, Targets, Present, PinChange
<1>10. ASSUME NEW b \in Blobs, ResealBlob(b)
       PROVE  StoreTypeOK'
  <2>1. change.todo \ {b} \in SUBSET Blobs
    BY DEF Changes
  <2>2. PICK ok \in BOOLEAN : change' = [change EXCEPT !.todo = @ \ {b}, !.failed = @ \/ ~ok]
    BY <1>10 DEF ResealBlob
  <2>3. change' \in Changes /\ change'.op = change.op /\ change.op # "none"
    <3>1. (change.failed \/ ~ok) \in BOOLEAN
      OBVIOUS
    <3>2. change' = [change EXCEPT !.todo = change.todo \ {b}, !.failed = (change.failed \/ ~ok)]
      BY <2>2, Zenon
    <3>3. change.op # "none"
      BY <1>10 DEF ResealBlob, Idle
    <3> HIDE DEF Secrets, Blobs
    <3>4. change \in Changes
      OBVIOUS
    <3> QED
      BY <2>1, <3>1, <3>2, <3>3, <3>4 DEF Changes
  <2>4. slots' \in [Blobs -> SUBSET Secrets]
    BY <1>10 DEF ResealBlob, Persisted, Changes
  <2> QED
    BY <1>10, <2>3, <2>4 DEF ResealBlob, daemonVars
<1>11. CASE FinishFailed
  BY <1>11 DEF FinishFailed, daemonVars, Changes, Idle
<1>12. CASE AcknowledgeChange
  BY <1>12 DEF AcknowledgeChange, Changes, Idle, PostureOf, KindOf
<1>13. CASE AcknowledgeExport
  BY <1>13 DEF AcknowledgeExport, daemonVars, Changes, Idle
<1>14. CASE Request
  <2>1. CASE \E p \in Pins : SetPin(p)
    BY <1>9, <2>1 DEF SetPin, PinChange
  <2>2. CASE \E c \in AtHand, p \in Pins : ChangePin(c, p)
    BY <1>9, <2>2 DEF ChangePin, PinChange
  <2>3. CASE \E c \in AtHand : RemovePin(c)
    BY <1>9, <2>3 DEF RemovePin, PinChange
  <2>4. CASE \E c \in AtHand, k \in Keyfiles : ExportRecovery(c, k)
    BY <1>9, <2>4 DEF ExportRecovery, PinChange
  <2> QED
    BY <1>5, <1>6, <1>7, <1>8, <1>14, <2>1, <2>2, <2>3, <2>4 DEF Request
<1> QED
  BY <1>1, <1>2, <1>3, <1>4, <1>10, <1>11, <1>12, <1>13, <1>14 DEF StoreNext, Sweep

(* The steps other than those of a sweep. *)
LEMMA StepOutsideSweep ==
  ASSUME StoreInv, StoreTypeOK',
         \/ \E s \in AtHand \cup {MachineId} : Boot(s)
         \/ Stop
         \/ Disconnect
         \/ \E s \in AtHand : Authenticate(s)
         \/ ApplyPolicy
         \/ \E r \in Refs, s \in AtHand \cup {MachineId} : CommitLogin(r, s)
         \/ \E r \in Refs : RemoveAccount(r)
  PROVE  StoreInv'
<1> USE StoreAssumption DEF StoreInv, StoreTypeOK, RetainedCredentialsOpen, SweepInv, ActiveInv,
          SlotsInv, PostureInv, Blobs, Secrets, Given, AtHand, Present
<1>1. ASSUME NEW s \in AtHand \cup {MachineId}, Boot(s)
      PROVE  StoreInv'
  <2>1. up' /\ ~trusted' /\ sourceKind' = KindOf(s) /\ active' = s
          /\ kept' = (IF unlocked' THEN kept \cup {s} ELSE kept)
          /\ UNCHANGED <<slots, keyfiles, change>> /\ change.op = "none"
    BY <1>1 DEF Boot
  <2>2. unlocked' \/ posture' = "hardened"
    BY <1>1 DEF Boot
  <2>3. posture' = "none" => Present = {}
    BY <1>1 DEF Boot
  <2>4. posture' = "smooth" => \E b \in Blobs : MachineId \in slots[b]
    BY <1>1 DEF Boot, Representatives
  <2>5. ActiveInv'
    BY <2>1, <2>2
  <2>6. PostureInv'
    <3>1. ASSUME NEW c \in Given, kept' = {c}
          PROVE  posture' # "smooth" /\ (unlocked' => sourceKind' = "given")
      <4>1. kept = {c} /\ (unlocked' => s = c)
        BY <2>1, <3>1
      <4> QED
        BY <2>1, <2>4, <4>1 DEF KindOf
    <3> QED
      BY <2>1, <2>3, <3>1
  <2>7. RetainedCredentialsOpen' /\ SweepInv' /\ SlotsInv'
    BY <2>1
  <2> QED
    BY <2>5, <2>6, <2>7
<1>2. CASE Stop
  BY <1>2 DEF Stop, Idle
<1>3. CASE Disconnect
  BY <1>3 DEF Disconnect
<1>4. ASSUME NEW s \in AtHand, Authenticate(s)
      PROVE  StoreInv'
  BY <1>4 DEF Authenticate
<1>5. CASE ApplyPolicy
  BY <1>5 DEF ApplyPolicy, Admitted, Persisted, Undecided
<1>6. ASSUME NEW r \in Refs, NEW s \in AtHand \cup {MachineId}, CommitLogin(r, s)
      PROVE  StoreInv'
  BY <1>6 DEF CommitLogin, Admitted, Persisted, Undecided, PostureOf, KindOf, Offered
<1>7. ASSUME NEW r \in Refs, RemoveAccount(r)
      PROVE  StoreInv'
  BY <1>7 DEF RemoveAccount, Admitted, daemonVars
<1> QED
  BY <1>1, <1>2, <1>3, <1>4, <1>5, <1>6, <1>7

(* The start of a sweep. *)
LEMMA SweepStarts ==
  ASSUME StoreInv, StoreTypeOK', NEW op, NEW c \in Secrets, NEW new \in SUBSET Secrets,
         StartSweep(op, c, new), \E s \in new : s \notin Keyfiles \/ s = c,
         op \in PinChange => \E s \in new : new = {s}
  PROVE  StoreInv'
BY StoreAssumption DEF StartSweep, Admitted, daemonVars, Targets, StoreInv, StoreTypeOK,
  RetainedCredentialsOpen, SweepInv, ActiveInv, SlotsInv, PostureInv, Secrets, Given, Present

LEMMA RequestedSweep ==
  ASSUME StoreInv, StoreTypeOK',
         \/ \E p \in Pins : SetPin(p)
         \/ \E c \in AtHand, p \in Pins : ChangePin(c, p)
         \/ \E c \in AtHand : RemovePin(c)
         \/ \E c \in AtHand, k \in Keyfiles : ExportRecovery(c, k)
  PROVE  StoreInv'
<1>1. Pins \subseteq Secrets \ Keyfiles /\ MachineId \in Secrets \ Keyfiles
        /\ AtHand \subseteq Secrets /\ Keyfiles \subseteq Secrets
  BY StoreAssumption DEF StoreInv, StoreTypeOK, Secrets, Given, AtHand
<1>2. ASSUME NEW op, NEW c \in Secrets, NEW s \in Secrets \ Keyfiles, StartSweep(op, c, {s})
      PROVE  StoreInv'
  BY <1>2, SweepStarts
<1>3. CASE \E p \in Pins : SetPin(p)
  BY <1>1, <1>2, <1>3 DEF SetPin
<1>4. CASE \E c \in AtHand, p \in Pins : ChangePin(c, p)
  BY <1>1, <1>2, <1>4 DEF ChangePin
<1>5. CASE \E c \in AtHand : RemovePin(c)
  BY <1>1, <1>2, <1>5 DEF RemovePin
<1>6. ASSUME NEW c \in AtHand, NEW k \in Keyfiles, ExportRecovery(c, k)
      PROVE  StoreInv'
  <2>1. {c, k} \in SUBSET Secrets /\ "recovery.export" \notin PinChange
    BY <1>1 DEF PinChange
  <2> QED
    BY <1>1, <1>6, <2>1, SweepStarts DEF ExportRecovery
<1> QED
  BY <1>3, <1>4, <1>5, <1>6

(* The steps of a sweep and its answer. *)
LEMMA StepOfSweep ==
  ASSUME StoreInv, StoreTypeOK', Sweep
  PROVE  StoreInv'
<1> USE StoreAssumption DEF StoreInv, StoreTypeOK, RetainedCredentialsOpen, SweepInv, ActiveInv,
          SlotsInv, PostureInv, Blobs, Secrets, Given, AtHand, Present
<1>1. ASSUME NEW b \in Blobs, ResealBlob(b)
      PROVE  StoreInv'
  <2>1. change.op # "none" /\ change'.op = change.op /\ change'.current = change.current
          /\ change'.new = change.new /\ change'.todo = change.todo \ {b}
          /\ UNCHANGED <<keyfiles, daemonVars, kept>>
    BY <1>1 DEF ResealBlob, Changes, Idle
  <2>2. \/ slots' = [slots EXCEPT ![b] = change.new] /\ change.current \in slots[b]
        \/ slots' = slots /\ change'.failed
    <3>1. PICK ok \in BOOLEAN :
            /\ IF change.current \in slots[b]
                 THEN Persisted(b, change.new, ok)
                 ELSE ~ok /\ UNCHANGED slots
            /\ change' = [change EXCEPT !.todo = @ \ {b}, !.failed = @ \/ ~ok]
      BY <1>1 DEF ResealBlob
    <3>2. CASE ok
      BY <3>1, <3>2 DEF Persisted
    <3>3. CASE ~ok
      <4>1. change'.failed
        BY <3>1, <3>3 DEF Changes
      <4> QED
        BY <3>1, <4>1 DEF Persisted
    <3> QED
      BY <3>2, <3>3
  <2>3. change.failed => change'.failed
    BY <1>1 DEF ResealBlob, Changes
  <2>4. RetainedCredentialsOpen'
    BY <2>1, <2>2
  <2>5. SweepInv'
    BY <2>1, <2>2, <2>3 DEF daemonVars
  <2>6. SlotsInv'
    BY <2>1, <2>2
  <2>7. ActiveInv' /\ PostureInv'
    <3>1. Present' \subseteq Present
      BY <2>2
    <3> QED
      BY <2>1, <3>1 DEF daemonVars
  <2> QED
    BY <2>4, <2>5, <2>6, <2>7
<1>2. CASE FinishFailed
  BY <1>2 DEF FinishFailed, daemonVars, Idle
<1>3. CASE AcknowledgeChange
  BY <1>3 DEF AcknowledgeChange, PostureOf, KindOf, PinChange, Idle
<1>4. CASE AcknowledgeExport
  BY <1>4 DEF AcknowledgeExport, daemonVars, Idle
<1> QED
  BY <1>1, <1>2, <1>3, <1>4 DEF Sweep

(* The inductive invariant of the store. *)
THEOREM StoreInvariant == StoreSpec => []StoreInv
<1>1. ASSUME StoreInv, [StoreNext]_storeVars
      PROVE  StoreInv'
  <2>1. StoreTypeOK'
    BY <1>1, StoreStepTyped DEF StoreInv
  <2>2. CASE UNCHANGED storeVars
    BY <1>1, <2>2 DEF storeVars, daemonVars, StoreInv, StoreTypeOK, RetainedCredentialsOpen,
      SweepInv, ActiveInv, SlotsInv, PostureInv, Present
  <2>3. CASE StoreNext
    BY <1>1, <2>1, <2>3, StepOutsideSweep, RequestedSweep, StepOfSweep
      DEF StoreNext, Request
  <2> QED
    BY <1>1, <2>2, <2>3
<1> QED
  BY <1>1, StoreInitial, PTL DEF StoreSpec

-----------------------------------------------------------------------------

(* The daemon, the sweep and the blobs stay within their types. *)
THEOREM StoreTyped == StoreSpec => []StoreTypeOK
BY StoreInvariant, PTL DEF StoreInv

(* Wherever sweeps failed or the process stopped, the credentials to be *)
(* retained open every blob.                                            *)
THEOREM RetainedCredentialsSuffice == StoreSpec => []RetainedCredentialsOpen
BY StoreInvariant, PTL DEF StoreInv

(* An acknowledged change left no blob behind: the new secret opens all of *)
(* them, an earlier PIN or the machine none.                               *)
THEOREM ChangesComplete == StoreSpec => []ChangeIsComplete
<1>1. StoreInv => ChangeIsComplete
  BY DEF StoreInv, RetainedCredentialsOpen, ActiveInv, SlotsInv, ChangeIsComplete
<1> QED
  BY <1>1, StoreInvariant, PTL

(* A store changed to a given secret is hardened for every later daemon. *)
THEOREM HardeningHolds == StoreSpec => []AuthenticationIsRequired
<1>1. StoreInv => AuthenticationIsRequired
  BY StoreAssumption DEF StoreInv, StoreTypeOK, PostureInv, AuthenticationIsRequired, Given
<1> QED
  BY <1>1, StoreInvariant, PTL
=============================================================================
