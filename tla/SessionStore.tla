---------------------------- MODULE SessionStore ----------------------------
(***************************************************************************)
(* The encrypted blobs of src/infrastructure/session, one per account and  *)
(* one for the policy, with the operator handlers of                       *)
(* src/presentation/mcp/daemon.ts that write them: logins, policies, PIN   *)
(* changes and recovery exports.  A PIN change is a sweep over all blobs   *)
(* that may fail at one of them, or stop between two.                      *)
(*                                                                         *)
(* A slot is the secret that unwraps it; its kind follows from the secret. *)
(* Opening fails exactly when no slot has the secret of the source.        *)
(* Operations that read or write blobs are serialized by the operator      *)
(* server, so only the sweeps need more than one step.                     *)
(***************************************************************************)
EXTENDS Naturals

CONSTANTS
  Refs,       \* accounts
  Policy,     \* the blob of the policy
  Pins,       \* passphrases
  Keyfiles,   \* recovery secrets, each random and minted once
  MachineId   \* the secret of the host

Blobs == Refs \cup {Policy}

Given == Pins \cup Keyfiles

Secrets == Given \cup {MachineId}

ASSUME StoreAssumption ==
  /\ Policy \notin Refs
  /\ MachineId \notin Given
  /\ Pins \cap Keyfiles = {}

VARIABLES
  slots,      \* slots[b]: the secrets that open blob b, {} without a file
  keyfiles,   \* recovery keyfiles on disk
  up,         \* a daemon runs
  active,     \* keySource of its store
  posture,    \* operatorPosture
  sourceKind, \* activeSourceKind
  unlocked,   \* SessionGate.isUnlocked()
  trusted,    \* an operator connection is authenticated
  change,     \* the sweep under way
  kept        \* credentials to retain until a change of them is acknowledged

daemonVars == <<up, active, posture, sourceKind, unlocked, trusted>>
storeVars == <<slots, keyfiles, daemonVars, change, kept>>

Idle == [op |-> "none", current |-> MachineId, new |-> {}, todo |-> {}, failed |-> FALSE]

Changes == [op : {"none", "pin.set", "pin.change", "pin.remove", "recovery.export"},
            current : Secrets, new : SUBSET Secrets, todo : SUBSET Blobs, failed : BOOLEAN]

StoreTypeOK ==
  /\ slots \in [Blobs -> SUBSET Secrets]
  /\ keyfiles \subseteq Keyfiles
  /\ up \in BOOLEAN
  /\ active \in Secrets
  /\ posture \in {"none", "smooth", "hardened"}
  /\ sourceKind \in {"machine", "given"}
  /\ unlocked \in BOOLEAN
  /\ trusted \in BOOLEAN
  /\ change \in Changes
  /\ change.op = "none" => change = Idle
  /\ change.op # "none" => up
  /\ kept \subseteq Secrets

StoreInit ==
  /\ slots = [b \in Blobs |-> {}]
  /\ keyfiles = {}
  /\ up = FALSE
  /\ active = MachineId
  /\ posture = "none"
  /\ sourceKind = "machine"
  /\ unlocked = FALSE
  /\ trusted = FALSE
  /\ change = Idle
  /\ kept = {MachineId}

KindOf(s) == IF s = MachineId THEN "machine" ELSE "given"

PostureOf(s) == IF s = MachineId THEN "smooth" ELSE "hardened"

Present == {b \in Blobs : slots[b] # {}}

(* representativeEnvelope(): the policy, or the first account in the order *)
(* of the directory.                                                       *)
Representatives == IF slots[Policy] # {} THEN {Policy} ELSE Present

(* atomicWrite(): a failure may come after the rename, at the sync of the  *)
(* directory; then the blob is replaced although the write reports failure. *)
Persisted(b, secrets, ok) ==
  \/ slots' = [slots EXCEPT ![b] = secrets]
  \/ ~ok /\ UNCHANGED slots

(* A first write that reports failure may have decided the posture of the  *)
(* store behind the back of the daemon: the next login is still offered    *)
(* the machine, and the daemon believes the choice.                        *)
Undecided(ok) == IF ok \/ posture # "none" THEN kept ELSE kept \cup {MachineId}

(* The operator server admits the operation. *)
Admitted ==
  /\ up
  /\ change.op = "none"
  /\ posture = "hardened" => trusted

-----------------------------------------------------------------------------

(* startDaemon() with the key source of its environment.  A hardened store *)
(* without a given source comes up locked; else the policy has to open.    *)
Boot(s) ==
  /\ ~up
  /\ \/ Present = {} /\ posture' = "none"
     \/ \E b \in Representatives :
          posture' = IF MachineId \in slots[b] THEN "smooth" ELSE "hardened"
  /\ unlocked' = ~(posture' = "hardened" /\ s = MachineId)
  /\ unlocked' /\ slots[Policy] # {} => s \in slots[Policy]
  /\ up' = TRUE
  /\ active' = s
  /\ sourceKind' = KindOf(s)
  /\ trusted' = FALSE
  /\ kept' = IF unlocked' THEN kept \cup {s} ELSE kept
  /\ UNCHANGED <<slots, keyfiles, change>>

(* Exit or crash, between any two writes: the memory is gone. *)
Stop ==
  /\ up
  /\ up' = FALSE
  /\ active' = MachineId
  /\ posture' = "none"
  /\ sourceKind' = "machine"
  /\ unlocked' = FALSE
  /\ trusted' = FALSE
  /\ change' = Idle
  /\ UNCHANGED <<slots, keyfiles, kept>>

Disconnect ==
  /\ trusted
  /\ change.op = "none"
  /\ trusted' = FALSE
  /\ UNCHANGED <<slots, keyfiles, up, active, posture, sourceKind, unlocked, change, kept>>

(* authenticate, with a source that opens the representative blob.  While  *)
(* the daemon is locked it becomes the active one; until then it was set   *)
(* tentatively, and a source that fails is replaced by the machine again.  *)
Authenticate(s) ==
  /\ up
  /\ change.op = "none"
  /\ Present = {} \/ \E b \in Representatives : s \in slots[b]
  /\ trusted' = TRUE
  /\ IF unlocked
       THEN UNCHANGED <<active, sourceKind, unlocked, kept>>
       ELSE /\ active' = s
            /\ sourceKind' = "given"
            /\ unlocked' = TRUE
            /\ kept' = kept \cup {s}
  /\ UNCHANGED <<slots, keyfiles, up, posture, change>>

(* applyPolicy, savePolicy(): a blob that exists keeps its slots, and is   *)
(* not written unless the active source opens it.                          *)
ApplyPolicy ==
  /\ Admitted
  /\ unlocked
  /\ \E ok \in BOOLEAN :
       /\ IF slots[Policy] = {}
            THEN Persisted(Policy, {active}, ok)
            ELSE (ok => active \in slots[Policy]) /\ UNCHANGED slots
       /\ IF ok /\ posture = "none"
            THEN /\ posture' = IF sourceKind = "machine" THEN "smooth" ELSE "hardened"
                 /\ trusted' = (trusted \/ posture' = "hardened")
            ELSE UNCHANGED <<posture, trusted>>
       /\ kept' = Undecided(ok)
  /\ UNCHANGED <<keyfiles, up, active, sourceKind, unlocked, change>>

(* The operator chooses with the first login, and has no choice afterwards. *)
Offered ==
  CASE posture = "none"     -> Pins \cup {MachineId}
    [] posture = "smooth"   -> {MachineId}
    [] posture = "hardened" -> Given

(* commitLogin, OperatorLoginSessions.commit(), save(): the first blob is  *)
(* sealed under the source of the request, any other under the active one. *)
(* A first write that fails leaves the machine as the active source.       *)
CommitLogin(r, s) ==
  LET first == Present = {} IN
  /\ Admitted
  /\ s \in Offered
  /\ \E ok \in BOOLEAN :
       /\ Persisted(r, {IF first THEN s ELSE active}, ok)
       /\ active' = IF ~first THEN active ELSE IF ok THEN s ELSE MachineId
       /\ kept' = IF ~first THEN Undecided(ok) ELSE Undecided(ok) \cup {s, active'}
       /\ IF ok /\ posture = "none"
            THEN /\ posture' = PostureOf(s)
                 /\ sourceKind' = KindOf(s)
                 /\ trusted' = (trusted \/ posture' = "hardened")
            ELSE UNCHANGED <<posture, sourceKind, trusted>>
  /\ UNCHANGED <<keyfiles, up, unlocked, change>>

RemoveAccount(r) ==
  /\ Admitted
  /\ slots' = [slots EXCEPT ![r] = {}]
  /\ UNCHANGED <<keyfiles, daemonVars, change, kept>>

-----------------------------------------------------------------------------
(* resealAll(): every blob is opened with the current source and sealed    *)
(* anew.                                                                   *)

TargetsWithoutPolicy == Present \ {Policy}

(* The accounts listed at the start, and the policy. *)
Targets == Present

StartSweep(op, current, new) ==
  /\ Admitted
  /\ change' = [op |-> op, current |-> current, new |-> new, todo |-> Targets, failed |-> FALSE]
  /\ kept' = kept \cup {current} \cup (new \ Keyfiles)
  /\ UNCHANGED <<slots, daemonVars>>

SetPin(pin) == StartSweep("pin.set", MachineId, {pin}) /\ UNCHANGED keyfiles

ChangePin(current, pin) == StartSweep("pin.change", current, {pin}) /\ UNCHANGED keyfiles

RemovePin(current) == StartSweep("pin.remove", current, {MachineId}) /\ UNCHANGED keyfiles

(* emitRecoveryKeyfile(): the keyfile is created first. *)
ExportRecovery(current, k) ==
  /\ k \notin keyfiles
  /\ \A b \in Blobs : k \notin slots[b]
  /\ k # current
  /\ keyfiles' = keyfiles \cup {k}
  /\ StartSweep("recovery.export", current, {current, k})

(* resealEnvelope(): a blob that does not open or is not written stays as  *)
(* it is, and the sweep goes on; the policy comes last.                    *)
ResealBlob(b) ==
  /\ b \in change.todo
  /\ b = Policy => change.todo = {Policy}
  /\ \E ok \in BOOLEAN :
       /\ IF change.current \in slots[b]
            THEN Persisted(b, change.new, ok)
            ELSE ~ok /\ UNCHANGED slots
       /\ change' = [change EXCEPT !.todo = @ \ {b}, !.failed = @ \/ ~ok]
  /\ UNCHANGED <<keyfiles, daemonVars, kept>>

FinishKeepingSecrets ==
  /\ change.op # "none"
  /\ change.todo = {}
  /\ change.failed
  /\ change' = [change EXCEPT !.op = "none"]
  /\ UNCHANGED <<slots, keyfiles, daemonVars, kept>>

(* The first error is the answer and nothing in memory changes; a recovery *)
(* keyfile is removed, if that succeeds.                                   *)
FinishFailed ==
  /\ change.op # "none"
  /\ change.todo = {}
  /\ change.failed
  /\ \/ UNCHANGED keyfiles
     \/ /\ change.op = "recovery.export"
        /\ keyfiles' = keyfiles \ change.new
  /\ change' = Idle
  /\ UNCHANGED <<slots, daemonVars, kept>>

AcknowledgePartialSweep ==
  /\ change.op \in {"pin.set", "pin.change", "pin.remove"}
  /\ change.todo = {}
  /\ \E s \in change.new :
       /\ active' = s
       /\ posture' = PostureOf(s)
       /\ sourceKind' = KindOf(s)
       /\ kept' = {s}
  /\ trusted' = TRUE
  /\ change' = Idle
  /\ UNCHANGED <<slots, keyfiles, up, unlocked>>

AcknowledgeKeepingPosture ==
  /\ change.op \in {"pin.set", "pin.change", "pin.remove"}
  /\ change.todo = {}
  /\ ~change.failed
  /\ \E s \in change.new :
       /\ active' = s
       /\ sourceKind' = KindOf(s)
       /\ kept' = {s}
  /\ change' = Idle
  /\ UNCHANGED <<slots, keyfiles, up, posture, unlocked, trusted>>

(* setPin, changePin, removePin after the sweep: the new source is the     *)
(* active one, and only the connection that changed it stays authenticated. *)
AcknowledgeChange ==
  /\ change.op \in {"pin.set", "pin.change", "pin.remove"}
  /\ change.todo = {}
  /\ ~change.failed
  /\ \E s \in change.new :
       /\ active' = s
       /\ posture' = PostureOf(s)
       /\ sourceKind' = KindOf(s)
       /\ kept' = {s}
  /\ trusted' = TRUE
  /\ change' = Idle
  /\ UNCHANGED <<slots, keyfiles, up, unlocked>>

AcknowledgeExport ==
  /\ change.op = "recovery.export"
  /\ change.todo = {}
  /\ ~change.failed
  /\ change' = Idle
  /\ UNCHANGED <<slots, keyfiles, daemonVars, kept>>

-----------------------------------------------------------------------------

(* The sources an operator can present. *)
AtHand == Pins \cup keyfiles

Request ==
  \/ \E s \in AtHand : Authenticate(s)
  \/ ApplyPolicy
  \/ \E r \in Refs, s \in AtHand \cup {MachineId} : CommitLogin(r, s)
  \/ \E r \in Refs : RemoveAccount(r)
  \/ \E p \in Pins : SetPin(p)
  \/ \E c \in AtHand, p \in Pins : ChangePin(c, p)
  \/ \E c \in AtHand : RemovePin(c)
  \/ \E c \in AtHand, k \in Keyfiles : ExportRecovery(c, k)

Sweep ==
  \/ \E b \in Blobs : ResealBlob(b)
  \/ FinishFailed
  \/ AcknowledgeChange
  \/ AcknowledgeExport

StoreNext ==
  \/ \E s \in AtHand \cup {MachineId} : Boot(s)
  \/ Stop
  \/ Disconnect
  \/ Request
  \/ Sweep

StoreSpec == StoreInit /\ [][StoreNext]_storeVars

-----------------------------------------------------------------------------
(* Properties. *)

(* SECURITY.md: a change is not one transaction, and both credentials are  *)
(* to be retained until it is done.  With the retained ones every blob     *)
(* opens, wherever sweeps failed or the process stopped.                   *)
RetainedCredentialsOpen ==
  \A b \in Blobs : slots[b] # {} => slots[b] \cap kept # {}

(* Once a change is acknowledged, one credential is left: every blob opens *)
(* with it, none with an earlier PIN or with the machine, and the daemon   *)
(* works with it.                                                          *)
ChangeIsComplete ==
  \A c \in Secrets : kept = {c} =>
    /\ \A b \in Blobs : slots[b] # {} => c \in slots[b] /\ slots[b] \subseteq {c} \cup Keyfiles
    /\ up /\ unlocked => active = c

(* And if that credential is not the machine's, no daemon admits operators *)
(* without it to a store that holds anything, although the posture is read *)
(* from disk only at its start and follows the acknowledged writes then.   *)
AuthenticationIsRequired ==
  \A c \in Given : kept = {c} /\ up /\ Present # {} => posture = "hardened"

(* SessionSecurityAdmin in application/ports/session.ts: "Export a recovery *)
(* keyfile and add its slot".                                              *)
ExportAddsASlot ==
  [][change.op = "recovery.export" /\ posture = "hardened" =>
       \A b \in Blobs : slots[b] \subseteq slots'[b]]_storeVars
=============================================================================
