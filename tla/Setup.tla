-------------------------------- MODULE Setup --------------------------------
(***************************************************************************)
(* The setup program: its menus, the editor of endpoints with the access   *)
(* picker, saving and applying the policy, login, logout and PIN changes,  *)
(* one step per answer of the human or of the daemon.                      *)
(*                                                                         *)
(* An endpoint is [name, session, access, key, token]: its key is a number *)
(* and token says that this run of the program still has its plaintext.    *)
(* A document is a sequence of endpoints without plaintext.                *)
(***************************************************************************)
EXTENDS AccessPicker, SequencesExt

CONSTANTS
  Refs,      \* names of sessions
  Main,      \* DEFAULT_SESSION_REF
  Names,     \* names of endpoints
  Pins,      \* PINs the operator may choose
  Scenes,    \* initial states: file, enforced, accounts, secret, configured, and the bounds
  NoRef, NoSource, Machine,
  Broken     \* a file that cannot be read, parsed or validated

(* What the schema lets through: a document without plaintext keys.        *)
IsAccess(access) ==
  /\ DOMAIN access = DOMAIN NoAccess
  /\ \A ref \in access.chats : IsReference(ref)
  /\ \A i \in DOMAIN access.overrides : IsReference(access.overrides[i].ref)

IsEndpoint(endpoint) ==
  DOMAIN endpoint = {"name", "session", "access", "key", "token"} /\ IsAccess(endpoint.access)

IsDocument(document) ==
  /\ document \in Seq(ToSet(document))
  /\ \A i \in DOMAIN document : IsEndpoint(document[i]) /\ document[i].token = FALSE

(* A saved session is sealed under something. *)
ASSUME SetupAssumption ==
  /\ NoRef \notin Refs /\ Machine \notin Pins /\ NoSource \notin Pins \cup {Machine}
  /\ \A s \in Scenes :
       /\ IsDocument(s.enforced) /\ (s.file = Broken \/ IsDocument(s.file))
       /\ s.accounts \subseteq Refs /\ s.secret \in Pins \cup {Machine, NoSource}
       /\ s.secret = NoSource => s.accounts = {}

VARIABLES
  file,      \* config.json
  enforced,  \* the document the daemon enforces
  accounts,  \* the sessions it has saved
  secret,    \* what the daemon seals under: NoSource before the first, the machine or a PIN
  opener,    \* what opens the blob it verifies a credential with: the same, unless a sweep failed
  ui,        \* the program
  minted,    \* keys made so far
  scene,     \* the scene and the orphans it started with
  turns, faults, strokes  \* bounds: choices, failures and keys in the picker still to come

world == <<file, enforced, accounts, secret, opener, minted, scene>>
setupVars == <<world, ui, pick, turns, faults, strokes>>

-----------------------------------------------------------------------------
Hardened == secret \in Pins

(* The machine is not asked for: a hardened daemon refuses what follows.   *)
Accepts(source) == opener = NoSource \/ (IF source = Machine THEN ~Hardened ELSE source = opener)

(* The configured credential is tried, and without one the PIN asked for.  *)
CanUnlock ==
  \/ Accepts(scene.configured)
  \/ Hardened /\ scene.configured = Machine /\ opener \in Pins

Doc(draft) == [i \in DOMAIN draft |-> [draft[i] EXCEPT !.token = FALSE]]

Sessions(draft) == {draft[i].session : i \in DOMAIN draft}

(* Sessions that the documents of a scene name and the daemon does not have. *)
Orphans(s) ==
  (Sessions(s.enforced) \cup IF s.file = Broken THEN {} ELSE Sessions(s.file)) \ s.accounts

(* What the schema and the lint of the file repository demand. *)
Saveable(draft) ==
  /\ \A i, j \in DOMAIN draft : draft[i].name = draft[j].name => i = j
  /\ \A i \in DOMAIN draft : draft[i].access.chats # {} \/ draft[i].access.folders # {}

Active ==
  IF ui.context \in accounts THEN ui.context
  ELSE CHOOSE r \in accounts : Main \in accounts => r = Main

(* isSessionMissing *)
Missing(i) == ui.draft[i].session \notin ui.refs

Editable(i) == ui.draft[i].session = ui.ref \/ Missing(i)

GrantsWrites(access) ==
  \/ access.verbs \cap Tier("write") # {}
  \/ \E i \in DOMAIN access.overrides : access.overrides[i].verbs \cap Tier("write") # {}

(* A run of the program that has read nothing yet. *)
Fresh ==
  [screen |-> "home", context |-> NoRef, unlocked |-> NoSource, source |-> NoSource,
   draft |-> <<>>, next |-> <<>>, goal |-> "none", at |-> 0, name |-> "none", ref |-> NoRef,
   refs |-> {}, applied |-> "none", rekeyed |-> FALSE, saved |-> <<>>, output |-> {}]

Show(screen) == ui' = [ui EXCEPT !.screen = screen]

Chosen == turns > 0 /\ turns' = turns - 1 /\ UNCHANGED <<faults, strokes>>
Failing == faults > 0 /\ faults' = faults - 1 /\ UNCHANGED <<turns, strokes>>
Going == UNCHANGED <<turns, faults, strokes>>

-----------------------------------------------------------------------------
(* The main menu.                                                          *)

(* One round of the loop up to its menu. *)
Home ==
  /\ ui.screen = "home" /\ Going
  /\ LET source == IF ui.unlocked # NoSource THEN ui.unlocked
                   ELSE IF ~Hardened \/ (scene.configured \in Pins /\ Accepts(scene.configured))
                     THEN scene.configured
                   ELSE NoSource
     IN ui' = IF accounts = {}
                THEN [ui EXCEPT !.screen = "welcome", !.unlocked = NoSource]
                ELSE [ui EXCEPT !.screen = IF source = NoSource THEN "locked" ELSE "menu",
                                !.unlocked = source]
  /\ UNCHANGED <<world, pick>>

(* A configured credential is tried, and no other is asked for. *)
Unlock ==
  /\ ui.screen = "locked" /\ Chosen
  /\ ui' = [ui EXCEPT !.screen = "home",
                      !.unlocked = IF CanUnlock THEN opener ELSE @]
  /\ UNCHANGED <<world, pick>>

(* The alternate screen ends and the deferred output is written. *)
Quit ==
  /\ ui.screen \in {"welcome", "locked", "menu"} /\ Chosen
  /\ Show("done")
  /\ UNCHANGED <<world, pick>>

SwitchAccount ==
  /\ ui.screen = "menu" /\ Chosen
  /\ \E r \in accounts : ui' = [ui EXCEPT !.screen = "home", !.context = r]
  /\ UNCHANGED <<world, pick>>

-----------------------------------------------------------------------------
(* The editor of endpoints.                                                *)

InEditor(ref, refs, goal) ==
  [ui EXCEPT !.screen = "list", !.draft = file, !.ref = ref, !.refs = refs, !.goal = goal,
             !.applied = "none"]

(* A file that cannot be loaded stops the edit: it would be overwritten. *)
EditorOrHome(ref, refs, goal) ==
  ui' = IF file = Broken THEN [ui EXCEPT !.screen = "home"] ELSE InEditor(ref, refs, goal)

(* All sessions are gone; their endpoints can only be deleted. *)
RemoveOrphans ==
  /\ ui.screen = "welcome" /\ Chosen
  /\ file # Broken /\ file # <<>> /\ CanUnlock
  /\ EditorOrHome(NoRef, {}, "orphans")
  /\ UNCHANGED <<world, pick>>

Configure ==
  /\ ui.screen = "menu" /\ Accepts(ui.unlocked) /\ Chosen
  /\ EditorOrHome(Active, accounts, "configure")
  /\ UNCHANGED <<world, pick>>

(* The daemon is gone, refuses the credential or cannot read the account. *)
ConfigureFails ==
  /\ ui.screen = "menu" /\ Failing
  /\ Show("home")
  /\ UNCHANGED <<world, pick>>

SelectEndpoint ==
  /\ ui.screen = "list" /\ Chosen
  /\ \E i \in DOMAIN ui.draft :
       Editable(i) /\ ui' = [ui EXCEPT !.screen = "hub", !.at = i]
  /\ UNCHANGED <<world, pick>>

AddEndpoint ==
  /\ ui.screen = "list" /\ ui.ref # NoRef /\ Chosen
  /\ OpenPicker(NoAccess)
  /\ \E n \in Names : ui' = [ui EXCEPT !.screen = "picking", !.at = 0, !.name = n]
  /\ UNCHANGED world

(* Entries that match nothing are dropped only after a confirmation: not   *)
(* to confirm leaves the endpoint as it is.                                *)
EditAccess ==
  /\ ui.screen = "hub" /\ ~Missing(ui.at) /\ Chosen
  /\ OpenPicker(ui.draft[ui.at].access)
  /\ Show("picking")
  /\ UNCHANGED world

PressKey ==
  /\ ui.screen = "picking" /\ strokes > 0
  /\ Press
  /\ strokes' = strokes - 1
  /\ UNCHANGED <<world, ui, turns, faults>>

EndPicking ==
  /\ ui.screen = "picking" /\ Going
  /\ Save \/ Leave \/ Review
  /\ UNCHANGED <<world, ui>>

-----------------------------------------------------------------------------
(* Commits.  The draft becomes next when the file has it.                  *)

Commit(next, goal) == [ui EXCEPT !.screen = "saving", !.next = next, !.goal = goal]

With(i, endpoint) == [ui.draft EXCEPT ![i] = endpoint]

(* The editor takes what the picker has committed. *)
TakeAccess ==
  /\ ui.screen = "picking" /\ Going
  /\ ClosePicker
  /\ LET model == Model(pick)
         refused == pick.phase = "cancelled" \/ SelectsNothing(model)
         old == ui.draft[ui.at]
         new == [name |-> ui.name, session |-> ui.ref, access |-> Projected(model, NoAccess),
                 key |-> minted + 1, token |-> TRUE]
         taken == \E i \in DOMAIN ui.draft : ui.draft[i].name = ui.name
     IN IF ui.at = 0
          THEN /\ ui' = IF refused \/ taken THEN [ui EXCEPT !.screen = "list"]
                        ELSE Commit(Append(ui.draft, new), "add")
               /\ minted' = IF refused THEN minted ELSE minted + 1
          ELSE /\ ui' = IF refused THEN [ui EXCEPT !.screen = "hub"]
                        ELSE Commit(With(ui.at, [old EXCEPT !.access = Projected(model, @)]), "edit")
               /\ UNCHANGED minted
  /\ UNCHANGED <<file, enforced, accounts, secret, opener, scene>>

EditEndpoint ==
  /\ ui.screen = "hub" /\ ~Missing(ui.at) /\ Chosen
  /\ LET old == ui.draft[ui.at]
     IN \/ \E n \in Names \ {old.name} : ui' = Commit(With(ui.at, [old EXCEPT !.name = n]), "edit")
        \/ /\ GrantsWrites(old.access)
           /\ ui' = Commit(With(ui.at, [old EXCEPT !.access.confirm = ~@]), "edit")
  /\ UNCHANGED <<world, pick>>

DeleteEndpoint ==
  /\ ui.screen = "hub" /\ Chosen
  /\ ui' = Commit(RemoveAt(ui.draft, ui.at), "delete")
  /\ UNCHANGED <<world, pick>>

(* A key that this run has minted is shown again first. *)
ShowKey ==
  /\ ui.screen = "hub" /\ ~Missing(ui.at) /\ Chosen
  /\ ui' = [ui EXCEPT !.screen = IF ui.draft[ui.at].token THEN "notice" ELSE "key", !.goal = "key"]
  /\ UNCHANGED <<world, pick>>

RegenerateKey ==
  /\ ui.screen = "key" /\ Chosen
  /\ minted' = minted + 1
  /\ ui' = Commit(With(ui.at, [ui.draft[ui.at] EXCEPT !.key = minted + 1, !.token = TRUE]), "key")
  /\ UNCHANGED <<file, enforced, accounts, secret, opener, scene, pick>>

(* Where each goal goes on: after a save, and after one that was rejected. *)
AfterSave(goal) ==
  CASE goal \in {"add", "key"} -> "notice"
    [] goal = "edit" -> "hub"
    [] goal = "delete" -> "list"

AfterReject(goal) ==
  CASE goal \in {"add", "delete"} -> "list"
    [] goal = "edit" -> "hub"
    [] goal = "key" -> "key"
    [] goal = "logout" -> "home"

(* persistDraft *)
Persist ==
  /\ ui.screen = "saving"
  /\ \/ /\ Saveable(ui.next) /\ Going
        /\ file' = Doc(ui.next)
        /\ ui' = [ui EXCEPT !.screen = "applying", !.saved = Doc(ui.next)]
     \/ /\ ~Saveable(ui.next) /\ Going
        /\ Show(AfterReject(ui.goal)) /\ UNCHANGED file
     \/ \* the write fails, possibly after its rename
        /\ Saveable(ui.next) /\ Failing
        /\ file' \in {file, Doc(ui.next)}
        /\ Show(AfterReject(ui.goal))
  /\ UNCHANGED <<enforced, accounts, secret, opener, minted, scene, pick>>

(* Mutant: the file is read again for the publication. *)
PublishedFromFile == IF file = Broken THEN ui.saved ELSE file

(* The bytes that were written are published, whatever the file is now. *)
Published == ui.saved

(* applySavedConfig: what is saved stays saved. *)
Apply ==
  /\ ui.screen = "applying"
  /\ \/ /\ Going
        /\ enforced' = Published
        /\ ui' = IF ui.goal = "logout" THEN [ui EXCEPT !.screen = "removing"]
                 ELSE [ui EXCEPT !.screen = AfterSave(ui.goal), !.draft = ui.next, !.applied = "yes",
                                 !.at = IF ui.goal = "add" THEN Len(ui.next) ELSE @]
     \/ /\ Failing
        /\ enforced' \in {enforced, Published}
        /\ ui' = IF ui.goal = "logout" THEN [ui EXCEPT !.screen = "home"]
                 ELSE [ui EXCEPT !.screen = AfterSave(ui.goal), !.draft = ui.next, !.applied = "no",
                                 !.at = IF ui.goal = "add" THEN Len(ui.next) ELSE @]
  /\ UNCHANGED <<file, accounts, secret, opener, minted, scene, pick>>

CloseNotice ==
  /\ ui.screen = "notice" /\ Going
  /\ Show(IF ui.goal = "add" THEN "list" ELSE "key")
  /\ UNCHANGED <<world, pick>>

Back ==
  /\ ui.screen \in {"hub", "key"} /\ Going
  /\ Show(IF ui.screen = "hub" THEN "list" ELSE "hub")
  /\ UNCHANGED <<world, pick>>

(* The blocks for MCP clients: endpoints whose key this run has minted. *)
ClientConfig(draft) ==
  {draft[i].key : i \in {i \in DOMAIN draft : draft[i].token /\ ~Missing(i)}}

(* The end of an edit; source is set when it followed a login. *)
LeaveEditor ==
  /\ ui.screen = "list" /\ Going
  /\ LET complete == ui.refs # {} /\ ui.draft # <<>> /\ ui.applied # "no"
     IN ui' = [Fresh EXCEPT !.context = ui.context, !.saved = ui.saved,
                            !.unlocked = IF complete /\ ui.source # NoSource THEN ui.source
                                         ELSE ui.unlocked,
                            !.output = IF complete THEN ClientConfig(ui.draft) ELSE ui.output]
  /\ UNCHANGED <<world, pick>>

-----------------------------------------------------------------------------
(* Logout: the endpoints go first, and the session once that is applied.   *)

AskLogout ==
  /\ ui.screen = "menu" /\ file # Broken /\ Chosen
  /\ ui' = [ui EXCEPT !.screen = "logout", !.draft = file, !.ref = Active]
  /\ UNCHANGED <<world, pick>>

ConfirmLogout ==
  /\ ui.screen = "logout" /\ Accepts(ui.unlocked) /\ Going
  /\ LET staying == {endpoint \in ToSet(ui.draft) : endpoint.session # ui.ref}
     IN ui' = [Commit(Among(ui.draft, staying), "logout") EXCEPT !.output = {}]
  /\ UNCHANGED <<world, pick>>

(* Not confirmed, or the daemon does not take the credential. *)
DeclineLogout ==
  /\ ui.screen = "logout" /\ Going
  /\ Show("home")
  /\ UNCHANGED <<world, pick>>

RemoveSession ==
  /\ ui.screen = "removing"
  /\ \/ Going /\ accounts' = accounts \ {ui.ref}
     \/ Failing /\ accounts' \in {accounts, accounts \ {ui.ref}}
  /\ Show("home")
  /\ UNCHANGED <<file, enforced, secret, opener, minted, scene, pick>>

-----------------------------------------------------------------------------
(* Login, with the name of the session and the posture of the first one.   *)

(* A hardened daemon asks for the PIN unless it is known already. *)
StartLogin ==
  /\ \/ ui.screen \in {"welcome", "locked"} /\ CanUnlock
     \/ ui.screen = "menu" /\ Accepts(ui.unlocked)
  /\ Chosen
  /\ Show("login")
  /\ UNCHANGED <<world, pick>>

(* Posture none lets the operator choose. *)
Decisions ==
  IF secret = NoSource THEN Pins \cup {Machine} ELSE IF Hardened THEN {opener} ELSE {Machine}

Sealed(r, source) ==
  /\ accounts' = accounts \cup {r}
  /\ secret' = IF secret = NoSource THEN source ELSE secret
  /\ opener' = IF opener = NoSource THEN source ELSE opener

CommitLogin ==
  /\ ui.screen = "login"
  /\ \E r \in Refs, source \in Decisions :
       \/ /\ Going
          /\ Sealed(r, source)
          /\ ui' = IF file = Broken THEN [ui EXCEPT !.screen = "home"]
                   ELSE [InEditor(r, accounts', "login") EXCEPT !.source = source]
       \/ \* refused, unconfirmed, or the account could not be read
          /\ Failing
          /\ Sealed(r, source) \/ UNCHANGED <<accounts, secret, opener>>
          /\ Show("home")
  /\ UNCHANGED <<file, enforced, minted, scene, pick>>

(* No credentials, no method, a wrong PIN, no overwriting of a session. *)
CancelLogin ==
  /\ ui.screen = "login" /\ Going
  /\ Show("home")
  /\ UNCHANGED <<world, pick>>

-----------------------------------------------------------------------------
(* Session security.                                                       *)

OpenSecurity ==
  /\ ui.screen = "menu" /\ Chosen
  /\ ui' = [ui EXCEPT !.screen = "security", !.rekeyed = FALSE]
  /\ UNCHANGED <<world, pick>>

NewSecrets == (Pins \cup (IF Hardened THEN {Machine} ELSE {})) \ {secret}

(* Add, change or remove the PIN, whichever the posture offers.  A sweep   *)
(* that fails may have sealed some blobs anew, and no later one completes: *)
(* the setup keeps its unlock, the daemon its own.                         *)
ChangePin ==
  /\ ui.screen = "security"
  /\ \/ /\ Chosen /\ opener = secret
        /\ secret' \in NewSecrets /\ opener' = secret'
        /\ ui' = [ui EXCEPT !.rekeyed = TRUE]
     \/ /\ Failing
        /\ opener' \in NewSecrets
        /\ UNCHANGED <<secret, ui>>
  /\ UNCHANGED <<file, enforced, accounts, minted, scene, pick>>

(* The file as it is now, after an edit by hand. *)
ApplyFile ==
  /\ ui.screen = "security" /\ file # Broken
  /\ Hardened => opener \in Pins
  /\ \/ Chosen /\ enforced' = file
     \/ Failing /\ enforced' \in {enforced, file}
  /\ UNCHANGED <<file, accounts, secret, opener, minted, scene, ui, pick>>

LeaveSecurity ==
  /\ ui.screen = "security" /\ Going
  /\ ui' = [ui EXCEPT !.screen = "home", !.unlocked = IF ui.rekeyed THEN NoSource ELSE @]
  /\ UNCHANGED <<world, pick>>

-----------------------------------------------------------------------------
(* Around the program.                                                     *)

(* An editor drops an endpoint, or breaks the file. *)
HandEdit ==
  /\ file # Broken /\ Failing
  /\ file' \in {Broken} \cup {RemoveAt(file, i) : i \in DOMAIN file}
  /\ UNCHANGED <<enforced, accounts, secret, opener, minted, scene, ui, pick>>

(* The program is killed, or was left, and run again. *)
Rerun ==
  /\ IF ui.screen = "done" THEN Chosen ELSE Failing
  /\ ui' = Fresh /\ pick' = Closed
  /\ UNCHANGED world

SetupInit ==
  /\ \E s \in Scenes :
       /\ file = s.file /\ enforced = s.enforced
       /\ accounts = s.accounts /\ secret = s.secret /\ opener = s.secret
       /\ turns = s.turns /\ faults = s.faults /\ strokes = s.strokes
       /\ scene = [configured |-> s.configured, orphans |-> Orphans(s)]
  /\ ui = Fresh /\ minted = 0
  /\ PickerInit

SetupNext ==
  \/ Home \/ Unlock \/ Quit \/ SwitchAccount
  \/ RemoveOrphans \/ Configure \/ ConfigureFails \/ SelectEndpoint \/ AddEndpoint \/ EditAccess
  \/ PressKey \/ EndPicking \/ TakeAccess
  \/ EditEndpoint \/ DeleteEndpoint \/ ShowKey \/ RegenerateKey
  \/ Persist \/ Apply \/ CloseNotice \/ Back \/ LeaveEditor
  \/ AskLogout \/ ConfirmLogout \/ DeclineLogout \/ RemoveSession
  \/ StartLogin \/ CommitLogin \/ CancelLogin
  \/ OpenSecurity \/ ChangePin \/ ApplyFile \/ LeaveSecurity
  \/ HandEdit \/ Rerun

SetupSpec == SetupInit /\ [][SetupNext]_setupVars
-----------------------------------------------------------------------------
(* What the operator is told and shown holds: a key on the screen is saved *)
(* already, although the program may be killed there; once an edit is      *)
(* reported as applied, the draft on the screen is what the daemon         *)
(* enforces, whatever happens to the file by hand; an endpoint in force    *)
(* has an account (but for those that had none at the start), so a later   *)
(* login under the name of a session that was logged out revives none of   *)
(* its keys; and the cached unlock is good after PINs were changed, but    *)
(* for a change that failed halfway.                                       *)
ShownKeysAreSaved ==
  ui.screen = "notice" => ui.draft[ui.at].key \in {ui.saved[i].key : i \in DOMAIN ui.saved}

AppliedEditsGovern ==
  ui.screen \in {"list", "hub", "key", "notice", "picking", "saving"} /\ ui.applied = "yes"
    => enforced = Doc(ui.draft)

EndpointsHaveAccounts == Sessions(enforced) \subseteq accounts \cup scene.orphans

CachedUnlockOpens ==
  ui.screen = "menu" /\ Hardened /\ opener = secret => ui.unlocked = secret

SetupReportsHold ==
  ShownKeysAreSaved /\ AppliedEditsGovern /\ EndpointsHaveAccounts /\ CachedUnlockOpens
=============================================================================
