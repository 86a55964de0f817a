----------------------------- MODULE ToolCalls -----------------------------
(***************************************************************************)
(* A tool call on its way through the service: the in-flight requests of   *)
(* its MCP connection (presentation/mcp/bounded-stream-transport.ts), the  *)
(* context it runs in (endpoint-stack.ts), the engine that checks, asks,   *)
(* charges and audits (application/use-cases/use-case-engine.ts), and the  *)
(* scoped client that carries it out over the account's one connection     *)
(* (infrastructure/telegram/gramjs-telegram-gateway.ts).                   *)
(*                                                                         *)
(* One account, one MCP connection per endpoint.  A scene says which calls *)
(* are sent, what the endpoints may do under each policy, and which events *)
(* of the environment may happen; Init chooses the scene.                  *)
(***************************************************************************)
EXTENDS AccessRules, RateLimiter, TelegramGateway, SequencesExt

CONSTANTS
  Endpoints,
  Calls,
  Scenes,
  Snapshot,        \* the loan of an operator
  NoKey,           \* no idempotency key
  MaxInFlight,     \* requests of a connection in flight
  MaxHandles,      \* MAX_LIVE_MEDIA_HANDLES
  MaxKeys,         \* MAX_IDEMPOTENCY_KEYS
  HandleTtl,       \* ticks that a media handle lives
  MaxGenerations,  \* bound: policies, the first included
  MaxClock         \* bound: ticks

Generations == 1..MaxGenerations

(* The context of an endpoint under one policy, with its scoped client. *)
Contexts == Endpoints \X Generations

ASSUME CallsAssumption ==
  /\ Loans = Contexts \cup {Snapshot}
  /\ Callers = Calls
  /\ Calls \cap Loans = {}
  /\ {"messages", "forwards", "searches"} \subseteq Buckets
  /\ {MaxInFlight, MaxHandles, MaxKeys, HandleTtl, MaxGenerations} \subseteq Nat \ {0}

(* What the schemas of a configuration and of the tools let through. *)
ASSUME ScenesAssumption ==
  \A s \in Scenes :
    /\ \A e \in Endpoints, g \in Generations :
         LET access == s.access[e][g] IN
         /\ \A ref \in access.chats : IsReference(ref)
         /\ IsFiniteSet(ScopeOf(access))
         /\ Len(access.overrides) \in Nat
         /\ DOMAIN access.overrides = 1..Len(access.overrides)
         /\ \A i \in DOMAIN access.overrides : IsReference(access.overrides[i].ref)
    /\ \A c \in Calls :
         LET call == s.calls[c] IN
         /\ IsReference(call.peer) /\ IsReference(call.to)
         /\ call.wide => call.tool = "search_messages"

VARIABLES
  scene,
  open,        \* endpoints whose connection is up
  stalled,     \* those whose client does not read
  inFlight,    \* inFlight[e]: ids of the requests in flight
  cancelled,   \* calls their client has cancelled
  at,          \* at[c]: where the call stands
  home,        \* home[c]: the generation of its context, 0 before it has one
  todo,        \* todo[c]: requests to Telegram still to make
  audits,      \* the audit chain
  generation,  \* of the enforced policy
  context,     \* context[x]: progress of its construction
  retired,     \* contexts whose scoped client is disposed
  awaited,     \* awaited[x]: operations the disposal of the client waits for
  released,    \* contexts whose disposal has been reported
  handles,     \* handles[x]: prepared media
  keys,        \* keys[x]: the idempotency keys remembered, oldest first
  now, limiter,
  spent,       \* history: spent[b], the units granted in the bucket b
  touched,     \* history: touched[c], the chats and verbs c has used so far
  approved,    \* history: calls a human has approved
  ledger,      \* history: every answer of the limiter
  acks,        \* history: acks[x], the keys of the sends that succeeded
  knew         \* history: knew[c], those that had when c was taken up

wireVars == <<open, stalled, inFlight, cancelled>>
contextVars == <<generation, context, retired, awaited, released>>
clientVars == <<handles, keys, acks>>
quotaVars == <<now, limiter, spent, ledger>>
callVars == <<at, home, todo, audits, touched, approved, knew>>
vars == <<scene, wireVars, contextVars, clientVars, quotaVars, callVars, gatewayVars>>

-----------------------------------------------------------------------------
(* Calls.                                                                  *)

Call(c) == scene.calls[c]

Ctx(c) == <<Call(c).on, home[c]>>

AccessOf(x) == scene.access[x[1]][x[2]]

Access(c) == AccessOf(Ctx(c))

(* trackOperation(). *)
Tracked(c) == at[c] \in {"linking", "requesting", "preparing"}

TrackedIn(x) == {c \in Calls : Tracked(c) /\ Ctx(c) = x}

(* ensureLive(). *)
Live(c) == Ctx(c) \notin retired

Charged(c) == Call(c).tool \in Writes \cup {"search_messages"}

(* requiresConfirmation(). *)
MustConfirm(access, tool) == access.confirm /\ tool \in Writes

ToAudit(c) ==
  /\ at' = [at EXCEPT ![c] = "auditing"]
  /\ audits' = Append(audits, c)

ToAnswer(c) == at' = [at EXCEPT ![c] = "answering"] /\ UNCHANGED audits

(* The end of an operation that was begun: every write is audited, of the  *)
(* reads a download that succeeded.                                        *)
Finish(c, ok) ==
  IF Call(c).tool \in Writes \cup {"prepare_media"} \/ (Call(c).tool = "download_media" /\ ok)
    THEN ToAudit(c)
    ELSE ToAnswer(c)

-----------------------------------------------------------------------------
(* The connection of a client.                                             *)

Receive(c) ==
  LET e == Call(c).on IN
  /\ at[c] = "unsent"
  /\ Call(c).tool # "none"
  /\ \A d \in Call(c).after : at[d] = "done"
  /\ e \in open
  /\ IF Call(c).id \in inFlight[e] \/ Cardinality(inFlight[e]) >= MaxInFlight
       THEN /\ open' = open \ {e}
            /\ inFlight' = [inFlight EXCEPT ![e] = {}]
            /\ at' = [at EXCEPT ![c] = "done"]
       ELSE /\ inFlight' = [inFlight EXCEPT ![e] = @ \cup {Call(c).id}]
            /\ at' = [at EXCEPT ![c] = "received"]
            /\ UNCHANGED open
  /\ UNCHANGED <<scene, stalled, cancelled, home, todo, audits, touched, approved, knew,
                 contextVars, clientVars, quotaVars, gatewayVars>>

(* The place of a request is free once its answer has drained.  A call its *)
(* client has cancelled gets no answer and keeps its place.                *)
Answer(c) ==
  LET e == Call(c).on IN
  /\ at[c] = "answering"
  /\ e \in open \ stalled \/ e \notin open \/ c \in cancelled
  /\ at' = [at EXCEPT ![c] = "done"]
  /\ inFlight' = [inFlight EXCEPT ![e] = IF c \in cancelled THEN @ ELSE @ \ {Call(c).id}]
  /\ UNCHANGED <<scene, open, stalled, cancelled, home, todo, audits, touched, approved, knew,
                 contextVars, clientVars, quotaVars, gatewayVars>>

Cancel(c) ==
  /\ "cancel" \in scene.events
  /\ at[c] \notin {"unsent", "done"}
  /\ Call(c).on \in open
  /\ cancelled' = cancelled \cup {c}
  /\ UNCHANGED <<scene, open, stalled, inFlight, callVars,
                 contextVars, clientVars, quotaVars, gatewayVars>>

(* A client stops reading, or reads again. *)
Stall(e) ==
  /\ "stall" \in scene.events
  /\ stalled' = IF e \in stalled THEN stalled \ {e} ELSE stalled \cup {e}
  /\ UNCHANGED <<scene, open, inFlight, cancelled, callVars,
                 contextVars, clientVars, quotaVars, gatewayVars>>

Close(e) ==
  /\ "close" \in scene.events
  /\ e \in open
  /\ open' = open \ {e}
  /\ inFlight' = [inFlight EXCEPT ![e] = {}]
  /\ UNCHANGED <<scene, stalled, cancelled, callVars,
                 contextVars, clientVars, quotaVars, gatewayVars>>

-----------------------------------------------------------------------------
(* Contexts: the first call that needs one has it built, the others wait.  *)

Acquire(c) ==
  LET x == <<Call(c).on, generation>> IN
  /\ at[c] = "received"
  /\ at' = [at EXCEPT ![c] = "waiting"]
  /\ home' = [home EXCEPT ![c] = generation]
  /\ knew' = [knew EXCEPT ![c] = ToSet(acks[x])]
  /\ IF context[x] = "none"
       THEN context' = [context EXCEPT ![x] = "resolving"] /\ Borrow(x)
       ELSE UNCHANGED <<context, gatewayVars>>
  /\ UNCHANGED <<scene, wireVars, todo, audits, touched, approved, generation, retired, awaited,
                 released, clientVars, quotaVars>>

(* The declared access is resolved over a loan that has ended. *)
AccessResolved(x) ==
  /\ context[x] = "resolving"
  /\ use[x] = "ready"
  /\ Resolves(AccessOf(x))
  /\ context' = [context EXCEPT ![x] = "binding"]
  /\ Return(x)
  /\ UNCHANGED <<scene, wireVars, callVars, generation, retired, awaited, released,
                 clientVars, quotaVars>>

BindStarts(x) ==
  /\ context[x] = "binding"
  /\ use[x] = "none"
  /\ Borrow(x)
  /\ UNCHANGED <<scene, wireVars, callVars, contextVars, clientVars, quotaVars>>

(* A context of a policy replaced meanwhile is disposed as it appears. *)
ClientBound(x) ==
  /\ context[x] = "binding"
  /\ use[x] = "ready"
  /\ ~Disposed
  /\ Bound(AccessOf(x)) # {}
  /\ context' = [context EXCEPT ![x] = "bound"]
  /\ Return(x)
  /\ IF x[2] = generation
       THEN UNCHANGED <<retired, released>>
       ELSE retired' = retired \cup {x} /\ released' = released \cup {x}
  /\ UNCHANGED <<scene, wireVars, callVars, generation, awaited, clientVars, quotaVars>>

(* No connection, an error of Telegram, an access that does not resolve, a *)
(* binding without a chat, or a disposal meanwhile: all who wait are told. *)
BuildFails(x) ==
  /\ context[x] \in {"resolving", "binding"}
  /\ Return(x)
  /\ context' = [context EXCEPT ![x] = "none"]
  /\ at' = [c \in Calls |-> IF at[c] = "waiting" /\ Ctx(c) = x THEN "answering" ELSE at[c]]
  /\ UNCHANGED <<scene, wireVars, home, todo, audits, touched, approved, knew,
                 generation, retired, awaited, released, clientVars, quotaVars>>

-----------------------------------------------------------------------------
(* The scoped client.                                                      *)

Remembered(c) == Call(c).key # NoKey /\ Call(c).key \in ToSet(keys[Ctx(c)])

(* withConnection(): an operation begins and asks for the connection. *)
Link(c) ==
  IF Live(c)
    THEN /\ at' = [at EXCEPT ![c] = "linking"]
         /\ Rejoin(c)
         /\ UNCHANGED audits
    ELSE Finish(c, FALSE) /\ UNCHANGED gatewayVars

Unexpired(x) == {h \in handles[x] : h.expires > now}

Preparing(x) == {c \in TrackedIn(x) : at[c] = "preparing"}

(* Counts the handles that exist and not those about to. *)
PrepareUnreserved(c) ==
  LET x == Ctx(c) IN
  IF Live(c) /\ Cardinality(Unexpired(x)) < MaxHandles
    THEN /\ at' = [at EXCEPT ![c] = "preparing"]
         /\ handles' = [handles EXCEPT ![x] = Unexpired(x)]
         /\ UNCHANGED audits
    ELSE /\ ToAudit(c)
         /\ handles' = [handles EXCEPT ![x] = IF Live(c) THEN Unexpired(x) ELSE @]

(* prepareMedia() up to its first await: sweep, then reserve a place. *)
Prepare(c) ==
  LET x == Ctx(c) IN
  IF Live(c) /\ Cardinality(Unexpired(x)) + Cardinality(Preparing(x)) < MaxHandles
    THEN /\ at' = [at EXCEPT ![c] = "preparing"]
         /\ handles' = [handles EXCEPT ![x] = Unexpired(x)]
         /\ UNCHANGED audits
    ELSE /\ ToAudit(c)
         /\ handles' = [handles EXCEPT ![x] = IF Live(c) THEN Unexpired(x) ELSE @]

(* The file is inside the root and its client still alive, or not. *)
Prepared(c) ==
  LET x == Ctx(c) IN
  /\ at[c] = "preparing"
  /\ ToAudit(c)
  /\ \/ Live(c) /\ handles' = [handles EXCEPT ![x] = @ \cup {[by |-> c, expires |-> now + HandleTtl]}]
     \/ UNCHANGED handles
  /\ UNCHANGED <<scene, wireVars, home, todo, touched, approved, knew, contextVars, keys, acks,
                 quotaVars, gatewayVars>>

(* sendMedia() up to the check of the file, which is not tracked. *)
CheckMedia(c) ==
  LET x == Ctx(c)
      found == {h \in handles[x] : h.by = Call(c).handle}
  IN IF Live(c) /\ found \cap Unexpired(x) # {}
       THEN /\ at' = [at EXCEPT ![c] = "confining"]
            /\ UNCHANGED <<audits, handles>>
       ELSE /\ ToAudit(c)
            /\ handles' = [handles EXCEPT ![x] = IF Live(c) THEN @ \ found ELSE @]

(* A file that has left the root costs the handle. *)
MediaConfined(c) ==
  LET x == Ctx(c) IN
  /\ at[c] = "confining"
  /\ \/ Link(c) /\ UNCHANGED handles
     \/ /\ ToAudit(c)
        /\ handles' = [handles EXCEPT ![x] = {h \in @ : h.by # Call(c).handle}]
        /\ UNCHANGED gatewayVars
  /\ UNCHANGED <<scene, wireVars, home, todo, touched, approved, knew, contextVars, keys, acks,
                 quotaVars>>

(* The call of the scoped client, up to its first await. *)
Run(c) ==
  LET call == Call(c) IN
  IF call.tool \in {"send_message", "send_media"} /\ Remembered(c)
    THEN ToAudit(c) /\ UNCHANGED <<touched, handles, gatewayVars>>
  ELSE IF call.tool = "get_chat_info"
    THEN /\ ToAnswer(c)
         /\ touched' = [touched EXCEPT ![c] =
              IF Live(c) THEN UNION {r.touches : r \in Requests(Access(c), call)} ELSE {}]
         /\ UNCHANGED <<handles, gatewayVars>>
  ELSE IF call.tool = "prepare_media"
    THEN Prepare(c) /\ UNCHANGED <<touched, gatewayVars>>
  ELSE IF call.tool = "send_media"
    THEN CheckMedia(c) /\ UNCHANGED <<touched, gatewayVars>>
    ELSE Link(c) /\ UNCHANGED <<touched, handles>>

(* The next of the requests is made. *)
Request(c, requests) ==
  \E r \in requests :
    /\ \A q \in requests : r.n <= q.n
    /\ todo' = [todo EXCEPT ![c] = requests \ {r}]
    /\ touched' = [touched EXCEPT ![c] = @ \cup r.touches]

(* The connection is ready, or not to be had. *)
Linked(c) ==
  LET requests == Requests(Access(c), Call(c)) IN
  /\ at[c] = "linking"
  /\ Return(c)
  /\ IF use[c] = "ready" /\ Live(c) /\ requests # {}
       THEN /\ at' = [at EXCEPT ![c] = "requesting"]
            /\ Request(c, requests)
            /\ UNCHANGED audits
       ELSE Finish(c, FALSE) /\ UNCHANGED <<todo, touched>>
  /\ UNCHANGED <<scene, wireVars, home, approved, knew, contextVars, clientVars, quotaVars>>

(* rememberIdempotent(), except that the newest keys go. *)
RememberOldest(known, key) ==
  IF key = NoKey \/ key \in ToSet(known) \/ Len(known) = MaxKeys THEN known
  ELSE Append(known, key)

(* rememberIdempotent(): the oldest key goes when there are too many. *)
Remember(known, key) ==
  IF key = NoKey \/ key \in ToSet(known) THEN known
  ELSE IF Len(known) < MaxKeys THEN Append(known, key)
  ELSE Append(Tail(known), key)

(* An operation succeeds; a handle is used up by the send. *)
Complete(c) ==
  LET call == Call(c)
      x == Ctx(c)
      sends == call.tool \in {"send_message", "send_media"}
  IN /\ Finish(c, TRUE)
     /\ todo' = [todo EXCEPT ![c] = {}]
     /\ keys' = [keys EXCEPT ![x] = IF sends THEN Remember(@, call.key) ELSE @]
     /\ acks' = [acks EXCEPT ![x] = IF sends /\ call.key # NoKey THEN Append(@, call.key) ELSE @]
     /\ handles' = [handles EXCEPT ![x] =
          IF call.tool = "send_media" THEN {h \in @ : h.by # call.handle} ELSE @]
     /\ UNCHANGED touched

(* A request to Telegram ends.  A page of a search is full after any of    *)
(* its requests; an error ends the call.                                   *)
RequestEnds(c) ==
  /\ at[c] = "requesting"
  /\ \/ Request(c, todo[c]) /\ UNCHANGED <<at, audits, clientVars>>
     \/ (todo[c] = {} \/ Call(c).wide) /\ Complete(c)
     \/ /\ Finish(c, FALSE)
        /\ todo' = [todo EXCEPT ![c] = {}]
        /\ UNCHANGED <<touched, clientVars>>
  /\ UNCHANGED <<scene, wireVars, home, approved, knew, contextVars, quotaVars, gatewayVars>>

-----------------------------------------------------------------------------
(* The engine.                                                             *)

(* The limiter is asked last, and its refusal audited. *)
Charge(c) ==
  LET call == Call(c)
      b == BucketOf(call.tool)
      units == IF call.tool = "search_messages" THEN UnitsOf(Access(c), call) ELSE 1
      verdict == Reserve(limiter, b, units, now)
  IN IF Charged(c)
       THEN /\ limiter' = verdict.limiter
            /\ spent' = [spent EXCEPT ![b] = IF verdict.granted THEN @ + units ELSE @]
            /\ ledger' = Append(ledger, [call |-> c, bucket |-> b, units |-> units, at |-> now,
                                         granted |-> verdict.granted, long |-> verdict.long,
                                         spent |-> spent'[b]])
            /\ IF verdict.granted THEN Run(c)
               ELSE ToAudit(c) /\ UNCHANGED <<touched, handles, gatewayVars>>
       ELSE Run(c) /\ UNCHANGED <<limiter, spent, ledger>>

Execute(c) ==
  LET call == Call(c)
      refused == ~AclAllows(Access(c), call)
      asks == MustConfirm(Access(c), call.tool)
  IN /\ at[c] = "waiting"
     /\ context[Ctx(c)] = "bound"
     /\ IF ~Valid(call)
          THEN ToAnswer(c) /\ UNCHANGED <<touched, handles, limiter, spent, ledger, gatewayVars>>
        ELSE IF refused \/ (asks /\ ~scene.elicits)
          THEN ToAudit(c) /\ UNCHANGED <<touched, handles, limiter, spent, ledger, gatewayVars>>
        ELSE IF asks
          THEN /\ at' = [at EXCEPT ![c] = "asking"]
               /\ UNCHANGED <<audits, touched, handles, limiter, spent, ledger, gatewayVars>>
          ELSE Charge(c)
     /\ UNCHANGED <<scene, wireVars, home, todo, approved, knew, contextVars, keys, acks, now>>

Approve(c) ==
  /\ at[c] = "asking"
  /\ Call(c).on \in open
  /\ approved' = approved \cup {c}
  /\ Charge(c)
  /\ UNCHANGED <<scene, wireVars, home, todo, knew, contextVars, keys, acks, now>>

(* Declined, out of time, or the connection is gone. *)
Decline(c) ==
  /\ at[c] = "asking"
  /\ ToAudit(c)
  /\ UNCHANGED <<scene, wireVars, home, todo, touched, approved, knew, contextVars, clientVars,
                 quotaVars, gatewayVars>>

(* Appends run one after the other; a failed one does not fail the call. *)
Audited ==
  /\ audits # <<>>
  /\ audits' = Tail(audits)
  /\ at' = [at EXCEPT ![Head(audits)] = "answering"]
  /\ UNCHANGED <<scene, wireVars, home, todo, touched, approved, knew, contextVars, clientVars,
                 quotaVars, gatewayVars>>

-----------------------------------------------------------------------------
(* Policies and accounts change; the daemon does one of these at a time.   *)

(* dispose() of the scoped clients xs. *)
Retire(xs) ==
  /\ retired' = retired \cup xs
  /\ awaited' = [x \in Contexts |-> IF x \in xs THEN TrackedIn(x) ELSE awaited[x]]
  /\ handles' = [x \in Contexts |-> IF x \in xs THEN {} ELSE handles[x]]
  /\ keys' = [x \in Contexts |-> IF x \in xs THEN <<>> ELSE keys[x]]

InService == {x \in Contexts : context[x] = "bound"} \ retired

Publish ==
  /\ "publish" \in scene.events
  /\ ~Disposed
  /\ generation < MaxGenerations
  /\ generation' = generation + 1
  /\ Retire(InService)
  /\ UNCHANGED <<scene, wireVars, callVars, context, released, acks, quotaVars, gatewayVars>>

ReleaseSettles(x) ==
  /\ x \in retired \ released
  /\ awaited[x] \cap TrackedIn(x) = {}
  /\ released' = released \cup {x}
  /\ UNCHANGED <<scene, wireVars, callVars, generation, context, retired, awaited,
                 clientVars, quotaVars, gatewayVars>>

(* The daemon disposes the gateway of an account after the contexts that a *)
(* publication retired have been released.                                 *)
Dispose ==
  /\ "dispose" \in scene.events
  /\ retired = released
  /\ StartTeardown
  /\ Retire(InService)
  /\ UNCHANGED <<scene, wireVars, callVars, generation, context, released, acks, quotaVars>>

TeardownStep ==
  /\ TeardownContinues(retired \ released)
  /\ UNCHANGED <<scene, wireVars, callVars, contextVars, clientVars, quotaVars>>

(* The account was removed, its counters forgotten; it is added again, in  *)
(* the model after the contexts that were being built have failed.  Its    *)
(* gateway is a new one, which knows of no aborted client.                 *)
Replace ==
  /\ "replace" \in scene.events
  /\ teardown = "done"
  /\ \A x \in Contexts : context[x] \in {"none", "bound"}
  /\ generation < MaxGenerations
  /\ generation' = generation + 1
  /\ limiter' = FreshLimiter(now)
  /\ spent' = [b \in Buckets |-> 0]
  /\ ledger' = <<>>
  /\ link' = "none" /\ opening' = "idle" /\ relink' = "idle" /\ teardown' = "none"
  /\ aborted' = "gone"
  /\ UNCHANGED <<scene, wireVars, callVars, context, retired, awaited, released, clientVars, now,
                 relinkOf, use>>

AskSnapshot ==
  /\ "snapshot" \in scene.events
  /\ Borrow(Snapshot)
  /\ UNCHANGED <<scene, wireVars, callVars, contextVars, clientVars, quotaVars>>

SnapshotEnds ==
  /\ Return(Snapshot)
  /\ UNCHANGED <<scene, wireVars, callVars, contextVars, clientVars, quotaVars>>

(* What Telegram and the network do. *)
ConnectionFails ==
  /\ "drop" \in scene.events
  /\ LinkDrops \/ SenderReconnects
  /\ UNCHANGED <<scene, wireVars, callVars, contextVars, clientVars, quotaVars>>

RelinkSettles ==
  /\ RelinkDisconnected \/ RelinkConnected \/ RelinkFails
  /\ UNCHANGED <<scene, wireVars, callVars, contextVars, clientVars, quotaVars>>

OpeningSettles ==
  /\ OpenConnects \/ OpenChecked \/ AbortedClientDestroyed \/ ConnectionDestroyed
  /\ UNCHANGED <<scene, wireVars, callVars, contextVars, clientVars, quotaVars>>

ConnectionSettles == RelinkSettles \/ OpeningSettles

Tick ==
  /\ "tick" \in scene.events
  /\ now < MaxClock
  /\ now' = now + 1
  /\ UNCHANGED <<scene, wireVars, callVars, contextVars, clientVars, limiter, spent, ledger, gatewayVars>>

-----------------------------------------------------------------------------
CallsInit ==
  /\ scene \in Scenes
  /\ open = Endpoints
  /\ stalled = {}
  /\ inFlight = [e \in Endpoints |-> {}]
  /\ cancelled = {}
  /\ at = [c \in Calls |-> "unsent"]
  /\ home = [c \in Calls |-> 0]
  /\ todo = [c \in Calls |-> {}]
  /\ audits = <<>>
  /\ generation = 1
  /\ context = [x \in Contexts |-> "none"]
  /\ retired = {}
  /\ awaited = [x \in Contexts |-> {}]
  /\ released = {}
  /\ handles = [x \in Contexts |-> {}]
  /\ keys = [x \in Contexts |-> <<>>]
  /\ now = 0
  /\ limiter = FreshLimiter(0)
  /\ spent = [b \in Buckets |-> 0]
  /\ touched = [c \in Calls |-> {}]
  /\ approved = {}
  /\ ledger = <<>>
  /\ acks = [x \in Contexts |-> <<>>]
  /\ knew = [c \in Calls |-> {}]
  /\ GatewayInit

CallWorks(c) ==
  \/ Acquire(c) \/ Execute(c) \/ Decline(c) \/ Linked(c) \/ RequestEnds(c)
  \/ Prepared(c) \/ MediaConfined(c) \/ Answer(c)

ContextWorks(x) == AccessResolved(x) \/ BindStarts(x) \/ ClientBound(x) \/ BuildFails(x)

CallsNext ==
  \/ \E c \in Calls : Receive(c) \/ Cancel(c) \/ Approve(c) \/ CallWorks(c)
  \/ \E e \in Endpoints : Stall(e) \/ Close(e)
  \/ \E x \in Contexts : ContextWorks(x) \/ ReleaseSettles(x)
  \/ Publish \/ Dispose \/ TeardownStep \/ Replace
  \/ AskSnapshot \/ SnapshotEnds
  \/ ConnectionFails \/ ConnectionSettles \/ Audited \/ Tick

(* Node runs what is ready, Telegram and the file system answer, and a     *)
(* human is given a minute.  Nothing makes a client send or read.  A call  *)
(* or a context takes finitely many steps, so that one condition for all   *)
(* of them leaves none behind; senders may ask for reconnects without end, *)
(* which keeps no opening from settling.                                   *)
CallsFairness ==
  /\ WF_vars(\E c \in Calls : CallWorks(c))
  /\ WF_vars(\E x \in Contexts : ContextWorks(x) \/ ReleaseSettles(x))
  /\ WF_vars(TeardownStep)
  /\ WF_vars(SnapshotEnds)
  /\ WF_vars(RelinkSettles)
  /\ WF_vars(OpeningSettles)
  /\ WF_vars(Audited)

CallsSpec == CallsInit /\ [][CallsNext]_vars /\ CallsFairness

-----------------------------------------------------------------------------
(* Properties.                                                             *)

(* Types, and the limits of what accumulates: requests in flight, prepared *)
(* media with those being prepared, remembered keys                        *)
(* (bounded-stream-transport.ts:94, gramjs-telegram-gateway.ts:1449, 1778).*)
CallsTypeOK ==
  /\ GatewayTypeOK
  /\ \A e \in Endpoints : Cardinality(inFlight[e]) <= MaxInFlight
  /\ \A x \in Contexts :
       /\ Cardinality(handles[x]) + Cardinality(Preparing(x)) <= MaxHandles
       /\ Len(keys[x]) <= MaxKeys
  /\ \A c \in Calls : at[c] \in {"unsent", "received", "waiting", "asking", "confining",
                                 "preparing", "linking", "requesting", "auditing",
                                 "answering", "done"}
  /\ \A c \in Calls : at[c] = "auditing" <=> c \in ToSet(audits)

(* What a policy lets an endpoint do in a chat, read off its declaration.  *)
DeclaredChats(access) ==
  {ref.peer : ref \in {r \in access.chats : r.kind # "me"}}
    \cup {Self : ref \in {r \in access.chats : r.kind = "me"}}
    \cup UNION {(Folders[f].pinned \cup Folders[f].included) \ Folders[f].excluded :
                  f \in access.folders}

DeclaredVerbs(access, p) ==
  LET own == {i \in DOMAIN access.overrides : access.overrides[i].ref.peer = p}
  IN (IF own = {} THEN access.verbs ELSE access.overrides[Max(own)].verbs) \ access.denied

(* A call only ever touches chats that the policy of its context declares, *)
(* with verbs it grants there, whatever it was scoped to, listed, forwarded *)
(* or searched; and a write on an endpoint that asks first is made only    *)
(* after a human approved it.  The checks of the engine and of the data    *)
(* layer are in different files and each leaves something to the other     *)
(* (use-case-engine.ts:142, gramjs-telegram-gateway.ts:1874, 951).         *)
OnlyDeclaredAccess ==
  \A c \in Calls :
    /\ \A t \in touched[c] :
         t[1] \in DeclaredChats(Access(c)) /\ t[2] \in DeclaredVerbs(Access(c), t[1])
    /\ at[c] = "requesting" /\ Call(c).tool \in Writes /\ Access(c).confirm => c \in approved

(* Once dispose() has resolved, nothing the gateway knows of is or comes   *)
(* alive over the account's key: no connection, opening, reconnect, loan   *)
(* or operation; the same for the operations of a scoped client whose      *)
(* release has been reported.  The key is handed on then, and two owners   *)
(* would burn it (gramjs-telegram-gateway.ts:485-533, 1584-1599).  It says *)
(* nothing of a client that its own reconnect revived after its opening    *)
(* was aborted: such a one the gateway forgets, and it may stay alive.     *)
OwnershipEnds ==
  /\ teardown = "done" => ~Connected /\ \A u \in Loans \cup Callers : use[u] # "ready"
  /\ \A c \in Calls : Tracked(c) => Ctx(c) \notin released
  /\ \A c \in Calls : at[c] = "requesting" => link \in {"up", "down"}

(* How many other keys have been acknowledged after the first time for k. *)
Since(x, k) ==
  LET first == Min({i \in DOMAIN acks[x] : acks[x][i] = k})
  IN Cardinality({acks[x][i] : i \in {j \in DOMAIN acks[x] : j > first}} \ {k})

(* A send that had succeeded when its retry was taken up is not made       *)
(* again, as long as fewer than MaxKeys other keys have succeeded since    *)
(* (gramjs-telegram-gateway.ts:1264, 1523, 1769-1787).                     *)
RetriesAreNotResent ==
  [][\A c \in Calls :
       (at[c] # "requesting" /\ at'[c] = "requesting"
          /\ Call(c).tool \in {"send_message", "send_media"})
       => ~(Call(c).key \in knew[c] /\ Since(Ctx(c), Call(c).key) < MaxKeys)]_vars

Granted(b) == {i \in DOMAIN ledger : ledger[i].granted /\ ledger[i].bucket = b}

(* Granted by the entries i to j of one bucket, which are grants. *)
UnitsBetween(i, j) == ledger[j].spent - ledger[i].spent + ledger[i].units

LongRefusals == {i \in DOMAIN ledger : ledger[i].long}

(* The refusals up to i include enough long ones in a row within a window. *)
TripsAt(i) ==
  \E k \in LongRefusals :
    /\ k <= i
    /\ Cardinality({n \in LongRefusals : k <= n /\ n <= i}) = Threshold
    /\ ledger[k].at + StrikeWindow > ledger[i].at

(* Between any two grants the account spends no more than a full burst and *)
(* what the time between them refills; it is left alone for a cooldown     *)
(* after the refusals that trip the breaker; every search and write in     *)
(* flight is paid for, request by request; and a human's refusal costs     *)
(* nothing (token-bucket-rate-limiter.ts:99-188, use-case-engine.ts:260).  *)
QuotaHolds ==
  /\ \A b \in Buckets : \A i, j \in Granted(b) :
       i <= j => UnitsBetween(i, j) * Minute
                   <= Capacity[b] * (Minute + ledger[j].at - ledger[i].at)
  /\ \A i \in LongRefusals : TripsAt(i) =>
       \A j \in DOMAIN ledger :
         j > i /\ ledger[j].granted => ledger[j].at >= ledger[i].at + Cooldown
  /\ \A c \in Calls : at[c] = "requesting" /\ Charged(c) =>
       \E i \in DOMAIN ledger :
         /\ ledger[i].call = c
         /\ ledger[i].granted
         /\ Call(c).tool = "search_messages" => Cardinality(touched[c]) <= ledger[i].units
  /\ \A i \in DOMAIN ledger :
       MustConfirm(Access(ledger[i].call), Call(ledger[i].call).tool)
         => ledger[i].call \in approved

(* Every request that is taken up is answered, unless its client does not  *)
(* read; and dispose() settles, whatever the calls wait for: a human, a    *)
(* client that does not read, a connection that does not come back         *)
(* (bounded-stream-transport.ts:57-86, use-case-engine.ts:200-307,         *)
(* gramjs-telegram-gateway.ts:505-533).                                    *)
WorkEnds ==
  []<>(/\ \A c \in Calls : at[c] \in {"unsent", "done"}
                            \/ (at[c] = "answering" /\ Call(c).on \in stalled)
       /\ teardown \in {"none", "done", "failed"})
=============================================================================
