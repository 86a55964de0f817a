--------------------------- MODULE OperatorServer ---------------------------
(***************************************************************************)
(* The operator plane: src/presentation/operator/server.ts with the login  *)
(* sessions behind it (login-sessions.ts and the Telegram login client in  *)
(* infrastructure/telegram/gramjs-account-login-client.ts), and the        *)
(* handlers of presentation/mcp/daemon.ts as far as they move the posture. *)
(*                                                                         *)
(* A connection handles its requests one after the other; the serial ones  *)
(* also wait for those of all connections.  A login runs beside the serial *)
(* queue, because it waits for answers that come through it.  Shutdown     *)
(* refuses what has not entered the queue and drains the rest.             *)
(*                                                                         *)
(* `credential' numbers the secrets that have protected the store, and     *)
(* `proven' the last one a connection has shown or set: neither is in the  *)
(* code, which knows generations only.                                     *)
(***************************************************************************)
EXTENDS Naturals, Sequences, FiniteSets

CONSTANTS
  Conns,            \* operator connections
  Slow,             \* those whose peer may stop reading
  Scenarios,        \* posture and key source of the start, and what each peer sends
  MaxQueued,        \* MAX_QUEUED_REQUESTS
  MaxLoginAttempts, \* MAX_LOGIN_ATTEMPTS
  MaxLogins         \* bound: logins that a connection begins

(* A login is a connection and the number of its flow there. *)
Flows == Conns \X (1..MaxLogins)

FlowsOf(c) == {c} \X (1..MaxLogins)

Kinds == {"machine", "passphrase", "keyfile"}

ASSUME OperatorAssumption ==
  /\ Slow \subseteq Conns
  /\ {MaxQueued, MaxLoginAttempts, MaxLogins} \subseteq Nat \ {0}
  /\ \A s \in Scenarios :
       /\ s.posture \in {"none", "smooth", "hardened"}
       /\ s.source \in Kinds
       /\ s.sends \in [Conns -> Seq([op : STRING, arg : STRING])]

VARIABLES
  conn,           \* conn[c]: the socket
  script,         \* script[c]: what its peer has yet to send
  blocked,        \* blocked[c]: outputDrain is pending
  queue,          \* queue[c]: requests accepted, the first one being handled
  job,            \* job[c]: where the handling of that one stands
  serial,         \* the chain serialOperations, the first entry being run
  generation,     \* authenticationGeneration, from 1
  authenticated,  \* authenticated[c]: authenticatedGeneration, 0 for undefined
  posture,        \* operatorPosture
  bootSource,     \* kind of the key source of the environment
  failures,       \* authenticationFailures, counted up to 3
  cooling,        \* authenticationCoolingDown()
  credential, proven,
  login,          \* login[l]: the sign-in of login l
  client,         \* client[l]: its Telegram connection, "none" before it began
  pending,        \* logins ready to be committed
  answering,      \* logins with an answer in flight
  saved,          \* logins whose session has been stored
  down            \* shutdown: what it waits for

wireVars == <<conn, script, blocked>>
workVars == <<queue, job, serial>>
authVars == <<generation, authenticated, posture, bootSource, failures, cooling, credential, proven>>
loginVars == <<login, client, pending, answering, saved>>
operatorVars == <<wireVars, workVars, authVars, loginVars, down>>

-----------------------------------------------------------------------------
(* Requests.  The argument is the method of a login or the kind of the     *)
(* source that protects the store from then on.                            *)

Protected == Kinds \ {"machine"}

WellFormed(r) ==
  CASE r.op \in {"status", "stop", "accounts.list", "policy.apply", "account.snapshot",
                 "login.cancel", "account.remove"} -> r.arg = "none"
    [] r.op = "login.begin"  -> r.arg \in {"qr", "phone"}
    [] r.op = "login.commit" -> r.arg \in Kinds
    [] r.op \in {"authenticate", "pin.set", "pin.change", "pin.remove",
                 "recovery.export"} -> r.arg \in Protected
    [] OTHER -> FALSE

Frames == [op : STRING, arg : STRING]

Accepted == {r \in Frames : WellFormed(r)}

(* Checks credentials beside the queue. *)
IsSerialUnlessAuthenticating(op) ==
  op \notin {"status", "stop", "login.begin", "login.cancel", "authenticate"}

(* A login keeps its turn while a human is asked. *)
IsSerialWithLogins(op) == op \notin {"status", "stop", "login.cancel"}

IsSerial(op) == op \notin {"status", "stop", "login.begin", "login.cancel"}

AdvancesGeneration(op) == op \in {"pin.set", "pin.change", "pin.remove"}

RequiresAuthentication == posture = "hardened"

(* The posture of a store whose blobs are sealed under a source. *)
PostureUnder(kind) == IF kind = "machine" THEN "smooth" ELSE "hardened"

-----------------------------------------------------------------------------
(* State.                                                                  *)

(* "destroyed" until the close event; "ended" after end(), which still     *)
(* reads.                                                                  *)
Listening == {"fresh", "open", "ended"}
Writable == {"fresh", "open"}

(* flow: the login that a request is about. *)
Idle ==
  [stage |-> "idle", generation |-> 0, required |-> FALSE, checked |-> 0, ok |-> FALSE, flow |-> 0]

(* A handler of a serial operation is at work. *)
Working == {"running", "retiring", "closing"}

Stages == {"idle", "waiting", "login", "cancelling", "done", "ending", "flush"} \cup Working

NoLogin == [phase |-> "none", method |-> "none", aborted |-> FALSE, attempts |-> 0]

(* Phases of a sign-in between the call of beginLogin and its settlement. *)
SigningIn == {"connecting", "signing", "asking", "signed"}

OperatorTypeOK ==
  /\ conn \in [Conns -> Listening \cup {"destroyed", "closed"}]
  /\ script \in [Conns -> Seq(Frames)]
  /\ blocked \in [Conns -> BOOLEAN]
  /\ queue \in [Conns -> Seq(Accepted)]
  /\ \A c \in Conns : Len(queue[c]) <= MaxQueued /\ (job[c] # Idle => queue[c] # <<>>)
  /\ job \in [Conns -> [stage : Stages, generation : Nat, required : BOOLEAN,
                        checked : Nat, ok : BOOLEAN, flow : 0..MaxLogins]]
  /\ serial \in Seq([conn : Conns, flow : 0..MaxLogins])
  /\ generation \in Nat \ {0}
  /\ authenticated \in [Conns -> 0..generation]
  /\ posture \in {"none", "smooth", "hardened"}
  /\ bootSource \in Kinds
  /\ failures \in 0..3
  /\ cooling \in BOOLEAN
  /\ credential \in Nat \ {0}
  /\ proven \in [Conns -> 0..credential]
  /\ login \in [Flows -> [phase : SigningIn \cup {"none", "failed", "ok"},
                          method : {"none", "qr", "phone"},
                          aborted : BOOLEAN, attempts : 0..MaxLoginAttempts]]
  /\ client \in [Flows -> {"none", "open", "disposing", "stuck", "gone"}]
  /\ pending \cup answering \cup saved \subseteq Flows
  /\ down \in {"up", "draining", "disposing", "down"}

OperatorInit ==
  /\ conn = [c \in Conns |-> "fresh"]
  /\ blocked = [c \in Conns |-> FALSE]
  /\ queue = [c \in Conns |-> <<>>]
  /\ job = [c \in Conns |-> Idle]
  /\ serial = <<>>
  /\ generation = 1
  /\ authenticated = [c \in Conns |-> 0]
  /\ \E s \in Scenarios : posture = s.posture /\ bootSource = s.source /\ script = s.sends
  /\ failures = 0
  /\ cooling = FALSE
  /\ credential = 1
  /\ proven = [c \in Conns |-> 0]
  /\ login = [l \in Flows |-> NoLogin]
  /\ client = [l \in Flows |-> "none"]
  /\ pending = {}
  /\ answering = {}
  /\ saved = {}
  /\ down = "up"

Request(c) == Head(queue[c])

FlowOf(c) == <<c, job[c].flow>>

Closing == down # "up"

-----------------------------------------------------------------------------
(* Sockets.                                                                *)

(* Refuses a request too late. *)
ReceiveOneMore(c) ==
  /\ conn[c] \in Listening
  /\ script[c] # <<>>
  /\ script' = [script EXCEPT ![c] = Tail(@)]
  /\ LET r == Head(script[c]) IN
       IF blocked[c] \/ (WellFormed(r) /\ Len(queue[c]) > MaxQueued)
         THEN conn' = [conn EXCEPT ![c] = "destroyed"] /\ UNCHANGED queue
       ELSE IF WellFormed(r)
         THEN /\ conn' = [conn EXCEPT ![c] = IF @ = "fresh" THEN "open" ELSE @]
              /\ queue' = [queue EXCEPT ![c] = Append(@, r)]
         ELSE UNCHANGED <<conn, queue>>
  /\ UNCHANGED <<blocked, job, serial, authVars, loginVars, down>>

(* A frame while output is pending, or one too many, closes the socket; a  *)
(* malformed one is refused and leaves the first-frame timer running.      *)
Receive(c) ==
  /\ conn[c] \in Listening
  /\ script[c] # <<>>
  /\ script' = [script EXCEPT ![c] = Tail(@)]
  /\ LET r == Head(script[c]) IN
       IF blocked[c] \/ (WellFormed(r) /\ Len(queue[c]) = MaxQueued)
         THEN conn' = [conn EXCEPT ![c] = "destroyed"] /\ UNCHANGED queue
       ELSE IF WellFormed(r)
         THEN /\ conn' = [conn EXCEPT ![c] = IF @ = "fresh" THEN "open" ELSE @]
              /\ queue' = [queue EXCEPT ![c] = Append(@, r)]
         ELSE UNCHANGED <<conn, queue>>
  /\ UNCHANGED <<blocked, job, serial, authVars, loginVars, down>>

FirstFrameTimeout(c) ==
  /\ conn[c] = "fresh"
  /\ conn' = [conn EXCEPT ![c] = "ended"]
  /\ UNCHANGED <<script, blocked, workVars, authVars, loginVars, down>>

PeerLeaves(c) ==
  /\ conn[c] \in Listening
  /\ conn' = [conn EXCEPT ![c] = "destroyed"]
  /\ UNCHANGED <<script, blocked, workVars, authVars, loginVars, down>>

PeerReads(c) ==
  /\ blocked[c]
  /\ conn[c] \in Writable
  /\ blocked' = [blocked EXCEPT ![c] = FALSE]
  /\ UNCHANGED <<conn, script, workVars, authVars, loginVars, down>>

-----------------------------------------------------------------------------
(* Login clients.                                                          *)

(* disposeClient(): once under way or done it is not repeated, and a       *)
(* failure is remembered by the client.                                    *)
Disposed(clients, S) ==
  [l \in Flows |-> IF l \in S /\ clients[l] = "open" THEN "disposing" ELSE clients[l]]

(* revoke() of the sign-ins of S: prompts are answered with nothing, and   *)
(* the clients are disposed.                                               *)
Revoked(S) ==
  [l \in Flows |->
     IF l \in S /\ login[l].phase \in SigningIn
       THEN [login[l] EXCEPT !.aborted = TRUE, !.phase = IF @ = "asking" THEN "signing" ELSE @]
       ELSE login[l]]

InSignIn(S) == {l \in S : login[l].phase \in SigningIn}

(* Leaves the writers to a drain event. *)
DisconnectKeepingWriters(c) ==
  /\ conn[c] = "destroyed"
  /\ conn' = [conn EXCEPT ![c] = "closed"]
  /\ login' = Revoked(FlowsOf(c))
  /\ pending' = pending \ FlowsOf(c)
  /\ client' = Disposed(client, InSignIn(FlowsOf(c)) \cup (pending \cap FlowsOf(c)))
  /\ UNCHANGED <<script, blocked, workVars, authVars, answering, saved, down>>

(* The close event: abort the sign-in, cancelOwner(), let the writers go. *)
Disconnect(c) ==
  /\ conn[c] = "destroyed"
  /\ conn' = [conn EXCEPT ![c] = "closed"]
  /\ blocked' = [blocked EXCEPT ![c] = FALSE]
  /\ login' = Revoked(FlowsOf(c))
  /\ pending' = pending \ FlowsOf(c)
  /\ client' = Disposed(client, InSignIn(FlowsOf(c)) \cup (pending \cap FlowsOf(c)))
  /\ UNCHANGED <<script, workVars, authVars, answering, saved, down>>

(* teardown() waits for the connect() under way. *)
DisposeEnds(l) ==
  /\ client[l] = "disposing"
  /\ login[l].phase # "connecting"
  /\ \E end \in {"gone", "stuck"} : client' = [client EXCEPT ![l] = end]
  /\ UNCHANGED <<wireVars, workVars, authVars, login, pending, answering, saved, down>>

(* begin() settles with an error: its finally clause disposes the client. *)
Fails(l) ==
  /\ login' = [login EXCEPT ![l].phase = "failed"]
  /\ client' = Disposed(client, {l})

ConnectEnds(l) ==
  /\ login[l].phase = "connecting"
  /\ \/ /\ client[l] = "open"
        /\ login' = [login EXCEPT ![l].phase = "signing"]
        /\ UNCHANGED client
     \/ Fails(l)
  /\ UNCHANGED <<wireVars, workVars, authVars, pending, answering, saved, down>>

(* One turn of the sign-in loop ends with an error, and onError decides.   *)
(* Only the gate of the QR login looks at the signal.                      *)
SignInError(l) ==
  /\ login[l].phase = "signing"
  /\ \E terminal \in BOOLEAN :
       IF \/ login[l].method = "qr" /\ login[l].aborted
          \/ terminal
          \/ login[l].attempts + 1 >= MaxLoginAttempts
         THEN Fails(l)
         ELSE /\ login' = [login EXCEPT ![l].attempts = @ + 1]
              /\ UNCHANGED client
  /\ UNCHANGED <<wireVars, workVars, authVars, pending, answering, saved, down>>

SignInSucceeds(l) ==
  /\ login[l].phase = "signing"
  /\ client[l] # "gone"
  /\ login' = [login EXCEPT ![l].phase = "signed"]
  /\ UNCHANGED <<wireVars, workVars, authVars, client, pending, answering, saved, down>>

(* ask(): not after the generation has moved.  A phone login starts its    *)
(* loop with the prompt, the password of a QR login comes after a call     *)
(* that an aborted client fails.                                           *)
Ask(l) ==
  /\ login[l].phase = "signing"
  /\ job[l[1]].generation = generation
  /\ login[l].method = "phone" \/ ~login[l].aborted
  /\ login' = [login EXCEPT ![l].phase = "asking"]
  /\ UNCHANGED <<wireVars, workVars, authVars, client, pending, answering, saved, down>>

(* Does not look at the signal again. *)
PublishAnyLogin(l) ==
  /\ login[l].phase = "signed"
  /\ login' = [login EXCEPT ![l].phase = "ok"]
  /\ pending' = pending \cup {l}
  /\ UNCHANGED client
  /\ UNCHANGED <<wireVars, workVars, authVars, answering, saved, down>>

(* Disconnect may win while the login promise is settling. *)
PublishLogin(l) ==
  /\ login[l].phase = "signed"
  /\ IF login[l].aborted
       THEN Fails(l) /\ UNCHANGED pending
       ELSE /\ login' = [login EXCEPT ![l].phase = "ok"]
            /\ pending' = pending \cup {l}
            /\ UNCHANGED client
  /\ UNCHANGED <<wireVars, workVars, authVars, answering, saved, down>>

-----------------------------------------------------------------------------
(* Handling of a request.                                                  *)

IsHead(c) == serial # <<>> /\ Head(serial) = [conn |-> c, flow |-> 0]

(* send() ends the request, unless the peer does not read. *)
Reply(c) ==
  \/ /\ queue' = [queue EXCEPT ![c] = Tail(@)]
     /\ job' = [job EXCEPT ![c] = Idle]
     /\ serial' = IF IsHead(c) THEN Tail(serial) ELSE serial
     /\ UNCHANGED blocked
  \/ /\ c \in Slow
     /\ conn[c] \in Writable
     /\ blocked' = [blocked EXCEPT ![c] = TRUE]
     /\ job' = [job EXCEPT ![c].stage = "flush"]
     /\ UNCHANGED <<queue, serial>>

EndFlush(c) ==
  /\ job[c].stage = "flush"
  /\ ~blocked[c]
  /\ queue' = [queue EXCEPT ![c] = Tail(@)]
  /\ job' = [job EXCEPT ![c] = Idle]
  /\ serial' = IF IsHead(c) THEN Tail(serial) ELSE serial
  /\ UNCHANGED <<wireVars, authVars, loginVars, down>>

(* requestGeneration and requiredBefore. *)
Admitted(stage, flow) ==
  [Idle EXCEPT !.stage = stage, !.flow = flow, !.generation = generation,
               !.required = RequiresAuthentication]

(* login.begin: a flow and a client of its own. *)
StartLogin(c) ==
  \E n \in 1..MaxLogins :
    /\ client[<<c, n>>] = "none"
    /\ \A m \in 1..(n - 1) : client[<<c, m>>] # "none"
    /\ job' = [job EXCEPT ![c] = Admitted("login", n)]
    /\ login' = [login EXCEPT ![<<c, n>>] =
                   [NoLogin EXCEPT !.phase = "connecting", !.method = Request(c).arg]]
    /\ client' = [client EXCEPT ![<<c, n>>] = "open"]
    /\ UNCHANGED <<pending, answering, saved>>

(* Flow 0: the peer names none that is ready to be committed. *)
StartCancel(c) ==
  \E n \in 0..MaxLogins :
    /\ n # 0 => <<c, n>> \in pending
    /\ job' = [job EXCEPT ![c] = Admitted("cancelling", n)]
    /\ pending' = pending \ {<<c, n>>}
    /\ client' = Disposed(client, pending \cap {<<c, n>>})
    /\ UNCHANGED <<login, answering, saved>>

StartCommit(c) ==
  \E n \in 0..MaxLogins :
    /\ n # 0 => <<c, n>> \in pending
    /\ job' = [job EXCEPT ![c] = Admitted(IF n = 0 THEN "done" ELSE "retiring", n)]
    /\ UNCHANGED loginVars

StartHandler(c) ==
  /\ job' = [job EXCEPT ![c] = Admitted("running", 0)]
  /\ UNCHANGED loginVars

(* Operations that want an authenticated connection once the posture does. *)
(* A login must not have the name of one that is ready.                    *)
HandlePrivileged(c) ==
  \/ /\ \/ RequiresAuthentication /\ authenticated[c] # generation
        \/ Request(c).op = "login.begin" /\ pending \cap FlowsOf(c) # {}
     /\ Reply(c)
     /\ UNCHANGED loginVars
  \/ /\ RequiresAuthentication => authenticated[c] = generation
     /\ CASE Request(c).op = "login.begin"  -> StartLogin(c)
          [] Request(c).op = "login.cancel" -> StartCancel(c)
          [] Request(c).op = "login.commit" -> StartCommit(c)
          [] OTHER                          -> StartHandler(c)
     /\ UNCHANGED <<queue, serial, blocked>>

(* A stop is answered, and the socket ended, before the daemon shuts down. *)
HandleStop(c) ==
  /\ job' = [job EXCEPT ![c] = [Idle EXCEPT !.stage = "ending"]]
  /\ conn' = [conn EXCEPT ![c] = IF @ \in Writable THEN "ended" ELSE @]
  /\ UNCHANGED <<queue, serial, blocked, loginVars>>

HandleAuthenticate(c) ==
  IF Closing \/ cooling
    THEN Reply(c)
    ELSE /\ job' = [job EXCEPT ![c] = [Idle EXCEPT !.stage = "running", !.checked = credential]]
         /\ UNCHANGED <<queue, serial, blocked>>

Handle(c) ==
  CASE Request(c).op = "status"       -> Reply(c) /\ UNCHANGED <<conn, loginVars>>
    [] Request(c).op = "stop"         -> HandleStop(c)
    [] Request(c).op = "authenticate" -> HandleAuthenticate(c) /\ UNCHANGED <<conn, loginVars>>
    [] OTHER                          -> HandlePrivileged(c) /\ UNCHANGED conn

(* Takes what was accepted before the server closed. *)
TakeAnyRequest(c) ==
  /\ queue[c] # <<>>
  /\ job[c].stage = "idle"
  /\ ~blocked[c]
  /\ IF conn[c] = "closed" /\ down = "up"
       THEN queue' = [queue EXCEPT ![c] = Tail(@)] /\ UNCHANGED <<conn, job, serial, blocked, loginVars>>
     ELSE IF IsSerial(Request(c).op)
       THEN /\ job' = [job EXCEPT ![c].stage = "waiting"]
            /\ serial' = Append(serial, [conn |-> c, flow |-> 0])
            /\ UNCHANGED <<conn, queue, blocked, loginVars>>
       ELSE Handle(c)
  /\ UNCHANGED <<script, authVars, down>>

(* enqueue(): in turn, unless the server or the connection is closed. *)
TakeRequest(c) ==
  /\ queue[c] # <<>>
  /\ job[c].stage = "idle"
  /\ ~blocked[c]
  /\ IF Closing \/ conn[c] = "closed"
       THEN queue' = [queue EXCEPT ![c] = Tail(@)] /\ UNCHANGED <<conn, job, serial, blocked, loginVars>>
     ELSE IF IsSerial(Request(c).op)
       THEN /\ job' = [job EXCEPT ![c].stage = "waiting"]
            /\ serial' = Append(serial, [conn |-> c, flow |-> 0])
            /\ UNCHANGED <<conn, queue, blocked, loginVars>>
       ELSE Handle(c)
  /\ UNCHANGED <<script, authVars, down>>

TakeTurn(c) ==
  /\ job[c].stage = "waiting"
  /\ IsHead(c)
  /\ Handle(c)
  /\ UNCHANGED <<script, authVars, down>>

(* A prompt is answered by its peer; the answer waits for the serial       *)
(* queue, and is checked like a request.                                   *)
Answer(l) ==
  /\ login[l].phase = "asking"
  /\ conn[l[1]] \in Listening
  /\ ~blocked[l[1]]
  /\ l \notin answering
  /\ answering' = answering \cup {l}
  /\ serial' = Append(serial, [conn |-> l[1], flow |-> l[2]])
  /\ UNCHANGED <<wireVars, queue, job, authVars, login, client, pending, saved, down>>

HandleAnswer(l) ==
  /\ serial # <<>>
  /\ Head(serial) = [conn |-> l[1], flow |-> l[2]]
  /\ serial' = Tail(serial)
  /\ answering' = answering \ {l}
  /\ login' = IF /\ login[l].phase = "asking"
                 /\ RequiresAuthentication => authenticated[l[1]] = generation
                THEN [login EXCEPT ![l].phase = "signing"]
                ELSE login
  /\ UNCHANGED <<wireVars, queue, job, authVars, client, pending, saved, down>>

-----------------------------------------------------------------------------
(* Handlers.                                                               *)

(* Nothing sealed yet is verified trivially; a machine-bound store opens   *)
(* with no other source.                                                   *)
AuthenticateEnds(c) ==
  /\ job[c].stage = "running"
  /\ Request(c).op = "authenticate"
  /\ \E right \in BOOLEAN :
       LET opens == posture = "none" \/ (posture = "hardened" /\ right) IN
       /\ authenticated' = IF opens THEN [authenticated EXCEPT ![c] = generation] ELSE authenticated
       /\ proven' = IF opens /\ posture = "hardened"
                      THEN [proven EXCEPT ![c] = job[c].checked] ELSE proven
       /\ failures' = IF opens THEN 0 ELSE IF failures = 3 THEN 3 ELSE failures + 1
       /\ cooling' = (~opens /\ failures' >= 2)
  /\ Reply(c)
  /\ UNCHANGED <<conn, script, generation, posture, bootSource, credential, loginVars, down>>

CoolDown ==
  /\ cooling
  /\ cooling' = FALSE
  /\ UNCHANGED <<wireVars, workVars, generation, authenticated, posture, bootSource, failures,
                 credential, proven, loginVars, down>>

(* The store is sealed under another secret, the one c gave or used. *)
Reseals(c, newPosture) ==
  /\ posture' = newPosture
  /\ credential' = credential + 1
  /\ proven' = [proven EXCEPT ![c] = credential + 1]

(* The posture an operation leaves when it succeeds, the present one if it *)
(* decides nothing: the first sealed document decides, and PIN changes.    *)
PostureAfter(c) ==
  CASE Request(c).op = "policy.apply" /\ posture = "none" -> PostureUnder(bootSource)
    [] Request(c).op = "login.commit" /\ posture = "none" -> PostureUnder(Request(c).arg)
    [] Request(c).op \in {"pin.set", "pin.change"} -> "hardened"
    [] Request(c).op = "pin.remove" -> "smooth"
    [] OTHER -> posture

Decides(c) == PostureAfter(c) # posture \/ AdvancesGeneration(Request(c).op)

HandlerReturns(c, ok) ==
  /\ job' = [job EXCEPT ![c].stage = "done", ![c].ok = ok]
  /\ IF ok /\ Decides(c)
       THEN Reseals(c, PostureAfter(c))
       ELSE UNCHANGED <<posture, credential, proven>>

(* The current secret given with a PIN change must open the store. *)
HandlerEnds(c) ==
  /\ job[c].stage = "running"
  /\ Request(c).op # "authenticate"
  /\ \E ok \in BOOLEAN :
       /\ ok /\ Request(c).op = "pin.set" => posture # "hardened"
       /\ ok /\ Request(c).op \in {"pin.change", "pin.remove"} => posture # "smooth"
       /\ HandlerReturns(c, ok)
  /\ UNCHANGED <<wireVars, queue, serial, generation, authenticated, bootSource, failures, cooling,
                 loginVars, down>>

(* commit(): once the account's runtime is retired the flow leaves         *)
(* `pending' and its connection is closed; if the retirement fails it is   *)
(* cancelled, which closes it too.                                         *)
RetireForCommit(c) ==
  /\ job[c].stage = "retiring"
  /\ pending' = pending \ {FlowOf(c)}
  /\ client' = Disposed(client, {FlowOf(c)})
  /\ \E ok \in BOOLEAN : job' = [job EXCEPT ![c].stage = IF ok THEN "closing" ELSE "done"]
  /\ UNCHANGED <<wireVars, queue, serial, authVars, login, answering, saved, down>>

(* Stores it even if the close failed. *)
SaveAnyLogin(c) ==
  /\ job[c].stage = "closing"
  /\ client[FlowOf(c)] # "disposing"
  /\ \E ok \in BOOLEAN :
       /\ saved' = IF ok THEN saved \cup {FlowOf(c)} ELSE saved
       /\ HandlerReturns(c, ok)
  /\ UNCHANGED <<wireVars, queue, serial, generation, authenticated, bootSource, failures, cooling,
                 login, client, pending, answering, down>>

(* The session is stored when its login connection has closed cleanly. *)
SaveLogin(c) ==
  /\ job[c].stage = "closing"
  /\ client[FlowOf(c)] # "disposing"
  /\ \E ok \in BOOLEAN :
       /\ ok => client[FlowOf(c)] = "gone"
       /\ saved' = IF ok THEN saved \cup {FlowOf(c)} ELSE saved
       /\ HandlerReturns(c, ok)
  /\ UNCHANGED <<wireVars, queue, serial, generation, authenticated, bootSource, failures, cooling,
                 login, client, pending, answering, down>>

(* Advances it with PIN changes only. *)
ConcludePinChanges(c) ==
  /\ job[c].stage = "done"
  /\ IF job[c].ok /\ AdvancesGeneration(Request(c).op)
       THEN /\ generation' = generation + 1
            /\ authenticated' = [authenticated EXCEPT ![c] = generation + 1]
            /\ login' = Revoked(Flows)
            /\ client' = Disposed(client, InSignIn(Flows))
       ELSE UNCHANGED <<generation, authenticated, login, client>>
  /\ Reply(c)
  /\ UNCHANGED <<conn, script, posture, bootSource, failures, cooling, credential, proven,
                 pending, answering, saved, down>>

(* The end of handle(): an operation that decided the posture advances the *)
(* generation, carries its own connection and revokes the sign-ins.        *)
Conclude(c) ==
  /\ job[c].stage = "done"
  /\ IF /\ job[c].ok
        /\ \/ AdvancesGeneration(Request(c).op)
           \/ /\ ~job[c].required
              /\ Request(c).op \in {"login.commit", "policy.apply"}
              /\ RequiresAuthentication
       THEN /\ generation' = generation + 1
            /\ authenticated' = [authenticated EXCEPT ![c] = generation + 1]
            /\ login' = Revoked(Flows)
            /\ client' = Disposed(client, InSignIn(Flows))
       ELSE UNCHANGED <<generation, authenticated, login, client>>
  /\ Reply(c)
  /\ UNCHANGED <<conn, script, posture, bootSource, failures, cooling, credential, proven,
                 pending, answering, saved, down>>

(* A login that ended in a later generation than it began is cancelled. *)
ConcludeLogin(c) ==
  LET l == FlowOf(c) IN
  /\ job[c].stage = "login"
  /\ \/ login[l].phase = "ok"
     \/ login[l].phase = "failed" /\ client[l] # "disposing"
  /\ login' = [login EXCEPT ![l].phase = "none"]
  /\ IF login[l].phase = "ok" /\ job[c].generation # generation
       THEN /\ job' = [job EXCEPT ![c].stage = "cancelling"]
            /\ pending' = pending \ {l}
            /\ client' = Disposed(client, pending \cap {l})
            /\ UNCHANGED <<queue, serial, blocked>>
       ELSE Reply(c) /\ UNCHANGED <<pending, client>>
  /\ UNCHANGED <<conn, script, authVars, answering, saved, down>>

CancelEnds(c) ==
  /\ job[c].stage = "cancelling"
  /\ job[c].flow # 0 => client[FlowOf(c)] # "disposing"
  /\ Reply(c)
  /\ UNCHANGED <<conn, script, authVars, loginVars, down>>

-----------------------------------------------------------------------------
(* Shutdown.                                                               *)

(* closeConnections(): the close events follow. *)
Close ==
  /\ down = "up"
  /\ down' = "draining"
  /\ conn' = [c \in Conns |-> IF conn[c] \in Listening THEN "destroyed" ELSE conn[c]]

(* By a signal or the idle timer. *)
Shutdown == Close /\ UNCHANGED <<script, blocked, workVars, authVars, loginVars>>

(* By a stop request, once its answer has gone out. *)
EndStop(c) ==
  /\ job[c].stage = "ending"
  /\ queue' = [queue EXCEPT ![c] = Tail(@)]
  /\ job' = [job EXCEPT ![c] = Idle]
  /\ Close \/ (Closing /\ UNCHANGED <<conn, down>>)
  /\ UNCHANGED <<script, blocked, serial, authVars, loginVars>>

(* drain() waits for what is in the queue; then disposeAll(). *)
Drained ==
  /\ down = "draining"
  /\ serial = <<>>
  /\ down' = "disposing"
  /\ pending' = {}
  /\ client' = Disposed(client, Flows)
  /\ UNCHANGED <<wireVars, workVars, authVars, login, answering, saved>>

(* With failed disposals it ends as well, in another way. *)
LoginsDisposed ==
  /\ down = "disposing"
  /\ \A l \in Flows : client[l] # "disposing"
  /\ down' = "down"
  /\ UNCHANGED <<wireVars, workVars, authVars, loginVars>>

-----------------------------------------------------------------------------

(* What peers, operators and the clock do. *)
Environment ==
  \/ \E c \in Conns :
       Receive(c) \/ FirstFrameTimeout(c) \/ PeerLeaves(c) \/ PeerReads(c)
  \/ \E l \in Flows : Answer(l)
  \/ CoolDown
  \/ Shutdown

(* What the daemon does for a connection, Telegram's answers included. *)
Serve(c) ==
  \/ TakeRequest(c) \/ TakeTurn(c) \/ AuthenticateEnds(c) \/ HandlerEnds(c)
  \/ RetireForCommit(c) \/ SaveLogin(c) \/ Conclude(c) \/ ConcludeLogin(c) \/ CancelEnds(c)
  \/ EndFlush(c) \/ EndStop(c)
  \/ \E l \in FlowsOf(c) : HandleAnswer(l)

SignIn(l) ==
  \/ ConnectEnds(l) \/ SignInError(l) \/ SignInSucceeds(l) \/ Ask(l) \/ PublishLogin(l)
  \/ DisposeEnds(l)

Teardown == Drained \/ LoginsDisposed

OperatorNext ==
  \/ Environment
  \/ \E c \in Conns : Serve(c) \/ Disconnect(c)
  \/ \E l \in Flows : SignIn(l)
  \/ Teardown

(* Handlers, disposals and close events end; a human or a peer need not    *)
(* answer, nor Telegram accept.                                            *)
OperatorSpec ==
  /\ OperatorInit
  /\ [][OperatorNext]_operatorVars
  /\ WF_operatorVars(Teardown)
  /\ \A c \in Conns :
       /\ WF_operatorVars(Serve(c))
       /\ WF_operatorVars(Disconnect(c))
  /\ \A l \in Flows :
       /\ WF_operatorVars(DisposeEnds(l))
       /\ WF_operatorVars(ConnectEnds(l) \/ PublishLogin(l))

-----------------------------------------------------------------------------
(* Properties.                                                             *)

(* Under a hardened posture a handler works for a connection that has      *)
(* shown, or has itself set, the secret that protects the store now: the   *)
(* generations of server.ts stand for secrets, although postures change    *)
(* inside handlers and generations only after them.                        *)
OnlyTheCurrentCredential ==
  \A c \in Conns :
    /\ job[c].stage \in Working
    /\ job[c].required
    => Request(c).op = "authenticate" \/ proven[c] = credential

(* A live Telegram connection of a login belongs to a sign-in that has not *)
(* been revoked, or is ready to be committed; what is ready belongs to a   *)
(* peer that is still there, because cancelOwner() sees no later entry;    *)
(* and none is left when disposeAll() has started (LoginSessions.begin,    *)
(* cancel, cancelOwner, disposeAll).                                       *)
LoginsAreOwned ==
  \A l \in Flows :
    /\ client[l] = "open" => l \in pending \/ (login[l].phase \in SigningIn /\ ~login[l].aborted)
    /\ client[l] = "open" \/ l \in pending => conn[l[1]] # "closed"
    /\ client[l] = "open" => down \in {"up", "draining"}

(* A session is stored only after the login connection that made its       *)
(* authorization key has closed, whatever cancelled or closed meanwhile    *)
(* (LoginSessions.commit): a runtime may open the key again at once.       *)
SavedLoginsAreClosed == \A l \in saved : client[l] = "gone"

(* When drain() has returned no handler of a serial operation works or     *)
(* will: the daemon tears its accounts down (shutdown in daemon.ts).       *)
DrainCoversMutations ==
  down \in {"disposing", "down"} => \A c \in Conns : job[c].stage \notin Working \cup {"done"}

(* No credential is checked during a cool-down (daemon.ts, authenticate):  *)
(* checks of different connections do not overlap.                         *)
GuessesAreThrottled == [][failures' > failures => ~cooling]_operatorVars

(* A serial operation gets its turn, whatever logins wait for a human,     *)
(* unless a peer refuses to read its answer.                               *)
SerialOperationsEnd ==
  \A c \in Conns :
    job[c].stage = "waiting" ~> (job[c].stage # "waiting" \/ \E d \in Conns : blocked[d])

(* Shutdown ends, whatever peers, sign-ins and prompts are waited for. *)
ShutdownEnds == down = "draining" ~> down = "down"
=============================================================================
