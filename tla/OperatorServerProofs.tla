------------------------ MODULE OperatorServerProofs ------------------------
(***************************************************************************)
(* The safety properties of OperatorServer, for any number of connections, *)
(* requests and logins, and any lengths of the queues.                     *)
(***************************************************************************)
EXTENDS OperatorServer, SequenceTheorems, TLAPS

Entries == [conn : Conns, flow : 0..MaxLogins]

Jobs == [stage : Stages, generation : Nat, required : BOOLEAN,
         checked : Nat, ok : BOOLEAN, flow : 0..MaxLogins]

Logins == [phase : SigningIn \cup {"none", "failed", "ok"},
           method : {"none", "qr", "phone"},
           aborted : BOOLEAN, attempts : 0..MaxLoginAttempts]

Clients == {"none", "open", "disposing", "stuck", "gone"}

(* The type invariant, by the variables that steps change together. *)
WireTyped ==
  /\ conn \in [Conns -> Listening \cup {"destroyed", "closed"}]
  /\ script \in [Conns -> Seq(Frames)]
  /\ blocked \in [Conns -> BOOLEAN]

WorkTyped ==
  /\ queue \in [Conns -> Seq(Accepted)]
  /\ \A c \in Conns : Len(queue[c]) <= MaxQueued /\ (job[c] # Idle => queue[c] # <<>>)
  /\ job \in [Conns -> Jobs]
  /\ serial \in Seq(Entries)

AuthTyped ==
  /\ generation \in Nat \ {0}
  /\ authenticated \in [Conns -> 0..generation]
  /\ posture \in {"none", "smooth", "hardened"}
  /\ bootSource \in Kinds
  /\ failures \in 0..3
  /\ cooling \in BOOLEAN
  /\ credential \in Nat \ {0}
  /\ proven \in [Conns -> 0..credential]

LoginTyped ==
  /\ login \in [Flows -> Logins]
  /\ client \in [Flows -> Clients]
  /\ pending \subseteq Flows
  /\ answering \subseteq Flows
  /\ saved \subseteq Flows
  /\ down \in {"up", "draining", "disposing", "down"}

(* What a stage says of the rest of the job. *)
JobShape ==
  \A c \in Conns :
    /\ job[c].stage = "idle" => job[c] = Idle
    /\ job[c].stage \in {"login", "retiring", "closing"} => job[c].flow # 0
    /\ job[c].checked <= credential

TypeInv ==
  /\ WireTyped
  /\ WorkTyped
  /\ AuthTyped
  /\ LoginTyped
  /\ JobShape

LEMMA TypesTogether == WireTyped /\ WorkTyped /\ AuthTyped /\ LoginTyped <=> OperatorTypeOK
BY DEF OperatorTypeOK, WireTyped, WorkTyped, AuthTyped, LoginTyped, Entries, Jobs, Logins, Clients

LEMMA TypesInitially == OperatorInit => TypeInv
<1> SUFFICES ASSUME OperatorInit PROVE TypeInv
  OBVIOUS
<1>1. <<>> \in Seq(Frames) /\ <<>> \in Seq(Accepted) /\ <<>> \in Seq(Entries) /\ Len(<<>>) = 0
  BY EmptySeq
<1>2. /\ script \in [Conns -> Seq(Frames)]
      /\ posture \in {"none", "smooth", "hardened"}
      /\ bootSource \in Kinds
  <2>1. PICK s \in Scenarios : posture = s.posture /\ bootSource = s.source /\ script = s.sends
    BY DEF OperatorInit
  <2> QED
    BY <2>1, OperatorAssumption DEF Frames
<1>3. WireTyped
  BY <1>2 DEF WireTyped, Listening, OperatorInit
<1>4. Idle \in Jobs /\ Idle.stage = "idle" /\ Idle.checked = 0
  BY OperatorAssumption DEF Idle, Jobs, Stages, Working
<1>5. WorkTyped /\ JobShape
  BY <1>1, <1>4, OperatorAssumption DEF WorkTyped, JobShape, OperatorInit
<1>6. NoLogin \in Logins
  BY OperatorAssumption DEF NoLogin, Logins, SigningIn
<1>7. LoginTyped
  BY <1>6 DEF LoginTyped, Clients, OperatorInit
<1>8. AuthTyped
  <2>1. generation = 1 /\ credential = 1 /\ failures = 0 /\ cooling = FALSE
    BY DEF OperatorInit
  <2>2. authenticated = [c \in Conns |-> 0] /\ proven = [c \in Conns |-> 0]
    BY DEF OperatorInit
  <2>3. authenticated \in [Conns -> 0..generation] /\ proven \in [Conns -> 0..credential]
    BY <2>1, <2>2
  <2>4. generation \in Nat \ {0} /\ credential \in Nat \ {0} /\ failures \in 0..3
    BY <2>1
  <2>5. cooling \in BOOLEAN
    BY <2>1, Zenon
  <2> QED
    BY <1>2, <2>3, <2>4, <2>5 DEF AuthTyped
<1> QED
  BY <1>3, <1>5, <1>7, <1>8 DEF TypeInv

-----------------------------------------------------------------------------
(* The pieces of a step.                                                   *)

LEMMA FlowsAre ==
  /\ \A l \in Flows : l[1] \in Conns /\ l[2] \in 1..MaxLogins /\ l = <<l[1], l[2]>>
  /\ \A c \in Conns, n \in 1..MaxLogins : <<c, n>> \in Flows
  /\ \A c \in Conns : FlowsOf(c) \subseteq Flows
  /\ \A l \in Flows, c \in Conns : l \in FlowsOf(c) <=> l[1] = c
BY DEF Flows, FlowsOf

LEMMA DisposedTyped ==
  ASSUME LoginTyped, NEW S
  PROVE  Disposed(client, S) \in [Flows -> Clients]
BY DEF LoginTyped, Disposed, Clients

LEMMA RevokedTyped ==
  ASSUME LoginTyped, NEW S
  PROVE  Revoked(S) \in [Flows -> Logins]
<1> SUFFICES ASSUME NEW l \in Flows
             PROVE  [login[l] EXCEPT !.aborted = TRUE, !.phase = IF @ = "asking" THEN "signing" ELSE @] \in Logins
  BY DEF Revoked, LoginTyped
<1> QED
  BY DEF LoginTyped, Logins, SigningIn

(* A request of a connection at work is one that was accepted. *)
LEMMA RequestAccepted ==
  ASSUME WorkTyped, NEW c \in Conns, queue[c] # <<>>
  PROVE  /\ Request(c) \in Accepted
         /\ Tail(queue[c]) \in Seq(Accepted)
         /\ Len(Tail(queue[c])) = Len(queue[c]) - 1
         /\ Len(queue[c]) \in Nat
BY HeadTailProperties, LenProperties DEF WorkTyped, Request

LEMMA SerialHead ==
  ASSUME WorkTyped, serial # <<>>
  PROVE  /\ Head(serial) \in Entries
         /\ Tail(serial) \in Seq(Entries)
BY HeadTailProperties DEF WorkTyped

(* The request is over and the next one may be handled. *)
LEMMA EndsTyped ==
  ASSUME TypeInv, NEW c \in Conns, queue[c] # <<>>,
         queue' = [queue EXCEPT ![c] = Tail(@)],
         job' = [job EXCEPT ![c] = Idle],
         serial' = (IF IsHead(c) THEN Tail(serial) ELSE serial),
         credential' = credential
  PROVE  WorkTyped' /\ JobShape'
<1>1. /\ Tail(queue[c]) \in Seq(Accepted)
      /\ Len(Tail(queue[c])) <= MaxQueued
  BY RequestAccepted, OperatorAssumption DEF TypeInv, WorkTyped
<1>2. serial' \in Seq(Entries)
  BY SerialHead DEF TypeInv, WorkTyped, IsHead
<1>3. Idle \in Jobs /\ Idle.stage = "idle" /\ Idle.checked = 0 /\ Idle.flow = 0
  BY OperatorAssumption DEF Idle, Jobs, Stages, Working
<1>4. WorkTyped'
  BY <1>1, <1>2, <1>3 DEF TypeInv, WorkTyped
<1>5. JobShape'
  BY <1>3 DEF TypeInv, WorkTyped, JobShape, AuthTyped
<1> QED
  BY <1>4, <1>5

(* The handling of a request goes on in another stage. *)
LEMMA StageTyped ==
  ASSUME TypeInv, NEW c \in Conns, queue[c] # <<>>, NEW j \in Jobs,
         UNCHANGED <<queue, serial>>,
         job' = [job EXCEPT ![c] = j],
         j.stage # "idle",
         j.stage \in {"login", "retiring", "closing"} => j.flow # 0,
         j.checked <= credential', credential' \in Nat, credential <= credential'
  PROVE  WorkTyped' /\ JobShape'
<1>1. WorkTyped'
  BY DEF TypeInv, WorkTyped
<1>2. JobShape'
  <2> SUFFICES ASSUME NEW d \in Conns
               PROVE  /\ job'[d].stage = "idle" => job'[d] = Idle
                      /\ job'[d].stage \in {"login", "retiring", "closing"} => job'[d].flow # 0
                      /\ job'[d].checked <= credential'
    BY DEF JobShape
  <2>1. job'[d] = IF d = c THEN j ELSE job[d]
    BY DEF TypeInv, WorkTyped
  <2>2. job[d].checked \in Nat /\ credential \in Nat
    BY DEF TypeInv, WorkTyped, AuthTyped, Jobs
  <2> QED
    BY <2>1, <2>2 DEF TypeInv, JobShape
<1> QED
  BY <1>1, <1>2

LEMMA ReplyTyped ==
  ASSUME TypeInv, NEW c \in Conns, queue[c] # <<>>, Reply(c), credential' = credential
  PROVE  WorkTyped' /\ JobShape' /\ blocked' \in [Conns -> BOOLEAN]
<1>1. CASE job' = [job EXCEPT ![c] = Idle] /\ queue' = [queue EXCEPT ![c] = Tail(@)]
           /\ serial' = (IF IsHead(c) THEN Tail(serial) ELSE serial) /\ UNCHANGED blocked
  BY <1>1, EndsTyped DEF TypeInv, WireTyped
<1>2. CASE /\ blocked' = [blocked EXCEPT ![c] = TRUE]
           /\ job' = [job EXCEPT ![c].stage = "flush"]
           /\ UNCHANGED <<queue, serial>>
  <2>1. blocked' \in [Conns -> BOOLEAN]
    BY <1>2 DEF TypeInv, WireTyped
  <2>2. PICK j : j = [job[c] EXCEPT !.stage = "flush"]
    OBVIOUS
  <2>3. j \in Jobs /\ j.stage = "flush" /\ j.checked = job[c].checked
    BY <2>2 DEF TypeInv, WorkTyped, Jobs, Stages
  <2>4. job' = [job EXCEPT ![c] = j]
    BY <1>2, <2>2 DEF TypeInv, WorkTyped
  <2>5. j.checked <= credential' /\ credential' \in Nat /\ credential <= credential'
    BY <2>3 DEF TypeInv, AuthTyped, JobShape
  <2> QED
    BY <1>2, <2>1, <2>3, <2>4, <2>5, StageTyped
<1> QED
  BY <1>1, <1>2 DEF Reply

(* A job that is admitted. *)
LEMMA AdmittedTyped ==
  ASSUME TypeInv, NEW st \in Stages, NEW n \in 0..MaxLogins
  PROVE  /\ Admitted(st, n) \in Jobs
         /\ Admitted(st, n).stage = st
         /\ Admitted(st, n).flow = n
         /\ Admitted(st, n).checked = 0
         /\ Admitted(st, n).generation = generation
         /\ Admitted(st, n).required = RequiresAuthentication
         /\ Admitted(st, n).ok = FALSE
<1>1. RequiresAuthentication \in BOOLEAN
  BY DEF RequiresAuthentication
<1>2. generation \in Nat
  BY DEF TypeInv, AuthTyped
<1>3. Admitted(st, n) \in Jobs
  BY <1>1, <1>2 DEF Admitted, Idle, Jobs
<1>4. /\ Admitted(st, n).stage = st
      /\ Admitted(st, n).flow = n
      /\ Admitted(st, n).checked = 0
      /\ Admitted(st, n).generation = generation
  BY DEF Admitted, Idle
<1>5. Admitted(st, n).required = RequiresAuthentication
  BY DEF Admitted, Idle
<1>6. Admitted(st, n).ok = FALSE
  BY DEF Admitted, Idle
<1> QED
  BY <1>3, <1>4, <1>5, <1>6

(* Work that begins on a request that was admitted. *)
LEMMA AdmissionTyped ==
  ASSUME TypeInv, NEW c \in Conns, queue[c] # <<>>, NEW st \in Stages, NEW n \in 0..MaxLogins,
         st # "idle", st \in {"login", "retiring", "closing"} => n # 0,
         job' = [job EXCEPT ![c] = Admitted(st, n)],
         UNCHANGED <<queue, serial>>, credential' = credential
  PROVE  WorkTyped' /\ JobShape'
<1>1. 0 <= credential' /\ credential' \in Nat /\ credential <= credential'
  BY DEF TypeInv, AuthTyped
<1>2. PICK j : j = Admitted(st, n)
  OBVIOUS
<1>3. j \in Jobs /\ j.stage = st /\ j.flow = n /\ j.checked = 0
  BY <1>2, AdmittedTyped
<1>4. job' = [job EXCEPT ![c] = j]
  BY <1>2
<1> QED
  BY <1>1, <1>3, <1>4, StageTyped

LEMMA StartLoginTyped ==
  ASSUME TypeInv, NEW c \in Conns, queue[c] # <<>>, Request(c).op = "login.begin",
         StartLogin(c), UNCHANGED <<queue, serial, blocked, conn, script, authVars, down>>
  PROVE  TypeInv'
<1>1. PICK n \in 1..MaxLogins :
        /\ job' = [job EXCEPT ![c] = Admitted("login", n)]
        /\ login' = [login EXCEPT ![<<c, n>>] =
                       [NoLogin EXCEPT !.phase = "connecting", !.method = Request(c).arg]]
        /\ client' = [client EXCEPT ![<<c, n>>] = "open"]
        /\ UNCHANGED <<pending, answering, saved>>
  BY DEF StartLogin
<1>2. n \in 0..MaxLogins /\ n # 0 /\ "login" \in Stages
  BY OperatorAssumption DEF Stages
<1>3. WorkTyped' /\ JobShape'
  BY <1>1, <1>2, AdmissionTyped DEF authVars
<1>4. Request(c).arg \in {"qr", "phone"}
  BY RequestAccepted DEF TypeInv, Accepted, WellFormed
<1>5. [NoLogin EXCEPT !.phase = "connecting", !.method = Request(c).arg] \in Logins
  <2>1. 0 \in 0..MaxLoginAttempts
    BY OperatorAssumption
  <2> QED
    BY <1>4, <2>1 DEF NoLogin, Logins, SigningIn
<1>6. LoginTyped'
  BY <1>1, <1>5 DEF TypeInv, LoginTyped, Clients
<1> QED
  BY <1>3, <1>6 DEF TypeInv, WireTyped, AuthTyped, authVars

LEMMA HandleTyped ==
  ASSUME TypeInv, NEW c \in Conns, queue[c] # <<>>, Handle(c),
         UNCHANGED <<script, authVars, down>>
  PROVE  TypeInv'
<1>1. /\ AuthTyped' /\ credential' = credential
      /\ credential' \in Nat /\ 0 <= credential' /\ credential <= credential'
  BY DEF TypeInv, AuthTyped, authVars
<1>0. 0 \in 0..MaxLogins
  BY OperatorAssumption
<1>2. CASE Reply(c) /\ UNCHANGED <<conn, loginVars>>
  BY <1>1, <1>2, ReplyTyped DEF TypeInv, WireTyped, LoginTyped, loginVars
<1>3. CASE HandleStop(c)
  <2>1. PICK j : j = [Idle EXCEPT !.stage = "ending"]
    OBVIOUS
  <2>2. j \in Jobs /\ j.stage = "ending" /\ j.checked = 0
    BY <1>0, <2>1 DEF Idle, Jobs, Stages
  <2>3. WorkTyped' /\ JobShape'
    BY <1>1, <1>3, <2>1, <2>2, StageTyped DEF HandleStop
  <2>4. conn' \in [Conns -> Listening \cup {"destroyed", "closed"}]
    BY <1>3 DEF HandleStop, TypeInv, WireTyped, Listening, Writable
  <2> QED
    BY <1>1, <1>3, <2>3, <2>4 DEF HandleStop, TypeInv, WireTyped, LoginTyped, loginVars
<1>4. CASE /\ job' = [job EXCEPT ![c] = [Idle EXCEPT !.stage = "running", !.checked = credential]]
           /\ UNCHANGED <<queue, serial, blocked, conn, loginVars>>
  <2>1. PICK j : j = [Idle EXCEPT !.stage = "running", !.checked = credential]
    OBVIOUS
  <2>2. j \in Jobs /\ j.stage = "running" /\ j.checked = credential
    BY <1>0, <1>1, <2>1 DEF Idle, Jobs, Stages, Working
  <2>3. WorkTyped' /\ JobShape'
    BY <1>1, <1>4, <2>1, <2>2, StageTyped
  <2> QED
    BY <1>1, <1>4, <2>3 DEF TypeInv, WireTyped, LoginTyped, loginVars
<1>5. CASE /\ StartLogin(c)
           /\ Request(c).op = "login.begin"
           /\ UNCHANGED <<queue, serial, blocked, conn>>
  BY <1>5, StartLoginTyped
<1>6. CASE /\ StartCancel(c)
           /\ UNCHANGED <<queue, serial, blocked, conn>>
  <2>1. PICK n \in 0..MaxLogins :
          /\ job' = [job EXCEPT ![c] = Admitted("cancelling", n)]
          /\ pending' = pending \ {<<c, n>>}
          /\ client' = Disposed(client, pending \cap {<<c, n>>})
          /\ UNCHANGED <<login, answering, saved>>
    BY <1>6 DEF StartCancel
  <2>2. WorkTyped' /\ JobShape'
    <3>1. "cancelling" \in Stages
      BY DEF Stages
    <3> QED
      BY <1>1, <1>6, <2>1, <3>1, AdmissionTyped
  <2>3. LoginTyped'
    BY <2>1, DisposedTyped DEF TypeInv, LoginTyped
  <2> QED
    BY <1>1, <1>6, <2>2, <2>3 DEF TypeInv, WireTyped
<1>7. CASE /\ StartCommit(c)
           /\ UNCHANGED <<queue, serial, blocked, conn>>
  <2>1. PICK n \in 0..MaxLogins :
          job' = [job EXCEPT ![c] = Admitted(IF n = 0 THEN "done" ELSE "retiring", n)]
    BY <1>7 DEF StartCommit
  <2>2. PICK st : st = IF n = 0 THEN "done" ELSE "retiring"
    OBVIOUS
  <2>3. st \in Stages /\ st # "idle" /\ (st \in {"login", "retiring", "closing"} => n # 0)
    BY <2>2 DEF Stages, Working
  <2>4. job' = [job EXCEPT ![c] = Admitted(st, n)]
    BY <2>1, <2>2
  <2>5. WorkTyped' /\ JobShape'
    BY <1>1, <1>7, <2>3, <2>4, AdmissionTyped
  <2> QED
    BY <1>1, <1>7, <2>5 DEF StartCommit, TypeInv, WireTyped, LoginTyped, loginVars
<1>8. CASE /\ StartHandler(c)
           /\ UNCHANGED <<queue, serial, blocked, conn>>
  <2>1. "running" \in Stages
    BY DEF Stages, Working
  <2>2. job' = [job EXCEPT ![c] = Admitted("running", 0)]
    BY <1>8 DEF StartHandler
  <2>3. WorkTyped' /\ JobShape'
    BY <1>0, <1>1, <1>8, <2>1, <2>2, AdmissionTyped
  <2> QED
    BY <1>1, <1>8, <2>3 DEF StartHandler, TypeInv, WireTyped, LoginTyped, loginVars
<1> QED
  BY <1>2, <1>3, <1>4, <1>5, <1>6, <1>7, <1>8
  DEF Handle, HandleAuthenticate, HandlePrivileged, loginVars

LEMMA ReceiveTyped ==
  ASSUME TypeInv, NEW c \in Conns, Receive(c)
  PROVE  TypeInv'
<1>1. PICK r : r = Head(script[c])
  OBVIOUS
<1>2. r \in Frames /\ Tail(script[c]) \in Seq(Frames)
  BY <1>1, HeadTailProperties DEF Receive, TypeInv, WireTyped
<1>3. script' \in [Conns -> Seq(Frames)]
  BY <1>2 DEF Receive, TypeInv, WireTyped
<1>4. CASE conn' = [conn EXCEPT ![c] = "destroyed"] /\ UNCHANGED queue
  BY <1>3, <1>4 DEF Receive, TypeInv, WireTyped, WorkTyped, JobShape, AuthTyped, authVars,
    LoginTyped, loginVars
<1>5. CASE /\ WellFormed(r) /\ Len(queue[c]) # MaxQueued
           /\ conn' = [conn EXCEPT ![c] = IF @ = "fresh" THEN "open" ELSE @]
           /\ queue' = [queue EXCEPT ![c] = Append(@, r)]
  <2>1. r \in Accepted
    BY <1>2, <1>5 DEF Accepted
  <2>2. /\ Append(queue[c], r) \in Seq(Accepted)
        /\ Append(queue[c], r) # <<>>
        /\ Len(Append(queue[c], r)) = Len(queue[c]) + 1
        /\ Len(queue[c]) \in Nat
    BY <2>1, AppendProperties, LenProperties DEF TypeInv, WorkTyped
  <2>3. Len(queue[c]) + 1 <= MaxQueued
    BY <1>5, <2>2, OperatorAssumption DEF TypeInv, WorkTyped
  <2>4. WorkTyped' /\ JobShape'
    BY <1>5, <2>2, <2>3 DEF Receive, TypeInv, WorkTyped, JobShape, authVars
  <2>5. conn' \in [Conns -> Listening \cup {"destroyed", "closed"}]
    BY <1>5 DEF TypeInv, WireTyped, Listening
  <2> QED
    BY <1>3, <2>4, <2>5 DEF Receive, TypeInv, WireTyped, AuthTyped, authVars, LoginTyped, loginVars
<1>6. CASE UNCHANGED <<conn, queue>>
  BY <1>3, <1>6 DEF Receive, TypeInv, WireTyped, WorkTyped, JobShape, AuthTyped, authVars,
    LoginTyped, loginVars
<1> QED
  BY <1>1, <1>4, <1>5, <1>6 DEF Receive

(* An entry joins the serial queue. *)
LEMMA EntryTyped ==
  ASSUME TypeInv, NEW e \in Entries
  PROVE  Append(serial, e) \in Seq(Entries)
BY AppendProperties DEF TypeInv, WorkTyped

LEMMA EnvironmentTyped == TypeInv /\ Environment => TypeInv'
<1> SUFFICES ASSUME TypeInv, Environment PROVE TypeInv'
  OBVIOUS
<1>1. ASSUME NEW c \in Conns, FirstFrameTimeout(c) \/ PeerLeaves(c) PROVE TypeInv'
  <2>1. conn' \in [Conns -> Listening \cup {"destroyed", "closed"}]
    BY <1>1 DEF FirstFrameTimeout, PeerLeaves, TypeInv, WireTyped, Listening
  <2> QED
    BY <1>1, <2>1 DEF FirstFrameTimeout, PeerLeaves, TypeInv, WireTyped, WorkTyped, workVars,
      JobShape, AuthTyped, authVars, LoginTyped, loginVars
<1>2. ASSUME NEW c \in Conns, PeerReads(c) PROVE TypeInv'
  BY <1>2 DEF PeerReads, TypeInv, WireTyped, WorkTyped, workVars, JobShape, AuthTyped, authVars,
    LoginTyped, loginVars
<1>3. ASSUME NEW l \in Flows, Answer(l) PROVE TypeInv'
  <2>1. [conn |-> l[1], flow |-> l[2]] \in Entries
    BY FlowsAre, OperatorAssumption DEF Entries
  <2>2. serial' \in Seq(Entries)
    BY <1>3, <2>1, EntryTyped DEF Answer
  <2> QED
    BY <1>3, <2>2 DEF Answer, TypeInv, WireTyped, wireVars, WorkTyped, JobShape, AuthTyped, authVars,
      LoginTyped
<1>4. CASE CoolDown
  <2>1. cooling' \in BOOLEAN
    BY <1>4 DEF CoolDown
  <2> QED
    BY <1>4, <2>1 DEF CoolDown, TypeInv, WireTyped, wireVars, WorkTyped, workVars, JobShape, AuthTyped,
      LoginTyped, loginVars
<1>5. CASE Shutdown
  <2>1. conn' \in [Conns -> Listening \cup {"destroyed", "closed"}]
    BY <1>5 DEF Shutdown, Close, TypeInv, WireTyped, Listening
  <2> QED
    BY <1>5, <2>1 DEF Shutdown, Close, TypeInv, WireTyped, WorkTyped, workVars, JobShape, AuthTyped,
      authVars, LoginTyped, loginVars
<1> QED
  BY <1>1, <1>2, <1>3, <1>4, <1>5, ReceiveTyped DEF Environment

LEMMA SignInTyped ==
  ASSUME TypeInv, NEW l \in Flows, SignIn(l)
  PROVE  TypeInv'
<1>1. /\ UNCHANGED <<wireVars, workVars, authVars, answering, saved, down>>
      /\ pending' \subseteq Flows
  BY DEF SignIn, ConnectEnds, SignInError, SignInSucceeds, Ask, PublishLogin, DisposeEnds, TypeInv,
    LoginTyped
<1>2. WireTyped' /\ WorkTyped' /\ AuthTyped' /\ JobShape'
  BY <1>1 DEF TypeInv, WireTyped, wireVars, WorkTyped, workVars, AuthTyped, authVars, JobShape
<1>3. login[l] \in Logins /\ client[l] \in Clients
  BY DEF TypeInv, LoginTyped
<1>4. ASSUME NEW ph \in {"failed", "signing", "signed", "asking", "ok"},
             login' = [login EXCEPT ![l].phase = ph]
      PROVE  login' \in [Flows -> Logins]
  BY <1>3, <1>4 DEF Logins, SigningIn, TypeInv, LoginTyped
<1>5. ASSUME Fails(l) PROVE login' \in [Flows -> Logins] /\ client' \in [Flows -> Clients]
  BY <1>4, <1>5, DisposedTyped DEF Fails, TypeInv
<1>6. ASSUME login' \in [Flows -> Logins], client' \in [Flows -> Clients] PROVE TypeInv'
  BY <1>1, <1>2, <1>6 DEF TypeInv, LoginTyped
<1>7. CASE ConnectEnds(l)
  BY <1>4, <1>5, <1>6, <1>7 DEF ConnectEnds, TypeInv, LoginTyped
<1>8. CASE SignInError(l)
  <2>1. CASE Fails(l)
    BY <1>5, <1>6, <2>1
  <2>2. CASE /\ login[l].attempts + 1 < MaxLoginAttempts
             /\ login' = [login EXCEPT ![l].attempts = @ + 1]
             /\ UNCHANGED client
    <3>1. login[l].attempts + 1 \in 0..MaxLoginAttempts
      BY <1>3, <2>2, OperatorAssumption DEF Logins
    <3>2. login' \in [Flows -> Logins]
      BY <1>3, <2>2, <3>1 DEF Logins, TypeInv, LoginTyped
    <3> QED
      BY <1>6, <2>2, <3>2 DEF TypeInv, LoginTyped
  <2>3. login[l].attempts \in 0..MaxLoginAttempts
    BY <1>3 DEF Logins
  <2> QED
    BY <1>8, <2>1, <2>2, <2>3, OperatorAssumption DEF SignInError
<1>9. CASE SignInSucceeds(l) \/ Ask(l)
  BY <1>4, <1>6, <1>9 DEF SignInSucceeds, Ask, TypeInv, LoginTyped
<1>10. CASE PublishLogin(l)
  BY <1>4, <1>5, <1>6, <1>10 DEF PublishLogin, TypeInv, LoginTyped
<1>11. CASE DisposeEnds(l)
  BY <1>6, <1>11 DEF DisposeEnds, TypeInv, LoginTyped, Clients
<1> QED
  BY <1>7, <1>8, <1>9, <1>10, <1>11 DEF SignIn

LEMMA ClosingTyped ==
  ASSUME TypeInv, Teardown \/ \E c \in Conns : Disconnect(c)
  PROVE  TypeInv'
<1>1. ASSUME NEW c \in Conns, Disconnect(c) PROVE TypeInv'
  <2>1. conn' \in [Conns -> Listening \cup {"destroyed", "closed"}] /\ blocked' \in [Conns -> BOOLEAN]
    BY <1>1 DEF Disconnect, TypeInv, WireTyped
  <2>2. client' \in [Flows -> Clients] /\ login' \in [Flows -> Logins]
    BY <1>1, DisposedTyped, RevokedTyped DEF Disconnect, TypeInv
  <2> QED
    BY <1>1, <2>1, <2>2 DEF Disconnect, TypeInv, WireTyped, WorkTyped, workVars, AuthTyped, authVars,
      JobShape, LoginTyped
<1>2. CASE Drained
  <2>1. client' \in [Flows -> Clients]
    BY <1>2, DisposedTyped DEF Drained, TypeInv
  <2> QED
    BY <1>2, <2>1 DEF Drained, TypeInv, WireTyped, wireVars, WorkTyped, workVars, AuthTyped, authVars,
      JobShape, LoginTyped
<1>3. CASE LoginsDisposed
  BY <1>3 DEF LoginsDisposed, TypeInv, WireTyped, wireVars, WorkTyped, workVars, AuthTyped, authVars,
    JobShape, LoginTyped, loginVars
<1> QED
  BY <1>1, <1>2, <1>3 DEF Teardown

LEMMA TakingTyped ==
  ASSUME TypeInv, NEW c \in Conns, TakeRequest(c) \/ TakeTurn(c)
  PROVE  TypeInv'
<1>1. CASE TakeTurn(c)
  <2>1. queue[c] # <<>>
    BY <1>1 DEF TakeTurn, TypeInv, WorkTyped, Idle
  <2> QED
    BY <1>1, <2>1, HandleTyped DEF TakeTurn
<1>2. CASE TakeRequest(c)
  <2>1. queue[c] # <<>> /\ job[c] = Idle
    BY <1>2 DEF TakeRequest, TypeInv, JobShape
  <2>2. CASE /\ queue' = [queue EXCEPT ![c] = Tail(@)]
             /\ UNCHANGED <<conn, job, serial, blocked, loginVars>>
    <3>1. /\ Tail(queue[c]) \in Seq(Accepted)
          /\ Len(Tail(queue[c])) <= MaxQueued
      BY <2>1, RequestAccepted, OperatorAssumption DEF TypeInv, WorkTyped
    <3>2. WorkTyped' /\ JobShape'
      BY <1>2, <2>1, <2>2, <3>1 DEF TakeRequest, authVars, TypeInv, WorkTyped, JobShape
    <3> QED
      BY <1>2, <2>2, <3>2 DEF TakeRequest, TypeInv, WireTyped, AuthTyped, authVars, LoginTyped, loginVars
  <2>3. CASE /\ job' = [job EXCEPT ![c].stage = "waiting"]
             /\ serial' = Append(serial, [conn |-> c, flow |-> 0])
             /\ UNCHANGED <<conn, queue, blocked, loginVars>>
    <3>0. [conn |-> c, flow |-> 0] \in Entries
      BY OperatorAssumption DEF Entries
    <3>1. serial' \in Seq(Entries)
      BY <2>3, <3>0, EntryTyped
    <3>2. [job[c] EXCEPT !.stage = "waiting"] \in Jobs
      BY DEF TypeInv, WorkTyped, Jobs, Stages
    <3>3. WorkTyped' /\ JobShape'
      BY <1>2, <2>1, <2>3, <3>1, <3>2 DEF TakeRequest, authVars, TypeInv, WorkTyped, Jobs, JobShape
    <3> QED
      BY <1>2, <2>3, <3>3 DEF TakeRequest, TypeInv, WireTyped, AuthTyped, authVars, LoginTyped, loginVars
  <2>4. CASE Handle(c)
    BY <1>2, <2>1, <2>4, HandleTyped DEF TakeRequest
  <2> QED
    BY <1>2, <2>2, <2>3, <2>4 DEF TakeRequest
<1> QED
  BY <1>1, <1>2

LEMMA AnswerTyped ==
  ASSUME TypeInv, NEW l \in Flows, HandleAnswer(l)
  PROVE  TypeInv'
<1>1. serial' \in Seq(Entries)
  BY SerialHead DEF HandleAnswer, TypeInv
<1>2. login' \in [Flows -> Logins]
  <2>1. login[l] \in Logins
    BY DEF TypeInv, LoginTyped
  <2> QED
    BY <2>1 DEF HandleAnswer, TypeInv, LoginTyped, Logins, SigningIn
<1> QED
  BY <1>1, <1>2 DEF HandleAnswer, TypeInv, WireTyped, wireVars, WorkTyped, AuthTyped, authVars, JobShape,
    LoginTyped

LEMMA AuthenticateTyped ==
  ASSUME TypeInv, NEW c \in Conns, AuthenticateEnds(c)
  PROVE  TypeInv'
<1>1. queue[c] # <<>>
  BY DEF AuthenticateEnds, TypeInv, WorkTyped, Idle
<1>2. credential' = credential
  BY DEF AuthenticateEnds
<1>3. WorkTyped' /\ JobShape' /\ blocked' \in [Conns -> BOOLEAN]
  BY <1>1, <1>2, ReplyTyped DEF AuthenticateEnds
<1>4. job[c].checked \in 0..credential
  BY DEF TypeInv, WorkTyped, AuthTyped, Jobs, JobShape
<1>5. PICK right \in BOOLEAN :
        LET opens == posture = "none" \/ (posture = "hardened" /\ right) IN
        /\ authenticated' = IF opens THEN [authenticated EXCEPT ![c] = generation] ELSE authenticated
        /\ proven' = IF opens /\ posture = "hardened"
                       THEN [proven EXCEPT ![c] = job[c].checked] ELSE proven
        /\ failures' = IF opens THEN 0 ELSE IF failures = 3 THEN 3 ELSE failures + 1
        /\ cooling' = (~opens /\ failures' >= 2)
  BY DEF AuthenticateEnds
<1>6. authenticated' \in [Conns -> 0..generation]
  BY <1>5 DEF TypeInv, AuthTyped
<1>7. proven' \in [Conns -> 0..credential]
  BY <1>4, <1>5 DEF TypeInv, AuthTyped
<1>8. failures' \in 0..3
  BY <1>5 DEF TypeInv, AuthTyped
<1>9. cooling' \in BOOLEAN
  BY <1>5
<1>10. AuthTyped'
  BY <1>6, <1>7, <1>8, <1>9 DEF AuthenticateEnds, TypeInv, AuthTyped
<1> QED
  BY <1>3, <1>10 DEF AuthenticateEnds, TypeInv, WireTyped, LoginTyped, loginVars

(* A handler has returned; the store may be under another secret. *)
LEMMA ReturnTyped ==
  ASSUME TypeInv, NEW c \in Conns, job[c].stage \in Working, NEW ok \in BOOLEAN,
         HandlerReturns(c, ok),
         UNCHANGED <<queue, serial, generation, authenticated, bootSource, failures, cooling>>
  PROVE  WorkTyped' /\ AuthTyped' /\ JobShape'
<1>1. queue[c] # <<>>
  BY DEF TypeInv, WorkTyped, Idle, Working
<1>2. PostureAfter(c) \in {"none", "smooth", "hardened"}
  BY DEF PostureAfter, PostureUnder, TypeInv, AuthTyped
<1>3. /\ credential' \in Nat \ {0} /\ credential <= credential'
      /\ proven' \in [Conns -> 0..credential']
      /\ posture' \in {"none", "smooth", "hardened"}
  BY <1>2 DEF HandlerReturns, Reseals, TypeInv, AuthTyped
<1>4. PICK j : j = [job[c] EXCEPT !.stage = "done", !.ok = ok]
  OBVIOUS
<1>5. j \in Jobs /\ j.stage = "done" /\ j.checked = job[c].checked
  BY <1>4 DEF TypeInv, WorkTyped, Jobs, Stages
<1>6. job' = [job EXCEPT ![c] = j]
  BY <1>4 DEF HandlerReturns, TypeInv, WorkTyped
<1>7. j.checked <= credential'
  BY <1>3, <1>5 DEF TypeInv, WorkTyped, AuthTyped, Jobs, JobShape
<1>8. WorkTyped' /\ JobShape'
  BY <1>1, <1>3, <1>5, <1>6, <1>7, StageTyped
<1> QED
  BY <1>3, <1>8 DEF TypeInv, AuthTyped

LEMMA HandlerTyped ==
  ASSUME TypeInv, NEW c \in Conns, HandlerEnds(c) \/ RetireForCommit(c) \/ SaveLogin(c)
  PROVE  TypeInv'
<1>1. CASE HandlerEnds(c)
  <2>1. WorkTyped' /\ AuthTyped' /\ JobShape'
    BY <1>1, ReturnTyped DEF HandlerEnds, Working
  <2> QED
    BY <1>1, <2>1 DEF HandlerEnds, TypeInv, WireTyped, wireVars, LoginTyped, loginVars
<1>2. CASE RetireForCommit(c)
  <2>1. queue[c] # <<>>
    BY <1>2 DEF RetireForCommit, TypeInv, WorkTyped, Idle
  <2>2. PICK st \in {"closing", "done"} : job' = [job EXCEPT ![c].stage = st]
    BY <1>2 DEF RetireForCommit
  <2>3. PICK j : j = [job[c] EXCEPT !.stage = st]
    OBVIOUS
  <2>4. j \in Jobs /\ j.stage = st /\ j.flow = job[c].flow /\ j.checked = job[c].checked
    BY <2>3 DEF TypeInv, WorkTyped, Jobs, Stages, Working
  <2>5. job' = [job EXCEPT ![c] = j]
    BY <2>2, <2>3 DEF TypeInv, WorkTyped
  <2>6. j.flow # 0 /\ j.checked <= credential' /\ credential' \in Nat /\ credential <= credential'
    BY <1>2, <2>4 DEF RetireForCommit, authVars, TypeInv, AuthTyped, JobShape
  <2>7. WorkTyped' /\ JobShape'
    BY <1>2, <2>1, <2>2, <2>4, <2>5, <2>6, StageTyped DEF RetireForCommit
  <2>8. client' \in [Flows -> Clients]
    BY <1>2, DisposedTyped DEF RetireForCommit, TypeInv
  <2> QED
    BY <1>2, <2>7, <2>8 DEF RetireForCommit, TypeInv, WireTyped, wireVars, AuthTyped, authVars, LoginTyped
<1>3. CASE SaveLogin(c)
  <2>1. WorkTyped' /\ AuthTyped' /\ JobShape'
    BY <1>3, ReturnTyped DEF SaveLogin, Working
  <2>2. FlowOf(c) \in Flows
    BY <1>3, FlowsAre DEF SaveLogin, FlowOf, TypeInv, WorkTyped, Jobs, JobShape
  <2> QED
    BY <1>3, <2>1, <2>2 DEF SaveLogin, TypeInv, WireTyped, wireVars, LoginTyped
<1> QED
  BY <1>1, <1>2, <1>3

LEMMA ConclusionTyped ==
  ASSUME TypeInv, NEW c \in Conns, Conclude(c) \/ CancelEnds(c) \/ EndFlush(c) \/ EndStop(c)
  PROVE  TypeInv'
<1>1. queue[c] # <<>>
  BY DEF Conclude, CancelEnds, EndFlush, EndStop, TypeInv, WorkTyped, Idle
<1>2. credential' = credential
  BY DEF Conclude, CancelEnds, EndFlush, EndStop, authVars
<1>3. CASE Conclude(c)
  <2>1. WorkTyped' /\ JobShape' /\ blocked' \in [Conns -> BOOLEAN]
    BY <1>1, <1>2, <1>3, ReplyTyped DEF Conclude
  <2>2. AuthTyped'
    BY <1>3 DEF Conclude, TypeInv, AuthTyped
  <2>3. login' \in [Flows -> Logins] /\ client' \in [Flows -> Clients]
    BY <1>3, DisposedTyped, RevokedTyped DEF Conclude, TypeInv, LoginTyped
  <2> QED
    BY <1>3, <2>1, <2>2, <2>3 DEF Conclude, TypeInv, WireTyped, LoginTyped
<1>4. CASE CancelEnds(c)
  <2>1. WorkTyped' /\ JobShape' /\ blocked' \in [Conns -> BOOLEAN]
    BY <1>1, <1>2, <1>4, ReplyTyped DEF CancelEnds
  <2> QED
    BY <1>4, <2>1 DEF CancelEnds, TypeInv, WireTyped, AuthTyped, authVars, LoginTyped, loginVars
<1>5. CASE EndFlush(c)
  <2>1. WorkTyped' /\ JobShape'
    BY <1>1, <1>2, <1>5, EndsTyped DEF EndFlush
  <2> QED
    BY <1>5, <2>1 DEF EndFlush, TypeInv, WireTyped, wireVars, AuthTyped, authVars, LoginTyped, loginVars
<1>6. CASE EndStop(c)
  <2>1. /\ Tail(queue[c]) \in Seq(Accepted)
        /\ Len(Tail(queue[c])) <= MaxQueued
    BY <1>1, RequestAccepted, OperatorAssumption DEF TypeInv, WorkTyped
  <2>2. Idle \in Jobs /\ Idle.stage = "idle" /\ Idle.checked = 0
    BY OperatorAssumption DEF Idle, Jobs, Stages
  <2>3. WorkTyped' /\ JobShape'
    BY <1>2, <1>6, <2>1, <2>2 DEF EndStop, TypeInv, WorkTyped, JobShape, AuthTyped
  <2>4. conn' \in [Conns -> Listening \cup {"destroyed", "closed"}] /\ down' \in {"up", "draining", "disposing", "down"}
    BY <1>6 DEF EndStop, Close, TypeInv, WireTyped, Listening, LoginTyped
  <2> QED
    BY <1>6, <2>3, <2>4 DEF EndStop, TypeInv, WireTyped, AuthTyped, authVars, LoginTyped, loginVars
<1> QED
  BY <1>3, <1>4, <1>5, <1>6

LEMMA ConcludeLoginTyped ==
  ASSUME TypeInv, NEW c \in Conns, ConcludeLogin(c)
  PROVE  TypeInv'
<1>1. queue[c] # <<>> /\ credential' = credential
  BY DEF ConcludeLogin, TypeInv, WorkTyped, Idle, authVars
<1>2. WorkTyped' /\ JobShape' /\ blocked' \in [Conns -> BOOLEAN]
  <2>1. CASE Reply(c)
    BY <1>1, <2>1, ReplyTyped
  <2>2. CASE job' = [job EXCEPT ![c].stage = "cancelling"] /\ UNCHANGED <<queue, serial, blocked>>
    <3>1. PICK j : j = [job[c] EXCEPT !.stage = "cancelling"]
      OBVIOUS
    <3>2. j \in Jobs /\ j.stage = "cancelling" /\ j.checked = job[c].checked
      BY <3>1 DEF TypeInv, WorkTyped, Jobs, Stages
    <3>3. job' = [job EXCEPT ![c] = j]
      BY <2>2, <3>1 DEF TypeInv, WorkTyped
    <3>4. j.checked <= credential' /\ credential' \in Nat /\ credential <= credential'
      BY <1>1, <3>2 DEF TypeInv, AuthTyped, JobShape
    <3> QED
      BY <1>1, <2>2, <3>2, <3>3, <3>4, StageTyped DEF TypeInv, WireTyped
  <2> QED
    BY <2>1, <2>2 DEF ConcludeLogin
<1>3. FlowOf(c) \in Flows
  BY FlowsAre DEF ConcludeLogin, FlowOf, TypeInv, WorkTyped, Jobs, JobShape
<1>4. login' \in [Flows -> Logins]
  <2>1. login[FlowOf(c)] \in Logins
    BY <1>3 DEF TypeInv, LoginTyped
  <2> QED
    BY <1>3, <2>1 DEF ConcludeLogin, TypeInv, LoginTyped, Logins
<1>5. client' \in [Flows -> Clients] /\ pending' \subseteq Flows
  BY DisposedTyped DEF ConcludeLogin, TypeInv, LoginTyped
<1> QED
  BY <1>2, <1>4, <1>5 DEF ConcludeLogin, TypeInv, WireTyped, AuthTyped, authVars, LoginTyped

LEMMA TypesKept == TypeInv /\ [OperatorNext]_operatorVars => TypeInv'
<1> SUFFICES ASSUME TypeInv, [OperatorNext]_operatorVars PROVE TypeInv'
  OBVIOUS
<1>1. CASE UNCHANGED operatorVars
  BY <1>1 DEF operatorVars, TypeInv, WireTyped, wireVars, WorkTyped, workVars, AuthTyped, authVars,
    JobShape, LoginTyped, loginVars
<1>2. ASSUME NEW c \in Conns, Serve(c) PROVE TypeInv'
  BY <1>2, FlowsAre, TakingTyped, AnswerTyped, AuthenticateTyped, HandlerTyped, ConclusionTyped,
    ConcludeLoginTyped DEF Serve
<1> QED
  BY <1>1, <1>2, EnvironmentTyped, SignInTyped, ClosingTyped DEF OperatorNext

(* Every state of the operator plane has its types, whatever the peers  *)
(* send and however long the queues are (operator/server.ts).           *)
THEOREM OperatorTypes == OperatorSpec => []OperatorTypeOK
<1>1. OperatorSpec => []TypeInv
  BY TypesInitially, TypesKept, PTL DEF OperatorSpec
<1>2. TypeInv => OperatorTypeOK
  BY TypesTogether DEF TypeInv
<1> QED
  BY <1>1, <1>2, PTL

-----------------------------------------------------------------------------
(* The serial queue.                                                       *)

(* A serial operation that is at work, or has just returned. *)
AtWork == Working \cup {"done"}

Queued(c) == \E i \in 1..Len(serial) : serial[i] = [conn |-> c, flow |-> 0]

(* Only the head of the queue is at work, and what waits is in the queue; *)
(* after a drain there is neither.                                        *)
SerialInv ==
  \A c \in Conns :
    /\ job[c].stage \in AtWork => IsHead(c)
    /\ job[c].stage = "waiting" => Queued(c) /\ IsSerial(Request(c).op)
    /\ job[c].stage \in {"retiring", "closing"} => Request(c).op = "login.commit"
    /\ down \in {"disposing", "down"} => job[c].stage \notin AtWork \cup {"waiting"}

(* Only one connection is at work. *)
LEMMA OneAtWork ==
  ASSUME SerialInv, NEW c \in Conns, NEW d \in Conns,
         job[c].stage \in AtWork, IsHead(d) \/ job[d].stage \in AtWork
  PROVE  c = d
BY DEF SerialInv, IsHead

(* The job of one connection becomes j, and its entry may leave the queue. *)
JobMoves(c, j) ==
  /\ job' = [job EXCEPT ![c] = j]
  /\ \A d \in Conns \ {c} : queue'[d] = queue[d]
  /\ serial' = serial \/ (IsHead(c) /\ serial' = Tail(serial))
  /\ j.stage # "waiting"
  /\ j.stage \in AtWork => /\ queue'[c] = queue[c]
                           /\ serial' = serial
                           /\ IsHead(c)
                           /\ job[c].stage \in AtWork \cup {"waiting"}
  /\ j.stage \in {"retiring", "closing"} => Request(c).op = "login.commit"

LEMMA EntryStays ==
  ASSUME WorkTyped, NEW c \in Conns, Queued(c), serial # <<>>,
         serial' = serial \/ (~IsHead(c) /\ serial' = Tail(serial))
           \/ \E e \in Entries : serial' = Append(serial, e)
  PROVE  Queued(c)'
<1>1. CASE serial' = serial
  BY <1>1 DEF Queued
<1>2. CASE ~IsHead(c) /\ serial' = Tail(serial)
  <2>1. PICK i \in 1..Len(serial) : serial[i] = [conn |-> c, flow |-> 0]
    BY DEF Queued
  <2>2. i # 1
    BY <1>2, <2>1 DEF IsHead, WorkTyped
  <2>3. Len(serial) \in Nat /\ Len(Tail(serial)) = Len(serial) - 1
        /\ \A k \in 1..Len(Tail(serial)) : Tail(serial)[k] = serial[k + 1]
    BY HeadTailProperties, LenProperties DEF WorkTyped
  <2>4. i - 1 \in 1..Len(Tail(serial)) /\ Tail(serial)[i - 1] = [conn |-> c, flow |-> 0]
    BY <2>1, <2>2, <2>3
  <2> QED
    BY <1>2, <2>4 DEF Queued
<1>3. ASSUME NEW e \in Entries, serial' = Append(serial, e) PROVE Queued(c)'
  <2>1. PICK i \in 1..Len(serial) : serial[i] = [conn |-> c, flow |-> 0]
    BY DEF Queued
  <2>2. i \in 1..Len(serial') /\ serial'[i] = serial[i]
    BY <1>3, <2>1, AppendProperties, LenProperties DEF WorkTyped
  <2> QED
    BY <2>1, <2>2 DEF Queued
<1> QED
  BY <1>1, <1>2, <1>3

LEMMA MovesKeepSerial ==
  ASSUME TypeInv, SerialInv, NEW c \in Conns, NEW j, JobMoves(c, j),
         down' = down \/ (down = "up" /\ down' = "draining")
  PROVE  SerialInv'
<1> SUFFICES ASSUME NEW d \in Conns
             PROVE  /\ job'[d].stage \in AtWork => IsHead(d)'
                    /\ job'[d].stage = "waiting" => Queued(d)' /\ IsSerial(Request(d)'.op)
                    /\ job'[d].stage \in {"retiring", "closing"} => Request(d)'.op = "login.commit"
                    /\ down' \in {"disposing", "down"} => job'[d].stage \notin AtWork \cup {"waiting"}
  BY DEF SerialInv
<1>1. CASE d = c
  <2>1. job'[d] = j
    BY <1>1 DEF JobMoves, TypeInv, WorkTyped
  <2>2. j.stage \in {"retiring", "closing"} => j.stage \in AtWork
    BY DEF AtWork, Working
  <2> QED
    BY <1>1, <2>1, <2>2 DEF JobMoves, SerialInv, IsHead, Request
<1>2. CASE d # c
  <2>1. job'[d] = job[d] /\ queue'[d] = queue[d]
    BY <1>2 DEF JobMoves, TypeInv, WorkTyped
  <2>2. IsHead(c) => ~IsHead(d)
    BY <1>2 DEF IsHead
  <2>3. IsHead(d) => IsHead(d)'
    BY <2>2 DEF JobMoves, IsHead
  <2>4. Queued(d) => serial # <<>>
    BY LenProperties DEF Queued
  <2>5. Queued(d) => Queued(d)'
    BY <2>2, <2>4, EntryStays DEF JobMoves, TypeInv
  <2> QED
    BY <2>1, <2>3, <2>5 DEF SerialInv, Request
<1> QED
  BY <1>1, <1>2

(* What a reply makes of the job. *)
LEMMA ReplyMoves ==
  ASSUME TypeInv, NEW c \in Conns, Reply(c)
  PROVE  \E j : JobMoves(c, j) /\ j.stage \in {"idle", "flush"}
<1>1. CASE job' = [job EXCEPT ![c] = Idle] /\ queue' = [queue EXCEPT ![c] = Tail(@)]
           /\ serial' = (IF IsHead(c) THEN Tail(serial) ELSE serial)
  <2>1. Idle.stage = "idle"
    BY DEF Idle
  <2> QED
    BY <1>1, <2>1 DEF JobMoves, AtWork, Working, TypeInv, WorkTyped
<1>2. CASE job' = [job EXCEPT ![c].stage = "flush"] /\ UNCHANGED <<queue, serial>>
  <2>1. PICK j : j = [job[c] EXCEPT !.stage = "flush"]
    OBVIOUS
  <2>2. j.stage = "flush" /\ job' = [job EXCEPT ![c] = j]
    BY <1>2, <2>1 DEF TypeInv, WorkTyped, Jobs
  <2> QED
    BY <1>2, <2>2 DEF JobMoves, AtWork, Working
<1> QED
  BY <1>1, <1>2 DEF Reply

(* A request that is handled in its turn, or needs none. *)
LEMMA HandleMoves ==
  ASSUME TypeInv, NEW c \in Conns, Handle(c),
         (IsHead(c) /\ job[c].stage = "waiting") \/ ~IsSerial(Request(c).op)
  PROVE  \E j : JobMoves(c, j)
<1>1. CASE Reply(c)
  BY <1>1, ReplyMoves
<1>2. ASSUME NEW st, NEW j, j.stage = st, job' = [job EXCEPT ![c] = j],
             UNCHANGED <<queue, serial>>,
             \/ st \in {"ending", "login", "cancelling"}
             \/ IsSerial(Request(c).op) /\ st \in {"running", "done"}
             \/ Request(c).op = "login.commit" /\ st = "retiring"
      PROVE  JobMoves(c, j)
  BY <1>2 DEF JobMoves, AtWork, Working, IsSerial
<1>3. CASE HandleStop(c)
  <2>1. PICK j : j = [Idle EXCEPT !.stage = "ending"]
    OBVIOUS
  <2>2. j.stage = "ending"
    BY <2>1 DEF Idle
  <2> QED
    BY <1>2, <1>3, <2>1, <2>2 DEF HandleStop
<1>4. CASE /\ Request(c).op = "authenticate"
           /\ job' = [job EXCEPT ![c] = [Idle EXCEPT !.stage = "running", !.checked = credential]]
           /\ UNCHANGED <<queue, serial>>
  <2>1. PICK j : j = [Idle EXCEPT !.stage = "running", !.checked = credential]
    OBVIOUS
  <2>2. j.stage = "running"
    BY <2>1 DEF Idle
  <2>3. IsSerial(Request(c).op)
    BY <1>4 DEF IsSerial
  <2> QED
    BY <1>2, <1>4, <2>1, <2>2, <2>3
<1>5. CASE StartLogin(c) /\ UNCHANGED <<queue, serial>>
  <2>1. PICK n \in 1..MaxLogins : job' = [job EXCEPT ![c] = Admitted("login", n)]
    BY <1>5 DEF StartLogin
  <2>2. Admitted("login", n).stage = "login"
    BY DEF Admitted, Idle
  <2> QED
    BY <1>2, <1>5, <2>1, <2>2
<1>6. CASE StartCancel(c) /\ UNCHANGED <<queue, serial>>
  <2>1. PICK n \in 0..MaxLogins : job' = [job EXCEPT ![c] = Admitted("cancelling", n)]
    BY <1>6 DEF StartCancel
  <2>2. Admitted("cancelling", n).stage = "cancelling"
    BY DEF Admitted, Idle
  <2> QED
    BY <1>2, <1>6, <2>1, <2>2
<1>7. CASE StartCommit(c) /\ Request(c).op = "login.commit" /\ UNCHANGED <<queue, serial>>
  <2>1. PICK n \in 0..MaxLogins, st \in {"done", "retiring"} :
          job' = [job EXCEPT ![c] = Admitted(st, n)]
    BY <1>7 DEF StartCommit
  <2>2. Admitted(st, n).stage = st
    BY DEF Admitted, Idle
  <2>3. IsSerial(Request(c).op)
    BY <1>7 DEF IsSerial
  <2> QED
    BY <1>2, <1>7, <2>1, <2>2, <2>3
<1>8. CASE /\ StartHandler(c)
           /\ Request(c).op \notin {"status", "stop", "login.begin", "login.cancel"}
           /\ UNCHANGED <<queue, serial>>
  <2>1. Admitted("running", 0).stage = "running"
    BY DEF Admitted, Idle
  <2>2. IsSerial(Request(c).op)
    BY <1>8 DEF IsSerial
  <2> QED
    BY <1>2, <1>8, <2>1, <2>2 DEF StartHandler
<1> QED
  BY <1>1, <1>3, <1>4, <1>5, <1>6, <1>7, <1>8 DEF Handle, HandleAuthenticate, HandlePrivileged

(* The requests of a connection grow at the end. *)
LEMMA ReceiveKeepsRequest ==
  ASSUME TypeInv, NEW c \in Conns, Receive(c), NEW d \in Conns, queue[d] # <<>>
  PROVE  queue'[d] # <<>> /\ Request(d)' = Request(d)
<1>1. CASE UNCHANGED queue
  BY <1>1 DEF Request
<1>2. CASE queue' = [queue EXCEPT ![c] = Append(@, Head(script[c]))]
  <2>1. CASE d = c
    <3>1. Head(Append(queue[c], Head(script[c]))) = Head(queue[c])
          /\ Append(queue[c], Head(script[c])) # <<>>
      BY <2>1, HeadTailAppend DEF TypeInv, WorkTyped
    <3> QED
      BY <1>2, <2>1, <3>1 DEF Request, TypeInv, WorkTyped
  <2>2. CASE d # c
    BY <1>2, <2>2 DEF Request, TypeInv, WorkTyped
  <2> QED
    BY <2>1, <2>2
<1> QED
  BY <1>1, <1>2 DEF Receive

(* Steps that touch neither the jobs nor the serial queue. *)
Quiet ==
  /\ UNCHANGED <<job, serial>>
  /\ \A d \in Conns : queue[d] # <<>> => Request(d)' = Request(d)

LEMMA QuietKeepsSerial ==
  ASSUME TypeInv, SerialInv, Quiet,
         \/ down' \in {"disposing", "down"} => down \in {"disposing", "down"}
         \/ Drained
  PROVE  SerialInv'
<1> SUFFICES ASSUME NEW d \in Conns
             PROVE  /\ job'[d].stage \in AtWork => IsHead(d)'
                    /\ job'[d].stage = "waiting" => Queued(d)' /\ IsSerial(Request(d)'.op)
                    /\ job'[d].stage \in {"retiring", "closing"} => Request(d)'.op = "login.commit"
                    /\ down' \in {"disposing", "down"} => job'[d].stage \notin AtWork \cup {"waiting"}
  BY DEF SerialInv
<1>1. job[d].stage \in {"waiting", "retiring", "closing"} => queue[d] # <<>>
  BY DEF TypeInv, WorkTyped, Idle
<1>2. Drained => job[d].stage \notin AtWork \cup {"waiting"}
  <2> SUFFICES ASSUME Drained PROVE job[d].stage \notin AtWork \cup {"waiting"}
    OBVIOUS
  <2>1. serial = <<>> /\ Len(serial) = 0
    BY EmptySeq DEF Drained
  <2>2. ~IsHead(d) /\ ~Queued(d)
    BY <2>1 DEF IsHead, Queued
  <2> QED
    BY <2>2 DEF SerialInv
<1> QED
  BY <1>1, <1>2 DEF Quiet, SerialInv, IsHead, Queued

LEMMA ServeKeepsSerial ==
  ASSUME TypeInv, SerialInv, NEW c \in Conns, Serve(c)
  PROVE  SerialInv'
<1>0. ASSUME NEW j, JobMoves(c, j), UNCHANGED down PROVE SerialInv'
  BY <1>0, MovesKeepSerial
<1>1. CASE TakeRequest(c)
  <2>1. queue[c] # <<>> /\ job[c] = Idle /\ job[c].stage = "idle"
    BY <1>1 DEF TakeRequest, TypeInv, JobShape
  <2>2. CASE queue' = [queue EXCEPT ![c] = Tail(@)] /\ UNCHANGED <<job, serial>>
    <3>1. \A d \in Conns \ {c} : Request(d)' = Request(d)
      BY <2>2 DEF Request, TypeInv, WorkTyped
    <3> QED
      BY <1>1, <2>1, <2>2, <3>1 DEF TakeRequest, SerialInv, IsHead, Queued, AtWork, Working
  <2>3. CASE /\ job' = [job EXCEPT ![c].stage = "waiting"]
             /\ serial' = Append(serial, [conn |-> c, flow |-> 0])
             /\ IsSerial(Request(c).op)
             /\ ~Closing
             /\ UNCHANGED queue
    <3>0. [conn |-> c, flow |-> 0] \in Entries
      BY OperatorAssumption DEF Entries
    <3>1. PICK e \in Entries : e = [conn |-> c, flow |-> 0]
      BY <3>0
    <3>2. serial' = Append(serial, e)
      BY <2>3, <3>1
    <3>3. Len(serial) + 1 \in 1..Len(serial') /\ serial'[Len(serial) + 1] = e
      BY <3>2, AppendProperties, LenProperties DEF TypeInv, WorkTyped
    <3>4. Queued(c)'
      BY <3>1, <3>3 DEF Queued
    <3>5. ASSUME NEW d \in Conns, Queued(d) PROVE Queued(d)'
      <4>1. serial # <<>>
        BY <3>5, LenProperties DEF Queued
      <4> QED
        BY <3>2, <3>5, <4>1, EntryStays DEF TypeInv
    <3>6. ASSUME NEW d \in Conns, IsHead(d) PROVE IsHead(d)'
      <4>1. serial' # <<>> /\ Head(serial') = Head(serial)
        BY <3>2, <3>6, HeadTailAppend, AppendProperties DEF IsHead, TypeInv, WorkTyped
      <4> QED
        BY <3>6, <4>1 DEF IsHead
    <3>7. ASSUME NEW d \in Conns
          PROVE  job'[d].stage = IF d = c THEN "waiting" ELSE job[d].stage
      BY <2>3 DEF TypeInv, WorkTyped, Jobs
    <3>8. ASSUME NEW d \in Conns PROVE Request(d)' = Request(d)
      BY <2>3 DEF Request
    <3>9. down' = "up"
      BY <1>1, <2>3 DEF TakeRequest, Closing
    <3> QED
      BY <2>3, <3>4, <3>5, <3>6, <3>7, <3>8, <3>9 DEF SerialInv, AtWork, Working
  <2>4. CASE Handle(c) /\ ~IsSerial(Request(c).op)
    <3>1. PICK j : JobMoves(c, j)
      BY <2>4, HandleMoves
    <3> QED
      BY <1>0, <1>1, <3>1 DEF TakeRequest
  <2> QED
    BY <1>1, <2>2, <2>3, <2>4 DEF TakeRequest
<1>2. CASE TakeTurn(c)
  <2>1. PICK j : JobMoves(c, j)
    BY <1>2, HandleMoves DEF TakeTurn
  <2> QED
    BY <1>0, <1>2, <2>1 DEF TakeTurn
<1>3. CASE AuthenticateEnds(c) \/ Conclude(c) \/ CancelEnds(c)
  <2>1. PICK j : JobMoves(c, j)
    BY <1>3, ReplyMoves DEF AuthenticateEnds, Conclude, CancelEnds
  <2> QED
    BY <1>0, <1>3, <2>1 DEF AuthenticateEnds, Conclude, CancelEnds
<1>4. ASSUME NEW st \in {"done", "closing"}, NEW j, j.stage = st, job' = [job EXCEPT ![c] = j],
             UNCHANGED <<queue, serial>>, job[c].stage \in AtWork,
             st = "closing" => job[c].stage = "retiring"
      PROVE  JobMoves(c, j)
  BY <1>4 DEF JobMoves, SerialInv, AtWork, Working
<1>5. CASE HandlerEnds(c) \/ SaveLogin(c)
  <2>1. PICK ok \in BOOLEAN : job' = [job EXCEPT ![c].stage = "done", ![c].ok = ok]
    BY <1>5 DEF HandlerEnds, SaveLogin, HandlerReturns
  <2>2. PICK j : j = [job[c] EXCEPT !.stage = "done", !.ok = ok]
    OBVIOUS
  <2>3. j.stage = "done" /\ job' = [job EXCEPT ![c] = j]
    BY <2>1, <2>2 DEF TypeInv, WorkTyped, Jobs
  <2>4. job[c].stage \in AtWork /\ UNCHANGED <<queue, serial, down>>
    BY <1>5 DEF HandlerEnds, SaveLogin, AtWork, Working, loginVars
  <2> QED
    BY <1>0, <1>4, <2>3, <2>4
<1>6. CASE RetireForCommit(c)
  <2>1. PICK st \in {"done", "closing"} : job' = [job EXCEPT ![c].stage = st]
    BY <1>6 DEF RetireForCommit
  <2>2. PICK j : j = [job[c] EXCEPT !.stage = st]
    OBVIOUS
  <2>3. j.stage = st /\ job' = [job EXCEPT ![c] = j]
    BY <2>1, <2>2 DEF TypeInv, WorkTyped, Jobs
  <2>4. job[c].stage = "retiring" /\ job[c].stage \in AtWork /\ UNCHANGED <<queue, serial, down>>
    BY <1>6 DEF RetireForCommit, AtWork, Working
  <2> QED
    BY <1>0, <1>4, <2>1, <2>3, <2>4
<1>7. CASE ConcludeLogin(c)
  <2>1. CASE Reply(c)
    <3>1. PICK j : JobMoves(c, j)
      BY <2>1, ReplyMoves
    <3> QED
      BY <1>0, <1>7, <3>1 DEF ConcludeLogin
  <2>2. CASE job' = [job EXCEPT ![c].stage = "cancelling"] /\ UNCHANGED <<queue, serial>>
    <3>1. PICK j : j = [job[c] EXCEPT !.stage = "cancelling"]
      OBVIOUS
    <3>2. j.stage = "cancelling" /\ job' = [job EXCEPT ![c] = j]
      BY <2>2, <3>1 DEF TypeInv, WorkTyped, Jobs
    <3>3. JobMoves(c, j)
      BY <2>2, <3>2 DEF JobMoves, AtWork, Working
    <3> QED
      BY <1>0, <1>7, <3>3 DEF ConcludeLogin
  <2> QED
    BY <1>7, <2>1, <2>2 DEF ConcludeLogin
<1>8. CASE EndFlush(c) \/ EndStop(c)
  <2>1. Idle.stage = "idle"
    BY DEF Idle
  <2>2. JobMoves(c, Idle)
    BY <1>8, <2>1 DEF EndFlush, EndStop, JobMoves, AtWork, Working, TypeInv, WorkTyped
  <2>3. down' = down \/ (down = "up" /\ down' = "draining")
    BY <1>8 DEF EndFlush, EndStop, Close
  <2> QED
    BY <2>2, <2>3, MovesKeepSerial
<1>9. ASSUME NEW l \in FlowsOf(c), HandleAnswer(l) PROVE SerialInv'
  <2>1. l \in Flows /\ l[2] # 0
    BY FlowsAre, OperatorAssumption
  <2>2. ASSUME NEW d \in Conns PROVE ~IsHead(d)
    BY <1>9, <2>1 DEF HandleAnswer, IsHead
  <2>3. ASSUME NEW d \in Conns, Queued(d) PROVE Queued(d)'
    BY <1>9, <2>2, <2>3, EntryStays DEF HandleAnswer, TypeInv
  <2> QED
    BY <1>9, <2>2, <2>3 DEF HandleAnswer, SerialInv, Request
<1> QED
  BY <1>1, <1>2, <1>3, <1>5, <1>6, <1>7, <1>8, <1>9 DEF Serve

LEMMA SerialKept == TypeInv /\ SerialInv /\ [OperatorNext]_operatorVars => SerialInv'
<1> SUFFICES ASSUME TypeInv, SerialInv, [OperatorNext]_operatorVars PROVE SerialInv'
  OBVIOUS
<1>0. ASSUME UNCHANGED workVars PROVE Quiet
  BY <1>0 DEF workVars, Quiet, Request
<1>1. CASE UNCHANGED operatorVars
  BY <1>0, <1>1, QuietKeepsSerial DEF operatorVars
<1>2. ASSUME NEW c \in Conns, Receive(c) PROVE SerialInv'
  <2>1. Quiet
    BY <1>2, ReceiveKeepsRequest DEF Quiet, Receive
  <2> QED
    BY <1>2, <2>1, QuietKeepsSerial DEF Receive
<1>3. ASSUME NEW c \in Conns, FirstFrameTimeout(c) \/ PeerLeaves(c) \/ PeerReads(c) \/ Disconnect(c)
      PROVE  SerialInv'
  BY <1>0, <1>3, QuietKeepsSerial DEF FirstFrameTimeout, PeerLeaves, PeerReads, Disconnect
<1>4. ASSUME NEW l \in Flows, Answer(l) PROVE SerialInv'
  <2>1. PICK e \in Entries : serial' = Append(serial, e)
    BY <1>4, FlowsAre, OperatorAssumption DEF Answer, Entries
  <2>2. ASSUME NEW d \in Conns, Queued(d) PROVE Queued(d)'
    <3>1. serial # <<>>
      BY <2>2, LenProperties DEF Queued
    <3> QED
      BY <2>1, <2>2, <3>1, EntryStays DEF TypeInv
  <2>3. ASSUME NEW d \in Conns, IsHead(d) PROVE IsHead(d)'
    <3>1. serial' # <<>> /\ Head(serial') = Head(serial)
      BY <2>1, <2>3, HeadTailAppend, AppendProperties DEF IsHead, TypeInv, WorkTyped
    <3> QED
      BY <2>3, <3>1 DEF IsHead
  <2> QED
    BY <1>4, <2>2, <2>3 DEF Answer, SerialInv, Request
<1>5. CASE CoolDown \/ Shutdown
  BY <1>0, <1>5, QuietKeepsSerial DEF CoolDown, Shutdown, Close
<1>6. ASSUME NEW l \in Flows, SignIn(l) PROVE SerialInv'
  <2>1. UNCHANGED <<workVars, down>>
    BY <1>6 DEF SignIn, ConnectEnds, SignInError, SignInSucceeds, Ask, PublishLogin, DisposeEnds
  <2> QED
    BY <1>0, <2>1, QuietKeepsSerial
<1>7. CASE Teardown
  BY <1>0, <1>7, QuietKeepsSerial DEF Teardown, Drained, LoginsDisposed
<1> QED
  BY <1>1, <1>2, <1>3, <1>4, <1>5, <1>6, <1>7, ServeKeepsSerial DEF OperatorNext, Environment

(* When drain() has returned no handler of a serial operation works or will *)
(* (drain in operator/server.ts, shutdown in daemon.ts).                    *)
THEOREM DrainCovers == OperatorSpec => []DrainCoversMutations
<1>1. OperatorInit => SerialInv
  BY DEF OperatorInit, SerialInv, Idle, AtWork, Working
<1>2. SerialInv => DrainCoversMutations
  BY DEF SerialInv, DrainCoversMutations, AtWork
<1>3. OperatorSpec => [](TypeInv /\ SerialInv)
  BY <1>1, TypesInitially, TypesKept, SerialKept, PTL DEF OperatorSpec
<1> QED
  BY <1>2, <1>3, PTL

-----------------------------------------------------------------------------
(* Logins.                                                                 *)

(* The sign-ins of a closed connection have been aborted. *)
AbandonedAreAborted ==
  \A l \in Flows : login[l].phase \in SigningIn /\ conn[l[1]] = "closed" => login[l].aborted

LoginInv == LoginsAreOwned /\ AbandonedAreAborted

(* Nothing closes, neither a socket for good nor the plane. *)
NothingCloses ==
  /\ \A c \in Conns : conn'[c] = "closed" => conn[c] = "closed"
  /\ down' = down \/ down' \in {"up", "draining"}

(* Steps that do not touch logins. *)
LEMMA QuietKeepsLogins ==
  ASSUME LoginInv, UNCHANGED <<login, client, pending>>, NothingCloses
  PROVE  LoginInv'
BY FlowsAre DEF LoginInv, LoginsAreOwned, AbandonedAreAborted, NothingCloses

(* The logins of F are given up: aborted where they sign in, and closed. *)
LEMMA GivenUp ==
  ASSUME TypeInv, LoginInv, NEW F,
         login' = Revoked(F) \/ UNCHANGED login,
         NEW D, client' = Disposed(client, D),
         pending' \subseteq pending,
         pending \ D \subseteq pending',
         login' # login => InSignIn(F) \subseteq D,
         NothingCloses
  PROVE  LoginInv'
<1> SUFFICES ASSUME NEW l \in Flows
             PROVE  /\ client'[l] = "open" =>
                         l \in pending' \/ (login'[l].phase \in SigningIn /\ ~login'[l].aborted)
                    /\ client'[l] = "open" \/ l \in pending' => conn'[l[1]] # "closed"
                    /\ client'[l] = "open" => down' \in {"up", "draining"}
                    /\ login'[l].phase \in SigningIn /\ conn'[l[1]] = "closed" => login'[l].aborted
  BY DEF LoginInv, LoginsAreOwned, AbandonedAreAborted
<1>1. client'[l] = "open" => client[l] = "open" /\ l \notin D
  BY DEF Disposed
<1>2. l[1] \in Conns
  BY FlowsAre
<1>3. CASE login'[l] = login[l]
  BY <1>1, <1>2, <1>3 DEF LoginInv, LoginsAreOwned, AbandonedAreAborted, NothingCloses
<1>4. CASE login'[l] # login[l]
  <2>1. l \in InSignIn(F) /\ login'[l] = [login[l] EXCEPT !.aborted = TRUE, !.phase = IF @ = "asking" THEN "signing" ELSE @]
    BY <1>4 DEF Revoked, InSignIn
  <2>2. login'[l].aborted
    BY <2>1 DEF TypeInv, LoginTyped, Logins
  <2>3. l \in D
    BY <1>4, <2>1
  <2> QED
    BY <1>1, <1>2, <2>2, <2>3 DEF LoginInv, LoginsAreOwned, NothingCloses
<1> QED
  BY <1>3, <1>4

(* A login moves to another phase, or ends. *)
LEMMA LoginMoves ==
  ASSUME TypeInv, LoginInv, NEW l \in Flows, NEW ph,
         login' = [login EXCEPT ![l].phase = ph],
         ph \in SigningIn => login[l].phase \in SigningIn,
         UNCHANGED pending,
         \/ client' = Disposed(client, {l})
         \/ UNCHANGED client /\ (ph \in SigningIn \/ login[l].phase \notin SigningIn),
         UNCHANGED <<conn, down>>
  PROVE  LoginInv'
<1> SUFFICES ASSUME NEW k \in Flows
             PROVE  /\ client'[k] = "open" =>
                         k \in pending' \/ (login'[k].phase \in SigningIn /\ ~login'[k].aborted)
                    /\ client'[k] = "open" \/ k \in pending' => conn'[k[1]] # "closed"
                    /\ client'[k] = "open" => down' \in {"up", "draining"}
                    /\ login'[k].phase \in SigningIn /\ conn'[k[1]] = "closed" => login'[k].aborted
  BY DEF LoginInv, LoginsAreOwned, AbandonedAreAborted
<1>1. client'[k] = "open" => client[k] = "open"
  BY DEF Disposed
<1>2. k # l => login'[k] = login[k]
  BY DEF TypeInv, LoginTyped
<1>3. login'[l].phase = ph /\ login'[l].aborted = login[l].aborted
  BY DEF TypeInv, LoginTyped, Logins
<1>4. client' = Disposed(client, {l}) => client'[l] # "open"
  BY DEF Disposed
<1> QED
  BY <1>1, <1>2, <1>3, <1>4 DEF LoginInv, LoginsAreOwned, AbandonedAreAborted

LEMMA SignInKeepsLogins ==
  ASSUME TypeInv, LoginInv, NEW l \in Flows, SignIn(l)
  PROVE  LoginInv'
<1>0. UNCHANGED <<conn, down>> /\ NothingCloses
  BY DEF SignIn, ConnectEnds, SignInError, SignInSucceeds, Ask, PublishLogin, DisposeEnds, wireVars,
    NothingCloses
<1>1. ASSUME Fails(l), UNCHANGED pending PROVE LoginInv'
  BY <1>0, <1>1, LoginMoves DEF Fails, SigningIn
<1>2. CASE ConnectEnds(l)
  BY <1>0, <1>1, <1>2, LoginMoves DEF ConnectEnds, SigningIn
<1>3. CASE SignInError(l)
  <2>1. CASE login' = [login EXCEPT ![l].attempts = @ + 1] /\ UNCHANGED client
    <3>1. \A k \in Flows : login'[k].phase = login[k].phase /\ login'[k].aborted = login[k].aborted
      BY <2>1 DEF TypeInv, LoginTyped, Logins
    <3> QED
      BY <1>0, <1>3, <2>1, <3>1 DEF SignInError, LoginInv, LoginsAreOwned, AbandonedAreAborted
  <2> QED
    BY <1>1, <1>3, <2>1 DEF SignInError
<1>4. CASE SignInSucceeds(l) \/ Ask(l)
  BY <1>0, <1>4, LoginMoves DEF SignInSucceeds, Ask, SigningIn
<1>5. CASE PublishLogin(l)
  <2>1. CASE /\ ~login[l].aborted
             /\ login' = [login EXCEPT ![l].phase = "ok"]
             /\ pending' = pending \cup {l}
             /\ UNCHANGED client
    <3>1. conn[l[1]] # "closed"
      BY <1>5, <2>1 DEF PublishLogin, LoginInv, AbandonedAreAborted, SigningIn
    <3>2. ASSUME NEW k \in Flows
          PROVE  /\ k # l => login'[k] = login[k]
                 /\ k = l => login'[k].phase = "ok"
      BY <2>1 DEF TypeInv, LoginTyped, Logins
    <3> QED
      BY <1>0, <2>1, <3>1, <3>2 DEF LoginInv, LoginsAreOwned, AbandonedAreAborted, SigningIn
  <2> QED
    BY <1>1, <1>5, <2>1 DEF PublishLogin
<1>6. CASE DisposeEnds(l)
  <2>1. \A k \in Flows : client'[k] = "open" => client[k] = "open"
    BY <1>6 DEF DisposeEnds, TypeInv, LoginTyped
  <2> QED
    BY <1>0, <1>6, <2>1 DEF DisposeEnds, LoginInv, LoginsAreOwned, AbandonedAreAborted
<1> QED
  BY <1>2, <1>3, <1>4, <1>5, <1>6 DEF SignIn

LEMMA HandleKeepsLogins ==
  ASSUME TypeInv, LoginInv, NEW c \in Conns, queue[c] # <<>>, Handle(c), UNCHANGED down,
         Request(c).op = "login.begin" => ~Closing /\ conn[c] # "closed"
  PROVE  LoginInv'
<1>0. NothingCloses
  BY DEF Handle, HandleStop, NothingCloses, TypeInv, WireTyped
<1>1. CASE UNCHANGED loginVars
  BY <1>0, <1>1, QuietKeepsLogins DEF loginVars
<1>2. CASE StartLogin(c) /\ Request(c).op = "login.begin" /\ UNCHANGED conn
  <2>1. PICK n \in 1..MaxLogins :
          /\ client[<<c, n>>] = "none"
          /\ login' = [login EXCEPT ![<<c, n>>] =
                         [NoLogin EXCEPT !.phase = "connecting", !.method = Request(c).arg]]
          /\ client' = [client EXCEPT ![<<c, n>>] = "open"]
          /\ UNCHANGED <<pending, answering, saved>>
    BY <1>2 DEF StartLogin
  <2>2. PICK l \in Flows : l = <<c, n>>
    BY FlowsAre
  <2>3. l[1] = c
    BY <2>2
  <2>4. login'[l].phase = "connecting" /\ login'[l].aborted = FALSE
    BY <2>1, <2>2 DEF NoLogin, TypeInv, LoginTyped
  <2>5. \A k \in Flows \ {l} : login'[k] = login[k] /\ client'[k] = client[k]
    BY <2>1, <2>2 DEF TypeInv, LoginTyped
  <2>6. down \in {"up", "draining"} /\ conn[c] # "closed"
    BY <1>2 DEF Closing
  <2> QED
    BY <1>2, <2>1, <2>3, <2>4, <2>5, <2>6 DEF LoginInv, LoginsAreOwned, AbandonedAreAborted, SigningIn
<1>3. CASE StartCancel(c) /\ UNCHANGED conn
  <2>1. PICK n \in 0..MaxLogins :
          /\ pending' = pending \ {<<c, n>>}
          /\ client' = Disposed(client, pending \cap {<<c, n>>})
          /\ UNCHANGED login
    BY <1>3 DEF StartCancel
  <2>2. PICK D : D = pending \cap {<<c, n>>}
    OBVIOUS
  <2>3. pending' \subseteq pending /\ pending \ D \subseteq pending' /\ client' = Disposed(client, D)
    BY <2>1, <2>2
  <2> QED
    BY <1>0, <2>1, <2>3, GivenUp
<1> QED
  BY <1>1, <1>2, <1>3 DEF Handle, HandlePrivileged, StartCommit, StartHandler, HandleStop

LEMMA ServeKeepsLogins ==
  ASSUME TypeInv, SerialInv, LoginInv, NEW c \in Conns, Serve(c)
  PROVE  LoginInv'
<1>1. CASE TakeRequest(c)
  <2>1. CASE Handle(c) /\ ~Closing /\ conn[c] # "closed"
    BY <1>1, <2>1, HandleKeepsLogins DEF TakeRequest
  <2>2. CASE UNCHANGED <<conn, loginVars>>
    BY <1>1, <2>2, QuietKeepsLogins DEF TakeRequest, NothingCloses, loginVars
  <2> QED
    BY <1>1, <2>1, <2>2 DEF TakeRequest
<1>2. CASE TakeTurn(c)
  <2>1. queue[c] # <<>> /\ Request(c).op # "login.begin"
    BY <1>2 DEF TakeTurn, SerialInv, IsSerial, TypeInv, WorkTyped, Idle
  <2> QED
    BY <1>2, <2>1, HandleKeepsLogins DEF TakeTurn
<1>3. CASE AuthenticateEnds(c) \/ HandlerEnds(c) \/ SaveLogin(c) \/ CancelEnds(c) \/ EndFlush(c)
  <2>1. UNCHANGED <<login, client, pending, conn, down>>
    BY <1>3 DEF AuthenticateEnds, HandlerEnds, SaveLogin, CancelEnds, EndFlush, loginVars, wireVars
  <2> QED
    BY <2>1, QuietKeepsLogins DEF NothingCloses
<1>4. CASE EndStop(c)
  <2>1. NothingCloses
    BY <1>4 DEF EndStop, Close, NothingCloses, TypeInv, WireTyped
  <2> QED
    BY <1>4, <2>1, QuietKeepsLogins DEF EndStop, loginVars
<1>5. CASE RetireForCommit(c)
  <2>1. NothingCloses
    BY <1>5 DEF RetireForCommit, NothingCloses, wireVars
  <2>2. PICK D : D = {FlowOf(c)}
    OBVIOUS
  <2>3. /\ pending' \subseteq pending
        /\ pending \ D \subseteq pending'
        /\ client' = Disposed(client, D)
        /\ UNCHANGED login
    BY <1>5, <2>2 DEF RetireForCommit
  <2> QED
    BY <2>1, <2>3, GivenUp
<1>6. CASE Conclude(c)
  <2>1. NothingCloses /\ UNCHANGED pending
    BY <1>6 DEF Conclude, NothingCloses
  <2>2. CASE UNCHANGED <<login, client>>
    BY <2>1, <2>2, QuietKeepsLogins
  <2>3. CASE login' = Revoked(Flows) /\ client' = Disposed(client, InSignIn(Flows))
    BY <2>1, <2>3, GivenUp
  <2> QED
    BY <1>6, <2>2, <2>3 DEF Conclude
<1>7. CASE ConcludeLogin(c)
  <2>1. PICK l \in Flows : l = FlowOf(c)
    BY <1>7, FlowsAre DEF ConcludeLogin, FlowOf, TypeInv, WorkTyped, Jobs, JobShape
  <2>2. /\ login[l].phase \in {"ok", "failed"}
        /\ login' = [login EXCEPT ![l].phase = "none"]
        /\ UNCHANGED <<conn, down>>
    BY <1>7, <2>1 DEF ConcludeLogin
  <2>3. CASE UNCHANGED <<pending, client>>
    BY <2>2, <2>3, LoginMoves DEF SigningIn
  <2>4. CASE pending' = pending \ {l} /\ client' = Disposed(client, pending \cap {l})
    <3>1. ASSUME NEW k \in Flows
          PROVE  login'[k] = login[k]
                   \/ (login[k].phase \notin SigningIn /\ login'[k].phase \notin SigningIn)
      BY <2>2 DEF TypeInv, LoginTyped, Logins, SigningIn
    <3>2. ASSUME NEW k \in Flows, client'[k] = "open"
          PROVE  client[k] = "open" /\ ~(k = l /\ k \in pending)
      BY <2>4, <3>2 DEF Disposed
    <3> QED
      BY <2>2, <2>4, <3>1, <3>2 DEF LoginInv, LoginsAreOwned, AbandonedAreAborted
  <2> QED
    BY <1>7, <2>1, <2>3, <2>4 DEF ConcludeLogin
<1>8. ASSUME NEW l \in FlowsOf(c), HandleAnswer(l) PROVE LoginInv'
  <2>1. l \in Flows /\ UNCHANGED <<pending, client, conn, down>>
    BY <1>8, FlowsAre DEF HandleAnswer, wireVars
  <2>2. NothingCloses
    BY <2>1 DEF NothingCloses
  <2>3. CASE UNCHANGED login
    BY <2>1, <2>2, <2>3, QuietKeepsLogins
  <2>4. CASE login[l].phase = "asking" /\ login' = [login EXCEPT ![l].phase = "signing"]
    BY <2>1, <2>4, LoginMoves DEF SigningIn
  <2> QED
    BY <1>8, <2>3, <2>4 DEF HandleAnswer
<1> QED
  BY <1>1, <1>2, <1>3, <1>4, <1>5, <1>6, <1>7, <1>8 DEF Serve

LEMMA LoginsKept == TypeInv /\ SerialInv /\ LoginInv /\ [OperatorNext]_operatorVars => LoginInv'
<1> SUFFICES ASSUME TypeInv, SerialInv, LoginInv, [OperatorNext]_operatorVars PROVE LoginInv'
  OBVIOUS
<1>1. CASE UNCHANGED operatorVars
  BY <1>1, QuietKeepsLogins DEF operatorVars, wireVars, loginVars, NothingCloses
<1>2. CASE Environment
  <2>1. UNCHANGED <<login, client, pending>>
    BY <1>2 DEF Environment, Receive, FirstFrameTimeout, PeerLeaves, PeerReads, Answer, CoolDown,
      Shutdown, loginVars
  <2>2. NothingCloses
    BY <1>2 DEF Environment, Receive, FirstFrameTimeout, PeerLeaves, PeerReads, Answer, CoolDown,
      Shutdown, Close, wireVars, NothingCloses, TypeInv, WireTyped
  <2> QED
    BY <2>1, <2>2, QuietKeepsLogins
<1>3. ASSUME NEW c \in Conns, Disconnect(c) PROVE LoginInv'
  <2>1. PICK D : D = InSignIn(FlowsOf(c)) \cup (pending \cap FlowsOf(c))
    OBVIOUS
  <2>2. /\ client' = Disposed(client, D)
        /\ login' = Revoked(FlowsOf(c))
        /\ pending' = pending \ FlowsOf(c)
        /\ conn' = [conn EXCEPT ![c] = "closed"]
        /\ UNCHANGED down
    BY <1>3, <2>1 DEF Disconnect
  <2>3. ASSUME NEW l \in Flows, l[1] = c
        PROVE  client'[l] # "open" /\ l \notin pending'
                 /\ (login'[l].phase \in SigningIn => login'[l].aborted)
    <3>1. l \in FlowsOf(c)
      BY <2>3, FlowsAre
    <3>2. client'[l] # "open"
      BY <2>1, <2>2, <3>1 DEF Disposed, InSignIn, LoginInv, LoginsAreOwned
    <3>3. login'[l].phase \in SigningIn => login'[l].aborted
      BY <2>2, <3>1 DEF Revoked, TypeInv, LoginTyped, Logins
    <3> QED
      BY <2>2, <3>1, <3>2, <3>3
  <2>4. ASSUME NEW l \in Flows, l[1] # c
        PROVE  /\ client'[l] = client[l] /\ login'[l] = login[l] /\ (l \in pending' <=> l \in pending)
               /\ conn'[l[1]] = conn[l[1]]
    <3>1. l \notin FlowsOf(c) /\ l[1] \in Conns
      BY <2>4, FlowsAre
    <3> QED
      BY <2>1, <2>2, <2>4, <3>1 DEF Disposed, Revoked, InSignIn, TypeInv, WireTyped, LoginTyped
  <2> QED
    BY <2>2, <2>3, <2>4 DEF LoginInv, LoginsAreOwned, AbandonedAreAborted
<1>4. CASE Drained
  <2>1. \A l \in Flows : client'[l] # "open"
    BY <1>4 DEF Drained, Disposed
  <2>2. pending' = {} /\ UNCHANGED <<conn, login>>
    BY <1>4 DEF Drained, wireVars
  <2> QED
    BY <2>1, <2>2 DEF LoginInv, LoginsAreOwned, AbandonedAreAborted
<1>5. CASE LoginsDisposed
  BY <1>5 DEF LoginsDisposed, loginVars, wireVars, LoginInv, LoginsAreOwned, AbandonedAreAborted
<1> QED
  BY <1>1, <1>2, <1>3, <1>4, <1>5, SignInKeepsLogins, ServeKeepsLogins DEF OperatorNext, Teardown

(* A live Telegram connection of a login always has an owner: a sign-in    *)
(* that nobody has revoked, or a login ready to be committed whose peer is *)
(* still there (OperatorLoginSessions).                                    *)
THEOREM LoginsHaveOwners == OperatorSpec => []LoginsAreOwned
<1>1. OperatorInit => SerialInv /\ LoginInv
  BY DEF OperatorInit, SerialInv, Idle, AtWork, Working, LoginInv, LoginsAreOwned, AbandonedAreAborted,
    NoLogin, SigningIn
<1>2. OperatorSpec => [](TypeInv /\ SerialInv /\ LoginInv)
  BY <1>1, TypesInitially, TypesKept, SerialKept, LoginsKept, PTL DEF OperatorSpec
<1>3. LoginInv => LoginsAreOwned
  BY DEF LoginInv
<1> QED
  BY <1>2, <1>3, PTL

(* What is closed stays closed, and only closed connections are saved. *)
LEMMA SavedKept ==
  TypeInv /\ SavedLoginsAreClosed /\ [OperatorNext]_operatorVars => SavedLoginsAreClosed'
<1> SUFFICES ASSUME TypeInv, SavedLoginsAreClosed, [OperatorNext]_operatorVars
             PROVE  SavedLoginsAreClosed'
  OBVIOUS
<1>1. ASSUME NEW S, client' = Disposed(client, S) \/ UNCHANGED client
      PROVE  \A l \in Flows : client[l] = "gone" => client'[l] = "gone"
  BY <1>1 DEF Disposed
<1>2. ASSUME UNCHANGED saved, \A l \in Flows : client[l] = "gone" => client'[l] = "gone"
      PROVE  SavedLoginsAreClosed'
  BY <1>2 DEF SavedLoginsAreClosed, TypeInv, LoginTyped
<1>3. CASE UNCHANGED operatorVars
  BY <1>2, <1>3 DEF operatorVars, loginVars
<1>4. CASE Environment
  BY <1>2, <1>4 DEF Environment, Receive, FirstFrameTimeout, PeerLeaves, PeerReads, Answer, CoolDown,
    Shutdown, loginVars
<1>5. ASSUME NEW c \in Conns, Disconnect(c) PROVE SavedLoginsAreClosed'
  BY <1>1, <1>2, <1>5 DEF Disconnect
<1>6. CASE Teardown
  BY <1>1, <1>2, <1>6 DEF Teardown, Drained, LoginsDisposed, loginVars
<1>7. ASSUME NEW l \in Flows, SignIn(l) PROVE SavedLoginsAreClosed'
  <2>1. UNCHANGED saved
    BY <1>7 DEF SignIn, ConnectEnds, SignInError, SignInSucceeds, Ask, PublishLogin, DisposeEnds
  <2>2. CASE DisposeEnds(l)
    <3>1. \A k \in Flows : client[k] = "gone" => client'[k] = "gone"
      BY <2>2 DEF DisposeEnds, TypeInv, LoginTyped
    <3> QED
      BY <1>2, <2>1, <3>1
  <2>3. CASE ~DisposeEnds(l)
    <3>1. client' = Disposed(client, {l}) \/ UNCHANGED client
      BY <1>7, <2>3 DEF SignIn, ConnectEnds, SignInError, SignInSucceeds, Ask, PublishLogin, Fails
    <3> QED
      BY <1>1, <1>2, <2>1, <3>1
  <2> QED
    BY <2>2, <2>3
<1>8. ASSUME NEW c \in Conns, Handle(c) PROVE SavedLoginsAreClosed'
  <2>1. UNCHANGED saved
    BY <1>8 DEF Handle, HandleStop, HandleAuthenticate, HandlePrivileged, StartLogin, StartCancel,
      StartCommit, StartHandler, loginVars
  <2>2. CASE StartLogin(c)
    <3>1. PICK n \in 1..MaxLogins :
            client[<<c, n>>] = "none" /\ client' = [client EXCEPT ![<<c, n>>] = "open"]
      BY <2>2 DEF StartLogin
    <3>2. \A k \in Flows : client[k] = "gone" => client'[k] = "gone"
      BY <3>1 DEF TypeInv, LoginTyped
    <3> QED
      BY <1>2, <2>1, <3>2
  <2>3. CASE ~StartLogin(c)
    <3>1. UNCHANGED client \/ \E S : client' = Disposed(client, S)
      BY <1>8, <2>3 DEF Handle, HandleStop, HandlePrivileged, StartCancel, StartCommit, StartHandler,
        loginVars
    <3> QED
      BY <1>1, <1>2, <2>1, <3>1
  <2> QED
    BY <2>2, <2>3
<1>9. ASSUME NEW c \in Conns, Serve(c) PROVE SavedLoginsAreClosed'
  <2>1. CASE TakeRequest(c) \/ TakeTurn(c)
    <3>1. CASE Handle(c)
      BY <1>8, <3>1
    <3>2. CASE UNCHANGED loginVars
      BY <1>2, <3>2 DEF loginVars
    <3> QED
      BY <2>1, <3>1, <3>2 DEF TakeRequest, TakeTurn
  <2>2. CASE AuthenticateEnds(c) \/ HandlerEnds(c) \/ CancelEnds(c) \/ EndFlush(c) \/ EndStop(c)
    BY <1>2, <2>2 DEF AuthenticateEnds, HandlerEnds, CancelEnds, EndFlush, EndStop, loginVars
  <2>3. CASE RetireForCommit(c)
    BY <1>1, <1>2, <2>3 DEF RetireForCommit
  <2>4. CASE SaveLogin(c)
    BY <2>4 DEF SaveLogin, SavedLoginsAreClosed
  <2>5. CASE Conclude(c)
    BY <1>1, <1>2, <2>5 DEF Conclude
  <2>6. CASE ConcludeLogin(c)
    <3>1. UNCHANGED saved /\ (UNCHANGED client \/ \E S : client' = Disposed(client, S))
      BY <2>6 DEF ConcludeLogin
    <3> QED
      BY <1>1, <1>2, <3>1
  <2>7. ASSUME NEW l \in FlowsOf(c), HandleAnswer(l) PROVE SavedLoginsAreClosed'
    BY <1>2, <2>7 DEF HandleAnswer
  <2> QED
    BY <1>9, <2>1, <2>2, <2>3, <2>4, <2>5, <2>6, <2>7 DEF Serve
<1> QED
  BY <1>3, <1>4, <1>5, <1>6, <1>7, <1>9 DEF OperatorNext

(* A session is stored only after the login connection that made its key *)
(* has closed (OperatorLoginSessions.commit).                            *)
THEOREM SavedAreClosed == OperatorSpec => []SavedLoginsAreClosed
<1>1. OperatorInit => SavedLoginsAreClosed
  BY DEF OperatorInit, SavedLoginsAreClosed
<1> QED
  BY <1>1, TypesInitially, TypesKept, SavedKept, PTL DEF OperatorSpec

-----------------------------------------------------------------------------
(* Credentials.                                                            *)

(* An operation that decided the posture and has not yet advanced the *)
(* generation.                                                        *)
Deciding(c) ==
  /\ job[c].stage = "done"
  /\ job[c].ok
  /\ \/ AdvancesGeneration(Request(c).op)
     \/ /\ ~job[c].required
        /\ Request(c).op \in {"login.commit", "policy.apply"}
        /\ RequiresAuthentication

(* Generations stand for secrets but for the moment between a change of *)
(* posture and the advance, when the changer alone may go on.           *)
GenerationsStand ==
  /\ \A c \in Conns : Deciding(c) => proven[c] = credential
  /\ \A c \in Conns :
       /\ RequiresAuthentication
       /\ \A d \in Conns : ~Deciding(d)
       /\ authenticated[c] = generation
       => proven[c] = credential

(* What a job at work was admitted with still holds. *)
JobHolds(c) ==
  IF Request(c).op = "authenticate"
    THEN job[c].stage = "running" /\ job[c].checked = credential /\ ~cooling
    ELSE /\ job[c].required <=> RequiresAuthentication
         /\ RequiresAuthentication => proven[c] = credential
         /\ ~job[c].ok

AdmissionsHold == \A c \in Conns : job[c].stage \in Working => JobHolds(c)

CredentialInv == GenerationsStand /\ AdmissionsHold

secretVars == <<generation, authenticated, posture, credential, proven, cooling>>

(* Steps that change neither jobs nor secrets. *)
LEMMA QuietKeepsCredentials ==
  ASSUME TypeInv, CredentialInv, Quiet,
         UNCHANGED <<generation, authenticated, posture, credential, proven>>,
         cooling' => cooling
  PROVE  CredentialInv'
<1>1. ASSUME NEW c \in Conns, job[c].stage \in AtWork PROVE Request(c)' = Request(c)
  BY <1>1 DEF Quiet, TypeInv, WorkTyped, Idle, AtWork, Working
<1>2. ASSUME NEW c \in Conns PROVE Deciding(c)' <=> Deciding(c)
  BY <1>1 DEF Quiet, Deciding, AtWork, AdvancesGeneration, RequiresAuthentication
<1>3. GenerationsStand'
  BY <1>2 DEF CredentialInv, GenerationsStand, RequiresAuthentication
<1>4. AdmissionsHold'
  BY <1>1 DEF Quiet, CredentialInv, AdmissionsHold, JobHolds, AtWork, RequiresAuthentication
<1> QED
  BY <1>3, <1>4 DEF CredentialInv

(* One job moves under the same secrets. *)
LEMMA MovesKeepCredentials ==
  ASSUME TypeInv, CredentialInv, NEW c \in Conns, NEW j, JobMoves(c, j), UNCHANGED secretVars,
         job[c].stage # "done",
         j.stage = "done" => ~j.ok,
         j.stage \in Working => JobHolds(c)'
  PROVE  CredentialInv'
<1>1. ASSUME NEW d \in Conns, d # c PROVE job'[d] = job[d] /\ Request(d)' = Request(d)
  BY <1>1 DEF JobMoves, Request, TypeInv, WorkTyped
<1>2. job'[c] = j
  BY DEF JobMoves, TypeInv, WorkTyped
<1>3. ASSUME NEW d \in Conns PROVE Deciding(d)' <=> Deciding(d)
  <2>1. CASE d # c
    BY <1>1, <2>1 DEF Deciding, AdvancesGeneration, RequiresAuthentication, secretVars
  <2>2. ~Deciding(c)' /\ ~Deciding(c)
    BY <1>2 DEF Deciding
  <2> QED
    BY <2>1, <2>2
<1>4. GenerationsStand'
  BY <1>3 DEF CredentialInv, GenerationsStand, RequiresAuthentication, secretVars
<1>5. ASSUME NEW d \in Conns, job'[d].stage \in Working PROVE JobHolds(d)'
  <2>1. CASE d = c
    BY <1>2, <1>5, <2>1
  <2>2. CASE d # c
    BY <1>1, <1>5, <2>2 DEF CredentialInv, AdmissionsHold, JobHolds, RequiresAuthentication, secretVars
  <2> QED
    BY <2>1, <2>2
<1> QED
  BY <1>4, <1>5 DEF CredentialInv, AdmissionsHold

(* While one connection is at work no other is, nor decides. *)
LEMMA AloneAtWork ==
  ASSUME TypeInv, SerialInv, NEW c \in Conns, job[c].stage \in AtWork, NEW j, JobMoves(c, j),
         NEW d \in Conns, d # c
  PROVE  /\ job'[d] = job[d]
         /\ job'[d].stage \notin AtWork
         /\ ~Deciding(d) /\ ~Deciding(d)'
<1>1. job'[d] = job[d]
  BY DEF JobMoves, TypeInv, WorkTyped
<1>2. job[d].stage \notin AtWork
  BY OneAtWork
<1> QED
  BY <1>1, <1>2 DEF Deciding, AtWork

LEMMA HandleKeepsCredentials ==
  ASSUME TypeInv, SerialInv, CredentialInv, NEW c \in Conns, Handle(c), UNCHANGED secretVars,
         (IsHead(c) /\ job[c].stage = "waiting")
           \/ (~IsSerial(Request(c).op) /\ job[c].stage = "idle")
  PROVE  CredentialInv'
<1>1. ASSUME NEW j, job' = [job EXCEPT ![c] = j], UNCHANGED queue,
             j.stage \in {"ending", "login", "cancelling"} \/ (j.stage = "done" /\ ~j.ok)
               \/ (j.stage \in {"running", "retiring"} /\ JobHolds(c)')
      PROVE  CredentialInv'
  <2>1. PICK i : JobMoves(c, i)
    BY HandleMoves
  <2>2. i = j
    BY <1>1, <2>1 DEF JobMoves, TypeInv, WorkTyped
  <2> QED
    BY <1>1, <2>1, <2>2, MovesKeepCredentials DEF Working
<1>2. CASE Reply(c)
  <2>1. PICK j : JobMoves(c, j) /\ j.stage \in {"idle", "flush"}
    BY <1>2, ReplyMoves
  <2> QED
    BY <2>1, MovesKeepCredentials DEF Working
<1>3. CASE HandleStop(c)
  <2>1. PICK j : j = [Idle EXCEPT !.stage = "ending"]
    OBVIOUS
  <2>2. j.stage = "ending"
    BY <2>1 DEF Idle
  <2> QED
    BY <1>1, <1>3, <2>1, <2>2 DEF HandleStop
<1>4. CASE /\ Request(c).op = "authenticate"
           /\ ~cooling
           /\ job' = [job EXCEPT ![c] = [Idle EXCEPT !.stage = "running", !.checked = credential]]
           /\ UNCHANGED queue
  <2>1. PICK j : j = [Idle EXCEPT !.stage = "running", !.checked = credential]
    OBVIOUS
  <2>2. j.stage = "running" /\ j.checked = credential
    BY <2>1 DEF Idle
  <2>3. job'[c] = j
    BY <1>4, <2>1 DEF TypeInv, WorkTyped
  <2>4. JobHolds(c)'
    BY <1>4, <2>2, <2>3 DEF JobHolds, Request, secretVars
  <2> QED
    BY <1>1, <1>4, <2>1, <2>2, <2>4
<1>5. CASE StartLogin(c) /\ UNCHANGED queue
  <2>1. PICK n \in 1..MaxLogins : job' = [job EXCEPT ![c] = Admitted("login", n)]
    BY <1>5 DEF StartLogin
  <2>2. Admitted("login", n).stage = "login"
    BY DEF Admitted, Idle
  <2> QED
    BY <1>1, <1>5, <2>1, <2>2
<1>6. CASE StartCancel(c) /\ UNCHANGED queue
  <2>1. PICK n \in 0..MaxLogins : job' = [job EXCEPT ![c] = Admitted("cancelling", n)]
    BY <1>6 DEF StartCancel
  <2>2. Admitted("cancelling", n).stage = "cancelling"
    BY DEF Admitted, Idle
  <2> QED
    BY <1>1, <1>6, <2>1, <2>2
<1>7. ASSUME NEW st \in {"done", "running", "retiring"}, NEW n \in 0..MaxLogins,
             job' = [job EXCEPT ![c] = Admitted(st, n)], UNCHANGED queue,
             Request(c).op \notin {"authenticate", "status", "stop", "login.begin", "login.cancel"},
             RequiresAuthentication => authenticated[c] = generation
      PROVE  CredentialInv'
  <2>1. PICK j : j = Admitted(st, n)
    OBVIOUS
  <2>2. j.stage = st /\ ~j.ok /\ (j.required <=> RequiresAuthentication)
    <3>1. st \in Stages
      BY DEF Stages, Working
    <3>2. j.stage = st /\ j.ok = FALSE /\ j.required = RequiresAuthentication
      BY <2>1, <3>1, AdmittedTyped
    <3> QED
      BY <3>2
  <2>3. job'[c] = j
    BY <1>7, <2>1 DEF TypeInv, WorkTyped
  <2>4. IsHead(c) /\ job[c].stage = "waiting"
    BY <1>7 DEF IsSerial
  <2>5. ASSUME NEW d \in Conns PROVE ~Deciding(d)
    BY <2>4, OneAtWork DEF Deciding, AtWork
  <2>6. RequiresAuthentication => proven[c] = credential
    BY <1>7, <2>5 DEF CredentialInv, GenerationsStand
  <2>7. JobHolds(c)'
    BY <1>7, <2>2, <2>3, <2>6 DEF JobHolds, Request, RequiresAuthentication, secretVars
  <2> QED
    BY <1>1, <1>7, <2>1, <2>2, <2>7
<1>8. CASE HandlePrivileged(c) /\ Request(c).op \notin {"authenticate", "status", "stop"}
  <2>1. CASE Reply(c)
    BY <1>2, <2>1
  <2>2. CASE (StartLogin(c) \/ StartCancel(c)) /\ UNCHANGED queue
    BY <1>5, <1>6, <2>2
  <2>3. CASE /\ StartCommit(c) /\ UNCHANGED queue
             /\ Request(c).op = "login.commit"
             /\ RequiresAuthentication => authenticated[c] = generation
    <3>1. PICK n \in 0..MaxLogins, st \in {"done", "retiring"} : job' = [job EXCEPT ![c] = Admitted(st, n)]
      BY <2>3 DEF StartCommit
    <3> QED
      BY <1>7, <2>3, <3>1
  <2>4. CASE /\ StartHandler(c) /\ UNCHANGED queue
             /\ Request(c).op \notin {"login.begin", "login.cancel"}
             /\ RequiresAuthentication => authenticated[c] = generation
    <3>1. 0 \in 0..MaxLogins
      BY OperatorAssumption
    <3> QED
      BY <1>7, <1>8, <2>4, <3>1 DEF StartHandler
  <2> QED
    BY <1>8, <2>1, <2>2, <2>3, <2>4 DEF HandlePrivileged
<1> QED
  BY <1>2, <1>3, <1>4, <1>8 DEF Handle, HandleAuthenticate

LEMMA AuthenticateKeepsCredentials ==
  ASSUME TypeInv, SerialInv, CredentialInv, NEW c \in Conns, AuthenticateEnds(c)
  PROVE  CredentialInv'
<1>1. PICK j : JobMoves(c, j) /\ j.stage \in {"idle", "flush"}
  BY ReplyMoves DEF AuthenticateEnds
<1>2. job[c].stage \in AtWork /\ job[c].checked = credential
  BY DEF AuthenticateEnds, AtWork, Working, CredentialInv, AdmissionsHold, JobHolds
<1>3. ASSUME NEW d \in Conns PROVE ~Deciding(d) /\ ~Deciding(d)' /\ job'[d].stage \notin Working
  <2>1. job'[c] = j
    BY <1>1 DEF JobMoves, TypeInv, WorkTyped
  <2>2. CASE d = c
    BY <1>1, <2>1, <2>2 DEF Deciding, AuthenticateEnds, Working
  <2>3. CASE d # c
    BY <1>1, <1>2, <2>3, AloneAtWork DEF AtWork
  <2> QED
    BY <2>2, <2>3
<1>4. ASSUME NEW d \in Conns, RequiresAuthentication', authenticated'[d] = generation'
      PROVE  proven'[d] = credential'
  <2>1. UNCHANGED <<generation, posture, credential>> /\ posture = "hardened"
    BY <1>4 DEF AuthenticateEnds, RequiresAuthentication
  <2>2. authenticated[d] = generation => proven[d] = credential
    BY <1>3, <2>1 DEF CredentialInv, GenerationsStand, RequiresAuthentication
  <2>3. PICK right \in BOOLEAN :
          LET opens == posture = "none" \/ (posture = "hardened" /\ right) IN
          /\ authenticated' = IF opens THEN [authenticated EXCEPT ![c] = generation] ELSE authenticated
          /\ proven' = IF opens /\ posture = "hardened"
                         THEN [proven EXCEPT ![c] = job[c].checked] ELSE proven
    BY DEF AuthenticateEnds
  <2>4. CASE right
    <3>1. /\ authenticated' = [authenticated EXCEPT ![c] = generation]
          /\ proven' = [proven EXCEPT ![c] = job[c].checked]
      BY <2>1, <2>3, <2>4
    <3> QED
      BY <1>2, <1>4, <2>1, <2>2, <3>1 DEF TypeInv, AuthTyped
  <2>5. CASE ~right
    <3>1. authenticated' = authenticated /\ proven' = proven
      BY <2>1, <2>3, <2>5
    <3> QED
      BY <1>4, <2>1, <2>2, <3>1
  <2> QED
    BY <2>4, <2>5
<1> QED
  BY <1>3, <1>4 DEF CredentialInv, GenerationsStand, AdmissionsHold

LEMMA ReturnKeepsCredentials ==
  ASSUME TypeInv, SerialInv, CredentialInv, NEW c \in Conns, job[c].stage \in Working,
         Request(c).op # "authenticate", NEW ok \in BOOLEAN, HandlerReturns(c, ok),
         UNCHANGED <<queue, serial, generation, authenticated, cooling>>
  PROVE  CredentialInv'
<1>1. PICK j : j = [job[c] EXCEPT !.stage = "done", !.ok = ok]
  OBVIOUS
<1>2. /\ j.stage = "done" /\ j.ok = ok /\ j.required = job[c].required
      /\ job' = [job EXCEPT ![c] = j] /\ job'[c] = j
  BY <1>1 DEF HandlerReturns, TypeInv, WorkTyped, Jobs
<1>3. JobMoves(c, j) /\ job[c].stage \in AtWork
  BY <1>2 DEF JobMoves, SerialInv, AtWork, Working
<1>4. JobHolds(c)
  BY DEF CredentialInv, AdmissionsHold
<1>5. ASSUME NEW d \in Conns, d # c
      PROVE  ~Deciding(d) /\ ~Deciding(d)' /\ job'[d].stage \notin Working
  BY <1>3, <1>5, AloneAtWork DEF AtWork
<1>6. ~Deciding(c)
  BY DEF Deciding, Working
<1>7. AdmissionsHold'
  BY <1>2, <1>5 DEF AdmissionsHold, Working
<1>8. ASSUME Deciding(c)' PROVE proven'[c] = credential'
  <2>1. CASE Decides(c)
    BY <1>2, <1>8, <2>1 DEF Deciding, HandlerReturns, Reseals, TypeInv, AuthTyped
  <2>2. CASE ~Decides(c)
    <3>1. UNCHANGED <<posture, credential, proven>>
      BY <2>2 DEF HandlerReturns
    <3>2. ~AdvancesGeneration(Request(c).op) /\ Request(c)' = Request(c)
      BY <2>2 DEF Decides, Request
    <3>3. ~job[c].required /\ RequiresAuthentication
      BY <1>2, <1>8, <3>1, <3>2 DEF Deciding, RequiresAuthentication
    <3> QED
      BY <1>4, <3>3 DEF JobHolds
  <2> QED
    BY <2>1, <2>2
<1>9. ASSUME ~Deciding(c)', RequiresAuthentication' PROVE UNCHANGED <<posture, credential, proven>>
  <2> SUFFICES ASSUME ok, Decides(c) PROVE FALSE
    BY DEF HandlerReturns
  <2>1. posture' = PostureAfter(c) /\ PostureAfter(c) = "hardened" /\ Request(c)' = Request(c)
    BY <1>9 DEF HandlerReturns, Reseals, RequiresAuthentication, Request
  <2>2. ~AdvancesGeneration(Request(c).op)
    BY <1>2, <1>9, <2>1 DEF Deciding
  <2>3. posture # "hardened" /\ Request(c).op \in {"login.commit", "policy.apply"}
    BY <2>1, <2>2 DEF Decides, PostureAfter, AdvancesGeneration
  <2>4. ~job[c].required
    BY <1>4, <2>3 DEF JobHolds, RequiresAuthentication
  <2> QED
    BY <1>2, <1>9, <2>1, <2>3, <2>4 DEF Deciding
<1>10. GenerationsStand'
  <2>1. ASSUME NEW d \in Conns, Deciding(d)' PROVE proven'[d] = credential'
    BY <1>5, <1>8, <2>1
  <2>2. ASSUME NEW d \in Conns, RequiresAuthentication', ~Deciding(c)', authenticated'[d] = generation'
        PROVE  proven'[d] = credential'
    <3>1. RequiresAuthentication /\ UNCHANGED <<posture, credential, proven>>
      BY <1>9, <2>2 DEF RequiresAuthentication
    <3> QED
      BY <1>5, <1>6, <2>2, <3>1 DEF CredentialInv, GenerationsStand
  <2> QED
    BY <2>1, <2>2 DEF GenerationsStand
<1> QED
  BY <1>7, <1>10 DEF CredentialInv

LEMMA ConcludeKeepsCredentials ==
  ASSUME TypeInv, SerialInv, CredentialInv, NEW c \in Conns, Conclude(c)
  PROVE  CredentialInv'
<1>1. PICK j : JobMoves(c, j) /\ j.stage \in {"idle", "flush"}
  BY ReplyMoves DEF Conclude
<1>2. job[c].stage \in AtWork
  BY DEF Conclude, AtWork
<1>3. ASSUME NEW d \in Conns PROVE ~Deciding(d)' /\ job'[d].stage \notin Working
  <2>1. job'[c] = j
    BY <1>1 DEF JobMoves, TypeInv, WorkTyped
  <2>2. CASE d = c
    BY <1>1, <2>1, <2>2 DEF Deciding, Working
  <2>3. CASE d # c
    BY <1>1, <1>2, <2>3, AloneAtWork DEF AtWork
  <2> QED
    BY <2>2, <2>3
<1>4. ASSUME NEW d \in Conns, RequiresAuthentication', authenticated'[d] = generation'
      PROVE  proven'[d] = credential'
  <2>1. UNCHANGED <<posture, credential, proven>> /\ RequiresAuthentication
    BY <1>4 DEF Conclude, RequiresAuthentication
  <2>2. CASE Deciding(c)
    <3>1. generation' = generation + 1 /\ authenticated' = [authenticated EXCEPT ![c] = generation + 1]
      BY <2>2 DEF Conclude, Deciding
    <3>2. authenticated[d] \in 0..generation /\ generation \in Nat
      BY DEF TypeInv, AuthTyped
    <3>3. d = c
      BY <1>4, <3>1, <3>2 DEF TypeInv, AuthTyped
    <3> QED
      BY <2>1, <2>2, <3>3 DEF CredentialInv, GenerationsStand
  <2>3. CASE ~Deciding(c)
    <3>1. UNCHANGED <<generation, authenticated>>
      BY <2>3 DEF Conclude, Deciding
    <3>2. \A e \in Conns : ~Deciding(e)
      BY <1>1, <1>2, <2>3, AloneAtWork
    <3> QED
      BY <1>4, <2>1, <3>1, <3>2 DEF CredentialInv, GenerationsStand
  <2> QED
    BY <2>2, <2>3
<1> QED
  BY <1>3, <1>4 DEF CredentialInv, GenerationsStand, AdmissionsHold

LEMMA ServeKeepsCredentials ==
  ASSUME TypeInv, SerialInv, CredentialInv, NEW c \in Conns, Serve(c)
  PROVE  CredentialInv'
<1>1. CASE TakeRequest(c)
  <2>1. job[c].stage = "idle" /\ UNCHANGED secretVars
    BY <1>1 DEF TakeRequest, authVars, secretVars
  <2>2. CASE queue' = [queue EXCEPT ![c] = Tail(@)] /\ UNCHANGED <<job, serial>>
    <3>1. job[c] = Idle /\ Idle.stage = "idle"
      BY <2>1 DEF TypeInv, JobShape, Idle
    <3>2. JobMoves(c, Idle)
      BY <2>2, <3>1 DEF JobMoves, AtWork, Working, TypeInv, WorkTyped
    <3> QED
      BY <2>1, <3>1, <3>2, MovesKeepCredentials DEF Working
  <2>3. CASE job' = [job EXCEPT ![c].stage = "waiting"] /\ UNCHANGED queue
    <3>1. ASSUME NEW d \in Conns
          PROVE  /\ Request(d)' = Request(d)
                 /\ d # c => job'[d] = job[d]
                 /\ d = c => job'[d].stage = "waiting"
      BY <2>3 DEF Request, TypeInv, WorkTyped, Jobs
    <3>2. ASSUME NEW d \in Conns PROVE Deciding(d)' <=> Deciding(d)
      BY <2>1, <3>1 DEF Deciding, RequiresAuthentication, AdvancesGeneration, secretVars
    <3>3. GenerationsStand'
      BY <2>1, <3>2 DEF CredentialInv, GenerationsStand, RequiresAuthentication, secretVars
    <3>4. AdmissionsHold'
      BY <2>1, <3>1 DEF CredentialInv, AdmissionsHold, JobHolds, Working, RequiresAuthentication, secretVars
    <3> QED
      BY <3>3, <3>4 DEF CredentialInv
  <2>4. CASE Handle(c) /\ ~IsSerial(Request(c).op)
    BY <2>1, <2>4, HandleKeepsCredentials
  <2> QED
    BY <1>1, <2>2, <2>3, <2>4 DEF TakeRequest
<1>2. CASE TakeTurn(c)
  BY <1>2, HandleKeepsCredentials DEF TakeTurn, authVars, secretVars
<1>3. CASE HandlerEnds(c)
  BY <1>3, ReturnKeepsCredentials DEF HandlerEnds, Working
<1>4. CASE SaveLogin(c)
  <2>1. job[c].stage \in Working /\ Request(c).op # "authenticate"
    BY <1>4 DEF SaveLogin, Working, SerialInv
  <2> QED
    BY <1>4, <2>1, ReturnKeepsCredentials DEF SaveLogin
<1>5. CASE RetireForCommit(c)
  <2>1. PICK st \in {"done", "closing"} : job' = [job EXCEPT ![c].stage = st]
    BY <1>5 DEF RetireForCommit
  <2>2. PICK j : j = [job[c] EXCEPT !.stage = st]
    OBVIOUS
  <2>3. /\ j.stage = st /\ j.ok = job[c].ok /\ j.required = job[c].required
        /\ job' = [job EXCEPT ![c] = j] /\ job'[c] = j
    BY <2>1, <2>2 DEF TypeInv, WorkTyped, Jobs
  <2>4. UNCHANGED <<queue, serial>> /\ UNCHANGED secretVars /\ job[c].stage = "retiring"
    BY <1>5 DEF RetireForCommit, authVars, secretVars
  <2>5. JobMoves(c, j)
    BY <2>1, <2>3, <2>4 DEF JobMoves, SerialInv, AtWork, Working
  <2>6. JobHolds(c) /\ Request(c).op = "login.commit"
    BY <2>4 DEF CredentialInv, AdmissionsHold, SerialInv, Working
  <2>7. ~j.ok /\ JobHolds(c)'
    BY <2>3, <2>4, <2>6 DEF JobHolds, Request, RequiresAuthentication, secretVars
  <2> QED
    BY <2>4, <2>5, <2>7, MovesKeepCredentials
<1>6. CASE ConcludeLogin(c)
  <2>1. UNCHANGED secretVars /\ job[c].stage = "login"
    BY <1>6 DEF ConcludeLogin, authVars, secretVars
  <2>2. CASE Reply(c)
    <3>1. PICK j : JobMoves(c, j) /\ j.stage \in {"idle", "flush"}
      BY <2>2, ReplyMoves
    <3> QED
      BY <2>1, <3>1, MovesKeepCredentials DEF Working
  <2>3. CASE job' = [job EXCEPT ![c].stage = "cancelling"] /\ UNCHANGED <<queue, serial>>
    <3>1. PICK j : j = [job[c] EXCEPT !.stage = "cancelling"]
      OBVIOUS
    <3>2. j.stage = "cancelling" /\ job' = [job EXCEPT ![c] = j]
      BY <2>3, <3>1 DEF TypeInv, WorkTyped, Jobs
    <3>3. JobMoves(c, j)
      BY <2>3, <3>2 DEF JobMoves, AtWork, Working
    <3> QED
      BY <2>1, <3>2, <3>3, MovesKeepCredentials DEF Working
  <2> QED
    BY <1>6, <2>2, <2>3 DEF ConcludeLogin
<1>7. CASE CancelEnds(c)
  <2>1. PICK j : JobMoves(c, j) /\ j.stage \in {"idle", "flush"}
    BY <1>7, ReplyMoves DEF CancelEnds
  <2>2. UNCHANGED secretVars /\ job[c].stage = "cancelling"
    BY <1>7 DEF CancelEnds, authVars, secretVars
  <2> QED
    BY <2>1, <2>2, MovesKeepCredentials DEF Working
<1>8. CASE EndFlush(c) \/ EndStop(c)
  <2>1. Idle.stage = "idle"
    BY DEF Idle
  <2>2. JobMoves(c, Idle)
    BY <1>8, <2>1 DEF EndFlush, EndStop, JobMoves, AtWork, Working, TypeInv, WorkTyped
  <2>3. UNCHANGED secretVars /\ job[c].stage # "done"
    BY <1>8 DEF EndFlush, EndStop, authVars, secretVars
  <2> QED
    BY <2>1, <2>2, <2>3, MovesKeepCredentials DEF Working
<1>9. ASSUME NEW l \in FlowsOf(c), HandleAnswer(l) PROVE CredentialInv'
  <2>1. UNCHANGED <<job, queue>> /\ UNCHANGED secretVars
    BY <1>9 DEF HandleAnswer, authVars, secretVars
  <2>2. \A d \in Conns : (Deciding(d)' <=> Deciding(d)) /\ Request(d)' = Request(d)
    BY <2>1 DEF Deciding, Request, RequiresAuthentication, AdvancesGeneration, secretVars
  <2> QED
    BY <2>1, <2>2 DEF CredentialInv, GenerationsStand, AdmissionsHold, JobHolds, RequiresAuthentication,
      secretVars
<1> QED
  BY <1>1, <1>2, <1>3, <1>4, <1>5, <1>6, <1>7, <1>8, <1>9, AuthenticateKeepsCredentials,
    ConcludeKeepsCredentials DEF Serve

LEMMA CredentialsKept ==
  TypeInv /\ SerialInv /\ CredentialInv /\ [OperatorNext]_operatorVars => CredentialInv'
<1> SUFFICES ASSUME TypeInv, SerialInv, CredentialInv, [OperatorNext]_operatorVars
             PROVE  CredentialInv'
  OBVIOUS
<1>0. ASSUME UNCHANGED workVars,
             UNCHANGED <<generation, authenticated, posture, credential, proven>>, cooling' => cooling
      PROVE  CredentialInv'
  BY <1>0, QuietKeepsCredentials DEF workVars, Quiet, Request
<1>1. CASE UNCHANGED operatorVars
  BY <1>0, <1>1 DEF operatorVars, authVars
<1>2. ASSUME NEW c \in Conns, Receive(c) PROVE CredentialInv'
  <2>1. Quiet
    BY <1>2, ReceiveKeepsRequest DEF Quiet, Receive
  <2> QED
    BY <1>2, <2>1, QuietKeepsCredentials DEF Receive, authVars
<1>3. ASSUME NEW c \in Conns, FirstFrameTimeout(c) \/ PeerLeaves(c) \/ PeerReads(c) \/ Disconnect(c)
      PROVE  CredentialInv'
  BY <1>0, <1>3 DEF FirstFrameTimeout, PeerLeaves, PeerReads, Disconnect, authVars
<1>4. ASSUME NEW l \in Flows, Answer(l) PROVE CredentialInv'
  <2>1. UNCHANGED <<job, queue>> /\ UNCHANGED secretVars
    BY <1>4 DEF Answer, authVars, secretVars
  <2>2. \A d \in Conns : (Deciding(d)' <=> Deciding(d)) /\ Request(d)' = Request(d)
    BY <2>1 DEF Deciding, Request, RequiresAuthentication, AdvancesGeneration, secretVars
  <2> QED
    BY <2>1, <2>2 DEF CredentialInv, GenerationsStand, AdmissionsHold, JobHolds, RequiresAuthentication,
      secretVars
<1>5. CASE CoolDown \/ Shutdown
  BY <1>0, <1>5 DEF CoolDown, Shutdown, authVars
<1>6. ASSUME NEW l \in Flows, SignIn(l) PROVE CredentialInv'
  <2>1. UNCHANGED <<workVars, authVars>>
    BY <1>6 DEF SignIn, ConnectEnds, SignInError, SignInSucceeds, Ask, PublishLogin, DisposeEnds
  <2> QED
    BY <1>0, <2>1 DEF authVars
<1>7. CASE Teardown
  BY <1>0, <1>7 DEF Teardown, Drained, LoginsDisposed, authVars
<1> QED
  BY <1>1, <1>2, <1>3, <1>4, <1>5, <1>6, <1>7, ServeKeepsCredentials DEF OperatorNext, Environment

LEMMA CredentialsAlways == OperatorSpec => [](TypeInv /\ SerialInv /\ CredentialInv)
<1>1. ASSUME OperatorInit PROVE SerialInv /\ CredentialInv
  <2>1. Idle.stage = "idle"
    BY DEF Idle
  <2>2. \A c \in Conns : job[c].stage = "idle" /\ authenticated[c] = 0
    BY <1>1, <2>1 DEF OperatorInit
  <2>3. generation = 1
    BY <1>1 DEF OperatorInit
  <2> QED
    BY <2>2, <2>3, <1>1 DEF OperatorInit, SerialInv, CredentialInv, GenerationsStand, Deciding,
      AdmissionsHold, AtWork, Working
<1> QED
  BY <1>1, TypesInitially, TypesKept, SerialKept, CredentialsKept, PTL DEF OperatorSpec

(* Under a hardened posture a handler works only for a connection that has *)
(* shown, or has itself set, the secret that protects the store now        *)
(* (authenticationGeneration in operator/server.ts).                       *)
THEOREM CredentialsAreCurrent == OperatorSpec => []OnlyTheCurrentCredential
<1>1. SerialInv /\ CredentialInv => OnlyTheCurrentCredential
  BY DEF CredentialInv, AdmissionsHold, JobHolds, OnlyTheCurrentCredential
<1> QED
  BY <1>1, CredentialsAlways, PTL

(* No credential is checked during a cool-down (authenticate in daemon.ts): *)
(* a check that was admitted before one began has ended before it.          *)
THEOREM GuessesThrottled == OperatorSpec => GuessesAreThrottled
<1>1. TypeInv /\ SerialInv /\ CredentialInv /\ [OperatorNext]_operatorVars
        => [failures' > failures => ~cooling]_operatorVars
  <2> SUFFICES ASSUME TypeInv, CredentialInv, OperatorNext, failures' # failures PROVE ~cooling
    BY DEF TypeInv, AuthTyped
  <2>1. PICK c \in Conns : AuthenticateEnds(c)
    <3>1. ASSUME NEW c \in Conns, Serve(c), ~AuthenticateEnds(c) PROVE failures' = failures
      BY <3>1 DEF Serve, TakeRequest, TakeTurn, HandlerEnds, RetireForCommit, SaveLogin, Conclude,
        ConcludeLogin, CancelEnds, EndFlush, EndStop, HandleAnswer, authVars
    <3>2. ASSUME NEW c \in Conns, Disconnect(c) PROVE failures' = failures
      BY <3>2 DEF Disconnect, authVars
    <3>3. ASSUME NEW l \in Flows, SignIn(l) PROVE failures' = failures
      BY <3>3 DEF SignIn, ConnectEnds, SignInError, SignInSucceeds, Ask, PublishLogin, DisposeEnds,
        authVars
    <3>4. Environment \/ Teardown => failures' = failures
      BY DEF Environment, Receive, FirstFrameTimeout, PeerLeaves, PeerReads, Answer, CoolDown, Shutdown,
        Teardown, Drained, LoginsDisposed, authVars
    <3> QED
      BY <3>1, <3>2, <3>3, <3>4 DEF OperatorNext
  <2> QED
    BY <2>1 DEF AuthenticateEnds, CredentialInv, AdmissionsHold, JobHolds, Working
<1> QED
  BY <1>1, CredentialsAlways, PTL DEF OperatorSpec, GuessesAreThrottled
=============================================================================
