---------------------------- MODULE ServiceStart ----------------------------
(***************************************************************************)
(* How a daemon process (startDaemon() in src/presentation/mcp/daemon.ts)  *)
(* comes up and goes down around the process lease: it removes the sockets *)
(* of a dead owner, binds the client and the operator socket, serves, and  *)
(* closes both before it releases the lease.                               *)
(*                                                                         *)
(* A socket file is identified by the process that bound it, which stands  *)
(* for its device and inode.  It stays behind when that process dies.      *)
(***************************************************************************)
EXTENDS ProcessLease

VARIABLES
  socket,  \* socket[s]: the process that bound s, Nobody without a file
  stage,   \* stage[p]: progress of the process that acquires as p
  which,   \* which[p]: the socket it is about to look at or to bind
  seen     \* seen[p]: the file it found there

socketVars == <<socket, stage, which, seen>>
vars == <<leaseVars, socketVars>>

Sockets == {"client", "operator"}

Stages == {"lease", "look", "probe", "compare", "unlink", "bind", "serving",
           "closing", "leaving"}

Holders == Starters \cup {Nobody}

ServiceTypeOK ==
  /\ LeaseTypeOK
  /\ socket \in [Sockets -> Holders]
  /\ stage \in [Starters -> Stages]
  /\ which \in [Starters -> Sockets]
  /\ seen \in [Starters -> Holders]

ServiceInit ==
  /\ LeaseInit
  /\ socket = [s \in Sockets |-> Nobody]
  /\ stage  = [p \in Starters |-> "lease"]
  /\ which  = [p \in Starters |-> "client"]
  /\ seen   = [p \in Starters |-> Nobody]

Move(p, s) == stage' = [stage EXCEPT ![p] = s]

Point(p, s) == which' = [which EXCEPT ![p] = s]

(* p is past the lease and its process lives. *)
Up(p, s) == Holding(p) /\ stage[p] = s

(* Something listens at the path of s. *)
Answers(s) == socket[s] # Nobody /\ Living(socket[s])

-----------------------------------------------------------------------------

StartLease(p) ==
  /\ Begin(p) \/ Acquire(p)
  /\ UNCHANGED socketVars

(* The lease is acquired; a dead owner may have left its sockets. *)
EnterService(p) ==
  /\ Up(p, "lease")
  /\ Move(p, IF recovered[p] THEN "look" ELSE "bind")
  /\ UNCHANGED <<leaseVars, socket, which, seen>>

(* The socket at hand is out of the way: the other one, then binding. *)
Onward(p) ==
  IF which[p] = "client"
    THEN Point(p, "operator") /\ Move(p, "look")
    ELSE Point(p, "client") /\ Move(p, "bind")

(* recoverStaleDaemonSocket(): lstat, connect, lstat again, unlink. *)
LookAtSocket(p) ==
  /\ Up(p, "look")
  /\ seen' = [seen EXCEPT ![p] = socket[which[p]]]
  /\ IF socket[which[p]] = Nobody THEN Onward(p) ELSE Move(p, "probe") /\ UNCHANGED which
  /\ UNCHANGED <<leaseVars, socket>>

ProbeSocket(p) ==
  /\ Up(p, "probe")
  /\ Move(p, IF Answers(which[p]) THEN "leaving" ELSE "compare")
  /\ UNCHANGED <<leaseVars, socket, which, seen>>

CompareSocket(p) ==
  /\ Up(p, "compare")
  /\ IF socket[which[p]] = Nobody
       THEN Onward(p)
       ELSE /\ Move(p, IF socket[which[p]] = seen[p] THEN "unlink" ELSE "leaving")
            /\ UNCHANGED which
  /\ UNCHANGED <<leaseVars, socket, seen>>

UnlinkSocket(p) ==
  /\ Up(p, "unlink")
  /\ socket' = [socket EXCEPT ![which[p]] = Nobody]
  /\ Onward(p)
  /\ UNCHANGED <<leaseVars, seen>>

(* listen(): the client socket, then the operator socket.  An address in   *)
(* use, by whomever, ends the start; what was bound is closed.             *)
BindSocket(p) ==
  /\ Up(p, "bind")
  /\ IF socket[which[p]] = Nobody
       THEN /\ socket' = [socket EXCEPT ![which[p]] = p]
            /\ Point(p, "operator")
            /\ Move(p, IF which[p] = "client" THEN "bind" ELSE "serving")
       ELSE /\ socket' = [s \in Sockets |-> IF socket[s] = p THEN Nobody ELSE socket[s]]
            /\ Move(p, "leaving")
            /\ UNCHANGED which
  /\ UNCHANGED <<leaseVars, seen>>

StopReleasingFirst(p) ==
  /\ Up(p, "serving")
  /\ socket' = [socket EXCEPT !["operator"] = Nobody]
  /\ Move(p, "leaving")
  /\ UNCHANGED <<leaseVars, which, seen>>

(* shutdown(): the operator socket is closed first, the client socket when *)
(* the Telegram connections are drained; closing removes the file.         *)
StopOperator(p) ==
  /\ Up(p, "serving")
  /\ socket' = [socket EXCEPT !["operator"] = Nobody]
  /\ Move(p, "closing")
  /\ UNCHANGED <<leaseVars, which, seen>>

CloseClients(p) ==
  /\ Up(p, "closing")
  /\ socket' = [socket EXCEPT !["client"] = Nobody]
  /\ Move(p, "leaving")
  /\ UNCHANGED <<leaseVars, which, seen>>

GiveUpLease(p) ==
  /\ stage[p] = "leaving"
  /\ Release(p)
  /\ UNCHANGED socketVars

(* The watchdog of the shutdown is one of the deaths. *)
ProcessEnds(n) ==
  /\ Die(n) \/ Stranger(n)
  /\ UNCHANGED socketVars

-----------------------------------------------------------------------------

StartStep(p) ==
  \/ EnterService(p)
  \/ LookAtSocket(p)
  \/ ProbeSocket(p)
  \/ CompareSocket(p)
  \/ UnlinkSocket(p)
  \/ BindSocket(p)

ServiceNext ==
  \/ \E p \in Starters :
       \/ StartLease(p)
       \/ StartStep(p)
       \/ StopOperator(p)
       \/ CloseClients(p)
       \/ GiveUpLease(p)
  \/ \E n \in Pids : ProcessEnds(n)

ServiceSpec == ServiceInit /\ [][ServiceNext]_vars

(* System calls return; nobody has to start, to stop or to crash. *)
ServiceFairness ==
  \A p \in Starters :
    /\ WF_vars(Acquire(p) /\ UNCHANGED socketVars)
    /\ WF_vars(StartStep(p))

ServiceFairSpec == ServiceSpec /\ ServiceFairness

-----------------------------------------------------------------------------
(* Properties. *)

(* The record of p in the lease proves to its next holder that an owner    *)
(* died, or p has that proof and the sockets still before it.              *)
ProvesDeath(p) ==
  \/ ~Living(p)
  \/ at[p] = "settle"
  \/ recovered[p] /\ stage[p] \in {"lease", "look", "probe", "compare", "unlink"}

(* A socket left by a dead process is never out of reach of recovery: as   *)
(* long as it is there, the lease proves a death.  Else every later start  *)
(* would end at an address in use.                                         *)
StaleSocketsAreProvable ==
  \A s \in Sockets :
    socket[s] # Nobody /\ ~Living(socket[s]) =>
      \E f \in Files : lease[f] # Nobody /\ ProvesDeath(lease[f])

(* A process that serves is the one that clients and operators reach, and  *)
(* nobody else removes its sockets, even from behind a stale check.        *)
ServiceIsReachable ==
  \A p \in Starters :
    Up(p, "serving") => \A s \in Sockets : socket[s] = p

(* p lives, no other starter does, and no process has the PID of a dead    *)
(* one, p itself included: such an owner would be taken for alive.         *)
Alone(p) ==
  /\ strangers = {}
  /\ \A q \in Starters : Living(q) <=> q = p
  /\ \A q \in Starters : at[q] = "dead" => PidOf[q] # PidOf[p]

(* Whatever a crash left behind, a start that then runs alone ends in the  *)
(* service.                                                                *)
ServiceRestarts ==
  \A p \in Starters :
    (at[p] = "publish" /\ round[p] = 0 /\ Alone(p))
      ~> (Up(p, "serving") \/ ~Alone(p))
=============================================================================
