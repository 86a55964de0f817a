--------------------------- MODULE ToolCallsProofs ---------------------------
(***************************************************************************)
(* Proofs about ToolCalls, for any number of endpoints, calls and policies *)
(* and for every scene.                                                    *)
(***************************************************************************)
EXTENDS ToolCalls, FiniteSetTheorems, SequenceTheorems, WellFoundedInduction, TLAPS

CallStates == {"unsent", "received", "waiting", "asking", "confining", "preparing", "linking",
               "requesting", "auditing", "answering", "done"}

UseStates == {"none", "opening", "relinking", "ready", "refused"}

-----------------------------------------------------------------------------
(* The connection and its teardown.                                        *)

(* The later a teardown is, the less is left that could use the key.  *)
LinkInv ==
  /\ teardown \in {"opening", "destroying", "done", "failed"} => relink = "idle"
  /\ teardown \in {"destroying", "done"} => opening = "idle"
  /\ teardown = "done" => link \in {"none", "gone"}
  /\ link \in {"gone", "stuck"} => teardown \in {"done", "failed"}
  /\ teardown \in {"relink", "opening", "destroying", "done", "failed"} =>
       \A l \in Loans : use[l] \in {"none", "refused"}
  /\ \A u \in Loans \cup Callers :
       use[u] \in {"relinking", "ready"} => link \in {"up", "down"}

GatewayInv == GatewayTypeOK /\ LinkInv

(* Past its first stage a teardown finds no operation of a caller.         *)
Past == teardown \notin {"none", "clients"}

CallersIdle == \A c \in Callers : use[c] = "none"

LEMMA SettleAt ==
  ASSUME GatewayTypeOK, NEW waited \in UseStates, NEW verdict \in UseStates,
         Settle(waited, verdict)
  PROVE  /\ use' \in [Loans \cup Callers -> UseStates]
         /\ \A u \in Loans \cup Callers :
              use'[u] = IF use[u] = waited THEN verdict ELSE use[u]
  BY DEF GatewayTypeOK, Settle, UseStates

LEMMA UseAt ==
  ASSUME GatewayTypeOK, NEW u \in Loans \cup Callers, NEW v \in UseStates,
         use' = [use EXCEPT ![u] = v]
  PROVE  /\ use' \in [Loans \cup Callers -> UseStates]
         /\ \A w \in Loans \cup Callers : use'[w] = IF w = u THEN v ELSE use[w]
  BY DEF GatewayTypeOK, UseStates

LEMMA BorrowAt ==
  ASSUME GatewayInv, NEW l \in Loans \cup Callers, Borrow(l)
  PROVE  /\ use[l] = "none" /\ link' = link /\ teardown' = teardown
         /\ opening' = opening \/ (~Disposed /\ opening' = "connecting" /\ opening = "idle")
         /\ relink' = relink \/ (~Disposed /\ relink' = "connecting" /\ relink = "idle")
         /\ \E v \in UseStates \ {"none"} :
              /\ use' = [use EXCEPT ![l] = v]
              /\ v \in {"relinking", "ready"} => link \in {"up", "down"}
              /\ Disposed => v = "refused"
  BY DEF Borrow, GatewayInv, GatewayTypeOK, LinkInv, LinkStates, UseStates, Disposed

LEMMA RejoinAt ==
  ASSUME GatewayInv, NEW c \in Callers, Rejoin(c)
  PROVE  /\ link' = link /\ teardown' = teardown /\ opening' = opening
         /\ relink' = relink \/ (~Disposed /\ relink' = "connecting" /\ relink = "idle")
         /\ \E v \in UseStates \ {"none"} :
              /\ use' = [use EXCEPT ![c] = v]
              /\ v = "ready" => link = "up"
              /\ v = "relinking" => ~Disposed
  BY DEF Rejoin, GatewayInv, GatewayTypeOK, UseStates, Disposed

LEMMA UseStepInv ==
  ASSUME GatewayInv,
         \/ \E l \in Loans : Borrow(l)
         \/ (\E c \in Callers : Rejoin(c)) /\ (Disposed \/ link \in {"up", "down"})
         \/ \E u \in Loans \cup Callers : Return(u)
  PROVE  GatewayInv'
<1>1. /\ teardown' = teardown /\ link' = link /\ UNCHANGED <<relinkOf, aborted>>
      /\ opening' = opening \/ (~Disposed /\ opening' = "connecting")
      /\ relink' = relink \/ (~Disposed /\ relink' = "connecting")
  BY BorrowAt, RejoinAt DEF Borrow, Rejoin, Return
<1>2. PICK u \in Loans \cup Callers, v \in UseStates :
        /\ use' = [use EXCEPT ![u] = v]
        /\ v \in {"relinking", "ready"} => link \in {"up", "down"}
        /\ u \in Loans /\ Disposed => v \in {"none", "refused"}
  <2>1. CASE \E l \in Loans : Borrow(l)
    BY <2>1, BorrowAt
  <2>2. CASE (\E c \in Callers : Rejoin(c)) /\ (Disposed \/ link \in {"up", "down"})
    <3>1. PICK c \in Callers : Rejoin(c)
      BY <2>2
    <3>2. c \notin Loans
      BY CallsAssumption
    <3> QED
      BY <2>2, <3>1, <3>2, RejoinAt
  <2>3. CASE \E u \in Loans \cup Callers : Return(u)
    BY <2>3 DEF Return, UseStates
  <2> QED
    BY <2>1, <2>2, <2>3
<1>3. /\ use' \in [Loans \cup Callers -> UseStates]
      /\ \A w \in Loans \cup Callers : use'[w] = IF w = u THEN v ELSE use[w]
  BY <1>2, UseAt DEF GatewayInv
<1>4. GatewayTypeOK'
  BY <1>1, <1>3 DEF GatewayInv, GatewayTypeOK, UseStates, OpeningStates, RelinkStates
<1>5. LinkInv'
  BY <1>1, <1>2, <1>3 DEF GatewayInv, GatewayTypeOK, LinkInv, Disposed
<1> QED
  BY <1>4, <1>5 DEF GatewayInv

(* What happens to the connection by itself. *)
LinkStep ==
  \/ LinkDrops \/ SenderReconnects
  \/ RelinkDisconnected \/ RelinkConnected \/ RelinkFails
  \/ OpenConnects \/ OpenChecked \/ AbortedClientDestroyed \/ ConnectionDestroyed

LEMMA LinkStepAt ==
  ASSUME GatewayInv, LinkStep
  PROVE  /\ teardown' = teardown \/ (teardown = "destroying" /\ teardown' \in {"done", "failed"})
         /\ use' \in [Loans \cup Callers -> UseStates]
         /\ \A u \in Loans \cup Callers :
              \/ use'[u] = use[u]
              \/ use[u] # "none" /\ use'[u] = "refused"
              \/ /\ use[u] # "none" /\ use'[u] = "ready" /\ ~Disposed
                 /\ link' \in {"up", "down"}
         /\ link \in {"up", "down"} /\ teardown # "destroying" => link' \in {"up", "down"}
<1> USE DEF UseStates
<1>1. CASE LinkDrops \/ SenderReconnects \/ OpenConnects
  BY <1>1 DEF LinkDrops, SenderReconnects, OpenConnects, GatewayInv, GatewayTypeOK
<1>2. CASE RelinkDisconnected
  BY <1>2, SettleAt DEF RelinkDisconnected, RelinkOver, GatewayInv, GatewayTypeOK
<1>3. CASE RelinkConnected
  BY <1>3, SettleAt DEF RelinkConnected, RelinkOver, GatewayInv, GatewayTypeOK, LinkInv
<1>4. CASE RelinkFails
  BY <1>4, SettleAt DEF RelinkFails, RelinkOver, GatewayInv, GatewayTypeOK
<1>5. CASE OpenChecked
  BY <1>5, SettleAt DEF OpenChecked, GatewayInv, GatewayTypeOK
<1>6. CASE AbortedClientDestroyed
  BY <1>6, SettleAt DEF AbortedClientDestroyed, GatewayInv, GatewayTypeOK
<1>7. CASE ConnectionDestroyed
  BY <1>7 DEF ConnectionDestroyed, GatewayInv, GatewayTypeOK
<1> QED
  BY <1>1, <1>2, <1>3, <1>4, <1>5, <1>6, <1>7 DEF LinkStep

LEMMA LinkStepInv ==
  ASSUME GatewayInv, LinkStep, Past => CallersIdle
  PROVE  GatewayInv'
<1>1. GatewayTypeOK'
  BY LinkStepAt
  DEF GatewayInv, GatewayTypeOK, LinkStep, LinkDrops, SenderReconnects, RelinkDisconnected,
      RelinkConnected, RelinkFails, RelinkOver, OpenConnects, OpenChecked,
      AbortedClientDestroyed, ConnectionDestroyed, UseStates, LinkStates, OpeningStates, RelinkStates, TeardownStates
<1>2. /\ teardown' \in {"opening", "destroying", "done", "failed"} => relink' = "idle"
      /\ teardown' \in {"destroying", "done"} => opening' = "idle"
      /\ teardown' = "done" => link' \in {"none", "gone"}
      /\ link' \in {"gone", "stuck"} => teardown' \in {"done", "failed"}
  BY DEF GatewayInv, GatewayTypeOK, LinkInv, LinkStep, LinkDrops, SenderReconnects,
      RelinkDisconnected, RelinkConnected, RelinkFails, RelinkOver, OpenConnects, OpenChecked,
      AbortedClientDestroyed, ConnectionDestroyed, Disposed
<1>3. teardown' \in {"relink", "opening", "destroying", "done", "failed"} =>
        \A l \in Loans : use'[l] \in {"none", "refused"}
  BY LinkStepAt DEF GatewayInv, LinkInv, Disposed
<1>4. ASSUME NEW u \in Loans \cup Callers, use'[u] \in {"relinking", "ready"}
      PROVE  link' \in {"up", "down"}
  <2>1. CASE use[u] \in {"relinking", "ready"}
    <3>1. teardown # "destroying"
      BY <2>1 DEF Past, CallersIdle, GatewayInv, LinkInv
    <3> QED
      BY <2>1, <3>1, LinkStepAt DEF GatewayInv, LinkInv
  <2>2. CASE use[u] \notin {"relinking", "ready"}
    BY <1>4, <2>2, LinkStepAt
  <2> QED
    BY <2>1, <2>2
<1> QED
  BY <1>1, <1>2, <1>3, <1>4 DEF GatewayInv, LinkInv

LEMMA TeardownInv ==
  ASSUME GatewayInv, NEW clients, StartTeardown \/ TeardownContinues(clients),
         Past' => CallersIdle
  PROVE  /\ GatewayInv'
         /\ UNCHANGED <<link, opening, relink, relinkOf, aborted, use>>
         /\ Disposed' /\ (Past' /\ ~Past => clients = {})
<1>1. UNCHANGED <<link, opening, relink, relinkOf, aborted, use>> /\ teardown' \in TeardownStates
  BY DEF StartTeardown, TeardownContinues, TeardownStates
<1>2. GatewayTypeOK'
  BY <1>1 DEF GatewayInv, GatewayTypeOK
<1>3. /\ teardown' \in {"opening", "destroying", "done", "failed"} => relink = "idle"
      /\ teardown' \in {"destroying", "done"} => opening = "idle"
      /\ teardown' = "done" => link \in {"none", "gone"}
      /\ link \in {"gone", "stuck"} => teardown' \in {"done", "failed"}
      /\ teardown' \in {"relink", "opening", "destroying", "done", "failed"} =>
           \A l \in Loans : use[l] \in {"none", "refused"}
  BY DEF GatewayInv, GatewayTypeOK, LinkInv, StartTeardown, TeardownContinues
<1>4. LinkInv'
  BY <1>1, <1>3 DEF GatewayInv, LinkInv
<1>5. Disposed' /\ (Past' /\ ~Past => clients = {})
  BY DEF StartTeardown, TeardownContinues, Disposed, Past
<1> QED
  BY <1>1, <1>2, <1>4, <1>5 DEF GatewayInv

-----------------------------------------------------------------------------
(* Calls, their contexts and the clients that are disposed.                *)

CallTypes ==
  /\ at \in [Calls -> CallStates]
  /\ home \in [Calls -> 0..MaxGenerations]
  /\ generation \in Generations
  /\ context \in [Contexts -> {"none", "resolving", "binding", "bound"}]
  /\ awaited \in [Contexts -> SUBSET Calls]
  /\ open \subseteq Endpoints

(* A call has the context it runs in, which is open until the call is not  *)
(* tracked any more.                                                       *)
HomeInv(c) ==
  /\ at[c] # "unsent" => Call(c).on \in Endpoints
  /\ at[c] \notin {"unsent", "received", "done"} => home[c] \in Generations \/ at[c] = "answering"
  /\ at[c] \in {"asking", "confining", "preparing", "linking", "requesting"} =>
       context[Ctx(c)] = "bound"
  /\ use[c] # "none" => at[c] = "linking"
  /\ Tracked(c) => Ctx(c) \notin released
  /\ at[c] = "requesting" => link \in {"up", "down"}

(* Clients are disposed once, when they are bound, and all of them before  *)
(* the connection, which is shared as long as one of them is not; a        *)
(* disposal waits for the operations it found.                             *)
ClientInv ==
  /\ released \subseteq retired
  /\ retired \subseteq {x \in Contexts : context[x] = "bound"}
  /\ Disposed => \A x \in Contexts : context[x] = "bound" => x \in retired
  /\ Past => retired = released
  /\ \A x \in Contexts \ retired : context[x] = "bound" => link \in {"up", "down"}
  /\ \A x \in retired \ released : TrackedIn(x) \subseteq awaited[x]

OwnerInv ==
  /\ GatewayInv
  /\ CallTypes
  /\ ClientInv
  /\ \A c \in Calls : HomeInv(c)

LEMMA CtxTyped ==
  ASSUME OwnerInv, NEW c \in Calls, at[c] # "unsent", home[c] \in Generations
  PROVE  Ctx(c) \in Contexts
  BY DEF OwnerInv, HomeInv, Contexts, Ctx

(* A call that is tracked shows that no teardown is past the clients.      *)
LEMMA PastIsIdle ==
  ASSUME OwnerInv
  PROVE  /\ Past => CallersIdle
         /\ Past => \A c \in Calls : ~Tracked(c)
<1>1. ASSUME NEW c \in Calls, Tracked(c), Past
      PROVE  FALSE
  <2>1. HomeInv(c)
    BY DEF OwnerInv
  <2>2. Ctx(c) \in Contexts /\ context[Ctx(c)] = "bound" /\ Ctx(c) \notin released
    BY <1>1, <2>1, CtxTyped DEF HomeInv, Tracked
  <2> QED
    BY <1>1, <2>2 DEF OwnerInv, ClientInv, Past, Disposed
<1>2. \A c \in Calls : use[c] # "none" => Tracked(c)
  BY DEF OwnerInv, HomeInv, Tracked
<1> QED
  BY <1>1, <1>2, CallsAssumption DEF CallersIdle

LEMMA OwnerInvInit == CallsInit => OwnerInv
<1> SUFFICES ASSUME CallsInit
             PROVE  OwnerInv
  OBVIOUS
<1>1. GatewayInv
  BY DEF CallsInit, GatewayInit, GatewayInv, GatewayTypeOK, LinkInv, LinkStates, OpeningStates,
    RelinkStates, TeardownStates
<1>2. CallTypes
  BY CallsAssumption DEF CallsInit, CallTypes, CallStates, Generations
<1>3. ClientInv
  BY DEF CallsInit, GatewayInit, ClientInv, Disposed, Past
<1>4. \A c \in Calls : HomeInv(c)
  BY CallsAssumption DEF CallsInit, GatewayInit, HomeInv, Tracked
<1> QED
  BY <1>1, <1>2, <1>3, <1>4 DEF OwnerInv

(* One call moves on, with what it does to the connection.                 *)
CallMove(c, s) ==
  /\ at' = [at EXCEPT ![c] = s]
  /\ UNCHANGED <<scene, home, contextVars>>
  /\ open' \subseteq open
  /\ \/ UNCHANGED gatewayVars /\ (use[c] # "none" => s = "linking")
     \/ Rejoin(c) /\ s = "linking" /\ Live(c)
     \/ Return(c)

Admits(c, s) ==
  /\ at[c] # "done"
  /\ at[c] = "unsent" => Call(c).on \in Endpoints /\ s \in {"received", "done"}
  /\ at[c] = "received" => s \in {"received", "done"}
  /\ at[c] = "answering" => s = "done"
  /\ s = "unsent" => FALSE
  /\ s \in {"asking", "confining", "preparing", "linking", "requesting"} =>
       context[Ctx(c)] = "bound"
  /\ s \in {"preparing", "linking", "requesting"} =>
       Tracked(c) \/ (Live(c) /\ at[c] \in {"waiting", "asking", "confining"})
  /\ s = "requesting" => link \in {"up", "down"}

LEMMA CallMoveInv ==
  ASSUME OwnerInv, NEW c \in Calls, NEW s \in CallStates, CallMove(c, s), Admits(c, s)
  PROVE  OwnerInv'
<1>1. /\ UNCHANGED <<scene, home, generation, context, retired, awaited, released, teardown, link>>
      /\ open' \subseteq open
      /\ \A d \in Calls : at'[d] = IF d = c THEN s ELSE at[d]
      /\ at' \in [Calls -> CallStates]
  BY DEF CallMove, contextVars, gatewayVars, Rejoin, Return, OwnerInv, CallTypes
<1>3. GatewayInv'
  <2>1. CASE UNCHANGED gatewayVars
    BY <2>1 DEF OwnerInv, GatewayInv, GatewayTypeOK, LinkInv, gatewayVars
  <2>2. CASE Rejoin(c) /\ s = "linking" /\ Live(c)
    <3>1. context[Ctx(c)] = "bound" /\ Ctx(c) \in Contexts
      BY <2>2, CtxTyped DEF Admits, OwnerInv, HomeInv
    <3>2. link \in {"up", "down"}
      BY <2>2, <3>1 DEF OwnerInv, ClientInv, Live
    <3> QED
      BY <2>2, <3>2, UseStepInv, CallsAssumption DEF OwnerInv
  <2>3. CASE Return(c)
    BY <2>3, UseStepInv, CallsAssumption DEF OwnerInv
  <2> QED
    BY <2>1, <2>2, <2>3 DEF CallMove
<1>4. CallTypes'
  BY <1>1 DEF OwnerInv, CallTypes
<1>5. \A d \in Calls : use'[d] # "none" => IF d = c THEN s = "linking" ELSE use[d] # "none"
  <2>1. GatewayTypeOK /\ GatewayInv /\ Calls \subseteq Loans \cup Callers
    BY CallsAssumption DEF OwnerInv, GatewayInv
  <2>2. CASE UNCHANGED gatewayVars /\ (use[c] # "none" => s = "linking")
    BY <2>2 DEF gatewayVars
  <2>3. CASE Rejoin(c) /\ s = "linking"
    BY <2>1, <2>3, RejoinAt, UseAt, CallsAssumption
  <2>4. CASE Return(c)
    BY <2>1, <2>4, UseAt DEF Return, UseStates
  <2> QED
    BY <2>2, <2>3, <2>4 DEF CallMove
<1>6. \A d \in Calls : /\ Call(d)' = Call(d) /\ Ctx(d)' = Ctx(d)
                       /\ Tracked(d)' => Tracked(d) \/ (d = c /\ Live(c) /\ home[c] \in Generations)
  BY <1>1 DEF Call, Ctx, Tracked, Admits, OwnerInv, HomeInv
<1>7. ASSUME NEW d \in Calls
      PROVE  HomeInv(d)'
  <2>1. HomeInv(d)
    BY DEF OwnerInv
  <2>2. CASE d # c
    BY <1>1, <1>5, <1>6, <2>1, <2>2 DEF HomeInv, Tracked
  <2>3. CASE d = c
    <3>1. Tracked(c)' => Ctx(c) \notin released
      BY <1>6, <2>1, <2>3 DEF OwnerInv, ClientInv, Live, HomeInv
    <3>2. (at[c] # "unsent" => Call(c).on \in Endpoints)'
      BY <1>1, <1>6, <2>1, <2>3 DEF HomeInv, Admits
    <3>3. s \notin {"unsent", "received", "done"} => home[c] \in Generations \/ s = "answering"
      BY <2>1, <2>3 DEF HomeInv, Admits
    <3> QED
      BY <1>1, <1>5, <1>6, <2>3, <3>1, <3>2, <3>3 DEF HomeInv, Admits
  <2> QED
    BY <2>2, <2>3
<1>8. ClientInv'
  <2>1. ASSUME NEW x \in retired \ released
        PROVE  TrackedIn(x)' \subseteq TrackedIn(x)
    BY <1>1, <1>6, <2>1 DEF TrackedIn, Live
  <2> QED
    BY <1>1, <2>1 DEF OwnerInv, ClientInv, Disposed, Past
<1> QED
  BY <1>3, <1>4, <1>7, <1>8 DEF OwnerInv

(* A call is on the audit chain exactly while it waits for it.             *)
AuditInv ==
  /\ audits \in Seq(Calls)
  /\ \A i \in DOMAIN audits : at[audits[i]] = "auditing"
  /\ \A i, j \in DOMAIN audits : audits[i] = audits[j] => i = j
  /\ \A c \in Calls : at[c] = "auditing" => \E i \in DOMAIN audits : audits[i] = c

Moves(c, s) ==
  /\ at' = [at EXCEPT ![c] = s]
  /\ audits' = IF s = "auditing" THEN Append(audits, c) ELSE audits

LEMMA MovesAudit ==
  ASSUME CallTypes, AuditInv, NEW c \in Calls, NEW s, Moves(c, s), at[c] # "auditing"
  PROVE  AuditInv'
<1>1. \A d \in Calls : at'[d] = IF d = c THEN s ELSE at[d]
  BY DEF Moves, CallTypes
<1>2. audits \in Seq(Calls) /\ \A i \in DOMAIN audits : audits[i] \in Calls /\ audits[i] # c
  BY DEF AuditInv
<1>3. CASE s = "auditing"
  <2>1. /\ audits' \in Seq(Calls) /\ DOMAIN audits' = 1..Len(audits) + 1
        /\ DOMAIN audits = 1..Len(audits) /\ Len(audits) \in Nat
        /\ audits'[Len(audits) + 1] = c
        /\ \A i \in DOMAIN audits : audits'[i] = audits[i]
    BY <1>2, <1>3 DEF Moves
  <2>2. \A i \in DOMAIN audits' : i \in DOMAIN audits \/ i = Len(audits) + 1
    BY <2>1
  <2>3. (\A i \in DOMAIN audits : at[audits[i]] = "auditing")'
    BY <1>1, <1>2, <1>3, <2>1, <2>2 DEF AuditInv
  <2>4. (\A i, j \in DOMAIN audits : audits[i] = audits[j] => i = j)'
    BY <1>2, <2>1, <2>2 DEF AuditInv
  <2>5. (\A d \in Calls : at[d] = "auditing" => \E i \in DOMAIN audits : audits[i] = d)'
    BY <1>1, <2>1 DEF AuditInv
  <2> QED
    BY <2>1, <2>3, <2>4, <2>5 DEF AuditInv
<1>4. CASE s # "auditing"
  BY <1>1, <1>2, <1>4 DEF AuditInv, Moves
<1> QED
  BY <1>3, <1>4

LEMMA AuditedAudit ==
  ASSUME CallTypes, AuditInv, Audited
  PROVE  AuditInv'
<1>1. /\ audits # <<>> /\ audits \in Seq(Calls) /\ audits' = Tail(audits)
      /\ Head(audits) = audits[1] /\ audits[1] \in Calls
      /\ at' = [at EXCEPT ![Head(audits)] = "answering"]
  BY DEF Audited, AuditInv
<1>2. /\ audits' \in Seq(Calls)
      /\ \A i \in DOMAIN audits' : i + 1 \in DOMAIN audits /\ audits'[i] = audits[i + 1] /\ i \in Nat /\ i # 0
      /\ \A i \in DOMAIN audits : i \in Nat /\ (i # 1 => i - 1 \in DOMAIN audits' /\ audits'[i - 1] = audits[i])
      /\ 1 \in DOMAIN audits
  BY <1>1
<1>3. \A d \in Calls : at'[d] = IF d = audits[1] THEN "answering" ELSE at[d]
  BY <1>1 DEF CallTypes
<1>4. \A i \in DOMAIN audits' : audits'[i] \in Calls /\ audits'[i] # audits[1]
  BY <1>1, <1>2 DEF AuditInv
<1>5. (\A i \in DOMAIN audits : at[audits[i]] = "auditing")'
  <2>1. ASSUME NEW i \in DOMAIN audits'
        PROVE  at'[audits'[i]] = "auditing"
    <3>1. audits'[i] \in Calls /\ audits'[i] # audits[1] /\ at[audits[i + 1]] = "auditing"
          /\ audits'[i] = audits[i + 1]
      BY <1>2, <1>4 DEF AuditInv
    <3> QED
      BY <1>3, <3>1
  <2> QED
    BY <2>1
<1>6. (\A i, j \in DOMAIN audits : audits[i] = audits[j] => i = j)'
  BY <1>2 DEF AuditInv
<1>7. (\A d \in Calls : at[d] = "auditing" => \E i \in DOMAIN audits : audits[i] = d)'
  <2>1. ASSUME NEW d \in Calls, at'[d] = "auditing"
        PROVE  \E i \in DOMAIN audits' : audits'[i] = d
    <3>1. at[d] = "auditing" /\ d # audits[1]
      BY <1>3, <2>1
    <3>2. PICK i \in DOMAIN audits : audits[i] = d
      BY <3>1 DEF AuditInv
    <3> QED
      BY <1>2, <3>1, <3>2
  <2> QED
    BY <2>1
<1> QED
  BY <1>2, <1>5, <1>6, <1>7 DEF AuditInv

(* What a call does in one step, by the operators it goes through.         *)
LEMMA FinishMoves ==
  ASSUME NEW c \in Calls, NEW ok \in BOOLEAN, Finish(c, ok)
  PROVE  \E s \in {"auditing", "answering"} : Moves(c, s)
  BY DEF Finish, ToAudit, ToAnswer, Moves

LEMMA LinkMoves ==
  ASSUME NEW c \in Calls, Link(c)
  PROVE  \/ Live(c) /\ Moves(c, "linking") /\ Rejoin(c)
         \/ (\E s \in {"auditing", "answering"} : Moves(c, s))
              /\ UNCHANGED gatewayVars
  BY FinishMoves DEF Link, Moves

LEMMA RunMoves ==
  ASSUME NEW c \in Calls, Run(c)
  PROVE  \/ Live(c) /\ Moves(c, "linking") /\ Rejoin(c)
         \/ /\ UNCHANGED gatewayVars
            /\ \E s \in {"auditing", "answering", "preparing", "confining"} :
                 Moves(c, s) /\ (s = "preparing" => Live(c))
<1>1. CASE Link(c)
  BY <1>1, LinkMoves
<1>2. CASE Prepare(c) /\ UNCHANGED gatewayVars
  BY <1>2 DEF Prepare, ToAudit, Moves
<1>3. CASE CheckMedia(c) /\ UNCHANGED gatewayVars
  BY <1>3 DEF CheckMedia, ToAudit, Moves
<1>4. CASE (ToAudit(c) \/ ToAnswer(c)) /\ UNCHANGED gatewayVars
  BY <1>4 DEF ToAudit, ToAnswer, Moves
<1> QED
  BY <1>1, <1>2, <1>3, <1>4 DEF Run

LEMMA ChargeMoves ==
  ASSUME NEW c \in Calls, Charge(c)
  PROVE  \/ Live(c) /\ Moves(c, "linking") /\ Rejoin(c)
         \/ /\ UNCHANGED gatewayVars
            /\ \E s \in {"auditing", "answering", "preparing", "confining"} :
                 Moves(c, s) /\ (s = "preparing" => Live(c))
<1>1. CASE Run(c)
  BY <1>1, RunMoves
<1>2. CASE ToAudit(c) /\ UNCHANGED gatewayVars
  BY <1>2 DEF ToAudit, Moves
<1> QED
  BY <1>1, <1>2 DEF Charge

(* The steps of one call keep the invariant.                               *)
LEMMA CallStepInv ==
  ASSUME OwnerInv, AuditInv, NEW c \in Calls,
         \/ Receive(c) \/ Answer(c) \/ Execute(c) \/ Approve(c) \/ Decline(c)
         \/ Prepared(c) \/ MediaConfined(c) \/ Linked(c) \/ RequestEnds(c)
  PROVE  OwnerInv' /\ AuditInv'
<1>0. ASSUME NEW s \in CallStates, Moves(c, s), CallMove(c, s), Admits(c, s), at[c] # "auditing"
      PROVE  OwnerInv' /\ AuditInv'
  BY <1>0, CallMoveInv, MovesAudit DEF OwnerInv
<1>1. HomeInv(c) /\ at[c] \in CallStates
  BY DEF OwnerInv, CallTypes
<1>2. at[c] # "linking" => use[c] = "none"
  BY <1>1 DEF HomeInv
<1>3. CASE Receive(c)
  <2>1. \E s \in {"received", "done"} : Moves(c, s)
    BY <1>3 DEF Receive, Moves
  <2>2. UNCHANGED <<scene, home, contextVars, gatewayVars>> /\ open' \subseteq open
        /\ at[c] = "unsent" /\ Call(c).on \in Endpoints
    BY <1>3 DEF Receive, OwnerInv, CallTypes
  <2> QED
    BY <1>2, <2>1, <2>2, <1>0 DEF Moves, CallMove, Admits, CallStates
<1>4. CASE Answer(c)
  BY <1>2, <1>4, <1>0 DEF OwnerInv, Moves, Answer, CallMove, Admits, CallStates
<1>5. ASSUME NEW s \in {"auditing", "answering", "asking", "confining", "preparing"},
             Moves(c, s), UNCHANGED gatewayVars,
             at[c] \in {"waiting", "asking", "confining", "preparing", "requesting"},
             s \in {"asking", "confining", "preparing"} => context[Ctx(c)] = "bound",
             s = "preparing" => Live(c) /\ at[c] \in {"waiting", "asking"},
             UNCHANGED <<scene, wireVars, home, contextVars>>
      PROVE  OwnerInv' /\ AuditInv'
  BY <1>2, <1>5, <1>0 DEF Moves, CallMove, Admits, CallStates, wireVars
<1>6. ASSUME Rejoin(c), Moves(c, "linking"), Live(c), context[Ctx(c)] = "bound",
             at[c] \in {"waiting", "asking", "confining"},
             UNCHANGED <<scene, wireVars, home, contextVars>>
      PROVE  OwnerInv' /\ AuditInv'
  BY <1>6, <1>0 DEF Moves, CallMove, Admits, CallStates, wireVars
<1>7. CASE Execute(c)
  <2>1. /\ at[c] = "waiting" /\ context[Ctx(c)] = "bound"
        /\ UNCHANGED <<scene, wireVars, home, contextVars>>
    BY <1>7 DEF Execute
  <2>2. \/ (\E s \in {"auditing", "answering", "asking"} : Moves(c, s))
             /\ UNCHANGED gatewayVars
        \/ Charge(c)
    BY <1>7 DEF Execute, ToAudit, ToAnswer, Moves
  <2> QED
    BY <1>5, <1>6, <2>1, <2>2, ChargeMoves
<1>8. CASE Approve(c)
  <2>1. /\ at[c] = "asking" /\ context[Ctx(c)] = "bound" /\ Charge(c)
        /\ UNCHANGED <<scene, wireVars, home, contextVars>>
    BY <1>1, <1>8 DEF Approve, HomeInv
  <2> QED
    BY <1>5, <1>6, <2>1, ChargeMoves
<1>9. CASE Decline(c) \/ Prepared(c)
  BY <1>5, <1>9 DEF Decline, Prepared, ToAudit, Moves
<1>10. CASE MediaConfined(c)
  <2>1. /\ at[c] = "confining" /\ context[Ctx(c)] = "bound"
        /\ UNCHANGED <<scene, wireVars, home, contextVars>>
        /\ Link(c) \/ (ToAudit(c) /\ UNCHANGED gatewayVars)
    BY <1>1, <1>10 DEF MediaConfined, HomeInv
  <2> QED
    BY <1>5, <1>6, <2>1, LinkMoves DEF ToAudit, Moves
<1>11. CASE Linked(c)
  <2>1. PICK s \in {"requesting", "auditing", "answering"} :
          /\ Moves(c, s)
          /\ s = "requesting" => use[c] = "ready"
    BY <1>11, FinishMoves DEF Linked, Moves
  <2>2. c \in Loans \cup Callers
    BY CallsAssumption
  <2>3. s = "requesting" => link \in {"up", "down"}
    BY <2>1, <2>2 DEF OwnerInv, GatewayInv, LinkInv
  <2>4. CallMove(c, s)
    BY <1>11, <2>1 DEF Linked, CallMove, Moves, wireVars
  <2>5. Admits(c, s)
    BY <1>1, <1>11, <2>1, <2>3 DEF Linked, Admits, HomeInv, Tracked
  <2> QED
    BY <1>0, <1>11, <2>1, <2>4, <2>5 DEF Linked, CallStates
<1>12. CASE RequestEnds(c)
  <2>1. /\ at[c] = "requesting"
        /\ UNCHANGED <<scene, wireVars, home, contextVars, gatewayVars>>
        /\ \/ UNCHANGED <<at, audits>>
           \/ \E s \in {"auditing", "answering"} : Moves(c, s)
    BY <1>12, FinishMoves DEF RequestEnds, Complete
  <2>2. CASE UNCHANGED <<at, audits>>
    <3>1. Moves(c, "requesting") /\ use[c] = "none"
      BY <1>2, <2>1, <2>2 DEF OwnerInv, CallTypes, Moves
    <3> QED
      BY <1>1, <2>1, <3>1, <1>0 DEF Moves, CallMove, Admits, CallStates, HomeInv, Tracked, wireVars
  <2>3. CASE \E s \in {"auditing", "answering"} : Moves(c, s)
    BY <1>5, <2>1, <2>3
  <2> QED
    BY <2>1, <2>2, <2>3
<1> QED
  BY <1>3, <1>4, <1>7, <1>8, <1>9, <1>10, <1>11, <1>12

(* Steps that change neither calls nor clients: a loan, the connection by  *)
(* itself, the clock, and what a client does to its connection.            *)
LEMMA QuietInv ==
  ASSUME OwnerInv, GatewayInv',
         UNCHANGED <<scene, home, contextVars, teardown>>, open' \subseteq open,
         \A c \in Calls : at'[c] = at[c], at' \in [Calls -> CallStates],
         \A c \in Calls : use'[c] # "none" => use[c] # "none",
         \A c \in Calls : at[c] = "requesting" /\ link \in {"up", "down"} => link' \in {"up", "down"},
         link \in {"up", "down"} => Disposed \/ link' \in {"up", "down"}
  PROVE  OwnerInv'
<1>1. UNCHANGED <<generation, context, retired, awaited, released>>
  BY DEF contextVars
<1>2. CallTypes'
  BY <1>1 DEF OwnerInv, CallTypes
<1>3. \A c \in Calls : Call(c)' = Call(c) /\ Ctx(c)' = Ctx(c) /\ Tracked(c)' = Tracked(c)
  BY DEF Call, Ctx, Tracked
<1>4. ASSUME NEW c \in Calls
      PROVE  HomeInv(c)'
  <2>1. HomeInv(c)
    BY DEF OwnerInv
  <2> QED
    BY <1>1, <1>3, <2>1 DEF HomeInv
<1>5. ClientInv'
  <2>1. \A x \in Contexts : TrackedIn(x)' = TrackedIn(x)
    BY <1>3 DEF TrackedIn
  <2> QED
    BY <1>1, <2>1 DEF OwnerInv, ClientInv, Disposed, Past
<1> QED
  BY <1>2, <1>4, <1>5 DEF OwnerInv

LEMMA AuditKept ==
  ASSUME AuditInv, UNCHANGED audits,
         \A c \in Calls : at'[c] = "auditing" <=> at[c] = "auditing"
  PROVE  AuditInv'
  BY DEF AuditInv

LEMMA LoanIsQuiet ==
  ASSUME OwnerInv, NEW l \in Loans, Borrow(l) \/ Return(l)
  PROVE  /\ GatewayInv' /\ teardown' = teardown /\ link' = link
         /\ \A c \in Calls : use'[c] = use[c]
<1>1. GatewayInv'
  BY UseStepInv DEF OwnerInv
<1>2. PICK v \in UseStates : use' = [use EXCEPT ![l] = v]
  <2>1. CASE Borrow(l)
    BY <2>1, BorrowAt DEF OwnerInv
  <2>2. CASE Return(l)
    BY <2>2 DEF Return, UseStates
  <2> QED
    BY <2>1, <2>2
<1>3. \A c \in Calls : c \in Loans \cup Callers /\ c # l
  BY CallsAssumption
<1>4. \A c \in Calls : use'[c] = use[c]
  BY <1>2, <1>3, UseAt DEF OwnerInv, GatewayInv
<1>5. teardown' = teardown /\ link' = link
  BY DEF Borrow, Return
<1> QED
  BY <1>1, <1>4, <1>5

LEMMA EnvironmentInv ==
  ASSUME OwnerInv, AuditInv,
         \/ \E c \in Calls : Cancel(c)
         \/ \E e \in Endpoints : Stall(e) \/ Close(e)
         \/ AskSnapshot \/ SnapshotEnds \/ ConnectionFails \/ ConnectionSettles \/ Tick
  PROVE  OwnerInv' /\ AuditInv'
<1>0. AuditInv'
  BY AuditKept
  DEF Cancel, Stall, Close, AskSnapshot, SnapshotEnds, ConnectionFails, ConnectionSettles,
      RelinkSettles, OpeningSettles, Tick, callVars
<1>1. /\ UNCHANGED <<scene, at, home, contextVars>> /\ open' \subseteq open
      /\ at' \in [Calls -> CallStates]
  BY DEF Cancel, Stall, Close, AskSnapshot, SnapshotEnds, ConnectionFails, ConnectionSettles,
      RelinkSettles, OpeningSettles, Tick, callVars, wireVars, OwnerInv, CallTypes
<1>2. CASE \/ \E c \in Calls : Cancel(c)
           \/ \E e \in Endpoints : Stall(e) \/ Close(e)
           \/ Tick
  <2>1. UNCHANGED <<link, opening, relink, relinkOf, aborted, use, teardown>>
    BY <1>2 DEF Cancel, Stall, Close, Tick, gatewayVars
  <2>2. GatewayInv'
    BY <2>1 DEF OwnerInv, GatewayInv, GatewayTypeOK, LinkInv
  <2> QED
    BY <1>0, <1>1, <2>1, <2>2, QuietInv
<1>3. CASE AskSnapshot \/ SnapshotEnds
  <2>1. Snapshot \in Loans /\ (Borrow(Snapshot) \/ Return(Snapshot))
    BY <1>3, CallsAssumption DEF AskSnapshot, SnapshotEnds
  <2> QED
    BY <1>0, <1>1, <2>1, LoanIsQuiet, QuietInv
<1>4. CASE ConnectionFails \/ ConnectionSettles
  <2>1. LinkStep
    BY <1>4 DEF ConnectionFails, ConnectionSettles, RelinkSettles, OpeningSettles, LinkStep
  <2>2. GatewayInv /\ GatewayInv' /\ (Past => \A c \in Calls : ~Tracked(c))
    BY <2>1, PastIsIdle, LinkStepInv DEF OwnerInv
  <2>3. CASE teardown' = teardown
    <3>1. \A c \in Calls : use'[c] # "none" => use[c] # "none"
      BY <2>1, <2>2, LinkStepAt, CallsAssumption
    <3>2. \A c \in Calls : at[c] = "requesting" /\ link \in {"up", "down"} => link' \in {"up", "down"}
      BY <2>1, <2>2, LinkStepAt DEF Past, Tracked
    <3>3. link \in {"up", "down"} => Disposed \/ link' \in {"up", "down"}
      BY <2>1, <2>2, LinkStepAt DEF Disposed
    <3> QED
      BY <1>0, <1>1, <2>2, <2>3, <3>1, <3>2, <3>3, QuietInv
  <2>4. CASE teardown' # teardown
    <3>1. /\ teardown = "destroying" /\ teardown' \in {"done", "failed"} /\ UNCHANGED use
          /\ Past /\ Past' /\ Disposed
      BY <2>1, <2>2, <2>4, LinkStepAt
      DEF LinkStep, LinkDrops, SenderReconnects, RelinkDisconnected, RelinkConnected,
          RelinkFails, OpenConnects, OpenChecked, AbortedClientDestroyed, ConnectionDestroyed,
          Past, Disposed
    <3>2. UNCHANGED <<generation, context, retired, awaited, released>>
      BY <1>1 DEF contextVars
    <3>3. CallTypes'
      BY <1>1, <3>2 DEF OwnerInv, CallTypes
    <3>4. \A c \in Calls : /\ Call(c)' = Call(c) /\ Ctx(c)' = Ctx(c)
                           /\ Tracked(c)' = Tracked(c) /\ ~Tracked(c)
      BY <1>1, <2>2, <3>1 DEF Call, Ctx, Tracked
    <3>5. \A c \in Calls : HomeInv(c)'
      BY <1>1, <3>1, <3>2, <3>4 DEF OwnerInv, HomeInv, Tracked
    <3>6. \A x \in Contexts : TrackedIn(x)' = {}
      BY <3>4 DEF TrackedIn
    <3>7. ClientInv'
      BY <3>1, <3>2, <3>6 DEF OwnerInv, ClientInv, Disposed, Past
    <3> QED
      BY <1>0, <2>2, <3>3, <3>5, <3>7 DEF OwnerInv
  <2> QED
    BY <2>3, <2>4
<1> QED
  BY <1>2, <1>3, <1>4

(* The first stages of a call: it obtains its context.                     *)
LEMMA AcquireInv ==
  ASSUME OwnerInv, AuditInv, NEW c \in Calls, Acquire(c)
  PROVE  OwnerInv' /\ AuditInv'
<1> DEFINE x == <<Call(c).on, generation>>
<1>1. /\ UNCHANGED <<scene, open, generation, retired, awaited, released, audits>>
      /\ at[c] = "received"
      /\ at' = [at EXCEPT ![c] = "waiting"] /\ home' = [home EXCEPT ![c] = generation]
  BY DEF Acquire, wireVars
<1>2. x \in Contexts /\ x \in Loans /\ HomeInv(c) /\ ~Tracked(c)
  BY <1>1, CallsAssumption DEF OwnerInv, HomeInv, CallTypes, Contexts, Tracked
<1>3. /\ \A d \in Calls : /\ at'[d] = IF d = c THEN "waiting" ELSE at[d]
                          /\ home'[d] = IF d = c THEN generation ELSE home[d]
      /\ at' \in [Calls -> CallStates] /\ home' \in [Calls -> 0..MaxGenerations]
  BY <1>1, CallsAssumption DEF OwnerInv, CallTypes, CallStates, Generations
<1> HIDE DEF x
<1>4. \/ UNCHANGED <<context, gatewayVars>>
      \/ context[x] = "none" /\ context' = [context EXCEPT ![x] = "resolving"] /\ Borrow(x)
  BY DEF Acquire, x
<1>5. /\ GatewayInv' /\ teardown' = teardown /\ link' = link
      /\ \A d \in Calls : use'[d] = use[d]
  <2>1. CASE UNCHANGED <<context, gatewayVars>>
    BY <2>1 DEF OwnerInv, GatewayInv, GatewayTypeOK, LinkInv, gatewayVars
  <2>2. CASE Borrow(x)
    BY <1>2, <2>2, LoanIsQuiet
  <2> QED
    BY <1>4, <2>1, <2>2
<1>6. /\ \A y \in Contexts : context'[y] = context[y] \/ (context[y] = "none" /\ context'[y] = "resolving")
      /\ context' \in [Contexts -> {"none", "resolving", "binding", "bound"}]
  BY <1>2, <1>4 DEF OwnerInv, CallTypes
<1>7. CallTypes'
  BY <1>1, <1>3, <1>6 DEF OwnerInv, CallTypes
<1>8. \A d \in Calls : /\ Call(d)' = Call(d) /\ Tracked(d)' = Tracked(d)
                       /\ d # c => Ctx(d)' = Ctx(d)
  BY <1>1, <1>3 DEF Call, Ctx, Tracked
<1>9. ASSUME NEW d \in Calls
      PROVE  HomeInv(d)'
  <2>1. HomeInv(d)
    BY DEF OwnerInv
  <2>2. CASE d = c
    BY <1>1, <1>2, <1>3, <1>5, <1>8, <2>1, <2>2 DEF HomeInv, OwnerInv, CallTypes, Tracked
  <2>3. CASE d # c
    <3>1. at[d] \in {"asking", "confining", "preparing", "linking", "requesting"} =>
            context'[Ctx(d)] = "bound"
      <4>1. ASSUME at[d] \in {"asking", "confining", "preparing", "linking", "requesting"}
            PROVE  context'[Ctx(d)] = "bound"
        <5>1. Ctx(d) \in Contexts /\ context[Ctx(d)] = "bound"
          BY <2>1, <4>1, CtxTyped DEF HomeInv
        <5> QED
          BY <1>6, <5>1
      <4> QED
        BY <4>1
    <3> QED
      BY <1>1, <1>3, <1>5, <1>8, <2>1, <2>3, <3>1 DEF HomeInv
  <2> QED
    BY <2>2, <2>3
<1>10. ClientInv'
  <2>1. \A y \in Contexts : TrackedIn(y)' = TrackedIn(y)
    BY <1>2, <1>8 DEF TrackedIn
  <2> QED
    BY <1>1, <1>5, <1>6, <2>1 DEF OwnerInv, ClientInv, Disposed, Past
<1>11. AuditInv'
  BY <1>1, <1>3, AuditKept
<1> QED
  BY <1>5, <1>7, <1>9, <1>10, <1>11 DEF OwnerInv

-----------------------------------------------------------------------------
(* Contexts come and go.                                                   *)

LEMMA ContextMoveInv ==
  ASSUME OwnerInv, NEW x \in Contexts, Return(x), context[x] # "bound",
         NEW v \in {"none", "binding", "bound"}, context' = [context EXCEPT ![x] = v],
         UNCHANGED <<scene, home, generation, awaited, open>>,
         at' \in [Calls -> CallStates],
         \A c \in Calls : at'[c] = at[c] \/ (at[c] = "waiting" /\ at'[c] = "answering"),
         \/ UNCHANGED <<retired, released>>
         \/ v = "bound" /\ retired' = retired \cup {x} /\ released' = released \cup {x},
         v = "bound" => ~Disposed /\ use[x] = "ready"
  PROVE  OwnerInv'
<1>1. x \in Loans
  BY CallsAssumption
<1>2. /\ GatewayInv' /\ teardown' = teardown /\ link' = link
      /\ \A c \in Calls : use'[c] = use[c]
  BY <1>1, LoanIsQuiet
<1>3. /\ \A y \in Contexts : context'[y] = IF y = x THEN v ELSE context[y]
      /\ context' \in [Contexts -> {"none", "resolving", "binding", "bound"}]
  BY DEF OwnerInv, CallTypes
<1>4. CallTypes'
  BY <1>3 DEF OwnerInv, CallTypes
<1>5. \A c \in Calls : Call(c)' = Call(c) /\ Ctx(c)' = Ctx(c) /\ Tracked(c)' = Tracked(c)
  BY DEF Call, Ctx, Tracked
<1>6. \A c \in Calls : at'[c] \in {"asking", "confining", "preparing", "linking", "requesting"} =>
        /\ at[c] = at'[c] /\ Ctx(c) \in Contexts /\ Ctx(c) # x /\ context'[Ctx(c)] = "bound"
  <2>1. ASSUME NEW c \in Calls,
               at'[c] \in {"asking", "confining", "preparing", "linking", "requesting"}
        PROVE  /\ at[c] = at'[c] /\ Ctx(c) \in Contexts /\ Ctx(c) # x
               /\ context'[Ctx(c)] = "bound"
    <3>1. at[c] = at'[c] /\ HomeInv(c)
      BY <2>1 DEF OwnerInv
    <3>2. Ctx(c) \in Contexts /\ context[Ctx(c)] = "bound"
      BY <2>1, <3>1, CtxTyped DEF HomeInv
    <3> QED
      BY <1>3, <3>1, <3>2
  <2> QED
    BY <2>1
<1>7. \A c \in Calls : Tracked(c)' => Ctx(c) # x
  BY <1>6 DEF Tracked
<1>8. ASSUME NEW c \in Calls
      PROVE  HomeInv(c)'
  <2>1. HomeInv(c)
    BY DEF OwnerInv
  <2>2. (Tracked(c) => Ctx(c) \notin released)'
    BY <1>5, <1>7, <2>1 DEF HomeInv
  <2> QED
    BY <1>2, <1>5, <1>6, <2>1, <2>2 DEF HomeInv
<1>9. ClientInv'
  <2>1. \A y \in Contexts : TrackedIn(y)' = TrackedIn(y)
    BY <1>5 DEF TrackedIn
  <2>2. (released \subseteq retired)' /\ retired' \ released' \subseteq retired \ released
    BY DEF OwnerInv, ClientInv
  <2>3. (retired \subseteq {y \in Contexts : context[y] = "bound"})'
    BY <1>3 DEF OwnerInv, ClientInv
  <2>4. (Disposed => \A y \in Contexts : context[y] = "bound" => y \in retired)'
    BY <1>2, <1>3 DEF OwnerInv, ClientInv, Disposed
  <2>5. (Past => retired = released)'
    BY <1>2 DEF OwnerInv, ClientInv, Past
  <2>6. (\A y \in retired \ released : TrackedIn(y) \subseteq awaited[y])'
    BY <2>1, <2>2, <2>3 DEF OwnerInv, ClientInv
  <2>7. (\A y \in Contexts \ retired : context[y] = "bound" => link \in {"up", "down"})'
    BY <1>1, <1>2, <1>3 DEF OwnerInv, ClientInv, GatewayInv, LinkInv
  <2> QED
    BY <2>2, <2>3, <2>4, <2>5, <2>6, <2>7 DEF ClientInv
<1> QED
  BY <1>2, <1>4, <1>8, <1>9 DEF OwnerInv

LEMMA ContextStepInv ==
  ASSUME OwnerInv, AuditInv, NEW x \in Contexts, ContextWorks(x)
  PROVE  OwnerInv' /\ AuditInv'
<1>1. CASE BindStarts(x)
  <2>1. x \in Loans
    BY CallsAssumption
  <2>2. /\ UNCHANGED <<scene, open, at, home, audits, contextVars>> /\ Borrow(x)
        /\ at' \in [Calls -> CallStates]
    BY <1>1 DEF BindStarts, callVars, wireVars, OwnerInv, CallTypes
  <2>3. AuditInv'
    BY <2>2, AuditKept
  <2> QED
    BY <2>1, <2>2, <2>3, LoanIsQuiet, QuietInv
<1>2. CASE AccessResolved(x)
  <2>1. /\ UNCHANGED <<scene, open, at, home, audits, generation, awaited, retired, released>>
        /\ Return(x) /\ context[x] # "bound" /\ context' = [context EXCEPT ![x] = "binding"]
        /\ at' \in [Calls -> CallStates]
    BY <1>2 DEF AccessResolved, callVars, wireVars, OwnerInv, CallTypes
  <2>2. AuditInv'
    BY <2>1, AuditKept
  <2> QED
    BY <2>1, <2>2, ContextMoveInv
<1>3. CASE ClientBound(x)
  <2>1. /\ UNCHANGED <<scene, open, at, home, audits, generation, awaited>> /\ ~Disposed
        /\ Return(x) /\ context[x] # "bound" /\ context' = [context EXCEPT ![x] = "bound"]
        /\ use[x] = "ready"
        /\ at' \in [Calls -> CallStates]
        /\ \/ UNCHANGED <<retired, released>>
           \/ retired' = retired \cup {x} /\ released' = released \cup {x}
    BY <1>3 DEF ClientBound, callVars, wireVars, OwnerInv, CallTypes
  <2>2. AuditInv'
    BY <2>1, AuditKept
  <2> QED
    BY <2>1, <2>2, ContextMoveInv
<1>4. CASE BuildFails(x)
  <2>1. /\ UNCHANGED <<scene, open, home, audits, generation, awaited, retired, released>>
        /\ Return(x) /\ context[x] # "bound" /\ context' = [context EXCEPT ![x] = "none"]
    BY <1>4 DEF BuildFails, wireVars
  <2>2. /\ \A c \in Calls : at'[c] = at[c] \/ (at[c] = "waiting" /\ at'[c] = "answering")
        /\ at' \in [Calls -> CallStates]
    BY <1>4 DEF BuildFails, OwnerInv, CallTypes, CallStates
  <2>3. AuditInv'
    BY <2>1, <2>2, AuditKept
  <2> QED
    BY <2>1, <2>2, <2>3, ContextMoveInv
<1> QED
  BY <1>1, <1>2, <1>3, <1>4 DEF ContextWorks

-----------------------------------------------------------------------------
(* Policies and accounts change.                                           *)

(* Every call of a step that leaves calls alone stays where it is.         *)
LEMMA PolicyInv ==
  ASSUME OwnerInv, AuditInv, Publish \/ Dispose
  PROVE  OwnerInv' /\ AuditInv'
<1>1. /\ UNCHANGED <<scene, open, at, home, audits, context, released>>
      /\ retired' = retired \cup InService
      /\ awaited' = [x \in Contexts |-> IF x \in InService THEN TrackedIn(x) ELSE awaited[x]]
  BY DEF Publish, Dispose, Retire, callVars, wireVars
<1>2. \/ UNCHANGED <<generation, gatewayVars>>
      \/ UNCHANGED gatewayVars /\ ~Disposed /\ generation' \in Generations
      \/ StartTeardown /\ retired = released /\ UNCHANGED generation
  BY CallsAssumption DEF Publish, Dispose, OwnerInv, CallTypes, Generations
<1>3. /\ GatewayInv' /\ UNCHANGED <<link, use>> /\ (Past' => Past /\ Disposed)
      /\ Disposed' /\ Past => Disposed
  <2>1. CASE UNCHANGED gatewayVars
    BY <2>1 DEF gatewayVars, OwnerInv, GatewayInv, GatewayTypeOK, LinkInv, Past, Disposed
  <2>2. CASE StartTeardown
    <3>1. ~Past /\ ~Past'
      BY <2>2 DEF StartTeardown, Past
    <3> QED
      BY <2>2, <3>1, TeardownInv DEF OwnerInv
  <2> QED
    BY <1>2, <2>1, <2>2
<1>4. CallTypes'
  <2>1. \A x \in Contexts : TrackedIn(x) \in SUBSET Calls
    BY DEF TrackedIn
  <2>2. awaited' \in [Contexts -> SUBSET Calls]
    BY <1>1, <2>1 DEF OwnerInv, CallTypes
  <2>3. generation' \in Generations
    BY <1>2 DEF OwnerInv, CallTypes
  <2> QED
    BY <1>1, <2>2, <2>3 DEF OwnerInv, CallTypes
<1>5. /\ \A c \in Calls : Call(c)' = Call(c) /\ Ctx(c)' = Ctx(c) /\ Tracked(c)' = Tracked(c)
      /\ \A x : TrackedIn(x)' = TrackedIn(x)
  BY <1>1 DEF Call, Ctx, Tracked, TrackedIn
<1>6. \A c \in Calls : HomeInv(c)'
  BY <1>1, <1>3, <1>5 DEF OwnerInv, HomeInv
<1>7. ClientInv'
  <2>1. (released \subseteq retired)' /\ (retired \subseteq {x \in Contexts : context[x] = "bound"})'
    BY <1>1 DEF OwnerInv, ClientInv, InService
  <2>2. (\A x \in Contexts : context[x] = "bound" => x \in retired)'
    BY <1>1 DEF InService
  <2>3. Past' => retired' = released'
    BY <1>1, <1>3 DEF OwnerInv, ClientInv, InService
  <2>4. ASSUME NEW x \in retired' \ released'
        PROVE  TrackedIn(x)' \subseteq awaited'[x]
    <3>1. x \in Contexts
      BY <2>1
    <3> QED
      BY <1>1, <1>5, <2>4, <3>1 DEF OwnerInv, ClientInv
  <2>5. (\A x \in Contexts \ retired : context[x] = "bound" => link \in {"up", "down"})'
    BY <1>1, <1>3 DEF OwnerInv, ClientInv
  <2> QED
    BY <2>1, <2>2, <2>3, <2>4, <2>5 DEF ClientInv
<1>8. AuditInv'
  BY <1>1, AuditKept
<1> QED
  BY <1>3, <1>4, <1>6, <1>7, <1>8 DEF OwnerInv

LEMMA ReleaseInv ==
  ASSUME OwnerInv, AuditInv, NEW x \in Contexts, ReleaseSettles(x)
  PROVE  OwnerInv' /\ AuditInv'
<1>1. /\ UNCHANGED <<scene, open, at, home, audits, generation, context, retired, awaited,
                     link, opening, relink, relinkOf, aborted, use, teardown>>
      /\ x \in retired \ released /\ released' = released \cup {x}
      /\ awaited[x] \cap TrackedIn(x) = {}
  BY DEF ReleaseSettles, callVars, wireVars, gatewayVars
<1>2. TrackedIn(x) = {}
  BY <1>1 DEF OwnerInv, ClientInv
<1>3. GatewayInv' /\ CallTypes' /\ AuditInv'
  BY <1>1, AuditKept DEF OwnerInv, GatewayInv, GatewayTypeOK, LinkInv, CallTypes
<1>4. /\ \A c \in Calls : Call(c)' = Call(c) /\ Ctx(c)' = Ctx(c) /\ Tracked(c)' = Tracked(c)
      /\ \A y : TrackedIn(y)' = TrackedIn(y)
  BY <1>1 DEF Call, Ctx, Tracked, TrackedIn
<1>5. \A c \in Calls : HomeInv(c)'
  BY <1>1, <1>2, <1>4 DEF OwnerInv, HomeInv, TrackedIn
<1>6. ClientInv'
  BY <1>1, <1>4 DEF OwnerInv, ClientInv, Disposed, Past
<1> QED
  BY <1>3, <1>5, <1>6 DEF OwnerInv

LEMMA TeardownStepInv ==
  ASSUME OwnerInv, AuditInv, TeardownStep
  PROVE  OwnerInv' /\ AuditInv'
<1>1. /\ UNCHANGED <<scene, open, at, home, audits, generation, context, retired, awaited,
                     released>>
      /\ TeardownContinues(retired \ released)
  BY DEF TeardownStep, callVars, contextVars, wireVars
<1>2. /\ \A c \in Calls : Call(c)' = Call(c) /\ Ctx(c)' = Ctx(c) /\ Tracked(c)' = Tracked(c)
      /\ \A x : TrackedIn(x)' = TrackedIn(x)
  BY <1>1 DEF Call, Ctx, Tracked, TrackedIn
<1>3. Disposed /\ (Past' => retired = released)
  BY <1>1 DEF TeardownContinues, OwnerInv, ClientInv, Disposed, Past
<1>4. Past' => CallersIdle
  <2>1. ASSUME Past', NEW c \in Calls, use[c] # "none"
        PROVE  FALSE
    <3>1. HomeInv(c) /\ at[c] = "linking"
      BY <2>1 DEF OwnerInv, HomeInv
    <3>2. Ctx(c) \in Contexts /\ context[Ctx(c)] = "bound" /\ Ctx(c) \notin released
      BY <3>1, CtxTyped DEF HomeInv, Tracked
    <3> QED
      BY <1>3, <2>1, <3>2 DEF OwnerInv, ClientInv
  <2> QED
    BY <2>1, CallsAssumption DEF CallersIdle
<1>5. GatewayInv' /\ UNCHANGED <<link, use>>
  BY <1>1, <1>4, TeardownInv DEF OwnerInv
<1>6. CallTypes' /\ AuditInv'
  BY <1>1, AuditKept DEF OwnerInv, CallTypes
<1>7. \A c \in Calls : HomeInv(c)'
  BY <1>1, <1>2, <1>5 DEF OwnerInv, HomeInv
<1>8. ClientInv'
  BY <1>1, <1>2, <1>3 DEF OwnerInv, ClientInv, Disposed
<1> QED
  BY <1>5, <1>6, <1>7, <1>8 DEF OwnerInv

LEMMA ReplaceInv ==
  ASSUME OwnerInv, AuditInv, Replace
  PROVE  OwnerInv' /\ AuditInv'
<1>1. /\ UNCHANGED <<scene, open, at, home, audits, context, retired, awaited, released, use>>
      /\ generation' = generation + 1 /\ generation < MaxGenerations
      /\ link' = "none" /\ opening' = "idle" /\ relink' = "idle" /\ teardown' = "none"
      /\ aborted' = "gone" /\ UNCHANGED relinkOf
      /\ teardown = "done"
  BY DEF Replace, callVars, wireVars
<1>2. /\ Past /\ CallersIdle /\ \A c \in Calls : ~Tracked(c)
      /\ \A l \in Loans : use[l] \in {"none", "refused"}
  BY <1>1, PastIsIdle DEF OwnerInv, GatewayInv, LinkInv, Past
<1>3. GatewayInv'
  BY <1>1, <1>2 DEF OwnerInv, GatewayInv, GatewayTypeOK, LinkInv, CallersIdle, LinkStates,
    OpeningStates, RelinkStates, TeardownStates
<1>4. CallTypes'
  <2>1. generation' \in Generations
    BY <1>1, CallsAssumption DEF OwnerInv, CallTypes, Generations
  <2> QED
    BY <1>1, <2>1 DEF OwnerInv, CallTypes
<1>5. \A c \in Calls : /\ Call(c)' = Call(c) /\ Ctx(c)' = Ctx(c) /\ Tracked(c)' = FALSE
  BY <1>1, <1>2 DEF Call, Ctx, Tracked
<1>6. \A c \in Calls : HomeInv(c)'
  BY <1>1, <1>2, <1>5 DEF OwnerInv, HomeInv, Tracked
<1>7. ClientInv'
  BY <1>1, <1>2 DEF OwnerInv, ClientInv, Disposed, Past
<1> QED
  BY <1>1, <1>3, <1>4, <1>6, <1>7, AuditKept DEF OwnerInv

LEMMA AuditedInv ==
  ASSUME OwnerInv, AuditInv, Audited
  PROVE  OwnerInv' /\ AuditInv'
<1> DEFINE c == Head(audits)
<1>1. c \in Calls /\ at[c] = "auditing"
  BY DEF Audited, AuditInv
<1>2. CallMove(c, "answering") /\ Admits(c, "answering")
  BY <1>1 DEF Audited, CallMove, Admits, wireVars, OwnerInv, HomeInv
<1>3. OwnerInv'
  BY <1>1, <1>2, CallMoveInv DEF CallStates
<1> QED
  BY <1>3, AuditedAudit DEF OwnerInv

-----------------------------------------------------------------------------

LEMMA AuditInvInit == CallsInit => AuditInv
  BY DEF CallsInit, AuditInv

LEMMA CallsStepInv ==
  ASSUME OwnerInv, AuditInv, [CallsNext]_vars
  PROVE  OwnerInv' /\ AuditInv'
<1>1. CASE UNCHANGED vars
  <2>1. UNCHANGED <<scene, open, at, home, audits, contextVars, gatewayVars>>
    BY <1>1 DEF vars, wireVars, callVars
  <2>2. UNCHANGED <<link, opening, relink, relinkOf, aborted, use, teardown>>
    BY <2>1 DEF gatewayVars
  <2>3. GatewayInv' /\ at' \in [Calls -> CallStates]
    BY <2>1, <2>2 DEF OwnerInv, GatewayInv, GatewayTypeOK, LinkInv, CallTypes
  <2> QED
    BY <2>1, <2>2, <2>3, QuietInv, AuditKept
<1>2. ASSUME NEW c \in Calls, Receive(c) \/ Cancel(c) \/ Approve(c) \/ CallWorks(c)
      PROVE  OwnerInv' /\ AuditInv'
  <2>1. CASE Acquire(c)
    BY <2>1, AcquireInv
  <2>2. CASE Cancel(c)
    BY <2>2, EnvironmentInv
  <2>3. CASE \/ Receive(c) \/ Answer(c) \/ Execute(c) \/ Approve(c) \/ Decline(c)
             \/ Prepared(c) \/ MediaConfined(c) \/ Linked(c) \/ RequestEnds(c)
    BY <2>3, CallStepInv
  <2> QED
    BY <1>2, <2>1, <2>2, <2>3 DEF CallWorks
<1>3. CASE \E e \in Endpoints : Stall(e) \/ Close(e)
  BY <1>3, EnvironmentInv
<1>4. CASE \E x \in Contexts : ContextWorks(x) \/ ReleaseSettles(x)
  BY <1>4, ContextStepInv, ReleaseInv
<1>5. CASE Publish \/ Dispose
  BY <1>5, PolicyInv
<1>6. CASE TeardownStep
  BY <1>6, TeardownStepInv
<1>7. CASE Replace
  BY <1>7, ReplaceInv
<1>8. CASE AskSnapshot \/ SnapshotEnds \/ ConnectionFails \/ ConnectionSettles \/ Tick
  BY <1>8, EnvironmentInv
<1>9. CASE Audited
  BY <1>9, AuditedInv
<1> QED
  BY <1>1, <1>2, <1>3, <1>4, <1>5, <1>6, <1>7, <1>8, <1>9 DEF CallsNext

LEMMA CallsOwn == CallsSpec => [](OwnerInv /\ AuditInv)
<1>1. CallsInit => OwnerInv /\ AuditInv
  BY OwnerInvInit, AuditInvInit
<1>2. (OwnerInv /\ AuditInv) /\ [CallsNext]_vars => (OwnerInv /\ AuditInv)'
  BY CallsStepInv
<1> QED
  BY <1>1, <1>2, PTL DEF CallsSpec

(* When dispose() has resolved nothing the gateway knows of is or comes    *)
(* alive over the key of the account, a client whose aborted opening a     *)
(* sender's reconnect outlived apart; and when the disposal of a scoped    *)
(* client has been reported no operation of it is under way                *)
(* (gramjs-telegram-gateway.ts:485-533, 1584-1599).                        *)
THEOREM OperationsEndFirst == CallsSpec => []OwnershipEnds
<1>1. OwnerInv => OwnershipEnds
  <2> SUFFICES ASSUME OwnerInv
               PROVE  OwnershipEnds
    OBVIOUS
  <2>1. \A c \in Calls : HomeInv(c)
    BY DEF OwnerInv
  <2>2. teardown = "done" => ~Connected /\ \A u \in Loans \cup Callers : use[u] # "ready"
    BY PastIsIdle DEF OwnerInv, GatewayInv, LinkInv, Past, Connected, CallersIdle
  <2> QED
    BY <2>1, <2>2 DEF OwnershipEnds, HomeInv
<1> QED
  BY <1>1, CallsOwn, PTL

-----------------------------------------------------------------------------
(* The limits of what accumulates.                                         *)

Ids == {s.calls[c].id : s \in Scenes, c \in Calls}

SendKeys == {s.calls[c].key : s \in Scenes, c \in Calls}

Media == [by : Calls, expires : Nat]

FlightInv ==
  /\ inFlight \in [Endpoints -> SUBSET Ids]
  /\ \A e \in Endpoints : IsFiniteSet(inFlight[e]) /\ Cardinality(inFlight[e]) <= MaxInFlight

MediaInv ==
  /\ handles \in [Contexts -> SUBSET Media]
  /\ \A x \in Contexts :
       /\ IsFiniteSet(handles[x]) /\ IsFiniteSet(Preparing(x))
       /\ Cardinality(handles[x]) + Cardinality(Preparing(x)) <= MaxHandles

KeyInv ==
  /\ keys \in [Contexts -> Seq(SendKeys)]
  /\ \A x \in Contexts : Len(keys[x]) <= MaxKeys

LimitInv ==
  /\ scene \in Scenes
  /\ now \in Nat
  /\ FlightInv
  /\ MediaInv
  /\ KeyInv

LEMMA LimitInvInit == CallsInit => LimitInv
<1> SUFFICES ASSUME CallsInit
             PROVE  LimitInv
  OBVIOUS
<1>1. \A x : Preparing(x) = {}
  BY DEF CallsInit, Preparing, TrackedIn, Tracked
<1>2. FlightInv
  BY FS_EmptySet, CallsAssumption DEF CallsInit, FlightInv
<1>3. MediaInv
  <2>1. handles = [x \in Contexts |-> {}]
    BY DEF CallsInit
  <2>2. IsFiniteSet({}) /\ Cardinality({}) = 0 /\ MaxHandles \in Nat
    BY FS_EmptySet, CallsAssumption
  <2> QED
    BY <1>1, <2>1, <2>2 DEF MediaInv
<1>4. KeyInv
  BY CallsAssumption DEF CallsInit, KeyInv
<1> QED
  BY <1>2, <1>3, <1>4 DEF CallsInit, LimitInv

LEMMA CallKinds ==
  ASSUME scene \in Scenes, NEW c \in Calls
  PROVE  Call(c).id \in Ids /\ Call(c).key \in SendKeys
  BY DEF Call, Ids, SendKeys

(* Fewer handles and fewer preparations stay below the limit.              *)
LEMMA ShrinkInv ==
  ASSUME MediaInv, DOMAIN handles' = Contexts, handles' = [x \in DOMAIN handles' |-> handles'[x]],
         \A x \in Contexts : handles'[x] \subseteq handles[x] /\ Preparing(x)' \subseteq Preparing(x)
  PROVE  MediaInv'
<1>1. handles' \in [Contexts -> SUBSET Media]
  BY DEF MediaInv
<1>2. ASSUME NEW x \in Contexts
      PROVE  /\ IsFiniteSet(handles'[x]) /\ IsFiniteSet(Preparing(x)')
             /\ Cardinality(handles'[x]) + Cardinality(Preparing(x)') <= MaxHandles
  <2>1. /\ IsFiniteSet(handles[x]) /\ IsFiniteSet(Preparing(x))
        /\ Cardinality(handles[x]) + Cardinality(Preparing(x)) <= MaxHandles
    BY DEF MediaInv
  <2>2. IsFiniteSet(handles'[x]) /\ Cardinality(handles'[x]) <= Cardinality(handles[x])
    BY <2>1, FS_Subset
  <2>3. IsFiniteSet(Preparing(x)') /\ Cardinality(Preparing(x)') <= Cardinality(Preparing(x))
    BY <2>1, FS_Subset
  <2>4. /\ Cardinality(handles[x]) \in Nat /\ Cardinality(handles'[x]) \in Nat
        /\ Cardinality(Preparing(x)) \in Nat /\ Cardinality(Preparing(x)') \in Nat
    BY <2>1, <2>2, <2>3, FS_CardinalityType
  <2> QED
    BY <2>1, <2>2, <2>3, <2>4, CallsAssumption
<1> QED
  BY <1>1, <1>2 DEF MediaInv

LEMMA PreparingAt ==
  ASSUME CallTypes, NEW c \in Calls, NEW s, at' = [at EXCEPT ![c] = s], UNCHANGED <<scene, home>>
  PROVE  \A x : Preparing(x)' = IF s = "preparing" /\ Ctx(c) = x THEN Preparing(x) \cup {c}
                                ELSE Preparing(x) \ {c}
<1>1. \A d \in Calls : at'[d] = IF d = c THEN s ELSE at[d]
  BY DEF CallTypes
<1>2. \A d \in Calls : Ctx(d)' = Ctx(d)
  BY DEF Ctx, Call
<1> QED
  BY <1>1, <1>2 DEF Preparing, TrackedIn, Tracked

(* A move that prepares nothing and adds no handle.                        *)
LEMMA MoveShrinks ==
  ASSUME OwnerInv, MediaInv, NEW c \in Calls, NEW s, s # "preparing",
         at' = [at EXCEPT ![c] = s], UNCHANGED <<scene, home>>,
         NEW x, NEW H, handles' = [handles EXCEPT ![x] = H],
         x \in Contexts => H \subseteq handles[x]
  PROVE  MediaInv'
<1>1. \A y \in Contexts : handles'[y] \subseteq handles[y]
  BY DEF MediaInv
<1>2. \A y \in Contexts : Preparing(y)' \subseteq Preparing(y)
  <2>1. \A y : Preparing(y)' = IF s = "preparing" /\ Ctx(c) = y THEN Preparing(y) \cup {c}
                               ELSE Preparing(y) \ {c}
    BY PreparingAt DEF OwnerInv
  <2> QED
    BY <2>1
<1>3. DOMAIN handles' = Contexts /\ handles' = [y \in DOMAIN handles' |-> handles'[y]]
  BY DEF MediaInv
<1> QED
  BY <1>1, <1>2, <1>3, ShrinkInv

LEMMA PreparedCount ==
  ASSUME OwnerInv, MediaInv, now \in Nat, NEW c \in Calls, Prepared(c)
  PROVE  MediaInv'
<1> DEFINE x == Ctx(c)
           h == [by |-> c, expires |-> now + HandleTtl]
<1>1. /\ at[c] = "preparing" /\ at' = [at EXCEPT ![c] = "auditing"] /\ UNCHANGED <<scene, home>>
      /\ x \in Contexts
  BY CtxTyped DEF Prepared, ToAudit, OwnerInv, HomeInv
<1>2. CASE UNCHANGED handles
  <2>1. handles' = [handles EXCEPT ![x] = handles[x]]
    BY <1>1, <1>2 DEF MediaInv
  <2> QED
    BY <1>1, <2>1, MoveShrinks
<1>3. CASE handles' = [handles EXCEPT ![x] = @ \cup {h}]
  <2>1. h \in Media
    BY CallsAssumption DEF Media
  <2>2. /\ handles' \in [Contexts -> SUBSET Media]
        /\ \A y \in Contexts : handles'[y] = IF y = x THEN handles[x] \cup {h} ELSE handles[y]
    BY <1>1, <1>3, <2>1 DEF MediaInv
  <2>3. \A y \in Contexts : Preparing(y)' = Preparing(y) \ {c}
    <3>1. \A y : Preparing(y)' = IF "auditing" = "preparing" /\ Ctx(c) = y THEN Preparing(y) \cup {c}
                                 ELSE Preparing(y) \ {c}
      BY <1>1, PreparingAt DEF OwnerInv
    <3> QED
      BY <3>1
  <2>4. c \in Preparing(x)
    BY <1>1 DEF Preparing, TrackedIn, Tracked
  <2>5. ASSUME NEW y \in Contexts
        PROVE  /\ IsFiniteSet(handles'[y]) /\ IsFiniteSet(Preparing(y)')
               /\ Cardinality(handles'[y]) + Cardinality(Preparing(y)') <= MaxHandles
    <3>1. /\ IsFiniteSet(handles[y]) /\ IsFiniteSet(Preparing(y))
          /\ Cardinality(handles[y]) + Cardinality(Preparing(y)) <= MaxHandles
      BY DEF MediaInv
    <3>2. /\ Cardinality(handles[y]) \in Nat /\ Cardinality(Preparing(y)) \in Nat
      BY <3>1, FS_CardinalityType
    <3>3. /\ IsFiniteSet(Preparing(y)')
          /\ Cardinality(Preparing(y)') = IF c \in Preparing(y) THEN Cardinality(Preparing(y)) - 1
                                          ELSE Cardinality(Preparing(y))
      BY <2>3, <3>1, FS_RemoveElement
    <3>4. CASE y = x
      <4>1. /\ IsFiniteSet(handles'[y])
            /\ Cardinality(handles'[y]) <= Cardinality(handles[y]) + 1
            /\ Cardinality(handles'[y]) \in Nat
        <5>1. handles'[y] = handles[y] \cup {h}
          BY <2>2, <3>4
        <5>2. /\ IsFiniteSet(handles[y] \cup {h})
              /\ Cardinality(handles[y] \cup {h}) = Cardinality(handles[y]) + 1
                   \/ Cardinality(handles[y] \cup {h}) = Cardinality(handles[y])
          BY <3>1, FS_AddElement
        <5> QED
          BY <3>2, <5>1, <5>2
      <4> QED
        BY <2>4, <3>1, <3>2, <3>3, <3>4, <4>1, CallsAssumption
    <3>5. CASE y # x
      <4>1. handles'[y] = handles[y]
        BY <2>2, <3>5
      <4> QED
        BY <3>1, <3>2, <3>3, <4>1, CallsAssumption
    <3> QED
      BY <3>4, <3>5
  <2> QED
    BY <2>2, <2>5 DEF MediaInv
<1> QED
  BY <1>2, <1>3 DEF Prepared

LEMMA PrepareCount ==
  ASSUME OwnerInv, MediaInv, now \in Nat, NEW c \in Calls, Prepare(c), at[c] # "preparing",
         UNCHANGED <<scene, home>>
  PROVE  MediaInv'
<1> DEFINE x == Ctx(c)
<1>1. x \in Contexts => Unexpired(x) \subseteq handles[x]
  BY DEF Unexpired
<1>2. CASE /\ at' = [at EXCEPT ![c] = "preparing"]
           /\ handles' = [handles EXCEPT ![x] = Unexpired(x)]
           /\ Cardinality(Unexpired(x)) + Cardinality(Preparing(x)) < MaxHandles
  <2>1. /\ \A y \in Contexts : handles'[y] = IF y = x THEN Unexpired(x) ELSE handles[y]
        /\ handles' \in [Contexts -> SUBSET Media]
    BY <1>1, <1>2 DEF MediaInv
  <2>2. \A y \in Contexts : Preparing(y)' = IF y = x THEN Preparing(x) \cup {c} ELSE Preparing(y) \ {c}
    BY <1>2, PreparingAt DEF OwnerInv
  <2>3. \A y : c \notin Preparing(y)
    BY DEF Preparing
  <2>4. ASSUME NEW y \in Contexts
        PROVE  /\ IsFiniteSet(handles'[y]) /\ IsFiniteSet(Preparing(y)')
               /\ Cardinality(handles'[y]) + Cardinality(Preparing(y)') <= MaxHandles
    <3>1. /\ IsFiniteSet(handles[y]) /\ IsFiniteSet(Preparing(y))
          /\ Cardinality(handles[y]) + Cardinality(Preparing(y)) <= MaxHandles
      BY DEF MediaInv
    <3>2. CASE y = x
      <4>1. /\ IsFiniteSet(Unexpired(x)) /\ Cardinality(Unexpired(x)) \in Nat
            /\ handles'[y] = Unexpired(x)
        BY <1>1, <2>1, <3>1, <3>2, FS_Subset, FS_CardinalityType
      <4>2. /\ IsFiniteSet(Preparing(y)') /\ Cardinality(Preparing(x)) \in Nat
            /\ Cardinality(Preparing(y)') = Cardinality(Preparing(x)) + 1
        BY <2>2, <2>3, <3>1, <3>2, FS_AddElement, FS_CardinalityType
      <4> QED
        BY <1>2, <4>1, <4>2, CallsAssumption
    <3>3. CASE y # x
      <4>1. handles'[y] = handles[y] /\ Preparing(y)' = Preparing(y)
        BY <2>1, <2>2, <2>3, <3>3
      <4> QED
        BY <3>1, <4>1
    <3> QED
      BY <3>2, <3>3
  <2> QED
    BY <2>1, <2>4 DEF MediaInv
<1>3. CASE /\ at' = [at EXCEPT ![c] = "auditing"]
           /\ handles' = [handles EXCEPT ![x] = IF Live(c) THEN Unexpired(x) ELSE @]
  BY <1>1, <1>3, MoveShrinks
<1> QED
  BY <1>2, <1>3 DEF Prepare, ToAudit

(* What one call does to the handles of its context.                       *)
LEMMA StaysShrinks ==
  ASSUME OwnerInv, MediaInv, NEW c \in Calls, NEW s, Moves(c, s), s # "preparing",
         UNCHANGED <<scene, home, handles>>
  PROVE  MediaInv'
<1>1. /\ \A y \in Contexts : handles'[y] \subseteq handles[y]
      /\ DOMAIN handles' = Contexts /\ handles' = [x \in DOMAIN handles' |-> handles'[x]]
  BY DEF MediaInv
<1>2. \A y \in Contexts : Preparing(y)' \subseteq Preparing(y)
  <2>1. \A y : Preparing(y)' = IF s = "preparing" /\ Ctx(c) = y THEN Preparing(y) \cup {c}
                               ELSE Preparing(y) \ {c}
    BY PreparingAt DEF OwnerInv, Moves
  <2> QED
    BY <2>1
<1> QED
  BY <1>1, <1>2, ShrinkInv

LEMMA ChargeCount ==
  ASSUME OwnerInv, MediaInv, now \in Nat, NEW c \in Calls, Charge(c), at[c] # "preparing",
         UNCHANGED <<scene, home>>
  PROVE  MediaInv'
<1>1. CASE Prepare(c)
  BY <1>1, PrepareCount
<1>2. CASE CheckMedia(c)
  <2>1. CASE at' = [at EXCEPT ![c] = "confining"] /\ UNCHANGED <<audits, handles>>
    BY <2>1, StaysShrinks DEF Moves
  <2>2. CASE \E H : ToAudit(c) /\ handles' = [handles EXCEPT ![Ctx(c)] = H] /\ H \subseteq handles[Ctx(c)]
    BY <2>2, MoveShrinks DEF ToAudit
  <2> QED
    BY <1>2, <2>1, <2>2 DEF CheckMedia
<1>3. CASE Link(c) /\ UNCHANGED handles
  BY <1>3, LinkMoves, StaysShrinks
<1>4. CASE (ToAudit(c) \/ ToAnswer(c)) /\ UNCHANGED handles
  BY <1>4, StaysShrinks DEF ToAudit, ToAnswer, Moves
<1> QED
  BY <1>1, <1>2, <1>3, <1>4 DEF Charge, Run

(* Completing a send uses its handle up and remembers its key.             *)
LEMMA RememberBound ==
  ASSUME NEW S, NEW known \in Seq(S), NEW key \in S, Len(known) <= MaxKeys
  PROVE  Remember(known, key) \in Seq(S) /\ Len(Remember(known, key)) <= MaxKeys
<1>1. MaxKeys \in Nat \ {0}
  BY CallsAssumption
<1>2. CASE Len(known) < MaxKeys
  BY <1>1, <1>2 DEF Remember
<1>3. CASE Len(known) = MaxKeys
  <2>1. known # <<>>
    BY <1>1, <1>3
  <2>2. Tail(known) \in Seq(S) /\ Len(Tail(known)) = Len(known) - 1
    BY <2>1
  <2>3. Append(Tail(known), key) \in Seq(S) /\ Len(Append(Tail(known), key)) = Len(known)
    BY <2>2, <1>1, <1>3
  <2> QED
    BY <1>1, <1>3, <2>3 DEF Remember
<1> QED
  BY <1>1, <1>2, <1>3

LEMMA RequestLimits ==
  ASSUME OwnerInv, MediaInv, KeyInv, scene \in Scenes, NEW c \in Calls, RequestEnds(c)
  PROVE  MediaInv' /\ KeyInv'
<1> DEFINE x == Ctx(c)
<1>1. /\ at[c] = "requesting" /\ UNCHANGED <<scene, home>> /\ x \in Contexts
  BY CtxTyped DEF RequestEnds, OwnerInv, HomeInv
<1>2. CASE UNCHANGED <<at, audits, clientVars>>
  <2>1. UNCHANGED <<handles, keys>> /\ Moves(c, "requesting")
    BY <1>1, <1>2 DEF clientVars, Moves, OwnerInv, CallTypes
  <2> QED
    BY <1>1, <2>1, StaysShrinks DEF KeyInv
<1>3. CASE Finish(c, FALSE) /\ UNCHANGED clientVars
  <2>1. UNCHANGED <<handles, keys>> /\ \E s \in {"auditing", "answering"} : Moves(c, s)
    BY <1>3, FinishMoves DEF clientVars
  <2> QED
    BY <1>1, <2>1, StaysShrinks DEF KeyInv
<1>4. CASE Complete(c)
  <2>1. PICK s \in {"auditing", "answering"} : Moves(c, s)
    BY <1>4, FinishMoves DEF Complete
  <2>2. PICK H : handles' = [handles EXCEPT ![x] = H] /\ H \subseteq handles[x]
    <3>1. handles' = [handles EXCEPT ![x] =
            IF Call(c).tool = "send_media" THEN {h \in handles[x] : h.by # Call(c).handle} ELSE handles[x]]
      BY <1>4 DEF Complete
    <3> QED
      BY <3>1
  <2>3. MediaInv'
    BY <1>1, <2>1, <2>2, MoveShrinks DEF Moves
  <2>4. PICK k : keys' = [keys EXCEPT ![x] = k] /\ (k = keys[x] \/ k = Remember(keys[x], Call(c).key))
    BY <1>4 DEF Complete
  <2>5. k \in Seq(SendKeys) /\ Len(k) <= MaxKeys
    BY <1>1, <2>4, RememberBound, CallKinds DEF KeyInv
  <2>6. KeyInv'
    BY <1>1, <2>4, <2>5 DEF KeyInv
  <2> QED
    BY <2>3, <2>6
<1> QED
  BY <1>2, <1>3, <1>4 DEF RequestEnds

LEMMA RetireLimits ==
  ASSUME MediaInv, KeyInv, NEW xs, Retire(xs), UNCHANGED <<scene, home, at>>
  PROVE  MediaInv' /\ KeyInv'
<1>1. \A x : Preparing(x)' = Preparing(x)
  BY DEF Preparing, TrackedIn, Tracked, Ctx, Call
<1>2. /\ DOMAIN handles' = Contexts /\ handles' = [x \in DOMAIN handles' |-> handles'[x]]
      /\ \A x \in Contexts : handles'[x] \subseteq handles[x]
  BY DEF Retire
<1>3. MediaInv'
  BY <1>1, <1>2, ShrinkInv
<1>4. KeyInv'
  <2>1. \A x \in Contexts : keys'[x] = keys[x] \/ keys'[x] = <<>>
    BY DEF Retire
  <2>2. MaxKeys \in Nat /\ <<>> \in Seq(SendKeys) /\ Len(<<>>) = 0
    BY CallsAssumption
  <2>3. keys' = [x \in Contexts |-> keys'[x]]
    BY DEF Retire
  <2>4. \A x \in Contexts : keys'[x] \in Seq(SendKeys) /\ Len(keys'[x]) <= MaxKeys
    <3>1. ASSUME NEW x \in Contexts
          PROVE  keys'[x] \in Seq(SendKeys) /\ Len(keys'[x]) <= MaxKeys
      <4>1. keys[x] \in Seq(SendKeys) /\ Len(keys[x]) <= MaxKeys
        BY DEF KeyInv
      <4>2. CASE keys'[x] = keys[x]
        BY <4>1, <4>2
      <4>3. CASE keys'[x] = <<>>
        BY <2>2, <4>3
      <4> QED
        BY <2>1, <4>2, <4>3
    <3> QED
      BY <3>1
  <2> QED
    BY <2>3, <2>4 DEF KeyInv
<1> QED
  BY <1>3, <1>4

LEMMA FlightStep ==
  ASSUME OwnerInv, FlightInv, scene \in Scenes,
         \/ \E c \in Calls : Receive(c) \/ Answer(c)
         \/ \E e \in Endpoints : Close(e)
  PROVE  FlightInv'
<1>1. CASE \E e \in Endpoints : Close(e)
  BY <1>1, FS_EmptySet, CallsAssumption DEF Close, FlightInv
<1>2. ASSUME NEW c \in Calls, Answer(c)
      PROVE  FlightInv'
  <2> DEFINE e == Call(c).on
  <2>1. e \in Endpoints
    BY <1>2 DEF Answer, OwnerInv, HomeInv
  <2>2. PICK F : inFlight' = [inFlight EXCEPT ![e] = F] /\ F \subseteq inFlight[e]
    <3>1. inFlight' = [inFlight EXCEPT ![e] =
            IF c \in cancelled THEN inFlight[e] ELSE inFlight[e] \ {Call(c).id}]
      BY <1>2 DEF Answer
    <3> QED
      BY <3>1
  <2>3. IsFiniteSet(F) /\ Cardinality(F) <= MaxInFlight
    <3>1. /\ IsFiniteSet(inFlight[e]) /\ Cardinality(inFlight[e]) <= MaxInFlight
          /\ Cardinality(F) <= Cardinality(inFlight[e]) /\ IsFiniteSet(F)
      BY <2>1, <2>2, FS_Subset DEF FlightInv
    <3> QED
      BY <3>1, FS_CardinalityType, CallsAssumption
  <2> QED
    BY <2>1, <2>2, <2>3 DEF FlightInv
<1>3. ASSUME NEW c \in Calls, Receive(c)
      PROVE  FlightInv'
  <2> DEFINE e == Call(c).on
  <2>1. e \in Endpoints /\ Call(c).id \in Ids
    BY <1>3, CallKinds DEF Receive, OwnerInv, CallTypes
  <2>2. PICK F : /\ inFlight' = [inFlight EXCEPT ![e] = F]
                 /\ \/ F = {}
                    \/ F = inFlight[e] \cup {Call(c).id} /\ Call(c).id \notin inFlight[e]
                         /\ ~(Cardinality(inFlight[e]) >= MaxInFlight)
    BY <1>3 DEF Receive
  <2>3. IsFiniteSet(F) /\ Cardinality(F) <= MaxInFlight /\ F \in SUBSET Ids
    <3>1. /\ IsFiniteSet(inFlight[e]) /\ Cardinality(inFlight[e]) \in Nat
          /\ inFlight[e] \in SUBSET Ids
      BY <2>1, FS_CardinalityType DEF FlightInv
    <3>2. CASE F = {}
      BY <3>2, FS_EmptySet, CallsAssumption
    <3>3. CASE F # {}
      <4>1. /\ IsFiniteSet(inFlight[e] \cup {Call(c).id})
            /\ Cardinality(inFlight[e] \cup {Call(c).id}) = Cardinality(inFlight[e]) + 1
        BY <2>2, <3>1, <3>3, FS_AddElement
      <4>2. F = inFlight[e] \cup {Call(c).id}
        BY <2>2, <3>3
      <4>3. Cardinality(inFlight[e]) + 1 <= MaxInFlight
        <5>1. ~(Cardinality(inFlight[e]) >= MaxInFlight) /\ MaxInFlight \in Nat
          BY <2>2, <3>3, CallsAssumption
        <5> QED
          BY <3>1, <5>1
      <4>4. F \in SUBSET Ids
        BY <2>1, <3>1, <4>2
      <4> QED
        BY <4>1, <4>2, <4>3, <4>4
    <3> QED
      BY <3>2, <3>3
  <2> QED
    BY <2>1, <2>2, <2>3 DEF FlightInv
<1> QED
  BY <1>1, <1>2, <1>3

(* No step but these changes what the limits are about.                    *)
LEMMA LimitsFrame ==
  ASSUME CallsNext
  PROVE  /\ scene' = scene
         /\ \/ UNCHANGED inFlight
            \/ \E c \in Calls : Receive(c) \/ Answer(c)
            \/ \E e \in Endpoints : Close(e)
         /\ \/ UNCHANGED <<handles, keys, at, home>>
            \/ UNCHANGED <<handles, keys>> /\ Replace
            \/ \E c \in Calls : Receive(c) \/ Approve(c) \/ CallWorks(c)
            \/ \E x \in Contexts : BuildFails(x)
            \/ Audited
            \/ \E xs : Retire(xs) /\ UNCHANGED <<at, home>>
         /\ now' = now \/ Tick
<1> USE DEF wireVars, clientVars, quotaVars, callVars
<1>1. ASSUME NEW c \in Calls, Receive(c) \/ Cancel(c) \/ Approve(c) \/ CallWorks(c)
      PROVE  /\ scene' = scene /\ now' = now
             /\ UNCHANGED inFlight \/ Receive(c) \/ Answer(c)
             /\ UNCHANGED <<handles, keys, at, home>> \/ Receive(c) \/ Approve(c) \/ CallWorks(c)
  BY <1>1 DEF Receive, Cancel, Approve, CallWorks, Acquire, Execute, Decline, Linked, RequestEnds,
    Prepared, MediaConfined, Answer
<1>2. ASSUME NEW e \in Endpoints, Stall(e) \/ Close(e)
      PROVE  /\ UNCHANGED <<scene, now, handles, keys, at, home>>
             /\ UNCHANGED inFlight \/ Close(e)
  BY <1>2 DEF Stall, Close
<1>3. ASSUME NEW x \in Contexts, ContextWorks(x) \/ ReleaseSettles(x)
      PROVE  /\ UNCHANGED <<scene, now, inFlight>>
             /\ UNCHANGED <<handles, keys, at, home>> \/ BuildFails(x)
  BY <1>3 DEF ContextWorks, AccessResolved, BindStarts, ClientBound, BuildFails, ReleaseSettles
<1>4. CASE Publish \/ Dispose
  BY <1>4 DEF Publish, Dispose
<1>5. CASE \/ TeardownStep \/ Replace \/ AskSnapshot \/ SnapshotEnds
           \/ ConnectionFails \/ ConnectionSettles \/ Audited
  BY <1>5 DEF TeardownStep, Replace, AskSnapshot, SnapshotEnds, ConnectionFails,
    ConnectionSettles, RelinkSettles, OpeningSettles, Audited
<1>6. CASE Tick
  BY <1>6 DEF Tick
<1> QED
  BY <1>1, <1>2, <1>3, <1>4, <1>5, <1>6 DEF CallsNext

LEMMA CallMedia ==
  ASSUME OwnerInv, AuditInv, MediaInv, now \in Nat, NEW c \in Calls,
         \/ Receive(c) \/ Approve(c) \/ Acquire(c) \/ Execute(c) \/ Decline(c) \/ Linked(c)
         \/ Prepared(c) \/ MediaConfined(c) \/ Answer(c)
  PROVE  MediaInv'
<1> USE DEF wireVars, clientVars
<1>1. CASE Receive(c) \/ Answer(c)
  <2>1. /\ UNCHANGED <<scene, home, handles>>
        /\ \E s \in {"received", "done"} : Moves(c, s)
    BY <1>1 DEF Receive, Answer, Moves
  <2> QED
    BY <2>1, StaysShrinks
<1>2. CASE Approve(c)
  BY <1>2, ChargeCount DEF Approve
<1>3. CASE Acquire(c)
  <2>1. /\ UNCHANGED <<scene, handles>> /\ at[c] = "received"
        /\ \A d \in Calls : at'[d] = IF d = c THEN "waiting" ELSE at[d]
        /\ \A d \in Calls : d # c => home'[d] = home[d]
    BY <1>3 DEF Acquire, OwnerInv, CallTypes
  <2>2. \A d \in Calls : d # c => Ctx(d)' = Ctx(d)
    BY <2>1 DEF Ctx, Call
  <2>3. \A y \in Contexts : Preparing(y)' \subseteq Preparing(y)
    BY <2>1, <2>2 DEF Preparing, TrackedIn, Tracked
  <2>4. /\ \A y \in Contexts : handles'[y] \subseteq handles[y]
        /\ DOMAIN handles' = Contexts /\ handles' = [x \in DOMAIN handles' |-> handles'[x]]
    BY <2>1 DEF MediaInv
  <2> QED
    BY <2>3, <2>4, ShrinkInv
<1>4. CASE Execute(c)
  <2>1. UNCHANGED <<scene, home>> /\ at[c] = "waiting"
    BY <1>4 DEF Execute
  <2>2. \/ UNCHANGED handles /\ \E s \in {"auditing", "answering", "asking"} : Moves(c, s)
        \/ Charge(c)
    BY <1>4 DEF Execute, ToAudit, ToAnswer, Moves
  <2> QED
    BY <2>1, <2>2, StaysShrinks, ChargeCount
<1>5. CASE Decline(c) \/ Linked(c)
  <2>1. /\ UNCHANGED <<scene, home, handles>>
        /\ \E s \in {"auditing", "answering", "requesting"} : Moves(c, s)
    BY <1>5, FinishMoves DEF Decline, Linked, ToAudit, Moves
  <2> QED
    BY <2>1, StaysShrinks
<1>6. CASE Prepared(c)
  BY <1>6, PreparedCount
<1>7. CASE MediaConfined(c)
  <2>1. UNCHANGED <<scene, home>>
    BY <1>7 DEF MediaConfined
  <2>2. CASE Link(c) /\ UNCHANGED handles
    BY <2>1, <2>2, LinkMoves, StaysShrinks
  <2>3. CASE \E H : /\ at' = [at EXCEPT ![c] = "auditing"]
                    /\ handles' = [handles EXCEPT ![Ctx(c)] = H] /\ H \subseteq handles[Ctx(c)]
    BY <2>1, <2>3, MoveShrinks
  <2>4. ToAudit(c) /\ handles' = [handles EXCEPT ![Ctx(c)] =
                                    {h \in handles[Ctx(c)] : h.by # Call(c).handle}]
          => \E H : /\ at' = [at EXCEPT ![c] = "auditing"]
                    /\ handles' = [handles EXCEPT ![Ctx(c)] = H] /\ H \subseteq handles[Ctx(c)]
    BY DEF ToAudit
  <2> QED
    BY <1>7, <2>2, <2>3, <2>4 DEF MediaConfined
<1> QED
  BY <1>1, <1>2, <1>3, <1>4, <1>5, <1>6, <1>7

LEMMA LimitStepInv ==
  ASSUME OwnerInv, AuditInv, LimitInv, [CallsNext]_vars
  PROVE  LimitInv'
<1>1. CASE UNCHANGED vars
  <2>1. UNCHANGED <<scene, now, inFlight, handles, keys, at, home>>
    BY <1>1 DEF vars, wireVars, clientVars, quotaVars, callVars
  <2>2. \A x : Preparing(x)' = Preparing(x)
    BY <2>1 DEF Preparing, TrackedIn, Tracked, Ctx, Call
  <2> QED
    BY <2>1, <2>2 DEF LimitInv, FlightInv, MediaInv, KeyInv
<1>2. CASE CallsNext
  <2>1. scene' = scene /\ now' \in Nat
    BY <1>2, LimitsFrame DEF LimitInv, Tick
  <2>2. FlightInv'
    BY <1>2, LimitsFrame, FlightStep DEF LimitInv, FlightInv
  <2>3. ASSUME UNCHANGED <<handles, keys>>, \A y : Preparing(y)' \subseteq Preparing(y)
        PROVE  MediaInv' /\ KeyInv'
    BY <2>3, ShrinkInv DEF LimitInv, KeyInv, MediaInv
  <2>4. ASSUME UNCHANGED <<handles, keys, at, home>> \/ (UNCHANGED <<handles, keys>> /\ Replace)
        PROVE  MediaInv' /\ KeyInv'
    <3>1. UNCHANGED <<handles, keys, at, home>>
      BY <2>4 DEF Replace, callVars
    <3>2. \A y : Preparing(y)' \subseteq Preparing(y)
      BY <2>1, <3>1 DEF Preparing, TrackedIn, Tracked, Ctx, Call
    <3> QED
      BY <2>3, <3>1, <3>2
  <2>5. ASSUME NEW c \in Calls, Receive(c) \/ Approve(c) \/ CallWorks(c)
        PROVE  MediaInv' /\ KeyInv'
    <3>1. CASE RequestEnds(c)
      BY <3>1, RequestLimits DEF LimitInv
    <3>2. CASE \/ Receive(c) \/ Approve(c) \/ Acquire(c) \/ Execute(c) \/ Decline(c)
               \/ Linked(c) \/ Prepared(c) \/ MediaConfined(c) \/ Answer(c)
      <4>1. UNCHANGED keys
        BY <3>2 DEF Receive, Approve, Acquire, Execute, Decline, Linked, Prepared, MediaConfined,
          Answer, clientVars
      <4> QED
        BY <3>2, <4>1, CallMedia DEF LimitInv, KeyInv
    <3> QED
      BY <2>5, <3>1, <3>2 DEF CallWorks
  <2>6. ASSUME NEW x \in Contexts, BuildFails(x)
        PROVE  MediaInv' /\ KeyInv'
    <3>1. /\ UNCHANGED <<handles, keys, home>>
          /\ \A c \in Calls : at'[c] = "preparing" => at[c] = "preparing"
      BY <2>6 DEF BuildFails, clientVars
    <3>2. \A y : Preparing(y)' \subseteq Preparing(y)
      BY <2>1, <3>1 DEF Preparing, TrackedIn, Tracked, Ctx, Call
    <3> QED
      BY <2>3, <3>1, <3>2
  <2>7. ASSUME Audited
        PROVE  MediaInv' /\ KeyInv'
    <3>1. UNCHANGED <<handles, keys, home>> /\ at' = [at EXCEPT ![Head(audits)] = "answering"]
      BY <2>7 DEF Audited, clientVars
    <3>2. \A c \in Calls : at'[c] = "preparing" => at[c] = "preparing"
      BY <3>1 DEF OwnerInv, CallTypes
    <3>3. \A y : Preparing(y)' \subseteq Preparing(y)
      BY <2>1, <3>1, <3>2 DEF Preparing, TrackedIn, Tracked, Ctx, Call
    <3> QED
      BY <2>3, <3>1, <3>3
  <2>8. ASSUME \E xs : Retire(xs) /\ UNCHANGED <<at, home>>
        PROVE  MediaInv' /\ KeyInv'
    <3>1. PICK xs : Retire(xs) /\ UNCHANGED <<at, home>>
      BY <2>8
    <3> QED
      BY <2>1, <3>1, RetireLimits DEF LimitInv
  <2>9. MediaInv' /\ KeyInv'
    <3>1. \/ UNCHANGED <<handles, keys, at, home>> \/ (UNCHANGED <<handles, keys>> /\ Replace)
          \/ \E c \in Calls : Receive(c) \/ Approve(c) \/ CallWorks(c)
          \/ \E x \in Contexts : BuildFails(x)
          \/ Audited
          \/ \E xs : Retire(xs) /\ UNCHANGED <<at, home>>
      BY <1>2, LimitsFrame
    <3> QED
      BY <2>4, <2>5, <2>6, <2>7, <2>8, <3>1
  <2> QED
    BY <2>1, <2>2, <2>9 DEF LimitInv
<1> QED
  BY <1>1, <1>2

LEMMA CallsLimited == CallsSpec => [](OwnerInv /\ AuditInv /\ LimitInv)
<1>1. CallsInit => OwnerInv /\ AuditInv /\ LimitInv
  BY OwnerInvInit, AuditInvInit, LimitInvInit
<1>2. (OwnerInv /\ AuditInv /\ LimitInv) /\ [CallsNext]_vars => (OwnerInv /\ AuditInv /\ LimitInv)'
  BY CallsStepInv, LimitStepInv
<1> QED
  BY <1>1, <1>2, PTL DEF CallsSpec

(* No connection has more requests in flight than it may, no scoped client *)
(* more prepared media with those being prepared, none remembers more keys *)
(* than its limit; and a call is on the audit chain exactly while it waits *)
(* for it (bounded-stream-transport.ts:94, gramjs-telegram-gateway.ts:1449,*)
(* 1778).                                                                  *)
THEOREM CallsLimits == CallsSpec => []CallsTypeOK
<1>1. OwnerInv /\ AuditInv /\ LimitInv => CallsTypeOK
  <2> SUFFICES ASSUME OwnerInv, AuditInv, LimitInv
               PROVE  CallsTypeOK
    OBVIOUS
  <2>1. GatewayTypeOK /\ \A c \in Calls : at[c] \in CallStates
    BY DEF OwnerInv, GatewayInv, CallTypes
  <2>2. \A c \in Calls : at[c] = "auditing" <=> c \in ToSet(audits)
    <3>1. ToSet(audits) = {audits[i] : i \in DOMAIN audits}
      BY DEF ToSet
    <3> QED
      BY <3>1 DEF AuditInv
  <2> QED
    BY <2>1, <2>2 DEF CallsTypeOK, LimitInv, FlightInv, MediaInv, KeyInv, CallStates
<1> QED
  BY <1>1, CallsLimited, PTL

-----------------------------------------------------------------------------
(* What an access lets an endpoint do.                                     *)

LEMMA LeastNatural ==
  ASSUME NEW T \in SUBSET Nat, T # {}
  PROVE  \E x \in T : \A y \in T : x <= y
<1>1. PICK x \in T : \A y \in T : ~(<<y, x>> \in OpToRel(<, Nat))
  BY WFMin, NatLessThanWellFounded
<1>2. \A y \in T : ~(y < x)
  BY <1>1 DEF OpToRel
<1> QED
  BY <1>2

LEMMA GreatestNatural ==
  ASSUME NEW T, NEW n \in Nat, T \subseteq 0..n, T # {}
  PROVE  \E x \in T : \A y \in T : y <= x
<1> DEFINE U == {n - y : y \in T}
<1>1. U \in SUBSET Nat /\ U # {}
  <2>1. \A y \in T : y \in 0..n
    OBVIOUS
  <2>2. \A y \in 0..n : n - y \in Nat
    OBVIOUS
  <2> QED
    BY <2>1, <2>2
<1>2. PICK u \in U : \A v \in U : u <= v
  BY <1>1, LeastNatural
<1>3. PICK x \in T : u = n - x
  BY <1>2
<1>4. ASSUME NEW y \in T
      PROVE  y <= x
  <2>1. y \in 0..n /\ x \in 0..n
    BY <1>4
  <2>2. n - x <= n - y
    BY <1>2, <1>3, <1>4
  <2> QED
    BY <2>1, <2>2
<1> QED
  BY <1>3, <1>4

IsAccess(access) ==
  /\ \A ref \in access.chats : IsReference(ref)
  /\ Len(access.overrides) \in Nat
  /\ DOMAIN access.overrides = 1..Len(access.overrides)
  /\ \A i \in DOMAIN access.overrides : IsReference(access.overrides[i].ref)

IsCall(call) ==
  /\ IsReference(call.peer) /\ IsReference(call.to)
  /\ call.wide => call.tool = "search_messages"

(* A touch: a chat and the verb it is used with.                           *)
Declares(access, t) == t[1] \in DeclaredChats(access) /\ t[2] \in DeclaredVerbs(access, t[1])

LEMMA ResolvesToPeer ==
  ASSUME NEW ref, IsReference(ref)
  PROVE  Resolve(ref) \subseteq {ref.peer}
<1>1. CASE ref.kind = "id"
  BY <1>1 DEF Resolve
<1>2. CASE ref.kind = "me"
  BY <1>2 DEF Resolve, IsReference
<1>3. CASE ref.kind = "username"
  BY <1>3 DEF Resolve
<1> QED
  BY <1>1, <1>2, <1>3 DEF IsReference

LEMMA ScopeDeclared ==
  ASSUME NEW access, IsAccess(access)
  PROVE  ScopeOf(access) \subseteq DeclaredChats(access)
<1>1. ASSUME NEW ref \in access.chats, NEW p \in Resolve(ref)
      PROVE  p \in DeclaredChats(access)
  <2>1. IsReference(ref) /\ p = ref.peer
    BY <1>1, ResolvesToPeer DEF IsAccess
  <2>2. CASE ref.kind = "me"
    BY <2>1, <2>2 DEF DeclaredChats, IsReference
  <2>3. CASE ref.kind # "me"
    BY <2>1, <2>3 DEF DeclaredChats
  <2> QED
    BY <2>2, <2>3
<1>2. ASSUME NEW f \in access.folders, NEW p \in FolderPeers(f)
      PROVE  p \in DeclaredChats(access)
  BY <1>2 DEF FolderPeers, DeclaredChats
<1>3. ASSUME NEW p \in ScopeOf(access)
      PROVE  p \in DeclaredChats(access)
  <2>1. \/ \E ref \in access.chats : p \in Resolve(ref)
        \/ \E f \in access.folders : p \in FolderPeers(f)
    <3> DEFINE A == UNION {Resolve(ref) : ref \in access.chats}
               B == UNION {FolderPeers(f) : f \in access.folders}
    <3>0. ScopeOf(access) = A \cup B
      BY DEF ScopeOf
    <3>1. p \in A \/ p \in B
      <4> HIDE DEF A, B
      <4> QED
        BY <1>3, <3>0
    <3>2. CASE p \in UNION {Resolve(ref) : ref \in access.chats}
      BY <3>2
    <3>3. CASE p \in UNION {FolderPeers(f) : f \in access.folders}
      BY <3>3
    <3> QED
      BY <3>1, <3>2, <3>3
  <2> QED
    BY <1>1, <1>2, <2>1
<1> QED
  BY <1>3

(* The override that the engine and the data layer find is the last one of *)
(* the chat in the declaration.                                            *)
LEMMA OverrideDeclared ==
  ASSUME NEW access, IsAccess(access), Resolves(access), NEW p,
         NEW own, own = {i \in DOMAIN access.overrides : access.overrides[i].ref.peer = p}
  PROVE  /\ p \in Overridden(access) <=> own # {}
         /\ own # {} => OverrideOf(access, p) = access.overrides[Max(own)].verbs
<1>1. \A i \in DOMAIN access.overrides :
        p \in Resolve(access.overrides[i].ref) <=> access.overrides[i].ref.peer = p
  BY ResolvesToPeer DEF IsAccess, Resolves
<1>2. p \in Overridden(access) <=> own # {}
  BY <1>1 DEF Overridden
<1>3. ASSUME own # {}
      PROVE  OverrideOf(access, p) = access.overrides[Max(own)].verbs
  <2>1. PICK n \in Nat : DOMAIN access.overrides = 1..n
    BY DEF IsAccess
  <2>2. PICK m \in own : \A j \in own : j <= m
    <3>1. own \subseteq 0..n
      BY <2>1
    <3> QED
      BY <1>3, <3>1, GreatestNatural
  <2>3. \A j \in own : j \in Nat
    BY <2>1
  <2>4. Max(own) = m
    <3>1. \A k \in own : (\A j \in own : k >= j) => k = m
      BY <2>2, <2>3
    <3>2. Max(own) \in own /\ \A j \in own : Max(own) >= j
      BY <2>2, <2>3 DEF Max
    <3> QED
      BY <3>1, <3>2
  <2> DEFINE Newest(i) == /\ p \in Resolve(access.overrides[i].ref)
                          /\ \A j \in DOMAIN access.overrides :
                               p \in Resolve(access.overrides[j].ref) => j <= i
  <2>5. m \in DOMAIN access.overrides /\ Newest(m)
    BY <1>1, <2>2
  <2>6. \A i \in DOMAIN access.overrides : Newest(i) => i = m
    BY <1>1, <2>1, <2>2, <2>3
  <2>7. (CHOOSE i \in DOMAIN access.overrides : Newest(i)) = m
    BY <2>5, <2>6
  <2> QED
    BY <2>4, <2>7 DEF OverrideOf
<1> QED
  BY <1>2, <1>3

LEMMA PermitsDeclared ==
  ASSUME NEW access, IsAccess(access), Resolves(access), NEW verb, NEW p,
         Permits(access, verb, p), p \in ScopeOf(access)
  PROVE  Declares(access, <<p, verb>>)
<1> DEFINE own == {i \in DOMAIN access.overrides : access.overrides[i].ref.peer = p}
<1>1. p \in DeclaredChats(access)
  BY ScopeDeclared
<1>2. verb \notin access.denied
  BY DEF Permits
<1>3. verb \in IF own = {} THEN access.verbs ELSE access.overrides[Max(own)].verbs
  <2>1. /\ p \in Overridden(access) <=> own # {}
        /\ own # {} => OverrideOf(access, p) = access.overrides[Max(own)].verbs
    BY OverrideDeclared
  <2> HIDE DEF own
  <2> QED
    BY <2>1 DEF Permits
<1>4. verb \in DeclaredVerbs(access, p)
  BY <1>2, <1>3 DEF DeclaredVerbs
<1> QED
  BY <1>1, <1>4 DEF Declares

LEMMA ReadDeclared ==
  ASSUME NEW access, IsAccess(access), Resolves(access), Grants(access, "read"),
         NEW i \in ReadablePlaces(access)
  PROVE  Declares(access, <<Dialogs[i], "read">>)
  BY PermitsDeclared DEF Grants, Permits, ReadablePlaces, BoundPlaces, OverrideAllows

(* No request of a call that the engine let through reaches beyond the     *)
(* declaration.                                                            *)
LEMMA RequestsDeclared ==
  ASSUME NEW access, IsAccess(access), Resolves(access), NEW call, IsCall(call),
         AclAllows(access, call), call.tool # "prepare_media",
         NEW r \in Requests(access, call), NEW t \in r.touches
  PROVE  Declares(access, t)
<1> DEFINE Named1(i) == {<<p, Targets(call)[i].verb>> : p \in LookUp(access, Targets(call)[i].ref)}
           named == UNION {Named1(i) : i \in DOMAIN Targets(call)}
           listed == {<<Dialogs[i], "read">> : i \in ReadablePlaces(access)}
<1>1. CASE call.wide
  <2>1. PICK i \in SearchedPlaces(access, call) : r = [n |-> i, touches |-> {<<Dialogs[i], "read">>}]
    BY <1>1 DEF Requests, IsCall
  <2>2. i \in ReadablePlaces(access)
    BY <2>1 DEF SearchedPlaces, FirstOf
  <2>3. Targets(call) = <<>> /\ VerbOf(call.tool) = "read"
    BY <1>1 DEF Targets, VerbOf, IsCall, Reads
  <2> QED
    BY <2>1, <2>2, <2>3, ReadDeclared DEF AclAllows
<1>2. CASE call.tool = "list_dialogs"
  <2>1. r = [n |-> 1, touches |-> listed]
    BY <1>2 DEF Requests, IsCall
  <2>2. Targets(call) = <<>> /\ VerbOf(call.tool) = "read"
    BY <1>2 DEF Targets, VerbOf, IsCall, Reads
  <2> QED
    BY <2>1, <2>2, ReadDeclared DEF AclAllows
<1>3. CASE ~call.wide /\ call.tool # "list_dialogs"
  <2>1. r.touches = named
    <3>1. CASE call.tool = "download_media"
      BY <1>3, <3>1 DEF Requests
    <3>2. CASE call.tool # "download_media"
      BY <1>3, <3>2 DEF Requests
    <3> QED
      BY <3>1, <3>2
  <2>2. Targets(call) # <<>> /\ \A i \in DOMAIN Targets(call) : IsReference(Targets(call)[i].ref)
    <3>1. CASE call.tool = "forward_message"
      BY <1>3, <3>1 DEF Targets, IsCall
    <3>2. CASE call.tool # "forward_message"
      BY <1>3, <3>2 DEF Targets, IsCall
    <3> QED
      BY <3>1, <3>2
  <2>3. PICK i \in DOMAIN Targets(call) : t \in Named1(i)
    BY <2>1
  <2>p. PICK p \in LookUp(access, Targets(call)[i].ref) : t = <<p, Targets(call)[i].verb>>
    BY <2>3
  <2>4. PICK q \in LookUp(access, Targets(call)[i].ref) : Evaluate(access, Targets(call)[i].verb, q)
    BY <2>2 DEF AclAllows
  <2>5. p = q
    BY <2>2, <2>p, <2>4, ResolvesToPeer DEF LookUp
  <2> QED
    BY <2>p, <2>4, <2>5, PermitsDeclared DEF Evaluate
<1> QED
  BY <1>1, <1>2, <1>3

-----------------------------------------------------------------------------
(* What calls touch.                                                       *)

(* A call in the state s, with these touches and requests still to make;   *)
(* yes: a human has approved it.  Past the check of the engine it is one   *)
(* the access allows; past the question, one that was approved if it must  *)
(* be.                                                                     *)
AccessAt(c, s, touches, requests, yes) ==
  /\ s \in {"unsent", "received"} => touches = {}
  /\ s \in {"asking", "confining", "linking", "requesting"} => AclAllows(Access(c), Call(c))
  /\ s \in {"confining", "linking", "requesting"} =>
       /\ Call(c).tool # "prepare_media"
       /\ MustConfirm(Access(c), Call(c).tool) => yes
  /\ s = "requesting" => requests \subseteq Requests(Access(c), Call(c))
  /\ \A t \in touches : Declares(Access(c), t)

AccessInv ==
  /\ touched = [c \in Calls |-> touched[c]]
  /\ todo = [c \in Calls |-> todo[c]]
  /\ \A c \in Calls : AccessAt(c, at[c], touched[c], todo[c], c \in approved)
  /\ \A x \in Contexts : context[x] \in {"binding", "bound"} => Resolves(AccessOf(x))

LEMMA AccessInvInit == CallsInit => AccessInv
<1> SUFFICES ASSUME CallsInit
             PROVE  AccessInv
  OBVIOUS
<1>1. touched = [c \in Calls |-> touched[c]] /\ todo = [c \in Calls |-> todo[c]]
  BY DEF CallsInit
<1>2. \A c \in Calls : at[c] = "unsent" /\ touched[c] = {}
  BY DEF CallsInit
<1>3. \A x \in Contexts : context[x] = "none"
  BY DEF CallsInit
<1> QED
  BY <1>1, <1>2, <1>3 DEF AccessInv, AccessAt

(* The scene is one of the given ones, in which everything is well-formed. *)
LEMMA SceneGiven ==
  ASSUME scene \in Scenes
  PROVE  /\ \A c \in Calls : IsCall(Call(c))
         /\ \A x \in Contexts : IsAccess(AccessOf(x))
<1>1. \A c \in Calls : IsCall(Call(c))
  BY ScenesAssumption DEF IsCall, Call
<1>2. ASSUME NEW x \in Contexts
      PROVE  IsAccess(AccessOf(x))
  <2>1. x[1] \in Endpoints /\ x[2] \in Generations
    BY DEF Contexts
  <2> QED
    BY <2>1, ScenesAssumption DEF IsAccess, AccessOf
<1> QED
  BY <1>1, <1>2

LEMMA CallDeclared ==
  ASSUME OwnerInv, AccessInv, scene \in Scenes, NEW c \in Calls,
         at[c] \in {"waiting", "asking", "confining", "linking", "requesting"},
         context[Ctx(c)] = "bound", AclAllows(Access(c), Call(c)), Call(c).tool # "prepare_media",
         NEW r \in Requests(Access(c), Call(c)), NEW t \in r.touches
  PROVE  Declares(Access(c), t)
<1>1. Ctx(c) \in Contexts
  BY CtxTyped DEF OwnerInv, HomeInv
<1>2. IsAccess(Access(c)) /\ Resolves(Access(c)) /\ IsCall(Call(c))
  BY <1>1, SceneGiven DEF AccessInv, Access
<1> QED
  BY <1>2, RequestsDeclared

(* One call moves; nothing else is touched.                                *)
LEMMA AccessMove ==
  ASSUME OwnerInv, AccessInv, NEW c \in Calls, NEW s, NEW touches, NEW requests,
         UNCHANGED <<scene, home, context>>,
         at' = [at EXCEPT ![c] = s], touched' = [touched EXCEPT ![c] = touches],
         todo' = [todo EXCEPT ![c] = requests],
         approved' = approved \/ approved' = approved \cup {c},
         AccessAt(c, s, touches, requests, c \in approved')
  PROVE  AccessInv'
<1>1. \A d \in Calls : /\ at'[d] = IF d = c THEN s ELSE at[d]
                       /\ touched'[d] = IF d = c THEN touches ELSE touched[d]
                       /\ todo'[d] = IF d = c THEN requests ELSE todo[d]
                       /\ d # c => (d \in approved' <=> d \in approved)
  BY DEF OwnerInv, CallTypes, AccessInv
<1>2. /\ touched' = [d \in Calls |-> touched'[d]]
      /\ todo' = [d \in Calls |-> todo'[d]]
  BY DEF AccessInv
<1>3. \A x : AccessOf(x)' = AccessOf(x)
  BY DEF AccessOf
<1>4. \A d \in Calls : Call(d)' = Call(d) /\ Access(d)' = Access(d)
  BY DEF Call, Access, AccessOf, Ctx
<1>5. ASSUME NEW d \in Calls
      PROVE  AccessAt(d, at[d], touched[d], todo[d], d \in approved)'
  <2>1. CASE d = c
    BY <1>1, <1>4, <2>1 DEF AccessAt
  <2>2. CASE d # c
    <3>1. AccessAt(d, at[d], touched[d], todo[d], d \in approved)
      BY DEF AccessInv
    <3> QED
      BY <1>1, <1>4, <2>2, <3>1 DEF AccessAt
  <2> QED
    BY <2>1, <2>2
<1> QED
  BY <1>2, <1>3, <1>5 DEF AccessInv

(* The same when a call only changes its state.                            *)
LEMMA AccessStay ==
  ASSUME OwnerInv, AccessInv, NEW c \in Calls, NEW s,
         UNCHANGED <<scene, home, context, touched, todo>>,
         approved' = approved \/ approved' = approved \cup {c},
         at' = [at EXCEPT ![c] = s],
         AccessAt(c, s, touched[c], todo[c], c \in approved')
  PROVE  AccessInv'
<1> DEFINE touches == touched[c]
           requests == todo[c]
<1>1. touched' = [touched EXCEPT ![c] = touches] /\ todo' = [todo EXCEPT ![c] = requests]
  BY DEF AccessInv
<1>2. AccessAt(c, s, touches, requests, c \in approved')
  OBVIOUS
<1> HIDE DEF touches, requests
<1> QED
  BY <1>1, <1>2, AccessMove

(* The steps that end a call's way, or lead it no further than before the  *)
(* check, need nothing but the touches it had.                             *)
LEMMA AccessEnds ==
  ASSUME AccessInv, NEW c \in Calls, NEW s \in {"received", "waiting", "preparing", "auditing",
                                                "answering", "done"},
         s = "received" => at[c] = "unsent", NEW requests, NEW yes
  PROVE  AccessAt(c, s, touched[c], requests, yes)
<1>1. AccessAt(c, at[c], touched[c], todo[c], c \in approved)
  BY DEF AccessInv
<1> QED
  BY <1>1 DEF AccessAt

LEMMA ChargeAccess ==
  ASSUME OwnerInv, AccessInv, scene \in Scenes, NEW c \in Calls, Charge(c),
         at[c] \in {"waiting", "asking"}, context[Ctx(c)] = "bound",
         AclAllows(Access(c), Call(c)),
         approved' = approved \/ approved' = approved \cup {c},
         MustConfirm(Access(c), Call(c).tool) => c \in approved',
         UNCHANGED <<scene, home, context, todo>>
  PROVE  AccessInv'
<1>0. AccessAt(c, at[c], touched[c], todo[c], c \in approved)
  BY DEF AccessInv
<1>1. ASSUME NEW s \in {"auditing", "answering", "preparing"}, Moves(c, s), UNCHANGED touched
      PROVE  AccessInv'
  BY <1>1, AccessStay, AccessEnds DEF Moves
<1>2. ASSUME NEW s \in {"linking", "confining"}, Moves(c, s), UNCHANGED touched,
             Call(c).tool # "prepare_media"
      PROVE  AccessInv'
  <2>1. AccessAt(c, s, touched[c], todo[c], c \in approved')
    BY <1>0, <1>2 DEF AccessAt
  <2> QED
    BY <1>2, <2>1, AccessStay DEF Moves
<1>3. CASE Call(c).tool = "get_chat_info" /\ Run(c)
  <2> DEFINE reached == UNION {r.touches : r \in Requests(Access(c), Call(c))}
             touches == IF Live(c) THEN reached ELSE {}
  <2>1. at' = [at EXCEPT ![c] = "answering"] /\ touched' = [touched EXCEPT ![c] = touches]
    BY <1>3 DEF Run, ToAnswer
  <2>2. \A t \in touches : Declares(Access(c), t)
    BY <1>3, CallDeclared
  <2>3. todo' = [todo EXCEPT ![c] = todo[c]]
    BY DEF AccessInv
  <2>4. AccessAt(c, "answering", touches, todo[c], c \in approved')
    BY <2>2 DEF AccessAt
  <2> HIDE DEF touches
  <2> QED
    BY <2>1, <2>3, <2>4, AccessMove
<1>4. CASE Call(c).tool # "get_chat_info" /\ Run(c)
  <2>1. UNCHANGED touched
    BY <1>4 DEF Run
  <2>2. CASE Call(c).tool = "prepare_media"
    <3>1. \E s \in {"auditing", "preparing"} : Moves(c, s)
      BY <1>4, <2>2 DEF Run, Prepare, ToAudit, Moves
    <3> QED
      BY <1>1, <2>1, <3>1
  <2>3. CASE Call(c).tool # "prepare_media"
    <3>1. \E s \in {"auditing", "answering", "linking", "confining"} : Moves(c, s)
      BY <1>4, <2>3, LinkMoves DEF Run, CheckMedia, ToAudit, Moves
    <3> QED
      BY <1>1, <1>2, <2>1, <2>3, <3>1
  <2> QED
    BY <2>2, <2>3
<1>5. CASE ToAudit(c) /\ UNCHANGED touched
  BY <1>1, <1>5 DEF ToAudit, Moves
<1> QED
  BY <1>3, <1>4, <1>5 DEF Charge

LEMMA RequestAccess ==
  ASSUME OwnerInv, AccessInv, scene \in Scenes, NEW c \in Calls, NEW requests,
         Request(c, requests), requests \subseteq Requests(Access(c), Call(c)),
         at[c] \in {"linking", "requesting"}, at' = [at EXCEPT ![c] = "requesting"],
         UNCHANGED <<scene, home, context, approved>>
  PROVE  AccessInv'
<1>1. PICK r \in requests : /\ todo' = [todo EXCEPT ![c] = requests \ {r}]
                            /\ touched' = [touched EXCEPT ![c] = touched[c] \cup r.touches]
  BY DEF Request
<1>2. AccessAt(c, at[c], touched[c], todo[c], c \in approved)
  BY DEF AccessInv
<1>3. context[Ctx(c)] = "bound"
  BY DEF OwnerInv, HomeInv
<1>4. \A t \in r.touches : Declares(Access(c), t)
  BY <1>2, <1>3, CallDeclared DEF AccessAt
<1>5. AccessAt(c, "requesting", touched[c] \cup r.touches, requests \ {r}, c \in approved')
  BY <1>2, <1>4 DEF AccessAt
<1> QED
  BY <1>1, <1>5, AccessMove

LEMMA CallAccess ==
  ASSUME OwnerInv, AccessInv, scene \in Scenes, NEW c \in Calls,
         \/ Receive(c) \/ Approve(c) \/ Execute(c) \/ Decline(c) \/ Linked(c) \/ RequestEnds(c)
         \/ Prepared(c) \/ MediaConfined(c) \/ Answer(c)
  PROVE  AccessInv'
<1> USE DEF contextVars
<1>0. AccessAt(c, at[c], touched[c], todo[c], c \in approved) /\ HomeInv(c)
  BY DEF AccessInv, OwnerInv
<1>1. CASE Receive(c) \/ Answer(c) \/ Decline(c) \/ Prepared(c)
  <2>1. PICK s \in {"received", "auditing", "done"} :
          /\ at' = [at EXCEPT ![c] = s] /\ (s = "received" => at[c] = "unsent")
          /\ UNCHANGED <<scene, home, context, touched, todo, approved>>
    BY <1>1 DEF Receive, Answer, Decline, Prepared, ToAudit
  <2>2. AccessAt(c, s, touched[c], todo[c], c \in approved')
    BY <2>1, AccessEnds
  <2> QED
    BY <2>1, <2>2, AccessStay
<1>2. CASE Approve(c)
  <2>1. AclAllows(Access(c), Call(c)) /\ at[c] = "asking" /\ context[Ctx(c)] = "bound"
    BY <1>0, <1>2 DEF Approve, AccessAt, HomeInv
  <2>2. /\ Charge(c) /\ approved' = approved \cup {c}
        /\ UNCHANGED <<scene, home, context, todo>>
    BY <1>2 DEF Approve
  <2> QED
    BY <2>1, <2>2, ChargeAccess
<1>3. CASE Execute(c)
  <2>1. /\ at[c] = "waiting" /\ context[Ctx(c)] = "bound"
        /\ UNCHANGED <<scene, home, context, todo, approved>>
    BY <1>3 DEF Execute
  <2>2. CASE (ToAnswer(c) \/ ToAudit(c)) /\ UNCHANGED touched
    <3>1. PICK s \in {"answering", "auditing"} : at' = [at EXCEPT ![c] = s]
      BY <2>2 DEF ToAnswer, ToAudit
    <3> QED
      BY <2>1, <2>2, <3>1, AccessStay, AccessEnds
  <2>3. CASE /\ AclAllows(Access(c), Call(c)) /\ UNCHANGED touched
             /\ at' = [at EXCEPT ![c] = "asking"]
    <3>1. AccessAt(c, "asking", touched[c], todo[c], c \in approved')
      BY <1>0, <2>3 DEF AccessAt
    <3> QED
      BY <2>1, <2>3, <3>1, AccessStay
  <2>4. CASE /\ AclAllows(Access(c), Call(c)) /\ ~MustConfirm(Access(c), Call(c).tool)
             /\ Charge(c)
    BY <2>1, <2>4, ChargeAccess
  <2> QED
    BY <1>3, <2>2, <2>3, <2>4 DEF Execute
<1>4. CASE Linked(c)
  <2>1. at[c] = "linking" /\ UNCHANGED <<scene, home, context, approved>>
    BY <1>4 DEF Linked
  <2>2. CASE /\ at' = [at EXCEPT ![c] = "requesting"]
             /\ Request(c, Requests(Access(c), Call(c)))
    BY <2>1, <2>2, RequestAccess
  <2>3. CASE Finish(c, FALSE) /\ UNCHANGED <<todo, touched>>
    <3>1. PICK s \in {"answering", "auditing"} : Moves(c, s)
      BY <2>3, FinishMoves
    <3> QED
      BY <2>1, <2>3, <3>1, AccessStay, AccessEnds DEF Moves
  <2> QED
    BY <1>4, <2>2, <2>3 DEF Linked
<1>5. CASE RequestEnds(c)
  <2>1. at[c] = "requesting" /\ UNCHANGED <<scene, home, context, approved>>
    BY <1>5 DEF RequestEnds
  <2>2. CASE Request(c, todo[c]) /\ UNCHANGED at
    <3>1. at' = [at EXCEPT ![c] = "requesting"] /\ todo[c] \subseteq Requests(Access(c), Call(c))
      BY <1>0, <2>1, <2>2 DEF OwnerInv, CallTypes, AccessAt
    <3> QED
      BY <2>1, <2>2, <3>1, RequestAccess
  <2>3. CASE /\ Finish(c, TRUE) \/ Finish(c, FALSE)
             /\ todo' = [todo EXCEPT ![c] = {}] /\ UNCHANGED touched
    <3>1. PICK s \in {"answering", "auditing"} : Moves(c, s)
      BY <2>3, FinishMoves
    <3>2. touched' = [touched EXCEPT ![c] = touched[c]]
      BY <2>3 DEF AccessInv
    <3>3. AccessAt(c, s, touched[c], {}, c \in approved')
      BY AccessEnds
    <3> QED
      BY <2>1, <2>3, <3>1, <3>2, <3>3, AccessMove DEF Moves
  <2> QED
    BY <1>5, <2>2, <2>3 DEF RequestEnds, Complete
<1>6. CASE MediaConfined(c)
  <2>1. at[c] = "confining" /\ UNCHANGED <<scene, home, context, touched, todo, approved>>
    BY <1>6 DEF MediaConfined
  <2>2. PICK s \in {"linking", "auditing", "answering"} : Moves(c, s)
    BY <1>6, LinkMoves DEF MediaConfined, ToAudit, Moves
  <2>3. AccessAt(c, s, touched[c], todo[c], c \in approved')
    BY <1>0, <2>1 DEF AccessAt
  <2> QED
    BY <2>1, <2>2, <2>3, AccessStay DEF Moves
<1> QED
  BY <1>1, <1>2, <1>3, <1>4, <1>5, <1>6

LEMMA AccessQuiet ==
  ASSUME AccessInv, UNCHANGED <<scene, home, touched, todo, approved>>,
         \A c \in Calls : at'[c] = at[c] \/ at'[c] = "answering",
         \A x \in Contexts : context'[x] \in {"binding", "bound"} => Resolves(AccessOf(x))
  PROVE  AccessInv'
<1>1. \A x : AccessOf(x)' = AccessOf(x)
  BY DEF AccessOf
<1>2. \A c \in Calls : Call(c)' = Call(c) /\ Access(c)' = Access(c)
  BY DEF Call, Access, AccessOf, Ctx
<1>3. ASSUME NEW c \in Calls
      PROVE  AccessAt(c, at[c], touched[c], todo[c], c \in approved)'
  <2>1. AccessAt(c, at[c], touched[c], todo[c], c \in approved)
    BY DEF AccessInv
  <2> QED
    BY <1>2, <2>1 DEF AccessAt
<1>4. /\ touched' = [c \in Calls |-> touched'[c]]
      /\ todo' = [c \in Calls |-> todo'[c]]
  BY DEF AccessInv
<1>5. \A x \in Contexts : Resolves(AccessOf(x))' = Resolves(AccessOf(x))
  BY <1>1
<1> QED
  BY <1>3, <1>4, <1>5 DEF AccessInv

LEMMA AcquireAccess ==
  ASSUME OwnerInv, AccessInv, NEW c \in Calls, Acquire(c)
  PROVE  AccessInv'
<1>1. /\ at[c] = "received" /\ UNCHANGED <<scene, touched, todo, approved>>
      /\ \A d \in Calls : at'[d] = IF d = c THEN "waiting" ELSE at[d]
      /\ \A d \in Calls : d # c => home'[d] = home[d]
      /\ \A x \in Contexts : context'[x] = context[x] \/ context'[x] = "resolving"
  BY DEF Acquire, OwnerInv, CallTypes
<1>2. \A d \in Calls : Call(d)' = Call(d) /\ (d # c => Access(d)' = Access(d))
  BY <1>1 DEF Call, Access, AccessOf, Ctx
<1>3. ASSUME NEW d \in Calls
      PROVE  AccessAt(d, at[d], touched[d], todo[d], d \in approved)'
  <2>1. AccessAt(d, at[d], touched[d], todo[d], d \in approved)
    BY DEF AccessInv
  <2>2. CASE d = c
    BY <1>1, <2>1, <2>2 DEF AccessAt
  <2>3. CASE d # c
    BY <1>1, <1>2, <2>1, <2>3 DEF AccessAt
  <2> QED
    BY <2>2, <2>3
<1>4. /\ touched' = [d \in Calls |-> touched'[d]]
      /\ todo' = [d \in Calls |-> todo'[d]]
  BY <1>1 DEF AccessInv
<1>5. \A x \in Contexts : Resolves(AccessOf(x))' = Resolves(AccessOf(x))
  BY <1>1 DEF AccessOf
<1> QED
  BY <1>1, <1>3, <1>4, <1>5 DEF AccessInv

LEMMA AccessStepInv ==
  ASSUME OwnerInv, AuditInv, AccessInv, scene \in Scenes, [CallsNext]_vars
  PROVE  AccessInv'
<1> USE DEF callVars, contextVars
<1>0. \A x \in Contexts : context[x] \in {"binding", "bound"} => Resolves(AccessOf(x))
  BY DEF AccessInv
<1>1. CASE UNCHANGED vars
  BY <1>0, <1>1, AccessQuiet DEF vars
<1>2. ASSUME NEW c \in Calls, Receive(c) \/ Cancel(c) \/ Approve(c) \/ CallWorks(c)
      PROVE  AccessInv'
  <2>1. CASE Acquire(c)
    BY <2>1, AcquireAccess
  <2>2. CASE Cancel(c)
    BY <1>0, <2>2, AccessQuiet DEF Cancel
  <2>3. CASE \/ Receive(c) \/ Answer(c) \/ Execute(c) \/ Approve(c) \/ Decline(c)
             \/ Prepared(c) \/ MediaConfined(c) \/ Linked(c) \/ RequestEnds(c)
    BY <2>3, CallAccess
  <2> QED
    BY <1>2, <2>1, <2>2, <2>3 DEF CallWorks
<1>3. CASE \E e \in Endpoints : Stall(e) \/ Close(e)
  BY <1>0, <1>3, AccessQuiet DEF Stall, Close
<1>4. ASSUME NEW x \in Contexts, ContextWorks(x) \/ ReleaseSettles(x)
      PROVE  AccessInv'
  <2>1. /\ UNCHANGED <<scene, home, touched, todo, approved>>
        /\ \A c \in Calls : at'[c] = at[c] \/ at'[c] = "answering"
    BY <1>4 DEF ContextWorks, ReleaseSettles, AccessResolved, BindStarts, ClientBound, BuildFails
  <2>2. ASSUME NEW y \in Contexts, context'[y] \in {"binding", "bound"}
        PROVE  Resolves(AccessOf(y))
    <3>1. \/ context'[y] = context[y]
          \/ y = x /\ (context[x] = "binding" \/ Resolves(AccessOf(x)))
      BY <1>4, <2>2 DEF ContextWorks, ReleaseSettles, AccessResolved, BindStarts, ClientBound,
        BuildFails, OwnerInv, CallTypes
    <3> QED
      BY <1>0, <2>2, <3>1
  <2> QED
    BY <2>1, <2>2, AccessQuiet
<1>5. CASE Publish \/ Dispose \/ TeardownStep \/ Replace
  BY <1>0, <1>5, AccessQuiet DEF Publish, Dispose, TeardownStep, Replace
<1>6. CASE AskSnapshot \/ SnapshotEnds \/ ConnectionFails \/ ConnectionSettles \/ Tick
  BY <1>0, <1>6, AccessQuiet DEF AskSnapshot, SnapshotEnds, ConnectionFails, ConnectionSettles,
      RelinkSettles, OpeningSettles, Tick
<1>7. CASE Audited
  <2>1. /\ UNCHANGED <<scene, home, touched, todo, approved, context>>
        /\ \A c \in Calls : at'[c] = at[c] \/ at'[c] = "answering"
    BY <1>7 DEF Audited, OwnerInv, CallTypes
  <2> QED
    BY <1>0, <2>1, AccessQuiet
<1> QED
  BY <1>1, <1>2, <1>3, <1>4, <1>5, <1>6, <1>7 DEF CallsNext

LEMMA CallsReach == CallsSpec => [](OwnerInv /\ AuditInv /\ LimitInv /\ AccessInv)
<1>1. CallsInit => OwnerInv /\ AuditInv /\ LimitInv /\ AccessInv
  BY OwnerInvInit, AuditInvInit, LimitInvInit, AccessInvInit
<1>2. (OwnerInv /\ AuditInv /\ LimitInv /\ AccessInv) /\ [CallsNext]_vars
        => (OwnerInv /\ AuditInv /\ LimitInv /\ AccessInv)'
  BY CallsStepInv, LimitStepInv, AccessStepInv DEF LimitInv
<1> QED
  BY <1>1, <1>2, PTL DEF CallsSpec

(* Whatever policies the scene has and whenever they are replaced: a call  *)
(* touches only chats that the policy of its context declares, with verbs  *)
(* it grants there, and a write on an endpoint that asks first is made     *)
(* after a human approved it (use-case-engine.ts:142,                      *)
(* gramjs-telegram-gateway.ts:1874, 951).                                  *)
THEOREM AccessHolds == CallsSpec => []OnlyDeclaredAccess
<1>1. AccessInv => OnlyDeclaredAccess
  <2> SUFFICES ASSUME AccessInv, NEW c \in Calls
               PROVE  /\ \A t \in touched[c] : Declares(Access(c), t)
                      /\ at[c] = "requesting" /\ Call(c).tool \in Writes /\ Access(c).confirm
                           => c \in approved
    BY DEF OnlyDeclaredAccess, Declares
  <2>1. AccessAt(c, at[c], touched[c], todo[c], c \in approved)
    BY DEF AccessInv
  <2> QED
    BY <2>1 DEF AccessAt, MustConfirm
<1> QED
  BY <1>1, CallsReach, PTL

-----------------------------------------------------------------------------
(* The limiter.                                                            *)

Limiters == [tokens : [Buckets -> Nat], refilled : [Buckets -> Nat], strikes : Seq(Nat),
             openUntil : Nat]

(* Strikes in the order of the clock.                                      *)
InOrder(strikes, t) ==
  /\ \A i \in DOMAIN strikes : strikes[i] <= t
  /\ \A i, j \in DOMAIN strikes : i <= j => strikes[i] <= strikes[j]

LEMMA PrefixIsInterval ==
  ASSUME NEW n \in Nat, NEW S \in SUBSET (1..n), \A i \in S, j \in 1..n : j <= i => j \in S
  PROVE  IsFiniteSet(S) /\ Cardinality(S) \in 0..n /\ S = 1..Cardinality(S)
<1>1. CASE S = {}
  BY <1>1, FS_EmptySet
<1>2. CASE S # {}
  <2>1. PICK m \in S : \A j \in S : j <= m
    <3>1. S \subseteq 0..n
      OBVIOUS
    <3> QED
      BY <1>2, <3>1, GreatestNatural
  <2>2. m \in 1..n /\ \A j \in S : j \in 1..n /\ j <= m
    BY <2>1
  <2>4. \A j \in 1..m : j \in 1..n /\ j <= m
    BY <2>2
  <2>5. \A j \in 1..m : j \in S
    BY <2>1, <2>4
  <2>6. \A j \in S : j \in 1..m
    BY <2>2
  <2>7. S = 1..m
    BY <2>5, <2>6
  <2>3. IsFiniteSet(1..m) /\ Cardinality(1..m) = m
    BY <2>2, FS_Interval
  <2> QED
    BY <2>2, <2>3, <2>7
<1> QED
  BY <1>1, <1>2

(* AddStrike keeps the recent strikes, which are the last ones.            *)
LEMMA OldStrikesFirst ==
  ASSUME NEW strikes \in Seq(Nat), NEW t \in Nat, InOrder(strikes, t)
  PROVE  /\ Cardinality(OldStrikes(strikes, t)) \in 0..Len(strikes)
         /\ OldStrikes(strikes, t) = 1..Cardinality(OldStrikes(strikes, t))
<1>1. Len(strikes) \in Nat /\ DOMAIN strikes = 1..Len(strikes) /\ StrikeWindow \in Nat
  BY LimiterAssumption
<1>2. OldStrikes(strikes, t) \in SUBSET (1..Len(strikes))
  BY <1>1 DEF OldStrikes
<1>3. ASSUME NEW i \in OldStrikes(strikes, t), NEW j \in 1..Len(strikes), j <= i
      PROVE  j \in OldStrikes(strikes, t)
  <2>1. strikes[i] + StrikeWindow <= t /\ i \in DOMAIN strikes /\ j \in DOMAIN strikes
    BY <1>1 DEF OldStrikes
  <2>2. strikes[j] <= strikes[i] /\ strikes[j] \in Nat /\ strikes[i] \in Nat
    BY <1>3, <2>1 DEF InOrder
  <2>3. strikes[j] + StrikeWindow <= t
    BY <1>1, <2>1, <2>2
  <2> QED
    BY <2>1, <2>3 DEF OldStrikes
<1> QED
  BY <1>1, <1>2, <1>3, PrefixIsInterval

(* A sequence without its first elements and with one more.               *)
DropAndAdd(s, d, t) == Append(SubSeq(s, d + 1, Len(s)), t)

LEMMA DropAndAddAt ==
  ASSUME NEW s \in Seq(Nat), NEW d \in Nat, NEW t \in Nat, d <= Len(s)
  PROVE  /\ DropAndAdd(s, d, t) \in Seq(Nat)
         /\ Len(DropAndAdd(s, d, t)) = Len(s) - d + 1
         /\ \A i \in 1..Len(s) - d + 1 :
              DropAndAdd(s, d, t)[i] = IF i = Len(s) - d + 1 THEN t ELSE s[i + d]
<1> DEFINE n == Len(s)
           after == DropAndAdd(s, d, t)
<1>10. n \in Nat /\ d <= n /\ DOMAIN s = 1..n
  OBVIOUS
<1>11. after = Append(SubSeq(s, d + 1, n), t)
  BY DEF DropAndAdd
<1> HIDE DEF n, after
<1> DEFINE kept == SubSeq(s, d + 1, n)
<1>3. kept \in Seq(Nat) /\ Len(kept) = n - d /\ \A i \in 1..n - d : kept[i] = s[i + d]
  BY <1>10
<1> HIDE DEF kept
<1>6. /\ Append(kept, t) \in Seq(Nat) /\ Len(Append(kept, t)) = Len(kept) + 1
      /\ \A i \in 1..Len(kept) : Append(kept, t)[i] = kept[i]
      /\ Append(kept, t)[Len(kept) + 1] = t
  BY <1>3, AppendProperties
<1>7. after = Append(kept, t)
  BY <1>11 DEF kept
<1>8. ASSUME NEW i \in 1..n - d + 1
      PROVE  after[i] = IF i = n - d + 1 THEN t ELSE s[i + d]
  <2>1. CASE i = n - d + 1
    BY <1>3, <1>6, <1>7, <2>1
  <2>2. CASE i # n - d + 1
    <3>1. i \in 1..n - d
      BY <1>10, <2>2
    <3> QED
      BY <1>3, <1>6, <1>7, <2>2, <3>1
  <2> QED
    BY <2>1, <2>2
<1> QED
  BY <1>3, <1>6, <1>7, <1>8 DEF n, after

LEMMA StruckAt ==
  ASSUME NEW strikes \in Seq(Nat), NEW t \in Nat, InOrder(strikes, t),
         NEW d \in 0..Len(strikes), OldStrikes(strikes, t) = 1..d
  PROVE  /\ DropAndAdd(strikes, d, t) \in Seq(Nat)
         /\ Len(DropAndAdd(strikes, d, t)) = Len(strikes) - d + 1
         /\ \A i \in 1..Len(strikes) - d + 1 :
              DropAndAdd(strikes, d, t)[i] = IF i = Len(strikes) - d + 1 THEN t ELSE strikes[i + d]
         /\ \A i \in DOMAIN strikes : i <= d => strikes[i] + StrikeWindow <= t
         /\ InOrder(DropAndAdd(strikes, d, t), t)
<1> DEFINE n == Len(strikes)
           after == DropAndAdd(strikes, d, t)
<1>2. n \in Nat /\ DOMAIN strikes = 1..n
  OBVIOUS
<1>12. d \in Nat /\ d <= n /\ n - d \in Nat
  BY <1>2
<1>5. /\ after \in Seq(Nat) /\ Len(after) = n - d + 1
      /\ \A i \in 1..n - d + 1 : after[i] = IF i = n - d + 1 THEN t ELSE strikes[i + d]
  BY <1>12, DropAndAddAt
<1> HIDE DEF n, after
<1>3. \A i \in DOMAIN strikes : i <= d => strikes[i] + StrikeWindow <= t
  <2>1. ASSUME NEW i \in DOMAIN strikes, i <= d
        PROVE  strikes[i] + StrikeWindow <= t
    <3>1. i \in 1..d
      BY <1>2, <1>12, <2>1
    <3> QED
      BY <3>1 DEF OldStrikes
  <2> QED
    BY <2>1
<1>6. DOMAIN after = 1..n - d + 1
  BY <1>5
<1>7. \A i \in 1..n - d : i + d \in DOMAIN strikes
  BY <1>12, <1>2
<1>8. \A i \in DOMAIN after : i = n - d + 1 \/ i \in 1..n - d
  BY <1>12, <1>2, <1>6
<1>9. \A i \in DOMAIN strikes : strikes[i] \in Nat /\ strikes[i] <= t
  BY <1>2 DEF InOrder
<1>10. \A i \in DOMAIN after : after[i] <= t
  <2>1. ASSUME NEW i \in DOMAIN after
        PROVE  after[i] <= t
    <3>1. CASE i = n - d + 1
      BY <1>5, <1>6, <3>1
    <3>2. CASE i # n - d + 1
      <4>1. after[i] = strikes[i + d]
        BY <1>5, <1>6, <3>2
      <4>2. i + d \in DOMAIN strikes
        BY <1>7, <1>8, <3>2
      <4> QED
        BY <1>9, <4>1, <4>2
    <3> QED
      BY <3>1, <3>2
  <2> QED
    BY <2>1
<1>11. ASSUME NEW i \in DOMAIN after, NEW j \in DOMAIN after, i <= j
       PROVE  after[i] <= after[j]
  <2>1. CASE j = n - d + 1
    BY <1>5, <1>6, <1>10, <2>1
  <2>2. CASE j # n - d + 1
    <3>1. i # n - d + 1 /\ i \in Nat /\ j \in Nat
      BY <1>2, <1>6, <1>8, <1>11, <2>2
    <3>2. after[i] = strikes[i + d] /\ after[j] = strikes[j + d]
      BY <1>5, <1>6, <2>2, <3>1
    <3>3. i + d \in DOMAIN strikes /\ j + d \in DOMAIN strikes /\ i + d <= j + d
      BY <1>7, <1>8, <1>11, <2>2, <3>1
    <3> QED
      BY <3>2, <3>3 DEF InOrder
  <2> QED
    BY <2>1, <2>2
<1> QED
  BY <1>3, <1>5, <1>10, <1>11 DEF InOrder, n, after

LEMMA RefillAt ==
  ASSUME NEW l \in Limiters, NEW b \in Buckets, NEW t \in Nat, l.refilled[b] <= t
  PROVE  LET f == Refill(l, b, t) IN
         /\ f \in Limiters
         /\ f.refilled[b] = t
         /\ f.tokens[b] <= l.tokens[b] + (t - l.refilled[b]) * Capacity[b]
         /\ f.tokens[b] <= Capacity[b] * Minute
         /\ \A a \in Buckets \ {b} : f.tokens[a] = l.tokens[a] /\ f.refilled[a] = l.refilled[a]
         /\ f.strikes = l.strikes /\ f.openUntil = l.openUntil
<1> DEFINE full == Capacity[b] * Minute
           more == l.tokens[b] + (t - l.refilled[b]) * Capacity[b]
           v == IF more < full THEN more ELSE full
<1>1. /\ Capacity[b] \in Nat /\ Minute \in Nat /\ l.tokens[b] \in Nat /\ l.refilled[b] \in Nat
      /\ l.tokens \in [Buckets -> Nat] /\ l.refilled \in [Buckets -> Nat]
  BY LimiterAssumption DEF Limiters
<1>2. full \in Nat /\ more \in Nat
  <2>1. t - l.refilled[b] \in Nat
    BY <1>1
  <2>2. (t - l.refilled[b]) * Capacity[b] \in Nat
    BY <1>1, <2>1
  <2> QED
    BY <1>1, <2>2
<1>3. v \in Nat /\ v <= more /\ v <= full
  BY <1>2
<1> HIDE DEF v
<1>4. Refill(l, b, t) = [l EXCEPT !.tokens[b] = v, !.refilled[b] = t]
  BY DEF Refill, v
<1> HIDE DEF full, more
<1>5. /\ [l.tokens EXCEPT ![b] = v] \in [Buckets -> Nat]
      /\ [l.refilled EXCEPT ![b] = t] \in [Buckets -> Nat]
  BY <1>1, <1>3
<1>6. Refill(l, b, t) = [tokens |-> [l.tokens EXCEPT ![b] = v],
                         refilled |-> [l.refilled EXCEPT ![b] = t],
                         strikes |-> l.strikes, openUntil |-> l.openUntil]
  BY <1>4 DEF Limiters
<1> QED
  BY <1>1, <1>3, <1>5, <1>6 DEF Limiters, full, more

(* The breaker after a refusal of which long says whether it is a strike.  *)
BreakerStep(l, v, t) ==
  \/ /\ Frozen(l, t)
     /\ v.limiter = l /\ ~v.granted /\ ~v.long
  \/ /\ ~Frozen(l, t) /\ ~v.long
     /\ v.limiter.openUntil = 0
     /\ v.limiter.strikes = l.strikes
  \/ /\ ~Frozen(l, t) /\ v.long /\ ~v.granted
     /\ \E d \in 0..Len(l.strikes) :
          /\ OldStrikes(l.strikes, t) = 1..d
          /\ IF Len(DropAndAdd(l.strikes, d, t)) >= Threshold
               THEN v.limiter.openUntil = t + Cooldown /\ v.limiter.strikes = <<>>
               ELSE /\ v.limiter.openUntil = 0
                    /\ v.limiter.strikes = DropAndAdd(l.strikes, d, t)

(* What a decision costs a bucket, and what has been refilled before it.   *)
BucketStep(l, v, b, units, t) ==
  /\ \A a \in Buckets \ {b} : /\ v.limiter.tokens[a] = l.tokens[a]
                              /\ v.limiter.refilled[a] = l.refilled[a]
  /\ \/ /\ ~v.granted
        /\ v.limiter.tokens[b] = l.tokens[b] /\ v.limiter.refilled[b] = l.refilled[b]
     \/ /\ v.limiter.refilled[b] = t
        /\ \E p \in Nat :
             /\ p = IF v.granted THEN units ELSE 0
             /\ v.limiter.tokens[b] + p * Minute
                  <= l.tokens[b] + (t - l.refilled[b]) * Capacity[b]
             /\ v.limiter.tokens[b] + p * Minute <= Capacity[b] * Minute

SoundLimiter(l, t) ==
  /\ l \in Limiters
  /\ \A b \in Buckets : l.refilled[b] <= t
  /\ InOrder(l.strikes, t)
  /\ l.openUntil > 0 => l.strikes = <<>>

LEMMA AddStrikeAt ==
  ASSUME NEW l \in Limiters, NEW t \in Nat, InOrder(l.strikes, t), l.openUntil = 0
  PROVE  /\ AddStrike(l, t) \in Limiters
         /\ AddStrike(l, t).tokens = l.tokens /\ AddStrike(l, t).refilled = l.refilled
         /\ \E d \in 0..Len(l.strikes) :
              /\ OldStrikes(l.strikes, t) = 1..d
              /\ IF Len(DropAndAdd(l.strikes, d, t)) >= Threshold
                   THEN AddStrike(l, t).openUntil = t + Cooldown /\ AddStrike(l, t).strikes = <<>>
                   ELSE /\ AddStrike(l, t).openUntil = 0
                        /\ AddStrike(l, t).strikes = DropAndAdd(l.strikes, d, t)
<1> DEFINE d == Cardinality(OldStrikes(l.strikes, t))
           after == DropAndAdd(l.strikes, d, t)
<1>1. l.strikes \in Seq(Nat) /\ Cooldown \in Nat
  BY LimiterAssumption DEF Limiters
<1>2. d \in 0..Len(l.strikes) /\ OldStrikes(l.strikes, t) = 1..d
  BY <1>1, OldStrikesFirst
<1>3. AddStrike(l, t) = IF Len(after) >= Threshold
                          THEN [l EXCEPT !.openUntil = t + Cooldown, !.strikes = <<>>]
                          ELSE [l EXCEPT !.strikes = after]
  BY DEF AddStrike, DropAndAdd
<1> HIDE DEF d
<1>4. after \in Seq(Nat)
  BY <1>1, <1>2, StruckAt
<1> HIDE DEF after
<1>5. CASE Len(after) >= Threshold
  <2>1. AddStrike(l, t) = [tokens |-> l.tokens, refilled |-> l.refilled, strikes |-> <<>>,
                           openUntil |-> t + Cooldown]
    BY <1>3, <1>5 DEF Limiters
  <2>2. t + Cooldown \in Nat /\ <<>> \in Seq(Nat)
    BY <1>1
  <2>3. AddStrike(l, t) \in Limiters
    BY <2>1, <2>2 DEF Limiters
  <2>4. Len(DropAndAdd(l.strikes, d, t)) >= Threshold
    BY <1>5 DEF after
  <2> QED
    BY <1>2, <2>1, <2>3, <2>4
<1>6. CASE ~(Len(after) >= Threshold)
  <2>1. AddStrike(l, t) = [tokens |-> l.tokens, refilled |-> l.refilled, strikes |-> after,
                           openUntil |-> l.openUntil]
    BY <1>3, <1>6 DEF Limiters
  <2>2. AddStrike(l, t) \in Limiters
    BY <1>4, <2>1 DEF Limiters
  <2>3. ~(Len(DropAndAdd(l.strikes, d, t)) >= Threshold)
    BY <1>6 DEF after
  <2> QED
    BY <1>2, <2>1, <2>2, <2>3 DEF after
<1> QED
  BY <1>5, <1>6

LEMMA HalfOpenedAt ==
  ASSUME NEW l, NEW t \in Nat, SoundLimiter(l, t)
  PROVE  /\ HalfOpened(l) \in Limiters
         /\ HalfOpened(l).tokens = l.tokens /\ HalfOpened(l).refilled = l.refilled
         /\ HalfOpened(l).strikes = l.strikes
         /\ HalfOpened(l).openUntil = 0
<1>1. l \in Limiters /\ l.openUntil \in Nat
  BY DEF SoundLimiter, Limiters
<1>2. CASE l.openUntil > 0
  <2>1. HalfOpened(l) = [tokens |-> l.tokens, refilled |-> l.refilled, strikes |-> <<>>,
                         openUntil |-> 0]
    BY <1>1, <1>2 DEF HalfOpened, Limiters
  <2>2. l.strikes = <<>>
    BY <1>2 DEF SoundLimiter
  <2>3. <<>> \in Seq(Nat)
    OBVIOUS
  <2> QED
    BY <1>1, <2>1, <2>2, <2>3 DEF Limiters
<1>3. CASE ~(l.openUntil > 0)
  BY <1>1, <1>3 DEF HalfOpened
<1> QED
  BY <1>2, <1>3

LEMMA TokensAt ==
  ASSUME NEW l \in Limiters, NEW b \in Buckets, NEW left \in Nat,
         NEW after, after = [l EXCEPT !.tokens[b] = left]
  PROVE  after = [tokens |-> [l.tokens EXCEPT ![b] = left], refilled |-> l.refilled,
                  strikes |-> l.strikes, openUntil |-> l.openUntil]
BY DEF Limiters

LEMMA ReserveAt ==
  ASSUME NEW l, NEW t \in Nat, SoundLimiter(l, t), NEW b \in Buckets, NEW units \in Nat,
         \A a \in Buckets : l.tokens[a] <= Capacity[a] * Minute
  PROVE  LET v == Reserve(l, b, units, t) IN
         /\ v.limiter \in Limiters /\ v.granted \in BOOLEAN /\ v.long \in BOOLEAN
         /\ BreakerStep(l, v, t)
         /\ BucketStep(l, v, b, units, t)
<1> DEFINE closed == HalfOpened(l)
           filled == Refill(closed, b, t)
           long == BackOff(filled, b, units) >= LongWait
           v == Reserve(l, b, units, t)
<1>1. /\ closed \in Limiters /\ closed.tokens = l.tokens /\ closed.refilled = l.refilled
      /\ closed.strikes = l.strikes /\ closed.openUntil = 0
  BY HalfOpenedAt
<1>2. v = IF Frozen(l, t)
            THEN [granted |-> FALSE, long |-> FALSE, limiter |-> l]
          ELSE IF units > Capacity[b]
            THEN [granted |-> FALSE, long |-> FALSE, limiter |-> closed]
          ELSE IF filled.tokens[b] >= units * Minute
            THEN [granted |-> TRUE, long |-> FALSE,
                  limiter |-> [filled EXCEPT !.tokens[b] = @ - units * Minute]]
          ELSE [granted |-> FALSE, long |-> long,
                limiter |-> IF long THEN AddStrike(filled, t) ELSE filled]
  BY DEF Reserve
<1> HIDE DEF closed
<1>3. /\ filled \in Limiters /\ filled.refilled[b] = t
      /\ filled.tokens[b] <= l.tokens[b] + (t - l.refilled[b]) * Capacity[b]
      /\ filled.tokens[b] <= Capacity[b] * Minute
      /\ \A a \in Buckets \ {b} : filled.tokens[a] = l.tokens[a] /\ filled.refilled[a] = l.refilled[a]
      /\ filled.strikes = l.strikes /\ filled.openUntil = 0
  <2>1. closed.refilled[b] <= t
    BY <1>1 DEF SoundLimiter
  <2>2. /\ filled \in Limiters
        /\ filled.refilled[b] = t
        /\ filled.tokens[b] <= closed.tokens[b] + (t - closed.refilled[b]) * Capacity[b]
        /\ filled.tokens[b] <= Capacity[b] * Minute
        /\ \A a \in Buckets \ {b} : filled.tokens[a] = closed.tokens[a]
                                    /\ filled.refilled[a] = closed.refilled[a]
        /\ filled.strikes = closed.strikes /\ filled.openUntil = closed.openUntil
    BY <1>1, <2>1, RefillAt
  <2> QED
    BY <1>1, <2>2
<1> HIDE DEF filled, long, v
<1>4. l \in Limiters /\ InOrder(l.strikes, t) /\ l.tokens[b] \in Nat /\ Minute \in Nat
  BY LimiterAssumption DEF SoundLimiter, Limiters
<1>5. CASE Frozen(l, t)
  <2>1. v = [granted |-> FALSE, long |-> FALSE, limiter |-> l]
    BY <1>2, <1>5
  <2>2. v.limiter = l /\ v.granted = FALSE /\ v.long = FALSE
    BY <2>1
  <2> QED
    BY <1>4, <1>5, <2>2 DEF BreakerStep, BucketStep, v
<1>6. CASE ~Frozen(l, t) /\ units > Capacity[b]
  <2>1. v = [granted |-> FALSE, long |-> FALSE, limiter |-> closed]
    BY <1>2, <1>6
  <2>2. v.limiter = closed /\ v.granted = FALSE /\ v.long = FALSE
    BY <2>1
  <2> QED
    BY <1>1, <1>6, <2>2 DEF BreakerStep, BucketStep, v
<1>7. CASE ~Frozen(l, t) /\ ~(units > Capacity[b]) /\ filled.tokens[b] >= units * Minute
  <2> DEFINE left == filled.tokens[b] - units * Minute
  <2>1. v = [granted |-> TRUE, long |-> FALSE, limiter |-> [filled EXCEPT !.tokens[b] = left]]
    BY <1>2, <1>7
  <2>2. /\ filled.tokens \in [Buckets -> Nat] /\ filled.refilled \in [Buckets -> Nat]
        /\ filled.strikes \in Seq(Nat) /\ filled.openUntil \in Nat /\ filled.tokens[b] \in Nat
    BY <1>3 DEF Limiters
  <2>3. units * Minute \in Nat
    BY <1>4
  <2>4. left \in Nat /\ left + units * Minute = filled.tokens[b]
    BY <1>7, <2>2, <2>3
  <2> HIDE DEF left
  <2>6. v.limiter = [tokens |-> [filled.tokens EXCEPT ![b] = left], refilled |-> filled.refilled,
                     strikes |-> filled.strikes, openUntil |-> filled.openUntil]
        /\ v.granted = TRUE /\ v.long = FALSE
    <3>1. /\ v.limiter = [filled EXCEPT !.tokens[b] = left]
          /\ v.granted = TRUE /\ v.long = FALSE
      BY <2>1
    <3> QED
      BY <1>3, <2>4, <3>1, TokensAt
  <2>7. [filled.tokens EXCEPT ![b] = left] \in [Buckets -> Nat]
    BY <2>2, <2>4
  <2>8. v.limiter \in Limiters
    BY <2>2, <2>6, <2>7 DEF Limiters
  <2>9. BreakerStep(l, v, t)
    BY <1>3, <1>7, <2>6 DEF BreakerStep
  <2>10. /\ v.limiter.refilled = filled.refilled /\ v.limiter.tokens[b] = left
         /\ \A a \in Buckets \ {b} : v.limiter.tokens[a] = filled.tokens[a]
    BY <2>2, <2>6
  <2>11. BucketStep(l, v, b, units, t)
    BY <1>3, <2>4, <2>6, <2>10 DEF BucketStep
  <2> QED
    BY <2>6, <2>8, <2>9, <2>11 DEF v
<1>8. CASE ~Frozen(l, t) /\ ~(units > Capacity[b]) /\ ~(filled.tokens[b] >= units * Minute)
  <2>1. v = [granted |-> FALSE, long |-> long,
             limiter |-> IF long THEN AddStrike(filled, t) ELSE filled]
    BY <1>2, <1>8
  <2>2. /\ v.granted = FALSE /\ v.long = long
        /\ v.limiter = IF long THEN AddStrike(filled, t) ELSE filled
    BY <2>1
  <2>3. long \in BOOLEAN
    BY DEF long
  <2>4. /\ filled.tokens \in [Buckets -> Nat] /\ filled.refilled \in [Buckets -> Nat]
        /\ filled.tokens[b] \in Nat
    BY <1>3 DEF Limiters
  <2>5. ASSUME v.limiter.tokens = filled.tokens, v.limiter.refilled = filled.refilled
        PROVE  BucketStep(l, v, b, units, t)
    <3>1. 0 \in Nat /\ filled.tokens[b] + 0 * Minute = filled.tokens[b]
      BY <1>4, <2>4
    <3> QED
      BY <1>3, <2>2, <2>5, <3>1 DEF BucketStep
  <2>6. CASE long
    <3>1. v.limiter = AddStrike(filled, t) /\ v.long
      BY <2>2, <2>6
    <3>2. InOrder(filled.strikes, t) /\ filled.openUntil = 0
      BY <1>3, <1>4
    <3>3. /\ v.limiter \in Limiters
          /\ v.limiter.tokens = filled.tokens /\ v.limiter.refilled = filled.refilled
          /\ \E d \in 0..Len(filled.strikes) :
               /\ OldStrikes(filled.strikes, t) = 1..d
               /\ IF Len(DropAndAdd(filled.strikes, d, t)) >= Threshold
                    THEN v.limiter.openUntil = t + Cooldown /\ v.limiter.strikes = <<>>
                    ELSE /\ v.limiter.openUntil = 0
                         /\ v.limiter.strikes = DropAndAdd(filled.strikes, d, t)
      BY <1>3, <3>1, <3>2, AddStrikeAt
    <3>4. BreakerStep(l, v, t)
      BY <1>3, <1>8, <2>2, <3>1, <3>3 DEF BreakerStep
    <3> QED
      BY <2>2, <2>3, <2>5, <3>3, <3>4 DEF v
  <2>7. CASE ~long
    <3>1. v.limiter = filled /\ ~v.long
      BY <2>2, <2>7
    <3>2. BreakerStep(l, v, t)
      BY <1>3, <1>8, <3>1 DEF BreakerStep
    <3> QED
      BY <1>3, <2>2, <2>3, <2>5, <3>1, <3>2 DEF v
  <2> QED
    BY <2>6, <2>7
<1> QED
  BY <1>5, <1>6, <1>7, <1>8

-----------------------------------------------------------------------------
(* The ledger and the buckets.                                             *)

Entries == [call : Calls, bucket : Buckets, units : Nat, at : Nat, granted : BOOLEAN,
            long : BOOLEAN, spent : Nat]

(* From the grant e on, no more was spent from its bucket than a full      *)
(* burst and the refills since, less what is left.                         *)
Backed(e, b, l, s) ==
  e.granted /\ e.bucket = b =>
    /\ e.at <= l.refilled[b] /\ e.spent <= s[b]
    /\ (s[b] - e.spent + e.units) * Minute + l.tokens[b]
         <= Capacity[b] * (Minute + l.refilled[b] - e.at)

(* The same between two grants.                                            *)
Apart(e, f) ==
  e.granted /\ f.granted /\ e.bucket = f.bucket =>
    (f.spent - e.spent + e.units) * Minute <= Capacity[e.bucket] * (Minute + f.at - e.at)

BucketInv ==
  /\ now \in Nat /\ spent \in [Buckets -> Nat] /\ ledger \in Seq(Entries)
  /\ SoundLimiter(limiter, now)
  /\ \A b \in Buckets : limiter.tokens[b] <= Capacity[b] * Minute
  /\ \A i \in DOMAIN ledger : ledger[i].at <= now
  /\ \A i \in DOMAIN ledger : \A b \in Buckets : Backed(ledger[i], b, limiter, spent)
  /\ \A i, j \in DOMAIN ledger : i <= j => Apart(ledger[i], ledger[j])

LEMMA SpendMore ==
  ASSUME NEW x \in Nat, NEW p \in Nat, NEW minute \in Nat, NEW cap \in Nat,
         NEW left \in Nat, NEW left2 \in Nat, NEW r \in Nat, NEW r2 \in Nat, NEW a \in Nat,
         a <= r, r <= r2,
         x * minute + left <= cap * (minute + r - a),
         left2 + p * minute <= left + (r2 - r) * cap
  PROVE  (x + p) * minute + left2 <= cap * (minute + r2 - a)
<1> DEFINE y == x * minute
           q == p * minute
           g == (r2 - r) * cap
           w == cap * (minute + r - a)
<1>1. y \in Nat /\ q \in Nat
  OBVIOUS
<1>2. r2 - r \in Nat /\ minute + r - a \in Nat
  OBVIOUS
<1>3. g \in Nat /\ w \in Nat
  BY <1>2
<1>4. (x + p) * minute = y + q
  OBVIOUS
<1>5. cap * (minute + r2 - a) = w + g
  <2>1. minute + r2 - a = (minute + r - a) + (r2 - r)
    OBVIOUS
  <2>2. \A u, z \in Nat : cap * (u + z) = cap * u + z * cap
    OBVIOUS
  <2>3. cap * ((minute + r - a) + (r2 - r)) = w + g
    BY <1>2, <2>2
  <2> QED
    BY <2>1, <2>3
<1>6. y + left <= w /\ left2 + q <= left + g
  OBVIOUS
<1> HIDE DEF y, q, g, w
<1>7. (y + q) + left2 <= w + g
  BY <1>1, <1>3, <1>6
<1> QED
  BY <1>4, <1>5, <1>7

(* A decision's units are spent once it is a grant.                        *)
SpentStep(s, s2, v, b, units) ==
  /\ s2[b] = IF v.granted THEN s[b] + units ELSE s[b]
  /\ \A x \in Buckets \ {b} : s2[x] = s[x]

(* A decision on any bucket leaves every earlier grant backed.             *)
LEMMA BackedStep ==
  ASSUME NEW l \in Limiters, NEW s \in [Buckets -> Nat], NEW e \in Entries, NEW t \in Nat,
         NEW v, v.limiter \in Limiters, v.granted \in BOOLEAN,
         NEW b \in Buckets, NEW units \in Nat, l.refilled[b] <= t,
         BucketStep(l, v, b, units, t),
         NEW s2, SpentStep(s, s2, v, b, units),
         NEW a \in Buckets, Backed(e, a, l, s)
  PROVE  Backed(e, a, v.limiter, s2)
<1>1. /\ s[a] \in Nat /\ l.tokens[a] \in Nat /\ l.refilled[a] \in Nat
      /\ v.limiter.tokens[a] \in Nat /\ v.limiter.refilled[a] \in Nat
      /\ Capacity[a] \in Nat /\ Minute \in Nat
  BY LimiterAssumption DEF Limiters
<1>2. e.at \in Nat /\ e.spent \in Nat /\ e.units \in Nat
  BY DEF Entries
<1>3. /\ s2[b] = IF v.granted THEN s[b] + units ELSE s[b]
      /\ \A x \in Buckets \ {b} : s2[x] = s[x]
  BY DEF SpentStep
<1>4. SUFFICES ASSUME e.granted, e.bucket = a
               PROVE  /\ e.at <= v.limiter.refilled[a] /\ e.spent <= s2[a]
                      /\ (s2[a] - e.spent + e.units) * Minute + v.limiter.tokens[a]
                           <= Capacity[a] * (Minute + v.limiter.refilled[a] - e.at)
  BY DEF Backed
<1>5. /\ e.at <= l.refilled[a] /\ e.spent <= s[a]
      /\ (s[a] - e.spent + e.units) * Minute + l.tokens[a]
           <= Capacity[a] * (Minute + l.refilled[a] - e.at)
  BY <1>4 DEF Backed
<1>6. CASE /\ v.limiter.tokens[a] = l.tokens[a] /\ v.limiter.refilled[a] = l.refilled[a]
           /\ s2[a] = s[a]
  BY <1>5, <1>6
<1>7. CASE a # b
  BY <1>3, <1>6, <1>7 DEF BucketStep
<1>8. CASE a = b /\ ~v.granted /\ v.limiter.tokens[b] = l.tokens[b]
           /\ v.limiter.refilled[b] = l.refilled[b]
  BY <1>3, <1>6, <1>8
<1>9. ASSUME a = b, v.limiter.refilled[b] = t,
             NEW p \in Nat, p = IF v.granted THEN units ELSE 0,
             v.limiter.tokens[b] + p * Minute <= l.tokens[b] + (t - l.refilled[b]) * Capacity[b]
      PROVE  /\ e.at <= v.limiter.refilled[a] /\ e.spent <= s2[a]
             /\ (s2[a] - e.spent + e.units) * Minute + v.limiter.tokens[a]
                  <= Capacity[a] * (Minute + v.limiter.refilled[a] - e.at)
  <2> DEFINE x == s[a] - e.spent + e.units
  <2>1. x \in Nat
    BY <1>1, <1>2, <1>5
  <2>2. s2[a] = s[a] + p
    BY <1>1, <1>3, <1>9
  <2>3. s2[a] - e.spent + e.units = x + p
    BY <1>1, <1>2, <2>2
  <2>4. x * Minute + l.tokens[a] <= Capacity[a] * (Minute + l.refilled[a] - e.at)
    BY <1>5
  <2>5. v.limiter.tokens[a] + p * Minute <= l.tokens[a] + (t - l.refilled[a]) * Capacity[a]
    BY <1>9
  <2>6. e.at <= l.refilled[a] /\ l.refilled[a] <= t
    BY <1>5, <1>9
  <2> HIDE DEF x
  <2>7. (x + p) * Minute + v.limiter.tokens[a] <= Capacity[a] * (Minute + t - e.at)
    BY <1>1, <1>2, <2>1, <2>4, <2>5, <2>6, SpendMore
  <2>8. e.at <= t /\ e.spent <= s2[a]
    BY <1>1, <1>2, <1>5, <2>2, <2>6
  <2> QED
    BY <1>9, <2>3, <2>7, <2>8
<1> QED
  BY <1>7, <1>8, <1>9 DEF BucketStep

(* A new grant is backed.                                                  *)
LEMMA NewBacked ==
  ASSUME NEW l \in Limiters, NEW s \in [Buckets -> Nat], NEW e \in Entries, NEW t \in Nat,
         NEW v, v.limiter \in Limiters, v.granted \in BOOLEAN,
         NEW b \in Buckets, NEW units \in Nat,
         BucketStep(l, v, b, units, t),
         e.granted = v.granted, e.bucket = b, e.at = t, e.units = units, e.spent = s[b],
         NEW a \in Buckets
  PROVE  Backed(e, a, v.limiter, s)
<1>1. /\ v.limiter.tokens[b] \in Nat /\ Capacity[b] \in Nat /\ Minute \in Nat /\ s[b] \in Nat
  BY LimiterAssumption DEF Limiters
<1>2. SUFFICES ASSUME e.granted, a = b
               PROVE  /\ e.at <= v.limiter.refilled[b] /\ e.spent <= s[b]
                      /\ (s[b] - e.spent + e.units) * Minute + v.limiter.tokens[b]
                           <= Capacity[b] * (Minute + v.limiter.refilled[b] - e.at)
  BY DEF Backed
<1>3. v.limiter.refilled[b] = t /\ v.limiter.tokens[b] + units * Minute <= Capacity[b] * Minute
  BY <1>2 DEF BucketStep
<1>4. s[b] - e.spent + e.units = units /\ Minute + v.limiter.refilled[b] - e.at = Minute
  BY <1>1, <1>3
<1>5. units * Minute \in Nat
  BY <1>1
<1>6. units * Minute + v.limiter.tokens[b] <= Capacity[b] * Minute
  <2> DEFINE q == units * Minute
             w == Capacity[b] * Minute
  <2>1. w \in Nat
    BY <1>1
  <2>2. v.limiter.tokens[b] + q <= w
    BY <1>3
  <2> HIDE DEF q, w
  <2>3. q + v.limiter.tokens[b] <= w
    BY <1>1, <1>5, <2>1, <2>2 DEF q
  <2> QED
    BY <2>3 DEF q, w
<1> QED
  BY <1>1, <1>3, <1>4, <1>6

LEMMA BackedApart ==
  ASSUME NEW l \in Limiters, NEW s \in [Buckets -> Nat], NEW e \in Entries, NEW f \in Entries,
         Backed(e, f.bucket, l, s), f.granted => f.at = l.refilled[f.bucket],
         f.spent = s[f.bucket]
  PROVE  Apart(e, f)
<1>1. SUFFICES ASSUME e.granted, f.granted, e.bucket = f.bucket
               PROVE  (f.spent - e.spent + e.units) * Minute
                        <= Capacity[e.bucket] * (Minute + f.at - e.at)
  BY DEF Apart
<1> DEFINE b == f.bucket
<1>2. /\ e.at <= l.refilled[b] /\ e.spent <= s[b]
      /\ (s[b] - e.spent + e.units) * Minute + l.tokens[b]
           <= Capacity[b] * (Minute + l.refilled[b] - e.at)
  BY <1>1 DEF Backed
<1>3. /\ b \in Buckets /\ l.tokens[b] \in Nat /\ l.refilled[b] \in Nat /\ s[b] \in Nat
      /\ e.at \in Nat /\ e.spent \in Nat /\ e.units \in Nat
      /\ Capacity[b] \in Nat /\ Minute \in Nat
  BY LimiterAssumption DEF Limiters, Entries
<1> DEFINE x == (s[b] - e.spent + e.units) * Minute
           w == Capacity[b] * (Minute + l.refilled[b] - e.at)
<1>4. x \in Nat /\ w \in Nat
  <2>1. s[b] - e.spent + e.units \in Nat /\ Minute + l.refilled[b] - e.at \in Nat
    BY <1>2, <1>3
  <2> QED
    BY <1>3, <2>1
<1>5. x + l.tokens[b] <= w
  BY <1>2
<1> HIDE DEF x, w
<1>6. x <= w
  BY <1>3, <1>4, <1>5
<1> QED
  BY <1>1, <1>6 DEF x, w

-----------------------------------------------------------------------------
(* The ledger and the breaker.                                             *)

(* The long refusals from the entry k on.                                  *)
LongFrom(k) == {n \in LongRefusals : k <= n}

(* A long refusal is still among the strikes, or out of every window that  *)
(* can still close, or followed by a cooldown.                             *)
Counted(k, l, t) ==
  \/ /\ Cardinality(LongFrom(k)) <= Len(l.strikes)
     /\ l.strikes[Len(l.strikes) - Cardinality(LongFrom(k)) + 1] = ledger[k].at
  \/ ledger[k].at + StrikeWindow <= t
  \/ ledger[k].at + StrikeWindow <= l.openUntil

(* Refusals that trip the breaker have frozen the account, or had.         *)
Cooling(i, l, t) ==
  TripsAt(i) => ledger[i].at + Cooldown <= l.openUntil \/ ledger[i].at + Cooldown <= t

LeftAlone(i) ==
  TripsAt(i) => \A j \in DOMAIN ledger :
                  j > i /\ ledger[j].granted => ledger[j].at >= ledger[i].at + Cooldown

BreakerInv ==
  /\ Len(limiter.strikes) < Threshold
  /\ \A k \in LongRefusals : /\ Counted(k, limiter, now)
                             /\ Cooling(k, limiter, now)
                             /\ LeftAlone(k)

LEMMA LedgerGrows ==
  ASSUME ledger \in Seq(Entries), NEW e \in Entries, ledger' = Append(ledger, e),
         NEW m \in Nat, m = Len(ledger) + 1
  PROVE  /\ DOMAIN ledger = 1..m - 1 /\ DOMAIN ledger' = 1..m
         /\ \A i \in DOMAIN ledger : ledger'[i] = ledger[i] /\ ledger[i] \in Entries
         /\ ledger'[m] = e /\ ledger' \in Seq(Entries)
<1>1. Len(ledger) \in Nat /\ DOMAIN ledger = 1..Len(ledger) /\ Len(ledger) = m - 1
  OBVIOUS
<1>2. /\ Append(ledger, e) \in Seq(Entries) /\ Len(Append(ledger, e)) = Len(ledger) + 1
      /\ \A i \in 1..Len(ledger) : Append(ledger, e)[i] = ledger[i]
      /\ Append(ledger, e)[Len(ledger) + 1] = e
  BY AppendProperties
<1>3. DOMAIN Append(ledger, e) = 1..m
  BY <1>1, <1>2
<1> QED
  BY <1>1, <1>2, <1>3

LEMMA RefusalsGrow ==
  ASSUME ledger \in Seq(Entries), NEW e \in Entries, ledger' = Append(ledger, e),
         NEW m \in Nat, m = Len(ledger) + 1
  PROVE  /\ LongRefusals' = LongRefusals \cup (IF e.long THEN {m} ELSE {})
         /\ \A i \in DOMAIN ledger : TripsAt(i)' <=> TripsAt(i)
         /\ IsFiniteSet(LongRefusals)
<1>1. /\ DOMAIN ledger = 1..m - 1 /\ DOMAIN ledger' = 1..m
      /\ \A i \in DOMAIN ledger : ledger'[i] = ledger[i]
      /\ ledger'[m] = e
  BY LedgerGrows
<1>2. \A i : i \in 1..m <=> i \in 1..m - 1 \/ i = m
  OBVIOUS
<1>3. \A i \in 1..m - 1 : i < m /\ i \in Nat
  OBVIOUS
<1>4. LongRefusals' = LongRefusals \cup (IF e.long THEN {m} ELSE {})
  <2>1. LongRefusals' = {i \in DOMAIN ledger' : ledger'[i].long}
    BY DEF LongRefusals
  <2>2. \A i : i \in LongRefusals' <=> i \in 1..m /\ ledger'[i].long
    BY <1>1, <2>1
  <2>3. \A i : i \in LongRefusals <=> i \in 1..m - 1 /\ ledger[i].long
    BY <1>1 DEF LongRefusals
  <2>4. ASSUME NEW i
        PROVE  i \in LongRefusals' <=> i \in LongRefusals \cup (IF e.long THEN {m} ELSE {})
    <3>1. CASE i = m
      BY <1>1, <1>2, <1>3, <2>2, <2>3, <3>1
    <3>2. CASE i # m
      BY <1>1, <1>2, <2>2, <2>3, <3>2
    <3> QED
      BY <3>1, <3>2
  <2> QED
    BY <2>4
<1>5. ASSUME NEW i \in DOMAIN ledger
      PROVE  TripsAt(i)' <=> TripsAt(i)
  <2>1. i \in Nat /\ i < m
    BY <1>1, <1>3
  <2>2. \A n \in LongRefusals' : n <= i => n \in LongRefusals
    BY <1>4, <2>1
  <2>3. ASSUME NEW k \in Nat
        PROVE  {n \in LongRefusals' : k <= n /\ n <= i} = {n \in LongRefusals : k <= n /\ n <= i}
    BY <1>4, <2>2
  <2>4. \A k \in LongRefusals : k \in Nat /\ k \in DOMAIN ledger
    BY <1>1, <1>3 DEF LongRefusals
  <2>5. TripsAt(i)' <=> \E k \in LongRefusals' :
                          /\ k <= i
                          /\ Cardinality({n \in LongRefusals' : k <= n /\ n <= i}) = Threshold
                          /\ ledger'[k].at + StrikeWindow > ledger'[i].at
    BY DEF TripsAt
  <2>6. TripsAt(i) => TripsAt(i)'
    <3>1. SUFFICES ASSUME NEW k \in LongRefusals, k <= i,
                          Cardinality({n \in LongRefusals : k <= n /\ n <= i}) = Threshold,
                          ledger[k].at + StrikeWindow > ledger[i].at
                   PROVE  TripsAt(i)'
      BY DEF TripsAt
    <3>2. k \in LongRefusals' /\ k \in Nat /\ k \in DOMAIN ledger
      BY <1>4, <2>4
    <3>3. Cardinality({n \in LongRefusals' : k <= n /\ n <= i}) = Threshold
      BY <2>3, <3>1, <3>2
    <3>4. ledger'[k].at + StrikeWindow > ledger'[i].at
      BY <1>1, <3>1, <3>2
    <3> QED
      BY <2>5, <3>1, <3>2, <3>3, <3>4
  <2>7. TripsAt(i)' => TripsAt(i)
    <3>1. SUFFICES ASSUME NEW k \in LongRefusals', k <= i,
                          Cardinality({n \in LongRefusals' : k <= n /\ n <= i}) = Threshold,
                          ledger'[k].at + StrikeWindow > ledger'[i].at
                   PROVE  TripsAt(i)
      BY <2>5
    <3>2. k \in LongRefusals
      BY <2>2, <3>1
    <3>3. k \in Nat /\ k \in DOMAIN ledger
      BY <2>4, <3>2
    <3>4. Cardinality({n \in LongRefusals : k <= n /\ n <= i}) = Threshold
      BY <2>3, <3>1, <3>3
    <3>5. ledger[k].at + StrikeWindow > ledger[i].at
      BY <1>1, <3>1, <3>3
    <3> QED
      BY <3>1, <3>2, <3>4, <3>5 DEF TripsAt
  <2> QED
    BY <2>6, <2>7
<1>6. IsFiniteSet(LongRefusals)
  <2>1. IsFiniteSet(1..m - 1)
    BY FS_Interval
  <2>2. LongRefusals \subseteq 1..m - 1
    BY <1>1 DEF LongRefusals
  <2> QED
    BY <2>1, <2>2, FS_Subset
<1> QED
  BY <1>4, <1>5, <1>6

(* A decision that is no strike: what was frozen stays so, or has been.    *)
LEMMA NoStrikeInv ==
  ASSUME BucketInv, BreakerInv, NEW e \in Entries, ledger' = Append(ledger, e), now' = now,
         e.at = now, NEW v, limiter' = v.limiter, e.long = v.long, e.granted = v.granted,
         BreakerStep(limiter, v, now), ~v.long
  PROVE  BreakerInv'
<1> DEFINE m == Len(ledger) + 1
<1>1. m \in Nat /\ ledger \in Seq(Entries)
  BY DEF BucketInv
<1> HIDE DEF m
<1>2. /\ DOMAIN ledger = 1..m - 1 /\ DOMAIN ledger' = 1..m
      /\ \A i \in DOMAIN ledger : ledger'[i] = ledger[i] /\ ledger[i] \in Entries
      /\ ledger'[m] = e
  BY <1>1, LedgerGrows DEF m
<1>3. /\ LongRefusals' = LongRefusals
      /\ \A i \in DOMAIN ledger : TripsAt(i)' <=> TripsAt(i)
  <2>1. LongRefusals' = LongRefusals \cup (IF e.long THEN {m} ELSE {})
        /\ \A i \in DOMAIN ledger : TripsAt(i)' <=> TripsAt(i)
    BY <1>1, RefusalsGrow DEF m
  <2> QED
    BY <2>1
<1>4. limiter \in Limiters /\ limiter.openUntil \in Nat /\ now \in Nat
  BY DEF BucketInv, SoundLimiter, Limiters
<1>5. /\ limiter'.strikes = limiter.strikes
      /\ limiter'.openUntil = limiter.openUntil \/ limiter.openUntil <= now
      /\ e.granted => limiter.openUntil <= now
  BY <1>4 DEF BreakerStep, Frozen
<1>6. ASSUME NEW k \in LongRefusals
      PROVE  k \in DOMAIN ledger /\ ledger'[k] = ledger[k] /\ ledger[k].at \in Nat /\ k # m
  <2>1. k \in DOMAIN ledger /\ ledger'[k] = ledger[k] /\ ledger[k] \in Entries
    BY <1>2 DEF LongRefusals
  <2>2. k # m
    BY <1>1, <1>2, <2>1
  <2> QED
    BY <2>1, <2>2 DEF Entries
<1>7. ASSUME NEW k \in LongRefusals
      PROVE  Counted(k, limiter, now)'
  <2>1. Counted(k, limiter, now)
    BY DEF BreakerInv
  <2>2. LongFrom(k)' = LongFrom(k)
    BY <1>3 DEF LongFrom
  <2>3. StrikeWindow \in Nat
    BY LimiterAssumption
  <2>4. CASE ledger[k].at + StrikeWindow <= limiter.openUntil
    <3>1. \/ ledger[k].at + StrikeWindow <= limiter'.openUntil
          \/ ledger[k].at + StrikeWindow <= now
      BY <1>4, <1>5, <1>6, <2>3, <2>4
    <3> QED
      BY <1>6, <3>1 DEF Counted
  <2>5. CASE ledger[k].at + StrikeWindow <= now
    BY <1>6, <2>5 DEF Counted
  <2>6. CASE /\ Cardinality(LongFrom(k)) <= Len(limiter.strikes)
             /\ limiter.strikes[Len(limiter.strikes) - Cardinality(LongFrom(k)) + 1] = ledger[k].at
    BY <1>5, <1>6, <2>2, <2>6 DEF Counted
  <2> QED
    BY <2>1, <2>4, <2>5, <2>6 DEF Counted
<1>8. ASSUME NEW k \in LongRefusals
      PROVE  Cooling(k, limiter, now)'
  <2>1. SUFFICES ASSUME TripsAt(k)'
                 PROVE  \/ ledger'[k].at + Cooldown <= limiter'.openUntil
                        \/ ledger'[k].at + Cooldown <= now'
    BY DEF Cooling
  <2>2. TripsAt(k)
    BY <1>3, <1>6, <2>1
  <2>3. ledger[k].at + Cooldown <= limiter.openUntil \/ ledger[k].at + Cooldown <= now
    BY <2>2 DEF BreakerInv, Cooling
  <2>4. Cooldown \in Nat
    BY LimiterAssumption
  <2> QED
    BY <1>4, <1>5, <1>6, <2>3, <2>4
<1>9. ASSUME NEW k \in LongRefusals
      PROVE  LeftAlone(k)'
  <2>1. SUFFICES ASSUME TripsAt(k)', NEW j \in DOMAIN ledger', j > k, ledger'[j].granted
                 PROVE  ledger'[j].at >= ledger'[k].at + Cooldown
    BY DEF LeftAlone
  <2>2. TripsAt(k)
    BY <1>3, <1>6, <2>1
  <2>3. CASE j = m
    <3>1. e.granted /\ e.at = now /\ ledger'[j] = e
      BY <1>2, <2>1, <2>3
    <3>2. ledger[k].at + Cooldown <= limiter.openUntil \/ ledger[k].at + Cooldown <= now
      BY <2>2 DEF BreakerInv, Cooling
    <3>3. Cooldown \in Nat
      BY LimiterAssumption
    <3> QED
      BY <1>4, <1>5, <1>6, <3>1, <3>2, <3>3
  <2>4. CASE j # m
    <3>1. j \in DOMAIN ledger
      BY <1>1, <1>2, <2>4
    <3>2. ledger[j].granted
      BY <1>2, <2>1, <3>1
    <3>3. ledger[j].at >= ledger[k].at + Cooldown
      BY <2>1, <2>2, <3>1, <3>2 DEF BreakerInv, LeftAlone
    <3> QED
      BY <1>2, <1>6, <3>1, <3>3
  <2> QED
    BY <2>3, <2>4
<1> QED
  BY <1>3, <1>5, <1>7, <1>8, <1>9 DEF BreakerInv

(* A strike: it opens the breaker, or is kept with those of its window.    *)
LEMMA StrikeInv ==
  ASSUME BucketInv, BreakerInv, NEW e \in Entries, ledger' = Append(ledger, e), now' = now,
         e.at = now, NEW v, limiter' = v.limiter, e.long = v.long, e.granted = v.granted,
         BreakerStep(limiter, v, now), v.long
  PROVE  BreakerInv'
<1>18. Len(ledger) + 1 \in Nat /\ ledger \in Seq(Entries)
  BY DEF BucketInv
<1>1. PICK m : m \in Nat /\ m = Len(ledger) + 1 /\ ledger \in Seq(Entries)
  BY <1>18
<1> DEFINE n == Len(limiter.strikes)
<1>2. /\ limiter \in Limiters /\ limiter.openUntil \in Nat /\ now \in Nat
      /\ InOrder(limiter.strikes, now) /\ limiter.strikes \in Seq(Nat)
  BY DEF BucketInv, SoundLimiter, Limiters
<1>3. n \in Nat /\ DOMAIN limiter.strikes = 1..n /\ n < Threshold
  BY <1>2 DEF BreakerInv
<1>4. /\ StrikeWindow \in Nat /\ Cooldown \in Nat /\ Threshold \in Nat
      /\ StrikeWindow > 0 /\ StrikeWindow <= Cooldown
  BY LimiterAssumption
<1>5. /\ DOMAIN ledger = 1..m - 1 /\ DOMAIN ledger' = 1..m
      /\ \A i \in DOMAIN ledger : ledger'[i] = ledger[i] /\ ledger[i] \in Entries
      /\ ledger'[m] = e
  BY <1>1, LedgerGrows
<1>6. /\ LongRefusals' = LongRefusals \cup {m}
      /\ \A i \in DOMAIN ledger : TripsAt(i)' <=> TripsAt(i)
      /\ IsFiniteSet(LongRefusals)
  <2>1. /\ LongRefusals' = LongRefusals \cup (IF e.long THEN {m} ELSE {})
        /\ \A i \in DOMAIN ledger : TripsAt(i)' <=> TripsAt(i)
        /\ IsFiniteSet(LongRefusals)
    BY <1>1, RefusalsGrow
  <2> QED
    BY <2>1
<1>7. /\ ~Frozen(limiter, now) /\ ~e.granted
      /\ limiter.openUntil <= now
  BY <1>2 DEF BreakerStep, Frozen
<1>8. PICK d \in 0..n :
        /\ OldStrikes(limiter.strikes, now) = 1..d
        /\ IF Len(DropAndAdd(limiter.strikes, d, now)) >= Threshold
             THEN v.limiter.openUntil = now + Cooldown /\ v.limiter.strikes = <<>>
             ELSE /\ v.limiter.openUntil = 0
                  /\ v.limiter.strikes = DropAndAdd(limiter.strikes, d, now)
  BY DEF BreakerStep
<1> DEFINE after == DropAndAdd(limiter.strikes, d, now)
<1>9. /\ Len(after) = n - d + 1
      /\ \A i \in 1..n - d + 1 :
           after[i] = IF i = n - d + 1 THEN now ELSE limiter.strikes[i + d]
      /\ \A i \in DOMAIN limiter.strikes : i <= d => limiter.strikes[i] + StrikeWindow <= now
  <2>1. d \in 0..Len(limiter.strikes) /\ OldStrikes(limiter.strikes, now) = 1..d
    BY <1>8
  <2>2. limiter.strikes \in Seq(Nat) /\ now \in Nat /\ InOrder(limiter.strikes, now)
    BY <1>2
  <2>3. /\ DropAndAdd(limiter.strikes, d, now) \in Seq(Nat)
        /\ Len(DropAndAdd(limiter.strikes, d, now)) = Len(limiter.strikes) - d + 1
        /\ \A i \in 1..Len(limiter.strikes) - d + 1 :
             DropAndAdd(limiter.strikes, d, now)[i]
               = IF i = Len(limiter.strikes) - d + 1 THEN now ELSE limiter.strikes[i + d]
        /\ \A i \in DOMAIN limiter.strikes : i <= d => limiter.strikes[i] + StrikeWindow <= now
        /\ InOrder(DropAndAdd(limiter.strikes, d, now), now)
    BY ONLY <2>1, <2>2, StruckAt
  <2> QED
    BY <2>3
<1> HIDE DEF after, n
<1>10. ASSUME NEW k \in LongRefusals
       PROVE  /\ k \in DOMAIN ledger /\ ledger'[k] = ledger[k] /\ ledger[k].at \in Nat
              /\ k \in Nat /\ k < m /\ ledger[k].at <= now
  <2>1. k \in DOMAIN ledger /\ ledger'[k] = ledger[k] /\ ledger[k] \in Entries
    BY <1>5 DEF LongRefusals
  <2>2. k \in Nat /\ k < m
    BY <1>1, <1>5, <2>1
  <2>3. ledger[k].at <= now
    BY <2>1 DEF BucketInv
  <2> QED
    BY <2>1, <2>2, <2>3 DEF Entries
<1>11. ASSUME NEW k \in LongRefusals
       PROVE  /\ Cardinality(LongFrom(k)) \in Nat /\ Cardinality(LongFrom(k)) > 0
              /\ Cardinality(LongFrom(k)') = Cardinality(LongFrom(k)) + 1
  <2>1. LongFrom(k)' = LongFrom(k) \cup {m} /\ m \notin LongFrom(k) /\ k \in LongFrom(k)
    <3>1. \A i \in LongRefusals : i # m /\ i \in Nat
      BY <1>10, <1>1
    <3>2. k <= m /\ k <= k
      BY <1>1, <1>10
    <3> QED
      BY <1>6, <3>1, <3>2 DEF LongFrom
  <2>2. IsFiniteSet(LongFrom(k))
    BY <1>6, FS_Subset DEF LongFrom
  <2>3. /\ Cardinality(LongFrom(k)) \in Nat
        /\ Cardinality(LongFrom(k) \cup {m}) = Cardinality(LongFrom(k)) + 1
    BY <2>1, <2>2, FS_CardinalityType, FS_AddElement
  <2>4. Cardinality(LongFrom(k)) # 0
    BY <2>1, <2>2, FS_EmptySet
  <2> QED
    BY <2>1, <2>3, <2>4
<1>12. Cardinality(LongFrom(m)') = 1
  <2>1. LongFrom(m)' = {m}
    <3>1. \A i \in LongRefusals : ~(m <= i)
      BY <1>1, <1>10
    <3>2. m <= m
      BY <1>1
    <3> QED
      BY <1>6, <3>1, <3>2 DEF LongFrom
  <2> QED
    BY <2>1, FS_Singleton
<1>13. ASSUME NEW k \in LongRefusals
       PROVE  LeftAlone(k)'
  <2>1. SUFFICES ASSUME TripsAt(k)', NEW j \in DOMAIN ledger', j > k, ledger'[j].granted
                 PROVE  ledger'[j].at >= ledger'[k].at + Cooldown
    BY DEF LeftAlone
  <2>2. TripsAt(k)
    BY <1>6, <1>10, <2>1
  <2>3. j # m
    BY <1>5, <1>7, <2>1
  <2>4. j \in DOMAIN ledger
    BY <1>1, <1>5, <2>3
  <2>5. ledger[j].granted
    BY <1>5, <2>1, <2>4
  <2>6. ledger[j].at >= ledger[k].at + Cooldown
    BY <2>1, <2>2, <2>4, <2>5 DEF BreakerInv, LeftAlone
  <2> QED
    BY <1>5, <1>10, <2>4, <2>6
<1>14. LeftAlone(m)'
  <2>1. \A j \in DOMAIN ledger' : ~(j > m)
    BY <1>1, <1>5
  <2> QED
    BY <2>1 DEF LeftAlone
<1>15. ASSUME NEW k \in LongRefusals, TripsAt(k)
       PROVE  ledger[k].at + Cooldown <= now
  <2>1. ledger[k].at + Cooldown <= limiter.openUntil \/ ledger[k].at + Cooldown <= now
    BY <1>15 DEF BreakerInv, Cooling
  <2> QED
    BY <1>2, <1>4, <1>7, <1>10, <2>1
<1>16. CASE Len(after) >= Threshold
  <2>1. limiter'.openUntil = now + Cooldown /\ limiter'.strikes = <<>>
    BY <1>8, <1>16 DEF after
  <2>2. Len(limiter'.strikes) < Threshold
    BY <1>4, <2>1, LimiterAssumption
  <2>3. ASSUME NEW k \in LongRefusals'
        PROVE  ledger'[k].at \in Nat /\ ledger'[k].at <= now
    <3>1. CASE k = m
      <4>1. ledger'[k] = e
        BY <1>5, <3>1
      <4>2. e.at \in Nat /\ e.at <= now
        <5>1. now <= now
          BY <1>2
        <5> QED
          BY <1>2, <5>1
      <4> QED
        BY <4>1, <4>2
    <3>2. CASE k \in LongRefusals
      BY <1>10, <3>2
    <3> QED
      BY <1>6, <3>1, <3>2
  <2>4. ASSUME NEW k \in LongRefusals'
        PROVE  Counted(k, limiter, now)' /\ Cooling(k, limiter, now)' /\ LeftAlone(k)'
    <3>1. /\ ledger'[k].at + StrikeWindow <= limiter'.openUntil
          /\ ledger'[k].at + Cooldown <= limiter'.openUntil
      <4>1. \A x \in Nat : x <= now => /\ x + StrikeWindow <= now + Cooldown
                                      /\ x + Cooldown <= now + Cooldown
        BY <1>2, <1>4
      <4> QED
        BY <2>1, <2>3, <4>1
    <3>2. Counted(k, limiter, now)' /\ Cooling(k, limiter, now)'
      BY <3>1 DEF Counted, Cooling
    <3> QED
      BY <1>6, <1>13, <1>14, <3>2
  <2> QED
    BY <2>2, <2>4 DEF BreakerInv
<1>17. CASE ~(Len(after) >= Threshold)
  <2>1. limiter'.openUntil = 0 /\ limiter'.strikes = after
    BY <1>8, <1>17 DEF after
  <2>2. n - d \in Nat /\ d \in Nat /\ Len(after) = n - d + 1 /\ Len(after) < Threshold
    BY <1>3, <1>4, <1>9, <1>17
  <2>3. ASSUME NEW k \in LongRefusals
        PROVE  Counted(k, limiter, now)'
    <3> DEFINE A == Cardinality(LongFrom(k))
               q == n - A + 1
    <3>1. A \in Nat /\ A > 0 /\ Cardinality(LongFrom(k)') = A + 1
      BY <1>11
    <3> HIDE DEF A
    <3>2. CASE A <= n /\ limiter.strikes[q] = ledger[k].at
      <4>1. q \in 1..n
        BY <1>3, <3>1, <3>2
      <4>2. CASE q <= d
        <5>1. ledger[k].at + StrikeWindow <= now
          BY <1>3, <1>9, <3>2, <4>1, <4>2
        <5> QED
          BY <1>10, <5>1 DEF Counted
      <4>3. CASE ~(q <= d)
        <5>1. A + 1 <= Len(after)
          BY <1>3, <2>2, <3>1, <4>1, <4>3
        <5>2. /\ Len(after) - (A + 1) + 1 = q - d /\ q - d \in 1..n - d + 1
              /\ q - d # n - d + 1 /\ q - d + d = q
          BY <1>3, <2>2, <3>1, <4>1, <4>3
        <5>3. after[q - d] = limiter.strikes[q]
          BY <1>9, <5>2
        <5>4. after[Len(after) - (A + 1) + 1] = ledger'[k].at
          BY <1>10, <3>2, <5>2, <5>3
        <5> QED
          BY <2>1, <3>1, <5>1, <5>4 DEF Counted
      <4> QED
        BY <4>2, <4>3
    <3>3. CASE ledger[k].at + StrikeWindow <= now
      BY <1>10, <3>3 DEF Counted
    <3>4. CASE ledger[k].at + StrikeWindow <= limiter.openUntil
      <4>1. ledger[k].at + StrikeWindow <= now
        BY <1>2, <1>4, <1>7, <1>10, <3>4
      <4> QED
        BY <1>10, <4>1 DEF Counted
    <3>5. Counted(k, limiter, now)
      BY DEF BreakerInv
    <3> QED
      BY <3>2, <3>3, <3>4, <3>5 DEF Counted, A, n
  <2>4. Counted(m, limiter, now)'
    <3>1. Len(after) - 1 + 1 = n - d + 1 /\ 1 <= Len(after) /\ n - d + 1 \in 1..n - d + 1
      BY <2>2
    <3>2. after[Len(after) - 1 + 1] = now
      BY <1>9, <3>1
    <3> QED
      BY <1>5, <1>12, <2>1, <3>1, <3>2 DEF Counted
  <2>5. ~TripsAt(m)'
    <3>1. SUFFICES ASSUME NEW k \in LongRefusals', k <= m,
                          Cardinality({i \in LongRefusals' : k <= i /\ i <= m}) = Threshold,
                          ledger'[k].at + StrikeWindow > ledger'[m].at
                   PROVE  FALSE
      BY DEF TripsAt
    <3>2. Counted(k, limiter, now)'
      BY <1>6, <2>3, <2>4
    <3>3. \A i \in LongRefusals' : i <= m
      BY <1>1, <1>6, <1>10
    <3>4. LongFrom(k)' = {i \in LongRefusals' : k <= i /\ i <= m}
      BY <3>3 DEF LongFrom
    <3>5. Cardinality(LongFrom(k)') = Threshold
      BY <3>1, <3>4
    <3>6. ledger'[m].at = now /\ ledger'[k].at \in Nat
      BY <1>2, <1>5, <1>6, <1>10
    <3>7. ~(Threshold <= Len(after))
      BY <1>4, <2>2
    <3>8. \/ ledger'[k].at + StrikeWindow <= now
          \/ ledger'[k].at + StrikeWindow <= 0
      BY <2>1, <3>2, <3>5, <3>7 DEF Counted
    <3> QED
      <4>1. \A x \in Nat : x + StrikeWindow > now =>
              ~(x + StrikeWindow <= now) /\ ~(x + StrikeWindow <= 0)
        BY <1>2, <1>4
      <4> QED
        BY <3>1, <3>6, <3>8, <4>1
  <2>6. ASSUME NEW k \in LongRefusals
        PROVE  Cooling(k, limiter, now)'
    BY <1>6, <1>10, <1>15 DEF Cooling
  <2>7. Cooling(m, limiter, now)'
    BY <2>5 DEF Cooling
  <2> QED
    BY <1>6, <1>13, <1>14, <2>1, <2>2, <2>3, <2>4, <2>6, <2>7 DEF BreakerInv
<1> QED
  BY <1>16, <1>17

(* The limiter stays sound through a decision.                             *)
LEMMA SoundStep ==
  ASSUME NEW l, NEW t \in Nat, SoundLimiter(l, t), NEW b \in Buckets, NEW units \in Nat,
         \A a \in Buckets : l.tokens[a] <= Capacity[a] * Minute,
         NEW v, v.limiter \in Limiters, BreakerStep(l, v, t), BucketStep(l, v, b, units, t)
  PROVE  /\ SoundLimiter(v.limiter, t)
         /\ \A a \in Buckets : v.limiter.tokens[a] <= Capacity[a] * Minute
<1>1. /\ l \in Limiters /\ l.strikes \in Seq(Nat) /\ InOrder(l.strikes, t)
      /\ v.limiter.openUntil \in Nat /\ Minute \in Nat
  BY LimiterAssumption DEF SoundLimiter, Limiters
<1>2. ASSUME NEW a \in Buckets
      PROVE  v.limiter.refilled[a] <= t /\ v.limiter.tokens[a] <= Capacity[a] * Minute
  <2>1. l.refilled[a] <= t /\ l.tokens[a] <= Capacity[a] * Minute
    BY DEF SoundLimiter
  <2>2. CASE v.limiter.tokens[a] = l.tokens[a] /\ v.limiter.refilled[a] = l.refilled[a]
    BY <2>1, <2>2
  <2>3. ASSUME a = b, v.limiter.refilled[b] = t,
               NEW p \in Nat, v.limiter.tokens[b] + p * Minute <= Capacity[b] * Minute
        PROVE  v.limiter.refilled[a] <= t /\ v.limiter.tokens[a] <= Capacity[a] * Minute
    <3>1. /\ v.limiter.tokens[b] \in Nat /\ Capacity[b] \in Nat
      BY LimiterAssumption DEF Limiters
    <3> DEFINE q == p * Minute
               w == Capacity[b] * Minute
    <3>2. q \in Nat /\ w \in Nat
      BY <1>1, <3>1
    <3>3. v.limiter.tokens[b] + q <= w
      BY <2>3
    <3> HIDE DEF q, w
    <3>4. v.limiter.tokens[b] <= w
      BY <3>1, <3>2, <3>3
    <3> QED
      BY <2>3, <3>4 DEF w
  <2> QED
    BY <2>2, <2>3 DEF BucketStep
<1>3. /\ InOrder(v.limiter.strikes, t)
      /\ v.limiter.openUntil > 0 => v.limiter.strikes = <<>>
  <2>1. CASE v.limiter = l \/ (v.limiter.strikes = l.strikes /\ v.limiter.openUntil = 0)
    BY <1>1, <2>1 DEF SoundLimiter
  <2>2. CASE v.limiter.strikes = <<>>
    <3>1. DOMAIN v.limiter.strikes = {}
      BY <2>2
    <3> QED
      BY <2>2, <3>1 DEF InOrder
  <2>3. ASSUME NEW d \in 0..Len(l.strikes), OldStrikes(l.strikes, t) = 1..d,
               v.limiter.openUntil = 0, v.limiter.strikes = DropAndAdd(l.strikes, d, t)
        PROVE  /\ InOrder(v.limiter.strikes, t)
               /\ v.limiter.openUntil > 0 => v.limiter.strikes = <<>>
    <3>1. InOrder(DropAndAdd(l.strikes, d, t), t)
      BY <1>1, <2>3, StruckAt
    <3> QED
      BY <2>3, <3>1
  <2> QED
    BY <2>1, <2>2, <2>3 DEF BreakerStep
<1> QED
  BY <1>2, <1>3 DEF SoundLimiter

LEMMA BucketStepInv ==
  ASSUME BucketInv, NEW b \in Buckets, NEW units \in Nat,
         NEW v, v.limiter \in Limiters, v.granted \in BOOLEAN, v.long \in BOOLEAN,
         BreakerStep(limiter, v, now), BucketStep(limiter, v, b, units, now),
         limiter' = v.limiter, now' = now,
         spent' \in [Buckets -> Nat],
         SpentStep(spent, spent', v, b, units),
         NEW e \in Entries, ledger' = Append(ledger, e),
         e.granted = v.granted, e.bucket = b, e.at = now, e.units = units, e.spent = spent'[b]
  PROVE  BucketInv'
<1>1. /\ now \in Nat /\ spent \in [Buckets -> Nat] /\ ledger \in Seq(Entries)
      /\ SoundLimiter(limiter, now) /\ limiter \in Limiters
      /\ \A a \in Buckets : limiter.tokens[a] <= Capacity[a] * Minute
      /\ limiter.refilled[b] <= now
  BY DEF BucketInv, SoundLimiter
<1>4. PICK m : m \in Nat /\ m = Len(ledger) + 1
  BY <1>1
<1>5. /\ DOMAIN ledger = 1..m - 1 /\ DOMAIN ledger' = 1..m
      /\ \A i \in DOMAIN ledger : ledger'[i] = ledger[i] /\ ledger[i] \in Entries
      /\ ledger'[m] = e /\ ledger' \in Seq(Entries)
  BY <1>1, <1>4, LedgerGrows
<1>6. \A i \in DOMAIN ledger' : i # m => i \in DOMAIN ledger
  BY <1>4, <1>5
<1>7. SoundLimiter(v.limiter, now)
      /\ \A a \in Buckets : v.limiter.tokens[a] <= Capacity[a] * Minute
  BY <1>1, SoundStep
<1>8. ASSUME NEW i \in DOMAIN ledger', NEW a \in Buckets
      PROVE  Backed(ledger'[i], a, v.limiter, spent')
  <2>1. CASE i = m
    BY <1>1, <1>5, <2>1, NewBacked
  <2>2. CASE i # m
    <3>1. i \in DOMAIN ledger /\ ledger'[i] = ledger[i] /\ ledger[i] \in Entries
      BY <1>5, <1>6, <2>2
    <3>2. Backed(ledger[i], a, limiter, spent)
      BY <3>1 DEF BucketInv
    <3>3. Backed(ledger[i], a, v.limiter, spent')
      BY <1>1, <3>1, <3>2, BackedStep
    <3> QED
      BY <3>1, <3>3
  <2> QED
    BY <2>1, <2>2
<1>9. e.granted => e.at = v.limiter.refilled[b]
  <2>1. e.granted => v.limiter.refilled[b] = now
    BY DEF BucketStep
  <2> QED
    BY <2>1
<1>10. ASSUME NEW i \in DOMAIN ledger', NEW j \in DOMAIN ledger', i <= j
       PROVE  Apart(ledger'[i], ledger'[j])
  <2>1. CASE j = m
    <3>1. Backed(ledger'[i], b, v.limiter, spent')
      BY <1>8
    <3>2. ledger'[i] \in Entries
      BY <1>5, <1>6
    <3>3. Apart(ledger'[i], e)
      BY <1>9, <3>1, <3>2, BackedApart
    <3> QED
      BY <1>5, <2>1, <3>3
  <2>2. CASE j # m
    <3>1. i # m /\ i \in DOMAIN ledger /\ j \in DOMAIN ledger
      <4>1. j \in 1..m - 1 /\ i \in 1..m
        BY <1>5, <1>6, <2>2
      <4>2. i # m
        BY <1>4, <1>10, <4>1
      <4> QED
        BY <1>6, <2>2, <4>2
    <3>2. Apart(ledger[i], ledger[j])
      BY <1>10, <3>1 DEF BucketInv
    <3> QED
      BY <1>5, <3>1, <3>2
  <2> QED
    BY <2>1, <2>2
<1>11. \A i \in DOMAIN ledger' : ledger'[i].at <= now
  <2>1. now <= now
    BY <1>1
  <2> QED
    BY <1>5, <1>6, <2>1 DEF BucketInv
<1> QED
  BY <1>1, <1>5, <1>7, <1>8, <1>10, <1>11 DEF BucketInv

-----------------------------------------------------------------------------
(* A call that is charged: the limiter's answer v and its entry e.         *)
Decided(c, v, e) ==
  LET b == BucketOf(Call(c).tool) IN
  /\ b \in Buckets /\ e \in Entries
  /\ v.limiter \in Limiters /\ v.granted \in BOOLEAN /\ v.long \in BOOLEAN
  /\ BreakerStep(limiter, v, now) /\ BucketStep(limiter, v, b, e.units, now)
  /\ limiter' = v.limiter
  /\ spent' \in [Buckets -> Nat] /\ SpentStep(spent, spent', v, b, e.units)
  /\ ledger' = Append(ledger, e)
  /\ e.call = c /\ e.bucket = b /\ e.at = now /\ e.granted = v.granted /\ e.long = v.long
  /\ e.spent = spent'[b]
  /\ Call(c).tool = "search_messages" => e.units = UnitsOf(Access(c), Call(c))
  /\ IF v.granted THEN Run(c) ELSE ToAudit(c) /\ UNCHANGED <<touched, handles, gatewayVars>>

LEMMA UnitsAreNatural ==
  ASSUME scene \in Scenes, NEW x \in Contexts, NEW call
  PROVE  UnitsOf(AccessOf(x), call) \in Nat
<1>1. x[1] \in Endpoints /\ x[2] \in Generations
  BY DEF Contexts
<1>2. IsFiniteSet(ScopeOf(AccessOf(x)))
  BY <1>1, ScenesAssumption DEF AccessOf
<1>3. Cardinality(ScopeOf(AccessOf(x))) \in Nat
  BY <1>2, FS_CardinalityType
<1>4. MaxFanout \in Nat
  BY AccountAssumption
<1> QED
  BY <1>3, <1>4 DEF UnitsOf

LEMMA ChargeDecides ==
  ASSUME BucketInv, scene \in Scenes, NEW c \in Calls, Charge(c), Charged(c), Ctx(c) \in Contexts
  PROVE  \E v, e : Decided(c, v, e)
<1> DEFINE b == BucketOf(Call(c).tool)
           units == IF Call(c).tool = "search_messages" THEN UnitsOf(Access(c), Call(c)) ELSE 1
<1>1. b \in Buckets
  BY CallsAssumption DEF BucketOf
<1>2. units \in Nat
  BY UnitsAreNatural DEF Access
<1>3. PICK v : /\ v = Reserve(limiter, b, units, now)
               /\ limiter' = v.limiter
               /\ spent' = [spent EXCEPT ![b] = IF v.granted THEN @ + units ELSE @]
               /\ ledger' = Append(ledger, [call |-> c, bucket |-> b, units |-> units, at |-> now,
                                            granted |-> v.granted, long |-> v.long,
                                            spent |-> spent'[b]])
               /\ IF v.granted THEN Run(c)
                  ELSE ToAudit(c) /\ UNCHANGED <<touched, handles, gatewayVars>>
  BY DEF Charge
<1> HIDE DEF b, units
<1>4. /\ now \in Nat /\ spent \in [Buckets -> Nat] /\ SoundLimiter(limiter, now)
      /\ \A a \in Buckets : limiter.tokens[a] <= Capacity[a] * Minute
  BY DEF BucketInv
<1>5. /\ v.limiter \in Limiters /\ v.granted \in BOOLEAN /\ v.long \in BOOLEAN
      /\ BreakerStep(limiter, v, now)
      /\ BucketStep(limiter, v, b, units, now)
  <2>1. LET r == Reserve(limiter, b, units, now) IN
        /\ r.limiter \in Limiters /\ r.granted \in BOOLEAN /\ r.long \in BOOLEAN
        /\ BreakerStep(limiter, r, now)
        /\ BucketStep(limiter, r, b, units, now)
    BY <1>1, <1>2, <1>4, ReserveAt
  <2> QED
    BY <1>3, <2>1
<1>6. spent' \in [Buckets -> Nat] /\ SpentStep(spent, spent', v, b, units)
  <2>1. (IF v.granted THEN spent[b] + units ELSE spent[b]) \in Nat
    BY <1>1, <1>2, <1>4
  <2>2. spent' = [spent EXCEPT ![b] = IF v.granted THEN spent[b] + units ELSE spent[b]]
    BY <1>3
  <2> QED
    BY <1>1, <1>4, <2>1, <2>2 DEF SpentStep
<1>7. PICK e : e = [call |-> c, bucket |-> b, units |-> units, at |-> now,
                    granted |-> v.granted, long |-> v.long, spent |-> spent'[b]]
  OBVIOUS
<1>8. e \in Entries
  BY <1>1, <1>2, <1>4, <1>5, <1>6, <1>7 DEF Entries
<1>9. /\ e.call = c /\ e.bucket = b /\ e.units = units /\ e.at = now
      /\ e.granted = v.granted /\ e.long = v.long /\ e.spent = spent'[b]
  BY <1>7
<1>10. ledger' = Append(ledger, e)
  BY <1>3, <1>7
<1>11. Call(c).tool = "search_messages" => units = UnitsOf(Access(c), Call(c))
  BY DEF units
<1>12. Decided(c, v, e)
  BY <1>1, <1>3, <1>5, <1>6, <1>8, <1>9, <1>10, <1>11 DEF Decided, b
<1> QED
  BY <1>12

LEMMA ChargeLedger ==
  ASSUME BucketInv, BreakerInv, now' = now, NEW c \in Calls, NEW v, NEW e, Decided(c, v, e)
  PROVE  BucketInv' /\ BreakerInv'
<1> DEFINE b == BucketOf(Call(c).tool)
<1>1. /\ b \in Buckets /\ e \in Entries
      /\ v.limiter \in Limiters /\ v.granted \in BOOLEAN /\ v.long \in BOOLEAN
      /\ BreakerStep(limiter, v, now) /\ BucketStep(limiter, v, b, e.units, now)
      /\ limiter' = v.limiter
      /\ spent' \in [Buckets -> Nat] /\ SpentStep(spent, spent', v, b, e.units)
      /\ ledger' = Append(ledger, e)
      /\ e.bucket = b /\ e.at = now /\ e.granted = v.granted /\ e.long = v.long
      /\ e.spent = spent'[b]
  BY DEF Decided
<1> HIDE DEF b
<1>2. e.units \in Nat
  BY <1>1 DEF Entries
<1>3. BucketInv'
  BY <1>1, <1>2, BucketStepInv
<1>4. BreakerInv'
  BY <1>1, NoStrikeInv, StrikeInv
<1> QED
  BY <1>3, <1>4

(* Time passes.                                                            *)
LEMMA TickLedger ==
  ASSUME BucketInv, BreakerInv, now' \in Nat, now <= now', UNCHANGED <<limiter, spent, ledger>>
  PROVE  BucketInv' /\ BreakerInv'
<1>1. /\ now \in Nat /\ limiter \in Limiters /\ limiter.strikes \in Seq(Nat)
      /\ limiter.refilled \in [Buckets -> Nat] /\ limiter.openUntil \in Nat
      /\ SoundLimiter(limiter, now) /\ ledger \in Seq(Entries)
  BY DEF BucketInv, SoundLimiter, Limiters
<1>2. \A x \in Nat : x <= now => x <= now'
  BY <1>1
<1>3. SoundLimiter(limiter, now')
  <2>1. \A b \in Buckets : limiter.refilled[b] \in Nat /\ limiter.refilled[b] <= now
    BY <1>1 DEF SoundLimiter
  <2>2. \A i \in DOMAIN limiter.strikes : limiter.strikes[i] \in Nat /\ limiter.strikes[i] <= now
    BY <1>1 DEF SoundLimiter, InOrder
  <2> QED
    BY <1>1, <1>2, <2>1, <2>2 DEF SoundLimiter, InOrder
<1>4. \A i \in DOMAIN ledger : ledger[i] \in Entries /\ ledger[i].at \in Nat
  <2>1. ledger \in Seq(Entries)
    BY <1>1
  <2>2. \A i \in DOMAIN ledger : ledger[i] \in Entries
    BY <2>1
  <2> QED
    BY <2>2 DEF Entries
<1>5. \A i \in DOMAIN ledger : ledger[i].at <= now'
  BY <1>2, <1>4 DEF BucketInv
<1>6. BucketInv'
  BY <1>3, <1>5 DEF BucketInv, Backed, Apart
<1>7. LongRefusals' = LongRefusals /\ \A k : LongFrom(k)' = LongFrom(k)
  BY DEF LongRefusals, LongFrom
<1>8. ASSUME NEW k \in LongRefusals
      PROVE  Counted(k, limiter, now)' /\ Cooling(k, limiter, now)' /\ LeftAlone(k)'
  <2>1. TripsAt(k)' <=> TripsAt(k)
    BY <1>7 DEF TripsAt
  <2>2. ledger[k].at \in Nat /\ StrikeWindow \in Nat /\ Cooldown \in Nat
    BY <1>4, LimiterAssumption DEF LongRefusals
  <2>3. /\ ledger[k].at + StrikeWindow <= now => ledger[k].at + StrikeWindow <= now'
        /\ ledger[k].at + Cooldown <= now => ledger[k].at + Cooldown <= now'
    BY <1>1, <2>2
  <2>4. Counted(k, limiter, now) /\ Cooling(k, limiter, now) /\ LeftAlone(k)
    BY DEF BreakerInv
  <2>5. Counted(k, limiter, now)'
    BY <1>7, <2>3, <2>4 DEF Counted
  <2>6. Cooling(k, limiter, now)'
    BY <2>1, <2>3, <2>4 DEF Cooling
  <2>7. LeftAlone(k)'
    BY <2>1, <2>4 DEF LeftAlone
  <2> QED
    BY <2>5, <2>6, <2>7
<1>9. BreakerInv'
  BY <1>7, <1>8 DEF BreakerInv
<1> QED
  BY <1>6, <1>9

LEMMA FreshAt ==
  ASSUME NEW t \in Nat
  PROVE  /\ SoundLimiter(FreshLimiter(t), t)
         /\ \A b \in Buckets : FreshLimiter(t).tokens[b] <= Capacity[b] * Minute
         /\ FreshLimiter(t).strikes = <<>>
<1> DEFINE l == FreshLimiter(t)
<1>1. \A b \in Buckets : Capacity[b] * Minute \in Nat
  BY LimiterAssumption
<1>2. l = [tokens |-> [b \in Buckets |-> Capacity[b] * Minute], refilled |-> [b \in Buckets |-> t],
           strikes |-> <<>>, openUntil |-> 0]
  BY DEF FreshLimiter
<1> HIDE DEF l
<1>3. /\ [b \in Buckets |-> Capacity[b] * Minute] \in [Buckets -> Nat]
      /\ [b \in Buckets |-> t] \in [Buckets -> Nat]
      /\ <<>> \in Seq(Nat) /\ 0 \in Nat
  BY <1>1
<1>4. l \in Limiters
  BY <1>2, <1>3 DEF Limiters
<1>5. /\ \A b \in Buckets : l.refilled[b] = t /\ l.tokens[b] = Capacity[b] * Minute
      /\ l.strikes = <<>> /\ l.openUntil = 0
  BY <1>2
<1>6. \A b \in Buckets : l.tokens[b] <= Capacity[b] * Minute /\ l.refilled[b] <= t
  BY <1>1, <1>5
<1>7. InOrder(l.strikes, t)
  <2>1. DOMAIN l.strikes = {}
    BY <1>5
  <2> QED
    BY <2>1 DEF InOrder
<1> QED
  BY <1>4, <1>5, <1>6, <1>7 DEF SoundLimiter, l

(* An account that is new, or new again, has an empty ledger.              *)
LEMMA FreshLedger ==
  now \in Nat /\ limiter = FreshLimiter(now) /\ spent = [b \in Buckets |-> 0] /\ ledger = <<>>
    => BucketInv /\ BreakerInv
<1> SUFFICES ASSUME now \in Nat, limiter = FreshLimiter(now), spent = [b \in Buckets |-> 0],
                    ledger = <<>>
             PROVE  BucketInv /\ BreakerInv
  OBVIOUS
<1>1. DOMAIN ledger = {} /\ ledger \in Seq(Entries) /\ LongRefusals = {}
  BY DEF LongRefusals
<1>2. spent \in [Buckets -> Nat]
  OBVIOUS
<1>3. /\ SoundLimiter(limiter, now)
      /\ \A b \in Buckets : limiter.tokens[b] <= Capacity[b] * Minute
      /\ limiter.strikes = <<>>
  BY FreshAt
<1>4. BucketInv
  BY <1>1, <1>2, <1>3 DEF BucketInv
<1>5. Len(limiter.strikes) < Threshold
  BY <1>3, LimiterAssumption
<1>6. BreakerInv
  BY <1>1, <1>5 DEF BreakerInv
<1> QED
  BY <1>4, <1>6

-----------------------------------------------------------------------------
(* What is in flight is paid for, and what is paid for was approved.       *)

Reach(c) == UNION {r.touches : r \in Requests(Access(c), Call(c))}

Paid(c) ==
  \E i \in DOMAIN ledger :
    /\ ledger[i].call = c /\ ledger[i].granted
    /\ Call(c).tool = "search_messages" => ledger[i].units = UnitsOf(Access(c), Call(c))

(* A call that awaits the check of its file goes on only if its client is  *)
(* still alive then.                                                       *)
CallPaid(c) ==
  /\ at[c] \in {"linking", "requesting"} \/ (at[c] = "confining" /\ Live(c)) =>
       (Charged(c) => Paid(c))
  /\ at[c] \in {"unsent", "received", "waiting", "asking", "confining", "linking"} =>
       touched[c] = {}
  /\ at[c] = "requesting" => touched[c] \subseteq Reach(c)
  /\ \A i \in DOMAIN ledger : ledger[i].call = c =>
       /\ at[c] \notin {"unsent", "received"}
       /\ MustConfirm(Access(c), Call(c).tool) => c \in approved

PaidInv == \A c \in Calls : CallPaid(c)

LEMMA PaidInvInit == CallsInit => PaidInv
<1> SUFFICES ASSUME CallsInit
             PROVE  PaidInv
  OBVIOUS
<1>1. \A c \in Calls : at[c] = "unsent" /\ touched[c] = {}
  BY DEF CallsInit
<1>2. DOMAIN ledger = {}
  BY DEF CallsInit
<1> QED
  BY <1>1, <1>2 DEF PaidInv, CallPaid

(* The ledger stays as it is, or has one more entry, of this call or not.  *)
Appends(mine, c) ==
  \/ ledger' = ledger
  \/ \E e \in Entries : ledger' = Append(ledger, e) /\ (mine \/ e.call # c)

LEMMA AppendsAt ==
  ASSUME ledger \in Seq(Entries), NEW c, NEW mine \in BOOLEAN, Appends(mine, c)
  PROVE  /\ \A i \in DOMAIN ledger : i \in DOMAIN ledger' /\ ledger'[i] = ledger[i]
         /\ ~mine => \A i \in DOMAIN ledger' : ledger'[i].call = c => i \in DOMAIN ledger
<1>1. CASE ledger' = ledger
  BY <1>1
<1>2. ASSUME NEW e \in Entries, ledger' = Append(ledger, e), mine \/ e.call # c
      PROVE  /\ \A i \in DOMAIN ledger : i \in DOMAIN ledger' /\ ledger'[i] = ledger[i]
             /\ ~mine => \A i \in DOMAIN ledger' : ledger'[i].call = c => i \in DOMAIN ledger
  <2>1. /\ DOMAIN ledger = 1..Len(ledger) /\ Len(ledger) \in Nat
        /\ DOMAIN ledger' = 1..(Len(ledger) + 1) /\ ledger'[Len(ledger) + 1] = e
        /\ \A i \in DOMAIN ledger : ledger'[i] = ledger[i]
    BY <1>2
  <2>2. \A i \in DOMAIN ledger' : i \in DOMAIN ledger \/ i = Len(ledger) + 1
    BY <2>1
  <2>3. \A i \in DOMAIN ledger : i \in DOMAIN ledger'
    BY <2>1
  <2> QED
    BY <1>2, <2>1, <2>2, <2>3
<1> QED
  BY <1>1, <1>2 DEF Appends

(* A call that stays where it is, or is on its way out.                    *)
Ending == {"preparing", "auditing", "answering", "done"}

Keeps(c) ==
  /\ scene' = scene /\ home'[c] = home[c] /\ retired \subseteq retired'
  /\ c \in approved => c \in approved'

LEMMA PaidFrame ==
  ASSUME NEW c \in Calls, Keeps(c)
  PROVE  /\ Call(c)' = Call(c) /\ Ctx(c)' = Ctx(c) /\ Access(c)' = Access(c)
         /\ Charged(c)' = Charged(c) /\ Reach(c)' = Reach(c)
         /\ Live(c)' => Live(c)
<1>1. Call(c)' = Call(c) /\ Ctx(c)' = Ctx(c)
  BY DEF Call, Ctx, Keeps
<1>2. Access(c)' = Access(c)
  BY <1>1 DEF Access, AccessOf, Keeps
<1> QED
  BY <1>1, <1>2 DEF Charged, Reach, Live, Keeps

LEMMA PaidKept ==
  ASSUME ledger \in Seq(Entries), NEW c \in Calls, CallPaid(c), Keeps(c), Appends(FALSE, c),
         \/ at'[c] = at[c] /\ touched'[c] = touched[c]
         \/ at'[c] \in Ending
  PROVE  CallPaid(c)'
<1>1. /\ \A i \in DOMAIN ledger : i \in DOMAIN ledger' /\ ledger'[i] = ledger[i]
      /\ \A i \in DOMAIN ledger' : ledger'[i].call = c => i \in DOMAIN ledger
  BY AppendsAt
<1>2. /\ Call(c)' = Call(c) /\ Access(c)' = Access(c)
      /\ Charged(c)' = Charged(c) /\ Reach(c)' = Reach(c) /\ (Live(c)' => Live(c))
  BY PaidFrame
<1>3. Paid(c) => Paid(c)'
  BY <1>1, <1>2 DEF Paid
<1>4. ASSUME NEW i \in DOMAIN ledger', ledger'[i].call = c
      PROVE  /\ at'[c] \notin {"unsent", "received"}
             /\ MustConfirm(Access(c), Call(c).tool)' => c \in approved'
  <2>1. i \in DOMAIN ledger /\ ledger[i].call = c
    BY <1>1, <1>4
  <2>2. at[c] \notin {"unsent", "received"} /\ (MustConfirm(Access(c), Call(c).tool) => c \in approved)
    BY <2>1 DEF CallPaid
  <2> QED
    BY <1>2, <2>2 DEF Ending, MustConfirm, Keeps
<1>5. CASE at'[c] = at[c] /\ touched'[c] = touched[c]
  BY <1>2, <1>3, <1>4, <1>5 DEF CallPaid
<1>6. CASE at'[c] \in Ending
  BY <1>4, <1>6 DEF CallPaid, Ending
<1> QED
  BY <1>5, <1>6

(* A call that makes its next request, or starts to.                       *)
LEMMA PaidRequest ==
  ASSUME NEW c \in Calls, CallPaid(c), Keeps(c), ledger' = ledger,
         at[c] \in {"linking", "requesting"}, at'[c] = "requesting",
         touched \in [Calls -> {touched[d] : d \in Calls}], NEW requests,
         requests \subseteq Requests(Access(c), Call(c)), Request(c, requests)
  PROVE  CallPaid(c)'
<1>1. PICK r \in requests : touched' = [touched EXCEPT ![c] = touched[c] \cup r.touches]
  BY DEF Request
<1>2. touched'[c] = touched[c] \cup r.touches /\ r.touches \subseteq Reach(c)
  BY <1>1 DEF Reach
<1>3. touched[c] \subseteq Reach(c)
  BY DEF CallPaid
<1>4. /\ Call(c)' = Call(c) /\ Access(c)' = Access(c)
      /\ Charged(c)' = Charged(c) /\ Reach(c)' = Reach(c) /\ (Live(c)' => Live(c))
  BY PaidFrame
<1>5. Paid(c)' <=> Paid(c)
  BY <1>4 DEF Paid
<1>6. (\A i \in DOMAIN ledger : ledger[i].call = c =>
         /\ at[c] \notin {"unsent", "received"}
         /\ MustConfirm(Access(c), Call(c).tool) => c \in approved)'
  BY <1>4 DEF CallPaid, MustConfirm, Keeps
<1> QED
  BY <1>2, <1>3, <1>4, <1>5, <1>6 DEF CallPaid

(* A call that is charged goes on only when it has been granted.           *)
LEMMA ChargePaid ==
  ASSUME BucketInv, OwnerInv, AccessInv, scene \in Scenes, NEW c \in Calls, CallPaid(c), Charge(c), Keeps(c),
         at[c] \in {"waiting", "asking"}, Ctx(c) \in Contexts,
         MustConfirm(Access(c), Call(c).tool) => c \in approved'
  PROVE  CallPaid(c)' /\ Appends(TRUE, c)
         /\ \A d \in Calls \ {c} : Appends(FALSE, d)
<1>1. /\ Call(c)' = Call(c) /\ Access(c)' = Access(c)
      /\ Charged(c)' = Charged(c) /\ Reach(c)' = Reach(c)
  BY PaidFrame
<1>2. PICK s \in {"linking", "auditing", "answering", "preparing", "confining"} : Moves(c, s)
  BY ChargeMoves
<1>3. at'[c] = s
  BY <1>2 DEF Moves, OwnerInv, CallTypes
<1>4. s \in {"linking", "confining"} => touched'[c] = {}
  <2>1. touched[c] = {}
    BY DEF CallPaid
  <2>2. CASE UNCHANGED touched
    BY <2>1, <2>2
  <2>3. CASE Run(c) /\ Call(c).tool = "get_chat_info"
    BY <1>3, <2>3 DEF Run, ToAnswer, ToAudit, OwnerInv, CallTypes
  <2>4. UNCHANGED touched \/ (Run(c) /\ Call(c).tool = "get_chat_info")
    BY DEF Charge, Run
  <2> QED
    BY <2>2, <2>3, <2>4
<1>5. /\ Appends(TRUE, c) /\ \A d \in Calls \ {c} : Appends(FALSE, d)
      /\ MustConfirm(Access(c), Call(c).tool) => c \in approved'
      /\ s \in {"linking", "confining"} => (Charged(c) => Paid(c)')
  <2>1. CASE ~Charged(c)
    <3>1. ledger' = ledger
      BY <2>1 DEF Charge
    <3> QED
      BY <2>1, <3>1 DEF Appends
  <2>2. CASE Charged(c)
    <3>1. PICK v, e : Decided(c, v, e)
      BY <2>2, ChargeDecides
    <3>2. /\ e \in Entries /\ ledger' = Append(ledger, e) /\ e.call = c /\ e.granted = v.granted
          /\ Call(c).tool = "search_messages" => e.units = UnitsOf(Access(c), Call(c))
          /\ v.granted \/ ToAudit(c)
      BY <3>1 DEF Decided
    <3>3. Appends(TRUE, c) /\ \A d \in Calls \ {c} : Appends(FALSE, d)
      BY <3>2 DEF Appends
    <3>4. ASSUME s \in {"linking", "confining"}
          PROVE  Paid(c)'
      <4>1. v.granted
        BY <1>3, <3>2, <3>4 DEF ToAudit, OwnerInv, CallTypes
      <4>2. ledger \in Seq(Entries)
        BY DEF BucketInv
      <4>3. Len(ledger) + 1 \in DOMAIN ledger' /\ ledger'[Len(ledger) + 1] = e
        BY <3>2, <4>2
      <4> QED
        BY <1>1, <3>2, <4>1, <4>3 DEF Paid
    <3> QED
      BY <3>3, <3>4
  <2> QED
    BY <2>1, <2>2
<1> QED
  BY <1>1, <1>2, <1>3, <1>4, <1>5 DEF CallPaid, MustConfirm

(* The step of a call, for the call itself and for the others.             *)
LEMMA OwnPaid ==
  ASSUME BucketInv, OwnerInv, AccessInv, scene \in Scenes, NEW c \in Calls, CallPaid(c),
         retired \subseteq retired',
         \/ Receive(c) \/ Cancel(c) \/ Approve(c) \/ CallWorks(c)
  PROVE  CallPaid(c)'
<1> USE DEF quotaVars, contextVars, callVars
<1>0. /\ HomeInv(c) /\ AccessAt(c, at[c], touched[c], todo[c], c \in approved)
      /\ ledger \in Seq(Entries) /\ touched \in [Calls -> {touched[d] : d \in Calls}]
      /\ at \in [Calls -> CallStates] /\ home \in [Calls -> 0..MaxGenerations]
  BY DEF OwnerInv, AccessInv, BucketInv, CallTypes
<1>1. CASE Receive(c)
  <2>1. /\ Keeps(c) /\ ledger' = ledger /\ touched'[c] = touched[c] /\ at'[c] \in {"received", "done"}
        /\ at[c] = "unsent"
    BY <1>0, <1>1 DEF Receive, Keeps
  <2>2. \A i \in DOMAIN ledger' : ledger'[i].call # c
    BY <2>1 DEF CallPaid
  <2> QED
    BY <2>1, <2>2 DEF CallPaid
<1>2. CASE Acquire(c)
  <2>1. /\ ledger' = ledger /\ touched'[c] = touched[c] /\ at'[c] = "waiting"
        /\ at[c] = "received"
    BY <1>0, <1>2 DEF Acquire
  <2>2. \A i \in DOMAIN ledger' : ledger'[i].call # c
    BY <2>1 DEF CallPaid
  <2> QED
    BY <2>1, <2>2 DEF CallPaid
<1>3. CASE Cancel(c) \/ Answer(c) \/ Decline(c) \/ Prepared(c)
  <2>1. /\ Keeps(c) /\ ledger' = ledger
        /\ (at'[c] = at[c] /\ touched'[c] = touched[c]) \/ at'[c] \in Ending
    BY <1>0, <1>3 DEF Cancel, Answer, Decline, Prepared, ToAudit, Keeps, Ending
  <2>2. Appends(FALSE, c)
    BY <2>1 DEF Appends
  <2> QED
    BY <1>0, <2>1, <2>2, PaidKept
<1>4. CASE Approve(c)
  <2>1. Charge(c) /\ Keeps(c) /\ at[c] = "asking" /\ c \in approved'
    BY <1>4 DEF Approve, Keeps
  <2>2. Ctx(c) \in Contexts
    BY <1>0, <2>1, CtxTyped DEF HomeInv
  <2> QED
    BY <2>1, <2>2, ChargePaid
<1>5. CASE Execute(c)
  <2>1. Keeps(c) /\ at[c] = "waiting" /\ approved' = approved
    BY <1>5 DEF Execute, Keeps
  <2>2. Ctx(c) \in Contexts
    BY <1>0, <2>1, CtxTyped DEF HomeInv
  <2>3. CASE (ToAnswer(c) \/ ToAudit(c)) /\ ledger' = ledger
    <3>1. at'[c] \in Ending /\ Appends(FALSE, c)
      BY <1>0, <2>3 DEF ToAnswer, ToAudit, Ending, Appends
    <3> QED
      BY <1>0, <2>1, <3>1, PaidKept
  <2>4. CASE at' = [at EXCEPT ![c] = "asking"] /\ UNCHANGED <<touched, ledger>>
    <3>1. /\ Call(c)' = Call(c) /\ Access(c)' = Access(c)
      BY <2>1, PaidFrame
    <3>2. at'[c] = "asking" /\ touched'[c] = {}
      BY <1>0, <2>1, <2>4 DEF CallPaid
    <3> QED
      BY <2>1, <2>4, <3>1, <3>2 DEF CallPaid, MustConfirm
  <2>5. CASE ~MustConfirm(Access(c), Call(c).tool) /\ Charge(c)
    BY <2>1, <2>2, <2>5, ChargePaid
  <2> QED
    BY <1>5, <2>3, <2>4, <2>5 DEF Execute
<1>6. CASE Linked(c)
  <2>1. at[c] = "linking" /\ Keeps(c) /\ ledger' = ledger
    BY <1>6 DEF Linked, Keeps
  <2>2. CASE /\ at' = [at EXCEPT ![c] = "requesting"]
             /\ Request(c, Requests(Access(c), Call(c)))
    <3>1. at'[c] = "requesting"
      BY <1>0, <2>2
    <3> QED
      BY <1>0, <2>1, <2>2, <3>1, PaidRequest
  <2>3. CASE Finish(c, FALSE)
    <3>1. at'[c] \in Ending /\ Appends(FALSE, c)
      BY <1>0, <2>1, <2>3, FinishMoves DEF Moves, Ending, Appends
    <3> QED
      BY <1>0, <2>1, <3>1, PaidKept
  <2> QED
    BY <1>6, <2>2, <2>3 DEF Linked
<1>7. CASE RequestEnds(c)
  <2>1. at[c] = "requesting" /\ Keeps(c) /\ ledger' = ledger
    BY <1>7 DEF RequestEnds, Keeps
  <2>2. CASE Request(c, todo[c]) /\ UNCHANGED at
    <3>1. at'[c] = "requesting" /\ todo[c] \subseteq Requests(Access(c), Call(c))
      BY <1>0, <2>1, <2>2 DEF AccessAt
    <3> QED
      BY <1>0, <2>1, <2>2, <3>1, PaidRequest
  <2>3. CASE Finish(c, TRUE) \/ Finish(c, FALSE)
    <3>1. at'[c] \in Ending /\ Appends(FALSE, c)
      BY <1>0, <2>1, <2>3, FinishMoves DEF Moves, Ending, Appends
    <3> QED
      BY <1>0, <2>1, <3>1, PaidKept
  <2> QED
    BY <1>7, <2>2, <2>3 DEF RequestEnds, Complete
<1>8. CASE MediaConfined(c)
  <2>1. at[c] = "confining" /\ Keeps(c) /\ ledger' = ledger /\ touched' = touched
    BY <1>8 DEF MediaConfined, Keeps
  <2>2. (Live(c) /\ Moves(c, "linking")) \/ \E s \in {"auditing", "answering"} : Moves(c, s)
    BY <1>8, LinkMoves DEF MediaConfined, ToAudit, Moves
  <2>3. CASE \E s \in {"auditing", "answering"} : Moves(c, s)
    <3>1. at'[c] \in Ending /\ Appends(FALSE, c)
      BY <1>0, <2>1, <2>3 DEF Moves, Ending, Appends
    <3> QED
      BY <1>0, <2>1, <3>1, PaidKept
  <2>4. CASE Live(c) /\ Moves(c, "linking")
    <3>1. at'[c] = "linking" /\ touched'[c] = {}
      BY <1>0, <2>1, <2>4 DEF Moves, CallPaid
    <3>2. /\ Call(c)' = Call(c) /\ Access(c)' = Access(c) /\ Charged(c)' = Charged(c)
      BY <2>1, PaidFrame
    <3>3. Charged(c) => Paid(c)'
      BY <2>1, <2>4, <3>2 DEF CallPaid, Paid
    <3> QED
      BY <2>1, <3>1, <3>2, <3>3 DEF CallPaid, MustConfirm, Keeps
  <2> QED
    BY <2>2, <2>3, <2>4
<1> QED
  BY <1>1, <1>2, <1>3, <1>4, <1>5, <1>6, <1>7, <1>8 DEF CallWorks

LEMMA OthersStay ==
  ASSUME OwnerInv, AccessInv, NEW c \in Calls, Receive(c) \/ Cancel(c) \/ Approve(c) \/ CallWorks(c)
  PROVE  /\ scene' = scene /\ approved \subseteq approved'
         /\ \A d \in Calls \ {c} : at'[d] = at[d] /\ touched'[d] = touched[d] /\ home'[d] = home[d]
<1> USE DEF callVars
<1>0. at \in [Calls -> CallStates] /\ touched \in [Calls -> {touched[d] : d \in Calls}]
  BY DEF OwnerInv, AccessInv, CallTypes
<1>1. scene' = scene /\ approved \subseteq approved' /\ \A d \in Calls \ {c} : home'[d] = home[d]
  <2>1. home' = home \/ home' = [home EXCEPT ![c] = generation]
    BY DEF Receive, Cancel, Approve, CallWorks, Acquire, Execute, Decline, Linked, RequestEnds,
      Prepared, MediaConfined, Answer
  <2>2. scene' = scene /\ approved \subseteq approved'
    BY DEF Receive, Cancel, Approve, CallWorks, Acquire, Execute, Decline, Linked, RequestEnds,
      Prepared, MediaConfined, Answer
  <2> QED
    BY <2>1, <2>2 DEF OwnerInv, CallTypes
<1>2. touched' = touched \/ \E T : touched' = [touched EXCEPT ![c] = T]
  <2>1. Run(c) => touched' = touched \/ \E T : touched' = [touched EXCEPT ![c] = T]
    BY DEF Run
  <2>2. Charge(c) => touched' = touched \/ \E T : touched' = [touched EXCEPT ![c] = T]
    BY <2>1 DEF Charge
  <2>3. \A R : Request(c, R) => \E T : touched' = [touched EXCEPT ![c] = T]
    BY DEF Request
  <2>4. CASE Approve(c) \/ Execute(c)
    BY <2>2, <2>4 DEF Approve, Execute
  <2>5. CASE Linked(c)
    BY <2>3, <2>5 DEF Linked
  <2>6. CASE RequestEnds(c)
    BY <2>3, <2>6 DEF RequestEnds, Complete
  <2>7. CASE \/ Receive(c) \/ Cancel(c) \/ Acquire(c) \/ Decline(c) \/ Prepared(c)
             \/ MediaConfined(c) \/ Answer(c)
    BY <2>7 DEF Receive, Cancel, Acquire, Decline, Prepared, MediaConfined, Answer
  <2> QED
    BY <2>4, <2>5, <2>6, <2>7 DEF CallWorks
<1>3. at' = at \/ \E s : at' = [at EXCEPT ![c] = s]
  <2>1. CASE Approve(c) \/ Execute(c)
    BY <2>1, ChargeMoves DEF Approve, Execute, ToAudit, ToAnswer, Moves
  <2>2. CASE Linked(c) \/ RequestEnds(c)
    <3>1. \/ at' = at \/ at' = [at EXCEPT ![c] = "requesting"]
          \/ Finish(c, TRUE) \/ Finish(c, FALSE)
      BY <2>2 DEF Linked, RequestEnds, Complete
    <3> QED
      BY <3>1, FinishMoves DEF Moves
  <2>3. CASE MediaConfined(c)
    BY <2>3, LinkMoves DEF MediaConfined, ToAudit, Moves
  <2>4. CASE \/ Receive(c) \/ Cancel(c) \/ Acquire(c) \/ Decline(c) \/ Prepared(c) \/ Answer(c)
    BY <2>4 DEF Receive, Cancel, Acquire, Decline, Prepared, Answer, ToAudit
  <2> QED
    BY <2>1, <2>2, <2>3, <2>4 DEF CallWorks
<1> QED
  BY <1>0, <1>1, <1>2, <1>3

(* What happens to the ledger: nothing, or a call is charged, or it is     *)
(* forgotten with the account.                                             *)
LEMMA LedgerFrame ==
  ASSUME CallsNext
  PROVE  \/ UNCHANGED <<limiter, spent, ledger>>
         \/ Replace
         \/ \E c \in Calls : (Execute(c) \/ Approve(c)) /\ Charge(c) /\ now' = now
<1> USE DEF quotaVars
<1>1. ASSUME NEW c \in Calls, Receive(c) \/ Cancel(c) \/ Approve(c) \/ CallWorks(c)
      PROVE  \/ UNCHANGED <<limiter, spent, ledger>>
             \/ (Execute(c) \/ Approve(c)) /\ Charge(c) /\ now' = now
  <2>1. CASE Execute(c) \/ Approve(c)
    BY <2>1 DEF Execute, Approve
  <2>2. CASE \/ Receive(c) \/ Cancel(c) \/ Acquire(c) \/ Decline(c) \/ Linked(c) \/ RequestEnds(c)
             \/ Prepared(c) \/ MediaConfined(c) \/ Answer(c)
    BY <2>2 DEF Receive, Cancel, Acquire, Decline, Linked, RequestEnds, Prepared, MediaConfined,
      Answer
  <2> QED
    BY <1>1, <2>1, <2>2 DEF CallWorks
<1>2. CASE \E e \in Endpoints : Stall(e) \/ Close(e)
  BY <1>2 DEF Stall, Close
<1>3. CASE \E x \in Contexts : ContextWorks(x) \/ ReleaseSettles(x)
  BY <1>3 DEF ContextWorks, AccessResolved, BindStarts, ClientBound, BuildFails, ReleaseSettles
<1>4. CASE \/ Publish \/ Dispose \/ TeardownStep \/ AskSnapshot \/ SnapshotEnds
           \/ ConnectionFails \/ ConnectionSettles \/ Audited \/ Tick
  BY <1>4 DEF Publish, Dispose, TeardownStep, AskSnapshot, SnapshotEnds, ConnectionFails,
    ConnectionSettles, RelinkSettles, OpeningSettles, Audited, Tick
<1> QED
  BY <1>1, <1>2, <1>3, <1>4 DEF CallsNext

LEMMA RetiredStay ==
  ASSUME CallsNext
  PROVE  retired \subseteq retired'
<1> USE DEF contextVars
<1>1. CASE \E c \in Calls : Receive(c) \/ Cancel(c) \/ Approve(c) \/ CallWorks(c)
  BY <1>1 DEF Receive, Cancel, Approve, CallWorks, Acquire, Execute, Decline, Linked, RequestEnds,
    Prepared, MediaConfined, Answer
<1>2. CASE \E e \in Endpoints : Stall(e) \/ Close(e)
  BY <1>2 DEF Stall, Close
<1>3. CASE \E x \in Contexts : ContextWorks(x) \/ ReleaseSettles(x)
  BY <1>3 DEF ContextWorks, AccessResolved, BindStarts, ClientBound, BuildFails, ReleaseSettles
<1>4. CASE Publish \/ Dispose
  BY <1>4 DEF Publish, Dispose, Retire
<1>5. CASE \/ TeardownStep \/ Replace \/ AskSnapshot \/ SnapshotEnds
           \/ ConnectionFails \/ ConnectionSettles \/ Audited \/ Tick
  BY <1>5 DEF TeardownStep, Replace, AskSnapshot, SnapshotEnds, ConnectionFails,
    ConnectionSettles, RelinkSettles, OpeningSettles, Audited, Tick
<1> QED
  BY <1>1, <1>2, <1>3, <1>4, <1>5 DEF CallsNext

(* The limiter's own part of the invariant.                                *)
LEMMA LedgerStepInv ==
  ASSUME OwnerInv, BucketInv, BreakerInv, scene \in Scenes, [CallsNext]_vars
  PROVE  BucketInv' /\ BreakerInv'
<1>0. now \in Nat
  BY DEF BucketInv
<1>1. ASSUME UNCHANGED <<limiter, spent, ledger>>
      PROVE  BucketInv' /\ BreakerInv'
  <2>1. now' = now \/ now' = now + 1
    <3>1. CASE UNCHANGED vars
      BY <3>1 DEF vars, quotaVars
    <3>2. CASE CallsNext
      BY <3>2, LimitsFrame DEF Tick
    <3> QED
      BY <3>1, <3>2
  <2>2. now' \in Nat /\ now <= now'
    BY <1>0, <2>1
  <2> QED
    BY <1>1, <2>2, TickLedger
<1>2. CASE UNCHANGED vars
  BY <1>1, <1>2 DEF vars, quotaVars
<1>3. CASE Replace
  <2>1. /\ now' = now /\ limiter' = FreshLimiter(now) /\ ledger' = <<>>
        /\ spent' = [b \in Buckets |-> 0]
    BY <1>3 DEF Replace
  <2>2. (now \in Nat /\ limiter = FreshLimiter(now) /\ spent = [b \in Buckets |-> 0] /\ ledger = <<>>
           => BucketInv /\ BreakerInv)'
    BY FreshLedger, PTL
  <2>3. FreshLimiter(now)' = FreshLimiter(now)
    BY <2>1 DEF FreshLimiter
  <2> QED
    BY <1>0, <2>1, <2>2, <2>3
<1>4. ASSUME NEW c \in Calls, Execute(c) \/ Approve(c), Charge(c), now' = now
      PROVE  BucketInv' /\ BreakerInv'
  <2>1. CASE ~Charged(c)
    BY <1>1, <1>4, <2>1 DEF Charge
  <2>2. CASE Charged(c)
    <3>1. at[c] \in {"waiting", "asking"}
      BY <1>4 DEF Execute, Approve
    <3>2. Ctx(c) \in Contexts
      BY <3>1, CtxTyped DEF OwnerInv, HomeInv
    <3>3. PICK v, e : Decided(c, v, e)
      BY <1>4, <2>2, <3>2, ChargeDecides
    <3> QED
      BY <1>4, <3>3, ChargeLedger
  <2> QED
    BY <2>1, <2>2
<1> QED
  BY <1>1, <1>2, <1>3, <1>4, LedgerFrame

(* A step that leaves the calls alone, but for some that it answers.       *)
LEMMA PaidQuiet ==
  ASSUME BucketInv, PaidInv, UNCHANGED <<scene, home, touched, approved, ledger>>,
         retired \subseteq retired',
         \A c \in Calls : at'[c] = at[c] \/ at'[c] = "answering"
  PROVE  PaidInv'
<1>1. ledger \in Seq(Entries)
  BY DEF BucketInv
<1>2. ASSUME NEW c \in Calls
      PROVE  CallPaid(c)'
  <2>1. Keeps(c) /\ Appends(FALSE, c) /\ CallPaid(c)
    BY DEF Keeps, Appends, PaidInv
  <2>2. (at'[c] = at[c] /\ touched'[c] = touched[c]) \/ at'[c] \in Ending
    BY DEF Ending
  <2> QED
    BY <1>1, <2>1, <2>2, PaidKept
<1> QED
  BY <1>2 DEF PaidInv

LEMMA CallStepPaid ==
  ASSUME OwnerInv, AccessInv, BucketInv, PaidInv, scene \in Scenes, retired \subseteq retired',
         NEW c \in Calls, Receive(c) \/ Cancel(c) \/ Approve(c) \/ CallWorks(c),
         UNCHANGED ledger \/ ((Execute(c) \/ Approve(c)) /\ Charge(c))
  PROVE  PaidInv'
<1>1. CallPaid(c)'
  BY OwnPaid DEF PaidInv
<1>2. ASSUME NEW d \in Calls \ {c}
      PROVE  CallPaid(d)'
  <2>1. /\ at'[d] = at[d] /\ touched'[d] = touched[d] /\ home'[d] = home[d]
        /\ scene' = scene /\ approved \subseteq approved'
    BY OthersStay
  <2>2. Keeps(d) /\ CallPaid(d)
    BY <2>1 DEF Keeps, PaidInv
  <2>3. Appends(FALSE, d)
    <3>1. CASE UNCHANGED ledger
      BY <3>1 DEF Appends
    <3>2. CASE (Execute(c) \/ Approve(c)) /\ Charge(c)
      <4>1. CASE ~Charged(c)
        BY <3>2, <4>1 DEF Charge, Appends
      <4>2. CASE Charged(c)
        <5>1. at[c] \in {"waiting", "asking"}
          BY <3>2 DEF Execute, Approve
        <5>2. Ctx(c) \in Contexts
          BY <5>1, CtxTyped DEF OwnerInv, HomeInv
        <5>3. PICK v, e : Decided(c, v, e)
          BY <3>2, <4>2, <5>2, ChargeDecides
        <5> QED
          BY <5>3 DEF Decided, Appends
      <4> QED
        BY <4>1, <4>2
    <3> QED
      BY <3>1, <3>2
  <2>4. ledger \in Seq(Entries)
    BY DEF BucketInv
  <2> QED
    BY <2>1, <2>2, <2>3, <2>4, PaidKept
<1> QED
  BY <1>1, <1>2 DEF PaidInv

(* When an account is replaced no call of it can still use what it paid.   *)
LEMMA ReplacePaid ==
  ASSUME OwnerInv, PaidInv, Replace
  PROVE  PaidInv'
<1>1. /\ UNCHANGED <<scene, at, home, retired, touched>> /\ ledger' = <<>> /\ teardown = "done"
  BY DEF Replace, callVars
<1>2. ASSUME NEW c \in Calls
      PROVE  ~(at[c] \in {"linking", "requesting"} \/ (at[c] = "confining" /\ Live(c)))
  <2>1. ~Tracked(c) /\ HomeInv(c)
    BY <1>1, PastIsIdle DEF Past, OwnerInv
  <2>2. at[c] = "confining" => ~Live(c)
    <3>1. at[c] = "confining" => Ctx(c) \in Contexts /\ context[Ctx(c)] = "bound"
      BY <2>1, CtxTyped DEF HomeInv
    <3> QED
      BY <1>1, <3>1 DEF Live, OwnerInv, ClientInv, Disposed
  <2> QED
    BY <2>1, <2>2 DEF Tracked
<1>3. ASSUME NEW c \in Calls
      PROVE  CallPaid(c)'
  <2>1. Reach(c)' = Reach(c) /\ Live(c)' = Live(c)
    BY <1>1 DEF Reach, Access, AccessOf, Ctx, Call, Live
  <2>2. DOMAIN ledger' = {}
    BY <1>1
  <2>3. CallPaid(c)
    BY DEF PaidInv
  <2> QED
    BY <1>1, <1>2, <2>1, <2>2, <2>3 DEF CallPaid
<1> QED
  BY <1>3 DEF PaidInv

LEMMA PaidStepInv ==
  ASSUME OwnerInv, AuditInv, AccessInv, BucketInv, PaidInv, scene \in Scenes, [CallsNext]_vars
  PROVE  PaidInv'
<1> USE DEF callVars, quotaVars
<1>1. CASE UNCHANGED vars
  <2>1. retired' = retired
    BY <1>1 DEF vars, contextVars
  <2> QED
    BY <1>1, <2>1, PaidQuiet DEF vars
<1>2. ASSUME CallsNext
      PROVE  retired \subseteq retired'
  BY <1>2, RetiredStay
<1>3. ASSUME NEW c \in Calls, Receive(c) \/ Cancel(c) \/ Approve(c) \/ CallWorks(c)
      PROVE  PaidInv'
  <2>1. UNCHANGED ledger \/ ((Execute(c) \/ Approve(c)) /\ Charge(c))
    <3>1. CASE Execute(c) \/ Approve(c)
      BY <3>1 DEF Execute, Approve
    <3>2. CASE \/ Receive(c) \/ Cancel(c) \/ Acquire(c) \/ Decline(c) \/ Linked(c)
               \/ RequestEnds(c) \/ Prepared(c) \/ MediaConfined(c) \/ Answer(c)
      BY <3>2 DEF Receive, Cancel, Acquire, Decline, Linked, RequestEnds, Prepared,
        MediaConfined, Answer
    <3> QED
      BY <1>3, <3>1, <3>2 DEF CallWorks
  <2>2. CallsNext
    BY <1>3 DEF CallsNext
  <2> QED
    BY <1>2, <1>3, <2>1, <2>2, CallStepPaid
<1>4. CASE CallsNext /\ \E e \in Endpoints : Stall(e) \/ Close(e)
  BY <1>2, <1>4, PaidQuiet DEF Stall, Close
<1>5. CASE CallsNext /\ \E x \in Contexts : ContextWorks(x) \/ ReleaseSettles(x)
  <2>1. /\ UNCHANGED <<scene, home, touched, approved, ledger>>
        /\ \A c \in Calls : at'[c] = at[c] \/ at'[c] = "answering"
    BY <1>5 DEF ContextWorks, ReleaseSettles, AccessResolved, BindStarts, ClientBound, BuildFails
  <2> QED
    BY <1>2, <1>5, <2>1, PaidQuiet
<1>6. CASE CallsNext /\ (Publish \/ Dispose \/ TeardownStep)
  BY <1>2, <1>6, PaidQuiet DEF Publish, Dispose, TeardownStep
<1>7. CASE Replace
  BY <1>7, ReplacePaid
<1>8. CASE /\ CallsNext
           /\ AskSnapshot \/ SnapshotEnds \/ ConnectionFails \/ ConnectionSettles \/ Tick
  BY <1>2, <1>8, PaidQuiet DEF AskSnapshot, SnapshotEnds, ConnectionFails, ConnectionSettles,
      RelinkSettles, OpeningSettles, Tick
<1>9. CASE CallsNext /\ Audited
  <2>1. /\ UNCHANGED <<scene, home, touched, approved, ledger>>
        /\ \A c \in Calls : at'[c] = at[c] \/ at'[c] = "answering"
    BY <1>9 DEF Audited, OwnerInv, CallTypes
  <2> QED
    BY <1>2, <1>9, <2>1, PaidQuiet
<1> QED
  BY <1>1, <1>3, <1>4, <1>5, <1>6, <1>7, <1>8, <1>9 DEF CallsNext

-----------------------------------------------------------------------------
(* A search page makes no more requests than it is charged for.            *)

LEMMA FirstAreFew ==
  ASSUME NEW m \in Nat, NEW S \in SUBSET (1..m), NEW n \in Nat
  PROVE  IsFiniteSet(FirstOf(S, n)) /\ Cardinality(FirstOf(S, n)) <= n
<1> DEFINE F == FirstOf(S, n)
<1>1. F \subseteq S /\ F \subseteq 0..m /\ \A i \in F : i \in Nat
  <2>1. F \subseteq S
    BY DEF FirstOf
  <2> HIDE DEF F
  <2>2. \A i \in F : i \in 1..m
    BY <2>1
  <2> QED
    BY <2>1, <2>2
<1>2. IsFiniteSet(S)
  <2>1. IsFiniteSet(1..m)
    BY FS_Interval
  <2> QED
    BY <2>1, FS_Subset
<1>3. IsFiniteSet(F)
  BY <1>1, <1>2, FS_Subset
<1>4. CASE F = {}
  BY <1>3, <1>4, FS_EmptySet
<1>5. CASE F # {}
  <2>1. PICK g \in F : \A i \in F : i <= g
    <3> HIDE DEF F
    <3> QED
      BY <1>1, <1>5, GreatestNatural
  <2> DEFINE before == {j \in S : j < g}
  <2>2. Cardinality(before) < n
    BY <2>1 DEF FirstOf
  <2>3. IsFiniteSet(before) /\ Cardinality(before) \in Nat
    <3>1. before \in SUBSET S
      OBVIOUS
    <3> HIDE DEF before
    <3> QED
      BY <1>2, <3>1, FS_Subset, FS_CardinalityType
  <2>4. F \subseteq before \cup {g}
    <3>1. \A i \in F : i \in S /\ (i < g \/ i = g)
      BY <1>1, <2>1
    <3> QED
      BY <3>1
  <2> HIDE DEF before
  <2>5. IsFiniteSet(before \cup {g}) /\ Cardinality(before \cup {g}) <= Cardinality(before) + 1
    <3>1. /\ IsFiniteSet(before \cup {g})
          /\ Cardinality(before \cup {g}) = IF g \in before THEN Cardinality(before)
                                            ELSE Cardinality(before) + 1
      BY <2>3, FS_AddElement
    <3> QED
      BY <2>3, <3>1
  <2>6. Cardinality(F) <= Cardinality(before \cup {g})
    BY <2>4, <2>5, FS_Subset
  <2>7. Cardinality(F) \in Nat /\ Cardinality(before \cup {g}) \in Nat
    BY <1>3, <2>5, FS_CardinalityType
  <2>8. Cardinality(F) <= n
    BY <2>2, <2>3, <2>5, <2>6, <2>7
  <2> QED
    BY <1>3, <2>8
<1> QED
  BY <1>4, <1>5

LEMMA ReachIsPaid ==
  ASSUME NEW access, IsFiniteSet(ScopeOf(access)), NEW call, IsCall(call),
         call.tool = "search_messages",
         NEW T, T \subseteq UNION {r.touches : r \in Requests(access, call)}
  PROVE  Cardinality(T) <= UnitsOf(access, call)
<1> DEFINE n == Cardinality(ScopeOf(access))
<1>0. n \in Nat /\ MaxFanout \in Nat
  BY FS_CardinalityType, AccountAssumption
<1>1. CASE call.wide
  <2> DEFINE P == SearchedPlaces(access, call)
             visited == [i \in P |-> <<Dialogs[i], "read">>]
             seen == {<<Dialogs[i], "read">> : i \in P}
             inScope == [p \in ScopeOf(access) |-> <<p, "read">>]
             readable == {<<p, "read">> : p \in ScopeOf(access)}
  <2>1. T \subseteq seen
    <3>1. Requests(access, call) = {[n |-> i, touches |-> {<<Dialogs[i], "read">>}] : i \in P}
      BY <1>1 DEF Requests
    <3>2. \A t \in T : \E i \in P : t = <<Dialogs[i], "read">>
      BY <3>1
    <3> QED
      BY <3>2
  <2>2. seen \subseteq readable
    <3>1. \A i \in P : Dialogs[i] \in ScopeOf(access)
      BY DEF SearchedPlaces, FirstOf, ReadablePlaces, BoundPlaces
    <3> QED
      BY <3>1
  <2>3. IsFiniteSet(P) /\ Cardinality(P) <= MaxFanout
    <3> DEFINE rest == ReadablePlaces(access) \ FirstOf(BoundPlaces(access), call.from)
    <3>1. rest \in SUBSET (1..Len(Dialogs)) /\ Len(Dialogs) \in Nat
      BY AccountAssumption DEF ReadablePlaces, BoundPlaces
    <3>2. P = FirstOf(rest, MaxFanout)
      BY DEF SearchedPlaces
    <3> HIDE DEF rest, P
    <3> QED
      BY <1>0, <3>1, <3>2, FirstAreFew
  <2>4. visited \in Surjection(P, seen) /\ inScope \in Surjection(ScopeOf(access), readable)
    BY DEF Surjection
  <2> HIDE DEF visited, seen, inScope, readable, P
  <2>5. IsFiniteSet(seen) /\ Cardinality(seen) <= Cardinality(P)
    BY <2>3, <2>4, FS_Surjection
  <2>6. IsFiniteSet(readable) /\ Cardinality(readable) <= n
    BY <2>4, FS_Surjection
  <2>7. IsFiniteSet(T) /\ Cardinality(T) <= Cardinality(seen) /\ Cardinality(T) <= Cardinality(readable)
    BY <2>1, <2>2, <2>5, <2>6, FS_Subset
  <2>8. /\ Cardinality(T) \in Nat /\ Cardinality(seen) \in Nat /\ Cardinality(readable) \in Nat
        /\ Cardinality(P) \in Nat
    BY <2>3, <2>5, <2>6, <2>7, FS_CardinalityType
  <2>9. Cardinality(T) <= n /\ Cardinality(T) <= MaxFanout
    <3> HIDE DEF n
    <3> QED
      BY <1>0, <2>3, <2>5, <2>6, <2>7, <2>8
  <2> QED
    BY <1>1, <2>9 DEF UnitsOf
<1>2. CASE ~call.wide
  <2> DEFINE verb == VerbOf(call.tool)
             one == {<<call.peer.peer, verb>>}
  <2>1. Targets(call) = <<[ref |-> call.peer, verb |-> verb]>>
    BY <1>2 DEF Targets
  <2>2. DOMAIN Targets(call) = {1} /\ Targets(call)[1].ref = call.peer /\ Targets(call)[1].verb = verb
    BY <2>1
  <2>3. \A r \in Requests(access, call) :
          r.touches = UNION {{<<p, Targets(call)[i].verb>> : p \in LookUp(access, Targets(call)[i].ref)} :
                               i \in DOMAIN Targets(call)}
    BY <1>2 DEF Requests
  <2>4. LookUp(access, call.peer) \subseteq {call.peer.peer}
    BY ResolvesToPeer DEF LookUp, IsCall
  <2>5. T \subseteq one
    <3>1. ASSUME NEW t \in T
          PROVE  t \in one
      <4>1. PICK r \in Requests(access, call) : t \in r.touches
        BY <3>1
      <4>2. PICK i \in DOMAIN Targets(call) :
              t \in {<<p, Targets(call)[i].verb>> : p \in LookUp(access, Targets(call)[i].ref)}
        BY <2>3, <4>1
      <4>3. t \in {<<p, verb>> : p \in LookUp(access, call.peer)}
        BY <2>2, <4>2
      <4> QED
        BY <2>4, <4>3
    <3> QED
      BY <3>1
  <2>6. IsFiniteSet(one) /\ Cardinality(one) = 1
    BY FS_Singleton
  <2> HIDE DEF one
  <2> QED
    BY <1>2, <2>5, <2>6, FS_Subset DEF UnitsOf
<1> QED
  BY <1>1, <1>2

LEMMA CallsPay ==
  CallsSpec => [](OwnerInv /\ AuditInv /\ LimitInv /\ AccessInv /\ BucketInv /\ BreakerInv /\ PaidInv)
<1>1. CallsInit => BucketInv /\ BreakerInv
  BY FreshLedger DEF CallsInit
<1>2. CallsInit => OwnerInv /\ AuditInv /\ LimitInv /\ AccessInv /\ BucketInv /\ BreakerInv /\ PaidInv
  BY <1>1, OwnerInvInit, AuditInvInit, LimitInvInit, AccessInvInit, PaidInvInit
<1>3. /\ OwnerInv /\ AuditInv /\ LimitInv /\ AccessInv /\ BucketInv /\ BreakerInv /\ PaidInv
      /\ [CallsNext]_vars
      => (OwnerInv /\ AuditInv /\ LimitInv /\ AccessInv /\ BucketInv /\ BreakerInv /\ PaidInv)'
  BY CallsStepInv, LimitStepInv, AccessStepInv, LedgerStepInv, PaidStepInv DEF LimitInv
<1> QED
  BY <1>2, <1>3, PTL DEF CallsSpec

(* Whatever the budgets, the breaker's settings, the policies and the      *)
(* calls: between two grants an account spends no more than a full burst   *)
(* and the refills since; after the refusals that trip the breaker nothing *)
(* is granted for the cooldown; what is in flight is paid for, a search    *)
(* request by request; and what a human must approve is charged only       *)
(* after that (token-bucket-rate-limiter.ts:99-188, use-case-engine.ts:260).*)
THEOREM QuotaKept == CallsSpec => []QuotaHolds
<1>1. OwnerInv /\ LimitInv /\ AccessInv /\ BucketInv /\ BreakerInv /\ PaidInv => QuotaHolds
  <2> SUFFICES ASSUME OwnerInv, LimitInv, AccessInv, BucketInv, BreakerInv, PaidInv
               PROVE  QuotaHolds
    OBVIOUS
  <2>0. \A i \in DOMAIN ledger : ledger[i] \in Entries
    <3>1. ledger \in Seq(Entries)
      BY DEF BucketInv
    <3> QED
      BY <3>1
  <2>1. ASSUME NEW b \in Buckets, NEW i \in Granted(b), NEW j \in Granted(b), i <= j
        PROVE  UnitsBetween(i, j) * Minute <= Capacity[b] * (Minute + ledger[j].at - ledger[i].at)
    <3>1. Apart(ledger[i], ledger[j])
      BY <2>1 DEF BucketInv, Granted
    <3> QED
      BY <3>1 DEF Apart, Granted, UnitsBetween
  <2>2. ASSUME NEW i \in LongRefusals, TripsAt(i), NEW j \in DOMAIN ledger, j > i, ledger[j].granted
        PROVE  ledger[j].at >= ledger[i].at + Cooldown
    <3>1. LeftAlone(i)
      BY DEF BreakerInv
    <3> QED
      BY <2>2, <3>1 DEF LeftAlone
  <2>3. ASSUME NEW c \in Calls, at[c] = "requesting", Charged(c)
        PROVE  \E i \in DOMAIN ledger :
                 /\ ledger[i].call = c
                 /\ ledger[i].granted
                 /\ Call(c).tool = "search_messages" => Cardinality(touched[c]) <= ledger[i].units
    <3>1. Paid(c) /\ touched[c] \subseteq Reach(c)
      BY <2>3 DEF PaidInv, CallPaid
    <3>2. Ctx(c) \in Contexts
      BY <2>3, CtxTyped DEF OwnerInv, HomeInv
    <3>3. IsFiniteSet(ScopeOf(Access(c))) /\ IsCall(Call(c))
      <4>1. Ctx(c)[1] \in Endpoints /\ Ctx(c)[2] \in Generations
        BY <3>2 DEF Contexts
      <4> QED
        BY <4>1, ScenesAssumption, SceneGiven DEF Access, AccessOf, LimitInv
    <3>4. Call(c).tool = "search_messages" => Cardinality(touched[c]) <= UnitsOf(Access(c), Call(c))
      BY <3>1, <3>3, ReachIsPaid DEF Reach
    <3> QED
      BY <3>1, <3>4 DEF Paid
  <2>4. ASSUME NEW i \in DOMAIN ledger, MustConfirm(Access(ledger[i].call), Call(ledger[i].call).tool)
        PROVE  ledger[i].call \in approved
    <3>1. PICK c \in Calls : ledger[i].call = c
      BY <2>0 DEF Entries
    <3> QED
      BY <2>4, <3>1 DEF PaidInv, CallPaid
  <2> QED
    BY <2>1, <2>2, <2>3, <2>4 DEF QuotaHolds
<1> QED
  BY <1>1, CallsPay, PTL

-----------------------------------------------------------------------------
(* The keys that a scoped client remembers, and those acknowledged by it.  *)

(* The other keys acknowledged after the first time for k.                 *)
After(s, k) == {s[i] : i \in {j \in DOMAIN s : j > Min({i \in DOMAIN s : s[i] = k})}} \ {k}

(* known remembers every key of s but those after which MaxKeys others     *)
(* came, in an order that forgets no key before an older one.              *)
Recalled(known, s, k) ==
  \/ \E p \in DOMAIN known :
       known[p] = k /\ \A q \in DOMAIN known : q > p => known[q] \in After(s, k)
  \/ Cardinality(After(s, k)) >= MaxKeys

Recalls(known, s) ==
  /\ \A i, j \in DOMAIN known : known[i] = known[j] => i = j
  /\ \A i \in DOMAIN known : known[i] \in ToSet(s)
  /\ NoKey \notin ToSet(s)
  /\ \A k \in ToSet(s) : Recalled(known, s, k)

LEMMA LeastIsMin ==
  ASSUME NEW T \in SUBSET Nat, T # {}
  PROVE  Min(T) \in T /\ \A y \in T : Min(T) <= y
<1>1. \E x \in T : \A y \in T : x <= y
  BY LeastNatural
<1> QED
  BY <1>1 DEF Min

LEMMA SequenceIsFinite ==
  ASSUME NEW S, NEW s \in Seq(S)
  PROVE  /\ IsFiniteSet(ToSet(s))
         /\ Len(s) \in Nat /\ DOMAIN s = 1..Len(s) /\ ToSet(s) = {s[i] : i \in DOMAIN s}
         /\ (\A i, j \in DOMAIN s : s[i] = s[j] => i = j) => Cardinality(ToSet(s)) = Len(s)
<1>1. Len(s) \in Nat /\ DOMAIN s = 1..Len(s) /\ ToSet(s) = {s[i] : i \in DOMAIN s}
  BY DEF ToSet
<1>2. s \in Surjection(1..Len(s), ToSet(s))
  BY <1>1 DEF Surjection
<1>3. IsFiniteSet(1..Len(s)) /\ Cardinality(1..Len(s)) = Len(s)
  BY <1>1, FS_Interval
<1>4. IsFiniteSet(ToSet(s)) /\ (Cardinality(ToSet(s)) = Cardinality(1..Len(s))
                                  <=> s \in Injection(1..Len(s), ToSet(s)))
  BY <1>2, <1>3, FS_Surjection
<1>5. (\A i, j \in DOMAIN s : s[i] = s[j] => i = j) => s \in Injection(1..Len(s), ToSet(s))
  <2>1. s \in [1..Len(s) -> ToSet(s)]
    BY <1>2 DEF Surjection
  <2> QED
    BY <1>1, <2>1 DEF Injection, IsInjective
<1> QED
  BY <1>1, <1>3, <1>4, <1>5

LEMMA AfterAppend ==
  ASSUME NEW S, NEW s \in Seq(S), NEW m \in S, NEW k
  PROVE  /\ IsFiniteSet(After(s, k)) /\ After(s, k) \in SUBSET ToSet(s)
         /\ k \in ToSet(s) => After(Append(s, m), k) = After(s, k) \cup ({m} \ {k})
<1> DEFINE t == Append(s, m)
           n == Len(s)
           T == {i \in DOMAIN s : s[i] = k}
           U == {i \in DOMAIN t : t[i] = k}
<1>1. /\ IsFiniteSet(ToSet(s)) /\ n \in Nat /\ DOMAIN s = 1..n
      /\ ToSet(s) = {s[i] : i \in DOMAIN s}
  BY SequenceIsFinite
<1>2. After(s, k) \in SUBSET ToSet(s)
  BY <1>1 DEF After
<1>3. IsFiniteSet(After(s, k))
  BY <1>1, <1>2, FS_Subset
<1>4. ASSUME k \in ToSet(s)
      PROVE  After(t, k) = After(s, k) \cup ({m} \ {k})
  <2>1. DOMAIN t = 1..(n + 1) /\ t[n + 1] = m /\ \A i \in DOMAIN s : t[i] = s[i]
    BY <1>1
  <2>2. T \in SUBSET Nat /\ U \in SUBSET Nat /\ T # {} /\ T \subseteq U
    BY <1>1, <1>4, <2>1
  <2>3. \A i \in U : i \in T \/ i = n + 1
    BY <1>1, <2>1
  <2>4. \A i \in T : i \in 1..n
    BY <1>1
  <2> DEFINE f == Min(T)
             g == Min(U)
  <2>5. f \in T /\ \A y \in T : f <= y
    BY <2>2, LeastIsMin
  <2>6. g \in U /\ \A y \in U : g <= y
    <3>1. U # {}
      BY <2>2
    <3> QED
      BY <2>2, <3>1, LeastIsMin
  <2>7. g = f
    <3> HIDE DEF f, g, T, U
    <3>1. g <= f /\ f \in 1..n
      BY <2>2, <2>4, <2>5, <2>6
    <3>2. g \in Nat /\ n \in Nat
      BY <1>1, <2>2, <2>6
    <3>3. g \in T
      BY <2>3, <2>6, <3>1, <3>2
    <3> QED
      BY <2>5, <3>1, <3>2, <3>3
  <2>8. f \in 1..n
    BY <2>4, <2>5
  <2> HIDE DEF f, g
  <2>9. After(s, k) = {s[i] : i \in {j \in DOMAIN s : j > f}} \ {k}
    BY DEF After, f
  <2>10. After(t, k) = {t[i] : i \in {j \in DOMAIN t : j > f}} \ {k}
    BY <2>7 DEF After, g
  <2>11. \A j : j \in DOMAIN t /\ j > f <=> (j \in DOMAIN s /\ j > f) \/ j = n + 1
    <3>1. n \in Nat /\ DOMAIN s = 1..n /\ DOMAIN t = 1..(n + 1) /\ f \in 1..n
      BY <1>1, <2>1, <2>8
    <3> HIDE DEF n, t
    <3> QED
      BY <3>1
  <2> HIDE DEF t
  <2>12. \A y : y \in {t[i] : i \in {j \in DOMAIN t : j > f}}
                  <=> y \in {s[i] : i \in {j \in DOMAIN s : j > f}} \/ y = m
    BY <2>1, <2>11
  <2> QED
    BY <2>9, <2>10, <2>12
<1> QED
  BY <1>2, <1>3, <1>4

(* One more acknowledgment forgets none that counted before.               *)
LEMMA RecalledLonger ==
  ASSUME NEW known, NEW s \in Seq(SendKeys), NEW key \in SendKeys, NEW k \in ToSet(s),
         Recalled(known, s, k)
  PROVE  Recalled(known, Append(s, key), k)
<1>1. /\ IsFiniteSet(After(s, k)) /\ IsFiniteSet(After(Append(s, key), k))
      /\ After(Append(s, key), k) = After(s, k) \cup ({key} \ {k})
  <2>1. /\ IsFiniteSet(After(s, k)) /\ k \in ToSet(s)
        /\ After(Append(s, key), k) = After(s, k) \cup ({key} \ {k})
    BY AfterAppend
  <2>2. IsFiniteSet(After(s, k) \cup {key})
    BY <2>1, FS_AddElement
  <2>3. After(Append(s, key), k) \in SUBSET (After(s, k) \cup {key})
    BY <2>1
  <2>4. IsFiniteSet(After(Append(s, key), k))
    BY <2>2, <2>3, FS_Subset
  <2> QED
    BY <2>1, <2>4
<1>2. Cardinality(After(s, k)) <= Cardinality(After(Append(s, key), k))
  BY <1>1, FS_Subset
<1>3. Cardinality(After(s, k)) \in Nat /\ Cardinality(After(Append(s, key), k)) \in Nat
  BY <1>1, FS_CardinalityType
<1>4. MaxKeys \in Nat
  BY CallsAssumption
<1> QED
  BY <1>1, <1>2, <1>3, <1>4 DEF Recalled

(* A key is remembered, behind those that are kept.                        *)
LEMMA RecallAppend ==
  ASSUME NEW kept \in Seq(SendKeys), NEW s \in Seq(SendKeys), NEW key \in SendKeys,
         key # NoKey, \A i \in DOMAIN kept : kept[i] # key,
         \A i, j \in DOMAIN kept : kept[i] = kept[j] => i = j,
         \A i \in DOMAIN kept : kept[i] \in ToSet(s),
         NoKey \notin ToSet(s),
         \A k \in ToSet(s) :
           \/ Recalled(kept, s, k)
           \/ Len(kept) + 1 = MaxKeys /\ k # key /\ \A q \in DOMAIN kept : kept[q] \in After(s, k)
  PROVE  Recalls(Append(kept, key), Append(s, key))
<1> DEFINE t == Append(s, key)
           known == Append(kept, key)
           n == Len(kept)
<1>1. /\ t \in Seq(SendKeys) /\ known \in Seq(SendKeys)
      /\ n \in Nat /\ DOMAIN kept = 1..n /\ DOMAIN known = 1..(n + 1) /\ Len(known) = n + 1
      /\ known[n + 1] = key /\ \A i \in DOMAIN kept : known[i] = kept[i]
  OBVIOUS
<1>2. ToSet(t) = ToSet(s) \cup {key}
  <2>1. /\ DOMAIN t = 1..(Len(s) + 1) /\ t[Len(s) + 1] = key /\ Len(s) \in Nat
        /\ DOMAIN s = 1..Len(s) /\ \A i \in DOMAIN s : t[i] = s[i]
    OBVIOUS
  <2>2. \A i \in DOMAIN t : i \in DOMAIN s \/ i = Len(s) + 1
    BY <2>1
  <2>3. \A i \in DOMAIN s : i \in DOMAIN t
    BY <2>1
  <2>4. \A y : y \in {t[i] : i \in DOMAIN t} <=> y \in {s[i] : i \in DOMAIN s} \/ y = key
    BY <2>1, <2>2, <2>3
  <2> QED
    BY <2>4 DEF ToSet
<1>3. \A k \in ToSet(s) : After(t, k) = After(s, k) \cup ({key} \ {k})
  BY AfterAppend
<1> HIDE DEF t, known, n
<1>4. \A i \in DOMAIN known : i \in DOMAIN kept \/ i = n + 1
  BY <1>1
<1>5. \A i, j \in DOMAIN known : known[i] = known[j] => i = j
  BY <1>1, <1>4
<1>6. \A i \in DOMAIN known : known[i] \in ToSet(t)
  BY <1>1, <1>2, <1>4
<1>7. ASSUME NEW k \in ToSet(s)
      PROVE  Recalled(known, t, k)
  <2>1. CASE Recalled(kept, s, k)
    <3>1. Recalled(kept, t, k)
      BY <2>1, RecalledLonger DEF t
    <3>2. ASSUME NEW p \in DOMAIN kept, kept[p] = k,
                 \A q \in DOMAIN kept : q > p => kept[q] \in After(t, k)
          PROVE  Recalled(known, t, k)
      <4>1. p \in DOMAIN known /\ known[p] = k /\ key # k
        BY <1>1, <3>2
      <4>2. key \in After(t, k)
        BY <1>3, <4>1
      <4>3. \A q \in DOMAIN known : q > p => known[q] \in After(t, k)
        BY <1>1, <1>4, <3>2, <4>2
      <4> QED
        BY <4>1, <4>3 DEF Recalled
    <3> QED
      BY <3>1, <3>2 DEF Recalled
  <2>2. CASE Len(kept) + 1 = MaxKeys /\ k # key /\ \A q \in DOMAIN kept : kept[q] \in After(s, k)
    <3>1. \A i \in DOMAIN known : known[i] \in After(t, k)
      BY <1>1, <1>3, <1>4, <2>2
    <3>2. Cardinality(ToSet(known)) = MaxKeys /\ ToSet(known) = {known[i] : i \in DOMAIN known}
      BY <1>1, <1>5, <2>2, SequenceIsFinite DEF n
    <3>3. IsFiniteSet(After(t, k))
      BY <1>1, AfterAppend
    <3>4. ToSet(known) \in SUBSET After(t, k)
      BY <3>1, <3>2
    <3>5. MaxKeys <= Cardinality(After(t, k)) /\ Cardinality(After(t, k)) \in Nat
      BY <3>2, <3>3, <3>4, FS_Subset, FS_CardinalityType
    <3> QED
      BY <3>5, CallsAssumption DEF Recalled
  <2> QED
    BY <2>1, <2>2
<1>8. key \notin ToSet(s) => Recalled(known, t, key)
  <2>1. n + 1 \in DOMAIN known /\ \A q \in DOMAIN known : ~(q > n + 1)
    BY <1>1
  <2> QED
    BY <1>1, <2>1 DEF Recalled
<1>9. Recalls(known, t)
  BY <1>2, <1>5, <1>6, <1>7, <1>8 DEF Recalls
<1> QED
  BY <1>9 DEF known, t

LEMMA RecallsNext ==
  ASSUME NEW known \in Seq(SendKeys), NEW s \in Seq(SendKeys), NEW key \in SendKeys,
         key # NoKey, Recalls(known, s), Len(known) <= MaxKeys
  PROVE  Recalls(Remember(known, key), Append(s, key))
<1>1. /\ \A i, j \in DOMAIN known : known[i] = known[j] => i = j
      /\ \A i \in DOMAIN known : known[i] \in ToSet(s)
      /\ NoKey \notin ToSet(s)
      /\ \A k \in ToSet(s) : Recalled(known, s, k)
  BY DEF Recalls
<1>2. /\ Len(known) \in Nat /\ DOMAIN known = 1..Len(known) /\ MaxKeys \in Nat \ {0}
      /\ ToSet(known) = {known[i] : i \in DOMAIN known}
  BY CallsAssumption DEF ToSet
<1>3. CASE key \in ToSet(known)
  <2>1. key \in ToSet(s)
    BY <1>1, <1>2, <1>3
  <2>2. ToSet(Append(s, key)) = ToSet(s)
    <3>1. /\ DOMAIN Append(s, key) = 1..(Len(s) + 1) /\ Append(s, key)[Len(s) + 1] = key
          /\ Len(s) \in Nat /\ DOMAIN s = 1..Len(s)
          /\ \A i \in DOMAIN s : Append(s, key)[i] = s[i]
      OBVIOUS
    <3>2. \A i \in DOMAIN Append(s, key) : i \in DOMAIN s \/ i = Len(s) + 1
      BY <3>1
    <3>3. \A i \in DOMAIN s : i \in DOMAIN Append(s, key)
      BY <3>1
    <3> DEFINE t == Append(s, key)
    <3>4. key \in {s[i] : i \in DOMAIN s}
      BY <2>1 DEF ToSet
    <3> HIDE DEF t
    <3>5. \A y : y \in {t[i] : i \in DOMAIN t} <=> y \in {s[i] : i \in DOMAIN s}
      BY <3>1, <3>2, <3>3, <3>4 DEF t
    <3> QED
      BY <3>5 DEF ToSet, t
  <2>3. \A k \in ToSet(s) : Recalled(known, Append(s, key), k)
    BY <1>1, RecalledLonger
  <2>4. Remember(known, key) = known
    BY <1>3 DEF Remember
  <2> QED
    BY <1>1, <2>2, <2>3, <2>4 DEF Recalls
<1>4. CASE key \notin ToSet(known) /\ Len(known) < MaxKeys
  <2>1. \A i \in DOMAIN known : known[i] # key
    BY <1>2, <1>4
  <2>2. Remember(known, key) = Append(known, key)
    BY <1>4 DEF Remember
  <2>3. Recalls(Append(known, key), Append(s, key))
    BY <1>1, <2>1, RecallAppend
  <2> QED
    BY <2>2, <2>3
<1>5. CASE key \notin ToSet(known) /\ Len(known) = MaxKeys
  <2> DEFINE kept == Tail(known)
  <2>1. /\ kept \in Seq(SendKeys) /\ Len(kept) = Len(known) - 1
        /\ DOMAIN kept = 1..(Len(known) - 1)
        /\ \A i \in DOMAIN kept : kept[i] = known[i + 1]
    <3>1. known # <<>>
      BY <1>2, <1>5
    <3> QED
      BY <3>1
  <2>2. Remember(known, key) = Append(kept, key)
    BY <1>2, <1>5 DEF Remember
  <2> HIDE DEF kept
  <2>3. \A i \in DOMAIN kept : i \in Nat /\ i + 1 \in DOMAIN known
    BY <1>2, <2>1
  <2>4. \A i \in DOMAIN known : i \in Nat /\ (i # 1 => i - 1 \in DOMAIN kept /\ kept[i - 1] = known[i])
    BY <1>2, <2>1
  <2>5. \A i \in DOMAIN kept : kept[i] # key /\ kept[i] \in ToSet(s)
    BY <1>1, <1>2, <1>5, <2>1, <2>3
  <2>6. \A i, j \in DOMAIN kept : kept[i] = kept[j] => i = j
    <3>1. ASSUME NEW i \in DOMAIN kept, NEW j \in DOMAIN kept, kept[i] = kept[j]
          PROVE  i = j
      <4>1. i + 1 = j + 1
        BY <1>1, <2>1, <2>3, <3>1
      <4> QED
        BY <2>3, <4>1
    <3> QED
      BY <3>1
  <2>7. ASSUME NEW k \in ToSet(s)
        PROVE  \/ Recalled(kept, s, k)
               \/ /\ Len(kept) + 1 = MaxKeys /\ k # key
                  /\ \A q \in DOMAIN kept : kept[q] \in After(s, k)
    <3>1. Recalled(known, s, k)
      BY <1>1
    <3>2. ASSUME NEW p \in DOMAIN known, known[p] = k,
                 \A q \in DOMAIN known : q > p => known[q] \in After(s, k)
          PROVE  \/ Recalled(kept, s, k)
                 \/ /\ Len(kept) + 1 = MaxKeys /\ k # key
                    /\ \A q \in DOMAIN kept : kept[q] \in After(s, k)
      <4>1. CASE p = 1
        <5>1. \A q \in DOMAIN kept : q + 1 > p
          BY <2>1, <1>2, <4>1
        <5>2. \A q \in DOMAIN kept : kept[q] \in After(s, k)
          BY <2>1, <2>3, <3>2, <5>1
        <5>3. k # key
          BY <1>2, <1>5, <3>2
        <5>4. Len(kept) + 1 = MaxKeys
          BY <1>2, <1>5, <2>1
        <5> QED
          BY <5>2, <5>3, <5>4
      <4>2. CASE p # 1
        <5>1. p - 1 \in DOMAIN kept /\ kept[p - 1] = k
          BY <2>4, <3>2, <4>2
        <5>2. ASSUME NEW q \in DOMAIN kept, q > p - 1
              PROVE  kept[q] \in After(s, k)
          <6>1. q + 1 \in DOMAIN known /\ q + 1 > p /\ kept[q] = known[q + 1]
            BY <2>1, <2>3, <2>4, <5>2
          <6> QED
            BY <3>2, <6>1
        <5> QED
          BY <5>1, <5>2 DEF Recalled
      <4> QED
        BY <4>1, <4>2
    <3> QED
      BY <3>1, <3>2 DEF Recalled
  <2>8. Recalls(Append(kept, key), Append(s, key))
    BY <1>1, <2>1, <2>5, <2>6, <2>7, RecallAppend
  <2> QED
    BY <2>2, <2>8
<1>6. Len(known) < MaxKeys \/ Len(known) = MaxKeys
  <2>1. \A a, b \in Nat : a <= b => a < b \/ a = b
    OBVIOUS
  <2>2. Len(known) \in Nat /\ MaxKeys \in Nat
    BY <1>2
  <2> QED
    BY <2>1, <2>2
<1> QED
  BY <1>3, <1>4, <1>5, <1>6

(* What a call knew is acknowledged; one that has passed the check of the  *)
(* keys is no retry, or one that came too late.                            *)
Sends(c) == Call(c).tool \in {"send_message", "send_media"}

RetryAt(c) ==
  /\ at[c] \in {"waiting", "asking", "confining", "linking"} =>
       knew[c] \subseteq ToSet(acks[Ctx(c)])
  /\ at[c] \in {"confining", "linking"} /\ Live(c) /\ Sends(c) /\ Call(c).key \in knew[c] =>
       Cardinality(After(acks[Ctx(c)], Call(c).key)) >= MaxKeys

RetryInv ==
  /\ acks \in [Contexts -> Seq(SendKeys)]
  /\ knew = [c \in Calls |-> knew[c]]
  /\ \A x \in Contexts \ retired : Recalls(keys[x], acks[x])
  /\ \A c \in Calls : RetryAt(c)

LEMMA RetryInvInit == CallsInit => RetryInv
<1> SUFFICES ASSUME CallsInit
             PROVE  RetryInv
  OBVIOUS
<1>1. \A c \in Calls : at[c] = "unsent"
  BY DEF CallsInit
<1>2. \A x \in Contexts : keys[x] = <<>> /\ acks[x] = <<>>
  BY DEF CallsInit
<1>3. DOMAIN <<>> = {} /\ ToSet(<<>>) = {}
  BY DEF ToSet
<1>4. Recalls(<<>>, <<>>)
  BY <1>3 DEF Recalls
<1>5. acks \in [Contexts -> Seq(SendKeys)] /\ knew = [c \in Calls |-> knew[c]]
  BY DEF CallsInit
<1> QED
  BY <1>1, <1>2, <1>4, <1>5 DEF RetryInv, RetryAt

(* The acknowledgments of a context stay, or are one more.                 *)
AcksGrow ==
  /\ acks' \in [Contexts -> Seq(SendKeys)]
  /\ \A x \in Contexts : \/ acks'[x] = acks[x]
                         \/ \E m \in SendKeys : acks'[x] = Append(acks[x], m)

LEMMA GrowAt ==
  ASSUME acks \in [Contexts -> Seq(SendKeys)], AcksGrow, NEW x \in Contexts
  PROVE  /\ ToSet(acks[x]) \subseteq ToSet(acks'[x])
         /\ \A k \in ToSet(acks[x]) :
              Cardinality(After(acks[x], k)) >= MaxKeys => Cardinality(After(acks'[x], k)) >= MaxKeys
<1>1. CASE acks'[x] = acks[x]
  BY <1>1
<1>2. ASSUME NEW m \in SendKeys, acks'[x] = Append(acks[x], m)
      PROVE  /\ ToSet(acks[x]) \subseteq ToSet(acks'[x])
             /\ \A k \in ToSet(acks[x]) : Cardinality(After(acks[x], k)) >= MaxKeys
                  => Cardinality(After(acks'[x], k)) >= MaxKeys
  <2>1. PICK s \in Seq(SendKeys) : s = acks[x]
    OBVIOUS
  <2>2. PICK t : t = Append(s, m)
    OBVIOUS
  <2>3. ToSet(s) \subseteq ToSet(t)
    <3>1. \A i \in DOMAIN s : i \in DOMAIN t /\ t[i] = s[i]
      BY <2>2
    <3> QED
      BY <3>1 DEF ToSet
  <2>4. ASSUME NEW k \in ToSet(s), Cardinality(After(s, k)) >= MaxKeys
        PROVE  Cardinality(After(t, k)) >= MaxKeys
    <3>1. Recalled(<<>>, s, k)
      BY <2>4 DEF Recalled
    <3>2. Recalled(<<>>, t, k)
      BY <2>2, <3>1, RecalledLonger
    <3>3. DOMAIN <<>> = {}
      OBVIOUS
    <3> QED
      BY <3>2, <3>3 DEF Recalled
  <2> QED
    BY <1>2, <2>1, <2>2, <2>3, <2>4
<1> QED
  BY <1>1, <1>2 DEF AcksGrow

LEMMA RetryKept ==
  ASSUME OwnerInv, RetryInv, NEW c \in Calls, AcksGrow, scene' = scene, home'[c] = home[c],
         knew'[c] = knew[c], retired \subseteq retired',
         \/ at'[c] = at[c]
         \/ at'[c] \notin {"waiting", "asking", "confining", "linking"}
         \/ at[c] = "waiting" /\ at'[c] = "asking"
         \/ at[c] = "confining" /\ at'[c] = "linking"
  PROVE  RetryAt(c)'
<1>1. Call(c)' = Call(c) /\ Ctx(c)' = Ctx(c) /\ (Live(c)' => Live(c)) /\ Sends(c)' = Sends(c)
  BY DEF Call, Ctx, Live, Sends
<1>2. RetryAt(c) /\ HomeInv(c)
  BY DEF RetryInv, OwnerInv
<1>3. CASE at'[c] \in {"waiting", "asking", "confining", "linking"}
  <2>1. at[c] \in {"waiting", "asking", "confining", "linking"}
    BY <1>3
  <2>2. Ctx(c) \in Contexts /\ acks \in [Contexts -> Seq(SendKeys)]
    BY <1>2, <2>1, CtxTyped DEF HomeInv, RetryInv
  <2>3. /\ ToSet(acks[Ctx(c)]) \subseteq ToSet(acks'[Ctx(c)])
        /\ \A k \in ToSet(acks[Ctx(c)]) : Cardinality(After(acks[Ctx(c)], k)) >= MaxKeys
             => Cardinality(After(acks'[Ctx(c)], k)) >= MaxKeys
    BY <2>2, GrowAt
  <2>4. knew'[c] \subseteq ToSet(acks'[Ctx(c)])
    BY <1>2, <2>1, <2>3 DEF RetryAt
  <2>5. ASSUME at'[c] \in {"confining", "linking"}, Live(c)', Sends(c), Call(c).key \in knew[c]
        PROVE  Cardinality(After(acks'[Ctx(c)], Call(c).key)) >= MaxKeys
    <3>1. at[c] \in {"confining", "linking"} /\ Live(c)
      BY <1>1, <2>5
    <3>2. Call(c).key \in ToSet(acks[Ctx(c)])
      BY <1>2, <2>1, <2>5 DEF RetryAt
    <3> QED
      BY <1>2, <2>3, <2>5, <3>1, <3>2 DEF RetryAt
  <2>6. (at[c] \in {"waiting", "asking", "confining", "linking"} =>
           knew[c] \subseteq ToSet(acks[Ctx(c)]))'
    BY <1>1, <2>4
  <2>7. (at[c] \in {"confining", "linking"} /\ Live(c) /\ Sends(c) /\ Call(c).key \in knew[c] =>
           Cardinality(After(acks[Ctx(c)], Call(c).key)) >= MaxKeys)'
    BY <1>1, <2>5
  <2> QED
    BY <2>6, <2>7 DEF RetryAt
<1>4. CASE at'[c] \notin {"waiting", "asking", "confining", "linking"}
  BY <1>4 DEF RetryAt
<1> QED
  BY <1>3, <1>4

(* The check of the keys, as a call goes through the engine.               *)
LEMMA ChargeRetry ==
  ASSUME OwnerInv, RetryInv, NEW c \in Calls, Charge(c), at[c] \in {"waiting", "asking"},
         UNCHANGED <<scene, home, acks, knew, retired>>
  PROVE  RetryAt(c)'
<1>1. RetryAt(c) /\ HomeInv(c)
  BY DEF RetryInv, OwnerInv
<1>2. Ctx(c) \in Contexts
  BY <1>1, CtxTyped DEF HomeInv
<1>3. Call(c)' = Call(c) /\ Ctx(c)' = Ctx(c) /\ (Live(c)' => Live(c)) /\ Sends(c)' = Sends(c)
  BY DEF Call, Ctx, Live, Sends
<1>4. knew[c] \subseteq ToSet(acks[Ctx(c)])
  BY <1>1 DEF RetryAt
<1>5. ASSUME at'[c] \in {"confining", "linking"}, Live(c), Sends(c), Call(c).key \in knew[c]
      PROVE  Cardinality(After(acks[Ctx(c)], Call(c).key)) >= MaxKeys
  <2>1. ~ToAudit(c)
    BY <1>5 DEF ToAudit, OwnerInv, CallTypes
  <2>2. Run(c)
    BY <2>1 DEF Charge
  <2>3. ~Remembered(c)
    BY <1>5, <2>1, <2>2 DEF Run, Sends
  <2>4. Recalls(keys[Ctx(c)], acks[Ctx(c)])
    BY <1>2, <1>5 DEF RetryInv, Live
  <2>5. Call(c).key # NoKey /\ Recalled(keys[Ctx(c)], acks[Ctx(c)], Call(c).key)
    BY <1>4, <1>5, <2>4 DEF Recalls
  <2>6. Call(c).key \notin {keys[Ctx(c)][i] : i \in DOMAIN keys[Ctx(c)]}
    BY <2>3, <2>5 DEF Remembered, ToSet
  <2>7. \A p \in DOMAIN keys[Ctx(c)] : keys[Ctx(c)][p] # Call(c).key
    BY <2>6
  <2> QED
    BY <2>5, <2>7 DEF Recalled
<1>6. (at[c] \in {"waiting", "asking", "confining", "linking"} =>
         knew[c] \subseteq ToSet(acks[Ctx(c)]))'
  BY <1>3, <1>4
<1>7. (at[c] \in {"confining", "linking"} /\ Live(c) /\ Sends(c) /\ Call(c).key \in knew[c] =>
         Cardinality(After(acks[Ctx(c)], Call(c).key)) >= MaxKeys)'
  BY <1>3, <1>5
<1> QED
  BY <1>6, <1>7 DEF RetryAt

LEMMA CompleteKeys ==
  ASSUME OwnerInv, KeyInv, RetryInv, scene \in Scenes, NEW c \in Calls, RequestEnds(c), Complete(c),
         retired \subseteq retired'
  PROVE  AcksGrow /\ \A x \in Contexts \ retired' : Recalls(keys'[x], acks'[x])
<1> DEFINE x == Ctx(c)
           key == Call(c).key
<1>1. x \in Contexts
  BY CtxTyped DEF RequestEnds, OwnerInv, HomeInv
<1>2. /\ key \in SendKeys /\ keys[x] \in Seq(SendKeys) /\ Len(keys[x]) <= MaxKeys
      /\ acks[x] \in Seq(SendKeys)
  BY <1>1, CallKinds DEF KeyInv, RetryInv
<1>3. \/ /\ keys' = [keys EXCEPT ![x] = Remember(keys[x], key)]
         /\ acks' = [acks EXCEPT ![x] = Append(acks[x], key)]
         /\ key # NoKey
      \/ /\ keys' = [keys EXCEPT ![x] = keys[x]]
         /\ acks' = [acks EXCEPT ![x] = acks[x]]
  BY DEF Complete, Remember
<1> HIDE DEF x, key
<1>4. \A y \in Contexts \ retired' : Recalls(keys[y], acks[y])
  BY DEF RetryInv
<1>5. CASE /\ keys' = [keys EXCEPT ![x] = Remember(keys[x], key)]
           /\ acks' = [acks EXCEPT ![x] = Append(acks[x], key)]
           /\ key # NoKey
  <2>1. Append(acks[x], key) \in Seq(SendKeys)
    BY <1>2
  <2>2. \A y \in Contexts : /\ acks'[y] = IF y = x THEN Append(acks[x], key) ELSE acks[y]
                            /\ keys'[y] = IF y = x THEN Remember(keys[x], key) ELSE keys[y]
    BY <1>5 DEF KeyInv, RetryInv
  <2>3. acks' \in [Contexts -> Seq(SendKeys)]
    BY <1>1, <1>5, <2>1 DEF RetryInv
  <2>4. x \in Contexts \ retired' => Recalls(Remember(keys[x], key), Append(acks[x], key))
    BY <1>2, <1>4, <1>5, RecallsNext
  <2> QED
    BY <1>2, <1>4, <2>2, <2>3, <2>4 DEF AcksGrow
<1>6. CASE /\ keys' = [keys EXCEPT ![x] = keys[x]]
           /\ acks' = [acks EXCEPT ![x] = acks[x]]
  <2>1. keys' = keys /\ acks' = acks
    BY <1>6 DEF KeyInv, RetryInv
  <2> QED
    BY <1>4, <2>1 DEF AcksGrow, RetryInv
<1> QED
  BY <1>3, <1>5, <1>6

LEMMA KeysFrame ==
  ASSUME CallsNext
  PROVE  /\ \/ UNCHANGED <<keys, acks>>
            \/ UNCHANGED acks /\ \E xs : Retire(xs)
            \/ \E c \in Calls : RequestEnds(c) /\ Complete(c)
         /\ knew' = knew \/ \E c \in Calls : Acquire(c)
<1> USE DEF clientVars, callVars
<1>1. ASSUME NEW c \in Calls, Receive(c) \/ Cancel(c) \/ Approve(c) \/ CallWorks(c)
      PROVE  /\ UNCHANGED <<keys, acks>> \/ (RequestEnds(c) /\ Complete(c))
             /\ knew' = knew \/ Acquire(c)
  BY <1>1 DEF Receive, Cancel, Approve, CallWorks, Acquire, Execute, Decline, Linked, RequestEnds,
    Prepared, MediaConfined, Answer
<1>2. CASE \E e \in Endpoints : Stall(e) \/ Close(e)
  BY <1>2 DEF Stall, Close
<1>3. CASE \E x \in Contexts : ContextWorks(x) \/ ReleaseSettles(x)
  BY <1>3 DEF ContextWorks, AccessResolved, BindStarts, ClientBound, BuildFails, ReleaseSettles
<1>4. CASE Publish \/ Dispose
  BY <1>4 DEF Publish, Dispose
<1>5. CASE \/ TeardownStep \/ Replace \/ AskSnapshot \/ SnapshotEnds
           \/ ConnectionFails \/ ConnectionSettles \/ Audited \/ Tick
  BY <1>5 DEF TeardownStep, Replace, AskSnapshot, SnapshotEnds, ConnectionFails,
    ConnectionSettles, RelinkSettles, OpeningSettles, Audited, Tick
<1> QED
  BY <1>1, <1>2, <1>3, <1>4, <1>5 DEF CallsNext

LEMMA KeysStep ==
  ASSUME OwnerInv, KeyInv, RetryInv, scene \in Scenes, CallsNext
  PROVE  /\ retired \subseteq retired' /\ AcksGrow
         /\ \A x \in Contexts \ retired' : Recalls(keys'[x], acks'[x])
<1>1. retired \subseteq retired'
  BY RetiredStay
<1>2. ASSUME UNCHANGED acks, \A x \in Contexts \ retired' : keys'[x] = keys[x]
      PROVE  AcksGrow /\ \A x \in Contexts \ retired' : Recalls(keys'[x], acks'[x])
  BY <1>1, <1>2 DEF AcksGrow, RetryInv
<1>3. CASE UNCHANGED acks /\ \E xs : Retire(xs)
  <2>1. PICK xs : Retire(xs)
    BY <1>3
  <2>2. \A x \in Contexts \ retired' : keys'[x] = keys[x]
    BY <2>1 DEF Retire
  <2> QED
    BY <1>1, <1>2, <1>3, <2>2
<1>4. CASE \E c \in Calls : RequestEnds(c) /\ Complete(c)
  BY <1>1, <1>4, CompleteKeys
<1> QED
  BY <1>1, <1>2, <1>3, <1>4, KeysFrame

(* The step of a call, for its own part of the invariant.                  *)
LEMMA OwnRetry ==
  ASSUME OwnerInv, RetryInv, retired \subseteq retired', AcksGrow, NEW c \in Calls,
         Receive(c) \/ Cancel(c) \/ Approve(c) \/ CallWorks(c)
  PROVE  RetryAt(c)'
<1> USE DEF callVars, contextVars, clientVars
<1>0. at \in [Calls -> CallStates] /\ home \in [Calls -> 0..MaxGenerations]
  BY DEF OwnerInv, CallTypes
<1>1. CASE Acquire(c)
  <2>1. /\ scene' = scene /\ acks' = acks /\ at'[c] = "waiting" /\ home'[c] = generation
        /\ knew' = [knew EXCEPT ![c] = ToSet(acks[<<Call(c).on, generation>>])]
    BY <1>0, <1>1 DEF Acquire
  <2>2. knew'[c] = ToSet(acks[<<Call(c).on, generation>>])
    BY <2>1 DEF RetryInv
  <2>3. Ctx(c)' = <<Call(c).on, generation>>
    BY <2>1 DEF Ctx, Call
  <2> QED
    BY <2>1, <2>2, <2>3 DEF RetryAt
<1>2. CASE Execute(c) \/ Approve(c)
  <2>1. UNCHANGED <<scene, home, acks, knew, retired>> /\ at[c] \in {"waiting", "asking"}
    BY <1>2 DEF Execute, Approve
  <2>2. \/ Charge(c)
        \/ ToAnswer(c) \/ ToAudit(c)
        \/ at' = [at EXCEPT ![c] = "asking"] /\ at[c] = "waiting"
    BY <1>2 DEF Execute, Approve
  <2>3. CASE Charge(c)
    BY <2>1, <2>3, ChargeRetry
  <2>4. CASE ToAnswer(c) \/ ToAudit(c)
    <3>1. at'[c] \in {"answering", "auditing"}
      BY <1>0, <2>4 DEF ToAnswer, ToAudit
    <3> QED
      BY <2>1, <3>1, RetryKept
  <2>5. CASE at' = [at EXCEPT ![c] = "asking"] /\ at[c] = "waiting"
    BY <1>0, <2>1, <2>5, RetryKept
  <2> QED
    BY <2>2, <2>3, <2>4, <2>5
<1>3. CASE \/ Receive(c) \/ Cancel(c) \/ Decline(c) \/ Linked(c) \/ RequestEnds(c) \/ Prepared(c)
           \/ MediaConfined(c) \/ Answer(c)
  <2>1. UNCHANGED <<scene, home, knew>>
    BY <1>3 DEF Receive, Cancel, Decline, Linked, RequestEnds, Prepared, MediaConfined, Answer
  <2>2. \/ at'[c] = at[c]
        \/ at'[c] \notin {"waiting", "asking", "confining", "linking"}
        \/ at[c] = "confining" /\ at'[c] = "linking"
    <3>1. CASE MediaConfined(c)
      <4>1. at[c] = "confining" /\ \E s \in {"linking", "auditing", "answering"} : Moves(c, s)
        BY <3>1, LinkMoves DEF MediaConfined, ToAudit, Moves
      <4> QED
        BY <1>0, <4>1 DEF Moves
    <3>2. CASE Linked(c) \/ RequestEnds(c)
      <4>1. \/ at' = at \/ at' = [at EXCEPT ![c] = "requesting"]
            \/ Finish(c, TRUE) \/ Finish(c, FALSE)
        BY <3>2 DEF Linked, RequestEnds, Complete
      <4> QED
        BY <1>0, <4>1, FinishMoves DEF Moves
    <3>3. CASE Receive(c) \/ Cancel(c) \/ Decline(c) \/ Prepared(c) \/ Answer(c)
      BY <1>0, <3>3 DEF Receive, Cancel, Decline, Prepared, Answer, ToAudit
    <3> QED
      BY <1>3, <3>1, <3>2, <3>3
  <2> QED
    BY <2>1, <2>2, RetryKept
<1> QED
  BY <1>1, <1>2, <1>3 DEF CallWorks

(* Other steps than those of a call answer calls or leave them alone.      *)
LEMMA QuietFrame ==
  ASSUME OwnerInv, AuditInv, CallsNext
  PROVE  \/ \E c \in Calls : Receive(c) \/ Cancel(c) \/ Approve(c) \/ CallWorks(c)
         \/ /\ UNCHANGED <<scene, home, knew>>
            /\ \A c \in Calls : at'[c] = at[c] \/ at'[c] = "answering"
<1> USE DEF callVars
<1>1. CASE \E e \in Endpoints : Stall(e) \/ Close(e)
  BY <1>1 DEF Stall, Close
<1>2. CASE \E x \in Contexts : ContextWorks(x) \/ ReleaseSettles(x)
  BY <1>2 DEF ContextWorks, AccessResolved, BindStarts, ClientBound, BuildFails, ReleaseSettles
<1>3. CASE \/ Publish \/ Dispose \/ TeardownStep \/ Replace \/ AskSnapshot \/ SnapshotEnds
           \/ ConnectionFails \/ ConnectionSettles \/ Tick
  BY <1>3 DEF Publish, Dispose, TeardownStep, Replace, AskSnapshot, SnapshotEnds, ConnectionFails,
    ConnectionSettles, RelinkSettles, OpeningSettles, Tick
<1>4. CASE Audited
  BY <1>4 DEF Audited, OwnerInv, CallTypes
<1> QED
  BY <1>1, <1>2, <1>3, <1>4 DEF CallsNext

LEMMA RetryStepInv ==
  ASSUME OwnerInv, AuditInv, KeyInv, AccessInv, RetryInv, scene \in Scenes, [CallsNext]_vars
  PROVE  RetryInv'
<1>1. CASE UNCHANGED vars
  <2>1. UNCHANGED <<scene, at, home, keys, acks, knew, retired>>
    BY <1>1 DEF vars, callVars, clientVars, contextVars
  <2>2. AcksGrow
    BY <2>1 DEF AcksGrow, RetryInv
  <2>3. \A c \in Calls : RetryAt(c)'
    BY <2>1, <2>2, RetryKept
  <2> QED
    BY <2>1, <2>3 DEF RetryInv
<1>2. CASE CallsNext
  <2>1. /\ retired \subseteq retired' /\ AcksGrow
        /\ \A x \in Contexts \ retired' : Recalls(keys'[x], acks'[x])
    BY <1>2, KeysStep
  <2>2. knew' = [c \in Calls |-> knew'[c]]
    BY <1>2, KeysFrame DEF RetryInv, Acquire
  <2>3. ASSUME NEW c \in Calls, Receive(c) \/ Cancel(c) \/ Approve(c) \/ CallWorks(c)
        PROVE  \A d \in Calls : RetryAt(d)'
    <3>1. RetryAt(c)'
      BY <2>1, <2>3, OwnRetry
    <3>2. ASSUME NEW d \in Calls \ {c}
          PROVE  RetryAt(d)'
      <4>1. at'[d] = at[d] /\ home'[d] = home[d] /\ scene' = scene
        BY <2>3, OthersStay
      <4>2. knew'[d] = knew[d]
        <5>1. knew' = knew \/ Acquire(c)
          BY <2>3 DEF Receive, Cancel, Approve, CallWorks, Acquire, Execute, Decline, Linked,
            RequestEnds, Prepared, MediaConfined, Answer, callVars
        <5> QED
          BY <5>1 DEF Acquire, RetryInv
      <4> QED
        BY <2>1, <4>1, <4>2, RetryKept
    <3> QED
      BY <3>1, <3>2
  <2>4. ASSUME UNCHANGED <<scene, home, knew>>,
               \A c \in Calls : at'[c] = at[c] \/ at'[c] = "answering"
        PROVE  \A d \in Calls : RetryAt(d)'
    BY <2>1, <2>4, RetryKept
  <2>5. \A d \in Calls : RetryAt(d)'
    BY <1>2, <2>3, <2>4, QuietFrame
  <2> QED
    BY <2>1, <2>2, <2>5 DEF RetryInv, AcksGrow
<1> QED
  BY <1>1, <1>2

LEMMA CallsRecall ==
  CallsSpec => [](OwnerInv /\ AuditInv /\ LimitInv /\ AccessInv /\ RetryInv)
<1>1. CallsInit => OwnerInv /\ AuditInv /\ LimitInv /\ AccessInv /\ RetryInv
  BY OwnerInvInit, AuditInvInit, LimitInvInit, AccessInvInit, RetryInvInit
<1>2. (OwnerInv /\ AuditInv /\ LimitInv /\ AccessInv /\ RetryInv) /\ [CallsNext]_vars
        => (OwnerInv /\ AuditInv /\ LimitInv /\ AccessInv /\ RetryInv)'
  BY CallsStepInv, LimitStepInv, AccessStepInv, RetryStepInv DEF LimitInv
<1> QED
  BY <1>1, <1>2, PTL DEF CallsSpec

LEMMA RequestsBegin ==
  ASSUME OwnerInv, AuditInv, AccessInv, CallsNext, NEW c \in Calls,
         at[c] # "requesting", at'[c] = "requesting"
  PROVE  at[c] = "linking" /\ Live(c)
<1>0. at \in [Calls -> CallStates]
  BY DEF OwnerInv, CallTypes
<1>1. PICK d \in Calls : Receive(d) \/ Cancel(d) \/ Approve(d) \/ CallWorks(d)
  BY QuietFrame
<1>2. d = c
  BY <1>1, OthersStay
<1>3. CASE Linked(c)
  <2>1. at[c] = "linking"
    BY <1>3 DEF Linked
  <2>2. CASE Finish(c, FALSE)
    BY <1>0, <2>2, FinishMoves DEF Moves
  <2> QED
    BY <1>3, <2>1, <2>2 DEF Linked
<1>4. ~(Execute(c) \/ Approve(c))
  <2>1. ASSUME Execute(c) \/ Approve(c)
        PROVE  \/ Charge(c) \/ ToAnswer(c) \/ ToAudit(c)
               \/ at' = [at EXCEPT ![c] = "asking"]
    BY <2>1 DEF Execute, Approve
  <2>2. ASSUME Charge(c)
        PROVE  \E s \in {"linking", "auditing", "answering", "preparing", "confining"} : Moves(c, s)
    BY <2>2, ChargeMoves
  <2> QED
    BY <1>0, <2>1, <2>2 DEF Moves, ToAnswer, ToAudit
<1>5. ~MediaConfined(c)
  <2>1. ASSUME MediaConfined(c)
        PROVE  \E s \in {"linking", "auditing", "answering"} : Moves(c, s)
    BY <2>1, LinkMoves DEF MediaConfined, ToAudit, Moves
  <2> QED
    BY <1>0, <2>1 DEF Moves
<1>6. ~(Receive(c) \/ Cancel(c) \/ Acquire(c) \/ Decline(c) \/ Prepared(c) \/ Answer(c))
  BY <1>0 DEF Receive, Cancel, Acquire, Decline, Prepared, Answer, ToAudit, callVars
<1>7. ~RequestEnds(c)
  BY DEF RequestEnds
<1> QED
  BY <1>1, <1>2, <1>3, <1>4, <1>5, <1>6, <1>7 DEF CallWorks

(* Whatever the order of the sends, their retries and the disposals, and   *)
(* whatever the limit: a send that had succeeded when its retry was taken  *)
(* up is not made again while fewer than MaxKeys other keys have succeeded *)
(* since (gramjs-telegram-gateway.ts:1264, 1523, 1769-1787).               *)
THEOREM RetriesAreKnown == CallsSpec => RetriesAreNotResent
<1>1. /\ OwnerInv /\ AuditInv /\ LimitInv /\ AccessInv /\ RetryInv
      /\ [CallsNext]_vars
      => [\A c \in Calls :
            (at[c] # "requesting" /\ at'[c] = "requesting"
               /\ Call(c).tool \in {"send_message", "send_media"})
            => ~(Call(c).key \in knew[c] /\ Since(Ctx(c), Call(c).key) < MaxKeys)]_vars
  <2> SUFFICES ASSUME OwnerInv, AuditInv, LimitInv, AccessInv, RetryInv, CallsNext,
                      NEW c \in Calls, at[c] # "requesting", at'[c] = "requesting",
                      Call(c).tool \in {"send_message", "send_media"},
                      Call(c).key \in knew[c], Since(Ctx(c), Call(c).key) < MaxKeys
               PROVE  FALSE
    OBVIOUS
  <2>1. at[c] = "linking" /\ Live(c)
    BY RequestsBegin
  <2>2. Since(Ctx(c), Call(c).key) = Cardinality(After(acks[Ctx(c)], Call(c).key))
    BY DEF Since, After
  <2>3. Cardinality(After(acks[Ctx(c)], Call(c).key)) >= MaxKeys
    BY <2>1 DEF RetryInv, RetryAt, Sends
  <2>4. Cardinality(After(acks[Ctx(c)], Call(c).key)) \in Nat /\ MaxKeys \in Nat
    <3>1. Ctx(c) \in Contexts
      BY <2>1, CtxTyped DEF OwnerInv, HomeInv
    <3>2. acks[Ctx(c)] \in Seq(SendKeys) /\ Call(c).key \in SendKeys
      BY <3>1, CallKinds DEF RetryInv, LimitInv
    <3>3. IsFiniteSet(After(acks[Ctx(c)], Call(c).key))
      BY <3>2, AfterAppend
    <3> QED
      BY <3>3, FS_CardinalityType, CallsAssumption
  <2> QED
    BY <2>2, <2>3, <2>4
<1> QED
  BY <1>1, CallsRecall, PTL DEF CallsSpec, RetriesAreNotResent
=============================================================================
