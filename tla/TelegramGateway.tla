-------------------------- MODULE TelegramGateway --------------------------
(***************************************************************************)
(* The life of the one Telegram connection of an account                   *)
(* (infrastructure/telegram/gramjs-telegram-gateway.ts with                *)
(* gramjs-sender-lifecycle.ts): opened by the first loan, shared by all,   *)
(* replaced by one reconnect at a time, and closed for good by dispose().  *)
(*                                                                         *)
(* A loan is a use of the connection that is not scoped: the resolution of *)
(* a declared access, the binding of a scoped client, the snapshot an      *)
(* operator asks for.  Scoped clients are in ToolCalls, which gives the    *)
(* teardown the set of those it still waits for.                           *)
(***************************************************************************)
EXTENDS Naturals, FiniteSets

CONSTANTS
  Loans,   \* uses of the connection by something else than a tool call
  Callers  \* operations of scoped clients

VARIABLES
  link,      \* the shared connection
  opening,   \* openShared(), memoized as sharedPromise
  relink,    \* reconnectShared(), memoized as reconnecting
  relinkOf,  \* whether its client has been aborted
  aborted,   \* the clients whose opening was aborted
  use,       \* use[u]: where the use u of the connection stands
  teardown   \* what dispose() waits for

gatewayVars == <<link, opening, relink, relinkOf, aborted, use, teardown>>

(* "stuck": destroy() was rejected and the connection may be alive. *)
LinkStates == {"none", "up", "down", "gone", "stuck"}

(* "poisoned": an aborted connection could not be destroyed. *)
OpeningStates == {"idle", "connecting", "checking", "aborting", "poisoned"}

(* Of the client that is shared or being opened, or of an aborted one.     *)
RelinkStates == {"idle", "disconnecting", "connecting"}

TeardownStates == {"none", "clients", "uses", "relink", "opening", "destroying", "done", "failed"}

GatewayTypeOK ==
  /\ link \in LinkStates
  /\ opening \in OpeningStates
  /\ relink \in RelinkStates
  /\ relinkOf \in {"current", "aborted"}
  /\ aborted \in {"gone", "alive"}
  /\ use \in [Loans \cup Callers -> {"none", "opening", "relinking", "ready", "refused"}]
  /\ teardown \in TeardownStates

GatewayInit ==
  /\ link = "none"
  /\ opening = "idle"
  /\ relink = "idle"
  /\ relinkOf = "current"
  /\ aborted = "gone"
  /\ use = [u \in Loans \cup Callers |-> "none"]
  /\ teardown = "none"

Disposed == teardown # "none"

(* What the gateway knows of may use the account's authorization key.  An  *)
(* aborted client that has come up again is beyond its reach.              *)
Connected ==
  \/ link \in {"up", "stuck"}
  \/ opening # "idle"
  \/ relink # "idle"

-----------------------------------------------------------------------------
(* Reconnecting.                                                           *)

(* The uses that waited for what has just settled go on at once. *)
Settle(waited, verdict) ==
  use' = [u \in DOMAIN use |-> IF use[u] = waited THEN verdict ELSE use[u]]

(* A sender asks for a reconnect through the hook that routes it here: the *)
(* hooks are in place once the client is connected, before it is shared,   *)
(* and again once an aborted client has come up.  Disposal, and the abort  *)
(* of an opening, neutralise them.                                         *)
SenderReconnects ==
  /\ ~Disposed
  /\ relink = "idle"
  /\ relink' = "disconnecting"
  /\ \/ link \in {"up", "down"} /\ link' = "down" /\ UNCHANGED relinkOf
     \/ opening = "checking" /\ UNCHANGED <<link, relinkOf>>
     \/ aborted = "alive" /\ relinkOf' = "aborted" /\ UNCHANGED link
  /\ UNCHANGED <<opening, aborted, use, teardown>>

LinkDrops ==
  /\ link = "up"
  /\ link' = "down"
  /\ UNCHANGED <<opening, relink, relinkOf, aborted, use, teardown>>

(* reconnecting is cleared, and its client with it. *)
RelinkOver == relink' = "idle" /\ relinkOf' = "current"

(* The first await of a reconnect has settled. *)
RelinkDisconnected ==
  /\ relink = "disconnecting"
  /\ IF Disposed THEN RelinkOver /\ Settle("relinking", "refused")
                 ELSE relink' = "connecting" /\ UNCHANGED <<relinkOf, use>>
  /\ UNCHANGED <<link, opening, aborted, teardown>>

(* A connection that comes up during disposal is left to the teardown.  An *)
(* aborted client is alive again, unless its destruction is still to come. *)
RelinkConnected ==
  /\ relink = "connecting"
  /\ RelinkOver
  /\ link' = IF relinkOf = "current" /\ link = "down" THEN "up" ELSE link
  /\ aborted' \in IF relinkOf = "aborted" THEN {"alive"}
                  ELSE IF opening = "aborting" THEN {aborted, "alive"}
                  ELSE {aborted}
  /\ Settle("relinking", IF Disposed THEN "refused" ELSE "ready")
  /\ UNCHANGED <<opening, teardown>>

(* Tells nobody. *)
RelinkFailsSilently ==
  /\ relink \in {"disconnecting", "connecting"}
  /\ RelinkOver
  /\ UNCHANGED <<link, opening, aborted, use, teardown>>

RelinkFails ==
  /\ relink \in {"disconnecting", "connecting"}
  /\ RelinkOver
  /\ Settle("relinking", "refused")
  /\ UNCHANGED <<link, opening, aborted, teardown>>

-----------------------------------------------------------------------------
(* Opening.                                                                *)

OpenConnects ==
  /\ opening = "connecting"
  /\ opening' \in {"checking", "aborting"}
  /\ UNCHANGED <<link, relink, relinkOf, aborted, use, teardown>>

(* Whether the session is authorized and whose it is; one that is not, or  *)
(* comes up during disposal, is destroyed.  A reconnect under way goes on. *)
OpenChecked ==
  /\ opening = "checking"
  /\ \/ /\ ~Disposed
        /\ opening' = "idle"
        /\ link' = IF relink = "idle" \/ relinkOf = "aborted" THEN "up" ELSE "down"
        /\ Settle("opening", "ready")
     \/ opening' = "aborting" /\ UNCHANGED <<link, use>>
  /\ UNCHANGED <<relink, relinkOf, aborted, teardown>>

(* An ordinary failure may be retried; a connection that could not be      *)
(* destroyed keeps the promise rejected.  A reconnect of the client is not *)
(* awaited.                                                                *)
AbortedClientDestroyed ==
  /\ opening = "aborting"
  /\ opening' \in {"idle", "poisoned"}
  /\ Settle("opening", "refused")
  /\ relinkOf' = IF relink = "idle" THEN "current" ELSE "aborted"
  /\ UNCHANGED <<link, relink, aborted, teardown>>

-----------------------------------------------------------------------------
(* Uses.                                                                   *)

(* connectShared() of a loan, which waits for a reconnect of any client.   *)
Borrow(l) ==
  /\ use[l] = "none"
  /\ IF Disposed \/ (link = "none" /\ opening = "poisoned")
       THEN use' = [use EXCEPT ![l] = "refused"] /\ UNCHANGED <<opening, relink>>
     ELSE IF link = "none"
       THEN /\ use' = [use EXCEPT ![l] = "opening"]
            /\ opening' = IF opening = "idle" THEN "connecting" ELSE opening
            /\ UNCHANGED relink
     ELSE IF link = "down"
       THEN /\ use' = [use EXCEPT ![l] = "relinking"]
            /\ relink' = IF relink = "idle" THEN "connecting" ELSE relink
            /\ UNCHANGED opening
       ELSE use' = [use EXCEPT ![l] = "ready"] /\ UNCHANGED <<opening, relink>>
  /\ UNCHANGED <<link, relinkOf, aborted, teardown>>

(* ensureSharedConnected() of a caller, whose client the connection has    *)
(* been given to before.                                                   *)
Rejoin(c) ==
  /\ IF Disposed \/ link = "up"
       THEN /\ use' = [use EXCEPT ![c] = IF Disposed THEN "refused" ELSE "ready"]
            /\ UNCHANGED relink
       ELSE /\ use' = [use EXCEPT ![c] = "relinking"]
            /\ relink' = IF relink = "idle" THEN "connecting" ELSE relink
  /\ UNCHANGED <<link, opening, relinkOf, aborted, teardown>>

Return(u) ==
  /\ use[u] \in {"ready", "refused"}
  /\ use' = [use EXCEPT ![u] = "none"]
  /\ UNCHANGED <<link, opening, relink, relinkOf, aborted, teardown>>

-----------------------------------------------------------------------------
(* Disposal: the scoped clients first, then the loans, the reconnect and   *)
(* the opening under way, at last the connection itself.  A loan that is   *)
(* refused is over, and no other is admitted.                              *)

StartTeardown ==
  /\ teardown = "none"
  /\ teardown' = "clients"
  /\ UNCHANGED <<link, opening, relink, relinkOf, aborted, use>>

(* Forgets a reconnect that a sender has started. *)
TeardownSkipsRelink(clients) ==
  /\ \/ teardown = "clients" /\ clients = {} /\ teardown' = "uses"
     \/ teardown = "uses" /\ (\A l \in Loans : use[l] \in {"none", "refused"}) /\ teardown' = "relink"
     \/ teardown = "relink" /\ teardown' = "opening"
     \/ teardown = "opening" /\ opening = "poisoned" /\ teardown' = "failed"
     \/ teardown = "opening" /\ opening = "idle" /\ link = "none" /\ teardown' = "done"
     \/ teardown = "opening" /\ opening = "idle" /\ link # "none" /\ teardown' = "destroying"
  /\ UNCHANGED <<link, opening, relink, relinkOf, aborted, use>>

(* clients: the scoped clients that have not drained. *)
TeardownContinues(clients) ==
  /\ \/ teardown = "clients" /\ clients = {} /\ teardown' = "uses"
     \/ teardown = "uses" /\ (\A l \in Loans : use[l] \in {"none", "refused"}) /\ teardown' = "relink"
     \/ teardown = "relink" /\ relink = "idle" /\ teardown' = "opening"
     \/ teardown = "opening" /\ opening = "poisoned" /\ teardown' = "failed"
     \/ teardown = "opening" /\ opening = "idle" /\ link = "none" /\ teardown' = "done"
     \/ teardown = "opening" /\ opening = "idle" /\ link # "none" /\ teardown' = "destroying"
  /\ UNCHANGED <<link, opening, relink, relinkOf, aborted, use>>

(* Ownership is uncertain when the destruction is rejected. *)
ConnectionDestroyed ==
  /\ teardown = "destroying"
  /\ \/ link' = "gone" /\ teardown' = "done"
     \/ link' = "stuck" /\ teardown' = "failed"
  /\ UNCHANGED <<opening, relink, relinkOf, aborted, use>>
=============================================================================
