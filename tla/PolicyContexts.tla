--------------------------- MODULE PolicyContexts ---------------------------
(***************************************************************************)
(* PolicyContexts (src/presentation/mcp/policy-contexts.ts): one execution *)
(* context per endpoint name, built on first use and retired without       *)
(* closing the account connection under it.                                *)
(*                                                                         *)
(* Promise identities are replaced by counting, as in AccountRuntimes.     *)
(* The retire() calls that capture something are numbered 1, 2, ... and    *)
(* their `prior` chain settles them in that order; barrier() is the latest *)
(* of them.  A context is named by its endpoint and the number of batches  *)
(* retired when it was filed.  A place is filed again only after the build *)
(* in it failed, because an endpoint has at most one current context and a *)
(* captured one leaves its number behind.                                  *)
(*                                                                         *)
(* The disposal of a scoped client waits with allSettled and so never      *)
(* rejects: the rejecting barrier of the class is unreachable in the       *)
(* program and is left out.                                                *)
(***************************************************************************)
EXTENDS Naturals

CONSTANTS
  Endpoints,  \* endpoint names
  MaxBatches  \* bound: retire() calls that capture a context

ASSUME BatchBound == MaxBatches \in Nat \ {0}

VARIABLES
  evicted,    \* batches captured by retire() so far
  disposed,   \* how many of them have completed
  sweeping,   \* the oldest one is past allSettled and waits for its disposals
  context,    \* context[e][n]: the context of e filed after n batches
  retiredBy   \* retiredBy[e][n]: the batch that captured it, 0 if none

contextVars == <<evicted, disposed, sweeping, context, retiredBy>>

Batches == 0..MaxBatches

ContextStates == {"absent", "building", "live", "closing"}

ContextTypeOK ==
  /\ evicted   \in Batches
  /\ disposed  \in Batches
  /\ sweeping  \in BOOLEAN
  /\ context   \in [Endpoints -> [Batches -> ContextStates]]
  /\ retiredBy \in [Endpoints -> [Batches -> Batches]]

ContextInit ==
  /\ evicted   = 0
  /\ disposed  = 0
  /\ sweeping  = FALSE
  /\ context   = [e \in Endpoints |-> [n \in Batches |-> "absent"]]
  /\ retiredBy = [e \in Endpoints |-> [n \in Batches |-> 0]]

(* `current` holds the promise filed at n for e. *)
IsCurrent(e, n) == context[e][n] # "absent" /\ retiredBy[e][n] = 0

(* get() without an existing promise: a build is filed. *)
FileContext(e) ==
  /\ \A n \in Batches : ~IsCurrent(e, n)
  /\ context' = [context EXCEPT ![e][evicted] = "building"]
  /\ UNCHANGED <<evicted, disposed, sweeping, retiredBy>>

(* The builds of the places in B settle together: "live", or "absent" when *)
(* they reject and get() evicts them.                                      *)
SettleContexts(B, s) ==
  /\ context' = [e \in Endpoints |->
       [n \in Batches |-> IF <<e, n>> \in B THEN s ELSE context[e][n]]]
  /\ UNCHANGED <<evicted, disposed, sweeping, retiredBy>>

(* retire(K): the current contexts of K leave `current` as one batch. *)
Captured(K) ==
  {p \in K \X Batches : IsCurrent(p[1], p[2])}

Retire(K) ==
  /\ IF Captured(K) = {}
       THEN UNCHANGED <<evicted, retiredBy>>
       ELSE /\ evicted' = evicted + 1
            /\ retiredBy' = [e \in Endpoints |-> [n \in Batches |->
                 IF <<e, n>> \in Captured(K) THEN evicted + 1 ELSE retiredBy[e][n]]]
  /\ UNCHANGED <<disposed, sweeping, context>>

(* The contexts of the oldest batch that is still pending. *)
OldestBatch == {p \in Endpoints \X Batches : retiredBy[p[1]][p[2]] = disposed + 1}

(* allSettled(contexts) of the oldest batch resolved. *)
SweepReady ==
  /\ disposed < evicted
  /\ ~sweeping
  /\ \A p \in OldestBatch : context[p[1]][p[2]] # "building"

(* Every context of the batch that was built is told to close, in one frame. *)
StartSweep ==
  /\ SweepReady
  /\ sweeping' = TRUE
  /\ context' = [e \in Endpoints |-> [n \in Batches |->
       IF <<e, n>> \in OldestBatch /\ context[e][n] = "live"
         THEN "closing" ELSE context[e][n]]]
  /\ UNCHANGED <<evicted, disposed, retiredBy>>

(* allSettled(disposals) resolved: the batch is done, and with it whoever  *)
(* awaited the barrier it was.                                             *)
FinishSweep ==
  /\ sweeping
  /\ sweeping' = FALSE
  /\ disposed' = disposed + 1
  /\ context' = [e \in Endpoints |-> [n \in Batches |->
       IF <<e, n>> \in OldestBatch THEN "absent" ELSE context[e][n]]]
  /\ retiredBy' = [e \in Endpoints |-> [n \in Batches |->
       IF <<e, n>> \in OldestBatch THEN 0 ELSE retiredBy[e][n]]]
  /\ UNCHANGED evicted
=============================================================================
