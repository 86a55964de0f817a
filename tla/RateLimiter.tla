---------------------------- MODULE RateLimiter ----------------------------
(***************************************************************************)
(* The anti-ban limiter of one account                                     *)
(* (infrastructure/rate-limit/token-bucket-rate-limiter.ts): a bucket of   *)
(* tokens per kind of call and a circuit breaker.  The limiter is a        *)
(* record; Reserve is its one operation, which runs without an await.      *)
(*                                                                         *)
(* A token is worth Minute parts, so that a tick of the clock refills a    *)
(* whole number of them.                                                   *)
(***************************************************************************)
EXTENDS Naturals, Sequences, FiniteSets

CONSTANTS
  Buckets,      \* "messages", "forwards", "searches"
  Capacity,     \* Capacity[b]: units per minute, and the largest burst
  Minute,       \* ticks of the clock in MINUTE_MS
  LongWait,     \* longWaitSeconds
  Threshold,    \* strikes that trip the breaker
  StrikeWindow, \* windowMs
  Cooldown      \* cooldownMs

ASSUME LimiterAssumption ==
  /\ Capacity \in [Buckets -> Nat \ {0}]
  /\ {Minute, LongWait, Threshold, StrikeWindow, Cooldown} \subseteq Nat \ {0}
  /\ StrikeWindow <= Cooldown

(* State of an account not seen before, or forgotten with it. *)
FreshLimiter(now) ==
  [tokens   |-> [b \in Buckets |-> Capacity[b] * Minute],
   refilled |-> [b \in Buckets |-> now],
   strikes  |-> <<>>,
   openUntil |-> 0]

(* Refills beyond the capacity. *)
RefillUnbounded(limiter, b, now) ==
  [limiter EXCEPT
     !.tokens[b] = @ + (now - limiter.refilled[b]) * Capacity[b],
     !.refilled[b] = now]

Refill(limiter, b, now) ==
  LET full == Capacity[b] * Minute
      tokens == limiter.tokens[b] + (now - limiter.refilled[b]) * Capacity[b]
  IN [limiter EXCEPT
        !.tokens[b] = IF tokens < full THEN tokens ELSE full,
        !.refilled[b] = now]

(* Strikes are in the order of the clock: the old ones are the first. *)
OldStrikes(strikes, now) == {i \in DOMAIN strikes : strikes[i] + StrikeWindow <= now}

(* Threshold strikes in a window open the breaker and are forgotten. *)
AddStrike(limiter, now) ==
  LET old == Cardinality(OldStrikes(limiter.strikes, now))
      strikes == Append(SubSeq(limiter.strikes, old + 1, Len(limiter.strikes)), now)
  IN IF Len(strikes) >= Threshold
       THEN [limiter EXCEPT !.openUntil = now + Cooldown, !.strikes = <<>>]
       ELSE [limiter EXCEPT !.strikes = strikes]

Frozen(limiter, now) == limiter.openUntil > 0 /\ now < limiter.openUntil

(* The breaker closes with a clean record once its cooldown is over. *)
HalfOpened(limiter) ==
  IF limiter.openUntil > 0 THEN [limiter EXCEPT !.openUntil = 0, !.strikes = <<>>] ELSE limiter

(* Ticks until the tokens that are missing will be there. *)
BackOff(limiter, b, units) ==
  LET deficit == units * Minute - limiter.tokens[b]
  IN (deficit + Capacity[b] - 1) \div Capacity[b]

(* The verdict and the limiter after it; long marks a refusal whose        *)
(* back-off counts as a strike.                                            *)
Reserve(limiter, b, units, now) ==
  LET closed == HalfOpened(limiter)
      filled == Refill(closed, b, now)
      long == BackOff(filled, b, units) >= LongWait
  IN IF Frozen(limiter, now)
       THEN [granted |-> FALSE, long |-> FALSE, limiter |-> limiter]
     ELSE IF units > Capacity[b]
       THEN [granted |-> FALSE, long |-> FALSE, limiter |-> closed]
     ELSE IF filled.tokens[b] >= units * Minute
       THEN [granted |-> TRUE, long |-> FALSE,
             limiter |-> [filled EXCEPT !.tokens[b] = @ - units * Minute]]
     ELSE [granted |-> FALSE, long |-> long,
           limiter |-> IF long THEN AddStrike(filled, now) ELSE filled]
=============================================================================
