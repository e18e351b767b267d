------------------------------ MODULE TokenBucket -----------------------------
(***************************************************************************)
(* The token bucket of rate.rs.  Tokens are counted in units of            *)
(* 1/TOKEN_SCALE so that a refill needs no fractions; sums and products    *)
(* saturate at the width of u128.                                          *)
(***************************************************************************)
EXTENDS Integers

CONSTANTS
  TokenScale,  \* TOKEN_SCALE: units of one token, and of the clock per second
  MaxTokens    \* stands for u128::MAX

ASSUME ScaleAssumption == TokenScale \in Nat \ {0} /\ MaxTokens \in Nat

\* RateLimit::is_valid; the capacity of a u32 burst fits in a u128.
Limit == {r \in [rate: Nat \ {0}, burst: Nat \ {0}] : r.burst * TokenScale <= MaxTokens}

Bucket == [limit: Limit, tokens: Nat, updatedAt: Nat]

Saturated(x) == IF x > MaxTokens THEN MaxTokens ELSE x

Capacity(b) == b.limit.burst * TokenScale

Full(limit, now) == [limit |-> limit, tokens |-> limit.burst * TokenScale, updatedAt |-> now]

\* saturating_duration_since
Elapsed(b, now) == IF now > b.updatedAt THEN now - b.updatedAt ELSE 0

\* Mutant of Refilled: the capacity is not enforced.
RefilledUncapped(b, now) == Saturated(b.tokens + Saturated(Elapsed(b, now) * b.limit.rate))

\* The tokens there are at `now`, before any is taken.
Refilled(b, now) ==
  LET sum == Saturated(b.tokens + Saturated(Elapsed(b, now) * b.limit.rate))
  IN  IF sum > Capacity(b) THEN Capacity(b) ELSE sum

CanTake(b, now) == Refilled(b, now) >= TokenScale

\* Mutant of TryTake: a refused attempt restarts the clock without keeping the refill.
TryTakeForgetful(b, now) ==
  [b EXCEPT !.tokens = IF CanTake(b, now) THEN Refilled(b, now) - TokenScale ELSE @,
            !.updatedAt = now]

\* try_take: refill, then take one token if there is one.
TryTake(b, now) ==
  [b EXCEPT !.tokens = Refilled(b, now) - (IF CanTake(b, now) THEN TokenScale ELSE 0),
            !.updatedAt = now]

===============================================================================
