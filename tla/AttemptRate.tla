------------------------------ MODULE AttemptRate -----------------------------
(***************************************************************************)
(* Connection-attempt rates: LeaseState::allows_connection_attempt charges *)
(* the lease's bucket, then the proxy's.  Only the listener owner calls it,*)
(* so the clock readings it passes to a bucket never go back.              *)
(***************************************************************************)
EXTENDS TokenBucket, Clock

CONSTANTS
  Leases,
  Global,   \* the proxy's own bucket
  Limited,  \* the leases with a rate, and Global if the proxy has one
  Limits    \* the RateLimit of each of these

Buckets == Leases \cup {Global}

ASSUME RateAssumption ==
  /\ Global \notin Leases /\ Limited \in SUBSET Buckets
  /\ Limits \in [Buckets -> Limit] /\ MaxTime \in Nat

VARIABLES
  open,     \* the leases in Phase::Open
  bucket,
  mark,     \* history, per bucket: the start of an observed window,
  taken,    \*   the tokens taken from it since,
  allowed   \*   and the attempts allowed since the mark of Global

rateVars == <<now, open, bucket, mark, taken, allowed>>

RateInit ==
  /\ now = 0 /\ open = Leases
  /\ bucket = [k \in Buckets |-> Full(Limits[k], 0)]
  /\ mark = [k \in Buckets |-> 0] /\ taken = [k \in Buckets |-> 0] /\ allowed = 0

RateTick == Advance /\ UNCHANGED <<open, bucket, mark, taken, allowed>>

Revoke(l) == l \in open /\ open' = open \ {l} /\ UNCHANGED <<now, bucket, mark, taken, allowed>>

\* A window of observation starts now.
Mark(k) ==
  /\ k \in Limited
  /\ mark' = [mark EXCEPT ![k] = now]
  /\ taken' = [taken EXCEPT ![k] = 0]
  /\ allowed' = IF k = Global THEN 0 ELSE allowed
  /\ UNCHANGED <<now, open, bucket>>

Allows(k) == k \in Limited => CanTake(bucket[k], now)

\* The buckets in `ks` that are configured are charged, in one critical section.
Charge(ks) ==
  LET charged == ks \cap Limited IN
  /\ bucket' = [k \in Buckets |-> IF k \in charged THEN TryTake(bucket[k], now) ELSE bucket[k]]
  /\ taken' = [k \in Buckets |->
       IF k \in charged /\ CanTake(bucket[k], now) THEN taken[k] + 1 ELSE taken[k]]

\* Mutant of Attempt: the proxy's bucket is charged before the lease's is asked.
AttemptGlobalFirst(l) ==
  /\ Limited # {}
  /\ \/ l \notin open /\ UNCHANGED <<bucket, taken, allowed>>
     \/ /\ l \in open
        /\ Charge({l, Global})
        /\ allowed' = IF Allows(l) /\ Allows(Global) THEN allowed + 1 ELSE allowed
  /\ UNCHANGED <<now, open, mark>>

\* allows_connection_attempt, called when some rate is configured: a lease not
\* open is refused for free, a lease out of tokens before the proxy's bucket is
\* touched.
Attempt(l) ==
  /\ {l, Global} \cap Limited # {}
  /\ \/ l \notin open /\ UNCHANGED <<bucket, taken, allowed>>
     \/ l \in open /\ ~Allows(l) /\ Charge({l}) /\ UNCHANGED allowed
     \/ l \in open /\ Allows(l) /\ ~Allows(Global) /\ Charge({l, Global}) /\ UNCHANGED allowed
     \/ l \in open /\ Allows(l) /\ Allows(Global) /\ Charge({l, Global}) /\ allowed' = allowed + 1
  /\ UNCHANGED <<now, open, mark>>

RateNext ==
  \/ RateTick
  \/ \E l \in Leases : Revoke(l) \/ Attempt(l)
  \/ \E k \in Buckets : Mark(k)

RateSpec == RateInit /\ [][RateNext]_rateVars

-------------------------------------------------------------------------------

\* The clock never runs behind a bucket, and no bucket holds more than its burst.
TypeOK ==
  /\ now \in Nat /\ open \in SUBSET Leases /\ allowed \in Nat
  /\ mark \in [Buckets -> Nat] /\ taken \in [Buckets -> Nat]
  /\ bucket \in [Buckets -> Bucket]
  /\ \A k \in Buckets :
       /\ bucket[k].tokens <= Capacity(bucket[k])
       /\ bucket[k].updatedAt <= now /\ mark[k] <= now

\* In any window of time a bucket gives out at most its burst and what its rate
\* adds over the window, whatever the pattern of attempts (TokenBucket::try_take).
WindowBound ==
  \A k \in Limited :
    taken[k] * TokenScale <= Capacity(bucket[k]) + bucket[k].limit.rate * (now - mark[k])

\* A refused attempt costs nothing: whenever the bucket would have had a token
\* without it, it has one after it (fractions of a token are kept).
RefusalPostponesNothing ==
  [][\A k \in Limited :
       taken'[k] = taken[k] =>
         \A t \in now..(now + 2 * TokenScale) :
           CanTake(bucket[k], t) => CanTake(bucket'[k], t)]_rateVars

\* The proxy's bucket is charged only for attempts that are let through: a lease
\* over its own rate, or revoked, cannot spend the tokens of the others.
GlobalSpendsOnAllowed == Global \in Limited => taken[Global] = allowed

===============================================================================
