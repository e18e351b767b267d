----------------------------- MODULE MCAttemptRate ----------------------------
EXTENDS AttemptRate

CONSTANTS a, b, g

\* A lease with a slow rate, one without, and a proxy bucket with a fast one.
SomeLimits ==
  [k \in Buckets |-> IF k = g THEN [rate |-> 2, burst |-> 2] ELSE [rate |-> 1, burst |-> 1]]

===============================================================================
