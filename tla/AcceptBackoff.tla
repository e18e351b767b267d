----------------------------- MODULE AcceptBackoff ----------------------------
(***************************************************************************)
(* `AcceptBackoff` in proxy.rs: the delay after consecutive listener       *)
(* errors, in milliseconds, and whether a retry is scheduled.              *)
(***************************************************************************)
EXTENDS Integers

AcceptRetryInitial == 5

AcceptRetryMax == 1000

BackoffRecord == [delay: 0..AcceptRetryMax, retryAt: BOOLEAN]

NoBackoff == [delay |-> 0, retryAt |-> FALSE]

NextDelay(delay) ==
  IF delay = 0 THEN AcceptRetryInitial
  ELSE IF 2 * delay < AcceptRetryMax THEN 2 * delay ELSE AcceptRetryMax

\* fail: schedule a retry after the next delay.
BackoffFail(b) == [delay |-> NextDelay(b.delay), retryAt |-> TRUE]

\* Mutant of BackoffResume: the retry stays scheduled after its timer fired.
BackoffResumeNever(b) == b

\* resume: the retry timer fired; the delay is kept.
BackoffResume(b) == [b EXCEPT !.retryAt = FALSE]

\* recover: an accept or a drain succeeded.
BackoffRecover(b) == [b EXCEPT !.delay = 0, !.retryAt = FALSE]

===============================================================================
