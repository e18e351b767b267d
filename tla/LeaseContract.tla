----------------------------- MODULE LeaseContract ----------------------------
(***************************************************************************)
(* What the management API promises about leases, with no listener,        *)
(* channel, lock or task: an identity belongs to at most one lease that is *)
(* not closed; nothing is admitted after revocation; counters are final    *)
(* once frozen, with no connection active; and every certificate returned  *)
(* by a close states the final counters.                                   *)
(***************************************************************************)
EXTENDS Integers

CONSTANTS Leases, Identities, NoIdentity

VARIABLES
  stage,   \* per lease: absent, open, revoked, frozen or closed
  holder,  \* per lease: the identity it was granted
  tally,   \* per lease: its counters
  issued   \* per lease: the certificate its owner has received, {} if none

contractVars == <<stage, holder, tally, issued>>

ContractInit ==
  /\ stage = [l \in Leases |-> "absent"]
  /\ holder = [l \in Leases |-> NoIdentity]
  /\ tally = [l \in Leases |-> [accepted |-> 0, active |-> 0, denied |-> 0]]
  /\ issued = [l \in Leases |-> {}]

Counting(l) == stage[l] \in {"open", "revoked"}

Grant(l, i) ==
  /\ stage[l] = "absent"
  /\ \A m \in Leases : holder[m] = i => stage[m] = "closed"
  /\ stage' = [stage EXCEPT ![l] = "open"]
  /\ holder' = [holder EXCEPT ![l] = i]
  /\ UNCHANGED <<tally, issued>>

Admit(l) ==
  /\ stage[l] = "open"
  /\ tally' = [tally EXCEPT ![l].accepted = @ + 1, ![l].active = @ + 1]
  /\ UNCHANGED <<stage, holder, issued>>

Deny(l) ==
  /\ Counting(l)
  /\ tally' = [tally EXCEPT ![l].denied = @ + 1]
  /\ UNCHANGED <<stage, holder, issued>>

Finish(l) ==
  /\ Counting(l) /\ tally[l].active > 0
  /\ tally' = [tally EXCEPT ![l].active = @ - 1]
  /\ UNCHANGED <<stage, holder, issued>>

\* Shutdown revokes every lease at once, the other calls one.
Revoke(S) ==
  /\ stage' = [l \in Leases |-> IF l \in S /\ stage[l] = "open" THEN "revoked" ELSE stage[l]]
  /\ UNCHANGED <<holder, tally, issued>>

Freeze(l) ==
  /\ stage[l] = "revoked" /\ tally[l].active = 0
  /\ stage' = [stage EXCEPT ![l] = "frozen"]
  /\ UNCHANGED <<holder, tally, issued>>

Issue(l) == issued' = [issued EXCEPT ![l] = {tally[l]}]

\* The identity becomes reusable; a close call also gets its certificate.
Close(l) ==
  /\ stage[l] \in {"revoked", "frozen"} /\ tally[l].active = 0
  /\ stage' = [stage EXCEPT ![l] = "closed"]
  /\ Issue(l) \/ UNCHANGED issued
  /\ UNCHANGED <<holder, tally>>

\* A lease that a shutdown has closed still yields its certificate.
Collect(l) ==
  /\ stage[l] = "closed"
  /\ Issue(l)
  /\ UNCHANGED <<stage, holder, tally>>

ContractNext ==
  \/ \E l \in Leases :
       \/ \E i \in Identities : Grant(l, i)
       \/ Admit(l) \/ Deny(l) \/ Finish(l) \/ Freeze(l) \/ Close(l) \/ Collect(l)
  \/ \E S \in SUBSET Leases : Revoke(S)

Contract == ContractInit /\ [][ContractNext]_contractVars

===============================================================================
