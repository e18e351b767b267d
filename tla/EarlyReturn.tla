----------------------------- MODULE EarlyReturn -----------------------------
(***************************************************************************)
(* A run of checks with early returns: `if c1 { return e1 } if c2 ...`.    *)
(* The code's order decides which error is reported when several apply.    *)
(***************************************************************************)
EXTENDS Naturals, Sequences, FiniteSetsExt

OK == "ok"

\* checks is a sequence of pairs <<the condition fails, the error>>.
FirstError(checks) ==
    LET failing == {i \in DOMAIN checks : checks[i][1]}
    IN  IF failing = {} THEN OK ELSE checks[Min(failing)][2]

==============================================================================
