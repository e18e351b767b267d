---------------------------- MODULE MCProxyRuntime ----------------------------
(***************************************************************************)
(* Small instances of ProxyRuntime.  `a4` and `b4` are IPv4 peers, `mapped`*)
(* the IPv4-mapped IPv6 spelling of `a4`.                                  *)
(***************************************************************************)
EXTENDS ProxyRuntime, TLC

CONSTANTS c1, c2, a4, b4, mapped

SpellingsOfA == [a \in Addresses |-> IF a = mapped THEN a4 ELSE a]

AllFromA == [c \in Conns |-> a4]

\* One socket of each identity, that of a4 under its mapped spelling.
OneFromEach == [c \in Conns |-> IF c = c1 THEN mapped ELSE b4]

\* Sound where every socket comes from the same address and no liveness is checked.
Symmetry == Permutations(Conns)

===============================================================================
