------------------------------ MODULE MCHandshake -----------------------------
EXTENDS Handshake

CONSTANTS c1, c2, a4, mapped, b4, bad

Mapping == [x \in Addresses |-> IF x = mapped THEN a4 ELSE x]

\* No address, too many, a repeated one, a forbidden one, two and one.
SomeAnswers ==
  {<<>>, <<a4, b4, a4, b4>>, <<a4, mapped, b4>>, <<b4, bad>>, <<a4, b4>>, <<mapped>>}

===============================================================================
