----------------------------- MODULE ClientHello -----------------------------
(***************************************************************************)
(* The bytes-only half of tls.rs: collecting the handshake message out of  *)
(* TLS records and looking for the ECH extension.  Bytes are numbers.  A   *)
(* Result is the set of its value, empty for ClientHelloError::Invalid; a  *)
(* reader that `take` moves forward is the Result of what is left to read. *)
(***************************************************************************)
EXTENDS Naturals, Sequences, FiniteSetsExt

CONSTANT HelloPrefix    \* version and random of a ClientHello, 2 + 32 bytes in the code

TLS_HANDSHAKE == 22
CLIENT_HELLO == 1
ECH_EXTENSION == <<254, 13>>

U16(b) == 256 * b[1] + b[2]

Drop(b, n) == SubSeq(b, n + 1, Len(b))

take(rest, n) == {Drop(b, n) : b \in {c \in rest : Len(c) >= n}}

take_u8_vector(rest) == UNION {take({b}, 1 + b[1]) : b \in {c \in rest : Len(c) >= 1}}

take_u16_vector(rest) == UNION {take({b}, 2 + U16(b)) : b \in {c \in rest : Len(c) >= 2}}

\* What take_u16_vector returns, the reader moving on as above.
U16Content(b) == SubSeq(b, 3, 2 + U16(b))

------------------------------------------------------------------------------
ExpectedLength(handshake) == 4 + 65536 * handshake[2] + 256 * handshake[3] + handshake[4]

\* One turn of the loop over the records: [records, handshake, state].
ReadRecord(s) ==
    LET after     == take_u16_vector(take({s.records}, 3))
        handshake == s.handshake \o U16Content(Drop(s.records, 3))
    IN  IF s.state # "more" \/ s.records = <<>> THEN s
        ELSE IF after = {} \/ s.records[1] # TLS_HANDSHAKE THEN [s EXCEPT !.state = "invalid"]
        ELSE IF Len(handshake) >= 4 /\ handshake[1] # CLIENT_HELLO THEN [s EXCEPT !.state = "invalid"]
        ELSE [records   |-> CHOOSE rest \in after : TRUE,
              handshake |-> handshake,
              state     |-> IF Len(handshake) >= 4 /\ Len(handshake) >= ExpectedLength(handshake)
                            THEN "complete" ELSE "more"]

\* Mutant of deframe_client_hello: the hello is expected in one record.
FirstRecordOnly(wire) ==
    {SubSeq(s.handshake, 1, ExpectedLength(s.handshake)) :
        s \in {r \in {ReadRecord([records |-> wire, handshake |-> <<>>, state |-> "more"])} :
                  r.state = "complete"}}

deframe_client_hello(wire) ==
    LET start == [records |-> wire, handshake |-> <<>>, state |-> "more"]
        turn[n \in 0..Len(wire)] == IF n = 0 THEN start ELSE ReadRecord(turn[n - 1])
        last  == turn[Len(wire)]
    IN  IF last.state = "complete"
        THEN {SubSeq(last.handshake, 1, ExpectedLength(last.handshake))} ELSE {}

\* The loop over the extensions, from the i-th byte on.
EchIn(extensions) ==
    LET n == Len(extensions)
        from[i \in 1..(n + 1)] ==
            LET rest  == SubSeq(extensions, i, n)
                after == take_u16_vector(take({rest}, 2))
            IN  IF rest = <<>> THEN {FALSE}
                ELSE IF after = {} THEN {}
                ELSE IF SubSeq(rest, 1, 2) = ECH_EXTENSION THEN {TRUE}
                ELSE from[n + 1 - Len(CHOOSE r \in after : TRUE)]
    IN  from[1]

client_hello_has_ech(wire) ==
    LET bodies == {Drop(h, 4) : h \in deframe_client_hello(wire)}
        rest   == take_u8_vector(take_u16_vector(take_u8_vector(take(bodies, HelloPrefix))))
    IN  UNION { IF b = <<>> THEN {FALSE}
                ELSE IF take_u16_vector({b}) # {<<>>} THEN {}
                ELSE EchIn(U16Content(b)) : b \in rest }

==============================================================================
