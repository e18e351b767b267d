------------------------------- MODULE Preamble -------------------------------
(***************************************************************************)
(* What one connection reads before its tunnel: the CONNECT header         *)
(* (read_bounded_header of connect.rs, read_connect_header of proxy.rs),   *)
(* then, where the policy asks for it, the ClientHello (read_client_hello  *)
(* of tls.rs, inspect_tls_tunnel of proxy.rs).  The peer's bytes arrive in *)
(* reads of any size, and the read that completes the header may bring     *)
(* bytes of the tunnel with it.                                            *)
(*                                                                         *)
(* An input is [stream, hello, limit, tls]: what the peer sends, what the  *)
(* bytes behind the header mean, and the policy's max_tunnel_upload_bytes  *)
(* (an Option) and tls_authority.  A hello is [valid, complete, ech, sni], *)
(* complete being how many tunnel bytes carry the whole message, and, when *)
(* it is valid, the layout of those bytes: the message, and the places at  *)
(* which its records, its fields and its extensions end.                   *)
(***************************************************************************)
EXTENDS ClientHello

CONSTANTS
    Inputs,             \* what a peer may send
    MaxHeader,          \* config.max_header_bytes
    MaxHello,           \* config.max_client_hello_bytes
    Chunk               \* the size of the read buffer, 4096 in the code

ASSUME PreambleAssumption ==
    /\ MaxHeader \in Nat \ {0} /\ MaxHello \in Nat \ {0} /\ Chunk \in Nat \ {0}
    /\ \A i \in Inputs :
          /\ i.stream \in Seq(Nat) /\ i.limit \subseteq Nat /\ i.tls \in {"disabled", "reject-ech", "allow-outer-sni"}
          /\ i.hello.sni \in {"same", "tls-sni-missing", "tls-authority-not-hostname", "tls-sni-mismatch"}

VARIABLES
    input,
    phase, outcome,
    pos,                    \* bytes taken from the socket
    bytes, end,             \* the header buffer and the header's end
    wire, fed,              \* wire_bytes, and how many of them the acceptor has
    upstream,               \* bytes written to the destination
    broken                  \* a read has failed

preambleVars == <<input, phase, outcome, pos, bytes, end, wire, fed, upstream, broken>>

CR == 13
LF == 10
Stream == input.stream
limit == input.limit
tls == input.tls

PreambleInit ==
    /\ input \in Inputs
    /\ phase = "header" /\ outcome = "none" /\ pos = 0
    /\ bytes = <<>> /\ end = 0 /\ wire = <<>> /\ fed = 0 /\ upstream = <<>> /\ broken = FALSE

Finish(reason) == phase' = "done" /\ outcome' = reason

------------------------------------------------------------------------------
AtDelimiter(b, i) == SubSeq(b, i, i + 3) = <<CR, LF, CR, LF>>

\* The end of the first delimiter at or after scan_from, an Option; offsets
\* are the code's, counted from zero.
find_header_end(b, scan_from) ==
    LET found == {i \in (scan_from + 1)..(Len(b) - 3) : AtDelimiter(b, i)}
    IN  IF found = {} THEN {} ELSE {Min(found) + 3}

\* External: the layout TLS gives a ClientHello.  The k-th of the parts that
\* end at `ends` and follow one another from `start` on begins behind Begin.
Begin(start, ends, k) == IF k = 1 THEN start ELSE ends[k - 1]

U16At(b, p) == U16(<<b[p + 1], b[p + 2]>>)

\* The tunnel's first bytes are the records that carry the message, each with
\* five bytes in front of its part; the last one completes it.
InRecords(tunnel, h) ==
    /\ h.records \in Seq(Nat) /\ h.records # <<>>
    /\ h.complete = h.records[Len(h.records)] /\ h.complete <= Len(tunnel)
    /\ Len(h.message) = h.complete - 5 * Len(h.records)
    /\ \A k \in DOMAIN h.records :
          LET b == Begin(0, h.records, k)
          IN  /\ b + 5 <= h.records[k] /\ (k < Len(h.records) => h.records[k] - 5 * k < Len(h.message))
              /\ tunnel[b + 1] = TLS_HANDSHAKE /\ U16At(tunnel, b + 3) = h.records[k] - b - 5
              /\ \A i \in (b + 6)..h.records[k] : tunnel[i] = h.message[i - 5 * k]

\* Behind its header a message has four fields, and then the extensions or nothing.
IsMessage(h) ==
    LET m == h.message
        f == h.fields
    IN  /\ m \in Seq(Nat) /\ f \in Seq(Nat) /\ h.extensions \in Seq(Nat)
        /\ Len(f) = 4 /\ f[1] = 4 + HelloPrefix
        /\ f[1] < f[2] /\ f[2] + 2 <= f[3] /\ f[3] < f[4] /\ f[4] <= Len(m)
        /\ m[1] = CLIENT_HELLO /\ ExpectedLength(m) = Len(m)
        /\ f[2] = f[1] + 1 + m[f[1] + 1] /\ f[3] = f[2] + 2 + U16At(m, f[2]) /\ f[4] = f[3] + 1 + m[f[3] + 1]
        /\ \/ h.extensions = <<>> /\ Len(m) = f[4]
           \/ /\ f[4] + 2 <= Len(m) /\ Len(m) = f[4] + 2 + U16At(m, f[4])
              /\ Len(m) = Begin(f[4] + 2, h.extensions, Len(h.extensions) + 1)
              /\ \A k \in DOMAIN h.extensions :
                    LET b == Begin(f[4] + 2, h.extensions, k)
                    IN  /\ b + 4 <= h.extensions[k] /\ h.extensions[k] <= Len(m)
                        /\ h.extensions[k] = b + 4 + U16At(m, b + 2)

HasEch(h) ==
    \E k \in DOMAIN h.extensions :
        LET b == Begin(h.fields[4] + 2, h.extensions, k)
        IN  SubSeq(h.message, b + 1, b + 2) = ECH_EXTENSION

\* A valid hello says what the bytes behind the header are.
ASSUME HelloAssumption ==
    /\ HelloPrefix \in Nat
    /\ \A i \in Inputs : i.hello.valid =>
          \A e \in find_header_end(i.stream, 0) :
              /\ InRecords(SubSeq(i.stream, e + 1, Len(i.stream)), i.hello)
              /\ IsMessage(i.hello) /\ i.hello.ech = HasEch(i.hello)

\* Mutant of ScanFrom: a delimiter split over two reads is not seen.
OnlyNewBytes(length) == length

ScanFrom(length) == IF length < 3 THEN 0 ELSE length - 3

ReadHeader ==
    /\ phase = "header" /\ Len(bytes) < MaxHeader
    /\ \E n \in 1..Min({MaxHeader - Len(bytes), Chunk, Len(Stream) - pos}) :
          LET b == bytes \o SubSeq(Stream, pos + 1, pos + n)
              found == find_header_end(b, ScanFrom(Len(bytes)))
          IN  /\ pos' = pos + n /\ bytes' = b
              /\ IF found = {} THEN UNCHANGED <<phase, end>>
                 ELSE phase' = "parse" /\ end' \in found
    /\ UNCHANGED <<input, outcome, wire, fed, upstream, broken>>

HeaderTooLarge ==
    /\ phase = "header" /\ Len(bytes) >= MaxHeader
    /\ Finish("header-too-large")
    /\ UNCHANGED <<input, pos, bytes, end, wire, fed, upstream, broken>>

HeaderEof ==
    /\ phase = "header" /\ Len(bytes) < MaxHeader /\ pos = Len(Stream)
    /\ Finish("header-eof")
    /\ UNCHANGED <<input, pos, bytes, end, wire, fed, upstream, broken>>

\* The read fails, or the deadline passes while it waits.
HeaderReadFails ==
    /\ phase = "header" /\ Len(bytes) < MaxHeader
    /\ \E reason \in {"header-read-failed", "header-timeout"} : Finish(reason)
    /\ broken' = TRUE
    /\ UNCHANGED <<input, pos, bytes, end, wire, fed, upstream>>

------------------------------------------------------------------------------
\* External: where httparse ends a request, which takes a bare LF for a line
\* end and skips empty lines in front.  A CR inside a line is an error.
EmptyLineAt(b, e) ==
    /\ b[e] = LF
    /\ \/ e = 1 \/ b[e - 1] = LF
       \/ b[e - 1] = CR /\ (e = 2 \/ b[e - 2] = LF)

RequestEnds(b) ==
    {e \in 1..Len(b) : EmptyLineAt(b, e) /\ \E i \in 1..e : b[i] \notin {CR, LF}}

HttpParse(b) ==
    LET ends == RequestEnds(b)
        last == IF ends = {} THEN Len(b) ELSE Min(ends)
    IN  IF \E i \in 1..(last - 1) : b[i] = CR /\ b[i + 1] # LF THEN "error"
        ELSE IF ends = {} THEN "partial"
        ELSE IF last = Len(b) THEN "complete" ELSE "shorter"

\* parse_connect's first match: the parser must end where the framer does.
Boundary(b) ==
    CASE HttpParse(b) = "complete" -> "none"
      [] HttpParse(b) = "partial"  -> "incomplete-header"
      [] OTHER                     -> "malformed-header"

\* Mutant of Buffered: what came with the header is dropped with it.
DroppedWithHeader == <<>>

Buffered == SubSeq(bytes, end + 1, Len(bytes))

HelloCeiling == Min({MaxHello} \cup limit)

TooLargeReason == IF HelloCeiling < MaxHello THEN "upload-limit" ELSE "client-hello-too-large"

\* serve_connect from the header to the tunnel's first bytes.
Parse ==
    /\ phase = "parse"
    /\ LET verdict == Boundary(SubSeq(bytes, 1, end))
       IN  IF verdict # "none" THEN Finish(verdict) /\ UNCHANGED <<wire, upstream>>
           ELSE IF \E l \in limit : Len(Buffered) > l THEN Finish("upload-limit") /\ UNCHANGED <<wire, upstream>>
           ELSE IF tls = "disabled" THEN phase' = "write" /\ UNCHANGED <<outcome, wire, upstream>>
           ELSE IF Len(Buffered) > HelloCeiling THEN Finish(TooLargeReason) /\ UNCHANGED <<wire, upstream>>
           ELSE phase' = "hello" /\ wire' = Buffered /\ UNCHANGED <<outcome, upstream>>
    /\ UNCHANGED <<input, pos, bytes, end, fed, broken>>

\* The request is refused, or no destination is reached, or the response is not
\* taken in time: the subject of Destination and Handshake.
NotConnected ==
    /\ phase = "parse" /\ Boundary(SubSeq(bytes, 1, end)) = "none"
    /\ Finish("not-connected")
    /\ UNCHANGED <<input, pos, bytes, end, wire, fed, upstream, broken>>

------------------------------------------------------------------------------
\* External: rustls' Acceptor once it has been given n bytes of the tunnel.
Acceptor(n) ==
    IF ~input.hello.valid THEN {"none", "error"}
    ELSE IF n >= input.hello.complete THEN {"accepted"} ELSE {"none"}

\* inspect_tls_tunnel behind read_client_hello: `sni` is what the comparison of
\* the canonical server name with the canonical CONNECT host comes to.
InspectionDenial ==
    LET ech == client_hello_has_ech(wire)
    IN  CASE ech = {} -> "client-hello-invalid"
          [] ech # {} /\ input.hello.sni # "same" -> input.hello.sni
          [] ech = {TRUE} /\ input.hello.sni = "same" /\ tls = "reject-ech" -> "ech-denied"
          [] OTHER -> "none"

\* One turn of the loop: the acceptor takes some of the bytes and is asked.
Feed ==
    /\ phase = "hello" /\ fed < Len(wire)
    /\ \E n \in (fed + 1)..Len(wire) :
          /\ fed' = n
          /\ \E verdict \in Acceptor(n) :
                \/ verdict = "none" /\ UNCHANGED <<phase, outcome>>
                \/ verdict = "error" /\ Finish("client-hello-invalid")
                \/ /\ verdict = "accepted"
                   /\ IF InspectionDenial # "none" THEN Finish(InspectionDenial)
                      ELSE phase' = "write" /\ UNCHANGED outcome
    /\ UNCHANGED <<input, pos, bytes, end, wire, upstream, broken>>

AllFed == phase = "hello" /\ fed = Len(wire)

ReadHello ==
    /\ AllFed /\ Len(wire) # HelloCeiling
    /\ \E n \in 1..Min({HelloCeiling - Len(wire), Chunk, Len(Stream) - pos}) :
          pos' = pos + n /\ wire' = wire \o SubSeq(Stream, pos + 1, pos + n)
    /\ UNCHANGED <<input, phase, outcome, bytes, end, fed, upstream, broken>>

HelloTooLarge ==
    /\ AllFed /\ Len(wire) = HelloCeiling
    /\ Finish(TooLargeReason)
    /\ UNCHANGED <<input, pos, bytes, end, wire, fed, upstream, broken>>

HelloEof ==
    /\ AllFed /\ Len(wire) # HelloCeiling /\ pos = Len(Stream)
    /\ Finish("client-hello-eof")
    /\ UNCHANGED <<input, pos, bytes, end, wire, fed, upstream, broken>>

HelloReadFails ==
    /\ AllFed /\ Len(wire) # HelloCeiling
    /\ \E reason \in {"client-hello-invalid", "client-hello-timeout"} : Finish(reason)
    /\ broken' = TRUE
    /\ UNCHANGED <<input, pos, bytes, end, wire, fed, upstream>>

------------------------------------------------------------------------------
FirstUpload == IF tls = "disabled" THEN Buffered ELSE wire

Forward ==
    /\ phase = "write"
    /\ upstream' = FirstUpload /\ Finish("forwarded")
    /\ UNCHANGED <<input, pos, bytes, end, wire, fed, broken>>

\* write_all fails, or the deadline passes, with part of the bytes written.
ForwardFails ==
    /\ phase = "write"
    /\ \E n \in 0..Len(FirstUpload) : upstream' = SubSeq(FirstUpload, 1, n)
    /\ \E reason \in {"upstream-write-failed",
                      IF tls = "disabled" THEN "initial-upload-timeout" ELSE "client-hello-timeout"} : Finish(reason)
    /\ UNCHANGED <<input, pos, bytes, end, wire, fed, broken>>

PreambleNext ==
    \/ ReadHeader \/ HeaderTooLarge \/ HeaderEof \/ HeaderReadFails
    \/ Parse \/ NotConnected
    \/ Feed \/ ReadHello \/ HelloTooLarge \/ HelloEof \/ HelloReadFails
    \/ Forward \/ ForwardFails

PreambleSpec == PreambleInit /\ [][PreambleNext]_preambleVars

------------------------------------------------------------------------------
Delimiters == {i \in 1..(Len(Stream) - 3) : AtDelimiter(Stream, i)}

\* However the peer's bytes are cut into reads, the header ends behind the first
\* delimiter of the stream; it is only called too large when none ends within the
\* ceiling, and only cut off when the stream has none (read_bounded_header, which
\* looks at new bytes and three old ones).  Past the parser, no shorter part of
\* the header already was a whole request, so that what follows the header for
\* one reader is not header for another ("The bounded framer and mature parser
\* must select the same boundary").
OneBoundary ==
    /\ end # 0 => Delimiters # {} /\ end = Min(Delimiters) + 3 /\ end <= MaxHeader
    /\ outcome = "header-too-large" => \A i \in Delimiters : i + 3 > MaxHeader
    /\ outcome = "header-eof" => Delimiters = {}
    /\ (phase \in {"hello", "write"} \/ upstream # <<>>) =>
          \A e \in 1..(end - 1) : RequestEnds(SubSeq(Stream, 1, e)) = {}

\* s is a first part of t.
Leads(s, t) == \E n \in 0..Len(t) : s = SubSeq(t, 1, n)

\* The destination receives the bytes read behind the header, once and in
\* order, those that came with the header included: all of them when the
\* tunnel opens, some first ones when the write fails, and none before the
\* inspection has succeeded (establish_tunnel).
ForwardedInOrder ==
    LET upload == SubSeq(Stream, end + 1, pos)
    IN  /\ Leads(upstream, upload)
        /\ outcome = "forwarded" => upstream = upload
        /\ upstream # <<>> => outcome \in {"forwarded", "upstream-write-failed",
                                          "initial-upload-timeout", "client-hello-timeout"}
        /\ (upstream # <<>> /\ tls # "disabled") => input.hello.valid /\ fed >= input.hello.complete

\* What the inspection decides depends on the ClientHello and not on how it is
\* spread over records and reads: an ECH extension is always seen and never
\* imagined, a well-formed hello is never called invalid, and none is called
\* too large that fits the ceiling, beyond which nothing is buffered
\* (client_hello_has_ech, read_client_hello).
VerdictByContent ==
    LET h == input.hello
        inspected == tls # "disabled" /\ end # 0
    IN  /\ wire # <<>> => Len(wire) <= HelloCeiling
        /\ outcome = "ech-denied" => h.valid /\ h.ech
        /\ ((phase = "write" \/ outcome = "forwarded") /\ inspected) =>
              h.valid /\ h.sni = "same" /\ (h.ech => tls = "allow-outer-sni")
        /\ outcome = "client-hello-invalid" => ~h.valid \/ broken
        /\ (inspected /\ fed > 0 /\ h.valid /\ outcome \in {"upload-limit", "client-hello-too-large"}) =>
              h.complete > HelloCeiling
        /\ outcome = "client-hello-eof" /\ h.valid => h.complete > Len(Stream) - end

===============================================================================
