------------------------------ MODULE MCPreamble ------------------------------
(***************************************************************************)
(* Inputs of Preamble.  Headers: every text of up to MaxText bytes out of  *)
(* CR, LF and one letter.  Hellos: a ClientHello with and without ECH, cut *)
(* into up to three records anywhere, with and without bytes behind it.    *)
(***************************************************************************)
EXTENDS Preamble

CONSTANT MaxText

NoHello == [valid |-> FALSE, complete |-> 0, ech |-> FALSE, sni |-> "tls-sni-missing"]

Texts == {[stream |-> s, hello |-> NoHello, limit |-> {}, tls |-> "disabled"] : s \in UNION {[1..n -> {CR, LF, 120}] : n \in 1..MaxText}}

ShortHeader == <<120, CR, LF, CR, LF>>

\* An ordinary extension whose data looks like the start of the ECH one.
Lookalike == <<0, 10, 0, 2, 254, 13>>
Ech == ECH_EXTENSION \o <<0, 0>>

Vector16(b) == <<0, Len(b)>> \o b

Message(extensions) ==
    LET body == [i \in 1..HelloPrefix |-> 3] \o <<1, 7>> \o <<0, 0>> \o <<0>> \o extensions
    IN  <<CLIENT_HELLO, 0, 0, Len(body)>> \o body

Plain == Vector16(Lookalike)
WithEch == Vector16(Lookalike \o Ech)

Record(b) == <<TLS_HANDSHAKE, 3, 1>> \o Vector16(b)

\* The message in three records, cut behind its i-th and its j-th byte.
Hello(extensions, ech, i, j, tail, sni) ==
    LET m       == Message(extensions)
        cuts    == (IF i \in {0, j} THEN <<>> ELSE <<i>>) \o <<j, Len(m)>>
        part(k) == Record(SubSeq(m, Begin(0, cuts, k) + 1, cuts[k]))
        records == part(1) \o part(2) \o (IF Len(cuts) = 3 THEN part(3) ELSE <<>>)
        f       == HelloPrefix + 4
    IN  [stream |-> ShortHeader \o records \o tail,
         hello |-> [valid |-> TRUE, complete |-> Len(records), ech |-> ech, sni |-> sni, message |-> m,
                    records |-> [k \in DOMAIN cuts |-> cuts[k] + 5 * k],
                    fields |-> <<f, f + 2, f + 4, f + 5>>,
                    extensions |-> CASE extensions = <<>> -> <<>>
                                     [] extensions = Plain -> <<f + 13>>
                                     [] OTHER -> <<f + 13, f + 17>>]]

Hellos ==
    UNION { {Hello(e, e = WithEch, i, j, t, "same") : i \in 0..j, t \in {<<>>, Record(<<2>>)}} :
                e \in {<<>>, Plain, WithEch}, j \in {3, 4, 5, 9} }
    \cup {Hello(Plain, FALSE, 0, 2, <<>>, s) :
            s \in {"tls-sni-missing", "tls-authority-not-hostname", "tls-sni-mismatch"}}

Broken ==
    {[stream |-> ShortHeader \o w, hello |-> NoHello] : w \in {<<21, 3, 1, 0, 1, 0>>, Record(<<2, 0, 0, 0>>), <<120>>}}

Policies == [limit : {{}, {0}, {30}}, tls : {"disabled", "reject-ech", "allow-outer-sni"}]

MCInputs ==
    Texts \cup {[stream |-> i.stream, hello |-> i.hello, limit |-> p.limit, tls |-> p.tls] :
                  i \in Hellos \cup Broken, p \in Policies}

===============================================================================
