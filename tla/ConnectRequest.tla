---------------------------- MODULE ConnectRequest ----------------------------
(***************************************************************************)
(* parse_connect of connect.rs, past the framing: the checks on a request  *)
(* that httparse has split, in the order of their early returns.           *)
(*   request:   [method, version, content, target, hosts]                  *)
(*   authority: [userinfo, wellformed, bracketed, host, port]              *)
(*   port:      [spelling, value], the spelling being absent (no colon),   *)
(*              empty (a colon alone), invalid, or decimal                 *)
(* `content` is the presence of content-length or transfer-encoding,       *)
(* `hosts` the Host header values in order, `wellformed` the verdict of    *)
(* http::uri::Authority, and of UTF-8 for a Host value.                    *)
(***************************************************************************)
EXTENDS HostNames, EarlyReturn

AuthorityValue ==
    [userinfo : BOOLEAN, wellformed : BOOLEAN, bracketed : BOOLEAN, host : Seq(Character),
     port : [spelling : {"absent", "empty", "invalid", "decimal"}, value : Nat]]

RequestValue ==
    [method : STRING, version : {0, 1}, content : BOOLEAN, target : AuthorityValue, hosts : Seq(AuthorityValue)]

\* An Option is the set of its value.
decimal_port(authority) ==
    IF authority.port.spelling = "decimal" THEN {authority.port.value} ELSE {}

\* authority_host fails only for brackets around something else than IPv6.
BadBrackets(authority) == authority.bracketed /\ Len(parse_ip(authority.host)) # 16

\* Mutant of validate_host_header: the first Host header is compared, and no port.
FirstHostOnly(request) ==
    IF \A i \in DOMAIN request.hosts : i = 1 => hosts_equivalent(request.target.host, request.hosts[i].host)
    THEN OK ELSE "host-header-mismatch"

validate_host_header(request) ==
    IF request.hosts = <<>>
    THEN IF request.version = 1 THEN "missing-host-header" ELSE OK
    ELSE LET h == request.hosts[1]
         IN  FirstError(<<
               <<Len(request.hosts) > 1, "duplicate-host-header">>,
               <<h.userinfo \/ h.port.spelling = "empty", "invalid-host-header">>,
               <<~h.wellformed, "invalid-host-header">>,
               <<h.port.spelling # "absent" /\ decimal_port(h) = {}, "invalid-host-header">>,
               <<BadBrackets(h), "invalid-host-header">>,
               <<~hosts_equivalent(request.target.host, h.host)
                   \/ \E p \in decimal_port(h) : p \notin decimal_port(request.target),
                 "host-header-mismatch">> >>)

parse_connect(request) ==
    LET t == request.target
    IN  FirstError(<<
          <<request.method # "CONNECT", "connect-required">>,
          <<request.content, "connect-content-not-allowed">>,
          <<t.userinfo, "userinfo-not-allowed">>,
          <<~t.wellformed, "invalid-authority">>,
          <<decimal_port(t) = {}, "missing-port">>,
          <<BadBrackets(t), "invalid-ipv6-literal">>,
          <<t.host = <<>>, "missing-host">>,
          <<decimal_port(t) = {0}, "invalid-port">>,
          <<validate_host_header(request) # OK, validate_host_header(request)>> >>)

===============================================================================
