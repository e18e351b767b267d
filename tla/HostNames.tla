------------------------------ MODULE HostNames ------------------------------
(***************************************************************************)
(* Host names and host patterns of policy.rs, and the comparison of        *)
(* connect.rs.  A text is a sequence of characters.  An IP literal is one  *)
(* character of its own, a member of DOMAIN Literal, so that "10.0.0.1."   *)
(* is the text <<"10.0.0.1", ".">>.                                        *)
(***************************************************************************)
EXTENDS Naturals, Sequences

CONSTANTS
    Literal,        \* the texts that IpAddr::from_str reads, with their addresses
    MaxHostname,    \* 253 in the code
    MaxLabel        \* 63 in the code

Lower(c) == IF c = "A" THEN "a" ELSE c

Alphanumeric == {"a", "b", "A"}

Character == Alphanumeric \cup {".", "-", "*"} \cup DOMAIN Literal

NoIp == <<>>

\* External: IpAddr::from_str.
parse_ip(text) ==
    IF Len(text) = 1 /\ text[1] \in DOMAIN Literal THEN Literal[text[1]] ELSE NoIp

strip_dot(text) ==
    IF text # <<>> /\ text[Len(text)] = "." THEN SubSeq(text, 1, Len(text) - 1) ELSE text

to_ascii_lowercase(text) == [i \in DOMAIN text |-> Lower(text[i])]

\* str::split: the labels between the dots, the empty ones included.
Split(text) ==
    LET labels[n \in 0..Len(text)] ==
            IF n = 0 THEN << <<>> >>
            ELSE IF text[n] = "." THEN Append(labels[n - 1], <<>>)
            ELSE LET before == labels[n - 1]
                 IN  [before EXCEPT ![Len(before)] = Append(@, text[n])]
    IN  labels[Len(text)]

ValidLabel(label) ==
    /\ label # <<>>
    /\ Len(label) <= MaxLabel
    /\ label[1] # "-"
    /\ label[Len(label)] # "-"
    /\ \A i \in DOMAIN label : label[i] \in Alphanumeric \cup {"-"}

NoName == <<>>

ValidName(text) ==
    /\ text # <<>>
    /\ Len(text) <= MaxHostname
    /\ parse_ip(text) = NoIp
    /\ LET labels == Split(to_ascii_lowercase(text))
       IN  \A i \in DOMAIN labels : ValidLabel(labels[i])

\* `None` is NoName: a canonical name is never empty.
canonical_hostname(value) ==
    LET text == strip_dot(value)
    IN  IF ValidName(text) THEN to_ascii_lowercase(text) ELSE NoName

hosts_equivalent(left, right) ==
    IF parse_ip(left) = NoIp /\ parse_ip(right) = NoIp
    THEN to_ascii_lowercase(strip_dot(left)) = to_ascii_lowercase(strip_dot(right))
    ELSE parse_ip(left) = parse_ip(right)

------------------------------------------------------------------------------
\* A pattern whose name is NoName is a parse error.
HostPattern_parse(value) ==
    LET wildcard == Len(value) >= 2 /\ SubSeq(value, 1, 2) = <<"*", ".">>
    IN  [subdomains |-> wildcard,
         name |-> canonical_hostname(IF wildcard THEN SubSeq(value, 3, Len(value)) ELSE value)]

ends_with(text, end) ==
    Len(text) >= Len(end) /\ SubSeq(text, Len(text) - Len(end) + 1, Len(text)) = end

\* Mutant of matches: the suffix may start inside a label.
IgnoresLabelBoundary(pattern, hostname) ==
    IF pattern.subdomains
    THEN Len(hostname) > Len(pattern.name) /\ ends_with(hostname, pattern.name)
    ELSE hostname = pattern.name

matches(pattern, hostname) ==
    IF pattern.subdomains
    THEN /\ Len(hostname) > Len(pattern.name)
         /\ ends_with(hostname, pattern.name)
         /\ hostname[Len(hostname) - Len(pattern.name)] = "."
    ELSE hostname = pattern.name

allows_hostname(policy, hostname) ==
    /\ ~\E p \in policy.denied_hosts : matches(p, hostname)
    /\ \E p \in policy.hosts : matches(p, hostname)

==============================================================================
