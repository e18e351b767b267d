-------------------------- MODULE DestinationProofs --------------------------
(***************************************************************************)
(* Proofs about Destination, for every policy, request, answer and NAT64   *)
(* prefix: what the rules on addresses, names and ports let through.       *)
(***************************************************************************)
EXTENDS Destination, FiniteSetTheorems, WellFoundedInduction, TLAPS

USE ZenonT(30), SMTT(20)

-------------------------------------------------------------------------------
(* Sequences *)

\* A sequence is a function on the numbers up to its length.
LEMMA FunctionIsSeq ==
  ASSUME NEW S, NEW n \in Nat, NEW s \in [1..n -> S]
  PROVE  s \in Seq(S) /\ Len(s) = n
  BY SMTT(20)

\* The elements of a sequence, as a function.
LEMMA SeqIsFunction ==
  ASSUME NEW S, NEW s \in Seq(S)
  PROVE  s \in [1..Len(s) -> S] /\ Len(s) \in Nat /\ DOMAIN s = 1..Len(s)
  BY SMTT(20)

\* An element of a sequence is one of the set it is over.
LEMMA SeqElement ==
  ASSUME NEW S, NEW s \in Seq(S), NEW i \in 1..Len(s)
  PROVE  s[i] \in S
  BY SMTT(20)

\* What \o, SubSeq and Append return.
LEMMA ConcatLen ==
  ASSUME NEW S, NEW s \in Seq(S), NEW t \in Seq(S)
  PROVE  s \o t \in Seq(S) /\ Len(s \o t) = Len(s) + Len(t)
  BY SMTT(20)

\* A concatenation has the elements of the first sequence and then those of the second.
LEMMA ConcatIs ==
  ASSUME NEW S, NEW s \in Seq(S), NEW t \in Seq(S)
  PROVE  s \o t = [i \in 1..(Len(s) + Len(t)) |-> IF i <= Len(s) THEN s[i] ELSE t[i - Len(s)]]
<1>1. s \o t \in Seq(S) /\ Len(s \o t) = Len(s) + Len(t)
  BY SMTT(20)
<1>2. DOMAIN (s \o t) = 1..(Len(s) + Len(t))
  BY <1>1, SeqIsFunction
<1>3. \A i \in 1..(Len(s) + Len(t)) : (s \o t)[i] = IF i <= Len(s) THEN s[i] ELSE t[i - Len(s)]
  BY SMTT(20)
<1>4. s \o t = [i \in DOMAIN (s \o t) |-> (s \o t)[i]]
  BY <1>1, SeqIsFunction
<1> QED
  BY <1>2, <1>3, <1>4

\* A part of a sequence has the elements between the two places.
LEMMA SubSeqIs ==
  ASSUME NEW S, NEW s \in Seq(S), NEW m \in Nat, NEW n \in Nat, 1 <= m, n <= Len(s), m <= n + 1
  PROVE  SubSeq(s, m, n) = [i \in 1..(n - m + 1) |-> s[m + i - 1]]
  BY SMTT(20)

\* Append adds one place and leaves the others.
LEMMA AppendIs ==
  ASSUME NEW S, NEW s \in Seq(S), NEW e \in S
  PROVE  /\ Append(s, e) \in Seq(S) /\ Len(Append(s, e)) = Len(s) + 1
         /\ \A i \in 1..Len(s) : Append(s, e)[i] = s[i]
         /\ Append(s, e)[Len(s) + 1] = e
  BY SMTT(20)

-------------------------------------------------------------------------------
(* Addresses *)

V4 == [1..4 -> Octet]
V6 == [1..16 -> Octet]

\* The length of an address tells its family.
LEMMA Families ==
  /\ \A a \in V4 : a \in Seq(Octet) /\ Len(a) = 4 /\ IsV4(a) /\ a \in IpAddress
  /\ \A a \in V6 : a \in Seq(Octet) /\ Len(a) = 16 /\ ~IsV4(a) /\ a \in IpAddress
  /\ \A a \in IpAddress : a \in V4 \/ a \in V6
<1>1. 4 \in Nat /\ 16 \in Nat /\ 4 # 16
  BY SMTT(20)
<1>2. ASSUME NEW a \in V4 PROVE a \in Seq(Octet) /\ Len(a) = 4
  BY <1>1, FunctionIsSeq DEF V4
<1>3. ASSUME NEW a \in V6 PROVE a \in Seq(Octet) /\ Len(a) = 16
  BY <1>1, FunctionIsSeq DEF V6
<1> QED
  BY <1>1, <1>2, <1>3 DEF IpAddress, IsV4, V4, V6

\* The octets that the code slices out of an IPv6 address.
LEMMA Slices ==
  ASSUME NEW a \in V6
  PROVE  /\ SubSeq(a, 1, 12) = [i \in 1..12 |-> a[i]]
         /\ SubSeq(a, 13, 16) = [i \in 1..4 |-> a[i + 12]]
  BY SMTT(20) DEF V6

\* The octets of ::ffff:0:0/96 and of 64:ff9b::/96.
LEMMA PrefixesAre ==
  /\ MappedPrefix = [i \in 1..12 |-> IF i <= 10 THEN 0 ELSE 255]
  /\ WellKnownPrefix = [i \in 1..12 |-> IF i = 2 THEN 100 ELSE IF i = 3 THEN 255 ELSE IF i = 4 THEN 155 ELSE 0]
  BY SMTT(20) DEF MappedPrefix, WellKnownPrefix, Zeros

P12 == [1..12 -> Octet]

\* The constant octets of Addresses are octets, as many as they stand for.
LEMMA PrefixTypes ==
  MappedPrefix \in P12 /\ WellKnownPrefix \in P12 /\ Zeros(12) \in P12 /\ Zeros(4) \in V4 /\ Zeros(16) \in V6
<1>1. 0 \in Octet /\ 255 \in Octet /\ 100 \in Octet /\ 155 \in Octet
  BY SMTT(20) DEF Octet
<1> QED
  BY SMTT(20), <1>1, PrefixesAre DEF P12, V4, V6, Zeros

\* A prefix of twelve octets is a sequence of twelve.
LEMMA Twelve == ASSUME NEW w \in P12 PROVE w \in Seq(Octet) /\ Len(w) = 12
<1> DEFINE n == 12
<1>1. n \in Nat /\ w \in [1..n -> Octet]
  BY DEF P12
<1> HIDE DEF n
<1>2. w \in Seq(Octet) /\ Len(w) = n
  BY <1>1, FunctionIsSeq
<1> QED
  BY <1>2 DEF n

\* An IPv4 address behind twelve octets.
LEMMA Behind ==
  ASSUME NEW w \in P12, NEW v \in V4
  PROVE  /\ w \o v \in V6
         /\ SubSeq(w \o v, 1, 12) = w /\ SubSeq(w \o v, 13, 16) = v
<1> DEFINE x == w \o v
<1>1. w \in Seq(Octet) /\ Len(w) = 12 /\ v \in Seq(Octet) /\ Len(v) = 4
  BY Twelve, Families
<1>2. x = [i \in 1..(Len(w) + Len(v)) |-> IF i <= Len(w) THEN w[i] ELSE v[i - Len(w)]]
  BY <1>1, ConcatIs
<1>3. x = [i \in 1..16 |-> IF i <= 12 THEN w[i] ELSE v[i - 12]]
  <2>1. Len(w) + Len(v) = 16
    BY SMTT(20), <1>1
  <2> QED
    BY <1>1, <1>2, <2>1
<1> HIDE DEF x
<1>4. x \in V6
  BY SMTT(20), <1>3 DEF P12, V4, V6
<1>5. [i \in 1..12 |-> x[i]] = w
  BY SMTT(20), <1>3 DEF P12
<1>6. [i \in 1..4 |-> x[i + 12]] = v
  BY SMTT(20), <1>3 DEF V4
<1> QED
  BY <1>4, <1>5, <1>6, Slices DEF x

\* canonical: an IPv4 address keeps its form, a mapped one takes its IPv4 form,
\* another IPv6 address keeps its own; applied twice it changes nothing more.
LEMMA Canonical ==
  /\ \A v \in V4 : canonical(v) = v
  /\ \A v \in V4 : canonical(MappedPrefix \o v) = v
  /\ \A a \in V6 : is_mapped(a) => /\ canonical(a) \in V4 /\ canonical(a) = SubSeq(a, 13, 16)
                                   /\ a = MappedPrefix \o canonical(a)
  /\ \A a \in V6 : ~is_mapped(a) => canonical(a) = a
<1>1. ASSUME NEW v \in V4 PROVE canonical(v) = v
  BY Families DEF canonical, is_mapped
<1>2. ASSUME NEW v \in V4 PROVE canonical(MappedPrefix \o v) = v
  BY Families, Behind, PrefixTypes DEF canonical, is_mapped
<1>3. ASSUME NEW a \in V6, is_mapped(a)
      PROVE  /\ canonical(a) \in V4 /\ canonical(a) = SubSeq(a, 13, 16) /\ a = MappedPrefix \o canonical(a)
  <2> DEFINE v == SubSeq(a, 13, 16)
  <2>1. canonical(a) = v
    BY <1>3 DEF canonical
  <2>2. v = [i \in 1..4 |-> a[i + 12]] /\ SubSeq(a, 1, 12) = [i \in 1..12 |-> a[i]]
    BY Slices
  <2>3. v \in V4
    <3> HIDE DEF v
    <3> QED
      BY SMTT(20), <2>2 DEF V4, V6
  <2>4. SubSeq(a, 1, 12) = MappedPrefix
    BY <1>3 DEF is_mapped
  <2> DEFINE b == MappedPrefix \o v
  <2>5. b \in V6 /\ SubSeq(b, 1, 12) = MappedPrefix /\ SubSeq(b, 13, 16) = v
    BY <2>3, Behind, PrefixTypes
  <2>6. SubSeq(b, 1, 12) = [i \in 1..12 |-> b[i]] /\ SubSeq(b, 13, 16) = [i \in 1..4 |-> b[i + 12]]
    <3> HIDE DEF b
    <3> QED
      BY <2>5, Slices
  <2>7. a = b
    <3> HIDE DEF b, v
    <3>1. \A i \in 1..12 : a[i] = b[i]
      BY SMTT(20), <2>2, <2>4, <2>5, <2>6
    <3>2. \A i \in 1..4 : a[i + 12] = b[i + 12]
      BY <2>2, <2>5, <2>6
    <3>3. ASSUME NEW i \in 1..16 PROVE a[i] = b[i]
      <4>1. CASE i \in 1..12
        BY <4>1, <3>1
      <4>2. CASE i \notin 1..12
        <5>1. i - 12 \in 1..4 /\ (i - 12) + 12 = i
          BY SMTT(20), <4>2
        <5> QED
          BY <5>1, <3>2
      <4> QED
        BY <4>1, <4>2
    <3> QED
      BY SMTT(20), <3>3, <2>5 DEF V6
  <2> QED
    BY <2>1, <2>3, <2>7
<1>4. ASSUME NEW a \in V6, ~is_mapped(a) PROVE canonical(a) = a
  BY <1>4 DEF canonical
<1> QED
  BY <1>1, <1>2, <1>3, <1>4

-------------------------------------------------------------------------------
(* NAT64: what Embed places, extract_rfc6052_ipv4 reads back *)

Prefix6 == [base : V6, length : {32, 40, 48, 56, 64, 96}]

\* The octet at place i of an address behind a prefix of `head` octets.
Placed(base, head, v, i) ==
  IF i <= head THEN base[i]
  ELSE IF i # 9 /\ i - head - (IF head < 9 /\ i > 9 THEN 1 ELSE 0) <= 4
       THEN v[i - head - (IF head < 9 /\ i > 9 THEN 1 ELSE 0)] ELSE 0

\* Embed puts every octet where RFC 6052 does, for each of the six lengths of prefix.
LEMMA EmbedIs ==
  ASSUME NEW p \in Prefix6, NEW v \in V4
  PROVE  \E head \in {4, 5, 6, 7, 8, 12} :
            /\ p.length = 8 * head
            /\ Embed(p, v) = [i \in 1..16 |-> Placed(p.base, head, v, i)]
<1>1. PICK head \in {4, 5, 6, 7, 8, 12} : p.length = 8 * head /\ p.length \div 8 = head
  BY SMTT(20) DEF Prefix6
<1> QED
  BY <1>1 DEF Embed, Placed

\* It is an address, and its prefix contains it.
LEMMA EmbedIn ==
  ASSUME NEW p \in Prefix6, NEW v \in V4
  PROVE  Embed(p, v) \in V6 /\ NetContains(p, Embed(p, v))
<1> DEFINE x == Embed(p, v)
<1>1. PICK head \in {4, 5, 6, 7, 8, 12} :
         p.length = 8 * head /\ x = [i \in 1..16 |-> Placed(p.base, head, v, i)]
  BY EmbedIs
<1> HIDE DEF x
<1>2. p.base \in V6 /\ p.base \in [1..16 -> Octet] /\ v \in [1..4 -> Octet]
  BY DEF Prefix6, V6, V4
<1>3. 0 \in Octet
  BY SMTT(20) DEF Octet
<1>4. ASSUME NEW i \in 1..16 PROVE Placed(p.base, head, v, i) \in Octet
  <2>1. p.base[i] \in Octet
    BY <1>2
  <2> DEFINE j == i - head - (IF head < 9 /\ i > 9 THEN 1 ELSE 0)
  <2>2. i > head /\ i # 9 /\ j <= 4 => j \in 1..4
    BY SMTT(20)
  <2>3. ~(i <= head) => i > head
    BY SMTT(20)
  <2>4. ~(i <= head) /\ i # 9 /\ j <= 4 => v[j] \in Octet
    BY <1>2, <2>2, <2>3
  <2> QED
    BY <1>3, <2>1, <2>4 DEF Placed
<1>5. x \in V6
  BY <1>1, <1>4 DEF V6
<1>6. Len(p.base) = 16 /\ Len(x) = 16
  BY <1>2, <1>5, Families
<1>7. ASSUME NEW i \in 1..16 PROVE p.length >= 8 * i \/ p.length <= 8 * (i - 1)
  BY SMTT(20), <1>1
<1>8. ASSUME NEW i \in 1..16, p.length >= 8 * i PROVE x[i] = p.base[i]
  <2>1. i <= head
    BY SMTT(20), <1>1, <1>8
  <2> QED
    BY <1>1, <2>1 DEF Placed
<1>9. prefix_matches(x, p.base, p.length)
  BY <1>6, <1>7, <1>8 DEF prefix_matches
<1> QED
  BY <1>5, <1>6, <1>9 DEF NetContains, x

\* Four octets are an IPv4 address.
LEMMA FourOctets ==
  ASSUME NEW v \in V4
  PROVE  v = <<v[1], v[2], v[3], v[4]>>
  BY SMTT(20) DEF V4

\* The last four octets of an IPv6 address are an IPv4 address.
LEMMA LastOctets ==
  ASSUME NEW a \in V6
  PROVE  SubSeq(a, 13, 16) \in V4 /\ SubSeq(a, 13, 16) = <<a[13], a[14], a[15], a[16]>>
<1> DEFINE t == SubSeq(a, 13, 16)
<1>1. t = [i \in 1..4 |-> a[i + 12]]
  BY Slices
<1> HIDE DEF t
<1>2. t \in V4
  BY SMTT(20), <1>1 DEF V4, V6
<1>3. t[1] = a[13] /\ t[2] = a[14] /\ t[3] = a[15] /\ t[4] = a[16]
  BY SMTT(20), <1>1
<1>4. t = <<t[1], t[2], t[3], t[4]>>
  BY <1>2, FourOctets
<1> QED
  BY <1>2, <1>3, <1>4 DEF t

\* extract_rfc6052_ipv4 finds the address that was embedded, under every prefix length.
LEMMA ExtractEmbed ==
  ASSUME NEW p \in Prefix6, NEW v \in V4
  PROVE  extract_rfc6052_ipv4(Embed(p, v), p.length) = v
<1> DEFINE x == Embed(p, v)
<1>1. PICK head \in {4, 5, 6, 7, 8, 12} :
         p.length = 8 * head /\ x = [i \in 1..16 |-> Placed(p.base, head, v, i)]
  BY EmbedIs
<1> HIDE DEF x
<1>2. CASE head = 4
  <2>1. x[5] = v[1] /\ x[6] = v[2] /\ x[7] = v[3] /\ x[8] = v[4]
    BY SMTT(20), <1>1, <1>2 DEF Placed
  <2>2. p.length = 32
    BY SMTT(20), <1>1, <1>2
  <2>3. extract_rfc6052_ipv4(x, 32) = <<x[5], x[6], x[7], x[8]>>
    BY SMTT(20) DEF extract_rfc6052_ipv4
  <2> QED
    BY <2>1, <2>2, <2>3, FourOctets DEF x
<1>3. CASE head = 5
  <2>1. x[6] = v[1] /\ x[7] = v[2] /\ x[8] = v[3] /\ x[10] = v[4]
    BY SMTT(20), <1>1, <1>3 DEF Placed
  <2>2. p.length = 40
    BY SMTT(20), <1>1, <1>3
  <2>3. extract_rfc6052_ipv4(x, 40) = <<x[6], x[7], x[8], x[10]>>
    BY SMTT(20) DEF extract_rfc6052_ipv4
  <2> QED
    BY <2>1, <2>2, <2>3, FourOctets DEF x
<1>4. CASE head = 6
  <2>1. x[7] = v[1] /\ x[8] = v[2] /\ x[10] = v[3] /\ x[11] = v[4]
    BY SMTT(20), <1>1, <1>4 DEF Placed
  <2>2. p.length = 48
    BY SMTT(20), <1>1, <1>4
  <2>3. extract_rfc6052_ipv4(x, 48) = <<x[7], x[8], x[10], x[11]>>
    BY SMTT(20) DEF extract_rfc6052_ipv4
  <2> QED
    BY <2>1, <2>2, <2>3, FourOctets DEF x
<1>5. CASE head = 7
  <2>1. x[8] = v[1] /\ x[10] = v[2] /\ x[11] = v[3] /\ x[12] = v[4]
    BY SMTT(20), <1>1, <1>5 DEF Placed
  <2>2. p.length = 56
    BY SMTT(20), <1>1, <1>5
  <2>3. extract_rfc6052_ipv4(x, 56) = <<x[8], x[10], x[11], x[12]>>
    BY SMTT(20) DEF extract_rfc6052_ipv4
  <2> QED
    BY <2>1, <2>2, <2>3, FourOctets DEF x
<1>6. CASE head = 8
  <2>1. x[10] = v[1] /\ x[11] = v[2] /\ x[12] = v[3] /\ x[13] = v[4]
    BY SMTT(20), <1>1, <1>6 DEF Placed
  <2>2. p.length = 64
    BY SMTT(20), <1>1, <1>6
  <2>3. extract_rfc6052_ipv4(x, 64) = <<x[10], x[11], x[12], x[13]>>
    BY SMTT(20) DEF extract_rfc6052_ipv4
  <2> QED
    BY <2>1, <2>2, <2>3, FourOctets DEF x
<1>7. CASE head = 12
  <2>1. x[13] = v[1] /\ x[14] = v[2] /\ x[15] = v[3] /\ x[16] = v[4]
    BY SMTT(20), <1>1, <1>7 DEF Placed
  <2>2. p.length = 96
    BY SMTT(20), <1>1, <1>7
  <2>3. extract_rfc6052_ipv4(x, 96) = <<x[13], x[14], x[15], x[16]>>
    BY SMTT(20) DEF extract_rfc6052_ipv4
  <2> QED
    BY SMTT(20), <2>1, <2>2, <2>3, FourOctets DEF x
<1> QED
  BY <1>2, <1>3, <1>4, <1>5, <1>6, <1>7

\* A destination whose forms are followed: no 0.0.0.d but the unspecified one.
Followed(v) == v = Zeros(4) \/ SubSeq(v, 1, 3) # Zeros(3)

\* The one address of 0.0.0.0/24 that is followed is the unspecified one.
LEMMA FollowedIs ==
  ASSUME NEW v \in V4, Followed(v), v[1] = 0, v[2] = 0, v[3] = 0
  PROVE  v = Zeros(4) /\ v[4] = 0
<1>1. SubSeq(v, 1, 3) = [i \in 1..3 |-> v[i]]
  BY SMTT(20) DEF V4
<1>2. ASSUME NEW i \in 1..3 PROVE v[i] = 0
  <2>1. i = 1 \/ i = 2 \/ i = 3
    BY SMTT(20)
  <2> QED
    BY <2>1
<1>3. SubSeq(v, 1, 3) = Zeros(3)
  BY <1>1, <1>2 DEF Zeros
<1>4. v = Zeros(4)
  BY <1>3 DEF Followed
<1>5. 4 \in 1..4
  BY SMTT(20)
<1> QED
  BY <1>4, <1>5 DEF Zeros

\* translated_ipv4 decodes the compatible and the well-known form before it asks
\* the configured prefixes.  What those would read is then at the end as well.
LEMMA EmbedShadowed ==
  ASSUME NEW p \in Prefix6, NEW v \in V4, Followed(v),
         SubSeq(Embed(p, v), 1, 12) \in {Zeros(12), WellKnownPrefix}
  PROVE  SubSeq(Embed(p, v), 13, 16) = v
<1> DEFINE x == Embed(p, v)
<1>1. PICK head \in {4, 5, 6, 7, 8, 12} :
         p.length = 8 * head /\ x = [i \in 1..16 |-> Placed(p.base, head, v, i)]
  BY EmbedIs
<1>2. x \in V6
  BY EmbedIn
<1>0. SubSeq(x, 1, 12) \in {Zeros(12), WellKnownPrefix}
  OBVIOUS
<1> HIDE DEF x
<1>3. \A i \in 1..12 : SubSeq(x, 1, 12)[i] = x[i]
  BY <1>2, Slices
<1>4. \A i \in 5..12 : Zeros(12)[i] = 0 /\ WellKnownPrefix[i] = 0
  BY SMTT(20), PrefixesAre DEF Zeros
<1>5. ASSUME NEW i \in 5..12 PROVE x[i] = 0
  <2>1. i \in 1..12
    BY SMTT(20)
  <2> QED
    BY SMTT(20), <1>0, <1>3, <1>4, <2>1
<1>6. /\ x[5] = 0 /\ x[6] = 0 /\ x[7] = 0 /\ x[8] = 0
      /\ x[10] = 0 /\ x[11] = 0 /\ x[12] = 0
  BY SMTT(20), <1>5
<1>7. /\ v = <<v[1], v[2], v[3], v[4]>>
      /\ SubSeq(x, 13, 16) = <<x[13], x[14], x[15], x[16]>>
  BY <1>2, FourOctets, LastOctets
<1>8. CASE head \in {4, 5, 6, 7}
  <2>1. v[1] = 0 /\ v[2] = 0 /\ v[3] = 0 /\ v[4] = 0
    BY SMTT(20), <1>1, <1>6, <1>8 DEF Placed
  <2>2. x[13] = 0 /\ x[14] = 0 /\ x[15] = 0 /\ x[16] = 0
    BY SMTT(20), <1>1, <1>8 DEF Placed
  <2> QED
    BY <1>7, <2>1, <2>2 DEF x
<1>9. CASE head = 8
  <2>1. v[1] = 0 /\ v[2] = 0 /\ v[3] = 0
    BY SMTT(20), <1>1, <1>6, <1>9 DEF Placed
  <2>2. v[4] = 0
    BY <2>1, FollowedIs
  <2>3. x[13] = v[4] /\ x[14] = 0 /\ x[15] = 0 /\ x[16] = 0
    BY SMTT(20), <1>1, <1>9 DEF Placed
  <2> QED
    BY <1>7, <2>1, <2>2, <2>3 DEF x
<1>10. CASE head = 12
  <2>1. x[13] = v[1] /\ x[14] = v[2] /\ x[15] = v[3] /\ x[16] = v[4]
    BY SMTT(20), <1>1, <1>10 DEF Placed
  <2> QED
    BY <1>7, <2>1 DEF x
<1> QED
  BY <1>8, <1>9, <1>10

\* Every form of an IPv4 destination is decoded: an address whose canonical form
\* is one of the forms of v is v itself, or an IPv6 address that the checks of
\* policy.rs also test as v.
LEMMA FormsDecoded ==
  ASSUME NEW prefixes \in SUBSET Prefix6, NEW v \in V4, Followed(v),
         NEW a \in IpAddress, canonical(a) \in Forms(prefixes, v)
  PROVE  a = v \/ (~IsV4(a) /\ v \in translated_ipv4(a, prefixes))
<1>1. CASE a \in V4
  <2>1. canonical(a) = a /\ IsV4(a)
    BY <1>1, Canonical, Families
  <2>2. ASSUME NEW w \in {MappedPrefix, Zeros(12), WellKnownPrefix} PROVE ~IsV4(w \o v)
    BY PrefixTypes, Behind, Families
  <2>3. ASSUME NEW p \in prefixes PROVE ~IsV4(Embed(p, v))
    BY EmbedIn, Families
  <2> QED
    BY <2>1, <2>2, <2>3 DEF Forms
<1>2. CASE a \in V6 /\ is_mapped(a)
  <2>1. canonical(a) \in V4 /\ canonical(a) = SubSeq(a, 13, 16) /\ HasIpv4(a) /\ ~IsV4(a)
    BY <1>2, Canonical, Families DEF is_mapped, HasIpv4
  <2>2. ASSUME NEW w \in {MappedPrefix, Zeros(12), WellKnownPrefix} PROVE w \o v \notin V4
    BY PrefixTypes, Behind, Families
  <2>3. ASSUME NEW p \in prefixes PROVE Embed(p, v) \notin V4
    BY EmbedIn, Families
  <2>4. canonical(a) = v
    BY <2>1, <2>2, <2>3 DEF Forms
  <2> QED
    BY <2>1, <2>4 DEF translated_ipv4
<1>3. CASE a \in V6 /\ ~is_mapped(a)
  <2>1. canonical(a) = a /\ ~IsV4(a) /\ a \notin V4
    BY <1>3, Canonical, Families
  <2>2. a # MappedPrefix \o v
    <3>1. SubSeq(MappedPrefix \o v, 1, 12) = MappedPrefix
      BY Behind, PrefixTypes
    <3> QED
      BY <1>3, <2>1, <3>1 DEF is_mapped
  <2>3. MappedPrefix # Zeros(12) /\ MappedPrefix # WellKnownPrefix /\ Zeros(12) # WellKnownPrefix
    BY SMTT(20), PrefixesAre DEF Zeros
  <2>4. CASE a = Zeros(12) \o v
    <3>1. SubSeq(a, 1, 12) = Zeros(12) /\ SubSeq(a, 13, 16) = v
      BY <2>4, Behind, PrefixTypes
    <3> QED
      BY <2>1, <3>1 DEF translated_ipv4, HasIpv4
  <2>x. extract_rfc6052_ipv4(a, 96) = SubSeq(a, 13, 16)
    <3>1. extract_rfc6052_ipv4(a, 96) = <<a[13], a[14], a[15], a[16]>>
      BY SMTT(20) DEF extract_rfc6052_ipv4
    <3> QED
      BY <1>3, <3>1, LastOctets
  <2>5. CASE a = WellKnownPrefix \o v
    <3>1. SubSeq(a, 1, 12) = WellKnownPrefix /\ SubSeq(a, 13, 16) = v
      BY <2>5, Behind, PrefixTypes
    <3>2. ~HasIpv4(a) /\ is_well_known_nat64(a)
      BY <2>3, <3>1 DEF HasIpv4, is_well_known_nat64
    <3> QED
      BY <2>1, <2>x, <3>1, <3>2 DEF translated_ipv4
  <2>6. CASE \E p \in prefixes : a = Embed(p, v)
    <3>1. PICK p \in prefixes : a = Embed(p, v)
      BY <2>6
    <3>2. p \in Prefix6 /\ NetContains(p, a) /\ extract_rfc6052_ipv4(a, p.length) = v
      BY <3>1, EmbedIn, ExtractEmbed
    <3>3. SubSeq(a, 1, 12) \in {Zeros(12), WellKnownPrefix} => SubSeq(a, 13, 16) = v
      BY <3>1, EmbedShadowed
    <3>4. CASE HasIpv4(a)
      <4>1. SubSeq(a, 1, 12) = Zeros(12)
        BY <1>3, <2>1, <3>4 DEF HasIpv4, is_mapped
      <4> QED
        BY <2>1, <3>3, <3>4, <4>1 DEF translated_ipv4
    <3>5. CASE ~HasIpv4(a) /\ is_well_known_nat64(a)
      BY <2>1, <2>x, <3>3, <3>5 DEF translated_ipv4, is_well_known_nat64
    <3>6. CASE ~HasIpv4(a) /\ ~is_well_known_nat64(a)
      BY <2>1, <3>2, <3>6 DEF translated_ipv4
    <3> QED
      BY <3>4, <3>5, <3>6
  <2>7. a \in Forms(prefixes, v) /\ a # v
    BY <2>1
  <2>8. a = Zeros(12) \o v \/ a = WellKnownPrefix \o v \/ \E p \in prefixes : a = Embed(p, v)
    BY <2>2, <2>7 DEF Forms
  <2> QED
    BY <2>4, <2>5, <2>6, <2>8
<1> QED
  BY <1>1, <1>2, <1>3, Families

-------------------------------------------------------------------------------
(* Checks with early returns *)

\* The least number of a set of numbers.
LEMMA LeastIsMin ==
  ASSUME NEW T, T \subseteq Nat, T # {}
  PROVE  Min(T) \in T /\ \A y \in T : Min(T) <= y
<1>1. PICK x \in T : \A y \in T : ~(<<y, x>> \in OpToRel(<, Nat))
  BY NatLessThanWellFounded, WFMin
<1>2. ASSUME NEW y \in T PROVE x <= y
  <2>1. x \in Nat /\ y \in Nat
    OBVIOUS
  <2>2. ~(y < x)
    BY <1>1, <2>1 DEF OpToRel
  <2> QED
    BY SMTT(20), <2>1, <2>2
<1>3. \E z \in T : \A y \in T : z <= y
  BY <1>2
<1> QED
  BY <1>3 DEF Min

\* A list of checks returns OK when none fails, and otherwise the error of one
\* that fails.
LEMMA FirstErrorIs ==
  ASSUME NEW n \in Nat, NEW checks, DOMAIN checks = 1..n
  PROVE  \/ FirstError(checks) = OK /\ \A i \in 1..n : ~checks[i][1]
         \/ \E i \in 1..n : checks[i][1] /\ FirstError(checks) = checks[i][2]
<1> DEFINE failing == {i \in DOMAIN checks : checks[i][1]}
<1>1. CASE failing = {}
  BY <1>1 DEF FirstError
<1>2. CASE failing # {}
  <2>1. failing \subseteq Nat
    BY SMTT(20)
  <2>2. Min(failing) \in failing
    BY <1>2, <2>1, LeastIsMin
  <2>3. FirstError(checks) = checks[Min(failing)][2]
    BY <1>2 DEF FirstError
  <2> QED
    BY <2>2, <2>3
<1> QED
  BY <1>1, <1>2

\* Three checks whose errors are errors.
LEMMA ThreeChecks ==
  ASSUME NEW c1 \in BOOLEAN, NEW c2 \in BOOLEAN, NEW c3 \in BOOLEAN, NEW e1, NEW e2, NEW e3
  PROVE  LET r == FirstError(<< <<c1, e1>>, <<c2, e2>>, <<c3, e3>> >>)
         IN  (r = OK /\ ~c1 /\ ~c2 /\ ~c3) \/ (c1 /\ r = e1) \/ (c2 /\ r = e2) \/ (c3 /\ r = e3)
<1> DEFINE checks == << <<c1, e1>>, <<c2, e2>>, <<c3, e3>> >>
<1>1. DOMAIN checks = 1..3 /\ 3 \in Nat
  BY SMTT(20)
<1>2. /\ checks[1][1] = c1 /\ checks[2][1] = c2 /\ checks[3][1] = c3
      /\ checks[1][2] = e1 /\ checks[2][2] = e2 /\ checks[3][2] = e3
  BY SMTT(20)
<1> HIDE DEF checks
<1>3. \/ FirstError(checks) = OK /\ \A i \in 1..3 : ~checks[i][1]
      \/ \E i \in 1..3 : checks[i][1] /\ FirstError(checks) = checks[i][2]
  BY <1>1, FirstErrorIs
<1>4. 1 \in 1..3 /\ 2 \in 1..3 /\ 3 \in 1..3 /\ \A i \in 1..3 : i = 1 \/ i = 2 \/ i = 3
  BY SMTT(20)
<1>5. (FirstError(checks) = OK /\ ~c1 /\ ~c2 /\ ~c3)
      \/ (c1 /\ FirstError(checks) = e1) \/ (c2 /\ FirstError(checks) = e2) \/ (c3 /\ FirstError(checks) = e3)
  BY <1>2, <1>3, <1>4
<1> QED
  BY <1>5 DEF checks

-------------------------------------------------------------------------------
(* An address that the rules let through *)

\* What resolve_addresses has established of an address it approves.
Cleared(c, p, a, port) ==
  /\ ~address_matches_networks(c.denied_networks, a, c.nat64_prefixes)
  /\ ~address_matches_networks(p.denied_networks, a, c.nat64_prefixes)
  /\ ~is_proxy_endpoint(Socket(a, port), c.bind_address)
  /\ \/ \E n \in p.allowed_networks : NetContains(n, a)
     \/ ~is_forbidden_destination(a, c.nat64_prefixes)

\* The checks of a literal and those of an answer, when they pass and what they
\* return.
LEMMA DenialIs ==
  ASSUME NEW c, NEW p, NEW a, NEW port
  PROVE  /\ literal_denial(c, p, a, port) = OK => Cleared(c, p, a, port)
         /\ resolved_denial(c, p, a, port) = OK => Cleared(c, p, a, port)
         /\ literal_denial(c, p, a, port) \notin {"port-denied", "host-denied"}
         /\ resolved_denial(c, p, a, port) \notin {"port-denied", "host-denied"}
<1> DEFINE N == address_matches_networks(c.denied_networks, a, c.nat64_prefixes)
           E == is_proxy_endpoint(Socket(a, port), c.bind_address)
           L == allows_ip_literal(p, a, c.nat64_prefixes)
           R == allows_ip(p, a, c.nat64_prefixes)
<1>1. N \in BOOLEAN /\ E \in BOOLEAN /\ L \in BOOLEAN /\ R \in BOOLEAN
  BY DEF address_matches_networks, is_proxy_endpoint, allows_ip_literal, allows_ip
<1>2. /\ literal_denial(c, p, a, port) =
           FirstError(<< <<N, "proxy-network-denied">>, <<E, "proxy-endpoint-denied">>, <<~L, "ip-literal-denied">> >>)
      /\ resolved_denial(c, p, a, port) =
           FirstError(<< <<N, "proxy-network-denied">>, <<E, "proxy-endpoint-denied">>, <<~R, "resolved-address-denied">> >>)
  BY DEF literal_denial, resolved_denial, NetworkDenied, EndpointDenied
<1>3. /\ L => /\ ~address_matches_networks(p.denied_networks, a, c.nat64_prefixes)
              /\ \E n \in p.allowed_networks : NetContains(n, a)
      /\ R => /\ ~address_matches_networks(p.denied_networks, a, c.nat64_prefixes)
              /\ \/ \E n \in p.allowed_networks : NetContains(n, a)
                 \/ ~is_forbidden_destination(a, c.nat64_prefixes)
  BY DEF allows_ip_literal, allows_ip
<1>4. ~N /\ ~E /\ (L \/ R) => Cleared(c, p, a, port)
  BY <1>3 DEF Cleared
<1> HIDE DEF N, E, L, R
<1>5. ASSUME NEW b \in BOOLEAN, NEW r, NEW e, e \notin {OK, "port-denied", "host-denied"},
             r = FirstError(<< <<N, "proxy-network-denied">>, <<E, "proxy-endpoint-denied">>, <<b, e>> >>)
      PROVE  (r = OK => ~N /\ ~E /\ ~b) /\ r \notin {"port-denied", "host-denied"}
  <2>1. (r = OK /\ ~N /\ ~E /\ ~b) \/ r = "proxy-network-denied" \/ r = "proxy-endpoint-denied" \/ r = e
    BY SMTT(20), <1>1, <1>5, ThreeChecks
  <2> QED
    BY <1>5, <2>1 DEF OK
<1>6. "ip-literal-denied" \notin {OK, "port-denied", "host-denied"} /\ "resolved-address-denied" \notin {OK, "port-denied", "host-denied"}
  BY DEF OK
<1>7. (~L) \in BOOLEAN /\ (~R) \in BOOLEAN
  BY <1>1
<1>8. /\ literal_denial(c, p, a, port) = OK => ~N /\ ~E /\ L
      /\ literal_denial(c, p, a, port) \notin {"port-denied", "host-denied"}
  BY <1>2, <1>5, <1>6, <1>7
<1>9. /\ resolved_denial(c, p, a, port) = OK => ~N /\ ~E /\ R
      /\ resolved_denial(c, p, a, port) \notin {"port-denied", "host-denied"}
  BY <1>2, <1>5, <1>6, <1>7
<1> QED
  BY <1>4, <1>8, <1>9

\* What a configuration says about addresses has the types of the code.
LEMMA ConfigFields ==
  ASSUME NEW c \in ConfigValue
  PROVE  /\ c.nat64_prefixes \in SUBSET Prefix6 /\ c.bind_address.ip \in IpAddress
         /\ c.max_resolved_addresses \in Nat
<1>1. c.nat64_prefixes \in SUBSET Nat64Prefix /\ c.bind_address \in SocketAddress /\ c.max_resolved_addresses \in Nat
  BY SMTT(20) DEF ConfigValue
<1>2. c.bind_address.ip \in IpAddress
  <2>1. ASSUME NEW b \in SocketAddress PROVE b.ip \in IpAddress
    BY SMTT(20) DEF SocketAddress
  <2> QED
    BY <1>1, <2>1
<1> QED
  BY <1>1, <1>2 DEF Nat64Prefix, Prefix6, V6

\* A denied network is not reached in any form.
LEMMA DeniedInAnyForm ==
  ASSUME NEW c \in ConfigValue, NEW p, NEW port, NEW a \in IpAddress, Cleared(c, p, a, port),
         NEW v \in V4, Followed(v), NEW n \in c.denied_networks \cup p.denied_networks, NetContains(n, v)
  PROVE  canonical(a) \notin Forms(c.nat64_prefixes, v)
<1> SUFFICES ASSUME canonical(a) \in Forms(c.nat64_prefixes, v) PROVE FALSE
  OBVIOUS
<1>1. c.nat64_prefixes \in SUBSET Prefix6
  BY ConfigFields
<1>2. a = v \/ (~IsV4(a) /\ v \in translated_ipv4(a, c.nat64_prefixes))
  BY <1>1, FormsDecoded
<1>3. address_matches_network(n, a, c.nat64_prefixes)
  BY <1>2 DEF address_matches_network
<1> QED
  BY <1>3 DEF Cleared, address_matches_networks

\* A forbidden IPv4 destination is reached in no form without a grant.
LEMMA FloorInAnyForm ==
  ASSUME NEW c \in ConfigValue, NEW p, NEW port, NEW a \in IpAddress, Cleared(c, p, a, port),
         NEW v \in V4, Followed(v), forbidden_v4(v), canonical(a) \in Forms(c.nat64_prefixes, v)
  PROVE  \E n \in p.allowed_networks, b \in {canonical(a), MappedPrefix \o canonical(a)} : NetContains(n, b)
<1>1. c.nat64_prefixes \in SUBSET Prefix6
  BY ConfigFields
<1>2. a = v \/ (~IsV4(a) /\ v \in translated_ipv4(a, c.nat64_prefixes))
  BY <1>1, FormsDecoded
<1>3. is_forbidden_destination(a, c.nat64_prefixes)
  <2>1. IsV4(v)
    BY Families
  <2> QED
    BY <1>2, <2>1 DEF is_forbidden_destination
<1>4. PICK n \in p.allowed_networks : NetContains(n, a)
  BY <1>3 DEF Cleared
<1>5. a = canonical(a) \/ a = MappedPrefix \o canonical(a)
  <2>1. CASE a \in V4
    BY <2>1, Canonical
  <2>2. CASE a \in V6
    BY <2>2, Canonical
  <2> QED
    BY <2>1, <2>2, Families
<1> QED
  BY <1>4, <1>5

\* The listener's own endpoint is not reached, however the two are spelled.
LEMMA NotTheListener ==
  ASSUME NEW c \in ConfigValue, NEW p, NEW a \in IpAddress, Cleared(c, p, a, c.bind_address.port)
  PROVE  /\ c.bind_address.ip \notin {Zeros(4), Zeros(16), MappedPrefix \o Zeros(4)}
         /\ c.bind_address.ip \notin {canonical(a), MappedPrefix \o canonical(a)}
<1> DEFINE b == c.bind_address.ip
           x == canonical(a)
<1>1. b \in IpAddress
  BY ConfigFields
<1>2. canonical(x) = x /\ (x \in V4 \/ x \in V6)
  <2>1. CASE a \in V4
    BY <2>1, Canonical
  <2>2. CASE a \in V6 /\ is_mapped(a)
    BY <2>2, Canonical
  <2>3. CASE a \in V6 /\ ~is_mapped(a)
    BY <2>3, Canonical
  <2> QED
    BY <2>1, <2>2, <2>3, Families
<1>3. canonical(x) # canonical(b) /\ ~is_unspecified(canonical(b))
  <2>1. Socket(a, c.bind_address.port).ip = x /\ Socket(a, c.bind_address.port).port = c.bind_address.port
    BY DEF Socket
  <2> QED
    BY <2>1 DEF Cleared, is_proxy_endpoint
<1>4. canonical(Zeros(4)) = Zeros(4) /\ canonical(MappedPrefix \o Zeros(4)) = Zeros(4)
  BY Canonical, PrefixTypes
<1>5. canonical(Zeros(16)) = Zeros(16)
  <2>1. SubSeq(Zeros(16), 1, 12) = [i \in 1..12 |-> Zeros(16)[i]]
    BY Slices, PrefixTypes
  <2>2. SubSeq(Zeros(16), 1, 12) # MappedPrefix
    BY SMTT(20), <2>1, PrefixesAre DEF Zeros
  <2> QED
    BY <2>2 DEF canonical, is_mapped
<1>6. is_unspecified(Zeros(4)) /\ is_unspecified(Zeros(16))
  BY Families, PrefixTypes DEF is_unspecified
<1>7. b \notin {Zeros(4), Zeros(16), MappedPrefix \o Zeros(4)}
  BY <1>3, <1>4, <1>5, <1>6
<1>8. b # x
  BY <1>2, <1>3
<1>9. b # MappedPrefix \o x
  <2>1. CASE x \in V4
    BY <1>2, <1>3, <2>1, Canonical
  <2>2. CASE x \in V6
    <3>1. x \in Seq(Octet) /\ Len(x) = 16
      BY <2>2, Families
    <3>2. MappedPrefix \in Seq(Octet) /\ Len(MappedPrefix) = 12
      BY PrefixTypes, Twelve
    <3>3. Len(MappedPrefix \o x) = Len(MappedPrefix) + Len(x)
      BY <3>1, <3>2, ConcatLen
    <3>4. Len(MappedPrefix \o x) # 4 /\ Len(MappedPrefix \o x) # 16
      <4> HIDE DEF x
      <4> QED
        BY SMTT(20), <3>1, <3>2, <3>3
    <3>5. Len(b) = 4 \/ Len(b) = 16
      BY <1>1, Families
    <3> QED
      BY <3>4, <3>5
  <2> QED
    BY <1>2, <2>1, <2>2
<1> QED
  BY <1>7, <1>8, <1>9

-------------------------------------------------------------------------------
(* Requests *)

\* The reasons that parse_connect does not give.
LaterReasons == {"port-denied", "host-denied"}

\* A Host header that passes is the only one, names the host of the target and no
\* other port.
LEMMA HeaderPasses ==
  ASSUME NEW r, r.hosts # <<>>
  PROVE  /\ validate_host_header(r) \notin LaterReasons
         /\ validate_host_header(r) = OK =>
              /\ ~(Len(r.hosts) > 1)
              /\ hosts_equivalent(r.target.host, r.hosts[1].host)
              /\ decimal_port(r.hosts[1]) \subseteq decimal_port(r.target)
<1> DEFINE h == r.hosts[1]
           mismatch == \/ ~hosts_equivalent(r.target.host, h.host)
                       \/ \E p \in decimal_port(h) : p \notin decimal_port(r.target)
           checks == << <<Len(r.hosts) > 1, "duplicate-host-header">>,
                        <<h.userinfo \/ h.port.spelling = "empty", "invalid-host-header">>,
                        <<~h.wellformed, "invalid-host-header">>,
                        <<h.port.spelling # "absent" /\ decimal_port(h) = {}, "invalid-host-header">>,
                        <<BadBrackets(h), "invalid-host-header">>,
                        <<mismatch, "host-header-mismatch">> >>
<1>1. validate_host_header(r) = FirstError(checks)
  BY DEF validate_host_header
<1>2. DOMAIN checks = 1..6 /\ 6 \in Nat
  BY SMTT(20)
<1>3. /\ checks[1][1] = (Len(r.hosts) > 1) /\ checks[6][1] = mismatch
      /\ \A i \in 1..6 : checks[i][2] \in {"duplicate-host-header", "invalid-host-header", "host-header-mismatch"}
  BY SMTT(20)
<1>4. 1 \in 1..6 /\ 6 \in 1..6
  BY SMTT(20)
<1> HIDE DEF checks
<1>5. \/ FirstError(checks) = OK /\ \A i \in 1..6 : ~checks[i][1]
      \/ \E i \in 1..6 : checks[i][1] /\ FirstError(checks) = checks[i][2]
  BY <1>2, FirstErrorIs
<1>6. \/ FirstError(checks) = OK /\ ~checks[1][1] /\ ~checks[6][1]
      \/ FirstError(checks) \in {"duplicate-host-header", "invalid-host-header", "host-header-mismatch"}
  BY <1>3, <1>4, <1>5
<1>7. OK \notin {"duplicate-host-header", "invalid-host-header", "host-header-mismatch"}
  BY DEF OK
<1>8. FirstError(checks) \notin LaterReasons
  BY <1>6 DEF LaterReasons, OK
<1>9. FirstError(checks) = OK => ~(Len(r.hosts) > 1) /\ ~mismatch
  BY <1>3, <1>6, <1>7
<1> QED
  BY <1>1, <1>8, <1>9

\* A request that passes has a port, a host, and a Host header that passes.
LEMMA RequestPasses ==
  ASSUME NEW r
  PROVE  /\ parse_connect(r) \notin LaterReasons
         /\ parse_connect(r) = OK =>
              /\ decimal_port(r.target) # {} /\ r.target.host # <<>>
              /\ validate_host_header(r) = OK
<1> DEFINE t == r.target
           v == validate_host_header(r)
           checks == << <<r.method # "CONNECT", "connect-required">>,
                        <<r.content, "connect-content-not-allowed">>,
                        <<t.userinfo, "userinfo-not-allowed">>,
                        <<~t.wellformed, "invalid-authority">>,
                        <<decimal_port(t) = {}, "missing-port">>,
                        <<BadBrackets(t), "invalid-ipv6-literal">>,
                        <<t.host = <<>>, "missing-host">>,
                        <<decimal_port(t) = {0}, "invalid-port">>,
                        <<v # OK, v>> >>
           Reasons == {"connect-required", "connect-content-not-allowed", "userinfo-not-allowed", "invalid-authority",
                       "missing-port", "invalid-ipv6-literal", "missing-host", "invalid-port"}
<1>1. parse_connect(r) = FirstError(checks)
  BY DEF parse_connect
<1>2. v \notin LaterReasons
  <2>1. CASE r.hosts = <<>>
    BY <2>1 DEF validate_host_header, LaterReasons, OK
  <2>2. CASE r.hosts # <<>>
    BY <2>2, HeaderPasses
  <2> QED
    BY <2>1, <2>2
<1> HIDE DEF v
<1>3. DOMAIN checks = 1..9 /\ 9 \in Nat /\ 5 \in 1..9 /\ 7 \in 1..9 /\ 9 \in 1..9
  BY SMTT(20)
<1>4. /\ checks[5][1] = (decimal_port(t) = {}) /\ checks[7][1] = (t.host = <<>>)
      /\ checks[9][1] = (v # OK) /\ checks[9][2] = v
  BY SMTT(20)
<1>5. \A i \in 1..9 : i = 9 \/ checks[i][2] \in Reasons
  BY SMTT(20)
<1>6. Reasons \cap LaterReasons = {} /\ OK \notin Reasons
  BY DEF LaterReasons, OK
<1> HIDE DEF checks, Reasons
<1>7. \/ FirstError(checks) = OK /\ \A i \in 1..9 : ~checks[i][1]
      \/ \E i \in 1..9 : checks[i][1] /\ FirstError(checks) = checks[i][2]
  BY <1>3, FirstErrorIs
<1>8. CASE FirstError(checks) = OK /\ \A i \in 1..9 : ~checks[i][1]
  <2>1. decimal_port(t) # {} /\ t.host # <<>> /\ v = OK
    BY <1>3, <1>4, <1>8
  <2>2. OK \notin LaterReasons
    BY DEF OK, LaterReasons
  <2> QED
    BY <1>1, <1>8, <2>1, <2>2 DEF v
<1>9. CASE \E i \in 1..9 : checks[i][1] /\ FirstError(checks) = checks[i][2]
  <2>1. PICK i \in 1..9 : checks[i][1] /\ FirstError(checks) = checks[i][2]
    BY <1>9
  <2>2. CASE i = 9
    BY <1>1, <1>2, <1>4, <2>1, <2>2
  <2>3. CASE i # 9
    BY <1>1, <1>5, <1>6, <2>1, <2>3
  <2> QED
    BY <2>2, <2>3
<1> QED
  BY <1>7, <1>8, <1>9

-------------------------------------------------------------------------------
(* Texts *)

Text == Seq(Character)

\* to_ascii_lowercase works character by character, and twice is as good as once.
LEMMA LowerText ==
  ASSUME NEW t \in Text
  PROVE  /\ to_ascii_lowercase(t) \in Text /\ Len(to_ascii_lowercase(t)) = Len(t)
         /\ \A i \in 1..Len(t) : to_ascii_lowercase(t)[i] = Lower(t[i])
         /\ to_ascii_lowercase(to_ascii_lowercase(t)) = to_ascii_lowercase(t)
<1> DEFINE n == Len(t)
           u == to_ascii_lowercase(t)
<1>1. n \in Nat /\ DOMAIN t = 1..n /\ t \in [1..n -> Character]
  BY SeqIsFunction DEF Text
<1>2. ASSUME NEW c \in Character PROVE Lower(c) \in Character /\ Lower(Lower(c)) = Lower(c)
  <2>1. "a" \in Character /\ "a" # "A"
    BY DEF Character, Alphanumeric
  <2>2. CASE c = "A"
    BY <2>1, <2>2 DEF Lower
  <2>3. CASE c # "A"
    BY <2>3 DEF Lower
  <2> QED
    BY <2>2, <2>3
<1>3. u = [i \in 1..n |-> Lower(t[i])]
  BY <1>1 DEF to_ascii_lowercase
<1> HIDE DEF n, u
<1>4. u \in [1..n -> Character]
  BY <1>1, <1>2, <1>3
<1>5. u \in Seq(Character) /\ Len(u) = n
  BY <1>1, <1>4, FunctionIsSeq
<1>6. to_ascii_lowercase(u) = u
  <2>1. to_ascii_lowercase(u) = [i \in 1..n |-> Lower(u[i])]
    BY <1>4 DEF to_ascii_lowercase
  <2> QED
    BY <1>1, <1>2, <1>3, <2>1
<1> QED
  BY <1>3, <1>5, <1>6 DEF n, u, Text

\* A text without its final dot is a text.
LEMMA StripText ==
  ASSUME NEW t \in Text
  PROVE  strip_dot(t) \in Text
<1>1. CASE t # <<>> /\ t[Len(t)] = "."
  <2>1. SubSeq(t, 1, Len(t) - 1) \in Text
    BY SMTT(20), <1>1 DEF Text
  <2> QED
    BY <1>1, <2>1 DEF strip_dot
<1>2. CASE ~(t # <<>> /\ t[Len(t)] = ".")
  BY <1>2 DEF strip_dot
<1> QED
  BY <1>1, <1>2

\* A text is an address when it is a literal.
LEMMA ParseIp ==
  ASSUME NEW t \in Text
  PROVE  /\ parse_ip(t) # NoIp <=> Len(t) = 1 /\ t[1] \in DOMAIN Literal
         /\ parse_ip(t) # NoIp => parse_ip(t) \in IpAddress
<1>1. ASSUME NEW a \in IpAddress PROVE a # <<>>
  <2>1. Len(a) = 4 \/ Len(a) = 16
    BY Families
  <2>2. Len(<<>>) = 0
    BY SMTT(20)
  <2>3. 0 # 4 /\ 0 # 16
    BY SMTT(20)
  <2> QED
    BY <2>1, <2>2, <2>3
<1>2. ASSUME NEW c \in DOMAIN Literal PROVE Literal[c] \in IpAddress
  BY LiteralAssumption
<1> QED
  BY <1>1, <1>2 DEF parse_ip, NoIp

\* Two texts that differ in case only are both names or both the same literal.
LEMMA CaseOnly ==
  ASSUME NEW t \in Text, NEW u \in Text, to_ascii_lowercase(t) = to_ascii_lowercase(u)
  PROVE  /\ Len(t) = Len(u) /\ (parse_ip(t) = NoIp <=> parse_ip(u) = NoIp)
         /\ ValidName(t) <=> ValidName(u)
<1>1. Len(t) = Len(u)
  BY LowerText
<1>2. ASSUME NEW x \in Text, NEW y \in Text, to_ascii_lowercase(x) = to_ascii_lowercase(y), parse_ip(x) # NoIp
      PROVE  parse_ip(y) # NoIp
  <2>1. Len(x) = 1 /\ x[1] \in DOMAIN Literal
    BY <1>2, ParseIp
  <2>2. Len(y) = 1
    BY <1>2, <2>1, LowerText
  <2>3. 1 \in 1..Len(x) /\ 1 \in 1..Len(y)
    BY SMTT(20), <2>1, <2>2
  <2>4. Lower(x[1]) = Lower(y[1])
    BY SMTT(20), <1>2, <2>3, LowerText
  <2>5. x[1] # "A" /\ x[1] # "a"
    BY <2>1, LiteralAssumption DEF Alphanumeric
  <2>6. x[1] = y[1]
    BY <2>4, <2>5 DEF Lower
  <2> QED
    BY <2>1, <2>2, <2>6, ParseIp
<1>3. parse_ip(t) = NoIp <=> parse_ip(u) = NoIp
  BY <1>2
<1>4. ASSUME NEW x \in Text PROVE x = <<>> <=> Len(x) = 0
  BY SMTT(20) DEF Text
<1>5. t = <<>> <=> u = <<>>
  BY <1>1, <1>4
<1> QED
  BY <1>1, <1>3, <1>5 DEF ValidName

\* hosts_equivalent compares what the two texts denote.
LEMMA EquivalentHosts ==
  ASSUME NEW l \in Text, NEW m \in Text, hosts_equivalent(l, m)
  PROVE  Denotes(l) = Denotes(m)
<1>1. CASE parse_ip(l) = NoIp /\ parse_ip(m) = NoIp
  <2> DEFINE t == strip_dot(l)
             u == strip_dot(m)
  <2>1. t \in Text /\ u \in Text
    BY StripText
  <2>2. to_ascii_lowercase(t) = to_ascii_lowercase(u)
    BY <1>1 DEF hosts_equivalent
  <2>3. ValidName(t) <=> ValidName(u)
    <3> HIDE DEF t, u
    <3> QED
      BY <2>1, <2>2, CaseOnly
  <2>4. canonical_hostname(l) = canonical_hostname(m)
    BY <2>2, <2>3 DEF canonical_hostname
  <2> QED
    BY <1>1, <2>4 DEF Denotes
<1>2. CASE ~(parse_ip(l) = NoIp /\ parse_ip(m) = NoIp)
  <2>1. parse_ip(l) = parse_ip(m) /\ parse_ip(l) # NoIp
    BY <1>2 DEF hosts_equivalent
  <2>2. ASSUME NEW x \in Text, parse_ip(x) # NoIp PROVE canonical_hostname(x) = NoName
    <3>1. Len(x) = 1 /\ x[1] \in DOMAIN Literal
      BY <2>2, ParseIp
    <3>2. x[1] # "."
      BY <3>1, LiteralAssumption
    <3>3. strip_dot(x) = x
      BY <3>1, <3>2 DEF strip_dot
    <3> QED
      BY <2>2, <3>3 DEF canonical_hostname, ValidName
  <2> QED
    BY <2>1, <2>2 DEF Denotes
<1> QED
  BY <1>1, <1>2

\* A request that parse_connect lets through: its port is the one named, and its
\* Host header agrees with the target.
LEMMA RequestAgrees ==
  ASSUME NEW r \in RequestValue, parse_connect(r) = OK
  PROVE  /\ decimal_port(r.target) = {Port(r)} /\ r.target.host # <<>>
         /\ Len(r.hosts) = 1 \/ (r.version = 0 /\ r.hosts = <<>>)
         /\ \A i \in DOMAIN r.hosts :
               /\ Denotes(r.hosts[i].host) = Denotes(r.target.host)
               /\ decimal_port(r.hosts[i]) \subseteq {Port(r)}
<1>1. decimal_port(r.target) # {} /\ r.target.host # <<>> /\ validate_host_header(r) = OK
  BY RequestPasses
<1>2. decimal_port(r.target) = {Port(r)}
  BY <1>1 DEF decimal_port, Port
<1>3. r.target \in AuthorityValue /\ r.hosts \in Seq(AuthorityValue) /\ r.version \in {0, 1}
  BY SMTT(20) DEF RequestValue
<1>4. ASSUME NEW a \in AuthorityValue PROVE a.host \in Text
  BY SMTT(20) DEF AuthorityValue, Text
<1>5. CASE r.hosts = <<>>
  <2>1. r.version # 1
    BY <1>1, <1>5 DEF validate_host_header, OK
  <2>2. r.version = 0
    BY <1>3, <2>1
  <2>3. DOMAIN r.hosts = {}
    BY SMTT(20), <1>5
  <2> QED
    BY <1>1, <1>2, <1>5, <2>2, <2>3
<1>6. CASE r.hosts # <<>>
  <2>1. /\ ~(Len(r.hosts) > 1) /\ hosts_equivalent(r.target.host, r.hosts[1].host)
        /\ decimal_port(r.hosts[1]) \subseteq decimal_port(r.target)
    BY <1>1, <1>6, HeaderPasses
  <2>2. Len(r.hosts) = 1 /\ DOMAIN r.hosts = {1} /\ r.hosts[1] \in AuthorityValue
    <3>1. ASSUME NEW A, NEW s \in Seq(A), s # <<>>, ~(Len(s) > 1)
          PROVE  Len(s) = 1 /\ DOMAIN s = {1} /\ s[1] \in A
      <4>1. Len(s) \in Nat /\ DOMAIN s = 1..Len(s)
        BY SeqIsFunction
      <4>2. Len(s) # 0
        BY SMTT(20), <3>1
      <4>3. Len(s) = 1
        BY SMTT(20), <3>1, <4>1, <4>2
      <4>4. 1..1 = {1}
        BY SMTT(20)
      <4>5. 1 \in 1..Len(s)
        BY <4>3, <4>4
      <4> QED
        BY <4>1, <4>3, <4>4, <4>5, SeqElement
    <3> QED
      BY <1>3, <1>6, <2>1, <3>1
  <2>3. Denotes(r.target.host) = Denotes(r.hosts[1].host)
    BY <1>3, <1>4, <2>1, <2>2, EquivalentHosts
  <2> QED
    BY <1>1, <1>2, <2>1, <2>2, <2>3
<1> QED
  BY <1>5, <1>6

-------------------------------------------------------------------------------
(* Ports *)

\* Induction up to a bound.
LEMMA UpTo ==
  ASSUME NEW k \in Nat, NEW T, 0 \in T, \A n \in Nat : n < k /\ n \in T => n + 1 \in T
  PROVE  \A n \in 0..k : n \in T
<1> DEFINE Missing == {n \in Nat : n <= k /\ n \notin T}
<1>1. ASSUME NEW n \in 0..k, n \notin T PROVE FALSE
  <2>1. n \in Missing /\ Missing \subseteq Nat
    BY SMTT(20), <1>1
  <2> DEFINE m == Min(Missing)
  <2>2. m \in Missing /\ \A y \in Missing : m <= y
    BY <2>1, LeastIsMin
  <2> HIDE DEF m
  <2>3. m # 0 /\ m \in Nat /\ m <= k /\ m \notin T
    BY <2>2
  <2>4. m - 1 \in Nat /\ m - 1 <= k /\ ~(m <= m - 1) /\ m - 1 < k /\ (m - 1) + 1 = m
    BY SMTT(20), <2>3
  <2>5. m - 1 \in T
    BY <2>2, <2>4
  <2> QED
    BY <2>3, <2>4, <2>5
<1> QED
  BY <1>1

\* s lists the numbers of S in order and without repetition.
Enumerates(s, S) == Range(s) = S /\ \A i, j \in DOMAIN s : i < j => s[i] < s[j]

\* A finite set of numbers can be listed in order.
LEMMA SortedExists ==
  ASSUME NEW S, S \subseteq Nat, IsFiniteSet(S)
  PROVE  \E s \in [1..Cardinality(S) -> S] : Enumerates(s, S)
<1> DEFINE T == {n \in Nat : \A A : A \subseteq Nat /\ IsFiniteSet(A) /\ Cardinality(A) = n
                                    => \E s \in [1..n -> A] : Enumerates(s, A)}
<1>1. 0 \in T
  <2>1. ASSUME NEW A, A \subseteq Nat, IsFiniteSet(A), Cardinality(A) = 0
        PROVE  \E s \in [1..0 -> A] : Enumerates(s, A)
    <3>1. A = {} /\ 1..0 = {}
      <4>1. 1..0 = {}
        BY SMTT(20)
      <4> QED
        BY <2>1, <4>1, FS_EmptySet
    <3> DEFINE s == [i \in {} |-> 0]
    <3>2. s \in [1..0 -> A] /\ DOMAIN s = {}
      BY <3>1
    <3>3. Enumerates(s, A)
      BY <3>1, <3>2 DEF Enumerates, Range
    <3> QED
      BY <3>2, <3>3
  <2> QED
    BY <2>1
<1>2. ASSUME NEW n \in Nat, n \in T PROVE n + 1 \in T
  <2>1. ASSUME NEW A, A \subseteq Nat, IsFiniteSet(A), Cardinality(A) = n + 1
        PROVE  \E s \in [1..(n + 1) -> A] : Enumerates(s, A)
    <3>1. A # {}
      <4>1. n + 1 # 0
        BY SMTT(20)
      <4> QED
        BY <2>1, <4>1, FS_EmptySet
    <3> DEFINE m == Min(A)
               B == A \ {m}
    <3>2. m \in A /\ m \in Nat /\ \A y \in A : m <= y
      BY <2>1, <3>1, LeastIsMin
    <3> HIDE DEF m
    <3>3. B \subseteq Nat /\ IsFiniteSet(B) /\ Cardinality(B) = n
      <4>1. IsFiniteSet(B) /\ Cardinality(B) = Cardinality(A) - 1
        BY <2>1, <3>2, FS_RemoveElement
      <4>2. (n + 1) - 1 = n
        BY SMTT(20)
      <4> QED
        BY <2>1, <4>1, <4>2
    <3>4. PICK s \in [1..n -> B] : Enumerates(s, B)
      BY <1>2, <3>3
    <3> HIDE DEF B
    <3> DEFINE t == [i \in 1..(n + 1) |-> IF i = 1 THEN m ELSE s[i - 1]]
    <3>5. \A i \in 1..(n + 1) : i # 1 => i - 1 \in 1..n
      BY SMTT(20)
    <3>6. \A i \in 1..n : i + 1 \in 1..(n + 1) /\ i + 1 # 1 /\ (i + 1) - 1 = i
      BY SMTT(20)
    <3>7. 1 \in 1..(n + 1)
      BY SMTT(20)
    <3>8. \A y \in B : y \in A /\ y \in Nat /\ m < y
      <4>1. ASSUME NEW y \in B PROVE y \in A /\ y \in Nat /\ y # m /\ m <= y
        BY <2>1, <3>2 DEF B
      <4>2. ASSUME NEW y \in Nat, y # m, m <= y PROVE m < y
        BY SMTT(20), <3>2, <4>2
      <4> QED
        BY <4>1, <4>2
    <3>9. t \in [1..(n + 1) -> A]
      BY <3>2, <3>4, <3>5, <3>8
    <3>10. Range(t) = A
      <4>1. ASSUME NEW y \in A PROVE \E i \in DOMAIN t : t[i] = y
        <5>1. CASE y = m
          BY <3>7, <5>1
        <5>2. CASE y # m
          <6>1. y \in B
            BY <5>2 DEF B
          <6>2. PICK i \in 1..n : s[i] = y
            BY <3>4, <6>1 DEF Enumerates, Range
          <6> QED
            BY <3>6, <6>2
        <5> QED
          BY <5>1, <5>2
      <4> QED
        BY SMTT(20), <3>9, <4>1 DEF Range
    <3>11. ASSUME NEW i \in DOMAIN t, NEW j \in DOMAIN t, i < j PROVE t[i] < t[j]
      <4>1. i \in 1..(n + 1) /\ j \in 1..(n + 1) /\ j # 1
        BY SMTT(20), <3>11
      <4>2. t[j] = s[j - 1] /\ j - 1 \in 1..n /\ s[j - 1] \in B
        BY <3>4, <3>5, <4>1
      <4>3. CASE i = 1
        BY <3>8, <4>1, <4>2, <4>3
      <4>4. CASE i # 1
        <5>1. t[i] = s[i - 1] /\ i - 1 \in 1..n
          BY <3>5, <4>1, <4>4
        <5>2. i - 1 < j - 1
          BY SMTT(20), <3>11, <4>1
        <5> QED
          BY <3>4, <4>2, <5>1, <5>2 DEF Enumerates
      <4> QED
        BY <4>3, <4>4
    <3> QED
      BY <3>9, <3>10, <3>11 DEF Enumerates
  <2>2. n + 1 \in Nat
    BY SMTT(20)
  <2> QED
    BY <2>1, <2>2
<1>3. Cardinality(S) \in Nat
  BY FS_CardinalityType
<1> HIDE DEF T
<1>4. \A n \in 0..Cardinality(S) : n \in T
  BY <1>1, <1>2, <1>3, UpTo
<1>5. Cardinality(S) \in 0..Cardinality(S)
  BY SMTT(20), <1>3
<1>6. Cardinality(S) \in T
  BY <1>4, <1>5
<1> QED
  BY <1>6 DEF T

\* SortedDistinct lists a finite set of numbers in order and without repetition.
LEMMA SortedIs ==
  ASSUME NEW S, S \subseteq Nat, IsFiniteSet(S)
  PROVE  /\ Cardinality(S) \in Nat
         /\ SortedDistinct(S) \in [1..Cardinality(S) -> S] /\ Enumerates(SortedDistinct(S), S)
<1>1. Cardinality(S) \in Nat
  BY FS_CardinalityType
<1>2. PICK s \in [1..Cardinality(S) -> S] : Enumerates(s, S)
  BY SortedExists
<1> QED
  BY <1>1, <1>2 DEF SortedDistinct, Enumerates

\* The places of a sequence, and its elements, are finitely many.
LEMMA FiniteRange ==
  ASSUME NEW X, NEW s \in Seq(X)
  PROVE  /\ IsFiniteSet(1..Len(s)) /\ IsFiniteSet(Range(s)) /\ Range(s) \subseteq X
         /\ s \in Surjection(1..Len(s), Range(s))
<1> DEFINE D == 1..Len(s)
           R == Range(s)
<1>1. s \in [D -> X] /\ Len(s) \in Nat /\ DOMAIN s = D
  BY SeqIsFunction
<1>2. IsFiniteSet(D)
  <2>1. 1 \in Int /\ Len(s) \in Int
    BY SMTT(20), <1>1
  <2> QED
    BY <2>1, FS_Interval
<1>3. R = {s[i] : i \in D}
  BY <1>1 DEF Range
<1> HIDE DEF D, R
<1>4. R \subseteq X /\ s \in Surjection(D, R)
  BY <1>1, <1>3 DEF Surjection
<1>5. IsFiniteSet(R)
  BY <1>2, <1>4, FS_Surjection
<1> QED
  BY <1>2, <1>4, <1>5 DEF D, R

\* build sorts the ports and drops the repetitions, and loses none.
LEMMA SortedPorts ==
  ASSUME NEW ports \in Seq(Nat)
  PROVE  LET s == SortedDistinct(Range(ports))
         IN  /\ Range(s) = Range(ports) /\ s \in Seq(Nat)
             /\ \A i, j \in 1..Len(s) : i < j => s[i] < s[j]
<1> DEFINE S == Range(ports)
           s == SortedDistinct(S)
<1>1. S \subseteq Nat /\ IsFiniteSet(S)
  BY FiniteRange
<1> HIDE DEF S
<1>2. Cardinality(S) \in Nat /\ s \in [1..Cardinality(S) -> S] /\ Enumerates(s, S)
  BY <1>1, SortedIs
<1> HIDE DEF s
<1>3. s \in [1..Cardinality(S) -> Nat]
  BY <1>1, <1>2
<1>4. s \in Seq(Nat) /\ Len(s) = Cardinality(S) /\ DOMAIN s = 1..Len(s)
  BY <1>2, <1>3, FunctionIsSeq
<1> QED
  BY <1>2, <1>4 DEF Enumerates, S, s

\* The elements of s at some of its places: these and no others, each as often
\* as it is at those places.
LEMMA AtIs ==
  ASSUME NEW X, NEW s \in Seq(X), NEW I, I \subseteq 1..Len(s)
  PROVE  /\ At(s, I) \in Seq(X) /\ Range(At(s, I)) = {s[i] : i \in I}
         /\ (\A i, j \in I : i # j => s[i] # s[j]) => Len(At(s, I)) = Cardinality(Range(At(s, I)))
<1> DEFINE n == Cardinality(I)
           order == SortedDistinct(I)
           t == At(s, I)
<1>1. I \subseteq Nat /\ IsFiniteSet(I)
  <2>1. 1..Len(s) \subseteq Nat
    BY SMTT(20), SeqIsFunction
  <2> QED
    BY <2>1, FiniteRange, FS_Subset
<1>2. n \in Nat /\ order \in [1..n -> I] /\ Enumerates(order, I)
  BY <1>1, SortedIs
<1>3. t = [k \in 1..n |-> s[order[k]]]
  BY <1>2 DEF At
<1>4. \A i \in I : s[i] \in X
  BY SeqElement
<1> HIDE DEF n, order, t
<1>5. t \in [1..n -> X]
  BY <1>2, <1>3, <1>4
<1>6. t \in Seq(X) /\ Len(t) = n
  BY <1>2, <1>5, FunctionIsSeq
<1>7. Range(t) = {s[i] : i \in I}
  <2>1. ASSUME NEW i \in I PROVE \E k \in DOMAIN t : t[k] = s[i]
    BY <1>2, <1>3 DEF Enumerates, Range
  <2>2. ASSUME NEW k \in DOMAIN t PROVE \E i \in I : t[k] = s[i]
    BY <1>2, <1>3
  <2> QED
    BY SMTT(20), <2>1, <2>2 DEF Range
<1>8. ASSUME \A i, j \in I : i # j => s[i] # s[j]
      PROVE  Len(t) = Cardinality(Range(t))
  <2> DEFINE D == 1..Len(t)
             R == Range(t)
  <2>1. IsFiniteSet(D) /\ t \in Surjection(D, R) /\ Cardinality(D) = Len(t)
    <3>1. 1 \in Int /\ Len(t) \in Int /\ Len(t) \in Nat
      BY SMTT(20), <1>2, <1>6
    <3>2. Cardinality(D) = IF 1 > Len(t) THEN 0 ELSE Len(t) - 1 + 1
      BY <3>1, FS_Interval
    <3>3. Cardinality(D) = Len(t)
      BY SMTT(20), <3>1, <3>2
    <3> QED
      BY <1>6, <3>3, FiniteRange
  <2>2. ASSUME NEW k \in 1..n, NEW l \in 1..n, t[k] = t[l] PROVE k = l
    <3>1. order[k] = order[l]
      BY <1>2, <1>3, <1>8, <2>2
    <3>2. \A a, b \in 1..n : a < b => order[a] < order[b]
      BY <1>2 DEF Enumerates
    <3>3. \A a \in I : ~(a < a)
      BY SMTT(20), <1>1
    <3>4. ~(k < l) /\ ~(l < k)
      BY <1>2, <3>1, <3>2, <3>3
    <3> QED
      BY SMTT(20), <1>2, <3>4
  <2>3. t \in Injection(D, R)
    BY <1>6, <2>1, <2>2 DEF Injection, IsInjective, Surjection
  <2> HIDE DEF D, R
  <2>4. Cardinality(R) = Cardinality(D)
    BY <2>1, <2>3, FS_Surjection
  <2> QED
    BY <2>1, <2>4 DEF R
<1> QED
  BY <1>6, <1>7, <1>8 DEF t

------------------------------------------------------------------------------
\* The binary search of allows_port: one step of it, and what it looks for.

SearchStep(ports, port, f, w) ==
    LET mid == (w[1] + w[2]) \div 2
    IN  IF w[1] > w[2] THEN FALSE
        ELSE IF ports[mid] = port THEN TRUE
        ELSE IF ports[mid] < port THEN f[<<mid + 1, w[2]>>]
        ELSE f[<<w[1], mid - 1>>]

Within(ports, port, w) == \E i \in w[1]..w[2] : ports[i] = port

Sorted(ports) == ports \in Seq(Nat) /\ \A i, j \in 1..Len(ports) : i < j => ports[i] < ports[j]

Windows(n) == (1..(n + 1)) \X (0..n)

\* The middle of a window, and the two windows beside it.
LEMMA Middle ==
  ASSUME NEW n \in Nat, NEW w \in Windows(n), w[1] <= w[2], NEW mid, mid = (w[1] + w[2]) \div 2
  PROVE  /\ w[1] \in Nat /\ w[2] \in Nat /\ mid \in Nat /\ mid \in 1..n
         /\ w[1] <= mid /\ mid <= w[2]
         /\ <<mid + 1, w[2]>> \in Windows(n) /\ <<w[1], mid - 1>> \in Windows(n)
<1>1. w[1] \in 1..(n + 1) /\ w[2] \in 0..n
  BY DEF Windows
<1>2. w[1] \in Nat /\ w[2] \in Nat /\ mid \in Nat /\ mid \in 1..n /\ w[1] <= mid /\ mid <= w[2]
  BY SMTT(20), <1>1
<1>3. mid + 1 \in 1..(n + 1) /\ mid - 1 \in 0..n
  BY SMTT(20), <1>1, <1>2
<1> QED
  BY <1>1, <1>2, <1>3 DEF Windows

\* In a sorted list the port lies in the half that the search goes on with.
LEMMA StepWithin ==
  ASSUME NEW ports, Sorted(ports), NEW port \in Nat, NEW f, NEW w \in Windows(Len(ports)),
         \A x \in Windows(Len(ports)) :
            x[2] - x[1] < w[2] - w[1] => f[x] = Within(ports, port, x)
  PROVE  SearchStep(ports, port, f, w) = Within(ports, port, w)
<1> DEFINE n == Len(ports)
           mid == (w[1] + w[2]) \div 2
<1>1. n \in Nat /\ \A i \in 1..n : ports[i] \in Nat
  BY SeqIsFunction, SeqElement DEF Sorted
<1>2. w[1] \in Nat /\ w[2] \in Nat /\ w[1] >= 1 /\ w[2] <= n
  <2>1. w[1] \in 1..(n + 1) /\ w[2] \in 0..n
    BY DEF Windows
  <2> QED
    BY SMTT(20), <1>1, <2>1
<1>3. CASE w[1] > w[2]
  <2>1. ~Within(ports, port, w)
    BY SMTT(20), <1>2, <1>3 DEF Within
  <2> QED
    BY <1>3, <2>1 DEF SearchStep, Within
<1>4. CASE ~(w[1] > w[2])
  <2>1. w[1] <= w[2]
    BY SMTT(20), <1>2, <1>4
  <2> HIDE DEF mid, n
  <2>2. /\ mid \in Nat /\ mid \in 1..n /\ w[1] <= mid /\ mid <= w[2]
        /\ <<mid + 1, w[2]>> \in Windows(n) /\ <<w[1], mid - 1>> \in Windows(n)
    BY <1>1, <2>1, Middle DEF mid, n
  <2>3. CASE ports[mid] = port
    <3>1. Within(ports, port, w)
      BY SMTT(20), <1>2, <2>2, <2>3 DEF Within
    <3> QED
      BY <1>4, <2>3, <3>1 DEF SearchStep, Within, mid
  <2>4. CASE ports[mid] # port /\ ports[mid] < port
    <3>1. SearchStep(ports, port, f, w) = f[<<mid + 1, w[2]>>]
      BY <1>4, <2>4 DEF SearchStep, mid
    <3>2. w[2] - (mid + 1) < w[2] - w[1]
      BY SMTT(20), <1>2, <2>2
    <3>3. f[<<mid + 1, w[2]>>] = \E i \in (mid + 1)..w[2] : ports[i] = port
      BY <2>2, <3>2 DEF Within, n
    <3>4. \A i \in w[1]..w[2] : ports[i] = port => i \in (mid + 1)..w[2]
      <4> SUFFICES ASSUME NEW i \in w[1]..w[2], ports[i] = port PROVE i \in (mid + 1)..w[2]
        OBVIOUS
      <4>1. i \in 1..n /\ i \in Nat
        BY SMTT(20), <1>1, <1>2
      <4>2. i < mid => ports[i] < ports[mid]
        BY <2>2, <4>1 DEF Sorted, n
      <4> QED
        BY SMTT(20), <1>1, <1>2, <2>2, <2>4, <4>1, <4>2
    <3>5. \A i \in (mid + 1)..w[2] : i \in w[1]..w[2]
      BY SMTT(20), <1>2, <2>2
    <3> QED
      BY <3>1, <3>3, <3>4, <3>5 DEF Within
  <2>5. CASE ports[mid] # port /\ ~(ports[mid] < port)
    <3>1. SearchStep(ports, port, f, w) = f[<<w[1], mid - 1>>]
      BY <1>4, <2>5 DEF SearchStep, mid
    <3>2. (mid - 1) - w[1] < w[2] - w[1]
      BY SMTT(20), <1>2, <2>2
    <3>3. f[<<w[1], mid - 1>>] = \E i \in w[1]..(mid - 1) : ports[i] = port
      BY <2>2, <3>2 DEF Within, n
    <3>4. \A i \in w[1]..w[2] : ports[i] = port => i \in w[1]..(mid - 1)
      <4> SUFFICES ASSUME NEW i \in w[1]..w[2], ports[i] = port PROVE i \in w[1]..(mid - 1)
        OBVIOUS
      <4>1. i \in 1..n /\ i \in Nat
        BY SMTT(20), <1>1, <1>2
      <4>2. mid < i => ports[mid] < ports[i]
        BY <2>2, <4>1 DEF Sorted, n
      <4> QED
        BY SMTT(20), <1>1, <1>2, <2>2, <2>5, <4>1, <4>2
    <3>5. \A i \in w[1]..(mid - 1) : i \in w[1]..w[2]
      BY SMTT(20), <1>2, <2>2
    <3> QED
      BY <3>1, <3>3, <3>4, <3>5 DEF Within
  <2> QED
    BY <2>3, <2>4, <2>5
<1> QED
  BY <1>3, <1>4

\* allows_port finds exactly the ports of a sorted list.
LEMMA PortSearch ==
  ASSUME NEW p, Sorted(p.ports), NEW port \in Nat
  PROVE  allows_port(p, port) <=> port \in Range(p.ports)
<1> DEFINE ports == p.ports
           n == Len(ports)
           D == Windows(n)
           F == [w \in D |-> Within(ports, port, w)]
           g == CHOOSE f : f = [w \in D |-> SearchStep(ports, port, f, w)]
<1> HIDE DEF ports
<1>1. Sorted(ports) /\ n \in Nat /\ DOMAIN ports = 1..n
  BY SeqIsFunction DEF Sorted, ports
<1>2. F = [w \in D |-> SearchStep(ports, port, F, w)]
  <2>1. \A w \in D : SearchStep(ports, port, F, w) = Within(ports, port, w)
    BY <1>1, StepWithin
  <2> QED
    BY <2>1
<1>3. g = [w \in D |-> SearchStep(ports, port, g, w)]
  BY <1>2
<1>4. allows_port(p, port) = g[<<1, n>>]
  BY DEF allows_port, SearchStep, Windows, ports
<1> HIDE DEF g, D, F, n
<1>5. \A w \in D : w[1] \in 1..(n + 1) /\ w[2] \in 0..n
  BY DEF D, Windows
<1> DEFINE T == {k \in Nat : \A w \in D : w[2] - w[1] < k - 1 => g[w] = Within(ports, port, w)}
<1>7. \A k \in 0..(n + 1) : k \in T
  <2>1. ASSUME NEW k \in Nat, \A w \in D : w[2] - w[1] < k - 1 => g[w] = Within(ports, port, w)
        PROVE  \A w \in D : w[2] - w[1] < (k + 1) - 1 => g[w] = Within(ports, port, w)
    <3> SUFFICES ASSUME NEW w \in D, w[2] - w[1] < (k + 1) - 1 PROVE g[w] = Within(ports, port, w)
      OBVIOUS
    <3>1. \A x \in D : x[2] - x[1] < w[2] - w[1] => x[2] - x[1] < k - 1
      BY SMTT(20), <1>1, <1>5
    <3>2. SearchStep(ports, port, g, w) = Within(ports, port, w)
      BY <1>1, <2>1, <3>1, StepWithin DEF D, n
    <3> QED
      BY <1>3, <3>2
  <2>2. 0 \in T
    <3>1. ASSUME NEW w \in D, w[2] - w[1] < 0 - 1 PROVE g[w] = Within(ports, port, w)
      <4>1. w[1] > w[2] /\ ~Within(ports, port, w)
        BY SMTT(20), <1>1, <1>5, <3>1 DEF Within
      <4>2. SearchStep(ports, port, g, w) = FALSE
        BY <4>1 DEF SearchStep
      <4> QED
        BY <1>3, <4>1, <4>2 DEF Within
    <3> QED
      BY <3>1
  <2>3. n + 1 \in Nat
    BY SMTT(20), <1>1
  <2>4. \A k \in Nat : k < n + 1 /\ k \in T => k + 1 \in T
    BY SMTT(20), <2>1
  <2> HIDE DEF T
  <2> QED
    BY <2>2, <2>3, <2>4, UpTo
<1>8. <<1, n>> \in D
  <2>1. 1 \in 1..(n + 1) /\ n \in 0..n
    BY SMTT(20), <1>1
  <2> QED
    BY <2>1 DEF D, Windows
<1>9. g[<<1, n>>] = \E i \in 1..n : ports[i] = port
  <2>1. <<1, n>>[2] - <<1, n>>[1] < (n + 1) - 1 /\ n + 1 \in 0..(n + 1)
    BY SMTT(20), <1>1
  <2>2. g[<<1, n>>] = Within(ports, port, <<1, n>>)
    BY <1>7, <1>8, <2>1
  <2> QED
    BY <2>2 DEF Within
<1> QED
  BY <1>1, <1>4, <1>9 DEF Range, ports

------------------------------------------------------------------------------
(* Answers *)

\* The addresses of a family are addresses of the answer.
LEMMA FamilyIs ==
  ASSUME NEW family, NEW a \in Seq(IpAddress)
  PROVE  OfFamily(family, a) \in Seq(IpAddress)
<1> DEFINE I == {i \in DOMAIN a : InFamily(family, a[i])}
<1>1. I \subseteq 1..Len(a)
  BY SeqIsFunction
<1> HIDE DEF I
<1>2. At(a, I) \in Seq(IpAddress)
  BY <1>1, AtIs
<1> QED
  BY <1>2 DEF OfFamily, I

\* One address more than the ceiling is kept: the excess is seen, and without
\* an excess nothing is cut.
LEMMA Collected ==
  ASSUME NEW c \in ConfigValue, NEW a \in Seq(IpAddress)
  PROVE  LET all  == OfFamily(c.dns_address_family, a)
             kept == collect_addresses(c, a)
             max  == c.max_resolved_addresses
         IN  /\ kept \in Seq(IpAddress) /\ all \in Seq(IpAddress)
             /\ (kept # <<>> /\ ~(Len(kept) > max)) <=> Len(all) \in 1..max
             /\ Len(all) \in 1..max => kept = all
<1> DEFINE all  == OfFamily(c.dns_address_family, a)
           kept == collect_addresses(c, a)
           max  == c.max_resolved_addresses
<1>1. max \in Nat
  BY ConfigFields
<1>2. all \in Seq(IpAddress)
  BY FamilyIs
<1>3. kept = IF Len(all) <= max + 1 THEN all ELSE SubSeq(all, 1, max + 1)
  BY DEF collect_addresses, Take
<1> HIDE DEF all, kept, max
<1> DEFINE X == IpAddress
<1>4. all \in Seq(X)
  BY <1>2
<1> HIDE DEF X
<1>5. /\ kept \in Seq(X)
      /\ (kept # <<>> /\ ~(Len(kept) > max)) <=> Len(all) \in 1..max
      /\ Len(all) \in 1..max => kept = all
  BY SMTT(20), <1>1, <1>3, <1>4
<1> QED
  BY <1>2, <1>5 DEF all, kept, max, X

\* The loop over the addresses passes exactly when each of them passes.
LEMMA LoopPasses ==
  ASSUME NEW c, NEW p, NEW port, NEW kept \in Seq(IpAddress)
  PROVE  /\ answer_denial(c, p, kept, port) = OK <=> \A i \in DOMAIN kept : resolved_denial(c, p, kept[i], port) = OK
         /\ answer_denial(c, p, kept, port) \notin LaterReasons
<1> DEFINE R(i) == resolved_denial(c, p, kept[i], port)
           checks == [i \in DOMAIN kept |-> <<R(i) # OK, R(i)>>]
           n == Len(kept)
<1>1. answer_denial(c, p, kept, port) = FirstError(checks)
  BY DEF answer_denial
<1>2. n \in Nat /\ DOMAIN kept = 1..n
  BY SeqIsFunction
<1>3. \A i \in 1..n : R(i) \notin LaterReasons
  BY DenialIs DEF LaterReasons
<1> HIDE DEF R, n
<1>4. DOMAIN checks = 1..n /\ \A i \in 1..n : checks[i][1] = (R(i) # OK) /\ checks[i][2] = R(i)
  BY <1>2
<1> HIDE DEF checks
<1>5. \/ FirstError(checks) = OK /\ \A i \in 1..n : ~checks[i][1]
      \/ \E i \in 1..n : checks[i][1] /\ FirstError(checks) = checks[i][2]
  BY <1>2, <1>4, FirstErrorIs
<1>6. FirstError(checks) = OK <=> \A i \in 1..n : R(i) = OK
  BY <1>4, <1>5
<1>7. FirstError(checks) \notin LaterReasons
  BY <1>3, <1>4, <1>5 DEF LaterReasons, OK
<1> QED
  BY <1>1, <1>2, <1>6, <1>7 DEF R

\* An answer passes when it is neither empty nor too large and each address does.
LEMMA AnswerPasses ==
  ASSUME NEW c, NEW p, NEW port, NEW kept \in Seq(IpAddress)
  PROVE  /\ lookup_denial(c, p, kept, port) = OK <=>
              /\ kept # <<>> /\ ~(Len(kept) > c.max_resolved_addresses)
              /\ \A i \in DOMAIN kept : resolved_denial(c, p, kept[i], port) = OK
         /\ lookup_denial(c, p, kept, port) \notin LaterReasons
<1> DEFINE e == answer_denial(c, p, kept, port)
           c1 == kept = <<>>
           c2 == Len(kept) > c.max_resolved_addresses
           c3 == e # OK
           r == lookup_denial(c, p, kept, port)
<1>1. e \notin LaterReasons /\ (e = OK <=> \A i \in DOMAIN kept : resolved_denial(c, p, kept[i], port) = OK)
  BY LoopPasses
<1>2. r = FirstError(<< <<c1, "dns-empty">>, <<c2, "dns-answer-too-large">>, <<c3, e>> >>)
  BY DEF lookup_denial
<1>3. c1 \in BOOLEAN /\ c2 \in BOOLEAN /\ c3 \in BOOLEAN
  BY SMTT(20)
<1> HIDE DEF c1, c2, c3, r, e
<1>4. (r = OK /\ ~c1 /\ ~c2 /\ ~c3) \/ (c1 /\ r = "dns-empty") \/ (c2 /\ r = "dns-answer-too-large") \/ (c3 /\ r = e)
  BY SMTT(20), <1>2, <1>3, ThreeChecks
<1>5. r = OK <=> ~c1 /\ ~c2 /\ ~c3
  BY <1>4 DEF OK, c3
<1>6. r \notin LaterReasons
  BY <1>1, <1>4 DEF OK, LaterReasons
<1> QED
  BY <1>1, <1>5, <1>6 DEF c1, c2, c3, r, e

\* The first spelling of each address is kept, and each only once.
LEMMA SocketsAre ==
  ASSUME NEW a \in Seq(IpAddress), NEW port
  PROVE  /\ Range(distinct_sockets(a, port)) = {Socket(a[i], port) : i \in DOMAIN a}
         /\ Len(distinct_sockets(a, port)) = Cardinality(Range(distinct_sockets(a, port)))
<1> DEFINE n == Len(a)
           X == {Socket(a[i], port) : i \in DOMAIN a}
           t == [i \in DOMAIN a |-> Socket(a[i], port)]
           I == {i \in DOMAIN t : \A j \in 1..(i - 1) : t[j] # t[i]}
<1>1. n \in Nat /\ DOMAIN a = 1..n
  BY SeqIsFunction
<1>2. distinct_sockets(a, port) = At(t, I)
  BY DEF distinct_sockets
<1>3. t \in [1..n -> X] /\ X = {t[i] : i \in 1..n}
  BY <1>1
<1>4. I \subseteq 1..n /\ \A i \in 1..n : i \in I <=> \A j \in 1..(i - 1) : t[j] # t[i]
  BY <1>3
<1> HIDE DEF n, X, t, I
<1>5. t \in Seq(X) /\ Len(t) = n
  BY <1>1, <1>3, FunctionIsSeq
<1>6. \A i, j \in I : i # j => t[i] # t[j]
  <2> SUFFICES ASSUME NEW i \in I, NEW j \in I, i # j PROVE t[i] # t[j]
    OBVIOUS
  <2>1. i \in 1..(j - 1) \/ j \in 1..(i - 1)
    BY SMTT(20), <1>1, <1>4
  <2> QED
    BY <1>4, <2>1
<1>7. X = {t[i] : i \in I}
  <2>1. ASSUME NEW i \in 1..n PROVE \E k \in I : t[k] = t[i]
    <3> DEFINE T == {j \in 1..n : t[j] = t[i]}
    <3>1. 1..n \subseteq Nat
      BY SMTT(20), <1>1
    <3>2. T \subseteq Nat /\ i \in T
      BY <3>1
    <3>3. Min(T) \in T /\ \A y \in T : Min(T) <= y
      BY <3>2, LeastIsMin
    <3> DEFINE k == Min(T)
    <3> HIDE DEF k
    <3>4. k \in 1..n /\ t[k] = t[i] /\ \A y \in 1..n : t[y] = t[i] => k <= y
      BY <3>3 DEF k
    <3>5. \A j \in 1..(k - 1) : j \in 1..n /\ ~(k <= j)
      BY SMTT(20), <1>1, <3>4
    <3>6. k \in I
      BY <1>4, <3>4, <3>5
    <3> QED
      BY <3>4, <3>6
  <2> QED
    BY SMTT(20), <1>3, <1>4, <2>1
<1>8. Range(At(t, I)) = X /\ Len(At(t, I)) = Cardinality(Range(At(t, I)))
  BY <1>4, <1>5, <1>6, <1>7, AtIs
<1> QED
  BY <1>2, <1>8 DEF X

\* The whole answer is neither empty nor too large, and all of it passes.
AllPass(c, p, a, port) ==
    LET all == OfFamily(c.dns_address_family, a)
    IN  /\ Len(all) \in 1..c.max_resolved_addresses
        /\ \A i \in DOMAIN all : resolved_denial(c, p, all[i], port) = OK

\* The sockets are those of the whole answer, each of them once.
SocketsOf(c, a, port, sockets) ==
    LET all == OfFamily(c.dns_address_family, a)
    IN  /\ all \in Seq(IpAddress)
        /\ Range(sockets) = {Socket(all[i], port) : i \in DOMAIN all}
        /\ Len(sockets) = Cardinality(Range(sockets))

\* The verdict on an answer, in terms of the whole of it.
LEMMA AnswerIsWhole ==
  ASSUME NEW c \in ConfigValue, NEW p, NEW port, NEW a \in Seq(IpAddress)
  PROVE  LET kept    == collect_addresses(c, a)
             verdict == lookup_denial(c, p, kept, port)
         IN  /\ verdict \notin LaterReasons
             /\ verdict = OK <=> AllPass(c, p, a, port)
             /\ verdict = OK => SocketsOf(c, a, port, distinct_sockets(kept, port))
<1> DEFINE all     == OfFamily(c.dns_address_family, a)
           kept    == collect_addresses(c, a)
           verdict == lookup_denial(c, p, kept, port)
           max     == c.max_resolved_addresses
<1>1. /\ kept \in Seq(IpAddress) /\ all \in Seq(IpAddress)
      /\ (kept # <<>> /\ ~(Len(kept) > max)) <=> Len(all) \in 1..max
      /\ Len(all) \in 1..max => kept = all
  BY Collected
<1> HIDE DEF all, kept
<1>2. /\ verdict = OK <=> /\ kept # <<>> /\ ~(Len(kept) > max)
                          /\ \A i \in DOMAIN kept : resolved_denial(c, p, kept[i], port) = OK
      /\ verdict \notin LaterReasons
  BY <1>1, AnswerPasses
<1>3. /\ Range(distinct_sockets(kept, port)) = {Socket(kept[i], port) : i \in DOMAIN kept}
      /\ Len(distinct_sockets(kept, port)) = Cardinality(Range(distinct_sockets(kept, port)))
  BY <1>1, SocketsAre
<1> HIDE DEF verdict
<1>4. verdict = OK <=> Len(all) \in 1..max /\ \A i \in DOMAIN all : resolved_denial(c, p, all[i], port) = OK
  BY <1>1, <1>2
<1>5. verdict = OK => kept = all
  BY <1>1, <1>4
<1>6. verdict = OK <=> AllPass(c, p, a, port)
  BY <1>4 DEF AllPass, all
<1>7. verdict = OK => SocketsOf(c, a, port, distinct_sockets(kept, port))
  BY <1>1, <1>3, <1>5 DEF SocketsOf, all
<1> QED
  BY <1>2, <1>6, <1>7 DEF kept, verdict

------------------------------------------------------------------------------
(* Labels *)

\* One character more: a dot opens a label, another character extends the last.
Grow(b, c) == IF c = "." THEN Append(b, <<>>) ELSE [b EXCEPT ![Len(b)] = Append(@, c)]

\* The labels over C, of which there is always at least one.
Labels(C) == {b \in Seq(Seq(C)) : Len(b) >= 1}

\* A dot opens an empty label.
LEMMA GrowDot ==
  ASSUME NEW C, NEW b \in Labels(C)
  PROVE  /\ Grow(b, ".") \in Labels(C) /\ Len(Grow(b, ".")) = Len(b) + 1
         /\ Grow(b, ".")[Len(b) + 1] = <<>>
         /\ \A i \in 1..Len(b) : Grow(b, ".")[i] = b[i]
<1> DEFINE W == Seq(C)
           e == <<>>
<1>1. e \in W
  BY SMTT(20)
<1>2. b \in Seq(W) /\ Len(b) >= 1 /\ Len(b) \in Nat
  BY SeqIsFunction DEF Labels
<1>3. Grow(b, ".") = Append(b, e)
  BY DEF Grow
<1> HIDE DEF W, e
<1>4. /\ Append(b, e) \in Seq(W) /\ Len(Append(b, e)) = Len(b) + 1
      /\ \A i \in 1..Len(b) : Append(b, e)[i] = b[i]
      /\ Append(b, e)[Len(b) + 1] = e
  BY <1>1, <1>2, AppendIs
<1>5. Len(b) + 1 >= 1
  BY SMTT(20), <1>2
<1> QED
  BY <1>3, <1>4, <1>5 DEF Labels, W, e

\* Another character extends the last label.
LEMMA GrowOther ==
  ASSUME NEW C, NEW b \in Labels(C), NEW c \in C, c # "."
  PROVE  /\ Grow(b, c) \in Labels(C) /\ Len(Grow(b, c)) = Len(b) /\ Len(b) \in 1..Len(b)
         /\ b[Len(b)] \in Seq(C) /\ Grow(b, c)[Len(b)] = Append(b[Len(b)], c)
         /\ \A i \in 1..Len(b) : i # Len(b) => Grow(b, c)[i] = b[i]
<1> DEFINE W == Seq(C)
           n == Len(b)
           x == Append(b[n], c)
<1>1. b \in Seq(W) /\ n >= 1 /\ n \in Nat /\ b \in [1..n -> W] /\ DOMAIN b = 1..n
  BY SeqIsFunction DEF Labels
<1>2. n \in 1..n
  BY SMTT(20), <1>1
<1>3. b[n] \in Seq(C) /\ x \in W
  BY <1>1, <1>2, AppendIs
<1>4. Grow(b, c) = [b EXCEPT ![n] = x]
  BY DEF Grow
<1> HIDE DEF W, x, n
<1>5. Grow(b, c) \in [1..n -> W] /\ Grow(b, c)[n] = x /\ \A i \in 1..n : i # n => Grow(b, c)[i] = b[i]
  BY <1>1, <1>2, <1>3, <1>4
<1>6. Grow(b, c) \in Seq(W) /\ Len(Grow(b, c)) = n
  BY <1>1, <1>5, FunctionIsSeq
<1> QED
  BY <1>1, <1>2, <1>3, <1>5, <1>6 DEF Labels, W, x, n

\* Labels grow, and one character at a time.
LEMMA GrowLabels ==
  ASSUME NEW C, NEW b \in Labels(C), NEW c \in C
  PROVE  /\ Grow(b, c) \in Labels(C) /\ Len(b) \in Nat
         /\ Len(Grow(b, c)) = IF c = "." THEN Len(b) + 1 ELSE Len(b)
<1>1. Len(b) \in Nat
  BY SeqIsFunction DEF Labels
<1> QED
  BY <1>1, GrowDot, GrowOther

\* Two sequences with the same length and the same elements.
LEMMA SameSeq ==
  ASSUME NEW X, NEW s \in Seq(X), NEW t \in Seq(X), Len(s) = Len(t), \A i \in 1..Len(s) : s[i] = t[i]
  PROVE  s = t
  BY SMTT(20)

\* A sequence that was appended to is not empty, and tells what was appended.
LEMMA AppendNotEmpty ==
  ASSUME NEW X, NEW s \in Seq(X), NEW e \in X
  PROVE  Append(s, e) # <<>>
<1>1. Len(Append(s, e)) = Len(s) + 1 /\ Len(s) \in Nat
  BY AppendIs, SeqIsFunction
<1>2. Len(Append(s, e)) # 0
  BY SMTT(20), <1>1
<1>3. Len(<<>>) = 0
  BY SMTT(20)
<1> QED
  BY <1>2, <1>3

\* What was appended to, and what was appended, can be told from the result.
LEMMA AppendInjective ==
  ASSUME NEW X, NEW s \in Seq(X), NEW t \in Seq(X), NEW e \in X, NEW f \in X, Append(s, e) = Append(t, f)
  PROVE  s = t /\ e = f
  BY SMTT(20)

\* A dot starts a new label, whatever labels are in front.
LEMMA DotBehind ==
  ASSUME NEW X, NEW s \in Seq(X), NEW t \in Seq(X), <<>> \in X
  PROVE  Grow(s \o t, ".") = s \o Grow(t, ".")
<1> DEFINE e == <<>>
<1>1. e \in X
  OBVIOUS
<1> HIDE DEF e
<1>2. Append(s \o t, e) = s \o Append(t, e)
  BY SMTT(20), <1>1
<1> QED
  BY <1>2 DEF Grow, e

\* The last element of a sequence behind another may be replaced before or after.
LEMMA ReplaceBehind ==
  ASSUME NEW X, NEW s \in Seq(X), NEW t \in Seq(X), Len(t) >= 1, NEW e \in X
  PROVE  [(s \o t) EXCEPT ![Len(s) + Len(t)] = e] = s \o [t EXCEPT ![Len(t)] = e]
<1> DEFINE m == Len(s)
           n == Len(t)
           g == [(s \o t) EXCEPT ![m + n] = e]
           u == [t EXCEPT ![n] = e]
<1>1. m \in Nat /\ n \in Nat /\ n >= 1 /\ t \in [1..n -> X] /\ DOMAIN t = 1..n
  BY SMTT(20), SeqIsFunction
<1> HIDE DEF m, n
<1>2. /\ s \o t \in Seq(X) /\ Len(s \o t) = m + n
      /\ s \o t = [i \in 1..(m + n) |-> IF i <= m THEN s[i] ELSE t[i - m]]
  BY ConcatLen, ConcatIs DEF m, n
<1>3. u \in [1..n -> X]
  BY <1>1
<1>4. u \in Seq(X) /\ Len(u) = n
  BY <1>1, <1>3, FunctionIsSeq
<1>5. u[n] = e /\ \A i \in 1..n : i # n => u[i] = t[i]
  <2>1. n \in 1..n
    BY SMTT(20), <1>1
  <2> QED
    BY <1>1, <2>1
<1>6. s \o u = [i \in 1..(m + n) |-> IF i <= m THEN s[i] ELSE u[i - m]]
  <2> HIDE DEF u
  <2> QED
    BY <1>4, ConcatIs DEF m
<1>7. g = [i \in 1..(m + n) |-> IF i = m + n THEN e ELSE IF i <= m THEN s[i] ELSE t[i - m]]
  BY <1>2
<1> HIDE DEF u, g
<1>8. ASSUME NEW i \in 1..(m + n)
      PROVE  (IF i = m + n THEN e ELSE IF i <= m THEN s[i] ELSE t[i - m]) = IF i <= m THEN s[i] ELSE u[i - m]
  <2>1. CASE i <= m
    <3>1. i # m + n
      BY SMTT(20), <1>1, <2>1
    <3> QED
      BY <2>1, <3>1
  <2>2. CASE ~(i <= m) /\ i = m + n
    <3>1. i - m = n
      BY SMTT(20), <1>1, <2>2
    <3> QED
      BY <1>5, <2>2, <3>1
  <2>3. CASE ~(i <= m) /\ i # m + n
    <3>1. i - m \in 1..n /\ i - m # n
      BY SMTT(20), <1>1, <2>3
    <3> QED
      BY <1>5, <2>3, <3>1
  <2> QED
    BY <2>1, <2>2, <2>3
<1>9. g = s \o u
  BY <1>6, <1>7, <1>8
<1> QED
  BY <1>9 DEF m, n, u, g

\* The last label tells what was read last.
LEMMA GrowTells ==
  ASSUME NEW C, NEW b \in Labels(C), NEW c \in C
  PROVE  Grow(b, c)[Len(Grow(b, c))] = <<>> <=> c = "."
<1>1. CASE c = "."
  BY <1>1, GrowDot
<1>2. CASE c # "."
  <2>1. Len(Grow(b, c)) = Len(b) /\ b[Len(b)] \in Seq(C) /\ Grow(b, c)[Len(b)] = Append(b[Len(b)], c)
    BY <1>2, GrowOther
  <2> QED
    BY <1>2, <2>1, AppendNotEmpty
<1> QED
  BY <1>1, <1>2

\* What was grown is not the one empty label.
LEMMA GrowIsNew ==
  ASSUME NEW C, NEW b \in Labels(C), NEW c \in C
  PROVE  Grow(b, c) # << <<>> >>
<1> SUFFICES ASSUME Grow(b, c) = << <<>> >> PROVE FALSE
  OBVIOUS
<1>1. Len(Grow(b, c)) = 1 /\ Grow(b, c)[1] = <<>>
  BY SMTT(20)
<1>2. c = "."
  BY SMTT(20), <1>1, GrowTells
<1>3. Len(b) + 1 = 1 /\ Len(b) \in Nat /\ Len(b) >= 1
  BY <1>1, <1>2, GrowLabels DEF Labels
<1> QED
  BY SMTT(20), <1>3

\* Nothing is lost: what was grown tells the labels before it and the character.
LEMMA GrowInjective ==
  ASSUME NEW C, NEW b \in Labels(C), NEW c \in C, NEW d \in Labels(C), NEW e \in C, Grow(b, c) = Grow(d, e)
  PROVE  b = d /\ c = e
<1>1. b \in Seq(Seq(C)) /\ d \in Seq(Seq(C)) /\ Len(b) \in Nat /\ Len(d) \in Nat
  BY SeqIsFunction DEF Labels
<1>2. c = "." <=> e = "."
  BY SMTT(20), GrowTells
<1>3. Len(b) = Len(d)
  <2> DEFINE n == Len(Grow(b, c))
  <2>1. n = IF c = "." THEN Len(b) + 1 ELSE Len(b)
    BY GrowLabels
  <2>2. n = IF e = "." THEN Len(d) + 1 ELSE Len(d)
    BY GrowLabels
  <2> HIDE DEF n
  <2> QED
    BY SMTT(20), <1>1, <1>2, <2>1, <2>2
<1>4. CASE c = "."
  <2> DEFINE x == Grow(b, ".")
  <2>1. x = Grow(d, ".")
    BY <1>2, <1>4
  <2> HIDE DEF x
  <2>2. \A i \in 1..Len(b) : x[i] = b[i]
    BY GrowDot DEF x
  <2>3. \A i \in 1..Len(b) : x[i] = d[i]
    BY <1>3, <2>1, GrowDot
  <2>4. b = d
    BY <1>1, <1>3, <2>2, <2>3, SameSeq
  <2> QED
    BY <1>2, <1>4, <2>4
<1>5. CASE c # "."
  <2> DEFINE x == Grow(b, c)
             n == Len(b)
  <2>1. /\ b[n] \in Seq(C) /\ x[n] = Append(b[n], c) /\ \A i \in 1..n : i # n => x[i] = b[i]
    BY <1>5, GrowOther
  <2>2. /\ d[n] \in Seq(C) /\ x[n] = Append(d[n], e) /\ \A i \in 1..n : i # n => x[i] = d[i]
    <3>1. /\ d[Len(d)] \in Seq(C) /\ Grow(d, e)[Len(d)] = Append(d[Len(d)], e)
          /\ \A i \in 1..Len(d) : i # Len(d) => Grow(d, e)[i] = d[i]
      BY <1>2, <1>5, GrowOther
    <3>2. x = Grow(d, e) /\ n = Len(d)
      BY <1>3
    <3> HIDE DEF x, n
    <3> QED
      BY <3>1, <3>2
  <2> HIDE DEF x, n
  <2>3. b[n] = d[n] /\ c = e
    <3> DEFINE l == b[n]
               k == d[n]
    <3>1. l \in Seq(C) /\ k \in Seq(C) /\ Append(l, c) = Append(k, e)
      BY <2>1, <2>2
    <3> HIDE DEF l, k
    <3>2. l = k /\ c = e
      BY SMTT(20), <3>1, AppendInjective
    <3> QED
      BY <3>2 DEF l, k
  <2>4. \A i \in 1..n : b[i] = d[i]
    BY <2>1, <2>2, <2>3
  <2>5. b = d
    BY <1>1, <1>3, <2>4, SameSeq DEF n
  <2> QED
    BY <2>3, <2>5
<1> QED
  BY <1>4, <1>5

\* Growing does not look at the labels before the last.
LEMMA GrowBehind ==
  ASSUME NEW C, NEW a \in Seq(Seq(C)), NEW b \in Labels(C), NEW c \in C
  PROVE  a \o b \in Labels(C) /\ Grow(a \o b, c) = a \o Grow(b, c)
<1> DEFINE W == Seq(C)
           n == Len(b)
           m == Len(a)
<1>1. b \in Seq(W) /\ n >= 1 /\ n \in Nat /\ m \in Nat /\ a \in Seq(W)
  BY SeqIsFunction DEF Labels
<1>2. a \o b \in Seq(W) /\ Len(a \o b) = m + n
  BY <1>1, ConcatLen
<1>3. m + n >= 1
  BY SMTT(20), <1>1
<1>4. a \o b \in Labels(C)
  BY <1>2, <1>3 DEF Labels
<1>5. CASE c = "."
  <2>1. <<>> \in W
    BY SMTT(20)
  <2> HIDE DEF W
  <2>2. Grow(a \o b, ".") = a \o Grow(b, ".")
    BY <1>1, <2>1, DotBehind
  <2> QED
    BY <1>4, <1>5, <2>2
<1>6. CASE c # "."
  <2> DEFINE x == Append(b[n], c)
             g == Grow(a \o b, c)
             h == a \o Grow(b, c)
  <2>1. g = [(a \o b) EXCEPT ![m + n] = Append((a \o b)[m + n], c)] /\ Grow(b, c) = [b EXCEPT ![n] = x]
    BY <1>2, <1>6 DEF Grow
  <2>2. (a \o b)[m + n] = b[n]
    <3> HIDE DEF W
    <3> QED
      BY SMTT(20), <1>1
  <2>3. x \in W
    BY <1>6, GrowOther, AppendIs
  <2> HIDE DEF x, W
  <2>4. [(a \o b) EXCEPT ![m + n] = x] = a \o [b EXCEPT ![n] = x]
    BY SMTT(20), <1>1, <2>3, ReplaceBehind
  <2> QED
    BY <1>4, <2>1, <2>2, <2>4 DEF x
<1> QED
  BY <1>5, <1>6

\* The labels of every beginning of a text.
IsSplit(C, text, f) ==
    /\ f \in [0..Len(text) -> Labels(C)] /\ f[0] = << <<>> >>
    /\ \A n \in 1..Len(text) : f[n] = Grow(f[n - 1], text[n])

\* The recursion of Split has a solution.
LEMMA SplitRuns ==
  ASSUME NEW text, NEW k \in Nat
  PROVE  \E f : f = [n \in 0..k |-> IF n = 0 THEN << <<>> >> ELSE Grow(f[n - 1], text[n])]
<1> DEFINE one == << <<>> >>
<1> HIDE DEF one
<1> DEFINE Solves(m, f) == f = [n \in 0..m |-> IF n = 0 THEN one ELSE Grow(f[n - 1], text[n])]
           T == {m \in Nat : \E f : Solves(m, f)}
<1>1. 0 \in T
  <2> DEFINE f == [n \in 0..0 |-> one]
  <2>1. \A n \in 0..0 : n = 0
    BY SMTT(20)
  <2>2. Solves(0, f)
    BY <2>1
  <2> QED
    BY <2>2
<1>2. ASSUME NEW m \in Nat, m \in T PROVE m + 1 \in T
  <2>1. PICK g : Solves(m, g)
    BY <1>2
  <2> DEFINE f == [n \in 0..(m + 1) |-> IF n = m + 1 THEN Grow(g[m], text[n]) ELSE g[n]]
  <2>2. \A n \in 0..(m + 1) : n # m + 1 => n \in 0..m
    BY SMTT(20)
  <2>3. \A n \in 0..(m + 1) : n # 0 => n - 1 \in 0..m /\ n - 1 \in 0..(m + 1) /\ n - 1 # m + 1
    BY SMTT(20)
  <2>4. m + 1 # 0 /\ (m + 1) - 1 = m
    BY SMTT(20)
  <2>5. ASSUME NEW n \in 0..(m + 1)
        PROVE  f[n] = IF n = 0 THEN one ELSE Grow(f[n - 1], text[n])
    <3>1. n # 0 => f[n - 1] = g[n - 1]
      BY <2>3
    <3>2. CASE n = m + 1
      <4>1. f[n] = Grow(g[m], text[n]) /\ n # 0 /\ f[n - 1] = g[m]
        BY <2>4, <3>1, <3>2
      <4> HIDE DEF f
      <4> QED
        BY <4>1
    <3>3. CASE n # m + 1
      <4>1. f[n] = g[n] /\ n \in 0..m
        BY <2>2, <3>3
      <4>2. g[n] = IF n = 0 THEN one ELSE Grow(g[n - 1], text[n])
        BY <2>1, <4>1
      <4> HIDE DEF f
      <4> QED
        BY <3>1, <4>1, <4>2
    <3> QED
      BY <3>2, <3>3
  <2>6. \E h : Solves(m + 1, h)
    <3>1. DOMAIN f = 0..(m + 1) /\ f = [n \in DOMAIN f |-> f[n]]
      OBVIOUS
    <3> HIDE DEF f
    <3>2. f = [n \in 0..(m + 1) |-> IF n = 0 THEN one ELSE Grow(f[n - 1], text[n])]
      BY <2>5, <3>1
    <3> QED
      BY <3>2
  <2> QED
    BY SMTT(20), <2>6
<1> HIDE DEF T
<1>3. \A n \in 0..k : n \in T
  BY <1>1, <1>2, UpTo
<1>4. k \in 0..k
  BY SMTT(20)
<1> QED
  BY <1>3, <1>4 DEF T, one

\* Split reads a text from left to right.
LEMMA SplitIs ==
  ASSUME NEW C, NEW text \in Seq(C)
  PROVE  \E f : IsSplit(C, text, f) /\ Split(text) = f[Len(text)]
<1> DEFINE k == Len(text)
           f == CHOOSE f : f = [n \in 0..k |-> IF n = 0 THEN << <<>> >> ELSE Grow(f[n - 1], text[n])]
<1>1. k \in Nat /\ \A n \in 1..k : text[n] \in C
  BY SeqIsFunction, SeqElement
<1>2. f = [n \in 0..k |-> IF n = 0 THEN << <<>> >> ELSE Grow(f[n - 1], text[n])]
  BY <1>1, SplitRuns
<1>3. Split(text) = f[k]
  BY DEF Split, Grow
<1>4. << <<>> >> \in Labels(C)
  BY SMTT(20) DEF Labels
<1> HIDE DEF f, k
<1>5. 0 \in 0..k /\ \A n \in 1..k : n \in 0..k /\ n # 0
  BY SMTT(20), <1>1
<1>6. f[0] = << <<>> >> /\ \A n \in 1..k : f[n] = Grow(f[n - 1], text[n])
  BY <1>2, <1>5
<1> DEFINE T == {n \in Nat : f[n] \in Labels(C)}
<1>7. 0 \in T
  BY <1>4, <1>6
<1>8. ASSUME NEW n \in Nat, n < k, n \in T PROVE n + 1 \in T
  <2>1. n + 1 \in 1..k /\ (n + 1) - 1 = n /\ n + 1 \in Nat
    BY SMTT(20), <1>1, <1>8
  <2>2. f[n + 1] = Grow(f[n], text[n + 1])
    BY <1>6, <2>1
  <2>3. f[n + 1] \in Labels(C)
    BY <1>1, <1>8, <2>1, <2>2, GrowLabels
  <2> QED
    BY <2>1, <2>3
<1> HIDE DEF T
<1>9. \A n \in 0..k : n \in T
  BY <1>1, <1>7, <1>8, UpTo
<1>10. f \in [0..k -> Labels(C)]
  BY <1>2, <1>9 DEF T
<1>11. IsSplit(C, text, f)
  BY <1>6, <1>10 DEF IsSplit, k
<1> QED
  BY <1>3, <1>11 DEF k

\* u is what follows the place d of t.
IsRest(t, d, u) == Len(t) = d + Len(u) /\ \A i \in 1..Len(u) : t[d + i] = u[i]

\* t, with the labels f of its beginnings, has a dot at d.
DotAt(C, t, f, d) ==
    /\ t \in Seq(C) /\ IsSplit(C, t, f) /\ Split(t) = f[Len(t)]
    /\ d \in 1..Len(t) /\ t[d] = "."

CutAt(C, t, f, d, u, g) == DotAt(C, t, f, d) /\ u \in Seq(C) /\ IsSplit(C, u, g) /\ IsRest(t, d, u)

IsConcat(x, a, b) == x = a \o b

\* Behind a dot the labels are those of the rest of the text.
LEMMA SplitAfter ==
  ASSUME NEW C, NEW t, NEW u, NEW f, NEW g, NEW d, CutAt(C, t, f, d, u, g)
  PROVE  \A k \in 0..Len(u) : IsConcat(f[d + k], f[d - 1], g[k])
<1> DEFINE n == Len(u)
           a == f[d - 1]
           T == {k \in Nat : f[d + k] = a \o g[k]}
<1>0. /\ Len(t) \in Nat /\ d \in 1..Len(t) /\ t[d] = "." /\ u \in Seq(C)
      /\ f \in [0..Len(t) -> Labels(C)] /\ \A i \in 1..Len(t) : f[i] = Grow(f[i - 1], t[i])
      /\ g \in [0..n -> Labels(C)] /\ \A i \in 1..n : g[i] = Grow(g[i - 1], u[i])
      /\ g[0] = << <<>> >> /\ Len(t) = d + n /\ \A i \in 1..n : t[d + i] = u[i]
  BY SeqIsFunction DEF CutAt, DotAt, IsSplit, IsRest
<1>1. n \in Nat /\ d \in Nat /\ \A k \in 1..n : u[k] \in C
  BY SMTT(20), <1>0, SeqIsFunction, SeqElement
<1>2. a \in Labels(C) /\ a \in Seq(Seq(C))
  <2>1. d - 1 \in 0..Len(t)
    BY SMTT(20), <1>0
  <2> QED
    BY <1>0, <2>1 DEF Labels
<1> HIDE DEF n, a
<1>3. 0 \in T
  <2>1. f[d] = Grow(a, t[d]) /\ d + 0 = d
    <3>1. d + 0 = d
      BY SMTT(20), <1>1
    <3> QED
      BY <1>0, <3>1 DEF a
  <2>2. f[d] = Append(a, <<>>)
    BY <1>0, <2>1 DEF Grow
  <2>3. Append(a, <<>>) = a \o << <<>> >>
    <3> DEFINE W == Seq(C)
               e == <<>>
    <3>1. e \in W /\ a \in Seq(W)
      BY SMTT(20), <1>2
    <3> HIDE DEF W, e
    <3>2. Append(a, e) = a \o <<e>>
      BY SMTT(20), <3>1
    <3> QED
      BY <3>2 DEF e
  <2> QED
    BY <1>0, <2>1, <2>2, <2>3
<1>4. ASSUME NEW k \in Nat, k < n, k \in T PROVE k + 1 \in T
  <2>1. k + 1 \in 1..n /\ (k + 1) - 1 = k /\ k + 1 \in Nat /\ k \in 0..n
    BY SMTT(20), <1>1, <1>4
  <2>2. d + (k + 1) \in 1..Len(t) /\ (d + (k + 1)) - 1 = d + k
    BY SMTT(20), <1>0, <1>1, <2>1
  <2>3. f[d + (k + 1)] = Grow(f[d + k], t[d + (k + 1)])
    BY <1>0, <2>2
  <2>4. g[k + 1] = Grow(g[k], u[k + 1]) /\ g[k] \in Labels(C)
    BY <1>0, <2>1
  <2>5. t[d + (k + 1)] = u[k + 1]
    BY <1>0, <2>1
  <2>6. Grow(a \o g[k], u[k + 1]) = a \o Grow(g[k], u[k + 1])
    <3> DEFINE b == g[k]
               c == u[k + 1]
    <3>1. b \in Labels(C) /\ c \in C
      BY <1>1, <2>1, <2>4
    <3> HIDE DEF b, c
    <3>2. Grow(a \o b, c) = a \o Grow(b, c)
      BY SMTT(20), <1>2, <3>1, GrowBehind
    <3> QED
      BY <3>2 DEF b, c
  <2> QED
    BY <1>4, <2>1, <2>3, <2>4, <2>5, <2>6
<1> HIDE DEF T
<1>5. \A k \in 0..n : k \in T
  BY <1>1, <1>3, <1>4, UpTo
<1> QED
  BY <1>5 DEF T, n, a, IsConcat

\* A text is read off its labels.
LEMMA SplitInjective ==
  ASSUME NEW C, NEW t \in Seq(C), NEW u \in Seq(C), Split(t) = Split(u)
  PROVE  t = u
<1> DEFINE k == Len(t)
           l == Len(u)
<1>1. PICK f : IsSplit(C, t, f) /\ Split(t) = f[k]
  BY SplitIs
<1>2. PICK g : IsSplit(C, u, g) /\ Split(u) = g[l]
  BY SplitIs
<1>3. /\ k \in Nat /\ \A n \in 1..k : t[n] \in C
      /\ l \in Nat /\ \A n \in 1..l : u[n] \in C
  BY SeqIsFunction, SeqElement
<1>4. /\ f[0] = << <<>> >> /\ \A n \in 0..k : f[n] \in Labels(C)
      /\ \A n \in 1..k : f[n] = Grow(f[n - 1], t[n])
      /\ g[0] = << <<>> >> /\ \A n \in 0..l : g[n] \in Labels(C)
      /\ \A n \in 1..l : g[n] = Grow(g[n - 1], u[n])
  BY <1>1, <1>2 DEF IsSplit
<1> HIDE DEF k, l
<1>5. \A n \in 1..k : n - 1 \in 0..k
  BY SMTT(20), <1>3
<1>6. \A n \in 1..l : n - 1 \in 0..l
  BY SMTT(20), <1>3
<1> DEFINE Alike(n, m) == n = m /\ \A i \in 1..n : t[i] = u[i]
           T == {n \in Nat : \A m \in 0..l : f[n] = g[m] => Alike(n, m)}
<1>7. 0 \in T
  <2>1. ASSUME NEW m \in 0..l, f[0] = g[m] PROVE Alike(0, m)
    <3>1. CASE m = 0
      <4>1. 1..0 = {}
        BY SMTT(20)
      <4> QED
        BY <3>1, <4>1
    <3>2. CASE m # 0
      <4>1. m \in 1..l
        BY SMTT(20), <1>3, <3>2
      <4>2. g[m] = Grow(g[m - 1], u[m]) /\ g[m - 1] \in Labels(C) /\ u[m] \in C
        BY <1>3, <1>4, <1>6, <4>1
      <4>3. g[m] # << <<>> >>
        BY <4>2, GrowIsNew
      <4> QED
        BY <1>4, <2>1, <4>3
    <3> QED
      BY <3>1, <3>2
  <2> QED
    BY <2>1
<1>8. ASSUME NEW n \in Nat, n < k, n \in T PROVE n + 1 \in T
  <2>1. n + 1 \in 1..k /\ (n + 1) - 1 = n /\ n + 1 \in Nat /\ n \in 0..k
    BY SMTT(20), <1>3, <1>8
  <2>2. f[n + 1] = Grow(f[n], t[n + 1]) /\ f[n] \in Labels(C) /\ t[n + 1] \in C
    BY <1>3, <1>4, <2>1
  <2>3. ASSUME NEW m \in 0..l, f[n + 1] = g[m] PROVE Alike(n + 1, m)
    <3>1. CASE m = 0
      <4>1. f[n + 1] # << <<>> >>
        BY <2>2, GrowIsNew
      <4> QED
        BY <1>4, <2>3, <3>1, <4>1
    <3>2. CASE m # 0
      <4>1. m \in 1..l /\ m - 1 \in 0..l
        BY SMTT(20), <1>3, <3>2
      <4>2. g[m] = Grow(g[m - 1], u[m]) /\ g[m - 1] \in Labels(C) /\ u[m] \in C
        BY <1>3, <1>4, <4>1
      <4>3. f[n] = g[m - 1] /\ t[n + 1] = u[m]
        <5> DEFINE x == f[n]
                   y == g[m - 1]
                   c == t[n + 1]
                   e == u[m]
        <5>1. x \in Labels(C) /\ y \in Labels(C) /\ c \in C /\ e \in C /\ Grow(x, c) = Grow(y, e)
          BY <2>2, <2>3, <4>2
        <5> HIDE DEF x, y, c, e
        <5>2. x = y /\ c = e
          BY SMTT(20), <5>1, GrowInjective
        <5> QED
          BY <5>2 DEF x, y, c, e
      <4>4. n = m - 1 /\ \A i \in 1..n : t[i] = u[i]
        BY <1>8, <4>1, <4>3
      <4>5. n + 1 = m /\ \A i \in 1..(n + 1) : i = n + 1 \/ i \in 1..n
        BY SMTT(20), <4>1, <4>4
      <4> QED
        BY <4>3, <4>4, <4>5
    <3> QED
      BY <3>1, <3>2
  <2> QED
    BY <2>1, <2>3
<1> HIDE DEF T
<1>9. \A n \in 0..k : n \in T
  BY <1>3, <1>7, <1>8, UpTo
<1>10. k \in 0..k /\ l \in 0..l
  BY SMTT(20), <1>3
<1>11. k = l /\ \A i \in 1..k : t[i] = u[i]
  BY <1>1, <1>2, <1>9, <1>10 DEF T
<1> QED
  BY <1>11, SameSeq DEF k, l

\* The end of a concatenation, and the two parts around a place of a sequence.
LEMMA EndOfConcat ==
  ASSUME NEW X, NEW s \in Seq(X), NEW t \in Seq(X), NEW u, IsConcat(u, s, t)
  PROVE  SubSeq(u, Len(s) + 1, Len(u)) = t /\ Len(u) = Len(s) + Len(t)
  BY SMTT(20) DEF IsConcat

\* What follows a place of a sequence.
LEMMA RestIs ==
  ASSUME NEW X, NEW s \in Seq(X), NEW d \in 1..Len(s)
  PROVE  SubSeq(s, d + 1, Len(s)) \in Seq(X) /\ IsRest(s, d, SubSeq(s, d + 1, Len(s)))
<1> DEFINE q == SubSeq(s, d + 1, Len(s))
<1>1. q \in Seq(X) /\ Len(s) = d + Len(q)
  BY SMTT(20)
<1>2. \A i \in 1..Len(q) : s[d + i] = q[i]
  BY SMTT(20)
<1> QED
  BY <1>1, <1>2 DEF IsRest

\* A text cut at a dot: the labels of the two parts, one after the other.
LEMMA SplitAtDot ==
  ASSUME NEW C, NEW t, NEW f, NEW d, DotAt(C, t, f, d), NEW q, q = SubSeq(t, d + 1, Len(t))
  PROVE  /\ q \in Seq(C) /\ Len(t) = d + Len(q) /\ f[d - 1] \in Labels(C)
         /\ Split(q) \in Labels(C) /\ IsConcat(Split(t), f[d - 1], Split(q))
<1>0. /\ t \in Seq(C) /\ d \in 1..Len(t) /\ Len(t) \in Nat
      /\ f \in [0..Len(t) -> Labels(C)] /\ Split(t) = f[Len(t)]
  BY SeqIsFunction DEF DotAt, IsSplit
<1>1. q \in Seq(C) /\ IsRest(t, d, q)
  BY <1>0, RestIs
<1>2. PICK g : IsSplit(C, q, g) /\ Split(q) = g[Len(q)]
  BY <1>1, SplitIs
<1>3. Len(q) \in Nat /\ Len(t) = d + Len(q)
  BY <1>1, SeqIsFunction DEF IsRest
<1>4. CutAt(C, t, f, d, q, g)
  BY <1>1, <1>2 DEF CutAt
<1>5. \A k \in 0..Len(q) : IsConcat(f[d + k], f[d - 1], g[k])
  BY <1>4, SplitAfter
<1>6. Len(q) \in 0..Len(q) /\ d - 1 \in 0..Len(t)
  BY SMTT(20), <1>0, <1>3
<1>7. f[d - 1] \in Labels(C) /\ g[Len(q)] \in Labels(C)
  BY <1>0, <1>2, <1>6 DEF IsSplit
<1>8. IsConcat(Split(t), f[d - 1], g[Len(q)])
  BY <1>0, <1>3, <1>5, <1>6
<1> QED
  BY <1>1, <1>2, <1>3, <1>7, <1>8

\* Every label but the first begins behind a dot.
LEMMA DotBefore ==
  ASSUME NEW C, NEW t \in Seq(C), NEW f, IsSplit(C, t, f), NEW j \in Nat, j >= 1, j < Len(f[Len(t)])
  PROVE  \E d \in 1..Len(t) : t[d] = "." /\ Len(f[d - 1]) = j
<1> DEFINE k == Len(t)
           N(n) == Len(f[n])
           T == {n \in 0..k : j < N(n)}
<1>1. k \in Nat /\ \A n \in 1..k : t[n] \in C
  BY SeqIsFunction, SeqElement
<1>2. \A n \in 0..k : f[n] \in Labels(C)
  BY DEF IsSplit
<1>3. \A n \in 0..k : N(n) \in Nat
  BY <1>2, SeqIsFunction DEF Labels
<1>4. N(0) = 1
  BY SMTT(20) DEF IsSplit
<1>5. \A n \in 1..k : n - 1 \in 0..k /\ N(n) = IF t[n] = "." THEN N(n - 1) + 1 ELSE N(n - 1)
  <2> SUFFICES ASSUME NEW n \in 1..k
               PROVE  n - 1 \in 0..k /\ N(n) = IF t[n] = "." THEN N(n - 1) + 1 ELSE N(n - 1)
    OBVIOUS
  <2>1. n - 1 \in 0..k
    BY SMTT(20), <1>1
  <2> DEFINE b == f[n - 1]
             c == t[n]
  <2>2. f[n] = Grow(b, c) /\ b \in Labels(C) /\ c \in C
    BY <1>1, <1>2, <2>1 DEF IsSplit
  <2> HIDE DEF b, c
  <2>3. Len(Grow(b, c)) = IF c = "." THEN Len(b) + 1 ELSE Len(b)
    BY <2>2, GrowLabels
  <2> QED
    BY <2>1, <2>2, <2>3 DEF b, c
<1>6. j < N(k)
  OBVIOUS
<1> HIDE DEF k, N
<1>7. 0..k \subseteq Nat /\ k \in 0..k
  BY SMTT(20), <1>1
<1>8. T \subseteq Nat /\ k \in T
  BY <1>6, <1>7
<1>9. PICK d \in T : \A n \in T : d <= n
  BY <1>8, LeastIsMin
<1>10. d \in 1..k
  BY SMTT(20), <1>1, <1>4, <1>9
<1>11. d - 1 \notin T
  BY SMTT(20), <1>1, <1>9, <1>10
<1>12. t[d] = "." /\ N(d - 1) = j
  <2>1. d - 1 \in 0..k /\ N(d) \in Nat /\ N(d - 1) \in Nat
    BY <1>3, <1>5, <1>9, <1>10
  <2>2. j < N(d) /\ ~(j < N(d - 1))
    BY <1>9, <1>11, <2>1
  <2>3. N(d) = IF t[d] = "." THEN N(d - 1) + 1 ELSE N(d - 1)
    BY <1>5, <1>10
  <2>4. t[d] = "."
    BY <2>2, <2>3
  <2>5. N(d) = N(d - 1) + 1
    BY <2>3, <2>4
  <2>6. N(d - 1) = j
    BY SMTT(20), <2>1, <2>2, <2>5
  <2> QED
    BY <2>4, <2>6
<1> QED
  BY <1>10, <1>12 DEF k, N

\* The textual test of a wildcard is the test of its labels.
LEMMA WildcardByLabels ==
  ASSUME NEW C, NEW t \in Seq(C), NEW p \in Seq(C)
  PROVE  (Len(t) > Len(p) /\ ends_with(t, p) /\ t[Len(t) - Len(p)] = ".")
            <=> (Len(Split(t)) > Len(Split(p)) /\ ends_with(Split(t), Split(p)))
<1> DEFINE a == Split(t)
           b == Split(p)
<1>1. PICK f : IsSplit(C, t, f) /\ Split(t) = f[Len(t)]
  BY SplitIs
<1>2. Len(t) \in Nat /\ Len(p) \in Nat
  BY SeqIsFunction
<1>3. a \in Labels(C) /\ b \in Labels(C)
  <2>1. ASSUME NEW s \in Seq(C) PROVE Split(s) \in Labels(C)
    <3>1. PICK g : IsSplit(C, s, g) /\ Split(s) = g[Len(s)]
      BY SplitIs
    <3>2. Len(s) \in 0..Len(s)
      BY SMTT(20), SeqIsFunction
    <3> QED
      BY <3>1, <3>2 DEF IsSplit
  <2> QED
    BY <2>1
<1>4. a \in Seq(Seq(C)) /\ b \in Seq(Seq(C)) /\ Len(a) \in Nat /\ Len(b) \in Nat /\ Len(b) >= 1
  BY <1>3, SeqIsFunction DEF Labels
<1> HIDE DEF a, b
<1>5. ASSUME Len(t) > Len(p), ends_with(t, p), t[Len(t) - Len(p)] = "."
      PROVE  Len(a) > Len(b) /\ ends_with(a, b)
  <2> DEFINE d == Len(t) - Len(p)
  <2>1. d \in 1..Len(t)
    BY SMTT(20), <1>2, <1>5
  <2>2. p = SubSeq(t, d + 1, Len(t))
    BY <1>5 DEF ends_with
  <2>3. f[d - 1] \in Labels(C) /\ IsConcat(a, f[d - 1], b)
    <3>1. t[d] = "."
      BY <1>5
    <3> HIDE DEF d
    <3>0. DotAt(C, t, f, d)
      BY <1>1, <2>1, <3>1 DEF DotAt
    <3>2. f[d - 1] \in Labels(C) /\ IsConcat(Split(t), f[d - 1], Split(p))
      BY <2>2, <3>0, SplitAtDot
    <3> QED
      BY <3>2 DEF a, b
  <2> DEFINE x == f[d - 1]
  <2>4. x \in Seq(Seq(C)) /\ Len(x) >= 1 /\ Len(x) \in Nat
    BY <2>3, SeqIsFunction DEF Labels
  <2> HIDE DEF x
  <2>5. IsConcat(a, x, b)
    BY <2>3 DEF x
  <2>6. Len(a) = Len(x) + Len(b) /\ SubSeq(a, Len(x) + 1, Len(a)) = b
    BY <1>4, <2>4, <2>5, EndOfConcat
  <2>7. Len(a) > Len(b) /\ Len(a) >= Len(b) /\ Len(a) - Len(b) + 1 = Len(x) + 1
    BY SMTT(20), <1>4, <2>4, <2>6
  <2> QED
    BY <2>6, <2>7 DEF ends_with
<1>6. ASSUME Len(a) > Len(b), ends_with(a, b)
      PROVE  Len(t) > Len(p) /\ ends_with(t, p) /\ t[Len(t) - Len(p)] = "."
  <2> DEFINE j == Len(a) - Len(b)
  <2>1. j \in Nat /\ j >= 1 /\ j < Len(a)
    BY SMTT(20), <1>4, <1>6
  <2> HIDE DEF j
  <2>2. PICK d \in 1..Len(t) : t[d] = "." /\ Len(f[d - 1]) = j
    BY SMTT(20), <1>1, <2>1, DotBefore DEF a
  <2> DEFINE q == SubSeq(t, d + 1, Len(t))
             x == f[d - 1]
             y == Split(q)
  <2>3. q \in Seq(C) /\ Len(t) = d + Len(q) /\ x \in Labels(C) /\ y \in Labels(C) /\ IsConcat(a, x, y)
    <3>1. q = SubSeq(t, d + 1, Len(t)) /\ DotAt(C, t, f, d)
      BY <1>1, <2>2 DEF DotAt
    <3> HIDE DEF q
    <3>2. q \in Seq(C) /\ Len(t) = d + Len(q)
      BY SMTT(20), <3>1, SplitAtDot
    <3>3. f[d - 1] \in Labels(C) /\ Split(q) \in Labels(C)
      BY <3>1, SplitAtDot
    <3>4. IsConcat(Split(t), f[d - 1], Split(q))
      BY <3>1, SplitAtDot
    <3> QED
      BY <3>2, <3>3, <3>4 DEF a
  <2>4. Len(x) = j
    BY <2>2
  <2> HIDE DEF x, y
  <2>5. SubSeq(a, Len(x) + 1, Len(a)) = y
    <3>1. x \in Seq(Seq(C)) /\ y \in Seq(Seq(C))
      BY <2>3 DEF Labels
    <3> QED
      BY <2>3, <3>1, EndOfConcat
  <2>6. SubSeq(a, j + 1, Len(a)) = b
    BY <1>6 DEF ends_with, j
  <2>7. Split(q) = Split(p)
    BY <2>4, <2>5, <2>6 DEF y, b
  <2>8. q = p
    <3> HIDE DEF q
    <3> QED
      BY <2>3, <2>7, SplitInjective
  <2>9. Len(t) > Len(p) /\ Len(t) >= Len(p) /\ Len(t) - Len(p) = d /\ Len(t) - Len(p) + 1 = d + 1
    <3>1. Len(t) = d + Len(p)
      BY <2>3, <2>8
    <3> QED
      BY SMTT(20), <1>2, <3>1
  <2> QED
    BY <2>2, <2>8, <2>9 DEF ends_with
<1> QED
  BY <1>5, <1>6 DEF a, b

------------------------------------------------------------------------------
(* Names and the rules of a frozen policy *)

\* HostPattern::matches compares labels.
LEMMA MatchesByLabels ==
  ASSUME NEW p, p.name \in Text, NEW h \in Text
  PROVE  matches(p, h) <=> LabelsMatch(p, h)
<1> DEFINE C == Character
           n == p.name
<1>1. h \in Seq(C) /\ n \in Seq(C)
  BY DEF Text
<1> HIDE DEF C, n
<1>2. (Len(h) > Len(n) /\ ends_with(h, n) /\ h[Len(h) - Len(n)] = ".")
        <=> (Len(Split(h)) > Len(Split(n)) /\ ends_with(Split(h), Split(n)))
  BY <1>1, WildcardByLabels
<1>3. h = n <=> Split(h) = Split(n)
  BY <1>1, SplitInjective
<1>4. CASE p.subdomains
  BY <1>2, <1>4 DEF matches, LabelsMatch, n
<1>5. CASE ~p.subdomains
  BY <1>3, <1>5 DEF matches, LabelsMatch, n
<1> QED
  BY <1>4, <1>5

\* A valid name does not end in a dot.
LEMMA NoFinalDot ==
  ASSUME NEW t \in Text, t # <<>>, t[Len(t)] = ".", NEW labels, labels = Split(t)
  PROVE  \E i \in DOMAIN labels : labels[i] = <<>>
<1> DEFINE C == Character
           k == Len(t)
<1>1. t \in Seq(C)
  BY DEF Text
<1> HIDE DEF C
<1>2. PICK f : IsSplit(C, t, f) /\ Split(t) = f[k]
  BY <1>1, SplitIs
<1>3. k \in Nat /\ k # 0
  BY SMTT(20), <1>1
<1>4. k \in 1..k /\ k - 1 \in 0..k
  BY SMTT(20), <1>3
<1> DEFINE b == f[k - 1]
<1>5. b \in Labels(C) /\ labels = Grow(b, ".")
  BY <1>2, <1>4 DEF IsSplit
<1> HIDE DEF b
<1>6. labels \in Seq(Seq(C)) /\ Len(labels) = Len(b) + 1 /\ labels[Len(b) + 1] = <<>> /\ Len(b) \in Nat
  BY <1>5, GrowDot, GrowLabels, SeqIsFunction DEF Labels
<1>7. Len(labels) \in 1..Len(labels)
  BY SMTT(20), <1>6
<1>8. DOMAIN labels = 1..Len(labels)
  BY <1>6, SeqIsFunction
<1> QED
  BY <1>6, <1>7, <1>8

\* What canonical_hostname returns is the text in lower case and without its
\* final dot, and returning it once more changes nothing.
LEMMA CanonicalName ==
  ASSUME NEW v \in Text, NEW n, n = canonical_hostname(v), n # NoName
  PROVE  /\ v # <<>> /\ n \in Text /\ n = to_ascii_lowercase(strip_dot(v))
         /\ canonical_hostname(n) = n
<1> DEFINE t == strip_dot(v)
<1>1. t \in Text
  BY StripText
<1>2. ValidName(t) /\ n = to_ascii_lowercase(t)
  BY DEF canonical_hostname
<1>3. v # <<>>
  <2> SUFFICES ASSUME v = <<>> PROVE FALSE
    OBVIOUS
  <2>1. t = <<>>
    BY DEF strip_dot
  <2> QED
    BY <1>2, <2>1 DEF ValidName
<1> HIDE DEF t
<1>4. n \in Text /\ to_ascii_lowercase(n) = n
  BY <1>1, <1>2, LowerText
<1>5. ValidName(n)
  BY <1>1, <1>2, <1>4, CaseOnly
<1>6. strip_dot(n) = n
  <2>1. CASE n # <<>> /\ n[Len(n)] = "."
    <3>1. PICK i \in DOMAIN Split(n) : Split(n)[i] = <<>>
      BY <1>4, <2>1, NoFinalDot
    <3>2. ~ValidLabel(Split(n)[i])
      BY <3>1 DEF ValidLabel
    <3> QED
      BY <1>4, <1>5, <3>1, <3>2 DEF ValidName
  <2>2. CASE ~(n # <<>> /\ n[Len(n)] = ".")
    BY <2>2 DEF strip_dot
  <2> QED
    BY <2>1, <2>2
<1>7. canonical_hostname(n) = n
  BY <1>4, <1>5, <1>6 DEF canonical_hostname
<1> QED
  BY <1>2, <1>3, <1>4, <1>7 DEF t

\* strip_dot, on a text that is not empty.
LEMMA StripIs ==
  ASSUME NEW v \in Text, v # <<>>
  PROVE  strip_dot(v) = SubSeq(v, 1, IF v[Len(v)] = "." THEN Len(v) - 1 ELSE Len(v))
<1>1. CASE v[Len(v)] = "."
  BY <1>1 DEF strip_dot
<1>2. CASE v[Len(v)] # "."
  <2>1. ASSUME NEW X, NEW s \in Seq(X) PROVE SubSeq(s, 1, Len(s)) = s
    BY SMTT(20)
  <2>2. SubSeq(v, 1, Len(v)) = v
    BY <2>1 DEF Text
  <2> QED
    BY <1>2, <2>2 DEF strip_dot
<1> QED
  BY <1>1, <1>2

\* Two checks in their order.
LEMMA TwoChecks ==
  ASSUME NEW c1 \in BOOLEAN, NEW c2 \in BOOLEAN, NEW e1, NEW e2
  PROVE  FirstError(<< <<c1, e1>>, <<c2, e2>> >>) = IF c1 THEN e1 ELSE IF c2 THEN e2 ELSE OK
<1> DEFINE checks == << <<c1, e1>>, <<c2, e2>> >>
           failing == {i \in DOMAIN checks : checks[i][1]}
<1>1. DOMAIN checks = {1, 2} /\ checks[1][1] = c1 /\ checks[2][1] = c2 /\ checks[1][2] = e1 /\ checks[2][2] = e2
  BY SMTT(20)
<1>2. FirstError(checks) = IF failing = {} THEN OK ELSE checks[Min(failing)][2]
  BY DEF FirstError
<1> HIDE DEF checks
<1>3. failing = {i \in {1, 2} : checks[i][1]}
  BY <1>1
<1> HIDE DEF failing
<1>4. 1 \in Nat /\ 2 \in Nat /\ ~(2 <= 1) /\ 1 # 2
  BY SMTT(20)
<1>5. failing # {} => Min(failing) \in failing /\ \A y \in failing : Min(failing) <= y
  BY <1>3, <1>4, LeastIsMin
<1>6. CASE c1
  <2>1. 1 \in failing
    BY <1>1, <1>3, <1>6
  <2>2. Min(failing) = 1
    BY <1>3, <1>4, <1>5, <2>1
  <2> QED
    BY <1>1, <1>2, <1>6, <2>1, <2>2 DEF checks
<1>7. CASE ~c1 /\ c2
  <2>1. failing = {2}
    BY <1>1, <1>3, <1>7
  <2>2. Min(failing) = 2
    BY <1>5, <2>1
  <2> QED
    BY <1>1, <1>2, <1>7, <2>1, <2>2 DEF checks
<1>8. CASE ~c1 /\ ~c2
  <2>1. failing = {}
    BY <1>1, <1>3, <1>8
  <2> QED
    BY <1>2, <1>8, <2>1 DEF checks
<1> QED
  BY <1>6, <1>7, <1>8

\* The checks of a name.
LEMMA NameChecks ==
  ASSUME NEW p, NEW h
  PROVE  LET n == canonical_hostname(h)
         IN  /\ name_denial(p, h) = OK => n # NoName /\ allows_hostname(p, n)
             /\ name_denial(p, h) = "host-denied" => n # NoName /\ ~allows_hostname(p, n)
             /\ name_denial(p, h) # "port-denied"
<1> DEFINE n == canonical_hostname(h)
           c1 == n = NoName
           c2 == ~allows_hostname(p, n)
           r == name_denial(p, h)
<1>1. c1 \in BOOLEAN /\ c2 \in BOOLEAN
  BY DEF allows_hostname
<1>2. r = FirstError(<< <<c1, "invalid-hostname">>, <<c2, "host-denied">> >>)
  BY DEF name_denial
<1> HIDE DEF c1, c2, r
<1>3. r = IF c1 THEN "invalid-hostname" ELSE IF c2 THEN "host-denied" ELSE OK
  BY SMTT(20), <1>1, <1>2, TwoChecks
<1>4. (r = OK => ~c1 /\ ~c2) /\ (r = "host-denied" => ~c1 /\ c2) /\ r # "port-denied"
  BY <1>3 DEF OK
<1> QED
  BY <1>4 DEF c1, c2, r

\* A builder's rules are typed.
BuilderOk(b) ==
    /\ {"ports", "hosts", "denied_hosts"} \subseteq DOMAIN b
    /\ b.ports \in Seq(Nat)
    /\ \A p \in b.hosts \cup b.denied_hosts : p.name \in Text

\* The ports of a frozen policy are the ones asked for; its host rules are the
\* builder's.
LEMMA FrozenRules ==
  ASSUME NEW b, BuilderOk(b)
  PROVE  /\ Frozen(b).hosts = b.hosts /\ Frozen(b).denied_hosts = b.denied_hosts
         /\ \A port \in Nat : allows_port(Frozen(b), port) <=> port \in Range(b.ports)
<1> DEFINE s == SortedDistinct(Range(b.ports))
           p == Frozen(b)
<1>1. Range(s) = Range(b.ports) /\ Sorted(s)
  BY SortedPorts DEF BuilderOk, Sorted
<1>2. p.ports = s /\ p.hosts = b.hosts /\ p.denied_hosts = b.denied_hosts
  <2> HIDE DEF s
  <2>1. p = [b EXCEPT !.ports = s]
    BY DEF Frozen, s
  <2>2. "ports" \in DOMAIN b /\ "hosts" \in DOMAIN b /\ "denied_hosts" \in DOMAIN b
    BY DEF BuilderOk
  <2> QED
    BY <2>1, <2>2
<1> HIDE DEF p, s
<1>3. \A port \in Nat : allows_port(p, port) <=> port \in Range(p.ports)
  BY <1>1, <1>2, PortSearch
<1> QED
  BY <1>1, <1>2, <1>3 DEF p

\* A host is allowed when its labels are, and by no denied pattern.
LEMMA HostRules ==
  ASSUME NEW b, BuilderOk(b), NEW h \in Text
  PROVE  allows_hostname(Frozen(b), h) <=>
            /\ \E p \in Frozen(b).hosts : LabelsMatch(p, h)
            /\ ~\E p \in Frozen(b).denied_hosts : LabelsMatch(p, h)
<1> DEFINE q == Frozen(b)
<1>1. \A p \in q.hosts \cup q.denied_hosts : p.name \in Text
  BY FrozenRules DEF BuilderOk
<1> HIDE DEF q
<1>2. \A p \in q.hosts \cup q.denied_hosts : matches(p, h) <=> LabelsMatch(p, h)
  BY <1>1, MatchesByLabels
<1> QED
  BY <1>2 DEF allows_hostname, q

------------------------------------------------------------------------------
(* The inductive invariant: what holds in each phase of a lease *)

Unasked == hostname = NoName /\ answer = <<>> /\ approved = <<>> /\ denial \notin LaterReasons

\* The request passed parse_connect and the port rule.
Passed == parse_connect(request) = OK /\ allows_port(policy, Port(request))

Named ==
    /\ hostname # NoName /\ hostname = canonical_hostname(request.target.host)
    /\ allows_hostname(policy, hostname)

SocketsCleared ==
    \A i \in DOMAIN approved :
        \E a \in IpAddress : approved[i] = Socket(a, Port(request)) /\ Cleared(config, policy, a, Port(request))

Verdict == lookup_denial(config, policy, collect_addresses(config, answer), Port(request))

AnswerApproved ==
    /\ answer \in Seq(IpAddress) /\ Verdict = OK
    /\ approved = distinct_sockets(collect_addresses(config, answer), Port(request))

AnswerRefused == answer \in Seq(IpAddress) /\ Verdict # OK

\* Why a request was denied, where the reason is a rule on names or ports.
DeniedFor ==
    /\ denial = "port-denied" => parse_connect(request) = OK /\ ~allows_port(policy, Port(request))
    /\ denial = "host-denied" =>
          LET name == canonical_hostname(request.target.host)
          IN  name # NoName /\ ~allows_hostname(policy, name)

InPhase ==
    \/ phase \in {"building", "rejected"} /\ Unasked
    \/ phase = "ready" /\ policy = Frozen(builder) /\ Unasked
    \/ /\ phase = "lookup" /\ policy = Frozen(builder) /\ request \in RequestValue
       /\ Passed /\ Named /\ answer = <<>> /\ approved = <<>> /\ denial \notin LaterReasons
    \/ /\ phase = "approved" /\ policy = Frozen(builder) /\ request \in RequestValue
       /\ Passed /\ (hostname # NoName => Named) /\ denial \notin LaterReasons
       /\ SocketsCleared /\ (answer # <<>> => AnswerApproved)
    \/ /\ phase = "denied" /\ policy = Frozen(builder) /\ request \in RequestValue
       /\ (hostname # NoName => Named) /\ approved = <<>>
       /\ DeniedFor /\ (answer # <<>> => AnswerRefused)

DestInv ==
    /\ scenario \in DOMAIN Scenarios /\ config \in ConfigValue /\ BuilderOk(builder)
    /\ InPhase

\* What the scenario gives is typed.
LEMMA GivenTypes ==
  ASSUME scenario \in DOMAIN Scenarios
  PROVE  /\ Given.hosts \subseteq Text /\ Given.ports \subseteq Nat /\ Given.requests \subseteq RequestValue
         /\ Given.answers \subseteq Seq(IpAddress) /\ Given.configs \subseteq ConfigValue
  BY ScenarioAssumption DEF Given, Text

\* A new builder has no rules.
LEMMA NewBuilder == BuilderOk(DefaultPolicy)
<1>1. {"ports", "hosts", "denied_hosts"} \subseteq DOMAIN DefaultPolicy
  BY SMTT(20) DEF DefaultPolicy
<1>2. DefaultPolicy.ports = <<>> /\ DefaultPolicy.hosts = {} /\ DefaultPolicy.denied_hosts = {}
  BY SMTT(20) DEF DefaultPolicy
<1>3. <<>> \in Seq(Nat)
  BY SMTT(20)
<1> QED
  BY <1>1, <1>2, <1>3 DEF BuilderOk

\* Before the first call of the builder nothing is decided.
LEMMA DestInit == Init => DestInv
<1> SUFFICES ASSUME Init PROVE DestInv
  OBVIOUS
<1>1. config \in ConfigValue
  BY GivenTypes DEF Init
<1>2. BuilderOk(builder)
  BY NewBuilder DEF Init
<1>3. denial \notin LaterReasons
  BY DEF Init, OK, LaterReasons
<1> QED
  BY <1>1, <1>2, <1>3 DEF Init, DestInv, InPhase, Unasked

\* A builder call changes the builder only.
LEMMA CalledKeeps ==
  ASSUME DestInv, NEW b, Called(b), BuilderOk(b)
  PROVE  DestInv'
<1>1. InPhase'
  <2>1. phase = "building" /\ phase' = "building" /\ Unasked
    BY DEF DestInv, InPhase, Called
  <2>2. Unasked'
    BY <2>1 DEF Called, Unasked
  <2> QED
    BY <2>1, <2>2 DEF InPhase
<1>2. scenario' = scenario /\ config' = config /\ builder' = b
  BY DEF Called
<1> QED
  BY <1>1, <1>2 DEF DestInv

\* A builder call that fails leaves the rules as they were.
LEMMA FailedCallKeeps ==
  ASSUME DestInv, NEW error, CallFails(error), error \notin LaterReasons
  PROVE  DestInv'
<1>1. InPhase'
  <2>1. phase = "building" /\ phase' = "rejected" /\ Unasked
    BY DEF DestInv, InPhase, CallFails
  <2>2. Unasked'
    BY <2>1 DEF CallFails, Unasked
  <2> QED
    BY <2>1, <2>2 DEF InPhase
<1>2. scenario' = scenario /\ config' = config /\ builder' = builder
  BY DEF CallFails
<1> QED
  BY <1>1, <1>2 DEF DestInv

\* The name of a pattern is a text.
LEMMA PatternName ==
  ASSUME NEW t \in Text
  PROVE  HostPattern_parse(t).name \in Text
<1>1. ASSUME NEW v \in Text PROVE canonical_hostname(v) \in Text
  <2>1. CASE canonical_hostname(v) = NoName
    <3>1. <<>> \in Text
      BY SMTT(20) DEF Text
    <3> QED
      BY <2>1, <3>1 DEF NoName
  <2>2. CASE canonical_hostname(v) # NoName
    BY <2>2, CanonicalName
  <2> QED
    BY <2>1, <2>2
<1> DEFINE w == Len(t) >= 2 /\ SubSeq(t, 1, 2) = <<"*", ".">>
           v == IF w THEN SubSeq(t, 3, Len(t)) ELSE t
<1>2. v \in Text
  <2>1. ASSUME NEW X, NEW s \in Seq(X) PROVE SubSeq(s, 3, Len(s)) \in Seq(X)
    BY SMTT(20)
  <2>2. SubSeq(t, 3, Len(t)) \in Text
    BY <2>1 DEF Text
  <2> QED
    BY <2>2
<1>3. HostPattern_parse(t).name = canonical_hostname(v)
  BY DEF HostPattern_parse
<1> HIDE DEF v
<1> QED
  BY <1>1, <1>2, <1>3

\* A call that sets another field keeps the rules.
LEMMA OtherField ==
  ASSUME NEW b, BuilderOk(b), NEW f, f \notin {"ports", "hosts", "denied_hosts"}, NEW v
  PROVE  BuilderOk([b EXCEPT ![f] = v])
<1> DEFINE c == [b EXCEPT ![f] = v]
<1>1. DOMAIN c = DOMAIN b /\ c.ports = b.ports /\ c.hosts = b.hosts /\ c.denied_hosts = b.denied_hosts
  BY DEF BuilderOk
<1> HIDE DEF c
<1>2. BuilderOk(c)
  BY <1>1 DEF BuilderOk
<1> QED
  BY <1>2 DEF c

\* The rule calls.
LEMMA RuleField ==
  ASSUME NEW b, BuilderOk(b)
  PROVE  /\ \A port \in Nat : BuilderOk([b EXCEPT !.ports = Append(@, port)])
         /\ \A p : p.name \in Text => /\ BuilderOk([b EXCEPT !.hosts = @ \cup {p}])
                                      /\ BuilderOk([b EXCEPT !.denied_hosts = @ \cup {p}])
<1>1. ASSUME NEW port \in Nat PROVE BuilderOk([b EXCEPT !.ports = Append(@, port)])
  <2> DEFINE x == Append(b.ports, port)
             c == [b EXCEPT !.ports = x]
  <2>1. x \in Seq(Nat)
    BY AppendIs DEF BuilderOk
  <2> HIDE DEF x
  <2>2. DOMAIN c = DOMAIN b /\ c.ports = x /\ c.hosts = b.hosts /\ c.denied_hosts = b.denied_hosts
    BY DEF BuilderOk
  <2> HIDE DEF c
  <2>3. BuilderOk(c)
    BY <2>1, <2>2 DEF BuilderOk
  <2> QED
    BY <2>3 DEF c, x
<1>2. ASSUME NEW p, p.name \in Text PROVE BuilderOk([b EXCEPT !.hosts = @ \cup {p}])
  <2> DEFINE c == [b EXCEPT !.hosts = @ \cup {p}]
  <2>1. DOMAIN c = DOMAIN b /\ c.hosts = b.hosts \cup {p} /\ c.ports = b.ports /\ c.denied_hosts = b.denied_hosts
    BY DEF BuilderOk
  <2> HIDE DEF c
  <2>2. BuilderOk(c)
    BY <1>2, <2>1 DEF BuilderOk
  <2> QED
    BY <2>2 DEF c
<1>3. ASSUME NEW p, p.name \in Text PROVE BuilderOk([b EXCEPT !.denied_hosts = @ \cup {p}])
  <2> DEFINE c == [b EXCEPT !.denied_hosts = @ \cup {p}]
  <2>1. DOMAIN c = DOMAIN b /\ c.hosts = b.hosts /\ c.ports = b.ports /\ c.denied_hosts = b.denied_hosts \cup {p}
    BY DEF BuilderOk
  <2> HIDE DEF c
  <2>2. BuilderOk(c)
    BY <1>3, <2>1 DEF BuilderOk
  <2> QED
    BY <2>2 DEF c
<1> QED
  BY <1>1, <1>2, <1>3

BuilderCall ==
    \/ \E t \in Given.hosts : allow_host(t) \/ deny_host(t)
    \/ \E p \in Given.ports : allow_port(p)
    \/ \E n \in Given.networks : allow_network(n) \/ deny_network(n)
    \/ \E n \in Given.limits : \/ max_connections(n) \/ connection_attempt_rate(n, 1)
                               \/ max_tunnel_upload_bytes(n) \/ max_tunnel_download_bytes(n)
    \/ \E t \in Given.timeouts : dns_timeout(t) \/ handshake_timeout(t) \/ idle_timeout(t)
    \/ \E a \in Given.authorities : tls_authority(a)

\* Every builder call keeps the invariant.
LEMMA BuilderCalls ==
  ASSUME DestInv, BuilderCall
  PROVE  DestInv'
<1>1. BuilderOk(builder) /\ Given.hosts \subseteq Text /\ Given.ports \subseteq Nat
  BY GivenTypes DEF DestInv
<1>2. ASSUME NEW f, f \notin {"ports", "hosts", "denied_hosts"}, NEW v, Called([builder EXCEPT ![f] = v])
      PROVE  DestInv'
  BY <1>1, <1>2, OtherField, CalledKeeps
<1>3. ASSUME NEW t \in Given.hosts, allow_host(t) PROVE DestInv'
  <2> DEFINE p == HostPattern_parse(t)
  <2>1. p.name \in Text
    BY <1>1, PatternName
  <2>2. CallFails("InvalidHostPattern") \/ Called([builder EXCEPT !.hosts = @ \cup {p}])
    BY <1>3 DEF allow_host
  <2> HIDE DEF p
  <2>3. BuilderOk([builder EXCEPT !.hosts = @ \cup {p}])
    BY <1>1, <2>1, RuleField
  <2>4. "InvalidHostPattern" \notin LaterReasons
    BY DEF LaterReasons
  <2> QED
    BY <2>2, <2>3, <2>4, CalledKeeps, FailedCallKeeps
<1>4. ASSUME NEW t \in Given.hosts, deny_host(t) PROVE DestInv'
  <2> DEFINE p == HostPattern_parse(t)
  <2>1. p.name \in Text
    BY <1>1, PatternName
  <2>2. CallFails("InvalidHostPattern") \/ Called([builder EXCEPT !.denied_hosts = @ \cup {p}])
    BY <1>4 DEF deny_host
  <2> HIDE DEF p
  <2>3. BuilderOk([builder EXCEPT !.denied_hosts = @ \cup {p}])
    BY <1>1, <2>1, RuleField
  <2>4. "InvalidHostPattern" \notin LaterReasons
    BY DEF LaterReasons
  <2> QED
    BY <2>2, <2>3, <2>4, CalledKeeps, FailedCallKeeps
<1>5. ASSUME NEW p \in Given.ports, allow_port(p) PROVE DestInv'
  <2>1. BuilderOk([builder EXCEPT !.ports = Append(@, p)])
    BY <1>1, RuleField
  <2> QED
    BY <1>5, <2>1, CalledKeeps DEF allow_port
<1>6. ASSUME NEW n, allow_network(n) PROVE DestInv'
  BY <1>2, <1>6 DEF allow_network
<1>7. ASSUME NEW n, deny_network(n) PROVE DestInv'
  BY <1>2, <1>7 DEF deny_network
<1>8. ASSUME NEW n, max_connections(n) PROVE DestInv'
  <2>1. \/ CallFails("ZeroConnectionLimit") \/ CallFails("ConnectionLimitTooLarge")
        \/ Called([builder EXCEPT !.max_connections = n])
    BY <1>8 DEF max_connections
  <2>2. "ZeroConnectionLimit" \notin LaterReasons /\ "ConnectionLimitTooLarge" \notin LaterReasons
    BY DEF LaterReasons
  <2> QED
    BY <1>2, <2>1, <2>2, FailedCallKeeps
<1>9. ASSUME NEW n, connection_attempt_rate(n, 1) PROVE DestInv'
  <2>1. \/ CallFails("ZeroConnectionAttemptRate")
        \/ Called([builder EXCEPT !.connection_attempt_rate = {<<n, 1>>}])
    BY <1>9 DEF connection_attempt_rate
  <2>2. "ZeroConnectionAttemptRate" \notin LaterReasons
    BY DEF LaterReasons
  <2> QED
    BY <1>2, <2>1, <2>2, FailedCallKeeps
<1>10. ASSUME NEW n, max_tunnel_upload_bytes(n) PROVE DestInv'
  BY <1>2, <1>10 DEF max_tunnel_upload_bytes
<1>11. ASSUME NEW n, max_tunnel_download_bytes(n) PROVE DestInv'
  BY <1>2, <1>11 DEF max_tunnel_download_bytes
<1>12. ASSUME NEW t, dns_timeout(t) PROVE DestInv'
  BY <1>2, <1>12 DEF dns_timeout
<1>13. ASSUME NEW t, handshake_timeout(t) PROVE DestInv'
  BY <1>2, <1>13 DEF handshake_timeout
<1>14. ASSUME NEW t, idle_timeout(t) PROVE DestInv'
  BY <1>2, <1>14 DEF idle_timeout
<1>15. ASSUME NEW a, tls_authority(a) PROVE DestInv'
  BY <1>2, <1>15 DEF tls_authority
<1> QED
  BY <1>3, <1>4, <1>5, <1>6, <1>7, <1>8, <1>9, <1>10, <1>11, <1>12, <1>13, <1>14, <1>15 DEF BuilderCall

\* No error of build is a denial.
LEMMA BuildErrors == ASSUME NEW b PROVE build_error(b) \notin LaterReasons
<1> DEFINE checks == << <<0 \in Range(b.ports), "InvalidPort">>,
                        <<0 \in {b.dns_timeout, b.handshake_timeout} \cup b.idle_timeout, "ZeroTimeout">>,
                        <<b.dns_timeout > b.handshake_timeout, "DnsTimeoutExceedsHandshake">>,
                        <<b.handshake_timeout > MaxTimeout, "TimeoutTooLarge">>,
                        <<\E t \in b.idle_timeout : t > MaxTimeout, "TimeoutTooLarge">> >>
<1>1. build_error(b) = FirstError(checks)
  BY DEF build_error
<1>2. DOMAIN checks = 1..5 /\ 5 \in Nat
  BY SMTT(20)
<1>3. \A i \in 1..5 : checks[i][2] \in {"InvalidPort", "ZeroTimeout", "DnsTimeoutExceedsHandshake", "TimeoutTooLarge"}
  BY SMTT(20)
<1> HIDE DEF checks
<1>4. \/ FirstError(checks) = OK /\ \A i \in 1..5 : ~checks[i][1]
      \/ \E i \in 1..5 : checks[i][1] /\ FirstError(checks) = checks[i][2]
  BY <1>2, FirstErrorIs
<1>5. FirstError(checks) \in {OK, "InvalidPort", "ZeroTimeout", "DnsTimeoutExceedsHandshake", "TimeoutTooLarge"}
  BY <1>3, <1>4
<1> QED
  BY <1>1, <1>5 DEF OK, LaterReasons

\* build freezes the rules of the builder or rejects them.
LEMMA BuildKeeps ==
  ASSUME DestInv, build
  PROVE  DestInv'
<1>1. phase = "building" /\ Unasked
  BY DEF DestInv, InPhase, build
<1>2. scenario' = scenario /\ config' = config /\ builder' = builder
  BY DEF build
<1>3. InPhase'
  <2>1. CASE build_error(builder) = OK
    <3>1. phase' = "ready" /\ policy' = Frozen(builder) /\ Unasked'
      BY <1>1, <2>1 DEF build, Unasked
    <3> QED
      BY <1>2, <3>1 DEF InPhase
  <2>2. CASE build_error(builder) # OK
    <3>1. phase' = "rejected" /\ Unasked'
      BY <1>1, <2>2, BuildErrors DEF build, Unasked
    <3> QED
      BY <3>1 DEF InPhase
  <2> QED
    BY <2>1, <2>2
<1> QED
  BY <1>2, <1>3 DEF DestInv

\* A caller who starts again starts with a new builder.
LEMMA RetryKeeps ==
  ASSUME DestInv, Retry
  PROVE  DestInv'
<1>1. Unasked /\ phase' = "building"
  BY DEF DestInv, InPhase, Retry
<1>2. Unasked'
  BY <1>1 DEF Unasked, Retry, OK, LaterReasons
<1>3. scenario' = scenario /\ config' = config /\ BuilderOk(builder')
  BY NewBuilder DEF Retry
<1> QED
  BY <1>1, <1>2, <1>3 DEF DestInv, InPhase

\* The next connection starts with the same policy and nothing decided.
LEMMA NextConnectionKeeps ==
  ASSUME DestInv, NextConnection
  PROVE  DestInv'
<1>1. policy = Frozen(builder)
  BY DEF DestInv, InPhase, NextConnection
<1>2. Unasked' /\ phase' = "ready"
  BY DEF Unasked, NextConnection, OK, LaterReasons
<1>3. scenario' = scenario /\ config' = config /\ builder' = builder /\ policy' = policy
  BY DEF NextConnection
<1> QED
  BY <1>1, <1>2, <1>3 DEF DestInv, InPhase

\* A request that is denied before any answer.
LEMMA ConnectDenied ==
  ASSUME DestInv, NEW r \in RequestValue, phase = "ready", request' = r, NEW reason, Deny(reason),
         UNCHANGED <<scenario, config, builder, calls, policy, answer>>,
         reason = "port-denied" => parse_connect(r) = OK /\ ~allows_port(policy, Port(r)),
         reason = "host-denied" => LET name == canonical_hostname(r.target.host)
                                   IN  name # NoName /\ ~allows_hostname(policy, name)
  PROVE  DestInv'
<1>1. policy = Frozen(builder) /\ Unasked
  BY DEF DestInv, InPhase
<1>2. /\ phase' = "denied" /\ denial' = reason /\ hostname' = NoName /\ approved' = <<>> /\ answer' = <<>>
      /\ scenario' = scenario /\ config' = config /\ builder' = builder /\ policy' = policy
  BY <1>1 DEF Deny, Unasked
<1>3. DeniedFor'
  BY <1>2 DEF DeniedFor
<1>4. InPhase'
  BY <1>1, <1>2, <1>3 DEF InPhase
<1> QED
  BY <1>2, <1>4 DEF DestInv

\* serve_connect decides on the request: a denial, a literal destination or a name to look up.
LEMMA ConnectKeeps ==
  ASSUME DestInv, NEW r \in RequestValue, Connect(r)
  PROVE  DestInv'
<1> DEFINE h       == r.target.host
           ip      == parse_ip(h)
           literal == literal_denial(config, policy, ip, Port(r))
           name    == name_denial(policy, h)
<1>1. policy = Frozen(builder) /\ Unasked /\ phase = "ready" /\ request' = r
  BY DEF DestInv, InPhase, Connect
<1>2. UNCHANGED <<scenario, config, builder, calls, policy, answer>>
  BY DEF Connect
<1>3. h \in Text
  <2>1. r.target \in AuthorityValue
    BY SMTT(20) DEF RequestValue
  <2>2. ASSUME NEW a \in AuthorityValue PROVE a.host \in Text
    BY SMTT(20) DEF AuthorityValue, Text
  <2> QED
    BY <2>1, <2>2
<1>4. CASE parse_connect(r) # OK /\ Deny(parse_connect(r))
  <2>1. parse_connect(r) # "port-denied" /\ parse_connect(r) # "host-denied"
    BY RequestPasses DEF LaterReasons
  <2> QED
    BY <1>1, <1>2, <1>4, <2>1, ConnectDenied
<1>5. CASE parse_connect(r) = OK /\ ~allows_port(policy, Port(r)) /\ Deny("port-denied")
  <2>1. "port-denied" # "host-denied"
    OBVIOUS
  <2> QED
    BY <1>1, <1>2, <1>5, <2>1, ConnectDenied
<1>6. CASE parse_connect(r) = OK /\ allows_port(policy, Port(r)) /\ ip # NoIp /\ literal # OK /\ Deny(literal)
  <2>1. literal # "port-denied" /\ literal # "host-denied"
    BY DenialIs
  <2> HIDE DEF literal
  <2> QED
    BY <1>1, <1>2, <1>6, <2>1, ConnectDenied
<1>7. CASE /\ parse_connect(r) = OK /\ allows_port(policy, Port(r)) /\ ip # NoIp /\ literal = OK
           /\ phase' = "approved" /\ approved' = <<Socket(ip, Port(r))>> /\ UNCHANGED <<hostname, denial>>
  <2>1. ip \in IpAddress
    BY <1>3, <1>7, ParseIp
  <2>2. Cleared(config, policy, ip, Port(r))
    BY <1>7, DenialIs
  <2>3. \A i \in DOMAIN approved' : approved'[i] = Socket(ip, Port(r))
    BY SMTT(20), <1>7
  <2> HIDE DEF ip
  <2>4. SocketsCleared'
    BY <1>1, <1>2, <2>1, <2>2, <2>3 DEF SocketsCleared
  <2>5. Passed' /\ hostname' = NoName /\ answer' = <<>> /\ (denial \notin LaterReasons)'
    BY <1>1, <1>2, <1>7 DEF Passed, Unasked
  <2>6. policy' = Frozen(builder') /\ phase' = "approved" /\ request' \in RequestValue
    BY <1>1, <1>2, <1>7
  <2>7. InPhase'
    BY <2>4, <2>5, <2>6 DEF InPhase
  <2> QED
    BY <1>2, <2>7 DEF DestInv
<1>8. CASE /\ parse_connect(r) = OK /\ allows_port(policy, Port(r)) /\ ip = NoIp /\ name # OK /\ Deny(name)
  <2>1. name # "port-denied" /\ (name = "host-denied" => /\ canonical_hostname(h) # NoName
                                                         /\ ~allows_hostname(policy, canonical_hostname(h)))
    BY NameChecks
  <2> HIDE DEF name
  <2> QED
    BY <1>1, <1>2, <1>8, <2>1, ConnectDenied
<1>9. CASE /\ parse_connect(r) = OK /\ allows_port(policy, Port(r)) /\ ip = NoIp /\ name = OK
           /\ phase' = "lookup" /\ hostname' = canonical_hostname(h) /\ UNCHANGED <<approved, denial>>
  <2>1. canonical_hostname(h) # NoName /\ allows_hostname(policy, canonical_hostname(h))
    BY <1>9, NameChecks
  <2>2. Passed' /\ Named' /\ approved' = <<>> /\ answer' = <<>> /\ (denial \notin LaterReasons)'
    BY <1>1, <1>2, <1>9, <2>1 DEF Passed, Named, Unasked
  <2>3. policy' = Frozen(builder') /\ phase' = "lookup" /\ request' \in RequestValue
    BY <1>1, <1>2, <1>9
  <2>4. InPhase'
    BY <2>2, <2>3 DEF InPhase
  <2> QED
    BY <1>2, <2>4 DEF DestInv
<1> QED
  BY <1>4, <1>5, <1>6, <1>7, <1>8, <1>9 DEF Connect

\* A lookup that fails denies the request.
LEMMA LookupFailsKeeps ==
  ASSUME DestInv, LookupFails
  PROVE  DestInv'
<1>1. PICK reason \in {"dns-failed", "dns-timeout", "dns-capacity"} : Deny(reason)
  BY DEF LookupFails
<1>2. /\ policy = Frozen(builder) /\ request \in RequestValue /\ Named /\ answer = <<>> /\ approved = <<>>
  BY DEF DestInv, InPhase, LookupFails
<1>3. UNCHANGED <<scenario, config, builder, policy, request, answer, hostname, approved>> /\ phase' = "denied" /\ denial' = reason
  BY <1>1 DEF LookupFails, Deny
<1>4. DeniedFor' /\ Named'
  BY <1>1, <1>2, <1>3 DEF DeniedFor, Named
<1>5. InPhase'
  BY <1>2, <1>3, <1>4 DEF InPhase
<1> QED
  BY <1>3, <1>5 DEF DestInv

\* The sockets of an approved answer are cleared.
LEMMA AnswerCleared ==
  ASSUME NEW c \in ConfigValue, NEW p, NEW port, NEW a \in Seq(IpAddress),
         lookup_denial(c, p, collect_addresses(c, a), port) = OK,
         NEW i \in DOMAIN distinct_sockets(collect_addresses(c, a), port)
  PROVE  \E x \in IpAddress : /\ distinct_sockets(collect_addresses(c, a), port)[i] = Socket(x, port)
                              /\ Cleared(c, p, x, port)
<1> DEFINE all == OfFamily(c.dns_address_family, a)
           s == distinct_sockets(collect_addresses(c, a), port)
<1>0. AllPass(c, p, a, port) /\ SocketsOf(c, a, port, s)
  BY AnswerIsWhole
<1>1. /\ \A k \in DOMAIN all : resolved_denial(c, p, all[k], port) = OK
      /\ all \in Seq(IpAddress) /\ Range(s) = {Socket(all[k], port) : k \in DOMAIN all}
  BY <1>0 DEF AllPass, SocketsOf
<1> HIDE DEF all, s
<1>2. s[i] \in Range(s)
  BY DEF Range, s
<1>3. PICK k \in DOMAIN all : s[i] = Socket(all[k], port)
  BY <1>1, <1>2
<1>4. all[k] \in IpAddress
  BY <1>1, <1>3, SeqIsFunction, SeqElement
<1>5. Cleared(c, p, all[k], port)
  BY <1>1, DenialIs
<1> QED
  BY <1>3, <1>4, <1>5 DEF s

\* resolve_and_approve decides on the whole answer.
LEMMA AnswerKeeps ==
  ASSUME DestInv, NEW a \in Seq(IpAddress), Answer(a)
  PROVE  DestInv'
<1> DEFINE kept   == collect_addresses(config, a)
           reason == lookup_denial(config, policy, kept, Port(request))
<1>1. /\ policy = Frozen(builder) /\ request \in RequestValue /\ Passed /\ Named /\ approved = <<>>
      /\ denial \notin LaterReasons /\ config \in ConfigValue
  BY DEF DestInv, InPhase, Answer
<1>2. UNCHANGED <<scenario, config, builder, policy, request>> /\ answer' = a
  BY DEF Answer
<1>3. reason \notin LaterReasons
  BY <1>1, AnswerIsWhole
<1>4. Verdict' = reason
  BY <1>2 DEF Verdict
<1>5. CASE reason # OK /\ Deny(reason)
  <2>1. phase' = "denied" /\ denial' = reason /\ UNCHANGED <<hostname, approved>>
    BY <1>5 DEF Deny
  <2>2. DeniedFor'
    BY <1>3, <2>1 DEF DeniedFor, LaterReasons
  <2>3. Named'
    BY <1>1, <1>2, <2>1 DEF Named
  <2>4. AnswerRefused'
    BY <1>2, <1>4, <1>5 DEF AnswerRefused
  <2>5. InPhase'
    BY <1>1, <1>2, <2>1, <2>2, <2>3, <2>4 DEF InPhase
  <2> QED
    BY <1>2, <2>5 DEF DestInv
<1>6. CASE reason = OK /\ phase' = "approved" /\ approved' = distinct_sockets(kept, Port(request)) /\ UNCHANGED <<hostname, denial>>
  <2>1. Named' /\ Passed' /\ (denial \notin LaterReasons)'
    BY <1>1, <1>2, <1>6 DEF Named, Passed
  <2>2. AnswerApproved'
    BY <1>2, <1>4, <1>6 DEF AnswerApproved
  <2>3. SocketsCleared'
    BY <1>1, <1>2, <1>6, AnswerCleared DEF SocketsCleared
  <2>4. InPhase'
    BY <1>1, <1>2, <1>6, <2>1, <2>2, <2>3 DEF InPhase
  <2> QED
    BY <1>2, <2>4 DEF DestInv
<1> QED
  BY <1>5, <1>6 DEF Answer

\* The invariant is inductive.
LEMMA DestStep == DestInv /\ [Next]_vars => DestInv'
<1> SUFFICES ASSUME DestInv, [Next]_vars PROVE DestInv'
  OBVIOUS
<1>1. Given.requests \subseteq RequestValue /\ Given.answers \subseteq Seq(IpAddress)
  BY GivenTypes DEF DestInv
<1>2. CASE UNCHANGED vars
  BY <1>2 DEF vars, DestInv, InPhase, Unasked, Passed, Named, SocketsCleared, AnswerApproved, AnswerRefused,
              Verdict, DeniedFor
<1>3. CASE build
  BY <1>3, BuildKeeps
<1>4. CASE Retry
  BY <1>4, RetryKeeps
<1>5. CASE \E r \in Given.requests : Connect(r)
  BY <1>1, <1>5, ConnectKeeps
<1>6. CASE \E a \in Given.answers : Answer(a)
  BY <1>1, <1>6, AnswerKeeps
<1>7. CASE LookupFails
  BY <1>7, LookupFailsKeeps
<1>8. CASE NextConnection
  BY <1>8, NextConnectionKeeps
<1>9. CASE BuilderCall
  BY <1>9, BuilderCalls
<1> QED
  BY <1>2, <1>3, <1>4, <1>5, <1>6, <1>7, <1>8, <1>9 DEF Next, BuilderCall

\* The phases of a request, kept by every step: what was checked is what the later
\* phases rely on (serve_connect, resolve_and_approve).
THEOREM DestAlways == Spec => []DestInv
  BY DestInit, DestStep, PTL DEF Spec

------------------------------------------------------------------------------
(* What the invariant says of the addresses, the rules and the headers *)

\* The destinations that are followed.
LEMMA Destinations ==
  /\ \A v \in Destinations4 : v \in V4 /\ Followed(v)
  /\ \A v \in Internal4 : v \in Destinations4 /\ forbidden_v4(v)
  BY DestinationAssumption DEF V4, Followed

\* An approved destination is the socket of an address that the rules cleared.
LEMMA ApprovedCleared ==
  ASSUME DestInv, NEW i \in DOMAIN approved
  PROVE  /\ config \in ConfigValue /\ phase = "approved"
         /\ \E a \in IpAddress : /\ approved[i] = Socket(a, Port(request))
                                 /\ Cleared(config, policy, a, Port(request))
<1>1. DOMAIN <<>> = {}
  BY SMTT(20)
<1>2. approved # <<>>
  BY <1>1
<1>3. phase = "approved" /\ SocketsCleared
  BY <1>2 DEF DestInv, InPhase, Unasked
<1> QED
  BY <1>3 DEF DestInv, SocketsCleared

\* A denied IPv4 network is dialled in no form, whatever the lease was granted
\* (address_matches_networks before allows_ip).
THEOREM DenialCoversFormsHolds == Spec => []DenialCoversForms
<1>1. DestInv => DenialCoversForms
  <2> SUFFICES ASSUME DestInv, NEW i \in DOMAIN approved, NEW v \in Destinations4,
                      NEW n \in config.denied_networks \cup policy.denied_networks, NetContains(n, v)
               PROVE  approved[i].ip \notin Forms(config.nat64_prefixes, v)
    BY DEF DenialCoversForms
  <2>1. config \in ConfigValue
    BY DEF DestInv
  <2>2. PICK a \in IpAddress : approved[i] = Socket(a, Port(request)) /\ Cleared(config, policy, a, Port(request))
    BY ApprovedCleared
  <2>3. approved[i].ip = canonical(a)
    BY SMTT(20), <2>2 DEF Socket
  <2>4. v \in V4 /\ Followed(v)
    BY Destinations
  <2>5. canonical(a) \notin Forms(config.nat64_prefixes, v)
    BY <2>1, <2>2, <2>4, DeniedInAnyForm
  <2> QED
    BY <2>3, <2>5
<1> QED
  BY <1>1, DestAlways, PTL

\* An internal IPv4 destination is dialled, in any form, only through a granted
\* network (is_forbidden_destination behind allows_ip).
THEOREM FloorUnlessGrantedHolds == Spec => []FloorUnlessGranted
<1>1. DestInv => FloorUnlessGranted
  <2> SUFFICES ASSUME DestInv, NEW i \in DOMAIN approved, NEW v \in Internal4,
                      approved[i].ip \in Forms(config.nat64_prefixes, v)
               PROVE  \E n \in policy.allowed_networks, a \in {approved[i].ip, MappedPrefix \o approved[i].ip} :
                         NetContains(n, a)
    BY DEF FloorUnlessGranted
  <2>1. config \in ConfigValue
    BY DEF DestInv
  <2>2. PICK a \in IpAddress : approved[i] = Socket(a, Port(request)) /\ Cleared(config, policy, a, Port(request))
    BY ApprovedCleared
  <2>3. approved[i].ip = canonical(a)
    BY SMTT(20), <2>2 DEF Socket
  <2>4. v \in V4 /\ Followed(v) /\ forbidden_v4(v)
    BY Destinations
  <2>5. \E n \in policy.allowed_networks, b \in {canonical(a), MappedPrefix \o canonical(a)} : NetContains(n, b)
    BY <2>1, <2>2, <2>3, <2>4, FloorInAnyForm
  <2> QED
    BY <2>3, <2>5
<1> QED
  BY <1>1, DestAlways, PTL

\* No request is dialled back into the proxy's listener (is_proxy_endpoint).
THEOREM NeverItselfHolds == Spec => []NeverItself
<1>1. DestInv => NeverItself
  <2> SUFFICES ASSUME DestInv, NEW i \in DOMAIN approved, approved[i].port = config.bind_address.port
               PROVE  /\ config.bind_address.ip \notin {Zeros(4), Zeros(16), MappedPrefix \o Zeros(4)}
                      /\ config.bind_address.ip \notin {approved[i].ip, MappedPrefix \o approved[i].ip}
    BY DEF NeverItself
  <2>1. config \in ConfigValue
    BY DEF DestInv
  <2>2. PICK a \in IpAddress : approved[i] = Socket(a, Port(request)) /\ Cleared(config, policy, a, Port(request))
    BY ApprovedCleared
  <2>3. approved[i].ip = canonical(a) /\ approved[i].port = Port(request)
    BY SMTT(20), <2>2 DEF Socket
  <2>4. Cleared(config, policy, a, config.bind_address.port)
    BY <2>2, <2>3
  <2>5. /\ config.bind_address.ip \notin {Zeros(4), Zeros(16), MappedPrefix \o Zeros(4)}
        /\ config.bind_address.ip \notin {canonical(a), MappedPrefix \o canonical(a)}
    BY <2>1, <2>4, NotTheListener
  <2> QED
    BY <2>3, <2>5
<1> QED
  BY <1>1, DestAlways, PTL

\* An answer is approved as a whole or not at all, and never cut to the ceiling
\* (collect_addresses and the loop of resolve_addresses).
THEOREM WholeAnswerHolds == Spec => []WholeAnswer
<1>1. DestInv => WholeAnswer
  <2> DEFINE all == OfFamily(config.dns_address_family, answer)
             kept == collect_addresses(config, answer)
             ok == /\ Len(all) \in 1..config.max_resolved_addresses
                   /\ \A i \in DOMAIN all : resolved_denial(config, policy, all[i], Port(request)) = OK
  <2> SUFFICES ASSUME DestInv, answer # <<>>, phase \in {"approved", "denied"}
               PROVE  /\ (phase = "approved") = ok
                      /\ phase = "approved" => /\ Range(approved) = {Socket(all[i], Port(request)) : i \in DOMAIN all}
                                               /\ Len(approved) = Cardinality(Range(approved))
    BY DEF WholeAnswer
  <2>1. config \in ConfigValue
    BY DEF DestInv
  <2>2. \/ phase = "approved" /\ AnswerApproved
        \/ phase = "denied" /\ AnswerRefused
    BY DEF DestInv, InPhase
  <2>3. answer \in Seq(IpAddress)
    BY <2>2 DEF AnswerApproved, AnswerRefused
  <2>4. (Verdict = OK <=> AllPass(config, policy, answer, Port(request)))
    BY <2>1, <2>3, AnswerIsWhole DEF Verdict
  <2>5. Verdict = OK => SocketsOf(config, answer, Port(request), distinct_sockets(kept, Port(request)))
    BY <2>1, <2>3, AnswerIsWhole DEF Verdict
  <2>6. AllPass(config, policy, answer, Port(request)) = ok
    BY DEF AllPass
  <2>7. CASE phase = "approved" /\ AnswerApproved
    <3>1. ok /\ SocketsOf(config, answer, Port(request), approved)
      BY <2>4, <2>5, <2>6, <2>7 DEF AnswerApproved
    <3>2. /\ Range(approved) = {Socket(all[i], Port(request)) : i \in DOMAIN all}
          /\ Len(approved) = Cardinality(Range(approved))
      BY <3>1 DEF SocketsOf
    <3> HIDE DEF ok, all
    <3> QED
      BY <2>7, <3>1, <3>2 DEF ok
  <2>8. CASE phase = "denied" /\ AnswerRefused
    <3>1. phase # "approved" /\ ~ok
      BY <2>4, <2>6, <2>8 DEF AnswerRefused
    <3> HIDE DEF all
    <3> QED
      BY <3>1
  <2> QED
    BY <2>2, <2>7, <2>8
<1> QED
  BY <1>1, DestAlways, PTL

\* The Host header denotes the destination and the port that CONNECT names
\* (validate_host_header).
THEOREM HostHeaderAgreesHolds == Spec => []HostHeaderAgrees
<1>1. DestInv => HostHeaderAgrees
  <2> SUFFICES ASSUME DestInv, phase \in {"lookup", "approved"}
               PROVE  /\ Len(request.hosts) = 1 \/ (request.version = 0 /\ request.hosts = <<>>)
                      /\ \A i \in DOMAIN request.hosts :
                            /\ Denotes(request.hosts[i].host) = Denotes(request.target.host)
                            /\ decimal_port(request.hosts[i]) \subseteq {Port(request)}
    BY DEF HostHeaderAgrees
  <2>1. request \in RequestValue /\ parse_connect(request) = OK
    BY DEF DestInv, InPhase, Passed
  <2> QED
    BY <2>1, RequestAgrees
<1> QED
  BY <1>1, DestAlways, PTL

\* What the rules are asked about: a text and a number.
LEMMA RequestTypes ==
  ASSUME NEW r \in RequestValue
  PROVE  r.target.host \in Text /\ (parse_connect(r) = OK => Port(r) \in Nat)
<1>1. r.target \in AuthorityValue
  BY SMTT(20) DEF RequestValue
<1>2. ASSUME NEW a \in AuthorityValue PROVE a.host \in Text /\ a.port.value \in Nat
  BY SMTT(20) DEF AuthorityValue, Text
<1>3. decimal_port(r.target) \subseteq Nat
  BY <1>1, <1>2 DEF decimal_port
<1>4. parse_connect(r) = OK => decimal_port(r.target) = {Port(r)}
  BY RequestAgrees
<1> QED
  BY <1>1, <1>2, <1>3, <1>4

\* A name is looked up exactly when the rules, read label by label, cover it, and
\* a port is open exactly when a call named it (HostPattern::matches,
\* canonical_hostname, build, allows_port).
THEOREM RulesAsWrittenHolds == Spec => []RulesAsWritten
<1>1. DestInv => PortsAsAsked
  <2> SUFFICES ASSUME DestInv PROVE PortsAsAsked
    OBVIOUS
  <2>1. BuilderOk(builder)
    BY DEF DestInv
  <2>2. ASSUME phase \in {"lookup", "approved"} PROVE Port(request) \in Range(builder.ports)
    <3>1. /\ policy = Frozen(builder) /\ request \in RequestValue
          /\ parse_connect(request) = OK /\ allows_port(policy, Port(request))
      BY <2>2 DEF DestInv, InPhase, Passed
    <3>2. Port(request) \in Nat
      BY <3>1, RequestTypes
    <3> QED
      BY <2>1, <3>1, <3>2, FrozenRules
  <2>3. ASSUME denial = "port-denied" PROVE Port(request) \notin Range(builder.ports)
    <3>1. denial \in LaterReasons
      BY <2>3 DEF LaterReasons
    <3>2. /\ policy = Frozen(builder) /\ request \in RequestValue
          /\ parse_connect(request) = OK /\ ~allows_port(policy, Port(request))
      BY <2>3, <3>1 DEF DestInv, InPhase, Unasked, DeniedFor
    <3>3. Port(request) \in Nat
      BY <3>2, RequestTypes
    <3> QED
      BY <2>1, <3>2, <3>3, FrozenRules
  <2> QED
    BY <2>2, <2>3 DEF PortsAsAsked
<1>2. DestInv => NamesByLabels
  <2> DEFINE host == request.target.host
             name == to_ascii_lowercase(SubSeq(host, 1, IF host[Len(host)] = "." THEN Len(host) - 1 ELSE Len(host)))
             granted == /\ \E p \in policy.hosts : LabelsMatch(p, name)
                        /\ ~\E p \in policy.denied_hosts : LabelsMatch(p, name)
  <2> SUFFICES ASSUME DestInv
               PROVE  /\ hostname # NoName => /\ granted /\ hostname = name
                                              /\ canonical_hostname(hostname) = hostname
                      /\ denial = "host-denied" => ~granted
    BY DEF NamesByLabels
  <2>1. BuilderOk(builder)
    BY DEF DestInv
  <2>2. ASSUME policy = Frozen(builder), request \in RequestValue, canonical_hostname(host) # NoName
        PROVE  /\ name = canonical_hostname(host) /\ canonical_hostname(name) = name
               /\ granted <=> allows_hostname(policy, name)
    <3>1. host \in Text
      BY <2>2, RequestTypes
    <3> HIDE DEF host
    <3>2. /\ host # <<>> /\ canonical_hostname(host) \in Text
          /\ canonical_hostname(host) = to_ascii_lowercase(strip_dot(host))
          /\ canonical_hostname(canonical_hostname(host)) = canonical_hostname(host)
      BY <2>2, <3>1, CanonicalName
    <3>3. name = canonical_hostname(host)
      BY <3>1, <3>2, StripIs
    <3> HIDE DEF name
    <3>4. name \in Text /\ canonical_hostname(name) = name
      BY <3>2, <3>3
    <3>5. allows_hostname(policy, name) <=> granted
      BY <2>1, <2>2, <3>4, HostRules
    <3> QED
      BY <3>3, <3>4, <3>5
  <2> HIDE DEF name
  <2>3. ASSUME hostname # NoName
        PROVE  granted /\ hostname = name /\ canonical_hostname(hostname) = hostname
    <3>1. /\ policy = Frozen(builder) /\ request \in RequestValue
          /\ hostname = canonical_hostname(host) /\ allows_hostname(policy, hostname)
      BY <2>3 DEF DestInv, InPhase, Unasked, Named
    <3>2. name = hostname /\ canonical_hostname(name) = name /\ (granted <=> allows_hostname(policy, name))
      BY <2>2, <2>3, <3>1
    <3> HIDE DEF granted
    <3> QED
      BY <3>1, <3>2
  <2>4. ASSUME denial = "host-denied" PROVE ~granted
    <3>1. denial \in LaterReasons
      BY <2>4 DEF LaterReasons
    <3>2. /\ policy = Frozen(builder) /\ request \in RequestValue
          /\ canonical_hostname(host) # NoName /\ ~allows_hostname(policy, canonical_hostname(host))
      BY <2>4, <3>1 DEF DestInv, InPhase, Unasked, DeniedFor
    <3>3. name = canonical_hostname(host) /\ (granted <=> allows_hostname(policy, name))
      BY <2>2, <3>2
    <3> HIDE DEF granted
    <3> QED
      BY <3>2, <3>3
  <2> QED
    BY <2>3, <2>4
<1>3. DestInv => RulesAsWritten
  BY <1>1, <1>2 DEF RulesAsWritten
<1> QED
  BY <1>3, DestAlways, PTL

==============================================================================
