------------------------------- MODULE Data_proofs -------------------------------
(***************************************************************************)
(* What goes from one process to another, for any data: url::parse undoes  *)
(* the URL that send_message gives as the sender, for parts of any length; *)
(* the reader of a packet gets back what the writer put, for any terms;    *)
(* and comparisons of values of the same type see nothing but the two      *)
(* values.  What is written for n terms and read of them is given by       *)
(* recursive functions; that such a function exists, and what it gives, is *)
(* by induction on n as a set of numbers (SetInduction).                   *)
(***************************************************************************)
EXTENDS Wire, Values, Subsequences_proofs

\* Find returns the place that holds c when none before it does.
LEMMA FindFirst ==
  ASSUME NEW s \in Seq(Chars), NEW i \in Nat \ {0}, NEW c,
         NEW j \in i .. Len(s), s[j] = c, \A k \in i .. j - 1 : s[k] # c
  PROVE  Find(s, i, c) = j
<1> DEFINE places == {k \in i .. Len(s) : s[k] = c}
<1>1. j \in places
  OBVIOUS
<1>2. \A k \in places : j <= k
  OBVIOUS
<1>3. (CHOOSE k \in places : \A l \in places : k <= l) = j
  <2>1. \A k \in places : (\A l \in places : k <= l) => k = j
    BY <1>1, <1>2
  <2> QED
    BY <1>1, <1>2, <2>1
<1> QED
  BY <1>1, <1>3 DEF Find

\* w holds the characters of u and then those of v.
Joins(w, u, v) ==
  /\ Len(w) = Len(u) + Len(v)
  /\ \A i \in 1 .. Len(u) : w[i] = u[i]
  /\ \A i \in 1 .. Len(v) : w[Len(u) + i] = v[i]

\* The characters of a concatenation, place by place.
LEMMA Concat ==
  ASSUME NEW S, NEW u \in Seq(S), NEW v \in Seq(S)
  PROVE  u \o v \in Seq(S) /\ Joins(u \o v, u, v)
<1>1. u \o v \in Seq(S) /\ Len(u \o v) = Len(u) + Len(v)
  OBVIOUS
<1>2. \A i \in 1 .. Len(u) : (u \o v)[i] = u[i]
  OBVIOUS
<1>3. \A i \in 1 .. Len(v) : (u \o v)[Len(u) + i] = v[i]
  OBVIOUS
<1> QED
  BY <1>1, <1>2, <1>3 DEF Joins

\* The characters of a source URL s, place by place.
Places(s, protocol, host, port, name) ==
  LET a == Len(protocol)
      b == a + 3 + Len(host)
      d == b + 1 + Len(port)
  IN  /\ s \in Seq(Chars)
      /\ Len(s) = d + 1 + Len(name)
      /\ \A i \in 1 .. a : s[i] = protocol[i]
      /\ s[a + 1] = ":" /\ s[a + 2] = "/" /\ s[a + 3] = "/"
      /\ \A i \in 1 .. Len(host) : s[a + 3 + i] = host[i]
      /\ s[b + 1] = ":"
      /\ \A i \in 1 .. Len(port) : s[b + 1 + i] = port[i]
      /\ s[d + 1] = "/"
      /\ \A i \in 1 .. Len(name) : s[d + 1 + i] = name[i]

LEMMA SourceUrlChars ==
  ASSUME NEW protocol \in Seq(Letters), NEW host \in Seq(Letters),
         NEW port \in Seq(Letters), NEW name \in Seq(Chars)
  PROVE  Places(SourceUrl(protocol, host, port, name), protocol, host, port, name)
<1> DEFINE colon == <<":">>
           slash == <<"/">>
           s1 == protocol \o ProtEnd
           s2 == s1 \o host
           s3 == s2 \o colon
           s4 == s3 \o port
           s5 == s4 \o slash
           s == s5 \o name
           a == Len(protocol)
           b == a + 3 + Len(host)
           d == b + 1 + Len(port)
<1>1. protocol \in Seq(Chars) /\ host \in Seq(Chars) /\ port \in Seq(Chars)
  BY DEF Letters
<1>2. ProtEnd \in Seq(Chars) /\ colon \in Seq(Chars) /\ slash \in Seq(Chars)
  BY CharAssumption DEF ProtEnd
<1>3. /\ Len(ProtEnd) = 3 /\ Len(colon) = 1 /\ Len(slash) = 1
      /\ ProtEnd[1] = ":" /\ ProtEnd[2] = "/" /\ ProtEnd[3] = "/"
      /\ colon[1] = ":" /\ slash[1] = "/"
  BY DEF ProtEnd
<1>4. /\ Len(protocol) \in Nat /\ Len(host) \in Nat
      /\ Len(port) \in Nat /\ Len(name) \in Nat
  OBVIOUS
<1>5. SourceUrl(protocol, host, port, name) = s
  BY DEF SourceUrl
<1> HIDE DEF colon, slash
<1>6. s1 \in Seq(Chars) /\ Joins(s1, protocol, ProtEnd)
  BY <1>1, <1>2, Concat, Zenon
<1> HIDE DEF s1
<1>7. s2 \in Seq(Chars) /\ Joins(s2, s1, host)
  BY <1>1, <1>6, Concat, Zenon
<1> HIDE DEF s2
<1>8. s3 \in Seq(Chars) /\ Joins(s3, s2, colon)
  BY <1>2, <1>7, Concat, Zenon
<1> HIDE DEF s3
<1>9. s4 \in Seq(Chars) /\ Joins(s4, s3, port)
  BY <1>1, <1>8, Concat, Zenon
<1> HIDE DEF s4
<1>10. s5 \in Seq(Chars) /\ Joins(s5, s4, slash)
  BY <1>2, <1>9, Concat, Zenon
<1> HIDE DEF s5
<1>11. s \in Seq(Chars) /\ Joins(s, s5, name)
  BY <1>10, Concat, Zenon
<1> HIDE DEF s
<1>12. /\ Len(s1) = a + 3 /\ Len(s2) = b /\ Len(s3) = b + 1 /\ Len(s4) = d
       /\ Len(s5) = d + 1 /\ Len(s) = d + 1 + Len(name)
  BY <1>3, <1>4, <1>6, <1>7, <1>8, <1>9, <1>10, <1>11 DEF Joins
<1>13. \A i \in 1 .. d + 1 : s[i] = s5[i]
  BY <1>11, <1>12 DEF Joins
<1>14. \A i \in 1 .. d : s[i] = s4[i]
  <2>1. \A i \in 1 .. d : s5[i] = s4[i]
    BY <1>10, <1>12 DEF Joins
  <2>2. \A i \in 1 .. d : i \in 1 .. d + 1
    BY <1>4
  <2> QED
    BY <1>13, <2>1, <2>2
<1>15. \A i \in 1 .. b + 1 : s[i] = s3[i]
  BY <1>4, <1>9, <1>12, <1>14 DEF Joins
<1>16. \A i \in 1 .. b : s[i] = s2[i]
  BY <1>4, <1>8, <1>12, <1>15, SMTT(30) DEF Joins
<1>17. \A i \in 1 .. a + 3 : s[i] = s1[i]
  BY <1>4, <1>7, <1>12, <1>16 DEF Joins
<1>18. \A i \in 1 .. a : s[i] = protocol[i]
  BY <1>4, <1>6, <1>17 DEF Joins
<1>19. s[a + 1] = ":" /\ s[a + 2] = "/" /\ s[a + 3] = "/"
  BY <1>3, <1>4, <1>6, <1>17 DEF Joins
<1>20. \A i \in 1 .. Len(host) : s[a + 3 + i] = host[i]
  BY <1>4, <1>7, <1>12, <1>16 DEF Joins
<1>21. s[b + 1] = ":"
  BY <1>3, <1>4, <1>8, <1>12, <1>15 DEF Joins
<1>22. \A i \in 1 .. Len(port) : s[b + 1 + i] = port[i]
  BY <1>4, <1>9, <1>12, <1>14 DEF Joins
<1>23. s[d + 1] = "/"
  BY <1>3, <1>4, <1>10, <1>12, <1>13 DEF Joins
<1>24. \A i \in 1 .. Len(name) : s[d + 1 + i] = name[i]
  BY <1>11, <1>12 DEF Joins
<1> HIDE DEF a, b, d
<1> QED
  BY <1>5, <1>11, <1>12, <1>18, <1>19, <1>20, <1>21, <1>22, <1>23, <1>24
  DEF a, b, d, Places

\* The part of s that holds the characters of u is u.
LEMMA PartIs ==
  ASSUME NEW S, NEW s \in Seq(S), NEW u \in Seq(S), NEW m \in Nat, NEW n \in Nat,
         n = m + Len(u), n <= Len(s), \A i \in 1 .. Len(u) : s[m + i] = u[i]
  PROVE  SubSeq(s, m + 1, n) = u
<1>1. /\ SubSeq(s, m + 1, n) \in Seq(S)
      /\ Len(SubSeq(s, m + 1, n)) = Len(u)
      /\ \A i \in 1 .. Len(u) : SubSeq(s, m + 1, n)[i] = s[m + i]
  OBVIOUS
<1> QED
  BY <1>1, SeqEqual

\* "://" is first found after the protocol, which has no colon.
LEMMA ProtEndFirst ==
  ASSUME NEW protocol \in Seq(Letters), NEW s \in Seq(Chars),
         Len(protocol) + 3 <= Len(s),
         \A i \in 1 .. Len(protocol) : s[i] = protocol[i],
         s[Len(protocol) + 1] = ":", s[Len(protocol) + 2] = "/", s[Len(protocol) + 3] = "/"
  PROVE  FindProtEnd(s) = Len(protocol) + 1
<1> DEFINE a == Len(protocol)
           places == {i \in 1 .. Len(s) - 2 : SubSeq(s, i, i + 2) = ProtEnd}
<1>1. /\ ProtEnd \in Seq(Chars) /\ Len(ProtEnd) = 3
      /\ ProtEnd[1] = ":" /\ ProtEnd[2] = "/" /\ ProtEnd[3] = "/"
  BY CharAssumption DEF ProtEnd
<1>2. a \in Nat /\ Len(protocol) = a /\ Len(s) \in Nat
  OBVIOUS
<1>3. /\ a + 3 <= Len(s) /\ \A i \in 1 .. a : s[i] = protocol[i]
      /\ s[a + 1] = ":" /\ s[a + 2] = "/" /\ s[a + 3] = "/"
  OBVIOUS
<1> HIDE DEF a
<1>4. a + 1 \in places
  <2>1. a + 1 \in 1 .. Len(s) - 2
    BY <1>2, <1>3
  <2>2. \A i \in 1 .. 3 : s[a + i] = ProtEnd[i]
    BY <1>1, <1>2, <1>3
  <2>3. a + 3 \in Nat /\ a + 3 = a + Len(ProtEnd) /\ a + 3 <= Len(s)
    BY <1>1, <1>2, <1>3
  <2>4. SubSeq(s, a + 1, a + 3) = ProtEnd
    BY <1>1, <1>2, <2>2, <2>3, PartIs, SMTT(30)
  <2>5. a + 1 + 2 = a + 3
    BY <1>2
  <2> QED
    BY <2>1, <2>4, <2>5
<1>5. \A i \in places : i \in 1 .. Len(s) - 2 /\ SubSeq(s, i, i + 2) = ProtEnd
  OBVIOUS
<1> HIDE DEF places
<1>6. \A i \in places : a + 1 <= i
  <2> SUFFICES ASSUME NEW i \in places, i < a + 1
               PROVE  FALSE
    BY <1>2, <1>5
  <2>1. SubSeq(s, i, i + 2)[1] = s[i]
    BY <1>5
  <2>2. s[i] = ":"
    BY <1>1, <1>5, <2>1
  <2>3. i \in 1 .. a
    BY <1>2, <1>5
  <2>4. s[i] \in Letters
    BY <1>2, <1>3, <2>3
  <2> QED
    BY <2>2, <2>4 DEF Letters
<1>7. \A i \in places : (\A j \in places : i <= j) => i = a + 1
  <2>1. \A i \in places : i \in Nat
    BY <1>5
  <2> QED
    BY <1>2, <1>4, <1>6, <2>1
<1>8. (CHOOSE i \in places : \A j \in places : i <= j) = a + 1
  BY <1>4, <1>6, <1>7
<1>9. places # {}
  BY <1>4
<1> QED
  BY <1>8, <1>9 DEF FindProtEnd, places, a

\* What parse makes of a source URL: the process and the agent it was made from
\* (url.cpp:14-53, tcp_protocol.cpp:158).
THEOREM SourceUrlRoundTrip ==
  ASSUME NEW protocol \in Seq(Letters), NEW host \in Seq(Letters),
         NEW port \in Seq(Letters), NEW name \in Seq(Chars)
  PROVE  SourceUrlParses(protocol, host, port, name)
<1> DEFINE s == SourceUrl(protocol, host, port, name)
           a == Len(protocol)
           b == a + 3 + Len(host)
           d == b + 1 + Len(port)
<1>1. Places(s, protocol, host, port, name)
  BY SourceUrlChars
<1> HIDE DEF s
<1>2. /\ s \in Seq(Chars)
      /\ Len(s) = d + 1 + Len(name)
      /\ \A i \in 1 .. a : s[i] = protocol[i]
      /\ s[a + 1] = ":" /\ s[a + 2] = "/" /\ s[a + 3] = "/"
      /\ \A i \in 1 .. Len(host) : s[a + 3 + i] = host[i]
      /\ s[b + 1] = ":"
      /\ \A i \in 1 .. Len(port) : s[b + 1 + i] = port[i]
      /\ s[d + 1] = "/"
      /\ \A i \in 1 .. Len(name) : s[d + 1 + i] = name[i]
  BY <1>1 DEF Places
<1>3. /\ a \in Nat /\ b \in Nat /\ d \in Nat
      /\ Len(host) \in Nat /\ Len(port) \in Nat /\ Len(name) \in Nat
      /\ b = a + 3 + Len(host) /\ d = b + 1 + Len(port)
      /\ Len(protocol) = a
  OBVIOUS
<1> HIDE DEF a, b, d
<1>4. FindProtEnd(s) = a + 1
  <2>1. /\ Len(protocol) + 3 <= Len(s) /\ \A i \in 1 .. Len(protocol) : s[i] = protocol[i]
        /\ s[Len(protocol) + 1] = ":" /\ s[Len(protocol) + 2] = "/"
        /\ s[Len(protocol) + 3] = "/"
    BY <1>2, <1>3
  <2> QED
    BY <1>2, <1>3, <2>1, ProtEndFirst, Zenon
<1>5. Find(s, a + 4, ":") = b + 1
  <2>1. \A k \in a + 4 .. b : s[k] # ":"
    <3> SUFFICES ASSUME NEW k \in a + 4 .. b
                 PROVE  s[k] # ":"
      OBVIOUS
    <3>1. k - a - 3 \in 1 .. Len(host) /\ k = a + 3 + (k - a - 3)
      BY <1>3
    <3>2. s[k] = host[k - a - 3]
      BY <1>2, <3>1
    <3> QED
      BY <3>1, <3>2 DEF Letters
  <2>2. a + 4 \in Nat \ {0} /\ b + 1 \in a + 4 .. Len(s) /\ (b + 1) - 1 = b
    BY <1>2, <1>3
  <2>3. \A k \in a + 4 .. (b + 1) - 1 : s[k] # ":"
    BY <2>1, <2>2
  <2> QED
    BY <1>2, <2>2, <2>3, FindFirst, Zenon
<1>6. Find(s, b + 2, "/") = d + 1
  <2>1. \A k \in b + 2 .. d : s[k] # "/"
    <3> SUFFICES ASSUME NEW k \in b + 2 .. d
                 PROVE  s[k] # "/"
      OBVIOUS
    <3>1. k - b - 1 \in 1 .. Len(port) /\ k = b + 1 + (k - b - 1)
      BY <1>3
    <3>2. s[k] = port[k - b - 1]
      BY <1>2, <3>1
    <3> QED
      BY <3>1, <3>2 DEF Letters
  <2>2. b + 2 \in Nat \ {0} /\ d + 1 \in b + 2 .. Len(s) /\ (d + 1) - 1 = d
    BY <1>2, <1>3
  <2>3. \A k \in b + 2 .. (d + 1) - 1 : s[k] # "/"
    BY <2>1, <2>2
  <2> QED
    BY <1>2, <2>2, <2>3, FindFirst, Zenon
<1>7. protocol \in Seq(Chars) /\ host \in Seq(Chars) /\ port \in Seq(Chars)
  BY DEF Letters
<1>8. SubSeq(s, 1, a) = protocol
  <2>1. 0 \in Nat /\ 0 + 1 = 1 /\ a = 0 + Len(protocol) /\ a <= Len(s)
    BY <1>2, <1>3
  <2>2. \A i \in 1 .. Len(protocol) : s[0 + i] = protocol[i]
    BY <1>2, <1>3
  <2>3. SubSeq(s, 0 + 1, a) = protocol
    BY <1>2, <1>3, <1>7, <2>1, <2>2, PartIs
  <2> QED
    BY <2>1, <2>3
<1>9. SubSeq(s, a + 4, b) = host
  <2>1. a + 3 \in Nat /\ a + 3 + 1 = a + 4 /\ b = a + 3 + Len(host) /\ b <= Len(s)
    BY <1>2, <1>3
  <2>2. SubSeq(s, a + 3 + 1, b) = host
    BY <1>2, <1>3, <1>7, <2>1, PartIs
  <2> QED
    BY <2>1, <2>2
<1>10. SubSeq(s, b + 2, d) = port
  <2>1. b + 1 \in Nat /\ b + 1 + 1 = b + 2 /\ d = b + 1 + Len(port) /\ d <= Len(s)
    BY <1>2, <1>3
  <2>2. SubSeq(s, b + 1 + 1, d) = port
    BY <1>2, <1>3, <1>7, <2>1, PartIs, SMTT(30)
  <2> QED
    BY <2>1, <2>2
<1>11. SubSeq(s, d + 2, Len(s)) = name
  <2>1. /\ d + 1 \in Nat /\ d + 1 + 1 = d + 2 /\ Len(s) \in Nat
        /\ Len(s) = d + 1 + Len(name) /\ Len(s) <= Len(s)
    BY <1>2, <1>3
  <2>2. s \in Seq(Chars) /\ \A i \in 1 .. Len(name) : s[d + 1 + i] = name[i]
    BY <1>2
  <2>3. SubSeq(s, d + 1 + 1, Len(s)) = name
    BY <2>1, <2>2, PartIs, ZenonT(30)
  <2> QED
    BY <2>1, <2>3
<1>12. /\ (a + 1 = 0) = FALSE /\ (b + 1 > Len(s)) = FALSE /\ (d + 1 > Len(s)) = FALSE
       /\ (a + 1) + 3 = a + 4 /\ (b + 1) + 1 = b + 2 /\ (d + 1) + 1 = d + 2
       /\ (a + 1) - 1 = a /\ (b + 1) - 1 = b /\ (d + 1) - 1 = d
  BY <1>2, <1>3
<1>13. PathFrom(s, d + 1) = name
  BY <1>11, <1>12 DEF PathFrom
<1>14. Parse(s) = [is_good |-> TRUE, protocol |-> LowerCase(protocol),
                   host |-> LowerCase(host), port |-> port, path |-> name]
  BY <1>4, <1>5, <1>6, <1>8, <1>9, <1>10, <1>12, <1>13, Zenon DEF Parse
<1> QED
  BY <1>14 DEF SourceUrlParses, s

\* Find returns a place that holds c when there is one.
LEMMA FindSome ==
  ASSUME NEW s \in Seq(Chars), NEW i \in Nat \ {0}, NEW c,
         NEW m \in i .. Len(s), s[m] = c
  PROVE  Find(s, i, c) \in i .. Len(s) /\ s[Find(s, i, c)] = c
<1> DEFINE places == {k \in i .. Len(s) : s[k] = c}
<1>1. places \in SUBSET Nat /\ places # {}
  OBVIOUS
<1>2. PICK j \in places : \A k \in places : j <= k
  <2> HIDE DEF places
  <2> QED
    BY <1>1, LeastMember
<1>3. (CHOOSE k \in places : \A l \in places : k <= l) \in places
  BY <1>2
<1>4. Find(s, i, c) = CHOOSE k \in places : \A l \in places : k <= l
  BY <1>1 DEF Find
<1>5. Find(s, i, c) \in places
  BY <1>3, <1>4, Zenon
<1> QED
  BY <1>5

\* When there is none, Find returns the place past the end.
LEMMA FindNone ==
  ASSUME NEW s \in Seq(Chars), NEW i \in Nat \ {0}, NEW c,
         \A k \in i .. Len(s) : s[k] # c
  PROVE  Find(s, i, c) = Len(s) + 1
<1>1. {k \in i .. Len(s) : s[k] = c} = {}
  OBVIOUS
<1> QED
  BY <1>1 DEF Find

\* The characters of a URL without a port, place by place.
PortlessPlaces(s, protocol, host, name) ==
  LET a == Len(protocol)
      b == a + 3 + Len(host)
  IN  /\ s \in Seq(Chars)
      /\ Len(s) = b + 1 + Len(name)
      /\ \A i \in 1 .. a : s[i] = protocol[i]
      /\ s[a + 1] = ":" /\ s[a + 2] = "/" /\ s[a + 3] = "/"
      /\ \A i \in 1 .. Len(host) : s[a + 3 + i] = host[i]
      /\ s[b + 1] = "/"
      /\ \A i \in 1 .. Len(name) : s[b + 1 + i] = name[i]

LEMMA PortlessUrlChars ==
  ASSUME NEW protocol \in Seq(Letters), NEW host \in Seq(Letters), NEW name \in Seq(Chars)
  PROVE  PortlessPlaces(protocol \o ProtEnd \o host \o <<"/">> \o name, protocol, host, name)
<1> DEFINE slash == <<"/">>
           s1 == protocol \o ProtEnd
           s2 == s1 \o host
           s3 == s2 \o slash
           s == s3 \o name
           a == Len(protocol)
           b == a + 3 + Len(host)
<1>1. /\ protocol \in Seq(Chars) /\ host \in Seq(Chars)
      /\ ProtEnd \in Seq(Chars) /\ slash \in Seq(Chars)
  BY CharAssumption DEF ProtEnd, Letters
<1>2. /\ Len(ProtEnd) = 3 /\ Len(slash) = 1 /\ slash[1] = "/"
      /\ ProtEnd[1] = ":" /\ ProtEnd[2] = "/" /\ ProtEnd[3] = "/"
  BY DEF ProtEnd
<1>3. Len(protocol) \in Nat /\ Len(host) \in Nat /\ Len(name) \in Nat
  OBVIOUS
<1> HIDE DEF slash
<1>4. s1 \in Seq(Chars) /\ Joins(s1, protocol, ProtEnd)
  BY <1>1, Concat, Zenon
<1> HIDE DEF s1
<1>5. s2 \in Seq(Chars) /\ Joins(s2, s1, host)
  BY <1>1, <1>4, Concat, Zenon
<1> HIDE DEF s2
<1>6. s3 \in Seq(Chars) /\ Joins(s3, s2, slash)
  BY <1>1, <1>5, Concat, Zenon
<1> HIDE DEF s3
<1>7. s \in Seq(Chars) /\ Joins(s, s3, name)
  BY <1>6, Concat, Zenon
<1> HIDE DEF s
<1>8. /\ Len(s1) = a + 3 /\ Len(s2) = b /\ Len(s3) = b + 1 /\ Len(s) = b + 1 + Len(name)
  BY <1>2, <1>3, <1>4, <1>5, <1>6, <1>7 DEF Joins
<1>9. \A i \in 1 .. b + 1 : s[i] = s3[i]
  BY <1>7, <1>8 DEF Joins
<1>10. \A i \in 1 .. b : s[i] = s2[i]
  <2>1. \A i \in 1 .. b : s3[i] = s2[i]
    BY <1>6, <1>8 DEF Joins
  <2>2. \A i \in 1 .. b : i \in 1 .. b + 1
    BY <1>3
  <2> QED
    BY <1>9, <2>1, <2>2
<1>11. \A i \in 1 .. a + 3 : s[i] = s1[i]
  BY <1>3, <1>5, <1>8, <1>10 DEF Joins
<1>12. \A i \in 1 .. a : s[i] = protocol[i]
  BY <1>3, <1>4, <1>11 DEF Joins
<1>13. s[a + 1] = ":" /\ s[a + 2] = "/" /\ s[a + 3] = "/"
  BY <1>2, <1>3, <1>4, <1>11 DEF Joins
<1>14. \A i \in 1 .. Len(host) : s[a + 3 + i] = host[i]
  BY <1>3, <1>5, <1>8, <1>10 DEF Joins
<1>15. s[b + 1] = "/"
  BY <1>2, <1>3, <1>6, <1>8, <1>9 DEF Joins
<1>16. \A i \in 1 .. Len(name) : s[b + 1 + i] = name[i]
  BY <1>7, <1>8 DEF Joins
<1>17. s = protocol \o ProtEnd \o host \o <<"/">> \o name
  BY DEF s, s3, s2, s1, slash
<1> HIDE DEF a, b
<1>18. PortlessPlaces(s, protocol, host, name)
  BY <1>7, <1>8, <1>12, <1>13, <1>14, <1>15, <1>16 DEF a, b, PortlessPlaces
<1>19. QED
  BY <1>17, <1>18

\* A URL without a port is taken apart as it was put together if and only if there is
\* no colon in the name of the agent (url.cpp:31-40).
THEOREM PortlessUrlParsesWithoutColon ==
  ASSUME NEW protocol \in Seq(Letters), NEW host \in Seq(Letters), NEW name \in Seq(Chars)
  PROVE  PortlessUrlParses(protocol, host, name)
           <=> \A i \in DOMAIN name : name[i] # ":"
<1> DEFINE s == protocol \o ProtEnd \o host \o <<"/">> \o name
           a == Len(protocol)
           b == a + 3 + Len(host)
<1>1. PortlessPlaces(s, protocol, host, name)
  BY PortlessUrlChars
<1>0. PortlessUrlParses(protocol, host, name) <=>
        /\ Parse(s).host = LowerCase(host) /\ Parse(s).port = <<>> /\ Parse(s).path = name
  BY DEF PortlessUrlParses
<1> HIDE DEF s
<1>2. /\ s \in Seq(Chars)
      /\ Len(s) = b + 1 + Len(name)
      /\ \A i \in 1 .. a : s[i] = protocol[i]
      /\ s[a + 1] = ":" /\ s[a + 2] = "/" /\ s[a + 3] = "/"
      /\ \A i \in 1 .. Len(host) : s[a + 3 + i] = host[i]
      /\ s[b + 1] = "/"
      /\ \A i \in 1 .. Len(name) : s[b + 1 + i] = name[i]
  BY <1>1 DEF PortlessPlaces
<1>3. /\ a \in Nat /\ b \in Nat /\ Len(host) \in Nat /\ Len(name) \in Nat
      /\ b = a + 3 + Len(host) /\ Len(protocol) = a /\ DOMAIN name = 1 .. Len(name)
  OBVIOUS
<1> HIDE DEF a, b
<1>4. FindProtEnd(s) = a + 1
  <2>1. /\ Len(protocol) + 3 <= Len(s) /\ \A i \in 1 .. Len(protocol) : s[i] = protocol[i]
        /\ s[Len(protocol) + 1] = ":" /\ s[Len(protocol) + 2] = "/"
        /\ s[Len(protocol) + 3] = "/"
    BY <1>2, <1>3
  <2> QED
    BY <1>2, <1>3, <2>1, ProtEndFirst, Zenon
<1>5. \A k \in a + 4 .. b + 1 : s[k] # ":"
  <2> SUFFICES ASSUME NEW k \in a + 4 .. b + 1
               PROVE  s[k] # ":"
    OBVIOUS
  <2>1. CASE k = b + 1
    BY <1>2, <2>1
  <2>2. CASE k # b + 1
    <3>1. PICK m \in 1 .. Len(host) : k = a + 3 + m
      <4>1. k - a - 3 \in 1 .. Len(host) /\ k = a + 3 + (k - a - 3)
        BY <1>3, <2>2, SMTT(30)
      <4> QED
        BY <4>1
    <3>2. s[k] = host[m]
      BY <1>2, <3>1
    <3>3. QED
      BY <3>2 DEF Letters
  <2>3. QED
    BY <2>1, <2>2
<1>6. a + 4 \in Nat \ {0} /\ (a + 1) + 3 = a + 4 /\ (a + 1 = 0) = FALSE /\ Len(s) \in Nat
  BY <1>2, <1>3
<1>7. CASE \A i \in DOMAIN name : name[i] # ":"
  <2>1. \A k \in a + 4 .. Len(s) : s[k] # ":"
    <3> SUFFICES ASSUME NEW k \in a + 4 .. Len(s)
                 PROVE  s[k] # ":"
      OBVIOUS
    <3>1. CASE k <= b + 1
      BY <1>3, <1>5, <3>1
    <3>2. CASE k > b + 1
      <4>1. k - b - 1 \in 1 .. Len(name) /\ k = b + 1 + (k - b - 1)
        BY <1>2, <1>3, <3>2
      <4>2. s[k] = name[k - b - 1]
        BY <1>2, <4>1
      <4>3. QED
        BY <1>3, <1>7, <4>1, <4>2
    <3>3. QED
      BY <1>3, <3>1, <3>2
  <2>2. Find(s, a + 4, ":") = Len(s) + 1
    BY <1>2, <1>6, <2>1, FindNone, Zenon
  <2>3. Find(s, a + 4, "/") = b + 1
    <3>1. \A k \in a + 4 .. b : s[k] # "/"
      <4> SUFFICES ASSUME NEW k \in a + 4 .. b
                   PROVE  s[k] # "/"
        OBVIOUS
      <4>1. k - a - 3 \in 1 .. Len(host) /\ k = a + 3 + (k - a - 3)
        BY <1>3
      <4>2. s[k] = host[k - a - 3]
        BY <1>2, <4>1
      <4>3. QED
        BY <4>1, <4>2 DEF Letters
    <3>2. b + 1 \in a + 4 .. Len(s) /\ (b + 1) - 1 = b
      BY <1>2, <1>3
    <3>3. \A k \in a + 4 .. (b + 1) - 1 : s[k] # "/"
      BY <3>1, <3>2
    <3>4. QED
      BY <1>2, <1>6, <3>2, <3>3, FindFirst, Zenon
  <2>4. SubSeq(s, a + 4, b) = host
    <3>1. /\ a + 3 \in Nat /\ a + 3 + 1 = a + 4 /\ b = a + 3 + Len(host) /\ b <= Len(s)
          /\ host \in Seq(Chars)
      BY <1>2, <1>3 DEF Letters
    <3>2. SubSeq(s, a + 3 + 1, b) = host
      BY <1>2, <1>3, <3>1, PartIs
    <3>3. QED
      BY <3>1, <3>2
  <2>5. SubSeq(s, b + 2, Len(s)) = name
    <3>1. /\ b + 1 \in Nat /\ b + 1 + 1 = b + 2
          /\ Len(s) = b + 1 + Len(name) /\ Len(s) <= Len(s)
      BY <1>2, <1>3
    <3>2. s \in Seq(Chars) /\ \A i \in 1 .. Len(name) : s[b + 1 + i] = name[i]
      BY <1>2
    <3>3. SubSeq(s, b + 1 + 1, Len(s)) = name
      BY <1>6, <3>1, <3>2, PartIs, ZenonT(30)
    <3>4. QED
      BY <3>1, <3>3
  <2>6. /\ (Len(s) + 1 > Len(s)) = TRUE /\ (b + 1 > Len(s)) = FALSE
        /\ (b + 1) - 1 = b /\ (b + 1) + 1 = b + 2
    BY <1>2, <1>3
  <2>7. PathFrom(s, b + 1) = name
    BY <2>5, <2>6 DEF PathFrom
  <2>8. Parse(s) = [is_good |-> TRUE, protocol |-> LowerCase(SubSeq(s, 1, (a + 1) - 1)),
                    host |-> LowerCase(host), port |-> <<>>, path |-> name]
    BY <1>4, <1>6, <2>2, <2>3, <2>4, <2>6, <2>7, Zenon DEF Parse
  <2>9. Parse(s).host = LowerCase(host) /\ Parse(s).port = <<>> /\ Parse(s).path = name
    BY <2>8
  <2>10. QED
    BY <1>0, <1>7, <2>9
<1>8. CASE \E i \in DOMAIN name : name[i] = ":"
  <2>1. PICK i \in 1 .. Len(name) : name[i] = ":"
    BY <1>3, <1>8
  <2>2. PICK j \in a + 4 .. Len(s) : s[j] = ":"
    <3>1. b + 1 + i \in a + 4 .. Len(s) /\ s[b + 1 + i] = ":"
      BY <1>2, <1>3, <2>1
    <3> QED
      BY <3>1
  <2> DEFINE p == Find(s, a + 4, ":")
  <2>3. p \in a + 4 .. Len(s) /\ s[p] = ":"
    <3>1. s \in Seq(Chars) /\ a + 4 \in Nat \ {0}
      BY <1>2, <1>6
    <3>2. /\ Find(s, a + 4, ":") \in a + 4 .. Len(s)
          /\ s[Find(s, a + 4, ":")] = ":"
      BY <2>2, <3>1, FindSome
    <3> QED
      BY <3>2
  <2> HIDE DEF p
  <2>4. p > b + 1
    BY <1>3, <1>5, <2>3
  <2>5. (p > Len(s)) = FALSE
    BY <1>6, <2>3
  <2>6. Parse(s).host = LowerCase(SubSeq(s, a + 4, p - 1))
    <3> DEFINE q == Find(s, p + 1, "/")
               w == LowerCase(SubSeq(s, 1, (a + 1) - 1))
               x == SubSeq(s, p + 1, q - 1)
               y == PathFrom(s, q)
    <3>1. Parse(s) = [is_good |-> TRUE, protocol |-> w,
                      host |-> LowerCase(SubSeq(s, a + 4, p - 1)),
                      port |-> x, path |-> y]
      BY <1>4, <1>6, <2>5, Zenon DEF Parse, p
    <3> HIDE DEF w, x, y
    <3>2. QED
      BY <3>1
  <2>7. DOMAIN LowerCase(SubSeq(s, a + 4, p - 1)) = 1 .. (p - a - 4)
    <3>1. SubSeq(s, a + 4, p - 1) \in Seq(Chars) /\ Len(SubSeq(s, a + 4, p - 1)) = p - a - 4
      BY <1>2, <1>3, <2>3
    <3>2. DOMAIN SubSeq(s, a + 4, p - 1) = 1 .. (p - a - 4)
      BY <3>1
    <3>3. QED
      BY <3>2 DEF LowerCase
  <2>8. DOMAIN LowerCase(host) = 1 .. Len(host)
    BY DEF LowerCase
  <2>9. p - a - 4 \in 1 .. (p - a - 4) /\ p - a - 4 \notin 1 .. Len(host)
    BY <1>3, <2>3, <2>4
  <2>10. Parse(s).host # LowerCase(host)
    BY <2>6, <2>7, <2>8, <2>9
  <2>11. QED
    BY <1>0, <1>8, <2>10
<1>9. QED
  BY <1>7, <1>8

-------------------------------------------------------------------------------
\* The inductive invariant: the member of the type of the object was the one written
\* last, and its value is the one given.
ValueInv == TypeOK /\ Carries(object, given)

\* set() leaves an object that carries the value it was given, whatever it was before.
LEMMA SetCarries ==
  ASSUME NEW o \in Object, NEW x \in Val
  PROVE  Set(o, x) \in Object /\ Carries(Set(o, x), x)
<1>1. CASE x.type = "_int"
  <2>1. x.v \in Ints
    BY <1>1 DEF Val
  <2>2. Set(o, x) = [o EXCEPT !.type = x.type, !.value = x.v]
    BY <1>1 DEF Set
  <2> QED
    BY <1>1, <2>1, <2>2 DEF Object, Carries
<1>2. CASE x.type = "_float"
  <2>1. x.v \in Doubles
    BY <1>2 DEF Val
  <2>2. Set(o, x) = [o EXCEPT !.type = x.type, !.fvalue = x.v]
    BY <1>2 DEF Set
  <2> QED
    BY <1>2, <2>1, <2>2 DEF Object, Carries
<1>3. CASE x.type = "_string"
  <2>1. x.v \in Strings
    BY <1>3 DEF Val
  <2>2. Set(o, x) = [o EXCEPT !.type = x.type, !.svalue = x.v]
    BY <1>3 DEF Set
  <2> QED
    BY <1>3, <2>1, <2>2 DEF Object, Carries
<1> QED
  BY <1>1, <1>2, <1>3 DEF Val

LEMMA NoValueTyped == NoValue \in Object
  BY DataAssumption DEF NoValue, Object

LEMMA NewCarries ==
  ASSUME NEW x \in Val
  PROVE  New(x) \in Object /\ Carries(New(x), x)
  BY NoValueTyped, SetCarries DEF New

LEMMA ConvertedTyped ==
  ASSUME NEW x \in Val
  PROVE  Converted(x) \in Val
<1>1. CASE x.type = "_float"
  <2>1. x.v \in Doubles /\ Narrow[x.v] \in Doubles
    BY <1>1, DataAssumption DEF Val
  <2>2. Converted(x) = [x EXCEPT !.v = Narrow[x.v]]
    BY <1>1 DEF Converted
  <2> QED
    BY <1>1, <2>1, <2>2 DEF Val
<1>2. CASE x.type # "_float"
  BY <1>2 DEF Converted
<1> QED
  BY <1>1, <1>2

\* The object and the value it was given agree in every reachable state.
LEMMA ValueInvariant == Spec => []ValueInv
<1>1. Init => ValueInv
  BY NoValueTyped DEF Init, ValueInv, TypeOK, Carries, NoValue
<1>2. ValueInv /\ [Next]_vars => ValueInv'
  <2> SUFFICES ASSUME ValueInv, [Next]_vars
               PROVE  ValueInv'
    OBVIOUS
  <2>1. CASE SetValue
    BY <2>1, SetCarries DEF SetValue, ValueInv, TypeOK
  <2>2. CASE Assign
    <3>1. PICK x \in Val, y \in Val : object' = Set(New(x), y) /\ given' = y
      BY <2>2 DEF Assign
    <3> QED
      BY <3>1, NewCarries, SetCarries DEF ValueInv, TypeOK
  <2>3. CASE SetFrom
    <3>1. PICK x \in Val : object' = Set(object, Converted(x)) /\ given' = Converted(x)
      BY <2>3 DEF SetFrom
    <3> QED
      BY <3>1, ConvertedTyped, SetCarries DEF ValueInv, TypeOK
  <2>4. CASE UNCHANGED vars
    BY <2>4 DEF vars, ValueInv, TypeOK, Carries
  <2> QED
    BY <2>1, <2>2, <2>3, <2>4 DEF Next
<1> QED
  BY <1>1, <1>2, PTL DEF Spec

\* The variables of Values keep their types.
THEOREM TypeCorrect == Spec => []TypeOK
<1>1. ValueInv => TypeOK
  BY DEF ValueInv
<1> QED
  BY <1>1, ValueInvariant, PTL

\* The member that carries a value is read as this value and nothing else.
LEMMA ReadsMeaning ==
  ASSUME NEW o \in Object, NEW x \in Val, Carries(o, x)
  PROVE  As(x.type, o) = {Meaning(x)}
<1>1. CASE x.type = "_int"
  <2>1. x.v \in Ints /\ x.v # Unset
    BY <1>1, DataAssumption DEF Val
  <2> QED
    BY <1>1, <2>1 DEF As, Meaning, Carries
<1>2. CASE x.type = "_float"
  <2>1. x.v \in Doubles /\ x.v # Unset
    BY <1>2, DataAssumption DEF Val
  <2>2. As(x.type, o) = {Narrow[d] : d \in {o.fvalue}}
    BY <1>2, <2>1 DEF As, Carries
  <2> QED
    BY <1>2, <2>2 DEF Meaning, Carries
<1>3. CASE x.type = "_string"
  BY <1>3 DEF As, Meaning, Carries
<1> QED
  BY <1>1, <1>2, <1>3 DEF Val

\* Two objects that carry values of the same type compare as these values do.
LEMMA CompareMeanings ==
  ASSUME NEW a \in Object, NEW b \in Object, NEW x \in Val, NEW y \in Val,
         Carries(a, x), Carries(b, y), x.type = y.type, NEW op \in Relations
  PROVE  Compare(op, a, b) = {Rel(op, Meaning(x), Meaning(y))}
<1>1. a.type # "no_type" /\ a.type = x.type
  BY DEF Carries, Val
<1>2. As(a.type, a) = {Meaning(x)} /\ As(a.type, b) = {Meaning(y)}
  BY <1>1, ReadsMeaning
<1> DEFINE R(u, v) == Rel(op, u, v)
<1>3. Compare(op, a, b) = {R(u, v) : u \in As(a.type, a), v \in As(a.type, b)}
  BY <1>1 DEF Compare
<1>4. {R(u, v) : u \in {Meaning(x)}, v \in {Meaning(y)}} = {R(Meaning(x), Meaning(y))}
  OBVIOUS
<1> QED
  BY <1>2, <1>3, <1>4

\* A value that was set, set again or copied compares with a value of its type as the
\* values do, whatever the sets of values and the rounding are (flexi_type.cpp:7-75).
THEOREM SameTypesCompare == Spec => []SameTypeExact
<1>1. ValueInv => SameTypeExact
  <2> SUFFICES ASSUME ValueInv, NEW x \in Val, x.type = given.type, NEW op \in Relations
               PROVE  /\ Compare(op, object, New(x)) = {Rel(op, Meaning(given), Meaning(x))}
                      /\ Compare(op, New(x), object) = {Rel(op, Meaning(x), Meaning(given))}
    BY DEF SameTypeExact
  <2>1. given \in Val /\ object \in Object /\ Carries(object, given)
    BY DEF ValueInv, TypeOK, Val
  <2> QED
    BY <2>1, NewCarries, CompareMeanings
<1> QED
  BY <1>1, ValueInvariant, PTL

-------------------------------------------------------------------------------
(***************************************************************************)
(* Packets.                                                                *)
(***************************************************************************)
\* The tagged bytes of numbers, strings and terms.
Scalar == Int \cup Numbers \cup Chars

Byte == {"magic", "int", "double", "char"} \X Scalar \X Nat

\* The bytes w stand in b from place i on.
Stands(b, i, w) == \A k \in 1 .. Len(w) : i + k - 1 \in DOMAIN b /\ b[i + k - 1] = w[k]

LEMMA StandsJoin ==
  ASSUME NEW S, NEW u \in Seq(S), NEW v \in Seq(S), NEW b, NEW i \in Nat,
         Stands(b, i, u \o v)
  PROVE  Stands(b, i, u) /\ Stands(b, i + Len(u), v)
<1>1. /\ Len(u) \in Nat /\ Len(v) \in Nat /\ Len(u \o v) = Len(u) + Len(v)
      /\ \A k \in 1 .. Len(u) : (u \o v)[k] = u[k]
      /\ \A k \in 1 .. Len(v) : (u \o v)[Len(u) + k] = v[k]
  BY Concat DEF Joins
<1>2. Stands(b, i, u)
  BY <1>1 DEF Stands
<1>3. Stands(b, i + Len(u), v)
  <2> SUFFICES ASSUME NEW k \in 1 .. Len(v)
               PROVE  i + Len(u) + k - 1 \in DOMAIN b /\ b[i + Len(u) + k - 1] = v[k]
    BY DEF Stands
  <2>1. Len(u) + k \in 1 .. Len(u \o v) /\ i + (Len(u) + k) - 1 = i + Len(u) + k - 1
    BY <1>1
  <2>2. QED
    BY <1>1, <2>1 DEF Stands
<1>4. QED
  BY <1>2, <1>3

LEMMA JoinedBytes ==
  ASSUME NEW S, NEW u \in Seq(S), NEW v \in Seq(S)
  PROVE  u \o v \in Seq(S) /\ Len(u \o v) = Len(u) + Len(v)
BY Concat DEF Joins

LEMMA NumberBytes ==
  ASSUME NEW tag \in {"magic", "int", "double", "char"},
         NEW v \in Scalar, NEW n \in Nat
  PROVE  /\ Bytes(tag, v, n) \in Seq(Byte) /\ Len(Bytes(tag, v, n)) = n
         /\ \A k \in 1 .. n : Bytes(tag, v, n)[k] = <<tag, v, k>>
<1>1. \A k \in 1 .. n : <<tag, v, k>> \in Byte
  BY DEF Byte, Scalar
<1>2. [k \in 1 .. n |-> <<tag, v, k>>] \in Seq(Byte)
  BY <1>1
<1>3. QED
  BY <1>2 DEF Bytes

\* A number is read where it was written.
LEMMA NumberRead ==
  ASSUME NEW tag \in {"magic", "int", "double", "char"},
         NEW v \in Scalar, NEW n \in Nat \ {0},
         NEW b, NEW i \in Nat, Stands(b, i, Bytes(tag, v, n))
  PROVE  NumberAt(b, i, tag, n) = [val |-> v, next |-> i + n]
<1>1. \A k \in 1 .. n : i + k - 1 \in DOMAIN b /\ b[i + k - 1] = <<tag, v, k>>
  BY NumberBytes DEF Stands
<1>2. \A k \in 1 .. n : At(b, i + k - 1) = <<tag, v, k>>
  BY <1>1 DEF At
<1>3. At(b, i)[2] = v
  <2>1. 1 \in 1 .. n /\ i + 1 - 1 = i
    OBVIOUS
  <2>2. At(b, i) = <<tag, v, 1>>
    BY <1>2, <2>1
  <2>3. QED
    BY <2>2
<1>4. QED
  BY <1>2, <1>3, Zenon DEF NumberAt

LEMMA IntegerBytes ==
  ASSUME NEW v \in Scalar
  PROVE  IntBytes(v) \in Seq(Byte) /\ Len(IntBytes(v)) = 4
<1>1. Bytes("int", v, 4) \in Seq(Byte) /\ Len(Bytes("int", v, 4)) = 4
  <2>1. "int" \in {"magic", "int", "double", "char"} /\ 4 \in Nat
    OBVIOUS
  <2> QED
    BY <2>1, NumberBytes, Zenon
<1>2. QED
  BY <1>1 DEF IntBytes

LEMMA IntegerRead ==
  ASSUME NEW v \in Scalar, NEW b, NEW i \in Nat, Stands(b, i, IntBytes(v))
  PROVE  IntAt(b, i) = [val |-> v, next |-> i + 4]
<1>1. Stands(b, i, Bytes("int", v, 4))
  BY DEF IntBytes
<1>2. NumberAt(b, i, "int", 4) = [val |-> v, next |-> i + 4]
  BY <1>1, NumberRead
<1>3. QED
  BY <1>2 DEF IntAt

LEMMA DoubleRead ==
  ASSUME NEW v \in Scalar
  PROVE  /\ DoubleBytes(v) \in Seq(Byte) /\ Len(DoubleBytes(v)) = 8
         /\ \A b, i : i \in Nat /\ Stands(b, i, DoubleBytes(v)) =>
              DoubleAt(b, i) = [val |-> v, next |-> i + 8]
<1>1. DoubleBytes(v) = Bytes("double", v, 8)
  BY DEF DoubleBytes
<1>2. Bytes("double", v, 8) \in Seq(Byte) /\ Len(Bytes("double", v, 8)) = 8
  <2>1. "double" \in {"magic", "int", "double", "char"} /\ 8 \in Nat
    OBVIOUS
  <2> QED
    BY <2>1, NumberBytes, Zenon
<1>3. ASSUME NEW b, NEW i \in Nat, Stands(b, i, Bytes("double", v, 8))
      PROVE  NumberAt(b, i, "double", 8) = [val |-> v, next |-> i + 8]
  BY <1>3, NumberRead
<1>4. QED
  BY <1>1, <1>2, <1>3 DEF DoubleAt

LEMMA CharBytes ==
  ASSUME NEW s \in Seq(Chars)
  PROVE  LET w == [k \in DOMAIN s |-> <<"char", s[k], 1>>] IN
           /\ w \in Seq(Byte) /\ Len(w) = Len(s)
           /\ \A k \in 1 .. Len(s) : w[k] = <<"char", s[k], 1>>
<1>1. DOMAIN s = 1 .. Len(s) /\ Len(s) \in Nat /\ \A k \in 1 .. Len(s) : s[k] \in Chars
  OBVIOUS
<1>2. \A k \in 1 .. Len(s) : <<"char", s[k], 1>> \in Byte
  BY <1>1 DEF Byte, Scalar
<1>3. [k \in DOMAIN s |-> <<"char", s[k], 1>>] \in Seq(Byte)
  BY <1>1, <1>2
<1>4. QED
  BY <1>1, <1>3

LEMMA StringBytes ==
  ASSUME NEW s \in Seq(Chars)
  PROVE  StrBytes(s) \in Seq(Byte) /\ Len(StrBytes(s)) = 4 + Len(s)
<1> DEFINE w == [k \in DOMAIN s |-> <<"char", s[k], 1>>]
<1>1. w \in Seq(Byte) /\ Len(w) = Len(s)
  BY CharBytes
<1> HIDE DEF w
<1>2. IntBytes(Len(s)) \in Seq(Byte) /\ Len(IntBytes(Len(s))) = 4
  BY IntegerBytes DEF Scalar
<1>3. /\ IntBytes(Len(s)) \o w \in Seq(Byte)
      /\ Len(IntBytes(Len(s)) \o w) = Len(IntBytes(Len(s))) + Len(w)
  BY <1>1, <1>2, JoinedBytes, Zenon
<1>4. StrBytes(s) = IntBytes(Len(s)) \o w
  BY DEF StrBytes, w
<1>5. QED
  BY <1>1, <1>2, <1>3, <1>4, Zenon

\* And so is a string.
LEMMA StringRead ==
  ASSUME NEW s \in Seq(Chars), NEW b, NEW i \in Nat, Stands(b, i, StrBytes(s))
  PROVE  StrAt(b, i) = [val |-> s, next |-> i + Len(StrBytes(s))]
<1> DEFINE w == [k \in DOMAIN s |-> <<"char", s[k], 1>>]
<1>1. w \in Seq(Byte) /\ Len(w) = Len(s) /\ \A k \in 1 .. Len(s) : w[k] = <<"char", s[k], 1>>
  BY CharBytes
<1>2. StrBytes(s) = IntBytes(Len(s)) \o w
  BY DEF StrBytes
<1> HIDE DEF w
<1>3. Len(s) \in Nat /\ Len(StrBytes(s)) = 4 + Len(s)
  BY StringBytes
<1>4. IntBytes(Len(s)) \in Seq(Byte) /\ Len(IntBytes(Len(s))) = 4
  BY <1>3, IntegerBytes DEF Scalar
<1>5. Stands(b, i, IntBytes(Len(s))) /\ Stands(b, i + 4, w)
  BY <1>1, <1>2, <1>4, StandsJoin
<1>6. IntAt(b, i) = [val |-> Len(s), next |-> i + 4]
  BY <1>3, <1>5, IntegerRead DEF Scalar
<1>7. \A k \in 1 .. Len(s) : At(b, i + 3 + k)[2] = s[k]
  <2> SUFFICES ASSUME NEW k \in 1 .. Len(s)
               PROVE  At(b, i + 3 + k)[2] = s[k]
    OBVIOUS
  <2>1. i + 4 + k - 1 = i + 3 + k
    OBVIOUS
  <2>2. i + 3 + k \in DOMAIN b /\ b[i + 3 + k] = <<"char", s[k], 1>>
    BY <1>1, <1>5, <2>1 DEF Stands
  <2>3. QED
    BY <2>2 DEF At
<1>8. [k \in 1 .. Len(s) |-> At(b, i + 3 + k)[2]] = s
  BY <1>7
<1>9. i + 4 + (IF Len(s) > 0 THEN Len(s) ELSE 0) = i + Len(StrBytes(s))
  <2>1. (IF Len(s) > 0 THEN Len(s) ELSE 0) = Len(s)
    BY <1>3
  <2>2. i + 4 + Len(s) = i + Len(StrBytes(s))
    BY <1>3
  <2>3. QED
    BY <2>1, <2>2, Zenon
<1>10. StrAt(b, i) =
          [val  |-> [k \in 1 .. Len(s) |-> At(b, i + 3 + k)[2]],
           next |-> i + 4 + (IF Len(s) > 0 THEN Len(s) ELSE 0)]
  BY <1>6 DEF StrAt
<1>11. QED
  BY <1>8, <1>9, <1>10, Zenon

\* What is written for a term, and that it is read.
LEMMA TermWritten ==
  ASSUME NEW t \in Term
  PROVE  /\ TermBytes(t) \in Seq(Byte)
         /\ Len(TermBytes(t)) <= 12 + (IF t.type = _string THEN Len(t.val) ELSE 0)
         /\ \A b, i : i \in Nat /\ Stands(b, i, TermBytes(t)) =>
              TermAt(b, i) = [val |-> t, next |-> i + Len(TermBytes(t))]
<1>0. _int \in Scalar /\ _float \in Scalar /\ _string \in Scalar
  BY DEF Scalar, _int, _float, _string
<1>1. CASE t.type = _int
  <2>1. PICK n \in Numbers : t.val = <<n>>
    BY <1>1 DEF Term, _int, _float, _string
  <2>2. TermBytes(t) = IntBytes(_int) \o IntBytes(n)
    BY <1>1, <2>1 DEF TermBytes, _int, _float, _string
  <2>3. /\ IntBytes(n) \in Seq(Byte) /\ Len(IntBytes(n)) = 4
        /\ IntBytes(_int) \in Seq(Byte) /\ Len(IntBytes(_int)) = 4
    BY <1>0, IntegerBytes DEF Scalar
  <2>4. TermBytes(t) \in Seq(Byte) /\ Len(TermBytes(t)) = 8
    <3>1. /\ IntBytes(_int) \o IntBytes(n) \in Seq(Byte)
          /\ Len(IntBytes(_int) \o IntBytes(n)) = Len(IntBytes(_int)) + Len(IntBytes(n))
      BY <2>3, JoinedBytes, Zenon
    <3>2. QED
      BY <2>2, <2>3, <3>1
  <2>5. ASSUME NEW b, NEW i \in Nat, Stands(b, i, TermBytes(t))
        PROVE  TermAt(b, i) = [val |-> t, next |-> i + 8]
    <3>1. Stands(b, i, IntBytes(_int)) /\ Stands(b, i + 4, IntBytes(n))
      BY <2>2, <2>3, <2>5, StandsJoin
    <3>2. /\ IntAt(b, i) = [val |-> _int, next |-> i + 4]
          /\ IntAt(b, i + 4) = [val |-> n, next |-> i + 8]
      <4>1. i + 4 \in Nat /\ i + 4 + 4 = i + 8 /\ n \in Scalar
        BY DEF Scalar
      <4>2. /\ IntAt(b, i) = [val |-> _int, next |-> i + 4]
            /\ IntAt(b, i + 4) = [val |-> n, next |-> i + 4 + 4]
        BY <1>0, <3>1, <4>1, IntegerRead, Zenon
      <4>3. QED
        BY <4>1, <4>2
    <3>3. [type |-> _int, val |-> <<n>>] = t
      BY <1>1, <2>1 DEF Term
    <3>4. TermAt(b, i) = [val |-> [type |-> _int, val |-> <<n>>], next |-> i + 8]
      BY <3>2 DEF TermAt, _int, _float, _string
    <3>5. QED
      BY <3>3, <3>4
  <2>6. QED
    BY <1>1, <2>4, <2>5 DEF _int, _string
<1>2. CASE t.type = _float
  <2>1. PICK n \in Numbers : t.val = <<n>>
    BY <1>2 DEF Term, _int, _float, _string
  <2>2. TermBytes(t) = IntBytes(_float) \o DoubleBytes(n)
    BY <1>2, <2>1 DEF TermBytes, _int, _float, _string
  <2>3. /\ DoubleBytes(n) \in Seq(Byte) /\ Len(DoubleBytes(n)) = 8
        /\ IntBytes(_float) \in Seq(Byte) /\ Len(IntBytes(_float)) = 4
    BY <1>0, IntegerBytes, DoubleRead DEF Scalar
  <2>4. TermBytes(t) \in Seq(Byte) /\ Len(TermBytes(t)) = 12
    <3>1. TermBytes(t) \in Seq(Byte) /\ Len(TermBytes(t)) = 4 + 8
      BY <2>2, <2>3, JoinedBytes, Zenon
    <3>2. QED
      BY <3>1
  <2>5. ASSUME NEW b, NEW i \in Nat, Stands(b, i, TermBytes(t))
        PROVE  TermAt(b, i) = [val |-> t, next |-> i + 12]
    <3>1. Stands(b, i, IntBytes(_float)) /\ Stands(b, i + 4, DoubleBytes(n))
      BY <2>2, <2>3, <2>5, StandsJoin
    <3>2. IntAt(b, i) = [val |-> _float, next |-> i + 4]
      BY <1>0, <3>1, IntegerRead
    <3>3. DoubleAt(b, i + 4) = [val |-> n, next |-> i + 12]
      <4>1. i + 4 \in Nat /\ i + 4 + 8 = i + 12 /\ n \in Scalar
        BY DEF Scalar
      <4>2. DoubleAt(b, i + 4) = [val |-> n, next |-> i + 4 + 8]
        BY <3>1, <4>1, DoubleRead, Zenon
      <4>3. QED
        BY <4>1, <4>2
    <3>4. [type |-> _float, val |-> <<n>>] = t
      BY <1>2, <2>1 DEF Term
    <3>5. TermAt(b, i) = [val |-> [type |-> _float, val |-> <<n>>], next |-> i + 12]
      BY <3>2, <3>3 DEF TermAt, _int, _float, _string
    <3>6. QED
      BY <3>4, <3>5
  <2>6. QED
    BY <1>2, <2>4, <2>5 DEF _float, _string
<1>3. CASE t.type = _string
  <2>1. t.val \in Seq(Chars)
    BY <1>3 DEF Term, _int, _float, _string
  <2>2. TermBytes(t) = IntBytes(_string) \o StrBytes(t.val)
    BY <1>3 DEF TermBytes, _int, _float, _string
  <2>3. /\ StrBytes(t.val) \in Seq(Byte) /\ Len(StrBytes(t.val)) = 4 + Len(t.val)
        /\ IntBytes(_string) \in Seq(Byte) /\ Len(IntBytes(_string)) = 4
    BY <1>0, <2>1, IntegerBytes, StringBytes
  <2>4. /\ TermBytes(t) \in Seq(Byte)
        /\ Len(TermBytes(t)) = 4 + Len(StrBytes(t.val))
    BY <2>2, <2>3, JoinedBytes, Zenon
  <2>9. Len(t.val) \in Nat
    BY <2>1
  <2>5. ASSUME NEW b, NEW i \in Nat, Stands(b, i, TermBytes(t))
        PROVE  TermAt(b, i) = [val |-> t, next |-> i + 4 + Len(StrBytes(t.val))]
    <3>1. Stands(b, i, IntBytes(_string)) /\ Stands(b, i + 4, StrBytes(t.val))
      BY <2>2, <2>3, <2>5, StandsJoin
    <3>2. IntAt(b, i) = [val |-> _string, next |-> i + 4]
      BY <1>0, <3>1, IntegerRead
    <3>3. StrAt(b, i + 4) = [val |-> t.val, next |-> i + 4 + Len(StrBytes(t.val))]
      BY <2>1, <3>1, StringRead
    <3>4. [type |-> _string, val |-> t.val] = t
      BY <1>3 DEF Term
    <3>5. TermAt(b, i) = [val  |-> [type |-> _string, val |-> t.val],
                          next |-> i + 4 + Len(StrBytes(t.val))]
      BY <3>2, <3>3 DEF TermAt, _int, _float, _string
    <3>6. QED
      BY <3>4, <3>5
  <2>6. ASSUME NEW b, NEW i \in Nat, Stands(b, i, TermBytes(t))
        PROVE  TermAt(b, i) = [val |-> t, next |-> i + Len(TermBytes(t))]
    <3>1. PICK n \in Nat : n = Len(StrBytes(t.val))
      BY <2>3, <2>9
    <3>3. i + 4 + n = i + (4 + n)
      OBVIOUS
    <3>2. QED
      BY <2>4, <2>5, <2>6, <3>1, <3>3, Zenon
  <2>7. Len(TermBytes(t)) <= 12 + Len(t.val)
    BY <2>3, <2>4, <2>9
  <2>8. QED
    BY <1>3, <2>4, <2>6, <2>7
<1>4. QED
  BY <1>1, <1>2, <1>3 DEF Term

(***************************************************************************)
(* The terms of a formula.                                                 *)
(***************************************************************************)
\* h[n] is written for the first n terms.
WrittenUpTo(terms, h) ==
  /\ h \in [0 .. Len(terms) -> Seq(Byte)]
  /\ h[0] = <<>>
  /\ \A n \in 1 .. Len(terms) : h[n] = h[n - 1] \o TermBytes(terms[n])

LEMMA TermsWritten ==
  ASSUME NEW terms \in Seq(Term)
  PROVE  \E h : WrittenUpTo(terms, h) /\ TermsBytes(terms) = h[Len(terms)]
<1> DEFINE N == Len(terms)
           F == [p \in Seq(Byte) \X (1 .. N) |-> p[1] \o TermBytes(terms[p[2]])]
           Is(f) == f = [n \in 0 .. N |-> IF n = 0 THEN <<>>
                                          ELSE f[n - 1] \o TermBytes(terms[n])]
           h == CHOOSE f : Is(f)
<1>1. N \in Nat /\ <<>> \in Seq(Byte) /\ \A n \in 1 .. N : terms[n] \in Term
  OBVIOUS
<1>2. ASSUME NEW w \in Seq(Byte), NEW n \in 1 .. N
      PROVE  w \o TermBytes(terms[n]) \in Seq(Byte)
  <2>1. TermBytes(terms[n]) \in Seq(Byte)
    BY <1>1, TermWritten
  <2>2. QED
    BY <2>1, JoinedBytes, Zenon
<1>3. F \in [Seq(Byte) \X (1 .. N) -> Seq(Byte)]
  BY <1>2
<1>4. PICK g \in [0 .. N -> Seq(Byte)] : Recurs(g, N, <<>>, F)
  <2> HIDE DEF F, N
  <2>1. QED
    BY <1>1, <1>3, RecursionExists
<1>5. \A n \in 1 .. N : g[n] = g[n - 1] \o TermBytes(terms[n])
  <2> SUFFICES ASSUME NEW n \in 1 .. N
               PROVE  g[n] = g[n - 1] \o TermBytes(terms[n])
    OBVIOUS
  <2>1. n - 1 \in 0 .. N
    OBVIOUS
  <2>2. <<g[n - 1], n>> \in Seq(Byte) \X (1 .. N)
    BY <2>1
  <2>3. F[<<g[n - 1], n>>] = g[n - 1] \o TermBytes(terms[n])
    BY <2>2
  <2>4. QED
    BY <1>4, <2>3 DEF Recurs
<1>6. Is(g)
  <2>1. ASSUME NEW n \in 0 .. N
        PROVE  g[n] = IF n = 0 THEN <<>> ELSE g[n - 1] \o TermBytes(terms[n])
    <3>1. CASE n = 0
      BY <1>4, <3>1 DEF Recurs
    <3>2. CASE n # 0
      <4>1. n \in 1 .. N
        BY <3>2
      <4>2. QED
        BY <1>5, <3>2, <4>1, Zenon
    <3>3. QED
      BY <3>1, <3>2
  <2>2. QED
    BY <2>1
<1>7. Is(h)
  <2> HIDE DEF Is
  <2>1. QED
    BY <1>6
<1>8. TermsBytes(terms) = h[N]
  BY DEF TermsBytes
<1> HIDE DEF h
<1>9. /\ DOMAIN h = 0 .. N /\ h[0] = <<>>
      /\ \A n \in 1 .. N : h[n] = h[n - 1] \o TermBytes(terms[n])
      /\ h = [n \in 0 .. N |-> h[n]]
  <2>1. \A n \in 0 .. N : h[n] = IF n = 0 THEN <<>> ELSE h[n - 1] \o TermBytes(terms[n])
    BY <1>7, Zenon
  <2>2. DOMAIN h = 0 .. N /\ h = [n \in 0 .. N |-> h[n]]
    BY <1>7, Zenon
  <2>3. \A n \in 1 .. N : n \in 0 .. N /\ n # 0
    BY <1>1
  <2>4. 0 \in 0 .. N
    BY <1>1
  <2>5. QED
    BY <2>1, <2>2, <2>3, <2>4, Zenon
<1>10. \A n \in 0 .. N : h[n] \in Seq(Byte)
  <2> DEFINE T == {n \in 0 .. N : h[n] \in Seq(Byte)}
  <2>1. 0 \in T
    <3>1. 0 \in 0 .. N
      BY <1>1
    <3>2. QED
      BY <1>1, <1>9, <3>1, Zenon
  <2>2. ASSUME NEW n \in 1 .. N, n - 1 \in T
        PROVE  n \in T
    <3>1. n \in 0 .. N
      OBVIOUS
    <3>2. h[n] \in Seq(Byte)
      BY <1>2, <1>9, <2>2, Zenon
    <3>3. QED
      BY <3>1, <3>2
  <2> HIDE DEF T
  <2>3. \A n \in 0 .. N : n \in T
    BY <1>1, <2>1, <2>2, BoundedInduction
  <2>4. QED
    BY <2>3 DEF T
<1>11. h \in [0 .. N -> Seq(Byte)]
  BY <1>9, <1>10
<1>12. QED
  BY <1>8, <1>9, <1>11 DEF WrittenUpTo

LEMMA ReadFields ==
  ASSUME NEW r, NEW x, NEW y, r = [val |-> x, next |-> y]
  PROVE  r.val = x /\ r.next = y
OBVIOUS

\* The terms are read where they were written, up to the last.
LEMMA TermsRead ==
  ASSUME NEW terms \in Seq(Term), NEW b, NEW i \in Nat, Stands(b, i, TermsBytes(terms))
  PROVE  TermsAt(b, i, Len(terms)) =
           [val |-> terms, next |-> i + Len(TermsBytes(terms))]
<1> DEFINE N == Len(terms)
<1>0. N \in Nat /\ \A n \in 1 .. N : terms[n] \in Term
  OBVIOUS
<1>1. PICK h : WrittenUpTo(terms, h) /\ TermsBytes(terms) = h[N]
  BY TermsWritten
<1>2. /\ h \in [0 .. N -> Seq(Byte)] /\ h[0] = <<>>
      /\ \A n \in 1 .. N : h[n] = h[n - 1] \o TermBytes(terms[n])
  BY <1>1 DEF WrittenUpTo
<1>3. \A n \in 0 .. N : h[n] \in Seq(Byte) /\ Len(h[n]) \in Nat
  BY <1>2
\* Every part of what was written stands in b.
<1>4. ASSUME NEW n \in 1 .. N, Stands(b, i, h[n])
      PROVE  /\ Stands(b, i, h[n - 1])
             /\ Stands(b, i + Len(h[n - 1]), TermBytes(terms[n]))
             /\ Len(h[n]) = Len(h[n - 1]) + Len(TermBytes(terms[n]))
  <2>1. n - 1 \in 0 .. N
    OBVIOUS
  <2>2. h[n - 1] \in Seq(Byte) /\ TermBytes(terms[n]) \in Seq(Byte)
    BY <1>0, <1>3, <2>1, TermWritten
  <2>3. h[n] = h[n - 1] \o TermBytes(terms[n])
    BY <1>2
  <2>4. Stands(b, i, h[n - 1] \o TermBytes(terms[n]))
    BY <1>4, <2>3
  <2>5. /\ Stands(b, i, h[n - 1])
        /\ Stands(b, i + Len(h[n - 1]), TermBytes(terms[n]))
    BY <2>2, <2>4, StandsJoin, Zenon
  <2>6. Len(h[n - 1] \o TermBytes(terms[n])) = Len(h[n - 1]) + Len(TermBytes(terms[n]))
    BY <2>2, JoinedBytes, Zenon
  <2>7. QED
    BY <2>3, <2>5, <2>6, Zenon
<1>5. \A n \in 0 .. N : Stands(b, i, h[n])
  <2> DEFINE T == {m \in 0 .. N : Stands(b, i, h[N - m])}
  <2>1. 0 \in T
    <3>1. 0 \in 0 .. N /\ N - 0 = N
      BY <1>0
    <3>2. QED
      BY <1>1, <3>1
  <2>2. ASSUME NEW m \in 1 .. N, m - 1 \in T
        PROVE  m \in T
    <3>1. N - (m - 1) \in 1 .. N /\ (N - (m - 1)) - 1 = N - m /\ m \in 0 .. N
      BY <1>0
    <3>2. Stands(b, i, h[N - (m - 1)])
      BY <2>2
    <3>3. Stands(b, i, h[(N - (m - 1)) - 1])
      BY <1>4, <3>1, <3>2, Zenon
    <3>4. QED
      BY <3>1, <3>3
  <2>3. \A m \in 0 .. N : m \in T
    <3> HIDE DEF T
    <3>1. QED
      BY <1>0, <2>1, <2>2, BoundedInduction
  <2>4. ASSUME NEW n \in 0 .. N
        PROVE  Stands(b, i, h[n])
    <3>1. N - n \in 0 .. N /\ N - (N - n) = n
      BY <1>0
    <3>2. Stands(b, i, h[N - (N - n)])
      BY <2>3, <3>1
    <3>3. QED
      BY <3>1, <3>2
  <2>5. QED
    BY <2>4
<1> DEFINE Next_(before, n) ==
             LET t == TermAt(b, before.next)
             IN  [val |-> Append(before.val, t.val), next |-> t.next]
           Is(f) == f = [n \in 0 .. N |-> IF n = 0 THEN [val |-> <<>>, next |-> i]
                                          ELSE Next_(f[n - 1], n)]
           read == CHOOSE f : Is(f)
           g == [n \in 0 .. N |-> [val |-> SubSeq(terms, 1, n), next |-> i + Len(h[n])]]
<1>6. ASSUME NEW n \in 1 .. N
      PROVE  /\ n - 1 \in 0 .. N
             /\ Next_([val |-> SubSeq(terms, 1, n - 1), next |-> i + Len(h[n - 1])], n)
                  = [val |-> SubSeq(terms, 1, n), next |-> i + Len(h[n])]
  <2>1. n - 1 \in 0 .. N /\ n \in 0 .. N /\ terms[n] \in Term
    BY <1>0
  <2>2. /\ Stands(b, i + Len(h[n - 1]), TermBytes(terms[n]))
        /\ Len(h[n]) = Len(h[n - 1]) + Len(TermBytes(terms[n]))
    BY <1>4, <1>5, <2>1, Zenon
  <2>3. i + Len(h[n - 1]) \in Nat
    <3>1. Len(h[n - 1]) \in Nat
      BY <1>3, <2>1
    <3>2. QED
      BY <3>1
  <2>4. TermAt(b, i + Len(h[n - 1])) =
          [val |-> terms[n], next |-> (i + Len(h[n - 1])) + Len(TermBytes(terms[n]))]
    BY <2>1, <2>2, <2>3, TermWritten, Zenon
  <2>5. (i + Len(h[n - 1])) + Len(TermBytes(terms[n])) = i + Len(h[n])
    <3>1. TermBytes(terms[n]) \in Seq(Byte)
      BY <2>1, TermWritten
    <3>2. PICK k \in Nat, l \in Nat : k = Len(h[n - 1]) /\ l = Len(TermBytes(terms[n]))
      <4>1. Len(h[n - 1]) \in Nat /\ Len(TermBytes(terms[n])) \in Nat
        BY <1>3, <2>1, <3>1
      <4>2. QED
        BY <4>1
    <3>3. (i + k) + l = i + (k + l)
      OBVIOUS
    <3>4. QED
      BY <2>2, <3>2, <3>3, Zenon
  <2>6. Append(SubSeq(terms, 1, n - 1), terms[n]) = SubSeq(terms, 1, n)
    BY <1>0
  <2>7. Next_([val |-> SubSeq(terms, 1, n - 1), next |-> i + Len(h[n - 1])], n)
          = [val  |-> Append(SubSeq(terms, 1, n - 1), TermAt(b, i + Len(h[n - 1])).val),
             next |-> TermAt(b, i + Len(h[n - 1])).next]
    OBVIOUS
  <2>8. /\ TermAt(b, i + Len(h[n - 1])).val = terms[n]
        /\ TermAt(b, i + Len(h[n - 1])).next = i + Len(h[n])
    <3>1. TermAt(b, i + Len(h[n - 1])) = [val |-> terms[n], next |-> i + Len(h[n])]
      BY <2>4, <2>5, Zenon
    <3>2. QED
      BY <3>1, ReadFields, Zenon
  <2>9. QED
    BY <2>1, <2>6, <2>7, <2>8, Zenon
<1>7. Is(g)
  <2>1. ASSUME NEW n \in 0 .. N
        PROVE  g[n] = IF n = 0 THEN [val |-> <<>>, next |-> i] ELSE Next_(g[n - 1], n)
    <3>1. CASE n = 0
      <4>1. SubSeq(terms, 1, 0) = <<>> /\ Len(h[0]) = 0 /\ i + 0 = i
        BY <1>2
      <4>2. g[0] = [val |-> SubSeq(terms, 1, 0), next |-> i + Len(h[0])]
        BY <3>1
      <4>3. QED
        BY <3>1, <4>1, <4>2
    <3>2. CASE n # 0
      <4>1. n \in 1 .. N
        BY <3>2
      <4>2. g[n - 1] = [val |-> SubSeq(terms, 1, n - 1), next |-> i + Len(h[n - 1])]
        BY <1>6, <4>1
      <4>3. g[n] = [val |-> SubSeq(terms, 1, n), next |-> i + Len(h[n])]
        OBVIOUS
      <4> HIDE DEF g, Next_
      <4>4. QED
        BY <1>6, <3>2, <4>1, <4>2, <4>3, Zenon
    <3>3. QED
      BY <3>1, <3>2
  <2>2. DOMAIN g = 0 .. N /\ g = [n \in 0 .. N |-> g[n]]
    OBVIOUS
  <2> HIDE DEF g, Next_
  <2>3. QED
    BY <2>1, <2>2
<1>8. Is(read)
  <2> HIDE DEF Is, g
  <2>1. QED
    BY <1>7
<1>9. TermsAt(b, i, N) = read[N]
  <2>1. N >= 0
    BY <1>0
  <2>2. QED
    BY <2>1 DEF TermsAt
<1> HIDE DEF read
<1>10. \A n \in 0 .. N : read[n] = g[n]
  <2> DEFINE T == {n \in 0 .. N : read[n] = g[n]}
  <2>0. /\ \A n \in 0 .. N : read[n] = IF n = 0 THEN [val |-> <<>>, next |-> i]
                                       ELSE Next_(read[n - 1], n)
        /\ \A n \in 0 .. N : g[n] = IF n = 0 THEN [val |-> <<>>, next |-> i]
                                    ELSE Next_(g[n - 1], n)
    <3> HIDE DEF Next_, g
    <3>1. QED
      BY <1>7, <1>8, Zenon
  <2> HIDE DEF g, Next_
  <2>1. 0 \in T
    <3>1. 0 \in 0 .. N
      BY <1>0
    <3>2. QED
      BY <2>0, <3>1
  <2>2. ASSUME NEW n \in 1 .. N, n - 1 \in T
        PROVE  n \in T
    <3>1. n \in 0 .. N /\ n # 0
      OBVIOUS
    <3>2. read[n - 1] = g[n - 1]
      BY <2>2
    <3>3. read[n] = g[n]
      BY <2>0, <3>1, <3>2, Zenon
    <3>4. QED
      BY <3>1, <3>3
  <2>3. \A n \in 0 .. N : n \in T
    <3> HIDE DEF T
    <3>1. QED
      BY <1>0, <2>1, <2>2, BoundedInduction
  <2>4. QED
    BY <2>3
<1>11. g[N] = [val |-> terms, next |-> i + Len(TermsBytes(terms))]
  <2>1. N \in 0 .. N /\ SubSeq(terms, 1, N) = terms
    BY <1>0
  <2>2. g[N] = [val |-> SubSeq(terms, 1, N), next |-> i + Len(h[N])]
    BY <2>1
  <2>3. QED
    BY <1>1, <2>1, <2>2, Zenon
<1>12. QED
  <2>1. N \in 0 .. N
    BY <1>0
  <2>2. read[N] = g[N]
    BY <1>10, <2>1
  <2> HIDE DEF g
  <2>3. QED
    BY <1>9, <1>11, <2>2, Zenon

LEMMA TermsBytesLength ==
  ASSUME NEW terms \in Seq(Term)
  PROVE  TermsBytes(terms) \in Seq(Byte) /\ Len(TermsBytes(terms)) \in Nat
<1>1. PICK h : WrittenUpTo(terms, h) /\ TermsBytes(terms) = h[Len(terms)]
  BY TermsWritten
<1>2. Len(terms) \in 0 .. Len(terms)
  OBVIOUS
<1>3. TermsBytes(terms) \in Seq(Byte)
  BY <1>1, <1>2 DEF WrittenUpTo
<1>4. QED
  BY <1>3

LEMMA FormulaWritten ==
  ASSUME NEW a \in Formula
  PROVE  /\ FormulaBytes(a) \in Seq(Byte)
         /\ Len(FormulaBytes(a)) = 12 + Len(a.name) + Len(TermsBytes(a.terms))
<1> DEFINE r == IF a.kind = "reactor" THEN 1 ELSE 0
           w1 == StrBytes(a.name) \o IntBytes(r)
           w2 == w1 \o IntBytes(Len(a.terms))
<1>1. a.name \in Seq(Chars) /\ a.terms \in Seq(Term)
  BY DEF Formula
<1>2. Len(a.name) \in Nat /\ Len(a.terms) \in Nat /\ Len(TermsBytes(a.terms)) \in Nat
  BY <1>1, TermsBytesLength
<1>3. /\ StrBytes(a.name) \in Seq(Byte) /\ Len(StrBytes(a.name)) = 4 + Len(a.name)
      /\ IntBytes(r) \in Seq(Byte) /\ Len(IntBytes(r)) = 4
      /\ IntBytes(Len(a.terms)) \in Seq(Byte) /\ Len(IntBytes(Len(a.terms))) = 4
      /\ TermsBytes(a.terms) \in Seq(Byte)
  <2>1. r \in Scalar /\ Len(a.terms) \in Scalar
    BY <1>2 DEF Scalar
  <2> HIDE DEF r
  <2>2. QED
    BY <1>1, <2>1, StringBytes, IntegerBytes, TermsBytesLength, Zenon
<1>4. FormulaBytes(a) = w2 \o TermsBytes(a.terms)
  BY DEF FormulaBytes
<1> HIDE DEF r
<1>5. w1 \in Seq(Byte) /\ Len(w1) = Len(StrBytes(a.name)) + Len(IntBytes(r))
  BY <1>3, JoinedBytes, Zenon
<1> HIDE DEF w1
<1>6. w2 \in Seq(Byte) /\ Len(w2) = Len(w1) + Len(IntBytes(Len(a.terms)))
  BY <1>3, <1>5, JoinedBytes, Zenon
<1> HIDE DEF w2
<1>7. /\ w2 \o TermsBytes(a.terms) \in Seq(Byte)
      /\ Len(w2 \o TermsBytes(a.terms)) = Len(w2) + Len(TermsBytes(a.terms))
  BY <1>3, <1>6, JoinedBytes, Zenon
<1>8. Len(w2) + Len(TermsBytes(a.terms)) = 12 + Len(a.name) + Len(TermsBytes(a.terms))
  <2>1. PICK x \in Nat, y \in Nat : x = Len(a.name) /\ y = Len(TermsBytes(a.terms))
    BY <1>2
  <2>2. Len(w2) = ((4 + x) + 4) + 4
    BY <1>3, <1>5, <1>6, <2>1, Zenon
  <2>3. (((4 + x) + 4) + 4) + y = 12 + x + y
    OBVIOUS
  <2>4. QED
    BY <2>1, <2>2, <2>3, Zenon
<1>9. QED
  BY <1>4, <1>7, <1>8, Zenon

\* The kinds that come back: everything but a reactor is made a belief.
Received(a) == [a EXCEPT !.kind = IF a.kind = "reactor" THEN "reactor" ELSE "belief"]

\* A formula is read where it was written.
LEMMA FormulaRead ==
  ASSUME NEW a \in Formula, NEW b, NEW i \in Nat, Stands(b, i, FormulaBytes(a))
  PROVE  FormulaAt(b, i) = [val |-> Received(a), next |-> i + Len(FormulaBytes(a))]
<1> DEFINE r == IF a.kind = "reactor" THEN 1 ELSE 0
           w1 == StrBytes(a.name) \o IntBytes(r)
           w2 == w1 \o IntBytes(Len(a.terms))
           m == Len(a.name)
           n == Len(TermsBytes(a.terms))
<1>1. a.name \in Seq(Chars) /\ a.terms \in Seq(Term)
  BY DEF Formula
<1>2. m \in Nat /\ Len(a.terms) \in Nat /\ n \in Nat
  BY <1>1, TermsBytesLength
<1>3. r \in Scalar /\ Len(a.terms) \in Scalar
  BY <1>2 DEF Scalar
<1>4. FormulaBytes(a) = w2 \o TermsBytes(a.terms)
  BY DEF FormulaBytes
<1> HIDE DEF r
<1>5. /\ StrBytes(a.name) \in Seq(Byte) /\ Len(StrBytes(a.name)) = 4 + m
      /\ IntBytes(r) \in Seq(Byte) /\ Len(IntBytes(r)) = 4
      /\ IntBytes(Len(a.terms)) \in Seq(Byte) /\ Len(IntBytes(Len(a.terms))) = 4
      /\ TermsBytes(a.terms) \in Seq(Byte)
  BY <1>1, <1>3, StringBytes, IntegerBytes, TermsBytesLength, Zenon
<1>6. w1 \in Seq(Byte) /\ Len(w1) = (4 + m) + 4
  <2>1. w1 \in Seq(Byte) /\ Len(w1) = Len(StrBytes(a.name)) + Len(IntBytes(r))
    BY <1>5, JoinedBytes, Zenon
  <2> HIDE DEF w1
  <2>2. QED
    BY <1>5, <2>1
<1>7. w2 \in Seq(Byte) /\ Len(w2) = ((4 + m) + 4) + 4
  <2>1. w2 \in Seq(Byte) /\ Len(w2) = Len(w1) + Len(IntBytes(Len(a.terms)))
    BY <1>5, <1>6, JoinedBytes, Zenon
  <2> HIDE DEF w1, w2
  <2>2. QED
    BY <1>5, <1>6, <2>1
<1>8. Stands(b, i, w2) /\ Stands(b, i + Len(w2), TermsBytes(a.terms))
  <2> HIDE DEF w2
  <2>1. Stands(b, i, w2 \o TermsBytes(a.terms))
    BY <1>4
  <2>2. QED
    BY <1>5, <1>7, <2>1, StandsJoin, Zenon
<1>9. Stands(b, i, w1) /\ Stands(b, i + Len(w1), IntBytes(Len(a.terms)))
  <2> HIDE DEF w1
  <2>1. QED
    BY <1>5, <1>6, <1>8, StandsJoin, Zenon
<1>10. Stands(b, i, StrBytes(a.name)) /\ Stands(b, i + Len(StrBytes(a.name)), IntBytes(r))
  BY <1>5, <1>9, StandsJoin, Zenon
<1> HIDE DEF w1, w2
<1>11. PICK i1 \in Nat, i2 \in Nat, i3 \in Nat :
         /\ i1 = i + (4 + m) /\ i2 = i1 + 4 /\ i3 = i2 + 4
         /\ i2 = i + Len(w1) /\ i3 = i + Len(w2) /\ i1 = i + Len(StrBytes(a.name))
         /\ i3 + n = i + Len(FormulaBytes(a))
  <2>1. Len(FormulaBytes(a)) = 12 + m + n
    BY FormulaWritten
  <2> HIDE DEF m, n
  <2>2. /\ i + (4 + m) \in Nat /\ i + (4 + m) + 4 \in Nat /\ i + (4 + m) + 4 + 4 \in Nat
        /\ i + (4 + m) + 4 = i + ((4 + m) + 4)
        /\ i + (4 + m) + 4 + 4 = i + (((4 + m) + 4) + 4)
        /\ i + (4 + m) + 4 + 4 + n = i + (12 + m + n)
    BY <1>2
  <2>3. QED
    BY <1>5, <1>6, <1>7, <2>1, <2>2, Zenon
<1>12. StrAt(b, i) = [val |-> a.name, next |-> i1]
  BY <1>1, <1>10, <1>11, StringRead, Zenon
<1>13. IntAt(b, i1) = [val |-> r, next |-> i2]
  BY <1>3, <1>10, <1>11, IntegerRead, Zenon
<1>14. IntAt(b, i2) = [val |-> Len(a.terms), next |-> i3]
  BY <1>3, <1>9, <1>11, IntegerRead, Zenon
<1>15. TermsAt(b, i3, Len(a.terms)) = [val |-> a.terms, next |-> i3 + n]
  BY <1>1, <1>8, <1>11, TermsRead, Zenon
<1>16. FormulaAt(b, i) =
         [val  |-> [name |-> a.name, kind |-> IF r # 0 THEN "reactor" ELSE "belief",
                    terms |-> a.terms],
          next |-> i3 + n]
  <2> HIDE DEF m, n
  <2>1. QED
    BY <1>12, <1>13, <1>14, <1>15 DEF FormulaAt
<1>17. [name |-> a.name, kind |-> IF r # 0 THEN "reactor" ELSE "belief", terms |-> a.terms]
         = Received(a)
  BY DEF r, Received, Formula
<1>18. QED
  BY <1>11, <1>16, <1>17, Zenon

LEMMA PacketWritten ==
  ASSUME NEW from \in Seq(Chars), NEW to \in Seq(Chars), NEW a \in Formula
  PROVE  /\ Packet(from, to, a) \in Seq(Byte)
         /\ Len(Packet(from, to, a))
              = 24 + Len(from) + Len(to) + Len(a.name) + Len(TermsBytes(a.terms))
<1> DEFINE magic == Bytes("magic", 0, 4)
           w1 == magic \o StrBytes(from)
           w2 == w1 \o StrBytes(to)
<1>1. /\ magic \in Seq(Byte) /\ Len(magic) = 4
      /\ StrBytes(from) \in Seq(Byte) /\ Len(StrBytes(from)) = 4 + Len(from)
      /\ StrBytes(to) \in Seq(Byte) /\ Len(StrBytes(to)) = 4 + Len(to)
      /\ FormulaBytes(a) \in Seq(Byte)
      /\ Len(FormulaBytes(a)) = 12 + Len(a.name) + Len(TermsBytes(a.terms))
  <2>1. 0 \in Scalar /\ 4 \in Nat /\ "magic" \in {"magic", "int", "double", "char"}
    BY DEF Scalar
  <2>2. QED
    BY <2>1, NumberBytes, StringBytes, FormulaWritten, Zenon
<1>2. Packet(from, to, a) = w2 \o FormulaBytes(a)
  BY DEF Packet
<1> HIDE DEF magic
<1>3. w1 \in Seq(Byte) /\ Len(w1) = Len(magic) + Len(StrBytes(from))
  BY <1>1, JoinedBytes, Zenon
<1> HIDE DEF w1
<1>4. w2 \in Seq(Byte) /\ Len(w2) = Len(w1) + Len(StrBytes(to))
  BY <1>1, <1>3, JoinedBytes, Zenon
<1> HIDE DEF w2
<1>5. /\ w2 \o FormulaBytes(a) \in Seq(Byte)
      /\ Len(w2 \o FormulaBytes(a)) = Len(w2) + Len(FormulaBytes(a))
  BY <1>1, <1>4, JoinedBytes, Zenon
<1>6. PICK x \in Nat, y \in Nat, z \in Nat, t \in Nat :
        x = Len(from) /\ y = Len(to) /\ z = Len(a.name) /\ t = Len(TermsBytes(a.terms))
  <2>1. a.name \in Seq(Chars) /\ a.terms \in Seq(Term)
    BY DEF Formula
  <2>2. Len(from) \in Nat /\ Len(to) \in Nat /\ Len(a.name) \in Nat
        /\ Len(TermsBytes(a.terms)) \in Nat
    BY <2>1, TermsBytesLength
  <2>3. QED
    BY <2>2
<1>7. (4 + (4 + x)) + (4 + y) + (12 + z + t) = 24 + x + y + z + t
  OBVIOUS
<1>8. Len(w2 \o FormulaBytes(a)) = (4 + (4 + x)) + (4 + y) + (12 + z + t)
  BY <1>1, <1>3, <1>4, <1>5, <1>6, Zenon
<1>9. QED
  BY <1>2, <1>5, <1>6, <1>7, <1>8, Zenon

\* The reader makes of a packet what was put into it, and stops where it ends.
THEOREM PacketReturns ==
  ASSUME NEW from \in Seq(Chars), NEW to \in Seq(Chars), NEW a \in Formula
  PROVE  Message(Packet(from, to, a)) =
           [good |-> TRUE, source |-> from, dest |-> to, formula |-> Received(a),
            next |-> Len(Packet(from, to, a)) + 1]
<1> DEFINE magic == Bytes("magic", 0, 4)
           w1 == magic \o StrBytes(from)
           w2 == w1 \o StrBytes(to)
           b == Packet(from, to, a)
<1>1. /\ magic \in Seq(Byte) /\ Len(magic) = 4
      /\ StrBytes(from) \in Seq(Byte) /\ StrBytes(to) \in Seq(Byte)
      /\ FormulaBytes(a) \in Seq(Byte) /\ b \in Seq(Byte) /\ 0 \in Scalar
  <2>1. 0 \in Scalar /\ 4 \in Nat /\ "magic" \in {"magic", "int", "double", "char"}
    BY DEF Scalar
  <2>2. QED
    BY <2>1, NumberBytes, StringBytes, FormulaWritten, PacketWritten, Zenon
<1>2. b = w2 \o FormulaBytes(a)
  BY DEF Packet
<1>3. Stands(b, 1, b)
  <2> HIDE DEF b
  <2>1. QED
    BY <1>1 DEF Stands
<1> HIDE DEF b, magic
<1>4. w1 \in Seq(Byte) /\ Len(w1) = Len(magic) + Len(StrBytes(from))
  BY <1>1, JoinedBytes, Zenon
<1> HIDE DEF w1
<1>5. w2 \in Seq(Byte) /\ Len(w2) = Len(w1) + Len(StrBytes(to))
  BY <1>1, <1>4, JoinedBytes, Zenon
<1> HIDE DEF w2
<1>6. Len(b) = Len(w2) + Len(FormulaBytes(a))
  BY <1>1, <1>2, <1>5, JoinedBytes, Zenon
<1>7. 1 \in Nat
  OBVIOUS
<1>8. Stands(b, 1, w2) /\ Stands(b, 1 + Len(w2), FormulaBytes(a))
  BY <1>1, <1>2, <1>3, <1>5, <1>7, StandsJoin, Zenon
<1>9. Stands(b, 1, w1) /\ Stands(b, 1 + Len(w1), StrBytes(to))
  <2>1. w2 = w1 \o StrBytes(to)
    BY DEF w2
  <2>2. QED
    BY <1>1, <1>4, <1>7, <1>8, <2>1, StandsJoin, Zenon
<1>10. Stands(b, 1, magic) /\ Stands(b, 1 + Len(magic), StrBytes(from))
  <2>1. w1 = magic \o StrBytes(from)
    BY DEF w1
  <2>2. QED
    BY <1>1, <1>7, <1>9, <2>1, StandsJoin, Zenon
<1>11. PICK i2 \in Nat, i3 \in Nat :
         /\ i2 = 5 + Len(StrBytes(from)) /\ i3 = i2 + Len(StrBytes(to))
         /\ i2 = 1 + Len(w1) /\ i3 = 1 + Len(w2) /\ 1 + Len(magic) = 5
         /\ i3 + Len(FormulaBytes(a)) = Len(b) + 1
  <2>1. PICK x \in Nat, y \in Nat, z \in Nat :
          x = Len(StrBytes(from)) /\ y = Len(StrBytes(to)) /\ z = Len(FormulaBytes(a))
    <3>1. /\ Len(StrBytes(from)) \in Nat /\ Len(StrBytes(to)) \in Nat
          /\ Len(FormulaBytes(a)) \in Nat
      BY <1>1
    <3>2. QED
      BY <3>1
  <2>2. /\ 5 + x \in Nat /\ (5 + x) + y \in Nat /\ 5 + x = 1 + (4 + x) /\ 1 + 4 = 5
        /\ (5 + x) + y = 1 + ((4 + x) + y)
        /\ ((5 + x) + y) + z = (((4 + x) + y) + z) + 1
    OBVIOUS
  <2>3. Len(w1) = 4 + x
    BY <1>1, <1>4, <2>1, Zenon
  <2>4. Len(w2) = (4 + x) + y
    BY <1>5, <2>1, <2>3, Zenon
  <2>5. Len(b) = ((4 + x) + y) + z
    BY <1>6, <2>1, <2>4, Zenon
  <2>6. 1 + Len(magic) = 5
    BY <1>1, <2>2, Zenon
  <2>7. QED
    BY <2>1, <2>2, <2>3, <2>4, <2>5, <2>6, Zenon
<1>12. StrAt(b, 5) = [val |-> from, next |-> i2]
  <2>1. 5 \in Nat
    OBVIOUS
  <2>2. QED
    BY <1>10, <1>11, <2>1, StringRead, Zenon
<1>13. StrAt(b, i2) = [val |-> to, next |-> i3]
  BY <1>9, <1>11, StringRead, Zenon
<1>14. FormulaAt(b, i3) = [val |-> Received(a), next |-> Len(b) + 1]
  BY <1>8, <1>11, FormulaRead, Zenon
<1>15. NumberAt(b, 1, "magic", 4).val = 0
  <2>1. 4 \in Nat \ {0} /\ "magic" \in {"magic", "int", "double", "char"}
    OBVIOUS
  <2>2. Stands(b, 1, Bytes("magic", 0, 4))
    BY <1>10 DEF magic
  <2>3. NumberAt(b, 1, "magic", 4) = [val |-> 0, next |-> 1 + 4]
    BY <1>1, <1>7, <2>1, <2>2, NumberRead
  <2>4. QED
    BY <2>3
<1>16. Message(b) = [good |-> TRUE, source |-> from, dest |-> to, formula |-> Received(a),
                     next |-> Len(b) + 1]
  <2> DEFINE good == NumberAt(b, 1, "magic", 4).val = 0
  <2>1. good = TRUE
    BY <1>15
  <2>2. Message(b) = [good |-> good, source |-> StrAt(b, 5).val,
                      dest |-> StrAt(b, StrAt(b, 5).next).val,
                      formula |-> FormulaAt(b, StrAt(b, StrAt(b, 5).next).next).val,
                      next |-> FormulaAt(b, StrAt(b, StrAt(b, 5).next).next).next]
    BY Zenon DEF Message
  <2>3. /\ StrAt(b, 5).val = from /\ StrAt(b, 5).next = i2
        /\ StrAt(b, i2).val = to /\ StrAt(b, i2).next = i3
        /\ FormulaAt(b, i3).val = Received(a) /\ FormulaAt(b, i3).next = Len(b) + 1
    BY <1>12, <1>13, <1>14
  <2> HIDE DEF good
  <2>4. QED
    BY <2>1, <2>2, <2>3, Zenon
<1>17. QED
  BY <1>16 DEF b

(***************************************************************************)
(* The length of a packet.                                                 *)
(***************************************************************************)
Extra(t) == IF t.type = _string THEN Len(t.val) ELSE 0

\* c[n] counts the characters up to the first n terms.
CountedUpTo(terms, c, k) ==
  /\ c \in [0 .. Len(terms) -> Nat]
  /\ c[0] = k
  /\ \A n \in 1 .. Len(terms) : c[n] = c[n - 1] + Extra(terms[n])

LEMMA CharactersCounted ==
  ASSUME NEW from \in Seq(Chars), NEW to \in Seq(Chars), NEW a \in Formula
  PROVE  \E c : /\ CountedUpTo(a.terms, c, Len(from) + Len(to) + Len(a.name))
                /\ Characters(from, to, a) = c[Len(a.terms)]
<1> DEFINE N == Len(a.terms)
           k == Len(from) + Len(to) + Len(a.name)
           F == [p \in Nat \X (1 .. N) |-> p[1] + Extra(a.terms[p[2]])]
           Is(f) == f = [n \in 0 .. N |-> IF n = 0 THEN k
                           ELSE f[n - 1] + (IF a.terms[n].type = _string
                                            THEN Len(a.terms[n].val) ELSE 0)]
           c == CHOOSE f : Is(f)
<1>1. N \in Nat /\ k \in Nat /\ \A n \in 1 .. N : Extra(a.terms[n]) \in Nat
  <2>1. a.name \in Seq(Chars) /\ a.terms \in Seq(Term)
    BY DEF Formula
  <2>2. \A t \in Term : Extra(t) \in Nat
    BY DEF Term, Extra, _int, _float, _string
  <2>3. Len(from) \in Nat /\ Len(to) \in Nat /\ Len(a.name) \in Nat /\ N \in Nat
    BY <2>1
  <2>4. \A n \in 1 .. N : Extra(a.terms[n]) \in Nat
    BY <2>1, <2>2
  <2>5. k \in Nat
    <3>1. PICK x \in Nat, y \in Nat, z \in Nat :
            x = Len(from) /\ y = Len(to) /\ z = Len(a.name)
      BY <2>3
    <3>2. x + y + z \in Nat
      OBVIOUS
    <3>3. QED
      BY <3>1, <3>2, Zenon
  <2>6. QED
    BY <2>3, <2>4, <2>5, Zenon
<1>2. F \in [Nat \X (1 .. N) -> Nat]
  <2>1. \A p \in Nat \X (1 .. N) : p[1] \in Nat /\ p[2] \in 1 .. N
    OBVIOUS
  <2>2. \A p \in Nat \X (1 .. N) : p[1] + Extra(a.terms[p[2]]) \in Nat
    BY <1>1, <2>1
  <2>3. QED
    BY <2>2
<1> HIDE DEF k
<1>3. PICK g \in [0 .. N -> Nat] : Recurs(g, N, k, F)
  <2> HIDE DEF F, N
  <2>1. QED
    BY <1>1, <1>2, RecursionExists
<1>4. ASSUME NEW n \in 1 .. N
      PROVE  g[n] = g[n - 1] + Extra(a.terms[n])
  <2>1. n - 1 \in 0 .. N
    OBVIOUS
  <2>2. <<g[n - 1], n>> \in Nat \X (1 .. N)
    BY <2>1
  <2>3. F[<<g[n - 1], n>>] = g[n - 1] + Extra(a.terms[n])
    BY <2>2
  <2>4. QED
    BY <1>3, <2>3 DEF Recurs
<1>5. Is(g)
  <2>1. ASSUME NEW n \in 0 .. N
        PROVE  g[n] = IF n = 0 THEN k ELSE g[n - 1] + Extra(a.terms[n])
    <3>1. CASE n = 0
      BY <1>3, <3>1 DEF Recurs
    <3>2. CASE n # 0
      <4>1. n \in 1 .. N
        BY <3>2
      <4>2. QED
        BY <1>4, <3>2, <4>1, Zenon
    <3>3. QED
      BY <3>1, <3>2
  <2>2. g = [n \in 0 .. N |-> g[n]]
    OBVIOUS
  <2>3. QED
    BY <2>1, <2>2 DEF Extra
<1>6. Is(c)
  <2> HIDE DEF Is
  <2>1. QED
    BY <1>5
<1>7. Characters(from, to, a) = c[N]
  BY DEF Characters, k
<1> HIDE DEF c
<1>8. /\ DOMAIN c = 0 .. N /\ c[0] = k
      /\ \A n \in 1 .. N : c[n] = c[n - 1] + Extra(a.terms[n])
      /\ c = [n \in 0 .. N |-> c[n]]
  <2>1. \A n \in 0 .. N : c[n] = IF n = 0 THEN k ELSE c[n - 1] + Extra(a.terms[n])
    BY <1>6, Zenon DEF Extra
  <2>2. DOMAIN c = 0 .. N /\ c = [n \in 0 .. N |-> c[n]]
    BY <1>6, Zenon
  <2>3. (\A n \in 1 .. N : n \in 0 .. N /\ n # 0) /\ 0 \in 0 .. N
    BY <1>1
  <2>4. QED
    BY <2>1, <2>2, <2>3, Zenon
<1>9. \A n \in 0 .. N : c[n] \in Nat
  <2> DEFINE T == {n \in 0 .. N : c[n] \in Nat}
  <2>1. 0 \in T
    <3>1. 0 \in 0 .. N
      BY <1>1
    <3>2. QED
      BY <1>1, <1>8, <3>1, Zenon
  <2>2. ASSUME NEW n \in 1 .. N, n - 1 \in T
        PROVE  n \in T
    <3>1. n \in 0 .. N /\ c[n - 1] \in Nat
      BY <2>2
    <3>2. c[n - 1] + Extra(a.terms[n]) \in Nat
      BY <1>1, <3>1
    <3>4. c[n] \in Nat
      BY <1>8, <3>2, Zenon
    <3>3. QED
      BY <3>1, <3>4
  <2> HIDE DEF T
  <2>3. \A n \in 0 .. N : n \in T
    BY <1>1, <2>1, <2>2, BoundedInduction
  <2>4. QED
    BY <2>3 DEF T
<1>10. CountedUpTo(a.terms, c, k)
  BY <1>8, <1>9 DEF CountedUpTo
<1>11. QED
  BY <1>7, <1>10 DEF k

\* The terms take at most 12 bytes each and the characters of their strings.
LEMMA TermsTake ==
  ASSUME NEW from \in Seq(Chars), NEW to \in Seq(Chars), NEW a \in Formula
  PROVE  /\ Characters(from, to, a) \in Nat
         /\ Len(TermsBytes(a.terms)) + (Len(from) + Len(to) + Len(a.name))
              <= 12 * Len(a.terms) + Characters(from, to, a)
<1> DEFINE N == Len(a.terms)
           k == Len(from) + Len(to) + Len(a.name)
<1>1. /\ a.terms \in Seq(Term) /\ N \in Nat /\ k \in Nat
      /\ \A n \in 1 .. N : a.terms[n] \in Term
  BY DEF Formula
<1> HIDE DEF k
<1>2. PICK h : WrittenUpTo(a.terms, h) /\ TermsBytes(a.terms) = h[N]
  BY <1>1, TermsWritten
<1>3. PICK c : CountedUpTo(a.terms, c, k) /\ Characters(from, to, a) = c[N]
  BY CharactersCounted DEF k
<1>4. /\ h[0] = <<>> /\ \A n \in 0 .. N : h[n] \in Seq(Byte) /\ Len(h[n]) \in Nat
      /\ \A n \in 1 .. N : h[n] = h[n - 1] \o TermBytes(a.terms[n])
  <2>1. h \in [0 .. N -> Seq(Byte)]
    BY <1>2 DEF WrittenUpTo
  <2>2. h[0] = <<>> /\ \A n \in 1 .. N : h[n] = h[n - 1] \o TermBytes(a.terms[n])
    BY <1>2, Zenon DEF WrittenUpTo
  <2>3. \A n \in 0 .. N : h[n] \in Seq(Byte) /\ Len(h[n]) \in Nat
    BY <2>1
  <2>4. QED
    BY <2>2, <2>3, Zenon
<1>5. /\ c[0] = k /\ \A n \in 0 .. N : c[n] \in Nat
      /\ \A n \in 1 .. N : c[n] = c[n - 1] + Extra(a.terms[n])
  BY <1>3 DEF CountedUpTo
<1> DEFINE T == {n \in 0 .. N : Len(h[n]) + k <= 12 * n + c[n]}
<1>6. 0 \in T
  <2>1. 0 \in 0 .. N /\ Len(h[0]) = 0
    BY <1>1, <1>4
  <2>2. Len(h[0]) + k <= 12 * 0 + c[0]
    BY <1>1, <1>5, <2>1
  <2>3. QED
    BY <2>1, <2>2
<1>7. ASSUME NEW n \in 1 .. N, n - 1 \in T
      PROVE  n \in T
  <2>1. n \in 0 .. N /\ n - 1 \in 0 .. N /\ a.terms[n] \in Term
    BY <1>1
  <2>2. /\ TermBytes(a.terms[n]) \in Seq(Byte)
        /\ Len(TermBytes(a.terms[n])) <= 12 + Extra(a.terms[n])
    BY <2>1, TermWritten DEF Extra
  <2>3. Len(h[n]) = Len(h[n - 1]) + Len(TermBytes(a.terms[n]))
    <3>1. h[n - 1] \in Seq(Byte)
      BY <1>4, <2>1
    <3>2. Len(h[n - 1] \o TermBytes(a.terms[n])) = Len(h[n - 1]) + Len(TermBytes(a.terms[n]))
      BY <2>2, <3>1, JoinedBytes, Zenon
    <3>3. QED
      BY <1>4, <3>2, Zenon
  <2>4. Len(h[n - 1]) + k <= 12 * (n - 1) + c[n - 1]
    BY <1>7
  <2>5. PICK l \in Nat, m \in Nat, x \in Nat, d \in Nat :
          /\ l = Len(h[n - 1]) /\ m = Len(TermBytes(a.terms[n]))
          /\ x = Extra(a.terms[n]) /\ d = c[n - 1]
    <3>1. Len(h[n - 1]) \in Nat /\ Len(TermBytes(a.terms[n])) \in Nat /\ c[n - 1] \in Nat
      BY <1>4, <1>5, <2>1, <2>2
    <3>2. Extra(a.terms[n]) \in Nat
      BY <2>1 DEF Extra, Term, _int, _float, _string
    <3>3. QED
      BY <3>1, <3>2
  <2>6. l + k <= 12 * (n - 1) + d /\ m <= 12 + x
    BY <2>2, <2>4, <2>5, Zenon
  <2>7. (l + m) + k <= 12 * n + (d + x)
    BY <1>1, <2>6
  <2>8. Len(h[n]) = l + m /\ c[n] = d + x
    BY <1>5, <2>3, <2>5, Zenon
  <2>9. Len(h[n]) + k <= 12 * n + c[n]
    BY <2>7, <2>8, Zenon
  <2>10. QED
    BY <2>1, <2>9
<1>8. N \in T
  <2>1. N \in 0 .. N
    BY <1>1
  <2> HIDE DEF T, N
  <2>2. \A n \in 0 .. N : n \in T
    BY <1>1, <1>6, <1>7, BoundedInduction
  <2>3. QED
    BY <2>1, <2>2
<1>9. Characters(from, to, a) \in Nat
  <2>1. N \in 0 .. N
    BY <1>1
  <2>2. QED
    BY <1>3, <1>5, <2>1
<1>10. Len(h[N]) + k <= 12 * N + c[N]
  BY <1>8
<1>11. QED
  BY <1>2, <1>3, <1>9, <1>10, Zenon DEF k

-------------------------------------------------------------------------------
(***************************************************************************)
(* Messages on their way.                                                  *)
(***************************************************************************)
\* The inductive invariant: the parts of a message are what the code makes them of.
WireInv == sender \in Sender /\ dest \in Seq(Chars) /\ formula \in Formula

\* Names and formulas of any length are made of characters and terms (Wire's Init and
\* Next), which is all that the properties of a message rest on.
THEOREM WireInvariant == WireSpec => []WireInv
<1>1. WireInit => WireInv
  BY DEF WireInit, WireInv
<1>2. WireInv /\ [WireNext]_wireVars => WireInv'
  <2> SUFFICES ASSUME WireInv, [WireNext]_wireVars
               PROVE  WireInv'
    OBVIOUS
  <2>1. ASSUME NEW c \in Chars, NameGrows(c)
        PROVE  WireInv'
    <3>1. Append(sender.name, c) \in Seq(Chars)
      BY DEF WireInv, Sender
    <3>2. sender' \in Sender
      BY <2>1, <3>1 DEF WireInv, Sender, NameGrows
    <3> QED
      BY <2>1, <3>2 DEF WireInv, NameGrows
  <2>2. ASSUME NEW t \in Term, FormulaGrows(t)
        PROVE  WireInv'
    <3>1. Append(formula.terms, t) \in Seq(Term)
      BY DEF WireInv, Formula
    <3>2. formula' \in Formula
      BY <2>2, <3>1 DEF WireInv, Formula, FormulaGrows
    <3> QED
      BY <2>2, <3>2 DEF WireInv, FormulaGrows
  <2>3. CASE UNCHANGED wireVars
    BY <2>3 DEF WireInv, wireVars
  <2> QED
    BY <2>1, <2>2, <2>3 DEF WireNext
<1> QED
  BY <1>1, <1>2, PTL DEF WireSpec

LEMMA SourceIsText ==
  ASSUME WireInv
  PROVE  source \in Seq(Chars)
<1>1. /\ sender.protocol \in Seq(Letters) /\ sender.host \in Seq(Letters)
      /\ sender.port \in Seq(Letters) /\ sender.name \in Seq(Chars)
  BY DEF WireInv, Sender
<1>2. Places(source, sender.protocol, sender.host, sender.port, sender.name)
  BY <1>1, SourceUrlChars DEF source
<1> QED
  BY <1>2 DEF Places

\* Whatever is sent, the other process gets it back from the bytes of the packet and
\* nothing else: MessageReturns (packet.cpp:28-97, tcp_protocol.cpp:118-126, 158-162).
THEOREM MessagesReturn == WireSpec => []MessageReturns
<1>1. WireInv => MessageReturns
  <2> SUFFICES ASSUME WireInv
               PROVE  MessageReturns
    OBVIOUS
  <2>1. Message(packet) =
          [good |-> TRUE, source |-> source, dest |-> dest, formula |-> Received(formula),
           next |-> Len(packet) + 1]
    BY SourceIsText, PacketReturns DEF WireInv, packet
  <2> QED
    BY <2>1, Zenon DEF MessageReturns, Received
<1> QED
  BY <1>1, WireInvariant, PTL

\* c.sender() of a message that came through a packet leads back to the process and the
\* agent that sent it: AnswerFindsSender (tcp_protocol.cpp:119-129, 158, url.cpp:14-53).
THEOREM AnswersFindSender == WireSpec => []AnswerFindsSender
<1>1. WireInv => AnswerFindsSender
  <2> SUFFICES ASSUME WireInv
               PROVE  AnswerFindsSender
    OBVIOUS
  <2>1. Message(packet).source = source
    <3>1. Message(packet) =
            [good |-> TRUE, source |-> source, dest |-> dest, formula |-> Received(formula),
             next |-> Len(packet) + 1]
      BY SourceIsText, PacketReturns DEF WireInv, packet
    <3> QED
      BY <3>1
  <2>2. /\ sender.protocol \in Seq(Letters) /\ sender.host \in Seq(Letters)
        /\ sender.port \in Seq(Letters) /\ sender.name \in Seq(Chars)
    BY DEF WireInv, Sender
  <2>3. Parse(source) = [is_good |-> TRUE, protocol |-> LowerCase(sender.protocol),
                         host |-> LowerCase(sender.host), port |-> sender.port,
                         path |-> sender.name]
    BY <2>2, SourceUrlRoundTrip DEF SourceUrlParses, source
  <2> DEFINE answer == Parse(Message(packet).source)
  <2>4. /\ answer.is_good /\ answer.host = LowerCase(sender.host)
        /\ answer.port = sender.port /\ answer.path = sender.name
    <3>1. answer = Parse(source)
      BY <2>1
    <3> HIDE DEF answer
    <3> QED
      BY <2>3, <3>1
  <2> QED
    BY <2>4 DEF AnswerFindsSender
<1> QED
  BY <1>1, WireInvariant, PTL

\* An agent that keeps to 24 bytes, 12 for each term and the characters of all strings
\* never writes past the buffer, nor makes the receiver do so, whatever the sizes:
\* ShortMessagesFit (binary_stream.h:13-71, tcp_protocol.cpp:112-118).
THEOREM ShortMessagesAlwaysFit == WireSpec => []ShortMessagesFit
<1>1. WireInv => ShortMessagesFit
  <2> SUFFICES ASSUME WireInv,
                      24 + 12 * Len(formula.terms) + Characters(source, dest, formula)
                        <= STREAM_SIZE
               PROVE  Fits(source, dest, formula) /\ FillFits(packet)
    BY DEF ShortMessagesFit
  <2>1. source \in Seq(Chars) /\ dest \in Seq(Chars) /\ formula \in Formula
    BY SourceIsText DEF WireInv
  <2>2. /\ Characters(source, dest, formula) \in Nat
        /\ Len(TermsBytes(formula.terms)) + (Len(source) + Len(dest) + Len(formula.name))
             <= 12 * Len(formula.terms) + Characters(source, dest, formula)
    BY <2>1, TermsTake, Zenon
  <2>3. Len(Packet(source, dest, formula)) =
          24 + Len(source) + Len(dest) + Len(formula.name) + Len(TermsBytes(formula.terms))
    BY <2>1, PacketWritten, Zenon
  <2>4. PICK x \in Nat, y \in Nat, z \in Nat, t \in Nat, n \in Nat, c \in Nat :
          /\ x = Len(source) /\ y = Len(dest) /\ z = Len(formula.name)
          /\ t = Len(TermsBytes(formula.terms)) /\ n = Len(formula.terms)
          /\ c = Characters(source, dest, formula)
    <3>1. formula.name \in Seq(Chars) /\ formula.terms \in Seq(Term)
      BY <2>1 DEF Formula
    <3>2. /\ Len(source) \in Nat /\ Len(dest) \in Nat /\ Len(formula.name) \in Nat
          /\ Len(TermsBytes(formula.terms)) \in Nat /\ Len(formula.terms) \in Nat
      BY <2>1, <3>1, TermsBytesLength
    <3> QED
      BY <2>2, <3>2
  <2>5. t + (x + y + z) <= 12 * n + c /\ 24 + 12 * n + c <= STREAM_SIZE
    BY <2>2, <2>4, Zenon
  <2>6. 24 + x + y + z + t <= STREAM_SIZE
    BY <2>5, StreamAssumption
  <2>7. Len(packet) = 24 + x + y + z + t
    BY <2>3, <2>4, Zenon DEF packet
  <2>8. Fits(source, dest, formula)
    BY <2>6, <2>7 DEF packet, Fits
  <2>9. FillFits(packet)
    BY <2>6, <2>7, StreamAssumption DEF FillFits, BytesRead
  <2> QED
    BY <2>8, <2>9
<1> QED
  BY <1>1, WireInvariant, PTL

\* A URL without a port leads to the agent if and only if its name has no colon:
\* PortlessUrlIsParsed (url.cpp:31-40).
THEOREM PortlessUrlsAreParsed == WireSpec => []PortlessUrlIsParsed
<1>1. WireInv => PortlessUrlIsParsed
  BY PortlessUrlParsesWithoutColon DEF WireInv, Sender, PortlessUrlIsParsed
<1> QED
  BY <1>1, WireInvariant, PTL
===============================================================================
