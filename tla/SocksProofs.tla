---------------------------- MODULE SocksProofs ----------------------------
(***************************************************************************)
(* The SOCKS front end understands every well-formed request, however TCP  *)
(* cuts the conversation, and loses nothing of the data behind it: for     *)
(* every set of requests, payload, set of targets and limits.              *)
(*                                                                         *)
(* The parser consumes a request in at most three bites: the version, the  *)
(* methods, the request proper.  The invariant says which of the bites     *)
(* have been taken (used), and that the state of the parser, the readiness *)
(* of the circuit and the outbound connections belong to that moment.      *)
(***************************************************************************)
EXTENDS Socks, SequenceTheorems, TLAPS

(***************************************************************************)
(* The bytes of a conversation.                                            *)
(***************************************************************************)
\* What a concatenation holds.
LEMMA Joined ==
    ASSUME NEW a \in Seq(Byte), NEW b \in Seq(Byte)
    PROVE  /\ a \o b \in Seq(Byte)
           /\ Len(a \o b) = Len(a) + Len(b)
           /\ \A i \in 1 .. Len(a) : (a \o b)[i] = a[i]
           /\ \A i \in 1 .. Len(b) : (a \o b)[Len(a) + i] = b[i]
<1>1. Len(a) \in Nat /\ Len(b) \in Nat
  OBVIOUS
<1>2. a \o b \in Seq(Byte) /\ Len(a \o b) = Len(a) + Len(b)
  BY ConcatProperties
<1>3. \A i \in 1 .. Len(a) + Len(b) :
          (a \o b)[i] = IF i <= Len(a) THEN a[i] ELSE b[i - Len(a)]
  BY ConcatProperties
<1>4. \A i \in 1 .. Len(a) : (a \o b)[i] = a[i]
  BY <1>1, <1>3
<1>5. ASSUME NEW i \in 1 .. Len(b) PROVE (a \o b)[Len(a) + i] = b[i]
  <2>1. Len(a) + i \in 1 .. Len(a) + Len(b) /\ ~(Len(a) + i <= Len(a))
    BY <1>1
  <2>2. Len(a) + i - Len(a) = i
    BY <1>1
  <2> QED
    BY <2>1, <2>2, <1>3
<1> QED
  BY <1>2, <1>4, <1>5

\* The same, with names for the result and the lengths: the provers are
\* better off without the concatenation.
IsCat(c, a, b) == c = a \o b

LEMMA Grown ==
    ASSUME NEW a \in Seq(Byte), NEW b \in Seq(Byte), NEW c, IsCat(c, a, b),
           NEW m \in Nat, Len(a) = m, NEW n \in Nat, Len(b) = n
    PROVE  /\ c \in Seq(Byte)
           /\ Len(c) = m + n
           /\ \A i \in 1 .. m : c[i] = a[i]
           /\ \A i \in 1 .. n : c[m + i] = b[i]
<1>1. c = a \o b
  BY DEF IsCat
<1>2. /\ a \o b \in Seq(Byte)
      /\ Len(a \o b) = Len(a) + Len(b)
      /\ \A i \in 1 .. Len(a) : (a \o b)[i] = a[i]
      /\ \A i \in 1 .. Len(b) : (a \o b)[Len(a) + i] = b[i]
  BY Joined
<1> QED
  BY <1>1, <1>2

LEMMA CatAssoc ==
    ASSUME NEW a \in Seq(Byte), NEW b \in Seq(Byte), NEW c \in Seq(Byte),
           NEW ab, IsCat(ab, a, b), NEW bc, IsCat(bc, b, c),
           NEW d, IsCat(d, ab, c)
    PROVE  IsCat(d, a, bc)
<1>1. (a \o b) \o c = a \o (b \o c)
  BY ConcatAssociative
<1> QED
  BY <1>1 DEF IsCat

\* Sequences are equal when their elements are.
LEMMA SameSeq ==
    ASSUME NEW s \in Seq(Byte), NEW t \in Seq(Byte), Len(s) = Len(t),
           \A i \in 1 .. Len(s) : s[i] = t[i]
    PROVE  s = t
OBVIOUS

\* What a piece of a sequence holds.
LEMMA Piece ==
    ASSUME NEW s \in Seq(Byte), NEW m \in Nat, NEW n \in Nat,
           m <= n, n <= Len(s)
    PROVE  /\ SubSeq(s, m + 1, n) \in Seq(Byte)
           /\ Len(SubSeq(s, m + 1, n)) = n - m
           /\ \A i \in 1 .. n - m : SubSeq(s, m + 1, n)[i] = s[m + i]
<1>1. \A i \in m + 1 .. n : s[i] \in Byte
  OBVIOUS
<1>2. m + 1 \in Int /\ n \in Int /\ n - (m + 1) + 1 = n - m
  OBVIOUS
<1>3. /\ SubSeq(s, m + 1, n) \in Seq(Byte)
      /\ Len(SubSeq(s, m + 1, n)) = IF m + 1 <= n THEN n - (m + 1) + 1 ELSE 0
      /\ \A i \in 1 .. n - (m + 1) + 1 : SubSeq(s, m + 1, n)[i] = s[m + 1 + i - 1]
  BY <1>1, <1>2, SubSeqProperties
<1>4. Len(SubSeq(s, m + 1, n)) = n - m
  BY <1>3
<1>5. \A i \in 1 .. n - m : SubSeq(s, m + 1, n)[i] = s[m + i]
  BY <1>2, <1>3
<1> QED
  BY <1>3, <1>4, <1>5

\* A piece of a piece is a piece.
LEMMA PieceOfPiece ==
    ASSUME NEW s \in Seq(Byte), NEW m \in Nat, NEW n \in Nat,
           m <= n, n <= Len(s),
           NEW i \in Nat, NEW j \in Nat, i <= j, j <= n - m
    PROVE  SubSeq(SubSeq(s, m + 1, n), i + 1, j) = SubSeq(s, m + i + 1, m + j)
<1> DEFINE p == SubSeq(s, m + 1, n)
           q == SubSeq(p, i + 1, j)
           t == SubSeq(s, m + i + 1, m + j)
<1>1. p \in Seq(Byte) /\ Len(p) = n - m /\ \A k \in 1 .. n - m : p[k] = s[m + k]
  BY Piece
<1>2. q \in Seq(Byte) /\ Len(q) = j - i /\ \A k \in 1 .. j - i : q[k] = p[i + k]
  <2>1. j <= Len(p)
    BY <1>1
  <2> HIDE DEF p
  <2> QED
    BY <1>1, <2>1, Piece
<1>3. t \in Seq(Byte) /\ Len(t) = j - i /\ \A k \in 1 .. j - i : t[k] = s[m + i + k]
  <2>1. PICK c \in Nat, d \in Nat : c = m + i /\ d = m + j
    OBVIOUS
  <2>2. c <= d /\ d <= Len(s) /\ d - c = j - i
    BY <2>1
  <2>3. /\ SubSeq(s, c + 1, d) \in Seq(Byte) /\ Len(SubSeq(s, c + 1, d)) = d - c
        /\ \A k \in 1 .. d - c : SubSeq(s, c + 1, d)[k] = s[c + k]
    BY <2>2, Piece
  <2> QED
    BY <2>1, <2>2, <2>3
<1>4. ASSUME NEW k \in 1 .. j - i PROVE q[k] = t[k]
  <2>1. i + k \in 1 .. n - m /\ m + (i + k) = m + i + k
    OBVIOUS
  <2> QED
    BY <2>1, <1>1, <1>2, <1>3
<1> HIDE DEF p, q, t
<1>5. q = t
  BY <1>2, <1>3, <1>4
<1> QED
  BY <1>5 DEF p, q, t

\* A piece is known by its elements.
LEMMA Found ==
    ASSUME NEW s \in Seq(Byte), NEW f \in Seq(Byte), NEW m \in Nat, NEW n \in Nat,
           Len(f) = n, m + n <= Len(s), \A i \in 1 .. n : s[m + i] = f[i]
    PROVE  SubSeq(s, m + 1, m + n) = f
<1>1. PICK d \in Nat : d = m + n
  OBVIOUS
<1>2. m <= d /\ d <= Len(s) /\ d - m = n
  BY <1>1
<1>3. PICK g : g = SubSeq(s, m + 1, d)
  OBVIOUS
<1>4. g \in Seq(Byte) /\ Len(g) = d - m /\ \A i \in 1 .. d - m : g[i] = s[m + i]
  BY <1>2, <1>3, Piece
<1>5. Len(g) = Len(f) /\ \A i \in 1 .. Len(g) : g[i] = f[i]
  BY <1>2, <1>4
<1>6. g = f
  BY <1>4, <1>5, SameSeq
<1> QED
  BY <1>1, <1>3, <1>6

\* A piece of what was put together is what was put there.
LEMMA Field ==
    ASSUME NEW a \in Seq(Byte), NEW f \in Seq(Byte), NEW z \in Seq(Byte),
           NEW b, IsCat(b, a, f), NEW s, IsCat(s, b, z),
           NEW m \in Nat, Len(a) = m, NEW n \in Nat, Len(f) = n
    PROVE  SubSeq(s, m + 1, m + n) = f
<1>1. PICK l \in Nat : Len(z) = l
  OBVIOUS
<1>2. PICK d \in Nat : d = m + n
  OBVIOUS
<1>3. b \in Seq(Byte) /\ Len(b) = d /\ \A i \in 1 .. n : b[m + i] = f[i]
  BY <1>2, Grown
<1>4. s \in Seq(Byte) /\ Len(s) = d + l /\ \A i \in 1 .. d : s[i] = b[i]
  BY <1>1, <1>3, Grown
<1>5. ASSUME NEW i \in 1 .. n PROVE s[m + i] = f[i]
  <2>1. m + i \in 1 .. d
    BY <1>2
  <2> QED
    BY <2>1, <1>3, <1>4
<1>6. m <= d /\ d <= Len(s) /\ d - m = n
  BY <1>1, <1>2, <1>4
<1>7. PICK g : g = SubSeq(s, m + 1, d)
  OBVIOUS
<1>8. g \in Seq(Byte) /\ Len(g) = d - m /\ \A i \in 1 .. d - m : g[i] = s[m + i]
  BY <1>4, <1>6, <1>7, Piece, ZenonT(60)
<1>9. Len(g) = Len(f) /\ \A i \in 1 .. Len(g) : g[i] = f[i]
  BY <1>5, <1>6, <1>8
<1>10. g = f
  BY <1>8, <1>9, SameSeq
<1> QED
  BY <1>2, <1>7, <1>10

\* Short sequences.
LEMMA Short ==
    ASSUME NEW S, NEW a \in S, NEW b \in S, NEW c \in S, NEW d \in S
    PROVE  /\ <<a>> \in Seq(S) /\ Len(<<a>>) = 1 /\ <<a>>[1] = a
           /\ <<a, b>> \in Seq(S) /\ Len(<<a, b>>) = 2
           /\ <<a, b>>[1] = a /\ <<a, b>>[2] = b
           /\ <<a, b, c, d>> \in Seq(S) /\ Len(<<a, b, c, d>>) = 4
           /\ <<a, b, c, d>>[1] = a /\ <<a, b, c, d>>[2] = b
           /\ <<a, b, c, d>>[3] = c /\ <<a, b, c, d>>[4] = d
           /\ <<>> \in Seq(S) /\ Len(<<>>) = 0
OBVIOUS

\* Where a SOCKS5 request has its fields.
LEMMA Text5 ==
    ASSUME NEW r \in Requests, r.version = SOCKS5_VERSION
    PROVE  LET t == Conversation(r)
               k == Len(r.methods)
               x == IF r.atyp = SOCKS5_ATYP_FQDN THEN 1 ELSE 0
               a == Len(r.addr)
           IN  /\ t \in Seq(Byte) /\ k \in Nat /\ a \in Nat
               /\ Len(Encode(r)) = k + 6 + x + a + 2
               /\ Len(t) = Len(Encode(r)) + Len(Payload)
               /\ t[1] = 5 /\ t[2] = k
               /\ \A i \in 1 .. k : t[2 + i] = r.methods[i]
               /\ t[k + 3] = 5 /\ t[k + 4] = r.cmd /\ t[k + 5] = 0
               /\ t[k + 6] = r.atyp
               /\ x = 1 => t[k + 7] = a
               /\ SubSeq(t, k + 6 + x + 1, k + 6 + x + a) = r.addr
               /\ SubSeq(t, k + 6 + x + a + 1, k + 6 + x + a + 2) = r.port
<1>1. /\ r.methods \in Seq(Byte) /\ Len(r.methods) \in Byte /\ r.atyp \in Byte
      /\ r.cmd \in Byte /\ r.addr \in Seq(Byte) /\ Len(r.addr) \in Byte
      /\ r.port \in Seq(Byte) /\ Len(r.port) = 2 /\ Payload \in Seq(Byte)
  BY RequestsAssumption DEF WellFormed
<1>2. PICK me, ad, po, py : me = r.methods /\ ad = r.addr /\ po = r.port /\ py = Payload
  OBVIOUS
<1>3. PICK k, a : Len(me) = k /\ Len(ad) = a
  OBVIOUS
<1>4. /\ me \in Seq(Byte) /\ Len(me) \in Byte /\ ad \in Seq(Byte) /\ Len(ad) \in Byte
      /\ po \in Seq(Byte) /\ Len(po) = 2 /\ py \in Seq(Byte)
  BY <1>2, <1>1
<1>5. /\ k \in Byte /\ a \in Byte /\ k \in Nat /\ a \in Nat
      /\ 5 \in Byte /\ 0 \in Byte
  BY <1>4, <1>3 DEF Byte
<1>6. PICK x : x = IF r.atyp = SOCKS5_ATYP_FQDN THEN 1 ELSE 0
  OBVIOUS
<1>7. x \in Nat
  BY <1>6
<1>8. PICK h, q, l : /\ h = <<5, k>> /\ q = <<5, r.cmd, 0, r.atyp>>
                     /\ l = IF r.atyp = SOCKS5_ATYP_FQDN THEN <<a>> ELSE <<>>
  OBVIOUS
<1>9. h \in Seq(Byte) /\ Len(h) = 2 /\ h[1] = 5 /\ h[2] = k
  BY <1>5, <1>8, Short
<1>10. /\ q \in Seq(Byte) /\ Len(q) = 4
      /\ q[1] = 5 /\ q[2] = r.cmd /\ q[3] = 0 /\ q[4] = r.atyp
  BY <1>1, <1>5, <1>8, Short
<1>11. l \in Seq(Byte) /\ Len(l) = x /\ (x = 1 => l[1] = a)
  BY <1>5, <1>6, <1>8, Short
<1>12. PICK p1, p2, p3, p4, e, t :
         /\ IsCat(p1, h, me) /\ IsCat(p2, p1, q) /\ IsCat(p3, p2, l)
         /\ IsCat(p4, p3, ad) /\ IsCat(e, p4, po) /\ IsCat(t, e, py)
  BY DEF IsCat
<1>13. PICK n1, n2, n3, n4, n5, pl, two, four :
         /\ two + k = n1 /\ n1 + four = n2 /\ n2 + x = n3 /\ n3 + a = n4
         /\ n4 + two = n5 /\ Len(py) = pl /\ two = 2 /\ four = 4
  OBVIOUS
<1>14. /\ n1 \in Nat /\ n2 \in Nat /\ n3 \in Nat /\ n4 \in Nat /\ n5 \in Nat
       /\ pl \in Nat /\ two \in Nat /\ four \in Nat
  BY <1>4, <1>5, <1>7, <1>13
<1>15. /\ two + k = n1 /\ n1 + four = n2 /\ n2 + x = n3 /\ n3 + a = n4
      /\ n4 + two = n5 /\ Len(py) = pl
      /\ Len(h) = two /\ Len(q) = four /\ Len(po) = two
  BY <1>4, <1>9, <1>10, <1>13
<1>16. /\ h \in Seq(Byte) /\ me \in Seq(Byte) /\ q \in Seq(Byte) /\ ad \in Seq(Byte)
      /\ po \in Seq(Byte) /\ py \in Seq(Byte)
  BY <1>4, <1>9, <1>10
<1>17. /\ p1 \in Seq(Byte) /\ Len(p1) = n1 /\ \A i \in 1 .. two : p1[i] = h[i]
       /\ \A i \in 1 .. k : p1[two + i] = me[i]
  <2>1. h \in Seq(Byte) /\ me \in Seq(Byte) /\ IsCat(p1, h, me)
    BY <1>16, <1>12
  <2>2. two \in Nat /\ Len(h) = two /\ k \in Nat /\ Len(me) = k /\ two + k = n1
    BY <1>3, <1>5, <1>15, <1>14
  <2> QED
    BY <2>1, <2>2, Grown
<1>18. /\ p2 \in Seq(Byte) /\ Len(p2) = n2 /\ \A i \in 1 .. n1 : p2[i] = p1[i]
       /\ \A i \in 1 .. four : p2[n1 + i] = q[i]
  <2>1. p1 \in Seq(Byte) /\ q \in Seq(Byte) /\ IsCat(p2, p1, q)
    BY <1>12, <1>16, <1>17
  <2>2. n1 \in Nat /\ Len(p1) = n1 /\ four \in Nat /\ Len(q) = four /\ n1 + four = n2
    BY <1>14, <1>15, <1>17
  <2> QED
    BY <2>1, <2>2, Grown
<1>19. /\ p3 \in Seq(Byte) /\ Len(p3) = n3 /\ \A i \in 1 .. n2 : p3[i] = p2[i]
       /\ \A i \in 1 .. x : p3[n2 + i] = l[i]
  <2>1. p2 \in Seq(Byte) /\ l \in Seq(Byte) /\ IsCat(p3, p2, l)
    BY <1>11, <1>12, <1>18
  <2>2. n2 \in Nat /\ Len(p2) = n2 /\ x \in Nat /\ Len(l) = x /\ n2 + x = n3
    BY <1>7, <1>11, <1>14, <1>15, <1>18
  <2> QED
    BY <2>1, <2>2, Grown
<1>20. p4 \in Seq(Byte) /\ Len(p4) = n4 /\ \A i \in 1 .. n3 : p4[i] = p3[i]
  <2>1. p3 \in Seq(Byte) /\ ad \in Seq(Byte) /\ IsCat(p4, p3, ad)
    BY <1>12, <1>16, <1>19
  <2>2. n3 \in Nat /\ Len(p3) = n3 /\ a \in Nat /\ Len(ad) = a /\ n3 + a = n4
    BY <1>3, <1>5, <1>14, <1>15, <1>19
  <2> QED
    BY <2>1, <2>2, Grown
<1>21. e \in Seq(Byte) /\ Len(e) = n5 /\ \A i \in 1 .. n4 : e[i] = p4[i]
  <2>1. p4 \in Seq(Byte) /\ po \in Seq(Byte) /\ IsCat(e, p4, po)
    BY <1>12, <1>16, <1>20
  <2>2. n4 \in Nat /\ Len(p4) = n4 /\ two \in Nat /\ Len(po) = two /\ n4 + two = n5
    BY <1>14, <1>15, <1>20
  <2> QED
    BY <2>1, <2>2, Grown
<1>22. t \in Seq(Byte) /\ Len(t) = n5 + pl /\ \A i \in 1 .. n5 : t[i] = e[i]
  <2>1. e \in Seq(Byte) /\ py \in Seq(Byte) /\ IsCat(t, e, py)
    BY <1>12, <1>16, <1>21
  <2>2. n5 \in Nat /\ Len(e) = n5 /\ pl \in Nat /\ Len(py) = pl
    BY <1>14, <1>15, <1>21
  <2> QED
    BY <2>1, <2>2, Grown
<1>23. e = Encode(r) /\ t = Conversation(r)
  BY <1>2, <1>3, <1>8, <1>12 DEF Encode, Conversation, SOCKS5_VERSION, IsCat
<1>24. SubSeq(t, n4 + 1, n4 + two) = po
  BY <1>16, <1>15, <1>12, <1>14, <1>20, Field
<1>25. SubSeq(t, n3 + 1, n3 + a) = ad
  <2>1. PICK z : IsCat(z, po, py)
    BY DEF IsCat
  <2>2. z \in Seq(Byte)
    BY <1>4, <1>13, <1>14, <2>1, Grown
  <2>3. IsCat(t, p4, z)
    BY <1>4, <1>12, <1>20, <2>1, CatAssoc
  <2> QED
    BY <1>4, <1>3, <1>5, <1>12, <1>14, <1>19, <2>2, <2>3, Field
<1>26. ASSUME NEW i \in 1 .. n3 PROVE t[i] = p3[i]
  <2>1. i \in 1 .. n4 /\ i \in 1 .. n5
    BY <1>5, <1>13, <1>14
  <2> QED
    BY <2>1, <1>20, <1>21, <1>22
<1>27. \A i \in 1 .. n2 : t[i] = p2[i]
  BY <1>7, <1>13, <1>14, <1>19, <1>26
<1>28. \A i \in 1 .. n1 : t[i] = p1[i]
  BY <1>13, <1>14, <1>18, <1>27
<1>29. t[1] = 5 /\ t[2] = k
  <2>1. 1 \in 1 .. n1 /\ 2 \in 1 .. n1 /\ 1 \in 1 .. two /\ 2 \in 1 .. two
    BY <1>5, <1>13
  <2> QED
    BY <2>1, <1>9, <1>17, <1>28
<1>30. t[n1 + 1] = 5 /\ t[n1 + 2] = r.cmd /\ t[n1 + 3] = 0 /\ t[n1 + 4] = r.atyp
  <2>1. /\ n1 + 1 \in 1 .. n2 /\ n1 + 2 \in 1 .. n2 /\ n1 + 3 \in 1 .. n2
        /\ n1 + 4 \in 1 .. n2
    BY <1>13, <1>14
  <2>2. 1 \in 1 .. four /\ 2 \in 1 .. four /\ 3 \in 1 .. four /\ 4 \in 1 .. four
    BY <1>13
  <2> QED
    BY <2>1, <2>2, <1>10, <1>18, <1>27
<1>31. ASSUME NEW i \in 1 .. k PROVE t[2 + i] = me[i]
  <2>1. 2 + i \in 1 .. n1
    BY <1>5, <1>13
  <2> QED
    BY <2>1, <1>13, <1>17, <1>28
<1>32. x = 1 => t[n2 + 1] = a
  <2>1. x = 1 => n2 + 1 \in 1 .. n3 /\ 1 \in 1 .. x
    BY <1>13, <1>14
  <2> QED
    BY <2>1, <1>11, <1>19, <1>26
<1>33. /\ n1 + 1 = k + 3 /\ n1 + 2 = k + 4 /\ n1 + 3 = k + 5 /\ n1 + 4 = k + 6
       /\ n2 + 1 = k + 7 /\ n3 = k + 6 + x /\ n4 = k + 6 + x + a
       /\ n5 = k + 6 + x + a + 2
  BY <1>5, <1>7, <1>13
<1> QED
  BY <1>2, <1>3, <1>5, <1>6, <1>13, <1>21, <1>22, <1>23, <1>24, <1>25, <1>29, <1>30, <1>31,
     <1>32, <1>33

\* Where a SOCKS4 or SOCKS4a request has its fields.
LEMMA Text4 ==
    ASSUME NEW r \in Requests, r.version # SOCKS5_VERSION
    PROVE  LET t == Conversation(r)
               u == Len(r.user)
               h == Len(r.host)
               named == r.host # <<>>
           IN  /\ t \in Seq(Byte) /\ u \in Nat /\ h \in Nat
               /\ Len(Encode(r)) = 9 + u + (IF named THEN h + 1 ELSE 0)
               /\ Len(t) = Len(Encode(r)) + Len(Payload)
               /\ t[1] = r.version /\ t[2] = r.cmd
               /\ SubSeq(t, 3, 4) = r.port
               /\ ~named => SubSeq(t, 5, 8) = r.addr
               /\ (t[5] = 0 /\ t[6] = 0 /\ t[7] = 0 /\ t[8] # 0) = named
               /\ \A i \in 1 .. u : t[8 + i] # 0
               /\ t[9 + u] = 0
               /\ named => /\ \A i \in 1 .. h : t[9 + u + i] # 0
                           /\ t[10 + u + h] = 0
                           /\ SubSeq(t, 10 + u, 9 + u + h) = r.host
<1>1. /\ r.version \in Byte /\ r.cmd \in Byte /\ r.addr \in Seq(Byte) /\ Len(r.addr) = 4
      /\ r.port \in Seq(Byte) /\ Len(r.port) = 2 /\ Payload \in Seq(Byte)
      /\ r.user \in Seq(Byte \ {0}) /\ r.host \in Seq(Byte \ {0})
      /\ ~(r.addr[1] = 0 /\ r.addr[2] = 0 /\ r.addr[3] = 0 /\ r.addr[4] # 0)
  BY RequestsAssumption DEF WellFormed
<1>3. 0 \in Byte /\ 9 \in Byte
  BY DEF Byte
<1>4. PICK v, po, ad, us, ho, py, nul, tl :
         /\ v = <<r.version, r.cmd>> /\ po = r.port
         /\ ad = (IF r.host = <<>> THEN r.addr ELSE <<0, 0, 0, 9>>)
         /\ us = r.user /\ ho = r.host /\ nul = <<0>> /\ py = Payload
         /\ tl = (IF r.host = <<>> THEN <<>> ELSE r.host \o <<0>>)
  OBVIOUS
<1>5. v \in Seq(Byte) /\ Len(v) = 2 /\ v[1] = r.version /\ v[2] = r.cmd
  BY <1>1, <1>4, Short
<1>6. nul \in Seq(Byte) /\ Len(nul) = 1 /\ nul[1] = 0
  BY <1>3, <1>4, Short
<1>7. /\ ad \in Seq(Byte) /\ Len(ad) = 4
      /\ (ad[1] = 0 /\ ad[2] = 0 /\ ad[3] = 0 /\ ad[4] # 0) <=> r.host # <<>>
  <2>1. CASE r.host = <<>>
    BY <2>1, <1>1, <1>4
  <2>2. CASE r.host # <<>>
    <3>1. ad = <<0, 0, 0, 9>>
      BY <2>2, <1>4
    <3>2. /\ <<0, 0, 0, 9>> \in Seq(Byte) /\ Len(<<0, 0, 0, 9>>) = 4
          /\ <<0, 0, 0, 9>>[1] = 0 /\ <<0, 0, 0, 9>>[2] = 0
          /\ <<0, 0, 0, 9>>[3] = 0 /\ <<0, 0, 0, 9>>[4] = 9
      BY <1>3, Short
    <3>3. /\ ad \in Seq(Byte) /\ Len(ad) = 4 /\ ad[1] = 0 /\ ad[2] = 0 /\ ad[3] = 0
          /\ ad[4] = 9
      BY <3>1, <3>2
    <3> QED
      BY <2>2, <3>3
  <2> QED
    BY <2>1, <2>2
<1>8. PICK u, h : Len(us) = u /\ Len(ho) = h
  OBVIOUS
<1>9. /\ us \in Seq(Byte) /\ ho \in Seq(Byte) /\ u \in Nat /\ h \in Nat
      /\ (\A i \in 1 .. u : us[i] # 0) /\ (\A i \in 1 .. h : ho[i] # 0)
  <2>1. Byte \ {0} \subseteq Byte
    OBVIOUS
  <2>2. us \in Seq(Byte \ {0}) /\ ho \in Seq(Byte \ {0})
    BY <1>1, <1>4
  <2>3. us \in Seq(Byte) /\ ho \in Seq(Byte)
    BY <2>2
  <2> QED
    BY <2>2, <2>3, <1>8
<1>10. PICK lt : Len(tl) = lt
  OBVIOUS
<1>11. /\ tl \in Seq(Byte) /\ lt \in Nat /\ lt = IF r.host # <<>> THEN h + 1 ELSE 0
       /\ r.host # <<>> => (\A i \in 1 .. h : tl[i] = ho[i]) /\ tl[h + 1] = 0
  <2>1. CASE r.host = <<>>
    <3>1. tl = <<>>
      BY <2>1, <1>4
    <3>2. <<>> \in Seq(Byte) /\ Len(<<>>) = 0
      OBVIOUS
    <3> QED
      BY <2>1, <3>1, <3>2, <1>10
  <2>2. CASE r.host # <<>>
    <3>1. IsCat(tl, ho, nul)
      BY <2>2, <1>4 DEF IsCat
    <3>2. PICK one \in Nat : Len(nul) = one /\ one = 1
      BY <1>6
    <3>3. Len(nul) = one
      BY <3>2
    <3>4. /\ tl \in Seq(Byte) /\ Len(tl) = h + one /\ \A i \in 1 .. h : tl[i] = ho[i]
          /\ \A i \in 1 .. one : tl[h + i] = nul[i]
      <4>1. nul \in Seq(Byte) /\ ho \in Seq(Byte) /\ Len(ho) = h /\ h \in Nat
        BY <1>6, <1>8, <1>9
      <4> QED
        BY <3>1, <3>3, <4>1, Grown
    <3>5. 1 \in 1 .. one
      BY <3>2
    <3>6. tl[h + 1] = 0
      BY <3>4, <3>5, <1>6
    <3> QED
      BY <2>2, <3>2, <3>4, <3>6, <1>9, <1>10
  <2> QED
    BY <2>1, <2>2
<1>12. PICK p1, p2, p3, p4, e, t :
         /\ IsCat(p1, v, po) /\ IsCat(p2, p1, ad) /\ IsCat(p3, p2, us)
         /\ IsCat(p4, p3, nul) /\ IsCat(e, p4, tl) /\ IsCat(t, e, py)
  BY DEF IsCat
<1>13. e = Encode(r) /\ t = Conversation(r)
  BY <1>4, <1>12 DEF Encode, Conversation, SOCKS5_VERSION, IsCat
<1>14. PICK n1, n2, n3, n4, n5, pl, one, two, four :
         /\ two + two = n1 /\ n1 + four = n2 /\ n2 + u = n3 /\ n3 + one = n4
         /\ n4 + lt = n5 /\ Len(py) = pl /\ one = 1 /\ two = 2 /\ four = 4
  OBVIOUS
<1>15. /\ n1 \in Nat /\ n2 \in Nat /\ n3 \in Nat /\ n4 \in Nat /\ n5 \in Nat
       /\ pl \in Nat /\ one \in Nat /\ two \in Nat /\ four \in Nat /\ lt \in Nat
       /\ u \in Nat /\ h \in Nat
  <2>1. pl \in Nat
    BY <1>1, <1>4, <1>14
  <2> QED
    BY <2>1, <1>9, <1>11, <1>14, SMTT(60)
<1>16. /\ two + two = n1 /\ n1 + four = n2 /\ n2 + u = n3 /\ n3 + one = n4
       /\ n4 + lt = n5 /\ Len(v) = two /\ Len(po) = two /\ Len(ad) = four
       /\ Len(us) = u /\ Len(nul) = one /\ Len(tl) = lt /\ Len(py) = pl
  BY <1>1, <1>4, <1>5, <1>6, <1>7, <1>8, <1>10, <1>14
<1>17. /\ v \in Seq(Byte) /\ po \in Seq(Byte) /\ ad \in Seq(Byte) /\ us \in Seq(Byte)
       /\ nul \in Seq(Byte) /\ tl \in Seq(Byte) /\ py \in Seq(Byte)
  BY <1>1, <1>4, <1>5, <1>6, <1>7, <1>9, <1>11
<1>18. /\ p1 \in Seq(Byte) /\ Len(p1) = n1 /\ \A i \in 1 .. two : p1[i] = v[i]
       /\ \A i \in 1 .. two : p1[two + i] = po[i]
  BY <1>12, <1>15, <1>16, <1>17, Grown
<1>19. /\ p2 \in Seq(Byte) /\ Len(p2) = n2 /\ \A i \in 1 .. n1 : p2[i] = p1[i]
       /\ \A i \in 1 .. four : p2[n1 + i] = ad[i]
  <2>1. IsCat(p2, p1, ad) /\ p1 \in Seq(Byte) /\ ad \in Seq(Byte)
    BY <1>12, <1>17, <1>18
  <2>2. /\ n1 \in Nat /\ four \in Nat /\ Len(p1) = n1 /\ Len(ad) = four
        /\ n1 + four = n2
    BY <1>15, <1>16, <1>18
  <2> QED
    BY <2>1, <2>2, Grown
<1>20. /\ p3 \in Seq(Byte) /\ Len(p3) = n3 /\ \A i \in 1 .. n2 : p3[i] = p2[i]
       /\ \A i \in 1 .. u : p3[n2 + i] = us[i]
  BY <1>12, <1>15, <1>16, <1>17, <1>19, Grown
<1>21. /\ p4 \in Seq(Byte) /\ Len(p4) = n4 /\ \A i \in 1 .. n3 : p4[i] = p3[i]
       /\ \A i \in 1 .. one : p4[n3 + i] = nul[i]
  BY <1>12, <1>15, <1>16, <1>17, <1>20, Grown
<1>22. /\ e \in Seq(Byte) /\ Len(e) = n5 /\ \A i \in 1 .. n4 : e[i] = p4[i]
       /\ \A i \in 1 .. lt : e[n4 + i] = tl[i]
  BY <1>12, <1>15, <1>16, <1>17, <1>21, Grown
<1>23. t \in Seq(Byte) /\ Len(t) = n5 + pl /\ \A i \in 1 .. n5 : t[i] = e[i]
  BY <1>12, <1>15, <1>16, <1>17, <1>22, Grown
<1>24. /\ \A i \in 1 .. n4 : i \in 1 .. n5
       /\ \A i \in 1 .. n3 : i \in 1 .. n4
       /\ \A i \in 1 .. n2 : i \in 1 .. n3
       /\ \A i \in 1 .. n1 : i \in 1 .. n2
       /\ \A i \in 1 .. two : i \in 1 .. n1
  BY <1>15, <1>16
<1>25. \A i \in 1 .. n4 : t[i] = p4[i]
  BY <1>22, <1>23, <1>24
<1>26. \A i \in 1 .. n3 : t[i] = p3[i]
  BY <1>21, <1>24, <1>25
<1>27. \A i \in 1 .. n2 : t[i] = p2[i]
  BY <1>20, <1>24, <1>26
<1>28. \A i \in 1 .. n1 : t[i] = p1[i]
  BY <1>19, <1>24, <1>27
<1>29. t[1] = r.version /\ t[2] = r.cmd
  <2>1. 1 \in 1 .. two /\ 2 \in 1 .. two
    BY <1>14
  <2> QED
    BY <2>1, <1>5, <1>18, <1>24, <1>28
<1>30. /\ \A i \in 1 .. two : two + i \in 1 .. n1
       /\ \A i \in 1 .. four : n1 + i \in 1 .. n2
       /\ \A i \in 1 .. u : n2 + i \in 1 .. n3
       /\ \A i \in 1 .. one : n3 + i \in 1 .. n4
       /\ \A i \in 1 .. lt : n4 + i \in 1 .. n5
  BY <1>15, <1>16
<1>31. /\ \A i \in 1 .. two : t[two + i] = po[i]
       /\ \A i \in 1 .. four : t[n1 + i] = ad[i]
       /\ \A i \in 1 .. u : t[n2 + i] = us[i]
       /\ \A i \in 1 .. one : t[n3 + i] = nul[i]
       /\ \A i \in 1 .. lt : t[n4 + i] = tl[i]
  BY <1>18, <1>19, <1>20, <1>21, <1>22, <1>23, <1>25, <1>26, <1>27, <1>28, <1>30
<1>32. SubSeq(t, two + 1, two + two) = po
  <2>1. two + two <= Len(t)
    BY <1>11, <1>15, <1>16, <1>23
  <2> QED
    BY <2>1, <1>15, <1>16, <1>17, <1>23, <1>31, Found
<1>33. SubSeq(t, n1 + 1, n1 + four) = ad
  <2>1. n1 + four <= Len(t)
    BY <1>11, <1>15, <1>16, <1>23
  <2> QED
    BY <2>1, <1>15, <1>16, <1>17, <1>23, <1>31, Found
<1>34. (t[n1 + 1] = 0 /\ t[n1 + 2] = 0 /\ t[n1 + 3] = 0 /\ t[n1 + 4] # 0) <=> r.host # <<>>
  <2>1. 1 \in 1 .. four /\ 2 \in 1 .. four /\ 3 \in 1 .. four /\ 4 \in 1 .. four
    BY <1>14
  <2> QED
    BY <2>1, <1>7, <1>31
<1>35. t[n3 + 1] = 0
  <2>1. 1 \in 1 .. one
    BY <1>14
  <2> QED
    BY <2>1, <1>6, <1>31
<1>36. ASSUME NEW i \in 1 .. u PROVE t[n2 + i] # 0
  BY <1>9, <1>31
<1>37. ASSUME r.host # <<>>
       PROVE  /\ \A i \in 1 .. h : t[n4 + i] = ho[i]
              /\ t[n4 + (h + 1)] = 0
              /\ SubSeq(t, n4 + 1, n4 + h) = ho
  <2>1. /\ lt = h + 1 /\ h + 1 \in 1 .. lt /\ \A i \in 1 .. h : i \in 1 .. lt
    BY <1>11, <1>15, <1>37
  <2>2. \A i \in 1 .. h : t[n4 + i] = ho[i]
    BY <2>1, <1>11, <1>31, <1>37
  <2>3. t[n4 + (h + 1)] = 0
    BY <2>1, <1>11, <1>31, <1>37
  <2>4. n4 + h <= Len(t)
    BY <2>1, <1>15, <1>16, <1>23
  <2>5. SubSeq(t, n4 + 1, n4 + h) = ho
    BY <2>2, <2>4, <1>8, <1>9, <1>15, <1>23, Found, ZenonT(60)
  <2> QED
    BY <2>2, <2>3, <2>5
<1>38. /\ two + 1 = 3 /\ two + two = 4 /\ n1 + 1 = 5 /\ n1 + 2 = 6 /\ n1 + 3 = 7
       /\ n1 + 4 = 8 /\ n1 + four = 8 /\ n2 = 8 /\ n3 + 1 = 9 + u /\ n4 = 9 + u
       /\ n4 + 1 = 10 + u /\ n4 + h = 9 + u + h /\ n4 + (h + 1) = 10 + u + h
       /\ n5 = 9 + u + (IF r.host # <<>> THEN h + 1 ELSE 0)
  BY <1>11, <1>14, <1>15
<1>39. SubSeq(t, 3, 4) = r.port /\ (r.host = <<>> => SubSeq(t, 5, 8) = r.addr)
  BY <1>4, <1>32, <1>33, <1>38
<1>40. (t[5] = 0 /\ t[6] = 0 /\ t[7] = 0 /\ t[8] # 0) = (r.host # <<>>)
  BY <1>34, <1>38
<1>41. (\A i \in 1 .. u : t[8 + i] # 0) /\ t[9 + u] = 0
  BY <1>35, <1>36, <1>38
<1>42. r.host # <<>> => /\ \A i \in 1 .. h : t[9 + u + i] # 0
                        /\ t[10 + u + h] = 0
                        /\ SubSeq(t, 10 + u, 9 + u + h) = r.host
  <2>1. ASSUME r.host # <<>>, NEW i \in 1 .. h PROVE t[9 + u + i] # 0
    BY <2>1, <1>9, <1>37, <1>38
  <2> QED
    BY <2>1, <1>4, <1>37, <1>38
<1> QED
  BY <1>4, <1>8, <1>9, <1>13, <1>14, <1>22, <1>23, <1>29, <1>38, <1>39, <1>40, <1>41, <1>42, ZenonT(60)

(***************************************************************************)
(* The stages of the parser.                                               *)
(***************************************************************************)
\* The records that the parser passes on.
ParserRec(b, s, o, x) == [buf |-> b, sock |-> s, out |-> o, ret |-> x]
SockRec(st, v, br, a) == [state |-> st, version |-> v, broken |-> br, parsereq |-> a]

\* The updates that the stages make.
WithRetOut(p, y, z) == [p EXCEPT !.ret = y, !.out = z]
WithRequest(p, z, w) == [p EXCEPT !.ret = "SOCKS_GOOD", !.buf = z, !.sock.parsereq = w]
WithBroken(p, w) == [p EXCEPT !.sock.broken = w]
WithState(p, w) == [p EXCEPT !.sock.state = w]
WithVersion(p, w) == [p EXCEPT !.sock.version = w]

\* The value TRUE, which the provers otherwise take for a formula.
Yes == TRUE
VersionOff(p) == [p EXCEPT !.sock.version = p.buf[1], !.buf = Tail(@)]

\* Their fields, and what EXCEPT makes of them.
LEMMA ParserFields ==
    ASSUME NEW b, NEW s, NEW o, NEW x
    PROVE  LET p == ParserRec(b, s, o, x)
           IN  /\ p.buf = b /\ p.sock = s /\ p.out = o /\ p.ret = x
               /\ \A y : [p EXCEPT !.ret = y] = ParserRec(b, s, o, y)
               /\ \A y : [p EXCEPT !.buf = y] = ParserRec(y, s, o, x)
               /\ \A y : [p EXCEPT !.sock = y] = ParserRec(b, y, o, x)
               /\ \A y : [p EXCEPT !.out = y] = ParserRec(b, s, y, x)
BY DEF ParserRec

LEMMA SockFields ==
    ASSUME NEW st, NEW v, NEW br, NEW a
    PROVE  LET s == SockRec(st, v, br, a)
           IN  /\ s.state = st /\ s.version = v /\ s.broken = br /\ s.parsereq = a
               /\ \A y : [s EXCEPT !.state = y] = SockRec(y, v, br, a)
               /\ \A y : [s EXCEPT !.version = y] = SockRec(st, y, br, a)
               /\ \A y : [s EXCEPT !.broken = y] = SockRec(st, v, y, a)
               /\ \A y : [s EXCEPT !.parsereq = y] = SockRec(st, v, br, y)
BY DEF SockRec

LEMMA ParserRetOut ==
    ASSUME NEW b, NEW s, NEW o, NEW x, NEW y, NEW z
    PROVE  WithRetOut(ParserRec(b, s, o, x), y, z) = ParserRec(b, s, z, y)
<1>1. PICK p, q : p = ParserRec(b, s, o, x) /\ q = ParserRec(b, s, o, y)
  OBVIOUS
<1>2. [p EXCEPT !.ret = y] = q
  BY <1>1, ParserFields
<1>3. [q EXCEPT !.out = z] = ParserRec(b, s, z, y)
  BY <1>1, ParserFields
<1>4. [p EXCEPT !.ret = y, !.out = z] = [[p EXCEPT !.ret = y] EXCEPT !.out = z]
  OBVIOUS
<1>5. [p EXCEPT !.ret = y, !.out = z] = [q EXCEPT !.out = z]
  BY <1>2, <1>4, Zenon
<1> QED
  BY <1>1, <1>3, <1>5 DEF WithRetOut

LEMMA ParserRequest ==
    ASSUME NEW b, NEW s, NEW o, NEW x, NEW z, NEW w
    PROVE  WithRequest(ParserRec(b, s, o, x), z, w)
              = ParserRec(z, [s EXCEPT !.parsereq = w], o, "SOCKS_GOOD")
<1>1. PICK y, p, q, r : /\ y = "SOCKS_GOOD"
                     /\ p = ParserRec(b, s, o, x) /\ q = ParserRec(b, s, o, y)
                     /\ r = ParserRec(z, s, o, y)
  OBVIOUS
<1>2. [p EXCEPT !.ret = y] = q
  BY <1>1, ParserFields
<1>3. [q EXCEPT !.buf = z] = r
  BY <1>1, ParserFields
<1>4. [p EXCEPT !.ret = y, !.buf = z, !.sock.parsereq = w]
        = [[[p EXCEPT !.ret = y] EXCEPT !.buf = z] EXCEPT !.sock.parsereq = w]
  OBVIOUS
<1>5. [p EXCEPT !.ret = y, !.buf = z, !.sock.parsereq = w]
        = [r EXCEPT !.sock.parsereq = w]
  BY <1>2, <1>3, <1>4, Zenon
<1>6. [r EXCEPT !.sock.parsereq = w] = ParserRec(z, [s EXCEPT !.parsereq = w], o, y)
  BY <1>1 DEF ParserRec
<1> QED
  BY <1>1, <1>5, <1>6 DEF WithRequest

LEMMA Inside ==
    ASSUME NEW b, NEW st, NEW v, NEW br, NEW a, NEW o, NEW x, NEW w
    PROVE  LET p == ParserRec(b, SockRec(st, v, br, a), o, x)
           IN  /\ WithBroken(p, w) = ParserRec(b, SockRec(st, v, w, a), o, x)
               /\ WithState(p, w) = ParserRec(b, SockRec(w, v, br, a), o, x)
               /\ WithVersion(p, w) = ParserRec(b, SockRec(st, w, br, a), o, x)
<1>1. PICK s, p : s = SockRec(st, v, br, a) /\ p = ParserRec(b, s, o, x)
  OBVIOUS
<1>2. /\ [p EXCEPT !.sock.broken = w] = ParserRec(b, [s EXCEPT !.broken = w], o, x)
      /\ [p EXCEPT !.sock.state = w] = ParserRec(b, [s EXCEPT !.state = w], o, x)
      /\ [p EXCEPT !.sock.version = w] = ParserRec(b, [s EXCEPT !.version = w], o, x)
  BY <1>1 DEF ParserRec
<1>3. /\ [s EXCEPT !.broken = w] = SockRec(st, v, w, a)
      /\ [s EXCEPT !.state = w] = SockRec(w, v, br, a)
      /\ [s EXCEPT !.version = w] = SockRec(st, w, br, a)
  BY <1>1, SockFields
<1> QED
  BY <1>1, <1>2, <1>3, Zenon DEF WithBroken, WithState, WithVersion

\* b is the input buffer when bytes m + 1 to n of the conversation are in it.
IsBuffer(b, r, m, n) ==
    /\ m \in Nat /\ n \in Nat /\ m <= n /\ n <= Len(Conversation(r))
    /\ b = SubSeq(Conversation(r), m + 1, n)

\* Where NulFrom finds the end of a name, and that it finds none.
LEMMA NulFound ==
    ASSUME NEW b, NEW i \in Nat, NEW j \in i .. Len(b), Len(b) \in Nat,
           b[j] = 0, \A k \in i .. j - 1 : b[k] # 0
    PROVE  NulFrom(b, i) = j
<1> DEFINE P(x) == b[x] = 0 /\ \A k \in i .. x - 1 : b[k] # 0
<1>1. P(j)
  OBVIOUS
<1>2. ASSUME NEW x \in i .. Len(b), P(x) PROVE x = j
  <2>1. x < j => x \in i .. j - 1
    OBVIOUS
  <2>2. j < x => j \in i .. x - 1
    OBVIOUS
  <2> QED
    BY <1>1, <1>2, <2>1, <2>2
<1>3. PICK c : c = CHOOSE x \in i .. Len(b) : P(x)
  OBVIOUS
<1>4. c \in i .. Len(b) /\ P(c)
  BY <1>1, <1>3, Zenon
<1>5. c = j
  BY <1>2, <1>4
<1> QED
  BY <1>3, <1>5 DEF NulFrom

LEMMA NulMissing ==
    ASSUME NEW b, NEW i, \A k \in i .. Len(b) : b[k] # 0
    PROVE  NulFrom(b, i) = 0
BY DEF NulFrom

\* Every conversation is a sequence of bytes.
LEMMA TextIsBytes ==
    ASSUME NEW r \in Requests
    PROVE  Conversation(r) \in Seq(Byte)
BY Text4, Text5

\* What a buffer holds, and what is left when some of it is drained.
LEMMA BufferIs ==
    ASSUME NEW r \in Requests, NEW b, NEW m, NEW n, IsBuffer(b, r, m, n)
    PROVE  /\ m \in Nat /\ n \in Nat /\ m <= n /\ n <= Len(Conversation(r))
           /\ b \in Seq(Byte) /\ Len(b) = n - m /\ Len(b) \in Nat
           /\ \A i \in 1 .. n - m : b[i] = Conversation(r)[m + i]
           /\ \A i \in Nat : i <= n - m => IsBuffer(Drop(b, i), r, m + i, n)
<1>1. PICK t : Conversation(r) = t
  OBVIOUS
<1>2. t \in Seq(Byte)
  BY <1>1, TextIsBytes
<1>3. m \in Nat /\ n \in Nat /\ m <= n /\ n <= Len(t) /\ b = SubSeq(t, m + 1, n)
  BY <1>1 DEF IsBuffer
<1>4. /\ b \in Seq(Byte) /\ Len(b) = n - m
      /\ \A i \in 1 .. n - m : b[i] = t[m + i]
  BY <1>2, <1>3, Piece
<1>5. ASSUME NEW i \in Nat, NEW j \in Nat, i <= j, j <= n - m
      PROVE  SubSeq(b, i + 1, j) = SubSeq(t, m + i + 1, m + j)
  BY <1>2, <1>3, <1>5, PieceOfPiece
<1>6. ASSUME NEW i \in Nat, i <= n - m PROVE IsBuffer(Drop(b, i), r, m + i, n)
  <2>1. n - m \in Nat /\ m + (n - m) = n /\ m + i \in Nat /\ m + i <= n
    BY <1>3, <1>6
  <2>2. PICK j \in Nat : n - m = j
    BY <2>1
  <2>3. SubSeq(b, i + 1, j) = SubSeq(t, m + i + 1, m + j)
    <3>1. i <= j /\ j <= n - m
      BY <2>2, <1>6
    <3> QED
      BY <3>1, <1>5
  <2>4. m + j = n
    BY <2>2, <1>3
  <2>5. Len(b) = j
    BY <2>2, <1>4
  <2>6. Drop(b, i) = SubSeq(t, m + i + 1, n)
    BY <2>3, <2>4, <2>5 DEF Drop
  <2> QED
    BY <2>1, <2>6, <1>1, <1>3 DEF IsBuffer
<1>7. Len(b) \in Nat
  BY <1>4
<1> QED
  BY <1>1, <1>3, <1>4, <1>5, <1>6, <1>7, Zenon

\* What is at some place in a buffer.
Part(s, i, j) == SubSeq(s, i + 1, j)

LEMMA BufferPart ==
    ASSUME NEW r \in Requests, NEW b, NEW m, NEW n, IsBuffer(b, r, m, n),
           NEW i \in Nat, NEW j \in Nat, i <= j, j <= n - m,
           NEW c, m + i = c, NEW d, m + j = d
    PROVE  Part(b, i, j) = Part(Conversation(r), c, d)
<1>1. Conversation(r) \in Seq(Byte)
  BY TextIsBytes
<1>2. SubSeq(b, i + 1, j) = SubSeq(Conversation(r), m + i + 1, m + j)
  BY <1>1, PieceOfPiece DEF IsBuffer
<1> QED
  BY <1>2 DEF Part

\* How long a SOCKS5 greeting is.
Greeting(r) == Len(r.methods) + 2

\* socks5_handle_negotiation waits for all the methods, and refuses only a
\* client that cannot do without authentication.
LEMMA Negotiation ==
    ASSUME NEW r \in Requests, r.version = SOCKS5_VERSION,
           NEW b, NEW n, IsBuffer(b, r, 1, n), 2 <= n, NEW s, NEW o, NEW x
    PROVE  LET q == Socks5HandleNegotiation(ParserRec(b, s, o, x))
           IN  \/ q = ParserRec(b, s, o, "SOCKS_INCOMPLETE")
               \/ \E c, w : /\ q = ParserRec(c, s, w, "SOCKS_GOOD")
                            /\ IsBuffer(c, r, Greeting(r), n)
               \/ /\ \E c, w : q = ParserRec(c, s, w, "SOCKS_BROKEN")
                  /\ ~Acceptable(r)
<1>1. PICK t, k : Conversation(r) = t /\ Len(r.methods) = k
  OBVIOUS
<1>2. k \in Nat /\ t[2] = k /\ \A i \in 1 .. k : t[2 + i] = r.methods[i]
  BY <1>1, Text5
<1>3. PICK one \in Nat : one = 1
  OBVIOUS
<1>4. IsBuffer(b, r, one, n)
  BY <1>3
<1>5. /\ n \in Nat /\ b \in Seq(Byte) /\ Len(b) = n - one
      /\ \A i \in 1 .. n - one : b[i] = t[one + i]
      /\ \A i \in Nat : i <= n - one => IsBuffer(Drop(b, i), r, one + i, n)
  <2>1. /\ n \in Nat /\ b \in Seq(Byte) /\ Len(b) = n - one
        /\ \A i \in 1 .. n - one : b[i] = Conversation(r)[one + i]
        /\ \A i \in Nat : i <= n - one => IsBuffer(Drop(b, i), r, one + i, n)
    BY <1>4, BufferIs
  <2> QED
    BY <2>1, <1>1
<1>6. /\ n \in Nat /\ b \in Seq(Byte) /\ Len(b) = n - 1
      /\ \A i \in 1 .. n - 1 : b[i] = t[1 + i]
      /\ \A i \in Nat : i <= n - 1 => IsBuffer(Drop(b, i), r, 1 + i, n)
  BY <1>3, <1>5
<1>7. b[1] = k
  <2>1. 1 \in 1 .. n - 1 /\ 1 + 1 = 2
    BY <1>6
  <2> QED
    BY <2>1, <1>2, <1>6
<1>8. PICK p : p = ParserRec(b, s, o, x)
  OBVIOUS
<1>9. p.buf = b
  BY <1>8, ParserFields
<1>10. CASE n - 1 < k + 1
  <2>1. Socks5HandleNegotiation(p) = [p EXCEPT !.ret = "SOCKS_INCOMPLETE"]
    BY <1>6, <1>7, <1>9, <1>10 DEF Socks5HandleNegotiation, Return
  <2> QED
    BY <2>1, <1>8, ParserFields
<1>11. CASE ~(n - 1 < k + 1)
  <2>1. PICK good, d :
           /\ good = (\E i \in 1 .. k : SubSeq(b, 2, k + 1)[i] = SOCKS5_METHOD_NOAUTH)
           /\ d = Drop(b, k + 1)
    OBVIOUS
  <2>2. Socks5HandleNegotiation(p)
            = Socks5DoNegotiation([p EXCEPT !.buf = Drop(p.buf, k + 1)], good)
    BY <2>1, <1>6, <1>7, <1>9, <1>11 DEF Socks5HandleNegotiation
  <2>3. [p EXCEPT !.buf = Drop(p.buf, k + 1)] = ParserRec(d, s, o, x)
    BY <2>1, <1>8, <1>9, ParserFields
  <2>4. \E w : Socks5DoNegotiation(ParserRec(d, s, o, x), good)
                = WithRetOut(ParserRec(d, s, o, x),
                             IF good THEN "SOCKS_GOOD" ELSE "SOCKS_BROKEN", w)
    <3>1. PICK e : e = ParserRec(d, s, o, x)
      OBVIOUS
    <3>2. PICK w : w = Append(e.out, [kind |-> "method",
                                      status |-> IF good THEN SOCKS5_METHOD_NOAUTH
                                                 ELSE SOCKS5_METHOD_FAIL,
                                      address |-> NoAddress])
      OBVIOUS
    <3>3. Socks5DoNegotiation(e, good)
              = WithRetOut(e, IF good THEN "SOCKS_GOOD" ELSE "SOCKS_BROKEN", w)
      BY <3>2, Zenon DEF Socks5DoNegotiation, WithRetOut
    <3> QED
      BY <3>1, <3>3, Zenon
  <2>5. PICK w : Socks5DoNegotiation(ParserRec(d, s, o, x), good)
                = ParserRec(d, s, w, IF good THEN "SOCKS_GOOD" ELSE "SOCKS_BROKEN")
    BY <2>4, ParserRetOut
  <2>6. IsBuffer(d, r, k + 2, n)
    <3>1. k + 1 \in Nat /\ k + 1 <= n - 1 /\ 1 + (k + 1) = k + 2
      BY <1>2, <1>6, <1>11
    <3> QED
      BY <2>1, <3>1, <1>6
  <2>7. ASSUME Acceptable(r) PROVE good
    <3>1. PICK i \in 1 .. k : r.methods[i] = SOCKS5_METHOD_NOAUTH
      <4>1. PICK i \in DOMAIN r.methods : r.methods[i] = SOCKS5_METHOD_NOAUTH
        BY <2>7 DEF Acceptable
      <4>2. r.methods \in Seq(Byte)
        BY RequestsAssumption DEF WellFormed
      <4>3. i \in 1 .. k
        BY <4>1, <4>2, <1>1
      <4> QED
        BY <4>1, <4>3
    <3>2. SubSeq(b, 2, k + 1)[i] = r.methods[i]
      <4>1. PICK c : c = SubSeq(b, 1 + 1, k + 1)
        OBVIOUS
      <4>2. PICK l \in Nat : l = k + 1
        BY <1>2
      <4>3. c[i] = b[one + i]
        <5>1. one <= l /\ l <= Len(b) /\ i \in 1 .. l - one
          BY <4>2, <1>2, <1>3, <1>6, <1>11
        <5>2. c = SubSeq(b, one + 1, l)
          BY <4>1, <4>2, <1>3
        <5> QED
          BY <5>1, <5>2, <1>5, Piece
      <4>4. 1 + i \in 1 .. n - 1 /\ 1 + (1 + i) = 2 + i
        BY <1>2, <1>6, <1>11
      <4> QED
        <5>1. c[i] = t[1 + (1 + i)]
          BY <4>3, <4>4, <1>3, <1>6
        <5>2. c = SubSeq(b, 2, k + 1)
          BY <4>1
        <5> QED
          BY <5>1, <5>2, <4>4, <1>2
    <3> QED
      BY <2>1, <3>1, <3>2
  <2>8. CASE good
    <3>1. Socks5HandleNegotiation(p) = ParserRec(d, s, w, "SOCKS_GOOD")
      BY <2>2, <2>3, <2>5, <2>8
    <3> QED
      BY <3>1, <2>6, <1>1, <1>8 DEF Greeting
  <2>9. CASE ~good
    <3>1. Socks5HandleNegotiation(p) = ParserRec(d, s, w, "SOCKS_BROKEN")
      BY <2>2, <2>3, <2>5, <2>9
    <3> QED
      BY <3>1, <2>7, <2>9, <1>8
  <2> QED
    BY <2>8, <2>9
<1> QED
  BY <1>2, <1>6, <1>10, <1>11

\* socks5_handle_request waits for the whole request; then it takes just that
\* off the buffer, and knows the address.
LEMMA Request5 ==
    ASSUME NEW r \in Requests, r.version = SOCKS5_VERSION,
           NEW b, NEW n, IsBuffer(b, r, Greeting(r), n), NEW s, NEW o, NEW x
    PROVE  LET q == Socks5HandleRequest(ParserRec(b, s, o, x))
           IN  \/ q = ParserRec(b, s, o, "SOCKS_INCOMPLETE")
               \/ q = ParserRec(b, s, o, "SOCKS_BROKEN") /\ ~Acceptable(r)
               \/ q = ParserRec(b, s, o, "SOCKS_CMD_NOT_CONNECT") /\ ~Acceptable(r)
               \/ \E c, w : /\ q = ParserRec(c, [s EXCEPT !.parsereq = w], o, "SOCKS_GOOD")
                            /\ IsBuffer(c, r, Len(Encode(r)), n)
                            /\ w.addr = r.addr /\ w.port = r.port
<1>1. PICK t, k, e, a :
         Conversation(r) = t /\ Len(r.methods) = k /\ Len(r.addr) = a
         /\ e = IF r.atyp = SOCKS5_ATYP_FQDN THEN 1 ELSE 0
  OBVIOUS
<1>2. /\ k \in Nat /\ a \in Nat /\ e \in Nat
      /\ Len(Encode(r)) = k + 6 + e + a + 2
      /\ t[k + 3] = 5 /\ t[k + 4] = r.cmd /\ t[k + 5] = 0 /\ t[k + 6] = r.atyp
      /\ e = 1 => t[k + 7] = a
      /\ SubSeq(t, k + 6 + e + 1, k + 6 + e + a) = r.addr
      /\ SubSeq(t, k + 6 + e + a + 1, k + 6 + e + a + 2) = r.port
  BY <1>1, Text5
<1>3. PICK m \in Nat : k + 2 = m
  BY <1>2
<1>4. IsBuffer(b, r, m, n)
  BY <1>1, <1>3 DEF Greeting
<1>5. /\ n \in Nat /\ m <= n /\ b \in Seq(Byte) /\ Len(b) = n - m
      /\ \A i \in 1 .. n - m : b[i] = Conversation(r)[m + i]
      /\ \A i \in Nat : i <= n - m => IsBuffer(Drop(b, i), r, m + i, n)
  BY <1>4, BufferIs
<1>6. PICK p : p = ParserRec(b, s, o, x)
  OBVIOUS
<1>7. p.buf = b
  BY <1>6, ParserFields
<1>8. ASSUME NEW ret, Socks5HandleRequest(p) = Return(p, ret)
      PROVE  Socks5HandleRequest(p) = ParserRec(b, s, o, ret)
  BY <1>6, <1>8, ParserFields DEF Return
<1>9. CASE Len(b) < SIZEOF_SOCKS5_STATIC_REQ + 1
  <2>1. Socks5HandleRequest(p) = Return(p, "SOCKS_INCOMPLETE")
    BY <1>7, <1>9 DEF Socks5HandleRequest
  <2> QED
    BY <2>1, <1>6, <1>8
<1>10. CASE ~(Len(b) < SIZEOF_SOCKS5_STATIC_REQ + 1)
  <2>1. b[1] = 5 /\ b[2] = r.cmd /\ b[3] = 0 /\ b[4] = r.atyp /\ (e = 1 => b[5] = a)
    <3>1. /\ 1 \in 1 .. n - m /\ 2 \in 1 .. n - m /\ 3 \in 1 .. n - m
          /\ 4 \in 1 .. n - m /\ 5 \in 1 .. n - m
      BY <1>5, <1>10 DEF SIZEOF_SOCKS5_STATIC_REQ
    <3>2. m + 1 = k + 3 /\ m + 2 = k + 4 /\ m + 3 = k + 5 /\ m + 4 = k + 6 /\ m + 5 = k + 7
      BY <1>2, <1>3
    <3> QED
      BY <3>1, <3>2, <1>1, <1>2, <1>5
  <2>2. CASE r.cmd # SOCKS5_CMD_CONNECT
    <3>1. Socks5HandleRequest(p) = Return(p, "SOCKS_CMD_NOT_CONNECT")
      BY <1>7, <1>10, <2>1, <2>2 DEF Socks5HandleRequest, SOCKS5_VERSION
    <3>2. ~Acceptable(r)
      BY <2>2 DEF Acceptable, SOCKS5_CMD_CONNECT
    <3> QED
      BY <3>1, <3>2, <1>6, <1>8
  <2>3. CASE r.cmd = SOCKS5_CMD_CONNECT
             /\ r.atyp \notin {SOCKS5_ATYP_IPV4, SOCKS5_ATYP_IPV6, SOCKS5_ATYP_FQDN}
    <3>1. Socks5HandleRequest(p) = Return(p, "SOCKS_BROKEN")
      BY <1>7, <1>10, <2>1, <2>3 DEF Socks5HandleRequest, SOCKS5_VERSION
    <3>2. ~Acceptable(r)
      BY <2>3 DEF Acceptable
    <3> QED
      BY <3>1, <3>2, <1>6, <1>8
  <2>4. CASE r.cmd = SOCKS5_CMD_CONNECT
             /\ r.atyp \in {SOCKS5_ATYP_IPV4, SOCKS5_ATYP_IPV6, SOCKS5_ATYP_FQDN}
    <3>1. PICK size \in Nat : 6 + e + a = size
      BY <1>2
    <3>2. RequestSize(b) = size
      <4>1. r.atyp = SOCKS5_ATYP_IPV4 => a = 4
        BY <1>1, RequestsAssumption DEF WellFormed
      <4>2. r.atyp = SOCKS5_ATYP_IPV6 => a = IPv6Len
        BY <1>1, RequestsAssumption DEF WellFormed
      <4>3. CASE r.atyp = SOCKS5_ATYP_IPV4
        BY <4>1, <4>3, <3>1, <2>1, <1>1
           DEF RequestSize, SIZEOF_SOCKS5_STATIC_REQ, SOCKS5_ATYP_IPV4, SOCKS5_ATYP_IPV6,
               SOCKS5_ATYP_FQDN
      <4>4. CASE r.atyp = SOCKS5_ATYP_IPV6
        BY <4>2, <4>4, <3>1, <2>1, <1>1, SocksAssumption
           DEF RequestSize, SIZEOF_SOCKS5_STATIC_REQ, SOCKS5_ATYP_IPV4, SOCKS5_ATYP_IPV6,
               SOCKS5_ATYP_FQDN
      <4>5. CASE r.atyp = SOCKS5_ATYP_FQDN
        <5>1. b[4] = 3 /\ b[5] = a /\ e = 1
          BY <4>5, <2>1, <1>1 DEF SOCKS5_ATYP_FQDN
        <5>2. RequestSize(b) = 4 + 2 + (a + 1)
          BY <5>1
             DEF RequestSize, SIZEOF_SOCKS5_STATIC_REQ, SOCKS5_ATYP_IPV4, SOCKS5_ATYP_IPV6,
                 SOCKS5_ATYP_FQDN
        <5> QED
          BY <5>1, <5>2, <3>1, <1>2
      <4> QED
        BY <2>4, <4>3, <4>4, <4>5
    <3>3. CASE Len(b) < size
      <4>1. Socks5HandleRequest(p) = Return(p, "SOCKS_INCOMPLETE")
        BY <1>7, <1>10, <2>1, <2>4, <3>2, <3>3 DEF Socks5HandleRequest, SOCKS5_VERSION
      <4> QED
        BY <4>1, <1>6, <1>8
    <3>4. CASE ~(Len(b) < size)
      <4>1. size <= n - m
        BY <1>5, <3>4
      <4>2. \E w : /\ Socks5HandleRequest(p) = WithRequest(p, Drop(b, size), w)
                   /\ w.addr = SubSeq(b, 5 + e, size - 2)
                   /\ w.port = SubSeq(b, size - 1, size)
        <5>1. PICK af : af = CASE b[4] = SOCKS5_ATYP_IPV4 -> "AF_INET"
                               [] b[4] = SOCKS5_ATYP_IPV6 -> "AF_INET6"
                               [] b[4] = SOCKS5_ATYP_FQDN -> "AF_UNSPEC"
          OBVIOUS
        <5>2. PICK w : w = [af |-> af, addr |-> SubSeq(b, 5 + e, size - 2),
                            port |-> SubSeq(b, size - 1, size)]
          OBVIOUS
        <5>3. (IF b[4] = SOCKS5_ATYP_FQDN THEN 6 ELSE 5) = 5 + e
          BY <1>1, <2>1
        <5>4. Socks5HandleRequest(p) = WithRequest(p, Drop(b, size), w)
          BY <5>1, <5>2, <5>3, <1>7, <1>10, <2>1, <2>4, <3>2, <3>4
             DEF Socks5HandleRequest, SOCKS5_VERSION, WithRequest
        <5> QED
          BY <5>2, <5>4
      <4>3. PICK w : /\ Socks5HandleRequest(p) = WithRequest(p, Drop(b, size), w)
                     /\ w.addr = SubSeq(b, 5 + e, size - 2)
                     /\ w.port = SubSeq(b, size - 1, size)
        BY <4>2
      <4>4. Socks5HandleRequest(p)
                = ParserRec(Drop(b, size), [s EXCEPT !.parsereq = w], o, "SOCKS_GOOD")
        BY <4>3, <1>6, ParserRequest
      <4>5. IsBuffer(Drop(b, size), r, Len(Encode(r)), n)
        <5>1. size <= n - m /\ m + size = Len(Encode(r))
          BY <1>2, <1>3, <1>5, <3>1, <3>4
        <5> QED
          BY <5>1, <1>5
      <4>6. w.addr = r.addr
        <5>1. PICK i \in Nat, j \in Nat, c \in Nat, d \in Nat :
                 4 + e = i /\ size - 2 = j /\ m + i = c /\ m + j = d
          BY <1>2, <3>1
        <5>2. i <= j /\ j <= n - m
          BY <5>1, <1>2, <1>5, <3>1, <3>4
        <5>3. Part(b, i, j) = Part(Conversation(r), c, d)
          BY <5>1, <5>2, <1>4, BufferPart
        <5>4. i + 1 = 5 + e /\ c + 1 = k + 6 + e + 1 /\ d = k + 6 + e + a
          BY <5>1, <1>2, <1>3, <3>1
        <5> QED
          BY <5>1, <5>3, <5>4, <4>3, <1>1, <1>2 DEF Part
      <4>7. w.port = r.port
        <5>1. PICK i \in Nat, c \in Nat, d \in Nat :
                 size - 2 = i /\ m + i = c /\ m + size = d
          BY <1>2, <3>1
        <5>2. i <= size
          BY <5>1
        <5>3. Part(b, i, size) = Part(Conversation(r), c, d)
          BY <5>1, <5>2, <4>1, <1>4, BufferPart
        <5>4. i + 1 = size - 1 /\ c + 1 = k + 6 + e + a + 1 /\ d = k + 6 + e + a + 2
          BY <5>1, <1>2, <1>3, <3>1
        <5> QED
          BY <5>3, <5>4, <4>3, <1>1, <1>2 DEF Part
      <4> QED
        BY <4>4, <4>5, <4>6, <4>7, <1>6
    <3> QED
      BY <3>3, <3>4
  <2> QED
    BY <2>2, <2>3, <2>4
<1> QED
  BY <1>9, <1>10

\* socks4_read_request waits for the end of the user, and of the name if one
\* is announced; it gives up only on what is too long or not a CONNECT.
LEMMA Request4 ==
    ASSUME NEW r \in Requests, r.version = SOCKS4_VERSION,
           NEW b, NEW n, IsBuffer(b, r, 1, n), NEW s, NEW o, NEW x
    PROVE  LET q == Socks4ReadRequest(ParserRec(b, s, o, x))
           IN  \/ q = ParserRec(b, s, o, "SOCKS_INCOMPLETE")
               \/ q = ParserRec(b, s, o, "SOCKS_BROKEN") /\ ~Acceptable(r)
               \/ \E c, w : /\ q = ParserRec(c, [s EXCEPT !.parsereq = w], o, "SOCKS_GOOD")
                            /\ IsBuffer(c, r, Len(Encode(r)), n)
                            /\ w.addr = Meant(r).addr /\ w.port = r.port
<1>1. PICK t, u, h : Conversation(r) = t /\ Len(r.user) = u /\ Len(r.host) = h
  OBVIOUS
<1>2. /\ u \in Nat /\ h \in Nat
      /\ Len(Encode(r)) = 9 + u + (IF r.host # <<>> THEN h + 1 ELSE 0)
      /\ t[2] = r.cmd
      /\ SubSeq(t, 3, 4) = r.port
      /\ r.host = <<>> => SubSeq(t, 5, 8) = r.addr
      /\ (t[5] = 0 /\ t[6] = 0 /\ t[7] = 0 /\ t[8] # 0) = (r.host # <<>>)
      /\ \A i \in 1 .. u : t[8 + i] # 0
      /\ t[9 + u] = 0
      /\ r.host # <<>> => /\ \A i \in 1 .. h : t[9 + u + i] # 0
                          /\ t[10 + u + h] = 0
                          /\ SubSeq(t, 10 + u, 9 + u + h) = r.host
  <2>1. r.version # SOCKS5_VERSION
    BY DEF SOCKS4_VERSION, SOCKS5_VERSION
  <2> QED
    BY <2>1, <1>1, Text4
<1>3. PICK one \in Nat : one = 1
  OBVIOUS
<1>4. IsBuffer(b, r, one, n)
  BY <1>3
<1>5. /\ n \in Nat /\ one <= n /\ b \in Seq(Byte) /\ Len(b) = n - one
      /\ \A i \in 1 .. n - one : b[i] = Conversation(r)[one + i]
      /\ \A i \in Nat : i <= n - one => IsBuffer(Drop(b, i), r, one + i, n)
  BY <1>4, BufferIs
<1>6. PICK l \in Nat : n - one = l
  BY <1>5
<1>7. Len(b) = l /\ \A i \in 1 .. l : b[i] = t[1 + i]
  BY <1>1, <1>3, <1>5, <1>6
<1>8. PICK p : p = ParserRec(b, s, o, x)
  OBVIOUS
<1>9. p.buf = b
  BY <1>8, ParserFields
<1>10. ASSUME NEW ret, Socks4ReadRequest(p) = Return(p, ret)
       PROVE  Socks4ReadRequest(p) = ParserRec(b, s, o, ret)
  BY <1>8, <1>10, ParserFields DEF Return
<1>11. ASSUME NEW i \in Nat, NEW j \in Nat, i <= j, j <= l
       PROVE  Part(b, i, j) = Part(t, 1 + i, 1 + j)
  <2>1. PICK c, d : one + i = c /\ one + j = d
    OBVIOUS
  <2>2. j <= n - one
    BY <1>6, <1>11
  <2>3. Part(b, i, j) = Part(Conversation(r), c, d)
    BY <2>1, <2>2, <1>4, <1>11, BufferPart
  <2> QED
    BY <2>1, <2>3, <1>1, <1>3
<1>12. CASE l < 7
  <2>1. Socks4ReadRequest(p) = Return(p, "SOCKS_INCOMPLETE")
    BY <1>7, <1>9, <1>12 DEF Socks4ReadRequest
  <2> QED
    BY <2>1, <1>8, <1>10
<1>13. CASE ~(l < 7)
  <2>1. b[1] = r.cmd /\ b[4] = t[5] /\ b[5] = t[6] /\ b[6] = t[7] /\ b[7] = t[8]
    <3>1. /\ 1 \in 1 .. l /\ 4 \in 1 .. l /\ 5 \in 1 .. l /\ 6 \in 1 .. l /\ 7 \in 1 .. l
          /\ 1 + 1 = 2 /\ 1 + 4 = 5 /\ 1 + 5 = 6 /\ 1 + 6 = 7 /\ 1 + 7 = 8
      BY <1>13
    <3> QED
      BY <3>1, <1>2, <1>7
  <2>2. (b[4] = 0 /\ b[5] = 0 /\ b[6] = 0 /\ b[7] # 0) <=> r.host # <<>>
    BY <2>1, <1>2
  <2>3. CASE r.cmd # 1
    <3>1. Socks4ReadRequest(p) = Return(p, "SOCKS_BROKEN")
      BY <1>7, <1>9, <1>13, <2>1, <2>3 DEF Socks4ReadRequest
    <3>2. ~Acceptable(r)
      BY <2>3 DEF Acceptable
    <3> QED
      BY <3>1, <3>2, <1>8, <1>10
  <2>4. ASSUME r.cmd = 1, l < Len(Encode(r)) - 1,
               Socks4ReadRequest(p)
                   = Return(p, IF Len(b) > SOCKS4_MAX_LENGTH THEN "SOCKS_BROKEN"
                               ELSE "SOCKS_INCOMPLETE")
        PROVE  \/ Socks4ReadRequest(p) = ParserRec(b, s, o, "SOCKS_INCOMPLETE")
               \/ /\ Socks4ReadRequest(p) = ParserRec(b, s, o, "SOCKS_BROKEN")
                  /\ ~Acceptable(r)
    <3>1. Len(Encode(r)) \in Nat
      BY <1>2
    <3>2. CASE Len(b) > SOCKS4_MAX_LENGTH
      <4>1. Socks4ReadRequest(p) = Return(p, "SOCKS_BROKEN")
        BY <2>4, <3>2
      <4>2. ~(Len(Encode(r)) <= SOCKS4_MAX_LENGTH)
        BY <2>4, <3>1, <3>2, <1>7, SocksAssumption
      <4>3. ~Acceptable(r)
        BY <4>2 DEF Acceptable
      <4> QED
        BY <4>1, <4>3, <1>10
    <3>3. CASE ~(Len(b) > SOCKS4_MAX_LENGTH)
      <4>1. Socks4ReadRequest(p) = Return(p, "SOCKS_INCOMPLETE")
        BY <2>4, <3>3
      <4> QED
        BY <4>1, <1>10
    <3> QED
      BY <3>2, <3>3
  <2>5. CASE r.cmd = 1 /\ l < 8 + u
    <3>1. NulFrom(b, 8) = 0
      <4>1. ASSUME NEW i \in 8 .. Len(b) PROVE b[i] # 0
        <5>1. i \in 1 .. l /\ i - 7 \in 1 .. u /\ 8 + (i - 7) = 1 + i
          BY <2>5, <1>2, <1>7
        <5> QED
          BY <5>1, <1>2, <1>7
      <4> QED
        BY <4>1, NulMissing
    <3>2. Socks4ReadRequest(p)
             = Return(p, IF Len(b) > SOCKS4_MAX_LENGTH THEN "SOCKS_BROKEN"
                         ELSE "SOCKS_INCOMPLETE")
      BY <3>1, <1>7, <1>9, <1>13, <2>1, <2>5 DEF Socks4ReadRequest
    <3>3. l < Len(Encode(r)) - 1
      BY <2>5, <1>2
    <3> QED
      BY <3>2, <3>3, <2>4, <2>5, <1>8
  <2>6. CASE r.cmd = 1 /\ 8 + u <= l
    <3>1. NulFrom(b, 8) = 8 + u
      <4>1. ASSUME NEW i \in 8 .. (8 + u) - 1 PROVE b[i] # 0
        <5>1. i \in 1 .. l /\ i - 7 \in 1 .. u /\ 8 + (i - 7) = 1 + i
          BY <2>6, <1>2
        <5> QED
          BY <5>1, <1>2, <1>7
      <4>2. 8 + u \in 8 .. Len(b) /\ b[8 + u] = 0
        <5>1. 8 + u \in 8 .. Len(b) /\ 8 + u \in 1 .. l /\ 1 + (8 + u) = 9 + u
          BY <2>6, <1>2, <1>7
        <5> QED
          BY <5>1, <1>2, <1>7
      <4>3. PICK j : j = 8 + u
        OBVIOUS
      <4>4. j \in 8 .. Len(b) /\ b[j] = 0 /\ \A i \in 8 .. j - 1 : b[i] # 0
        BY <4>1, <4>2, <4>3
      <4>5. 8 \in Nat /\ Len(b) \in Nat
        BY <1>7
      <4> QED
        BY <4>3, <4>4, <4>5, NulFound
    <3>2. SubSeq(b, 2, 3) = r.port
      <4>1. Part(b, 1, 3) = Part(t, 1 + 1, 1 + 3)
        BY <1>11, <1>13
      <4> QED
        BY <4>1, <1>2 DEF Part
    <3>3. ASSUME NEW e \in Nat, e <= l, 1 + e = Len(Encode(r)), NEW w,
                 Socks4ReadRequest(p) = WithRequest(p, Drop(b, e), w)
          PROVE  /\ Socks4ReadRequest(p)
                       = ParserRec(Drop(b, e), [s EXCEPT !.parsereq = w], o, "SOCKS_GOOD")
                 /\ IsBuffer(Drop(b, e), r, Len(Encode(r)), n)
      <4>1. IsBuffer(Drop(b, e), r, one + e, n)
        BY <3>3, <1>5, <1>6
      <4>2. one + e = Len(Encode(r))
        BY <3>3, <1>3
      <4> QED
        BY <4>1, <4>2, <3>3, <1>8, ParserRequest
    <3>4. CASE r.host = <<>>
      <4>1. PICK w : w = [af |-> "AF_INET", port |-> SubSeq(b, 2, 3),
                          addr |-> SubSeq(b, 4, 7)]
        OBVIOUS
      <4>2. 8 + u # 0
        BY <1>2
      <4>3. Socks4ReadRequest(p) = WithRequest(p, Drop(b, 8 + u), w)
        BY <4>1, <4>2, <3>1, <3>4, <2>1, <2>2, <2>6, <1>7, <1>9, <1>13
           DEF Socks4ReadRequest, WithRequest
      <4>4. 8 + u \in Nat /\ 1 + (8 + u) = Len(Encode(r))
        BY <1>2, <3>4
      <4>5. w.port = r.port /\ w.addr = SubSeq(b, 4, 7)
        BY <4>1, <3>2
      <4>6. SubSeq(b, 4, 7) = r.addr
        <5>1. Part(b, 3, 7) = Part(t, 1 + 3, 1 + 7)
          BY <1>11, <1>13
        <5> QED
          BY <5>1, <1>2, <3>4 DEF Part
      <4>7. Meant(r).addr = r.addr
        BY <3>4 DEF Meant
      <4> QED
        BY <4>3, <4>4, <4>5, <4>6, <4>7, <3>3, <2>6, <1>8
    <3>5. CASE r.host # <<>> /\ l < 9 + u + h
      <4>1. h # 0
        <5>1. r.host \in Seq(Byte \ {0})
          BY RequestsAssumption DEF WellFormed, SOCKS4_VERSION, SOCKS5_VERSION
        <5> QED
          BY <5>1, <3>5, <1>1
      <4>2. l < Len(Encode(r)) - 1
        BY <3>5, <1>2
      <4>3. NulFrom(b, 8 + u + 1) = 0
        <5>1. ASSUME NEW i \in 8 + u + 1 .. Len(b) PROVE b[i] # 0
          <6>1. /\ i \in 1 .. l /\ i - (8 + u) \in 1 .. h
                /\ 9 + u + (i - (8 + u)) = 1 + i
            BY <3>5, <1>2, <1>7
          <6> QED
            BY <6>1, <3>5, <1>2, <1>7
        <5> QED
          BY <5>1, NulMissing
      <4>4. 8 + u # 0
        BY <1>2
      <4>5. CASE l = 8 + u
        <5>1. Socks4ReadRequest(p) = Return(p, "SOCKS_INCOMPLETE")
          BY <4>4, <4>5, <3>1, <3>5, <2>1, <2>2, <2>6, <1>7, <1>9, <1>13
             DEF Socks4ReadRequest
        <5> QED
          BY <5>1, <1>8, <1>10
      <4>6. CASE l # 8 + u
        <5>1. Socks4ReadRequest(p)
                 = Return(p, IF Len(b) > SOCKS4_MAX_LENGTH THEN "SOCKS_BROKEN"
                             ELSE "SOCKS_INCOMPLETE")
          BY <4>3, <4>4, <4>6, <3>1, <3>5, <2>1, <2>2, <2>6, <1>7, <1>9, <1>13
             DEF Socks4ReadRequest
        <5> QED
          BY <5>1, <4>2, <2>4, <2>6, <1>8
      <4> QED
        BY <4>5, <4>6
    <3>6. CASE r.host # <<>> /\ 9 + u + h <= l
      <4>1. NulFrom(b, 8 + u + 1) = 9 + u + h
        <5>1. ASSUME NEW i \in 8 + u + 1 .. (9 + u + h) - 1 PROVE b[i] # 0
          <6>1. /\ i \in 1 .. l /\ i - (8 + u) \in 1 .. h
                /\ 9 + u + (i - (8 + u)) = 1 + i
            BY <3>6, <1>2, <1>7
          <6> QED
            BY <6>1, <3>6, <1>2, <1>7
        <5>2. 9 + u + h \in 8 + u + 1 .. Len(b) /\ b[9 + u + h] = 0
          <6>1. u \in Nat /\ h \in Nat /\ Len(b) = l
            BY <1>2, <1>7
          <6>2. /\ 9 + u + h \in 8 + u + 1 .. Len(b) /\ 9 + u + h \in 1 .. l
                /\ 1 + (9 + u + h) = 10 + u + h
            BY <6>1, <3>6
          <6> QED
            BY <6>2, <3>6, <1>2, <1>7
        <5>3. PICK i, j : i = 8 + u + 1 /\ j = 9 + u + h
          OBVIOUS
        <5>4. j \in i .. Len(b) /\ b[j] = 0 /\ \A k \in i .. j - 1 : b[k] # 0
          BY <5>1, <5>2, <5>3
        <5>5. i \in Nat /\ Len(b) \in Nat
          BY <5>3, <1>2, <1>7
        <5>6. NulFrom(b, i) = j
          BY <5>4, <5>5, NulFound
        <5> QED
          BY <5>3, <5>6
      <4>2. 8 + u # 0 /\ 9 + u + h # 0 /\ (9 + u + h) - (8 + u) - 1 = h
        BY <1>2
      <4>3. h # 0
        <5>1. r.host \in Seq(Byte \ {0})
          BY RequestsAssumption DEF WellFormed, SOCKS4_VERSION, SOCKS5_VERSION
        <5> QED
          BY <5>1, <3>6, <1>1
      <4>4. 8 + u # l
        BY <3>6, <4>3, <1>2
      <4>5. CASE h >= MaxAddr
        <5>1. Socks4ReadRequest(p) = Return(p, "SOCKS_BROKEN")
          BY <4>1, <4>2, <4>4, <4>5, <3>1, <3>6, <2>1, <2>2, <2>6, <1>7, <1>9, <1>13
             DEF Socks4ReadRequest
        <5>2. ~Acceptable(r)
          BY <4>5, <1>1, <1>2, SocksAssumption DEF Acceptable
        <5> QED
          BY <5>1, <5>2, <1>8, <1>10
      <4>6. CASE ~(h >= MaxAddr)
        <5>1. PICK w : w = [af |-> "AF_INET", port |-> SubSeq(b, 2, 3),
                            addr |-> SubSeq(b, 8 + u + 1, (9 + u + h) - 1)]
          OBVIOUS
        <5>2. Socks4ReadRequest(p) = WithRequest(p, Drop(b, 9 + u + h), w)
          BY <5>1, <4>1, <4>2, <4>4, <4>6, <3>1, <3>6, <2>1, <2>2, <2>6, <1>7, <1>9, <1>13
             DEF Socks4ReadRequest, WithRequest
        <5>3. 9 + u + h \in Nat /\ 1 + (9 + u + h) = Len(Encode(r))
          BY <1>2, <3>6
        <5>4. w.port = r.port /\ w.addr = SubSeq(b, 8 + u + 1, (9 + u + h) - 1)
          BY <5>1, <3>2
        <5>5. SubSeq(b, 8 + u + 1, (9 + u + h) - 1) = r.host
          <6>1. PICK i \in Nat, j \in Nat : i = 8 + u /\ j = 8 + u + h
            BY <1>2
          <6>2. i <= j /\ j <= l
            BY <6>1, <3>6, <1>2
          <6>3. Part(b, i, j) = Part(t, 1 + i, 1 + j)
            BY <6>2, <1>11
          <6>4. /\ i + 1 = 8 + u + 1 /\ (9 + u + h) - 1 = j
                /\ 1 + i + 1 = 10 + u /\ 1 + j = 9 + u + h
            BY <6>1, <1>2
          <6> QED
            BY <6>3, <6>4, <3>6, <1>2 DEF Part
        <5>6. Meant(r).addr = r.host
          BY <3>6 DEF Meant
        <5> QED
          BY <5>2, <5>3, <5>4, <5>5, <5>6, <3>3, <3>6, <1>8
      <4> QED
        BY <4>5, <4>6
    <3>7. l < 9 + u + h \/ 9 + u + h <= l
      BY <1>2
    <3> QED
      BY <3>4, <3>5, <3>6, <3>7, Zenon
  <2>7. l < 8 + u \/ 8 + u <= l
    BY <1>2
  <2> QED
    BY <2>3, <2>5, <2>6, <2>7, Zenon
<1> QED
  BY <1>12, <1>13

(***************************************************************************)
(* The whole parser.                                                       *)
(***************************************************************************)
\* The moments at which the parser may wait for more: m bytes are drained.
Phase(r, m, v, st) ==
    \/ m = 0 /\ v = 0 /\ st = "ST_WAITING"
    \/ /\ m = 1 /\ v = r.version /\ st = "ST_WAITING"
       /\ v \in {SOCKS4_VERSION, SOCKS5_VERSION}
    \/ /\ m = Greeting(r) /\ st = "ST_NEGOTIATION_DONE"
       /\ v = SOCKS5_VERSION /\ r.version = SOCKS5_VERSION

\* What may come of a call, with the buffer filled up to byte n.
Outcome(c, st, v, br, a, x, r, n) ==
    \/ /\ x = "SOCKS_INCOMPLETE" /\ ~br
       /\ \E m : IsBuffer(c, r, m, n) /\ Phase(r, m, v, st)
    \/ /\ x \in {"SOCKS_BROKEN", "SOCKS_CMD_NOT_CONNECT"} /\ ~Acceptable(r)
       /\ st \in {"ST_WAITING", "ST_NEGOTIATION_DONE"}
    \/ /\ x = "SOCKS_GOOD" /\ ~br /\ st = "ST_HAVE_ADDR"
       /\ IsBuffer(c, r, Len(Encode(r)), n)
       /\ a.addr = Meant(r).addr /\ a.port = r.port

Parsed(q, r, n) ==
    \E c, st, v, br, a, o, x :
        q = ParserRec(c, SockRec(st, v, br, a), o, x) /\ Outcome(c, st, v, br, a, x, r, n)

LEMMA ParsedIs ==
    ASSUME NEW c, NEW st, NEW v, NEW br, NEW a, NEW o, NEW x, NEW r, NEW n,
           Outcome(c, st, v, br, a, x, r, n)
    PROVE  Parsed(ParserRec(c, SockRec(st, v, br, a), o, x), r, n)
BY Zenon DEF Parsed

\* What handle_socks makes of the result of a stage.
LEMMA BrokenIs ==
    ASSUME NEW b, NEW st, NEW v, NEW br, NEW a, NEW o, NEW x
    PROVE  Broken(ParserRec(b, SockRec(st, v, br, a), o, x))
              = ParserRec(b, SockRec(st, v, Yes, a), o, "SOCKS_BROKEN")
<1>1. PICK s, y : s = SockRec(st, v, br, a) /\ y = "SOCKS_BROKEN"
  OBVIOUS
<1>2. PICK z : z = Yes
  OBVIOUS
<1>3. PICK p, q : p = ParserRec(b, s, o, x) /\ q = ParserRec(b, s, o, y)
  OBVIOUS
<1>4. [p EXCEPT !.ret = y] = q
  BY <1>3, ParserFields
<1>5. [p EXCEPT !.ret = y, !.sock.broken = z]
        = [[p EXCEPT !.ret = y] EXCEPT !.sock.broken = z]
  OBVIOUS
<1>6. WithBroken(q, z) = ParserRec(b, SockRec(st, v, z, a), o, y)
  BY <1>1, <1>3, Inside
<1>7. Broken(p) = [p EXCEPT !.ret = y, !.sock.broken = z]
  BY <1>1, <1>2, Zenon DEF Broken, Yes
<1>8. Broken(p) = ParserRec(b, SockRec(st, v, z, a), o, y)
  BY <1>4, <1>5, <1>6, <1>7, Zenon DEF WithBroken
<1> QED
  BY <1>1, <1>2, <1>3, <1>8, Zenon

LEMMA StageIs ==
    ASSUME NEW b, NEW st, NEW v, NEW br, NEW a, NEW o, NEW next
    PROVE  LET P(x) == ParserRec(b, SockRec(st, v, br, a), o, x)
           IN  /\ Stage(P("SOCKS_BROKEN"), next)
                    = ParserRec(b, SockRec(st, v, Yes, a), o, "SOCKS_BROKEN")
               /\ Stage(P("SOCKS_INCOMPLETE"), next) = P("SOCKS_INCOMPLETE")
               /\ Stage(P("SOCKS_CMD_NOT_CONNECT"), next)
                    = ParserRec(b, SockRec(st, v, Yes, a), o, "SOCKS_CMD_NOT_CONNECT")
               /\ Stage(P("SOCKS_GOOD"), next)
                    = ParserRec(b, SockRec(next, v, br, a), o, "SOCKS_GOOD")
<1> DEFINE P(x) == ParserRec(b, SockRec(st, v, br, a), o, x)
<1>1. \A x : P(x).ret = x
  BY ParserFields
<1>2. \A x : Broken(P(x)) = ParserRec(b, SockRec(st, v, Yes, a), o, "SOCKS_BROKEN")
  BY BrokenIs
<1>3. /\ \A x, w : WithBroken(P(x), w) = ParserRec(b, SockRec(st, v, w, a), o, x)
      /\ \A x, w : WithState(P(x), w) = ParserRec(b, SockRec(w, v, br, a), o, x)
  BY Inside
<1> HIDE DEF P
<1>4. Stage(P("SOCKS_BROKEN"), next) = Broken(P("SOCKS_BROKEN"))
  BY <1>1 DEF Stage
<1>5. Stage(P("SOCKS_INCOMPLETE"), next) = P("SOCKS_INCOMPLETE")
  BY <1>1 DEF Stage
<1>6. Stage(P("SOCKS_CMD_NOT_CONNECT"), next)
        = [P("SOCKS_CMD_NOT_CONNECT") EXCEPT !.sock.broken = TRUE]
  <2>1. P("SOCKS_CMD_NOT_CONNECT").ret = "SOCKS_CMD_NOT_CONNECT"
    BY <1>1
  <2>2. PICK p : p = P("SOCKS_CMD_NOT_CONNECT")
    OBVIOUS
  <2> QED
    BY <2>1, <2>2 DEF Stage
<1>7. Stage(P("SOCKS_GOOD"), next) = [P("SOCKS_GOOD") EXCEPT !.sock.state = next]
  <2>1. P("SOCKS_GOOD").ret = "SOCKS_GOOD"
    BY <1>1
  <2>2. PICK p : p = P("SOCKS_GOOD")
    OBVIOUS
  <2> QED
    BY <2>1, <2>2 DEF Stage
<1>8. /\ Stage(P("SOCKS_BROKEN"), next)
            = ParserRec(b, SockRec(st, v, Yes, a), o, "SOCKS_BROKEN")
      /\ Stage(P("SOCKS_CMD_NOT_CONNECT"), next)
            = ParserRec(b, SockRec(st, v, Yes, a), o, "SOCKS_CMD_NOT_CONNECT")
      /\ Stage(P("SOCKS_GOOD"), next) = ParserRec(b, SockRec(next, v, br, a), o, "SOCKS_GOOD")
  BY <1>2, <1>3, <1>4, <1>6, <1>7, Zenon DEF WithBroken, WithState, Yes
<1> QED
  BY <1>5, <1>8, Zenon DEF P

\* The version is taken off the buffer.
LEMMA VersionTaken ==
    ASSUME NEW r \in Requests, NEW b, NEW m, NEW n, IsBuffer(b, r, m, n), 3 <= n,
           NEW st, NEW br, NEW a, NEW o, NEW x, NEW v
    PROVE  m = 0 =>
              /\ VersionOff(ParserRec(b, SockRec(st, v, br, a), o, x))
                    = ParserRec(Tail(b), SockRec(st, r.version, br, a), o, x)
              /\ IsBuffer(Tail(b), r, 1, n)
<1>1. SUFFICES ASSUME m = 0
      PROVE  /\ VersionOff(ParserRec(b, SockRec(st, v, br, a), o, x))
                   = ParserRec(Tail(b), SockRec(st, r.version, br, a), o, x)
             /\ IsBuffer(Tail(b), r, 1, n)
  OBVIOUS
<1>2. /\ n \in Nat /\ b \in Seq(Byte) /\ Len(b) = n - m
      /\ \A i \in 1 .. n - m : b[i] = Conversation(r)[m + i]
      /\ \A i \in Nat : i <= n - m => IsBuffer(Drop(b, i), r, m + i, n)
  BY BufferIs
<1>3. Conversation(r)[1] = r.version
  <2>1. CASE r.version = SOCKS5_VERSION
    BY <2>1, Text5 DEF SOCKS5_VERSION
  <2>2. CASE r.version # SOCKS5_VERSION
    BY <2>2, Text4
  <2> QED
    BY <2>1, <2>2
<1>4. b[1] = r.version
  <2>1. 1 \in 1 .. n - m /\ m + 1 = 1
    BY <1>1, <1>2
  <2> QED
    BY <2>1, <1>2, <1>3
<1>5. Tail(b) = Drop(b, 1)
  BY <1>2 DEF Drop
<1>6. IsBuffer(Tail(b), r, 1, n)
  <2>1. 1 \in Nat /\ 1 <= n - m /\ m + 1 = 1
    BY <1>1, <1>2
  <2> QED
    BY <2>1, <1>2, <1>5
<1>7. PICK y, z, s : y = r.version /\ z = Tail(b) /\ s = SockRec(st, y, br, a)
  OBVIOUS
<1>8. PICK p, q : p = ParserRec(b, SockRec(st, v, br, a), o, x) /\ q = ParserRec(b, s, o, x)
  OBVIOUS
<1>9. WithVersion(p, y) = q
  BY <1>7, <1>8, Inside
<1>10. p.buf = b
  BY <1>8, ParserFields
<1>11. [q EXCEPT !.buf = z] = ParserRec(z, s, o, x)
  BY <1>8, ParserFields
<1>12. [p EXCEPT !.sock.version = p.buf[1], !.buf = Tail(@)]
          = [p EXCEPT !.sock.version = y, !.buf = z]
  <2>1. [p EXCEPT !.sock.version = p.buf[1], !.buf = Tail(@)]
          = [p EXCEPT !.sock.version = p.buf[1], !.buf = Tail(p.buf)]
    OBVIOUS
  <2> QED
    BY <2>1, <1>4, <1>7, <1>10, Zenon
<1>13. [p EXCEPT !.sock.version = y, !.buf = z]
          = [[p EXCEPT !.sock.version = y] EXCEPT !.buf = z]
  OBVIOUS
<1>14. [p EXCEPT !.sock.version = p.buf[1], !.buf = Tail(@)] = ParserRec(z, s, o, x)
  BY <1>9, <1>11, <1>12, <1>13, Zenon DEF WithVersion
<1> QED
  BY <1>6, <1>7, <1>8, <1>14, Zenon DEF VersionOff

\* The stages that find the address.
LEMMA Stage4 ==
    ASSUME NEW r \in Requests, r.version = SOCKS4_VERSION,
           NEW b, NEW n, IsBuffer(b, r, 1, n), NEW br, ~br, NEW a, NEW o, NEW x
    PROVE  Parsed(Stage(Socks4ReadRequest(
                ParserRec(b, SockRec("ST_WAITING", SOCKS4_VERSION, br, a), o, x)),
                "ST_HAVE_ADDR"), r, n)
<1>1. PICK st, v, done : st = "ST_WAITING" /\ v = SOCKS4_VERSION /\ done = "ST_HAVE_ADDR"
  OBVIOUS
<1>2. PICK s : s = SockRec(st, v, br, a)
  OBVIOUS
<1>3. PICK q : q = Socks4ReadRequest(ParserRec(b, s, o, x))
  OBVIOUS
<1>4. \/ q = ParserRec(b, s, o, "SOCKS_INCOMPLETE")
      \/ q = ParserRec(b, s, o, "SOCKS_BROKEN") /\ ~Acceptable(r)
      \/ \E c, w : /\ q = ParserRec(c, [s EXCEPT !.parsereq = w], o, "SOCKS_GOOD")
                   /\ IsBuffer(c, r, Len(Encode(r)), n)
                   /\ w.addr = Meant(r).addr /\ w.port = r.port
  BY <1>3, Request4
<1>5. ASSUME q = ParserRec(b, s, o, "SOCKS_INCOMPLETE")
      PROVE  Parsed(Stage(q, done), r, n)
  <2>1. Stage(q, done) = ParserRec(b, SockRec(st, v, br, a), o, "SOCKS_INCOMPLETE")
    BY <1>2, <1>5, StageIs
  <2>2. Phase(r, 1, v, st)
    BY <1>1 DEF Phase
  <2>3. Outcome(b, st, v, br, a, "SOCKS_INCOMPLETE", r, n)
    BY <2>2 DEF Outcome
  <2> QED
    BY <2>1, <2>3, ParsedIs
<1>6. ASSUME q = ParserRec(b, s, o, "SOCKS_BROKEN") /\ ~Acceptable(r)
      PROVE  Parsed(Stage(q, done), r, n)
  <2>1. Stage(q, done) = ParserRec(b, SockRec(st, v, Yes, a), o, "SOCKS_BROKEN")
    BY <1>2, <1>6, StageIs
  <2>2. Outcome(b, st, v, Yes, a, "SOCKS_BROKEN", r, n)
    BY <1>1, <1>6 DEF Outcome
  <2> QED
    BY <2>1, <2>2, ParsedIs
<1>7. ASSUME NEW c, NEW w, q = ParserRec(c, [s EXCEPT !.parsereq = w], o, "SOCKS_GOOD"),
             IsBuffer(c, r, Len(Encode(r)), n),
             w.addr = Meant(r).addr, w.port = r.port
      PROVE  Parsed(Stage(q, done), r, n)
  <2>1. [s EXCEPT !.parsereq = w] = SockRec(st, v, br, w)
    BY <1>2, SockFields
  <2>2. q = ParserRec(c, SockRec(st, v, br, w), o, "SOCKS_GOOD")
    BY <2>1, <1>7
  <2>3. Stage(q, done) = ParserRec(c, SockRec(done, v, br, w), o, "SOCKS_GOOD")
    BY <2>2, StageIs
  <2>4. Outcome(c, done, v, br, w, "SOCKS_GOOD", r, n)
    BY <1>1, <1>7 DEF Outcome
  <2> QED
    BY <2>3, <2>4, ParsedIs
<1>8. Parsed(Stage(q, done), r, n)
  BY <1>4, <1>5, <1>6, <1>7, Zenon
<1> QED
  BY <1>1, <1>2, <1>3, <1>8, Zenon

LEMMA Stage5 ==
    ASSUME NEW r \in Requests, r.version = SOCKS5_VERSION,
           NEW b, NEW n, IsBuffer(b, r, Greeting(r), n),
           NEW br, ~br, NEW a, NEW o, NEW x
    PROVE  Parsed(Stage(Socks5HandleRequest(
                ParserRec(b, SockRec("ST_NEGOTIATION_DONE", SOCKS5_VERSION, br, a), o, x)),
                "ST_HAVE_ADDR"), r, n)
<1>1. PICK st, v, done, m :
          /\ st = "ST_NEGOTIATION_DONE" /\ v = SOCKS5_VERSION /\ done = "ST_HAVE_ADDR"
          /\ m = Greeting(r)
  OBVIOUS
<1>2. PICK s : s = SockRec(st, v, br, a)
  OBVIOUS
<1>3. PICK q : q = Socks5HandleRequest(ParserRec(b, s, o, x))
  OBVIOUS
<1>4. \/ q = ParserRec(b, s, o, "SOCKS_INCOMPLETE")
      \/ q = ParserRec(b, s, o, "SOCKS_BROKEN") /\ ~Acceptable(r)
      \/ q = ParserRec(b, s, o, "SOCKS_CMD_NOT_CONNECT") /\ ~Acceptable(r)
      \/ \E c, w : /\ q = ParserRec(c, [s EXCEPT !.parsereq = w], o, "SOCKS_GOOD")
                   /\ IsBuffer(c, r, Len(Encode(r)), n)
                   /\ w.addr = r.addr /\ w.port = r.port
  BY <1>3, Request5
<1>5. ASSUME q = ParserRec(b, s, o, "SOCKS_INCOMPLETE")
      PROVE  Parsed(Stage(q, done), r, n)
  <2>1. Stage(q, done) = ParserRec(b, SockRec(st, v, br, a), o, "SOCKS_INCOMPLETE")
    BY <1>2, <1>5, StageIs
  <2>2. Phase(r, m, v, st)
    BY <1>1 DEF Phase
  <2>3. IsBuffer(b, r, m, n)
    BY <1>1
  <2>4. Outcome(b, st, v, br, a, "SOCKS_INCOMPLETE", r, n)
    BY <2>2, <2>3 DEF Outcome
  <2> QED
    BY <2>1, <2>4, ParsedIs
<1>6. ASSUME q = ParserRec(b, s, o, "SOCKS_BROKEN") /\ ~Acceptable(r)
      PROVE  Parsed(Stage(q, done), r, n)
  <2>1. Stage(q, done) = ParserRec(b, SockRec(st, v, Yes, a), o, "SOCKS_BROKEN")
    BY <1>2, <1>6, StageIs
  <2>2. Outcome(b, st, v, Yes, a, "SOCKS_BROKEN", r, n)
    BY <1>1, <1>6 DEF Outcome
  <2> QED
    BY <2>1, <2>2, ParsedIs
<1>7. ASSUME q = ParserRec(b, s, o, "SOCKS_CMD_NOT_CONNECT") /\ ~Acceptable(r)
      PROVE  Parsed(Stage(q, done), r, n)
  <2>1. Stage(q, done) = ParserRec(b, SockRec(st, v, Yes, a), o, "SOCKS_CMD_NOT_CONNECT")
    BY <1>2, <1>7, StageIs
  <2>2. Outcome(b, st, v, Yes, a, "SOCKS_CMD_NOT_CONNECT", r, n)
    BY <1>1, <1>7 DEF Outcome
  <2> QED
    BY <2>1, <2>2, ParsedIs
<1>8. ASSUME NEW c, NEW w, q = ParserRec(c, [s EXCEPT !.parsereq = w], o, "SOCKS_GOOD"),
             IsBuffer(c, r, Len(Encode(r)), n), w.addr = r.addr, w.port = r.port
      PROVE  Parsed(Stage(q, done), r, n)
  <2>1. [s EXCEPT !.parsereq = w] = SockRec(st, v, br, w)
    BY <1>2, SockFields
  <2>2. q = ParserRec(c, SockRec(st, v, br, w), o, "SOCKS_GOOD")
    BY <2>1, <1>8
  <2>3. Stage(q, done) = ParserRec(c, SockRec(done, v, br, w), o, "SOCKS_GOOD")
    BY <2>2, StageIs
  <2>4. Meant(r).addr = r.addr
    BY DEF Meant, SOCKS4_VERSION, SOCKS5_VERSION
  <2>5. Outcome(c, done, v, br, w, "SOCKS_GOOD", r, n)
    BY <2>4, <1>1, <1>8 DEF Outcome
  <2> QED
    BY <2>3, <2>5, ParsedIs
<1>9. Parsed(Stage(q, done), r, n)
  BY <1>4, <1>5, <1>6, <1>7, <1>8, Zenon
<1> QED
  BY <1>1, <1>2, <1>3, <1>9, Zenon

\* The control of handle_socks.
LEMMA HandleIs ==
    ASSUME NEW p0, NEW p, ~p0.sock.broken, ~(Len(p0.buf) < 3),
           p0.sock.version # 0 => p = p0,
           p0.sock.version = 0 => p = VersionOff(p0),
           NEW negotiated, negotiated = Stage(Socks5HandleNegotiation(p), "ST_NEGOTIATION_DONE")
    PROVE  /\ p.sock.version = SOCKS4_VERSION =>
                 HandleSocks(p0) = Stage(Socks4ReadRequest(p), "ST_HAVE_ADDR")
           /\ p.sock.version = SOCKS5_VERSION /\ p.sock.state = "ST_WAITING" =>
                 HandleSocks(p0) = IF negotiated.sock.state = "ST_NEGOTIATION_DONE"
                                   THEN Stage(Socks5HandleRequest(negotiated), "ST_HAVE_ADDR")
                                   ELSE negotiated
           /\ p.sock.version = SOCKS5_VERSION /\ p.sock.state = "ST_NEGOTIATION_DONE" =>
                 HandleSocks(p0) = Stage(Socks5HandleRequest(p), "ST_HAVE_ADDR")
           /\ p.sock.version \notin {SOCKS4_VERSION, SOCKS5_VERSION} =>
                 HandleSocks(p0) = Broken(p)
<1>1. p = IF p0.sock.version # 0 THEN p0
          ELSE [p0 EXCEPT !.sock.version = p0.buf[1], !.buf = Tail(@)]
  BY Zenon DEF VersionOff
<1>2. PICK later : later = IF p.sock.state = "ST_WAITING" THEN negotiated ELSE p
  OBVIOUS
<1>3. HandleSocks(p0) =
        IF p.sock.version = SOCKS4_VERSION
        THEN Stage(Socks4ReadRequest(p), "ST_HAVE_ADDR")
        ELSE IF p.sock.version = SOCKS5_VERSION
             THEN IF later.sock.state = "ST_NEGOTIATION_DONE"
                  THEN Stage(Socks5HandleRequest(later), "ST_HAVE_ADDR")
                  ELSE later
             ELSE Broken(p)
  BY <1>1, <1>2, Zenon DEF HandleSocks, MIN_SOCKS_PACKET
<1>4. p.sock.state = "ST_WAITING" => later = negotiated
  BY <1>2, Zenon
<1>5. p.sock.state = "ST_NEGOTIATION_DONE" => later = p
  BY <1>2
<1>6. p.sock.version = SOCKS5_VERSION => p.sock.version # SOCKS4_VERSION
  BY DEF SOCKS4_VERSION, SOCKS5_VERSION
<1> QED
  BY <1>3, <1>4, <1>5, <1>6, Zenon

\* A call in which the version is known.
LEMMA Handle5 ==
    ASSUME NEW r \in Requests, r.version = SOCKS5_VERSION,
           NEW b, NEW n, IsBuffer(b, r, 1, n), 2 <= n,
           NEW br, ~br, NEW a, NEW o, NEW x, NEW q, NEW p0, NEW p,
           p = ParserRec(b, SockRec("ST_WAITING", SOCKS5_VERSION, br, a), o, x),
           q = Stage(Socks5HandleNegotiation(p), "ST_NEGOTIATION_DONE"),
           HandleSocks(p0) = IF q.sock.state = "ST_NEGOTIATION_DONE"
                             THEN Stage(Socks5HandleRequest(q), "ST_HAVE_ADDR")
                             ELSE q
    PROVE  Parsed(HandleSocks(p0), r, n)
<1>1. PICK st, v, done : st = "ST_WAITING" /\ v = SOCKS5_VERSION /\ done = "ST_NEGOTIATION_DONE"
  OBVIOUS
<1>2. PICK s, q1 : s = SockRec(st, v, br, a) /\ q1 = Socks5HandleNegotiation(ParserRec(b, s, o, x))
  OBVIOUS
<1>3. \/ q1 = ParserRec(b, s, o, "SOCKS_INCOMPLETE")
      \/ \E c, w : q1 = ParserRec(c, s, w, "SOCKS_GOOD") /\ IsBuffer(c, r, Greeting(r), n)
      \/ (\E c, w : q1 = ParserRec(c, s, w, "SOCKS_BROKEN")) /\ ~Acceptable(r)
  BY <1>2, Negotiation
<1>4. q = Stage(q1, done)
  BY <1>1, <1>2, Zenon
<1>5. ASSUME q1 = ParserRec(b, s, o, "SOCKS_INCOMPLETE")
      PROVE  Parsed(HandleSocks(p0), r, n)
  <2>1. q = ParserRec(b, SockRec(st, v, br, a), o, "SOCKS_INCOMPLETE")
    BY <1>2, <1>4, <1>5, StageIs
  <2>2. q.sock.state = st
    BY <2>1, ParserFields, SockFields
  <2>3. HandleSocks(p0) = q
    BY <2>2, <1>1
  <2>4. Phase(r, 1, v, st)
    BY <1>1 DEF Phase
  <2>5. Outcome(b, st, v, br, a, "SOCKS_INCOMPLETE", r, n)
    BY <2>4 DEF Outcome
  <2> QED
    BY <2>1, <2>3, <2>5, ParsedIs
<1>6. ASSUME NEW c, NEW w, q1 = ParserRec(c, s, w, "SOCKS_GOOD"),
             IsBuffer(c, r, Greeting(r), n)
      PROVE  Parsed(HandleSocks(p0), r, n)
  <2>1. q = ParserRec(c, SockRec(done, v, br, a), w, "SOCKS_GOOD")
    BY <1>2, <1>4, <1>6, StageIs
  <2>2. q.sock.state = done
    BY <2>1, ParserFields, SockFields
  <2>3. HandleSocks(p0) = Stage(Socks5HandleRequest(q), "ST_HAVE_ADDR")
    BY <2>2, <1>1
  <2>4. q = ParserRec(c, SockRec("ST_NEGOTIATION_DONE", SOCKS5_VERSION, br, a), w, "SOCKS_GOOD")
    BY <2>1, <1>1, Zenon
  <2>5. IsBuffer(c, r, Greeting(r), n)
    BY <1>6
  <2> QED
    BY <2>3, <2>4, <2>5, Stage5
<1>7. ASSUME NEW c, NEW w, q1 = ParserRec(c, s, w, "SOCKS_BROKEN"), ~Acceptable(r)
      PROVE  Parsed(HandleSocks(p0), r, n)
  <2>1. q = ParserRec(c, SockRec(st, v, Yes, a), w, "SOCKS_BROKEN")
    BY <1>2, <1>4, <1>7, StageIs
  <2>2. q.sock.state = st
    BY <2>1, ParserFields, SockFields
  <2>3. HandleSocks(p0) = q
    BY <2>2, <1>1
  <2>4. Outcome(c, st, v, Yes, a, "SOCKS_BROKEN", r, n)
    BY <1>1, <1>7 DEF Outcome
  <2> QED
    BY <2>1, <2>3, <2>4, ParsedIs
<1> QED
  BY <1>3, <1>5, <1>6, <1>7, Zenon

LEMMA Parses ==
    ASSUME NEW r \in Requests, NEW b, NEW m, NEW n, IsBuffer(b, r, m, n),
           NEW st, NEW v, Phase(r, m, v, st), NEW br, ~br, NEW a, NEW o, NEW x
    PROVE  Parsed(HandleSocks(ParserRec(b, SockRec(st, v, br, a), o, x)), r, n)
<1>1. PICK p0 : p0 = ParserRec(b, SockRec(st, v, br, a), o, x)
  OBVIOUS
<1>2. p0.buf = b /\ p0.sock = SockRec(st, v, br, a) /\ ~p0.sock.broken /\ p0.sock.version = v
  BY <1>1, ParserFields, SockFields
<1>3. m \in Nat /\ n \in Nat /\ Len(b) = n - m
  BY BufferIs
<1>4. ASSUME Len(b) < 3 PROVE Parsed(HandleSocks(p0), r, n)
  <2>1. HandleSocks(p0) = Return(p0, "SOCKS_INCOMPLETE")
    BY <1>2, <1>4 DEF HandleSocks, MIN_SOCKS_PACKET
  <2>2. Return(p0, "SOCKS_INCOMPLETE")
           = ParserRec(b, SockRec(st, v, br, a), o, "SOCKS_INCOMPLETE")
    BY <1>1, ParserFields DEF Return
  <2>3. Outcome(b, st, v, br, a, "SOCKS_INCOMPLETE", r, n)
    BY DEF Outcome
  <2> QED
    BY <2>1, <2>2, <2>3, ParsedIs
<1>5. ASSUME ~(Len(b) < 3), m = 0, v = 0, st = "ST_WAITING"
      PROVE  Parsed(HandleSocks(p0), r, n)
  <2>1. 3 <= n
    BY <1>3, <1>5
  <2>2. PICK c, y, p : c = Tail(b) /\ y = r.version
                       /\ p = ParserRec(c, SockRec(st, y, br, a), o, x)
    OBVIOUS
  <2>3. VersionOff(p0) = p /\ IsBuffer(c, r, 1, n)
    <3>1. m = 0 => /\ VersionOff(p0) = ParserRec(Tail(b), SockRec(st, r.version, br, a), o, x)
                   /\ IsBuffer(Tail(b), r, 1, n)
      BY <2>1, <1>1, VersionTaken
    <3> QED
      BY <3>1, <2>2, <1>5, Zenon
  <2>4. p.sock.version = y /\ p.sock.state = st
    BY <2>2, ParserFields, SockFields
  <2>5. PICK q : q = Stage(Socks5HandleNegotiation(p), "ST_NEGOTIATION_DONE")
    OBVIOUS
  <2>6. /\ y = SOCKS4_VERSION => HandleSocks(p0) = Stage(Socks4ReadRequest(p), "ST_HAVE_ADDR")
        /\ y = SOCKS5_VERSION =>
              HandleSocks(p0) = IF q.sock.state = "ST_NEGOTIATION_DONE"
                                THEN Stage(Socks5HandleRequest(q), "ST_HAVE_ADDR")
                                ELSE q
        /\ y \notin {SOCKS4_VERSION, SOCKS5_VERSION} => HandleSocks(p0) = Broken(p)
    BY <2>3, <2>4, <2>5, <1>2, <1>5, HandleIs
  <2>7. CASE y = SOCKS4_VERSION
    <3>1. p = ParserRec(c, SockRec("ST_WAITING", SOCKS4_VERSION, br, a), o, x)
      BY <2>2, <2>7, <1>5, Zenon
    <3>2. r.version = SOCKS4_VERSION
      BY <2>2, <2>7
    <3>3. Parsed(Stage(Socks4ReadRequest(p), "ST_HAVE_ADDR"), r, n)
      BY <3>1, <3>2, <2>3, Stage4
    <3> QED
      BY <3>3, <2>6, <2>7, Zenon
  <2>8. CASE y = SOCKS5_VERSION
    <3>1. p = ParserRec(c, SockRec("ST_WAITING", SOCKS5_VERSION, br, a), o, x)
      BY <2>2, <2>8, <1>5, Zenon
    <3>2. r.version = SOCKS5_VERSION
      BY <2>2, <2>8
    <3>3. 2 <= n
      BY <2>1, <1>3
    <3> QED
      BY <3>1, <3>2, <3>3, <2>3, <2>5, <2>6, <2>8, Handle5
  <2>9. CASE y \notin {SOCKS4_VERSION, SOCKS5_VERSION}
    <3>1. HandleSocks(p0) = Broken(p)
      BY <2>6, <2>9
    <3>2. Broken(p) = ParserRec(c, SockRec(st, y, Yes, a), o, "SOCKS_BROKEN")
      BY <2>2, BrokenIs
    <3>3. ~Acceptable(r)
      BY <2>2, <2>9 DEF Acceptable
    <3>4. Outcome(c, st, y, Yes, a, "SOCKS_BROKEN", r, n)
      BY <3>3, <1>5 DEF Outcome
    <3> QED
      BY <3>1, <3>2, <3>4, ParsedIs
  <2> QED
    BY <2>7, <2>8, <2>9
<1>6. ASSUME ~(Len(b) < 3), m = 1, st = "ST_WAITING", v = r.version,
             v \in {SOCKS4_VERSION, SOCKS5_VERSION}
      PROVE  Parsed(HandleSocks(p0), r, n)
  <2>1. v # 0
    BY <1>6 DEF SOCKS4_VERSION, SOCKS5_VERSION
  <2>2. p0.sock.state = st
    BY <1>1, ParserFields, SockFields
  <2>3. PICK q : q = Stage(Socks5HandleNegotiation(p0), "ST_NEGOTIATION_DONE")
    OBVIOUS
  <2>4. /\ v = SOCKS4_VERSION => HandleSocks(p0) = Stage(Socks4ReadRequest(p0), "ST_HAVE_ADDR")
        /\ v = SOCKS5_VERSION =>
              HandleSocks(p0) = IF q.sock.state = "ST_NEGOTIATION_DONE"
                                THEN Stage(Socks5HandleRequest(q), "ST_HAVE_ADDR")
                                ELSE q
    BY <2>1, <2>2, <2>3, <1>2, <1>6, HandleIs
  <2>5. IsBuffer(b, r, 1, n)
    BY <1>6
  <2>6. CASE v = SOCKS4_VERSION
    <3>1. p0 = ParserRec(b, SockRec("ST_WAITING", SOCKS4_VERSION, br, a), o, x)
      BY <2>6, <1>1, <1>6, Zenon
    <3>2. Parsed(Stage(Socks4ReadRequest(p0), "ST_HAVE_ADDR"), r, n)
      BY <3>1, <2>5, <2>6, <1>6, Stage4
    <3> QED
      BY <3>2, <2>4, <2>6, Zenon
  <2>7. CASE v = SOCKS5_VERSION
    <3>1. p0 = ParserRec(b, SockRec("ST_WAITING", SOCKS5_VERSION, br, a), o, x)
      BY <2>7, <1>1, <1>6, Zenon
    <3>2. 2 <= n
      BY <1>3, <1>6
    <3>3. r.version = SOCKS5_VERSION
      BY <2>7, <1>6
    <3> QED
      BY <3>1, <3>2, <3>3, <2>3, <2>4, <2>5, <2>7, Handle5
  <2> QED
    BY <2>6, <2>7, <1>6
<1>7. ASSUME ~(Len(b) < 3), m = Greeting(r), st = "ST_NEGOTIATION_DONE",
             v = SOCKS5_VERSION, r.version = SOCKS5_VERSION
      PROVE  Parsed(HandleSocks(p0), r, n)
  <2>1. v # 0
    BY <1>7 DEF SOCKS5_VERSION
  <2>2. p0.sock.state = "ST_NEGOTIATION_DONE"
    BY <1>1, <1>7, ParserFields, SockFields
  <2>3. HandleSocks(p0) = Stage(Socks5HandleRequest(p0), "ST_HAVE_ADDR")
    BY <2>1, <2>2, <1>2, <1>7, HandleIs
  <2>4. p0 = ParserRec(b, SockRec("ST_NEGOTIATION_DONE", SOCKS5_VERSION, br, a), o, x)
    BY <1>1, <1>7, Zenon
  <2>5. IsBuffer(b, r, Greeting(r), n)
    BY <1>7
  <2> QED
    BY <2>3, <2>4, <2>5, <1>7, Stage5
<1>8. Parsed(HandleSocks(p0), r, n)
  BY <1>4, <1>5, <1>6, <1>7, Zenon DEF Phase
<1> QED
  BY <1>1, <1>8, Zenon

(***************************************************************************)
(* The circuit.  The inductive invariant: while the client program is read *)
(* the parser is at one of its moments (Reading); an address it has found  *)
(* is the one asked for (Chosen); while connections are started for it the *)
(* request is drained, no more and no less (Pending); only a request that  *)
(* is not acceptable is given up (Refused); and what went to the protocol  *)
(* is what was read behind the request (Passed).                           *)
(***************************************************************************)
Circuits ==
    [st : {"open", "closed", "aborted"}, socks : BOOLEAN,
     enabled : SUBSET {"read", "write"}, pending_write_eof : BOOLEAN,
     write_eof : BOOLEAN, unflushed : BOOLEAN, wire : Int]

Shape ==
    /\ request \in Requests /\ fed \in Nat /\ fed <= Len(Text)
    /\ \E st, v, br, a : sock = SockRec(st, v, br, a)
    /\ ckt \in Circuits
    /\ conns \in [Targets -> {"none", "connecting", "up", "failed"}]

Listening == ckt.st = "open" /\ ckt.socks /\ "read" \in ckt.enabled

Reading ==
    Listening => /\ ~sock.broken /\ used \in Nat /\ used <= fed
                 /\ Phase(request, used, sock.version, sock.state)
                 /\ \A t \in Targets : conns[t] # "connecting"

Chosen ==
    ckt.socks /\ sock.state = "ST_HAVE_ADDR" =>
        /\ used = Len(Encode(request))
        /\ sock.parsereq.addr = Meant(request).addr /\ sock.parsereq.port = request.port

Pending ==
    ckt.socks => \A t \in Targets : conns[t] = "connecting" => used = Len(Encode(request))

Refused == sock.broken => ~Acceptable(request)

Passed ==
    /\ ckt.socks => ckt.wire = 0
    /\ ~ckt.socks => ckt.wire = fed - Len(Encode(request))

SocksInv == Shape /\ Reading /\ Chosen /\ Pending /\ Refused /\ Passed

LEMMA EncodeLen == ASSUME NEW r \in Requests PROVE Len(Encode(r)) \in Nat
<1>1. CASE r.version = SOCKS5_VERSION
  BY <1>1, Text5
<1>2. CASE r.version # SOCKS5_VERSION
  BY <1>2, Text4
<1> QED
  BY <1>1, <1>2

\* What circuit_t::close, a write and circuit_do_flush leave of a circuit.
LEMMA CloseIs ==
    ASSUME NEW c \in Circuits
    PROVE  /\ Close(c) \in Circuits /\ Close(c).st = "closed"
           /\ Close(c).socks = c.socks /\ Close(c).wire = c.wire
BY DEF Close, Circuits

LEMMA WroteIs ==
    ASSUME NEW c \in Circuits, NEW p
    PROVE  /\ Wrote(c, p) \in Circuits /\ Wrote(c, p).st = c.st
           /\ Wrote(c, p).socks = c.socks /\ Wrote(c, p).wire = c.wire
           /\ Wrote(c, p).enabled = c.enabled
<1>1. PICK y \in BOOLEAN : y = (c.unflushed \/ p.out # <<>>)
  OBVIOUS
<1>2. Wrote(c, p) = [c EXCEPT !.unflushed = y]
  BY <1>1, Zenon DEF Wrote
<1> QED
  BY <1>2 DEF Circuits

LEMMA FlushIs ==
    ASSUME NEW c \in Circuits
    PROVE  /\ DoFlush(c) \in Circuits /\ DoFlush(c).st = c.st
           /\ DoFlush(c).socks = c.socks /\ DoFlush(c).wire = c.wire
           /\ DoFlush(c).enabled = c.enabled
BY DEF DoFlush, Circuits

LEMMA InitInv == Init => SocksInv
<1> SUFFICES ASSUME Init PROVE SocksInv
  OBVIOUS
<1>1. Shape
  <2>1. sock = SockRec("ST_WAITING", 0, FALSE, NoAddress)
    BY DEF Init, socks_state_new, SockRec
  <2>2. Len(Text) \in Nat
    <3>1. Conversation(request) \in Seq(Byte)
      BY TextIsBytes DEF Init
    <3> QED
      BY <3>1 DEF Text
  <2>3. ckt \in Circuits /\ conns \in [Targets -> {"none", "connecting", "up", "failed"}]
    BY DEF Init, Circuits
  <2>4. \E st, v, br, a : sock = SockRec(st, v, br, a)
    BY <2>1, Zenon
  <2>5. request \in Requests /\ fed \in Nat /\ fed <= Len(Text)
    BY <2>2 DEF Init
  <2> QED
    BY <2>3, <2>4, <2>5 DEF Shape
<1>2. /\ sock.state = "ST_WAITING" /\ ~sock.broken /\ sock.version = 0
      /\ ckt.socks /\ ckt.wire = 0
  BY DEF Init, socks_state_new
<1>3. Reading
  BY <1>2 DEF Init, Reading, Phase
<1> QED
  BY <1>1, <1>2, <1>3 DEF Init, SocksInv, Chosen, Pending, Refused, Passed

\* A reply leaves all of the state but, in SOCKS5, where it is.
LEMMA ReplySock5 ==
    ASSUME NEW b, NEW st, NEW v, NEW br, NEW a, NEW o, NEW x, NEW status
    PROVE  Socks5SendReply(ParserRec(b, SockRec(st, v, br, a), o, x), status).sock
              = SockRec("ST_SENT_REPLY", v, br, a)
<1>1. PICK p, y, w : /\ p = ParserRec(b, SockRec(st, v, br, a), o, x) /\ y = "ST_SENT_REPLY"
                     /\ w = Append(p.out, [kind |-> "reply", status |-> status,
                                address |-> IF status = SOCKS5_FAILED_UNSUPPORTED
                                            THEN NoAddress ELSE p.sock.parsereq])
  OBVIOUS
<1>2. Socks5SendReply(p, status) = [p EXCEPT !.sock.state = y, !.out = w]
  BY <1>1, Zenon DEF Socks5SendReply
<1>3. [p EXCEPT !.sock.state = y, !.out = w] = [[p EXCEPT !.sock.state = y] EXCEPT !.out = w]
  OBVIOUS
<1>4. WithState(p, y) = ParserRec(b, SockRec(y, v, br, a), o, x)
  BY <1>1, Inside
<1>5. PICK q : q = ParserRec(b, SockRec(y, v, br, a), o, x)
  OBVIOUS
<1>6. Socks5SendReply(p, status) = [q EXCEPT !.out = w]
  BY <1>2, <1>3, <1>4, <1>5, Zenon DEF WithState
<1>7. [q EXCEPT !.out = w] = ParserRec(b, SockRec(y, v, br, a), w, x)
  BY <1>5, ParserFields
<1>8. ParserRec(b, SockRec(y, v, br, a), w, x).sock = SockRec(y, v, br, a)
  BY ParserFields
<1> QED
  BY <1>1, <1>6, <1>7, <1>8, Zenon

LEMMA ReplySock4 ==
    ASSUME NEW b, NEW s, NEW o, NEW x, NEW status
    PROVE  Socks4SendReply(ParserRec(b, s, o, x), status).sock = s
<1>1. PICK p : p = ParserRec(b, s, o, x)
  OBVIOUS
<1>2. PICK w : w = Append(p.out, [kind |-> "reply", status |-> status,
                     address |-> IF Len(p.sock.parsereq.addr) = 4 THEN p.sock.parsereq
                                 ELSE [p.sock.parsereq EXCEPT !.addr = <<0, 0, 0, 0>>]])
  OBVIOUS
<1>3. Socks4SendReply(p, status) = [p EXCEPT !.out = w]
  BY <1>2, Zenon DEF Socks4SendReply
<1>4. [p EXCEPT !.out = w] = ParserRec(b, s, w, x)
  BY <1>1, ParserFields
<1>5. ParserRec(b, s, w, x).sock = s
  BY ParserFields
<1> QED
  BY <1>1, <1>3, <1>4, <1>5, Zenon

LEMMA ReplySock ==
    ASSUME NEW b, NEW st, NEW v, NEW br, NEW a, NEW o, NEW x, NEW error
    PROVE  \E y \in {st, "ST_SENT_REPLY"} :
              SendReply(ParserRec(b, SockRec(st, v, br, a), o, x), error).sock
                 = SockRec(y, v, br, a)
<1>1. PICK p, s : s = SockRec(st, v, br, a) /\ p = ParserRec(b, s, o, x)
  OBVIOUS
<1>2. \A status : Socks5SendReply(p, status).sock = SockRec("ST_SENT_REPLY", v, br, a)
  BY <1>1, ReplySock5
<1>3. \A status : Socks4SendReply(p, status).sock = s
  BY <1>1, ReplySock4
<1>4. SendReply(p, error).sock \in {SockRec("ST_SENT_REPLY", v, br, a), s}
  BY <1>2, <1>3, Zenon DEF SendReply
<1> QED
  BY <1>1, <1>4, Zenon

\* What socks_read_cb makes of what it has read.
LEMMA ReadEffect ==
    ASSUME SocksInv, NEW n \in Nat, SocksRead(n)
    PROVE  /\ \E st, v, br, a : sock' = SockRec(st, v, br, a)
           /\ \/ /\ used' \in Nat /\ used' <= n
                 /\ Phase(request, used', sock'.version, sock'.state) /\ ~sock'.broken
                 /\ conns' = conns /\ \E p : ckt' = Wrote(ckt, p)
              \/ /\ ~Acceptable(request) /\ sock'.state # "ST_HAVE_ADDR"
                 /\ conns' = conns
                 /\ \/ \E p : ckt' = Close(Wrote(ckt, p))
                    \/ \E p : ckt' = DoFlush([Wrote(ckt, p) EXCEPT !.enabled = {"write"}])
              \/ /\ used' = Len(Encode(request)) /\ ~sock'.broken
                 /\ sock'.parsereq.addr = Meant(request).addr
                 /\ sock'.parsereq.port = request.port
                 /\ \E p : Connect([Wrote(ckt, p) EXCEPT !.enabled = {}], sock')
<1>1. /\ Listening /\ fed' = n /\ n \in fed + 1 .. Len(Text)
      /\ ReadCb(HandleSocks(Parser(n)))
  BY DEF SocksRead, Listening
<1>2. /\ request \in Requests /\ fed \in Nat /\ ~sock.broken /\ used \in Nat /\ used <= fed
      /\ Phase(request, used, sock.version, sock.state)
  BY <1>1 DEF SocksInv, Shape, Reading
<1>3. PICK b, m, r, q : /\ b = Buffer(n) /\ m = used /\ r = request
                        /\ q = HandleSocks(Parser(n))
  OBVIOUS
<1>4. IsBuffer(b, r, m, n)
  BY <1>1, <1>2, <1>3 DEF IsBuffer, Buffer, Text
<1>5. PICK st, v, br, a : sock = SockRec(st, v, br, a)
  BY DEF SocksInv, Shape
<1>6. sock.state = st /\ sock.version = v /\ ~br
  BY <1>2, <1>5, SockFields
<1>7. Parser(n) = ParserRec(b, SockRec(st, v, br, a), <<>>, "SOCKS_GOOD")
  BY <1>3, <1>5, Zenon DEF Parser, ParserRec
<1>8. Parsed(q, r, n)
  <2>1. r \in Requests /\ Phase(r, m, v, st)
    BY <1>2, <1>3, <1>6
  <2> QED
    BY <2>1, <1>3, <1>4, <1>6, <1>7, Parses
<1>9. PICK c, st1, v1, br1, a1, o1, x1 :
          /\ q = ParserRec(c, SockRec(st1, v1, br1, a1), o1, x1)
          /\ Outcome(c, st1, v1, br1, a1, x1, r, n)
  BY <1>8, Zenon DEF Parsed
<1>10. PICK s1 : s1 = SockRec(st1, v1, br1, a1)
  OBVIOUS
<1>11. q.buf = c /\ q.sock = s1 /\ q.ret = x1
  BY <1>9, <1>10, ParserFields
<1>12. s1.state = st1 /\ s1.version = v1 /\ s1.broken = br1 /\ s1.parsereq = a1
  BY <1>10, SockFields
<1>13. used' = m + Len(b) - Len(c)
  BY <1>1, <1>3, <1>11 DEF ReadCb
<1>14. Len(b) = n - m /\ m \in Nat
  <2>1. r \in Requests /\ m \in Nat
    BY <1>2, <1>3
  <2> QED
    BY <2>1, <1>4, BufferIs
<1>15. ASSUME NEW k, IsBuffer(c, r, k, n) PROVE used' = k /\ k \in Nat /\ k <= n
  <2>1. Len(c) = n - k /\ k \in Nat /\ k <= n
    BY <1>2, <1>3, <1>15, BufferIs
  <2> QED
    BY <2>1, <1>13, <1>14
<1>16. ReadCb(q)
  BY <1>1, <1>3
<1>17. CASE x1 = "SOCKS_INCOMPLETE"
  <2>1. PICK k : IsBuffer(c, r, k, n) /\ Phase(r, k, v1, st1)
    BY <1>9, <1>17 DEF Outcome
  <2>2. ~br1
    BY <1>9, <1>17 DEF Outcome
  <2>3. used' = k /\ k \in Nat /\ k <= n
    BY <2>1, <1>15
  <2>4. sock' = s1 /\ conns' = conns /\ ckt' = Wrote(ckt, q)
    BY <1>11, <1>16, <1>17 DEF ReadCb
  <2>5. Phase(request, used', sock'.version, sock'.state) /\ ~sock'.broken
    BY <2>1, <2>2, <2>3, <2>4, <1>3, <1>12
  <2>6. \E st2, v2, br2, a2 : sock' = SockRec(st2, v2, br2, a2)
    BY <2>4, <1>10, Zenon
  <2>7. \E p : ckt' = Wrote(ckt, p)
    BY <2>4, Zenon
  <2>8. used' \in Nat /\ used' <= n
    BY <2>3
  <2> QED
    BY <2>4, <2>5, <2>6, <2>7, <2>8, Zenon
<1>18. CASE x1 = "SOCKS_BROKEN"
  <2>1. ~Acceptable(r) /\ st1 # "ST_HAVE_ADDR"
    BY <1>9, <1>18 DEF Outcome
  <2>2. sock' = s1 /\ conns' = conns /\ ckt' = Close(Wrote(ckt, q))
    BY <1>11, <1>16, <1>18 DEF ReadCb
  <2>3. \E st2, v2, br2, a2 : sock' = SockRec(st2, v2, br2, a2)
    BY <2>2, <1>10, Zenon
  <2>4. \E p : ckt' = Close(Wrote(ckt, p))
    BY <2>2, Zenon
  <2>5. ~Acceptable(request) /\ sock'.state # "ST_HAVE_ADDR"
    BY <2>1, <2>2, <1>3, <1>12
  <2> QED
    BY <2>2, <2>3, <2>4, <2>5, Zenon
<1>19. CASE x1 = "SOCKS_CMD_NOT_CONNECT"
  <2>1. ~Acceptable(r)
    BY <1>9, <1>19 DEF Outcome
  <2>2. PICK q2 : q2 = Socks5SendReply(q, SOCKS5_FAILED_UNSUPPORTED)
    OBVIOUS
  <2>3. /\ sock' = q2.sock /\ conns' = conns
        /\ ckt' = DoFlush([Wrote(ckt, q2) EXCEPT !.enabled = {"write"}])
    BY <2>2, <1>11, <1>16, <1>19 DEF ReadCb
  <2>4. q2.sock = SockRec("ST_SENT_REPLY", v1, br1, a1)
    BY <2>2, <1>9, ReplySock5
  <2>5. sock'.state # "ST_HAVE_ADDR"
    BY <2>3, <2>4, SockFields
  <2>6. \E st2, v2, br2, a2 : sock' = SockRec(st2, v2, br2, a2)
    BY <2>3, <2>4, Zenon
  <2>7. \E p : ckt' = DoFlush([Wrote(ckt, p) EXCEPT !.enabled = {"write"}])
    BY <2>3, Zenon
  <2>8. ~Acceptable(request)
    BY <2>1, <1>3
  <2> QED
    BY <2>3, <2>5, <2>6, <2>7, <2>8, Zenon
<1>20. CASE x1 = "SOCKS_GOOD"
  <2>1. /\ ~br1 /\ IsBuffer(c, r, Len(Encode(r)), n)
        /\ a1.addr = Meant(r).addr /\ a1.port = r.port
    BY <1>9, <1>20 DEF Outcome
  <2>2. used' = Len(Encode(r))
    BY <2>1, <1>15
  <2>3. sock' = s1 /\ Connect([Wrote(ckt, q) EXCEPT !.enabled = {}], s1)
    BY <1>11, <1>16, <1>20 DEF ReadCb
  <2>4. \E st2, v2, br2, a2 : sock' = SockRec(st2, v2, br2, a2)
    BY <2>3, <1>10, Zenon
  <2>5. /\ used' = Len(Encode(request)) /\ ~sock'.broken
        /\ sock'.parsereq.addr = Meant(request).addr
        /\ sock'.parsereq.port = request.port
    BY <2>1, <2>2, <2>3, <1>3, <1>12
  <2>6. \E p : Connect([Wrote(ckt, p) EXCEPT !.enabled = {}], sock')
    BY <2>3, Zenon
  <2> QED
    BY <2>4, <2>5, <2>6, Zenon
<1> QED
  BY <1>9, <1>17, <1>18, <1>19, <1>20 DEF Outcome

LEMMA ReadPreserves == ASSUME SocksInv, NEW n \in Nat, SocksRead(n) PROVE SocksInv'
<1>1. /\ request' = request /\ request \in Requests /\ fed' = n /\ n <= Len(Text)
      /\ ckt \in Circuits /\ ckt.socks /\ ckt.wire = 0 /\ Listening
      /\ conns \in [Targets -> {"none", "connecting", "up", "failed"}]
      /\ \A t \in Targets : conns[t] # "connecting"
  BY DEF SocksInv, Shape, Reading, Passed, SocksRead, Listening
<1>2. Text' = Text /\ Acceptable(request)' = Acceptable(request)
  BY <1>1 DEF Text
<1>3. PICK st, v, br, a : sock' = SockRec(st, v, br, a)
  BY ReadEffect
<1>4. /\ \A p : Wrote(ckt, p) \in Circuits
      /\ \A p : /\ Wrote(ckt, p).st = ckt.st /\ Wrote(ckt, p).socks = ckt.socks
                /\ Wrote(ckt, p).wire = ckt.wire
  BY <1>1, WroteIs
<1>5. SUFFICES /\ ckt' \in Circuits /\ conns' \in [Targets -> {"none", "connecting", "up", "failed"}]
               /\ Reading' /\ Chosen' /\ Pending' /\ Refused' /\ ckt'.socks /\ ckt'.wire = 0
  <2>1. \E st1, v1, br1, a1 : sock' = SockRec(st1, v1, br1, a1)
    BY <1>3, Zenon
  <2>2. request' \in Requests /\ fed' \in Nat /\ fed' <= Len(Text')
    BY <1>1, <1>2
  <2> QED
    BY <2>1, <2>2 DEF SocksInv, Shape, Passed
<1>6. ASSUME used' \in Nat, used' <= n, ~sock'.broken, conns' = conns,
             Phase(request, used', sock'.version, sock'.state),
             NEW p, ckt' = Wrote(ckt, p)
      PROVE  /\ ckt' \in Circuits /\ conns' \in [Targets -> {"none", "connecting", "up", "failed"}]
             /\ Reading' /\ Chosen' /\ Pending' /\ Refused' /\ ckt'.socks /\ ckt'.wire = 0
  <2>1. ckt' \in Circuits /\ ckt'.socks /\ ckt'.wire = 0
    BY <1>1, <1>4, <1>6
  <2>2. Reading'
    BY <1>1, <1>6 DEF Reading
  <2>3. sock'.state # "ST_HAVE_ADDR"
    BY <1>6 DEF Phase
  <2>4. Chosen' /\ Pending' /\ Refused'
    BY <2>3, <1>1, <1>6 DEF Chosen, Pending, Refused
  <2> QED
    BY <2>1, <2>2, <2>4, <1>1, <1>6
<1>7. ASSUME ~Acceptable(request), sock'.state # "ST_HAVE_ADDR", conns' = conns,
             NEW p, \/ ckt' = Close(Wrote(ckt, p))
                    \/ ckt' = DoFlush([Wrote(ckt, p) EXCEPT !.enabled = {"write"}])
      PROVE  /\ ckt' \in Circuits /\ conns' \in [Targets -> {"none", "connecting", "up", "failed"}]
             /\ Reading' /\ Chosen' /\ Pending' /\ Refused' /\ ckt'.socks /\ ckt'.wire = 0
  <2>1. PICK d : d = [Wrote(ckt, p) EXCEPT !.enabled = {"write"}]
    OBVIOUS
  <2>2. d \in Circuits /\ d.socks = ckt.socks /\ d.wire = ckt.wire /\ d.enabled = {"write"}
    <3>1. PICK c, e : c = Wrote(ckt, p) /\ e = {"write"}
      OBVIOUS
    <3>2. c \in Circuits /\ c.socks = ckt.socks /\ c.wire = ckt.wire
      BY <3>1, <1>4
    <3>3. e \in SUBSET {"read", "write"} /\ d = [c EXCEPT !.enabled = e]
      BY <3>1, <2>1
    <3>4. d \in Circuits /\ d.socks = c.socks /\ d.wire = c.wire /\ d.enabled = e
      BY <3>2, <3>3 DEF Circuits
    <3> QED
      BY <3>1, <3>2, <3>4
  <2>3. ckt' = Close(Wrote(ckt, p)) =>
           /\ ckt' \in Circuits /\ ckt'.socks = ckt.socks /\ ckt'.wire = ckt.wire
           /\ ckt'.st = "closed"
    BY <1>4, CloseIs
  <2>4. ckt' = DoFlush(d) =>
           /\ ckt' \in Circuits /\ ckt'.socks = ckt.socks /\ ckt'.wire = ckt.wire
           /\ ckt'.enabled = {"write"}
    BY <2>2, FlushIs
  <2>5. /\ ckt' \in Circuits /\ ckt'.socks /\ ckt'.wire = 0
        /\ ckt'.st = "closed" \/ ckt'.enabled = {"write"}
    BY <2>1, <2>3, <2>4, <1>1, <1>7
  <2>6. Reading'
    BY <2>5 DEF Reading, Listening
  <2>7. Chosen' /\ Pending' /\ Refused'
    BY <1>1, <1>2, <1>7 DEF Chosen, Pending, Refused
  <2> QED
    BY <2>5, <2>6, <2>7, <1>1, <1>7
<1>8. ASSUME used' = Len(Encode(request)), ~sock'.broken,
             sock'.parsereq.addr = Meant(request).addr, sock'.parsereq.port = request.port,
             NEW p, Connect([Wrote(ckt, p) EXCEPT !.enabled = {}], sock')
      PROVE  /\ ckt' \in Circuits /\ conns' \in [Targets -> {"none", "connecting", "up", "failed"}]
             /\ Reading' /\ Chosen' /\ Pending' /\ Refused' /\ ckt'.socks /\ ckt'.wire = 0
  <2>1. PICK d : d = [Wrote(ckt, p) EXCEPT !.enabled = {}]
    OBVIOUS
  <2>2. d \in Circuits /\ d.socks = ckt.socks /\ d.wire = ckt.wire /\ d.enabled = {}
    <3>1. PICK c, e : c = Wrote(ckt, p) /\ e = {}
      OBVIOUS
    <3>2. c \in Circuits /\ c.socks = ckt.socks /\ c.wire = ckt.wire
      BY <3>1, <1>4
    <3>3. e \in SUBSET {"read", "write"} /\ d = [c EXCEPT !.enabled = e]
      BY <3>1, <2>1
    <3>4. d \in Circuits /\ d.socks = c.socks /\ d.wire = c.wire /\ d.enabled = e
      BY <3>2, <3>3 DEF Circuits
    <3> QED
      BY <3>1, <3>2, <3>4
  <2>3. PICK started :
           /\ conns' = [t \in Targets |-> IF t \in started THEN "connecting" ELSE "none"]
           /\ ckt' = IF started = {} THEN Close(d) ELSE d
    BY <2>1, <1>8 DEF Connect
  <2>4. /\ Close(d) \in Circuits /\ Close(d).st = "closed"
        /\ Close(d).socks = d.socks /\ Close(d).wire = d.wire
    BY <2>2, CloseIs
  <2>5. ckt' \in Circuits /\ ckt'.socks /\ ckt'.wire = 0
    BY <2>2, <2>3, <2>4, <1>1
  <2>6. Reading'
    BY <2>2, <2>3, <2>4 DEF Reading, Listening
  <2>7. conns' \in [Targets -> {"none", "connecting", "up", "failed"}]
    BY <2>3
  <2>8. Chosen' /\ Pending' /\ Refused'
    BY <1>1, <1>8 DEF Chosen, Pending, Refused
  <2> QED
    BY <2>5, <2>6, <2>7, <2>8
<1> QED
  BY <1>6, <1>7, <1>8, ReadEffect, Zenon

LEMMA ConnectedPreserves == ASSUME SocksInv, NEW t \in Targets, Connected(t) PROVE SocksInv'
<1>1. /\ request' = request /\ request \in Requests /\ fed' = fed /\ used' = fed
      /\ fed \in Nat /\ fed <= Len(Text) /\ ckt \in Circuits /\ ckt.socks /\ ckt.wire = 0
      /\ conns \in [Targets -> {"none", "connecting", "up", "failed"}]
      /\ conns' = [conns EXCEPT ![t] = "up"]
      /\ used = Len(Encode(request)) /\ Refused
  BY DEF SocksInv, Shape, Pending, Passed, Connected
<1>2. Len(Encode(request)) \in Nat
  BY <1>1, EncodeLen
<1>3. /\ ckt' \in Circuits /\ ~ckt'.socks /\ ckt'.wire = fed - Len(Encode(request))
  <2>1. PICK w : w = ckt.wire + fed - used
    OBVIOUS
  <2>2. w \in Int /\ w = fed - Len(Encode(request))
    BY <2>1, <1>1, <1>2
  <2>3. ckt' = [ckt EXCEPT !.socks = FALSE, !.enabled = {"read", "write"},
                           !.unflushed = TRUE, !.wire = w]
    BY <2>1 DEF Connected
  <2>4. ckt' \in Circuits /\ ~ckt'.socks /\ ckt'.wire = w
    BY <2>2, <2>3, <1>1 DEF Circuits
  <2> QED
    BY <2>2, <2>4
<1>4. \E st, v, br, a : sock' = SockRec(st, v, br, a) /\ br = sock.broken
  <2>1. PICK st, v, br, a : sock = SockRec(st, v, br, a)
    BY DEF SocksInv, Shape
  <2>2. PICK peer, s : /\ s = SetAddress(sock, peer)
                       /\ sock' = SendReply([Parser(fed) EXCEPT !.sock = s], "none").sock
    BY DEF Connected
  <2>3. \E w : s = SockRec(st, v, br, w)
    <3>1. [sock EXCEPT !.parsereq = peer] = SockRec(st, v, br, peer)
      BY <2>1, SockFields
    <3>2. s = sock \/ s = [sock EXCEPT !.parsereq = peer]
      BY <2>2, Zenon DEF SetAddress
    <3> QED
      BY <3>1, <3>2, <2>1, Zenon
  <2>4. PICK w : s = SockRec(st, v, br, w)
    BY <2>3
  <2>5. [Parser(fed) EXCEPT !.sock = s] = ParserRec(Buffer(fed), s, <<>>, "SOCKS_GOOD")
    BY DEF Parser, ParserRec
  <2>6. \E y \in {st, "ST_SENT_REPLY"} : sock' = SockRec(y, v, br, w)
    BY <2>2, <2>4, <2>5, ReplySock
  <2>7. br = sock.broken
    BY <2>1, SockFields
  <2> QED
    BY <2>6, <2>7, Zenon
<1>5. PICK st, v, br, a : sock' = SockRec(st, v, br, a) /\ br = sock.broken
  BY <1>4
<1>6. sock'.broken = sock.broken
  BY <1>5, SockFields
<1>7. Shape'
  <2>1. \E st1, v1, br1, a1 : sock' = SockRec(st1, v1, br1, a1)
    BY <1>5, Zenon
  <2>2. conns' \in [Targets -> {"none", "connecting", "up", "failed"}]
    BY <1>1
  <2> QED
    BY <2>1, <2>2, <1>1, <1>3 DEF Shape, Text
<1>8. Reading' /\ Chosen' /\ Pending' /\ Passed'
  BY <1>1, <1>3 DEF Reading, Listening, Chosen, Pending, Passed
<1>9. Refused'
  BY <1>1, <1>6 DEF Refused
<1> QED
  BY <1>7, <1>8, <1>9 DEF SocksInv

LEMMA FailurePreserves == ASSUME SocksInv, NEW t \in Targets, ConnectFails(t) PROVE SocksInv'
<1>1. /\ request' = request /\ request \in Requests /\ fed' = fed /\ used' = used
      /\ fed \in Nat /\ fed <= Len(Text) /\ ckt \in Circuits /\ ckt.socks /\ ckt.wire = 0
      /\ ckt.st = "open"
      /\ conns \in [Targets -> {"none", "connecting", "up", "failed"}]
      /\ conns' = [conns EXCEPT ![t] = "failed"] /\ conns[t] = "connecting"
  BY DEF SocksInv, Shape, Passed, ConnectFails
<1>2. "read" \notin ckt.enabled
  BY <1>1 DEF SocksInv, Reading, Listening
<1>3. PICK st, v, br, a : sock = SockRec(st, v, br, a)
  BY DEF SocksInv, Shape
<1>4. \/ /\ ckt' = Close(ckt) /\ sock' = sock
      \/ \E p, error : /\ sock' = SendReply(Parser(fed), error).sock
                       /\ ckt' = DoFlush([Wrote(ckt, p) EXCEPT !.enabled = @ \cup {"write"}])
  BY Zenon DEF ConnectFails
<1>5. /\ \/ sock' = sock \/ sock' = SockRec("ST_SENT_REPLY", v, br, a)
      /\ ckt' \in Circuits /\ ckt'.socks /\ ckt'.wire = 0
      /\ ckt'.st = "closed" \/ "read" \notin ckt'.enabled
  <2>1. CASE ckt' = Close(ckt) /\ sock' = sock
    BY <2>1, <1>1, CloseIs
  <2>2. ASSUME NEW p, NEW error, sock' = SendReply(Parser(fed), error).sock,
               ckt' = DoFlush([Wrote(ckt, p) EXCEPT !.enabled = @ \cup {"write"}])
        PROVE  /\ \/ sock' = sock \/ sock' = SockRec("ST_SENT_REPLY", v, br, a)
               /\ ckt' \in Circuits /\ ckt'.socks /\ ckt'.wire = 0
               /\ ckt'.st = "closed" \/ "read" \notin ckt'.enabled
    <3>1. Parser(fed) = ParserRec(Buffer(fed), SockRec(st, v, br, a), <<>>, "SOCKS_GOOD")
      BY <1>3, Zenon DEF Parser, ParserRec
    <3>2. \E y \in {st, "ST_SENT_REPLY"} : sock' = SockRec(y, v, br, a)
      BY <3>1, <2>2, ReplySock
    <3>3. \/ sock' = sock \/ sock' = SockRec("ST_SENT_REPLY", v, br, a)
      BY <3>2, <1>3, Zenon
    <3>4. PICK c, e, d : /\ c = Wrote(ckt, p) /\ e = c.enabled \cup {"write"}
                         /\ d = [c EXCEPT !.enabled = e]
      OBVIOUS
    <3>5. c \in Circuits /\ c.socks = ckt.socks /\ c.wire = ckt.wire /\ c.enabled = ckt.enabled
      BY <3>4, <1>1, WroteIs
    <3>6. e \in SUBSET {"read", "write"} /\ "read" \notin e
      BY <3>4, <3>5, <1>1, <1>2 DEF Circuits
    <3>7. d \in Circuits /\ d.socks = ckt.socks /\ d.wire = ckt.wire /\ d.enabled = e
      BY <3>4, <3>5, <3>6 DEF Circuits
    <3>8. [c EXCEPT !.enabled = @ \cup {"write"}] = d
      BY <3>4, <3>5 DEF Circuits
    <3>9. ckt' = DoFlush(d)
      BY <3>4, <3>8, <2>2, Zenon
    <3>10. /\ ckt' \in Circuits /\ ckt'.socks = ckt.socks /\ ckt'.wire = ckt.wire
           /\ ckt'.enabled = e
      BY <3>7, <3>9, FlushIs
    <3> QED
      BY <3>3, <3>6, <3>10, <1>1
  <2> QED
    BY <2>1, <2>2, <1>4, Zenon
<1>6. Shape'
  <2>1. \E st1, v1, br1, a1 : sock' = SockRec(st1, v1, br1, a1)
    BY <1>3, <1>5, Zenon
  <2>2. conns' \in [Targets -> {"none", "connecting", "up", "failed"}]
    BY <1>1
  <2> QED
    BY <2>1, <2>2, <1>1, <1>5 DEF Shape, Text
<1>7. /\ sock'.broken = sock.broken
      /\ sock'.state = "ST_HAVE_ADDR" => sock' = sock
  BY <1>3, <1>5, SockFields
<1>8. Chosen' /\ Refused'
  BY <1>1, <1>5, <1>7 DEF SocksInv, Chosen, Refused
<1>9. Reading' /\ Passed'
  BY <1>1, <1>5 DEF Reading, Listening, Passed
<1>10. Pending'
  BY <1>1 DEF SocksInv, Pending
<1> QED
  BY <1>6, <1>8, <1>9, <1>10 DEF SocksInv

\* The steps that leave the parser alone.
LEMMA OtherPreserves ==
    ASSUME SocksInv,
           \/ \E n \in 1 .. Len(Text) : UpstreamRead(n)
           \/ ClientGone \/ Flush
           \/ \E t \in Targets : LaterEvent(t) \/ StaleEvent(t)
           \/ UNCHANGED vars
    PROVE  SocksInv'
<1>1. Shape /\ Reading /\ Chosen /\ Pending /\ Refused /\ Passed
  BY DEF SocksInv
<1>2. request \in Requests /\ fed \in Nat /\ ckt \in Circuits
  BY <1>1 DEF Shape
<1>3. Len(Encode(request)) \in Nat
  BY <1>2, EncodeLen
<1>4. ASSUME NEW n \in 1 .. Len(Text), UpstreamRead(n) PROVE SocksInv'
  <2>1. PICK w : w = ckt.wire + n - fed
    OBVIOUS
  <2>2. /\ request' = request /\ sock' = sock /\ conns' = conns /\ fed' = n /\ n \in Nat
        /\ n <= Len(Text) /\ ckt' = [ckt EXCEPT !.wire = w] /\ ~ckt.socks
    BY <2>1, <1>2, <1>4 DEF UpstreamRead
  <2>3. w \in Int /\ w = n - Len(Encode(request))
    BY <2>1, <2>2, <1>1, <1>2, <1>3 DEF Passed
  <2>4. ckt' \in Circuits /\ ~ckt'.socks /\ ckt'.wire = w
    BY <2>2, <2>3, <1>2 DEF Circuits
  <2>5. Shape'
    BY <2>2, <2>4, <1>1 DEF Shape, Text
  <2>6. Refused'
    BY <2>2, <1>1 DEF Refused
  <2> QED
    BY <2>2, <2>3, <2>4, <2>5, <2>6 DEF SocksInv, Reading, Listening, Chosen, Pending, Passed
<1>5. ASSUME UNCHANGED <<request, fed, used, sock, conns>>, ckt' \in Circuits,
             ckt'.socks = ckt.socks, ckt'.wire = ckt.wire, Listening' => Listening
      PROVE  SocksInv'
  <2>1. Shape'
    BY <1>1, <1>5 DEF Shape, Text
  <2>2. Reading'
    BY <1>1, <1>5 DEF Reading
  <2>3. Chosen' /\ Pending' /\ Refused' /\ Passed'
    BY <1>1, <1>5 DEF Chosen, Pending, Refused, Passed
  <2> QED
    BY <2>1, <2>2, <2>3 DEF SocksInv
<1>6. CASE ClientGone
  <2>1. UNCHANGED <<request, fed, used, sock, conns>> /\ ckt' = Close(ckt)
    BY <1>6 DEF ClientGone
  <2>2. /\ ckt' \in Circuits /\ ckt'.socks = ckt.socks /\ ckt'.wire = ckt.wire
        /\ ckt'.st = "closed"
    BY <2>1, <1>2, CloseIs
  <2>3. Listening' => Listening
    BY <2>2 DEF Listening
  <2> QED
    BY <2>1, <2>2, <2>3, <1>5
<1>7. CASE Flush
  <2>1. PICK y : y = ckt.pending_write_eof
    OBVIOUS
  <2>2. /\ UNCHANGED <<request, fed, used, sock, conns>>
        /\ ckt' = [ckt EXCEPT !.unflushed = FALSE, !.write_eof = y]
    BY <2>1, <1>7, Zenon DEF Flush
  <2>3. y \in BOOLEAN
    BY <2>1, <1>2 DEF Circuits
  <2>4. /\ ckt' \in Circuits /\ ckt'.socks = ckt.socks /\ ckt'.wire = ckt.wire
        /\ ckt'.st = ckt.st /\ ckt'.enabled = ckt.enabled
    BY <2>2, <2>3, <1>2 DEF Circuits
  <2>5. Listening' => Listening
    BY <2>4 DEF Listening
  <2> QED
    BY <2>2, <2>4, <2>5, <1>5
<1>8. ASSUME NEW t \in Targets, LaterEvent(t) PROVE SocksInv'
  <2>1. /\ UNCHANGED <<request, fed, used, sock, ckt>> /\ ~ckt.socks
        /\ conns' = [conns EXCEPT ![t] = "up"] \/ conns' = [conns EXCEPT ![t] = "failed"]
    BY <1>8 DEF LaterEvent
  <2>2. conns' \in [Targets -> {"none", "connecting", "up", "failed"}]
    BY <2>1, <1>1 DEF Shape
  <2>3. Shape'
    BY <2>1, <2>2, <1>1 DEF Shape, Text
  <2>4. Refused' /\ Passed'
    BY <2>1, <1>1 DEF Refused, Passed
  <2> QED
    BY <2>1, <2>3, <2>4 DEF SocksInv, Reading, Listening, Chosen, Pending
<1>9. ASSUME NEW t \in Targets, StaleEvent(t) PROVE SocksInv'
  <2>1. /\ UNCHANGED <<request, fed, used, sock, conns>>
        /\ ckt' = [ckt EXCEPT !.st = "aborted"]
    BY <1>9 DEF StaleEvent
  <2>2. /\ ckt' \in Circuits /\ ckt'.socks = ckt.socks /\ ckt'.wire = ckt.wire
        /\ ckt'.st = "aborted"
    BY <2>1, <1>2 DEF Circuits
  <2>3. Listening' => Listening
    BY <2>2 DEF Listening
  <2> QED
    BY <2>1, <2>2, <2>3, <1>5
<1>10. CASE UNCHANGED vars
  <2>1. UNCHANGED <<request, fed, used, sock, conns>> /\ ckt' = ckt
    BY <1>10 DEF vars
  <2>2. Listening' => Listening
    BY <2>1 DEF Listening
  <2> QED
    BY <2>1, <2>2, <1>2, <1>5
<1> QED
  BY <1>4, <1>6, <1>7, <1>8, <1>9, <1>10, Zenon

LEMMA SocksInvariance == Spec => []SocksInv
<1>1. SocksInv /\ [Next]_vars => SocksInv'
  <2> SUFFICES ASSUME SocksInv, [Next]_vars PROVE SocksInv'
    OBVIOUS
  <2>1. ASSUME NEW n \in 1 .. Len(Text), SocksRead(n) PROVE SocksInv'
    <3>1. n \in Nat
      OBVIOUS
    <3> QED
      BY <3>1, <2>1, ReadPreserves
  <2>2. ASSUME NEW t \in Targets, Connected(t) PROVE SocksInv'
    BY <2>2, ConnectedPreserves
  <2>3. ASSUME NEW t \in Targets, ConnectFails(t) PROVE SocksInv'
    BY <2>3, FailurePreserves
  <2> QED
    BY <2>1, <2>2, <2>3, OtherPreserves, Zenon DEF Next
<1> QED
  BY <1>1, InitInv, PTL DEF Spec

\* Whatever requests client programs send and however TCP cuts them,
\* handle_socks gives up no acceptable request and finds the address that
\* was asked for, with exactly the request drained.
THEOREM SocksRequestUnderstood == Spec => []RequestUnderstood
<1>1. SocksInv => RequestUnderstood
  <2> SUFFICES ASSUME SocksInv PROVE RequestUnderstood
    OBVIOUS
  <2>1. Acceptable(request) => ~sock.broken
    BY DEF SocksInv, Refused
  <2>2. ASSUME sock.state = "ST_HAVE_ADDR", ckt.socks
        PROVE  /\ used = Len(Encode(request))
               /\ [addr |-> sock.parsereq.addr, port |-> sock.parsereq.port] = Meant(request)
    <3>1. /\ used = Len(Encode(request))
          /\ sock.parsereq.addr = Meant(request).addr /\ sock.parsereq.port = request.port
      BY <2>2 DEF SocksInv, Chosen
    <3>2. Meant(request) = [addr |-> Meant(request).addr, port |-> request.port]
      BY DEF Meant
    <3> QED
      BY <3>1, <3>2
  <2> QED
    BY <2>1, <2>2 DEF RequestUnderstood
<1> QED
  BY <1>1, SocksInvariance, PTL

\* What downstream_socks_connect_cb and upstream_read_cb pass on is all of
\* what was read behind the request, for every cut and every set of targets.
THEOREM SocksNothingLost == Spec => []NothingLost
<1>1. SocksInv => NothingLost
  BY DEF SocksInv, Passed, NothingLost
<1> QED
  BY <1>1, SocksInvariance, PTL
=============================================================================
