---------------------------- MODULE EmbedProofs ----------------------------
(***************************************************************************)
(* The embed steg module passes on what it was given, in order, for every  *)
(* set of traces, whatever chop insists on sending, and every way TCP cuts *)
(* what comes after the first packet, as long as no packet had to be made  *)
(* larger than the trace says.                                             *)
(*                                                                         *)
(* The invariant speaks of the whole stream of bytes that a side has put   *)
(* on the wire, and of the place in it where each packet of the trace      *)
(* begins.  The receiver stands at the beginning of the packet it expects, *)
(* and what it has passed on is the data of the packets before.            *)
(***************************************************************************)
EXTENDS Embed, FiniteSetTheorems, SequenceTheorems, TLAPS

(***************************************************************************)
(* The loop of receive() is a recursive function; a property that a turn   *)
(* keeps holds of its result.  The induction is by a least counterexample. *)
(***************************************************************************)
LEMMA Smallest ==
    ASSUME NEW T \in SUBSET Nat, T # {}
    PROVE  \E m \in T : \A n \in T : m <= n
<1>1. PICK x \in T : TRUE
  OBVIOUS
<1> DEFINE Below(y) == {z \in T : z < y}
           Q == {y \in T : y <= x}
           F == {Below(y) : y \in Q}
<1>2. F \subseteq FiniteSubsetsOf(0 .. x)
  <2>1. IsFiniteSet(0 .. x)
    BY FS_Interval
  <2>2. ASSUME NEW y \in Q PROVE Below(y) \in FiniteSubsetsOf(0 .. x)
    <3>1. Below(y) \subseteq 0 .. x
      <4>1. ASSUME NEW z \in T, z < y PROVE z \in 0 .. x
        <5>1. z \in Nat /\ y \in Nat /\ x \in Nat /\ y <= x
          OBVIOUS
        <5> QED
          BY <5>1, <4>1
      <4> QED
        BY <4>1
    <3> HIDE DEF Below
    <3> QED
      BY <2>1, <3>1, FS_Subset DEF FiniteSubsetsOf
  <2> QED
    BY <2>2
<1>3. F # {}
  <2>1. x \in Q
    <3>1. x \in Nat
      OBVIOUS
    <3> QED
      BY <3>1
  <2> QED
    BY <2>1
<1>4. IsWellFoundedOn(StrictSubsetOrdering(0 .. x), FiniteSubsetsOf(0 .. x))
  BY FS_StrictSubsetOrderingWellFounded
<1> HIDE DEF F
<1>5. PICK m \in F : \A y \in F : <<y, m>> \notin StrictSubsetOrdering(0 .. x)
  BY <1>2, <1>3, <1>4, WFMin
<1> USE DEF F
<1>6. PICK y \in Q : m = Below(y)
  OBVIOUS
<1>7. ASSUME NEW n \in T, ~(y <= n) PROVE FALSE
  <2>1. n \in Q /\ n < y
    BY <1>7
  <2>2. Below(n) \subseteq Below(y) /\ n \in Below(y) /\ n \notin Below(n)
    <3>1. ASSUME NEW z \in T, z < n PROVE z < y
      <4>1. z \in Nat /\ y \in Nat /\ n \in Nat
        OBVIOUS
      <4> QED
        BY <4>1, <3>1, <2>1
    <3>2. n \in Nat /\ ~(n < n)
      OBVIOUS
    <3> QED
      BY <2>1, <3>1, <3>2
  <2>3. Below(n) # Below(y)
    BY <2>2
  <2>4. Below(n) \in F /\ Below(n) \subseteq 0 .. x /\ Below(y) \subseteq 0 .. x
    <3>1. Below(n) \in F /\ Below(y) \in F
      BY <2>1
    <3> HIDE DEF F, Below
    <3> QED
      BY <3>1, <1>2 DEF FiniteSubsetsOf
  <2>5. <<Below(n), m>> \in StrictSubsetOrdering(0 .. x)
    <3> HIDE DEF Below
    <3> QED
      BY <2>2, <2>3, <2>4, <1>6 DEF StrictSubsetOrdering
  <2> QED
    BY <2>4, <2>5, <1>5
<1> QED
  BY <1>7

\* The states of a loop that has had n turns.
Unrolled(g, p, n) ==
    /\ g[0] = p
    /\ \A k \in 1 .. n : g[k] = Turn(g[k - 1])

LEMMA UnrolledExists ==
    ASSUME NEW p, NEW n \in Nat
    PROVE  \E g : Unrolled(g, p, n)
<1> DEFINE Bad == {m \in Nat : ~\E g : Unrolled(g, p, m)}
<1>1. SUFFICES ASSUME Bad # {} PROVE FALSE
  OBVIOUS
<1>2. Bad \in SUBSET Nat
  OBVIOUS
<1>3. PICK m \in Bad : \A k \in Bad : m <= k
  <2> HIDE DEF Bad
  <2> QED
    BY <1>1, <1>2, Smallest
<1>4. m \in Nat /\ ~\E g : Unrolled(g, p, m)
  OBVIOUS
<1>5. m # 0
  <2>1. SUFFICES ASSUME m = 0 PROVE FALSE
    OBVIOUS
  <2>2. PICK g : g = [k \in Nat |-> p]
    OBVIOUS
  <2>3. Unrolled(g, p, m)
    BY <2>1, <2>2 DEF Unrolled
  <2> QED
    BY <2>3, <1>4
<1>6. m - 1 \in Nat /\ m - 1 \notin Bad
  BY <1>3, <1>4, <1>5
<1>7. PICK g : Unrolled(g, p, m - 1)
  BY <1>6
<1>8. PICK y : y = Turn(g[m - 1])
  OBVIOUS
<1>9. PICK h : h = [k \in Nat |-> IF k = m THEN y ELSE g[k]]
  OBVIOUS
<1>10. h[0] = p
  BY <1>5, <1>7, <1>9 DEF Unrolled
<1>11. ASSUME NEW k \in 1 .. m PROVE h[k] = Turn(h[k - 1])
  <2>1. k \in Nat /\ k - 1 \in Nat /\ k - 1 # m
    BY <1>4
  <2>2. h[k - 1] = g[k - 1]
    BY <2>1, <1>9
  <2>3. CASE k = m
    BY <2>1, <2>2, <2>3, <1>8, <1>9
  <2>4. CASE k # m
    <3>1. k \in 1 .. m - 1
      BY <2>4, <1>4
    <3>2. g[k] = Turn(g[k - 1])
      BY <3>1, <1>7 DEF Unrolled
    <3> QED
      BY <3>2, <2>1, <2>2, <2>4, <1>9
  <2> QED
    BY <2>3, <2>4
<1>12. Unrolled(h, p, m)
  BY <1>10, <1>11 DEF Unrolled
<1> QED
  BY <1>4, <1>12

LEMMA UnrolledSame ==
    ASSUME NEW p, NEW g, NEW h, NEW m \in Nat, NEW n \in Nat,
           Unrolled(g, p, m), Unrolled(h, p, n), m <= n
    PROVE  g[m] = h[m]
<1> DEFINE Bad == {k \in Nat : k <= m /\ g[k] # h[k]}
<1>1. SUFFICES ASSUME Bad # {} PROVE FALSE
  OBVIOUS
<1>2. Bad \in SUBSET Nat
  OBVIOUS
<1>3. PICK k \in Bad : \A j \in Bad : k <= j
  <2> HIDE DEF Bad
  <2> QED
    BY <1>1, <1>2, Smallest
<1>4. k \in Nat /\ k <= m /\ g[k] # h[k]
  OBVIOUS
<1>5. k # 0
  BY <1>4 DEF Unrolled
<1>6. k \in 1 .. m /\ k \in 1 .. n /\ k - 1 \in Nat /\ k - 1 <= m /\ k - 1 \notin Bad
  BY <1>3, <1>4, <1>5
<1>7. g[k - 1] = h[k - 1]
  BY <1>6
<1>8. g[k] = Turn(g[k - 1]) /\ h[k] = Turn(h[k - 1])
  BY <1>6 DEF Unrolled
<1> QED
  BY <1>4, <1>7, <1>8

LEMMA LoopUnrolls ==
    ASSUME NEW p, Len(Trace(p.e)) \in Nat
    PROVE  \E g : Unrolled(g, p, Len(Trace(p.e))) /\ ReceiveLoop(p) = g[Len(Trace(p.e))]
<1> DEFINE Only(y) == CHOOSE q \in {Turn(r) : r \in {y}} : TRUE
           Loop(f) == f = [k \in Nat |-> IF k = 0 THEN p ELSE Only(f[k - 1])]
           G(n) == CHOOSE g : Unrolled(g, p, n)
<1>1. \A n \in Nat : Unrolled(G(n), p, n)
  BY UnrolledExists
<1>10. ASSUME NEW y PROVE Only(y) = Turn(y)
  <2>1. {Turn(r) : r \in {y}} = {Turn(y)}
    OBVIOUS
  <2> QED
    BY <2>1
<1> HIDE DEF G, Only
<1>2. PICK f : f = [n \in Nat |-> G(n)[n]]
  OBVIOUS
<1>3. f[0] = p
  BY <1>1, <1>2 DEF Unrolled
<1>4. ASSUME NEW n \in Nat, n # 0 PROVE f[n] = Turn(f[n - 1])
  <2>1. n - 1 \in Nat /\ n - 1 <= n /\ n \in 1 .. n
    BY <1>4
  <2>2. Unrolled(G(n), p, n) /\ Unrolled(G(n - 1), p, n - 1)
    BY <1>1, <2>1
  <2>3. G(n - 1)[n - 1] = G(n)[n - 1]
    BY <2>1, <2>2, UnrolledSame
  <2>4. G(n)[n] = Turn(G(n)[n - 1])
    BY <2>1, <2>2 DEF Unrolled
  <2> QED
    BY <2>1, <2>3, <2>4, <1>2
<1>5. Loop(f)
  <2>1. DOMAIN f = Nat /\ f = [n \in Nat |-> f[n]]
    BY <1>2
  <2>2. \A n \in Nat : f[n] = IF n = 0 THEN p ELSE Only(f[n - 1])
    BY <1>3, <1>4, <1>10
  <2> QED
    BY <2>1, <2>2
<1>6. PICK h : h = CHOOSE g : Loop(g)
  OBVIOUS
<1>7. Loop(h)
  BY <1>5, <1>6
<1>8. ReceiveLoop(p) = h[Len(Trace(p.e))]
  BY <1>6 DEF ReceiveLoop, Only
<1>9. Unrolled(h, p, Len(Trace(p.e)))
  <2>1. ASSUME NEW k \in Nat PROVE h[k] = IF k = 0 THEN p ELSE Turn(h[k - 1])
    <3>1. h[k] = IF k = 0 THEN p ELSE Only(h[k - 1])
      BY <1>7
    <3> QED
      BY <3>1, <1>10
  <2>2. \A k \in 1 .. Len(Trace(p.e)) : k \in Nat /\ k # 0
    OBVIOUS
  <2> HIDE DEF Loop
  <2> QED
    BY <2>1, <2>2 DEF Unrolled
<1> QED
  BY <1>8, <1>9

-----------------------------------------------------------------------------
(* Sequences of bytes.                                                     *)

Sym == {"idx", "len", "data", "pad"} \X Int

\* What is under way is the part of the stream st, of N bytes, after the
\* first o: B has arrived and W has not.
Flight(B, W, st, N, o) ==
    /\ Len(B) + Len(W) + o = N
    /\ \A i \in 1 .. Len(B) : B[i] = st[o + i]
    /\ \A i \in 1 .. Len(W) : W[i] = st[o + Len(B) + i]

LEMMA RestFacts ==
    ASSUME NEW s \in Seq(Sym), NEW d \in 0 .. Len(s)
    PROVE  /\ Rest(s, d) \in Seq(Sym)
           /\ Len(Rest(s, d)) = Len(s) - d
           /\ \A i \in 1 .. Len(s) - d : Rest(s, d)[i] = s[d + i]
<1>1. Len(s) \in Nat /\ d \in Nat
  OBVIOUS
<1> QED
  BY <1>1 DEF Rest

LEMMA HeadFacts ==
    ASSUME NEW s \in Seq(Sym), NEW d \in 0 .. Len(s)
    PROVE  /\ SubSeq(s, 1, d) \in Seq(Sym)
           /\ Len(SubSeq(s, 1, d)) = d
           /\ \A i \in 1 .. d : SubSeq(s, 1, d)[i] = s[i]
<1>1. Len(s) \in Nat /\ d \in Nat
  OBVIOUS
<1> QED
  BY <1>1

LEMMA CatFacts ==
    ASSUME NEW s \in Seq(Sym), NEW t \in Seq(Sym)
    PROVE  /\ s \o t \in Seq(Sym)
           /\ Len(s \o t) = Len(s) + Len(t)
           /\ \A i \in 1 .. Len(s) : (s \o t)[i] = s[i]
           /\ \A i \in 1 .. Len(t) : (s \o t)[Len(s) + i] = t[i]
           /\ \A i \in 1 .. Len(s) + Len(t) :
                 (s \o t)[i] = IF i <= Len(s) THEN s[i] ELSE t[i - Len(s)]
OBVIOUS

IsCat(x, s, t) == x = s \o t

Parts(x, s, t) ==
    /\ Len(x) = Len(s) + Len(t)
    /\ \A i \in 1 .. Len(s) : x[i] = s[i]
    /\ \A i \in 1 .. Len(t) : x[Len(s) + i] = t[i]

LEMMA CatParts ==
    ASSUME NEW s \in Seq(Sym), NEW t \in Seq(Sym), NEW x, IsCat(x, s, t)
    PROVE  Parts(x, s, t)
BY CatFacts DEF IsCat, Parts

LEMMA SameSeq ==
    ASSUME NEW s \in Seq(Sym), NEW t \in Seq(Sym), Len(s) = Len(t),
           \A i \in 1 .. Len(s) : s[i] = t[i]
    PROVE  s = t
OBVIOUS

LEMMA DataFacts ==
    ASSUME NEW f \in Nat, NEW n \in Nat
    PROVE  /\ Data(f, n) \in Seq(Sym)
           /\ Len(Data(f, n)) = n
           /\ \A i \in 1 .. n : Data(f, n)[i] = <<"data", f + i>>
<1>1. ASSUME NEW i \in 1 .. n PROVE <<"data", f + i>> \in Sym
  BY DEF Sym
<1> HIDE DEF Sym
<1> QED
  BY <1>1 DEF Data

LEMMA DataZero ==
    ASSUME NEW n \in Nat
    PROVE  /\ Data(0, n) \in Seq(Sym)
           /\ Len(Data(0, n)) = n
           /\ \A i \in 1 .. n : Data(0, n)[i] = <<"data", i>>
<1>1. \A i \in 1 .. n : 0 + i = i
  OBVIOUS
<1>2. \A i \in 1 .. n : <<"data", i>> \in Sym
  BY DEF Sym
<1> HIDE DEF Sym
<1>3. Data(0, n) = [i \in 1 .. n |-> <<"data", i>>]
  BY <1>1 DEF Data
<1> QED
  BY <1>2, <1>3

LEMMA BytesFacts ==
    ASSUME NEW k \in {"idx", "len", "pad"}, NEW v \in Int, NEW n \in Nat
    PROVE  /\ Bytes(k, v, n) \in Seq(Sym)
           /\ Len(Bytes(k, v, n)) = n
           /\ \A i \in 1 .. n : Bytes(k, v, n)[i] = <<k, v>>
<1>1. <<k, v>> \in Sym
  BY DEF Sym
<1> HIDE DEF Sym
<1> QED
  BY <1>1 DEF Bytes

\* The data of a packet follows the data of the packets before it.
LEMMA DataCat ==
    ASSUME NEW m \in Nat, NEW n \in Nat, NEW d \in Seq(Sym), Len(d) = n,
           \A i \in 1 .. n : d[i] = <<"data", m + i>>
    PROVE  Data(0, m) \o d = Data(0, m + n)
<1>1. PICK x \in Seq(Sym) : x = Data(0, m)
  BY DataZero
<1>2. Len(x) = m /\ \A i \in 1 .. m : x[i] = <<"data", i>>
  BY <1>1, DataZero
<1>9. m + n \in Nat
  OBVIOUS
<1>3. PICK y \in Seq(Sym) : y = Data(0, m + n)
  BY <1>9, DataZero
<1>4. Len(y) = m + n /\ \A i \in 1 .. m + n : y[i] = <<"data", i>>
  BY <1>3, <1>9, DataZero
<1>5. PICK z \in Seq(Sym) : z = x \o d
  BY CatFacts
<1>6. Len(z) = m + n
  BY <1>2, <1>5, CatFacts
<1>7. ASSUME NEW i \in 1 .. m + n PROVE z[i] = y[i]
  <2>1. y[i] = <<"data", i>>
    BY <1>4
  <2>2. z[i] = IF i <= m THEN x[i] ELSE d[i - m]
    BY <1>2, <1>5, CatFacts
  <2>3. CASE i <= m
    BY <2>1, <2>2, <2>3, <1>2
  <2>4. CASE ~(i <= m)
    <3>1. i - m \in 1 .. n /\ m + (i - m) = i
      BY <2>4
    <3>2. d[i - m] = <<"data", m + (i - m)>>
      BY <3>1
    <3> QED
      BY <2>1, <2>2, <2>4, <3>1, <3>2
  <2> QED
    BY <2>3, <2>4
<1>8. z = y
  BY <1>4, <1>6, <1>7, SameSeq
<1> QED
  BY <1>1, <1>3, <1>5, <1>8

LEMMA SumDrops ==
    ASSUME NEW b \in Nat, NEW w \in Nat, NEW o \in Nat, NEW N \in Nat, b + w + o = N,
           NEW n \in Nat, NEW r \in Nat, r = b - n
    PROVE  r + w + (o + n) = N
OBVIOUS

LEMMA SumGrows ==
    ASSUME NEW b \in Nat, NEW w \in Nat, NEW o \in Nat, NEW N \in Nat, b + w + o = N,
           NEW p \in Nat, NEW v \in Nat, NEW M \in Nat, v = w + p, M = N + p
    PROVE  b + v + o = M
OBVIOUS

LEMMA FlightMoves ==
    ASSUME NEW B \in Seq(Sym), NEW W \in Seq(Sym), NEW st, NEW N \in Nat, NEW o \in Nat,
           Flight(B, W, st, N, o), NEW n \in 0 .. Len(W)
    PROVE  /\ B \o SubSeq(W, 1, n) \in Seq(Sym)
           /\ Len(B \o SubSeq(W, 1, n)) = Len(B) + n
           /\ Rest(W, n) \in Seq(Sym)
           /\ Flight(B \o SubSeq(W, 1, n), Rest(W, n), st, N, o)
<1>1. PICK H \in Seq(Sym) : H = SubSeq(W, 1, n)
  BY HeadFacts
<1>2. Len(H) = n /\ \A i \in 1 .. n : H[i] = W[i]
  BY <1>1, HeadFacts
<1>3. PICK R \in Seq(Sym) : R = Rest(W, n)
  BY RestFacts
<1>4. Len(R) = Len(W) - n /\ \A i \in 1 .. Len(W) - n : R[i] = W[n + i]
  BY <1>3, RestFacts
<1>5. PICK C \in Seq(Sym) : C = B \o H
  BY CatFacts
<1>6. Len(C) = Len(B) + n
      /\ \A i \in 1 .. Len(B) + n : C[i] = IF i <= Len(B) THEN B[i] ELSE H[i - Len(B)]
  BY <1>2, <1>5, CatFacts
<1>7. Len(B) \in Nat /\ Len(W) \in Nat /\ n \in Nat
  OBVIOUS
<1>8. Len(B) + Len(W) + o = N
      /\ (\A i \in 1 .. Len(B) : B[i] = st[o + i])
      /\ (\A i \in 1 .. Len(W) : W[i] = st[o + Len(B) + i])
  BY DEF Flight
<1>9. Len(C) + Len(R) + o = N
  <2>1. Len(B) + Len(W) + o = N /\ Len(C) = Len(B) + n /\ Len(R) = Len(W) - n
    BY <1>4, <1>6, <1>8
  <2>2. Len(C) \in Nat /\ Len(R) \in Nat
    OBVIOUS
  <2>3. PICK c \in Nat, r \in Nat : c = Len(C) /\ r = Len(R)
    BY <2>2
  <2>4. PICK b \in Nat, w \in Nat : b = Len(B) /\ w = Len(W)
    BY <1>7
  <2>5. b + w + o = N /\ c = b + n /\ r = w - n
    BY <2>1, <2>3, <2>4
  <2>6. c + r + o = N
    BY <2>5, <1>7
  <2> QED
    BY <2>6, <2>3
<1>10. ASSUME NEW i \in 1 .. Len(C) PROVE C[i] = st[o + i]
  <2>1. i \in 1 .. Len(B) + n
    BY <1>6
  <2>2. CASE i <= Len(B)
    <3>1. i \in 1 .. Len(B)
      BY <2>1, <2>2, <1>7
    <3>2. C[i] = B[i]
      BY <2>1, <2>2, <1>6
    <3> QED
      BY <3>1, <3>2, <1>8
  <2>3. CASE ~(i <= Len(B))
    <3>1. i - Len(B) \in 1 .. n /\ i - Len(B) \in 1 .. Len(W)
          /\ o + Len(B) + (i - Len(B)) = o + i
      BY <2>1, <2>3, <1>7
    <3>2. C[i] = H[i - Len(B)] /\ H[i - Len(B)] = W[i - Len(B)]
      BY <2>1, <2>3, <3>1, <1>6, <1>2
    <3>3. W[i - Len(B)] = st[o + Len(B) + (i - Len(B))]
      BY <3>1, <1>8
    <3> QED
      BY <3>1, <3>2, <3>3
  <2> QED
    BY <2>2, <2>3
<1>11. ASSUME NEW i \in 1 .. Len(R) PROVE R[i] = st[o + Len(C) + i]
  <2>1. i \in 1 .. Len(W) - n /\ n + i \in 1 .. Len(W)
        /\ o + Len(B) + (n + i) = o + Len(C) + i
    BY <1>4, <1>6, <1>7
  <2>2. R[i] = W[n + i]
    BY <2>1, <1>4
  <2>3. W[n + i] = st[o + Len(B) + (n + i)]
    BY <2>1, <1>8
  <2> QED
    BY <2>1, <2>2, <2>3
<1>12. Flight(C, R, st, N, o)
  BY <1>9, <1>10, <1>11 DEF Flight
<1> QED
  BY <1>1, <1>3, <1>5, <1>6, <1>12

LEMMA FlightDrops ==
    ASSUME NEW B \in Seq(Sym), NEW W \in Seq(Sym), NEW st, NEW N \in Nat, NEW o \in Nat,
           Flight(B, W, st, N, o), NEW d \in 0 .. Len(B)
    PROVE  Flight(Rest(B, d), W, st, N, o + d)
<1>1. PICK R \in Seq(Sym) : R = Rest(B, d)
  BY RestFacts
<1>2. Len(R) = Len(B) - d /\ \A i \in 1 .. Len(B) - d : R[i] = B[d + i]
  BY <1>1, RestFacts
<1>3. Len(B) \in Nat /\ Len(W) \in Nat /\ d \in Nat
  OBVIOUS
<1>4. Len(B) + Len(W) + o = N
      /\ (\A i \in 1 .. Len(B) : B[i] = st[o + i])
      /\ (\A i \in 1 .. Len(W) : W[i] = st[o + Len(B) + i])
  BY DEF Flight
<1>5. Len(R) + Len(W) + (o + d) = N
  <2>1. Len(B) + Len(W) + o = N /\ Len(R) = Len(B) - d
    BY <1>2, <1>4
  <2>2. Len(R) \in Nat
    OBVIOUS
  <2> QED
    BY <2>1, <2>2, <1>3, SumDrops
<1>6. ASSUME NEW i \in 1 .. Len(R) PROVE R[i] = st[o + d + i]
  <2>1. i \in 1 .. Len(B) - d /\ d + i \in 1 .. Len(B) /\ o + (d + i) = o + d + i
    BY <1>2, <1>3
  <2>2. R[i] = B[d + i] /\ B[d + i] = st[o + (d + i)]
    BY <2>1, <1>2, <1>4
  <2> QED
    BY <2>1, <2>2
<1>7. ASSUME NEW i \in 1 .. Len(W) PROVE W[i] = st[o + d + Len(R) + i]
  <2>1. o + d + Len(R) + i = o + Len(B) + i
    BY <1>2, <1>3
  <2> QED
    BY <2>1, <1>4
<1>8. Flight(R, W, st, N, o + d)
  BY <1>5, <1>6, <1>7 DEF Flight
<1> QED
  BY <1>1, <1>8

LEMMA FlightGrows ==
    ASSUME NEW B \in Seq(Sym), NEW W \in Seq(Sym), NEW P \in Seq(Sym), NEW st,
           NEW N \in Nat, NEW o \in Nat, Flight(B, W, st, N, o),
           NEW q, \A j \in 1 .. N : q[j] = st[j],
           \A i \in 1 .. Len(P) : q[N + i] = P[i],
           NEW M \in Nat, M = N + Len(P)
    PROVE  Flight(B, W \o P, q, M, o)
<1>1. PICK V \in Seq(Sym) : V = W \o P
  BY CatFacts
<1>2. Len(V) = Len(W) + Len(P)
      /\ \A i \in 1 .. Len(W) + Len(P) : V[i] = IF i <= Len(W) THEN W[i] ELSE P[i - Len(W)]
  BY <1>1, CatFacts
<1>3. PICK b \in Nat, w \in Nat, p \in Nat, v \in Nat :
         b = Len(B) /\ w = Len(W) /\ p = Len(P) /\ v = Len(V)
  OBVIOUS
<1>4. b + w + o = N /\ v = w + p /\ M = N + p
  BY <1>2, <1>3 DEF Flight
<1>11. b \in Nat /\ w \in Nat /\ p \in Nat /\ v \in Nat /\ o \in Nat /\ N \in Nat /\ M \in Nat
  OBVIOUS
<1>5. b + v + o = M
  BY ONLY <1>4, <1>11
<1>6. \A i \in 1 .. b : B[i] = st[o + i]
  BY <1>3 DEF Flight
<1>7. \A i \in 1 .. w : W[i] = st[o + b + i]
  BY <1>3 DEF Flight
<1>8. ASSUME NEW i \in 1 .. b PROVE B[i] = q[o + i]
  <2>1. o + i \in 1 .. N
    BY <1>4
  <2> QED
    BY <2>1, <1>6
<1>9. ASSUME NEW i \in 1 .. v PROVE V[i] = q[o + b + i]
  <2>1. i \in 1 .. w + p
    BY <1>4
  <2>2. V[i] = IF i <= w THEN W[i] ELSE P[i - w]
    BY <2>1, <1>2, <1>3
  <2>3. CASE i <= w
    <3>1. i \in 1 .. w /\ o + b + i \in 1 .. N
      BY <2>1, <2>3, <1>4
    <3>2. W[i] = st[o + b + i] /\ q[o + b + i] = st[o + b + i]
      BY <3>1, <1>7
    <3> QED
      BY <3>2, <2>2, <2>3
  <2>4. CASE ~(i <= w)
    <3>1. i - w \in 1 .. p /\ N + (i - w) = o + b + i
      BY <2>1, <2>4, <1>4
    <3>2. q[N + (i - w)] = P[i - w]
      BY <3>1, <1>3
    <3> QED
      BY <3>1, <3>2, <2>2, <2>4
  <2> QED
    BY <2>3, <2>4
<1>10. Flight(B, V, q, M, o)
  <2>1. Len(B) + Len(V) + o = M
    BY <1>3, <1>5
  <2>2. \A i \in 1 .. Len(B) : B[i] = q[o + i]
    BY <1>3, <1>8
  <2>3. \A i \in 1 .. Len(V) : V[i] = q[o + Len(B) + i]
    BY <1>3, <1>9
  <2> QED
    BY <2>1, <2>2, <2>3 DEF Flight
<1> QED
  BY <1>1, <1>10

-----------------------------------------------------------------------------
(* Packets.                                                                *)

Skip(c) == IF c = 1 THEN IdxLen ELSE 0

\* The packet of a block that fits has the recorded size.
PacketIs(s, e, n, size) ==
    /\ Packet(s, e, n) \in Seq(Sym)
    /\ Len(Packet(s, e, n)) = size
    /\ Skip(e.cur_pkt) + LenLen + n <= size
    /\ e.cur_pkt = 1 => Packet(s, e, n)[1] = <<"idx", e.cur_idx>>
    /\ Packet(s, e, n)[Skip(e.cur_pkt) + 1] = <<"len", n>>
    /\ \A i \in 1 .. n :
          Packet(s, e, n)[Skip(e.cur_pkt) + LenLen + i] = <<"data", sent[s] + i>>

LEMMA PacketFacts ==
    ASSUME NEW s, sent[s] \in Nat, NEW e, e.cur_idx \in Int, NEW size \in Nat,
           size = get_pkt_size(e), NEW n \in Nat, ~(Len(Packet(s, e, n)) > size)
    PROVE  PacketIs(s, e, n, size)
<1> DEFINE a0 == IF e.cur_pkt = 1 THEN Bytes("idx", e.cur_idx, IdxLen) ELSE <<>>
           l0 == Bytes("len", n, LenLen)
           d0 == Data(sent[s], n)
           used == Len(a0 \o l0) + n
           z0 == Bytes("pad", 0, IF size > used THEN size - used ELSE 0)
<1>1. Packet(s, e, n) = ((a0 \o l0) \o d0) \o z0
  BY DEF Packet
<1>2. PICK ll \in Nat : ll = LenLen /\ ll > 0
  BY EmbedAssumption
<1>3. PICK k \in Nat : k = Skip(e.cur_pkt)
  BY EmbedAssumption DEF Skip
<1>4. a0 \in Seq(Sym) /\ Len(a0) = k
      /\ (e.cur_pkt = 1 => k > 0 /\ a0[1] = <<"idx", e.cur_idx>>)
  <2>1. CASE e.cur_pkt = 1
    <3>1. IdxLen \in Nat /\ IdxLen > 0 /\ 1 \in 1 .. IdxLen /\ k = IdxLen
      BY <2>1, <1>3, EmbedAssumption DEF Skip
    <3>2. a0 = Bytes("idx", e.cur_idx, IdxLen)
      BY <2>1
    <3>3. "idx" \in {"idx", "len", "pad"}
      OBVIOUS
    <3>4. /\ Bytes("idx", e.cur_idx, IdxLen) \in Seq(Sym)
          /\ Len(Bytes("idx", e.cur_idx, IdxLen)) = IdxLen
          /\ \A i \in 1 .. IdxLen : Bytes("idx", e.cur_idx, IdxLen)[i] = <<"idx", e.cur_idx>>
      BY <3>1, <3>3, BytesFacts
    <3> HIDE DEF a0
    <3> QED
      BY <3>1, <3>2, <3>4
  <2>2. CASE e.cur_pkt # 1
    <3>1. a0 = <<>> /\ k = 0
      BY <2>2, <1>3 DEF Skip
    <3> QED
      BY <2>2, <3>1
  <2> QED
    BY <2>1, <2>2
<1>5. l0 \in Seq(Sym) /\ Len(l0) = ll /\ l0[1] = <<"len", n>>
  <2>1. 1 \in 1 .. LenLen
    BY <1>2
  <2>2. "len" \in {"idx", "len", "pad"} /\ n \in Int /\ LenLen \in Nat
    BY <1>2
  <2>3. /\ l0 \in Seq(Sym)
        /\ Len(l0) = LenLen
        /\ \A i \in 1 .. LenLen : l0[i] = <<"len", n>>
    BY <2>2, BytesFacts
  <2> HIDE DEF l0
  <2> QED
    BY <1>2, <2>1, <2>3
<1>6. d0 \in Seq(Sym) /\ Len(d0) = n /\ \A i \in 1 .. n : d0[i] = <<"data", sent[s] + i>>
  BY DataFacts
<1> HIDE DEF a0, l0, d0
<1>7. PICK h \in Seq(Sym) : IsCat(h, a0, l0)
  BY <1>4, <1>5, CatFacts DEF IsCat
<1>8. Len(h) = k + ll
      /\ (\A i \in 1 .. k : h[i] = a0[i]) /\ (\A i \in 1 .. ll : h[k + i] = l0[i])
  <2>1. a0 \in Seq(Sym) /\ l0 \in Seq(Sym) /\ Len(a0) = k /\ Len(l0) = ll
    BY <1>4, <1>5
  <2>2. Parts(h, a0, l0)
    BY <2>1, <1>7, CatParts
  <2> QED
    BY ONLY <2>1, <2>2, Zenon DEF Parts
<1>9. PICK g \in Seq(Sym) : IsCat(g, h, d0)
  BY <1>6, CatFacts DEF IsCat
<1>10. Len(g) = (k + ll) + n
       /\ (\A i \in 1 .. k + ll : g[i] = h[i])
       /\ (\A i \in 1 .. n : g[(k + ll) + i] = d0[i])
  <2>1. h \in Seq(Sym) /\ d0 \in Seq(Sym) /\ Len(h) = k + ll /\ Len(d0) = n
    BY <1>6, <1>8
  <2>2. Parts(g, h, d0)
    BY <2>1, <1>9, CatParts
  <2> QED
    BY ONLY <2>1, <2>2, Zenon DEF Parts
<1>11. PICK u \in Nat : u = (k + ll) + n
  OBVIOUS
<1>12. used = u
  BY <1>7, <1>8, <1>11 DEF IsCat
<1>13. PICK y \in Nat : y = IF size > u THEN size - u ELSE 0
  OBVIOUS
<1>14. z0 = Bytes("pad", 0, y)
  BY <1>12, <1>13
<1>15. z0 \in Seq(Sym) /\ Len(z0) = y
  BY <1>14, BytesFacts
<1> HIDE DEF z0
<1>16. PICK x \in Seq(Sym) : IsCat(x, g, z0)
  BY <1>15, CatFacts DEF IsCat
<1>17. Len(x) = u + y /\ (\A i \in 1 .. u : x[i] = g[i])
  <2>1. g \in Seq(Sym) /\ z0 \in Seq(Sym) /\ Len(g) = u /\ Len(z0) = y
    BY <1>10, <1>11, <1>15
  <2>2. Parts(x, g, z0)
    BY <2>1, <1>16, CatParts
  <2> QED
    BY ONLY <2>1, <2>2, Zenon DEF Parts
<1>18. Packet(s, e, n) = x
  BY <1>1, <1>7, <1>9, <1>16 DEF IsCat
<1>19. u + y <= size
  <2>1. ~(u + y > size)
    BY ONLY <1>17, <1>18, ~(Len(Packet(s, e, n)) > size)
  <2> QED
    BY <2>1
<1>20. u + y = size /\ u <= size
  BY <1>13, <1>19
<1>21. e.cur_pkt = 1 => x[1] = <<"idx", e.cur_idx>>
  <2>1. SUFFICES ASSUME e.cur_pkt = 1 PROVE x[1] = <<"idx", e.cur_idx>>
    OBVIOUS
  <2>2. k > 0 /\ a0[1] = <<"idx", e.cur_idx>>
    BY <2>1, <1>4
  <2>3. 1 \in 1 .. u /\ 1 \in 1 .. k + ll /\ 1 \in 1 .. k
    BY <2>2, <1>11
  <2> QED
    BY <2>2, <2>3, <1>8, <1>10, <1>17
<1>22. x[k + 1] = <<"len", n>>
  <2>1. 1 \in 1 .. ll /\ k + 1 \in 1 .. u /\ k + 1 \in 1 .. k + ll
    BY <1>2, <1>11
  <2>2. h[k + 1] = l0[1]
    BY <2>1, <1>8
  <2> QED
    BY <2>1, <2>2, <1>5, <1>10, <1>17
<1>23. ASSUME NEW i \in 1 .. n PROVE x[k + ll + i] = <<"data", sent[s] + i>>
  <2>1. (k + ll) + i \in 1 .. u
    BY <1>11
  <2>2. g[(k + ll) + i] = d0[i]
    BY <1>10
  <2> QED
    BY <2>1, <2>2, <1>6, <1>17
<1> QED
  <2>1. /\ Packet(s, e, n) \in Seq(Sym)
        /\ Len(Packet(s, e, n)) = size
        /\ Skip(e.cur_pkt) + LenLen + n <= size
        /\ e.cur_pkt = 1 => Packet(s, e, n)[1] = <<"idx", e.cur_idx>>
        /\ Packet(s, e, n)[Skip(e.cur_pkt) + 1] = <<"len", n>>
        /\ \A i \in 1 .. n :
              Packet(s, e, n)[Skip(e.cur_pkt) + LenLen + i] = <<"data", sent[s] + i>>
    BY <1>2, <1>3, <1>11, <1>17, <1>18, <1>20, <1>21, <1>22, <1>23
  <2> QED
    BY ONLY <2>1 DEF PacketIs

-----------------------------------------------------------------------------
(* The records of the code, with their fields as arguments.                *)

ERec(i, c, ce, z) == [cur_idx |-> i, cur_pkt |-> c, ceased |-> ce, st |-> z]
PRec(e, src, sl, pk, d, r) ==
    [e |-> e, source |-> src, src_len |-> sl, pkt_size |-> pk, dest |-> d, ret |-> r]

LEMMA ERecFields ==
    ASSUME NEW i, NEW c, NEW ce, NEW z
    PROVE  /\ ERec(i, c, ce, z).cur_idx = i
           /\ ERec(i, c, ce, z).cur_pkt = c
           /\ ERec(i, c, ce, z).ceased = ce
           /\ ERec(i, c, ce, z).st = z
           /\ Trace(ERec(i, c, ce, z)) = Traces[i]
           /\ get_pkt_size(ERec(i, c, ce, z)) = Abs(Traces[i][c])
BY DEF ERec, Trace, get_pkt_size

LEMMA PRecFields ==
    ASSUME NEW e, NEW src, NEW sl, NEW pk, NEW d, NEW r
    PROVE  /\ PRec(e, src, sl, pk, d, r).e = e
           /\ PRec(e, src, sl, pk, d, r).source = src
           /\ PRec(e, src, sl, pk, d, r).src_len = sl
           /\ PRec(e, src, sl, pk, d, r).pkt_size = pk
           /\ PRec(e, src, sl, pk, d, r).dest = d
           /\ PRec(e, src, sl, pk, d, r).ret = r
BY DEF PRec

Advanced(p, c2, f) == [p EXCEPT !.cur_pkt = c2, !.ceased = f]
Turned(p, d2, s2, l2, k2, e2) ==
    [p EXCEPT !.dest = d2, !.source = s2, !.src_len = l2, !.pkt_size = k2, !.e = e2]

LEMMA ERecExcept ==
    ASSUME NEW i, NEW c, NEW ce, NEW z, NEW c2, NEW f
    PROVE  Advanced(ERec(i, c, ce, z), c2, f) = ERec(i, c2, f, z)
<1>1. PICK p, q : p = ERec(i, c, ce, z) /\ q = ERec(i, c2, ce, z)
  OBVIOUS
<1>2. [p EXCEPT !.cur_pkt = c2] = q
  BY <1>1 DEF ERec
<1>3. [q EXCEPT !.ceased = f] = ERec(i, c2, f, z)
  BY <1>1 DEF ERec
<1>4. [p EXCEPT !.cur_pkt = c2, !.ceased = f] = [[p EXCEPT !.cur_pkt = c2] EXCEPT !.ceased = f]
  OBVIOUS
<1> QED
  BY <1>1, <1>2, <1>3, <1>4, Zenon DEF Advanced

LEMMA PRecExcept ==
    ASSUME NEW e, NEW src, NEW sl, NEW pk, NEW d, NEW r,
           NEW e2, NEW s2, NEW l2, NEW k2, NEW d2
    PROVE  Turned(PRec(e, src, sl, pk, d, r), d2, s2, l2, k2, e2)
             = PRec(e2, s2, l2, k2, d2, r)
<1>1. PICK p, p1, p2, p3, p4 :
         /\ p = PRec(e, src, sl, pk, d, r) /\ p1 = PRec(e, src, sl, pk, d2, r)
         /\ p2 = PRec(e, s2, sl, pk, d2, r) /\ p3 = PRec(e, s2, l2, pk, d2, r)
         /\ p4 = PRec(e, s2, l2, k2, d2, r)
  OBVIOUS
<1>2. [p EXCEPT !.dest = d2] = p1
  BY <1>1 DEF PRec
<1>3. [p1 EXCEPT !.source = s2] = p2
  BY <1>1 DEF PRec
<1>4. [p2 EXCEPT !.src_len = l2] = p3
  BY <1>1 DEF PRec
<1>5. [p3 EXCEPT !.pkt_size = k2] = p4
  BY <1>1 DEF PRec
<1>6. [p4 EXCEPT !.e = e2] = PRec(e2, s2, l2, k2, d2, r)
  BY <1>1 DEF PRec
<1>7. [p EXCEPT !.dest = d2, !.source = s2, !.src_len = l2, !.pkt_size = k2, !.e = e2]
      = [[[[[p EXCEPT !.dest = d2] EXCEPT !.source = s2] EXCEPT !.src_len = l2]
           EXCEPT !.pkt_size = k2] EXCEPT !.e = e2]
  OBVIOUS
<1>8. [p EXCEPT !.dest = d2, !.source = s2, !.src_len = l2, !.pkt_size = k2, !.e = e2]
      = PRec(e2, s2, l2, k2, d2, r)
  BY ONLY <1>2, <1>3, <1>4, <1>5, <1>6, <1>7, ZenonT(60)
<1> QED
  BY ONLY <1>1, <1>8, ZenonT(60) DEF Turned

\* The value FALSE, which the provers otherwise take for a formula.
No == FALSE

Last(f, i, c) == f \in BOOLEAN /\ (f <=> c = Len(Traces[i]))

LEMMA AdvanceRec ==
    ASSUME NEW i, NEW c, NEW z, NEW f, Last(f, i, c)
    PROVE  Advance(ERec(i, c, No, z)) = ERec(i, c + 1, f, z)
<1>1. f = (No \/ c = Len(Traces[i]))
  BY DEF No, Last
<1>2. PICK e : e = ERec(i, c, No, z)
  OBVIOUS
<1>3. Advance(e) = Advanced(e, c + 1, f)
  <2>1. e.cur_pkt = c /\ e.ceased = No /\ Trace(e) = Traces[i]
    BY <1>2, ERecFields
  <2> QED
    BY <2>1, <1>1, Zenon DEF Advance, Advanced
<1>4. Advanced(e, c + 1, f) = ERec(i, c + 1, f, z)
  BY <1>2, ERecExcept
<1> QED
  BY <1>2, <1>3, <1>4

\* One turn of the loop, with nothing but its effect on each field.
TurnTakes(e, src, sl, pk, exp, n, pad, rest) ==
    /\ exp = get_pkt_size(e) /\ e.ceased = No /\ ~(sl < exp) /\ n = src[1][2]
    /\ ~(Len(src) < LenLen) /\ ~(Len(src) < LenLen + n)
    /\ pad = IF exp > pk + n + LenLen THEN exp - (pk + n + LenLen) ELSE 0
    /\ rest = Rest(src, LenLen + n)

LEMMA TurnRec ==
    ASSUME NEW e, NEW src, NEW sl, NEW pk, NEW d, NEW exp, NEW n, NEW pad, NEW rest,
           TurnTakes(e, src, sl, pk, exp, n, pad, rest)
    PROVE  Turn(PRec(e, src, sl, pk, d, 0)) =
             PRec(Advance(e), Rest(rest, Least(pad, Len(rest))), sl - exp, 0,
                  d \o SubSeq(src, LenLen + 1, LenLen + n), 0)
<1>1. PICK p : p = PRec(e, src, sl, pk, d, 0)
  OBVIOUS
<1>2. p.e = e /\ p.source = src /\ p.src_len = sl /\ p.pkt_size = pk /\ p.dest = d /\ p.ret = 0
  BY <1>1, PRecFields
<1>3. Turn(p) = ReceivePacket(p)
  <2>1. ~(p.ret = -1)
    BY <1>2
  <2>2. ~p.e.ceased
    BY <1>2 DEF TurnTakes, No
  <2>3. ~(p.src_len < get_pkt_size(p.e))
    BY <1>2, Zenon DEF TurnTakes
  <2> QED
    BY <2>1, <2>2, <2>3, Zenon DEF Turn
<1>4. ReceivePacket(p) =
        Turned(p, d \o SubSeq(src, LenLen + 1, LenLen + n),
               Rest(rest, Least(pad, Len(rest))), sl - exp, 0, Advance(e))
  BY <1>2, Zenon DEF ReceivePacket, Turned, TurnTakes
<1>5. PICK d2, s2, l2, e2 :
         /\ d2 = d \o SubSeq(src, LenLen + 1, LenLen + n)
         /\ s2 = Rest(rest, Least(pad, Len(rest)))
         /\ l2 = sl - exp /\ e2 = Advance(e)
  OBVIOUS
<1>6. Turned(p, d2, s2, l2, 0, e2) = PRec(e2, s2, l2, 0, d2, 0)
  BY <1>1, PRecExcept
<1> QED
  BY <1>1, <1>3, <1>4, <1>5, <1>6

-----------------------------------------------------------------------------
(* The loop of receive().                                                  *)

\* Packet k of trace w begins after o bytes of the stream st and after f bytes
\* of data, and ends after o2 bytes and f2 bytes of data.
Sent(w, k, st, o, f, o2, f2) ==
    \E n \in Nat :
        /\ f2 = f + n /\ o2 = o + Abs(Traces[w][k])
        /\ Skip(k) + LenLen + n <= Abs(Traces[w][k])
        /\ k = 1 => st[o + 1][2] = w
        /\ st[o + Skip(k) + 1][2] = n
        /\ \A i \in 1 .. n : st[o + Skip(k) + LenLen + i] = <<"data", f + i>>

LEMMA TraceFacts ==
    ASSUME NEW w \in DOMAIN Traces
    PROVE  /\ Traces[w] \in Seq(Int \ {0})
           /\ Len(Traces[w]) \in Nat
           /\ \A k \in 1 .. Len(Traces[w]) :
                 Traces[w][k] \in Int /\ Abs(Traces[w][k]) \in Nat /\ Abs(Traces[w][k]) > 0
<1>1. Traces[w] \in Seq(Int \ {0})
  BY TracesAssumption
<1>2. \A k \in 1 .. Len(Traces[w]) : Traces[w][k] \in Int \ {0}
  BY <1>1
<1> QED
  BY <1>1, <1>2 DEF Abs

Joins(x, y, z) == (x \o y) \o z = x \o (y \o z)

LEMMA CatAssoc ==
    ASSUME NEW x \in Seq(Sym), NEW y \in Seq(Sym), NEW z \in Seq(Sym)
    PROVE  Joins(x, y, z)
BY ConcatAssociative DEF Joins

\* The part of the buffer that receive() takes for the data of a packet.
LEMMA DataTaken ==
    ASSUME NEW src \in Seq(Sym), NEW ll \in Nat, NEW n \in Nat, ll + n <= Len(src)
    PROVE  /\ SubSeq(src, ll + 1, ll + n) \in Seq(Sym)
           /\ Len(SubSeq(src, ll + 1, ll + n)) = n
           /\ \A i \in 1 .. n : SubSeq(src, ll + 1, ll + n)[i] = src[ll + i]
<1>1. Len(src) \in Nat
  OBVIOUS
<1>2. PICK l \in Nat : l = Len(src) /\ ll + n <= l
  BY <1>1
<1>3. \A j \in ll + 1 .. ll + n : j \in 1 .. l /\ src[j] \in Sym
  BY <1>2
<1>4. SubSeq(src, ll + 1, ll + n) = [i \in 1 .. n |-> src[ll + i]]
  <2>1. (ll + n) - (ll + 1) + 1 = n /\ \A i \in 1 .. n : i + (ll + 1) - 1 = ll + i
    OBVIOUS
  <2> QED
    BY <2>1
<1>5. \A i \in 1 .. n : src[ll + i] \in Sym
  BY <1>3
<1> QED
  BY <1>4, <1>5

\* The packet that is expected is in the buffer, to its last byte.
Whole(w, c, src, R, d, g, st, N, o, f, o2, f2) ==
    /\ w \in DOMAIN Traces /\ c \in 1 .. Len(Traces[w])
    /\ Flight(src, R, st, N, o + Skip(c))
    /\ Sent(w, c, st, o, f, o2, f2)
    /\ g \o d = Data(0, f)
    /\ Len(src) + Skip(c) >= Abs(Traces[w][c])

LEMMA SkipNat == ASSUME NEW c PROVE Skip(c) \in Nat
BY EmbedAssumption DEF Skip

\* The sums of a turn: the packet has k + ll + n bytes and pad more, and the
\* buffer l of them at least, k being gone already.
LEMMA TurnSums ==
    ASSUME NEW k \in Nat, NEW ll \in Nat, NEW n \in Nat, NEW size \in Nat, NEW l \in Nat,
           NEW o \in Nat, NEW o2, ll > 0, k + ll + n <= size, l + k >= size, o2 = o + size
    PROVE  /\ ll + n <= l /\ 1 \in 1 .. l /\ ll <= l /\ ll + n \in 0 .. l
           /\ size - (k + n + ll) \in 0 .. l - (ll + n)
           /\ size - (k + n + ll) \in Nat /\ l - (ll + n) \in Nat
           /\ size - (k + n + ll) = IF size > k + n + ll THEN size - (k + n + ll) ELSE 0
           /\ (l - (ll + n)) - (size - (k + n + ll)) = (l + k) - size
           /\ o + k + (ll + n) + (size - (k + n + ll)) = o2
           /\ o + k \in Nat /\ o + k + (ll + n) \in Nat
OBVIOUS

\* src_len never counts more than there is, a short that has wrapped around
\* less.
Counted(sl, src, k) == sl \in Int /\ sl <= Len(src) + k

\* A turn with a whole packet in the buffer takes it, and nothing more.
Taken(w, c, src, sl, R, d, g, st, N, o2, f2) ==
    \E src2 \in Seq(Sym), d2 \in Seq(Sym), ce \in BOOLEAN, sl2 \in Int :
        /\ Turn(PRec(ERec(w, c, No, "open"), src, sl, Skip(c), d, 0))
             = PRec(ERec(w, c + 1, ce, "open"), src2, sl2, 0, d2, 0)
        /\ Counted(sl2, src2, 0)
        /\ ce <=> c = Len(Traces[w])
        /\ Flight(src2, R, st, N, o2)
        /\ g \o d2 = Data(0, f2)

LEMMA OneTurn ==
    ASSUME NEW w, NEW c, NEW src \in Seq(Sym), NEW R \in Seq(Sym), NEW d \in Seq(Sym),
           NEW g \in Seq(Sym), NEW st, NEW N \in Nat,
           NEW o \in Nat, NEW f \in Nat, NEW o2 \in Nat, NEW f2 \in Nat,
           Whole(w, c, src, R, d, g, st, N, o, f, o2, f2),
           NEW sl, Counted(sl, src, Skip(c)), ~(sl < Abs(Traces[w][c]))
    PROVE  Taken(w, c, src, sl, R, d, g, st, N, o2, f2)
<1>1. PICK ll \in Nat : ll = LenLen /\ ll > 0
  BY ONLY EmbedAssumption
<1>2. PICK k \in Nat : k = Skip(c)
  BY ONLY SkipNat
<1>3. PICK size \in Nat : size = Abs(Traces[w][c])
  <2>1. w \in DOMAIN Traces /\ c \in 1 .. Len(Traces[w])
    BY DEF Whole
  <2> QED
    BY ONLY <2>1, TraceFacts
<1>4. PICK l \in Nat : l = Len(src)
  OBVIOUS
<1>5. PICK n \in Nat :
         /\ f2 = f + n /\ o2 = o + size /\ k + ll + n <= size
         /\ st[o + k + 1][2] = n
         /\ \A i \in 1 .. n : st[o + k + ll + i] = <<"data", f + i>>
  BY <1>1, <1>2, <1>3 DEF Whole, Sent
<1>6. l + k >= size /\ Flight(src, R, st, N, o + k) /\ g \o d = Data(0, f)
  BY <1>2, <1>3, <1>4 DEF Whole
<1>7. PICK pad : pad = size - (k + n + ll)
  OBVIOUS
<1>8. PICK r : r = l - (ll + n)
  OBVIOUS
<1>9. sl \in Int /\ sl <= l + k /\ ~(sl < size)
  BY <1>2, <1>3, <1>4 DEF Counted
<1>10. PICK o1 : o1 = o + k + (ll + n)
  OBVIOUS
<1>11. /\ ll + n <= l /\ 1 \in 1 .. l /\ ll <= l /\ ll + n \in 0 .. l
       /\ pad \in 0 .. r /\ pad \in Nat /\ r \in Nat
       /\ pad = IF size > k + n + ll THEN size - (k + n + ll) ELSE 0
       /\ r - pad = (l + k) - size /\ o1 + pad = o2 /\ o + k \in Nat /\ o1 \in Nat
  BY <1>1, <1>5, <1>6, <1>7, <1>8, <1>10, TurnSums
<1>12. \A i \in 1 .. l : src[i] = st[o + k + i]
  BY <1>4, <1>6 DEF Flight
<1>13. src[1][2] = n
  <2>1. src[1] = st[o + k + 1]
    BY <1>11, <1>12
  <2> QED
    BY <2>1, <1>5
<1>14. PICK e : e = ERec(w, c, No, "open")
  OBVIOUS
<1>15. e.ceased = No /\ size = get_pkt_size(e)
  <2>1. e.ceased = No /\ get_pkt_size(e) = Abs(Traces[w][c])
    BY <1>14, ERecFields
  <2> QED
    BY ONLY <2>1, <1>3
<1>16. PICK x \in Nat : x = ll + n /\ x \in 0 .. Len(src) /\ r = l - x
  BY <1>4, <1>8, <1>11
<1>17. PICK rest \in Seq(Sym) : rest = Rest(src, x)
  BY <1>16, RestFacts
<1>18. Len(rest) = r
  BY <1>4, <1>16, <1>17, RestFacts
<1>19. Least(pad, Len(rest)) = pad /\ pad \in 0 .. Len(rest)
  BY <1>11, <1>18 DEF Least
<1>20. PICK src2 \in Seq(Sym) : src2 = Rest(rest, pad)
  BY <1>19, RestFacts
<1>21. PICK sl2 \in Int : sl2 = sl - size /\ Counted(sl2, src2, 0)
  <2>1. Len(src2) = Len(rest) - pad
    BY <1>19, <1>20, RestFacts
  <2>2. Len(src2) = (l + k) - size
    BY <2>1, <1>11, <1>18
  <2>3. sl - size \in Int /\ sl - size <= (l + k) - size
    BY <1>9
  <2>4. PICK y \in Int : y = Len(src2)
    OBVIOUS
  <2>5. sl - size <= y + 0
    BY ONLY <2>2, <2>3, <2>4, y \in Int
  <2> QED
    BY ONLY <2>3, <2>4, <2>5 DEF Counted
<1>22. PICK q \in Seq(Sym) : q = SubSeq(src, ll + 1, ll + n)
  BY <1>4, <1>11, DataTaken
<1>23. Len(q) = n /\ \A i \in 1 .. n : q[i] = src[ll + i]
  BY <1>4, <1>11, <1>22, DataTaken
<1>24. PICK d2 \in Seq(Sym) : d2 = d \o q
  BY CatFacts
<1>25. PICK ce \in BOOLEAN : ce <=> c = Len(Traces[w])
  OBVIOUS
<1>26. Advance(e) = ERec(w, c + 1, ce, "open")
  <2>1. Last(ce, w, c)
    BY <1>25 DEF Last
  <2> QED
    BY <2>1, <1>14, AdvanceRec
<1>27. Turn(PRec(e, src, sl, k, d, 0)) = PRec(Advance(e), src2, sl - size, 0, d2, 0)
  <2>1. ~(sl < size)
    BY <1>9
  <2>2. ~(Len(src) < LenLen) /\ ~(Len(src) < LenLen + n)
    <3>1. ~(l < ll) /\ ~(l < ll + n)
      BY <1>11
    <3> QED
      BY ONLY <3>1, <1>1, <1>4
  <2>3. Turn(PRec(e, src, sl, k, d, 0)) =
             PRec(Advance(e), Rest(rest, Least(pad, Len(rest))), sl - size, 0,
                  d \o SubSeq(src, LenLen + 1, LenLen + n), 0)
    <3>1. pad = IF size > k + n + LenLen THEN size - (k + n + LenLen) ELSE 0
      BY <1>1, <1>11
    <3>2. rest = Rest(src, LenLen + n) /\ n = src[1][2]
      BY <1>1, <1>13, <1>16, <1>17
    <3>3. TurnTakes(e, src, sl, k, size, n, pad, rest)
      BY ONLY <2>1, <2>2, <3>1, <3>2, <1>15 DEF TurnTakes
    <3> QED
      BY ONLY <3>3, TurnRec
  <2> QED
    BY ONLY <2>3, <1>1, <1>19, <1>20, <1>22, <1>24
<1>28. Flight(src2, R, st, N, o2)
  <2>1. Flight(rest, R, st, N, (o + k) + x)
    BY <1>6, <1>11, <1>16, <1>17, FlightDrops
  <2>2. (o + k) + x = o1
    BY <1>10, <1>16
  <2>3. Flight(rest, R, st, N, o1)
    BY <2>1, <2>2
  <2>4. Flight(src2, R, st, N, o1 + pad)
    BY <2>3, <1>11, <1>19, <1>20, FlightDrops
  <2> QED
    BY <2>4, <1>11
<1>29. g \o d2 = Data(0, f2)
  <2>1. g \o d2 = (g \o d) \o q
    <3>1. Joins(g, d, q)
      BY CatAssoc
    <3> QED
      BY ONLY <3>1, <1>24 DEF Joins
  <2>2. ASSUME NEW i \in 1 .. n PROVE q[i] = <<"data", f + i>>
    <3>1. ll + i \in 1 .. l /\ o + k + (ll + i) = o + k + ll + i
      BY <1>11
    <3>2. src[ll + i] = st[o + k + ll + i]
      BY <3>1, <1>12
    <3>3. st[o + k + ll + i] = <<"data", f + i>>
      BY <1>5
    <3> QED
      BY <3>2, <3>3, <1>23
  <2>3. Data(0, f) \o q = Data(0, f + n)
    BY <2>2, <1>23, DataCat
  <2> QED
    BY <2>1, <2>3, <1>5, <1>6
<1>30. Turn(PRec(ERec(w, c, No, "open"), src, sl, Skip(c), d, 0))
         = PRec(ERec(w, c + 1, ce, "open"), src2, sl2, 0, d2, 0)
  BY ONLY <1>2, <1>14, <1>21, <1>26, <1>27
<1> QED
  BY <1>21, <1>25, <1>28, <1>29, <1>30 DEF Taken

\* s sends packet k of trace w.
Owner(w, k, s) == (Traces[w][k] < 0) # (s = "client")

\* The stream st of what s has sent, n bytes of data in N bytes, the packets
\* before b of trace w.
Stream(w, s, b, n, st, N, off, base) ==
    /\ N \in Nat /\ off \in [Nat -> Nat] /\ base \in [Nat -> Nat]
    /\ \A k \in Nat : off[k] <= N /\ base[k] <= n
    /\ \A k \in Nat : k >= b => off[k] = N /\ base[k] = n
    /\ \A k \in Nat : 1 <= k /\ k < b /\ Owner(w, k, s) =>
          Sent(w, k, st, off[k], base[k], off[k + 1], base[k + 1])

\* The receiver of it expects packet a, and the packets up to b are the sender's.
Behind(w, s, a, b, n, st, N, off, base) ==
    /\ w \in DOMAIN Traces
    /\ a \in Nat /\ b \in Nat /\ 1 <= a /\ b <= Len(Traces[w]) + 1
    /\ Stream(w, s, b, n, st, N, off, base)
    /\ \A k \in Nat : a <= k /\ k < b => Owner(w, k, s)

\* The loop of receive() stands at the beginning of packet c, of which it has
\* dropped the index if it was there.
LoopState(w, a, b, R, st, N, off, base, g, p) ==
    \E c \in Nat, ce \in BOOLEAN, src \in Seq(Sym), d \in Seq(Sym), sl \in Int :
        /\ p = PRec(ERec(w, c, ce, "open"), src, sl, Skip(c), d, 0)
        /\ Counted(sl, src, Skip(c))
        /\ a <= c /\ c <= b
        /\ ce <=> c = Len(Traces[w]) + 1
        /\ Flight(src, R, st, N, off[c] + Skip(c))
        /\ g \o d = Data(0, base[c])

Stops(i, c, ce, sl) == ce \in BOOLEAN /\ (ce \/ sl < Abs(Traces[i][c]))

LEMMA TurnStops ==
    ASSUME NEW i, NEW c, NEW ce, NEW z, NEW src, NEW sl, NEW pk, NEW d, NEW r, Stops(i, c, ce, sl)
    PROVE  Turn(PRec(ERec(i, c, ce, z), src, sl, pk, d, r)) = PRec(ERec(i, c, ce, z), src, sl, pk, d, r)
<1>1. PICK e, p : e = ERec(i, c, ce, z) /\ p = PRec(e, src, sl, pk, d, r)
  OBVIOUS
<1>2. p.e = e /\ p.src_len = sl
  BY <1>1, PRecFields
<1>3. e.ceased = ce /\ get_pkt_size(e) = Abs(Traces[i][c])
  BY <1>1, ERecFields
<1>4. p.e.ceased \/ p.src_len < get_pkt_size(p.e)
  BY <1>2, <1>3, Zenon DEF Stops
<1>5. Turn(p) = p
  BY <1>4, Zenon DEF Turn
<1> QED
  BY ONLY <1>1, <1>5

LEMMA TurnKeeps ==
    ASSUME NEW w, NEW s, NEW a, NEW b, NEW n, NEW R \in Seq(Sym), NEW st, NEW N, NEW off, NEW base,
           NEW g \in Seq(Sym), NEW p, Behind(w, s, a, b, n, st, N, off, base),
           LoopState(w, a, b, R, st, N, off, base, g, p)
    PROVE  LoopState(w, a, b, R, st, N, off, base, g, Turn(p))
<1>1. PICK c \in Nat, ce \in BOOLEAN, src \in Seq(Sym), d \in Seq(Sym), sl \in Int :
        /\ p = PRec(ERec(w, c, ce, "open"), src, sl, Skip(c), d, 0)
        /\ Counted(sl, src, Skip(c))
        /\ a <= c /\ c <= b
        /\ ce <=> c = Len(Traces[w]) + 1
        /\ Flight(src, R, st, N, off[c] + Skip(c))
        /\ g \o d = Data(0, base[c])
  BY DEF LoopState
<1>2. PICK T \in Nat : T = Len(Traces[w])
  BY TraceFacts DEF Behind
<1>3. a \in Nat /\ b \in Nat /\ 1 <= a /\ b <= T + 1 /\ w \in DOMAIN Traces
      /\ N \in Nat /\ off \in [Nat -> Nat] /\ base \in [Nat -> Nat]
  BY <1>2 DEF Behind, Stream
<1>4. PICK l \in Nat, k \in Nat : l = Len(src) /\ k = Skip(c)
  BY SkipNat
<1>5. ASSUME ce \/ sl < Abs(Traces[w][c])
      PROVE  LoopState(w, a, b, R, st, N, off, base, g, Turn(p))
  <2>1. Turn(PRec(ERec(w, c, ce, "open"), src, sl, Skip(c), d, 0))
          = PRec(ERec(w, c, ce, "open"), src, sl, Skip(c), d, 0)
    <3>1. Stops(w, c, ce, sl)
      BY <1>5 DEF Stops
    <3> QED
      BY ONLY <3>1, TurnStops
  <2>2. Turn(p) = p
    BY ONLY <2>1, <1>1
  <2> QED
    BY ONLY <2>2, LoopState(w, a, b, R, st, N, off, base, g, p)
<1>6. ASSUME ~ce, ~(sl < Abs(Traces[w][c]))
      PROVE  LoopState(w, a, b, R, st, N, off, base, g, Turn(p))
  <2>1. c \in 1 .. T
    <3>1. a <= c /\ c <= b /\ c # T + 1
      BY <1>1, <1>2, <1>6
    <3> QED
      BY <3>1, <1>3
  <2>2. PICK size \in Nat : size = Abs(Traces[w][c]) /\ size > 0
    BY <2>1, <1>2, <1>3, TraceFacts
  <2>3. l + k >= size
    <3>1. ~(sl < size) /\ sl <= l + k
      BY ONLY <1>1, <1>4, <1>6, <2>2 DEF Counted
    <3> QED
      BY <3>1
  <2>4. PICK o \in Nat, f \in Nat, o2 \in Nat, f2 \in Nat :
           o = off[c] /\ f = base[c] /\ o2 = off[c + 1] /\ f2 = base[c + 1]
    <3>1. c \in Nat /\ c + 1 \in Nat
      OBVIOUS
    <3>2. off[c] \in Nat /\ base[c] \in Nat /\ off[c + 1] \in Nat /\ base[c + 1] \in Nat
      BY <3>1, <1>3
    <3> QED
      BY ONLY <3>2
  <2>5. c < b
    <3>1. SUFFICES ASSUME c = b PROVE FALSE
      <4>1. c <= b
        BY <1>1
      <4> QED
        BY <4>1, <1>3
    <3>2. o = N
      <4>1. c >= b
        BY <3>1, <1>3
      <4> QED
        BY <4>1, <2>4 DEF Behind, Stream
    <3>3. Len(src) + Len(R) + (o + k) = N
      BY ONLY <1>1, <1>4, <2>4 DEF Flight
    <3>4. PICK m \in Nat : m = Len(R)
      OBVIOUS
    <3>5. l + m + (o + k) = N
      BY ONLY <3>3, <3>4, <1>4
    <3>6. l + k > 0
      BY ONLY <2>2, <2>3
    <3>7. N \in Nat
      BY ONLY <1>3
    <3> QED
      BY ONLY <3>2, <3>5, <3>6, <3>7
  <2>6. Sent(w, c, st, o, f, o2, f2)
    <3>1. a <= c /\ 1 <= c
      BY <1>1, <1>3
    <3>2. Owner(w, c, s)
      BY <3>1, <2>5 DEF Behind
    <3>3. Sent(w, c, st, off[c], base[c], off[c + 1], base[c + 1])
      BY <3>1, <3>2, <2>5 DEF Behind, Stream
    <3> QED
      BY ONLY <3>3, <2>4
  <2>7. Whole(w, c, src, R, d, g, st, N, o, f, o2, f2)
    <3>1. c \in 1 .. Len(Traces[w]) /\ Len(src) + Skip(c) >= Abs(Traces[w][c])
      BY ONLY <2>1, <2>2, <2>3, <1>2, <1>4
    <3>2. Flight(src, R, st, N, o + Skip(c)) /\ g \o d = Data(0, f)
      BY ONLY <2>4, <1>1
    <3> QED
      BY <3>1, <3>2, <2>6, <1>3 DEF Whole
  <2>8. PICK src2 \in Seq(Sym), d2 \in Seq(Sym), e2 \in BOOLEAN, sl2 \in Int :
              /\ Turn(PRec(ERec(w, c, No, "open"), src, sl, Skip(c), d, 0))
                   = PRec(ERec(w, c + 1, e2, "open"), src2, sl2, 0, d2, 0)
              /\ Counted(sl2, src2, 0)
              /\ e2 <=> c = Len(Traces[w])
              /\ Flight(src2, R, st, N, o2)
              /\ g \o d2 = Data(0, f2)
    <3>1. Taken(w, c, src, sl, R, d, g, st, N, o2, f2)
      BY <2>7, <1>1, <1>3, <1>6, OneTurn
    <3> QED
      BY ONLY <3>1, Zenon DEF Taken
  <2>9. ce = No
    BY <1>6 DEF No
  <2>10. Skip(c + 1) = 0 /\ off[c + 1] + Skip(c + 1) = o2
    <3>1. Skip(c + 1) = 0
      BY <2>1 DEF Skip
    <3>2. o2 + 0 = o2
      OBVIOUS
    <3> QED
      BY ONLY <3>1, <3>2, <2>4
  <2>11. /\ Turn(p) = PRec(ERec(w, c + 1, e2, "open"), src2, sl2, Skip(c + 1), d2, 0)
         /\ Counted(sl2, src2, Skip(c + 1))
    BY ONLY <2>8, <2>9, <2>10, <1>1
  <2>12. c + 1 \in Nat /\ a <= c + 1 /\ c + 1 <= b /\ (e2 <=> c + 1 = Len(Traces[w]) + 1)
    <3>1. a <= c
      BY <1>1
    <3>2. (e2 <=> c + 1 = T + 1)
      <4>1. c = T <=> c + 1 = T + 1
        OBVIOUS
      <4>2. e2 <=> c = T
        BY ONLY <2>8, <1>2
      <4> QED
        BY ONLY <4>1, <4>2
    <3> QED
      BY <3>1, <3>2, <2>5, <1>2, <1>3
  <2>13. Flight(src2, R, st, N, off[c + 1] + Skip(c + 1)) /\ g \o d2 = Data(0, base[c + 1])
    BY ONLY <2>4, <2>8, <2>10
  <2> QED
    BY <2>11, <2>12, <2>13 DEF LoopState
<1> QED
  BY ONLY <1>5, <1>6

\* Every turn keeps it, so the loop does, however many turns it has.
LEMMA LoopKeeps ==
    ASSUME NEW w, NEW s, NEW a, NEW b, NEW n, NEW R \in Seq(Sym), NEW st, NEW N, NEW off, NEW base,
           NEW g \in Seq(Sym), NEW p, Behind(w, s, a, b, n, st, N, off, base),
           LoopState(w, a, b, R, st, N, off, base, g, p)
    PROVE  LoopState(w, a, b, R, st, N, off, base, g, ReceiveLoop(p))
<1> DEFINE L(q) == LoopState(w, a, b, R, st, N, off, base, g, q)
<1>1. \A q : L(q) => L(Turn(q))
  BY TurnKeeps
<1>2. PICK T \in Nat : T = Len(Trace(p.e))
  <2>1. PICK c \in Nat, ce \in BOOLEAN, src \in Seq(Sym), d \in Seq(Sym), sl \in Int :
           p = PRec(ERec(w, c, ce, "open"), src, sl, Skip(c), d, 0)
    BY DEF LoopState
  <2>2. p.e = ERec(w, c, ce, "open")
    BY <2>1, PRecFields
  <2>3. Trace(p.e) = Traces[w]
    BY <2>2, ERecFields
  <2> QED
    BY <2>3, TraceFacts DEF Behind
<1>3. PICK h : Unrolled(h, p, T) /\ ReceiveLoop(p) = h[T]
  BY ONLY <1>2, T \in Nat, LoopUnrolls
<1>4. L(p)
  OBVIOUS
<1> HIDE DEF L
<1> DEFINE Bad == {k \in Nat : k <= T /\ ~L(h[k])}
<1>5. Bad = {}
  <2>1. SUFFICES ASSUME Bad # {} PROVE FALSE
    OBVIOUS
  <2>2. Bad \in SUBSET Nat
    OBVIOUS
  <2>3. PICK k \in Bad : \A j \in Bad : k <= j
    <3> HIDE DEF Bad
    <3> QED
      BY <2>1, <2>2, Smallest
  <2>4. k \in Nat /\ k <= T /\ ~L(h[k])
    OBVIOUS
  <2>5. k # 0
    BY <2>4, <1>3, <1>4 DEF Unrolled
  <2>6. k \in 1 .. T /\ k - 1 \in Nat /\ k - 1 <= T /\ k - 1 \notin Bad
    BY <2>3, <2>4, <2>5
  <2>7. L(h[k - 1])
    BY <2>6
  <2>8. h[k] = Turn(h[k - 1])
    BY <2>6, <1>3 DEF Unrolled
  <2> QED
    BY <2>4, <2>7, <2>8, <1>1
<1>6. L(h[T])
  BY <1>5
<1> QED
  BY <1>3, <1>6 DEF L

-----------------------------------------------------------------------------
(* One direction of the connection.  The sender s is at packet b and has   *)
(* been given n bytes; the receiver is at packet a and has passed on g; B  *)
(* has arrived there and W is on the wire.                                 *)

Link(w, s, b, n, a, g, B, W) ==
    \E st, N, off, base :
        /\ Stream(w, s, b, n, st, N, off, base)
        /\ g = Data(0, base[a])
        /\ Flight(B, W, st, N, off[a])
        /\ \A k \in Nat : a <= k /\ k < b => Owner(w, k, s)

LEMMA SentGrows ==
    ASSUME NEW w, NEW k, NEW st, NEW o \in Nat, NEW f, NEW o2 \in Nat, NEW f2, NEW N \in Nat, NEW q,
           Sent(w, k, st, o, f, o2, f2), o2 <= N, \A j \in 1 .. N : q[j] = st[j],
           Abs(Traces[w][k]) \in Nat
    PROVE  Sent(w, k, q, o, f, o2, f2)
<1>1. PICK ll \in Nat : ll = LenLen /\ ll > 0
  BY ONLY EmbedAssumption
<1>2. PICK x \in Nat : x = Skip(k)
  BY ONLY SkipNat
<1>3. PICK size \in Nat : size = Abs(Traces[w][k])
  OBVIOUS
<1>4. PICK n \in Nat :
         /\ f2 = f + n /\ o2 = o + size /\ x + ll + n <= size
         /\ (k = 1 => st[o + 1][2] = w) /\ st[o + x + 1][2] = n
         /\ \A i \in 1 .. n : st[o + x + ll + i] = <<"data", f + i>>
  BY <1>1, <1>2, <1>3 DEF Sent
<1>5. o + 1 \in 1 .. N /\ o + x + 1 \in 1 .. N /\ \A i \in 1 .. n : o + x + ll + i \in 1 .. N
  <2>1. o + x + ll + n <= N
    BY <1>4
  <2> QED
    BY <2>1, <1>1
<1>6. q[o + 1] = st[o + 1] /\ q[o + x + 1] = st[o + x + 1]
      /\ \A i \in 1 .. n : q[o + x + ll + i] = st[o + x + ll + i]
  BY <1>5
<1>7. /\ f2 = f + n /\ o2 = o + size /\ x + ll + n <= size
      /\ (k = 1 => q[o + 1][2] = w) /\ q[o + x + 1][2] = n
      /\ \A i \in 1 .. n : q[o + x + ll + i] = <<"data", f + i>>
  BY ONLY <1>4, <1>6
<1>8. /\ f2 = f + n /\ o2 = o + Abs(Traces[w][k])
      /\ Skip(k) + LenLen + n <= Abs(Traces[w][k])
      /\ (k = 1 => q[o + 1][2] = w) /\ q[o + Skip(k) + 1][2] = n
      /\ \A i \in 1 .. n : q[o + Skip(k) + LenLen + i] = <<"data", f + i>>
  BY ONLY <1>7, <1>1, <1>2, <1>3
<1> QED
  BY ONLY <1>8, n \in Nat DEF Sent

\* The receiver of a link in which nothing is under way moves.
LEMMA LinkReceiverMoves ==
    ASSUME NEW w, NEW s, NEW b \in Nat, NEW n, NEW a \in Nat, NEW g, NEW B, NEW W,
           Link(w, s, b, n, a, g, B, W), b <= a
    PROVE  Link(w, s, b, n, a + 1, g, B, W)
<1>1. PICK st, N, off, base :
        /\ Stream(w, s, b, n, st, N, off, base)
        /\ g = Data(0, base[a])
        /\ Flight(B, W, st, N, off[a])
        /\ \A k \in Nat : a <= k /\ k < b => Owner(w, k, s)
  BY DEF Link
<1>2. a >= b /\ a + 1 >= b /\ a + 1 \in Nat
  OBVIOUS
<1>3. off[a] = N /\ base[a] = n /\ off[a + 1] = N /\ base[a + 1] = n
  BY <1>1, <1>2 DEF Stream
<1>4. \A k \in Nat : ~(a + 1 <= k /\ k < b)
  OBVIOUS
<1>5. g = Data(0, base[a + 1]) /\ Flight(B, W, st, N, off[a + 1])
  BY ONLY <1>1, <1>3
<1> QED
  BY ONLY <1>1, <1>4, <1>5 DEF Link

\* The sender of a link passes packets that are not its own.
LEMMA LinkSenderMoves ==
    ASSUME NEW w, NEW s, NEW b \in Nat, NEW n, NEW a \in Nat, NEW g, NEW B, NEW W,
           Link(w, s, b, n, a, g, B, W), NEW c \in Nat, b <= c, c <= a,
           \A k \in Nat : b <= k /\ k < c => ~Owner(w, k, s)
    PROVE  Link(w, s, c, n, a, g, B, W)
<1>1. PICK st, N, off, base :
        /\ Stream(w, s, b, n, st, N, off, base)
        /\ g = Data(0, base[a])
        /\ Flight(B, W, st, N, off[a])
        /\ \A k \in Nat : a <= k /\ k < b => Owner(w, k, s)
  BY DEF Link
<1>2. \A k \in Nat : ~(a <= k /\ k < c)
  OBVIOUS
<1>3. \A k \in Nat : k >= c => k >= b
  OBVIOUS
<1>4. \A k \in Nat : 1 <= k /\ k < c /\ Owner(w, k, s) => k < b
  OBVIOUS
<1>5. Stream(w, s, c, n, st, N, off, base)
  BY <1>1, <1>3, <1>4 DEF Stream
<1> QED
  BY ONLY <1>1, <1>2, <1>5 DEF Link

\* A packet P of m bytes of data.
Made(w, k, m, n, P) ==
    /\ P \in Seq(Sym) /\ Len(P) = Abs(Traces[w][k])
    /\ Skip(k) + LenLen + m <= Abs(Traces[w][k])
    /\ k = 1 => P[1][2] = w
    /\ P[Skip(k) + 1][2] = m
    /\ \A i \in 1 .. m : P[Skip(k) + LenLen + i] = <<"data", n + i>>

\* The packet at the end of the stream.
LEMMA MadeSent ==
    ASSUME NEW w, NEW k, NEW m \in Nat, NEW n \in Nat, NEW P, Made(w, k, m, n, P),
           NEW N \in Nat, NEW q, \A i \in 1 .. Len(P) : q[N + i] = P[i]
    PROVE  Sent(w, k, q, N, n, N + Len(P), n + m)
<1>1. PICK ll \in Nat : ll = LenLen /\ ll > 0
  BY ONLY EmbedAssumption
<1>2. PICK x \in Nat : x = Skip(k)
  BY ONLY SkipNat
<1>3. PICK size \in Nat : size = Abs(Traces[w][k]) /\ size = Len(P)
  BY DEF Made
<1>4. /\ x + ll + m <= size /\ (k = 1 => P[1][2] = w) /\ P[x + 1][2] = m
      /\ \A i \in 1 .. m : P[x + ll + i] = <<"data", n + i>>
  BY <1>1, <1>2, <1>3 DEF Made
<1>5. 1 \in 1 .. size /\ x + 1 \in 1 .. size /\ \A i \in 1 .. m : x + ll + i \in 1 .. size
  BY <1>1, <1>4
<1>6. \A i \in 1 .. size : q[N + i] = P[i]
  BY ONLY <1>3, \A i \in 1 .. Len(P) : q[N + i] = P[i]
<1>7. q[N + 1] = P[1] /\ q[N + (x + 1)] = P[x + 1]
      /\ \A i \in 1 .. m : q[N + (x + ll + i)] = P[x + ll + i]
  BY ONLY <1>5, <1>6
<1>8. N + (x + 1) = N + x + 1 /\ \A i \in 1 .. m : N + (x + ll + i) = N + x + ll + i
  OBVIOUS
<1>9. /\ (k = 1 => q[N + 1][2] = w) /\ q[N + x + 1][2] = m
      /\ \A i \in 1 .. m : q[N + x + ll + i] = <<"data", n + i>>
  BY ONLY <1>4, <1>7, <1>8
<1>10. /\ n + m = n + m /\ N + Len(P) = N + Abs(Traces[w][k])
       /\ Skip(k) + LenLen + m <= Abs(Traces[w][k])
       /\ (k = 1 => q[N + 1][2] = w) /\ q[N + Skip(k) + 1][2] = m
       /\ \A i \in 1 .. m : q[N + Skip(k) + LenLen + i] = <<"data", n + i>>
  BY ONLY <1>9, <1>1, <1>2, <1>3, <1>4
<1> QED
  BY ONLY <1>10, m \in Nat DEF Sent

\* The sender puts the packet that is due on the wire.
LEMMA LinkSends ==
    ASSUME NEW w \in DOMAIN Traces, NEW s, NEW b \in Nat, NEW n \in Nat, NEW a \in Nat, NEW g,
           NEW B \in Seq(Sym), NEW W \in Seq(Sym), Link(w, s, b, n, a, g, B, W),
           1 <= b, b <= Len(Traces[w]), a <= b, Owner(w, b, s),
           NEW m \in Nat, NEW P, Made(w, b, m, n, P)
    PROVE  Link(w, s, b + 1, n + m, a, g, B, W \o P)
<1>1. PICK st, N, off, base :
        /\ Stream(w, s, b, n, st, N, off, base)
        /\ g = Data(0, base[a])
        /\ Flight(B, W, st, N, off[a])
        /\ \A k \in Nat : a <= k /\ k < b => Owner(w, k, s)
  BY DEF Link
<1>2. N \in Nat /\ off \in [Nat -> Nat] /\ base \in [Nat -> Nat]
  BY <1>1 DEF Stream
<1>3. P \in Seq(Sym)
  BY DEF Made
<1>4. PICK size \in Nat : size = Len(P)
  BY <1>3
<1>5. PICK M \in Nat : M = N + size
  BY <1>2
<1>6. PICK n2 \in Nat : n2 = n + m
  OBVIOUS
<1>7. PICK q : q = [j \in Nat |-> IF j <= N THEN st[j] ELSE P[j - N]]
  OBVIOUS
<1>8. PICK off2 : off2 = [k \in Nat |-> IF k <= b THEN off[k] ELSE M]
  OBVIOUS
<1>9. PICK base2 : base2 = [k \in Nat |-> IF k <= b THEN base[k] ELSE n2]
  OBVIOUS
<1>10. \A j \in 1 .. N : q[j] = st[j]
  BY <1>2, <1>7
<1>11. \A i \in 1 .. size : q[N + i] = P[i]
  <2>1. ASSUME NEW i \in 1 .. size PROVE q[N + i] = P[i]
    <3>1. N + i \in Nat /\ ~(N + i <= N) /\ (N + i) - N = i
      BY <1>2
    <3> QED
      BY <3>1, <1>7
  <2> QED
    BY <2>1
<1>12. off2 \in [Nat -> Nat] /\ base2 \in [Nat -> Nat]
  BY <1>2, <1>8, <1>9
<1>13. ASSUME NEW k \in Nat, k <= b PROVE off2[k] = off[k] /\ base2[k] = base[k]
  BY <1>8, <1>9, <1>13
<1>14. ASSUME NEW k \in Nat, ~(k <= b) PROVE off2[k] = M /\ base2[k] = n2
  BY <1>8, <1>9, <1>14
<1>15. off[b] = N /\ base[b] = n
  <2>1. b >= b
    OBVIOUS
  <2> QED
    BY <2>1, <1>1 DEF Stream
<1>16. ASSUME NEW k \in Nat PROVE off2[k] <= M /\ base2[k] <= n2
  <2>1. CASE k <= b
    <3>1. off[k] \in Nat /\ base[k] \in Nat /\ off[k] <= N /\ base[k] <= n
      BY <1>1, <1>2 DEF Stream
    <3>2. off[k] <= M /\ base[k] <= n2
      <4>1. PICK x \in Nat, y \in Nat : x = off[k] /\ y = base[k]
        BY ONLY <3>1
      <4>2. x <= N /\ y <= n /\ M = N + size /\ n2 = n + m /\ N \in Nat
        BY ONLY <3>1, <4>1, <1>2, <1>5, <1>6
      <4>3. x <= M /\ y <= n2
        BY <4>2
      <4> QED
        BY ONLY <4>1, <4>3
    <3> QED
      BY ONLY <3>2, <1>13, <2>1, k \in Nat
  <2>2. CASE ~(k <= b)
    <3>1. M <= M /\ n2 <= n2
      OBVIOUS
    <3> QED
      BY ONLY <3>1, <1>14, <2>2, k \in Nat
  <2> QED
    BY <2>1, <2>2
<1>17. ASSUME NEW k \in Nat, k >= b + 1 PROVE off2[k] = M /\ base2[k] = n2
  <2>1. ~(k <= b)
    BY <1>17
  <2> QED
    BY ONLY <2>1, <1>14, k \in Nat
<1>18. ASSUME NEW k \in Nat, 1 <= k, k < b + 1, Owner(w, k, s)
       PROVE  Sent(w, k, q, off2[k], base2[k], off2[k + 1], base2[k + 1])
  <2>1. CASE k = b
    <3>1. Sent(w, b, q, N, n, N + Len(P), n + m)
      <4>1. \A i \in 1 .. Len(P) : q[N + i] = P[i]
        BY ONLY <1>4, <1>11
      <4> QED
        BY <4>1, <1>2, MadeSent
    <3>2. N + Len(P) = M /\ n + m = n2
      BY ONLY <1>4, <1>5, <1>6
    <3>3. b + 1 \in Nat /\ ~(b + 1 <= b) /\ b <= b
      OBVIOUS
    <3>4. off2[b] = N /\ base2[b] = n
      BY ONLY <3>3, <1>13, <1>15, b \in Nat
    <3>5. off2[b + 1] = M /\ base2[b + 1] = n2
      BY ONLY <3>3, <1>14
    <3> QED
      BY ONLY <2>1, <3>1, <3>2, <3>4, <3>5
  <2>2. CASE k # b
    <3>1. k < b /\ k <= b /\ k + 1 <= b /\ k + 1 \in Nat
      BY <2>2, <1>18
    <3>2. Sent(w, k, st, off[k], base[k], off[k + 1], base[k + 1])
      BY <3>1, <1>1, <1>18 DEF Stream
    <3>3. off[k] \in Nat /\ off[k + 1] \in Nat /\ off[k + 1] <= N
      BY <3>1, <1>1, <1>2 DEF Stream
    <3>4. Abs(Traces[w][k]) \in Nat
      <4>1. k \in 1 .. Len(Traces[w])
        <5>1. Len(Traces[w]) \in Nat
          BY TraceFacts
        <5> QED
          BY <5>1, <3>1, <1>18
      <4> QED
        BY ONLY <4>1, w \in DOMAIN Traces, TraceFacts
    <3>5. Sent(w, k, q, off[k], base[k], off[k + 1], base[k + 1])
      BY ONLY <3>2, <3>3, <3>4, <1>2, <1>10, SentGrows
    <3>6. off2[k] = off[k] /\ base2[k] = base[k] /\ off2[k + 1] = off[k + 1] /\ base2[k + 1] = base[k + 1]
      BY ONLY <3>1, <1>13, k \in Nat
    <3> QED
      BY ONLY <3>5, <3>6
  <2> QED
    BY <2>1, <2>2
<1>19. Stream(w, s, b + 1, n2, q, M, off2, base2)
  BY ONLY M \in Nat, <1>12, <1>16, <1>17, <1>18 DEF Stream
<1>20. off2[a] = off[a] /\ base2[a] = base[a] /\ off[a] \in Nat
  BY <1>2, <1>13
<1>21. Flight(B, W \o P, q, M, off2[a])
  <2>1. Flight(B, W, st, N, off2[a]) /\ off2[a] \in Nat
    BY ONLY <1>1, <1>20
  <2>2. M = N + Len(P) /\ \A i \in 1 .. Len(P) : q[N + i] = P[i]
    BY ONLY <1>4, <1>5, <1>11
  <2> QED
    BY <2>1, <2>2, <1>2, <1>3, <1>10, FlightGrows
<1>22. ASSUME NEW k \in Nat, a <= k, k < b + 1 PROVE Owner(w, k, s)
  <2>1. k = b \/ k < b
    BY <1>22
  <2> QED
    BY <2>1, <1>1, <1>22
<1>23. g = Data(0, base2[a])
  BY ONLY <1>1, <1>20
<1>24. Link(w, s, b + 1, n2, a, g, B, W \o P)
  BY ONLY <1>19, <1>21, <1>22, <1>23 DEF Link
<1> QED
  BY ONLY <1>6, <1>24

\* What receive() leaves: the receiver at packet c, on the same link.
Landed(w, s, b, n, a, g, R, p) ==
    \E c \in Nat, ce \in BOOLEAN, src \in Seq(Sym), d \in Seq(Sym), sl \in Int :
        /\ p = PRec(ERec(w, c, ce, "open"), src, sl, Skip(c), d, 0)
        /\ Counted(sl, src, Skip(c))
        /\ a <= c /\ c <= b
        /\ ce <=> c = Len(Traces[w]) + 1
        /\ c > 1 => Link(w, s, b, n, c, g \o d, src, R)
        /\ \A k \in Nat : a <= k /\ k < c => Owner(w, k, s)

LEMMA LoopLands ==
    ASSUME NEW w, NEW s, NEW a, NEW b, NEW n, NEW R \in Seq(Sym), NEW st, NEW N, NEW off, NEW base,
           NEW g \in Seq(Sym), NEW p, Behind(w, s, a, b, n, st, N, off, base),
           LoopState(w, a, b, R, st, N, off, base, g, p)
    PROVE  Landed(w, s, b, n, a, g, R, ReceiveLoop(p))
<1>1. LoopState(w, a, b, R, st, N, off, base, g, ReceiveLoop(p))
  BY LoopKeeps
<1>2. PICK z : z = ReceiveLoop(p)
  OBVIOUS
<1>3. LoopState(w, a, b, R, st, N, off, base, g, z)
  BY ONLY <1>1, <1>2
<1>4. PICK c \in Nat, ce \in BOOLEAN, src \in Seq(Sym), d \in Seq(Sym), sl \in Int :
        /\ z = PRec(ERec(w, c, ce, "open"), src, sl, Skip(c), d, 0)
        /\ Counted(sl, src, Skip(c))
        /\ a <= c /\ c <= b
        /\ ce <=> c = Len(Traces[w]) + 1
        /\ Flight(src, R, st, N, off[c] + Skip(c))
        /\ g \o d = Data(0, base[c])
  BY ONLY <1>3 DEF LoopState
<1>5. a \in Nat /\ b \in Nat /\ Stream(w, s, b, n, st, N, off, base)
      /\ (\A k \in Nat : a <= k /\ k < b => Owner(w, k, s))
  BY DEF Behind
<1>6. a <= c /\ c <= b
  BY ONLY <1>4
<1>7. (\A k \in Nat : c <= k /\ k < b => Owner(w, k, s))
      /\ (\A k \in Nat : a <= k /\ k < c => Owner(w, k, s))
  <2>1. ASSUME NEW k \in Nat, c <= k, k < b PROVE Owner(w, k, s)
    <3>1. a <= k
      BY <2>1, <1>5, <1>6
    <3> QED
      BY <3>1, <2>1, <1>5
  <2>2. ASSUME NEW k \in Nat, a <= k, k < c PROVE Owner(w, k, s)
    <3>1. k < b
      BY <2>2, <1>5, <1>6
    <3> QED
      BY <3>1, <2>2, <1>5
  <2> QED
    BY <2>1, <2>2
<1>8. ASSUME c > 1 PROVE Link(w, s, b, n, c, g \o d, src, R)
  <2>1. Skip(c) = 0 /\ off[c] \in Nat
    <3>1. Skip(c) = 0
      <4>1. c # 1
        BY <1>8
      <4> QED
        BY ONLY <4>1 DEF Skip
    <3>2. off[c] \in Nat
      BY <1>5 DEF Stream
    <3> QED
      BY ONLY <3>1, <3>2
  <2>2. off[c] + Skip(c) = off[c]
    BY <2>1
  <2>3. Flight(src, R, st, N, off[c]) /\ g \o d = Data(0, base[c])
    BY ONLY <2>2, <1>4
  <2> QED
    BY ONLY <2>3, <1>5, <1>7 DEF Link
<1>9. Landed(w, s, b, n, a, g, R, z)
  BY ONLY <1>4, <1>6, <1>7, <1>8, Zenon, c \in Nat, ce \in BOOLEAN, src \in Seq(Sym), d \in Seq(Sym),
          sl \in Int
  DEF Landed
<1> QED
  BY ONLY <1>2, <1>9

LEMMA ShortCounts ==
    ASSUME NEW l \in Nat
    PROVE  AsShort(l) \in Int /\ AsShort(l) <= l
BY EmbedAssumption DEF AsShort

\* The records that receive() begins its loop with.
LEMMA ReceivedAgain ==
    ASSUME NEW r, NEW source, end[r].cur_idx # 0
    PROVE  Received(r, source) = ReceiveLoop(PRec(end[r], source, AsShort(Len(source)), 0, <<>>, 0))
BY Zenon DEF Received, PRec

LEMMA ReceivedShort ==
    ASSUME NEW r, NEW source, end[r].cur_idx = 0, Len(source) < IdxLen
    PROVE  Received(r, source).e = end[r]
<1>1. PICK p : p = PRec(end[r], source, AsShort(Len(source)), 0, <<>>, 0)
  OBVIOUS
<1>2. Received(r, source) = [p EXCEPT !.ret = -1]
  BY <1>1, Zenon DEF Received, PRec
<1>3. [p EXCEPT !.ret = -1].e = p.e
  BY <1>1 DEF PRec
<1> QED
  BY <1>1, <1>2, <1>3, PRecFields

Named(p, i, one, src, pk) ==
    [p EXCEPT !.e.cur_idx = i, !.e.cur_pkt = one, !.source = src, !.pkt_size = pk]

LEMMA NamedRec ==
    ASSUME NEW i0, NEW c0, NEW ce, NEW z, NEW src0, NEW sl, NEW pk0, NEW d, NEW r,
           NEW i, NEW one, NEW src, NEW pk
    PROVE  Named(PRec(ERec(i0, c0, ce, z), src0, sl, pk0, d, r), i, one, src, pk)
             = PRec(ERec(i, one, ce, z), src, sl, pk, d, r)
<1>1. PICK e0, e1, e2 : e0 = ERec(i0, c0, ce, z) /\ e1 = ERec(i, c0, ce, z) /\ e2 = ERec(i, one, ce, z)
  OBVIOUS
<1>2. PICK p0, p1, p2, p3 :
         /\ p0 = PRec(e0, src0, sl, pk0, d, r) /\ p1 = PRec(e1, src0, sl, pk0, d, r)
         /\ p2 = PRec(e2, src0, sl, pk0, d, r) /\ p3 = PRec(e2, src, sl, pk0, d, r)
  OBVIOUS
<1>3. [e0 EXCEPT !.cur_idx = i] = e1 /\ [e1 EXCEPT !.cur_pkt = one] = e2
  BY <1>1 DEF ERec
<1>4. [p0 EXCEPT !.e.cur_idx = i] = p1
  <2>1. [p0 EXCEPT !.e.cur_idx = i] = PRec([e0 EXCEPT !.cur_idx = i], src0, sl, pk0, d, r)
    BY <1>2 DEF PRec
  <2> QED
    BY ONLY <2>1, <1>2, <1>3
<1>5. [p1 EXCEPT !.e.cur_pkt = one] = p2
  <2>1. [p1 EXCEPT !.e.cur_pkt = one] = PRec([e1 EXCEPT !.cur_pkt = one], src0, sl, pk0, d, r)
    BY <1>2 DEF PRec
  <2> QED
    BY ONLY <2>1, <1>2, <1>3
<1>6. [p2 EXCEPT !.source = src] = p3
  BY <1>2 DEF PRec
<1>7. [p3 EXCEPT !.pkt_size = pk] = PRec(e2, src, sl, pk, d, r)
  BY <1>2 DEF PRec
<1>8. [p0 EXCEPT !.e.cur_idx = i, !.e.cur_pkt = one, !.source = src, !.pkt_size = pk]
      = [[[[p0 EXCEPT !.e.cur_idx = i] EXCEPT !.e.cur_pkt = one] EXCEPT !.source = src]
          EXCEPT !.pkt_size = pk]
  OBVIOUS
<1> QED
  BY <1>1, <1>2, <1>4, <1>5, <1>6, <1>7, <1>8, ZenonT(60) DEF Named

LEMMA ReceivedFirst ==
    ASSUME NEW r, NEW source, NEW ce, NEW i, NEW sl, end[r] = ERec(0, 1, ce, "open"),
           ~(Len(source) < IdxLen), source[1][2] = i, AsShort(Len(source)) = sl
    PROVE  Received(r, source)
             = ReceiveLoop(PRec(ERec(i, 1, ce, "open"), Rest(source, IdxLen), sl, IdxLen, <<>>, 0))
<1>1. PICK p : p = PRec(end[r], source, AsShort(Len(source)), 0, <<>>, 0)
  OBVIOUS
<1>2. end[r].cur_idx = 0
  BY ERecFields
<1>3. Received(r, source) = ReceiveLoop(Named(p, i, 1, Rest(source, IdxLen), IdxLen))
  BY <1>1, <1>2, Zenon DEF Received, PRec, Named
<1>4. PICK e0, s2 : e0 = ERec(0, 1, ce, "open") /\ s2 = Rest(source, IdxLen)
  OBVIOUS
<1>5. p = PRec(ERec(0, 1, ce, "open"), source, sl, 0, <<>>, 0)
  BY ONLY <1>1, end[r] = ERec(0, 1, ce, "open"), AsShort(Len(source)) = sl
<1>6. Named(p, i, 1, s2, IdxLen) = PRec(ERec(i, 1, ce, "open"), s2, sl, IdxLen, <<>>, 0)
  BY ONLY <1>5, NamedRec
<1> QED
  BY ONLY <1>3, <1>4, <1>6

\* What both arrivals start from.
Arriving(w, s, b, n, a, g, B, W, x) ==
    \E st, N, off, base :
        /\ Behind(w, s, a, b, n, st, N, off, base)
        /\ a < b /\ N \in Nat /\ off[a] \in Nat
        /\ g = Data(0, base[a])
        /\ Flight(B \o SubSeq(W, 1, x), Rest(W, x), st, N, off[a])

LEMMA NoSymbols == <<>> \in Seq(Sym)
OBVIOUS

LEMMA ArrivalStarts ==
    ASSUME NEW w \in DOMAIN Traces, NEW s, NEW b \in Nat, NEW n, NEW a \in Nat,
           NEW g \in Seq(Sym), NEW B \in Seq(Sym), NEW W \in Seq(Sym),
           Link(w, s, b, n, a, g, B, W), 1 <= a, b <= Len(Traces[w]) + 1,
           NEW x \in 1 .. Len(W)
    PROVE  Arriving(w, s, b, n, a, g, B, W, x)
<1>1. PICK st, N, off, base :
        /\ Stream(w, s, b, n, st, N, off, base)
        /\ g = Data(0, base[a])
        /\ Flight(B, W, st, N, off[a])
        /\ \A k \in Nat : a <= k /\ k < b => Owner(w, k, s)
  BY DEF Link
<1>2. N \in Nat /\ off[a] \in Nat
  BY <1>1 DEF Stream
<1>3. a < b
  <2>1. SUFFICES ASSUME a >= b PROVE FALSE
    OBVIOUS
  <2>2. off[a] = N
    BY <2>1, <1>1 DEF Stream
  <2>3. PICK lb \in Nat, lw \in Nat : lb = Len(B) /\ lw = Len(W)
    OBVIOUS
  <2>4. lb + lw + N = N /\ lw >= 1
    <3>1. Len(B) + Len(W) + off[a] = N
      BY <1>1 DEF Flight
    <3>2. x \in 1 .. lw
      BY <2>3
    <3>3. lw >= 1
      BY <3>2
    <3> QED
      BY ONLY <3>1, <3>3, <2>2, <2>3
  <2> QED
    BY <2>4, <1>2
<1>4. x \in 0 .. Len(W)
  OBVIOUS
<1>5. Flight(B \o SubSeq(W, 1, x), Rest(W, x), st, N, off[a])
  BY <1>1, <1>2, <1>4, FlightMoves
<1>6. Behind(w, s, a, b, n, st, N, off, base)
  BY <1>1 DEF Behind
<1> QED
  BY ONLY <1>1, <1>2, <1>3, <1>5, <1>6 DEF Arriving

\* More bytes for a receiver that knows the trace.
LEMMA LaterArrival ==
    ASSUME NEW w \in DOMAIN Traces, NEW s, NEW b \in Nat, NEW n, NEW a \in Nat,
           NEW g \in Seq(Sym), NEW B \in Seq(Sym), NEW W \in Seq(Sym),
           Link(w, s, b, n, a, g, B, W), 1 < a, b <= Len(Traces[w]) + 1,
           NEW x \in 1 .. Len(W), NEW r, NEW ce \in BOOLEAN, ce <=> a = Len(Traces[w]) + 1,
           end[r] = ERec(w, a, ce, "open")
    PROVE  Landed(w, s, b, n, a, g, Rest(W, x), Received(r, B \o SubSeq(W, 1, x)))
<1>1. PICK st, N, off, base :
         /\ Behind(w, s, a, b, n, st, N, off, base)
         /\ a < b /\ N \in Nat /\ off[a] \in Nat
         /\ g = Data(0, base[a])
         /\ Flight(B \o SubSeq(W, 1, x), Rest(W, x), st, N, off[a])
  <2>1. 1 <= a
    OBVIOUS
  <2>2. Arriving(w, s, b, n, a, g, B, W, x)
    BY <2>1, ArrivalStarts
  <2> QED
    BY ONLY <2>2 DEF Arriving
<1>2. PICK src \in Seq(Sym) : src = B \o SubSeq(W, 1, x)
  <2>1. x \in 0 .. Len(W)
    OBVIOUS
  <2> QED
    BY <2>1, HeadFacts, CatFacts
<1>3. PICK R \in Seq(Sym) : R = Rest(W, x)
  <2>1. x \in 0 .. Len(W)
    OBVIOUS
  <2> QED
    BY <2>1, RestFacts
<1>4. PICK d \in Seq(Sym) : d = <<>>
  BY ONLY NoSymbols
<1>5. Skip(a) = 0 /\ off[a] + Skip(a) = off[a]
  <2>1. Skip(a) = 0
    BY DEF Skip
  <2>2. off[a] + 0 = off[a]
    BY <1>1
  <2> QED
    BY ONLY <2>1, <2>2
<1>11. PICK sl \in Int : sl = AsShort(Len(src)) /\ Counted(sl, src, Skip(a))
  <2>1. PICK l \in Nat : l = Len(src)
    OBVIOUS
  <2>2. AsShort(l) \in Int /\ AsShort(l) <= l + 0
    BY ONLY <2>1, ShortCounts
  <2> QED
    BY ONLY <2>1, <2>2, <1>5 DEF Counted
<1>6. PICK p : p = PRec(ERec(w, a, ce, "open"), src, sl, Skip(a), d, 0)
  OBVIOUS
<1>7. Received(r, src) = ReceiveLoop(p)
  <2>1. end[r].cur_idx = w
    BY ERecFields
  <2>2. w # 0
    BY TracesAssumption
  <2>3. Received(r, src) = ReceiveLoop(PRec(end[r], src, AsShort(Len(src)), 0, <<>>, 0))
    BY <2>1, <2>2, ReceivedAgain
  <2> QED
    BY ONLY <2>3, <1>4, <1>5, <1>6, <1>11, end[r] = ERec(w, a, ce, "open")
<1>8. g \o d = Data(0, base[a])
  <2>1. g \o <<>> = g
    OBVIOUS
  <2> QED
    BY ONLY <2>1, <1>1, <1>4
<1>9. LoopState(w, a, b, R, st, N, off, base, g, p)
  <2>1. a <= a /\ a <= b
    BY <1>1
  <2>2. Flight(src, R, st, N, off[a] + Skip(a))
    BY ONLY <1>1, <1>2, <1>3, <1>5
  <2> QED
    BY <2>1, <2>2, <1>6, <1>8, <1>11 DEF LoopState
<1>10. Landed(w, s, b, n, a, g, R, ReceiveLoop(p))
  BY <1>1, <1>9, LoopLands
<1> QED
  BY ONLY <1>2, <1>3, <1>7, <1>10

\* The first bytes, which name the trace.
LEMMA FirstArrival ==
    ASSUME NEW w \in DOMAIN Traces, NEW s, NEW b \in Nat, NEW n,
           NEW g \in Seq(Sym), NEW B \in Seq(Sym), NEW W \in Seq(Sym),
           Link(w, s, b, n, 1, g, B, W), b <= Len(Traces[w]) + 1,
           NEW x \in 1 .. Len(W), NEW r, end[r] = ERec(0, 1, No, "open")
    PROVE  \/ Received(r, B \o SubSeq(W, 1, x)).e.cur_pkt = 1
           \/ Landed(w, s, b, n, 1, g, Rest(W, x), Received(r, B \o SubSeq(W, 1, x)))
<1>1. PICK st, N, off, base :
         /\ Behind(w, s, 1, b, n, st, N, off, base)
         /\ 1 < b /\ N \in Nat /\ off[1] \in Nat
         /\ g = Data(0, base[1])
         /\ Flight(B \o SubSeq(W, 1, x), Rest(W, x), st, N, off[1])
  <2>1. 1 <= 1 /\ 1 \in Nat
    OBVIOUS
  <2>2. Arriving(w, s, b, n, 1, g, B, W, x)
    BY <2>1, ArrivalStarts
  <2> QED
    BY ONLY <2>2 DEF Arriving
<1>2. PICK src \in Seq(Sym) : src = B \o SubSeq(W, 1, x)
  <2>1. x \in 0 .. Len(W)
    OBVIOUS
  <2> QED
    BY <2>1, HeadFacts, CatFacts
<1>3. PICK R \in Seq(Sym) : R = Rest(W, x)
  <2>1. x \in 0 .. Len(W)
    OBVIOUS
  <2> QED
    BY <2>1, RestFacts
<1>4. PICK d \in Seq(Sym) : d = <<>>
  BY ONLY NoSymbols
<1>5. PICK il \in Nat, l \in Nat : il = IdxLen /\ il > 0 /\ l = Len(src)
  <2>1. IdxLen \in Nat /\ IdxLen > 0
    BY ONLY EmbedAssumption
  <2>2. Len(src) \in Nat
    BY ONLY src \in Seq(Sym)
  <2> QED
    BY ONLY <2>1, <2>2
<1>6. end[r].cur_idx = 0 /\ end[r].cur_pkt = 1
  BY ERecFields
<1>7. ASSUME l < il PROVE Received(r, src).e.cur_pkt = 1
  <2>1. Len(src) < IdxLen
    BY ONLY <1>5, <1>7
  <2>2. Received(r, src).e = end[r]
    BY ONLY <2>1, <1>6, ReceivedShort
  <2> QED
    BY ONLY <2>2, <1>6
<1>8. ASSUME ~(l < il) PROVE Landed(w, s, b, n, 1, g, R, Received(r, src))
  <2>1. Flight(src, R, st, N, off[1])
    BY ONLY <1>1, <1>2, <1>3
  <2>2. src[1][2] = w
    <3>1. 1 \in 1 .. l
      BY <1>5, <1>8
    <3>2. src[1] = st[off[1] + 1]
      BY ONLY <3>1, <2>1, <1>5 DEF Flight
    <3>3. Owner(w, 1, s)
      BY <1>1 DEF Behind
    <3>4. Sent(w, 1, st, off[1], base[1], off[1 + 1], base[1 + 1])
      BY <3>3, <1>1 DEF Behind, Stream
    <3>5. st[off[1] + 1][2] = w
      BY ONLY <3>4, Zenon DEF Sent
    <3> QED
      BY ONLY <3>2, <3>5
  <2>3. il \in 0 .. Len(src)
    <3>1. il \in 0 .. l
      BY <1>5, <1>8
    <3> QED
      BY ONLY <3>1, <1>5
  <2>4. PICK src2 \in Seq(Sym) : src2 = Rest(src, il) /\ Len(src2) = Len(src) - il
    BY <2>3, RestFacts
  <2>5. Flight(src2, R, st, N, off[1] + il)
    BY <2>1, <2>3, <2>4, <1>1, FlightDrops
  <2>6. Skip(1) = il /\ Len(src2) + Skip(1) = l
    <3>1. Skip(1) = il
      BY <1>5 DEF Skip
    <3>3. Len(src2) \in Nat /\ Len(src2) = l - il
      <4>1. Len(src2) \in Nat
        BY ONLY src2 \in Seq(Sym)
      <4> QED
        BY ONLY <4>1, <2>4, <1>5
    <3>2. PICK y \in Nat : y = Len(src2) /\ y = l - il
      BY ONLY <3>3
    <3> QED
      BY <3>1, <3>2
  <2>13. PICK sl \in Int : sl = AsShort(Len(src)) /\ Counted(sl, src2, Skip(1))
    <3>1. AsShort(l) \in Int /\ AsShort(l) <= l
      BY ShortCounts
    <3> QED
      BY ONLY <3>1, <2>6, <1>5 DEF Counted
  <2>7. PICK p : p = PRec(ERec(w, 1, No, "open"), src2, sl, Skip(1), d, 0)
    OBVIOUS
  <2>8. Received(r, src) = ReceiveLoop(p)
    <3>1. ~(Len(src) < IdxLen) /\ AsShort(Len(src)) = sl
      BY ONLY <1>5, <1>8, <2>13
    <3>2. Received(r, src)
            = ReceiveLoop(PRec(ERec(w, 1, No, "open"), Rest(src, IdxLen), sl, IdxLen, <<>>, 0))
      BY ONLY <3>1, <2>2, end[r] = ERec(0, 1, No, "open"), ReceivedFirst
    <3> QED
      BY ONLY <3>2, <2>4, <2>6, <2>7, <1>4, <1>5
  <2>9. g \o d = Data(0, base[1])
    <3>1. g \o <<>> = g
      OBVIOUS
    <3> QED
      BY ONLY <3>1, <1>1, <1>4
  <2>10. No \in BOOLEAN /\ (No <=> 1 = Len(Traces[w]) + 1)
    <3>1. PICK T \in Nat : T = Len(Traces[w])
      BY TraceFacts
    <3>2. b <= T + 1 /\ 1 < b
      BY <3>1, <1>1
    <3>3. ~(1 = T + 1)
      BY <3>2
    <3> QED
      BY ONLY <3>1, <3>3 DEF No
  <2>11. LoopState(w, 1, b, R, st, N, off, base, g, p)
    <3>1. 1 \in Nat /\ 1 <= 1 /\ 1 <= b
      BY <1>1
    <3>2. Flight(src2, R, st, N, off[1] + Skip(1))
      BY ONLY <2>5, <2>6
    <3> QED
      BY <3>1, <3>2, <2>7, <2>9, <2>10, <2>13 DEF LoopState
  <2>12. Landed(w, s, b, n, 1, g, R, ReceiveLoop(p))
    BY <2>11, <1>1, LoopLands
  <2> QED
    BY ONLY <2>8, <2>12
<1> QED
  BY ONLY <1>2, <1>3, <1>7, <1>8

-----------------------------------------------------------------------------
(* The invariant.                                                          *)

EndRecs == [cur_idx : Int, cur_pkt : Nat, ceased : BOOLEAN, st : {"open"}]

\* An end is at a packet of trace w, or past the last; past the first, it
\* knows the trace, and the client sent the first.
Place(w, e) ==
    /\ 1 <= e.cur_pkt /\ e.cur_pkt <= Len(Traces[w]) + 1
    /\ e.cur_pkt > 1 => e.cur_idx = w /\ Owner(w, 1, "client")
    /\ Len(Traces[w]) > 0 => (e.ceased <=> e.cur_pkt = Len(Traces[w]) + 1)

LinkFrom(w, s) ==
    Link(w, s, end[s].cur_pkt, sent[s], end[Peer(s)].cur_pkt, got[Peer(s)], buf[Peer(s)], wire[s])

Typed ==
    /\ end \in [Sides -> EndRecs] /\ sent \in [Sides -> Nat]
    /\ wire \in [Sides -> Seq(Sym)] /\ buf \in [Sides -> Seq(Sym)] /\ got \in [Sides -> Seq(Sym)]

\* The client picked trace w; the server learns it with the first packet.
Good(w) ==
    /\ w \in DOMAIN Traces /\ Typed
    /\ \A s \in Sides : Place(w, end[s])
    /\ end["client"].cur_idx = w
    /\ end["server"].cur_pkt = 1 => end["server"].cur_idx = 0 /\ buf["server"] = <<>>
    /\ \A s \in Sides : LinkFrom(w, s)

EmbedInv == spoilt \in BOOLEAN /\ (~spoilt => \E w : Good(w))

LEMMA SidesFacts ==
    ASSUME NEW s \in Sides
    PROVE  /\ Peer(s) \in Sides /\ Peer(s) # s /\ Peer(Peer(s)) = s
           /\ \A z \in Sides : z = s \/ z = Peer(s)
           /\ (s = "client") # (Peer(s) = "client")
BY DEF Sides, Peer

LEMMA OneOwner ==
    ASSUME NEW w, NEW k, NEW s \in Sides
    PROVE  Owner(w, k, s) <=> ~Owner(w, k, Peer(s))
<1>1. CASE s = "client"
  BY <1>1 DEF Owner, Peer
<1>2. CASE s = "server"
  BY <1>2 DEF Owner, Peer
<1> QED
  BY <1>1, <1>2 DEF Sides

LEMMA EndIsRec ==
    ASSUME NEW e \in EndRecs
    PROVE  /\ e = ERec(e.cur_idx, e.cur_pkt, e.ceased, "open")
           /\ e.cur_idx \in Int /\ e.cur_pkt \in Nat /\ e.ceased \in BOOLEAN /\ e.st = "open"
<1>1. e.st = "open"
  BY DEF EndRecs
<1> QED
  BY <1>1 DEF EndRecs, ERec

LEMMA RecIsEnd ==
    ASSUME NEW i \in Int, NEW c \in Nat, NEW ce \in BOOLEAN
    PROVE  ERec(i, c, ce, "open") \in EndRecs
BY DEF EndRecs, ERec

LEMMA EmptyLink ==
    ASSUME NEW w, NEW s
    PROVE  Link(w, s, 1, 0, 1, <<>>, <<>>, <<>>)
<1>1. PICK z : z = [k \in Nat |-> 0]
  OBVIOUS
<1>2. z \in [Nat -> Nat] /\ \A k \in Nat : z[k] = 0
  BY <1>1
<1>3. Stream(w, s, 1, 0, z, 0, z, z)
  <2>1. \A k \in Nat : ~(1 <= k /\ k < 1)
    OBVIOUS
  <2>2. 0 \in Nat /\ 0 <= 0
    OBVIOUS
  <2> QED
    BY <2>1, <2>2, <1>2 DEF Stream
<1>4. z[1] = 0
  BY <1>2
<1>5. Data(0, 0) = <<>>
  BY DEF Data
<1>6. Flight(<<>>, <<>>, z, 0, 0)
  BY DEF Flight
<1>7. \A k \in Nat : ~(1 <= k /\ k < 1)
  OBVIOUS
<1>8. <<>> = Data(0, z[1]) /\ Flight(<<>>, <<>>, z, 0, z[1])
  BY ONLY <1>4, <1>5, <1>6
<1> QED
  BY ONLY <1>3, <1>7, <1>8 DEF Link

LEMMA EmbedInit == Init => EmbedInv
<1>1. SUFFICES ASSUME Init PROVE EmbedInv
  OBVIOUS
<1>2. PICK w \in DOMAIN Traces :
         end = [s \in Sides |-> [cur_idx |-> IF s = "client" THEN w ELSE 0,
                                 cur_pkt |-> 1, ceased |-> FALSE, st |-> "open"]]
  BY <1>1 DEF Init
<1>3. ASSUME NEW s \in Sides
      PROVE  /\ wire[s] = <<>> /\ buf[s] = <<>> /\ sent[s] = 0 /\ got[s] = <<>>
             /\ end[s].cur_pkt = 1 /\ ~end[s].ceased
  BY <1>1, <1>2 DEF Init
<1>4. end["client"].cur_idx = w /\ end["server"].cur_idx = 0
  BY <1>2 DEF Sides
<1>5. w \in Int
  BY TracesAssumption
<1>6. Typed
  <2>1. end \in [Sides -> EndRecs]
    BY <1>2, <1>5 DEF EndRecs
  <2>2. sent \in [Sides -> Nat]
    BY <1>1 DEF Init
  <2>3. wire \in [Sides -> Seq(Sym)] /\ buf \in [Sides -> Seq(Sym)] /\ got \in [Sides -> Seq(Sym)]
    BY <1>1, NoSymbols DEF Init
  <2> QED
    BY ONLY <2>1, <2>2, <2>3 DEF Typed
<1>7. ASSUME NEW s \in Sides PROVE Place(w, end[s])
  <2>1. PICK T \in Nat : T = Len(Traces[w])
    BY TraceFacts
  <2>2. 1 <= 1 /\ 1 <= T + 1 /\ ~(1 > 1) /\ (T > 0 => ~(1 = T + 1))
    OBVIOUS
  <2> QED
    BY ONLY <2>1, <2>2, <1>3, s \in Sides DEF Place
<1>8. ASSUME NEW s \in Sides PROVE LinkFrom(w, s)
  <2>1. Peer(s) \in Sides
    BY SidesFacts
  <2> QED
    BY ONLY <2>1, <1>3, EmptyLink, s \in Sides DEF LinkFrom
<1>9. Good(w)
  <2>1. "server" \in Sides
    BY DEF Sides
  <2> QED
    BY <2>1, <1>3, <1>4, <1>6, <1>7, <1>8 DEF Good
<1>10. spoilt = FALSE
  BY <1>1 DEF Init
<1> QED
  BY ONLY <1>9, <1>10 DEF EmbedInv

LEMMA EmbedGood == EmbedInv => DataIntact
<1>1. SUFFICES ASSUME EmbedInv, ~spoilt PROVE
         \A s \in Sides : /\ end[s].st = "open"
                          /\ got[s] = Data(0, Len(got[s])) /\ Len(got[s]) <= sent[Peer(s)]
  BY DEF DataIntact
<1>2. PICK w : Good(w)
  BY <1>1 DEF EmbedInv
<1>3. SUFFICES ASSUME NEW s \in Sides PROVE
         end[s].st = "open" /\ got[s] = Data(0, Len(got[s])) /\ Len(got[s]) <= sent[Peer(s)]
  OBVIOUS
<1>4. end[s].st = "open" /\ end[s].cur_pkt \in Nat
  BY <1>2 DEF Good, Typed, EndRecs
<1>5. PICK r \in Sides : r = Peer(s) /\ Peer(r) = s
  BY SidesFacts
<1>6. LinkFrom(w, r)
  BY <1>2 DEF Good
<1>7. PICK st, N, off, base :
        /\ Stream(w, r, end[r].cur_pkt, sent[r], st, N, off, base)
        /\ got[s] = Data(0, base[end[s].cur_pkt])
  BY ONLY <1>5, <1>6 DEF LinkFrom, Link
<1>8. PICK m \in Nat : m = base[end[s].cur_pkt] /\ m <= sent[r]
  BY <1>4, <1>7 DEF Stream
<1>9. Len(Data(0, m)) = m
  BY DataZero
<1>10. got[s] = Data(0, Len(got[s])) /\ Len(got[s]) <= sent[Peer(s)]
  BY ONLY <1>5, <1>7, <1>8, <1>9
<1> QED
  BY <1>4, <1>10

-----------------------------------------------------------------------------
(* Transmit.                                                               *)

\* The end that sends is at a packet of trace w, and the other is not past it.
LEMMA SenderPlace ==
    ASSUME NEW w, NEW s \in Sides, Good(w), Transmit(s)
    PROVE  /\ end[s].cur_idx = w /\ end[s].cur_pkt <= Len(Traces[w])
           /\ Owner(w, end[s].cur_pkt, s) /\ Owner(w, 1, "client")
           /\ end[Peer(s)].cur_pkt <= end[s].cur_pkt
           /\ end[s].ceased = No
<1>1. end[s] \in EndRecs /\ end[Peer(s)] \in EndRecs /\ Peer(s) \in Sides /\ Peer(Peer(s)) = s
  BY SidesFacts DEF Good, Typed
<1>2. PICK b \in Nat, a \in Nat : b = end[s].cur_pkt /\ a = end[Peer(s)].cur_pkt
  BY <1>1, EndIsRec
<1>3. Place(w, end[s])
  BY DEF Good
<1>4. end[s].cur_idx # 0 /\ ~(b > Len(Trace(end[s]))) /\ is_outgoing(s, end[s])
  BY <1>2 DEF Transmit, is_finished
<1>5. PICK T \in Nat : T = Len(Traces[w])
  BY TraceFacts DEF Good
<1>6. end[s].cur_idx = w /\ (s = "client" \/ b > 1)
  <2>1. CASE s = "client"
    BY <2>1 DEF Good
  <2>2. CASE s = "server"
    <3>1. b # 1
      BY <2>2, <1>2, <1>4 DEF Good
    <3>2. 1 <= b
      BY <1>2, <1>3 DEF Place
    <3>3. b > 1
      BY <3>1, <3>2
    <3> QED
      BY ONLY <3>3, <1>2, <1>3 DEF Place
  <2> QED
    BY ONLY <2>1, <2>2, s \in Sides DEF Sides
<1>7. Trace(end[s]) = Traces[w]
  BY ONLY <1>6 DEF Trace
<1>8. b <= T
  <2>1. ~(b > T)
    BY ONLY <1>4, <1>5, <1>7
  <2> QED
    BY <2>1
<1>9. Owner(w, b, s)
  BY ONLY <1>2, <1>4, <1>7 DEF is_outgoing, Owner
<1>10. Owner(w, 1, "client")
  <2>1. CASE b > 1
    BY ONLY <2>1, <1>2, <1>3 DEF Place
  <2>2. CASE ~(b > 1)
    <3>1. 1 <= b
      BY <1>2, <1>3 DEF Place
    <3>2. b = 1
      BY <2>2, <3>1
    <3> QED
      BY ONLY <3>2, <2>2, <1>6, <1>9
  <2> QED
    BY <2>1, <2>2
<1>11. a <= b
  <2>1. SUFFICES ASSUME b < a PROVE FALSE
    OBVIOUS
  <2>2. PICK r \in Sides : r = Peer(s) /\ Peer(r) = s
    BY <1>1
  <2>3. LinkFrom(w, r)
    BY DEF Good
  <2>4. \A k \in Nat : b <= k /\ k < a => Owner(w, k, r)
    BY ONLY <2>2, <2>3, <1>2 DEF LinkFrom, Link
  <2>5. b <= b
    OBVIOUS
  <2>6. Owner(w, b, r)
    BY <2>1, <2>4, <2>5
  <2> QED
    BY ONLY <2>2, <2>6, <1>9, OneOwner, s \in Sides
<1>12. end[s].ceased = No
  <2>1. T > 0 /\ ~(b = T + 1)
    <3>1. 1 <= b
      BY <1>2, <1>3 DEF Place
    <3> QED
      BY <3>1, <1>8
  <2>2. ~end[s].ceased
    BY ONLY <2>1, <1>2, <1>3, <1>5 DEF Place
  <2>3. end[s].ceased \in BOOLEAN
    BY <1>1, EndIsRec
  <2> QED
    BY ONLY <2>2, <2>3 DEF No
<1> QED
  BY ONLY <1>2, <1>5, <1>6, <1>8, <1>9, <1>10, <1>11, <1>12

LEMMA SendsMade ==
    ASSUME NEW w, NEW s \in Sides, Good(w), Transmit(s), NEW n \in Nat,
           ~(Len(Packet(s, end[s], n)) > get_pkt_size(end[s]))
    PROVE  Made(w, end[s].cur_pkt, n, sent[s], Packet(s, end[s], n))
<1>1. end[s].cur_idx = w /\ end[s].cur_pkt <= Len(Traces[w])
  BY SenderPlace
<1>2. PICK b \in Nat : b = end[s].cur_pkt
  BY EndIsRec DEF Good, Typed
<1>3. 1 <= b
  BY <1>2 DEF Good, Place
<1>4. get_pkt_size(end[s]) = Abs(Traces[w][b])
  BY ONLY <1>1, <1>2 DEF get_pkt_size, Trace
<1>5. PICK size \in Nat : size = Abs(Traces[w][b])
  <2>1. PICK T \in Nat : T = Len(Traces[w]) /\ w \in DOMAIN Traces
    BY TraceFacts DEF Good
  <2>2. b \in 1 .. T
    BY <2>1, <1>1, <1>2, <1>3
  <2> QED
    BY ONLY <2>1, <2>2, TraceFacts
<1>6. sent[s] \in Nat /\ w \in Int
  BY TracesAssumption DEF Good, Typed
<1>7. PICK P : P = Packet(s, end[s], n)
  OBVIOUS
<1>8. /\ P \in Seq(Sym)
      /\ Len(P) = size
      /\ Skip(b) + LenLen + n <= size
      /\ b = 1 => P[1] = <<"idx", w>>
      /\ P[Skip(b) + 1] = <<"len", n>>
      /\ \A i \in 1 .. n : P[Skip(b) + LenLen + i] = <<"data", sent[s] + i>>
  <2>1. /\ Packet(s, end[s], n) \in Seq(Sym)
        /\ Len(Packet(s, end[s], n)) = size
        /\ Skip(end[s].cur_pkt) + LenLen + n <= size
        /\ end[s].cur_pkt = 1 => Packet(s, end[s], n)[1] = <<"idx", end[s].cur_idx>>
        /\ Packet(s, end[s], n)[Skip(end[s].cur_pkt) + 1] = <<"len", n>>
        /\ \A i \in 1 .. n :
              Packet(s, end[s], n)[Skip(end[s].cur_pkt) + LenLen + i] = <<"data", sent[s] + i>>
    <3>1. size = get_pkt_size(end[s]) /\ ~(Len(Packet(s, end[s], n)) > size) /\ end[s].cur_idx \in Int
      BY ONLY <1>1, <1>4, <1>5, <1>6, ~(Len(Packet(s, end[s], n)) > get_pkt_size(end[s]))
    <3>2. PacketIs(s, end[s], n, size)
      BY ONLY <3>1, <1>6, size \in Nat, n \in Nat, PacketFacts
    <3> QED
      BY ONLY <3>2 DEF PacketIs
  <2> QED
    BY ONLY <2>1, <1>1, <1>2, <1>7
<1>9. Made(w, b, n, sent[s], P)
  <2>1. (b = 1 => P[1][2] = w) /\ P[Skip(b) + 1][2] = n
    BY ONLY <1>8
  <2> QED
    BY ONLY <2>1, <1>5, <1>8 DEF Made
<1> QED
  BY ONLY <1>2, <1>7, <1>9

LEMMA TransmitGood ==
    ASSUME NEW w, NEW s \in Sides, Good(w), Transmit(s), spoilt \in BOOLEAN, ~spoilt'
    PROVE  Good(w)'
<1>1. PICK r \in Sides : r = Peer(s) /\ r # s /\ Peer(r) = s /\ \A z \in Sides : z = s \/ z = r
  BY SidesFacts
<1>2. PICK b \in Nat, a \in Nat : b = end[s].cur_pkt /\ a = end[r].cur_pkt
  BY EndIsRec DEF Good, Typed
<1>3. /\ end[s].cur_idx = w /\ b <= Len(Traces[w]) /\ Owner(w, b, s)
      /\ Owner(w, 1, "client") /\ a <= b /\ end[s].ceased = No
  <2>1. /\ end[s].cur_idx = w /\ end[s].cur_pkt <= Len(Traces[w])
        /\ Owner(w, end[s].cur_pkt, s) /\ Owner(w, 1, "client")
        /\ end[Peer(s)].cur_pkt <= end[s].cur_pkt
        /\ end[s].ceased = No
    BY SenderPlace
  <2> QED
    BY ONLY <2>1, <1>1, <1>2
<1>4. 1 <= b
  BY <1>2 DEF Good, Place
<1>5. PICK lo \in Los : \E n \in lo .. TransmitRoom(end[s], lo) :
         /\ wire' = [wire EXCEPT ![s] = @ \o Packet(s, end[s], n)]
         /\ sent' = [sent EXCEPT ![s] = @ + n]
         /\ spoilt' = (spoilt \/ Len(Packet(s, end[s], n)) > get_pkt_size(end[s]))
  BY Zenon DEF Transmit
<1>51. PICK n \in lo .. TransmitRoom(end[s], lo) :
         /\ wire' = [wire EXCEPT ![s] = @ \o Packet(s, end[s], n)]
         /\ sent' = [sent EXCEPT ![s] = @ + n]
         /\ spoilt' = (spoilt \/ Len(Packet(s, end[s], n)) > get_pkt_size(end[s]))
  BY ONLY <1>5, Zenon
<1>6. n \in Nat
  <2>1. n \in Int /\ lo <= n /\ lo \in Nat
    BY EmbedAssumption
  <2> QED
    BY ONLY <2>1
<1>7. PICK T \in Nat : T = Len(Traces[w]) /\ w \in DOMAIN Traces
  BY TraceFacts DEF Good
<1>8. ~(Len(Packet(s, end[s], n)) > get_pkt_size(end[s]))
  BY ONLY <1>51, ~spoilt', Zenon
<1>9. PICK P : P = Packet(s, end[s], n) /\ Made(w, b, n, sent[s], P)
  <2>1. Made(w, end[s].cur_pkt, n, sent[s], Packet(s, end[s], n))
    BY <1>6, <1>8, SendsMade
  <2> QED
    BY ONLY <2>1, <1>2
<1>10. PICK ce \in BOOLEAN : ce <=> b = T
  OBVIOUS
<1>11. PICK e : e = ERec(w, b + 1, ce, "open")
  OBVIOUS
<1>12. Advance(end[s]) = e
  <2>1. end[s] = ERec(w, b, No, "open")
    <3>1. end[s] = ERec(end[s].cur_idx, end[s].cur_pkt, end[s].ceased, "open")
      BY EndIsRec DEF Good, Typed
    <3> QED
      BY ONLY <3>1, <1>2, <1>3
  <2>2. ce <=> b = Len(Traces[w])
    BY ONLY <1>7, <1>10
  <2> QED
    <3>1. PICK e0 : e0 = ERec(w, b, No, "open")
      OBVIOUS
    <3>2. Advance(e0) = ERec(w, b + 1, ce, "open")
      <4>1. Last(ce, w, b)
        BY ONLY <2>2, ce \in BOOLEAN DEF Last
      <4> QED
        BY ONLY <3>1, <4>1, AdvanceRec
    <3> QED
      BY ONLY <2>1, <3>1, <3>2, <1>11
<1>13. e \in EndRecs /\ e.cur_pkt = b + 1 /\ e.cur_idx = w /\ e.ceased = ce
  <2>1. w \in Int /\ b + 1 \in Nat
    BY <1>7, TracesAssumption
  <2> QED
    BY <2>1, <1>11, RecIsEnd, ERecFields
<1>14. end \in [Sides -> EndRecs] /\ sent \in [Sides -> Nat] /\ wire \in [Sides -> Seq(Sym)]
       /\ buf \in [Sides -> Seq(Sym)] /\ got \in [Sides -> Seq(Sym)]
  BY DEF Good, Typed
<1>15. end' = [end EXCEPT ![s] = e] /\ buf' = buf /\ got' = got
  BY <1>12, Zenon DEF Transmit
<1>16. end'[s] = e /\ end'[r] = end[r] /\ end' \in [Sides -> EndRecs]
  BY <1>1, <1>13, <1>14, <1>15
<1>17. sent'[s] = sent[s] + n /\ sent'[r] = sent[r] /\ sent' \in [Sides -> Nat]
  BY <1>1, <1>51, <1>6, <1>14
<1>18. wire'[s] = wire[s] \o P /\ wire'[r] = wire[r] /\ wire' \in [Sides -> Seq(Sym)]
  <2>1. wire[s] \in Seq(Sym) /\ P \in Seq(Sym)
    BY <1>9, <1>14 DEF Made
  <2>2. PICK W : W = wire[s] \o P /\ W \in Seq(Sym)
    BY <2>1, CatFacts
  <2>3. wire' = [wire EXCEPT ![s] = W]
    BY ONLY <2>2, <1>51, <1>9
  <2>4. wire'[s] = W /\ wire'[r] = wire[r] /\ wire' \in [Sides -> Seq(Sym)]
    BY ONLY <2>2, <2>3, <1>1, <1>14, s \in Sides, r \in Sides
  <2> QED
    BY ONLY <2>2, <2>4
<1>19. Typed'
  BY ONLY <1>14, <1>15, <1>16, <1>17, <1>18 DEF Typed
<1>20. Place(w, e)
  <2>1. 1 <= b + 1 /\ b + 1 <= T + 1 /\ (ce <=> b + 1 = T + 1)
    <3>1. b <= T
      BY ONLY <1>3, <1>7
    <3> QED
      BY <3>1, <1>10
  <2> QED
    BY ONLY <2>1, <1>3, <1>7, <1>13 DEF Place
<1>21. ASSUME NEW z \in Sides PROVE Place(w, end'[z])
  <2>1. Place(w, end[r])
    BY DEF Good
  <2> QED
    BY ONLY <2>1, <1>1, <1>16, <1>20, z \in Sides
<1>22. LinkFrom(w, s) /\ LinkFrom(w, r)
  BY DEF Good
<1>23. Link(w, s, b + 1, sent[s] + n, a, got[r], buf[r], wire[s] \o P)
  <2>1. Link(w, s, b, sent[s], a, got[r], buf[r], wire[s])
    BY ONLY <1>1, <1>2, <1>22 DEF LinkFrom
  <2>2. sent[s] \in Nat /\ buf[r] \in Seq(Sym) /\ wire[s] \in Seq(Sym)
    BY <1>14
  <2> QED
    BY ONLY <2>1, <2>2, <1>3, <1>4, <1>6, <1>7, <1>9, LinkSends, a \in Nat, b \in Nat
<1>24. Link(w, r, a, sent[r], b + 1, got[s], buf[s], wire[r])
  <2>1. Link(w, r, a, sent[r], b, got[s], buf[s], wire[r])
    BY ONLY <1>1, <1>2, <1>22 DEF LinkFrom
  <2> QED
    BY ONLY <2>1, <1>3, LinkReceiverMoves, a \in Nat, b \in Nat
<1>25. LinkFrom(w, s)' /\ LinkFrom(w, r)'
  BY ONLY <1>1, <1>2, <1>13, <1>15, <1>16, <1>17, <1>18, <1>23, <1>24 DEF LinkFrom
<1>26. end'["client"].cur_idx = w
  <2>1. end["client"].cur_idx = w /\ "client" \in Sides
    BY DEF Good, Sides
  <2> QED
    BY ONLY <2>1, <1>1, <1>13, <1>16
<1>27. end'["server"].cur_pkt = 1 => end'["server"].cur_idx = 0 /\ buf'["server"] = <<>>
  <2>1. "server" \in Sides
    BY DEF Sides
  <2>2. CASE s = "server"
    <3>1. b + 1 # 1
      BY <1>4
    <3> QED
      BY ONLY <2>2, <3>1, <1>13, <1>16
  <2>3. CASE r = "server"
    BY ONLY <2>3, <1>15, <1>16, Good(w) DEF Good
  <2> QED
    BY ONLY <2>1, <2>2, <2>3, <1>1
<1>28. \A z \in Sides : LinkFrom(w, z)'
  <2>1. ASSUME NEW z \in Sides PROVE LinkFrom(w, z)'
    BY ONLY <1>1, <1>25, z \in Sides
  <2> QED
    BY <2>1
<1> QED
  BY ONLY <1>7, <1>19, <1>21, <1>26, <1>27, <1>28 DEF Good

-----------------------------------------------------------------------------
(* Arrive.                                                                 *)

LEMMA ERecOpens ==
    ASSUME NEW i, NEW c, NEW ce
    PROVE  [ERec(i, c, ce, "open") EXCEPT !.st = "open"] = ERec(i, c, ce, "open")
BY DEF ERec

\* What receive() does with the bytes that have arrived.
LEMMA ArrivalLands ==
    ASSUME NEW w, NEW r \in Sides, Good(w), NEW s \in Sides, s = Peer(r), r = Peer(s), r # s,
           NEW x \in 1 .. Len(wire[s]), NEW p, p = Received(r, buf[r] \o SubSeq(wire[s], 1, x)),
           ~(end[r].cur_idx = 0 /\ p.e.cur_pkt = 1)
    PROVE  /\ Landed(w, s, end[s].cur_pkt, sent[s], end[r].cur_pkt, got[r], Rest(wire[s], x), p)
           /\ p.e.cur_pkt > 1
<1>1. PICK b \in Nat, a \in Nat : b = end[s].cur_pkt /\ a = end[r].cur_pkt
  BY EndIsRec DEF Good, Typed
<1>2. PICK T \in Nat : T = Len(Traces[w]) /\ w \in DOMAIN Traces
  BY TraceFacts DEF Good
<1>3. got[r] \in Seq(Sym) /\ buf[r] \in Seq(Sym) /\ wire[s] \in Seq(Sym)
  BY DEF Good, Typed
<1>4. Link(w, s, b, sent[s], a, got[r], buf[r], wire[s])
  <2>1. LinkFrom(w, s)
    BY DEF Good
  <2> QED
    BY ONLY <2>1, <1>1, r = Peer(s) DEF LinkFrom
<1>5. Place(w, end[s]) /\ Place(w, end[r])
  BY DEF Good
<1>6. 1 <= b /\ b <= T + 1 /\ 1 <= a /\ a <= T + 1
  BY ONLY <1>1, <1>2, <1>5 DEF Place
<1>7. b <= Len(Traces[w]) + 1
  BY ONLY <1>2, <1>6
<1>8. end[r] = ERec(end[r].cur_idx, a, end[r].ceased, "open") /\ end[r].ceased \in BOOLEAN
  <2>1. end[r] = ERec(end[r].cur_idx, end[r].cur_pkt, end[r].ceased, "open") /\ end[r].ceased \in BOOLEAN
    BY EndIsRec DEF Good, Typed
  <2> QED
    BY ONLY <2>1, <1>1
<1>9. a < b
  <2>1. Arriving(w, s, b, sent[s], a, got[r], buf[r], wire[s], x)
    BY ONLY <1>2, <1>3, <1>4, <1>6, <1>7, ArrivalStarts, a \in Nat, b \in Nat, x \in 1 .. Len(wire[s])
  <2> QED
    BY ONLY <2>1 DEF Arriving
<1>10. T > 0 /\ b > 1
  BY <1>6, <1>9
<1>11. end[r].ceased <=> a = T + 1
  BY ONLY <1>1, <1>2, <1>5, <1>10 DEF Place
<1>12. ASSUME a > 1
       PROVE  Landed(w, s, b, sent[s], a, got[r], Rest(wire[s], x), p) /\ p.e.cur_pkt > 1
  <2>1. end[r].cur_idx = w
    BY ONLY <1>1, <1>5, <1>12 DEF Place
  <2>2. PICK ce \in BOOLEAN : ce = end[r].ceased
    BY <1>8
  <2>3. end[r] = ERec(w, a, ce, "open") /\ (ce <=> a = Len(Traces[w]) + 1)
    BY ONLY <2>1, <2>2, <1>2, <1>8, <1>11
  <2>4. 1 < a
    BY <1>12
  <2>5. Landed(w, s, b, sent[s], a, got[r], Rest(wire[s], x), Received(r, buf[r] \o SubSeq(wire[s], 1, x)))
    BY ONLY <2>3, <2>4, <1>2, <1>3, <1>4, <1>7, LaterArrival, a \in Nat, b \in Nat,
            x \in 1 .. Len(wire[s]), ce \in BOOLEAN
  <2>6. Landed(w, s, b, sent[s], a, got[r], Rest(wire[s], x), p)
    BY ONLY <2>5, p = Received(r, buf[r] \o SubSeq(wire[s], 1, x))
  <2>7. PICK c, f, src, d, sl, k :
           c \in Nat /\ p = PRec(ERec(w, c, f, "open"), src, sl, k, d, 0) /\ a <= c
    BY ONLY <2>6 DEF Landed
  <2>8. p.e.cur_pkt = c
    BY ONLY <2>7, PRecFields, ERecFields
  <2>9. c > 1
    <3>1. c \in Nat /\ a <= c
      BY ONLY <2>7
    <3> QED
      BY ONLY <3>1, <1>12, a \in Nat
  <2> QED
    BY ONLY <2>6, <2>8, <2>9
<1>13. ASSUME ~(a > 1)
       PROVE  Landed(w, s, b, sent[s], a, got[r], Rest(wire[s], x), p) /\ p.e.cur_pkt > 1
  <2>1. a = 1
    BY <1>6, <1>13
  <2>2. r = "server"
    <3>1. SUFFICES ASSUME r = "client" PROVE FALSE
      BY DEF Sides
    <3>2. s = "server"
      BY ONLY <3>1, s \in Sides, r # s DEF Sides
    <3>3. Owner(w, 1, "client")
      BY ONLY <1>1, <1>5, <1>10 DEF Place
    <3>4. \A k \in Nat : a <= k /\ k < b => Owner(w, k, s)
      BY ONLY <1>4 DEF Link
    <3>5. Owner(w, 1, "server")
      BY ONLY <3>2, <3>4, <2>1, <1>6, <1>9
    <3>6. "client" \in Sides /\ Peer("client") = "server"
      BY DEF Sides, Peer
    <3> QED
      BY ONLY <3>3, <3>5, <3>6, OneOwner
  <2>3. end[r].cur_idx = 0
    BY ONLY <2>1, <2>2, <1>1, Good(w) DEF Good
  <2>4. end[r].ceased = No
    <3>1. ~(a = T + 1)
      BY <2>1, <1>10
    <3> QED
      BY ONLY <3>1, <1>8, <1>11 DEF No
  <2>5. end[r] = ERec(0, 1, No, "open")
    BY ONLY <2>1, <2>3, <2>4, <1>8
  <2>6. Link(w, s, b, sent[s], 1, got[r], buf[r], wire[s])
    BY ONLY <2>1, <1>4
  <2>7. \/ Received(r, buf[r] \o SubSeq(wire[s], 1, x)).e.cur_pkt = 1
        \/ Landed(w, s, b, sent[s], 1, got[r], Rest(wire[s], x),
                  Received(r, buf[r] \o SubSeq(wire[s], 1, x)))
    BY ONLY <2>5, <2>6, <1>2, <1>3, <1>7, FirstArrival, b \in Nat, x \in 1 .. Len(wire[s])
  <2>8. p.e.cur_pkt # 1 /\ Landed(w, s, b, sent[s], a, got[r], Rest(wire[s], x), p)
    BY ONLY <2>1, <2>3, <2>7, p = Received(r, buf[r] \o SubSeq(wire[s], 1, x)),
            ~(end[r].cur_idx = 0 /\ p.e.cur_pkt = 1)
  <2>9. PICK c, f, src, d, sl, k :
           c \in Nat /\ p = PRec(ERec(w, c, f, "open"), src, sl, k, d, 0) /\ a <= c
    BY ONLY <2>8 DEF Landed
  <2>10. p.e.cur_pkt = c
    BY ONLY <2>9, PRecFields, ERecFields
  <2>11. c > 1
    <3>1. c # 1 /\ 1 <= c
      BY ONLY <2>1, <2>8, <2>9, <2>10
    <3>2. c \in Nat
      BY ONLY <2>9
    <3> QED
      BY ONLY <3>1, <3>2
  <2> QED
    BY ONLY <2>8, <2>10, <2>11
<1> QED
  BY ONLY <1>1, <1>12, <1>13

LEMMA ArriveGood ==
    ASSUME NEW w, NEW r \in Sides, Good(w), NEW x, Arrive(r, x), spoilt \in BOOLEAN, ~spoilt'
    PROVE  Good(w)'
<1>1. PICK s \in Sides : s = Peer(r) /\ r = Peer(s) /\ r # s /\ \A z \in Sides : z = s \/ z = r
  BY SidesFacts
<1>2. PICK p : p = Received(r, buf[r] \o SubSeq(wire[s], 1, x))
  OBVIOUS
<1>3. /\ x \in 1 .. Len(wire[s])
      /\ wire' = [wire EXCEPT ![s] = Rest(wire[s], x)]
      /\ buf' = [buf EXCEPT ![r] = p.source]
      /\ got' = [got EXCEPT ![r] = got[r] \o p.dest]
      /\ end' = [end EXCEPT ![r] = [p.e EXCEPT !.st = IF p.ret = -1 THEN "closed" ELSE "open"]]
      /\ spoilt' = (spoilt \/ (end[r].cur_idx = 0 /\ p.e.cur_pkt = 1))
      /\ sent' = sent
  BY ONLY <1>1, <1>2, Arrive(r, x), Zenon DEF Arrive
<1>4. ~(end[r].cur_idx = 0 /\ p.e.cur_pkt = 1)
  BY ONLY <1>3, ~spoilt', Zenon
<1>5. PICK b \in Nat, a \in Nat : b = end[s].cur_pkt /\ a = end[r].cur_pkt
  BY EndIsRec DEF Good, Typed
<1>6. Landed(w, s, b, sent[s], a, got[r], Rest(wire[s], x), p) /\ p.e.cur_pkt > 1
  <2>1. x \in 1 .. Len(wire[s])
    BY ONLY <1>3
  <2>2. /\ Landed(w, s, end[s].cur_pkt, sent[s], end[r].cur_pkt, got[r], Rest(wire[s], x), p)
        /\ p.e.cur_pkt > 1
    BY ONLY <2>1, <1>1, <1>2, <1>4, Good(w), r \in Sides, s \in Sides, ArrivalLands
  <2> QED
    BY ONLY <2>2, <1>5
<1>7. PICK R : R = Rest(wire[s], x) /\ R \in Seq(Sym)
  <2>1. x \in 0 .. Len(wire[s]) /\ wire[s] \in Seq(Sym)
    BY <1>3 DEF Good, Typed
  <2> QED
    BY ONLY <2>1, RestFacts
<1>8. PICK c \in Nat, ce \in BOOLEAN, src \in Seq(Sym), d \in Seq(Sym), sl \in Int :
        /\ p = PRec(ERec(w, c, ce, "open"), src, sl, Skip(c), d, 0)
        /\ a <= c /\ c <= b
        /\ ce <=> c = Len(Traces[w]) + 1
        /\ c > 1 => Link(w, s, b, sent[s], c, got[r] \o d, src, R)
        /\ \A k \in Nat : a <= k /\ k < c => Owner(w, k, s)
  BY ONLY <1>6, <1>7 DEF Landed
<1>9. PICK e : e = ERec(w, c, ce, "open")
  OBVIOUS
<1>10. p.e = e /\ p.source = src /\ p.dest = d /\ p.ret = 0
  BY ONLY <1>8, <1>9, PRecFields
<1>11. PICK T \in Nat : T = Len(Traces[w]) /\ w \in DOMAIN Traces
  BY TraceFacts DEF Good
<1>12. e \in EndRecs /\ e.cur_pkt = c /\ e.cur_idx = w /\ e.ceased = ce
  <2>1. w \in Int
    BY <1>11, TracesAssumption
  <2> QED
    BY <2>1, <1>9, RecIsEnd, ERecFields
<1>13. c > 1
  BY ONLY <1>6, <1>10, <1>12
<1>14. end' = [end EXCEPT ![r] = e]
  <2>1. (IF p.ret = -1 THEN "closed" ELSE "open") = "open"
    BY <1>10
  <2>2. [e EXCEPT !.st = "open"] = e
    BY ONLY <1>9, ERecOpens
  <2> QED
    BY ONLY <2>1, <2>2, <1>3, <1>10
<1>15. end \in [Sides -> EndRecs] /\ sent \in [Sides -> Nat] /\ wire \in [Sides -> Seq(Sym)]
       /\ buf \in [Sides -> Seq(Sym)] /\ got \in [Sides -> Seq(Sym)]
  BY DEF Good, Typed
<1>16. end'[r] = e /\ end'[s] = end[s] /\ end' \in [Sides -> EndRecs]
  BY ONLY <1>1, <1>12, <1>14, <1>15, s \in Sides, r \in Sides
<1>17. buf'[r] = src /\ buf'[s] = buf[s] /\ buf' \in [Sides -> Seq(Sym)]
  <2>1. buf' = [buf EXCEPT ![r] = src]
    BY ONLY <1>3, <1>10
  <2> QED
    BY ONLY <2>1, <1>1, <1>15, s \in Sides, r \in Sides, src \in Seq(Sym)
<1>18. got'[r] = got[r] \o d /\ got'[s] = got[s] /\ got' \in [Sides -> Seq(Sym)]
  <2>1. got[r] \in Seq(Sym)
    BY <1>15
  <2>2. PICK g : g = got[r] \o d /\ g \in Seq(Sym)
    BY <2>1, CatFacts
  <2>3. got' = [got EXCEPT ![r] = g]
    BY ONLY <2>2, <1>3, <1>10
  <2>4. got'[r] = g /\ got'[s] = got[s] /\ got' \in [Sides -> Seq(Sym)]
    BY ONLY <2>2, <2>3, <1>1, <1>15, s \in Sides, r \in Sides
  <2> QED
    BY ONLY <2>2, <2>4
<1>19. wire'[s] = R /\ wire'[r] = wire[r] /\ wire' \in [Sides -> Seq(Sym)]
  <2>1. wire' = [wire EXCEPT ![s] = R]
    BY ONLY <1>3, <1>7
  <2> QED
    BY ONLY <2>1, <1>1, <1>7, <1>15, s \in Sides, r \in Sides
<1>20. sent' = sent
  BY ONLY <1>3
<1>21. Typed'
  BY ONLY <1>15, <1>16, <1>17, <1>18, <1>19, <1>20 DEF Typed
<1>22. Place(w, end[s])
  BY DEF Good
<1>23. Place(w, e)
  <2>1. b <= T + 1
    BY ONLY <1>5, <1>11, <1>22 DEF Place
  <2>2. c <= b
    BY ONLY <1>8
  <2>3. b > 1 /\ 1 <= c /\ c <= T + 1
    BY <2>1, <2>2, <1>13
  <2>4. Owner(w, 1, "client")
    BY ONLY <2>3, <1>5, <1>22 DEF Place
  <2>5. ce <=> c = T + 1
    BY ONLY <1>8, <1>11
  <2> QED
    BY ONLY <2>3, <2>4, <2>5, <1>11, <1>12 DEF Place
<1>24. ASSUME NEW z \in Sides PROVE Place(w, end'[z])
  BY ONLY <1>1, <1>16, <1>22, <1>23, z \in Sides
<1>25. Link(w, s, b, sent[s], c, got[r] \o d, src, R)
  BY ONLY <1>8, <1>13
<1>26. Link(w, r, c, sent[r], b, got[s], buf[s], wire[r])
  <2>1. LinkFrom(w, r)
    BY DEF Good
  <2>2. Link(w, r, a, sent[r], b, got[s], buf[s], wire[r])
    BY ONLY <2>1, <1>1, <1>5 DEF LinkFrom
  <2>3. \A k \in Nat : a <= k /\ k < c => ~Owner(w, k, r)
    BY ONLY <1>1, <1>8, OneOwner, s \in Sides
  <2>4. a <= c /\ c <= b
    BY ONLY <1>8
  <2> QED
    BY ONLY <2>2, <2>3, <2>4, LinkSenderMoves, a \in Nat, b \in Nat, c \in Nat
<1>27. LinkFrom(w, s)' /\ LinkFrom(w, r)'
  BY ONLY <1>1, <1>5, <1>12, <1>16, <1>17, <1>18, <1>19, <1>20, <1>25, <1>26 DEF LinkFrom
<1>28. \A z \in Sides : LinkFrom(w, z)'
  <2>1. ASSUME NEW z \in Sides PROVE LinkFrom(w, z)'
    BY ONLY <1>1, <1>27, z \in Sides
  <2> QED
    BY <2>1
<1>29. end'["client"].cur_idx = w
  <2>1. end["client"].cur_idx = w /\ "client" \in Sides
    BY DEF Good, Sides
  <2> QED
    BY ONLY <2>1, <1>1, <1>12, <1>16
<1>30. end'["server"].cur_pkt = 1 => end'["server"].cur_idx = 0 /\ buf'["server"] = <<>>
  <2>1. "server" \in Sides
    BY DEF Sides
  <2>2. CASE r = "server"
    <3>1. c # 1
      BY <1>13
    <3> QED
      BY ONLY <2>2, <3>1, <1>12, <1>16
  <2>3. CASE s = "server"
    BY ONLY <2>3, <1>16, <1>17, Good(w) DEF Good
  <2> QED
    BY ONLY <2>1, <2>2, <2>3, <1>1
<1> QED
  BY ONLY <1>11, <1>21, <1>24, <1>28, <1>29, <1>30 DEF Good

-----------------------------------------------------------------------------
LEMMA EmbedNext == EmbedInv /\ [Next]_vars => EmbedInv'
<1>1. SUFFICES ASSUME EmbedInv, [Next]_vars PROVE EmbedInv'
  OBVIOUS
<1>2. spoilt \in BOOLEAN
  BY <1>1 DEF EmbedInv
<1>3. CASE UNCHANGED vars
  BY ONLY <1>1, <1>3 DEF EmbedInv, vars, Good, Typed, LinkFrom
<1>4. ASSUME NEW s \in Sides, Transmit(s) PROVE EmbedInv'
  <2>0. PICK lo \in Los : \E n \in lo .. TransmitRoom(end[s], lo) :
           spoilt' = (spoilt \/ Len(Packet(s, end[s], n)) > get_pkt_size(end[s]))
    BY ONLY <1>4, Zenon DEF Transmit
  <2>1. PICK n \in lo .. TransmitRoom(end[s], lo) :
           spoilt' = (spoilt \/ Len(Packet(s, end[s], n)) > get_pkt_size(end[s]))
    BY ONLY <2>0, Zenon
  <2>2. spoilt' \in BOOLEAN /\ (~spoilt' => ~spoilt)
    BY ONLY <2>1, <1>2, Zenon
  <2>3. ASSUME ~spoilt' PROVE \E w : Good(w)'
    <3>1. PICK w : Good(w)
      BY ONLY <2>2, <2>3, <1>1 DEF EmbedInv
    <3>2. Good(w)'
      BY ONLY <3>1, <2>3, <1>2, <1>4, TransmitGood
    <3> QED
      BY ONLY <3>2
  <2> QED
    BY ONLY <2>2, <2>3 DEF EmbedInv
<1>5. ASSUME NEW r \in Sides, NEW x, Arrive(r, x) PROVE EmbedInv'
  <2>1. PICK y : y = (end[r].cur_idx = 0 /\ Received(r, buf[r] \o SubSeq(wire[Peer(r)], 1, x)).e.cur_pkt = 1)
                 /\ spoilt' = (spoilt \/ y)
    BY ONLY <1>5, Zenon DEF Arrive
  <2>2. spoilt' \in BOOLEAN /\ (~spoilt' => ~spoilt)
    BY ONLY <2>1, <1>2, Zenon
  <2>3. ASSUME ~spoilt' PROVE \E w : Good(w)'
    <3>1. PICK w : Good(w)
      BY ONLY <2>2, <2>3, <1>1 DEF EmbedInv
    <3>2. Good(w)'
      BY ONLY <3>1, <2>3, <1>2, <1>5, ArriveGood
    <3> QED
      BY ONLY <3>2
  <2> QED
    BY ONLY <2>2, <2>3 DEF EmbedInv
<1>6. CASE Next
  BY ONLY <1>4, <1>5, <1>6 DEF Next
<1> QED
  BY <1>1, <1>3, <1>6

(* Unless the first packet arrived in pieces, or some packet of the trace  *)
(* was outgrown by what chop insisted on sending in it, receive() passes   *)
(* on what transmit() was given, in order, and the connection stays open:  *)
(* for all traces whose packets are not empty, all header lengths, all     *)
(* that chop may insist on at each call, all widths of src_len, and all    *)
(* ways in which TCP cuts what follows the first packet.                   *)
THEOREM EmbedDataIntact == Spec => []DataIntact
<1>1. Init => EmbedInv
  BY EmbedInit
<1>2. EmbedInv /\ [Next]_vars => EmbedInv'
  BY EmbedNext
<1>3. EmbedInv => DataIntact
  BY EmbedGood
<1> QED
  BY <1>1, <1>2, <1>3, PTL DEF Spec
=============================================================================
