--------------------------- MODULE HttpStegProofs ---------------------------
(***************************************************************************)
(* With one circuit, and a client that restarts only between exchanges:    *)
(* the client uses its dictionary only while it is the server's, and the   *)
(* server takes out of every request the block that was put in.            *)
(*                                                                         *)
(* The first rests on a description of the conversation about the          *)
(* dictionary: the question and the answer are each one message, of which  *)
(* a part has arrived, a part is in chunks on the circuit, and the rest    *)
(* waits to be shipped.                                                    *)
(***************************************************************************)
EXTENDS HttpSteg, FiniteSetTheorems, SequenceTheorems, TLAPS

(***************************************************************************)
(* Loops.  A recursive function exists, by a least counterexample.         *)
(***************************************************************************)
LEMMA Smallest ==
    ASSUME NEW T \in SUBSET Nat, T # {}
    PROVE  \E m \in T : \A n \in T : m <= n
<1>1. PICK x \in T : TRUE
  OBVIOUS
<1> DEFINE Below(y) == {z \in T : z < y}
           Q == {y \in T : y <= x}
           F == {Below(y) : y \in Q}
<1>2. F \subseteq FiniteSubsetsOf(0 .. x)
  <2>1. IsFiniteSet(0 .. x)
    BY FS_Interval
  <2>2. ASSUME NEW y \in Q PROVE Below(y) \in FiniteSubsetsOf(0 .. x)
    <3>1. Below(y) \subseteq 0 .. x
      <4>1. ASSUME NEW z \in T, z < y PROVE z \in 0 .. x
        <5>1. z \in Nat /\ y \in Nat /\ x \in Nat /\ y <= x
          OBVIOUS
        <5> QED
          BY <5>1, <4>1
      <4> QED
        BY <4>1
    <3> HIDE DEF Below
    <3> QED
      BY <2>1, <3>1, FS_Subset DEF FiniteSubsetsOf
  <2> QED
    BY <2>2
<1>3. F # {}
  <2>1. x \in Q
    <3>1. x \in Nat
      OBVIOUS
    <3> QED
      BY <3>1
  <2> QED
    BY <2>1
<1>4. IsWellFoundedOn(StrictSubsetOrdering(0 .. x), FiniteSubsetsOf(0 .. x))
  BY FS_StrictSubsetOrderingWellFounded
<1> HIDE DEF F
<1>5. PICK m \in F : \A y \in F : <<y, m>> \notin StrictSubsetOrdering(0 .. x)
  BY <1>2, <1>3, <1>4, WFMin
<1> USE DEF F
<1>6. PICK y \in Q : m = Below(y)
  OBVIOUS
<1>7. ASSUME NEW n \in T, ~(y <= n) PROVE FALSE
  <2>1. n \in Q /\ n < y
    BY <1>7
  <2>2. Below(n) \subseteq Below(y) /\ n \in Below(y) /\ n \notin Below(n)
    <3>1. ASSUME NEW z \in T, z < n PROVE z < y
      <4>1. z \in Nat /\ y \in Nat /\ n \in Nat
        OBVIOUS
      <4> QED
        BY <4>1, <3>1, <2>1
    <3>2. n \in Nat /\ ~(n < n)
      OBVIOUS
    <3> QED
      BY <2>1, <3>1, <3>2
  <2>3. Below(n) # Below(y)
    BY <2>2
  <2>4. Below(n) \in F /\ Below(n) \subseteq 0 .. x /\ Below(y) \subseteq 0 .. x
    <3>1. Below(n) \in F /\ Below(y) \in F
      BY <2>1
    <3> HIDE DEF F, Below
    <3> QED
      BY <3>1, <1>2 DEF FiniteSubsetsOf
  <2>5. <<Below(n), m>> \in StrictSubsetOrdering(0 .. x)
    <3> HIDE DEF Below
    <3> QED
      BY <2>2, <2>3, <2>4, <1>6 DEF StrictSubsetOrdering
  <2> QED
    BY <2>4, <2>5, <1>5
<1> QED
  BY <1>7
\* f holds the values of a loop for n turns.
Upto(U, x, g, f, n) ==
    /\ f \in [Nat -> U]
    /\ f[0] = x
    /\ \A k \in 1 .. n : f[k] = g[k][f[k - 1]]

LEMMA UptoExists ==
    ASSUME NEW U, NEW x \in U, NEW g \in [Nat -> [U -> U]], NEW n \in Nat
    PROVE  \E f : Upto(U, x, g, f, n)
<1> DEFINE Bad == {m \in Nat : ~\E f : Upto(U, x, g, f, m)}
<1>1. SUFFICES ASSUME Bad # {} PROVE FALSE
  OBVIOUS
<1>2. Bad \in SUBSET Nat
  OBVIOUS
<1>3. PICK m \in Bad : \A k \in Bad : m <= k
  <2> HIDE DEF Bad
  <2> QED
    BY <1>1, <1>2, Smallest
<1>4. m \in Nat /\ ~\E f : Upto(U, x, g, f, m)
  OBVIOUS
<1>5. m # 0
  <2>1. SUFFICES ASSUME m = 0 PROVE FALSE
    OBVIOUS
  <2>2. PICK f : f = [k \in Nat |-> x]
    OBVIOUS
  <2>3. Upto(U, x, g, f, m)
    BY <2>1, <2>2 DEF Upto
  <2> QED
    BY <2>3, <1>4
<1>6. m - 1 \in Nat /\ m - 1 \notin Bad
  BY <1>3, <1>4, <1>5
<1>7. PICK f : Upto(U, x, g, f, m - 1)
  BY <1>6
<1>8. PICK y : y = g[m][f[m - 1]]
  OBVIOUS
<1>9. y \in U
  <2>1. f[m - 1] \in U
    BY <1>6, <1>7 DEF Upto
  <2>2. g[m] \in [U -> U]
    BY <1>4
  <2> QED
    BY <2>1, <2>2, <1>8
<1>10. PICK h : h = [k \in Nat |-> IF k = m THEN y ELSE f[k]]
  OBVIOUS
<1>11. h \in [Nat -> U]
  BY <1>7, <1>9, <1>10 DEF Upto
<1>12. h[0] = x
  BY <1>5, <1>7, <1>10 DEF Upto
<1>13. ASSUME NEW k \in 1 .. m PROVE h[k] = g[k][h[k - 1]]
  <2>1. k \in Nat /\ k - 1 \in Nat /\ k - 1 # m
    BY <1>4
  <2>2. h[k - 1] = f[k - 1]
    BY <2>1, <1>10
  <2>3. CASE k = m
    BY <2>1, <2>2, <2>3, <1>8, <1>10
  <2>4. CASE k # m
    <3>1. k \in 1 .. m - 1
      BY <2>4, <1>4
    <3>2. f[k] = g[k][f[k - 1]]
      BY <3>1, <1>7 DEF Upto
    <3> QED
      BY <3>2, <2>1, <2>2, <2>4, <1>10
  <2> QED
    BY <2>3, <2>4
<1>14. Upto(U, x, g, h, m)
  BY <1>11, <1>12, <1>13 DEF Upto
<1> QED
  BY <1>4, <1>14

LEMMA UptoSame ==
    ASSUME NEW U, NEW x, NEW g, NEW f, NEW h, NEW m \in Nat, NEW n \in Nat,
           Upto(U, x, g, f, m), Upto(U, x, g, h, n), m <= n
    PROVE  f[m] = h[m]
<1> DEFINE Bad == {k \in Nat : k <= m /\ f[k] # h[k]}
<1>1. SUFFICES ASSUME Bad # {} PROVE FALSE
  OBVIOUS
<1>2. Bad \in SUBSET Nat
  OBVIOUS
<1>3. PICK k \in Bad : \A j \in Bad : k <= j
  <2> HIDE DEF Bad
  <2> QED
    BY <1>1, <1>2, Smallest
<1>4. k \in Nat /\ k <= m /\ f[k] # h[k]
  OBVIOUS
<1>5. k # 0
  BY <1>4 DEF Upto
<1>6. k \in 1 .. m /\ k \in 1 .. n /\ k - 1 \in Nat /\ k - 1 <= m /\ k - 1 \notin Bad
  BY <1>3, <1>4, <1>5
<1>7. f[k - 1] = h[k - 1]
  BY <1>6
<1>8. f[k] = g[k][f[k - 1]] /\ h[k] = g[k][h[k - 1]]
  BY <1>6 DEF Upto
<1> QED
  BY <1>4, <1>7, <1>8

Iteration(U, x, g, f) ==
    /\ f \in [Nat -> U]
    /\ f[0] = x
    /\ \A k \in Nat \ {0} : f[k] = g[k][f[k - 1]]

LEMMA Iterates ==
    ASSUME NEW U, NEW x \in U, NEW g \in [Nat -> [U -> U]]
    PROVE  \E f : Iteration(U, x, g, f)
<1> DEFINE G(n) == CHOOSE f : Upto(U, x, g, f, n)
<1>1. \A n \in Nat : Upto(U, x, g, G(n), n)
  BY UptoExists
<1> HIDE DEF G
<1>2. PICK f : f = [n \in Nat |-> G(n)[n]]
  OBVIOUS
<1>3. f \in [Nat -> U]
  <2>1. ASSUME NEW n \in Nat PROVE G(n)[n] \in U
    BY <1>1 DEF Upto
  <2> QED
    BY <2>1, <1>2
<1>4. f[0] = x
  BY <1>1, <1>2 DEF Upto
<1>5. ASSUME NEW n \in Nat \ {0} PROVE f[n] = g[n][f[n - 1]]
  <2>1. n \in Nat /\ n - 1 \in Nat /\ n - 1 <= n /\ n \in 1 .. n
    OBVIOUS
  <2>2. Upto(U, x, g, G(n), n) /\ Upto(U, x, g, G(n - 1), n - 1)
    BY <1>1, <2>1
  <2>3. G(n - 1)[n - 1] = G(n)[n - 1]
    BY <2>1, <2>2, UptoSame
  <2>4. G(n)[n] = g[n][G(n)[n - 1]]
    BY <2>1, <2>2 DEF Upto
  <2> QED
    BY <2>1, <2>3, <2>4, <1>2
<1> QED
  BY <1>3, <1>4, <1>5 DEF Iteration

-----------------------------------------------------------------------------
(* The loops of the dictionary.                                            *)

LEMMA Division ==
    ASSUME NEW n \in Nat
    PROVE  /\ n \div Base \in Nat
           /\ n # 0 => n \div Base < n
           /\ n < Base => n \div Base = 0 /\ n % Base = n
           /\ n = 0 => n \div Base = 0
  BY HttpAssumption

LEMMA QuotientTurns ==
    ASSUME NEW n \in Nat
    PROVE  /\ Quotient(n, 0) = n
           /\ \A k \in Nat : /\ Quotient(n, k) \in Nat
                             /\ Quotient(n, k + 1) = Quotient(n, k) \div Base
<1> DEFINE Loop(f) == f = [j \in Nat |-> IF j = 0 THEN n ELSE f[j - 1] \div Base]
<1>1. PICK g : g = [k \in Nat |-> [v \in Nat |-> v \div Base]]
  OBVIOUS
<1>2. g \in [Nat -> [Nat -> Nat]]
  <2>1. [v \in Nat |-> v \div Base] \in [Nat -> Nat]
    BY Division
  <2> QED
    BY <2>1, <1>1
<1>3. PICK f : Iteration(Nat, n, g, f)
  BY <1>2, Iterates
<1>4. \A k \in Nat : f[k] = IF k = 0 THEN n ELSE f[k - 1] \div Base
  <2>1. ASSUME NEW k \in Nat, k # 0 PROVE f[k] = f[k - 1] \div Base
    <3>1. k - 1 \in Nat /\ f[k - 1] \in Nat
      BY <2>1, <1>3 DEF Iteration
    <3> QED
      BY <3>1, <2>1, <1>1, <1>3 DEF Iteration
  <2> QED
    BY <2>1, <1>3 DEF Iteration
<1>5. Loop(f)
  <2>1. f = [k \in Nat |-> f[k]]
    BY <1>3 DEF Iteration
  <2> QED
    BY <2>1, <1>4
<1>6. PICK h : h = CHOOSE i : Loop(i)
  OBVIOUS
<1>7. Loop(h)
  BY <1>5, <1>6
<1>8. \A k : Quotient(n, k) = h[k]
  BY <1>6 DEF Quotient
<1>9. \A k \in Nat : h[k] = IF k = 0 THEN n ELSE h[k - 1] \div Base
  BY <1>7
<1> HIDE DEF Loop
<1>10. \A k \in Nat : h[k] \in Nat
  <2> DEFINE Bad == {k \in Nat : h[k] \notin Nat}
  <2>1. SUFFICES ASSUME Bad # {} PROVE FALSE
    OBVIOUS
  <2>2. Bad \in SUBSET Nat
    OBVIOUS
  <2>3. PICK m \in Bad : \A k \in Bad : m <= k
    <3> HIDE DEF Bad
    <3> QED
      BY <2>1, <2>2, Smallest
  <2>4. m \in Nat /\ h[m] \notin Nat /\ m # 0
    BY <1>9
  <2>5. m - 1 \in Nat /\ h[m - 1] \in Nat
    BY <2>3, <2>4
  <2>6. h[m] = h[m - 1] \div Base
    BY <2>4, <1>9
  <2> QED
    BY <2>4, <2>5, <2>6, Division
<1>11. ASSUME NEW k \in Nat PROVE h[k + 1] = h[k] \div Base
  <2>1. k + 1 \in Nat /\ k + 1 # 0 /\ (k + 1) - 1 = k
    OBVIOUS
  <2> QED
    BY <2>1, <1>9
<1> QED
  BY <1>8, <1>9, <1>10, <1>11

\* The cut is defined, and is nothing when the dictionary is shorter than Base.
LEMMA CutMeans ==
    UriByteCut(Dict) \in Nat /\ (UriByteCut(Dict) # 0 => Base <= Len(Dict))
<1> DEFINE L == Len(Dict)
<1>1. L \in Nat
  BY DictAssumption
<1> HIDE DEF L
<1> DEFINE Q(k) == Quotient(L, k)
<1>2. Q(0) = L /\ \A k \in Nat : Q(k) \in Nat /\ Q(k + 1) = Q(k) \div Base
  BY <1>1, QuotientTurns
<1> HIDE DEF Q
<1>3. \A k \in Nat : k <= L => Q(k) <= L - k
  <2> DEFINE Bad == {k \in Nat : ~(k <= L => Q(k) <= L - k)}
  <2>1. SUFFICES ASSUME Bad # {} PROVE FALSE
    OBVIOUS
  <2>2. Bad \in SUBSET Nat
    OBVIOUS
  <2>3. PICK m \in Bad : \A k \in Bad : m <= k
    <3> HIDE DEF Bad
    <3> QED
      BY <2>1, <2>2, Smallest
  <2>4. m \in Nat /\ m <= L /\ ~(Q(m) <= L - m)
    OBVIOUS
  <2>5. m # 0
    BY <2>4, <1>1, <1>2
  <2>6. m - 1 \in Nat /\ m - 1 \notin Bad
    BY <2>3, <2>4, <2>5
  <2>7. Q(m - 1) <= L - (m - 1)
    BY <2>6, <2>4, <1>1
  <2>8. Q(m - 1) \in Nat /\ Q(m) = Q(m - 1) \div Base
    <3>1. (m - 1) + 1 = m
      BY <2>4
    <3> QED
      BY <3>1, <2>6, <1>2
  <2>9. /\ Q(m) \in Nat /\ (Q(m - 1) # 0 => Q(m) < Q(m - 1))
        /\ (Q(m - 1) = 0 => Q(m) = 0)
    BY <2>8, Division
  <2> QED
    BY <2>4, <2>6, <2>7, <2>8, <2>9, <1>1
<1> DEFINE T == {k \in Nat : Q(k + 1) = 0}
<1>4. L \in T
  <2>1. Q(L) = 0
    BY <1>1, <1>2, <1>3
  <2>2. Q(L + 1) = Q(L) \div Base
    BY <1>1, <1>2
  <2> QED
    BY <2>1, <2>2, <1>1, Division
<1>5. PICK m \in T : \A k \in T : m <= k
  <2>1. T \in SUBSET Nat /\ T # {}
    BY <1>4
  <2> HIDE DEF T
  <2> QED
    BY <2>1, Smallest
<1>6. m \in 0 .. L
  BY <1>1, <1>4, <1>5
<1>7. ASSUME NEW j \in 1 .. m PROVE Q(j) > 0
  <2>1. j \in Nat /\ j - 1 \in Nat /\ (j - 1) + 1 = j /\ ~(m <= j - 1)
    BY <1>6, <1>1
  <2>2. Q(j) # 0
    BY <2>1, <1>5
  <2> QED
    BY <2>1, <2>2, <1>2
<1> DEFINE Cut(k) == (\A j \in 1 .. k : Q(j) > 0) /\ Q(k + 1) = 0
<1>8. Cut(m)
  BY <1>5, <1>7
<1>9. UriByteCut(Dict) = CHOOSE k \in 0 .. L : Cut(k)
  BY DEF UriByteCut, L, Q
<1> HIDE DEF Cut
<1>10. UriByteCut(Dict) \in 0 .. L /\ Cut(UriByteCut(Dict))
  BY <1>6, <1>8, <1>9
<1> USE DEF Cut
<1>11. ASSUME UriByteCut(Dict) # 0 PROVE Base <= L
  <2>1. 1 \in 1 .. UriByteCut(Dict)
    BY <1>1, <1>10, <1>11
  <2>2. Q(1) > 0
    BY <2>1, <1>10
  <2>3. Q(0 + 1) = L \div Base
    BY <1>2
  <2>4. L \div Base > 0
    BY <2>2, <2>3
  <2> QED
    BY <2>4, <1>1, Division, HttpAssumption
<1> QED
  BY <1>1, <1>10, <1>11 DEF L

\* The index that a block's first byte stands for, if one byte is cut.
LEMMA IndexOfBlock ==
    ASSUME NEW block \in Blocks, NEW cut \in {0, 1}, cut < Len(block)
    PROVE  UrlIndex(block, cut) = IF cut = 0 THEN 0 ELSE block[1]
<1>1. block \in Seq(0 .. (Base - 1)) /\ Base \in Nat
  BY HttpAssumption
<1> DEFINE Loop(f) == f = [i \in 0 .. cut |-> IF i = 0 THEN 0
                                              ELSE f[i - 1] * Base + block[i]]
<1>2. cut = 1 => block[1] \in Nat
  BY <1>1
<1>3. PICK f : f = [i \in 0 .. cut |-> IF i = 0 THEN 0 ELSE block[1]]
  OBVIOUS
<1>4. Loop(f)
  <2>1. ASSUME NEW i \in 0 .. cut, i # 0 PROVE i = 1 /\ cut = 1
    BY <2>1
  <2>2. f[0] = 0
    BY <1>3
  <2>3. ASSUME NEW i \in 0 .. cut
        PROVE  f[i] = IF i = 0 THEN 0 ELSE f[i - 1] * Base + block[i]
    <3>1. CASE i = 0
      BY <3>1, <2>2
    <3>2. CASE i # 0
      <4>1. i = 1 /\ cut = 1 /\ i - 1 = 0 /\ f[i] = block[1]
        BY <3>2, <2>1, <1>3
      <4>2. f[i - 1] * Base + block[i] = 0 * Base + block[1]
        BY <4>1, <2>2
      <4>3. 0 * Base + block[1] = block[1]
        BY <4>1, <1>1, <1>2
      <4> QED
        BY <3>2, <4>1, <4>2, <4>3
    <3> QED
      BY <3>1, <3>2
  <2>4. f = [i \in 0 .. cut |-> f[i]]
    BY <1>3
  <2> QED
    BY <2>3, <2>4
<1>5. PICK h : h = CHOOSE i : Loop(i)
  OBVIOUS
<1>6. Loop(h)
  BY <1>4, <1>5
<1>7. UrlIndex(block, cut) = h[cut]
  <2>1. (IF cut < Len(block) THEN cut ELSE Len(block)) = cut
    OBVIOUS
  <2> QED
    BY <2>1, <1>5 DEF UrlIndex
<1>8. h[0] = 0
  BY <1>6
<1>9. ASSUME cut = 1 PROVE h[cut] = block[1]
  <2>1. h[1] = h[1 - 1] * Base + block[1]
    BY <1>6, <1>9
  <2>2. h[1 - 1] * Base = 0
    BY <1>8, <1>1
  <2> QED
    BY <2>1, <2>2, <1>1, <1>2, <1>9
<1> QED
  BY <1>7, <1>8, <1>9

\* What is exported and read again is the dictionary.
LEMMA ExportedAndRead ==
    ASSUME NEW S, NEW d \in Seq(S)
    PROVE  InitUriDict(ExportDict(d)) = d
<1>1. PICK text : text = ExportDict(d)
  OBVIOUS
<1>2. PICK n : n = Len(d)
  OBVIOUS
<1>3. n \in Nat /\ DOMAIN d = 1 .. n
  BY <1>2
<1>4. Len(text) = n /\ \A i \in 1 .. n : text[i].kind = "url" /\ text[i].url = d[i]
  <2>1. text = [i \in 1 .. n |-> [kind |-> "url", dict |-> << >>, url |-> d[i]]]
    BY <1>1, <1>3 DEF ExportDict
  <2>2. ASSUME NEW i \in 1 .. n
        PROVE  text[i] \in [kind : {"url"}, dict : {<< >>}, url : S]
    BY <2>1, <1>3
  <2>3. text \in Seq([kind : {"url"}, dict : {<< >>}, url : S])
    BY <2>1, <2>2, <1>3
  <2> QED
    BY <2>1, <2>3, <1>3
<1> DEFINE Loop(f) == f = [i \in 0 .. Len(text) |->
                             IF i = 0 THEN << >>
                             ELSE IF text[i].kind = "url" THEN Append(f[i - 1], text[i].url)
                             ELSE f[i - 1]]
<1>5. PICK f : f = [i \in 0 .. n |-> SubSeq(d, 1, i)]
  OBVIOUS
<1>6. Loop(f)
  <2>1. f[0] = << >>
    BY <1>3, <1>5
  <2>2. ASSUME NEW i \in 0 .. n, i # 0
        PROVE  /\ text[i].kind = "url"
               /\ f[i] = Append(f[i - 1], text[i].url)
    <3>1. i \in 1 .. n /\ i - 1 \in 0 .. n /\ i \in Nat
      BY <2>2, <1>3
    <3>2. f[i] = SubSeq(d, 1, i) /\ f[i - 1] = SubSeq(d, 1, i - 1)
      BY <3>1, <1>5
    <3>3. SubSeq(d, 1, i) = Append(SubSeq(d, 1, i - 1), d[i])
      BY <3>1, <1>2, <1>3
    <3> QED
      BY <3>1, <3>2, <3>3, <1>4
  <2>3. f = [i \in 0 .. n |-> f[i]]
    BY <1>5
  <2>4. \A i \in 0 .. n : f[i] = IF i = 0 THEN << >>
                             ELSE IF text[i].kind = "url" THEN Append(f[i - 1], text[i].url)
                             ELSE f[i - 1]
    BY <2>1, <2>2
  <2> QED
    BY <2>3, <2>4, <1>4
<1>7. PICK h : h = CHOOSE i : Loop(i)
  OBVIOUS
<1>8. Loop(h)
  <2> HIDE DEF Loop
  <2> QED
    BY <1>6, <1>7
<1>9. InitUriDict(text) = h[n]
  BY <1>4, <1>7 DEF InitUriDict
<1>10. \A i \in 0 .. n : h[i] = IF i = 0 THEN << >> ELSE Append(h[i - 1], text[i].url)
  <2>1. \A i \in 0 .. Len(text) : h[i] = IF i = 0 THEN << >>
                             ELSE IF text[i].kind = "url" THEN Append(h[i - 1], text[i].url)
                             ELSE h[i - 1]
    BY <1>8
  <2>2. \A i \in 0 .. n : i # 0 => i \in 1 .. n
    BY <1>3
  <2> HIDE DEF Loop
  <2> QED
    BY <2>1, <2>2, <1>4
<1> HIDE DEF Loop
<1>11. \A i \in 0 .. n : h[i] = f[i]
  <2> DEFINE Bad == {i \in Nat : i <= n /\ h[i] # f[i]}
  <2>1. SUFFICES ASSUME Bad # {} PROVE FALSE
    BY <1>3
  <2>2. Bad \in SUBSET Nat
    OBVIOUS
  <2>3. PICK m \in Bad : \A k \in Bad : m <= k
    <3> HIDE DEF Bad
    <3> QED
      BY <2>1, <2>2, Smallest
  <2>4. m \in 0 .. n /\ h[m] # f[m]
    BY <1>3
  <2>5. m # 0
    BY <2>4, <1>3, <1>5, <1>10
  <2>6. m - 1 \in 0 .. n /\ m - 1 \notin Bad
    BY <2>3, <2>4, <2>5, <1>3
  <2>7. h[m - 1] = f[m - 1]
    BY <2>6, <1>3
  <2>8. f[m] = Append(f[m - 1], text[m].url)
    <3>1. f[m] = SubSeq(d, 1, m) /\ f[m - 1] = SubSeq(d, 1, m - 1)
      BY <2>4, <2>6, <1>5
    <3>2. SubSeq(d, 1, m) = Append(SubSeq(d, 1, m - 1), d[m])
      BY <2>4, <2>5, <1>2, <1>3
    <3> QED
      BY <3>1, <3>2, <2>4, <2>5, <1>4
  <2> QED
    BY <2>4, <2>5, <2>7, <2>8, <1>10
<1>12. h[n] = SubSeq(d, 1, n)
  <2>1. n \in 0 .. n
    BY <1>3
  <2>2. h[n] = f[n] /\ f[n] = SubSeq(d, 1, n)
    BY <2>1, <1>5, <1>11
  <2> QED
    BY <2>2
<1>13. SubSeq(d, 1, n) = d
  BY <1>2
<1> QED
  BY <1>1, <1>9, <1>12, <1>13

\* What a piece of a sequence holds.
LEMMA Piece ==
    ASSUME NEW S, NEW s \in Seq(S), NEW m \in Nat, NEW n \in Nat,
           m <= n, n <= Len(s)
    PROVE  /\ SubSeq(s, m + 1, n) \in Seq(S)
           /\ Len(SubSeq(s, m + 1, n)) = n - m
           /\ \A i \in 1 .. n - m : SubSeq(s, m + 1, n)[i] = s[m + i]
<1>1. \A i \in m + 1 .. n : s[i] \in S
  OBVIOUS
<1>2. m + 1 \in Int /\ n \in Int /\ n - (m + 1) + 1 = n - m
  OBVIOUS
<1>3. /\ SubSeq(s, m + 1, n) \in Seq(S)
      /\ Len(SubSeq(s, m + 1, n)) = IF m + 1 <= n THEN n - (m + 1) + 1 ELSE 0
      /\ \A i \in 1 .. n - (m + 1) + 1 : SubSeq(s, m + 1, n)[i] = s[m + 1 + i - 1]
  BY <1>1, <1>2, SubSeqProperties
<1>4. Len(SubSeq(s, m + 1, n)) = n - m
  BY <1>3
<1>5. \A i \in 1 .. n - m : SubSeq(s, m + 1, n)[i] = s[m + i]
  BY <1>2, <1>3
<1> QED
  BY <1>3, <1>4, <1>5

\* A piece of a piece is a piece.
LEMMA PieceOfPiece ==
    ASSUME NEW S, NEW s \in Seq(S), NEW m \in Nat, NEW n \in Nat,
           m <= n, n <= Len(s),
           NEW i \in Nat, NEW j \in Nat, i <= j, j <= n - m
    PROVE  SubSeq(SubSeq(s, m + 1, n), i + 1, j) = SubSeq(s, m + i + 1, m + j)
<1> DEFINE p == SubSeq(s, m + 1, n)
           q == SubSeq(p, i + 1, j)
           t == SubSeq(s, m + i + 1, m + j)
<1>1. p \in Seq(S) /\ Len(p) = n - m /\ \A k \in 1 .. n - m : p[k] = s[m + k]
  BY Piece
<1>2. q \in Seq(S) /\ Len(q) = j - i /\ \A k \in 1 .. j - i : q[k] = p[i + k]
  <2>1. j <= Len(p)
    BY <1>1
  <2> HIDE DEF p
  <2> QED
    BY <1>1, <2>1, Piece
<1>3. t \in Seq(S) /\ Len(t) = j - i /\ \A k \in 1 .. j - i : t[k] = s[m + i + k]
  <2>1. PICK c \in Nat, d \in Nat : c = m + i /\ d = m + j
    OBVIOUS
  <2>2. c <= d /\ d <= Len(s) /\ d - c = j - i
    BY <2>1
  <2>3. /\ SubSeq(s, c + 1, d) \in Seq(S) /\ Len(SubSeq(s, c + 1, d)) = d - c
        /\ \A k \in 1 .. d - c : SubSeq(s, c + 1, d)[k] = s[c + k]
    BY <2>2, Piece
  <2> QED
    BY <2>1, <2>2, <2>3
<1>4. ASSUME NEW k \in 1 .. j - i PROVE q[k] = t[k]
  <2>1. i + k \in 1 .. n - m /\ m + (i + k) = m + i + k
    OBVIOUS
  <2> QED
    BY <2>1, <1>1, <1>2, <1>3
<1> HIDE DEF p, q, t
<1>5. q = t
  BY <1>2, <1>3, <1>4
<1> QED
  BY <1>5 DEF p, q, t

-----------------------------------------------------------------------------
(* A message on its way.                                                   *)

Pieces(st) == Seq({st[i] : i \in 1 .. Len(st)})

\* off tells where in the message st each chunk begins.
Cuts(st, a, chunks, out, off) ==
    /\ off \in [1 .. Len(chunks) + 1 -> 0 .. Len(st)]
    /\ off[1] = a
    /\ \A j \in 1 .. Len(chunks) : /\ off[j] < off[j + 1]
                                   /\ chunks[j] = SubSeq(st, off[j] + 1, off[j + 1])
    /\ out = SubSeq(st, off[Len(chunks) + 1] + 1, Len(st))

\* a elements of st have arrived, chunks are on the circuit, out is to be sent.
Travels(st, a, chunks, out) ==
    /\ chunks \in Seq(Pieces(st))
    /\ \E off \in [1 .. Len(chunks) + 1 -> 0 .. Len(st)] : Cuts(st, a, chunks, out, off)

LEMMA TravelsBegins ==
    ASSUME NEW S, NEW st \in Seq(S)
    PROVE  Travels(st, 0, << >>, st)
<1>1. Len(st) \in Nat /\ SubSeq(st, 1, Len(st)) = st
  OBVIOUS
<1>2. PICK off : off = [i \in {1} |-> 0]
  OBVIOUS
<1>3. Len(<< >>) = 0 /\ << >> \in Seq(Pieces(st)) /\ 1 .. 0 + 1 = {1}
  OBVIOUS
<1>4. off \in [1 .. Len(<< >>) + 1 -> 0 .. Len(st)] /\ off[1] = 0
  BY <1>1, <1>2, <1>3
<1>5. Cuts(st, 0, << >>, st, off)
  BY <1>1, <1>3, <1>4 DEF Cuts
<1> QED
  BY <1>3, <1>4, <1>5 DEF Travels

LEMMA TravelsEnded ==
    ASSUME NEW S, NEW st \in Seq(S), NEW chunks, NEW out,
           Travels(st, Len(st), chunks, out)
    PROVE  chunks = << >> /\ out = << >>
<1>1. PICK off \in [1 .. Len(chunks) + 1 -> 0 .. Len(st)] :
           Cuts(st, Len(st), chunks, out, off)
  BY DEF Travels
<1>2. Len(st) \in Nat /\ Len(chunks) \in Nat /\ chunks \in Seq(Pieces(st))
  BY DEF Travels
<1>3. Len(chunks) = 0
  <2>1. SUFFICES ASSUME Len(chunks) # 0 PROVE FALSE
    OBVIOUS
  <2>2. 1 \in 1 .. Len(chunks) /\ 2 \in 1 .. Len(chunks) + 1
    BY <2>1, <1>2
  <2>3. off[1] = Len(st) /\ off[1] < off[1 + 1] /\ off[2] \in 0 .. Len(st)
    BY <2>2, <1>1 DEF Cuts
  <2> QED
    BY <2>3, <1>2
<1>4. chunks = << >>
  BY <1>2, <1>3
<1>5. out = SubSeq(st, Len(st) + 1, Len(st))
  BY <1>1, <1>3 DEF Cuts
<1> QED
  BY <1>2, <1>4, <1>5

LEMMA TravelsShips ==
    ASSUME NEW S, NEW st \in Seq(S), NEW a, NEW chunks, NEW out,
           Travels(st, a, chunks, out), NEW n \in 1 .. Len(out)
    PROVE  Travels(st, a, Append(chunks, SubSeq(out, 1, n)), SubSeq(out, n + 1, Len(out)))
<1>1. PICK off \in [1 .. Len(chunks) + 1 -> 0 .. Len(st)] : Cuts(st, a, chunks, out, off)
  BY DEF Travels
<1>2. PICK N : N = Len(chunks)
  OBVIOUS
<1>3. Len(st) \in Nat /\ N \in Nat /\ chunks \in Seq(Pieces(st))
  BY <1>2 DEF Travels
<1>4. PICK o : o = off[N + 1]
  OBVIOUS
<1>5. o \in 0 .. Len(st) /\ out = SubSeq(st, o + 1, Len(st))
  <2>1. N + 1 \in 1 .. Len(chunks) + 1
    BY <1>2, <1>3
  <2>2. o \in 0 .. Len(st)
    BY <2>1, <1>4
  <2>3. out = SubSeq(st, off[Len(chunks) + 1] + 1, Len(st))
    BY <1>1 DEF Cuts
  <2> QED
    BY <2>2, <2>3, <1>2, <1>4
<1>6. Len(out) = Len(st) - o
  BY <1>3, <1>5
<1>7. n \in Nat /\ n # 0 /\ o + n \in 0 .. Len(st) /\ o + n + 1 \in 1 .. Len(st) + 1
  BY <1>3, <1>5, <1>6
<1>8. SubSeq(out, 1, n) = SubSeq(st, o + 1, o + n)
  BY <1>3, <1>5, <1>6, <1>7
<1>9. SubSeq(out, n + 1, Len(out)) = SubSeq(st, o + n + 1, Len(st))
  <2>1. o \in Nat /\ o <= Len(st) /\ n <= Len(st) - o /\ Len(out) \in Nat
    BY <1>3, <1>5, <1>6
  <2>2. SubSeq(SubSeq(st, o + 1, Len(st)), n + 1, Len(out))
          = SubSeq(st, o + n + 1, o + Len(out))
    BY <2>1, <1>3, <1>6, <1>7, PieceOfPiece
  <2>3. o + Len(out) = Len(st)
    BY <2>1, <1>3, <1>6
  <2> QED
    BY <2>2, <2>3, <1>5
<1>10. PICK ch : ch = Append(chunks, SubSeq(out, 1, n))
  OBVIOUS
<1>11. SubSeq(st, o + 1, o + n) \in Pieces(st)
  <2>1. ASSUME NEW i \in o + 1 .. o + n PROVE st[i] \in {st[j] : j \in 1 .. Len(st)}
    <3>1. i \in 1 .. Len(st)
      BY ONLY <2>1, <1>3, <1>5, <1>7
    <3> QED
      BY ONLY <3>1
  <2>2. o + 1 \in Int /\ o + n \in Int
    BY <1>3, <1>5, <1>7
  <2> QED
    BY <2>1, <2>2, SubSeqProperties DEF Pieces
<1>12. /\ ch \in Seq(Pieces(st)) /\ Len(ch) = N + 1 /\ ch[N + 1] = SubSeq(st, o + 1, o + n)
       /\ \A j \in 1 .. N : ch[j] = chunks[j]
  <2>1. PICK P, x : P = Pieces(st) /\ x = SubSeq(st, o + 1, o + n)
    OBVIOUS
  <2>2. ch = Append(chunks, x) /\ x \in P /\ chunks \in Seq(P)
    BY <2>1, <1>3, <1>8, <1>10, <1>11
  <2>3. /\ ch \in Seq(P) /\ Len(ch) = N + 1 /\ ch[N + 1] = x
        /\ \A j \in 1 .. N : ch[j] = chunks[j]
    BY ONLY <2>2, <1>2
  <2> QED
    BY <2>1, <2>3
<1>13. PICK new : new = [j \in 1 .. N + 2 |-> IF j = N + 2 THEN o + n ELSE off[j]]
  OBVIOUS
<1>14. new \in [1 .. Len(ch) + 1 -> 0 .. Len(st)]
  <2>1. ASSUME NEW j \in 1 .. N + 2, j # N + 2 PROVE off[j] \in 0 .. Len(st)
    <3>1. j \in 1 .. Len(chunks) + 1
      BY <2>1, <1>2, <1>3
    <3> QED
      BY <3>1
  <2>2. Len(ch) + 1 = N + 2
    BY <1>3, <1>12
  <2> QED
    BY <2>1, <2>2, <1>7, <1>13
<1>15. new[1] = a
  BY <1>1, <1>3, <1>13 DEF Cuts
<1>16. ASSUME NEW j \in 1 .. Len(ch)
       PROVE  new[j] < new[j + 1] /\ ch[j] = SubSeq(st, new[j] + 1, new[j + 1])
  <2>1. j \in 1 .. N + 1 /\ j \in 1 .. N + 2 /\ j + 1 \in 1 .. N + 2 /\ j # N + 2
    BY <1>3, <1>12
  <2>2. new[j] = off[j]
    BY <2>1, <1>13
  <2>3. CASE j = N + 1
    <3>1. new[j + 1] = o + n /\ new[j] = o
      <4>1. j + 1 = N + 2
        BY <2>3, <1>3
      <4> QED
        BY <4>1, <2>1, <2>2, <2>3, <1>4, <1>13
    <3> QED
      BY <3>1, <2>3, <1>5, <1>7, <1>12
  <2>4. CASE j # N + 1
    <3>1. j \in 1 .. N /\ j + 1 # N + 2
      BY <2>1, <2>4, <1>3
    <3>2. new[j + 1] = off[j + 1] /\ ch[j] = chunks[j]
      BY <3>1, <2>1, <1>12, <1>13
    <3>3. off[j] < off[j + 1] /\ chunks[j] = SubSeq(st, off[j] + 1, off[j + 1])
      BY <3>1, <1>1, <1>2 DEF Cuts
    <3> QED
      BY <2>2, <3>2, <3>3
  <2> QED
    BY <2>3, <2>4
<1>17. SubSeq(out, n + 1, Len(out)) = SubSeq(st, new[Len(ch) + 1] + 1, Len(st))
  <2>1. Len(ch) + 1 = N + 2 /\ N + 2 \in 1 .. N + 2
    BY <1>3, <1>12
  <2>2. new[Len(ch) + 1] = o + n
    BY <2>1, <1>13
  <2> QED
    BY <2>2, <1>9
<1>18. Cuts(st, a, ch, SubSeq(out, n + 1, Len(out)), new)
  BY <1>14, <1>15, <1>16, <1>17 DEF Cuts
<1>19. Travels(st, a, ch, SubSeq(out, n + 1, Len(out)))
  BY <1>12, <1>14, <1>18 DEF Travels
<1> QED
  BY <1>10, <1>19

\* b elements have arrived with the first chunk.
Arrived(st, a, b, chunks, out) ==
    /\ b \in a + 1 .. Len(st)
    /\ Head(chunks) = SubSeq(st, a + 1, b)
    /\ Travels(st, b, Tail(chunks), out)

LEMMA TravelsArrives ==
    ASSUME NEW S, NEW st \in Seq(S), NEW a \in Nat, NEW chunks, NEW out,
           Travels(st, a, chunks, out), chunks # << >>
    PROVE  \E b : Arrived(st, a, b, chunks, out)
<1>1. PICK off \in [1 .. Len(chunks) + 1 -> 0 .. Len(st)] : Cuts(st, a, chunks, out, off)
  BY DEF Travels
<1>2. PICK N : N = Len(chunks)
  OBVIOUS
<1>3. Len(st) \in Nat /\ N \in Nat /\ chunks \in Seq(Pieces(st)) /\ N # 0
  BY <1>2 DEF Travels
<1>4. PICK ch : ch = Tail(chunks)
  OBVIOUS
<1>5. /\ ch \in Seq(Pieces(st)) /\ Len(ch) = N - 1
      /\ \A j \in 1 .. N - 1 : ch[j] = chunks[j + 1]
  BY <1>2, <1>3, <1>4
<1>6. 1 \in 1 .. N /\ 1 \in 1 .. N + 1 /\ 2 \in 1 .. N + 1
  BY <1>3
<1>7. /\ off[1] = a /\ off[1] < off[2] /\ Head(chunks) = SubSeq(st, a + 1, off[2])
      /\ off[2] \in 0 .. Len(st)
  <2>1. off[2] \in 0 .. Len(st)
    BY <1>2, <1>6
  <2>2. off[1] = a /\ off[1] < off[1 + 1] /\ chunks[1] = SubSeq(st, off[1] + 1, off[1 + 1])
    BY <1>1, <1>2, <1>6 DEF Cuts
  <2>3. Head(chunks) = chunks[1]
    BY <1>2, <1>3
  <2> QED
    BY <2>1, <2>2, <2>3
<1>8. off[2] \in a + 1 .. Len(st)
  BY <1>3, <1>7
<1>9. PICK new : new = [j \in 1 .. N |-> off[j + 1]]
  OBVIOUS
<1>10. new \in [1 .. Len(ch) + 1 -> 0 .. Len(st)]
  <2>1. ASSUME NEW j \in 1 .. N PROVE off[j + 1] \in 0 .. Len(st)
    <3>1. j + 1 \in 1 .. Len(chunks) + 1
      BY <1>2, <1>3
    <3> QED
      BY <3>1
  <2>2. Len(ch) + 1 = N
    BY <1>3, <1>5
  <2> QED
    BY <2>1, <2>2, <1>9
<1>11. new[1] = off[2]
  BY <1>6, <1>9
<1>12. ASSUME NEW j \in 1 .. Len(ch)
       PROVE  new[j] < new[j + 1] /\ ch[j] = SubSeq(st, new[j] + 1, new[j + 1])
  <2>1. j \in 1 .. N - 1 /\ j \in 1 .. N /\ j + 1 \in 1 .. N
    BY <1>3, <1>5
  <2>2. new[j] = off[j + 1] /\ new[j + 1] = off[(j + 1) + 1] /\ ch[j] = chunks[j + 1]
    BY <2>1, <1>5, <1>9
  <2>3. /\ off[j + 1] < off[(j + 1) + 1]
        /\ chunks[j + 1] = SubSeq(st, off[j + 1] + 1, off[(j + 1) + 1])
    BY <2>1, <1>1, <1>2 DEF Cuts
  <2> QED
    BY <2>2, <2>3
<1>13. out = SubSeq(st, new[Len(ch) + 1] + 1, Len(st))
  <2>1. Len(ch) + 1 = N /\ N \in 1 .. N
    BY <1>3, <1>5
  <2>2. new[Len(ch) + 1] = off[N + 1]
    BY <2>1, <1>9
  <2> QED
    BY <2>2, <1>1, <1>2 DEF Cuts
<1>14. Cuts(st, off[2], ch, out, new)
  BY <1>10, <1>11, <1>12, <1>13 DEF Cuts
<1>15. Travels(st, off[2], ch, out)
  BY <1>5, <1>10, <1>14 DEF Travels
<1>16. Arrived(st, a, off[2], chunks, out)
  BY <1>4, <1>7, <1>8, <1>15 DEF Arrived
<1> QED
  BY <1>16

-----------------------------------------------------------------------------
(* The conversation about the dictionary.  cl and sv are the two           *)
(* configurations; up and down the chunks on the circuit each way.         *)

Fields == {"op", "up2date", "cut", "dict", "in", "out"}

Question(d) == <<Op("DICT_MAC")>> \o Mac(d)
Update == <<Op("DICT_UPDATE")>> \o ExportDict(Dict) \o <<Op("END")>>
Answer(d) == IF d = Dict THEN <<Op("DICT_UP2DATE")>> ELSE Update

Silent(cfg) == cfg.op = "NO_OP" /\ cfg.in = << >> /\ cfg.out = << >>

\* Nothing is under way.
Resting(cl, sv, up, down) ==
    /\ Silent(cl) /\ Silent(sv)
    /\ up = << >> /\ down = << >>
    /\ cl.up2date => cl.dict = Dict

\* a elements of the question have arrived, and not the whole.
Asked(cl, sv, up, down, a) ==
    /\ a \in 0 .. 2
    /\ cl.op = "WAIT_PEER" /\ cl.in = << >> /\ cl.up2date = FALSE
    /\ Travels(Question(cl.dict), a, up, cl.out)
    /\ sv.op = IF a = 0 THEN "NO_OP" ELSE "DICT_MAC"
    /\ sv.in = SubSeq(Question(cl.dict), 2, a)
    /\ sv.out = << >> /\ down = << >>

\* a elements of the answer have arrived, and not the whole.
Answered(cl, sv, up, down, a) ==
    /\ a \in 0 .. Len(Answer(cl.dict)) - 1
    /\ cl.op = IF a = 0 THEN "WAIT_PEER" ELSE "DICT_UPDATE"
    /\ cl.in = SubSeq(Answer(cl.dict), 2, a)
    /\ cl.out = << >> /\ cl.up2date = FALSE
    /\ Travels(Answer(cl.dict), a, down, sv.out)
    /\ sv.op = "NO_OP" /\ sv.in = << >> /\ up = << >>

\* The server's dictionary never changes; the client cuts as much off a
\* block as its dictionary has room for, once it may use it.
Known(cl, sv) ==
    /\ DOMAIN cl = Fields /\ DOMAIN sv = Fields
    /\ sv.dict = Dict /\ sv.cut = UriByteCut(Dict)
    /\ cl.up2date \in BOOLEAN
    /\ cl.cut = IF cl.up2date THEN UriByteCut(cl.dict) ELSE 0

Talk(cl, sv, up, down) ==
    /\ Known(cl, sv)
    /\ \/ Resting(cl, sv, up, down)
       \/ \E a \in 0 .. 2 : Asked(cl, sv, up, down, a)
       \/ \E a \in 0 .. Len(Update) : Answered(cl, sv, up, down, a)

Circuit == CHOOSE k \in Circuits : TRUE

TalkInv ==
    /\ DOMAIN ckt = Circuits /\ \A k \in Circuits : DOMAIN ckt[k] = Sides
    /\ Talk(client, server, ckt[Circuit]["client"], ckt[Circuit]["server"])

LEMMA QuestionIs ==
    ASSUME NEW d
    PROVE  /\ \E S : Question(d) \in Seq(S)
           /\ Len(Question(d)) = 3
           /\ Question(d)[1] = Op("DICT_MAC")
           /\ SubSeq(Question(d), 2, 3) = Mac(d)
<1>1. PICK x, y, z : /\ x = Op("DICT_MAC")
                     /\ y = [kind |-> "mac1", dict |-> d, url |-> NoUrl]
                     /\ z = [kind |-> "mac2", dict |-> d, url |-> NoUrl]
  OBVIOUS
<1>2. Question(d) = <<x>> \o <<y, z>> /\ Mac(d) = <<y, z>>
  BY <1>1 DEF Question, Mac
<1>3. PICK S, m, q : S = {x, y, z} /\ m = <<y, z>> /\ q = <<x>> \o m
  OBVIOUS
<1>4. m \in Seq(S) /\ Len(m) = 2 /\ <<x>> \in Seq(S)
  BY <1>3
<1>5. q \in Seq(S) /\ Len(q) = 3 /\ q[1] = x /\ \A i \in 1 .. 2 : q[1 + i] = m[i]
  BY <1>3, <1>4
<1>6. PICK v : v = SubSeq(q, 2, 3)
  OBVIOUS
<1>7. v \in Seq(S) /\ Len(v) = 2 /\ \A i \in 1 .. 2 : v[i] = q[1 + i]
  <2>1. \A i \in 2 .. 3 : q[i] \in S
    <3>1. q \in Seq(S)
      BY <1>5
    <3>2. \A i \in 1 .. Len(q) : q[i] \in S
      BY ONLY <3>1
    <3> QED
      BY <3>2, <1>5
  <2>2. /\ v \in Seq(S) /\ Len(v) = IF 2 <= 3 THEN 3 - 2 + 1 ELSE 0
        /\ \A i \in 1 .. 3 - 2 + 1 : v[i] = q[2 + i - 1]
    BY <2>1, <1>6, SubSeqProperties
  <2>3. ASSUME NEW i \in 1 .. 2 PROVE v[i] = q[1 + i]
    <3>1. i \in 1 .. 3 - 2 + 1 /\ 2 + i - 1 = 1 + i
      OBVIOUS
    <3> QED
      BY <3>1, <2>2
  <2> QED
    BY <2>2, <2>3
<1>8. v = m
  BY <1>4, <1>5, <1>7
<1>9. Question(d) = q
  BY <1>2, <1>3
<1>10. \E R : Question(d) \in Seq(R)
  BY <1>5, <1>9
<1>11. Question(d)[1] = Op("DICT_MAC") /\ Len(Question(d)) = 3
  BY <1>1, <1>5, <1>9
<1>12. SubSeq(Question(d), 2, 3) = Mac(d)
  BY <1>2, <1>3, <1>6, <1>8, <1>9
<1> QED
  BY <1>10, <1>11, <1>12

LEMMA UpdateIs ==
    /\ \E S : Update \in Seq(S)
    /\ Len(Update) = Len(Dict) + 2 /\ Len(Dict) \in Nat
    /\ Update[1] = Op("DICT_UPDATE")
    /\ Update[Len(Update)] = Op("END")
    /\ \A i \in 2 .. Len(Dict) + 1 : Update[i] # Op("END")
    /\ SubSeq(Update, 2, Len(Dict) + 1) = ExportDict(Dict)
<1>1. PICK n \in Nat : n = Len(Dict)
  BY DictAssumption
<1>2. DOMAIN Dict = 1 .. n
  BY <1>1, DictAssumption
<1>3. PICK x, z, e : x = Op("DICT_UPDATE") /\ z = Op("END") /\ e = ExportDict(Dict)
  OBVIOUS
<1>4. e = [i \in 1 .. n |-> [kind |-> "url", dict |-> << >>, url |-> Dict[i]]]
  BY <1>2, <1>3 DEF ExportDict
<1>5. PICK S : S = {e[i] : i \in 1 .. n} \cup {x, z}
  OBVIOUS
<1>6. e \in Seq(S) /\ Len(e) = n
  <2>1. \A i \in 1 .. n : e[i] \in S
    BY <1>5
  <2>2. e \in [1 .. n -> S]
    BY <2>1, <1>4
  <2> QED
    BY <2>2
<1>7. \A i \in 1 .. n : e[i] # z
  <2>1. ASSUME NEW i \in 1 .. n PROVE e[i].kind = "url"
    BY <1>4
  <2>2. z.kind = "END"
    BY <1>3 DEF Op
  <2> QED
    BY <2>1, <2>2
<1>8. Update = <<x>> \o e \o <<z>>
  BY <1>3 DEF Update
<1>9. x \in S /\ z \in S /\ <<x>> \in Seq(S) /\ <<z>> \in Seq(S)
  BY <1>5
<1>10. PICK u : u = <<x>> \o e
  OBVIOUS
<1>11. /\ u \in Seq(S) /\ Len(u) = n + 1 /\ u[1] = x
       /\ \A i \in 2 .. n + 1 : u[i] = e[i - 1]
  BY ONLY <1>6, <1>9, <1>10, n \in Nat
<1>12. PICK w : w = u \o <<z>>
  OBVIOUS
<1>13. /\ w \in Seq(S) /\ Len(w) = n + 2 /\ w[n + 2] = z
       /\ \A i \in 1 .. n + 1 : w[i] = u[i]
  BY ONLY <1>9, <1>11, <1>12, n \in Nat
<1>14. Update = w
  BY <1>8, <1>10, <1>12
<1>15. w[1] = x
  BY <1>11, <1>13
<1>16. \A i \in 2 .. n + 1 : w[i] = e[i - 1] /\ i - 1 \in 1 .. n
  BY <1>11, <1>13
<1>17. SubSeq(w, 2, n + 1) = e
  <2>1. PICK v : v = SubSeq(w, 1 + 1, n + 1)
    OBVIOUS
  <2>2. v \in Seq(S) /\ Len(v) = n /\ \A i \in 1 .. n : v[i] = w[1 + i]
    <3>1. 1 \in Nat /\ n + 1 \in Nat /\ 1 <= n + 1 /\ n + 1 <= Len(w) /\ (n + 1) - 1 = n
      BY <1>13
    <3> QED
      BY <3>1, <2>1, <1>13, Piece
  <2>3. ASSUME NEW i \in 1 .. n PROVE v[i] = e[i]
    <3>1. 1 + i \in 2 .. n + 1 /\ (1 + i) - 1 = i
      OBVIOUS
    <3> QED
      BY <3>1, <2>2, <1>16
  <2>4. v = e
    BY <2>2, <2>3, <1>6
  <2> QED
    BY <2>1, <2>4
<1>18. \A i \in 2 .. n + 1 : w[i] # z
  BY <1>7, <1>16
<1> QED
  BY <1>1, <1>3, <1>13, <1>14, <1>15, <1>17, <1>18

LEMMA AnswerIs ==
    ASSUME NEW d
    PROVE  /\ \E S : Answer(d) \in Seq(S)
           /\ Len(Answer(d)) \in Nat \ {0} /\ Len(Answer(d)) <= Len(Update)
           /\ d = Dict => Len(Answer(d)) = 1 /\ Answer(d)[1] = Op("DICT_UP2DATE")
           /\ d # Dict => Answer(d) = Update
<1>1. CASE d # Dict
  BY <1>1, UpdateIs DEF Answer
<1>2. CASE d = Dict
  <2>1. PICK x : x = Op("DICT_UP2DATE")
    OBVIOUS
  <2>2. Answer(d) = <<x>>
    BY <2>1, <1>2 DEF Answer
  <2>3. <<x>> \in Seq({x}) /\ Len(<<x>>) = 1 /\ <<x>>[1] = x
    OBVIOUS
  <2>4. 1 <= Len(Update)
    BY UpdateIs
  <2>5. \E S : Answer(d) \in Seq(S)
    BY <2>2, <2>3
  <2>6. Len(Answer(d)) = 1 /\ Answer(d)[1] = x
    BY <2>2, <2>3
  <2> QED
    BY <2>1, <2>4, <2>5, <2>6, <1>2
<1> QED
  BY <1>1, <1>2

Same(new, cfg) ==
    /\ DOMAIN new = Fields
    /\ new.dict = cfg.dict /\ new.cut = cfg.cut
    /\ new.out = cfg.out /\ new.up2date = cfg.up2date

\* cfg had heard a elements of a message st that begins with the operation
\* o, and has now heard b.
Hearing(S, st, o, a, b, cfg, new) ==
    /\ st \in Seq(S) /\ o \in Ops /\ st[1] = Op(o)
    /\ a \in Nat /\ b \in Nat /\ a < b /\ b <= Len(st)
    /\ DOMAIN cfg = Fields
    /\ a = 0 => cfg.op \in {"NO_OP", "WAIT_PEER"}
    /\ a # 0 => cfg.op = o
    /\ cfg.in = SubSeq(st, 2, a)
    /\ new = NextOperation([cfg EXCEPT !.in = @ \o SubSeq(st, a + 1, b)])

\* The operation under way is the one the message begins with.
LEMMA TakesOperation ==
    ASSUME NEW S, NEW st, NEW o, NEW a, NEW b, NEW cfg, NEW new,
           Hearing(S, st, o, a, b, cfg, new)
    PROVE  Same(new, cfg) /\ new.op = o /\ new.in = SubSeq(st, 2, b)
<1> USE DEF Hearing
<1>1. PICK chunk : chunk = SubSeq(st, a + 1, b)
  OBVIOUS
<1>2. PICK c : c = [cfg EXCEPT !.in = @ \o chunk]
  OBVIOUS
<1>3. Same(c, cfg) /\ c.op = cfg.op /\ c.in = cfg.in \o chunk
  BY <1>2 DEF Same, Fields
<1>4. new = NextOperation(c)
  BY <1>1, <1>2
<1>5. CASE a = 0
  <2>1. cfg.in = << >>
    BY <1>5
  <2>2. 1 \in 1 .. Len(st) /\ b \in 1 .. Len(st)
    BY <1>5
  <2>3. chunk = SubSeq(st, 1, b)
    BY <1>1, <1>5
  <2>4. Head(chunk) = st[1] /\ Tail(chunk) = SubSeq(st, 1 + 1, b)
    BY <2>2, <2>3, HeadTailOfSubSeq
  <2>5. chunk \in Seq(S)
    BY <1>1, Piece
  <2>6. c.in = chunk
    BY <1>3, <2>1, <2>5, ConcatEmptySeq
  <2>7. Head(c.in).kind = o
    BY <2>4, <2>6 DEF Op
  <2>8. c.op \in {"NO_OP", "WAIT_PEER"}
    BY <1>3, <1>5
  <2>9. new = [c EXCEPT !.in = Tail(@), !.op = o]
    BY <1>4, <2>7, <2>8 DEF NextOperation
  <2>10. Same(new, c) /\ new.op = o /\ new.in = Tail(c.in)
    BY <2>9, <1>3 DEF Same, Fields
  <2>11. new.in = SubSeq(st, 2, b)
    <3>1. new.in = Tail(chunk)
      BY <2>6, <2>10
    <3>2. 1 + 1 = 2
      OBVIOUS
    <3>3. Tail(chunk) = SubSeq(st, 2, b)
      BY ONLY <2>4, <3>2, Zenon
    <3> QED
      BY <3>1, <3>3
  <2> QED
    BY <2>10, <2>11, <1>3 DEF Same
<1>6. CASE a # 0
  <2>1. c.op = o /\ o \notin {"NO_OP", "WAIT_PEER"}
    BY <1>3, <1>6 DEF Ops
  <2>2. new = c
    BY <1>4, <2>1 DEF NextOperation
  <2>3. 2 \in 1 .. Len(st) + 1 /\ a \in 2 - 1 .. Len(st) /\ b \in a .. Len(st)
    BY <1>6
  <2>4. SubSeq(st, 2, a) \o SubSeq(st, a + 1, b) = SubSeq(st, 2, b)
    BY <2>3, ConcatAdjacentSubSeq
  <2> QED
    BY <2>1, <2>2, <2>4, <1>1, <1>3
<1> QED
  BY <1>5, <1>6

\* The server, when it has heard b elements of a question.
LEMMA MacHeard ==
    ASSUME NEW cfg, DOMAIN cfg = Fields, cfg.op = "DICT_MAC", cfg.dict = Dict,
           cfg.out = << >>, NEW d, NEW b \in 1 .. 3,
           cfg.in = SubSeq(Question(d), 2, b), NEW new, new = DictMac(cfg)
    PROVE  /\ DOMAIN new = Fields /\ new.dict = Dict /\ new.cut = cfg.cut
           /\ b # 3 => new.op = "DICT_MAC" /\ new.in = cfg.in /\ new.out = << >>
           /\ b = 3 => new.op = "NO_OP" /\ new.in = << >> /\ new.out = Answer(d)
<1>1. PICK S, q : q = Question(d) /\ q \in Seq(S)
  BY QuestionIs
<1>2. Len(q) = 3 /\ SubSeq(q, 2, 3) = Mac(d)
  BY <1>1, QuestionIs
<1>3. CASE b # 3
  <2>1. b \in {1, 2}
    BY <1>3
  <2>2. Len(SubSeq(q, 2, b)) < 2
    <3>1. \A i \in 2 .. b : q[i] \in S
      <4>1. \A i \in 1 .. Len(q) : q[i] \in S
        BY ONLY <1>1
      <4> QED
        BY <4>1, <2>1, <1>2
    <3>2. Len(SubSeq(q, 2, b)) = IF 2 <= b THEN b - 2 + 1 ELSE 0
      BY <3>1, SubSeqProperties
    <3> QED
      BY <3>2, <2>1
  <2>3. new = cfg
    BY <2>2, <1>1 DEF DictMac
  <2> QED
    BY <2>3, <1>3
<1>4. CASE b = 3
  <2>1. PICK y, z : /\ y = [kind |-> "mac1", dict |-> d, url |-> NoUrl]
                    /\ z = [kind |-> "mac2", dict |-> d, url |-> NoUrl]
    OBVIOUS
  <2>2. cfg.in = Mac(d) /\ Mac(d) = <<y, z>>
    BY <2>1, <1>1, <1>2, <1>4 DEF Mac
  <2>3. PICK m : m = <<y, z>>
    OBVIOUS
  <2>4. m \in Seq({y, z}) /\ Len(m) = 2
    BY <2>3
  <2>5. SubSeq(m, 1, 2) = m /\ SubSeq(m, 3, 2) = << >>
    <3>1. SubSeq(m, 1, Len(m)) = m
      BY <2>4, SubSeqFull
    <3>2. SubSeq(m, 3, 2) = << >>
      BY SubSeqEmpty
    <3> QED
      BY <3>1, <3>2, <2>4
  <2>6. cfg.in = m
    BY <2>2, <2>3
  <2>7. PICK done : done = [cfg EXCEPT !.in = SubSeq(@, 3, Len(@)), !.op = "NO_OP"]
    OBVIOUS
  <2>8. /\ DOMAIN done = Fields /\ done.dict = Dict /\ done.cut = cfg.cut
        /\ done.out = << >> /\ done.op = "NO_OP" /\ done.in = << >>
    <3>1. /\ DOMAIN done = Fields /\ done.dict = Dict /\ done.cut = cfg.cut
          /\ done.out = << >> /\ done.op = "NO_OP"
          /\ done.in = SubSeq(cfg.in, 3, Len(cfg.in))
      BY <2>7 DEF Fields
    <3> QED
      BY <3>1, <2>4, <2>5, <2>6
  <2>9. new = IF m = Mac(Dict) THEN [done EXCEPT !.out = Append(@, Op("DICT_UP2DATE"))]
              ELSE SendDictToPeer(done)
    <3>1. ~(Len(m) < 2)
      BY <2>4
    <3>2. ~(Len(cfg.in) < 2) /\ SubSeq(cfg.in, 1, 2) = m
      BY ONLY <3>1, <2>5, <2>6, Zenon
    <3> QED
      BY <3>2, <2>7 DEF DictMac
  <2>10. m = Mac(Dict) <=> d = Dict
    <3>1. m = Mac(d) /\ m[1] = y /\ y.dict = d
      BY <2>1, <2>2, <2>3
    <3>2. Mac(Dict)[1].dict = Dict
      BY DEF Mac
    <3> QED
      BY <3>1, <3>2
  <2>11. CASE d = Dict
    <3>1. new = [done EXCEPT !.out = Append(@, Op("DICT_UP2DATE"))]
      BY <2>9, <2>10, <2>11
    <3>2. /\ DOMAIN new = Fields /\ new.dict = Dict /\ new.cut = cfg.cut
          /\ new.op = "NO_OP" /\ new.in = << >>
          /\ new.out = Append(done.out, Op("DICT_UP2DATE"))
      BY <3>1, <2>8 DEF Fields
    <3>3. PICK x : x = Op("DICT_UP2DATE")
      OBVIOUS
    <3>4. Append(<< >>, x) = <<x>>
      OBVIOUS
    <3>5. new.out = Answer(d)
      BY <3>2, <3>3, <3>4, <2>8, <2>11 DEF Answer
    <3> QED
      BY <3>2, <3>5, <1>4
  <2>12. CASE d # Dict
    <3>1. new = SendDictToPeer(done)
      BY <2>9, <2>10, <2>12
    <3>2. PICK x, z1, e : x = Op("DICT_UPDATE") /\ z1 = Op("END") /\ e = ExportDict(Dict)
      OBVIOUS
    <3>3. new = [done EXCEPT !.op = "NO_OP", !.out = @ \o <<x>> \o e \o <<z1>>]
      BY <3>1, <3>2, <2>8 DEF SendDictToPeer
    <3>4. /\ DOMAIN new = Fields /\ new.dict = Dict /\ new.cut = cfg.cut
          /\ new.op = "NO_OP" /\ new.in = << >>
          /\ new.out = done.out \o <<x>> \o e \o <<z1>>
      BY <3>3, <2>8 DEF Fields
    <3>5. done.out \o <<x>> = <<x>>
      <4>1. <<x>> \in Seq({x})
        OBVIOUS
      <4> QED
        BY <4>1, <2>8, ConcatEmptySeq
    <3>6. new.out = Answer(d)
      <4>1. new.out = <<x>> \o e \o <<z1>>
        BY <3>4, <3>5
      <4> QED
        BY <4>1, <3>2, <2>12 DEF Answer, Update
    <3> QED
      BY <3>4, <3>6, <1>4
  <2> QED
    BY <2>11, <2>12
<1> QED
  BY <1>3, <1>4

\* The client, when it has heard b elements of an update.
LEMMA UpdateHeard ==
    ASSUME NEW cfg, DOMAIN cfg = Fields, cfg.op = "DICT_UPDATE",
           NEW b \in 1 .. Len(Update), cfg.in = SubSeq(Update, 2, b),
           NEW new, new = DictUpdate(cfg)
    PROVE  /\ b # Len(Update) => new = cfg
           /\ b = Len(Update) => /\ DOMAIN new = Fields
                                 /\ new.in = << >> /\ new.out = cfg.out
                                 /\ new.dict = Dict /\ new.up2date = TRUE
                                 /\ new.cut = UriByteCut(Dict) /\ new.op = "NO_OP"
<1>1. PICK S, u : u = Update /\ u \in Seq(S)
  BY UpdateIs
<1>2. PICK n : n = Len(Dict) + 2
  OBVIOUS
<1>3. /\ Len(u) = n /\ n - 2 \in Nat /\ n \in Nat /\ u[n] = Op("END")
      /\ \A i \in 2 .. n - 1 : u[i] # Op("END")
      /\ SubSeq(u, 2, n - 1) = ExportDict(Dict)
  <2>1. Len(Dict) + 1 = n - 1 /\ n - 2 = Len(Dict)
    BY <1>2, UpdateIs
  <2> QED
    BY <2>1, <1>1, <1>2, UpdateIs
<1>4. b \in Nat /\ b # 0 /\ b <= n
  BY <1>1, <1>3
<1>5. PICK c : c = SubSeq(u, 2, b)
  OBVIOUS
<1>6. c \in Seq(S) /\ Len(c) = b - 1 /\ \A i \in 1 .. b - 1 : c[i] = u[1 + i]
  <2>1. \A i \in 2 .. b : u[i] \in S
    <3>1. \A i \in 1 .. Len(u) : u[i] \in S
      BY ONLY <1>1
    <3> QED
      BY <3>1, <1>3, <1>4
  <2>2. /\ c \in Seq(S) /\ Len(c) = IF 2 <= b THEN b - 2 + 1 ELSE 0
        /\ \A i \in 1 .. b - 2 + 1 : c[i] = u[2 + i - 1]
    BY <2>1, <1>4, <1>5, SubSeqProperties
  <2>3. ASSUME NEW i \in 1 .. b - 1 PROVE c[i] = u[1 + i]
    <3>1. i \in 1 .. b - 2 + 1 /\ 2 + i - 1 = 1 + i
      BY <1>4
    <3> QED
      BY <3>1, <2>2
  <2> QED
    BY <2>2, <2>3, <1>4
<1>7. CASE b # n
  <2>1. ASSUME NEW i \in 1 .. b - 1 PROVE c[i] # Op("END")
    <3>1. 1 + i \in 2 .. n - 1
      BY <1>3, <1>4, <1>7
    <3> QED
      BY <3>1, <1>3, <1>6
  <2>2. ~Contains(c, Op("END"))
    BY <2>1, <1>6 DEF Contains
  <2>3. new = cfg
    BY <2>2, <1>1, <1>5 DEF DictUpdate
  <2> QED
    BY <2>3, <1>1, <1>3, <1>7
<1>8. CASE b = n
  <2>1. n - 1 \in 1 .. b - 1 /\ 1 + (n - 1) = n
    BY <1>3, <1>8
  <2>2. c[n - 1] = Op("END")
    BY <2>1, <1>3, <1>6
  <2>3. Contains(c, Op("END"))
    BY <2>1, <2>2, <1>6 DEF Contains
  <2>4. Front(c) = ExportDict(Dict)
    <3>1. PICK k \in Nat : k = n - 2
      BY <1>3
    <3>2. SubSeq(u, 1 + 1, n) = c /\ Len(c) - 1 = k
      BY <3>1, <1>3, <1>5, <1>6, <1>8
    <3>3. /\ 1 \in Nat /\ 0 \in Nat /\ 1 <= n /\ n <= Len(u) /\ 0 <= k /\ k <= n - 1
          /\ 1 + 0 + 1 = 2 /\ 1 + k = n - 1 /\ 0 + 1 = 1
      BY <3>1, <1>3
    <3>4. SubSeq(SubSeq(u, 1 + 1, n), 0 + 1, k) = SubSeq(u, 1 + 0 + 1, 1 + k)
      BY <3>1, <3>3, <1>1, <1>3, PieceOfPiece
    <3>5. SubSeq(c, 1, k) = SubSeq(u, 2, n - 1)
      BY ONLY <3>2, <3>3, <3>4, Zenon
    <3> QED
      BY <3>2, <3>5, <1>3 DEF Front
  <2>5. InitUriDict(Front(c)) = Dict
    BY <2>4, DictAssumption, ExportedAndRead
  <2>6. cfg.in = c
    BY <1>1, <1>5
  <2>7. new = [cfg EXCEPT !.in = << >>, !.dict = Dict, !.up2date = TRUE,
                          !.cut = UriByteCut(Dict), !.op = "NO_OP"]
    BY <2>3, <2>5, <2>6 DEF DictUpdate
  <2>8. /\ DOMAIN new = Fields /\ new.in = << >> /\ new.out = cfg.out
        /\ new.dict = Dict /\ new.up2date = TRUE
        /\ new.cut = UriByteCut(Dict) /\ new.op = "NO_OP"
    BY <2>7 DEF Fields
  <2> QED
    BY <2>8, <1>1, <1>3, <1>8
<1> QED
  BY <1>7, <1>8

-----------------------------------------------------------------------------
(* The steps of the conversation.                                          *)

Hears(cfg, chunk) == ProcessProtocolData([cfg EXCEPT !.in = @ \o chunk])

\* The client's new configuration after its first question.
Asks(cl) == [cl EXCEPT !.op = "WAIT_PEER", !.out = @ \o <<Op("DICT_MAC")>> \o Mac(cl.dict)]

LEMMA TalkBegins ==
    ASSUME NEW d, NEW sv, DOMAIN sv = Fields, sv.dict = Dict,
           sv.cut = UriByteCut(Dict), Silent(sv)
    PROVE  Talk(NewConfig(d), sv, << >>, << >>)
<1>1. PICK cl : cl = NewConfig(d)
  OBVIOUS
<1>2. /\ DOMAIN cl = Fields /\ cl.op = "NO_OP" /\ cl.in = << >> /\ cl.out = << >>
      /\ cl.up2date = FALSE /\ cl.cut = 0
  BY <1>1 DEF NewConfig, Fields
<1>3. Known(cl, sv) /\ Resting(cl, sv, << >>, << >>)
  BY <1>2 DEF Known, Resting, Silent
<1> QED
  BY <1>1, <1>3 DEF Talk

LEMMA TalkAsks ==
    ASSUME NEW cl, NEW sv, NEW up, NEW down, Talk(cl, sv, up, down),
           ~cl.up2date, cl.op = "NO_OP"
    PROVE  Talk(Asks(cl), sv, up, down)
<1>1. Known(cl, sv) /\ cl.up2date = FALSE
  BY DEF Talk, Known
<1>2. Resting(cl, sv, up, down)
  <2>1. ASSUME NEW a, Asked(cl, sv, up, down, a) PROVE FALSE
    BY <2>1 DEF Asked
  <2>2. ASSUME NEW a, Answered(cl, sv, up, down, a) PROVE FALSE
    BY <2>2 DEF Answered
  <2> QED
    BY <2>1, <2>2 DEF Talk
<1>3. PICK new, d : new = Asks(cl) /\ d = cl.dict
  OBVIOUS
<1>4. /\ DOMAIN new = Fields /\ new.op = "WAIT_PEER" /\ new.dict = d
      /\ new.in = << >> /\ new.up2date = FALSE /\ new.cut = 0
      /\ new.out = cl.out \o <<Op("DICT_MAC")>> \o Mac(d)
  BY <1>1, <1>2, <1>3 DEF Asks, Known, Resting, Silent, Fields
<1>5. new.out = Question(d)
  <2>1. PICK x : x = Op("DICT_MAC")
    OBVIOUS
  <2>2. << >> \o <<x>> = <<x>>
    <3>1. <<x>> \in Seq({x})
      OBVIOUS
    <3> QED
      BY <3>1, ConcatEmptySeq
  <2>3. cl.out = << >>
    BY <1>2 DEF Resting, Silent
  <2> QED
    BY <2>1, <2>2, <2>3, <1>4 DEF Question
<1>6. Travels(Question(d), 0, up, new.out)
  <2>1. up = << >>
    BY <1>2 DEF Resting
  <2> QED
    BY <2>1, <1>5, QuestionIs, TravelsBegins
<1>7. SubSeq(Question(d), 2, 0) = << >>
  BY SubSeqEmpty
<1>8. Asked(new, sv, up, down, 0)
  BY <1>2, <1>4, <1>6, <1>7 DEF Asked, Resting, Silent
<1>9. Known(new, sv)
  BY <1>1, <1>4 DEF Known
<1> QED
  BY <1>3, <1>8, <1>9 DEF Talk

Shipped(cfg, n) == [cfg EXCEPT !.out = SubSeq(@, n + 1, Len(@))]

LEMMA ShippedIs ==
    ASSUME NEW cfg, DOMAIN cfg = Fields, NEW n
    PROVE  /\ DOMAIN Shipped(cfg, n) = Fields
           /\ Shipped(cfg, n).op = cfg.op /\ Shipped(cfg, n).dict = cfg.dict
           /\ Shipped(cfg, n).in = cfg.in /\ Shipped(cfg, n).up2date = cfg.up2date
           /\ Shipped(cfg, n).cut = cfg.cut
           /\ Shipped(cfg, n).out = SubSeq(cfg.out, n + 1, Len(cfg.out))
  BY DEF Shipped, Fields

LEMMA TalkShipsUp ==
    ASSUME NEW cl, NEW sv, NEW up, NEW down, Talk(cl, sv, up, down),
           cl.out # << >>, NEW n \in 1 .. Len(cl.out)
    PROVE  Talk(Shipped(cl, n), sv, Append(up, SubSeq(cl.out, 1, n)), down)
<1>1. Known(cl, sv)
  BY DEF Talk
<1>2. PICK a \in 0 .. 2 : Asked(cl, sv, up, down, a)
  <2>1. ~Resting(cl, sv, up, down)
    BY DEF Resting, Silent
  <2>2. ASSUME NEW a, Answered(cl, sv, up, down, a) PROVE FALSE
    BY <2>2 DEF Answered
  <2> QED
    BY <2>1, <2>2 DEF Talk
<1>3. PICK new, q, ch : /\ new = Shipped(cl, n) /\ q = Question(cl.dict)
                        /\ ch = Append(up, SubSeq(cl.out, 1, n))
  OBVIOUS
<1>4. /\ DOMAIN new = Fields /\ new.op = cl.op /\ new.dict = cl.dict /\ new.in = cl.in
      /\ new.up2date = cl.up2date /\ new.cut = cl.cut
      /\ new.out = SubSeq(cl.out, n + 1, Len(cl.out))
  BY <1>1, <1>3, ShippedIs DEF Known
<1>5. Travels(q, a, ch, new.out)
  <2>1. PICK S : q \in Seq(S)
    BY <1>3, QuestionIs
  <2>2. Travels(q, a, up, cl.out)
    BY <1>2, <1>3 DEF Asked
  <2>3. Travels(q, a, ch, SubSeq(cl.out, n + 1, Len(cl.out)))
    BY <2>1, <2>2, <1>3, TravelsShips
  <2> QED
    BY <2>3, <1>4
<1>6. Asked(new, sv, ch, down, a)
  BY <1>2, <1>3, <1>4, <1>5 DEF Asked
<1>7. Known(new, sv)
  BY <1>1, <1>4 DEF Known
<1> QED
  BY <1>3, <1>6, <1>7 DEF Talk

LEMMA TalkShipsDown ==
    ASSUME NEW cl, NEW sv, NEW up, NEW down, Talk(cl, sv, up, down),
           sv.out # << >>, NEW n \in 1 .. Len(sv.out)
    PROVE  Talk(cl, Shipped(sv, n), up, Append(down, SubSeq(sv.out, 1, n)))
<1>1. Known(cl, sv)
  BY DEF Talk
<1>2. PICK a \in 0 .. Len(Update) : Answered(cl, sv, up, down, a)
  <2>1. ~Resting(cl, sv, up, down)
    BY DEF Resting, Silent
  <2>2. ASSUME NEW a, Asked(cl, sv, up, down, a) PROVE FALSE
    BY <2>2 DEF Asked
  <2> QED
    BY <2>1, <2>2 DEF Talk
<1>3. PICK new, r, ch : /\ new = Shipped(sv, n) /\ r = Answer(cl.dict)
                        /\ ch = Append(down, SubSeq(sv.out, 1, n))
  OBVIOUS
<1>4. /\ DOMAIN new = Fields /\ new.op = sv.op /\ new.dict = sv.dict /\ new.in = sv.in
      /\ new.cut = sv.cut /\ new.out = SubSeq(sv.out, n + 1, Len(sv.out))
  BY <1>1, <1>3, ShippedIs DEF Known
<1>5. Travels(r, a, ch, new.out)
  <2>1. PICK S : r \in Seq(S)
    BY <1>3, AnswerIs
  <2>2. Travels(r, a, down, sv.out)
    BY <1>2, <1>3 DEF Answered
  <2>3. Travels(r, a, ch, SubSeq(sv.out, n + 1, Len(sv.out)))
    BY <2>1, <2>2, <1>3, TravelsShips
  <2> QED
    BY <2>3, <1>4
<1>6. Answered(cl, new, up, ch, a)
  BY <1>2, <1>3, <1>4, <1>5 DEF Answered
<1>7. Known(cl, new)
  BY <1>1, <1>4 DEF Known
<1> QED
  BY <1>3, <1>6, <1>7 DEF Talk

LEMMA TalkDeliversUp ==
    ASSUME NEW cl, NEW sv, NEW up, NEW down, Talk(cl, sv, up, down), up # << >>
    PROVE  Talk(cl, Hears(sv, Head(up)), Tail(up), down)
<1>1. Known(cl, sv)
  BY DEF Talk
<1>2. PICK a \in 0 .. 2 : Asked(cl, sv, up, down, a)
  <2>1. ~Resting(cl, sv, up, down)
    BY DEF Resting
  <2>2. ASSUME NEW a, Answered(cl, sv, up, down, a) PROVE FALSE
    BY <2>2 DEF Answered
  <2> QED
    BY <2>1, <2>2 DEF Talk
<1>3. PICK d, q, new : d = cl.dict /\ q = Question(d) /\ new = Hears(sv, Head(up))
  OBVIOUS
<1>4. PICK S : q \in Seq(S)
  BY <1>3, QuestionIs
<1>5. Len(q) = 3 /\ q[1] = Op("DICT_MAC")
  BY <1>3, QuestionIs
<1>6. PICK b : Arrived(q, a, b, up, cl.out)
  <2>1. Travels(q, a, up, cl.out) /\ a \in Nat
    BY <1>2, <1>3 DEF Asked
  <2> QED
    BY <2>1, <1>4, TravelsArrives
<1>7. /\ b \in 1 .. 3 /\ b \in Nat /\ a \in Nat /\ a < b /\ b <= Len(q)
      /\ Head(up) = SubSeq(q, a + 1, b) /\ Travels(q, b, Tail(up), cl.out)
  BY <1>5, <1>6 DEF Arrived
<1>8. PICK c : c = NextOperation([sv EXCEPT !.in = @ \o SubSeq(q, a + 1, b)])
  OBVIOUS
<1>9. Same(c, sv) /\ c.op = "DICT_MAC" /\ c.in = SubSeq(q, 2, b)
  <2>1. DOMAIN sv = Fields /\ "DICT_MAC" \in Ops
    BY <1>1 DEF Known, Ops
  <2>2. /\ a = 0 => sv.op \in {"NO_OP", "WAIT_PEER"}
        /\ a # 0 => sv.op = "DICT_MAC"
        /\ sv.in = SubSeq(q, 2, a)
    BY <1>2, <1>3 DEF Asked
  <2> QED
    <3>1. Hearing(S, q, "DICT_MAC", a, b, sv, c)
      BY <2>1, <2>2, <1>4, <1>5, <1>7, <1>8 DEF Hearing
    <3> QED
      BY <3>1, TakesOperation
<1>10. new = DictMac(c)
  BY <1>3, <1>7, <1>8, <1>9 DEF Hears, ProcessProtocolData
<1>11. DOMAIN c = Fields /\ c.dict = Dict /\ c.out = << >> /\ c.cut = sv.cut
  BY <1>1, <1>2, <1>9 DEF Same, Known, Asked
<1>12. /\ DOMAIN new = Fields /\ new.dict = Dict /\ new.cut = c.cut
       /\ b # 3 => new.op = "DICT_MAC" /\ new.in = c.in /\ new.out = << >>
       /\ b = 3 => new.op = "NO_OP" /\ new.in = << >> /\ new.out = Answer(d)
  BY <1>3, <1>7, <1>9, <1>10, <1>11, MacHeard
<1>13. Known(cl, new)
  BY <1>1, <1>11, <1>12 DEF Known
<1>14. CASE b # 3
  <2>1. b \in 0 .. 2 /\ b # 0
    BY <1>7, <1>14
  <2>2. Asked(cl, new, Tail(up), down, b)
    BY <2>1, <1>2, <1>3, <1>7, <1>9, <1>12, <1>14 DEF Asked
  <2> QED
    BY <2>1, <2>2, <1>3, <1>13 DEF Talk
<1>15. CASE b = 3
  <2>1. Tail(up) = << >> /\ cl.out = << >>
    BY <1>4, <1>5, <1>7, <1>15, TravelsEnded
  <2>2. PICK r : r = Answer(d)
    OBVIOUS
  <2>3. PICK R : r \in Seq(R)
    BY <2>2, AnswerIs
  <2>4. Travels(r, 0, << >>, r)
    BY <2>3, TravelsBegins
  <2>5. 0 \in 0 .. Len(r) - 1 /\ 0 \in 0 .. Len(Update)
    BY <2>2, AnswerIs
  <2>6. SubSeq(r, 2, 0) = << >>
    BY SubSeqEmpty
  <2>7. cl.op = "WAIT_PEER" /\ cl.in = << >> /\ cl.up2date = FALSE /\ down = << >>
    BY <1>2 DEF Asked
  <2>8. new.op = "NO_OP" /\ new.in = << >> /\ new.out = r
    BY <2>2, <1>12, <1>15
  <2>9. Answered(cl, new, Tail(up), down, 0)
    BY <2>1, <2>2, <2>4, <2>5, <2>6, <2>7, <2>8, <1>3 DEF Answered
  <2> QED
    BY <2>5, <2>9, <1>3, <1>13 DEF Talk
<1> QED
  BY <1>14, <1>15

LEMMA TalkDeliversDown ==
    ASSUME NEW cl, NEW sv, NEW up, NEW down, Talk(cl, sv, up, down), down # << >>
    PROVE  Talk(Hears(cl, Head(down)), sv, up, Tail(down))
<1>1. Known(cl, sv)
  BY DEF Talk
<1>2. PICK a \in 0 .. Len(Update) : Answered(cl, sv, up, down, a)
  <2>1. ~Resting(cl, sv, up, down)
    BY DEF Resting
  <2>2. ASSUME NEW a, Asked(cl, sv, up, down, a) PROVE FALSE
    BY <2>2 DEF Asked
  <2> QED
    BY <2>1, <2>2 DEF Talk
<1>3. PICK d, r, new : d = cl.dict /\ r = Answer(d) /\ new = Hears(cl, Head(down))
  OBVIOUS
<1>4. PICK S : r \in Seq(S)
  BY <1>3, AnswerIs
<1>5. Len(r) \in Nat \ {0} /\ Len(r) <= Len(Update) /\ Len(Update) \in Nat
  BY <1>3, AnswerIs, UpdateIs
<1>6. PICK b : Arrived(r, a, b, down, sv.out)
  <2>1. Travels(r, a, down, sv.out) /\ a \in Nat
    BY <1>2, <1>3, <1>5 DEF Answered
  <2> QED
    BY <2>1, <1>4, TravelsArrives
<1>7. /\ b \in 1 .. Len(r) /\ b \in Nat /\ a \in Nat /\ a < b /\ b <= Len(r)
      /\ Head(down) = SubSeq(r, a + 1, b) /\ Travels(r, b, Tail(down), sv.out)
  BY <1>5, <1>6 DEF Arrived
<1>8. PICK c : c = NextOperation([cl EXCEPT !.in = @ \o SubSeq(r, a + 1, b)])
  OBVIOUS
<1>9. PICK o : o = IF d = Dict THEN "DICT_UP2DATE" ELSE "DICT_UPDATE"
  OBVIOUS
<1>10. Same(c, cl) /\ c.op = o /\ c.in = SubSeq(r, 2, b)
  <2>1. DOMAIN cl = Fields /\ o \in Ops /\ r[1] = Op(o)
    BY <1>1, <1>3, <1>9, AnswerIs, UpdateIs DEF Known, Ops
  <2>2. d = Dict => a = 0
    BY <1>3, <1>7, AnswerIs
  <2>3. /\ a = 0 => cl.op \in {"NO_OP", "WAIT_PEER"}
        /\ a # 0 => cl.op = o
        /\ cl.in = SubSeq(r, 2, a)
    BY <2>2, <1>2, <1>3, <1>9 DEF Answered
  <2> QED
    <3>1. Hearing(S, r, o, a, b, cl, c)
      BY <2>1, <2>3, <1>4, <1>7, <1>8 DEF Hearing
    <3> QED
      BY <3>1, TakesOperation
<1>11. /\ DOMAIN c = Fields /\ c.dict = d /\ c.out = << >> /\ c.cut = cl.cut
       /\ c.up2date = FALSE /\ up = << >> /\ sv.op = "NO_OP" /\ sv.in = << >>
  BY <1>2, <1>3, <1>10 DEF Same, Answered
<1>12. b = Len(r) => Tail(down) = << >> /\ sv.out = << >>
  BY <1>4, <1>7, TravelsEnded
<1>13. CASE d = Dict
  <2>1. Len(r) = 1 /\ b = 1
    BY <1>3, <1>7, <1>13, AnswerIs
  <2>2. new = DictUp2date(c)
    BY <1>3, <1>7, <1>8, <1>9, <1>10, <1>13 DEF Hears, ProcessProtocolData
  <2>3. c.in = << >>
    <3>1. SubSeq(r, 2, 1) = << >>
      BY SubSeqEmpty
    <3> QED
      BY <3>1, <2>1, <1>10
  <2>4. /\ DOMAIN new = Fields /\ new.op = "NO_OP" /\ new.in = << >> /\ new.out = << >>
        /\ new.dict = Dict /\ new.up2date = TRUE /\ new.cut = UriByteCut(Dict)
    BY <2>2, <2>3, <1>11, <1>13 DEF DictUp2date, Fields
  <2>5. Known(new, sv)
    BY <2>4, <1>1 DEF Known
  <2>6. Resting(new, sv, up, Tail(down))
    BY <2>1, <2>4, <1>11, <1>12 DEF Resting, Silent
  <2> QED
    BY <2>5, <2>6, <1>3 DEF Talk
<1>14. CASE d # Dict
  <2>1. r = Update
    BY <1>3, <1>14, AnswerIs
  <2>2. new = DictUpdate(c)
    BY <1>3, <1>7, <1>8, <1>9, <1>10, <1>14 DEF Hears, ProcessProtocolData
  <2>3. /\ b # Len(Update) => new = c
        /\ b = Len(Update) => /\ DOMAIN new = Fields
                              /\ new.in = << >> /\ new.out = c.out
                              /\ new.dict = Dict /\ new.up2date = TRUE
                              /\ new.cut = UriByteCut(Dict) /\ new.op = "NO_OP"
    <3>1. /\ DOMAIN c = Fields /\ c.op = "DICT_UPDATE"
          /\ b \in 1 .. Len(Update) /\ c.in = SubSeq(Update, 2, b)
      BY <2>1, <1>7, <1>9, <1>10, <1>11, <1>14
    <3> QED
      BY ONLY <3>1, <2>2, UpdateHeard
  <2>4. CASE b # Len(Update)
    <3>1. new = c /\ c.op = "DICT_UPDATE"
      BY <2>3, <2>4, <1>9, <1>10, <1>14
    <3>2. Known(new, sv)
      BY <3>1, <1>1, <1>2, <1>11 DEF Known, Answered
    <3>3. b \in 0 .. Len(r) - 1 /\ b \in 0 .. Len(Update) /\ b # 0
      BY <2>1, <2>4, <1>5, <1>7
    <3>4. r = Answer(c.dict)
      BY <1>3, <1>11
    <3>5. Answered(c, sv, up, Tail(down), b)
      BY <3>1, <3>3, <3>4, <1>7, <1>10, <1>11 DEF Answered
    <3> QED
      BY <3>1, <3>2, <3>3, <3>5, <1>3 DEF Talk
  <2>5. CASE b = Len(Update)
    <3>1. /\ DOMAIN new = Fields /\ new.in = << >> /\ new.out = << >>
          /\ new.dict = Dict /\ new.up2date = TRUE
          /\ new.cut = UriByteCut(Dict) /\ new.op = "NO_OP"
      BY <2>3, <2>5, <1>11
    <3>2. Known(new, sv)
      BY <3>1, <1>1 DEF Known
    <3>3. Resting(new, sv, up, Tail(down))
      BY <3>1, <2>1, <2>5, <1>11, <1>12 DEF Resting, Silent
    <3> QED
      BY <3>2, <3>3, <1>3 DEF Talk
  <2> QED
    BY <2>4, <2>5
<1> QED
  BY <1>13, <1>14

-----------------------------------------------------------------------------
(* The client uses only the server's dictionary.                           *)

\* Protocol data of one circuit arrives in the order in which it was sent;
\* two circuits may overtake each other.
OneCircuit == \E k : Circuits = {k}

\* The client is not started again in the middle of an exchange.
CalmRestarts == "crash" \notin FaultKinds

LEMMA TheCircuit ==
    ASSUME OneCircuit
    PROVE  Circuit \in Circuits /\ \A k \in Circuits : k = Circuit
  BY DEF OneCircuit, Circuit

LEMMA TalkMeansInSync ==
    ASSUME TalkInv PROVE InSync
<1>1. PICK up, down : Talk(client, server, up, down)
  BY DEF TalkInv
<1>2. Known(client, server)
  BY <1>1 DEF Talk
<1>3. client.up2date => client.dict = Dict
  <2>1. ASSUME NEW a, Asked(client, server, up, down, a) PROVE ~client.up2date
    BY <2>1 DEF Asked
  <2>2. ASSUME NEW a, Answered(client, server, up, down, a) PROVE ~client.up2date
    BY <2>2 DEF Answered
  <2>3. Resting(client, server, up, down) => (client.up2date => client.dict = Dict)
    BY DEF Resting
  <2> QED
    BY <2>1, <2>2, <2>3, <1>1 DEF Talk
<1> QED
  BY <1>2, <1>3 DEF InSync, Known

LEMMA TalkInit ==
    ASSUME OneCircuit, Init PROVE TalkInv
<1>1. Circuit \in Circuits
  BY TheCircuit
<1>2. DOMAIN ckt = Circuits /\ \A k \in Circuits : DOMAIN ckt[k] = Sides
  BY DEF Init
<1>3. ckt[Circuit]["client"] = << >> /\ ckt[Circuit]["server"] = << >>
  BY <1>1 DEF Init, Sides
<1>4. server = [NewConfig(Dict) EXCEPT !.cut = UriByteCut(Dict)] /\ client = NewConfig(file)
  BY DEF Init
<1>5. DOMAIN server = Fields /\ server.dict = Dict /\ server.cut = UriByteCut(Dict)
      /\ Silent(server)
  BY <1>4 DEF NewConfig, Fields, Silent
<1>6. Talk(NewConfig(file), server, << >>, << >>)
  BY <1>5, TalkBegins
<1> QED
  BY <1>2, <1>3, <1>4, <1>6 DEF TalkInv

\* What a step leaves on the circuit.
LEMMA CircuitChanges ==
    ASSUME NEW k \in Circuits, NEW s \in Sides, NEW x,
           DOMAIN ckt = Circuits, \A i \in Circuits : DOMAIN ckt[i] = Sides,
           ckt' = [ckt EXCEPT ![k][s] = x]
    PROVE  /\ DOMAIN ckt' = Circuits /\ \A i \in Circuits : DOMAIN ckt'[i] = Sides
           /\ ckt'[k][s] = x
           /\ \A i \in Sides \ {s} : ckt'[k][i] = ckt[k][i]
  OBVIOUS

LEMMA TalkShip ==
    ASSUME OneCircuit, TalkInv, NEW s \in Sides, NEW k \in Circuits, Ship(s, k)
    PROVE  TalkInv'
<1>1. k = Circuit
  BY TheCircuit
<1>2. DOMAIN ckt = Circuits /\ \A i \in Circuits : DOMAIN ckt[i] = Sides
  BY DEF TalkInv
<1>3. PICK up, down : /\ up = ckt[Circuit]["client"] /\ down = ckt[Circuit]["server"]
                      /\ Talk(client, server, up, down)
  BY DEF TalkInv
<1>4. PICK n \in 1 .. Len(Config(s).out) :
           /\ ckt' = [ckt EXCEPT ![k][s] = Append(@, SubSeq(Config(s).out, 1, n))]
           /\ SetConfig(s, [Config(s) EXCEPT !.out = SubSeq(@, n + 1, Len(@))])
           /\ Config(s).out # << >>
  BY DEF Ship
<1>5. PICK x : x = Append(ckt[k][s], SubSeq(Config(s).out, 1, n))
  OBVIOUS
<1>6. ckt' = [ckt EXCEPT ![k][s] = x]
  BY <1>4, <1>5
<1>7. /\ DOMAIN ckt' = Circuits /\ \A i \in Circuits : DOMAIN ckt'[i] = Sides
      /\ ckt'[k][s] = x
      /\ \A i \in Sides \ {s} : ckt'[k][i] = ckt[k][i]
  BY <1>2, <1>6, CircuitChanges
<1>8. CASE s = "client"
  <2>1. client' = Shipped(client, n) /\ server' = server
    BY <1>4, <1>8 DEF SetConfig, Config, Shipped
  <2>2. ckt'[Circuit]["client"] = Append(up, SubSeq(client.out, 1, n))
    BY <1>1, <1>3, <1>5, <1>7, <1>8 DEF Config
  <2>3. ckt'[Circuit]["server"] = down
    BY <1>1, <1>3, <1>7, <1>8 DEF Sides
  <2>4. client.out # << >> /\ n \in 1 .. Len(client.out)
    BY <1>4, <1>8 DEF Config
  <2>5. Talk(Shipped(client, n), server, Append(up, SubSeq(client.out, 1, n)), down)
    BY <2>4, <1>3, TalkShipsUp
  <2>7. Talk(client, server, ckt[Circuit]["client"], ckt[Circuit]["server"])'
    BY <2>1, <2>2, <2>3, <2>5 DEF Circuit
  <2> QED
    BY <2>7, <1>7 DEF TalkInv
<1>9. CASE s = "server"
  <2>1. server' = Shipped(server, n) /\ client' = client
    BY <1>4, <1>9 DEF SetConfig, Config, Shipped
  <2>2. ckt'[Circuit]["server"] = Append(down, SubSeq(server.out, 1, n))
    BY <1>1, <1>3, <1>5, <1>7, <1>9 DEF Config
  <2>3. ckt'[Circuit]["client"] = up
    BY <1>1, <1>3, <1>7, <1>9 DEF Sides
  <2>4. server.out # << >> /\ n \in 1 .. Len(server.out)
    BY <1>4, <1>9 DEF Config
  <2>5. Talk(client, Shipped(server, n), up, Append(down, SubSeq(server.out, 1, n)))
    BY <2>4, <1>3, TalkShipsDown
  <2>7. Talk(client, server, ckt[Circuit]["client"], ckt[Circuit]["server"])'
    BY <2>1, <2>2, <2>3, <2>5 DEF Circuit
  <2> QED
    BY <2>7, <1>7 DEF TalkInv
<1> QED
  BY <1>8, <1>9 DEF Sides

LEMMA TalkDeliver ==
    ASSUME OneCircuit, TalkInv, NEW s \in Sides, NEW k \in Circuits, Deliver(s, k)
    PROVE  TalkInv'
<1>1. k = Circuit
  BY TheCircuit
<1>2. DOMAIN ckt = Circuits /\ \A i \in Circuits : DOMAIN ckt[i] = Sides
  BY DEF TalkInv
<1>3. PICK up, down : /\ up = ckt[Circuit]["client"] /\ down = ckt[Circuit]["server"]
                      /\ Talk(client, server, up, down)
  BY DEF TalkInv
<1>4. /\ ckt[k][s] # << >>
      /\ ckt' = [ckt EXCEPT ![k][s] = Tail(@)]
      /\ SetConfig(Other(s), Hears(Config(Other(s)), Head(ckt[k][s])))
  BY DEF Deliver, Hears
<1>5. PICK x : x = Tail(ckt[k][s])
  OBVIOUS
<1>6. ckt' = [ckt EXCEPT ![k][s] = x]
  BY <1>4, <1>5
<1>7. /\ DOMAIN ckt' = Circuits /\ \A i \in Circuits : DOMAIN ckt'[i] = Sides
      /\ ckt'[k][s] = x
      /\ \A i \in Sides \ {s} : ckt'[k][i] = ckt[k][i]
  BY <1>2, <1>6, CircuitChanges
<1>8. CASE s = "client"
  <2>1. server' = Hears(server, Head(up)) /\ client' = client
    BY <1>1, <1>3, <1>4, <1>8 DEF SetConfig, Config, Other
  <2>2. ckt'[Circuit]["client"] = Tail(up) /\ up # << >>
    BY <1>1, <1>3, <1>4, <1>5, <1>7, <1>8
  <2>3. ckt'[Circuit]["server"] = down
    BY <1>1, <1>3, <1>7, <1>8 DEF Sides
  <2>4. Talk(client, Hears(server, Head(up)), Tail(up), down)
    BY <2>2, <1>3, TalkDeliversUp
  <2>5. Talk(client, server, ckt[Circuit]["client"], ckt[Circuit]["server"])'
    BY <2>1, <2>2, <2>3, <2>4 DEF Circuit
  <2> QED
    BY <2>5, <1>7 DEF TalkInv
<1>9. CASE s = "server"
  <2>1. client' = Hears(client, Head(down)) /\ server' = server
    BY <1>1, <1>3, <1>4, <1>9 DEF SetConfig, Config, Other
  <2>2. ckt'[Circuit]["server"] = Tail(down) /\ down # << >>
    BY <1>1, <1>3, <1>4, <1>5, <1>7, <1>9
  <2>3. ckt'[Circuit]["client"] = up
    BY <1>1, <1>3, <1>7, <1>9 DEF Sides
  <2>4. Talk(Hears(client, Head(down)), server, up, Tail(down))
    BY <2>2, <1>3, TalkDeliversDown
  <2>5. Talk(client, server, ckt[Circuit]["client"], ckt[Circuit]["server"])'
    BY <2>1, <2>2, <2>3, <2>4 DEF Circuit
  <2> QED
    BY <2>5, <1>7 DEF TalkInv
<1> QED
  BY <1>8, <1>9 DEF Sides

LEMMA TalkUnchanged ==
    ASSUME TalkInv, UNCHANGED <<client, server, ckt>>
    PROVE  TalkInv'
  BY DEF TalkInv, Circuit

LEMMA TalkCreate ==
    ASSUME TalkInv, NEW c \in Conns, StegCreate(c)
    PROVE  TalkInv'
<1>1. UNCHANGED <<server, ckt>>
  BY DEF StegCreate
<1>2. CASE module = "http_apache" /\ ~client.up2date /\ client.op = "NO_OP"
  <2>1. client' = Asks(client)
    BY <1>2 DEF StegCreate, Asks
  <2>2. Talk(Asks(client), server, ckt[Circuit]["client"], ckt[Circuit]["server"])
    BY <1>2, TalkAsks DEF TalkInv
  <2>3. Talk(client, server, ckt[Circuit]["client"], ckt[Circuit]["server"])'
    BY <2>1, <2>2, <1>1 DEF Circuit
  <2> QED
    BY <2>3, <1>1 DEF TalkInv
<1>3. CASE ~(module = "http_apache" /\ ~client.up2date /\ client.op = "NO_OP")
  <2>1. client' = client
    BY <1>3 DEF StegCreate
  <2> QED
    BY <2>1, <1>1, TalkUnchanged
<1> QED
  BY <1>2, <1>3

LEMMA TalkRestart ==
    ASSUME OneCircuit, CalmRestarts, TalkInv, Restart
    PROVE  TalkInv'
<1>1. Quiet
  BY DEF Restart, CalmRestarts
<1>2. Circuit \in Circuits
  BY TheCircuit
<1>3. client' = NewConfig(file) /\ server' = server
      /\ ckt' = [k \in Circuits |-> [s \in Sides |-> << >>]]
  BY DEF Restart
<1>4. DOMAIN server = Fields /\ server.dict = Dict /\ server.cut = UriByteCut(Dict)
      /\ Silent(server)
  BY <1>1 DEF TalkInv, Talk, Known, Quiet, Silent
<1>5. Talk(NewConfig(file), server, << >>, << >>)
  BY <1>4, TalkBegins
<1>6. ckt'[Circuit]["client"] = << >> /\ ckt'[Circuit]["server"] = << >>
  BY <1>2, <1>3 DEF Sides
<1>7. DOMAIN ckt' = Circuits /\ \A k \in Circuits : DOMAIN ckt'[k] = Sides
  BY <1>3
<1>8. Talk(client, server, ckt[Circuit]["client"], ckt[Circuit]["server"])'
  BY <1>3, <1>5, <1>6 DEF Circuit
<1> QED
  BY <1>7, <1>8 DEF TalkInv

LEMMA TalkStep ==
    ASSUME OneCircuit, CalmRestarts, TalkInv, [Next]_vars
    PROVE  TalkInv'
<1>1. CASE UNCHANGED vars
  BY <1>1, TalkUnchanged DEF vars
<1>2. ASSUME NEW s \in Sides, NEW k \in Circuits, Ship(s, k) \/ Deliver(s, k)
      PROVE  TalkInv'
  BY <1>2, TalkShip, TalkDeliver
<1>3. ASSUME NEW c \in Conns, StegCreate(c) PROVE TalkInv'
  BY <1>3, TalkCreate
<1>4. ASSUME NEW c \in Conns,
             \/ UriTransmit(c) \/ CookieTransmit(c) \/ CookieTransmitFails(c)
             \/ ServerReceive(c) \/ ServerTransmit(c) \/ ClientReceive(c)
             \/ IgnoreClose(c)
      PROVE  TalkInv'
  <2>1. UNCHANGED <<client, server, ckt>>
    BY <1>4 DEF UriTransmit, CookieTransmit, CookieTransmitFails, ServerReceive,
                ServerTransmit, ClientReceive, IgnoreClose
  <2> QED
    BY <2>1, TalkUnchanged
<1>5. CASE Restart
  BY <1>5, TalkRestart
<1> QED
  BY <1>1, <1>2, <1>3, <1>4, <1>5 DEF Next

(***************************************************************************)
(* The client uses its dictionary only while it is the server's, whatever  *)
(* dictionary the server has and whatever the client found on disk, in     *)
(* whatever pieces chop carries the question and the answer, and whenever  *)
(* the client is started again between exchanges (process_protocol_data,   *)
(* http_apache.cc).                                                        *)
(***************************************************************************)
THEOREM DictionaryInSync ==
    ASSUME OneCircuit, CalmRestarts
    PROVE  Spec => []InSync
<1>1. Init => TalkInv
  BY TalkInit
<1>2. TalkInv /\ [Next]_vars => TalkInv'
  BY TalkStep
<1>3. TalkInv => InSync
  BY TalkMeansInSync
<1> QED
  BY <1>1, <1>2, <1>3, PTL DEF Spec

-----------------------------------------------------------------------------
(* What the server takes out of a request.                                 *)

\* A URL stands for one index, and none is the one that stands for nothing.
Unambiguous ==
    /\ \A i, j \in DOMAIN Dict : Dict[i] = Dict[j] => i = j
    /\ \A i \in DOMAIN Dict : Dict[i] # NoUrl

\* A block is longer than what is cut off it.
LongBlocks == \A block \in Blocks : Len(block) > UriByteCut(Dict)

\* What the server, whose dictionary is Dict, understands.
Decoded(req) ==
    LET code == UrlCode(Dict, req.url)
        length == IF req.url = NoUrl \/ req.param = "p" THEN 0 ELSE UriByteCut(Dict)
        digits == [i \in 1..length |-> Quotient(code, i - 1) % Base]
    IN  digits \o (IF req.param = "q" THEN req.data ELSE << >>)

Understood(req) == IF req.param = "cookie" THEN req.data ELSE Decoded(req)

LEMMA CodeOfUrl ==
    ASSUME Unambiguous, NEW i \in Nat, i < Len(Dict)
    PROVE  UrlCode(Dict, Dict[i + 1]) = i
<1>1. Len(Dict) \in Nat /\ DOMAIN Dict = 1 .. Len(Dict)
  BY DictAssumption
<1>2. PICK u : u = Dict[i + 1]
  OBVIOUS
<1>3. {j \in 1 .. Len(Dict) : Dict[j] = u} = {i + 1}
  <2>1. i + 1 \in 1 .. Len(Dict)
    BY <1>1
  <2>2. ASSUME NEW j \in 1 .. Len(Dict), Dict[j] = u PROVE j = i + 1
    BY <2>1, <2>2, <1>1, <1>2 DEF Unambiguous
  <2> QED
    BY <2>1, <2>2, <1>2
<1>4. Max({i + 1}) = i + 1
  BY DEF Max
<1>5. {i + 1} # {}
  OBVIOUS
<1>6. SelectLastInSeq(Dict, LAMBDA v : v = u) = i + 1
  BY <1>3, <1>4, <1>5 DEF SelectLastInSeq
<1>7. UrlCode(Dict, u) = IF i + 1 = 0 THEN 0 ELSE (i + 1) - 1
  BY <1>6 DEF UrlCode
<1> QED
  BY <1>2, <1>7

\* A request in which nothing is told by the URL.
LEMMA PlainRequest ==
    ASSUME NEW block \in Blocks, NEW req, req.param = "q", req.data = block,
           req.url = NoUrl \/ UriByteCut(Dict) = 0
    PROVE  Understood(req) = block
<1>1. block \in Seq(0 .. (Base - 1))
  BY HttpAssumption
<1>2. PICK code : code = UrlCode(Dict, req.url)
  OBVIOUS
<1>3. Decoded(req) = [i \in 1 .. 0 |-> Quotient(code, i - 1) % Base] \o block
  BY <1>2 DEF Decoded
<1>4. [i \in 1 .. 0 |-> Quotient(code, i - 1) % Base] = << >>
  OBVIOUS
<1>5. << >> \o block = block
  BY <1>1, ConcatEmptySeq
<1> QED
  BY <1>3, <1>4, <1>5 DEF Understood

\* A request whose URL tells the first byte.
LEMMA CutRequest ==
    ASSUME Unambiguous, NEW block \in Blocks, UriByteCut(Dict) = 1, 1 < Len(block),
           NEW req, req.param = "q", req.data = SubSeq(block, 2, Len(block)),
           req.url = Dict[block[1] + 1]
    PROVE  Understood(req) = block
<1>1. block \in Seq(0 .. (Base - 1)) /\ Base \in Nat /\ Base # 0
  BY HttpAssumption
<1>2. Base <= Len(Dict)
  BY CutMeans
<1>3. PICK i : i = block[1]
  OBVIOUS
<1>4. i \in Nat /\ i < Base
  <2>1. 1 \in 1 .. Len(block)
    BY <1>1
  <2>2. block[1] \in 0 .. (Base - 1)
    BY <2>1, <1>1
  <2> QED
    BY <2>2, <1>1, <1>3
<1>5. Len(Dict) \in Nat /\ DOMAIN Dict = 1 .. Len(Dict)
  BY DictAssumption
<1>6. i < Len(Dict) /\ i + 1 \in DOMAIN Dict
  BY <1>1, <1>2, <1>4, <1>5
<1>7. UrlCode(Dict, req.url) = i /\ req.url # NoUrl
  BY <1>3, <1>4, <1>6, CodeOfUrl DEF Unambiguous
<1>8. Decoded(req) = [j \in 1 .. 1 |-> Quotient(i, j - 1) % Base]
                       \o SubSeq(block, 2, Len(block))
  BY <1>7 DEF Decoded
<1>9. Quotient(i, 0) = i /\ i % Base = i
  BY <1>4, QuotientTurns, Division
<1>10. [j \in 1 .. 1 |-> Quotient(i, j - 1) % Base] = <<i>>
  <2>1. ASSUME NEW j \in 1 .. 1 PROVE Quotient(i, j - 1) % Base = i
    <3>1. j - 1 = 0
      OBVIOUS
    <3> QED
      BY <3>1, <1>9
  <2>2. [j \in 1 .. 1 |-> Quotient(i, j - 1) % Base] = [j \in 1 .. 1 |-> i]
    BY <2>1
  <2>3. [j \in 1 .. 1 |-> i] = <<i>>
    OBVIOUS
  <2> QED
    BY <2>2, <2>3
<1>11. <<i>> \o SubSeq(block, 2, Len(block)) = block
  <2>1. 1 \in 1 .. Len(block) /\ Len(block) \in 1 .. Len(block)
    BY <1>1
  <2>2. SubSeq(block, 1, Len(block)) = <<block[1]>> \o SubSeq(block, 1 + 1, Len(block))
    BY <2>1, <1>1, SubSeqRecursiveFirst
  <2>3. SubSeq(block, 1, Len(block)) = block /\ 1 + 1 = 2
    BY <1>1, SubSeqFull
  <2> QED
    BY ONLY <2>2, <2>3, <1>3, Zenon
<1> QED
  BY <1>8, <1>10, <1>11 DEF Understood

LEMMA BlockUnderstood ==
    ASSUME Unambiguous, LongBlocks, UriByteCut(Dict) <= 1, NEW block \in Blocks,
           Known(client, server), client.up2date => client.dict = Dict
    PROVE  UriRequest(block).param = "q" /\ Understood(UriRequest(block)) = block
<1>1. block \in Seq(0 .. (Base - 1)) /\ Len(block) \in Nat
  BY HttpAssumption
<1>2. PICK cut, req, url :
         /\ cut = client.cut /\ req = UriRequest(block)
         /\ url = IF client.dict # << >> /\ client.up2date
                  THEN client.dict[UrlIndex(block, client.cut) + 1] ELSE NoUrl
  OBVIOUS
<1>3. UriByteCut(Dict) \in {0, 1} /\ Len(block) > UriByteCut(Dict)
  BY CutMeans DEF LongBlocks
<1>4. cut = IF client.up2date THEN UriByteCut(Dict) ELSE 0
  BY <1>2 DEF Known
<1>5. cut \in {0, 1} /\ cut < Len(block)
  BY <1>1, <1>3, <1>4
<1>6. req = [url |-> url, param |-> "q", data |-> SubSeq(block, cut + 1, Len(block))]
  BY <1>1, <1>2, <1>5 DEF UriRequest
<1>7. req.url = url /\ req.param = "q" /\ req.data = SubSeq(block, cut + 1, Len(block))
  BY <1>6
<1>8. CASE cut = 0
  <2>1. req.data = block
    <3>1. cut + 1 = 1
      BY <1>8
    <3> QED
      BY <3>1, <1>1, <1>7, SubSeqFull
  <2>2. url = NoUrl \/ UriByteCut(Dict) = 0
    BY <1>2, <1>4, <1>8
  <2> QED
    BY <2>1, <2>2, <1>2, <1>7, PlainRequest
<1>9. CASE cut = 1
  <2>1. UriByteCut(Dict) = 1 /\ client.up2date /\ client.dict = Dict
    BY <1>4, <1>9
  <2>2. Dict # << >>
    <3>1. Base <= Len(Dict) /\ Base # 0 /\ Base \in Nat
      BY <2>1, CutMeans, HttpAssumption
    <3> QED
      BY <3>1
  <2>3. UrlIndex(block, cut) = block[1]
    BY <1>5, <1>9, IndexOfBlock
  <2>4. url = Dict[block[1] + 1]
    BY <2>1, <2>2, <2>3, <1>2
  <2>5. cut + 1 = 2 /\ 1 < Len(block)
    BY <1>5, <1>9
  <2> QED
    BY <2>1, <2>4, <2>5, <1>2, <1>7, CutRequest
<1> QED
  BY <1>5, <1>8, <1>9

\* One connection: a request on its way means the block it was made for, and
\* what was received is that block.
StegFields == DOMAIN NewSteg

Meant(g) ==
    /\ g.have_received \in BOOLEAN
    /\ g.have_received => g.state \notin {"none", "open"} /\ g.got = g.data
    /\ g.state = "transmitted" => Understood(g.request) = g.data

RequestInv ==
    /\ DOMAIN conn = Conns /\ \A c \in Conns : DOMAIN conn[c] = StegFields
    /\ UriByteCut(Dict) <= 1 => \A c \in Conns : Meant(conn[c])

LEMMA WithIs ==
    ASSUME NEW g, DOMAIN g = StegFields, NEW rec, NEW new, new = With(g, rec)
    PROVE  /\ DOMAIN new = StegFields
           /\ new.state = IF "state" \in DOMAIN rec THEN rec["state"] ELSE g.state
           /\ new.data = IF "data" \in DOMAIN rec THEN rec["data"] ELSE g.data
           /\ new.request = IF "request" \in DOMAIN rec THEN rec["request"] ELSE g.request
           /\ new.got = IF "got" \in DOMAIN rec THEN rec["got"] ELSE g.got
           /\ new.have_received = IF "have_received" \in DOMAIN rec
                                  THEN rec["have_received"] ELSE g.have_received
<1>1. {"state", "data", "request", "got", "have_received"} \subseteq StegFields
  BY DEF StegFields, NewSteg
<1>2. new = [f \in StegFields |-> IF f \in DOMAIN rec THEN rec[f] ELSE g[f]]
  BY DEF With
<1> HIDE DEF StegFields
<1> QED
  BY <1>1, <1>2

\* The connection c changes as rec says, and stays meant.
Changes(c, rec) ==
    /\ Set(c, rec)
    /\ UriByteCut(Dict) <= 1 => (Meant(conn[c]) => Meant(With(conn[c], rec)))

LEMMA ChangesKeep ==
    ASSUME RequestInv, NEW c \in Conns, NEW rec, Changes(c, rec)
    PROVE  RequestInv'
<1>1. conn' = [conn EXCEPT ![c] = With(conn[c], rec)]
  BY DEF Changes, Set
<1>2. DOMAIN conn = Conns /\ \A d \in Conns : DOMAIN conn[d] = StegFields
  BY DEF RequestInv
<1>3. DOMAIN With(conn[c], rec) = StegFields
  BY <1>2, WithIs
<1>4. DOMAIN conn' = Conns /\ \A d \in Conns : DOMAIN conn'[d] = StegFields
  BY <1>1, <1>2, <1>3
<1>5. ASSUME UriByteCut(Dict) <= 1, NEW d \in Conns PROVE Meant(conn'[d])
  <2>1. Meant(conn[c]) /\ Meant(conn[d])
    BY <1>5 DEF RequestInv
  <2>2. Meant(With(conn[c], rec))
    BY <2>1, <1>5 DEF Changes
  <2>3. conn'[d] = IF d = c THEN With(conn[c], rec) ELSE conn[d]
    BY <1>1, <1>2
  <2> QED
    BY <2>1, <2>2, <2>3
<1> QED
  BY <1>4, <1>5 DEF RequestInv, StegFields, NewSteg, NoUrl

LEMMA RequestInit ==
    ASSUME conn = [c \in Conns |-> NewSteg] PROVE RequestInv
<1>1. Meant(NewSteg)
  BY DEF Meant, NewSteg
<1> QED
  BY <1>1 DEF RequestInv, StegFields

\* Fields that do not matter here.
Beside == {"type", "seen", "server_type", "tried", "reply", "arrived", "result", "curl"}

LEMMA BesideKeeps ==
    ASSUME NEW g, DOMAIN g = StegFields, NEW rec, DOMAIN rec \subseteq Beside, Meant(g)
    PROVE  Meant(With(g, rec))
<1>1. PICK new : new = With(g, rec)
  OBVIOUS
<1>2. "state" \notin DOMAIN rec /\ "data" \notin DOMAIN rec /\ "request" \notin DOMAIN rec
      /\ "got" \notin DOMAIN rec /\ "have_received" \notin DOMAIN rec
  BY DEF Beside
<1>3. /\ new.state = g.state /\ new.data = g.data /\ new.request = g.request
      /\ new.got = g.got /\ new.have_received = g.have_received
  BY <1>1, <1>2, WithIs
<1> QED
  BY <1>1, <1>3 DEF Meant

\* A state that is not "transmitted", or that follows it.
LEMMA StateKeeps ==
    ASSUME NEW g, DOMAIN g = StegFields, Meant(g), NEW rec,
           DOMAIN rec \subseteq Beside \cup {"state"}, "state" \in DOMAIN rec,
           rec["state"] # "transmitted",
           g.state \in {"none", "open"} \/ rec["state"] \notin {"none", "open"}
    PROVE  Meant(With(g, rec))
<1>1. PICK new : new = With(g, rec)
  OBVIOUS
<1>2. "data" \notin DOMAIN rec /\ "request" \notin DOMAIN rec
      /\ "got" \notin DOMAIN rec /\ "have_received" \notin DOMAIN rec
  BY DEF Beside
<1>3. /\ new.state = rec["state"] /\ new.data = g.data /\ new.request = g.request
      /\ new.got = g.got /\ new.have_received = g.have_received
  BY <1>1, <1>2, WithIs
<1> QED
  BY <1>1, <1>3 DEF Meant

LEMMA TransmitKeeps ==
    ASSUME NEW g, DOMAIN g = StegFields, Meant(g), g.state = "open", NEW rec,
           "got" \notin DOMAIN rec, "have_received" \notin DOMAIN rec,
           {"state", "data", "request"} \subseteq DOMAIN rec,
           rec["state"] = "transmitted", Understood(rec["request"]) = rec["data"]
    PROVE  Meant(With(g, rec))
<1>1. PICK new : new = With(g, rec)
  OBVIOUS
<1>2. /\ new.state = "transmitted" /\ new.data = rec["data"]
      /\ new.request = rec["request"] /\ new.have_received = g.have_received
  BY <1>1, WithIs
<1>3. g.have_received = FALSE
  BY DEF Meant
<1> QED
  BY <1>1, <1>2, <1>3 DEF Meant

LEMMA ReceiveKeeps ==
    ASSUME NEW g, DOMAIN g = StegFields, Meant(g), g.state = "transmitted", NEW rec,
           DOMAIN rec \subseteq Beside \cup {"got", "have_received"},
           {"got", "have_received"} \subseteq DOMAIN rec,
           rec["have_received"] = TRUE, rec["got"] = Understood(g.request)
    PROVE  Meant(With(g, rec))
<1>1. PICK new : new = With(g, rec)
  OBVIOUS
<1>2. "data" \notin DOMAIN rec /\ "request" \notin DOMAIN rec /\ "state" \notin DOMAIN rec
  BY DEF Beside
<1>3. /\ new.state = g.state /\ new.data = g.data /\ new.request = g.request
      /\ new.got = Understood(g.request) /\ new.have_received = TRUE
  BY <1>1, <1>2, WithIs
<1> QED
  BY <1>1, <1>3 DEF Meant

LEMMA UriTransmitChanges ==
    ASSUME Unambiguous, LongBlocks, TalkInv, RequestInv, NEW c \in Conns, UriTransmit(c)
    PROVE  RequestInv'
<1>1. PICK block \in Blocks :
          Set(c, [state |-> "transmitted", data |-> block, request |-> UriRequest(block),
                  type |-> FindUrlType(UriRequest(block).url), curl |-> "sending"])
  BY DEF UriTransmit
<1>2. PICK req, type : req = UriRequest(block) /\ type = FindUrlType(UriRequest(block).url)
  OBVIOUS
<1>3. PICK rec : rec = [state |-> "transmitted", data |-> block, request |-> req,
                        type |-> type, curl |-> "sending"]
  OBVIOUS
<1>4. /\ DOMAIN rec = {"state", "data", "request", "type", "curl"}
      /\ rec["state"] = "transmitted" /\ rec["data"] = block /\ rec["request"] = req
  BY <1>3
<1>5. Known(client, server) /\ (client.up2date => client.dict = Dict)
  <2>1. Known(client, server)
    BY DEF TalkInv, Talk
  <2>2. InSync
    BY TalkMeansInSync
  <2> QED
    BY <2>1, <2>2 DEF InSync, Known
<1>6. ASSUME UriByteCut(Dict) <= 1, Meant(conn[c]) PROVE Meant(With(conn[c], rec))
  <2>1. Understood(req) = block
    BY <1>2, <1>5, <1>6, BlockUnderstood
  <2>2. conn[c].state = "open" /\ DOMAIN conn[c] = StegFields
    BY DEF UriTransmit, RequestInv
  <2> QED
    BY <2>1, <2>2, <1>4, <1>6, TransmitKeeps
<1>7. Changes(c, rec)
  BY <1>1, <1>2, <1>3, <1>6 DEF Changes
<1> QED
  BY <1>7, ChangesKeep

LEMMA CookieTransmitChanges ==
    ASSUME RequestInv, NEW c \in Conns, CookieTransmit(c)
    PROVE  RequestInv'
<1>1. PICK block \in Blocks, url \in Recorded :
          Set(c, [state |-> "transmitted", data |-> block,
                  request |-> [url |-> url, param |-> "cookie", data |-> block],
                  type |-> FindUriType(url)])
  BY DEF CookieTransmit
<1>2. PICK req, type : /\ req = [url |-> url, param |-> "cookie", data |-> block]
                       /\ type = FindUriType(url)
  OBVIOUS
<1>3. PICK rec : rec = [state |-> "transmitted", data |-> block, request |-> req,
                        type |-> type]
  OBVIOUS
<1>4. /\ DOMAIN rec = {"state", "data", "request", "type"}
      /\ rec["state"] = "transmitted" /\ rec["data"] = block /\ rec["request"] = req
  BY <1>3
<1>5. Understood(req) = block
  BY <1>2 DEF Understood
<1>6. conn[c].state = "open" /\ DOMAIN conn[c] = StegFields
  BY DEF CookieTransmit, RequestInv
<1>7. Meant(conn[c]) => Meant(With(conn[c], rec))
  BY <1>4, <1>5, <1>6, TransmitKeeps
<1>8. Changes(c, rec)
  BY <1>1, <1>2, <1>3, <1>7 DEF Changes
<1> QED
  BY <1>8, ChangesKeep

LEMMA ServerReceiveChanges ==
    ASSUME TalkInv, RequestInv, NEW c \in Conns, ServerReceive(c)
    PROVE  RequestInv'
<1>1. PICK req : req = conn[c].request
  OBVIOUS
<1>2. conn[c].state = "transmitted" /\ DOMAIN conn[c] = StegFields
  BY DEF ServerReceive, RequestInv
<1>3. CASE Set(c, [seen |-> "part"])
  <2>1. PICK rec : rec = [seen |-> "part"]
    OBVIOUS
  <2>2. DOMAIN rec \subseteq Beside
    BY <2>1 DEF Beside
  <2>3. Changes(c, rec)
    BY <2>1, <2>2, <1>2, <1>3, BesideKeeps DEF Changes
  <2> QED
    BY <2>3, ChangesKeep
<1>4. CASE Set(c, [seen |-> "all", have_received |-> TRUE,
                   got |-> IF req.param = "cookie" THEN req.data ELSE UriMeaning(req),
                   server_type |-> ServerType(req)])
  <2>1. Known(client, server)
    BY DEF TalkInv, Talk
  <2>2. UriMeaning(req) = Decoded(req)
    BY <2>1 DEF UriMeaning, Decoded, Known
  <2>3. (IF req.param = "cookie" THEN req.data ELSE UriMeaning(req)) = Understood(req)
    BY <2>2 DEF Understood
  <2>4. PICK got, type : got = Understood(req) /\ type = ServerType(req)
    OBVIOUS
  <2>5. PICK rec : rec = [seen |-> "all", have_received |-> TRUE, got |-> got,
                          server_type |-> type]
    OBVIOUS
  <2>6. /\ DOMAIN rec = {"seen", "have_received", "got", "server_type"}
        /\ rec["have_received"] = TRUE /\ rec["got"] = got
    BY <2>5
  <2>7. DOMAIN rec \subseteq Beside \cup {"got", "have_received"}
    BY <2>6 DEF Beside
  <2>8. Meant(conn[c]) => Meant(With(conn[c], rec))
    BY <2>4, <2>6, <2>7, <1>1, <1>2, ReceiveKeeps
  <2>9. Set(c, rec)
    BY <2>3, <2>4, <2>5, <1>4
  <2>10. Changes(c, rec)
    BY <2>8, <2>9 DEF Changes
  <2> QED
    BY <2>10, ChangesKeep
<1> QED
  BY <1>1, <1>3, <1>4 DEF ServerReceive

LEMMA StateChanges ==
    ASSUME RequestInv, NEW c \in Conns,
           StegCreate(c) \/ CookieTransmitFails(c) \/ IgnoreClose(c)
    PROVE  RequestInv'
<1>1. DOMAIN conn[c] = StegFields
  BY DEF RequestInv
<1>2. CASE StegCreate(c)
  <2>1. PICK rec : rec = [state |-> "open"]
    OBVIOUS
  <2>2. DOMAIN rec = {"state"} /\ rec["state"] = "open"
    BY <2>1
  <2>3. Set(c, rec) /\ conn[c].state = "none"
    BY <2>1, <1>2 DEF StegCreate
  <2>4. Changes(c, rec)
    BY <2>2, <2>3, <1>1, StateKeeps DEF Changes
  <2> QED
    BY <2>4, ChangesKeep
<1>3. CASE CookieTransmitFails(c)
  <2>1. PICK rec : rec = [state |-> "failed"]
    OBVIOUS
  <2>2. DOMAIN rec = {"state"} /\ rec["state"] = "failed"
    BY <2>1
  <2>3. Set(c, rec)
    BY <2>1, <1>3 DEF CookieTransmitFails
  <2>4. Changes(c, rec)
    BY <2>2, <2>3, <1>1, StateKeeps DEF Changes
  <2> QED
    BY <2>4, ChangesKeep
<1>4. CASE IgnoreClose(c)
  <2>1. PICK rec : rec = [curl |-> "done", state |-> "closed"]
    OBVIOUS
  <2>2. DOMAIN rec = {"curl", "state"} /\ rec["state"] = "closed"
    BY <2>1
  <2>3. Set(c, rec)
    BY <2>1, <1>4 DEF IgnoreClose
  <2>4. DOMAIN rec \subseteq Beside \cup {"state"}
    BY <2>2 DEF Beside
  <2>5. Changes(c, rec)
    BY <2>2, <2>3, <2>4, <1>1, StateKeeps DEF Changes
  <2> QED
    BY <2>5, ChangesKeep
<1> QED
  BY <1>2, <1>3, <1>4

LEMMA RequestUnchanged ==
    ASSUME RequestInv, conn' = conn PROVE RequestInv'
  BY DEF RequestInv

LEMMA ReplyChanges ==
    ASSUME RequestInv, NEW c \in Conns, ServerTransmit(c) \/ ClientReceive(c)
    PROVE  RequestInv'
<1>1. DOMAIN conn[c] = StegFields
  BY DEF RequestInv
<1>2. ASSUME NEW rec, Set(c, rec), DOMAIN rec \subseteq Beside PROVE RequestInv'
  <2>1. Changes(c, rec)
    BY <1>1, <1>2, BesideKeeps DEF Changes
  <2> QED
    BY <2>1, ChangesKeep
<1>3. CASE ServerTransmit(c)
  <2>1. PICK rec1, rec2 : /\ rec1 = [tried |-> TRUE, reply |-> conn[c].server_type]
                          /\ rec2 = [tried |-> TRUE]
    OBVIOUS
  <2>2. DOMAIN rec1 \subseteq Beside /\ DOMAIN rec2 \subseteq Beside
    BY <2>1 DEF Beside
  <2>3. Set(c, rec1) \/ Set(c, rec2)
    BY <2>1, <1>3 DEF ServerTransmit
  <2> QED
    BY <2>2, <2>3, <1>2
<1>4. CASE ClientReceive(c)
  <2>1. PICK rec1, rec2 :
           /\ rec1 = [arrived |-> "part", curl |-> CurlReading]
           /\ rec2 = [arrived |-> "all", curl |-> CurlReading,
                      result |-> IF conn[c].reply = conn[c].type THEN "good" ELSE "bad"]
    OBVIOUS
  <2>2. DOMAIN rec1 \subseteq Beside /\ DOMAIN rec2 \subseteq Beside
    BY <2>1 DEF Beside
  <2>3. conn' = conn \/ Set(c, rec1) \/ Set(c, rec2)
    BY <2>1, <1>4 DEF ClientReceive
  <2> QED
    BY <2>2, <2>3, <1>2, RequestUnchanged
<1> QED
  BY <1>3, <1>4

LEMMA RequestRestart ==
    ASSUME Restart PROVE RequestInv'
<1>1. conn' = [c \in Conns |-> NewSteg]
  BY DEF Restart
<1>2. Meant(NewSteg)
  BY DEF Meant, NewSteg
<1> QED
  BY <1>1, <1>2 DEF RequestInv, StegFields

LEMMA RequestStep ==
    ASSUME Unambiguous, LongBlocks, TalkInv, RequestInv, [Next]_vars
    PROVE  RequestInv'
<1>1. CASE UNCHANGED vars
  BY <1>1, RequestUnchanged DEF vars
<1>2. ASSUME NEW s \in Sides, NEW k \in Circuits, Ship(s, k) \/ Deliver(s, k)
      PROVE  RequestInv'
  <2>1. conn' = conn
    BY <1>2 DEF Ship, Deliver
  <2> QED
    BY <2>1, RequestUnchanged
<1>3. ASSUME NEW c \in Conns,
             \/ StegCreate(c) \/ UriTransmit(c) \/ CookieTransmit(c)
             \/ CookieTransmitFails(c) \/ ServerReceive(c)
             \/ ServerTransmit(c) \/ ClientReceive(c) \/ IgnoreClose(c)
      PROVE  RequestInv'
  BY <1>3, StateChanges, UriTransmitChanges, CookieTransmitChanges,
     ServerReceiveChanges, ReplyChanges
<1>4. CASE Restart
  BY <1>4, RequestRestart
<1> QED
  BY <1>1, <1>2, <1>3, <1>4 DEF Next

(***************************************************************************)
(* The server takes out of every request the block the client put in,      *)
(* before the dictionary is agreed on, while it is being exchanged and     *)
(* after, for every dictionary that is no code for two blocks and of which *)
(* at most one byte is cut (http_client_uri_transmit and                   *)
(* http_server_receive_uri, http_apache.cc).                               *)
(***************************************************************************)
THEOREM RequestsMeanBlocks ==
    ASSUME OneCircuit, CalmRestarts, Unambiguous, LongBlocks
    PROVE  Spec => []RequestMeaning
<1>1. Init => TalkInv /\ RequestInv
  <2>1. Init => RequestInv
    BY RequestInit DEF Init
  <2> QED
    BY <2>1, TalkInit
<1>2. TalkInv /\ RequestInv /\ [Next]_vars => (TalkInv /\ RequestInv)'
  <2>1. TalkInv /\ RequestInv /\ [Next]_vars => TalkInv'
    BY TalkStep
  <2>2. TalkInv /\ RequestInv /\ [Next]_vars => RequestInv'
    BY RequestStep
  <2> QED
    BY <2>1, <2>2
<1>3. TalkInv /\ RequestInv => RequestMeaning
  <2>1. SUFFICES ASSUME TalkInv, RequestInv, NEW c \in Conns,
                        conn[c].have_received, server.cut <= 1
                 PROVE  conn[c].got = conn[c].data
    BY DEF RequestMeaning
  <2>2. server.cut = UriByteCut(Dict)
    BY <2>1 DEF TalkInv, Talk, Known
  <2> QED
    BY <2>1, <2>2 DEF RequestInv, Meant
<1> QED
  BY <1>1, <1>2, <1>3, PTL DEF Spec

=============================================================================
