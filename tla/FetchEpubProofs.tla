---------------------------- MODULE FetchEpubProofs ----------------------------
(***************************************************************************)
(* What the fetching script keeps, for every catalog, every command line   *)
(* and every number of answers that go wrong: the cookies of a renewal,    *)
(* the place it reports, and the book it says it has written.  The first   *)
(* half is about the codec (TextTravels), the second about the run.        *)
(***************************************************************************)
EXTENDS FetchEpub, SequenceTheorems, WellFoundedInduction, TLAPS

(*-------------------------- induction and recursion --------------------------*)

\* Induction over the numbers: a set of them that is not empty has a least element.
LEMMA LeastElement ==
    ASSUME NEW T \in SUBSET Nat, T # {}
    PROVE  \E n \in T : \A m \in T : n <= m
<1> DEFINE Below == {p \in Nat \X Nat : p[1] < p[2]}
<1>1. IsWellFoundedOn(Below, Nat)
  BY NatLessThanWellFounded DEF OpToRel
<1>2. PICK n \in T : \A m \in T : ~(<<m, n>> \in Below)
  <2> HIDE DEF Below
  <2> QED
    BY <1>1, WFMin
<1>3. ASSUME NEW m \in T
      PROVE  n <= m
  <2>1. m \in Nat /\ n \in Nat
    OBVIOUS
  <2>2. ~(m < n)
    BY <1>2, <2>1
  <2> QED
    BY <2>1, <2>2
<1> QED
  BY <1>3

\* Induction up to a number, of the set for which something holds
LEMMA UpTo ==
    ASSUME NEW n \in Nat, NEW G, 0 \in G, \A i \in 1..n : i - 1 \in G => i \in G
    PROVE  \A i \in 0..n : i \in G
<1> DEFINE Off == {i \in 0..n : i \notin G}
<1>1. ASSUME NEW i \in Off, \A j \in Off : i <= j
      PROVE  FALSE
  <2>1. i \in 0..n /\ i \notin G
    OBVIOUS
  <2>2. i \in 1..n /\ i - 1 \in 0..n
    BY <2>1
  <2>3. i - 1 \notin Off
    <3> HIDE DEF Off
    <3>1. i - 1 \in Off => i <= i - 1
      BY <1>1
    <3> QED
      BY <2>2, <3>1
  <2> QED
    BY <2>1, <2>2, <2>3
<1>2. Off = {}
  <2> HIDE DEF Off
  <2>1. Off \in SUBSET Nat
    BY DEF Off
  <2> QED
    BY <1>1, <2>1, LeastElement
<1> QED
  BY <1>2

\* f goes back to smaller arguments until it comes to one of Z.
Backwards(back, Z) == back \in [Nat -> Nat] /\ \A n \in Nat \ Z : back[n] < n
Recurs(f, S, Z, start, step, back) ==
    /\ f \in [Nat -> S]
    /\ \A n \in Nat : f[n] = IF n \in Z THEN start[n] ELSE step[<<n, f[back[n]]>>]

\* A function may be defined by recursion to smaller arguments.
LEMMA Recursion ==
    ASSUME NEW S, NEW Z \in SUBSET Nat, NEW start \in [Nat -> S], NEW step \in [Nat \X S -> S],
           NEW back, Backwards(back, Z)
    PROVE  \E f : Recurs(f, S, Z, start, step, back)
<1> USE DEF Backwards
<1> DEFINE Good(g, m) ==
             /\ g \in [0..m -> S]
             /\ \A n \in 0..m : g[n] = IF n \in Z THEN start[n] ELSE step[<<n, g[back[n]]>>]
           Bad == {m \in Nat : ~ \E g : Good(g, m)}
<1>1. ASSUME NEW m \in Bad, \A k \in Bad : m <= k
      PROVE  FALSE
  <2>1. CASE m = 0
    <3> DEFINE g == [n \in 0..0 |-> start[n]]
    <3>1. 0 \in Z
      OBVIOUS
    <3>2. Good(g, 0)
      BY <3>1
    <3> QED
      BY <1>1, <2>1, <3>2
  <2>2. CASE m # 0
    <3>1. m \in Nat /\ m - 1 \in Nat /\ m - 1 < m
      <4>1. m \in Nat
        OBVIOUS
      <4> QED
        BY <2>2, <4>1
    <3>2. m - 1 \notin Bad
      <4> HIDE DEF Bad
      <4>1. m - 1 \in Bad => m <= m - 1
        BY <1>1
      <4> QED
        BY <3>1, <4>1
    <3>3. PICK g : Good(g, m - 1)
      BY <3>1, <3>2
    <3>4. /\ g \in [0..(m - 1) -> S]
          /\ \A n \in 0..(m - 1) : g[n] = IF n \in Z THEN start[n] ELSE step[<<n, g[back[n]]>>]
      BY <3>3
    <3> DEFINE v == IF m \in Z THEN start[m] ELSE step[<<m, g[back[m]]>>]
               h == [n \in 0..m |-> IF n < m THEN g[n] ELSE v]
    <3>5. v \in S
      <4>1. m \notin Z => back[m] \in 0..(m - 1)
        BY <3>1
      <4>2. m \notin Z => g[back[m]] \in S
        BY <3>4, <4>1
      <4> QED
        BY <3>1, <4>2
    <3> HIDE DEF v
    <3>6. h[m] = v /\ \A n \in 0..(m - 1) : h[n] = g[n]
      BY <3>1
    <3>7. h \in [0..m -> S]
      BY <3>1, <3>4, <3>5
    <3> HIDE DEF h
    <3>8. ASSUME NEW n \in 0..m
          PROVE  h[n] = IF n \in Z THEN start[n] ELSE step[<<n, h[back[n]]>>]
      <4>1. n \in Nat /\ (n \notin Z => back[n] \in 0..(m - 1))
        BY <3>1
      <4>2. n \notin Z => h[back[n]] = g[back[n]]
        BY <3>6, <4>1
      <4>3. CASE n < m
        <5>1. n \in 0..(m - 1)
          BY <3>1, <4>3
        <5>2. h[n] = g[n] /\ g[n] = IF n \in Z THEN start[n] ELSE step[<<n, g[back[n]]>>]
          BY <3>4, <3>6, <5>1
        <5> QED
          BY <4>2, <5>2
      <4>4. CASE n = m
        BY <3>6, <4>2, <4>4 DEF v
      <4> QED
        BY <3>1, <4>1, <4>3, <4>4
    <3>9. Good(h, m)
      BY <3>7, <3>8
    <3> QED
      BY <1>1, <3>9
  <2> QED
    BY <2>1, <2>2
<1>2. \A m \in Nat : \E g : Good(g, m)
  <2>1. Bad = {}
    <3> HIDE DEF Bad
    <3>1. Bad \in SUBSET Nat
      BY DEF Bad
    <3> QED
      BY <1>1, <3>1, LeastElement
  <2> QED
    BY <2>1
<1>3. ASSUME NEW m \in Nat, NEW k \in Nat, NEW g, NEW h, Good(g, m), Good(h, k),
             NEW n \in 0..m, n \in 0..k
      PROVE  g[n] = h[n]
  <2> DEFINE Off == {i \in 0..m : i \in 0..k /\ g[i] # h[i]}
  <2>1. ASSUME NEW i \in Off, \A j \in Off : i <= j
        PROVE  FALSE
    <3>1. i \notin Z
      BY <1>3
    <3>2. back[i] \in 0..m /\ back[i] \in 0..k /\ back[i] < i
      BY <3>1
    <3>3. g[back[i]] = h[back[i]]
      <4>1. back[i] \in Off => i <= back[i]
        <5> HIDE DEF Off
        <5> QED
          BY <2>1
      <4> QED
        BY <3>2, <4>1
    <3>4. i \in 0..m /\ i \in 0..k /\ g[i] # h[i]
      OBVIOUS
    <3>5. g[i] = step[<<i, g[back[i]]>>] /\ h[i] = step[<<i, h[back[i]]>>]
      BY <1>3, <3>1, <3>4
    <3> QED
      BY <3>3, <3>4, <3>5
  <2>2. Off = {}
    <3> HIDE DEF Off
    <3>1. Off \in SUBSET Nat
      BY DEF Off
    <3> QED
      BY <2>1, <3>1, LeastElement
  <2> QED
    BY <1>3, <2>2
<1> DEFINE G(n) == CHOOSE g : Good(g, n)
           f == [n \in Nat |-> G(n)[n]]
<1>4. \A n \in Nat : Good(G(n), n)
  <2> HIDE DEF Good
  <2> QED
    BY <1>2
<1>5. ASSUME NEW n \in Nat
      PROVE  f[n] \in S /\ f[n] = IF n \in Z THEN start[n] ELSE step[<<n, f[back[n]]>>]
  <2>1. f[n] = G(n)[n]
    OBVIOUS
  <2>2. Good(G(n), n)
    BY <1>4
  <2> HIDE DEF G
  <2>3. G(n)[n] \in S /\ G(n)[n] = IF n \in Z THEN start[n] ELSE step[<<n, G(n)[back[n]]>>]
    <3>1. PICK g : g = G(n)
      OBVIOUS
    <3>2. Good(g, n) /\ n \in 0..n
      BY <2>2, <3>1
    <3>3. g[n] \in S /\ g[n] = IF n \in Z THEN start[n] ELSE step[<<n, g[back[n]]>>]
      BY <3>2
    <3> HIDE DEF Good
    <3> QED
      BY <3>1, <3>3
  <2>4. n \notin Z => G(n)[back[n]] = G(back[n])[back[n]]
    <3> SUFFICES ASSUME n \notin Z
                 PROVE  G(n)[back[n]] = G(back[n])[back[n]]
      OBVIOUS
    <3>1. back[n] \in Nat /\ back[n] \in 0..n /\ back[n] \in 0..back[n]
      OBVIOUS
    <3>2. Good(G(back[n]), back[n])
      BY <1>4, <3>1
    <3> HIDE DEF Good
    <3> QED
      BY <1>3, <2>2, <3>1, <3>2
  <2>5. n \notin Z => f[back[n]] = G(back[n])[back[n]]
    OBVIOUS
  <2> QED
    BY <2>1, <2>3, <2>4, <2>5
<1>6. f \in [Nat -> S]
  BY <1>5
<1> HIDE DEF f
<1>7. Recurs(f, S, Z, start, step, back)
  BY <1>5, <1>6 DEF Recurs
<1> QED
  BY <1>7

(*------------------------------ numbers as digits ------------------------------*)

\* The bits of a code, read in base four, are a number.
LEMMA BitsAreNat ==
    \A c \in Nat : BitsInFours[c] \in Nat
<1> DEFINE P(g) == g = [c \in Nat |-> IF c = 0 THEN 0 ELSE (c % 2) + 4 * g[c \div 2]]
           start == [n \in Nat |-> 0]
           back == [n \in Nat |-> n \div 2]
           step == [p \in Nat \X Nat |-> (p[1] % 2) + 4 * p[2]]
           Z == {0}
<1>1. /\ start \in [Nat -> Nat] /\ step \in [Nat \X Nat -> Nat]
      /\ Z \in SUBSET Nat /\ Backwards(back, Z)
  BY DEF Backwards
<1>2. PICK f : Recurs(f, Nat, Z, start, step, back)
  <2> HIDE DEF start, back, step, Z
  <2> QED
    BY <1>1, Recursion
<1>3. ASSUME NEW n \in Nat
      PROVE  f[n] = IF n = 0 THEN 0 ELSE (n % 2) + 4 * f[n \div 2]
  <2>1. n \div 2 \in Nat /\ f[n \div 2] \in Nat
    BY <1>2 DEF Recurs
  <2>2. f[n] = IF n \in Z THEN start[n] ELSE step[<<n, f[back[n]]>>]
    BY <1>2 DEF Recurs
  <2> QED
    BY <2>1, <2>2
<1>4. P(f)
  BY <1>2, <1>3 DEF Recurs
<1>5. P(BitsInFours)
  <2>1. BitsInFours = CHOOSE g : P(g)
    BY DEF BitsInFours
  <2> HIDE DEF P
  <2> QED
    BY <1>4, <2>1
<1>6. \A c \in Nat : BitsInFours[c] = IF c = 0 THEN 0 ELSE (c % 2) + 4 * BitsInFours[c \div 2]
  BY <1>5, Zenon
<1> DEFINE Off == {c \in Nat : BitsInFours[c] \notin Nat}
<1>7. ASSUME NEW c \in Off, \A d \in Off : c <= d
      PROVE  FALSE
  <2>1. c \in Nat /\ BitsInFours[c] \notin Nat
    OBVIOUS
  <2>2. c # 0
    BY <1>6, <2>1
  <2>3. c \div 2 \in Nat /\ c \div 2 < c
    BY <2>1, <2>2
  <2>4. c \div 2 \notin Off
    <3> HIDE DEF Off
    <3>1. c \div 2 \in Off => c <= c \div 2
      BY <1>7
    <3> QED
      BY <2>1, <2>3, <3>1
  <2>5. BitsInFours[c \div 2] \in Nat
    BY <2>3, <2>4
  <2> QED
    BY <1>6, <2>1, <2>2, <2>5
<1>8. Off = {}
  <2> HIDE DEF Off
  <2>1. Off \in SUBSET Nat
    BY DEF Off
  <2> QED
    BY <1>7, <2>1, LeastElement
<1> QED
  BY <1>8

\* A number has at least one digit.
LEMMA DigitsAreNat ==
    \A n \in Nat : Digits[n] \in Seq(Nat) /\ Len(Digits[n]) >= 1
<1> DEFINE P(g) == g = [n \in Nat |-> IF n < 10 THEN <<n>> ELSE Append(g[n \div 10], n % 10)]
           S == {s \in Seq(Nat) : Len(s) >= 1}
           start == [n \in Nat |-> <<n>>]
           back == [n \in Nat |-> n \div 10]
           step == [p \in Nat \X S |-> Append(p[2], p[1] % 10)]
           Z == {n \in Nat : n < 10}
<1>1. start \in [Nat -> S] /\ Z \in SUBSET Nat /\ Backwards(back, Z)
  BY DEF Backwards
<1>2. step \in [Nat \X S -> S]
  <2>1. ASSUME NEW p \in Nat \X S
        PROVE  Append(p[2], p[1] % 10) \in S
    <3>1. p[2] \in Seq(Nat) /\ Len(p[2]) >= 1 /\ p[1] % 10 \in Nat
      OBVIOUS
    <3>2. Append(p[2], p[1] % 10) \in Seq(Nat) /\ Len(Append(p[2], p[1] % 10)) = Len(p[2]) + 1
      BY <3>1, AppendProperties
    <3>3. Len(p[2]) \in Nat
      BY <3>1, LenProperties
    <3> QED
      BY <3>1, <3>2, <3>3
  <2> QED
    BY <2>1
<1>3. PICK f : Recurs(f, S, Z, start, step, back)
  <2> HIDE DEF start, back, step, Z, S
  <2> QED
    BY <1>1, <1>2, Recursion
<1>4. ASSUME NEW n \in Nat
      PROVE  f[n] = IF n < 10 THEN <<n>> ELSE Append(f[n \div 10], n % 10)
  <2>1. n \div 10 \in Nat
    OBVIOUS
  <2> HIDE DEF S
  <2>2. f[n \div 10] \in S /\ f[n] = IF n \in Z THEN start[n] ELSE step[<<n, f[back[n]]>>]
    BY <1>3, <2>1 DEF Recurs
  <2> QED
    BY <2>1, <2>2
<1>5. P(f)
  <2> HIDE DEF S
  <2> QED
    BY <1>3, <1>4 DEF Recurs
<1>6. P(Digits)
  <2>1. Digits = CHOOSE g : P(g)
    BY DEF Digits
  <2> HIDE DEF P
  <2> QED
    BY <1>5, <2>1
<1>7. \A n \in Nat : Digits[n] = IF n < 10 THEN <<n>> ELSE Append(Digits[n \div 10], n % 10)
  BY <1>6, Zenon
<1> DEFINE Off == {n \in Nat : Digits[n] \notin S}
<1>8. ASSUME NEW c \in Off, \A d \in Off : c <= d
      PROVE  FALSE
  <2>1. c \in Nat /\ Digits[c] \notin S
    OBVIOUS
  <2>2. c >= 10
    <3>1. c < 10 => Digits[c] = <<c>>
      BY <1>7, <2>1
    <3>2. <<c>> \in S
      BY <2>1
    <3> HIDE DEF S
    <3> QED
      BY <2>1, <3>1, <3>2
  <2>3. c \div 10 \in Nat /\ c \div 10 < c /\ c % 10 \in Nat
    <3> HIDE DEF Off
    <3> QED
      BY <2>1, <2>2
  <2>4. c \div 10 \notin Off
    <3> HIDE DEF Off
    <3>1. c \div 10 \in Off => c <= c \div 10
      BY <1>8
    <3> QED
      BY <2>1, <2>3, <3>1
  <2>5. Digits[c \div 10] \in S
    BY <2>3, <2>4
  <2>6. step[<<c, Digits[c \div 10]>>] \in S
    <3> HIDE DEF S, step
    <3> QED
      BY <1>2, <2>1, <2>5
  <2>7. Append(Digits[c \div 10], c % 10) \in S
    <3>1. step[<<c, Digits[c \div 10]>>] = Append(Digits[c \div 10], c % 10)
      <4> HIDE DEF S
      <4> QED
        BY <2>1, <2>5
    <3> HIDE DEF S, step
    <3> QED
      BY <2>6, <3>1
  <2>8. Digits[c] = Append(Digits[c \div 10], c % 10)
    <3>1. ~(c < 10)
      BY <2>1, <2>2
    <3> QED
      BY <1>7, <2>1, <3>1
  <2> HIDE DEF S
  <2> QED
    BY <2>1, <2>7, <2>8
<1>9. Off = {}
  <2> HIDE DEF Off
  <2>1. Off \in SUBSET Nat
    BY DEF Off
  <2> QED
    BY <1>8, <2>1, LeastElement
<1> QED
  BY <1>9

(*-------------------------------- flattening --------------------------------*)

\* What FlattenSeq has joined after each of the sequences
Joined(part, seqs) ==
    /\ part[0] = <<>>
    /\ \A i \in 1..Len(seqs) : part[i] = part[i - 1] \o seqs[i]

\* FlattenSeq by its partial results
LEMMA Flattened ==
    ASSUME NEW S, NEW seqs \in Seq(Seq(S))
    PROVE  \E part \in [0..Len(seqs) -> Seq(S)] :
              Joined(part, seqs) /\ FlattenSeq(seqs) = part[Len(seqs)]
<1> DEFINE n == Len(seqs)
           T == Seq(S)
           P(g) == g = [i \in 1..n |-> IF i = 1 THEN seqs[i] ELSE g[i - 1] \o seqs[i]]
           start == [i \in Nat |-> <<>>]
           back == [i \in Nat |-> IF i = 0 THEN 0 ELSE i - 1]
           step == [p \in Nat \X T |-> IF p[1] \in 1..n THEN p[2] \o seqs[p[1]] ELSE <<>>]
           Z == {0}
<1>1. n \in Nat /\ \A i \in 1..n : seqs[i] \in T
  BY LenProperties, ElementOfSeq
<1>2. <<>> \in T /\ \A s, t \in T : s \o t \in T
  BY EmptySeq, ConcatProperties
<1>a. \A s \in T : <<>> \o s = s
  BY ConcatEmptySeq
<1> HIDE DEF n, T
<1>3. start \in [Nat -> T] /\ Z \in SUBSET Nat /\ Backwards(back, Z)
  BY <1>2 DEF Backwards
<1>4. step \in [Nat \X T -> T]
  BY <1>1, <1>2
<1>5. PICK f : Recurs(f, T, Z, start, step, back)
  <2> HIDE DEF start, back, step, Z
  <2> QED
    BY <1>3, <1>4, Recursion
<1>6. f \in [Nat -> T] /\ f[0] = <<>> /\ \A i \in 1..n : f[i] = f[i - 1] \o seqs[i]
  <2>1. f \in [Nat -> T] /\ f[0] = <<>>
    BY <1>5 DEF Recurs
  <2>2. ASSUME NEW i \in 1..n
        PROVE  f[i] = f[i - 1] \o seqs[i]
    <3>1. i \in Nat /\ i # 0 /\ i - 1 \in Nat
      BY <1>1
    <3>2. f[i] = IF i \in Z THEN start[i] ELSE step[<<i, f[back[i]]>>]
      BY <1>5, <3>1 DEF Recurs
    <3>3. f[i - 1] \in T
      BY <2>1, <3>1
    <3> QED
      BY <3>1, <3>2, <3>3
  <2> QED
    BY <2>1, <2>2
<1> HIDE DEF start, back, step, Z
<1>9. n # 0 => f[1] = seqs[1]
  <2> SUFFICES ASSUME n # 0
               PROVE  f[1] = seqs[1]
    OBVIOUS
  <2>1. 1 \in 1..n /\ 1 - 1 = 0
    BY <1>1
  <2>2. f[1] = f[0] \o seqs[1] /\ seqs[1] \in T
    BY <1>1, <1>6, <2>1
  <2> QED
    BY <1>6, <1>a, <2>2
<1>7. CASE n = 0
  <2>1. seqs = <<>>
    BY <1>7, EmptySeq DEF n
  <2>2. FlattenSeq(seqs) = <<>>
    BY <2>1 DEF FlattenSeq
  <2> DEFINE part == [i \in 0..n |-> f[i]]
  <2>3. part \in [0..n -> T] /\ part[0] = <<>> /\ \A i \in 1..n : part[i] = part[i - 1] \o seqs[i]
    BY <1>6, <1>7
  <2>4. FlattenSeq(seqs) = part[n]
    BY <1>7, <2>2, <2>3
  <2> HIDE DEF part
  <2> QED
    BY <2>3, <2>4 DEF Joined, n, T
<1>8. CASE n # 0
  <2> DEFINE h == [i \in 1..n |-> f[i]]
  <2>1. ASSUME NEW i \in 1..n
        PROVE  h[i] = IF i = 1 THEN seqs[i] ELSE h[i - 1] \o seqs[i]
    <3>1. CASE i = 1
      BY <1>8, <1>9, <3>1
    <3>2. CASE i # 1
      <4>1. i - 1 \in 1..n
        BY <1>1, <3>2
      <4> QED
        BY <1>6, <3>2, <4>1
    <3> QED
      BY <3>1, <3>2
  <2>2. P(h)
    BY <2>1
  <2>3. PICK g : g = CHOOSE x : P(x)
    OBVIOUS
  <2>4. P(g)
    <3> HIDE DEF P, h
    <3> QED
      BY <2>2, <2>3
  <2>5. FlattenSeq(seqs) = g[n]
    BY <1>8, <2>3 DEF FlattenSeq, n
  <2>6. \A i \in 1..n : g[i] = IF i = 1 THEN seqs[i] ELSE g[i - 1] \o seqs[i]
    BY <2>4, Zenon
  <2> DEFINE G == {0} \union {i \in 1..n : g[i] = f[i]}
  <2>7. ASSUME NEW i \in 1..n, i - 1 \in G
        PROVE  i \in G
    <3>1. CASE i = 1
      BY <1>8, <1>9, <2>6, <3>1
    <3>2. CASE i # 1
      <4>1. i - 1 \in 1..n
        BY <1>1, <3>2
      <4>2. g[i - 1] = f[i - 1]
        BY <2>7, <4>1
      <4> QED
        BY <1>6, <2>6, <3>2, <4>2
    <3> QED
      BY <3>1, <3>2
  <2>8. n \in G
    <3>1. 0 \in G
      OBVIOUS
    <3> HIDE DEF G
    <3>2. \A i \in 0..n : i \in G
      BY <1>1, <2>7, <3>1, UpTo
    <3> QED
      BY <1>1, <3>2
  <2>9. FlattenSeq(seqs) = f[n]
    BY <1>1, <1>8, <2>5, <2>8
  <2> DEFINE part == [i \in 0..n |-> f[i]]
  <2>10. part \in [0..n -> T] /\ part[0] = <<>> /\ \A i \in 1..n : part[i] = part[i - 1] \o seqs[i]
    <3>1. part \in [0..n -> T] /\ part[0] = <<>>
      BY <1>1, <1>6
    <3>2. ASSUME NEW i \in 1..n
          PROVE  part[i] = part[i - 1] \o seqs[i]
      <4>1. i \in 0..n /\ i - 1 \in 0..n
        BY <1>1
      <4> QED
        BY <1>6, <4>1
    <3> QED
      BY <3>1, <3>2
  <2>11. FlattenSeq(seqs) = part[n]
    BY <1>1, <2>9
  <2> HIDE DEF part
  <2> QED
    BY <2>10, <2>11 DEF Joined, n, T
<1> QED
  BY <1>7, <1>8

(*---------------------------------- folding ----------------------------------*)

\* The greatest of some of the first n numbers; a fold of the library goes by it.
LEMMA MaxOfSegment ==
    ASSUME NEW n \in Nat, NEW s \in SUBSET (1..n), s # {}
    PROVE  Max(s) \in s /\ \A i \in s : i <= Max(s)
<1> DEFINE T == {n - i : i \in s}
<1>1. T \in SUBSET Nat /\ T # {}
  <2>1. \A i \in s : i \in 1..n /\ n - i \in Nat
    OBVIOUS
  <2> QED
    BY <2>1
<1>2. PICK t \in T : \A u \in T : t <= u
  <2> HIDE DEF T
  <2> QED
    BY <1>1, LeastElement
<1>3. PICK i \in s : t = n - i
  OBVIOUS
<1>4. ASSUME NEW j \in s
      PROVE  i >= j
  <2>1. n - j \in T
    OBVIOUS
  <2>2. t <= n - j
    BY <1>2, <2>1
  <2>3. i \in Int /\ j \in Int
    OBVIOUS
  <2> QED
    BY <1>3, <2>2, <2>3
<1>5. \E x \in s : \A y \in s : x >= y
  BY <1>4
<1>6. Max(s) = CHOOSE x \in s : \A y \in s : x >= y
  BY DEF Max
<1>7. Max(s) \in s /\ \A y \in s : Max(s) >= y
  BY <1>5, <1>6
<1>8. ASSUME NEW y \in s
      PROVE  y <= Max(s)
  <2>1. y \in 1..n /\ Max(s) \in 1..n
    BY <1>7
  <2> QED
    BY <1>7, <2>1
<1> QED
  BY <1>7, <1>8

\* The last of the first i, and the ones before it
LEMMA LastOfSegment ==
    ASSUME NEW i \in Nat \ {0}
    PROVE  /\ 1..i # {} /\ 1..0 = {}
           /\ Max(1..i) = i
           /\ (1..i) \ {i} = 1..(i - 1)
<1>1. 1..i # {} /\ i \in 1..i /\ 1..i \in SUBSET (1..i)
  OBVIOUS
<1>2. Max(1..i) \in 1..i /\ i <= Max(1..i)
  BY <1>1, MaxOfSegment
<1>3. Max(1..i) = i
  BY <1>2
<1> QED
  BY <1>1, <1>3

\* The recursion of FoldLeft: over the places up to n, the last one first.
Iterates(it, S, n, seq, base, step) ==
    /\ it \in [SUBSET (1..n) -> S]
    /\ \A s \in SUBSET (1..n) :
          it[s] = IF s = {} THEN base ELSE step[<<it[s \ {Max(s)}], seq[Max(s)]>>]

\* There are such partial results for every step.
LEMMA FoldExists ==
    ASSUME NEW S, NEW D, NEW n \in Nat, NEW seq \in [1..n -> D], NEW base \in S,
           NEW step \in [S \X D -> S]
    PROVE  \E it : Iterates(it, S, n, seq, base, step)
<1> DEFINE G == {m \in 0..n : \E it : Iterates(it, S, m, seq, base, step)}
<1>1. 0 \in G
  <2> DEFINE it == [s \in SUBSET (1..0) |-> base]
  <2>1. \A s \in SUBSET (1..0) : s = {}
    OBVIOUS
  <2>2. Iterates(it, S, 0, seq, base, step)
    BY <2>1 DEF Iterates
  <2> QED
    BY <2>2
<1>2. ASSUME NEW m \in 1..n, m - 1 \in G
      PROVE  m \in G
  <2>1. PICK it : Iterates(it, S, m - 1, seq, base, step)
    BY <1>2
  <2>2. m \in Nat /\ m - 1 \in Nat
    OBVIOUS
  <2> DEFINE new(s) == IF m \in s THEN step[<<it[s \ {m}], seq[m]>>] ELSE it[s]
             nit == [s \in SUBSET (1..m) |-> new(s)]
  <2>3. ASSUME NEW s \in SUBSET (1..m)
        PROVE  /\ s \ {m} \in SUBSET (1..(m - 1))
               /\ m \notin s => s \in SUBSET (1..(m - 1))
               /\ m \in s => s # {} /\ Max(s) = m
    <3>1. s \ {m} \in SUBSET (1..(m - 1)) /\ (m \notin s => s \in SUBSET (1..(m - 1)))
      BY <2>2
    <3>2. ASSUME m \in s
          PROVE  s # {} /\ Max(s) = m
      <4>1. s # {}
        BY <3>2
      <4>2. Max(s) \in s /\ m <= Max(s)
        BY <2>2, <3>2, <4>1, MaxOfSegment
      <4>3. Max(s) \in 1..m
        BY <4>2
      <4> QED
        BY <2>2, <4>1, <4>2, <4>3
    <3> QED
      BY <3>1, <3>2
  <2>4. ASSUME NEW s \in SUBSET (1..(m - 1))
        PROVE  /\ it[s] \in S
               /\ it[s] = IF s = {} THEN base ELSE step[<<it[s \ {Max(s)}], seq[Max(s)]>>]
               /\ s \in SUBSET (1..m) /\ m \notin s
    <3>1. it[s] \in S /\ it[s] = IF s = {} THEN base ELSE step[<<it[s \ {Max(s)}], seq[Max(s)]>>]
      BY <2>1 DEF Iterates
    <3>2. \A i \in s : i \in 1..m /\ i # m
      BY <2>2
    <3> QED
      BY <3>1, <3>2
  <2>5. ASSUME NEW s \in SUBSET (1..m)
        PROVE  nit[s] \in S
    <3>1. CASE m \in s
      <4>1. it[s \ {m}] \in S /\ seq[m] \in D
        BY <2>3, <2>4
      <4> QED
        BY <3>1, <4>1
    <3>2. CASE m \notin s
      BY <2>3, <2>4, <3>2
    <3> QED
      BY <3>1, <3>2
  <2>6. ASSUME NEW s \in SUBSET (1..m)
        PROVE  nit[s] = IF s = {} THEN base ELSE step[<<nit[s \ {Max(s)}], seq[Max(s)]>>]
    <3>1. CASE m \in s
      <4>1. nit[s \ {m}] = it[s \ {m}]
        BY <2>3, <2>4
      <4>2. nit[s] = step[<<it[s \ {m}], seq[m]>>]
        BY <3>1
      <4> HIDE DEF nit
      <4> QED
        BY <2>3, <3>1, <4>1, <4>2
    <3>2. CASE m \notin s
      <4>1. s \in SUBSET (1..(m - 1)) /\ nit[s] = it[s]
        BY <2>3, <3>2
      <4>2. s \ {Max(s)} \in SUBSET (1..(m - 1)) /\ s \ {Max(s)} \in SUBSET (1..m)
        BY <4>1
      <4>3. nit[s \ {Max(s)}] = it[s \ {Max(s)}]
        BY <2>4, <4>2
      <4> HIDE DEF nit
      <4> QED
        BY <2>4, <4>1, <4>3
    <3> QED
      BY <3>1, <3>2
  <2>7. nit \in [SUBSET (1..m) -> S]
    BY <2>5
  <2>8. Iterates(nit, S, m, seq, base, step)
    <3> HIDE DEF nit
    <3> QED
      BY <2>6, <2>7 DEF Iterates
  <2> QED
    BY <2>8
<1>3. n \in G
  <2> HIDE DEF G
  <2>1. \A m \in 0..n : m \in G
    BY <1>1, <1>2, UpTo
  <2> QED
    BY <2>1
<1> QED
  BY <1>3

(*---------------------- the four folds of the codec ----------------------*)

\* Number is the last of these.
LEMMA NumberFold ==
    ASSUME NEW digits \in Seq(Nat)
    PROVE  \E part : /\ part[0] = 0
                     /\ \A i \in 1..Len(digits) : part[i] = 10 * part[i - 1] + digits[i]
                     /\ Number(digits) = part[Len(digits)]
<1> DEFINE n == Len(digits)
           step == [p \in Nat \X Nat |-> 10 * p[1] + p[2]]
           P(g) == g = [s \in SUBSET DOMAIN digits |->
                          IF s = {} THEN 0 ELSE 10 * g[s \ {Max(s)}] + digits[Max(s)]]
<1>1. n \in Nat /\ digits \in [1..n -> Nat] /\ DOMAIN digits = 1..n
  BY LenProperties
<1>2. step \in [Nat \X Nat -> Nat]
  OBVIOUS
<1>3. PICK it : Iterates(it, Nat, n, digits, 0, step)
  <2> HIDE DEF n, step
  <2> QED
    BY <1>1, <1>2, FoldExists
<1>4. P(it)
  <2> HIDE DEF n
  <2>1. ASSUME NEW s \in SUBSET (1..n)
        PROVE  it[s] = IF s = {} THEN 0 ELSE 10 * it[s \ {Max(s)}] + digits[Max(s)]
    <3>1. it[s] = IF s = {} THEN 0 ELSE step[<<it[s \ {Max(s)}], digits[Max(s)]>>]
      BY <1>3 DEF Iterates
    <3>2. s # {} => it[s \ {Max(s)}] \in Nat /\ digits[Max(s)] \in Nat
      <4>1. s # {} => Max(s) \in 1..n
        BY <1>1, MaxOfSegment
      <4>2. s \ {Max(s)} \in SUBSET (1..n)
        OBVIOUS
      <4> QED
        BY <1>1, <1>3, <4>1, <4>2 DEF Iterates
    <3> QED
      BY <3>1, <3>2
  <2> QED
    BY <1>1, <1>3, <2>1 DEF Iterates
<1>5. PICK g : g = CHOOSE x : P(x)
  OBVIOUS
<1>6. P(g)
  <2> HIDE DEF P
  <2> QED
    BY <1>4, <1>5
<1>7. Number(digits) = g[1..n]
  BY <1>1, <1>5 DEF Number, FoldLeft, MapThenFoldSet
<1> DEFINE part == [i \in 0..n |-> g[1..i]]
<1>8. part[0] = 0
  <2> HIDE DEF n
  <2>1. {} \in SUBSET DOMAIN digits /\ g[{}] = 0
    BY <1>6
  <2> QED
    BY <1>1, <2>1
<1>9. ASSUME NEW i \in 1..n
      PROVE  part[i] = 10 * part[i - 1] + digits[i]
  <2> HIDE DEF n
  <2>1. i \in Nat \ {0} /\ 1..i \in SUBSET DOMAIN digits /\ i - 1 \in 0..n /\ i \in 0..n
    BY <1>1
  <2>2. g[1..i] = 10 * g[1..(i - 1)] + digits[i]
    BY <1>6, <2>1, LastOfSegment
  <2> QED
    BY <2>1, <2>2
<1>10. Number(digits) = part[n]
  BY <1>1, <1>7
<1> HIDE DEF part
<1> QED
  BY <1>8, <1>9, <1>10

\* Continued by its partial results
LEMMA ContinuedFold ==
    ASSUME NEW code \in Nat, NEW bytes \in Seq(Nat)
    PROVE  \E part : /\ part[0] = code
                     /\ \A i \in 1..Len(bytes) : part[i] = 64 * part[i - 1] + (bytes[i] % 64)
                     /\ Continued(code, bytes) = part[Len(bytes)]
<1> DEFINE n == Len(bytes)
           step == [p \in Nat \X Nat |-> 64 * p[1] + (p[2] % 64)]
           P(g) == g = [s \in SUBSET DOMAIN bytes |->
                          IF s = {} THEN code ELSE 64 * g[s \ {Max(s)}] + (bytes[Max(s)] % 64)]
<1>1. n \in Nat /\ bytes \in [1..n -> Nat] /\ DOMAIN bytes = 1..n
  BY LenProperties
<1>2. step \in [Nat \X Nat -> Nat]
  OBVIOUS
<1>3. PICK it : Iterates(it, Nat, n, bytes, code, step)
  <2> HIDE DEF n, step
  <2> QED
    BY <1>1, <1>2, FoldExists
<1>4. P(it)
  <2> HIDE DEF n
  <2>1. ASSUME NEW s \in SUBSET (1..n)
        PROVE  it[s] = IF s = {} THEN code ELSE 64 * it[s \ {Max(s)}] + (bytes[Max(s)] % 64)
    <3>1. it[s] = IF s = {} THEN code ELSE step[<<it[s \ {Max(s)}], bytes[Max(s)]>>]
      BY <1>3 DEF Iterates
    <3>2. s # {} => it[s \ {Max(s)}] \in Nat /\ bytes[Max(s)] \in Nat
      <4>1. s # {} => Max(s) \in 1..n
        BY <1>1, MaxOfSegment
      <4>2. s \ {Max(s)} \in SUBSET (1..n)
        OBVIOUS
      <4> QED
        BY <1>1, <1>3, <4>1, <4>2 DEF Iterates
    <3> QED
      BY <3>1, <3>2
  <2> QED
    BY <1>1, <1>3, <2>1 DEF Iterates
<1>5. PICK g : g = CHOOSE x : P(x)
  OBVIOUS
<1>6. P(g)
  <2> HIDE DEF P
  <2> QED
    BY <1>4, <1>5
<1>7. Continued(code, bytes) = g[1..n]
  BY <1>1, <1>5 DEF Continued, FoldLeft, MapThenFoldSet
<1> DEFINE part == [i \in 0..n |-> g[1..i]]
<1>8. part[0] = code
  <2> HIDE DEF n
  <2>1. {} \in SUBSET DOMAIN bytes /\ g[{}] = code
    BY <1>6
  <2> QED
    BY <1>1, <2>1
<1>9. ASSUME NEW i \in 1..n
      PROVE  part[i] = 64 * part[i - 1] + (bytes[i] % 64)
  <2> HIDE DEF n
  <2>1. i \in Nat \ {0} /\ 1..i \in SUBSET DOMAIN bytes /\ i - 1 \in 0..n /\ i \in 0..n
    BY <1>1
  <2>2. g[1..i] = 64 * g[1..(i - 1)] + (bytes[i] % 64)
    BY <1>6, <2>1, LastOfSegment
  <2> QED
    BY <2>1, <2>2
<1>10. Continued(code, bytes) = part[n]
  BY <1>1, <1>7
<1> HIDE DEF part
<1> QED
  BY <1>8, <1>9, <1>10

\* A character of an alphabet is worth six bits.
LEMMA SextetIsSmall ==
    ASSUME NEW c \in Nat, IsSextet(c)
    PROVE  Sextet(c) \in 0..63
<1>1. CASE c \in 65..90
  <2>1. Sextet(c) = c - 65
    BY <1>1 DEF Sextet
  <2> QED
    BY <1>1, <2>1
<1>2. CASE c \in 97..122
  <2>1. Sextet(c) = c - 71
    BY <1>2 DEF Sextet
  <2> QED
    BY <1>2, <2>1
<1>3. CASE c \in 48..57
  <2>1. Sextet(c) = c + 4
    BY <1>3 DEF Sextet
  <2> QED
    BY <1>3, <2>1
<1>4. CASE c \in {43, 45}
  <2>1. Sextet(c) = 62
    BY <1>4 DEF Sextet
  <2> QED
    BY <2>1
<1>5. CASE c \in {47, 95}
  <2>1. Sextet(c) = 63
    BY <1>5 DEF Sextet
  <2> QED
    BY <2>1
<1> QED
  BY <1>1, <1>2, <1>3, <1>4, <1>5 DEF IsSextet

\* Sextets by its partial results
LEMMA SextetsFold ==
    ASSUME NEW chars \in Seq(Nat)
    PROVE  \E part : /\ part[0] = <<>>
                     /\ \A i \in 1..Len(chars) :
                          part[i] = IF IsSextet(chars[i]) THEN Append(part[i - 1], Sextet(chars[i]))
                                    ELSE part[i - 1]
                     /\ Sextets(chars) = part[Len(chars)]
<1> DEFINE n == Len(chars)
           add(s, c) == IF IsSextet(c) THEN Append(s, Sextet(c)) ELSE s
           step == [p \in Seq(Nat) \X Nat |-> add(p[1], p[2])]
           P(g) == g = [s \in SUBSET DOMAIN chars |->
                          IF s = {} THEN <<>> ELSE add(g[s \ {Max(s)}], chars[Max(s)])]
<1>1. n \in Nat /\ chars \in [1..n -> Nat] /\ DOMAIN chars = 1..n
  BY LenProperties
<1>2. step \in [Seq(Nat) \X Nat -> Seq(Nat)] /\ <<>> \in Seq(Nat)
  <2>1. ASSUME NEW s \in Seq(Nat), NEW c \in Nat
        PROVE  add(s, c) \in Seq(Nat)
    <3>1. IsSextet(c) => Sextet(c) \in Nat
      <4> SUFFICES ASSUME IsSextet(c)
                   PROVE  Sextet(c) \in Nat
        OBVIOUS
      <4>1. Sextet(c) \in 0..63
        BY SextetIsSmall
      <4>2. \A v \in 0..63 : v \in Nat
        OBVIOUS
      <4> QED
        BY <4>1, <4>2, Zenon
    <3> QED
      BY <3>1, AppendProperties
  <2> HIDE DEF add
  <2> QED
    BY <2>1, EmptySeq
<1>3. PICK it : Iterates(it, Seq(Nat), n, chars, <<>>, step)
  <2> HIDE DEF n, step
  <2> QED
    BY <1>1, <1>2, FoldExists
<1>4. P(it)
  <2> HIDE DEF n, add
  <2>1. ASSUME NEW s \in SUBSET (1..n)
        PROVE  it[s] = IF s = {} THEN <<>> ELSE add(it[s \ {Max(s)}], chars[Max(s)])
    <3>1. it[s] = IF s = {} THEN <<>> ELSE step[<<it[s \ {Max(s)}], chars[Max(s)]>>]
      BY <1>3 DEF Iterates
    <3>2. s # {} => it[s \ {Max(s)}] \in Seq(Nat) /\ chars[Max(s)] \in Nat
      <4>1. s # {} => Max(s) \in 1..n
        BY <1>1, MaxOfSegment
      <4>2. s \ {Max(s)} \in SUBSET (1..n)
        OBVIOUS
      <4> QED
        BY <1>1, <1>3, <4>1, <4>2 DEF Iterates
    <3> QED
      BY <3>1, <3>2
  <2> QED
    BY <1>1, <1>3, <2>1 DEF Iterates
<1>5. PICK g : g = CHOOSE x : P(x)
  OBVIOUS
<1>6. P(g)
  <2> HIDE DEF P
  <2> QED
    BY <1>4, <1>5
<1>7. Sextets(chars) = g[1..n]
  BY <1>1, <1>5 DEF Sextets, FoldLeft, MapThenFoldSet
<1> DEFINE part == [i \in 0..n |-> g[1..i]]
<1>8. part[0] = <<>>
  <2> HIDE DEF n, add
  <2>1. {} \in SUBSET DOMAIN chars /\ g[{}] = <<>>
    BY <1>6
  <2> QED
    BY <1>1, <2>1
<1>9. ASSUME NEW i \in 1..n
      PROVE  part[i] = add(part[i - 1], chars[i])
  <2> HIDE DEF n, add
  <2>1. i \in Nat \ {0} /\ 1..i \in SUBSET DOMAIN chars /\ i - 1 \in 0..n /\ i \in 0..n
    BY <1>1
  <2>2. g[1..i] = add(g[1..(i - 1)], chars[i])
    BY <1>6, <2>1, LastOfSegment
  <2> QED
    BY <2>1, <2>2
<1>10. Sextets(chars) = part[n]
  BY <1>1, <1>7
<1> HIDE DEF part
<1> QED
  BY <1>8, <1>9, <1>10

\* The strings of a length, and the places that a swap in one exchanges
Chars(length) == [1..length -> Nat]
Exchanges(length) == (0..(length - 1)) \X (0..(length - 1))

\* A swap of two characters leaves as many of them.
LEMMA SwapKeeps ==
    ASSUME NEW L \in Nat, NEW chars \in Chars(L), NEW e \in Exchanges(L)
    PROVE  Swap(chars, e[1], e[2]) \in Chars(L)
<1>1. e[1] + 1 \in 1..L /\ e[2] + 1 \in 1..L /\ DOMAIN chars = 1..L
  BY DEF Chars, Exchanges
<1> QED
  BY <1>1 DEF Swap, Chars

\* What the swaps do after each of them
Swapped(part, chars, swaps) ==
    /\ part[0] = chars
    /\ \A i \in 1..Len(swaps) : part[i] = Swap(part[i - 1], swaps[i][1], swaps[i][2])

\* Apply by its partial results
LEMMA ApplyFold ==
    ASSUME NEW L \in Nat, NEW chars \in Chars(L), NEW swaps \in Seq(Exchanges(L))
    PROVE  \E part : Swapped(part, chars, swaps) /\ Apply(chars, swaps) = part[Len(swaps)]
<1> DEFINE n == Len(swaps)
           D == Exchanges(L)
           S == Chars(L)
           step == [p \in S \X D |-> Swap(p[1], p[2][1], p[2][2])]
           P(g) == g = [s \in SUBSET DOMAIN swaps |->
                          IF s = {} THEN chars
                          ELSE Swap(g[s \ {Max(s)}], swaps[Max(s)][1], swaps[Max(s)][2])]
<1>1. n \in Nat /\ swaps \in [1..n -> D] /\ DOMAIN swaps = 1..n
  BY LenProperties
<1>2. step \in [S \X D -> S]
  <2>1. ASSUME NEW p \in S \X D
        PROVE  Swap(p[1], p[2][1], p[2][2]) \in S
    <3>1. p[1] \in S /\ p[2] \in D
      OBVIOUS
    <3> QED
      BY <3>1, SwapKeeps
  <2> HIDE DEF S, D
  <2> QED
    BY <2>1
<1>3. PICK it : Iterates(it, S, n, swaps, chars, step)
  <2>1. chars \in S
    OBVIOUS
  <2> HIDE DEF n, step, S, D
  <2> QED
    BY <1>1, <1>2, <2>1, FoldExists
<1>4. P(it)
  <2> HIDE DEF n, S, D
  <2>1. ASSUME NEW s \in SUBSET (1..n)
        PROVE  it[s] = IF s = {} THEN chars
                       ELSE Swap(it[s \ {Max(s)}], swaps[Max(s)][1], swaps[Max(s)][2])
    <3>1. it[s] = IF s = {} THEN chars ELSE step[<<it[s \ {Max(s)}], swaps[Max(s)]>>]
      BY <1>3 DEF Iterates
    <3>2. s # {} => it[s \ {Max(s)}] \in S /\ swaps[Max(s)] \in D
      <4>1. s # {} => Max(s) \in 1..n
        BY <1>1, MaxOfSegment
      <4>2. s \ {Max(s)} \in SUBSET (1..n)
        OBVIOUS
      <4> QED
        BY <1>1, <1>3, <4>1, <4>2 DEF Iterates
    <3> QED
      BY <3>1, <3>2
  <2> QED
    BY <1>1, <1>3, <2>1 DEF Iterates
<1>5. PICK g : g = CHOOSE x : P(x)
  OBVIOUS
<1>6. P(g)
  <2> HIDE DEF P
  <2> QED
    BY <1>4, <1>5
<1>7. Apply(chars, swaps) = g[1..n]
  BY <1>1, <1>5 DEF Apply, FoldLeft, MapThenFoldSet
<1> DEFINE part == [i \in 0..n |-> g[1..i]]
<1>8. part[0] = chars
  <2> HIDE DEF n
  <2>1. {} \in SUBSET DOMAIN swaps /\ g[{}] = chars
    BY <1>6
  <2> QED
    BY <1>1, <2>1
<1>9. ASSUME NEW i \in 1..n
      PROVE  part[i] = Swap(part[i - 1], swaps[i][1], swaps[i][2])
  <2> HIDE DEF n, D
  <2>1. i \in Nat \ {0} /\ 1..i \in SUBSET DOMAIN swaps /\ i - 1 \in 0..n /\ i \in 0..n
    BY <1>1
  <2>2. g[1..i] = Swap(g[1..(i - 1)], swaps[i][1], swaps[i][2])
    <3>1. \A s \in SUBSET DOMAIN swaps :
             g[s] = IF s = {} THEN chars
                    ELSE Swap(g[s \ {Max(s)}], swaps[Max(s)][1], swaps[Max(s)][2])
      BY <1>6, Zenon
    <3>2. 1..i # {} /\ Max(1..i) = i /\ (1..i) \ {i} = 1..(i - 1)
      BY <2>1, LastOfSegment
    <3> QED
      BY <2>1, <3>1, <3>2, Zenon
  <2> QED
    BY <2>1, <2>2
<1>10. Apply(chars, swaps) = part[n]
  BY <1>1, <1>7
<1> HIDE DEF part
<1>11. Swapped(part, chars, swaps)
  BY <1>8, <1>9 DEF Swapped
<1> QED
  BY <1>10, <1>11

\* A function on the first n numbers is a sequence of that length.
LEMMA FunctionIsSeq ==
    ASSUME NEW S, NEW n \in Nat, NEW f \in [1..n -> S]
    PROVE  f \in Seq(S) /\ Len(f) = n
<1>1. f \in Seq(S)
  BY SeqDef
<1>2. DOMAIN f = 1..n /\ DOMAIN f = 1..Len(f) /\ Len(f) \in Nat
  BY <1>1, LenProperties
<1> QED
  BY <1>1, <1>2

(*--------------------------------- the swaps ---------------------------------*)

\* A swap made twice changes nothing.
LEMMA SwapTwice ==
    ASSUME NEW L \in Nat, NEW chars \in Chars(L), NEW e \in Exchanges(L)
    PROVE  Swap(Swap(chars, e[1], e[2]), e[1], e[2]) = chars
<1> DEFINE i == e[1]
           j == e[2]
<1>1. i + 1 \in 1..L /\ j + 1 \in 1..L
  BY DEF Exchanges
<1> DEFINE once == Swap(chars, i, j)
           twice == Swap(once, i, j)
<1>2. chars \in [1..L -> Nat] /\ once \in [1..L -> Nat] /\ twice \in [1..L -> Nat]
  <2>1. once \in Chars(L)
    BY SwapKeeps
  <2>2. twice \in Chars(L)
    <3> HIDE DEF once
    <3> QED
      BY <2>1, SwapKeeps
  <2> QED
    BY <2>1, <2>2 DEF Chars
<1>3. \A place \in 1..L :
         once[place] = IF place = i + 1 THEN chars[j + 1]
                    ELSE IF place = j + 1 THEN chars[i + 1] ELSE chars[place]
  BY <1>2 DEF Swap
<1>4. \A place \in 1..L :
         twice[place] = IF place = i + 1 THEN once[j + 1]
                     ELSE IF place = j + 1 THEN once[i + 1] ELSE once[place]
  <2>1. DOMAIN once = 1..L
    BY <1>2
  <2> HIDE DEF once
  <2> QED
    BY <2>1 DEF Swap
<1> HIDE DEF once, twice, i, j
<1>5. \A place \in 1..L : twice[place] = chars[place]
  BY <1>1, <1>3, <1>4
<1>6. twice = chars
  BY <1>2, <1>5
<1> QED
  BY <1>6 DEF once, twice, i, j

\* Nor do swaps change their number.
LEMMA SwappedKeeps ==
    ASSUME NEW L \in Nat, NEW chars \in Chars(L), NEW swaps \in Seq(Exchanges(L)),
           NEW part, Swapped(part, chars, swaps)
    PROVE  \A i \in 0..Len(swaps) : part[i] \in Chars(L)
<1> DEFINE n == Len(swaps)
           G == {i \in 0..n : part[i] \in Chars(L)}
<1>1. n \in Nat /\ \A i \in 1..n : swaps[i] \in Exchanges(L)
  BY LenProperties, ElementOfSeq
<1> HIDE DEF n
<1>2. 0 \in G
  BY <1>1 DEF Swapped
<1>3. ASSUME NEW i \in 1..n, i - 1 \in G
      PROVE  i \in G
  <2>1. part[i - 1] \in Chars(L) /\ swaps[i] \in Exchanges(L)
    BY <1>1, <1>3
  <2>2. part[i] = Swap(part[i - 1], swaps[i][1], swaps[i][2])
    BY DEF Swapped, n
  <2>3. part[i] \in Chars(L)
    BY <2>1, <2>2, SwapKeeps
  <2> QED
    BY <1>1, <2>3
<1>4. \A i \in 0..n : i \in G
  <2> HIDE DEF G
  <2> QED
    BY <1>1, <1>2, <1>3, UpTo
<1> QED
  BY <1>4 DEF n

\* The swaps made again from the last to the first undo them.
LEMMA SwapsUndone ==
    ASSUME NEW L \in Nat, NEW chars \in Chars(L), NEW swaps \in Seq(Exchanges(L))
    PROVE  /\ Apply(chars, swaps) \in Chars(L)
           /\ Apply(Apply(chars, swaps), Reverse(swaps)) = chars
<1> DEFINE n == Len(swaps)
           D == Exchanges(L)
           back == Reverse(swaps)
<1>1. n \in Nat /\ \A i \in 1..n : swaps[i] \in D
  BY LenProperties, ElementOfSeq
<1>2. back \in Seq(D) /\ Len(back) = n /\ \A i \in 1..n : back[i] = swaps[n - i + 1]
  <2>1. \A i \in 1..n : n - i + 1 \in 1..n
    BY <1>1
  <2>2. back = [i \in 1..n |-> swaps[n - i + 1]]
    BY DEF Reverse
  <2> HIDE DEF n, back, D
  <2>3. back \in [1..n -> D]
    BY <1>1, <2>1, <2>2
  <2>4. back \in Seq(D) /\ Len(back) = n
    BY <1>1, <2>3, FunctionIsSeq
  <2> QED
    BY <2>2, <2>4
<1>3. PICK p : Swapped(p, chars, swaps) /\ Apply(chars, swaps) = p[n]
  BY ApplyFold
<1>4. \A i \in 0..n : p[i] \in Chars(L)
  BY <1>3, SwappedKeeps
<1>5. p[n] \in Chars(L)
  BY <1>1, <1>4
<1>6. PICK q : Swapped(q, p[n], back) /\ Apply(p[n], back) = q[n]
  <2> HIDE DEF n, back
  <2> QED
    BY <1>2, <1>5, ApplyFold DEF D
<1> DEFINE G == {i \in 0..n : q[i] = p[n - i]}
<1>7. 0 \in G
  <2>1. q[0] = p[n] /\ n - 0 = n
    BY <1>1, <1>6 DEF Swapped
  <2> QED
    BY <1>1, <2>1
<1>8. ASSUME NEW i \in 1..n, i - 1 \in G
      PROVE  i \in G
  <2> HIDE DEF n, back
  <2>1. n - (i - 1) = n - i + 1 /\ n - i + 1 \in 1..n /\ n - i \in 0..n /\ (n - i + 1) - 1 = n - i
    BY <1>1
  <2> DEFINE k == n - i + 1
  <2>2. q[i - 1] = p[k]
    BY <1>8, <2>1
  <2>3. k \in 1..n /\ k - 1 = n - i /\ back[i] = swaps[k]
    BY <1>2, <2>1
  <2> HIDE DEF k
  <2>4. p[k] = Swap(p[k - 1], swaps[k][1], swaps[k][2])
    BY <1>3, <2>3 DEF Swapped, n
  <2>5. q[i] = Swap(q[i - 1], back[i][1], back[i][2])
    BY <1>2, <1>6 DEF Swapped
  <2>6. /\ p[k - 1] \in Chars(L)
        /\ swaps[k] \in Exchanges(L)
    BY <1>1, <1>4, <2>1, <2>3
  <2>7. q[i] = p[k - 1]
    BY <2>2, <2>3, <2>4, <2>5, <2>6, SwapTwice
  <2> QED
    BY <1>1, <2>3, <2>7
<1>9. q[n] = p[0]
  <2>1. \A i \in 0..n : i \in G
    <3> HIDE DEF G, n
    <3> QED
      BY <1>1, <1>7, <1>8, UpTo
  <2> HIDE DEF n
  <2>2. n \in 0..n /\ n - n = 0
    BY <1>1
  <2> QED
    BY <2>1, <2>2
<1> QED
  BY <1>3, <1>5, <1>6, <1>9 DEF Swapped

\* Swaps among the first places leave the others as they are.
LEMMA TailStays ==
    ASSUME NEW L \in Nat, NEW K \in 0..L, NEW chars \in Chars(L),
           NEW swaps \in Seq(Exchanges(K))
    PROVE  \A place \in (K + 1)..L : Apply(chars, swaps)[place] = chars[place]
<1> DEFINE n == Len(swaps)
           D == Exchanges(L)
<1>1. /\ n \in Nat
      /\ \A i \in 1..n : swaps[i] \in Exchanges(K)
  BY LenProperties, ElementOfSeq
<1>2. swaps \in Seq(D)
  <2>1. swaps \in [1..n -> Exchanges(K)]
    BY LenProperties
  <2>2. Exchanges(K) \subseteq D
    BY DEF Exchanges
  <2>3. swaps \in [1..n -> D]
    <3> HIDE DEF D, n
    <3> QED
      BY <2>1, <2>2
  <2> HIDE DEF n
  <2> QED
    BY <1>1, <2>3, FunctionIsSeq
<1>3. PICK p : Swapped(p, chars, swaps) /\ Apply(chars, swaps) = p[n]
  BY <1>2, ApplyFold
<1>4. \A i \in 0..n : p[i] \in Chars(L)
  BY <1>2, <1>3, SwappedKeeps
<1> DEFINE G == {i \in 0..n : \A place \in (K + 1)..L : p[i][place] = chars[place]}
<1> HIDE DEF n
<1>5. 0 \in G
  BY <1>1, <1>3 DEF Swapped
<1>6. ASSUME NEW i \in 1..n, i - 1 \in G
      PROVE  i \in G
  <2>1. p[i] = Swap(p[i - 1], swaps[i][1], swaps[i][2])
    BY <1>3 DEF Swapped, n
  <2>2. /\ p[i - 1] \in Chars(L)
        /\ swaps[i][1] \in 0..(K - 1) /\ swaps[i][2] \in 0..(K - 1)
    <3>1. i - 1 \in 0..n /\ swaps[i] \in Exchanges(K)
      BY <1>1
    <3> QED
      BY <1>4, <3>1 DEF Exchanges
  <2>3. ASSUME NEW place \in (K + 1)..L
        PROVE  p[i][place] = chars[place]
    <3>1. place \in 1..L /\ place # swaps[i][1] + 1 /\ place # swaps[i][2] + 1
      BY <2>2
    <3>2. p[i][place] = p[i - 1][place]
      BY <2>1, <2>2, <3>1 DEF Swap, Chars
    <3> QED
      BY <1>6, <3>2
  <2> QED
    BY <1>1, <2>3
<1>7. n \in G
  <2>1. \A i \in 0..n : i \in G
    <3> HIDE DEF G
    <3> QED
      BY <1>1, <1>5, <1>6, UpTo
  <2> QED
    BY <1>1, <2>1
<1> QED
  BY <1>3, <1>7

\* Digits come to a number.
LEMMA NumberIsNat ==
    ASSUME NEW digits \in Seq(Nat)
    PROVE  Number(digits) \in Nat
<1> DEFINE n == Len(digits)
<1>1. PICK part : /\ part[0] = 0
                  /\ \A i \in 1..n : part[i] = 10 * part[i - 1] + digits[i]
                  /\ Number(digits) = part[n]
  BY NumberFold
<1>2. n \in Nat /\ \A i \in 1..n : digits[i] \in Nat
  BY LenProperties, ElementOfSeq
<1> DEFINE G == {i \in 0..n : part[i] \in Nat}
<1> HIDE DEF n
<1>3. 0 \in G
  BY <1>1, <1>2
<1>4. ASSUME NEW i \in 1..n, i - 1 \in G
      PROVE  i \in G
  <2>1. part[i - 1] \in Nat /\ digits[i] \in Nat /\ part[i] = 10 * part[i - 1] + digits[i]
    BY <1>1, <1>2, <1>4
  <2> QED
    BY <2>1
<1>5. \A i \in 0..n : i \in G
  <2> HIDE DEF G
  <2> QED
    BY <1>2, <1>3, <1>4, UpTo
<1> QED
  BY <1>1, <1>2, <1>5

\* Joining sequences of numbers gives one.
LEMMA FlatIsSeq ==
    ASSUME NEW seqs \in Seq(Seq(Nat))
    PROVE  FlattenSeq(seqs) \in Seq(Nat)
<1>1. PICK part \in [0..Len(seqs) -> Seq(Nat)] : FlattenSeq(seqs) = part[Len(seqs)]
  BY Flattened
<1>2. Len(seqs) \in Nat
  BY LenProperties
<1> QED
  BY <1>1, <1>2

(*---------------------------- the places of the swaps ----------------------------*)

\* How far from the start the swaps reach: never to the characters that tell their places
Reach(length) == IF length < 11 THEN length ELSE length - TailLength(length)

\* The swaps reach to the tail; of a long string there is more than the tail.
LEMMA ReachBounds ==
    ASSUME NEW length \in Nat
    PROVE  /\ Reach(length) \in 0..length
           /\ length >= 4 => Reach(length) >= 4
           /\ length >= 11 => /\ TailLength(length) \in Nat
                              /\ Reach(length) = length - TailLength(length)
                              /\ Places(length) \in Nat /\ Places(length) >= 5
                              /\ Places(length) = Reach(length) - 2
<1>1. length >= 11 => TailLength(length) \in 2..4
  BY DEF TailLength, Least
<1>2. CASE length < 11
  BY <1>2 DEF Reach
<1>3. CASE length >= 11
  <2>1. ~(length < 11) /\ length >= 4
    BY <1>3
  <2>2. PICK t \in 2..4 : t = TailLength(length)
    BY <1>1, <1>3
  <2>3. Reach(length) = length - t /\ Places(length) = length - t - 2
    BY <2>1, <2>2 DEF Reach, Places
  <2> QED
    BY <1>3, <2>2, <2>3
<1> QED
  BY <1>2, <1>3

\* The digits that the last characters tell
TailDigits(encoded) ==
    [i \in 1..TailLength(Len(encoded)) |-> Digits[BitsInFours[encoded[Len(encoded) + 1 - i]]]]

\* Each of them is a number as well.
LEMMA TailDigitsAreNat ==
    ASSUME NEW encoded \in Seq(Nat), Len(encoded) >= 11
    PROVE  TailDigits(encoded) \in Seq(Seq(Nat))
<1> DEFINE n == Len(encoded)
           t == TailLength(n)
<1>1. n \in Nat /\ \A i \in 1..n : encoded[i] \in Nat
  BY LenProperties, ElementOfSeq
<1>2. t \in Nat /\ t <= n
  <2> HIDE DEF n
  <2> QED
    BY <1>1 DEF TailLength, Least
<1> HIDE DEF n, t
<1>3. ASSUME NEW i \in 1..t
      PROVE  Digits[BitsInFours[encoded[n + 1 - i]]] \in Seq(Nat)
  <2>1. n + 1 - i \in 1..n
    BY <1>1, <1>2
  <2>2. BitsInFours[encoded[n + 1 - i]] \in Nat
    BY <1>1, <2>1, BitsAreNat
  <2> QED
    BY <2>2, DigitsAreNat
<1>4. TailDigits(encoded) = [i \in 1..t |-> Digits[BitsInFours[encoded[n + 1 - i]]]]
  BY DEF TailDigits, n, t
<1>5. TailDigits(encoded) \in [1..t -> Seq(Nat)]
  BY <1>3, <1>4
<1> QED
  BY <1>2, <1>5, FunctionIsSeq

\* The number of pairs that so many digits tell, and where the digits of a position start
Pairs(digits, width) == Least(5, (digits - 1) \div width)
From(j, width) == ((j - 1) \div 2) * width + ((j - 1) % 2)

\* swap_positions for a string that has a tail
LEMMA LongPositions ==
    ASSUME NEW encoded \in Seq(Nat), Len(encoded) >= 11
    PROVE  swap_positions(encoded) =
             LET length == Len(encoded)
                 tmp == FlattenSeq(TailDigits(encoded))
                 width == Len(Digits[Places(length)])
             IN  [j \in 1..(2 * Pairs(Len(tmp), width)) |->
                    Place(Number(SubSeq(tmp, From(j, width) + 1, From(j, width) + width)), length)]
<1>1. Len(encoded) \in Nat /\ ~(Len(encoded) < 4) /\ ~(Len(encoded) < 11)
  BY LenProperties
<1> QED
  BY <1>1, Zenon DEF swap_positions, TailDigits, Pairs, From

\* Its digits are among those that there are.
LEMMA DigitsAreThere ==
    ASSUME NEW digits \in Nat, NEW width \in Nat, width >= 1,
           NEW j \in 1..(2 * Pairs(digits, width))
    PROVE  From(j, width) \in Nat /\ From(j, width) + width <= digits
<1> DEFINE q == (j - 1) \div 2
           pairs == Pairs(digits, width)
           most == (digits - 1) \div width
<1>1. most \in Int /\ most * width <= digits - 1
  OBVIOUS
<1>2. pairs \in Int /\ pairs <= most
  BY <1>1 DEF Least, Pairs
<1> HIDE DEF most, pairs
<1>3. j \in 1..(2 * pairs)
  BY DEF pairs
<1>4. j \in Nat /\ j >= 1 /\ j <= 2 * pairs
  BY <1>2, <1>3
<1>5. q \in Nat /\ q + 1 <= pairs /\ (j - 1) % 2 \in 0..1
  BY <1>2, <1>4
<1> HIDE DEF q
<1>6. q * width \in Nat /\ (q + 1) * width <= most * width
  <2>1. q + 1 \in Nat /\ most \in Nat /\ q + 1 <= most
    BY <1>1, <1>2, <1>5
  <2>2. \A a, b, c \in Nat : a <= b => a * c <= b * c
    OBVIOUS
  <2>3. q * width \in Nat
    BY <1>5
  <2> QED
    BY <2>1, <2>2, <2>3
<1>7. (q + 1) * width = q * width + width
  BY <1>5
<1>8. From(j, width) = q * width + ((j - 1) % 2)
  BY DEF From, q
<1> DEFINE x == q * width
<1>9. x \in Nat /\ x + width <= digits - 1
  BY <1>1, <1>6, <1>7
<1> HIDE DEF x
<1>10. From(j, width) = x + ((j - 1) % 2)
  BY <1>8 DEF x
<1> QED
  BY <1>5, <1>9, <1>10

\* Every position leaves room for the swap of the next character, before the ones that tell it.
LEMMA PositionsInReach ==
    ASSUME NEW encoded \in Seq(Nat)
    PROVE  /\ swap_positions(encoded) \in Seq(Nat)
           /\ Len(swap_positions(encoded)) % 2 = 0
           /\ \A j \in 1..Len(swap_positions(encoded)) :
                swap_positions(encoded)[j] + 2 <= Reach(Len(encoded))
<1> DEFINE length == Len(encoded)
           p == swap_positions(encoded)
<1>1. length \in Nat
  BY LenProperties
<1>2. CASE length < 4
  <2>1. p = <<>>
    BY <1>2 DEF swap_positions
  <2> HIDE DEF p
  <2> QED
    BY <2>1 DEF p
<1>3. CASE length >= 4 /\ length < 11
  <2>1. ~(length < 4) /\ length < 11 /\ Reach(length) = length
    BY <1>1, <1>3 DEF Reach
  <2>2. p = <<0, 2>>
    BY <2>1 DEF swap_positions
  <2>3. <<0, 2>> \in Seq(Nat) /\ Len(<<0, 2>>) = 2
    OBVIOUS
  <2>4. \A j \in 1..2 : <<0, 2>>[j] + 2 <= length
    BY <1>1, <1>3
  <2> HIDE DEF p, length
  <2> QED
    BY <2>1, <2>2, <2>3, <2>4 DEF p, length
<1>4. CASE length >= 11
  <2> DEFINE tmp == FlattenSeq(TailDigits(encoded))
             width == Len(Digits[Places(length)])
             pairs == Pairs(Len(tmp), width)
             value(j) == Place(Number(SubSeq(tmp, From(j, width) + 1, From(j, width) + width)), length)
             m == IF pairs \in Nat THEN 2 * pairs ELSE 0
  <2>1. p = [j \in 1..(2 * pairs) |-> value(j)]
    BY <1>4, LongPositions
  <2>2. tmp \in Seq(Nat) /\ Len(tmp) \in Nat /\ \A i \in 1..Len(tmp) : tmp[i] \in Nat
    <3>1. tmp \in Seq(Nat)
      BY <1>4, TailDigitsAreNat, FlatIsSeq
    <3> HIDE DEF tmp
    <3> QED
      BY <3>1, LenProperties, ElementOfSeq
  <2> HIDE DEF tmp
  <2>3. Places(length) \in Nat /\ Places(length) >= 5 /\ Places(length) = Reach(length) - 2
    <3> HIDE DEF length
    <3> QED
      BY <1>1, <1>4, ReachBounds
  <2>4. width \in Nat /\ width >= 1
    <3>1. Digits[Places(length)] \in Seq(Nat) /\ Len(Digits[Places(length)]) >= 1
      BY <2>3, DigitsAreNat
    <3> QED
      BY <3>1, LenProperties
  <2> HIDE DEF width
  <2>5. pairs \in Int
    BY <2>2, <2>4 DEF Pairs, Least
  <2>6. m \in Nat /\ m % 2 = 0 /\ 1..(2 * pairs) = 1..m
    <3> HIDE DEF pairs
    <3> QED
      BY <2>5
  <2>7. ASSUME NEW j \in 1..(2 * pairs)
        PROVE  value(j) \in Nat /\ value(j) + 2 <= Reach(length)
    <3>1. From(j, width) \in Nat /\ From(j, width) + width <= Len(tmp)
      BY <2>2, <2>4, DigitsAreThere
    <3> DEFINE b == From(j, width)
    <3>2. b \in Nat /\ b + width <= Len(tmp)
      BY <3>1
    <3> HIDE DEF b
    <3>3. \A i \in (b + 1)..(b + width) : tmp[i] \in Nat
      BY <2>2, <2>4, <3>2
    <3>4. SubSeq(tmp, b + 1, b + width) \in Seq(Nat)
      BY <2>4, <3>2, <3>3, SubSeqProperties
    <3>5. PICK number \in Nat : number = Number(SubSeq(tmp, b + 1, b + width))
      BY <3>4, NumberIsNat
    <3>6. value(j) = number % Places(length)
      BY <3>5 DEF Place, b
    <3>7. number % Places(length) \in 0..(Places(length) - 1)
      BY <2>3
    <3>8. Reach(length) \in Int
      <4> HIDE DEF length
      <4> QED
        BY <1>1, ReachBounds
    <3> HIDE DEF value, length
    <3> QED
      BY <2>3, <3>6, <3>7, <3>8
  <2> HIDE DEF pairs, value, m, length
  <2>8. p \in [1..m -> Nat] /\ \A j \in 1..m : p[j] = value(j)
    BY <2>1, <2>6, <2>7
  <2> HIDE DEF p
  <2>9. p \in Seq(Nat) /\ Len(p) = m
    BY <2>6, <2>8, FunctionIsSeq
  <2>10. \A j \in 1..m : p[j] + 2 <= Reach(length)
    BY <2>6, <2>7, <2>8
  <2> QED
    BY <2>6, <2>9, <2>10 DEF p, length
<1> QED
  BY <1>1, <1>2, <1>3, <1>4

\* Only the last characters tell the places.
LEMMA SamePositions ==
    ASSUME NEW encoded \in Seq(Nat), NEW other \in Seq(Nat), Len(other) = Len(encoded),
           \A i \in (Reach(Len(encoded)) + 1)..Len(encoded) : other[i] = encoded[i]
    PROVE  swap_positions(other) = swap_positions(encoded)
<1> DEFINE length == Len(encoded)
           t == TailLength(length)
<1>1. length \in Nat
  BY LenProperties
<1>2. CASE length < 4
  BY <1>2 DEF swap_positions
<1>3. CASE length >= 4 /\ length < 11
  <2>1. ~(length < 4) /\ length < 11
    BY <1>1, <1>3
  <2> QED
    BY <2>1 DEF swap_positions
<1>4. CASE length >= 11
  <2>1. t \in Nat /\ Reach(length) = length - t /\ Reach(length) \in 0..length
    <3> HIDE DEF length
    <3> QED
      BY <1>1, <1>4, ReachBounds
  <2>2. ASSUME NEW i \in 1..t
        PROVE  other[length + 1 - i] = encoded[length + 1 - i]
    <3> HIDE DEF t
    <3>1. length + 1 - i \in (Reach(length) + 1)..length
      BY <1>1, <2>1
    <3> QED
      BY <3>1
  <2>3. TailDigits(other) = TailDigits(encoded)
    BY <2>2 DEF TailDigits
  <2> QED
    BY <1>4, <2>3, LongPositions
<1> QED
  BY <1>1, <1>2, <1>3, <1>4

\* The swaps stay within reach.
LEMMA SwapsInReach ==
    ASSUME NEW encoded \in Seq(Nat)
    PROVE  Swaps(swap_positions(encoded)) \in Seq(Exchanges(Reach(Len(encoded))))
<1> DEFINE p == swap_positions(encoded)
           n == Len(p)
           K == Reach(Len(encoded))
           first(s) == 2 * ((s - 1) \div 2) + 1
           k(s) == (s - 1) % 2
<1>1. n \in Nat /\ n % 2 = 0 /\ \A j \in 1..n : p[j] \in Nat /\ p[j] + 2 <= K
  <2>1. p \in Seq(Nat) /\ n % 2 = 0 /\ \A j \in 1..n : p[j] + 2 <= K
    BY PositionsInReach
  <2> HIDE DEF p
  <2> QED
    BY <2>1, LenProperties, ElementOfSeq
<1>2. K \in Nat
  <2>1. Len(encoded) \in Nat
    BY LenProperties
  <2> QED
    BY <2>1, ReachBounds
<1>3. Swaps(p) = [s \in 1..n |-> <<p[first(s)] + k(s), p[first(s) + 1] + k(s)>>]
  BY DEF Swaps
<1> HIDE DEF p, n, K
<1>4. ASSUME NEW s \in 1..n
      PROVE  <<p[first(s)] + k(s), p[first(s) + 1] + k(s)>> \in Exchanges(K)
  <2>1. first(s) \in 1..n /\ first(s) + 1 \in 1..n /\ k(s) \in 0..1
    BY <1>1
  <2> HIDE DEF first, k
  <2>2. p[first(s)] + k(s) \in 0..(K - 1) /\ p[first(s) + 1] + k(s) \in 0..(K - 1)
    <3>1. PICK a \in 1..n, b \in 1..n, c \in 0..1 : a = first(s) /\ b = first(s) + 1 /\ c = k(s)
      BY <2>1
    <3>2. p[a] \in Nat /\ p[a] + 2 <= K /\ p[b] \in Nat /\ p[b] + 2 <= K
      BY <1>1
    <3>3. \A u \in Nat, v \in 0..1 : u + 2 <= K => u + v \in 0..(K - 1)
      BY <1>2
    <3>4. p[a] + c \in 0..(K - 1) /\ p[b] + c \in 0..(K - 1)
      BY <3>2, <3>3, Zenon
    <3> QED
      BY <3>1, <3>4
  <2> QED
    BY <2>2 DEF Exchanges
<1>5. Swaps(p) \in [1..n -> Exchanges(K)]
  BY <1>3, <1>4
<1>6. Swaps(p) \in Seq(Exchanges(K))
  BY <1>1, <1>5, FunctionIsSeq
<1> QED
  BY <1>6 DEF p, K

\* The other end's swaps are undone: the places are still told by the same characters.
LEMMA SwapsComeBack ==
    ASSUME NEW plain \in Seq(Nat)
    PROVE  LET sent == Apply(plain, Swaps(swap_positions(plain)))
           IN  sent \in Seq(Nat) /\ Len(sent) = Len(plain)
               /\ reverse_swaps(sent, swap_positions(sent)) = plain
<1> DEFINE L == Len(plain)
           K == Reach(L)
           swaps == Swaps(swap_positions(plain))
           sent == Apply(plain, swaps)
<1>1. L \in Nat /\ plain \in Chars(L)
  BY LenProperties DEF Chars
<1>2. swaps \in Seq(Exchanges(K))
  BY SwapsInReach
<1> HIDE DEF L, swaps
<1>3. K \in 0..L
  BY <1>1, ReachBounds
<1>4. Exchanges(K) \subseteq Exchanges(L)
  BY <1>1, <1>3 DEF Exchanges
<1> HIDE DEF K
<1>5. swaps \in Seq(Exchanges(L))
  BY <1>2, <1>4, SeqMonotonic
<1>6. sent \in Chars(L) /\ Apply(sent, Reverse(swaps)) = plain
  BY <1>1, <1>5, SwapsUndone
<1>7. \A place \in (K + 1)..L : sent[place] = plain[place]
  BY <1>1, <1>2, <1>3, TailStays
<1> HIDE DEF sent
<1>8. sent \in Seq(Nat) /\ Len(sent) = L
  BY <1>1, <1>6, FunctionIsSeq DEF Chars
<1>9. swap_positions(sent) = swap_positions(plain)
  BY <1>7, <1>8, SamePositions DEF L, K
<1>10. reverse_swaps(sent, swap_positions(sent)) = plain
  BY <1>6, <1>9 DEF reverse_swaps, swaps
<1> QED
  BY <1>8, <1>10 DEF sent, swaps, L

(*---------------------------------- base 64 ----------------------------------*)

\* A character of the URL alphabet tells its six bits.
LEMMA SextetOfUrlChar ==
    ASSUME NEW x \in 0..63
    PROVE  UrlChar(x) \in Nat /\ IsSextet(UrlChar(x)) /\ Sextet(UrlChar(x)) = x
<1>1. CASE x \in 0..25
  <2>1. UrlChar(x) = x + 65 /\ x + 65 \in 65..90
    BY <1>1 DEF UrlChar
  <2> QED
    BY <2>1 DEF IsSextet, Sextet
<1>2. CASE x \in 26..51
  <2>1. UrlChar(x) = x + 71 /\ x + 71 \in 97..122
    BY <1>2 DEF UrlChar
  <2> QED
    BY <2>1 DEF IsSextet, Sextet
<1>3. CASE x \in 52..61
  <2>1. UrlChar(x) = x - 4 /\ x - 4 \in 48..57
    BY <1>3 DEF UrlChar
  <2> QED
    BY <2>1 DEF IsSextet, Sextet
<1>4. CASE x = 62
  <2>1. UrlChar(x) = 45
    BY <1>4 DEF UrlChar
  <2> QED
    BY <1>4, <2>1 DEF IsSextet, Sextet
<1>5. CASE x = 63
  <2>1. UrlChar(x) = 95
    BY <1>5 DEF UrlChar
  <2> QED
    BY <1>5, <2>1 DEF IsSextet, Sextet
<1> QED
  BY <1>1, <1>2, <1>3, <1>4, <1>5

\* When every character belongs to an alphabet, none is passed over.
LEMMA SextetsOfAlphabet ==
    ASSUME NEW chars \in Seq(Nat), \A i \in 1..Len(chars) : IsSextet(chars[i])
    PROVE  Sextets(chars) = [i \in 1..Len(chars) |-> Sextet(chars[i])]
<1> DEFINE n == Len(chars)
           first(i) == [j \in 1..i |-> Sextet(chars[j])]
<1>1. PICK part : /\ part[0] = <<>>
                  /\ \A i \in 1..n : part[i] = IF IsSextet(chars[i])
                                               THEN Append(part[i - 1], Sextet(chars[i]))
                                               ELSE part[i - 1]
                  /\ Sextets(chars) = part[n]
  BY SextetsFold
<1>2. n \in Nat /\ \A i \in 1..n : chars[i] \in Nat
  BY LenProperties, ElementOfSeq
<1>3. ASSUME NEW i \in 1..n
      PROVE  Sextet(chars[i]) \in Nat
  <2>1. Sextet(chars[i]) \in 0..63
    BY <1>2, SextetIsSmall
  <2>2. \A v \in 0..63 : v \in Nat
    OBVIOUS
  <2> QED
    BY <2>1, <2>2, Zenon
<1> DEFINE G == {i \in 0..n : part[i] = first(i)}
<1>4. ASSUME NEW i \in 0..n
      PROVE  first(i) \in Seq(Nat) /\ Len(first(i)) = i /\ \A j \in 1..i : first(i)[j] = Sextet(chars[j])
  <2>1. first(i) \in [1..i -> Nat]
    <3>1. \A j \in 1..i : j \in 1..n
      BY <1>2
    <3> QED
      BY <1>3, <3>1
  <2>2. i \in Nat
    BY <1>2
  <2>3. \A j \in 1..i : first(i)[j] = Sextet(chars[j])
    OBVIOUS
  <2> HIDE DEF first
  <2> QED
    BY <2>1, <2>2, <2>3, FunctionIsSeq
<1>5. 0 \in G
  <2>1. 0 \in 0..n
    BY <1>2
  <2>2. first(0) = <<>>
    BY <1>4, <2>1, EmptySeq
  <2> HIDE DEF first
  <2> QED
    BY <1>1, <2>1, <2>2
<1>6. ASSUME NEW i \in 1..n, i - 1 \in G
      PROVE  i \in G
  <2> HIDE DEF n, first
  <2>1. i \in 0..n /\ i - 1 \in 0..n
    BY <1>2
  <2>2. part[i] = Append(first(i - 1), Sextet(chars[i]))
    <3>1. IsSextet(chars[i])
      BY DEF n
    <3> QED
      BY <1>1, <1>6, <3>1
  <2>3. /\ Append(first(i - 1), Sextet(chars[i])) \in Seq(Nat)
        /\ Len(Append(first(i - 1), Sextet(chars[i]))) = i
        /\ \A j \in 1..i : Append(first(i - 1), Sextet(chars[i]))[j] = Sextet(chars[j])
    <3>1. /\ first(i - 1) \in Seq(Nat) /\ Len(first(i - 1)) = i - 1 /\ Sextet(chars[i]) \in Nat
          /\ \A j \in 1..(i - 1) : first(i - 1)[j] = Sextet(chars[j])
      BY <1>3, <1>4, <2>1
    <3> DEFINE a == Append(first(i - 1), Sextet(chars[i]))
    <3>2. a \in Seq(Nat) /\ Len(a) = (i - 1) + 1 /\ a[i] = Sextet(chars[i])
          /\ \A j \in 1..(i - 1) : a[j] = first(i - 1)[j]
      BY <2>1, <3>1, AppendProperties
    <3> HIDE DEF a
    <3>3. \A j \in 1..i : a[j] = Sextet(chars[j])
      BY <2>1, <3>1, <3>2
    <3> QED
      BY <2>1, <3>2, <3>3 DEF a
  <2>4. part[i] = first(i)
    <3>1. /\ first(i) \in Seq(Nat) /\ Len(first(i)) = i
          /\ \A j \in 1..i : first(i)[j] = Sextet(chars[j])
      BY <1>4, <2>1
    <3> QED
      BY <2>2, <2>3, <3>1, SeqEqual
  <2> QED
    BY <2>1, <2>4
<1>7. n \in G
  <2>1. \A i \in 0..n : i \in G
    <3> HIDE DEF G
    <3> QED
      BY <1>2, <1>5, <1>6, UpTo
  <2> QED
    BY <1>2, <2>1
<1> QED
  BY <1>1, <1>7

\* A byte, or zero after the last one
ByteAt(bytes, i) == IF i > Len(bytes) THEN 0 ELSE bytes[i]

\* A byte, or the zero behind the last one
LEMMA ByteIsSmall ==
    ASSUME NEW bytes \in Seq(0..255), NEW i \in Nat \ {0}
    PROVE  ByteAt(bytes, i) \in 0..255
<1>1. Len(bytes) \in Nat /\ \A j \in 1..Len(bytes) : bytes[j] \in 0..255
  BY LenProperties, ElementOfSeq
<1>2. CASE i > Len(bytes)
  BY <1>2 DEF ByteAt
<1>3. CASE ~(i > Len(bytes))
  <2>1. i \in 1..Len(bytes) /\ ByteAt(bytes, i) = bytes[i]
    BY <1>1, <1>3 DEF ByteAt
  <2> QED
    BY <1>1, <2>1
<1> QED
  BY <1>2, <1>3

\* The four characters for three bytes
LEMMA FourOfThree ==
    ASSUME NEW bytes, NEW q \in Nat
    PROVE  /\ SixBits(bytes, 4 * q) = ByteAt(bytes, 3 * q + 1) \div 4
           /\ SixBits(bytes, 4 * q + 1) =
                (ByteAt(bytes, 3 * q + 1) % 4) * 16 + ByteAt(bytes, 3 * q + 2) \div 16
           /\ SixBits(bytes, 4 * q + 2) =
                (ByteAt(bytes, 3 * q + 2) % 16) * 4 + ByteAt(bytes, 3 * q + 3) \div 64
           /\ SixBits(bytes, 4 * q + 3) = ByteAt(bytes, 3 * q + 3) % 64
<1> DEFINE place(j) == 3 * (j \div 4) + (j % 4)
<1>1. \A j : SixBits(bytes, j) =
         CASE j % 4 = 0 -> ByteAt(bytes, place(j) + 1) \div 4
           [] j % 4 = 1 -> (ByteAt(bytes, place(j)) % 4) * 16 + ByteAt(bytes, place(j) + 1) \div 16
           [] j % 4 = 2 -> (ByteAt(bytes, place(j)) % 16) * 4 + ByteAt(bytes, place(j) + 1) \div 64
           [] j % 4 = 3 -> ByteAt(bytes, place(j)) % 64
  BY Zenon DEF SixBits, ByteAt
<1>2. /\ (4 * q) % 4 = 0 /\ place(4 * q) + 1 = 3 * q + 1
      /\ (4 * q + 1) % 4 = 1 /\ place(4 * q + 1) = 3 * q + 1 /\ place(4 * q + 1) + 1 = 3 * q + 2
      /\ (4 * q + 2) % 4 = 2 /\ place(4 * q + 2) = 3 * q + 2 /\ place(4 * q + 2) + 1 = 3 * q + 3
      /\ (4 * q + 3) % 4 = 3 /\ place(4 * q + 3) = 3 * q + 3
  OBVIOUS
<1> HIDE DEF place
<1> QED
  BY <1>1, <1>2

\* What the four characters keep of the three bytes
Regained(a, b, c) ==
    /\ (a \div 4) * 4 + ((a % 4) * 16 + b \div 16) \div 16 = a
    /\ (((a % 4) * 16 + b \div 16) % 16) * 16 + ((b % 16) * 4 + c \div 64) \div 4 = b
    /\ (((b % 16) * 4 + c \div 64) % 4) * 64 + (c % 64) = c

\* Three bytes can be had from their four characters.
LEMMA ThreeBytes ==
    ASSUME NEW a \in 0..255, NEW b \in 0..255, NEW c \in 0..255
    PROVE  Regained(a, b, c)
<1>1. PICK a1 \in 0..63, a0 \in 0..3 : a1 = a \div 4 /\ a0 = a % 4 /\ a = 4 * a1 + a0
  OBVIOUS
<1>2. PICK b1 \in 0..15, b0 \in 0..15 : b1 = b \div 16 /\ b0 = b % 16 /\ b = 16 * b1 + b0
  OBVIOUS
<1>3. PICK c1 \in 0..3, c0 \in 0..63 : c1 = c \div 64 /\ c0 = c % 64 /\ c = 64 * c1 + c0
  OBVIOUS
<1>4. (a0 * 16 + b1) \div 16 = a0 /\ (a0 * 16 + b1) % 16 = b1
  OBVIOUS
<1>5. (b0 * 4 + c1) \div 4 = b0 /\ (b0 * 4 + c1) % 4 = c1
  OBVIOUS
<1> QED
  BY <1>1, <1>2, <1>3, <1>4, <1>5 DEF Regained

\* Six bits are less than 64.
LEMMA SixBitsAreSmall ==
    ASSUME NEW bytes \in Seq(0..255), NEW j \in Nat
    PROVE  SixBits(bytes, j) \in 0..63
<1> DEFINE q == j \div 4
<1>1. q \in Nat /\ j \in {4 * q, 4 * q + 1, 4 * q + 2, 4 * q + 3}
  OBVIOUS
<1> HIDE DEF q
<1>2. PICK a \in 0..255, b \in 0..255, c \in 0..255 :
         a = ByteAt(bytes, 3 * q + 1) /\ b = ByteAt(bytes, 3 * q + 2) /\ c = ByteAt(bytes, 3 * q + 3)
  <2>1. 3 * q + 1 \in Nat \ {0} /\ 3 * q + 2 \in Nat \ {0} /\ 3 * q + 3 \in Nat \ {0}
    BY <1>1
  <2> QED
    BY <2>1, ByteIsSmall
<1>3. /\ SixBits(bytes, 4 * q) = a \div 4
      /\ SixBits(bytes, 4 * q + 1) = (a % 4) * 16 + b \div 16
      /\ SixBits(bytes, 4 * q + 2) = (b % 16) * 4 + c \div 64
      /\ SixBits(bytes, 4 * q + 3) = c % 64
  BY <1>1, <1>2, FourOfThree
<1>4. /\ a \div 4 \in 0..63 /\ (a % 4) * 16 + b \div 16 \in 0..63
      /\ (b % 16) * 4 + c \div 64 \in 0..63 /\ c % 64 \in 0..63
  OBVIOUS
<1>5. CASE j = 4 * q
  BY <1>3, <1>4, <1>5, Zenon
<1>6. CASE j = 4 * q + 1
  BY <1>3, <1>4, <1>6, Zenon
<1>7. CASE j = 4 * q + 2
  BY <1>3, <1>4, <1>7, Zenon
<1>8. CASE j = 4 * q + 3
  BY <1>3, <1>4, <1>8, Zenon
<1> QED
  BY <1>1, <1>5, <1>6, <1>7, <1>8

\* The bytes come back from their groups of six bits, and no group is left over.
LEMMA BytesComeBack ==
    ASSUME NEW bytes \in Seq(0..255), NEW s, NEW m,
           m = (8 * Len(bytes) + 5) \div 6,
           s = [j \in 1..m |-> SixBits(bytes, j - 1)]
    PROVE  m \in Nat /\ m % 4 # 1 /\ s \in Seq(Nat) /\ Len(s) = m /\ b64decode(s) = bytes
<1> DEFINE n == Len(bytes)
<1>1. n \in Nat /\ \A i \in 1..n : bytes[i] \in 0..255
  BY LenProperties, ElementOfSeq
<1>2. m \in Nat /\ m % 4 # 1 /\ (6 * m) \div 8 = n
  <2> HIDE DEF n
  <2>1. m = (8 * n + 5) \div 6
    BY DEF n
  <2>2. PICK k \in Nat : n = 3 * k \/ n = 3 * k + 1 \/ n = 3 * k + 2
    <3>1. n \div 3 \in Nat
          /\ (n = 3 * (n \div 3) \/ n = 3 * (n \div 3) + 1 \/ n = 3 * (n \div 3) + 2)
      BY <1>1
    <3> QED
      BY <3>1
  <2>3. CASE n = 3 * k
    <3>1. (8 * (3 * k) + 5) \div 6 = 4 * k
      BY <2>2
    <3>2. (4 * k) % 4 # 1 /\ (6 * (4 * k)) \div 8 = 3 * k /\ 4 * k \in Nat
      BY <2>2
    <3>3. m = 4 * k
      BY <2>1, <2>3, <3>1, Zenon
    <3> QED
      BY <2>3, <3>2, <3>3, Zenon
  <2>4. CASE n = 3 * k + 1
    <3>1. (8 * (3 * k + 1) + 5) \div 6 = 4 * k + 2
      BY <2>2
    <3>2. (4 * k + 2) % 4 # 1 /\ (6 * (4 * k + 2)) \div 8 = 3 * k + 1 /\ 4 * k + 2 \in Nat
      BY <2>2
    <3>3. m = 4 * k + 2
      BY <2>1, <2>4, <3>1, Zenon
    <3> QED
      BY <2>4, <3>2, <3>3, Zenon
  <2>5. CASE n = 3 * k + 2
    <3>1. (8 * (3 * k + 2) + 5) \div 6 = 4 * k + 3
      BY <2>2
    <3>2. (4 * k + 3) % 4 # 1 /\ (6 * (4 * k + 3)) \div 8 = 3 * k + 2 /\ 4 * k + 3 \in Nat
      BY <2>2
    <3>3. m = 4 * k + 3
      BY <2>1, <2>5, <3>1, Zenon
    <3> QED
      BY <2>5, <3>2, <3>3, Zenon
  <2> QED
    BY <2>2, <2>3, <2>4, <2>5
<1>3. \A j \in 1..m : SixBits(bytes, j - 1) \in Nat
  <2>1. ASSUME NEW j \in 1..m
        PROVE  SixBits(bytes, j - 1) \in 0..63
    <3>1. j - 1 \in Nat
      BY <1>2
    <3> QED
      BY <3>1, SixBitsAreSmall
  <2>2. \A v \in 0..63 : v \in Nat
    OBVIOUS
  <2> QED
    BY <2>1, <2>2, Zenon
<1>4. s \in Seq(Nat) /\ Len(s) = m
  <2>1. s \in [1..m -> Nat]
    BY <1>3
  <2> QED
    BY <1>2, <2>1, FunctionIsSeq
<1>5. ASSUME NEW j \in 0..(n - 1)
      PROVE  Byte(s, j) = bytes[j + 1]
  <2> HIDE DEF n
  <2> DEFINE q == j \div 3
  <2>1. q \in Nat /\ j \in {3 * q, 3 * q + 1, 3 * q + 2}
    BY <1>1
  <2>2. m = (8 * n + 5) \div 6
    BY DEF n
  <2> HIDE DEF q
  <2>3. PICK a \in 0..255, b \in 0..255, c \in 0..255 :
           a = ByteAt(bytes, 3 * q + 1) /\ b = ByteAt(bytes, 3 * q + 2) /\ c = ByteAt(bytes, 3 * q + 3)
    <3>1. 3 * q + 1 \in Nat \ {0} /\ 3 * q + 2 \in Nat \ {0} /\ 3 * q + 3 \in Nat \ {0}
      BY <2>1
    <3> QED
      BY <3>1, ByteIsSmall
  <2>4. /\ SixBits(bytes, 4 * q) = a \div 4
        /\ SixBits(bytes, 4 * q + 1) = (a % 4) * 16 + b \div 16
        /\ SixBits(bytes, 4 * q + 2) = (b % 16) * 4 + c \div 64
        /\ SixBits(bytes, 4 * q + 3) = c % 64
    BY <2>1, <2>3, FourOfThree
  <2>a. /\ (a \div 4) * 4 + ((a % 4) * 16 + b \div 16) \div 16 = a
        /\ (((a % 4) * 16 + b \div 16) % 16) * 16 + ((b % 16) * 4 + c \div 64) \div 4 = b
        /\ (((b % 16) * 4 + c \div 64) % 4) * 64 + (c % 64) = c
    <3>1. Regained(a, b, c)
      BY <2>3, ThreeBytes
    <3> QED
      BY <3>1, Zenon DEF Regained
  <2>5. \A i \in 1..m : s[i] = SixBits(bytes, i - 1)
    OBVIOUS
  <2>6. j + 1 \in 1..n /\ ByteAt(bytes, j + 1) = bytes[j + 1]
    <3>1. j + 1 \in 1..n /\ ~(j + 1 > n)
      BY <1>1
    <3> QED
      BY <3>1 DEF ByteAt, n
  <2> DEFINE place == 4 * (j \div 3) + (j % 3) + 1
  <2>7. CASE j = 3 * q
    <3>1. j % 3 = 0 /\ place = 4 * q + 1 /\ place \in 1..m /\ place + 1 \in 1..m /\ place - 1 = 4 * q /\ (place + 1) - 1 = 4 * q + 1
      BY <1>1, <2>1, <2>2, <2>7
    <3>2. s[place] = a \div 4 /\ s[place + 1] = (a % 4) * 16 + b \div 16
      BY <2>4, <2>5, <3>1
    <3>3. Byte(s, j) = s[place] * 4 + s[place + 1] \div 16
      BY <3>1 DEF Byte
    <3>4. (a \div 4) * 4 + ((a % 4) * 16 + b \div 16) \div 16 = a
      BY <2>a
    <3> QED
      BY <2>3, <2>6, <2>7, <3>2, <3>3, <3>4
  <2>8. CASE j = 3 * q + 1
    <3>1. j % 3 = 1 /\ place = 4 * q + 2 /\ place \in 1..m /\ place + 1 \in 1..m /\ place - 1 = 4 * q + 1 /\ (place + 1) - 1 = 4 * q + 2
      BY <1>1, <2>1, <2>2, <2>8
    <3>2. s[place] = (a % 4) * 16 + b \div 16 /\ s[place + 1] = (b % 16) * 4 + c \div 64
      BY <2>4, <2>5, <3>1
    <3>3. Byte(s, j) = (s[place] % 16) * 16 + s[place + 1] \div 4
      BY <3>1 DEF Byte
    <3>4. (((a % 4) * 16 + b \div 16) % 16) * 16 + ((b % 16) * 4 + c \div 64) \div 4 = b
      BY <2>a
    <3>5. j + 1 = 3 * q + 2
      BY <2>1, <2>8
    <3> QED
      BY <2>3, <2>6, <3>2, <3>3, <3>4, <3>5
  <2>9. CASE j = 3 * q + 2
    <3>1. j % 3 = 2 /\ place = 4 * q + 3 /\ place \in 1..m /\ place + 1 \in 1..m /\ place - 1 = 4 * q + 2 /\ (place + 1) - 1 = 4 * q + 3
      BY <1>1, <2>1, <2>2, <2>9
    <3>2. s[place] = (b % 16) * 4 + c \div 64 /\ s[place + 1] = c % 64
      BY <2>4, <2>5, <3>1
    <3>3. Byte(s, j) = (s[place] % 4) * 64 + s[place + 1]
      BY <3>1 DEF Byte
    <3>4. (((b % 16) * 4 + c \div 64) % 4) * 64 + (c % 64) = c
      BY <2>a
    <3>5. j + 1 = 3 * q + 3
      BY <2>1, <2>9
    <3> QED
      BY <2>3, <2>6, <3>2, <3>3, <3>4, <3>5
  <2> QED
    BY <2>1, <2>7, <2>8, <2>9
<1>6. b64decode(s) = [j \in 1..n |-> Byte(s, j - 1)]
  BY <1>2, <1>4 DEF b64decode
<1>7. bytes \in [1..n -> 0..255]
  BY LenProperties
<1>8. \A j \in 1..n : Byte(s, j - 1) = bytes[j]
  <2> HIDE DEF n
  <2>1. \A j \in 1..n : j - 1 \in 0..(n - 1) /\ (j - 1) + 1 = j
    BY <1>1
  <2> QED
    BY <1>5, <2>1
<1>9. b64decode(s) = bytes
  <2> HIDE DEF n
  <2> QED
    BY <1>6, <1>7, <1>8
<1> QED
  BY <1>2, <1>4, <1>9

(*----------------------------------- UTF-8 -----------------------------------*)

\* The three numbers of six bits below the first of a code, and what they make together
Low(c) == c % 64
Middle(c) == (c \div 64) % 64
High(c) == (c \div 4096) % 64
Top(c) == c \div 262144

\* A code is its parts, shifted by six bits each.
LEMMA CodeOfParts ==
    ASSUME NEW c \in Nat
    PROVE  /\ Low(c) \in 0..63 /\ Middle(c) \in 0..63 /\ High(c) \in 0..63
           /\ c = 64 * (c \div 64) + Low(c)
           /\ c = 64 * (64 * (c \div 4096) + Middle(c)) + Low(c)
           /\ c = 64 * (64 * (64 * Top(c) + High(c)) + Middle(c)) + Low(c)
<1> DEFINE p == c \div 64
           q == c \div 4096
           r == Top(c)
<1>1. p \in Nat /\ c = 64 * p + Low(c) /\ Low(c) \in 0..63
  BY DEF Low
<1>2. q = p \div 64 /\ r = q \div 64
  BY SMT DEF Top
<1> HIDE DEF p
<1>3. q \in Nat /\ p = 64 * q + Middle(c) /\ Middle(c) \in 0..63
  <2>1. Middle(c) = p % 64
    BY DEF Middle, p
  <2> HIDE DEF q
  <2> QED
    BY <1>1, <1>2, <2>1
<1> HIDE DEF q
<1>4. r \in Nat /\ q = 64 * r + High(c) /\ High(c) \in 0..63
  <2>1. High(c) = q % 64
    BY DEF High, q
  <2>2. \A x \in Nat : x \div 64 \in Nat /\ x = 64 * (x \div 64) + (x % 64) /\ x % 64 \in 0..63
    OBVIOUS
  <2>3. q \in Nat /\ r = q \div 64
    BY <1>2, <1>3
  <2> HIDE DEF r
  <2>4. q \div 64 \in Nat /\ q = 64 * (q \div 64) + (q % 64) /\ q % 64 \in 0..63
    BY <2>3
  <2> QED
    BY <2>1, <2>3, <2>4
<1> HIDE DEF r
<1>5. /\ c = 64 * p + Low(c)
      /\ c = 64 * (64 * q + Middle(c)) + Low(c)
      /\ c = 64 * (64 * (64 * r + High(c)) + Middle(c)) + Low(c)
  BY <1>1, <1>3, <1>4
<1> QED
  BY <1>1, <1>3, <1>4, <1>5, SMT DEF p, q, r

\* The first byte of each length, and the further ones
OneByte(c) == c \in 0..127 /\ utf8(c) = <<c>>
TwoBytes(c) == c \div 64 \in 2..31 /\ utf8(c) = <<192 + c \div 64, 128 + Low(c)>>
ThreeBytesFor(c) ==
    c \div 4096 \in 0..15 /\ utf8(c) = <<224 + c \div 4096, 128 + Middle(c), 128 + Low(c)>>
FourBytes(c) ==
    Top(c) \in 0..4 /\ utf8(c) = <<240 + Top(c), 128 + High(c), 128 + Middle(c), 128 + Low(c)>>

\* Every code point has one of the four forms.
LEMMA EncodedAs ==
    ASSUME NEW c \in CodePoint
    PROVE  OneByte(c) \/ TwoBytes(c) \/ ThreeBytesFor(c) \/ FourBytes(c)
<1>1. c \in Nat /\ c <= 1114111
  BY SMT DEF CodePoint
<1>2. CASE c < 128
  <2>1. c \in 0..127 /\ utf8(c) = <<c>>
    BY <1>1, <1>2, SMT DEF utf8
  <2> QED
    BY <2>1 DEF OneByte
<1>3. CASE c >= 128 /\ c < 2048
  <2>1. ~(c < 128) /\ c < 2048 /\ c \div 64 \in 2..31
    BY <1>1, <1>3, SMT
  <2>2. utf8(c) = <<192 + c \div 64, 128 + Low(c)>>
    BY <2>1, SMT DEF utf8, Low
  <2> QED
    BY <2>1, <2>2 DEF TwoBytes
<1>4. CASE c >= 2048 /\ c < 65536
  <2>1. ~(c < 128) /\ ~(c < 2048) /\ c < 65536 /\ c \div 4096 \in 0..15
    BY <1>1, <1>4, SMT
  <2>2. utf8(c) = <<224 + c \div 4096, 128 + Middle(c), 128 + Low(c)>>
    BY <2>1, SMT DEF utf8, Middle, Low
  <2> QED
    BY <2>1, <2>2 DEF ThreeBytesFor
<1>5. CASE c >= 65536
  <2>1. ~(c < 128) /\ ~(c < 2048) /\ ~(c < 65536) /\ Top(c) \in 0..4
    BY <1>1, <1>5, SMT DEF Top
  <2>2. utf8(c) = <<240 + Top(c), 128 + High(c), 128 + Middle(c), 128 + Low(c)>>
    BY <2>1, SMT DEF utf8, Top, High, Middle, Low
  <2> QED
    BY <2>1, <2>2 DEF FourBytes
<1>6. c < 128 \/ (c >= 128 /\ c < 2048) \/ (c >= 2048 /\ c < 65536) \/ c >= 65536
  BY <1>1, SMT
<1> QED
  BY <1>2, <1>3, <1>4, <1>5, <1>6

\* It is one to four bytes.
LEMMA EncodedIsBytes ==
    ASSUME NEW c \in CodePoint
    PROVE  utf8(c) \in Seq(0..255) /\ Len(utf8(c)) \in 1..4
<1>1. Low(c) \in 0..63 /\ Middle(c) \in 0..63 /\ High(c) \in 0..63
  BY CodeOfParts, SMT DEF CodePoint
<1>2. 128 + Low(c) \in 0..255 /\ 128 + Middle(c) \in 0..255 /\ 128 + High(c) \in 0..255
  BY <1>1, SMT
<1>3. CASE OneByte(c)
  BY <1>3 DEF OneByte
<1>4. CASE TwoBytes(c)
  <2>1. 192 + c \div 64 \in 0..255
    BY <1>4 DEF TwoBytes
  <2> QED
    BY <1>2, <1>4, <2>1 DEF TwoBytes
<1>5. CASE ThreeBytesFor(c)
  <2>1. 224 + c \div 4096 \in 0..255
    BY <1>5 DEF ThreeBytesFor
  <2> QED
    BY <1>2, <1>5, <2>1 DEF ThreeBytesFor
<1>6. CASE FourBytes(c)
  <2>1. 240 + Top(c) \in 0..255
    BY <1>6 DEF FourBytes
  <2> QED
    BY <1>2, <1>6, <2>1 DEF FourBytes
<1> QED
  BY <1>3, <1>4, <1>5, <1>6, EncodedAs

\* b is a first byte of a sequence of n, and holds x itself.
Leads(b, n, x) == Announced(b) = n /\ Lead(b) = x

\* The first byte of each form announces its length and holds the rest of the code.
LEMMA LeadOfByte ==
    /\ \A b \in 0..127 : Announced(b) = 1
    /\ \A x \in 0..31 : Leads(192 + x, 2, x)
    /\ \A x \in 0..15 : Leads(224 + x, 3, x)
    /\ \A x \in 0..7 : Leads(240 + x, 4, x)
<1>1. \A b \in 0..127 : Announced(b) = 1
  BY DEF Announced
<1>2. ASSUME NEW x \in 0..31
      PROVE  Leads(192 + x, 2, x)
  <2>1. Announced(192 + x) = 2
    BY DEF Announced
  <2>2. Lead(192 + x) = (192 + x) % 32
    BY <2>1 DEF Lead
  <2> QED
    BY <2>1, <2>2 DEF Leads
<1>3. ASSUME NEW x \in 0..15
      PROVE  Leads(224 + x, 3, x)
  <2>1. Announced(224 + x) = 3
    BY DEF Announced
  <2>2. Lead(224 + x) = (224 + x) % 16
    BY <2>1 DEF Lead
  <2> QED
    BY <2>1, <2>2 DEF Leads
<1>4. ASSUME NEW x \in 0..7
      PROVE  Leads(240 + x, 4, x)
  <2>1. Announced(240 + x) = 4
    BY DEF Announced
  <2>2. Lead(240 + x) = (240 + x) % 8
    BY <2>1 DEF Lead
  <2> QED
    BY <2>1, <2>2 DEF Leads
<1> QED
  BY <1>1, <1>2, <1>3, <1>4

\* A further byte and the six bits it holds
FurtherOf(b, x) == b \in 128..191 /\ b % 64 = x

\* The others hold six bits each.
LEMMA FurtherByte ==
    ASSUME NEW x \in 0..63
    PROVE  FurtherOf(128 + x, x)
BY DEF FurtherOf

Continues(code, s) ==
    /\ Len(s) = 1 => Continued(code, s) = 64 * code + (s[1] % 64)
    /\ Len(s) = 2 => Continued(code, s) = 64 * (64 * code + (s[1] % 64)) + (s[2] % 64)
    /\ Len(s) = 3 => Continued(code, s) =
         64 * (64 * (64 * code + (s[1] % 64)) + (s[2] % 64)) + (s[3] % 64)

\* Continued for one, two and three further bytes
LEMMA ContinuedSteps ==
    ASSUME NEW code \in Nat, NEW s \in Seq(Nat)
    PROVE  Continues(code, s)
<1>1. PICK part : /\ part[0] = code
                  /\ \A i \in 1..Len(s) : part[i] = 64 * part[i - 1] + (s[i] % 64)
                  /\ Continued(code, s) = part[Len(s)]
  BY ContinuedFold
<1>2. CASE Len(s) = 1
  <2>1. part[1] = 64 * part[1 - 1] + (s[1] % 64)
    BY <1>1, <1>2
  <2> QED
    BY <1>1, <1>2, <2>1 DEF Continues
<1>3. CASE Len(s) = 2
  <2>1. part[1] = 64 * part[1 - 1] + (s[1] % 64) /\ part[2] = 64 * part[2 - 1] + (s[2] % 64)
    BY <1>1, <1>3
  <2> QED
    BY <1>1, <1>3, <2>1 DEF Continues
<1>4. CASE Len(s) = 3
  <2>1. /\ part[1] = 64 * part[1 - 1] + (s[1] % 64) /\ part[2] = 64 * part[2 - 1] + (s[2] % 64)
        /\ part[3] = 64 * part[3 - 1] + (s[3] % 64)
    BY <1>1, <1>4
  <2> QED
    BY <1>1, <1>4, <2>1 DEF Continues
<1> QED
  BY <1>2, <1>3, <1>4 DEF Continues

\* Continued is a number.
LEMMA ContinuedIsNat ==
    ASSUME NEW code \in Nat, NEW bytes \in Seq(Nat)
    PROVE  Continued(code, bytes) \in Nat
<1> DEFINE n == Len(bytes)
<1>1. PICK part : /\ part[0] = code
                  /\ \A i \in 1..n : part[i] = 64 * part[i - 1] + (bytes[i] % 64)
                  /\ Continued(code, bytes) = part[n]
  BY ContinuedFold
<1>2. n \in Nat /\ \A i \in 1..n : bytes[i] \in Nat
  BY LenProperties, ElementOfSeq
<1> DEFINE G == {i \in 0..n : part[i] \in Nat}
<1> HIDE DEF n
<1>3. 0 \in G
  BY <1>1, <1>2
<1>4. ASSUME NEW i \in 1..n, i - 1 \in G
      PROVE  i \in G
  <2>1. part[i - 1] \in Nat /\ bytes[i] \in Nat /\ part[i] = 64 * part[i - 1] + (bytes[i] % 64)
    BY <1>1, <1>2, <1>4
  <2> QED
    BY <2>1
<1>5. \A i \in 0..n : i \in G
  <2> HIDE DEF G
  <2> QED
    BY <1>2, <1>3, <1>4, UpTo
<1> QED
  BY <1>1, <1>2, <1>5

\* s holds the further bytes that the decoder takes with the one at i.
Further(bytes, i, n, s) ==
    /\ s \in Seq(Nat) /\ Len(s) = n - 1
    /\ \A k \in 1..(n - 1) : s[k] = bytes[i + k]
    /\ Code(bytes, i) = Continued(Lead(bytes[i]), s)

\* A first byte that its further bytes follow is taken with them.
LEMMA TakenWhole ==
    ASSUME NEW bytes \in Seq(0..255), NEW i \in Nat \ {0}, NEW n \in 2..4,
           Announced(bytes[i]) = n, i + n - 1 <= Len(bytes),
           \A j \in (i + 1)..(i + n - 1) : bytes[j] \in 128..191
    PROVE  Taken(bytes, i) = n /\ \E s : Further(bytes, i, n, s)
<1>1. Len(bytes) \in Nat /\ \A j \in 1..Len(bytes) : bytes[j] \in 0..255
  BY LenProperties, ElementOfSeq
<1>2. Taken(bytes, i) = n
  BY DEF Taken
<1> DEFINE s == SubSeq(bytes, i + 1, i + n - 1)
<1>3. s \in Seq(Nat) /\ Len(s) = n - 1 /\ \A k \in 1..(n - 1) : s[k] = bytes[i + k]
  <2>1. \A v \in 128..191 : v \in Nat
    OBVIOUS
  <2>2. \A j \in (i + 1)..(i + n - 1) : bytes[j] \in Nat
    BY <2>1, Zenon
  <2>3. i + 1 \in Int /\ i + n - 1 \in Int /\ (i + n - 1) - (i + 1) + 1 = n - 1 /\ i + 1 <= i + n - 1
    OBVIOUS
  <2>4. /\ s \in Seq(Nat) /\ Len(s) = n - 1
        /\ \A k \in 1..((i + n - 1) - (i + 1) + 1) : s[k] = bytes[(i + 1) + k - 1]
    BY <2>2, <2>3, SubSeqProperties
  <2>5. \A k \in 1..(n - 1) : (i + 1) + k - 1 = i + k
    OBVIOUS
  <2> HIDE DEF s
  <2> QED
    BY <2>3, <2>4, <2>5
<1>4. Code(bytes, i) = Continued(Lead(bytes[i]), s)
  <2>1. n # 1
    OBVIOUS
  <2> QED
    BY <1>2, <2>1 DEF Code
<1> HIDE DEF s
<1>5. Further(bytes, i, n, s)
  BY <1>3, <1>4 DEF Further
<1> QED
  BY <1>2, <1>5

\* The bytes of a code are taken together and give the code back.
LEMMA CodeComesBack ==
    ASSUME NEW bytes \in Seq(0..255), NEW c \in CodePoint, NEW i \in Nat \ {0},
           i + Len(utf8(c)) - 1 <= Len(bytes),
           \A k \in 1..Len(utf8(c)) : bytes[i + k - 1] = utf8(c)[k]
    PROVE  Taken(bytes, i) = Len(utf8(c)) /\ Code(bytes, i) = c
<1>1. c \in Nat
  BY SMT DEF CodePoint
<1>2. PICK x \in 0..63, y \in 0..63, z \in 0..63 : x = Low(c) /\ y = Middle(c) /\ z = High(c)
  <2>1. Low(c) \in 0..63 /\ Middle(c) \in 0..63 /\ High(c) \in 0..63
    BY <1>1, CodeOfParts
  <2> QED
    BY <2>1
<1>3. /\ c = 64 * (c \div 64) + x
      /\ c = 64 * (64 * (c \div 4096) + y) + x
      /\ c = 64 * (64 * (64 * Top(c) + z) + y) + x
  BY <1>1, <1>2, CodeOfParts
<1>4. CASE OneByte(c)
  <2>1. Len(utf8(c)) = 1 /\ bytes[i + 1 - 1] = c /\ c \in 0..127
    BY <1>4 DEF OneByte
  <2>2. bytes[i] = c /\ Announced(c) = 1
    <3>1. i + 1 - 1 = i
      OBVIOUS
    <3> QED
      BY <2>1, <3>1, LeadOfByte
  <2>3. Taken(bytes, i) = 1
    BY <2>2 DEF Taken
  <2> QED
    BY <2>1, <2>2, <2>3 DEF Code
<1>5. CASE TwoBytes(c)
  <2> DEFINE lead == c \div 64
  <2>1. lead \in 0..31 /\ utf8(c) = <<192 + lead, 128 + x>>
    BY <1>2, <1>5 DEF TwoBytes
  <2>2. c = 64 * lead + x
    BY <1>3
  <2> HIDE DEF lead
  <2>3. Len(utf8(c)) = 2 /\ bytes[i + 1 - 1] = 192 + lead /\ bytes[i + 2 - 1] = 128 + x
    BY <2>1
  <2>4. i + 1 - 1 = i /\ i + 2 - 1 = i + 1
    OBVIOUS
  <2>5. bytes[i] = 192 + lead /\ bytes[i + 1] = 128 + x
        /\ i + 1 <= Len(bytes)
    BY <2>3, <2>4
  <2>6. Announced(bytes[i]) = 2 /\ Lead(bytes[i]) = lead
    <3>1. Leads(192 + lead, 2, lead)
      BY <2>1, LeadOfByte
    <3> QED
      BY <2>5, <3>1 DEF Leads
  <2>7. lead \in Nat
    BY <2>1
  <2>8. Taken(bytes, i) = 2 /\ Code(bytes, i) = 64 * lead + x
    <3>1. FurtherOf(128 + x, x)
      BY FurtherByte
    <3>2. ASSUME NEW j \in (i + 1)..(i + 2 - 1)
          PROVE  bytes[j] \in 128..191
      <4>1. CASE j = i + 1
        <5>1. 128 + x \in 128..191
          BY <3>1 DEF FurtherOf
        <5> QED
          BY <2>5, <4>1, <5>1, Zenon
      <4> QED
        BY <4>1
    <3>3. 2 \in 2..4 /\ i + 2 - 1 <= Len(bytes)
      <4>1. i + 2 - 1 = i + 1
        OBVIOUS
      <4> QED
        BY <2>5, <4>1
    <3>4. Taken(bytes, i) = 2 /\ \E s : Further(bytes, i, 2, s)
      BY <2>6, <3>2, <3>3, TakenWhole
    <3>5. PICK s : Further(bytes, i, 2, s)
      BY <3>4
    <3>6. /\ s \in Seq(Nat) /\ Len(s) = 1 /\ Code(bytes, i) = Continued(lead, s)
          /\ s[1] = 128 + x
      BY <2>5, <2>6, <3>5 DEF Further
    <3>7. Continues(lead, s)
      BY <2>7, <3>6, ContinuedSteps
    <3> QED
      BY <3>1, <3>4, <3>6, <3>7 DEF Continues, FurtherOf
  <2> QED
    BY <2>2, <2>3, <2>8
<1>6. CASE ThreeBytesFor(c)
  <2> DEFINE lead == c \div 4096
  <2>1. lead \in 0..15 /\ utf8(c) = <<224 + lead, 128 + y, 128 + x>>
    BY <1>2, <1>6 DEF ThreeBytesFor
  <2>2. c = 64 * (64 * lead + y) + x
    BY <1>3
  <2> HIDE DEF lead
  <2>3. Len(utf8(c)) = 3 /\ bytes[i + 1 - 1] = 224 + lead /\ bytes[i + 2 - 1] = 128 + y /\ bytes[i + 3 - 1] = 128 + x
    BY <2>1
  <2>4. i + 1 - 1 = i /\ i + 2 - 1 = i + 1 /\ i + 3 - 1 = i + 2
    OBVIOUS
  <2>5. bytes[i] = 224 + lead /\ bytes[i + 1] = 128 + y /\ bytes[i + 2] = 128 + x
        /\ i + 2 <= Len(bytes)
    BY <2>3, <2>4
  <2>6. Announced(bytes[i]) = 3 /\ Lead(bytes[i]) = lead
    <3>1. Leads(224 + lead, 3, lead)
      BY <2>1, LeadOfByte
    <3> QED
      BY <2>5, <3>1 DEF Leads
  <2>7. lead \in Nat
    BY <2>1
  <2>8. Taken(bytes, i) = 3 /\ Code(bytes, i) = 64 * (64 * lead + y) + x
    <3>1. FurtherOf(128 + x, x) /\ FurtherOf(128 + y, y)
      BY FurtherByte
    <3>2. ASSUME NEW j \in (i + 1)..(i + 3 - 1)
          PROVE  bytes[j] \in 128..191
      <4>1. CASE j = i + 1
        <5>1. 128 + y \in 128..191
          BY <3>1 DEF FurtherOf
        <5> QED
          BY <2>5, <4>1, <5>1, Zenon
      <4>2. CASE j = i + 2
        <5>1. 128 + x \in 128..191
          BY <3>1 DEF FurtherOf
        <5> QED
          BY <2>5, <4>2, <5>1, Zenon
      <4> QED
        BY <4>1, <4>2
    <3>3. 3 \in 2..4 /\ i + 3 - 1 <= Len(bytes)
      <4>1. i + 3 - 1 = i + 2
        OBVIOUS
      <4> QED
        BY <2>5, <4>1
    <3>4. Taken(bytes, i) = 3 /\ \E s : Further(bytes, i, 3, s)
      BY <2>6, <3>2, <3>3, TakenWhole
    <3>5. PICK s : Further(bytes, i, 3, s)
      BY <3>4
    <3>6. /\ s \in Seq(Nat) /\ Len(s) = 2 /\ Code(bytes, i) = Continued(lead, s)
          /\ s[1] = 128 + y /\ s[2] = 128 + x
      BY <2>5, <2>6, <3>5 DEF Further
    <3>7. Continues(lead, s)
      BY <2>7, <3>6, ContinuedSteps
    <3> QED
      BY <3>1, <3>4, <3>6, <3>7 DEF Continues, FurtherOf
  <2> QED
    BY <2>2, <2>3, <2>8
<1>7. CASE FourBytes(c)
  <2> DEFINE lead == Top(c)
  <2>1. lead \in 0..7 /\ utf8(c) = <<240 + lead, 128 + z, 128 + y, 128 + x>>
    BY <1>2, <1>7 DEF FourBytes
  <2>2. c = 64 * (64 * (64 * lead + z) + y) + x
    BY <1>3
  <2> HIDE DEF lead
  <2>3. Len(utf8(c)) = 4 /\ bytes[i + 1 - 1] = 240 + lead /\ bytes[i + 2 - 1] = 128 + z /\ bytes[i + 3 - 1] = 128 + y /\ bytes[i + 4 - 1] = 128 + x
    BY <2>1
  <2>4. i + 1 - 1 = i /\ i + 2 - 1 = i + 1 /\ i + 3 - 1 = i + 2 /\ i + 4 - 1 = i + 3
    OBVIOUS
  <2>5. bytes[i] = 240 + lead /\ bytes[i + 1] = 128 + z /\ bytes[i + 2] = 128 + y /\ bytes[i + 3] = 128 + x
        /\ i + 3 <= Len(bytes)
    BY <2>3, <2>4
  <2>6. Announced(bytes[i]) = 4 /\ Lead(bytes[i]) = lead
    <3>1. Leads(240 + lead, 4, lead)
      BY <2>1, LeadOfByte
    <3> QED
      BY <2>5, <3>1 DEF Leads
  <2>7. lead \in Nat
    BY <2>1
  <2>8. Taken(bytes, i) = 4 /\ Code(bytes, i) = 64 * (64 * (64 * lead + z) + y) + x
    <3>1. FurtherOf(128 + x, x) /\ FurtherOf(128 + y, y) /\ FurtherOf(128 + z, z)
      BY FurtherByte
    <3>2. ASSUME NEW j \in (i + 1)..(i + 4 - 1)
          PROVE  bytes[j] \in 128..191
      <4>1. CASE j = i + 1
        <5>1. 128 + z \in 128..191
          BY <3>1 DEF FurtherOf
        <5> QED
          BY <2>5, <4>1, <5>1, Zenon
      <4>2. CASE j = i + 2
        <5>1. 128 + y \in 128..191
          BY <3>1 DEF FurtherOf
        <5> QED
          BY <2>5, <4>2, <5>1, Zenon
      <4>3. CASE j = i + 3
        <5>1. 128 + x \in 128..191
          BY <3>1 DEF FurtherOf
        <5> QED
          BY <2>5, <4>3, <5>1, Zenon
      <4> QED
        BY <4>1, <4>2, <4>3
    <3>3. 4 \in 2..4 /\ i + 4 - 1 <= Len(bytes)
      <4>1. i + 4 - 1 = i + 3
        OBVIOUS
      <4> QED
        BY <2>5, <4>1
    <3>4. Taken(bytes, i) = 4 /\ \E s : Further(bytes, i, 4, s)
      BY <2>6, <3>2, <3>3, TakenWhole
    <3>5. PICK s : Further(bytes, i, 4, s)
      BY <3>4
    <3>6. /\ s \in Seq(Nat) /\ Len(s) = 3 /\ Code(bytes, i) = Continued(lead, s)
          /\ s[1] = 128 + z /\ s[2] = 128 + y /\ s[3] = 128 + x
      BY <2>5, <2>6, <3>5 DEF Further
    <3>7. Continues(lead, s)
      BY <2>7, <3>6, ContinuedSteps
    <3> QED
      BY <3>1, <3>4, <3>6, <3>7 DEF Continues, FurtherOf
  <2> QED
    BY <2>2, <2>3, <2>8
<1> QED
  BY <1>4, <1>5, <1>6, <1>7, EncodedAs

\* Wherever the decoder looks, it takes one to four bytes and finds a number.
LEMMA CodeIsNat ==
    ASSUME NEW bytes \in Seq(0..255), NEW i \in 1..Len(bytes)
    PROVE  Code(bytes, i) \in Nat /\ Taken(bytes, i) \in 1..4
<1>1. Len(bytes) \in Nat /\ \A j \in 1..Len(bytes) : bytes[j] \in 0..255
  BY LenProperties, ElementOfSeq
<1>2. bytes[i] \in 0..255
  BY <1>1
<1>3. Announced(bytes[i]) \in 1..4
  BY <1>2 DEF Announced
<1>4. Taken(bytes, i) \in 1..4
  BY <1>3 DEF Taken
<1>5. CASE Taken(bytes, i) = 1
  <2>1. Code(bytes, i) = bytes[i]
    BY <1>5 DEF Code
  <2>2. bytes[i] \in Nat
    <3>1. \A v \in 0..255 : v \in Nat
      OBVIOUS
    <3> QED
      BY <1>2, <3>1, Zenon
  <2> QED
    BY <1>4, <2>1, <2>2, Zenon
<1>6. CASE Taken(bytes, i) # 1
  <2> DEFINE n == Announced(bytes[i])
  <2>1. Taken(bytes, i) = n /\ i + n - 1 <= Len(bytes)
    BY <1>6 DEF Taken
  <2> DEFINE s == SubSeq(bytes, i + 1, i + n - 1)
  <2>2. s \in Seq(Nat)
    <3>1. \A j \in (i + 1)..(i + n - 1) : bytes[j] \in Nat
      <4>1. \A j \in (i + 1)..(i + n - 1) : j \in 1..Len(bytes)
        BY <1>1, <1>3, <2>1
      <4>2. \A v \in 0..255 : v \in Nat
        OBVIOUS
      <4> QED
        BY <1>1, <4>1, <4>2, Zenon
    <3>2. i + 1 \in Int /\ i + n - 1 \in Int
      BY <1>1, <1>3
    <3> HIDE DEF n
    <3> QED
      BY <3>1, <3>2, SubSeqProperties
  <2>3. Lead(bytes[i]) \in Nat
    <3>1. PICK b \in 0..255 : b = bytes[i]
      BY <1>2
    <3>2. PICK m \in {32, 16, 8, 256} : Lead(b) = b % m
      BY DEF Lead
    <3> QED
      BY <3>1, <3>2
  <2>4. Code(bytes, i) = Continued(Lead(bytes[i]), s)
    BY <1>6, <2>1 DEF Code
  <2> HIDE DEF s, n
  <2> QED
    BY <1>4, <2>2, <2>3, <2>4, ContinuedIsNat
<1> QED
  BY <1>5, <1>6

\* The decoder's walk: what it finds from each byte on
Walks(g, bytes) ==
    \A i \in 1..(Len(bytes) + 4) :
      g[i] = IF i > Len(bytes) THEN <<>> ELSE <<Code(bytes, i)>> \o g[i + Taken(bytes, i)]

\* repair_utf8 is such a walk, though it is defined for every place at once.
LEMMA RepairWalks ==
    ASSUME NEW bytes \in Seq(0..255)
    PROVE  \E g : Walks(g, bytes) /\ repair_utf8(bytes) = g[1]
<1> DEFINE N == Len(bytes)
           P(g) == g = [i \in 1..(N + 4) |->
                          IF i > N THEN <<>> ELSE <<Code(bytes, i)>> \o g[i + Taken(bytes, i)]]
           start == [k \in Nat |-> <<>>]
           \* Counted from the end, so that the walk goes back
           place(k) == N + 4 - k
           Z == {k \in Nat : place(k) \notin 1..N}
           back == [k \in Nat |-> IF k \in Z THEN 0 ELSE k - Taken(bytes, place(k))]
           step == [p \in Nat \X Seq(Nat) |-> IF p[1] \in Z THEN <<>> ELSE <<Code(bytes, place(p[1]))>> \o p[2]]
<1>1. N \in Nat
  BY LenProperties
<1>2. \A i \in 1..N : Code(bytes, i) \in Nat /\ Taken(bytes, i) \in 1..4
  BY CodeIsNat
<1> HIDE DEF N
<1>3. start \in [Nat -> Seq(Nat)] /\ Z \in SUBSET Nat
  BY EmptySeq
<1>4. step \in [Nat \X Seq(Nat) -> Seq(Nat)]
  <2>1. ASSUME NEW p \in Nat \X Seq(Nat)
        PROVE  (IF p[1] \in Z THEN <<>> ELSE <<Code(bytes, place(p[1]))>> \o p[2]) \in Seq(Nat)
    <3>1. p[1] \in Nat /\ p[2] \in Seq(Nat)
      OBVIOUS
    <3>2. CASE p[1] \in Z
      BY <3>2, EmptySeq
    <3>3. CASE p[1] \notin Z
      <4>1. Code(bytes, place(p[1])) \in Nat
        BY <1>2, <3>1, <3>3
      <4>2. <<Code(bytes, place(p[1]))>> \in Seq(Nat)
        BY <4>1
      <4>3. <<Code(bytes, place(p[1]))>> \o p[2] \in Seq(Nat)
        BY <3>1, <4>2, ConcatProperties
      <4> QED
        BY <3>3, <4>3
    <3> QED
      BY <3>2, <3>3
  <2> HIDE DEF Z, place
  <2> QED
    BY <2>1
<1>5. Backwards(back, Z)
  <2>1. ASSUME NEW k \in Nat
        PROVE  back[k] \in Nat /\ (k \notin Z => back[k] < k)
    <3>1. CASE k \in Z
      BY <3>1
    <3>2. CASE k \notin Z
      <4>1. place(k) \in 1..N /\ Taken(bytes, place(k)) \in 1..4
        BY <1>2, <3>2
      <4>2. k >= 4
        BY <1>1, <4>1
      <4> QED
        BY <3>2, <4>1, <4>2
    <3> QED
      BY <3>1, <3>2
  <2>2. back \in [Nat -> Nat]
    <3> HIDE DEF Z, place
    <3>1. \A k \in Nat : back[k] = IF k \in Z THEN 0 ELSE k - Taken(bytes, place(k))
      OBVIOUS
    <3> QED
      BY <2>1
  <2> HIDE DEF back
  <2> QED
    BY <2>1, <2>2 DEF Backwards
<1>6. PICK f : Recurs(f, Seq(Nat), Z, start, step, back)
  <2> HIDE DEF start, step, back, Z
  <2> QED
    BY <1>3, <1>4, <1>5, Recursion
<1> DEFINE h == [i \in 1..(N + 4) |-> f[N + 4 - i]]
<1>7. ASSUME NEW i \in 1..(N + 4)
      PROVE  h[i] = IF i > N THEN <<>> ELSE <<Code(bytes, i)>> \o h[i + Taken(bytes, i)]
  <2> DEFINE k == N + 4 - i
  <2>1. k \in Nat /\ place(k) = i /\ (k \in Z <=> i > N)
    BY <1>1
  <2> HIDE DEF k
  <2>2. f[k] = IF k \in Z THEN start[k] ELSE step[<<k, f[back[k]]>>]
    BY <1>6, <2>1 DEF Recurs
  <2>3. h[i] = f[k]
    BY DEF k
  <2>4. CASE i > N
    <3>1. k \in Z /\ start[k] = <<>>
      BY <2>1, <2>4
    <3> HIDE DEF h, Z, start
    <3> QED
      BY <2>2, <2>3, <2>4, <3>1
  <2>5. CASE ~(i > N)
    <3>1. i \in 1..N /\ Taken(bytes, i) \in 1..4
      BY <1>1, <1>2, <2>5
    <3>2. k \notin Z /\ back[k] = k - Taken(bytes, i)
      <4>1. k \notin Z
        BY <2>1, <2>5
      <4>2. back[k] = k - Taken(bytes, place(k))
        <5> HIDE DEF Z
        <5> QED
          BY <2>1, <4>1
      <4> HIDE DEF Z, place, back
      <4> QED
        BY <2>1, <4>1, <4>2
    <3>3. i + Taken(bytes, i) \in 1..(N + 4) /\ N + 4 - (i + Taken(bytes, i)) = k - Taken(bytes, i)
      BY <1>1, <3>1 DEF k
    <3>4. h[i + Taken(bytes, i)] = f[back[k]]
      <4> HIDE DEF Z, back, place
      <4> QED
        BY <3>2, <3>3
    <3>5. f[back[k]] \in Seq(Nat)
      <4>1. k - Taken(bytes, i) \in Nat
        BY <1>1, <3>1, <3>3 DEF k
      <4> HIDE DEF Z, back, place
      <4> QED
        BY <1>6, <3>2, <4>1 DEF Recurs
    <3>6. step[<<k, f[back[k]]>>] = <<Code(bytes, i)>> \o f[back[k]]
      <4> HIDE DEF Z, back, place
      <4> QED
        BY <2>1, <3>2, <3>5
    <3> HIDE DEF h, Z, back, place, step
    <3> QED
      BY <2>2, <2>3, <2>5, <3>2, <3>4, <3>6
  <2> QED
    BY <2>4, <2>5
<1>8. P(h)
  <2>1. h = [i \in 1..(N + 4) |-> h[i]]
    OBVIOUS
  <2> HIDE DEF h
  <2> QED
    BY <1>7, <2>1
<1>9. PICK g : g = CHOOSE x : P(x)
  OBVIOUS
<1>10. P(g)
  <2> HIDE DEF P
  <2> QED
    BY <1>8, <1>9
<1>11. Walks(g, bytes)
  BY <1>10, Zenon DEF Walks, N
<1>12. repair_utf8(bytes) = g[1]
  BY <1>9 DEF repair_utf8, N
<1> QED
  BY <1>11, <1>12

\* Where the bytes of each code stand among those of the whole text
Placed(part, seqs, n) ==
    \A i \in 1..n :
      /\ Len(part[i]) = Len(part[i - 1]) + Len(seqs[i])
      /\ Len(part[i]) <= Len(part[n])
      /\ \A k \in 1..Len(seqs[i]) : part[n][Len(part[i - 1]) + k] = seqs[i][k]

\* The parts stand in the flattened sequence one behind the other.
LEMMA FlatPlaces ==
    ASSUME NEW S, NEW seqs \in Seq(Seq(S)), NEW part \in [0..Len(seqs) -> Seq(S)], Joined(part, seqs)
    PROVE  Placed(part, seqs, Len(seqs))
<1> DEFINE n == Len(seqs)
<1>1. n \in Nat /\ \A i \in 1..n : seqs[i] \in Seq(S)
  BY LenProperties, ElementOfSeq
<1> HIDE DEF n
<1>2. \A i \in 0..n : part[i] \in Seq(S) /\ Len(part[i]) \in Nat
  BY LenProperties DEF n
<1>3. ASSUME NEW i \in 1..n
      PROVE  /\ i - 1 \in 0..n /\ i \in 0..n
             /\ part[i] = part[i - 1] \o seqs[i]
             /\ Len(seqs[i]) \in Nat
             /\ Len(part[i]) = Len(part[i - 1]) + Len(seqs[i])
             /\ \A k \in 1..Len(part[i - 1]) : part[i][k] = part[i - 1][k]
             /\ \A k \in 1..Len(seqs[i]) : part[i][Len(part[i - 1]) + k] = seqs[i][k]
  <2>1. i - 1 \in 0..n /\ i \in 0..n
    BY <1>1
  <2>2. part[i] = part[i - 1] \o seqs[i]
    BY DEF Joined, n
  <2>3. part[i - 1] \in Seq(S) /\ seqs[i] \in Seq(S)
    BY <1>1, <1>2, <2>1
  <2> DEFINE a == Len(part[i - 1])
             b == Len(seqs[i])
  <2>4. a \in Nat /\ b \in Nat
    BY <2>3, LenProperties
  <2>5. /\ Len(part[i]) = a + b
        /\ \A k \in 1..(a + b) : part[i][k] = IF k <= a THEN part[i - 1][k] ELSE seqs[i][k - a]
    <3>1. /\ part[i - 1] \o seqs[i] \in Seq(S)
          /\ Len(part[i - 1] \o seqs[i]) = a + b
          /\ \A k \in 1..(a + b) : (part[i - 1] \o seqs[i])[k] =
                                     IF k <= a THEN part[i - 1][k] ELSE seqs[i][k - a]
      BY <2>3, ConcatProperties, Zenon
    <3> QED
      BY <2>2, <3>1, Zenon
  <2> HIDE DEF a, b
  <2>6. ASSUME NEW k \in 1..a
        PROVE  part[i][k] = part[i - 1][k]
    <3>1. k \in 1..(a + b) /\ k <= a
      BY <2>4
    <3> QED
      BY <2>5, <3>1, Zenon
  <2>7. ASSUME NEW k \in 1..b
        PROVE  part[i][a + k] = seqs[i][k]
    <3>1. a + k \in 1..(a + b) /\ ~(a + k <= a) /\ (a + k) - a = k
      BY <2>4
    <3> QED
      BY <2>5, <3>1
  <2> QED
    BY <2>1, <2>2, <2>4, <2>5, <2>6, <2>7 DEF a, b
<1>4. ASSUME NEW i \in 1..n
      PROVE  \A m \in 0..n : m >= i => /\ Len(part[i]) <= Len(part[m])
                                       /\ \A k \in 1..Len(part[i]) : part[m][k] = part[i][k]
  <2> DEFINE Ok(m) == /\ Len(part[i]) <= Len(part[m])
                      /\ \A k \in 1..Len(part[i]) : part[m][k] = part[i][k]
             G == {m \in 0..n : m >= i => Ok(m)}
  <2>1. 0 \in G
    BY <1>1
  <2>2. ASSUME NEW m \in 1..n, m - 1 \in G
        PROVE  m \in G
    <3>1. m \in 0..n /\ m - 1 \in 0..n
      BY <1>1
    <3>2. CASE m < i
      BY <1>1, <3>1, <3>2
    <3>3. CASE m = i
      <4>1. Len(part[i]) <= Len(part[i])
        BY <1>2, <3>1, <3>3
      <4> QED
        BY <3>1, <3>3, <4>1
    <3>4. CASE m > i
      <4>1. m - 1 >= i
        BY <1>1, <3>4
      <4>2. Ok(m - 1)
        BY <2>2, <4>1
      <4>3. /\ Len(part[m]) = Len(part[m - 1]) + Len(seqs[m]) /\ Len(seqs[m]) \in Nat
            /\ \A k \in 1..Len(part[m - 1]) : part[m][k] = part[m - 1][k]
        BY <1>3
      <4>4. Len(part[m - 1]) \in Nat /\ Len(part[i]) \in Nat
        <5>1. i \in 0..n
          BY <1>1
        <5> QED
          BY <1>2, <3>1, <5>1
      <4>5. Len(part[i]) <= Len(part[m])
        <5> DEFINE x == Len(part[i])
                   y == Len(part[m - 1])
                   z == Len(seqs[m])
        <5>1. x \in Nat /\ y \in Nat /\ z \in Nat /\ x <= y
          BY <4>2, <4>3, <4>4
        <5>2. Len(part[m]) = y + z
          BY <4>3
        <5> HIDE DEF x, y, z
        <5>3. x <= y + z
          BY <5>1
        <5> QED
          BY <5>2, <5>3 DEF x
      <4>6. ASSUME NEW k \in 1..Len(part[i])
            PROVE  part[m][k] = part[i][k]
        <5>1. k \in 1..Len(part[m - 1])
          BY <4>2, <4>4
        <5> QED
          BY <4>2, <4>3, <5>1
      <4> QED
        BY <3>1, <4>5, <4>6
    <3> QED
      BY <1>1, <3>2, <3>3, <3>4
  <2>3. \A m \in 0..n : m \in G
    <3> HIDE DEF G
    <3> QED
      BY <1>1, <2>1, <2>2, UpTo
  <2> QED
    BY <2>3
<1>5. ASSUME NEW i \in 1..n
      PROVE  /\ Len(part[i]) = Len(part[i - 1]) + Len(seqs[i])
             /\ Len(part[i]) <= Len(part[n])
             /\ \A k \in 1..Len(seqs[i]) : part[n][Len(part[i - 1]) + k] = seqs[i][k]
  <2>1. Len(part[i]) <= Len(part[n]) /\ \A k \in 1..Len(part[i]) : part[n][k] = part[i][k]
    <3>1. n \in 0..n /\ n >= i
      BY <1>1
    <3> QED
      BY <1>4, <3>1
  <2>2. /\ Len(part[i - 1]) \in Nat /\ Len(seqs[i]) \in Nat
        /\ Len(part[i]) = Len(part[i - 1]) + Len(seqs[i])
        /\ \A k \in 1..Len(seqs[i]) : part[i][Len(part[i - 1]) + k] = seqs[i][k]
    BY <1>2, <1>3
  <2>3. ASSUME NEW k \in 1..Len(seqs[i])
        PROVE  part[n][Len(part[i - 1]) + k] = seqs[i][k]
    <3>1. Len(part[i - 1]) + k \in 1..Len(part[i])
      <4> DEFINE x == Len(part[i - 1])
                 y == Len(seqs[i])
      <4>1. x \in Nat /\ y \in Nat /\ Len(part[i]) = x + y /\ k \in 1..y
        BY <2>2
      <4> HIDE DEF x, y
      <4>2. x + k \in 1..(x + y)
        BY <4>1
      <4> QED
        BY <4>1, <4>2 DEF x
    <3> QED
      BY <2>1, <2>2, <3>1
  <2> QED
    BY <2>1, <2>2, <2>3
<1> QED
  BY <1>5 DEF n, Placed

\* The bytes of a text
Bytes(text) == FlattenSeq([i \in DOMAIN text |-> utf8(text[i])])

\* The decoder finds the codes of a text in its bytes.
LEMMA TextComesBack ==
    ASSUME NEW text \in Seq(CodePoint)
    PROVE  Bytes(text) \in Seq(0..255) /\ repair_utf8(Bytes(text)) = text
<1> DEFINE n == Len(text)
           B == 0..255
           seqs == [i \in 1..n |-> utf8(text[i])]
<1>1. n \in Nat /\ DOMAIN text = 1..n /\ \A i \in 1..n : text[i] \in CodePoint
  BY LenProperties, ElementOfSeq
<1> HIDE DEF n
<1>2. \A i \in 1..n : seqs[i] = utf8(text[i]) /\ seqs[i] \in Seq(B) /\ Len(seqs[i]) \in 1..4
  <2>1. ASSUME NEW i \in 1..n
        PROVE  utf8(text[i]) \in Seq(B) /\ Len(utf8(text[i])) \in 1..4
    BY <1>1, EncodedIsBytes
  <2> HIDE DEF B
  <2> QED
    BY <2>1
<1>3. seqs \in Seq(Seq(B)) /\ Len(seqs) = n
  <2>1. seqs \in [1..n -> Seq(B)]
    <3>1. seqs = [i \in 1..n |-> seqs[i]]
      OBVIOUS
    <3> HIDE DEF seqs, B
    <3> QED
      BY <1>2, <3>1
  <2> HIDE DEF seqs
  <2> QED
    BY <1>1, <2>1, FunctionIsSeq
<1>4. Bytes(text) = FlattenSeq(seqs)
  BY <1>1 DEF Bytes
<1> HIDE DEF seqs
<1>5. PICK part \in [0..n -> Seq(B)] : Joined(part, seqs) /\ FlattenSeq(seqs) = part[n]
  BY <1>3, Flattened
<1> DEFINE bytes == part[n]
           N == Len(bytes)
           len(i) == Len(part[i])
<1>6. bytes \in Seq(B) /\ N \in Nat /\ \A i \in 0..n : len(i) \in Nat
  <2>1. \A i \in 0..n : part[i] \in Seq(B)
    BY <1>5
  <2>2. n \in 0..n
    BY <1>1
  <2> HIDE DEF B
  <2> QED
    BY <2>1, <2>2, LenProperties
<1>7. \A i \in 1..n : /\ len(i) = len(i - 1) + Len(seqs[i])
                      /\ len(i) <= N
                      /\ \A k \in 1..Len(seqs[i]) : bytes[len(i - 1) + k] = seqs[i][k]
  <2> HIDE DEF B
  <2> QED
    <3>1. Placed(part, seqs, n)
      <4>1. part \in [0..Len(seqs) -> Seq(B)]
        BY <1>3, <1>5
      <4> QED
        BY <1>3, <1>5, <4>1, FlatPlaces
    <3> QED
      BY <3>1, Zenon DEF Placed
<1>8. PICK g : Walks(g, bytes) /\ repair_utf8(bytes) = g[1]
  BY <1>6, RepairWalks
<1> HIDE DEF bytes, N, B
<1>9. /\ \A i \in 1..N : g[i] = <<Code(bytes, i)>> \o g[i + Taken(bytes, i)]
      /\ g[N + 1] = <<>>
  <2>1. \A i \in 1..(N + 4) :
          g[i] = IF i > N THEN <<>> ELSE <<Code(bytes, i)>> \o g[i + Taken(bytes, i)]
    BY <1>8 DEF Walks, N
  <2>2. N + 1 \in 1..(N + 4) /\ N + 1 > N /\ \A i \in 1..N : i \in 1..(N + 4) /\ ~(i > N)
    BY <1>6
  <2> QED
    BY <2>1, <2>2
<1> DEFINE G == {m \in 0..n : g[len(n - m) + 1] = SubSeq(text, n - m + 1, n)}
<1>10. 0 \in G
  <2>1. len(n - 0) = N /\ n - 0 + 1 = n + 1
    <3>1. n - 0 = n
      BY <1>1
    <3> QED
      BY <1>1, <3>1 DEF N, bytes
  <2>2. SubSeq(text, n + 1, n) = <<>>
    BY <1>1, SubSeqEmpty
  <2> HIDE DEF len
  <2> QED
    <3>1. g[len(n - 0) + 1] = SubSeq(text, n - 0 + 1, n)
      BY <1>9, <2>1, <2>2, Zenon
    <3> QED
      BY <1>1, <3>1
<1>11. ASSUME NEW m \in 1..n, m - 1 \in G
       PROVE  m \in G
  <2> HIDE DEF len
  <2> DEFINE i == n - m + 1
  <2>1. i \in 1..n /\ i - 1 = n - m /\ n - (m - 1) = i /\ i - 1 \in 0..n /\ m \in 0..n /\ i \in 0..n
    BY <1>1
  <2>2. g[len(i) + 1] = SubSeq(text, i + 1, n)
    BY <1>11, <2>1
  <2> HIDE DEF i
  <2> DEFINE c == text[i]
             a == len(i - 1)
             u == Len(utf8(c))
  <2>3. c \in CodePoint /\ seqs[i] = utf8(c) /\ u \in 1..4
    BY <1>1, <1>2, <2>1
  <2>4. a \in Nat /\ len(i) = a + u /\ len(i) <= N /\ \A k \in 1..u : bytes[a + k] = utf8(c)[k]
    BY <1>6, <1>7, <2>1, <2>3
  <2> HIDE DEF c, a, u
  <2>5. a + 1 \in Nat \ {0} /\ a + 1 \in 1..N /\ (a + 1) + u - 1 <= N
    BY <1>6, <2>3, <2>4
  <2>6. \A k \in 1..u : bytes[(a + 1) + k - 1] = utf8(c)[k]
    <3>1. \A k \in 1..u : (a + 1) + k - 1 = a + k
      BY <2>3, <2>4
    <3> QED
      BY <2>4, <3>1
  <2>7. Taken(bytes, a + 1) = u /\ Code(bytes, a + 1) = c
    BY <1>6, <2>3, <2>5, <2>6, CodeComesBack DEF u, N, B
  <2>8. g[a + 1] = <<c>> \o g[(a + 1) + u]
    BY <1>9, <2>5, <2>7
  <2>9. (a + 1) + u = len(i) + 1
    BY <2>3, <2>4
  <2>10. SubSeq(text, i, n) = <<c>> \o SubSeq(text, i + 1, n)
    <3>1. i \in 1..Len(text) /\ n \in i..Len(text)
      BY <1>1, <2>1 DEF n
    <3> QED
      BY <3>1, SubSeqRecursiveFirst DEF c
  <2>11. g[a + 1] = SubSeq(text, i, n)
    BY <2>2, <2>8, <2>9, <2>10
  <2> QED
    BY <2>1, <2>11 DEF a, i
<1>12. g[len(n - n) + 1] = SubSeq(text, n - n + 1, n)
  <2>1. \A m \in 0..n : m \in G
    <3> HIDE DEF G
    <3> QED
      BY <1>1, <1>10, <1>11, UpTo
  <2>2. n \in 0..n
    BY <1>1
  <2> QED
    BY <2>1, <2>2
<1>13. len(0) = 0
  BY <1>5, EmptySeq DEF Joined
<1>14. g[1] = SubSeq(text, 1, n)
  <2>1. n - n = 0 /\ 0 + 1 = 1
    BY <1>1
  <2> HIDE DEF len
  <2> QED
    BY <1>12, <1>13, <2>1
<1>15. SubSeq(text, 1, n) = text
  BY SubSeqFull DEF n
<1> QED
  BY <1>4, <1>5, <1>6, <1>8, <1>14, <1>15 DEF bytes, B

\* What the characters of the other end are, and the numbers they stand for
LEMMA SextetsComeBack ==
    ASSUME NEW bytes \in Seq(0..255)
    PROVE  /\ b64encode(bytes) \in Seq(Nat)
           /\ Len(Sextets(b64encode(bytes))) \in Nat
           /\ Len(Sextets(b64encode(bytes))) % 4 # 1
           /\ b64decode(Sextets(b64encode(bytes))) = bytes
<1> DEFINE m == (8 * Len(bytes) + 5) \div 6
           s == [j \in 1..m |-> SixBits(bytes, j - 1)]
           plain == b64encode(bytes)
<1>1. m \in Nat /\ m % 4 # 1 /\ s \in Seq(Nat) /\ Len(s) = m /\ b64decode(s) = bytes
  BY BytesComeBack
<1>2. plain = [j \in 1..m |-> UrlChar(SixBits(bytes, j - 1))]
  BY DEF b64encode
<1>a. \A j \in 1..m : s[j] = SixBits(bytes, j - 1)
  OBVIOUS
<1>b. s = [j \in 1..m |-> s[j]]
  OBVIOUS
<1> HIDE DEF m, s, plain
<1>3. ASSUME NEW j \in 1..m
      PROVE  /\ plain[j] \in Nat /\ IsSextet(plain[j]) /\ Sextet(plain[j]) = s[j]
  <2>1. j - 1 \in Nat
    BY <1>1
  <2>2. PICK x \in 0..63 : x = SixBits(bytes, j - 1)
    BY <2>1, SixBitsAreSmall
  <2>3. plain[j] = UrlChar(x) /\ s[j] = x
    BY <1>2, <1>a, <2>2
  <2> QED
    BY <2>3, SextetOfUrlChar
<1>4. plain \in [1..m -> Nat]
  BY <1>2, <1>3
<1>5. plain \in Seq(Nat) /\ Len(plain) = m
  BY <1>1, <1>4, FunctionIsSeq
<1>6. Sextets(plain) = [j \in 1..m |-> Sextet(plain[j])]
  BY <1>3, <1>5, SextetsOfAlphabet
<1>7. Sextets(plain) = s
  BY <1>3, <1>6, <1>b
<1> QED
  BY <1>1, <1>5, <1>7 DEF plain

\* A text comes back from its payload.
LEMMA PayloadComesBack ==
    ASSUME NEW text \in Seq(CodePoint)
    PROVE  /\ encode_payload(text) \in Seq(Nat)
           /\ decode_encoded_payload(encode_payload(text)) = text
<1>1. CASE text = <<>>
  <2>1. encode_payload(text) = <<>>
    BY <1>1 DEF encode_payload
  <2>2. decode_encoded_payload(<<>>) = <<>>
    BY DEF decode_encoded_payload
  <2> QED
    BY <1>1, <2>1, <2>2, EmptySeq
<1>2. CASE text # <<>>
  <2> DEFINE plain == b64encode(Bytes(text))
             sent == Apply(plain, Swaps(swap_positions(plain)))
             payload == <<101>> \o sent
             sextets == Sextets(plain)
  <2>1. Bytes(text) \in Seq(0..255) /\ repair_utf8(Bytes(text)) = text
    BY TextComesBack
  <2>2. /\ plain \in Seq(Nat) /\ Len(sextets) % 4 # 1
        /\ b64decode(sextets) = Bytes(text)
    BY <2>1, SextetsComeBack
  <2> HIDE DEF plain, sextets
  <2>3. sent \in Seq(Nat) /\ reverse_swaps(sent, swap_positions(sent)) = plain
    BY <2>2, SwapsComeBack
  <2>4. encode_payload(text) = payload
    BY <1>2 DEF encode_payload, Bytes, plain
  <2> HIDE DEF sent
  <2>5. payload \in Seq(Nat) /\ payload # <<>> /\ Tail(payload) = sent
    <3>1. <<101>> \in Seq(Nat) /\ Len(<<101>>) = 1
      OBVIOUS
    <3>2. /\ payload \in Seq(Nat) /\ Len(payload) = 1 + Len(sent)
          /\ \A i \in 1..(1 + Len(sent)) : payload[i] = IF i <= 1 THEN <<101>>[i] ELSE sent[i - 1]
      BY <2>3, <3>1, ConcatProperties
    <3>3. Len(sent) \in Nat
      BY <2>3, LenProperties
    <3>4. payload # <<>>
      BY <3>2, <3>3, EmptySeq
    <3> HIDE DEF payload
    <3>5. /\ Tail(payload) \in Seq(Nat) /\ Len(Tail(payload)) = Len(sent)
          /\ \A i \in 1..Len(sent) : Tail(payload)[i] = payload[i + 1]
      <4>1. /\ Tail(payload) \in Seq(Nat) /\ Len(Tail(payload)) = Len(payload) - 1
            /\ \A i \in 1..Len(Tail(payload)) : Tail(payload)[i] = payload[i + 1]
        BY <3>2, <3>4, HeadTailProperties
      <4>2. Len(payload) - 1 = Len(sent)
        BY <3>2, <3>3
      <4> QED
        BY <4>1, <4>2
    <3>6. \A i \in 1..Len(sent) : Tail(payload)[i] = sent[i]
      <4>1. \A i \in 1..Len(sent) : i + 1 \in 1..(1 + Len(sent)) /\ ~(i + 1 <= 1) /\ (i + 1) - 1 = i
        BY <3>3
      <4> QED
        BY <3>2, <3>5, <4>1
    <3> QED
      BY <2>3, <3>2, <3>4, <3>5, <3>6, SeqEqual
  <2> HIDE DEF payload
  <2>6. Sextets(reverse_swaps(Tail(payload), swap_positions(Tail(payload)))) = sextets
    BY <2>3, <2>5 DEF sextets
  <2>7. repair_utf8(b64decode(sextets)) = text
    BY <2>1, <2>2
  <2>8. \A i \in DOMAIN text : text[i] \in CodePoint
    BY LenProperties, ElementOfSeq
  <2>9. decode_encoded_payload(payload) = text
    BY <2>2, <2>5, <2>6, <2>7, <2>8, Zenon DEF decode_encoded_payload
  <2> QED
    BY <2>4, <2>5, <2>9
<1> QED
  BY <1>1, <1>2

(*----------------------------- the shards joined -----------------------------*)

\* Two pieces that follow each other make one.
LEMMA PiecesJoin ==
    ASSUME NEW s \in Seq(Nat), NEW a \in Nat, NEW b \in Nat, a <= b, b <= Len(s)
    PROVE  /\ SubSeq(s, 1, a) \in Seq(Nat) /\ SubSeq(s, a + 1, b) \in Seq(Nat)
           /\ SubSeq(s, 1, a) \o SubSeq(s, a + 1, b) = SubSeq(s, 1, b)
<1>1. Len(s) \in Nat /\ \A i \in 1..Len(s) : s[i] \in Nat
  BY LenProperties, ElementOfSeq
<1> DEFINE p == SubSeq(s, 1, a)
           q == SubSeq(s, a + 1, b)
           w == SubSeq(s, 1, b)
<1>2. p \in Seq(Nat) /\ Len(p) = a /\ \A i \in 1..a : p[i] = s[i]
  <2>1. \A i \in 1..a : s[i] \in Nat
    BY <1>1
  <2>2. /\ p \in Seq(Nat) /\ Len(p) = IF 1 <= a THEN a - 1 + 1 ELSE 0
        /\ \A i \in 1..(a - 1 + 1) : p[i] = s[1 + i - 1]
    BY <2>1, SubSeqProperties
  <2>3. a - 1 + 1 = a /\ (\A i \in 1..a : 1 + i - 1 = i) /\ (IF 1 <= a THEN a - 1 + 1 ELSE 0) = a
    OBVIOUS
  <2> HIDE DEF p
  <2> QED
    BY <2>2, <2>3
<1>3. q \in Seq(Nat) /\ Len(q) = b - a /\ \A i \in 1..(b - a) : q[i] = s[a + i]
  <2>1. \A i \in (a + 1)..b : s[i] \in Nat
    BY <1>1
  <2>2. /\ q \in Seq(Nat) /\ Len(q) = IF a + 1 <= b THEN b - (a + 1) + 1 ELSE 0
        /\ \A i \in 1..(b - (a + 1) + 1) : q[i] = s[(a + 1) + i - 1]
    <3>1. PICK first \in Int : first = a + 1
      OBVIOUS
    <3>2. \A i \in first..b : s[i] \in Nat
      BY <2>1, <3>1
    <3>3. /\ SubSeq(s, first, b) \in Seq(Nat)
          /\ Len(SubSeq(s, first, b)) = IF first <= b THEN b - first + 1 ELSE 0
          /\ \A i \in 1..(b - first + 1) : SubSeq(s, first, b)[i] = s[first + i - 1]
      BY <3>2, SubSeqProperties
    <3> QED
      BY <3>1, <3>3
  <2>3. /\ b - (a + 1) + 1 = b - a /\ (\A i \in 1..(b - a) : (a + 1) + i - 1 = a + i)
        /\ (IF a + 1 <= b THEN b - (a + 1) + 1 ELSE 0) = b - a
    OBVIOUS
  <2> HIDE DEF q
  <2> QED
    BY <2>2, <2>3
<1>4. w \in Seq(Nat) /\ Len(w) = b /\ \A i \in 1..b : w[i] = s[i]
  <2>1. \A i \in 1..b : s[i] \in Nat
    BY <1>1
  <2>2. /\ w \in Seq(Nat) /\ Len(w) = IF 1 <= b THEN b - 1 + 1 ELSE 0
        /\ \A i \in 1..(b - 1 + 1) : w[i] = s[1 + i - 1]
    BY <2>1, SubSeqProperties
  <2>3. b - 1 + 1 = b /\ (\A i \in 1..b : 1 + i - 1 = i) /\ (IF 1 <= b THEN b - 1 + 1 ELSE 0) = b
    OBVIOUS
  <2> HIDE DEF w
  <2> QED
    BY <2>2, <2>3
<1> HIDE DEF p, q, w
<1>5. /\ p \o q \in Seq(Nat) /\ Len(p \o q) = a + (b - a)
      /\ \A i \in 1..(a + (b - a)) : (p \o q)[i] = IF i <= a THEN p[i] ELSE q[i - a]
  <2>1. /\ p \o q \in Seq(Nat) /\ Len(p \o q) = Len(p) + Len(q)
        /\ \A i \in 1..(Len(p) + Len(q)) :
             (p \o q)[i] = IF i <= Len(p) THEN p[i] ELSE q[i - Len(p)]
    BY <1>2, <1>3, ConcatProperties, Zenon
  <2> QED
    BY <1>2, <1>3, <2>1, Zenon
<1>6. ASSUME NEW i \in 1..b
      PROVE  (p \o q)[i] = w[i]
  <2>1. i \in 1..(a + (b - a))
    OBVIOUS
  <2>2. CASE i <= a
    <3>1. i \in 1..a
      BY <2>2
    <3> QED
      BY <1>2, <1>4, <1>5, <2>1, <2>2, <3>1
  <2>3. CASE ~(i <= a)
    <3>1. i - a \in 1..(b - a) /\ a + (i - a) = i
      BY <2>3
    <3> QED
      BY <1>3, <1>4, <1>5, <2>1, <2>3, <3>1
  <2> QED
    BY <2>2, <2>3
<1>7. a + (b - a) = b
  OBVIOUS
<1>8. p \o q = w
  BY <1>4, <1>5, <1>6, <1>7, SeqEqual
<1> QED
  BY <1>2, <1>3, <1>8 DEF p, q, w

\* Two or three shards joined
LEMMA TwoFlat ==
    ASSUME NEW a \in Seq(Nat), NEW b \in Seq(Nat)
    PROVE  FlattenSeq(<<a, b>>) = a \o b
<1> DEFINE S == Seq(Nat)
           seqs == <<a, b>>
<1>1. a \in S /\ b \in S
  OBVIOUS
<1>2. seqs \in Seq(S) /\ Len(seqs) = 2 /\ seqs[1] = a /\ seqs[2] = b
  <2> HIDE DEF S
  <2> QED
    BY <1>1
<1>3. /\ 1 \in 1..2 /\ 2 \in 1..2 /\ 1 - 1 = 0 /\ 2 - 1 = 1
  OBVIOUS
<1> HIDE DEF seqs
<1>4. PICK part \in [0..Len(seqs) -> Seq(Nat)] :
         Joined(part, seqs) /\ FlattenSeq(seqs) = part[Len(seqs)]
  BY <1>2, Flattened, Zenon DEF S
<1>5. part[0] = <<>> /\ \A n \in 1..2 : part[n] = part[n - 1] \o seqs[n]
  BY <1>2, <1>4, Zenon DEF Joined
<1>6. part[1] = <<>> \o a /\ part[2] = part[1] \o b
  BY <1>2, <1>3, <1>5, Zenon
<1>7. part[1] = a
  BY <1>6, ConcatEmptySeq, Zenon
<1> QED
  BY <1>2, <1>4, <1>6, <1>7, Zenon DEF seqs

LEMMA ThreeFlat ==
    ASSUME NEW a \in Seq(Nat), NEW b \in Seq(Nat), NEW c \in Seq(Nat)
    PROVE  FlattenSeq(<<a, b, c>>) = (a \o b) \o c
<1> DEFINE S == Seq(Nat)
           seqs == <<a, b, c>>
<1>1. a \in S /\ b \in S /\ c \in S
  OBVIOUS
<1>2. seqs \in Seq(S) /\ Len(seqs) = 3 /\ seqs[1] = a /\ seqs[2] = b /\ seqs[3] = c
  <2> HIDE DEF S
  <2> QED
    BY <1>1
<1>3. /\ 1 \in 1..3 /\ 2 \in 1..3 /\ 3 \in 1..3 /\ 1 - 1 = 0 /\ 2 - 1 = 1 /\ 3 - 1 = 2
  OBVIOUS
<1> HIDE DEF seqs
<1>4. PICK part \in [0..Len(seqs) -> Seq(Nat)] :
         Joined(part, seqs) /\ FlattenSeq(seqs) = part[Len(seqs)]
  BY <1>2, Flattened, Zenon DEF S
<1>5. part[0] = <<>> /\ \A n \in 1..3 : part[n] = part[n - 1] \o seqs[n]
  BY <1>2, <1>4, Zenon DEF Joined
<1>6. part[1] = <<>> \o a /\ part[2] = part[1] \o b /\ part[3] = part[2] \o c
  BY <1>2, <1>3, <1>5, Zenon
<1>7. part[1] = a
  BY <1>6, ConcatEmptySeq, Zenon
<1> QED
  BY <1>2, <1>4, <1>6, <1>7, Zenon DEF seqs

\* A text comes out of the codec as it went in, whether it was cut in three or in two.
Travels(text) ==
    LET payload == encode_payload(text)
    IN  /\ decode_content_shards(<<Part(payload, 1, 3), Part(payload, 2, 3),
                                   Part(payload, 3, 3)>>) = text
        /\ decode_content_shards(<<Part(payload, 1, 2), Part(payload, 2, 2)>>) = text

\* decode_encoded_payload (lines 447-455) undoes what the service does to a text, for every
\* sequence of code points: the swaps, base64 and UTF-8, and the cut into shards.
THEOREM TextTravels == \A text \in Seq(CodePoint) : Travels(text)
<1> SUFFICES ASSUME NEW text \in Seq(CodePoint)
             PROVE  Travels(text)
  OBVIOUS
<1> DEFINE payload == encode_payload(text)
           L == Len(payload)
<1>1. payload \in Seq(Nat) /\ decode_encoded_payload(payload) = text
  BY PayloadComesBack
<1> HIDE DEF payload
<1>2. L \in Nat /\ SubSeq(payload, 1, L) = payload
  BY <1>1, LenProperties, SubSeqFull
<1>3. decode_content_shards(<<Part(payload, 1, 3), Part(payload, 2, 3), Part(payload, 3, 3)>>) = text
  <2> DEFINE a == L \div 3
             b == (2 * L) \div 3
             p == SubSeq(payload, 1, a)
             q == SubSeq(payload, a + 1, b)
             r == SubSeq(payload, b + 1, L)
  <2>1. a \in Nat /\ b \in Nat /\ a <= b /\ b <= L
    <3> HIDE DEF L
    <3> QED
      BY <1>2
  <2>2. Part(payload, 1, 3) = p /\ Part(payload, 2, 3) = q /\ Part(payload, 3, 3) = r
    <3>1. /\ ((1 - 1) * L) \div 3 + 1 = 1 /\ (1 * L) \div 3 = a
          /\ ((2 - 1) * L) \div 3 + 1 = a + 1 /\ (2 * L) \div 3 = b
          /\ ((3 - 1) * L) \div 3 + 1 = b + 1 /\ (3 * L) \div 3 = L
      <4> HIDE DEF L
      <4> QED
        BY <1>2
    <3> HIDE DEF a, b
    <3> QED
      BY <3>1 DEF Part
  <2> HIDE DEF a, b
  <2>3. p \in Seq(Nat) /\ q \in Seq(Nat) /\ p \o q = SubSeq(payload, 1, b)
    BY <1>1, <2>1, PiecesJoin
  <2>4. r \in Seq(Nat) /\ SubSeq(payload, 1, b) \o r = SubSeq(payload, 1, L)
    <3>1. L <= L
      BY <1>2
    <3> QED
      BY <1>1, <1>2, <2>1, <3>1, PiecesJoin
  <2> HIDE DEF p, q, r
  <2>5. FlattenSeq(<<p, q, r>>) = payload
    <3>1. FlattenSeq(<<p, q, r>>) = (p \o q) \o r
      BY <2>3, <2>4, ThreeFlat
    <3> QED
      BY <1>2, <2>3, <2>4, <3>1, Zenon
  <2>6. PICK shards : shards = <<p, q, r>>
    OBVIOUS
  <2>7. \A i \in DOMAIN shards : shards[i] # NoText
    <3>1. DOMAIN shards = 1..3 /\ shards[1] = p /\ shards[2] = q /\ shards[3] = r
      BY <2>6
    <3> QED
      BY <2>3, <2>4, <3>1, NoTextAssumption
  <2>8. decode_content_shards(shards) = text
    BY <1>1, <2>5, <2>6, <2>7, Zenon DEF decode_content_shards
  <2> QED
    BY <2>2, <2>6, <2>8
<1>4. decode_content_shards(<<Part(payload, 1, 2), Part(payload, 2, 2)>>) = text
  <2> DEFINE a == L \div 2
             p == SubSeq(payload, 1, a)
             q == SubSeq(payload, a + 1, L)
  <2>1. a \in Nat /\ a <= L
    <3> HIDE DEF L
    <3> QED
      BY <1>2
  <2>2. Part(payload, 1, 2) = p /\ Part(payload, 2, 2) = q
    <3>1. /\ ((1 - 1) * L) \div 2 + 1 = 1 /\ (1 * L) \div 2 = a
          /\ ((2 - 1) * L) \div 2 + 1 = a + 1 /\ (2 * L) \div 2 = L
      <4> HIDE DEF L
      <4> QED
        BY <1>2
    <3> HIDE DEF a
    <3> QED
      BY <3>1 DEF Part
  <2> HIDE DEF a
  <2>3. p \in Seq(Nat) /\ q \in Seq(Nat) /\ p \o q = SubSeq(payload, 1, L)
    <3>1. L <= L
      BY <1>2
    <3> QED
      BY <1>1, <1>2, <2>1, <3>1, PiecesJoin
  <2> HIDE DEF p, q
  <2>4. FlattenSeq(<<p, q>>) = payload
    BY <1>2, <2>3, TwoFlat
  <2>5. PICK shards : shards = <<p, q>>
    OBVIOUS
  <2>6. \A i \in DOMAIN shards : shards[i] # NoText
    <3>1. DOMAIN shards = 1..2 /\ shards[1] = p /\ shards[2] = q
      BY <2>5
    <3> QED
      BY <2>3, <3>1, NoTextAssumption
  <2>7. decode_content_shards(shards) = text
    BY <1>1, <2>4, <2>5, <2>6, Zenon DEF decode_content_shards
  <2> QED
    BY <2>2, <2>5, <2>7
<1> QED
  BY <1>3, <1>4 DEF Travels, payload

TextsTravel == \A i \in 1..Len(Readable) : Travels(Readable[i].text)

\* Every text the script may fetch is one of them.
LEMMA ReadableTravels == TextsTravel
<1>1. DOMAIN Readable = 1..Len(Readable)
  BY DEF Readable
<1> QED
  BY <1>1, TextsAssumption, TextTravels, Zenon DEF TextsTravel

(*----------------------------- the invariant -----------------------------*)

Arguments ==
    [mode : Modes, renew : BOOLEAN, cookieFile : BOOLEAN, skip : 0..1, limit : 0..1,
     given : Given, current : PagePlaces, progress : PagePlaces]

Before == {"renew", "page", "report", "catalog"}
Fetching == {"chapter", "e_0", "e_1", "e_2", "e_3", "t_0", "t_1", "tar", "next"}
Writing == {"write", "entries", "persist"}

\* The run does what its command line says, and is over when it has an outcome.
OnCourse ==
    /\ args \in Arguments /\ format \in {"epub", "txt"}
    /\ stage \in Before \union Fetching \union Writing \union {"done"}
    /\ outcome = "open" <=> stage # "done"
    /\ stage \in {"catalog"} \union Fetching \union Writing => args.mode = "epub"
    /\ stage = "report" => args.mode # "epub"

Jar == jar \in Nat /\ saved \in Nat

Said == reported # Nowhere => reported = Reported

\* As many chapters as the loop has been through
Listing ==
    /\ fetched \in Seq(Range(fetched)) /\ at = Len(fetched) + 1
    /\ stage \in Before => fetched = <<>>
    /\ stage \in Fetching => at <= Len(Selected)
    /\ stage \in Writing => Len(fetched) = Len(Selected)

\* Each of them is what was selected there.
Kept(c, chosen) ==
    /\ c.uid = chosen.uid
    /\ chosen.uid \notin cut => c.content = chosen.text
    /\ format = "epub" => c.images = chosen.images

AllKept == \A j \in 1..Len(fetched) : Kept(fetched[j], Selected[j])

\* What checked_body made of a shard is the shard, or the decoding will fail, or the
\* chapter is one that an answer cut.
Faithful(b, part) == b \in {part, NoText} \/ Current.uid \in cut

Shaped == chapter \in [content : {chapter.content}, style : {chapter.style},
                       images : {chapter.images}]

Shards ==
    /\ stage \in {"e_0", "t_0"} => got = <<>>
    /\ stage = "e_1" => got = <<got[1]>> /\ Faithful(got[1], Body("e_0"))
    /\ stage = "e_3" => /\ got = <<got[1], got[2]>>
                        /\ Faithful(got[1], Body("e_0")) /\ Faithful(got[2], Body("e_1"))
    /\ stage = "t_1" => got = <<got[1]>> /\ Faithful(got[1], Body("t_0"))
    /\ format = "epub" => stage \notin {"t_0", "t_1"} /\ content_format # "txt"

\* The chapter in hand, once its text is decoded
InHand ==
    /\ stage \in {"e_2", "tar", "next"} =>
         Shaped /\ (Current.uid \notin cut => chapter.content = Current.text)
    /\ stage \in {"e_2", "tar"} => chapter.images = {}
    /\ stage = "next" /\ format = "epub" => chapter.images = Current.images

\* The file is opened last, and is whole when it is closed.
File ==
    /\ OutputWaits
    /\ stage \in Before \union Fetching \union {"write"} => output.kind = "previous"
    /\ stage = "persist" => WholeBook
    /\ BookIsWhole

Course == OnCourse /\ Jar /\ CookiesAreKept /\ Said
Book == Listing /\ AllKept /\ Shards /\ InHand /\ File

(*--------------------------- lists and selections ---------------------------*)

LEMMA AppendTo ==
    ASSUME NEW S, NEW s \in Seq(S), NEW e \in S
    PROVE  /\ Append(s, e) \in Seq(S)
           /\ Len(Append(s, e)) = Len(s) + 1
           /\ \A i \in 1..Len(s) : Append(s, e)[i] = s[i]
           /\ Append(s, e)[Len(s) + 1] = e
BY AppendProperties

LEMMA OwnRange ==
    ASSUME NEW S, NEW s \in Seq(S)
    PROVE  s \in Seq(Range(s))
<1>1. Len(s) \in Nat /\ DOMAIN s = 1..Len(s)
  BY LenProperties
<1>2. \A i \in 1..Len(s) : s[i] \in Range(s)
  BY <1>1 DEF Range
<1>3. SubSeq(s, 1, Len(s)) \in Seq(Range(s))
  BY <1>1, <1>2, SubSeqProperties
<1> QED
  BY <1>3, SubSeqFull

\* A list grows by one, and keeps what it has.
LEMMA Grown ==
    ASSUME NEW s, s \in Seq(Range(s)), NEW e
    PROVE  /\ Append(s, e) \in Seq(Range(Append(s, e)))
           /\ Len(s) \in Nat
           /\ Len(Append(s, e)) = Len(s) + 1
           /\ \A i \in 1..Len(s) : Append(s, e)[i] = s[i]
           /\ Append(s, e)[Len(s) + 1] = e
<1> DEFINE S == Range(s) \union {e}
<1>1. s \in Seq(S) /\ e \in S
  BY SeqMonotonic
<1> HIDE DEF S
<1>2. /\ Append(s, e) \in Seq(S)
      /\ Len(Append(s, e)) = Len(s) + 1
      /\ \A i \in 1..Len(s) : Append(s, e)[i] = s[i]
      /\ Append(s, e)[Len(s) + 1] = e
  BY <1>1, AppendTo
<1>3. Append(s, e) \in Seq(Range(Append(s, e)))
  BY <1>2, OwnRange
<1>4. Len(s) \in Nat
  BY <1>1, LenProperties
<1> QED
  BY <1>2, <1>3, <1>4

LEMMA Second ==
    ASSUME NEW a, NEW b
    PROVE  Append(<<a>>, b) = <<a, b>>
<1> DEFINE S == {a, b}
<1>1. PICK s : s = <<a>>
  OBVIOUS
<1>2. PICK t : t = <<a, b>>
  OBVIOUS
<1>3. s \in Seq(S) /\ Len(s) = 1 /\ s[1] = a
  BY <1>1
<1>4. t \in Seq(S) /\ Len(t) = 2 /\ t[1] = a /\ t[2] = b
  BY <1>2
<1>5. b \in S
  OBVIOUS
<1> HIDE DEF S
<1>6. /\ Append(s, b) \in Seq(S)
      /\ Len(Append(s, b)) = Len(s) + 1
      /\ \A i \in 1..Len(s) : Append(s, b)[i] = s[i]
      /\ Append(s, b)[Len(s) + 1] = b
  BY <1>3, <1>5, AppendTo
<1>7. PICK r : r = Append(s, b)
  OBVIOUS
<1>8. r \in Seq(S) /\ Len(r) = 2 /\ r[2] = b /\ \A i \in 1..1 : r[i] = s[i]
  BY <1>3, <1>6, <1>7
<1>9. \A i \in 1..2 : r[i] = t[i]
  BY <1>3, <1>4, <1>8
<1>10. r = t
  BY <1>4, <1>8, <1>9, SeqEqual
<1> QED
  BY <1>1, <1>2, <1>7, <1>10, Zenon

LEMMA Third ==
    ASSUME NEW a, NEW b, NEW c
    PROVE  Append(<<a, b>>, c) = <<a, b, c>>
<1> DEFINE S == {a, b, c}
<1>1. PICK s : s = <<a, b>>
  OBVIOUS
<1>2. PICK t : t = <<a, b, c>>
  OBVIOUS
<1>3. s \in Seq(S) /\ Len(s) = 2 /\ s[1] = a /\ s[2] = b
  BY <1>1
<1>4. t \in Seq(S) /\ Len(t) = 3 /\ t[1] = a /\ t[2] = b /\ t[3] = c
  BY <1>2
<1>5. c \in S
  OBVIOUS
<1> HIDE DEF S
<1>6. /\ Append(s, c) \in Seq(S)
      /\ Len(Append(s, c)) = Len(s) + 1
      /\ \A i \in 1..Len(s) : Append(s, c)[i] = s[i]
      /\ Append(s, c)[Len(s) + 1] = c
  BY <1>3, <1>5, AppendTo
<1>7. PICK r : r = Append(s, c)
  OBVIOUS
<1>8. r \in Seq(S) /\ Len(r) = 3 /\ r[3] = c /\ \A i \in 1..2 : r[i] = s[i]
  BY <1>3, <1>6, <1>7
<1>9. \A i \in 1..3 : r[i] = t[i]
  BY <1>3, <1>4, <1>8
<1>10. r = t
  BY <1>4, <1>8, <1>9, SeqEqual
<1> QED
  BY <1>1, <1>2, <1>7, <1>10, Zenon

\* A piece of a list
LEMMA Piece ==
    ASSUME NEW s, NEW m \in Int, NEW n \in Int, m <= n + 1
    PROVE  /\ Len(SubSeq(s, m, n)) = n - m + 1
           /\ DOMAIN SubSeq(s, m, n) = 1..Len(SubSeq(s, m, n))
           /\ \A i \in 1..(n - m + 1) : SubSeq(s, m, n)[i] = s[m + i - 1]
<1> DEFINE S == {s[i] : i \in m..n}
<1>1. /\ SubSeq(s, m, n) \in Seq(S)
      /\ Len(SubSeq(s, m, n)) = (IF m <= n THEN n - m + 1 ELSE 0)
      /\ \A i \in 1..(n - m + 1) : SubSeq(s, m, n)[i] = s[m + i - 1]
  BY SubSeqProperties
<1>2. DOMAIN SubSeq(s, m, n) = 1..Len(SubSeq(s, m, n))
  BY <1>1, LenProperties
<1> QED
  BY <1>1, <1>2

\* The chapters selected are some of the readable ones.
LEMMA Selection ==
    ASSUME args \in Arguments
    PROVE  /\ Len(Selected) \in Nat /\ DOMAIN Selected = 1..Len(Selected)
           /\ \A i \in 1..Len(Selected) : \E k \in 1..Len(Readable) : Selected[i] = Readable[k]
<1>1. args.skip \in 0..1 /\ args.limit \in 0..1
  BY DEF Arguments
<1>2. Len(Readable) \in Nat
  BY DEF Readable
<1>3. PICK r : r = SubSeq(Readable, args.skip + 1, Len(Readable))
  OBVIOUS
<1>4. /\ Len(r) \in Nat /\ DOMAIN r = 1..Len(r)
      /\ \A i \in 1..Len(r) : \E k \in 1..Len(Readable) : r[i] = Readable[k]
  <2>1. CASE args.skip <= Len(Readable)
    <3>1. /\ Len(r) = Len(Readable) - args.skip /\ DOMAIN r = 1..Len(r)
          /\ \A i \in 1..(Len(Readable) - args.skip) : r[i] = Readable[args.skip + 1 + i - 1]
      BY <1>1, <1>2, <1>3, <2>1, Piece
    <3>2. ASSUME NEW i \in 1..Len(r)
          PROVE  \E k \in 1..Len(Readable) : r[i] = Readable[k]
      <4>1. args.skip + 1 + i - 1 \in 1..Len(Readable)
        BY <1>1, <1>2, <2>1, <3>1
      <4> QED
        BY <3>1, <4>1
    <3> QED
      BY <1>1, <1>2, <2>1, <3>1, <3>2
  <2>2. CASE args.skip > Len(Readable)
    <3>1. r = <<>>
      BY <1>1, <1>2, <1>3, <2>2, SubSeqEmpty
    <3> QED
      BY <3>1
  <2> QED
    BY <1>1, <1>2, <2>1, <2>2
<1>5. PICK m : m = Least(args.limit, Len(r))
  OBVIOUS
<1>6. m \in Nat /\ m <= Len(r)
  BY <1>1, <1>4, <1>5 DEF Least
<1>7. PICK t : t = SubSeq(r, 1, m)
  OBVIOUS
<1>8. Len(t) = m /\ DOMAIN t = 1..Len(t) /\ \A i \in 1..m : t[i] = r[i]
  <2>1. /\ Len(SubSeq(r, 1, m)) = m - 1 + 1
        /\ DOMAIN SubSeq(r, 1, m) = 1..Len(SubSeq(r, 1, m))
        /\ \A i \in 1..(m - 1 + 1) : SubSeq(r, 1, m)[i] = r[1 + i - 1]
    BY <1>6, Piece
  <2>2. /\ Len(t) = m - 1 + 1
        /\ DOMAIN t = 1..Len(t)
        /\ \A i \in 1..(m - 1 + 1) : t[i] = r[1 + i - 1]
    BY <1>7, <2>1, Zenon
  <2> QED
    BY <1>6, <2>2
<1>9. Selected = IF args.limit = 0 THEN r ELSE t
  BY <1>3, <1>5, <1>7, Zenon DEF Selected
<1>10. ASSUME NEW i \in 1..Len(t)
       PROVE  \E k \in 1..Len(Readable) : t[i] = Readable[k]
  <2>1. i \in 1..m /\ i \in 1..Len(r) /\ t[i] = r[i]
    BY <1>4, <1>6, <1>8
  <2>2. PICK k \in 1..Len(Readable) : r[i] = Readable[k]
    BY <1>4, <2>1
  <2> QED
    BY <2>1, <2>2
<1>11. Len(t) \in Nat /\ DOMAIN t = 1..Len(t)
  BY <1>6, <1>8
<1>12. CASE args.limit = 0
  <2>1. Selected = r
    BY <1>9, <1>12
  <2> QED
    BY <1>4, <2>1, Zenon
<1>13. CASE args.limit # 0
  <2>1. Selected = t
    BY <1>9, <1>13
  <2> QED
    BY <1>10, <1>11, <2>1, Zenon
<1> QED
  BY <1>12, <1>13

(*------------------------------ the whole run ------------------------------*)

\* The command line and the book stay what they are.
LEMMA SameRun ==
    ASSUME [Next]_vars
    PROVE  args' = args /\ format' = format
BY DEF Next, vars, run, Renew, ReaderPage, Report, ChapterInfos, ChapterPage, Shard, Tar,
       NextChapter, OpenOutput, WriteEntries, Persist, Kill

LEMMA SelectedStays ==
    ASSUME args' = args
    PROVE  Selected' = Selected
BY DEF Selected

LEMMA OnCourseStep ==
    ASSUME OnCourse, [Next]_vars
    PROVE  OnCourse'
<1> DEFINE Stages == Before \union Fetching \union Writing \union {"done"}
<1>1. args' = args /\ format' = format
  BY SameRun
<1>2. ASSUME stage' = "done", outcome' \in {"ok", "failed", "killed"}
      PROVE  OnCourse'
  BY <1>1, <1>2 DEF OnCourse, Before, Fetching, Writing
<1>3. ASSUME stage' \in Stages \ {"done"}, stage # "done", outcome' = outcome,
             stage' \in {"catalog"} \union Fetching \union Writing => args.mode = "epub",
             stage' = "report" => args.mode # "epub"
      PROVE  OnCourse'
  BY <1>1, <1>3 DEF OnCourse
<1>4. CASE Renew
  BY <1>2, <1>3, <1>4 DEF Renew, Broken, Fail, Go, Before, Fetching, Writing
<1>5. CASE ReaderPage
  BY <1>2, <1>3, <1>5 DEF ReaderPage, Broken, Fail, Go, Before, Fetching, Writing
<1>6. CASE Report
  BY <1>2, <1>6 DEF Report, Broken, Fail
<1>7. CASE ChapterInfos
  BY <1>2, <1>3, <1>7 DEF ChapterInfos, Broken, Fail, Go, OnCourse, Before, Fetching, Writing
<1>8. CASE ChapterPage
  BY <1>2, <1>3, <1>8 DEF ChapterPage, Broken, Fail, Go, OnCourse, Before, Fetching, Writing
<1>9. CASE Shard
  <2>1. stage \in Fetching /\ args.mode = "epub"
    BY <1>9 DEF Shard, OnCourse, Fetching
  <2>2. \/ stage' = "done" /\ outcome' = "failed"
        \/ stage' \in Fetching /\ outcome' = outcome
    <3>1. CASE Broken
      BY <3>1 DEF Broken, Fail
    <3>2. CASE Fail
      BY <3>2 DEF Fail
    <3>3. ASSUME NEW a, AfterShard(stage, a)
          PROVE  \/ stage' = "done" /\ outcome' = "failed"
                 \/ stage' \in Fetching /\ outcome' = outcome
      <4>1. stage \in {"e_0", "e_1", "e_2", "e_3", "t_0", "t_1"}
        BY <1>9 DEF Shard
      <4>2. CASE stage = "e_0"
        BY <3>3, <4>2 DEF AfterShard, Go, Fetching
      <4>3. CASE stage \in {"e_1", "t_0"}
        BY <3>3, <4>3 DEF AfterShard, Go, Fetching
      <4>4. CASE stage \in {"e_3", "t_1"}
        BY <3>3, <4>4 DEF AfterShard, Go, Fail, Fetching
      <4>5. CASE stage = "e_2"
        BY <3>3, <4>5 DEF AfterShard, Go, Fetching
      <4> QED
        BY <4>1, <4>2, <4>3, <4>4, <4>5
    <3> QED
      BY <1>9, <3>1, <3>2, <3>3 DEF Shard
  <2> QED
    BY <1>2, <1>3, <2>1, <2>2 DEF Fetching, Before
<1>10. CASE Tar
  BY <1>2, <1>3, <1>10 DEF Tar, Broken, Fail, Go, OnCourse, Before, Fetching, Writing
<1>11. CASE NextChapter
  BY <1>3, <1>11 DEF NextChapter, Go, OnCourse, Before, Fetching, Writing
<1>12. CASE OpenOutput
  BY <1>3, <1>12 DEF OpenOutput, Go, OnCourse, Before, Fetching, Writing
<1>13. CASE WriteEntries
  BY <1>2, <1>3, <1>13 DEF WriteEntries, Broken, Fail, Go, OnCourse, Before, Fetching, Writing
<1>14. CASE Persist
  BY <1>2, <1>14 DEF Persist, Broken, Fail
<1>15. CASE Kill
  BY <1>2, <1>15 DEF Kill
<1>16. CASE UNCHANGED vars
  BY <1>16 DEF vars, run, OnCourse, Before, Fetching, Writing
<1> QED
  BY <1>4, <1>5, <1>6, <1>7, <1>8, <1>9, <1>10, <1>11, <1>12, <1>13, <1>14, <1>15, <1>16
     DEF Next

\* What the answers do to the jar: replacing cookies is counted.
LEMMA Rotated ==
    ASSUME jar \in Nat, Rotate
    PROVE  jar' \in Nat
BY EpubAssumption DEF Rotate

\* Once past the renewal nothing touches the cookie file but a run's good end.
LEMMA CookiesStep ==
    ASSUME OnCourse, Jar, CookiesAreKept, [Next]_vars
    PROVE  Jar' /\ CookiesAreKept'
<1>1. args' = args
  BY SameRun
<1>2. args \in Arguments
  BY DEF OnCourse
<1>3. ASSUME saved' = saved, jar' \in Nat, outcome' # "ok",
             stage' \in {"renew", "done"} \/ stage # "renew", stage # "done"
      PROVE  Jar' /\ CookiesAreKept'
  BY <1>1, <1>3 DEF Jar, CookiesAreKept
<1>4. CASE Renew
  <2>1. CASE jar' = jar + 1 /\ persist_cookies
    <3>1. saved' = IF args.cookieFile THEN jar + 1 ELSE saved
      BY <2>1 DEF persist_cookies
    <3>2. outcome' # "ok"
      BY <1>4 DEF Renew, Broken, Fail, Go, OnCourse
    <3> QED
      BY <1>1, <2>1, <3>1, <3>2 DEF Jar, CookiesAreKept
  <2>2. CASE Broken /\ jar' \in {jar, jar + 1} /\ UNCHANGED saved
    BY <1>3, <1>4, <2>2 DEF Renew, Broken, Fail, Jar
  <2> QED
    BY <1>4, <2>1, <2>2 DEF Renew
<1>5. CASE ReaderPage
  BY <1>3, <1>5, Rotated DEF ReaderPage, Broken, Fail, Go, Jar, OnCourse
<1>6. CASE Report
  <2>1. CASE args.mode = "dump"
    BY <1>1, <1>6, <2>1 DEF Report, Jar, CookiesAreKept
  <2>2. CASE args.mode # "dump" /\ Broken
    BY <1>3, <1>6, <2>2, Rotated DEF Report, Broken, Fail, Jar
  <2>3. CASE args.mode # "dump" /\ ~Broken
    <3>1. stage' = "done" /\ persist_cookies /\ jar' \in Nat
      BY <1>6, <2>3, Rotated DEF Report, Jar
    <3> QED
      BY <1>1, <3>1 DEF persist_cookies, Jar, CookiesAreKept
  <2> QED
    BY <2>1, <2>2, <2>3
<1>7. CASE ChapterInfos
  BY <1>3, <1>7, Rotated DEF ChapterInfos, Broken, Fail, Go, Jar, OnCourse
<1>8. CASE ChapterPage
  BY <1>3, <1>8, Rotated DEF ChapterPage, Broken, Fail, Go, Jar, OnCourse
<1>9. CASE Shard
  <2>1. OnCourse'
    BY OnCourseStep
  <2>2. outcome' # "ok"
    <3>1. CASE Broken
      BY <3>1 DEF Broken, Fail
    <3>2. CASE Fail
      BY <3>2 DEF Fail
    <3>3. ASSUME NEW a, AfterShard(stage, a)
          PROVE  outcome' # "ok"
      <4>1. stage \in {"e_0", "e_1", "e_2", "e_3", "t_0", "t_1"} /\ outcome # "ok"
        BY <1>9 DEF Shard, OnCourse
      <4>2. CASE stage = "e_0"
        BY <3>3, <4>1, <4>2 DEF AfterShard, Go
      <4>3. CASE stage \in {"e_1", "t_0"}
        BY <3>3, <4>1, <4>3 DEF AfterShard, Go
      <4>4. CASE stage \in {"e_3", "t_1"}
        BY <3>3, <4>1, <4>4 DEF AfterShard, Go, Fail
      <4>5. CASE stage = "e_2"
        BY <3>3, <4>1, <4>5 DEF AfterShard, Go
      <4> QED
        BY <4>1, <4>2, <4>3, <4>4, <4>5
    <3> QED
      BY <1>9, <3>1, <3>2, <3>3 DEF Shard
  <2> QED
    BY <1>3, <1>9, <2>2, Rotated DEF Shard, Jar
<1>10. CASE Tar
  BY <1>3, <1>10, Rotated DEF Tar, Broken, Fail, Go, Jar, OnCourse
<1>11. CASE NextChapter
  BY <1>3, <1>11 DEF NextChapter, Go, Jar, OnCourse
<1>12. CASE OpenOutput
  BY <1>3, <1>12 DEF OpenOutput, Go, Jar, OnCourse
<1>13. CASE WriteEntries
  BY <1>3, <1>13 DEF WriteEntries, Broken, Fail, Go, Jar, OnCourse
<1>14. CASE Persist
  <2>1. CASE Broken
    BY <1>3, <1>14, <2>1 DEF Persist, Broken, Fail, Jar
  <2>2. CASE ~Broken
    <3>1. stage' = "done" /\ persist_cookies /\ jar' = jar
      BY <1>14, <2>2 DEF Persist
    <3> QED
      BY <1>1, <3>1 DEF persist_cookies, Jar, CookiesAreKept
  <2> QED
    BY <2>1, <2>2
<1>15. CASE Kill
  BY <1>3, <1>15 DEF Kill, Jar
<1>16. CASE UNCHANGED vars
  BY <1>16 DEF vars, run, Jar, CookiesAreKept
<1> QED
  BY <1>4, <1>5, <1>6, <1>7, <1>8, <1>9, <1>10, <1>11, <1>12, <1>13, <1>14, <1>15, <1>16
     DEF Next

LEMMA SaidStep ==
    ASSUME Said, [Next]_vars
    PROVE  Said'
<1>1. args' = args
  BY SameRun
<1>2. Reported' = Reported
  BY <1>1 DEF Reported
<1>3. reported' = reported \/ reported' = Reported
  BY DEF Next, vars, run, Renew, ReaderPage, Report, ChapterInfos, ChapterPage, Shard, Tar,
         NextChapter, OpenOutput, WriteEntries, Persist, Kill
<1> QED
  BY <1>2, <1>3 DEF Said

\* The report is one of the places the sources name, as far as they name one.
LEMMA ReportedPlace ==
    ASSUME args \in Arguments, Said
    PROVE  ReportedIsAPlace
<1> DEFINE given == args.given
           current == args.current
           place == args.progress
           uid == IF current.uid # 0 THEN current.uid ELSE place.uid
           offset == IF current.offset # 0 THEN current.offset ELSE place.offset
<1>1. given \in Given /\ current \in PagePlaces /\ place \in PagePlaces
  BY DEF Arguments
<1>2. Reported = [uid |-> IF given.uid # 0 THEN given.uid ELSE uid,
                  offset |-> IF given.offset # Nowhere THEN given.offset ELSE offset]
  BY DEF Reported
<1> HIDE DEF given, current, place
<1> SUFFICES ASSUME given \in {None} \union [uid : 1..2, offset : 0..1],
                    current.offset = 0 /\ current.uid # 0 => place.uid = current.uid
             PROVE  Reported \in {given, current, place}
  BY DEF ReportedIsAPlace, Said, given, current, place
<1>3. CASE given \in [uid : 1..2, offset : 0..1]
  <2>1. given.uid # 0 /\ given.offset # Nowhere /\ given = [uid |-> given.uid, offset |-> given.offset]
    BY <1>3, EpubAssumption
  <2> QED
    BY <1>2, <2>1
<1>4. CASE given = None
  <2>1. Reported = [uid |-> uid, offset |-> offset]
    BY <1>2, <1>4 DEF None
  <2>2. /\ current = [uid |-> current.uid, offset |-> current.offset]
        /\ place = [uid |-> place.uid, offset |-> place.offset]
        /\ current.uid = 0 => current.offset = 0
    BY <1>1 DEF PagePlaces
  <2>3. CASE current.offset # 0
    <3>1. uid = current.uid /\ offset = current.offset
      BY <2>2, <2>3
    <3> QED
      BY <2>1, <2>2, <3>1
  <2>4. CASE current.offset = 0
    <3>1. uid = place.uid /\ offset = place.offset
      BY <2>4
    <3> QED
      BY <2>1, <2>2, <3>1
  <2> QED
    BY <2>3, <2>4
<1> QED
  BY <1>3, <1>4

(*------------------------------ the chapters ------------------------------*)

LEMMA CutGrows ==
    ASSUME [Next]_vars
    PROVE  cut \subseteq cut'
<1>1. CASE Shard
  BY <1>1 DEF Shard
<1> QED
  BY <1>1 DEF Next, vars, Renew, ReaderPage, Report, ChapterInfos, ChapterPage, Tar,
     NextChapter, OpenOutput, WriteEntries, Persist, Kill

\* The loop over the chapters: one more in the list, and the next one, or the file.
LEMMA ListingStep ==
    ASSUME OnCourse, Listing, [Next]_vars
    PROVE  Listing'
<1> DEFINE n == Len(Selected)
<1>1. args' = args /\ Selected' = Selected
  BY SameRun, SelectedStays
<1>2. n \in Nat
  BY Selection DEF OnCourse
<1>3. Len(fetched) \in Nat
  BY LenProperties DEF Listing
<1>4. ASSUME fetched' = fetched, at' = at,
             \/ stage' = "done"
             \/ stage' \in Before /\ stage \in Before
             \/ stage' \in Fetching /\ stage \in Fetching
             \/ stage' \in Writing /\ stage \in Writing
      PROVE  Listing'
  <2>1. Len(Selected)' = Len(Selected)
    BY <1>1
  <2> QED
    BY <1>4, <2>1 DEF Listing, Before, Fetching, Writing
<1>5. CASE Renew
  BY <1>4, <1>5 DEF Renew, progress, Broken, Fail, Go, Before
<1>6. CASE ReaderPage
  BY <1>4, <1>6 DEF ReaderPage, progress, Broken, Fail, Go, Before
<1>7. CASE Report
  BY <1>4, <1>7 DEF Report, progress, Broken, Fail
<1>8. CASE ChapterInfos
  <2>1. at' = at /\ fetched' = fetched
    BY <1>8 DEF ChapterInfos, progress
  <2>2. CASE stage' = "done"
    BY <1>4, <2>1, <2>2
  <2>3. CASE stage' # "done"
    <3>1. Selected # <<>> /\ stage' = "chapter"
      BY <1>8, <2>3 DEF ChapterInfos, Broken, Fail, Go
    <3>2. n # 0
      BY <3>1, Selection DEF OnCourse
    <3>3. fetched = <<>> /\ at = 1
      BY <1>8 DEF ChapterInfos, Listing, Before
    <3> QED
      BY <1>1, <1>2, <2>1, <3>1, <3>2, <3>3 DEF Listing, Before, Fetching, Writing
  <2> QED
    BY <2>2, <2>3
<1>9. CASE ChapterPage
  BY <1>4, <1>9 DEF ChapterPage, Broken, Fail, Go, Fetching
<1>10. CASE Shard
  <2>1. at' = at /\ fetched' = fetched /\ stage \in Fetching
    BY <1>10 DEF Shard, Fetching
  <2>2. stage' \in {"done"} \union Fetching
    <3>1. CASE Broken \/ Fail
      BY <3>1 DEF Broken, Fail
    <3>2. ASSUME NEW a, AfterShard(stage, a)
          PROVE  stage' \in {"done"} \union Fetching
      <4>1. stage \in {"e_0", "e_1", "e_2", "e_3", "t_0", "t_1"}
        BY <1>10 DEF Shard
      <4>2. CASE stage = "e_0"
        BY <3>2, <4>2 DEF AfterShard, Go, Fetching
      <4>3. CASE stage \in {"e_1", "t_0"}
        BY <3>2, <4>3 DEF AfterShard, Go, Fetching
      <4>4. CASE stage \in {"e_3", "t_1"}
        BY <3>2, <4>4 DEF AfterShard, Go, Fail, Fetching
      <4>5. CASE stage = "e_2"
        BY <3>2, <4>5 DEF AfterShard, Go, Fetching
      <4> QED
        BY <4>1, <4>2, <4>3, <4>4, <4>5
    <3> QED
      BY <1>10, <3>1, <3>2 DEF Shard
  <2> QED
    BY <1>4, <2>1, <2>2
<1>11. CASE Tar
  BY <1>4, <1>11 DEF Tar, Broken, Fail, Go, Fetching
<1>12. CASE NextChapter
  <2>1. PICK e : fetched' = Append(fetched, e)
    BY <1>12 DEF NextChapter
  <2>2. fetched' \in Seq(Range(fetched')) /\ Len(fetched') = Len(fetched) + 1
    BY <2>1, Grown DEF Listing
  <2>3. at = Len(fetched) + 1 /\ at <= n /\ at' = at + 1
    BY <1>12 DEF NextChapter, Listing, Fetching
  <2>4. stage' = IF at = n THEN "write" ELSE "chapter"
    BY <1>12 DEF NextChapter, Go
  <2>5. Range(fetched)' = Range(fetched')
    BY DEF Range
  <2> QED
    BY <1>1, <1>2, <1>3, <2>2, <2>3, <2>4, <2>5 DEF Listing, Before, Fetching, Writing
<1>13. CASE OpenOutput
  BY <1>4, <1>13 DEF OpenOutput, progress, Go, Writing
<1>14. CASE WriteEntries
  BY <1>4, <1>14 DEF WriteEntries, progress, Broken, Fail, Go, Writing
<1>15. CASE Persist
  BY <1>4, <1>15 DEF Persist, progress, Broken, Fail
<1>16. CASE Kill
  BY <1>4, <1>16 DEF Kill, progress
<1>17. CASE UNCHANGED vars
  BY <1>1, <1>17 DEF vars, progress, Listing
<1> QED
  BY <1>5, <1>6, <1>7, <1>8, <1>9, <1>10, <1>11, <1>12, <1>13, <1>14, <1>15, <1>16, <1>17
     DEF Next

\* Only the end of a round adds to the list, and it adds the chapter in hand.
LEMMA FetchedStep ==
    ASSUME [Next]_vars
    PROVE  \/ fetched' = fetched
           \/ /\ stage = "next" /\ at' = at + 1
              /\ fetched' = Append(fetched, [uid |-> Current.uid, content |-> chapter.content,
                                             images |-> chapter.images])
BY DEF Next, vars, progress, Renew, ReaderPage, Report, ChapterInfos, ChapterPage, Shard, Tar,
       NextChapter, OpenOutput, WriteEntries, Persist, Kill

LEMMA AllKeptStep ==
    ASSUME Listing, AllKept, InHand, [Next]_vars
    PROVE  AllKept'
<1>1. format' = format /\ Selected' = Selected /\ cut \subseteq cut'
  BY SameRun, SelectedStays, CutGrows
<1>2. ASSUME NEW c, NEW chosen, Kept(c, chosen)
      PROVE  Kept(c, chosen)'
  BY <1>1, <1>2 DEF Kept
<1>3. CASE fetched' = fetched
  BY <1>1, <1>2, <1>3 DEF AllKept, Kept
<1>4. CASE fetched' # fetched
  <2> DEFINE c == [uid |-> Current.uid, content |-> chapter.content, images |-> chapter.images]
  <2>1. stage = "next" /\ fetched' = Append(fetched, c)
    BY <1>4, FetchedStep
  <2>2. Kept(c, Current)
    BY <2>1 DEF Kept, InHand
  <2> HIDE DEF c
  <2>3. /\ Len(fetched) \in Nat /\ Len(fetched') = Len(fetched) + 1
        /\ \A i \in 1..Len(fetched) : fetched'[i] = fetched[i]
        /\ fetched'[Len(fetched) + 1] = c
    BY <2>1, Grown DEF Listing
  <2>4. Current = Selected[Len(fetched) + 1]
    BY DEF Current, Listing
  <2>5. ASSUME NEW j \in 1..Len(fetched')
        PROVE  Kept(fetched[j], Selected[j])'
    <3>1. CASE j \in 1..Len(fetched)
      <4>1. Kept(fetched[j], Selected[j]) /\ fetched'[j] = fetched[j]
        BY <2>3, <3>1 DEF AllKept
      <4> QED
        BY <1>1, <4>1 DEF Kept
    <3>2. CASE j = Len(fetched) + 1
      <4>1. fetched'[j] = c /\ Selected'[j] = Current
        BY <1>1, <2>3, <2>4, <3>2
      <4> QED
        BY <1>1, <2>2, <4>1 DEF Kept
    <3> QED
      BY <2>3, <3>1, <3>2
  <2> QED
    BY <2>5 DEF AllKept
<1> QED
  BY <1>3, <1>4

(*------------------------------- the shards -------------------------------*)

LEMMA SameChapter ==
    ASSUME args' = args, at' = at
    PROVE  /\ Current' = Current
           /\ \A e : Body(e)' = Body(e)
BY SelectedStays DEF Current, Body

\* A shard is what was sent or will not decode, unless the cut is on record.
LEMMA ShardIsFaithful ==
    ASSUME stage \in {"e_0", "e_1", "e_3", "t_0", "t_1"},
           format = "epub" => stage \notin {"t_0", "t_1"},
           NEW a \in {"{}", "short", "corrupt"} \union {Proper(stage)},
           IF a = Proper(stage) THEN cut' = cut
           ELSE cut' = IF a \in {"{}", "short"} /\ stage # "e_2" THEN cut \union {Current.uid}
                       ELSE cut,
           NEW body
    PROVE  checked_body(a, body) \in {body, NoText} \/ Current.uid \in cut'
<1>1. Proper(stage) \in {"info", "corrupt", "shard"}
  BY DEF Proper
<1>2. CASE a = Proper(stage)
  BY <1>1, <1>2 DEF checked_body
<1>3. CASE a # Proper(stage) /\ a \in {"{}", "short"}
  BY <1>3
<1>4. CASE a # Proper(stage) /\ a = "corrupt"
  BY <1>4 DEF checked_body
<1> QED
  BY <1>2, <1>3, <1>4

\* Shards that are as they were sent decode to the text, or not at all.
LEMMA JoinedInThree ==
    ASSUME Travels(Current.text),
           NEW g, NEW h, NEW k,
           g \in {Body("e_0"), NoText}, h \in {Body("e_1"), NoText}, k \in {Body("e_3"), NoText},
           decode_content_shards(<<g, h, k>>) # NoText
    PROVE  decode_content_shards(<<g, h, k>>) = Current.text
<1>1. g # NoText /\ h # NoText /\ k # NoText
  <2>1. PICK shards : shards = <<g, h, k>>
    OBVIOUS
  <2>2. DOMAIN shards = 1..3 /\ shards[1] = g /\ shards[2] = h /\ shards[3] = k
    BY <2>1
  <2>3. decode_content_shards(shards) # NoText
    BY <2>1
  <2>4. \A i \in DOMAIN shards : shards[i] # NoText
    BY <2>3, Zenon DEF decode_content_shards
  <2> QED
    BY <2>2, <2>4
<1>2. /\ Body("e_0") = Part(encode_payload(Current.text), 1, 3)
      /\ Body("e_1") = Part(encode_payload(Current.text), 2, 3)
      /\ Body("e_3") = Part(encode_payload(Current.text), 3, 3)
  BY DEF Body
<1> QED
  BY <1>1, <1>2 DEF Travels

LEMMA JoinedInTwo ==
    ASSUME Travels(Current.text),
           NEW g, NEW h, g \in {Body("t_0"), NoText}, h \in {Body("t_1"), NoText},
           decode_content_shards(<<g, h>>) # NoText
    PROVE  decode_content_shards(<<g, h>>) = Current.text
<1>1. g # NoText /\ h # NoText
  <2>1. PICK shards : shards = <<g, h>>
    OBVIOUS
  <2>2. DOMAIN shards = 1..2 /\ shards[1] = g /\ shards[2] = h
    BY <2>1
  <2>3. decode_content_shards(shards) # NoText
    BY <2>1
  <2>4. \A i \in DOMAIN shards : shards[i] # NoText
    BY <2>3, Zenon DEF decode_content_shards
  <2> QED
    BY <2>2, <2>4
<1>2. /\ Body("t_0") = Part(encode_payload(Current.text), 1, 2)
      /\ Body("t_1") = Part(encode_payload(Current.text), 2, 2)
  BY DEF Body
<1> QED
  BY <1>1, <1>2 DEF Travels

LEMMA CurrentTravels ==
    ASSUME OnCourse, Listing, stage \in Fetching
    PROVE  Travels(Current.text)
<1>1. at \in 1..Len(Selected)
  <2>1. Len(fetched) \in Nat
    BY LenProperties DEF Listing
  <2> QED
    BY <2>1, Selection DEF OnCourse, Listing
<1>2. PICK k \in 1..Len(Readable) : Selected[at] = Readable[k]
  BY <1>1, Selection DEF OnCourse
<1> QED
  BY <1>2, ReadableTravels DEF TextsTravel, Current

\* What a shard request comes to.
Accepted(a) ==
    /\ a \in {"{}", "short", "corrupt"} \union {Proper(stage)}
    /\ IF a = Proper(stage) THEN cut' = cut
       ELSE cut' = IF a \in {"{}", "short"} /\ stage # "e_2" THEN cut \union {Current.uid}
                   ELSE cut
    /\ AfterShard(stage, a)

LEMMA ShardCases ==
    ASSUME Shard
    PROVE  /\ stage \in {"e_0", "e_1", "e_2", "e_3", "t_0", "t_1"}
           /\ args' = args /\ format' = format /\ at' = at
           /\ \/ stage' = "done" /\ content_format' = content_format
              \/ \E a : Accepted(a)
BY DEF Shard, Broken, Fail, run, Accepted

LEMMA ShardsStep ==
    ASSUME OnCourse, Shards, [Next]_vars
    PROVE  Shards'
<1>1. format' = format
  BY SameRun
<1>2. ASSUME stage' \notin {"e_0", "e_1", "e_3", "t_0", "t_1"},
             content_format' = content_format
      PROVE  Shards'
  BY <1>1, <1>2 DEF Shards
<1>3. CASE ChapterPage
  <2>1. CASE stage' = "done"
    BY <1>2, <1>3, <2>1 DEF ChapterPage
  <2>2. CASE stage' # "done"
    BY <1>1, <1>3, <2>2 DEF ChapterPage, Broken, Fail, Go, Shards
  <2> QED
    BY <2>1, <2>2
<1>4. CASE Shard
  <2>1. /\ stage \in {"e_0", "e_1", "e_2", "e_3", "t_0", "t_1"}
        /\ args' = args /\ format' = format /\ at' = at
        /\ \/ stage' = "done" /\ content_format' = content_format
           \/ \E a : Accepted(a)
    BY <1>4, ShardCases
  <2>2. Current' = Current /\ \A e : Body(e)' = Body(e)
    BY <2>1, SameChapter
  <2>3. CASE stage' = "done" /\ content_format' = content_format
    BY <1>2, <2>3
  <2>4. ASSUME NEW a, Accepted(a)
        PROVE  Shards'
    <3> DEFINE g == checked_body(a, Body(stage))
    <3>1. stage # "e_2" => g \in {Body(stage), NoText} \/ Current.uid \in cut'
      BY <2>1, <2>4, ShardIsFaithful DEF Accepted, Shards
    <3>2. cut \subseteq cut'
      BY <2>4 DEF Accepted
    <3>3. ASSUME NEW b, NEW part, Faithful(b, part)
          PROVE  b \in {part, NoText} \/ Current.uid \in cut'
      BY <3>2, <3>3 DEF Faithful
    <3>4. CASE stage = "e_0"
      <4>1. CASE a = "info"
        <5>1. format # "epub"
          BY <2>4, <3>4, <4>1 DEF Accepted, Proper
        <5>2. stage' = "t_0" /\ got' = got
          BY <2>4, <3>4, <4>1 DEF Accepted, AfterShard, Go
        <5> QED
          BY <1>1, <3>4, <5>1, <5>2 DEF Shards
      <4>2. CASE a # "info"
        <5>1. stage' = "e_1" /\ content_format' = "epub" /\ got' = <<g>>
          BY <2>4, <3>4, <4>2 DEF Accepted, AfterShard, Go
        <5> HIDE DEF g
        <5>2. got'[1] = g
          BY <5>1
        <5>3. (got = <<got[1]>>)' /\ Faithful(got[1], Body("e_0"))'
          BY <2>2, <3>1, <3>4, <5>1, <5>2 DEF Faithful
        <5> QED
          BY <5>1, <5>3 DEF Shards
      <4> QED
        BY <4>1, <4>2
    <3>5. CASE stage = "e_1"
      <4>1. stage' = "e_3" /\ content_format' = content_format /\ got' = Append(got, g)
        BY <2>4, <3>5 DEF Accepted, AfterShard, Go
      <4>2. PICK h : h = got[1]
        OBVIOUS
      <4>3. got = <<h>> /\ Faithful(h, Body("e_0"))
        BY <3>5, <4>2 DEF Shards
      <4> HIDE DEF g
      <4>4. got' = <<h, g>>
        BY <4>1, <4>3, Second
      <4>5. got'[1] = h /\ got'[2] = g
        BY <4>4
      <4>6. /\ (got = <<got[1], got[2]>>)'
            /\ Faithful(got[1], Body("e_0"))' /\ Faithful(got[2], Body("e_1"))'
        BY <2>2, <3>1, <3>3, <3>5, <4>3, <4>4, <4>5 DEF Faithful
      <4> QED
        BY <1>1, <4>1, <4>6 DEF Shards
    <3>6. CASE stage = "t_0"
      <4>1. stage' = "t_1" /\ content_format' = content_format /\ got' = Append(got, g)
        BY <2>4, <3>6 DEF Accepted, AfterShard, Go
      <4>2. got = <<>> /\ format # "epub"
        BY <3>6 DEF Shards
      <4> HIDE DEF g
      <4>3. got' = <<g>>
        BY <4>1, <4>2
      <4>4. got'[1] = g
        BY <4>3
      <4>5. (got = <<got[1]>>)' /\ Faithful(got[1], Body("t_0"))'
        BY <2>2, <3>1, <3>6, <4>3, <4>4 DEF Faithful
      <4> QED
        BY <1>1, <4>1, <4>2, <4>5 DEF Shards
    <3>7. CASE stage \in {"e_3", "t_1", "e_2"}
      <4>1. stage' \in {"done", "e_2", "next", "tar"} /\ content_format' = content_format
        <5>1. CASE stage \in {"e_3", "t_1"}
          BY <2>4, <5>1 DEF Accepted, AfterShard, Go, Fail
        <5>2. CASE stage = "e_2"
          BY <2>4, <5>2 DEF Accepted, AfterShard, Go
        <5> QED
          BY <3>7, <5>1, <5>2
      <4> QED
        BY <1>2, <4>1
    <3> QED
      BY <2>1, <3>4, <3>5, <3>6, <3>7
  <2> QED
    BY <2>1, <2>3, <2>4
<1>5. CASE UNCHANGED vars
  <2>1. Current' = Current /\ \A e : Body(e)' = Body(e)
    BY <1>5, SameChapter DEF vars, run, progress
  <2> QED
    BY <1>5, <2>1 DEF vars, run, progress, Shards, Faithful
<1>6. CASE Renew \/ ReaderPage \/ Report \/ ChapterInfos \/ Tar \/ NextChapter \/ OpenOutput
             \/ WriteEntries \/ Persist \/ Kill
  BY <1>2, <1>6 DEF Renew, ReaderPage, Report, ChapterInfos, Tar, NextChapter, OpenOutput,
     WriteEntries, Persist, Kill, Broken, Fail, Go, progress
<1> QED
  BY <1>3, <1>4, <1>5, <1>6 DEF Next

\* The shards of a chapter, joined, are its text: by then each of them is what was sent,
\* or the decoding fails, or the chapter is among those that an answer cut.
LEMMA InHandStep ==
    ASSUME OnCourse, Listing, Shards, InHand, [Next]_vars
    PROVE  InHand'
<1>1. format' = format
  BY SameRun
<1>2. ASSUME stage' \notin {"e_2", "tar", "next"}
      PROVE  InHand'
  BY <1>2 DEF InHand
<1>3. CASE Shard
  <2>1. /\ stage \in {"e_0", "e_1", "e_2", "e_3", "t_0", "t_1"}
        /\ args' = args /\ format' = format /\ at' = at
        /\ \/ stage' = "done" /\ content_format' = content_format
           \/ \E a : Accepted(a)
    BY <1>3, ShardCases
  <2>2. Current' = Current
    BY <2>1, SameChapter
  <2>3. CASE stage' = "done"
    BY <1>2, <2>3
  <2>4. ASSUME NEW a, Accepted(a), stage' # "done"
        PROVE  InHand'
    <3> DEFINE g == checked_body(a, Body(stage))
               content == decode_content_shards(Append(got, g))
    <3>1. stage # "e_2" => g \in {Body(stage), NoText} \/ Current.uid \in cut'
      BY <2>1, <2>4, ShardIsFaithful DEF Accepted, Shards
    <3>2. cut \subseteq cut'
      BY <2>4 DEF Accepted
    <3>3. Travels(Current.text)
      BY <2>1, CurrentTravels DEF Fetching
    <3>4. ASSUME NEW c, chapter' = [NoChapter EXCEPT !.content = c],
                 Current.uid \notin cut' => c = Current.text,
                 stage' = "e_2" \/ (stage' = "next" /\ format # "epub")
          PROVE  InHand'
      <4>1. /\ chapter'.content = c /\ chapter'.images = {}
            /\ chapter' = [content |-> chapter'.content, style |-> chapter'.style,
                           images |-> chapter'.images]
        BY <3>4 DEF NoChapter
      <4>2. Shaped'
        BY <4>1 DEF Shaped
      <4> QED
        BY <1>1, <2>2, <3>4, <4>1, <4>2 DEF InHand
    <3>5. CASE stage \in {"e_0", "e_1", "t_0"}
      <4>1. stage' \in {"t_0", "e_1", "e_3", "t_1"}
        <5>1. CASE stage = "e_0"
          BY <2>4, <5>1 DEF Accepted, AfterShard, Go
        <5>2. CASE stage \in {"e_1", "t_0"}
          BY <2>4, <5>2 DEF Accepted, AfterShard, Go
        <5> QED
          BY <3>5, <5>1, <5>2
      <4> QED
        BY <1>2, <4>1
    <3>6. CASE stage \in {"e_3", "t_1"}
      <4>1. /\ content # NoText
            /\ stage' = IF stage = "e_3" THEN "e_2" ELSE "next"
            /\ chapter' = [NoChapter EXCEPT !.content = content]
        BY <2>4, <3>6 DEF Accepted, AfterShard, Go, Fail
      <4>2. ASSUME Current.uid \notin cut'
            PROVE  content = Current.text
        <5> HIDE DEF g
        <5>1. g \in {Body(stage), NoText} /\ Current.uid \notin cut
          BY <3>1, <3>2, <3>6, <4>2
        <5>2. CASE stage = "e_3"
          <6>1. PICK h, k : h = got[1] /\ k = got[2]
            OBVIOUS
          <6>2. /\ got = <<h, k>>
                /\ h \in {Body("e_0"), NoText} /\ k \in {Body("e_1"), NoText}
            BY <5>1, <5>2, <6>1 DEF Shards, Faithful
          <6>3. Append(got, g) = <<h, k, g>>
            BY <6>2, Third
          <6>4. decode_content_shards(<<h, k, g>>) # NoText
            BY <4>1, <6>3
          <6>5. decode_content_shards(<<h, k, g>>) = Current.text
            BY <3>3, <5>1, <5>2, <6>2, <6>4, JoinedInThree
          <6> QED
            BY <6>3, <6>5
        <5>3. CASE stage = "t_1"
          <6>1. PICK h : h = got[1]
            OBVIOUS
          <6>2. got = <<h>> /\ h \in {Body("t_0"), NoText}
            BY <5>1, <5>3, <6>1 DEF Shards, Faithful
          <6>3. Append(got, g) = <<h, g>>
            BY <6>2, Second
          <6>4. decode_content_shards(<<h, g>>) # NoText
            BY <4>1, <6>3
          <6>5. decode_content_shards(<<h, g>>) = Current.text
            BY <3>3, <5>1, <5>3, <6>2, <6>4, JoinedInTwo
          <6> QED
            BY <6>3, <6>5
        <5> QED
          BY <3>6, <5>2, <5>3
      <4>3. stage = "t_1" => format # "epub"
        BY DEF Shards
      <4> HIDE DEF content
      <4> QED
        BY <3>4, <3>6, <4>1, <4>2, <4>3
    <3>7. CASE stage = "e_2"
      <4>1. PICK style : chapter' = [chapter EXCEPT !.style = style]
        BY <2>4, <3>7 DEF Accepted, AfterShard
      <4>2. stage' = "tar"
        BY <2>4, <3>7 DEF Accepted, AfterShard, Go
      <4>3. /\ chapter = [content |-> chapter.content, style |-> chapter.style,
                          images |-> chapter.images]
            /\ chapter.images = {} /\ (Current.uid \notin cut => chapter.content = Current.text)
        BY <3>7 DEF InHand, Shaped
      <4>4. /\ chapter'.content = chapter.content /\ chapter'.images = chapter.images
            /\ chapter' = [content |-> chapter'.content, style |-> chapter'.style,
                           images |-> chapter'.images]
        BY <4>1, <4>3
      <4>5. Shaped'
        BY <4>4 DEF Shaped
      <4> QED
        BY <2>2, <3>2, <4>2, <4>3, <4>4, <4>5 DEF InHand
    <3> QED
      BY <2>1, <3>5, <3>6, <3>7
  <2> QED
    BY <2>1, <2>3, <2>4
<1>4. CASE Tar
  <2>1. CASE stage' = "done"
    BY <1>2, <2>1
  <2>2. CASE stage' # "done"
    <3>1. stage = "tar" /\ stage' = "next" /\ cut' = cut /\ at' = at
      BY <1>4, <2>2 DEF Tar, Broken, Fail, Go
    <3>2. Current' = Current
      BY <3>1, SameRun, SameChapter
    <3>3. /\ chapter = [content |-> chapter.content, style |-> chapter.style,
                        images |-> chapter.images]
          /\ chapter.images = {} /\ (Current.uid \notin cut => chapter.content = Current.text)
      BY <3>1 DEF InHand, Shaped
    <3>4. \/ chapter' = chapter /\ Current.images = {}
          \/ chapter' = [chapter EXCEPT !.images = Current.images]
      BY <1>4, <2>2 DEF Tar, Broken, Fail
    <3>5. /\ chapter'.content = chapter.content /\ chapter'.images = Current.images
          /\ chapter' = [content |-> chapter'.content, style |-> chapter'.style,
                         images |-> chapter'.images]
      BY <3>3, <3>4
    <3>6. Shaped'
      BY <3>5 DEF Shaped
    <3> QED
      BY <3>1, <3>2, <3>3, <3>5, <3>6 DEF InHand
  <2> QED
    BY <2>1, <2>2
<1>5. CASE UNCHANGED vars
  <2>1. Current' = Current
    BY <1>5, SameChapter DEF vars, run, progress
  <2> QED
    BY <1>5, <2>1 DEF vars, run, progress, InHand, Shaped
<1>6. CASE Renew \/ ReaderPage \/ Report \/ ChapterInfos \/ ChapterPage \/ NextChapter
             \/ OpenOutput \/ WriteEntries \/ Persist \/ Kill
  BY <1>2, <1>6 DEF Renew, ReaderPage, Report, ChapterInfos, ChapterPage, NextChapter,
     OpenOutput, WriteEntries, Persist, Kill, Broken, Fail, Go
<1> QED
  BY <1>3, <1>4, <1>5, <1>6 DEF Next

(*--------------------------------- the file ---------------------------------*)

\* An image is the last chapter's that has one of its name.
LEMMA LastImageWins ==
    ASSUME NEW chapters, Len(chapters) \in Nat, DOMAIN chapters = 1..Len(chapters),
           NEW i \in 1..Len(chapters), NEW name \in chapters[i].images,
           \A j \in (i + 1)..Len(chapters) : name \notin chapters[j].images
    PROVE  Assets(chapters)[name] = chapters[i].uid
<1> DEFINE Wins(k) == /\ name \in chapters[k].images
                      /\ \A j \in (k + 1)..Len(chapters) : name \notin chapters[j].images
<1>1. i \in DOMAIN chapters /\ Wins(i)
  OBVIOUS
<1>2. ASSUME NEW k \in DOMAIN chapters, Wins(k)
      PROVE  k = i
  <2>1. ~ (k < i) /\ ~ (i < k)
    BY <1>1, <1>2
  <2> QED
    BY <2>1
<1>3. (CHOOSE k \in DOMAIN chapters : Wins(k)) = i
  BY <1>1, <1>2
<1>4. name \in UNION {chapters[k].images : k \in DOMAIN chapters}
  BY <1>1
<1> QED
  BY <1>3, <1>4, Zenon DEF Assets

\* What is written when every chapter is there is the whole book.
LEMMA BookWritten ==
    ASSUME OnCourse, Listing, AllKept, WriteEntries, output' # output \/ stage' # "done"
    PROVE  WholeBook' /\ Len(fetched') = Len(Selected)'
<1> DEFINE n == Len(fetched)
<1>1. args' = args /\ format' = format /\ cut' = cut /\ fetched' = fetched /\ stage = "entries"
  BY DEF WriteEntries, run, progress
<1>2. Selected' = Selected
  BY <1>1, SelectedStays
<1>3. /\ Len(Selected) \in Nat /\ DOMAIN Selected = 1..Len(Selected)
      /\ n = Len(Selected) /\ DOMAIN fetched = 1..n
  BY <1>1, Selection, LenProperties DEF OnCourse, Listing, Writing
<1>4. /\ output'.chapters = [i \in DOMAIN fetched |->
                               [uid |-> fetched[i].uid, content |-> fetched[i].content]]
      /\ output'.assets = Assets(fetched)
  BY DEF WriteEntries, Broken, Fail
<1>5. PICK chapters : chapters = [i \in 1..n |->
                                    [uid |-> fetched[i].uid, content |-> fetched[i].content]]
  OBVIOUS
<1>6. output'.chapters = chapters
  BY <1>3, <1>4, <1>5
<1>7. Len(chapters) = n
  BY <1>3, <1>5
<1>8. ASSUME NEW i \in 1..n
      PROVE  /\ chapters[i].uid = Selected[i].uid
             /\ Selected[i].uid \notin cut => chapters[i].content = Selected[i].text
             /\ format = "epub" => \A name \in Selected[i].images :
                   \/ \E j \in (i + 1)..n : name \in Selected[j].images
                   \/ Assets(fetched)[name] = Selected[i].uid
  <2>1. \A j \in 1..n : Kept(fetched[j], Selected[j])
    BY DEF AllKept
  <2>2. chapters[i].uid = fetched[i].uid /\ chapters[i].content = fetched[i].content
    BY <1>5
  <2>3. ASSUME format = "epub", NEW name \in Selected[i].images,
               ~ \E j \in (i + 1)..n : name \in Selected[j].images
        PROVE  Assets(fetched)[name] = Selected[i].uid
    <3>1. \A j \in 1..n : fetched[j].images = Selected[j].images
      BY <2>1, <2>3 DEF Kept
    <3>2. \A j \in (i + 1)..n : name \notin fetched[j].images
      BY <1>3, <2>3, <3>1
    <3>3. name \in fetched[i].images
      BY <3>1
    <3>4. Assets(fetched)[name] = fetched[i].uid
      BY <1>3, <3>2, <3>3, LastImageWins
    <3> QED
      BY <2>1, <3>4 DEF Kept
  <2> QED
    BY <2>1, <2>2, <2>3 DEF Kept
<1>9. WholeBook'
  BY <1>1, <1>2, <1>3, <1>4, <1>6, <1>7, <1>8 DEF WholeBook
<1> QED
  BY <1>1, <1>2, <1>3, <1>9

\* The file is opened when the list is complete, and "ok" is said when it is closed.
LEMMA FileStep ==
    ASSUME OnCourse, Listing, AllKept, File, [Next]_vars
    PROVE  File'
<1>1. args' = args /\ format' = format /\ Selected' = Selected
  BY SameRun, SelectedStays
<1>2. Len(Selected)' = Len(Selected)
  BY <1>1
<1>3. ASSUME output' = output, output.kind = "previous", stage' # "persist",
             outcome' # "ok" \/ args.mode # "epub"
      PROVE  File'
  BY <1>1, <1>3 DEF File, OutputWaits, BookIsWhole
<1>4. outcome # "ok" \/ stage = "done"
  BY DEF OnCourse
<1>5. CASE Renew \/ ReaderPage \/ ChapterInfos \/ ChapterPage \/ Tar \/ NextChapter
  <2>1. stage # "done" /\ stage \in Before \union Fetching
    BY <1>5 DEF Renew, ReaderPage, ChapterInfos, ChapterPage, Tar, NextChapter, Before, Fetching
  <2>2. output.kind = "previous"
    BY <2>1 DEF File
  <2>3. output' = output /\ stage' # "persist" /\ outcome' # "ok"
    BY <1>4, <1>5, <2>1 DEF Renew, ReaderPage, ChapterInfos, ChapterPage, Tar, NextChapter,
       Broken, Fail, Go
  <2> QED
    BY <1>3, <2>2, <2>3
<1>6. CASE Report
  <2>1. output.kind = "previous" /\ args.mode # "epub"
    BY <1>6 DEF Report, Before, File, OnCourse
  <2>2. output' = output /\ stage' # "persist"
    BY <1>6 DEF Report, Broken, Fail
  <2> QED
    BY <1>3, <2>1, <2>2
<1>7. CASE Shard
  <2>1. output.kind = "previous" /\ output' = output /\ outcome # "ok"
    BY <1>4, <1>7 DEF Shard, Fetching, File
  <2>2. stage' # "persist" /\ outcome' # "ok"
    <3>1. CASE Broken \/ Fail
      BY <3>1 DEF Broken, Fail
    <3>2. ASSUME NEW a, AfterShard(stage, a)
          PROVE  stage' # "persist" /\ outcome' # "ok"
      <4>1. stage \in {"e_0", "e_1", "e_2", "e_3", "t_0", "t_1"}
        BY <1>7 DEF Shard
      <4>2. CASE stage = "e_0"
        BY <2>1, <3>2, <4>2 DEF AfterShard, Go
      <4>3. CASE stage \in {"e_1", "t_0"}
        BY <2>1, <3>2, <4>3 DEF AfterShard, Go
      <4>4. CASE stage \in {"e_3", "t_1"}
        BY <2>1, <3>2, <4>4 DEF AfterShard, Go, Fail
      <4>5. CASE stage = "e_2"
        BY <2>1, <3>2, <4>5 DEF AfterShard, Go
      <4> QED
        BY <4>1, <4>2, <4>3, <4>4, <4>5
    <3> QED
      BY <1>7, <3>1, <3>2 DEF Shard
  <2> QED
    BY <1>3, <2>1, <2>2
<1>8. CASE OpenOutput
  <2>1. Len(fetched) = Len(Selected) /\ fetched' = fetched
    BY <1>8 DEF OpenOutput, progress, Listing, Writing
  <2>2. stage' = "entries" /\ outcome' # "ok"
    BY <1>4, <1>8 DEF OpenOutput, Go
  <2> QED
    BY <1>1, <1>2, <2>1, <2>2 DEF File, OutputWaits, BookIsWhole, Before, Fetching
<1>9. CASE WriteEntries
  <2>1. Len(fetched) = Len(Selected) /\ fetched' = fetched
    BY <1>9 DEF WriteEntries, progress, Listing, Writing
  <2>2. stage' \in {"persist", "done"} /\ outcome' # "ok"
    BY <1>4, <1>9 DEF WriteEntries, Broken, Fail, Go
  <2>3. stage' = "persist" => WholeBook'
    BY <1>9, BookWritten
  <2> QED
    BY <1>1, <1>2, <2>1, <2>2, <2>3 DEF File, OutputWaits, BookIsWhole, Before, Fetching
<1>10. CASE Persist
  <2>1. Len(fetched) = Len(Selected) /\ fetched' = fetched /\ WholeBook
    BY <1>10 DEF Persist, progress, Listing, Writing, File
  <2>2. stage' = "done" /\ output' = output /\ cut' = cut
    BY <1>10 DEF Persist, Broken, Fail
  <2>3. WholeBook'
    BY <1>1, <1>2, <2>1, <2>2 DEF WholeBook
  <2> QED
    BY <1>1, <1>2, <2>1, <2>2, <2>3 DEF File, OutputWaits, BookIsWhole, Before, Fetching
<1>11. CASE Kill
  <2>1. fetched' = fetched /\ output' = output /\ stage' = "done" /\ outcome' # "ok"
    BY <1>11 DEF Kill, progress
  <2> QED
    BY <1>1, <1>2, <2>1 DEF File, OutputWaits, BookIsWhole, Before, Fetching
<1>12. CASE UNCHANGED vars
  <2>1. WholeBook' = WholeBook
    BY <1>1, <1>2, <1>12 DEF vars, WholeBook
  <2> QED
    BY <1>1, <1>2, <1>12, <2>1 DEF vars, run, progress, File, OutputWaits, BookIsWhole
<1> QED
  BY <1>5, <1>6, <1>7, <1>8, <1>9, <1>10, <1>11, <1>12 DEF Next

(*-------------------------------- theorems --------------------------------*)

LEMMA Start ==
    ASSUME Init
    PROVE  Course /\ Book
<1>1. args \in Arguments /\ format \in {"epub", "txt"} /\ stage \in {"renew", "page"}
  BY DEF Init, Arguments
<1>2. OnCourse
  BY <1>1 DEF Init, OnCourse, Before, Fetching, Writing
<1>3. Jar /\ CookiesAreKept /\ Said
  BY DEF Init, Jar, CookiesAreKept, Said
<1>4. fetched \in Seq(Range(fetched)) /\ Len(fetched) = 0
  BY EmptySeq DEF Init
<1>5. Listing
  BY <1>1, <1>4 DEF Init, Listing, Fetching, Writing
<1>6. AllKept
  BY <1>4 DEF AllKept
<1>7. Shards /\ InHand
  BY <1>1 DEF Init, Shards, InHand
<1>8. File
  BY <1>1 DEF Init, File, NoBook, OutputWaits, BookIsWhole
<1> QED
  BY <1>2, <1>3, <1>5, <1>6, <1>7, <1>8 DEF Course, Book

\* However the run goes: it is on the course its command line sets, the cookies are where
\* they should be, and what was posted is what the sources come to.
THEOREM CourseInvariance == Spec => []Course
<1>1. Init => Course
  BY Start
<1>2. Course /\ [Next]_vars => Course'
  BY OnCourseStep, CookiesStep, SaidStep DEF Course
<1> QED
  BY <1>1, <1>2, PTL DEF Spec

\* The renewed cookies are in the file before anything else can go wrong, and those of the
\* last answer when the run says "ok" (lines 286, 856 and 922).
THEOREM CookiesKept == Spec => []CookiesAreKept
<1>1. Course => CookiesAreKept
  BY DEF Course
<1> QED
  BY <1>1, CourseInvariance, PTL

\* The position posted is one that a source named as a whole (lines 806-831).
THEOREM PlaceReported == Spec => []ReportedIsAPlace
<1>1. Course => ReportedIsAPlace
  BY ReportedPlace DEF Course, OnCourse
<1> QED
  BY <1>1, CourseInvariance, PTL

\* Every chapter of the list is the one selected there, with its text and its images, and
\* the file is opened when all are there.
THEOREM BookInvariance == Spec => [](Course /\ Book)
<1>1. Init => Course /\ Book
  BY Start
<1>2. Course /\ Book /\ [Next]_vars => (Course /\ Book)'
  <2> SUFFICES ASSUME Course, Book, [Next]_vars
               PROVE  (Course /\ Book)'
    OBVIOUS
  <2>1. Course'
    BY OnCourseStep, CookiesStep, SaidStep DEF Course
  <2>2. OnCourse /\ Listing /\ AllKept /\ Shards /\ InHand /\ File
    BY DEF Course, Book
  <2>3. Listing' /\ AllKept' /\ Shards' /\ InHand' /\ File'
    BY <2>2, ListingStep, AllKeptStep, ShardsStep, InHandStep, FileStep
  <2> QED
    BY <2>1, <2>3 DEF Book
<1> QED
  BY <1>1, <1>2, PTL DEF Spec

\* "ok" is said of a whole book only, and the file of the last run stays until every chapter
\* is there (lines 895-926).
THEOREM BookIsThere == Spec => []OutputIsABook
<1>1. Course /\ Book => OutputIsABook
  BY DEF Book, File, OutputIsABook
<1> QED
  BY <1>1, BookInvariance, PTL

================================================================================
