---------------------------- MODULE BasicLemmas ---------------------------
(***************************************************************************)
(* What the proofs of several components need: induction over the naturals *)
(* in a form the installed provers can use (the induction theorems of the  *)
(* library take an operator as a parameter, these take the set of the      *)
(* naturals that have the property), and facts about sequences.            *)
(***************************************************************************)
EXTENDS Integers, FiniteSets, SequencesExt, TLAPS, WellFoundedInduction, FiniteSetTheorems

LessThan == {ss \in Nat \X Nat : ss[1] < ss[2]}

(* Every set of naturals with an element has a least one. *)
LEMMA LeastNatural ==
  ASSUME NEW T \in SUBSET Nat, T # {}
  PROVE  \E n \in T : \A m \in T : n <= m
<1>1. LessThan = OpToRel(<, Nat)
  BY Zenon DEF OpToRel, LessThan
<1>2. IsWellFoundedOn(LessThan, Nat)
  BY <1>1, NatLessThanWellFounded, Zenon
<1>3. PICK n \in T : \A m \in T : ~ (<<m, n>> \in LessThan)
  BY <1>2, WFMin
<1>4. \A x, y \in Nat : y < x => <<y, x>> \in LessThan
  BY Zenon DEF LessThan
<1>5. \A m \in T : ~ (m < n)
  BY <1>3, <1>4
<1>6. QED
  BY <1>5

(* Induction, with the property given as the set of naturals that have it. *)
LEMMA SetInduction ==
  ASSUME NEW S, 0 \in S, \A n \in Nat : n \in S => n + 1 \in S
  PROVE  Nat \subseteq S
<1>1. SUFFICES ASSUME Nat \ S # {}
               PROVE  FALSE
  OBVIOUS
<1>2. PICK n \in Nat \ S : \A m \in Nat \ S : n <= m
  BY <1>1, LeastNatural
<1>3. n - 1 \in Nat /\ n - 1 \in S
  BY <1>2
<1>4. QED
  BY <1>2, <1>3

(* Every set of integers with an element and a lower bound has a least one. *)
LEMMA LeastInteger ==
  ASSUME NEW T \in SUBSET Int, T # {}, NEW b \in Int, \A n \in T : b <= n
  PROVE  \E n \in T : \A m \in T : n <= m
<1> DEFINE S == {n \in Nat : b + n \in T}
<1>1. PICK x \in T : TRUE
  OBVIOUS
<1>2. x - b \in Nat /\ b + (x - b) \in T
  BY <1>1
<1>3. S # {}
  BY <1>2
<1>4. PICK n \in S : \A m \in S : n <= m
  BY <1>3, LeastNatural
<1>5. ASSUME NEW y \in T
      PROVE  b + n <= y
  <2>1. y - b \in Nat /\ b + (y - b) \in T
    OBVIOUS
  <2>2. y - b \in S
    BY <2>1
  <2>3. n <= y - b
    BY <1>4, <2>2
  <2>4. QED
    BY <1>4, <2>3
<1>6. QED
  BY <1>4, <1>5

----------------------------------------------------------------------------
(* Counting along a sequence that has no member twice. *)

(* A one-to-one function onto T counts it.                                 *)
LEMMA BijectionCounts ==
  ASSUME NEW S, NEW T, IsFiniteSet(S), NEW f \in [S -> T],
         \A x, y \in S : f[x] = f[y] => x = y,
         \A y \in T : \E x \in S : f[x] = y
  PROVE  IsFiniteSet(T) /\ Cardinality(T) = Cardinality(S)
<1>1. f \in Bijection(S, T)
  BY DEF Bijection, Injection, Surjection, IsInjective
<1>2. ExistsBijection(S, T)
  BY <1>1 DEF ExistsBijection
<1>3. QED
  BY <1>2, FS_Bijection

(* A sequence of the members of a finite set S, each once, has as many     *)
(* positions as S has members.                                             *)
LEMMA InjectiveSeqCounts ==
  ASSUME NEW X, NEW s \in Seq(X), IsInjective(s)
  PROVE  IsFiniteSet(Range(s)) /\ Cardinality(Range(s)) = Len(s)
<1>1. Len(s) \in Nat /\ DOMAIN s = 1 .. Len(s)
  OBVIOUS
<1>2. IsFiniteSet(1 .. Len(s)) /\ Cardinality(1 .. Len(s)) = Len(s)
  BY <1>1, FS_Interval
<1>3. s \in [1 .. Len(s) -> Range(s)]
  BY <1>1 DEF Range
<1>4. \A i, j \in 1 .. Len(s) : s[i] = s[j] => i = j
  BY <1>1 DEF IsInjective
<1>5. \A y \in Range(s) : \E i \in 1 .. Len(s) : s[i] = y
  BY <1>1 DEF Range
<1>6. QED
  BY <1>2, <1>3, <1>4, <1>5, BijectionCounts

(* An arrangement of a finite set, as SetToSeqs gives them, has all its    *)
(* members.                                                                *)
LEMMA ArrangementIsFull ==
  ASSUME NEW S, IsFiniteSet(S), NEW s \in SetToSeqs(S)
  PROVE  s \in Seq(S) /\ IsInjective(s) /\ Range(s) = S
<1>1. Cardinality(S) \in Nat
  BY FS_CardinalityType
<1>2. /\ s \in [1 .. Cardinality(S) -> S]
      /\ \A i, j \in 1 .. Cardinality(S) : i # j => s[i] # s[j]
  BY DEF SetToSeqs
<1>3. s \in Seq(S) /\ Len(s) = Cardinality(S)
  BY <1>1, <1>2
<1>4. IsInjective(s)
  BY <1>2 DEF IsInjective
<1>5. Cardinality(Range(s)) = Cardinality(S)
  BY <1>3, <1>4, InjectiveSeqCounts
<1>6. Range(s) \subseteq S
  BY <1>2 DEF Range
<1>7. QED
  BY <1>3, <1>4, <1>5, <1>6, FS_Subset

(* and the other way round. *)
LEMMA FullIsArrangement ==
  ASSUME NEW X, NEW s \in Seq(X), IsInjective(s)
  PROVE  IsFiniteSet(Range(s)) /\ s \in SetToSeqs(Range(s))
<1>1. IsFiniteSet(Range(s)) /\ Cardinality(Range(s)) = Len(s)
  BY InjectiveSeqCounts
<1>2. Len(s) \in Nat /\ DOMAIN s = 1 .. Len(s)
  OBVIOUS
<1>3. s \in [1 .. Len(s) -> Range(s)]
  BY <1>2 DEF Range
<1>4. \A i, j \in 1 .. Len(s) : i # j => s[i] # s[j]
  BY <1>2 DEF IsInjective
<1>5. QED
  BY <1>1, <1>3, <1>4 DEF SetToSeqs

----------------------------------------------------------------------------
(* What FlattenSeq returns. *)

FlatStep(seqs, f) ==
  [i \in 1 .. Len(seqs) |-> IF i = 1 THEN seqs[i] ELSE f[i - 1] \o seqs[i]]

Flat(seqs) == CHOOSE f : f = FlatStep(seqs, f)

(* FlattenSeq, with its recursive function named.                          *)
LEMMA FlattenIsFlat ==
  ASSUME NEW seqs, Len(seqs) # 0
  PROVE  FlattenSeq(seqs) = Flat(seqs)[Len(seqs)]
  BY Zenon DEF FlattenSeq, Flat, FlatStep

(* That function satisfies its equation,                                   *)
LEMMA FlatExists ==
  ASSUME NEW seqs, Len(seqs) \in Nat
  PROVE  Flat(seqs) = FlatStep(seqs, Flat(seqs))
<1> DEFINE Val(f, i) == IF i = 1 THEN seqs[i] ELSE f[i - 1] \o seqs[i]
<1> DEFINE Sol(n, f) == f = [i \in 1 .. n |-> Val(f, i)]
<1> DEFINE S == {n \in Nat : \E f : Sol(n, f)}
<1>1. 0 \in S
  <2>1. Sol(0, [i \in 1 .. 0 |-> <<>>])
    OBVIOUS
  <2>2. QED
    BY <2>1
<1>2. ASSUME NEW n \in Nat, n \in S
      PROVE  n + 1 \in S
  <2>1. PICK f : Sol(n, f)
    BY <1>2
  <2>2. \A i \in 1 .. n : f[i] = Val(f, i)
    BY <2>1
  <2> DEFINE g == [i \in 1 .. n + 1 |-> IF i <= n THEN f[i] ELSE Val(f, i)]
  <2>3. ASSUME NEW i \in 1 .. n + 1
        PROVE  g[i] = Val(g, i)
    <3>1. CASE i = 1
      BY <2>2, <3>1
    <3>2. CASE i \in 2 .. n + 1
      <4>1. g[i - 1] = f[i - 1]
        BY <3>2
      <4>2. g[i] = Val(f, i)
        BY <2>2, <3>2
      <4>3. QED
        BY <3>2, <4>1, <4>2
    <3>3. QED
      BY <3>1, <3>2
  <2>4. g = [i \in 1 .. n + 1 |-> g[i]]
    OBVIOUS
  <2> HIDE DEF g
  <2>5. Sol(n + 1, g)
    BY <2>3, <2>4
  <2> HIDE DEF Sol
  <2>6. \E h : Sol(n + 1, h)
    BY <2>5, Zenon
  <2>7. QED
    BY <2>6
<1>3. Nat \subseteq S
  <2> HIDE DEF S
  <2> QED
    BY <1>1, <1>2, SetInduction
<1>4. \E f : Sol(Len(seqs), f)
  <2> HIDE DEF Sol
  <2>1. Len(seqs) \in S
    BY <1>3, Zenon
  <2>2. QED
    BY <2>1, Zenon
<1>5. QED
  BY <1>4, Zenon DEF Flat, FlatStep

(* which gives its value at each index.                                    *)
LEMMA FlatEquation ==
  ASSUME NEW seqs, Len(seqs) \in Nat
  PROVE  \A i \in 1 .. Len(seqs) :
           Flat(seqs)[i] = IF i = 1 THEN seqs[i] ELSE Flat(seqs)[i - 1] \o seqs[i]
<1> DEFINE f == Flat(seqs)
           g == FlatStep(seqs, f)
<1>1. f = g
  BY FlatExists
<1> HIDE DEF f
<1>2. \A i \in 1 .. Len(seqs) : g[i] = IF i = 1 THEN seqs[i] ELSE f[i - 1] \o seqs[i]
  BY DEF FlatStep
<1> HIDE DEF g
<1>3. QED
  BY <1>1, <1>2 DEF f

(* A new element at the end repeats none.                                  *)
LEMMA AppendKeepsInjective ==
  ASSUME NEW X, NEW q \in Seq(X), IsInjective(q), NEW x \in X, x \notin Range(q)
  PROVE  IsInjective(Append(q, x))
<1>1. /\ DOMAIN q = 1 .. Len(q)
      /\ Len(q) \in Nat
      /\ DOMAIN Append(q, x) = 1 .. Len(q) + 1
      /\ \A i \in 1 .. Len(q) : Append(q, x)[i] = q[i]
      /\ Append(q, x)[Len(q) + 1] = x
  OBVIOUS
<1>2. \A i \in 1 .. Len(q) : q[i] # x
  BY <1>1 DEF Range
<1>3. QED
  BY <1>1, <1>2 DEF IsInjective

(* The head of a sequence and the rest of it.                              *)
LEMMA TailInjective ==
  ASSUME NEW X, NEW q \in Seq(X), IsInjective(q), q # <<>>
  PROVE  /\ Head(q) \in Range(q)
         /\ Tail(q) \in Seq(X)
         /\ IsInjective(Tail(q))
         /\ Range(Tail(q)) = Range(q) \ {Head(q)}
<1> DEFINE t == Tail(q)
           n == Len(q)
<1>1. /\ n \in Nat /\ n >= 1
      /\ DOMAIN q = 1 .. n
      /\ Head(q) = q[1]
      /\ t \in Seq(X)
      /\ DOMAIN t = 1 .. n - 1
      /\ \A i \in 1 .. n - 1 : t[i] = q[i + 1]
  OBVIOUS
<1> HIDE DEF t, n
<1>2. \A i, j \in 1 .. n : q[i] = q[j] => i = j
  BY <1>1 DEF IsInjective
<1>3. ASSUME NEW i \in 1 .. n - 1, NEW j \in 1 .. n - 1, t[i] = t[j]
      PROVE  i = j
  <2>1. i + 1 \in 1 .. n /\ j + 1 \in 1 .. n /\ q[i + 1] = q[j + 1]
    BY <1>1, <1>3
  <2>2. i + 1 = j + 1
    BY <1>2, <2>1
  <2>3. QED
    BY <2>2
<1>4. ASSUME NEW i \in 1 .. n - 1
      PROVE  t[i] \in Range(q) \ {q[1]}
  <2>1. i + 1 \in 1 .. n /\ 1 \in 1 .. n /\ i + 1 # 1
    BY <1>1
  <2>2. q[i + 1] # q[1] /\ q[i + 1] \in Range(q)
    BY <1>1, <1>2, <2>1 DEF Range
  <2>3. QED
    BY <1>1, <2>2
<1>5. ASSUME NEW i \in 1 .. n, q[i] # q[1]
      PROVE  q[i] \in Range(t)
  <2>1. i - 1 \in 1 .. n - 1 /\ t[i - 1] = q[i]
    BY <1>1, <1>5
  <2>2. QED
    BY <1>1, <2>1 DEF Range
<1>6. \A x : x \in Range(t) <=> x \in Range(q) \ {q[1]}
  <2>1. \A x : x \in Range(t) => \E i \in 1 .. n - 1 : x = t[i]
    BY <1>1 DEF Range
  <2>2. \A x : x \in Range(q) => \E i \in 1 .. n : x = q[i]
    BY <1>1 DEF Range
  <2>3. QED
    BY <1>4, <1>5, <2>1, <2>2
<1>7. 1 \in DOMAIN q
  BY <1>1
<1>8. QED
  BY <1>1, <1>3, <1>6, <1>7 DEF IsInjective, Range, t

(* One element written several times at the end of a sequence.             *)
LEMMA RepeatAppends ==
  ASSUME NEW X, NEW q \in Seq(X), NEW x \in X,
         NEW s \in Seq(X), \A i \in 1 .. Len(s) : s[i] = x,
         NEW r, r = q \o s
  PROVE  /\ r \in Seq(X)
         /\ Len(q) \in Nat /\ DOMAIN q = 1 .. Len(q) /\ DOMAIN r = 1 .. Len(q) + Len(s)
         /\ \A i \in DOMAIN q : r[i] = q[i]
         /\ \A i \in DOMAIN r \ DOMAIN q : r[i] = x
<1>1. /\ r \in Seq(X)
      /\ Len(q) \in Nat /\ DOMAIN q = 1 .. Len(q)
      /\ Len(s) \in Nat /\ DOMAIN r = 1 .. Len(q) + Len(s)
      /\ \A i \in 1 .. Len(q) : r[i] = q[i]
      /\ \A i \in (Len(q) + 1) .. (Len(q) + Len(s)) : r[i] = s[i - Len(q)]
  OBVIOUS
<1>2. \A i \in DOMAIN r \ DOMAIN q :
        i \in (Len(q) + 1) .. (Len(q) + Len(s)) /\ i - Len(q) \in 1 .. Len(s)
  BY <1>1
<1>3. QED
  BY <1>1, <1>2

(* Two sequences with nothing in common, one after the other.              *)
LEMMA ConcatInjective ==
  ASSUME NEW X, NEW s \in Seq(X), NEW t \in Seq(X), IsInjective(s), IsInjective(t),
         Range(s) \cap Range(t) = {}
  PROVE  /\ s \o t \in Seq(X)
         /\ IsInjective(s \o t)
         /\ Range(s \o t) = Range(s) \cup Range(t)
<1> DEFINE u == s \o t
           n == Len(s)
           m == Len(t)
<1>1. /\ n \in Nat /\ m \in Nat
      /\ DOMAIN s = 1 .. n /\ DOMAIN t = 1 .. m
      /\ u \in Seq(X)
      /\ DOMAIN u = 1 .. n + m
      /\ \A i \in 1 .. n : u[i] = s[i]
      /\ \A i \in 1 .. n + m : i > n => u[i] = t[i - n]
      /\ \A i \in 1 .. m : u[n + i] = t[i]
  OBVIOUS
<1> HIDE DEF u, n, m
<1>2. \A i \in 1 .. n : s[i] \in Range(s)
  BY <1>1 DEF Range
<1>3. \A i \in 1 .. m : t[i] \in Range(t)
  BY <1>1 DEF Range
<1>4. ASSUME NEW i \in DOMAIN u, NEW j \in DOMAIN u, u[i] = u[j]
      PROVE  i = j
  <2>1. CASE i <= n /\ j <= n
    <3>1. i \in 1 .. n /\ j \in 1 .. n /\ s[i] = s[j]
      BY <1>1, <1>4, <2>1
    <3>2. QED
      BY <1>1, <3>1 DEF IsInjective
  <2>2. CASE i > n /\ j > n
    <3>1. i - n \in 1 .. m /\ j - n \in 1 .. m /\ t[i - n] = t[j - n]
      BY <1>1, <1>4, <2>2
    <3>2. i - n = j - n
      BY <1>1, <3>1 DEF IsInjective
    <3>3. QED
      BY <1>1, <3>2
  <2>3. CASE i <= n /\ j > n
    <3>1. i \in 1 .. n /\ j - n \in 1 .. m /\ s[i] = t[j - n]
      BY <1>1, <1>4, <2>3
    <3>2. QED
      BY <1>2, <1>3, <3>1
  <2>4. CASE i > n /\ j <= n
    <3>1. j \in 1 .. n /\ i - n \in 1 .. m /\ s[j] = t[i - n]
      BY <1>1, <1>4, <2>4
    <3>2. QED
      BY <1>2, <1>3, <3>1
  <2>5. QED
    BY <1>1, <2>1, <2>2, <2>3, <2>4
<1>5. IsInjective(u)
  BY <1>4 DEF IsInjective
<1>6. ASSUME NEW x
      PROVE  x \in Range(u) <=> x \in Range(s) \cup Range(t)
  <2>1. x \in Range(u) => x \in Range(s) \cup Range(t)
    <3>1. SUFFICES ASSUME NEW i \in 1 .. n + m, x = u[i]
                   PROVE  x \in Range(s) \cup Range(t)
      BY <1>1 DEF Range
    <3>2. CASE i <= n
      BY <1>1, <1>2, <3>1, <3>2
    <3>3. CASE i > n
      <4>1. i - n \in 1 .. m /\ x = t[i - n]
        BY <1>1, <3>1, <3>3
      <4>2. QED
        BY <1>3, <4>1
    <3>4. QED
      BY <1>1, <3>2, <3>3
  <2>2. ASSUME x \in Range(s)
        PROVE  x \in Range(u)
    <3>1. PICK i \in 1 .. n : x = s[i]
      BY <1>1, <2>2 DEF Range
    <3>2. i \in DOMAIN u /\ u[i] = x
      BY <1>1, <3>1
    <3>3. QED
      BY <3>2 DEF Range
  <2>3. ASSUME x \in Range(t)
        PROVE  x \in Range(u)
    <3>1. PICK i \in 1 .. m : x = t[i]
      BY <1>1, <2>3 DEF Range
    <3>2. n + i \in DOMAIN u /\ u[n + i] = x
      BY <1>1, <3>1
    <3>3. QED
      BY <3>2 DEF Range
  <2>4. QED
    BY <2>1, <2>2, <2>3
<1>7. QED
  BY <1>1, <1>5, <1>6 DEF u

(* Flattening sequences that share no member and have none twice gives     *)
(* all their members, each once.                                           *)
LEMMA FlattenInjective ==
  ASSUME NEW X, NEW seqs \in Seq(Seq(X)),
         \A i \in DOMAIN seqs : IsInjective(seqs[i]),
         \A i, j \in DOMAIN seqs : i # j => Range(seqs[i]) \cap Range(seqs[j]) = {}
  PROVE  /\ FlattenSeq(seqs) \in Seq(X)
         /\ IsInjective(FlattenSeq(seqs))
         /\ Range(FlattenSeq(seqs)) = UNION {Range(seqs[i]) : i \in DOMAIN seqs}
<1>1. Len(seqs) \in Nat /\ DOMAIN seqs = 1 .. Len(seqs)
  OBVIOUS
<1>2. CASE Len(seqs) = 0
  <2>1. seqs = <<>> /\ DOMAIN seqs = {}
    BY <1>1, <1>2
  <2>2. FlattenSeq(seqs) = seqs
    BY <1>2 DEF FlattenSeq
  <2>3. <<>> \in Seq(X) /\ IsInjective(<<>>) /\ Range(<<>>) = {}
    BY DEF IsInjective, Range
  <2>4. UNION {Range(seqs[i]) : i \in DOMAIN seqs} = {}
    BY <2>1
  <2>5. FlattenSeq(seqs) = <<>>
    BY <2>1, <2>2
  <2>6. QED
    BY <2>3, <2>4, <2>5
<1>3. CASE Len(seqs) # 0
  <2> DEFINE f == Flat(seqs)
             P(n) == /\ f[n] \in Seq(X)
                     /\ IsInjective(f[n])
                     /\ \A x : x \in Range(f[n]) <=> \E i \in 1 .. n : x \in Range(seqs[i])
             S == {n \in Nat : n + 1 <= Len(seqs) => P(n + 1)}
  <2>1. \A i \in 1 .. Len(seqs) : f[i] = IF i = 1 THEN seqs[i] ELSE f[i - 1] \o seqs[i]
    BY <1>1, FlatEquation
  <2> HIDE DEF f
  <2>2. \A i \in 1 .. Len(seqs) : seqs[i] \in Seq(X) /\ IsInjective(seqs[i])
    <3>1. ASSUME NEW i \in 1 .. Len(seqs)
          PROVE  seqs[i] \in Seq(X)
      OBVIOUS
    <3>2. QED
      BY <1>1, <3>1
  <2>3. 0 \in S
    <3>1. 1 \in 1 .. Len(seqs) /\ f[1] = seqs[1]
      BY <1>1, <1>3, <2>1
    <3>2. P(1)
      BY <2>2, <3>1
    <3>3. QED
      BY <3>2
  <2>4. ASSUME NEW n \in Nat, n \in S
        PROVE  n + 1 \in S
    <3>1. SUFFICES ASSUME n + 2 <= Len(seqs)
                   PROVE  P(n + 2)
      <4>1. (n + 1) + 1 = n + 2
        OBVIOUS
      <4>2. QED
        BY <4>1
    <3>2. P(n + 1)
      BY <1>1, <2>4, <3>1
    <3>3. f[n + 2] = f[n + 1] \o seqs[n + 2] /\ n + 2 \in 1 .. Len(seqs)
      <4>1. n + 2 \in 1 .. Len(seqs) /\ n + 2 # 1 /\ (n + 2) - 1 = n + 1
        BY <1>1, <3>1
      <4>2. QED
        BY <2>1, <4>1
    <3>4. seqs[n + 2] \in Seq(X) /\ IsInjective(seqs[n + 2])
      BY <2>2, <3>3
    <3>5. Range(f[n + 1]) \cap Range(seqs[n + 2]) = {}
      <4>1. ASSUME NEW i \in 1 .. n + 1
            PROVE  Range(seqs[i]) \cap Range(seqs[n + 2]) = {}
        <5>1. i \in DOMAIN seqs /\ n + 2 \in DOMAIN seqs /\ i # n + 2
          BY <1>1, <3>1
        <5>2. QED
          BY <5>1
      <4>2. QED
        BY <3>2, <4>1
    <3>6. /\ f[n + 2] \in Seq(X)
          /\ IsInjective(f[n + 2])
          /\ Range(f[n + 2]) = Range(f[n + 1]) \cup Range(seqs[n + 2])
      BY <3>2, <3>3, <3>4, <3>5, ConcatInjective
    <3>7. 1 .. n + 2 = (1 .. n + 1) \cup {n + 2}
      OBVIOUS
    <3>8. ASSUME NEW x
          PROVE  x \in Range(f[n + 2]) <=> \E i \in 1 .. n + 2 : x \in Range(seqs[i])
      BY <3>2, <3>6, <3>7
    <3>9. QED
      BY <3>6, <3>8
  <2>5. Nat \subseteq S
    <3> HIDE DEF S
    <3> QED
      BY <2>3, <2>4, SetInduction
  <2>6. P(Len(seqs))
    <3>1. Len(seqs) - 1 \in Nat /\ (Len(seqs) - 1) + 1 = Len(seqs)
      BY <1>1, <1>3
    <3>2. Len(seqs) - 1 \in S
      BY <2>5, <3>1
    <3>3. QED
      BY <1>1, <3>1, <3>2
  <2>7. Range(f[Len(seqs)]) = UNION {Range(seqs[i]) : i \in DOMAIN seqs}
    BY <1>1, <2>6
  <2>8. QED
    BY <1>3, <2>6, <2>7, FlattenIsFlat DEF f
<1>4. QED
  BY <1>2, <1>3

----------------------------------------------------------------------------
(* Where the members of the flattened sequences are. *)
Offset(seqs) ==
  [k \in 1 .. Len(seqs) + 1 |-> IF k = 1 THEN 0 ELSE Len(Flat(seqs)[k - 1])]

Laid(seqs, n, off, r) ==
  /\ off[1] = 0 /\ Len(r) = off[n + 1]
  /\ \A k \in 1 .. n + 1 : off[k] \in Nat
  /\ \A k \in 1 .. n : off[k + 1] = off[k] + Len(seqs[k])
  /\ \A k \in 1 .. n : \A j \in 1 .. Len(seqs[k]) :
       off[k] + j \in 1 .. Len(r) /\ r[off[k] + j] = seqs[k][j]

(* Where the members of two sequences are in their concatenation.          *)
LEMMA ConcatPositions ==
  ASSUME NEW X, NEW s \in Seq(X), NEW t \in Seq(X), NEW r, r = s \o t
  PROVE  /\ r \in Seq(X) /\ Len(s) \in Nat /\ Len(t) \in Nat /\ Len(r) = Len(s) + Len(t)
         /\ \A i \in 1 .. Len(s) : r[i] = s[i]
         /\ \A j \in 1 .. Len(t) : r[Len(s) + j] = t[j]
<1>1. r \in Seq(X) /\ Len(s) \in Nat /\ Len(t) \in Nat /\ Len(r) = Len(s) + Len(t)
  OBVIOUS
<1>2. \A i \in 1 .. Len(s) + Len(t) : r[i] = IF i <= Len(s) THEN s[i] ELSE t[i - Len(s)]
  OBVIOUS
<1>3. ASSUME NEW j \in 1 .. Len(t)
      PROVE  r[Len(s) + j] = t[j]
  <2>1. Len(s) + j \in 1 .. Len(s) + Len(t) /\ ~(Len(s) + j <= Len(s)) /\ (Len(s) + j) - Len(s) = j
    BY <1>1
  <2>2. QED
    BY <1>2, <2>1
<1>4. QED
  BY <1>1, <1>2, <1>3

(* The k-th sequence begins after the ones before it.                      *)
LEMMA FlattenOffsets ==
  ASSUME NEW X, NEW seqs \in Seq(Seq(X)), NEW n, n = Len(seqs),
         NEW off, off = Offset(seqs), NEW r, r = FlattenSeq(seqs)
  PROVE  n \in Nat /\ r \in Seq(X) /\ Laid(seqs, n, off, r)
<1> DEFINE f == Flat(seqs)
<1>1. n \in Nat /\ DOMAIN seqs = 1 .. n
  OBVIOUS
<1>2. \A k \in 1 .. n : seqs[k] \in Seq(X) /\ Len(seqs[k]) \in Nat
  <2>1. ASSUME NEW k \in 1 .. n
        PROVE  seqs[k] \in Seq(X)
    BY <1>1, <2>1
  <2>2. QED
    BY <2>1
<1>3. \A k \in 1 .. n : f[k] = IF k = 1 THEN seqs[k] ELSE f[k - 1] \o seqs[k]
  BY <1>1, FlatEquation
<1>4. off = [k \in 1 .. n + 1 |-> IF k = 1 THEN 0 ELSE Len(f[k - 1])]
  BY DEF Offset
<1> HIDE DEF f
<1>5. off[1] = 0 /\ \A k \in 1 .. n : off[k + 1] = Len(f[k])
  <2>1. 1 \in 1 .. n + 1 /\ off[1] = 0
    BY <1>1, <1>4
  <2>2. ASSUME NEW k \in 1 .. n
        PROVE  off[k + 1] = Len(f[k])
    <3>1. k + 1 \in 1 .. n + 1 /\ k + 1 # 1 /\ (k + 1) - 1 = k
      BY <1>1
    <3>2. QED
      BY <1>4, <3>1
  <2>3. QED
    BY <2>1, <2>2
<1> DEFINE P(m) == /\ f[m] \in Seq(X)
                   /\ off[m + 1] = off[m] + Len(seqs[m])
                   /\ off[m] \in Nat
                   /\ \A k \in 1 .. m : off[k] + Len(seqs[k]) <= off[m + 1]
                   /\ \A k \in 1 .. m : \A j \in 1 .. Len(seqs[k]) :
                        f[m][off[k] + j] = seqs[k][j]
           S == {m \in Nat : m + 1 <= n => \A i \in 1 .. m + 1 : P(i)}
<1>6. 0 \in S
  <2>1. SUFFICES ASSUME 1 <= n
                 PROVE  P(1)
    <3>1. 1 .. 0 + 1 = {1}
      OBVIOUS
    <3>2. QED
      BY <3>1
  <2>2. 1 \in 1 .. n
    BY <1>1, <2>1
  <2>3. f[1] = seqs[1] /\ seqs[1] \in Seq(X) /\ Len(seqs[1]) \in Nat /\ off[1 + 1] = Len(seqs[1])
    BY <1>2, <1>3, <1>5, <2>2
  <2>4. \A k \in 1 .. 1 : k = 1
    OBVIOUS
  <2>5. \A j \in 1 .. Len(seqs[1]) : off[1] + j = j
    BY <1>5, <2>3
  <2>6. QED
    BY <1>5, <2>3, <2>4, <2>5
<1>7. ASSUME NEW m \in Nat, m \in S
      PROVE  m + 1 \in S
  <2>1. SUFFICES ASSUME m + 2 <= n
                 PROVE  P(m + 2)
    <3>1. (m + 1) + 1 = m + 2 /\ 1 .. m + 2 = (1 .. m + 1) \cup {m + 2}
      OBVIOUS
    <3> HIDE DEF P
    <3>2. m + 1 <= n => \A i \in 1 .. m + 1 : P(i)
      BY <1>7
    <3>3. m + 2 <= n => m + 1 <= n
      BY <1>1
    <3>4. QED
      BY <3>1, <3>2, <3>3
  <2>2. P(m + 1)
    <3>1. m + 1 <= n /\ m + 1 \in 1 .. m + 1
      BY <1>1, <2>1
    <3> HIDE DEF P
    <3>2. QED
      BY <1>7, <3>1
  <2>3. m + 2 \in 1 .. n /\ m + 1 \in 1 .. n /\ m + 2 # 1 /\ (m + 2) - 1 = m + 1
    BY <1>1, <2>1
  <2>4. f[m + 2] = f[m + 1] \o seqs[m + 2]
    BY <1>3, <2>3
  <2>5. f[m + 1] \in Seq(X) /\ seqs[m + 2] \in Seq(X)
    BY <1>2, <2>2, <2>3
  <2>6. /\ f[m + 2] \in Seq(X)
        /\ Len(f[m + 2]) = Len(f[m + 1]) + Len(seqs[m + 2])
        /\ Len(f[m + 1]) \in Nat /\ Len(seqs[m + 2]) \in Nat
        /\ \A i \in 1 .. Len(f[m + 1]) : f[m + 2][i] = f[m + 1][i]
        /\ \A j \in 1 .. Len(seqs[m + 2]) : f[m + 2][Len(f[m + 1]) + j] = seqs[m + 2][j]
    <3> DEFINE u == f[m + 1]
               v == seqs[m + 2]
               w == f[m + 2]
    <3>1. u \in Seq(X) /\ v \in Seq(X) /\ w = u \o v
      BY <2>4, <2>5
    <3> HIDE DEF u, v, w
    <3>2. /\ w \in Seq(X) /\ Len(u) \in Nat /\ Len(v) \in Nat /\ Len(w) = Len(u) + Len(v)
          /\ \A i \in 1 .. Len(u) : w[i] = u[i]
          /\ \A j \in 1 .. Len(v) : w[Len(u) + j] = v[j]
      BY <3>1, ConcatPositions
    <3>3. QED
      BY <3>2 DEF u, v, w
  <2>7. off[m + 2] = Len(f[m + 1]) /\ off[(m + 2) + 1] = Len(f[m + 2]) /\ (m + 1) + 1 = m + 2
    BY <1>5, <2>3
  <2>8. \A k \in 1 .. m + 2 : k \in 1 .. m + 1 \/ k = m + 2
    OBVIOUS
  <2>9. \A k \in 1 .. m + 1 : off[k] \in Nat /\ Len(seqs[k]) \in Nat
    <3>1. ASSUME NEW k \in 1 .. m + 1
          PROVE  off[k] \in Nat /\ Len(seqs[k]) \in Nat
      <4>1. m + 1 <= n /\ k \in 1 .. n
        BY <1>1, <2>1
      <4>2. P(k)
        <5> HIDE DEF P
        <5>1. QED
          BY <1>7, <4>1
      <4>3. QED
        BY <1>2, <4>1, <4>2
    <3>2. QED
      BY <3>1
  <2>10. ASSUME NEW k \in 1 .. m + 1, NEW j \in 1 .. Len(seqs[k])
         PROVE  f[m + 2][off[k] + j] = seqs[k][j]
    <3>1. off[k] + Len(seqs[k]) <= Len(f[m + 1])
      BY <2>2, <2>7
    <3>2. off[k] + j \in 1 .. Len(f[m + 1])
      <4> DEFINE o == off[k]
                 l == Len(seqs[k])
                 u == Len(f[m + 1])
      <4>1. o \in Nat /\ l \in Nat /\ u \in Nat /\ o + l <= u /\ j \in 1 .. l
        BY <2>6, <2>9, <3>1
      <4> HIDE DEF o, l, u
      <4>2. o + j \in 1 .. u
        BY <4>1
      <4>3. QED
        BY <4>2 DEF o, u
    <3>3. f[m + 1][off[k] + j] = seqs[k][j]
      BY <2>2
    <3>4. QED
      BY <2>6, <3>2, <3>3
  <2>11. \A k \in 1 .. m + 2 : off[k] + Len(seqs[k]) <= off[(m + 2) + 1]
    <3>1. ASSUME NEW k \in 1 .. m + 1
          PROVE  off[k] + Len(seqs[k]) <= off[(m + 2) + 1]
      <4>1. off[k] + Len(seqs[k]) <= Len(f[m + 1])
        BY <2>2, <2>7
      <4>2. QED
        <5>1. off[k] \in Nat /\ Len(seqs[k]) \in Nat
          BY <2>9
        <5>2. /\ Len(f[m + 1]) \in Nat /\ Len(seqs[m + 2]) \in Nat
              /\ Len(f[m + 2]) = Len(f[m + 1]) + Len(seqs[m + 2])
          BY <2>6
        <5>3. off[(m + 2) + 1] = Len(f[m + 2])
          BY <2>7
        <5> DEFINE a == off[k]
                   b == Len(seqs[k])
                   c == Len(f[m + 1])
                   d == Len(seqs[m + 2])
                   e == off[(m + 2) + 1]
        <5>4. a \in Nat /\ b \in Nat /\ c \in Nat /\ d \in Nat /\ a + b <= c /\ e = c + d
          BY <4>1, <5>1, <5>2, <5>3
        <5> HIDE DEF a, b, c, d, e
        <5>5. a + b <= e
          BY <5>4
        <5>6. QED
          BY <5>5 DEF a, b, e
    <3>2. off[m + 2] + Len(seqs[m + 2]) <= off[(m + 2) + 1]
      BY <2>6, <2>7
    <3>3. QED
      BY <2>8, <3>1, <3>2
  <2>12. \A k \in 1 .. m + 2 : \A j \in 1 .. Len(seqs[k]) : f[m + 2][off[k] + j] = seqs[k][j]
    BY <2>6, <2>7, <2>8, <2>10
  <2>13. QED
    BY <2>6, <2>7, <2>11, <2>12
<1>8. Nat \subseteq S
  <2> HIDE DEF S
  <2>1. QED
    BY <1>6, <1>7, SetInduction
<1> HIDE DEF P
<1>9. \A i \in 1 .. n : P(i)
  <2>1. ASSUME NEW i \in 1 .. n
        PROVE  P(i)
    <3>1. n - 1 \in Nat /\ (n - 1) + 1 = n
      BY <1>1
    <3>2. n - 1 \in S
      BY <1>8, <3>1
    <3>3. QED
      BY <1>1, <3>1, <3>2
  <2>2. QED
    BY <2>1
<1>10. CASE n = 0
  <2>1. seqs = <<>> /\ Len(seqs) = 0
    BY <1>1, <1>10
  <2>2. r = <<>>
    BY <2>1 DEF FlattenSeq
  <2>3. QED
    BY <1>5, <1>10, <2>2 DEF Laid
<1>11. CASE n # 0
  <2>1. r = f[n] /\ n \in 1 .. n
    BY <1>1, <1>11, FlattenIsFlat DEF f
  <2>2. P(n)
    BY <1>9, <2>1
  <2>3. r \in Seq(X) /\ Len(r) = off[n + 1] /\ Len(r) \in Nat
    BY <1>5, <2>1, <2>2 DEF P
  <2>4. \A k \in 1 .. n : off[k] \in Nat /\ off[k + 1] = off[k] + Len(seqs[k])
    BY <1>9 DEF P
  <2>5. \A k \in 1 .. n + 1 : off[k] \in Nat
    <3>1. \A k \in 1 .. n + 1 : k \in 1 .. n \/ k = n + 1
      BY <1>1
    <3>2. off[n + 1] \in Nat
      BY <2>3
    <3>3. QED
      BY <2>4, <3>1, <3>2
  <2>6. ASSUME NEW k \in 1 .. n, NEW j \in 1 .. Len(seqs[k])
        PROVE  off[k] + j \in 1 .. Len(r) /\ r[off[k] + j] = seqs[k][j]
    <3>1. /\ off[k] + Len(seqs[k]) <= off[n + 1]
          /\ f[n][off[k] + j] = seqs[k][j]
      BY <2>2 DEF P
    <3>2. /\ off[k] \in Nat /\ off[n + 1] \in Nat /\ Len(seqs[k]) \in Nat
          /\ off[n + 1] = Len(r) /\ j \in 1 .. Len(seqs[k])
      BY <1>2, <2>3, <2>4
    <3>3. off[k] + j \in 1 .. Len(r)
      BY ONLY <3>1, <3>2
    <3>4. QED
      BY <2>1, <3>1, <3>3
  <2>7. QED
    BY <1>1, <1>5, <2>3, <2>4, <2>5, <2>6 DEF Laid
<1>12. QED
  BY <1>10, <1>11

(* Sequences of one width begin at its multiples.                          *)
LEMMA EvenOffsets ==
  ASSUME NEW n \in Nat, NEW off, off[1] = 0,
         \A k \in 1 .. n : off[k + 1] = off[k] + 3
  PROVE  \A k \in 1 .. n + 1 : off[k] = 3 * (k - 1)
<1> DEFINE S == {m \in Nat : m <= n => off[m + 1] = 3 * m}
<1>1. 0 \in S
  OBVIOUS
<1>2. ASSUME NEW m \in Nat, m \in S
      PROVE  m + 1 \in S
  <2>1. SUFFICES ASSUME m + 1 <= n
                 PROVE  off[(m + 1) + 1] = 3 * (m + 1)
    OBVIOUS
  <2>2. m + 1 \in 1 .. n /\ off[m + 1] = 3 * m
    BY <1>2, <2>1
  <2>3. QED
    BY <2>2
<1>3. Nat \subseteq S
  <2> HIDE DEF S
  <2>1. QED
    BY <1>1, <1>2, SetInduction
<1>4. ASSUME NEW k \in 1 .. n + 1
      PROVE  off[k] = 3 * (k - 1)
  <2>1. k - 1 \in Nat /\ k - 1 <= n /\ (k - 1) + 1 = k
    OBVIOUS
  <2>2. k - 1 \in S
    BY <1>3, <2>1
  <2>3. QED
    BY <2>1, <2>2
<1>5. QED
  BY <1>4

----------------------------------------------------------------------------
(* Recursion over numbers. *)

(* f is the sequence of n states after the first, each made from the one   *)
(* before it.                                                              *)
Follows(D, n, start, step, f) ==
  /\ f \in [0 .. n -> D]
  /\ f[0] = start
  /\ \A k \in 1 .. n : f[k] = step[k][f[k - 1]]

(* There is one.                                                           *)
LEMMA RecursionExists ==
  ASSUME NEW D, NEW n \in Nat, NEW start \in D, NEW step \in [1 .. n -> [D -> D]]
  PROVE  \E f : Follows(D, n, start, step, f)
<1> DEFINE Sol(m, f) == f[0] = start /\ \A k \in 1 .. m : f[k] = step[k][f[k - 1]]
           S == {m \in Nat : m <= n => \E f \in [0 .. m -> D] : Sol(m, f)}
<1>1. 0 \in S
  <2> DEFINE f == [k \in 0 .. 0 |-> start]
  <2>1. f \in [0 .. 0 -> D] /\ Sol(0, f)
    OBVIOUS
  <2>2. QED
    BY <2>1
<1>2. ASSUME NEW m \in Nat, m \in S
      PROVE  m + 1 \in S
  <2>1. SUFFICES ASSUME m + 1 <= n
                 PROVE  \E f \in [0 .. m + 1 -> D] : Sol(m + 1, f)
    OBVIOUS
  <2>2. PICK f \in [0 .. m -> D] : Sol(m, f)
    BY <1>2, <2>1
  <2> DEFINE new == step[m + 1][f[m]]
             g == [k \in 0 .. m + 1 |-> IF k = m + 1 THEN new ELSE f[k]]
  <2>3. new \in D
    <3>1. m \in 0 .. m /\ m + 1 \in 1 .. n
      BY <2>1
    <3>2. f[m] \in D /\ step[m + 1] \in [D -> D]
      BY <3>1
    <3>3. QED
      BY <3>2
  <2>4. \A k \in 0 .. m : f[k] \in D
    OBVIOUS
  <2> HIDE DEF new
  <2>5. g \in [0 .. m + 1 -> D]
    BY <2>3, <2>4
  <2>6. g[0] = start /\ g[m + 1] = new /\ \A k \in 0 .. m : g[k] = f[k]
    BY <2>2
  <2> HIDE DEF g
  <2>7. ASSUME NEW k \in 1 .. m + 1
        PROVE  g[k] = step[k][g[k - 1]]
    <3>1. CASE k = m + 1
      <4>1. g[k - 1] = f[m]
        BY <2>6, <3>1
      <4>2. QED
        BY <2>6, <3>1, <4>1 DEF new
    <3>2. CASE k \in 1 .. m
      <4>1. g[k] = f[k] /\ g[k - 1] = f[k - 1]
        BY <2>6, <3>2
      <4>2. QED
        BY <2>2, <3>2, <4>1
    <3>3. QED
      BY <3>1, <3>2
  <2>8. Sol(m + 1, g)
    BY <2>6, <2>7
  <2> HIDE DEF Sol
  <2>9. QED
    BY <2>5, <2>8
<1>3. Nat \subseteq S
  <2> HIDE DEF S
  <2>1. QED
    BY <1>1, <1>2, SetInduction
<1>4. QED
  BY <1>3 DEF Follows

============================================================================
