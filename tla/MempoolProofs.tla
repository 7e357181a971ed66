---------------------------- MODULE MempoolProofs ----------------------------
(***************************************************************************)
(* Proofs about MempoolGate: what the gate pushes, and the scores it gives *)
(* to senders. GateInv is the inductive invariant. A line of the pending   *)
(* feed may hold several calls, so a step of it is an induction over them  *)
(* (PassStep, PassedOK); the scores are compared with sums over the        *)
(* proposals that landed (SumGain, SumGrows).                              *)
(***************************************************************************)
EXTENDS MempoolGate, FiniteSetTheorems, FunctionTheorems, WellFoundedInduction, TLAPS

-----------------------------------------------------------------------------
(* Induction *)

\* Every set of naturals that is not empty has a least element.
LEMMA LeastNat ==
  ASSUME NEW T, T \subseteq Nat, T # {}
  PROVE  \E x \in T : \A y \in T : x <= y
<1> DEFINE R == OpToRel(<, Nat)
<1>1. IsWellFoundedOn(R, Nat)
  BY NatLessThanWellFounded
<1>2. \A x, y \in Nat : x < y => <<x, y>> \in R
  BY DEF OpToRel
<1> HIDE DEF R
<1>3. PICK x \in T : \A y \in T : ~(<<y, x>> \in R)
  BY <1>1, WFMin
<1>4. \A y \in T : ~(y < x)
  BY <1>2, <1>3, Zenon
<1>5. \A y \in T : x <= y
  BY <1>4
<1> QED BY <1>5

\* What holds at 0 and passes from n to n + 1 holds of every n up to m.
LEMMA UptoInduction ==
  ASSUME NEW m \in Nat, NEW S, 0 \in S, \A n \in Nat : n < m /\ n \in S => n + 1 \in S
  PROVE  m \in S
<1> DEFINE T == (0..m) \ S
<1> SUFFICES ASSUME T # {} PROVE FALSE
  OBVIOUS
<1>0. T \subseteq Nat
  OBVIOUS
<1>1. PICK x \in T : \A y \in T : x <= y
  <2> HIDE DEF T
  <2> QED BY <1>0, LeastNat
<1>2. x - 1 \in Nat /\ x - 1 < m /\ x - 1 \in S /\ (x - 1) + 1 = x
  BY <1>1
<1> QED BY <1>1, <1>2

\* The least of some naturals, and the greater of two numbers.
LEMMA MinNat ==
  ASSUME NEW T, T \subseteq Nat, T # {}
  PROVE  Min(T) \in T /\ \A y \in T : Min(T) <= y
  BY LeastNat DEF Min

LEMMA MaxTwo ==
  ASSUME NEW a \in Int, NEW b \in Int
  PROVE  Max({a, b}) = IF a >= b THEN a ELSE b
  BY DEF Max

-----------------------------------------------------------------------------
(* Sums *)

One(s) == CHOOSE x \in s : TRUE
Small(L, n) == {s \in SUBSET L : Cardinality(s) <= n}
SumStep(F, f, s) == IF s = {} THEN 0 ELSE F[One(s)] + f[s \ {One(s)}]
Sums(F, f, L) == f = [s \in SUBSET L |-> SumStep(F, f, s)]
Additive(F, f, L) ==
  /\ \A s \in SUBSET L : f[s] \in Nat /\ SumFunctionOnSet(F, s) = f[s]
  /\ f[{}] = 0
  /\ \A s \in SUBSET L : \A x \in s : f[s] = F[x] + f[s \ {x}]

\* The subsets of a finite set, by their size.
LEMMA SmallSets ==
  ASSUME NEW L, IsFiniteSet(L)
  PROVE  /\ \A s \in SUBSET L : IsFiniteSet(s) /\ Cardinality(s) \in Nat
         /\ \A s \in SUBSET L : s # {} => One(s) \in s
         /\ \A s \in SUBSET L : \A x \in s :
              /\ s \ {x} \in SUBSET L /\ Cardinality(s) > 0
              /\ Cardinality(s \ {x}) = Cardinality(s) - 1
         /\ Small(L, 0) = {{}} /\ Small(L, Cardinality(L)) = SUBSET L
<1>1. \A s \in SUBSET L : IsFiniteSet(s) /\ Cardinality(s) \in Nat
  BY FS_Subset, FS_CardinalityType
<1>2. \A s \in SUBSET L : s # {} => One(s) \in s
  BY DEF One
<1>3. ASSUME NEW s \in SUBSET L, NEW x \in s
      PROVE  /\ s \ {x} \in SUBSET L /\ Cardinality(s) > 0
             /\ Cardinality(s \ {x}) = Cardinality(s) - 1
  <2>1. Cardinality(s \ {x}) = Cardinality(s) - 1
    BY <1>1, FS_RemoveElement
  <2>2. Cardinality(s) # 0
    BY <1>1, FS_EmptySet
  <2> QED BY <1>1, <2>1, <2>2
<1>4. Small(L, 0) = {{}}
  <2>1. \A s \in SUBSET L : Cardinality(s) <= 0 <=> s = {}
    <3>1. Cardinality({}) = 0
      BY FS_EmptySet
    <3>2. \A s \in SUBSET L : s # {} => Cardinality(s) > 0
      BY <1>2, <1>3
    <3>3. \A s \in SUBSET L : Cardinality(s) <= 0 => ~(Cardinality(s) > 0)
      BY <1>1
    <3>4. 0 <= 0
      OBVIOUS
    <3> QED BY <3>1, <3>2, <3>3, <3>4, Zenon
  <2> QED BY <2>1 DEF Small
<1>5. Small(L, Cardinality(L)) = SUBSET L
  BY <1>1, FS_Subset DEF Small
<1> QED BY <1>1, <1>2, <1>3, <1>4, <1>5

\* There is a function that satisfies the recursion of a sum.
LEMMA SumExists ==
  ASSUME NEW L, IsFiniteSet(L), NEW F
  PROVE  \E f : Sums(F, f, L)
<1> DEFINE S == {n \in Nat : \E f : f = [s \in Small(L, n) |-> SumStep(F, f, s)]}
<1>1. 0 \in S
  <2> DEFINE f == [s \in Small(L, 0) |-> 0]
  <2>1. \A s \in Small(L, 0) : s = {}
    BY SmallSets
  <2>2. \A s \in Small(L, 0) : SumStep(F, f, s) = 0
    BY <2>1 DEF SumStep
  <2>3. f = [s \in Small(L, 0) |-> SumStep(F, f, s)]
    BY <2>2
  <2> QED BY <2>3
<1>2. ASSUME NEW n \in Nat, n \in S PROVE n + 1 \in S
  <2>1. PICK f : f = [s \in Small(L, n) |-> SumStep(F, f, s)]
    BY <1>2
  <2> DEFINE g == [s \in Small(L, n + 1) |-> IF s \in Small(L, n) THEN f[s] ELSE SumStep(F, f, s)]
  <2>2. \A s \in Small(L, n + 1) : g[s] = SumStep(F, f, s)
    BY <2>1
  <2>3. \A s \in Small(L, n + 1) : s # {} =>
          s \ {One(s)} \in Small(L, n) /\ s \ {One(s)} \in Small(L, n + 1)
    BY SmallSets DEF Small
  <2>4. \A s \in Small(L, n + 1) : s # {} => g[s \ {One(s)}] = f[s \ {One(s)}]
    BY <2>3
  <2>5. g = [s \in Small(L, n + 1) |-> g[s]]
    OBVIOUS
  <2> HIDE DEF g
  <2>6. \A s \in Small(L, n + 1) : g[s] = SumStep(F, g, s)
    BY <2>2, <2>4 DEF SumStep
  <2>7. g = [s \in Small(L, n + 1) |-> SumStep(F, g, s)]
    BY <2>5, <2>6
  <2> QED BY <2>7
<1> HIDE DEF S
<1>3. Cardinality(L) \in S
  BY <1>1, <1>2, UptoInduction, SmallSets
<1>4. PICK f : f = [s \in Small(L, Cardinality(L)) |-> SumStep(F, f, s)]
  BY <1>3 DEF S
<1>5. Small(L, Cardinality(L)) = SUBSET L
  BY SmallSets
<1>6. Sums(F, f, L)
  BY <1>4, <1>5 DEF Sums
<1> QED BY <1>6

\* That function gives the sum over every subset.
LEMMA SumIs ==
  ASSUME NEW M, IsFiniteSet(M), NEW F, NEW f, Sums(F, f, M),
         NEW L \in SUBSET M
  PROVE  SumFunctionOnSet(F, L) = f[L]
<1> DEFINE g == CHOOSE g : g = [s \in SUBSET L |-> SumStep(F, g, s)]
           S == {n \in Nat : \A s \in Small(L, n) : g[s] = f[s]}
<1>0. IsFiniteSet(L)
  BY SmallSets
<1>1. SumFunctionOnSet(F, L) = g[L]
  BY DEF SumFunctionOnSet, FoldFunctionOnSet, MapThenFoldSet, SumStep, One
<1>2. g = [s \in SUBSET L |-> SumStep(F, g, s)]
  <2>1. \E h : Sums(F, h, L)
    BY <1>0, SumExists
  <2> QED BY <2>1, Zenon DEF Sums
<1> HIDE DEF g
<1>3. \A s \in SUBSET L : g[s] = SumStep(F, g, s)
  BY <1>2
<1>4. \A s \in SUBSET M : f[s] = SumStep(F, f, s)
  BY DEF Sums
<1>5. 0 \in S
  <2>1. \A s \in Small(L, 0) : s = {}
    BY <1>0, SmallSets
  <2>2. g[{}] = 0 /\ f[{}] = 0
    BY <1>3, <1>4 DEF SumStep
  <2> QED BY <2>1, <2>2
<1>6. ASSUME NEW n \in Nat, n \in S PROVE n + 1 \in S
  <2> SUFFICES ASSUME NEW s \in Small(L, n + 1) PROVE g[s] = f[s]
    BY <1>6
  <2>1. s \in SUBSET L /\ s \in SUBSET M
    BY DEF Small
  <2>2. s # {} => s \ {One(s)} \in Small(L, n)
    BY <1>0, SmallSets DEF Small
  <2>3. s # {} => g[s \ {One(s)}] = f[s \ {One(s)}]
    BY <1>6, <2>2
  <2> QED BY <1>3, <1>4, <2>1, <2>3 DEF SumStep
<1> HIDE DEF S
<1>7. Cardinality(L) \in S
  BY <1>0, <1>5, <1>6, UptoInduction, SmallSets
<1>8. L \in Small(L, Cardinality(L))
  BY <1>0, SmallSets
<1> QED BY <1>1, <1>7, <1>8 DEF S

\* A sum, taken apart at any element.
LEMMA SumSplit ==
  ASSUME NEW M, IsFiniteSet(M), NEW F, \A x \in M : F[x] \in Nat
  PROVE  \E f : Additive(F, f, M)
<1>1. PICK f : Sums(F, f, M)
  BY SumExists
<1>2. \A s \in SUBSET M : f[s] = SumStep(F, f, s)
  BY <1>1 DEF Sums
<1> DEFINE Apart(s) == f[s] \in Nat /\ \A x \in s : f[s] = F[x] + f[s \ {x}]
           S == {n \in Nat : \A s \in Small(M, n) : Apart(s)}
<1>3. f[{}] = 0
  BY <1>2 DEF SumStep
<1>4. 0 \in S
  <2>1. \A s \in Small(M, 0) : s = {}
    BY SmallSets
  <2>2. Apart({})
    BY <1>3
  <2> HIDE DEF Apart
  <2> QED BY <2>1, <2>2
<1>5. ASSUME NEW n \in Nat, n \in S PROVE n + 1 \in S
  <2> SUFFICES ASSUME NEW s \in Small(M, n + 1) PROVE Apart(s)
    BY <1>5
  <2>1. s \in SUBSET M
    BY DEF Small
  <2>2. CASE s = {}
    BY <1>3, <2>2
  <2>3. CASE s # {}
    <3> DEFINE y == One(s)
    <3>1. y \in s /\ F[y] \in Nat
      BY <2>1, <2>3, SmallSets
    <3>2. f[s] = F[y] + f[s \ {y}]
      BY <1>2, <2>1, <2>3 DEF SumStep
    <3> HIDE DEF y
    <3>3. \A x \in s : s \ {x} \in Small(M, n)
      BY <2>1, SmallSets DEF Small
    <3>4. \A x \in s : Apart(s \ {x})
      BY <1>5, <3>3
    <3>5. f[s] \in Nat
      BY <3>1, <3>2, <3>4
    <3>6. ASSUME NEW x \in s PROVE f[s] = F[x] + f[s \ {x}]
      <4>1. CASE x = y
        BY <3>2, <4>1
      <4>2. CASE x # y
        <5>1. x \in s \ {y} /\ y \in s \ {x} /\ (s \ {y}) \ {x} = (s \ {x}) \ {y}
          BY <3>1, <4>2
        <5>2. f[s \ {y}] = F[x] + f[(s \ {y}) \ {x}]
          BY <3>1, <3>4, <5>1
        <5>3. f[s \ {x}] = F[y] + f[(s \ {x}) \ {y}]
          BY <3>4, <5>1
        <5>4. (s \ {x}) \ {y} \in Small(M, n)
          <6>1. (s \ {x}) \ {y} \in SUBSET M
            BY <2>1
          <6>2. Cardinality((s \ {x}) \ {y}) = Cardinality(s \ {x}) - 1 /\ Cardinality(s \ {x}) <= n
            BY <3>3, <5>1, SmallSets DEF Small
          <6>3. Cardinality(s \ {x}) \in Nat
            BY <2>1, SmallSets
          <6> QED BY <6>1, <6>2, <6>3 DEF Small
        <5>5. f[(s \ {x}) \ {y}] \in Nat
          BY <1>5, <5>4
        <5>6. F[x] \in Nat
          BY <2>1
        <5> DEFINE a == f[(s \ {x}) \ {y}]
        <5>7. f[s] = F[y] + (F[x] + a) /\ f[s \ {x}] = F[y] + a
          BY <3>2, <5>1, <5>2, <5>3
        <5> HIDE DEF a
        <5> QED BY <3>1, <5>5, <5>6, <5>7 DEF a
      <4> QED BY <4>1, <4>2
    <3> QED BY <3>5, <3>6
  <2> QED BY <2>2, <2>3
<1> HIDE DEF S, Apart
<1>6. Cardinality(M) \in S
  BY <1>4, <1>5, UptoInduction, SmallSets
<1>7. \A s \in SUBSET M : Apart(s)
  BY <1>6, SmallSets DEF S
<1>8. \A s \in SUBSET M : SumFunctionOnSet(F, s) = f[s]
  BY <1>1, SumIs
<1>9. Additive(F, f, M)
  BY <1>3, <1>7, <1>8 DEF Apart, Additive
<1> QED BY <1>9

\* A greater function has a greater sum, by what it has more at y.
LEMMA SumGain ==
  ASSUME NEW L, IsFiniteSet(L), NEW F, NEW G, NEW y, NEW d \in Nat,
         \A x \in L : F[x] \in Nat /\ G[x] \in Nat /\ F[x] <= G[x],
         y \in L => F[y] + d <= G[y]
  PROVE  /\ SumFunctionOnSet(F, L) \in Nat /\ SumFunctionOnSet(G, L) \in Nat
         /\ SumFunctionOnSet(F, L) + (IF y \in L THEN d ELSE 0) <= SumFunctionOnSet(G, L)
<1>1. PICK f : Additive(F, f, L)
  BY SumSplit
<1>2. PICK g : Additive(G, g, L)
  BY SumSplit
<1> USE DEF Additive
<1> DEFINE e(s) == IF y \in s THEN d ELSE 0
           S == {n \in Nat : \A s \in Small(L, n) : f[s] + e(s) <= g[s]}
<1>3. 0 \in S
  <2>1. \A s \in Small(L, 0) : s = {}
    BY SmallSets
  <2>2. f[{}] + e({}) <= g[{}]
    BY <1>1, <1>2
  <2> HIDE DEF e
  <2> QED BY <2>1, <2>2
<1>4. ASSUME NEW n \in Nat, n \in S PROVE n + 1 \in S
  <2> SUFFICES ASSUME NEW s \in Small(L, n + 1) PROVE f[s] + e(s) <= g[s]
    BY <1>4
  <2>1. s \in SUBSET L
    BY DEF Small
  <2>2. CASE s = {}
    BY <1>1, <1>2, <2>2
  <2>3. CASE s # {}
    <3>1. PICK x \in s : TRUE
      BY <2>3
    <3>2. s \ {x} \in Small(L, n) /\ s \ {x} \in SUBSET L
      BY <2>1, SmallSets DEF Small
    <3>3. f[s \ {x}] + e(s \ {x}) <= g[s \ {x}]
      BY <1>4, <3>2
    <3>4. f[s] = F[x] + f[s \ {x}] /\ g[s] = G[x] + g[s \ {x}]
      BY <1>1, <1>2, <2>1
    <3>5. /\ F[x] \in Nat /\ G[x] \in Nat /\ F[x] <= G[x] /\ (x = y => F[x] + d <= G[x])
          /\ f[s \ {x}] \in Nat /\ g[s \ {x}] \in Nat
      BY <1>1, <1>2, <2>1, <3>2
    <3>6. e(s) = (IF x = y THEN d ELSE e(s \ {x})) /\ (x = y => e(s \ {x}) = 0) /\ e(s \ {x}) \in Nat
      BY <3>1
    <3> HIDE DEF e
    <3>7. CASE x = y
      BY <3>3, <3>4, <3>5, <3>6, <3>7
    <3>8. CASE x # y
      BY <3>3, <3>4, <3>5, <3>6, <3>8
    <3> QED BY <3>7, <3>8
  <2> QED BY <2>2, <2>3
<1> HIDE DEF S
<1>5. Cardinality(L) \in S
  BY <1>3, <1>4, UptoInduction, SmallSets
<1>6. f[L] + e(L) <= g[L]
  <2>1. L \in Small(L, Cardinality(L))
    BY SmallSets
  <2> HIDE DEF e
  <2> QED BY <1>5, <2>1 DEF S
<1> QED BY <1>1, <1>2, <1>6

\* The sum over a larger set.
LEMMA SumGrows ==
  ASSUME NEW M, IsFiniteSet(M), NEW F, \A x \in M : F[x] \in Nat, NEW L \in SUBSET M
  PROVE  /\ SumFunctionOnSet(F, L) \in Nat /\ SumFunctionOnSet(F, M) \in Nat
         /\ SumFunctionOnSet(F, L) <= SumFunctionOnSet(F, M)
<1>1. PICK f : Additive(F, f, M)
  BY SumSplit
<1> USE DEF Additive
<1> DEFINE S == {n \in Nat : \A s \in Small(M, n) : \A u \in SUBSET s : f[u] <= f[s]}
<1>2. 0 \in S
  <2>1. \A s \in Small(M, 0) : s = {}
    BY SmallSets
  <2>2. \A u \in SUBSET {} : u = {}
    OBVIOUS
  <2>3. f[{}] <= f[{}]
    BY <1>1
  <2> QED BY <2>1, <2>2, <2>3
<1>3. ASSUME NEW n \in Nat, n \in S PROVE n + 1 \in S
  <2> SUFFICES ASSUME NEW s \in Small(M, n + 1), NEW u \in SUBSET s PROVE f[u] <= f[s]
    OBVIOUS
  <2>1. s \in SUBSET M /\ u \in SUBSET M /\ f[u] \in Nat /\ f[s] \in Nat
    BY <1>1 DEF Small
  <2>2. CASE s = {}
    <3>1. u = s
      BY <2>2
    <3> QED BY <2>1, <3>1
  <2>3. CASE s # {}
    <3>1. PICK x \in s : TRUE
      BY <2>3
    <3>2. s \ {x} \in Small(M, n) /\ s \ {x} \in SUBSET M /\ u \ {x} \in SUBSET (s \ {x})
      BY <2>1, SmallSets DEF Small
    <3>3. f[u \ {x}] <= f[s \ {x}]
      BY <1>3, <3>2
    <3>4. /\ f[s] = F[x] + f[s \ {x}] /\ F[x] \in Nat
          /\ f[s \ {x}] \in Nat /\ f[u \ {x}] \in Nat
      BY <1>1, <2>1, <3>2
    <3>5. f[u] = IF x \in u THEN F[x] + f[u \ {x}] ELSE f[u \ {x}]
      <4>1. CASE x \in u
        BY <1>1, <2>1, <4>1
      <4>2. CASE x \notin u
        <5>1. u \ {x} = u
          BY <4>2
        <5> QED BY <4>2, <5>1
      <4> QED BY <4>1, <4>2
    <3> QED BY <2>1, <3>3, <3>4, <3>5
  <2> QED BY <2>2, <2>3
<1> HIDE DEF S
<1>4. Cardinality(M) \in S
  BY <1>2, <1>3, UptoInduction, SmallSets
<1>5. M \in Small(M, Cardinality(M)) /\ M \in SUBSET M
  BY SmallSets
<1>6. f[L] <= f[M]
  BY <1>4, <1>5 DEF S
<1> QED BY <1>1, <1>5, <1>6

-----------------------------------------------------------------------------
(* Calls *)

\* What decode_one returns: a proposal has a price.
OneCall ==
  {c \in [kind : {"propose", "dispute"}, market : Market, round : Round, price : Price \cup {NoPrice}] :
     c.kind = "propose" => c.price \in Price}

LEMMA DecodeOne ==
  ASSUME NEW item \in CallItem
  PROVE  decode_one(item) \in Seq(OneCall)
<1> DEFINE p == OracleCall("propose", item, item.price)
           d == OracleCall("dispute", item, NoPrice)
<1>1. p \in OneCall /\ d \in OneCall
  BY DEF OracleCall, CallItem, OneCall
<1>2. decode_one(item) \in {<<p>>, <<d>>, <<>>}
  BY DEF decode_one
<1> HIDE DEF p, d
<1>3. <<p>> \in Seq(OneCall) /\ <<d>> \in Seq(OneCall) /\ <<>> \in Seq(OneCall)
  BY <1>1
<1> QED BY <1>2, <1>3

\* The recursion of FlattenSeq.
FlatStep(q, f, i) == IF i = 1 THEN q[i] ELSE f[i - 1] \o q[i]
Flattens(q, f, m) == f = [i \in 1..m |-> FlatStep(q, f, i)]

\* There is a function that satisfies it.
LEMMA FlatExists ==
  ASSUME NEW q, NEW m \in Nat
  PROVE  \E f : Flattens(q, f, m)
<1> DEFINE S == {k \in Nat : \E f : f = [i \in 1..k |-> FlatStep(q, f, i)]}
<1>1. 0 \in S
  <2> DEFINE f == [i \in 1..0 |-> 0]
  <2>1. \A i \in 1..0 : FlatStep(q, f, i) = 0
    OBVIOUS
  <2>2. f = [i \in 1..0 |-> FlatStep(q, f, i)]
    BY <2>1
  <2> QED BY <2>2
<1>2. ASSUME NEW k \in Nat, k \in S PROVE k + 1 \in S
  <2>1. PICK f : f = [i \in 1..k |-> FlatStep(q, f, i)]
    BY <1>2
  <2> DEFINE g == [i \in 1..(k + 1) |-> IF i \in 1..k THEN f[i] ELSE FlatStep(q, f, i)]
  <2>2. \A i \in 1..(k + 1) : g[i] = FlatStep(q, f, i)
    BY <2>1
  <2>3. \A i \in 1..(k + 1) : i # 1 => g[i - 1] = f[i - 1]
    OBVIOUS
  <2>4. g = [i \in 1..(k + 1) |-> g[i]]
    OBVIOUS
  <2> HIDE DEF g
  <2>5. \A i \in 1..(k + 1) : g[i] = FlatStep(q, g, i)
    BY <2>2, <2>3 DEF FlatStep
  <2>6. g = [i \in 1..(k + 1) |-> FlatStep(q, g, i)]
    BY <2>4, <2>5
  <2> QED BY <2>6
<1> HIDE DEF S
<1>3. m \in S
  BY <1>1, <1>2, UptoInduction
<1>4. PICK f : f = [i \in 1..m |-> FlatStep(q, f, i)]
  BY <1>3 DEF S
<1>5. Flattens(q, f, m)
  BY <1>4 DEF Flattens
<1> QED BY <1>5

\* The concatenation of sequences of calls is one.
LEMMA FlatType ==
  ASSUME NEW C, NEW n \in Nat, NEW q \in [1..n -> Seq(C)]
  PROVE  FlattenSeq(q) \in Seq(C)
<1>0. q \in Seq(Seq(C)) /\ Len(q) = n
  OBVIOUS
<1>1. CASE n = 0
  <2>1. q = <<>> /\ FlattenSeq(q) = q
    BY <1>0, <1>1 DEF FlattenSeq
  <2>2. <<>> \in Seq(C)
    OBVIOUS
  <2> QED BY <2>1, <2>2, Zenon
<1>2. CASE n # 0
  <2> DEFINE f == CHOOSE f : f = [i \in 1..Len(q) |-> FlatStep(q, f, i)]
             S == {m \in Nat : m + 1 > n \/ f[m + 1] \in Seq(C)}
  <2>1. FlattenSeq(q) = f[Len(q)]
    BY <1>0, <1>2 DEF FlattenSeq, FlatStep
  <2>2. f = [i \in 1..n |-> FlatStep(q, f, i)]
    <3>1. \E h : Flattens(q, h, n)
      BY FlatExists
    <3> QED BY <1>0, <3>1 DEF Flattens
  <2> HIDE DEF f
  <2>3. \A i \in 1..n : f[i] = FlatStep(q, f, i) /\ q[i] \in Seq(C)
    BY <2>2
  <2>4. 0 \in S
    BY <1>2, <2>3 DEF FlatStep
  <2>5. ASSUME NEW m \in Nat, m < n - 1, m \in S PROVE m + 1 \in S
    <3>1. f[m + 1] \in Seq(C)
      BY <2>5
    <3>2. f[(m + 1) + 1] = FlatStep(q, f, (m + 1) + 1) /\ q[(m + 1) + 1] \in Seq(C)
      BY <2>3, <2>5
    <3>3. (m + 1) + 1 # 1 /\ ((m + 1) + 1) - 1 = m + 1
      OBVIOUS
    <3>4. FlatStep(q, f, (m + 1) + 1) = f[m + 1] \o q[(m + 1) + 1]
      BY <3>3 DEF FlatStep
    <3> DEFINE a == f[m + 1]
               b == q[(m + 1) + 1]
    <3>5. a \in Seq(C) /\ b \in Seq(C)
      BY <3>1, <3>2
    <3> HIDE DEF a, b
    <3>6. a \o b \in Seq(C)
      BY <3>5
    <3>7. f[(m + 1) + 1] \in Seq(C)
      BY <3>2, <3>4, <3>6 DEF a, b
    <3> QED BY <3>7
  <2> HIDE DEF S
  <2>6. n - 1 \in Nat
    BY <1>2
  <2>7. n - 1 \in S
    BY <2>4, <2>5, <2>6, UptoInduction
  <2> QED BY <1>0, <2>1, <2>6, <2>7 DEF S
<1> QED BY <1>1, <1>2

\* The calls of a transaction.
LEMMA CallsType ==
  ASSUME NEW t \in Tx
  PROVE  Calls(t) \in Seq(OneCall)
<1> DEFINE items == Input[t].items
           n == Len(items)
           stop == {i \in 1..n : items[i].sel = "lost"} \cup {n + 1, MaxCalls + 1}
           q == [i \in 1..(Min(stop) - 1) |-> decode_one(items[i])]
<1>1. items \in Seq(CallItem) /\ n \in Nat /\ (~Input[t].multi => items # <<>>)
  BY InputAssumption
<1>2. Calls(t) = IF Input[t].multi THEN FlattenSeq(q) ELSE decode_one(items[1])
  BY DEF Calls, decode_input
<1>3. stop \subseteq Nat /\ stop # {} /\ n + 1 \in stop /\ 0 \notin stop
  BY <1>1, GateAssumption
<1>4. Min(stop) \in Nat /\ Min(stop) # 0 /\ Min(stop) <= n + 1
  <2> HIDE DEF stop
  <2> QED BY <1>3, MinNat
<1> HIDE DEF stop
<1>5. \A i \in 1..n : decode_one(items[i]) \in Seq(OneCall)
  BY <1>1, DecodeOne
<1>6. CASE Input[t].multi
  <2>1. Min(stop) - 1 \in Nat /\ q \in [1..(Min(stop) - 1) -> Seq(OneCall)]
    BY <1>1, <1>4, <1>5
  <2> HIDE DEF q
  <2> QED BY <1>2, <1>6, <2>1, FlatType
<1>7. CASE ~Input[t].multi
  <2>1. 1 \in 1..n
    BY <1>1, <1>7
  <2> QED BY <1>2, <1>5, <1>7, <2>1
<1> QED BY <1>6, <1>7

-----------------------------------------------------------------------------
(* The gate *)

Maybe == Price \cup {NoPrice}
ReqSet == [emitted_price : Maybe, emitted_dispute : BOOLEAN, proposed : Maybe,
           disputed : BOOLEAN, pendings : Seq(Sender \X Price), touched : Nat]
Scores == [Sender -> [agree : Nat, disagree : Nat]]

IsGate(g) ==
  /\ g = [reqs |-> g.reqs, latest_round |-> g.latest_round, senders |-> g.senders,
          tips |-> g.tips, tx_tip |-> g.tx_tip]
  /\ g.reqs \in [Key -> ReqSet]
  /\ g.latest_round \in [Market -> Nat]
  /\ g.senders \in Scores

GateOf(R, l, z, w, h) ==
  [reqs |-> R, latest_round |-> l, senders |-> z, tips |-> w, tx_tip |-> h]

\* The fields that check, on_confirmed and prune write.
WithRound(g, x, y, u) == [g EXCEPT !.latest_round = x, !.tips = y, !.reqs = u]
WithScores(g, x, y, u, v) == [g EXCEPT !.latest_round = x, !.tips = y, !.reqs = u, !.senders = v]
Without(g, x, y) == [g EXCEPT !.reqs = x, !.tx_tip = y]

LEMMA RoundFields ==
  ASSUME NEW R, NEW l, NEW z, NEW w, NEW h, NEW x, NEW y, NEW u
  PROVE  WithRound(GateOf(R, l, z, w, h), x, y, u) = GateOf(u, x, z, y, h)
<1>1. WithRound(GateOf(R, l, z, w, h), x, y, u)
      = [[[GateOf(R, l, z, w, h) EXCEPT !.latest_round = x] EXCEPT !.tips = y] EXCEPT !.reqs = u]
  BY DEF GateOf, WithRound
<1>2. [GateOf(R, l, z, w, h) EXCEPT !.latest_round = x] = GateOf(R, x, z, w, h)
  BY DEF GateOf
<1>3. [GateOf(R, x, z, w, h) EXCEPT !.tips = y] = GateOf(R, x, z, y, h)
  BY DEF GateOf
<1>4. [GateOf(R, x, z, y, h) EXCEPT !.reqs = u] = GateOf(u, x, z, y, h)
  BY DEF GateOf
<1> QED BY <1>1, <1>2, <1>3, <1>4, Zenon

LEMMA ScoreFields ==
  ASSUME NEW R, NEW l, NEW z, NEW w, NEW h, NEW x, NEW y, NEW u, NEW v
  PROVE  WithScores(GateOf(R, l, z, w, h), x, y, u, v) = GateOf(u, x, v, y, h)
<1>1. WithScores(GateOf(R, l, z, w, h), x, y, u, v)
      = [[[[GateOf(R, l, z, w, h) EXCEPT !.latest_round = x] EXCEPT !.tips = y] EXCEPT !.reqs = u] EXCEPT !.senders = v]
  BY DEF GateOf, WithScores
<1>2. [GateOf(R, l, z, w, h) EXCEPT !.latest_round = x] = GateOf(R, x, z, w, h)
  BY DEF GateOf
<1>3. [GateOf(R, x, z, w, h) EXCEPT !.tips = y] = GateOf(R, x, z, y, h)
  BY DEF GateOf
<1>4. [GateOf(R, x, z, y, h) EXCEPT !.reqs = u] = GateOf(u, x, z, y, h)
  BY DEF GateOf
<1>5. [GateOf(u, x, z, y, h) EXCEPT !.senders = v] = GateOf(u, x, v, y, h)
  BY DEF GateOf
<1> QED BY <1>1, <1>2, <1>3, <1>4, <1>5, Zenon

LEMMA PruneFields ==
  ASSUME NEW R, NEW l, NEW z, NEW w, NEW h, NEW x, NEW y
  PROVE  Without(GateOf(R, l, z, w, h), x, y) = GateOf(x, l, z, w, y)
<1>1. Without(GateOf(R, l, z, w, h), x, y)
      = [[GateOf(R, l, z, w, h) EXCEPT !.reqs = x] EXCEPT !.tx_tip = y]
  BY DEF GateOf, Without
<1>2. [GateOf(R, l, z, w, h) EXCEPT !.reqs = x] = GateOf(x, l, z, w, h)
  BY DEF GateOf
<1>3. [GateOf(x, l, z, w, h) EXCEPT !.tx_tip = y] = GateOf(x, l, z, w, y)
  BY DEF GateOf
<1> QED BY <1>1, <1>2, <1>3, Zenon

\* Gate::new.
LEMMA NewGateType ==
  ASSUME NEW scores \in Scores
  PROVE  /\ IsGate(NewGate(scores)) /\ NewGate(scores).senders = scores
         /\ \A k \in Key : NewGate(scores).reqs[k] = NoReq
         /\ \A m \in Market : NewGate(scores).latest_round[m] = 0
<1>1. NoReq \in ReqSet
  BY DEF NoReq, ReqSet, Maybe
<1> QED BY <1>1 DEF NewGate, IsGate

\* A call belongs to a request.
LEMMA CallKey ==
  ASSUME NEW c \in OneCall
  PROVE  /\ request_key(c) \in Key
         /\ request_key(c).market = c.market /\ request_key(c).round = c.round
         /\ c.market \in Market /\ c.round \in Nat /\ c.round > 0
         /\ c.kind \in {"propose", "dispute"} /\ (c.kind = "propose" => c.price \in Price)
<1>1. c.market \in Market /\ c.round \in Round /\ c.kind \in {"propose", "dispute"}
      /\ (c.kind = "propose" => c.price \in Price)
  BY DEF OneCall
<1>2. request_key(c) \in Key /\ request_key(c).market = c.market /\ request_key(c).round = c.round
  BY <1>1 DEF request_key, Key
<1>3. c.round \in Nat /\ c.round > 0
  <2>1. Round \subseteq Nat \ {0}
    BY GateAssumption
  <2>2. \A r \in Round : r \in Nat /\ r > 0
    BY <2>1
  <2> QED BY <1>1, <2>2, Zenon
<1> QED BY <1>1, <1>2, <1>3

\* A proposal is pushed only where none was.
LEMMA VerdictEmit ==
  ASSUME NEW call, NEW st, NEW trust, NEW low, call.kind = "propose",
         verdict(call, st, trust, low) = "Emit"
  PROVE  st.emitted_price = NoPrice
  BY DEF verdict

\* The request after a call of the newest round.
Asked(g, call, t) ==
  [g.reqs[request_key(call)] EXCEPT
     !.touched = now, !.pendings = remember(g.reqs[request_key(call)], call, From[t])]

LEMMA AskedType ==
  ASSUME NEW g, IsGate(g), NEW call \in OneCall, NEW t \in Tx, now \in Nat
  PROVE  LET st == Asked(g, call, t)
             old == g.reqs[request_key(call)]
         IN  /\ st \in ReqSet /\ old \in ReqSet
             /\ st.touched = now /\ st.emitted_price = old.emitted_price
             /\ st.pendings = remember(old, call, From[t])
<1> DEFINE old == g.reqs[request_key(call)]
           q == remember(old, call, From[t])
<1>1. old \in ReqSet
  BY CallKey DEF IsGate
<1>2. q \in Seq(Sender \X Price)
  <2>1. old.pendings \in Seq(Sender \X Price)
    BY <1>1 DEF ReqSet
  <2>2. call.kind = "propose" => <<From[t], call.price>> \in Sender \X Price
    BY CallKey, InputAssumption
  <2> QED BY <2>1, <2>2 DEF remember
<1>3. Asked(g, call, t) = [old EXCEPT !.touched = now, !.pendings = q]
  BY DEF Asked
<1> HIDE DEF q, old
<1>4. /\ Asked(g, call, t) \in ReqSet
      /\ Asked(g, call, t).touched = now /\ Asked(g, call, t).emitted_price = old.emitted_price
      /\ Asked(g, call, t).pendings = q
  BY <1>1, <1>2, <1>3 DEF ReqSet
<1> QED BY <1>1, <1>4 DEF q, old

\* What check does to the gate, told apart by whether the call is pushed.
Checked(g, call, t, h, v) ==
  LET k == request_key(call)
      stale == call.round < g.latest_round[call.market]
  IN  /\ IsGate(h) /\ h.senders = g.senders
      /\ \A j \in Key : j # k => h.reqs[j] = g.reqs[j]
      /\ stale => v # "Emit" /\ h.reqs[k] = g.reqs[k] /\ h.latest_round = g.latest_round
      /\ ~stale => /\ h.latest_round = [g.latest_round EXCEPT ![call.market] = call.round]
                   /\ h.reqs[k].touched = now
                   /\ h.reqs[k].pendings = remember(g.reqs[k], call, From[t])
      /\ v = "Emit" /\ call.kind = "propose" =>
           g.reqs[k].emitted_price = NoPrice /\ h.reqs[k].emitted_price = call.price
      /\ ~(v = "Emit" /\ call.kind = "propose") => h.reqs[k].emitted_price = g.reqs[k].emitted_price

LEMMA CheckFacts ==
  ASSUME NEW g, IsGate(g), NEW call \in OneCall, NEW t \in Tx, now \in Nat
  PROVE  Checked(g, call, t, check(g, call, t)[1], check(g, call, t)[2])
<1> DEFINE k == request_key(call)
           tt == [g.tx_tip EXCEPT ![t] = [at |-> now, tip |-> Tip[t]]]
           tips == fresh_tips(g.tips)
           st == Asked(g, call, t)
           v == verdict(call, st, trusted(g, From[t]), Tip[t] < tip_floor(tips))
           req == IF v # "Emit" THEN st
                  ELSE IF call.kind = "propose" THEN [st EXCEPT !.emitted_price = call.price]
                  ELSE [st EXCEPT !.emitted_dispute = TRUE]
           old == [g EXCEPT !.tx_tip = tt]
           new == [reqs |-> [g.reqs EXCEPT ![k] = req],
                   latest_round |-> [g.latest_round EXCEPT ![call.market] = call.round],
                   senders |-> g.senders, tips |-> tips, tx_tip |-> tt]
<1>1. /\ k \in Key /\ k.market = call.market /\ k.round = call.round /\ call.market \in Market
      /\ call.round \in Nat /\ (call.kind = "propose" => call.price \in Price)
  BY CallKey
<1>2. check(g, call, t) = IF call.round < g.latest_round[call.market] THEN <<old, "StaleRound">> ELSE <<new, v>>
  <2>1. check(g, call, t) =
          IF k.round < g.latest_round[k.market] THEN <<[g EXCEPT !.tx_tip[t] = [at |-> now, tip |-> Tip[t]]], "StaleRound">>
          ELSE <<[[g EXCEPT !.tx_tip[t] = [at |-> now, tip |-> Tip[t]]] EXCEPT
                   !.latest_round[k.market] = k.round, !.tips = tips, !.reqs[k] = req], v>>
    BY DEF check, Asked
  <2> HIDE DEF req, v, tips, k
  <2>2. [g EXCEPT !.tx_tip[t] = [at |-> now, tip |-> Tip[t]]] = old
    BY DEF IsGate
  <2>3. [old EXCEPT !.latest_round[k.market] = k.round, !.tips = tips, !.reqs[k] = req] = new
    <3> DEFINE R == g.reqs
               l == g.latest_round
               z == g.senders
               w == g.tips
    <3>1. old = [reqs |-> R, latest_round |-> l, senders |-> z, tips |-> w, tx_tip |-> tt]
      BY DEF IsGate
    <3>2. new = [reqs |-> [R EXCEPT ![k] = req], latest_round |-> [l EXCEPT ![k.market] = k.round],
                 senders |-> z, tips |-> tips, tx_tip |-> tt]
      BY <1>1
    <3> HIDE DEF tt, R, l, z, w, old, new
    <3>3. [old EXCEPT !.latest_round[k.market] = k.round, !.tips = tips, !.reqs[k] = req]
          = [old EXCEPT !.latest_round = [l EXCEPT ![k.market] = k.round], !.tips = tips,
                        !.reqs = [R EXCEPT ![k] = req]]
      BY <3>1
    <3>4. [old EXCEPT !.latest_round = [l EXCEPT ![k.market] = k.round], !.tips = tips,
                      !.reqs = [R EXCEPT ![k] = req]] = new
      <4> DEFINE R2 == [R EXCEPT ![k] = req]
                 l2 == [l EXCEPT ![k.market] = k.round]
      <4> HIDE DEF R2, l2
      <4>1. WithRound(GateOf(R, l, z, w, tt), l2, tips, R2) = GateOf(R2, l2, z, tips, tt)
        BY RoundFields
      <4>2. old = GateOf(R, l, z, w, tt) /\ new = GateOf(R2, l2, z, tips, tt)
        BY <3>1, <3>2 DEF GateOf, R2, l2
      <4> QED BY <4>1, <4>2, Zenon DEF WithRound, R2, l2
    <3> QED BY <3>3, <3>4
  <2> HIDE DEF old, new
  <2> QED BY <1>1, <2>1, <2>2, <2>3
<1>3. st \in ReqSet /\ st.touched = now /\ st.emitted_price = g.reqs[k].emitted_price
      /\ st.pendings = remember(g.reqs[k], call, From[t])
  BY AskedType
<1>4. v = "Emit" /\ call.kind = "propose" => g.reqs[k].emitted_price = NoPrice
  <2> HIDE DEF st
  <2> QED BY <1>3, VerdictEmit
<1> HIDE DEF st, v, tips, tt
<1>5. /\ req \in ReqSet /\ req.touched = now /\ req.pendings = st.pendings
      /\ req.emitted_price = IF v = "Emit" /\ call.kind = "propose" THEN call.price ELSE st.emitted_price
  BY <1>1, <1>3 DEF ReqSet, Maybe
<1> HIDE DEF k, req
<1>6. CASE call.round < g.latest_round[call.market]
  <2>1. IsGate(old) /\ old.senders = g.senders /\ old.reqs = g.reqs /\ old.latest_round = g.latest_round
    BY DEF IsGate
  <2>2. check(g, call, t)[1] = old /\ check(g, call, t)[2] = "StaleRound"
    BY <1>2, <1>6
  <2>3. "StaleRound" # "Emit"
    OBVIOUS
  <2> HIDE DEF old
  <2> QED BY <1>6, <2>1, <2>2, <2>3 DEF Checked, k
<1>7. CASE ~(call.round < g.latest_round[call.market])
  <2>1. /\ new.senders = g.senders /\ new.reqs = [g.reqs EXCEPT ![k] = req]
        /\ new.latest_round = [g.latest_round EXCEPT ![call.market] = call.round]
    OBVIOUS
  <2>2. IsGate(new)
    BY <1>1, <1>5 DEF IsGate
  <2>3. new.reqs[k] = req /\ \A j \in Key : j # k => new.reqs[j] = g.reqs[j]
    BY <1>1, <2>1 DEF IsGate
  <2>4. check(g, call, t)[1] = new /\ check(g, call, t)[2] = v
    BY <1>2, <1>7
  <2> HIDE DEF new
  <2> QED BY <1>3, <1>4, <1>5, <1>7, <2>1, <2>2, <2>3, <2>4 DEF Checked, k
<1> QED BY <1>6, <1>7

-----------------------------------------------------------------------------
(* The prices remembered *)

Offers(q, s, p) == Matching(q, s, p, TRUE)
Others(q, s, p) == Matching(q, s, p, FALSE)
Hits(q, s, p) == {i \in 1..Len(q) : q[i][1] = s /\ q[i][2] = p}

LEMMA MatchNat ==
  ASSUME NEW q \in Seq(Sender \X Price), NEW s, NEW p
  PROVE  /\ Offers(q, s, p) \in Nat /\ Others(q, s, p) \in Nat
         /\ IsFiniteSet(Hits(q, s, p)) /\ Offers(q, s, p) = Cardinality(Hits(q, s, p))
<1>1. IsFiniteSet(1..Len(q)) /\ DOMAIN q = 1..Len(q)
  BY FS_Interval
<1>2. ASSUME NEW b \in BOOLEAN PROVE Matching(q, s, p, b) \in Nat
  <2> DEFINE T == {i \in DOMAIN q : q[i][1] = s /\ (q[i][2] = p) = b}
  <2>1. T \in SUBSET (1..Len(q))
    BY <1>1
  <2> HIDE DEF T
  <2>2. Cardinality(T) \in Nat
    BY <1>1, <2>1, FS_Subset, FS_CardinalityType
  <2> QED BY <2>2 DEF T, Matching
<1>3. Hits(q, s, p) \in SUBSET (1..Len(q))
  BY DEF Hits
<1>4. IsFiniteSet(Hits(q, s, p))
  BY <1>1, <1>3, FS_Subset
<1>5. {i \in DOMAIN q : q[i][1] = s /\ (q[i][2] = p) = TRUE} = Hits(q, s, p)
  BY <1>1, Zenon DEF Hits
<1>6. Offers(q, s, p) = Cardinality(Hits(q, s, p))
  BY <1>5, Zenon DEF Matching, Offers
<1>7. Offers(q, s, p) \in Nat /\ Others(q, s, p) \in Nat
  <2>1. TRUE \in BOOLEAN /\ FALSE \in BOOLEAN
    OBVIOUS
  <2> QED BY <1>2, <2>1, Zenon DEF Offers, Others
<1> QED BY <1>4, <1>6, <1>7

LEMMA MatchEmpty ==
  ASSUME NEW s, NEW p
  PROVE  Offers(<<>>, s, p) = 0
<1>1. <<>> \in Seq(Sender \X Price)
  OBVIOUS
<1>2. Hits(<<>>, s, p) = {}
  BY DEF Hits
<1>3. Offers(<<>>, s, p) = Cardinality(Hits(<<>>, s, p))
  BY <1>1, MatchNat, Zenon
<1>4. Cardinality({}) = 0
  BY FS_EmptySet
<1> QED BY <1>2, <1>3, <1>4, Zenon

Added(q, a, b, r) == r = Append(q, <<a, b>>)
IsHit(a, b, s, p) == IF a = s /\ b = p THEN 1 ELSE 0

\* One more price raises the count of that sender and price by one.
LEMMA MatchAppend ==
  ASSUME NEW q \in Seq(Sender \X Price), NEW a \in Sender, NEW b \in Price, NEW s, NEW p,
         NEW r, Added(q, a, b, r)
  PROVE  Offers(r, s, p) = Offers(q, s, p) + IsHit(a, b, s, p)
<1> DEFINE n == Len(q)
<1>1. /\ r \in Seq(Sender \X Price) /\ n \in Nat /\ Len(r) = n + 1
      /\ r[n + 1] = <<a, b>> /\ \A i \in 1..n : r[i] = q[i]
  BY DEF Added
<1>2. Hits(r, s, p) = IF a = s /\ b = p THEN Hits(q, s, p) \cup {n + 1} ELSE Hits(q, s, p)
  <2>1. r[n + 1][1] = a /\ r[n + 1][2] = b
    BY <1>1
  <2>2. \A i \in 1..(n + 1) : i \in 1..n \/ i = n + 1
    BY <1>1
  <2>3. \A i \in 1..n : i \in 1..(n + 1)
    BY <1>1
  <2>4. n + 1 \in 1..(n + 1)
    BY <1>1
  <2> HIDE DEF n
  <2> QED BY <1>1, <2>1, <2>2, <2>3, <2>4 DEF Hits, n
<1>3. n + 1 \notin Hits(q, s, p)
  BY <1>1 DEF Hits
<1>4. /\ IsFiniteSet(Hits(q, s, p))
      /\ Offers(q, s, p) = Cardinality(Hits(q, s, p))
      /\ Offers(r, s, p) = Cardinality(Hits(r, s, p))
  BY <1>1, MatchNat
<1>5. Cardinality(Hits(q, s, p) \cup {n + 1}) = Cardinality(Hits(q, s, p)) + 1
  BY <1>3, <1>4, FS_AddElement
<1>6. Cardinality(Hits(q, s, p)) \in Nat
  BY <1>4, FS_CardinalityType
<1> QED BY <1>2, <1>4, <1>5, <1>6 DEF IsHit

-----------------------------------------------------------------------------
(* Confirmations and prune *)

\* What on_confirmed does to the gate; the first proposal of a request scores.
Confirmed(g, call, h) ==
  LET k == request_key(call)
      first == call.kind = "propose" /\ g.reqs[k].proposed = NoPrice
  IN  /\ IsGate(h)
      /\ h.latest_round = [g.latest_round EXCEPT ![call.market] = Max({g.latest_round[call.market], call.round})]
      /\ \A j \in Key : j # k => h.reqs[j] = g.reqs[j]
      /\ h.reqs[k].touched = now /\ h.reqs[k].emitted_price = g.reqs[k].emitted_price
      /\ ~first => h.senders = g.senders /\ h.reqs[k].pendings = g.reqs[k].pendings
      /\ first => /\ h.reqs[k].pendings = <<>>
                  /\ \A s \in Sender : h.senders[s].agree =
                       g.senders[s].agree + Offers(g.reqs[k].pendings, s, call.price)

LEMMA ConfirmFacts ==
  ASSUME NEW g, IsGate(g), NEW call \in OneCall, NEW t \in Tx, now \in Nat
  PROVE  Confirmed(g, call, on_confirmed(g, call, t))
<1> DEFINE k == request_key(call)
           R == g.reqs
           l == g.latest_round
           z == g.senders
           w == g.tips
           h == g.tx_tip
           st == [R[k] EXCEPT !.touched = now]
           first == call.kind = "propose" /\ st.proposed = NoPrice
           w2 == IF call.kind = "propose" /\ h[t].at > 0
                 THEN Append(w, [at |-> now, tip |-> h[t].tip]) ELSE w
           req == IF first THEN [st EXCEPT !.proposed = call.price, !.pendings = <<>>]
                  ELSE IF call.kind = "propose" THEN st ELSE [st EXCEPT !.disputed = TRUE]
           z2 == IF ~first THEN z
                 ELSE [s \in Sender |->
                   SenderStat(z[s].agree + Offers(st.pendings, s, call.price),
                              z[s].disagree + Others(st.pendings, s, call.price))]
           l2 == [l EXCEPT ![k.market] = newer_round(l[k.market], k.round)]
           R2 == [R EXCEPT ![k] = req]
<1>1. /\ k \in Key /\ k.market = call.market /\ k.round = call.round /\ call.market \in Market
      /\ call.round \in Nat /\ call.kind \in {"propose", "dispute"}
      /\ (call.kind = "propose" => call.price \in Price)
  BY CallKey
<1>2. on_confirmed(g, call, t) = GateOf(R2, l2, z2, w2, h)
  <2>1. g = GateOf(R, l, z, w, h)
    BY DEF IsGate, GateOf
  <2>2. on_confirmed(g, call, t) =
          [g EXCEPT !.latest_round[k.market] = newer_round(@, k.round), !.tips = w2,
                    !.reqs[k] = req, !.senders = z2]
    BY <2>1 DEF on_confirmed, GateOf, Offers, Others
  <2>3. on_confirmed(g, call, t) = WithScores(g, l2, w2, R2, z2)
    <3> HIDE DEF w2, req, z2, k
    <3> QED BY <2>1, <2>2 DEF WithScores, GateOf
  <2> HIDE DEF R, l, z, w, h, w2, l2, z2, R2
  <2> QED BY <2>1, <2>3, ScoreFields
<1>3. R \in [Key -> ReqSet] /\ l \in [Market -> Nat] /\ z \in Scores
  BY DEF IsGate
<1> HIDE DEF R, l, z, w, h
<1>4. /\ st \in ReqSet /\ st.touched = now /\ st.emitted_price = R[k].emitted_price
      /\ st.pendings = R[k].pendings /\ st.proposed = R[k].proposed
  BY <1>1, <1>3 DEF ReqSet
<1> HIDE DEF st
<1>5. /\ req \in ReqSet /\ req.touched = now /\ req.emitted_price = R[k].emitted_price
      /\ req.pendings = IF first THEN <<>> ELSE R[k].pendings
  <2>1. <<>> \in Seq(Sender \X Price)
    OBVIOUS
  <2>2. CASE first
    <3>1. req = [st EXCEPT !.proposed = call.price, !.pendings = <<>>]
      BY <2>2
    <3>2. call.price \in Maybe
      BY <1>1, <2>2 DEF Maybe
    <3> HIDE DEF req
    <3> QED BY <1>4, <2>1, <2>2, <3>1, <3>2 DEF ReqSet
  <2>3. CASE ~first
    BY <1>1, <1>4, <2>3 DEF ReqSet
  <2> QED BY <2>2, <2>3
<1>6. z2 \in Scores /\ (~first => z2 = z)
      /\ (first => \A s \in Sender : z2[s].agree = z[s].agree + Offers(R[k].pendings, s, call.price))
  <2>1. st.pendings \in Seq(Sender \X Price)
    BY <1>4 DEF ReqSet
  <2>2. \A s \in Sender : /\ Offers(st.pendings, s, call.price) \in Nat
                          /\ Others(st.pendings, s, call.price) \in Nat
    BY <2>1, MatchNat
  <2>3. \A s \in Sender : z[s].agree \in Nat /\ z[s].disagree \in Nat
    BY <1>3 DEF Scores
  <2>4. CASE ~first
    BY <1>3, <2>4
  <2>5. CASE first
    <3>1. z2 = [s \in Sender |-> SenderStat(z[s].agree + Offers(st.pendings, s, call.price),
                                            z[s].disagree + Others(st.pendings, s, call.price))]
      BY <2>5
    <3> HIDE DEF z2
    <3>2. \A s \in Sender : z2[s] = [agree |-> z[s].agree + Offers(st.pendings, s, call.price),
                                     disagree |-> z[s].disagree + Others(st.pendings, s, call.price)]
      BY <3>1 DEF SenderStat
    <3>3. z2 = [s \in Sender |-> z2[s]]
      BY <3>1
    <3>4. ASSUME NEW s \in Sender
          PROVE  /\ z2[s] \in [agree : Nat, disagree : Nat]
                 /\ z2[s].agree = z[s].agree + Offers(R[k].pendings, s, call.price)
      <4> DEFINE a == z[s].agree + Offers(st.pendings, s, call.price)
                 b == z[s].disagree + Others(st.pendings, s, call.price)
      <4>1. a \in Nat /\ b \in Nat
        BY <2>2, <2>3
      <4>2. z2[s] = [agree |-> a, disagree |-> b]
        BY <3>2
      <4>3. a = z[s].agree + Offers(R[k].pendings, s, call.price)
        BY <1>4
      <4> HIDE DEF a, b
      <4>4. z2[s] \in [agree : Nat, disagree : Nat] /\ z2[s].agree = a
        BY <4>1, <4>2
      <4> QED BY <4>3, <4>4
    <3> QED BY <2>5, <3>3, <3>4 DEF Scores
  <2> QED BY <2>4, <2>5
<1>7. l2 \in [Market -> Nat] /\ l2 = [l EXCEPT ![call.market] = Max({l[call.market], call.round})]
  <2>1. l[call.market] \in Nat
    BY <1>1, <1>3
  <2>2. Max({l[call.market], call.round}) \in Nat
    BY <1>1, <2>1, MaxTwo
  <2> QED BY <1>1, <1>3, <2>2 DEF newer_round
<1>8. R2 \in [Key -> ReqSet] /\ R2[k] = req /\ \A j \in Key : j # k => R2[j] = R[j]
  <2> HIDE DEF req, k
  <2> QED BY <1>1, <1>3, <1>5
<1>9. first <=> call.kind = "propose" /\ R[k].proposed = NoPrice
  BY <1>4
<1> HIDE DEF req, z2, l2, w2, R2, first, k
<1> DEFINE c == on_confirmed(g, call, t)
<1>10. /\ c.reqs = R2 /\ c.latest_round = l2 /\ c.senders = z2
       /\ c = [reqs |-> c.reqs, latest_round |-> c.latest_round, senders |-> c.senders,
               tips |-> c.tips, tx_tip |-> c.tx_tip]
  BY <1>2 DEF GateOf
<1> HIDE DEF c
<1>11. IsGate(c)
  BY <1>6, <1>7, <1>8, <1>10 DEF IsGate
<1>12. Confirmed(g, call, c)
  BY <1>5, <1>6, <1>7, <1>8, <1>9, <1>10, <1>11 DEF Confirmed, k, R, l, z
<1> QED BY <1>12 DEF c

\* What the minute task does to the gate.
LEMMA PruneFacts ==
  ASSUME NEW g, IsGate(g), now \in Nat, NEW m, m = [prune(g) EXCEPT !.tips = fresh_tips(prune(g).tips)]
  PROVE  /\ IsGate(m) /\ m.latest_round = g.latest_round /\ m.senders = g.senders
         /\ m.reqs = prune(g).reqs
         /\ \A k \in Key : m.reqs[k] \in {g.reqs[k], NoReq}
<1> DEFINE R == g.reqs
           l == g.latest_round
           z == g.senders
           w == g.tips
           h == g.tx_tip
           R2 == [k \in Key |-> IF now - R[k].touched < StateTtl THEN R[k] ELSE NoReq]
           h2 == [t \in Tx |-> IF now - h[t].at < TipWindow THEN h[t] ELSE [at |-> 0, tip |-> 0]]
<1>1. g = GateOf(R, l, z, w, h) /\ R \in [Key -> ReqSet] /\ l \in [Market -> Nat] /\ z \in Scores
  BY DEF IsGate, GateOf
<1>2. prune(g) = Without(g, R2, h2)
  BY <1>1 DEF prune, Without, GateOf
<1>3. NoReq \in ReqSet
  BY DEF NoReq, ReqSet, Maybe
<1>4. R2 \in [Key -> ReqSet] /\ \A k \in Key : R2[k] \in {R[k], NoReq}
  <2> HIDE DEF R
  <2> QED BY <1>1, <1>3
<1> HIDE DEF R, l, z, w, h, R2, h2
<1>5. prune(g) = GateOf(R2, l, z, w, h2)
  BY <1>1, <1>2, PruneFields
<1> DEFINE w2 == fresh_tips(prune(g).tips)
<1> HIDE DEF w2
<1>6. m = [GateOf(R2, l, z, w, h2) EXCEPT !.tips = w2]
  BY <1>5, Zenon DEF w2
<1>7. [GateOf(R2, l, z, w, h2) EXCEPT !.tips = w2] = GateOf(R2, l, z, w2, h2)
  BY DEF GateOf
<1>8. m = GateOf(R2, l, z, w2, h2)
  BY <1>6, <1>7, Zenon
<1>9. /\ m.reqs = R2 /\ m.latest_round = l /\ m.senders = z /\ prune(g).reqs = R2
      /\ m = [reqs |-> m.reqs, latest_round |-> m.latest_round, senders |-> m.senders,
              tips |-> m.tips, tx_tip |-> m.tx_tip]
  BY <1>5, <1>8 DEF GateOf
<1>10. IsGate(m)
  BY <1>1, <1>4, <1>9 DEF IsGate
<1> QED BY <1>4, <1>9, <1>10 DEF R, l, z

-----------------------------------------------------------------------------
(* The invariant *)

Offer == Key \X Price
Told == [Sender -> [Offer -> Nat]]

\* The prices of s remembered for an offer, and the ones already scored or
\* forgotten.
Held(g, s, o) == Offers(g.reqs[o[1]].pendings, s, o[2])
Spent(g, tl, s) == [o \in Offer |-> tl[s][o] - Held(g, s, o)]

Shape(g, tl, pu, ne) ==
  IsGate(g) /\ tl \in Told /\ pu \in [Key -> Nat] /\ ne \in [Market -> Nat]

\* A request of which a proposal was pushed says so until prune forgets it.
OnceInv(g, pu, fg) ==
  \A k \in Key : /\ pu[k] <= fg[k] + (IF g.reqs[k].emitted_price = NoPrice THEN 0 ELSE 1)
                 /\ g.reqs[k].emitted_price # NoPrice => g.reqs[k].touched > 0

\* A score has no more than the prices offered, landed and not still held.
ScoreInv(g, tl, ld) ==
  \A s \in Sender : /\ \A o \in Offer : Held(g, s, o) <= tl[s][o]
                    /\ g.senders[s].agree <= Seed[s].agree + SumFunctionOnSet(Spent(g, tl, s), ld)

FileInv(d, tl, ld) ==
  \A s \in Sender : d[s].agree <= Seed[s].agree + SumFunctionOnSet(tl[s], ld)

\* What was mined, and what is to be read of it, has landed.
Landed(t, ld) ==
  \A i \in DOMAIN Calls(t) :
    Calls(t)[i].kind = "propose" => <<request_key(Calls(t)[i]), Calls(t)[i].price>> \in ld

ChainInv ==
  /\ mined \in Seq(Tx) /\ landed \in SUBSET Offer /\ IsFiniteSet(landed)
  /\ \A i \in 1..Len(mined) : Landed(mined[i], landed)
  /\ \A u \in unread : Landed(u[1], landed)

GateInv ==
  /\ now \in Nat \ {0} /\ disk \in Scores /\ forgot \in [Key -> Nat]
  /\ Shape(gate, told, pushes, newest)
  /\ gate.latest_round = newest
  /\ OnceInv(gate, pushes, forgot)
  /\ ChainInv
  /\ ScoreInv(gate, told, landed)
  /\ FileInv(disk, told, landed)

LEMMA HeldNat ==
  ASSUME NEW g, IsGate(g), NEW s, NEW o \in Offer
  PROVE  Held(g, s, o) \in Nat
<1>1. o[1] \in Key
  BY DEF Offer
<1>2. g.reqs[o[1]].pendings \in Seq(Sender \X Price)
  BY <1>1 DEF IsGate, ReqSet
<1> QED BY <1>2, MatchNat DEF Held

\* No score, or one by the offers of y that are held no more, and none of
\* what was spent is given back.
LEMMA ScoreKept ==
  ASSUME NEW g, IsGate(g), NEW tl \in Told, NEW h, IsGate(h), NEW tl2 \in Told,
         NEW ld \in SUBSET Offer, IsFiniteSet(ld), ScoreInv(g, tl, ld), NEW y \in ld,
         NEW d \in [Sender -> Nat],
         \A s \in Sender : \A o \in Offer :
            Held(h, s, o) + (IF o = y THEN d[s] ELSE 0) + tl[s][o] <= tl2[s][o] + Held(g, s, o),
         \A s \in Sender : h.senders[s].agree = g.senders[s].agree + d[s]
  PROVE  ScoreInv(h, tl2, ld)
<1> SUFFICES ASSUME NEW s \in Sender
             PROVE  /\ \A o \in Offer : Held(h, s, o) <= tl2[s][o]
                    /\ h.senders[s].agree <= Seed[s].agree + SumFunctionOnSet(Spent(h, tl2, s), ld)
  BY DEF ScoreInv
<1> DEFINE F == Spent(g, tl, s)
           G == Spent(h, tl2, s)
<1>1. \A o \in Offer : /\ Held(g, s, o) \in Nat /\ Held(h, s, o) \in Nat
                       /\ tl[s][o] \in Nat /\ tl2[s][o] \in Nat /\ Held(g, s, o) <= tl[s][o]
  BY HeldNat DEF Told, ScoreInv
<1>2. /\ d[s] \in Nat /\ h.senders[s].agree = g.senders[s].agree + d[s]
      /\ g.senders[s].agree \in Nat /\ Seed[s].agree \in Nat
      /\ g.senders[s].agree <= Seed[s].agree + SumFunctionOnSet(F, ld)
  BY InputAssumption DEF IsGate, Scores, ScoreInv
<1>3. ASSUME NEW o \in Offer
      PROVE  /\ Held(h, s, o) <= tl2[s][o] /\ F[o] \in Nat /\ G[o] \in Nat /\ F[o] <= G[o]
             /\ o = y => F[o] + d[s] <= G[o]
  <2>1. F[o] = tl[s][o] - Held(g, s, o) /\ G[o] = tl2[s][o] - Held(h, s, o)
    BY DEF Spent
  <2>2. Held(h, s, o) + (IF o = y THEN d[s] ELSE 0) + tl[s][o] <= tl2[s][o] + Held(g, s, o)
    OBVIOUS
  <2> HIDE DEF F, G
  <2>3. CASE o = y
    BY <1>1, <1>2, <2>1, <2>2, <2>3
  <2>4. CASE o # y
    BY <1>1, <1>2, <2>1, <2>2, <2>4
  <2> QED BY <2>3, <2>4
<1> HIDE DEF F, G
<1>4. /\ \A o \in ld : F[o] \in Nat /\ G[o] \in Nat /\ F[o] <= G[o]
      /\ F[y] + d[s] <= G[y]
  BY <1>3
<1>5. /\ SumFunctionOnSet(F, ld) \in Nat /\ SumFunctionOnSet(G, ld) \in Nat
      /\ SumFunctionOnSet(F, ld) + (IF y \in ld THEN d[s] ELSE 0) <= SumFunctionOnSet(G, ld)
  BY <1>2, <1>4, SumGain
<1>6. SumFunctionOnSet(F, ld) + d[s] <= SumFunctionOnSet(G, ld)
  BY <1>5
<1>7. h.senders[s].agree <= Seed[s].agree + SumFunctionOnSet(G, ld)
  BY <1>2, <1>5, <1>6
<1> QED BY <1>3, <1>7 DEF G

\* The same where no score changes, whatever has landed.
LEMMA ScoreSame ==
  ASSUME NEW g, IsGate(g), NEW tl \in Told, NEW h, IsGate(h), NEW tl2 \in Told,
         NEW ld \in SUBSET Offer, IsFiniteSet(ld), ScoreInv(g, tl, ld), h.senders = g.senders,
         \A s \in Sender : \A o \in Offer : Held(h, s, o) + tl[s][o] <= tl2[s][o] + Held(g, s, o)
  PROVE  ScoreInv(h, tl2, ld)
<1> SUFFICES ASSUME NEW s \in Sender
             PROVE  /\ \A o \in Offer : Held(h, s, o) <= tl2[s][o]
                    /\ h.senders[s].agree <= Seed[s].agree + SumFunctionOnSet(Spent(h, tl2, s), ld)
  BY DEF ScoreInv
<1> DEFINE F == Spent(g, tl, s)
           G == Spent(h, tl2, s)
<1>1. \A o \in Offer : /\ Held(g, s, o) \in Nat /\ Held(h, s, o) \in Nat
                       /\ tl[s][o] \in Nat /\ tl2[s][o] \in Nat /\ Held(g, s, o) <= tl[s][o]
  BY HeldNat DEF Told, ScoreInv
<1>2. /\ h.senders[s].agree = g.senders[s].agree
      /\ g.senders[s].agree \in Nat /\ Seed[s].agree \in Nat
      /\ g.senders[s].agree <= Seed[s].agree + SumFunctionOnSet(F, ld)
  BY InputAssumption DEF IsGate, Scores, ScoreInv
<1>3. ASSUME NEW o \in Offer
      PROVE  /\ Held(h, s, o) <= tl2[s][o] /\ F[o] \in Nat /\ G[o] \in Nat /\ F[o] <= G[o]
             /\ F[o] + 0 <= G[o]
  <2>1. F[o] = tl[s][o] - Held(g, s, o) /\ G[o] = tl2[s][o] - Held(h, s, o)
    BY DEF Spent
  <2>2. Held(h, s, o) + tl[s][o] <= tl2[s][o] + Held(g, s, o)
    OBVIOUS
  <2> HIDE DEF F, G
  <2> QED BY <1>1, <2>1, <2>2
<1> HIDE DEF F, G
<1>4. \A o \in ld : F[o] \in Nat /\ G[o] \in Nat /\ F[o] <= G[o] /\ F[o] + 0 <= G[o]
  BY <1>3
<1>5. /\ SumFunctionOnSet(F, ld) \in Nat /\ SumFunctionOnSet(G, ld) \in Nat
      /\ SumFunctionOnSet(F, ld) + (IF s \in ld THEN 0 ELSE 0) <= SumFunctionOnSet(G, ld)
  <2>1. 0 \in Nat
    OBVIOUS
  <2> QED BY <1>4, <2>1, SumGain
<1>7. h.senders[s].agree <= Seed[s].agree + SumFunctionOnSet(G, ld)
  BY <1>2, <1>5
<1> QED BY <1>3, <1>7 DEF G

-----------------------------------------------------------------------------
(* A line of the pending feed *)

\* What holds after some of the calls of a line, beside the state before it.
AccOK(acc) ==
  /\ Shape(acc.gate, acc.told, acc.pushes, acc.newest)
  /\ acc.gate.latest_round = acc.newest
  /\ OnceInv(acc.gate, acc.pushes, forgot)
  /\ ScoreInv(acc.gate, acc.told, landed)
  /\ \A m \in Market : newest[m] <= acc.newest[m]
  /\ \A k \in Key : acc.pushes[k] > pushes[k] => k.round >= newest[k.market]
  /\ \A s \in Sender : \A o \in Offer : told[s][o] <= acc.told[s][o]

LEMMA PassStep ==
  ASSUME GateInv, NEW acc, AccOK(acc), NEW call \in OneCall, NEW t \in Tx
  PROVE  AccOK(Pass(acc, call, t))
<1> DEFINE g == acc.gate
           h == check(g, call, t)[1]
           v == check(g, call, t)[2]
           k == request_key(call)
           offer == <<k, call.price>>
           propose == call.kind = "propose"
           tl == acc.told
           tl2 == IF ~propose THEN tl ELSE [tl EXCEPT ![From[t]][offer] = @ + 1]
           pu == acc.pushes
           pu2 == IF propose /\ v = "Emit" THEN [pu EXCEPT ![k] = @ + 1] ELSE pu
           ne == acc.newest
           ne2 == [ne EXCEPT ![call.market] = Max({ne[call.market], call.round})]
           end == Pass(acc, call, t)
<1>0. now \in Nat /\ now > 0 /\ landed \in SUBSET Offer /\ IsFiniteSet(landed)
      /\ newest \in [Market -> Nat] /\ pushes \in [Key -> Nat] /\ forgot \in [Key -> Nat] /\ told \in Told
  BY DEF GateInv, ChainInv, Shape
<1>1. /\ k \in Key /\ k.market = call.market /\ k.round = call.round /\ call.market \in Market
      /\ call.round \in Nat /\ call.kind \in {"propose", "dispute"}
      /\ (propose => call.price \in Price)
  BY CallKey
<1>2. end.gate = h /\ end.told = tl2 /\ end.pushes = pu2 /\ end.newest = ne2
  BY <1>1 DEF Pass
<1>3. IsGate(g) /\ tl \in Told /\ pu \in [Key -> Nat] /\ ne \in [Market -> Nat] /\ g.latest_round = ne
  BY DEF AccOK, Shape
<1>4. Checked(g, call, t, h, v)
  BY <1>0, <1>3, CheckFacts
<1> HIDE DEF h, v, end, k
<1>5. From[t] \in Sender /\ (propose => offer \in Offer)
  BY <1>1, InputAssumption DEF Offer
<1>6. ne2 \in [Market -> Nat] /\ h.latest_round = ne2 /\ \A m \in Market : ne[m] <= ne2[m]
  <2>1. ne[call.market] \in Nat
    BY <1>1, <1>3
  <2>2. Max({ne[call.market], call.round}) = IF ne[call.market] >= call.round THEN ne[call.market] ELSE call.round
    BY <1>1, <2>1, MaxTwo
  <2>3. CASE call.round < ne[call.market]
    <3>1. ne2 = ne
      BY <1>1, <1>3, <2>1, <2>2, <2>3
    <3>2. h.latest_round = ne
      BY <1>3, <1>4, <2>3 DEF Checked
    <3>3. \A m \in Market : ne[m] <= ne[m]
      BY <1>3
    <3> QED BY <1>3, <3>1, <3>2, <3>3, Zenon
  <2>4. CASE ~(call.round < ne[call.market])
    <3>1. ne2 = [ne EXCEPT ![call.market] = call.round]
      BY <1>1, <2>1, <2>2, <2>4
    <3>2. h.latest_round = [ne EXCEPT ![call.market] = call.round]
      BY <1>3, <1>4, <2>4 DEF Checked
    <3> HIDE DEF ne, ne2
    <3>3. ne2 \in [Market -> Nat] /\ \A m \in Market : ne[m] <= ne2[m]
      BY <1>1, <1>3, <2>1, <2>4, <3>1
    <3> QED BY <3>1, <3>2, <3>3
  <2> QED BY <2>3, <2>4
<1>7. tl2 \in Told /\ \A s \in Sender : \A o \in Offer :
        tl2[s][o] = tl[s][o] + (IF propose /\ s = From[t] /\ o = offer THEN 1 ELSE 0)
  <2>1. CASE ~propose
    BY <1>3, <2>1 DEF Told
  <2>2. CASE propose
    <3>1. tl2 = [tl EXCEPT ![From[t]] = [tl[From[t]] EXCEPT ![offer] = tl[From[t]][offer] + 1]]
      BY <2>2
    <3>2. offer \in Offer
      BY <1>5, <2>2
    <3> HIDE DEF offer, tl2
    <3> QED BY <1>3, <1>5, <2>2, <3>1, <3>2 DEF Told
  <2> QED BY <2>1, <2>2
<1>8. pu2 \in [Key -> Nat] /\ \A j \in Key :
        pu2[j] = pu[j] + (IF propose /\ v = "Emit" /\ j = k THEN 1 ELSE 0)
  BY <1>1, <1>3
<1> HIDE DEF tl2, pu2, ne2
<1>9. IsGate(h) /\ h.senders = g.senders
  BY <1>4 DEF Checked
<1>10. OnceInv(h, pu2, forgot)
  <2> SUFFICES ASSUME NEW j \in Key
               PROVE  /\ pu2[j] <= forgot[j] + (IF h.reqs[j].emitted_price = NoPrice THEN 0 ELSE 1)
                      /\ h.reqs[j].emitted_price # NoPrice => h.reqs[j].touched > 0
    BY DEF OnceInv
  <2>1. /\ pu[j] <= forgot[j] + (IF g.reqs[j].emitted_price = NoPrice THEN 0 ELSE 1)
        /\ g.reqs[j].emitted_price # NoPrice => g.reqs[j].touched > 0
        /\ pu[j] \in Nat /\ forgot[j] \in Nat
    BY <1>0, <1>3 DEF AccOK, OnceInv
  <2>2. CASE j # k
    <3>1. h.reqs[j] = g.reqs[j] /\ pu2[j] = pu[j]
      BY <1>4, <1>8, <2>1, <2>2 DEF Checked, k
    <3> QED BY <2>1, <3>1
  <2>3. CASE j = k
    <3>1. v = "Emit" \/ ~(call.round < g.latest_round[call.market]) => h.reqs[k].touched = now
      BY <1>4 DEF Checked, k
    <3>2. call.round < g.latest_round[call.market] => h.reqs[k] = g.reqs[k]
      BY <1>4 DEF Checked, k
    <3>3. h.reqs[j].emitted_price # NoPrice => h.reqs[j].touched > 0
      BY <1>0, <2>1, <2>3, <3>1, <3>2
    <3>4. CASE v = "Emit" /\ propose
      <4>1. g.reqs[k].emitted_price = NoPrice /\ h.reqs[k].emitted_price = call.price
        BY <1>4, <3>4 DEF Checked, k
      <4>2. call.price # NoPrice
        BY <1>1, <3>4, InputAssumption
      <4>3. pu2[j] = pu[j] + 1
        BY <1>8, <2>3, <3>4
      <4>4. pu[j] <= forgot[j] + 0
        BY <2>1, <2>3, <4>1
      <4>5. pu2[j] <= forgot[j] + 1
        BY <2>1, <4>3, <4>4
      <4> QED BY <2>3, <3>3, <4>1, <4>2, <4>5
    <3>5. CASE ~(v = "Emit" /\ propose)
      <4>1. h.reqs[k].emitted_price = g.reqs[k].emitted_price
        BY <1>4, <3>5 DEF Checked, k
      <4>2. pu2[j] = pu[j]
        BY <1>8, <2>1, <3>5
      <4> QED BY <2>1, <2>3, <3>3, <4>1, <4>2
    <3> QED BY <3>4, <3>5
  <2> QED BY <2>2, <2>3
<1>11. ASSUME NEW s \in Sender, NEW o \in Offer
       PROVE  Held(h, s, o) + tl[s][o] <= tl2[s][o] + Held(g, s, o)
  <2>1. Held(g, s, o) \in Nat /\ tl[s][o] \in Nat /\ tl2[s][o] \in Nat /\ tl[s][o] <= tl2[s][o]
    BY <1>3, <1>7, HeldNat DEF Told
  <2>2. CASE h.reqs[o[1]].pendings = g.reqs[o[1]].pendings
    <3>1. Held(h, s, o) = Held(g, s, o)
      BY <2>2 DEF Held
    <3> QED BY <2>1, <3>1
  <2>3. CASE h.reqs[o[1]].pendings # g.reqs[o[1]].pendings
    <3> DEFINE q == g.reqs[k].pendings
    <3>1. o[1] \in Key
      BY DEF Offer
    <3>2. o[1] = k
      BY <1>4, <2>3, <3>1 DEF Checked, k
    <3>3. h.reqs[k].pendings = remember(g.reqs[k], call, From[t])
      BY <1>4, <2>3, <3>2 DEF Checked, k
    <3>4. propose /\ h.reqs[k].pendings = Append(q, <<From[t], call.price>>)
      BY <2>3, <3>2, <3>3 DEF remember
    <3>5. q \in Seq(Sender \X Price)
      BY <1>1, <1>3 DEF IsGate, ReqSet
    <3>6. call.price \in Price
      BY <1>1, <3>4
    <3> HIDE DEF q
    <3>7. Offers(h.reqs[k].pendings, s, o[2])
          = Offers(q, s, o[2]) + (IF From[t] = s /\ call.price = o[2] THEN 1 ELSE 0)
      <4> DEFINE a == From[t]
                 b == call.price
                 p == o[2]
                 r == h.reqs[k].pendings
      <4>0. a \in Sender /\ b \in Price
        BY <1>5, <3>6
      <4>1. Added(q, a, b, r)
        BY <3>4 DEF Added
      <4> HIDE DEF a, b, p, r
      <4>2. Offers(r, s, p) = Offers(q, s, p) + IsHit(a, b, s, p)
        BY <3>5, <4>0, <4>1, MatchAppend
      <4> QED BY <4>2 DEF IsHit, a, b, p, r
    <3>8. Held(h, s, o) = Held(g, s, o) + (IF From[t] = s /\ call.price = o[2] THEN 1 ELSE 0)
      BY <3>2, <3>7 DEF Held, q
    <3>9. call.price = o[2] => o = offer
      BY <3>2 DEF Offer
    <3>10. tl2[s][o] = tl[s][o] + (IF propose /\ s = From[t] /\ o = offer THEN 1 ELSE 0)
      BY <1>7
    <3>11. CASE From[t] = s /\ call.price = o[2]
      <4>1. tl2[s][o] = tl[s][o] + 1 /\ Held(h, s, o) = Held(g, s, o) + 1
        BY <3>4, <3>8, <3>9, <3>10, <3>11
      <4> QED BY <2>1, <4>1
    <3>12. CASE ~(From[t] = s /\ call.price = o[2])
      <4>1. Held(h, s, o) = Held(g, s, o)
        BY <2>1, <3>8, <3>12
      <4> QED BY <2>1, <4>1
    <3> QED BY <3>11, <3>12
  <2> QED BY <2>2, <2>3
<1>12. ScoreInv(h, tl2, landed)
  <2>1. ScoreInv(g, tl, landed)
    BY DEF AccOK
  <2> HIDE DEF g, tl
  <2> QED BY <1>0, <1>3, <1>7, <1>9, <1>11, <2>1, ScoreSame
<1>13. \A m \in Market : newest[m] <= ne2[m]
  <2>1. \A m \in Market : newest[m] <= ne[m]
    BY DEF AccOK
  <2>2. \A m \in Market : newest[m] \in Nat /\ ne[m] \in Nat /\ ne2[m] \in Nat
    BY <1>0, <1>3, <1>6
  <2> HIDE DEF ne
  <2> QED BY <1>6, <2>1, <2>2
<1>14. ASSUME NEW j \in Key, pu2[j] > pushes[j] PROVE j.round >= newest[j.market]
  <2>1. CASE pu[j] > pushes[j]
    BY <2>1 DEF AccOK
  <2>2. CASE ~(pu[j] > pushes[j])
    <3>1. propose /\ v = "Emit" /\ j = k
      BY <1>0, <1>3, <1>8, <1>14, <2>2
    <3>2. ~(call.round < g.latest_round[call.market])
      BY <1>4, <3>1 DEF Checked
    <3>3. newest[call.market] <= ne[call.market] /\ ne[call.market] \in Nat /\ newest[call.market] \in Nat
      BY <1>0, <1>1, <1>3 DEF AccOK
    <3>4. call.round >= newest[call.market]
      BY <1>1, <1>3, <3>2, <3>3
    <3> QED BY <1>1, <3>1, <3>4
  <2> QED BY <2>1, <2>2
<1>15. ASSUME NEW s \in Sender, NEW o \in Offer PROVE told[s][o] <= tl2[s][o]
  <2>1. told[s][o] <= tl[s][o]
    BY DEF AccOK
  <2>2. told[s][o] \in Nat /\ tl[s][o] \in Nat /\ tl2[s][o] \in Nat /\ tl[s][o] <= tl2[s][o]
    BY <1>0, <1>3, <1>7 DEF Told
  <2> QED BY <2>1, <2>2
<1>16. AccOK(end)
  BY <1>2, <1>6, <1>7, <1>8, <1>9, <1>10, <1>12, <1>13, <1>14, <1>15 DEF AccOK, Shape
<1> QED BY <1>16 DEF end

\* The recursion of Passed.
Start == [gate |-> gate, told |-> told, pushes |-> pushes, newest |-> newest]
LineStep(t, f, n) == IF n = 0 THEN Start ELSE Pass(f[n - 1], Calls(t)[n], t)
Passes(t, f, m) == f = [n \in 0..m |-> LineStep(t, f, n)]

\* There is a function that satisfies it.
LEMMA PassedExists ==
  ASSUME NEW t, NEW m \in Nat
  PROVE  \E f : Passes(t, f, m)
<1> DEFINE S == {k \in Nat : \E f : f = [n \in 0..k |-> LineStep(t, f, n)]}
<1>1. 0 \in S
  <2> DEFINE f == [n \in 0..0 |-> Start]
  <2>1. \A n \in 0..0 : LineStep(t, f, n) = Start
    BY DEF LineStep
  <2>2. f = [n \in 0..0 |-> LineStep(t, f, n)]
    BY <2>1
  <2> QED BY <2>2
<1>2. ASSUME NEW k \in Nat, k \in S PROVE k + 1 \in S
  <2>1. PICK f : f = [n \in 0..k |-> LineStep(t, f, n)]
    BY <1>2
  <2> DEFINE g == [n \in 0..(k + 1) |-> IF n \in 0..k THEN f[n] ELSE LineStep(t, f, n)]
  <2>2. \A n \in 0..(k + 1) : g[n] = LineStep(t, f, n)
    BY <2>1
  <2>3. \A n \in 0..(k + 1) : n # 0 => g[n - 1] = f[n - 1]
    OBVIOUS
  <2>4. g = [n \in 0..(k + 1) |-> g[n]]
    OBVIOUS
  <2> HIDE DEF g
  <2>5. \A n \in 0..(k + 1) : g[n] = LineStep(t, g, n)
    BY <2>2, <2>3 DEF LineStep
  <2>6. g = [n \in 0..(k + 1) |-> LineStep(t, g, n)]
    BY <2>4, <2>5
  <2> QED BY <2>6
<1> HIDE DEF S
<1>3. m \in S
  BY <1>1, <1>2, UptoInduction
<1>4. PICK f : f = [n \in 0..m |-> LineStep(t, f, n)]
  BY <1>3 DEF S
<1>5. Passes(t, f, m)
  BY <1>4 DEF Passes
<1> QED BY <1>5

LEMMA PassedOK ==
  ASSUME GateInv, NEW t \in Tx
  PROVE  AccOK(Passed(t))
<1> DEFINE c == Calls(t)
           f == CHOOSE f : f = [n \in 0..Len(c) |-> LineStep(t, f, n)]
           S == {n \in Nat : AccOK(f[n])}
<1>1. c \in Seq(OneCall) /\ Len(c) \in Nat
  BY CallsType
<1>2. Passed(t) = f[Len(c)]
  BY DEF Passed, LineStep, Start
<1>3. f = [n \in 0..Len(c) |-> LineStep(t, f, n)]
  <2>1. \E h : Passes(t, h, Len(c))
    BY <1>1, PassedExists
  <2> QED BY <2>1 DEF Passes
<1> HIDE DEF f, c
<1>4. \A n \in 0..Len(c) : f[n] = LineStep(t, f, n)
  BY <1>3
<1>5. AccOK(Start)
  <2>1. /\ Start.gate = gate /\ Start.told = told /\ Start.pushes = pushes /\ Start.newest = newest
    BY DEF Start
  <2>2. /\ newest \in [Market -> Nat] /\ pushes \in [Key -> Nat] /\ told \in Told
    BY DEF GateInv, Shape
  <2>3. /\ \A m \in Market : newest[m] <= newest[m]
        /\ \A k \in Key : ~(pushes[k] > pushes[k])
        /\ \A s \in Sender : \A o \in Offer : told[s][o] <= told[s][o]
    BY <2>2 DEF Told
  <2> QED BY <2>1, <2>3 DEF AccOK, GateInv
<1>6. 0 \in S
  <2>1. 0 \in 0..Len(c)
    BY <1>1
  <2>2. f[0] = Start
    BY <1>4, <2>1 DEF LineStep
  <2> QED BY <1>5, <2>2
<1>7. ASSUME NEW n \in Nat, n < Len(c), n \in S PROVE n + 1 \in S
  <2>1. n + 1 \in 0..Len(c) /\ n + 1 \in 1..Len(c) /\ n + 1 # 0 /\ (n + 1) - 1 = n
    BY <1>1, <1>7
  <2>2. f[n + 1] = Pass(f[n], c[n + 1], t)
    BY <1>4, <2>1 DEF LineStep, c
  <2>3. c[n + 1] \in OneCall
    BY <1>1, <2>1
  <2>4. AccOK(f[n])
    BY <1>7
  <2>5. AccOK(Pass(f[n], c[n + 1], t))
    BY <2>3, <2>4, PassStep
  <2> QED BY <2>2, <2>5
<1> HIDE DEF S
<1>8. Len(c) \in S
  BY <1>1, <1>6, <1>7, UptoInduction
<1> QED BY <1>2, <1>8 DEF S

-----------------------------------------------------------------------------
(* The steps *)

\* A larger told, or more landed, leaves what the file has earned.
LEMMA FileGrows ==
  ASSUME NEW d \in Scores, NEW tl \in Told, NEW tl2 \in Told,
         NEW ld2 \in SUBSET Offer, IsFiniteSet(ld2), NEW ld \in SUBSET ld2, FileInv(d, tl, ld),
         \A s \in Sender : \A o \in Offer : tl[s][o] <= tl2[s][o]
  PROVE  FileInv(d, tl2, ld2)
<1> SUFFICES ASSUME NEW s \in Sender
             PROVE  d[s].agree <= Seed[s].agree + SumFunctionOnSet(tl2[s], ld2)
  BY DEF FileInv
<1> DEFINE F == tl[s]
           G == tl2[s]
<1>1. \A o \in ld2 : F[o] \in Nat /\ G[o] \in Nat /\ F[o] <= G[o] /\ F[o] + 0 <= G[o]
  BY DEF Told
<1>2. d[s].agree <= Seed[s].agree + SumFunctionOnSet(F, ld) /\ d[s].agree \in Nat /\ Seed[s].agree \in Nat
  BY InputAssumption DEF FileInv, Scores
<1> HIDE DEF F, G
<1>3. /\ SumFunctionOnSet(F, ld) \in Nat /\ SumFunctionOnSet(F, ld2) \in Nat
      /\ SumFunctionOnSet(F, ld) <= SumFunctionOnSet(F, ld2)
  BY <1>1, SumGrows
<1>4. /\ SumFunctionOnSet(G, ld2) \in Nat
      /\ SumFunctionOnSet(F, ld2) + (IF s \in ld2 THEN 0 ELSE 0) <= SumFunctionOnSet(G, ld2)
  <2>1. 0 \in Nat
    OBVIOUS
  <2> QED BY <1>1, <2>1, SumGain
<1>5. d[s].agree <= Seed[s].agree + SumFunctionOnSet(G, ld2)
  BY <1>2, <1>3, <1>4
<1> QED BY <1>5 DEF G

\* More landed leaves what the gate has earned.
LEMMA ScoreGrows ==
  ASSUME NEW g, IsGate(g), NEW tl \in Told,
         NEW ld2 \in SUBSET Offer, IsFiniteSet(ld2), NEW ld \in SUBSET ld2, ScoreInv(g, tl, ld)
  PROVE  ScoreInv(g, tl, ld2)
<1> SUFFICES ASSUME NEW s \in Sender
             PROVE  /\ \A o \in Offer : Held(g, s, o) <= tl[s][o]
                    /\ g.senders[s].agree <= Seed[s].agree + SumFunctionOnSet(Spent(g, tl, s), ld2)
  BY DEF ScoreInv
<1> DEFINE F == Spent(g, tl, s)
<1>1. \A o \in Offer : Held(g, s, o) <= tl[s][o] /\ Held(g, s, o) \in Nat /\ tl[s][o] \in Nat
  BY HeldNat DEF ScoreInv, Told
<1>2. \A o \in Offer : F[o] \in Nat
  BY <1>1 DEF Spent
<1>3. g.senders[s].agree <= Seed[s].agree + SumFunctionOnSet(F, ld)
      /\ g.senders[s].agree \in Nat /\ Seed[s].agree \in Nat
  BY InputAssumption DEF ScoreInv, IsGate, Scores
<1> HIDE DEF F
<1>4. \A o \in ld2 : F[o] \in Nat
  BY <1>2
<1>5. /\ SumFunctionOnSet(F, ld) \in Nat /\ SumFunctionOnSet(F, ld2) \in Nat
      /\ SumFunctionOnSet(F, ld) <= SumFunctionOnSet(F, ld2)
  BY <1>4, SumGrows
<1>6. g.senders[s].agree <= Seed[s].agree + SumFunctionOnSet(F, ld2)
  BY <1>3, <1>5
<1> QED BY <1>1, <1>6 DEF F

\* The scores of the gate are fit for the file.
LEMMA ScoreToFile ==
  ASSUME NEW g, IsGate(g), NEW tl \in Told,
         NEW ld \in SUBSET Offer, IsFiniteSet(ld), ScoreInv(g, tl, ld)
  PROVE  FileInv(g.senders, tl, ld)
<1> SUFFICES ASSUME NEW s \in Sender
             PROVE  g.senders[s].agree <= Seed[s].agree + SumFunctionOnSet(tl[s], ld)
  BY DEF FileInv
<1> DEFINE F == Spent(g, tl, s)
           G == tl[s]
<1>1. \A o \in Offer : Held(g, s, o) <= G[o] /\ Held(g, s, o) \in Nat /\ G[o] \in Nat
  BY HeldNat DEF ScoreInv, Told
<1>2. \A o \in Offer : F[o] = G[o] - Held(g, s, o)
  BY DEF Spent
<1>3. g.senders[s].agree <= Seed[s].agree + SumFunctionOnSet(F, ld)
      /\ g.senders[s].agree \in Nat /\ Seed[s].agree \in Nat
  BY InputAssumption DEF ScoreInv, IsGate, Scores
<1> HIDE DEF F, G
<1>4. \A o \in Offer : F[o] \in Nat /\ G[o] \in Nat /\ F[o] <= G[o] /\ F[o] + 0 <= G[o]
  BY <1>1, <1>2
<1>5. \A o \in ld : F[o] \in Nat /\ G[o] \in Nat /\ F[o] <= G[o] /\ F[o] + 0 <= G[o]
  BY <1>4
<1>6. /\ SumFunctionOnSet(F, ld) \in Nat /\ SumFunctionOnSet(G, ld) \in Nat
      /\ SumFunctionOnSet(F, ld) + (IF s \in ld THEN 0 ELSE 0) <= SumFunctionOnSet(G, ld)
  <2>1. 0 \in Nat
    OBVIOUS
  <2> QED BY <1>5, <2>1, SumGain
<1>7. g.senders[s].agree <= Seed[s].agree + SumFunctionOnSet(G, ld)
  BY <1>3, <1>6
<1> QED BY <1>7 DEF G

\* A new gate that has the scores of a file.
LEMMA ScoreFromFile ==
  ASSUME NEW d \in Scores, NEW tl \in Told,
         NEW ld \in SUBSET Offer, IsFiniteSet(ld), FileInv(d, tl, ld)
  PROVE  ScoreInv(NewGate(d), tl, ld)
<1> DEFINE g == NewGate(d)
<1>1. IsGate(g) /\ g.senders = d /\ \A k \in Key : g.reqs[k] = NoReq
  BY NewGateType
<1> HIDE DEF g
<1> SUFFICES ASSUME NEW s \in Sender
             PROVE  /\ \A o \in Offer : Held(g, s, o) <= tl[s][o]
                    /\ g.senders[s].agree <= Seed[s].agree + SumFunctionOnSet(Spent(g, tl, s), ld)
  BY DEF ScoreInv, g
<1>2. ASSUME NEW o \in Offer PROVE Held(g, s, o) = 0
  <2>1. g.reqs[o[1]] = NoReq
    BY <1>1 DEF Offer
  <2>2. NoReq.pendings = <<>>
    BY DEF NoReq
  <2> QED BY <2>1, <2>2, MatchEmpty, Zenon DEF Held
<1>3. tl[s] \in [Offer -> Nat]
  BY DEF Told
<1>4. Spent(g, tl, s) = tl[s]
  BY <1>2, <1>3 DEF Spent
<1>5. \A o \in Offer : Held(g, s, o) <= tl[s][o]
  BY <1>2, <1>3
<1> QED BY <1>1, <1>4, <1>5 DEF FileInv

LEMMA SumNat ==
  ASSUME NEW tl \in Told, NEW ld \in SUBSET Offer, IsFiniteSet(ld), NEW s \in Sender
  PROVE  SumFunctionOnSet(tl[s], ld) \in Nat
<1> DEFINE F == tl[s]
<1>1. \A o \in ld : F[o] \in Nat
  BY DEF Told
<1>2. ld \in SUBSET ld
  OBVIOUS
<1> HIDE DEF F
<1>3. SumFunctionOnSet(F, ld) \in Nat
  BY <1>1, <1>2, SumGrows
<1> QED BY <1>3 DEF F

LEMMA SeedType == Seed \in Scores /\ \A s \in Sender : Seed[s].agree \in Nat
  BY InputAssumption DEF Scores

LEMMA InitInv == Init => GateInv
<1> SUFFICES ASSUME Init PROVE GateInv
  OBVIOUS
<1>1. /\ now = 1 /\ disk = [s \in Sender |-> SenderStat(0, 0)] /\ gate = NewGate(Seed)
      /\ unread = {} /\ mined = <<>> /\ told = [s \in Sender |-> [o \in Offer |-> 0]] /\ landed = {}
      /\ pushes = [k \in Key |-> 0] /\ forgot = [k \in Key |-> 0] /\ newest = [m \in Market |-> 0]
  BY DEF Init, Offer
<1>2. disk \in Scores /\ \A s \in Sender : disk[s].agree = 0
  BY <1>1 DEF Scores, SenderStat
<1>3. told \in Told /\ landed \in SUBSET Offer /\ IsFiniteSet(landed)
  BY <1>1, FS_EmptySet DEF Told
<1>4. /\ IsGate(gate) /\ gate.senders = Seed /\ \A k \in Key : gate.reqs[k] = NoReq
      /\ \A m \in Market : gate.latest_round[m] = 0
  BY <1>1, SeedType, NewGateType
<1>5. gate.latest_round = newest
  BY <1>1, <1>4 DEF IsGate
<1>6. OnceInv(gate, pushes, forgot)
  BY <1>1, <1>4 DEF OnceInv, NoReq
<1>7. \A s \in Sender : SumFunctionOnSet(told[s], landed) \in Nat
  BY <1>3, SumNat
<1>8. FileInv(disk, told, landed) /\ FileInv(Seed, told, landed)
  BY <1>2, <1>7, SeedType DEF FileInv
<1>9. ScoreInv(gate, told, landed)
  BY <1>1, <1>3, <1>8, SeedType, ScoreFromFile
<1>10. ChainInv
  BY <1>1, <1>3 DEF ChainInv
<1>11. now \in Nat \ {0} /\ forgot \in [Key -> Nat] /\ pushes \in [Key -> Nat] /\ newest \in [Market -> Nat]
  BY <1>1
<1> QED BY <1>2, <1>3, <1>4, <1>5, <1>6, <1>8, <1>9, <1>10, <1>11 DEF GateInv, Shape

\* A step that leaves the gate, its file and the histories alone.
LEMMA QuietStep ==
  ASSUME GateInv, UNCHANGED <<gate, disk, told, landed, pushes, forgot, newest>>,
         now' \in Nat \ {0}, ChainInv'
  PROVE  GateInv'
<1>1. /\ disk' \in Scores /\ forgot' \in [Key -> Nat]
      /\ Shape(gate', told', pushes', newest') /\ gate'.latest_round = newest'
  BY DEF GateInv
<1>2. OnceInv(gate', pushes', forgot') /\ ScoreInv(gate', told', landed') /\ FileInv(disk', told', landed')
  BY DEF GateInv
<1> QED BY <1>1, <1>2 DEF GateInv

LEMMA PendingInv ==
  ASSUME GateInv, NEW t \in Tx, Pending(t)
  PROVE  /\ GateInv'
         /\ \A k \in Key : pushes'[k] > pushes[k] => k.round >= newest[k.market]
<1> DEFINE end == Passed(t)
<1>1. /\ gate' = end.gate /\ told' = end.told /\ pushes' = end.pushes /\ newest' = end.newest
      /\ UNCHANGED <<now, unread, disk, mined, landed, forgot>>
  BY DEF Pending
<1>2. AccOK(end)
  BY PassedOK
<1> HIDE DEF end
<1>3. /\ Shape(gate', told', pushes', newest') /\ gate'.latest_round = newest'
      /\ OnceInv(gate', pushes', forgot') /\ ScoreInv(gate', told', landed')
      /\ \A k \in Key : pushes'[k] > pushes[k] => k.round >= newest[k.market]
      /\ \A s \in Sender : \A o \in Offer : told[s][o] <= told'[s][o]
  BY <1>1, <1>2 DEF AccOK
<1>4. /\ told \in Told /\ told' \in Told /\ disk \in Scores /\ FileInv(disk, told, landed)
      /\ landed \in SUBSET Offer /\ IsFiniteSet(landed) /\ landed \in SUBSET landed
  BY <1>3 DEF GateInv, Shape, ChainInv
<1>5. FileInv(disk, told', landed)
  BY <1>3, <1>4, FileGrows
<1>6. FileInv(disk', told', landed')
  BY <1>1, <1>5
<1>7. ChainInv'
  BY <1>1 DEF GateInv, ChainInv
<1>8. (now \in Nat \ {0})' /\ disk' \in Scores /\ forgot' \in [Key -> Nat]
  BY <1>1 DEF GateInv
<1> QED BY <1>3, <1>6, <1>7, <1>8 DEF GateInv

\* The proposals of a transaction.
Proposals(t) ==
  {<<request_key(c), c.price>> : c \in {Calls(t)[i] : i \in
     {j \in DOMAIN Calls(t) : Calls(t)[j].kind = "propose"}}}

LEMMA ProposalsFinite ==
  ASSUME NEW t \in Tx
  PROVE  Proposals(t) \in SUBSET Offer /\ IsFiniteSet(Proposals(t)) /\ Landed(t, Proposals(t))
<1> DEFINE c == Calls(t)
           D == {j \in 1..Len(c) : c[j].kind = "propose"}
           f == [i \in D |-> <<request_key(c[i]), c[i].price>>]
           P == {<<request_key(c[i]), c[i].price>> : i \in D}
<1>1. c \in Seq(OneCall) /\ Len(c) \in Nat /\ DOMAIN c = 1..Len(c)
  BY CallsType
<1>2. Proposals(t) = P
  BY <1>1 DEF Proposals
<1>3. \A i \in D : c[i] \in OneCall /\ c[i].kind = "propose"
  BY <1>1
<1>4. P \in SUBSET Offer
  BY <1>3, CallKey DEF Offer
<1>5. f \in Surjection(D, P)
  <2>1. f \in [D -> P] /\ \A p \in P : \E i \in D : f[i] = p
    OBVIOUS
  <2> QED BY <2>1, Fun_IsSurj
<1>6. IsFiniteSet(D)
  <2>1. D \in SUBSET (1..Len(c)) /\ IsFiniteSet(1..Len(c))
    BY <1>1, FS_Interval
  <2> HIDE DEF D
  <2> QED BY <2>1, FS_Subset
<1>7. IsFiniteSet(P)
  <2> HIDE DEF f, D, P
  <2> QED BY <1>5, <1>6, FS_Surjection
<1>8. Landed(t, P)
  BY <1>1 DEF Landed
<1> HIDE DEF P
<1> QED BY <1>2, <1>4, <1>7, <1>8

\* What has landed stays so.
LEMMA LandedGrows ==
  ASSUME NEW t, NEW ld, NEW ld2, ld \subseteq ld2, Landed(t, ld)
  PROVE  Landed(t, ld2)
  BY DEF Landed

LEMMA MineInv ==
  ASSUME GateInv, NEW t \in Tx, Mine(t)
  PROVE  GateInv'
<1>1. /\ mined' = Append(mined, t) /\ landed' = landed \cup Proposals(t)
      /\ unread' = (IF link = "live" THEN unread \cup {<<t, i>> : i \in DOMAIN Calls(t)} ELSE unread)
      /\ UNCHANGED <<now, gate, disk, told, pushes, forgot, newest>>
  BY DEF Mine, Proposals
<1>2. /\ mined \in Seq(Tx) /\ landed \in SUBSET Offer /\ IsFiniteSet(landed)
      /\ \A i \in 1..Len(mined) : Landed(mined[i], landed)
      /\ \A u \in unread : Landed(u[1], landed)
  BY DEF GateInv, ChainInv
<1>3. Proposals(t) \in SUBSET Offer /\ IsFiniteSet(Proposals(t)) /\ Landed(t, Proposals(t))
  BY ProposalsFinite
<1>4. /\ landed' \in SUBSET Offer /\ IsFiniteSet(landed') /\ landed \in SUBSET landed'
      /\ Landed(t, landed')
  <2>1. landed' \in SUBSET Offer /\ landed \in SUBSET landed' /\ Proposals(t) \subseteq landed'
    BY <1>1, <1>2, <1>3
  <2>2. IsFiniteSet(landed \cup Proposals(t))
    BY <1>2, <1>3, FS_Union
  <2>3. Landed(t, landed')
    BY <1>3, <2>1, LandedGrows
  <2> QED BY <1>1, <2>1, <2>2, <2>3
<1>5. \A i \in 1..Len(mined') : Landed(mined'[i], landed')
  <2> SUFFICES ASSUME NEW i \in 1..Len(mined') PROVE Landed(mined'[i], landed')
    OBVIOUS
  <2>1. CASE i \in 1..Len(mined)
    <3>1. mined'[i] = mined[i]
      BY <1>1, <1>2, <2>1
    <3>2. Landed(mined[i], landed)
      BY <1>2, <2>1
    <3> QED BY <1>4, <3>1, <3>2, LandedGrows
  <2>2. CASE i \notin 1..Len(mined)
    <3>1. mined'[i] = t
      BY <1>1, <1>2, <2>2
    <3> QED BY <1>4, <3>1
  <2> QED BY <2>1, <2>2
<1>6. ASSUME NEW u \in unread' PROVE Landed(u[1], landed')
  <2>1. CASE u \in unread
    BY <1>2, <1>4, <2>1, LandedGrows
  <2>2. CASE u \notin unread
    <3>1. u[1] = t
      BY <1>1, <2>2
    <3> QED BY <1>4, <3>1
  <2> QED BY <2>1, <2>2
<1>7. ChainInv'
  <2>1. mined' \in Seq(Tx)
    BY <1>1, <1>2
  <2> QED BY <1>4, <1>5, <1>6, <2>1 DEF ChainInv
<1>8. IsGate(gate) /\ told \in Told /\ disk \in Scores
  BY DEF GateInv, Shape
<1>9. ScoreInv(gate, told, landed')
  BY <1>4, <1>8, ScoreGrows DEF GateInv
<1>10. FileInv(disk, told, landed')
  <2>1. \A s \in Sender : \A o \in Offer : told[s][o] <= told[s][o]
    BY <1>8 DEF Told
  <2>2. FileInv(disk, told, landed)
    BY DEF GateInv
  <2> QED BY <1>4, <1>8, <2>1, <2>2, FileGrows
<1>11. ScoreInv(gate', told', landed') /\ FileInv(disk', told', landed')
  BY <1>1, <1>9, <1>10
<1>12. /\ (now \in Nat \ {0})' /\ disk' \in Scores /\ forgot' \in [Key -> Nat]
       /\ Shape(gate', told', pushes', newest') /\ gate'.latest_round = newest'
       /\ OnceInv(gate', pushes', forgot')
  BY <1>1 DEF GateInv
<1> QED BY <1>7, <1>11, <1>12 DEF GateInv

LEMMA ReorgInv ==
  ASSUME GateInv, Reorg
  PROVE  GateInv'
<1>1. /\ mined # <<>> /\ mined' = SubSeq(mined, 1, Len(mined) - 1)
      /\ UNCHANGED <<now, gate, unread, disk, told, landed, pushes, forgot, newest>>
  BY DEF Reorg, Front, history
<1>2. mined \in Seq(Tx) /\ \A i \in 1..Len(mined) : Landed(mined[i], landed)
  BY DEF GateInv, ChainInv
<1>3. /\ mined' \in Seq(Tx) /\ \A i \in 1..Len(mined') : i \in 1..Len(mined) /\ mined'[i] = mined[i]
  BY <1>1, <1>2
<1>4. ChainInv'
  BY <1>1, <1>2, <1>3 DEF GateInv, ChainInv
<1>5. now' \in Nat \ {0}
  BY <1>1 DEF GateInv
<1> QED BY <1>1, <1>4, <1>5, QuietStep

\* A log to read is a call of a transaction in a block.
LEMMA ReadHeadInv ==
  ASSUME GateInv, ReadHead
  PROVE  GateInv'
<1>1. UNCHANGED <<now, gate, disk, mined, told, landed, pushes, forgot, newest>>
  BY DEF ReadHead, history
<1>2. \/ unread' = UNION {{<<mined[i], j>> : j \in DOMAIN Calls(mined[i])} : i \in DOMAIN mined}
      \/ unread' = unread
  BY DEF ReadHead
<1>3. /\ mined \in Seq(Tx) /\ \A i \in 1..Len(mined) : Landed(mined[i], landed)
      /\ \A u \in unread : Landed(u[1], landed)
  BY DEF GateInv, ChainInv
<1>4. ASSUME NEW u \in unread' PROVE Landed(u[1], landed)
  <2>1. CASE u \in unread
    BY <1>3, <2>1
  <2>2. CASE u \notin unread
    <3>1. PICK i \in DOMAIN mined : u \in {<<mined[i], j>> : j \in DOMAIN Calls(mined[i])}
      BY <1>2, <2>2
    <3>2. u[1] = mined[i]
      BY <3>1
    <3>3. i \in 1..Len(mined)
      BY <1>3, <3>1
    <3> QED BY <1>3, <3>2, <3>3
  <2> QED BY <2>1, <2>2
<1>5. ChainInv'
  BY <1>1, <1>4 DEF GateInv, ChainInv
<1>6. now' \in Nat \ {0}
  BY <1>1 DEF GateInv
<1> QED BY <1>1, <1>5, <1>6, QuietStep

\* The steps that only drop logs to read, or let the clock go on.
LEMMA FewerInv ==
  ASSUME GateInv, UNCHANGED <<gate, disk, mined, told, landed, pushes, forgot, newest>>,
         unread' \subseteq unread, now' \in {now, now + 1}
  PROVE  GateInv'
<1>1. ChainInv'
  BY DEF GateInv, ChainInv
<1>2. now' \in Nat \ {0}
  BY DEF GateInv
<1> QED BY <1>1, <1>2, QuietStep

LEMMA ConfirmInv ==
  ASSUME GateInv, NEW t \in Tx, NEW i \in DOMAIN Calls(t), Confirm(t, i)
  PROVE  GateInv'
<1> DEFINE call == Calls(t)[i]
           h == on_confirmed(gate, call, t)
           k == request_key(call)
           y == <<k, call.price>>
           first == call.kind = "propose" /\ gate.reqs[k].proposed = NoPrice
<1>1. /\ <<t, i>> \in unread /\ unread' = unread \ {<<t, i>>} /\ gate' = h
      /\ newest' = [newest EXCEPT ![call.market] = Max({newest[call.market], call.round})]
      /\ UNCHANGED <<now, disk, mined, told, landed, pushes, forgot>>
  BY DEF Confirm
<1>2. call \in OneCall
  BY CallsType
<1>3. /\ k \in Key /\ call.market \in Market /\ call.round \in Nat
      /\ (call.kind = "propose" => call.price \in Price)
  BY <1>2, CallKey
<1>4. /\ now \in Nat /\ now > 0 /\ IsGate(gate) /\ told \in Told /\ newest \in [Market -> Nat]
      /\ gate.latest_round = newest /\ landed \in SUBSET Offer /\ IsFiniteSet(landed)
      /\ ScoreInv(gate, told, landed) /\ OnceInv(gate, pushes, forgot)
  BY DEF GateInv, Shape, ChainInv
<1>5. Confirmed(gate, call, h)
  BY <1>2, <1>4, ConfirmFacts
<1>6. call.kind = "propose" => y \in landed
  <2>1. Landed(<<t, i>>[1], landed)
    BY <1>1 DEF GateInv, ChainInv
  <2> QED BY <2>1 DEF Landed
<1> HIDE DEF h, call, k
<1>7. IsGate(h)
  BY <1>5 DEF Confirmed
<1>8. newest' \in [Market -> Nat] /\ h.latest_round = newest'
  <2>1. newest[call.market] \in Nat
    BY <1>3, <1>4
  <2>2. Max({newest[call.market], call.round}) \in Nat
    BY <1>3, <2>1, MaxTwo
  <2>3. h.latest_round = [newest EXCEPT ![call.market] = Max({newest[call.market], call.round})]
    BY <1>4, <1>5 DEF Confirmed
  <2> QED BY <1>1, <1>3, <1>4, <2>2, <2>3
<1>9. OnceInv(h, pushes, forgot)
  <2>1. \A j \in Key : h.reqs[j].emitted_price = gate.reqs[j].emitted_price
                       /\ (h.reqs[j].touched = gate.reqs[j].touched \/ h.reqs[j].touched = now)
    BY <1>5 DEF Confirmed, k
  <2> QED BY <1>4, <2>1 DEF OnceInv
<1>10. ScoreInv(h, told, landed)
  <2>1. \A s \in Sender : \A o \in Offer :
          Held(gate, s, o) \in Nat /\ Held(h, s, o) \in Nat /\ told[s][o] \in Nat /\ o[1] \in Key
    BY <1>4, <1>7, HeldNat DEF Told, Offer
  <2>2. \A s \in Sender : \A o \in Offer : o[1] # k => Held(h, s, o) = Held(gate, s, o)
    BY <1>5, <2>1 DEF Confirmed, Held, k
  <2>3. CASE ~first
    <3>1. h.senders = gate.senders /\ h.reqs[k].pendings = gate.reqs[k].pendings
      BY <1>5, <2>3 DEF Confirmed, k
    <3>2. \A s \in Sender : \A o \in Offer : Held(h, s, o) = Held(gate, s, o)
      BY <2>2, <3>1 DEF Held
    <3>3. \A s \in Sender : \A o \in Offer : Held(h, s, o) + told[s][o] <= told[s][o] + Held(gate, s, o)
      BY <2>1, <3>2
    <3> QED BY <1>4, <1>7, <3>1, <3>3, ScoreSame
  <2>4. CASE first
    <3> DEFINE d == [s \in Sender |-> Held(gate, s, y)]
    <3>1. y \in landed /\ y \in Offer /\ y[1] = k /\ y[2] = call.price
      BY <1>4, <1>6, <2>4
    <3>2. d \in [Sender -> Nat]
      BY <2>1, <3>1
    <3>3. h.reqs[k].pendings = <<>>
      BY <1>5, <2>4 DEF Confirmed, k
    <3>4. \A s \in Sender : h.senders[s].agree = gate.senders[s].agree + d[s]
      <4>1. \A s \in Sender : h.senders[s].agree = gate.senders[s].agree + Offers(gate.reqs[k].pendings, s, call.price)
        BY <1>5, <2>4 DEF Confirmed, k
      <4>2. \A s \in Sender : Held(gate, s, y) = Offers(gate.reqs[k].pendings, s, call.price)
        BY <3>1 DEF Held
      <4> QED BY <4>1, <4>2
    <3>5. ASSUME NEW s \in Sender, NEW o \in Offer
          PROVE  Held(h, s, o) + (IF o = y THEN d[s] ELSE 0) + told[s][o] <= told[s][o] + Held(gate, s, o)
      <4>1. CASE o[1] # k
        <5>1. o # y /\ Held(h, s, o) = Held(gate, s, o)
          BY <2>2, <3>1, <4>1
        <5> QED BY <2>1, <5>1
      <4>2. CASE o[1] = k
        <5>1. Held(h, s, o) = 0
          BY <3>3, <4>2, MatchEmpty, Zenon DEF Held
        <5>2. o = y => d[s] = Held(gate, s, o)
          OBVIOUS
        <5> HIDE DEF d, y
        <5> QED BY <2>1, <5>1, <5>2
      <4> QED BY <4>1, <4>2
    <3> HIDE DEF d, y
    <3> QED BY <1>4, <1>7, <3>1, <3>2, <3>4, <3>5, ScoreKept
  <2> QED BY <2>3, <2>4
<1>11. ChainInv'
  BY <1>1 DEF GateInv, ChainInv
<1>12. /\ (now \in Nat \ {0})' /\ disk' \in Scores /\ forgot' \in [Key -> Nat]
       /\ FileInv(disk', told', landed') /\ told' \in Told /\ pushes' \in [Key -> Nat]
  BY <1>1 DEF GateInv, Shape
<1>13. IsGate(gate') /\ gate'.latest_round = newest' /\ OnceInv(gate', pushes', forgot') /\ ScoreInv(gate', told', landed')
  BY <1>1, <1>7, <1>8, <1>9, <1>10
<1> QED BY <1>8, <1>11, <1>12, <1>13 DEF GateInv, Shape

LEMMA MinuteInv ==
  ASSUME GateInv, Minute
  PROVE  GateInv'
<1> DEFINE R == prune(gate).reqs
           gone == {k \in Key : gate.reqs[k].touched > 0 /\ R[k].touched = 0}
           m == [prune(gate) EXCEPT !.tips = fresh_tips(prune(gate).tips)]
<1>1. /\ gate' = m /\ disk' \in {disk, gate.senders}
      /\ forgot' = [k \in Key |-> IF k \in gone THEN forgot[k] + 1 ELSE forgot[k]]
      /\ UNCHANGED <<now, unread, mined, told, landed, pushes, newest>>
  BY DEF Minute
<1>2. /\ now \in Nat /\ now > 0 /\ IsGate(gate) /\ told \in Told /\ newest \in [Market -> Nat]
      /\ pushes \in [Key -> Nat] /\ forgot \in [Key -> Nat] /\ disk \in Scores
      /\ gate.latest_round = newest /\ landed \in SUBSET Offer /\ IsFiniteSet(landed)
      /\ ScoreInv(gate, told, landed) /\ OnceInv(gate, pushes, forgot) /\ FileInv(disk, told, landed)
  BY DEF GateInv, Shape, ChainInv
<1>3. /\ IsGate(m) /\ m.latest_round = gate.latest_round /\ m.senders = gate.senders
      /\ m.reqs = R /\ \A k \in Key : m.reqs[k] \in {gate.reqs[k], NoReq}
  BY <1>2, PruneFacts
<1> HIDE DEF m, R
<1>4. forgot' \in [Key -> Nat]
  BY <1>1, <1>2
<1>5. OnceInv(m, pushes, forgot')
  <2> SUFFICES ASSUME NEW k \in Key
               PROVE  /\ pushes[k] <= forgot'[k] + (IF m.reqs[k].emitted_price = NoPrice THEN 0 ELSE 1)
                      /\ m.reqs[k].emitted_price # NoPrice => m.reqs[k].touched > 0
    BY DEF OnceInv
  <2>1. /\ pushes[k] <= forgot[k] + (IF gate.reqs[k].emitted_price = NoPrice THEN 0 ELSE 1)
        /\ gate.reqs[k].emitted_price # NoPrice => gate.reqs[k].touched > 0
        /\ pushes[k] \in Nat /\ forgot[k] \in Nat
    BY <1>2 DEF OnceInv
  <2>2. forgot'[k] = IF k \in gone THEN forgot[k] + 1 ELSE forgot[k]
    BY <1>1
  <2>3. forgot'[k] >= forgot[k] /\ forgot'[k] \in Nat
    BY <2>1, <2>2
  <2>4. CASE m.reqs[k] = gate.reqs[k]
    BY <2>1, <2>3, <2>4
  <2>5. CASE m.reqs[k] = NoReq
    <3>1. NoReq.emitted_price = NoPrice /\ NoReq.touched = 0
      BY DEF NoReq
    <3>2. gate.reqs[k].emitted_price # NoPrice => forgot'[k] = forgot[k] + 1
      BY <1>3, <2>1, <2>2, <2>5, <3>1
    <3>3. pushes[k] <= forgot'[k]
      BY <2>1, <2>3, <3>2
    <3> QED BY <2>3, <2>5, <3>1, <3>3
  <2> QED BY <1>3, <2>4, <2>5
<1>6. ScoreInv(m, told, landed)
  <2>1. ASSUME NEW s \in Sender, NEW o \in Offer
        PROVE  Held(m, s, o) + told[s][o] <= told[s][o] + Held(gate, s, o)
    <3>1. Held(gate, s, o) \in Nat /\ told[s][o] \in Nat /\ o[1] \in Key
      BY <1>2, HeldNat DEF Told, Offer
    <3>2. CASE m.reqs[o[1]] = gate.reqs[o[1]]
      <4>1. Held(m, s, o) = Held(gate, s, o)
        BY <3>2 DEF Held
      <4> QED BY <3>1, <4>1
    <3>3. CASE m.reqs[o[1]] = NoReq
      <4>1. NoReq.pendings = <<>>
        BY DEF NoReq
      <4>2. Held(m, s, o) = 0
        BY <3>3, <4>1, MatchEmpty, Zenon DEF Held
      <4> QED BY <3>1, <4>2
    <3> QED BY <1>3, <3>1, <3>2, <3>3
  <2> QED BY <1>2, <1>3, <2>1, ScoreSame
<1>7. disk' \in Scores /\ FileInv(disk', told, landed)
  <2>1. FileInv(gate.senders, told, landed)
    BY <1>2, ScoreToFile
  <2>2. gate.senders \in Scores
    BY <1>2 DEF IsGate
  <2> QED BY <1>1, <1>2, <2>1, <2>2
<1>8. ChainInv'
  BY <1>1 DEF GateInv, ChainInv
<1>9. /\ (now \in Nat \ {0})' /\ told' \in Told /\ pushes' \in [Key -> Nat] /\ newest' \in [Market -> Nat]
  BY <1>1 DEF GateInv, Shape
<1>10. /\ IsGate(gate') /\ gate'.latest_round = newest' /\ OnceInv(gate', pushes', forgot')
       /\ ScoreInv(gate', told', landed') /\ FileInv(disk', told', landed')
  BY <1>1, <1>2, <1>3, <1>5, <1>6, <1>7
<1> QED BY <1>4, <1>7, <1>8, <1>9, <1>10 DEF GateInv, Shape

\* Neither file has more than was earned, so neither has the greater of both.
LEMMA LoadFacts ==
  ASSUME NEW d \in Scores, NEW tl \in Told, NEW ld \in SUBSET Offer, IsFiniteSet(ld), FileInv(d, tl, ld)
  PROVE  load_senders(d, Seed) \in Scores /\ FileInv(load_senders(d, Seed), tl, ld)
<1> DEFINE L == load_senders(d, Seed)
<1>1. \A s \in Sender : /\ d[s].agree \in Nat /\ d[s].disagree \in Nat
                        /\ Seed[s].agree \in Nat /\ Seed[s].disagree \in Nat
  BY SeedType DEF Scores
<1>2. ASSUME NEW s \in Sender
      PROVE  /\ L[s] \in [agree : Nat, disagree : Nat]
             /\ L[s].agree <= Seed[s].agree + SumFunctionOnSet(tl[s], ld)
  <2> DEFINE a == Max({d[s].agree, Seed[s].agree})
             b == Max({d[s].disagree, Seed[s].disagree})
             n == SumFunctionOnSet(tl[s], ld)
  <2>1. a = (IF d[s].agree >= Seed[s].agree THEN d[s].agree ELSE Seed[s].agree)
    BY <1>1, MaxTwo
  <2>2. b = (IF d[s].disagree >= Seed[s].disagree THEN d[s].disagree ELSE Seed[s].disagree)
    BY <1>1, MaxTwo
  <2>3. L[s] = [agree |-> a, disagree |-> b]
    BY DEF load_senders, SenderStat
  <2>4. n \in Nat
    BY SumNat
  <2>5. d[s].agree <= Seed[s].agree + n
    BY DEF FileInv
  <2> HIDE DEF a, b, n, L
  <2>6. a \in Nat /\ b \in Nat /\ a <= Seed[s].agree + n
    BY <1>1, <2>1, <2>2, <2>4, <2>5
  <2>7. L[s] \in [agree : Nat, disagree : Nat] /\ L[s].agree = a
    BY <2>3, <2>6
  <2> QED BY <2>6, <2>7 DEF n
<1>3. L = [s \in Sender |-> L[s]]
  BY DEF load_senders
<1> HIDE DEF L
<1>4. L \in Scores /\ FileInv(L, tl, ld)
  BY <1>2, <1>3 DEF Scores, FileInv
<1> QED BY <1>4 DEF L

LEMMA RestartInv ==
  ASSUME GateInv, Restart
  PROVE  GateInv'
<1> DEFINE scores == load_senders(disk, Seed)
<1>1. /\ gate' = NewGate(scores) /\ unread' = {}
      /\ pushes' = [k \in Key |-> 0] /\ forgot' = [k \in Key |-> 0] /\ newest' = [m \in Market |-> 0]
      /\ UNCHANGED <<now, disk, mined, told, landed>>
  BY DEF Restart
<1>2. /\ told \in Told /\ disk \in Scores /\ landed \in SUBSET Offer /\ IsFiniteSet(landed)
      /\ FileInv(disk, told, landed)
  BY DEF GateInv, Shape, ChainInv
<1>3. scores \in Scores /\ FileInv(scores, told, landed)
  BY <1>2, LoadFacts
<1> HIDE DEF scores
<1>4. /\ IsGate(gate') /\ \A k \in Key : gate'.reqs[k] = NoReq
      /\ \A m \in Market : gate'.latest_round[m] = 0
  BY <1>1, <1>3, NewGateType
<1>5. gate'.latest_round = newest'
  BY <1>1, <1>4 DEF IsGate
<1>6. OnceInv(gate', pushes', forgot')
  BY <1>1, <1>4 DEF OnceInv, NoReq
<1>7. ScoreInv(NewGate(scores), told, landed)
  BY <1>2, <1>3, ScoreFromFile
<1>8. ScoreInv(gate', told', landed') /\ FileInv(disk', told', landed')
  BY <1>1, <1>2, <1>7
<1>9. ChainInv'
  BY <1>1 DEF GateInv, ChainInv
<1>10. /\ (now \in Nat \ {0})' /\ disk' \in Scores /\ told' \in Told
       /\ pushes' \in [Key -> Nat] /\ newest' \in [Market -> Nat] /\ forgot' \in [Key -> Nat]
  BY <1>1 DEF GateInv, Shape
<1> QED BY <1>4, <1>5, <1>6, <1>8, <1>9, <1>10 DEF GateInv, Shape

Forward == \A k \in Key : pushes'[k] > pushes[k] => k.round >= newest[k.market]

LEMMA NextInv == GateInv /\ [Next]_vars => GateInv' /\ Forward
<1> SUFFICES ASSUME GateInv, [Next]_vars PROVE GateInv' /\ Forward
  OBVIOUS
<1>0. pushes \in [Key -> Nat]
  BY DEF GateInv, Shape
<1>1. pushes' = pushes => Forward
  BY <1>0 DEF Forward
<1>2. ASSUME NEW t \in Tx, Pending(t) PROVE GateInv' /\ Forward
  BY <1>2, PendingInv DEF Forward
<1>3. ASSUME NEW t \in Tx, Mine(t) PROVE GateInv' /\ Forward
  <2>1. pushes' = pushes
    BY <1>3 DEF Mine
  <2> QED BY <1>1, <1>3, <2>1, MineInv
<1>4. ASSUME NEW t \in Tx, NEW i \in DOMAIN Calls(t), Confirm(t, i) PROVE GateInv' /\ Forward
  <2>1. pushes' = pushes
    BY <1>4 DEF Confirm
  <2> QED BY <1>1, <1>4, <2>1, ConfirmInv
<1>5. ASSUME NEW t \in Tx, NEW i \in DOMAIN Calls(t), ChunkFails(t, i) PROVE GateInv' /\ Forward
  <2>1. /\ UNCHANGED <<gate, disk, mined, told, landed, pushes, forgot, newest>>
        /\ unread' \subseteq unread /\ now' \in {now, now + 1}
    BY <1>5 DEF ChunkFails, history
  <2> QED BY <1>1, <2>1, FewerInv
<1>6. CASE Reorg
  <2>1. pushes' = pushes
    BY <1>6 DEF Reorg, history
  <2> QED BY <1>1, <1>6, <2>1, ReorgInv
<1>7. CASE ReadHead
  <2>1. pushes' = pushes
    BY <1>7 DEF ReadHead, history
  <2> QED BY <1>1, <1>7, <2>1, ReadHeadInv
<1>8. CASE Subscribe \/ Disconnect \/ Tick \/ UNCHANGED vars
  <2>1. /\ UNCHANGED <<gate, disk, mined, told, landed, pushes, forgot, newest>>
        /\ unread' \subseteq unread /\ now' \in {now, now + 1}
    BY <1>8 DEF Subscribe, Disconnect, Tick, history, vars
  <2> QED BY <1>1, <2>1, FewerInv
<1>9. CASE Minute
  <2>1. pushes' = pushes
    BY <1>9 DEF Minute
  <2> QED BY <1>1, <1>9, <2>1, MinuteInv
<1>10. CASE Restart
  <2>1. \A k \in Key : pushes'[k] = 0
    BY <1>10 DEF Restart
  <2>2. Forward
    BY <1>0, <2>1 DEF Forward
  <2> QED BY <1>10, <2>2, RestartInv
<1> QED BY <1>2, <1>3, <1>4, <1>5, <1>6, <1>7, <1>8, <1>9, <1>10 DEF Next

-----------------------------------------------------------------------------
(* Theorems *)

LEMMA Invariance == Spec => []GateInv
  BY InitInv, NextInv, PTL DEF Spec

\* A process pushes one proposal per request, unless prune forgot the request.
THEOREM PushedOnceHolds == Spec => []PushedOnce
<1>1. GateInv => PushedOnce
  <2> SUFFICES ASSUME GateInv, NEW k \in Key PROVE pushes[k] <= 1 + forgot[k]
    BY DEF PushedOnce
  <2>1. /\ pushes[k] <= forgot[k] + (IF gate.reqs[k].emitted_price = NoPrice THEN 0 ELSE 1)
        /\ pushes[k] \in Nat /\ forgot[k] \in Nat
    BY DEF GateInv, OnceInv, Shape
  <2> QED BY <2>1
<1> QED BY <1>1, Invariance, PTL

\* Nothing of a round older than the newest of its market is pushed.
THEOREM RoundsForwardHolds == Spec => RoundsForward
<1>1. GateInv /\ [Next]_vars => [Forward]_vars
  BY NextInv
<1> QED BY <1>1, Invariance, PTL DEF Spec, RoundsForward, Forward

\* A score never exceeds the seed and what the sender offered and landed.
THEOREM AgreeEarnedHolds == Spec => []AgreeEarned
<1>1. GateInv => AgreeEarned
  <2> SUFFICES ASSUME GateInv
               PROVE  \A s \in Sender : gate.senders[s].agree <= Seed[s].agree + SumFunctionOnSet(told[s], landed)
    BY DEF AgreeEarned
  <2>1. FileInv(gate.senders, told, landed)
    BY ScoreToFile DEF GateInv, Shape, ChainInv
  <2> QED BY <2>1 DEF FileInv
<1> QED BY <1>1, Invariance, PTL
=============================================================================
