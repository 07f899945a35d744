--------------------------- MODULE Calculos_proofs ---------------------------
(***************************************************************************)
(* The computations on money (module Calculos), as the composition makes   *)
(* them: what each computes, for any shares, amounts, games and counts.    *)
(*                                                                         *)
(* The sums and the loops of the code are recursions over a finite set.    *)
(* RecursionExists gives the function such a recursion defines, whatever   *)
(* the step, and induction over the set or over the numbers says what it   *)
(* computes: sums (Total), choices (Quantas, Escolhas), and what is left   *)
(* of a pool when a ticket is gone through (Conferidos).                   *)
(***************************************************************************)
EXTENDS Servicos, Sequences, FiniteSetTheorems, FunctionTheorems, WellFoundedInduction, TLAPS

-----------------------------------------------------------------------------
(* Finite sets *)

\* Among sets of elements of a finite set, one holds none of the others with one element less.
LEMMA LeastSet ==
    ASSUME NEW S, IsFiniteSet(S), NEW escolha, escolha \subseteq SUBSET S, escolha # {}
    PROVE  \E s \in escolha : \A c \in s : s \ {c} \notin escolha
  <1>1. IsWellFoundedOn(StrictSubsetOrdering(S), SUBSET S)
    BY FS_StrictSubsetOrderingWellFounded, FS_FiniteSubsetsOfFinite
  <1>2. PICK s \in escolha : \A u \in escolha : ~(<<u, s>> \in StrictSubsetOrdering(S))
    BY <1>1, WFMin, Zenon
  <1>3. ASSUME NEW c \in s, s \ {c} \in escolha PROVE FALSE
    <2>1. <<s \ {c}, s>> \in StrictSubsetOrdering(S)
      BY <1>3 DEF StrictSubsetOrdering
    <2>2. QED
      BY <1>2, <1>3, <2>1
  <1>4. QED
    BY <1>3

\* What holds of a set if it holds of it without any one of its elements holds of every finite set.
LEMMA SubsetInduction ==
    ASSUME NEW S, IsFiniteSet(S), NEW M,
           \A s \in SUBSET S : (\A c \in s : s \ {c} \in M) => s \in M
    PROVE  \A s \in SUBSET S : s \in M
  <1> DEFINE Ruins == {s \in SUBSET S : s \notin M}
  <1>1. Ruins # {} => \E s \in Ruins : \A c \in s : s \ {c} \notin Ruins
    <2>1. Ruins \subseteq SUBSET S
      OBVIOUS
    <2> HIDE DEF Ruins
    <2>2. QED
      BY <2>1, LeastSet, Zenon
  <1>2. ASSUME NEW s \in Ruins, \A c \in s : s \ {c} \notin Ruins PROVE FALSE
    <2>1. \A c \in s : s \ {c} \in SUBSET S
      OBVIOUS
    <2>2. \A c \in s : s \ {c} \in M
      BY <1>2, <2>1
    <2>3. QED
      BY <2>2
  <1>3. QED
    BY <1>1, <1>2

-----------------------------------------------------------------------------
(* Sums.  A sum of natural numbers is the number of marks, as many for each *)
(* element as it adds.                                                      *)

Marcas(w, S) == UNION {{c} \X (1..w[c]) : c \in S}
Total(w, S) == Cardinality(Marcas(w, S))

LEMMA MarksOfOne ==
    ASSUME NEW c, NEW n \in Nat
    PROVE  IsFiniteSet({c} \X (1..n)) /\ Cardinality({c} \X (1..n)) = n
  <1>1. IsFiniteSet({c}) /\ Cardinality({c}) = 1
    BY FS_Singleton
  <1>2. IsFiniteSet(1..n) /\ Cardinality(1..n) = n
    <2>1. IsFiniteSet(1..n) /\ Cardinality(1..n) = IF 1 > n THEN 0 ELSE n - 1 + 1
      BY FS_Interval
    <2>2. (IF 1 > n THEN 0 ELSE n - 1 + 1) = n
      OBVIOUS
    <2>3. QED
      BY <2>1, <2>2
  <1>3. IsFiniteSet({c} \X (1..n)) /\ Cardinality({c} \X (1..n)) = Cardinality({c}) * Cardinality(1..n)
    BY <1>1, <1>2, FS_Product
  <1>4. QED
    BY <1>1, <1>2, <1>3

LEMMA MarksFinite ==
    ASSUME NEW S, IsFiniteSet(S), NEW w \in [S -> Nat]
    PROVE  \A s \in SUBSET S : IsFiniteSet(Marcas(w, s))
  <1> DEFINE M == {s \in SUBSET S : IsFiniteSet(Marcas(w, s))}
  <1>1. {} \in M
    <2>1. Marcas(w, {}) = {}
      BY DEF Marcas
    <2>2. QED
      BY <2>1, FS_EmptySet
  <1>2. ASSUME NEW s \in SUBSET S, NEW c \in s, s \ {c} \in M PROVE s \in M
    <2> DEFINE outras == Marcas(w, s \ {c})
               marcasDela == {c} \X (1..w[c])
    <2>1. Marcas(w, s) = outras \cup marcasDela
      BY DEF Marcas
    <2>2. w[c] \in Nat
      OBVIOUS
    <2>3. IsFiniteSet(marcasDela)
      BY <2>2, MarksOfOne
    <2>4. IsFiniteSet(outras)
      BY <1>2
    <2> HIDE DEF outras, marcasDela
    <2>5. IsFiniteSet(outras \cup marcasDela)
      BY <2>3, <2>4, FS_Union
    <2>6. QED
      BY <2>1, <2>5
  <1> HIDE DEF M
  <1>3. ASSUME NEW s \in SUBSET S, \A c \in s : s \ {c} \in M PROVE s \in M
    BY <1>1, <1>2, <1>3
  <1>4. \A s \in SUBSET S : s \in M
    BY <1>3, SubsetInduction, Zenon
  <1>5. QED
    BY <1>4 DEF M

LEMMA TotalOf ==
    ASSUME NEW S, IsFiniteSet(S), NEW w \in [S -> Nat], NEW s \in SUBSET S
    PROVE  /\ Total(w, s) \in Nat /\ Total(w, {}) = 0
           /\ \A c \in s : Total(w, s) = w[c] + Total(w, s \ {c})
  <1>1. IsFiniteSet(Marcas(w, s)) /\ Total(w, s) \in Nat
    BY MarksFinite, FS_CardinalityType DEF Total
  <1>2. Total(w, {}) = 0
    <2>1. Marcas(w, {}) = {}
      BY DEF Marcas
    <2>2. QED
      BY <2>1, FS_EmptySet DEF Total
  <1>3. ASSUME NEW c \in s PROVE Total(w, s) = w[c] + Total(w, s \ {c})
    <2> DEFINE outras == Marcas(w, s \ {c})
               marcasDela == {c} \X (1..w[c])
    <2>1. Marcas(w, s) = outras \cup marcasDela
      BY DEF Marcas
    <2>2. outras \cap marcasDela = {}
      BY DEF Marcas
    <2>3. w[c] \in Nat /\ s \ {c} \in SUBSET S
      OBVIOUS
    <2>4. IsFiniteSet(marcasDela) /\ Cardinality(marcasDela) = w[c]
      BY <2>3, MarksOfOne
    <2>5. IsFiniteSet(outras) /\ Cardinality(outras) \in Nat
      BY <2>3, MarksFinite, FS_CardinalityType
    <2> HIDE DEF outras, marcasDela
    <2>6. Cardinality(outras \cup marcasDela) = Cardinality(outras) + Cardinality(marcasDela) - Cardinality({})
      BY <2>2, <2>4, <2>5, FS_Union
    <2>7. Cardinality({}) = 0
      BY FS_EmptySet
    <2>8. QED
      BY <2>1, <2>3, <2>4, <2>5, <2>6, <2>7 DEF Total, outras
  <1>4. QED
    BY <1>1, <1>2, <1>3

LEMMA TotalStep ==
    ASSUME NEW S, IsFiniteSet(S), NEW w \in [S -> Nat], NEW s \in SUBSET S, NEW c \in s
    PROVE  Total(w, s) = w[c] + Total(w, s \ {c})
  BY TotalOf

\* The function of the library that adds the elements one at a time, whichever is chosen first.
Soma(it, w, S) ==
    it = [s \in SUBSET S |-> IF s = {} THEN 0 ELSE w[CHOOSE c \in s : TRUE] + it[s \ {CHOOSE c \in s : TRUE}]]

LEMMA SumExists ==
    ASSUME NEW S, IsFiniteSet(S), NEW w \in [S -> Nat]
    PROVE  Soma([s \in SUBSET S |-> Total(w, s)], w, S)
  <1> DEFINE h == [s \in SUBSET S |-> Total(w, s)]
             Parcela(s) == IF s = {} THEN 0 ELSE w[CHOOSE c \in s : TRUE] + h[s \ {CHOOSE c \in s : TRUE}]
  <1>1. ASSUME NEW s \in SUBSET S PROVE Total(w, s) = Parcela(s)
    <2>1. CASE s = {}
      BY <2>1, TotalOf
    <2>2. CASE s # {}
      <3> DEFINE c == CHOOSE c \in s : TRUE
      <3>1. \A d \in s : Total(w, s) = w[d] + Total(w, s \ {d})
        <4> HIDE DEF h, Parcela, c
        <4>1. QED
          BY <1>1, TotalOf
      <3>2. c \in s
        BY <2>2
      <3>3. Total(w, s) = w[c] + Total(w, s \ {c})
        BY <3>1, <3>2
      <3>4. h[s \ {c}] = Total(w, s \ {c})
        OBVIOUS
      <3>5. Parcela(s) = w[c] + h[s \ {c}]
        BY <2>2, Zenon
      <3>6. QED
        BY <3>3, <3>4, <3>5, Zenon
    <2>3. QED
      BY <2>1, <2>2
  <1>2. h = [s \in SUBSET S |-> Parcela(s)]
    BY <1>1, Zenon
  <1>3. QED
    BY <1>2, Zenon DEF Soma

LEMMA SumUnique ==
    ASSUME NEW S, IsFiniteSet(S), NEW w \in [S -> Nat], NEW it, Soma(it, w, S)
    PROVE  it[S] = Total(w, S)
  <1> DEFINE M == {s \in SUBSET S : it[s] = Total(w, s)}
  <1>1. ASSUME NEW s \in SUBSET S
        PROVE  it[s] = IF s = {} THEN 0 ELSE w[CHOOSE c \in s : TRUE] + it[s \ {CHOOSE c \in s : TRUE}]
    BY Zenon DEF Soma
  <1>2. {} \in M
    <2>1. it[{}] = 0
      BY <1>1
    <2>2. QED
      BY <2>1, TotalOf
  <1>3. ASSUME NEW s \in SUBSET S, \A c \in s : s \ {c} \in M PROVE s \in M
    <2>1. CASE s = {}
      BY <1>2, <2>1
    <2>2. CASE s # {}
      <3> DEFINE c == CHOOSE c \in s : TRUE
      <3>1. c \in s
        BY <2>2
      <3>2. it[s] = w[c] + it[s \ {c}]
        BY <1>1, <2>2, Zenon
      <3> HIDE DEF c
      <3>3. it[s \ {c}] = Total(w, s \ {c})
        BY <1>3, <3>1
      <3>4. Total(w, s) = w[c] + Total(w, s \ {c})
        BY <3>1, TotalOf
      <3>5. QED
        BY <3>2, <3>3, <3>4, Zenon
    <2>3. QED
      BY <2>1, <2>2
  <1> HIDE DEF M
  <1>4. \A s \in SUBSET S : s \in M
    BY <1>3, SubsetInduction, Zenon
  <1>5. QED
    BY <1>4 DEF M

LEMMA TotalsAdd ==
    ASSUME NEW S, IsFiniteSet(S), NEW u \in [S -> Nat], NEW v \in [S -> Nat], NEW w \in [S -> Nat],
           \A c \in S : u[c] = v[c] + w[c]
    PROVE  Total(u, S) = Total(v, S) + Total(w, S)
  <1> DEFINE M == {s \in SUBSET S : Total(u, s) = Total(v, s) + Total(w, s)}
  <1>1. {} \in M
    BY TotalOf
  <1>2. ASSUME NEW s \in SUBSET S, NEW c \in s, s \ {c} \in M PROVE s \in M
    <2>1. /\ Total(u, s) = u[c] + Total(u, s \ {c}) /\ Total(v, s) = v[c] + Total(v, s \ {c})
          /\ Total(w, s) = w[c] + Total(w, s \ {c})
      BY TotalStep
    <2>2. s \ {c} \in SUBSET S /\ c \in S
      OBVIOUS
    <2>3. Total(v, s \ {c}) \in Nat /\ Total(w, s \ {c}) \in Nat
      BY <2>2, TotalOf
    <2>4. u[c] = v[c] + w[c] /\ v[c] \in Nat /\ w[c] \in Nat
      BY <2>2
    <2>5. Total(u, s \ {c}) = Total(v, s \ {c}) + Total(w, s \ {c})
      BY <1>2
    <2>6. Total(u, s) = Total(v, s) + Total(w, s)
      BY <2>1, <2>3, <2>4, <2>5
    <2>7. QED
      BY <2>6
  <1> HIDE DEF M
  <1>3. \A s \in SUBSET S : (\A c \in s : s \ {c} \in M) => s \in M
    BY <1>1, <1>2
  <1>4. \A s \in SUBSET S : s \in M
    BY <1>3, SubsetInduction, Zenon
  <1>5. QED
    BY <1>4 DEF M

LEMMA TotalsScale ==
    ASSUME NEW S, IsFiniteSet(S), NEW u \in [S -> Nat], NEW v \in [S -> Nat], NEW k \in Nat,
           \A c \in S : u[c] = k * v[c]
    PROVE  Total(u, S) = k * Total(v, S)
  <1> DEFINE M == {s \in SUBSET S : Total(u, s) = k * Total(v, s)}
  <1>1. {} \in M
    <2>1. Total(u, {}) = 0 /\ Total(v, {}) = 0
      BY TotalOf
    <2>2. QED
      BY <2>1
  <1>2. ASSUME NEW s \in SUBSET S, NEW c \in s, s \ {c} \in M PROVE s \in M
    <2>1. Total(u, s) = u[c] + Total(u, s \ {c}) /\ Total(v, s) = v[c] + Total(v, s \ {c})
      BY TotalStep
    <2>2. s \ {c} \in SUBSET S /\ c \in S
      OBVIOUS
    <2>3. PICK t \in Nat : t = Total(v, s \ {c})
      BY <2>2, TotalOf
    <2>4. PICK x \in Nat : x = v[c] /\ u[c] = k * x
      BY <2>2
    <2>5. Total(u, s \ {c}) = k * t
      BY <1>2, <2>3
    <2>6. k * x + k * t = k * (x + t)
      OBVIOUS
    <2>7. Total(u, s) = k * Total(v, s)
      BY <2>1, <2>3, <2>4, <2>5, <2>6
    <2>8. QED
      BY <2>7
  <1> HIDE DEF M
  <1>3. \A s \in SUBSET S : (\A c \in s : s \ {c} \in M) => s \in M
    BY <1>1, <1>2
  <1>4. \A s \in SUBSET S : s \in M
    BY <1>3, SubsetInduction, Zenon
  <1>5. QED
    BY <1>4 DEF M

LEMMA TotalsBound ==
    ASSUME NEW S, IsFiniteSet(S), NEW u \in [S -> Nat], NEW v \in [S -> Nat], \A c \in S : u[c] <= v[c]
    PROVE  Total(u, S) <= Total(v, S)
  <1> DEFINE d == [c \in S |-> v[c] - u[c]]
  <1>1. d \in [S -> Nat] /\ \A c \in S : v[c] = u[c] + d[c]
    OBVIOUS
  <1> HIDE DEF d
  <1>2. Total(v, S) = Total(u, S) + Total(d, S)
    BY <1>1, TotalsAdd
  <1>3. Total(u, S) \in Nat /\ Total(d, S) \in Nat
    BY <1>1, TotalOf
  <1>4. QED
    BY <1>2, <1>3

LEMMA TotalOfChosen ==
    ASSUME NEW S, IsFiniteSet(S), NEW eleitos \in SUBSET S, NEW w \in [S -> Nat], \A c \in S : w[c] = IF c \in eleitos THEN 1 ELSE 0
    PROVE  Total(w, S) = Cardinality(eleitos)
  <1> DEFINE M == {s \in SUBSET S : Total(w, s) = Cardinality(eleitos \cap s)}
  <1>1. {} \in M
    <2>1. eleitos \cap {} = {} /\ Total(w, {}) = 0
      BY TotalOf
    <2>2. QED
      BY <2>1, FS_EmptySet
  <1>2. ASSUME NEW s \in SUBSET S, NEW c \in s, s \ {c} \in M PROVE s \in M
    <2>1. Total(w, s) = w[c] + Total(w, s \ {c})
      BY TotalStep
    <2>2. Total(w, s \ {c}) = Cardinality(eleitos \cap (s \ {c}))
      BY <1>2
    <2>3. IsFiniteSet(eleitos \cap s) /\ eleitos \cap (s \ {c}) = (eleitos \cap s) \ {c}
      BY FS_Subset
    <2>4. Cardinality(eleitos \cap s) \in Nat
      BY <2>3, FS_CardinalityType
    <2>5. Cardinality((eleitos \cap s) \ {c}) = IF c \in eleitos \cap s THEN Cardinality(eleitos \cap s) - 1 ELSE Cardinality(eleitos \cap s)
      BY <2>3, FS_RemoveElement
    <2>6. w[c] = IF c \in eleitos THEN 1 ELSE 0
      OBVIOUS
    <2>7. c \in eleitos \cap s <=> c \in eleitos
      OBVIOUS
    <2>8. Total(w, s) = Cardinality(eleitos \cap s)
      <3>1. PICK n \in Nat : n = Cardinality(eleitos \cap s)
        BY <2>4
      <3>2. Total(w, s \ {c}) = IF c \in eleitos THEN n - 1 ELSE n
        BY <2>2, <2>3, <2>5, <2>7, <3>1
      <3>3. QED
        BY <2>1, <2>6, <3>1, <3>2
    <2>9. QED
      BY <2>8
  <1> HIDE DEF M
  <1>3. \A s \in SUBSET S : (\A c \in s : s \ {c} \in M) => s \in M
    BY <1>1, <1>2
  <1>4. \A s \in SUBSET S : s \in M
    BY <1>3, SubsetInduction, Zenon
  <1>5. eleitos \cap S = eleitos
    OBVIOUS
  <1>6. QED
    BY <1>4, <1>5 DEF M

\* In an order, as many elements as asked for come first: those with fewer before them.
LEMMA FirstOnes ==
    ASSUME NEW S, IsFiniteSet(S), NEW L,
           \A a \in S : <<a, a>> \notin L,
           \A a, b, c \in S : <<a, b>> \in L /\ <<b, c>> \in L => <<a, c>> \in L,
           \A a, b \in S : a # b => <<a, b>> \in L \/ <<b, a>> \in L,
           NEW k \in Nat, k <= Cardinality(S)
    PROVE  Cardinality({c \in S : Cardinality({b \in S : <<b, c>> \in L}) < k}) = k
  <1> DEFINE Atras(c) == {b \in S : <<b, c>> \in L}
             n == Cardinality(S)
             lugar == [c \in S |-> Cardinality(Atras(c))]
  <1>1. n \in Nat
    BY FS_CardinalityType
  <1>2. ASSUME NEW c \in S PROVE Cardinality(Atras(c)) \in 0..(n - 1)
    <2>1. Atras(c) \in SUBSET S /\ Atras(c) # S
      OBVIOUS
    <2> HIDE DEF Atras
    <2>2. IsFiniteSet(Atras(c)) /\ Cardinality(Atras(c)) <= n /\ Cardinality(Atras(c)) # n
      BY <2>1, FS_Subset
    <2>3. Cardinality(Atras(c)) \in Nat
      BY <2>2, FS_CardinalityType
    <2>4. QED
      BY <1>1, <2>2, <2>3
  <1>3. ASSUME NEW a \in S, NEW b \in S, <<a, b>> \in L PROVE Cardinality(Atras(a)) < Cardinality(Atras(b))
    <2>1. Atras(a) \in SUBSET Atras(b) /\ Atras(a) # Atras(b) /\ Atras(b) \in SUBSET S
      BY <1>3
    <2> HIDE DEF Atras
    <2>2. IsFiniteSet(Atras(b)) /\ IsFiniteSet(Atras(a))
      BY <2>1, FS_Subset
    <2>3. Cardinality(Atras(a)) <= Cardinality(Atras(b)) /\ Cardinality(Atras(a)) # Cardinality(Atras(b))
      BY <2>1, <2>2, FS_Subset
    <2>4. Cardinality(Atras(a)) \in Nat /\ Cardinality(Atras(b)) \in Nat
      BY <2>2, FS_CardinalityType
    <2>5. QED
      BY <2>3, <2>4
  <1> HIDE DEF Atras, n
  <1>4. lugar \in [S -> 0..(n - 1)]
    BY <1>2
  <1>5. \A a, b \in S : lugar[a] = lugar[b] => a = b
    <2> SUFFICES ASSUME NEW a \in S, NEW b \in S, a # b PROVE lugar[a] # lugar[b]
      OBVIOUS
    <2>1. lugar[a] = Cardinality(Atras(a)) /\ lugar[b] = Cardinality(Atras(b))
      OBVIOUS
    <2>2. Cardinality(Atras(a)) \in Int /\ Cardinality(Atras(b)) \in Int
      BY <1>2
    <2>3. CASE <<a, b>> \in L
      BY <1>3, <2>1, <2>2, <2>3
    <2>4. CASE <<b, a>> \in L
      BY <1>3, <2>1, <2>2, <2>4
    <2>5. QED
      BY <2>3, <2>4
  <1>6. \A c \in S : lugar[c] = Cardinality(Atras(c))
    OBVIOUS
  <1> HIDE DEF lugar
  <1>7. lugar \in Injection(S, 0..(n - 1))
    BY <1>4, <1>5 DEF Injection, IsInjective
  <1>8. IsFiniteSet(0..(n - 1)) /\ Cardinality(0..(n - 1)) = n
    <2>1. PICK z \in Int : z = n - 1
      BY <1>1
    <2>2. IsFiniteSet(0..z) /\ Cardinality(0..z) = IF 0 > z THEN 0 ELSE z - 0 + 1
      BY FS_Interval
    <2>3. (IF 0 > z THEN 0 ELSE z - 0 + 1) = n
      BY <1>1, <2>1
    <2>4. QED
      BY <2>1, <2>2, <2>3
  <1>9. lugar \in Surjection(S, 0..(n - 1))
    BY <1>7, <1>8, FS_Injection DEF n
  <1> DEFINE Frente == {c \in S : Cardinality(Atras(c)) < k}
             g == [c \in Frente |-> lugar[c]]
  <1>10. g \in [Frente -> 0..(k - 1)]
    <2>1. ASSUME NEW c \in Frente PROVE lugar[c] \in 0..(k - 1)
      BY <1>2, <1>6
    <2>2. QED
      BY <2>1
  <1>11. \A a, b \in Frente : g[a] = g[b] => a = b
    BY <1>5
  <1>12. ASSUME NEW i \in 0..(k - 1) PROVE \E c \in Frente : g[c] = i
    <2>1. i \in 0..(n - 1) /\ i < k
      BY <1>1 DEF n
    <2>2. PICK c \in S : lugar[c] = i
      BY <1>9, <2>1 DEF Surjection
    <2>3. c \in Frente
      BY <1>6, <2>1, <2>2
    <2>4. QED
      BY <2>2, <2>3
  <1>13. g \in Bijection(Frente, 0..(k - 1))
    <2> HIDE DEF g, Frente
    <2>1. DOMAIN g = Frente
      BY <1>10
    <2>2. QED
      BY <1>10, <1>11, <1>12, <2>1 DEF Bijection, Injection, Surjection, IsInjective
  <1>14. IsFiniteSet(Frente)
    BY FS_Subset
  <1>15. Cardinality(0..(k - 1)) = Cardinality(Frente)
    <2> HIDE DEF Frente, g
    <2>1. ExistsBijection(Frente, 0..(k - 1))
      BY <1>13 DEF ExistsBijection
    <2>2. QED
      BY <1>14, <2>1, FS_Bijection
  <1>16. Cardinality(0..(k - 1)) = k
    <2>1. PICK z \in Int : z = k - 1
      OBVIOUS
    <2>2. Cardinality(0..z) = IF 0 > z THEN 0 ELSE z - 0 + 1
      BY FS_Interval
    <2>3. (IF 0 > z THEN 0 ELSE z - 0 + 1) = k
      BY <2>1
    <2>4. QED
      BY <2>1, <2>2, <2>3
  <1>17. QED
    BY <1>15, <1>16 DEF Atras

-----------------------------------------------------------------------------
(* Numbers and recursion *)

\* A set of numbers that has 0, and the next of each number it has, has them all.
LEMMA NumberInduction ==
    ASSUME NEW M, 0 \in M, \A n \in Nat : n \in M => n + 1 \in M
    PROVE  \A n \in Nat : n \in M
  <1> DEFINE Ruins == {n \in Nat : n \notin M}
  <1>1. Ruins # {} => \E n \in Ruins : \A m \in Ruins : ~(<<m, n>> \in OpToRel(<, Nat))
    <2>1. Ruins \subseteq Nat
      OBVIOUS
    <2> HIDE DEF Ruins
    <2>2. QED
      BY <2>1, NatLessThanWellFounded, WFMin, Zenon
  <1>2. ASSUME NEW n \in Ruins, \A m \in Ruins : ~(<<m, n>> \in OpToRel(<, Nat)) PROVE FALSE
    <2>1. n # 0 /\ n \in Nat
      OBVIOUS
    <2>2. PICK m \in Nat : m = n - 1
      BY <2>1
    <2>3. <<m, n>> \in OpToRel(<, Nat)
      BY <2>1, <2>2 DEF OpToRel
    <2>4. m \in M
      BY <1>2, <2>2, <2>3
    <2>5. QED
      BY <2>1, <2>2, <2>4
  <1>3. QED
    BY <1>1, <1>2

\* The largest of numbers that are not above n.
Maior(s) == CHOOSE x \in s : \A y \in s : x >= y

LEMMA LargestIs ==
    ASSUME NEW n \in Nat, NEW s \in SUBSET (1..n), s # {}
    PROVE  Maior(s) \in s /\ \A y \in s : Maior(s) >= y
  <1> DEFINE M == {m \in Nat : \A z \in SUBSET (1..n) : (\E y \in z : y >= n - m) => \E x \in z : \A y \in z : x >= y}
  <1>1. 0 \in M
    <2>1. ASSUME NEW z \in SUBSET (1..n), NEW y \in z, y >= n - 0 PROVE \E x \in z : \A v \in z : x >= v
      <3>1. \A v \in z : y >= v
        BY <2>1
      <3>2. QED
        BY <3>1
    <2>2. QED
      BY <2>1
  <1>2. ASSUME NEW m \in Nat, m \in M PROVE m + 1 \in M
    <2>1. ASSUME NEW z \in SUBSET (1..n), NEW y \in z, y >= n - (m + 1) PROVE \E x \in z : \A v \in z : x >= v
      <3>1. CASE \E v \in z : v >= n - m
        BY <1>2, <3>1
      <3>2. CASE ~\E v \in z : v >= n - m
        <4>1. \A v \in z : y >= v
          BY <2>1, <3>2
        <4>2. QED
          BY <4>1
      <3>3. QED
        BY <3>1, <3>2
    <2>2. QED
      BY <2>1
  <1>3. n \in M
    <2> HIDE DEF M
    <2>1. QED
      BY <1>1, <1>2, NumberInduction
  <1>4. \E y \in s : y >= n - n
    <2>1. PICK y : y \in s
      OBVIOUS
    <2>2. y \in 1..n
      BY <2>1
    <2>3. y >= n - n
      BY <2>2
    <2>4. QED
      BY <2>1, <2>3
  <1>5. \E x \in s : \A v \in s : x >= v
    BY <1>3, <1>4
  <1>6. QED
    BY <1>5, Zenon DEF Maior

LEMMA LargestOfFirst ==
    ASSUME NEW n \in Nat, NEW j \in 1..n
    PROVE  /\ 1..j \in SUBSET (1..n) /\ 1..j # {} /\ Maior(1..j) = j /\ (1..j) \ {j} = 1..(j - 1)
  <1>1. 1..j \in SUBSET (1..n) /\ j \in 1..j /\ (1..j) \ {j} = 1..(j - 1)
    OBVIOUS
  <1>2. Maior(1..j) \in 1..j /\ Maior(1..j) >= j
    BY <1>1, LargestIs
  <1>3. QED
    BY <1>1, <1>2

-----------------------------------------------------------------------------
(* Recursion over the subsets of a finite set, one element taken away at a   *)
(* time, has a solution: the least relation that holds the value of the      *)
(* empty set and follows the step is a function.                             *)

Fechada(C_, S, W, base, ch, H) ==
    /\ <<{}, base>> \in C_
    /\ \A s \in (SUBSET S) \ {{}}, v \in W :
          <<s \ {ch[s]}, v>> \in C_ => <<s, H[<<ch[s], v>>]>> \in C_
Alcance(S, W, base, ch, H) ==
    {p \in (SUBSET S) \X W : \A C_ \in SUBSET ((SUBSET S) \X W) : Fechada(C_, S, W, base, ch, H) => p \in C_}

\* A choice of an element of each set, a step from each value, and what they compute.
Passo(S, W, ch, H) ==
    (\A s \in (SUBSET S) \ {{}} : ch[s] \in s) /\ (\A x \in S, v \in W : H[<<x, v>>] \in W)
Resolve(it, S, base, ch, H) ==
    it = [s \in SUBSET S |-> IF s = {} THEN base ELSE H[<<ch[s], it[s \ {ch[s]}]>>]]

LEMMA RecursionExists ==
    ASSUME NEW S, IsFiniteSet(S), NEW W, NEW base \in W,
           NEW ch, NEW H, Passo(S, W, ch, H)
    PROVE  \E it \in [SUBSET S -> W] : Resolve(it, S, base, ch, H)
  <1> (\A s \in (SUBSET S) \ {{}} : ch[s] \in s) /\ (\A x \in S, v \in W : H[<<x, v>>] \in W)
    BY DEF Passo
  <1> DEFINE Z == Alcance(S, W, base, ch, H)
  <1>1. Z \in SUBSET ((SUBSET S) \X W)
    BY DEF Alcance
  <1>2. Fechada(Z, S, W, base, ch, H)
    <2>1. <<{}, base>> \in Z
      <3>1. <<{}, base>> \in (SUBSET S) \X W
        OBVIOUS
      <3>2. QED
        BY <3>1 DEF Alcance, Fechada
    <2>2. ASSUME NEW s \in (SUBSET S) \ {{}}, NEW v \in W, <<s \ {ch[s]}, v>> \in Z
          PROVE  <<s, H[<<ch[s], v>>]>> \in Z
      <3>1. <<s, H[<<ch[s], v>>]>> \in (SUBSET S) \X W
        <4>1. ch[s] \in S
          OBVIOUS
        <4>2. H[<<ch[s], v>>] \in W
          BY <4>1
        <4>3. QED
          BY <4>2
      <3>2. ASSUME NEW C_ \in SUBSET ((SUBSET S) \X W), Fechada(C_, S, W, base, ch, H)
            PROVE  <<s, H[<<ch[s], v>>]>> \in C_
        <4>1. <<s \ {ch[s]}, v>> \in C_
          BY <2>2, <3>2 DEF Alcance
        <4>2. QED
          BY <3>2, <4>1 DEF Fechada
      <3>3. QED
        BY <3>1, <3>2 DEF Alcance
    <2> HIDE DEF Z
    <2>3. QED
      BY <2>1, <2>2 DEF Fechada
  <1>3. \A C_ \in SUBSET ((SUBSET S) \X W) : Fechada(C_, S, W, base, ch, H) => Z \subseteq C_
    BY DEF Alcance
  <1> HIDE DEF Z
  <1> DEFINE M == {s \in SUBSET S : \E v \in W : \A u \in W : <<s, u>> \in Z <=> u = v}
  <1>4. ASSUME NEW s \in SUBSET S, \A c \in s : s \ {c} \in M PROVE s \in M
    <2>1. CASE s = {}
      <3>1. ASSUME NEW u \in W, <<{}, u>> \in Z, u # base PROVE FALSE
        <4> DEFINE Y == Z \ {<<{}, u>>}
        <4>1. <<{}, base>> \in Y
          BY <1>2, <3>1 DEF Fechada
        <4>2. ASSUME NEW t \in (SUBSET S) \ {{}}, NEW v \in W, <<t \ {ch[t]}, v>> \in Y
              PROVE  <<t, H[<<ch[t], v>>]>> \in Y
          BY <1>2, <4>2 DEF Fechada
        <4>3. Y \in SUBSET ((SUBSET S) \X W)
          BY <1>1
        <4>4. Fechada(Y, S, W, base, ch, H)
          <5> HIDE DEF Y
          <5>1. QED
            BY <4>1, <4>2 DEF Fechada
        <4>5. Z \subseteq Y
          BY <1>3, <4>3, <4>4
        <4>6. QED
          BY <3>1, <4>5
      <3>2. <<{}, base>> \in Z
        BY <1>2 DEF Fechada
      <3>3. \A u \in W : <<s, u>> \in Z <=> u = base
        BY <2>1, <3>1, <3>2
      <3>4. QED
        BY <3>3
    <2>2. CASE s # {}
      <3>1. ch[s] \in s /\ s \in (SUBSET S) \ {{}}
        BY <2>2
      <3>2. PICK v \in W : \A u \in W : <<s \ {ch[s]}, u>> \in Z <=> u = v
        BY <1>4, <3>1
      <3>3. PICK h : h = H[<<ch[s], v>>]
        OBVIOUS
      <3>4. h \in W
        BY <3>1, <3>3
      <3>5. <<s, h>> \in Z
        BY <1>2, <3>1, <3>2, <3>3 DEF Fechada
      <3>6. ASSUME NEW u \in W, <<s, u>> \in Z, u # h PROVE FALSE
        <4> DEFINE Y == Z \ {<<s, u>>}
        <4>1. <<{}, base>> \in Y
          BY <1>2, <2>2 DEF Fechada
        <4>2. ASSUME NEW t \in (SUBSET S) \ {{}}, NEW z \in W, <<t \ {ch[t]}, z>> \in Y
              PROVE  <<t, H[<<ch[t], z>>]>> \in Y
          <5>1. <<t, H[<<ch[t], z>>]>> \in Z
            BY <1>2, <4>2 DEF Fechada
          <5>2. t = s => z = v
            BY <3>2, <4>2
          <5>3. t = s => H[<<ch[t], z>>] = h
            BY <3>3, <5>2
          <5>4. QED
            BY <3>6, <5>1, <5>3
        <4>3. Y \in SUBSET ((SUBSET S) \X W)
          BY <1>1
        <4>4. Fechada(Y, S, W, base, ch, H)
          <5> HIDE DEF Y
          <5>1. QED
            BY <4>1, <4>2 DEF Fechada
        <4>5. Z \subseteq Y
          BY <1>3, <4>3, <4>4
        <4>6. QED
          BY <3>6, <4>5
      <3>7. \A u \in W : <<s, u>> \in Z <=> u = h
        BY <3>5, <3>6
      <3>8. QED
        BY <3>4, <3>7
    <2>3. QED
      BY <2>1, <2>2
  <1>5. \A s \in SUBSET S : s \in M
    <2> HIDE DEF M
    <2>1. QED
      BY <1>4, SubsetInduction
  <1> DEFINE g == [s \in SUBSET S |-> CHOOSE v \in W : <<s, v>> \in Z]
  <1>6. ASSUME NEW s \in SUBSET S PROVE g[s] \in W /\ \A u \in W : <<s, u>> \in Z <=> u = g[s]
    <2>1. PICK v \in W : \A u \in W : <<s, u>> \in Z <=> u = v
      BY <1>5
    <2>2. (CHOOSE x \in W : <<s, x>> \in Z) \in W /\ <<s, CHOOSE x \in W : <<s, x>> \in Z>> \in Z
      BY <2>1
    <2>3. g[s] \in W /\ <<s, g[s]>> \in Z
      BY <2>2
    <2> HIDE DEF g
    <2>4. QED
      BY <2>1, <2>3
  <1>7. DOMAIN g = SUBSET S /\ g = [s \in SUBSET S |-> g[s]]
    OBVIOUS
  <1> HIDE DEF g
  <1>8. g \in [SUBSET S -> W]
    BY <1>6, <1>7
  <1>9. ASSUME NEW s \in SUBSET S PROVE g[s] = IF s = {} THEN base ELSE H[<<ch[s], g[s \ {ch[s]}]>>]
    <2>1. CASE s = {}
      BY <1>2, <1>6, <2>1 DEF Fechada
    <2>2. CASE s # {}
      <3>1. s \ {ch[s]} \in SUBSET S /\ ch[s] \in S /\ s \in (SUBSET S) \ {{}}
        BY <2>2
      <3>2. g[s \ {ch[s]}] \in W /\ <<s \ {ch[s]}, g[s \ {ch[s]}]>> \in Z
        BY <1>6, <3>1
      <3>3. <<s, H[<<ch[s], g[s \ {ch[s]}]>>]>> \in Z
        BY <1>2, <3>1, <3>2 DEF Fechada
      <3>4. H[<<ch[s], g[s \ {ch[s]}]>>] \in W
        BY <3>1, <3>2
      <3>5. QED
        BY <1>6, <2>2, <3>3, <3>4
    <2>3. QED
      BY <2>1, <2>2
  <1>10. g = [s \in SUBSET S |-> IF s = {} THEN base ELSE H[<<ch[s], g[s \ {ch[s]}]>>]]
    BY <1>7, <1>9, Zenon
  <1>11. QED
    BY <1>8, <1>10, Zenon DEF Resolve

-----------------------------------------------------------------------------
(* Choices of k elements of a finite set *)

Escolhas(k, S) == {s \in SUBSET S : Cardinality(s) = k}
Quantas(k, S) == Cardinality(Escolhas(k, S))

LEMMA ChoicesFinite ==
    ASSUME NEW S, IsFiniteSet(S), NEW k
    PROVE  IsFiniteSet(Escolhas(k, S)) /\ Quantas(k, S) \in Nat
  <1>1. Escolhas(k, S) \in SUBSET (SUBSET S)
    BY DEF Escolhas
  <1>2. IsFiniteSet(SUBSET S)
    BY FS_SUBSET
  <1>3. IsFiniteSet(Escolhas(k, S))
    BY <1>1, <1>2, FS_Subset
  <1>4. QED
    BY <1>3, FS_CardinalityType DEF Quantas

\* Equally many pairs of one and the other.
LEMMA PairsCounted ==
    ASSUME NEW S, IsFiniteSet(S), NEW Y, NEW f, f \in Bijection(S, Y)
    PROVE  IsFiniteSet(Y) /\ Cardinality(Y) = Cardinality(S)
  <1>1. ExistsBijection(S, Y)
    BY DEF ExistsBijection
  <1>2. QED
    BY <1>1, FS_Bijection

LEMMA NoneChosen ==
    ASSUME NEW S, IsFiniteSet(S)
    PROVE  Quantas(0, S) = 1
  <1>1. Escolhas(0, S) = {{}}
    <2>1. ASSUME NEW s \in SUBSET S PROVE Cardinality(s) = 0 <=> s = {}
      BY FS_Subset, FS_EmptySet
    <2>2. QED
      BY <2>1 DEF Escolhas
  <1>2. QED
    BY <1>1, FS_Singleton DEF Quantas

\* A set of choices, each with one more element that it does not have.
LEMMA OneMoreEach ==
    ASSUME NEW Y, IsFiniteSet(Y), NEW x, \A s \in Y : x \notin s
    PROVE  IsFiniteSet({s \cup {x} : s \in Y}) /\ Cardinality({s \cup {x} : s \in Y}) = Cardinality(Y)
  <1> DEFINE f == [s \in Y |-> s \cup {x}]
             Z == {s \cup {x} : s \in Y}
  <1>1. f \in [Y -> Z] /\ \A s \in Y : f[s] = s \cup {x}
    OBVIOUS
  <1>2. \A a, b \in Y : f[a] = f[b] => a = b
    <2>1. ASSUME NEW a \in Y, NEW b \in Y, a \cup {x} = b \cup {x} PROVE a = b
      <3>1. x \notin a /\ x \notin b
        OBVIOUS
      <3>2. a = (a \cup {x}) \ {x} /\ b = (b \cup {x}) \ {x}
        BY <3>1
      <3>3. QED
        BY <2>1, <3>2
    <2>2. QED
      BY <1>1, <2>1
  <1>3. \A z \in Z : \E s \in Y : f[s] = z
    OBVIOUS
  <1> HIDE DEF f, Z
  <1>4. f \in Bijection(Y, Z)
    BY <1>1, <1>2, <1>3 DEF Bijection, Injection, Surjection, IsInjective
  <1>5. IsFiniteSet(Z) /\ Cardinality(Z) = Cardinality(Y)
    BY <1>4, PairsCounted
  <1>6. QED
    BY <1>5 DEF Z

\* Choices of k + 1 of a set with one more element: without it, or with it and k others.
LEMMA OneMoreElement ==
    ASSUME NEW S, IsFiniteSet(S), NEW x, x \notin S, NEW k \in Nat
    PROVE  Quantas(k + 1, S \cup {x}) = Quantas(k + 1, S) + Quantas(k, S)
  <1> DEFINE Y == Escolhas(k, S)
             N == Escolhas(k + 1, S)
             Z == {s \cup {x} : s \in Y}
  <1>1. \A s \in Y : s \in SUBSET S /\ x \notin s /\ IsFiniteSet(s) /\ Cardinality(s) = k
    BY FS_Subset DEF Escolhas
  <1>2. IsFiniteSet(Y) /\ IsFiniteSet(N) /\ Cardinality(Y) \in Nat /\ Cardinality(N) \in Nat
    BY ChoicesFinite DEF Quantas
  <1>3. IsFiniteSet(Z) /\ Cardinality(Z) = Cardinality(Y)
    BY <1>1, <1>2, OneMoreEach
  <1>4. Escolhas(k + 1, S \cup {x}) = N \cup Z
    <2>1. ASSUME NEW t \in Escolhas(k + 1, S \cup {x}) PROVE t \in N \cup Z
      <3>1. t \in SUBSET (S \cup {x}) /\ Cardinality(t) = k + 1
        BY DEF Escolhas
      <3>2. CASE x \in t
        <4>1. t \ {x} \in SUBSET S /\ t = (t \ {x}) \cup {x}
          BY <3>1, <3>2
        <4>2. IsFiniteSet(t)
          BY <3>1, FS_AddElement, FS_Subset
        <4>3. Cardinality(t \ {x}) = k
          <5>1. Cardinality(t \ {x}) = Cardinality(t) - 1
            BY <3>2, <4>2, FS_RemoveElement
          <5>2. QED
            BY <3>1, <5>1
        <4>4. t \ {x} \in Y
          BY <4>1, <4>3 DEF Escolhas
        <4>5. QED
          BY <4>1, <4>4
      <3>3. CASE x \notin t
        <4>1. t \in SUBSET S
          BY <3>1, <3>3
        <4>2. QED
          BY <3>1, <4>1 DEF Escolhas
      <3>4. QED
        BY <3>2, <3>3
    <2>2. N \subseteq Escolhas(k + 1, S \cup {x})
      BY DEF Escolhas
    <2>3. ASSUME NEW s \in Y PROVE s \cup {x} \in Escolhas(k + 1, S \cup {x})
      <3>1. s \in SUBSET S /\ x \notin s /\ IsFiniteSet(s) /\ Cardinality(s) = k
        BY <1>1
      <3>2. Cardinality(s \cup {x}) = k + 1
        BY <3>1, FS_AddElement
      <3>3. QED
        BY <3>1, <3>2 DEF Escolhas
    <2>4. QED
      BY <2>1, <2>2, <2>3
  <1>5. N \cap Z = {}
    BY <1>1 DEF Escolhas
  <1> HIDE DEF Y, N, Z
  <1>6. Cardinality(N \cup Z) = Cardinality(N) + Cardinality(Z) - Cardinality({})
    BY <1>2, <1>3, <1>5, FS_Union
  <1>7. Cardinality({}) = 0
    BY FS_EmptySet
  <1>8. QED
    <2>1. Quantas(k + 1, S \cup {x}) = Cardinality(N \cup Z)
      BY <1>4 DEF Quantas
    <2>2. Quantas(k + 1, S) = Cardinality(N) /\ Quantas(k, S) = Cardinality(Y)
      BY DEF Quantas, Y, N
    <2>3. QED
      BY <1>2, <1>3, <1>6, <1>7, <2>1, <2>2

\* k + 1 times the choices of k + 1 is the choices of k, times the elements left to choose.
LEMMA ChoicesStep ==
    ASSUME NEW S, IsFiniteSet(S)
    PROVE  \A k \in Nat : (k + 1) * Quantas(k + 1, S) = (Cardinality(S) - k) * Quantas(k, S)
  <1> DEFINE M == {s \in SUBSET S : \A k \in Nat : (k + 1) * Quantas(k + 1, s) = (Cardinality(s) - k) * Quantas(k, s)}
  <1>1. {} \in M
    <2>1. ASSUME NEW k \in Nat PROVE (k + 1) * Quantas(k + 1, {}) = (Cardinality({}) - k) * Quantas(k, {})
      <3>1. Cardinality({}) = 0 /\ IsFiniteSet({})
        BY FS_EmptySet
      <3>2. \A j \in Nat \ {0} : Quantas(j, {}) = 0
        <4>1. ASSUME NEW j \in Nat \ {0} PROVE Escolhas(j, {}) = {}
          BY <3>1 DEF Escolhas
        <4>2. QED
          BY <3>1, <4>1 DEF Quantas
      <3>3. Quantas(k + 1, {}) = 0
        BY <3>2
      <3>4. k # 0 => Quantas(k, {}) = 0
        BY <3>2
      <3>5. Quantas(0, {}) = 1
        BY <3>1, NoneChosen
      <3>6. CASE k = 0
        BY <3>1, <3>3, <3>5, <3>6
      <3>7. CASE k # 0
        BY <3>1, <3>3, <3>4, <3>7
      <3>8. QED
        BY <3>6, <3>7
    <2>2. QED
      BY <2>1
  <1>2. ASSUME NEW s \in SUBSET S, NEW x \in s, s \ {x} \in M PROVE s \in M
    <2>1. PICK t : t = s \ {x}
      OBVIOUS
    <2>2. s = t \cup {x} /\ x \notin t /\ IsFiniteSet(t) /\ IsFiniteSet(s)
      BY <2>1, FS_Subset
    <2>3. PICK n \in Nat : n = Cardinality(t) /\ Cardinality(s) = n + 1
      BY <2>2, FS_AddElement, FS_CardinalityType
    <2>4. \A k \in Nat : Quantas(k, t) \in Nat /\ Quantas(k, s) \in Nat
      BY <2>2, ChoicesFinite
    <2>5. \A k \in Nat : Quantas(k + 1, s) = Quantas(k + 1, t) + Quantas(k, t)
      BY <2>2, OneMoreElement
    <2>6. \A k \in Nat : (k + 1) * Quantas(k + 1, t) = (n - k) * Quantas(k, t)
      BY <1>2, <2>1, <2>3
    <2>7. ASSUME NEW k \in Nat PROVE (k + 1) * Quantas(k + 1, s) = (Cardinality(s) - k) * Quantas(k, s)
      <3>1. CASE k = 0
        <4>1. Quantas(0, s) = 1 /\ Quantas(0, t) = 1
          BY <2>2, NoneChosen
        <4>2. Quantas(1, t) = n
          <5>1. (0 + 1) * Quantas(0 + 1, t) = (n - 0) * Quantas(0, t)
            BY <2>6
          <5>2. Quantas(1, t) \in Nat
            BY <2>4
          <5>3. QED
            BY <4>1, <5>1, <5>2
        <4>3. Quantas(0 + 1, s) = Quantas(0 + 1, t) + Quantas(0, t)
          BY <2>5
        <4>4. QED
          BY <2>3, <3>1, <4>1, <4>2, <4>3
      <3>2. CASE k # 0
        <4>1. PICK j \in Nat : k = j + 1
          BY <3>2, k - 1 \in Nat
        <4>2. PICK a \in Nat, b \in Nat, c \in Nat : a = Quantas(j, t) /\ b = Quantas(j + 1, t) /\ c = Quantas(j + 2, t)
          BY <2>4, SMTT(30)
        <4>3. Quantas(j + 1, s) = b + a
          BY <2>5, <4>2
        <4>4. Quantas(j + 2, s) = c + b
          <5>1. Quantas((j + 1) + 1, s) = Quantas((j + 1) + 1, t) + Quantas(j + 1, t)
            BY <2>5
          <5>2. QED
            BY <4>2, <5>1
        <4>5. (j + 1) * b = (n - j) * a
          BY <2>6, <4>2
        <4>6. (j + 2) * c = (n - (j + 1)) * b
          <5>1. ((j + 1) + 1) * Quantas((j + 1) + 1, t) = (n - (j + 1)) * Quantas(j + 1, t)
            BY <2>6
          <5>2. QED
            BY <4>2, <5>1
        <4>7. (j + 2) * (c + b) = (n - j) * (b + a)
          <5>1. (j + 2) * (c + b) = (j + 2) * c + (j + 2) * b
            OBVIOUS
          <5>2. (n - j) * (b + a) = (n - j) * b + (n - j) * a
            OBVIOUS
          <5>3. (n - (j + 1)) * b + (j + 2) * b = (n - j) * b + (j + 1) * b
            OBVIOUS
          <5>4. QED
            BY <4>5, <4>6, <5>1, <5>2, <5>3
        <4>8. k + 1 = j + 2 /\ Cardinality(s) - k = n - j
          BY <2>3, <4>1
        <4>9. QED
          BY <4>1, <4>3, <4>4, <4>7, <4>8
      <3>3. QED
        BY <3>1, <3>2
    <2>8. QED
      BY <2>7
  <1>3. \A s \in SUBSET S : s \in M
    <2>1. \A s \in SUBSET S : (\A c \in s : s \ {c} \in M) => s \in M
      BY <1>1, <1>2
    <2> HIDE DEF M
    <2>2. QED
      BY <2>1, SubsetInduction
  <1>4. QED
    BY <1>3

\* Choices with so many elements of a part of the set, and so many of the rest.
LEMMA ChoicesOfParts ==
    ASSUME NEW S, IsFiniteSet(S), NEW Y \in SUBSET S, NEW h \in Nat, NEW m \in Nat
    PROVE  Cardinality({s \in Escolhas(h + m, S) : Cardinality(s \cap Y) = h}) = Quantas(h, Y) * Quantas(m, S \ Y)
  <1> DEFINE Z == {s \in Escolhas(h + m, S) : Cardinality(s \cap Y) = h}
             N == Escolhas(h, Y) \X Escolhas(m, S \ Y)
             f == [s \in Z |-> <<s \cap Y, s \ Y>>]
  <1>1. IsFiniteSet(Y) /\ IsFiniteSet(S \ Y)
    BY FS_Subset, S \ Y \in SUBSET S
  <1>2. IsFiniteSet(N) /\ Cardinality(N) = Quantas(h, Y) * Quantas(m, S \ Y)
    BY <1>1, ChoicesFinite, FS_Product DEF Quantas
  <1>3. ASSUME NEW s \in SUBSET S
        PROVE  \E n, a, b \in Nat : /\ Cardinality(s) = n /\ Cardinality(s \cap Y) = a /\ Cardinality(s \ Y) = b
                                   /\ n = a + b
    <2>1. IsFiniteSet(s)
      BY FS_Subset
    <2>2. IsFiniteSet(s \cap Y) /\ IsFiniteSet(s \ Y) /\ Cardinality(s \ Y) = Cardinality(s) - Cardinality(s \cap Y)
      BY <2>1, FS_Subset, FS_Difference, s \cap Y \in SUBSET s
    <2>3. Cardinality(s) \in Nat /\ Cardinality(s \cap Y) \in Nat /\ Cardinality(s \ Y) \in Nat
      BY <2>1, <2>2, FS_CardinalityType
    <2>4. Cardinality(s) = Cardinality(s \cap Y) + Cardinality(s \ Y)
      BY <2>2, <2>3
    <2>5. QED
      BY <2>3, <2>4
  <1>4. ASSUME NEW s \in Z PROVE <<s \cap Y, s \ Y>> \in N
    <2>1. s \in SUBSET S /\ Cardinality(s) = h + m /\ Cardinality(s \cap Y) = h
      BY DEF Escolhas
    <2>2. PICK n, a, b \in Nat : Cardinality(s) = n /\ Cardinality(s \cap Y) = a /\ Cardinality(s \ Y) = b /\ n = a + b
      BY <1>3, <2>1
    <2>3. Cardinality(s \ Y) = m
      BY <2>1, <2>2
    <2>4. QED
      BY <2>1, <2>3 DEF Escolhas
  <1>5. f \in [Z -> N] /\ \A s \in Z : f[s] = <<s \cap Y, s \ Y>>
    BY <1>4
  <1>6. \A a, b \in Z : f[a] = f[b] => a = b
    <2>1. ASSUME NEW a \in Z, NEW b \in Z, <<a \cap Y, a \ Y>> = <<b \cap Y, b \ Y>> PROVE a = b
      <3>1. a \cap Y = b \cap Y /\ a \ Y = b \ Y
        BY <2>1
      <3>2. QED
        BY <3>1
    <2>2. QED
      BY <1>5, <2>1
  <1>7. ASSUME NEW p \in N PROVE \E s \in Z : f[s] = p
    <2>1. PICK a \in Escolhas(h, Y), b \in Escolhas(m, S \ Y) : p = <<a, b>>
      BY <1>7
    <2>2. a \in SUBSET Y /\ b \in SUBSET (S \ Y) /\ Cardinality(a) = h /\ Cardinality(b) = m
      BY DEF Escolhas
    <2>3. (a \cup b) \cap Y = a /\ (a \cup b) \ Y = b /\ a \cup b \in SUBSET S
      BY <2>2
    <2>4. Cardinality(a \cup b) = h + m
      <3>1. PICK n, x, y \in Nat : /\ Cardinality(a \cup b) = n /\ Cardinality((a \cup b) \cap Y) = x
                                  /\ Cardinality((a \cup b) \ Y) = y /\ n = x + y
        BY <1>3, <2>3
      <3>2. QED
        BY <2>2, <2>3, <3>1
    <2>5. a \cup b \in Z
      BY <2>2, <2>3, <2>4 DEF Escolhas
    <2>6. QED
      BY <1>5, <2>1, <2>3, <2>5
  <1>8. IsFiniteSet(Z)
    <2>1. IsFiniteSet(Escolhas(h + m, S)) /\ Z \in SUBSET Escolhas(h + m, S)
      BY ChoicesFinite
    <2>2. QED
      BY <2>1, FS_Subset
  <1> HIDE DEF f, N, Z
  <1>9. f \in Bijection(Z, N)
    BY <1>5, <1>6, <1>7 DEF Bijection, Injection, Surjection, IsInjective
  <1>10. Cardinality(N) = Cardinality(Z)
    BY <1>8, <1>9, PairsCounted
  <1>11. QED
    BY <1>2, <1>10 DEF Z

-----------------------------------------------------------------------------
(* Loops over a sequence *)

\* The quotient of the languages of the code: the largest whose product is not above the number.
LEMMA DivisionIs ==
    ASSUME NEW a \in Int, NEW b \in Nat \ {0}
    PROVE  a \div b \in Int /\ (a \div b) * b <= a /\ a < (a \div b) * b + b
  BY SMT

Leva(k, W, H) == \A x \in 1..k, v \in W : H[<<x, v>>] \in W
Dobra(it, k, base, H) ==
    it = [s \in SUBSET (1..k) |-> IF s = {} THEN base ELSE H[<<Maior(s), it[s \ {Maior(s)}]>>]]

\* Recursion over a sequence, from the last element back.
LEMMA FoldExists ==
    ASSUME NEW k \in Nat, NEW W, NEW base \in W, NEW H, Leva(k, W, H)
    PROVE  \E it \in [SUBSET (1..k) -> W] : Dobra(it, k, base, H)
  <1>1. IsFiniteSet(1..k)
    BY FS_Interval
  <1> DEFINE ch == [s \in SUBSET (1..k) |-> Maior(s)]
  <1>2. \A s \in SUBSET (1..k) : ch[s] = Maior(s)
    OBVIOUS
  <1> HIDE DEF ch
  <1>3. \A s \in (SUBSET (1..k)) \ {{}} : ch[s] \in s
    BY <1>2, LargestIs
  <1>4. Passo(1..k, W, ch, H)
    BY <1>3, Zenon DEF Passo, Leva
  <1>5. PICK it \in [SUBSET (1..k) -> W] : Resolve(it, 1..k, base, ch, H)
    BY <1>1, <1>4, RecursionExists
  <1>6. \A s \in SUBSET (1..k) : it[s] = IF s = {} THEN base ELSE H[<<ch[s], it[s \ {ch[s]}]>>]
    BY <1>5, Zenon DEF Resolve
  <1>7. \A s \in SUBSET (1..k) : it[s] = IF s = {} THEN base ELSE H[<<Maior(s), it[s \ {Maior(s)}]>>]
    BY <1>2, <1>6
  <1>8. it = [s \in SUBSET (1..k) |-> it[s]]
    BY <1>5
  <1>9. QED
    BY <1>5, <1>7, <1>8, Zenon DEF Dobra

\* The product and its divisions, as a recursion over the factors taken, the largest last.
Produto(it, n, k) ==
    it = [s \in SUBSET (1..k) |-> IF s = {} THEN 1
                                 ELSE (it[s \ {Maior(s)}] * (n - Maior(s) + 1)) \div Maior(s)]

LEMMA ProductExists ==
    ASSUME NEW n \in Nat, NEW k \in Nat
    PROVE  \E it : Produto(it, n, k)
  <1> DEFINE H == [p \in (1..k) \X Int |-> (p[2] * (n - p[1] + 1)) \div p[1]]
  <1>1. ASSUME NEW x \in 1..k, NEW v \in Int PROVE H[<<x, v>>] = (v * (n - x + 1)) \div x /\ H[<<x, v>>] \in Int
    <2>1. <<x, v>> \in (1..k) \X Int
      OBVIOUS
    <2>2. H[<<x, v>>] = (v * (n - x + 1)) \div x
      BY <2>1
    <2>3. v * (n - x + 1) \in Int /\ x \in Nat \ {0}
      OBVIOUS
    <2> HIDE DEF H
    <2>4. (v * (n - x + 1)) \div x \in Int
      BY <2>3, DivisionIs
    <2>5. QED
      BY <2>2, <2>4
  <1> HIDE DEF H
  <1>0. Leva(k, Int, H)
    BY <1>1, Zenon DEF Leva
  <1>d. PICK it \in [SUBSET (1..k) -> Int] : Dobra(it, k, 1, H)
    <2>1. 1 \in Int
      OBVIOUS
    <2>2. QED
      BY <1>0, <2>1, FoldExists
  <1>2. \A s \in SUBSET (1..k) : it[s] = IF s = {} THEN 1 ELSE H[<<Maior(s), it[s \ {Maior(s)}]>>]
    BY <1>d, Zenon DEF Dobra
  <1>3. ASSUME NEW s \in SUBSET (1..k)
        PROVE  it[s] = IF s = {} THEN 1 ELSE (it[s \ {Maior(s)}] * (n - Maior(s) + 1)) \div Maior(s)
    <2>1. CASE s = {}
      BY <1>2, <2>1
    <2>2. CASE s # {}
      <3>1. Maior(s) \in 1..k /\ s \ {Maior(s)} \in SUBSET (1..k)
        BY <2>2, LargestIs
      <3>2. it[s \ {Maior(s)}] \in Int
        BY <3>1
      <3>3. QED
        BY <1>1, <1>2, <2>2, <3>1, <3>2
    <2>3. QED
      BY <2>1, <2>2
  <1>4. it = [s \in SUBSET (1..k) |-> it[s]]
    OBVIOUS
  <1>5. QED
    BY <1>3, <1>4, Zenon DEF Produto

\* It counts the choices of k among n.
LEMMA ProductIs ==
    ASSUME NEW S, IsFiniteSet(S), NEW n \in Nat, n = Cardinality(S), NEW k \in Nat, NEW it, Produto(it, n, k)
    PROVE  it[1..k] = Quantas(k, S)
  <1> DEFINE M == {j \in Nat : j <= k => it[1..j] = Quantas(j, S)}
  <1>1. \A s \in SUBSET (1..k) : it[s] = IF s = {} THEN 1
                                         ELSE (it[s \ {Maior(s)}] * (n - Maior(s) + 1)) \div Maior(s)
    BY Zenon DEF Produto
  <1>2. 0 \in M
    <2>1. {} \in SUBSET (1..k) /\ 1..0 = {}
      OBVIOUS
    <2>2. it[1..0] = 1
      BY <1>1, <2>1
    <2>3. QED
      BY <2>2, NoneChosen
  <1>3. ASSUME NEW j \in Nat, j \in M PROVE j + 1 \in M
    <2>1. ASSUME j + 1 <= k PROVE it[1..(j + 1)] = Quantas(j + 1, S)
      <3>1. PICK i \in Nat : i = j + 1 /\ i \in 1..k /\ i - 1 = j
        BY <2>1
      <3>2. 1..i \in SUBSET (1..k) /\ 1..i # {} /\ Maior(1..i) = i /\ (1..i) \ {i} = 1..(i - 1)
        BY <3>1, LargestOfFirst
      <3>3. it[1..i] = (it[1..j] * (n - i + 1)) \div i
        <4>1. it[1..i] = (it[(1..i) \ {Maior(1..i)}] * (n - Maior(1..i) + 1)) \div Maior(1..i)
          BY <1>1, <3>2
        <4>2. QED
          BY <3>1, <3>2, <4>1
      <3>4. it[1..j] = Quantas(j, S)
        BY <1>3, <3>1
      <3>5. PICK a \in Nat, b \in Nat : a = Quantas(j, S) /\ b = Quantas(j + 1, S)
        BY ChoicesFinite
      <3>6. (j + 1) * b = (n - j) * a
        BY <3>5, ChoicesStep
      <3>7. a * (n - i + 1) = i * b
        <4>1. n - i + 1 = n - j
          BY <3>1
        <4>2. a * (n - j) = (n - j) * a
          OBVIOUS
        <4>3. QED
          BY <3>1, <3>6, <4>1, <4>2
      <3>8. (i * b) \div i = b
        <4>1. i \in Nat \ {0} /\ i * b \in Nat
          BY <3>1
        <4>2. QED
          BY <4>1
      <3>9. QED
        BY <3>1, <3>3, <3>4, <3>5, <3>7, <3>8
    <2>2. QED
      BY <2>1
  <1>4. k \in M
    <2> HIDE DEF M
    <2>1. QED
      BY <1>2, <1>3, NumberInduction
  <1>5. QED
    BY <1>4

-----------------------------------------------------------------------------
(* Values in a sequence *)

\* The smallest of numbers that are not above n.
LEMMA SmallestIs ==
    ASSUME NEW n \in Nat, NEW s \in SUBSET (1..n), s # {}
    PROVE  \E x \in s : \A y \in s : x <= y
  <1> DEFINE z == {i \in 1..n : n + 1 - i \in s}
  <1>1. z \in SUBSET (1..n) /\ \A i \in 1..n : i \in z <=> n + 1 - i \in s
    OBVIOUS
  <1>2. z # {}
    <2>1. PICK x : x \in s
      OBVIOUS
    <2>2. x \in 1..n
      BY <2>1
    <2>3. PICK i \in 1..n : i = n + 1 - x /\ n + 1 - i = x
      BY <2>2
    <2>4. QED
      BY <1>1, <2>1, <2>3
  <1> HIDE DEF z
  <1>3. Maior(z) \in z /\ \A i \in z : Maior(z) >= i
    BY <1>1, <1>2, LargestIs
  <1>4. PICK m \in 1..n : m = Maior(z)
    BY <1>1, <1>3
  <1>5. n + 1 - m \in s
    BY <1>1, <1>3, <1>4
  <1>6. ASSUME NEW y \in s PROVE n + 1 - m <= y
    <2>1. y \in 1..n
      OBVIOUS
    <2>2. PICK i \in 1..n : i = n + 1 - y /\ n + 1 - i = y
      BY <2>1
    <2>3. i \in z
      BY <1>1, <2>2
    <2>4. m >= i
      BY <1>3, <1>4, <2>3
    <2>5. QED
      BY <2>1, <2>2, <2>4
  <1>7. QED
    BY <1>5, <1>6

\* How many times a value is among the first n of a sequence.
Aparece(s, n, j) == {i \in 1..n : s[i] = j}
Repete(s, n, j) == Cardinality(Aparece(s, n, j))

LEMMA TimesNat ==
    ASSUME NEW s, NEW n \in Nat, NEW j
    PROVE  IsFiniteSet(Aparece(s, n, j)) /\ Repete(s, n, j) \in Nat
  <1>1. IsFiniteSet(1..n) /\ Aparece(s, n, j) \in SUBSET (1..n)
    BY FS_Interval DEF Aparece
  <1>2. QED
    BY <1>1, FS_Subset, FS_CardinalityType DEF Repete

LEMMA TimesStep ==
    ASSUME NEW s, NEW j
    PROVE  /\ Repete(s, 0, j) = 0
           /\ \A n \in Nat : Repete(s, n + 1, j) = Repete(s, n, j) + (IF s[n + 1] = j THEN 1 ELSE 0)
  <1>1. Repete(s, 0, j) = 0
    <2>1. Aparece(s, 0, j) = {}
      BY DEF Aparece
    <2>2. QED
      BY <2>1, FS_EmptySet DEF Repete
  <1>2. ASSUME NEW n \in Nat PROVE Repete(s, n + 1, j) = Repete(s, n, j) + (IF s[n + 1] = j THEN 1 ELSE 0)
    <2>1. IsFiniteSet(Aparece(s, n, j)) /\ Repete(s, n, j) \in Nat
      BY TimesNat
    <2>2. CASE s[n + 1] = j
      <3>1. Aparece(s, n + 1, j) = Aparece(s, n, j) \cup {n + 1} /\ n + 1 \notin Aparece(s, n, j)
        BY <2>2 DEF Aparece
      <3>2. Cardinality(Aparece(s, n + 1, j)) = Cardinality(Aparece(s, n, j)) + 1
        BY <2>1, <3>1, FS_AddElement
      <3>3. QED
        BY <2>1, <2>2, <3>2 DEF Repete
    <2>3. CASE s[n + 1] # j
      <3>1. Aparece(s, n + 1, j) = Aparece(s, n, j)
        BY <2>3 DEF Aparece
      <3>2. QED
        BY <2>1, <2>3, <3>1 DEF Repete
    <2>4. QED
      BY <2>2, <2>3
  <1>3. QED
    BY <1>1, <1>2

-----------------------------------------------------------------------------
(* The computations: prices and prizes *)

\* A step of the composition makes one computation or none.
LEMMA CalculosMoves == [Next]_vars => K!Next \/ UNCHANGED calculo
  BY DEF Next, Parados, vars, RepassesAnda, JogoAnda, FiscalAnda, ContasAnda, RedeAnda, BolaoAnda, CalculosAnda, EstatisticasAnda,
    ProvedoresAnda, PushAnda, AssistenteAnda, FontesAnda, ArquivosAnda, PaineisAnda, AcessoAnda, BancoAnda, calculosVars

\* Math.ceil and Math.round of a quotient.
LEMMA CeilingIs ==
    ASSUME NEW a \in Int, NEW b \in Nat \ {0}
    PROVE  K!Teto(a, b) \in Int /\ a <= K!Teto(a, b) * b /\ K!Teto(a, b) * b < a + b
  BY DivisionIs, a + b - 1 \in Int DEF K!Teto

LEMMA RoundingIs ==
    ASSUME NEW a \in Int, NEW b \in Nat \ {0}
    PROVE  /\ K!Arredonda(a, b) \in Int
           /\ 2 * (K!Arredonda(a, b) * b - a) <= b
           /\ -b <= 2 * (K!Arredonda(a, b) * b - a)
  <1> DEFINE d == (2 * a + b) \div (2 * b)
  <1>1. d \in Int /\ d * (2 * b) <= 2 * a + b /\ 2 * a + b < d * (2 * b) + 2 * b
    <2>1. 2 * a + b \in Int /\ 2 * b \in Nat \ {0}
      OBVIOUS
    <2>2. QED
      BY <2>1, DivisionIs
  <1>2. K!Arredonda(a, b) = d
    BY DEF K!Arredonda
  <1> HIDE DEF d
  <1>3. PICK m \in Int : m = d * b
    BY <1>1
  <1>4. d * (2 * b) = 2 * m
    BY <1>1, <1>3
  <1>5. 2 * (m - a) <= b /\ -b <= 2 * (m - a)
    BY <1>1, <1>3, <1>4
  <1>6. QED
    BY <1>1, <1>2, <1>3, <1>5

\* Shares that cost their part of the bets, or more, pay for them.
LEMMA PartCovers ==
    ASSUME NEW custo \in Int, NEW cotas \in Nat \ {0}, NEW registro \in Int, registro >= K!Parte(custo, cotas)
    PROVE  registro * cotas >= custo /\ (registro = K!Parte(custo, cotas) => registro * cotas - custo < cotas)
  <1>1. PICK p \in Int : p = K!Parte(custo, cotas) /\ custo <= p * cotas /\ p * cotas < custo + cotas
    BY CeilingIs DEF K!Parte
  <1>2. registro * cotas >= p * cotas
    BY <1>1
  <1>3. QED
    BY <1>1, <1>2

\* A price made of a registration that covers its part, and of any fee.
LEMMA PriceCloses ==
    ASSUME NEW custo \in Int, NEW cotas \in Nat \ {0}, NEW registro \in Int, NEW taxa \in Int,
           registro >= K!Parte(custo, cotas), calculo' = K!Preco(custo, cotas, registro, taxa)
    PROVE  K!PrecoFecha'
  <1>1. registro * cotas >= custo /\ (registro = K!Parte(custo, cotas) => registro * cotas - custo < cotas)
    BY PartCovers
  <1>2. registro * cotas + taxa * cotas = (registro + taxa) * cotas
    OBVIOUS
  <1>3. calculo'.orcamento = registro * cotas /\ calculo'.custo = custo /\ calculo'.administracao = taxa * cotas
        /\ calculo'.total = (registro + taxa) * cotas /\ calculo'.registro = registro /\ calculo'.cotas = cotas
        /\ calculo'.reserva = registro * cotas - custo
    BY DEF K!Preco
  <1>4. QED
    BY <1>1, <1>2, <1>3 DEF K!PrecoFecha

LEMMA PricesClose == ASSUME K!Precifica PROVE K!PrecoFecha'
  <1>1. PICK custo \in 0..MaxCusto, cotas \in 1..MaxCotas :
        \/ \E bps \in {0, 1250, 3500} : custo > 0 /\ calculo' = K!PorPercentual(custo, cotas, bps)
        \/ \E cota_ \in 1..MaxValor : cota_ >= K!Parte(custo, cotas) /\ calculo' = K!PorCota(custo, cotas, cota_)
        \/ \E cota_ \in 1..MaxValor : \E taxa \in 0..cota_ :
              cota_ - taxa >= K!Parte(custo, cotas) /\ calculo' = K!PorTaxa(custo, cotas, cota_, taxa)
    BY DEF K!Precifica
  <1>2. custo \in Int /\ cotas \in Nat \ {0}
    BY <1>1
  <1>3. PICK p \in Int : p = K!Parte(custo, cotas)
    BY <1>2, CeilingIs DEF K!Parte
  <1>4. CASE \E bps \in {0, 1250, 3500} : custo > 0 /\ calculo' = K!PorPercentual(custo, cotas, bps)
    <2>1. PICK bps \in {0, 1250, 3500} : calculo' = K!PorPercentual(custo, cotas, bps)
      BY <1>4
    <2>2. p * bps \in Int /\ 10000 \in Nat \ {0}
      BY <1>3, <2>1
    <2>3. K!Arredonda(p * bps, 10000) \in Int /\ p >= K!Parte(custo, cotas)
      <3>1. K!Arredonda(p * bps, 10000) \in Int
        BY <2>2, RoundingIs
      <3>2. QED
        BY <1>3, <3>1
    <2>4. calculo' = K!Preco(custo, cotas, p, K!Arredonda(p * bps, 10000))
      BY <1>3, <2>1 DEF K!PorPercentual
    <2>5. PICK taxa \in Int : taxa = K!Arredonda(p * bps, 10000)
      BY <2>3
    <2>6. calculo' = K!Preco(custo, cotas, p, taxa)
      BY <2>4, <2>5
    <2>7. taxa \in Int
      BY <2>5
    <2>8. QED
      BY <1>2, <1>3, <2>6, <2>7, PriceCloses
  <1>5. CASE \E cota_ \in 1..MaxValor : cota_ >= K!Parte(custo, cotas) /\ calculo' = K!PorCota(custo, cotas, cota_)
    <2>1. PICK cota_ \in 1..MaxValor : calculo' = K!Preco(custo, cotas, p, cota_ - p)
      BY <1>3, <1>5 DEF K!PorCota
    <2>2. QED
      BY <1>2, <1>3, <2>1, PriceCloses
  <1>6. CASE \E cota_ \in 1..MaxValor : \E taxa \in 0..cota_ :
              cota_ - taxa >= K!Parte(custo, cotas) /\ calculo' = K!PorTaxa(custo, cotas, cota_, taxa)
    <2>1. PICK cota_ \in 1..MaxValor : \E taxa \in 0..cota_ :
              cota_ - taxa >= K!Parte(custo, cotas) /\ calculo' = K!PorTaxa(custo, cotas, cota_, taxa)
      BY <1>6
    <2>2. PICK taxa \in 0..cota_ :
              cota_ - taxa >= K!Parte(custo, cotas) /\ calculo' = K!Preco(custo, cotas, cota_ - taxa, taxa)
      BY <2>1 DEF K!PorTaxa
    <2>3. cota_ - taxa \in Int /\ taxa \in Int
      BY <2>1, <2>2
    <2>4. QED
      BY <1>2, <2>2, <2>3, PriceCloses
  <1>7. QED
    BY <1>1, <1>4, <1>5, <1>6

\* A share made of its part of the bets and a percentage keeps the percentage, or less than a cent more.
LEMMA FormMade ==
    ASSUME NEW parte \in Nat \ {0}, NEW pct \in {0, 7, 35, 99}
    PROVE  /\ K!ComPct(parte, pct) \in Int /\ K!ComPct(parte, pct) >= parte
           /\ (K!ComPct(parte, pct) - parte) * 100 >= K!ComPct(parte, pct) * pct
           /\ (K!ComPct(parte, pct) - parte - 1) * 100 < (K!ComPct(parte, pct) - 1) * pct
  <1>1. parte * 100 \in Int /\ 100 - pct \in Nat \ {0}
    OBVIOUS
  <1>2. PICK c \in Int : c = K!ComPct(parte, pct) /\ parte * 100 <= c * (100 - pct) /\ c * (100 - pct) < parte * 100 + (100 - pct)
    BY <1>1, CeilingIs DEF K!ComPct
  <1>3. c >= parte /\ (c - parte) * 100 >= c * pct /\ (c - parte - 1) * 100 < (c - 1) * pct
    <2>1. CASE pct = 0
      BY <1>2, <2>1
    <2>2. CASE pct = 7
      BY <1>2, <2>2
    <2>3. CASE pct = 35
      BY <1>2, <2>3
    <2>4. CASE pct = 99
      BY <1>2, <2>4
    <2>5. QED
      BY <2>1, <2>2, <2>3, <2>4
  <1>4. QED
    BY <1>2, <1>3

\* The plan of the form, fee by fee: what is typed, and what is made from the part of the bets.
LEMMA PlansClose == ASSUME K!Planeja PROVE K!PlanoConfere'
  <1>1. PICK custo \in 0..MaxCusto, cotas \in 1..MaxCotas, digitada \in 0..MaxValor, taxa \in K!Taxas :
        /\ digitada = 0 => custo > 0 /\ taxa.modo # "sobra" /\ ~(taxa.modo = "pct" /\ taxa.valor = 100)
        /\ calculo' = [op |-> "plano", custo |-> custo, cotas |-> cotas, pedida |-> taxa,
                       calculada |-> digitada = 0,
                       plano |-> K!planPricing(custo, cotas, digitada, taxa)]
    BY DEF K!Planeja
  <1>2. custo \in Nat /\ cotas \in Nat \ {0} /\ digitada \in Nat
    BY <1>1
  <1>3. PICK parte \in Int : parte = K!Parte(custo, cotas) /\ custo <= parte * cotas
    BY <1>2, CeilingIs DEF K!Parte
  <1>4. /\ taxa.modo \in {"pct", "cota", "total", "sobra"} /\ taxa.valor \in Nat
        /\ taxa.modo = "pct" => taxa.valor \in {0, 7, 35, 99, 100}
    BY <1>1 DEF K!Taxas
  <1>5. PICK r \in Int : /\ r = K!Arredonda(taxa.valor, cotas)
                         /\ 2 * (r * cotas - taxa.valor) <= cotas /\ -cotas <= 2 * (r * cotas - taxa.valor)
    <2>1. taxa.valor \in Int
      BY <1>4
    <2>2. QED
      BY <1>2, <2>1, RoundingIs
  <1> DEFINE cotaDe == IF digitada > 0 THEN digitada
                       ELSE CASE taxa.modo = "pct" -> K!ComPct(parte, taxa.valor)
                              [] taxa.modo = "cota" -> parte + taxa.valor
                              [] OTHER -> parte + r
             taxaDe == IF digitada = 0 \/ taxa.modo = "sobra" THEN cotaDe - parte
                       ELSE CASE taxa.modo = "pct" -> K!Arredonda(cotaDe * taxa.valor, 100)
                              [] taxa.modo = "cota" -> taxa.valor
                              [] OTHER -> r
  <1>6. K!planPricing(custo, cotas, digitada, taxa)
          = [cota |-> cotaDe, taxa |-> taxaDe, ok |-> cotaDe > 0 /\ taxaDe >= 0 /\ cotaDe - taxaDe >= parte]
    BY <1>3, <1>5 DEF K!planPricing
  <1>7. digitada = 0 => /\ parte > 0 /\ cotaDe \in Int /\ cotaDe >= parte /\ taxaDe = cotaDe - parte
                        /\ taxa.modo = "pct" => /\ taxaDe * 100 >= cotaDe * taxa.valor
                                                /\ (taxaDe - 1) * 100 < (cotaDe - 1) * taxa.valor
                        /\ taxa.modo = "total" => taxaDe = r
    <2> SUFFICES ASSUME digitada = 0
                 PROVE  /\ parte > 0 /\ cotaDe \in Int /\ cotaDe >= parte /\ taxaDe = cotaDe - parte
                        /\ taxa.modo = "pct" => /\ taxaDe * 100 >= cotaDe * taxa.valor
                                                /\ (taxaDe - 1) * 100 < (cotaDe - 1) * taxa.valor
                        /\ taxa.modo = "total" => taxaDe = r
      OBVIOUS
    <2>1. parte > 0
      BY <1>1, <1>2, <1>3
    <2>2. CASE taxa.modo = "pct"
      <3>1. taxa.valor \in {0, 7, 35, 99}
        BY <1>1, <1>4, <2>2
      <3>2. cotaDe = K!ComPct(parte, taxa.valor) /\ taxaDe = cotaDe - parte
        BY <2>2
      <3>3. parte \in Nat \ {0}
        BY <1>3, <2>1
      <3> HIDE DEF cotaDe, taxaDe
      <3>4. /\ cotaDe \in Int /\ cotaDe >= parte
            /\ (cotaDe - parte) * 100 >= cotaDe * taxa.valor
            /\ (cotaDe - parte - 1) * 100 < (cotaDe - 1) * taxa.valor
        <4>1. PICK pct \in {0, 7, 35, 99} : pct = taxa.valor
          BY <3>1
        <4>2. /\ K!ComPct(parte, pct) \in Int /\ K!ComPct(parte, pct) >= parte
              /\ (K!ComPct(parte, pct) - parte) * 100 >= K!ComPct(parte, pct) * pct
              /\ (K!ComPct(parte, pct) - parte - 1) * 100 < (K!ComPct(parte, pct) - 1) * pct
          BY <3>3, <4>1, FormMade, ZenonT(100)
        <4>3. cotaDe = K!ComPct(parte, pct)
          BY <3>2, <4>1
        <4>4. QED
          BY <4>1, <4>2, <4>3
      <3>5. QED
        BY <2>1, <2>2, <3>2, <3>4
    <2>3. CASE taxa.modo = "cota"
      <3>1. cotaDe = parte + taxa.valor /\ taxaDe = cotaDe - parte
        BY <2>3
      <3> HIDE DEF cotaDe, taxaDe
      <3>2. QED
        BY <1>3, <1>4, <2>1, <2>3, <3>1
    <2>4. CASE taxa.modo = "total"
      <3>1. cotaDe = parte + r /\ taxaDe = cotaDe - parte
        BY <2>4
      <3>2. r >= 0
        BY <1>2, <1>4, <1>5
      <3> HIDE DEF cotaDe, taxaDe
      <3>3. QED
        BY <1>3, <1>5, <2>1, <2>4, <3>1, <3>2
    <2>5. QED
      BY <1>1, <1>4, <2>2, <2>3, <2>4
  <1>8. digitada > 0 => /\ cotaDe \in Int /\ taxaDe \in Int
                        /\ taxa.modo = "total" => taxaDe = r
    <2> SUFFICES ASSUME digitada > 0 PROVE cotaDe \in Int /\ taxaDe \in Int /\ (taxa.modo = "total" => taxaDe = r)
      OBVIOUS
    <2>1. cotaDe = digitada /\ digitada # 0
      BY <1>2
    <2>2. digitada * taxa.valor \in Int /\ 100 \in Nat \ {0}
      BY <1>2, <1>4
    <2>3. K!Arredonda(digitada * taxa.valor, 100) \in Int
      BY <2>2, RoundingIs
    <2>4. taxaDe = IF taxa.modo = "sobra" THEN digitada - parte
                   ELSE CASE taxa.modo = "pct" -> K!Arredonda(digitada * taxa.valor, 100)
                          [] taxa.modo = "cota" -> taxa.valor
                          [] OTHER -> r
      BY <2>1
    <2> HIDE DEF cotaDe, taxaDe
    <2>5. QED
      BY <1>2, <1>3, <1>4, <1>5, <2>1, <2>3, <2>4
  <1> HIDE DEF cotaDe, taxaDe
  <1>9. cotaDe \in Int /\ taxaDe \in Int /\ (taxa.modo = "total" => taxaDe = r)
    BY <1>2, <1>3, <1>7, <1>8
  <1>10. ASSUME cotaDe - taxaDe >= parte
         PROVE  /\ (cotaDe - taxaDe) * cotas >= custo
                /\ ((cotaDe - taxaDe) + taxaDe) * cotas = cotaDe * cotas
    <2>1. (cotaDe - taxaDe) * cotas >= custo
      <3>1. cotaDe - taxaDe \in Int /\ custo \in Int
        BY <1>2, <1>9
      <3>2. QED
        BY <1>2, <1>3, <1>10, <3>1, PartCovers
    <2>2. (cotaDe - taxaDe) + taxaDe = cotaDe
      BY <1>9
    <2>3. QED
      BY <2>1, <2>2
  <1>11. taxa.modo = "total" => 2 * (taxaDe * cotas - taxa.valor) \in (-cotas)..cotas
    BY <1>2, <1>4, <1>5, <1>9
  <1>12. digitada = 0 => cotaDe > 0 /\ taxaDe >= 0 /\ cotaDe - taxaDe >= parte
    BY <1>3, <1>7
  <1>13. /\ calculo'.plano.cota = cotaDe /\ calculo'.plano.taxa = taxaDe
         /\ calculo'.plano.ok <=> (cotaDe > 0 /\ taxaDe >= 0 /\ cotaDe - taxaDe >= parte)
         /\ calculo'.custo = custo /\ calculo'.cotas = cotas /\ calculo'.pedida = taxa
         /\ calculo'.calculada <=> (digitada = 0)
    <2> DEFINE vale == cotaDe > 0 /\ taxaDe >= 0 /\ cotaDe - taxaDe >= parte
    <2>1. calculo' = [op |-> "plano", custo |-> custo, cotas |-> cotas, pedida |-> taxa, calculada |-> digitada = 0,
                      plano |-> [cota |-> cotaDe, taxa |-> taxaDe, ok |-> vale]]
      BY <1>1, <1>6
    <2> HIDE DEF vale
    <2>2. /\ calculo'.plano.cota = cotaDe /\ calculo'.plano.taxa = taxaDe /\ (calculo'.plano.ok <=> vale)
          /\ calculo'.custo = custo /\ calculo'.cotas = cotas /\ calculo'.pedida = taxa
          /\ (calculo'.calculada <=> (digitada = 0))
      BY <2>1
    <2>3. QED
      BY <2>2 DEF vale
  <1>14. ASSUME calculo'.plano.ok
         PROVE  /\ K!PorTaxa(custo, cotas, cotaDe, taxaDe).orcamento >= custo
                /\ K!PorTaxa(custo, cotas, cotaDe, taxaDe).total = cotaDe * cotas
    BY <1>10, <1>13, <1>14 DEF K!PorTaxa, K!Preco
  <1>15. QED
    BY <1>7, <1>11, <1>12, <1>13, <1>14 DEF K!PlanoConfere

\* The tiers a game is paid: the same whether the table has the second draw apart or nobody won there.
LEMMA PrizesOfADraw == ASSUME K!Premia PROVE K!PremioDoSorteio'
  <1>1. PICK ts \in K!Tabelas, a \in 1..3, b \in 1..3 :
           calculo' = [op |-> "premia", faixas |-> ts, primeiro |-> a, segundo |-> b, valor |-> K!settleGames(ts, a, b)]
    BY DEF K!Premia
  <1> DEFINE separada == <<2, TRUE>> \in DOMAIN ts
             Da(acertos, segundo) == {<<acertos, segundo /\ separada>>} \cap DOMAIN ts
             primeiro == Da(a, FALSE)
             segundo == Da(b, TRUE)
  <1>2. DOMAIN ts = (2..3) \X {FALSE} \/ DOMAIN ts = (2..3) \X BOOLEAN
    BY <1>1 DEF K!Tabelas
  <1>3. ASSUME primeiro \cup segundo \subseteq K!Pagas(ts)
        PROVE  K!Faixas(ts, a, FALSE) = primeiro /\ K!Faixas(ts, b, TRUE) = segundo
    <2> DEFINE P == K!Pagas(ts)
    <2>1. P \subseteq DOMAIN ts
      BY DEF K!Pagas
    <2>2. K!Faixas(ts, a, FALSE) = {t \in P : t[1] = a /\ ((\E u \in P : u[2]) => t[2] = FALSE)}
          /\ K!Faixas(ts, b, TRUE) = {t \in P : t[1] = b /\ ((\E u \in P : u[2]) => t[2] = TRUE)}
      BY DEF K!Faixas, K!Separa
    <2>3. primeiro \subseteq P /\ segundo \subseteq P
      BY <1>3
    <2> HIDE DEF P
    <2>4. CASE DOMAIN ts = (2..3) \X {FALSE}
      <3>1. ~separada
        BY <2>4
      <3>2. ~\E u \in P : u[2]
        <4>1. \A u \in (2..3) \X {FALSE} : u[2] = FALSE
          OBVIOUS
        <4>2. QED
          BY <2>1, <2>4, <4>1
      <3>3. primeiro = {<<a, FALSE>>} \cap DOMAIN ts /\ segundo = {<<b, FALSE>>} \cap DOMAIN ts
        BY <3>1
      <3> HIDE DEF primeiro, segundo, separada, Da
      <3>4. \A t \in P : t = <<t[1], FALSE>>
        <4>1. ASSUME NEW t \in (2..3) \X {FALSE} PROVE t = <<t[1], FALSE>>
          <5>1. t \in (2..3) \X BOOLEAN /\ t[2] = FALSE
            OBVIOUS
          <5>2. \A u \in (2..3) \X BOOLEAN : u = <<u[1], u[2]>>
            OBVIOUS
          <5>3. QED
            BY <5>1, <5>2
        <4>2. QED
          BY <2>1, <2>4, <4>1
      <3>5. {t \in P : t[1] = a /\ ((\E u \in P : u[2]) => t[2] = FALSE)} = {t \in P : t[1] = a}
            /\ {t \in P : t[1] = b /\ ((\E u \in P : u[2]) => t[2] = TRUE)} = {t \in P : t[1] = b}
        BY <3>2
      <3>6. ASSUME NEW c, NEW S, S = {<<c, FALSE>>} \cap DOMAIN ts, S \subseteq P
            PROVE  {t \in P : t[1] = c} = S
        <4>1. \A t \in P : t[1] = c => t = <<c, FALSE>>
          BY <3>4
        <4>2. <<c, FALSE>>[1] = c
          OBVIOUS
        <4>3. QED
          BY <2>1, <3>6, <4>1, <4>2
      <3>7. {t \in P : t[1] = a} = primeiro /\ {t \in P : t[1] = b} = segundo
        BY <2>3, <3>3, <3>6
      <3>8. QED
        BY <2>2, <3>5, <3>7
    <2>5. CASE DOMAIN ts = (2..3) \X BOOLEAN
      <3>1. separada
        <4>1. 2 \in 2..3 /\ TRUE \in BOOLEAN
          OBVIOUS
        <4>2. QED
          BY <2>5, <4>1, Zenon
      <3>2. primeiro = {<<a, FALSE>>} \cap DOMAIN ts /\ segundo = {<<b, TRUE>>} \cap DOMAIN ts
        BY <3>1
      <3> HIDE DEF primeiro, segundo, separada, Da
      <3>3. \A t \in P : t[2] \in BOOLEAN /\ t[1] \in 2..3 /\ t = <<t[1], t[2]>>
        BY <2>1, <2>5
      <3>4. \A c \in 2..3, s \in BOOLEAN : <<c, s>> \in DOMAIN ts
        BY <2>5
      <3>5. {t \in P : t[1] = a /\ ((\E u \in P : u[2]) => t[2] = FALSE)} = primeiro
        <4>1. ASSUME NEW t \in P, t[1] = a, (\E u \in P : u[2]) => t[2] = FALSE PROVE t = <<a, FALSE>>
          BY <3>3, <4>1
        <4>2. QED
          BY <2>1, <2>3, <3>2, <3>3, <4>1, ZenonT(40)
      <3>6. {t \in P : t[1] = b /\ ((\E u \in P : u[2]) => t[2] = TRUE)} = segundo
        <4>1. ASSUME NEW t \in P, t[1] = b, (\E u \in P : u[2]) => t[2] = TRUE PROVE t = <<b, TRUE>>
          <5>1. <<b, TRUE>> \in DOMAIN ts
            BY <3>3, <3>4, <4>1
          <5>2. <<b, TRUE>> \in P
            BY <2>3, <3>2, <5>1
          <5>3. <<b, TRUE>>[2]
            OBVIOUS
          <5>4. QED
            BY <3>3, <4>1, <5>2, <5>3
        <4>2. QED
          BY <2>1, <2>3, <3>2, <3>3, <4>1
      <3>7. QED
        BY <2>2, <3>5, <3>6
    <2>6. QED
      BY <1>2, <2>4, <2>5
  <1>4. calculo'.op = "premia" /\ calculo'.faixas = ts /\ calculo'.primeiro = a /\ calculo'.segundo = b
        /\ calculo'.valor = K!Valor(ts, K!Faixas(ts, a, FALSE)) + K!Valor(ts, K!Faixas(ts, b, TRUE))
    BY <1>1 DEF K!settleGames
  <1>5. QED
    BY <1>3, <1>4 DEF K!PremioDoSorteio

\* What was priced is what is bet: every price of the pricing engine and every plan of the form covers the bets and adds
\* up, and a game is paid, in each draw, the tier its hits reach there.
THEOREM PricesAndPrizesAgree == Spec => [](K!PremioDoSorteio /\ K!PrecoFecha /\ K!PlanoConfere)
  <1> DEFINE Certo == K!PremioDoSorteio /\ K!PrecoFecha /\ K!PlanoConfere
  <1>1. Init => Certo
    BY DEF Init, K!Init, K!Nenhum, K!PremioDoSorteio, K!PrecoFecha, K!PlanoConfere
  <1>2. K!Next => Certo'
    <2> SUFFICES ASSUME K!Next PROVE Certo'
      OBVIOUS
    <2>1. CASE K!Premia
      <3>1. calculo'.op = "premia"
        BY <2>1 DEF K!Premia
      <3>2. QED
        BY <2>1, <3>1, PrizesOfADraw DEF K!PrecoFecha, K!PlanoConfere
    <2>2. CASE K!Precifica
      <3>1. calculo'.op = "preco"
        BY <2>2 DEF K!Precifica, K!PorPercentual, K!PorCota, K!PorTaxa, K!Preco
      <3>2. QED
        BY <2>2, <3>1, PricesClose DEF K!PremioDoSorteio, K!PlanoConfere
    <2>3. CASE K!Planeja
      <3>1. calculo'.op = "plano"
        BY <2>3 DEF K!Planeja
      <3>2. QED
        BY <2>3, <3>1, PlansClose DEF K!PremioDoSorteio, K!PrecoFecha
    <2>4. CASE K!Divide \/ K!Tabula \/ K!Confere
      <3>1. calculo'.op \in {"divide", "numeros", "colunas", "confere"}
        BY <2>4 DEF K!Divide, K!Tabula, K!Confere
      <3>2. QED
        BY <3>1 DEF K!PremioDoSorteio, K!PrecoFecha, K!PlanoConfere
    <2>5. QED
      BY <2>1, <2>2, <2>3, <2>4 DEF K!Next
  <1>3. Certo /\ UNCHANGED calculo => Certo'
    BY DEF K!PremioDoSorteio, K!PrecoFecha, K!PlanoConfere
  <1> HIDE DEF Certo
  <1>4. Spec => []Certo
    BY <1>1, <1>2, <1>3, CalculosMoves, PTL DEF Spec
  <1>5. QED
    BY <1>4 DEF Certo

-----------------------------------------------------------------------------
(* The division of a prize (splitPrize) *)

\* The sums of the library, of a function of the shares.
LEMMA SumIsTotal ==
    ASSUME IsFiniteSet(Partes), NEW w \in [Partes -> Nat]
    PROVE  (CHOOSE it : Soma(it, w, Partes))[Partes] = Total(w, Partes)
  <1>1. Soma(CHOOSE it : Soma(it, w, Partes), w, Partes)
    BY SumExists, Zenon
  <1>2. QED
    BY <1>1, SumUnique, Zenon

LEMMA UnitsAre ==
    ASSUME IsFiniteSet(Partes), NEW w \in [Partes -> Nat]
    PROVE  K!Unidades(w) = Total(w, Partes)
  <1>1. K!Unidades(w) = (CHOOSE it : Soma(it, w, Partes))[Partes]
    BY Zenon DEF K!Unidades, K!MapThenSumSet, K!MapThenFoldSet, Soma
  <1>2. QED
    BY <1>1, SumIsTotal, Zenon

LEMMA LeftIs ==
    ASSUME IsFiniteSet(Partes), NEW total, NEW w,
           [c \in Partes |-> K!Base(total, w, c)] \in [Partes -> Nat]
    PROVE  K!Sobra(total, w) = total - Total([c \in Partes |-> K!Base(total, w, c)], Partes)
  <1> DEFINE b == [c \in Partes |-> K!Base(total, w, c)]
             SomaB(it) == it = [s \in SUBSET Partes |-> IF s = {} THEN 0 ELSE K!Base(total, w, CHOOSE c \in s : TRUE)
                                                                              + it[s \ {CHOOSE c \in s : TRUE}]]
  <1>1. K!Sobra(total, w) = total - (CHOOSE it : SomaB(it))[Partes]
    BY Zenon DEF K!Sobra, K!MapThenSumSet, K!MapThenFoldSet
  <1>2. ASSUME NEW it PROVE SomaB(it) <=> Soma(it, b, Partes)
    <2> DEFINE Parcela(s) == IF s = {} THEN 0 ELSE K!Base(total, w, CHOOSE c \in s : TRUE) + it[s \ {CHOOSE c \in s : TRUE}]
               OutraParcela(s) == IF s = {} THEN 0 ELSE b[CHOOSE c \in s : TRUE] + it[s \ {CHOOSE c \in s : TRUE}]
    <2>1. ASSUME NEW s \in SUBSET Partes PROVE Parcela(s) = OutraParcela(s)
      <3>1. CASE s = {}
        BY <3>1
      <3>2. CASE s # {}
        <4>1. PICK x : x = CHOOSE c \in s : TRUE
          OBVIOUS
        <4>2. x \in Partes
          BY <3>2, <4>1
        <4>3. b[x] = K!Base(total, w, x)
          BY <4>2
        <4>4. Parcela(s) = K!Base(total, w, x) + it[s \ {x}] /\ OutraParcela(s) = b[x] + it[s \ {x}]
          BY <3>2, <4>1, Zenon
        <4>5. QED
          BY <4>3, <4>4, Zenon
      <3>3. QED
        BY <3>1, <3>2
    <2>2. [s \in SUBSET Partes |-> Parcela(s)] = [s \in SUBSET Partes |-> OutraParcela(s)]
      BY <2>1, Zenon
    <2>3. QED
      BY <2>2, Zenon DEF Soma
  <1>3. b \in [Partes -> Nat]
    OBVIOUS
  <1> HIDE DEF b, SomaB
  <1>4. SomaB([s \in SUBSET Partes |-> Total(b, s)])
    BY <1>2, <1>3, SumExists
  <1>5. SomaB(CHOOSE it : SomaB(it))
    BY <1>4, Zenon
  <1>6. Soma(CHOOSE it : SomaB(it), b, Partes)
    BY <1>2, <1>5, Zenon
  <1>7. (CHOOSE it : SomaB(it))[Partes] = Total(b, Partes)
    BY <1>3, <1>6, SumUnique, Zenon
  <1>8. QED
    BY <1>1, <1>7, Zenon DEF b

LEMMA RemainderIs ==
    ASSUME NEW a \in Int, NEW b \in Nat \ {0}
    PROVE  a % b \in 0..(b - 1) /\ a = (a \div b) * b + (a % b)
  BY SMT

\* The floor of each part and what it leaves.
LEMMA FloorOfPart ==
    ASSUME NEW total \in Nat, NEW w \in [Partes -> Nat], NEW n \in Nat \ {0}, K!Unidades(w) = n, NEW c \in Partes
    PROVE  /\ K!Base(total, w, c) \in Nat /\ K!Fracao(total, w, c) \in 0..(n - 1)
           /\ total * w[c] = n * K!Base(total, w, c) + K!Fracao(total, w, c)
           /\ w[c] = 0 \/ total = 0 => K!Base(total, w, c) = 0 /\ K!Fracao(total, w, c) = 0
  <1>1. PICK x \in Nat : x = w[c]
    OBVIOUS
  <1>2. PICK a \in Nat : a = total * x
    BY <1>1
  <1>3. PICK d \in Int, f \in 0..(n - 1) : d = a \div n /\ f = a % n /\ a = d * n + f
    <2>1. a \in Int
      BY <1>2
    <2>2. a \div n \in Int
      BY <2>1, DivisionIs
    <2>3. a % n \in 0..(n - 1) /\ a = (a \div n) * n + (a % n)
      BY <2>1, RemainderIs
    <2>4. QED
      BY <2>2, <2>3, Zenon
  <1>4. K!Base(total, w, c) = d /\ K!Fracao(total, w, c) = f
    BY <1>1, <1>2, <1>3 DEF K!Base, K!Fracao, K!Exato
  <1>5. d * n > a - n
    BY <1>2, <1>3
  <1>6. d >= 0
    <2>1. d * n + n > 0
      BY <1>2, <1>3, <1>5
    <2>2. CASE d < 0
      <3>1. d + 1 <= 0 /\ (d + 1) * n = d * n + n
        BY <1>3, <2>2
      <3>2. (d + 1) * n <= 0
        BY <1>3, <3>1
      <3>3. QED
        BY <1>3, <2>1, <3>1, <3>2
    <2>3. QED
      BY <1>3, <2>2
  <1>7. a = 0 => d = 0 /\ f = 0
    <2>1. d * n >= 0 /\ (d > 0 => d * n > 0)
      BY <1>3, <1>6
    <2>2. d * n \in Int
      BY <1>3
    <2>3. QED
      BY <1>2, <1>3, <1>6, <2>1, <2>2
  <1>8. w[c] = 0 \/ total = 0 => a = 0
    BY <1>1, <1>2
  <1>9. n * d = d * n
    BY <1>3
  <1>10. QED
    BY <1>1, <1>2, <1>3, <1>4, <1>6, <1>7, <1>8, <1>9

Positivas(w) == {c \in Partes : w[c] > 0}
Quebradas(total, w) == {c \in Partes : K!Fracao(total, w, c) > 0}

\* Less than a cent of each part that is not exact is left over.
LEMMA CentsLeft ==
    ASSUME IsFiniteSet(Partes), NEW total \in Nat, NEW w \in [Partes -> Nat], K!Unidades(w) > 0
    PROVE  /\ K!Sobra(total, w) \in Nat
           /\ K!Sobra(total, w) <= Cardinality(Quebradas(total, w))
           /\ Quebradas(total, w) \subseteq Positivas(w)
  <1> DEFINE b == [c \in Partes |-> K!Base(total, w, c)]
             f == [c \in Partes |-> K!Fracao(total, w, c)]
             todo == [c \in Partes |-> total * w[c]]
  <1>1. PICK n \in Nat \ {0} : n = K!Unidades(w) /\ n = Total(w, Partes)
    BY UnitsAre, TotalOf
  <1> DEFINE nb == [c \in Partes |-> n * b[c]]
             um == [c \in Partes |-> IF c \in Quebradas(total, w) THEN 1 ELSE 0]
             teto == [c \in Partes |-> (n - 1) * um[c]]
  <1>2. ASSUME NEW c \in Partes
        PROVE  /\ b[c] \in Nat /\ f[c] \in 0..(n - 1) /\ total * w[c] = n * b[c] + f[c]
               /\ w[c] = 0 => f[c] = 0
    BY <1>1, FloorOfPart
  <1>3. b \in [Partes -> Nat] /\ f \in [Partes -> Nat]
    BY <1>2
  <1>4. \A c \in Partes : b[c] = K!Base(total, w, c) /\ f[c] = K!Fracao(total, w, c)
    OBVIOUS
  <1>5. K!Sobra(total, w) = total - Total(b, Partes)
    BY <1>3, LeftIs
  <1> HIDE DEF b, f
  <1>6. todo \in [Partes -> Nat] /\ \A c \in Partes : todo[c] = total * w[c]
    <2>1. \A c \in Partes : w[c] \in Nat
      OBVIOUS
    <2>2. \A c \in Partes : total * w[c] \in Nat
      BY <2>1
    <2>3. QED
      BY <2>2
  <1>7. nb \in [Partes -> Nat] /\ \A c \in Partes : nb[c] = n * b[c]
    <2>1. \A c \in Partes : n * b[c] \in Nat
      BY <1>2
    <2>2. QED
      BY <2>1
  <1>8. um \in [Partes -> Nat] /\ \A c \in Partes : um[c] = IF c \in Quebradas(total, w) THEN 1 ELSE 0
    OBVIOUS
  <1> HIDE DEF um
  <1>9. teto \in [Partes -> Nat] /\ \A c \in Partes : teto[c] = (n - 1) * um[c]
    <2>1. \A c \in Partes : (n - 1) * um[c] \in Nat
      BY <1>8
    <2>2. QED
      BY <2>1
  <1> HIDE DEF todo, nb, teto
  <1>10. Total(todo, Partes) = total * n
    BY <1>1, <1>6, TotalsScale
  <1>11. Total(nb, Partes) = n * Total(b, Partes)
    BY <1>3, <1>7, TotalsScale
  <1>12. Total(todo, Partes) = Total(nb, Partes) + Total(f, Partes)
    <2>1. \A c \in Partes : todo[c] = nb[c] + f[c]
      BY <1>2, <1>6, <1>7
    <2>2. QED
      BY <1>3, <1>6, <1>7, <2>1, TotalsAdd
  <1>13. Quebradas(total, w) \in SUBSET Partes
    BY DEF Quebradas
  <1>14. PICK m \in Nat : m = Cardinality(Quebradas(total, w))
    BY <1>13, FS_Subset, FS_CardinalityType
  <1>15. Total(um, Partes) = m
    BY <1>8, <1>13, <1>14, TotalOfChosen
  <1>16. Total(teto, Partes) = (n - 1) * m
    <2>1. PICK x \in Nat : x = n - 1
      OBVIOUS
    <2>2. teto \in [Partes -> Nat] /\ \A c \in Partes : teto[c] = x * um[c]
      BY <1>9, <2>1
    <2>3. Total(teto, Partes) = x * Total(um, Partes)
      BY <1>8, <2>2, TotalsScale
    <2>4. QED
      BY <1>15, <2>1, <2>3
  <1>17. Total(f, Partes) <= Total(teto, Partes)
    <2>1. ASSUME NEW c \in Partes PROVE f[c] <= teto[c]
      <3>1. c \notin Quebradas(total, w) => f[c] = 0
        BY <1>2, <1>4 DEF Quebradas
      <3>2. teto[c] = (n - 1) * (IF c \in Quebradas(total, w) THEN 1 ELSE 0)
        BY <1>8, <1>9
      <3>3. (n - 1) * 1 = n - 1 /\ (n - 1) * 0 = 0
        OBVIOUS
      <3>4. QED
        BY <1>2, <3>1, <3>2, <3>3
    <2>2. QED
      BY <1>3, <1>9, <2>1, TotalsBound
  <1>18. PICK bases \in Nat, restos \in Nat : bases = Total(b, Partes) /\ restos = Total(f, Partes)
    BY <1>3, TotalOf
  <1>19. total * n = n * bases + restos /\ restos <= (n - 1) * m
    BY <1>10, <1>11, <1>12, <1>16, <1>17, <1>18
  <1>20. PICK k \in Int : k = total - bases
    BY <1>18
  <1>21. n * k = restos
    <2>1. n * k = n * total - n * bases /\ total * n = n * total
      BY <1>18, <1>20
    <2>2. QED
      BY <1>18, <1>19, <2>1
  <1>22. k >= 0
    BY <1>18, <1>20, <1>21
  <1>23. k <= m
    <2>1. CASE k > m
      <3>1. n * k >= n * (m + 1)
        BY <1>14, <1>20, <2>1
      <3>2. n * (m + 1) = n * m + n /\ (n - 1) * m = n * m - m
        BY <1>14
      <3>3. QED
        BY <1>14, <1>18, <1>19, <1>20, <1>21, <3>1, <3>2
    <2>2. QED
      BY <1>14, <1>20, <2>1
  <1>24. Quebradas(total, w) \subseteq Positivas(w)
    <2>1. ASSUME NEW c \in Partes, f[c] > 0 PROVE w[c] > 0
      <3>1. w[c] \in Nat
        OBVIOUS
      <3>2. QED
        BY <1>2, <2>1, <3>1
    <2>2. QED
      BY <1>4, <2>1 DEF Quebradas, Positivas
  <1>25. QED
    BY <1>5, <1>14, <1>18, <1>20, <1>22, <1>23, <1>24

Fila(total, w) == {x \in Positivas(w) \X Positivas(w) : K!Antes(total, w, x[1], x[2])}
Premiadas(total, w) ==
    {c \in Positivas(w) : Cardinality({b \in Positivas(w) : <<b, c>> \in Fila(total, w)}) < K!Sobra(total, w)}

\* The order of the cents: larger fractions first, then smaller ids.
LEMMA OrderOfCents ==
    ASSUME Partes \subseteq Int, NEW total \in Nat, NEW w \in [Partes -> Nat], K!Unidades(w) \in Nat \ {0}
    PROVE  LET P == Positivas(w)
               L == Fila(total, w)
           IN  /\ \A a \in P : <<a, a>> \notin L
               /\ \A a, b, c \in P : <<a, b>> \in L /\ <<b, c>> \in L => <<a, c>> \in L
               /\ \A a, b \in P : a # b => <<a, b>> \in L \/ <<b, a>> \in L
  <1> DEFINE P_ == Positivas(w)
  <1>1. \A a \in P_ : a \in Int /\ a \in Partes /\ K!Fracao(total, w, a) \in Int
    <2>1. ASSUME NEW a \in Partes PROVE K!Fracao(total, w, a) \in Int
      <3>1. PICK n \in Nat \ {0} : n = K!Unidades(w)
        OBVIOUS
      <3>2. K!Fracao(total, w, a) \in 0..(n - 1)
        BY <3>1, FloorOfPart
      <3>3. QED
        BY <3>2
    <2>2. QED
      BY <2>1 DEF Positivas
  <1>2. \A a, b \in P_ : <<a, b>> \in Fila(total, w) <=>
            \/ K!Fracao(total, w, a) > K!Fracao(total, w, b)
            \/ K!Fracao(total, w, a) = K!Fracao(total, w, b) /\ a < b
    BY DEF Fila, K!Antes
  <1> HIDE DEF P_
  <1>3. \A a \in P_ : <<a, a>> \notin Fila(total, w)
    BY <1>1, <1>2
  <1>4. \A a, b, c \in P_ : <<a, b>> \in Fila(total, w) /\ <<b, c>> \in Fila(total, w) => <<a, c>> \in Fila(total, w)
    BY <1>1, <1>2
  <1>5. \A a, b \in P_ : a # b => <<a, b>> \in Fila(total, w) \/ <<b, a>> \in Fila(total, w)
    BY <1>1, <1>2
  <1>6. QED
    BY <1>3, <1>4, <1>5 DEF P_

\* Who gets a cent, and that those who do are as many as the cents.
LEMMA CentsGiven ==
    ASSUME IsFiniteSet(Partes), Partes \subseteq Int, NEW total \in Nat, NEW w \in [Partes -> Nat], K!Unidades(w) > 0
    PROVE  /\ \A c \in Positivas(w) : K!SobraDe(total, w, c) = IF c \in Premiadas(total, w) THEN 1 ELSE 0
           /\ Cardinality(Premiadas(total, w)) = K!Sobra(total, w)
           /\ Premiadas(total, w) \subseteq Quebradas(total, w)
           /\ \A a \in Positivas(w), c \in Premiadas(total, w) : <<a, c>> \in Fila(total, w) => a \in Premiadas(total, w)
  <1> DEFINE PP == Positivas(w)
             L == Fila(total, w)
             Q_ == Quebradas(total, w)
             Atras(c) == {b \in PP : <<b, c>> \in L}
  <1>1. PICK n \in Nat \ {0} : n = K!Unidades(w)
    <2>1. K!Unidades(w) = Total(w, Partes) /\ Total(w, Partes) \in Nat
      BY UnitsAre, TotalOf
    <2>2. QED
      BY <2>1
  <1>2. /\ \A a \in PP : <<a, a>> \notin L
        /\ \A a, b, c \in PP : <<a, b>> \in L /\ <<b, c>> \in L => <<a, c>> \in L
        /\ \A a, b \in PP : a # b => <<a, b>> \in L \/ <<b, a>> \in L
    BY <1>1, OrderOfCents
  <1>3. PICK k \in Nat : k = K!Sobra(total, w) /\ k <= Cardinality(Q_)
    BY CentsLeft
  <1>4. Q_ \subseteq PP /\ PP \in SUBSET Partes /\ IsFiniteSet(PP) /\ IsFiniteSet(Q_)
    BY CentsLeft, FS_Subset DEF Positivas, Quebradas
  <1>5. k <= Cardinality(PP)
    <2>1. Cardinality(Q_) <= Cardinality(PP) /\ Cardinality(Q_) \in Nat /\ Cardinality(PP) \in Nat
      BY <1>4, FS_Subset, FS_CardinalityType
    <2>2. QED
      BY <1>3, <2>1
  <1>6. Cardinality(Premiadas(total, w)) = k
    <2> HIDE DEF PP, L
    <2>1. Cardinality({c \in PP : Cardinality({b \in PP : <<b, c>> \in L}) < k}) = k
      <3>1. IsFiniteSet(PP)
        BY <1>4
      <3>2. /\ \A a \in PP : <<a, a>> \notin L
            /\ \A a, b, c \in PP : <<a, b>> \in L /\ <<b, c>> \in L => <<a, c>> \in L
            /\ \A a, b \in PP : a # b => <<a, b>> \in L \/ <<b, a>> \in L
        BY <1>2
      <3>3. QED
        <4>1. \A S_, L_ : \A k_ \in Nat :
                  IsFiniteSet(S_) /\ k_ <= Cardinality(S_)
                  /\ (\A a \in S_ : <<a, a>> \notin L_)
                  /\ (\A a, b, c \in S_ : <<a, b>> \in L_ /\ <<b, c>> \in L_ => <<a, c>> \in L_)
                  /\ (\A a, b \in S_ : a # b => <<a, b>> \in L_ \/ <<b, a>> \in L_)
                  => Cardinality({c \in S_ : Cardinality({b \in S_ : <<b, c>> \in L_}) < k_}) = k_
          BY FirstOnes, ZenonT(40)
        <4>2. k \in Nat
          BY <1>3
        <4>3. QED
          BY <1>5, <3>1, <3>2, <4>1, <4>2
    <2>2. QED
      BY <1>3, <2>1 DEF Premiadas, PP, L
  <1>7. ASSUME NEW c \in PP PROVE K!SobraDe(total, w, c) = IF c \in Premiadas(total, w) THEN 1 ELSE 0
    <2>1. {b \in Partes : w[b] > 0 /\ K!Antes(total, w, b, c)} = Atras(c)
      BY <1>4 DEF Positivas, Fila
    <2>2. K!SobraDe(total, w, c) = IF Cardinality(Atras(c)) < k THEN 1 ELSE 0
      BY <1>3, <2>1 DEF K!SobraDe, K!Cardinality, Cardinality
    <2>3. c \in Premiadas(total, w) <=> Cardinality(Atras(c)) < k
      BY <1>3 DEF Premiadas
    <2>4. QED
      BY <2>2, <2>3, Zenon
  <1>8. \A c \in PP : IsFiniteSet(Atras(c)) /\ Cardinality(Atras(c)) \in Nat
    <2>1. \A c \in PP : Atras(c) \in SUBSET PP
      OBVIOUS
    <2> HIDE DEF Atras, PP
    <2>2. QED
      BY <1>4, <2>1, FS_Subset, FS_CardinalityType
  <1>9. ASSUME NEW c \in Premiadas(total, w) PROVE c \in PP /\ Cardinality(Atras(c)) < k
    BY <1>3 DEF Premiadas
  <1>10. ASSUME NEW c \in Premiadas(total, w), c \notin Q_ PROVE FALSE
    <2>1. Q_ \subseteq Atras(c)
      <3>1. ASSUME NEW a \in Q_ PROVE <<a, c>> \in L
        <4>1. a \in Partes /\ c \in Partes /\ a \in PP /\ c \in PP
          BY <1>4, <1>9, <1>10
        <4>2. K!Fracao(total, w, a) \in 0..(n - 1) /\ K!Fracao(total, w, c) \in 0..(n - 1)
          BY <1>1, <4>1, FloorOfPart
        <4>3. K!Fracao(total, w, a) > 0 /\ ~(K!Fracao(total, w, c) > 0)
          BY <1>10, <4>1 DEF Quebradas
        <4>4. K!Fracao(total, w, a) > K!Fracao(total, w, c)
          BY <4>2, <4>3
        <4>5. QED
          BY <4>1, <4>4 DEF Fila, K!Antes
      <3>2. QED
        BY <1>4, <3>1
    <2>2. c \in PP /\ Cardinality(Atras(c)) < k
      BY <1>9, <1>10
    <2> HIDE DEF Atras, PP, Q_
    <2>3. Cardinality(Q_) <= Cardinality(Atras(c))
      BY <1>8, <2>1, <2>2, FS_Subset
    <2>4. Cardinality(Q_) \in Nat /\ Cardinality(Atras(c)) \in Nat
      BY <1>4, <1>8, <2>2, FS_CardinalityType
    <2>5. QED
      BY <1>3, <2>2, <2>3, <2>4
  <1>11. ASSUME NEW a \in PP, NEW c \in Premiadas(total, w), <<a, c>> \in L PROVE a \in Premiadas(total, w)
    <2>1. c \in PP /\ Cardinality(Atras(c)) < k
      BY <1>9
    <2>2. Atras(a) \in SUBSET Atras(c)
      BY <1>2, <1>11, <2>1
    <2>3. Cardinality(Atras(a)) < k
      <3> HIDE DEF Atras, PP
      <3>1. Cardinality(Atras(a)) <= Cardinality(Atras(c))
        BY <1>8, <2>1, <2>2, FS_Subset
      <3>2. Cardinality(Atras(a)) \in Nat /\ Cardinality(Atras(c)) \in Nat
        BY <1>8, <2>1
      <3>3. QED
        BY <1>3, <2>1, <3>1, <3>2
    <2>4. QED
      BY <1>3, <2>3 DEF Premiadas
  <1>12. QED
    BY <1>3, <1>6, <1>7, <1>10, <1>11

\* A multiple of a number that is not above another one does not have the larger factor.
LEMMA FactorsOrdered ==
    ASSUME NEW n \in Nat \ {0}, NEW x \in Nat, NEW y \in Nat, NEW f \in 0..(n - 1), NEW h \in 0..(n - 1),
           n * x + f <= n * y + h
    PROVE  x <= y
  <1>1. CASE x > y
    <2>1. PICK d \in Nat : x = y + 1 + d
      BY <1>1, x - y - 1 \in Nat
    <2>2. n * x = n * y + n + n * d
      BY <2>1
    <2>3. n * d >= 0 /\ n * d \in Int /\ n * y \in Int
      BY <2>1
    <2>4. QED
      BY <2>2, <2>3
  <1>2. QED
    BY <1>1

\* A part is its floor and a cent if it is given one; without shares or without a prize it is nothing.
LEMMA PartIs ==
    ASSUME IsFiniteSet(Partes), Partes \subseteq Int, NEW total \in Nat, NEW w \in [Partes -> Nat], K!Unidades(w) > 0,
           NEW c \in Partes
    PROVE  K!splitPrize(total, w)[c] = K!Base(total, w, c) + IF c \in Premiadas(total, w) THEN 1 ELSE 0
  <1>1. PICK n \in Nat \ {0} : n = K!Unidades(w)
    <2>1. K!Unidades(w) = Total(w, Partes) /\ Total(w, Partes) \in Nat
      BY UnitsAre, TotalOf
    <2>2. QED
      BY <2>1
  <1>2. /\ K!Base(total, w, c) \in Nat
        /\ w[c] = 0 \/ total = 0 => K!Base(total, w, c) = 0 /\ K!Fracao(total, w, c) = 0
    BY <1>1, FloorOfPart
  <1>3. CASE w[c] = 0 \/ total = 0
    <2>1. K!splitPrize(total, w)[c] = 0
      BY <1>3 DEF K!splitPrize
    <2>2. c \notin Quebradas(total, w)
      BY <1>2, <1>3 DEF Quebradas
    <2>3. c \notin Premiadas(total, w)
      BY <2>2, CentsGiven
    <2>4. QED
      BY <1>2, <1>3, <2>1, <2>3
  <1>4. CASE ~(w[c] = 0 \/ total = 0)
    <2>1. c \in Positivas(w)
      BY <1>4 DEF Positivas
    <2>2. K!SobraDe(total, w, c) = IF c \in Premiadas(total, w) THEN 1 ELSE 0
      BY <2>1, CentsGiven
    <2>3. K!splitPrize(total, w)[c] = K!Base(total, w, c) + K!SobraDe(total, w, c)
      BY <1>1, <1>4 DEF K!splitPrize
    <2>4. QED
      BY <2>2, <2>3
  <1>5. QED
    BY <1>3, <1>4

\* The parts add up to the prize.
LEMMA PartsAddUp ==
    ASSUME IsFiniteSet(Partes), Partes \subseteq Int, NEW total \in Nat, NEW w \in [Partes -> Nat], K!Unidades(w) > 0,
           NEW p, p = K!splitPrize(total, w)
    PROVE  p \in [Partes -> Nat] /\ K!Unidades(p) = total
  <1> DEFINE b == [c \in Partes |-> K!Base(total, w, c)]
             g == [c \in Partes |-> IF c \in Premiadas(total, w) THEN 1 ELSE 0]
  <1>1. PICK n \in Nat \ {0} : n = K!Unidades(w)
    <2>1. K!Unidades(w) = Total(w, Partes) /\ Total(w, Partes) \in Nat
      BY UnitsAre, TotalOf
    <2>2. QED
      BY <2>1
  <1>2. b \in [Partes -> Nat]
    <2>1. \A c \in Partes : K!Base(total, w, c) \in Nat
      BY <1>1, FloorOfPart
    <2>2. QED
      BY <2>1
  <1>3. g \in [Partes -> Nat] /\ \A c \in Partes : g[c] = IF c \in Premiadas(total, w) THEN 1 ELSE 0
    OBVIOUS
  <1>4. \A c \in Partes : p[c] = b[c] + g[c]
    BY PartIs
  <1>5. DOMAIN p = Partes /\ p = [c \in Partes |-> p[c]]
    BY DEF K!splitPrize
  <1>6. K!Sobra(total, w) = total - Total(b, Partes)
    BY <1>2, LeftIs
  <1> HIDE DEF b, g
  <1>7. p \in [Partes -> Nat]
    <2>1. \A c \in Partes : p[c] \in Nat
      BY <1>2, <1>3, <1>4
    <2>2. QED
      BY <1>5, <2>1
  <1>8. Total(p, Partes) = Total(b, Partes) + Total(g, Partes)
    <2>1. \A x, y, z \in [Partes -> Nat] : (\A c \in Partes : x[c] = y[c] + z[c])
                                            => Total(x, Partes) = Total(y, Partes) + Total(z, Partes)
      BY TotalsAdd
    <2>2. QED
      BY <1>2, <1>3, <1>4, <1>7, <2>1
  <1>9. Premiadas(total, w) \in SUBSET Partes
    BY DEF Premiadas, Positivas
  <1>10. Total(g, Partes) = K!Sobra(total, w)
    <2>1. Total(g, Partes) = Cardinality(Premiadas(total, w))
      BY <1>3, <1>9, TotalOfChosen
    <2>2. QED
      BY <2>1, CentsGiven
  <1>11. Total(b, Partes) \in Nat
    BY <1>2, TotalOf
  <1>12. K!Unidades(p) = Total(p, Partes)
    BY <1>7, UnitsAre
  <1>13. QED
    BY <1>6, <1>7, <1>8, <1>10, <1>11, <1>12

\* Each part is the exact fraction, give or take a cent.
LEMMA PartsAreFair ==
    ASSUME IsFiniteSet(Partes), Partes \subseteq Int, NEW total \in Nat, NEW w \in [Partes -> Nat],
           NEW n \in Nat \ {0}, n = K!Unidades(w), NEW c \in Partes, NEW p, p = K!splitPrize(total, w)
    PROVE  p[c] * n < total * w[c] + n /\ p[c] * n > total * w[c] - n
  <1>1. PICK d \in Nat, f \in 0..(n - 1) : d = K!Base(total, w, c) /\ f = K!Fracao(total, w, c) /\ total * w[c] = n * d + f
    BY FloorOfPart
  <1>2. p[c] = d + IF c \in Premiadas(total, w) THEN 1 ELSE 0
    BY <1>1, PartIs
  <1>3. c \in Premiadas(total, w) => f > 0
    <2>1. c \in Premiadas(total, w) => c \in Quebradas(total, w)
      BY CentsGiven
    <2>2. QED
      BY <1>1, <2>1 DEF Quebradas
  <1>4. (d + 1) * n = n * d + n /\ (d + 0) * n = n * d /\ n * d \in Int
    BY <1>1
  <1>5. CASE c \in Premiadas(total, w)
    <2>1. p[c] * n = n * d + n
      BY <1>2, <1>4, <1>5
    <2>2. QED
      BY <1>1, <1>3, <1>4, <1>5, <2>1
  <1>6. CASE c \notin Premiadas(total, w)
    <2>1. p[c] * n = n * d
      BY <1>2, <1>4, <1>6
    <2>2. QED
      BY <1>1, <1>4, <2>1
  <1>7. QED
    BY <1>5, <1>6

\* A smaller share never gets more.
LEMMA PartsAreOrdered ==
    ASSUME IsFiniteSet(Partes), Partes \subseteq Int, NEW total \in Nat, NEW w \in [Partes -> Nat],
           NEW n \in Nat \ {0}, n = K!Unidades(w), NEW a \in Partes, NEW c \in Partes, w[a] < w[c],
           NEW p, p = K!splitPrize(total, w)
    PROVE  p[a] <= p[c]
  <1>1. PICK x \in Nat, f \in 0..(n - 1) : x = K!Base(total, w, a) /\ f = K!Fracao(total, w, a) /\ total * w[a] = n * x + f
    <2>1. /\ K!Base(total, w, a) \in Nat /\ K!Fracao(total, w, a) \in 0..(n - 1)
          /\ total * w[a] = n * K!Base(total, w, a) + K!Fracao(total, w, a)
      BY FloorOfPart
    <2>2. QED
      BY <2>1, Zenon
  <1>2. PICK y \in Nat, h \in 0..(n - 1) : y = K!Base(total, w, c) /\ h = K!Fracao(total, w, c) /\ total * w[c] = n * y + h
    BY FloorOfPart
  <1>3. /\ p[a] = x + IF a \in Premiadas(total, w) THEN 1 ELSE 0
        /\ p[c] = y + IF c \in Premiadas(total, w) THEN 1 ELSE 0
    BY <1>1, <1>2, PartIs
  <1>4. PICK e \in Nat \ {0} : w[c] = w[a] + e
    BY w[a] \in Nat, w[c] \in Nat, w[c] - w[a] \in Nat \ {0}
  <1>5. total * w[c] = total * w[a] + total * e /\ total * e >= 0 /\ (total > 0 => total * e > 0) /\ total * e \in Int
    BY <1>4, w[a] \in Nat
  <1>6. x <= y
    <2>1. n * x + f <= n * y + h
      BY <1>1, <1>2, <1>5
    <2>2. QED
      BY <1>1, <1>2, <2>1, FactorsOrdered
  <1>7. ASSUME x = y, a \in Premiadas(total, w) PROVE c \in Premiadas(total, w)
    <2>1. a \in Quebradas(total, w) /\ a \in Positivas(w)
      <3>1. Premiadas(total, w) \subseteq Quebradas(total, w)
        BY CentsGiven
      <3>2. Premiadas(total, w) \subseteq Positivas(w)
        BY DEF Premiadas
      <3>3. QED
        BY <1>7, <3>1, <3>2
    <2>2. f > 0
      BY <1>1, <2>1 DEF Quebradas
    <2>3. total > 0
      <3>1. total = 0 => K!Fracao(total, w, a) = 0
        BY FloorOfPart
      <3>2. QED
        BY <1>1, <2>2, <3>1
    <2>4. f < h
      BY <1>1, <1>2, <1>5, <1>7, <2>3
    <2>5. c \in Positivas(w)
      BY w[a] \in Nat, w[c] \in Nat DEF Positivas
    <2>6. <<c, a>> \in Fila(total, w)
      BY <1>1, <1>2, <2>1, <2>4, <2>5 DEF Fila, K!Antes
    <2>7. QED
      BY <1>7, <2>5, <2>6, CentsGiven
  <1>8. QED
    BY <1>1, <1>2, <1>3, <1>6, <1>7

\* The property, of a calculation.
Dividido(x) ==
    x.op = "divide" =>
        /\ K!Unidades(x.cotas) > 0 => K!Unidades(x.partes) = x.total
        /\ \A c \in Partes : K!Unidades(x.cotas) > 0 =>
               /\ x.partes[c] * K!Unidades(x.cotas) < x.total * x.cotas[c] + K!Unidades(x.cotas)
               /\ x.partes[c] * K!Unidades(x.cotas) > x.total * x.cotas[c] - K!Unidades(x.cotas)
        /\ \A a, c \in Partes : x.cotas[a] < x.cotas[c] => x.partes[a] <= x.partes[c]

LEMMA DividedIs == Dividido(calculo) <=> K!PartesSomam
  BY DEF Dividido, K!PartesSomam, K!Unidades

\* The division of a prize.
LEMMA DivisionsClose ==
    ASSUME K!Divide
    PROVE  K!PartesSomam'
  <1>1. PICK total \in 0..MaxTotal, w \in [Partes -> 0..MaxQuantidade] :
            calculo' = [op |-> "divide", total |-> total, cotas |-> w, partes |-> K!splitPrize(total, w)]
    BY DEF K!Divide
  <1>2. IsFiniteSet(Partes) /\ Partes \subseteq Int /\ total \in Nat /\ w \in [Partes -> Nat]
    BY <1>1, PartesAssumption
  <1>3. K!Unidades(w) = Total(w, Partes) /\ Total(w, Partes) \in Nat
    BY <1>2, UnitsAre, TotalOf
  <1>4. /\ calculo'.op = "divide" /\ calculo'.total = total /\ calculo'.cotas = w
        /\ calculo'.partes = K!splitPrize(total, w)
    BY <1>1
  <1>5. PICK p : p = K!splitPrize(total, w)
    OBVIOUS
  <1>6. K!Unidades(w) > 0 => K!Unidades(p) = total
    BY <1>2, <1>5, PartsAddUp
  <1>7. K!Unidades(w) > 0 => \A c \in Partes : p[c] * K!Unidades(w) < total * w[c] + K!Unidades(w)
                                            /\ p[c] * K!Unidades(w) > total * w[c] - K!Unidades(w)
    BY <1>2, <1>3, <1>5, PartsAreFair
  <1>8. \A a, c \in Partes : w[a] < w[c] => p[a] <= p[c]
    <2>1. CASE K!Unidades(w) > 0
      BY <1>2, <1>3, <1>5, <2>1, PartsAreOrdered
    <2>2. CASE ~(K!Unidades(w) > 0)
      <3>1. K!Unidades(w) = 0
        BY <1>3, <2>2
      <3>2. \A c \in Partes : p[c] = 0
        BY <1>5, <3>1 DEF K!splitPrize
      <3>3. QED
        BY <3>2
    <2>3. QED
      BY <2>1, <2>2
  <1>9. Dividido([op |-> "divide", total |-> total, cotas |-> w, partes |-> p])
    BY <1>6, <1>7, <1>8 DEF Dividido
  <1>10. Dividido(calculo)'
    BY <1>1, <1>5, <1>9
  <1>11. QED
    BY <1>10, DividedIs, PTL

\* A prize is divided to the last cent, whatever the shares and the amount: the parts add up to it, each is its
\* exact fraction give or take a cent, and a smaller share never gets more than a larger one.
THEOREM PrizesAreDivided == Spec => []K!PartesSomam
  <1>1. Init => K!PartesSomam
    BY DEF Init, K!Init, K!Nenhum, K!PartesSomam
  <1>2. ASSUME K!Next PROVE K!PartesSomam'
    <2>1. CASE K!Divide
      BY <2>1, DivisionsClose
    <2>2. CASE K!Premia \/ K!Precifica \/ K!Planeja \/ K!Tabula \/ K!Confere
      <3>1. calculo'.op \in {"premia", "preco", "plano", "numeros", "colunas", "confere"}
        BY <2>2 DEF K!Premia, K!Precifica, K!PorPercentual, K!PorCota, K!PorTaxa, K!Preco, K!Planeja, K!Tabula, K!Confere
      <3>2. QED
        BY <3>1 DEF K!PartesSomam
    <2>3. QED
      BY <1>2, <2>1, <2>2 DEF K!Next
  <1>3. Dividido(calculo) /\ UNCHANGED calculo => Dividido(calculo)'
    BY Zenon
  <1>4. K!PartesSomam /\ UNCHANGED calculo => K!PartesSomam'
    BY <1>3, DividedIs, PTL
  <1>5. QED
    BY <1>1, <1>2, <1>4, CalculosMoves, PTL DEF Spec

-----------------------------------------------------------------------------
(* The price of a multiple bet (officialPriceRows) *)

LEMMA ChooseIs ==
    ASSUME NEW S, IsFiniteSet(S), NEW n \in Nat, n = Cardinality(S), NEW k \in Nat
    PROVE  K!choose(n, k) = Quantas(k, S)
  <1>1. K!choose(n, k) = (CHOOSE it : Produto(it, n, k))[1..k]
    <2>1. DOMAIN [i \in 1..k |-> i] = 1..k
      OBVIOUS
    <2>2. \A s \in SUBSET (1..k) : s # {} => [i \in 1..k |-> i][Maior(s)] = Maior(s)
      BY LargestIs
    <2>3. ASSUME NEW it
          PROVE  it = [s \in SUBSET (DOMAIN [i \in 1..k |-> i]) |->
                         IF s = {} THEN 1
                         ELSE (it[s \ {K!Max(s)}] * (n - [i \in 1..k |-> i][K!Max(s)] + 1)) \div [i \in 1..k |-> i][K!Max(s)]]
                 <=> Produto(it, n, k)
      <3>1. \A s : K!Max(s) = Maior(s)
        BY DEF K!Max, Maior
      <3>2. QED
        BY <2>1, <2>2, <3>1, ZenonT(40) DEF Produto
    <2>4. QED
      BY <2>1, <2>3 DEF K!choose, K!FoldLeft, K!MapThenFoldSet
  <1>2. Produto(CHOOSE it : Produto(it, n, k), n, k)
    BY ProductExists
  <1>3. QED
    BY <1>1, <1>2, ProductIs

\* The columns of a Super Sete bet: at most one double more each until 14 numbers, then doubles become triples.
LEMMA ColumnsCounted ==
    ASSUME NEW d \in 0..7, NEW t \in 0..7, d + t <= 7, K!Distribuida(d, t)
    PROVE  K!SuperSete(7 + d + 2 * t) = 2^d * 3^t
  <1> DEFINE n == 7 + d + 2 * t
  <1>1. CASE n <= 14
    <2>1. t = 0 /\ n - 7 = d
      BY <1>1 DEF K!Distribuida
    <2>2. K!SuperSete(n) = 2^(n - 7)
      BY <1>1 DEF K!SuperSete
    <2>3. 3^0 = 1 /\ 2^d \in Int
      BY SMT
    <2>4. QED
      BY <2>1, <2>2, <2>3
  <1>2. CASE ~(n <= 14)
    <2>1. d + t = 7
      BY <1>2 DEF K!Distribuida
    <2>2. n - 14 = t /\ 21 - n = d
      BY <2>1
    <2>3. K!SuperSete(n) = 3^(n - 14) * 2^(21 - n)
      BY <1>2 DEF K!SuperSete
    <2>4. 3^t \in Int /\ 2^d \in Int
      BY SMT
    <2>5. 3^t * 2^d = 2^d * 3^t
      BY <2>4
    <2>6. QED
      BY <2>2, <2>3, <2>5
  <1>3. QED
    BY <1>1, <1>2

LEMMA TableCounted == ASSUME K!Tabula PROVE K!TabelaConta'
  <1>1. CASE \E n \in 6..9 : calculo' = [op |-> "numeros", n |-> n, apostas |-> K!choose(n, 6)]
    <2>1. PICK n \in 6..9 : calculo' = [op |-> "numeros", n |-> n, apostas |-> K!choose(n, 6)]
      BY <1>1
    <2>2. n \in Nat /\ IsFiniteSet(1..n) /\ Cardinality(1..n) = n
      BY FS_Interval
    <2>3. K!choose(n, 6) = Quantas(6, 1..n)
      BY <2>2, ChooseIs
    <2>4. K!Cardinality(K!kSubset(6, 1..n)) = Quantas(6, 1..n)
      BY DEF K!kSubset, Quantas, Escolhas, K!Cardinality, Cardinality
    <2>5. calculo'.op = "numeros" /\ calculo'.n = n /\ calculo'.apostas = K!choose(n, 6)
      BY <2>1
    <2>6. QED
      BY <2>3, <2>4, <2>5 DEF K!TabelaConta
  <1>2. CASE \E d, t \in 0..7 :
               /\ d + t <= 7 /\ K!Distribuida(d, t)
               /\ calculo' = [op |-> "colunas", duplas |-> d, triplas |-> t, apostas |-> K!SuperSete(7 + d + 2 * t)]
    <2>1. PICK d \in 0..7, t \in 0..7 :
               /\ d + t <= 7 /\ K!Distribuida(d, t)
               /\ calculo' = [op |-> "colunas", duplas |-> d, triplas |-> t, apostas |-> K!SuperSete(7 + d + 2 * t)]
      BY <1>2
    <2>2. calculo'.op = "colunas" /\ calculo'.duplas = d /\ calculo'.triplas = t
          /\ calculo'.apostas = K!SuperSete(7 + d + 2 * t)
      BY <2>1
    <2>3. K!SuperSete(7 + d + 2 * t) = 2^d * 3^t
      BY <2>1, ColumnsCounted
    <2>4. QED
      BY <2>2, <2>3 DEF K!TabelaConta
  <1>3. QED
    BY <1>1, <1>2 DEF K!Tabula

-----------------------------------------------------------------------------
(* Repeated games of a ticket (assertTicketMatchesPool) *)

LEMMA OccurrenceIs ==
    ASSUME NEW S, NEW s \in Seq(S), NEW j
    PROVE  /\ K!Ocorrencia(s, j) = 0 => \A i \in 1..Len(s) : s[i] # j
           /\ K!Ocorrencia(s, j) # 0 => K!Ocorrencia(s, j) \in 1..Len(s) /\ s[K!Ocorrencia(s, j)] = j
  <1> DEFINE z == Aparece(s, Len(s), j)
  <1>1. K!Ocorrencia(s, j) = IF z # {} THEN (CHOOSE x \in z : \A y \in z : x <= y) ELSE 0
    BY DEF Aparece, K!Ocorrencia, K!SelectInSeq, K!Min
  <1>2. Len(s) \in Nat /\ z \in SUBSET (1..Len(s))
    BY DEF Aparece
  <1> HIDE DEF z
  <1>3. CASE z = {}
    <2>1. \A i \in 1..Len(s) : s[i] # j
      BY <1>3 DEF z, Aparece
    <2>2. QED
      BY <1>1, <1>3, <2>1
  <1>4. CASE z # {}
    <2>1. \E x \in z : \A y \in z : x <= y
      BY <1>2, <1>4, SmallestIs
    <2>2. (CHOOSE x \in z : \A y \in z : x <= y) \in z
      BY <2>1
    <2>3. K!Ocorrencia(s, j) \in z
      BY <1>1, <1>4, <2>2
    <2>4. K!Ocorrencia(s, j) \in 1..Len(s) /\ s[K!Ocorrencia(s, j)] = j
      BY <2>3 DEF z, Aparece
    <2>5. QED
      BY <1>2, <2>4
  <1>5. QED
    BY <1>3, <1>4

LEMMA RemovedIs ==
    ASSUME NEW S, NEW s \in Seq(S), NEW o \in 1..Len(s)
    PROVE  /\ K!RemoveAt(s, o) \in Seq(S) /\ Len(K!RemoveAt(s, o)) = Len(s) - 1
           /\ \A i \in 1..(Len(s) - 1) : K!RemoveAt(s, o)[i] = IF i < o THEN s[i] ELSE s[i + 1]
  <1>1. K!RemoveAt(s, o) = SubSeq(s, 1, o - 1) \o SubSeq(s, o + 1, Len(s))
    BY DEF K!RemoveAt
  <1>2. Len(s) \in Nat /\ o \in Nat /\ 1 <= o /\ o <= Len(s)
    OBVIOUS
  <1>3. SubSeq(s, 1, o - 1) \in Seq(S) /\ Len(SubSeq(s, 1, o - 1)) = o - 1
        /\ \A i \in 1..(o - 1) : SubSeq(s, 1, o - 1)[i] = s[i]
    BY <1>2
  <1>4. SubSeq(s, o + 1, Len(s)) \in Seq(S) /\ Len(SubSeq(s, o + 1, Len(s))) = Len(s) - o
        /\ \A i \in 1..(Len(s) - o) : SubSeq(s, o + 1, Len(s))[i] = s[o + i]
    BY <1>2
  <1>5. PICK a \in Seq(S), b \in Seq(S) :
           a = SubSeq(s, 1, o - 1) /\ b = SubSeq(s, o + 1, Len(s))
    BY <1>3, <1>4
  <1>6. a \o b \in Seq(S) /\ Len(a \o b) = Len(s) - 1
    <2>1. Len(a) = o - 1 /\ Len(b) = Len(s) - o
      BY <1>3, <1>4, <1>5
    <2>2. a \o b \in Seq(S) /\ Len(a \o b) = Len(a) + Len(b)
      OBVIOUS
    <2>3. QED
      BY <1>2, <2>1, <2>2
  <1>7. ASSUME NEW i \in 1..(Len(s) - 1) PROVE (a \o b)[i] = IF i < o THEN s[i] ELSE s[i + 1]
    <2>1. CASE i < o
      <3>1. i \in 1..(o - 1) /\ i \in 1..Len(a)
        BY <1>2, <1>3, <1>5, <2>1
      <3>2. (a \o b)[i] = a[i]
        BY <3>1
      <3>3. QED
        BY <1>3, <1>5, <2>1, <3>1, <3>2
    <2>2. CASE ~(i < o)
      <3>1. PICK k \in 1..(Len(s) - o) : k = i - (o - 1) /\ o + k = i + 1 /\ i = Len(a) + k
        BY <1>2, <1>3, <1>5, <2>2
      <3>2. k \in 1..Len(b)
        BY <1>4, <1>5, <3>1
      <3>3. (a \o b)[i] = b[k]
        BY <3>1, <3>2
      <3>4. b[k] = s[o + k]
        BY <1>4, <1>5
      <3>5. QED
        BY <2>2, <3>1, <3>3, <3>4
    <2>3. QED
      BY <2>1, <2>2
  <1>8. QED
    BY <1>1, <1>5, <1>6, <1>7

\* Of a value taken out there is one less.
LEMMA TimesRemoved ==
    ASSUME NEW S, NEW s \in Seq(S), NEW o \in 1..Len(s), NEW x
    PROVE  Repete(K!RemoveAt(s, o), Len(s) - 1, x) = Repete(s, Len(s), x) - (IF s[o] = x THEN 1 ELSE 0)
  <1> DEFINE r == K!RemoveAt(s, o)
             Y == Aparece(s, Len(s), x) \ {o}
             Z == Aparece(r, Len(s) - 1, x)
             f == [i \in Y |-> IF i < o THEN i ELSE i - 1]
  <1>1. Len(s) \in Nat /\ Len(s) - 1 \in Nat /\ o \in Nat /\ 1 <= o /\ o <= Len(s)
    OBVIOUS
  <1>2. \A i \in 1..(Len(s) - 1) : r[i] = IF i < o THEN s[i] ELSE s[i + 1]
    BY RemovedIs
  <1>3. IsFiniteSet(Aparece(s, Len(s), x)) /\ Repete(s, Len(s), x) \in Nat
    BY <1>1, TimesNat
  <1>4. IsFiniteSet(Y) /\ Cardinality(Y) = Repete(s, Len(s), x) - (IF s[o] = x THEN 1 ELSE 0)
    <2>1. o \in Aparece(s, Len(s), x) <=> s[o] = x
      BY DEF Aparece
    <2>2. CASE s[o] = x
      BY <1>3, <2>1, <2>2, FS_RemoveElement DEF Repete
    <2>3. CASE s[o] # x
      <3>1. Y = Aparece(s, Len(s), x)
        BY <2>1, <2>3
      <3>2. QED
        <4>1. Cardinality(Y) = Repete(s, Len(s), x)
          BY <3>1 DEF Repete
        <4> HIDE DEF Y
        <4>2. QED
          BY <1>3, <2>3, <3>1, <4>1
    <2>4. QED
      BY <2>2, <2>3
  <1>5. ASSUME NEW i \in Y PROVE i \in 1..Len(s) /\ i # o /\ s[i] = x
    BY DEF Aparece
  <1>6. ASSUME NEW i \in 1..(Len(s) - 1) PROVE i \in Z <=> r[i] = x
    BY DEF Aparece
  <1>7. Z \in SUBSET (1..(Len(s) - 1))
    BY DEF Aparece
  <1>8. ASSUME NEW i \in 1..Len(s), i # o, s[i] = x PROVE i \in Y
    BY <1>8 DEF Aparece
  <1>f. \A i \in Y : f[i] = IF i < o THEN i ELSE i - 1
    OBVIOUS
  <1>g. DOMAIN f = Y /\ f = [i \in DOMAIN f |-> f[i]]
    OBVIOUS
  <1> HIDE DEF r, Y, Z, f
  <1>9. ASSUME NEW i \in Y PROVE f[i] \in Z
    <2>1. i \in 1..Len(s) /\ i # o /\ s[i] = x
      BY <1>5
    <2>2. CASE i < o
      <3>1. f[i] = i /\ i \in 1..(Len(s) - 1)
        BY <1>1, <1>f, <2>1, <2>2
      <3>2. r[i] = x
        BY <1>2, <2>1, <2>2, <3>1
      <3>3. QED
        BY <1>6, <3>1, <3>2
    <2>3. CASE ~(i < o)
      <3>1. PICK k \in 1..(Len(s) - 1) : k = i - 1 /\ k + 1 = i /\ ~(k < o)
        BY <1>1, <2>1, <2>3
      <3>2. f[i] = k
        BY <1>f, <2>3, <3>1
      <3>3. r[k] = x
        BY <1>2, <2>1, <3>1
      <3>4. QED
        BY <1>6, <3>2, <3>3
    <2>4. QED
      BY <2>2, <2>3
  <1>10. ASSUME NEW i \in Y, NEW k \in Y, f[i] = f[k] PROVE i = k
    <2>1. i \in 1..Len(s) /\ i # o /\ k \in 1..Len(s) /\ k # o
      BY <1>5
    <2>2. f[i] = IF i < o THEN i ELSE i - 1
      BY <1>f
    <2>3. f[k] = IF k < o THEN k ELSE k - 1
      BY <1>f
    <2>4. QED
      <3>1. i \in Int /\ k \in Int /\ i # o /\ k # o /\ o \in Int
        BY <1>1, <2>1
      <3>2. (IF i < o THEN i ELSE i - 1) = (IF k < o THEN k ELSE k - 1)
        BY <1>10, <2>2, <2>3
      <3>3. QED
        BY <3>1, <3>2
  <1>11. ASSUME NEW z \in Z PROVE \E i \in Y : f[i] = z
    <2>1. z \in 1..(Len(s) - 1) /\ r[z] = x
      BY <1>6, <1>7
    <2>2. CASE z < o
      <3>1. z \in Y
        <4>1. z \in 1..Len(s) /\ z # o
          BY <1>1, <2>1, <2>2
        <4>2. s[z] = x
          BY <1>2, <2>1, <2>2
        <4>3. QED
          BY <1>8, <4>1, <4>2
      <3>2. QED
        BY <1>f, <2>2, <3>1
    <2>3. CASE ~(z < o)
      <3>1. PICK k \in 1..Len(s) : k = z + 1 /\ k # o /\ ~(k < o) /\ k - 1 = z
        BY <1>1, <2>1, <2>3
      <3>2. s[k] = x
        BY <1>2, <2>1, <2>3, <3>1
      <3>3. k \in Y
        BY <1>8, <3>1, <3>2
      <3>4. QED
        BY <1>f, <3>1, <3>3
    <2>4. QED
      BY <2>2, <2>3
  <1>12. f \in Bijection(Y, Z)
    <2>1. f \in [Y -> Z]
      BY <1>9, <1>g
    <2>2. QED
      BY <1>10, <1>11, <2>1 DEF Bijection, Injection, Surjection, IsInjective
  <1>13. Cardinality(Z) = Cardinality(Y)
    BY <1>4, <1>12, PairsCounted
  <1>14. QED
    BY <1>4, <1>13 DEF Repete, Z, r

-----------------------------------------------------------------------------
(* The ticket: each game of it takes one of the pool *)

Confrontos == [pendentes : Seq(Jogos), fora : BOOLEAN]
Passa(f, j) == IF K!Ocorrencia(f.pendentes, j) = 0 THEN [f EXCEPT !.fora = TRUE]
               ELSE [f EXCEPT !.pendentes = K!Retira(@, j)]
Confronta(it, jogos, informados, m) ==
    it = [s \in SUBSET (1..m) |-> IF s = {} THEN [pendentes |-> jogos, fora |-> FALSE]
                                 ELSE Passa(it[s \ {Maior(s)}], informados[Maior(s)])]

\* A game not there marks the ticket; one that is there goes.
LEMMA GamePasses ==
    ASSUME NEW f \in Confrontos, NEW j
    PROVE  /\ Passa(f, j) \in Confrontos
           /\ \/ /\ Passa(f, j).fora /\ Passa(f, j).pendentes = f.pendentes
                 /\ \A i \in 1..Len(f.pendentes) : f.pendentes[i] # j
              \/ /\ Passa(f, j).fora = f.fora
                 /\ \A x : Repete(Passa(f, j).pendentes, Len(Passa(f, j).pendentes), x)
                             = Repete(f.pendentes, Len(f.pendentes), x) - (IF x = j THEN 1 ELSE 0)
  <1> DEFINE o == K!Ocorrencia(f.pendentes, j)
             s == f.pendentes
  <1>1. s \in Seq(Jogos) /\ f.fora \in BOOLEAN
    BY DEF Confrontos
  <1>2. CASE o = 0
    <2>1. Passa(f, j) = [f EXCEPT !.fora = TRUE]
      BY <1>2 DEF Passa
    <2>2. Passa(f, j) \in Confrontos /\ Passa(f, j).fora /\ Passa(f, j).pendentes = s
      BY <2>1 DEF Confrontos
    <2>3. \A i \in 1..Len(s) : s[i] # j
      BY <1>1, <1>2, OccurrenceIs
    <2>4. QED
      BY <2>2, <2>3
  <1>3. CASE o # 0
    <2>1. Passa(f, j) = [f EXCEPT !.pendentes = K!RemoveAt(@, o)]
      BY <1>3 DEF Passa, K!Retira
    <2>2. o \in 1..Len(s) /\ s[o] = j
      BY <1>1, <1>3, OccurrenceIs
    <2> HIDE DEF o, s
    <2>3. K!RemoveAt(s, o) \in Seq(Jogos) /\ Len(K!RemoveAt(s, o)) = Len(s) - 1
      BY <1>1, <2>2, RemovedIs
    <2>4. Passa(f, j) \in Confrontos /\ Passa(f, j).fora = f.fora /\ Passa(f, j).pendentes = K!RemoveAt(s, o)
      BY <2>1, <2>3 DEF Confrontos, s
    <2>5. ASSUME NEW x
          PROVE Repete(K!RemoveAt(s, o), Len(s) - 1, x) = Repete(s, Len(s), x) - (IF x = j THEN 1 ELSE 0)
      BY <1>1, <2>2, TimesRemoved
    <2>6. QED
      BY <2>3, <2>4, <2>5 DEF s
  <1>4. QED
    BY <1>2, <1>3

LEMMA TicketExists ==
    ASSUME NEW jogos \in Seq(Jogos), NEW informados, NEW m \in Nat
    PROVE  \E it : Confronta(it, jogos, informados, m)
  <1> DEFINE H == [p \in (1..m) \X Confrontos |-> Passa(p[2], informados[p[1]])]
             inicio == [pendentes |-> jogos, fora |-> FALSE]
  <1>1. ASSUME NEW x \in 1..m, NEW v \in Confrontos PROVE H[<<x, v>>] = Passa(v, informados[x]) /\ H[<<x, v>>] \in Confrontos
    <2>1. <<x, v>> \in (1..m) \X Confrontos
      OBVIOUS
    <2>2. H[<<x, v>>] = Passa(v, informados[x])
      BY <2>1
    <2> HIDE DEF H
    <2>3. QED
      BY <2>2, GamePasses
  <1>2. inicio \in Confrontos
    BY DEF Confrontos
  <1> HIDE DEF H, inicio
  <1>3. Leva(m, Confrontos, H)
    BY <1>1, Zenon DEF Leva
  <1>4. PICK it \in [SUBSET (1..m) -> Confrontos] : Dobra(it, m, inicio, H)
    BY <1>2, <1>3, FoldExists
  <1>5. \A s \in SUBSET (1..m) : it[s] = IF s = {} THEN inicio ELSE H[<<Maior(s), it[s \ {Maior(s)}]>>]
    BY <1>4, Zenon DEF Dobra
  <1>6. ASSUME NEW s \in SUBSET (1..m)
        PROVE  it[s] = IF s = {} THEN inicio ELSE Passa(it[s \ {Maior(s)}], informados[Maior(s)])
    <2>1. CASE s = {}
      BY <1>5, <2>1
    <2>2. CASE s # {}
      <3>1. Maior(s) \in 1..m /\ s \ {Maior(s)} \in SUBSET (1..m)
        BY <2>2, LargestIs
      <3>2. it[s \ {Maior(s)}] \in Confrontos
        BY <3>1
      <3>3. H[<<Maior(s), it[s \ {Maior(s)}]>>] = Passa(it[s \ {Maior(s)}], informados[Maior(s)])
        BY <1>1, <3>1, <3>2
      <3>4. QED
        BY <1>5, <2>2, <3>3
    <2>3. QED
      BY <2>1, <2>2
  <1>7. it = [s \in SUBSET (1..m) |-> it[s]]
    OBVIOUS
  <1>8. QED
    BY <1>6, <1>7, Zenon DEF Confronta, inicio

\* After n games: the rest of the pool, or a game that the ticket has too many times.
Conferidos(f, jogos, informados, n) ==
    /\ f \in Confrontos
    /\ ~f.fora => \A x : Repete(jogos, Len(jogos), x)
                           = Repete(f.pendentes, Len(f.pendentes), x) + Repete(informados, n, x)
    /\ f.fora => \E j \in Jogos : Repete(informados, n, j) > Repete(jogos, Len(jogos), j)

LEMMA GameKeeps ==
    ASSUME NEW jogos \in Seq(Jogos), NEW m \in Nat, NEW informados \in [1..m -> Jogos], NEW n \in Nat, n + 1 <= m,
           NEW f, Conferidos(f, jogos, informados, n)
    PROVE  Conferidos(Passa(f, informados[n + 1]), jogos, informados, n + 1)
  <1> DEFINE j == informados[n + 1]
             g == Passa(f, j)
  <1>1. j \in Jogos
    <2>1. n + 1 \in 1..m
      OBVIOUS
    <2>2. QED
      BY <2>1
  <1>2. f \in Confrontos /\ f.pendentes \in Seq(Jogos) /\ f.fora \in BOOLEAN
    BY DEF Conferidos, Confrontos
  <1>3. ASSUME NEW x
        PROVE  /\ Repete(informados, n + 1, x) = Repete(informados, n, x) + (IF j = x THEN 1 ELSE 0)
               /\ Repete(informados, n, x) \in Nat /\ Repete(f.pendentes, Len(f.pendentes), x) \in Nat
               /\ Repete(jogos, Len(jogos), x) \in Nat
    <2>1. Len(jogos) \in Nat /\ Len(f.pendentes) \in Nat
      BY <1>2
    <2>2. QED
      BY <2>1, TimesNat, TimesStep
  <1> HIDE DEF j
  <1>4. g \in Confrontos
    BY <1>2, GamePasses
  <1> HIDE DEF g
  <1>5. CASE f.fora /\ g.fora
    <2>1. PICK k \in Jogos : Repete(informados, n, k) > Repete(jogos, Len(jogos), k)
      BY <1>5 DEF Conferidos
    <2>2. Repete(informados, n + 1, k) > Repete(jogos, Len(jogos), k)
      BY <1>3, <2>1
    <2>3. QED
      BY <1>4, <1>5, <2>2 DEF Conferidos, g, j
  <1>6. CASE g.fora /\ g.pendentes = f.pendentes /\ \A i \in 1..Len(f.pendentes) : f.pendentes[i] # j
    <2>1. CASE f.fora
      BY <1>5, <1>6, <2>1
    <2>2. CASE ~f.fora
      <3>1. Aparece(f.pendentes, Len(f.pendentes), j) = {}
        BY <1>6 DEF Aparece
      <3>2. Repete(f.pendentes, Len(f.pendentes), j) = 0
        BY <3>1, FS_EmptySet DEF Repete
      <3>3. Repete(jogos, Len(jogos), j) = Repete(f.pendentes, Len(f.pendentes), j) + Repete(informados, n, j)
        BY <2>2 DEF Conferidos
      <3>4. Repete(informados, n + 1, j) > Repete(jogos, Len(jogos), j)
        BY <1>3, <3>2, <3>3
      <3>5. QED
        BY <1>1, <1>4, <1>6, <3>4 DEF Conferidos, g, j
    <2>3. QED
      BY <2>1, <2>2
  <1>7. CASE /\ g.fora = f.fora
             /\ \A x : Repete(g.pendentes, Len(g.pendentes), x)
                         = Repete(f.pendentes, Len(f.pendentes), x) - (IF x = j THEN 1 ELSE 0)
    <2>1. CASE f.fora
      BY <1>5, <1>7, <2>1
    <2>2. CASE ~f.fora
      <3>1. ASSUME NEW x
            PROVE  Repete(jogos, Len(jogos), x) = Repete(g.pendentes, Len(g.pendentes), x) + Repete(informados, n + 1, x)
        <4>1. Repete(jogos, Len(jogos), x) = Repete(f.pendentes, Len(f.pendentes), x) + Repete(informados, n, x)
          BY <2>2 DEF Conferidos
        <4>2. Repete(g.pendentes, Len(g.pendentes), x) = Repete(f.pendentes, Len(f.pendentes), x) - (IF x = j THEN 1 ELSE 0)
          BY <1>7
        <4>3. QED
          BY <1>3, <4>1, <4>2
      <3>2. QED
        BY <1>4, <1>7, <2>2, <3>1 DEF Conferidos, g, j
    <2>3. QED
      BY <2>1, <2>2
  <1>8. QED
    BY <1>2, <1>6, <1>7, GamePasses DEF g

LEMMA TicketKeeps ==
    ASSUME NEW jogos \in Seq(Jogos), NEW m \in Nat, NEW informados \in [1..m -> Jogos],
           NEW it, Confronta(it, jogos, informados, m)
    PROVE  Conferidos(it[1..m], jogos, informados, m)
  <1> DEFINE M == {n \in Nat : n <= m => Conferidos(it[1..n], jogos, informados, n)}
  <1>1. \A s \in SUBSET (1..m) : it[s] = IF s = {} THEN [pendentes |-> jogos, fora |-> FALSE]
                                         ELSE Passa(it[s \ {Maior(s)}], informados[Maior(s)])
    BY Zenon DEF Confronta
  <1>2. 0 \in M
    <2>1. {} \in SUBSET (1..m) /\ 1..0 = {}
      OBVIOUS
    <2>2. it[1..0] = [pendentes |-> jogos, fora |-> FALSE]
      BY <1>1, <2>1
    <2>3. \A x : Repete(jogos, Len(jogos), x) \in Nat /\ Repete(informados, 0, x) = 0
      BY TimesNat, TimesStep
    <2>4. \A x : Repete(jogos, Len(jogos), x) = Repete(jogos, Len(jogos), x) + Repete(informados, 0, x)
      BY <2>3
    <2>5. Conferidos([pendentes |-> jogos, fora |-> FALSE], jogos, informados, 0)
      BY <2>4 DEF Conferidos, Confrontos
    <2>6. QED
      BY <2>2, <2>5
  <1>3. ASSUME NEW n \in Nat, n \in M PROVE n + 1 \in M
    <2>1. ASSUME n + 1 <= m PROVE Conferidos(it[1..(n + 1)], jogos, informados, n + 1)
      <3>1. PICK i \in Nat : i = n + 1 /\ i \in 1..m /\ i - 1 = n
        BY <2>1
      <3>2. 1..i \in SUBSET (1..m) /\ 1..i # {} /\ Maior(1..i) = i /\ (1..i) \ {i} = 1..(i - 1)
        BY <3>1, LargestOfFirst
      <3>3. it[1..i] = Passa(it[(1..i) \ {Maior(1..i)}], informados[Maior(1..i)])
        BY <1>1, <3>2
      <3>4. it[1..i] = Passa(it[1..n], informados[n + 1])
        BY <3>1, <3>2, <3>3
      <3>5. Conferidos(it[1..n], jogos, informados, n)
        BY <1>3, <3>1
      <3>6. QED
        BY <2>1, <3>1, <3>4, <3>5, GameKeeps
    <2>2. QED
      BY <2>1
  <1>4. m \in M
    <2> HIDE DEF M
    <2>1. QED
      BY <1>2, <1>3, NumberInduction
  <1>5. QED
    BY <1>4

LEMMA TicketIs ==
    ASSUME NEW jogos \in Seq(Jogos), NEW m \in Nat, NEW informados \in [1..m -> Jogos]
    PROVE  K!assertTicketMatchesPool(jogos, informados)
              <=> m # 0 /\ \A j \in Jogos : Repete(jogos, Len(jogos), j) = Repete(informados, m, j)
  <1> DEFINE ultimo == (CHOOSE it : Confronta(it, jogos, informados, m))[1..m]
  <1>1. DOMAIN informados = 1..m
    OBVIOUS
  <1>2. ASSUME NEW it
        PROVE  it = [s \in SUBSET (DOMAIN informados) |->
                       IF s = {} THEN [pendentes |-> jogos, fora |-> FALSE]
                       ELSE IF K!Ocorrencia(it[s \ {K!Max(s)}].pendentes, informados[K!Max(s)]) = 0
                            THEN [it[s \ {K!Max(s)}] EXCEPT !.fora = TRUE]
                            ELSE [it[s \ {K!Max(s)}] EXCEPT !.pendentes = K!Retira(@, informados[K!Max(s)])]]
               <=> Confronta(it, jogos, informados, m)
    <2>1. \A s : K!Max(s) = Maior(s)
      BY DEF K!Max, Maior
    <2>2. QED
      BY <1>1, <2>1 DEF Confronta, Passa
  <1>3. K!assertTicketMatchesPool(jogos, informados) <=> informados # <<>> /\ ~ultimo.fora /\ ultimo.pendentes = <<>>
    <2>0. (CHOOSE it : it = [s \in SUBSET (DOMAIN informados) |->
                       IF s = {} THEN [pendentes |-> jogos, fora |-> FALSE]
                       ELSE IF K!Ocorrencia(it[s \ {K!Max(s)}].pendentes, informados[K!Max(s)]) = 0
                            THEN [it[s \ {K!Max(s)}] EXCEPT !.fora = TRUE]
                            ELSE [it[s \ {K!Max(s)}] EXCEPT !.pendentes = K!Retira(@, informados[K!Max(s)])]])
           = (CHOOSE it : Confronta(it, jogos, informados, m))
      BY <1>2
    <2>1. ultimo = K!FoldLeft(LAMBDA f, j : IF K!Ocorrencia(f.pendentes, j) = 0 THEN [f EXCEPT !.fora = TRUE]
                                           ELSE [f EXCEPT !.pendentes = K!Retira(@, j)],
                             [pendentes |-> jogos, fora |-> FALSE], informados)
      BY <1>1, <2>0 DEF K!FoldLeft, K!MapThenFoldSet
    <2> HIDE DEF ultimo
    <2>2. QED
      BY <2>1 DEF K!assertTicketMatchesPool
  <1>4. Confronta(CHOOSE it : Confronta(it, jogos, informados, m), jogos, informados, m)
    BY TicketExists
  <1>5. Conferidos(ultimo, jogos, informados, m)
    BY <1>4, TicketKeeps
  <1> HIDE DEF ultimo
  <1>6. ultimo.pendentes \in Seq(Jogos) /\ ultimo.fora \in BOOLEAN
    BY <1>5 DEF Conferidos, Confrontos
  <1>7. informados # <<>> <=> m # 0
    <2>1. informados \in Seq(Jogos) /\ Len(informados) = m
      OBVIOUS
    <2>2. QED
      BY <2>1
  <1>8. \A x : /\ Repete(jogos, Len(jogos), x) \in Nat /\ Repete(informados, m, x) \in Nat
              /\ Repete(ultimo.pendentes, Len(ultimo.pendentes), x) \in Nat
    BY <1>6, TimesNat
  <1>9. ASSUME ~ultimo.fora, ultimo.pendentes = <<>>, NEW j \in Jogos
        PROVE Repete(jogos, Len(jogos), j) = Repete(informados, m, j)
    <2>1. Len(ultimo.pendentes) = 0
      BY <1>9
    <2>2. Repete(ultimo.pendentes, 0, j) = 0
      BY TimesStep
    <2>3. Repete(jogos, Len(jogos), j) = Repete(ultimo.pendentes, Len(ultimo.pendentes), j) + Repete(informados, m, j)
      BY <1>5, <1>9 DEF Conferidos
    <2>4. QED
      BY <1>8, <2>1, <2>2, <2>3
  <1>10. ASSUME \A j \in Jogos : Repete(jogos, Len(jogos), j) = Repete(informados, m, j)
         PROVE  ~ultimo.fora /\ ultimo.pendentes = <<>>
    <2>1. ~ultimo.fora
      <3>1. ASSUME ultimo.fora PROVE FALSE
        <4>1. PICK j \in Jogos : Repete(informados, m, j) > Repete(jogos, Len(jogos), j)
          BY <1>5, <3>1 DEF Conferidos
        <4>2. QED
          BY <1>8, <1>10, <4>1
      <3>2. QED
        BY <3>1
    <2>2. ultimo.pendentes = <<>>
      <3>1. ASSUME ultimo.pendentes # <<>> PROVE FALSE
        <4>1. 1 \in 1..Len(ultimo.pendentes)
          BY <1>6, <3>1
        <4>2. PICK j \in Jogos : j = ultimo.pendentes[1]
          BY <1>6, <4>1
        <4>3. 1 \in Aparece(ultimo.pendentes, Len(ultimo.pendentes), j)
          BY <4>1, <4>2 DEF Aparece
        <4>4. Len(ultimo.pendentes) \in Nat
          BY <1>6
        <4>5. IsFiniteSet(Aparece(ultimo.pendentes, Len(ultimo.pendentes), j))
          BY <4>4, TimesNat
        <4>6. Repete(ultimo.pendentes, Len(ultimo.pendentes), j) # 0
          BY <4>3, <4>5, FS_EmptySet DEF Repete
        <4>7. Repete(jogos, Len(jogos), j) = Repete(ultimo.pendentes, Len(ultimo.pendentes), j) + Repete(informados, m, j)
          BY <1>5, <2>1 DEF Conferidos
        <4>8. QED
          BY <1>8, <1>10, <4>6, <4>7
      <3>2. QED
        BY <3>1
    <2>3. QED
      BY <2>1, <2>2
  <1>11. QED
    BY <1>3, <1>7, <1>9, <1>10

LEMMA TicketsMatch == ASSUME K!Confere PROVE K!BilheteConfere'
  <1>1. PICK jogos \in K!BoundedSeq(Jogos, MaxJogos), informados \in K!BoundedSeq(Jogos, MaxJogos) :
        calculo' = [op |-> "confere", jogos |-> jogos, informados |-> informados,
                    aceito |-> K!assertTicketMatchesPool(jogos, informados)]
    BY DEF K!Confere
  <1>2. PICK n \in 0..MaxJogos : jogos \in [1..n -> Jogos]
    BY DEF K!BoundedSeq, K!SeqOf
  <1>3. PICK m \in 0..MaxJogos : informados \in [1..m -> Jogos]
    BY DEF K!BoundedSeq, K!SeqOf
  <1>4. n \in Nat /\ m \in Nat
    BY JogosAssumption
  <1>5. jogos \in Seq(Jogos) /\ Len(jogos) = n /\ DOMAIN jogos = 1..n /\ DOMAIN informados = 1..m
    BY <1>2, <1>3, <1>4
  <1>6. informados # <<>> <=> m # 0
    <2>1. informados \in Seq(Jogos) /\ Len(informados) = m
      BY <1>3, <1>4
    <2>2. QED
      BY <2>1
  <1>7. K!assertTicketMatchesPool(jogos, informados)
              <=> m # 0 /\ \A j \in Jogos : Repete(jogos, Len(jogos), j) = Repete(informados, m, j)
    BY <1>3, <1>4, <1>5, TicketIs
  <1>8. \A j : /\ K!Cardinality({i \in DOMAIN jogos : jogos[i] = j}) = Repete(jogos, Len(jogos), j)
               /\ K!Cardinality({i \in DOMAIN informados : informados[i] = j}) = Repete(informados, m, j)
    BY <1>5 DEF Repete, Aparece, K!Cardinality, Cardinality
  <1>9. calculo'.op = "confere" /\ calculo'.jogos = jogos /\ calculo'.informados = informados
        /\ calculo'.aceito = K!assertTicketMatchesPool(jogos, informados)
    BY <1>1
  <1>10. K!assertTicketMatchesPool(jogos, informados)
           <=> /\ informados # <<>>
               /\ \A j \in Jogos : K!Cardinality({i \in DOMAIN jogos : jogos[i] = j})
                                 = K!Cardinality({i \in DOMAIN informados : informados[i] = j})
    <2>1. \A j \in Jogos : Repete(jogos, Len(jogos), j) = Repete(informados, m, j)
             <=> K!Cardinality({i \in DOMAIN jogos : jogos[i] = j}) = K!Cardinality({i \in DOMAIN informados : informados[i] = j})
      BY <1>8
    <2>2. QED
      BY <1>6, <1>7, <2>1, Zenon
  <1>11. QED
    BY <1>9, <1>10 DEF K!BilheteConfere

\* The properties, of a calculation and of an answer.
Conferido(x) ==
    /\ x.op = "numeros" => x.apostas = K!Cardinality(K!kSubset(6, 1..x.n))
    /\ x.op = "colunas" => x.apostas = 2^x.duplas * 3^x.triplas
    /\ x.op = "confere" =>
          (x.aceito <=>
            /\ x.informados # <<>>
            /\ \A j \in Jogos : K!Cardinality({i \in DOMAIN x.jogos : x.jogos[i] = j})
                              = K!Cardinality({i \in DOMAIN x.informados : x.informados[i] = j}))

LEMMA TicketsChecked == Conferido(calculo) <=> K!TabelaConta /\ K!BilheteConfere
  BY Zenon DEF Conferido, K!TabelaConta, K!BilheteConfere

\* A multiple bet costs as many simple ones as it holds (officialPriceRows), and a ticket is accepted exactly when it
\* has the games of the pool, each as many times, in any order (assertTicketMatchesPool), for tickets of any length.
THEOREM TicketsAndTables == Spec => [](K!TabelaConta /\ K!BilheteConfere)
  <1> DEFINE Certo == K!TabelaConta /\ K!BilheteConfere
  <1>1. Init => Certo
    BY DEF Init, K!Init, K!Nenhum, K!TabelaConta, K!BilheteConfere
  <1>2. ASSUME K!Next PROVE Certo'
    <2>1. CASE K!Tabula
      <3>1. calculo'.op \in {"numeros", "colunas"}
        BY <2>1 DEF K!Tabula
      <3>2. QED
        BY <2>1, <3>1, TableCounted DEF K!BilheteConfere
    <2>2. CASE K!Confere
      <3>1. calculo'.op = "confere"
        BY <2>2 DEF K!Confere
      <3>2. QED
        BY <2>2, <3>1, TicketsMatch DEF K!TabelaConta
    <2>3. CASE K!Divide \/ K!Premia \/ K!Precifica \/ K!Planeja
      <3>1. calculo'.op \in {"divide", "premia", "preco", "plano"}
        BY <2>3 DEF K!Divide, K!Premia, K!Precifica, K!PorPercentual, K!PorCota, K!PorTaxa, K!Preco, K!Planeja
      <3>2. QED
        BY <3>1 DEF K!TabelaConta, K!BilheteConfere
    <2>4. QED
      BY <1>2, <2>1, <2>2, <2>3 DEF K!Next
  <1>3. Conferido(calculo) /\ UNCHANGED calculo => Conferido(calculo)'
    BY Zenon
  <1>4. Certo /\ UNCHANGED calculo => Certo'
    BY <1>3, TicketsChecked, PTL
  <1> HIDE DEF Certo
  <1>5. Spec => []Certo
    BY <1>1, <1>2, <1>4, CalculosMoves, PTL DEF Spec
  <1>6. QED
    BY <1>5, PTL DEF Certo

-----------------------------------------------------------------------------
(* Types *)

\* The computations have one result each.
LEMMA ComputationsTyped == Spec => []K!TypeOK
  <1>1. Init => K!TypeOK
    BY DEF Init, K!Init, K!Nenhum, K!TypeOK
  <1>2. K!TypeOK /\ [Next]_vars => K!TypeOK'
    <2>1. K!Next => K!TypeOK'
      BY DEF K!Next, K!Divide, K!Premia, K!Precifica, K!Planeja, K!Tabula, K!Confere, K!TypeOK,
        K!Preco, K!PorPercentual, K!PorCota, K!PorTaxa
    <2>2. QED
      BY <2>1, CalculosMoves DEF K!TypeOK
  <1>3. QED
    BY <1>1, <1>2, PTL DEF Spec
=============================================================================
