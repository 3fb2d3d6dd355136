-------------------------- MODULE FiniteSumsProofs --------------------------
(***************************************************************************)
(* SumOf, the sum of a function over a finite set, by its parts: the fold  *)
(* of the library is a table that holds the sum of every subset, which is  *)
(* shown to exist by taking the smallest size without one.  The sums of    *)
(* the models (ledgers, credits, hours) change by one element at a time.   *)
(***************************************************************************)
EXTENDS FiniteSums, FiniteSetTheorems, TLAPS

Chosen(s) == CHOOSE x \in s : TRUE
SumAt(g, f, s) == IF s = {} THEN 0 ELSE f[Chosen(s)] + g[s \ {Chosen(s)}]
UpTo(S, n) == {s \in SUBSET S : Cardinality(s) <= n}
\* g is the table of sums of the sets D
IsTable(g, f, D) == g = [s \in D |-> SumAt(g, f, s)]

\* The fold of the library is a table of sums, if there is one.
LEMMA SumUnfold ==
  ASSUME NEW f, NEW S, NEW g, IsTable(g, f, SUBSET S)
  PROVE  \E h : IsTable(h, f, SUBSET S) /\ SumOf(f, S) = h[S]
<1> DEFINE h == CHOOSE iter : iter = [s \in SUBSET S |-> IF s = {} THEN 0 ELSE f[CHOOSE x \in s : TRUE] + iter[s \ {CHOOSE x \in s : TRUE}]]
<1>1. SumOf(f, S) = h[S]
  BY DEF SumOf, MapThenSumSet, MapThenFoldSet
<1>2. h = [s \in SUBSET S |-> IF s = {} THEN 0 ELSE f[CHOOSE x \in s : TRUE] + h[s \ {CHOOSE x \in s : TRUE}]]
  BY DEF IsTable, SumAt, Chosen
<1> QED BY <1>1, <1>2 DEF IsTable, SumAt, Chosen

\* A set of numbers that is not empty has a smallest.
LEMMA SmallestNat ==
  ASSUME NEW T, T \subseteq Nat, T # {}
  PROVE  \E n \in T : \A m \in T : n <= m
<1>1. PICK n \in T : \A m \in T : ~ (<<m, n>> \in OpToRel(<, Nat))
  BY NatLessThanWellFounded, WFMin
<1>2. \A m \in T : ~(m < n)
  BY <1>1 DEF OpToRel
<1> QED BY <1>2

\* A set of at most n + 1 elements without its chosen one has at most n.
LEMMA ChosenSmaller ==
  ASSUME NEW S, IsFiniteSet(S), NEW s \in SUBSET S, s # {}
  PROVE  /\ Chosen(s) \in s /\ s \ {Chosen(s)} \in SUBSET S
         /\ Cardinality(s) \in Nat \ {0} /\ Cardinality(s \ {Chosen(s)}) = Cardinality(s) - 1
<1>1. IsFiniteSet(s) /\ Chosen(s) \in s
  BY FS_Subset DEF Chosen
<1>2. Cardinality(s) \in Nat /\ Cardinality(s) # 0
  BY <1>1, FS_CardinalityType, FS_EmptySet
<1> QED BY <1>1, <1>2, FS_RemoveElement

\* There is a table for the sets of up to n elements.
LEMMA TableUpTo ==
  ASSUME NEW S, IsFiniteSet(S), NEW f, NEW n \in Nat
  PROVE  \E g : IsTable(g, f, UpTo(S, n))
<1> DEFINE T == {m \in Nat : ~ \E g : IsTable(g, f, UpTo(S, m))}
<1>1. SUFFICES ASSUME T # {} PROVE FALSE
  OBVIOUS
<1>2. PICK m \in T : \A k \in T : m <= k
  BY <1>1, SmallestNat
<1>3. CASE m = 0
  <2>1. ASSUME NEW s \in UpTo(S, 0), s # {} PROVE FALSE
    <3>1. s \in SUBSET S /\ Cardinality(s) <= 0
      BY DEF UpTo
    <3>2. Cardinality(s) \in Nat \ {0}
      BY <2>1, <3>1, ChosenSmaller
    <3> QED BY <3>1, <3>2
  <2>2. [s \in UpTo(S, 0) |-> 0] = [s \in UpTo(S, 0) |-> SumAt([t \in UpTo(S, 0) |-> 0], f, s)]
    BY <2>1 DEF SumAt
  <2>3. \E g : IsTable(g, f, UpTo(S, 0))
    BY <2>2 DEF IsTable
  <2> QED BY <1>2, <1>3, <2>3
<1>4. CASE m # 0
  <2>1. m - 1 \in Nat /\ m - 1 \notin T
    BY <1>2, <1>4
  <2>2. PICK g : IsTable(g, f, UpTo(S, m - 1))
    BY <2>1
  <2> DEFINE h == [s \in UpTo(S, m) |-> SumAt(g, f, s)]
  <2>3. ASSUME NEW s \in UpTo(S, m) PROVE SumAt(h, f, s) = SumAt(g, f, s)
    <3>1. CASE s = {}
      BY <3>1 DEF SumAt
    <3>2. CASE s # {}
      <4>1. s \ {Chosen(s)} \in UpTo(S, m - 1) /\ s \ {Chosen(s)} \in UpTo(S, m)
        BY <3>2, <1>2, ChosenSmaller DEF UpTo
      <4>2. h[s \ {Chosen(s)}] = g[s \ {Chosen(s)}]
        BY <4>1, <2>2 DEF IsTable
      <4> QED BY <4>2 DEF SumAt
    <3> QED BY <3>1, <3>2
  <2>4. h = [s \in UpTo(S, m) |-> SumAt(h, f, s)]
    BY <2>3
  <2>5. \E e : IsTable(e, f, UpTo(S, m))
    BY <2>4 DEF IsTable
  <2> QED BY <1>2, <2>5
<1> QED BY <1>3, <1>4

\* There is a table, and it holds the sum.
LEMMA TableExists ==
  ASSUME NEW S, IsFiniteSet(S), NEW f
  PROVE  \E g : IsTable(g, f, SUBSET S) /\ SumOf(f, S) = g[S]
<1>1. Cardinality(S) \in Nat
  BY FS_CardinalityType
<1>2. SUBSET S = UpTo(S, Cardinality(S))
  BY FS_Subset DEF UpTo
<1>3. \E g : IsTable(g, f, UpTo(S, Cardinality(S)))
  BY <1>1, TableUpTo
<1>4. PICK g : IsTable(g, f, SUBSET S)
  BY <1>2, <1>3
<1> QED BY <1>4, SumUnfold

\* Two tables agree where both are defined and the values are the same.
LEMMA TablesAgree ==
  ASSUME NEW S, IsFiniteSet(S), NEW R, IsFiniteSet(R), NEW f, NEW g, NEW e, NEW h,
         IsTable(g, f, SUBSET S), IsTable(h, e, SUBSET R),
         NEW U, U \subseteq S, U \subseteq R, \A x \in U : f[x] = e[x]
  PROVE  g[U] = h[U]
<1> DEFINE T == {n \in Nat : \E s \in SUBSET U : Cardinality(s) = n /\ g[s] # h[s]}
<1>1. SUFFICES ASSUME T # {} PROVE FALSE
  <2>1. IsFiniteSet(U)
    BY FS_Subset
  <2>2. Cardinality(U) \in Nat
    BY <2>1, FS_CardinalityType
  <2> QED BY <2>2
<1>2. PICK n \in T : \A k \in T : n <= k
  BY <1>1, SmallestNat
<1>3. PICK s \in SUBSET U : Cardinality(s) = n /\ g[s] # h[s]
  BY <1>2
<1>4. g[s] = SumAt(g, f, s) /\ h[s] = SumAt(h, e, s)
  BY DEF IsTable
<1>5. s # {}
  BY <1>3, <1>4 DEF SumAt
<1>6. IsFiniteSet(U)
  BY FS_Subset
<1> DEFINE t == s \ {Chosen(s)}
<1>7. t \in SUBSET U /\ Cardinality(t) = n - 1 /\ n \in Nat \ {0} /\ Chosen(s) \in U
  BY <1>3, <1>5, <1>6, ChosenSmaller
<1>8. g[t] = h[t]
  BY <1>2, <1>7
<1> QED BY <1>3, <1>4, <1>5, <1>7, <1>8 DEF SumAt

\* One table holds the sums of all the parts.
LEMMA SumTable ==
  ASSUME NEW S, IsFiniteSet(S), NEW f, NEW g, IsTable(g, f, SUBSET S), NEW U \in SUBSET S
  PROVE  SumOf(f, U) = g[U]
<1>1. IsFiniteSet(U)
  BY FS_Subset
<1>2. PICK h : IsTable(h, f, SUBSET U) /\ SumOf(f, U) = h[U]
  BY <1>1, TableExists
<1> QED BY <1>1, <1>2, TablesAgree

\* The sum depends on the values alone.
LEMMA SumSame ==
  ASSUME NEW S, IsFiniteSet(S), NEW f, NEW e, \A x \in S : f[x] = e[x]
  PROVE  SumOf(f, S) = SumOf(e, S)
<1>1. PICK g : IsTable(g, f, SUBSET S) /\ SumOf(f, S) = g[S]
  BY TableExists
<1>2. PICK h : IsTable(h, e, SUBSET S) /\ SumOf(e, S) = h[S]
  BY TableExists
<1> QED BY <1>1, <1>2, TablesAgree

\* The empty sum.
LEMMA SumEmpty == ASSUME NEW f PROVE SumOf(f, {}) = 0
<1>1. IsFiniteSet({})
  BY FS_EmptySet
<1>2. PICK g : IsTable(g, f, SUBSET {}) /\ SumOf(f, {}) = g[{}]
  BY <1>1, TableExists
<1> QED BY <1>2 DEF IsTable, SumAt

\* The sum, by its chosen element.
LEMMA SumStep ==
  ASSUME NEW S, IsFiniteSet(S), NEW f, S # {}
  PROVE  SumOf(f, S) = f[Chosen(S)] + SumOf(f, S \ {Chosen(S)})
<1>1. PICK g : IsTable(g, f, SUBSET S) /\ SumOf(f, S) = g[S]
  BY TableExists
<1>2. SumOf(f, S \ {Chosen(S)}) = g[S \ {Chosen(S)}]
  BY <1>1, SumTable
<1>3. g[S] = SumAt(g, f, S)
  BY <1>1 DEF IsTable
<1> QED BY <1>1, <1>2, <1>3 DEF SumAt

\* The smallest part of a finite set that lacks a property, if one does.
LEMMA SmallestPart ==
  ASSUME NEW S, IsFiniteSet(S), NEW T, T \subseteq SUBSET S, T # {}
  PROVE  \E s \in T : \A t \in T : Cardinality(s) <= Cardinality(t)
<1> DEFINE C == {Cardinality(s) : s \in T}
<1>1. C \subseteq Nat /\ C # {}
  BY FS_Subset, FS_CardinalityType
<1>2. PICK n \in C : \A m \in C : n <= m
  BY <1>1, SmallestNat
<1> QED BY <1>2

\* A part without an element is smaller.
LEMMA SmallerPart ==
  ASSUME NEW S, IsFiniteSet(S), NEW s \in SUBSET S, NEW c \in s
  PROVE  Cardinality(s \ {c}) < Cardinality(s) /\ s \ {c} \in SUBSET S
         /\ Cardinality(s) \in Nat /\ Cardinality(s \ {c}) \in Nat
         /\ ~(Cardinality(s) <= Cardinality(s \ {c}))
<1>1. IsFiniteSet(s)
  BY FS_Subset
<1>2. Cardinality(s \ {c}) = Cardinality(s) - 1 /\ Cardinality(s) \in Nat /\ Cardinality(s \ {c}) \in Nat
  BY <1>1, FS_RemoveElement, FS_CardinalityType
<1> QED BY <1>2

\* The sum, by any of its elements.
LEMMA SumStepOf ==
  ASSUME NEW S, IsFiniteSet(S), NEW f, NEW s \in SUBSET S, s # {}
  PROVE  \E c \in s : SumOf(f, s) = f[c] + SumOf(f, s \ {c}) /\ Cardinality(s \ {c}) < Cardinality(s)
<1>1. IsFiniteSet(s)
  BY FS_Subset
<1>2. SumOf(f, s) = f[Chosen(s)] + SumOf(f, s \ {Chosen(s)}) /\ Chosen(s) \in s
  BY <1>1, SumStep, ChosenSmaller
<1> QED BY <1>2, SmallerPart

\* A sum of integers is one.
LEMMA SumInt ==
  ASSUME NEW S, IsFiniteSet(S), NEW f, \A x \in S : f[x] \in Int
  PROVE  SumOf(f, S) \in Int
<1> DEFINE T == {s \in SUBSET S : SumOf(f, s) \notin Int}
<1>1. SUFFICES ASSUME T # {} PROVE FALSE
  OBVIOUS
<1>2. PICK s \in T : \A t \in T : Cardinality(s) <= Cardinality(t)
  BY <1>1, SmallestPart
<1>3. s # {}
  <2>1. SumOf(f, {}) = 0
    BY SumEmpty
  <2> QED BY <1>2, <2>1
<1>4. PICK c \in s : SumOf(f, s) = f[c] + SumOf(f, s \ {c}) /\ Cardinality(s \ {c}) < Cardinality(s)
  BY <1>2, <1>3, SumStepOf
<1>5. s \ {c} \notin T
  BY <1>2, <1>4, SmallerPart
<1> QED BY <1>2, <1>4, <1>5

\* The order in which elements are chosen is of no account.
LEMMA SumRemove ==
  ASSUME NEW S, IsFiniteSet(S), NEW f, \A y \in S : f[y] \in Int, NEW x \in S
  PROVE  SumOf(f, S) = f[x] + SumOf(f, S \ {x})
<1> DEFINE T == {s \in SUBSET S : \E y \in s : SumOf(f, s) # f[y] + SumOf(f, s \ {y})}
<1>1. SUFFICES ASSUME T # {} PROVE FALSE
  OBVIOUS
<1>2. PICK s \in T : \A t \in T : Cardinality(s) <= Cardinality(t)
  BY <1>1, SmallestPart
<1>3. PICK y \in s : SumOf(f, s) # f[y] + SumOf(f, s \ {y})
  BY <1>2
<1>4. IsFiniteSet(s) /\ s # {}
  BY FS_Subset
<1>5. PICK c : c = Chosen(s)
  OBVIOUS
<1>6. SumOf(f, s) = f[c] + SumOf(f, s \ {c}) /\ c \in s
  BY <1>4, <1>5, SumStep, ChosenSmaller
<1>7. c # y
  BY <1>3, <1>6
<1>8. SumOf(f, s \ {c}) = f[y] + SumOf(f, (s \ {c}) \ {y})
  <2>1. s \ {c} \notin T
    BY <1>2, <1>6, SmallerPart
  <2> QED BY <2>1, <1>7
<1>9. SumOf(f, s \ {y}) = f[c] + SumOf(f, (s \ {y}) \ {c})
  <2>1. s \ {y} \notin T
    BY <1>2, <1>3, SmallerPart
  <2> QED BY <2>1, <1>6, <1>7
<1>10. (s \ {y}) \ {c} = (s \ {c}) \ {y}
  OBVIOUS
<1>11. SumOf(f, (s \ {c}) \ {y}) \in Int /\ f[c] \in Int /\ f[y] \in Int
  BY <1>6, SumInt, FS_Subset
<1> QED BY <1>3, <1>6, <1>8, <1>9, <1>10, <1>11

\* A set with one element more.
LEMMA SumAdd ==
  ASSUME NEW S, IsFiniteSet(S), NEW f, NEW x, x \notin S, \A y \in S \cup {x} : f[y] \in Int
  PROVE  SumOf(f, S \cup {x}) = SumOf(f, S) + f[x]
<1>1. IsFiniteSet(S \cup {x}) /\ (S \cup {x}) \ {x} = S
  BY FS_AddElement
<1>2. SumOf(f, S) \in Int
  BY SumInt
<1> QED BY <1>1, <1>2, SumRemove

\* One value changes.
LEMMA SumChange ==
  ASSUME NEW S, IsFiniteSet(S), NEW f, NEW e, NEW x \in S,
         \A y \in S : f[y] \in Int /\ e[y] \in Int,
         \A y \in S \ {x} : e[y] = f[y]
  PROVE  SumOf(e, S) = SumOf(f, S) - f[x] + e[x]
<1>1. IsFiniteSet(S \ {x})
  BY FS_RemoveElement
<1>2. SumOf(e, S \ {x}) = SumOf(f, S \ {x})
  BY <1>1, SumSame
<1>3. SumOf(f, S \ {x}) \in Int
  BY <1>1, SumInt
<1>4. SumOf(f, S) = f[x] + SumOf(f, S \ {x}) /\ SumOf(e, S) = e[x] + SumOf(e, S \ {x})
  BY SumRemove
<1> QED BY <1>2, <1>3, <1>4

\* Which element comes first does not matter.
LEMMA SumOrder ==
  ASSUME NEW S, IsFiniteSet(S), NEW f, NEW e,
         \A x \in S : f[x] \in Int /\ e[x] \in Int /\ f[x] <= e[x]
  PROVE  SumOf(f, S) <= SumOf(e, S)
<1> DEFINE T == {s \in SUBSET S : ~ (SumOf(f, s) <= SumOf(e, s))}
<1>1. SUFFICES ASSUME T # {} PROVE FALSE
  OBVIOUS
<1>2. PICK s \in T : \A t \in T : Cardinality(s) <= Cardinality(t)
  BY <1>1, SmallestPart
<1>3. s # {}
  <2>1. SumOf(f, {}) = 0 /\ SumOf(e, {}) = 0
    BY SumEmpty
  <2> QED BY <1>2, <2>1
<1>4. PICK c : c = Chosen(s)
  OBVIOUS
<1>5. /\ SumOf(f, s) = f[c] + SumOf(f, s \ {c}) /\ SumOf(e, s) = e[c] + SumOf(e, s \ {c})
      /\ c \in s
  BY <1>2, <1>3, <1>4, SumStep, FS_Subset, ChosenSmaller
<1>6. s \ {c} \notin T /\ s \ {c} \in SUBSET S
  BY <1>2, <1>5, SmallerPart
<1>7. SumOf(f, s \ {c}) \in Int /\ SumOf(e, s \ {c}) \in Int
  <2>1. IsFiniteSet(s \ {c})
    BY <1>6, FS_Subset
  <2> QED BY <1>6, <2>1, SumInt
<1>8. SumOf(f, s \ {c}) <= SumOf(e, s \ {c}) /\ f[c] <= e[c] /\ f[c] \in Int /\ e[c] \in Int
  BY <1>2, <1>5, <1>6
<1>9. SumOf(f, s) <= SumOf(e, s)
  BY <1>5, <1>7, <1>8
<1> QED BY <1>2, <1>9

\* Induction over the parts of a finite set, and over Nat.
LEMMA PartInduction ==
  ASSUME NEW S, IsFiniteSet(S), NEW T, {} \in T,
         \A s \in SUBSET S : \A c \in s : s \ {c} \in T => s \in T
  PROVE  S \in T
<1> DEFINE R == (SUBSET S) \ T
<1>1. SUFFICES ASSUME R # {} PROVE FALSE
  OBVIOUS
<1>2. PICK s \in R : \A t \in R : Cardinality(s) <= Cardinality(t)
  BY <1>1, SmallestPart
<1>3. PICK c : c \in s
  BY <1>2
<1>4. s \ {c} \notin R
  BY <1>2, <1>3, SmallerPart
<1> QED BY <1>2, <1>3, <1>4

\* Induction over the number of elements, of a set of numbers.
LEMMA CountInduction ==
  ASSUME NEW T, 0 \in T, \A n \in Nat : n \in T => n + 1 \in T
  PROVE  Nat \subseteq T
<1> DEFINE R == Nat \ T
<1>1. SUFFICES ASSUME R # {} PROVE FALSE
  OBVIOUS
<1>2. PICK n \in R : \A m \in R : n <= m
  BY <1>1, SmallestNat
<1>3. n - 1 \in Nat /\ n - 1 \notin R
  BY <1>2
<1> QED BY <1>2, <1>3

\* A sum of naturals is one.
LEMMA SumNat ==
  ASSUME NEW S, IsFiniteSet(S), NEW f, \A x \in S : f[x] \in Nat
  PROVE  SumOf(f, S) \in Nat
<1> DEFINE T == {s \in SUBSET S : SumOf(f, s) \in Nat}
<1>1. {} \in T
  BY SumEmpty
<1>2. ASSUME NEW s \in SUBSET S, NEW c \in s, s \ {c} \in T PROVE s \in T
  <2>1. IsFiniteSet(s)
    BY FS_Subset
  <2>2. SumOf(f, s) = f[c] + SumOf(f, s \ {c})
    BY <2>1, SumRemove
  <2> QED BY <1>2, <2>2
<1> HIDE DEF T
<1>3. S \in T
  BY <1>1, <1>2, PartInduction
<1> QED BY <1>3 DEF T

\* What is left out counts for nothing.
LEMMA SumWhere ==
  ASSUME NEW S, IsFiniteSet(S), NEW U \in SUBSET S, NEW f, NEW e,
         \A x \in S : f[x] \in Int, \A x \in S : e[x] = IF x \in U THEN f[x] ELSE 0
  PROVE  SumOf(e, S) = SumOf(f, U)
<1> DEFINE T == {s \in SUBSET S : SumOf(e, s) = SumOf(f, s \cap U)}
<1>1. {} \in T
  BY SumEmpty
<1>2. ASSUME NEW s \in SUBSET S, NEW c \in s, s \ {c} \in T PROVE s \in T
  <2>1. IsFiniteSet(s)
    BY FS_Subset
  <2>2. IsFiniteSet(s \cap U)
    BY FS_Subset
  <2>3. SumOf(e, s) = e[c] + SumOf(e, s \ {c})
    BY <2>1, SumRemove
  <2>4. CASE c \in U
    <3>1. SumOf(f, s \cap U) = f[c] + SumOf(f, (s \cap U) \ {c})
      BY <2>2, <2>4, SumRemove
    <3>2. (s \cap U) \ {c} = (s \ {c}) \cap U
      OBVIOUS
    <3> QED BY <1>2, <2>3, <2>4, <3>1, <3>2
  <2>5. CASE c \notin U
    <3>1. s \cap U = (s \ {c}) \cap U
      BY <2>5
    <3>2. SumOf(f, s \cap U) \in Int
      BY <2>2, SumInt
    <3> QED BY <1>2, <2>3, <2>5, <3>1, <3>2
  <2> QED BY <2>4, <2>5
<1> HIDE DEF T
<1>3. S \in T
  BY <1>1, <1>2, PartInduction
<1>4. S \cap U = U
  OBVIOUS
<1> QED BY <1>3, <1>4 DEF T

\* A part of naturals sums up to no more.
LEMMA SumPart ==
  ASSUME NEW S, IsFiniteSet(S), NEW U \in SUBSET S, NEW f, \A x \in S : f[x] \in Nat
  PROVE  SumOf(f, U) <= SumOf(f, S)
<1> DEFINE e == [x \in S |-> IF x \in U THEN f[x] ELSE 0]
<1>1. SumOf(e, S) = SumOf(f, U)
  BY SumWhere
<1>2. SumOf(e, S) <= SumOf(f, S)
  BY SumOrder
<1> QED BY <1>1, <1>2

\* The sum of two functions.
LEMMA SumPlus ==
  ASSUME NEW S, IsFiniteSet(S), NEW f, NEW e, NEW g,
         \A x \in S : f[x] \in Int /\ e[x] \in Int /\ g[x] = f[x] + e[x]
  PROVE  SumOf(g, S) = SumOf(f, S) + SumOf(e, S)
<1> DEFINE T == {s \in SUBSET S : SumOf(g, s) = SumOf(f, s) + SumOf(e, s)}
<1>1. {} \in T
  BY SumEmpty
<1>2. ASSUME NEW s \in SUBSET S, NEW c \in s, s \ {c} \in T PROVE s \in T
  <2>1. IsFiniteSet(s) /\ IsFiniteSet(s \ {c})
    BY FS_Subset
  <2>2. /\ SumOf(g, s) = g[c] + SumOf(g, s \ {c})
        /\ SumOf(f, s) = f[c] + SumOf(f, s \ {c})
        /\ SumOf(e, s) = e[c] + SumOf(e, s \ {c})
    BY <2>1, SumRemove
  <2>3. SumOf(f, s \ {c}) \in Int /\ SumOf(e, s \ {c}) \in Int
    BY <2>1, SumInt
  <2> QED BY <1>2, <2>2, <2>3
<1> HIDE DEF T
<1>3. S \in T
  BY <1>1, <1>2, PartInduction
<1> QED BY <1>3 DEF T

\* A sum of zeros.
LEMMA SumZero ==
  ASSUME NEW S, IsFiniteSet(S), NEW f, \A x \in S : f[x] = 0
  PROVE  SumOf(f, S) = 0
<1>1. SumOf(f, S) = SumOf(f, {})
  BY SumWhere
<1> QED BY <1>1, SumEmpty

\* A table is summed by rows or by columns.
LEMMA SumSwap ==
  ASSUME NEW R, IsFiniteSet(R), NEW C, IsFiniteSet(C), NEW A,
         \A r \in R : \A c \in C : A[r][c] \in Int
  PROVE  SumOf([c \in C |-> SumOf([r \in R |-> A[r][c]], R)], C)
           = SumOf([r \in R |-> SumOf(A[r], C)], R)
<1> DEFINE col == [c \in C |-> SumOf([r \in R |-> A[r][c]], R)]
           T == {s \in SUBSET C : SumOf(col, s) = SumOf([r \in R |-> SumOf(A[r], s)], R)}
<1>1. {} \in T
  <2>1. \A r \in R : [x \in R |-> SumOf(A[x], {})][r] = 0
    BY SumEmpty
  <2>2. SumOf([r \in R |-> SumOf(A[r], {})], R) = 0
    BY <2>1, SumZero
  <2> QED BY <2>2, SumEmpty
<1>2. ASSUME NEW s \in SUBSET C, NEW c \in s, s \ {c} \in T PROVE s \in T
  <2>1. IsFiniteSet(s) /\ IsFiniteSet(s \ {c})
    BY FS_Subset
  <2>2. \A d \in C : col[d] \in Int
    <3>1. ASSUME NEW d \in C PROVE SumOf([r \in R |-> A[r][d]], R) \in Int
      BY SumInt
    <3> QED BY <3>1
  <2>3. SumOf(col, s) = col[c] + SumOf(col, s \ {c})
    BY <2>1, <2>2, SumRemove
  <2> DEFINE f == [r \in R |-> A[r][c]]
             e == [r \in R |-> SumOf(A[r], s \ {c})]
             g == [r \in R |-> SumOf(A[r], s)]
  <2>4. ASSUME NEW r \in R PROVE f[r] \in Int /\ e[r] \in Int /\ g[r] = f[r] + e[r]
    <3>1. SumOf(A[r], s) = A[r][c] + SumOf(A[r], s \ {c})
      BY <2>1, SumRemove
    <3>2. SumOf(A[r], s \ {c}) \in Int
      BY <2>1, SumInt
    <3> QED BY <3>1, <3>2
  <2> HIDE DEF f, e, g
  <2>5. SumOf(g, R) = SumOf(f, R) + SumOf(e, R)
    BY <2>4, SumPlus
  <2> QED BY <1>2, <2>3, <2>5 DEF f, e, g
<1> HIDE DEF T
<1>3. C \in T
  BY <1>1, <1>2, PartInduction
<1> QED BY <1>3 DEF T
=============================================================================
