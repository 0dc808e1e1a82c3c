--------------------------- MODULE ReportsProofs ----------------------------
(***************************************************************************)
(* Theorems about Reports, for every household, every amount and date, and *)
(* every state the tables can reach.  What a fold computes is proved by    *)
(* induction over finite sets, in the form the provers can use: a set that *)
(* contains T whenever it contains every T \ {x} contains all finite sets. *)
(***************************************************************************)
EXTENDS Reports, BooksProofs, FiniteSetTheorems, WellFoundedInduction

-----------------------------------------------------------------------------
\* Sums over finite sets.

LEMMA SetInduction ==
  ASSUME NEW S, IsFiniteSet(S), NEW H,
         \A T \in SUBSET S : (\A x \in T : T \ {x} \in H) => T \in H
  PROVE  \A T \in SUBSET S : T \in H
<1> SUFFICES ASSUME NEW T0 \in SUBSET S, T0 \notin H PROVE FALSE
  OBVIOUS
<1> DEFINE Bad == {T \in SUBSET S : T \notin H}
           R == StrictSubsetOrdering(S)
<1>1. Bad \subseteq FiniteSubsetsOf(S) /\ Bad # {}
  BY FS_Subset DEF FiniteSubsetsOf
<1>2. IsWellFoundedOn(R, FiniteSubsetsOf(S))
  BY ONLY FS_StrictSubsetOrderingWellFounded
<1>3. PICK T \in Bad : \A U \in Bad : <<U, T>> \notin R
  <2> HIDE DEF Bad, R
  <2> QED BY ONLY <1>1, <1>2, WFMin
<1>4. ASSUME NEW x \in T PROVE T \ {x} \in H
  <2>1. T \ {x} \in SUBSET S /\ T \ {x} # T
    OBVIOUS
  <2>2. <<T \ {x}, T>> \in R
    BY <2>1 DEF StrictSubsetOrdering
  <2>3. QED
    BY <1>3, <2>1, <2>2
<1>5. QED
  BY <1>4

\* The recursion behind a sum, as an equation for a function on subsets.
Pick(s) == CHOOSE x \in s : TRUE
Step(f, g, s) == IF s = {} THEN 0 ELSE f[Pick(s)] + g[s \ {Pick(s)}]
Adds(f, S, g) == g = [s \in SUBSET S |-> Step(f, g, s)]
Sum(f, S) == SumFunctionOnSet(f, S)

LEMMA PickIn == ASSUME NEW s, s # {} PROVE Pick(s) \in s
BY DEF Pick

LEMMA SumIs == ASSUME NEW f, NEW S PROVE Sum(f, S) = (CHOOSE g : Adds(f, S, g))[S]
BY Zenon DEF Sum, SumFunctionOnSet, FoldFunctionOnSet, MapThenFoldSet, Adds, Step, Pick

LEMMA AddsAt ==
  ASSUME NEW f, NEW S, NEW g, Adds(f, S, g), NEW s \in SUBSET S
  PROVE  g[s] = Step(f, g, s)
BY DEF Adds

\* Two solutions agree wherever both are defined.
LEMMA AddsUnique ==
  ASSUME NEW f, NEW S, NEW T, IsFiniteSet(S), NEW g, Adds(f, S, g), NEW h, Adds(f, T, h)
  PROVE  \A s \in SUBSET S : s \in SUBSET T => g[s] = h[s]
<1> DEFINE H == {s \in SUBSET S : s \in SUBSET T => g[s] = h[s]}
<1>1. ASSUME NEW s \in SUBSET S, \A x \in s : s \ {x} \in H PROVE s \in H
  <2> SUFFICES ASSUME s \in SUBSET T PROVE g[s] = h[s]
    OBVIOUS
  <2>1. g[s] = Step(f, g, s) /\ h[s] = Step(f, h, s)
    BY AddsAt
  <2>2. CASE s = {}
    BY <2>1, <2>2 DEF Step
  <2>3. CASE s # {}
    <3>1. g[s \ {Pick(s)}] = h[s \ {Pick(s)}]
      BY <1>1, <2>3, PickIn
    <3>2. QED
      BY <2>1, <2>3, <3>1 DEF Step
  <2>4. QED
    BY <2>2, <2>3
<1>2. \A s \in SUBSET S : s \in H
  <2> HIDE DEF H
  <2> QED BY <1>1, SetInduction
<1>3. QED
  BY <1>2

\* A solution for a set gives the sums of all its subsets.
LEMMA AddsGives ==
  ASSUME NEW f, NEW S, IsFiniteSet(S), NEW g, Adds(f, S, g), NEW T \in SUBSET S
  PROVE  Sum(f, T) = g[T]
<1> DEFINE r == [s \in SUBSET T |-> g[s]]
<1>1. Adds(f, T, r)
  <2>1. ASSUME NEW s \in SUBSET T PROVE r[s] = Step(f, r, s)
    <3>1. r[s] = Step(f, g, s) /\ s \ {Pick(s)} \in SUBSET T
      BY AddsAt
    <3>2. r[s \ {Pick(s)}] = g[s \ {Pick(s)}]
      BY <3>1
    <3>3. QED
      BY <3>1, <3>2 DEF Step
  <2>2. QED
    BY <2>1 DEF Adds
<1> DEFINE h == CHOOSE k : Adds(f, T, k)
<1>2. Adds(f, T, h)
  BY ONLY <1>1
<1>3. Sum(f, T) = h[T]
  BY SumIs
<1>4. h[T] = g[T]
  <2> HIDE DEF h
  <2>1. IsFiniteSet(T) /\ T \in SUBSET T
    BY FS_Subset
  <2> QED BY <1>2, <2>1, AddsUnique
<1>5. QED
  BY <1>3, <1>4

LEMMA AddsExists ==
  ASSUME NEW f, NEW S, IsFiniteSet(S)
  PROVE  \E g : Adds(f, S, g)
<1> DEFINE H == {T \in SUBSET S : \E g : Adds(f, T, g)}
           V(s) == IF s = {} THEN 0 ELSE f[Pick(s)] + Sum(f, s \ {Pick(s)})
<1>1. ASSUME NEW T \in SUBSET S, \A x \in T : T \ {x} \in H PROVE T \in H
  <2> DEFINE g == [s \in SUBSET T |-> V(s)]
  <2>1. ASSUME NEW s \in SUBSET T PROVE V(s) = Step(f, g, s)
    <3>1. CASE s = {}
      BY <3>1 DEF Step
    <3>2. CASE s # {}
      <4> DEFINE c == Pick(s)
                 u == s \ {c}
      <4>1. c \in T /\ u \in SUBSET (T \ {c}) /\ u \in SUBSET T
        BY <3>2, PickIn
      <4>2. PICK h : Adds(f, T \ {c}, h)
        BY <1>1, <4>1
      <4>3. Sum(f, u) = h[u] /\ h[u] = Step(f, h, u)
        BY <4>1, <4>2, AddsGives, AddsAt, FS_Subset
      <4>4. Sum(f, u) = V(u)
        <5>1. CASE u = {}
          BY <4>3, <5>1 DEF Step
        <5>2. CASE u # {}
          <6>1. u \ {Pick(u)} \in SUBSET (T \ {c})
            BY <4>1
          <6>2. Sum(f, u \ {Pick(u)}) = h[u \ {Pick(u)}]
            BY <4>2, <6>1, AddsGives, FS_Subset
          <6>3. QED
            BY <4>3, <5>2, <6>2 DEF Step
        <5>3. QED
          BY <5>1, <5>2
      <4>5. g[u] = Sum(f, u)
        BY <4>1, <4>4
      <4>6. QED
        BY <3>2, <4>5 DEF Step
    <3>3. QED
      BY <3>1, <3>2
  <2>2. Adds(f, T, g)
    BY <2>1 DEF Adds
  <2>3. QED
    BY <2>2
<1>2. \A T \in SUBSET S : T \in H
  <2> HIDE DEF H
  <2> QED BY <1>1, SetInduction
<1>3. QED
  BY <1>2

\* The sum, one element at a time.
LEMMA SumEmpty == ASSUME NEW f PROVE Sum(f, {}) = 0
<1>1. PICK g : Adds(f, {}, g)
  BY AddsExists, FS_EmptySet
<1>2. QED
  BY <1>1, AddsAt, AddsGives, FS_EmptySet DEF Step

LEMMA SumPick ==
  ASSUME NEW f, NEW S, IsFiniteSet(S), S # {}
  PROVE  Sum(f, S) = f[Pick(S)] + Sum(f, S \ {Pick(S)})
<1>1. PICK g : Adds(f, S, g)
  BY AddsExists
<1>2. Sum(f, S) = g[S] /\ Sum(f, S \ {Pick(S)}) = g[S \ {Pick(S)}]
  BY <1>1, AddsGives
<1>3. g[S] = Step(f, g, S)
  BY <1>1, AddsAt
<1>4. QED
  BY <1>2, <1>3 DEF Step

\* Facts about sums; amounts are integers.
LEMMA SumInt ==
  ASSUME NEW f, NEW S, IsFiniteSet(S), \A x \in S : f[x] \in Int
  PROVE  Sum(f, S) \in Int
<1> DEFINE H == {T \in SUBSET S : Sum(f, T) \in Int}
<1>1. ASSUME NEW T \in SUBSET S, \A x \in T : T \ {x} \in H PROVE T \in H
  <2>1. CASE T = {}
    BY <2>1, SumEmpty
  <2>2. CASE T # {}
    <3>1. IsFiniteSet(T) /\ Pick(T) \in T
      BY <2>2, PickIn, FS_Subset
    <3>2. Sum(f, T) = f[Pick(T)] + Sum(f, T \ {Pick(T)})
      BY <2>2, <3>1, SumPick
    <3>3. QED
      BY <1>1, <3>1, <3>2
  <2>3. QED
    BY <2>1, <2>2
<1>2. \A T \in SUBSET S : T \in H
  <2> HIDE DEF H
  <2> QED BY <1>1, SetInduction
<1>3. QED
  BY <1>2

\* Whichever element is taken out first.
LEMMA SumTake ==
  ASSUME NEW f, NEW S, IsFiniteSet(S), \A x \in S : f[x] \in Int
  PROVE  \A x \in S : Sum(f, S) = f[x] + Sum(f, S \ {x})
<1> DEFINE H == {T \in SUBSET S : \A x \in T : Sum(f, T) = f[x] + Sum(f, T \ {x})}
<1>1. ASSUME NEW T \in SUBSET S, \A x \in T : T \ {x} \in H PROVE T \in H
  <2> SUFFICES ASSUME NEW x \in T PROVE Sum(f, T) = f[x] + Sum(f, T \ {x})
    OBVIOUS
  <2> DEFINE c == Pick(T)
             Rest == T \ {x, c}
  <2>1. IsFiniteSet(T) /\ c \in T
    BY PickIn, FS_Subset
  <2>2. Sum(f, T) = f[c] + Sum(f, T \ {c})
    BY <2>1, SumPick
  <2>3. CASE x = c
    BY <2>2, <2>3
  <2>4. CASE x # c
    <3>1. T \ {c} \in H /\ T \ {x} \in H /\ x \in T \ {c} /\ c \in T \ {x}
      BY <1>1, <2>1, <2>4
    <3>2. (T \ {c}) \ {x} = Rest /\ (T \ {x}) \ {c} = Rest
      OBVIOUS
    <3>3. Sum(f, T \ {c}) = f[x] + Sum(f, Rest) /\ Sum(f, T \ {x}) = f[c] + Sum(f, Rest)
      BY <3>1, <3>2
    <3>4. Sum(f, Rest) \in Int /\ f[x] \in Int /\ f[c] \in Int
      <4>1. IsFiniteSet(Rest) /\ \A y \in Rest : f[y] \in Int
        BY <2>1, FS_Subset
      <4>2. QED
        BY <2>1, <4>1, SumInt
    <3>5. QED
      BY <2>2, <3>3, <3>4
  <2>5. QED
    BY <2>3, <2>4
<1>2. \A T \in SUBSET S : T \in H
  <2> HIDE DEF H
  <2> QED BY <1>1, SetInduction
<1>3. QED
  BY <1>2

LEMMA SumAdd ==
  ASSUME NEW f, NEW S, NEW x, x \notin S, IsFiniteSet(S), \A y \in S \cup {x} : f[y] \in Int
  PROVE  Sum(f, S \cup {x}) = f[x] + Sum(f, S)
<1>1. IsFiniteSet(S \cup {x}) /\ (S \cup {x}) \ {x} = S
  BY FS_AddElement
<1>2. QED
  BY <1>1, SumTake

\* A one-to-one renaming of the elements keeps the sum.
LEMMA SumRename ==
  ASSUME NEW f, NEW S, IsFiniteSet(S), \A x \in S : f[x] \in Int,
         NEW g, NEW b, \A x \in S : g[b[x]] = f[x],
         \A x, y \in S : b[x] = b[y] => x = y
  PROVE  Sum(g, {b[x] : x \in S}) = Sum(f, S)
<1> DEFINE I(T) == {b[x] : x \in T}
           H == {T \in SUBSET S : IsFiniteSet(I(T)) /\ Sum(g, I(T)) = Sum(f, T)}
<1>1. ASSUME NEW T \in SUBSET S, \A x \in T : T \ {x} \in H PROVE T \in H
  <2>1. CASE T = {}
    <3>1. I(T) = {}
      BY <2>1
    <3>2. QED
      BY <2>1, <3>1, SumEmpty, FS_EmptySet
  <2>2. CASE T # {}
    <3> DEFINE c == Pick(T)
               U == T \ {c}
    <3>1. c \in T /\ IsFiniteSet(T) /\ U \in H
      BY <1>1, <2>2, PickIn, FS_Subset
    <3>2. I(T) = I(U) \cup {b[c]} /\ b[c] \notin I(U)
      BY <3>1
    <3>3. \A y \in I(U) \cup {b[c]} : g[y] \in Int
      BY <3>1
    <3>4. Sum(g, I(T)) = g[b[c]] + Sum(g, I(U)) /\ IsFiniteSet(I(T))
      <4> DEFINE A == I(U)
                 y == b[c]
      <4>1. IsFiniteSet(A) /\ I(T) = A \cup {y} /\ y \notin A
        BY <3>1, <3>2
      <4>2. \A z \in A \cup {y} : g[z] \in Int
        BY <3>3
      <4> HIDE DEF A, y
      <4>3. Sum(g, A \cup {y}) = g[y] + Sum(g, A) /\ IsFiniteSet(A \cup {y})
        BY ONLY <4>1, <4>2, SumAdd, FS_AddElement
      <4>4. QED
        BY <4>1, <4>3 DEF A, y
    <3>5. Sum(f, T) = f[c] + Sum(f, U)
      BY <2>2, <3>1, SumPick
    <3>6. QED
      BY <3>1, <3>4, <3>5
  <2>3. QED
    BY <2>1, <2>2
<1>2. \A T \in SUBSET S : T \in H
  <2> HIDE DEF H
  <2> QED BY <1>1, SetInduction
<1>3. QED
  BY <1>2

\* Equal amounts sum up to the same.
LEMMA SumSame ==
  ASSUME NEW f, NEW g, NEW S, IsFiniteSet(S), \A x \in S : f[x] \in Int /\ g[x] = f[x]
  PROVE  Sum(g, S) = Sum(f, S)
<1> DEFINE b == [x \in S |-> x]
<1>1. {b[x] : x \in S} = S
  OBVIOUS
<1>2. (\A x \in S : g[b[x]] = f[x]) /\ \A x, y \in S : b[x] = b[y] => x = y
  OBVIOUS
<1>3. Sum(g, {b[x] : x \in S}) = Sum(f, S)
  <2> HIDE DEF b
  <2> QED BY <1>2, SumRename
<1>4. QED
  BY <1>1, <1>3

LEMMA SumUnion ==
  ASSUME NEW f, NEW A, NEW B, IsFiniteSet(A), IsFiniteSet(B), A \cap B = {},
         \A x \in A \cup B : f[x] \in Int
  PROVE  Sum(f, A \cup B) = Sum(f, A) + Sum(f, B)
<1> DEFINE H == {T \in SUBSET A : Sum(f, T \cup B) = Sum(f, T) + Sum(f, B)}
<1>1. ASSUME NEW T \in SUBSET A, \A x \in T : T \ {x} \in H PROVE T \in H
  <2>0. Sum(f, B) \in Int
    BY SumInt
  <2>1. CASE T = {}
    <3>1. Sum(f, T) = 0 /\ T \cup B = B
      BY <2>1, SumEmpty
    <3>2. Sum(f, T \cup B) = Sum(f, T) + Sum(f, B)
      <4> DEFINE D == T \cup B
      <4>1. D = B
        BY <3>1
      <4> HIDE DEF D
      <4>2. Sum(f, D) = Sum(f, T) + Sum(f, B)
        BY ONLY <2>0, <3>1, <4>1
      <4>3. QED
        BY ONLY <4>2 DEF D
    <3>3. QED
      BY ONLY <3>2, T \in SUBSET A
  <2>2. CASE T # {}
    <3> DEFINE c == Pick(T)
               U == T \ {c}
    <3>1. c \in T /\ IsFiniteSet(T) /\ U \in H
      BY <1>1, <2>2, PickIn, FS_Subset
    <3>2. IsFiniteSet(T \cup B) /\ c \in T \cup B /\ (T \cup B) \ {c} = U \cup B
      BY <3>1, FS_Union
    <3>3. Sum(f, T \cup B) = f[c] + Sum(f, U \cup B)
      <4> DEFINE D == T \cup B
      <4>1. \A x \in D : f[x] \in Int
        OBVIOUS
      <4>2. Sum(f, D) = f[c] + Sum(f, D \ {c})
        <5>1. IsFiniteSet(D) /\ c \in D
          BY <3>2
        <5> HIDE DEF D, c
        <5>2. QED
          BY ONLY <4>1, <5>1, SumTake
      <4>3. QED
        BY <3>2, <4>2
    <3>4. Sum(f, T) = f[c] + Sum(f, U)
      BY <2>2, <3>1, SumPick
    <3>5. Sum(f, U) \in Int /\ f[c] \in Int
      <4>1. IsFiniteSet(U) /\ \A x \in U : f[x] \in Int
        BY <3>1, FS_Subset
      <4>2. QED
        BY <3>1, <4>1, SumInt
    <3>6. QED
      BY <2>0, <3>1, <3>3, <3>4, <3>5
  <2>3. QED
    BY <2>1, <2>2
<1>2. \A T \in SUBSET A : T \in H
  <2> HIDE DEF H
  <2> QED BY <1>1, SetInduction
<1>3. QED
  BY <1>2

\* What is summed up part by part is counted once when the parts are disjoint.
LEMMA SumParts ==
  ASSUME NEW f, NEW K, IsFiniteSet(K), NEW P,
         \A k \in K : IsFiniteSet(P[k]) /\ \A x \in P[k] : f[x] \in Int,
         \A j, k \in K : j # k => P[j] \cap P[k] = {},
         NEW h, \A k \in K : h[k] = Sum(f, P[k])
  PROVE  Sum(h, K) = Sum(f, UNION {P[k] : k \in K})
<1> DEFINE I(T) == UNION {P[k] : k \in T}
           H == {T \in SUBSET K : IsFiniteSet(I(T)) /\ Sum(h, T) = Sum(f, I(T))}
<1>1. ASSUME NEW T \in SUBSET K, \A k \in T : T \ {k} \in H PROVE T \in H
  <2>1. CASE T = {}
    <3>1. I(T) = {}
      BY <2>1
    <3>2. QED
      BY <2>1, <3>1, SumEmpty, FS_EmptySet
  <2>2. CASE T # {}
    <3> DEFINE c == Pick(T)
               U == T \ {c}
               A == P[c]
               B == I(U)
    <3>1. c \in T /\ IsFiniteSet(T) /\ U \in H
      BY <1>1, <2>2, PickIn, FS_Subset
    <3>2. I(T) = A \cup B /\ A \cap B = {}
      BY <3>1
    <3>3. IsFiniteSet(A) /\ IsFiniteSet(B) /\ \A x \in A \cup B : f[x] \in Int
      BY <3>1
    <3>4. Sum(f, A \cup B) = Sum(f, A) + Sum(f, B) /\ IsFiniteSet(A \cup B)
      <4> HIDE DEF A, B
      <4> QED BY ONLY <3>2, <3>3, SumUnion, FS_Union
    <3>5. Sum(h, T) = h[c] + Sum(h, U)
      BY <2>2, <3>1, SumPick
    <3>6. QED
      BY <3>1, <3>2, <3>4, <3>5
  <2>3. QED
    BY <2>1, <2>2
<1>2. \A T \in SUBSET K : T \in H
  <2> HIDE DEF H
  <2> QED BY <1>1, SetInduction
<1>3. QED
  BY <1>2

LEMMA SumSign ==
  ASSUME NEW f, NEW S, IsFiniteSet(S), \A x \in S : f[x] \in Int
  PROVE  /\ (\A x \in S : f[x] >= 0) => Sum(f, S) >= 0
         /\ (\A x \in S : f[x] = 0) => Sum(f, S) = 0
<1> DEFINE H == {T \in SUBSET S : /\ Sum(f, T) \in Int
                                  /\ (\A x \in S : f[x] >= 0) => Sum(f, T) >= 0
                                  /\ (\A x \in S : f[x] = 0) => Sum(f, T) = 0}
<1>1. ASSUME NEW T \in SUBSET S, \A x \in T : T \ {x} \in H PROVE T \in H
  <2>1. CASE T = {}
    BY <2>1, SumEmpty
  <2>2. CASE T # {}
    <3>1. IsFiniteSet(T) /\ Pick(T) \in T
      BY <2>2, PickIn, FS_Subset
    <3>2. Sum(f, T) = f[Pick(T)] + Sum(f, T \ {Pick(T)})
      BY <2>2, <3>1, SumPick
    <3>3. QED
      BY <1>1, <3>1, <3>2
  <2>3. QED
    BY <2>1, <2>2
<1>2. \A T \in SUBSET S : T \in H
  <2> HIDE DEF H
  <2> QED BY <1>1, SetInduction
<1>3. QED
  BY <1>2

\* Parts that sum up to nothing may be left out.
LEMMA SumDrop ==
  ASSUME NEW f, NEW S, IsFiniteSet(S), \A x \in S : f[x] \in Int,
         NEW T \in SUBSET S, \A x \in S \ T : f[x] = 0
  PROVE  Sum(f, S) = Sum(f, T)
<1> DEFINE Z == S \ T
<1>1. IsFiniteSet(T) /\ IsFiniteSet(Z) /\ T \cap Z = {} /\ S = T \cup Z
  BY FS_Subset
<1>2. (\A x \in T \cup Z : f[x] \in Int) /\ \A x \in Z : f[x] = 0
  OBVIOUS
<1> HIDE DEF Z
<1>3. Sum(f, Z) = 0
  BY ONLY <1>1, <1>2, SumSign
<1>4. Sum(f, T) \in Int
  BY ONLY <1>1, <1>2, SumInt
<1>5. Sum(f, T \cup Z) = Sum(f, T) + Sum(f, Z)
  BY ONLY <1>1, <1>2, SumUnion
<1>6. QED
  BY ONLY <1>1, <1>3, <1>4, <1>5
-----------------------------------------------------------------------------
\* What the tables agree on, where the queries need it.

\* The owner of an operation's category is the account of the operation, and
\* that of a linked category the member who linked it.
LEMMA OneOwner ==
  ASSUME Consistent
  PROVE  /\ \A o \in Operation : operation[o] # None =>
               /\ operation[o].user \in User /\ operation[o].cat \in Category
               /\ operation[o].type \in Type
               /\ category[operation[o].cat] # None
               /\ category[operation[o].cat].user = operation[o].user
         /\ \A k \in GroupCategory, u \in User : link[<<k, u>>] # None =>
               /\ link[<<k, u>>] \in Category
               /\ category[link[<<k, u>>]].user = u
BY DEF Consistent, TypeOK, RowsAgree, LinksAgree, OperationsAgree, Owns, OperationRow

LEMMA SharedIs ==
  ASSUME Consistent, NEW g \in Group, NEW k \in Shared(g, None)
  PROVE  /\ k \in GroupCategory /\ k # None /\ gcat[k].type \in Type /\ gcat[k].type # None
         /\ k \in Shared(g, gcat[k].type)
BY FilterAssumption DEF Consistent, TypeOK, Shared, SharedRow

LEMMA AmountsAreInt == \A o \in Operation : Amount[o] \in Int
BY AmountAssumption

\* The rows of a statistic are those with a sum above zero.
JoinSum(k, from, to) ==
    Sum([p \in Joined(k, from, to) |-> Amount[p[1]]], Joined(k, from, to))

LEMMA GroupRows ==
  ASSUME NEW g, NEW t, NEW from, NEW to
  PROVE  LET rows == GroupStat(g, t, from, to).rows
         IN  /\ DOMAIN rows = {k \in Shared(g, t) : JoinSum(k, from, to) > 0}
             /\ \A k \in DOMAIN rows : rows[k].sum = JoinSum(k, from, to)
<1> DEFINE joins(k) == [p \in Joined(k, from, to) |-> Amount[p[1]]]
           sums == [k \in Shared(g, t) |-> SumFunction(joins(k))]
           R == Restrict(sums, {k \in Shared(g, t) : sums[k] > 0})
<1>1. \A k : SumFunction(joins(k)) = JoinSum(k, from, to)
  <2> TAKE k
  <2>1. DOMAIN joins(k) = Joined(k, from, to)
    OBVIOUS
  <2>2. SumFunction(joins(k)) = SumFunctionOnSet(joins(k), DOMAIN joins(k))
    BY DEF SumFunction
  <2>3. QED
    BY <2>1, <2>2 DEF JoinSum, Sum
<1>2. GroupStat(g, t, from, to) = Statistic(R)
  BY DEF GroupStat
<1>3. sums = [k \in Shared(g, t) |-> JoinSum(k, from, to)]
  BY <1>1
<1>4. R = [k \in {j \in Shared(g, t) : JoinSum(j, from, to) > 0} |-> JoinSum(k, from, to)]
  <2> HIDE DEF joins, sums
  <2> QED BY <1>3 DEF Restrict, sums
<1> HIDE DEF R
<1>5. QED
  BY <1>2, <1>4 DEF Statistic

\* Every operation of a group category's list is joined exactly once.
LEMMA JoinedOnce ==
  ASSUME Consistent, NEW g \in Group, NEW from, NEW to, NEW k \in Shared(g, None)
  PROVE  LET L == GroupOperations(g, gcat[k].type, from, to, k)
         IN  JoinSum(k, from, to) = Total(L) /\ Total(L) \in Int
<1> DEFINE L == GroupOperations(g, gcat[k].type, from, to, k)
           J == Joined(k, from, to)
           f == [p \in J |-> Amount[p[1]]]
           b == [p \in J |-> p[1]]
<1>k. /\ k \in GroupCategory /\ k # None /\ gcat[k].type # None
  BY SharedIs
<1>1. /\ J \subseteq Operation \X User
      /\ \A p \in J : /\ operation[p[1]] # None /\ p[1] \in Within(from, to)
                      /\ link[<<k, p[2]>>] = operation[p[1]].cat
                      /\ operation[p[1]].type = gcat[k].type
  BY DEF Joined, Within
<1>2. \A p, q \in J : b[p] = b[q] => p = q
  <2> SUFFICES ASSUME NEW p \in J, NEW q \in J, p[1] = q[1] PROVE p[2] = q[2]
    BY <1>1
  <2>1. operation[p[1]].cat \in Category /\ operation[p[1]].cat # None
    BY <1>1, OneOwner, RowsAreNotNone
  <2>2. link[<<k, p[2]>>] = link[<<k, q[2]>>] /\ link[<<k, p[2]>>] # None
    BY <1>1, <2>1
  <2>3. QED
    BY <1>1, <1>k, <2>2, OneOwner
<1>3. {b[p] : p \in J} = L
  <2>1. ASSUME NEW p \in J PROVE p[1] \in L
    <3>1. operation[p[1]].cat \in Category /\ operation[p[1]].cat # None
      BY <1>1, OneOwner, RowsAreNotNone
    <3>2. operation[p[1]].cat \in LinkedTo({k})
      BY <1>1, <3>1 DEF LinkedTo
    <3>3. operation[p[1]].cat \in LinkedTo(Shared(g, None))
      BY <1>1, <3>1 DEF LinkedTo
    <3>4. QED
      BY <1>1, <3>2, <3>3 DEF GroupOperations, OfType
  <2>2. ASSUME NEW o \in L PROVE \E p \in J : p[1] = o
    <3>1. /\ o \in Within(from, to) /\ operation[o].type = gcat[k].type
          /\ operation[o].cat \in LinkedTo({k})
      BY <1>k DEF GroupOperations, OfType
    <3>2. PICK u \in User : link[<<k, u>>] = operation[o].cat
      BY <3>1 DEF LinkedTo
    <3>3. <<o, u>> \in J
      BY <3>1, <3>2 DEF Joined
    <3>4. QED
      BY <3>3
  <2>3. QED
    BY <2>1, <2>2
<1>4. IsFiniteSet(J)
  BY <1>1, FiniteAssumption, FS_Product, FS_Subset
<1>5. \A p \in J : f[p] \in Int /\ Amount[b[p]] = f[p]
  BY <1>1, AmountsAreInt
<1>6. Sum(Amount, {b[p] : p \in J}) = Sum(f, J) /\ Sum(f, J) \in Int
  <2> HIDE DEF J, b, f
  <2> QED BY ONLY <1>2, <1>4, <1>5, SumRename, SumInt
<1>7. QED
  BY <1>3, <1>6 DEF JoinSum, Total, Sum

\* The statistic of a group shows the sum of each of its lists above zero.
LEMMA StatMatchesListHolds == Consistent => StatMatchesList
<1> SUFFICES ASSUME Consistent, NEW g \in Group, NEW from \in Date, NEW to \in Date,
                    NEW k \in Shared(g, None)
             PROVE  LET t == gcat[k].type
                        rows == GroupStat(g, t, from, to).rows
                        listed == Total(GroupOperations(g, t, from, to, k))
                    IN  IF k \in DOMAIN rows THEN rows[k].sum = listed ELSE listed <= 0
  BY DEF StatMatchesList
<1> DEFINE t == gcat[k].type
           rows == GroupStat(g, t, from, to).rows
           listed == Total(GroupOperations(g, t, from, to, k))
<1>1. k \in Shared(g, t)
  BY SharedIs
<1>2. JoinSum(k, from, to) = listed /\ listed \in Int
  BY JoinedOnce
<1>3. /\ k \in DOMAIN rows <=> JoinSum(k, from, to) > 0
      /\ k \in DOMAIN rows => rows[k].sum = JoinSum(k, from, to)
  BY <1>1, GroupRows
<1> HIDE DEF rows, listed
<1>4. IF k \in DOMAIN rows THEN rows[k].sum = listed ELSE listed <= 0
  BY <1>2, <1>3
<1>5. QED
  BY <1>4 DEF rows, listed

\* The lists of a group's members are parts of the group's list.
LEMMA GroupSumsHold == Consistent => GroupSumsItsMembers
<1> SUFFICES ASSUME Consistent, NEW g \in Group, NEW from \in Date, NEW to \in Date,
                    NEW k \in Shared(g, None)
             PROVE  LET linked == {u \in User : link[<<k, u>>] # None}
                        own == [u \in linked |->
                          Total(OwnOperations(u, gcat[k].type, from, to, link[<<k, u>>]))]
                        rows == GroupStat(g, None, from, to).rows
                    IN  k \in DOMAIN rows => rows[k].sum = SumFunction(own)
  BY DEF GroupSumsItsMembers
<1> DEFINE t == gcat[k].type
           linked == {u \in User : link[<<k, u>>] # None}
           P == [u \in linked |-> OwnOperations(u, t, from, to, link[<<k, u>>])]
           own == [u \in linked |-> Total(OwnOperations(u, t, from, to, link[<<k, u>>]))]
           rows == GroupStat(g, None, from, to).rows
           L == GroupOperations(g, t, from, to, k)
<1>k. /\ k \in GroupCategory /\ k # None /\ t # None
  BY SharedIs
<1>1. \A u \in linked : \A o \in P[u] :
          /\ o \in OfType(t) \cap Within(from, to) /\ o \in Operation
          /\ operation[o].user = u /\ operation[o].cat = link[<<k, u>>]
  BY DEF OwnOperations, OfType
<1>2. UNION {P[u] : u \in linked} = L
  <2>1. ASSUME NEW u \in linked, NEW o \in P[u] PROVE o \in L
    BY <1>1, <1>k DEF GroupOperations, LinkedTo
  <2>2. ASSUME NEW o \in L PROVE \E u \in linked : o \in P[u]
    <3>1. /\ o \in OfType(t) \cap Within(from, to) /\ o \in Operation /\ operation[o] # None
          /\ operation[o].cat \in LinkedTo({k})
      BY <1>k DEF GroupOperations, OfType
    <3>2. PICK u \in User : link[<<k, u>>] = operation[o].cat
      BY <3>1 DEF LinkedTo
    <3>3. link[<<k, u>>] # None
      BY <3>1, <3>2 DEF LinkedTo
    <3>4. operation[o].user = u
      BY <1>k, <3>1, <3>2, <3>3, OneOwner
    <3>5. QED
      BY <3>1, <3>2, <3>3, <3>4 DEF OwnOperations
  <2>3. QED
    BY <2>1, <2>2
<1>3. IsFiniteSet(linked) /\ \A u \in linked : IsFiniteSet(P[u])
  <2>1. linked \in SUBSET User /\ \A u \in linked : P[u] \in SUBSET Operation
    BY <1>1
  <2>2. QED
    BY <2>1, FiniteAssumption, FS_Subset
<1>4. \A u \in linked : IsFiniteSet(P[u]) /\ \A o \in P[u] : Amount[o] \in Int
  BY <1>1, <1>3, AmountsAreInt
<1>5. \A u, v \in linked : u # v => P[u] \cap P[v] = {}
  BY <1>1
<1>6. \A u \in linked : own[u] = Sum(Amount, P[u])
  BY DEF Total, Sum
<1>7. Sum(own, linked) = Sum(Amount, UNION {P[u] : u \in linked})
  <2> HIDE DEF linked, P, own
  <2> QED BY ONLY <1>3, <1>4, <1>5, <1>6, SumParts
<1>8. SumFunction(own) = Total(L)
  <2>1. DOMAIN own = linked
    OBVIOUS
  <2>2. QED
    BY <1>2, <1>7, <2>1 DEF SumFunction, Sum, Total
<1>9. k \in DOMAIN rows => rows[k].sum = JoinSum(k, from, to)
  BY GroupRows
<1>10. JoinSum(k, from, to) = Total(L)
  BY JoinedOnce
<1>11. QED
  BY <1>8, <1>9, <1>10

\* The personal statistic sums up the positive amounts of one type, category by
\* category.
LEMMA PersonalTotal ==
  ASSUME Consistent, NEW u \in User, NEW t \in Type, NEW from, NEW to
  PROVE  PersonalStat(u, t, from, to).totalSum =
             Total({o \in OwnOperations(u, t, from, to, None) :
                        Amount[o] > 0 /\ category[operation[o].cat].type = t})
<1> DEFINE mine == {c \in Category : Owns(u, c) /\ (t = None \/ category[c].type = t)}
           P == [c \in mine |-> Chosen(c, t, from, to)]
           sums == [c \in mine |-> Total(Chosen(c, t, from, to))]
           shown == {c \in mine : sums[c] > 0}
           R == Restrict(sums, shown)
           G == {o \in OwnOperations(u, t, from, to, None) :
                     Amount[o] > 0 /\ category[operation[o].cat].type = t}
<1>t. t # None
  BY FilterAssumption
<1>1. \A c \in mine : \A o \in P[c] :
          /\ o \in Operation /\ operation[o] # None /\ operation[o].cat = c
          /\ o \in OfType(t) \cap Within(from, to) /\ Amount[o] \in Int /\ Amount[o] > 0
  BY AmountsAreInt DEF Chosen, InCategory, Positive
<1>2. UNION {P[c] : c \in mine} = G
  <2>1. ASSUME NEW c \in mine, NEW o \in P[c] PROVE o \in G
    <3>1. operation[o].user = u
      BY <1>1, OneOwner DEF Owns
    <3>2. QED
      BY <1>1, <1>t, <3>1 DEF OwnOperations
  <2>2. ASSUME NEW o \in G PROVE \E c \in mine : o \in P[c]
    <3>1. /\ o \in Operation /\ operation[o] # None /\ operation[o].user = u /\ Amount[o] > 0
          /\ o \in OfType(t) \cap Within(from, to) /\ category[operation[o].cat].type = t
      BY DEF OwnOperations, OfType
    <3>2. operation[o].cat \in mine
      BY <3>1, OneOwner DEF Owns
    <3>3. o \in P[operation[o].cat]
      BY <3>1, <3>2 DEF Chosen, InCategory, Positive
    <3>4. QED
      BY <3>2, <3>3
  <2>3. QED
    BY <2>1, <2>2
<1>3. IsFiniteSet(mine) /\ \A c \in mine : IsFiniteSet(P[c])
  <2>1. mine \in SUBSET Category /\ \A c \in mine : P[c] \in SUBSET Operation
    BY <1>1
  <2>2. QED
    BY <2>1, FiniteAssumption, FS_Subset
<1>4. \A c \in mine : IsFiniteSet(P[c]) /\ \A o \in P[c] : Amount[o] \in Int
  BY <1>1, <1>3
<1>5. \A c, d \in mine : c # d => P[c] \cap P[d] = {}
  BY <1>1
<1>6. \A c \in mine : sums[c] = Sum(Amount, P[c])
  BY DEF Total, Sum
<1>7. Sum(sums, mine) = Sum(Amount, UNION {P[c] : c \in mine})
  <2> HIDE DEF mine, P, sums
  <2> QED BY ONLY <1>3, <1>4, <1>5, <1>6, SumParts
\* A category that is not shown has a sum of zero.
<1>8. \A c \in mine : sums[c] \in Int /\ sums[c] >= 0
  <2> SUFFICES ASSUME NEW c \in mine PROVE sums[c] \in Int /\ sums[c] >= 0
    OBVIOUS
  <2> DEFINE S == P[c]
  <2>1. IsFiniteSet(S) /\ \A o \in S : Amount[o] \in Int /\ Amount[o] >= 0
    BY <1>1, <1>3
  <2> HIDE DEF S
  <2>2. Sum(Amount, S) \in Int /\ Sum(Amount, S) >= 0
    BY ONLY <2>1, SumInt, SumSign
  <2>3. QED
    BY <1>6, <2>2 DEF S
<1>9. shown \in SUBSET mine /\ \A c \in mine \ shown : sums[c] = 0
  BY <1>8
<1>10. Sum(sums, mine) = Sum(sums, shown)
  <2> HIDE DEF mine, shown, sums
  <2> QED BY ONLY <1>3, <1>8, <1>9, SumDrop
<1>11. IsFiniteSet(shown) /\ \A c \in shown : sums[c] \in Int /\ R[c] = sums[c]
  BY <1>3, <1>8, <1>9, FS_Subset DEF Restrict
<1>12. Sum(R, shown) = Sum(sums, shown)
  <2> HIDE DEF shown, sums, R
  <2> QED BY ONLY <1>11, SumSame
<1>13. SumFunction(R) = Sum(R, shown)
  <2>1. DOMAIN R = shown
    BY DEF Restrict
  <2>2. QED
    BY <2>1 DEF SumFunction, Sum
<1>14. PersonalStat(u, t, from, to).totalSum = SumFunction(R)
  BY DEF PersonalStat, Statistic
<1>15. QED
  BY <1>2, <1>7, <1>10, <1>12, <1>13, <1>14 DEF Total, Sum

LEMMA StatGapHolds == Consistent => StatGap
<1> SUFFICES ASSUME Consistent, NEW u \in User, NEW t \in Type, NEW from \in Date, NEW to \in Date
             PROVE  LET listed == OwnOperations(u, t, from, to, None)
                    IN  Total(listed) = PersonalStat(u, t, from, to).totalSum
                          + Total({o \in listed : \/ Amount[o] <= 0
                                                  \/ category[operation[o].cat].type # t})
  BY DEF StatGap
<1> DEFINE L == OwnOperations(u, t, from, to, None)
           A == {o \in L : Amount[o] > 0 /\ category[operation[o].cat].type = t}
           B == {o \in L : Amount[o] <= 0 \/ category[operation[o].cat].type # t}
<1>1. L \in SUBSET Operation
  BY DEF OwnOperations, OfType
<1>2. IsFiniteSet(A) /\ IsFiniteSet(B)
  <2>1. A \in SUBSET Operation /\ B \in SUBSET Operation
    BY <1>1
  <2>2. QED
    BY <2>1, FiniteAssumption, FS_Subset
<1>3. A \cap B = {} /\ A \cup B = L /\ \A o \in A \cup B : Amount[o] \in Int
  BY <1>1, AmountsAreInt
<1>4. Sum(Amount, A \cup B) = Sum(Amount, A) + Sum(Amount, B)
  <2> HIDE DEF A, B
  <2> QED BY ONLY <1>2, <1>3, SumUnion
<1>5. PersonalStat(u, t, from, to).totalSum = Total(A)
  BY PersonalTotal
<1>6. Total(L) = PersonalStat(u, t, from, to).totalSum + Total(B)
  <2> HIDE DEF A, B, L
  <2> QED BY ONLY <1>3, <1>4, <1>5 DEF Total, Sum
<1>7. QED
  BY <1>6
-----------------------------------------------------------------------------
\* A category is linked to one of the group categories of M for some user.
LEMMA LinkedIs ==
  ASSUME NEW d, NEW M
  PROVE  d \in LinkedTo(M) <=> (d # None /\ \E k \in M, v \in User : link[<<k, v>>] = d)
<1>1. ASSUME d \in LinkedTo(M)
      PROVE  d # None /\ \E k \in M, v \in User : link[<<k, v>>] = d
  BY <1>1 DEF LinkedTo
<1>2. ASSUME d # None, NEW k \in M, NEW v \in User, link[<<k, v>>] = d
      PROVE  d \in LinkedTo(M)
  BY <1>2 DEF LinkedTo
<1>3. QED
  BY <1>1, <1>2
-----------------------------------------------------------------------------
LEMMA SameVisibilityHolds == SameVisibility
<1> SUFFICES ASSUME NEW u \in User, NEW o \in Operation,
                    operation[o] # None
             PROVE  VisibleInGroups(u, o) <=>
                        \E g \in Group : o \in GroupPage(u, g, None, None, None, None)
  BY DEF SameVisibility, Visible
<1>1. \A g \in Group : o \in GroupPage(u, g, None, None, None, None) <=>
          u \in Member[g] /\ operation[o].cat \in LinkedTo(Shared(g, None))
  BY DEF GroupPage, GroupOperations, OfType, Within
<1>2. VisibleInGroups(u, o) <=>
          \E g \in Group : u \in Member[g] /\ operation[o].cat \in LinkedTo(Shared(g, None))
  <2> DEFINE c == operation[o].cat
             K == UNION {Shared(g, None) : g \in GroupsOf(u)}
  <2>1. ASSUME NEW d, NEW M
        PROVE  d \in LinkedTo(M) <=> (d # None /\ \E k \in M, v \in User : link[<<k, v>>] = d)
    BY ONLY LinkedIs
  <2>2. \A k : k \in K <=> \E g \in Group : u \in Member[g] /\ k \in Shared(g, None)
    BY DEF GroupsOf
  <2>3. VisibleInGroups(u, o) <=> c \in LinkedTo(K)
    BY DEF VisibleInGroups
  <2> HIDE DEF K, c
  <2>4. c \in LinkedTo(K) <=> \E g \in Group : u \in Member[g] /\ c \in LinkedTo(Shared(g, None))
    <3>1. ASSUME c \in LinkedTo(K)
          PROVE  \E g \in Group : u \in Member[g] /\ c \in LinkedTo(Shared(g, None))
      <4>1. PICK k \in K, v \in User : link[<<k, v>>] = c
        BY ONLY <3>1, <2>1
      <4>2. PICK g \in Group : u \in Member[g] /\ k \in Shared(g, None)
        BY ONLY <4>1, <2>2
      <4>3. c # None
        BY ONLY <3>1, <2>1
      <4>4. c \in LinkedTo(Shared(g, None))
        BY ONLY <4>1, <4>2, <4>3, <2>1
      <4>5. QED
        BY ONLY <4>2, <4>4
    <3>2. ASSUME NEW g \in Group, u \in Member[g], c \in LinkedTo(Shared(g, None))
          PROVE  c \in LinkedTo(K)
      <4>1. PICK k \in Shared(g, None), v \in User : link[<<k, v>>] = c
        BY ONLY <3>2, <2>1
      <4>2. k \in K
        BY ONLY <4>1, <3>2, <2>2
      <4>3. c # None
        BY ONLY <3>2, <2>1
      <4>4. QED
        BY ONLY <4>1, <4>2, <4>3, <2>1
    <3>3. QED
      BY ONLY <3>1, <3>2
  <2>5. QED
    BY <2>3, <2>4 DEF c
<1>3. QED
  BY <1>1, <1>2
-----------------------------------------------------------------------------
\* The recursion behind ByDate, along the greatest index that is left.
PutIn(days, o) ==
    IF \E i \in DOMAIN days : days[i].date = Day(o)
    THEN [i \in DOMAIN days |-> IF days[i].date = Day(o)
             THEN [days[i] EXCEPT !.operations = Append(@, o)] ELSE days[i]]
    ELSE Append(days, [date |-> Day(o), operations |-> <<o>>])
PutStep(q, g, s) == IF s = {} THEN <<>> ELSE PutIn(g[s \ {Max(s)}], q[Max(s)])
Puts(q, D, g) == g = [s \in SUBSET D |-> PutStep(q, g, s)]
DaysOf(q, D) == (CHOOSE g : Puts(q, D, g))[D]

\* Finite sets of indices.
Indices(D) == IsFiniteSet(D) /\ D \subseteq Nat

LEMMA IndicesDown == ASSUME NEW D, Indices(D), NEW E \in SUBSET D PROVE Indices(E)
BY FS_Subset DEF Indices

LEMMA ByDateIs == ASSUME NEW q PROVE ByDate(q) = DaysOf(q, DOMAIN q)
BY Zenon DEF ByDate, FoldLeft, MapThenFoldSet, Puts, PutStep, PutIn, DaysOf

LEMMA MaxIn ==
  ASSUME NEW D, Indices(D), D # {}
  PROVE  Max(D) \in D
<1> DEFINE H == {T \in SUBSET D : T # {} => \E x \in T : \A y \in T : x >= y}
<1>0. IsFiniteSet(D) /\ D \subseteq Nat
  BY DEF Indices
<1>1. ASSUME NEW T \in SUBSET D, \A x \in T : T \ {x} \in H PROVE T \in H
  <2>0. T \subseteq Nat
    BY <1>0
  <2> SUFFICES ASSUME NEW z \in T PROVE \E x \in T : \A y \in T : x >= y
    OBVIOUS
  <2>1. CASE T \ {z} = {}
    BY <2>0, <2>1
  <2>2. CASE T \ {z} # {}
    <3>1. PICK x \in T \ {z} : \A y \in T \ {z} : x >= y
      BY <1>1, <2>2
    <3>2. CASE x >= z
      BY <2>0, <3>1, <3>2
    <3>3. CASE ~ (x >= z)
      <4>1. \A y \in T : z >= y
        BY <2>0, <3>1, <3>3
      <4>2. QED
        BY <4>1
    <3>4. QED
      BY <3>2, <3>3
  <2>3. QED
    BY <2>1, <2>2
<1>2. \A T \in SUBSET D : T \in H
  <2> HIDE DEF H
  <2> QED BY <1>0, <1>1, SetInduction
<1>3. \E x \in D : \A y \in D : x >= y
  BY <1>2
<1>4. QED
  BY <1>3 DEF Max

LEMMA PutsAt ==
  ASSUME NEW q, NEW D, NEW g, Puts(q, D, g), NEW s \in SUBSET D
  PROVE  g[s] = PutStep(q, g, s)
BY DEF Puts

LEMMA PutsUnique ==
  ASSUME NEW q, NEW D, NEW E, Indices(D),
         NEW g, Puts(q, D, g), NEW h, Puts(q, E, h)
  PROVE  \A s \in SUBSET D : s \in SUBSET E => g[s] = h[s]
<1> DEFINE H == {s \in SUBSET D : s \in SUBSET E => g[s] = h[s]}
<1>0. IsFiniteSet(D)
  BY DEF Indices
<1>1. ASSUME NEW s \in SUBSET D, \A x \in s : s \ {x} \in H PROVE s \in H
  <2> SUFFICES ASSUME s \in SUBSET E PROVE g[s] = h[s]
    OBVIOUS
  <2>1. g[s] = PutStep(q, g, s) /\ h[s] = PutStep(q, h, s)
    BY PutsAt
  <2>2. CASE s = {}
    BY <2>1, <2>2 DEF PutStep
  <2>3. CASE s # {}
    <3>1. Indices(s)
      BY IndicesDown
    <3>2. Max(s) \in s
      BY <2>3, <3>1, MaxIn
    <3>3. g[s \ {Max(s)}] = h[s \ {Max(s)}]
      BY <1>1, <3>2
    <3>4. QED
      BY <2>1, <2>3, <3>3 DEF PutStep
  <2>4. QED
    BY <2>2, <2>3
<1>2. \A s \in SUBSET D : s \in H
  <2> HIDE DEF H
  <2> QED BY <1>0, <1>1, SetInduction
<1>3. QED
  BY <1>2

LEMMA PutsGives ==
  ASSUME NEW q, NEW D, Indices(D), NEW g, Puts(q, D, g), NEW E \in SUBSET D
  PROVE  DaysOf(q, E) = g[E]
<1> DEFINE r == [s \in SUBSET E |-> g[s]]
<1>1. Puts(q, E, r)
  <2>1. ASSUME NEW s \in SUBSET E PROVE r[s] = PutStep(q, r, s)
    <3>0. s \in SUBSET D /\ s \ {Max(s)} \in SUBSET E
      OBVIOUS
    <3>1. r[s] = PutStep(q, g, s)
      BY <3>0, PutsAt
    <3>2. r[s \ {Max(s)}] = g[s \ {Max(s)}]
      BY <3>0
    <3>3. QED
      BY <3>1, <3>2 DEF PutStep
  <2>2. QED
    BY <2>1 DEF Puts
<1> DEFINE h == CHOOSE k : Puts(q, E, k)
<1>2. Puts(q, E, h)
  BY ONLY <1>1
<1>3. DaysOf(q, E) = h[E]
  BY DEF DaysOf
<1>4. h[E] = g[E]
  <2> HIDE DEF h
  <2>1. Indices(E) /\ E \in SUBSET E
    BY IndicesDown
  <2> QED BY ONLY <1>2, <2>1, PutsUnique, Puts(q, D, g), E \in SUBSET D
<1>5. QED
  BY <1>3, <1>4

LEMMA PutsExists ==
  ASSUME NEW q, NEW D, Indices(D)
  PROVE  \E g : Puts(q, D, g)
<1> DEFINE H == {T \in SUBSET D : \E g : Puts(q, T, g)}
           V(s) == IF s = {} THEN <<>> ELSE PutIn(DaysOf(q, s \ {Max(s)}), q[Max(s)])
<1>0. IsFiniteSet(D)
  BY DEF Indices
<1>1. ASSUME NEW T \in SUBSET D, \A x \in T : T \ {x} \in H PROVE T \in H
  <2> DEFINE g == [s \in SUBSET T |-> V(s)]
  <2>1. ASSUME NEW s \in SUBSET T PROVE V(s) = PutStep(q, g, s)
    <3>1. CASE s = {}
      BY <3>1 DEF PutStep
    <3>2. CASE s # {}
      <4> DEFINE c == Max(s)
                 u == s \ {c}
                 A == T \ {c}
      <4>0. Indices(s)
        BY IndicesDown
      <4>1. c \in T /\ u \in SUBSET A /\ u \in SUBSET T
        BY <3>2, <4>0, MaxIn
      <4>2. PICK h : Puts(q, A, h)
        BY <1>1, <4>1
      <4>a. Indices(A)
        BY IndicesDown
      <4>3. DaysOf(q, u) = h[u] /\ h[u] = PutStep(q, h, u)
        <5> HIDE DEF A, u
        <5>1. DaysOf(q, u) = h[u]
          BY ONLY <4>1, <4>2, <4>a, PutsGives
        <5>2. h[u] = PutStep(q, h, u)
          BY ONLY <4>1, <4>2, PutsAt
        <5>3. QED
          BY ONLY <5>1, <5>2
      <4>4. DaysOf(q, u) = V(u)
        <5>1. CASE u = {}
          BY <4>3, <5>1 DEF PutStep
        <5>2. CASE u # {}
          <6> DEFINE w == u \ {Max(u)}
          <6>1. w \in SUBSET A
            BY <4>1
          <6>2. DaysOf(q, w) = h[w]
            <7> HIDE DEF A, w
            <7> QED BY ONLY <4>2, <4>a, <6>1, PutsGives
          <6>3. QED
            BY <4>3, <5>2, <6>2 DEF PutStep
        <5>3. QED
          BY <5>1, <5>2
      <4>5. g[u] = DaysOf(q, u)
        BY <4>1, <4>4
      <4>6. QED
        BY <3>2, <4>5 DEF PutStep
    <3>3. QED
      BY <3>1, <3>2
  <2>2. Puts(q, T, g)
    BY <2>1 DEF Puts
  <2>3. QED
    BY <2>2
<1>2. \A T \in SUBSET D : T \in H
  <2> HIDE DEF H
  <2> QED BY <1>0, <1>1, SetInduction
<1>3. QED
  BY <1>2

\* The list of days, one operation at a time.
LEMMA DaysEmpty == ASSUME NEW q PROVE DaysOf(q, 1 .. 0) = <<>>
<1>0. 1 .. 0 = {}
  OBVIOUS
<1>a. Indices({})
  BY FS_EmptySet DEF Indices
<1>1. PICK g : Puts(q, {}, g)
  BY <1>a, PutsExists
<1>2. DaysOf(q, {}) = g[{}]
  BY <1>a, <1>1, PutsGives
<1>4. g[{}] = <<>>
  BY <1>1, PutsAt DEF PutStep
<1>3. QED
  BY <1>0, <1>2, <1>4

LEMMA DaysNext ==
  ASSUME NEW q, NEW n \in Nat \ {0}
  PROVE  DaysOf(q, 1 .. n) = PutIn(DaysOf(q, 1 .. (n - 1)), q[n])
<1> DEFINE D == 1 .. n
           E == 1 .. (n - 1)
<1>1. Indices(D) /\ E \in SUBSET D /\ D \in SUBSET D /\ D # {}
  <2>1. IsFiniteSet(D)
    BY FS_Interval
  <2>2. n \in D /\ D \subseteq Nat /\ E \in SUBSET D
    OBVIOUS
  <2>3. QED
    BY <2>1, <2>2 DEF Indices
<1>2. Max(D) = n
  <2>1. \A x \in D : (\A y \in D : x >= y) => x = n
    OBVIOUS
  <2>2. n \in D /\ \A y \in D : n >= y
    OBVIOUS
  <2>3. QED
    BY <2>1, <2>2 DEF Max
<1>3. D \ {n} = E
  OBVIOUS
<1> HIDE DEF D, E
<1>4. PICK g : Puts(q, D, g)
  BY ONLY <1>1, PutsExists
<1>5. DaysOf(q, D) = g[D] /\ DaysOf(q, E) = g[E]
  BY ONLY <1>1, <1>4, PutsGives
<1>6. g[D] = PutStep(q, g, D)
  BY ONLY <1>1, <1>4, PutsAt
<1>7. DaysOf(q, D) = PutIn(DaysOf(q, E), q[n])
  BY <1>1, <1>2, <1>3, <1>5, <1>6 DEF PutStep
<1>8. QED
  BY <1>7 DEF D, E
-----------------------------------------------------------------------------
\* What the list of days of the first n operations of q is.
OnDay(q, n, d) == {q[x] : x \in {y \in 1 .. n : Day(q[y]) = d}}
DayRow == [date : Nat, operations : Seq(Operation)]
Sorted(q) == \A i, j \in DOMAIN q : i < j => At[q[i]] >= At[q[j]]

Split(q, n, days) ==
    /\ days \in Seq(DayRow)
    /\ \A i, j \in DOMAIN days : i < j => days[i].date > days[j].date
    /\ \A i \in DOMAIN days : /\ IsInjective(days[i].operations)
                              /\ Range(days[i].operations) = OnDay(q, n, days[i].date)
                              /\ \E x \in 1 .. n : Day(q[x]) = days[i].date
    /\ \A x \in 1 .. n : \E i \in DOMAIN days : days[i].date = Day(q[x])

LEMMA DayIn == ASSUME NEW o \in Operation PROVE Day(o) \in Nat
<1>1. At[o] \in Nat /\ DayLength \in Nat /\ DayLength > 0
  BY AmountAssumption, DateAssumption
<1>2. ASSUME NEW a \in Nat, NEW d \in Nat, d > 0 PROVE a \div d \in Nat
  BY <1>2
<1>3. QED
  BY <1>1, <1>2 DEF Day

LEMMA DayMonotone ==
  ASSUME NEW o \in Operation, NEW p \in Operation, At[o] >= At[p]
  PROVE  Day(o) >= Day(p)
<1>1. At[o] \in Nat /\ At[p] \in Nat /\ DayLength \in Nat /\ DayLength > 0
  BY AmountAssumption, DateAssumption
<1>2. ASSUME NEW a \in Nat, NEW b \in Nat, NEW d \in Nat, d > 0, a >= b
      PROVE  a \div d >= b \div d
  <2> DEFINE x == a \div d
             y == b \div d
  <2>1. x \in Int /\ y \in Int /\ a < d * (x + 1) /\ d * y <= b
    BY <1>2
  <2> HIDE DEF x, y
  <2>2. d * y < d * (x + 1)
    <3>1. d * y \in Int /\ d * (x + 1) \in Int
      BY <2>1
    <3>2. QED
      BY <1>2, <2>1, <3>1
  <2>3. y < x + 1
    <3>1. CASE y >= x + 1
      <4>1. d * y >= d * (x + 1)
        BY <1>2, <2>1, <3>1
      <4>2. QED
        BY <2>1, <2>2, <4>1
    <3>2. QED
      BY <2>1, <3>1
  <2>4. x >= y
    BY <2>1, <2>3
  <2>5. QED
    BY <2>4 DEF x, y
<1>3. QED
  BY <1>1, <1>2 DEF Day

LEMMA AppendRange ==
  ASSUME NEW s \in Seq(Operation), NEW o \in Operation, o \notin Range(s), IsInjective(s)
  PROVE  /\ Append(s, o) \in Seq(Operation)
         /\ Range(Append(s, o)) = Range(s) \cup {o}
         /\ IsInjective(Append(s, o))
<1> DEFINE t == Append(s, o)
           n == Len(s)
<1>1. /\ n \in Nat /\ DOMAIN s = 1 .. n /\ t \in Seq(Operation) /\ DOMAIN t = 1 .. (n + 1)
      /\ t[n + 1] = o /\ \A i \in 1 .. n : t[i] = s[i]
  OBVIOUS
<1> HIDE DEF t, n
<1>2. Range(t) = Range(s) \cup {o}
  <2>1. ASSUME NEW x \in Range(t) PROVE x \in Range(s) \cup {o}
    <3>1. PICK i \in 1 .. (n + 1) : x = t[i]
      BY <1>1, <2>1 DEF Range
    <3>2. i = n + 1 \/ i \in 1 .. n
      BY <1>1
    <3>3. QED
      BY <1>1, <3>1, <3>2 DEF Range
  <2>2. ASSUME NEW x \in Range(s) PROVE x \in Range(t)
    <3>1. PICK i \in 1 .. n : x = s[i]
      BY <1>1, <2>2 DEF Range
    <3>2. i \in 1 .. (n + 1)
      BY <1>1
    <3>3. QED
      BY <1>1, <3>1, <3>2 DEF Range
  <2>3. o \in Range(t)
    <3>1. n + 1 \in 1 .. (n + 1)
      BY <1>1
    <3>2. QED
      BY <1>1, <3>1 DEF Range
  <2>4. QED
    BY <2>1, <2>2, <2>3
<1>3. IsInjective(t)
  <2> SUFFICES ASSUME NEW i \in 1 .. (n + 1), NEW j \in 1 .. (n + 1), t[i] = t[j]
               PROVE  i = j
    BY <1>1 DEF IsInjective
  <2>1. \A k \in 1 .. n : t[k] \in Range(s) /\ t[k] # o
    BY <1>1 DEF Range
  <2>2. (i = n + 1 \/ i \in 1 .. n) /\ (j = n + 1 \/ j \in 1 .. n)
    BY <1>1
  <2>3. CASE i \in 1 .. n /\ j \in 1 .. n
    BY <1>1, <2>3 DEF IsInjective
  <2>4. QED
    BY <1>1, <2>1, <2>2, <2>3
<1>4. QED
  BY <1>1, <1>2, <1>3 DEF t

LEMMA OnDayNext ==
  ASSUME NEW q, NEW n \in Nat \ {0}, NEW d
  PROVE  OnDay(q, n, d) = IF Day(q[n]) = d THEN OnDay(q, n - 1, d) \cup {q[n]}
                                           ELSE OnDay(q, n - 1, d)
<1>1. 1 .. n = (1 .. (n - 1)) \cup {n}
  OBVIOUS
<1> DEFINE I(m) == {y \in 1 .. m : Day(q[y]) = d}
<1>2. I(n) = IF Day(q[n]) = d THEN I(n - 1) \cup {n} ELSE I(n - 1)
  BY <1>1
<1>3. \A m : OnDay(q, m, d) = {q[x] : x \in I(m)}
  BY DEF OnDay
<1> HIDE DEF I
<1>4. QED
  BY <1>2, <1>3
LEMMA SplitNext ==
  ASSUME NEW m \in Nat, NEW q \in [1 .. m -> Operation], IsInjective(q), Sorted(q),
         NEW n \in 1 .. m, NEW days, Split(q, n - 1, days)
  PROVE  Split(q, n, PutIn(days, q[n]))
<1> DEFINE o == q[n]
           L == Len(days)
<1>1. /\ o \in Operation /\ L \in Nat /\ DOMAIN days = 1 .. L /\ n \in Nat \ {0}
      /\ \A i \in 1 .. L : /\ days[i] \in DayRow /\ days[i].date \in Nat
                           /\ days[i].operations \in Seq(Operation)
  <2>1. days \in Seq(DayRow)
    BY DEF Split
  <2>2. L \in Nat /\ DOMAIN days = 1 .. L /\ \A i \in 1 .. L : days[i] \in DayRow
    BY <2>1
  <2>3. \A r \in DayRow : r.date \in Nat /\ r.operations \in Seq(Operation)
    BY DEF DayRow
  <2>4. o \in Operation /\ n \in Nat \ {0}
    OBVIOUS
  <2>5. QED
    BY <2>2, <2>3, <2>4
<1>2. \A x \in 1 .. (n - 1) : q[x] \in Operation /\ x \in 1 .. m /\ x < n /\ q[x] # o
  BY <1>1 DEF IsInjective
<1>3. \A i \in 1 .. L : \A j \in 1 .. L : i < j => days[i].date > days[j].date
  BY <1>1 DEF Split
<1>4. \A i \in 1 .. L : /\ IsInjective(days[i].operations)
                        /\ Range(days[i].operations) = OnDay(q, n - 1, days[i].date)
                        /\ \E x \in 1 .. (n - 1) : Day(q[x]) = days[i].date
  BY <1>1 DEF Split
<1>5. \A x \in 1 .. (n - 1) : \E i \in 1 .. L : days[i].date = Day(q[x])
  BY <1>1 DEF Split
<1>6. \A d : o \notin OnDay(q, n - 1, d)
  BY <1>2 DEF OnDay
<1>7. \A d : OnDay(q, n, d) = IF Day(o) = d THEN OnDay(q, n - 1, d) \cup {o}
                                           ELSE OnDay(q, n - 1, d)
  BY <1>1, OnDayNext
<1>8. Day(o) \in Nat
  BY <1>1, DayIn
<1>9. \A x \in 1 .. n : x \in 1 .. (n - 1) \/ x = n
  BY <1>1
<1>10. \A x \in 1 .. (n - 1) : x \in 1 .. n
  BY <1>1
<1>11. n \in 1 .. n
  BY <1>1
<1>12. CASE \E i \in 1 .. L : days[i].date = Day(o)
  <2> DEFINE new == [i \in 1 .. L |-> IF days[i].date = Day(o)
                        THEN [days[i] EXCEPT !.operations = Append(@, o)] ELSE days[i]]
  <2>1. PutIn(days, o) = new
    BY <1>1, <1>12 DEF PutIn
  <2>2. ASSUME NEW i \in 1 .. L
        PROVE  /\ new[i] \in DayRow /\ new[i].date = days[i].date
               /\ new[i].operations = IF days[i].date = Day(o)
                     THEN Append(days[i].operations, o) ELSE days[i].operations
    <3>1. days[i] \in [date : Nat, operations : Seq(Operation)]
      BY <1>1 DEF DayRow
    <3>2. Append(days[i].operations, o) \in Seq(Operation)
      BY <1>1
    <3>3. QED
      BY <3>1, <3>2 DEF DayRow
  <2>3. new \in Seq(DayRow) /\ DOMAIN new = 1 .. L
    <3>1. \A i \in 1 .. L : new[i] \in DayRow
      BY <2>2
    <3>2. DOMAIN new = 1 .. L /\ new = [i \in 1 .. L |-> new[i]]
      OBVIOUS
    <3> HIDE DEF new
    <3>3. new \in [1 .. L -> DayRow]
      BY <3>1, <3>2
    <3>4. QED
      BY <1>1, <3>2, <3>3
  <2> HIDE DEF new
  <2>4. ASSUME NEW i \in 1 .. L
        PROVE  /\ IsInjective(new[i].operations)
               /\ Range(new[i].operations) = OnDay(q, n, new[i].date)
               /\ \E x \in 1 .. n : Day(q[x]) = new[i].date
    <3>1. \E x \in 1 .. n : Day(q[x]) = new[i].date
      BY <1>4, <1>10, <2>2
    <3>2. CASE days[i].date = Day(o)
      <4> DEFINE s == days[i].operations
      <4>1. s \in Seq(Operation) /\ IsInjective(s) /\ Range(s) = OnDay(q, n - 1, Day(o))
        BY <1>1, <1>4, <3>2
      <4>2. o \notin Range(s)
        BY <1>6, <4>1
      <4>3. new[i].operations = Append(s, o) /\ new[i].date = Day(o)
        BY <2>2, <3>2
      <4> HIDE DEF s
      <4>4. IsInjective(Append(s, o)) /\ Range(Append(s, o)) = Range(s) \cup {o}
        BY <1>1, <4>1, <4>2, AppendRange
      <4>5. OnDay(q, n, Day(o)) = OnDay(q, n - 1, Day(o)) \cup {o}
        BY <1>7
      <4>6. QED
        BY <3>1, <4>1, <4>3, <4>4, <4>5
    <3>3. CASE days[i].date # Day(o)
      <4>1. new[i].operations = days[i].operations /\ new[i].date = days[i].date
        BY <2>2, <3>3
      <4>2. OnDay(q, n, days[i].date) = OnDay(q, n - 1, days[i].date)
        BY <1>7, <3>3
      <4>3. QED
        BY <1>4, <3>1, <4>1, <4>2
    <3>4. QED
      BY <3>2, <3>3
  <2>5. \A x \in 1 .. n : \E i \in 1 .. L : new[i].date = Day(q[x])
    BY <1>5, <1>9, <1>12, <2>2
  <2>6. \A i, j \in 1 .. L : i < j => new[i].date > new[j].date
    BY <1>3, <2>2
  <2>7. Split(q, n, new)
    BY <2>3, <2>4, <2>5, <2>6 DEF Split
  <2>8. QED
    BY <2>1, <2>7
<1>13. CASE ~ \E i \in 1 .. L : days[i].date = Day(o)
  <2> DEFINE row == [date |-> Day(o), operations |-> <<o>>]
             new == Append(days, row)
  <2>1. PutIn(days, o) = new
    BY <1>1, <1>13 DEF PutIn
  <2>2. row \in DayRow /\ row.date = Day(o) /\ row.operations = <<o>>
    BY <1>1, <1>8 DEF DayRow
  <2>3. new \in Seq(DayRow)
    BY <2>2 DEF Split
  <2>4. /\ DOMAIN new = 1 .. (L + 1) /\ new[L + 1] = row
        /\ \A i \in 1 .. L : new[i] = days[i]
    BY <1>1, <2>2 DEF Split
  <2> HIDE DEF new, row
  <2>5. \A i \in 1 .. (L + 1) : i \in 1 .. L \/ i = L + 1
    BY <1>1
  <2>6. \A i \in 1 .. L : i \in 1 .. (L + 1)
    BY <1>1
  <2>7. L + 1 \in 1 .. (L + 1)
    BY <1>1
  <2>8. \A x \in 1 .. (n - 1) : Day(q[x]) # Day(o)
    BY <1>5, <1>13
  <2>9. ASSUME NEW i \in 1 .. L PROVE days[i].date > Day(o)
    <3>1. PICK x \in 1 .. (n - 1) : Day(q[x]) = days[i].date
      BY <1>4
    <3>2. At[q[x]] >= At[o] /\ q[x] \in Operation
      BY <1>2 DEF Sorted
    <3>3. Day(q[x]) >= Day(o)
      BY <1>1, <3>2, DayMonotone
    <3>4. QED
      BY <1>1, <1>8, <1>13, <3>1, <3>3
  <2>10. ASSUME NEW i \in 1 .. L
         PROVE  /\ IsInjective(new[i].operations)
                /\ Range(new[i].operations) = OnDay(q, n, new[i].date)
                /\ \E x \in 1 .. n : Day(q[x]) = new[i].date
    <3>1. new[i] = days[i] /\ OnDay(q, n, days[i].date) = OnDay(q, n - 1, days[i].date)
      BY <1>7, <1>13, <2>4
    <3>2. QED
      BY <1>4, <1>10, <3>1
  <2>11. /\ IsInjective(row.operations)
         /\ Range(row.operations) = OnDay(q, n, row.date)
         /\ \E x \in 1 .. n : Day(q[x]) = row.date
    <3>1. OnDay(q, n - 1, Day(o)) = {}
      BY <2>8 DEF OnDay
    <3>2. OnDay(q, n, Day(o)) = {o}
      BY <1>7, <3>1
    <3>3. IsInjective(<<o>>) /\ Range(<<o>>) = {o}
      BY DEF IsInjective, Range
    <3>4. QED
      BY <1>11, <2>2, <3>2, <3>3
  <2>12. \A i \in 1 .. (L + 1) : /\ IsInjective(new[i].operations)
                                 /\ Range(new[i].operations) = OnDay(q, n, new[i].date)
                                 /\ \E x \in 1 .. n : Day(q[x]) = new[i].date
    BY <2>4, <2>5, <2>10, <2>11
  <2>13. \A x \in 1 .. n : \E i \in 1 .. (L + 1) : new[i].date = Day(q[x])
    BY <1>5, <1>9, <2>2, <2>4, <2>6, <2>7
  <2>14. \A i, j \in 1 .. (L + 1) : i < j => new[i].date > new[j].date
    <3> SUFFICES ASSUME NEW i \in 1 .. (L + 1), NEW j \in 1 .. (L + 1), i < j
                 PROVE  new[i].date > new[j].date
      OBVIOUS
    <3>1. i \in 1 .. L /\ new[i] = days[i]
      BY <1>1, <2>4
    <3>2. CASE j \in 1 .. L
      BY <1>3, <2>4, <3>1, <3>2
    <3>3. CASE j = L + 1
      BY <2>2, <2>4, <2>9, <3>1, <3>3
    <3>4. QED
      BY <2>5, <3>2, <3>3
  <2>15. Split(q, n, new)
    BY <2>3, <2>4, <2>12, <2>13, <2>14 DEF Split
  <2>16. QED
    BY <2>1, <2>15
<1>14. QED
  BY <1>12, <1>13

LEMMA SplitAlways ==
  ASSUME NEW m \in Nat, NEW q \in [1 .. m -> Operation], IsInjective(q), Sorted(q)
  PROVE  Split(q, m, ByDate(q))
<1> DEFINE D == 1 .. m
           H == {T \in SUBSET D : \A n \in 0 .. m : T = 1 .. n => Split(q, n, DaysOf(q, T))}
<1>1. IsFiniteSet(D)
  BY FS_Interval
<1>2. ASSUME NEW T \in SUBSET D, \A x \in T : T \ {x} \in H PROVE T \in H
  <2> SUFFICES ASSUME NEW n \in 0 .. m, T = 1 .. n PROVE Split(q, n, DaysOf(q, 1 .. n))
    OBVIOUS
  <2>1. CASE n = 0
    <3>1. DaysOf(q, 1 .. 0) = <<>>
      BY DaysEmpty
    <3>2. Split(q, 0, <<>>)
      BY DEF Split
    <3>3. QED
      BY <2>1, <3>1, <3>2
  <2>2. CASE n # 0
    <3>1. n \in T /\ n \in 1 .. m /\ n \in Nat \ {0} /\ n - 1 \in 0 .. m
      BY <2>2
    <3>2. T \ {n} = 1 .. (n - 1)
      BY <3>1
    <3>3. Split(q, n - 1, DaysOf(q, 1 .. (n - 1)))
      BY <1>2, <3>1, <3>2
    <3>4. DaysOf(q, 1 .. n) = PutIn(DaysOf(q, 1 .. (n - 1)), q[n])
      BY <3>1, DaysNext
    <3> DEFINE days == DaysOf(q, 1 .. (n - 1))
    <3>5. Split(q, n, PutIn(days, q[n]))
      <4> HIDE DEF days
      <4> QED BY <3>1, <3>3, SplitNext DEF days
    <3>6. QED
      BY <3>4, <3>5
  <2>3. QED
    BY <2>1, <2>2
<1>3. \A T \in SUBSET D : T \in H
  <2> HIDE DEF D, H
  <2> QED BY ONLY <1>1, <1>2, SetInduction
<1>4. Split(q, m, DaysOf(q, D))
  BY <1>3
<1>5. DOMAIN q = D
  OBVIOUS
<1>6. ByDate(q) = DaysOf(q, D)
  BY <1>5, ByDateIs
<1>7. QED
  BY <1>4, <1>6

LEMMA ByDateSplits ==
  ASSUME NEW S \in SUBSET Operation, NEW q \in Ordered(S)
  PROVE  LET days == ByDate(q)
         IN  /\ \A i, j \in DOMAIN days : i < j => days[i].date > days[j].date
             /\ \A i \in DOMAIN days :
                    /\ IsInjective(days[i].operations)
                    /\ Range(days[i].operations) =
                         {o \in S : At[o] \div DayLength = days[i].date}
             /\ UNION {Range(days[i].operations) : i \in DOMAIN days} = S
<1> DEFINE m == Cardinality(S)
<1>1. IsFiniteSet(S) /\ m \in Nat
  <2>1. IsFiniteSet(S)
    BY FS_Subset, FiniteAssumption
  <2>2. QED
    BY <2>1, FS_CardinalityType
<1>2. q \in [1 .. m -> S] /\ IsInjective(q) /\ Sorted(q)
  BY DEF Ordered, SetToSeqs, IsInjective, Sorted
<1> HIDE DEF m
<1>3. Range(q) = S
  <2>1. q \in Injection(1 .. m, S)
    BY <1>2 DEF Injection
  <2>2. Cardinality(1 .. m) = m
    BY <1>1, FS_Interval
  <2>3. q \in Surjection(1 .. m, S)
    BY ONLY <1>1, <2>1, <2>2, FS_Injection DEF m
  <2>4. QED
    BY <2>3 DEF Surjection, Range
<1>4. q \in [1 .. m -> Operation]
  BY <1>2
<1> DEFINE days == ByDate(q)
<1>5. Split(q, m, days)
  BY ONLY <1>1, <1>2, <1>4, SplitAlways
<1> HIDE DEF days
<1>6. \A d : OnDay(q, m, d) = {o \in S : At[o] \div DayLength = d}
  <2>1. \A o : o \in S <=> \E x \in 1 .. m : q[x] = o
    BY <1>2, <1>3 DEF Range
  <2>2. QED
    BY <2>1 DEF OnDay, Day
<1>7. \A i, j \in DOMAIN days : i < j => days[i].date > days[j].date
  BY <1>5 DEF Split
<1>8. \A i \in DOMAIN days : /\ IsInjective(days[i].operations)
                             /\ Range(days[i].operations) =
                                  {o \in S : At[o] \div DayLength = days[i].date}
  BY <1>5, <1>6 DEF Split
<1>9. UNION {Range(days[i].operations) : i \in DOMAIN days} = S
  <2>1. ASSUME NEW o \in S PROVE \E i \in DOMAIN days : o \in Range(days[i].operations)
    <3>1. PICK x \in 1 .. m : q[x] = o
      BY <1>2, <1>3 DEF Range
    <3>2. PICK i \in DOMAIN days : days[i].date = Day(o)
      BY <1>5, <3>1 DEF Split
    <3>3. QED
      BY <1>8, <3>2 DEF Day
  <2>2. ASSUME NEW i \in DOMAIN days PROVE Range(days[i].operations) \subseteq S
    BY <1>8
  <2>3. QED
    BY <2>1, <2>2
<1>10. QED
  BY <1>7, <1>8, <1>9 DEF days

LEMMA DaysPartitionHolds == DaysPartition
<1>1. ASSUME NEW u, NEW t PROVE OwnOperations(u, t, None, None, None) \in SUBSET Operation
  BY DEF OwnOperations, OfType
<1>2. ASSUME NEW u, NEW t, NEW g
      PROVE  GroupPage(u, g, t, None, None, None) \in SUBSET Operation
  BY DEF GroupPage, GroupOperations, OfType
<1>3. ASSUME NEW u \in User, NEW t \in Type \cup {None},
             NEW S \in {OwnOperations(u, t, None, None, None)}
                          \cup {GroupPage(u, g, t, None, None, None) : g \in Group}
      PROVE  S \in SUBSET Operation
  BY ONLY <1>1, <1>2, <1>3
<1>4. QED
  BY ONLY <1>3, ByDateSplits DEF DaysPartition
-----------------------------------------------------------------------------
\* The tables agree in every state that the readers may see.
LEMMA ConsistentHolds == ReportsSpec => []Consistent
<1>1. Empty => Consistent
  BY DEF Empty, Consistent, TypeOK, RowsAgree, LinksAgree, OperationsAgree, CountedOnce, Unique
<1>2. Consistent /\ [Next]_books => Consistent'
  BY NextKeeps
<1>3. QED
  BY <1>1, <1>2, PTL DEF ReportsSpec

\* getUserGroupStat and getUserGroupOperations: a row of the statistic is the
\* sum of the list behind it, and only lists without a sum above zero have none.
THEOREM StatMatchesListAlways == ReportsSpec => []StatMatchesList
BY ConsistentHolds, StatMatchesListHolds, PTL

\* getUserGroupStat: a row is the sum of the members' own lists of the categories
\* they linked, so that nothing is counted twice or for somebody else.
THEOREM GroupSumsItsMembersAlways == ReportsSpec => []GroupSumsItsMembers
BY ConsistentHolds, GroupSumsHold, PTL

\* getStatCategories and getOperations differ by the amounts not above zero and
\* by operations whose category changed its type.
THEOREM StatGapAlways == ReportsSpec => []StatGap
BY ConsistentHolds, StatGapHolds, PTL

\* getOperationById shows what the lists of the caller's groups show.
THEOREM SameVisibilityAlways == ReportsSpec => []SameVisibility
BY SameVisibilityHolds, PTL

\* getOperations and getUserGroupOperations: a list by days shows each of its
\* operations once, under its day, and every day once, the latest first.
THEOREM DaysPartitionAlways == ReportsSpec => []DaysPartition
BY DaysPartitionHolds, PTL
=============================================================================
