---------------------------- MODULE SumTheorems ----------------------------
(***************************************************************************)
(* Sums over finite sets.  The models add amounts with SumFunctionOnSet of *)
(* the community modules, a fold that takes the elements in an order of its *)
(* own choosing; the proofs about balances need that the order is of no     *)
(* account, and how sums relate when sets and columns do.                   *)
(*                                                                         *)
(* An induction over the subsets of a finite set is stated with the set of  *)
(* the subsets a fact holds of, which starts from {} and is closed under    *)
(* adding an element (BuildUp), and rests on MinimalSubset.                 *)
(***************************************************************************)
EXTENDS Integers, FiniteSets, Functions, FiniteSetTheorems, TLAPS

\* The element a fold over s takes first.
Pick(s) == CHOOSE x \in s : TRUE

\* g sums f over every subset of S, as Folds unfolds the sum.
Sums(g, f, S) ==
  g = [s \in SUBSET S |-> IF s = {} THEN 0 ELSE f[Pick(s)] + g[s \ {Pick(s)}]]

\* Of any family of subsets of a finite set some member has no smaller one in the
\* family: the step every induction over a finite set here is made with.
LEMMA MinimalSubset ==
  ASSUME NEW S, NEW F, IsFiniteSet(S), F \subseteq SUBSET S, F # {}
  PROVE  \E s \in F : \A t \in SUBSET s : t # s => t \notin F
<1>1. IsWellFoundedOn(StrictSubsetOrdering(S), SUBSET S)
  BY FS_StrictSubsetOrderingWellFounded, FS_FiniteSubsetsOfFinite, Zenon
<1>2. PICK s \in F : \A t \in F : ~ (<<t, s>> \in StrictSubsetOrdering(S))
  BY <1>1, WFMin, Zenon
<1>3. ASSUME NEW t \in SUBSET s, t # s, t \in F PROVE FALSE
  <2>1. <<t, s>> \in (SUBSET S) \X (SUBSET S)
    BY <1>3
  <2>2. <<t, s>> \in StrictSubsetOrdering(S)
    BY <2>1, <1>3 DEF StrictSubsetOrdering
  <2>3. QED BY <2>2, <1>2, <1>3
<1>4. QED BY <1>2, <1>3

\* The sum the community module defines is the choice of a function that sums.
LEMMA SumIsChoice ==
  ASSUME NEW f, NEW S
  PROVE  SumFunctionOnSet(f, S) = (CHOOSE g : Sums(g, f, S))[S]
BY DEF SumFunctionOnSet, FoldFunctionOnSet, MapThenFoldSet, Sums, Pick

\* A fold takes an element of the set it has not used up.
LEMMA PickIn == ASSUME NEW s, s # {} PROVE Pick(s) \in s
BY Zenon DEF Pick

\* Two sums agree where both are defined.
LEMMA SumsAgree ==
  ASSUME NEW f, NEW S, NEW T, NEW g, NEW h,
         T \subseteq S, IsFiniteSet(S), Sums(g, f, S), Sums(h, f, T)
  PROVE  \A s \in SUBSET T : g[s] = h[s]
<1> DEFINE Bad == {s \in SUBSET T : g[s] # h[s]}
<1>1. SUFFICES ASSUME Bad # {} PROVE FALSE
  OBVIOUS
<1>2. IsFiniteSet(T)
  BY FS_Subset, Zenon
<1>3. PICK s \in Bad : \A t \in SUBSET s : t # s => t \notin Bad
  <2>1. Bad \subseteq SUBSET T
    OBVIOUS
  <2> HIDE DEF Bad
  <2>2. QED BY <1>1, <1>2, <2>1, MinimalSubset, Zenon
<1>4. s \in SUBSET T /\ s \in SUBSET S /\ g[s] # h[s]
  OBVIOUS
<1>5. /\ g[s] = IF s = {} THEN 0 ELSE f[Pick(s)] + g[s \ {Pick(s)}]
      /\ h[s] = IF s = {} THEN 0 ELSE f[Pick(s)] + h[s \ {Pick(s)}]
  BY <1>4 DEF Sums
<1>6. s # {}
  BY <1>4, <1>5
<1>7. s \ {Pick(s)} \in SUBSET s /\ s \ {Pick(s)} # s
  BY <1>6, PickIn
<1>8. g[s \ {Pick(s)}] = h[s \ {Pick(s)}]
  BY <1>3, <1>4, <1>7
<1>9. QED BY <1>4, <1>5, <1>6, <1>8

\* Every function can be summed over a finite set.
LEMMA SumsExist ==
  ASSUME NEW f, NEW S, IsFiniteSet(S)
  PROVE  \E g : Sums(g, f, S)
<1> DEFINE Bad == {T \in SUBSET S : ~ \E g : Sums(g, f, T)}
<1>1. SUFFICES ASSUME Bad # {} PROVE FALSE
  OBVIOUS
<1>2. PICK T \in Bad : \A t \in SUBSET T : t # T => t \notin Bad
  <2>1. Bad \subseteq SUBSET S
    OBVIOUS
  <2> HIDE DEF Bad
  <2>2. QED BY <1>1, <2>1, MinimalSubset, Zenon
<1> DEFINE G(t) == CHOOSE g : Sums(g, f, t)
<1>3. T \in SUBSET S /\ IsFiniteSet(T)
  BY FS_Subset, Zenon
<1>4. ASSUME NEW t \in SUBSET T, t # T PROVE Sums(G(t), f, t) /\ IsFiniteSet(t)
  <2>1. t \in SUBSET S /\ t \notin Bad
    BY <1>2, <1>3, <1>4
  <2>2. \E g : Sums(g, f, t)
    BY <2>1
  <2>3. Sums(G(t), f, t)
    BY <2>2, Zenon
  <2>4. IsFiniteSet(t)
    BY <1>3, FS_Subset, Zenon
  <2>5. QED BY <2>3, <2>4
<1> DEFINE less(s) == s \ {Pick(s)}
           top == [s \in SUBSET T |-> IF s = {} THEN 0 ELSE f[Pick(s)] + G(less(s))[less(s)]]
<1> HIDE DEF G, Bad
<1>5. ASSUME NEW s \in SUBSET T, s # {} PROVE less(s) \in SUBSET T /\ less(s) # T /\ less(s) \subseteq s
  BY <1>5, PickIn
<1> HIDE DEF less
<1>6. ASSUME NEW s \in SUBSET T, s # T PROVE top[s] = G(s)[s]
  <2>1. Sums(G(s), f, s)
    BY <1>4, <1>6
  <2>2. G(s)[s] = IF s = {} THEN 0 ELSE f[Pick(s)] + G(s)[less(s)]
    BY <2>1 DEF Sums, less
  <2>3. CASE s = {}
    BY <2>2, <2>3
  <2>4. CASE s # {}
    <3>1. less(s) \in SUBSET T /\ less(s) # T /\ less(s) \subseteq s
      BY <1>5, <2>4
    <3>2. Sums(G(less(s)), f, less(s)) /\ IsFiniteSet(s)
      BY <3>1, <1>4, <1>6
    <3>3. \A t \in SUBSET less(s) : G(s)[t] = G(less(s))[t]
      <4>1. less(s) \subseteq s /\ IsFiniteSet(s) /\ Sums(G(less(s)), f, less(s))
        BY <3>1, <3>2
      <4>2. QED BY <2>1, <4>1, SumsAgree
    <3>4. G(s)[less(s)] = G(less(s))[less(s)]
      BY <3>3
    <3>5. QED BY <2>2, <2>4, <3>4
  <2>5. QED BY <2>3, <2>4
<1>7. ASSUME NEW s \in SUBSET T PROVE top[s] = IF s = {} THEN 0 ELSE f[Pick(s)] + top[less(s)]
  <2>1. CASE s = {}
    BY <2>1
  <2>2. CASE s # {}
    <3>1. less(s) \in SUBSET T /\ less(s) # T
      BY <1>5, <2>2
    <3>2. top[less(s)] = G(less(s))[less(s)]
      BY <3>1, <1>6
    <3>3. QED BY <2>2, <3>2
  <2>3. QED BY <2>1, <2>2
<1>8. Sums(top, f, T)
  <2>1. top = [s \in SUBSET T |-> IF s = {} THEN 0 ELSE f[Pick(s)] + top[less(s)]]
    <3>1. top = [s \in SUBSET T |-> top[s]]
      OBVIOUS
    <3> HIDE DEF top
    <3>2. QED BY <3>1, <1>7
  <2> HIDE DEF top
  <2>2. QED BY <2>1 DEF Sums, less
<1>9. QED BY <1>8, <1>2 DEF Bad

-----------------------------------------------------------------------------
\* The sum over a set is that of the element taken first and of the rest.
LEMMA SumAt ==
  ASSUME NEW f, NEW S, IsFiniteSet(S)
  PROVE  \E g : Sums(g, f, S) /\ \A T \in SUBSET S : SumFunctionOnSet(f, T) = g[T]
<1>1. PICK g : Sums(g, f, S)
  BY SumsExist, Zenon
<1>2. ASSUME NEW T \in SUBSET S PROVE SumFunctionOnSet(f, T) = g[T]
  <2>1. IsFiniteSet(T)
    BY FS_Subset, Zenon
  <2> DEFINE h == CHOOSE h : Sums(h, f, T)
  <2>2. Sums(h, f, T)
    BY <2>1, SumsExist, Zenon
  <2>3. SumFunctionOnSet(f, T) = h[T]
    BY SumIsChoice
  <2> HIDE DEF h
  <2>4. \A s \in SUBSET T : g[s] = h[s]
    <3>1. T \subseteq S
      OBVIOUS
    <3>2. QED BY <1>1, <2>2, <3>1, SumsAgree
  <2>5. QED BY <2>3, <2>4
<1>3. QED BY <1>1, <1>2

\* Nothing adds up to nothing.
LEMMA SumOfNothing == ASSUME NEW f PROVE SumFunctionOnSet(f, {}) = 0
<1>1. PICK g : Sums(g, f, {}) /\ \A T \in SUBSET {} : SumFunctionOnSet(f, T) = g[T]
  BY SumAt, FS_EmptySet, Zenon
<1>2. SumFunctionOnSet(f, {}) = g[{}] /\ g[{}] = 0
  BY <1>1 DEF Sums
<1>3. QED BY <1>2

\* The sum of a set is one of its values and the sum of the others.
LEMMA SumUnfolds ==
  ASSUME NEW f, NEW S, IsFiniteSet(S), S # {}
  PROVE  /\ Pick(S) \in S
         /\ SumFunctionOnSet(f, S) = f[Pick(S)] + SumFunctionOnSet(f, S \ {Pick(S)})
<1>1. PICK g : Sums(g, f, S) /\ \A T \in SUBSET S : SumFunctionOnSet(f, T) = g[T]
  BY SumAt, Zenon
<1>2. Pick(S) \in S
  BY PickIn
<1>3. /\ SumFunctionOnSet(f, S) = g[S]
      /\ SumFunctionOnSet(f, S \ {Pick(S)}) = g[S \ {Pick(S)}]
      /\ g[S] = f[Pick(S)] + g[S \ {Pick(S)}]
  BY <1>1 DEF Sums
<1>4. QED BY <1>2, <1>3

\* Sums of natural numbers, or of integers, are such.
LEMMA SumType ==
  ASSUME NEW f, NEW S, NEW N \in {Nat, Int}, IsFiniteSet(S), \A x \in S : f[x] \in N
  PROVE  SumFunctionOnSet(f, S) \in N
<1> DEFINE Bad == {T \in SUBSET S : SumFunctionOnSet(f, T) \notin N}
<1>1. SUFFICES ASSUME Bad # {} PROVE FALSE
  OBVIOUS
<1>2. PICK T \in Bad : \A t \in SUBSET T : t # T => t \notin Bad
  <2>1. Bad \subseteq SUBSET S
    OBVIOUS
  <2> HIDE DEF Bad
  <2>2. QED BY <1>1, <2>1, MinimalSubset, Zenon
<1>3. T \in SUBSET S /\ SumFunctionOnSet(f, T) \notin N
  OBVIOUS
<1>4. IsFiniteSet(T)
  BY <1>3, FS_Subset, Zenon
<1>5. T # {}
  BY <1>3, SumOfNothing
<1>6. /\ Pick(T) \in T
      /\ SumFunctionOnSet(f, T) = f[Pick(T)] + SumFunctionOnSet(f, T \ {Pick(T)})
  BY <1>4, <1>5, SumUnfolds
<1>7. SumFunctionOnSet(f, T \ {Pick(T)}) \in N
  BY <1>2, <1>3, <1>6
<1>8. f[Pick(T)] \in N
  BY <1>3, <1>6
<1>9. QED BY <1>3, <1>6, <1>7, <1>8

\* Any value may be taken out of a sum first.
LEMMA SumRemove ==
  ASSUME NEW f, NEW S, NEW x \in S, IsFiniteSet(S), \A y \in S : f[y] \in Int
  PROVE  SumFunctionOnSet(f, S) = f[x] + SumFunctionOnSet(f, S \ {x})
<1> DEFINE sum(T) == SumFunctionOnSet(f, T)
           Bad == {T \in SUBSET S : \E y \in T : sum(T) # f[y] + sum(T \ {y})}
<1>1. SUFFICES ASSUME Bad # {} PROVE FALSE
  OBVIOUS
<1>2. PICK T \in Bad : \A t \in SUBSET T : t # T => t \notin Bad
  <2>1. Bad \subseteq SUBSET S
    OBVIOUS
  <2> HIDE DEF Bad
  <2>2. QED BY <1>1, <2>1, MinimalSubset, Zenon
<1>3. PICK y \in T : sum(T) # f[y] + sum(T \ {y})
  OBVIOUS
<1>4. T \in SUBSET S
  OBVIOUS
<1>5. \A U \in SUBSET S : IsFiniteSet(U) /\ sum(U) \in Int
  BY FS_Subset, SumType
<1> DEFINE c == Pick(T)
<1>6. c \in T /\ sum(T) = f[c] + sum(T \ {c})
  BY <1>3, <1>4, <1>5, SumUnfolds
<1> HIDE DEF sum, c
<1>7. c # y
  BY <1>3, <1>6
<1>8. ASSUME NEW t \in SUBSET T, t # T, NEW z \in t PROVE sum(t) = f[z] + sum(t \ {z})
  BY <1>2, <1>4, <1>8
<1> DEFINE rest == (T \ {c}) \ {y}
<1>9. sum(T \ {c}) = f[y] + sum(rest)
  BY <1>6, <1>7, <1>8
<1>10. sum(T \ {y}) = f[c] + sum(rest)
  <2>1. rest = (T \ {y}) \ {c}
    OBVIOUS
  <2> HIDE DEF rest
  <2>2. QED BY <1>6, <1>7, <1>8, <2>1
<1>11. f[c] \in Int /\ f[y] \in Int /\ sum(rest) \in Int
  BY <1>4, <1>5, <1>6
<1> HIDE DEF rest
<1>12. QED BY <1>3, <1>6, <1>9, <1>10, <1>11

\* The sum of f over S is f[x] and the sum over the rest of S.
Split(f, S, x) == SumFunctionOnSet(f, S) = f[x] + SumFunctionOnSet(f, S \ {x})

\* SumRemove with its conclusion named, as the provers apply it to function values.
LEMMA SumSplit ==
  ASSUME NEW f, NEW S, NEW x, x \in S, IsFiniteSet(S), \A y \in S : f[y] \in Int
  PROVE  Split(f, S, x)
BY SumRemove, SMT DEF Split

-----------------------------------------------------------------------------
\* Induction over the subsets of a finite set, stated with a set of subsets.
LEMMA BuildUp ==
  ASSUME NEW S, NEW F, IsFiniteSet(S), {} \in F,
         \A T \in SUBSET S : \A x \in S \ T : T \in F => T \cup {x} \in F
  PROVE  S \in F
<1> DEFINE Bad == {T \in SUBSET S : T \notin F}
<1>1. SUFFICES ASSUME Bad # {} PROVE FALSE
  OBVIOUS
<1>2. PICK T \in Bad : \A t \in SUBSET T : t # T => t \notin Bad
  <2>1. Bad \subseteq SUBSET S
    OBVIOUS
  <2> HIDE DEF Bad
  <2>2. QED BY <1>1, <2>1, MinimalSubset, Zenon
<1>3. PICK x \in T : TRUE
  <2>1. T # {}
    OBVIOUS
  <2>2. QED BY <2>1
<1>4. T \ {x} \in F /\ T \ {x} \in SUBSET S /\ x \in S \ (T \ {x}) /\ (T \ {x}) \cup {x} = T
  BY <1>2, <1>3
<1>5. QED BY <1>4

\* A new element adds its value to the sum, whichever element the fold takes first.
LEMMA SumInsert ==
  ASSUME NEW f, NEW S, NEW x, IsFiniteSet(S), x \notin S, f[x] \in Int, \A y \in S : f[y] \in Int
  PROVE  SumFunctionOnSet(f, S \cup {x}) = f[x] + SumFunctionOnSet(f, S)
<1>1. IsFiniteSet(S \cup {x})
  BY FS_AddElement
<1>2. (S \cup {x}) \ {x} = S
  OBVIOUS
<1>3. x \in S \cup {x} /\ \A y \in S \cup {x} : f[y] \in Int
  OBVIOUS
<1>4. QED BY <1>1, <1>2, <1>3, SumRemove

\* Functions that agree on a set have the same sum over it.
LEMMA SumSame ==
  ASSUME NEW f, NEW g, NEW S, IsFiniteSet(S), \A x \in S : f[x] = g[x]
  PROVE  SumFunctionOnSet(f, S) = SumFunctionOnSet(g, S)
<1>1. PICK h : Sums(h, f, S) /\ \A T \in SUBSET S : SumFunctionOnSet(f, T) = h[T]
  BY SumAt
<1>2. Sums(h, g, S)
  <2>1. \A s \in SUBSET S : s # {} => f[Pick(s)] = g[Pick(s)]
    BY PickIn
  <2>2. QED BY <1>1, <2>1 DEF Sums
<1>3. PICK k : Sums(k, g, S) /\ \A T \in SUBSET S : SumFunctionOnSet(g, T) = k[T]
  BY SumAt
<1>4. \A s \in SUBSET S : h[s] = k[s]
  BY <1>2, <1>3, SumsAgree
<1>5. QED BY <1>1, <1>3, <1>4

\* A sum of values that are nowhere greater is not greater.
LEMMA SumAtMost ==
  ASSUME NEW f, NEW g, NEW S, IsFiniteSet(S),
         \A x \in S : f[x] \in Int /\ g[x] \in Int /\ f[x] <= g[x]
  PROVE  SumFunctionOnSet(f, S) <= SumFunctionOnSet(g, S)
<1> DEFINE F == {T \in SUBSET S : SumFunctionOnSet(f, T) <= SumFunctionOnSet(g, T)}
<1>1. {} \in F
  BY SumOfNothing
<1>2. ASSUME NEW T \in SUBSET S, NEW x \in S \ T, T \in F PROVE T \cup {x} \in F
  <2>1. IsFiniteSet(T)
    BY FS_Subset
  <2>2. SumFunctionOnSet(f, T) \in Int /\ SumFunctionOnSet(g, T) \in Int
    BY <2>1, SumType
  <2>3. /\ SumFunctionOnSet(f, T \cup {x}) = f[x] + SumFunctionOnSet(f, T)
        /\ SumFunctionOnSet(g, T \cup {x}) = g[x] + SumFunctionOnSet(g, T)
    BY <2>1, SumInsert
  <2>4. QED BY <1>2, <2>2, <2>3
<1>3. S \in F
  <2> HIDE DEF F
  <2>1. QED BY <1>1, <1>2, BuildUp
<1>4. QED BY <1>3

\* The sum of the sums of two columns is the sum of their row totals.
LEMMA SumPlus ==
  ASSUME NEW f, NEW g, NEW h, NEW S, IsFiniteSet(S),
         \A x \in S : f[x] \in Int /\ g[x] \in Int /\ h[x] = f[x] + g[x]
  PROVE  SumFunctionOnSet(h, S) = SumFunctionOnSet(f, S) + SumFunctionOnSet(g, S)
<1> DEFINE F == {T \in SUBSET S :
                   SumFunctionOnSet(h, T) = SumFunctionOnSet(f, T) + SumFunctionOnSet(g, T)}
<1>1. {} \in F
  BY SumOfNothing
<1>2. ASSUME NEW T \in SUBSET S, NEW x \in S \ T, T \in F PROVE T \cup {x} \in F
  <2>1. IsFiniteSet(T)
    BY FS_Subset
  <2>2. SumFunctionOnSet(f, T) \in Int /\ SumFunctionOnSet(g, T) \in Int
    BY <2>1, SumType
  <2> \A y \in S : h[y] \in Int
    OBVIOUS
  <2>3. /\ SumFunctionOnSet(f, T \cup {x}) = f[x] + SumFunctionOnSet(f, T)
        /\ SumFunctionOnSet(g, T \cup {x}) = g[x] + SumFunctionOnSet(g, T)
        /\ SumFunctionOnSet(h, T \cup {x}) = h[x] + SumFunctionOnSet(h, T)
    BY <2>1, SumInsert
  <2>4. QED BY <1>2, <2>2, <2>3
<1>3. S \in F
  <2> HIDE DEF F
  <2>1. QED BY <1>1, <1>2, BuildUp
<1>4. QED BY <1>3

\* Sums over disjoint sets add up.
LEMMA SumUnion ==
  ASSUME NEW f, NEW S, NEW T, IsFiniteSet(S), IsFiniteSet(T), S \cap T = {},
         \A x \in S \cup T : f[x] \in Int
  PROVE  SumFunctionOnSet(f, S \cup T) = SumFunctionOnSet(f, S) + SumFunctionOnSet(f, T)
<1> DEFINE F == {U \in SUBSET T :
                   SumFunctionOnSet(f, S \cup U) = SumFunctionOnSet(f, S) + SumFunctionOnSet(f, U)}
<1>1. SumFunctionOnSet(f, S) \in Int
  BY SumType
<1>2. {} \in F
  BY <1>1, SumOfNothing
<1>3. ASSUME NEW U \in SUBSET T, NEW x \in T \ U, U \in F PROVE U \cup {x} \in F
  <2>1. IsFiniteSet(U)
    BY FS_Subset
  <2>2. IsFiniteSet(S \cup U) /\ x \notin S \cup U /\ S \cup (U \cup {x}) = (S \cup U) \cup {x}
    BY <2>1, FS_Union
  <2>3. SumFunctionOnSet(f, U) \in Int
    BY <2>1, SumType
  <2>4. SumFunctionOnSet(f, U \cup {x}) = f[x] + SumFunctionOnSet(f, U)
    BY <2>1, SumInsert
  <2>5. SumFunctionOnSet(f, (S \cup U) \cup {x}) = f[x] + SumFunctionOnSet(f, S \cup U)
    BY <2>2, SumInsert
  <2>6. SumFunctionOnSet(f, S \cup U) = SumFunctionOnSet(f, S) + SumFunctionOnSet(f, U)
    BY <1>3
  <2>7. f[x] \in Int
    OBVIOUS
  <2>8. SumFunctionOnSet(f, S \cup (U \cup {x}))
          = SumFunctionOnSet(f, S) + SumFunctionOnSet(f, U \cup {x})
    <3> DEFINE W == S \cup (U \cup {x})
               V == S \cup U
    <3>1. W = V \cup {x}
      OBVIOUS
    <3> HIDE DEF V, W
    <3>2. SumFunctionOnSet(f, W) = f[x] + SumFunctionOnSet(f, V)
      BY <2>5, <3>1 DEF V
    <3>3. SumFunctionOnSet(f, V) = SumFunctionOnSet(f, S) + SumFunctionOnSet(f, U)
      BY <2>6 DEF V
    <3>4. SumFunctionOnSet(f, W) = SumFunctionOnSet(f, S) + SumFunctionOnSet(f, U \cup {x})
      BY <1>1, <2>3, <2>4, <2>7, <3>2, <3>3
    <3>5. QED BY <3>4 DEF W
  <2>9. QED BY <2>8
<1>4. T \in F
  <2> HIDE DEF F
  <2>1. QED BY <1>2, <1>3, BuildUp
<1>5. QED BY <1>4

\* Of non-negative values, a part sums to no more than the whole.
LEMMA SumOfPart ==
  ASSUME NEW f, NEW S, NEW T, IsFiniteSet(S), T \subseteq S, \A x \in S : f[x] \in Nat
  PROVE  SumFunctionOnSet(f, T) <= SumFunctionOnSet(f, S)
<1>1. IsFiniteSet(T) /\ IsFiniteSet(S \ T) /\ T \cap (S \ T) = {} /\ T \cup (S \ T) = S
  BY FS_Subset
<1>2. \A x \in T \cup (S \ T) : f[x] \in Int
  OBVIOUS
<1>3. SumFunctionOnSet(f, T) \in Nat /\ SumFunctionOnSet(f, S \ T) \in Nat
  BY <1>1, SumType
<1> DEFINE R == S \ T
<1> HIDE DEF R
<1>4. SumFunctionOnSet(f, T \cup R) = SumFunctionOnSet(f, T) + SumFunctionOnSet(f, R)
  BY <1>1, <1>2, SumUnion DEF R
<1>5. T \cup R = S /\ SumFunctionOnSet(f, R) \in Nat
  BY <1>1, <1>3 DEF R
<1>6. QED BY <1>3, <1>4, <1>5

\* What is zero on every element sums to zero.
LEMMA SumZero ==
  ASSUME NEW f, NEW S, IsFiniteSet(S), \A x \in S : f[x] = 0
  PROVE  SumFunctionOnSet(f, S) = 0
<1> DEFINE F == {T \in SUBSET S : SumFunctionOnSet(f, T) = 0}
<1>1. {} \in F
  BY SumOfNothing
<1>2. ASSUME NEW T \in SUBSET S, NEW x \in S \ T, T \in F PROVE T \cup {x} \in F
  <2>1. IsFiniteSet(T)
    BY FS_Subset
  <2>2. f[x] = 0 /\ f[x] \in Int /\ \A y \in T : f[y] \in Int
    OBVIOUS
  <2>3. SumFunctionOnSet(f, T \cup {x}) = f[x] + SumFunctionOnSet(f, T)
    BY <2>1, <2>2, SumInsert
  <2>4. QED BY <1>2, <2>2, <2>3
<1>3. S \in F
  <2> HIDE DEF F
  <2>1. QED BY <1>1, <1>2, BuildUp
<1>4. QED BY <1>3

\* The images of the elements of a set.
ImageOf(h, S) == {h[x] : x \in S}

\* The image of a set with one more element has one more image.
LEMMA ImageGrows ==
  ASSUME NEW h, NEW S, NEW x
  PROVE  ImageOf(h, {}) = {} /\ ImageOf(h, S \cup {x}) = ImageOf(h, S) \cup {h[x]}
BY DEF ImageOf

\* The image of a finite set is finite.
LEMMA FiniteImage ==
  ASSUME NEW h, NEW S, IsFiniteSet(S)
  PROVE  IsFiniteSet(ImageOf(h, S))
<1> DEFINE F == {U \in SUBSET S : IsFiniteSet(ImageOf(h, U))}
<1>1. {} \in F
  BY ImageGrows, FS_EmptySet
<1>2. ASSUME NEW U \in SUBSET S, NEW x \in S \ U, U \in F PROVE U \cup {x} \in F
  <2>1. ImageOf(h, U \cup {x}) = ImageOf(h, U) \cup {h[x]}
    BY ImageGrows, Zenon
  <2>2. IsFiniteSet(ImageOf(h, U) \cup {h[x]})
    BY <1>2, FS_AddElement
  <2>3. QED BY <2>1, <2>2
<1>3. S \in F
  <2> HIDE DEF F
  <2>1. QED BY <1>1, <1>2, BuildUp
<1>4. QED BY <1>3

\* A sum does not depend on what the elements are called.
LEMMA SumRenamed ==
  ASSUME NEW f, NEW g, NEW h, NEW S, IsFiniteSet(S),
         \A x \in S : g[x] \in Int /\ f[h[x]] = g[x],
         \A x \in S, y \in S : h[x] = h[y] => x = y
  PROVE  SumFunctionOnSet(f, ImageOf(h, S)) = SumFunctionOnSet(g, S)
<1> DEFINE F == {U \in SUBSET S : SumFunctionOnSet(f, ImageOf(h, U)) = SumFunctionOnSet(g, U)}
<1>1. {} \in F
  BY ImageGrows, SumOfNothing
<1>2. ASSUME NEW U \in SUBSET S, NEW x \in S \ U, U \in F PROVE U \cup {x} \in F
  <2>1. IsFiniteSet(U)
    BY FS_Subset
  <2>2. IsFiniteSet(ImageOf(h, U))
    BY <2>1, FiniteImage
  <2>3. h[x] \notin ImageOf(h, U) /\ \A y \in ImageOf(h, U) : f[y] \in Int
    BY DEF ImageOf
  <2>4. f[h[x]] = g[x] /\ g[x] \in Int /\ \A y \in U : g[y] \in Int
    OBVIOUS
  <2>5. SumFunctionOnSet(g, U \cup {x}) = g[x] + SumFunctionOnSet(g, U)
    BY <2>1, <2>4, SumInsert
  <2>6. SumFunctionOnSet(f, ImageOf(h, U) \cup {h[x]}) = f[h[x]] + SumFunctionOnSet(f, ImageOf(h, U))
    BY <2>2, <2>3, <2>4, SumInsert
  <2>7. ImageOf(h, U \cup {x}) = ImageOf(h, U) \cup {h[x]}
    BY ImageGrows, Zenon
  <2>8. SumFunctionOnSet(f, ImageOf(h, U)) = SumFunctionOnSet(g, U)
    BY <1>2
  <2>9. QED BY <2>4, <2>5, <2>6, <2>7, <2>8
<1>3. S \in F
  <2> HIDE DEF F
  <2>1. QED BY <1>1, <1>2, BuildUp
<1>4. QED BY <1>3

\* A sum of negated values.
LEMMA SumNegated ==
  ASSUME NEW f, NEW g, NEW S, IsFiniteSet(S), \A x \in S : f[x] \in Int /\ g[x] = -f[x]
  PROVE  SumFunctionOnSet(g, S) = -SumFunctionOnSet(f, S)
<1> DEFINE h == [x \in S |-> 0]
<1>1. \A x \in S : f[x] \in Int /\ g[x] \in Int /\ h[x] = f[x] + g[x]
  OBVIOUS
<1>2. \A x \in S : h[x] = 0
  OBVIOUS
<1> HIDE DEF h
<1>3. SumFunctionOnSet(h, S) = SumFunctionOnSet(f, S) + SumFunctionOnSet(g, S)
  BY <1>1, SumPlus
<1>4. SumFunctionOnSet(h, S) = 0
  BY <1>2, SumZero
<1>5. SumFunctionOnSet(f, S) \in Int /\ SumFunctionOnSet(g, S) \in Int
  BY <1>1, SumType
<1>6. QED BY <1>3, <1>4, <1>5

\* Without what is not positive, a sum is not less.
LEMMA SumOfPositive ==
  ASSUME NEW f, NEW S, NEW T, IsFiniteSet(S), T \subseteq S, \A x \in S : f[x] \in Int,
         \A x \in S \ T : f[x] <= 0
  PROVE  SumFunctionOnSet(f, S) <= SumFunctionOnSet(f, T)
<1> DEFINE U == S \ T  z == [x \in U |-> 0]
<1>1. IsFiniteSet(T) /\ IsFiniteSet(U) /\ T \cap U = {} /\ S = T \cup U
  BY FS_Subset
<1>2. \A x \in T \cup U : f[x] \in Int
  OBVIOUS
<1>3. /\ \A x \in U : f[x] \in Int /\ z[x] \in Int /\ f[x] <= z[x]
      /\ \A x \in U : z[x] = 0
  OBVIOUS
<1> HIDE DEF U, z
<1>4. SumFunctionOnSet(f, T \cup U) = SumFunctionOnSet(f, T) + SumFunctionOnSet(f, U)
  BY <1>1, <1>2, SumUnion
<1>5. SumFunctionOnSet(f, U) <= SumFunctionOnSet(z, U)
  BY <1>1, <1>3, SumAtMost
<1>6. SumFunctionOnSet(z, U) = 0
  BY <1>1, <1>3, SumZero
<1>7. SumFunctionOnSet(f, T) \in Int
  BY <1>1, <1>2, SumType
<1>8. SumFunctionOnSet(f, U) \in Int
  BY <1>1, <1>2, SumType
<1>9. SumFunctionOnSet(f, S) = SumFunctionOnSet(f, T \cup U)
  BY <1>1
<1>10. QED BY <1>4, <1>5, <1>6, <1>7, <1>8, <1>9

\* What adds nothing may be left out.
LEMMA SumWithout ==
  ASSUME NEW f, NEW S, NEW T, IsFiniteSet(S), T \subseteq S, \A x \in S : f[x] \in Int,
         \A x \in S \ T : f[x] = 0
  PROVE  SumFunctionOnSet(f, S) = SumFunctionOnSet(f, T)
<1> DEFINE U == S \ T
<1>1. IsFiniteSet(T) /\ IsFiniteSet(U) /\ T \cap U = {} /\ S = T \cup U
  BY FS_Subset
<1>2. \A x \in T \cup U : f[x] \in Int
  OBVIOUS
<1>3. \A x \in U : f[x] = 0
  OBVIOUS
<1> HIDE DEF U
<1>4. SumFunctionOnSet(f, T \cup U) = SumFunctionOnSet(f, T) + SumFunctionOnSet(f, U)
  BY <1>1, <1>2, SumUnion
<1>5. SumFunctionOnSet(f, U) = 0
  BY <1>1, <1>3, SumZero
<1>6. SumFunctionOnSet(f, T) \in Int
  BY <1>1, <1>2, SumType
<1>7. SumFunctionOnSet(f, S) = SumFunctionOnSet(f, T \cup U)
  BY <1>1
<1>8. QED BY <1>4, <1>5, <1>6, <1>7

\* A multiple of every value makes the multiple of the sum.
LEMMA SumScaled ==
  ASSUME NEW f, NEW g, NEW c \in Int, NEW S, IsFiniteSet(S), \A x \in S : f[x] \in Int /\ g[x] = c * f[x]
  PROVE  SumFunctionOnSet(g, S) = c * SumFunctionOnSet(f, S)
<1> DEFINE F == {T \in SUBSET S : SumFunctionOnSet(g, T) = c * SumFunctionOnSet(f, T)}
<1>1. {} \in F
  <2>1. SumFunctionOnSet(g, {}) = 0 /\ SumFunctionOnSet(f, {}) = 0
    BY SumOfNothing
  <2>2. QED BY <2>1
<1>2. ASSUME NEW T \in SUBSET S, NEW x \in S \ T, T \in F PROVE T \cup {x} \in F
  <2>1. IsFiniteSet(T)
    BY FS_Subset
  <2>2. f[x] \in Int /\ g[x] = c * f[x] /\ g[x] \in Int
    OBVIOUS
  <2>3. \A y \in T : f[y] \in Int /\ g[y] \in Int
    OBVIOUS
  <2>4. SumFunctionOnSet(f, T) \in Int
    BY <2>1, <2>3, SumType
  <2>5. SumFunctionOnSet(f, T \cup {x}) = f[x] + SumFunctionOnSet(f, T)
    BY <2>1, <2>2, <2>3, SumInsert
  <2>6. SumFunctionOnSet(g, T \cup {x}) = g[x] + SumFunctionOnSet(g, T)
    BY <2>1, <2>2, <2>3, SumInsert
  <2>7. SumFunctionOnSet(g, T) = c * SumFunctionOnSet(f, T)
    BY <1>2
  <2>8. \A u \in Int, v \in Int : c * u + c * v = c * (u + v)
    OBVIOUS
  <2>9. SumFunctionOnSet(g, T \cup {x}) = c * SumFunctionOnSet(f, T \cup {x})
    BY <2>2, <2>4, <2>5, <2>6, <2>7, <2>8
  <2>10. T \cup {x} \in SUBSET S
    OBVIOUS
  <2>11. QED BY <2>9, <2>10
<1>3. S \in F
  <2> HIDE DEF F
  <2>1. QED BY <1>1, <1>2, BuildUp
<1>4. QED BY <1>3

\* The same value for every element.
LEMMA SumConstant ==
  ASSUME NEW f, NEW c \in Int, NEW S, IsFiniteSet(S), \A x \in S : f[x] = c
  PROVE  SumFunctionOnSet(f, S) = c * Cardinality(S)
<1> DEFINE F == {T \in SUBSET S : SumFunctionOnSet(f, T) = c * Cardinality(T)}
<1>1. {} \in F
  <2>1. SumFunctionOnSet(f, {}) = 0 /\ Cardinality({}) = 0
    BY SumOfNothing, FS_EmptySet
  <2>2. QED BY <2>1
<1>2. ASSUME NEW T \in SUBSET S, NEW x \in S \ T, T \in F PROVE T \cup {x} \in F
  <2>1. IsFiniteSet(T)
    BY FS_Subset
  <2>2. f[x] = c /\ f[x] \in Int /\ \A y \in T : f[y] \in Int
    OBVIOUS
  <2>3. SumFunctionOnSet(f, T \cup {x}) = f[x] + SumFunctionOnSet(f, T)
    BY <2>1, <2>2, SumInsert
  <2>4. Cardinality(T \cup {x}) = Cardinality(T) + 1 /\ Cardinality(T) \in Int
    BY <2>1, FS_AddElement, FS_CardinalityType
  <2>5. SumFunctionOnSet(f, T) = c * Cardinality(T)
    BY <1>2
  <2>6. \A n \in Int : c + c * n = c * (n + 1)
    OBVIOUS
  <2>7. SumFunctionOnSet(f, T \cup {x}) = c * Cardinality(T \cup {x})
    BY <2>2, <2>3, <2>4, <2>5, <2>6
  <2>8. T \cup {x} \in SUBSET S
    OBVIOUS
  <2>9. QED BY <2>7, <2>8
<1>3. S \in F
  <2> HIDE DEF F
  <2>1. QED BY <1>1, <1>2, BuildUp
<1>4. QED BY <1>3

\* A column of a table.
Column(f, S, y) == [x \in S |-> f[x][y]]

\* A table adds up to the same by rows and by columns.
LEMMA SumSwap ==
  ASSUME NEW f, NEW r, NEW c, NEW S, NEW T, IsFiniteSet(S), IsFiniteSet(T),
         \A x \in S : \A y \in T : f[x][y] \in Int,
         \A x \in S : r[x] = SumFunctionOnSet(f[x], T),
         \A y \in T : c[y] = SumFunctionOnSet(Column(f, S, y), S)
  PROVE  SumFunctionOnSet(r, S) = SumFunctionOnSet(c, T)
<1> DEFINE part(U) == [x \in S |-> SumFunctionOnSet(f[x], U)]
           F == {U \in SUBSET T : SumFunctionOnSet(part(U), S) = SumFunctionOnSet(c, U)}
<1>1. {} \in F
  <2>1. \A x \in S : part({})[x] = 0
    BY SumOfNothing
  <2> HIDE DEF part
  <2>2. SumFunctionOnSet(part({}), S) = 0 /\ SumFunctionOnSet(c, {}) = 0
    BY <2>1, SumZero, SumOfNothing
  <2>3. QED BY <2>2
<1>2. ASSUME NEW U \in SUBSET T, NEW y \in T \ U, U \in F PROVE U \cup {y} \in F
  <2> DEFINE col == Column(f, S, y)
  <2>1. IsFiniteSet(U)
    BY FS_Subset
  <2>2. ASSUME NEW x \in S
        PROVE  /\ col[x] \in Int /\ part(U)[x] \in Int
               /\ part(U \cup {y})[x] = col[x] + part(U)[x]
    <3> DEFINE g == f[x]
    <3>1. g[y] \in Int /\ \A z \in U : g[z] \in Int
      OBVIOUS
    <3> HIDE DEF g
    <3>2. SumFunctionOnSet(g, U \cup {y}) = g[y] + SumFunctionOnSet(g, U)
      BY <2>1, <3>1, SumInsert
    <3>3. SumFunctionOnSet(g, U) \in Int
      BY <2>1, <3>1, SumType
    <3>4. part(U)[x] = SumFunctionOnSet(g, U) /\ col[x] = g[y]
          /\ part(U \cup {y})[x] = SumFunctionOnSet(g, U \cup {y})
      BY DEF g, Column
    <3>5. QED BY <3>1, <3>2, <3>3, <3>4
  <2>3. c[y] = SumFunctionOnSet(col, S)
    OBVIOUS
  <2> HIDE DEF part, col
  <2>4. SumFunctionOnSet(part(U \cup {y}), S)
          = SumFunctionOnSet(col, S) + SumFunctionOnSet(part(U), S)
    <3> DEFINE old == part(U)  new == part(U \cup {y})
    <3>1. \A x \in S : col[x] \in Int /\ old[x] \in Int /\ new[x] = col[x] + old[x]
      BY <2>2
    <3> HIDE DEF old, new
    <3>2. SumFunctionOnSet(new, S) = SumFunctionOnSet(col, S) + SumFunctionOnSet(old, S)
      BY <3>1, SumPlus
    <3>3. QED BY <3>2 DEF old, new
  <2>5. \A z \in T : c[z] \in Int
    <3>1. ASSUME NEW z \in T PROVE c[z] \in Int
      <4> DEFINE g == Column(f, S, z)
      <4>1. \A x \in S : g[x] \in Int
        BY DEF Column
      <4>2. c[z] = SumFunctionOnSet(g, S)
        OBVIOUS
      <4> HIDE DEF g
      <4>3. SumFunctionOnSet(g, S) \in Int
        BY <4>1, SumType
      <4>4. QED BY <4>2, <4>3
    <3>2. QED BY <3>1
  <2>6. SumFunctionOnSet(c, U \cup {y}) = c[y] + SumFunctionOnSet(c, U)
    BY <2>1, <2>5, SumInsert
  <2>7. SumFunctionOnSet(part(U), S) = SumFunctionOnSet(c, U)
    BY <1>2
  <2>8. SumFunctionOnSet(part(U \cup {y}), S) = SumFunctionOnSet(c, U \cup {y})
    BY <2>3, <2>4, <2>6, <2>7
  <2>9. U \cup {y} \in SUBSET T
    OBVIOUS
  <2>10. QED BY <2>8, <2>9
<1>3. T \in F
  <2> HIDE DEF F
  <2>1. QED BY <1>1, <1>2, BuildUp
<1>4. SumFunctionOnSet(part(T), S) = SumFunctionOnSet(c, T)
  BY <1>3
<1>5. \A x \in S : r[x] = part(T)[x]
  OBVIOUS
<1> HIDE DEF part
<1>6. SumFunctionOnSet(r, S) = SumFunctionOnSet(part(T), S)
  BY <1>5, SumSame
<1>7. QED BY <1>4, <1>6

\* The elements of a set that belong to k.
Group(of, S, k) == {x \in S : of[x] = k}

\* What is counted group by group is counted once.
LEMMA SumByGroup ==
  ASSUME NEW f, NEW g, NEW of, NEW S, NEW G, IsFiniteSet(S), IsFiniteSet(G),
         \A x \in S : f[x] \in Int /\ of[x] \in G,
         \A k \in G : g[k] = SumFunctionOnSet(f, Group(of, S, k))
  PROVE  SumFunctionOnSet(g, G) = SumFunctionOnSet(f, S)
<1> DEFINE members(T) == {x \in S : of[x] \in T}
           F == {T \in SUBSET G : SumFunctionOnSet(g, T) = SumFunctionOnSet(f, members(T))}
<1>1. {} \in F
  <2>1. members({}) = {}
    OBVIOUS
  <2>2. QED BY <2>1, SumOfNothing
<1>2. ASSUME NEW T \in SUBSET G, NEW k \in G \ T, T \in F PROVE T \cup {k} \in F
  <2> DEFINE own == Group(of, S, k)
  <2>1. IsFiniteSet(T) /\ IsFiniteSet(members(T)) /\ IsFiniteSet(own)
    BY FS_Subset DEF Group
  <2>2. members(T \cup {k}) = members(T) \cup own /\ members(T) \cap own = {}
    BY DEF Group
  <2>3. \A x \in members(T) \cup own : f[x] \in Int
    BY DEF Group
  <2>4. \A j \in G : g[j] \in Int
    <3>1. ASSUME NEW j \in G PROVE g[j] \in Int
      <4>1. IsFiniteSet(Group(of, S, j)) /\ \A x \in Group(of, S, j) : f[x] \in Int
        BY FS_Subset DEF Group
      <4>2. SumFunctionOnSet(f, Group(of, S, j)) \in Int
        BY <4>1, SumType
      <4>3. QED BY <4>2
    <3>2. QED BY <3>1
  <2>5. SumFunctionOnSet(g, T \cup {k}) = g[k] + SumFunctionOnSet(g, T)
    BY <2>1, <2>4, SumInsert
  <2>6. g[k] = SumFunctionOnSet(f, own) /\ g[k] \in Int
    BY <2>4
  <2>7. SumFunctionOnSet(g, T) = SumFunctionOnSet(f, members(T))
    BY <1>2
  <2> HIDE DEF members, own
  <2>8. SumFunctionOnSet(f, members(T) \cup own)
          = SumFunctionOnSet(f, members(T)) + SumFunctionOnSet(f, own)
    BY <2>1, <2>2, <2>3, SumUnion
  <2>9. SumFunctionOnSet(f, members(T)) \in Int
    BY <2>1, <2>3, SumType
  <2>10. SumFunctionOnSet(g, T \cup {k}) = SumFunctionOnSet(f, members(T \cup {k}))
    <3>1. SumFunctionOnSet(f, members(T \cup {k})) = SumFunctionOnSet(f, members(T) \cup own)
      BY <2>2
    <3>2. SumFunctionOnSet(g, T \cup {k})
            = SumFunctionOnSet(f, own) + SumFunctionOnSet(f, members(T))
      BY <2>5, <2>6, <2>7
    <3>3. SumFunctionOnSet(f, own) \in Int
      BY <2>6
    <3> QED BY <2>8, <2>9, <3>1, <3>2, <3>3
  <2>11. T \cup {k} \in SUBSET G
    OBVIOUS
  <2>12. QED BY <2>10, <2>11
<1>3. G \in F
  <2> HIDE DEF F
  <2>1. QED BY <1>1, <1>2, BuildUp
<1>4. members(G) = S
  OBVIOUS
<1>5. QED BY <1>3, <1>4
=============================================================================
