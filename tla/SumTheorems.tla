---------------------------- MODULE SumTheorems ----------------------------
(***************************************************************************)
(* Lemmas about sums over finite sets.  A sum is identified with the total *)
(* function on the subsets of its set, which exists by induction over the  *)
(* set: a property is a set P of subsets, and strict inclusion is well     *)
(* founded on the subsets of a finite set.                                 *)
(***************************************************************************)
EXTENDS Sums, Integers, FiniteSets, FiniteSetTheorems, TLAPS

\* Induction over a finite set.
LEMMA SetInduction ==
  ASSUME NEW S, IsFiniteSet(S), NEW P \in SUBSET (SUBSET S), {} \in P,
         \A T \in P : \A x \in S \ T : T \cup {x} \in P
  PROVE  P = SUBSET S
<1>1. SUFFICES ASSUME P # SUBSET S PROVE FALSE
  OBVIOUS
<1> DEFINE bad == (SUBSET S) \ P
<1>2. IsWellFoundedOn(StrictSubsetOrdering(S), SUBSET S)
  BY FS_StrictSubsetOrderingWellFounded, FS_FiniteSubsetsOfFinite
<1>3. PICK T \in bad : \A U \in bad : <<U, T>> \notin StrictSubsetOrdering(S)
  <2>1. bad \subseteq SUBSET S /\ bad # {}
    BY <1>1
  <2> HIDE DEF bad
  <2> QED
    BY <1>2, <2>1, WFMin
<1>4. T \in SUBSET S /\ T # {}
  BY <1>3
<1>5. PICK x \in T : TRUE
  BY <1>4
<1>6. T \ {x} \in P
  <2>1. T \ {x} \in SUBSET S /\ T \ {x} # T
    BY <1>4, <1>5
  <2>2. <<T \ {x}, T>> \in StrictSubsetOrdering(S)
    BY <1>4, <2>1 DEF StrictSubsetOrdering
  <2> QED
    BY <1>3, <2>1, <2>2
<1> QED
  <2>1. (T \ {x}) \cup {x} = T /\ x \in S \ (T \ {x})
    BY <1>4, <1>5
  <2> QED
    BY <1>3, <1>6, <2>1

\* What a sum is: nothing of no elements, and one more value for one more element.
Totals(t, f, S) ==
  /\ t \in [SUBSET S -> Int] /\ t[{}] = 0
  /\ \A T \in SUBSET S : \A x \in S \ T : t[T \cup {x}] = t[T] + f[x]

\* A finite set has a total function.
LEMMA TotalsExist ==
  ASSUME NEW S, IsFiniteSet(S), NEW f, \A x \in S : f[x] \in Int
  PROVE  \E t : Totals(t, f, S)
<1> DEFINE P == {T \in SUBSET S : \E t : Totals(t, f, T)}
<1>1. {} \in P
  <2>1. Totals([T \in {{}} |-> 0], f, {})
    BY DEF Totals
  <2> QED
    BY <2>1
<1>2. ASSUME NEW T \in P, NEW x \in S \ T
      PROVE  T \cup {x} \in P
  <2>1. PICK t : Totals(t, f, T)
    OBVIOUS
  <2> DEFINE u == [U \in SUBSET (T \cup {x}) |->
                     IF x \in U THEN t[U \ {x}] + f[x] ELSE t[U]]
  <2>2. u \in [SUBSET (T \cup {x}) -> Int]
    <3>1. ASSUME NEW U \in SUBSET (T \cup {x})
          PROVE  (IF x \in U THEN t[U \ {x}] + f[x] ELSE t[U]) \in Int
      <4>1. U \ {x} \in SUBSET T /\ (x \notin U => U \in SUBSET T) /\ f[x] \in Int
        OBVIOUS
      <4>2. t[U \ {x}] \in Int /\ (x \notin U => t[U] \in Int)
        BY <2>1, <4>1 DEF Totals
      <4> QED
        BY <4>1, <4>2
    <3> QED
      BY <3>1
  <2>3. u[{}] = 0
    BY <2>1 DEF Totals
  <2>4. ASSUME NEW U \in SUBSET (T \cup {x}), NEW y \in (T \cup {x}) \ U
        PROVE  u[U \cup {y}] = u[U] + f[y]
    <3>1. CASE y = x
      <4>1. (U \cup {y}) \ {x} = U /\ x \notin U /\ x \in U \cup {y} /\ U \cup {y} \in SUBSET (T \cup {x})
        BY <3>1
      <4> QED
        BY <3>1, <4>1
    <3>2. CASE y # x /\ x \in U
      <4>1. /\ (U \cup {y}) \ {x} = (U \ {x}) \cup {y} /\ U \ {x} \in SUBSET T
            /\ y \in T \ (U \ {x}) /\ U \cup {y} \in SUBSET (T \cup {x}) /\ x \in U \cup {y}
        BY <3>2
      <4>2. t[(U \ {x}) \cup {y}] = t[U \ {x}] + f[y] /\ t[U \ {x}] \in Int
        BY <2>1, <4>1 DEF Totals
      <4>3. f[x] \in Int /\ f[y] \in Int
        BY <4>1
      <4>4. u[U \cup {y}] = t[(U \ {x}) \cup {y}] + f[x] /\ u[U] = t[U \ {x}] + f[x]
        BY <3>2, <4>1
      <4> QED
        BY <4>2, <4>3, <4>4
    <3>3. CASE y # x /\ x \notin U
      <4>1. U \in SUBSET T /\ y \in T \ U /\ U \cup {y} \in SUBSET (T \cup {x}) /\ x \notin U \cup {y}
        BY <3>3
      <4> QED
        BY <2>1, <3>3, <4>1 DEF Totals
    <3> QED
      BY <3>1, <3>2, <3>3
  <2> HIDE DEF u
  <2>5. Totals(u, f, T \cup {x})
    BY <2>2, <2>3, <2>4 DEF Totals
  <2> QED
    BY <2>5
<1>3. P = SUBSET S
  <2>1. P \in SUBSET (SUBSET S)
    OBVIOUS
  <2> HIDE DEF P
  <2> QED
    BY <1>1, <1>2, <2>1, SetInduction
<1>4. S \in P
  BY <1>3
<1> QED
  BY <1>4

\* The recursion the fold is defined by.
Iterates(g, f, S) ==
  g = [s \in SUBSET S |->
        IF s = {} THEN 0
        ELSE f[CHOOSE x \in s : TRUE] + g[s \ {CHOOSE x \in s : TRUE}]]

\* Whatever follows the recursion is the total function.
LEMMA IteratesTotals ==
  ASSUME NEW S, IsFiniteSet(S), NEW f, \A x \in S : f[x] \in Int,
         NEW t, Totals(t, f, S), NEW g, Iterates(g, f, S)
  PROVE  g = t
<1> DEFINE P == {T \in SUBSET S : g[T] = t[T]}
<1> DEFINE bad == (SUBSET S) \ P
<1>1. SUFFICES bad = {}
  BY DEF Totals, Iterates
<1>2. SUFFICES ASSUME bad # {} PROVE FALSE
  OBVIOUS
<1>3. IsWellFoundedOn(StrictSubsetOrdering(S), SUBSET S)
  BY FS_StrictSubsetOrderingWellFounded, FS_FiniteSubsetsOfFinite
<1>4. PICK T \in bad : \A U \in bad : <<U, T>> \notin StrictSubsetOrdering(S)
  <2>1. bad \subseteq SUBSET S /\ bad # {}
    BY <1>2
  <2> HIDE DEF bad
  <2> QED
    BY <1>3, <2>1, WFMin
<1>5. T # {}
  BY <1>4 DEF Totals, Iterates
<1> DEFINE c == CHOOSE x \in T : TRUE
<1>6. c \in T
  BY <1>5
<1>7. g[T] = f[c] + g[T \ {c}]
  BY <1>4, <1>5 DEF Iterates
<1> HIDE DEF c
<1>8. g[T \ {c}] = t[T \ {c}]
  <2>1. T \in SUBSET S /\ T \ {c} \in SUBSET S /\ T \ {c} # T
    BY <1>4, <1>6
  <2>2. <<T \ {c}, T>> \in StrictSubsetOrdering(S)
    BY <2>1 DEF StrictSubsetOrdering
  <2> QED
    BY <1>4, <2>1, <2>2
<1>9. t[T] = t[T \ {c}] + f[c] /\ t[T \ {c}] \in Int /\ f[c] \in Int
  <2>1. (T \ {c}) \cup {c} = T /\ c \in S \ (T \ {c}) /\ T \ {c} \in SUBSET S
    BY <1>4, <1>6
  <2> QED
    BY <2>1 DEF Totals
<1> QED
  BY <1>4, <1>7, <1>8, <1>9

\* The total function follows the recursion.
LEMMA TotalsIterate ==
  ASSUME NEW S, NEW f, \A x \in S : f[x] \in Int, NEW t, Totals(t, f, S)
  PROVE  Iterates(t, f, S)
<1>1. ASSUME NEW T \in SUBSET S, T # {}
      PROVE  t[T] = f[CHOOSE x \in T : TRUE] + t[T \ {CHOOSE x \in T : TRUE}]
  <2> DEFINE c == CHOOSE x \in T : TRUE
  <2>1. c \in T
    BY <1>1
  <2> HIDE DEF c
  <2>2. (T \ {c}) \cup {c} = T /\ c \in S \ (T \ {c}) /\ T \ {c} \in SUBSET S
    BY <2>1
  <2>3. t[T] = t[T \ {c}] + f[c] /\ t[T \ {c}] \in Int /\ f[c] \in Int
    BY <2>2 DEF Totals
  <2>4. t[T] = f[c] + t[T \ {c}]
    BY <2>3
  <2> USE DEF c
  <2> QED
    BY <2>4
<1>2. t \in [SUBSET S -> Int] /\ t[{}] = 0
  BY DEF Totals
<1> QED
  BY <1>1, <1>2 DEF Iterates

\* The sum over a set is what its total function says of it.
LEMMA SumIs ==
  ASSUME NEW S, IsFiniteSet(S), NEW f, \A x \in S : f[x] \in Int,
         NEW t, Totals(t, f, S)
  PROVE  SumOf(f, S) = t[S]
<1> DEFINE g == CHOOSE h : Iterates(h, f, S)
<1>1. Iterates(g, f, S)
  BY TotalsIterate
<1>2. SumOf(f, S) = g[S]
  BY DEF SumOf, MapThenSumSet, MapThenFoldSet, Iterates
<1> QED
  BY <1>1, <1>2, IteratesTotals

\* Every part of a finite set has its own total.
LEMMA PartTotals ==
  ASSUME NEW S, IsFiniteSet(S), NEW f, \A x \in S : f[x] \in Int,
         NEW t, Totals(t, f, S), NEW T \in SUBSET S
  PROVE  SumOf(f, T) = t[T]
<1> DEFINE u == [U \in SUBSET T |-> t[U]]
<1>1. Totals(u, f, T)
  <2>1. \A U \in SUBSET T : U \in SUBSET S
    OBVIOUS
  <2>2. u \in [SUBSET T -> Int] /\ u[{}] = 0
    BY <2>1 DEF Totals
  <2>3. ASSUME NEW U \in SUBSET T, NEW x \in T \ U
        PROVE  u[U \cup {x}] = u[U] + f[x]
    <3>1. U \in SUBSET S /\ x \in S \ U /\ U \cup {x} \in SUBSET T
      BY <2>1
    <3> QED
      BY <3>1 DEF Totals
  <2> QED
    BY <2>2, <2>3 DEF Totals
<1>2. IsFiniteSet(T) /\ \A x \in T : f[x] \in Int
  BY FS_Subset
<1> HIDE DEF u
<1>3. SumOf(f, T) = u[T]
  BY <1>1, <1>2, SumIs
<1> QED
  BY <1>3 DEF u

\* The sum over no element.
LEMMA SumEmpty ==
  ASSUME NEW f
  PROVE  SumOf(f, {}) = 0
<1>1. Totals([T \in {{}} |-> 0], f, {})
  BY DEF Totals
<1>2. IsFiniteSet({})
  BY FS_EmptySet
<1> QED
  BY <1>1, <1>2, SumIs

\* A sum of integers is an integer.
LEMMA SumInt ==
  ASSUME NEW S, IsFiniteSet(S), NEW f, \A x \in S : f[x] \in Int
  PROVE  SumOf(f, S) \in Int
<1>1. PICK t : Totals(t, f, S)
  BY TotalsExist
<1>2. SumOf(f, S) = t[S]
  BY <1>1, SumIs
<1> QED
  BY <1>1, <1>2 DEF Totals

\* One element more.
LEMMA SumAdd ==
  ASSUME NEW S, IsFiniteSet(S), NEW f, \A y \in S : f[y] \in Int,
         NEW x, x \notin S, f[x] \in Int
  PROVE  SumOf(f, S \cup {x}) = SumOf(f, S) + f[x]
<1> DEFINE U == S \cup {x}
<1>1. IsFiniteSet(U) /\ \A y \in U : f[y] \in Int
  BY FS_AddElement
<1>2. PICK t : Totals(t, f, U)
  BY <1>1, TotalsExist
<1>3. SumOf(f, S) = t[S] /\ SumOf(f, U) = t[U]
  <2>1. S \in SUBSET U /\ U \in SUBSET U
    OBVIOUS
  <2> HIDE DEF U
  <2> QED
    BY <1>1, <1>2, <2>1, PartTotals
<1>4. S \in SUBSET U /\ x \in U \ S
  OBVIOUS
<1> QED
  BY <1>2, <1>3, <1>4 DEF Totals

\* One element less.
LEMMA SumRemove ==
  ASSUME NEW S, IsFiniteSet(S), NEW f, \A y \in S : f[y] \in Int, NEW x \in S
  PROVE  SumOf(f, S) = SumOf(f, S \ {x}) + f[x]
<1>1. IsFiniteSet(S \ {x}) /\ (S \ {x}) \cup {x} = S /\ x \notin S \ {x}
  BY FS_Subset
<1>2. SumOf(f, (S \ {x}) \cup {x}) = SumOf(f, S \ {x}) + f[x]
  <2>1. \A y \in S \ {x} : f[y] \in Int
    OBVIOUS
  <2> QED
    BY <1>1, <2>1, SumAdd
<1> QED
  BY <1>1, <1>2

\* Equal values, equal sums.
LEMMA SumSame ==
  ASSUME NEW S, IsFiniteSet(S), NEW f, NEW g,
         \A x \in S : f[x] \in Int /\ g[x] = f[x]
  PROVE  SumOf(g, S) = SumOf(f, S)
<1>1. PICK t : Totals(t, f, S)
  BY TotalsExist
<1>2. Totals(t, g, S)
  BY <1>1 DEF Totals
<1> QED
  BY <1>1, <1>2, SumIs

\* One element more, from a function that keeps the values there were.
LEMMA SumExtend ==
  ASSUME NEW S, IsFiniteSet(S), NEW f, NEW g,
         \A y \in S : f[y] \in Int /\ g[y] = f[y],
         NEW x, x \notin S, g[x] \in Int
  PROVE  SumOf(g, S \cup {x}) = SumOf(f, S) + g[x]
<1>1. SumOf(g, S) = SumOf(f, S)
  BY SumSame
<1>2. \A y \in S : g[y] \in Int
  OBVIOUS
<1>3. SumOf(g, S \cup {x}) = SumOf(g, S) + g[x]
  BY <1>2, SumAdd
<1> QED
  BY <1>1, <1>3

\* A sum of natural numbers is one, and is at least each of them.
LEMMA SumNat ==
  ASSUME NEW S, IsFiniteSet(S), NEW f, \A x \in S : f[x] \in Nat
  PROVE  SumOf(f, S) \in Nat /\ \A x \in S : f[x] <= SumOf(f, S)
<1>1. PICK t : Totals(t, f, S)
  BY TotalsExist
<1> DEFINE P == {T \in SUBSET S : t[T] \in Nat}
<1>2. {} \in P
  BY <1>1 DEF Totals
<1>3. ASSUME NEW T \in P, NEW x \in S \ T
      PROVE  T \cup {x} \in P
  BY <1>1 DEF Totals
<1>4. P = SUBSET S
  <2>1. P \in SUBSET (SUBSET S)
    OBVIOUS
  <2> HIDE DEF P
  <2> QED
    BY <1>2, <1>3, <2>1, SetInduction
<1>5. SumOf(f, S) = t[S]
  BY <1>1, SumIs
<1>6. ASSUME NEW x \in S PROVE f[x] <= SumOf(f, S)
  <2>1. (S \ {x}) \cup {x} = S /\ x \in S \ (S \ {x}) /\ S \ {x} \in SUBSET S
    OBVIOUS
  <2>2. t[S] = t[S \ {x}] + f[x]
    BY <1>1, <2>1 DEF Totals
  <2>3. t[S \ {x}] \in Nat /\ f[x] \in Nat
    BY <1>4, <2>1
  <2> QED
    BY <1>5, <2>2, <2>3
<1> QED
  BY <1>4, <1>5, <1>6

\* Two parts with nothing in common.
LEMMA SumUnion ==
  ASSUME NEW S, IsFiniteSet(S), NEW R, IsFiniteSet(R), S \cap R = {},
         NEW f, \A x \in S \cup R : f[x] \in Int
  PROVE  SumOf(f, S \cup R) = SumOf(f, S) + SumOf(f, R)
<1> DEFINE U == S \cup R
<1>1. IsFiniteSet(U)
  BY FS_Union
<1>2. PICK t : Totals(t, f, U)
  BY <1>1, TotalsExist
<1> DEFINE P == {T \in SUBSET R : t[S \cup T] = t[S] + t[T]}
<1>3. {} \in P
  BY <1>2 DEF Totals
<1>4. ASSUME NEW T \in P, NEW x \in R \ T
      PROVE  T \cup {x} \in P
  <2>1. /\ S \cup T \in SUBSET U /\ x \in U \ (S \cup T) /\ T \in SUBSET U /\ x \in U \ T
        /\ S \cup (T \cup {x}) = (S \cup T) \cup {x} /\ S \in SUBSET U
    OBVIOUS
  <2>2. t[(S \cup T) \cup {x}] = t[S \cup T] + f[x] /\ t[T \cup {x}] = t[T] + f[x]
    BY <1>2, <2>1 DEF Totals
  <2>3. t[S] \in Int /\ t[T] \in Int /\ f[x] \in Int
    BY <1>2, <2>1 DEF Totals
  <2>4. t[S \cup (T \cup {x})] = t[S \cup T] + f[x]
    BY <2>1, <2>2, Zenon
  <2>5. t[S \cup T] = t[S] + t[T] /\ T \cup {x} \in SUBSET R
    OBVIOUS
  <2>6. t[S \cup (T \cup {x})] = t[S] + t[T \cup {x}]
    BY <2>2, <2>3, <2>4, <2>5
  <2> QED
    BY <2>5, <2>6
<1>5. P = SUBSET R
  <2>1. P \in SUBSET (SUBSET R)
    OBVIOUS
  <2> HIDE DEF P
  <2> QED
    BY <1>3, <1>4, <2>1, SetInduction
<1>6. t[S \cup R] = t[S] + t[R]
  BY <1>5
<1>7. SumOf(f, S) = t[S] /\ SumOf(f, R) = t[R] /\ SumOf(f, U) = t[U]
  <2>1. S \in SUBSET U /\ R \in SUBSET U /\ U \in SUBSET U /\ \A x \in U : f[x] \in Int
    OBVIOUS
  <2> HIDE DEF U
  <2> QED
    BY <1>1, <1>2, <2>1, PartTotals
<1> QED
  BY <1>6, <1>7

\* A part of a sum of natural numbers is at most the whole.
LEMMA SumPart ==
  ASSUME NEW S, IsFiniteSet(S), NEW T \in SUBSET S, NEW f, \A x \in S : f[x] \in Nat
  PROVE  SumOf(f, T) <= SumOf(f, S)
<1>1. IsFiniteSet(T) /\ IsFiniteSet(S \ T) /\ T \cap (S \ T) = {} /\ T \cup (S \ T) = S
  BY FS_Subset
<1>2. SumOf(f, T \cup (S \ T)) = SumOf(f, T) + SumOf(f, S \ T)
  <2>1. \A x \in T \cup (S \ T) : f[x] \in Int
    OBVIOUS
  <2> QED
    BY <1>1, <2>1, SumUnion
<1>3. SumOf(f, T) \in Nat /\ SumOf(f, S \ T) \in Nat
  <2>1. (\A x \in T : f[x] \in Nat) /\ \A x \in S \ T : f[x] \in Nat
    OBVIOUS
  <2> QED
    BY <1>1, <2>1, SumNat
<1>4. SumOf(f, S) = SumOf(f, T) + SumOf(f, S \ T)
  BY <1>1, <1>2, Zenon
<1> QED
  BY <1>3, <1>4

\* Smaller values, smaller sums.
LEMMA SumLeq ==
  ASSUME NEW S, IsFiniteSet(S), NEW f, NEW g,
         \A x \in S : f[x] \in Int /\ g[x] \in Int /\ f[x] <= g[x]
  PROVE  SumOf(f, S) <= SumOf(g, S)
<1>1. PICK t : Totals(t, f, S)
  BY TotalsExist
<1>2. PICK u : Totals(u, g, S)
  BY TotalsExist
<1> DEFINE P == {T \in SUBSET S : t[T] <= u[T]}
<1>3. {} \in P
  BY <1>1, <1>2 DEF Totals
<1>4. ASSUME NEW T \in P, NEW x \in S \ T
      PROVE  T \cup {x} \in P
  <2>1. t[T \cup {x}] = t[T] + f[x] /\ u[T \cup {x}] = u[T] + g[x]
    BY <1>1, <1>2 DEF Totals
  <2>2. t[T] \in Int /\ u[T] \in Int /\ f[x] \in Int /\ g[x] \in Int /\ f[x] <= g[x]
    BY <1>1, <1>2 DEF Totals
  <2>3. t[T \cup {x}] <= u[T \cup {x}]
    BY <2>1, <2>2
  <2> QED
    BY <2>3
<1>5. P = SUBSET S
  <2>1. P \in SUBSET (SUBSET S)
    OBVIOUS
  <2> HIDE DEF P
  <2> QED
    BY <1>3, <1>4, <2>1, SetInduction
<1>6. t[S] <= u[S]
  BY <1>5
<1>7. SumOf(f, S) = t[S] /\ SumOf(g, S) = u[S]
  BY <1>1, <1>2, SumIs
<1> QED
  BY <1>6, <1>7

\* The sum of pairwise sums.
LEMMA SumPlus ==
  ASSUME NEW S, IsFiniteSet(S), NEW f, NEW g, NEW h,
         \A x \in S : f[x] \in Int /\ g[x] \in Int /\ h[x] = f[x] + g[x]
  PROVE  SumOf(h, S) = SumOf(f, S) + SumOf(g, S)
<1>1. PICK t : Totals(t, f, S)
  BY TotalsExist
<1>2. PICK u : Totals(u, g, S)
  BY TotalsExist
<1> DEFINE w == [T \in SUBSET S |-> t[T] + u[T]]
<1>3. Totals(w, h, S)
  <2>1. w \in [SUBSET S -> Int] /\ w[{}] = 0
    BY <1>1, <1>2 DEF Totals
  <2>2. ASSUME NEW T \in SUBSET S, NEW x \in S \ T
        PROVE  w[T \cup {x}] = w[T] + h[x]
    <3>1. t[T \cup {x}] = t[T] + f[x] /\ u[T \cup {x}] = u[T] + g[x] /\ h[x] = f[x] + g[x]
      BY <1>1, <1>2 DEF Totals
    <3>2. t[T] \in Int /\ u[T] \in Int /\ f[x] \in Int /\ g[x] \in Int
      BY <1>1, <1>2 DEF Totals
    <3>3. w[T \cup {x}] = t[T \cup {x}] + u[T \cup {x}] /\ w[T] = t[T] + u[T]
      OBVIOUS
    <3> QED
      BY <3>1, <3>2, <3>3
  <2> QED
    BY <2>1, <2>2 DEF Totals
<1>4. SumOf(f, S) = t[S] /\ SumOf(g, S) = u[S]
  BY <1>1, <1>2, SumIs
<1>5. SumOf(h, S) = w[S]
  <2>1. \A x \in S : h[x] \in Int
    OBVIOUS
  <2> HIDE DEF w
  <2> QED
    BY <1>3, <2>1, SumIs
<1> QED
  BY <1>4, <1>5

\* Another value at one element.
LEMMA SumChange ==
  ASSUME NEW S, IsFiniteSet(S), NEW x \in S, NEW f, NEW g, g[x] \in Int,
         \A y \in S : f[y] \in Int /\ (y # x => g[y] = f[y])
  PROVE  SumOf(g, S) = SumOf(f, S) - f[x] + g[x]
<1>1. SumOf(f, S) = SumOf(f, S \ {x}) + f[x]
  BY SumRemove
<1>2. SumOf(g, S) = SumOf(g, S \ {x}) + g[x]
  <2>1. \A y \in S : g[y] \in Int
    OBVIOUS
  <2> QED
    BY <2>1, SumRemove
<1>3. IsFiniteSet(S \ {x}) /\ \A y \in S \ {x} : f[y] \in Int /\ g[y] = f[y]
  <2>1. S \ {x} \in SUBSET S /\ \A y \in S \ {x} : y # x /\ y \in S
    OBVIOUS
  <2> QED
    BY <2>1, FS_Subset
<1>4. SumOf(g, S \ {x}) = SumOf(f, S \ {x})
  BY <1>3, SumSame
<1>5. SumOf(f, S \ {x}) \in Int
  BY <1>3, SumInt
<1> QED
  BY <1>1, <1>2, <1>4, <1>5

\* The same value everywhere.
LEMMA SumConstant ==
  ASSUME NEW S, IsFiniteSet(S), NEW k \in Int, NEW f, \A x \in S : f[x] = k
  PROVE  SumOf(f, S) = k * Cardinality(S)
<1> DEFINE t == [T \in SUBSET S |-> k * Cardinality(T)]
<1>1. Totals(t, f, S)
  <2>1. \A T \in SUBSET S : IsFiniteSet(T) /\ Cardinality(T) \in Nat
    BY FS_Subset, FS_CardinalityType
  <2>2. t \in [SUBSET S -> Int]
    BY <2>1
  <2>3. t[{}] = 0
    BY FS_EmptySet
  <2>4. ASSUME NEW T \in SUBSET S, NEW x \in S \ T
        PROVE  t[T \cup {x}] = t[T] + f[x]
    <3>1. Cardinality(T \cup {x}) = Cardinality(T) + 1
      BY <2>1, FS_AddElement
    <3>2. t[T \cup {x}] = k * (Cardinality(T) + 1) /\ t[T] = k * Cardinality(T) /\ f[x] = k
      BY <3>1
    <3>3. \A n \in Nat : k * (n + 1) = k * n + k
      OBVIOUS
    <3> QED
      BY <2>1, <3>2, <3>3
  <2> QED
    BY <2>2, <2>3, <2>4 DEF Totals
<1>2. \A x \in S : f[x] \in Int
  OBVIOUS
<1> HIDE DEF t
<1>3. SumOf(f, S) = t[S]
  BY <1>1, <1>2, SumIs
<1> QED
  BY <1>3 DEF t

\* Elements that add nothing may be left out.
LEMMA SumSupport ==
  ASSUME NEW S, IsFiniteSet(S), NEW T \in SUBSET S, NEW f,
         \A x \in T : f[x] \in Int, \A x \in S \ T : f[x] = 0
  PROVE  SumOf(f, S) = SumOf(f, T)
<1>1. IsFiniteSet(T) /\ IsFiniteSet(S \ T) /\ T \cap (S \ T) = {} /\ T \cup (S \ T) = S
  BY FS_Subset
<1>2. SumOf(f, T \cup (S \ T)) = SumOf(f, T) + SumOf(f, S \ T)
  <2>1. \A x \in T \cup (S \ T) : f[x] \in Int
    OBVIOUS
  <2> QED
    BY <1>1, <2>1, SumUnion
<1>3. SumOf(f, S) = SumOf(f, T) + SumOf(f, S \ T)
  BY <1>1, <1>2, Zenon
<1>4. SumOf(f, S \ T) = 0 * Cardinality(S \ T)
  BY <1>1, SumConstant
<1>5. Cardinality(S \ T) \in Nat /\ SumOf(f, T) \in Int
  BY <1>1, FS_CardinalityType, SumInt
<1> QED
  BY <1>3, <1>4, <1>5

\* A common factor.
LEMMA SumScale ==
  ASSUME NEW S, IsFiniteSet(S), NEW k \in Int, NEW f, NEW g,
         \A x \in S : f[x] \in Int /\ g[x] = k * f[x]
  PROVE  SumOf(g, S) = k * SumOf(f, S)
<1>1. PICK t : Totals(t, f, S)
  BY TotalsExist
<1> DEFINE u == [T \in SUBSET S |-> k * t[T]]
<1>2. Totals(u, g, S)
  <2>1. u \in [SUBSET S -> Int] /\ u[{}] = 0
    BY <1>1 DEF Totals
  <2>2. ASSUME NEW T \in SUBSET S, NEW x \in S \ T
        PROVE  u[T \cup {x}] = u[T] + g[x]
    <3>1. t[T \cup {x}] = t[T] + f[x] /\ t[T] \in Int /\ f[x] \in Int /\ g[x] = k * f[x]
      BY <1>1 DEF Totals
    <3>2. u[T \cup {x}] = k * t[T \cup {x}] /\ u[T] = k * t[T]
      OBVIOUS
    <3>3. \A m, n \in Int : k * (m + n) = k * m + k * n
      OBVIOUS
    <3> HIDE DEF u
    <3> QED
      BY <3>1, <3>2, <3>3
  <2> QED
    BY <2>1, <2>2 DEF Totals
<1>3. \A x \in S : g[x] \in Int
  OBVIOUS
<1>4. SumOf(f, S) = t[S]
  BY <1>1, SumIs
<1> HIDE DEF u
<1>5. SumOf(g, S) = u[S]
  BY <1>2, <1>3, SumIs
<1> QED
  BY <1>4, <1>5 DEF u

\* The same value at some elements and nothing at the others.
LEMMA SumWhere ==
  ASSUME NEW S, IsFiniteSet(S), NEW T \in SUBSET S, NEW k \in Int, NEW f,
         \A x \in T : f[x] = k, \A x \in S \ T : f[x] = 0
  PROVE  SumOf(f, S) = k * Cardinality(T)
<1>1. SumOf(f, S) = SumOf(f, T)
  <2>1. \A x \in T : f[x] \in Int
    OBVIOUS
  <2> QED
    BY <2>1, SumSupport
<1>2. SumOf(f, T) = k * Cardinality(T)
  BY FS_Subset, SumConstant
<1> QED
  BY <1>1, <1>2
=============================================================================
