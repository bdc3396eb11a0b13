----------------------------- MODULE DataLemmas -----------------------------
(***************************************************************************)
(* Facts about data that the proofs about several components need: least   *)
(* elements, definitions step by step, and sums over finite sets.          *)
(*                                                                         *)
(* The provers cannot instantiate a theorem with an operator parameter, an *)
(* induction rule least of all.  What holds of every finite set is proved  *)
(* here by its least counterexample, which needs no such parameter.        *)
(***************************************************************************)
EXTENDS FiniteSetTheorems, Sequences, TLAPS

(* A set of numbers has a least element. *)
LEMMA Least ==
    ASSUME NEW S \in SUBSET Nat, S # {}
    PROVE  \E x \in S : \A y \in S : x <= y
  <1>1. IsWellFoundedOn(OpToRel(<, Nat), Nat)
    BY NatLessThanWellFounded
  <1>2. \E x \in S : \A y \in S : ~ (<<y, x>> \in OpToRel(<, Nat))
    BY <1>1, WFMin, Zenon
  <1>3. PICK x \in S : \A y \in S : ~ (<<y, x>> \in OpToRel(<, Nat))
    BY <1>2
  <1>4. \A y \in S : ~ (y < x)
    BY <1>3 DEF OpToRel
  <1> QED
    BY <1>4

(* Among subsets of a finite set there is one that has none of the others  *)
(* in it.                                                                  *)
LEMMA Smallest ==
    ASSUME NEW S, IsFiniteSet(S), NEW family \in SUBSET SUBSET S, family # {}
    PROVE  \E T \in family : \A U \in family : U \subseteq T => U = T
  <1>1. IsWellFoundedOn(StrictSubsetOrdering(S), FiniteSubsetsOf(S))
    BY FS_StrictSubsetOrderingWellFounded
  <1>2. family \subseteq FiniteSubsetsOf(S)
    BY FS_FiniteSubsetsOfFinite
  <1>3. \E T \in family : \A U \in family : ~ (<<U, T>> \in StrictSubsetOrdering(S))
    BY <1>1, <1>2, WFMin, Zenon
  <1>4. PICK T \in family : \A U \in family : ~ (<<U, T>> \in StrictSubsetOrdering(S))
    BY <1>3
  <1>5. ASSUME NEW U \in family, U \subseteq T PROVE U = T
    BY <1>4, <1>5 DEF StrictSubsetOrdering
  <1> QED
    BY <1>5

(* A set of numbers that has 0, and with a number the next one up to N,    *)
(* has them all: induction.                                                *)
LEMMA UpTo ==
    ASSUME NEW N \in Nat, NEW S, 0 \in S, \A n \in 1..N : n - 1 \in S => n \in S
    PROVE  0..N \subseteq S
  <1> DEFINE Missing == (0..N) \ S
  <1> SUFFICES ASSUME Missing # {} PROVE FALSE
    OBVIOUS
  <1>1. PICK n \in Missing : \A m \in Missing : n <= m
    <2>1. Missing \in SUBSET Nat
      OBVIOUS
    <2> HIDE DEF Missing
    <2> QED
      BY <2>1, Least
  <1>2. n \in 1..N /\ n - 1 \in 0..N /\ ~ (n <= n - 1)
    BY <1>1
  <1>3. n - 1 \in S
    BY <1>1, <1>2
  <1> QED
    BY <1>1, <1>2, <1>3

(* g starts with base, and step[n] makes g[n] of g[n - 1]. *)
Recurs(g, base, step, N) ==
    g[0] = base /\ \A n \in 1..N : g[n] = step[n][g[n - 1]]

StaysIn(T, step, N) == \A n \in 1..N : \A x \in T : step[n][x] \in T

(* A function can be defined from its values at the numbers before. *)
LEMMA RecursionExists ==
    ASSUME NEW N \in Nat, NEW T, NEW base \in T, NEW step, StaysIn(T, step, N)
    PROVE  \E g \in [0..N -> T] : Recurs(g, base, step, N)
  <1> DEFINE Defines(g, m) ==
               /\ g \in [0..m -> T]
               /\ g[0] = base
               /\ \A n \in 1..m : g[n] = step[n][g[n - 1]]
             Reached == {m \in 0..N : \E g : Defines(g, m)}
  <1>1. 0 \in Reached
    <2> DEFINE g == [n \in 0..0 |-> base]
    <2>1. Defines(g, 0)
      OBVIOUS
    <2> HIDE DEF g
    <2>2. \E f : Defines(f, 0)
      BY <2>1
    <2> QED
      BY <2>2
  <1>2. ASSUME NEW m \in 1..N, m - 1 \in Reached PROVE m \in Reached
    <2>1. PICK g : Defines(g, m - 1)
      BY <1>2
    <2> DEFINE h == [n \in 0..m |-> IF n = m THEN step[m][g[m - 1]] ELSE g[n]]
    <2>2. g[m - 1] \in T
      BY <2>1
    <2>3. step[m][g[m - 1]] \in T
      BY <2>2 DEF StaysIn
    <2>4. h \in [0..m -> T]
      BY <2>1, <2>3
    <2>5. h[0] = base
      BY <2>1
    <2>6. ASSUME NEW n \in 1..m PROVE h[n] = step[n][h[n - 1]]
      <3>1. h[n - 1] = g[n - 1]
        OBVIOUS
      <3>2. CASE n = m
        BY <3>1, <3>2
      <3>3. CASE n # m
        BY <2>1, <3>1, <3>3
      <3> QED
        BY <3>2, <3>3
    <2> HIDE DEF h
    <2>7. Defines(h, m)
      BY <2>4, <2>5, <2>6
    <2>8. \E f : Defines(f, m)
      BY <2>7
    <2> QED
      BY <2>8
  <1>3. N \in Reached
    <2> HIDE DEF Reached
    <2>1. 0..N \subseteq Reached
      BY <1>1, <1>2, UpTo
    <2> QED
      BY <2>1
  <1> QED
    BY <1>3 DEF Recurs

-----------------------------------------------------------------------------
(* Sums.  SumFunctionOnSet takes the elements of a set out one by one.     *)

Some(s) == CHOOSE x \in s : TRUE

(* g has, for each of the sets, the sum of fun over it. *)
Sums(g, fun, sets) ==
    g = [s \in sets |-> IF s = {} THEN 0 ELSE fun[Some(s)] + g[s \ {Some(s)}]]

LEMMA SomeIn == ASSUME NEW s, s # {} PROVE Some(s) \in s
  BY DEF Some

(* There are such sums: first for the sets of few elements, then for those *)
(* of more.                                                                *)
LEMMA SumsExist ==
    ASSUME NEW fun, NEW S, IsFiniteSet(S)
    PROVE  \E g : Sums(g, fun, SUBSET S)
  <1> DEFINE Small(n) == {s \in SUBSET S : Cardinality(s) <= n}
             Missing == {n \in Nat : ~ \E g : Sums(g, fun, Small(n))}
  <1>1. \A s \in SUBSET S : IsFiniteSet(s) /\ Cardinality(s) \in Nat
    BY FS_Subset, FS_CardinalityType
  <1>2. Missing = {}
    <2> SUFFICES ASSUME Missing # {} PROVE FALSE
      OBVIOUS
    <2>1. PICK n \in Missing : \A m \in Missing : n <= m
      <3>1. Missing \in SUBSET Nat
        OBVIOUS
      <3> HIDE DEF Missing
      <3> QED
        BY <3>1, Least
    <2>0. n \in Nat
      BY <2>1
    <2>2. CASE n = 0
      <3> DEFINE g == [s \in Small(0) |-> 0]
      <3>1. \A s \in Small(0) : s = {}
        BY <1>1, FS_EmptySet
      <3>2. Sums(g, fun, Small(0))
        BY <3>1 DEF Sums
      <3> QED
        BY <2>2, <3>2
    <2>3. CASE n # 0
      <3>1. n - 1 \in Nat /\ n - 1 \notin Missing
        <4> HIDE DEF Missing
        <4> QED
          BY <2>0, <2>1, <2>3
      <3>2. PICK g : Sums(g, fun, Small(n - 1))
        BY <3>1
      <3> DEFINE h == [s \in Small(n) |->
                         IF s = {} THEN 0 ELSE fun[Some(s)] + g[s \ {Some(s)}]]
      <3>3. ASSUME NEW s \in Small(n - 1) PROVE h[s] = g[s]
        <4>1. s \in Small(n)
          BY <1>1, <2>1
        <4>2. g[s] = IF s = {} THEN 0 ELSE fun[Some(s)] + g[s \ {Some(s)}]
          BY <3>2 DEF Sums
        <4> QED
          BY <4>1, <4>2
      <3>4. ASSUME NEW s \in Small(n), s # {} PROVE s \ {Some(s)} \in Small(n - 1)
        <4>1. Some(s) \in s
          BY <3>4, SomeIn
        <4>2. Cardinality(s \ {Some(s)}) = Cardinality(s) - 1
          BY <1>1, <4>1, FS_RemoveElement
        <4> QED
          BY <1>1, <2>1, <4>2
      <3>5. Sums(h, fun, Small(n))
        BY <3>3, <3>4 DEF Sums
      <3> QED
        BY <2>1, <3>5
    <2> QED
      BY <2>2, <2>3
  <1>3. Cardinality(S) \in Nat /\ Small(Cardinality(S)) = SUBSET S
    BY <1>1, FS_Subset, FS_CardinalityType
  <1>4. \E g : Sums(g, fun, Small(Cardinality(S)))
    BY <1>2, <1>3
  <1> QED
    BY <1>3, <1>4

(* There is only one sum over a set, whatever set it is a part of. *)
LEMMA SumsAgree ==
    ASSUME NEW fun, NEW S, IsFiniteSet(S), NEW T \in SUBSET S, NEW g, NEW h,
           Sums(g, fun, SUBSET S), Sums(h, fun, SUBSET T)
    PROVE  \A t \in SUBSET T : g[t] = h[t]
  <1> DEFINE Wrong == {t \in SUBSET T : g[t] # h[t]}
  <1> SUFFICES ASSUME Wrong # {} PROVE FALSE
    OBVIOUS
  <1>1. PICK t \in Wrong : \A u \in Wrong : u \subseteq t => u = t
    <2>1. Wrong \in SUBSET SUBSET T /\ IsFiniteSet(T)
      BY FS_Subset
    <2> HIDE DEF Wrong
    <2> QED
      BY <2>1, Smallest
  <1>2. /\ g[t] = IF t = {} THEN 0 ELSE fun[Some(t)] + g[t \ {Some(t)}]
        /\ h[t] = IF t = {} THEN 0 ELSE fun[Some(t)] + h[t \ {Some(t)}]
    BY <1>1 DEF Sums
  <1>3. t # {}
    BY <1>1, <1>2
  <1>4. t \ {Some(t)} \notin Wrong
    BY <1>1, <1>3, SomeIn
  <1>5. g[t \ {Some(t)}] = h[t \ {Some(t)}]
    BY <1>1, <1>4
  <1> QED
    BY <1>1, <1>2, <1>5

LEMMA SumIs ==
    ASSUME NEW fun, NEW S, IsFiniteSet(S), NEW g, Sums(g, fun, SUBSET S)
    PROVE  SumFunctionOnSet(fun, S) = g[S]
  <1> DEFINE iter == CHOOSE f : Sums(f, fun, SUBSET S)
  <1>1. SumFunctionOnSet(fun, S) = iter[S]
    BY DEF SumFunctionOnSet, FoldFunctionOnSet, MapThenFoldSet, Sums, Some
  <1>2. Sums(iter, fun, SUBSET S)
    OBVIOUS
  <1> HIDE DEF iter
  <1>3. iter[S] = g[S]
    BY <1>2, SumsAgree
  <1> QED
    BY <1>1, <1>3

(* The sum over a set is that over the rest of it and one element. *)
LEMMA SumUnfolds ==
    ASSUME NEW fun, NEW S, IsFiniteSet(S)
    PROVE  SumFunctionOnSet(fun, S)
             = IF S = {} THEN 0
               ELSE fun[Some(S)] + SumFunctionOnSet(fun, S \ {Some(S)})
  <1>1. PICK g : Sums(g, fun, SUBSET S)
    BY SumsExist
  <1> DEFINE rest == S \ {Some(S)}
  <1>2. IsFiniteSet(rest) /\ rest \in SUBSET S
    BY FS_Subset
  <1>3. PICK h : Sums(h, fun, SUBSET rest)
    BY <1>2, SumsExist
  <1>4. g[rest] = h[rest]
    <2> HIDE DEF rest
    <2>1. \A t \in SUBSET rest : g[t] = h[t]
      BY <1>1, <1>2, <1>3, SumsAgree
    <2> QED
      BY <2>1
  <1>5. /\ SumFunctionOnSet(fun, S) = g[S]
        /\ SumFunctionOnSet(fun, rest) = h[rest]
    BY <1>1, <1>2, <1>3, SumIs
  <1>6. g[S] = IF S = {} THEN 0 ELSE fun[Some(S)] + g[rest]
    BY <1>1 DEF Sums
  <1> QED
    BY <1>4, <1>5, <1>6

(* What is counted part by part is counted once: the sizes of disjoint     *)
(* parts add up to the size of their union.                                *)
LEMMA SumOfParts ==
    ASSUME NEW I, IsFiniteSet(I), NEW F, IsFiniteSet(F),
           NEW part, \A f \in F : part[f] \subseteq I,
           \A f, g \in F : f # g => part[f] \cap part[g] = {},
           NEW count, \A f \in F : count[f] = Cardinality(part[f])
    PROVE  SumFunctionOnSet(count, F) = Cardinality({i \in I : \E f \in F : i \in part[f]})
  <1> DEFINE All(T) == {i \in I : \E f \in T : i \in part[f]}
             Wrong == {T \in SUBSET F : SumFunctionOnSet(count, T) # Cardinality(All(T))}
  <1> SUFFICES ASSUME Wrong # {} PROVE FALSE
    OBVIOUS
  <1>1. PICK T \in Wrong : \A U \in Wrong : U \subseteq T => U = T
    <2>1. Wrong \in SUBSET SUBSET F /\ IsFiniteSet(F)
      BY FS_Subset
    <2> HIDE DEF Wrong
    <2> QED
      BY <2>1, Smallest
  <1>2. IsFiniteSet(T) /\ T \subseteq F
    BY <1>1, FS_Subset
  <1>3. T # {}
    <2>1. SumFunctionOnSet(count, {}) = 0
      BY FS_EmptySet, SumUnfolds
    <2>2. All({}) = {}
      OBVIOUS
    <2>3. Cardinality(All({})) = 0
      BY <2>2, FS_EmptySet
    <2> QED
      BY <1>1, <2>1, <2>3
  <1> DEFINE f == Some(T)
             rest == T \ {f}
  <1>4. f \in T
    BY <1>3, SomeIn
  <1>5. SumFunctionOnSet(count, rest) = Cardinality(All(rest))
    <2>1. rest \in SUBSET F /\ rest \subseteq T /\ rest # T
      BY <1>2, <1>4
    <2> QED
      BY <1>1, <2>1
  <1>6. SumFunctionOnSet(count, T) = count[f] + SumFunctionOnSet(count, rest)
    BY <1>2, <1>3, SumUnfolds
  <1>7. count[f] = Cardinality(part[f])
    BY <1>2, <1>4
  <1>8. All(T) = part[f] \cup All(rest) /\ part[f] \cap All(rest) = {}
    BY <1>2, <1>4
  <1>9. IsFiniteSet(part[f]) /\ IsFiniteSet(All(rest))
    BY <1>2, <1>4, FS_Subset
  <1>10. Cardinality(All(T)) = Cardinality(part[f]) + Cardinality(All(rest))
    <2> HIDE DEF f, rest, All
    <2>1. Cardinality(part[f] \cup All(rest))
            = Cardinality(part[f]) + Cardinality(All(rest)) - Cardinality(part[f] \cap All(rest))
      BY <1>9, FS_Union
    <2>2. Cardinality(part[f] \cap All(rest)) = 0
      BY <1>8, FS_EmptySet
    <2>3. Cardinality(part[f]) \in Nat /\ Cardinality(All(rest)) \in Nat
      BY <1>9, FS_CardinalityType
    <2> QED
      BY <1>8, <2>1, <2>2, <2>3
  <1> HIDE DEF f, rest, All
  <1>11. SumFunctionOnSet(count, T) = Cardinality(All(T))
    BY <1>5, <1>6, <1>7, <1>10
  <1> QED
    BY <1>1, <1>11

-----------------------------------------------------------------------------
(* Sorting. *)

Keyed(S, key) == \A x \in S : key[x] \in Int

(* A finite set whose elements have a number has one with the greatest. *)
LEMMA Greatest ==
    ASSUME NEW S, IsFiniteSet(S), S # {}, NEW key, Keyed(S, key)
    PROVE  \E x \in S : \A y \in S : key[y] <= key[x]
  <1> DEFINE Wrong == {T \in SUBSET S : T # {} /\ ~ \E x \in T : \A y \in T : key[y] <= key[x]}
  <1> SUFFICES ASSUME Wrong # {} PROVE FALSE
    OBVIOUS
  <1>1. PICK T \in Wrong : \A U \in Wrong : U \subseteq T => U = T
    <2>1. Wrong \in SUBSET SUBSET S
      OBVIOUS
    <2> HIDE DEF Wrong
    <2> QED
      BY <2>1, Smallest
  <1>2. PICK x : x \in T
    BY <1>1
  <1>3. T \ {x} \in SUBSET S /\ T \ {x} \notin Wrong
    BY <1>1, <1>2
  <1>4. CASE T \ {x} = {}
    BY <1>1, <1>2, <1>4 DEF Keyed
  <1>5. CASE T \ {x} # {}
    <2>1. PICK z \in T \ {x} : \A y \in T \ {x} : key[y] <= key[z]
      BY <1>3, <1>5
    <2>2. \A y \in T : key[y] \in Int
      BY <1>1 DEF Keyed
    <2> QED
      BY <1>1, <1>2, <2>1, <2>2
  <1> QED
    BY <1>4, <1>5

(* The elements of T, one after the other, none before a smaller one. *)
Ordered(order, T, key) ==
    /\ order \in [1..Cardinality(T) -> T]
    /\ \A x \in T : \E n \in DOMAIN order : order[n] = x
    /\ \A m, n \in DOMAIN order : order[m] = order[n] => m = n
    /\ \A m, n \in DOMAIN order : m < n => key[order[m]] <= key[order[n]]

(* Such a finite set can be sorted. *)
LEMMA OrderExists ==
    ASSUME NEW S, IsFiniteSet(S), NEW key, Keyed(S, key)
    PROVE  \E order : Ordered(order, S, key)
  <1> DEFINE Wrong == {T \in SUBSET S : ~ \E order : Ordered(order, T, key)}
  <1> SUFFICES ASSUME Wrong # {} PROVE FALSE
    OBVIOUS
  <1>1. PICK T \in Wrong : \A U \in Wrong : U \subseteq T => U = T
    <2>1. Wrong \in SUBSET SUBSET S
      OBVIOUS
    <2> HIDE DEF Wrong
    <2> QED
      BY <2>1, Smallest
  <1>2. IsFiniteSet(T) /\ Keyed(T, key)
    BY <1>1, FS_Subset DEF Keyed
  <1>3. T # {}
    <2>1. Ordered([n \in {} |-> n], {}, key)
      BY FS_EmptySet DEF Ordered
    <2> QED
      BY <1>1, <2>1
  <1>4. PICK x \in T : \A y \in T : key[y] <= key[x]
    BY <1>2, <1>3, Greatest
  <1> DEFINE rest == T \ {x}
             count == Cardinality(rest)
  <1>5. PICK before : Ordered(before, rest, key)
    <2>1. rest \in SUBSET S /\ rest \subseteq T /\ rest # T
      BY <1>1, <1>4
    <2> QED
      BY <1>1, <2>1
  <1>6. count \in Nat /\ Cardinality(T) = count + 1
    <2>1. IsFiniteSet(rest)
      BY <1>2, FS_Subset
    <2>2. count \in Nat
      BY <2>1, FS_CardinalityType
    <2>3. T = rest \cup {x} /\ x \notin rest
      BY <1>4
    <2>4. Cardinality(rest \cup {x}) = count + 1
      BY <2>1, <2>3, FS_AddElement
    <2> QED
      BY <2>2, <2>3, <2>4
  <1> DEFINE order == [n \in 1..count + 1 |-> IF n = count + 1 THEN x ELSE before[n]]
  <1>7. /\ before \in [1..count -> rest]
        /\ \A y \in rest : \E n \in 1..count : before[n] = y
        /\ \A m, n \in 1..count : before[m] = before[n] => m = n
        /\ \A m, n \in 1..count : m < n => key[before[m]] <= key[before[n]]
    BY <1>5 DEF Ordered
  <1>8. rest \subseteq T /\ x \notin rest /\ T = rest \cup {x}
    BY <1>4
  <1> HIDE DEF rest, count
  <1>9. order \in [1..count + 1 -> T]
    BY <1>6, <1>7, <1>8
  <1>10. \A n \in 1..count : order[n] = before[n] /\ order[n] \in rest
    BY <1>6, <1>7
  <1>11. order[count + 1] = x /\ DOMAIN order = 1..count + 1
    BY <1>6
  <1>12. \A n \in 1..count + 1 : n = count + 1 \/ n \in 1..count
    BY <1>6
  <1> HIDE DEF order
  <1>13. ASSUME NEW y \in T PROVE \E n \in 1..count + 1 : order[n] = y
    <2>1. CASE y = x
      BY <1>6, <1>11, <2>1
    <2>2. CASE y \in rest
      <3>1. PICK n \in 1..count : before[n] = y
        BY <1>7, <2>2
      <3> QED
        BY <1>6, <1>10, <3>1
    <2> QED
      BY <1>8, <2>1, <2>2
  <1>14. ASSUME NEW m \in 1..count + 1, NEW n \in 1..count + 1
         PROVE  /\ order[m] = order[n] => m = n
                /\ m < n => key[order[m]] <= key[order[n]]
    <2>1. CASE m \in 1..count /\ n \in 1..count
      BY <1>7, <1>10, <2>1
    <2>2. CASE m = count + 1 /\ n \in 1..count
      BY <1>6, <1>8, <1>10, <1>11, <2>2
    <2>3. CASE n = count + 1 /\ m \in 1..count
      BY <1>4, <1>6, <1>8, <1>10, <1>11, <2>3
    <2>4. CASE m = count + 1 /\ n = count + 1
      BY <1>6, <2>4
    <2> QED
      BY <1>12, <2>1, <2>2, <2>3, <2>4
  <1>15. Ordered(order, T, key)
    BY <1>6, <1>9, <1>11, <1>13, <1>14 DEF Ordered
  <1> QED
    BY <1>1, <1>15
=============================================================================
