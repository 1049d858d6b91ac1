-------------------------- MODULE ProductionProofs --------------------------
(***************************************************************************)
(* Proofs about Production, for any finite sets of machines and products,  *)
(* any lags, buckets, limits and calendar: all that the runs check.        *)
(*                                                                         *)
(* Statistics are sums over pairs of rows that follow each other, so the   *)
(* first section is about sums over finite sets; their lemmas are proved   *)
(* by a smallest subset that contradicts them (Smaller).  The system       *)
(* itself needs one invariant: a later row has not counted more than was   *)
(* made since (Follows).  From there on every statistic is a question      *)
(* about one set of rows: what changes from row to row adds up to what     *)
(* changed from the first to the last (Telescope), and what is counted by  *)
(* class is counted once (SumClasses).                                     *)
(***************************************************************************)
EXTENDS Production, FiniteSetTheorems, WellFoundedInduction, TLAPS

-----------------------------------------------------------------------------
(* Finite sets and sums over them. *)

\* What holds of the empty set, and of a subset if it holds without one of its
\* members, holds of every subset of a finite set.
LEMMA Smaller ==
    ASSUME NEW S, IsFiniteSet(S), NEW Q,
           \A T \in SUBSET S : T = {} => T \in Q,
           \A T \in SUBSET S : T # {} => \E x \in T : T \ {x} \in Q => T \in Q
    PROVE  \A T \in SUBSET S : T \in Q
  <1> DEFINE N == {n \in Nat : \E T \in SUBSET S : T \notin Q /\ Cardinality(T) = n}
             R == OpToRel(<, Nat)
  <1> SUFFICES ASSUME NEW T0 \in SUBSET S, T0 \notin Q PROVE FALSE
    OBVIOUS
  <1>1. \A T \in SUBSET S : IsFiniteSet(T) /\ Cardinality(T) \in Nat
    BY FS_Subset, FS_CardinalityType
  <1>2. N # {} /\ N \in SUBSET Nat
    BY <1>1
  <1>3. \E n \in N : \A k \in N : ~(<<k, n>> \in R)
    <2>1. IsWellFoundedOn(R, Nat)
      BY NatLessThanWellFounded
    <2> HIDE DEF R, N
    <2>2. QED
      BY <1>2, <2>1, WFMin
  <1>4. PICK n \in N : \A k \in N : ~(k < n)
    BY <1>3 DEF OpToRel
  <1>5. PICK T \in SUBSET S : T \notin Q /\ Cardinality(T) = n
    OBVIOUS
  <1>6. PICK x \in T : T \ {x} \in Q => T \in Q
    BY <1>5
  <1>7. Cardinality(T \ {x}) = n - 1 /\ n \in Nat /\ n - 1 < n
    BY <1>1, <1>5, FS_RemoveElement
  <1>8. T \ {x} \in SUBSET S /\ T \ {x} \notin Q /\ Cardinality(T \ {x}) \in Nat
    BY <1>1, <1>5, <1>6
  <1>9. n - 1 \in N
    BY <1>7, <1>8
  <1>10. QED
    BY <1>4, <1>7, <1>9

\* The same, for a property that is known of a set when it is known without each member.
LEMMA SmallerAll ==
    ASSUME NEW S, IsFiniteSet(S), NEW Q,
           \A T \in SUBSET S : T = {} => T \in Q,
           \A T \in SUBSET S : T # {} /\ (\A x \in T : T \ {x} \in Q) => T \in Q
    PROVE  \A T \in SUBSET S : T \in Q
  <1>1. ASSUME NEW T \in SUBSET S, T # {} PROVE \E x \in T : T \ {x} \in Q => T \in Q
    <2>1. CASE T \in Q
      BY <1>1, <2>1
    <2>2. CASE \E x \in T : T \ {x} \notin Q
      BY <2>2
    <2>3. QED
      BY <1>1, <2>1, <2>2
  <1>2. QED
    BY <1>1, Smaller

\* The values of a function on a finite set are finitely many.
LEMMA ImageFinite ==
    ASSUME NEW S, IsFiniteSet(S), NEW f
    PROVE  IsFiniteSet({f[x] : x \in S})
  <1> DEFINE g == [x \in S |-> f[x]]
             T == {f[x] : x \in S}
  <1>1. g \in Surjection(S, T)
    BY DEF Surjection
  <1> HIDE DEF g, T
  <1>2. IsFiniteSet(T)
    BY <1>1, FS_Surjection
  <1>3. QED
    BY <1>2 DEF T

\* The recursive function inside SumFunctionOnSet.
Adds(g, f, S) ==
    g = [T \in SUBSET S |->
            IF T = {} THEN 0 ELSE f[CHOOSE x \in T : TRUE] + g[T \ {CHOOSE x \in T : TRUE}]]

\* The sum is what such a function says of the whole set, by definition.
LEMMA SumAdds ==
    ASSUME NEW f, NEW S
    PROVE  SumFunctionOnSet(f, S) = (CHOOSE g : Adds(g, f, S))[S]
  BY DEF SumFunctionOnSet, FoldFunctionOnSet, MapThenFoldSet, Adds

\* The sum is what a function that adds up the subsets says of the whole set.
LEMMA SumByFunction ==
    ASSUME NEW S, IsFiniteSet(S), NEW f, \A x \in S : f[x] \in Int
    PROVE  \E g \in [SUBSET S -> Int] : Adds(g, f, S) /\ SumFunctionOnSet(f, S) = g[S]
  <1> DEFINE Pick(T) == CHOOSE x \in T : TRUE
             Upto(n) == {g \in [SUBSET S -> Int] : \A T \in SUBSET S : Cardinality(T) <= n =>
                            g[T] = IF T = {} THEN 0 ELSE f[Pick(T)] + g[T \ {Pick(T)}]}
             Bad == {n \in Nat : Upto(n) = {}}
             R == OpToRel(<, Nat)
  <1>1. \A T \in SUBSET S : IsFiniteSet(T) /\ Cardinality(T) \in Nat /\ (Cardinality(T) = 0 <=> T = {})
    BY FS_Subset, FS_CardinalityType, FS_EmptySet
  <1>2. \A T \in SUBSET S : T # {} => Pick(T) \in T
    OBVIOUS
  <1> HIDE DEF Pick
  <1>3. \A T \in SUBSET S : T # {} => Cardinality(T \ {Pick(T)}) = Cardinality(T) - 1
    BY <1>1, <1>2, FS_RemoveElement
  <1>4. ASSUME NEW n \in Nat, NEW g \in [SUBSET S -> Int], g \in Upto(n) PROVE Upto(n + 1) # {}
    <2> DEFINE h == [T \in SUBSET S |-> IF T = {} THEN 0 ELSE f[Pick(T)] + g[T \ {Pick(T)}]]
    <2>1. h \in [SUBSET S -> Int]
      BY <1>2
    <2>2. ASSUME NEW T \in SUBSET S, Cardinality(T) <= n + 1, T # {}
          PROVE  h[T] = f[Pick(T)] + h[T \ {Pick(T)}]
      <3> DEFINE U == T \ {Pick(T)}
      <3>1. U \in SUBSET S /\ Cardinality(U) <= n
        BY <1>1, <1>3, <2>2
      <3>2. g[U] = IF U = {} THEN 0 ELSE f[Pick(U)] + g[U \ {Pick(U)}]
        BY <1>4, <3>1
      <3>3. h[T] = f[Pick(T)] + g[U] /\ h[U] = IF U = {} THEN 0 ELSE f[Pick(U)] + g[U \ {Pick(U)}]
        BY <2>2, <3>1
      <3>4. QED
        BY <3>2, <3>3
    <2>3. h \in Upto(n + 1)
      <3> HIDE DEF h
      <3>1. h[{}] = 0
        BY DEF h
      <3>2. QED
        BY <2>1, <2>2, <3>1
    <2>4. QED
      BY <2>3
  <1>5. Upto(0) # {}
    <2>1. [T \in SUBSET S |-> 0] \in Upto(0)
      BY <1>1
    <2>2. QED
      BY <2>1
  <1>6. Bad = {}
    <2> SUFFICES ASSUME Bad # {} PROVE FALSE
      OBVIOUS
    <2> HIDE DEF Upto
    <2>1. \E n \in Bad : \A k \in Bad : ~(<<k, n>> \in R)
      <3>1. IsWellFoundedOn(R, Nat)
        BY NatLessThanWellFounded
      <3>2. Bad \in SUBSET Nat
        OBVIOUS
      <3> HIDE DEF R, Bad
      <3>3. QED
        BY <3>1, <3>2, WFMin
    <2>2. PICK n \in Bad : \A k \in Bad : ~(k < n)
      BY <2>1 DEF OpToRel
    <2>3. n # 0 /\ n - 1 \in Nat /\ n - 1 < n
      BY <1>5
    <2>4. PICK g \in Upto(n - 1) : TRUE
      BY <2>2, <2>3
    <2>5. g \in [SUBSET S -> Int]
      BY <2>4 DEF Upto
    <2>6. Upto((n - 1) + 1) # {}
      BY <1>4, <2>3, <2>4, <2>5
    <2>7. QED
      BY <2>2, <2>3, <2>6
  <1>7. PICK g \in Upto(Cardinality(S)) : TRUE
    BY <1>1, <1>6
  <1>8. \A T \in SUBSET S : Cardinality(T) <= Cardinality(S)
    BY FS_Subset
  <1>9. Adds(g, f, S)
    <2>1. \A T \in SUBSET S : g[T] = IF T = {} THEN 0 ELSE f[Pick(T)] + g[T \ {Pick(T)}]
      BY <1>7, <1>8
    <2>2. g \in [SUBSET S -> Int]
      BY <1>7
    <2>3. g = [T \in SUBSET S |-> g[T]]
      BY <2>2
    <2>4. QED
      BY <2>1, <2>3 DEF Adds, Pick
  <1>10. Adds(CHOOSE k : Adds(k, f, S), f, S)
    BY <1>9
  <1> DEFINE k == CHOOSE k : Adds(k, f, S)
  <1>11. k \in [SUBSET S -> Int] /\ SumFunctionOnSet(f, S) = k[S]
    <2>1. SumFunctionOnSet(f, S) = k[S]
      BY SumAdds
    <2>2. k = [T \in SUBSET S |-> IF T = {} THEN 0 ELSE f[Pick(T)] + k[T \ {Pick(T)}]]
      BY <1>10 DEF Adds, Pick
    <2> HIDE DEF k
    <2> DEFINE Q == {T \in SUBSET S : k[T] \in Int}
    <2>3. k[{}] = 0 /\ \A T \in SUBSET S : T # {} => k[T] = f[Pick(T)] + k[T \ {Pick(T)}]
      BY <2>2
    <2>4. \A T \in SUBSET S : T \in Q
      <3>1. \A T \in SUBSET S : T # {} => \E x \in T : T \ {x} \in Q => T \in Q
        <4> SUFFICES ASSUME NEW T \in SUBSET S, T # {}, T \ {Pick(T)} \in Q PROVE T \in Q
          BY <1>2
        <4>1. k[T] = f[Pick(T)] + k[T \ {Pick(T)}] /\ f[Pick(T)] \in Int /\ k[T \ {Pick(T)}] \in Int
          BY <1>2, <2>3
        <4>2. QED
          BY <4>1
      <3>2. \A T \in SUBSET S : T = {} => T \in Q
        BY <2>3
      <3> HIDE DEF Q
      <3>3. QED
        BY <3>1, <3>2, Smaller
    <2>5. QED
      BY <2>1, <2>2, <2>4
  <1>12. QED
    BY <1>10, <1>11

\* A function that adds up subsets, by whatever member comes last.
AddsAny(g, f, S) ==
    /\ \A T \in SUBSET S : g[T] \in Int /\ (T = {} => g[T] = 0)
    /\ \A T \in SUBSET S : \A x \in T : g[T] = f[x] + g[T \ {x}]

\* A function that adds up by chosen members does so by any.
LEMMA AnyMember ==
    ASSUME NEW S, IsFiniteSet(S), NEW f, \A x \in S : f[x] \in Int
    PROVE  \E g : AddsAny(g, f, S) /\ SumFunctionOnSet(f, S) = g[S]
  <1>0. PICK g \in [SUBSET S -> Int] : Adds(g, f, S) /\ SumFunctionOnSet(f, S) = g[S]
    BY SumByFunction
  <1> DEFINE Pick(T) == CHOOSE x \in T : TRUE
             Q == {T \in SUBSET S : \A x \in T : g[T] = f[x] + g[T \ {x}]}
  <1>1. \A T \in SUBSET S : g[T] = IF T = {} THEN 0 ELSE f[Pick(T)] + g[T \ {Pick(T)}]
    BY <1>0 DEF Adds
  <1>2. \A T \in SUBSET S : T # {} => Pick(T) \in T
    OBVIOUS
  <1> HIDE DEF Pick
  <1>3. ASSUME NEW T \in SUBSET S, \A U \in SUBSET S : U \subseteq T /\ U # T => U \in Q
        PROVE  T \in Q
    <2> SUFFICES ASSUME NEW x \in T PROVE g[T] = f[x] + g[T \ {x}]
      OBVIOUS
    <2> DEFINE c == Pick(T)
    <2>1. c \in T /\ g[T] = f[c] + g[T \ {c}]
      BY <1>1, <1>2
    <2> HIDE DEF c
    <2>2. CASE x = c
      BY <2>1, <2>2
    <2>3. CASE x # c
      <3>1. T \ {c} \in Q /\ T \ {x} \in Q
        BY <1>3, <2>1
      <3>2. g[T \ {c}] = f[x] + g[(T \ {c}) \ {x}]
        BY <2>3, <3>1
      <3>3. g[T \ {x}] = f[c] + g[(T \ {x}) \ {c}]
        BY <2>1, <2>3, <3>1
      <3>4. (T \ {c}) \ {x} = (T \ {x}) \ {c} /\ (T \ {c}) \ {x} \in SUBSET S
        OBVIOUS
      <3>5. f[x] \in Int /\ f[c] \in Int /\ g[(T \ {c}) \ {x}] \in Int
        BY <2>1, <3>4
      <3> DEFINE r == g[(T \ {c}) \ {x}]
      <3>6. g[T] = f[c] + (f[x] + r) /\ g[T \ {x}] = f[c] + r /\ r \in Int
        BY <2>1, <3>2, <3>3, <3>4, <3>5
      <3>7. QED
        BY <3>5, <3>6
    <2>4. QED
      BY <2>2, <2>3
  <1>4. \A T \in SUBSET S : T \in Q
    <2> DEFINE P == {T \in SUBSET S : \A U \in SUBSET T : U \in Q}
    <2>1. \A T \in SUBSET S : T = {} => T \in P
      BY <1>1
    <2>2. ASSUME NEW T \in SUBSET S, T # {}, \A x \in T : T \ {x} \in P PROVE T \in P
      <3>1. \A U \in SUBSET S : U \subseteq T /\ U # T => U \in Q
        <4> SUFFICES ASSUME NEW U \in SUBSET S, U \subseteq T, U # T PROVE U \in Q
          OBVIOUS
        <4>1. PICK x \in T : x \notin U
          OBVIOUS
        <4>2. U \in SUBSET (T \ {x}) /\ T \ {x} \in P
          BY <2>2, <4>1
        <4>3. QED
          BY <4>2
      <3>2. T \in Q
        BY <1>3, <3>1
      <3> HIDE DEF Q
      <3>3. QED
        BY <3>1, <3>2
    <2> HIDE DEF Q, P
    <2>3. \A T \in SUBSET S : T \in P
      BY <2>1, <2>2, SmallerAll
    <2>4. QED
      BY <2>3 DEF P
  <1>5. AddsAny(g, f, S)
    BY <1>0, <1>1, <1>4 DEF AddsAny
  <1>6. QED
    BY <1>0, <1>5

\* A sum is an integer, of nothing it is 0, and any member may be added last.
LEMMA SumStep ==
    ASSUME NEW S, IsFiniteSet(S), NEW f, \A x \in S : f[x] \in Int
    PROVE  /\ SumFunctionOnSet(f, S) \in Int
           /\ S = {} => SumFunctionOnSet(f, S) = 0
           /\ \A x \in S : /\ SumFunctionOnSet(f, S \ {x}) \in Int
                           /\ SumFunctionOnSet(f, S) = f[x] + SumFunctionOnSet(f, S \ {x})
  <1>1. PICK g : AddsAny(g, f, S) /\ SumFunctionOnSet(f, S) = g[S]
    BY AnyMember
  <1>2. /\ \A T \in SUBSET S : g[T] \in Int /\ (T = {} => g[T] = 0)
        /\ \A T \in SUBSET S : \A x \in T : g[T] = f[x] + g[T \ {x}]
    BY <1>1 DEF AddsAny
  <1>3. ASSUME NEW x \in S
        PROVE  SumFunctionOnSet(f, S \ {x}) = g[S \ {x}]
    <2> DEFINE U == S \ {x}
    <2>1. IsFiniteSet(U) /\ \A y \in U : f[y] \in Int
      BY FS_Subset
    <2> HIDE DEF U
    <2>2. PICK h : AddsAny(h, f, U) /\ SumFunctionOnSet(f, U) = h[U]
      BY <2>1, AnyMember
    <2>3. /\ \A T \in SUBSET U : T = {} => h[T] = 0
          /\ \A T \in SUBSET U : \A y \in T : h[T] = f[y] + h[T \ {y}]
      BY <2>2 DEF AddsAny
    <2> DEFINE Q == {T \in SUBSET U : h[T] = g[T]}
    <2>4. \A T \in SUBSET U : T \in SUBSET S
      BY DEF U
    <2>5. \A T \in SUBSET U : T = {} => T \in Q
      BY <1>2, <2>3
    <2>6. \A T \in SUBSET U : T # {} /\ (\A y \in T : T \ {y} \in Q) => T \in Q
      <3> SUFFICES ASSUME NEW T \in SUBSET U, T # {}, \A y \in T : T \ {y} \in Q PROVE T \in Q
        OBVIOUS
      <3>1. PICK y \in T : TRUE
        OBVIOUS
      <3>2. h[T \ {y}] = g[T \ {y}]
        BY <3>1
      <3>3. g[T] = f[y] + g[T \ {y}] /\ h[T] = f[y] + h[T \ {y}]
        BY <1>2, <2>3, <2>4, <3>1
      <3>4. QED
        BY <3>2, <3>3
    <2> HIDE DEF Q
    <2>7. \A T \in SUBSET U : T \in Q
      BY <2>1, <2>5, <2>6, SmallerAll
    <2>8. h[U] = g[U]
      BY <2>7 DEF Q
    <2>9. QED
      BY <2>2, <2>8 DEF U
  <1>4. g[S] \in Int /\ \A x \in S : g[S \ {x}] \in Int
    BY <1>2
  <1>5. S = {} => g[S] = 0
    BY <1>2
  <1>6. QED
    BY <1>1, <1>2, <1>3, <1>4, <1>5

\* The sum without one member, and with it.
LEMMA SumTake ==
    ASSUME NEW S, IsFiniteSet(S), NEW f, \A x \in S : f[x] \in Int, NEW x \in S
    PROVE  /\ SumFunctionOnSet(f, S \ {x}) \in Int
           /\ SumFunctionOnSet(f, S) = f[x] + SumFunctionOnSet(f, S \ {x})
  BY SumStep

\* The sums of two functions add up to that of their sum; a smaller function has no
\* larger sum.
LEMMA SumPlus ==
    ASSUME NEW S, IsFiniteSet(S), NEW f, NEW g, NEW h,
           \A x \in S : f[x] \in Int /\ g[x] \in Int /\ h[x] = f[x] + g[x]
    PROVE  SumFunctionOnSet(h, S) = SumFunctionOnSet(f, S) + SumFunctionOnSet(g, S)
  <1> DEFINE Q == {T \in SUBSET S : SumFunctionOnSet(h, T)
                                      = SumFunctionOnSet(f, T) + SumFunctionOnSet(g, T)}
  <1>1. \A T \in SUBSET S : IsFiniteSet(T) /\ \A x \in T : f[x] \in Int /\ g[x] \in Int /\ h[x] \in Int
    BY FS_Subset
  <1>2. ASSUME NEW T \in SUBSET S, T = {} PROVE T \in Q
    <2>1. SumFunctionOnSet(f, T) = 0 /\ SumFunctionOnSet(g, T) = 0 /\ SumFunctionOnSet(h, T) = 0
      BY <1>1, <1>2, SumStep
    <2>2. QED
      BY <2>1
  <1>3. ASSUME NEW T \in SUBSET S, T # {}, \A x \in T : T \ {x} \in Q PROVE T \in Q
    <2>1. PICK x \in T : TRUE
      BY <1>3
    <2> DEFINE U == T \ {x}
    <2>2. SumFunctionOnSet(h, U) = SumFunctionOnSet(f, U) + SumFunctionOnSet(g, U)
      BY <1>3, <2>1
    <2>3. /\ SumFunctionOnSet(f, T) = f[x] + SumFunctionOnSet(f, U) /\ SumFunctionOnSet(f, U) \in Int
          /\ SumFunctionOnSet(g, T) = g[x] + SumFunctionOnSet(g, U) /\ SumFunctionOnSet(g, U) \in Int
          /\ SumFunctionOnSet(h, T) = h[x] + SumFunctionOnSet(h, U)
      BY <1>1, <2>1, SumStep
    <2> HIDE DEF U
    <2>4. f[x] \in Int /\ g[x] \in Int /\ h[x] = f[x] + g[x]
      BY <2>1
    <2>5. SumFunctionOnSet(h, T) = SumFunctionOnSet(f, T) + SumFunctionOnSet(g, T)
      BY <2>2, <2>3, <2>4
    <2>6. QED
      BY <2>5
  <1> HIDE DEF Q
  <1>4. S \in Q
    BY <1>2, <1>3, SmallerAll
  <1>5. QED
    BY <1>4 DEF Q

\* The larger the members, the larger the sum.
LEMMA SumLe ==
    ASSUME NEW S, IsFiniteSet(S), NEW f, NEW g,
           \A x \in S : f[x] \in Int /\ g[x] \in Int /\ f[x] <= g[x]
    PROVE  SumFunctionOnSet(f, S) <= SumFunctionOnSet(g, S)
  <1> DEFINE Q == {T \in SUBSET S : SumFunctionOnSet(f, T) <= SumFunctionOnSet(g, T)}
  <1>1. \A T \in SUBSET S : IsFiniteSet(T) /\ \A x \in T : f[x] \in Int /\ g[x] \in Int
    BY FS_Subset
  <1>2. ASSUME NEW T \in SUBSET S, T = {} PROVE T \in Q
    <2>1. SumFunctionOnSet(f, T) = 0 /\ SumFunctionOnSet(g, T) = 0
      BY <1>1, <1>2, SumStep
    <2>2. QED
      BY <2>1
  <1>3. ASSUME NEW T \in SUBSET S, T # {}, \A x \in T : T \ {x} \in Q PROVE T \in Q
    <2>1. PICK x \in T : TRUE
      BY <1>3
    <2> DEFINE U == T \ {x}
    <2>2. SumFunctionOnSet(f, U) <= SumFunctionOnSet(g, U)
      BY <1>3, <2>1
    <2>3. /\ SumFunctionOnSet(f, T) = f[x] + SumFunctionOnSet(f, U) /\ SumFunctionOnSet(f, U) \in Int
          /\ SumFunctionOnSet(g, T) = g[x] + SumFunctionOnSet(g, U) /\ SumFunctionOnSet(g, U) \in Int
      <3>1. SumFunctionOnSet(f, T) = f[x] + SumFunctionOnSet(f, U) /\ SumFunctionOnSet(f, U) \in Int
        BY <1>1, <2>1, SumTake
      <3>2. SumFunctionOnSet(g, T) = g[x] + SumFunctionOnSet(g, U) /\ SumFunctionOnSet(g, U) \in Int
        BY <1>1, <2>1, SumTake
      <3>3. QED
        BY <3>1, <3>2
    <2> HIDE DEF U
    <2>4. f[x] \in Int /\ g[x] \in Int /\ f[x] <= g[x]
      BY <2>1
    <2>5. SumFunctionOnSet(f, T) <= SumFunctionOnSet(g, T)
      BY <2>2, <2>3, <2>4
    <2>6. QED
      BY <2>5
  <1> HIDE DEF Q
  <1>4. S \in Q
    BY <1>2, <1>3, SmallerAll
  <1>5. QED
    BY <1>4 DEF Q

\* Functions that agree on a set have the same sum over it.
LEMMA SumSame ==
    ASSUME NEW S, IsFiniteSet(S), NEW f, NEW g, \A x \in S : f[x] \in Int /\ f[x] = g[x]
    PROVE  SumFunctionOnSet(f, S) = SumFunctionOnSet(g, S)
  <1>1. \A x \in S : f[x] <= g[x] /\ g[x] <= f[x] /\ g[x] \in Int
    OBVIOUS
  <1>2. /\ SumFunctionOnSet(f, S) <= SumFunctionOnSet(g, S)
        /\ SumFunctionOnSet(g, S) <= SumFunctionOnSet(f, S)
    BY <1>1, SumLe
  <1>3. SumFunctionOnSet(f, S) \in Int /\ SumFunctionOnSet(g, S) \in Int
    BY <1>1, SumStep
  <1>4. QED
    BY <1>2, <1>3

\* The sum over two sets apart from each other.
LEMMA SumUnion ==
    ASSUME NEW A, NEW B, IsFiniteSet(A), IsFiniteSet(B), A \cap B = {},
           NEW f, \A x \in A \cup B : f[x] \in Int
    PROVE  SumFunctionOnSet(f, A \cup B) = SumFunctionOnSet(f, A) + SumFunctionOnSet(f, B)
  <1> DEFINE Q == {T \in SUBSET B : SumFunctionOnSet(f, A \cup T)
                                      = SumFunctionOnSet(f, A) + SumFunctionOnSet(f, T)}
  <1>1. ASSUME NEW T \in SUBSET B
        PROVE  /\ IsFiniteSet(T) /\ \A x \in T : f[x] \in Int
               /\ IsFiniteSet(A \cup T) /\ \A x \in A \cup T : f[x] \in Int
    BY FS_Subset, FS_Union
  <1>2. SumFunctionOnSet(f, A) \in Int
    BY SumStep
  <1>3. ASSUME NEW T \in SUBSET B, T = {} PROVE T \in Q
    <2>1. SumFunctionOnSet(f, T) = 0 /\ A \cup T = A
      BY <1>1, <1>3, SumStep
    <2>2. QED
      BY <1>2, <2>1
  <1>4. ASSUME NEW T \in SUBSET B, T # {}, \A x \in T : T \ {x} \in Q PROVE T \in Q
    <2>1. PICK x \in T : TRUE
      BY <1>4
    <2> DEFINE U == T \ {x}
    <2>2. SumFunctionOnSet(f, A \cup U) = SumFunctionOnSet(f, A) + SumFunctionOnSet(f, U)
      BY <1>4, <2>1
    <2>3. (A \cup T) \ {x} = A \cup U /\ x \in A \cup T
      BY <2>1
    <2>4. SumFunctionOnSet(f, T) = f[x] + SumFunctionOnSet(f, U) /\ SumFunctionOnSet(f, U) \in Int
      BY <1>1, <2>1, SumStep
    <2>5. SumFunctionOnSet(f, A \cup T) = f[x] + SumFunctionOnSet(f, A \cup U)
      <3>1. SumFunctionOnSet(f, A \cup T) = f[x] + SumFunctionOnSet(f, (A \cup T) \ {x})
        BY <1>1, <2>3, SumStep
      <3> HIDE DEF U
      <3>2. QED
        BY <2>3, <3>1
    <2> HIDE DEF U
    <2>6. f[x] \in Int
      BY <2>1
    <2>7. SumFunctionOnSet(f, A \cup T) = SumFunctionOnSet(f, A) + SumFunctionOnSet(f, T)
      BY <1>2, <2>2, <2>3, <2>4, <2>5, <2>6
    <2>8. QED
      BY <2>7
  <1> HIDE DEF Q
  <1>5. B \in Q
    <2>1. \A T \in SUBSET B : T \in Q
      BY <1>3, <1>4, SmallerAll
    <2>2. QED
      BY <2>1
  <1>6. QED
    BY <1>5 DEF Q

\* Members that add nothing may be left out; leaving out others makes a sum no larger.
LEMMA SumPart ==
    ASSUME NEW S, IsFiniteSet(S), NEW T \in SUBSET S, NEW f, \A x \in S : f[x] \in Int
    PROVE  /\ (\A x \in S \ T : f[x] = 0) => SumFunctionOnSet(f, S) = SumFunctionOnSet(f, T)
           /\ (\A x \in S \ T : f[x] >= 0) => SumFunctionOnSet(f, T) <= SumFunctionOnSet(f, S)
  <1> DEFINE U == S \ T
             z == [x \in S |-> 0]
  <1>1. IsFiniteSet(T) /\ IsFiniteSet(U) /\ T \cap U = {} /\ T \cup U = S
    BY FS_Subset
  <1>2. \A x \in T \cup U : f[x] \in Int
    OBVIOUS
  <1>3. \A x \in U : z[x] \in Int /\ z[x] = z[x] + z[x]
    OBVIOUS
  <1>4. \A x \in U : (f[x] = 0 => f[x] = z[x]) /\ (f[x] >= 0 => z[x] <= f[x])
    OBVIOUS
  <1> HIDE DEF U, z
  <1>5. SumFunctionOnSet(f, S) = SumFunctionOnSet(f, T) + SumFunctionOnSet(f, U)
    BY <1>1, <1>2, SumUnion
  <1>6. /\ SumFunctionOnSet(f, T) \in Int /\ SumFunctionOnSet(f, U) \in Int
        /\ SumFunctionOnSet(z, U) \in Int
    BY <1>1, <1>2, <1>3, SumStep
  <1>7. SumFunctionOnSet(z, U) = SumFunctionOnSet(z, U) + SumFunctionOnSet(z, U)
    BY <1>1, <1>3, SumPlus
  <1>8. SumFunctionOnSet(z, U) = 0
    <2>1. \A n \in Int : n = n + n => n = 0
      OBVIOUS
    <2>2. QED
      BY <1>6, <1>7, <2>1
  <1>9. (\A x \in U : f[x] = 0) => SumFunctionOnSet(f, U) = SumFunctionOnSet(z, U)
    BY <1>1, <1>2, <1>4, SumSame
  <1>10. (\A x \in U : f[x] >= 0) => SumFunctionOnSet(z, U) <= SumFunctionOnSet(f, U)
    BY <1>1, <1>2, <1>3, <1>4, SumLe
  <1>11. QED
    BY <1>5, <1>6, <1>8, <1>9, <1>10 DEF U

\* Sums of sums may be taken in either order.
LEMMA SumExchange ==
    ASSUME NEW S, IsFiniteSet(S), NEW K, IsFiniteSet(K), NEW h,
           \A x \in S : \A k \in K : h[x][k] \in Int
    PROVE  SumFunctionOnSet([x \in S |-> SumFunctionOnSet(h[x], K)], S)
           = SumFunctionOnSet([k \in K |-> SumFunctionOnSet([x \in S |-> h[x][k]], S)], K)
  <1> DEFINE line == [x \in S |-> SumFunctionOnSet(h[x], K)]
             column(k) == [x \in S |-> h[x][k]]
             columns(T) == [k \in K |-> SumFunctionOnSet(column(k), T)]
             Q == {T \in SUBSET S : SumFunctionOnSet(line, T) = SumFunctionOnSet(columns(T), K)}
  <1>1. \A T \in SUBSET S : IsFiniteSet(T)
    BY FS_Subset
  <1>2. ASSUME NEW x \in S
        PROVE  /\ line[x] = SumFunctionOnSet(h[x], K) /\ line[x] \in Int
               /\ \A k \in K : column(k)[x] = h[x][k] /\ column(k)[x] \in Int
    BY SumStep
  <1>3. \A T : \A k \in K : columns(T)[k] = SumFunctionOnSet(column(k), T)
    OBVIOUS
  <1> HIDE DEF line, column, columns
  <1>4. ASSUME NEW T \in SUBSET S, NEW k \in K
        PROVE  columns(T)[k] \in Int /\ (T = {} => columns(T)[k] = 0)
    <2>1. \A x \in T : column(k)[x] \in Int
      BY <1>2
    <2>2. IsFiniteSet(T)
      BY <1>1
    <2> DEFINE c == column(k)
    <2>3. columns(T)[k] = SumFunctionOnSet(c, T)
      BY <1>3
    <2>4. \A x \in T : c[x] \in Int
      BY <2>1
    <2> HIDE DEF c
    <2>5. SumFunctionOnSet(c, T) \in Int /\ (T = {} => SumFunctionOnSet(c, T) = 0)
      BY <2>2, <2>4, SumStep
    <2>6. QED
      BY <2>3, <2>5
  <1>5. ASSUME NEW T \in SUBSET S, T = {} PROVE T \in Q
    <2>1. SumFunctionOnSet(line, T) = 0
      BY <1>1, <1>5, SumStep
    <2>2. \A k \in K : columns(T)[k] \in Int /\ columns(T)[k] = 0
      BY <1>4, <1>5
    <2>3. SumFunctionOnSet(columns(T), K) = SumFunctionOnSet(columns(T), {})
      BY <2>2, SumPart
    <2>4. SumFunctionOnSet(columns(T), {}) = 0
      BY FS_EmptySet, SumStep
    <2>5. QED
      BY <2>1, <2>3, <2>4
  <1>6. ASSUME NEW T \in SUBSET S, T # {}, \A x \in T : T \ {x} \in Q PROVE T \in Q
    <2>1. PICK x \in T : TRUE
      BY <1>6
    <2> DEFINE U == T \ {x}
    <2>2. U \in SUBSET S /\ SumFunctionOnSet(line, U) = SumFunctionOnSet(columns(U), K)
      BY <1>6, <2>1
    <2>3. \A y \in T : line[y] \in Int
      BY <1>2
    <2>4. SumFunctionOnSet(line, T) = line[x] + SumFunctionOnSet(line, U)
      BY <1>1, <2>1, <2>3, SumTake
    <2>5. ASSUME NEW k \in K PROVE columns(T)[k] = h[x][k] + columns(U)[k]
      <3>1. \A y \in T : column(k)[y] \in Int
        BY <1>2
      <3>2. SumFunctionOnSet(column(k), T) = column(k)[x] + SumFunctionOnSet(column(k), U)
        BY <1>1, <2>1, <3>1, SumStep
      <3>3. column(k)[x] = h[x][k]
        BY <1>2, <2>1
      <3>4. QED
        BY <1>3, <3>2, <3>3
    <2> HIDE DEF U
    <2>6. \A k \in K : h[x][k] \in Int /\ columns(U)[k] \in Int
      BY <1>4, <2>1, <2>2
    <2>7. SumFunctionOnSet(columns(T), K) = SumFunctionOnSet(h[x], K) + SumFunctionOnSet(columns(U), K)
      BY <2>5, <2>6, SumPlus
    <2>8. line[x] = SumFunctionOnSet(h[x], K)
      BY <1>2, <2>1
    <2>9. SumFunctionOnSet(line, T) = SumFunctionOnSet(columns(T), K)
      BY <2>2, <2>4, <2>7, <2>8
    <2>10. QED
      BY <2>9
  <1> HIDE DEF Q
  <1>7. S \in Q
    BY <1>5, <1>6, SmallerAll
  <1>8. QED
    BY <1>7 DEF Q, line, columns, column

\* A sum may be taken class by class.
LEMMA SumClasses ==
    ASSUME NEW S, IsFiniteSet(S), NEW K, IsFiniteSet(K), NEW f, NEW p,
           \A x \in S : f[x] \in Int /\ p[x] \in K
    PROVE  SumFunctionOnSet(f, S)
           = SumFunctionOnSet([k \in K |-> SumFunctionOnSet(f, {x \in S : p[x] = k})], K)
  <1> DEFINE h == [x \in S |-> [k \in K |-> IF p[x] = k THEN f[x] ELSE 0]]
             lines == [x \in S |-> SumFunctionOnSet(h[x], K)]
             columns == [k \in K |-> SumFunctionOnSet([x \in S |-> h[x][k]], S)]
             classes == [k \in K |-> SumFunctionOnSet(f, {x \in S : p[x] = k})]
  <1>1. \A x \in S : \A k \in K : h[x][k] \in Int
    OBVIOUS
  <1>2. SumFunctionOnSet(lines, S) = SumFunctionOnSet(columns, K)
    <2> HIDE DEF h
    <2>1. QED
      BY <1>1, SumExchange
  <1>3. ASSUME NEW x \in S PROVE lines[x] = f[x]
    <2>1. h[x][p[x]] = f[x] /\ \A k \in K \ {p[x]} : h[x][k] = 0
      OBVIOUS
    <2> HIDE DEF h
    <2>2. SumFunctionOnSet(h[x], K) = h[x][p[x]] + SumFunctionOnSet(h[x], K \ {p[x]})
      BY <1>1, SumStep
    <2>3. IsFiniteSet(K \ {p[x]}) /\ {} \in SUBSET (K \ {p[x]})
      BY FS_Subset
    <2>4. SumFunctionOnSet(h[x], K \ {p[x]}) = SumFunctionOnSet(h[x], {})
      BY <1>1, <2>1, <2>3, SumPart
    <2>5. SumFunctionOnSet(h[x], {}) = 0
      BY FS_EmptySet, SumStep
    <2>6. QED
      BY <2>1, <2>2, <2>4, <2>5
  <1>4. ASSUME NEW k \in K PROVE columns[k] = classes[k] /\ columns[k] \in Int
    <2> DEFINE c == [x \in S |-> h[x][k]]
               T == {x \in S : p[x] = k}
    <2>1. /\ \A x \in S \ T : c[x] = 0
          /\ \A x \in T : c[x] = f[x] /\ c[x] \in Int
          /\ \A x \in S : c[x] \in Int
      OBVIOUS
    <2>2. IsFiniteSet(T) /\ T \in SUBSET S
      BY FS_Subset
    <2>3. columns[k] = SumFunctionOnSet(c, S) /\ classes[k] = SumFunctionOnSet(f, T)
      OBVIOUS
    <2> HIDE DEF c, T, columns, classes
    <2>4. SumFunctionOnSet(c, S) = SumFunctionOnSet(c, T)
      BY <2>1, <2>2, SumPart
    <2>5. SumFunctionOnSet(c, T) = SumFunctionOnSet(f, T)
      BY <2>1, <2>2, SumSame
    <2>6. SumFunctionOnSet(c, S) \in Int
      BY <2>1, SumStep
    <2>7. QED
      BY <2>3, <2>4, <2>5, <2>6
  <1> HIDE DEF lines, columns, h
  <1>5. SumFunctionOnSet(lines, S) = SumFunctionOnSet(f, S)
    BY <1>3, SumSame
  <1>6. SumFunctionOnSet(columns, K) = SumFunctionOnSet(classes, K)
    <2> HIDE DEF classes
    <2>1. QED
      BY <1>4, SumSame
  <1>7. QED
    BY <1>2, <1>5, <1>6

\* Class by class, of some classes: no more than all, and all if the others add nothing.
LEMMA SumSomeClasses ==
    ASSUME NEW S, IsFiniteSet(S), NEW K, IsFiniteSet(K), NEW f, NEW p,
           \A x \in S : f[x] \in Nat
    PROVE  LET classes == SumFunctionOnSet([k \in K |-> SumFunctionOnSet(f, {x \in S : p[x] = k})], K)
           IN  /\ classes <= SumFunctionOnSet(f, S)
               /\ (\A x \in S : f[x] # 0 => p[x] \in K) => classes = SumFunctionOnSet(f, S)
  <1> DEFINE T == {x \in S : p[x] \in K}
             inS == [k \in K |-> SumFunctionOnSet(f, {x \in S : p[x] = k})]
             inT == [k \in K |-> SumFunctionOnSet(f, {x \in T : p[x] = k})]
  <1>1. T \in SUBSET S /\ IsFiniteSet(T) /\ \A x \in T : f[x] \in Int /\ p[x] \in K
    BY FS_Subset
  <1>2. inS = inT
    <2>1. \A k \in K : {x \in S : p[x] = k} = {x \in T : p[x] = k}
      OBVIOUS
    <2>2. QED
      BY <2>1
  <1>3. \A x \in S : f[x] \in Int /\ (x \notin T => f[x] >= 0)
    OBVIOUS
  <1>4. (\A x \in S : f[x] # 0 => p[x] \in K) => \A x \in S \ T : f[x] = 0
    OBVIOUS
  <1>5. SumFunctionOnSet(f, T) = SumFunctionOnSet(inT, K)
    <2> HIDE DEF T
    <2>1. QED
      BY <1>1, SumClasses
  <1> HIDE DEF T, inS, inT
  <1>6. SumFunctionOnSet(f, T) <= SumFunctionOnSet(f, S)
    BY <1>1, <1>3, SumPart
  <1>7. (\A x \in S : f[x] # 0 => p[x] \in K) => SumFunctionOnSet(f, S) = SumFunctionOnSet(f, T)
    BY <1>1, <1>3, <1>4, SumPart
  <1>8. QED
    BY <1>2, <1>5, <1>6, <1>7 DEF inS

\* The sum of what is never negative.
LEMMA SumNat ==
    ASSUME NEW S, IsFiniteSet(S), NEW f, \A x \in S : f[x] \in Nat
    PROVE  /\ SumFunctionOnSet(f, S) \in Nat
           /\ (\A x \in S : f[x] = 0) => SumFunctionOnSet(f, S) = 0
  <1>1. IsFiniteSet({}) /\ {} \in SUBSET S
    BY FS_EmptySet
  <1>2. SumFunctionOnSet(f, {}) = 0
    BY <1>1, SumStep
  <1>3. SumFunctionOnSet(f, {}) <= SumFunctionOnSet(f, S)
    <2>1. \A x \in S : f[x] \in Int /\ f[x] >= 0
      OBVIOUS
    <2>2. QED
      BY <1>1, <2>1, SumPart
  <1>4. (\A x \in S : f[x] = 0) => SumFunctionOnSet(f, S) = SumFunctionOnSet(f, {})
    <2>1. \A x \in S : f[x] \in Int
      OBVIOUS
    <2>2. QED
      BY <1>1, <2>1, SumPart
  <1>5. SumFunctionOnSet(f, S) \in Int
    BY SumStep
  <1>6. QED
    BY <1>2, <1>3, <1>4, <1>5

-----------------------------------------------------------------------------
(* The inductive invariant: what rows, readings and controls say of each other. *)

\* What a control can say of itself, and what can be stored of it.
Readings == [total : Int, comment : Comments \cup {Unavailable}, active : BOOLEAN,
             made : Nat, resets : Nat]
Rows == [ts : Nat, machine : Machines, power : BOOLEAN, total : Int,
         comment : Comments \cup {Unavailable}, active : BOOLEAN, made : Nat, resets : Nat]

\* Of two known readings the later one has not counted more than was made since, and
\* has counted all of it unless the counter was reset.
Follows(x, y) ==
    x.total >= 0 /\ y.total >= 0 =>
        /\ x.made <= y.made /\ x.resets <= y.resets
        /\ y.total - x.total <= y.made - x.made
        /\ x.resets = y.resets => y.total - x.total = y.made - x.made

\* The controls, and what the agent shows of them: the present in sight, something
\* earlier or nothing out of sight.
ControlsInv ==
    /\ now \in Nat
    /\ cnc \in [Machines -> Readings]
    /\ shown \in [Machines -> [power : BOOLEAN, reading : Readings]]
    /\ \A m \in Machines :
          /\ cnc[m].total >= 0 /\ cnc[m].comment \in Comments
          /\ shown[m].reading.total >= 0 => shown[m].reading.comment \in Comments
          /\ shown[m].power => shown[m].reading = cnc[m]
          /\ Follows(shown[m].reading, cnc[m])

\* The rows: of the past, with the primary key, each followed by every later row of its
\* machine and by what is shown and what is now.
RowsInv ==
    /\ rows \subseteq Rows /\ IsFiniteSet(rows)
    /\ \A r \in rows : /\ r.ts <= now
                       /\ r.total >= 0 => r.comment \in Comments
                       /\ Follows(r, cnc[r.machine]) /\ Follows(r, shown[r.machine].reading)
    /\ \A r, q \in rows : r.machine = q.machine =>
          /\ r.ts = q.ts => r = q
          /\ r.ts < q.ts => Follows(r, q)

\* The inductive invariant.
ProductionInv == ControlsInv /\ RowsInv

\* Before the first round nothing is known but what the controls say of themselves.
LEMMA InitProduction == Init => ProductionInv
  <1> SUFFICES ASSUME Init PROVE ProductionInv
    OBVIOUS
  <1>1. PICK c \in Comments :
           cnc = [m \in Machines |-> [total |-> 0, comment |-> c, active |-> TRUE, made |-> 0, resets |-> 0]]
    BY DEF Init
  <1> DEFINE x == [total |-> 0, comment |-> c, active |-> TRUE, made |-> 0, resets |-> 0]
  <1>2. x \in Readings /\ x.total = 0 /\ x.comment \in Comments /\ Follows(x, x)
    BY DEF Readings, Follows
  <1>3. \A m \in Machines : cnc[m] = x /\ shown[m] = [power |-> TRUE, reading |-> x]
    BY <1>1 DEF Init
  <1>4. DOMAIN cnc = Machines /\ cnc = [m \in Machines |-> cnc[m]] /\ shown = [m \in Machines |-> shown[m]]
    BY <1>1, <1>3 DEF Init
  <1> HIDE DEF x
  <1>5. now \in Nat /\ rows = {}
    BY ProductionAssumption DEF Init
  <1>6. cnc \in [Machines -> Readings] /\ shown \in [Machines -> [power : BOOLEAN, reading : Readings]]
    <2>1. cnc \in [Machines -> Readings]
      BY <1>2, <1>3, <1>4
    <2>2. shown = [m \in Machines |-> [power |-> TRUE, reading |-> x]]
      BY <1>3, <1>4
    <2>3. QED
      BY <1>2, <2>1, <2>2
  <1>7. ControlsInv
    BY <1>2, <1>3, <1>5, <1>6 DEF ControlsInv
  <1>8. RowsInv
    BY <1>5, FS_EmptySet DEF RowsInv
  <1>9. QED
    BY <1>7, <1>8 DEF ProductionInv

\* A control that goes on, with or without a reset, follows what it was.
LEMMA ControlKeeps ==
    ASSUME ProductionInv, NEW m \in Machines, NEW c \in Readings, Control(m, c),
           c.total >= 0, c.comment \in Comments,
           \A x \in Readings \cup Rows : Follows(x, cnc[m]) => Follows(x, c)
    PROVE  ProductionInv'
  <1>1. /\ cnc' = [cnc EXCEPT ![m] = c] /\ UNCHANGED <<now, rows>>
        /\ shown' = [shown EXCEPT ![m] = IF shown[m].power THEN [power |-> TRUE, reading |-> c] ELSE shown[m]]
    BY DEF Control
  <1>2. /\ cnc' \in [Machines -> Readings] /\ cnc'[m] = c /\ \A k \in Machines \ {m} : cnc'[k] = cnc[k]
        /\ shown' \in [Machines -> [power : BOOLEAN, reading : Readings]]
        /\ \A k \in Machines \ {m} : shown'[k] = shown[k]
        /\ shown[m].power => shown'[m].power /\ shown'[m].reading = c
        /\ ~shown[m].power => shown'[m] = shown[m]
    BY <1>1 DEF ProductionInv, ControlsInv
  <1>3. \A r \in rows : r \in Rows /\ r.machine \in Machines
    BY DEF ProductionInv, RowsInv, Rows
  <1>4. \A k \in Machines : shown[k].reading \in Readings
    BY DEF ProductionInv, ControlsInv
  <1>5. Follows(c, c)
    BY DEF Follows, Readings
  <1>6. ControlsInv'
    BY <1>1, <1>2, <1>4, <1>5 DEF ProductionInv, ControlsInv
  <1>7. RowsInv'
    <2>1. ASSUME NEW r \in rows
          PROVE  Follows(r, cnc'[r.machine]) /\ Follows(r, shown'[r.machine].reading)
      <3>1. Follows(r, cnc[r.machine]) /\ Follows(r, shown[r.machine].reading)
        BY DEF ProductionInv, RowsInv
      <3>2. CASE r.machine # m
        BY <1>2, <1>3, <3>1, <3>2
      <3>3. CASE r.machine = m
        <4>1. Follows(r, c)
          BY <1>3, <3>1, <3>3
        <4>2. QED
          BY <1>2, <3>1, <3>3, <4>1
      <3>4. QED
        BY <3>2, <3>3
    <2>2. QED
      BY <1>1, <2>1 DEF ProductionInv, RowsInv
  <1>8. QED
    BY <1>6, <1>7 DEF ProductionInv

\* A reading with another counter, and another number of parts or of resets.
LEMMA Changed ==
    ASSUME NEW x \in Readings, NEW n \in Int
    PROVE  /\ [x EXCEPT !.total = n, !.made = @ + 1] \in Readings
           /\ [x EXCEPT !.total = n, !.resets = @ + 1] \in Readings
  <1> DEFINE y == [x EXCEPT !.total = n]
  <1>1. y \in Readings
    BY DEF Readings
  <1>2. /\ [x EXCEPT !.total = n, !.made = @ + 1] = [y EXCEPT !.made = x.made + 1]
        /\ [x EXCEPT !.total = n, !.resets = @ + 1] = [y EXCEPT !.resets = x.resets + 1]
    OBVIOUS
  <1>3. x.made + 1 \in Nat /\ x.resets + 1 \in Nat
    BY DEF Readings
  <1> HIDE DEF y
  <1>4. [y EXCEPT !.made = x.made + 1] \in Readings /\ [y EXCEPT !.resets = x.resets + 1] \in Readings
    BY <1>1, <1>3 DEF Readings
  <1>5. QED
    BY <1>2, <1>4

\* The four things that happen to a control.
LEMMA CncKeeps ==
    ASSUME ProductionInv, NEW m \in Machines,
           MakePart(m) \/ ResetCounter(m) \/ StartStop(m) \/ NewProduct(m)
    PROVE  ProductionInv'
  <1>1. cnc[m] \in Readings /\ cnc[m].total >= 0 /\ cnc[m].comment \in Comments
    BY DEF ProductionInv, ControlsInv
  <1>2. \A x \in Readings \cup Rows : x.total \in Int /\ x.made \in Nat /\ x.resets \in Nat
    BY DEF Readings, Rows
  <1>3. CASE MakePart(m)
    <2> DEFINE c == [cnc[m] EXCEPT !.total = @ + 1, !.made = @ + 1]
    <2>1. c \in Readings /\ c.total = cnc[m].total + 1 /\ c.made = cnc[m].made + 1
          /\ c.resets = cnc[m].resets /\ c.comment = cnc[m].comment
      <3>1. cnc[m].total + 1 \in Int
        BY <1>1, <1>2
      <3>2. c \in Readings
        BY <1>1, <3>1, Changed
      <3>3. QED
        BY <1>1, <3>2 DEF Readings
    <2>2. Control(m, c)
      BY <1>3 DEF MakePart
    <2> HIDE DEF c
    <2>3. \A x \in Readings \cup Rows : Follows(x, cnc[m]) => Follows(x, c)
      BY <1>1, <1>2, <2>1 DEF Follows
    <2>4. QED
      BY <1>1, <1>2, <2>1, <2>2, <2>3, ControlKeeps
  <1>4. CASE ResetCounter(m)
    <2> DEFINE c == [cnc[m] EXCEPT !.total = 0, !.resets = @ + 1]
    <2>1. c \in Readings /\ c.total = 0 /\ c.made = cnc[m].made
          /\ c.resets = cnc[m].resets + 1 /\ c.comment = cnc[m].comment
      <3>1. c \in Readings
        <4>1. 0 \in Int
          OBVIOUS
        <4>2. QED
          BY <1>1, <4>1, Changed
      <3>2. QED
        BY <1>1, <3>1 DEF Readings
    <2>2. Control(m, c)
      BY <1>4 DEF ResetCounter
    <2> HIDE DEF c
    <2>3. \A x \in Readings \cup Rows : Follows(x, cnc[m]) => Follows(x, c)
      BY <1>1, <1>2, <2>1 DEF Follows
    <2>4. QED
      BY <1>1, <1>2, <2>1, <2>2, <2>3, ControlKeeps
  <1>5. CASE StartStop(m)
    <2> DEFINE c == [cnc[m] EXCEPT !.active = ~@]
    <2>1. c \in Readings /\ c.total = cnc[m].total /\ c.made = cnc[m].made
          /\ c.resets = cnc[m].resets /\ c.comment = cnc[m].comment
      BY <1>1 DEF Readings
    <2>2. Control(m, c)
      BY <1>5 DEF StartStop
    <2> HIDE DEF c
    <2>3. \A x \in Readings \cup Rows : Follows(x, cnc[m]) => Follows(x, c)
      BY <1>1, <1>2, <2>1 DEF Follows
    <2>4. QED
      BY <1>1, <1>2, <2>1, <2>2, <2>3, ControlKeeps
  <1>6. CASE NewProduct(m)
    <2>1. PICK p \in Comments : Control(m, [cnc[m] EXCEPT !.comment = p])
      BY <1>6 DEF NewProduct
    <2> DEFINE c == [cnc[m] EXCEPT !.comment = p]
    <2>2. c \in Readings /\ c.total = cnc[m].total /\ c.made = cnc[m].made
          /\ c.resets = cnc[m].resets /\ c.comment = p
      BY <1>1 DEF Readings
    <2>3. Control(m, c)
      BY <2>1
    <2> HIDE DEF c
    <2>4. \A x \in Readings \cup Rows : Follows(x, cnc[m]) => Follows(x, c)
      BY <1>1, <1>2, <2>2 DEF Follows
    <2>5. QED
      BY <1>1, <1>2, <2>2, <2>3, <2>4, ControlKeeps
  <1>7. QED
    BY <1>3, <1>4, <1>5, <1>6

\* A machine out of sight is shown as nothing or as it was last; in sight again, as it is.
LEMMA SightKeeps ==
    ASSUME ProductionInv, NEW m \in Machines, Lost(m) \/ Found(m)
    PROVE  ProductionInv'
  <1>1. PICK x \in {Nothing, shown[m].reading, cnc[m]}, p \in BOOLEAN :
           /\ shown' = [shown EXCEPT ![m] = [power |-> p, reading |-> x]]
           /\ p => x = cnc[m]
    BY DEF Lost, Found
  <1>2. UNCHANGED <<now, cnc, rows>>
    BY DEF Lost, Found
  <1>3. x \in Readings
    <2>1. Nothing \in Readings
      BY DEF Nothing, Readings
    <2>2. QED
      BY <2>1 DEF ProductionInv, ControlsInv
  <1>4. shown' \in [Machines -> [power : BOOLEAN, reading : Readings]]
        /\ shown'[m].power = p /\ shown'[m].reading = x /\ \A k \in Machines \ {m} : shown'[k] = shown[k]
    BY <1>1, <1>3 DEF ProductionInv, ControlsInv
  <1>5. Nothing.total = -1
    BY DEF Nothing
  <1>6. /\ Follows(x, cnc[m]) /\ (x.total >= 0 => x.comment \in Comments)
        /\ \A r \in rows : r.machine = m => Follows(r, x)
    <2>1. CASE x = Nothing
      BY <1>5, <2>1 DEF Follows
    <2>2. CASE x = shown[m].reading
      BY <2>2 DEF ProductionInv, ControlsInv, RowsInv
    <2>3. CASE x = cnc[m]
      <3>1. Follows(x, cnc[m])
        BY <2>3 DEF ProductionInv, ControlsInv, Follows, Readings
      <3>2. QED
        BY <2>3, <3>1 DEF ProductionInv, ControlsInv, RowsInv
    <2>4. QED
      BY <1>1, <2>1, <2>2, <2>3
  <1>7. ControlsInv'
    BY <1>1, <1>2, <1>4, <1>6 DEF ProductionInv, ControlsInv
  <1>8. \A r \in rows : r.machine \in Machines
    BY DEF ProductionInv, RowsInv, Rows
  <1>9. RowsInv'
    BY <1>2, <1>4, <1>6, <1>8 DEF ProductionInv, RowsInv
  <1>10. QED
    BY <1>7, <1>9 DEF ProductionInv

\* A round: rows of this moment in place of others of it.
LEMMA FlushKeeps ==
    ASSUME ProductionInv, NEW missing \in SUBSET Machines, Flush(missing)
    PROVE  ProductionInv'
  <1> DEFINE old == {r \in rows : r.ts # now \/ r.machine \in missing}
             new == {RowOf(m) : m \in Machines \ missing}
  <1>1. rows' = old \cup new /\ UNCHANGED <<cnc, shown>>
    BY DEF Flush
  <1>2. now' \in Nat /\ now' >= now /\ now \in Nat
    BY ProductionAssumption DEF Flush, ProductionInv, ControlsInv
  <1>3. ASSUME NEW m \in Machines
        PROVE  /\ RowOf(m) \in Rows /\ RowOf(m).ts = now /\ RowOf(m).machine = m
               /\ RowOf(m).total = shown[m].reading.total /\ RowOf(m).made = shown[m].reading.made
               /\ RowOf(m).resets = shown[m].reading.resets /\ RowOf(m).comment = shown[m].reading.comment
    BY <1>2 DEF RowOf, Rows, ProductionInv, ControlsInv, Readings
  <1>4. IsFiniteSet(old) /\ IsFiniteSet(new)
    <2>1. IsFiniteSet(Machines \ missing)
      BY ProductionAssumption, FS_Subset
    <2>2. IsFiniteSet(old)
      BY FS_Subset DEF ProductionInv, RowsInv
    <2> DEFINE row == [m \in Machines |-> RowOf(m)]
    <2>3. new = {row[m] : m \in Machines \ missing}
      OBVIOUS
    <2> HIDE DEF old, new, row
    <2>4. IsFiniteSet({row[m] : m \in Machines \ missing})
      BY <2>1, ImageFinite
    <2>5. QED
      BY <2>2, <2>3, <2>4
  <1>5. ControlsInv'
    BY <1>1, <1>2 DEF ProductionInv, ControlsInv
  <1>6. ASSUME NEW r \in new
        PROVE  /\ r \in Rows /\ r.ts = now /\ r.machine \in Machines \ missing /\ r = RowOf(r.machine)
               /\ (r.total >= 0 => r.comment \in Comments)
               /\ Follows(r, cnc[r.machine]) /\ Follows(r, shown[r.machine].reading)
    <2>1. PICK m \in Machines \ missing : r = RowOf(m)
      OBVIOUS
    <2>2. /\ r \in Rows /\ r.ts = now /\ r.machine = m /\ r.total = shown[m].reading.total
          /\ r.made = shown[m].reading.made /\ r.resets = shown[m].reading.resets
          /\ r.comment = shown[m].reading.comment
      BY <1>3, <2>1
    <2>3. QED
      BY <2>1, <2>2 DEF ProductionInv, ControlsInv, Follows, Readings
  <1>7. ASSUME NEW r \in old
        PROVE  /\ r \in rows /\ r \in Rows /\ r.ts \in Nat /\ r.ts <= now
               /\ (r.machine \notin missing => r.ts < now)
    BY <1>2 DEF ProductionInv, RowsInv, Rows
  <1>8. ASSUME NEW r \in old \cup new
        PROVE  /\ r \in Rows /\ r.ts <= now' /\ (r.total >= 0 => r.comment \in Comments)
               /\ Follows(r, cnc[r.machine]) /\ Follows(r, shown[r.machine].reading)
    <2>1. CASE r \in old
      <3>1. r \in rows /\ r \in Rows /\ r.ts \in Nat /\ r.ts <= now
        BY <1>7, <2>1
      <3> HIDE DEF old, new
      <3>2. QED
        BY <1>2, <3>1 DEF ProductionInv, RowsInv
    <2>2. CASE r \in new
      <3>1. r.ts = now
        BY <1>6, <2>2
      <3> HIDE DEF old, new
      <3>2. QED
        BY <1>2, <1>6, <2>2, <3>1
    <2>3. QED
      BY <2>1, <2>2
  <1>9. ASSUME NEW r \in old, NEW q \in new, r.machine = q.machine PROVE r.ts < q.ts /\ Follows(r, q)
    <2>1. q.machine \in Machines \ missing /\ q.ts = now /\ q = RowOf(q.machine)
      BY <1>6
    <2>2. r \in rows /\ r.ts < now
      BY <1>7, <1>9, <2>1
    <2> HIDE DEF old, new
    <2>3. Follows(r, shown[q.machine].reading)
      BY <1>9, <2>2 DEF ProductionInv, RowsInv
    <2>4. /\ q.total = shown[q.machine].reading.total /\ q.made = shown[q.machine].reading.made
          /\ q.resets = shown[q.machine].reading.resets
      BY <1>3, <2>1
    <2>5. QED
      BY <2>1, <2>2, <2>3, <2>4 DEF Follows
  <1>10. ASSUME NEW r \in old \cup new, NEW q \in old \cup new, r.machine = q.machine
         PROVE  (r.ts = q.ts => r = q) /\ (r.ts < q.ts => Follows(r, q))
    <2>1. CASE r \in old /\ q \in old
      <3>1. r \in rows /\ q \in rows
        BY <1>7, <2>1
      <3>2. QED
        BY <1>10, <3>1 DEF ProductionInv, RowsInv
    <2>2. CASE r \in new /\ q \in new
      <3>1. r = RowOf(r.machine) /\ q = RowOf(q.machine) /\ r.ts = now /\ q.ts = now
        BY <1>6, <2>2
      <3>2. r = q
        BY <1>10, <3>1
      <3>3. QED
        BY <1>2, <3>1, <3>2
    <2>3. CASE r \in old /\ q \in new
      <3>1. r.ts < q.ts /\ Follows(r, q) /\ r.ts \in Nat /\ q.ts \in Nat
        BY <1>2, <1>6, <1>7, <1>9, <1>10, <2>3
      <3>2. QED
        BY <3>1
    <2>4. CASE r \in new /\ q \in old
      <3>1. q.ts < r.ts /\ r.ts \in Nat /\ q.ts \in Nat
        BY <1>2, <1>6, <1>7, <1>9, <1>10, <2>4
      <3>2. QED
        BY <3>1
    <2>5. QED
      BY <2>1, <2>2, <2>3, <2>4
  <1>11. RowsInv'
    <2>1. IsFiniteSet(old \cup new)
      BY <1>4, FS_Union
    <2> HIDE DEF old, new
    <2>2. QED
      BY <1>1, <1>8, <1>10, <2>1 DEF RowsInv
  <1>12. QED
    BY <1>5, <1>11 DEF ProductionInv

\* Pruning takes rows away.
LEMMA PruneKeeps ==
    ASSUME ProductionInv, Prune
    PROVE  ProductionInv'
  <1>1. rows' \subseteq rows /\ UNCHANGED <<now, cnc, shown>>
    BY DEF Prune
  <1>2. IsFiniteSet(rows')
    BY <1>1, FS_Subset DEF ProductionInv, RowsInv
  <1>3. QED
    BY <1>1, <1>2 DEF ProductionInv, ControlsInv, RowsInv

\* Every step of the system.
LEMMA NextKeeps == ProductionInv /\ [Next]_vars => ProductionInv'
  <1> SUFFICES ASSUME ProductionInv, [Next]_vars PROVE ProductionInv'
    OBVIOUS
  <1>1. CASE UNCHANGED vars
    BY <1>1 DEF vars, ProductionInv, ControlsInv, RowsInv
  <1>2. CASE Next
    BY <1>2, CncKeeps, SightKeeps, FlushKeeps, PruneKeeps DEF Next
  <1>3. QED
    BY <1>1, <1>2

\* The inductive invariant holds: whatever rounds and rows are missing and whatever was
\* pruned, rows of flush are readings of the past, one per machine and second, and a
\* later known row has not counted more parts than its control made since.
THEOREM ProductionInvariant == Spec => []ProductionInv
  BY InitProduction, NextKeeps, PTL DEF Spec

-----------------------------------------------------------------------------
(* Rows that follow each other. *)

\* Rows with the primary key (ts, machine).
Table(s) ==
    /\ s \subseteq Rows /\ IsFiniteSet(s)
    /\ \A r, q \in s : r.machine = q.machine /\ r.ts = q.ts => r = q

\* All of one machine.
OneMachine(s) == \A r, q \in s : r.machine = q.machine

\* The ends of some rows.
IsFirst(r, s) == r \in s /\ \A q \in s : r.ts <= q.ts
IsLast(r, s)  == r \in s /\ \A q \in s : q.ts <= r.ts

\* Any of the rows of a table are a table.
LEMMA PartOfTable ==
    ASSUME NEW s, Table(s), NEW t \in SUBSET s
    PROVE  Table(t) /\ (OneMachine(s) => OneMachine(t))
  BY FS_Subset DEF Table, OneMachine

\* There are finitely many pairs of neighbours, each of two rows in their order.
LEMMA PairsFinite ==
    ASSUME NEW s, Table(s)
    PROVE  /\ IsFiniteSet(Neighbours(s)) /\ Neighbours(s) \subseteq s \X s
           /\ \A e \in Neighbours(s) : e[1] \in s /\ e[2] \in s /\ e[1] \in Rows /\ e[2] \in Rows /\ e[1].ts < e[2].ts
  <1>1. Neighbours(s) \subseteq s \X s
    BY DEF Neighbours
  <1>2. IsFiniteSet(s \X s)
    BY FS_Product DEF Table
  <1>3. IsFiniteSet(Neighbours(s))
    BY <1>1, <1>2, FS_Subset
  <1>4. QED
    BY <1>1, <1>3 DEF Neighbours, Table

\* Some rows have a first and a last one.
LEMMA HasEnds ==
    ASSUME NEW s, Table(s), s # {}
    PROVE  (\E r : IsFirst(r, s)) /\ (\E r : IsLast(r, s))
  <1> DEFINE Q == {t \in SUBSET s : t = {} \/ ((\E r : IsFirst(r, t)) /\ (\E r : IsLast(r, t)))}
  <1>1. \A t \in SUBSET s : t = {} => t \in Q
    OBVIOUS
  <1>2. ASSUME NEW t \in SUBSET s, t # {}, \A x \in t : t \ {x} \in Q PROVE t \in Q
    <2>1. PICK x \in t : TRUE
      BY <1>2
    <2>2. \A r \in t : r.ts \in Nat
      BY DEF Table, Rows
    <2>3. CASE t \ {x} = {}
      <3>1. IsFirst(x, t) /\ IsLast(x, t)
        BY <2>1, <2>2, <2>3 DEF IsFirst, IsLast
      <3>2. QED
        BY <3>1
    <2>4. CASE t \ {x} # {}
      <3>1. PICK a, z : IsFirst(a, t \ {x}) /\ IsLast(z, t \ {x})
        BY <1>2, <2>1, <2>4
      <3>2. IsFirst(IF x.ts <= a.ts THEN x ELSE a, t)
        BY <2>1, <2>2, <3>1 DEF IsFirst, IsLast
      <3>3. IsLast(IF x.ts >= z.ts THEN x ELSE z, t)
        BY <2>1, <2>2, <3>1 DEF IsFirst, IsLast
      <3>4. QED
        BY <3>2, <3>3
    <2>5. QED
      BY <2>3, <2>4
  <1> HIDE DEF Q
  <1>3. s \in Q
    BY <1>1, <1>2, SmallerAll DEF Table
  <1>4. QED
    BY <1>3 DEF Q

\* Without the last row, there is one pair less: the last row and the one before.
LEMMA LastPair ==
    ASSUME NEW s, Table(s), OneMachine(s), NEW z, IsLast(z, s), NEW y, IsLast(y, s \ {z})
    PROVE  /\ <<y, z>> \in Neighbours(s)
           /\ Neighbours(s) \ {<<y, z>>} = Neighbours(s \ {z})
  <1>1. \A r \in s : r.ts \in Nat
    BY DEF Table, Rows
  <1>2. y \in s /\ z \in s /\ y # z /\ y.ts < z.ts
    BY <1>1 DEF IsLast, Table, OneMachine
  <1>3. \A r \in s \ {z} : r.ts <= y.ts /\ r.ts < z.ts
    BY <1>1, <1>2 DEF IsLast
  <1>4. <<y, z>> \in Neighbours(s)
    <2>1. ~\E q \in s : y.ts < q.ts /\ q.ts < z.ts
      BY <1>1, <1>2, <1>3
    <2>2. QED
      BY <1>2, <2>1 DEF Neighbours, OneMachine
  <1>5. ASSUME NEW e \in Neighbours(s), e # <<y, z>> PROVE e \in Neighbours(s \ {z})
    <2>1. e \in s \X s /\ e[1].machine = e[2].machine /\ e[1].ts < e[2].ts
          /\ ~\E q \in s : q.machine = e[1].machine /\ e[1].ts < q.ts /\ q.ts < e[2].ts
      BY DEF Neighbours
    <2>2. e[1] # z
      BY <1>1, <2>1 DEF IsLast
    <2>3. e[2] # z
      <3> SUFFICES ASSUME e[2] = z PROVE FALSE
        OBVIOUS
      <3>1. e[1] # y
        BY <1>5, <2>1
      <3>2. e[1].ts < y.ts
        BY <1>1, <1>2, <1>3, <2>1, <2>2, <3>1 DEF Table, OneMachine
      <3>3. QED
        BY <1>2, <2>1, <3>2 DEF OneMachine
    <2>4. QED
      BY <2>1, <2>2, <2>3 DEF Neighbours
  <1>6. ASSUME NEW e \in Neighbours(s \ {z}) PROVE e \in Neighbours(s) /\ e # <<y, z>>
    <2>1. e \in (s \ {z}) \X (s \ {z}) /\ e[1].machine = e[2].machine /\ e[1].ts < e[2].ts
          /\ ~\E q \in s \ {z} : q.machine = e[1].machine /\ e[1].ts < q.ts /\ q.ts < e[2].ts
      BY DEF Neighbours
    <2>2. ~(z.ts < e[2].ts)
      BY <1>1, <2>1 DEF IsLast
    <2>3. QED
      BY <2>1, <2>2 DEF Neighbours
  <1>7. QED
    BY <1>4, <1>5, <1>6

\* What changes from row to row adds up to what has changed from the first to the last.
LEMMA Telescope ==
    ASSUME NEW s, Table(s), OneMachine(s), NEW h, \A r \in s : h[r] \in Int,
           NEW d, \A e \in Neighbours(s) : d[e] = h[e[2]] - h[e[1]],
           NEW a, IsFirst(a, s), NEW z, IsLast(z, s)
    PROVE  SumFunctionOnSet(d, Neighbours(s)) = h[z] - h[a]
  <1> DEFINE D == [e \in s \X s |-> h[e[2]] - h[e[1]]]
             Q == {t \in SUBSET s : \A b, y \in t : IsFirst(b, t) /\ IsLast(y, t) =>
                      SumFunctionOnSet(D, Neighbours(t)) = h[y] - h[b]}
  <1>1. \A e \in s \X s : D[e] = h[e[2]] - h[e[1]] /\ D[e] \in Int
    OBVIOUS
  <1> HIDE DEF D
  <1>2. \A t \in SUBSET s : t = {} => t \in Q
    OBVIOUS
  <1>3. ASSUME NEW t \in SUBSET s PROVE t # {} => \E x \in t : t \ {x} \in Q => t \in Q
    <2> SUFFICES ASSUME t # {} PROVE \E x \in t : t \ {x} \in Q => t \in Q
      OBVIOUS
    <2>1. Table(t) /\ OneMachine(t)
      BY PartOfTable
    <2>2. PICK x : IsLast(x, t)
      BY <2>1, HasEnds
    <2> DEFINE u == t \ {x}
    <2>3. Table(u) /\ OneMachine(u) /\ x \in t /\ u \in SUBSET s
      BY <2>1, <2>2, PartOfTable DEF IsLast
    <2>4. IsFiniteSet(Neighbours(t)) /\ \A e \in Neighbours(t) : D[e] \in Int
      BY <1>1, <2>1, PairsFinite
    <2>5. ASSUME u \in Q, NEW b \in t, NEW y \in t, IsFirst(b, t), IsLast(y, t)
          PROVE  SumFunctionOnSet(D, Neighbours(t)) = h[y] - h[b]
      <3>1. y = x /\ \A r \in t : r.ts \in Nat /\ h[r] \in Int
        BY <2>1, <2>2, <2>5 DEF IsLast, Table, OneMachine, Rows
      <3>2. CASE u = {}
        <4>1. b = y /\ t = {y}
          BY <2>5, <3>1, <3>2
        <4>2. Neighbours(t) = {}
          BY <3>1, <4>1 DEF Neighbours
        <4>3. SumFunctionOnSet(D, Neighbours(t)) = 0
          BY <2>4, <4>2, SumStep
        <4>4. QED
          BY <3>1, <4>1, <4>3
      <3>3. CASE u # {}
        <4>1. PICK c : IsLast(c, u)
          BY <2>3, <3>3, HasEnds
        <4>2. b # x
          <5> SUFFICES ASSUME b = x PROVE FALSE
            OBVIOUS
          <5>0. c \in t /\ c # x
            BY <4>1 DEF IsLast
          <5>1. c.ts = x.ts
            <6>1. x.ts <= c.ts /\ c.ts <= x.ts
              BY <2>2, <2>5, <5>0 DEF IsFirst, IsLast
            <6>2. c.ts \in Nat /\ x.ts \in Nat
              BY <2>3, <3>1, <5>0
            <6>3. QED
              BY <6>1, <6>2
          <5>2. QED
            BY <2>1, <2>3, <5>0, <5>1 DEF Table, OneMachine
        <4>3. IsFirst(b, u) /\ b \in u /\ c \in u
          BY <2>5, <4>1, <4>2 DEF IsFirst, IsLast
        <4>4. SumFunctionOnSet(D, Neighbours(u)) = h[c] - h[b]
          BY <2>5, <4>1, <4>3
        <4>5. <<c, x>> \in Neighbours(t) /\ Neighbours(t) \ {<<c, x>>} = Neighbours(u)
          BY <2>1, <2>2, <4>1, LastPair
        <4>6. SumFunctionOnSet(D, Neighbours(t)) = D[<<c, x>>] + SumFunctionOnSet(D, Neighbours(t) \ {<<c, x>>})
          BY <2>4, <4>5, SumStep
        <4>7. D[<<c, x>>] = h[x] - h[c]
          BY <1>1, <2>3, <4>3
        <4>8. h[x] \in Int /\ h[c] \in Int /\ h[b] \in Int
          BY <2>3, <3>1, <4>3
        <4> HIDE DEF u
        <4>9. SumFunctionOnSet(D, Neighbours(t)) = (h[x] - h[c]) + (h[c] - h[b])
          BY <4>4, <4>5, <4>6, <4>7
        <4>10. QED
          BY <3>1, <4>8, <4>9
      <3>4. QED
        BY <3>2, <3>3
    <2>6. u \in Q => t \in Q
      BY <2>5
    <2>7. QED
      BY <2>3, <2>6
  <1> HIDE DEF Q
  <1>4. \A t \in SUBSET s : t \in Q
    <2>1. IsFiniteSet(s)
      BY DEF Table
    <2>2. QED
      BY <1>2, <1>3, <2>1, Smaller
  <1>5. a \in s /\ z \in s
    BY DEF IsFirst, IsLast
  <1>6. SumFunctionOnSet(D, Neighbours(s)) = h[z] - h[a]
    BY <1>4, <1>5 DEF Q
  <1>7. \A e \in Neighbours(s) : D[e] \in Int /\ D[e] = d[e]
    BY <1>1, PairsFinite
  <1>8. SumFunctionOnSet(D, Neighbours(s)) = SumFunctionOnSet(d, Neighbours(s))
    BY <1>7, PairsFinite, SumSame
  <1>9. QED
    BY <1>6, <1>8

-----------------------------------------------------------------------------
(* What rows count. *)

\* The greatest member, found by being one.
LEMMA MaxIs ==
    ASSUME NEW S \in SUBSET Int, NEW x \in S, \A y \in S : y <= x
    PROVE  Max(S) = x
  <1>1. \E y \in S : \A z \in S : y >= z
    BY x \in S
  <1>2. Max(S) \in S /\ \A z \in S : Max(S) >= z
    BY <1>1 DEF Max
  <1> DEFINE m == Max(S)
  <1>3. m \in Int /\ x \in Int /\ m >= x /\ m <= x
    BY <1>2
  <1> HIDE DEF m
  <1>4. m = x
    BY <1>3
  <1>5. QED
    BY <1>4 DEF m

\* The least member, found by being one.
LEMMA MinIs ==
    ASSUME NEW S \in SUBSET Int, NEW x \in S, \A y \in S : x <= y
    PROVE  Min(S) = x
  <1>1. \E y \in S : \A z \in S : y <= z
    BY x \in S
  <1>2. Min(S) \in S /\ \A z \in S : Min(S) <= z
    BY <1>1 DEF Min
  <1> DEFINE m == Min(S)
  <1>3. m \in Int /\ x \in Int /\ m >= x /\ m <= x
    BY <1>2
  <1> HIDE DEF m
  <1>4. m = x
    BY <1>3
  <1>5. QED
    BY <1>4 DEF m

\* The multiple of n that begins the part of the line t is in.
LEMMA DivIs ==
    ASSUME NEW t \in Int, NEW n \in Nat \ {0}
    PROVE  /\ t \div n \in Int /\ (t \div n) * n \in Int
           /\ (t \div n) * n <= t /\ t < (t \div n) * n + n
  OBVIOUS

\* A quotient grows with the number.
LEMMA DivMonotone ==
    ASSUME NEW n \in Nat \ {0}, NEW t \in Int, NEW u \in Int, t <= u
    PROVE  t \div n <= u \div n /\ t \div n \in Int /\ u \div n \in Int
  <1> DEFINE p == t \div n
             q == u \div n
  <1>1. p \in Int /\ q \in Int /\ p * n <= t /\ u < q * n + n
    BY DivIs
  <1> HIDE DEF p, q
  <1>2. p <= q
    <2> SUFFICES ASSUME q + 1 <= p PROVE FALSE
      BY <1>1
    <2>1. (q + 1) * n <= p * n
      BY <1>1
    <2>2. (q + 1) * n = q * n + n /\ q * n \in Int /\ p * n \in Int
      BY <1>1
    <2>3. QED
      BY <1>1, <2>1, <2>2
  <1>3. QED
    BY <1>1, <1>2 DEF p, q

\* An increase is never negative, and only known totals increase.
LEMMA IncreaseIs ==
    ASSUME NEW e \in Rows \X Rows
    PROVE  /\ Increase(e) \in Nat
           /\ Increase(e) # 0 => e[1].total >= 0 /\ e[2].total >= 0
  BY DEF Increase, Rows

\* The sum of increases, over any function that says them.
LEMMA IncreasesAre ==
    ASSUME NEW P, IsFiniteSet(P), NEW f, \A e \in P : f[e] \in Int /\ f[e] = Increase(e)
    PROVE  Increases(P) = SumFunctionOnSet(f, P)
  <1> DEFINE g == [e \in P |-> Increase(e)]
  <1>1. Increases(P) = SumFunctionOnSet(g, P) /\ \A e \in P : f[e] \in Int /\ f[e] = g[e]
    BY DEF Increases, SumFunction
  <1> HIDE DEF g
  <1>2. QED
    BY <1>1, SumSame

\* Known rows of one machine, each of which follows those before it.
Story(s) ==
    /\ Table(s) /\ OneMachine(s)
    /\ \A r \in s : r.total >= 0
    /\ \A r, q \in s : r.ts < q.ts => Follows(r, q)

\* Any rows of a story are a story.
LEMMA PartOfStory ==
    ASSUME NEW s, Story(s), NEW t \in SUBSET s
    PROVE  Story(t)
  <1>1. Table(t) /\ OneMachine(t)
    BY PartOfTable DEF Story
  <1>2. QED
    BY <1>1 DEF Story

\* Of two rows of a story, the later has made as many parts and has not counted more
\* than was made in between, and exactly as many if there was no reset.
LEMMA StoryGoesOn ==
    ASSUME NEW s, Story(s), NEW r \in s, NEW q \in s, r.ts <= q.ts
    PROVE  /\ r.ts \in Nat /\ q.ts \in Nat /\ r.made \in Nat /\ q.made \in Nat
           /\ r.total \in Nat /\ q.total \in Nat
           /\ r.made <= q.made /\ q.total - r.total <= q.made - r.made
           /\ r.resets = q.resets => q.total - r.total = q.made - r.made
  <1>1. r \in Rows /\ q \in Rows /\ r.total >= 0 /\ q.total >= 0 /\ (r.ts < q.ts => Follows(r, q))
        /\ (r.ts = q.ts => r = q)
    BY DEF Story, Table, OneMachine
  <1>2. QED
    BY <1>1 DEF Rows, Follows

\* The parts really made, of known rows.
LEMMA MadeIs ==
    ASSUME NEW s, Story(s), NEW a, IsFirst(a, s), NEW z, IsLast(z, s)
    PROVE  Max(Made(s)) - Min(Made(s)) = z.made - a.made /\ z.made - a.made \in Nat
  <1>1. a \in s /\ z \in s /\ \A r \in s : a.ts <= r.ts /\ r.ts <= z.ts
    BY DEF IsFirst, IsLast
  <1>2. \A r \in s : a.made <= r.made /\ r.made <= z.made /\ r.made \in Nat
    BY <1>1, StoryGoesOn
  <1>3. Made(s) \in SUBSET Int /\ a.made \in Made(s) /\ z.made \in Made(s)
        /\ \A y \in Made(s) : a.made <= y /\ y <= z.made
    BY <1>1, <1>2 DEF Made
  <1>4. Max(Made(s)) = z.made /\ Min(Made(s)) = a.made
    BY <1>3, MaxIs, MinIs
  <1>5. QED
    BY <1>1, <1>2, <1>4

\* The report's parts are parts that were made, and all of them without a reset.
LEMMA ReportIsMade ==
    ASSUME NEW s, Story(s), NEW a, IsFirst(a, s), NEW z, IsLast(z, s)
    PROVE  /\ Produced(s) <= z.made - a.made
           /\ (\A r, q \in s : r.resets = q.resets) => Produced(s) = z.made - a.made
  <1> DEFINE h == [r \in s |-> r.made]
             d == [e \in Neighbours(s) |-> e[2].made - e[1].made]
             f == [e \in Neighbours(s) |-> Increase(e)]
  <1>1. Table(s) /\ OneMachine(s)
    BY DEF Story
  <1>2. /\ IsFiniteSet(Neighbours(s))
        /\ \A e \in Neighbours(s) : e[1] \in s /\ e[2] \in s /\ e \in Rows \X Rows /\ e[1].ts <= e[2].ts
    <2>1. IsFiniteSet(Neighbours(s)) /\ Neighbours(s) \subseteq s \X s
      BY <1>1, PairsFinite
    <2>2. \A e \in Neighbours(s) : e[1].ts < e[2].ts /\ e[1].ts \in Nat /\ e[2].ts \in Nat
      BY <1>1, <2>1 DEF Neighbours, Table, Rows
    <2>3. QED
      BY <1>1, <2>1, <2>2 DEF Table
  <1>3. ASSUME NEW e \in Neighbours(s)
        PROVE  /\ d[e] = h[e[2]] - h[e[1]] /\ d[e] \in Int /\ f[e] \in Int /\ f[e] <= d[e]
               /\ (\A r, q \in s : r.resets = q.resets) => f[e] = d[e]
    <2>1. /\ e[1] \in s /\ e[2] \in s /\ e[1].made \in Nat /\ e[2].made \in Nat
          /\ e[1].total \in Nat /\ e[2].total \in Nat
          /\ e[1].made <= e[2].made /\ e[2].total - e[1].total <= e[2].made - e[1].made
          /\ e[1].resets = e[2].resets => e[2].total - e[1].total = e[2].made - e[1].made
      BY <1>2, StoryGoesOn
    <2>2. f[e] = Increase(e) /\ d[e] = e[2].made - e[1].made /\ h[e[1]] = e[1].made /\ h[e[2]] = e[2].made
      BY <2>1
    <2> HIDE DEF f, d, h
    <2>3. QED
      BY <2>1, <2>2 DEF Increase
  <1>4. \A r \in s : h[r] \in Int
    BY <1>1 DEF Table, Rows
  <1>5. h[z] = z.made /\ h[a] = a.made
    BY DEF IsFirst, IsLast
  <1>6. Produced(s) = SumFunctionOnSet(f, Neighbours(s))
    BY <1>2, <1>3, IncreasesAre DEF Produced
  <1> HIDE DEF h, d, f
  <1>7. SumFunctionOnSet(d, Neighbours(s)) = z.made - a.made
    BY <1>1, <1>3, <1>4, <1>5, Telescope
  <1>8. SumFunctionOnSet(f, Neighbours(s)) <= SumFunctionOnSet(d, Neighbours(s))
    BY <1>2, <1>3, SumLe
  <1>9. (\A r, q \in s : r.resets = q.resets) => SumFunctionOnSet(f, Neighbours(s)) = SumFunctionOnSet(d, Neighbours(s))
    BY <1>2, <1>3, SumSame
  <1>10. QED
    BY <1>6, <1>7, <1>8, <1>9

\* Two sums of the GUI: what a part of the rows spreads over, and all such parts.
LEMMA SpreadIs ==
    ASSUME NEW s, Story(s), \A r, q \in s : r.resets = q.resets,
           NEW a, IsFirst(a, s), NEW z, IsLast(z, s)
    PROVE  Spread(s) = z.made - a.made /\ z.made - a.made \in Nat
  <1>1. a \in s /\ z \in s /\ \A r \in s : a.ts <= r.ts /\ r.ts <= z.ts
    BY DEF IsFirst, IsLast
  <1>2. \A r \in s : /\ a.total \in Nat /\ r.total \in Nat /\ z.total \in Nat
                     /\ a.made \in Nat /\ r.made \in Nat /\ z.made \in Nat
                     /\ r.total - a.total = r.made - a.made /\ z.total - r.total = z.made - r.made
                     /\ a.made <= r.made /\ r.made <= z.made
    BY <1>1, StoryGoesOn
  <1>3. {r.total : r \in s} \in SUBSET Int /\ a.total \in {r.total : r \in s} /\ z.total \in {r.total : r \in s}
        /\ \A y \in {r.total : r \in s} : a.total <= y /\ y <= z.total
    BY <1>1, <1>2
  <1>4. Max({r.total : r \in s}) = z.total /\ Min({r.total : r \in s}) = a.total
    BY <1>3, MaxIs, MinIs
  <1>5. Spread(s) = z.total - a.total
    BY <1>4 DEF Spread
  <1>6. QED
    BY <1>1, <1>2, <1>5

\* What lies between two moments of a bucket is of it too.
LEMMA SameBucket ==
    ASSUME NEW t \in Nat, NEW u \in Nat, NEW v \in Nat, t <= u, u <= v,
           t \div GuiBucket = v \div GuiBucket
    PROVE  u \div GuiBucket = t \div GuiBucket
  BY ProductionAssumption, DivMonotone

\* What the GUI adds up bucket by bucket are steps within buckets, which are some of
\* the steps from the first row to the last.
LEMMA GuiProducedIs ==
    ASSUME NEW s, Story(s), \A r, q \in s : r.resets = q.resets,
           NEW a, IsFirst(a, s), NEW z, IsLast(z, s)
    PROVE  GuiProduced(s) \in Int /\ GuiProduced(s) <= z.made - a.made
  <1> DEFINE K == {GuiBucketOf(r) : r \in s}
             part(b) == {r \in s : GuiBucketOf(r) = b}
             h == [r \in s |-> r.made]
             d == [e \in s \X s |-> e[2].made - e[1].made]
             p == [e \in s \X s |-> GuiBucketOf(e[1])]
             class(b) == {e \in Neighbours(s) : p[e] = b}
             spreads == [b \in K |-> Spread(part(b))]
             classes == [b \in K |-> SumFunctionOnSet(d, class(b))]
  <1>1. Table(s) /\ OneMachine(s)
    BY DEF Story
  <1>2. IsFiniteSet(K)
    <2> DEFINE bucket == [r \in s |-> GuiBucketOf(r)]
    <2>1. K = {bucket[r] : r \in s}
      OBVIOUS
    <2> HIDE DEF bucket
    <2>2. IsFiniteSet({bucket[r] : r \in s})
      BY <1>1, ImageFinite DEF Table
    <2>3. QED
      BY <2>1, <2>2
  <1>3. \A r \in s : r.made \in Nat
    BY <1>1 DEF Table, Rows
  <1>4. \A e \in s \X s : d[e] = h[e[2]] - h[e[1]] /\ d[e] \in Int /\ p[e] \in K /\ d[e] = e[2].made - e[1].made
    BY <1>3
  <1>5. \A e \in Neighbours(s) : d[e] >= 0 /\ e \in s \X s
    <2>1. \A e \in Neighbours(s) : e \in s \X s /\ e[1] \in s /\ e[2] \in s /\ e[1].ts <= e[2].ts
      <3>1. \A e \in Neighbours(s) : e[1] \in s /\ e[2] \in s /\ e[1].ts < e[2].ts /\ e[1].ts \in Nat /\ e[2].ts \in Nat
        BY <1>1 DEF Neighbours, Table, Rows
      <3>2. QED
        BY <3>1 DEF Neighbours
    <2>2. \A e \in Neighbours(s) : e[1].made <= e[2].made
      BY <2>1, StoryGoesOn
    <2>3. QED
      BY <1>3, <1>4, <2>1, <2>2
  <1>6. ASSUME NEW b \in K
        PROVE  spreads[b] \in Int /\ classes[b] \in Int /\ spreads[b] <= classes[b]
    <2> DEFINE t == part(b)
    <2>1. t # {} /\ t \in SUBSET s /\ Story(t)
      BY PartOfStory
    <2>2. PICK u, v : IsFirst(u, t) /\ IsLast(v, t)
      BY <2>1, HasEnds DEF Story
    <2>3. Spread(t) = v.made - u.made /\ v.made - u.made \in Nat
      BY <2>1, <2>2, SpreadIs
    <2>4. u \in s /\ v \in s /\ h[u] = u.made /\ h[v] = v.made
      BY <2>1, <2>2 DEF IsFirst, IsLast
    <2>5. /\ IsFiniteSet(Neighbours(t)) /\ Neighbours(t) \subseteq t \X t /\ t \X t \subseteq s \X s
      BY <2>1, PairsFinite DEF Story
    <2>6. \A e \in Neighbours(t) : e \in s \X s /\ d[e] = h[e[2]] - h[e[1]]
      BY <1>4, <2>5
    <2>7. \A r \in t : h[r] \in Int
      BY <1>3
    <2>8. IsFiniteSet(Neighbours(s)) /\ IsFiniteSet(class(b))
      BY <1>1, PairsFinite, FS_Subset
    <2>9. Neighbours(t) \in SUBSET class(b)
      <3> SUFFICES ASSUME NEW e \in Neighbours(t) PROVE e \in Neighbours(s) /\ p[e] = b
        OBVIOUS
      <3>1. /\ e \in s \X s /\ e[1] \in s /\ e[2] \in s /\ GuiBucketOf(e[1]) = b /\ GuiBucketOf(e[2]) = b
            /\ e[1].machine = e[2].machine /\ e[1].ts < e[2].ts
        BY <2>5 DEF Neighbours
      <3>2. ASSUME NEW q \in s, q.machine = e[1].machine, e[1].ts < q.ts, q.ts < e[2].ts PROVE FALSE
        <4>1. GuiBucketOf(q) = b
          BY <1>1, <3>1, <3>2, SameBucket DEF GuiBucketOf, Table, Rows
        <4>2. QED
          BY <3>2, <4>1 DEF Neighbours
      <3>3. QED
        BY <3>1, <3>2 DEF Neighbours
    <2> HIDE DEF h, d, p, part
    <2>10. SumFunctionOnSet(d, Neighbours(t)) = h[v] - h[u]
      BY <2>1, <2>2, <2>6, <2>7, Telescope DEF Story
    <2> HIDE DEF K
    <2>11. \A e \in class(b) : d[e] \in Int /\ d[e] >= 0
      BY <1>4, <1>5
    <2>12. SumFunctionOnSet(d, Neighbours(t)) <= SumFunctionOnSet(d, class(b))
      BY <2>8, <2>9, <2>11, SumPart
    <2>13. SumFunctionOnSet(d, class(b)) \in Int
      BY <2>8, <2>11, SumStep
    <2>14. spreads[b] = Spread(t) /\ classes[b] = SumFunctionOnSet(d, class(b))
      OBVIOUS
    <2>15. QED
      BY <2>3, <2>4, <2>10, <2>12, <2>13, <2>14
  <1>7. GuiProduced(s) = SumFunctionOnSet(spreads, K)
    BY DEF GuiProduced, SumFunction
  <1> HIDE DEF spreads, part
  <1>8. SumFunctionOnSet(spreads, K) <= SumFunctionOnSet(classes, K)
    <2> HIDE DEF classes, K
    <2>1. QED
      BY <1>2, <1>6, SumLe
  <1>9. SumFunctionOnSet(d, Neighbours(s)) = SumFunctionOnSet(classes, K)
    <2>1. IsFiniteSet(Neighbours(s)) /\ \A e \in Neighbours(s) : d[e] \in Int /\ p[e] \in K
      BY <1>1, <1>4, <1>5, PairsFinite
    <2> HIDE DEF K, p, d
    <2>2. QED
      BY <1>2, <2>1, SumClasses
  <1>10. SumFunctionOnSet(d, Neighbours(s)) = h[z] - h[a]
    <2>1. \A r \in s : h[r] \in Int
      BY <1>3
    <2>2. \A e \in Neighbours(s) : d[e] = h[e[2]] - h[e[1]]
      BY <1>4, <1>5
    <2> HIDE DEF h, d
    <2>3. QED
      BY <1>1, <2>1, <2>2, Telescope
  <1>11. h[z] = z.made /\ h[a] = a.made
    BY DEF IsFirst, IsLast
  <1>12. SumFunctionOnSet(spreads, K) \in Int
    <2> HIDE DEF classes, K
    <2>1. QED
      BY <1>2, <1>6, SumStep
  <1>13. QED
    BY <1>7, <1>8, <1>9, <1>10, <1>11, <1>12

-----------------------------------------------------------------------------
(* What is loaded. *)

\* The table has its primary key.
LEMMA RowsAreTable ==
    ASSUME ProductionInv
    PROVE  Table(rows)
  BY DEF ProductionInv, RowsInv, Table

\* What is selected and what is loaded is a table too.
LEMMA LoadIs ==
    ASSUME ProductionInv, NEW from, NEW to, NEW of
    PROVE  /\ Table(Select(from, to, of)) /\ Select(from, to, of) \subseteq rows
           /\ Load(from, to, of) \subseteq Select(from, to, of) /\ Table(Load(from, to, of))
  <1>1. Select(from, to, of) \subseteq rows /\ Load(from, to, of) \subseteq Select(from, to, of)
    BY DEF Select, Load
  <1>2. QED
    BY <1>1, RowsAreTable, PartOfTable

\* The limit cuts off the end.
LEMMA LoadIsPrefix ==
    ASSUME ProductionInv, NEW from, NEW to, NEW of,
           NEW r \in Load(from, to, of), NEW q \in Select(from, to, of), q.ts < r.ts
    PROVE  q \in Load(from, to, of)
  <1> DEFINE all == Select(from, to, of)
             upto(x) == {y \in all : Before(y, x)}
  <1>1. Table(all) /\ r \in all /\ Cardinality(upto(r)) < MaxWebRows
    BY LoadIs DEF Load
  <1>2. \A x \in all : x.ts \in Nat /\ x.machine \in Nat
    BY <1>1, ProductionAssumption DEF Table, Rows
  <1>3. upto(q) \in SUBSET upto(r)
    BY <1>1, <1>2 DEF Before
  <1>4. IsFiniteSet(upto(r)) /\ IsFiniteSet(upto(q))
    BY <1>1, FS_Subset DEF Table
  <1>5. Cardinality(upto(q)) \in Nat /\ Cardinality(upto(r)) \in Nat /\ Cardinality(upto(q)) <= Cardinality(upto(r))
    BY <1>3, <1>4, FS_CardinalityType, FS_Subset
  <1>6. Cardinality(upto(q)) < MaxWebRows
    BY <1>1, <1>5, ProductionAssumption
  <1>7. QED
    BY <1>6 DEF Load

\* What the web server counts, the report counts too.
LEMMA WebCountsLess ==
    ASSUME ProductionInv, NEW from, NEW to, NEW of
    PROVE  Produced(Load(from, to, of)) <= ReportProduced(Select(from, to, of))
  <1> DEFINE s == Select(from, to, of)
             l == Load(from, to, of)
             f == [e \in s \X s |-> Increase(e)]
             P == {e \in Neighbours(l) : f[e] # 0}
  <1>1. Table(s) /\ Table(l) /\ l \subseteq s /\ Known(s) \subseteq s /\ Table(Known(s))
    <2>1. Table(s) /\ Table(l) /\ l \subseteq s
      BY LoadIs
    <2>2. Known(s) \in SUBSET s
      BY DEF Known
    <2>3. QED
      BY <2>1, <2>2, PartOfTable
  <1>2. s \X s \subseteq Rows \X Rows /\ \A r \in s : r.ts \in Nat
    BY <1>1 DEF Table, Rows
  <1>3. \A e \in s \X s : f[e] = Increase(e) /\ f[e] \in Nat /\ (f[e] # 0 => e[1].total >= 0 /\ e[2].total >= 0)
    BY <1>2, IncreaseIs
  <1>4. /\ IsFiniteSet(Neighbours(l)) /\ Neighbours(l) \subseteq s \X s
        /\ IsFiniteSet(Neighbours(Known(s))) /\ Neighbours(Known(s)) \subseteq s \X s
    <2>1. /\ IsFiniteSet(Neighbours(l)) /\ Neighbours(l) \subseteq l \X l
          /\ IsFiniteSet(Neighbours(Known(s))) /\ Neighbours(Known(s)) \subseteq Known(s) \X Known(s)
      BY <1>1, PairsFinite
    <2>2. QED
      BY <1>1, <2>1
  <1>5. P \in SUBSET Neighbours(Known(s))
    <2> SUFFICES ASSUME NEW e \in Neighbours(l), f[e] # 0 PROVE e \in Neighbours(Known(s))
      OBVIOUS
    <2>1. /\ e \in l \X l /\ e \in s \X s /\ e[1].machine = e[2].machine /\ e[1].ts < e[2].ts
          /\ ~\E q \in l : q.machine = e[1].machine /\ e[1].ts < q.ts /\ q.ts < e[2].ts
      BY <1>4 DEF Neighbours
    <2>2. e[1].total >= 0 /\ e[2].total >= 0
      BY <1>3, <2>1
    <2>3. ASSUME NEW q \in s, q.machine = e[1].machine, e[1].ts < q.ts, q.ts < e[2].ts PROVE FALSE
      <3>1. q \in l
        BY <2>1, <2>3, LoadIsPrefix
      <3>2. QED
        BY <2>1, <2>3, <3>1
    <2>4. e \in Known(s) \X Known(s)
      BY <2>1, <2>2 DEF Known
    <2>5. QED
      BY <1>1, <2>1, <2>3, <2>4 DEF Neighbours
  <1>6. Produced(l) = SumFunctionOnSet(f, Neighbours(l))
    <2> HIDE DEF l
    <2>1. \A e \in Neighbours(l) : f[e] \in Int /\ f[e] = Increase(e)
      BY <1>3, <1>4
    <2> HIDE DEF f
    <2>2. QED
      BY <1>4, <2>1, IncreasesAre DEF Produced
  <1>7. ReportProduced(s) = SumFunctionOnSet(f, Neighbours(Known(s)))
    <2>1. \A e \in Neighbours(Known(s)) : f[e] \in Int /\ f[e] = Increase(e)
      BY <1>3, <1>4
    <2> HIDE DEF f, s
    <2>2. QED
      BY <1>4, <2>1, IncreasesAre DEF ReportProduced, Produced
  <1>8. SumFunctionOnSet(f, Neighbours(l)) = SumFunctionOnSet(f, P)
    <2>1. \A e \in Neighbours(l) : f[e] \in Int
      BY <1>3, <1>4
    <2> HIDE DEF f, l, s
    <2>2. P \in SUBSET Neighbours(l) /\ \A e \in Neighbours(l) \ P : f[e] = 0
      OBVIOUS
    <2>3. QED
      BY <1>4, <2>1, <2>2, SumPart
  <1>9. SumFunctionOnSet(f, P) <= SumFunctionOnSet(f, Neighbours(Known(s)))
    <2>1. \A e \in Neighbours(Known(s)) : f[e] \in Int /\ f[e] >= 0
      BY <1>3, <1>4
    <2> HIDE DEF f, l, s, P
    <2>2. QED
      BY <1>4, <1>5, <2>1, SumPart
  <1>10. QED
    BY <1>6, <1>7, <1>8, <1>9

\* The known rows of one machine, and those of the GUI's sampler, are a story.
LEMMA KnownIsStory ==
    ASSUME ProductionInv, NEW from, NEW to, NEW m, NEW s, s = Select(from, to, {m})
    PROVE  Story(Known(s)) /\ Story(Sampled(s)) /\ Sampled(s) \subseteq Known(s)
  <1>1. s \subseteq rows /\ Table(s) /\ \A r \in s : r.machine = m
    <2>1. Select(from, to, {m}) \subseteq rows /\ Table(Select(from, to, {m}))
      BY LoadIs
    <2>2. \A r \in Select(from, to, {m}) : r.machine = m
      BY DEF Select
    <2>3. QED
      BY <2>1, <2>2
  <1>2. Known(s) \in SUBSET s /\ Sampled(s) \in SUBSET Known(s)
    BY DEF Known, Sampled
  <1>3. Table(Known(s)) /\ OneMachine(Known(s))
    BY <1>1, <1>2, PartOfTable DEF OneMachine
  <1>4. \A r, q \in Known(s) : r.ts < q.ts => Follows(r, q)
    BY <1>1, <1>2 DEF ProductionInv, RowsInv
  <1>5. Story(Known(s))
    BY <1>3, <1>4 DEF Story, Known
  <1>6. QED
    BY <1>2, <1>5, PartOfStory

\* Rows with one number of resets.
LEMMA UndisturbedIs ==
    ASSUME NEW s, Table(s), Cardinality(Resets(s)) <= 1
    PROVE  \A r, q \in s : r.resets = q.resets
  <1> SUFFICES ASSUME NEW r \in s, NEW q \in s, r.resets # q.resets PROVE FALSE
    OBVIOUS
  <1>1. IsFiniteSet(Resets(s))
    <2> DEFINE f == [x \in s |-> x.resets]
    <2>1. Resets(s) = {f[x] : x \in s}
      BY DEF Resets
    <2> HIDE DEF f
    <2>2. IsFiniteSet({f[x] : x \in s})
      BY ImageFinite DEF Table
    <2>3. QED
      BY <2>1, <2>2
  <1> DEFINE R == Resets(s)
  <1>2. r.resets \in R /\ q.resets \in R
    BY DEF Resets
  <1> HIDE DEF R
  <1>3. Cardinality(R) \in Nat /\ IsFiniteSet(R) /\ Cardinality(R) <= 1
    BY <1>1, FS_CardinalityType DEF R
  <1>4. Cardinality(R \ {r.resets}) = Cardinality(R) - 1 /\ IsFiniteSet(R \ {r.resets})
    BY <1>2, <1>3, FS_RemoveElement, FS_Subset
  <1>5. Cardinality(R \ {r.resets}) \in Nat /\ Cardinality(R \ {r.resets}) = 0
    BY <1>3, <1>4, FS_CardinalityType
  <1>6. R \ {r.resets} = {}
    BY <1>4, <1>5, FS_EmptySet
  <1>7. QED
    BY <1>2, <1>6

\* Nothing adds up to nothing.
LEMMA NothingProduced ==
    /\ Produced({}) = 0 /\ GuiProduced({}) = 0
  <1>1. Neighbours({}) = {}
    BY DEF Neighbours
  <1> DEFINE f == [e \in Neighbours({}) |-> Increase(e)]
             K == {GuiBucketOf(r) : r \in {}}
             g == [b \in K |-> Spread({r \in {} : GuiBucketOf(r) = b})]
  <1>2. Produced({}) = SumFunctionOnSet(f, Neighbours({}))
    BY DEF Produced, Increases, SumFunction
  <1>3. GuiProduced({}) = SumFunctionOnSet(g, K) /\ K = {}
    BY DEF GuiProduced, SumFunction
  <1> HIDE DEF f, g, K
  <1>4. SumFunctionOnSet(f, {}) = 0 /\ SumFunctionOnSet(g, {}) = 0
    BY FS_EmptySet, SumStep
  <1>5. QED
    BY <1>1, <1>2, <1>3, <1>4

\* NeverOvercounts for one range of one machine.
LEMMA CountsOfRange ==
    ASSUME ProductionInv, NEW from, NEW to, NEW m, NEW s, s = Select(from, to, {m})
    PROVE  /\ Produced(Load(from, to, {m})) <= ReportProduced(s)
           /\ ReportProduced(s) <= ReallyMade(s)
           /\ Undisturbed(s) =>
                 /\ ReportProduced(s) = ReallyMade(s)
                 /\ GuiProduced(Sampled(s)) <= ReallyMade(s)
                 /\ \A c \in CommentsOf(Sampled(s)) : GuiProduct(Sampled(s), c) <= ReallyMade(s)
  <1>1. Story(Known(s)) /\ Story(Sampled(s)) /\ Sampled(s) \subseteq Known(s)
    BY KnownIsStory
  <1>2. Produced(Load(from, to, {m})) <= ReportProduced(s)
    BY WebCountsLess
  <1>3. CASE Known(s) = {}
    <2>1. ReportProduced(s) = 0 /\ ReallyMade(s) = 0 /\ GuiProduced(Sampled(s)) = 0 /\ CommentsOf(Sampled(s)) = {}
      <3>1. Sampled(s) = {}
        BY <1>1, <1>3
      <3>2. QED
        BY <1>3, <3>1, NothingProduced DEF ReportProduced, ReallyMade, CommentsOf
    <2>2. QED
      BY <1>2, <2>1
  <1>4. CASE Known(s) # {}
    <2>1. PICK a, z : IsFirst(a, Known(s)) /\ IsLast(z, Known(s))
      BY <1>1, <1>4, HasEnds DEF Story
    <2>2. ReallyMade(s) = z.made - a.made /\ z.made - a.made \in Nat
      BY <1>1, <1>4, <2>1, MadeIs DEF ReallyMade
    <2>3. /\ ReportProduced(s) <= z.made - a.made
          /\ (\A r, q \in Known(s) : r.resets = q.resets) => ReportProduced(s) = z.made - a.made
      BY <1>1, <2>1, ReportIsMade DEF ReportProduced
    <2>4. ASSUME Undisturbed(s)
          PROVE  \A r, q \in Known(s) : r.resets = q.resets
      BY <1>1, <2>4, UndisturbedIs DEF Undisturbed, Story
    <2>5. ASSUME NEW t \in SUBSET Sampled(s), t # {}, NEW b, IsFirst(b, t), NEW y, IsLast(y, t)
          PROVE  y.made - b.made <= z.made - a.made
      <3>1. b \in Known(s) /\ y \in Known(s) /\ a \in Known(s) /\ z \in Known(s) /\ a.ts <= b.ts /\ y.ts <= z.ts
        BY <1>1, <2>1, <2>5 DEF IsFirst, IsLast
      <3>2. a.made <= b.made /\ y.made <= z.made /\ a.made \in Nat /\ b.made \in Nat /\ y.made \in Nat /\ z.made \in Nat
        BY <1>1, <3>1, StoryGoesOn
      <3>3. QED
        BY <3>2
    <2>6. ASSUME Undisturbed(s) PROVE GuiProduced(Sampled(s)) <= ReallyMade(s)
      <3>1. CASE Sampled(s) = {}
        <4>1. GuiProduced(Sampled(s)) = 0
          BY <3>1, NothingProduced
        <4>2. QED
          BY <2>2, <4>1
      <3>2. CASE Sampled(s) # {}
        <4>1. PICK b, y : IsFirst(b, Sampled(s)) /\ IsLast(y, Sampled(s))
          BY <1>1, <3>2, HasEnds DEF Story
        <4>2. GuiProduced(Sampled(s)) \in Int /\ GuiProduced(Sampled(s)) <= y.made - b.made
          BY <1>1, <2>4, <2>6, <4>1, GuiProducedIs
        <4>3. y.made - b.made <= z.made - a.made /\ y.made - b.made \in Int
          <5>1. y.made - b.made <= z.made - a.made
            BY <2>5, <3>2, <4>1
          <5>2. \A r, q \in Sampled(s) : r.resets = q.resets
            BY <1>1, <2>4, <2>6
          <5>3. y.made - b.made \in Nat
            BY <1>1, <4>1, <5>2, SpreadIs
          <5>4. QED
            BY <5>1, <5>3
        <4>4. QED
          BY <2>2, <4>2, <4>3
      <3>3. QED
        BY <3>1, <3>2
    <2>7. ASSUME Undisturbed(s), NEW c \in CommentsOf(Sampled(s))
          PROVE  GuiProduct(Sampled(s), c) <= ReallyMade(s)
      <3> DEFINE t == {r \in Sampled(s) : r.comment = c}
      <3>1. t \in SUBSET Sampled(s) /\ t # {} /\ Story(t)
        BY <1>1, PartOfStory DEF CommentsOf
      <3>2. PICK b, y : IsFirst(b, t) /\ IsLast(y, t)
        BY <3>1, HasEnds DEF Story
      <3>3. Spread(t) = y.made - b.made
        BY <1>1, <2>4, <2>7, <3>1, <3>2, SpreadIs
      <3>4. y.made - b.made <= z.made - a.made
        BY <2>5, <3>1, <3>2
      <3>5. QED
        BY <2>2, <3>3, <3>4 DEF GuiProduct
    <2>8. QED
      BY <1>2, <2>2, <2>3, <2>4, <2>6, <2>7
  <1>5. QED
    BY <1>3, <1>4

\* Neither the web server's summary, nor the report, nor (without a reset) the GUI shows
\* more parts than were made; the report shows at least what the web server shows, and
\* every part of a counter that was not reset.
THEOREM NoPartIsInvented == Spec => []NeverOvercounts
  <1>1. ProductionInv => NeverOvercounts
    <2> SUFFICES ASSUME ProductionInv PROVE NeverOvercounts
      OBVIOUS
    <2> DEFINE S(from, m) == Select(from, now, {m})
    <2>1. ASSUME NEW from \in Froms, NEW m \in Machines
          PROVE  /\ Produced(Load(from, now, {m})) <= ReportProduced(S(from, m))
                 /\ ReportProduced(S(from, m)) <= ReallyMade(S(from, m))
                 /\ Undisturbed(S(from, m)) =>
                      /\ ReportProduced(S(from, m)) = ReallyMade(S(from, m))
                      /\ GuiProduced(Sampled(S(from, m))) <= ReallyMade(S(from, m))
                      /\ \A c \in CommentsOf(Sampled(S(from, m))) :
                            GuiProduct(Sampled(S(from, m)), c) <= ReallyMade(S(from, m))
      BY CountsOfRange
    <2>2. QED
      BY <2>1 DEF NeverOvercounts
  <1>2. QED
    BY <1>1, ProductionInvariant, PTL

-----------------------------------------------------------------------------
(* One sum, taken by machines, by buckets and by products. *)

\* Increases, by what is said of a pair.
LEMMA ByClass ==
    ASSUME NEW s, Table(s), NEW K, IsFiniteSet(K), NEW p
    PROVE  LET N == Neighbours(s)
               classes == SumFunction([k \in K |-> Increases({e \in N : p[e] = k})])
           IN  /\ classes <= Produced(s)
               /\ (\A e \in N : Increase(e) # 0 => p[e] \in K) => classes = Produced(s)
  <1> DEFINE N == Neighbours(s)
             f == [e \in N |-> Increase(e)]
             class(k) == {e \in N : p[e] = k}
             inF == [k \in K |-> SumFunctionOnSet(f, class(k))]
             inN == [k \in K |-> Increases(class(k))]
  <1>1. IsFiniteSet(N) /\ \A e \in N : e \in Rows \X Rows
    BY PairsFinite DEF Table
  <1>2. \A e \in N : f[e] = Increase(e) /\ f[e] \in Nat
    BY <1>1, IncreaseIs
  <1> HIDE DEF N, f
  <1>3. Produced(s) = SumFunctionOnSet(f, N)
    BY <1>1, <1>2, IncreasesAre DEF Produced, N
  <1>4. \A k \in K : Increases(class(k)) = SumFunctionOnSet(f, class(k))
    <2>1. \A k \in K : IsFiniteSet(class(k)) /\ \A e \in class(k) : f[e] \in Int /\ f[e] = Increase(e)
      BY <1>1, <1>2, FS_Subset
    <2> HIDE DEF class
    <2>2. QED
      BY <2>1, IncreasesAre
  <1>5. inF = inN
    BY <1>4
  <1>6. /\ SumFunctionOnSet(inF, K) <= SumFunctionOnSet(f, N)
        /\ (\A e \in N : f[e] # 0 => p[e] \in K) => SumFunctionOnSet(inF, K) = SumFunctionOnSet(f, N)
    BY <1>1, <1>2, SumSomeClasses
  <1>7. SumFunction(inN) = SumFunctionOnSet(inN, K)
    BY DEF SumFunction
  <1>8. QED
    BY <1>2, <1>3, <1>5, <1>6, <1>7 DEF N

\* Machine by machine, as no pair is of two.
LEMMA ByMachine ==
    ASSUME NEW s, Table(s)
    PROVE  Produced(s) = SumFunction([m \in Machines |-> Produced({r \in s : r.machine = m})])
  <1> DEFINE N == Neighbours(s)
             p == [e \in N |-> e[1].machine]
             class(m) == {e \in N : p[e] = m}
             of(m) == {r \in s : r.machine = m}
  <1>1. \A e \in N : p[e] \in Machines
    BY PairsFinite DEF Rows
  <1>2. ASSUME NEW m \in Machines PROVE class(m) = Neighbours(of(m))
    <2>1. ASSUME NEW e \in class(m) PROVE e \in Neighbours(of(m))
      BY DEF Neighbours
    <2>2. ASSUME NEW e \in Neighbours(of(m)) PROVE e \in class(m)
      BY DEF Neighbours
    <2>3. QED
      BY <2>1, <2>2
  <1>3. SumFunction([m \in Machines |-> Increases(class(m))]) = Produced(s)
    <2>1. IsFiniteSet(Machines)
      BY ProductionAssumption
    <2> HIDE DEF p
    <2>2. QED
      BY <1>1, <2>1, ByClass
  <1>4. \A m \in Machines : Increases(class(m)) = Produced(of(m))
    BY <1>2 DEF Produced
  <1> HIDE DEF class, of
  <1>5. [m \in Machines |-> Increases(class(m))] = [m \in Machines |-> Produced(of(m))]
    BY <1>4
  <1>6. QED
    BY <1>3, <1>5 DEF of

\* Finitely many rows have finitely many buckets and comments.
LEMMA TimesFinite ==
    ASSUME NEW s, IsFiniteSet(s)
    PROVE  IsFiniteSet(BucketsOf(s)) /\ IsFiniteSet(CommentsOf(s))
  <1> DEFINE b == [r \in s |-> BucketOf(r.ts)]
             c == [r \in s |-> r.comment]
  <1>1. BucketsOf(s) = {b[r] : r \in s} /\ CommentsOf(s) = {c[r] : r \in s}
    BY DEF BucketsOf, Times, CommentsOf
  <1> HIDE DEF b, c
  <1>2. IsFiniteSet({b[r] : r \in s}) /\ IsFiniteSet({c[r] : r \in s})
    BY ImageFinite
  <1>3. QED
    BY <1>1, <1>2

\* ViewsAddUp for one range of the web server.
LEMMA ViewsOfRange ==
    ASSUME NEW s, Table(s)
    PROVE  /\ SumFunction(ProductionPoints(s)) = Produced(s)
           /\ SumFunction(Products(s)) <= Produced(s)
           /\ Listed(s) = CommentsOf(s) => SumFunction(Products(s)) = Produced(s)
  <1> DEFINE N == Neighbours(s)
             p == [e \in N |-> BucketOf(e[2].ts)]
             c == [e \in N |-> e[1].comment]
             K == BucketsOf(Known(s))
             L == Listed(s)
  <1>1. IsFiniteSet(s) /\ IsFiniteSet(Known(s)) /\ \A e \in N : e \in Rows \X Rows /\ e[1] \in s /\ e[2] \in s
    BY PairsFinite, FS_Subset DEF Table, Known
  <1>2. IsFiniteSet(K)
    BY <1>1, TimesFinite
  <1>3. L \in SUBSET CommentsOf(s) /\ IsFiniteSet(L)
    <2>1. L \in SUBSET CommentsOf(s)
      BY DEF Listed, CommentsOf
    <2>2. QED
      BY <1>1, <2>1, TimesFinite, FS_Subset
  <1>4. \A e \in N : Increase(e) # 0 => p[e] \in K
    <2>1. \A e \in N : Increase(e) # 0 => e[2] \in Known(s)
      BY <1>1, IncreaseIs DEF Known
    <2>2. QED
      BY <2>1 DEF BucketsOf, Times
  <1>5. \A e \in N : c[e] \in CommentsOf(s)
    BY <1>1 DEF CommentsOf
  <1>6. /\ ProductionPoints(s) = [b \in K |-> Increases({e \in N : p[e] = b})]
        /\ Products(s) = [x \in L |-> Increases({e \in N : c[e] = x})]
    <2>1. \A b : {e \in N : p[e] = b} = {e \in N : BucketOf(e[2].ts) = b}
      OBVIOUS
    <2>2. \A x : {e \in N : c[e] = x} = {e \in N : e[1].comment = x}
      OBVIOUS
    <2> HIDE DEF p, c
    <2>3. QED
      BY <2>1, <2>2 DEF ProductionPoints, Products
  <1> HIDE DEF p, c, K, L
  <1>7. SumFunction([b \in K |-> Increases({e \in N : p[e] = b})]) = Produced(s)
    BY <1>2, <1>4, ByClass
  <1>8. /\ SumFunction([x \in L |-> Increases({e \in N : c[e] = x})]) <= Produced(s)
        /\ (\A e \in N : c[e] \in L) => SumFunction([x \in L |-> Increases({e \in N : c[e] = x})]) = Produced(s)
    BY <1>3, ByClass
  <1>9. QED
    BY <1>5, <1>6, <1>7, <1>8 DEF L

\* What a report counts under a comment.
LEMMA UnderIs ==
    ASSUME NEW P, IsFiniteSet(P), \A e \in P : e \in Rows \X Rows, NEW p, NEW c
    PROVE  Increases({e \in P : p[e] = c}) \in Int
  <1> DEFINE Q == {e \in P : p[e] = c}
             f == [e \in P |-> Increase(e)]
  <1>1. IsFiniteSet(Q) /\ \A e \in Q : f[e] \in Int /\ f[e] = Increase(e)
    <2>1. Q \in SUBSET P
      OBVIOUS
    <2>2. \A e \in P : f[e] \in Int /\ f[e] = Increase(e)
      BY IncreaseIs
    <2> HIDE DEF Q, f
    <2>3. QED
      BY <2>1, <2>2, FS_Subset
  <1> HIDE DEF Q, f
  <1>2. Increases(Q) = SumFunctionOnSet(f, Q) /\ SumFunctionOnSet(f, Q) \in Int
    BY <1>1, IncreasesAre, SumStep
  <1>3. QED
    BY <1>2 DEF Q

\* The report's products of a plant, what has no comment, and what it says of the machines.
LEMMA ReportProductsOfRange ==
    ASSUME ProductionInv, NEW from, NEW to
    PROVE  SumFunction(ReportProducts(Select(from, to, Machines)))
               + Under(Select(from, to, Machines), NoComment)
           = SumFunction([m \in Machines |-> ReportProduced(Select(from, to, {m}))])
  <1> DEFINE s == Select(from, to, Machines)
             k == Known(s)
             N == Neighbours(k)
             p == [e \in N |-> e[2].comment]
             C == CommentsOf(k)
             K == C \cup {NoComment}
             g == [c \in K |-> Increases({e \in N : p[e] = c})]
             h == [c \in C \ {NoComment} |-> Increases({e \in N : p[e] = c})]
  <1>1. s \subseteq rows /\ Table(s) /\ k \in SUBSET s /\ Table(k)
    <2>1. s \subseteq rows /\ Table(s) /\ k \in SUBSET s
      BY LoadIs DEF Known
    <2>2. QED
      BY <2>1, PartOfTable
  <1>2. IsFiniteSet(N) /\ \A e \in N : e \in Rows \X Rows /\ e[2] \in k
    BY <1>1, PairsFinite DEF Table
  <1>3. \A e \in N : p[e] \in K
    BY <1>2 DEF CommentsOf
  <1>4. IsFiniteSet(K)
    <2>1. IsFiniteSet(k)
      BY <1>1 DEF Table
    <2>2. IsFiniteSet(C)
      BY <2>1, TimesFinite
    <2>3. QED
      BY <2>2, FS_AddElement
  <1>5. \A c : Under(s, c) = Increases({e \in N : p[e] = c})
    <2>1. \A c : {e \in N : p[e] = c} = {e \in N : e[2].comment = c}
      OBVIOUS
    <2> HIDE DEF p
    <2>2. QED
      BY <2>1 DEF Under
  <1>6. \A m \in Machines : {r \in k : r.machine = m} = Known(Select(from, to, {m}))
    BY DEF Select, Known
  <1>7. \A m \in Machines : ReportProduced(Select(from, to, {m})) = Produced({r \in k : r.machine = m})
    BY <1>6 DEF ReportProduced
  <1>8. ReportProducts(s) = h
    BY <1>5 DEF ReportProducts
  <1> HIDE DEF p, k
  <1>9. SumFunctionOnSet(g, K) = Produced(k)
    <2>1. SumFunction([c \in K |-> Increases({e \in N : p[e] = c})]) = Produced(k)
      BY <1>1, <1>3, <1>4, ByClass
    <2>2. SumFunction(g) = SumFunctionOnSet(g, K)
      BY DEF SumFunction
    <2>3. QED
      BY <2>1, <2>2
  <1>10. SumFunction([m \in Machines |-> Produced({r \in k : r.machine = m})]) = Produced(k)
    BY <1>1, ByMachine
  <1>11. \A c \in K : g[c] \in Int
    <2>1. \A c : Increases({e \in N : p[e] = c}) \in Int
      <3> HIDE DEF N
      <3>1. QED
        BY <1>2, UnderIs
    <2> HIDE DEF N, K
    <2>2. QED
      BY <2>1
  <1>12. \A c \in K \ {NoComment} : g[c] \in Int /\ g[c] = h[c]
    <2>1. \A c \in K : g[c] = Increases({e \in N : p[e] = c})
      OBVIOUS
    <2>2. \A c \in K \ {NoComment} : h[c] = Increases({e \in N : p[e] = c})
      OBVIOUS
    <2>3. QED
      BY <1>11, <2>1, <2>2
  <1>13. g[NoComment] = Under(s, NoComment)
    BY <1>5
  <1>14. SumFunction(h) = SumFunctionOnSet(h, K \ {NoComment})
    <2>1. DOMAIN h = K \ {NoComment}
      OBVIOUS
    <2> HIDE DEF h, K
    <2>2. QED
      BY <2>1 DEF SumFunction
  <1>15. NoComment \in K
    OBVIOUS
  <1> HIDE DEF s, g, h, K
  <1>16. SumFunctionOnSet(g, K) = g[NoComment] + SumFunctionOnSet(g, K \ {NoComment})
         /\ SumFunctionOnSet(g, K \ {NoComment}) \in Int
    BY <1>4, <1>11, <1>15, SumTake
  <1>17. SumFunctionOnSet(g, K \ {NoComment}) = SumFunctionOnSet(h, K \ {NoComment})
    <2>1. IsFiniteSet(K \ {NoComment})
      BY <1>4, FS_Subset
    <2>2. QED
      BY <1>12, <2>1, SumSame
  <1>18. g[NoComment] \in Int
    BY <1>11, <1>15
  <1>19. SumFunction(ReportProducts(s)) + Under(s, NoComment) = Produced(k)
    BY <1>8, <1>9, <1>13, <1>14, <1>16, <1>17, <1>18
  <1>20. [m \in Machines |-> ReportProduced(Select(from, to, {m}))]
         = [m \in Machines |-> Produced({r \in k : r.machine = m})]
    BY <1>7
  <1>21. QED
    BY <1>10, <1>19, <1>20 DEF s

\* The buckets of api_production, the products of api_products, the report's with what
\* was made without a comment, and the machines' own summaries all add up to the same: no
\* increase is counted twice or lost between two views.
THEOREM AllViewsAddUp == Spec => []ViewsAddUp
  <1>1. ASSUME ProductionInv PROVE ViewsAddUp
    <2> DEFINE all(from) == Load(from, now, Machines)
               each(from) == SumFunction([m \in Machines |-> Produced({r \in all(from) : r.machine = m})])
    <2>1. ASSUME NEW from \in Froms
          PROVE  /\ SumFunction(ProductionPoints(all(from))) = each(from)
                 /\ SumFunction(Products(all(from))) <= each(from)
                 /\ Listed(all(from)) = CommentsOf(all(from)) => SumFunction(Products(all(from))) = each(from)
      <3>1. Table(all(from))
        BY <1>1, LoadIs
      <3> HIDE DEF all
      <3>2. each(from) = Produced(all(from))
        BY <3>1, ByMachine
      <3> HIDE DEF each
      <3>3. QED
        BY <3>1, <3>2, ViewsOfRange
    <2>2. QED
      BY <1>1, <2>1, ReportProductsOfRange DEF ViewsAddUp
  <1>2. QED
    BY <1>1, ProductionInvariant, PTL

-----------------------------------------------------------------------------
(* Running times. *)

\* What a pair lasts and what it has of a bucket, for something that rows say.
LEMMA LastsIs ==
    ASSUME NEW e \in Rows \X Rows, e[1].ts < e[2].ts
    PROVE  /\ Lasts(e, Machining) \in Nat /\ Lasts(e, Powered) \in Nat
           /\ Lasts(e, Machining) <= Lasts(e, Powered) /\ Lasts(e, Powered) <= e[2].ts - e[1].ts
           /\ Counts(e, Machining) => Counts(e, Powered)
           /\ \A what : /\ Lasts(e, what) \in Nat
                        /\ Counts(e, what) => Lasts(e, what) = e[2].ts - e[1].ts
                        /\ ~Counts(e, what) => Lasts(e, what) = 0
  <1>1. e[1].ts \in Nat /\ e[2].ts \in Nat
    BY DEF Rows
  <1>2. Counts(e, Machining) => Counts(e, Powered)
    BY DEF Counts, Says, Powered
  <1>3. QED
    BY <1>1, <1>2 DEF Lasts

\* A moment, moved into the bucket that begins at b.
Within(t, b) == IF t < b THEN b ELSE IF t > b + Bucket THEN b + Bucket ELSE t

\* What a pair has of a bucket is how far it moves within it.
LEMMA OverlapIs ==
    ASSUME NEW e, e[1].ts \in Int, e[2].ts \in Int, e[1].ts < e[2].ts, NEW b \in Int
    PROVE  Overlap(e, b) = Within(e[2].ts, b) - Within(e[1].ts, b) /\ Overlap(e, b) \in Nat
  <1> DEFINE t == e[1].ts
             u == e[2].ts
             low == IF b + Bucket <= u THEN b + Bucket ELSE u
             high == IF b >= t THEN b ELSE t
  <1>1. t \in Int /\ u \in Int /\ t < u /\ Bucket \in Nat \ {0}
    BY ProductionAssumption
  <1> HIDE DEF t, u
  <1>2. Min({b + Bucket, u}) = low /\ low \in Int
    <2>1. low \in {b + Bucket, u} /\ {b + Bucket, u} \in SUBSET Int /\ \A y \in {b + Bucket, u} : low <= y
      BY <1>1
    <2> HIDE DEF low
    <2>2. QED
      BY <2>1, MinIs
  <1>3. Max({b, t}) = high /\ high \in Int
    <2>1. high \in {b, t} /\ {b, t} \in SUBSET Int /\ \A y \in {b, t} : y <= high
      BY <1>1
    <2> HIDE DEF high
    <2>2. QED
      BY <2>1, MaxIs
  <1> DEFINE d == low - high
             n == IF d >= 0 THEN d ELSE 0
  <1>4. Max({0, d}) = n /\ n \in Nat
    <2>1. d \in Int
      BY <1>2, <1>3
    <2> HIDE DEF d
    <2>2. n \in {0, d} /\ {0, d} \in SUBSET Int /\ (\A y \in {0, d} : y <= n) /\ n \in Nat
      BY <2>1
    <2> HIDE DEF n
    <2>3. QED
      BY <2>2, MaxIs
  <1>5. Overlap(e, b) = n
    BY <1>2, <1>3, <1>4 DEF Overlap, t, u
  <1>6. n = Within(u, b) - Within(t, b)
    BY <1>1 DEF Within
  <1>7. QED
    BY <1>4, <1>5, <1>6 DEF t, u

\* The sums of a machine's range, over functions that are easier to compare.
Share(e, b, what) == IF Counts(e, what) THEN Overlap(e, b) ELSE 0

\* The sums of a machine's range, over functions that are easy to compare; none is negative.
LEMMA TimesAre ==
    ASSUME NEW s, Table(s), NEW what
    PROVE  /\ Seconds(s, what) = SumFunctionOnSet([e \in Neighbours(s) |-> Lasts(e, what)], Neighbours(s))
           /\ \A b : BucketSeconds(s, b, what)
                     = SumFunctionOnSet([e \in Neighbours(s) |-> Share(e, b, what)], Neighbours(s))
           /\ Seconds(s, what) \in Nat
           /\ \A b \in Int : BucketSeconds(s, b, what) \in Nat
  <1> DEFINE N == Neighbours(s)
             lasts == [e \in N |-> Lasts(e, what)]
             share(b) == [e \in N |-> Share(e, b, what)]
  <1>1. IsFiniteSet(N) /\ \A e \in N : e \in Rows \X Rows /\ e[1].ts < e[2].ts /\ e[1].ts \in Int /\ e[2].ts \in Int
    BY PairsFinite DEF Table, Rows
  <1>2. Seconds(s, what) = SumFunctionOnSet(lasts, N)
    BY DEF Seconds, Durations, SumFunction
  <1>3. \A b : BucketSeconds(s, b, what) = SumFunctionOnSet(share(b), N)
    BY DEF BucketSeconds, SumFunction, Share
  <1>4. \A e \in N : lasts[e] \in Nat /\ lasts[e] = Lasts(e, what)
    BY <1>1, LastsIs
  <1>5. \A b \in Int : \A e \in N : share(b)[e] \in Nat
    BY <1>1, OverlapIs DEF Share
  <1> HIDE DEF N, lasts, share
  <1>6. SumFunctionOnSet(lasts, N) \in Nat
    BY <1>1, <1>4, SumNat
  <1>7. \A b \in Int : SumFunctionOnSet(share(b), N) \in Nat
    BY <1>1, <1>5, SumNat
  <1>8. QED
    BY <1>2, <1>3, <1>6, <1>7 DEF N, lasts, share

\* A machine has not machined longer than it was on, nor been on longer than the rows last.
LEMMA SecondsNest ==
    ASSUME NEW s, Table(s), OneMachine(s), NEW a, IsFirst(a, s), NEW z, IsLast(z, s)
    PROVE  Seconds(s, Machining) <= Seconds(s, Powered) /\ Seconds(s, Powered) <= z.ts - a.ts
  <1> DEFINE N == Neighbours(s)
             mach == [e \in N |-> Lasts(e, Machining)]
             power == [e \in N |-> Lasts(e, Powered)]
             d == [e \in N |-> e[2].ts - e[1].ts]
             h == [r \in s |-> r.ts]
  <1>1. IsFiniteSet(N) /\ \A e \in N : /\ e \in Rows \X Rows /\ e[1].ts < e[2].ts /\ e[1].ts \in Int /\ e[2].ts \in Int
                                       /\ e[1] \in s /\ e[2] \in s
    BY PairsFinite DEF Table, Rows
  <1>2. \A e \in N : /\ mach[e] \in Int /\ power[e] \in Int /\ d[e] \in Int
                     /\ mach[e] <= power[e] /\ power[e] <= d[e] /\ d[e] = h[e[2]] - h[e[1]]
    BY <1>1, LastsIs
  <1>3. \A r \in s : h[r] = r.ts /\ h[r] \in Int
    BY DEF Table, Rows
  <1>4. a \in s /\ z \in s
    BY DEF IsFirst, IsLast
  <1>5. Seconds(s, Machining) = SumFunctionOnSet(mach, N) /\ Seconds(s, Powered) = SumFunctionOnSet(power, N)
    BY TimesAre
  <1> HIDE DEF mach, power, d, h
  <1>6. SumFunctionOnSet(mach, N) <= SumFunctionOnSet(power, N) /\ SumFunctionOnSet(power, N) <= SumFunctionOnSet(d, N)
    BY <1>1, <1>2, SumLe
  <1>7. SumFunctionOnSet(d, N) = h[z] - h[a]
    BY <1>2, <1>3, Telescope
  <1>8. QED
    BY <1>3, <1>4, <1>5, <1>6, <1>7

\* So in every bucket.
LEMMA BucketsNest ==
    ASSUME NEW s, Table(s), OneMachine(s), NEW a, IsFirst(a, s), NEW z, IsLast(z, s), NEW b \in Int
    PROVE  /\ BucketSeconds(s, b, Machining) <= BucketSeconds(s, b, Powered)
           /\ BucketSeconds(s, b, Powered) <= Bucket
  <1> DEFINE N == Neighbours(s)
             mach == [e \in N |-> Share(e, b, Machining)]
             power == [e \in N |-> Share(e, b, Powered)]
             d == [e \in N |-> Overlap(e, b)]
             h == [r \in s |-> Within(r.ts, b)]
  <1>1. IsFiniteSet(N) /\ \A e \in N : /\ e \in Rows \X Rows /\ e[1].ts < e[2].ts /\ e[1].ts \in Int /\ e[2].ts \in Int
                                       /\ e[1] \in s /\ e[2] \in s
    BY PairsFinite DEF Table, Rows
  <1>2. \A e \in N : /\ mach[e] \in Int /\ power[e] \in Int /\ d[e] \in Int
                     /\ mach[e] <= power[e] /\ power[e] <= d[e] /\ d[e] = h[e[2]] - h[e[1]]
    <2> SUFFICES ASSUME NEW e \in N
                 PROVE  /\ mach[e] \in Int /\ power[e] \in Int /\ d[e] \in Int
                        /\ mach[e] <= power[e] /\ power[e] <= d[e] /\ d[e] = h[e[2]] - h[e[1]]
      OBVIOUS
    <2>1. Overlap(e, b) = Within(e[2].ts, b) - Within(e[1].ts, b) /\ Overlap(e, b) \in Nat
      BY <1>1, OverlapIs
    <2>2. Counts(e, Machining) => Counts(e, Powered)
      BY <1>1, LastsIs
    <2>3. h[e[1]] = Within(e[1].ts, b) /\ h[e[2]] = Within(e[2].ts, b) /\ d[e] = Overlap(e, b)
      BY <1>1
    <2> HIDE DEF h, d
    <2>4. QED
      BY <2>1, <2>2, <2>3 DEF Share
  <1>3. \A r \in s : h[r] = Within(r.ts, b) /\ h[r] \in Int /\ b <= h[r] /\ h[r] <= b + Bucket
    BY ProductionAssumption DEF Table, Rows, Within
  <1>4. a \in s /\ z \in s
    BY DEF IsFirst, IsLast
  <1>5. /\ BucketSeconds(s, b, Machining) = SumFunctionOnSet(mach, N)
        /\ BucketSeconds(s, b, Powered) = SumFunctionOnSet(power, N)
    BY TimesAre
  <1> HIDE DEF mach, power, d, h
  <1>6. SumFunctionOnSet(mach, N) <= SumFunctionOnSet(power, N) /\ SumFunctionOnSet(power, N) <= SumFunctionOnSet(d, N)
    BY <1>1, <1>2, SumLe
  <1>7. SumFunctionOnSet(d, N) = h[z] - h[a]
    BY <1>2, <1>3, Telescope
  <1>8. h[z] - h[a] <= Bucket
    BY <1>3, <1>4, ProductionAssumption
  <1>9. SumFunctionOnSet(power, N) \in Int
    BY <1>1, <1>2, SumStep
  <1>10. QED
    BY <1>3, <1>4, <1>5, <1>6, <1>7, <1>8, <1>9, ProductionAssumption

\* Consecutive buckets share out what lies between their ends.
LEMMA BucketsShare ==
    ASSUME NEW e, NEW t \in Int, NEW u \in Int, t = e[1].ts, u = e[2].ts, t < u,
           NEW lo \in Int, NEW hi \in Int, lo <= hi, lo * Bucket <= t, u <= hi * Bucket + Bucket
    PROVE  LET K == {n * Bucket : n \in lo..hi}
           IN  SumFunctionOnSet([b \in K |-> Overlap(e, b)], K) = u - t
  <1> DEFINE at(n) == n * Bucket
             K(n) == {at(k) : k \in lo..n}
             f == [b \in K(hi) |-> Overlap(e, b)]
             \* What the buckets before the one that begins at n share.
             C(x, n) == IF x < at(n) THEN x ELSE at(n)
             Q == {T \in SUBSET (lo..hi) : \A n \in lo..hi : T = lo..n =>
                      SumFunctionOnSet(f, K(n)) = C(u, n + 1) - C(t, n + 1)}
  <1>1. Bucket \in Nat \ {0}
    BY ProductionAssumption
  <1>2. (\A n \in Int : at(n) \in Int /\ at(n + 1) = at(n) + Bucket)
        /\ at(lo) <= t /\ u <= at(hi + 1)
    BY <1>1
  <1>3. \A m, n \in Int : m < n => at(m) < at(n)
    <2> SUFFICES ASSUME NEW m \in Int, NEW n \in Int, m < n PROVE at(m) < at(n)
      OBVIOUS
    <2>1. at(n) - at(m) = (n - m) * Bucket /\ at(n) \in Int /\ at(m) \in Int
      BY <1>1
    <2>2. (n - m) * Bucket >= 1 * Bucket /\ (n - m) * Bucket \in Int
      BY <1>1
    <2>3. QED
      BY <1>1, <2>1, <2>2
  <1> HIDE DEF K, at
  <1>4. ASSUME NEW n \in lo..hi
        PROVE  /\ IsFiniteSet(K(n)) /\ at(n) \in K(n)
               /\ n = lo => K(n) \ {at(n)} = {}
               /\ n # lo => K(n) \ {at(n)} = K(n - 1)
               /\ K(n) \subseteq K(hi) /\ K(n) \subseteq Int
    <2> DEFINE p == [k \in lo..n |-> at(k)]
    <2>1. K(n) = {p[k] : k \in lo..n}
      BY DEF K
    <2> HIDE DEF p
    <2>2. IsFiniteSet(K(n))
      <3>1. IsFiniteSet(lo..n)
        BY FS_Interval
      <3>2. QED
        BY <2>1, <3>1, ImageFinite
    <2>3. at(n) \in K(n) /\ K(n) \subseteq K(hi) /\ K(n) \subseteq Int
      BY <1>2 DEF K
    <2>4. \A k \in lo..n : k # n => at(k) < at(n)
      BY <1>3
    <2>5. K(n) \ {at(n)} = {at(k) : k \in lo..(n - 1)}
      <3>1. ASSUME NEW k \in lo..n, at(k) # at(n) PROVE k \in lo..(n - 1)
        BY <3>1
      <3>2. ASSUME NEW k \in lo..(n - 1) PROVE k \in lo..n /\ at(k) # at(n)
        BY <1>2, <2>4
      <3>3. QED
        BY <3>1, <3>2 DEF K
    <2>6. n = lo => lo..(n - 1) = {}
      OBVIOUS
    <2>7. QED
      BY <2>2, <2>3, <2>5, <2>6 DEF K
  <1>5. \A b \in K(hi) : f[b] = Overlap(e, b) /\ f[b] \in Int
    <2>1. K(hi) \subseteq Int
      BY <1>4
    <2>2. QED
      BY <2>1, OverlapIs
  <1> HIDE DEF f
  <1>6. ASSUME NEW n \in lo..hi
        PROVE  f[at(n)] = (C(u, n + 1) - C(t, n + 1)) - (C(u, n) - C(t, n))
    <2>1. at(n) \in K(hi) /\ n \in Int
      BY <1>4
    <2>2. f[at(n)] = Within(u, at(n)) - Within(t, at(n))
      BY <1>2, <1>5, <2>1, OverlapIs
    <2>3. \A x \in Int : Within(x, at(n)) - at(n) = C(x, n + 1) - C(x, n)
      BY <1>1, <1>2, <2>1 DEF Within
    <2>4. \A x \in Int : C(x, n + 1) \in Int /\ C(x, n) \in Int /\ Within(x, at(n)) \in Int
      BY <1>1, <1>2, <2>1 DEF Within
    <2>5. at(n) \in Int
      BY <1>2, <2>1
    <2> HIDE DEF C
    <2>6. /\ Within(u, at(n)) - at(n) = C(u, n + 1) - C(u, n)
          /\ Within(t, at(n)) - at(n) = C(t, n + 1) - C(t, n)
      BY <2>3
    <2> DEFINE wu == Within(u, at(n))
               wt == Within(t, at(n))
               b == at(n)
               u1 == C(u, n + 1)
               u0 == C(u, n)
               t1 == C(t, n + 1)
               t0 == C(t, n)
    <2> HIDE DEF C
    <2>7. wu \in Int /\ wt \in Int /\ b \in Int /\ u1 \in Int /\ u0 \in Int /\ t1 \in Int /\ t0 \in Int
      BY <2>4, <2>5
    <2>8. f[at(n)] = wu - wt /\ wu - b = u1 - u0 /\ wt - b = t1 - t0
      BY <2>2, <2>6
    <2> HIDE DEF wu, wt, b, u1, u0, t1, t0
    <2>9. wu - wt = (u1 - t1) - (u0 - t0)
      BY <2>7, <2>8
    <2>10. QED
      BY <2>8, <2>9 DEF u1, t1, u0, t0
  <1>7. \A T \in SUBSET (lo..hi) : T = {} => T \in Q
    BY SMT
  <1>8. ASSUME NEW T \in SUBSET (lo..hi), T # {} PROVE \E x \in T : T \ {x} \in Q => T \in Q
    <2>1. CASE \E n \in lo..hi : T = lo..n
      <3>1. PICK n \in lo..hi : T = lo..n
        BY <2>1
      <3>2. n \in T /\ T \ {n} = lo..(n - 1) /\ \A k \in lo..hi : T = lo..k => k = n
        BY <3>1
      <3>3. SumFunctionOnSet(f, K(n)) = f[at(n)] + SumFunctionOnSet(f, K(n) \ {at(n)})
        <4>1. IsFiniteSet(K(n)) /\ at(n) \in K(n) /\ \A b \in K(n) : f[b] \in Int
          BY <1>4, <1>5
        <4>2. QED
          BY <4>1, SumTake
      <3>4. ASSUME T \ {n} \in Q
            PROVE  SumFunctionOnSet(f, K(n) \ {at(n)}) = C(u, n) - C(t, n)
        <4>1. CASE n = lo
          <5>1. K(n) \ {at(n)} = {}
            BY <1>4, <4>1
          <5>2. SumFunctionOnSet(f, {}) = 0
            BY FS_EmptySet, SumStep
          <5>3. C(u, n) = at(n) /\ C(t, n) = at(n)
            BY <1>2, <4>1
          <5>4. SumFunctionOnSet(f, K(n) \ {at(n)}) = 0
            BY <5>1, <5>2, Zenon
          <5>5. at(n) - at(n) = 0
            BY <1>2
          <5> HIDE DEF C
          <5>6. QED
            BY <5>3, <5>4, <5>5
        <4>2. CASE n # lo
          <5>1. n - 1 \in lo..hi /\ (n - 1) + 1 = n
            BY <4>2
          <5>2. SumFunctionOnSet(f, K(n - 1)) = C(u, n) - C(t, n)
            BY <3>2, <3>4, <5>1
          <5>3. QED
            BY <1>4, <4>2, <5>2
        <4>3. QED
          BY <4>1, <4>2
      <3>5. C(u, n) \in Int /\ C(t, n) \in Int /\ C(u, n + 1) \in Int /\ C(t, n + 1) \in Int
        BY <1>2
      <3>6. ASSUME T \ {n} \in Q PROVE SumFunctionOnSet(f, K(n)) = C(u, n + 1) - C(t, n + 1)
        <4> HIDE DEF C
        <4>1. QED
          BY <1>6, <3>3, <3>4, <3>5, <3>6
      <3>7. T \ {n} \in Q => T \in Q
        BY <3>2, <3>6
      <3>8. QED
        BY <3>2, <3>7
    <2>2. CASE ~\E n \in lo..hi : T = lo..n
      BY <1>8, <2>2
    <2>3. QED
      BY <2>1, <2>2
  <1>9. lo..hi \in Q
    <2> HIDE DEF Q
    <2>1. IsFiniteSet(lo..hi)
      BY FS_Interval
    <2>2. \A T \in SUBSET (lo..hi) : T \in Q
      BY <1>7, <1>8, <2>1, Smaller
    <2>3. QED
      BY <2>2
  <1>10. SumFunctionOnSet(f, K(hi)) = C(u, hi + 1) - C(t, hi + 1)
    BY <1>9
  <1>11. C(u, hi + 1) = u /\ C(t, hi + 1) = t
    <2>1. hi + 1 \in Int
      OBVIOUS
    <2>2. at(hi + 1) \in Int /\ u <= at(hi + 1) /\ t < at(hi + 1)
      <3>1. at(hi + 1) \in Int /\ u <= at(hi + 1)
        BY <1>2, <2>1
      <3> DEFINE y == at(hi + 1)
      <3> HIDE DEF y
      <3>2. y \in Int /\ u <= y
        BY <3>1 DEF y
      <3>3. t < y
        BY <3>2
      <3>4. QED
        BY <3>1, <3>3 DEF y
    <2>3. QED
      BY <2>2
  <1>12. QED
    BY <1>10, <1>11 DEF f, K, at

\* The buckets from the one of the first row to the one of the last.
AllBuckets(s) == {n * Bucket : n \in (Min(Times(s)) \div Bucket)..(Max(Times(s)) \div Bucket)}

\* The first and the last moment of some rows, and their buckets.
LEMMA EndsOfRange ==
    ASSUME NEW s, Table(s), NEW a, IsFirst(a, s), NEW z, IsLast(z, s)
    PROVE  /\ Min(Times(s)) = a.ts /\ Max(Times(s)) = z.ts /\ a.ts \in Nat /\ z.ts \in Nat /\ a.ts <= z.ts
           /\ IsFiniteSet(AllBuckets(s)) /\ AllBuckets(s) \subseteq Int /\ BucketsOf(s) \subseteq AllBuckets(s)
  <1>1. a \in s /\ z \in s /\ \A r \in s : r.ts \in Nat /\ a.ts <= r.ts /\ r.ts <= z.ts
    BY DEF IsFirst, IsLast, Table, Rows
  <1>2. Times(s) \in SUBSET Int /\ a.ts \in Times(s) /\ z.ts \in Times(s)
        /\ \A y \in Times(s) : a.ts <= y /\ y <= z.ts
    BY <1>1 DEF Times
  <1>3. Min(Times(s)) = a.ts /\ Max(Times(s)) = z.ts
    BY <1>2, MaxIs, MinIs
  <1> DEFINE lo == a.ts \div Bucket
             hi == z.ts \div Bucket
             p == [n \in lo..hi |-> n * Bucket]
  <1>4. Bucket \in Nat \ {0}
    BY ProductionAssumption
  <1>5. lo \in Int /\ hi \in Int
    BY <1>1, <1>4, DivIs
  <1>6. AllBuckets(s) = {n * Bucket : n \in lo..hi}
    BY <1>3 DEF AllBuckets
  <1>7. \A r \in s : r.ts \div Bucket \in lo..hi
    <2> SUFFICES ASSUME NEW r \in s PROVE r.ts \div Bucket \in lo..hi
      OBVIOUS
    <2>1. a.ts \in Int /\ r.ts \in Int /\ z.ts \in Int /\ a.ts <= r.ts /\ r.ts <= z.ts
      BY <1>1
    <2>2. lo <= r.ts \div Bucket /\ r.ts \div Bucket \in Int
      BY <1>4, <2>1, DivMonotone
    <2>3. r.ts \div Bucket <= hi
      BY <1>4, <2>1, DivMonotone
    <2> HIDE DEF lo, hi
    <2>4. QED
      BY <1>5, <2>2, <2>3
  <1> HIDE DEF lo, hi
  <1>8. AllBuckets(s) = {p[n] : n \in lo..hi}
    BY <1>6
  <1>9. IsFiniteSet(AllBuckets(s))
    <2>1. IsFiniteSet(lo..hi)
      BY <1>5, FS_Interval
    <2> HIDE DEF p
    <2>2. IsFiniteSet({p[n] : n \in lo..hi})
      BY <2>1, ImageFinite
    <2>3. QED
      BY <1>8, <2>2
  <1>10. AllBuckets(s) \subseteq Int
    BY <1>4, <1>5, <1>6
  <1>11. BucketsOf(s) \subseteq AllBuckets(s)
    BY <1>6, <1>7 DEF BucketsOf, BucketOf, Times
  <1>12. QED
    BY <1>1, <1>3, <1>9, <1>10, <1>11

\* All buckets together have all of the time.
LEMMA AllBucketsShare ==
    ASSUME NEW s, Table(s), NEW a, IsFirst(a, s), NEW z, IsLast(z, s), NEW what
    PROVE  SumFunctionOnSet([b \in AllBuckets(s) |-> BucketSeconds(s, b, what)], AllBuckets(s)) = Seconds(s, what)
  <1> DEFINE N == Neighbours(s)
             K == AllBuckets(s)
             h == [e \in N |-> [b \in K |-> Share(e, b, what)]]
             f == [e \in N |-> Lasts(e, what)]
             lines == [e \in N |-> SumFunctionOnSet(h[e], K)]
             column(b) == [e \in N |-> h[e][b]]
             columns == [b \in K |-> SumFunctionOnSet(column(b), N)]
  <1>1. IsFiniteSet(N) /\ \A e \in N : /\ e \in Rows \X Rows /\ e[1].ts < e[2].ts /\ e[1].ts \in Int /\ e[2].ts \in Int
                                       /\ e[1] \in s /\ e[2] \in s
    BY PairsFinite DEF Table, Rows
  <1>2. Min(Times(s)) = a.ts /\ Max(Times(s)) = z.ts /\ a.ts \in Int /\ z.ts \in Int /\ a.ts <= z.ts
        /\ IsFiniteSet(K) /\ K \subseteq Int
    BY EndsOfRange
  <1>3. \A e \in N : \A b \in K : h[e][b] = Share(e, b, what) /\ h[e][b] \in Nat
    <2>1. \A e \in N : \A b \in K : Overlap(e, b) \in Nat
      BY <1>1, <1>2, OverlapIs
    <2>2. QED
      BY <2>1 DEF Share
  <1>4. ASSUME NEW e \in N PROVE lines[e] = f[e] /\ f[e] \in Int
    <2> DEFINE cut == [b \in K |-> Overlap(e, b)]
               lo == a.ts \div Bucket
               hi == z.ts \div Bucket
    <2>1. f[e] = Lasts(e, what) /\ lines[e] = SumFunctionOnSet(h[e], K)
      OBVIOUS
    <2>2. Lasts(e, what) \in Nat /\ (Counts(e, what) => Lasts(e, what) = e[2].ts - e[1].ts)
          /\ (~Counts(e, what) => Lasts(e, what) = 0)
      BY <1>1, LastsIs
    <2>3. \A b \in K : h[e][b] \in Int /\ cut[b] = Overlap(e, b)
      BY <1>3
    <2>4. CASE Counts(e, what)
      <3>1. SumFunctionOnSet(cut, K) = e[2].ts - e[1].ts
        <4>1. a.ts <= e[1].ts /\ e[2].ts <= z.ts /\ Bucket \in Nat \ {0}
          BY <1>1, ProductionAssumption DEF IsFirst, IsLast
        <4>2. lo \in Int /\ hi \in Int /\ lo <= hi
          BY <1>2, <4>1, DivMonotone
        <4>3. lo * Bucket <= a.ts /\ lo * Bucket \in Int /\ z.ts < hi * Bucket + Bucket /\ hi * Bucket \in Int
          BY <1>2, <4>1, DivIs
        <4>4. K = {n * Bucket : n \in lo..hi}
          BY <1>2 DEF AllBuckets
        <4> HIDE DEF lo, hi
        <4>5. lo * Bucket <= e[1].ts /\ e[2].ts <= hi * Bucket + Bucket
          BY <1>1, <1>2, <4>1, <4>3
        <4>6. SumFunctionOnSet([b \in {n * Bucket : n \in lo..hi} |-> Overlap(e, b)], {n * Bucket : n \in lo..hi})
              = e[2].ts - e[1].ts
          BY <1>1, <4>2, <4>5, BucketsShare
        <4>7. QED
          BY <4>4, <4>6
      <3>2. \A b \in K : h[e][b] = cut[b]
        BY <1>3, <2>3, <2>4 DEF Share
      <3> HIDE DEF cut, h
      <3>3. SumFunctionOnSet(h[e], K) = SumFunctionOnSet(cut, K)
        BY <1>2, <2>3, <3>2, SumSame
      <3>4. QED
        BY <2>1, <2>2, <2>4, <3>1, <3>3
    <2>5. CASE ~Counts(e, what)
      <3>1. \A b \in K : h[e][b] = 0 /\ h[e][b] \in Nat
        BY <1>3, <2>5 DEF Share
      <3> HIDE DEF h
      <3>2. SumFunctionOnSet(h[e], K) = 0
        BY <1>2, <3>1, SumNat
      <3>3. QED
        BY <2>1, <2>2, <2>5, <3>2
    <2>6. QED
      BY <2>4, <2>5
  <1>5. lines = f
    BY <1>4
  <1>6. SumFunctionOnSet(lines, N) = SumFunctionOnSet(columns, K)
    <2>1. \A e \in N : \A b \in K : h[e][b] \in Int
      BY <1>3
    <2> HIDE DEF h
    <2>2. QED
      BY <1>1, <1>2, <2>1, SumExchange
  <1>7. \A b \in K : column(b) = [e \in N |-> Share(e, b, what)]
    BY <1>3
  <1>8. \A b \in K : SumFunctionOnSet(column(b), N) = BucketSeconds(s, b, what)
    <2>1. \A b : BucketSeconds(s, b, what) = SumFunctionOnSet([e \in N |-> Share(e, b, what)], N)
      BY TimesAre
    <2> HIDE DEF column, N
    <2>2. QED
      BY <1>7, <2>1
  <1> HIDE DEF column
  <1>9. columns = [b \in K |-> BucketSeconds(s, b, what)]
    BY <1>8
  <1>10. Seconds(s, what) = SumFunctionOnSet(f, N)
    BY TimesAre
  <1>11. QED
    BY <1>5, <1>6, <1>9, <1>10

\* A bucket without a sample has nothing, if no pair is longer than a bucket.
LEMMA BucketWithoutSample ==
    ASSUME NEW s, Table(s), \A e \in Neighbours(s) : e[2].ts - e[1].ts <= Bucket, NEW what,
           NEW b \in AllBuckets(s) \ BucketsOf(s), b \in Int
    PROVE  BucketSeconds(s, b, what) = 0
  <1> DEFINE N == Neighbours(s)
             f == [e \in N |-> Share(e, b, what)]
  <1>1. IsFiniteSet(N) /\ \A e \in N : /\ e \in Rows \X Rows /\ e[1].ts < e[2].ts /\ e[1].ts \in Int /\ e[2].ts \in Int
                                       /\ e[1] \in s /\ e[2] \in s
    BY PairsFinite DEF Table, Rows
  <1>2. PICK n \in Int : b = n * Bucket
    <2> DEFINE lo == Min(Times(s)) \div Bucket
               hi == Max(Times(s)) \div Bucket
    <2>1. PICK n \in lo..hi : b = n * Bucket
      BY DEF AllBuckets
    <2> HIDE DEF lo, hi
    <2>2. n \in Int
      BY <2>1
    <2>3. QED
      BY <2>1, <2>2
  <1>3. ASSUME NEW r \in s, r.ts \in Int PROVE r.ts < b \/ b + Bucket <= r.ts
    <2> SUFFICES ASSUME b <= r.ts, r.ts < b + Bucket PROVE FALSE
      BY <1>3, ProductionAssumption
    <2> DEFINE t == r.ts
    <2>1. t \in Int /\ Bucket \in Nat \ {0} /\ n * Bucket <= t /\ t < n * Bucket + Bucket
      BY <1>2, <1>3, ProductionAssumption
    <2> HIDE DEF t
    <2>2. t \div Bucket = n
      BY <2>1
    <2>3. BucketOf(t) = b
      BY <1>2, <2>2 DEF BucketOf
    <2>4. QED
      BY <2>3 DEF BucketsOf, Times, t
  <1>4. ASSUME NEW e \in N PROVE Overlap(e, b) = 0
    <2> DEFINE t == e[1].ts
               u == e[2].ts
    <2>1. t \in Int /\ u \in Int /\ t < u /\ u - t <= Bucket /\ Bucket \in Nat \ {0} /\ b \in Int
      BY <1>1, ProductionAssumption
    <2>2. (t < b \/ b + Bucket <= t) /\ (u < b \/ b + Bucket <= u)
      BY <1>1, <1>3
    <2>3. Overlap(e, b) = Within(u, b) - Within(t, b)
      BY <2>1, OverlapIs
    <2> HIDE DEF t, u
    <2>4. QED
      BY <2>1, <2>2, <2>3 DEF Within
  <1>5. \A e \in N : f[e] = 0 /\ f[e] \in Nat
    BY <1>4 DEF Share
  <1>6. BucketSeconds(s, b, what) = SumFunctionOnSet(f, N)
    BY TimesAre
  <1> HIDE DEF f
  <1>7. QED
    BY <1>1, <1>5, <1>6, SumNat

\* TimesNest for one range of one machine.
LEMMA TimesOfRange ==
    ASSUME NEW s, Table(s), OneMachine(s), s # {}
    PROVE  LET mach == MachiningPoints(s, Machining)
               power == MachiningPoints(s, Powered)
               sum == Summary(s)
           IN  /\ sum.mach <= sum.power /\ sum.power <= Max(Times(s)) - Min(Times(s))
               /\ \A b \in BucketsOf(s) : mach[b] <= power[b] /\ power[b] <= Bucket
               /\ SumFunction(ReportPoints(s)) = sum.mach
               /\ SumFunction(power) <= sum.power
               /\ (\A e \in Neighbours(s) : e[2].ts - e[1].ts <= Bucket) => SumFunction(power) = sum.power
  <1> DEFINE K == AllBuckets(s)
             of(what) == [b \in K |-> BucketSeconds(s, b, what)]
             shown1 == MachiningPoints(s, Powered)
             worked == {c \in K : BucketSeconds(s, c, Machining) > 0}
             points == ReportPoints(s)
  <1>1. PICK a, z : IsFirst(a, s) /\ IsLast(z, s)
    BY HasEnds
  <1>2. /\ Min(Times(s)) = a.ts /\ Max(Times(s)) = z.ts
        /\ IsFiniteSet(K) /\ K \subseteq Int /\ BucketsOf(s) \in SUBSET K
    BY <1>1, EndsOfRange
  <1>3. Summary(s).mach = Seconds(s, Machining) /\ Summary(s).power = Seconds(s, Powered)
    BY DEF Summary
  <1>4. Seconds(s, Machining) <= Seconds(s, Powered) /\ Seconds(s, Powered) <= z.ts - a.ts
    BY <1>1, SecondsNest
  <1>5. \A what : \A b \in K : of(what)[b] = BucketSeconds(s, b, what) /\ of(what)[b] \in Nat
    BY <1>2, TimesAre
  <1>6. \A what : \A b \in BucketsOf(s) : MachiningPoints(s, what)[b] = BucketSeconds(s, b, what)
    BY DEF MachiningPoints
  <1>7. \A b \in BucketsOf(s) : /\ MachiningPoints(s, Machining)[b] <= MachiningPoints(s, Powered)[b]
                                /\ MachiningPoints(s, Powered)[b] <= Bucket
    <2>1. \A b \in BucketsOf(s) : b \in Int
      BY <1>2
    <2>2. \A b \in BucketsOf(s) : /\ BucketSeconds(s, b, Machining) <= BucketSeconds(s, b, Powered)
                                  /\ BucketSeconds(s, b, Powered) <= Bucket
      BY <1>1, <2>1, BucketsNest
    <2>3. QED
      BY <1>6, <2>2
  <1>8. \A what : SumFunctionOnSet(of(what), K) = Seconds(s, what)
    BY <1>1, AllBucketsShare
  <1>9. SumFunction(points) = Seconds(s, Machining)
    <2>1. points = [b \in worked |-> BucketSeconds(s, b, Machining)]
      BY DEF ReportPoints, AllBuckets
    <2>2. SumFunction(points) = SumFunctionOnSet(points, worked)
      BY <2>1 DEF SumFunction
    <2>3. worked \in SUBSET K /\ IsFiniteSet(worked)
      BY <1>2, FS_Subset
    <2>4. \A b \in worked : points[b] \in Int /\ points[b] = of(Machining)[b]
      BY <1>5, <2>1, <2>3
    <2>5. \A b \in K \ worked : of(Machining)[b] = 0
      BY <1>5
    <2> HIDE DEF of, worked, points
    <2>6. SumFunctionOnSet(points, worked) = SumFunctionOnSet(of(Machining), worked)
      BY <2>3, <2>4, SumSame
    <2>7. SumFunctionOnSet(of(Machining), worked) = SumFunctionOnSet(of(Machining), K)
      BY <1>2, <1>5, <2>3, <2>5, SumPart
    <2>8. QED
      BY <1>8, <2>2, <2>6, <2>7
  <1>10. SumFunction(shown1) = SumFunctionOnSet(of(Powered), BucketsOf(s))
    <2>1. SumFunction(shown1) = SumFunctionOnSet(shown1, BucketsOf(s))
      BY DEF SumFunction, MachiningPoints
    <2>2. \A b \in BucketsOf(s) : shown1[b] \in Int /\ shown1[b] = of(Powered)[b]
      BY <1>2, <1>5, <1>6
    <2>3. IsFiniteSet(BucketsOf(s))
      BY <1>2, FS_Subset
    <2> HIDE DEF of, shown1
    <2>4. QED
      BY <2>1, <2>2, <2>3, SumSame
  <1> HIDE DEF of, K
  <1>11. SumFunctionOnSet(of(Powered), BucketsOf(s)) <= SumFunctionOnSet(of(Powered), K)
    <2>1. \A b \in K : of(Powered)[b] \in Int /\ of(Powered)[b] >= 0
      BY <1>5
    <2>2. QED
      BY <1>2, <2>1, SumPart
  <1>12. ASSUME \A e \in Neighbours(s) : e[2].ts - e[1].ts <= Bucket
         PROVE  SumFunctionOnSet(of(Powered), BucketsOf(s)) = SumFunctionOnSet(of(Powered), K)
    <2>1. \A b \in K : of(Powered)[b] \in Int
      BY <1>5
    <2>2. \A b \in K \ BucketsOf(s) : of(Powered)[b] = 0
      <3>1. \A b \in K \ BucketsOf(s) : b \in Int /\ b \in AllBuckets(s) \ BucketsOf(s)
        BY <1>2 DEF K
      <3>2. QED
        BY <1>5, <1>12, <3>1, BucketWithoutSample
    <2>3. QED
      BY <1>2, <2>1, <2>2, SumPart
  <1> HIDE DEF shown1, points
  <1>13. QED
    BY <1>2, <1>3, <1>4, <1>7, <1>8, <1>9, <1>10, <1>11, <1>12 DEF shown1, points

\* A machine has not machined longer than it was on, nor been on longer than the range,
\* and so in every bucket; the report's buckets add up to the summary exactly, those of
\* api_machining up to buckets without a sample.
THEOREM TimesAreParts == Spec => []TimesNest
  <1>1. ASSUME ProductionInv PROVE TimesNest
    <2>1. ASSUME NEW from \in Froms, NEW m \in Machines
          PROVE  Table(Load(from, now, {m})) /\ OneMachine(Load(from, now, {m}))
      <3>1. \A r \in Load(from, now, {m}) : r.machine = m
        BY DEF Load, Select
      <3>2. QED
        BY <1>1, <3>1, LoadIs DEF OneMachine
    <2> DEFINE nests(s) ==
            s # {} =>
               /\ Summary(s).mach <= Summary(s).power /\ Summary(s).power <= Max(Times(s)) - Min(Times(s))
               /\ \A b \in BucketsOf(s) : /\ MachiningPoints(s, Machining)[b] <= MachiningPoints(s, Powered)[b]
                                          /\ MachiningPoints(s, Powered)[b] <= Bucket
               /\ SumFunction(ReportPoints(s)) = Summary(s).mach
               /\ SumFunction(MachiningPoints(s, Powered)) <= Summary(s).power
               /\ (\A e \in Neighbours(s) : e[2].ts - e[1].ts <= Bucket) =>
                     SumFunction(MachiningPoints(s, Powered)) = Summary(s).power
    <2>2. ASSUME NEW s, Table(s), OneMachine(s) PROVE nests(s)
      BY <2>2, TimesOfRange
    <2> HIDE DEF nests
    <2>3. \A from \in Froms : \A m \in Machines : nests(Load(from, now, {m}))
      BY <2>1, <2>2
    <2>4. QED
      BY <2>3 DEF TimesNest, nests
  <1>2. QED
    BY <1>1, ProductionInvariant, PTL

-----------------------------------------------------------------------------
(* Shifts. *)

\* A quotient is known by the multiples a number lies between.
LEMMA DivBetween ==
    ASSUME NEW n \in Nat \ {0}, NEW t \in Int, NEW q \in Int, q * n <= t, t < q * n + n
    PROVE  t \div n = q /\ t % n = t - q * n
  <1>1. t \div n = q
    OBVIOUS
  <1>2. t % n = t - (t \div n) * n
    OBVIOUS
  <1>3. QED
    BY <1>1, <1>2

\* A quotient and its rest, as names for what arithmetic need not look into.
LEMMA DivMod ==
    ASSUME NEW n \in Nat \ {0}, NEW t \in Int
    PROVE  \E q, h \in Int : /\ t \div n = q /\ t % n = h /\ q * n \in Int
                             /\ t = q * n + h /\ 0 <= h /\ h < n
  <1> DEFINE q == t \div n
             h == t % n
  <1>1. q \in Int /\ h \in Int /\ t = q * n + h /\ 0 <= h /\ h < n
    OBVIOUS
  <1> HIDE DEF q, h
  <1>2. q * n \in Int
    BY <1>1
  <1>3. QED
    BY <1>1, <1>2 DEF q, h

\* The hour the day shift ends, by the calendar.
Closes(d) == IF Sunday(d) THEN SundayClose ELSE DayClose

\* The calendar's shift of a moment is the one whose hours it lies in.
LEMMA ShiftOfIs ==
    ASSUME NEW t \in Int, NEW d \in Int
    PROVE  /\ ShiftOf(t) = <<d, "day">> <=> DayShift(d).start <= t /\ t < DayShift(d).end
           /\ ShiftOf(t) = <<d, "night">> <=> ~Sunday(d) /\ NightShift(d).start <= t /\ t < NightShift(d).end
  <1>1. /\ DayLength \in Nat \ {0} /\ DayOpen \in Nat /\ DayClose \in Nat /\ SundayClose \in Nat
        /\ 0 < DayOpen /\ DayOpen < SundayClose /\ SundayClose < DayClose /\ DayClose < DayLength
    BY ProductionAssumption
  <1> DEFINE x == t - DayOpen
             b == d * DayLength
  <1>2. x \in Int /\ b \in Int /\ (d + 1) * DayLength = b + DayLength
    BY <1>1
  <1>3. PICK q, h \in Int : /\ x \div DayLength = q /\ x % DayLength = h /\ q * DayLength \in Int
                            /\ x = q * DayLength + h /\ 0 <= h /\ h < DayLength
    BY <1>1, <1>2, DivMod
  <1>4. Closes(d) \in Nat /\ DayOpen < Closes(d) /\ Closes(d) <= DayClose /\ (~Sunday(d) => Closes(d) = DayClose)
    BY <1>1 DEF Closes
  <1>5. /\ DayShift(d).start = b + DayOpen /\ DayShift(d).end = b + Closes(d)
        /\ NightShift(d).start = b + DayClose /\ NightShift(d).end = b + DayLength + DayOpen
    BY <1>2 DEF DayShift, NightShift, NightEnd, Closes
  <1>6. ShiftOf(t) = IF h < Closes(q) - DayOpen THEN <<q, "day">>
                     ELSE IF Sunday(q) THEN <<q, "none">> ELSE <<q, "night">>
    BY <1>3 DEF ShiftOf, Closes
  <1>7. b <= x /\ x < b + DayLength => q = d
    <2>1. b <= x /\ x < b + DayLength => x \div DayLength = d
      BY <1>1, <1>2, DivBetween
    <2>2. QED
      BY <1>3, <2>1
  <1>8. q = d => x = b + h
    BY <1>3
  <1> HIDE DEF b
  <1>9. t = x + DayOpen
    BY <1>1
  <1> HIDE DEF x
  <1>10. ShiftOf(t) = <<d, "day">> <=> q = d /\ h < Closes(d) - DayOpen
    BY <1>6
  <1>11. ShiftOf(t) = <<d, "night">> <=> q = d /\ ~Sunday(d) /\ ~(h < Closes(d) - DayOpen)
    BY <1>6
  <1>12. q = d /\ h < Closes(d) - DayOpen <=> b + DayOpen <= t /\ t < b + Closes(d)
    BY <1>1, <1>2, <1>3, <1>4, <1>7, <1>8, <1>9
  <1>13. ~Sunday(d) => (q = d /\ ~(h < Closes(d) - DayOpen) <=> b + DayClose <= t /\ t < b + DayLength + DayOpen)
    BY <1>1, <1>2, <1>3, <1>4, <1>7, <1>8, <1>9
  <1>14. QED
    BY <1>5, <1>10, <1>11, <1>12, <1>13

\* The GUI's night is the night of the calendar.
LEMMA QuickNightIs ==
    ASSUME NEW t \in Int, ShiftOf(t)[2] = "night"
    PROVE  QuickNight(t) = <<NightShift(ShiftOf(t)[1]).start, NightShift(ShiftOf(t)[1]).end>>
  <1>1. DayLength \in Nat \ {0} /\ DayOpen \in Nat /\ DayOpen < DayLength
    BY ProductionAssumption
  <1> DEFINE x == t - DayOpen
  <1>2. x \in Int
    BY <1>1
  <1>3. PICK q, h \in Int : /\ t \div DayLength = q /\ t % DayLength = h /\ q * DayLength \in Int
                            /\ t = q * DayLength + h /\ 0 <= h /\ h < DayLength
    BY <1>1, DivMod
  <1> DEFINE d == IF h < DayOpen THEN q - 1 ELSE q
  <1>4. d \in Int /\ (q - 1) * DayLength = q * DayLength - DayLength
    BY <1>1, <1>3
  <1>5. d * DayLength <= x /\ x < d * DayLength + DayLength
    BY <1>1, <1>3, <1>4
  <1>6. x \div DayLength = d
    <2> HIDE DEF d, x
    <2>1. QED
      BY <1>1, <1>2, <1>4, <1>5, DivBetween
  <1>7. ShiftOf(t)[1] = d
    BY <1>6 DEF ShiftOf
  <1>8. QuickNight(t) = <<d * DayLength + DayClose, (d + 1) * DayLength + DayOpen>>
    BY <1>3 DEF QuickNight, Day
  <1>9. QED
    BY <1>7, <1>8 DEF NightShift, NightEnd

\* The whole shift of a day.
WholeShift(x) == IF x[2] = "day" THEN DayShift(x[1]) ELSE NightShift(x[1])

\* A moment of a shift.
Inside(t, w) == w.start <= t /\ t < w.end

\* The days whose shifts a range has.
OfDays(d, from) == d >= Day(from) /\ d < Day(from) + MaxDays

\* The shifts of a range: a moment of the range lies in a shift exactly if the shift is
\* the calendar's, its day is one of those, and it is not the range's last moment.
LEMMA ShiftsAre ==
    ASSUME NEW from \in Nat, NEW to \in Nat, from <= to
    PROVE  /\ IsFiniteSet(Shifts(from, to))
           /\ \A w \in Shifts(from, to) : w.start \in Int /\ w.end \in Int
           /\ \A w \in Shifts(from, to) : \A t \in Int : from <= t /\ Inside(t, w) =>
                 /\ t < to /\ ShiftOf(t) = <<w.day, w.kind>> /\ OfDays(w.day, from)
                 /\ w.kind \in {"day", "night"} /\ w = Clip(WholeShift(ShiftOf(t)), from, to)
           /\ \A t \in Int : from <= t /\ t < to /\ ShiftOf(t)[2] # "none" /\ OfDays(ShiftOf(t)[1], from) =>
                 LET w == Clip(WholeShift(ShiftOf(t)), from, to)
                 IN  w \in Shifts(from, to) /\ Inside(t, w)
  <1> DEFINE last == Min({Day(to), Day(from) + MaxDays - 1})
             days == Day(from)..last
             all == {DayShift(d) : d \in days} \cup {NightShift(d) : d \in {e \in days : ~Sunday(e)}}
             clipped == {Clip(v, from, to) : v \in all}
  <1>1. /\ DayLength \in Nat \ {0} /\ DayOpen \in Nat /\ DayClose \in Nat /\ SundayClose \in Nat
        /\ 0 < DayOpen /\ DayOpen < SundayClose /\ SundayClose < DayClose /\ DayClose < DayLength
    BY ProductionAssumption
  <1>2. /\ Day(from) \in Int /\ Day(to) \in Int /\ last \in Int
        /\ \A d \in Int : d \in days <=> OfDays(d, from) /\ d <= Day(to)
    <2> DEFINE i == Day(from)
               x == Day(to)
               y == i + MaxDays - 1
    <2>1. x \in Int /\ y \in Int /\ i \in Int /\ MaxDays \in Nat
      BY <1>1, ProductionAssumption, DivIs DEF Day
    <2>2. last = IF x <= y THEN x ELSE y
      <3> DEFINE n == IF x <= y THEN x ELSE y
      <3> HIDE DEF x, y
      <3>1. n \in {x, y} /\ {x, y} \in SUBSET Int /\ \A j \in {x, y} : n <= j
        BY <2>1
      <3> HIDE DEF n
      <3>2. Min({x, y}) = n
        BY <3>1, MinIs
      <3>3. QED
        BY <3>2 DEF n, x, y
    <2> HIDE DEF i, x, last
    <2>3. last \in Int /\ \A d \in Int : d <= last <=> d < i + MaxDays /\ d <= x
      BY <2>1, <2>2
    <2>4. QED
      BY <2>1, <2>3 DEF OfDays, i, x
  <1>3. \A d \in Int : /\ DayShift(d).start \in Int /\ DayShift(d).end \in Int
                       /\ NightShift(d).start \in Int /\ NightShift(d).end \in Int
    BY <1>1 DEF DayShift, NightShift, NightEnd
  <1>4. Shifts(from, to) = {w \in clipped : w.start < w.end}
    BY DEF Shifts
  <1>5. IsFiniteSet(Shifts(from, to))
    <2> DEFINE ds == [d \in days |-> DayShift(d)]
               weekdays == {e \in days : ~Sunday(e)}
               ns == [d \in weekdays |-> NightShift(d)]
               cs == [v \in all |-> Clip(v, from, to)]
    <2>1. IsFiniteSet(days) /\ weekdays \in SUBSET days
      BY <1>2, FS_Interval
    <2>2. IsFiniteSet(weekdays)
      BY <2>1, FS_Subset
    <2>3. all = {ds[d] : d \in days} \cup {ns[d] : d \in weekdays}
      OBVIOUS
    <2>4. clipped = {cs[v] : v \in all}
      OBVIOUS
    <2> HIDE DEF ds, ns, cs, days, weekdays, all, clipped
    <2>5. IsFiniteSet({ds[d] : d \in days}) /\ IsFiniteSet({ns[d] : d \in weekdays})
      BY <2>1, <2>2, ImageFinite
    <2>6. IsFiniteSet({ds[d] : d \in days} \cup {ns[d] : d \in weekdays})
      BY <2>5, FS_Union
    <2>7. IsFiniteSet(all)
      BY <2>3, <2>6
    <2>8. IsFiniteSet({cs[v] : v \in all})
      BY <2>7, ImageFinite
    <2>9. IsFiniteSet(clipped)
      BY <2>4, <2>8
    <2>10. {w \in clipped : w.start < w.end} \in SUBSET clipped
      OBVIOUS
    <2>11. QED
      BY <1>4, <2>9, <2>10, FS_Subset
  \* What cutting a shift does to it.
  <1>6. ASSUME NEW v, v \in [day : Int, kind : {"day", "night"}, start : Int, end : Int]
        PROVE  LET w == Clip(v, from, to)
               IN  /\ w.day = v.day /\ w.kind = v.kind /\ w.start \in Int /\ w.end \in Int
                   /\ \A t \in Int : from <= t => (Inside(t, w) <=> Inside(t, v) /\ t < to)
    <2> DEFINE x == v.start
               y == v.end
    <2>1. x \in Int /\ y \in Int
      BY <1>6
    <2> HIDE DEF x, y
    <2>2. Max({x, from}) = IF x >= from THEN x ELSE from
      <3> DEFINE m == IF x >= from THEN x ELSE from
      <3>1. m \in {x, from} /\ {x, from} \in SUBSET Int /\ \A i \in {x, from} : i <= m
        BY <2>1
      <3> HIDE DEF m
      <3>2. Max({x, from}) = m
        BY <3>1, MaxIs
      <3>3. QED
        BY <3>2 DEF m
    <2>3. Min({y, to}) = IF y <= to THEN y ELSE to
      <3> DEFINE m == IF y <= to THEN y ELSE to
      <3>1. m \in {y, to} /\ {y, to} \in SUBSET Int /\ \A i \in {y, to} : m <= i
        BY <2>1
      <3> HIDE DEF m
      <3>2. Min({y, to}) = m
        BY <3>1, MinIs
      <3>3. QED
        BY <3>2 DEF m
    <2>4. /\ Clip(v, from, to).day = v.day /\ Clip(v, from, to).kind = v.kind
          /\ Clip(v, from, to).start = Max({x, from}) /\ Clip(v, from, to).end = Min({y, to})
      BY <1>6 DEF Clip, x, y
    <2>5. v.start = x /\ v.end = y
      BY DEF x, y
    <2> DEFINE w == Clip(v, from, to)
               i == w.start
               j == w.end
    <2>6. i = (IF x >= from THEN x ELSE from) /\ j = (IF y <= to THEN y ELSE to)
      BY <2>2, <2>3, <2>4
    <2> HIDE DEF i, j
    <2>7. \A t \in Int : from <= t => (i <= t /\ t < j <=> (x <= t /\ t < y) /\ t < to)
      BY <2>1, <2>6
    <2>8. i \in Int /\ j \in Int
      BY <2>1, <2>6
    <2>9. \A t : (Inside(t, w) <=> i <= t /\ t < j) /\ (Inside(t, v) <=> x <= t /\ t < y)
      BY DEF Inside, i, j, x, y
    <2> HIDE DEF w
    <2>10. QED
      BY <2>4, <2>7, <2>8, <2>9 DEF w, i, j
  <1>7. ASSUME NEW d \in Int
        PROVE  /\ DayShift(d) \in [day : Int, kind : {"day", "night"}, start : Int, end : Int]
               /\ NightShift(d) \in [day : Int, kind : {"day", "night"}, start : Int, end : Int]
               /\ DayShift(d).day = d /\ DayShift(d).kind = "day"
               /\ NightShift(d).day = d /\ NightShift(d).kind = "night"
               /\ WholeShift(<<d, "day">>) = DayShift(d) /\ WholeShift(<<d, "night">>) = NightShift(d)
               /\ \A k \in {"day", "night"} :
                     /\ WholeShift(<<d, k>>) \in [day : Int, kind : {"day", "night"}, start : Int, end : Int]
                     /\ WholeShift(<<d, k>>).day = d /\ WholeShift(<<d, k>>).kind = k
    <2>1. /\ d * DayLength + DayOpen \in Int /\ d * DayLength + DayClose \in Int /\ NightEnd(d) \in Int
          /\ d * DayLength + (IF Sunday(d) THEN SundayClose ELSE DayClose) \in Int
      BY <1>1 DEF NightEnd
    <2>2. WholeShift(<<d, "day">>) = DayShift(d) /\ WholeShift(<<d, "night">>) = NightShift(d)
      BY DEF WholeShift
    <2>3. /\ DayShift(d) \in [day : Int, kind : {"day", "night"}, start : Int, end : Int]
          /\ NightShift(d) \in [day : Int, kind : {"day", "night"}, start : Int, end : Int]
          /\ DayShift(d).day = d /\ DayShift(d).kind = "day"
          /\ NightShift(d).day = d /\ NightShift(d).kind = "night"
      BY <2>1 DEF DayShift, NightShift
    <2>4. ASSUME NEW k \in {"day", "night"}
          PROVE  /\ WholeShift(<<d, k>>) \in [day : Int, kind : {"day", "night"}, start : Int, end : Int]
                 /\ WholeShift(<<d, k>>).day = d /\ WholeShift(<<d, k>>).kind = k
      <3>1. k = "day" => WholeShift(<<d, k>>) = DayShift(d)
        BY <2>2
      <3>2. k = "night" => WholeShift(<<d, k>>) = NightShift(d)
        BY <2>2
      <3>3. QED
        BY <2>3, <3>1, <3>2
    <2>5. QED
      BY <2>2, <2>3, <2>4
  <1>8. ASSUME NEW w \in Shifts(from, to)
        PROVE  \E d \in days : \E k \in {"day", "night"} :
                  /\ k = "night" => ~Sunday(d)
                  /\ w = Clip(WholeShift(<<d, k>>), from, to)
    <2>1. PICK v \in all : w = Clip(v, from, to)
      BY <1>4
    <2>2. CASE \E d \in days : v = DayShift(d)
      <3>1. PICK d \in days : v = DayShift(d)
        BY <2>2
      <3>2. d \in Int
        BY <1>2
      <3>3. v = WholeShift(<<d, "day">>)
        BY <1>7, <3>1, <3>2
      <3>4. QED
        BY <2>1, <3>3
    <2>3. CASE \E d \in days : ~Sunday(d) /\ v = NightShift(d)
      <3>1. PICK d \in days : ~Sunday(d) /\ v = NightShift(d)
        BY <2>3
      <3>2. d \in Int
        BY <1>2
      <3>3. v = WholeShift(<<d, "night">>)
        BY <1>7, <3>1, <3>2
      <3>4. QED
        BY <2>1, <3>1, <3>3
    <2>4. QED
      BY <2>1, <2>2, <2>3
  <1>9. ASSUME NEW d \in Int, NEW k \in {"day", "night"}, NEW t \in Int
        PROVE  ShiftOf(t) = <<d, k>> <=> (k = "night" => ~Sunday(d)) /\ Inside(t, WholeShift(<<d, k>>))
    <2>1. CASE k = "day"
      <3>1. WholeShift(<<d, k>>) = DayShift(d)
        BY <1>7, <2>1
      <3>2. ShiftOf(t) = <<d, "day">> <=> Inside(t, DayShift(d))
        BY ShiftOfIs DEF Inside
      <3>3. QED
        BY <2>1, <3>1, <3>2
    <2>2. CASE k = "night"
      <3>1. WholeShift(<<d, k>>) = NightShift(d)
        BY <1>7, <2>2
      <3>2. ShiftOf(t) = <<d, "night">> <=> ~Sunday(d) /\ Inside(t, NightShift(d))
        BY ShiftOfIs DEF Inside
      <3>3. QED
        BY <2>2, <3>1, <3>2
    <2>3. QED
      BY <2>1, <2>2
  <1> HIDE DEF days, all, clipped
  <1>10. ASSUME NEW w \in Shifts(from, to)
         PROVE  /\ w.start \in Int /\ w.end \in Int
                /\ \A t \in Int : from <= t /\ Inside(t, w) =>
                      /\ t < to /\ ShiftOf(t) = <<w.day, w.kind>> /\ OfDays(w.day, from)
                      /\ w.kind \in {"day", "night"} /\ w = Clip(WholeShift(ShiftOf(t)), from, to)
    <2>1. PICK d \in days, k \in {"day", "night"} :
             (k = "night" => ~Sunday(d)) /\ w = Clip(WholeShift(<<d, k>>), from, to)
      BY <1>8
    <2>2. d \in Int /\ OfDays(d, from)
      <3>1. d \in Int
        BY <1>2 DEF days
      <3>2. QED
        BY <1>2, <3>1
    <2> DEFINE v == WholeShift(<<d, k>>)
    <2>3. v \in [day : Int, kind : {"day", "night"}, start : Int, end : Int] /\ v.day = d /\ v.kind = k
      <3>1. \A j \in {"day", "night"} :
               /\ WholeShift(<<d, j>>) \in [day : Int, kind : {"day", "night"}, start : Int, end : Int]
               /\ WholeShift(<<d, j>>).day = d /\ WholeShift(<<d, j>>).kind = j
        BY <1>7, <2>2
      <3>2. QED
        BY <3>1
    <2> HIDE DEF v
    <2>4. w = Clip(v, from, to)
      BY <2>1 DEF v
    <2>5. /\ w.day = d /\ w.kind = k /\ w.start \in Int /\ w.end \in Int
          /\ \A t \in Int : from <= t => (Inside(t, w) <=> Inside(t, v) /\ t < to)
      BY <1>6, <2>3, <2>4
    <2>6. \A t \in Int : Inside(t, v) => ShiftOf(t) = <<d, k>>
      BY <1>9, <2>1, <2>2 DEF v
    <2>7. ASSUME NEW t \in Int, from <= t, Inside(t, w)
          PROVE  /\ t < to /\ ShiftOf(t) = <<w.day, w.kind>> /\ OfDays(w.day, from)
                 /\ w.kind \in {"day", "night"} /\ w = Clip(WholeShift(ShiftOf(t)), from, to)
      <3>1. t < to /\ ShiftOf(t) = <<d, k>>
        BY <2>5, <2>6, <2>7
      <3>2. QED
        BY <2>1, <2>2, <2>5, <3>1
    <2>8. QED
      BY <2>5, <2>7
  <1>11. ASSUME NEW t \in Int, from <= t, t < to, ShiftOf(t)[2] # "none", OfDays(ShiftOf(t)[1], from)
         PROVE  LET w == Clip(WholeShift(ShiftOf(t)), from, to)
                IN  w \in Shifts(from, to) /\ Inside(t, w)
    <2> DEFINE d == (t - DayOpen) \div DayLength
    <2>1. t - DayOpen \in Int
      BY <1>1
    <2>2. d \in Int /\ d * DayLength \in Int /\ d * DayLength <= t - DayOpen
      BY <1>1, <2>1, DivIs
    <2>3. ShiftOf(t) \in {<<d, "day">>, <<d, "none">>, <<d, "night">>}
      BY DEF ShiftOf
    <2> HIDE DEF d
    <2>4. PICK k \in {"day", "night"} : ShiftOf(t) = <<d, k>>
      BY <1>11, <2>3
    <2>5. OfDays(d, from)
      BY <1>11, <2>4
    <2>6. d <= Day(to)
      <3>1. d * DayLength <= to
        BY <1>1, <1>11, <2>2
      <3>2. (d * DayLength) \div DayLength <= to \div DayLength
        BY <1>1, <2>2, <3>1, DivMonotone
      <3>3. (d * DayLength) \div DayLength = d
        <4>1. d * DayLength <= d * DayLength /\ d * DayLength < d * DayLength + DayLength
          BY <1>1, <2>2
        <4>2. QED
          BY <1>1, <2>2, <4>1, DivBetween
      <3>4. QED
        BY <3>2, <3>3 DEF Day
    <2>7. d \in days
      BY <1>2, <2>2, <2>5, <2>6
    <2> DEFINE v == WholeShift(<<d, k>>)
               w == Clip(v, from, to)
    <2>8. (k = "night" => ~Sunday(d)) /\ Inside(t, v)
      BY <1>9, <2>2, <2>4
    <2>9. v \in [day : Int, kind : {"day", "night"}, start : Int, end : Int]
      BY <1>7, <2>2
    <2>10. v \in all
      <3>1. k = "day" => v = DayShift(d)
        BY <1>7, <2>2
      <3>2. k = "night" => v = NightShift(d)
        BY <1>7, <2>2
      <3>3. QED
        BY <2>7, <2>8, <3>1, <3>2 DEF all
    <2> HIDE DEF v
    <2>11. Inside(t, w) /\ w.start \in Int /\ w.end \in Int
      BY <1>6, <1>11, <2>8, <2>9
    <2>12. w \in clipped
      BY <2>10 DEF clipped
    <2> HIDE DEF w
    <2>13. w.start < w.end
      BY <2>11 DEF Inside
    <2>14. w = Clip(WholeShift(ShiftOf(t)), from, to)
      BY <2>4 DEF w, v
    <2>15. QED
      BY <1>4, <2>11, <2>12, <2>13, <2>14
  <1>12. QED
    BY <1>5, <1>10, <1>11

\* The shift of a pair, and the pairs that are of one.
CountedIn(e, from, to) ==
    /\ ShiftOf(e[1].ts) = ShiftOf(e[2].ts) /\ e[2].ts < to
    /\ ShiftOf(e[1].ts)[2] # "none" /\ OfDays(ShiftOf(e[1].ts)[1], from)

\* The rows of a shift follow each other as the rows of the range do.
LEMMA PairsOfShift ==
    ASSUME NEW s, Table(s), NEW from \in Nat, NEW to \in Nat, from <= to,
           \A r \in s : from <= r.ts /\ r.ts <= to, NEW w \in Shifts(from, to)
    PROVE  Neighbours(ShiftRows(s, w))
           = {e \in Neighbours(s) : CountedIn(e, from, to) /\ Clip(WholeShift(ShiftOf(e[1].ts)), from, to) = w}
  <1>1. w.start \in Int /\ w.end \in Int
    BY ShiftsAre
  <1>2. \A t \in Int : from <= t /\ Inside(t, w) =>
           /\ t < to /\ ShiftOf(t) = <<w.day, w.kind>> /\ OfDays(w.day, from)
           /\ w.kind \in {"day", "night"} /\ w = Clip(WholeShift(ShiftOf(t)), from, to)
    BY ShiftsAre
  <1>3. \A t \in Int : from <= t /\ t < to /\ ShiftOf(t)[2] # "none" /\ OfDays(ShiftOf(t)[1], from) =>
           Inside(t, Clip(WholeShift(ShiftOf(t)), from, to))
    BY ShiftsAre
  <1>4. \A r \in s : r.ts \in Nat /\ from <= r.ts
    BY DEF Table, Rows
  <1>5. ShiftRows(s, w) = {r \in s : Inside(r.ts, w)}
    BY DEF ShiftRows, Inside
  <1>6. ASSUME NEW e \in Neighbours(ShiftRows(s, w))
        PROVE  e \in Neighbours(s) /\ CountedIn(e, from, to) /\ Clip(WholeShift(ShiftOf(e[1].ts)), from, to) = w
    <2>1. /\ e \in s \X s /\ Inside(e[1].ts, w) /\ Inside(e[2].ts, w)
          /\ e[1].machine = e[2].machine /\ e[1].ts < e[2].ts
          /\ ~\E q \in s : Inside(q.ts, w) /\ q.machine = e[1].machine /\ e[1].ts < q.ts /\ q.ts < e[2].ts
      BY <1>5 DEF Neighbours
    <2>2. \A q \in s : e[1].ts < q.ts /\ q.ts < e[2].ts => Inside(q.ts, w)
      BY <1>1, <1>4, <2>1 DEF Inside
    <2>3. e \in Neighbours(s)
      BY <2>1, <2>2 DEF Neighbours
    <2> DEFINE t == e[1].ts
               u == e[2].ts
    <2>4. t \in Int /\ u \in Int /\ from <= t /\ from <= u /\ Inside(t, w) /\ Inside(u, w)
      BY <1>4, <2>1
    <2> HIDE DEF t, u
    <2>5. /\ ShiftOf(t) = <<w.day, w.kind>> /\ ShiftOf(u) = <<w.day, w.kind>> /\ u < to
          /\ OfDays(w.day, from) /\ w.kind # "none" /\ w = Clip(WholeShift(ShiftOf(t)), from, to)
      <3>1. /\ ShiftOf(t) = <<w.day, w.kind>> /\ OfDays(w.day, from)
            /\ w.kind \in {"day", "night"} /\ w = Clip(WholeShift(ShiftOf(t)), from, to)
        BY <1>2, <2>4
      <3>2. ShiftOf(u) = <<w.day, w.kind>> /\ u < to
        BY <1>2, <2>4
      <3>3. QED
        BY <3>1, <3>2
    <2>6. ShiftOf(t) = ShiftOf(u) /\ ShiftOf(t)[1] = w.day /\ ShiftOf(t)[2] = w.kind
      BY <2>5
    <2>7. QED
      BY <2>3, <2>5, <2>6 DEF CountedIn, t, u
  <1>7. ASSUME NEW e \in Neighbours(s), CountedIn(e, from, to),
               Clip(WholeShift(ShiftOf(e[1].ts)), from, to) = w
        PROVE  e \in Neighbours(ShiftRows(s, w))
    <2>1. /\ e \in s \X s /\ e[1].machine = e[2].machine /\ e[1].ts < e[2].ts
          /\ ~\E q \in s : q.machine = e[1].machine /\ e[1].ts < q.ts /\ q.ts < e[2].ts
      BY DEF Neighbours
    <2> DEFINE t == e[1].ts
               u == e[2].ts
    <2>2. t \in Int /\ u \in Int /\ from <= t /\ from <= u /\ u < to /\ t < to
      BY <1>4, <1>7, <2>1 DEF CountedIn
    <2>3. ShiftOf(t) = ShiftOf(u) /\ ShiftOf(t)[2] # "none" /\ OfDays(ShiftOf(t)[1], from)
          /\ Clip(WholeShift(ShiftOf(t)), from, to) = w
      BY <1>7 DEF CountedIn
    <2> HIDE DEF t, u
    <2>4. Inside(t, w) /\ Inside(u, w)
      BY <1>3, <2>2, <2>3
    <2>5. e[1] \in ShiftRows(s, w) /\ e[2] \in ShiftRows(s, w)
      BY <1>5, <2>1, <2>4 DEF t, u
    <2>6. ~\E q \in ShiftRows(s, w) : q.machine = e[1].machine /\ e[1].ts < q.ts /\ q.ts < e[2].ts
      BY <1>5, <2>1
    <2>7. e \in ShiftRows(s, w) \X ShiftRows(s, w)
      BY <2>1, <2>5
    <2>8. QED
      BY <2>1, <2>6, <2>7 DEF Neighbours
  <1>8. QED
    BY <1>6, <1>7

\* What the shifts of a range count of pairs is what the pairs of one shift each count.
LEMMA ShiftsOfRange ==
    ASSUME NEW s, Table(s), NEW from \in Nat, NEW to \in Nat, from <= to,
           \A r \in s : from <= r.ts /\ r.ts <= to,
           NEW f, \A e \in Neighbours(s) : f[e] \in Int
    PROVE  SumFunctionOnSet([w \in Shifts(from, to) |-> SumFunctionOnSet(f, Neighbours(ShiftRows(s, w)))],
                            Shifts(from, to))
           = SumFunctionOnSet(f, {e \in Neighbours(s) : CountedIn(e, from, to)})
  <1> DEFINE T == {e \in Neighbours(s) : CountedIn(e, from, to)}
             K == Shifts(from, to)
             p == [e \in T |-> Clip(WholeShift(ShiftOf(e[1].ts)), from, to)]
  <1>1. /\ IsFiniteSet(Neighbours(s))
        /\ \A e \in Neighbours(s) : e[1] \in s /\ e[2] \in s /\ e[1].ts \in Nat /\ e[2].ts \in Nat /\ e[1].ts < e[2].ts
    BY PairsFinite DEF Table, Rows
  <1>2. IsFiniteSet(T) /\ \A e \in T : f[e] \in Int
    BY <1>1, FS_Subset
  <1>3. \A e \in T : p[e] \in K
    <2> SUFFICES ASSUME NEW e \in T PROVE p[e] \in K
      OBVIOUS
    <2> DEFINE t == e[1].ts
    <2>1. t \in Int /\ from <= t /\ t < to
      BY <1>1 DEF CountedIn
    <2>2. ShiftOf(t)[2] # "none" /\ OfDays(ShiftOf(t)[1], from)
      BY DEF CountedIn
    <2> HIDE DEF t
    <2>3. Clip(WholeShift(ShiftOf(t)), from, to) \in K
      BY <2>1, <2>2, ShiftsAre
    <2>4. QED
      BY <2>3 DEF t
  <1>4. IsFiniteSet(K)
    BY ShiftsAre
  <1>5. \A w \in K : Neighbours(ShiftRows(s, w)) = {e \in T : p[e] = w}
    <2>1. \A w \in K : Neighbours(ShiftRows(s, w))
             = {e \in Neighbours(s) : CountedIn(e, from, to) /\ Clip(WholeShift(ShiftOf(e[1].ts)), from, to) = w}
      BY PairsOfShift
    <2>2. \A w : {e \in T : p[e] = w}
             = {e \in Neighbours(s) : CountedIn(e, from, to) /\ Clip(WholeShift(ShiftOf(e[1].ts)), from, to) = w}
      OBVIOUS
    <2> HIDE DEF T, p
    <2>3. QED
      BY <2>1, <2>2
  <1> HIDE DEF T, K, p
  <1>6. SumFunctionOnSet(f, T) = SumFunctionOnSet([w \in K |-> SumFunctionOnSet(f, {e \in T : p[e] = w})], K)
    BY <1>2, <1>3, <1>4, SumClasses
  <1>7. [w \in K |-> SumFunctionOnSet(f, {e \in T : p[e] = w})]
        = [w \in K |-> SumFunctionOnSet(f, Neighbours(ShiftRows(s, w)))]
    BY <1>5
  <1>8. QED
    BY <1>6, <1>7 DEF T, K

\* The sum of durations, over any function that says them.
LEMMA DurationsAre ==
    ASSUME NEW P, IsFiniteSet(P), NEW what, NEW f, \A e \in P : f[e] \in Int /\ f[e] = Lasts(e, what)
    PROVE  Durations(P, what) = SumFunctionOnSet(f, P)
  <1> DEFINE g == [e \in P |-> Lasts(e, what)]
  <1>1. Durations(P, what) = SumFunctionOnSet(g, P) /\ \A e \in P : f[e] \in Int /\ f[e] = g[e]
    BY DEF Durations, SumFunction
  <1> HIDE DEF g
  <1>2. QED
    BY <1>1, SumSame

\* The parts and the seconds that the shifts of a range show.
LEMMA ShiftsShow ==
    ASSUME NEW s, Table(s), NEW from \in Nat, NEW to \in Nat, from <= to,
           \A r \in s : from <= r.ts /\ r.ts <= to
    PROVE  LET inOne == {e \in Neighbours(s) : CountedIn(e, from, to)}
           IN  /\ SumFunction([w \in Shifts(from, to) |-> Produced(ShiftRows(s, w))]) = Increases(inOne)
               /\ SumFunction([w \in Shifts(from, to) |-> Seconds(ShiftRows(s, w), Powered)])
                  = Durations(inOne, Powered)
  <1> DEFINE K == Shifts(from, to)
             N == Neighbours(s)
             inOne == {e \in N : CountedIn(e, from, to)}
             of(w) == Neighbours(ShiftRows(s, w))
             f == [e \in N |-> Increase(e)]
             g == [e \in N |-> Lasts(e, Powered)]
             parts == [w \in K |-> Produced(ShiftRows(s, w))]
             times == [w \in K |-> Seconds(ShiftRows(s, w), Powered)]
  <1>1. IsFiniteSet(N) /\ \A e \in N : e \in Rows \X Rows /\ e[1].ts < e[2].ts
    BY PairsFinite DEF Table
  <1>2. \A e \in N : f[e] = Increase(e) /\ f[e] \in Int /\ g[e] = Lasts(e, Powered) /\ g[e] \in Int
    BY <1>1, IncreaseIs, LastsIs
  <1>3. \A w \in K : of(w) \in SUBSET N
    <2>1. \A w \in K : of(w) = {e \in N : CountedIn(e, from, to) /\ Clip(WholeShift(ShiftOf(e[1].ts)), from, to) = w}
      BY PairsOfShift
    <2> HIDE DEF of, K
    <2>2. QED
      BY <2>1
  <1>4. inOne \in SUBSET N
    OBVIOUS
  <1> HIDE DEF f, g, N, inOne
  <1>5. ASSUME NEW P \in SUBSET N
        PROVE  Increases(P) = SumFunctionOnSet(f, P) /\ Durations(P, Powered) = SumFunctionOnSet(g, P)
    <2>1. IsFiniteSet(P) /\ \A e \in P : f[e] = Increase(e) /\ f[e] \in Int /\ g[e] = Lasts(e, Powered) /\ g[e] \in Int
      BY <1>1, <1>2, FS_Subset
    <2>2. QED
      BY <2>1, IncreasesAre, DurationsAre
  <1>6. \A w \in K : /\ Produced(ShiftRows(s, w)) = SumFunctionOnSet(f, of(w))
                     /\ Seconds(ShiftRows(s, w), Powered) = SumFunctionOnSet(g, of(w))
    BY <1>3, <1>5 DEF Produced, Seconds
  <1>7. /\ SumFunctionOnSet([w \in K |-> SumFunctionOnSet(f, of(w))], K) = SumFunctionOnSet(f, inOne)
        /\ SumFunctionOnSet([w \in K |-> SumFunctionOnSet(g, of(w))], K) = SumFunctionOnSet(g, inOne)
    BY <1>2, ShiftsOfRange DEF N, inOne
  <1> HIDE DEF of, K
  <1>8. parts = [w \in K |-> SumFunctionOnSet(f, of(w))] /\ times = [w \in K |-> SumFunctionOnSet(g, of(w))]
    BY <1>6
  <1>9. SumFunction(parts) = SumFunctionOnSet(parts, K) /\ SumFunction(times) = SumFunctionOnSet(times, K)
    BY DEF SumFunction
  <1> HIDE DEF parts, times
  <1>10. SumFunction(parts) = Increases(inOne) /\ SumFunction(times) = Durations(inOne, Powered)
    BY <1>4, <1>5, <1>7, <1>8, <1>9
  <1>11. QED
    BY <1>10 DEF parts, times, K, inOne, N

\* The windows of build_shifts count every part and every second of the first MaxDays days
\* in at most one shift, the one the calendar gives both of its samples; the GUI's night is
\* the web server's.
THEOREM EveryPartInOneShift == Spec => []ShiftsCountOnce
  <1>1. ASSUME ProductionInv PROVE ShiftsCountOnce
    <2>1. now \in Nat
      BY <1>1 DEF ProductionInv, ControlsInv
    <2> DEFINE all(from) == Load(from, now, Machines)
               inOne(from) == {e \in Neighbours(all(from)) : CountedIn(e, from, now)}
    <2>2. ASSUME NEW from \in Froms
          PROVE  /\ SumFunction([w \in Shifts(from, now) |-> Produced(ShiftRows(all(from), w))])
                    = Increases(inOne(from))
                 /\ SumFunction([w \in Shifts(from, now) |-> Seconds(ShiftRows(all(from), w), Powered)])
                    = Durations(inOne(from), Powered)
      <3>1. from \in Nat /\ from <= now
        BY <1>1 DEF Froms, Times, ProductionInv, RowsInv, Rows
      <3>2. Table(all(from)) /\ \A r \in all(from) : from <= r.ts /\ r.ts <= now
        <4>1. \A r \in all(from) : from <= r.ts /\ r.ts <= now
          BY <3>1 DEF Load, Select
        <4>2. QED
          BY <1>1, <4>1, LoadIs
      <3> HIDE DEF all
      <3>3. QED
        BY <2>1, <3>1, <3>2, ShiftsShow
    <2>3. ShiftOf(now)[2] = "night" =>
             QuickNight(now) = <<NightShift(ShiftOf(now)[1]).start, NightShift(ShiftOf(now)[1]).end>>
      BY <2>1, QuickNightIs
    <2>4. \A from : inOne(from) = {e \in Neighbours(all(from)) :
             /\ ShiftOf(e[1].ts) = ShiftOf(e[2].ts) /\ e[2].ts < now
             /\ ShiftOf(e[1].ts)[2] # "none" /\ ShiftOf(e[1].ts)[1] >= Day(from)
             /\ ShiftOf(e[1].ts)[1] < Day(from) + MaxDays}
      BY DEF CountedIn, OfDays
    <2> HIDE DEF inOne
    <2>5. \A from \in Froms :
             /\ SumFunction([w \in Shifts(from, now) |-> Produced(ShiftRows(all(from), w))])
                = Increases({e \in Neighbours(all(from)) :
                       /\ ShiftOf(e[1].ts) = ShiftOf(e[2].ts) /\ e[2].ts < now
                       /\ ShiftOf(e[1].ts)[2] # "none" /\ ShiftOf(e[1].ts)[1] >= Day(from)
                       /\ ShiftOf(e[1].ts)[1] < Day(from) + MaxDays})
             /\ SumFunction([w \in Shifts(from, now) |-> Seconds(ShiftRows(all(from), w), Powered)])
                = Durations({e \in Neighbours(all(from)) :
                       /\ ShiftOf(e[1].ts) = ShiftOf(e[2].ts) /\ e[2].ts < now
                       /\ ShiftOf(e[1].ts)[2] # "none" /\ ShiftOf(e[1].ts)[1] >= Day(from)
                       /\ ShiftOf(e[1].ts)[1] < Day(from) + MaxDays}, Powered)
      BY <2>2, <2>4
    <2>6. QED
      BY <2>3, <2>5 DEF ShiftsCountOnce
  <1>2. QED
    BY <1>1, ProductionInvariant, PTL

=============================================================================
