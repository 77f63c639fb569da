----------------------------- MODULE SumTheorems -----------------------------
(***************************************************************************)
(* Sums over a finite set: what SumFunctionOnSet of the community module   *)
(* Functions adds up to, whatever order it takes the elements in.          *)
(*                                                                         *)
(* The operator folds a recursive function on the subsets of its set.      *)
(* Such a function exists for a finite set (RecurrenceExiste) and is the   *)
(* only one; every other fact is an induction on the subsets, stated with  *)
(* a set of the subsets concerned rather than a predicate.                 *)
(***************************************************************************)
EXTENDS Functions, FiniteSetTheorems, WellFoundedInduction, TLAPS

-----------------------------------------------------------------------------
(* Two inductions, on the integers and on the subsets of a finite set. *)

Inferieur == {ss \in Nat \X Nat : ss[1] < ss[2]}

\* A set of integers that is not empty has a least one.
LEMMA Plancher ==
  ASSUME NEW E, E \subseteq Nat, E # {}
  PROVE  \E n \in E : \A k \in E : n <= k
<1>1. IsWellFoundedOn(Inferieur, Nat)
  BY NatLessThanWellFounded, Zenon DEF OpToRel, Inferieur
<1>2. PICK n \in E : \A k \in E : <<k, n>> \notin Inferieur
  BY <1>1, WFMin
<1>3. ASSUME NEW k \in E PROVE n <= k
  <2>1. <<k, n>> \notin Inferieur /\ k \in Nat /\ n \in Nat
    BY <1>2
  <2>2. ~ (k < n)
    BY <2>1 DEF Inferieur
  <2> QED
    BY <2>1, <2>2
<1> QED
  BY <1>3

\* What holds of 0 and passes from n to n + 1 holds of every integer.
LEMMA ParEntier ==
  ASSUME NEW E, 0 \in E, \A n \in Nat : n \in E => n + 1 \in E
  PROVE  Nat \subseteq E
<1> SUFFICES ASSUME Nat \ E # {} PROVE FALSE
  OBVIOUS
<1>1. PICK n \in Nat \ E : \A k \in Nat \ E : n <= k
  <2>1. Nat \ E \subseteq Nat
    OBVIOUS
  <2> QED
    BY <2>1, Plancher
<1>2. n - 1 \in Nat /\ n - 1 \in E
  BY <1>1
<1> QED
  BY <1>1, <1>2

\* What holds of a subset as soon as it holds of that subset less any of its elements
\* holds of every subset.
LEMMA ParSousEnsemble ==
  ASSUME NEW D, IsFiniteSet(D), NEW P,
         \A T \in SUBSET D : (\A x \in T : T \ {x} \in P) => T \in P
  PROVE  SUBSET D \subseteq P
<1> DEFINE Tailles == {Cardinality(T) : T \in (SUBSET D) \ P}
<1> SUFFICES ASSUME (SUBSET D) \ P # {} PROVE FALSE
  OBVIOUS
<1>1. \A T \in SUBSET D : IsFiniteSet(T) /\ Cardinality(T) \in Nat
  BY FS_Subset, FS_CardinalityType
<1>2. PICK n \in Tailles : \A k \in Tailles : n <= k
  <2>1. Tailles \subseteq Nat /\ Tailles # {}
    BY <1>1
  <2> HIDE DEF Tailles
  <2> QED
    BY <2>1, Plancher
<1>3. PICK T \in (SUBSET D) \ P : Cardinality(T) = n
  OBVIOUS
<1>4. PICK x \in T : T \ {x} \notin P
  BY <1>3
<1>5. T \ {x} \in (SUBSET D) \ P /\ Cardinality(T \ {x}) = n - 1 /\ n \in Nat
  BY <1>1, <1>3, <1>4, FS_RemoveElement
<1>6. n <= n - 1
  BY <1>2, <1>5
<1> QED
  BY <1>5, <1>6

-----------------------------------------------------------------------------
(* The recursive function of a sum. *)

Elu(s) == CHOOSE x \in s : TRUE
Terme(f, h, s) == IF s = {} THEN 0 ELSE f[Elu(s)] + h[s \ {Elu(s)}]
Recurrence(f, h, D) == h = [s \in D |-> Terme(f, h, s)]

LEMMA EluDedans == ASSUME NEW s, s # {} PROVE Elu(s) \in s
BY DEF Elu

\* The subsets of at most n elements.
Petits(S, n) == {s \in SUBSET S : Cardinality(s) <= n}

LEMMA RecurrenceExiste ==
  ASSUME NEW S, IsFiniteSet(S), NEW f
  PROVE  \E h : Recurrence(f, h, SUBSET S)
<1>1. \A s \in SUBSET S : IsFiniteSet(s) /\ Cardinality(s) \in Nat
  BY FS_Subset, FS_CardinalityType
<1> DEFINE E == {n \in Nat : \E h : Recurrence(f, h, Petits(S, n))}
<1>2. 0 \in E
  <2>1. \A s \in Petits(S, 0) : s = {}
    BY <1>1, FS_EmptySet DEF Petits
  <2>2. Recurrence(f, [s \in Petits(S, 0) |-> 0], Petits(S, 0))
    BY <2>1 DEF Recurrence, Terme
  <2> QED
    BY <2>2
<1>3. ASSUME NEW n \in Nat, n \in E PROVE n + 1 \in E
  <2>1. PICK h : Recurrence(f, h, Petits(S, n))
    BY <1>3
  <2> DEFINE g == [s \in Petits(S, n + 1) |-> Terme(f, h, s)]
  <2>2. Petits(S, n) \subseteq Petits(S, n + 1)
    BY <1>1 DEF Petits
  <2>3. \A s \in Petits(S, n) : g[s] = h[s]
    BY <2>1, <2>2 DEF Recurrence
  <2>4. \A s \in Petits(S, n + 1) : s # {} => s \ {Elu(s)} \in Petits(S, n)
    <3> SUFFICES ASSUME NEW s \in Petits(S, n + 1), s # {} PROVE s \ {Elu(s)} \in Petits(S, n)
      OBVIOUS
    <3>1. Elu(s) \in s /\ IsFiniteSet(s) /\ Cardinality(s) \in Nat /\ s \in SUBSET S
      BY <1>1, EluDedans DEF Petits
    <3>2. Cardinality(s \ {Elu(s)}) = Cardinality(s) - 1
      BY <3>1, FS_RemoveElement
    <3> QED
      BY <3>1, <3>2 DEF Petits
  <2>5. \A s \in Petits(S, n + 1) : Terme(f, g, s) = Terme(f, h, s)
    <3> HIDE DEF g
    <3> QED
      BY <2>3, <2>4 DEF Terme
  <2>6. Recurrence(f, g, Petits(S, n + 1))
    BY <2>5 DEF Recurrence
  <2> HIDE DEF g
  <2> QED
    BY <2>6
<1>4. Cardinality(S) \in E
  <2>1. Nat \subseteq E
    <3> HIDE DEF E
    <3> QED
      BY <1>2, <1>3, ParEntier
  <2> QED
    BY <1>1, <2>1
<1>5. Petits(S, Cardinality(S)) = SUBSET S
  BY <1>1, FS_Subset DEF Petits
<1> QED
  BY <1>4, <1>5

LEMMA SommeEstRecurrence ==
  ASSUME NEW S, IsFiniteSet(S), NEW f
  PROVE  \E h : Recurrence(f, h, SUBSET S) /\ SumFunctionOnSet(f, S) = h[S]
<1>1. SumFunctionOnSet(f, S) = (CHOOSE h : Recurrence(f, h, SUBSET S))[S]
  BY DEF SumFunctionOnSet, FoldFunctionOnSet, MapThenFoldSet, Recurrence, Terme, Elu
<1>2. Recurrence(f, CHOOSE h : Recurrence(f, h, SUBSET S), SUBSET S)
  BY RecurrenceExiste
<1> QED
  BY <1>1, <1>2

\* Two such functions agree where their sets and their summands do.
LEMMA RecurrenceUnique ==
  ASSUME NEW S, NEW R, NEW T, NEW f, NEW g, NEW h, NEW k,
         Recurrence(f, h, SUBSET S), Recurrence(g, k, SUBSET R),
         T \subseteq S, T \subseteq R, IsFiniteSet(T), \A x \in T : f[x] = g[x]
  PROVE  h[T] = k[T]
<1> DEFINE P == {U \in SUBSET T : h[U] = k[U]}
<1>1. ASSUME NEW U \in SUBSET T, \A x \in U : U \ {x} \in P
      PROVE  U \in P
  <2>1. h[U] = Terme(f, h, U) /\ k[U] = Terme(g, k, U)
    BY DEF Recurrence
  <2>2. CASE U = {}
    BY <2>1, <2>2 DEF Terme
  <2>3. CASE U # {}
    <3>1. Elu(U) \in U /\ f[Elu(U)] = g[Elu(U)] /\ h[U \ {Elu(U)}] = k[U \ {Elu(U)}]
      BY <1>1, <2>3, EluDedans
    <3> QED
      BY <2>1, <2>3, <3>1 DEF Terme
  <2> QED
    BY <2>2, <2>3
<1>2. SUBSET T \subseteq P
  <2> HIDE DEF P
  <2> QED
    BY <1>1, ParSousEnsemble
<1> QED
  BY <1>2

LEMMA RecurrenceType ==
  ASSUME NEW S, NEW f, NEW h, Recurrence(f, h, SUBSET S), IsFiniteSet(S),
         \A x \in S : f[x] \in Int
  PROVE  \A T \in SUBSET S : h[T] \in Int
<1> DEFINE P == {T \in SUBSET S : h[T] \in Int}
<1>1. ASSUME NEW T \in SUBSET S, \A x \in T : T \ {x} \in P
      PROVE  T \in P
  <2>1. h[T] = Terme(f, h, T)
    BY DEF Recurrence
  <2>2. T # {} => Elu(T) \in T /\ f[Elu(T)] \in Int /\ h[T \ {Elu(T)}] \in Int
    BY <1>1, EluDedans
  <2> QED
    BY <2>1, <2>2 DEF Terme
<1>2. SUBSET S \subseteq P
  <2> HIDE DEF P
  <2> QED
    BY <1>1, ParSousEnsemble
<1> QED
  BY <1>2

\* Any element may be taken first.
LEMMA RecurrenceOrdre ==
  ASSUME NEW S, NEW f, NEW h, NEW R, NEW z, Recurrence(f, h, SUBSET S), IsFiniteSet(S),
         \A x \in S : f[x] \in Int, R \subseteq S, z \in R
  PROVE  h[R] = f[z] + h[R \ {z}]
<1> DEFINE P == {T \in SUBSET S : \A y \in T : h[T] = f[y] + h[T \ {y}]}
<1>1. ASSUME NEW T \in SUBSET S, \A x \in T : T \ {x} \in P, NEW y \in T
      PROVE  h[T] = f[y] + h[T \ {y}]
  <2> DEFINE x == Elu(T)
             U == (T \ {x}) \ {y}
  <2>1. x \in T /\ h[T] = f[x] + h[T \ {x}]
    BY EluDedans DEF Recurrence, Terme
  <2>2. CASE x = y
    BY <2>1, <2>2
  <2>3. CASE x # y
    <3>1. U = (T \ {y}) \ {x} /\ y \in T \ {x} /\ x \in T \ {y} /\ U \in SUBSET S
      BY <2>1, <2>3
    <3>2. h[T \ {x}] = f[y] + h[U]
      BY <1>1, <2>1, <3>1
    <3>3. h[T \ {y}] = f[x] + h[U]
      <4>1. T \ {y} \in P
        BY <1>1
      <4> QED
        BY <3>1, <4>1
    <3>4. f[x] \in Int /\ f[y] \in Int /\ h[U] \in Int
      <4>1. h[U] \in Int
        <5> HIDE DEF U
        <5> QED
          BY <3>1, RecurrenceType
      <4>2. x \in S /\ y \in S
        BY <2>1
      <4> QED
        BY <4>1, <4>2
    <3> HIDE DEF x, U
    <3> QED
      BY <2>1, <3>2, <3>3, <3>4
  <2> QED
    BY <2>2, <2>3
<1>2. SUBSET S \subseteq P
  <2> HIDE DEF P
  <2>1. \A T \in SUBSET S : (\A x \in T : T \ {x} \in P) => T \in P
    BY <1>1 DEF P
  <2> QED
    BY <2>1, ParSousEnsemble
<1> QED
  BY <1>2

-----------------------------------------------------------------------------
(* The sum. *)

\* The sum over no element is 0.
THEOREM SumEmpty == ASSUME NEW f PROVE SumFunctionOnSet(f, {}) = 0
<1>1. PICK h : Recurrence(f, h, SUBSET {}) /\ SumFunctionOnSet(f, {}) = h[{}]
  BY FS_EmptySet, SommeEstRecurrence
<1> QED
  BY <1>1 DEF Recurrence, Terme

\* A sum of integers is an integer.
THEOREM SumType ==
  ASSUME NEW S, IsFiniteSet(S), NEW f, \A x \in S : f[x] \in Int
  PROVE  SumFunctionOnSet(f, S) \in Int
<1>1. PICK h : Recurrence(f, h, SUBSET S) /\ SumFunctionOnSet(f, S) = h[S]
  BY SommeEstRecurrence
<1> QED
  BY <1>1, RecurrenceType

\* A sum depends on its summands alone.
THEOREM SumSame ==
  ASSUME NEW S, IsFiniteSet(S), NEW f, NEW g, \A x \in S : f[x] = g[x]
  PROVE  SumFunctionOnSet(f, S) = SumFunctionOnSet(g, S)
<1>1. PICK h : Recurrence(f, h, SUBSET S) /\ SumFunctionOnSet(f, S) = h[S]
  BY SommeEstRecurrence
<1>2. PICK k : Recurrence(g, k, SUBSET S) /\ SumFunctionOnSet(g, S) = k[S]
  BY SommeEstRecurrence
<1>3. h[S] = k[S]
  BY <1>1, <1>2, RecurrenceUnique
<1> QED
  BY <1>1, <1>2, <1>3

\* An element leaves a sum with its summand, whatever the order of the others.
THEOREM SumRemove ==
  ASSUME NEW S, IsFiniteSet(S), NEW f, \A x \in S : f[x] \in Int, NEW y \in S
  PROVE  SumFunctionOnSet(f, S) = f[y] + SumFunctionOnSet(f, S \ {y})
<1>0. IsFiniteSet(S \ {y})
  BY FS_RemoveElement
<1>1. PICK h : Recurrence(f, h, SUBSET S) /\ SumFunctionOnSet(f, S) = h[S]
  BY SommeEstRecurrence
<1>2. PICK k : Recurrence(f, k, SUBSET (S \ {y})) /\ SumFunctionOnSet(f, S \ {y}) = k[S \ {y}]
  BY <1>0, SommeEstRecurrence
<1>3. h[S \ {y}] = k[S \ {y}]
  <2> DEFINE T == S \ {y}
  <2>1. /\ T \subseteq S /\ T \subseteq T /\ \A x \in T : f[x] = f[x]
        /\ IsFiniteSet(T) /\ Recurrence(f, h, SUBSET S) /\ Recurrence(f, k, SUBSET T)
    BY <1>0, <1>1, <1>2
  <2> HIDE DEF T
  <2>2. h[T] = k[T]
    BY <2>1, RecurrenceUnique
  <2> QED
    BY <2>2 DEF T
<1>4. h[S] = f[y] + h[S \ {y}]
  <2>1. S \subseteq S /\ Recurrence(f, h, SUBSET S)
    BY <1>1
  <2> QED
    BY <2>1, RecurrenceOrdre
<1> QED
  BY <1>1, <1>2, <1>3, <1>4

\* An element joins a sum with its summand.
THEOREM SumAdd ==
  ASSUME NEW S, IsFiniteSet(S), NEW f, NEW y, y \notin S,
         \A x \in S \cup {y} : f[x] \in Int
  PROVE  SumFunctionOnSet(f, S \cup {y}) = SumFunctionOnSet(f, S) + f[y]
<1>1. IsFiniteSet(S \cup {y}) /\ (S \cup {y}) \ {y} = S
  BY FS_AddElement
<1>2. SumFunctionOnSet(f, S \cup {y}) = f[y] + SumFunctionOnSet(f, S)
  BY <1>1, SumRemove
<1>3. SumFunctionOnSet(f, S) \in Int /\ f[y] \in Int
  BY SumType
<1> QED
  BY <1>2, <1>3

\* The sums of two sets without a common element add up.
THEOREM SumUnion ==
  ASSUME NEW S, IsFiniteSet(S), NEW R, IsFiniteSet(R), S \cap R = {}, NEW f,
         \A x \in S \cup R : f[x] \in Int
  PROVE  SumFunctionOnSet(f, S \cup R) = SumFunctionOnSet(f, S) + SumFunctionOnSet(f, R)
<1> DEFINE P == {T \in SUBSET R :
                   SumFunctionOnSet(f, S \cup T)
                     = SumFunctionOnSet(f, S) + SumFunctionOnSet(f, T)}
<1>1. ASSUME NEW T \in SUBSET R, \A x \in T : T \ {x} \in P
      PROVE  T \in P
  <2>1. IsFiniteSet(T) /\ IsFiniteSet(S \cup T)
    BY FS_Subset, FS_Union
  <2>2. SumFunctionOnSet(f, S) \in Int
    BY SumType
  <2>3. CASE T = {}
    BY <2>2, <2>3, SumEmpty
  <2>4. CASE T # {}
    <3>1. PICK x \in T : TRUE
      BY <2>4
    <3>2. SumFunctionOnSet(f, T) = f[x] + SumFunctionOnSet(f, T \ {x})
      BY <2>1, <3>1, SumRemove
    <3>3. SumFunctionOnSet(f, S \cup T) = f[x] + SumFunctionOnSet(f, (S \cup T) \ {x})
      BY <2>1, <3>1, SumRemove
    <3>4. (S \cup T) \ {x} = S \cup (T \ {x})
      BY <3>1
    <3>5. SumFunctionOnSet(f, T \ {x}) \in Int /\ f[x] \in Int
      <4>1. IsFiniteSet(T \ {x})
        BY <2>1, FS_RemoveElement
      <4> QED
        BY <4>1, SumType
    <3>6. SumFunctionOnSet(f, S \cup (T \ {x}))
            = SumFunctionOnSet(f, S) + SumFunctionOnSet(f, T \ {x})
      BY <1>1, <3>1
    <3>7. SumFunctionOnSet(f, S \cup T) = SumFunctionOnSet(f, S) + SumFunctionOnSet(f, T)
      <4> DEFINE s == SumFunctionOnSet(f, S)
                 r == SumFunctionOnSet(f, T \ {x})
      <4>1. SumFunctionOnSet(f, S \cup T) = f[x] + (s + r)
        BY <3>3, <3>4, <3>6
      <4>2. SumFunctionOnSet(f, T) = f[x] + r /\ s \in Int /\ r \in Int /\ f[x] \in Int
        BY <2>2, <3>2, <3>5
      <4> HIDE DEF s, r
      <4>3. f[x] + (s + r) = s + (f[x] + r)
        BY <4>2
      <4> QED
        BY <4>1, <4>2, <4>3 DEF s
    <3> QED
      BY <3>7
  <2> QED
    BY <2>3, <2>4
<1>2. SUBSET R \subseteq P
  <2> HIDE DEF P
  <2> QED
    BY <1>1, ParSousEnsemble
<1> QED
  BY <1>2
==============================================================================
