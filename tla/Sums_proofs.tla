----------------------------- MODULE Sums_proofs -----------------------------
(***************************************************************************)
(* What sums over finite sets have in common, for any sets and values.     *)
(* The sum is a fold of the community modules, a recursive function on the *)
(* subsets of the set: it exists, because the sets are finite, and does    *)
(* not depend on the order, because addition does not.                     *)
(***************************************************************************)
EXTENDS Sums, TLAPS, FiniteSetTheorems, WellFoundedInduction

-----------------------------------------------------------------------------
(* Induction, with sets in the place of predicates *)

\* Every set of natural numbers has a least element.
LEMMA LeastNatural ==
  ASSUME NEW T \in SUBSET Nat, T # {}
  PROVE  \E x \in T : \A y \in T : ~(y < x)
<1>1. IsWellFoundedOn(OpToRel(<, Nat), Nat)
  BY NatLessThanWellFounded
<1>2. PICK x \in T : \A y \in T : ~(<<y, x>> \in OpToRel(<, Nat))
  BY <1>1, WFMin
<1>3. ASSUME NEW y \in T, y < x PROVE FALSE
  <2>1. <<y, x>> \in OpToRel(<, Nat)
    BY <1>3 DEF OpToRel
  <2> QED BY <2>1, <1>2
<1> QED BY <1>2, <1>3

\* A family of subsets of a finite set that has no smallest member is empty.
LEMMA SmallestSet ==
  ASSUME NEW S, IsFiniteSet(S), NEW F \in SUBSET (SUBSET S), F # {}
  PROVE  \E U \in F : \A V \in F : V \subseteq U => V = U
<1> DEFINE T == {Cardinality(U) : U \in F}
<1>1. ASSUME NEW U \in F PROVE IsFiniteSet(U) /\ Cardinality(U) \in Nat
  BY FS_Subset, FS_CardinalityType
<1>2. T \in SUBSET Nat /\ T # {}
  BY <1>1
<1>3. PICK n \in T : \A m \in T : ~(m < n)
  BY <1>2, LeastNatural
<1>4. PICK U \in F : Cardinality(U) = n
  BY <1>3
<1>5. ASSUME NEW V \in F, V \subseteq U, V # U PROVE FALSE
  <2>1. Cardinality(V) < Cardinality(U)
    BY <1>1, <1>5, FS_Subset
  <2> QED BY <2>1, <1>3, <1>4
<1> QED BY <1>4, <1>5

\* What holds of the empty set, and of a set if it does without one of its
\* elements, holds of every finite set.
LEMMA SetInduction ==
  ASSUME NEW S, IsFiniteSet(S), NEW T,
         {} \in T,
         \A U \in SUBSET S : U # {} /\ (\A x \in U : U \ {x} \in T) => U \in T
  PROVE  \A U \in SUBSET S : U \in T
<1> DEFINE F == {U \in SUBSET S : U \notin T}
<1> SUFFICES ASSUME F # {} PROVE FALSE
  OBVIOUS
<1>1. PICK U \in F : \A V \in F : V \subseteq U => V = U
  <2>1. F \in SUBSET (SUBSET S)
    OBVIOUS
  <2> HIDE DEF F
  <2> QED BY <2>1, SmallestSet
<1>2. \A x \in U : U \ {x} \in T
  BY <1>1
<1> QED BY <1>1, <1>2

\* In particular it holds of the whole set.
LEMMA WholeSet ==
  ASSUME NEW S, IsFiniteSet(S), NEW T,
         {} \in T,
         \A U \in SUBSET S : U # {} /\ (\A x \in U : U \ {x} \in T) => U \in T
  PROVE  S \in T
<1>1. S \in SUBSET S
  OBVIOUS
<1> QED BY <1>1, SetInduction

-----------------------------------------------------------------------------
(* The recursive function *)

Chosen(s) == CHOOSE x \in s : TRUE

\* The function that the fold computes.
Folds(h, S, f) ==
  h = [s \in SUBSET S |-> IF s = {} THEN 0 ELSE f[Chosen(s)] + h[s \ {Chosen(s)}]]

\* A sum is the value of that function, for the whole set.
LEMMA SumIsFold ==
  ASSUME NEW S, NEW f
  PROVE  Sum(S, f) = (CHOOSE h : Folds(h, S, f))[S]
BY DEF Sum, MapThenSumSet, MapThenFoldSet, Folds, Chosen

\* Two functions that satisfy the recursion agree on the subsets of both sets.
LEMMA FoldsAgree ==
  ASSUME NEW S, IsFiniteSet(S), NEW f, NEW g, NEW h, NEW R,
         Folds(h, S, f), Folds(g, R, f), S \subseteq R
  PROVE  \A s \in SUBSET S : h[s] = g[s]
<1> DEFINE T == {s \in SUBSET S : h[s] = g[s]}
<1>1. {} \in T
  BY DEF Folds
<1>2. ASSUME NEW U \in SUBSET S, U # {}, \A x \in U : U \ {x} \in T PROVE U \in T
  <2>1. Chosen(U) \in U
    BY <1>2 DEF Chosen
  <2>2. h[U \ {Chosen(U)}] = g[U \ {Chosen(U)}]
    BY <1>2, <2>1
  <2>3. h[U] = f[Chosen(U)] + h[U \ {Chosen(U)}]
    BY <1>2 DEF Folds
  <2>4. g[U] = f[Chosen(U)] + g[U \ {Chosen(U)}]
    BY <1>2 DEF Folds
  <2> QED BY <2>2, <2>3, <2>4
<1> HIDE DEF T
<1>3. \A U \in SUBSET S : U \in T
  BY <1>1, <1>2, SetInduction
<1> QED BY <1>3 DEF T

\* The function exists, and its values are sums.
LEMMA FoldsExist ==
  ASSUME NEW S, IsFiniteSet(S), NEW f
  PROVE  Folds([s \in SUBSET S |-> Sum(s, f)], S, f)
<1> DEFINE T == {U \in SUBSET S : Folds([s \in SUBSET U |-> Sum(s, f)], U, f)}
<1>a. ASSUME NEW U \in SUBSET S, NEW k, Folds(k, U, f) PROVE Sum(U, f) = k[U]
  <2>1. Folds(CHOOSE h : Folds(h, U, f), U, f)
    BY <1>a
  <2>2. (CHOOSE h : Folds(h, U, f))[U] = k[U]
    <3> DEFINE h == CHOOSE h : Folds(h, U, f)
    <3> HIDE DEF h
    <3>1. Folds(h, U, f)
      BY <2>1 DEF h
    <3>2. IsFiniteSet(U)
      BY FS_Subset
    <3>3. \A s \in SUBSET U : h[s] = k[s]
      BY <1>a, <3>1, <3>2, FoldsAgree
    <3> QED BY <3>3 DEF h
  <2> QED BY <2>2, SumIsFold
<1>1. {} \in T
  <2> DEFINE k == [s \in SUBSET {} |-> 0]
  <2>1. Folds(k, {}, f)
    BY DEF Folds
  <2>2. Sum({}, f) = 0
    BY <1>a, <2>1
  <2>3. [s \in SUBSET {} |-> Sum(s, f)] = k
    BY <2>2
  <2> QED BY <2>1, <2>3
<1>2. ASSUME NEW U \in SUBSET S, U # {}, \A x \in U : U \ {x} \in T PROVE U \in T
  <2> DEFINE c == Chosen(U)
             k == [s \in SUBSET U |-> IF s = U THEN f[c] + Sum(U \ {c}, f) ELSE Sum(s, f)]
             l == [s \in SUBSET U |-> Sum(s, f)]
  <2>1. c \in U
    BY <1>2 DEF Chosen
  <2>2. ASSUME NEW s \in SUBSET U, s # U
        PROVE  Sum(s, f) = IF s = {} THEN 0 ELSE f[Chosen(s)] + Sum(s \ {Chosen(s)}, f)
    <3>1. PICK x \in U : x \notin s
      BY <2>2
    <3>2. Folds([r \in SUBSET (U \ {x}) |-> Sum(r, f)], U \ {x}, f)
      BY <1>2
    <3>3. s \in SUBSET (U \ {x}) /\ s \ {Chosen(s)} \in SUBSET (U \ {x})
      BY <3>1
    <3> QED BY <3>2, <3>3 DEF Folds
  <2>3. Folds(k, U, f)
    <3>1. ASSUME NEW s \in SUBSET U
          PROVE  k[s] = IF s = {} THEN 0 ELSE f[Chosen(s)] + k[s \ {Chosen(s)}]
      <4>1. CASE s = U
        <5>1. U \ {c} \in SUBSET U /\ U \ {c} # U
          BY <2>1
        <5> QED BY <4>1, <5>1, <1>2
      <4>2. CASE s # U
        <5>1. s # {} => s \ {Chosen(s)} \in SUBSET U /\ s \ {Chosen(s)} # U
          BY <4>2
        <5> QED BY <4>2, <5>1, <2>2
      <4> QED BY <4>1, <4>2
    <3> HIDE DEF k
    <3>2. k = [s \in SUBSET U |-> k[s]]
      BY DEF k
    <3> QED BY <3>1, <3>2 DEF Folds
  <2>4. Sum(U, f) = k[U]
    BY <1>a, <2>3
  <2>5. l = k
    BY <2>4
  <2> QED BY <2>3, <2>5
<1> HIDE DEF T
<1>3. S \in T
  BY <1>1, <1>2, WholeSet
<1> QED BY <1>3 DEF T

\* Nothing to add.
LEMMA SumEmpty == ASSUME NEW f PROVE Sum({}, f) = 0
BY FS_EmptySet, FoldsExist DEF Folds

\* A sum is that of an element, and that of the others.
LEMMA SumChosen ==
  ASSUME NEW S, IsFiniteSet(S), S # {}, NEW f
  PROVE  Chosen(S) \in S /\ Sum(S, f) = f[Chosen(S)] + Sum(S \ {Chosen(S)}, f)
<1>1. Folds([s \in SUBSET S |-> Sum(s, f)], S, f)
  BY FoldsExist
<1>2. Chosen(S) \in S
  BY DEF Chosen
<1> QED BY <1>1, <1>2 DEF Folds

-----------------------------------------------------------------------------
(* Sums of integers *)

\* A sum of integers is one.
LEMMA SumInt ==
  ASSUME NEW S, IsFiniteSet(S), NEW f, \A x \in S : f[x] \in Int
  PROVE  Sum(S, f) \in Int
<1> DEFINE T == {U \in SUBSET S : Sum(U, f) \in Int}
<1>1. {} \in T
  BY SumEmpty
<1>2. ASSUME NEW U \in SUBSET S, U # {}, \A x \in U : U \ {x} \in T PROVE U \in T
  <2>1. Chosen(U) \in U /\ Sum(U, f) = f[Chosen(U)] + Sum(U \ {Chosen(U)}, f)
    BY <1>2, FS_Subset, SumChosen
  <2> QED BY <1>2, <2>1
<1> HIDE DEF T
<1>3. S \in T
  BY <1>1, <1>2, WholeSet
<1> QED BY <1>3 DEF T

\* A sum of natural numbers is one.
LEMMA SumNat ==
  ASSUME NEW S, IsFiniteSet(S), NEW f, \A x \in S : f[x] \in Nat
  PROVE  Sum(S, f) \in Nat
<1> DEFINE T == {U \in SUBSET S : Sum(U, f) \in Nat}
<1>1. {} \in T
  BY SumEmpty
<1>2. ASSUME NEW U \in SUBSET S, U # {}, \A x \in U : U \ {x} \in T PROVE U \in T
  <2>1. Chosen(U) \in U /\ Sum(U, f) = f[Chosen(U)] + Sum(U \ {Chosen(U)}, f)
    BY <1>2, FS_Subset, SumChosen
  <2> QED BY <1>2, <2>1
<1> HIDE DEF T
<1>3. S \in T
  BY <1>1, <1>2, WholeSet
<1> QED BY <1>3 DEF T

\* Any element can be taken out of a sum.
LEMMA SumRemove ==
  ASSUME NEW S, IsFiniteSet(S), NEW f, \A x \in S : f[x] \in Int, NEW e \in S
  PROVE  Sum(S, f) = f[e] + Sum(S \ {e}, f)
<1> DEFINE T == {U \in SUBSET S : \A x \in U : Sum(U, f) = f[x] + Sum(U \ {x}, f)}
<1>1. {} \in T
  OBVIOUS
<1>2. ASSUME NEW U \in SUBSET S, U # {}, \A x \in U : U \ {x} \in T PROVE U \in T
  <2> DEFINE c == Chosen(U)
  <2>1. c \in U /\ Sum(U, f) = f[c] + Sum(U \ {c}, f)
    BY <1>2, FS_Subset, SumChosen
  <2> HIDE DEF c
  <2>2. ASSUME NEW x \in U, x # c PROVE Sum(U, f) = f[x] + Sum(U \ {x}, f)
    <3> HIDE DEF T
    <3>1. Sum(U \ {c}, f) = f[x] + Sum((U \ {c}) \ {x}, f)
      BY <1>2, <2>1, <2>2 DEF T
    <3>2. Sum(U \ {x}, f) = f[c] + Sum((U \ {x}) \ {c}, f)
      BY <1>2, <2>1, <2>2 DEF T
    <3>3. (U \ {c}) \ {x} = (U \ {x}) \ {c}
      OBVIOUS
    <3>4. Sum((U \ {c}) \ {x}, f) \in Int
      BY FS_Subset, SumInt
    <3>5. f[x] \in Int /\ f[c] \in Int
      BY <2>1
    <3>6. ASSUME NEW a \in Int, NEW b \in Int, NEW n \in Int PROVE a + (b + n) = b + (a + n)
      OBVIOUS
    <3>7. Sum(U, f) = f[c] + (f[x] + Sum((U \ {c}) \ {x}, f))
      BY <2>1, <3>1
    <3>8. Sum(U, f) = f[x] + (f[c] + Sum((U \ {c}) \ {x}, f))
      BY <3>4, <3>5, <3>6, <3>7
    <3> QED BY <3>2, <3>3, <3>8
  <2> QED BY <2>1, <2>2
<1> HIDE DEF T
<1>3. S \in T
  BY <1>1, <1>2, WholeSet
<1> QED BY <1>3 DEF T

\* Sums of the same values are the same.
LEMMA SumSame ==
  ASSUME NEW S, IsFiniteSet(S), NEW f, NEW g, \A x \in S : f[x] = g[x]
  PROVE  Sum(S, f) = Sum(S, g)
<1> DEFINE T == {U \in SUBSET S : Sum(U, f) = Sum(U, g)}
<1>1. {} \in T
  BY SumEmpty
<1>2. ASSUME NEW U \in SUBSET S, U # {}, \A x \in U : U \ {x} \in T PROVE U \in T
  <2>1. /\ Chosen(U) \in U
        /\ Sum(U, f) = f[Chosen(U)] + Sum(U \ {Chosen(U)}, f)
        /\ Sum(U, g) = g[Chosen(U)] + Sum(U \ {Chosen(U)}, g)
    BY <1>2, FS_Subset, SumChosen
  <2> QED BY <1>2, <2>1
<1> HIDE DEF T
<1>3. S \in T
  BY <1>1, <1>2, WholeSet
<1> QED BY <1>3 DEF T

\* Sums of smaller values are smaller.
LEMMA SumMonotone ==
  ASSUME NEW S, IsFiniteSet(S), NEW f, NEW g,
         \A x \in S : f[x] \in Int /\ g[x] \in Int /\ f[x] <= g[x]
  PROVE  Sum(S, f) <= Sum(S, g)
<1> DEFINE T == {U \in SUBSET S : Sum(U, f) <= Sum(U, g)}
<1>1. {} \in T
  BY SumEmpty
<1>2. ASSUME NEW U \in SUBSET S, U # {}, \A x \in U : U \ {x} \in T PROVE U \in T
  <2>1. /\ Chosen(U) \in U
        /\ Sum(U, f) = f[Chosen(U)] + Sum(U \ {Chosen(U)}, f)
        /\ Sum(U, g) = g[Chosen(U)] + Sum(U \ {Chosen(U)}, g)
    BY <1>2, FS_Subset, SumChosen
  <2>2. Sum(U \ {Chosen(U)}, f) \in Int /\ Sum(U \ {Chosen(U)}, g) \in Int
    BY FS_Subset, SumInt
  <2> QED BY <1>2, <2>1, <2>2
<1> HIDE DEF T
<1>3. S \in T
  BY <1>1, <1>2, WholeSet
<1> QED BY <1>3 DEF T

\* The sum of sums.
LEMMA SumPlus ==
  ASSUME NEW S, IsFiniteSet(S), NEW f, NEW g, NEW h,
         \A x \in S : f[x] \in Int /\ g[x] \in Int /\ h[x] = f[x] + g[x]
  PROVE  Sum(S, h) = Sum(S, f) + Sum(S, g)
<1> DEFINE T == {U \in SUBSET S : Sum(U, h) = Sum(U, f) + Sum(U, g)}
<1>1. {} \in T
  BY SumEmpty
<1>2. ASSUME NEW U \in SUBSET S, U # {}, \A x \in U : U \ {x} \in T PROVE U \in T
  <2>1. /\ Chosen(U) \in U
        /\ Sum(U, f) = f[Chosen(U)] + Sum(U \ {Chosen(U)}, f)
        /\ Sum(U, g) = g[Chosen(U)] + Sum(U \ {Chosen(U)}, g)
        /\ Sum(U, h) = h[Chosen(U)] + Sum(U \ {Chosen(U)}, h)
    BY <1>2, FS_Subset, SumChosen
  <2>2. Sum(U \ {Chosen(U)}, f) \in Int /\ Sum(U \ {Chosen(U)}, g) \in Int
    BY FS_Subset, SumInt
  <2> QED BY <1>2, <2>1, <2>2
<1> HIDE DEF T
<1>3. S \in T
  BY <1>1, <1>2, WholeSet
<1> QED BY <1>3 DEF T

\* A factor can be taken out of a sum.
LEMMA SumScale ==
  ASSUME NEW S, IsFiniteSet(S), NEW f, NEW g, NEW c \in Int,
         \A x \in S : f[x] \in Int /\ g[x] = c * f[x]
  PROVE  Sum(S, g) = c * Sum(S, f)
<1> DEFINE T == {U \in SUBSET S : Sum(U, g) = c * Sum(U, f)}
<1>1. {} \in T
  BY SumEmpty
<1>2. ASSUME NEW U \in SUBSET S, U # {}, \A x \in U : U \ {x} \in T PROVE U \in T
  <2> DEFINE x == Chosen(U)
             rest == Sum(U \ {x}, f)
  <2>1. /\ x \in U
        /\ Sum(U, f) = f[x] + rest
        /\ Sum(U, g) = g[x] + Sum(U \ {x}, g)
    BY <1>2, FS_Subset, SumChosen
  <2>2. rest \in Int
    BY FS_Subset, SumInt
  <2>3. Sum(U \ {x}, g) = c * rest
    BY <1>2, <2>1
  <2>4. g[x] = c * f[x] /\ f[x] \in Int
    BY <2>1
  <2> HIDE DEF rest, x
  <2>5. \A a, b \in Int : c * (a + b) = c * a + c * b
    OBVIOUS
  <2> QED BY <2>1, <2>2, <2>3, <2>4, <2>5
<1> HIDE DEF T
<1>3. S \in T
  BY <1>1, <1>2, WholeSet
<1> QED BY <1>3 DEF T

\* The same value over and over.
LEMMA SumConstant ==
  ASSUME NEW S, IsFiniteSet(S), NEW f, NEW c \in Int, \A x \in S : f[x] = c
  PROVE  Sum(S, f) = Cardinality(S) * c
<1> DEFINE T == {U \in SUBSET S : Sum(U, f) = Cardinality(U) * c}
<1>1. {} \in T
  BY SumEmpty, FS_EmptySet
<1>2. ASSUME NEW U \in SUBSET S, U # {}, \A x \in U : U \ {x} \in T PROVE U \in T
  <2> DEFINE x == Chosen(U)
             n == Cardinality(U \ {x})
  <2>1. x \in U /\ IsFiniteSet(U) /\ Sum(U, f) = f[x] + Sum(U \ {x}, f)
    BY <1>2, FS_Subset, SumChosen
  <2>2. n = Cardinality(U) - 1 /\ n \in Nat /\ Cardinality(U) \in Nat
    BY <2>1, FS_RemoveElement, FS_CardinalityType
  <2>3. Sum(U \ {x}, f) = n * c /\ f[x] = c
    BY <1>2, <2>1
  <2> HIDE DEF n, x
  <2>4. c + n * c = (n + 1) * c /\ n + 1 = Cardinality(U)
    BY <2>2
  <2> QED BY <2>1, <2>3, <2>4
<1> HIDE DEF T
<1>3. S \in T
  BY <1>1, <1>2, WholeSet
<1> QED BY <1>3 DEF T

\* One value changes.
LEMMA SumChange ==
  ASSUME NEW S, IsFiniteSet(S), NEW f, NEW g, NEW e \in S,
         \A x \in S : f[x] \in Int /\ g[x] \in Int,
         \A x \in S \ {e} : f[x] = g[x]
  PROVE  Sum(S, g) = Sum(S, f) - f[e] + g[e]
<1>1. Sum(S, f) = f[e] + Sum(S \ {e}, f) /\ Sum(S, g) = g[e] + Sum(S \ {e}, g)
  BY SumRemove
<1>2. Sum(S \ {e}, f) = Sum(S \ {e}, g)
  BY FS_Subset, SumSame
<1>3. Sum(S \ {e}, f) \in Int
  BY FS_Subset, SumInt
<1> QED BY <1>1, <1>2, <1>3

\* A sum in which one number has grown by n.
LEMMA SumGrows ==
  ASSUME NEW S, IsFiniteSet(S), NEW f, NEW g, NEW e \in S, NEW n \in Int,
         \A x \in S : f[x] \in Int,
         \A x \in S : g[x] = IF x = e THEN f[x] + n ELSE f[x]
  PROVE  /\ Sum(S, f) \in Int
         /\ Sum(S, g) = Sum(S, f) + n
<1>1. \A x \in S : f[x] \in Int /\ g[x] \in Int OBVIOUS
<1>2. \A x \in S \ {e} : f[x] = g[x] OBVIOUS
<1>3. Sum(S, g) = Sum(S, f) - f[e] + g[e] BY <1>1, <1>2, SumChange
<1>4. Sum(S, f) \in Int BY SumInt
<1> QED BY <1>3, <1>4

\* Nothing adds up to nothing.
LEMMA SumZero ==
  ASSUME NEW S, IsFiniteSet(S), NEW f, \A x \in S : f[x] = 0
  PROVE  Sum(S, f) = 0
<1> DEFINE T == {U \in SUBSET S : Sum(U, f) = 0}
<1>1. {} \in T
  BY SumEmpty
<1>2. ASSUME NEW U \in SUBSET S, U # {}, \A x \in U : U \ {x} \in T PROVE U \in T
  <2>1. Chosen(U) \in U /\ Sum(U, f) = f[Chosen(U)] + Sum(U \ {Chosen(U)}, f)
    BY <1>2, FS_Subset, SumChosen
  <2> QED BY <1>2, <2>1
<1> HIDE DEF T
<1>3. S \in T
  BY <1>1, <1>2, WholeSet
<1> QED BY <1>3 DEF T

\* A sum of natural numbers is at least each of them.
LEMMA SumBounds ==
  ASSUME NEW S, IsFiniteSet(S), NEW f, \A x \in S : f[x] \in Nat, NEW e \in S
  PROVE  f[e] <= Sum(S, f)
<1>1. Sum(S, f) = f[e] + Sum(S \ {e}, f)
  BY SumRemove
<1>2. Sum(S \ {e}, f) \in Nat
  BY FS_Subset, SumNat
<1> QED BY <1>1, <1>2

\* Sums of sums can be taken in either order.
LEMMA SumSwap ==
  ASSUME NEW S, IsFiniteSet(S), NEW R, IsFiniteSet(R), NEW F,
         \A x \in S, y \in R : F[x][y] \in Int
  PROVE  Sum(S, [x \in S |-> Sum(R, F[x])])
           = Sum(R, [y \in R |-> Sum(S, [x \in S |-> F[x][y]])])
<1> DEFINE row == [x \in S |-> Sum(R, F[x])]
           col(U) == [y \in R |-> Sum(U, [x \in S |-> F[x][y]])]
           T == {U \in SUBSET S : Sum(U, row) = Sum(R, col(U))}
<1>1. {} \in T
  <2>1. \A y \in R : col({})[y] = 0
    BY SumEmpty
  <2>2. Sum(R, col({})) = 0
    BY <2>1, SumZero
  <2> QED BY <2>2, SumEmpty
<1>2. ASSUME NEW U \in SUBSET S, U # {}, \A x \in U : U \ {x} \in T PROVE U \in T
  <2> DEFINE c == Chosen(U)
  <2>1. c \in U /\ Sum(U, row) = row[c] + Sum(U \ {c}, row)
    BY <1>2, FS_Subset, SumChosen
  <2>2. \A y \in R : col(U)[y] = F[c][y] + col(U \ {c})[y]
    <3>1. ASSUME NEW y \in R PROVE col(U)[y] = F[c][y] + col(U \ {c})[y]
      <4> DEFINE g == [x \in S |-> F[x][y]]
      <4>1. Sum(U, g) = g[c] + Sum(U \ {c}, g)
        BY <1>2, FS_Subset, SumChosen
      <4> QED BY <4>1, <2>1
    <3> QED BY <3>1
  <2>3. \A y \in R : F[c][y] \in Int /\ col(U \ {c})[y] \in Int
    <3>1. ASSUME NEW y \in R PROVE col(U \ {c})[y] \in Int
      <4> DEFINE g == [x \in S |-> F[x][y]]
      <4>1. \A x \in U \ {c} : g[x] \in Int
        OBVIOUS
      <4>2. IsFiniteSet(U \ {c})
        BY FS_Subset
      <4> HIDE DEF g
      <4>3. Sum(U \ {c}, g) \in Int
        BY <4>1, <4>2, SumInt
      <4> QED BY <4>3 DEF g
    <3> QED BY <2>1, <3>1
  <2>4. Sum(R, col(U)) = Sum(R, F[c]) + Sum(R, col(U \ {c}))
    <3> HIDE DEF col, c
    <3> QED BY <2>2, <2>3, SumPlus
  <2>5. Sum(U \ {c}, row) = Sum(R, col(U \ {c}))
    BY <1>2, <2>1
  <2>6. row[c] = Sum(R, F[c])
    BY <2>1
  <2> QED BY <2>1, <2>4, <2>5, <2>6
<1> HIDE DEF T
<1>3. S \in T
  BY <1>1, <1>2, WholeSet
<1> QED BY <1>3 DEF T

=============================================================================
