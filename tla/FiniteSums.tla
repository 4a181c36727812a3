----------------------------- MODULE FiniteSums -----------------------------
(***************************************************************************)
(* Facts about SumFunction, the sum of the values of a function with a     *)
(* finite domain, by induction over the subsets of the domain.  The proofs *)
(* about the semaphore's tokens and groupcache's byte counts use them.     *)
(***************************************************************************)
EXTENDS Integers, Functions, FiniteSetTheorems, WellFoundedInduction, TLAPS

(* Induction over the subsets of a finite set. *)
LEMMA SubsetInduction ==
  ASSUME NEW S, IsFiniteSet(S), NEW T \in SUBSET SUBSET S, {} \in T,
         \A s \in SUBSET S : s # {} /\ (\A x \in s : s \ {x} \in T) => s \in T
  PROVE  \A s \in SUBSET S : s \in T
<1> DEFINE R == {s \in Nat \X Nat : s[1] < s[2]}
           B == {n \in Nat : \E s \in SUBSET S : s \notin T /\ Cardinality(s) = n}
<1>1. IsWellFoundedOn(R, Nat)
  BY Zenon, NatLessThanWellFounded DEF OpToRel
<1>2. \A s \in SUBSET S : Cardinality(s) \in Nat
  BY FS_Subset, FS_CardinalityType
<1> SUFFICES ASSUME B # {} PROVE FALSE
  BY <1>2
<1>3. PICK n \in B : \A m \in B : ~(<<m, n>> \in R)
  <2>1. B \in SUBSET Nat
    OBVIOUS
  <2> HIDE DEF R, B
  <2> QED
    BY ZenonT(60), <1>1, <2>1, WFMin
<1>4. PICK s \in SUBSET S : s \notin T /\ Cardinality(s) = n
  BY <1>3
<1>5. ASSUME NEW x \in s PROVE s \ {x} \in T
  <2>1. s \ {x} \in SUBSET S /\ IsFiniteSet(s)
    BY FS_Subset
  <2>2. Cardinality(s \ {x}) = n - 1 /\ n \in Nat /\ Cardinality(s \ {x}) \in Nat
    BY <1>2, <1>4, <2>1, FS_RemoveElement
  <2>3. <<Cardinality(s \ {x}), n>> \in R
    BY <2>2
  <2>4. Cardinality(s \ {x}) \notin B
    BY Zenon, <1>3, <2>3
  <2> QED
    BY Zenon, <2>1, <2>2, <2>4
<1> QED
  BY Zenon, <1>4, <1>5

(* g has the sums of f over the subsets of S, each added up in some order: *)
(* c[s] is the element of s that is added last.                            *)
Sums(g, f, c, S) ==
  /\ IsFiniteSet(S)
  /\ f \in [S -> Int]
  /\ \A s \in SUBSET S : s # {} => c[s] \in s
  /\ g = [s \in SUBSET S |-> IF s = {} THEN 0 ELSE f[c[s]] + g[s \ {c[s]}]]

(* Such sums exist: they are built up by the number of elements. *)
LEMMA SumsExist ==
  ASSUME NEW S, IsFiniteSet(S), NEW f \in [S -> Int], NEW c,
         \A s \in SUBSET S : s # {} => c[s] \in s
  PROVE  \E g : Sums(g, f, c, S)
<1> DEFINE val(g, s) == IF s = {} THEN 0 ELSE f[c[s]] + g[s \ {c[s]}]
           upto(g, n) == /\ g \in [SUBSET S -> Int]
                         /\ \A s \in SUBSET S : Cardinality(s) <= n => g[s] = val(g, s)
           N == {n \in Nat : \E g : upto(g, n)}
           R == {s \in Nat \X Nat : s[1] < s[2]}
           B == Nat \ N
<1>1. \A s \in SUBSET S : IsFiniteSet(s) /\ Cardinality(s) \in Nat
  BY FS_Subset, FS_CardinalityType
<1>2. 0 \in N
  <2> DEFINE g == [s \in SUBSET S |-> 0]
  <2>1. \A s \in SUBSET S : Cardinality(s) <= 0 => s = {}
    BY <1>1, FS_EmptySet
  <2>2. upto(g, 0)
    BY <2>1
  <2> QED
    BY Zenon, <2>2
<1>3. ASSUME NEW n \in N PROVE n + 1 \in N
  <2>1. PICK g : upto(g, n)
    BY Zenon
  <2> DEFINE h == [s \in SUBSET S |-> val(g, s)]
  <2>2. n \in Nat
    OBVIOUS
  <2>3. ASSUME NEW s \in SUBSET S, s # {}
        PROVE  /\ f[c[s]] \in Int /\ s \ {c[s]} \in SUBSET S
               /\ Cardinality(s \ {c[s]}) = Cardinality(s) - 1
    BY <1>1, <2>3, FS_RemoveElement
  <2>4. h \in [SUBSET S -> Int]
    BY <2>1, <2>3
  <2>5. \A s \in SUBSET S : Cardinality(s) <= n => h[s] = g[s]
    BY <2>1
  <2>6. ASSUME NEW s \in SUBSET S, Cardinality(s) <= n + 1 PROVE h[s] = val(h, s)
    <3>1. CASE s = {}
      BY <3>1
    <3>2. CASE s # {}
      <4>1. Cardinality(s \ {c[s]}) <= n
        BY <1>1, <2>2, <2>3, <2>6, <3>2
      <4>2. h[s \ {c[s]}] = g[s \ {c[s]}]
        BY Zenon, <2>3, <2>5, <3>2, <4>1
      <4> QED
        BY <3>2, <4>2
    <3> QED
      BY <3>1, <3>2
  <2>7. upto(h, n + 1)
    BY Zenon, <2>4, <2>6
  <2> HIDE DEF upto
  <2> QED
    BY <2>2, <2>7
<1>4. Nat \subseteq N
  <2> SUFFICES ASSUME B # {} PROVE FALSE
    BY Zenon
  <2>1. IsWellFoundedOn(R, Nat)
    BY Zenon, NatLessThanWellFounded DEF OpToRel
  <2>2. PICK n \in B : \A m \in B : ~(<<m, n>> \in R)
    <3>1. B \in SUBSET Nat
      OBVIOUS
    <3> HIDE DEF R, B
    <3> QED
      BY Zenon, <2>1, <3>1, WFMin
  <2> HIDE DEF N
  <2>3. n \in Nat /\ n # 0 /\ n \notin N
    BY <1>2
  <2>4. n - 1 \in Nat /\ n - 1 < n /\ (n - 1) + 1 = n
    BY <2>3
  <2>5. n - 1 \notin N
    BY <1>3, <2>3, <2>4
  <2> QED
    BY Zenon, <2>2, <2>3, <2>4, <2>5
<1>5. PICK g : upto(g, Cardinality(S))
  BY Zenon, <1>1, <1>4
<1>6. \A s \in SUBSET S : g[s] = val(g, s)
  BY <1>5, FS_Subset
<1>7. g = [s \in SUBSET S |-> val(g, s)]
  BY Zenon, <1>5, <1>6
<1> QED
  BY Zenon, <1>7 DEF Sums

(* The order does not matter. *)
LEMMA SumsOrder ==
  ASSUME NEW S, NEW f, NEW c, NEW g, Sums(g, f, c, S)
  PROVE  /\ g[{}] = 0
         /\ \A s \in SUBSET S : g[s] \in Int /\ \A x \in s : g[s] = f[x] + g[s \ {x}]
<1> DEFINE T == {s \in SUBSET S : g[s] \in Int /\ \A x \in s : g[s] = f[x] + g[s \ {x}]}
<1>1. \A s \in SUBSET S : g[s] = IF s = {} THEN 0 ELSE f[c[s]] + g[s \ {c[s]}]
  BY Zenon DEF Sums
<1>2. IsFiniteSet(S) /\ f \in [S -> Int] /\ \A s \in SUBSET S : s # {} => c[s] \in s
  BY DEF Sums
<1>3. {} \in T /\ g[{}] = 0
  BY <1>1
<1>4. \A s \in SUBSET S : g[s] \in Int
  <2> DEFINE U == {s \in SUBSET S : g[s] \in Int}
  <2>1. {} \in U
    BY <1>3
  <2>2. ASSUME NEW s \in SUBSET S, s # {}, \A x \in s : s \ {x} \in U PROVE s \in U
    <3>1. c[s] \in s /\ f[c[s]] \in Int /\ g[s \ {c[s]}] \in Int
      BY <1>2, <2>2
    <3>2. g[s] = f[c[s]] + g[s \ {c[s]}]
      BY <1>1, <2>2
    <3>3. g[s] \in Int
      BY <3>1, <3>2
    <3> QED
      BY <3>3
  <2>3. U \in SUBSET SUBSET S
    OBVIOUS
  <2> HIDE DEF U
  <2>4. \A s \in SUBSET S : s \in U
    BY Zenon, <1>2, <2>1, <2>2, <2>3, SubsetInduction
  <2> QED
    BY <2>4 DEF U
<1>5. ASSUME NEW s \in SUBSET S, s # {}, \A x \in s : s \ {x} \in T PROVE s \in T
  <2> DEFINE y == c[s]
  <2>1. y \in s /\ s \ {y} \in T /\ f[y] \in Int
    BY Zenon, <1>2, <1>5
  <2>2. g[s] = f[y] + g[s \ {y}] /\ g[s \ {y}] \in Int
    BY <1>1, <1>5, <2>1
  <2> HIDE DEF y
  <2>3. ASSUME NEW x \in s, x # y PROVE g[s] = f[x] + g[s \ {x}]
    <3>1. x \in s \ {y} /\ y \in s \ {x} /\ s \ {x} \in T /\ f[x] \in Int
      BY Zenon, <1>2, <1>5, <2>1, <2>3
    <3>2. g[s \ {y}] = f[x] + g[(s \ {y}) \ {x}]
      BY Zenon, <2>1, <3>1
    <3>3. g[s \ {x}] = f[y] + g[(s \ {x}) \ {y}]
      BY Zenon, <3>1
    <3>4. (s \ {y}) \ {x} = (s \ {x}) \ {y}
      OBVIOUS
    <3>5. (s \ {x}) \ {y} \in SUBSET S
      OBVIOUS
    <3> DEFINE a == f[x]
               b == f[y]
               d == g[(s \ {x}) \ {y}]
    <3>6. a \in Int /\ b \in Int /\ d \in Int
      BY <1>4, <2>1, <3>1, <3>5
    <3>7. g[s] = b + (a + d) /\ g[s \ {x}] = b + d
      BY <2>2, <3>2, <3>3, <3>4
    <3> HIDE DEF a, b, d
    <3>8. g[s] = a + g[s \ {x}]
      BY <3>6, <3>7
    <3> QED
      BY <3>8 DEF a
  <2>4. g[s] \in Int
    BY <2>1, <2>2
  <2>5. \A x \in s : g[s] = f[x] + g[s \ {x}]
    BY Zenon, <2>2, <2>3
  <2> QED
    BY <2>4, <2>5
<1> HIDE DEF T
<1>6. T \in SUBSET SUBSET S
  BY DEF T
<1>7. \A s \in SUBSET S : s \in T
  BY Zenon, <1>2, <1>3, <1>5, <1>6, SubsetInduction
<1> QED
  BY <1>3, <1>7 DEF T

(* Sums of functions that agree on a set agree there, whatever else is in *)
(* their domains.                                                         *)
LEMMA SumsAgree ==
  ASSUME NEW S, NEW f, NEW c, NEW g, Sums(g, f, c, S),
         NEW S2, NEW f2, NEW c2, NEW g2, Sums(g2, f2, c2, S2),
         NEW s0 \in SUBSET S, s0 \in SUBSET S2, \A x \in s0 : f[x] = f2[x]
  PROVE  g[s0] = g2[s0]
<1> DEFINE T == {s \in SUBSET S : s \subseteq s0 => g[s] = g2[s]}
<1>0. /\ g[{}] = 0 /\ \A s \in SUBSET S : \A x \in s : g[s] = f[x] + g[s \ {x}]
      /\ g2[{}] = 0 /\ \A s \in SUBSET S2 : \A x \in s : g2[s] = f2[x] + g2[s \ {x}]
  <2>1. /\ g[{}] = 0
        /\ \A s \in SUBSET S : g[s] \in Int /\ \A x \in s : g[s] = f[x] + g[s \ {x}]
    BY SMT, SumsOrder
  <2>2. /\ g2[{}] = 0
        /\ \A s \in SUBSET S2 : g2[s] \in Int /\ \A x \in s : g2[s] = f2[x] + g2[s \ {x}]
    BY SMT, SumsOrder
  <2> QED
    BY <2>1, <2>2
<1>1. {} \in T
  BY <1>0
<1>2. ASSUME NEW s \in SUBSET S, s # {}, \A x \in s : s \ {x} \in T PROVE s \in T
  <2> SUFFICES ASSUME s \subseteq s0 PROVE g[s] = g2[s]
    OBVIOUS
  <2>1. PICK x : x \in s
    BY <1>2
  <2>2. g[s] = f[x] + g[s \ {x}] /\ g2[s] = f2[x] + g2[s \ {x}]
    BY Zenon, <1>0, <2>1
  <2>3. f[x] = f2[x] /\ g[s \ {x}] = g2[s \ {x}]
    BY <1>2, <2>1
  <2> QED
    BY <2>2, <2>3
<1>3. T \in SUBSET SUBSET S /\ IsFiniteSet(S)
  BY DEF Sums
<1> HIDE DEF T
<1>4. \A s \in SUBSET S : s \in T
  BY Zenon, <1>1, <1>2, <1>3, SubsetInduction
<1> QED
  BY <1>4 DEF T

(* SumFunction is such a sum. *)
LEMMA SumFunctionSums ==
  ASSUME NEW S, IsFiniteSet(S), NEW f \in [S -> Int]
  PROVE  \E c, g : Sums(g, f, c, S) /\ SumFunction(f) = g[S]
<1> DEFINE ch(s) == CHOOSE x \in s : TRUE
           c == [s \in SUBSET S |-> ch(s)]
           P(g) == g = [s \in SUBSET S |-> IF s = {} THEN 0 ELSE f[ch(s)] + g[s \ {ch(s)}]]
           h == CHOOSE g : P(g)
<1>1. \A s \in SUBSET S : s # {} => ch(s) \in s
  OBVIOUS
<1>2. SumFunction(f) = h[S]
  <2>1. DOMAIN f = S
    OBVIOUS
  <2> QED
    BY Zenon, <2>1 DEF SumFunction, SumFunctionOnSet, FoldFunctionOnSet, MapThenFoldSet
<1> HIDE DEF ch
<1>3. \A s \in SUBSET S : c[s] = ch(s)
  OBVIOUS
<1>4. \A s \in SUBSET S : s # {} => c[s] \in s
  BY <1>1
<1> HIDE DEF c
<1>5. ASSUME NEW g PROVE Sums(g, f, c, S) <=> P(g)
  <2>1. [s \in SUBSET S |-> IF s = {} THEN 0 ELSE f[c[s]] + g[s \ {c[s]}]]
          = [s \in SUBSET S |-> IF s = {} THEN 0 ELSE f[ch(s)] + g[s \ {ch(s)}]]
    BY Zenon, <1>3
  <2> QED
    BY Zenon, <1>4, <2>1 DEF Sums
<1> HIDE DEF P
<1>6. \E g : P(g)
  <2>1. \E g : Sums(g, f, c, S)
    BY <1>4, SumsExist
  <2> QED
    BY <1>5, <2>1
<1>7. P(h)
  BY Zenon, <1>6
<1> QED
  BY Zenon, <1>2, <1>5, <1>7

(* A change of one summand changes the sum by as much. *)
LEMMA SumChange ==
  ASSUME NEW S, IsFiniteSet(S), NEW f \in [S -> Int], NEW f2 \in [S -> Int],
         NEW x \in S, \A y \in S \ {x} : f2[y] = f[y]
  PROVE  /\ SumFunction(f) \in Int
         /\ SumFunction(f2) = SumFunction(f) + (f2[x] - f[x])
<1>1. PICK c, g : Sums(g, f, c, S) /\ SumFunction(f) = g[S]
  BY SumFunctionSums
<1>2. PICK c2, g2 : Sums(g2, f2, c2, S) /\ SumFunction(f2) = g2[S]
  BY SumFunctionSums
<1>3. g[S \ {x}] = g2[S \ {x}]
  BY <1>1, <1>2, SumsAgree
<1>4. /\ g[S] = f[x] + g[S \ {x}] /\ g[S] \in Int
      /\ g2[S] = f2[x] + g2[S \ {x}]
      /\ g[S \ {x}] \in Int
  BY <1>1, <1>2, SumsOrder
<1>5. f[x] \in Int /\ f2[x] \in Int
  OBVIOUS
<1> QED
  BY <1>1, <1>2, <1>3, <1>4, <1>5

(* One more summand. *)
LEMMA SumExtend ==
  ASSUME NEW S, IsFiniteSet(S), NEW f \in [S -> Int], NEW x, x \notin S,
         NEW f2 \in [S \cup {x} -> Int], \A y \in S : f2[y] = f[y]
  PROVE  /\ SumFunction(f) \in Int
         /\ SumFunction(f2) = SumFunction(f) + f2[x]
<1> DEFINE S2 == S \cup {x}
<1>0. IsFiniteSet(S2) /\ S2 \ {x} = S /\ x \in S2
  BY FS_AddElement
<1> HIDE DEF S2
<1>1. PICK c, g : Sums(g, f, c, S) /\ SumFunction(f) = g[S]
  BY SumFunctionSums
<1>2. f2 \in [S2 -> Int]
  BY DEF S2
<1>3. PICK c2, g2 : Sums(g2, f2, c2, S2) /\ SumFunction(f2) = g2[S2]
  BY <1>0, <1>2, SumFunctionSums
<1>4. S \in SUBSET S /\ S \in SUBSET S2
  BY <1>0
<1>5. g[S] = g2[S]
  BY <1>1, <1>3, <1>4, SumsAgree
<1>6. g[S] \in Int
  BY <1>1, <1>4, SumsOrder
<1>7. S2 \in SUBSET S2
  OBVIOUS
<1>8. g2[S2] = f2[x] + g2[S]
  <2>1. g2[S2] = f2[x] + g2[S2 \ {x}]
    BY <1>0, <1>3, <1>7, SumsOrder
  <2> QED
    BY Zenon, <1>0, <2>1
<1>9. f2[x] \in Int
  BY <1>0, <1>2
<1> QED
  BY <1>1, <1>3, <1>5, <1>6, <1>8, <1>9

(* One summand less. *)
LEMMA SumRemove ==
  ASSUME NEW S, IsFiniteSet(S), NEW f \in [S -> Int], NEW x \in S,
         NEW S2, S2 = S \ {x}, NEW f2 \in [S2 -> Int], \A y \in S2 : f2[y] = f[y]
  PROVE  SumFunction(f2) = SumFunction(f) - f[x]
<1>0. IsFiniteSet(S2) /\ S2 \in SUBSET S /\ S2 \in SUBSET S2 /\ S \in SUBSET S
  BY FS_RemoveElement
<1>1. PICK c, g : Sums(g, f, c, S) /\ SumFunction(f) = g[S]
  BY SumFunctionSums
<1>2. PICK c2, g2 : Sums(g2, f2, c2, S2) /\ SumFunction(f2) = g2[S2]
  BY <1>0, SumFunctionSums
<1>3. g[S2] = g2[S2]
  <2>1. \A y \in S2 : f[y] = f2[y]
    OBVIOUS
  <2> QED
    BY <1>0, <1>1, <1>2, <2>1, SumsAgree
<1>4. g[S] = f[x] + g[S \ {x}] /\ g[S \ {x}] \in Int
  <2>1. Sums(g, f, c, S)
    BY <1>1
  <2>2. \A s \in SUBSET S : g[s] \in Int /\ \A y \in s : g[s] = f[y] + g[s \ {y}]
    BY ONLY <2>1, SumsOrder
  <2>3. S \ {x} \in SUBSET S
    OBVIOUS
  <2> QED
    BY Zenon, <1>0, <2>2, <2>3
<1>5. g[S] = f[x] + g[S2] /\ g[S2] \in Int
  BY <1>4
<1>6. f[x] \in Int
  OBVIOUS
<1> QED
  BY <1>1, <1>2, <1>3, <1>5, <1>6

(* The sums of nothing, and of zeros. *)
LEMMA SumEmpty ==
  ASSUME NEW f, DOMAIN f = {}, f = [x \in {} |-> f[x]]
  PROVE  SumFunction(f) = 0
<1>1. IsFiniteSet({}) /\ f \in [{} -> Int]
  BY FS_EmptySet
<1>2. PICK c, g : Sums(g, f, c, {}) /\ SumFunction(f) = g[{}]
  BY Zenon, <1>1, SumFunctionSums
<1> QED
  BY <1>2, SumsOrder

(* A sum of natural numbers. *)
LEMMA SumNat ==
  ASSUME NEW S, IsFiniteSet(S), NEW f \in [S -> Nat]
  PROVE  SumFunction(f) \in Nat
<1>0. f \in [S -> Int]
  OBVIOUS
<1>1. PICK c, g : Sums(g, f, c, S) /\ SumFunction(f) = g[S]
  BY <1>0, SumFunctionSums
<1> DEFINE T == {s \in SUBSET S : g[s] \in Nat}
<1>2. g[{}] = 0 /\ \A s \in SUBSET S : \A x \in s : g[s] = f[x] + g[s \ {x}]
  BY <1>1, SumsOrder
<1>3. ASSUME NEW s \in SUBSET S, s # {}, \A x \in s : s \ {x} \in T PROVE s \in T
  <2>1. PICK x : x \in s
    BY <1>3
  <2>2. g[s] = f[x] + g[s \ {x}]
    BY Zenon, <1>2, <2>1
  <2>3. f[x] \in Nat /\ g[s \ {x}] \in Nat
    BY <1>3, <2>1
  <2>4. g[s] \in Nat
    BY <2>2, <2>3
  <2> QED
    BY <2>4
<1>4. T \in SUBSET SUBSET S /\ {} \in T
  BY <1>2
<1> HIDE DEF T
<1>5. \A s \in SUBSET S : s \in T
  BY SMTT(30), <1>3, <1>4, SubsetInduction
<1> QED
  BY <1>1, <1>5 DEF T

LEMMA SumZero ==
  ASSUME NEW S, IsFiniteSet(S)
  PROVE  SumFunction([x \in S |-> 0]) = 0
<1> DEFINE f == [x \in S |-> 0]
<1>1. PICK c, g : Sums(g, f, c, S) /\ SumFunction(f) = g[S]
  BY SumFunctionSums
<1> DEFINE T == {s \in SUBSET S : g[s] = 0}
<1>2. g[{}] = 0 /\ \A s \in SUBSET S : \A x \in s : g[s] = f[x] + g[s \ {x}]
  BY <1>1, SumsOrder
<1>3. ASSUME NEW s \in SUBSET S, s # {}, \A x \in s : s \ {x} \in T PROVE s \in T
  <2>1. PICK x : x \in s
    BY <1>3
  <2>2. g[s] = f[x] + g[s \ {x}]
    BY Zenon, <1>2, <2>1
  <2>3. f[x] = 0 /\ g[s \ {x}] = 0
    BY <1>3, <2>1
  <2> QED
    BY <2>2, <2>3
<1>4. T \in SUBSET SUBSET S /\ {} \in T
  BY <1>2
<1> HIDE DEF T
<1>5. \A s \in SUBSET S : s \in T
  BY Zenon, <1>3, <1>4, SubsetInduction
<1> QED
  BY <1>1, <1>5 DEF T
=============================================================================
