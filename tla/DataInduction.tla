--------------------------- MODULE DataInduction ---------------------------
(***************************************************************************)
(* Induction over numbers and over finite sets, as facts about sets and    *)
(* functions: what a proof by induction shows is a set that holds 0 and    *)
(* with n also n + 1.  From these, what the folds of the community modules *)
(* compute: a fold is the value of a function that is defined by recursion *)
(* over the subsets of a set, and that there is such a function has to be  *)
(* proved.                                                                 *)
(***************************************************************************)
EXTENDS Integers, FiniteSets, Functions, FiniteSetTheorems, WellFoundedInduction, TLAPS

\* A nonempty set of natural numbers has a least element.
LEMMA LeastElement ==
  ASSUME NEW T, T \subseteq Nat, T # {}
  PROVE  \E least \in T : \A n \in T : least <= n
<1> DEFINE Less == {p \in Nat \X Nat : p[1] < p[2]}
<1>1. IsWellFoundedOn(Less, Nat)
  BY NatLessThanWellFounded DEF OpToRel
<1>2. PICK least \in T : \A n \in T : ~ (<<n, least>> \in Less)
  BY <1>1, WFMin
<1>3. \A n \in T : ~(n < least)
  BY <1>2
<1>4. QED
  BY <1>2, <1>3

\* A set with 0, and with the successor of each of its numbers, has every number.
LEMMA InductionOnNat ==
  ASSUME NEW T, 0 \in T, \A n \in Nat : n \in T => n + 1 \in T
  PROVE  \A n \in Nat : n \in T
<1>1. SUFFICES ASSUME NEW m \in Nat, m \notin T PROVE FALSE
  OBVIOUS
<1>2. PICK least \in Nat \ T : \A n \in Nat \ T : least <= n
  BY <1>1, LeastElement
<1>3. least # 0 /\ least - 1 \in Nat /\ ~(least <= least - 1)
  BY <1>2
<1>4. least - 1 \in T /\ least = (least - 1) + 1
  BY <1>2, <1>3
<1>5. QED
  BY <1>2, <1>3, <1>4

\* A set of subsets of S that has {}, and each nonempty subset whose rest it has, has all.
LEMMA InductionOnSubsets ==
  ASSUME NEW S, IsFiniteSet(S), NEW pick,
         \A s \in SUBSET S : s # {} => pick[s] \in s,
         NEW T, {} \in T,
         \A s \in SUBSET S : s # {} /\ s \ {pick[s]} \in T => s \in T
  PROVE  \A s \in SUBSET S : s \in T
<1> DEFINE N == {n \in Nat : \A s \in SUBSET S : Cardinality(s) = n => s \in T}
<1>1. \A s \in SUBSET S : IsFiniteSet(s) /\ Cardinality(s) \in Nat
  BY FS_Subset, FS_CardinalityType
<1>2. 0 \in N
  BY <1>1, FS_EmptySet
<1>3. ASSUME NEW n \in Nat, n \in N PROVE n + 1 \in N
  <2>1. SUFFICES ASSUME NEW s \in SUBSET S, Cardinality(s) = n + 1 PROVE s \in T
    OBVIOUS
  <2>2. s # {}
    BY <2>1, FS_EmptySet
  <2>3. Cardinality(s \ {pick[s]}) = Cardinality(s) - 1
    BY <1>1, <2>2, FS_RemoveElement
  <2>4. s \ {pick[s]} \in T
    BY <1>3, <2>1, <2>3
  <2>5. QED
    BY <2>2, <2>4
<1>4. \A n \in Nat : n \in N
  <2> HIDE DEF N
  <2>1. QED
    BY <1>2, <1>3, InductionOnNat
<1>5. QED
  BY <1>1, <1>4

\* g takes the elements of every subset of S in the order of pick, from base.
IsFold(g, S, V, base, pick, op) ==
  /\ g \in [SUBSET S -> V]
  /\ \A s \in SUBSET S : g[s] = IF s = {} THEN base ELSE op[pick[s]][g[s \ {pick[s]}]]

\* There is such a function.
LEMMA FoldExists ==
  ASSUME NEW S, IsFiniteSet(S), NEW V, NEW base \in V, NEW pick,
         \A s \in SUBSET S : s # {} => pick[s] \in s,
         NEW op, \A x \in S : \A v \in V : op[x][v] \in V
  PROVE  \E g : IsFold(g, S, V, base, pick, op)
<1> DEFINE Small(n) == {s \in SUBSET S : Cardinality(s) <= n}
           Body(g, s) == IF s = {} THEN base ELSE op[pick[s]][g[s \ {pick[s]}]]
           Good(n) == \E g \in [Small(n) -> V] : \A s \in Small(n) : g[s] = Body(g, s)
           T == {n \in Nat : Good(n)}
<1>0. \A s \in SUBSET S : IsFiniteSet(s) /\ Cardinality(s) \in Nat
  BY FS_Subset, FS_CardinalityType
<1>1. 0 \in T
  <2>1. \A s \in Small(0) : s = {}
    BY <1>0, FS_EmptySet
  <2>2. \A s \in Small(0) : [x \in Small(0) |-> base][s] = Body([x \in Small(0) |-> base], s)
    BY <2>1
  <2>3. [s \in Small(0) |-> base] \in [Small(0) -> V]
    OBVIOUS
  <2>4. QED
    BY <2>2, <2>3
<1>2. ASSUME NEW n \in Nat, n \in T PROVE n + 1 \in T
  <2>1. PICK g \in [Small(n) -> V] : \A s \in Small(n) : g[s] = Body(g, s)
    BY <1>2
  <2> DEFINE h == [s \in Small(n + 1) |-> Body(g, s)]
  <2>2. \A s \in Small(n + 1) : s # {} => pick[s] \in s /\ s \ {pick[s]} \in Small(n)
    <3>1. TAKE s \in Small(n + 1)
    <3>2. HAVE s # {}
    <3>3. pick[s] \in s
      BY <3>2
    <3>4. Cardinality(s \ {pick[s]}) = Cardinality(s) - 1
      BY <3>3, <1>0, FS_RemoveElement
    <3>5. QED
      BY <3>3, <3>4, <1>0
  <2>3. Small(n) \subseteq Small(n + 1)
    BY <1>0
  <2>4. \A s \in Small(n) : h[s] = g[s]
    BY <2>1, <2>3
  <2>5. ASSUME NEW s \in Small(n + 1) PROVE h[s] = Body(h, s) /\ h[s] \in V
    <3>1. CASE s = {}
      BY <3>1
    <3>2. CASE s # {}
      <4>1. pick[s] \in S /\ s \ {pick[s]} \in Small(n)
        BY <2>2, <3>2
      <4>2. h[s \ {pick[s]}] = g[s \ {pick[s]}] /\ g[s \ {pick[s]}] \in V
        BY <4>1, <2>4, <2>1
      <4>3. QED
        BY <4>1, <4>2, <3>2
    <3>3. QED
      BY <3>1, <3>2
  <2>6. h \in [Small(n + 1) -> V]
    BY <2>5
  <2>7. Good(n + 1)
    <3> HIDE DEF h, Small, Body
    <3>1. QED
      BY <2>5, <2>6
  <2> HIDE DEF Good
  <2>8. QED
    BY <2>7
<1>3. Cardinality(S) \in T
  <2> HIDE DEF T
  <2>1. QED
    BY <1>0, <1>1, <1>2, InductionOnNat
<1>4. \A s \in SUBSET S : Cardinality(s) <= Cardinality(S)
  BY FS_Subset
<1>5. Small(Cardinality(S)) = SUBSET S
  BY <1>4
<1>6. Good(Cardinality(S))
  BY <1>3
<1>7. QED
  BY <1>5, <1>6 DEF IsFold

\* A finite nonempty set of integers has a greatest element.
LEMMA GreatestElement ==
  ASSUME NEW S, IsFiniteSet(S), S \subseteq Int, S # {}
  PROVE  \E greatest \in S : \A n \in S : greatest >= n
<1> DEFINE pick == [s \in SUBSET S |-> CHOOSE x \in s : TRUE]
           T == {s \in SUBSET S : s # {} => \E greatest \in s : \A n \in s : greatest >= n}
<1>1. \A s \in SUBSET S : s # {} => pick[s] \in s
  OBVIOUS
<1>2. {} \in T
  OBVIOUS
<1>3. ASSUME NEW s \in SUBSET S, s # {}, s \ {pick[s]} \in T PROVE s \in T
  <2>1. pick[s] \in s /\ s \subseteq Int
    BY <1>1, <1>3
  <2>2. CASE s \ {pick[s]} = {}
    <3>1. s = {pick[s]} /\ pick[s] \in Int
      BY <2>1, <2>2
    <3>2. \A n \in s : pick[s] >= n
      <4> HIDE DEF pick
      <4>1. QED
        BY <3>1
    <3>3. QED
      BY <2>1, <3>2
  <2>3. CASE s \ {pick[s]} # {}
    <3>1. PICK m \in s \ {pick[s]} : \A n \in s \ {pick[s]} : m >= n
      BY <1>3, <2>3
    <3>2. CASE m >= pick[s]
      BY <2>1, <3>1, <3>2
    <3>3. CASE ~(m >= pick[s])
      <4>1. \A n \in s : pick[s] >= n
        BY <2>1, <3>1, <3>3
      <4>2. QED
        BY <2>1, <4>1
    <3>4. QED
      BY <3>2, <3>3
  <2>4. QED
    BY <2>2, <2>3
<1>4. S \in T
  <2> HIDE DEF T, pick
  <2>1. QED
    BY <1>1, <1>2, <1>3, InductionOnSubsets
<1>5. QED
  BY <1>4

-----------------------------------------------------------------------------
(* Sums of the values of a function over a finite set. *)

\* How the folds choose from a set.
Any(S) == [s \in SUBSET S |-> CHOOSE x \in s : TRUE]

LEMMA AnyIsAny == ASSUME NEW S PROVE \A s \in SUBSET S : s # {} => Any(S)[s] \in s
BY DEF Any

\* The step of a sum, as a function.
Adding(f, S) == [x \in S |-> [v \in Int |-> f[x] + v]]

\* What the definition of a sum picks by CHOOSE is the only function there is.
LEMMA SumIsFold ==
  ASSUME NEW S, IsFiniteSet(S), NEW f, \A x \in S : f[x] \in Int,
         NEW g, IsFold(g, S, Int, 0, Any(S), Adding(f, S))
  PROVE  SumFunctionOnSet(f, S) = g[S]
<1> DEFINE Body(it) == [s \in SUBSET S |-> IF s = {} THEN 0
                          ELSE f[CHOOSE x \in s : TRUE] + it[s \ {CHOOSE x \in s : TRUE}]]
           iter == CHOOSE it : it = Body(it)
<1>1. SumFunctionOnSet(f, S) = iter[S]
  BY DEF SumFunctionOnSet, FoldFunctionOnSet, MapThenFoldSet
<1>2. g = Body(g)
  <2>1. g \in [SUBSET S -> Int]
    BY DEF IsFold
  <2>2. \A s \in SUBSET S : g[s] = Body(g)[s]
    BY DEF IsFold, Adding, Any
  <2>3. QED
    BY <2>1, <2>2
<1>3. iter = Body(iter)
  <2> HIDE DEF Body
  <2>1. QED
    BY <1>2
<1>4. iter = g
  <2> DEFINE T == {s \in SUBSET S : iter[s] = g[s]}
  <2>1. \A s \in SUBSET S : s # {} => Any(S)[s] \in s
    BY AnyIsAny
  <2>2. {} \in T
    <3> HIDE DEF iter
    <3>1. QED
      BY <1>2, <1>3
  <2>3. ASSUME NEW s \in SUBSET S, s # {}, s \ {Any(S)[s]} \in T PROVE s \in T
    <3> HIDE DEF iter
    <3>1. iter[s] = f[Any(S)[s]] + iter[s \ {Any(S)[s]}]
      BY <1>3, <2>3 DEF Any
    <3>2. g[s] = f[Any(S)[s]] + g[s \ {Any(S)[s]}]
      BY <1>2, <2>3 DEF Any
    <3>3. QED
      BY <3>1, <3>2, <2>3
  <2>4. \A s \in SUBSET S : s \in T
    <3> DEFINE pick == Any(S)
    <3> HIDE DEF T
    <3>1. /\ \A s \in SUBSET S : s # {} => pick[s] \in s
          /\ \A s \in SUBSET S : s # {} /\ s \ {pick[s]} \in T => s \in T
      BY <2>1, <2>3
    <3> HIDE DEF pick
    <3>2. QED
      BY <2>2, <3>1, InductionOnSubsets
  <2>5. QED
    <3> HIDE DEF iter
    <3>1. QED
      BY <1>2, <1>3, <2>4
<1>5. QED
  <2> HIDE DEF iter
  <2>1. QED
    BY <1>1, <1>4

\* The sum over a set of integers: one term and the rest.
LEMMA SumOfRest ==
  ASSUME NEW S, IsFiniteSet(S), NEW f, \A x \in S : f[x] \in Int
  PROVE  /\ SumFunctionOnSet(f, S) \in Int
         /\ SumFunctionOnSet(f, S) =
              IF S = {} THEN 0
              ELSE f[Any(S)[S]] + SumFunctionOnSet(f, S \ {Any(S)[S]})
<1> DEFINE op == Adding(f, S)
           pick == Any(S)
<1>1. /\ \A s \in SUBSET S : s # {} => pick[s] \in s
      /\ \A x \in S : \A v \in Int : op[x][v] \in Int
  BY AnyIsAny DEF Adding
<1>2. \E g : IsFold(g, S, Int, 0, pick, op)
  <2> DEFINE V == Int
             base == 0
  <2>1. base \in V /\ \A x \in S : \A v \in V : op[x][v] \in V
    BY <1>1
  <2>2. \E g : IsFold(g, S, V, base, pick, op)
    <3> HIDE DEF op, pick, V, base
    <3>1. QED
      BY <1>1, <2>1, FoldExists
  <2>3. QED
    BY <2>2
<1>3. PICK g : IsFold(g, S, Int, 0, pick, op)
  BY <1>2
<1>4. SumFunctionOnSet(f, S) = g[S] /\ g[S] \in Int
  <2>1. IsFold(g, S, Int, 0, Any(S), Adding(f, S))
    BY <1>3
  <2>2. g[S] \in Int
    BY <2>1 DEF IsFold
  <2>3. SumFunctionOnSet(f, S) = g[S]
    <3> HIDE DEF op, pick
    <3>1. QED
      BY <2>1, SumIsFold
  <2>4. QED
    BY <2>2, <2>3
<1>5. CASE S = {}
  BY <1>3, <1>4, <1>5 DEF IsFold
<1>6. CASE S # {}
  <2> DEFINE x == Any(S)[S]
             R == S \ {x}
             r == [s \in SUBSET R |-> g[s]]
  <2>1. x \in S /\ IsFiniteSet(R) /\ R \subseteq S /\ SUBSET R \subseteq SUBSET S
    BY <1>1, <1>6, FS_RemoveElement
  <2>2. g[S] = f[x] + g[R]
    BY <1>3, <1>6, <2>1 DEF IsFold, Adding
  <2>3. ASSUME NEW s \in SUBSET R
        PROVE  r[s] = IF s = {} THEN 0 ELSE Adding(f, R)[Any(R)[s]][r[s \ {Any(R)[s]}]]
    <3>1. g[s] = IF s = {} THEN 0 ELSE Adding(f, S)[Any(S)[s]][g[s \ {Any(S)[s]}]]
      BY <1>3, <2>1 DEF IsFold
    <3>2. CASE s # {}
      <4>1. Any(S)[s] = Any(R)[s] /\ Any(R)[s] \in s /\ Any(R)[s] \in R
        BY <2>1, <3>2 DEF Any
      <4>2. g[s \ {Any(R)[s]}] \in Int
        BY <1>3, <2>1 DEF IsFold
      <4>3. r[s] = f[Any(R)[s]] + r[s \ {Any(R)[s]}]
        BY <3>1, <3>2, <4>1, <4>2, <2>1 DEF Adding
      <4>4. QED
        BY <3>2, <4>1, <4>2, <4>3 DEF Adding
    <3>3. QED
      BY <3>1, <3>2
  <2>4. r \in [SUBSET R -> Int]
    BY <1>3, <2>1 DEF IsFold
  <2>5. IsFold(r, R, Int, 0, Any(R), Adding(f, R))
    <3> HIDE DEF r
    <3>1. QED
      BY <2>3, <2>4 DEF IsFold
  <2>6. SumFunctionOnSet(f, R) = r[R]
    <3> HIDE DEF r, R
    <3>1. \A y \in R : f[y] \in Int
      BY <2>1
    <3>2. QED
      BY <2>1, <2>5, <3>1, SumIsFold
  <2>7. QED
    BY <1>4, <1>6, <2>2, <2>6
<1>7. QED
  BY <1>5, <1>6

\* One element more or less.
LEMMA OneLess ==
  \A S : IsFiniteSet(S) =>
    /\ Cardinality(S) \in Nat
    /\ \A x \in S : /\ IsFiniteSet(S \ {x}) /\ Cardinality(S \ {x}) \in Nat
                   /\ Cardinality(S) = Cardinality(S \ {x}) + 1
<1>1. SUFFICES ASSUME NEW S, IsFiniteSet(S), NEW x
               PROVE  /\ Cardinality(S) \in Nat
                      /\ x \in S => /\ IsFiniteSet(S \ {x}) /\ Cardinality(S \ {x}) \in Nat
                                    /\ Cardinality(S) = Cardinality(S \ {x}) + 1
  OBVIOUS
<1>2. Cardinality(S) \in Nat
  BY <1>1, FS_CardinalityType
<1>3. CASE x \in S
  <2>1. IsFiniteSet(S \ {x}) /\ Cardinality(S \ {x}) = Cardinality(S) - 1
    BY <1>1, <1>3, FS_RemoveElement
  <2>2. Cardinality(S \ {x}) \in Nat
    BY <2>1, FS_CardinalityType
  <2>3. QED
    BY <1>2, <2>1, <2>2
<1>4. QED
  BY <1>2, <1>3

LEMMA SumOfNothing == ASSUME NEW f PROVE SumFunctionOnSet(f, {}) = 0
BY SumOfRest, FS_EmptySet

\* Any term can be taken out of a sum.
LEMMA SumWithout ==
  ASSUME NEW S, IsFiniteSet(S), NEW f, \A x \in S : f[x] \in Int, NEW x \in S
  PROVE  SumFunctionOnSet(f, S) = f[x] + SumFunctionOnSet(f, S \ {x})
<1> DEFINE sum == [s \in SUBSET S |-> SumFunctionOnSet(f, s)]
           T == {n \in Nat : \A s \in SUBSET S : Cardinality(s) = n =>
                   \A y \in s : sum[s] = f[y] + sum[s \ {y}]}
<1>1. \A s \in SUBSET S : /\ IsFiniteSet(s) /\ Cardinality(s) \in Nat
                         /\ \A y \in s : /\ s \ {y} \in SUBSET S
                                        /\ Cardinality(s \ {y}) = Cardinality(s) - 1
  BY FS_Subset, OneLess
<1>2. ASSUME NEW s \in SUBSET S
      PROVE  /\ sum[s] \in Int
             /\ s # {} => \E p \in s : sum[s] = f[p] + sum[s \ {p}]
  <2>1. IsFiniteSet(s) /\ \A y \in s : f[y] \in Int
    BY <1>1
  <2>2. /\ sum[s] \in Int
        /\ s # {} => sum[s] = f[Any(s)[s]] + SumFunctionOnSet(f, s \ {Any(s)[s]})
    BY <2>1, SumOfRest
  <2>3. s # {} => Any(s)[s] \in s
    BY AnyIsAny
  <2>4. QED
    BY <2>2, <2>3
<1>3. 0 \in T
  BY <1>1, FS_EmptySet
<1>4. ASSUME NEW n \in Nat, n \in T PROVE n + 1 \in T
  <2> HIDE DEF sum
  <2>1. SUFFICES ASSUME NEW s \in SUBSET S, Cardinality(s) = n + 1, NEW y \in s
                 PROVE  sum[s] = f[y] + sum[s \ {y}]
    OBVIOUS
  <2>2. \A r \in SUBSET S : Cardinality(r) = n => \A z \in r : sum[r] = f[z] + sum[r \ {z}]
    BY <1>4
  <2> HIDE DEF T
  <2>3. PICK p \in s : sum[s] = f[p] + sum[s \ {p}]
    BY <1>2
  <2>4. CASE p # y
    <3>1. s \ {p} \in SUBSET S /\ Cardinality(s \ {p}) = n /\ y \in s \ {p}
      BY <1>1, <2>1, <2>4
    <3>2. s \ {y} \in SUBSET S /\ Cardinality(s \ {y}) = n /\ p \in s \ {y}
      BY <1>1, <2>1, <2>4
    <3> DEFINE rest == s \ {p, y}
    <3>3. (s \ {p}) \ {y} = rest /\ (s \ {y}) \ {p} = rest /\ rest \in SUBSET S
      OBVIOUS
    <3> HIDE DEF rest
    <3>4. sum[s \ {p}] = f[y] + sum[rest]
      <4>1. sum[s \ {p}] = f[y] + sum[(s \ {p}) \ {y}]
        BY <2>2, <3>1
      <4>2. QED
        BY <3>3, <4>1
    <3>5. sum[s \ {y}] = f[p] + sum[rest]
      <4>1. sum[s \ {y}] = f[p] + sum[(s \ {y}) \ {p}]
        BY <2>2, <3>2
      <4>2. QED
        BY <3>3, <4>1
    <3>6. f[p] \in Int /\ f[y] \in Int /\ sum[rest] \in Int
      BY <1>2, <3>3
    <3>7. QED
      BY <2>3, <3>4, <3>5, <3>6
  <2>5. QED
    BY <2>3, <2>4
<1>5. Cardinality(S) \in T
  <2>1. Cardinality(S) \in Nat
    BY <1>1
  <2> HIDE DEF T
  <2>2. QED
    BY <2>1, <1>3, <1>4, InductionOnNat
<1>6. S \in SUBSET S /\ S \ {x} \in SUBSET S /\ sum[S] = f[x] + sum[S \ {x}]
  <2> HIDE DEF sum
  <2>1. QED
    BY <1>5
<1>7. QED
  BY <1>6

\* A set of subsets of S that has {}, and with each set any larger by one element, has S.
LEMMA InductionByElement ==
  ASSUME NEW S, IsFiniteSet(S), NEW T, {} \in T,
         \A s \in SUBSET S : \A x \in s : s \ {x} \in T => s \in T
  PROVE  S \in T
<1> DEFINE pick == Any(S)
<1>1. \A s \in SUBSET S : s # {} => pick[s] \in s
  BY AnyIsAny
<1> HIDE DEF pick
<1>2. \A s \in SUBSET S : s # {} /\ s \ {pick[s]} \in T => s \in T
  BY <1>1
<1>3. QED
  <2>1. \A s \in SUBSET S : s \in T
    BY ONLY IsFiniteSet(S), {} \in T, <1>1, <1>2, InductionOnSubsets
  <2>2. QED
    BY <2>1

\* The image of a finite set is finite.
LEMMA FiniteImage ==
  ASSUME NEW S, IsFiniteSet(S), NEW f
  PROVE  IsFiniteSet({f[x] : x \in S})
<1> DEFINE T == {s \in SUBSET S : IsFiniteSet({f[x] : x \in s})}
<1>1. {} \in T
  <2>1. {f[x] : x \in {}} = {}
    OBVIOUS
  <2>2. QED
    BY <2>1, FS_EmptySet
<1>2. ASSUME NEW s \in SUBSET S, NEW y \in s, s \ {y} \in T PROVE s \in T
  <2>1. {f[x] : x \in s} = {f[x] : x \in s \ {y}} \cup {f[y]}
    OBVIOUS
  <2>2. IsFiniteSet({f[x] : x \in s})
    <3> DEFINE rest == {f[x] : x \in s \ {y}}
    <3>1. IsFiniteSet(rest) /\ IsFiniteSet({f[y]})
      BY <1>2, FS_Singleton
    <3> HIDE DEF rest
    <3>2. IsFiniteSet(rest \cup {f[y]})
      BY <3>1, FS_Union
    <3>3. QED
      BY <2>1, <3>2 DEF rest
  <2>3. QED
    BY <2>2
<1>3. S \in T
  <2> HIDE DEF T
  <2>1. QED
    BY <1>1, <1>2, InductionByElement
<1>4. QED
  BY <1>3

\* Two sums of the same terms are equal.
LEMMA SumsEqual ==
  ASSUME NEW S, IsFiniteSet(S), NEW f, NEW g, \A x \in S : f[x] \in Int /\ g[x] = f[x]
  PROVE  SumFunctionOnSet(f, S) = SumFunctionOnSet(g, S)
<1> DEFINE T == {s \in SUBSET S : SumFunctionOnSet(f, s) = SumFunctionOnSet(g, s)}
<1>1. {} \in T
  BY SumOfNothing
<1>2. ASSUME NEW s \in SUBSET S, NEW x \in s, s \ {x} \in T PROVE s \in T
  <2>1. IsFiniteSet(s) /\ \A y \in s : f[y] \in Int /\ g[y] \in Int
    BY FS_Subset
  <2>2. SumFunctionOnSet(f, s) = f[x] + SumFunctionOnSet(f, s \ {x})
    BY <2>1, SumWithout
  <2>3. SumFunctionOnSet(g, s) = g[x] + SumFunctionOnSet(g, s \ {x})
    BY <2>1, SumWithout
  <2>4. QED
    BY <1>2, <2>2, <2>3
<1>3. S \in T
  <2> HIDE DEF T
  <2>1. QED
    BY <1>1, <1>2, InductionByElement
<1>4. QED
  BY <1>3

\* A sum of zeros is zero.
LEMMA SumOfZeros ==
  ASSUME NEW S, IsFiniteSet(S), NEW f, \A x \in S : f[x] = 0
  PROVE  SumFunctionOnSet(f, S) = 0
<1> DEFINE T == {s \in SUBSET S : SumFunctionOnSet(f, s) = 0}
<1>1. {} \in T
  BY SumOfNothing
<1>2. ASSUME NEW s \in SUBSET S, NEW x \in s, s \ {x} \in T PROVE s \in T
  <2>1. IsFiniteSet(s) /\ \A y \in s : f[y] \in Int
    BY FS_Subset
  <2>2. SumFunctionOnSet(f, s) = f[x] + SumFunctionOnSet(f, s \ {x})
    BY <2>1, SumWithout
  <2>3. QED
    BY <1>2, <2>2
<1>3. S \in T
  <2> HIDE DEF T
  <2>1. QED
    BY <1>1, <1>2, InductionByElement
<1>4. QED
  BY <1>3

\* A sum of natural numbers is one, and no term exceeds it.
LEMMA SumOfNaturals ==
  ASSUME NEW S, IsFiniteSet(S), NEW f, \A x \in S : f[x] \in Nat
  PROVE  /\ SumFunctionOnSet(f, S) \in Nat
         /\ \A x \in S : f[x] <= SumFunctionOnSet(f, S)
<1> DEFINE T == {s \in SUBSET S : SumFunctionOnSet(f, s) \in Nat}
<1>1. {} \in T
  BY SumOfNothing
<1>2. ASSUME NEW s \in SUBSET S, NEW x \in s PROVE SumFunctionOnSet(f, s) = f[x] + SumFunctionOnSet(f, s \ {x})
  <2>1. IsFiniteSet(s) /\ \A y \in s : f[y] \in Int
    BY FS_Subset
  <2>2. QED
    BY <2>1, SumWithout
<1>3. ASSUME NEW s \in SUBSET S, NEW x \in s, s \ {x} \in T PROVE s \in T
  <2>1. f[x] \in Nat /\ SumFunctionOnSet(f, s \ {x}) \in Nat
    BY <1>3
  <2>2. SumFunctionOnSet(f, s) \in Nat
    BY <1>2, <2>1
  <2>3. QED
    BY <2>2
<1>4. S \in T
  <2> HIDE DEF T
  <2>1. QED
    BY <1>1, <1>3, InductionByElement
<1>5. ASSUME NEW x \in S PROVE SumFunctionOnSet(f, S \ {x}) \in Nat
  <2>1. IsFiniteSet(S \ {x}) /\ \A y \in S \ {x} : f[y] \in Nat
    BY FS_RemoveElement
  <2> DEFINE R == S \ {x}
             U == {s \in SUBSET R : SumFunctionOnSet(f, s) \in Nat}
  <2>2. {} \in U
    BY SumOfNothing
  <2>3. ASSUME NEW s \in SUBSET R, NEW y \in s, s \ {y} \in U PROVE s \in U
    BY <1>2, <2>3
  <2>4. R \in U
    <3> HIDE DEF U
    <3>1. IsFiniteSet(R)
      BY <2>1
    <3> HIDE DEF R
    <3>2. QED
      BY <3>1, <2>2, <2>3, InductionByElement
  <2>5. QED
    BY <2>4
<1>6. ASSUME NEW x \in S PROVE f[x] <= SumFunctionOnSet(f, S)
  <2>1. SumFunctionOnSet(f, S) = f[x] + SumFunctionOnSet(f, S \ {x})
    BY <1>2
  <2>2. QED
    BY <1>5, <2>1
<1>7. QED
  BY <1>4, <1>6

\* A sum over two sets without a common element.
LEMMA SumOfUnion ==
  ASSUME NEW A, IsFiniteSet(A), NEW B, IsFiniteSet(B), A \cap B = {}, NEW f,
         \A x \in A \cup B : f[x] \in Int
  PROVE  SumFunctionOnSet(f, A \cup B) = SumFunctionOnSet(f, A) + SumFunctionOnSet(f, B)
<1> DEFINE T == {P \in SUBSET A :
                   SumFunctionOnSet(f, P \cup B) = SumFunctionOnSet(f, P) + SumFunctionOnSet(f, B)}
<1>1. SumFunctionOnSet(f, B) \in Int
  BY SumOfRest
<1>2. {} \in T
  <2>1. {} \cup B = B
    OBVIOUS
  <2>2. SumFunctionOnSet(f, {}) = 0
    BY SumOfNothing
  <2>3. QED
    BY <1>1, <2>1, <2>2
<1>3. ASSUME NEW P \in SUBSET A, NEW x \in P, P \ {x} \in T PROVE P \in T
  <2> DEFINE Q == P \ {x}
             all == P \cup B
             less == Q \cup B
  <2>1. /\ IsFiniteSet(P) /\ IsFiniteSet(Q) /\ IsFiniteSet(all) /\ x \in all
        /\ less = all \ {x} /\ (\A y \in P : f[y] \in Int) /\ (\A y \in Q : f[y] \in Int)
        /\ \A y \in all : f[y] \in Int
    BY FS_Subset, FS_Union
  <2>2. SumFunctionOnSet(f, P) = f[x] + SumFunctionOnSet(f, Q)
    BY <2>1, SumWithout
  <2>3. SumFunctionOnSet(f, all) = f[x] + SumFunctionOnSet(f, less)
    <3> HIDE DEF all, less
    <3>1. QED
      BY <2>1, SumWithout
  <2>4. SumFunctionOnSet(f, less) = SumFunctionOnSet(f, Q) + SumFunctionOnSet(f, B)
    BY <1>3
  <2>5. f[x] \in Int /\ SumFunctionOnSet(f, Q) \in Int
    <3> HIDE DEF Q
    <3>1. QED
      BY <2>1, SumOfRest
  <2> HIDE DEF all, less, Q
  <2>6. SumFunctionOnSet(f, all) = SumFunctionOnSet(f, P) + SumFunctionOnSet(f, B)
    BY <1>1, <2>2, <2>3, <2>4, <2>5
  <2>7. QED
    BY <2>6 DEF all
<1>4. A \in T
  <2> HIDE DEF T
  <2>1. QED
    BY <1>2, <1>3, InductionByElement
<1>5. QED
  BY <1>4

\* The sum of differences is the difference of the sums.
LEMMA SumOfDifferences ==
  ASSUME NEW S, IsFiniteSet(S), NEW f, NEW g, NEW h,
         \A x \in S : f[x] \in Int /\ g[x] \in Int /\ h[x] = f[x] - g[x]
  PROVE  SumFunctionOnSet(h, S) = SumFunctionOnSet(f, S) - SumFunctionOnSet(g, S)
<1> DEFINE T == {s \in SUBSET S :
                   SumFunctionOnSet(h, s) = SumFunctionOnSet(f, s) - SumFunctionOnSet(g, s)}
<1>1. {} \in T
  BY SumOfNothing
<1>2. ASSUME NEW s \in SUBSET S, NEW x \in s, s \ {x} \in T PROVE s \in T
  <2> DEFINE r == s \ {x}
  <2>1. IsFiniteSet(s) /\ IsFiniteSet(r)
    BY FS_Subset
  <2>2. /\ \A y \in s : f[y] \in Int /\ g[y] \in Int /\ h[y] \in Int
        /\ \A y \in r : f[y] \in Int /\ g[y] \in Int
    OBVIOUS
  <2>3. SumFunctionOnSet(f, s) = f[x] + SumFunctionOnSet(f, r)
    BY <2>1, <2>2, SumWithout
  <2>4. SumFunctionOnSet(g, s) = g[x] + SumFunctionOnSet(g, r)
    BY <2>1, <2>2, SumWithout
  <2>5. SumFunctionOnSet(h, s) = h[x] + SumFunctionOnSet(h, r)
    BY <2>1, <2>2, SumWithout
  <2>6. SumFunctionOnSet(h, r) = SumFunctionOnSet(f, r) - SumFunctionOnSet(g, r)
    BY <1>2
  <2> HIDE DEF r
  <2>7. SumFunctionOnSet(f, r) \in Int /\ SumFunctionOnSet(g, r) \in Int
    BY <2>1, <2>2, SumOfRest
  <2>8. f[x] \in Int /\ g[x] \in Int /\ h[x] = f[x] - g[x]
    OBVIOUS
  <2>9. SumFunctionOnSet(h, s) = SumFunctionOnSet(f, s) - SumFunctionOnSet(g, s)
    BY ONLY <2>3, <2>4, <2>5, <2>6, <2>7, <2>8
  <2>10. QED
    BY <2>9
<1>3. S \in T
  <2> HIDE DEF T
  <2>1. QED
    BY <1>1, <1>2, InductionByElement
<1>4. QED
  BY <1>3

\* A sum lies between the least and the greatest term, as often as there are terms.
LEMMA SumBetween ==
  ASSUME NEW S, IsFiniteSet(S), NEW f, NEW low \in Int, NEW high \in Int,
         \A x \in S : f[x] \in Int /\ low <= f[x] /\ f[x] <= high
  PROVE  /\ low * Cardinality(S) <= SumFunctionOnSet(f, S)
         /\ SumFunctionOnSet(f, S) <= high * Cardinality(S)
<1> DEFINE T == {s \in SUBSET S :
                   /\ low * Cardinality(s) <= SumFunctionOnSet(f, s)
                   /\ SumFunctionOnSet(f, s) <= high * Cardinality(s)}
<1>1. {} \in T
  BY SumOfNothing, FS_EmptySet
<1>2. ASSUME NEW s \in SUBSET S, NEW x \in s, s \ {x} \in T PROVE s \in T
  <2> DEFINE r == s \ {x}
             n == Cardinality(r)
             sum == SumFunctionOnSet(f, r)
  <2>1. IsFiniteSet(s) /\ IsFiniteSet(r)
    BY FS_Subset
  <2>2. Cardinality(s) = n + 1 /\ n \in Nat
    BY <2>1, OneLess
  <2>3. SumFunctionOnSet(f, s) = f[x] + sum
    BY <2>1, SumWithout
  <2>4. sum \in Int
    <3>1. \A y \in r : f[y] \in Int
      OBVIOUS
    <3> HIDE DEF r
    <3>2. QED
      BY <2>1, <3>1, SumOfRest
  <2>5. low * n <= sum /\ sum <= high * n /\ f[x] \in Int /\ low <= f[x] /\ f[x] <= high
    BY <1>2
  <2> HIDE DEF sum, n
  <2>6. low * (n + 1) = low * n + low /\ high * (n + 1) = high * n + high
        /\ low * n \in Int /\ high * n \in Int
    BY <2>2
  <2>7. low * (n + 1) <= f[x] + sum /\ f[x] + sum <= high * (n + 1)
    BY <2>4, <2>5, <2>6
  <2>8. QED
    BY <2>2, <2>3, <2>7
<1>3. S \in T
  <2> HIDE DEF T
  <2>1. QED
    BY <1>1, <1>2, InductionByElement
<1>4. QED
  BY <1>3

\* Adding class by class adds everything once.
LEMMA SumByClass ==
  ASSUME NEW R, IsFiniteSet(R), NEW L, IsFiniteSet(L), NEW class, NEW f,
         \A i \in R : class[i] \in L /\ f[i] \in Int
  PROVE  SumFunctionOnSet([l \in L |-> SumFunctionOnSet(f, {i \in R : class[i] = l})], L) =
           SumFunctionOnSet(f, R)
<1> DEFINE Of(P, l) == {i \in P : class[i] = l}
           part(P) == [l \in L |-> SumFunctionOnSet(f, Of(P, l))]
           T == {P \in SUBSET R : SumFunctionOnSet(part(P), L) = SumFunctionOnSet(f, P)}
<1>1. \A P \in SUBSET R : IsFiniteSet(P) /\ \A l \in L : IsFiniteSet(Of(P, l)) /\ part(P)[l] \in Int
  <2>1. TAKE P \in SUBSET R
  <2>2. IsFiniteSet(P)
    BY FS_Subset
  <2>3. ASSUME NEW l \in L PROVE IsFiniteSet(Of(P, l)) /\ part(P)[l] \in Int
    <3>1. IsFiniteSet(Of(P, l)) /\ \A i \in Of(P, l) : f[i] \in Int
      BY <2>2, FS_Subset
    <3>2. SumFunctionOnSet(f, Of(P, l)) \in Int
      <4> HIDE DEF Of
      <4>1. QED
        BY <3>1, SumOfRest
    <3>3. QED
      BY <3>1, <3>2
  <2>4. QED
    BY <2>2, <2>3
<1>2. {} \in T
  <2> DEFINE zero == part({})
  <2>1. \A l \in L : zero[l] = 0
    <3>1. \A l \in L : Of({}, l) = {}
      OBVIOUS
    <3>2. QED
      BY <3>1, SumOfNothing
  <2> HIDE DEF zero
  <2>2. SumFunctionOnSet(zero, L) = 0
    BY <2>1, SumOfZeros
  <2>3. SumFunctionOnSet(part({}), L) = 0
    BY <2>2 DEF zero
  <2>4. QED
    BY <2>3, SumOfNothing
<1>3. ASSUME NEW P \in SUBSET R, NEW x \in P, P \ {x} \in T PROVE P \in T
  <2> DEFINE l == class[x]
             Q == P \ {x}
             p == part(P)
             q == part(Q)
  <2>1. l \in L /\ Q \in SUBSET R /\ x \notin Q /\ f[x] \in Int /\ IsFiniteSet(P)
        /\ \A i \in P : f[i] \in Int
    BY <1>1
  <2>2. Of(P, l) \ {x} = Of(Q, l) /\ x \in Of(P, l) /\ \A i \in Of(P, l) : f[i] \in Int
    OBVIOUS
  <2>3. p[l] = f[x] + q[l]
    <3>1. IsFiniteSet(Of(P, l))
      BY <1>1, <2>1
    <3>2. SumFunctionOnSet(f, Of(P, l)) = f[x] + SumFunctionOnSet(f, Of(Q, l))
      <4> HIDE DEF Of, Q, l
      <4>1. QED
        BY <2>2, <3>1, SumWithout
    <3>3. QED
      BY <2>1, <3>2
  <2>4. \A k \in L \ {l} : p[k] = q[k]
    <3>1. TAKE k \in L \ {l}
    <3>2. Of(P, k) = Of(Q, k)
      OBVIOUS
    <3>3. QED
      BY <3>2
  <2>5. /\ \A k \in L : p[k] \in Int /\ q[k] \in Int
        /\ IsFiniteSet(L \ {l})
    BY <1>1, <2>1, FS_Subset
  <2>6. SumFunctionOnSet(f, P) = f[x] + SumFunctionOnSet(f, Q)
    BY <2>1, SumWithout
  <2>7. SumFunctionOnSet(q, L) = SumFunctionOnSet(f, Q)
    BY <1>3
  <2> HIDE DEF l, p, q, T, Q
  <2>8. SumFunctionOnSet(p, L) = p[l] + SumFunctionOnSet(p, L \ {l})
    BY <2>1, <2>5, SumWithout
  <2>9. SumFunctionOnSet(q, L) = q[l] + SumFunctionOnSet(q, L \ {l})
    BY <2>1, <2>5, SumWithout
  <2>10. SumFunctionOnSet(p, L \ {l}) = SumFunctionOnSet(q, L \ {l})
    BY <2>4, <2>5, SumsEqual
  <2>11. SumFunctionOnSet(q, L \ {l}) \in Int /\ q[l] \in Int
    BY <2>1, <2>5, SumOfRest
  <2>12. SumFunctionOnSet(p, L) = SumFunctionOnSet(f, P)
    BY <2>1, <2>3, <2>6, <2>7, <2>8, <2>9, <2>10, <2>11
  <2>13. QED
    BY <2>12 DEF p, T
<1>4. R \in T
  <2> HIDE DEF T
  <2>1. QED
    BY <1>2, <1>3, InductionByElement
<1>5. QED
  BY <1>4

\* A sum of ones counts.
LEMMA SumOfOnes ==
  ASSUME NEW S, IsFiniteSet(S), NEW f, \A x \in S : f[x] = 1
  PROVE  SumFunctionOnSet(f, S) = Cardinality(S)
<1>1. 1 * Cardinality(S) <= SumFunctionOnSet(f, S) /\ SumFunctionOnSet(f, S) <= 1 * Cardinality(S)
  <2> DEFINE one == 1
  <2>1. one \in Int /\ \A x \in S : f[x] \in Int /\ one <= f[x] /\ f[x] <= one
    OBVIOUS
  <2> HIDE DEF one
  <2>2. /\ one * Cardinality(S) <= SumFunctionOnSet(f, S)
        /\ SumFunctionOnSet(f, S) <= one * Cardinality(S)
    BY ONLY IsFiniteSet(S), <2>1, SumBetween
  <2>3. QED
    BY <2>2 DEF one
<1>2. Cardinality(S) \in Nat /\ SumFunctionOnSet(f, S) \in Int
  <2>1. \A x \in S : f[x] \in Int
    OBVIOUS
  <2>2. QED
    BY <2>1, SumOfRest, FS_CardinalityType
<1>3. QED
  BY <1>1, <1>2

\* Counting class by class counts everything once.
LEMMA SumOfClasses ==
  ASSUME NEW R, IsFiniteSet(R), NEW L, IsFiniteSet(L), NEW class,
         \A i \in R : class[i] \in L
  PROVE  SumFunctionOnSet([l \in L |-> Cardinality({i \in R : class[i] = l})], L) = Cardinality(R)
<1> DEFINE one == [i \in R |-> 1]
           part == [l \in L |-> SumFunctionOnSet(one, {i \in R : class[i] = l})]
           count == [l \in L |-> Cardinality({i \in R : class[i] = l})]
<1>1. \A i \in R : one[i] = 1
  OBVIOUS
<1> HIDE DEF one
<1>2. \A s \in SUBSET R : SumFunctionOnSet(one, s) = Cardinality(s)
  <2>1. TAKE s \in SUBSET R
  <2>2. IsFiniteSet(s) /\ \A i \in s : one[i] = 1
    BY <1>1, FS_Subset
  <2>3. QED
    BY <2>2, SumOfOnes
<1>3. part = count
  BY <1>2
<1>4. SumFunctionOnSet(part, L) = SumFunctionOnSet(one, R)
  BY <1>1, SumByClass
<1>5. SumFunctionOnSet(one, R) = Cardinality(R)
  BY <1>2
<1>6. QED
  BY <1>3, <1>4, <1>5

\* The names of the terms do not matter.
LEMMA SumRenamed ==
  ASSUME NEW A, IsFiniteSet(A), NEW B, NEW to, NEW f, NEW g,
         \A x \in A : to[x] \in B, \A y \in B : \E x \in A : to[x] = y,
         \A x, y \in A : to[x] = to[y] => x = y,
         \A x \in A : f[to[x]] \in Int /\ g[x] = f[to[x]]
  PROVE  SumFunctionOnSet(g, A) = SumFunctionOnSet(f, B)
<1> DEFINE Image(P) == {to[x] : x \in P}
           T == {P \in SUBSET A : SumFunctionOnSet(g, P) = SumFunctionOnSet(f, Image(P))}
<1>1. {} \in T
  <2>1. Image({}) = {}
    OBVIOUS
  <2>2. QED
    BY <2>1, SumOfNothing
<1>2. ASSUME NEW P \in SUBSET A, NEW x \in P, P \ {x} \in T PROVE P \in T
  <2> DEFINE Q == P \ {x}
             I == Image(P)
             J == Image(Q)
  <2>1. IsFiniteSet(P) /\ \A y \in P : g[y] \in Int
    BY FS_Subset
  <2>2. IsFiniteSet(I)
    BY <2>1, FiniteImage
  <2>3. to[x] \in I /\ J = I \ {to[x]} /\ \A z \in I : f[z] \in Int
    OBVIOUS
  <2>4. SumFunctionOnSet(g, P) = g[x] + SumFunctionOnSet(g, Q)
    BY <2>1, SumWithout
  <2>5. SumFunctionOnSet(g, Q) = SumFunctionOnSet(f, J) /\ g[x] = f[to[x]]
    BY <1>2
  <2> HIDE DEF I, J, Q
  <2>6. SumFunctionOnSet(f, I) = f[to[x]] + SumFunctionOnSet(f, J)
    BY <2>2, <2>3, SumWithout
  <2>7. SumFunctionOnSet(g, P) = SumFunctionOnSet(f, I)
    BY <2>4, <2>5, <2>6
  <2>8. QED
    BY <2>7 DEF I
<1>3. A \in T
  <2> HIDE DEF T
  <2>1. QED
    BY <1>1, <1>2, InductionByElement
<1>4. QED
  BY <1>3

\* One more term in the inequality of the mean square.
LEMMA OneMoreSquare ==
  ASSUME NEW n \in Nat, 0 < n, NEW q \in Int, NEW s \in Int, NEW x \in Int, s * s <= n * q
  PROVE  /\ (s + x) * (s + x) <= (n + 1) * (q + x * x)
         /\ (s + x) * (s + x) = (n + 1) * (q + x * x) => s * s = n * q /\ s = n * x
<1> DEFINE more == (n + 1) * (q + x * x) - (s + x) * (s + x)
           less == n * q - s * s
           off == s - n * x
<1>1. n * more = (n + 1) * less + off * off
  OBVIOUS
<1>2. more \in Int /\ less \in Nat /\ off \in Int
  OBVIOUS
<1>3. more >= 0 => (s + x) * (s + x) <= (n + 1) * (q + x * x)
  OBVIOUS
<1>4. (s + x) * (s + x) = (n + 1) * (q + x * x) => more = 0
  OBVIOUS
<1>5. less = 0 => s * s = n * q
  OBVIOUS
<1>6. off = 0 => s = n * x
  OBVIOUS
<1> HIDE DEF more, less, off
<1>7. off * off >= 0 /\ (off * off = 0 => off = 0) /\ off * off \in Int
  BY <1>2
<1>8. (n + 1) * less >= 0 /\ ((n + 1) * less = 0 => less = 0) /\ (n + 1) * less \in Int
  BY <1>2
<1>9. more >= 0
  <2>1. SUFFICES ASSUME more < 0 PROVE FALSE
    BY <1>2
  <2>2. n * more < 0
    BY <1>2, <2>1
  <2>3. QED
    BY <1>1, <1>7, <1>8, <2>2
<1>10. ASSUME more = 0 PROVE less = 0 /\ off = 0
  <2>1. n * more = 0
    BY <1>10
  <2>2. QED
    BY <1>1, <1>7, <1>8, <2>1
<1>11. QED
  BY <1>3, <1>4, <1>5, <1>6, <1>9, <1>10

\* The square of a sum is at most the number of terms times the sum of their squares, and
\* just that if the terms are all the same and only then.
LEMMA SumOfSquares ==
  ASSUME NEW S, IsFiniteSet(S), NEW f, NEW square,
         \A x \in S : f[x] \in Int /\ square[x] = f[x] * f[x]
  PROVE  /\ SumFunctionOnSet(f, S) * SumFunctionOnSet(f, S) <=
             Cardinality(S) * SumFunctionOnSet(square, S)
         /\ \A x, y \in S :
              f[x] # f[y] => SumFunctionOnSet(f, S) * SumFunctionOnSet(f, S) <
                               Cardinality(S) * SumFunctionOnSet(square, S)
         /\ (\A x, y \in S : f[x] = f[y]) =>
              SumFunctionOnSet(f, S) * SumFunctionOnSet(f, S) =
                Cardinality(S) * SumFunctionOnSet(square, S)
<1> DEFINE n(s) == Cardinality(s)
           sum(s) == SumFunctionOnSet(f, s)
           squares(s) == SumFunctionOnSet(square, s)
           Same(s) == \A x, y \in s : f[x] = f[y]
           T == {s \in SUBSET S :
                   /\ sum(s) * sum(s) <= n(s) * squares(s)
                   /\ sum(s) * sum(s) = n(s) * squares(s) => Same(s)}
<1>1. \A s \in SUBSET S : /\ IsFiniteSet(s) /\ n(s) \in Nat /\ sum(s) \in Int /\ squares(s) \in Int
                         /\ \A x \in s : f[x] \in Int /\ square[x] \in Int
  <2>1. TAKE s \in SUBSET S
  <2>2. IsFiniteSet(s) /\ \A x \in s : f[x] \in Int /\ square[x] \in Int
    BY FS_Subset
  <2>3. QED
    BY <2>2, SumOfRest, FS_CardinalityType
<1>2. ASSUME NEW s \in SUBSET S, NEW c \in Int, \A x \in s : f[x] = c
      PROVE  sum(s) = c * n(s) /\ squares(s) = (c * c) * n(s)
  <2> DEFINE d == c * c
  <2>1. d \in Int /\ \A x \in s : square[x] = d
    BY <1>2
  <2>2. IsFiniteSet(s) /\ n(s) \in Nat /\ sum(s) \in Int /\ squares(s) \in Int
    BY <1>1
  <2> HIDE DEF d
  <2>3. c * n(s) <= sum(s) /\ sum(s) <= c * n(s)
    <3>1. \A x \in s : f[x] \in Int /\ c <= f[x] /\ f[x] <= c
      BY <1>2
    <3>2. QED
      BY <2>2, <3>1, SumBetween
  <2>4. d * n(s) <= squares(s) /\ squares(s) <= d * n(s)
    <3>1. \A x \in s : square[x] \in Int /\ d <= square[x] /\ square[x] <= d
      BY <2>1
    <3>2. QED
      BY <2>1, <2>2, <3>1, SumBetween
  <2>5. c * n(s) \in Int /\ d * n(s) \in Int
    BY <2>1, <2>2
  <2>6. QED
    BY <2>2, <2>3, <2>4, <2>5 DEF d
<1>3. {} \in T
  <2>1. sum({}) = 0 /\ squares({}) = 0 /\ n({}) = 0
    BY SumOfNothing, FS_EmptySet
  <2>2. QED
    BY <2>1
<1>4. ASSUME NEW s \in SUBSET S, NEW x \in s, s \ {x} \in T PROVE s \in T
  <2> DEFINE r == s \ {x}
  <2>1. r \in SUBSET S /\ f[x] \in Int /\ square[x] = f[x] * f[x]
    OBVIOUS
  <2>2. sum(s) = f[x] + sum(r) /\ squares(s) = square[x] + squares(r)
    BY <1>1, SumWithout
  <2>3. n(s) = n(r) + 1 /\ n(r) \in Nat
    BY <1>1, OneLess
  <2>4. sum(r) \in Int /\ squares(r) \in Int
    BY <1>1
  <2>5. CASE n(r) = 0
    <3>1. r = {}
      BY <1>1, <2>5, FS_EmptySet
    <3>2. sum(r) = 0 /\ squares(r) = 0 /\ s = {x}
      BY <3>1, SumOfNothing
    <3>3. sum(s) = f[x] /\ squares(s) = f[x] * f[x] /\ n(s) = 1 /\ Same(s)
      BY <2>1, <2>2, <2>3, <2>5, <3>2
    <3>4. QED
      BY <2>1, <3>3
  <2>6. CASE n(r) # 0
    <3>1. /\ sum(r) * sum(r) <= n(r) * squares(r)
          /\ sum(r) * sum(r) = n(r) * squares(r) => Same(r)
      BY <1>4
    <3>2. r # {}
      BY <2>6, FS_EmptySet
    <3>3. PICK y \in r : f[y] \in Int
      BY <1>1, <3>2
    <3>4. Same(r) => sum(r) = f[y] * n(r)
      BY <1>2, <2>1, <3>3
    <3> DEFINE m == n(r)
               a == sum(r)
               b == squares(r)
               c == f[x]
               d == f[y]
    <3>5. a + c = sum(s) /\ b + c * c = squares(s) /\ m + 1 = n(s)
      BY <2>1, <2>2, <2>3, <2>4
    <3>6. m \in Nat /\ 0 < m /\ a \in Int /\ b \in Int /\ c \in Int /\ d \in Int /\ a * a <= m * b
      BY <2>1, <2>3, <2>4, <2>6, <3>1, <3>3
    <3>7. (a * a = m * b => Same(r)) /\ (Same(r) => a = d * m)
      BY <3>1, <3>4
    <3>8. Same(r) /\ c = d => Same(s)
      <4>1. Same(r) => \A z \in r : f[z] = d
        BY <3>3
      <4>2. QED
        BY <4>1
    <3> HIDE DEF m, a, b, c, d, r, n, sum, squares, Same
    <3>9. /\ (a + c) * (a + c) <= (m + 1) * (b + c * c)
          /\ (a + c) * (a + c) = (m + 1) * (b + c * c) => a * a = m * b /\ a = m * c
      BY <3>6, OneMoreSquare
    <3>10. a = d * m /\ a = m * c => c = d
      BY <3>6
    <3>11. sum(s) * sum(s) <= n(s) * squares(s)
      BY <3>5, <3>9
    <3>12. sum(s) * sum(s) = n(s) * squares(s) => Same(s)
      BY <3>5, <3>7, <3>8, <3>9, <3>10
    <3>13. QED
      BY <3>11, <3>12
  <2>7. QED
    BY <2>5, <2>6
<1>5. S \in T
  <2> HIDE DEF T
  <2>1. QED
    BY <1>3, <1>4, InductionByElement
<1>6. ASSUME Same(S) PROVE sum(S) * sum(S) = n(S) * squares(S)
  <2>1. CASE S = {}
    <3>1. sum({}) = 0 /\ squares({}) = 0 /\ n({}) = 0
      BY SumOfNothing, FS_EmptySet
    <3>2. QED
      BY <2>1, <3>1
  <2>2. CASE S # {}
    <3>1. PICK y \in S : f[y] \in Int
      BY <2>2
    <3>2. sum(S) = f[y] * n(S) /\ squares(S) = (f[y] * f[y]) * n(S)
      BY <1>2, <1>6, <3>1
    <3>3. n(S) \in Nat
      BY <1>1
    <3> HIDE DEF n, sum, squares
    <3>4. QED
      BY <3>1, <3>2, <3>3
  <2>3. QED
    BY <2>1, <2>2
<1>7. Same(S) => sum(S) * sum(S) = n(S) * squares(S)
  BY <1>6
<1>8. sum(S) * sum(S) <= n(S) * squares(S) /\ (sum(S) * sum(S) = n(S) * squares(S) => Same(S))
  BY <1>5
<1>9. sum(S) * sum(S) \in Int /\ n(S) * squares(S) \in Int
  BY <1>1
<1>10. ASSUME NEW x \in S, NEW y \in S, f[x] # f[y] PROVE sum(S) * sum(S) < n(S) * squares(S)
  <2>1. sum(S) * sum(S) # n(S) * squares(S)
    BY <1>8, <1>10
  <2> HIDE DEF n, sum, squares
  <2>2. QED
    BY <1>8, <1>9, <2>1
<1>11. QED
  BY <1>7, <1>8, <1>10
=============================================================================
