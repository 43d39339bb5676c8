-------------------------------- MODULE Sums --------------------------------
(***************************************************************************)
(* What SumFunction adds up to, for any function on a finite set: totals   *)
(* of holdings, costs and portfolios are such sums.  SumFunction is a fold *)
(* that takes elements out in an order of its own, so each lemma is by     *)
(* induction on the subsets of the domain (SubsetInduction).  Induction is *)
(* stated with a set where the library has an operator.                    *)
(***************************************************************************)
EXTENDS FiniteSetTheorems, TLAPS

(* The element the fold takes out first, and its equation, on the sets D.  *)
Any(s) == CHOOSE x \in s : TRUE

SumBody(g, f, s) == IF s = {} THEN 0 ELSE f[Any(s)] + g[s \ {Any(s)}]

SumsOn(g, f, D) == g = [s \in D |-> SumBody(g, f, s)]

(* A set with 0 and all successors of its numbers has every number. *)
LEMMA NatSetInduction ==
  ASSUME NEW T, 0 \in T, \A n \in Nat : n \in T => n + 1 \in T
  PROVE  Nat \subseteq T
<1> DEFINE R == OpToRel(<, Nat)
<1>1. IsWellFoundedOn(R, Nat)
  BY NatLessThanWellFounded
<1>2. SUFFICES ASSUME Nat \ T # {} PROVE FALSE
  OBVIOUS
<1>3. Nat \ T \subseteq Nat
  OBVIOUS
<1> HIDE DEF R
<1> DEFINE U == Nat \ T
<1>8. U \subseteq Nat /\ U # {}
  BY <1>2
<1> HIDE DEF U
<1>9. \E n \in U : \A m \in U : ~(<<m, n>> \in R)
  BY <1>1, <1>8, WFMin
<1> USE DEF U
<1>4. PICK n \in Nat \ T : \A m \in Nat \ T : ~(<<m, n>> \in R)
  BY <1>9
<1>5. n # 0 /\ n - 1 \in Nat /\ n - 1 \notin T
  BY <1>4
<1>6. <<n - 1, n>> \in R
  BY <1>5 DEF R, OpToRel
<1> QED BY <1>4, <1>5, <1>6

(* There is a function that satisfies the equation on all subsets. *)
LEMMA SumExists ==
  ASSUME NEW f, IsFiniteSet(DOMAIN f)
  PROVE  \E g : SumsOn(g, f, SUBSET DOMAIN f)
<1> DEFINE S == DOMAIN f
           D(n) == {s \in SUBSET S : Cardinality(s) <= n}
           T == {n \in Nat : \E g : SumsOn(g, f, D(n))}
<1>1. \A s \in SUBSET S : IsFiniteSet(s) /\ Cardinality(s) \in Nat /\ Cardinality(s) <= Cardinality(S)
  BY FS_Subset, FS_CardinalityType
<1>2. \A s \in SUBSET S : s # {} =>
        /\ Any(s) \in s /\ s \ {Any(s)} \in SUBSET S
        /\ Cardinality(s \ {Any(s)}) = Cardinality(s) - 1
  BY <1>1, FS_RemoveElement DEF Any
<1>3. 0 \in T
  <2> DEFINE g == [s \in D(0) |-> 0]
  <2>1. \A s \in D(0) : s = {}
    BY <1>1, FS_EmptySet
  <2>2. SumsOn(g, f, D(0))
    BY <2>1 DEF SumsOn, SumBody
  <2> QED BY <2>2
<1>4. ASSUME NEW n \in Nat, n \in T PROVE n + 1 \in T
  <2>1. PICK g : SumsOn(g, f, D(n))
    BY <1>4
  <2> DEFINE h == [s \in D(n + 1) |-> SumBody(g, f, s)]
  <2>2. \A s \in D(n) : g[s] = SumBody(g, f, s) /\ s \in D(n + 1)
    <3> HIDE DEF D
    <3>1. \A s \in D(n) : s \in D(n + 1)
      BY <1>1 DEF D
    <3> QED BY <2>1, <3>1 DEF SumsOn
  <2>3. \A s \in D(n) : h[s] = g[s]
    BY <2>2
  <2>4. \A s \in D(n + 1) : s # {} => s \ {Any(s)} \in D(n)
    BY <1>1, <1>2
  <2>5. \A s \in D(n + 1) : SumBody(h, f, s) = SumBody(g, f, s)
    <3> HIDE DEF h, D
    <3> QED BY <2>3, <2>4 DEF SumBody
  <2>6. h = [s \in D(n + 1) |-> SumBody(h, f, s)]
    BY <2>5
  <2>7. SumsOn(h, f, D(n + 1))
    BY <2>6 DEF SumsOn
  <2>8. \E i : SumsOn(i, f, D(n + 1))
    <3> HIDE DEF h, D
    <3> QED BY <2>7
  <2> HIDE DEF D
  <2> QED BY <2>8
<1>5. Cardinality(S) \in T
  <2> HIDE DEF T
  <2>1. Nat \subseteq T
    BY <1>3, <1>4, NatSetInduction
  <2> QED BY <2>1, <1>1
<1>6. D(Cardinality(S)) = SUBSET S
  BY <1>1
<1> QED BY <1>5, <1>6

(* SumFunction is the value of such a function. *)
LEMMA SumFunctionSums ==
  ASSUME NEW f, IsFiniteSet(DOMAIN f)
  PROVE  \E g : SumsOn(g, f, SUBSET DOMAIN f) /\ SumFunction(f) = g[DOMAIN f]
<1> DEFINE P(g) == g = [s \in SUBSET DOMAIN f |->
                         IF s = {} THEN 0
                         ELSE f[CHOOSE x \in s : TRUE] + g[s \ {CHOOSE x \in s : TRUE}]]
           iter == CHOOSE g : P(g)
<1>1. SumFunction(f) = iter[DOMAIN f]
  BY DEF SumFunction, SumFunctionOnSet, FoldFunctionOnSet, MapThenFoldSet
<1>2. \A g : P(g) <=> SumsOn(g, f, SUBSET DOMAIN f)
  BY DEF SumsOn, SumBody, Any
<1> HIDE DEF P
<1>3. \E g : P(g)
  BY <1>2, SumExists
<1>4. P(iter)
  BY <1>3
<1> QED BY <1>1, <1>2, <1>4

(* What holds of a subset as soon as it holds of those with one element    *)
(* less holds of all of them.                                              *)
LEMMA SubsetInduction ==
  ASSUME NEW S, IsFiniteSet(S), NEW T,
         \A s \in SUBSET S : (\A x \in s : s \ {x} \in T) => s \in T
  PROVE  SUBSET S \subseteq T
<1> DEFINE R == StrictSubsetOrdering(S)
           U == (SUBSET S) \ T
<1>1. IsWellFoundedOn(R, SUBSET S)
  BY FS_StrictSubsetOrderingWellFounded, FS_FiniteSubsetsOfFinite
<1>2. SUFFICES ASSUME U # {} PROVE FALSE
  OBVIOUS
<1>3. U \subseteq SUBSET S
  OBVIOUS
<1> HIDE DEF R, U
<1>4. \E s \in U : \A t \in U : ~(<<t, s>> \in R)
  BY <1>1, <1>2, <1>3, WFMin
<1> USE DEF U
<1>5. PICK s \in U : \A t \in U : ~(<<t, s>> \in R)
  BY <1>4
<1>6. ASSUME NEW x \in s PROVE s \ {x} \in T
  <2>1. <<s \ {x}, s>> \in R
    BY DEF R, StrictSubsetOrdering
  <2> QED BY <1>5, <2>1
<1> QED BY <1>5, <1>6

(* What the sums of the subsets of S are, one element taken out. *)
Steps(g, f, S) ==
  /\ g[{}] = 0
  /\ \A s \in SUBSET S : s # {} => Any(s) \in s /\ g[s] = f[Any(s)] + g[s \ {Any(s)}]

LEMMA SumStep == \A S, f, g : SumsOn(g, f, SUBSET S) => Steps(g, f, S)
<1> SUFFICES ASSUME NEW S, NEW f, NEW g, SumsOn(g, f, SUBSET S) PROVE Steps(g, f, S)
  OBVIOUS
<1>1. \A s \in SUBSET S : g[s] = SumBody(g, f, s)
  BY DEF SumsOn
<1>2. \A s \in SUBSET S : s # {} => Any(s) \in s
  BY DEF Any
<1> QED BY <1>1, <1>2 DEF SumBody, Steps

(* Sums of numbers are numbers. *)
LEMMA SumsType ==
  ASSUME NEW S, IsFiniteSet(S), NEW V, V = Nat \/ V = Int, NEW f \in [S -> V],
         NEW g, SumsOn(g, f, SUBSET S)
  PROVE  \A s \in SUBSET S : g[s] \in V
<1> DEFINE T == {s \in SUBSET S : g[s] \in V}
<1>s. Steps(g, f, S)
  BY SumStep
<1>1. ASSUME NEW s \in SUBSET S, \A x \in s : s \ {x} \in T PROVE s \in T
  <2>1. CASE s = {}
    BY <1>s, <2>1 DEF Steps
  <2>2. CASE s # {}
    <3>1. Any(s) \in s /\ g[s] = f[Any(s)] + g[s \ {Any(s)}]
      BY <1>s, <2>2 DEF Steps
    <3>2. f[Any(s)] \in V /\ g[s \ {Any(s)}] \in V
      BY <1>1, <3>1
    <3> QED BY <3>1, <3>2
  <2> QED BY <2>1, <2>2
<1> HIDE DEF T
<1>2. SUBSET S \subseteq T
  BY <1>1, SubsetInduction
<1> QED BY <1>2 DEF T

(* The order does not matter: any element may be taken out first. *)
LEMMA SumsRemove ==
  ASSUME NEW S, IsFiniteSet(S), NEW f \in [S -> Int], NEW g, SumsOn(g, f, SUBSET S)
  PROVE  \A s \in SUBSET S : \A x \in s : g[s] = f[x] + g[s \ {x}]
<1> DEFINE T == {s \in SUBSET S : \A x \in s : g[s] = f[x] + g[s \ {x}]}
<1>s. Steps(g, f, S)
  BY SumStep
<1>t. \A s \in SUBSET S : g[s] \in Int
  BY SumsType
<1>1. ASSUME NEW s \in SUBSET S, \A x \in s : s \ {x} \in T PROVE s \in T
  <2> SUFFICES ASSUME NEW x \in s PROVE g[s] = f[x] + g[s \ {x}]
    OBVIOUS
  <2> DEFINE a == Any(s)
  <2>1. a \in s /\ g[s] = f[a] + g[s \ {a}]
    BY <1>s DEF Steps
  <2>2. CASE x = a
    BY <2>1, <2>2
  <2>3. CASE x # a
    <3> HIDE DEF a
    <3>1. g[s \ {a}] = f[x] + g[(s \ {a}) \ {x}]
      BY <1>1, <2>1, <2>3
    <3>2. g[s \ {x}] = f[a] + g[(s \ {x}) \ {a}]
      BY <1>1, <2>1, <2>3
    <3>3. (s \ {a}) \ {x} = (s \ {x}) \ {a}
      OBVIOUS
    <3>4. f[x] \in Int /\ f[a] \in Int /\ g[(s \ {a}) \ {x}] \in Int
      <4>1. (s \ {a}) \ {x} \in SUBSET S
        OBVIOUS
      <4> QED BY <1>t, <2>1, <4>1
    <3> DEFINE G == g[(s \ {a}) \ {x}]
    <3>5. g[s] = f[a] + (f[x] + G) /\ g[s \ {x}] = f[a] + G /\ G \in Int
      BY <2>1, <3>1, <3>2, <3>3, <3>4
    <3>6. f[x] \in Int /\ f[a] \in Int
      BY <3>4
    <3> HIDE DEF G
    <3> QED BY <3>5, <3>6
  <2> QED BY <2>2, <2>3
<1> HIDE DEF T
<1>2. SUBSET S \subseteq T
  BY <1>1, SubsetInduction
<1> QED BY <1>2 DEF T

(* The sum over a subset is the sum of the function restricted to it. *)
LEMMA SumsAgree ==
  ASSUME NEW S, IsFiniteSet(S), NEW f, NEW g, SumsOn(g, f, SUBSET S),
         NEW U \in SUBSET S, NEW h, SumsOn(h, Restrict(f, U), SUBSET U)
  PROVE  h[U] = g[U]
<1> DEFINE e == Restrict(f, U)
           T == {s \in SUBSET U : h[s] = g[s]}
<1>0. IsFiniteSet(U)
  BY FS_Subset
<1>s. Steps(g, f, S)
  BY SumStep
<1>t. Steps(h, e, U)
  BY SumStep
<1>1. ASSUME NEW s \in SUBSET U, \A x \in s : s \ {x} \in T PROVE s \in T
  <2>1. CASE s = {}
    BY <1>s, <1>t, <2>1 DEF Steps
  <2>2. CASE s # {}
    <3>1. Any(s) \in s /\ h[s] = e[Any(s)] + h[s \ {Any(s)}]
      BY <1>t, <2>2 DEF Steps
    <3>2. g[s] = f[Any(s)] + g[s \ {Any(s)}]
      BY <1>s, <2>2 DEF Steps
    <3>3. e[Any(s)] = f[Any(s)] /\ g[s \ {Any(s)}] = h[s \ {Any(s)}]
      BY <1>1, <3>1 DEF Restrict
    <3> HIDE DEF e
    <3> QED BY <3>1, <3>2, <3>3
  <2> QED BY <2>1, <2>2
<1> HIDE DEF T
<1>2. SUBSET U \subseteq T
  BY <1>0, <1>1, SubsetInduction
<1> QED BY <1>2 DEF T

-----------------------------------------------------------------------------
(* A sum of numbers is a number, a sum of integers an integer. *)
LEMMA SumNat ==
  ASSUME NEW S, IsFiniteSet(S), NEW f \in [S -> Nat]
  PROVE  SumFunction(f) \in Nat
<1>1. PICK g : SumsOn(g, f, SUBSET S) /\ SumFunction(f) = g[S]
  BY SumFunctionSums
<1>2. \A s \in SUBSET S : g[s] \in Nat
  BY <1>1, SumsType, Zenon
<1> QED BY <1>1, <1>2

LEMMA SumInt ==
  ASSUME NEW S, IsFiniteSet(S), NEW f \in [S -> Int]
  PROVE  SumFunction(f) \in Int
<1>1. PICK g : SumsOn(g, f, SUBSET S) /\ SumFunction(f) = g[S]
  BY SumFunctionSums
<1> QED BY <1>1, SumsType

(* A sum is any one of its terms and the sum of the others. *)
LEMMA SumRemove ==
  ASSUME NEW S, IsFiniteSet(S), NEW f \in [S -> Int], NEW x \in S
  PROVE  SumFunction(f) = f[x] + SumFunction(Restrict(f, S \ {x}))
<1> DEFINE U == S \ {x}
           e == Restrict(f, U)
<1>1. PICK g : SumsOn(g, f, SUBSET S) /\ SumFunction(f) = g[S]
  BY SumFunctionSums
<1>2. IsFiniteSet(U) /\ U \in SUBSET S /\ DOMAIN e = U
  BY FS_Subset DEF Restrict
<1> HIDE DEF U
<1>3. PICK h : SumsOn(h, e, SUBSET U) /\ SumFunction(e) = h[U]
  <2> HIDE DEF e
  <2> QED BY <1>2, SumFunctionSums
<1>4. h[U] = g[U]
  BY <1>1, <1>2, <1>3, SumsAgree
<1>5. g[S] = f[x] + g[U]
  BY <1>1, SumsRemove DEF U
<1> QED BY <1>1, <1>3, <1>4, <1>5 DEF e, U

(* Nothing adds up to zero. *)
LEMMA SumEmpty == ASSUME NEW f, DOMAIN f = {} PROVE SumFunction(f) = 0
<1>1. PICK g : SumsOn(g, f, SUBSET {}) /\ SumFunction(f) = g[{}]
  BY SumFunctionSums, FS_EmptySet
<1>2. Steps(g, f, {})
  BY <1>1, SumStep
<1> QED BY <1>1, <1>2 DEF Steps

(* Adding term by term adds the sums. *)
LEMMA SumPlus ==
  ASSUME NEW S, IsFiniteSet(S), NEW e \in [S -> Int], NEW f \in [S -> Int]
  PROVE  SumFunction([x \in S |-> e[x] + f[x]]) = SumFunction(e) + SumFunction(f)
<1> DEFINE b == [x \in S |-> e[x] + f[x]]
<1>0. b \in [S -> Int] /\ DOMAIN b = S /\ \A x \in S : b[x] = e[x] + f[x]
  OBVIOUS
<1> HIDE DEF b
<1>1. PICK g : SumsOn(g, e, SUBSET S) /\ SumFunction(e) = g[S]
  BY SumFunctionSums
<1>2. PICK h : SumsOn(h, f, SUBSET S) /\ SumFunction(f) = h[S]
  BY SumFunctionSums
<1>3. PICK k : SumsOn(k, b, SUBSET S) /\ SumFunction(b) = k[S]
  BY <1>0, SumFunctionSums
<1>s. Steps(g, e, S)
  BY <1>1, SumStep
<1>t. Steps(h, f, S)
  BY <1>2, SumStep
<1>u. Steps(k, b, S)
  BY <1>3, SumStep
<1> DEFINE T == {s \in SUBSET S : k[s] = g[s] + h[s]}
<1>4. ASSUME NEW s \in SUBSET S, \A x \in s : s \ {x} \in T PROVE s \in T
  <2>1. CASE s = {}
    BY <1>s, <1>t, <1>u, <2>1 DEF Steps
  <2>2. CASE s # {}
    <3> DEFINE a == Any(s)
               t == s \ {a}
    <3>1. a \in s /\ t \in SUBSET S /\ k[s] = b[a] + k[t]
      BY <1>u, <2>2 DEF Steps
    <3>2. g[s] = e[a] + g[t]
      BY <1>s, <2>2 DEF Steps
    <3>3. h[s] = f[a] + h[t]
      BY <1>t, <2>2 DEF Steps
    <3>4. k[t] = g[t] + h[t]
      BY <1>4, <3>1
    <3>5. g[t] \in Int
      BY <1>1, <3>1, SumsType
    <3>6. h[t] \in Int
      BY <1>2, <3>1, SumsType
    <3>7. e[a] \in Int /\ f[a] \in Int /\ b[a] = e[a] + f[a]
      BY <1>0, <3>1
    <3> HIDE DEF a, t
    <3> QED BY <3>1, <3>2, <3>3, <3>4, <3>5, <3>6, <3>7
  <2> QED BY <2>1, <2>2
<1> HIDE DEF T
<1>5. SUBSET S \subseteq T
  BY <1>4, SubsetInduction
<1> QED BY <1>1, <1>2, <1>3, <1>5 DEF T, b

(* A part of a function restricted again. *)
LEMMA RestrictTwice ==
  ASSUME NEW f, NEW s, NEW t \in SUBSET s PROVE Restrict(Restrict(f, s), t) = Restrict(f, t)
BY DEF Restrict

(* Terms that are zero may be left out. *)
LEMMA SumSupport ==
  ASSUME NEW S, IsFiniteSet(S), NEW f \in [S -> Int], NEW U \in SUBSET S,
         \A x \in S \ U : f[x] = 0
  PROVE  SumFunction(f) = SumFunction(Restrict(f, U))
<1> DEFINE Of(s) == SumFunction(Restrict(f, s))
           T == {s \in SUBSET S : Of(s) = Of(s \cap U)}
<1>1. ASSUME NEW s \in SUBSET S, NEW x \in s
      PROVE  Of(s) = f[x] + Of(s \ {x})
  <2>1. IsFiniteSet(s) /\ Restrict(f, s) \in [s -> Int] /\ Restrict(f, s)[x] = f[x]
    BY FS_Subset DEF Restrict
  <2>2. SumFunction(Restrict(f, s)) = f[x] + SumFunction(Restrict(Restrict(f, s), s \ {x}))
    BY <2>1, SumRemove
  <2>3. Restrict(Restrict(f, s), s \ {x}) = Restrict(f, s \ {x})
    BY RestrictTwice
  <2> QED BY <2>2, <2>3
<1>2. \A s \in SUBSET S : Of(s) \in Int
  <2> SUFFICES ASSUME NEW s \in SUBSET S PROVE Of(s) \in Int
    OBVIOUS
  <2>1. IsFiniteSet(s) /\ Restrict(f, s) \in [s -> Int]
    BY FS_Subset DEF Restrict
  <2> HIDE DEF T
  <2> QED BY <2>1, SumInt
<1> HIDE DEF Of
<1>3. ASSUME NEW s \in SUBSET S, \A x \in s : s \ {x} \in T
      PROVE  s \in T
  <2>1. CASE s = {}
    BY <2>1
  <2>2. CASE s # {}
    <3>1. PICK x \in s : TRUE
      BY <2>2
    <3>2. Of(s) = f[x] + Of(s \ {x}) /\ Of(s \ {x}) = Of((s \ {x}) \cap U)
      BY <1>1, <1>3, <3>1
    <3>3. CASE x \in U
      <4>1. (s \ {x}) \cap U = (s \cap U) \ {x}
        OBVIOUS
      <4>2. Of(s \cap U) = f[x] + Of((s \cap U) \ {x})
        BY <1>1, <3>1, <3>3
      <4> QED BY <3>2, <4>1, <4>2
    <3>4. CASE x \notin U
      <4>1. (s \ {x}) \cap U = s \cap U
        BY <3>4
      <4>2. f[x] = 0 /\ Of(s \cap U) \in Int
        BY <1>2, <3>1, <3>4
      <4>3. Of(s) = f[x] + Of(s \cap U)
        BY <3>2, <4>1, Zenon
      <4>4. Of(s) = Of(s \cap U)
        BY <4>2, <4>3
      <4> QED BY <4>4
    <3> QED BY <3>3, <3>4
  <2> QED BY <2>1, <2>2
<1> HIDE DEF T
<1>4. SUBSET S \subseteq T
  BY <1>3, SubsetInduction
<1>5. Of(S) = Of(S \cap U)
  BY <1>4 DEF T
<1>6. Restrict(f, S) = f /\ S \cap U = U
  BY DEF Restrict
<1> QED BY <1>5, <1>6 DEF Of
=============================================================================
