---------------------------------- MODULE Sums ----------------------------------
(***************************************************************************)
(* Sums of functions over finite sets: what the proofs about counters need *)
(* to know of SumFunctionOnSet.  Facts about all finite sets follow from   *)
(* there being a minimal one among those of which a fact does not hold.    *)
(***************************************************************************)
EXTENDS Integers, FiniteSets, Functions, FiniteSetTheorems, TLAPS

(* Among subsets of a finite set there is a minimal one.                   *)
LEMMA MinimalSet ==
  ASSUME NEW S, IsFiniteSet(S), NEW F \in SUBSET (SUBSET S), F # {}
  PROVE  \E T \in F : \A U \in F : U \subseteq T => U = T
<1>1. F \subseteq FiniteSubsetsOf(S)
  BY FS_FiniteSubsetsOfFinite
<1>2. PICK T \in F : \A U \in F : <<U, T>> \notin StrictSubsetOrdering(S)
  BY <1>1, FS_StrictSubsetOrderingWellFounded, WFMin
<1>3. QED BY <1>2 DEF StrictSubsetOrdering

(* The element that the recursion takes next, and what it makes of a       *)
(* function that is right for the smaller sets.                            *)
Picked(s) == CHOOSE x \in s : TRUE
Step(f, s, g) == IF s = {} THEN 0 ELSE f[Picked(s)] + g[s \ {Picked(s)}]
Recursion(f, S, g) == [s \in SUBSET S |-> Step(f, s, g)]

LEMMA SumIsRecursion ==
  ASSUME NEW f, NEW S
  PROVE  SumFunctionOnSet(f, S) = (CHOOSE g : g = Recursion(f, S, g))[S]
BY Zenon DEF SumFunctionOnSet, FoldFunctionOnSet, MapThenFoldSet, Recursion, Step, Picked

LEMMA PickedIn == ASSUME NEW s, s # {} PROVE Picked(s) \in s
BY DEF Picked

LEMMA RecursionAt ==
  ASSUME NEW f, NEW S, NEW g, g = Recursion(f, S, g)
  PROVE  \A s \in SUBSET S : g[s] = Step(f, s, g)
BY Zenon DEF Recursion

(* Two such functions agree where both are defined.                        *)
LEMMA RecursionUnique ==
  ASSUME NEW f, NEW S, IsFiniteSet(S), NEW R, NEW g, NEW h,
         g = Recursion(f, S, g), h = Recursion(f, R, h), S \subseteq R
  PROVE  g[S] = h[S]
<1> DEFINE F == {s \in SUBSET S : g[s] # h[s]}
<1>1. SUFFICES ASSUME F # {} PROVE FALSE
  OBVIOUS
<1>2. F \in SUBSET (SUBSET S)
  OBVIOUS
<1>3. PICK s \in F : \A u \in F : u \subseteq s => u = s
  <2> HIDE DEF F
  <2> QED BY <1>1, <1>2, MinimalSet
<1>4. s \in SUBSET S /\ s \in SUBSET R
  OBVIOUS
<1>5. g[s] = Step(f, s, g)
  BY <1>4, RecursionAt, Zenon
<1>6. h[s] = Step(f, s, h)
  BY <1>4, RecursionAt, Zenon
<1>7. s # {} => g[s \ {Picked(s)}] = h[s \ {Picked(s)}]
  BY <1>3, PickedIn
<1> QED BY <1>5, <1>6, <1>7 DEF Step

LEMMA RecursionExists ==
  ASSUME NEW f, NEW S, IsFiniteSet(S)
  PROVE  \E g : g = Recursion(f, S, g)
<1> DEFINE F == {s \in SUBSET S : ~ \E g : g = Recursion(f, s, g)}
           at(s) == CHOOSE g : g = Recursion(f, s, g)
<1>1. SUFFICES ASSUME F # {} PROVE FALSE
  OBVIOUS
<1>2. PICK T \in F : \A u \in F : u \subseteq T => u = T
  <2>1. F \in SUBSET (SUBSET S)
    OBVIOUS
  <2> HIDE DEF F
  <2> QED BY <1>1, <2>1, MinimalSet
<1>3. T \in SUBSET S /\ IsFiniteSet(T)
  BY FS_Subset
<1>4. ASSUME NEW s \in SUBSET T, s # T PROVE at(s) = Recursion(f, s, at(s))
  <2>1. \E g : g = Recursion(f, s, g)
    BY <1>2, <1>3, <1>4
  <2> QED BY <2>1, Zenon
<1> DEFINE value(s) == IF s = {} THEN 0 ELSE f[Picked(s)] + at(s \ {Picked(s)})[s \ {Picked(s)}]
           G == [s \in SUBSET T |-> value(s)]
<1> HIDE DEF at
<1>5. ASSUME NEW s \in SUBSET T, s # T PROVE at(s)[s] = value(s)
  <2>1. at(s) = Recursion(f, s, at(s))
    BY <1>4, <1>5
  <2>2. at(s)[s] = Step(f, s, at(s))
    BY <2>1, RecursionAt, Zenon
  <2>3. CASE s # {}
    <3> DEFINE u == s \ {Picked(s)}
    <3>1. u \subseteq s /\ u # T /\ u \in SUBSET T /\ IsFiniteSet(u)
      BY <1>3, <1>5, PickedIn, FS_Subset
    <3> HIDE DEF u
    <3>2. at(u) = Recursion(f, u, at(u))
      BY <1>4, <3>1
    <3>3. at(u)[u] = at(s)[u]
      BY <2>1, <3>1, <3>2, RecursionUnique
    <3> QED BY <2>2, <2>3, <3>3, Zenon DEF u, Step
  <2> QED BY <2>2, <2>3 DEF Step
<1>6. ASSUME NEW s \in SUBSET T, s # {}
      PROVE  at(s \ {Picked(s)})[s \ {Picked(s)}] = G[s \ {Picked(s)}]
  <2> DEFINE u == s \ {Picked(s)}
  <2>1. u \in SUBSET T /\ u # T
    BY <1>6, PickedIn
  <2> HIDE DEF u
  <2>2. at(u)[u] = value(u) /\ G[u] = value(u)
    BY <1>5, <2>1
  <2> QED BY <2>2 DEF u
<1>7. \A s \in SUBSET T : value(s) = Step(f, s, G)
  BY <1>6, Zenon DEF Step
<1>8. G = [s \in SUBSET T |-> Step(f, s, G)]
  <2> HIDE DEF value
  <2>1. G = [s \in SUBSET T |-> value(s)]
    OBVIOUS
  <2> HIDE DEF G
  <2> QED BY <1>7, <2>1, Zenon
<1> HIDE DEF G
<1>9. G = Recursion(f, T, G)
  BY <1>8, Zenon DEF Recursion
<1> QED BY <1>2, <1>9

(* The sum over no element, and over one more.                             *)
LEMMA SumByRecursion ==
  ASSUME NEW f, NEW S, IsFiniteSet(S)
  PROVE  \E g : g = Recursion(f, S, g) /\ SumFunctionOnSet(f, S) = g[S]
<1> DEFINE g == CHOOSE k : k = Recursion(f, S, k)
<1>1. g = Recursion(f, S, g)
  BY RecursionExists, Zenon
<1> QED BY <1>1, SumIsRecursion, Zenon

LEMMA SumEmpty == ASSUME NEW f PROVE SumFunctionOnSet(f, {}) = 0
<1>1. PICK g : g = Recursion(f, {}, g) /\ SumFunctionOnSet(f, {}) = g[{}]
  BY SumByRecursion, FS_EmptySet
<1>2. {} \in SUBSET {}
  OBVIOUS
<1>3. g[{}] = Step(f, {}, g)
  BY <1>1, <1>2, RecursionAt, Zenon
<1> QED BY <1>1, <1>3 DEF Step

LEMMA SumPicked ==
  ASSUME NEW f, NEW S, IsFiniteSet(S), S # {}
  PROVE  SumFunctionOnSet(f, S) = f[Picked(S)] + SumFunctionOnSet(f, S \ {Picked(S)})
<1> DEFINE R == S \ {Picked(S)}
<1>1. IsFiniteSet(R) /\ R \in SUBSET S /\ S \in SUBSET S
  BY FS_Subset
<1>2. PICK g : g = Recursion(f, S, g) /\ SumFunctionOnSet(f, S) = g[S]
  BY SumByRecursion
<1>3. PICK h : h = Recursion(f, R, h) /\ SumFunctionOnSet(f, R) = h[R]
  BY <1>1, SumByRecursion
<1>4. g[S] = Step(f, S, g)
  BY <1>1, <1>2, RecursionAt, Zenon
<1>5. h[R] = g[R]
  <2> HIDE DEF R
  <2>1. R \subseteq S
    BY <1>1
  <2> QED BY <2>1, <1>1, <1>2, <1>3, RecursionUnique
<1> QED BY <1>2, <1>3, <1>4, <1>5, Zenon DEF Step

(* What is added up are integers.                                          *)
IntegerOn(f, S) == \A x \in S : f[x] \in Int
Sum(f, S) == SumFunctionOnSet(f, S)

(* Of finite sets without a property P, given as the set F of them, some   *)
(* has it when one element is left out.                                    *)
LEMMA NoExceptions ==
  ASSUME NEW S, IsFiniteSet(S), NEW F \in SUBSET (SUBSET S), {} \notin F,
         \A T \in F : \E x \in T : T \ {x} \in F
  PROVE  F = {}
<1>1. SUFFICES ASSUME F # {} PROVE FALSE
  OBVIOUS
<1>2. PICK T \in F : \A U \in F : U \subseteq T => U = T
  BY <1>1, MinimalSet
<1>3. PICK x \in T : T \ {x} \in F
  OBVIOUS
<1> QED BY <1>2, <1>3

LEMMA SumInt ==
  ASSUME NEW f, NEW S, IsFiniteSet(S), IntegerOn(f, S)
  PROVE  Sum(f, S) \in Int
<1> DEFINE F == {T \in SUBSET S : Sum(f, T) \notin Int}
<1>1. {} \notin F
  BY SumEmpty DEF Sum
<1>2. ASSUME NEW T \in F PROVE \E x \in T : T \ {x} \in F
  <2>1. IsFiniteSet(T) /\ T # {}
    BY <1>1, FS_Subset
  <2>2. Sum(f, T) = f[Picked(T)] + Sum(f, T \ {Picked(T)}) /\ Picked(T) \in T
    BY <2>1, SumPicked, PickedIn DEF Sum
  <2>3. f[Picked(T)] \in Int
    BY <2>2 DEF IntegerOn
  <2>4. Sum(f, T) \notin Int /\ T \in SUBSET S
    OBVIOUS
  <2>5. Sum(f, T \ {Picked(T)}) \notin Int
    BY <2>2, <2>3, <2>4
  <2> QED BY <2>2, <2>4, <2>5
<1>3. F = {}
  <2>1. F \in SUBSET (SUBSET S)
    OBVIOUS
  <2> HIDE DEF F
  <2> QED BY <1>1, <1>2, <2>1, NoExceptions
<1> QED BY <1>3

(* The order in which the elements are taken does not matter.              *)
LEMMA SumRemove ==
  ASSUME NEW f, NEW S, IsFiniteSet(S), IntegerOn(f, S), NEW x \in S
  PROVE  Sum(f, S) = f[x] + Sum(f, S \ {x})
<1> DEFINE F == {T \in SUBSET S : \E y \in T : Sum(f, T) # f[y] + Sum(f, T \ {y})}
<1>1. {} \notin F
  OBVIOUS
<1>2. ASSUME NEW T \in F PROVE \E y \in T : T \ {y} \in F
  <2>1. IsFiniteSet(T) /\ T # {} /\ T \in SUBSET S
    BY <1>1, FS_Subset
  <2>2. PICK y \in T : Sum(f, T) # f[y] + Sum(f, T \ {y})
    OBVIOUS
  <2> DEFINE p == Picked(T)
             U == T \ {p}
             V == T \ {y}
             W == T \ {p, y}
  <2>3. Sum(f, T) = f[p] + Sum(f, U) /\ p \in T
    BY <2>1, SumPicked, PickedIn DEF Sum
  <2>4. p # y /\ y \in U
    BY <2>2, <2>3
  <2>5. /\ IsFiniteSet(U) /\ IsFiniteSet(V) /\ IsFiniteSet(W)
        /\ V # {} /\ U \in SUBSET S /\ V \in SUBSET S /\ W = U \ {y} /\ W = V \ {p}
        /\ p \in V
    BY <2>1, <2>3, <2>4, FS_Subset
  <2> HIDE DEF p, U, V, W
  <2>6. Sum(f, U) \in Int /\ Sum(f, V) \in Int /\ Sum(f, W) \in Int /\ f[p] \in Int /\ f[y] \in Int
    <3>1. IntegerOn(f, U) /\ IntegerOn(f, V) /\ IntegerOn(f, W) /\ f[p] \in Int /\ f[y] \in Int
      BY <2>1, <2>3, <2>5 DEF IntegerOn
    <3> QED BY <3>1, <2>5, SumInt
  <2>7. U \in F \/ V \in F
    <3>1. SUFFICES ASSUME U \notin F, V \notin F PROVE FALSE
      OBVIOUS
    <3>2. Sum(f, U) = f[y] + Sum(f, W)
      BY <2>4, <2>5, <3>1
    <3>3. Sum(f, V) = f[p] + Sum(f, W)
      BY <2>5, <3>1
    <3>4. Sum(f, T) # f[y] + Sum(f, V)
      BY <2>2 DEF V
    <3> QED BY <2>3, <2>6, <3>2, <3>3, <3>4
  <2> QED BY <2>3, <2>7 DEF U, V
<1>3. F = {}
  <2>1. F \in SUBSET (SUBSET S)
    OBVIOUS
  <2> HIDE DEF F
  <2> QED BY <1>1, <1>2, <2>1, NoExceptions
<1> QED BY <1>3

LEMMA SumAdd ==
  ASSUME NEW f, NEW S, IsFiniteSet(S), NEW x, x \notin S, IntegerOn(f, S), f[x] \in Int
  PROVE  Sum(f, S \cup {x}) = f[x] + Sum(f, S)
<1>1. (S \cup {x}) \ {x} = S /\ IsFiniteSet(S \cup {x}) /\ IntegerOn(f, S \cup {x})
  BY FS_AddElement DEF IntegerOn
<1>2. x \in S \cup {x}
  OBVIOUS
<1> DEFINE T == S \cup {x}
<1> HIDE DEF T
<1>3. Sum(f, T) = f[x] + Sum(f, T \ {x})
  BY <1>1, <1>2, SumRemove DEF T
<1> QED BY <1>1, <1>3 DEF T

LEMMA SumSame ==
  ASSUME NEW f, NEW g, NEW S, IsFiniteSet(S), \A x \in S : f[x] = g[x]
  PROVE  Sum(f, S) = Sum(g, S)
<1> DEFINE F == {T \in SUBSET S : Sum(f, T) # Sum(g, T)}
<1>1. {} \notin F
  BY SumEmpty DEF Sum
<1>2. ASSUME NEW T \in F PROVE \E x \in T : T \ {x} \in F
  <2>1. IsFiniteSet(T) /\ T # {}
    BY <1>1, FS_Subset
  <2>2. /\ Sum(f, T) = f[Picked(T)] + Sum(f, T \ {Picked(T)})
        /\ Sum(g, T) = g[Picked(T)] + Sum(g, T \ {Picked(T)})
        /\ Picked(T) \in T
    BY <2>1, SumPicked, PickedIn DEF Sum
  <2>3. f[Picked(T)] = g[Picked(T)]
    BY <2>2
  <2> QED BY <2>2, <2>3
<1>3. F = {}
  <2>1. F \in SUBSET (SUBSET S)
    OBVIOUS
  <2> HIDE DEF F
  <2> QED BY <1>1, <1>2, <2>1, NoExceptions
<1> QED BY <1>3

(* Sums grow with what is added up.                                        *)
LEMMA SumAtMost ==
  ASSUME NEW f, NEW g, NEW S, IsFiniteSet(S), IntegerOn(f, S), IntegerOn(g, S),
         \A x \in S : f[x] <= g[x]
  PROVE  Sum(f, S) <= Sum(g, S)
<1> DEFINE F == {T \in SUBSET S : ~ Sum(f, T) <= Sum(g, T)}
<1>1. {} \notin F
  BY SumEmpty DEF Sum
<1>2. ASSUME NEW T \in F PROVE \E x \in T : T \ {x} \in F
  <2>1. IsFiniteSet(T) /\ T # {} /\ T \in SUBSET S
    BY <1>1, FS_Subset
  <2> DEFINE p == Picked(T)
             U == T \ {p}
  <2>2. /\ Sum(f, T) = f[p] + Sum(f, U)
        /\ Sum(g, T) = g[p] + Sum(g, U)
        /\ p \in T
    BY <2>1, SumPicked, PickedIn DEF Sum
  <2>3. f[p] <= g[p] /\ f[p] \in Int /\ g[p] \in Int /\ IsFiniteSet(U)
        /\ IntegerOn(f, U) /\ IntegerOn(g, U)
    BY <2>1, <2>2, FS_Subset DEF IntegerOn
  <2> HIDE DEF p, U
  <2>4. Sum(f, U) \in Int /\ Sum(g, U) \in Int
    BY <2>3, SumInt
  <2>5. ~ Sum(f, T) <= Sum(g, T)
    OBVIOUS
  <2>6. ~ Sum(f, U) <= Sum(g, U)
    BY <2>2, <2>3, <2>4, <2>5
  <2> QED BY <2>1, <2>2, <2>6 DEF U
<1>3. F = {}
  <2>1. F \in SUBSET (SUBSET S)
    OBVIOUS
  <2> HIDE DEF F
  <2> QED BY <1>1, <1>2, <2>1, NoExceptions
<1> QED BY <1>3

LEMMA SumZero ==
  ASSUME NEW f, NEW S, IsFiniteSet(S), \A x \in S : f[x] = 0
  PROVE  Sum(f, S) = 0
<1> DEFINE F == {T \in SUBSET S : Sum(f, T) # 0}
<1>1. {} \notin F
  BY SumEmpty DEF Sum
<1>2. ASSUME NEW T \in F PROVE \E x \in T : T \ {x} \in F
  <2>1. IsFiniteSet(T) /\ T # {} /\ T \in SUBSET S
    BY <1>1, FS_Subset
  <2>2. Sum(f, T) = f[Picked(T)] + Sum(f, T \ {Picked(T)}) /\ Picked(T) \in T
    BY <2>1, SumPicked, PickedIn DEF Sum
  <2>3. f[Picked(T)] = 0
    BY <2>1, <2>2
  <2>4. Sum(f, T \ {Picked(T)}) # 0
    BY <2>2, <2>3
  <2> QED BY <2>1, <2>2, <2>4
<1>3. F = {}
  <2>1. F \in SUBSET (SUBSET S)
    OBVIOUS
  <2> HIDE DEF F
  <2> QED BY <1>1, <1>2, <2>1, NoExceptions
<1> QED BY <1>3

LEMMA SumNat ==
  ASSUME NEW f, NEW S, IsFiniteSet(S), \A x \in S : f[x] \in Nat
  PROVE  Sum(f, S) \in Nat
<1> DEFINE zero == [x \in S |-> 0]
<1>1. IntegerOn(f, S) /\ IntegerOn(zero, S) /\ \A x \in S : zero[x] <= f[x]
  BY DEF IntegerOn
<1>2. Sum(zero, S) = 0
  <2>1. \A x \in S : zero[x] = 0
    OBVIOUS
  <2> HIDE DEF zero
  <2> QED BY <2>1, SumZero
<1> HIDE DEF zero
<1>3. Sum(f, S) \in Int /\ Sum(zero, S) <= Sum(f, S)
  BY <1>1, SumInt, SumAtMost
<1> QED BY <1>2, <1>3

(* One value changes.                                                      *)
LEMMA SumChange ==
  ASSUME NEW f, NEW g, NEW S, IsFiniteSet(S), NEW x \in S, IntegerOn(f, S), g[x] \in Int,
         \A y \in S \ {x} : g[y] = f[y]
  PROVE  Sum(g, S) = Sum(f, S) - f[x] + g[x]
<1> DEFINE R == S \ {x}
<1>1. IsFiniteSet(R) /\ IntegerOn(f, R) /\ IntegerOn(g, S) /\ f[x] \in Int
  BY FS_Subset DEF IntegerOn
<1>2. Sum(f, S) = f[x] + Sum(f, R) /\ Sum(g, S) = g[x] + Sum(g, R)
  BY <1>1, SumRemove
<1>3. Sum(g, R) = Sum(f, R)
  <2>1. \A y \in R : g[y] = f[y]
    OBVIOUS
  <2> HIDE DEF R
  <2> QED BY <1>1, <2>1, SumSame
<1>4. Sum(f, R) \in Int
  <2> HIDE DEF R
  <2> QED BY <1>1, SumInt
<1> QED BY <1>1, <1>2, <1>3, <1>4

(* Over two parts of a set.                                                *)
LEMMA SumSplit ==
  ASSUME NEW f, NEW S, IsFiniteSet(S), IntegerOn(f, S), NEW A \in SUBSET S
  PROVE  Sum(f, S) = Sum(f, A) + Sum(f, S \ A)
<1> DEFINE F == {T \in SUBSET A : Sum(f, (S \ A) \cup T) # Sum(f, T) + Sum(f, S \ A)}
<1>1. {} \notin F
  <2>1. Sum(f, S \ A) \in Int /\ (S \ A) \cup {} = S \ A /\ Sum(f, {}) = 0
    <3>1. IsFiniteSet(S \ A) /\ IntegerOn(f, S \ A)
      BY FS_Subset DEF IntegerOn
    <3> QED BY <3>1, SumInt, SumEmpty DEF Sum
  <2> QED BY <2>1
<1>2. ASSUME NEW T \in F PROVE \E x \in T : T \ {x} \in F
  <2>1. T \in SUBSET A /\ IsFiniteSet(T) /\ T # {}
    BY <1>1, FS_Subset
  <2>2. PICK x \in T : TRUE
    BY <2>1
  <2> DEFINE U == T \ {x}
             B == S \ A
             C == B \cup T
             D == B \cup U
  <2>3. /\ IsFiniteSet(B) /\ IsFiniteSet(C) /\ IsFiniteSet(D) /\ IsFiniteSet(U)
        /\ x \in C /\ D = C \ {x} /\ f[x] \in Int
        /\ IntegerOn(f, B) /\ IntegerOn(f, C) /\ IntegerOn(f, D) /\ IntegerOn(f, T) /\ IntegerOn(f, U)
    BY <2>1, <2>2, FS_Subset DEF IntegerOn
  <2>4. Sum(f, C) # Sum(f, T) + Sum(f, B)
    OBVIOUS
  <2> HIDE DEF B, C, D
  <2>5. Sum(f, C) = f[x] + Sum(f, D)
    BY <2>3, SumRemove
  <2>6. Sum(f, T) = f[x] + Sum(f, U)
    BY <2>1, <2>2, <2>3, SumRemove
  <2> HIDE DEF U
  <2>7. Sum(f, B) \in Int /\ Sum(f, D) \in Int /\ Sum(f, U) \in Int
    BY <2>3, SumInt
  <2>8. Sum(f, D) # Sum(f, U) + Sum(f, B)
    BY <2>3, <2>4, <2>5, <2>6, <2>7
  <2> QED BY <2>1, <2>2, <2>8 DEF U, B, D
<1>3. F = {}
  <2>1. F \in SUBSET (SUBSET A) /\ IsFiniteSet(A)
    BY FS_Subset
  <2> HIDE DEF F
  <2> QED BY <1>1, <1>2, <2>1, NoExceptions
<1>4. (S \ A) \cup A = S
  OBVIOUS
<1> QED BY <1>3, <1>4

(* What is added up are natural numbers: a part of them is no more.        *)
LEMMA SumPart ==
  ASSUME NEW f, NEW S, IsFiniteSet(S), \A x \in S : f[x] \in Nat, NEW A \in SUBSET S
  PROVE  Sum(f, A) <= Sum(f, S)
<1>1. IsFiniteSet(A) /\ IsFiniteSet(S \ A) /\ IntegerOn(f, S)
  BY FS_Subset DEF IntegerOn
<1>2. Sum(f, A) \in Nat /\ Sum(f, S \ A) \in Nat
  BY <1>1, SumNat
<1>3. Sum(f, S) = Sum(f, A) + Sum(f, S \ A)
  BY <1>1, SumSplit
<1> QED BY <1>2, <1>3
(* The sum of two functions' sums.                                         *)
LEMMA SumPlus ==
  ASSUME NEW f, NEW g, NEW h, NEW S, IsFiniteSet(S), IntegerOn(f, S), IntegerOn(g, S),
         \A x \in S : h[x] = f[x] + g[x]
  PROVE  Sum(h, S) = Sum(f, S) + Sum(g, S)
<1> DEFINE F == {T \in SUBSET S : Sum(h, T) # Sum(f, T) + Sum(g, T)}
<1>1. {} \notin F
  BY SumEmpty DEF Sum
<1>2. ASSUME NEW T \in F PROVE \E x \in T : T \ {x} \in F
  <2>1. T \in SUBSET S /\ IsFiniteSet(T) /\ IntegerOn(f, T) /\ IntegerOn(g, T) /\ IntegerOn(h, T)
    BY <1>2, FS_Subset DEF IntegerOn
  <2>2. PICK x \in T : TRUE
    BY <1>1, <1>2
  <2>3. /\ IsFiniteSet(T \ {x}) /\ IntegerOn(f, T \ {x}) /\ IntegerOn(g, T \ {x})
        /\ f[x] \in Int /\ g[x] \in Int /\ h[x] = f[x] + g[x]
    BY <2>1, FS_Subset DEF IntegerOn
  <2>4. /\ Sum(f, T) = f[x] + Sum(f, T \ {x}) /\ Sum(g, T) = g[x] + Sum(g, T \ {x})
        /\ Sum(h, T) = h[x] + Sum(h, T \ {x})
    BY <2>1, SumRemove
  <2>5. Sum(f, T \ {x}) \in Int /\ Sum(g, T \ {x}) \in Int
    BY <2>3, SumInt
  <2>6. Sum(h, T) # Sum(f, T) + Sum(g, T)
    BY <1>2
  <2>7. Sum(h, T \ {x}) # Sum(f, T \ {x}) + Sum(g, T \ {x})
    BY <2>3, <2>4, <2>5, <2>6
  <2> QED BY <2>1, <2>7
<1> HIDE DEF F
<1>3. F \in SUBSET (SUBSET S)
  BY DEF F
<1>4. F = {}
  BY <1>1, <1>2, <1>3, NoExceptions
<1> QED BY <1>4 DEF F

(* What is at most one for each is at most as many as there are.           *)
LEMMA SumCounts ==
  ASSUME NEW f, NEW S, IsFiniteSet(S), \A x \in S : f[x] \in 0..1
  PROVE  Sum(f, S) \in 0..Cardinality(S)
<1> DEFINE F == {T \in SUBSET S : ~ Sum(f, T) <= Cardinality(T)}
<1>1. {} \notin F
  BY SumEmpty, FS_EmptySet DEF Sum
<1>2. ASSUME NEW T \in F PROVE \E x \in T : T \ {x} \in F
  <2>1. T \in SUBSET S /\ IsFiniteSet(T) /\ IntegerOn(f, T)
    BY <1>2, FS_Subset DEF IntegerOn
  <2>2. PICK x \in T : TRUE
    BY <1>1, <1>2
  <2>3. IsFiniteSet(T \ {x}) /\ IntegerOn(f, T \ {x}) /\ f[x] \in 0..1
    BY <2>1, FS_Subset DEF IntegerOn
  <2>4. Sum(f, T) = f[x] + Sum(f, T \ {x}) /\ Sum(f, T \ {x}) \in Int
    BY <2>1, <2>3, SumRemove, SumInt
  <2>5. Cardinality(T \ {x}) = Cardinality(T) - 1 /\ Cardinality(T) \in Nat
    BY <2>1, FS_RemoveElement, FS_CardinalityType
  <2>6. ~ Sum(f, T) <= Cardinality(T)
    BY <1>2
  <2>7. ~ Sum(f, T \ {x}) <= Cardinality(T \ {x})
    BY <2>3, <2>4, <2>5, <2>6
  <2> QED BY <2>1, <2>7
<1> HIDE DEF F
<1>3. F \in SUBSET (SUBSET S)
  BY DEF F
<1>4. F = {}
  BY <1>1, <1>2, <1>3, NoExceptions
<1>5. Sum(f, S) \in Nat /\ Cardinality(S) \in Nat /\ Sum(f, S) <= Cardinality(S)
  <2>1. \A x \in S : f[x] \in Nat
    OBVIOUS
  <2>2. Sum(f, S) \in Nat /\ Cardinality(S) \in Nat
    BY <2>1, SumNat, FS_CardinalityType
  <2> QED BY <1>4, <2>2 DEF F
<1> QED BY <1>5

(* Sums over disjoint parts of a set add up to the sum over their union.   *)
LEMMA SumParts ==
  ASSUME NEW f, NEW T, IsFiniteSet(T), \A x \in T : f[x] \in Nat,
         NEW S, IsFiniteSet(S), NEW P, \A b \in S : P[b] \subseteq T,
         \A b, c \in S : b # c => P[b] \cap P[c] = {},
         NEW g, \A b \in S : g[b] = Sum(f, P[b])
  PROVE  Sum(g, S) = Sum(f, UNION {P[b] : b \in S}) /\ IntegerOn(g, S)
<1> DEFINE All(R) == UNION {P[b] : b \in R}
           F == {R \in SUBSET S : Sum(g, R) # Sum(f, All(R))}
<1>1. ASSUME NEW R \in SUBSET S
      PROVE  IsFiniteSet(R) /\ All(R) \in SUBSET T /\ IsFiniteSet(All(R)) /\ Sum(f, All(R)) \in Nat
  <2>1. All(R) \in SUBSET T
    OBVIOUS
  <2> HIDE DEF All
  <2>2. IsFiniteSet(R) /\ IsFiniteSet(All(R)) /\ \A x \in All(R) : f[x] \in Nat
    BY <2>1, FS_Subset
  <2> QED BY <2>1, <2>2, SumNat
<1>2. IntegerOn(g, S)
  <2>1. ASSUME NEW b \in S PROVE g[b] \in Int
    <3>1. IsFiniteSet(P[b]) /\ \A x \in P[b] : f[x] \in Nat
      BY FS_Subset
    <3> QED BY <3>1, SumNat
  <2> QED BY <2>1 DEF IntegerOn
<1>3. {} \notin F
  <2>1. All({}) = {}
    OBVIOUS
  <2> QED BY <2>1, SumEmpty DEF Sum
<1>4. ASSUME NEW R \in F PROVE \E b \in R : R \ {b} \in F
  <2>1. R \in SUBSET S /\ Sum(g, R) # Sum(f, All(R)) /\ R # {}
    BY <1>3
  <2>2. PICK b \in R : TRUE
    BY <2>1
  <2> DEFINE Q == R \ {b}
  <2>3. Q \in SUBSET S /\ b \in S /\ All(R) = All(Q) \cup P[b] /\ All(R) \ All(Q) = P[b]
    BY <2>1
  <2> HIDE DEF Q, All
  <2>4. Sum(g, R) = g[b] + Sum(g, Q)
    <3>1. IntegerOn(g, R) /\ IsFiniteSet(R)
      BY <1>1, <1>2, <2>1 DEF IntegerOn
    <3> QED BY <2>2, <3>1, SumRemove DEF Q
  <2>5. Sum(f, All(R)) = Sum(f, All(Q)) + Sum(f, P[b])
    <3>1. All(Q) \in SUBSET All(R) /\ IntegerOn(f, All(R)) /\ IsFiniteSet(All(R))
      BY <1>1, <2>1, <2>3 DEF IntegerOn
    <3> QED BY <2>3, <3>1, SumSplit
  <2>6. g[b] = Sum(f, P[b]) /\ g[b] \in Int /\ Sum(g, Q) \in Int /\ Sum(f, All(Q)) \in Int
    <3>1. IsFiniteSet(Q) /\ IntegerOn(g, Q) /\ g[b] \in Int
      BY <1>1, <1>2, <2>3 DEF IntegerOn
    <3> QED BY <1>1, <2>3, <3>1, SumInt
  <2>7. Sum(g, Q) # Sum(f, All(Q))
    BY <2>1, <2>4, <2>5, <2>6
  <2> QED BY <2>2, <2>3, <2>7 DEF Q
<1> HIDE DEF F, All
<1>5. F \in SUBSET (SUBSET S)
  BY DEF F
<1>6. F = {}
  BY <1>3, <1>4, <1>5, NoExceptions
<1> QED BY <1>2, <1>6 DEF F, All

(* The same, for a union that has a name. *)
LEMMA SumPartsOf ==
  ASSUME NEW f, NEW T, IsFiniteSet(T), \A x \in T : f[x] \in Nat,
         NEW S, IsFiniteSet(S), NEW P, \A b \in S : P[b] \subseteq T,
         \A b, c \in S : b # c => P[b] \cap P[c] = {},
         NEW g, \A b \in S : g[b] = Sum(f, P[b]),
         NEW V, V = UNION {P[b] : b \in S}
  PROVE  Sum(g, S) = Sum(f, V) /\ IntegerOn(g, S)
<1>1. Sum(g, S) = Sum(f, UNION {P[b] : b \in S}) /\ IntegerOn(g, S)
  BY SumParts, SMTT(60)
<1> QED BY <1>1

=================================================================================
