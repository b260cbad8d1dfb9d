---------------------------- MODULE SumTheorems ----------------------------
(***************************************************************************)
(* Facts about SumFunction, the sum of the values of a function, that the   *)
(* proofs about the ledgers rest on.  The fold behind it is a recursive     *)
(* function on the subsets of its domain, which takes out one element after *)
(* another in an order of its own.  The induction is made with the least    *)
(* counterexample, a set of naturals, so that no operator is instantiated.  *)
(***************************************************************************)
EXTENDS Integers, Functions, FiniteSetTheorems, WellFoundedInduction, TLAPS

Taken(s) == CHOOSE x \in s : TRUE

(* g is what the fold computes: the sum of f over the sets in SS *)
SumsOn(f, SS, g) ==
    g = [s \in SS |-> IF s = {} THEN 0 ELSE f[Taken(s)] + g[s \ {Taken(s)}]]

LEMMA SumIsChosen ==
  ASSUME NEW f, NEW S
  PROVE  SumFunctionOnSet(f, S) = (CHOOSE g : SumsOn(f, SUBSET S, g))[S]
  BY DEF SumFunctionOnSet, FoldFunctionOnSet, MapThenFoldSet, SumsOn, Taken

(* The least number of a set of naturals. *)
LEMMA LeastNatural ==
  ASSUME NEW T, T \subseteq Nat, T # {}
  PROVE  \E n \in T : \A m \in T : n <= m
<1>1. \E n \in T : \A m \in T : ~(<<m, n>> \in OpToRel(<, Nat))
  BY NatLessThanWellFounded, WFMin
<1>2. PICK n \in T : \A m \in T : ~(<<m, n>> \in OpToRel(<, Nat))
  BY <1>1
<1>3. ASSUME NEW m \in T PROVE n <= m
  <2>1. m \in Nat /\ n \in Nat
    OBVIOUS
  <2>2. ~(m < n)
    BY <1>2, <2>1 DEF OpToRel
  <2> QED
    BY <2>1, <2>2
<1> QED
  BY <1>3

LEMMA TakenIn == ASSUME NEW s, s # {} PROVE Taken(s) \in s
  BY DEF Taken

(* Taking one element out of a finite set makes it smaller. *)
LEMMA TakenOut ==
  ASSUME NEW s, IsFiniteSet(s), NEW x \in s
  PROVE  /\ IsFiniteSet(s \ {x}) /\ Cardinality(s) \in Nat /\ Cardinality(s \ {x}) \in Nat
         /\ Cardinality(s \ {x}) = Cardinality(s) - 1
  BY FS_RemoveElement, FS_CardinalityType

(* The recursion has a solution. *)
LEMMA SumExists ==
  ASSUME NEW f, NEW S, IsFiniteSet(S)
  PROVE  \E g : SumsOn(f, SUBSET S, g)
<1> DEFINE Upto(n) == {s \in SUBSET S : Cardinality(s) <= n}
           Bad == {n \in Nat : ~\E g : SumsOn(f, Upto(n), g)}
<1>1. \A s \in SUBSET S : IsFiniteSet(s) /\ Cardinality(s) \in Nat /\ Cardinality(s) <= Cardinality(S)
  BY FS_Subset, FS_CardinalityType
<1>2. Bad = {}
  <2> SUFFICES ASSUME Bad # {} PROVE FALSE
    OBVIOUS
  <2>1. PICK n \in Bad : \A m \in Bad : n <= m
    BY LeastNatural
  <2>2. n \in Nat /\ ~\E g : SumsOn(f, Upto(n), g)
    OBVIOUS
  <2>3. CASE n = 0
    <3>1. Upto(0) = {{}}
      BY <1>1, FS_EmptySet
    <3>2. SumsOn(f, Upto(0), [s \in Upto(0) |-> 0])
      BY <3>1 DEF SumsOn
    <3>3. QED
      BY <2>2, <2>3, <3>2
  <2>4. CASE n # 0
    <3>1. n - 1 \in Nat /\ n - 1 \notin Bad
      <4> HIDE DEF Bad
      <4> QED
        BY <2>1, <2>2, <2>4
    <3>2. PICK g : SumsOn(f, Upto(n - 1), g)
      BY <3>1
    <3> DEFINE h == [s \in Upto(n) |-> IF s = {} THEN 0 ELSE f[Taken(s)] + g[s \ {Taken(s)}]]
    <3>3. Upto(n - 1) \subseteq Upto(n)
      BY <1>1, <2>2
    <3>4. \A s \in Upto(n - 1) : h[s] = g[s]
      BY <3>2, <3>3 DEF SumsOn
    <3>5. ASSUME NEW s \in Upto(n), s # {}
          PROVE  s \ {Taken(s)} \in Upto(n - 1)
      BY <1>1, <2>2, <3>5, TakenIn, TakenOut
    <3>6. ASSUME NEW s \in Upto(n)
          PROVE  h[s] = IF s = {} THEN 0 ELSE f[Taken(s)] + h[s \ {Taken(s)}]
      <4>1. CASE s = {}
        BY <4>1
      <4>2. CASE s # {}
        <5>1. h[s \ {Taken(s)}] = g[s \ {Taken(s)}]
          BY <3>4, <3>5, <4>2
        <5> QED
          BY <4>2, <5>1
      <4> QED
        BY <4>1, <4>2
    <3>7. SumsOn(f, Upto(n), h)
      <4> HIDE DEF Upto
      <4> QED
        BY <3>6 DEF SumsOn
    <3> QED
      BY <2>2, <3>7
  <2> QED
    BY <2>3, <2>4
<1>3. Cardinality(S) \in Nat /\ Upto(Cardinality(S)) = SUBSET S
  BY <1>1, FS_CardinalityType
<1> QED
  BY <1>2, <1>3

(* Whatever set it was built for, the sum over a set depends on the values in it. *)
LEMMA SumsAgree ==
  ASSUME NEW f, NEW e, NEW S, NEW T, IsFiniteSet(S), IsFiniteSet(T), NEW g, NEW h,
         SumsOn(f, SUBSET S, g), SumsOn(e, SUBSET T, h),
         \A x \in S \cap T : f[x] = e[x]
  PROVE  \A s \in SUBSET (S \cap T) : g[s] = h[s]
<1> DEFINE Common == SUBSET (S \cap T)
           Bad == {n \in Nat : \E s \in Common : Cardinality(s) = n /\ g[s] # h[s]}
<1>1. \A s \in Common : IsFiniteSet(s) /\ Cardinality(s) \in Nat
  BY FS_Subset, FS_CardinalityType
<1>2. Bad = {}
  <2> SUFFICES ASSUME Bad # {} PROVE FALSE
    OBVIOUS
  <2>1. PICK n \in Bad : \A m \in Bad : n <= m
    BY LeastNatural
  <2>2. PICK s \in Common : Cardinality(s) = n /\ g[s] # h[s]
    OBVIOUS
  <2>3. /\ g[s] = IF s = {} THEN 0 ELSE f[Taken(s)] + g[s \ {Taken(s)}]
        /\ h[s] = IF s = {} THEN 0 ELSE e[Taken(s)] + h[s \ {Taken(s)}]
    <3>1. s \in SUBSET S /\ s \in SUBSET T
      OBVIOUS
    <3> QED
      BY <3>1 DEF SumsOn
  <2>4. s # {}
    BY <2>2, <2>3
  <2>5. Taken(s) \in s /\ f[Taken(s)] = e[Taken(s)]
    BY <2>4, TakenIn
  <2> DEFINE r == s \ {Taken(s)}
  <2>6. r \in Common /\ Cardinality(r) \in Nat /\ Cardinality(r) = n - 1 /\ n \in Nat
    BY <1>1, <2>2, <2>5, TakenOut
  <2>7. g[r] = h[r]
    <3>1. ~(n <= n - 1)
      BY <2>6
    <3>2. n - 1 \notin Bad
      <4> HIDE DEF Bad
      <4> QED
        BY <2>1, <3>1
    <3> QED
      BY <2>6, <3>2
  <2> QED
    BY <2>2, <2>3, <2>4, <2>5, <2>7
<1> QED
  BY <1>1, <1>2

(* The fold takes out an element of its choice. *)
LEMMA SumStep ==
  ASSUME NEW f, NEW S, IsFiniteSet(S)
  PROVE  /\ S = {} => SumFunctionOnSet(f, S) = 0
         /\ S # {} => SumFunctionOnSet(f, S) = f[Taken(S)] + SumFunctionOnSet(f, S \ {Taken(S)})
<1> DEFINE g == CHOOSE g : SumsOn(f, SUBSET S, g)
           R == S \ {Taken(S)}
           h == CHOOSE h : SumsOn(f, SUBSET R, h)
<1>1. IsFiniteSet(R)
  BY FS_Subset
<1>2. SumsOn(f, SUBSET S, g) /\ SumsOn(f, SUBSET R, h)
  BY <1>1, SumExists
<1>3. SumFunctionOnSet(f, S) = g[S] /\ SumFunctionOnSet(f, R) = h[R]
  BY SumIsChosen
<1> HIDE DEF g, h
<1>4. g[S] = IF S = {} THEN 0 ELSE f[Taken(S)] + g[R]
  <2>1. S \in SUBSET S
    OBVIOUS
  <2> HIDE DEF R
  <2> QED
    BY <1>2, <2>1 DEF SumsOn, R
<1>5. g[R] = h[R]
  <2>1. R \in SUBSET (S \cap R)
    OBVIOUS
  <2> HIDE DEF R
  <2> QED
    BY <1>1, <1>2, <2>1, SumsAgree
<1> QED
  BY <1>3, <1>4, <1>5

(* Only the values in the set count. *)
LEMMA SumSame ==
  ASSUME NEW f, NEW e, NEW S, IsFiniteSet(S), \A x \in S : f[x] = e[x]
  PROVE  SumFunctionOnSet(f, S) = SumFunctionOnSet(e, S)
<1> DEFINE g == CHOOSE g : SumsOn(f, SUBSET S, g)
           h == CHOOSE h : SumsOn(e, SUBSET S, h)
<1>1. SumsOn(f, SUBSET S, g) /\ SumsOn(e, SUBSET S, h)
  BY SumExists
<1>2. SumFunctionOnSet(f, S) = g[S] /\ SumFunctionOnSet(e, S) = h[S]
  BY SumIsChosen
<1> HIDE DEF g, h
<1>3. S \in SUBSET (S \cap S)
  OBVIOUS
<1>4. g[S] = h[S]
  BY <1>1, <1>3, SumsAgree
<1> QED
  BY <1>2, <1>4

(* A sum of integers is an integer. *)
LEMMA SumType ==
  ASSUME NEW S, IsFiniteSet(S), NEW f, \A x \in S : f[x] \in Int
  PROVE  SumFunctionOnSet(f, S) \in Int
<1> DEFINE Bad == {n \in Nat : \E s \in SUBSET S : Cardinality(s) = n /\ SumFunctionOnSet(f, s) \notin Int}
<1>1. \A s \in SUBSET S : IsFiniteSet(s) /\ Cardinality(s) \in Nat
  BY FS_Subset, FS_CardinalityType
<1>2. Bad = {}
  <2> SUFFICES ASSUME Bad # {} PROVE FALSE
    OBVIOUS
  <2>1. PICK n \in Bad : \A m \in Bad : n <= m
    BY LeastNatural
  <2>2. PICK s \in SUBSET S : Cardinality(s) = n /\ SumFunctionOnSet(f, s) \notin Int
    OBVIOUS
  <2> DEFINE r == s \ {Taken(s)}
  <2>3. /\ s = {} => SumFunctionOnSet(f, s) = 0
        /\ s # {} => SumFunctionOnSet(f, s) = f[Taken(s)] + SumFunctionOnSet(f, r)
    BY <1>1, SumStep
  <2>4. s # {} /\ Taken(s) \in s /\ f[Taken(s)] \in Int
    BY <2>2, <2>3, TakenIn
  <2>5. r \in SUBSET S /\ Cardinality(r) = n - 1 /\ n - 1 \in Nat /\ n \in Nat
    BY <1>1, <2>2, <2>4, TakenOut
  <2>6. SumFunctionOnSet(f, r) \in Int
    <3>1. ~(n <= n - 1)
      BY <2>5
    <3>2. n - 1 \notin Bad
      <4> HIDE DEF Bad
      <4> QED
        BY <2>1, <3>1
    <3> QED
      BY <2>5, <3>2
  <2> QED
    BY <2>2, <2>3, <2>4, <2>6
<1> QED
  BY <1>1, <1>2

(* Any element may be taken out, whichever the fold would have taken. *)
LEMMA SumTakeAny ==
  ASSUME NEW S, IsFiniteSet(S), NEW f, \A x \in S : f[x] \in Int, NEW x \in S
  PROVE  SumFunctionOnSet(f, S) = f[x] + SumFunctionOnSet(f, S \ {x})
<1> DEFINE Summed(s) == SumFunctionOnSet(f, s)
           Bad == {n \in Nat : \E s \in SUBSET S : \E y \in s :
                       Cardinality(s) = n /\ Summed(s) # f[y] + Summed(s \ {y})}
<1>1. \A s \in SUBSET S : IsFiniteSet(s) /\ Cardinality(s) \in Nat /\ Summed(s) \in Int
  BY FS_Subset, FS_CardinalityType, SumType
<1>2. \A s \in SUBSET S : s # {} => Summed(s) = f[Taken(s)] + Summed(s \ {Taken(s)})
  BY <1>1, SumStep
<1> HIDE DEF Summed
<1>3. Bad = {}
  <2> SUFFICES ASSUME Bad # {} PROVE FALSE
    OBVIOUS
  <2>1. PICK n \in Bad : \A m \in Bad : n <= m
    BY LeastNatural
  <2>2. PICK s \in SUBSET S : \E y \in s :
              Cardinality(s) = n /\ Summed(s) # f[y] + Summed(s \ {y})
    OBVIOUS
  <2>3. PICK y \in s : Cardinality(s) = n /\ Summed(s) # f[y] + Summed(s \ {y})
    BY <2>2
  <2> DEFINE c == Taken(s)
  <2>4. c \in s /\ Summed(s) = f[c] + Summed(s \ {c}) /\ c # y
    BY <1>2, <2>3, TakenIn
  <2> HIDE DEF c
  <2>5. /\ n \in Nat /\ Cardinality(s \ {c}) = n - 1 /\ Cardinality(s \ {y}) = n - 1 /\ n - 1 \in Nat
    BY <1>1, <2>3, <2>4, TakenOut
  <2>6. n - 1 \notin Bad
    <3>1. ~(n <= n - 1)
      BY <2>5
    <3> HIDE DEF Bad
    <3> QED
      BY <2>1, <3>1
  <2>7. Summed(s \ {c}) = f[y] + Summed((s \ {c}) \ {y})
    <3>1. s \ {c} \in SUBSET S /\ y \in s \ {c}
      BY <2>4
    <3> QED
      BY <2>5, <2>6, <3>1
  <2>8. Summed(s \ {y}) = f[c] + Summed((s \ {y}) \ {c})
    <3>1. s \ {y} \in SUBSET S /\ c \in s \ {y}
      BY <2>4
    <3> QED
      BY <2>5, <2>6, <3>1
  <2>9. /\ f[c] \in Int /\ f[y] \in Int /\ Summed((s \ {y}) \ {c}) \in Int
        /\ (s \ {c}) \ {y} = (s \ {y}) \ {c}
    <3>1. (s \ {y}) \ {c} \in SUBSET S /\ c \in S /\ y \in S
      BY <2>4
    <3> QED
      BY <1>1, <3>1
  <2>10. Summed(s) = f[c] + (f[y] + Summed((s \ {y}) \ {c}))
    BY <2>4, <2>7, <2>9
  <2>11. Summed(s) = f[y] + (f[c] + Summed((s \ {y}) \ {c}))
    <3> DEFINE z == Summed((s \ {y}) \ {c})
    <3>1. z \in Int
      BY <2>9
    <3> HIDE DEF z, Bad
    <3>2. \A u, v, w \in Int : u + (v + w) = v + (u + w)
      OBVIOUS
    <3> QED
      BY <2>9, <2>10, <3>1, <3>2 DEF z
  <2> QED
    BY <2>3, <2>8, <2>11
<1>4. Summed(S) = f[x] + Summed(S \ {x})
  <2>1. S \in SUBSET S /\ Cardinality(S) \notin Bad
    BY <1>3
  <2> QED
    BY <1>1, <2>1
<1> QED
  BY <1>4 DEF Summed

-----------------------------------------------------------------------------
(* The facts the other modules use *)

(* A sum of integers is an integer. *)
THEOREM SumInt ==
  ASSUME NEW S, IsFiniteSet(S), NEW f \in [S -> Int]
  PROVE  SumFunction(f) \in Int
  BY SumType DEF SumFunction

(* Nothing adds up to nothing. *)
THEOREM SumZero ==
  ASSUME NEW S, IsFiniteSet(S), NEW f, f = [x \in S |-> 0]
  PROVE  SumFunction(f) = 0
<1>1. \A x \in S : f[x] \in Int
  OBVIOUS
<1> DEFINE Summed(s) == SumFunctionOnSet(f, s)
           Bad == {n \in Nat : \E s \in SUBSET S : Cardinality(s) = n /\ Summed(s) # 0}
<1>2. \A s \in SUBSET S : IsFiniteSet(s) /\ Cardinality(s) \in Nat
  BY FS_Subset, FS_CardinalityType
<1>3. \A s \in SUBSET S : /\ s = {} => Summed(s) = 0
                          /\ s # {} => Summed(s) = f[Taken(s)] + Summed(s \ {Taken(s)})
  BY <1>2, SumStep
<1> HIDE DEF Summed
<1>4. Bad = {}
  <2> SUFFICES ASSUME Bad # {} PROVE FALSE
    OBVIOUS
  <2>1. PICK n \in Bad : \A m \in Bad : n <= m
    BY LeastNatural
  <2>2. PICK s \in SUBSET S : Cardinality(s) = n /\ Summed(s) # 0
    OBVIOUS
  <2> DEFINE r == s \ {Taken(s)}
  <2>3. s # {} /\ Taken(s) \in s /\ Summed(s) = 0 + Summed(r)
    BY <1>3, <2>2, TakenIn
  <2>4. r \in SUBSET S /\ Cardinality(r) = n - 1 /\ n - 1 \in Nat /\ n \in Nat
    BY <1>2, <2>2, <2>3, TakenOut
  <2>5. Summed(r) = 0
    <3>1. ~(n <= n - 1)
      BY <2>4
    <3>2. n - 1 \notin Bad
      <4> HIDE DEF Bad
      <4> QED
        BY <2>1, <3>1
    <3> QED
      BY <2>4, <3>2
  <2> QED
    BY <2>2, <2>3, <2>5
<1>5. Summed(S) = 0
  <2>1. S \in SUBSET S /\ Cardinality(S) \notin Bad
    BY <1>4
  <2> QED
    BY <1>2, <2>1
<1> QED
  BY <1>5 DEF Summed, SumFunction

(* A sum of naturals is a natural, and positive with one of them. *)
THEOREM SumNat ==
  ASSUME NEW S, IsFiniteSet(S), NEW f \in [S -> Nat]
  PROVE  /\ SumFunction(f) \in Nat
         /\ \A x \in S : f[x] <= SumFunction(f)
<1>1. \A x \in S : f[x] \in Int /\ f[x] \in Nat
  OBVIOUS
<1> DEFINE Summed(s) == SumFunctionOnSet(f, s)
           Bad == {n \in Nat : \E s \in SUBSET S : Cardinality(s) = n /\ Summed(s) \notin Nat}
<1>2. \A s \in SUBSET S : IsFiniteSet(s) /\ Cardinality(s) \in Nat
  BY FS_Subset, FS_CardinalityType
<1>3. \A s \in SUBSET S : /\ s = {} => Summed(s) = 0
                          /\ s # {} => Summed(s) = f[Taken(s)] + Summed(s \ {Taken(s)})
  BY <1>1, <1>2, SumStep
<1>4. \A x \in S : Summed(S) = f[x] + Summed(S \ {x})
  BY <1>1, SumTakeAny
<1> HIDE DEF Summed
<1>5. Bad = {}
  <2> SUFFICES ASSUME Bad # {} PROVE FALSE
    OBVIOUS
  <2>1. PICK n \in Bad : \A m \in Bad : n <= m
    BY LeastNatural
  <2>2. PICK s \in SUBSET S : Cardinality(s) = n /\ Summed(s) \notin Nat
    OBVIOUS
  <2> DEFINE r == s \ {Taken(s)}
  <2>3. s # {} /\ Taken(s) \in s /\ Summed(s) = f[Taken(s)] + Summed(r)
    BY <1>3, <2>2, TakenIn
  <2>4. r \in SUBSET S /\ Cardinality(r) = n - 1 /\ n - 1 \in Nat /\ n \in Nat
    BY <1>2, <2>2, <2>3, TakenOut
  <2>5. Summed(r) \in Nat
    <3>1. ~(n <= n - 1)
      BY <2>4
    <3>2. n - 1 \notin Bad
      <4> HIDE DEF Bad
      <4> QED
        BY <2>1, <3>1
    <3> QED
      BY <2>4, <3>2
  <2>6. f[Taken(s)] \in Nat
    BY <1>1, <2>2, <2>3
  <2> QED
    BY <2>2, <2>3, <2>5, <2>6
<1>6. \A s \in SUBSET S : Summed(s) \in Nat
  BY <1>2, <1>5
<1>7. ASSUME NEW x \in S PROVE f[x] <= Summed(S)
  <2>1. Summed(S) = f[x] + Summed(S \ {x}) /\ Summed(S \ {x}) \in Nat /\ f[x] \in Nat
    BY <1>1, <1>4, <1>6
  <2> QED
    BY <2>1
<1>8. SumFunction(f) = Summed(S)
  BY DEF Summed, SumFunction
<1> QED
  BY <1>6, <1>7, <1>8

(* One value changes, and the sum by as much. *)
THEOREM SumExcept ==
  ASSUME NEW S, IsFiniteSet(S), NEW f \in [S -> Int], NEW e \in [S -> Int], NEW x \in S,
         \A y \in S \ {x} : e[y] = f[y]
  PROVE  SumFunction(e) = SumFunction(f) - f[x] + e[x]
<1> DEFINE R == S \ {x}
<1>1. IsFiniteSet(R)
  BY FS_Subset
<1>2. /\ SumFunctionOnSet(f, S) = f[x] + SumFunctionOnSet(f, R)
      /\ SumFunctionOnSet(e, S) = e[x] + SumFunctionOnSet(e, R)
  BY SumTakeAny
<1>3. SumFunctionOnSet(f, R) = SumFunctionOnSet(e, R) /\ SumFunctionOnSet(f, R) \in Int
  BY <1>1, SumSame, SumType
<1>4. /\ SumFunction(f) = SumFunctionOnSet(f, S) /\ SumFunction(e) = SumFunctionOnSet(e, S)
      /\ f[x] \in Int /\ e[x] \in Int
  BY DEF SumFunction
<1> QED
  BY <1>2, <1>3, <1>4

(* e is f and one value more, at x *)
GrownBy(e, f, S, x) ==
    /\ IsFiniteSet(S) /\ x \notin S /\ f \in [S -> Int] /\ e \in [S \cup {x} -> Int]
    /\ \A y \in S : e[y] = f[y]

(* An element that joins adds its value. *)
THEOREM SumMore ==
  ASSUME NEW S, NEW x, NEW f, NEW e, GrownBy(e, f, S, x)
  PROVE  SumFunction(e) = SumFunction(f) + e[x]
<1>1. PICK T : T = S \cup {x}
  OBVIOUS
<1>2. /\ IsFiniteSet(S) /\ x \notin S /\ f \in [S -> Int] /\ e \in [T -> Int] /\ T = S \cup {x}
      /\ \A y \in S : e[y] = f[y]
  BY <1>1 DEF GrownBy
<1>3. IsFiniteSet(T) /\ T \ {x} = S /\ x \in T /\ \A y \in T : e[y] \in Int
  BY <1>2, FS_AddElement
<1>4. SumFunctionOnSet(e, T) = e[x] + SumFunctionOnSet(e, T \ {x})
  BY <1>3, SumTakeAny
<1>5. SumFunctionOnSet(e, S) = SumFunctionOnSet(f, S) /\ SumFunctionOnSet(f, S) \in Int
  BY <1>2, SumSame, SumType
<1>6. SumFunction(e) = SumFunctionOnSet(e, T) /\ SumFunction(f) = SumFunctionOnSet(f, S) /\ e[x] \in Int
  BY <1>3, <1>2 DEF SumFunction
<1>7. SumFunctionOnSet(e, T) = e[x] + SumFunctionOnSet(f, S)
  BY <1>3, <1>4, <1>5
<1>8. SumFunction(e) = e[x] + SumFunction(f) /\ SumFunction(f) \in Int /\ e[x] \in Int
  BY <1>5, <1>6, <1>7
<1> QED
  BY <1>8

(* A number at the end of a sequence adds itself. *)
THEOREM SumLonger ==
  ASSUME NEW n \in Nat, NEW f \in [1..n -> Int], NEW e \in [1..(n + 1) -> Int], \A i \in 1..n : e[i] = f[i]
  PROVE  SumFunction(e) = SumFunction(f) + e[n + 1]
<1>1. n + 1 \notin 1..n /\ 1..(n + 1) = 1..n \cup {n + 1} /\ n \in Int /\ 1 \in Int
  OBVIOUS
<1>2. IsFiniteSet(1..n)
  BY <1>1, FS_Interval
<1>3. GrownBy(e, f, 1..n, n + 1)
  BY <1>1, <1>2 DEF GrownBy
<1> QED
  BY <1>3, SumMore
=============================================================================
