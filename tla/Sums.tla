-------------------------------- MODULE Sums --------------------------------
(***************************************************************************)
(* What a sum over a finite set (SumFunctionOnSet of the community modules) *)
(* does when an element is taken out, a summand changes, or all summands   *)
(* are of one kind.  Inductions are on the cardinality, by way of a least  *)
(* counterexample.                                                         *)
(***************************************************************************)
EXTENDS Integers, FiniteSets, Functions, FiniteSetTheorems,
        WellFoundedInduction, TLAPS

(* Every nonempty set of naturals has a least element. *)
LEMMA NatLeast ==
  ASSUME NEW T, T \subseteq Nat, T # {}
  PROVE  \E n \in T : \A m \in T : n <= m
<1>1. IsWellFoundedOn(OpToRel(<, Nat), Nat)
  BY NatLessThanWellFounded, Zenon
<1>2. PICK n \in T : \A m \in T : ~ (<<m, n>> \in OpToRel(<, Nat))
  BY <1>1, WFMin, Zenon
<1>3. \A m \in T : ~(m < n)
  BY <1>2 DEF OpToRel
<1> QED BY <1>3

(* The recursion by which a sum is computed. *)
Pick(s) == CHOOSE x \in s : TRUE
Sums(g, f, D) ==
  g = [s \in D |-> IF s = {} THEN 0 ELSE f[Pick(s)] + g[s \ {Pick(s)}]]
SumsOf(f, S) == CHOOSE g : Sums(g, f, SUBSET S)

LEMMA SumIsRecursive ==
  ASSUME NEW f, NEW S
  PROVE  SumFunctionOnSet(f, S) = SumsOf(f, S)[S]
BY DEF SumFunctionOnSet, FoldFunctionOnSet, MapThenFoldSet, SumsOf, Sums, Pick

(* Taking an element out of a finite set leaves a smaller one. *)
LEMMA Smaller ==
  ASSUME NEW S, IsFiniteSet(S), NEW s \in SUBSET S
  PROVE  /\ IsFiniteSet(s) /\ Cardinality(s) \in Nat
         /\ Cardinality(s) = 0 <=> s = {}
         /\ s # {} => Pick(s) \in s
         /\ \A x \in s : /\ s \ {x} \in SUBSET S
                         /\ Cardinality(s \ {x}) = Cardinality(s) - 1
<1>1. IsFiniteSet(s)
  BY FS_Subset
<1>2. Cardinality(s) \in Nat /\ (Cardinality(s) = 0 <=> s = {})
  BY <1>1, FS_CardinalityType, FS_EmptySet
<1>3. s # {} => Pick(s) \in s
  BY DEF Pick
<1>4. \A x \in s : Cardinality(s \ {x}) = Cardinality(s) - 1
  BY <1>1, FS_RemoveElement
<1> QED BY <1>1, <1>2, <1>3, <1>4

LEMMA SumsExist ==
  ASSUME NEW f, NEW S, IsFiniteSet(S)
  PROVE  \E g : Sums(g, f, SUBSET S)
<1> DEFINE Upto(n) == {s \in SUBSET S : Cardinality(s) <= n}
           Bad == {n \in Nat : \A g : ~Sums(g, f, Upto(n))}
<1>1. Bad = {}
  <2> SUFFICES ASSUME Bad # {} PROVE FALSE
    OBVIOUS
  <2>1. PICK n \in Bad : \A m \in Bad : n <= m
    BY NatLeast
  <2>2. CASE n = 0
    <3>1. \A s \in Upto(0) : s = {}
      BY Smaller
    <3>2. Sums([s \in Upto(0) |-> 0], f, Upto(0))
      BY <3>1 DEF Sums
    <3> QED BY <2>2, <3>2
  <2>3. CASE n # 0
    <3>1. n - 1 \in Nat /\ n - 1 \notin Bad
      BY <2>1, <2>3
    <3>2. PICK g : Sums(g, f, Upto(n - 1))
      BY <3>1
    <3> DEFINE h == [s \in Upto(n) |-> IF s = {} THEN 0
                                       ELSE f[Pick(s)] + g[s \ {Pick(s)}]]
    <3>3. \A s \in Upto(n) : s # {} => s \ {Pick(s)} \in Upto(n - 1)
      BY Smaller
    <3>4. \A s \in Upto(n - 1) : s \in Upto(n)
      BY Smaller, <2>1
    <3>5. \A s \in Upto(n - 1) : h[s] = g[s]
      BY <3>4, <3>2 DEF Sums
    <3>6. \A s \in Upto(n) :
            h[s] = IF s = {} THEN 0 ELSE f[Pick(s)] + h[s \ {Pick(s)}]
      BY <3>3, <3>5
    <3>7. Sums(h, f, Upto(n))
      BY <3>6 DEF Sums
    <3> QED BY <3>7, <2>1
  <2> QED BY <2>2, <2>3
<1>2. Cardinality(S) \in Nat
  BY FS_CardinalityType
<1>3. Upto(Cardinality(S)) = SUBSET S
  BY FS_Subset, <1>2
<1>4. \E g : Sums(g, f, Upto(Cardinality(S)))
  BY <1>1, <1>2
<1> QED BY <1>3, <1>4

(* Where two tables of sums both apply, they agree if their summands do.    *)
LEMMA SumsAgree ==
  ASSUME NEW S, IsFiniteSet(S), NEW T \in SUBSET S, NEW f, NEW e, NEW g, NEW h,
         Sums(g, f, SUBSET S), Sums(h, e, SUBSET T), \A x \in T : f[x] = e[x]
  PROVE  \A s \in SUBSET T : g[s] = h[s]
<1> DEFINE Bad == {n \in Nat : \E s \in SUBSET T : Cardinality(s) = n /\ g[s] # h[s]}
<1>1. Bad = {}
  <2> SUFFICES ASSUME Bad # {} PROVE FALSE
    OBVIOUS
  <2>1. PICK n \in Bad : \A m \in Bad : n <= m
    BY NatLeast
  <2>2. PICK s \in SUBSET T : Cardinality(s) = n /\ g[s] # h[s]
    BY <2>1
  <2>3. /\ g[s] = IF s = {} THEN 0 ELSE f[Pick(s)] + g[s \ {Pick(s)}]
        /\ h[s] = IF s = {} THEN 0 ELSE e[Pick(s)] + h[s \ {Pick(s)}]
    BY DEF Sums
  <2>4. s # {} /\ Pick(s) \in s
    BY <2>2, <2>3, Smaller
  <2>5. /\ s \ {Pick(s)} \in SUBSET T
        /\ Cardinality(s \ {Pick(s)}) = n - 1 /\ n - 1 \in Nat
    BY <2>2, <2>4, Smaller
  <2>6. g[s \ {Pick(s)}] = h[s \ {Pick(s)}]
    BY <2>1, <2>5
  <2> QED BY <2>2, <2>3, <2>4, <2>6
<1>2. \A s \in SUBSET T : Cardinality(s) \in Nat
  BY Smaller
<1> QED BY <1>1, <1>2

(* A sum satisfies the recursion. *)
LEMMA SumPicks ==
  ASSUME NEW f, NEW S, IsFiniteSet(S)
  PROVE  SumFunctionOnSet(f, S) =
           IF S = {} THEN 0
           ELSE f[Pick(S)] + SumFunctionOnSet(f, S \ {Pick(S)})
<1> DEFINE T == S \ {Pick(S)}
<1>1. Sums(SumsOf(f, S), f, SUBSET S)
  BY SumsExist DEF SumsOf
<1>2. IsFiniteSet(T) /\ T \in SUBSET S
  BY FS_Subset
<1>3. Sums(SumsOf(f, T), f, SUBSET T)
  BY <1>2, SumsExist DEF SumsOf
<1>4. SumsOf(f, S)[T] = SumsOf(f, T)[T]
  <2> HIDE DEF T
  <2> QED BY <1>1, <1>2, <1>3, SumsAgree
<1>5. SumsOf(f, S)[S] = IF S = {} THEN 0 ELSE f[Pick(S)] + SumsOf(f, S)[T]
  BY <1>1 DEF Sums
<1> QED BY <1>4, <1>5, SumIsRecursive

(* Only the summands matter. *)
LEMMA SumSame ==
  ASSUME NEW S, IsFiniteSet(S), NEW f, NEW e, \A x \in S : f[x] = e[x]
  PROVE  SumFunctionOnSet(f, S) = SumFunctionOnSet(e, S)
<1>1. Sums(SumsOf(f, S), f, SUBSET S) /\ Sums(SumsOf(e, S), e, SUBSET S)
  BY SumsExist DEF SumsOf
<1>2. SumsOf(f, S)[S] = SumsOf(e, S)[S]
  BY <1>1, SumsAgree
<1> QED BY <1>2, SumIsRecursive

(* Sums of integers are integers, and of naturals naturals. *)
LEMMA SumInto ==
  ASSUME NEW K, K \in {Nat, Int}, NEW S, IsFiniteSet(S), NEW f, \A x \in S : f[x] \in K
  PROVE  SumFunctionOnSet(f, S) \in K
<1> DEFINE Sum(s) == SumFunctionOnSet(f, s)
           Bad == {n \in Nat : \E s \in SUBSET S : Cardinality(s) = n /\ Sum(s) \notin K}
<1>1. Bad = {}
  <2> SUFFICES ASSUME Bad # {} PROVE FALSE
    OBVIOUS
  <2>1. PICK n \in Bad : \A m \in Bad : n <= m
    BY NatLeast
  <2>2. PICK s \in SUBSET S : Cardinality(s) = n /\ Sum(s) \notin K
    BY <2>1
  <2>3. Sum(s) = IF s = {} THEN 0 ELSE f[Pick(s)] + Sum(s \ {Pick(s)})
    BY Smaller, SumPicks
  <2> HIDE DEF Sum
  <2>4. s # {} /\ Pick(s) \in s
    BY <2>2, <2>3, Smaller
  <2>5. Sum(s \ {Pick(s)}) \in K
    BY <2>1, <2>2, <2>4, Smaller
  <2> QED BY <2>2, <2>3, <2>4, <2>5
<1>2. Cardinality(S) \in Nat
  BY FS_CardinalityType
<1> QED BY <1>1, <1>2

(* Any one summand may be taken out. *)
LEMMA SumRemove ==
  ASSUME NEW S, IsFiniteSet(S), NEW f, \A x \in S : f[x] \in Int, NEW x \in S
  PROVE  SumFunctionOnSet(f, S) = f[x] + SumFunctionOnSet(f, S \ {x})
<1> DEFINE Sum(s) == SumFunctionOnSet(f, s)
           Bad == {n \in Nat : \E s \in SUBSET S : \E y \in s :
                     Cardinality(s) = n /\ Sum(s) # f[y] + Sum(s \ {y})}
<1>t. \A s \in SUBSET S : Sum(s) \in Int
  BY Smaller, SumInto
<1>p. \A s \in SUBSET S :
        Sum(s) = IF s = {} THEN 0 ELSE f[Pick(s)] + Sum(s \ {Pick(s)})
  BY Smaller, SumPicks
<1> HIDE DEF Sum
<1>1. Bad = {}
  <2> SUFFICES ASSUME Bad # {} PROVE FALSE
    OBVIOUS
  <2>1. PICK n \in Bad : \A m \in Bad : n <= m
    BY NatLeast
  <2>2. PICK s \in SUBSET S : \E y \in s : Cardinality(s) = n /\ Sum(s) # f[y] + Sum(s \ {y})
    BY <2>1
  <2>y. PICK y \in s : Cardinality(s) = n /\ Sum(s) # f[y] + Sum(s \ {y})
    BY <2>2
  <2> DEFINE p == Pick(s)
             a == s \ {p}
             b == s \ {y}
             r == s \ {p, y}
  <2>3. p \in s /\ Sum(s) = f[p] + Sum(a)
    BY <2>y, <1>p, Smaller
  <2>4. p # y
    BY <2>y, <2>3
  <2>5. /\ a \in SUBSET S /\ Cardinality(a) = n - 1 /\ y \in a
        /\ b \in SUBSET S /\ Cardinality(b) = n - 1 /\ p \in b
        /\ n - 1 \in Nat
    BY <2>y, <2>3, <2>4, Smaller
  <2>6. a \ {y} = r /\ b \ {p} = r
    OBVIOUS
  <2> HIDE DEF p, a, b, r
  <2>7. n - 1 \notin Bad
    BY <2>1, <2>5
  <2>8. Sum(a) = f[y] + Sum(r) /\ Sum(b) = f[p] + Sum(r)
    <3>1. \A t \in SUBSET S : \A z \in t :
            Cardinality(t) = n - 1 => Sum(t) = f[z] + Sum(t \ {z})
      BY <2>5, <2>7
    <3>2. Sum(a) = f[y] + Sum(a \ {y}) /\ Sum(b) = f[p] + Sum(b \ {p})
      BY <2>5, <3>1
    <3> QED BY <3>2, <2>6
  <2>9. Sum(r) \in Int /\ f[p] \in Int /\ f[y] \in Int
    BY <2>y, <2>3, <1>t DEF r
  <2> QED BY <2>y, <2>3, <2>8, <2>9 DEF b
<1>2. Cardinality(S) \in Nat
  BY FS_CardinalityType
<1> QED BY <1>1, <1>2 DEF Sum

(* The same for every part of the set. *)
LEMMA SumsOfParts ==
  ASSUME NEW S, IsFiniteSet(S), NEW f, \A x \in S : f[x] \in Int, NEW s \in SUBSET S
  PROVE  /\ SumFunctionOnSet(f, s) \in Int
         /\ \A x \in s : SumFunctionOnSet(f, s) = f[x] + SumFunctionOnSet(f, s \ {x})
<1>1. IsFiniteSet(s) /\ \A x \in s : f[x] \in Int
  BY Smaller
<1>2. SumFunctionOnSet(f, s) \in Int
  BY <1>1, SumInto
<1>3. ASSUME NEW x \in s
      PROVE  SumFunctionOnSet(f, s) = f[x] + SumFunctionOnSet(f, s \ {x})
  BY <1>1, SumRemove
<1> QED BY <1>2, <1>3

(* A change of one summand changes the sum by as much. *)
LEMMA SumChange ==
  ASSUME NEW S, IsFiniteSet(S), NEW f, NEW e, NEW x \in S,
         \A y \in S : f[y] \in Int /\ e[y] \in Int,
         \A y \in S : y # x => e[y] = f[y]
  PROVE  SumFunctionOnSet(e, S) = SumFunctionOnSet(f, S) + e[x] - f[x]
<1> DEFINE T == S \ {x}
<1>1. IsFiniteSet(T)
  BY FS_Subset
<1>2. SumFunctionOnSet(e, T) = SumFunctionOnSet(f, T)
  BY <1>1, SumSame
<1>3. /\ SumFunctionOnSet(e, S) = e[x] + SumFunctionOnSet(e, T)
      /\ SumFunctionOnSet(f, S) = f[x] + SumFunctionOnSet(f, T)
  BY SumRemove
<1>4. SumFunctionOnSet(f, T) \in Int
  BY <1>1, SumInto
<1> QED BY <1>2, <1>3, <1>4

(* Summands of zero may be left out. *)
LEMMA SumOfRest ==
  ASSUME NEW S, IsFiniteSet(S), NEW f, \A x \in S : f[x] \in Int,
         NEW T \in SUBSET S, \A x \in S \ T : f[x] = 0
  PROVE  SumFunctionOnSet(f, T) = SumFunctionOnSet(f, S)
<1> DEFINE Sum(s) == SumFunctionOnSet(f, s)
           Bad == {n \in Nat : \E s \in SUBSET S :
                     /\ T \subseteq s /\ Cardinality(s) = n /\ Sum(s) # Sum(T)}
<1>r. \A s \in SUBSET S :
        Sum(s) \in Int /\ \A x \in s : Sum(s) = f[x] + Sum(s \ {x})
  BY SumsOfParts
<1> HIDE DEF Sum
<1>1. Bad = {}
  <2> SUFFICES ASSUME Bad # {} PROVE FALSE
    OBVIOUS
  <2>1. PICK n \in Bad : \A m \in Bad : n <= m
    BY NatLeast
  <2>2. PICK s \in SUBSET S : T \subseteq s /\ Cardinality(s) = n /\ Sum(s) # Sum(T)
    BY <2>1
  <2>3. PICK x \in s : x \notin T
    BY <2>2
  <2>4. s \ {x} \in SUBSET S /\ T \subseteq s \ {x}
    BY <2>2, <2>3
  <2>5. Cardinality(s \ {x}) = n - 1 /\ n - 1 \in Nat
    BY <2>2, Smaller
  <2>6. n - 1 \notin Bad
    BY <2>1, <2>5
  <2>7. Sum(s \ {x}) = Sum(T)
    BY <2>4, <2>5, <2>6
  <2>8. Sum(s) = f[x] + Sum(s \ {x}) /\ f[x] = 0
    BY <1>r, <2>3
  <2> QED BY <2>2, <2>4, <2>7, <2>8, <1>r
<1>2. Cardinality(S) \in Nat
  BY FS_CardinalityType
<1> QED BY <1>1, <1>2 DEF Sum

(* The names of the summands do not matter. *)
LEMMA SumRenamed ==
  ASSUME NEW S, IsFiniteSet(S), NEW f, \A x \in S : f[x] \in Int,
         NEW b, \A x, y \in S : b[x] = b[y] => x = y,
         NEW e, \A x \in S : e[b[x]] = f[x]
  PROVE  SumFunctionOnSet(e, {b[x] : x \in S}) = SumFunctionOnSet(f, S)
<1> DEFINE Image(s) == {b[x] : x \in s}
           Sum(s) == SumFunctionOnSet(f, s)
           Renamed(s) == SumFunctionOnSet(e, Image(s))
           Bad == {n \in Nat : \E s \in SUBSET S :
                     Cardinality(s) = n /\ Renamed(s) # Sum(s)}
<1>0. Renamed({}) = 0 /\ Sum({}) = 0
  <2>1. IsFiniteSet({}) /\ Image({}) = {}
    BY FS_EmptySet
  <2> QED BY <2>1, SumPicks
<1>f. \A s \in SUBSET S : IsFiniteSet(Image(s)) /\ \A y \in Image(s) : e[y] \in Int
  <2> SUFFICES ASSUME NEW s \in SUBSET S PROVE IsFiniteSet(Image(s))
    OBVIOUS
  <2>1. IsFiniteSet(s)
    BY Smaller
  <2>2. [x \in s |-> b[x]] \in Surjection(s, Image(s))
    BY DEF Surjection
  <2> QED BY <2>1, <2>2, FS_Surjection
<1>r. \A s \in SUBSET S :
        Sum(s) \in Int /\ \A x \in s : Sum(s) = f[x] + Sum(s \ {x})
  BY SumsOfParts
<1>i. \A s \in SUBSET S : \A x \in s : Image(s) \ {b[x]} = Image(s \ {x})
  OBVIOUS
<1>s. \A s \in SUBSET S : \A x \in s : Renamed(s) = e[b[x]] + Renamed(s \ {x})
  <2> SUFFICES ASSUME NEW s \in SUBSET S, NEW x \in s
               PROVE  Renamed(s) = e[b[x]] + Renamed(s \ {x})
    OBVIOUS
  <2>1. IsFiniteSet(Image(s)) /\ (\A y \in Image(s) : e[y] \in Int) /\ b[x] \in Image(s)
    BY <1>f
  <2> HIDE DEF Image
  <2>2. SumFunctionOnSet(e, Image(s)) = e[b[x]] + SumFunctionOnSet(e, Image(s) \ {b[x]})
    BY <2>1, SumRemove
  <2> QED BY <2>2, <1>i
<1> HIDE DEF Sum, Renamed, Image
<1>1. Bad = {}
  <2> SUFFICES ASSUME Bad # {} PROVE FALSE
    OBVIOUS
  <2>1. PICK n \in Bad : \A m \in Bad : n <= m
    BY NatLeast
  <2>2. PICK s \in SUBSET S : Cardinality(s) = n /\ Renamed(s) # Sum(s)
    BY <2>1
  <2>3. PICK x \in s : TRUE
    BY <2>2, <1>0
  <2>4. /\ s \ {x} \in SUBSET S
        /\ Cardinality(s \ {x}) = n - 1 /\ n - 1 \in Nat
    BY <2>2, Smaller
  <2>5. n - 1 \notin Bad
    BY <2>1, <2>4
  <2>6. Renamed(s \ {x}) = Sum(s \ {x})
    BY <2>4, <2>5
  <2> QED BY <2>2, <2>6, <1>r, <1>s
<1>2. Cardinality(S) \in Nat
  BY FS_CardinalityType
<1>3. Renamed(S) = Sum(S)
  BY <1>1, <1>2
<1> QED BY <1>3 DEF Renamed, Sum, Image
=============================================================================
