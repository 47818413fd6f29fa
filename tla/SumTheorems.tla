----------------------------- MODULE SumTheorems -----------------------------
(***************************************************************************)
(* Sums of natural numbers over a finite set.  The community modules       *)
(* define a sum by recursion on the set, taking a chosen element first     *)
(* (MapThenFoldSet); that such a function exists on the subsets of a       *)
(* finite set, and what a change of one summand or one element does to     *)
(* the sum, is proved here.                                                *)
(***************************************************************************)
EXTENDS Integers, FiniteSets, Functions, FiniteSetTheorems, WellFoundedInduction, TLAPS

\* The element a fold takes first.
Chosen(s) == CHOOSE x \in s : TRUE
LEMMA ChosenIn == ASSUME NEW s, s # {} PROVE Chosen(s) \in s
BY DEF Chosen

\* What the fold of the community modules counts on the subsets of S.
Counts(g, f, S) ==
  g = [s \in SUBSET S |-> IF s = {} THEN 0 ELSE f[Chosen(s)] + g[s \ {Chosen(s)}]]
Sum(f, S) == (CHOOSE g : Counts(g, f, S))[S]

\* A set of natural numbers that is not empty has one whose predecessor it has not.
LEMMA Least ==
  ASSUME NEW Bad, Bad \subseteq Nat, Bad # {}
  PROVE  \E m \in Bad : m = 0 \/ m - 1 \notin Bad
<1>1. PICK m \in Bad : \A k \in Bad : <<k, m>> \notin OpToRel(<, Nat)
  BY NatLessThanWellFounded, WFMin
<1>2. ASSUME m # 0 PROVE m - 1 \notin Bad
  <2>1. m \in Nat /\ m - 1 \in Nat /\ m - 1 < m
    BY <1>2
  <2>2. <<m - 1, m>> \in Nat \X Nat
    BY <2>1
  <2>3. <<m - 1, m>> \in OpToRel(<, Nat)
    BY <2>1, <2>2 DEF OpToRel
  <2> QED
    BY <1>1, <2>3
<1> QED
  BY <1>2

\* The fold is defined on every subset of a finite set.
Small(S, n) == {s \in SUBSET S : Cardinality(s) <= n}
CountsTo(g, f, S, n) ==
  /\ g \in [Small(S, n) -> Nat]
  /\ \A s \in Small(S, n) : g[s] = IF s = {} THEN 0 ELSE f[Chosen(s)] + g[s \ {Chosen(s)}]

LEMMA Smaller ==
  ASSUME NEW S, IsFiniteSet(S), NEW n \in Nat, NEW s \in Small(S, n), s # {}
  PROVE  /\ Chosen(s) \in S /\ Chosen(s) \in s /\ n # 0
         /\ s \ {Chosen(s)} \in Small(S, n - 1)
<1>1. s \subseteq S /\ IsFiniteSet(s) /\ Chosen(s) \in s /\ Cardinality(s) \in Nat
  BY FS_Subset, FS_CardinalityType, ChosenIn DEF Small
<1>2. IsFiniteSet(s \ {Chosen(s)}) /\ Cardinality(s \ {Chosen(s)}) = Cardinality(s) - 1
  BY <1>1, FS_RemoveElement
<1>3. Cardinality(s) <= n /\ Cardinality(s \ {Chosen(s)}) \in Nat
  BY <1>2, FS_CardinalityType DEF Small
<1>4. n - 1 \in Nat /\ Cardinality(s \ {Chosen(s)}) <= n - 1
  BY <1>1, <1>2, <1>3
<1> QED
  BY <1>1, <1>4 DEF Small

LEMMA CountsExist ==
  ASSUME NEW S, IsFiniteSet(S), NEW f \in [S -> Nat], NEW n \in Nat
  PROVE  \E g : CountsTo(g, f, S, n)
<1> DEFINE Bad == {m \in Nat : ~ \E g : CountsTo(g, f, S, m)}
<1> SUFFICES ASSUME Bad # {} PROVE FALSE
  OBVIOUS
<1>1. PICK m \in Bad : m = 0 \/ m - 1 \notin Bad
  BY Least
<1>2. m \in Nat /\ ~ \E g : CountsTo(g, f, S, m)
  OBVIOUS
<1>3. CASE m = 0
  <2>1. \A s \in Small(S, m) : s = {}
    BY <1>3, Smaller
  <2> DEFINE g == [s \in Small(S, m) |-> 0]
  <2>2. CountsTo(g, f, S, m)
    BY <2>1 DEF CountsTo
  <2> QED
    BY <1>2, <2>2
<1>4. CASE m # 0
  <2>1. m - 1 \in Nat
    BY <1>2, <1>4
  <2>2. PICK g : CountsTo(g, f, S, m - 1)
    BY <1>1, <1>4, <2>1
  <2> DEFINE h == [s \in Small(S, m) |-> IF s = {} THEN 0 ELSE f[Chosen(s)] + g[s \ {Chosen(s)}]]
  <2>3. Small(S, m - 1) \subseteq Small(S, m)
    <3> SUFFICES ASSUME NEW s \in SUBSET S, Cardinality(s) <= m - 1 PROVE Cardinality(s) <= m
      BY DEF Small
    <3>1. Cardinality(s) \in Nat
      BY FS_Subset, FS_CardinalityType
    <3> QED
      BY <1>2, <3>1
  <2>4. \A s \in Small(S, m - 1) : h[s] = g[s]
    BY <2>2, <2>3 DEF CountsTo
  <2>5. ASSUME NEW s \in Small(S, m), s # {}
        PROVE  h[s] = f[Chosen(s)] + h[s \ {Chosen(s)}] /\ h[s] \in Nat
    <3>1. s \ {Chosen(s)} \in Small(S, m - 1) /\ Chosen(s) \in S
      BY <1>2, <2>5, Smaller
    <3>2. g[s \ {Chosen(s)}] \in Nat /\ h[s \ {Chosen(s)}] = g[s \ {Chosen(s)}]
      BY <2>2, <2>4, <3>1 DEF CountsTo
    <3>3. h[s] = f[Chosen(s)] + g[s \ {Chosen(s)}]
      BY <2>5
    <3> QED
      BY <3>1, <3>2, <3>3
  <2>6. \A s \in Small(S, m) : s = {} => h[s] = 0
    OBVIOUS
  <2>7. h \in [Small(S, m) -> Nat]
    BY <2>5, <2>6
  <2>8. CountsTo(h, f, S, m)
    <3> HIDE DEF h
    <3> QED
      BY <2>5, <2>6, <2>7 DEF CountsTo
  <2> QED
    BY <1>2, <2>8
<1> QED
  BY <1>3, <1>4

LEMMA Counted ==
  ASSUME NEW S, IsFiniteSet(S), NEW f \in [S -> Nat]
  PROVE  \E g : Counts(g, f, S) /\ g \in [SUBSET S -> Nat]
<1>1. Cardinality(S) \in Nat /\ Small(S, Cardinality(S)) = SUBSET S
  BY FS_CardinalityType, FS_Subset DEF Small
<1>2. PICK g : CountsTo(g, f, S, Cardinality(S))
  BY <1>1, CountsExist
<1>3. g \in [SUBSET S -> Nat]
      /\ \A s \in SUBSET S : g[s] = IF s = {} THEN 0 ELSE f[Chosen(s)] + g[s \ {Chosen(s)}]
  BY <1>1, <1>2 DEF CountsTo
<1>4. g = [s \in SUBSET S |-> IF s = {} THEN 0 ELSE f[Chosen(s)] + g[s \ {Chosen(s)}]]
  BY <1>3
<1> QED
  BY <1>3, <1>4 DEF Counts

\* The sum over S, on each of its subsets.
SumOn(f, S) == CHOOSE g : Counts(g, f, S)
\* What a sum over S is on the subsets of S.
SumsTo(g, f, S) ==
  /\ g \in [SUBSET S -> Nat] /\ Sum(f, S) = g[S] /\ g[{}] = 0
  /\ \A s \in SUBSET S : s # {} => g[s] = f[Chosen(s)] + g[s \ {Chosen(s)}]
LEMMA SumOnIs ==
  ASSUME NEW S, IsFiniteSet(S), NEW f \in [S -> Nat]
  PROVE  SumsTo(SumOn(f, S), f, S)
<1> DEFINE g == SumOn(f, S)
<1>1. Counts(g, f, S)
  BY Counted DEF SumOn
<1>2. Sum(f, S) = g[S]
  BY DEF Sum, SumOn
<1> HIDE DEF g
<1>3. \A s \in SUBSET S : g[s] = IF s = {} THEN 0 ELSE f[Chosen(s)] + g[s \ {Chosen(s)}]
  BY <1>1 DEF Counts
<1>4. DOMAIN g = SUBSET S /\ g = [s \in SUBSET S |-> g[s]]
  BY <1>1 DEF Counts
<1>5. ASSUME NEW n \in Nat, NEW s \in Small(S, n) PROVE g[s] \in Nat
  <2> DEFINE Bad == {m \in Nat : \E t \in Small(S, m) : g[t] \notin Nat}
  <2> SUFFICES ASSUME Bad # {} PROVE FALSE
    BY <1>5
  <2>1. PICK m \in Bad : m = 0 \/ m - 1 \notin Bad
    BY Least
  <2>2. PICK t \in Small(S, m) : g[t] \notin Nat
    BY <2>1
  <2>3. t \in SUBSET S /\ t # {}
    BY <1>3, <2>2 DEF Small
  <2>4. t \ {Chosen(t)} \in Small(S, m - 1) /\ Chosen(t) \in S /\ m # 0 /\ m \in Nat
    BY <2>1, <2>2, <2>3, Smaller
  <2>5. m - 1 \in Nat /\ m - 1 \notin Bad
    BY <2>1, <2>4
  <2>6. g[t \ {Chosen(t)}] \in Nat
    BY <2>4, <2>5
  <2>7. g[t] = f[Chosen(t)] + g[t \ {Chosen(t)}]
    BY <1>3, <2>3
  <2>8. f[Chosen(t)] \in Nat
    BY <2>4
  <2>9. g[t] \in Nat
    BY <2>6, <2>7, <2>8
  <2> QED
    BY <2>2, <2>9
<1>6. \A s \in SUBSET S : s \in Small(S, Cardinality(S)) /\ Cardinality(S) \in Nat
  BY FS_CardinalityType, FS_Subset DEF Small
<1>7. g \in [SUBSET S -> Nat]
  BY <1>4, <1>5, <1>6
<1> QED
  BY <1>2, <1>3, <1>7 DEF g, SumsTo

\* One summand more or less.
LEMMA SumChanges ==
  ASSUME NEW S, IsFiniteSet(S), NEW f \in [S -> Nat], NEW h \in [S -> Nat], NEW x \in S,
         \A y \in S \ {x} : h[y] = f[y]
  PROVE  Sum(f, S) \in Nat /\ Sum(h, S) \in Nat /\ Sum(h, S) + f[x] = Sum(f, S) + h[x]
<1>1. PICK g : SumsTo(g, f, S)
  BY SumOnIs
<1>2. PICK k : SumsTo(k, h, S)
  BY SumOnIs
<1> DEFINE Right(s) == IF x \in s THEN k[s] + f[x] = g[s] + h[x] ELSE k[s] = g[s]
           Bad == {m \in Nat : \E s \in Small(S, m) : ~Right(s)}
<1>3. Bad = {}
  <2> SUFFICES ASSUME Bad # {} PROVE FALSE
    OBVIOUS
  <2>1. PICK m \in Bad : m = 0 \/ m - 1 \notin Bad
    BY Least
  <2>2. PICK s \in Small(S, m) : ~Right(s)
    BY <2>1
  <2>3. s # {} /\ s \in SUBSET S /\ m \in Nat
    BY <1>1, <1>2, <2>1, <2>2 DEF Small, SumsTo
  <2> DEFINE c == Chosen(s)
             t == s \ {c}
  <2>4. t \in Small(S, m - 1) /\ c \in s /\ c \in S /\ m # 0
    BY <2>3, Smaller
  <2>5. m - 1 \in Nat /\ m - 1 \notin Bad
    BY <2>1, <2>3, <2>4
  <2>6. Right(t) /\ t \in SUBSET S
    BY <2>4, <2>5 DEF Small
  <2>7. g[s] = f[c] + g[t] /\ k[s] = h[c] + k[t]
    BY <1>1, <1>2, <2>3 DEF SumsTo
  <2> HIDE DEF c
  <2>8. g[t] \in Nat /\ k[t] \in Nat /\ f[c] \in Nat /\ h[c] \in Nat /\ f[x] \in Nat /\ h[x] \in Nat
    BY <1>1, <1>2, <2>4, <2>6 DEF SumsTo
  <2>9. (c = x => x \notin t /\ x \in s) /\ (c # x => (x \in t <=> x \in s) /\ h[c] = f[c])
    BY <2>4
  <2>10. Right(s)
    <3> HIDE DEF t
    <3>1. CASE c = x
      BY <2>6, <2>7, <2>8, <2>9, <3>1
    <3>2. CASE c # x
      BY <2>6, <2>7, <2>8, <2>9, <3>2
    <3> QED
      BY <3>1, <3>2
  <2> QED
    BY <2>2, <2>10
<1>4. S \in Small(S, Cardinality(S)) /\ Cardinality(S) \in Nat
  BY FS_CardinalityType DEF Small
<1>5. Right(S)
  BY <1>3, <1>4
<1> QED
  BY <1>1, <1>2, <1>5 DEF SumsTo

LEMMA SumIsZero ==
  ASSUME NEW S, IsFiniteSet(S), NEW f \in [S -> Nat], \A x \in S : f[x] = 0
  PROVE  Sum(f, S) = 0
<1>1. PICK g : SumsTo(g, f, S)
  BY SumOnIs
<1> DEFINE Bad == {m \in Nat : \E s \in Small(S, m) : g[s] # 0}
<1>2. Bad = {}
  <2> SUFFICES ASSUME Bad # {} PROVE FALSE
    OBVIOUS
  <2>1. PICK m \in Bad : m = 0 \/ m - 1 \notin Bad
    BY Least
  <2>2. PICK s \in Small(S, m) : g[s] # 0
    BY <2>1
  <2>3. s # {} /\ s \in SUBSET S /\ m \in Nat
    BY <1>1, <2>1, <2>2 DEF Small, SumsTo
  <2>4. s \ {Chosen(s)} \in Small(S, m - 1) /\ Chosen(s) \in S /\ m # 0
    BY <2>3, Smaller
  <2>5. m - 1 \in Nat /\ m - 1 \notin Bad
    BY <2>1, <2>3, <2>4
  <2>6. g[s \ {Chosen(s)}] = 0
    BY <2>4, <2>5
  <2> QED
    BY <1>1, <2>2, <2>3, <2>4, <2>6 DEF SumsTo
<1>3. S \in Small(S, Cardinality(S)) /\ Cardinality(S) \in Nat
  BY FS_CardinalityType DEF Small
<1> QED
  BY <1>1, <1>2, <1>3 DEF SumsTo

\* Any element could have been taken first.
LEMMA SumTakes ==
  ASSUME NEW S, IsFiniteSet(S), NEW f \in [S -> Nat], NEW g, SumsTo(g, f, S),
         NEW s \in SUBSET S, NEW y \in s
  PROVE  g[s] = f[y] + g[s \ {y}]
<1> DEFINE Bad == {m \in Nat : \E t \in Small(S, m) : \E z \in t : g[t] # f[z] + g[t \ {z}]}
<1>1. Bad = {}
  <2> SUFFICES ASSUME Bad # {} PROVE FALSE
    OBVIOUS
  <2>1. PICK m \in Bad : m = 0 \/ m - 1 \notin Bad
    BY Least
  <2>a. PICK t \in Small(S, m) : \E z \in t : g[t] # f[z] + g[t \ {z}]
    BY <2>1
  <2>2. PICK z \in t : g[t] # f[z] + g[t \ {z}]
    BY <2>a
  <2> DEFINE c == Chosen(t)
             u == t \ {c}
  <2>3. u \in Small(S, m - 1) /\ c \in S /\ c \in t /\ m # 0 /\ t \in SUBSET S /\ m - 1 \in Nat
    BY <2>1, <2>2, Smaller DEF Small
  <2>4. \A v \in Small(S, m - 1) : \A x \in v : g[v] = f[x] + g[v \ {x}]
    BY <2>1, <2>3
  <2>5. g[t] = f[c] + g[u]
    BY <2>2, <2>3 DEF SumsTo
  <2> HIDE DEF c
  <2>6. c # z /\ z \in u /\ z \in S /\ c \in t \ {z}
    BY <2>2, <2>3, <2>5
  <2>7. g[u] = f[z] + g[u \ {z}]
    BY <2>3, <2>4, <2>6
  <2>8. t \ {z} \in Small(S, m - 1)
    <3>1. IsFiniteSet(t) /\ Cardinality(t) <= m /\ Cardinality(t) \in Nat
      BY <2>2, <2>3, FS_Subset, FS_CardinalityType DEF Small
    <3>2. Cardinality(t \ {z}) = Cardinality(t) - 1
      BY <2>2, <3>1, FS_RemoveElement
    <3> QED
      BY <2>1, <2>3, <3>1, <3>2 DEF Small
  <2>9. g[t \ {z}] = f[c] + g[(t \ {z}) \ {c}]
    BY <2>4, <2>6, <2>8
  <2>10. (t \ {z}) \ {c} = u \ {z}
    OBVIOUS
  <2>11. f[c] \in Nat /\ f[z] \in Nat /\ g[u \ {z}] \in Nat
    BY <2>3, <2>6 DEF SumsTo
  <2> HIDE DEF u
  <2>12. g[t \ {z}] = f[c] + g[u \ {z}]
    BY <2>9, <2>10
  <2>13. g[t] = f[z] + g[t \ {z}]
    BY <2>5, <2>7, <2>11, <2>12
  <2> QED
    BY <2>2, <2>13
<1>2. s \in Small(S, Cardinality(s)) /\ Cardinality(s) \in Nat
  BY FS_Subset, FS_CardinalityType DEF Small
<1> QED
  BY <1>1, <1>2

\* The sum over a subset is that of the same numbers there.
LEMMA SumAgrees ==
  ASSUME NEW S, IsFiniteSet(S), NEW f \in [S -> Nat], NEW g, SumsTo(g, f, S),
         NEW T \in SUBSET S, NEW h \in [T -> Nat], \A x \in T : h[x] = f[x]
  PROVE  Sum(h, T) = g[T]
<1>1. IsFiniteSet(T)
  BY FS_Subset
<1>2. PICK k : SumsTo(k, h, T)
  BY <1>1, SumOnIs
<1> DEFINE Bad == {m \in Nat : \E s \in Small(T, m) : k[s] # g[s]}
<1>3. Bad = {}
  <2> SUFFICES ASSUME Bad # {} PROVE FALSE
    OBVIOUS
  <2>1. PICK m \in Bad : m = 0 \/ m - 1 \notin Bad
    BY Least
  <2>2. PICK s \in Small(T, m) : k[s] # g[s]
    BY <2>1
  <2>3. s # {} /\ s \in SUBSET T /\ s \in SUBSET S /\ m \in Nat
    BY <1>2, <2>1, <2>2 DEF Small, SumsTo
  <2>4. s \ {Chosen(s)} \in Small(T, m - 1) /\ Chosen(s) \in T /\ m # 0
    BY <1>1, <2>3, Smaller
  <2>5. m - 1 \in Nat /\ m - 1 \notin Bad
    BY <2>1, <2>3, <2>4
  <2>6. k[s \ {Chosen(s)}] = g[s \ {Chosen(s)}]
    BY <2>4, <2>5
  <2>7. k[s] = h[Chosen(s)] + k[s \ {Chosen(s)}] /\ g[s] = f[Chosen(s)] + g[s \ {Chosen(s)}]
    BY <1>2, <2>3 DEF SumsTo
  <2>8. h[Chosen(s)] = f[Chosen(s)]
    BY <2>4
  <2> QED
    BY <2>2, <2>6, <2>7, <2>8
<1>4. T \in Small(T, Cardinality(T)) /\ Cardinality(T) \in Nat
  BY <1>1, FS_CardinalityType DEF Small
<1> QED
  BY <1>2, <1>3, <1>4 DEF SumsTo

\* One element more.
LEMMA SumGrows ==
  ASSUME NEW T, IsFiniteSet(T), NEW x, x \notin T, NEW f \in [T -> Nat],
         NEW h \in [T \cup {x} -> Nat], \A y \in T : h[y] = f[y]
  PROVE  Sum(f, T) \in Nat /\ Sum(h, T \cup {x}) = Sum(f, T) + h[x]
<1> DEFINE S == T \cup {x}
<1>1. IsFiniteSet(S)
  BY FS_AddElement
<1>2. PICK g : SumsTo(g, h, S)
  BY <1>1, SumOnIs
<1>3. g[S] = h[x] + g[S \ {x}]
  BY <1>1, <1>2, SumTakes
<1>4. Sum(f, T) = g[T]
  BY <1>1, <1>2, SumAgrees
<1>5. S \ {x} = T /\ g[T] \in Nat /\ h[x] \in Nat /\ Sum(h, S) = g[S]
  BY <1>2 DEF SumsTo
<1>6. g[S] = h[x] + g[T]
  BY <1>3, <1>5
<1> HIDE DEF S
<1>7. Sum(f, T) \in Nat /\ Sum(h, S) = Sum(f, T) + h[x]
  BY <1>4, <1>5, <1>6
<1> QED
  BY <1>7 DEF S

\* Ones are counted.
LEMMA SumOfOnes ==
  ASSUME NEW S, IsFiniteSet(S), NEW f \in [S -> Nat], \A x \in S : f[x] = 1
  PROVE  Sum(f, S) = Cardinality(S)
<1>1. PICK g : SumsTo(g, f, S)
  BY SumOnIs
<1> DEFINE Bad == {m \in Nat : \E s \in Small(S, m) : g[s] # Cardinality(s)}
<1>2. Bad = {}
  <2> SUFFICES ASSUME Bad # {} PROVE FALSE
    OBVIOUS
  <2>1. PICK m \in Bad : m = 0 \/ m - 1 \notin Bad
    BY Least
  <2>2. PICK s \in Small(S, m) : g[s] # Cardinality(s)
    BY <2>1
  <2>3. s # {} /\ s \in SUBSET S /\ m \in Nat
    BY <1>1, <2>1, <2>2, FS_EmptySet DEF Small, SumsTo
  <2>4. s \ {Chosen(s)} \in Small(S, m - 1) /\ Chosen(s) \in S /\ Chosen(s) \in s /\ m # 0
    BY <2>3, Smaller
  <2>5. m - 1 \in Nat /\ m - 1 \notin Bad
    BY <2>1, <2>3, <2>4
  <2>6. g[s \ {Chosen(s)}] = Cardinality(s \ {Chosen(s)})
    BY <2>4, <2>5
  <2>7. IsFiniteSet(s) /\ Cardinality(s) \in Nat
        /\ Cardinality(s \ {Chosen(s)}) = Cardinality(s) - 1
    BY <2>3, <2>4, FS_Subset, FS_CardinalityType, FS_RemoveElement
  <2>8. g[s] = f[Chosen(s)] + g[s \ {Chosen(s)}] /\ f[Chosen(s)] = 1
    BY <1>1, <2>3, <2>4 DEF SumsTo
  <2>9. g[s] = Cardinality(s)
    BY <2>6, <2>7, <2>8
  <2> QED
    BY <2>2, <2>9
<1>3. S \in Small(S, Cardinality(S)) /\ Cardinality(S) \in Nat
  BY FS_CardinalityType DEF Small
<1> QED
  BY <1>1, <1>2, <1>3 DEF SumsTo
=============================================================================
