----------------------------- MODULE SumProofs ------------------------------
(***************************************************************************)
(* Sums over finite sets: what MapThenSumSet computes for the amounts of   *)
(* any finite set of keys. The induction is over finite subsets, by a      *)
(* smallest counterexample.                                                *)
(***************************************************************************)
EXTENDS FiniteSetsExt, FiniteSetTheorems, TLAPS

\* The sum of f over the elements of S.
SumOver(f, S) == MapThenSumSet(LAMBDA x : f[x], S)

\* The element the fold takes next, and what the recursion says of its table g
\* of the sums over all subsets of S.
Pick(s) == CHOOSE x \in s : TRUE

IsTable(f, g, S) ==
    g = [s \in SUBSET S |-> IF s = {} THEN 0 ELSE f[Pick(s)] + g[s \ {Pick(s)}]]

TableOf(f, S) == CHOOSE g : IsTable(f, g, S)

\* The sum is read off the table.
LEMMA SumIsTable ==
    ASSUME NEW f, NEW S
    PROVE  SumOver(f, S) = TableOf(f, S)[S]
  BY Zenon DEF SumOver, MapThenSumSet, MapThenFoldSet, TableOf, IsTable, Pick

\* A set of subsets of a finite set has a smallest member.
LEMMA SmallestSubset ==
    ASSUME NEW K, IsFiniteSet(K), NEW T \in SUBSET (SUBSET K), T # {}
    PROVE  \E s \in T : \A u \in T : u \subseteq s => u = s
<1>1. IsWellFoundedOn(StrictSubsetOrdering(K), SUBSET K)
  BY FS_StrictSubsetOrderingWellFounded, FS_FiniteSubsetsOfFinite
<1>2. \E s \in T : \A u \in T : <<u, s>> \notin StrictSubsetOrdering(K)
  BY <1>1, WFMin
<1> QED
  BY <1>2 DEF StrictSubsetOrdering

\* The element taken is one of the set.
LEMMA PickIsIn ==
    ASSUME NEW s, s # {}
    PROVE  Pick(s) \in s
  BY DEF Pick

\* What a table says of one subset.
LEMMA TableEntry ==
    ASSUME NEW f, NEW S, NEW g, IsTable(f, g, S), NEW s \in SUBSET S
    PROVE  /\ g[{}] = 0
           /\ s # {} => g[s] = f[Pick(s)] + g[s \ {Pick(s)}]
<1>0. g[{}] = 0
  BY DEF IsTable
<1>1. g[s] = IF s = {} THEN 0 ELSE f[Pick(s)] + g[s \ {Pick(s)}]
  BY Zenon DEF IsTable
<1> QED
  BY <1>0, <1>1

\* Tables agree where they meet.
LEMMA TablesAgree ==
    ASSUME NEW f, NEW A, NEW B, IsFiniteSet(A), NEW g, NEW h,
           IsTable(f, g, A), IsTable(f, h, B),
           NEW s \in SUBSET A, s \in SUBSET B
    PROVE  g[s] = h[s]
<1>6. ASSUME NEW u \in SUBSET A, u # {}
      PROVE  g[u] = f[Pick(u)] + g[u \ {Pick(u)}]
  <2>1. g[u] = IF u = {} THEN 0 ELSE f[Pick(u)] + g[u \ {Pick(u)}]
    BY Zenon DEF IsTable
  <2> QED
    BY <1>6, <2>1
<1>7. ASSUME NEW u \in SUBSET B, u # {}
      PROVE  h[u] = f[Pick(u)] + h[u \ {Pick(u)}]
  <2>1. h[u] = IF u = {} THEN 0 ELSE f[Pick(u)] + h[u \ {Pick(u)}]
    BY Zenon DEF IsTable
  <2> QED
    BY <1>7, <2>1
<1> DEFINE T == {u \in SUBSET s : g[u] # h[u]}
<1> SUFFICES ASSUME T # {} PROVE FALSE
  OBVIOUS
<1>1. IsFiniteSet(s) /\ T \in SUBSET (SUBSET s)
  BY FS_Subset
<1>2. PICK u \in T : \A v \in T : v \subseteq u => v = u
  <2> HIDE DEF T
  <2> QED
    BY <1>1, SmallestSubset
<1>3. u \in SUBSET A /\ u \in SUBSET B /\ u \in SUBSET s /\ g[u] # h[u]
  OBVIOUS
<1>4. CASE u = {}
  <2>1. g[{}] = 0 /\ h[{}] = 0
    BY <1>3, TableEntry
  <2> QED
    BY <1>3, <1>4, <2>1
<1>5. CASE u # {}
  <2> DEFINE v == u \ {Pick(u)}
  <2>1. v \in SUBSET s /\ v \subseteq u /\ v # u
    BY <1>3, <1>5, PickIsIn
  <2>2. g[v] = h[v]
    BY <1>2, <2>1
  <2>3. u \in SUBSET A /\ u \in SUBSET B /\ g[u] # h[u]
    BY <1>3
  <2> HIDE DEF T
  <2>4. g[u] = f[Pick(u)] + g[u \ {Pick(u)}]
    BY <1>5, <2>3, <1>6
  <2>5. h[u] = f[Pick(u)] + h[u \ {Pick(u)}]
    BY <1>5, <2>3, <1>7
  <2> QED
    BY <2>2, <2>3, <2>4, <2>5
<1> QED
  BY <1>4, <1>5

\* Every finite set has a table.
LEMMA TableExists ==
    ASSUME NEW f, NEW K, IsFiniteSet(K)
    PROVE  IsTable(f, TableOf(f, K), K)
<1> DEFINE T == {s \in SUBSET K : ~ IsTable(f, TableOf(f, s), s)}
<1> SUFFICES ASSUME T # {} PROVE FALSE
  OBVIOUS
<1>0. T \in SUBSET (SUBSET K)
  OBVIOUS
<1>1. PICK s \in T : \A u \in T : u \subseteq s => u = s
  <2> HIDE DEF T
  <2> QED
    BY <1>0, SmallestSubset
<1>2. s \in SUBSET K /\ ~ IsTable(f, TableOf(f, s), s) /\ IsFiniteSet(s)
  BY FS_Subset
<1>3. \A u \in SUBSET s : u # s => IsTable(f, TableOf(f, u), u) /\ IsFiniteSet(u)
  BY <1>1, <1>2, FS_Subset
<1> HIDE DEF T
<1> DEFINE Less(u) == u \ {Pick(u)}
           g == [u \in SUBSET s |->
                   IF u = {} THEN 0 ELSE f[Pick(u)] + TableOf(f, Less(u))[Less(u)]]
<1>4. \A u \in SUBSET s : u # {} => /\ Less(u) \in SUBSET s
                                    /\ Less(u) # s
                                    /\ Less(u) \subseteq u
  BY PickIsIn
<1>5. ASSUME NEW v \in SUBSET s, v # s
      PROVE  g[v] = TableOf(f, v)[v]
  <2>1. IsTable(f, TableOf(f, v), v) /\ IsFiniteSet(v)
    BY <1>3, <1>5
  <2>2. CASE v = {}
    <3>1. TableOf(f, v)[{}] = 0
      BY <2>1, TableEntry
    <3> QED
      BY <2>2, <3>1
  <2>3. CASE v # {}
    <3>1. TableOf(f, v)[v] = f[Pick(v)] + TableOf(f, v)[Less(v)]
      BY <2>1, <2>3, TableEntry
    <3>2. IsTable(f, TableOf(f, Less(v)), Less(v))
      BY <1>3, <1>4, <2>3
    <3>3. Less(v) \in SUBSET v /\ Less(v) \in SUBSET Less(v)
      BY <1>4, <2>3
    <3>4. TableOf(f, v)[Less(v)] = TableOf(f, Less(v))[Less(v)]
      <4> HIDE DEF Less, g
      <4> QED
        BY <2>1, <3>2, <3>3, TablesAgree
    <3>5. g[v] = f[Pick(v)] + TableOf(f, Less(v))[Less(v)]
      BY <2>3
    <3> QED
      BY <3>1, <3>4, <3>5
  <2> QED
    BY <2>2, <2>3
<1>6. \A u \in SUBSET s :
         g[u] = IF u = {} THEN 0 ELSE f[Pick(u)] + g[u \ {Pick(u)}]
  BY <1>4, <1>5
<1>7. IsTable(f, g, s)
  BY <1>6 DEF IsTable
<1> HIDE DEF g
<1> QED
  BY <1>2, <1>7, Zenon DEF TableOf

\* The sum over nothing, and over something.
LEMMA SumOfNone ==
    ASSUME NEW f
    PROVE  SumOver(f, {}) = 0
<1>1. IsTable(f, TableOf(f, {}), {})
  BY TableExists, FS_EmptySet
<1>2. TableOf(f, {})[{}] = 0
  BY <1>1, TableEntry
<1> QED
  BY <1>2, SumIsTable

LEMMA SumStep ==
    ASSUME NEW f, NEW S, IsFiniteSet(S), S # {}
    PROVE  SumOver(f, S) = f[Pick(S)] + SumOver(f, S \ {Pick(S)})
<1> DEFINE R == S \ {Pick(S)}
<1>1. IsFiniteSet(R) /\ R \in SUBSET S /\ R \in SUBSET R
  BY FS_Subset
<1>2. IsTable(f, TableOf(f, S), S) /\ IsTable(f, TableOf(f, R), R)
  <2> HIDE DEF R
  <2> QED
    BY <1>1, TableExists
<1>3. TableOf(f, S)[S] = IF S = {} THEN 0 ELSE f[Pick(S)] + TableOf(f, S)[R]
  BY <1>2, Zenon DEF IsTable
<1>4. TableOf(f, S)[R] = TableOf(f, R)[R]
  <2> HIDE DEF R
  <2>1. ASSUME NEW g, NEW h, IsTable(f, g, S), IsTable(f, h, R)
        PROVE  g[R] = h[R]
    BY <1>1, <2>1, TablesAgree
  <2> QED
    BY <1>2, <2>1, Zenon
<1>5. SumOver(f, S) = TableOf(f, S)[S] /\ SumOver(f, R) = TableOf(f, R)[R]
  <2> HIDE DEF R
  <2> QED
    BY SumIsTable
<1> QED
  BY <1>3, <1>4, <1>5

\* Sums of naturals are naturals.
LEMMA SumIsNat ==
    ASSUME NEW K, IsFiniteSet(K), NEW f \in [K -> Nat], NEW S \in SUBSET K
    PROVE  SumOver(f, S) \in Nat
<1> DEFINE T == {s \in SUBSET K : SumOver(f, s) \notin Nat}
<1> SUFFICES ASSUME T # {} PROVE FALSE
  OBVIOUS
<1>0. T \in SUBSET (SUBSET K)
  OBVIOUS
<1>1. PICK s \in T : \A u \in T : u \subseteq s => u = s
  <2> HIDE DEF T
  <2> QED
    BY <1>0, SmallestSubset
<1>2. s \in SUBSET K /\ SumOver(f, s) \notin Nat /\ IsFiniteSet(s)
  BY FS_Subset
<1>3. s # {}
  BY <1>2, SumOfNone
<1>4. Pick(s) \in s /\ SumOver(f, s \ {Pick(s)}) \in Nat
  BY <1>1, <1>2, <1>3, PickIsIn
<1>5. SumOver(f, s) = f[Pick(s)] + SumOver(f, s \ {Pick(s)})
  BY <1>2, <1>3, SumStep
<1>6. f[Pick(s)] \in Nat
  BY <1>2, <1>4
<1> QED
  BY <1>2, <1>4, <1>5, <1>6

\* Any element may be taken first: the order of the fold does not matter.
LEMMA SumRemove ==
    ASSUME NEW K, IsFiniteSet(K), NEW f \in [K -> Nat],
           NEW S \in SUBSET K, NEW x \in S
    PROVE  SumOver(f, S) = f[x] + SumOver(f, S \ {x})
<1> DEFINE Off(s, y) == SumOver(f, s) # f[y] + SumOver(f, s \ {y})
           T == {s \in SUBSET K : \E y \in s : Off(s, y)}
<1> SUFFICES ASSUME T # {} PROVE FALSE
  OBVIOUS
<1>0. T \in SUBSET (SUBSET K)
  OBVIOUS
<1>1. PICK s \in T : \A u \in T : u \subseteq s => u = s
  <2> HIDE DEF T
  <2> QED
    BY <1>0, SmallestSubset
<1>2. s \in SUBSET K /\ IsFiniteSet(s) /\ \E y \in s : Off(s, y)
  BY FS_Subset
<1>3. PICK y \in s : Off(s, y)
  BY <1>2
<1>4. \A u \in SUBSET s : u # s => \A z \in u : ~ Off(u, z)
  BY <1>1, <1>2
<1> HIDE DEF T
<1> DEFINE c == Pick(s)
<1>5. c \in s /\ s # {}
  BY <1>3, PickIsIn
<1>6. SumOver(f, s) = f[c] + SumOver(f, s \ {c})
  BY <1>2, <1>5, SumStep
<1> HIDE DEF c
<1>7. y # c
  BY <1>3, <1>6
<1>8. SumOver(f, s \ {c}) = f[y] + SumOver(f, (s \ {c}) \ {y})
  <2>1. s \ {c} \in SUBSET s /\ s \ {c} # s /\ y \in s \ {c}
    BY <1>3, <1>5, <1>7
  <2> QED
    BY <1>4, <2>1
<1>9. SumOver(f, s \ {y}) = f[c] + SumOver(f, (s \ {c}) \ {y})
  <2>1. s \ {y} \in SUBSET s /\ s \ {y} # s /\ c \in s \ {y}
    BY <1>3, <1>5, <1>7
  <2>2. (s \ {y}) \ {c} = (s \ {c}) \ {y}
    OBVIOUS
  <2> QED
    BY <1>4, <2>1, <2>2
<1>10. SumOver(f, (s \ {c}) \ {y}) \in Nat
  <2>1. (s \ {c}) \ {y} \in SUBSET K
    BY <1>2
  <2> QED
    BY <2>1, SumIsNat
<1>11. f[y] \in Nat /\ f[c] \in Nat
  BY <1>2, <1>3, <1>5
<1> QED
  BY <1>3, <1>6, <1>8, <1>9, <1>10, <1>11

\* The sum over two sets that have nothing in common.
LEMMA SumUnion ==
    ASSUME NEW K, IsFiniteSet(K), NEW f \in [K -> Nat],
           NEW A \in SUBSET K, NEW B \in SUBSET K, A \cap B = {}
    PROVE  SumOver(f, A \cup B) = SumOver(f, A) + SumOver(f, B)
<1> DEFINE Off(b) == SumOver(f, A \cup b) # SumOver(f, A) + SumOver(f, b)
           T == {b \in SUBSET B : Off(b)}
<1> SUFFICES ASSUME T # {} PROVE FALSE
  OBVIOUS
<1>0. T \in SUBSET (SUBSET K)
  OBVIOUS
<1>1. PICK b \in T : \A u \in T : u \subseteq b => u = b
  <2> HIDE DEF T
  <2> QED
    BY <1>0, SmallestSubset
<1>2. b \in SUBSET B /\ Off(b)
  OBVIOUS
<1>3. SumOver(f, A) \in Nat
  BY SumIsNat
<1>4. b # {}
  <2>1. A \cup {} = A
    OBVIOUS
  <2>2. SumOver(f, A \cup {}) = SumOver(f, A)
    BY <2>1, Zenon
  <2>3. SumOver(f, {}) = 0
    BY SumOfNone
  <2>4. ~ Off({})
    BY <1>3, <2>2, <2>3
  <2> HIDE DEF Off
  <2> QED
    BY <1>2, <2>4, Zenon
<1>5. PICK x \in b : TRUE
  BY <1>4
<1>6. ~ Off(b \ {x})
  BY <1>1, <1>2, <1>5
<1> HIDE DEF T
<1>7. SumOver(f, b) = f[x] + SumOver(f, b \ {x})
  <2>1. b \in SUBSET K
    BY <1>2
  <2> QED
    BY <2>1, <1>5, SumRemove
<1>8. SumOver(f, A \cup b) = f[x] + SumOver(f, A \cup (b \ {x}))
  <2> DEFINE U == A \cup b
  <2>1. U \in SUBSET K /\ x \in U /\ U \ {x} = A \cup (b \ {x})
    BY <1>2, <1>5
  <2> HIDE DEF U
  <2>2. SumOver(f, U) = f[x] + SumOver(f, U \ {x})
    BY <2>1, SumRemove
  <2> QED
    BY <2>1, <2>2 DEF U
<1>9. SumOver(f, b \ {x}) \in Nat /\ f[x] \in Nat
  <2>1. b \ {x} \in SUBSET K /\ x \in K
    BY <1>2, <1>5
  <2> QED
    BY <2>1, SumIsNat
<1> QED
  BY <1>2, <1>3, <1>6, <1>7, <1>8, <1>9

\* A part sums to no more than the whole.
LEMMA SumSubset ==
    ASSUME NEW K, IsFiniteSet(K), NEW f \in [K -> Nat],
           NEW B \in SUBSET K, NEW A \in SUBSET B
    PROVE  SumOver(f, A) <= SumOver(f, B)
<1> DEFINE R == B \ A
<1>1. A \in SUBSET K /\ R \in SUBSET K /\ A \cap R = {} /\ A \cup R = B
  OBVIOUS
<1> HIDE DEF R
<1>2. SumOver(f, A \cup R) = SumOver(f, A) + SumOver(f, R)
  BY <1>1, SumUnion
<1>3. SumOver(f, A) \in Nat /\ SumOver(f, R) \in Nat
  BY <1>1, SumIsNat
<1>4. SumOver(f, B) = SumOver(f, A) + SumOver(f, R)
  BY <1>1, <1>2, Zenon
<1> QED
  BY <1>3, <1>4

\* The sum depends on the values at the elements only.
LEMMA SumAgree ==
    ASSUME NEW S, IsFiniteSet(S), NEW f, NEW g, \A x \in S : f[x] = g[x]
    PROVE  SumOver(f, S) = SumOver(g, S)
<1> DEFINE T == {s \in SUBSET S : SumOver(f, s) # SumOver(g, s)}
<1> SUFFICES ASSUME T # {} PROVE FALSE
  OBVIOUS
<1>0. T \in SUBSET (SUBSET S)
  OBVIOUS
<1>1. PICK s \in T : \A u \in T : u \subseteq s => u = s
  <2> HIDE DEF T
  <2> QED
    BY <1>0, SmallestSubset
<1>2. s \in SUBSET S /\ SumOver(f, s) # SumOver(g, s) /\ IsFiniteSet(s)
  BY FS_Subset
<1>3. s # {}
  BY <1>2, SumOfNone
<1>4. Pick(s) \in s /\ SumOver(f, s \ {Pick(s)}) = SumOver(g, s \ {Pick(s)})
  BY <1>1, <1>2, <1>3, PickIsIn
<1>5. /\ SumOver(f, s) = f[Pick(s)] + SumOver(f, s \ {Pick(s)})
      /\ SumOver(g, s) = g[Pick(s)] + SumOver(g, s \ {Pick(s)})
  BY <1>2, <1>3, SumStep
<1>6. f[Pick(s)] = g[Pick(s)]
  BY <1>2, <1>4
<1> QED
  BY <1>2, <1>4, <1>5, <1>6
=============================================================================
