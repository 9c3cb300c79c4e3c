------------------------------ MODULE CacheProofs ------------------------------
(***************************************************************************)
(* The safety of TtlCache: types, the limits, the cleanup and the          *)
(* rollback; and what CacheHierarchy answers, with TtlCache below it.      *)
(* The limits and the rollback are folds, whose values are found by        *)
(* looking at a least counterexample: a sum over a set does not depend on  *)
(* the order, and a rollback gives each key what the first operation that  *)
(* says anything about it recorded.                                        *)
(***************************************************************************)
EXTENDS CacheHierarchy, TLAPS, FiniteSetTheorems

-------------------------------------------------------------------------------
(* Sums of memory *)

\* A collection of subsets of a finite set that is not empty has a minimal member.
LEMMA MinimalSubset ==
  ASSUME NEW S, IsFiniteSet(S), NEW bad \in SUBSET (SUBSET S), bad # {}
  PROVE  \E T \in bad : \A U \in bad : U \subseteq T => U = T
<1>1. IsWellFoundedOn(StrictSubsetOrdering(S), SUBSET S)
  BY FS_StrictSubsetOrderingWellFounded, FS_FiniteSubsetsOfFinite
<1>2. PICK T \in bad : \A U \in bad : <<U, T>> \notin StrictSubsetOrdering(S)
  BY <1>1, WFMin, Zenon
<1>3. ASSUME NEW U \in bad, U \subseteq T
      PROVE  U = T
  BY <1>2, <1>3 DEF StrictSubsetOrdering
<1> QED
  BY <1>3

Taken(s) == CHOOSE x \in s : TRUE

\* f adds up the weights of the data in ents over the subsets of S.
Adds(ents, S, f) ==
  f = [s \in SUBSET S |-> IF s = {} THEN 0
                          ELSE Weight[ents[Taken(s)].data] + f[s \ {Taken(s)}]]

MemoryOf(ents, S) == (CHOOSE f : Adds(ents, S, f))[S]

\* This is the sum in WithinBounds.
LEMMA WithinBoundsMeans ==
  ASSUME NEW ents
  PROVE  WithinBounds(ents) <=> /\ Cardinality(Present(ents)) <= max_entries
                                /\ MemoryOf(ents, Present(ents)) <= max_memory
BY DEF WithinBounds, MapThenSumSet, MapThenFoldSet, MemoryOf, Adds, Taken

\* Two such functions agree where both are defined.
LEMMA AddsUnique ==
  ASSUME NEW ents, NEW S, IsFiniteSet(S), NEW T, NEW f, NEW g, Adds(ents, S, f), Adds(ents, T, g)
  PROVE  \A s \in SUBSET S : s \subseteq T => f[s] = g[s]
<1> DEFINE bad == {s \in SUBSET S : s \subseteq T /\ f[s] # g[s]}
<1> SUFFICES ASSUME bad # {}
             PROVE  FALSE
  OBVIOUS
<1>1. PICK s \in bad : \A u \in bad : u \subseteq s => u = s
  <2> HIDE DEF bad
  <2>1. bad \in SUBSET (SUBSET S)
    BY DEF bad
  <2> QED
    BY <2>1, MinimalSubset
<1>2. s # {} => Taken(s) \in s
  BY DEF Taken
<1>3. s # {} => f[s \ {Taken(s)}] = g[s \ {Taken(s)}]
  BY <1>1, <1>2
<1>4. f[s] = IF s = {} THEN 0 ELSE Weight[ents[Taken(s)].data] + f[s \ {Taken(s)}]
  BY Zenon DEF Adds
<1>5. g[s] = IF s = {} THEN 0 ELSE Weight[ents[Taken(s)].data] + g[s \ {Taken(s)}]
  BY Zenon DEF Adds
<1> QED
  BY <1>3, <1>4, <1>5

LEMMA AddsAgree ==
  ASSUME NEW ents, NEW S, IsFiniteSet(S), NEW T \in SUBSET S, NEW f, NEW g,
         Adds(ents, S, f), Adds(ents, T, g)
  PROVE  f[T] = g[T] /\ MemoryOf(ents, T) = g[T]
<1>1. IsFiniteSet(T) /\ T \subseteq S
  BY FS_Subset
<1>2. PICK h : Adds(ents, T, h) /\ MemoryOf(ents, T) = h[T]
  <2>1. Adds(ents, T, CHOOSE h : Adds(ents, T, h))
    BY Zenon
  <2> QED
    BY <2>1, Zenon DEF MemoryOf
<1>3. \A s \in SUBSET T : s \subseteq S => h[s] = f[s]
  BY <1>1, <1>2, AddsUnique
<1>4. \A s \in SUBSET T : s \subseteq S => g[s] = f[s]
  BY <1>1, AddsUnique
<1> QED
  BY <1>1, <1>2, <1>3, <1>4

\* There is such a function over every finite set: if there is one over every smaller set,
\* their values give one more.
LEMMA AddsExists ==
  ASSUME NEW ents, NEW S, IsFiniteSet(S)
  PROVE  \E f : Adds(ents, S, f)
<1> DEFINE bad == {T \in SUBSET S : ~ \E f : Adds(ents, T, f)}
<1> SUFFICES ASSUME bad # {}
             PROVE  FALSE
  OBVIOUS
<1>1. PICK T \in bad : \A U \in bad : U \subseteq T => U = T
  <2> HIDE DEF bad
  <2>1. bad \in SUBSET (SUBSET S)
    BY DEF bad
  <2> QED
    BY <2>1, MinimalSubset
<1>2. T \in SUBSET S /\ ~ \E f : Adds(ents, T, f)
  OBVIOUS
<1>3. \A U \in SUBSET T : U # T => \E f : Adds(ents, U, f)
  BY <1>1
<1> HIDE DEF bad
<1>4. \A s \in SUBSET T : s # {} => Taken(s) \in s
  BY DEF Taken
<1> DEFINE Value(s) == IF s = {} THEN 0
                       ELSE Weight[ents[Taken(s)].data] + MemoryOf(ents, s \ {Taken(s)})
           f == [s \in SUBSET T |-> Value(s)]
<1>5. ASSUME NEW u \in SUBSET T, u # T
      PROVE  MemoryOf(ents, u) = Value(u)
  <2>1. IsFiniteSet(u)
    BY <1>2, FS_Subset
  <2>2. PICK g : Adds(ents, u, g)
    BY <1>3, <1>5
  <2>3. MemoryOf(ents, u) = g[u]
    BY <2>1, <2>2, AddsAgree
  <2>4. g[u] = IF u = {} THEN 0 ELSE Weight[ents[Taken(u)].data] + g[u \ {Taken(u)}]
    BY <2>2, Zenon DEF Adds
  <2>5. CASE u # {}
    <3> DEFINE v == u \ {Taken(u)}
    <3>1. v \in SUBSET T /\ v # T /\ v \in SUBSET u
      BY <1>4, <2>5
    <3> HIDE DEF v
    <3>2. PICK h : Adds(ents, v, h)
      BY <1>3, <3>1
    <3>3. g[v] = MemoryOf(ents, v)
      BY <2>1, <2>2, <3>1, <3>2, AddsAgree
    <3> QED
      BY <2>3, <2>4, <2>5, <3>3 DEF v
  <2> QED
    BY <2>3, <2>4, <2>5
<1>6. ASSUME NEW s \in SUBSET T
      PROVE  f[s] = IF s = {} THEN 0 ELSE Weight[ents[Taken(s)].data] + f[s \ {Taken(s)}]
  <2>1. CASE s # {}
    <3>1. s \ {Taken(s)} \in SUBSET T /\ s \ {Taken(s)} # T
      BY <1>4, <2>1
    <3>2. MemoryOf(ents, s \ {Taken(s)}) = Value(s \ {Taken(s)})
      BY <1>5, <3>1
    <3>3. f[s] = Value(s) /\ f[s \ {Taken(s)}] = Value(s \ {Taken(s)})
      BY <3>1, Zenon
    <3> HIDE DEF f
    <3> QED
      BY <2>1, <3>2, <3>3
  <2> QED
    BY <2>1
<1>7. Adds(ents, T, f)
  <2>1. f = [s \in SUBSET T |-> f[s]]
    BY Zenon
  <2> HIDE DEF f
  <2> QED
    BY <1>6, <2>1 DEF Adds
<1> QED
  BY <1>2, <1>7

\* The equation of the fold.
LEMMA MemoryEquation ==
  ASSUME NEW ents, NEW S, IsFiniteSet(S)
  PROVE  /\ S = {} => MemoryOf(ents, S) = 0
         /\ S # {} => MemoryOf(ents, S) = Weight[ents[Taken(S)].data] + MemoryOf(ents, S \ {Taken(S)})
<1> DEFINE T == S \ {Taken(S)}
<1>1. IsFiniteSet(T) /\ T \in SUBSET S
  BY FS_Subset
<1> HIDE DEF T
<1>2. PICK f : Adds(ents, S, f)
  BY AddsExists
<1>3. PICK g : Adds(ents, T, g)
  BY <1>1, AddsExists
<1>4. MemoryOf(ents, S) = f[S] /\ MemoryOf(ents, T) = f[T]
  BY <1>1, <1>2, <1>3, AddsAgree
<1>5. f[S] = IF S = {} THEN 0 ELSE Weight[ents[Taken(S)].data] + f[S \ {Taken(S)}]
  BY <1>2, Zenon DEF Adds
<1> QED
  BY <1>4, <1>5 DEF T

LEMMA MemoryIsNat ==
  ASSUME NEW ents, NEW S, IsFiniteSet(S), \A x \in S : Weight[ents[x].data] \in Nat
  PROVE  MemoryOf(ents, S) \in Nat
<1> DEFINE bad == {T \in SUBSET S : MemoryOf(ents, T) \notin Nat}
<1> SUFFICES ASSUME bad # {}
             PROVE  FALSE
  OBVIOUS
<1>1. PICK T \in bad : \A U \in bad : U \subseteq T => U = T
  <2> HIDE DEF bad
  <2>1. bad \in SUBSET (SUBSET S)
    BY DEF bad
  <2> QED
    BY <2>1, MinimalSubset
<1>2. T \in SUBSET S /\ MemoryOf(ents, T) \notin Nat /\ IsFiniteSet(T)
  BY FS_Subset
<1>3. T # {} /\ MemoryOf(ents, T) = Weight[ents[Taken(T)].data] + MemoryOf(ents, T \ {Taken(T)})
  BY <1>2, MemoryEquation
<1>4. Taken(T) \in T
  BY <1>3 DEF Taken
<1>5. MemoryOf(ents, T \ {Taken(T)}) \in Nat
  BY <1>1, <1>4
<1> QED
  BY <1>2, <1>3, <1>4, <1>5

\* Any element may be taken out first.
LEMMA MemoryWithout ==
  ASSUME NEW ents, NEW S, IsFiniteSet(S), \A x \in S : Weight[ents[x].data] \in Nat, NEW y \in S
  PROVE  MemoryOf(ents, S) = Weight[ents[y].data] + MemoryOf(ents, S \ {y})
<1> DEFINE Good(T) == \A z \in T : MemoryOf(ents, T) = Weight[ents[z].data] + MemoryOf(ents, T \ {z})
           bad == {T \in SUBSET S : ~Good(T)}
<1> SUFFICES ASSUME bad # {}
             PROVE  FALSE
  BY FS_Subset
<1>1. PICK T \in bad : \A U \in bad : U \subseteq T => U = T
  <2> HIDE DEF bad
  <2>1. bad \in SUBSET (SUBSET S)
    BY DEF bad
  <2> QED
    BY <2>1, MinimalSubset
<1>2. T \in SUBSET S /\ IsFiniteSet(T)
  BY FS_Subset
<1>3. PICK z \in T : MemoryOf(ents, T) # Weight[ents[z].data] + MemoryOf(ents, T \ {z})
  OBVIOUS
<1> DEFINE t == Taken(T)
<1>4. t \in T /\ MemoryOf(ents, T) = Weight[ents[t].data] + MemoryOf(ents, T \ {t})
  BY <1>2, <1>3, MemoryEquation DEF Taken
<1>5. Good(T \ {t}) /\ Good(T \ {z})
  BY <1>1, <1>3, <1>4
<1> HIDE DEF t, bad
<1>6. z # t /\ z \in T \ {t} /\ t \in T \ {z} /\ (T \ {t}) \ {z} = (T \ {z}) \ {t}
  BY <1>3, <1>4
<1>7. /\ MemoryOf(ents, T \ {t}) = Weight[ents[z].data] + MemoryOf(ents, (T \ {t}) \ {z})
      /\ MemoryOf(ents, T \ {z}) = Weight[ents[t].data] + MemoryOf(ents, (T \ {t}) \ {z})
  BY <1>5, <1>6
<1>8. MemoryOf(ents, (T \ {t}) \ {z}) \in Nat
  <2>1. IsFiniteSet((T \ {t}) \ {z}) /\ (T \ {t}) \ {z} \subseteq S
    BY <1>2, FS_Subset
  <2> QED
    BY <2>1, MemoryIsNat
<1> QED
  BY <1>2, <1>3, <1>4, <1>6, <1>7, <1>8

\* Fewer entries, with the same data, take no more memory.
LEMMA MemoryShrinks ==
  ASSUME NEW ents, NEW less, NEW S, IsFiniteSet(S), \A x \in S : Weight[ents[x].data] \in Nat,
         NEW R \in SUBSET S, \A x \in R : less[x].data = ents[x].data
  PROVE  MemoryOf(less, R) <= MemoryOf(ents, S)
<1> DEFINE Good(U) == \A T \in SUBSET (U \cap R) : MemoryOf(less, T) <= MemoryOf(ents, U)
           bad == {U \in SUBSET S : ~Good(U)}
<1> SUFFICES ASSUME bad # {}
             PROVE  FALSE
  <2>1. Good(S)
    OBVIOUS
  <2> QED
    BY <2>1
<1>1. PICK U \in bad : \A V \in bad : V \subseteq U => V = U
  <2> HIDE DEF bad
  <2>1. bad \in SUBSET (SUBSET S)
    BY DEF bad
  <2> QED
    BY <2>1, MinimalSubset
<1>2. PICK T \in SUBSET (U \cap R) : ~(MemoryOf(less, T) <= MemoryOf(ents, U))
  OBVIOUS
<1>3. U \in SUBSET S /\ IsFiniteSet(U) /\ IsFiniteSet(T)
  <2>1. U \in SUBSET S /\ T \in SUBSET S
    OBVIOUS
  <2> QED
    BY <2>1, FS_Subset
<1>4. /\ MemoryOf(ents, U) \in Nat
      /\ \A x \in T : Weight[less[x].data] \in Nat /\ Weight[less[x].data] = Weight[ents[x].data]
  BY <1>3, MemoryIsNat
<1>5. U # {}
  <2>1. SUFFICES ASSUME U = {}
                 PROVE  FALSE
    OBVIOUS
  <2>2. MemoryOf(less, T) = 0 /\ MemoryOf(ents, U) = 0
    BY <1>3, <2>1, MemoryEquation
  <2> QED
    BY <1>2, <2>2
<1>6. PICK y : y \in U
  BY <1>5
<1>7. /\ MemoryOf(ents, U) = Weight[ents[y].data] + MemoryOf(ents, U \ {y})
      /\ MemoryOf(ents, U \ {y}) \in Nat /\ Weight[ents[y].data] \in Nat
  <2>1. IsFiniteSet(U \ {y}) /\ \A x \in U : Weight[ents[x].data] \in Nat
    BY <1>3, FS_Subset
  <2> QED
    BY <1>3, <1>6, <2>1, MemoryWithout, MemoryIsNat
<1>8. MemoryOf(less, T \ {y}) <= MemoryOf(ents, U \ {y})
  <2>1. U \ {y} \in SUBSET S /\ U \ {y} \subseteq U /\ U \ {y} # U
    BY <1>3, <1>6
  <2>2. Good(U \ {y})
    BY <1>1, <2>1
  <2>3. T \ {y} \in SUBSET ((U \ {y}) \cap R)
    OBVIOUS
  <2> QED
    BY <2>2, <2>3
<1> HIDE DEF bad
<1>9. CASE y \in T
  <2>1. MemoryOf(less, T) = Weight[less[y].data] + MemoryOf(less, T \ {y})
    BY <1>3, <1>4, <1>9, MemoryWithout
  <2>2. MemoryOf(less, T \ {y}) \in Nat
    <3>1. IsFiniteSet(T \ {y}) /\ \A x \in T \ {y} : Weight[less[x].data] \in Nat
      BY <1>3, <1>4, FS_Subset
    <3> QED
      BY <3>1, MemoryIsNat
  <2> QED
    BY <1>2, <1>4, <1>7, <1>8, <1>9, <2>1, <2>2
<1>10. CASE y \notin T
  <2>1. T \ {y} = T /\ MemoryOf(less, T) \in Nat
    BY <1>3, <1>4, <1>10, MemoryIsNat
  <2>2. MemoryOf(less, T) <= MemoryOf(ents, U \ {y})
    BY <1>8, <2>1
  <2> QED
    BY <1>2, <1>4, <1>7, <2>1, <2>2
<1> QED
  BY <1>9, <1>10

-------------------------------------------------------------------------------
(* Entries *)

LEMMA EntryFields ==
  ASSUME NEW e \in Entry
  PROVE  /\ e.data \in Values \cup {NoValue} /\ e.age \in 0..AgeCap
         /\ e.data = NoValue => e = Absent
         /\ e.data # NoValue => e \in [data : Values, age : 0..AgeCap]
BY CacheAssumption DEF Entry, Absent, AgeCap

LEMMA NewEntries ==
  /\ Absent \in Entry
  /\ Absent.data = NoValue
  /\ \A v \in Values : Fresh(v) \in Entry /\ Fresh(v).data = v /\ v # NoValue
BY CacheAssumption DEF Entry, Absent, Fresh, AgeCap

LEMMA WithoutEntries ==
  ASSUME NEW ents \in [Keys -> Entry], NEW S
  PROVE  /\ Without(ents, S) \in [Keys -> Entry]
         /\ Present(Without(ents, S)) = Present(ents) \ S
         /\ \A k \in Keys \ S : Without(ents, S)[k] = ents[k]
BY NewEntries DEF Without, Present

\* A cache within its limits stays there when entries go.
LEMMA FewerAreWithin ==
  ASSUME NEW ents \in [Keys -> Entry], IsFiniteSet(Present(ents)), WithinBounds(ents),
         NEW less, Present(less) \subseteq Present(ents),
         \A k \in Present(less) : less[k].data = ents[k].data
  PROVE  WithinBounds(less)
<1>1. Cardinality(Present(less)) \in Nat /\ Cardinality(Present(less)) <= Cardinality(Present(ents))
      /\ Cardinality(Present(ents)) \in Nat /\ IsFiniteSet(Present(less))
  BY FS_Subset, FS_CardinalityType
<1>2. \A k \in Present(ents) : Weight[ents[k].data] \in Nat
  BY EntryFields, CacheAssumption DEF Present
<1>3. \A k \in Present(less) : Weight[less[k].data] \in Nat
  BY <1>2
<1>4. MemoryOf(less, Present(less)) <= MemoryOf(ents, Present(ents))
  <2>1. Present(less) \in SUBSET Present(ents)
    OBVIOUS
  <2> QED
    BY <1>2, <2>1, MemoryShrinks
<1>5. MemoryOf(less, Present(less)) \in Nat /\ MemoryOf(ents, Present(ents)) \in Nat
  BY <1>1, <1>2, <1>3, MemoryIsNat
<1>6. Cardinality(Present(ents)) <= max_entries /\ MemoryOf(ents, Present(ents)) <= max_memory
  BY WithinBoundsMeans
<1>7. max_entries \in Nat /\ max_memory \in Nat
  BY CacheAssumption
<1>8. Cardinality(Present(less)) <= max_entries /\ MemoryOf(less, Present(less)) <= max_memory
  BY <1>1, <1>4, <1>5, <1>6, <1>7
<1> QED
  BY <1>8, WithinBoundsMeans

\* set() leaves a cache within its limits, or one that has lost entries.
LEMMA StoredEntries ==
  ASSUME NEW ents \in [Keys -> Entry], NEW k \in Keys, NEW v \in Values, ents = entries,
         NEW after \in Stored(k, v)
  PROVE  /\ after \in [Keys -> Entry]
         /\ Present(after) \subseteq Present(ents) \cup {k}
         /\ \/ WithinBounds(after)
            \/ /\ Present(after) \subseteq Present(ents)
               /\ \A j \in Present(after) : after[j].data = ents[j].data
<1> DEFINE full == [entries EXCEPT ![k] = Fresh(v)]
<1>1. /\ full \in [Keys -> Entry]
      /\ Present(full) \subseteq Present(ents) \cup {k}
      /\ \A j \in Keys \ {k} : full[j] = ents[j]
  BY NewEntries DEF Present
<1>2. PICK E : after = IF WithinBounds(Without(full, E)) THEN Without(full, E)
                       ELSE Without(full, E \cup {k})
  BY DEF Stored
<1> HIDE DEF full
<1>3. CASE WithinBounds(Without(full, E))
  BY <1>1, <1>2, <1>3, WithoutEntries
<1>4. CASE ~WithinBounds(Without(full, E))
  <2>1. after = Without(full, E \cup {k})
    BY <1>2, <1>4
  <2>2. Present(after) = Present(full) \ (E \cup {k}) /\ after \in [Keys -> Entry]
        /\ \A j \in Keys \ (E \cup {k}) : after[j] = full[j]
    BY <1>1, <2>1, WithoutEntries
  <2>3. \A j \in Present(after) : j \in Keys \ (E \cup {k})
    BY <2>2 DEF Present
  <2>4. \A j \in Present(after) : after[j] = ents[j]
    BY <1>1, <2>2, <2>3
  <2> QED
    BY <1>1, <2>2, <2>4
<1> QED
  BY <1>3, <1>4

-------------------------------------------------------------------------------
(* Rollbacks *)

Operation == [operation : {"set", "delete"}, key : Keys, previous_value : Values \cup {NoValue}]

\* The operation says what its key was before.
Tells(op) == op.previous_value # NoValue \/ op.operation = "set"

Before(op) == IF op.previous_value # NoValue THEN Fresh(op.previous_value) ELSE Absent

\* What the operations at positions s leave when they are undone from the last to the first:
\* for each key, what the first one that tells it says.
Restored(ops, ents, s) ==
  [k \in Keys |->
     LET telling == {i \in s : ops[i].key = k /\ Tells(ops[i])}
     IN  IF telling = {} THEN ents[k] ELSE Before(ops[Min(telling)])]

Undoes(ops, ents, f) ==
  f = [s \in SUBSET (DOMAIN ops) |-> IF s = {} THEN ents ELSE Undone(ops[Min(s)], f[s \ {Min(s)}])]

LEMMA RollbackIsTheFold ==
  ASSUME NEW ops, NEW ents
  PROVE  RolledBack(ops, ents) = (CHOOSE f : Undoes(ops, ents, f))[DOMAIN ops]
BY DEF RolledBack, FoldRight, MapThenFoldSet, Undoes

LEMMA MinIsLeast ==
  ASSUME NEW S \in SUBSET Nat, S # {}
  PROVE  Min(S) \in S /\ \A j \in S : Min(S) <= j
<1> DEFINE Less == {p \in Nat \X Nat : p[1] < p[2]}
<1>1. IsWellFoundedOn(Less, Nat)
  BY NatLessThanWellFounded DEF OpToRel
<1>2. PICK i \in S : \A j \in S : <<j, i>> \notin Less
  <2> HIDE DEF Less
  <2> QED
    BY <1>1, WFMin, Zenon
<1>3. ASSUME NEW j \in S
      PROVE  i <= j
  <2>1. <<j, i>> \in Nat \X Nat /\ i \in Nat /\ j \in Nat
    OBVIOUS
  <2>2. ~(j < i)
    BY <1>2, <2>1
  <2> QED
    BY <2>1, <2>2
<1> QED
  BY <1>3 DEF Min

\* Undoing the first operation after the others gives its key what it tells.
LEMMA RestoredStep ==
  ASSUME NEW ops \in Seq(Operation), NEW ents \in [Keys -> Entry],
         NEW s \in SUBSET (DOMAIN ops), s # {}
  PROVE  Restored(ops, ents, s) = Undone(ops[Min(s)], Restored(ops, ents, s \ {Min(s)}))
<1> DEFINE m == Min(s)
           rest == Restored(ops, ents, s \ {m})
           Telling(k, t) == {i \in t : ops[i].key = k /\ Tells(ops[i])}
<1>1. s \in SUBSET Nat
  OBVIOUS
<1>2. m \in s /\ \A j \in s : m <= j
  BY <1>1, MinIsLeast
<1>3. ops[m] \in Operation
  BY <1>2
<1> HIDE DEF m
<1>4. \A k \in Keys : Undone(ops[m], rest)[k] = IF k = ops[m].key /\ Tells(ops[m])
                                               THEN Before(ops[m]) ELSE rest[k]
  BY <1>3 DEF Undone, Tells, Before, Without, Operation, Restored
<1>5. Undone(ops[m], rest) = [k \in Keys |-> Undone(ops[m], rest)[k]]
  BY <1>3 DEF Undone, Without, Restored
<1>6. ASSUME NEW k \in Keys
      PROVE  Restored(ops, ents, s)[k] = Undone(ops[m], rest)[k]
  <2>1. CASE k = ops[m].key /\ Tells(ops[m])
    <3>1. m \in Telling(k, s) /\ Telling(k, s) \in SUBSET Nat
      BY <1>1, <1>2, <2>1
    <3>2. Min(Telling(k, s)) = m
      <4> DEFINE T == Telling(k, s)
      <4>1. \A j \in T : m <= j
        BY <1>2
      <4> HIDE DEF T
      <4>2. Min(T) \in T /\ Min(T) <= m
        BY <3>1, MinIsLeast DEF T
      <4>3. m <= Min(T) /\ Min(T) \in Nat /\ m \in Nat
        BY <3>1, <4>1, <4>2 DEF T
      <4> QED
        BY <4>2, <4>3 DEF T
    <3>3. Restored(ops, ents, s)[k] = Before(ops[m])
      BY <3>1, <3>2 DEF Restored
    <3> QED
      BY <1>4, <2>1, <3>3
  <2>2. CASE ~(k = ops[m].key /\ Tells(ops[m]))
    <3>1. Telling(k, s) = Telling(k, s \ {m})
      BY <2>2
    <3>2. Restored(ops, ents, s)[k] = rest[k]
      BY <3>1 DEF Restored
    <3> QED
      BY <1>4, <2>2, <3>2
  <2> QED
    BY <2>1, <2>2
<1>7. Restored(ops, ents, s) = [k \in Keys |-> Restored(ops, ents, s)[k]]
  BY DEF Restored
<1> QED
  BY <1>5, <1>6, <1>7 DEF m

\* A rollback gives every key what the first operation that tells it recorded.
LEMMA RollbackIsRestored ==
  ASSUME NEW ops \in Seq(Operation), NEW ents \in [Keys -> Entry]
  PROVE  RolledBack(ops, ents) = Restored(ops, ents, DOMAIN ops)
<1> DEFINE Value(s) == Restored(ops, ents, s)
           g == [s \in SUBSET (DOMAIN ops) |-> Value(s)]
           f == CHOOSE f : Undoes(ops, ents, f)
<1>1. Value({}) = ents
  BY DEF Restored
<1>2. ASSUME NEW s \in SUBSET (DOMAIN ops), s # {}
      PROVE  Value(s) = Undone(ops[Min(s)], Value(s \ {Min(s)}))
  BY <1>2, RestoredStep
<1>3. Undoes(ops, ents, g)
  <2> HIDE DEF Value
  <2>1. \A s \in SUBSET (DOMAIN ops) : g[s] = Value(s) /\ g[s \ {Min(s)}] = Value(s \ {Min(s)})
    OBVIOUS
  <2>2. g = [s \in SUBSET (DOMAIN ops) |-> IF s = {} THEN ents
                                          ELSE Undone(ops[Min(s)], g[s \ {Min(s)}])]
    <3>1. \A s \in SUBSET (DOMAIN ops) : g[s] = IF s = {} THEN ents
                                          ELSE Undone(ops[Min(s)], g[s \ {Min(s)}])
      BY <1>1, <1>2, <2>1
    <3>2. g = [s \in SUBSET (DOMAIN ops) |-> g[s]]
      OBVIOUS
    <3> HIDE DEF g
    <3> QED
      BY <3>1, <3>2
  <2> QED
    BY <2>2 DEF Undoes
<1> HIDE DEF g
<1>4. Undoes(ops, ents, f)
  BY <1>3, Zenon
<1>5. RolledBack(ops, ents) = f[DOMAIN ops]
  BY RollbackIsTheFold
<1> HIDE DEF f
<1>6. \A s \in SUBSET (DOMAIN ops) :
        f[s] = IF s = {} THEN ents ELSE Undone(ops[Min(s)], f[s \ {Min(s)}])
  BY <1>4, Zenon DEF Undoes
<1> DEFINE bad == {s \in SUBSET (DOMAIN ops) : f[s] # Value(s)}
<1>7. CASE bad = {}
  BY <1>5, <1>7
<1>8. CASE bad # {}
  <2>1. IsFiniteSet(DOMAIN ops)
    <3>1. DOMAIN ops = 1..Len(ops) /\ Len(ops) \in Int /\ 1 \in Int
      OBVIOUS
    <3> QED
      BY <3>1, FS_Interval
  <2>2. PICK s \in bad : \A u \in bad : u \subseteq s => u = s
    <3>1. bad \in SUBSET (SUBSET (DOMAIN ops))
      OBVIOUS
    <3> HIDE DEF bad
    <3> QED
      BY <1>8, <2>1, <3>1, MinimalSubset
  <2>3. s \in SUBSET (DOMAIN ops) /\ f[s] # Value(s)
    OBVIOUS
  <2>4. s # {}
    BY <1>1, <1>6, <2>3
  <2>5. Min(s) \in s
    <3>1. s \in SUBSET Nat
      BY <2>3
    <3> QED
      BY <2>4, <3>1, MinIsLeast
  <2>6. f[s \ {Min(s)}] = Value(s \ {Min(s)})
    BY <2>2, <2>3, <2>5
  <2> QED
    BY <1>2, <1>6, <2>3, <2>4, <2>6
<1> QED
  BY <1>7, <1>8

\* Every entry a rollback leaves is one that was there or one it brings back.
LEMMA RolledBackEntries ==
  ASSUME NEW ops \in Seq(Operation), NEW ents \in [Keys -> Entry]
  PROVE  /\ RolledBack(ops, ents) \in [Keys -> Entry]
         /\ IsFiniteSet(Present(ents)) => IsFiniteSet(Present(RolledBack(ops, ents)))
<1> DEFINE after == RolledBack(ops, ents)
           telling(k) == {i \in DOMAIN ops : ops[i].key = k /\ Tells(ops[i])}
           named == {k \in Keys : telling(k) # {}}
<1>0. after = [k \in Keys |-> IF telling(k) = {} THEN ents[k] ELSE Before(ops[Min(telling(k))])]
  <2>1. after = Restored(ops, ents, DOMAIN ops)
    BY RollbackIsRestored, Zenon
  <2> HIDE DEF after
  <2> QED
    BY <2>1 DEF Restored
<1> HIDE DEF after
<1>1. after \in [Keys -> Entry]
  <2>1. ASSUME NEW k \in Keys, telling(k) # {}
        PROVE  Before(ops[Min(telling(k))]) \in Entry
    <3>1. telling(k) \in SUBSET Nat
      OBVIOUS
    <3>2. Min(telling(k)) \in DOMAIN ops
      <4> DEFINE T == telling(k)
      <4>1. T \in SUBSET Nat /\ T # {} /\ T \subseteq DOMAIN ops
        BY <2>1, <3>1
      <4> HIDE DEF T
      <4>2. Min(T) \in DOMAIN ops
        BY <4>1, MinIsLeast
      <4> QED
        BY <4>2 DEF T
    <3>3. ops[Min(telling(k))] \in Operation
      BY <3>2
    <3> QED
      BY <3>3, NewEntries DEF Before, Operation
  <2> HIDE DEF telling
  <2> QED
    BY <1>0, <2>1
<1>2. Present(after) \subseteq Present(ents) \cup named
  <2>1. \A k \in Keys : telling(k) = {} => after[k] = ents[k]
    BY <1>0
  <2> QED
    BY <2>1 DEF Present
<1>3. IsFiniteSet(named)
  <2> DEFINE keyOf == [i \in {j \in DOMAIN ops : ops[j].key \in named} |-> ops[i].key]
  <2>1. IsFiniteSet(DOMAIN keyOf)
    <3>1. IsFiniteSet(1..Len(ops))
      BY FS_Interval
    <3>2. DOMAIN keyOf \in SUBSET (1..Len(ops))
      OBVIOUS
    <3> QED
      BY <3>1, <3>2, FS_Subset
  <2>2. keyOf \in Surjection(DOMAIN keyOf, named)
    <3>1. keyOf \in [DOMAIN keyOf -> named]
      OBVIOUS
    <3>2. \A k \in named : \E i \in DOMAIN keyOf : keyOf[i] = k
      OBVIOUS
    <3> HIDE DEF keyOf, named
    <3> QED
      BY <3>1, <3>2 DEF Surjection
  <2> HIDE DEF keyOf, named
  <2> QED
    BY <2>1, <2>2, FS_Surjection
<1>4. ASSUME IsFiniteSet(Present(ents))
      PROVE  IsFiniteSet(Present(after))
  <2> HIDE DEF named
  <2>1. IsFiniteSet(Present(ents) \cup named)
    BY <1>3, <1>4, FS_Union
  <2> QED
    BY <1>2, <2>1, FS_Subset
<1> QED
  BY <1>1, <1>4 DEF after

-------------------------------------------------------------------------------
(* The cache *)

\* There may be more keys than any cache holds, but the cache is finite.
CacheInv == TypeOK /\ IsFiniteSet(Present(entries))

\* The entries a step leaves are typed, and among the old ones and one more.
LEMMA EntriesStay ==
  ASSUME CacheInv, entries' \in [Keys -> Entry], NEW k, Present(entries') \subseteq Present(entries) \cup {k}
  PROVE  entries' \in [Keys -> Entry] /\ IsFiniteSet(Present(entries'))
BY FS_AddElement, FS_Subset DEF CacheInv

LEMMA RecordedLog ==
  ASSUME TypeOK, NEW op \in {"set", "delete"}, NEW k \in Keys, Len(log) < MaxLog, Recorded(op, k)
  PROVE  log' \in Seq(Operation) /\ Len(log') <= MaxLog
<1>1. Live(k) \in Values \cup {NoValue}
  BY EntryFields DEF TypeOK, Live
<1>2. log \in Seq(Operation) /\ [operation |-> op, key |-> k, previous_value |-> Live(k)] \in Operation
  BY <1>1 DEF TypeOK, Operation
<1>3. MaxLog \in Nat
  BY CacheAssumption
<1> QED
  BY <1>2, <1>3 DEF Recorded

\* get() and the clock change ages only, or remove what has expired.
LEMMA SameData ==
  ASSUME CacheInv, entries' \in [Keys -> Entry],
         \A k \in Keys : entries'[k].data \in {entries[k].data, NoValue}
  PROVE  /\ Present(entries') \subseteq Present(entries)
         /\ \A k \in Present(entries') : entries'[k].data = entries[k].data
BY DEF Present

LEMMA GetEntries ==
  ASSUME TypeOK, NEW k \in Keys, Get(k)
  PROVE  /\ entries' \in [Keys -> Entry]
         /\ \A j \in Keys : entries'[j].data \in {entries[j].data, NoValue}
<1>1. entries \in [Keys -> Entry]
  BY DEF TypeOK
<1> DEFINE new == IF Expired(entries[k], 0) THEN Absent ELSE [entries[k] EXCEPT !.age = 0]
<1>2. entries' = [entries EXCEPT ![k] = new]
  BY <1>1 DEF Get
<1>3. new \in Entry /\ new.data \in {entries[k].data, NoValue}
  <2>1. CASE entries[k].data = NoValue
    <3>1. entries[k] = Absent
      BY <1>1, <2>1, EntryFields
    <3>2. [Absent EXCEPT !.age = 0] = Absent
      BY DEF Absent
    <3> QED
      BY <3>1, <3>2, NewEntries
  <2>2. CASE entries[k].data # NoValue
    <3>1. entries[k] \in [data : Values, age : 0..AgeCap]
      BY <1>1, <2>2, EntryFields
    <3>2. 0 \in 0..AgeCap
      BY CacheAssumption DEF AgeCap
    <3> QED
      BY <3>1, <3>2, NewEntries DEF Entry
  <2> QED
    BY <2>1, <2>2
<1> HIDE DEF new
<1> QED
  BY <1>1, <1>2, <1>3

LEMMA TickEntries ==
  ASSUME TypeOK, Tick
  PROVE  /\ entries' \in [Keys -> Entry]
         /\ \A j \in Keys : entries'[j].data = entries[j].data
<1>1. ASSUME NEW k \in Keys
      PROVE  entries'[k] \in Entry /\ entries'[k].data = entries[k].data
  <2>1. entries[k] \in Entry
    BY DEF TypeOK
  <2>2. CASE entries[k].data = NoValue
    BY <2>2, NewEntries DEF Tick
  <2>3. CASE entries[k].data # NoValue
    <3>1. entries[k] \in [data : Values, age : 0..AgeCap]
      BY <2>1, <2>3, EntryFields
    <3>2. entries'[k] = [entries[k] EXCEPT !.age = IF @ < AgeCap THEN @ + 1 ELSE @]
      BY <2>3 DEF Tick
    <3>3. AgeCap \in Nat
      BY CacheAssumption DEF AgeCap
    <3> QED
      BY <3>1, <3>2, <3>3 DEF Entry
  <2> QED
    BY <2>2, <2>3
<1>2. entries' = [k \in Keys |-> entries'[k]]
  BY DEF Tick
<1> QED
  BY <1>1, <1>2

\* What the actions do to the entries.
LEMMA EntriesNext ==
  ASSUME CacheInv, [Next]_vars
  PROVE  /\ entries' \in [Keys -> Entry]
         /\ IsFiniteSet(Present(entries'))
         /\ WithinBounds(entries) => WithinBounds(entries') \/ Rollback
<1> USE DEF cleanupVars, vars
<1>1. entries \in [Keys -> Entry] /\ IsFiniteSet(Present(entries)) /\ log \in Seq(Operation)
  BY DEF CacheInv, TypeOK, Operation
<1>2. ASSUME entries' \in [Keys -> Entry], \A k \in Keys : entries'[k].data \in {entries[k].data, NoValue}
      PROVE  IsFiniteSet(Present(entries')) /\ (WithinBounds(entries) => WithinBounds(entries'))
  <2>1. /\ Present(entries') \subseteq Present(entries)
        /\ \A k \in Present(entries') : entries'[k].data = entries[k].data
    BY <1>2, SameData
  <2> QED
    BY <1>1, <2>1, FewerAreWithin, FS_Subset
<1>3. ASSUME NEW S, entries' = Without(entries, S)
      PROVE  /\ entries' \in [Keys -> Entry]
             /\ \A k \in Keys : entries'[k].data \in {entries[k].data, NoValue}
  <2>1. \A k \in Keys : entries'[k] \in {entries[k], Absent}
    BY <1>1, <1>3 DEF Without
  <2> QED
    BY <1>1, <1>3, <2>1, NewEntries, WithoutEntries
<1>4. ASSUME NEW k \in Keys, NEW v \in Values, entries' \in Stored(k, v)
      PROVE  /\ entries' \in [Keys -> Entry]
             /\ IsFiniteSet(Present(entries'))
             /\ WithinBounds(entries) => WithinBounds(entries')
  <2>1. /\ entries' \in [Keys -> Entry]
        /\ Present(entries') \subseteq Present(entries) \cup {k}
        /\ \/ WithinBounds(entries')
           \/ /\ Present(entries') \subseteq Present(entries)
              /\ \A j \in Present(entries') : entries'[j].data = entries[j].data
    BY <1>1, <1>4, StoredEntries
  <2> QED
    BY <1>1, <2>1, EntriesStay, FewerAreWithin
<1>5. CASE \E k \in Keys : Get(k)
  BY <1>2, <1>5, GetEntries DEF CacheInv
<1>6. CASE (\E k \in Keys : Delete(k) \/ RecordedDelete(k)) \/ Clear
  BY <1>2, <1>3, <1>6 DEF Delete, RecordedDelete, Clear
<1>7. CASE \E k \in Keys, v \in Values : Set(k, v) \/ RecordedSet(k, v)
  BY <1>4, <1>7 DEF Set, RecordedSet
<1>8. CASE Rollback
  BY <1>1, <1>8, RolledBackEntries DEF Rollback
<1>9. CASE Tick
  BY <1>2, <1>9, TickEntries DEF CacheInv
<1>10. CASE \E s \in Shards : CleanShard(s)
  BY <1>2, <1>3, <1>10 DEF CleanShard
<1>11. CASE Commit \/ Stop \/ StartRound \/ EndRound \/ UNCHANGED vars
  <2>1. entries' = entries
    BY <1>11 DEF Commit, Stop, StartRound, EndRound
  <2> QED
    BY <1>1, <2>1
<1> QED
  BY <1>5, <1>6, <1>7, <1>8, <1>9, <1>10, <1>11 DEF Next, CleanupStep

LEMMA CacheInvariant ==
  ASSUME CacheInv, [Next]_vars
  PROVE  CacheInv'
<1> USE DEF cleanupVars, vars
<1> DEFINE RoundTyped == /\ cleanup \in {"off", "sleeping", "removing"}
                         /\ todo \subseteq Shards
                         /\ lag \in 0..MaxLag
                         /\ cleanup # "removing" => todo = {} /\ lag = 0
           LogTyped == log \in Seq(Operation) /\ Len(log) <= MaxLog
<1>0. entries' \in [Keys -> Entry] /\ IsFiniteSet(Present(entries'))
  BY EntriesNext
<1>t. RoundTyped /\ LogTyped /\ TypeOK /\ MaxLag \in Nat /\ MaxLog \in Nat
  BY CacheAssumption DEF CacheInv, TypeOK, Operation
<1>s. SUFFICES RoundTyped' /\ LogTyped'
  BY <1>0 DEF CacheInv, TypeOK, Operation
<1>1. CASE \E k \in Keys : Get(k) \/ \E v \in Values : Set(k, v)
  BY <1>1, <1>t DEF Get, Set, StartCleanup
<1>2. CASE (\E k \in Keys : Delete(k)) \/ Clear
  BY <1>2, <1>t DEF Delete, Clear
<1>3. ASSUME NEW k \in Keys, RecordedDelete(k) \/ \E v \in Values : RecordedSet(k, v)
      PROVE  RoundTyped' /\ LogTyped'
  <2>1. RoundTyped'
    BY <1>3, <1>t DEF RecordedDelete, RecordedSet, StartCleanup
  <2>2. LogTyped'
    BY <1>3, <1>t, RecordedLog DEF RecordedDelete, RecordedSet
  <2> QED
    BY <2>1, <2>2
<1>4. CASE Rollback \/ Commit
  <2>1. log' = <<>> /\ UNCHANGED cleanupVars
    BY <1>4 DEF Rollback, Commit
  <2> QED
    BY <1>t, <2>1
<1>5. CASE Stop \/ StartRound \/ EndRound
  BY <1>5, <1>t DEF Stop, StartRound, EndRound
<1>6. ASSUME NEW s \in Shards, CleanShard(s)
      PROVE  RoundTyped' /\ LogTyped'
  BY <1>6, <1>t DEF CleanShard
<1>7. CASE Tick
  BY <1>7, <1>t DEF Tick
<1>8. CASE UNCHANGED vars
  BY <1>8, <1>t
<1> QED
  BY <1>1, <1>2, <1>3, <1>4, <1>5, <1>6, <1>7, <1>8 DEF Next, CleanupStep

LEMMA CacheStarts ==
  ASSUME Init
  PROVE  CacheInv
<1>1. Present(entries) = {} /\ entries \in [Keys -> Entry]
  BY NewEntries DEF Init, Present
<1>2. 0 \in 0..MaxLag /\ Len(<<>>) = 0 /\ 0 <= MaxLog
  BY CacheAssumption
<1>3. TypeOK
  BY <1>1, <1>2 DEF Init, TypeOK
<1> QED
  BY <1>1, <1>3, FS_EmptySet DEF CacheInv

\* Every reachable state is well typed, for any keys, values, shards and limits, whatever is
\* undone.  (rollback_transaction 973-1010)
THEOREM TypeCorrect == Spec => []TypeOK
<1>1. Init => CacheInv
  BY CacheStarts
<1>2. CacheInv /\ [Next]_vars => CacheInv'
  BY CacheInvariant
<1>3. CacheInv => TypeOK
  BY DEF CacheInv
<1> QED
  BY <1>1, <1>2, <1>3, PTL DEF Spec

\* For any number of keys and shards and any weights, a cache within its limits is taken out
\* of them by nothing but a rollback.  (set 706-760)
THEOREM LimitsKept == Spec => OnlyRollbackExceedsLimits
<1>1. Init => CacheInv
  BY CacheStarts
<1>2. CacheInv /\ [Next]_vars => CacheInv'
  BY CacheInvariant
<1>3. CacheInv /\ [Next]_vars => [WithinBounds(entries) => WithinBounds(entries') \/ Rollback]_vars
  BY EntriesNext
<1> QED
  BY <1>1, <1>2, <1>3, PTL DEF Spec, OnlyRollbackExceedsLimits

\* For any time to live and any delay between the clock and the shard, a cleanup round removes
\* no entry that get() would still return.  (_remove_expired_entries 381-403)
THEOREM CleanupSpares == Spec => CleanupSparesLiveEntries
<1> DEFINE Spares == todo' # todo /\ todo' # Shards =>
                       \A k \in Keys : Live(k) # NoValue => entries'[k] = entries[k]
<1>1. CacheInv /\ [Next]_vars => Spares
  <2> SUFFICES ASSUME CacheInv, [Next]_vars, todo' # todo, todo' # Shards,
                      NEW k \in Keys, Live(k) # NoValue
               PROVE  entries'[k] = entries[k]
    OBVIOUS
  <2>1. Stop \/ \E s \in Shards : CleanShard(s)
    BY DEF Next, CleanupStep, vars, cleanupVars, Get, Set, StartCleanup, Delete, RecordedDelete,
           RecordedSet, Clear, Rollback, Commit, StartRound, EndRound, Tick
  <2>2. CASE Stop
    BY <2>2 DEF Stop
  <2>3. ASSUME NEW s \in Shards, CleanShard(s)
        PROVE  entries'[k] = entries[k]
    <3>1. entries[k] \in Entry /\ lag \in Nat /\ ttl_seconds \in Nat
      BY CacheAssumption DEF CacheInv, TypeOK
    <3>2. entries[k].age \in Nat
      BY <3>1, EntryFields, CacheAssumption DEF AgeCap
    <3>3. ~Expired(entries[k], 0)
      BY DEF Live
    <3>4. ~Expired(entries[k], lag)
      BY <3>1, <3>2, <3>3 DEF Expired
    <3> QED
      BY <2>3, <3>4 DEF CleanShard, Without
  <2> QED
    BY <2>1, <2>2, <2>3
<1>2. CacheInv /\ [Next]_vars => [Spares]_vars
  BY <1>1
<1>3. Init => CacheInv
  BY CacheStarts
<1>4. CacheInv /\ [Next]_vars => CacheInv'
  BY CacheInvariant
<1> QED
  BY <1>2, <1>3, <1>4, PTL DEF Spec, CleanupSparesLiveEntries

\* However many operations a caller recorded, on any keys, and whatever others did meanwhile,
\* undoing them gives each key the value seen before the first.  (rollback_transaction 973-1010)
THEOREM RollbackIsExact == Spec => RollbackRestores
<1> DEFINE Restores == Rollback =>
             \A i \in DOMAIN log :
               (\A j \in 1..(i - 1) : log[j].key # log[i].key) =>
                 \/ entries'[log[i].key].data = log[i].previous_value
                 \/ log[i].operation = "delete" /\ log[i].previous_value = NoValue
<1>1. CacheInv => Restores
  <2> SUFFICES ASSUME CacheInv, Rollback, NEW i \in DOMAIN log,
                      \A j \in 1..(i - 1) : log[j].key # log[i].key, Tells(log[i])
               PROVE  entries'[log[i].key].data = log[i].previous_value
    <3>1. ASSUME CacheInv, NEW i \in DOMAIN log, ~Tells(log[i])
          PROVE  log[i].operation = "delete" /\ log[i].previous_value = NoValue
      <4>1. log \in Seq(Operation)
        BY <3>1 DEF CacheInv, TypeOK, Operation
      <4>2. log[i] \in Operation
        BY <3>1, <4>1
      <4> QED
        BY <3>1, <4>2 DEF Tells, Operation
    <3> QED
      BY <3>1, Zenon
  <2>1. log \in Seq(Operation) /\ entries \in [Keys -> Entry]
    BY DEF CacheInv, TypeOK, Operation
  <2>2. entries' = Restored(log, entries, DOMAIN log)
    BY <2>1, RollbackIsRestored DEF Rollback
  <2> DEFINE telling == {j \in DOMAIN log : log[j].key = log[i].key /\ Tells(log[j])}
  <2>3. i \in telling /\ telling \in SUBSET Nat /\ \A j \in telling : i <= j
    BY <2>1
  <2>4. log[i] \in Operation
    BY <2>1
  <2>5. Min(telling) = i
    <3> HIDE DEF telling
    <3>1. Min(telling) \in telling /\ Min(telling) <= i
      BY <2>3, MinIsLeast
    <3>2. Min(telling) \in Nat /\ i \in Nat /\ i <= Min(telling)
      BY <2>3, <3>1
    <3> QED
      BY <3>1, <3>2
  <2>6. entries'[log[i].key] = Before(log[i])
    BY <2>2, <2>3, <2>4, <2>5 DEF Restored, Operation
  <2> QED
    BY <2>4, <2>6, NewEntries DEF Before, Operation
<1>2. CacheInv /\ [Next]_vars => [Restores]_vars
  BY <1>1
<1>3. Init => CacheInv
  BY CacheStarts
<1>4. CacheInv /\ [Next]_vars => CacheInv'
  BY CacheInvariant
<1> QED
  BY <1>2, <1>3, <1>4, PTL DEF Spec, RollbackRestores

-------------------------------------------------------------------------------
(* The hierarchy *)

\* Both levels hold, of each key, the value last set or nothing.  L1 answers without L2,
\* so that each level needs this by itself.
CurrentIn(k) ==
  /\ l1[k] \in {NoValue, lastSet[k]}
  /\ entries[k].data \in {NoValue, lastSet[k]}

HierarchyInv ==
  /\ CacheInv
  /\ l1 \in [Keys -> Values \cup {NoValue}]
  /\ lastSet \in [Keys -> Values \cup {NoValue}]
  /\ \A k \in Keys : CurrentIn(k)

\* L2 stores the new value, or refuses it and forgets the old one; other keys keep
\* their values or are evicted.
LEMMA StoredData ==
  ASSUME NEW ents \in [Keys -> Entry], ents = entries, NEW k \in Keys, NEW v \in Values,
         NEW after \in Stored(k, v)
  PROVE  /\ after[k].data \in {NoValue, v}
         /\ \A j \in Keys \ {k} : after[j].data \in {NoValue, ents[j].data}
<1> DEFINE full == [entries EXCEPT ![k] = Fresh(v)]
<1>1. full \in [Keys -> Entry] /\ full[k].data = v /\ \A j \in Keys \ {k} : full[j] = ents[j]
  BY NewEntries
<1>2. PICK E \in Evicted(full, k) :
        after = IF WithinBounds(Without(full, E)) THEN Without(full, E) ELSE Without(full, E \cup {k})
  BY DEF Stored
<1> HIDE DEF full
<1>3. ASSUME NEW S, NEW j \in Keys
      PROVE  Without(full, S)[j].data \in {NoValue, full[j].data}
  BY NewEntries DEF Without
<1> QED
  BY <1>1, <1>2, <1>3

\* Every operation on a level is one of TtlCache or leaves it alone.
LEMMA LevelTwoStep ==
  ASSUME HierarchyNext
  PROVE  [Next]_vars
BY DEF HierarchyNext, HierarchyGet, HierarchySet, HierarchyDelete, HierarchyClear,
       HierarchyStart, HierarchyStop, Next

\* Only set() brings a value into L2, and only the one it is given.
LEMMA LevelTwoKeeps ==
  ASSUME CacheInv, NEW k \in Keys,
         \/ \E j \in Keys : Get(j)
         \/ Stop \/ CleanupStep \/ Tick \/ UNCHANGED vars
  PROVE  entries'[k].data \in {NoValue, entries[k].data}
<1>1. TypeOK /\ entries \in [Keys -> Entry]
  BY DEF CacheInv, TypeOK
<1>2. ASSUME NEW j \in Keys, Get(j)
      PROVE  entries'[k].data \in {NoValue, entries[k].data}
  BY <1>1, <1>2, GetEntries
<1>3. CASE Tick
  BY <1>1, <1>3, TickEntries
<1>4. CASE Stop \/ StartRound \/ EndRound \/ UNCHANGED vars
  BY <1>4 DEF Stop, StartRound, EndRound, vars
<1>5. ASSUME NEW s \in Shards, CleanShard(s)
      PROVE  entries'[k].data \in {NoValue, entries[k].data}
  BY <1>5, NewEntries DEF CleanShard, Without
<1> QED
  BY <1>2, <1>3, <1>4, <1>5 DEF CleanupStep

\* No operation leaves a value in a level that the last set() did not store.
LEMMA HierarchyStep ==
  ASSUME HierarchyInv, [HierarchyNext]_hierarchyVars
  PROVE  HierarchyInv'
<1> USE DEF HierarchyInv, CurrentIn, l1Vars
<1>1. CacheInv'
  <2>1. [Next]_vars
    BY LevelTwoStep DEF hierarchyVars
  <2> QED
    BY <2>1, CacheInvariant
<1>2. TypeOK /\ entries \in [Keys -> Entry]
  BY DEF CacheInv, TypeOK
<1>3. ASSUME NEW k \in Keys, NEW v \in Values, L1Set(k, v)
      PROVE  /\ l1' \in [Keys -> Values \cup {NoValue}]
             /\ l1'[k] = v
             /\ \A j \in Keys \ {k} : l1'[j] \in {NoValue, l1[j]}
  BY <1>3 DEF L1Set
<1>4. ASSUME NEW k \in Keys, HierarchyGet(k)
      PROVE  HierarchyInv'
  <2>1. CASE l1[k] # NoValue
    BY <1>1, <1>4, <2>1 DEF HierarchyGet, L1Get, vars
  <2>2. CASE l1[k] = NoValue
    <3>1. Get(k) /\ UNCHANGED lastSet
      BY <1>4, <2>2 DEF HierarchyGet
    <3>2. \A j \in Keys : entries'[j].data \in {NoValue, entries[j].data}
      BY <3>1, LevelTwoKeeps
    <3>3. CASE Live(k) = NoValue
      BY <1>1, <1>4, <2>2, <3>1, <3>2, <3>3 DEF HierarchyGet
    <3>4. CASE Live(k) # NoValue
      <4>1. Live(k) = entries[k].data
        BY <3>4 DEF Live
      <4>2. Live(k) \in Values
        BY <1>2, <3>4, <4>1, EntryFields
      <4>3. L1Set(k, Live(k))
        BY <1>4, <2>2, <3>4 DEF HierarchyGet
      <4>4. /\ l1' \in [Keys -> Values \cup {NoValue}]
            /\ l1'[k] = lastSet[k]
            /\ \A j \in Keys \ {k} : l1'[j] \in {NoValue, l1[j]}
        BY <1>3, <3>4, <4>1, <4>2, <4>3
      <4> QED
        BY <1>1, <3>1, <3>2, <4>4
    <3> QED
      BY <3>3, <3>4
  <2> QED
    BY <2>1, <2>2
<1>5. ASSUME NEW k \in Keys, NEW v \in Values, HierarchySet(k, v)
      PROVE  HierarchyInv'
  <2>1. entries' \in Stored(k, v)
    BY <1>5 DEF HierarchySet, Set
  <2>2. /\ entries'[k].data \in {NoValue, v}
        /\ \A j \in Keys \ {k} : entries'[j].data \in {NoValue, entries[j].data}
    BY <1>2, <2>1, StoredData
  <2>3. CASE entries'[k].data = v
    <3>1. L1Set(k, v) /\ lastSet' = [lastSet EXCEPT ![k] = v]
      BY <1>5, <2>3 DEF HierarchySet
    <3>2. /\ l1' \in [Keys -> Values \cup {NoValue}]
          /\ l1'[k] = v
          /\ \A j \in Keys \ {k} : l1'[j] \in {NoValue, l1[j]}
      BY <1>3, <3>1
    <3> QED
      BY <1>1, <2>2, <3>1, <3>2
  <2>4. CASE entries'[k].data # v
    <3>1. UNCHANGED <<l1, lastSet>>
      BY <1>5, <2>4 DEF HierarchySet
    <3> QED
      BY <1>1, <2>2, <2>4, <3>1
  <2> QED
    BY <2>3, <2>4
<1>6. ASSUME NEW k \in Keys, HierarchyDelete(k)
      PROVE  HierarchyInv'
  <2>1. \A j \in Keys : IF j = k THEN entries'[j].data = NoValue ELSE entries'[j] = entries[j]
    BY <1>2, <1>6, NewEntries DEF HierarchyDelete, Delete, Without
  <2>2. l1' = [l1 EXCEPT ![k] = NoValue] /\ lastSet' = [lastSet EXCEPT ![k] = NoValue]
    BY <1>6 DEF HierarchyDelete, L1Delete
  <2> QED
    BY <1>1, <2>1, <2>2
<1>7. CASE HierarchyClear
  <2>1. \A j \in Keys : entries'[j].data = NoValue
    BY <1>7, NewEntries DEF HierarchyClear, Clear, Without
  <2>2. l1' = [k \in Keys |-> NoValue] /\ lastSet' = [k \in Keys |-> NoValue]
    BY <1>7 DEF HierarchyClear, L1Clear
  <2> QED
    BY <1>1, <2>1, <2>2
<1>8. CASE HierarchyStart \/ HierarchyStop \/ UNCHANGED hierarchyVars
           \/ ((CleanupStep \/ Tick) /\ UNCHANGED <<l1Vars, is_running, lastSet>>)
  <2>1. /\ UNCHANGED <<l1, lastSet>>
        /\ Stop \/ CleanupStep \/ Tick \/ UNCHANGED vars
    BY <1>8 DEF HierarchyStart, HierarchyStop, hierarchyVars
  <2>2. \A k \in Keys : entries'[k].data \in {NoValue, entries[k].data}
    BY <2>1, LevelTwoKeeps
  <2> QED
    BY <1>1, <2>1, <2>2
<1> QED
  BY <1>4, <1>5, <1>6, <1>7, <1>8 DEF HierarchyNext

\* For any keys, shards, sizes and times to live, and whatever is evicted, expires or is
\* refused in either level, get() answers with what the last successful set() stored or
\* with nothing, and with nothing after a delete().  (cache_hierarchy.py get 224-251)
THEOREM HierarchyAnswersCurrently == HierarchySpec => []AnswersAreCurrent
<1>1. HierarchyInit => HierarchyInv
  <2> SUFFICES ASSUME HierarchyInit PROVE HierarchyInv
    OBVIOUS
  <2>1. CacheInv
    BY CacheStarts DEF HierarchyInit
  <2>2. \A k \in Keys : entries[k].data = NoValue
    BY NewEntries DEF HierarchyInit, Init
  <2> QED
    BY <2>1, <2>2 DEF HierarchyInit, HierarchyInv, CurrentIn
<1>2. HierarchyInv /\ [HierarchyNext]_hierarchyVars => HierarchyInv'
  BY HierarchyStep
<1>3. HierarchyInv => AnswersAreCurrent
  BY DEF HierarchyInv, CurrentIn, AnswersAreCurrent, Answer, Live
<1> QED
  BY <1>1, <1>2, <1>3, PTL DEF HierarchySpec
===============================================================================
