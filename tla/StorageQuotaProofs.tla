------------------------- MODULE StorageQuotaProofs -------------------------
(***************************************************************************)
(* The theorems of StorageQuota, for any files, sizes, plan and number of  *)
(* requests, and what they need of sums over finite sets.                  *)
(***************************************************************************)
EXTENDS StorageQuota, FiniteSetTheorems, WellFoundedInduction, TLAPS

-----------------------------------------------------------------------------
(* Sums *)

\* Induction over the subsets of a finite set, as the least counterexample.
LEMMA Minimal ==
  ASSUME NEW S, IsFiniteSet(S), NEW B, B \subseteq SUBSET S, B # {}
  PROVE  \E T \in B : \A U \in B : U \subseteq T => U = T
<1> DEFINE R == StrictSubsetOrdering(S)
<1>1. IsWellFoundedOn(R, FiniteSubsetsOf(S))
  BY FS_StrictSubsetOrderingWellFounded
<1>2. B \subseteq FiniteSubsetsOf(S)
  BY FS_Subset DEF FiniteSubsetsOf
<1> HIDE DEF R
<1>3. \E T \in B : \A U \in B : ~ (<<U, T>> \in R)
  BY <1>1, <1>2, WFMin
<1>4. QED
  BY <1>3 DEF R, StrictSubsetOrdering

Any(T) == CHOOSE x \in T : TRUE

LEMMA AnyOne ==
  ASSUME NEW T, T # {}
  PROVE  Any(T) \in T
  BY DEF Any

\* g adds up w over every subset of S, in the order CHOOSE takes its elements.
Adds(g, w, S) ==
    g = [T \in SUBSET S |->
           IF T = {} THEN 0
           ELSE LET x == CHOOSE x \in T : TRUE IN w[x] + g[T \ {x}]]

Adding(w, S) == CHOOSE g : Adds(g, w, S)
Sum(w, S)    == Adding(w, S)[S]

LEMMA BytesAreSum ==
  ASSUME NEW S
  PROVE  Bytes(S) = Sum(Size, S)
  BY DEF Bytes, MapThenSumSet, MapThenFoldSet, Sum, Adding, Adds

LEMMA AddsStep ==
  ASSUME NEW g, NEW w, NEW S, Adds(g, w, S), NEW T \in SUBSET S
  PROVE  g[T] = IF T = {} THEN 0 ELSE w[Any(T)] + g[T \ {Any(T)}]
  BY DEF Adds, Any

\* All that add up w agree.
LEMMA AddsOnce ==
  ASSUME NEW w, NEW S, NEW T, NEW g, NEW h, Adds(g, w, S), Adds(h, w, T),
         NEW U, IsFiniteSet(U), U \subseteq S, U \subseteq T
  PROVE  g[U] = h[U]
<1> SUFFICES ASSUME g[U] # h[U] PROVE FALSE
  OBVIOUS
<1> DEFINE B == {V \in SUBSET U : g[V] # h[V]}
<1>1. PICK V \in B : \A W \in B : W \subseteq V => W = V
  <2>1. B # {} /\ B \subseteq SUBSET U
    OBVIOUS
  <2> HIDE DEF B
  <2>2. QED
    BY <2>1, Minimal
<1>2. V \in SUBSET S /\ V \in SUBSET T
  OBVIOUS
<1>3. V # {}
  BY <1>2, AddsStep
<1>4. Any(V) \in V
  BY <1>3, AnyOne
<1>5. g[V \ {Any(V)}] = h[V \ {Any(V)}]
  BY <1>1, <1>4
<1>6. QED
  BY <1>2, <1>3, <1>5, AddsStep

LEMMA SomethingAdds ==
  ASSUME NEW w, NEW S, IsFiniteSet(S)
  PROVE  Adds(Adding(w, S), w, S)
<1> SUFFICES ASSUME ~ \E g : Adds(g, w, S) PROVE FALSE
  BY DEF Adding
<1> DEFINE B == {T \in SUBSET S : ~ \E g : Adds(g, w, T)}
<1>1. PICK T \in B : \A U \in B : U \subseteq T => U = T
  <2>1. B # {} /\ B \subseteq SUBSET S
    OBVIOUS
  <2> HIDE DEF B
  <2>2. QED
    BY <2>1, Minimal
<1> DEFINE Part(V) == Adding(w, V)
           g == [V \in SUBSET T |->
                   IF V = {} THEN 0
                   ELSE w[Any(V)] + Part(V \ {Any(V)})[V \ {Any(V)}]]
<1>2. \A V \in SUBSET T : V # T => Adds(Part(V), w, V)
  BY <1>1 DEF Adding
<1>3. \A V \in SUBSET T : V # T => g[V] = Part(V)[V]
  <2> TAKE V \in SUBSET T
  <2> HAVE V # T
  <2> DEFINE W == V \ {Any(V)}
  <2>1. V \in SUBSET V /\ Adds(Part(V), w, V) /\ W \in SUBSET T
    BY <1>2
  <2>2. CASE V = {}
    BY <2>1, <2>2, AddsStep
  <2>3. CASE V # {}
    <3>1. W # T /\ W \subseteq V
      OBVIOUS
    <3>2. Adds(Part(W), w, W)
      BY <1>2, <2>1, <3>1
    <3>3. IsFiniteSet(W)
      BY <2>1, FS_Subset
    <3>4. Part(V)[W] = Part(W)[W]
      BY <2>1, <3>1, <3>2, <3>3, AddsOnce
    <3>5. Part(V)[V] = w[Any(V)] + Part(V)[W]
      BY <2>1, <2>3, AddsStep
    <3>6. QED
      BY <2>3, <3>4, <3>5
  <2>4. QED
    BY <2>2, <2>3
<1>4. Adds(g, w, T)
  <2>1. \A V \in SUBSET T :
          g[V] = IF V = {} THEN 0 ELSE w[Any(V)] + g[V \ {Any(V)}]
    <3> TAKE V \in SUBSET T
    <3>1. V # {} => V \ {Any(V)} # T /\ V \ {Any(V)} \in SUBSET T
      BY AnyOne
    <3>2. V # {} => g[V \ {Any(V)}] = Part(V \ {Any(V)})[V \ {Any(V)}]
      BY <1>3, <3>1
    <3>3. QED
      BY <3>2
  <2> HIDE DEF Part
  <2>2. g = [V \in SUBSET T |-> g[V]]
    OBVIOUS
  <2> HIDE DEF g
  <2>3. QED
    BY <2>1, <2>2 DEF Adds, Any
<1>5. QED
  BY <1>1, <1>4

LEMMA SumStep ==
  ASSUME NEW w, NEW S, IsFiniteSet(S)
  PROVE  Sum(w, S) = IF S = {} THEN 0 ELSE w[Any(S)] + Sum(w, S \ {Any(S)})
<1>1. Adds(Adding(w, S), w, S)
  BY SomethingAdds
<1>2. CASE S = {}
  BY <1>1, <1>2, AddsStep DEF Sum
<1>3. CASE S # {}
  <2> DEFINE T == S \ {Any(S)}
  <2>1. IsFiniteSet(T)
    BY FS_Subset
  <2>2. Adds(Adding(w, T), w, T)
    BY <2>1, SomethingAdds
  <2>3. Adding(w, S)[T] = Adding(w, T)[T]
    BY <1>1, <2>1, <2>2, AddsOnce
  <2>4. QED
    BY <1>1, <1>3, <2>3, AddsStep DEF Sum
<1>4. QED
  BY <1>2, <1>3

LEMMA SumOfNone ==
  ASSUME NEW w
  PROVE  Sum(w, {}) = 0
  BY SumStep, FS_EmptySet

LEMMA SumIsNat ==
  ASSUME NEW D, NEW w \in [D -> Nat], NEW S \in SUBSET D, IsFiniteSet(S)
  PROVE  Sum(w, S) \in Nat
<1> SUFFICES ASSUME Sum(w, S) \notin Nat PROVE FALSE
  OBVIOUS
<1> DEFINE B == {T \in SUBSET S : Sum(w, T) \notin Nat}
<1>1. PICK T \in B : \A U \in B : U \subseteq T => U = T
  <2>1. B # {} /\ B \subseteq SUBSET S
    OBVIOUS
  <2> HIDE DEF B
  <2>2. QED
    BY <2>1, Minimal
<1>2. IsFiniteSet(T)
  BY FS_Subset
<1>3. T # {}
  BY SumOfNone
<1>4. Any(T) \in T
  BY <1>3, AnyOne
<1>5. Sum(w, T \ {Any(T)}) \in Nat /\ w[Any(T)] \in Nat
  BY <1>1, <1>4
<1>6. QED
  BY <1>2, <1>3, <1>5, SumStep

\* The order does not matter: any element may be taken out first.
LEMMA SumTakesOut ==
  ASSUME NEW D, NEW w \in [D -> Nat], NEW S \in SUBSET D, IsFiniteSet(S),
         NEW x \in S
  PROVE  Sum(w, S) = w[x] + Sum(w, S \ {x})
<1> SUFFICES ASSUME Sum(w, S) # w[x] + Sum(w, S \ {x}) PROVE FALSE
  OBVIOUS
<1> DEFINE B == {T \in SUBSET S :
                   \E y \in T : Sum(w, T) # w[y] + Sum(w, T \ {y})}
<1>1. PICK T \in B : \A U \in B : U \subseteq T => U = T
  <2>1. B # {} /\ B \subseteq SUBSET S
    OBVIOUS
  <2> HIDE DEF B
  <2>2. QED
    BY <2>1, Minimal
<1>2. PICK y \in T : Sum(w, T) # w[y] + Sum(w, T \ {y})
  OBVIOUS
<1> DEFINE a == Any(T)
<1>3. IsFiniteSet(T) /\ a \in T
  BY FS_Subset, AnyOne
<1> HIDE DEF a
<1>4. Sum(w, T) = w[a] + Sum(w, T \ {a})
  BY <1>3, SumStep DEF a
<1>5. a # y
  BY <1>2, <1>4
<1>6. /\ Sum(w, T \ {a}) = w[y] + Sum(w, (T \ {a}) \ {y})
      /\ Sum(w, T \ {y}) = w[a] + Sum(w, (T \ {y}) \ {a})
  <2>1. \A z \in T : T \ {z} \in SUBSET S /\ T \ {z} \notin B
    BY <1>1
  <2>2. \A z \in T : \A v \in T \ {z} :
          Sum(w, T \ {z}) = w[v] + Sum(w, (T \ {z}) \ {v})
    BY <2>1
  <2>3. y \in T \ {a} /\ a \in T \ {y}
    BY <1>3, <1>5
  <2>4. QED
    BY <1>3, <2>2, <2>3
<1>7. (T \ {a}) \ {y} = (T \ {y}) \ {a} /\ IsFiniteSet((T \ {y}) \ {a})
  BY <1>3, FS_Subset
<1>8. /\ Sum(w, (T \ {y}) \ {a}) \in Nat /\ w[a] \in Nat /\ w[y] \in Nat
  BY <1>3, <1>7, SumIsNat
<1>9. Sum(w, T) = w[y] + Sum(w, T \ {y})
  <2>1. Sum(w, T \ {a}) = w[y] + Sum(w, (T \ {y}) \ {a})
    BY <1>6, <1>7
  <2>2. QED
    BY <1>4, <1>6, <1>8, <2>1
<1>10. QED
  BY <1>2, <1>9

LEMMA SumGrows ==
  ASSUME NEW D, NEW w \in [D -> Nat], NEW S \in SUBSET D, IsFiniteSet(S),
         NEW T \in SUBSET S
  PROVE  Sum(w, T) <= Sum(w, S)
<1> SUFFICES ASSUME ~ (Sum(w, T) <= Sum(w, S)) PROVE FALSE
  OBVIOUS
<1> DEFINE B == {U \in SUBSET S :
                   T \subseteq U /\ ~ (Sum(w, T) <= Sum(w, U))}
<1>1. PICK U \in B : \A V \in B : V \subseteq U => V = U
  <2>1. B # {} /\ B \subseteq SUBSET S
    OBVIOUS
  <2> HIDE DEF B
  <2>2. QED
    BY <2>1, Minimal
<1>2. IsFiniteSet(T) /\ IsFiniteSet(U)
  BY FS_Subset
<1>3. Sum(w, T) \in Nat
  BY <1>2, SumIsNat
<1>4. PICK x \in U : x \notin T
  BY <1>3
<1>5. Sum(w, U) = w[x] + Sum(w, U \ {x}) /\ w[x] \in Nat
  BY <1>2, SumTakesOut
<1>6. Sum(w, U \ {x}) \in Nat
  <2>1. IsFiniteSet(U \ {x}) /\ U \ {x} \in SUBSET D
    BY <1>2, FS_Subset
  <2>2. QED
    BY <2>1, SumIsNat
<1>7. Sum(w, T) <= Sum(w, U \ {x})
  BY <1>1, <1>4
<1>8. QED
  BY <1>3, <1>5, <1>6, <1>7

LEMMA SumOfBoth ==
  ASSUME NEW D, NEW w \in [D -> Nat], NEW S \in SUBSET D, IsFiniteSet(S),
         NEW T \in SUBSET D, IsFiniteSet(T)
  PROVE  Sum(w, S \cup T) <= Sum(w, S) + Sum(w, T)
<1> SUFFICES ASSUME ~ (Sum(w, S \cup T) <= Sum(w, S) + Sum(w, T)) PROVE FALSE
  OBVIOUS
<1> DEFINE B == {U \in SUBSET T :
                   ~ (Sum(w, S \cup U) <= Sum(w, S) + Sum(w, U))}
<1>1. PICK U \in B : \A V \in B : V \subseteq U => V = U
  <2>1. B # {} /\ B \subseteq SUBSET T
    OBVIOUS
  <2> HIDE DEF B
  <2>2. QED
    BY <2>1, Minimal
<1>2. IsFiniteSet(U)
  BY FS_Subset
<1>3. IsFiniteSet(S \cup U) /\ S \cup U \in SUBSET D
  BY <1>2, FS_Union
<1>4. Sum(w, S) \in Nat /\ Sum(w, U) \in Nat /\ Sum(w, S \cup U) \in Nat
  BY <1>2, <1>3, SumIsNat
<1>5. PICK x \in U : TRUE
  <2>1. U = {} => S \cup U = S /\ Sum(w, U) = 0
    BY SumOfNone
  <2>2. QED
    BY <1>4, <2>1
<1>6. Sum(w, U) = w[x] + Sum(w, U \ {x}) /\ w[x] \in Nat
  BY <1>2, SumTakesOut
<1>7. Sum(w, S \cup (U \ {x})) <= Sum(w, S) + Sum(w, U \ {x})
  BY <1>1, <1>5
<1>8. /\ IsFiniteSet(U \ {x}) /\ IsFiniteSet(S \cup (U \ {x}))
      /\ U \ {x} \in SUBSET D /\ S \cup (U \ {x}) \in SUBSET D
  BY <1>2, <1>3, FS_Subset
<1>9. Sum(w, U \ {x}) \in Nat /\ Sum(w, S \cup (U \ {x})) \in Nat
  BY <1>8, SumIsNat
<1>10. Sum(w, S \cup U) <= w[x] + Sum(w, S \cup (U \ {x}))
  <2>1. CASE x \in S
    <3>1. S \cup U = S \cup (U \ {x})
      BY <2>1
    <3>2. QED
      BY <1>6, <1>9, <3>1
  <2>2. CASE x \notin S
    <3>1. (S \cup U) \ {x} = S \cup (U \ {x})
      BY <2>2
    <3>2. Sum(w, S \cup U) = w[x] + Sum(w, (S \cup U) \ {x})
      BY <1>3, <1>5, SumTakesOut
    <3>3. QED
      BY <1>6, <1>9, <3>1, <3>2
  <2>3. QED
    BY <2>1, <2>2
<1>11. QED
  BY <1>4, <1>6, <1>7, <1>9, <1>10

-----------------------------------------------------------------------------
(* Types *)

\* Who is refused holds the lock, and nobody else does.
LockHeld == \A h \in Handlers : At(h, "refused") <=> lock = h

\* Only h does something else than before.
Moved(h) ==
    /\ task' \in [Handlers -> Task]
    /\ \A g \in Handlers : g # h => task'[g] = task[g]

LEMMA IdleTask == Idle \in Task /\ Idle.pc = "idle" /\ Idle.key = NoKey
                  /\ Idle.old = NoKey
  BY DEF Idle, Task

LEMMA TaskParts ==
  ASSUME NEW t \in Task
  PROVE  t.key \in Keys \cup {NoKey} /\ t.old \in Logos \cup {NoKey}
  BY DEF Task

LEMMA EndsMoves ==
  ASSUME TypeOK, NEW h \in Handlers, Ends(h)
  PROVE  Moved(h) /\ task'[h] = Idle
  BY IdleTask DEF TypeOK, Ends, Moved

LEMMA GoesMoves ==
  ASSUME TypeOK, NEW h \in Handlers, NEW pc, Goes(h, pc),
         pc \in {"idle", "reserve", "refused", "put", "commit", "clear",
                "delete", "erase"}
  PROVE  /\ Moved(h) /\ task'[h].pc = pc
         /\ task'[h].key = task[h].key /\ task'[h].old = task[h].old
<1> DEFINE t == [task[h] EXCEPT !.pc = pc]
<1>1. t \in Task /\ t.pc = pc /\ t.key = task[h].key /\ t.old = task[h].old
  BY DEF TypeOK, Task
<1>2. task' = [task EXCEPT ![h] = t]
  BY DEF Goes
<1> HIDE DEF t
<1>3. QED
  BY <1>1, <1>2 DEF TypeOK, Moved

\* What a request begins with.
LEMMA StartMoves ==
  ASSUME TypeOK, NEW h \in Handlers
  PROVE  /\ \A k \in Records : StartFile(h, k) =>
               /\ Moved(h) /\ task'[h].pc = "reserve"
               /\ task'[h].key = k /\ task'[h].old = NoKey
         /\ \A k \in Logos : StartLogo(h, k) =>
               /\ Moved(h) /\ task'[h].pc = "reserve"
               /\ task'[h].key = k /\ task'[h].old = logo
         /\ \A k \in Rows \cup {logo} : StartRemoval(h, k) =>
               /\ Moved(h) /\ task'[h].pc = "delete"
               /\ task'[h].key = k /\ task'[h].old = NoKey
<1>1. ASSUME NEW t \in Task, task' = [task EXCEPT ![h] = t]
      PROVE  Moved(h) /\ task'[h] = t
  BY <1>1 DEF TypeOK, Moved
<1>2. \A k \in Keys \cup {NoKey}, pc \in {"reserve", "delete"} :
        /\ [Idle EXCEPT !.pc = pc, !.key = k] \in Task
        /\ [Idle EXCEPT !.pc = pc, !.key = k].pc = pc
        /\ [Idle EXCEPT !.pc = pc, !.key = k].key = k
        /\ [Idle EXCEPT !.pc = pc, !.key = k].old = NoKey
  BY DEF Idle, Task
<1>3. \A k \in Logos : [pc |-> "reserve", key |-> k, old |-> logo] \in Task
  BY DEF Task, TypeOK, Keys
<1>4. Records \subseteq Keys /\ Rows \cup {logo} \subseteq Keys \cup {NoKey}
  BY DEF Keys, Rows, TypeOK
<1>5. ASSUME NEW k \in Records, StartFile(h, k)
      PROVE  /\ Moved(h) /\ task'[h].pc = "reserve"
             /\ task'[h].key = k /\ task'[h].old = NoKey
  <2> DEFINE t == [Idle EXCEPT !.pc = "reserve", !.key = k]
  <2>1. t \in Task /\ t.pc = "reserve" /\ t.key = k /\ t.old = NoKey
    BY <1>2, <1>4
  <2>2. task' = [task EXCEPT ![h] = t]
    BY <1>5 DEF StartFile
  <2> HIDE DEF t
  <2>3. QED
    BY <1>1, <2>1, <2>2
<1>6. ASSUME NEW k \in Logos, StartLogo(h, k)
      PROVE  /\ Moved(h) /\ task'[h].pc = "reserve"
             /\ task'[h].key = k /\ task'[h].old = logo
  <2> DEFINE t == [pc |-> "reserve", key |-> k, old |-> logo]
  <2>1. t \in Task /\ t.pc = "reserve" /\ t.key = k /\ t.old = logo
    BY <1>3
  <2>2. task' = [task EXCEPT ![h] = t]
    BY <1>6 DEF StartLogo
  <2> HIDE DEF t
  <2>3. QED
    BY <1>1, <2>1, <2>2
<1>7. ASSUME NEW k \in Rows \cup {logo}, StartRemoval(h, k)
      PROVE  /\ Moved(h) /\ task'[h].pc = "delete"
             /\ task'[h].key = k /\ task'[h].old = NoKey
  <2> DEFINE t == [Idle EXCEPT !.pc = "delete", !.key = k]
  <2>1. t \in Task /\ t.pc = "delete" /\ t.key = k /\ t.old = NoKey
    BY <1>2, <1>4
  <2>2. task' = [task EXCEPT ![h] = t]
    BY <1>7 DEF StartRemoval
  <2> HIDE DEF t
  <2>3. QED
    BY <1>1, <2>1, <2>2
<1>8. QED
  BY <1>5, <1>6, <1>7

\* The lock goes with the refused request.
LEMMA LockKept ==
  ASSUME TypeOK, LockHeld, NEW h \in Handlers, Moved(h),
         \/ /\ task[h].pc # "refused" /\ task'[h].pc # "refused"
            /\ lock' = lock
         \/ lock = NoHandler /\ task'[h].pc = "refused" /\ lock' = h
         \/ /\ task'[h].pc # "refused"
            /\ lock' = IF lock = h THEN NoHandler ELSE lock
  PROVE  /\ LockHeld' /\ lock' \in Handlers \cup {NoHandler}
         /\ lock' # NoHandler <=> \E g \in Handlers : task'[g].pc = "refused"
  BY KeyAssumption DEF TypeOK, LockHeld, Moved, At

\* What is to be stored has a key.
Named == \A h \in Handlers :
           task[h].pc \in {"reserve", "put", "commit"} => task[h].key \in Keys

TypeInv == TypeOK /\ LockHeld /\ Named

TablesTyped ==
    /\ upload \in [Keys -> Status]
    /\ file \in [Records -> {"none", "stored", "overdue", "removed"}]
    /\ logo \in Logos \cup {NoKey}
    /\ objects \subseteq Keys /\ asked \subseteq Keys

LEMMA MoveTypes ==
  ASSUME TypeInv, NEW h \in Handlers, Moved(h), TablesTyped',
         task'[h].pc \in {"reserve", "put", "commit"} => task'[h].key \in Keys,
         \/ /\ task[h].pc # "refused" /\ task'[h].pc # "refused"
            /\ lock' = lock
         \/ lock = NoHandler /\ task'[h].pc = "refused" /\ lock' = h
         \/ /\ task'[h].pc # "refused"
            /\ lock' = IF lock = h THEN NoHandler ELSE lock
  PROVE  TypeInv'
<1>1. /\ LockHeld' /\ lock' \in Handlers \cup {NoHandler}
      /\ lock' # NoHandler <=> \E g \in Handlers : task'[g].pc = "refused"
  BY LockKept DEF TypeInv
<1>2. TypeOK'
  BY <1>1 DEF TypeOK, TablesTyped, Moved
<1>3. Named'
  BY DEF TypeInv, Named, Moved
<1>4. QED
  BY <1>1, <1>2, <1>3 DEF TypeInv

LEMMA StoreTypes ==
  ASSUME TypeInv, NEW h \in Handlers,
         Reserve(h) \/ Collide(h) \/ Refuse(h) \/ TransactionTimeout(h)
           \/ Put(h) \/ PutFails(h)
  PROVE  TypeInv'
<1> USE DEF At, Unlocked
<1>1. TablesTyped /\ TypeOK /\ Named /\ LockHeld
  BY DEF TypeInv, TypeOK, TablesTyped
<1>2. CASE Reserve(h)
  <2>1. /\ Moved(h) /\ task'[h].pc = "put" /\ task'[h].key \in Keys
        /\ task[h].pc = "reserve" /\ lock' = lock
    BY <1>1, <1>2, GoesMoves DEF Reserve, Named
  <2>2. TablesTyped'
    BY <1>1, <1>2 DEF Reserve, TablesTyped, Status
  <2>3. QED
    BY <2>1, <2>2, MoveTypes
<1>3. CASE Collide(h)
  <2>1. /\ Moved(h) /\ task'[h].pc = "idle" /\ task[h].pc = "reserve"
        /\ lock' = lock
    BY <1>1, <1>3, EndsMoves, IdleTask DEF Collide
  <2>2. TablesTyped'
    BY <1>1, <1>3 DEF Collide, TablesTyped
  <2>3. QED
    BY <2>1, <2>2, MoveTypes
<1>4. CASE Refuse(h)
  <2>1. /\ Moved(h) /\ task'[h].pc = "refused" /\ lock = NoHandler
        /\ lock' = h
    BY <1>1, <1>4, GoesMoves DEF Refuse
  <2>2. TablesTyped'
    BY <1>1, <1>4 DEF Refuse, TablesTyped
  <2>3. QED
    BY <2>1, <2>2, MoveTypes
<1>5. CASE TransactionTimeout(h)
  <2>1. Moved(h) /\ task'[h].pc = "idle" /\ lock' = NoHandler
    BY <1>1, <1>5, EndsMoves, IdleTask DEF TransactionTimeout
  <2>2. lock = h
    BY <1>1, <1>5 DEF TransactionTimeout, LockHeld
  <2>3. TablesTyped'
    BY <1>1, <1>5 DEF TransactionTimeout, TablesTyped
  <2>4. QED
    BY <2>1, <2>2, <2>3, MoveTypes
<1>6. CASE Put(h)
  <2>1. /\ Moved(h) /\ task'[h].pc = "commit" /\ task'[h].key \in Keys
        /\ task[h].pc = "put" /\ task[h].key \in Keys /\ lock' = lock
    BY <1>1, <1>6, GoesMoves DEF Put, Named
  <2>2. TablesTyped'
    BY <1>1, <1>6, <2>1 DEF Put, TablesTyped
  <2>3. QED
    BY <2>1, <2>2, MoveTypes
<1>7. CASE PutFails(h)
  <2>1. /\ Moved(h) /\ task'[h].pc = "idle" /\ task[h].pc = "put"
        /\ task[h].key \in Keys /\ lock' = lock
    BY <1>1, <1>7, EndsMoves, IdleTask DEF PutFails, Named
  <2>2. TablesTyped'
    BY <1>1, <1>7, <2>1 DEF PutFails, TablesTyped, Status
  <2>3. QED
    BY <2>1, <2>2, MoveTypes
<1>8. QED
  BY <1>2, <1>3, <1>4, <1>5, <1>6, <1>7

LEMMA RowTypes ==
  ASSUME TypeInv, NEW h \in Handlers,
         CommitFile(h) \/ CommitLogo(h) \/ CommitFails(h) \/ Clear(h)
           \/ Delete(h) \/ Erase(h)
  PROVE  TypeInv'
<1> USE DEF At, Unlocked
<1>1. TablesTyped /\ TypeOK /\ Named /\ LockHeld
  BY DEF TypeInv, TypeOK, TablesTyped
<1>2. CASE CommitFile(h)
  <2>1. /\ Moved(h) /\ task'[h].pc = "idle" /\ task[h].pc = "commit"
        /\ lock' = lock
    BY <1>1, <1>2, EndsMoves, IdleTask DEF CommitFile
  <2>2. TablesTyped'
    BY <1>1, <1>2 DEF CommitFile, TablesTyped, Status, Completed
  <2>3. QED
    BY <2>1, <2>2, MoveTypes
<1>3. CASE CommitLogo(h)
  <2>1. /\ Moved(h) /\ task'[h].pc \in {"idle", "clear"}
        /\ task[h].pc = "commit" /\ lock' = lock
    BY <1>1, <1>3, EndsMoves, GoesMoves, IdleTask DEF CommitLogo
  <2>2. TablesTyped'
    BY <1>1, <1>3 DEF CommitLogo, TablesTyped, Status, Completed
  <2>3. QED
    BY <2>1, <2>2, MoveTypes
<1>4. CASE CommitFails(h)
  <2>1. /\ Moved(h) /\ task'[h].pc = "idle" /\ task[h].pc = "commit"
        /\ lock' = lock
    BY <1>1, <1>4, EndsMoves, IdleTask DEF CommitFails
  <2>2. TablesTyped'
    BY <1>1, <1>4 DEF CommitFails, TablesTyped
  <2>3. QED
    BY <2>1, <2>2, MoveTypes
<1>5. CASE Clear(h)
  <2>1. /\ Moved(h) /\ task'[h].pc = "idle" /\ task[h].pc = "clear"
        /\ lock' = lock
    BY <1>1, <1>5, EndsMoves, IdleTask DEF Clear
  <2>2. TablesTyped'
    BY <1>1, <1>5 DEF Clear, TablesTyped
  <2>3. QED
    BY <2>1, <2>2, MoveTypes
<1>6. CASE Delete(h)
  <2>1. /\ Moved(h) /\ task'[h].pc \in {"idle", "erase"}
        /\ task[h].pc = "delete" /\ lock' = lock
    BY <1>1, <1>6, EndsMoves, GoesMoves, IdleTask DEF Delete
  <2>2. TablesTyped'
    BY <1>1, <1>6 DEF Delete, TablesTyped
  <2>3. QED
    BY <2>1, <2>2, MoveTypes
<1>7. CASE Erase(h)
  <2>1. /\ Moved(h) /\ task'[h].pc = "idle" /\ task[h].pc = "erase"
        /\ lock' = lock
    BY <1>1, <1>7, EndsMoves, IdleTask DEF Erase
  <2>2. TablesTyped'
    BY <1>1, <1>7 DEF Erase, TablesTyped
  <2>3. QED
    BY <2>1, <2>2, MoveTypes
<1>8. QED
  BY <1>2, <1>3, <1>4, <1>5, <1>6, <1>7

LEMMA BesideTypes ==
  ASSUME TypeInv
  PROVE  /\ \A h \in Handlers :
              /\ Crash(h) => TypeInv'
              /\ \A k \in Records : StartFile(h, k) => TypeInv'
              /\ \A k \in Logos : StartLogo(h, k) => TypeInv'
              /\ \A k \in Rows \cup {logo} : StartRemoval(h, k) => TypeInv'
         /\ \A k \in Keys : Lapse(k) => TypeInv'
         /\ ExpireStale => TypeInv'
<1>1. TablesTyped /\ TypeOK /\ Named /\ LockHeld
  BY DEF TypeInv, TypeOK, TablesTyped
<1>2. ASSUME NEW h \in Handlers, Crash(h) PROVE TypeInv'
  <2>1. /\ Moved(h) /\ task'[h].pc = "idle"
        /\ lock' = IF lock = h THEN NoHandler ELSE lock
    BY <1>1, <1>2, EndsMoves, IdleTask DEF Crash
  <2>2. TablesTyped'
    BY <1>1, <1>2 DEF Crash, TablesTyped
  <2>3. QED
    BY <2>1, <2>2, MoveTypes
<1>3. ASSUME NEW h \in Handlers, NEW k \in Records, StartFile(h, k)
      PROVE  TypeInv'
  <2>1. /\ Moved(h) /\ task'[h].pc = "reserve" /\ task'[h].key \in Keys
        /\ task[h].pc = "idle" /\ lock' = lock
    BY <1>1, <1>3, StartMoves DEF StartFile, At, Keys
  <2>2. TablesTyped'
    BY <1>1, <1>3 DEF StartFile, TablesTyped
  <2>3. QED
    BY <2>1, <2>2, MoveTypes
<1>4. ASSUME NEW h \in Handlers, NEW k \in Logos, StartLogo(h, k)
      PROVE  TypeInv'
  <2>1. /\ Moved(h) /\ task'[h].pc = "reserve" /\ task'[h].key \in Keys
        /\ task[h].pc = "idle" /\ lock' = lock
    BY <1>1, <1>4, StartMoves DEF StartLogo, At, Keys
  <2>2. TablesTyped'
    BY <1>1, <1>4 DEF StartLogo, TablesTyped
  <2>3. QED
    BY <2>1, <2>2, MoveTypes
<1>5. ASSUME NEW h \in Handlers, NEW k \in Rows \cup {logo}, StartRemoval(h, k)
      PROVE  TypeInv'
  <2>1. /\ Moved(h) /\ task'[h].pc = "delete"
        /\ task[h].pc = "idle" /\ lock' = lock
    BY <1>1, <1>5, StartMoves DEF StartRemoval, At
  <2>2. {k} \ {NoKey} \subseteq Keys
    BY <1>1 DEF Rows, Keys, TablesTyped
  <2>3. TablesTyped'
    BY <1>1, <1>5, <2>2 DEF StartRemoval, TablesTyped
  <2>4. QED
    BY <2>1, <2>3, MoveTypes
<1>6. ASSUME NEW k \in Keys, Lapse(k) PROVE TypeInv'
  BY <1>1, <1>6 DEF Lapse, TypeInv, TypeOK, LockHeld, Named, At, Status
<1>7. ASSUME ExpireStale PROVE TypeInv'
  BY <1>1, <1>7 DEF ExpireStale, TypeInv, TypeOK, LockHeld, Named, At, Status
<1>8. QED
  BY <1>2, <1>3, <1>4, <1>5, <1>6, <1>7

LEMMA TypeInvariant == Spec => []TypeInv
<1>1. Init => TypeInv
  BY IdleTask, KeyAssumption
     DEF Init, TypeInv, TypeOK, LockHeld, Named, At, Status
<1>2. TypeInv /\ [Next]_vars => TypeInv'
  <2> SUFFICES ASSUME TypeInv, [Next]_vars PROVE TypeInv'
    OBVIOUS
  <2>1. CASE UNCHANGED vars
    BY <2>1 DEF vars, TypeInv, TypeOK, LockHeld, Named, At
  <2>2. ASSUME NEW h \in Handlers, Serve(h) PROVE TypeInv'
    BY <2>2, StoreTypes, RowTypes DEF Serve
  <2>3. QED
    BY <2>1, <2>2, BesideTypes DEF Next
<1>3. QED
  BY <1>1, <1>2, PTL DEF Spec

\* Requests, tables and the lock stay what they are declared to be: somebody
\* waits for the audit row of a refusal exactly while the organization's row
\* is locked.
THEOREM TypeCorrect == Spec => []TypeOK
<1>1. TypeInv => TypeOK
  BY DEF TypeInv
<1>2. QED
  BY <1>1, TypeInvariant, PTL

-----------------------------------------------------------------------------
(* A key is stored by one request, once *)

Storing(h)  == task[h].pc \in {"put", "commit"}
Removing(h) == task[h].pc \in {"delete", "erase"}

\* Who stores a key has the reservation of it for itself.
OneStores ==
    \A h \in Handlers : Storing(h) =>
      /\ upload[task[h].key] # "NONE"
      /\ \A g \in Handlers : Storing(g) /\ task[g].key = task[h].key => g = h

\* The upload of k is over: it can never be stored again.
Spent(k) ==
    /\ upload[k] # "NONE"
    /\ \A h \in Handlers : Storing(h) => task[h].key # k

\* Everything that was ever shown, and so everything that is replaced or
\* removed, is spent.
NeverAgain ==
    /\ \A k \in Records : file[k] # "none" => Spent(k)
    /\ logo # NoKey => Spent(logo)
    /\ \A h \in Handlers :
         /\ task[h].old # NoKey => Spent(task[h].old)
         /\ Removing(h) /\ task[h].key # NoKey => Spent(task[h].key)

\* What a step may do to reservations and to those who hold them.
Onward ==
    /\ \A k \in Keys : upload[k] # "NONE" => upload'[k] # "NONE"
    /\ \A g \in Handlers : Storing(g)' =>
         /\ upload'[task'[g].key] # "NONE"
         /\ \/ Storing(g) /\ task'[g].key = task[g].key
            \/ upload[task'[g].key] = "NONE"

LEMMA StoreOnward ==
  ASSUME TypeInv, OneStores, NEW h \in Handlers,
         Reserve(h) \/ Put(h) \/ PutFails(h)
  PROVE  Onward
<1> USE DEF Storing, At
<1>1. TypeOK /\ Named /\ upload \in [Keys -> Status]
  BY DEF TypeInv, TypeOK
<1>2. CASE Reserve(h)
  <2>1. /\ Moved(h) /\ task'[h].key = task[h].key /\ task[h].key \in Keys
        /\ upload[task[h].key] = "NONE"
        /\ upload' = [upload EXCEPT ![task[h].key] = "PENDING"]
    BY <1>1, <1>2, GoesMoves DEF Reserve, Named, NewKey
  <2>2. \A k \in Keys : upload[k] # "NONE" => upload'[k] # "NONE"
    BY <1>1, <2>1
  <2>3. \A g \in Handlers : Storing(g) => task[g].key \in Keys
    BY <1>1 DEF Named
  <2>4. QED
    BY <1>1, <2>1, <2>2, <2>3 DEF Onward, Moved, OneStores
<1>3. CASE Put(h)
  BY <1>1, <1>3, GoesMoves DEF Put, Onward, Moved, OneStores
<1>4. CASE PutFails(h)
  <2>1. /\ Moved(h) /\ task'[h].pc = "idle"
        /\ \A k \in Keys : upload[k] # "NONE" => upload'[k] # "NONE"
    BY <1>1, <1>4, EndsMoves, IdleTask DEF PutFails
  <2>2. \A g \in Handlers : Storing(g) => task[g].key \in Keys
    BY <1>1 DEF Named
  <2>3. QED
    BY <1>1, <2>1, <2>2 DEF Onward, Moved, OneStores
<1>5. QED
  BY <1>2, <1>3, <1>4

LEMMA CommitOnward ==
  ASSUME TypeInv, OneStores, NEW h \in Handlers,
         CommitFile(h) \/ CommitLogo(h)
  PROVE  Onward
<1> USE DEF Storing, At
<1>1. TypeOK /\ Named /\ upload \in [Keys -> Status]
  BY DEF TypeInv, TypeOK
<1>2. /\ Moved(h) /\ task'[h].pc \in {"idle", "clear"}
      /\ upload' = Completed(task[h].key)
  BY <1>1, EndsMoves, GoesMoves, IdleTask DEF CommitFile, CommitLogo
<1>3. \A k \in Keys : upload[k] # "NONE" => upload'[k] # "NONE"
  BY <1>1, <1>2 DEF Completed
<1>4. \A g \in Handlers : Storing(g) => task[g].key \in Keys
  BY <1>1 DEF Named
<1>5. QED
  BY <1>2, <1>3, <1>4 DEF Onward, Moved, OneStores

\* Most steps leave the reservations alone and store nothing.
LEMMA OtherOnward ==
  ASSUME OneStores, UNCHANGED upload,
         \A g \in Handlers : task'[g] = task[g] \/ ~ Storing(g)'
  PROVE  Onward
  BY DEF Onward, OneStores, Storing

LEMMA BesideOnward ==
  ASSUME TypeInv, OneStores, UNCHANGED task,
         ExpireStale \/ \E k \in Keys : Lapse(k)
  PROVE  Onward
<1>1. upload \in [Keys -> Status] /\ Named
  BY DEF TypeInv, TypeOK
<1>2. \A k \in Keys : upload[k] # "NONE" => upload'[k] # "NONE"
  BY <1>1 DEF ExpireStale, Lapse
<1>3. \A g \in Handlers : Storing(g) => task[g].key \in Keys
  BY <1>1 DEF Named, Storing
<1>4. QED
  BY <1>2, <1>3 DEF Onward, OneStores, Storing

LEMMA SpentStays ==
  ASSUME TypeInv, Onward, NEW k \in Keys, Spent(k)
  PROVE  Spent(k)'
  BY DEF Onward, Spent

LEMMA OneStoresOn ==
  ASSUME TypeInv, OneStores, Onward, NEW h \in Handlers,
         \A g \in Handlers : g # h => task'[g] = task[g]
  PROVE  OneStores'
<1>1. \A g \in Handlers : Storing(g) => upload[task[g].key] # "NONE"
  BY DEF OneStores
<1>2. \A g, f \in Handlers :
        Storing(g)' /\ Storing(f)' /\ task'[g].key = task'[f].key => f = g
  BY <1>1 DEF Onward, OneStores, Storing
<1>3. QED
  BY <1>2 DEF Onward, OneStores

\* Only what is stored by this step can be shown by it.
LEMMA NeverAgainOn ==
  ASSUME TypeInv, NeverAgain, Onward,
         \A k \in Records :
            file'[k] # "none" => file[k] # "none" \/ Spent(k)',
         logo' \in {logo, NoKey} \/ Spent(logo)',
         \A g \in Handlers :
           /\ task'[g].old \in {NoKey, logo, task[g].old}
           /\ Removing(g)' => \/ Removing(g) /\ task'[g].key = task[g].key
                              \/ task'[g].key \in Rows \cup {logo}
  PROVE  NeverAgain'
<1>1. /\ Records \subseteq Keys /\ logo \in Logos \cup {NoKey}
      /\ task \in [Handlers -> Task] /\ Logos \subseteq Keys
  BY DEF TypeInv, TypeOK, Keys
<1>2. \A k \in Records : file[k] # "none" => Spent(k)'
  BY <1>1, SpentStays DEF NeverAgain
<1>3. logo # NoKey => Spent(logo) /\ logo \in Keys
  BY <1>1 DEF NeverAgain
<1>4. ASSUME NEW k \in Keys, Spent(k) PROVE Spent(k)'
  BY <1>4, SpentStays
<1>5. \A k \in Records : file'[k] # "none" => Spent(k)'
  BY <1>2
<1>6. logo' # NoKey => Spent(logo)'
  <2>1. CASE logo' = logo
    <3>1. PICK k \in Keys \cup {NoKey} : k = logo
      BY <1>1
    <3>2. k # NoKey => Spent(k)'
      BY <1>3, <1>4, <3>1
    <3>3. QED
      BY <2>1, <3>1, <3>2 DEF Spent
  <2>2. QED
    BY <2>1
<1>7. ASSUME NEW g \in Handlers
      PROVE  /\ task'[g].old # NoKey => Spent(task[g].old)'
             /\ Removing(g)' /\ task'[g].key # NoKey => Spent(task[g].key)'
  <2>1. PICK k \in Keys \cup {NoKey} : k = task[g].old
    BY <1>1, TaskParts
  <2>2. PICK l \in Keys \cup {NoKey} : l = task[g].key
    BY <1>1, TaskParts
  <2>3. PICK m \in Keys \cup {NoKey} : m = logo
    BY <1>1
  <2>4. /\ k # NoKey => Spent(k)'
        /\ Removing(g) /\ l # NoKey => Spent(l)'
        /\ m # NoKey => Spent(m)'
    BY <1>3, <1>4, <2>1, <2>2, <2>3 DEF NeverAgain
  <2>5. task'[g].old # NoKey => Spent(task[g].old)'
    BY <2>1, <2>3, <2>4 DEF Spent
  <2>6. ASSUME Removing(g)', task'[g].key # NoKey
        PROVE  Spent(task[g].key)'
    <3>1. CASE task'[g].key \in Rows
      <4>1. PICK r \in Records : r = task'[g].key /\ file[r] # "none"
        BY <3>1 DEF Rows
      <4>2. Spent(r)'
        BY <1>2, <4>1
      <4>3. QED
        BY <4>1, <4>2 DEF Spent
    <3>2. QED
      BY <2>2, <2>3, <2>4, <2>6, <3>1 DEF Spent
  <2>7. QED
    BY <2>5, <2>6
<1>8. QED
  BY <1>5, <1>6, <1>7 DEF NeverAgain

Unique == OneStores /\ NeverAgain

\* A request that lets go or goes on takes nothing new into its hands.
Handed(h) ==
    /\ \A g \in Handlers : g # h => task'[g] = task[g]
    /\ task'[h].old \in {NoKey, logo, task[h].old}
    /\ Removing(h)' => \/ Removing(h) /\ task'[h].key = task[h].key
                       \/ task'[h].key \in Rows \cup {logo}

LEMMA UniqueOn ==
  ASSUME TypeInv, Unique, Onward, NEW h \in Handlers, Handed(h),
         \A k \in Records :
            file'[k] # "none" => file[k] # "none" \/ Spent(k)',
         logo' \in {logo, NoKey} \/ Spent(logo)'
  PROVE  Unique'
<1>1. OneStores'
  BY OneStoresOn DEF Unique, Handed
<1>2. \A g \in Handlers :
        /\ task'[g].old \in {NoKey, logo, task[g].old}
        /\ Removing(g)' => \/ Removing(g) /\ task'[g].key = task[g].key
                           \/ task'[g].key \in Rows \cup {logo}
  BY DEF Handed, Removing
<1>3. NeverAgain'
  BY <1>2, NeverAgainOn DEF Unique
<1>4. QED
  BY <1>1, <1>3 DEF Unique

LEMMA StoreUnique ==
  ASSUME TypeInv, Unique, NEW h \in Handlers,
         Reserve(h) \/ Put(h) \/ PutFails(h)
  PROVE  Unique'
<1>1. Onward
  BY StoreOnward DEF Unique
<1>2. Handed(h)
  <2>1. TypeOK
    BY DEF TypeInv
  <2>2. Moved(h) /\ task'[h].old \in {task[h].old, NoKey} /\ ~ Removing(h)'
    BY <2>1, EndsMoves, GoesMoves, IdleTask
       DEF Reserve, Put, PutFails, Removing, At
  <2>3. QED
    BY <2>2 DEF Handed, Moved
<1>3. UNCHANGED <<file, logo>>
  BY DEF Reserve, Put, PutFails
<1>4. QED
  BY <1>1, <1>2, <1>3, UniqueOn

LEMMA FileUnique ==
  ASSUME TypeInv, Unique, NEW h \in Handlers, CommitFile(h)
  PROVE  Unique' /\ file[task[h].key] = "none"
<1> DEFINE k == task[h].key
<1>1. /\ Onward /\ TypeOK /\ Moved(h) /\ task'[h] = Idle /\ k \in Records
      /\ Storing(h) /\ UNCHANGED logo
  BY CommitOnward, EndsMoves DEF CommitFile, At, Storing, Unique, TypeInv
<1>2. Handed(h)
  BY <1>1, IdleTask DEF Handed, Moved, Removing
<1>3. \A r \in Records : r # k => file'[r] = file[r]
  BY <1>1 DEF CommitFile, TypeOK
<1>4. upload[k] # "NONE" /\ k \in Keys
  BY <1>1 DEF Unique, OneStores, Keys
<1>5. upload'[k] # "NONE"
  BY <1>1, <1>4 DEF Onward
<1>6. \A g \in Handlers : Storing(g)' => task'[g].key # k
  BY <1>1, IdleTask DEF Moved, Storing, Unique, OneStores
<1>7. PICK r \in Records : r = k
  BY <1>1
<1>8. Spent(r)'
  BY <1>5, <1>6, <1>7 DEF Spent
<1>9. \A q \in Records :
         file'[q] # "none" => file[q] # "none" \/ Spent(q)'
  <2> TAKE q \in Records
  <2>1. CASE q = r
    <3>1. Spent(q)'
      BY <1>8, <2>1
    <3>2. QED
      BY <3>1
  <2>2. QED
    BY <1>3, <1>7, <2>1
<1>10. Unique'
  BY <1>1, <1>2, <1>9, UniqueOn
<1>11. file[k] = "none"
  BY <1>1 DEF Unique, NeverAgain, Spent
<1>12. QED
  BY <1>10, <1>11

LEMMA LogoUnique ==
  ASSUME TypeInv, Unique, NEW h \in Handlers, CommitLogo(h)
  PROVE  Unique'
<1> DEFINE k == task[h].key
<1>1. /\ Onward /\ TypeOK /\ Moved(h) /\ task'[h].pc \in {"idle", "clear"}
      /\ task'[h].old \in {NoKey, task[h].old} /\ k \in Logos
      /\ Storing(h) /\ UNCHANGED file /\ logo' = k
  BY CommitOnward, EndsMoves, GoesMoves, IdleTask
     DEF CommitLogo, At, Storing, Unique, TypeInv
<1>2. Handed(h)
  BY <1>1 DEF Handed, Moved, Removing
<1>3. upload[k] # "NONE" /\ k \in Keys
  BY <1>1 DEF Unique, OneStores, Keys
<1>4. upload'[k] # "NONE"
  BY <1>1, <1>3 DEF Onward
<1>5. \A g \in Handlers : Storing(g)' => task'[g].key # k
  BY <1>1 DEF Moved, Storing, Unique, OneStores
<1>6. Spent(logo)'
  BY <1>1, <1>4, <1>5 DEF Spent
<1>7. QED
  BY <1>1, <1>2, <1>6, UniqueOn

LEMMA OtherUnique ==
  ASSUME TypeInv, Unique, NEW h \in Handlers,
         \/ Collide(h) \/ Refuse(h) \/ TransactionTimeout(h)
         \/ CommitFails(h) \/ Clear(h) \/ Delete(h) \/ Erase(h) \/ Crash(h)
         \/ \E k \in Records : StartFile(h, k)
         \/ \E k \in Logos : StartLogo(h, k)
         \/ \E k \in Rows \cup {logo} : StartRemoval(h, k)
  PROVE  Unique'
<1>1. TypeOK
  BY DEF TypeInv
<1>2. /\ Moved(h) /\ ~ Storing(h)' /\ Handed(h) /\ UNCHANGED upload
  <2>1. CASE \/ Collide(h) \/ TransactionTimeout(h) \/ CommitFails(h)
             \/ Clear(h) \/ Erase(h) \/ Crash(h)
    <3>1. Ends(h) /\ UNCHANGED upload
      BY <2>1 DEF Collide, TransactionTimeout, CommitFails, Clear, Erase, Crash
    <3>2. QED
      BY <1>1, <3>1, EndsMoves, IdleTask DEF Moved, Handed, Storing, Removing
  <2>2. CASE Refuse(h)
    <3>1. Goes(h, "refused") /\ UNCHANGED upload
      BY <2>2 DEF Refuse
    <3>2. QED
      BY <1>1, <3>1, GoesMoves DEF Moved, Handed, Storing, Removing
  <2>3. CASE Delete(h)
    <3>1. /\ Removing(h) /\ UNCHANGED upload
          /\ Goes(h, "erase") \/ Ends(h)
      BY <2>3 DEF Delete, At, Removing
    <3>2. QED
      BY <1>1, <3>1, GoesMoves, EndsMoves, IdleTask
         DEF Moved, Handed, Storing, Removing
  <2>4. CASE \/ \E k \in Records : StartFile(h, k)
             \/ \E k \in Logos : StartLogo(h, k)
             \/ \E k \in Rows \cup {logo} : StartRemoval(h, k)
    <3>1. UNCHANGED upload
      BY <2>4 DEF StartFile, StartLogo, StartRemoval
    <3>2. QED
      BY <1>1, <2>4, <3>1, StartMoves DEF Moved, Handed, Storing, Removing
  <2>5. QED
    BY <2>1, <2>2, <2>3, <2>4
<1>3. Onward
  BY <1>2, OtherOnward DEF Moved, Unique
<1>4. logo' \in {logo, NoKey}
  BY DEF Collide, Refuse, TransactionTimeout, CommitFails, Clear, Delete,
         Erase, Crash, StartFile, StartLogo, StartRemoval
<1>5. \A k \in Records : file'[k] # "none" => file[k] # "none"
  <2>1. CASE Erase(h)
    BY <1>1, <2>1 DEF Erase, Rows, TypeOK
  <2>2. CASE ~ Erase(h)
    BY <2>2 DEF Collide, Refuse, TransactionTimeout, CommitFails, Clear,
                Delete, Crash, StartFile, StartLogo, StartRemoval
  <2>3. QED
    BY <2>1, <2>2
<1>6. QED
  BY <1>2, <1>3, <1>4, <1>5, UniqueOn

LEMMA IdleUnique ==
  ASSUME TypeInv, Unique, UNCHANGED <<file, logo, task>>,
         ExpireStale \/ UNCHANGED upload \/ \E k \in Keys : Lapse(k)
  PROVE  Unique'
<1>1. CASE Handlers # {}
  <2>1. PICK h \in Handlers : TRUE
    BY <1>1
  <2>2. Handed(h)
    BY DEF Handed, Removing
  <2>3. Onward
    BY BesideOnward, OtherOnward DEF Unique
  <2>4. QED
    BY <2>2, <2>3, UniqueOn
<1>2. CASE Handlers = {}
  <2>1. upload \in [Keys -> Status] /\ Records \subseteq Keys
        /\ logo \in Keys \cup {NoKey}
    BY DEF TypeInv, TypeOK, Keys
  <2>2. \A k \in Keys : upload[k] # "NONE" => upload'[k] # "NONE"
    BY <2>1 DEF ExpireStale, Lapse
  <2>3. QED
    BY <1>2, <2>1, <2>2 DEF Unique, OneStores, NeverAgain, Spent
<1>3. QED
  BY <1>1, <1>2

LEMMA UniqueInvariant == Spec => []Unique
<1>1. Init => Unique
  BY IdleTask
     DEF Init, Unique, OneStores, NeverAgain, Storing, Removing
<1>2. TypeInv /\ Unique /\ [Next]_vars => Unique'
  <2> SUFFICES ASSUME TypeInv, Unique, [Next]_vars PROVE Unique'
    OBVIOUS
  <2>1. CASE UNCHANGED vars
    BY <2>1, IdleUnique DEF vars
  <2>2. ASSUME NEW h \in Handlers, Serve(h) PROVE Unique'
    BY <2>2, StoreUnique, FileUnique, LogoUnique, OtherUnique DEF Serve
  <2>3. CASE ExpireStale \/ \E k \in Keys : Lapse(k)
    BY <2>3, IdleUnique DEF ExpireStale, Lapse
  <2>4. QED
    BY <2>1, <2>2, <2>3, OtherUnique DEF Next
<1>3. QED
  BY <1>1, <1>2, TypeInvariant, PTL DEF Spec

\* A file that was removed does not come back when the field client sends its
\* upload again: its key is spent, and the unique key refuses another
\* reservation of it.
THEOREM RemovedForGood == Spec => RemovedStaysRemoved
<1>1. TypeInv /\ Unique /\ [Next]_vars =>
        [\A k \in Records : file[k] = "removed" => file'[k] = "removed"]_vars
  <2> SUFFICES ASSUME TypeInv, Unique, [Next]_vars,
                      NEW k \in Records, file[k] = "removed"
               PROVE  file'[k] = "removed"
    OBVIOUS
  <2>1. TypeOK
    BY DEF TypeInv
  <2>2. ASSUME NEW h \in Handlers, CommitFile(h) PROVE file'[k] = "removed"
    <3>1. file[task[h].key] = "none"
      BY <2>2, FileUnique
    <3>2. QED
      BY <2>1, <2>2, <3>1 DEF CommitFile, TypeOK
  <2>3. ASSUME NEW h \in Handlers, Erase(h) PROVE file'[k] = "removed"
    BY <2>1, <2>3 DEF Erase, Rows, TypeOK
  <2>4. CASE UNCHANGED file
    BY <2>4
  <2>5. ASSUME NEW h \in Handlers, Serve(h) PROVE file'[k] = "removed"
    BY <2>2, <2>3, <2>4, <2>5
       DEF Serve, Reserve, Collide, Refuse, TransactionTimeout, Put, PutFails,
           CommitLogo, CommitFails, Clear, Delete
  <2>6. QED
    BY <2>4, <2>5
       DEF Next, vars, Crash, StartFile, StartLogo, StartRemoval, Lapse,
           ExpireStale
<1>2. QED
  BY <1>1, TypeInvariant, UniqueInvariant, PTL DEF Spec, RemovedStaysRemoved

-----------------------------------------------------------------------------
(* What is shown can be downloaded *)

\* Nobody is about to delete, unasked, an object that is shown or will be.
Guarded ==
    \A h \in Handlers :
      /\ At(h, "commit") => task[h].key \in objects
      /\ At(h, "clear") => task[h].old \notin {logo, NoKey}
      /\ At(h, "delete") /\ task[h].key \in Shown => task[h].key \in asked

Kept == Guarded /\ ShownIsStored

LEMMA KeysApart ==
  ASSUME TypeInv
  PROVE  /\ TypeOK /\ NoKey \notin Shown /\ Rows \subseteq Records
         /\ logo \notin Records /\ Shown \subseteq Keys
         /\ \A h \in Handlers : /\ task[h].old \notin Records
                                /\ Storing(h) => task[h].key \in Keys \ {NoKey}
  BY KeyAssumption, TaskParts
     DEF TypeInv, TypeOK, Named, Shown, Rows, Keys, Storing

LEMMA QuietKept ==
  ASSUME Kept, UNCHANGED <<file, logo, asked>>, objects \subseteq objects',
         \A g \in Handlers : \/ task'[g] = task[g]
                            \/ task'[g].pc \notin {"commit", "clear", "delete"}
  PROVE  Kept'
<1>1. Shown' = Shown
  BY DEF Shown, Rows
<1>2. QED
  BY <1>1 DEF Kept, Guarded, ShownIsStored, At

LEMMA PutKept ==
  ASSUME TypeInv, Kept, NEW h \in Handlers, Put(h)
  PROVE  Kept'
<1>1. Shown' = Shown
  BY DEF Put, Shown, Rows
<1>2. Moved(h) /\ task'[h].pc = "commit" /\ task'[h].key = task[h].key
  BY GoesMoves DEF Put, TypeInv
<1>3. objects' = objects \cup {task[h].key} /\ UNCHANGED <<logo, asked>>
  BY DEF Put
<1>4. QED
  BY <1>1, <1>2, <1>3 DEF Kept, Guarded, ShownIsStored, At, Moved

LEMMA FileKept ==
  ASSUME TypeInv, Unique, Kept, NEW h \in Handlers, CommitFile(h)
  PROVE  Kept'
<1> DEFINE k == task[h].key
<1>1. /\ Moved(h) /\ task'[h].pc = "idle" /\ Storing(h)
      /\ At(h, "commit") /\ UNCHANGED <<logo, objects, asked>>
  BY EndsMoves, IdleTask DEF CommitFile, TypeInv, Storing, At
<1>2. Shown' \subseteq Shown \cup {k}
  BY DEF CommitFile, TypeInv, TypeOK, Shown, Rows
<1>3. k \in objects
  BY <1>1 DEF Kept, Guarded
<1>4. \A g \in Handlers : At(g, "delete") => task[g].key # k
  BY <1>1, KeysApart DEF Unique, NeverAgain, Removing, At, Spent
<1>5. Guarded'
  BY <1>1, <1>2, <1>4 DEF Kept, Guarded, At, Moved
<1>6. ShownIsStored'
  BY <1>1, <1>2, <1>3 DEF Kept, ShownIsStored
<1>7. QED
  BY <1>5, <1>6 DEF Kept

\* The one that is replaced is not asked for any more, and never shown again.
LEMMA LogoKept ==
  ASSUME TypeInv, Unique, Kept, NEW h \in Handlers, CommitLogo(h)
  PROVE  Kept'
<1> DEFINE k == task[h].key
<1>1. /\ Moved(h) /\ Storing(h) /\ At(h, "commit") /\ UNCHANGED objects
      /\ \/ task'[h].pc = "idle"
         \/ /\ task'[h].pc = "clear" /\ task[h].old # NoKey
            /\ task'[h].old = task[h].old
      /\ logo' = k /\ asked' = asked \ {logo} /\ k # NoKey
  BY EndsMoves, GoesMoves, IdleTask, KeysApart
     DEF CommitLogo, TypeInv, Storing, At
<1>2. Shown' \subseteq (Shown \ {logo}) \cup {k}
  BY <1>1, KeysApart DEF CommitLogo, Shown, Rows
<1>3. k \in objects
  BY <1>1 DEF Kept, Guarded
<1>4. \A g \in Handlers : /\ At(g, "delete") => task[g].key # k
                         /\ task[g].old # k
  BY <1>1 DEF Unique, NeverAgain, Removing, At, Spent
<1>5. Guarded'
  <2> SUFFICES ASSUME NEW g \in Handlers
               PROVE  /\ At(g, "commit")' => task'[g].key \in objects'
                      /\ At(g, "clear")' => task'[g].old \notin {logo', NoKey}
                      /\ At(g, "delete")' /\ task'[g].key \in Shown'
                           => task'[g].key \in asked'
    BY DEF Guarded
  <2>1. CASE g = h
    BY <1>1, <1>4, <2>1 DEF At
  <2>2. CASE g # h
    BY <1>1, <1>2, <1>4, <2>2 DEF Kept, Guarded, At, Moved
  <2>3. QED
    BY <2>1, <2>2
<1>6. ShownIsStored'
  BY <1>1, <1>2, <1>3 DEF Kept, ShownIsStored
<1>7. QED
  BY <1>5, <1>6 DEF Kept

LEMMA ClearKept ==
  ASSUME TypeInv, Unique, Kept, NEW h \in Handlers, Clear(h)
  PROVE  Kept'
<1> DEFINE k == task[h].old
<1>1. /\ Moved(h) /\ task'[h].pc = "idle" /\ At(h, "clear")
      /\ UNCHANGED <<file, logo, asked>> /\ objects \ {k} \subseteq objects'
  BY EndsMoves, IdleTask DEF Clear, TypeInv
<1>2. Shown' = Shown
  BY <1>1 DEF Shown, Rows
<1>3. k \notin Shown /\ k # NoKey
  BY <1>1, KeysApart DEF Kept, Guarded, Shown
<1>4. \A g \in Handlers : At(g, "commit") => task[g].key # k
  BY <1>3 DEF Unique, NeverAgain, Storing, At, Spent
<1>5. QED
  BY <1>1, <1>2, <1>3, <1>4 DEF Kept, Guarded, ShownIsStored, At, Moved

LEMMA RemovalKept ==
  ASSUME TypeInv, Kept, NEW h \in Handlers, NEW k \in Rows \cup {logo},
         StartRemoval(h, k)
  PROVE  Kept'
<1>1. /\ Moved(h) /\ task'[h].pc = "delete" /\ task'[h].key = k
      /\ UNCHANGED <<file, logo, objects>> /\ asked' = asked \cup ({k} \ {NoKey})
  BY StartMoves DEF StartRemoval, TypeInv
<1>2. Shown' = Shown /\ NoKey \notin Shown
  BY <1>1, KeysApart DEF Shown, Rows
<1>3. QED
  BY <1>1, <1>2 DEF Kept, Guarded, ShownIsStored, At, Moved

LEMMA DeleteKept ==
  ASSUME TypeInv, Unique, Kept, NEW h \in Handlers, Delete(h)
  PROVE  Kept'
<1> DEFINE k == task[h].key
<1>1. /\ Moved(h) /\ task'[h].pc \in {"idle", "erase"} /\ At(h, "delete")
      /\ UNCHANGED <<file, logo, asked>> /\ objects \ {k} \subseteq objects'
  BY EndsMoves, GoesMoves, IdleTask DEF Delete, TypeInv
<1>2. Shown' = Shown
  BY <1>1 DEF Shown, Rows
<1>3. k \in Shown => k \in asked
  BY <1>1 DEF Kept, Guarded
<1>4. \A g \in Handlers : At(g, "commit") => task[g].key # k
  <2>1. k # NoKey => Spent(k)
    BY <1>1 DEF Unique, NeverAgain, Removing, At
  <2>2. QED
    BY <2>1, KeysApart DEF Storing, At, Spent
<1>5. QED
  BY <1>1, <1>2, <1>3, <1>4 DEF Kept, Guarded, ShownIsStored, At, Moved

LEMMA EraseKept ==
  ASSUME TypeInv, Kept, NEW h \in Handlers, Erase(h)
  PROVE  Kept'
<1> DEFINE k == task[h].key
<1>1. /\ Moved(h) /\ task'[h].pc = "idle" /\ UNCHANGED objects
      /\ logo' \in {logo, NoKey}
  BY EndsMoves, IdleTask DEF Erase, TypeInv
<1>2. PICK gone \in Keys \cup {NoKey} :
         asked' = asked \ {gone} /\ Shown' \subseteq Shown \ {gone}
  <2>1. CASE k \in Records
    <3>1. /\ k \in Keys /\ asked' = asked \ {k} /\ logo' = logo
          /\ file' = IF k \in Rows THEN [file EXCEPT ![k] = "removed"] ELSE file
      BY <2>1 DEF Erase, Keys
    <3>2. Shown' \subseteq Shown \ {k}
      BY <2>1, <3>1, KeysApart DEF Shown, Rows, TypeOK
    <3>3. QED
      BY <3>1, <3>2
  <2>2. CASE k \notin Records
    <3>1. asked' = asked \ {logo} /\ logo' = NoKey /\ file' = file
      BY <2>2 DEF Erase
    <3>2. Shown' \subseteq Shown \ {logo} /\ logo \in Keys \cup {NoKey}
      BY <3>1, KeysApart DEF Shown, Rows, TypeOK, Keys
    <3>3. QED
      BY <3>1, <3>2
  <2>3. QED
    BY <2>1, <2>2
<1>3. QED
  BY <1>1, <1>2 DEF Kept, Guarded, ShownIsStored, At, Moved

LEMMA KeptInvariant == Spec => []Kept
<1>1. Init => Kept
  BY IdleTask DEF Init, Kept, Guarded, ShownIsStored, Shown, Rows, At
<1>2. TypeInv /\ Unique /\ Kept /\ [Next]_vars => Kept'
  <2> SUFFICES ASSUME TypeInv, Unique, Kept, [Next]_vars PROVE Kept'
    OBVIOUS
  <2>0. TypeOK
    BY DEF TypeInv
  <2>1. CASE UNCHANGED vars
    BY <2>1, QuietKept DEF vars
  <2>2. ASSUME NEW h \in Handlers,
               \/ Collide(h) \/ TransactionTimeout(h) \/ PutFails(h)
               \/ CommitFails(h) \/ Crash(h)
        PROVE  Kept'
    <3>1. /\ Ends(h) /\ UNCHANGED <<file, logo, asked>>
          /\ objects \subseteq objects'
      BY <2>2 DEF Collide, TransactionTimeout, PutFails, CommitFails, Crash
    <3>2. Moved(h) /\ task'[h].pc = "idle"
      BY <2>0, <3>1, EndsMoves, IdleTask
    <3>3. QED
      BY <3>1, <3>2, QuietKept DEF Moved
  <2>3. ASSUME NEW h \in Handlers,
               \/ Reserve(h) \/ Refuse(h)
               \/ \E k \in Records : StartFile(h, k)
               \/ \E k \in Logos : StartLogo(h, k)
        PROVE  Kept'
    <3>1. UNCHANGED <<file, logo, asked>> /\ objects \subseteq objects'
      BY <2>3 DEF Reserve, Refuse, StartFile, StartLogo
    <3>2. Moved(h) /\ task'[h].pc \in {"put", "refused", "reserve"}
      BY <2>0, <2>3, GoesMoves, StartMoves DEF Reserve, Refuse
    <3>3. QED
      BY <3>1, <3>2, QuietKept DEF Moved
  <2>4. CASE ExpireStale \/ \E k \in Keys : Lapse(k)
    BY <2>4, QuietKept DEF ExpireStale, Lapse
  <2>5. ASSUME NEW h \in Handlers, Serve(h) PROVE Kept'
    BY <2>2, <2>3, <2>5, PutKept, FileKept, LogoKept, ClearKept, DeleteKept,
       EraseKept DEF Serve
  <2>6. QED
    BY <2>1, <2>2, <2>3, <2>4, <2>5, RemovalKept DEF Next
<1>3. QED
  BY <1>1, <1>2, TypeInvariant, UniqueInvariant, PTL DEF Spec

\* What a user sees can be downloaded, unless somebody asked to remove it,
\* whatever uploads, replacements, removals and crashes race with each other.
THEOREM ShownStored == Spec => []ShownIsStored
<1>1. Kept => ShownIsStored
  BY DEF Kept
<1>2. QED
  BY <1>1, KeptInvariant, PTL

-----------------------------------------------------------------------------
(* The job files implement QuotaAccount *)

\* The item of the account a job file is (Account in StorageQuota).
Items == [k \in Records |->
            CASE file[k] = "stored"               -> "CHARGED"
              [] file[k] \in {"overdue", "removed"} -> "GONE"
              [] OTHER ->
                   CASE upload[k] = "NONE"    -> "NEW"
                     [] upload[k] = "PENDING" -> "HELD"
                     [] OTHER                 -> "GONE"]

LEMMA ItemIs ==
  ASSUME TypeOK, NEW k \in Records
  PROVE  /\ Items[k] = "CHARGED" <=> file[k] = "stored"
         /\ Items[k] = "NEW" <=> file[k] = "none" /\ upload[k] = "NONE"
         /\ Items[k] = "HELD" <=> file[k] = "none" /\ upload[k] = "PENDING"
         /\ Items[k] \in Account!Phases
  BY DEF Items, Account!Phases, TypeOK

LEMMA ItemBecomes ==
  ASSUME TypeOK', NEW k \in Records
  PROVE  /\ Items'[k] = "CHARGED" <=> file'[k] = "stored"
         /\ Items'[k] = "NEW" <=> file'[k] = "none" /\ upload'[k] = "NONE"
         /\ Items'[k] = "HELD" <=> file'[k] = "none" /\ upload'[k] = "PENDING"
         /\ Items'[k] \in Account!Phases
  BY DEF Items, Account!Phases, TypeOK

\* What may become of a job file beside its reservation.
Changed(k) ==
    \/ /\ file'[k] = file[k]
       /\ \/ upload'[k] = upload[k]
          \/ /\ upload[k] \in {"PENDING", "LATE"}
             /\ upload'[k] \in Status \ {"NONE", "PENDING"}
    \/ /\ file[k] = "none" /\ upload[k] # "NONE"
       /\ file'[k] = IF upload[k] = "PENDING" THEN "stored" ELSE "overdue"
    \/ file[k] \in {"stored", "overdue"} /\ file'[k] = "removed"

LEMMA ChangedItem ==
  ASSUME TypeOK, TypeOK', NEW k \in Records, Changed(k)
  PROVE  \/ Items'[k] = Items[k]
         \/ Items'[k] \in Account!Onward[Items[k]] \ {"HELD"}
<1>1. Account!Onward = [NEW |-> {"HELD", "GONE"}, HELD |-> {"CHARGED", "GONE"},
                        CHARGED |-> {"GONE"}, GONE |-> {}]
  BY DEF Account!Onward
<1>2. QED
  BY <1>1, ItemIs, ItemBecomes DEF Changed, Account!Phases, TypeOK

LEMMA FilesChange ==
  ASSUME TypeInv, Unique, [Next]_vars, ~ \E h \in Handlers : Reserve(h)
  PROVE  \A k \in Records : Changed(k)
<1> SUFFICES ASSUME NEW k \in Records PROVE Changed(k)
  OBVIOUS
<1>1. TypeOK /\ k \in Keys
  BY DEF TypeInv, Keys
<1>2. ASSUME NEW h \in Handlers, CommitFile(h) PROVE Changed(k)
  <2>1. file[task[h].key] = "none" /\ upload[task[h].key] # "NONE"
    BY <1>2, FileUnique DEF Unique, OneStores, Storing, CommitFile, At
  <2>2. QED
    BY <1>1, <1>2, <2>1 DEF CommitFile, Completed, Changed, TypeOK
<1>3. ASSUME NEW h \in Handlers, CommitLogo(h) PROVE Changed(k)
  BY <1>1, <1>3 DEF CommitLogo, Completed, Changed, TypeOK, Status
<1>4. ASSUME NEW h \in Handlers, PutFails(h) PROVE Changed(k)
  BY <1>1, <1>4 DEF PutFails, Changed, TypeOK, Status
<1>5. ASSUME NEW h \in Handlers, Erase(h) PROVE Changed(k)
  BY <1>1, <1>5 DEF Erase, Changed, TypeOK, Rows
<1>6. CASE ExpireStale \/ \E q \in Keys : Lapse(q)
  BY <1>1, <1>6 DEF ExpireStale, Lapse, Changed, TypeOK, Status
<1>7. CASE UNCHANGED <<file, upload>>
  BY <1>7 DEF Changed
<1>8. ASSUME NEW h \in Handlers, Serve(h) PROVE Changed(k)
  BY <1>2, <1>3, <1>4, <1>5, <1>7, <1>8
     DEF Serve, Collide, Refuse, TransactionTimeout, Put, CommitFails, Clear,
         Delete
<1>9. QED
  BY <1>6, <1>7, <1>8
     DEF Next, vars, Crash, StartFile, StartLogo, StartRemoval

\* Finitely many keys are in use, and only a logo takes the place of another.
Used == {k \in Keys : upload[k] # "NONE"}
Counted ==
    /\ IsFiniteSet(Used)
    /\ \A h \in Handlers :
         At(h, "reserve") /\ task[h].key \in Records => task[h].old = NoKey

LEMMA UsedGrows ==
  ASSUME TypeInv, [Next]_vars
  PROVE  \E k \in Keys \cup {NoKey} : Used' \subseteq Used \cup {k}
<1>1. TypeOK /\ upload \in [Keys -> Status]
  BY DEF TypeInv, TypeOK
<1>2. ASSUME NEW h \in Handlers, Reserve(h)
      PROVE  \E k \in Keys : Used' \subseteq Used \cup {k}
  <2>1. task[h].key \in Keys
    BY <1>2 DEF Reserve, TypeInv, Named, At
  <2>2. Used' \subseteq Used \cup {task[h].key}
    BY <1>1, <1>2 DEF Reserve, Used
  <2>3. QED
    BY <2>1, <2>2
<1>3. ASSUME NEW h \in Handlers,
             CommitFile(h) \/ CommitLogo(h) \/ PutFails(h)
      PROVE  Used' \subseteq Used
  BY <1>1, <1>3 DEF CommitFile, CommitLogo, PutFails, Completed, Used
<1>4. CASE ExpireStale \/ \E q \in Keys : Lapse(q)
  <2>1. Used' \subseteq Used
    BY <1>1, <1>4 DEF ExpireStale, Lapse, Used
  <2>2. QED
    BY <2>1
<1>5. CASE UNCHANGED upload
  BY <1>5 DEF Used
<1>6. ASSUME NEW h \in Handlers, Serve(h)
      PROVE  \E k \in Keys \cup {NoKey} : Used' \subseteq Used \cup {k}
  BY <1>2, <1>3, <1>5, <1>6
     DEF Serve, Collide, Refuse, TransactionTimeout, Put, CommitFails, Clear,
         Delete, Erase
<1>7. QED
  BY <1>4, <1>5, <1>6
     DEF Next, vars, Crash, StartFile, StartLogo, StartRemoval

LEMMA CountedInvariant == Spec => []Counted
<1>1. Init => Counted
  <2> SUFFICES ASSUME Init PROVE Counted
    OBVIOUS
  <2>1. Used = {}
    BY DEF Init, Used
  <2>2. QED
    BY <2>1, FS_EmptySet, IdleTask DEF Init, Counted, At
<1>2. TypeInv /\ Counted /\ [Next]_vars => Counted'
  <2> SUFFICES ASSUME TypeInv, Counted, [Next]_vars PROVE Counted'
    OBVIOUS
  <2>1. IsFiniteSet(Used')
    <3>1. PICK k \in Keys \cup {NoKey} : Used' \subseteq Used \cup {k}
      BY UsedGrows
    <3>2. IsFiniteSet(Used \cup {k})
      BY FS_AddElement DEF Counted
    <3>3. QED
      BY <3>1, <3>2, FS_Subset
  <2>2. ASSUME NEW g \in Handlers
        PROVE  \/ task'[g] = task[g] \/ task'[g].pc # "reserve"
               \/ task'[g].key \notin Records \/ task'[g].old = NoKey
    <3>0. TypeOK
      BY DEF TypeInv
    <3>1. ASSUME NEW h \in Handlers, Serve(h) \/ Crash(h)
          PROVE  task'[g] = task[g] \/ task'[g].pc # "reserve"
      <4>1. Moved(h) /\ task'[h].pc # "reserve"
        BY <3>0, <3>1, EndsMoves, GoesMoves, IdleTask
           DEF Serve, Crash, Reserve, Collide, Refuse, TransactionTimeout, Put,
               PutFails, CommitFile, CommitLogo, CommitFails, Clear, Delete,
               Erase
      <4>2. QED
        BY <4>1 DEF Moved
    <3>2. ASSUME NEW h \in Handlers,
                 \/ \E k \in Records : StartFile(h, k)
                 \/ \E k \in Logos : StartLogo(h, k)
                 \/ \E k \in Rows \cup {logo} : StartRemoval(h, k)
          PROVE  \/ task'[g] = task[g] \/ task'[g].pc # "reserve"
                 \/ task'[g].key \notin Records \/ task'[g].old = NoKey
      BY <3>0, <3>2, StartMoves, KeyAssumption DEF Moved
    <3>3. CASE UNCHANGED task
      BY <3>3
    <3>4. QED
      BY <3>1, <3>2, <3>3 DEF Next, vars, Lapse, ExpireStale
  <2>3. QED
    BY <2>1, <2>2 DEF Counted, At
<1>3. QED
  BY <1>1, <1>2, TypeInvariant, PTL DEF Spec

\* What is reserved or stored in time.
Held == {k \in Records : Items[k] \in {"HELD", "CHARGED"}}

LEMMA HeldIsFinite ==
  ASSUME TypeInv, Unique, Counted
  PROVE  /\ IsFiniteSet(Shown) /\ Shown \subseteq Keys
         /\ IsFiniteSet(Pending) /\ Pending \subseteq Keys
         /\ Held \subseteq Shown \cup Pending
<1>1. /\ TypeOK /\ Shown \subseteq Keys /\ Pending \subseteq Keys
      /\ Records \subseteq Keys
  BY KeysApart DEF Pending, Keys
<1>2. Shown \subseteq Used /\ Pending \subseteq Used
  BY <1>1 DEF Shown, Rows, Pending, Used, Unique, NeverAgain, Spent
<1>3. Held \subseteq Shown \cup Pending
  BY <1>1, ItemIs DEF Held, Shown, Rows, Pending
<1>4. QED
  BY <1>1, <1>2, <1>3, FS_Subset DEF Counted

\* A file is reserved only with room for it beside all the others.
LEMMA ReserveFile ==
  ASSUME TypeInv, TypeInv', Unique, Counted, NEW h \in Handlers, Reserve(h),
         task[h].key \in Records
  PROVE  /\ \A k \in Records :
               \/ Items'[k] = Items[k]
               \/ Items'[k] \in Account!Onward[Items[k]]
         /\ Bytes(Held') <= Limit
<1> DEFINE new == task[h].key
<1>1. /\ TypeOK /\ TypeOK' /\ new \in Keys /\ new \in Records
      /\ upload[new] = "NONE" /\ file' = file
      /\ upload' = [upload EXCEPT ![new] = "PENDING"]
  BY DEF TypeInv, Reserve, NewKey, Keys
<1>2. file[new] = "none"
  BY <1>1 DEF Unique, NeverAgain, Spent, TypeOK
<1>3. \A k \in Records \ {new} : upload'[k] = upload[k] /\ file'[k] = file[k]
  BY <1>1 DEF TypeOK, Keys
<1>4. upload'[new] = "PENDING" /\ file'[new] = "none"
  BY <1>1, <1>2 DEF TypeOK
<1>5. \A k \in Records : \/ Items'[k] = Items[k]
                        \/ Items'[k] \in Account!Onward[Items[k]]
  <2>1. \A k \in Records \ {new} : Items'[k] = Items[k]
    BY <1>3 DEF Items
  <2>2. Items[new] = "NEW" /\ Items'[new] = "HELD"
    BY <1>1, <1>2, <1>4, ItemIs, ItemBecomes
  <2>3. "HELD" \in Account!Onward["NEW"]
    BY DEF Account!Onward
  <2>4. QED
    BY <2>1, <2>2, <2>3
<1>6. Held' \subseteq (Shown \cup Pending) \cup {new}
  <2>1. \A k \in Records \ {new} : Items'[k] = Items[k]
    BY <1>3 DEF Items
  <2>2. QED
    BY <2>1, HeldIsFinite DEF Held
<1>7. Bytes(Shown) + Bytes(Pending) + Size[new] <= Limit
  BY <1>1 DEF Reserve, Room, Net, Counted
<1>8. /\ IsFiniteSet(Shown) /\ Shown \in SUBSET Keys
      /\ IsFiniteSet(Pending) /\ Pending \in SUBSET Keys
      /\ IsFiniteSet({new}) /\ {new} \in SUBSET Keys
  BY <1>1, HeldIsFinite, FS_Singleton
<1>9. /\ IsFiniteSet(Shown \cup Pending)
      /\ IsFiniteSet((Shown \cup Pending) \cup {new})
  BY <1>8, FS_Union
<1>10. Size \in [Keys -> Nat]
  BY SizeAssumption
<1>11. Sum(Size, {new}) = Size[new]
  <2>1. Sum(Size, {new}) = Size[new] + Sum(Size, {new} \ {new})
    BY <1>8, <1>10, SumTakesOut
  <2>2. {new} \ {new} = {} /\ Size[new] \in Nat
    BY <1>1, <1>10
  <2>3. QED
    BY <2>1, <2>2, SumOfNone
<1>12. /\ Sum(Size, Shown) \in Nat /\ Sum(Size, Pending) \in Nat
       /\ Sum(Size, Shown \cup Pending) \in Nat
       /\ Sum(Size, (Shown \cup Pending) \cup {new}) \in Nat
       /\ Size[new] \in Nat
  BY <1>1, <1>8, <1>9, <1>10, SumIsNat
<1>13. Sum(Size, Held') <= Sum(Size, (Shown \cup Pending) \cup {new})
  BY <1>6, <1>8, <1>9, <1>10, SumGrows
<1>14. Sum(Size, (Shown \cup Pending) \cup {new})
         <= Sum(Size, Shown \cup Pending) + Size[new]
  BY <1>8, <1>9, <1>10, <1>11, SumOfBoth
<1>15. Sum(Size, Shown \cup Pending) <= Sum(Size, Shown) + Sum(Size, Pending)
  BY <1>8, <1>10, SumOfBoth
<1>16. Sum(Size, Held') \in Nat
  <2>1. IsFiniteSet(Held') /\ Held' \in SUBSET Keys
    BY <1>6, <1>8, <1>9, FS_Subset
  <2>2. QED
    BY <1>10, <2>1, SumIsNat
<1>17. Bytes(Held') <= Limit
  <2>1. Sum(Size, Shown) + Sum(Size, Pending) + Size[new] <= Limit
    BY <1>7, BytesAreSum
  <2>2. Sum(Size, Held') <= Limit
    BY <1>12, <1>13, <1>14, <1>15, <1>16, <2>1, SizeAssumption
  <2>3. QED
    BY <2>2, BytesAreSum
<1>18. QED
  BY <1>5, <1>17

\* A step of the files is a step of the account.
LEMMA AccountStep ==
  ASSUME TypeInv, TypeInv', Unique, Counted, [Next]_vars
  PROVE  /\ Items' \in [Records -> Account!Phases]
         /\ \A k \in Records : \/ Items'[k] = Items[k]
                              \/ Items'[k] \in Account!Onward[Items[k]]
         /\ \/ Bytes(Held') <= Limit
            \/ \A k \in Records : Items'[k] = "HELD" => Items[k] = "HELD"
<1>1. TypeOK /\ TypeOK'
  BY DEF TypeInv
<1>2. Items' \in [Records -> Account!Phases]
  <2>1. \A k \in Records : Items'[k] \in Account!Phases
    BY <1>1, ItemBecomes
  <2>2. Items' = [k \in Records |-> Items'[k]]
    BY DEF Items
  <2>3. QED
    BY <2>1, <2>2
<1>3. CASE ~ \E h \in Handlers : Reserve(h)
  <2>1. \A k \in Records : \/ Items'[k] = Items[k]
                          \/ Items'[k] \in Account!Onward[Items[k]] \ {"HELD"}
    BY <1>1, <1>3, FilesChange, ChangedItem
  <2>2. QED
    BY <1>2, <2>1
<1>4. ASSUME NEW h \in Handlers, Reserve(h), task[h].key \notin Records
      PROVE  Items' = Items
  <2>1. \A k \in Records : upload'[k] = upload[k] /\ file'[k] = file[k]
    BY <1>1, <1>4 DEF Reserve, TypeOK, Keys
  <2>2. QED
    BY <2>1 DEF Items
<1>5. QED
  BY <1>2, <1>3, <1>4, ReserveFile

\* The job files of a workspace implement QuotaAccount: whatever fails,
\* expires, is sent again or is removed in between, a file is reserved only
\* with room for it, is charged only while its reservation lives, and what
\* was let go is never charged again.
THEOREM AccountRefinement == Spec => KeepsAccount
<1>1. Init => Account!Init
  BY DEF Init, Account!Init, Keys
<1>2. TypeInv /\ TypeInv' /\ Unique /\ Counted /\ [Next]_vars
        => [Account!Next]_Items
  <2> SUFFICES ASSUME TypeInv, TypeInv', Unique, Counted, [Next]_vars
               PROVE  Account!Next
    OBVIOUS
  <2>1. QED
    BY AccountStep DEF Account!Next, Account!On, Held, Items
<1>3. QED
  BY <1>1, <1>2, TypeInvariant, UniqueInvariant, CountedInvariant, PTL
     DEF Spec, KeepsAccount, Account!Spec, Items

\* Without room nothing is held that was not held before.
LEMMA HeldShrinks ==
  ASSUME TypeInv, TypeInv', Unique, Counted, [Next]_vars,
         ~ (Bytes(Held') <= Limit)
  PROVE  Held' \subseteq Held
<1> SUFFICES ASSUME NEW k \in Records, Items'[k] \in {"HELD", "CHARGED"}
             PROVE  Items[k] \in {"HELD", "CHARGED"}
  BY DEF Held
<1>1. /\ Items'[k] = Items[k] \/ Items'[k] \in Account!Onward[Items[k]]
      /\ Items'[k] = "HELD" => Items[k] = "HELD"
  BY AccountStep
<1>2. Items[k] \in Account!Phases
  BY ItemIs DEF TypeInv
<1>3. QED
  BY <1>1, <1>2 DEF Account!Onward, Account!Phases

\* The files stored within their reservation and the uploads that hold one
\* never take more bytes than the plan has.  A file stored after its
\* reservation expired is left out: nothing counts it when it is stored, and
\* with it the plan can be exceeded.
THEOREM WithinPlan == Spec => []Account!WithinLimit
<1> DEFINE Within == Bytes(Held) <= Limit
<1>1. Init => Within
  <2> SUFFICES ASSUME Init PROVE Within
    OBVIOUS
  <2>1. Held = {}
    BY DEF Init, Held, Items, Keys
  <2>2. Bytes({}) = 0
    BY BytesAreSum, SumOfNone
  <2>3. QED
    BY <2>1, <2>2, SizeAssumption
<1>2. TypeInv /\ TypeInv' /\ Unique /\ Counted /\ Within /\ [Next]_vars
        => Within'
  <2> SUFFICES ASSUME TypeInv, TypeInv', Unique, Counted, Within, [Next]_vars,
                      ~ Within'
               PROVE  FALSE
    OBVIOUS
  <2>1. Bytes(Held) <= Limit /\ ~ (Bytes(Held') <= Limit)
    OBVIOUS
  <2>2. Held' \subseteq Held
    BY <2>1, HeldShrinks
  <2>3. IsFiniteSet(Held) /\ Held \in SUBSET Keys
    <3>1. IsFiniteSet(Shown \cup Pending)
      BY HeldIsFinite, FS_Union
    <3>2. QED
      BY <3>1, HeldIsFinite, FS_Subset
  <2>4. /\ Sum(Size, Held') <= Sum(Size, Held)
        /\ Sum(Size, Held') \in Nat /\ Sum(Size, Held) \in Nat
    <3>1. IsFiniteSet(Held') /\ Held' \in SUBSET Keys
      BY <2>2, <2>3, FS_Subset
    <3>2. QED
      BY <2>2, <2>3, <3>1, SumGrows, SumIsNat, SizeAssumption
  <2>5. QED
    BY <2>1, <2>4, BytesAreSum, SizeAssumption
<1>3. Within <=> Account!WithinLimit
  BY DEF Account!WithinLimit, Account!On, Held, Items
<1> HIDE DEF Within
<1>4. QED
  BY <1>1, <1>2, <1>3, TypeInvariant, UniqueInvariant, CountedInvariant, PTL
     DEF Spec
=============================================================================
