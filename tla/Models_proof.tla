------------------------------ MODULE Models_proof ------------------------------
(***************************************************************************)
(* What TLAPS proves of Models, for any registry of models and any sizes,  *)
(* any budgets and any number of download tasks: its type invariant, that  *)
(* the budget is kept, that a download in flight is the work of one task,  *)
(* that a run takes its reservation with it, and that a route's model is   *)
(* left alone.  The first part is about sums: Pool is a SumFunction, which *)
(* is defined by recursion.                                                *)
(***************************************************************************)
EXTENDS Models, FiniteSetTheorems, NaturalsInduction, WellFoundedInduction, TLAPS

(***************************************************************************)
(* A non-empty set of naturals has a least member.                         *)
(***************************************************************************)
LEMMA LeastIs ==
  ASSUME NEW S \in SUBSET Nat, S # {}
  PROVE  \E v \in S : \A w \in S : v <= w
<1> DEFINE R == OpToRel(<, Nat)
<1>1. \A x, y \in Nat : <<x, y>> \in R <=> x < y
  BY DEF OpToRel
<1>2. IsWellFoundedOn(R, Nat)
  BY NatLessThanWellFounded
<1> HIDE DEF R
<1>3. PICK x \in S : \A y \in S : ~ (<<y, x>> \in R)
  BY <1>2, WFMin
<1>4. \A y \in S : ~(y < x) /\ y \in Nat /\ x \in Nat
  BY <1>1, <1>3
<1> QED BY <1>4

(***************************************************************************)
(* Among some subsets of a finite set there is one that is no longer among *)
(* them when an element of it is removed.                                  *)
(***************************************************************************)
LEMMA SmallestIs ==
  ASSUME NEW D, IsFiniteSet(D), NEW B \in SUBSET (SUBSET D), B # {}
  PROVE  \E s \in B : \A x \in s : s \ {x} \notin B
<1> DEFINE sizes == {Cardinality(s) : s \in B}
<1>1. \A s \in SUBSET D : IsFiniteSet(s) /\ Cardinality(s) \in Nat
  BY FS_Subset, FS_CardinalityType
<1>2. sizes \in SUBSET Nat /\ sizes # {}
  BY <1>1
<1>3. PICK n \in sizes : \A w \in sizes : n <= w
  <2> HIDE DEF sizes
  <2> QED BY <1>2, LeastIs
<1>4. PICK s \in B : Cardinality(s) = n
  BY <1>3
<1>5. ASSUME NEW x \in s PROVE s \ {x} \notin B
  <2>1. Cardinality(s \ {x}) = n - 1 /\ n \in Nat
    BY <1>1, <1>4, FS_RemoveElement
  <2>2. s \ {x} \in B => n <= Cardinality(s \ {x})
    BY <1>3
  <2> HIDE DEF sizes
  <2> QED BY <2>1, <2>2
<1> QED BY <1>5

(***************************************************************************)
(* SumFunction goes over the domain picking an element at a time; Iter is  *)
(* the function it is defined by, from the parts of the domain.            *)
(***************************************************************************)
Pick(s) == CHOOSE y \in s : TRUE

Iter(f) ==
  CHOOSE iter : iter = [s \in SUBSET DOMAIN f |->
                          IF s = {} THEN 0 ELSE f[Pick(s)] + iter[s \ {Pick(s)}]]

\* SumFunction by its definition in the library.
LEMMA SumIsIter ==
  ASSUME NEW f
  PROVE  SumFunction(f) = Iter(f)[DOMAIN f]
BY DEF SumFunction, SumFunctionOnSet, FoldFunctionOnSet, MapThenFoldSet, Iter, Pick

\* Pick picks.
LEMMA PickIs ==
  ASSUME NEW s, s # {}
  PROVE  Pick(s) \in s
BY DEF Pick

\* What defines Iter(f) for an f over D, and what it then does.
Iterates(g, f, D) ==
  \A s \in SUBSET D : g[s] = IF s = {} THEN 0 ELSE f[Pick(s)] + g[s \ {Pick(s)}]

Sums(g, f, D) ==
  /\ g \in [SUBSET D -> Nat]
  /\ g[{}] = 0
  /\ \A s \in SUBSET D : \A x \in s : g[s] = f[x] + g[s \ {x}]

\* The recursion has a solution, although CHOOSE takes any: it is built up by
\* the size of the sets.
LEMMA IterExists ==
  ASSUME NEW D, IsFiniteSet(D), NEW f \in [D -> Nat]
  PROVE  \E g \in [SUBSET D -> Nat] : Iterates(g, f, D)
<1> DEFINE Obeys(g, s) == g[s] = IF s = {} THEN 0 ELSE f[Pick(s)] + g[s \ {Pick(s)}]
           UpTo(n) == \E g \in [SUBSET D -> Nat] :
                        \A s \in SUBSET D : Cardinality(s) <= n => Obeys(g, s)
           bad == {n \in Nat : ~UpTo(n)}
<1>1. \A s \in SUBSET D : IsFiniteSet(s) /\ Cardinality(s) \in Nat /\ Cardinality(s) <= Cardinality(D)
  BY FS_Subset, FS_CardinalityType
<1>2. UpTo(0)
  <2>1. [s \in SUBSET D |-> 0] \in [SUBSET D -> Nat]
    OBVIOUS
  <2>2. ASSUME NEW s \in SUBSET D, Cardinality(s) <= 0 PROVE s = {}
    BY <1>1, <2>2, FS_EmptySet
  <2> QED BY <2>1, <2>2
<1>3. ASSUME NEW n \in Nat, UpTo(n) PROVE UpTo(n + 1)
  <2>1. PICK g \in [SUBSET D -> Nat] : \A s \in SUBSET D : Cardinality(s) <= n => Obeys(g, s)
    BY <1>3
  <2> DEFINE h == [s \in SUBSET D |-> IF s = {} THEN 0 ELSE f[Pick(s)] + g[s \ {Pick(s)}]]
  <2>2. ASSUME NEW s \in SUBSET D, s # {}
        PROVE  Pick(s) \in D /\ s \ {Pick(s)} \in SUBSET D
                 /\ Cardinality(s \ {Pick(s)}) = Cardinality(s) - 1
    BY <1>1, <2>2, PickIs, FS_RemoveElement
  <2>3. h \in [SUBSET D -> Nat]
    <3>1. ASSUME NEW s \in SUBSET D PROVE h[s] \in Nat
      BY <2>2
    <3> QED BY <3>1
  <2>4. ASSUME NEW s \in SUBSET D, Cardinality(s) <= n PROVE h[s] = g[s]
    BY <2>1, <2>4
  <2>5. ASSUME NEW s \in SUBSET D, Cardinality(s) <= n + 1 PROVE Obeys(h, s)
    <3>1. CASE s = {}
      BY <3>1
    <3>2. CASE s # {}
      <4>1. Cardinality(s \ {Pick(s)}) <= n
        BY <1>1, <2>2, <2>5, <3>2
      <4>2. h[s \ {Pick(s)}] = g[s \ {Pick(s)}]
        BY <2>2, <2>4, <3>2, <4>1
      <4>3. h[s] = f[Pick(s)] + g[s \ {Pick(s)}]
        BY <3>2
      <4> HIDE DEF h
      <4> QED BY <3>2, <4>2, <4>3
    <3> QED BY <3>1, <3>2
  <2> HIDE DEF h, Obeys
  <2> QED BY <2>3, <2>5
<1>4. UpTo(Cardinality(D))
  <2> HIDE DEF UpTo
  <2> SUFFICES ASSUME ~UpTo(Cardinality(D)) PROVE FALSE
    OBVIOUS
  <2>1. bad \in SUBSET Nat /\ bad # {}
    BY FS_CardinalityType
  <2>2. PICK m \in bad : \A k \in bad : m <= k
    BY <2>1, LeastIs
  <2>3. m \in Nat /\ m # 0 /\ ~UpTo(m)
    BY <1>2, <2>2
  <2>4. m - 1 \in Nat /\ m - 1 \notin bad
    BY <2>2, <2>3
  <2>5. UpTo((m - 1) + 1)
    BY <1>3, <2>4
  <2> QED BY <2>3, <2>5
<1> QED BY <1>1, <1>4 DEF Iterates

\* So Iter(f) obeys it, and whichever element is taken away first, it is the
\* same sum.
LEMMA IterIs ==
  ASSUME NEW D, IsFiniteSet(D), NEW f \in [D -> Nat]
  PROVE  Sums(Iter(f), f, D)
<1> DEFINE it == Iter(f)
           bad == {s \in SUBSET D : \E x \in s : it[s] # f[x] + it[s \ {x}]}
<1>0. DOMAIN f = D
  OBVIOUS
<1>1. \E g : g = [s \in SUBSET D |-> IF s = {} THEN 0 ELSE f[Pick(s)] + g[s \ {Pick(s)}]]
  <2>1. PICK g \in [SUBSET D -> Nat] : Iterates(g, f, D)
    BY IterExists
  <2>2. g = [s \in SUBSET D |-> IF s = {} THEN 0 ELSE f[Pick(s)] + g[s \ {Pick(s)}]]
    BY <2>1 DEF Iterates
  <2> QED BY <2>2
<1>2. it = [s \in SUBSET D |-> IF s = {} THEN 0 ELSE f[Pick(s)] + it[s \ {Pick(s)}]]
  BY <1>0, <1>1 DEF Iter
<1> HIDE DEF it
<1>3. ASSUME NEW s \in SUBSET D
      PROVE  it[s] = IF s = {} THEN 0 ELSE f[Pick(s)] + it[s \ {Pick(s)}]
  BY <1>2
<1>4. it \in [SUBSET D -> Nat]
  <2> DEFINE odd == {s \in SUBSET D : it[s] \notin Nat}
  <2> SUFFICES odd = {}
    BY <1>2
  <2> SUFFICES ASSUME odd # {} PROVE FALSE
    OBVIOUS
  <2>1. PICK s \in odd : \A x \in s : s \ {x} \notin odd
    BY SmallestIs
  <2>2. CASE s = {}
    <3>1. it[{}] = 0 /\ it[s] \notin Nat
      BY <1>3
    <3> QED BY <2>2, <3>1
  <2>3. CASE s # {}
    <3>1. Pick(s) \in s /\ s \in SUBSET D
      BY <2>3, PickIs
    <3>2. f[Pick(s)] \in Nat
      BY <3>1
    <3>3. it[s \ {Pick(s)}] \in Nat
      BY <2>1, <3>1
    <3>4. it[s] = f[Pick(s)] + it[s \ {Pick(s)}]
      BY <1>3, <2>3, <3>1
    <3>5. it[s] \notin Nat
      OBVIOUS
    <3> QED BY <3>2, <3>3, <3>4, <3>5
  <2> QED BY <2>2, <2>3
<1>5. bad = {}
  <2> SUFFICES ASSUME bad # {} PROVE FALSE
    OBVIOUS
  <2>1. PICK s \in bad : \A x \in s : s \ {x} \notin bad
    <3> HIDE DEF bad
    <3>1. bad \in SUBSET (SUBSET D)
      BY DEF bad
    <3> QED BY <3>1, SmallestIs
  <2>2. PICK x \in s : it[s] # f[x] + it[s \ {x}]
    BY <2>1
  <2> DEFINE y == Pick(s)
  <2>3. s \in SUBSET D /\ y \in s
    BY <2>1, <2>2, PickIs
  <2>4. it[s] = f[y] + it[s \ {y}]
    BY <1>3, <2>2, <2>3
  <2>5. x # y
    BY <2>2, <2>4
  <2> HIDE DEF y
  <2>6. \A t \in SUBSET D : t \notin bad => \A u \in t : it[t] = f[u] + it[t \ {u}]
    OBVIOUS
  <2>7. it[s \ {y}] = f[x] + it[(s \ {y}) \ {x}]
    <3>1. s \ {y} \in SUBSET D /\ s \ {y} \notin bad /\ x \in s \ {y}
      BY <2>1, <2>2, <2>3, <2>5
    <3> HIDE DEF bad
    <3> QED BY <2>6, <3>1
  <2>8. it[s \ {x}] = f[y] + it[(s \ {x}) \ {y}]
    <3>1. s \ {x} \in SUBSET D /\ s \ {x} \notin bad /\ y \in s \ {x}
      BY <2>1, <2>2, <2>3, <2>5
    <3> HIDE DEF bad
    <3> QED BY <2>6, <3>1
  <2>9. (s \ {x}) \ {y} = (s \ {y}) \ {x}
    OBVIOUS
  <2>10. f[x] \in Nat /\ f[y] \in Nat /\ it[(s \ {y}) \ {x}] \in Nat
    BY <1>4, <2>2, <2>3
  <2> DEFINE r == it[(s \ {y}) \ {x}]
             a == f[x]
             b == f[y]
  <2>11. it[s] = b + (a + r)
    BY <2>4, <2>7
  <2>12. it[s \ {x}] = b + r
    BY <2>8, <2>9
  <2>13. a \in Nat /\ b \in Nat /\ r \in Nat
    BY <2>10
  <2>14. it[s] # a + it[s \ {x}]
    BY <2>2
  <2> HIDE DEF bad, r, a, b
  <2> QED BY <2>11, <2>12, <2>13, <2>14
<1>6. it[{}] = 0
  BY <1>3
<1>7. \A s \in SUBSET D : \A x \in s : it[s] = f[x] + it[s \ {x}]
  BY <1>5
<1> QED BY <1>4, <1>6, <1>7 DEF it, Sums

\* It depends only on the arguments that are summed.
LEMMA SameIter ==
  ASSUME NEW D, IsFiniteSet(D), NEW f \in [D -> Nat],
         NEW E, IsFiniteSet(E), NEW g \in [E -> Nat],
         NEW s \in SUBSET (D \cap E), \A x \in s : f[x] = g[x]
  PROVE  Iter(f)[s] = Iter(g)[s]
<1> DEFINE bad == {t \in SUBSET s : Iter(f)[t] # Iter(g)[t]}
<1> SUFFICES ASSUME bad # {} PROVE FALSE
  OBVIOUS
<1>1. IsFiniteSet(s)
  BY FS_Subset
<1>2. PICK t \in bad : \A x \in t : t \ {x} \notin bad
  BY <1>1, SmallestIs
<1>3. t \in SUBSET s /\ Iter(f)[t] # Iter(g)[t]
  BY <1>2
<1>t. t \in SUBSET D /\ t \in SUBSET E
  BY <1>3
<1>4. t # {}
  BY <1>3, IterIs DEF Sums
<1>5. PICK x \in t : TRUE
  BY <1>4
<1>6. Iter(f)[t] = f[x] + Iter(f)[t \ {x}]
  <2>1. Sums(Iter(f), f, D)
    BY IterIs
  <2> QED BY <1>t, <1>5, <2>1 DEF Sums
<1>7. Iter(g)[t] = g[x] + Iter(g)[t \ {x}]
  <2>1. Sums(Iter(g), g, E)
    BY IterIs
  <2> QED BY <1>t, <1>5, <2>1 DEF Sums
<1>8. Iter(f)[t \ {x}] = Iter(g)[t \ {x}]
  BY <1>2, <1>3, <1>5
<1> QED BY <1>3, <1>5, <1>6, <1>7, <1>8

\* SumFunction(f) is the contribution of c and the rest.
Splits(f, D, c) ==
  /\ Iter(f)[D \ {c}] \in Nat
  /\ SumFunction(f) = IF c \in D THEN f[c] + Iter(f)[D \ {c}] ELSE Iter(f)[D \ {c}]

(***************************************************************************)
(* A sum is what an argument contributes, and the rest.                    *)
(***************************************************************************)
LEMMA SumIs ==
  ASSUME NEW D, IsFiniteSet(D), NEW f \in [D -> Nat], NEW c
  PROVE  Splits(f, D, c)
<1>1. DOMAIN f = D /\ D \in SUBSET D /\ D \ {c} \in SUBSET D
  OBVIOUS
<1>2. c \notin D => D \ {c} = D
  OBVIOUS
<1>3. Sums(Iter(f), f, D)
  BY IterIs
<1>4. SumFunction(f) = Iter(f)[D]
  BY <1>1, SumIsIter
<1> QED BY <1>1, <1>2, <1>3, <1>4 DEF Sums, Splits

(***************************************************************************)
(* Two sums over functions that differ at one argument at most: what is    *)
(* left without that argument is the same number.                          *)
(***************************************************************************)
LEMMA SumsDifferInOne ==
  ASSUME NEW D, IsFiniteSet(D), NEW f \in [D -> Nat],
         NEW E, IsFiniteSet(E), NEW g \in [E -> Nat],
         NEW c, D \ {c} = E \ {c}, \A x \in D \ {c} : f[x] = g[x]
  PROVE  \E rest \in Nat :
           /\ SumFunction(f) = IF c \in D THEN f[c] + rest ELSE rest
           /\ SumFunction(g) = IF c \in E THEN g[c] + rest ELSE rest
<1>1. D \ {c} \in SUBSET (D \cap E)
  OBVIOUS
<1>2. Iter(f)[D \ {c}] = Iter(g)[D \ {c}]
  <2>1. \A x \in D \ {c} : f[x] = g[x]
    OBVIOUS
  <2> QED BY <1>1, <2>1, SameIter
<1>3. Splits(f, D, c)
  BY SumIs
<1>4. Splits(g, E, c)
  BY SumIs
<1> QED BY <1>2, <1>3, <1>4 DEF Splits

\* What is admitted against a rounded sum exceeds the budget by less than the
\* rounding.
LEMMA AdmittedIs ==
  ASSUME NEW used \in Nat, NEW whole \in Nat, NEW budget \in Nat, NEW size \in Nat,
         NEW pool \in Nat, NEW mb \in Nat, NEW rest \in Nat,
         used < whole + mb, ~(whole + size > budget), rest <= pool, pool <= used
  PROVE  size + rest < budget + mb
OBVIOUS

\* A sum of two naturals.
LEMMA PlusIs ==
  ASSUME NEW m \in Nat, NEW n \in Nat
  PROVE  m + n \in Nat /\ n <= m + n
OBVIOUS

USE ModelsAssumption

(***************************************************************************)
(* What a load that is admitted was checked against.                       *)
(***************************************************************************)
Admitted(id) ==
  \E v \in Vram : ~Over(id, v) /\ limit' = IF v.probe = "pools" THEN {v.budget} ELSE {}

\* A load reserves what was admitted.
LEMMA LoadIs ==
  ASSUME NEW id \in Ids, NEW by, Load(id, by)
  PROVE  Reserve(id, by) /\ Admitted(id) /\ limit' \subseteq Budgets
BY DEF Load, Admitted, Vram

(***************************************************************************)
(* The types.  What Reserve and Unload do to the reservations:             *)
(***************************************************************************)
LEMMA ReserveIs ==
  ASSUME ReservedType, NEW id \in Ids, NEW by \in {"run", "failed run", "route"},
         Reserve(id, by)
  PROVE  /\ ReservedType'
         /\ CategoryOf[id] \in Categories
         /\ reserved'[CategoryOf[id]] = [id |-> id, by |-> by]
         /\ \A c \in Categories \ {CategoryOf[id]} : reserved'[c] = reserved[c]
<1> DEFINE new == [id |-> id, by |-> by]
<1>1. new \in [id : Ids, by : {"run", "failed run", "route"}] /\ new.id = id
  OBVIOUS
<1>2. CategoryOf[id] \in Categories
  OBVIOUS
<1>3. reserved' = [reserved EXCEPT ![CategoryOf[id]] = new]
  BY DEF Reserve
<1> HIDE DEF new
<1>4. /\ reserved'[CategoryOf[id]] = new
      /\ \A c \in Categories \ {CategoryOf[id]} : reserved'[c] = reserved[c]
  BY <1>2, <1>3 DEF ReservedType
<1>5. ReservedType'
  BY <1>1, <1>2, <1>3, <1>4 DEF ReservedType
<1> QED BY <1>2, <1>4, <1>5 DEF new

\* An unload clears its category and leaves the others.
LEMMA UnloadIs ==
  ASSUME ReservedType, NEW c \in Categories, Unload(c)
  PROVE  /\ ReservedType'
         /\ reserved'[c] = None
         /\ \A d \in Categories \ {c} : reserved'[d] = reserved[d]
BY DEF ReservedType, Unload

\* The end of the process clears everything in memory.
LEMMA ForgottenIs ==
  ASSUME Forget
  PROVE  /\ ReservedType' /\ RunType' /\ TaskType'
         /\ phase' = "down" /\ xet' \in BOOLEAN /\ progress' \in [Ids -> States]
         /\ limit' = {} /\ run' = Idle /\ \A c \in Categories : reserved'[c] = None
<1>1. ReservedType' /\ \A c \in Categories : reserved'[c] = None
  BY DEF Forget, ReservedType
<1>2. RunType'
  BY DEF Forget, RunType, Idle
<1>3. NoTask \in [pc : {"none", "created", "fetching"}, id : Ids \cup {NoId}, prev : BOOLEAN]
  BY DEF NoTask
<1>4. TaskType'
  BY <1>3 DEF Forget, TaskType
<1> QED BY <1>1, <1>2, <1>4 DEF Forget, States

(***************************************************************************)
(* A record of a task, and what a task's slot becomes.                     *)
(***************************************************************************)
LEMMA FetchIs ==
  ASSUME TaskType, xet \in BOOLEAN, NEW s \in Slots, NEW id \in Ids \cup {NoId}, Fetch(s, id)
  PROVE  /\ TaskType' /\ xet' \in BOOLEAN
         /\ task'[s].id = id
         /\ \A t \in Slots \ {s} : task'[t] = task[t]
<1> DEFINE new == [pc |-> "fetching", id |-> id, prev |-> xet]
<1>1. new \in [pc : {"none", "created", "fetching"}, id : Ids \cup {NoId}, prev : BOOLEAN]
        /\ new.id = id
  OBVIOUS
<1>2. task' = [task EXCEPT ![s] = new] /\ xet' = TRUE
  BY DEF Fetch
<1> HIDE DEF new
<1> QED BY <1>1, <1>2 DEF TaskType

\* A slot that is left is free.
LEMMA LeaveIs ==
  ASSUME TaskType, NEW s \in Slots, Leave(s)
  PROVE  /\ TaskType' /\ xet' \in BOOLEAN
         /\ task'[s].id = NoId
         /\ \A t \in Slots \ {s} : task'[t] = task[t]
<1>1. NoTask \in [pc : {"none", "created", "fetching"}, id : Ids \cup {NoId}, prev : BOOLEAN]
        /\ NoTask.id = NoId
  BY DEF NoTask
<1>2. task' = [task EXCEPT ![s] = NoTask] /\ xet' = task[s].prev
  BY DEF Leave
<1>3. task[s].prev \in BOOLEAN
  BY DEF TaskType
<1> QED BY <1>1, <1>2, <1>3 DEF TaskType

\* A new task has the id it was created for.
LEMMA CreateIs ==
  ASSUME TaskType, NEW s \in Slots, NEW id \in Ids,
         task' = [task EXCEPT ![s] = [pc |-> "created", id |-> id, prev |-> FALSE]]
  PROVE  /\ TaskType'
         /\ task'[s].id = id
         /\ \A t \in Slots \ {s} : task'[t] = task[t]
<1> DEFINE new == [pc |-> "created", id |-> id, prev |-> FALSE]
<1>1. new \in [pc : {"none", "created", "fetching"}, id : Ids \cup {NoId}, prev : BOOLEAN]
        /\ new.id = id
  OBVIOUS
<1>2. task' = [task EXCEPT ![s] = new]
  OBVIOUS
<1> HIDE DEF new
<1> QED BY <1>1, <1>2 DEF TaskType

(***************************************************************************)
(* The load of a job: it takes the reservation or leaves all as it is.     *)
(***************************************************************************)
LEMMA LoadAdapterIs ==
  ASSUME ReservedType, limit \subseteq Budgets, thread \in BOOLEAN, LoadAdapter
  PROVE  /\ ReservedType' /\ RunType' /\ thread' \in BOOLEAN /\ limit' \subseteq Budgets
         /\ \/ ~run'.loaded /\ UNCHANGED <<reserved, limit>>
            \/ ~run'.loaded /\ Reserve(JobId, "failed run") /\ Admitted(JobId)
            \/ run'.loaded /\ Reserve(JobId, "run") /\ Admitted(JobId)
         /\ run'.pc \in {"transcribing", "finally"}
<1> DEFINE gone == [pc |-> "finally", loaded |-> FALSE]
           busy == [pc |-> "transcribing", loaded |-> TRUE]
<1>1. /\ gone \in [pc : {"idle", "ensure", "transcribing", "finally"}, loaded : BOOLEAN]
      /\ busy \in [pc : {"idle", "ensure", "transcribing", "finally"}, loaded : BOOLEAN]
      /\ gone.pc = "finally" /\ ~gone.loaded /\ busy.pc = "transcribing" /\ busy.loaded
  OBVIOUS
<1>2. JobId \in Ids
  OBVIOUS
<1>3. \/ run' = gone /\ UNCHANGED <<reserved, limit, thread>>
      \/ run' = busy /\ Load(JobId, "run") /\ thread' = TRUE
      \/ run' = gone /\ Load(JobId, "failed run") /\ UNCHANGED thread
  BY DEF LoadAdapter
<1> HIDE DEF gone, busy
<1>4. CASE run' = gone /\ UNCHANGED <<reserved, limit, thread>>
  BY <1>1, <1>4 DEF ReservedType, RunType
<1>5. CASE run' = busy /\ Load(JobId, "run") /\ thread' = TRUE
  <2>1. Reserve(JobId, "run") /\ Admitted(JobId) /\ limit' \subseteq Budgets
    BY <1>2, <1>5, LoadIs
  <2> QED BY <1>1, <1>2, <1>5, <2>1, ReserveIs DEF RunType
<1>6. CASE run' = gone /\ Load(JobId, "failed run") /\ UNCHANGED thread
  <2>1. Reserve(JobId, "failed run") /\ Admitted(JobId) /\ limit' \subseteq Budgets
    BY <1>2, <1>6, LoadIs
  <2> QED BY <1>1, <1>2, <1>6, <2>1, ReserveIs DEF RunType
<1> QED BY <1>3, <1>4, <1>5, <1>6

(***************************************************************************)
(* TypeOK is inductive by itself: one step per action.                     *)
(***************************************************************************)
LEMMA TypeStep ==
  TypeOK /\ [Next]_vars => TypeOK'
<1> SUFFICES ASSUME TypeOK, [Next]_vars PROVE TypeOK'
  OBVIOUS
<1>0. /\ ReservedType /\ RunType /\ TaskType
      /\ phase \in {"up", "stopping", "down"} /\ concurrent \in BOOLEAN /\ thread \in BOOLEAN
      /\ limit \subseteq Budgets
      /\ progress \in [Ids -> States] /\ files \in [Ids -> SUBSET {"config", "weights"}]
      /\ (\A id \in Ids : files[id] \subseteq Parts(id)) /\ xet \in BOOLEAN
  BY DEF TypeOK
<1>f. /\ UNCHANGED reserved => ReservedType'
      /\ UNCHANGED run => RunType'
      /\ UNCHANGED task => TaskType'
      /\ UNCHANGED files => \A id \in Ids : files'[id] \subseteq Parts(id)
  BY <1>0 DEF ReservedType, RunType, TaskType
<1> DEFINE RunRecord == [pc : {"idle", "ensure", "transcribing", "finally"}, loaded : BOOLEAN]
<1>g. /\ \A pc \in {"ensure", "finally"} : [pc |-> pc, loaded |-> FALSE] \in RunRecord
      /\ Idle \in RunRecord
      /\ [run EXCEPT !.pc = "finally"] \in RunRecord
  BY <1>0 DEF Idle, RunType
<1>s. \A t \in Tasks \cup {JobSlot} : t \in Slots
  BY DEF Slots
<1>i. \A t \in Slots : task[t].id \in Ids \cup {NoId}
  BY <1>0 DEF TaskType
<1>p. \A id \in Ids \cup {NoId}, st \in {"queued", "running", "done", "failed"} :
        [progress EXCEPT ![id] = st] \in [Ids -> States]
  BY <1>0 DEF States
<1> USE <1>0, <1>f
<1>1. ASSUME NEW id \in Ids, PostDownload(id) PROVE TypeOK'
  <2>1. PICK t \in Tasks :
          task' = [task EXCEPT ![t] = [pc |-> "created", id |-> id, prev |-> FALSE]]
    BY <1>1 DEF PostDownload
  <2>2. TaskType'
    BY <1>s, <2>1, CreateIs
  <2> QED BY <1>1, <1>p, <2>2 DEF PostDownload, TypeOK
<1>2. ASSUME NEW t \in Tasks, DownloadStart(t) PROVE TypeOK'
  <2>1. CASE Cached(task[t].id)
    <3>1. TaskType'
      <4>1. NoTask \in [pc : {"none", "created", "fetching"}, id : Ids \cup {NoId},
                        prev : BOOLEAN]
        BY DEF NoTask
      <4> QED BY <1>2, <1>s, <2>1, <4>1 DEF DownloadStart, TaskType
    <3> QED BY <1>2, <1>p, <1>s, <1>i, <2>1, <3>1 DEF DownloadStart, TypeOK
  <2>2. CASE ~Cached(task[t].id)
    <3>1. TaskType' /\ xet' \in BOOLEAN
      BY <1>2, <1>s, <1>i, <2>2, FetchIs DEF DownloadStart
    <3> QED BY <1>2, <1>p, <1>s, <1>i, <2>2, <3>1 DEF DownloadStart, TypeOK
  <2> QED BY <2>1, <2>2
<1>3. ASSUME NEW t \in Tasks, DownloadDone(t) \/ DownloadFailed(t) PROVE TypeOK'
  <2>1. TaskType' /\ xet' \in BOOLEAN
    BY <1>3, <1>s, LeaveIs DEF DownloadDone, DownloadFailed
  <2> QED BY <1>3, <1>p, <1>s, <1>i, <2>1 DEF DownloadDone, DownloadFailed, TypeOK
<1>4. ASSUME NEW s \in Slots, FetchFile(s) PROVE TypeOK'
  <2> DEFINE id == task[s].id
  <2>1. PICK part \in Parts(id) \ files[id] : files' = [files EXCEPT ![id] = @ \cup {part}]
    BY <1>4 DEF FetchFile
  <2>2. part \in {"config", "weights"}
    BY DEF Parts
  <2> HIDE DEF id
  <2>3. /\ files' \in [Ids -> SUBSET {"config", "weights"}]
        /\ \A k \in Ids : files'[k] \subseteq Parts(k)
    BY <2>1, <2>2
  <2> QED BY <1>4, <2>3 DEF FetchFile, TypeOK
<1>5. ASSUME NEW id \in Ids, PostLoad(id) PROVE TypeOK'
  <2>1. Reserve(id, "route") /\ limit' \subseteq Budgets
    BY <1>5, LoadIs DEF PostLoad
  <2> QED BY <1>5, <2>1, ReserveIs DEF PostLoad, TypeOK
<1>6. ASSUME NEW c \in Categories, PostUnload(c) PROVE TypeOK'
  BY <1>6, UnloadIs DEF PostUnload, TypeOK
<1>7. ASSUME PatchConcurrent PROVE TypeOK'
  BY <1>7 DEF PatchConcurrent, TypeOK
<1>8. ASSUME RunStart PROVE TypeOK'
  <2>1. CASE Cached(JobId)
    <3>1. ReservedType' /\ RunType' /\ thread' \in BOOLEAN /\ limit' \subseteq Budgets
      BY <1>8, <2>1, LoadAdapterIs DEF RunStart
    <3> QED BY <1>8, <2>1, <3>1 DEF RunStart, TypeOK
  <2>2. CASE ~Cached(JobId)
    <3>1. TaskType' /\ xet' \in BOOLEAN
      BY <1>8, <1>s, <2>2, FetchIs DEF RunStart
    <3>2. RunType'
      BY <1>8, <1>g, <2>2 DEF RunStart, RunType
    <3> QED BY <1>8, <2>2, <3>1, <3>2 DEF RunStart, TypeOK
  <2> QED BY <2>1, <2>2
<1>9. ASSUME RunFetched PROVE TypeOK'
  <2>1. ReservedType' /\ RunType' /\ thread' \in BOOLEAN /\ limit' \subseteq Budgets
    BY <1>9, LoadAdapterIs DEF RunFetched
  <2>2. TaskType' /\ xet' \in BOOLEAN
    BY <1>9, <1>s, LeaveIs DEF RunFetched
  <2> QED BY <1>9, <2>1, <2>2 DEF RunFetched, TypeOK
<1>10. ASSUME RunFetchFailed PROVE TypeOK'
  <2>1. TaskType' /\ xet' \in BOOLEAN
    BY <1>10, <1>s, LeaveIs DEF RunFetchFailed
  <2>2. RunType'
    BY <1>10, <1>g DEF RunFetchFailed, RunType
  <2> QED BY <1>10, <2>1, <2>2 DEF RunFetchFailed, TypeOK
<1>11. ASSUME ThreadEnds PROVE TypeOK'
  <2>1. RunType'
    BY <1>11, <1>g DEF ThreadEnds, RunType
  <2> QED BY <1>11, <2>1 DEF ThreadEnds, TypeOK
<1>12. ASSUME RunFinally PROVE TypeOK'
  <2>1. RunType'
    BY <1>12, <1>g DEF RunFinally, RunType
  <2>2. Stt \in Categories
    BY DEF Stt
  <2>3. ReservedType'
    BY <1>12, <2>2, UnloadIs DEF RunFinally
  <2> QED BY <1>12, <2>1, <2>3 DEF RunFinally, TypeOK
<1>13. ASSUME StopWorker PROVE TypeOK'
  <2>1. RunType'
    BY <1>13, <1>g DEF StopWorker, RunType
  <2>2. Stt \in Categories
    BY DEF Stt
  <2>3. ReservedType'
    BY <1>13, <2>2, UnloadIs DEF StopWorker
  <2>4. TaskType' /\ xet' \in BOOLEAN
    BY <1>13, <1>s, LeaveIs DEF StopWorker
  <2> QED BY <1>13, <2>1, <2>3, <2>4 DEF StopWorker, TypeOK
<1>14. ASSUME UnloadAll \/ Crash PROVE TypeOK'
  <2>1. Forget /\ thread' \in BOOLEAN /\ UNCHANGED <<concurrent, files>>
    BY <1>14 DEF UnloadAll, Crash
  <2> QED BY <2>1, ForgottenIs DEF TypeOK
<1>15. ASSUME Boot PROVE TypeOK'
  BY <1>15 DEF Boot, TypeOK
<1>16. CASE UNCHANGED vars
  BY <1>16 DEF vars, TypeOK
<1> QED BY <1>1, <1>2, <1>3, <1>4, <1>5, <1>6, <1>7, <1>8, <1>9, <1>10, <1>11, <1>12,
     <1>13, <1>14, <1>15, <1>16 DEF Next, DownloadStep

\* The start has the types.
LEMMA TypeInit ==
  Init => TypeOK
<1> SUFFICES ASSUME Init PROVE TypeOK
  OBVIOUS
<1>1. ReservedType
  BY DEF Init, ReservedType
<1>2. RunType
  BY DEF Init, RunType, Idle
<1>3. NoTask \in [pc : {"none", "created", "fetching"}, id : Ids \cup {NoId}, prev : BOOLEAN]
  BY DEF NoTask
<1>4. TaskType
  BY <1>3 DEF Init, TaskType
<1> QED BY <1>1, <1>2, <1>4 DEF Init, TypeOK, States

(***************************************************************************)
(* The reservations, the run, the tasks and the folders always have the    *)
(* types of the code's records, for any registry.                          *)
(***************************************************************************)
THEOREM ModelsTypeCorrect ==
  Spec => []TypeOK
BY TypeInit, TypeStep, PTL DEF Spec

(***************************************************************************)
(* One task per download.  It is the tasks at work on an id that are       *)
(* inductive: one, if the id is in flight, and none otherwise.             *)
(***************************************************************************)
TasksOf(id) == {t \in Tasks : task[t].id = id}

TasksAreOwn ==
  \A id \in Ids : IF progress[id] \in InFlight THEN \E t \in Tasks : TasksOf(id) = {t}
                                               ELSE TasksOf(id) = {}

\* A task that ends, or that starts, leaves the tasks of other ids alone.
LEMMA TasksStep ==
  TypeOK /\ TasksAreOwn /\ [Next]_vars => TasksAreOwn'
<1> SUFFICES ASSUME TypeOK, TasksAreOwn, [Next]_vars PROVE TasksAreOwn'
  OBVIOUS
<1>0. /\ ReservedType /\ RunType /\ TaskType /\ thread \in BOOLEAN
      /\ progress \in [Ids -> States] /\ xet \in BOOLEAN
  BY DEF TypeOK
<1>s. (\A t \in Tasks : t \in Slots /\ t # JobSlot) /\ JobSlot \in Slots
  BY DEF Slots
<1>i. \A t \in Slots : task[t].id \in Ids \cup {NoId}
  BY <1>0 DEF TaskType
<1>n. NoId \notin Ids
  OBVIOUS
<1>u. ASSUME UNCHANGED progress, \A t \in Tasks : task'[t].id = task[t].id
      PROVE  TasksAreOwn'
  BY <1>u DEF TasksAreOwn, TasksOf
<1>j. ASSUME UNCHANGED progress,
             \/ UNCHANGED task
             \/ Fetch(JobSlot, JobId)
             \/ Leave(JobSlot)
      PROVE  TasksAreOwn'
  <2>1. \A t \in Tasks : task'[t] = task[t]
    BY <1>0, <1>s, <1>j, FetchIs, LeaveIs
  <2> QED BY <1>u, <1>j, <2>1
\* The one task of an id ends, and the id is no longer in flight.
<1>e. ASSUME NEW t \in Tasks, NEW st \in {"done", "failed"},
             progress' = [progress EXCEPT ![task[t].id] = st],
             task'[t].id = NoId, \A o \in Tasks \ {t} : task'[o] = task[o]
      PROVE  TasksAreOwn'
  <2>1. ASSUME NEW id \in Ids, id # task[t].id
        PROVE  progress'[id] = progress[id] /\ TasksOf(id)' = TasksOf(id)
    BY <1>e, <1>0, <1>n, <2>1 DEF TasksOf
  <2>2. ASSUME NEW id \in Ids, id = task[t].id
        PROVE  progress'[id] \notin InFlight /\ TasksOf(id)' = {}
    <3>1. t \in TasksOf(id)
      BY <2>2 DEF TasksOf
    <3>2. TasksOf(id) = {t}
      BY <3>1 DEF TasksAreOwn
    <3>3. TasksOf(id)' = {}
      BY <1>e, <1>n, <3>2 DEF TasksOf
    <3> QED BY <1>0, <1>e, <2>2, <3>3 DEF InFlight
  <2> QED BY <2>1, <2>2 DEF TasksAreOwn
<1>1. ASSUME NEW id \in Ids, PostDownload(id) PROVE TasksAreOwn'
  <2>1. PICK t \in Tasks :
          /\ task[t] = NoTask
          /\ task' = [task EXCEPT ![t] = [pc |-> "created", id |-> id, prev |-> FALSE]]
    BY <1>1 DEF PostDownload
  <2>2. task[t].id = NoId /\ task'[t].id = id /\ \A o \in Tasks \ {t} : task'[o] = task[o]
    <3>1. task[t].id = NoId /\ t \in Slots
      BY <1>s, <2>1 DEF NoTask
    <3>2. task'[t].id = id /\ \A o \in Slots \ {t} : task'[o] = task[o]
      BY <1>0, <2>1, <3>1, CreateIs
    <3> QED BY <1>s, <3>1, <3>2
  <2>3. TasksOf(id) = {} /\ progress'[id] \in InFlight
    BY <1>0, <1>1 DEF PostDownload, TasksAreOwn, InFlight
  <2>4. TasksOf(id)' = {t}
    BY <2>2, <2>3 DEF TasksOf
  <2>5. ASSUME NEW k \in Ids \ {id}
        PROVE  progress'[k] = progress[k] /\ TasksOf(k)' = TasksOf(k)
    BY <1>0, <1>1, <1>n, <2>2 DEF PostDownload, TasksOf
  <2> QED BY <2>3, <2>4, <2>5 DEF TasksAreOwn
<1>2. ASSUME NEW t \in Tasks, DownloadStart(t) PROVE TasksAreOwn'
  <2> DEFINE id == task[t].id
  <2>1. CASE Cached(id)
    <3>1. task'[t].id = NoId /\ \A o \in Tasks \ {t} : task'[o] = task[o]
      BY <1>0, <1>2, <1>s, <2>1 DEF DownloadStart, NoTask, TaskType
    <3> QED BY <1>2, <1>e, <2>1, <3>1 DEF DownloadStart
  <2>2. CASE ~Cached(id)
    <3>1. \A o \in Tasks : task'[o].id = task[o].id
      BY <1>0, <1>2, <1>s, <1>i, <2>2, FetchIs DEF DownloadStart
    <3>2. \A k \in Ids : TasksOf(k)' = TasksOf(k)
      BY <3>1 DEF TasksOf
    <3>3. progress' = [progress EXCEPT ![id] = "running"]
      BY <1>2, <2>2 DEF DownloadStart
    <3>4. id \in Ids => t \in TasksOf(id)
      BY DEF TasksOf
    <3>5. id \in Ids => progress[id] \in InFlight
      BY <3>4 DEF TasksAreOwn
    <3>6. \A k \in Ids : progress'[k] \in InFlight <=> progress[k] \in InFlight
      BY <1>0, <3>3, <3>5 DEF InFlight
    <3> QED BY <3>2, <3>6 DEF TasksAreOwn
  <2> QED BY <2>1, <2>2
<1>3. ASSUME NEW t \in Tasks, DownloadDone(t) \/ DownloadFailed(t) PROVE TasksAreOwn'
  <2>1. task'[t].id = NoId /\ \A o \in Tasks \ {t} : task'[o] = task[o]
    BY <1>0, <1>3, <1>s, LeaveIs DEF DownloadDone, DownloadFailed
  <2> QED BY <1>3, <1>e, <2>1 DEF DownloadDone, DownloadFailed
<1>4. ASSUME PatchConcurrent \/ ThreadEnds \/ RunFinally \/ Boot PROVE TasksAreOwn'
  BY <1>4, <1>u DEF PatchConcurrent, ThreadEnds, RunFinally, Boot
<1>5. ASSUME RunStart \/ RunFetched \/ RunFetchFailed \/ StopWorker PROVE TasksAreOwn'
  BY <1>5, <1>j DEF RunStart, RunFetched, RunFetchFailed, StopWorker
<1>6. ASSUME UnloadAll \/ Crash PROVE TasksAreOwn'
  <2>1. /\ \A k \in Ids : progress'[k] = "none"
        /\ \A t \in Tasks : task'[t].id = NoId
    BY <1>6, <1>s DEF UnloadAll, Crash, Forget, NoTask
  <2> QED BY <1>n, <2>1 DEF TasksAreOwn, TasksOf, InFlight
<1>7. CASE UNCHANGED vars
  BY <1>7, <1>u DEF vars
<1>8. ASSUME NEW s \in Slots, FetchFile(s) PROVE TasksAreOwn'
  BY <1>8, <1>u DEF FetchFile
<1>9. ASSUME NEW id \in Ids, PostLoad(id) PROVE TasksAreOwn'
  BY <1>9, <1>u DEF PostLoad
<1>10. ASSUME NEW c \in Categories, PostUnload(c) PROVE TasksAreOwn'
  BY <1>10, <1>u DEF PostUnload
<1> QED BY <1>1, <1>2, <1>3, <1>4, <1>5, <1>6, <1>7, <1>8, <1>9, <1>10
     DEF Next, DownloadStep

(***************************************************************************)
(* Two requests never have two tasks at work on one id, and a download in  *)
(* flight has its task, for any ids and any number of tasks.               *)
(***************************************************************************)
THEOREM OneTaskPerDownloadCorrect ==
  Spec => []OneTaskPerDownload
<1>1. Init => TasksAreOwn
  BY DEF Init, TasksAreOwn, TasksOf, InFlight, NoTask, Slots
<1>2. TasksAreOwn => OneTaskPerDownload
  BY FS_EmptySet, FS_Singleton DEF TasksAreOwn, TasksOf, OneTaskPerDownload
<1>3. Spec => []TypeOK
  BY ModelsTypeCorrect
<1> QED BY <1>1, <1>2, <1>3, TasksStep, PTL DEF Spec

(***************************************************************************)
(* Whose reservations there are: one of a run is the reservation of the    *)
(* run there is, until the process ends.                                   *)
(***************************************************************************)
RunsAreOwn ==
  /\ run.pc \in {"idle", "ensure"} => ~run.loaded
  /\ phase # "up" => run = Idle
  /\ phase = "down" => \A c \in Categories : reserved[c] = None
  /\ phase = "up" => \A c \in Categories : reserved[c].by = "run" => run.loaded /\ c = Stt

\* RunsAreOwn is inductive beside the types.
LEMMA RunsStep ==
  TypeOK /\ RunsAreOwn /\ [Next]_vars => RunsAreOwn'
<1> SUFFICES ASSUME TypeOK, RunsAreOwn, [Next]_vars PROVE RunsAreOwn'
  OBVIOUS
<1>0. /\ ReservedType /\ RunType /\ TaskType /\ thread \in BOOLEAN /\ xet \in BOOLEAN
      /\ limit \subseteq Budgets
  BY DEF TypeOK
<1>i. Idle.pc = "idle" /\ ~Idle.loaded /\ None.by # "run" /\ Stt \in Categories
  BY DEF Idle, None, Stt
<1>u. UNCHANGED <<run, phase, reserved>> => RunsAreOwn'
  BY DEF RunsAreOwn
<1>r. ASSUME NEW id \in Ids, NEW by \in {"route", "failed run"}, Reserve(id, by),
             NEW c \in Categories, reserved'[c].by = "run"
      PROVE  reserved[c].by = "run"
  <2>1. reserved'[CategoryOf[id]] = [id |-> id, by |-> by]
          /\ \A d \in Categories \ {CategoryOf[id]} : reserved'[d] = reserved[d]
    BY <1>0, <1>r, ReserveIs
  <2>2. [id |-> id, by |-> by].by # "run"
    BY <1>r
  <2> QED BY <1>r, <2>1, <2>2
<1>l. ASSUME phase = "up", phase' = "up", run.pc \in {"idle", "ensure"}, LoadAdapter
      PROVE  RunsAreOwn'
  <2>1. \A c \in Categories : reserved[c].by # "run"
    BY <1>l DEF RunsAreOwn
  <2>2. /\ \/ ~run'.loaded /\ UNCHANGED reserved
           \/ ~run'.loaded /\ Reserve(JobId, "failed run")
           \/ run'.loaded /\ Reserve(JobId, "run")
        /\ run'.pc \in {"transcribing", "finally"}
    BY <1>0, <1>l, LoadAdapterIs
  <2>3. JobId \in Ids
    OBVIOUS
  <2>4. CASE UNCHANGED reserved
    BY <1>l, <2>1, <2>2, <2>4 DEF RunsAreOwn
  <2>5. CASE Reserve(JobId, "failed run")
    BY <1>l, <1>r, <2>1, <2>2, <2>3, <2>5 DEF RunsAreOwn
  <2>6. CASE run'.loaded /\ Reserve(JobId, "run")
    <3>1. \A d \in Categories \ {Stt} : reserved'[d] = reserved[d]
      BY <1>0, <2>3, <2>6, ReserveIs DEF Stt
    <3> QED BY <1>l, <2>1, <2>2, <2>6, <3>1 DEF RunsAreOwn
  <2> QED BY <2>2, <2>4, <2>5, <2>6
<1>1. ASSUME NEW id \in Ids, PostDownload(id) PROVE RunsAreOwn'
  BY <1>1, <1>u DEF PostDownload
<1>2. ASSUME NEW t \in Tasks, DownloadStep(t) PROVE RunsAreOwn'
  BY <1>2, <1>u DEF DownloadStep, DownloadStart, DownloadDone, DownloadFailed
<1>3. ASSUME NEW s \in Slots, FetchFile(s) PROVE RunsAreOwn'
  BY <1>3, <1>u DEF FetchFile
<1>4. ASSUME NEW id \in Ids, PostLoad(id) PROVE RunsAreOwn'
  <2>1. Reserve(id, "route") /\ phase = "up" /\ UNCHANGED <<phase, run>>
    BY <1>4, LoadIs DEF PostLoad
  <2> QED BY <1>r, <2>1 DEF RunsAreOwn
<1>5. ASSUME NEW c \in Categories, PostUnload(c) PROVE RunsAreOwn'
  <2>1. reserved'[c] = None /\ \A d \in Categories \ {c} : reserved'[d] = reserved[d]
    BY <1>0, <1>5, UnloadIs DEF PostUnload
  <2> QED BY <1>5, <1>i, <2>1 DEF PostUnload, RunsAreOwn
<1>6. ASSUME RunStart PROVE RunsAreOwn'
  <2>1. CASE Cached(JobId)
    BY <1>6, <1>l, <2>1 DEF RunStart
  <2>2. CASE ~Cached(JobId)
    <3>1. run' = [pc |-> "ensure", loaded |-> FALSE] /\ UNCHANGED <<reserved, phase>>
      BY <1>6, <2>2 DEF RunStart
    <3>2. run'.pc = "ensure" /\ ~run'.loaded
      BY <3>1
    <3> QED BY <1>6, <3>1, <3>2 DEF RunStart, RunsAreOwn
  <2> QED BY <2>1, <2>2
<1>7. ASSUME RunFetched PROVE RunsAreOwn'
  <2>1. phase = "up"
    BY <1>7, <1>i DEF RunFetched, RunsAreOwn
  <2> QED BY <1>7, <1>l, <2>1 DEF RunFetched
<1>8. ASSUME RunFetchFailed PROVE RunsAreOwn'
  <2>1. phase = "up"
    BY <1>8, <1>i DEF RunFetchFailed, RunsAreOwn
  <2>2. run'.pc = "finally" /\ ~run'.loaded /\ UNCHANGED <<reserved, phase>>
    BY <1>8 DEF RunFetchFailed
  <2> QED BY <1>8, <2>1, <2>2 DEF RunFetchFailed, RunsAreOwn
<1>9. ASSUME ThreadEnds PROVE RunsAreOwn'
  <2>1. CASE run.pc = "transcribing"
    <3>1. run' = [run EXCEPT !.pc = "finally"] /\ UNCHANGED <<reserved, phase>>
      BY <1>9, <2>1 DEF ThreadEnds
    <3>2. run'.pc = "finally" /\ run'.loaded = run.loaded
      BY <1>0, <3>1 DEF RunType
    <3>3. phase = "up"
      BY <1>i, <2>1 DEF RunsAreOwn
    <3> QED BY <3>1, <3>2, <3>3 DEF RunsAreOwn
  <2>2. CASE run.pc # "transcribing"
    BY <1>9, <1>u, <2>2 DEF ThreadEnds
  <2> QED BY <2>1, <2>2
<1>10. ASSUME RunFinally PROVE RunsAreOwn'
  <2>1. phase = "up" /\ phase' = "up" /\ run' = Idle
    BY <1>10, <1>i DEF RunFinally, RunsAreOwn
  <2>2. CASE run.loaded
    <3>1. reserved'[Stt] = None /\ \A d \in Categories \ {Stt} : reserved'[d] = reserved[d]
      BY <1>0, <1>10, <1>i, <2>2, UnloadIs DEF RunFinally
    <3> QED BY <1>i, <2>1, <3>1 DEF RunsAreOwn
  <2>3. CASE ~run.loaded
    BY <1>10, <1>i, <2>1, <2>3 DEF RunFinally, RunsAreOwn
  <2> QED BY <2>2, <2>3
<1>11. ASSUME StopWorker PROVE RunsAreOwn'
  BY <1>11, <1>i DEF StopWorker, RunsAreOwn
<1>12. ASSUME UnloadAll \/ Crash PROVE RunsAreOwn'
  <2>1. Forget
    BY <1>12 DEF UnloadAll, Crash
  <2> QED BY <1>i, <2>1, ForgottenIs DEF RunsAreOwn
<1>13. ASSUME PatchConcurrent PROVE RunsAreOwn'
  BY <1>13, <1>u DEF PatchConcurrent
<1>14. ASSUME Boot PROVE RunsAreOwn'
  BY <1>14, <1>i DEF Boot, RunsAreOwn
<1>15. CASE UNCHANGED vars
  BY <1>15, <1>u DEF vars
<1> QED BY <1>1, <1>2, <1>3, <1>4, <1>5, <1>6, <1>7, <1>8, <1>9, <1>10, <1>11, <1>12,
     <1>13, <1>14, <1>15 DEF Next

(***************************************************************************)
(* A run takes its reservation with it, whatever routes, crashes and       *)
(* shutdowns come in between.                                              *)
(***************************************************************************)
THEOREM RunLeavesNothingCorrect ==
  Spec => []RunLeavesNothing
<1>1. Init => RunsAreOwn
  BY DEF Init, RunsAreOwn, Idle, None
<1>2. RunsAreOwn => RunLeavesNothing
  BY DEF RunsAreOwn, RunLeavesNothing
<1>3. Spec => []TypeOK
  BY ModelsTypeCorrect
<1> QED BY <1>1, <1>2, <1>3, RunsStep, PTL DEF Spec

(***************************************************************************)
(* A route's model goes only by a route, by a load that replaces it, with  *)
(* the process, or with a run that had a reservation of its own.           *)
(***************************************************************************)
THEOREM RouteModelStaysCorrect ==
  Spec => RouteModelStays
<1> DEFINE P == \A c \in Categories :
                  reserved[c].by = "route" /\ reserved'[c] = None
                  => \/ \E d \in Categories : PostUnload(d)
                     \/ phase' # phase \/ run.loaded
<1>1. TypeOK /\ [Next]_vars => [P]_vars
  <2> SUFFICES ASSUME TypeOK, Next, NEW c \in Categories, reserved[c].by = "route",
                      reserved'[c] = None, phase' = phase, ~run.loaded
               PROVE  \E d \in Categories : PostUnload(d)
    OBVIOUS
  <2>0. ReservedType /\ thread \in BOOLEAN /\ limit \subseteq Budgets
    BY DEF TypeOK
  <2>1. UNCHANGED reserved => FALSE
    BY DEF None
  <2>2. ASSUME NEW id \in Ids, NEW by \in {"run", "failed run", "route"}, Reserve(id, by)
        PROVE  FALSE
    <3>1. reserved'[c] = [id |-> id, by |-> by] \/ reserved'[c] = reserved[c]
      BY <2>0, <2>2, ReserveIs
    <3>2. [id |-> id, by |-> by].by # "nobody" /\ None.by = "nobody"
      BY <2>2 DEF None
    <3> QED BY <3>1, <3>2
  <2>3. ASSUME LoadAdapter PROVE FALSE
    BY <2>0, <2>1, <2>2, <2>3, LoadAdapterIs
  <2>4. ASSUME NEW id \in Ids, PostDownload(id) \/ PostLoad(id) PROVE FALSE
    BY <2>1, <2>2, <2>4, LoadIs DEF PostDownload, PostLoad
  <2>5. ASSUME NEW t \in Tasks, DownloadStep(t) PROVE FALSE
    BY <2>1, <2>5 DEF DownloadStep, DownloadStart, DownloadDone, DownloadFailed
  <2>6. ASSUME NEW s \in Slots, FetchFile(s) PROVE FALSE
    BY <2>1, <2>6 DEF FetchFile
  <2>7. ASSUME \/ PatchConcurrent \/ RunStart \/ RunFetched \/ RunFetchFailed
               \/ ThreadEnds \/ RunFinally
        PROVE  FALSE
    BY <2>1, <2>3, <2>7 DEF PatchConcurrent, RunStart, RunFetched, RunFetchFailed,
       ThreadEnds, RunFinally
  <2>8. ASSUME StopWorker \/ UnloadAll \/ Crash \/ Boot PROVE FALSE
    BY <2>8 DEF StopWorker, UnloadAll, Crash, Boot, Forget
  <2> QED BY <2>4, <2>5, <2>6, <2>7, <2>8 DEF Next
<1>2. Spec => []TypeOK
  BY ModelsTypeCorrect
<1> QED BY <1>1, <1>2, PTL DEF Spec, RouteModelStays

\* A reservation is of a model, which has a size.
LEMMA SizeIs ==
  ASSUME NEW r \in [id : Ids, by : {"run", "failed run", "route"}] \cup {None}, r # None
  PROVE  r.id \in Ids /\ SizeOf[r.id] \in Nat
OBVIOUS

(***************************************************************************)
(* The budget.  A load or an unload changes what one category contributes  *)
(* to the pool.                                                            *)
(***************************************************************************)
LEMMA PoolIs ==
  ASSUME ReservedType, ReservedType', NEW c \in Categories,
         \A d \in Categories \ {c} : reserved'[d] = reserved[d]
  PROVE  \E rest \in Nat :
           /\ rest <= Pool
           /\ Pool \in Nat /\ Pool' \in Nat
           /\ Pool = IF reserved[c] # None THEN SizeOf[reserved[c].id] + rest ELSE rest
           /\ Pool' = IF reserved'[c] # None THEN SizeOf[reserved'[c].id] + rest ELSE rest
<1> DEFINE D == {d \in Categories : reserved[d] # None}
           E == {d \in Categories : reserved'[d] # None}
           f == [d \in D |-> SizeOf[reserved[d].id]]
           g == [d \in E |-> SizeOf[reserved'[d].id]]
<1>1. Pool = SumFunction(f) /\ Pool' = SumFunction(g)
  BY DEF Pool, Live
<1>2. IsFiniteSet(D) /\ IsFiniteSet(E)
  BY FS_Subset
<1>3. ASSUME NEW d \in D PROVE f[d] \in Nat
  BY SizeIs DEF ReservedType
<1>4. ASSUME NEW d \in E PROVE g[d] \in Nat
  BY SizeIs DEF ReservedType
<1>5. f \in [D -> Nat] /\ g \in [E -> Nat]
  BY <1>3, <1>4
<1>6. D \ {c} = E \ {c} /\ \A d \in D \ {c} : f[d] = g[d]
  OBVIOUS
<1>7. /\ c \in D <=> reserved[c] # None
      /\ c \in E <=> reserved'[c] # None
      /\ c \in D => f[c] = SizeOf[reserved[c].id]
      /\ c \in E => g[c] = SizeOf[reserved'[c].id]
  OBVIOUS
<1>v. /\ c \in D => f[c] \in Nat
      /\ c \in E => g[c] \in Nat
  BY <1>3, <1>4
<1> HIDE DEF D, E, f, g
<1>8. \E rest \in Nat :
        /\ SumFunction(f) = IF c \in D THEN f[c] + rest ELSE rest
        /\ SumFunction(g) = IF c \in E THEN g[c] + rest ELSE rest
  BY <1>2, <1>5, <1>6, SumsDifferInOne
<1> QED BY <1>1, <1>7, <1>8, <1>v

\* What rounding a size down to whole megabytes loses.
LEMMA RoundingIs ==
  ASSUME NEW n \in Nat
  PROVE  (n \div MB) * MB \in Nat /\ n < (n \div MB) * MB + MB
OBVIOUS

\* The bound, written as the budget and a megabyte.
LEMMA BudgetIs ==
  ASSUME NEW budget \in Budgets
  PROVE  /\ budget * MB \in Nat
         /\ (budget + 1) * MB = budget * MB + MB
<1>1. budget \in Nat
  OBVIOUS
<1> QED BY <1>1

\* A load that was admitted keeps the budget.
LEMMA ReserveKeepsBudget ==
  ASSUME ReservedType, NEW id \in Ids, NEW by \in {"run", "failed run", "route"},
         Reserve(id, by), Admitted(id)
  PROVE  BudgetKept'
<1> DEFINE c == CategoryOf[id]
           new == [id |-> id, by |-> by]
<1>1. /\ ReservedType' /\ c \in Categories /\ reserved'[c] = new
      /\ \A d \in Categories \ {c} : reserved'[d] = reserved[d]
  BY ReserveIs
<1>2. new # None /\ new.id = id
  BY DEF None
<1>3. PICK rest \in Nat :
        /\ rest <= Pool
        /\ Pool \in Nat /\ Pool' \in Nat
        /\ Pool = IF reserved[c] # None THEN SizeOf[reserved[c].id] + rest ELSE rest
        /\ Pool' = IF reserved'[c] # None THEN SizeOf[reserved'[c].id] + rest ELSE rest
  <2> HIDE DEF c
  <2> QED BY <1>1, PoolIs
<1>4. Pool' = SizeOf[id] + rest
  BY <1>1, <1>2, <1>3
<1>5. Pool \in Nat /\ rest <= Pool
  BY <1>3
<1> SUFFICES ASSUME NEW budget \in limit' PROVE Pool' < (budget + 1) * MB
  BY DEF BudgetKept
<1>6. PICK v \in Vram : ~Over(id, v) /\ v.probe = "pools" /\ v.budget = budget
  BY DEF Admitted
<1>7. v.other \in Nat /\ budget \in Budgets /\ budget \in Nat
  <2>1. v.other \in Others /\ v.budget \in Budgets
    BY DEF Vram
  <2> QED BY <1>6, <2>1
<1>8. PICK used : used = v.other + Pool
  OBVIOUS
<1>9. used \in Nat /\ Pool <= used
  BY <1>5, <1>7, <1>8, PlusIs
<1>10. ~((used \div MB) * MB + SizeOf[id] > budget * MB) /\ SizeOf[id] \in Nat
  <2>1. UsedBytes(v) = used
    BY <1>6, <1>8 DEF UsedBytes
  <2> QED BY <1>6, <2>1 DEF Over
<1>11. (used \div MB) * MB \in Nat /\ used < (used \div MB) * MB + MB
  BY <1>9, RoundingIs
<1>12. Pool' < budget * MB + MB
  BY <1>4, <1>5, <1>7, <1>9, <1>10, <1>11, AdmittedIs, BudgetIs
<1> QED BY <1>7, <1>12, BudgetIs

\* An unload keeps it.
LEMMA UnloadKeepsBudget ==
  ASSUME ReservedType, limit \subseteq Budgets, BudgetKept,
         NEW c \in Categories, Unload(c), UNCHANGED limit
  PROVE  BudgetKept'
<1>1. ReservedType' /\ reserved'[c] = None /\ \A d \in Categories \ {c} : reserved'[d] = reserved[d]
  BY UnloadIs
<1>2. PICK rest \in Nat :
        /\ rest <= Pool
        /\ Pool \in Nat /\ Pool' \in Nat
        /\ Pool = IF reserved[c] # None THEN SizeOf[reserved[c].id] + rest ELSE rest
        /\ Pool' = IF reserved'[c] # None THEN SizeOf[reserved'[c].id] + rest ELSE rest
  BY <1>1, PoolIs
<1>3. Pool \in Nat /\ Pool' \in Nat /\ Pool' <= Pool
  BY <1>1, <1>2
<1> SUFFICES ASSUME NEW budget \in limit PROVE Pool' < (budget + 1) * MB
  BY DEF BudgetKept
<1>4. Pool < (budget + 1) * MB
  BY DEF BudgetKept
<1>5. (budget + 1) * MB \in Nat
  BY BudgetIs
<1> QED BY <1>3, <1>4, <1>5

(***************************************************************************)
(* BudgetKept is inductive beside the types: a load is admitted against    *)
(* the rounded pool, which is less than a megabyte below the real one, and *)
(* the next load is again admitted against the real one.                   *)
(***************************************************************************)
LEMMA BudgetStep ==
  TypeOK /\ BudgetKept /\ [Next]_vars => BudgetKept'
<1> SUFFICES ASSUME TypeOK, BudgetKept, [Next]_vars PROVE BudgetKept'
  OBVIOUS
<1>0. /\ ReservedType /\ limit \subseteq Budgets /\ thread \in BOOLEAN
      /\ Stt \in Categories /\ JobId \in Ids
  BY DEF TypeOK, Stt
<1>u. UNCHANGED <<reserved, limit>> => BudgetKept'
  BY DEF BudgetKept, Pool, Live
<1>l. LoadAdapter => BudgetKept'
  BY <1>0, <1>u, LoadAdapterIs, ReserveKeepsBudget
<1>1. ASSUME NEW id \in Ids, PostLoad(id) PROVE BudgetKept'
  BY <1>0, <1>1, LoadIs, ReserveKeepsBudget DEF PostLoad
<1>2. ASSUME NEW c \in Categories, PostUnload(c) PROVE BudgetKept'
  BY <1>0, <1>2, UnloadKeepsBudget DEF PostUnload
<1>3. ASSUME RunStart \/ RunFetched PROVE BudgetKept'
  BY <1>3, <1>l, <1>u DEF RunStart, RunFetched
<1>4. ASSUME RunFinally \/ StopWorker PROVE BudgetKept'
  BY <1>0, <1>4, <1>u, UnloadKeepsBudget DEF RunFinally, StopWorker
<1>5. ASSUME UnloadAll \/ Crash PROVE BudgetKept'
  <2>1. limit' = {}
    BY <1>5 DEF UnloadAll, Crash, Forget
  <2> QED BY <2>1 DEF BudgetKept
<1>6. ASSUME NEW id \in Ids, PostDownload(id) PROVE BudgetKept'
  BY <1>6, <1>u DEF PostDownload
<1>7. ASSUME NEW t \in Tasks, DownloadStep(t) PROVE BudgetKept'
  BY <1>7, <1>u DEF DownloadStep, DownloadStart, DownloadDone, DownloadFailed
<1>8. ASSUME NEW s \in Slots, FetchFile(s) PROVE BudgetKept'
  BY <1>8, <1>u DEF FetchFile
<1>9. ASSUME PatchConcurrent \/ RunFetchFailed \/ ThreadEnds \/ Boot PROVE BudgetKept'
  BY <1>9, <1>u DEF PatchConcurrent, RunFetchFailed, ThreadEnds, Boot
<1>10. CASE UNCHANGED vars
  BY <1>10, <1>u DEF vars
<1> QED BY <1>1, <1>2, <1>3, <1>4, <1>5, <1>6, <1>7, <1>8, <1>9, <1>10 DEF Next

(***************************************************************************)
(* Where the probe counts the reservations, the budget of the last load is *)
(* kept to within the megabyte that used_mb rounds off: for any models,    *)
(* sizes, categories and budgets, whatever is loaded in which order and    *)
(* whatever else the device holds.                                         *)
(***************************************************************************)
THEOREM BudgetKeptCorrect ==
  Spec => []BudgetKept
<1>1. Init => BudgetKept
  BY DEF Init, BudgetKept
<1>2. Spec => []TypeOK
  BY ModelsTypeCorrect
<1> QED BY <1>1, <1>2, BudgetStep, PTL DEF Spec

====
