---------------------------- MODULE Progress_proof ----------------------------
(***************************************************************************)
(* What TLAPS proves of Progress, for any set of watchers, any cap, size   *)
(* of the queues and length of the audio: its type invariant, that the cap *)
(* holds, that nobody is told an end that is not in the row, and that no   *)
(* bar goes back.                                                          *)
(***************************************************************************)
EXTENDS Progress, SequenceTheorems, FiniteSetTheorems, TLAPS

(***************************************************************************)
(* A subscriber's queue keeps its size, and what is in it was there before *)
(* or is the event that came.                                              *)
(***************************************************************************)
LEMMA PutIs ==
  ASSUME NEW q \in Seq(Event), Len(q) <= QueueSize, NEW e \in Event
  PROVE  /\ Put(q, e) \in Seq(Event)
         /\ Len(Put(q, e)) <= QueueSize
         /\ \A i \in 1..Len(Put(q, e)) :
              Put(q, e)[i] = e \/ \E k \in 1..Len(q) : Put(q, e)[i] = q[k]
<1> DEFINE r == IF Len(q) < QueueSize THEN q ELSE Tail(q)
<1>0. QueueSize \in Nat \ {0} /\ Len(q) \in Nat
  BY ProgressAssumption, LenProperties
<1>1. /\ r \in Seq(Event) /\ Len(r) < QueueSize
      /\ \A i \in 1..Len(r) : \E k \in 1..Len(q) : r[i] = q[k]
  <2>1. CASE Len(q) < QueueSize
    BY <2>1
  <2>2. CASE ~(Len(q) < QueueSize)
    <3>1. q # <<>>
      BY <1>0, <2>2, EmptySeq
    <3>2. /\ Tail(q) \in Seq(Event) /\ Len(Tail(q)) = Len(q) - 1
          /\ \A i \in 1..Len(Tail(q)) : Tail(q)[i] = q[i + 1]
      BY <3>1, HeadTailProperties
    <3>3. \A i \in 1..Len(Tail(q)) : i + 1 \in 1..Len(q)
      BY <1>0, <3>2
    <3> QED BY <1>0, <2>2, <3>2, <3>3
  <2> QED BY <2>1, <2>2
<1>2. /\ Append(r, e) \in Seq(Event) /\ Len(Append(r, e)) = Len(r) + 1
      /\ \A i \in 1..Len(r) : Append(r, e)[i] = r[i]
      /\ Append(r, e)[Len(r) + 1] = e
  BY <1>1, AppendProperties
<1>3. Put(q, e) = Append(r, e)
  BY DEF Put
<1>4. Len(r) \in Nat
  BY <1>1, LenProperties
<1>5. \A i \in 1..(Len(r) + 1) : i \in 1..Len(r) \/ i = Len(r) + 1
  BY <1>4
<1> HIDE DEF r
<1> QED BY <1>0, <1>1, <1>2, <1>3, <1>4, <1>5

(***************************************************************************)
(* publish keeps the types of the bus, and adds no other event.            *)
(***************************************************************************)
LEMMA PublishIs ==
  ASSUME TypeOK, NEW type, NEW n, [type |-> type, chunk |-> n] \in Event,
         Publish(type, n)
  PROVE  /\ subs' = subs
         /\ queue' \in [Watchers -> Seq(Event)]
         /\ \A w \in Watchers : Len(queue'[w]) <= QueueSize
         /\ \A w \in Watchers : \A i \in 1..Len(queue'[w]) :
              \/ queue'[w][i] = [type |-> type, chunk |-> n]
              \/ \E k \in 1..Len(queue[w]) : queue'[w][i] = queue[w][k]
<1> DEFINE e == [type |-> type, chunk |-> n]
<1>1. /\ subs' = subs
      /\ queue' = [w \in Watchers |-> IF w \in subs THEN Put(queue[w], e) ELSE queue[w]]
  BY DEF Publish
<1>2. \A w \in Watchers : queue[w] \in Seq(Event) /\ Len(queue[w]) <= QueueSize
  BY DEF TypeOK
<1>3. ASSUME NEW w \in Watchers
      PROVE  /\ queue'[w] \in Seq(Event) /\ Len(queue'[w]) <= QueueSize
             /\ \A i \in 1..Len(queue'[w]) :
                  queue'[w][i] = e \/ \E k \in 1..Len(queue[w]) : queue'[w][i] = queue[w][k]
  <2>1. CASE w \in subs
    <3>1. queue'[w] = Put(queue[w], e)
      BY <1>1, <2>1
    <3>2. e \in Event
      OBVIOUS
    <3>3. queue[w] \in Seq(Event) /\ Len(queue[w]) <= QueueSize
      BY <1>2
    <3> HIDE DEF e
    <3>4. /\ Put(queue[w], e) \in Seq(Event) /\ Len(Put(queue[w], e)) <= QueueSize
          /\ \A i \in 1..Len(Put(queue[w], e)) :
               \/ Put(queue[w], e)[i] = e
               \/ \E k \in 1..Len(queue[w]) : Put(queue[w], e)[i] = queue[w][k]
      BY <3>2, <3>3, PutIs
    <3> QED BY <3>1, <3>4
  <2>2. CASE w \notin subs
    BY <1>1, <1>2, <2>2
  <2> QED BY <2>1, <2>2
<1> QED BY <1>1, <1>3

-----------------------------------------------------------------------------

JobTypes ==
  /\ run \in RunPc
  /\ outcome \in Terminal
  /\ row \in {"queued", "active"} \cup Terminal
  /\ chunk \in 0..Chunks
  /\ calls \in Seq(0..Chunks)
  /\ writing \subseteq 1..Chunks
  /\ progress \in 0..Chunks

BusTypes ==
  /\ subs \subseteq Watchers
  /\ queue \in [Watchers -> Seq(Event)]
  /\ \A w \in Watchers : Len(queue[w]) <= QueueSize

ConnectionTypes ==
  /\ registry \subseteq Watchers
  /\ handler \in [Watchers -> [pc : HandlerPc, chunk : 0..Chunks]]
  /\ card \in [Watchers -> [state : {"none", "shown", "fading", "gone"},
                            told  : {"nothing", "error"} \cup Terminal,
                            chunk : 0..Chunks]]

LEMMA TypeOKIs == TypeOK <=> JobTypes /\ BusTypes /\ ConnectionTypes
BY DEF TypeOK, JobTypes, BusTypes, ConnectionTypes

\* publish keeps the types of the bus.
LEMMA PublishTypes ==
  ASSUME TypeOK, NEW type, NEW n, [type |-> type, chunk |-> n] \in Event,
         Publish(type, n)
  PROVE  BusTypes'
<1>1. subs \subseteq Watchers
  BY DEF TypeOK
<1> QED BY <1>1, PublishIs DEF BusTypes

LEMMA EventsAre ==
  ASSUME TypeOK
  PROVE  /\ [type |-> "stage_changed", chunk |-> 0] \in Event
         /\ [type |-> outcome, chunk |-> 0] \in Event
         /\ \A n \in 0..Chunks : [type |-> "progress", chunk |-> n] \in Event
BY ProgressAssumption DEF TypeOK, Event, Terminal

\* The first call the loop has to run, and what is left of them.
LEMMA HeadOfCalls ==
  ASSUME TypeOK, calls # <<>>
  PROVE  Head(calls) \in 0..Chunks /\ Tail(calls) \in Seq(0..Chunks)
<1>1. calls \in Seq(0..Chunks)
  BY DEF TypeOK
<1> QED BY <1>1, HeadTailProperties

\* The steps of run_job and of its thread keep the types.
LEMMA JobStepTypes ==
  ASSUME TypeOK, JobStep
  PROVE  TypeOK'
<1> USE ProgressAssumption
<1>0. JobTypes /\ BusTypes /\ ConnectionTypes
  BY TypeOKIs
<1>1. CASE Start
  <2>1. BusTypes'
    BY <1>1, PublishTypes, EventsAre DEF Start
  <2>2. JobTypes' /\ ConnectionTypes'
    BY <1>0, <1>1 DEF Start, JobTypes, ConnectionTypes, RunPc
  <2> QED BY <2>1, <2>2 DEF TypeOK, JobTypes, BusTypes, ConnectionTypes
<1>2. CASE Loaded
  <2>1. BusTypes'
    BY <1>2, PublishTypes, EventsAre DEF Loaded
  <2>2. JobTypes' /\ ConnectionTypes'
    BY <1>0, <1>2 DEF Loaded, JobTypes, ConnectionTypes, RunPc
  <2> QED BY <2>1, <2>2 DEF TypeOK, JobTypes, BusTypes, ConnectionTypes
<1>3. CASE LoadFailed
  BY <1>3 DEF LoadFailed, TypeOK, RunPc, Terminal, bus
<1>4. CASE ChunkDone
  <2>1. chunk + 1 \in 0..Chunks
    BY <1>0, <1>4 DEF ChunkDone, JobTypes
  <2>2. Append(calls, chunk + 1) \in Seq(0..Chunks)
    BY <1>0, <2>1, AppendProperties DEF JobTypes
  <2> QED BY <1>4, <2>1, <2>2 DEF ChunkDone, TypeOK, bus
<1>5. ASSUME NEW result \in Terminal, ThreadEnds(result)
      PROVE  TypeOK'
  <2>1. Result \in 0..Chunks
    BY DEF Result
  <2>2. Append(calls, Result) \in Seq(0..Chunks)
    BY <1>0, <2>1, AppendProperties DEF JobTypes
  <2> QED BY <1>5, <2>2 DEF ThreadEnds, TypeOK, bus
<1>6. CASE OnProgress
  <2>1. Head(calls) \in 1..Chunks /\ Tail(calls) \in Seq(0..Chunks)
    BY <1>6, HeadOfCalls DEF OnProgress, Result
  <2>2. BusTypes'
    <3>1. [type |-> "progress", chunk |-> Head(calls)] \in Event
      BY <2>1, EventsAre
    <3> QED BY <1>6, <3>1, PublishTypes DEF OnProgress
  <2>3. JobTypes' /\ ConnectionTypes'
    BY <1>0, <1>6, <2>1 DEF OnProgress, JobTypes, ConnectionTypes
  <2> QED BY <2>2, <2>3 DEF TypeOK, JobTypes, BusTypes, ConnectionTypes
<1>7. CASE TakeResult
  <2>1. Tail(calls) \in Seq(0..Chunks)
    BY <1>7, HeadOfCalls DEF TakeResult
  <2> QED BY <1>7, <2>1 DEF TakeResult, TypeOK, RunPc, Terminal, bus
<1>8. CASE Commit
  BY <1>8 DEF Commit, TypeOK, RunPc, bus
<1>9. CASE PublishEnd
  <2>1. BusTypes'
    BY <1>9, PublishTypes, EventsAre DEF PublishEnd
  <2>2. JobTypes' /\ ConnectionTypes'
    BY <1>0, <1>9 DEF PublishEnd, JobTypes, ConnectionTypes, RunPc
  <2> QED BY <2>1, <2>2 DEF TypeOK, JobTypes, BusTypes, ConnectionTypes
<1> QED BY <1>1, <1>2, <1>3, <1>4, <1>5, <1>6, <1>7, <1>8, <1>9 DEF JobStep

CardType == [state : {"none", "shown", "fading", "gone"},
             told  : {"nothing", "error"} \cup Terminal,
             chunk : 0..Chunks]

\* What a card does with what it is sent keeps its type.
LEMMA CardTypes ==
  ASSUME TypeOK, NEW w \in Watchers
  PROVE  /\ \A what \in {"error"} \cup Terminal :
              Tell(w, what) => card' \in [Watchers -> CardType]
         /\ \A e \in Event : Receive(w, e) => card' \in [Watchers -> CardType]
<1>0. card \in [Watchers -> CardType]
  BY DEF TypeOK, CardType
<1>1. ASSUME NEW what \in {"error"} \cup Terminal, Tell(w, what)
      PROVE  card' \in [Watchers -> CardType]
  BY <1>0, <1>1 DEF Tell, CardType
<1>2. ASSUME NEW e \in Event, Receive(w, e)
      PROVE  card' \in [Watchers -> CardType]
  <2>1. CASE e.type \in Terminal
    BY <1>1, <1>2, <2>1 DEF Receive
  <2>2. CASE e.type \notin Terminal
    BY <1>0, <1>2, <2>2 DEF Receive, CardType, Event
  <2> QED BY <2>1, <2>2
<1> QED BY <1>1, <1>2

LEMMA GoToTypes ==
  ASSUME TypeOK, NEW w \in Watchers, NEW pc \in HandlerPc, GoTo(w, pc)
  PROVE  handler' \in [Watchers -> [pc : HandlerPc, chunk : 0..Chunks]]
BY DEF GoTo, TypeOK

\* The steps of a connection's handler and of its card keep the types.
LEMMA ConnectionStepTypes ==
  ASSUME TypeOK, NEW w \in Watchers,
         Connect(w) \/ HandlerStep(w) \/ Unmount(w) \/ Leave(w)
  PROVE  TypeOK'
<1> USE ProgressAssumption
<1>0. card \in [Watchers -> CardType]
  BY DEF TypeOK, CardType
<1>1. CASE Connect(w)
  BY <1>1 DEF Connect, At, GoTo, TypeOK, HandlerPc, job, bus
<1>2. CASE ReadRow(w)
  BY <1>2 DEF ReadRow, At, GoTo, TypeOK, HandlerPc, job, bus
<1>3. CASE Register(w)
  <2>1. card' \in [Watchers -> CardType]
    BY <1>0, <1>3, CardTypes DEF Register
  <2>2. /\ registry' \subseteq Watchers
        /\ handler' \in [Watchers -> [pc : HandlerPc, chunk : 0..Chunks]]
    BY <1>3, GoToTypes DEF Register, TypeOK, HandlerPc
  <2> QED BY <1>3, <2>1, <2>2 DEF Register, TypeOK, CardType, job, bus
<1>4. CASE ReadFiles(w)
  BY <1>4 DEF ReadFiles, At, TypeOK, HandlerPc, job, bus
<1>5. CASE SendSnapshot(w)
  <2>1. CASE IsHere(w)
    <3>0. handler[w].chunk \in 0..Chunks
      BY DEF TypeOK
    <3>1. card' \in [Watchers -> CardType]
      BY <1>0, <1>5, <2>1, <3>0 DEF SendSnapshot, CardType
    <3>2. handler' \in [Watchers -> [pc : HandlerPc, chunk : 0..Chunks]]
      BY <1>5, <2>1, GoToTypes DEF SendSnapshot, HandlerPc
    <3> QED BY <1>5, <2>1, <3>1, <3>2 DEF SendSnapshot, TypeOK, CardType, job
  <2>2. CASE ~IsHere(w)
    <3>1. handler' \in [Watchers -> [pc : HandlerPc, chunk : 0..Chunks]]
      BY <1>5, <2>2, GoToTypes DEF SendSnapshot, HandlerPc
    <3> QED BY <1>5, <2>2, <3>1 DEF SendSnapshot, TypeOK, job
  <2> QED BY <2>1, <2>2
<1>6. CASE Relay(w)
  <2>1. /\ queue[w] \in Seq(Event) /\ queue[w] # <<>> /\ Len(queue[w]) <= QueueSize
        /\ Len(queue[w]) \in Nat
    BY <1>6, LenProperties DEF Relay, TypeOK
  <2>2. /\ Head(queue[w]) \in Event /\ Tail(queue[w]) \in Seq(Event)
        /\ Len(Tail(queue[w])) <= QueueSize
    BY <2>1, HeadTailProperties
  <2>3. /\ queue' \in [Watchers -> Seq(Event)]
        /\ \A v \in Watchers : Len(queue'[v]) <= QueueSize
    <3>1. <<>> \in Seq(Event) /\ Len(<<>>) <= QueueSize
      BY EmptySeq
    <3>2. PICK q \in {Tail(queue[w]), <<>>} : queue' = [queue EXCEPT ![w] = q]
      BY <1>6 DEF Relay
    <3>3. q \in Seq(Event) /\ Len(q) <= QueueSize
      BY <2>2, <3>1
    <3>4. \A v \in Watchers : queue[v] \in Seq(Event) /\ Len(queue[v]) <= QueueSize
      BY DEF TypeOK
    <3>5. /\ DOMAIN queue = Watchers
          /\ queue' = [v \in Watchers |-> IF v = w THEN q ELSE queue[v]]
      BY <3>2 DEF TypeOK
    <3>6. \A v \in Watchers : queue'[v] \in Seq(Event) /\ Len(queue'[v]) <= QueueSize
      BY <3>3, <3>4, <3>5
    <3> QED BY <3>5, <3>6
  <2>4. card' \in [Watchers -> CardType]
    BY <1>0, <1>6, <2>2, CardTypes DEF Relay
  <2>5. /\ registry' \subseteq Watchers /\ subs' \subseteq Watchers
        /\ handler' \in [Watchers -> [pc : HandlerPc, chunk : 0..Chunks]]
    <3>1. CASE IsHere(w)
      BY <1>6, <3>1 DEF Relay, TypeOK
    <3>2. CASE ~IsHere(w)
      BY <1>6, <3>2, GoToTypes DEF Relay, TypeOK, HandlerPc
    <3> QED BY <3>1, <3>2
  <2> QED BY <1>6, <2>3, <2>4, <2>5 DEF Relay, TypeOK, CardType, job
<1>7. CASE Unmount(w)
  BY <1>7 DEF Unmount, TypeOK, job, bus
<1>8. CASE Leave(w)
  BY <1>8 DEF Leave, TypeOK, job, bus
<1> QED BY <1>1, <1>2, <1>3, <1>4, <1>5, <1>6, <1>7, <1>8 DEF HandlerStep

LEMMA TypeInit == Init => TypeOK
<1>1. <<>> \in Seq(0..Chunks) /\ <<>> \in Seq(Event) /\ Len(<<>>) <= QueueSize
  BY ProgressAssumption, EmptySeq
<1> QED BY <1>1, ProgressAssumption
        DEF Init, TypeOK, RunPc, Terminal, HandlerPc

LEMMA TypeStep == TypeOK /\ [Next]_vars => TypeOK'
<1> SUFFICES ASSUME TypeOK, [Next]_vars
             PROVE  TypeOK'
  OBVIOUS
<1>1. CASE JobStep
  BY <1>1, JobStepTypes
<1>2. CASE CancelQueued
  BY <1>2 DEF CancelQueued, TypeOK, RunPc, Terminal, bus
<1>3. ASSUME NEW n \in 1..Chunks, Persist(n)
      PROVE  TypeOK'
  BY <1>3, ProgressAssumption DEF Persist, TypeOK, bus
<1>4. ASSUME NEW w \in Watchers, Connect(w) \/ HandlerStep(w) \/ Unmount(w) \/ Leave(w)
      PROVE  TypeOK'
  BY <1>4, ConnectionStepTypes
<1>5. CASE UNCHANGED vars
  BY <1>5 DEF TypeOK, vars, job, bus
<1> QED BY <1>1, <1>2, <1>3, <1>4, <1>5 DEF Next

(***************************************************************************)
(* TypeOK is an invariant; above all, no subscriber's queue outgrows its   *)
(* size, whatever run_job publishes and however slow a client reads.       *)
(***************************************************************************)
THEOREM ProgressTypeCorrect == Spec => []TypeOK
BY TypeInit, TypeStep, PTL DEF Spec

-----------------------------------------------------------------------------
(* The cap.                                                                *)

\* The cap, inductively: the slots can be counted.
CapInv == IsFiniteSet(registry) /\ CapHolds

LEMMA CapInit == Init => CapInv
<1>1. IsFiniteSet({}) /\ Cardinality({}) = 0
  BY FS_EmptySet
<1> QED BY <1>1, ProgressAssumption DEF Init, CapInv, CapHolds

LEMMA GoToIs ==
  ASSUME TypeOK, NEW w \in Watchers, NEW pc, GoTo(w, pc)
  PROVE  \A v \in Watchers : handler'[v].pc = IF v = w THEN pc ELSE handler[v].pc
<1> DEFINE h == [handler[w] EXCEPT !.pc = pc]
<1>1. handler \in [Watchers -> [pc : HandlerPc, chunk : 0..Chunks]]
  BY DEF TypeOK
<1>2. h.pc = pc
  BY <1>1
<1>3. handler' = [v \in Watchers |-> IF v = w THEN h ELSE handler[v]]
  BY <1>1 DEF GoTo
<1> HIDE DEF h
<1> QED BY <1>2, <1>3

\* A handler that takes a slot finds one free.
LEMMA RegisterKeepsCap ==
  ASSUME TypeOK, CapInv, NEW w \in Watchers, Register(w)
  PROVE  CapInv'
<1>1. CASE Cardinality(registry) < Cap
  <2>1. /\ registry' = registry \cup {w} /\ subs' = subs
        /\ GoTo(w, "files")
    BY <1>1 DEF Register, bus
  <2>2. Cardinality(registry) \in Nat
    BY FS_CardinalityType DEF CapInv
  <2>3. IsFiniteSet(registry') /\ Cardinality(registry') <= Cap
    <3>1. /\ IsFiniteSet(registry \cup {w})
          /\ Cardinality(registry \cup {w}) \in {Cardinality(registry), Cardinality(registry) + 1}
      BY <2>2, FS_AddElement DEF CapInv
    <3> QED BY <1>1, <2>1, <2>2, <3>1, ProgressAssumption
  <2>4. \A v \in Watchers : v # w => handler'[v].pc = handler[v].pc
    BY <2>1, GoToIs
  <2> QED BY <2>1, <2>3, <2>4 DEF CapInv, CapHolds
<1>2. CASE ~(Cardinality(registry) < Cap)
  <2>1. /\ registry' = registry /\ subs' = subs
        /\ GoTo(w, "end")
    BY <1>2 DEF Register, bus
  <2>2. \A v \in Watchers : handler'[v].pc = IF v = w THEN "end" ELSE handler[v].pc
    BY <2>1, GoToIs
  <2> QED BY <2>1, <2>2 DEF CapInv, CapHolds
<1> QED BY <1>1, <1>2

\* A handler that gives its slot back is no longer at work, nor subscribed.
LEMMA RelayKeepsCap ==
  ASSUME TypeOK, CapInv, NEW w \in Watchers, Relay(w)
  PROVE  CapInv'
<1>1. CASE IsHere(w)
  BY <1>1 DEF Relay, CapInv, CapHolds
<1>2. CASE ~IsHere(w)
  <2>1. /\ registry' = registry \ {w} /\ subs' = subs \ {w}
        /\ GoTo(w, "end")
    BY <1>2 DEF Relay
  <2>2. \A v \in Watchers : handler'[v].pc = IF v = w THEN "end" ELSE handler[v].pc
    BY <2>1, GoToIs
  <2>3. /\ IsFiniteSet(registry') /\ Cardinality(registry) \in Nat
        /\ Cardinality(registry') \in Nat
        /\ Cardinality(registry') <= Cardinality(registry)
    BY <2>1, FS_RemoveElement, FS_CardinalityType, FS_Subset DEF CapInv
  <2>4. Cardinality(registry') <= Cap
    BY <2>3, ProgressAssumption DEF CapInv, CapHolds
  <2> QED BY <2>1, <2>2, <2>3, <2>4 DEF CapInv, CapHolds
<1> QED BY <1>1, <1>2

\* The steps of a handler that move it, and change neither registry nor cap.
LEMMA MovesKeepCap ==
  ASSUME TypeOK, CapInv, NEW w \in Watchers,
         Connect(w) \/ ReadRow(w) \/ ReadFiles(w) \/ SendSnapshot(w)
  PROVE  CapInv'
<1>0. registry' = registry
  BY DEF Connect, ReadRow, ReadFiles, SendSnapshot
<1>1. CASE ReadFiles(w)
  <2>1. \A v \in Watchers : v # w => handler'[v].pc = handler[v].pc
    BY <1>1 DEF ReadFiles, TypeOK
  <2>2. w \in registry /\ subs' \subseteq registry
    BY <1>1 DEF ReadFiles, At, CapInv, CapHolds, bus
  <2> QED BY <1>0, <2>1, <2>2 DEF CapInv, CapHolds
<1>2. CASE Connect(w) \/ ReadRow(w) \/ SendSnapshot(w)
  <2>1. PICK pc \in {"row", "register", "relay", "end"} :
          GoTo(w, pc) /\ (pc = "relay" => w \in registry)
    BY <1>2 DEF Connect, ReadRow, SendSnapshot, At, CapInv, CapHolds
  <2>2. \A v \in Watchers : handler'[v].pc = IF v = w THEN pc ELSE handler[v].pc
    BY <2>1, GoToIs
  <2>3. subs' \subseteq registry
    BY <1>2 DEF Connect, ReadRow, SendSnapshot, At, CapInv, CapHolds, bus
  <2> QED BY <1>0, <2>1, <2>2, <2>3 DEF CapInv, CapHolds
<1> QED BY <1>1, <1>2

LEMMA CapStep == TypeOK /\ CapInv /\ [Next]_vars => CapInv'
<1> SUFFICES ASSUME TypeOK, CapInv, [Next]_vars
             PROVE  CapInv'
  OBVIOUS
<1>1. CASE UNCHANGED <<registry, subs, handler>>
  BY <1>1 DEF CapInv, CapHolds
<1>2. CASE JobStep
  <2>1. UNCHANGED <<registry, subs, handler>>
    BY <1>2 DEF JobStep, Start, Loaded, LoadFailed, ChunkDone, ThreadEnds, OnProgress,
                TakeResult, Commit, PublishEnd, Publish, bus
  <2> QED BY <1>1, <2>1
<1>3. ASSUME NEW w \in Watchers, Connect(w) \/ HandlerStep(w) \/ Unmount(w) \/ Leave(w)
      PROVE  CapInv'
  <2>1. CASE Register(w)
    BY <2>1, RegisterKeepsCap
  <2>2. CASE Relay(w)
    BY <2>2, RelayKeepsCap
  <2>3. CASE Connect(w) \/ ReadRow(w) \/ ReadFiles(w) \/ SendSnapshot(w)
    BY <2>3, MovesKeepCap
  <2>4. CASE Unmount(w) \/ Leave(w)
    BY <1>1, <2>4 DEF Unmount, Leave, bus
  <2> QED BY <1>3, <2>1, <2>2, <2>3, <2>4 DEF HandlerStep
<1>4. CASE CancelQueued \/ (\E n \in 1..Chunks : Persist(n)) \/ UNCHANGED vars
  BY <1>1, <1>4 DEF CancelQueued, Persist, vars, bus
<1> QED BY <1>2, <1>3, <1>4 DEF Next

(***************************************************************************)
(* CapHolds is an invariant: the WebSocket handlers never hold more slots  *)
(* of the registry than the cap, and none is served without one.           *)
(***************************************************************************)
THEOREM CapHoldsCorrect == Spec => []CapHolds
<1>1. CapInv => CapHolds
  BY DEF CapInv
<1> QED BY CapInit, CapStep, ProgressTypeCorrect, <1>1, PTL DEF Spec

-----------------------------------------------------------------------------
(* The end a card is told.                                                 *)

(***************************************************************************)
(* The thread's calls come while the loop waits for it, and the future's   *)
(* result is the last of them.                                             *)
(***************************************************************************)
CallsInv ==
  /\ run # "transcribing" => calls = <<>>
  /\ \A i \in 1..Len(calls) : calls[i] = Result => i = Len(calls)

LEMMA CallsInit == Init => CallsInv
BY EmptySeq DEF Init, CallsInv

LEMMA CallsStep == TypeOK /\ CallsInv /\ [Next]_vars => CallsInv'
<1> SUFFICES ASSUME TypeOK, CallsInv, [Next]_vars
             PROVE  CallsInv'
  OBVIOUS
<1>0. calls \in Seq(0..Chunks) /\ Len(calls) \in Nat /\ chunk \in Nat
  BY LenProperties DEF TypeOK
<1>1. CASE ChunkDone
  <2>1. /\ run' = "transcribing" /\ calls' = Append(calls, chunk + 1)
        /\ chunk + 1 \in 0..Chunks
        /\ \A i \in 1..Len(calls) : calls[i] # Result
    BY <1>0, <1>1, ProgressAssumption, LenProperties DEF ChunkDone, ThreadRuns, TypeOK
  <2>2. /\ Len(calls') = Len(calls) + 1 /\ calls'[Len(calls) + 1] = chunk + 1
        /\ \A i \in 1..Len(calls) : calls'[i] = calls[i]
    BY <1>0, <2>1, AppendProperties
  <2>3. \A i \in 1..Len(calls') : calls'[i] # Result
    BY <1>0, <2>1, <2>2 DEF Result
  <2> QED BY <2>1, <2>3 DEF CallsInv
<1>2. ASSUME NEW result \in Terminal, ThreadEnds(result)
      PROVE  CallsInv'
  <2>1. /\ run' = "transcribing" /\ calls' = Append(calls, Result)
        /\ Result \in 0..Chunks
        /\ \A i \in 1..Len(calls) : calls[i] # Result
    BY <1>0, <1>2, ProgressAssumption, LenProperties DEF ThreadEnds, ThreadRuns, Result
  <2>2. /\ Len(calls') = Len(calls) + 1
        /\ \A i \in 1..Len(calls) : calls'[i] = calls[i]
    BY <1>0, <2>1, AppendProperties
  <2>3. \A i \in 1..Len(calls') : calls'[i] = Result => i = Len(calls')
    BY <1>0, <2>1, <2>2
  <2> QED BY <2>1, <2>3 DEF CallsInv
<1>3. CASE OnProgress \/ TakeResult
  <2>1. calls # <<>> /\ calls' = Tail(calls) /\ run = "transcribing"
    BY <1>3 DEF OnProgress, TakeResult, CallsInv
  <2>2. /\ calls' \in Seq(0..Chunks) /\ Len(calls') = Len(calls) - 1
        /\ \A i \in 1..Len(calls') : calls'[i] = calls[i + 1]
    BY <1>0, <2>1, HeadTailProperties
  <2>3. \A i \in 1..Len(calls') : calls'[i] = Result => i = Len(calls')
    BY <1>0, <2>2 DEF CallsInv
  <2>4. CASE OnProgress
    BY <2>1, <2>3, <2>4 DEF OnProgress, CallsInv
  <2>5. CASE TakeResult
    <3>1. calls[1] = Result
      BY <1>0, <2>1, <2>5 DEF TakeResult
    <3>2. Len(calls) \in Nat \ {0}
      BY <1>0, <2>1, EmptySeq
    <3>3. Len(calls') = 0
      BY <2>2, <3>1, <3>2 DEF CallsInv
    <3>4. calls' = <<>>
      BY <2>2, <3>3, EmptySeq
    <3> QED BY <2>3, <3>4 DEF CallsInv
  <2> QED BY <1>3, <2>4, <2>5
<1>4. CASE /\ calls' = calls
           /\ \/ run' = run \/ run' = "transcribing"
              \/ run # "transcribing"
  BY <1>4 DEF CallsInv
<1>5. CASE Start \/ Loaded \/ LoadFailed \/ Commit \/ PublishEnd \/ CancelQueued
  BY <1>4, <1>5 DEF Start, Loaded, LoadFailed, Commit, PublishEnd, CancelQueued
<1>6. CASE (\E n \in 1..Chunks : Persist(n)) \/ UNCHANGED vars
  BY <1>4, <1>6 DEF Persist, vars, job
<1>7. ASSUME NEW w \in Watchers, Connect(w) \/ HandlerStep(w) \/ Unmount(w) \/ Leave(w)
      PROVE  CallsInv'
  <2>1. UNCHANGED job
    BY <1>7 DEF Connect, HandlerStep, ReadRow, Register, ReadFiles, SendSnapshot, Relay,
                Unmount, Leave
  <2> QED BY <1>4, <2>1 DEF job
<1> QED BY <1>1, <1>2, <1>3, <1>5, <1>6, <1>7 DEF Next, JobStep

(***************************************************************************)
(* Inductively: an end is told, or waits in a queue, only when run_job is  *)
(* over and the row says it.                                               *)
(***************************************************************************)
IsTheEnd(what) == what \in Terminal => run = "over" /\ row = what

EndInv ==
  /\ run = "committed" => row = outcome
  /\ \A w \in Watchers : IsTheEnd(card[w].told)
  /\ \A w \in Watchers : \A i \in 1..Len(queue[w]) : IsTheEnd(queue[w][i].type)

LEMMA EndInit == Init => EndInv
<1> SUFFICES ASSUME Init PROVE EndInv
  OBVIOUS
<1>1. \A w \in Watchers : Len(queue[w]) = 0 /\ card[w].told = "nothing"
  BY EmptySeq DEF Init
<1>2. \A w \in Watchers : 1..Len(queue[w]) = {}
  BY <1>1
<1> QED BY <1>1, <1>2 DEF Init, EndInv, IsTheEnd, Terminal

\* Steps before the end publish no end.
LEMMA PublishKeepsEnd ==
  ASSUME TypeOK, EndInv, run # "over", run' # "committed", UNCHANGED card,
         NEW type \in {"stage_changed", "progress"}, NEW n \in 0..Chunks,
         Publish(type, n)
  PROVE  EndInv'
<1>1. [type |-> type, chunk |-> n] \in Event
  BY DEF Event
<1>2. \A w \in Watchers : \A i \in 1..Len(queue'[w]) :
        \/ queue'[w][i] = [type |-> type, chunk |-> n]
        \/ \E k \in 1..Len(queue[w]) : queue'[w][i] = queue[w][k]
  BY <1>1, PublishIs
<1>3. type \notin Terminal
  BY DEF Terminal
<1>4. \A w \in Watchers : \A i \in 1..Len(queue'[w]) : queue'[w][i].type \notin Terminal
  BY <1>2, <1>3 DEF EndInv, IsTheEnd
<1>5. \A w \in Watchers : card'[w].told \notin Terminal
  BY DEF EndInv, IsTheEnd
<1> QED BY <1>4, <1>5 DEF EndInv, IsTheEnd

LEMMA JobStepKeepsEnd ==
  ASSUME TypeOK, CallsInv, EndInv, JobStep
  PROVE  EndInv'
<1> USE ProgressAssumption
<1>1. CASE Start \/ Loaded
  <2>1. Publish("stage_changed", 0) /\ run # "over" /\ run' # "committed" /\ UNCHANGED card
    BY <1>1 DEF Start, Loaded
  <2> QED BY <2>1, PublishKeepsEnd
<1>2. CASE OnProgress
  <2>1. Head(calls) \in 0..Chunks
    BY <1>2, HeadOfCalls DEF OnProgress
  <2> QED BY <1>2, <2>1, PublishKeepsEnd DEF OnProgress, CallsInv
<1>3. CASE PublishEnd
  <2>1. /\ Publish(outcome, 0) /\ run' = "over" /\ UNCHANGED <<outcome, row, card>>
        /\ row = outcome /\ run # "over"
    BY <1>3 DEF PublishEnd, EndInv
  <2>2. \A w \in Watchers : \A i \in 1..Len(queue'[w]) :
          \/ queue'[w][i] = [type |-> outcome, chunk |-> 0]
          \/ \E k \in 1..Len(queue[w]) : queue'[w][i] = queue[w][k]
    BY <2>1, EventsAre, PublishIs
  <2>3. \A w \in Watchers : \A i \in 1..Len(queue'[w]) :
          queue'[w][i].type \in Terminal => row = queue'[w][i].type
    BY <2>1, <2>2 DEF EndInv, IsTheEnd
  <2>4. \A w \in Watchers : card'[w].told \notin Terminal
    BY <2>1 DEF EndInv, IsTheEnd
  <2> QED BY <2>1, <2>3, <2>4 DEF EndInv, IsTheEnd
<1>4. CASE Commit
  <2>1. run = "ending" /\ run' = "committed" /\ row' = outcome /\ UNCHANGED <<outcome, queue, card>>
    BY <1>4 DEF Commit, bus
  <2> QED BY <2>1 DEF EndInv, IsTheEnd
<1>5. CASE LoadFailed \/ ChunkDone \/ TakeResult \/ \E result \in Terminal : ThreadEnds(result)
  <2>1. UNCHANGED <<row, queue, card>>
    BY <1>5 DEF LoadFailed, ChunkDone, TakeResult, ThreadEnds, bus
  <2>2. CASE run' = run
    <3>1. run # "committed" \/ outcome' = outcome
      BY <1>5 DEF LoadFailed, ChunkDone, TakeResult, ThreadEnds, ThreadRuns, CallsInv
    <3> QED BY <2>1, <2>2, <3>1 DEF EndInv, IsTheEnd
  <2>3. CASE run' # run
    <3>1. run' = "ending" /\ run # "over"
      BY <1>5, <2>3 DEF LoadFailed, ChunkDone, TakeResult, ThreadEnds, CallsInv
    <3> QED BY <2>1, <3>1 DEF EndInv, IsTheEnd
  <2> QED BY <2>2, <2>3
<1> QED BY <1>1, <1>2, <1>3, <1>4, <1>5 DEF JobStep

LEMMA SameTold ==
  ASSUME TypeOK, NEW w \in Watchers, NEW x,
         \/ card' = [card EXCEPT ![w].state = x]
         \/ card' = [card EXCEPT ![w].chunk = x]
  PROVE  \A v \in Watchers : card'[v].told = card[v].told
<1>1. card \in [Watchers -> CardType]
  BY DEF TypeOK, CardType
<1> DEFINE s == [card[w] EXCEPT !.state = x]
           n == [card[w] EXCEPT !.chunk = x]
<1>2. s.told = card[w].told /\ n.told = card[w].told
  BY <1>1 DEF CardType
<1>3. \/ card' = [v \in Watchers |-> IF v = w THEN s ELSE card[v]]
      \/ card' = [v \in Watchers |-> IF v = w THEN n ELSE card[v]]
  BY <1>1
<1> HIDE DEF s, n
<1> QED BY <1>2, <1>3

\* A card is told nothing but what it is sent, and the other cards nothing.
LEMMA TellIs ==
  ASSUME TypeOK, NEW w \in Watchers, NEW what, Tell(w, what)
  PROVE  \A v \in Watchers : card'[v].told \in {card[v].told, what}
<1>1. card \in [Watchers -> CardType]
  BY DEF TypeOK, CardType
<1> DEFINE c == IF card[w].state = "shown"
                THEN [card[w] EXCEPT !.state = "fading", !.told = what] ELSE card[w]
<1>2. card' = [v \in Watchers |-> IF v = w THEN c ELSE card[v]]
  BY <1>1 DEF Tell
<1>3. c.told \in {card[w].told, what}
  BY <1>1 DEF CardType
<1> HIDE DEF c
<1> QED BY <1>2, <1>3

LEMMA ReceiveIs ==
  ASSUME TypeOK, NEW w \in Watchers, NEW e \in Event, Receive(w, e)
  PROVE  \A v \in Watchers : card'[v].told \in {card[v].told, e.type}
<1>1. CASE e.type \in Terminal
  BY <1>1, TellIs DEF Receive
<1>2. CASE e.type \notin Terminal
  <2>1. card' = [card EXCEPT ![w].chunk = IF e.type = "progress" THEN e.chunk ELSE @]
    BY <1>2 DEF Receive
  <2> QED BY <2>1, SameTold
<1> QED BY <1>1, <1>2

\* A relayed event is the end only if it was when it was queued.
LEMMA RelayKeepsEnd ==
  ASSUME TypeOK, EndInv, NEW w \in Watchers, Relay(w)
  PROVE  EndInv'
<1>0. /\ queue[w] \in Seq(Event) /\ queue[w] # <<>> /\ Len(queue[w]) \in Nat \ {0}
      /\ UNCHANGED <<run, outcome, row>>
  BY EmptySeq DEF Relay, TypeOK, job
<1>1. IsTheEnd(queue[w][1].type) /\ queue[w][1] \in Event
  BY <1>0, ElementOfSeq DEF EndInv
<1>2. \A v \in Watchers : IsTheEnd(card'[v].told)
  <2>1. CASE IsHere(w)
    <3>1. Receive(w, queue[w][1])
      BY <1>0, <2>1 DEF Relay
    <3>2. \A v \in Watchers : card'[v].told \in {card[v].told, queue[w][1].type}
      BY <1>1, <3>1, ReceiveIs
    <3> QED BY <1>1, <3>2 DEF EndInv, IsTheEnd
  <2>2. CASE ~IsHere(w)
    BY <2>2 DEF Relay, EndInv
  <2> QED BY <2>1, <2>2
<1>3. PICK q \in {Tail(queue[w]), <<>>} : queue' = [queue EXCEPT ![w] = q]
  BY DEF Relay
<1>4. \A i \in 1..Len(q) : IsTheEnd(q[i].type)
  <2>1. CASE q = Tail(queue[w])
    <3>1. /\ Len(q) = Len(queue[w]) - 1
          /\ \A i \in 1..Len(q) : q[i] = queue[w][i + 1]
      BY <1>0, <2>1, HeadTailProperties
    <3>2. \A i \in 1..Len(q) : i + 1 \in 1..Len(queue[w])
      BY <1>0, <3>1
    <3> QED BY <3>1, <3>2 DEF EndInv
  <2>2. CASE q = <<>>
    <3>1. 1..Len(q) = {}
      BY <2>2, EmptySeq
    <3> QED BY <3>1
  <2> QED BY <2>1, <2>2
<1>5. \A v \in Watchers : queue'[v] = IF v = w THEN q ELSE queue[v]
  BY <1>3 DEF TypeOK
<1>6. \A v \in Watchers : \A i \in 1..Len(queue'[v]) : IsTheEnd(queue'[v][i].type)
  BY <1>4, <1>5 DEF EndInv
<1> QED BY <1>0, <1>2, <1>6 DEF EndInv, IsTheEnd

LEMMA EndStep == TypeOK /\ CallsInv /\ EndInv /\ [Next]_vars => EndInv'
<1> SUFFICES ASSUME TypeOK, CallsInv, EndInv, [Next]_vars
             PROVE  EndInv'
  OBVIOUS
<1>1. CASE UNCHANGED <<job, queue>> /\ \A w \in Watchers : IsTheEnd(card'[w].told)
  BY <1>1 DEF EndInv, IsTheEnd, job
<1>2. CASE JobStep
  BY <1>2, JobStepKeepsEnd
<1>3. CASE CancelQueued
  <2>1. /\ run = "queued" /\ run' = "over" /\ UNCHANGED <<queue, card>>
    BY <1>3 DEF CancelQueued, bus
  <2> QED BY <2>1 DEF EndInv, IsTheEnd
<1>4. CASE (\E n \in 1..Chunks : Persist(n)) \/ UNCHANGED vars
  <2>1. UNCHANGED <<run, outcome, row, queue, card>>
    BY <1>4 DEF Persist, vars, job, bus
  <2> QED BY <2>1 DEF EndInv, IsTheEnd
<1>5. ASSUME NEW w \in Watchers, Connect(w) \/ HandlerStep(w) \/ Unmount(w) \/ Leave(w)
      PROVE  EndInv'
  <2>1. CASE Relay(w)
    BY <2>1, RelayKeepsEnd
  <2>2. CASE ~Relay(w)
    <3>1. UNCHANGED <<job, queue>>
      BY <1>5, <2>2 DEF Connect, HandlerStep, ReadRow, Register, ReadFiles,
                        SendSnapshot, Unmount, Leave, bus
    <3>2. \A v \in Watchers : card'[v].told \in {card[v].told, "error"}
      <4>1. CASE Register(w)
        BY <4>1, TellIs DEF Register
      <4>2. CASE SendSnapshot(w)
        BY <4>2, SameTold DEF SendSnapshot
      <4>3. CASE Connect(w) \/ ReadRow(w) \/ ReadFiles(w)
        BY <4>3, SameTold DEF Connect, ReadRow, ReadFiles
      <4>4. CASE Unmount(w) \/ Leave(w)
        BY <4>4, SameTold DEF Unmount, Leave
      <4> QED BY <1>5, <2>2, <4>1, <4>2, <4>3, <4>4 DEF HandlerStep
    <3>3. "error" \notin Terminal
      BY DEF Terminal
    <3> QED BY <1>1, <3>1, <3>2, <3>3 DEF EndInv, IsTheEnd
  <2> QED BY <2>1, <2>2
<1> QED BY <1>2, <1>3, <1>4, <1>5 DEF Next

(***************************************************************************)
(* ToldIsSettled is an invariant: run_job publishes an end only after the  *)
(* row says it, so a card that fades on done, failed or cancelled refetches *)
(* a history in which the job has ended that way.                          *)
(***************************************************************************)
THEOREM ToldIsSettledCorrect == Spec => []ToldIsSettled
<1>1. EndInv => ToldIsSettled
  BY DEF EndInv, IsTheEnd, ToldIsSettled
<1> QED BY CallsInit, CallsStep, EndInit, EndStep, ProgressTypeCorrect, <1>1, PTL DEF Spec

-----------------------------------------------------------------------------
(* The bars.                                                               *)

\* The calls c that are still to come say n chunks or more, and so will those of
\* a thread that has done k.
Behind(n, c, k) ==
  n <= k /\ \A i \in 1..Len(c) : c[i] # Result => n <= c[i]

\* Each call says no fewer than those before it, and no more than k.
Rise(c, k) == \A i \in 1..Len(c) : c[i] <= k /\ \A j \in 1..i : c[i] # Result => c[j] <= c[i]

\* What a step does with them: a chunk is done, the thread ends, a call is run.
Moves(c, k, d, l) ==
  \/ d = c /\ l = k
  \/ d = Append(c, k + 1) /\ l = k + 1
  \/ d = Append(c, Result) /\ l = k
  \/ d = Tail(c) /\ l = k /\ c # <<>>

IsBar(e) == e.type = "progress"

\* The bars in a queue rise from m, and the calls to come are past them.
QueueBars(q, m, c, k) ==
  \A i \in 1..Len(q) : IsBar(q[i]) =>
    /\ Behind(q[i].chunk, c, k) /\ m <= q[i].chunk
    /\ \A j \in 1..i : IsBar(q[j]) => q[j].chunk <= q[i].chunk

BarOf(w) ==
  /\ Behind(handler[w].chunk, calls, chunk) /\ Behind(card[w].chunk, calls, chunk)
  /\ QueueBars(queue[w], card[w].chunk, calls, chunk)
  /\ handler[w].pc \in {"off", "row", "register", "files", "send"} =>
       card[w].chunk = 0 /\ queue[w] = <<>> /\ w \notin subs

(***************************************************************************)
(* Inductively: what a card shows, what its snapshot says, what waits in   *)
(* its queue and what is still to be published come in this order, and     *)
(* until its snapshot a card shows nothing and has no subscription.        *)
(***************************************************************************)
BarInv ==
  /\ Rise(calls, chunk)
  /\ Behind(progress, calls, chunk) /\ \A n \in writing : Behind(n, calls, chunk)
  /\ \A w \in Watchers : BarOf(w)

\* Two ways to lengthen the calls, and one to shorten them.
LEMMA MovesKeep ==
  ASSUME NEW c \in Seq(0..Chunks), NEW k \in Nat, Rise(c, k), NEW d, NEW l, Moves(c, k, d, l)
  PROVE  Rise(d, l) /\ \A n \in Nat : Behind(n, c, k) => Behind(n, d, l)
<1>0. Len(c) \in Nat /\ \A i \in 1..Len(c) : c[i] \in Nat
  <2>1. Len(c) \in Nat /\ \A i \in 1..Len(c) : c[i] \in 0..Chunks
    BY LenProperties
  <2> QED BY <2>1
<1>1. CASE d = c /\ l = k
  BY <1>1
<1>2. ASSUME NEW e \in Nat, d = Append(c, e), l \in Nat, k <= l, e <= l, e # Result => e = k + 1
      PROVE  Rise(d, l) /\ \A n \in Nat : Behind(n, c, k) => Behind(n, d, l)
  <2>1. /\ Len(d) = Len(c) + 1 /\ d[Len(c) + 1] = e
        /\ \A i \in 1..Len(c) : d[i] = c[i]
    <3>1. c \in Seq(Nat)
      BY <1>0
    <3> QED BY <1>2, <3>1, AppendProperties
  <2>2. \A i \in 1..Len(d) : i = Len(c) + 1 \/ i \in 1..Len(c)
    BY <1>0, <2>1
  <2>3. Rise(d, l)
    <3> SUFFICES ASSUME NEW i \in 1..Len(d)
                 PROVE  d[i] <= l /\ \A j \in 1..i : d[i] # Result => d[j] <= d[i]
      BY DEF Rise
    <3>1. CASE i \in 1..Len(c)
      <4>1. \A j \in 1..i : j \in 1..Len(c) /\ d[j] = c[j]
        BY <1>0, <2>1, <3>1
      <4>2. d[i] = c[i] /\ c[i] <= k /\ c[i] \in Nat
        BY <1>0, <2>1, <3>1 DEF Rise
      <4> QED BY <1>2, <3>1, <4>1, <4>2 DEF Rise
    <3>2. CASE i = Len(c) + 1
      <4>1. \A j \in 1..i : j = i \/ j \in 1..Len(c)
        BY <1>0, <3>2
      <4>2. \A j \in 1..Len(c) : d[j] <= k /\ d[j] \in Nat
        BY <1>0, <2>1 DEF Rise
      <4>3. d[i] = e
        BY <2>1, <3>2
      <4>4. e # Result => \A j \in 1..Len(c) : d[j] <= e
        BY <1>2, <4>2
      <4> QED BY <1>2, <4>1, <4>3, <4>4
    <3> QED BY <2>2, <3>1, <3>2
  <2>4. ASSUME NEW n \in Nat, Behind(n, c, k) PROVE Behind(n, d, l)
    <3>1. n <= k /\ n <= l /\ (e # Result => n <= e)
      BY <1>2, <2>4 DEF Behind
    <3>2. \A i \in 1..Len(c) : d[i] # Result => n <= d[i]
      BY <2>1, <2>4 DEF Behind
    <3> QED BY <2>1, <2>2, <3>1, <3>2 DEF Behind
  <2> QED BY <2>3, <2>4
<1>3. CASE d = Append(c, k + 1) /\ l = k + 1
  <2>1. k + 1 \in Nat /\ k <= k + 1
    OBVIOUS
  <2> QED BY <1>2, <1>3, <2>1
<1>4. CASE d = Append(c, Result) /\ l = k
  <2>1. Result \in Nat /\ Result <= k
    BY DEF Result
  <2> QED BY <1>2, <1>4, <2>1
<1>5. CASE d = Tail(c) /\ l = k /\ c # <<>>
  <2>1. Len(d) = Len(c) - 1 /\ \A i \in 1..Len(d) : d[i] = c[i + 1]
    BY <1>5, HeadTailProperties
  <2>2. \A i \in 1..Len(d) : i + 1 \in 1..Len(c) /\ \A j \in 1..i : j + 1 \in 1..(i + 1) /\ j \in 1..Len(d)
    BY <1>0, <2>1
  <2>3. Rise(d, l)
    <3> SUFFICES ASSUME NEW i \in 1..Len(d), NEW j \in 1..i
                 PROVE  d[i] <= l /\ (d[i] # Result => d[j] <= d[i])
      BY <2>2, <1>0, <2>1 DEF Rise
    <3>1. i + 1 \in 1..Len(c) /\ j + 1 \in 1..(i + 1) /\ d[i] = c[i+1] /\ d[j] = c[j+1]
      BY <2>1, <2>2
    <3> QED BY <1>5, <3>1 DEF Rise
  <2>4. \A n \in Nat : Behind(n, c, k) => Behind(n, d, l)
    BY <1>5, <2>1, <2>2 DEF Behind
  <2> QED BY <2>3, <2>4
<1> QED BY <1>1, <1>3, <1>4, <1>5 DEF Moves

\* The first call says no more than those to come after it.
LEMMA FirstIsBehind ==
  ASSUME NEW c \in Seq(0..Chunks), NEW k \in Nat, Rise(c, k), c # <<>>
  PROVE  Head(c) = c[1] /\ c[1] \in 0..Chunks /\ Behind(c[1], Tail(c), k)
<1>0. Len(c) \in Nat \ {0} /\ \A i \in 1..Len(c) : c[i] \in 0..Chunks
  BY EmptySeq, LenProperties
<1>1. Len(Tail(c)) = Len(c) - 1 /\ \A i \in 1..Len(Tail(c)) : Tail(c)[i] = c[i + 1]
  BY HeadTailProperties
<1>2. \A i \in 1..Len(Tail(c)) : i + 1 \in 1..Len(c) /\ 1 \in 1..(i + 1)
  BY <1>0, <1>1
<1>3. Head(c) = c[1] /\ 1 \in 1..Len(c)
  BY <1>0
<1> QED BY <1>0, <1>1, <1>2, <1>3 DEF Behind, Rise

\* What Put leaves of the queue, in its order.
LEMMA PutShape ==
  ASSUME NEW q \in Seq(Event), Len(q) <= QueueSize, NEW e \in Event
  PROVE  \E d \in {0, 1} :
           /\ Len(q) - d \in Nat /\ Len(Put(q, e)) = (Len(q) - d) + 1
           /\ Put(q, e)[(Len(q) - d) + 1] = e
           /\ \A i \in 1..(Len(q) - d) : i + d \in 1..Len(q) /\ Put(q, e)[i] = q[i + d]
<1>0. QueueSize \in Nat \ {0} /\ Len(q) \in Nat
  BY ProgressAssumption, LenProperties
<1>1. CASE Len(q) < QueueSize
  <2>1. Put(q, e) = Append(q, e)
    BY <1>1 DEF Put
  <2>2. /\ Len(Append(q, e)) = Len(q) + 1 /\ Append(q, e)[Len(q) + 1] = e
        /\ \A i \in 1..Len(q) : Append(q, e)[i] = q[i]
    BY AppendProperties
  <2>3. Len(q) - 0 = Len(q) /\ \A i \in 1..Len(q) : i + 0 = i
    BY <1>0
  <2> QED BY <1>0, <2>1, <2>2, <2>3
<1>2. CASE ~(Len(q) < QueueSize)
  <2> DEFINE t == Tail(q)
  <2>1. Put(q, e) = Append(t, e) /\ q # <<>>
    BY <1>0, <1>2, EmptySeq DEF Put
  <2>2. t \in Seq(Event) /\ Len(t) = Len(q) - 1 /\ \A i \in 1..Len(t) : t[i] = q[i + 1]
    BY <2>1, HeadTailProperties
  <2> HIDE DEF t
  <2>3. /\ Len(Append(t, e)) = Len(t) + 1 /\ Append(t, e)[Len(t) + 1] = e
        /\ \A i \in 1..Len(t) : Append(t, e)[i] = t[i]
    BY <2>2, AppendProperties
  <2>4. Len(t) \in Nat /\ \A i \in 1..Len(t) : i + 1 \in 1..Len(q)
    BY <1>0, <2>2, LenProperties
  <2> QED BY <2>1, <2>2, <2>3, <2>4
<1> QED BY <1>1, <1>2

\* The bars of a queue are in order after Put, if the event is past them.
LEMMA PutBars ==
  ASSUME NEW q \in Seq(Event), Len(q) <= QueueSize, NEW e \in Event,
         NEW m \in Nat, NEW c, NEW k, NEW d, NEW l,
         QueueBars(q, m, c, k), \A n \in Nat : Behind(n, c, k) => Behind(n, d, l),
         IsBar(e) => /\ Behind(e.chunk, d, l) /\ m <= e.chunk
                     /\ \A i \in 1..Len(q) : IsBar(q[i]) => q[i].chunk <= e.chunk
  PROVE  QueueBars(Put(q, e), m, d, l)
<1>1. PICK b \in {0, 1} :
        /\ Len(q) - b \in Nat /\ Len(Put(q, e)) = (Len(q) - b) + 1
        /\ Put(q, e)[(Len(q) - b) + 1] = e
        /\ \A i \in 1..(Len(q) - b) : i + b \in 1..Len(q) /\ Put(q, e)[i] = q[i + b]
  BY PutShape
<1> DEFINE p == Put(q, e)
           a == Len(q) - b
<1>2. /\ a \in Nat /\ Len(p) = a + 1 /\ p[a + 1] = e
      /\ \A i \in 1..a : i + b \in 1..Len(q) /\ p[i] = q[i + b]
  BY <1>1
<1>3. \A i \in 1..Len(q) : q[i] \in Event /\ q[i].chunk \in Nat
  <2>1. \A i \in 1..Len(q) : q[i] \in Event
    BY ElementOfSeq
  <2> QED BY <2>1 DEF Event
<1>4. e.chunk \in Nat
  BY DEF Event
<1> HIDE DEF p, a
<1> SUFFICES ASSUME NEW i \in 1..Len(p), IsBar(p[i])
             PROVE  /\ Behind(p[i].chunk, d, l) /\ m <= p[i].chunk
                    /\ \A j \in 1..i : IsBar(p[j]) => p[j].chunk <= p[i].chunk
  BY DEF QueueBars, p
<1>5. CASE i = a + 1
  <2>1. p[i] = e /\ IsBar(e)
    BY <1>2, <1>5
  <2>2. ASSUME NEW j \in 1..i, IsBar(p[j]) PROVE p[j].chunk <= p[i].chunk
    <3>1. CASE j = i
      BY <1>4, <2>1, <3>1
    <3>2. CASE j # i
      <4>1. j \in 1..a
        BY <1>2, <1>5, <3>2
      <4> QED BY <1>2, <2>1, <2>2, <4>1
    <3> QED BY <3>1, <3>2
  <2> QED BY <2>1, <2>2
<1>6. CASE i # a + 1
  <2>1. i \in 1..a /\ i + b \in 1..Len(q) /\ p[i] = q[i + b]
    BY <1>2, <1>6
  <2>2. Behind(p[i].chunk, d, l) /\ m <= p[i].chunk
    BY <1>3, <2>1 DEF QueueBars
  <2>3. ASSUME NEW j \in 1..i, IsBar(p[j]) PROVE p[j].chunk <= p[i].chunk
    <3>1. j \in 1..a /\ j + b \in 1..(i + b)
      BY <1>2, <2>1
    <3>2. p[j] = q[j + b]
      BY <1>2, <3>1
    <3> QED BY <2>1, <2>3, <3>1, <3>2 DEF QueueBars
  <2> QED BY <2>2, <2>3
<1> QED BY <1>5, <1>6

\* The first event of a queue is shown, and the rest is past it.
LEMMA TailBars ==
  ASSUME NEW q \in Seq(Event), q # <<>>, NEW m \in Nat, NEW c, NEW k,
         Behind(m, c, k), QueueBars(q, m, c, k),
         NEW s, s = IF IsBar(q[1]) THEN q[1].chunk ELSE m
  PROVE  QueueBars(Tail(q), s, c, k) /\ Behind(s, c, k) /\ m <= s
<1>1. Len(q) \in Nat \ {0} /\ q[1] \in Event /\ 1 \in 1..Len(q)
  BY EmptySeq, ElementOfSeq
<1>2. Behind(s, c, k) /\ m <= s
  BY <1>1 DEF QueueBars
<1> DEFINE t == Tail(q)
<1>3. Len(t) = Len(q) - 1 /\ \A i \in 1..Len(t) : t[i] = q[i + 1]
  BY HeadTailProperties
<1> HIDE DEF t
<1>4. \A i \in 1..Len(t) : /\ i + 1 \in 1..Len(q) /\ 1 \in 1..(i + 1)
                           /\ \A j \in 1..i : j + 1 \in 1..(i + 1) /\ j \in 1..Len(t)
  BY <1>1, <1>3
<1>5. ASSUME NEW i \in 1..Len(t), IsBar(t[i])
      PROVE  /\ Behind(t[i].chunk, c, k) /\ s <= t[i].chunk
             /\ \A j \in 1..i : IsBar(t[j]) => t[j].chunk <= t[i].chunk
  <2>1. t[i] = q[i + 1] /\ i + 1 \in 1..Len(q) /\ 1 \in 1..(i + 1)
    BY <1>3, <1>4
  <2>2. Behind(t[i].chunk, c, k) /\ m <= t[i].chunk /\ (IsBar(q[1]) => q[1].chunk <= t[i].chunk)
    BY <1>5, <2>1 DEF QueueBars
  <2>3. \A j \in 1..i : IsBar(t[j]) => t[j].chunk <= t[i].chunk
    <3> SUFFICES ASSUME NEW j \in 1..i, IsBar(t[j]) PROVE t[j].chunk <= t[i].chunk
      OBVIOUS
    <3>1. t[j] = q[j + 1] /\ j + 1 \in 1..(i + 1)
      BY <1>3, <1>4
    <3> QED BY <1>5, <2>1, <3>1 DEF QueueBars
  <2> QED BY <2>2, <2>3
<1> QED BY <1>2, <1>5 DEF QueueBars, t

\* The bar that an event is published with, if it is one, is behind the calls
\* to come and not behind what was published before it.
LEMMA PublishKeepsBars ==
  ASSUME TypeOK, BarInv, UNCHANGED <<handler, card>>, Moves(calls, chunk, calls', chunk'),
         NEW type, NEW n, [type |-> type, chunk |-> n] \in Event, Publish(type, n),
         type = "progress" =>
           Behind(n, calls', chunk') /\ \A m \in Nat : Behind(m, calls, chunk) => m <= n
  PROVE  \A w \in Watchers : BarOf(w)'
<1> DEFINE e == [type |-> type, chunk |-> n]
<1>1. /\ subs' = subs
      /\ queue' = [w \in Watchers |-> IF w \in subs THEN Put(queue[w], e) ELSE queue[w]]
  BY DEF Publish
<1>2. /\ calls \in Seq(0..Chunks) /\ chunk \in Nat
      /\ Rise(calls, chunk)
  BY DEF TypeOK, BarInv
<1>3. \A m \in Nat : Behind(m, calls, chunk) => Behind(m, calls', chunk')
  BY <1>2, MovesKeep
<1>4. e \in Event /\ e.chunk = n /\ (IsBar(e) <=> type = "progress")
  BY DEF IsBar
<1> HIDE DEF e
<1>5. SUFFICES ASSUME NEW w \in Watchers PROVE BarOf(w)'
  OBVIOUS
<1>6. /\ queue[w] \in Seq(Event) /\ Len(queue[w]) <= QueueSize
      /\ card[w].chunk \in Nat /\ handler[w].chunk \in Nat
  BY DEF TypeOK
<1>7. /\ Behind(handler[w].chunk, calls, chunk) /\ Behind(card[w].chunk, calls, chunk)
      /\ QueueBars(queue[w], card[w].chunk, calls, chunk)
      /\ handler[w].pc \in {"off", "row", "register", "files", "send"} =>
           card[w].chunk = 0 /\ queue[w] = <<>> /\ w \notin subs
  BY DEF BarInv, BarOf
<1>8. \A i \in 1..Len(queue[w]) : queue[w][i].chunk \in Nat
  <2>1. \A i \in 1..Len(queue[w]) : queue[w][i] \in Event
    BY <1>6, ElementOfSeq
  <2> QED BY <2>1 DEF Event
<1>9. QueueBars(queue'[w], card[w].chunk, calls', chunk')
  <2>1. CASE w \in subs
    <3>1. queue'[w] = Put(queue[w], e)
      BY <1>1, <2>1
    <3>2. IsBar(e) => /\ Behind(e.chunk, calls', chunk') /\ card[w].chunk <= e.chunk
                      /\ \A i \in 1..Len(queue[w]) : IsBar(queue[w][i]) => queue[w][i].chunk <= e.chunk
      BY <1>4, <1>6, <1>7, <1>8 DEF QueueBars
    <3> QED BY <1>3, <1>4, <1>6, <1>7, <3>1, <3>2, PutBars
  <2>2. CASE w \notin subs
    <3>1. queue'[w] = queue[w]
      BY <1>1, <2>2
    <3> QED BY <1>3, <1>7, <1>8, <3>1 DEF QueueBars
  <2> QED BY <2>1, <2>2
<1>10. w \notin subs => queue'[w] = queue[w]
  BY <1>1
<1> QED BY <1>1, <1>3, <1>6, <1>7, <1>9, <1>10 DEF BarOf

\* A step that publishes nothing.
LEMMA MovesKeepBars ==
  ASSUME TypeOK, BarInv, UNCHANGED <<handler, card, queue, subs>>,
         Moves(calls, chunk, calls', chunk')
  PROVE  \A w \in Watchers : BarOf(w)'
<1>2. calls \in Seq(0..Chunks) /\ chunk \in Nat /\ Rise(calls, chunk)
  BY DEF TypeOK, BarInv
<1>3. \A m \in Nat : Behind(m, calls, chunk) => Behind(m, calls', chunk')
  BY <1>2, MovesKeep
<1>5. SUFFICES ASSUME NEW w \in Watchers PROVE BarOf(w)'
  OBVIOUS
<1>6. queue[w] \in Seq(Event) /\ card[w].chunk \in Nat /\ handler[w].chunk \in Nat
  BY DEF TypeOK
<1>8. \A i \in 1..Len(queue[w]) : queue[w][i].chunk \in Nat
  <2>1. \A i \in 1..Len(queue[w]) : queue[w][i] \in Event
    BY <1>6, ElementOfSeq
  <2> QED BY <2>1 DEF Event
<1>7. /\ Behind(handler[w].chunk, calls, chunk) /\ Behind(card[w].chunk, calls, chunk)
      /\ QueueBars(queue[w], card[w].chunk, calls, chunk)
      /\ handler[w].pc \in {"off", "row", "register", "files", "send"} =>
           card[w].chunk = 0 /\ queue[w] = <<>> /\ w \notin subs
  BY DEF BarInv, BarOf
<1>9. QueueBars(queue[w], card[w].chunk, calls', chunk')
  BY <1>3, <1>7, <1>8 DEF QueueBars
<1> QED BY <1>3, <1>6, <1>7, <1>9 DEF BarOf

\* run_job, its thread and its writes of progress.json.
LEMMA JobKeepsBars ==
  ASSUME TypeOK, BarInv, JobStep \/ CancelQueued \/ (\E n \in 1..Chunks : Persist(n)) \/ UNCHANGED vars
  PROVE  BarInv' /\ card' = card
<1>1. /\ calls \in Seq(0..Chunks) /\ chunk \in Nat /\ Rise(calls, chunk)
      /\ progress \in Nat /\ writing \subseteq Nat
  <2>1. 1..Chunks \subseteq Nat
    OBVIOUS
  <2> QED BY <2>1 DEF TypeOK, BarInv
<1>2. UNCHANGED <<handler, card, subs>>
  BY DEF JobStep, Start, Loaded, LoadFailed, ChunkDone, ThreadEnds, OnProgress, TakeResult,
         Commit, PublishEnd, CancelQueued, Persist, Publish, bus, vars
<1>3. Moves(calls, chunk, calls', chunk')
  BY DEF JobStep, Start, Loaded, LoadFailed, ChunkDone, ThreadEnds, OnProgress, TakeResult,
         Commit, PublishEnd, CancelQueued, Persist, bus, vars, job, Moves
<1>4. Rise(calls', chunk') /\ \A m \in Nat : Behind(m, calls, chunk) => Behind(m, calls', chunk')
  BY <1>1, <1>3, MovesKeep
<1>5. CASE OnProgress
  <2> DEFINE n == calls[1]
  <2>1. /\ calls # <<>> /\ Head(calls) # Result /\ calls' = Tail(calls) /\ chunk' = chunk
        /\ Publish("progress", Head(calls)) /\ progress' = progress
        /\ writing' \in {writing, writing \cup {Head(calls)}}
    BY <1>5 DEF OnProgress
  <2>2. Head(calls) = n /\ n \in 0..Chunks /\ Behind(n, Tail(calls), chunk)
    BY <1>1, <2>1, FirstIsBehind
  <2> HIDE DEF n
  <2>3. Behind(n, calls', chunk')
    BY <2>1, <2>2
  <2>4. \A m \in Nat : Behind(m, calls, chunk) => m <= n
    <3>1. 1 \in 1..Len(calls) /\ calls[1] = n /\ n # Result
      BY <1>1, <2>1, <2>2, EmptySeq DEF n
    <3> QED BY <3>1 DEF Behind
  <2>5. [type |-> "progress", chunk |-> n] \in Event
    BY <2>2, EventsAre
  <2>6. \A w \in Watchers : BarOf(w)'
    BY <1>2, <1>3, <2>1, <2>2, <2>3, <2>4, <2>5, PublishKeepsBars
  <2>7. Behind(progress, calls', chunk') /\ \A m \in writing' : Behind(m, calls', chunk')
    BY <1>1, <1>4, <2>1, <2>2, <2>3 DEF BarInv
  <2> QED BY <1>2, <1>4, <2>1, <2>6, <2>7 DEF BarInv
<1>6. CASE ~OnProgress
  <2>1. /\ writing' \subseteq writing
        /\ progress' = progress \/ progress' \in writing
    BY <1>6 DEF JobStep, Start, Loaded, LoadFailed, ChunkDone, ThreadEnds, TakeResult,
                Commit, PublishEnd, CancelQueued, Persist, vars, job
  <2>2. Behind(progress', calls', chunk') /\ \A m \in writing' : Behind(m, calls', chunk')
    BY <1>1, <1>4, <2>1 DEF BarInv
  <2>3. CASE Start \/ Loaded \/ PublishEnd
    <3>1. PICK type \in {"stage_changed", outcome} : Publish(type, 0)
      BY <2>3 DEF Start, Loaded, PublishEnd
    <3>2. type # "progress" /\ [type |-> type, chunk |-> 0] \in Event
      BY EventsAre DEF TypeOK, Terminal
    <3>3. \A w \in Watchers : BarOf(w)'
      BY <1>2, <1>3, <3>1, <3>2, PublishKeepsBars
    <3> QED BY <1>2, <1>4, <2>2, <3>3 DEF BarInv
  <2>4. CASE ~(Start \/ Loaded \/ PublishEnd)
    <3>1. queue' = queue
      BY <1>6, <2>4 DEF JobStep, LoadFailed, ChunkDone, ThreadEnds, TakeResult,
                        Commit, CancelQueued, Persist, bus, vars
    <3>2. \A w \in Watchers : BarOf(w)'
      BY <1>2, <1>3, <3>1, MovesKeepBars
    <3> QED BY <1>2, <1>4, <2>2, <3>2 DEF BarInv
  <2> QED BY <2>3, <2>4
<1> QED BY <1>5, <1>6

\* What a step of watcher w does to the chunk its card shows.
LEMMA ShowsIs ==
  ASSUME TypeOK, NEW w \in Watchers, NEW x
  PROVE  /\ card' = [card EXCEPT ![w].state = x] =>
              \A v \in Watchers : card'[v].chunk = card[v].chunk
         /\ Tell(w, x) => \A v \in Watchers : card'[v].chunk = card[v].chunk
         /\ card' = [card EXCEPT ![w].chunk = x] =>
              \A v \in Watchers : card'[v].chunk = IF v = w THEN x ELSE card[v].chunk
<1>1. card \in [Watchers -> CardType]
  BY DEF TypeOK, CardType
<1> DEFINE s == [card[w] EXCEPT !.state = x]
           c == [card[w] EXCEPT !.chunk = x]
           t == IF card[w].state = "shown"
                THEN [card[w] EXCEPT !.state = "fading", !.told = x] ELSE card[w]
<1>2. s.chunk = card[w].chunk /\ c.chunk = x /\ t.chunk = card[w].chunk
  BY <1>1 DEF CardType
<1>3. /\ card' = [card EXCEPT ![w].state = x] => card' = [v \in Watchers |-> IF v = w THEN s ELSE card[v]]
      /\ Tell(w, x) => card' = [v \in Watchers |-> IF v = w THEN t ELSE card[v]]
      /\ card' = [card EXCEPT ![w].chunk = x] => card' = [v \in Watchers |-> IF v = w THEN c ELSE card[v]]
  BY <1>1 DEF Tell
<1> HIDE DEF s, c, t
<1> QED BY <1>2, <1>3

\* A handler that goes on keeps its snapshot.
LEMMA GoToChunk ==
  ASSUME TypeOK, NEW w \in Watchers, NEW pc, GoTo(w, pc)
  PROVE  \A v \in Watchers : handler'[v].chunk = handler[v].chunk
<1> DEFINE h == [handler[w] EXCEPT !.pc = pc]
<1>1. handler \in [Watchers -> [pc : HandlerPc, chunk : 0..Chunks]]
  BY DEF TypeOK
<1>2. h.chunk = handler[w].chunk
  BY <1>1
<1>3. handler' = [v \in Watchers |-> IF v = w THEN h ELSE handler[v]]
  BY <1>1 DEF GoTo
<1> HIDE DEF h
<1> QED BY <1>2, <1>3

\* What is shown stays, and so do the events, if the card and the queue do;
\* only the handler goes on.
LEMMA StandKeepsBars ==
  ASSUME TypeOK, BarInv, NEW w \in Watchers, UNCHANGED job,
         UNCHANGED <<queue, subs>>, \A v \in Watchers : card'[v].chunk = card[v].chunk,
         \A v \in Watchers : v # w => handler'[v] = handler[v],
         handler'[w].chunk \in {handler[w].chunk, progress},
         \/ handler'[w].pc \in {handler[w].pc, "end"}
         \/ handler[w].pc \in {"off", "row", "register", "files", "send"}
  PROVE  BarInv' /\ \A v \in Watchers : card'[v].chunk = card[v].chunk
<1>1. ASSUME NEW v \in Watchers PROVE BarOf(v)'
  <2>1. /\ Behind(handler'[v].chunk, calls, chunk)
        /\ handler'[v].pc \in {"off", "row", "register", "files", "send"} =>
             handler[v].pc \in {"off", "row", "register", "files", "send"}
    BY DEF BarInv, BarOf
  <2> QED BY <2>1 DEF BarInv, BarOf, job
<1> QED BY <1>1 DEF BarInv, job

\* The snapshot is behind the calls to come, and the card showed nothing.
LEMMA SendKeepsBars ==
  ASSUME TypeOK, BarInv, NEW w \in Watchers, SendSnapshot(w)
  PROVE  BarInv' /\ \A v \in Watchers : card'[v].chunk >= card[v].chunk
<1>0. /\ handler[w].pc = "send" /\ UNCHANGED job /\ queue' = queue
      /\ card[w].chunk = 0 /\ queue[w] = <<>> /\ w \notin subs
      /\ handler[w].chunk \in Nat /\ \A v \in Watchers : card[v].chunk \in Nat
      /\ handler \in [Watchers -> [pc : HandlerPc, chunk : 0..Chunks]]
  BY DEF SendSnapshot, At, BarInv, BarOf, TypeOK
<1>1. CASE IsHere(w)
  <2>1. /\ card' = [card EXCEPT ![w].chunk = handler[w].chunk]
        /\ subs' = subs \cup {w} /\ GoTo(w, "relay")
    BY <1>1 DEF SendSnapshot
  <2>2. \A v \in Watchers : card'[v].chunk = IF v = w THEN handler[w].chunk ELSE card[v].chunk
    BY <2>1, ShowsIs
  <2>3. /\ \A v \in Watchers : handler'[v].pc = IF v = w THEN "relay" ELSE handler[v].pc
        /\ \A v \in Watchers : handler'[v].chunk = handler[v].chunk
    BY <1>0, <2>1, GoToIs, GoToChunk
  <2>4. Len(queue[w]) = 0
    BY <1>0, EmptySeq
  <2>5. ASSUME NEW v \in Watchers PROVE BarOf(v)'
    <3>1. CASE v = w
      <4>1. QueueBars(queue[w], handler[w].chunk, calls, chunk)
        BY <2>4 DEF QueueBars
      <4> QED BY <1>0, <2>2, <2>3, <3>1, <4>1 DEF BarInv, BarOf, job
    <3>2. CASE v # w
      BY <1>0, <2>1, <2>2, <2>3, <3>2 DEF BarInv, BarOf, job
    <3> QED BY <3>1, <3>2
  <2> QED BY <1>0, <2>2, <2>5 DEF BarInv, job
<1>2. CASE ~IsHere(w)
  <2>1. UNCHANGED <<card, subs>> /\ GoTo(w, "end")
    BY <1>2 DEF SendSnapshot
  <2>2. /\ handler'[w].pc = "end" /\ handler'[w].chunk = handler[w].chunk
        /\ \A v \in Watchers : v # w => handler'[v] = handler[v]
    BY <1>0, <2>1, GoToIs, GoToChunk DEF GoTo
  <2>3. BarInv' /\ \A v \in Watchers : card'[v].chunk = card[v].chunk
    BY <1>0, <2>1, <2>2, StandKeepsBars
  <2> QED BY <1>0, <2>3
<1> QED BY <1>1, <1>2

\* The first event of the queue is shown.
LEMMA RelayKeepsBars ==
  ASSUME TypeOK, BarInv, NEW w \in Watchers, Relay(w)
  PROVE  BarInv' /\ \A v \in Watchers : card'[v].chunk >= card[v].chunk
<1>0. /\ handler[w].pc = "relay" /\ UNCHANGED job /\ queue[w] # <<>>
      /\ queue[w] \in Seq(Event) /\ queue \in [Watchers -> Seq(Event)]
      /\ \A v \in Watchers : card[v].chunk \in Nat
      /\ Behind(card[w].chunk, calls, chunk) /\ QueueBars(queue[w], card[w].chunk, calls, chunk)
  BY DEF Relay, At, BarInv, BarOf, TypeOK
<1>1. CASE IsHere(w)
  <2> DEFINE e == queue[w][1]
             s == IF IsBar(e) THEN e.chunk ELSE card[w].chunk
  <2>1. /\ Receive(w, Head(queue[w])) /\ queue' = [queue EXCEPT ![w] = Tail(@)]
        /\ UNCHANGED <<subs, handler>>
    BY <1>1 DEF Relay
  <2>2. Head(queue[w]) = e /\ e \in Event
    BY <1>0, EmptySeq, ElementOfSeq
  <2>3. \A v \in Watchers : card'[v].chunk = IF v = w THEN s ELSE card[v].chunk
    <3> HIDE DEF e
    <3>1. CASE e.type \in Terminal
      <4>1. Tell(w, e.type) /\ ~IsBar(e)
        BY <2>1, <2>2, <3>1 DEF Receive, IsBar, Terminal
      <4> QED BY <4>1, ShowsIs
    <3>2. CASE e.type \notin Terminal
      <4>1. card' = [card EXCEPT ![w].chunk = s]
        BY <2>1, <2>2, <3>2 DEF Receive, IsBar
      <4> HIDE DEF s
      <4> QED BY <4>1, ShowsIs
    <3> QED BY <3>1, <3>2
  <2>4. QueueBars(Tail(queue[w]), s, calls, chunk) /\ Behind(s, calls, chunk) /\ card[w].chunk <= s
    BY <1>0, TailBars
  <2>5. s \in Nat
    BY <1>0, <2>2 DEF Event
  <2> HIDE DEF e, s
  <2>6. \A v \in Watchers : queue'[v] = IF v = w THEN Tail(queue[w]) ELSE queue[v]
    BY <1>0, <2>1
  <2>7. ASSUME NEW v \in Watchers PROVE BarOf(v)'
    <3>1. CASE v = w
      BY <1>0, <2>1, <2>3, <2>4, <2>6, <3>1 DEF BarInv, BarOf, job
    <3>2. CASE v # w
      BY <1>0, <2>1, <2>3, <2>6, <3>2 DEF BarInv, BarOf, job
    <3> QED BY <3>1, <3>2
  <2> QED BY <1>0, <2>3, <2>4, <2>5, <2>7 DEF BarInv, job
<1>2. CASE ~IsHere(w)
  <2>1. /\ UNCHANGED card /\ subs' = subs \ {w} /\ queue' = [queue EXCEPT ![w] = <<>>]
        /\ GoTo(w, "end")
    BY <1>2 DEF Relay
  <2>2. /\ \A v \in Watchers : handler'[v].pc = IF v = w THEN "end" ELSE handler[v].pc
        /\ \A v \in Watchers : handler'[v].chunk = handler[v].chunk
    BY <2>1, GoToIs, GoToChunk
  <2>3. \A v \in Watchers : queue'[v] = IF v = w THEN <<>> ELSE queue[v]
    BY <1>0, <2>1
  <2>4. ASSUME NEW v \in Watchers PROVE BarOf(v)'
    <3>1. CASE v = w
      <4>1. QueueBars(<<>>, card[w].chunk, calls, chunk)
        BY DEF QueueBars
      <4> QED BY <1>0, <2>1, <2>2, <2>3, <3>1, <4>1 DEF BarInv, BarOf, job
    <3>2. CASE v # w
      BY <1>0, <2>1, <2>2, <2>3, <3>2 DEF BarInv, BarOf, job
    <3> QED BY <3>1, <3>2
  <2> QED BY <1>0, <2>1, <2>4 DEF BarInv, job
<1> QED BY <1>1, <1>2

\* Every step keeps the bars in order.
LEMMA BarStep ==
  ASSUME TypeOK, BarInv, [Next]_vars
  PROVE  BarInv' /\ \A w \in Watchers : card'[w].chunk >= card[w].chunk
<1>0. /\ \A v \in Watchers : card[v].chunk \in Nat
      /\ handler \in [Watchers -> [pc : HandlerPc, chunk : 0..Chunks]]
  BY DEF TypeOK
<1>1. CASE JobStep \/ CancelQueued \/ (\E n \in 1..Chunks : Persist(n)) \/ UNCHANGED vars
  BY <1>0, <1>1, JobKeepsBars
<1>2. ASSUME NEW w \in Watchers, Connect(w) \/ HandlerStep(w) \/ Unmount(w) \/ Leave(w)
      PROVE  BarInv' /\ \A v \in Watchers : card'[v].chunk >= card[v].chunk
  <2>1. CASE SendSnapshot(w)
    BY <2>1, SendKeepsBars
  <2>2. CASE Relay(w)
    BY <2>2, RelayKeepsBars
  <2>3. CASE Connect(w) \/ ReadRow(w) \/ Register(w) \/ ReadFiles(w) \/ Unmount(w) \/ Leave(w)
    <3>1. UNCHANGED job /\ UNCHANGED <<queue, subs>>
      BY <2>3 DEF Connect, ReadRow, Register, ReadFiles, Unmount, Leave, bus
    <3>2. \A v \in Watchers : card'[v].chunk = card[v].chunk
      <4>1. CASE Connect(w) \/ Unmount(w) \/ Leave(w)
        <5>1. PICK x : card' = [card EXCEPT ![w].state = x]
          BY <4>1 DEF Connect, Unmount, Leave
        <5> QED BY <5>1, ShowsIs
      <4>2. CASE Register(w)
        BY <4>2, ShowsIs DEF Register
      <4>3. CASE ReadRow(w) \/ ReadFiles(w)
        BY <4>3 DEF ReadRow, ReadFiles
      <4> QED BY <2>3, <4>1, <4>2, <4>3
    <3>3. CASE ReadFiles(w)
      <4>1. handler[w].pc = "files" /\ handler' = [handler EXCEPT ![w] = [pc |-> "send", chunk |-> progress]]
        BY <3>3 DEF ReadFiles, At
      <4>2. handler'[w].chunk = progress /\ \A v \in Watchers : v # w => handler'[v] = handler[v]
        BY <1>0, <4>1
      <4>3. BarInv' /\ \A v \in Watchers : card'[v].chunk = card[v].chunk
        BY <3>1, <3>2, <4>1, <4>2, StandKeepsBars
      <4> QED BY <1>0, <4>3
    <3>4. CASE Connect(w) \/ ReadRow(w) \/ Register(w) \/ Unmount(w) \/ Leave(w)
      <4>1. \/ handler' = handler
            \/ /\ handler[w].pc \in {"off", "row", "register"}
               /\ \E pc : GoTo(w, pc)
        BY <3>4 DEF Connect, ReadRow, Register, Unmount, Leave, At
      <4>2. /\ \A v \in Watchers : v # w => handler'[v] = handler[v]
            /\ handler'[w].chunk = handler[w].chunk
        BY <1>0, <4>1, GoToChunk DEF GoTo
      <4>3. BarInv' /\ \A v \in Watchers : card'[v].chunk = card[v].chunk
        BY <3>1, <3>2, <4>1, <4>2, StandKeepsBars
      <4> QED BY <1>0, <4>3
    <3> QED BY <2>3, <3>3, <3>4
  <2> QED BY <1>2, <2>1, <2>2, <2>3 DEF HandlerStep
<1> QED BY <1>1, <1>2 DEF Next

\* At first nothing is shown.
LEMMA BarInit == Init => BarInv
<1> SUFFICES ASSUME Init PROVE BarInv
  OBVIOUS
<1>1. /\ calls = <<>> /\ chunk = 0 /\ progress = 0 /\ writing = {} /\ subs = {}
      /\ \A w \in Watchers : queue[w] = <<>> /\ handler[w].chunk = 0 /\ card[w].chunk = 0
  BY DEF Init
<1>2. Len(<<>>) = 0
  OBVIOUS
<1>3. Behind(0, <<>>, 0) /\ Rise(<<>>, 0) /\ QueueBars(<<>>, 0, <<>>, 0)
  BY <1>2 DEF Behind, Rise, QueueBars
<1> QED BY <1>1, <1>3 DEF BarInv, BarOf

(***************************************************************************)
(* BarNeverGoesBack is an action property of the stream: the thread's      *)
(* calls reach the loop in order, a full queue drops its oldest event, and *)
(* the subscription comes after the snapshot, so no watcher's bar goes     *)
(* back.                                                                   *)
(***************************************************************************)
THEOREM BarNeverGoesBackCorrect == Spec => BarNeverGoesBack
<1>1. TypeOK /\ BarInv /\ [Next]_vars => BarInv'
  BY BarStep
<1>2. Spec => []BarInv
  BY BarInit, <1>1, ProgressTypeCorrect, PTL DEF Spec
<1>3. TypeOK /\ BarInv /\ [Next]_vars => [\A w \in Watchers : card'[w].chunk >= card[w].chunk]_vars
  BY BarStep
<1> QED BY <1>2, <1>3, ProgressTypeCorrect, PTL DEF Spec, BarNeverGoesBack

=============================================================================
