---------------------------- MODULE AiPipelineProofs ---------------------------
(***************************************************************************)
(* The safety properties of AiPipeline, for any number of tasks, replicas  *)
(* and faults.  Inv is the inductive invariant: Known ties a task to its   *)
(* request, Bounded its row's attempts to the drains that hold it, Counted *)
(* its runs to its claims, Found the stale claims to their age, and        *)
(* FirstRun says what the run of the first claim has written while nobody  *)
(* has taken the claim over.                                               *)
(***************************************************************************)
EXTENDS AiPipeline, FiniteSetTheorems, TLAPS

\* Nothing is known of a task before its request has inserted it.
Known ==
    \A t \in Tasks :
        /\ handler[t] = "idle" => trace[t] = "absent" /\ \A o \in DOMAIN log : log[o] # t
        /\ handler[t] \in {"idle", "inserted"} => outbox[t] = "none" /\ attempts[t] = 0
        /\ outbox[t] = "none" => \A w \in Replicas : batch[w][t].place = "none"

\* The replicas whose drain has t's row in its batch.
Holders(t) == {w \in Replicas : batch[w][t].place # "none"}

\* Each of them may count one attempt more.
BoundedOf(t) == attempts[t] + Cardinality(Holders(t)) <= AttemptsBound

\* Deliveries of t that are done with the ledger, or died before they could be.
Seen(t) == {d \in DOMAIN delivery : TaskOf(d) = t /\ delivery[d].place \notin {"started", "found"}}

\* How often t has been claimed.
Claims(t) == takeovers[t] + (IF ledger[t] = "none" THEN 0 ELSE 1)

\* Each claim is one delivery's, and each run has one.
CountedOf(t) ==
    /\ Claims(t) <= Cardinality(Seen(t))
    /\ Cardinality(Runs(t)) <= Claims(t)
    /\ ledger[t] = "none" => takeovers[t] = 0 /\ Runs(t) = {}
    /\ takeovers[t] <= aged[t] /\ aged[t] <= takeovers[t] + 1

Settled(t) == trace[t] \in Terminal /\ (trace[t] = "completed" => t \in result)

\* What a run at this place has written of t.
Written(t, place) ==
    /\ place \in {"claimed", "working"} => trace[t] \notin Terminal
    /\ place = "emitted" => trace[t] # "failed"
    /\ t \notin lostWrite =>
          /\ place = "emitted" => trace[t] = "completed"
          /\ place = "terminal" => Settled(t)

\* While the claim has not been taken over there is one run at most, and its key is
\* finalized after it.
FirstRunOf(t) ==
    takeovers[t] = 0 =>
        /\ \A d, e \in Runs(t) : d = e
        /\ \A d \in Runs(t) : Written(t, delivery[d].place)
        /\ ledger[t] = "none" => trace[t] \notin Terminal
        /\ ledger[t] = "completed" => Runs(t) = {} /\ (t \notin lostWrite => Settled(t))

\* A stale claim that was found has aged since it was made.
FoundAt(d) ==
    delivery[d].place = "found" =>
        ledger[TaskOf(d)] # "none" /\ delivery[d].found < aged[TaskOf(d)]

Bounded  == \A t \in Tasks : BoundedOf(t)
Found    == \A d \in DOMAIN delivery : FoundAt(d)
Counted  == \A t \in Tasks : CountedOf(t)
FirstRun == \A t \in Tasks : FirstRunOf(t)

\* TypeOK in three parts: what is kept per task, its row, and the partition with its deliveries.
TaskTypes ==
    /\ handler \in [Tasks -> {"idle", "inserted", "202", "500", "503", "crashed"}]
    /\ trace \in [Tasks -> {"absent", "pending", "running"} \cup Terminal]
    /\ result \in SUBSET Tasks
    /\ ledger \in [Tasks -> {"none", "in_progress", "completed"}]
    /\ aged \in [Tasks -> 0..(MaxDeliveries + 1)]
    /\ takeovers \in [Tasks -> 0..MaxDeliveries]
    /\ lostWrite \in SUBSET Tasks
    /\ faults \in 0..MaxFaults

RowTypes ==
    /\ outbox \in [Tasks -> {"none", "stored", "delivered"}]
    /\ attempts \in [Tasks -> 0..AttemptsBound]
    /\ flagged \in SUBSET Tasks
    /\ batch \in [Replicas -> [Tasks -> BatchRows]]

PartitionTypes ==
    /\ log \in Seq(Tasks) /\ Len(log) <= MaxLog
    /\ committed \in 0..Len(log)
    /\ owner \in Replicas \cup {NoOne}
    /\ position \in 0..Len(log)
    /\ awaited \in [Replicas -> 0..Len(delivery)]
    /\ delivery \in Seq(Deliveries)
    /\ Len(delivery) <= MaxDeliveries
    /\ \A d \in DOMAIN delivery : delivery[d].offset <= Len(log)

Inv == TypeOK /\ Known /\ Bounded /\ Found /\ Counted /\ FirstRun

-------------------------------------------------------------------------------
\* Lemma: the parts of TypeOK, now and in the next state.
LEMMA TypeParts ==
    /\ TypeOK <=> TaskTypes /\ RowTypes /\ PartitionTypes
    /\ TypeOK' <=> TaskTypes' /\ RowTypes' /\ PartitionTypes'
BY DEF TypeOK, TaskTypes, RowTypes, PartitionTypes

\* Lemma: the bound on attempts is a number.
LEMMA AttemptsBoundFact ==
    /\ AttemptsBound \in Nat /\ Cardinality(Replicas) \in Nat
    /\ MaxAttempts \in Nat \ {0} /\ AttemptsBound = MaxAttempts - 1 + Cardinality(Replicas)
BY ReplicasAssumption, BoundsAssumption, FS_CardinalityType DEF AttemptsBound

\* Lemma: what is counted of a task are numbers.
LEMMA TaskFacts ==
    ASSUME TypeOK, NEW t \in Tasks
    PROVE  /\ takeovers[t] \in Nat /\ aged[t] \in Nat /\ attempts[t] \in Nat
           /\ Claims(t) \in Nat
<1>1. /\ takeovers[t] \in 0..MaxDeliveries /\ aged[t] \in 0..(MaxDeliveries + 1)
      /\ attempts[t] \in 0..AttemptsBound
  BY DEF TypeOK
<1>2. takeovers[t] \in Nat /\ aged[t] \in Nat /\ attempts[t] \in Nat
  BY <1>1, BoundsAssumption, AttemptsBoundFact
<1> QED
  BY <1>2 DEF Claims

\* Lemma: the sequence of deliveries as a function.
LEMMA DeliveryFacts ==
    ASSUME TypeOK
    PROVE  /\ Len(delivery) \in Nat /\ DOMAIN delivery = 1..Len(delivery)
           /\ \A d \in DOMAIN delivery :
                 /\ delivery[d] \in Deliveries
                 /\ delivery[d].offset \in 1..Len(log)
                 /\ delivery[d].place \in Places
                 /\ TaskOf(d) \in Tasks
           /\ Len(log) \in Nat /\ DOMAIN log = 1..Len(log)
<1>1. delivery \in Seq(Deliveries) /\ log \in Seq(Tasks)
  BY TypeParts DEF PartitionTypes
<1>2. \A d \in DOMAIN delivery : delivery[d].offset <= Len(log)
  BY DEF TypeOK
<1>3. Len(delivery) \in Nat /\ DOMAIN delivery = 1..Len(delivery)
  BY <1>1
<1>4. Len(log) \in Nat /\ DOMAIN log = 1..Len(log) /\ \A o \in 1..Len(log) : log[o] \in Tasks
  BY <1>1
<1>5. \A d \in DOMAIN delivery : delivery[d] \in Deliveries
  BY <1>1, <1>3
<1>6. \A d \in DOMAIN delivery : delivery[d].offset \in 1..Len(log) /\ delivery[d].place \in Places
  <2> SUFFICES ASSUME NEW d \in DOMAIN delivery
               PROVE  delivery[d].offset \in 1..Len(log) /\ delivery[d].place \in Places
    OBVIOUS
  <2>1. delivery[d].offset \in 1..MaxLog /\ delivery[d].place \in Places
    BY <1>5 DEF Deliveries
  <2> QED
    BY <2>1, <1>2, <1>4, BoundsAssumption
<1> QED
  BY <1>3, <1>4, <1>5, <1>6 DEF TaskOf

\* A delivery goes to a place, with whatever claim it found.
Moves(d, place) == \E n \in 0..MaxDeliveries : Move(d, place, n)

\* Lemma: Goto is such a move.
LEMMA GotoMoves == \A d, place : Goto(d, place) => Moves(d, place)
BY BoundsAssumption DEF Goto, Moves

\* Lemma: a delivery goes to another place and the others stay where they are.
LEMMA MoveFacts ==
    ASSUME TypeOK, NEW d \in DOMAIN delivery, NEW place \in Places, Moves(d, place),
           UNCHANGED log
    PROVE  /\ delivery' \in Seq(Deliveries) /\ Len(delivery') = Len(delivery)
           /\ DOMAIN delivery' = DOMAIN delivery
           /\ \A e \in DOMAIN delivery :
                 /\ delivery'[e].offset = delivery[e].offset
                 /\ delivery'[e].host = delivery[e].host
                 /\ delivery'[e].place = IF e = d THEN place ELSE delivery[e].place
                 /\ e # d => delivery'[e] = delivery[e]
                 /\ TaskOf(e)' = TaskOf(e)
<1>0. /\ Len(delivery) \in Nat /\ DOMAIN delivery = 1..Len(delivery)
      /\ \A e \in DOMAIN delivery : delivery[e] \in Deliveries
  BY DeliveryFacts
<1>1. PICK n \in 0..MaxDeliveries :
         delivery' = [e \in 1..Len(delivery) |->
                        IF e = d THEN [delivery[d] EXCEPT !.place = place, !.found = n]
                                 ELSE delivery[e]]
  BY <1>0 DEF Moves, Move
<1>2. \A e \in 1..Len(delivery) :
         /\ delivery'[e] \in Deliveries
         /\ delivery'[e].offset = delivery[e].offset
         /\ delivery'[e].host = delivery[e].host
         /\ delivery'[e].place = IF e = d THEN place ELSE delivery[e].place
         /\ e # d => delivery'[e] = delivery[e]
  BY <1>0, <1>1 DEF Deliveries
<1>3. delivery' \in [1..Len(delivery) -> Deliveries]
  BY <1>1, <1>2
<1>4. delivery' \in Seq(Deliveries) /\ Len(delivery') = Len(delivery)
  BY <1>0, <1>3
<1> QED
  BY <1>0, <1>1, <1>2, <1>4 DEF TaskOf

\* Lemma: the deliveries of a task that are running, and seen, after a delivery moved.
LEMMA MoveSets ==
    ASSUME TypeOK, NEW d \in DOMAIN delivery, NEW place \in Places, Moves(d, place),
           UNCHANGED log, place \notin {"started", "found"}, NEW t
    PROVE  /\ Seen(t)' = IF TaskOf(d) = t THEN Seen(t) \cup {d} ELSE Seen(t)
           /\ Runs(t)' = IF TaskOf(d) = t /\ place \in Live THEN Runs(t) \cup {d}
                                                            ELSE Runs(t) \ {d}
<1> USE MoveFacts
<1>1. Seen(t)' = IF TaskOf(d) = t THEN Seen(t) \cup {d} ELSE Seen(t)
  BY DEF Seen
<1>2. Runs(t)' = IF TaskOf(d) = t /\ place \in Live THEN Runs(t) \cup {d} ELSE Runs(t) \ {d}
  BY DEF Runs, IsLive
<1> QED
  BY <1>1, <1>2

\* Lemma: the sets of deliveries are finite.
LEMMA DeliverySets ==
    ASSUME TypeOK, NEW t
    PROVE  /\ IsFiniteSet(Runs(t)) /\ IsFiniteSet(Seen(t))
           /\ Runs(t) \subseteq Seen(t)
           /\ Cardinality(Runs(t)) \in Nat /\ Cardinality(Seen(t)) \in Nat
           /\ Cardinality(Seen(t)) <= Len(delivery)
           /\ \A d \in DOMAIN delivery \ Seen(t) : Cardinality(Seen(t)) + 1 <= Len(delivery)
<1>1. Len(delivery) \in Nat /\ DOMAIN delivery = 1..Len(delivery)
  BY DeliveryFacts
<1>2. IsFiniteSet(1..Len(delivery)) /\ Cardinality(1..Len(delivery)) = Len(delivery)
  <2>1. \A n \in Nat : IsFiniteSet(1..n) /\ Cardinality(1..n) = n
    BY FS_Interval
  <2> QED
    BY <1>1, <2>1
<1>3. Seen(t) \subseteq 1..Len(delivery) /\ Runs(t) \subseteq Seen(t)
  BY <1>1 DEF Seen, Runs, IsLive, Live
<1>4. IsFiniteSet(Seen(t)) /\ Cardinality(Seen(t)) <= Len(delivery)
  BY <1>2, <1>3, FS_Subset
<1>5. IsFiniteSet(Runs(t))
  BY <1>3, <1>4, FS_Subset
<1>6. ASSUME NEW d \in DOMAIN delivery \ Seen(t) PROVE Cardinality(Seen(t)) + 1 <= Len(delivery)
  <2>1. Cardinality(Seen(t) \cup {d}) = Cardinality(Seen(t)) + 1
    BY <1>4, <1>6, FS_AddElement
  <2>2. Seen(t) \cup {d} \subseteq 1..Len(delivery)
    BY <1>1, <1>3, <1>6
  <2> QED
    BY <2>1, <2>2, <1>2, FS_Subset
<1> QED
  BY <1>3, <1>4, <1>5, <1>6, FS_CardinalityType

\* Lemma: what a claim on t counts does not change, and no run begins.
LEMMA CountedKept ==
    ASSUME TypeOK, TypeOK', NEW t \in Tasks, CountedOf(t),
           Runs(t)' \subseteq Runs(t), Seen(t) \subseteq Seen(t)',
           takeovers'[t] = takeovers[t], ledger'[t] = "none" <=> ledger[t] = "none",
           aged'[t] = aged[t] \/ aged'[t] = takeovers[t] + 1
    PROVE  CountedOf(t)'
<1>1. IsFiniteSet(Runs(t)) /\ Cardinality(Runs(t)) \in Nat /\ Cardinality(Seen(t)) \in Nat
  BY DeliverySets
<1>2. IsFiniteSet(Seen(t)') /\ Cardinality(Runs(t)') \in Nat /\ Cardinality(Seen(t)') \in Nat
  <2>1. Len(delivery') \in Nat /\ DOMAIN delivery' = 1..Len(delivery')
    BY TypeParts DEF PartitionTypes
  <2>2. IsFiniteSet(1..Len(delivery'))
    <3>1. \A n \in Nat : IsFiniteSet(1..n)
      BY FS_Interval
    <3> QED
      BY <2>1, <3>1
  <2>3. Seen(t)' \subseteq 1..Len(delivery')
    BY <2>1 DEF Seen
  <2> QED
    BY <1>1, <2>2, <2>3, FS_Subset, FS_CardinalityType
<1>3. Cardinality(Runs(t)') <= Cardinality(Runs(t))
  BY <1>1, FS_Subset
<1>4. Cardinality(Seen(t)) <= Cardinality(Seen(t)')
  BY <1>2, FS_Subset
<1>5. Claims(t)' = Claims(t) /\ Claims(t) \in Nat
  <2>1. Claims(t)' = Claims(t)
    BY DEF Claims
  <2> QED
    BY <2>1, TaskFacts
<1>6. takeovers'[t] <= aged'[t] /\ aged'[t] <= takeovers'[t] + 1
  BY TaskFacts DEF CountedOf
<1> QED
  BY <1>1, <1>2, <1>3, <1>4, <1>5, <1>6 DEF CountedOf

\* Lemma: what was found of a claim stays while its delivery does and the claim's age and
\* row are kept.
LEMMA FoundKept ==
    ASSUME TypeOK, TypeOK', Found, NEW d \in DOMAIN delivery, TaskOf(d)' = TaskOf(d),
           delivery'[d].place = "found" => delivery'[d] = delivery[d],
           \A t \in Tasks : /\ aged[t] <= aged'[t]
                            /\ ledger[t] # "none" => ledger'[t] # "none"
    PROVE  FoundAt(d)'
<1>1. TaskOf(d) \in Tasks /\ delivery[d].found \in Nat
  <2>1. TaskOf(d) \in Tasks /\ delivery[d] \in Deliveries
    BY DeliveryFacts
  <2> QED
    BY <2>1, BoundsAssumption DEF Deliveries
<1>2. /\ aged[TaskOf(d)] \in Nat /\ aged'[TaskOf(d)] \in Nat
      /\ aged[TaskOf(d)] <= aged'[TaskOf(d)]
      /\ ledger[TaskOf(d)] # "none" => ledger'[TaskOf(d)] # "none"
  BY <1>1, BoundsAssumption DEF TypeOK
<1>3. FoundAt(d)
  BY DEF Found
<1>4. CASE delivery'[d].place # "found"
  BY <1>4 DEF FoundAt
<1>5. CASE delivery'[d].place = "found"
  BY <1>1, <1>2, <1>3, <1>5 DEF FoundAt
<1> QED
  BY <1>4, <1>5

\* Lemma: what the first run has written does not change, and no run of t begins.
LEMMA FirstRunKept ==
    ASSUME NEW t \in Tasks, FirstRunOf(t),
           takeovers'[t] = takeovers[t], ledger'[t] = ledger[t], trace'[t] = trace[t],
           t \in result => t \in result', t \in lostWrite => t \in lostWrite',
           Runs(t)' \subseteq Runs(t),
           \A d \in Runs(t)' : delivery'[d].place = delivery[d].place
    PROVE  FirstRunOf(t)'
BY DEF FirstRunOf, Written, Settled

-------------------------------------------------------------------------------
(* The requests and the outbox: the log may grow, no delivery moves.       *)

\* Lemma: as the log only grows, a delivery stays the same task's.
LEMMA LogGrows ==
    ASSUME TypeOK, UNCHANGED delivery,
           \/ UNCHANGED log
           \/ \E u \in Tasks : log' = Append(log, u)
    PROVE  /\ \A t \in Tasks : Runs(t)' = Runs(t) /\ Seen(t)' = Seen(t)
           /\ \A d \in DOMAIN delivery : TaskOf(d)' = TaskOf(d)
<1>1. /\ Len(log) \in Nat /\ log \in Seq(Tasks)
      /\ \A d \in DOMAIN delivery : delivery[d].offset \in 1..Len(log)
  BY DeliveryFacts DEF TypeOK
<1>2. \A o \in 1..Len(log) : log'[o] = log[o]
  BY <1>1
<1>3. \A d \in DOMAIN delivery : TaskOf(d)' = TaskOf(d)
  BY <1>1, <1>2 DEF TaskOf
<1> QED
  BY <1>3 DEF Runs, Seen, IsLive

\* Lemma: the partition's types while messages are produced and nothing is consumed.
LEMMA ProducedTypes ==
    ASSUME TypeOK, UNCHANGED <<consumerVars, delivery>>,
           UNCHANGED log \/ \E t \in Tasks : Produced(t)
    PROVE  /\ PartitionTypes'
           /\ UNCHANGED log \/ \E t \in Tasks : log' = Append(log, t)
<1>1. PartitionTypes
  BY TypeParts
<1>2. CASE UNCHANGED log
  BY <1>1, <1>2 DEF PartitionTypes, consumerVars
<1>3. CASE \E t \in Tasks : Produced(t) /\ log' # log
  <2>1. log \in Seq(Tasks) /\ Len(log) \in Nat /\ Len(log) <= MaxLog
    BY <1>1 DEF PartitionTypes
  <2>2. PICK t \in Tasks : log' = Append(log, t) /\ Len(log) < MaxLog
    BY <1>3 DEF Produced
  <2>3. log' \in Seq(Tasks) /\ Len(log') = Len(log) + 1 /\ Len(log') <= MaxLog
    BY <2>1, <2>2, BoundsAssumption
  <2>4. \A d \in DOMAIN delivery : delivery[d].offset \in 1..Len(log)
    BY DeliveryFacts
  <2> QED
    BY <1>1, <2>1, <2>2, <2>3, <2>4 DEF PartitionTypes, consumerVars
<1> QED
  BY <1>2, <1>3

\* Lemma: a step that moves no delivery and touches no claim keeps what is known of both.
LEMMA OutsideKept ==
    ASSUME Inv, TypeOK', Known', Bounded',
           UNCHANGED <<delivery, ledger, takeovers, aged, result, lostWrite>>,
           UNCHANGED log \/ \E u \in Tasks : log' = Append(log, u),
           \A u \in Tasks :
              trace'[u] = trace[u] \/ (handler[u] = "idle" /\ trace'[u] = "pending")
    PROVE  Inv'
<1>1. TypeOK /\ TaskTypes /\ Known /\ Found /\ Counted /\ FirstRun
  BY TypeParts DEF Inv
<1>2. /\ \A u \in Tasks : Runs(u)' = Runs(u) /\ Seen(u)' = Seen(u)
      /\ \A d \in DOMAIN delivery : TaskOf(d)' = TaskOf(d)
  BY <1>1, LogGrows
<1>3. Counted'
  <2> SUFFICES ASSUME NEW u \in Tasks PROVE CountedOf(u)'
    BY DEF Counted
  <2>1. CountedOf(u)
    BY <1>1 DEF Counted
  <2> QED
    BY <2>1, <1>1, <1>2, CountedKept
<1>4. Found'
  <2>1. \A t \in Tasks : aged[t] <= aged'[t]
    BY <1>1, BoundsAssumption DEF TaskTypes
  <2>2. ASSUME NEW d \in DOMAIN delivery PROVE FoundAt(d)'
    BY <1>1, <1>2, <2>1, FoundKept
  <2> QED
    BY <2>2 DEF Found
<1>5. FirstRun'
  <2> SUFFICES ASSUME NEW u \in Tasks PROVE FirstRunOf(u)'
    BY DEF FirstRun
  <2>1. FirstRunOf(u)
    BY <1>1 DEF FirstRun
  <2>2. CASE trace'[u] = trace[u]
    BY <2>1, <2>2, <1>2, FirstRunKept
  <2>3. CASE trace'[u] # trace[u]
    <3>1. handler[u] = "idle" /\ trace'[u] = "pending" /\ trace[u] = "absent"
      BY <2>3, <1>1 DEF Known
    <3>2. Runs(u) = {}
      BY <3>1, <1>1, DeliveryFacts DEF Known, Runs, TaskOf
    <3>3. takeovers[u] = 0 => ledger[u] # "completed" \/ u \in lostWrite
      BY <2>1, <3>1 DEF FirstRunOf, Settled, Terminal
    <3> QED
      BY <3>1, <3>2, <3>3, <1>2 DEF FirstRunOf, Settled, Terminal
  <2> QED
    BY <2>2, <2>3
<1> QED
  BY <1>3, <1>4, <1>5 DEF Inv

\* Lemma: what a step of a request does to the variables.
LEMMA RequestFacts ==
    ASSUME Inv, NEW t \in Tasks, InsertTrace(t) \/ ProduceRequest(t) \/ RequestCrashes(t)
    PROVE  /\ TypeOK'
           /\ UNCHANGED <<delivery, consumerVars, claimVars, attempts, flagged, batch, result,
                          lostWrite>>
           /\ UNCHANGED log \/ log' = Append(log, t)
           /\ log' # log => handler[t] = "inserted"
           /\ handler[t] \in {"idle", "inserted"} /\ handler'[t] # "idle"
           /\ handler'[t] = "inserted" => outbox'[t] = outbox[t]
           /\ trace'[t] = trace[t] \/ (handler[t] = "idle" /\ trace'[t] = "pending")
           /\ \A u \in Tasks \ {t} : /\ handler'[u] = handler[u] /\ trace'[u] = trace[u]
                                     /\ outbox'[u] = outbox[u]
<1>1. TypeOK /\ TaskTypes /\ RowTypes
  BY TypeParts DEF Inv
<1>2. CASE InsertTrace(t)
  <2>1. /\ UNCHANGED <<result, rowVars, batch, log, consumerVars, delivery, claimVars, lostWrite>>
        /\ handler' \in [Tasks -> {"idle", "inserted", "202", "500", "503", "crashed"}]
        /\ trace' \in [Tasks -> {"absent", "pending", "running"} \cup Terminal]
        /\ faults' \in 0..MaxFaults
        /\ handler[t] = "idle" /\ handler'[t] # "idle"
        /\ trace'[t] = trace[t] \/ trace'[t] = "pending"
        /\ \A u \in Tasks \ {t} : handler'[u] = handler[u] /\ trace'[u] = trace[u]
    BY <1>1, <1>2, BoundsAssumption DEF InsertTrace, Fault, NoFault, TaskTypes
  <2>2. PartitionTypes'
    BY <1>1, <2>1, ProducedTypes
  <2> QED
    BY <1>1, <2>1, <2>2, TypeParts DEF TaskTypes, RowTypes, rowVars, claimVars
<1>3. CASE RequestCrashes(t)
  <2>1. /\ UNCHANGED <<rowVars, batch, log, consumerVars, delivery, claimVars, docVars>>
        /\ handler' \in [Tasks -> {"idle", "inserted", "202", "500", "503", "crashed"}]
        /\ faults' \in 0..MaxFaults
        /\ handler[t] = "inserted" /\ handler'[t] = "crashed"
        /\ \A u \in Tasks \ {t} : handler'[u] = handler[u]
    BY <1>1, <1>3, BoundsAssumption DEF RequestCrashes, Fault, TaskTypes
  <2>2. PartitionTypes'
    BY <1>1, <2>1, ProducedTypes
  <2> QED
    BY <1>1, <2>1, <2>2, TypeParts DEF TaskTypes, RowTypes, rowVars, claimVars, docVars
<1>4. CASE ProduceRequest(t)
  <2>1. /\ UNCHANGED <<attempts, flagged, batch, consumerVars, delivery, claimVars, docVars>>
        /\ handler[t] = "inserted" /\ handler'[t] \in {"202", "503"}
        /\ handler' \in [Tasks -> {"idle", "inserted", "202", "500", "503", "crashed"}]
        /\ outbox' \in [Tasks -> {"none", "stored", "delivered"}]
        /\ \A u \in Tasks \ {t} : handler'[u] = handler[u] /\ outbox'[u] = outbox[u]
        /\ UNCHANGED log \/ Produced(t)
    BY <1>1, <1>4 DEF ProduceRequest, TaskTypes, RowTypes
  <2>2. PartitionTypes' /\ (UNCHANGED log \/ log' = Append(log, t))
    BY <1>1, <2>1, ProducedTypes DEF Produced
  <2>3. faults' \in 0..MaxFaults
    BY <1>1, <1>4, BoundsAssumption DEF ProduceRequest, Produced, Fault, NoFault, TaskTypes
  <2> QED
    BY <1>1, <2>1, <2>2, <2>3, TypeParts DEF TaskTypes, RowTypes, claimVars, docVars
<1> QED
  BY <1>2, <1>3, <1>4

\* Lemma: a step of a request keeps the invariant.
LEMMA RequestStep ==
    ASSUME Inv, NEW t \in Tasks, InsertTrace(t) \/ ProduceRequest(t) \/ RequestCrashes(t)
    PROVE  Inv'
<1>1. TypeOK /\ TaskTypes /\ RowTypes /\ PartitionTypes /\ Known /\ Bounded
  BY TypeParts DEF Inv
<1>2. /\ TypeOK'
      /\ UNCHANGED <<delivery, consumerVars, claimVars, attempts, flagged, batch, result,
                     lostWrite>>
      /\ UNCHANGED log \/ log' = Append(log, t)
      /\ log' # log => handler[t] = "inserted"
      /\ handler[t] \in {"idle", "inserted"} /\ handler'[t] # "idle"
      /\ handler'[t] = "inserted" => outbox'[t] = outbox[t]
      /\ trace'[t] = trace[t] \/ (handler[t] = "idle" /\ trace'[t] = "pending")
      /\ \A u \in Tasks \ {t} : /\ handler'[u] = handler[u] /\ trace'[u] = trace[u]
                                /\ outbox'[u] = outbox[u]
  BY RequestFacts
<1>3. Known'
  <2> SUFFICES ASSUME NEW u \in Tasks
               PROVE  /\ handler'[u] = "idle" =>
                            trace'[u] = "absent" /\ \A o \in DOMAIN log' : log'[o] # u
                      /\ handler'[u] \in {"idle", "inserted"} =>
                            outbox'[u] = "none" /\ attempts'[u] = 0
                      /\ outbox'[u] = "none" => \A w \in Replicas : batch'[w][u].place = "none"
    BY DEF Known
  <2>1. /\ handler[u] = "idle" => trace[u] = "absent" /\ \A o \in DOMAIN log : log[o] # u
        /\ handler[u] \in {"idle", "inserted"} => outbox[u] = "none" /\ attempts[u] = 0
        /\ outbox[u] = "none" => \A w \in Replicas : batch[w][u].place = "none"
    BY <1>1 DEF Known
  <2>2. CASE u = t
    BY <2>1, <2>2, <1>2
  <2>3. CASE u # t
    <3>1. \A o \in DOMAIN log' : (o \in DOMAIN log /\ log'[o] = log[o]) \/ log'[o] = t
      <4>1. log \in Seq(Tasks)
        BY <1>1 DEF PartitionTypes
      <4> QED
        BY <4>1, <1>2
    <3> QED
      BY <2>1, <2>3, <3>1, <1>2
  <2> QED
    BY <2>2, <2>3
<1>4. Bounded'
  BY <1>1, <1>2 DEF Bounded, BoundedOf, Holders
<1>5. \A u \in Tasks : trace'[u] = trace[u] \/ (handler[u] = "idle" /\ trace'[u] = "pending")
  BY <1>2
<1> QED
  BY <1>2, <1>3, <1>4, <1>5, OutsideKept DEF claimVars

\* Lemma: as a drain lets go of a row, those that hold it are one less.
LEMMA HoldersFacts ==
    ASSUME NEW t
    PROVE  /\ IsFiniteSet(Holders(t)) /\ Cardinality(Holders(t)) \in Nat
           /\ Cardinality(Holders(t)) <= Cardinality(Replicas)
           /\ \A w \in Holders(t) : Cardinality(Holders(t) \ {w}) = Cardinality(Holders(t)) - 1
<1>1. Holders(t) \subseteq Replicas
  BY DEF Holders
<1>2. IsFiniteSet(Holders(t)) /\ Cardinality(Holders(t)) <= Cardinality(Replicas)
  BY <1>1, ReplicasAssumption, FS_Subset
<1> QED
  BY <1>2, FS_CardinalityType, FS_RemoveElement

\* Lemma: no drain takes a row up: the bound is kept.
LEMMA BoundedKept ==
    ASSUME TypeOK, NEW t, BoundedOf(t), UNCHANGED attempts,
           \A w \in Replicas : batch'[w][t].place # "none" => batch[w][t].place # "none",
           attempts[t] \in Nat
    PROVE  BoundedOf(t)'
<1>1. Holders(t)' \subseteq Holders(t)
  BY DEF Holders
<1>2. /\ Cardinality(Holders(t)') <= Cardinality(Holders(t))
      /\ Cardinality(Holders(t)') \in Nat /\ Cardinality(Holders(t)) \in Nat
  BY <1>1, HoldersFacts, FS_Subset, FS_CardinalityType
<1>3. attempts[t] + Cardinality(Holders(t)) <= AttemptsBound
  BY DEF BoundedOf
<1>4. attempts[t] + Cardinality(Holders(t)') <= AttemptsBound
  BY <1>2, <1>3, AttemptsBoundFact
<1> QED
  BY <1>4 DEF BoundedOf, AttemptsBound

\* Lemma: an attempt counted by a drain that lets the row go.
LEMMA BoundedCounts ==
    ASSUME TypeOK, NEW t \in Tasks, NEW w \in Replicas, BoundedOf(t),
           batch[w][t].place # "none", attempts'[t] = attempts[t] + 1,
           batch'[w][t].place = "none",
           \A x \in Replicas \ {w} : batch'[x][t] = batch[x][t]
    PROVE  BoundedOf(t)' /\ attempts'[t] \in 0..AttemptsBound
<1>1. w \in Holders(t) /\ Holders(t)' = Holders(t) \ {w}
  BY DEF Holders
<1>2. /\ Cardinality(Holders(t)') = Cardinality(Holders(t)) - 1
      /\ Cardinality(Holders(t)) \in Nat /\ Cardinality(Holders(t)') \in Nat
  <2>1. IsFiniteSet(Holders(t) \ {w})
    BY HoldersFacts, FS_RemoveElement
  <2> QED
    BY <1>1, <2>1, HoldersFacts, FS_CardinalityType
<1>3. attempts[t] \in Nat /\ attempts[t] + Cardinality(Holders(t)) <= AttemptsBound
  BY AttemptsBoundFact DEF BoundedOf, TypeOK
<1>4. attempts'[t] + Cardinality(Holders(t)') <= AttemptsBound
  BY <1>2, <1>3, AttemptsBoundFact
<1> QED
  BY <1>2, <1>3, <1>4, AttemptsBoundFact DEF BoundedOf, AttemptsBound

\* Lemma: what the steps of a drain do to the variables, but for the rows.
LEMMA DrainFacts ==
    ASSUME TypeOK, NEW w \in Replicas, PollerFinds(w) \/ Drain(w)
    PROVE  /\ TaskTypes' /\ PartitionTypes'
           /\ UNCHANGED <<handler, delivery, consumerVars, claimVars, docVars>>
           /\ \/ UNCHANGED log
              \/ \E t \in Tasks : log' = Append(log, t) /\ batch[w][t].place = "found"
<1>1. TaskTypes
  BY TypeParts
<1>2. /\ UNCHANGED <<handler, delivery, consumerVars, claimVars, docVars>>
      /\ \/ UNCHANGED log
         \/ \E t \in Tasks : Produced(t) /\ batch[w][t].place = "found"
      /\ faults' \in 0..MaxFaults
  BY <1>1, BoundsAssumption
  DEF PollerFinds, Drain, PollerProduces, PollerMarksDelivered, PollerFails, PollerAborts,
      Produced, Fault, NoFault, requestVars, TaskTypes
<1>3. PartitionTypes'
  BY <1>2, ProducedTypes
<1> QED
  BY <1>1, <1>2, <1>3 DEF TaskTypes, claimVars, docVars, Produced

\* Lemma: a step of a drain keeps the types of the rows, and the bound on their attempts.
LEMMA DrainRows ==
    ASSUME Inv, NEW w \in Replicas, PollerFinds(w) \/ Drain(w)
    PROVE  /\ RowTypes' /\ Bounded'
           /\ \A t \in Tasks :
                 /\ outbox'[t] = outbox[t] \/ (outbox[t] # "none" /\ outbox'[t] = "delivered")
                 /\ attempts'[t] = attempts[t] \/ outbox[t] # "none"
                 /\ outbox[t] = "none" => \A x \in Replicas : batch'[x][t].place = "none"
<1>1. TypeOK /\ RowTypes /\ Known /\ Bounded /\ NoRow \in BatchRows
  BY TypeParts, AttemptsBoundFact DEF Inv, BatchRows, NoRow
<1>2. \A t \in Tasks, x \in Replicas : batch[x][t].place # "none" => outbox[t] # "none"
  BY <1>1 DEF Known
<1>3. \A t \in Tasks : attempts[t] \in Nat /\ BoundedOf(t)
  BY <1>1, AttemptsBoundFact DEF RowTypes, Bounded
<1>4. CASE PollerFinds(w)
  <2>1. /\ UNCHANGED rowVars
        /\ batch' = [batch EXCEPT ![w] =
                       [t \in Tasks |-> IF Retryable(t)
                                        THEN [place |-> "found", attempts |-> attempts[t]]
                                        ELSE NoRow]]
    BY <1>4 DEF PollerFinds, requestVars
  <2>2. \A t \in Tasks : [place |-> "found", attempts |-> attempts[t]] \in BatchRows
    BY <1>1 DEF RowTypes, BatchRows
  <2>3. /\ \A x \in Replicas \ {w} : batch'[x] = batch[x]
        /\ \A t \in Tasks : batch'[w][t] = IF Retryable(t)
                                            THEN [place |-> "found", attempts |-> attempts[t]]
                                            ELSE NoRow
        /\ batch' \in [Replicas -> [Tasks -> BatchRows]]
        /\ NoRow.place = "none"
    BY <1>1, <2>1, <2>2 DEF RowTypes, NoRow
  <2>4. ASSUME NEW t \in Tasks PROVE BoundedOf(t)'
    <3>1. CASE Retryable(t)
      <4>1. Cardinality(Holders(t)') \in Nat /\ Cardinality(Holders(t)') <= Cardinality(Replicas)
        <5>1. Holders(t)' \subseteq Replicas
          BY DEF Holders
        <5> QED
          BY <5>1, ReplicasAssumption, FS_Subset, FS_CardinalityType
      <4>2. attempts[t] \in Nat /\ attempts[t] < MaxAttempts /\ attempts'[t] = attempts[t]
        BY <1>3, <2>1, <3>1 DEF Retryable, rowVars
      <4>3. attempts'[t] + Cardinality(Holders(t)') <= AttemptsBound
        BY <4>1, <4>2, AttemptsBoundFact
      <4> QED
        BY <4>3 DEF BoundedOf, AttemptsBound
    <3>2. CASE ~Retryable(t)
      <4>1. \A x \in Replicas : batch'[x][t].place # "none" => batch[x][t].place # "none"
        <5> SUFFICES ASSUME NEW x \in Replicas, batch'[x][t].place # "none"
                     PROVE  batch[x][t].place # "none"
          OBVIOUS
        <5>1. x # w
          BY <2>3, <3>2
        <5> QED
          BY <2>3, <5>1
      <4> QED
        BY <1>1, <1>3, <2>1, <4>1, BoundedKept DEF rowVars
    <3> QED
      BY <3>1, <3>2
  <2>5. \A t \in Tasks : outbox[t] = "none" => \A x \in Replicas : batch'[x][t].place = "none"
    <3> SUFFICES ASSUME NEW t \in Tasks, outbox[t] = "none", NEW x \in Replicas
                 PROVE  batch'[x][t].place = "none"
      OBVIOUS
    <3>1. CASE x = w
      BY <2>3, <3>1 DEF Retryable
    <3>2. CASE x # w
      BY <1>2, <2>3, <3>2
    <3> QED
      BY <3>1, <3>2
  <2> QED
    BY <1>1, <2>1, <2>3, <2>4, <2>5 DEF RowTypes, rowVars, Bounded
<1>5. ASSUME NEW t \in Tasks, PollerProduces(w, t)
      PROVE  /\ RowTypes' /\ Bounded' /\ UNCHANGED rowVars
             /\ \A u \in Tasks :
                   outbox[u] = "none" => \A x \in Replicas : batch'[x][u].place = "none"
  <2>1. /\ UNCHANGED rowVars /\ batch[w][t].place = "found"
        /\ \E p \in {"sent", "unsent"} : batch' = [batch EXCEPT ![w][t].place = p]
    BY <1>5 DEF PollerProduces, requestVars
  <2>2. PICK p \in {"sent", "unsent"} : batch' = [batch EXCEPT ![w][t].place = p]
    BY <2>1
  <2>3. /\ batch' \in [Replicas -> [Tasks -> BatchRows]]
        /\ \A x \in Replicas, u \in Tasks :
              batch'[x][u].place # "none" => batch[x][u].place # "none"
    BY <1>1, <2>1, <2>2 DEF RowTypes, BatchRows
  <2>4. ASSUME NEW u \in Tasks PROVE BoundedOf(u)'
    BY <1>1, <1>3, <2>1, <2>3, BoundedKept DEF rowVars
  <2> QED
    BY <1>1, <1>2, <2>1, <2>3, <2>4 DEF RowTypes, rowVars, Bounded
<1>6. ASSUME NEW t \in Tasks, PollerMarksDelivered(w, t) \/ PollerFails(w, t)
      PROVE  /\ RowTypes' /\ Bounded'
             /\ \A u \in Tasks :
                   /\ outbox'[u] = outbox[u] \/ (outbox[u] # "none" /\ outbox'[u] = "delivered")
                   /\ attempts'[u] = attempts[u] \/ outbox[u] # "none"
                   /\ outbox[u] = "none" => \A x \in Replicas : batch'[x][u].place = "none"
  <2>1. /\ batch[w][t].place # "none" /\ outbox[t] # "none"
        /\ batch' = [batch EXCEPT ![w][t] = NoRow]
        /\ attempts' = [attempts EXCEPT ![t] = @ + 1]
        /\ outbox' = outbox \/ outbox' = [outbox EXCEPT ![t] = "delivered"]
        /\ flagged' = flagged \/ flagged' = flagged \cup {t}
    BY <1>2, <1>6 DEF PollerMarksDelivered, PollerFails
  <2>2. /\ batch' \in [Replicas -> [Tasks -> BatchRows]]
        /\ batch'[w][t].place = "none"
        /\ \A x \in Replicas, u \in Tasks : x # w \/ u # t => batch'[x][u] = batch[x][u]
        /\ attempts'[t] = attempts[t] + 1
        /\ \A u \in Tasks \ {t} : attempts'[u] = attempts[u]
        /\ attempts' = [u \in Tasks |-> attempts'[u]]
    BY <1>1, <2>1 DEF RowTypes, NoRow
  <2>3. BoundedOf(t)' /\ attempts'[t] \in 0..AttemptsBound
    BY <1>1, <1>3, <2>1, <2>2, BoundedCounts
  <2>4. ASSUME NEW u \in Tasks \ {t} PROVE BoundedOf(u)'
    <3>1. Holders(u)' = Holders(u)
      BY <2>2 DEF Holders
    <3> QED
      BY <1>3, <2>2, <3>1 DEF BoundedOf
  <2>5. attempts' \in [Tasks -> 0..AttemptsBound]
    <3>1. \A u \in Tasks : attempts'[u] \in 0..AttemptsBound
      BY <1>1, <2>2, <2>3 DEF RowTypes
    <3> QED
      BY <2>2, <3>1
  <2>6. /\ outbox' \in [Tasks -> {"none", "stored", "delivered"}] /\ flagged' \in SUBSET Tasks
        /\ \A u \in Tasks :
              outbox'[u] = outbox[u] \/ (outbox[u] # "none" /\ outbox'[u] = "delivered")
    BY <1>1, <2>1 DEF RowTypes
  <2>7. \A u \in Tasks : outbox[u] = "none" => \A x \in Replicas : batch'[x][u].place = "none"
    BY <1>2, <2>1, <2>2
  <2> QED
    BY <2>1, <2>2, <2>3, <2>4, <2>5, <2>6, <2>7 DEF RowTypes, Bounded
<1>7. ASSUME NEW t \in Tasks, PollerAborts(w, t)
      PROVE  /\ RowTypes' /\ Bounded' /\ UNCHANGED rowVars
             /\ \A u \in Tasks :
                   outbox[u] = "none" => \A x \in Replicas : batch'[x][u].place = "none"
  <2>1. UNCHANGED rowVars /\ batch' = [batch EXCEPT ![w] = [u \in Tasks |-> NoRow]]
    BY <1>7 DEF PollerAborts, requestVars
  <2>2. /\ batch' \in [Replicas -> [Tasks -> BatchRows]]
        /\ \A x \in Replicas, u \in Tasks :
              batch'[x][u].place # "none" => batch[x][u].place # "none"
    BY <1>1, <2>1 DEF RowTypes, NoRow
  <2>3. ASSUME NEW u \in Tasks PROVE BoundedOf(u)'
    BY <1>1, <1>3, <2>1, <2>2, BoundedKept DEF rowVars
  <2> QED
    BY <1>1, <1>2, <2>1, <2>2, <2>3 DEF RowTypes, rowVars, Bounded
<1>8. CASE Drain(w)
  <2>1. PICK t \in Tasks : \/ PollerProduces(w, t) \/ PollerMarksDelivered(w, t)
                           \/ PollerFails(w, t) \/ PollerAborts(w, t)
    BY <1>8 DEF Drain
  <2> QED
    BY <2>1, <1>5, <1>6, <1>7 DEF rowVars
<1> QED
  BY <1>4, <1>8

\* Lemma: a step of a drain keeps the invariant.
LEMMA DrainStep ==
    ASSUME Inv, NEW w \in Replicas, PollerFinds(w) \/ Drain(w)
    PROVE  Inv'
<1>1. TypeOK /\ PartitionTypes /\ Known
  BY TypeParts DEF Inv
<1>2. /\ TaskTypes' /\ PartitionTypes'
      /\ UNCHANGED <<handler, delivery, consumerVars, claimVars, docVars>>
      /\ \/ UNCHANGED log
         \/ \E t \in Tasks : log' = Append(log, t) /\ batch[w][t].place = "found"
  BY <1>1, DrainFacts
<1>3. /\ RowTypes' /\ Bounded'
      /\ \A t \in Tasks :
            /\ outbox'[t] = outbox[t] \/ (outbox[t] # "none" /\ outbox'[t] = "delivered")
            /\ attempts'[t] = attempts[t] \/ outbox[t] # "none"
            /\ outbox[t] = "none" => \A x \in Replicas : batch'[x][t].place = "none"
  BY DrainRows
<1>4. Known'
  <2>1. \A u \in Tasks : handler[u] = "idle" => \A o \in DOMAIN log' : log'[o] # u
    <3>1. log \in Seq(Tasks)
      BY <1>1 DEF PartitionTypes
    <3>2. CASE UNCHANGED log
      BY <1>1, <3>2 DEF Known
    <3>3. CASE \E t \in Tasks : log' = Append(log, t) /\ batch[w][t].place = "found"
      <4>1. PICK t \in Tasks : log' = Append(log, t) /\ batch[w][t].place = "found"
        BY <3>3
      <4>2. handler[t] # "idle"
        BY <1>1, <4>1 DEF Known
      <4>3. \A o \in DOMAIN log' : (o \in DOMAIN log /\ log'[o] = log[o]) \/ log'[o] = t
        BY <3>1, <4>1
      <4> QED
        BY <1>1, <4>2, <4>3 DEF Known
    <3> QED
      BY <1>2, <3>2, <3>3
  <2> QED
    BY <1>1, <1>2, <1>3, <2>1 DEF Known, docVars
<1>5. TypeOK' /\ (UNCHANGED log \/ \E u \in Tasks : log' = Append(log, u))
  BY <1>2, <1>3, TypeParts
<1> QED
  BY <1>2, <1>3, <1>4, <1>5, OutsideKept DEF claimVars, docVars

-------------------------------------------------------------------------------
(* The consumer, the clock and the crash of a replica.                     *)

\* Lemma: what a step keeps that touches no task's own state but the age of its claim,
\* starts no run and hides no delivery from the ledger.
LEMMA TasksKept ==
    ASSUME Inv, TypeOK', UNCHANGED <<requestVars, log, ledger, takeovers, docVars>>,
           \A t \in Tasks :
              /\ aged'[t] = aged[t] \/ aged'[t] = takeovers[t] + 1
              /\ \A w \in Replicas : batch'[w][t].place # "none" => batch[w][t].place # "none"
              /\ Runs(t)' \subseteq Runs(t) /\ Seen(t) \subseteq Seen(t)'
              /\ \A d \in Runs(t)' : delivery'[d].place = delivery[d].place,
           \A d \in DOMAIN delivery' :
              delivery'[d].place = "found" =>
                  d \in DOMAIN delivery /\ TaskOf(d)' = TaskOf(d) /\ delivery'[d] = delivery[d]
    PROVE  Inv'
<1>1. TypeOK /\ Known /\ Bounded /\ Found /\ Counted /\ FirstRun
  BY DEF Inv
<1>2. Known'
  BY <1>1 DEF Known, requestVars, rowVars, docVars
<1>3. Counted'
  <2> SUFFICES ASSUME NEW u \in Tasks PROVE CountedOf(u)'
    BY DEF Counted
  <2>1. CountedOf(u)
    BY <1>1 DEF Counted
  <2> QED
    BY <2>1, <1>1, CountedKept
<1>4. FirstRun'
  <2> SUFFICES ASSUME NEW u \in Tasks PROVE FirstRunOf(u)'
    BY DEF FirstRun
  <2>1. FirstRunOf(u)
    BY <1>1 DEF FirstRun
  <2> QED
    BY <2>1, FirstRunKept DEF docVars
<1>5. Bounded'
  <2> SUFFICES ASSUME NEW u \in Tasks PROVE BoundedOf(u)'
    BY DEF Bounded
  <2>1. BoundedOf(u) /\ attempts[u] \in Nat /\ UNCHANGED attempts
    BY <1>1, AttemptsBoundFact DEF Bounded, TypeOK, requestVars, rowVars
  <2> QED
    BY <2>1, <1>1, BoundedKept
<1>6. Found'
  <2> SUFFICES ASSUME NEW d \in DOMAIN delivery', delivery'[d].place = "found"
               PROVE  FoundAt(d)'
    BY DEF Found, FoundAt
  <2>1. d \in DOMAIN delivery /\ TaskOf(d)' = TaskOf(d) /\ delivery'[d] = delivery[d]
    OBVIOUS
  <2>2. \A t \in Tasks : aged[t] <= aged'[t]
    BY <1>1, TaskFacts DEF Counted, CountedOf
  <2> QED
    BY <1>1, <2>1, <2>2, FoundKept
<1> QED
  BY <1>2, <1>3, <1>4, <1>5, <1>6 DEF Inv

\* Lemma: the steps that move no delivery.
LEMMA QuietStep ==
    ASSUME Inv,
           \/ \E w \in Replicas : Assign(w) \/ CommitOffset(w) \/ GiveUp(w)
           \/ \E t \in Tasks : ClaimAges(t)
    PROVE  Inv'
<1>1. TypeOK /\ TaskTypes /\ RowTypes /\ PartitionTypes /\ Counted
  BY TypeParts DEF Inv
<1>2. UNCHANGED <<requestVars, batch, log, delivery, ledger, takeovers, docVars>>
  BY DEF Assign, CommitOffset, GiveUp, ClaimAges, claimVars
<1>3. /\ faults' \in 0..MaxFaults
      /\ aged' \in [Tasks -> 0..(MaxDeliveries + 1)]
      /\ \A t \in Tasks : aged'[t] = aged[t] \/ aged'[t] = takeovers[t] + 1
  <2>1. CASE \E w \in Replicas : Assign(w) \/ CommitOffset(w) \/ GiveUp(w)
    BY <1>1, <2>1, BoundsAssumption
    DEF Assign, CommitOffset, GiveUp, Fault, NoFault, TaskTypes, claimVars
  <2>2. CASE \E t \in Tasks : ClaimAges(t)
    <3>1. PICK t \in Tasks : ClaimAges(t)
      BY <2>2
    <3>2. /\ takeovers[t] \in 0..MaxDeliveries /\ aged[t] = takeovers[t]
          /\ aged' = [aged EXCEPT ![t] = @ + 1] /\ UNCHANGED faults
      BY <1>1, <3>1, BoundsAssumption DEF ClaimAges, Stale, Counted, CountedOf, TaskTypes
    <3> QED
      BY <1>1, <3>2, BoundsAssumption DEF TaskTypes
  <2> QED
    BY <2>1, <2>2
<1>4. /\ committed' \in 0..Len(log) /\ position' \in 0..Len(log)
      /\ owner' \in Replicas \cup {NoOne} /\ awaited' \in [Replicas -> 0..Len(delivery)]
  <2>1. /\ committed \in 0..Len(log) /\ position \in 0..Len(log)
        /\ owner \in Replicas \cup {NoOne} /\ awaited \in [Replicas -> 0..Len(delivery)]
    BY <1>1 DEF PartitionTypes
  <2>2. /\ Len(delivery) \in Nat /\ DOMAIN delivery = 1..Len(delivery) /\ Len(log) \in Nat
        /\ \A d \in DOMAIN delivery : delivery[d].offset \in 1..Len(log)
    BY <1>1, DeliveryFacts
  <2>3. CASE \E w \in Replicas : Assign(w)
    BY <2>1, <2>2, <2>3 DEF Assign
  <2>4. CASE \E w \in Replicas : CommitOffset(w)
    BY <2>1, <2>2, <2>4 DEF CommitOffset
  <2>5. CASE \E w \in Replicas : GiveUp(w)
    BY <2>1, <2>2, <2>5 DEF GiveUp
  <2>6. CASE \E t \in Tasks : ClaimAges(t)
    BY <2>1, <2>6 DEF ClaimAges, consumerVars
  <2> QED
    BY <2>3, <2>4, <2>5, <2>6
<1>5. TypeOK'
  <2>1. PartitionTypes'
    BY <1>1, <1>2, <1>4 DEF PartitionTypes
  <2>2. TaskTypes' /\ RowTypes'
    BY <1>1, <1>2, <1>3 DEF TaskTypes, RowTypes, requestVars, rowVars, docVars
  <2> QED
    BY <2>1, <2>2, TypeParts
<1>6. /\ \A t \in Tasks : Runs(t)' = Runs(t) /\ Seen(t)' = Seen(t)
      /\ \A d \in DOMAIN delivery : TaskOf(d)' = TaskOf(d)
  BY <1>1, <1>2, LogGrows
<1> QED
  BY <1>2, <1>3, <1>5, <1>6, TasksKept

\* Lemma: a polled message is one more delivery, neither seen nor running.
LEMMA PollStep ==
    ASSUME Inv, NEW w \in Replicas, Poll(w)
    PROVE  Inv'
<1>1. TypeOK /\ TaskTypes /\ RowTypes /\ PartitionTypes
  BY TypeParts DEF Inv
<1>2. /\ UNCHANGED <<requestVars, batch, log, committed, owner, claimVars, docVars, faults>>
      /\ position < Len(log) /\ Len(delivery) < MaxDeliveries
      /\ position' = position + 1
      /\ awaited' = [awaited EXCEPT ![w] = Len(delivery) + 1]
      /\ delivery' = Append(delivery, [offset |-> position + 1, host |-> w,
                                       place |-> "started", found |-> 0])
  BY DEF Poll
<1>3. /\ delivery \in Seq(Deliveries) /\ Len(delivery) \in Nat /\ Len(log) \in Nat
      /\ DOMAIN delivery = 1..Len(delivery) /\ Len(log) <= MaxLog /\ position \in 0..Len(log)
      /\ \A d \in DOMAIN delivery : delivery[d].offset <= Len(log)
  BY <1>1, DeliveryFacts DEF PartitionTypes
<1>4. [offset |-> position + 1, host |-> w, place |-> "started", found |-> 0] \in Deliveries
  BY <1>1, <1>2, <1>3, BoundsAssumption DEF Deliveries, Places
<1>5. /\ delivery' \in Seq(Deliveries) /\ Len(delivery') = Len(delivery) + 1
      /\ DOMAIN delivery' = 1..(Len(delivery) + 1)
      /\ \A d \in 1..Len(delivery) : delivery'[d] = delivery[d]
      /\ delivery'[Len(delivery) + 1] =
            [offset |-> position + 1, host |-> w, place |-> "started", found |-> 0]
  BY <1>2, <1>3, <1>4
<1>6. PartitionTypes'
  <2>1. \A d \in DOMAIN delivery' : delivery'[d].offset <= Len(log)
    BY <1>2, <1>3, <1>5
  <2>2. /\ position' \in 0..Len(log) /\ awaited' \in [Replicas -> 0..Len(delivery')]
        /\ Len(delivery') <= MaxDeliveries
    BY <1>1, <1>2, <1>3, <1>5, BoundsAssumption DEF PartitionTypes
  <2> QED
    BY <1>1, <1>2, <1>5, <2>1, <2>2 DEF PartitionTypes
<1>7. TypeOK'
  BY <1>1, <1>2, <1>6, TypeParts
  DEF TaskTypes, RowTypes, requestVars, rowVars, claimVars, docVars
<1>8. \A d \in DOMAIN delivery' :
         \/ /\ d \in DOMAIN delivery /\ TaskOf(d)' = TaskOf(d) /\ delivery'[d] = delivery[d]
         \/ d \notin DOMAIN delivery /\ delivery'[d].place = "started"
  BY <1>2, <1>3, <1>5 DEF TaskOf
<1>9. \A t \in Tasks : /\ Runs(t)' \subseteq Runs(t) /\ Seen(t) \subseteq Seen(t)'
                       /\ \A d \in Runs(t)' : delivery'[d].place = delivery[d].place
  <2>1. \A d \in DOMAIN delivery : d \in DOMAIN delivery'
    BY <1>3, <1>5
  <2> QED
    BY <1>8, <2>1 DEF Runs, Seen, IsLive, Live
<1> QED
  BY <1>2, <1>7, <1>8, <1>9, TasksKept DEF claimVars

\* Lemma: a crash ends runs and only ever adds to what is no longer started.
LEMMA CrashStep ==
    ASSUME Inv, NEW w \in Replicas, Crash(w)
    PROVE  Inv'
<1>1. TypeOK /\ TaskTypes /\ RowTypes /\ PartitionTypes /\ NoRow \in BatchRows
  BY TypeParts, AttemptsBoundFact DEF Inv, BatchRows, NoRow
<1>2. /\ UNCHANGED <<requestVars, log, committed, position, claimVars, docVars>>
      /\ batch' = [batch EXCEPT ![w] = [t \in Tasks |-> NoRow]]
      /\ owner' \in {owner, NoOne} /\ awaited' = [awaited EXCEPT ![w] = 0]
      /\ faults < MaxFaults /\ faults' = faults + 1
  BY DEF Crash, Fault
<1>3. /\ Len(delivery) \in Nat /\ DOMAIN delivery = 1..Len(delivery)
      /\ \A d \in DOMAIN delivery : delivery[d] \in Deliveries
      /\ \A d \in DOMAIN delivery : delivery[d].offset \in 1..Len(log)
  BY <1>1, DeliveryFacts
<1>4. delivery' = [d \in 1..Len(delivery) |->
                     IF delivery[d].host = w /\ delivery[d].place \notin Ended
                     THEN [delivery[d] EXCEPT !.place = "dead", !.found = 0] ELSE delivery[d]]
  BY <1>3 DEF Crash
<1>5. ASSUME NEW d \in 1..Len(delivery)
      PROVE  /\ delivery'[d] \in Deliveries /\ delivery'[d].offset = delivery[d].offset
             /\ delivery'[d] = delivery[d] \/ delivery'[d].place = "dead"
  <2>1. delivery[d] \in Deliveries /\ "dead" \in Places /\ 0 \in 0..MaxDeliveries
    BY <1>3, BoundsAssumption DEF Places, Ended
  <2>2. \/ delivery'[d] = [delivery[d] EXCEPT !.place = "dead", !.found = 0]
        \/ delivery'[d] = delivery[d]
    BY <1>4
  <2> QED
    BY <2>1, <2>2 DEF Deliveries
<1>6. /\ delivery' \in Seq(Deliveries) /\ Len(delivery') = Len(delivery)
      /\ DOMAIN delivery' = DOMAIN delivery
  <2>1. delivery' \in [1..Len(delivery) -> Deliveries]
    BY <1>4, <1>5
  <2> QED
    BY <1>3, <2>1
<1>7. TypeOK'
  <2>1. owner' \in Replicas \cup {NoOne} /\ awaited' \in [Replicas -> 0..Len(delivery)]
    BY <1>1, <1>2, <1>3 DEF PartitionTypes
  <2>2. \A d \in DOMAIN delivery' : delivery'[d].offset <= Len(log)
    BY <1>1, <1>3, <1>5, <1>6 DEF PartitionTypes
  <2>3. PartitionTypes'
    BY <1>1, <1>2, <1>6, <2>1, <2>2 DEF PartitionTypes
  <2>4. faults' \in 0..MaxFaults
    BY <1>1, <1>2, BoundsAssumption DEF TaskTypes
  <2>5. TaskTypes' /\ RowTypes'
    BY <1>1, <1>2, <2>4 DEF TaskTypes, RowTypes, requestVars, rowVars, claimVars, docVars
  <2> QED
    BY <2>3, <2>5, TypeParts
<1>8. \A d \in DOMAIN delivery' :
         /\ d \in DOMAIN delivery /\ TaskOf(d)' = TaskOf(d)
         /\ delivery'[d] = delivery[d] \/ delivery'[d].place = "dead"
  BY <1>2, <1>3, <1>5, <1>6 DEF TaskOf
<1>9. \A t \in Tasks : /\ Runs(t)' \subseteq Runs(t) /\ Seen(t) \subseteq Seen(t)'
                       /\ \A d \in Runs(t)' : delivery'[d].place = delivery[d].place
  BY <1>6, <1>8 DEF Runs, Seen, IsLive, Live
<1>10. \A t \in Tasks, x \in Replicas :
          batch'[x][t].place # "none" => batch[x][t].place # "none"
  BY <1>1, <1>2 DEF RowTypes, NoRow
<1> QED
  BY <1>2, <1>7, <1>8, <1>9, <1>10, TasksKept DEF claimVars

-------------------------------------------------------------------------------
(* process_task.                                                           *)

\* Lemma: a step of the run of t on delivery d keeps the invariant if it keeps what the
\* invariant says of t and leaves the other tasks alone.
LEMMA WorkKept ==
    ASSUME Inv, TypeOK', NEW d \in DOMAIN delivery, NEW t \in Tasks, t = TaskOf(d),
           UNCHANGED <<requestVars, batch, log, aged>>,
           UNCHANGED delivery \/ \E place \in Places \ {"started"} : Moves(d, place),
           \A u \in Tasks \ {t} :
              /\ takeovers'[u] = takeovers[u] /\ ledger'[u] = ledger[u] /\ trace'[u] = trace[u]
              /\ u \in result' <=> u \in result
              /\ u \in lostWrite' <=> u \in lostWrite,
           ledger'[t] # "none", FoundAt(d)', CountedOf(t)', FirstRunOf(t)'
    PROVE  Inv'
<1>1. TypeOK /\ Known /\ Bounded /\ Found /\ Counted /\ FirstRun
  BY DEF Inv
<1>2. handler[t] # "idle"
  BY <1>1, DeliveryFacts DEF Known, TaskOf
<1>3. Known' /\ Bounded'
  BY <1>1, <1>2
  DEF Known, requestVars, rowVars, Bounded, BoundedOf, Holders, AttemptsBound
<1>4. ASSUME NEW u \in Tasks, u # t
      PROVE  /\ Runs(u)' = Runs(u) /\ Seen(u)' = Seen(u)
             /\ \A e \in Runs(u)' : delivery'[e].place = delivery[e].place
  <2>1. CASE UNCHANGED delivery
    BY <2>1 DEF Runs, Seen, IsLive, TaskOf
  <2>2. CASE \E place \in Places \ {"started"} : Moves(d, place)
    <3>1. PICK place \in Places \ {"started"} : Moves(d, place)
      BY <2>2
    <3>2. /\ DOMAIN delivery' = DOMAIN delivery
          /\ \A e \in DOMAIN delivery : /\ TaskOf(e)' = TaskOf(e)
                                        /\ e # d => delivery'[e] = delivery[e]
      BY <1>1, <3>1, MoveFacts
    <3> QED
      BY <1>4, <3>2 DEF Runs, Seen, IsLive
  <2> QED
    BY <2>1, <2>2
<1>5. Counted'
  <2> SUFFICES ASSUME NEW u \in Tasks, u # t PROVE CountedOf(u)'
    BY DEF Counted
  <2>1. CountedOf(u)
    BY <1>1 DEF Counted
  <2> QED
    BY <2>1, <1>1, <1>4, CountedKept
<1>6. FirstRun'
  <2> SUFFICES ASSUME NEW u \in Tasks, u # t PROVE FirstRunOf(u)'
    BY DEF FirstRun
  <2>1. FirstRunOf(u)
    BY <1>1 DEF FirstRun
  <2> QED
    BY <2>1, <1>4, FirstRunKept
<1>7. Found'
  <2>1. /\ DOMAIN delivery' = DOMAIN delivery
        /\ \A e \in DOMAIN delivery : /\ TaskOf(e)' = TaskOf(e)
                                      /\ e # d => delivery'[e] = delivery[e]
    <3>1. CASE UNCHANGED delivery
      BY <3>1 DEF TaskOf
    <3>2. CASE \E place \in Places \ {"started"} : Moves(d, place)
      BY <1>1, <3>2, MoveFacts
    <3> QED
      BY <3>1, <3>2
  <2>2. \A u \in Tasks : /\ aged[u] <= aged'[u]
                         /\ ledger[u] # "none" => ledger'[u] # "none"
    BY <1>1, TaskFacts
  <2>3. ASSUME NEW e \in DOMAIN delivery \ {d} PROVE FoundAt(e)'
    BY <1>1, <2>1, <2>2, FoundKept
  <2> QED
    BY <2>1, <2>3 DEF Found
<1> QED
  BY <1>3, <1>5, <1>6, <1>7 DEF Inv

\* Lemma: the partition's part of TypeOK while a delivery moves.
LEMMA WorkTypes ==
    ASSUME TypeOK, NEW d \in DOMAIN delivery,
           UNCHANGED <<log, consumerVars>>,
           UNCHANGED delivery \/ \E place \in Places : Moves(d, place)
    PROVE  PartitionTypes'
<1>1. PartitionTypes
  BY TypeParts
<1>2. CASE UNCHANGED delivery
  BY <1>1, <1>2 DEF PartitionTypes, consumerVars
<1>3. CASE \E place \in Places : Moves(d, place)
  <2>1. /\ delivery' \in Seq(Deliveries) /\ Len(delivery') = Len(delivery)
        /\ DOMAIN delivery' = DOMAIN delivery
        /\ \A e \in DOMAIN delivery : delivery'[e].offset = delivery[e].offset
    BY <1>3, MoveFacts
  <2> QED
    BY <1>1, <2>1 DEF PartitionTypes, consumerVars
<1> QED
  BY <1>2, <1>3

\* Lemma: a run of t that moves to another place of a run, or ends, without a takeover.
LEMMA RunMoves ==
    ASSUME Inv, TypeOK', NEW d \in DOMAIN delivery, NEW t \in Tasks, t = TaskOf(d),
           NEW place \in Places \ {"started", "found"}, Moves(d, place), UNCHANGED <<log, aged>>,
           delivery[d].place \in Live \/ place \notin Live,
           UNCHANGED takeovers, ledger'[t] = "none" <=> ledger[t] = "none"
    PROVE  CountedOf(t)'
<1>1. TypeOK /\ CountedOf(t)
  BY DEF Inv, Counted
<1>2. /\ Seen(t)' = Seen(t) \cup {d}
      /\ Runs(t)' = IF place \in Live THEN Runs(t) \cup {d} ELSE Runs(t) \ {d}
  BY <1>1, MoveSets
<1>3. delivery[d].place \in Live => d \in Runs(t)
  BY DEF Runs, IsLive
<1> QED
  BY <1>1, <1>2, <1>3, CountedKept

\* Lemma: while the claim of t was not taken over, d is its only run.
LEMMA OnlyRun ==
    ASSUME Inv, NEW d \in DOMAIN delivery, NEW t \in Tasks, t = TaskOf(d),
           delivery[d].place \in Live
    PROVE  /\ ledger[t] # "none"
           /\ takeovers[t] = 0 =>
                 /\ Runs(t) = {d} /\ Written(t, delivery[d].place)
                 /\ ledger[t] = "in_progress"
<1>1. d \in Runs(t)
  BY DEF Runs, IsLive
<1>2. CountedOf(t) /\ FirstRunOf(t) /\ ledger[t] \in {"none", "in_progress", "completed"}
  BY DEF Inv, Counted, FirstRun, TypeOK
<1> QED
  BY <1>1, <1>2 DEF CountedOf, FirstRunOf

\* Lemma: the delivery that gets the claim of t counts it.
LEMMA ClaimCounts ==
    ASSUME Inv, TypeOK', NEW d \in DOMAIN delivery, NEW t \in Tasks, t = TaskOf(d),
           delivery[d].place \in {"started", "found"}, Goto(d, "claimed"), UNCHANGED log,
           ledger'[t] # "none", Claims(t)' = Claims(t) + 1,
           takeovers'[t] <= aged'[t] /\ aged'[t] <= takeovers'[t] + 1
    PROVE  CountedOf(t)'
<1>1. TypeOK /\ CountedOf(t) /\ d \notin Seen(t) /\ d \notin Runs(t)
  BY DEF Inv, Counted, Seen, Runs, IsLive, Live
<1>2. Seen(t)' = Seen(t) \cup {d} /\ Runs(t)' = Runs(t) \cup {d}
  BY <1>1, GotoMoves, MoveSets DEF Places, Live
<1>3. /\ IsFiniteSet(Seen(t)) /\ IsFiniteSet(Runs(t))
      /\ Cardinality(Seen(t)) \in Nat /\ Cardinality(Runs(t)) \in Nat
  BY <1>1, DeliverySets
<1>4. /\ Cardinality(Seen(t)') = Cardinality(Seen(t)) + 1
      /\ Cardinality(Runs(t)') = Cardinality(Runs(t)) + 1
  <2>1. Cardinality(Seen(t) \cup {d}) = Cardinality(Seen(t)) + 1
    BY <1>1, <1>3, FS_AddElement
  <2>2. Cardinality(Runs(t) \cup {d}) = Cardinality(Runs(t)) + 1
    BY <1>1, <1>3, FS_AddElement
  <2> QED
    BY <1>2, <2>1, <2>2
<1>5. Claims(t) \in Nat
  BY <1>1, TaskFacts
<1> QED
  BY <1>1, <1>3, <1>4, <1>5 DEF CountedOf

\* Lemma: the first claim.
LEMMA ClaimStep ==
    ASSUME Inv, NEW d \in DOMAIN delivery, Claim(d)
    PROVE  Inv'
<1>0. PICK t \in Tasks : t = TaskOf(d)
  BY DeliveryFacts DEF Inv
<1> USE <1>0
<1>1. /\ TypeOK /\ TaskTypes /\ RowTypes /\ CountedOf(t) /\ FirstRunOf(t)
  BY TypeParts DEF Inv, Counted, FirstRun
<1>2. /\ UNCHANGED <<requestVars, batch, log, consumerVars, aged, takeovers, docVars, faults>>
      /\ delivery[d].place = "started" /\ Goto(d, "claimed") /\ ledger[t] = "none"
      /\ ledger' = [ledger EXCEPT ![t] = "in_progress"]
  BY DEF Claim
<1>3. Moves(d, "claimed") /\ "claimed" \in Places \ {"started", "found"} /\ "claimed" \in Live
  BY <1>2, GotoMoves DEF Places, Live
<1>4. TypeOK'
  <2>1. PartitionTypes'
    BY <1>1, <1>2, <1>3, WorkTypes
  <2> QED
    BY <1>1, <1>2, <2>1, TypeParts DEF TaskTypes, RowTypes, requestVars, rowVars, docVars
<1>5. /\ ledger'[t] = "in_progress" /\ \A u \in Tasks \ {t} : ledger'[u] = ledger[u]
      /\ takeovers[t] = 0 /\ Runs(t) = {} /\ trace[t] \notin Terminal
  BY <1>1, <1>2 DEF TaskTypes, CountedOf, FirstRunOf
<1>6. /\ delivery'[d].place = "claimed" /\ Runs(t)' = Runs(t) \cup {d}
  BY <1>1, <1>2, <1>3, MoveFacts, MoveSets
<1>7. CountedOf(t)'
  <2>1. Claims(t)' = Claims(t) + 1
    BY <1>2, <1>5 DEF Claims
  <2> QED
    BY <1>1, <1>2, <1>4, <1>5, <2>1, ClaimCounts DEF CountedOf
<1>8. FirstRunOf(t)'
  BY <1>2, <1>5, <1>6 DEF FirstRunOf, Written, docVars
<1>9. FoundAt(d)'
  BY <1>6 DEF FoundAt
<1> QED
  BY <1>1, <1>2, <1>3, <1>4, <1>5, <1>7, <1>8, <1>9, WorkKept DEF docVars

\* Lemma: the takeover of a stale claim.
LEMMA TakeOverStep ==
    ASSUME Inv, NEW d \in DOMAIN delivery, TakeOver(d), Unchanged(d)
    PROVE  Inv'
<1>0. PICK t \in Tasks : t = TaskOf(d)
  BY DeliveryFacts DEF Inv
<1> USE <1>0
<1>1. /\ TypeOK /\ TaskTypes /\ RowTypes /\ CountedOf(t) /\ FoundAt(d)
  BY TypeParts DEF Inv, Counted, Found
<1>2. /\ UNCHANGED <<requestVars, batch, log, consumerVars, ledger, aged, docVars, faults>>
      /\ delivery[d].place = "found" /\ Goto(d, "claimed")
      /\ takeovers' = [takeovers EXCEPT ![t] = @ + 1]
      /\ ledger[t] = "in_progress" /\ takeovers[t] = delivery[d].found
  BY DEF TakeOver, Unchanged
<1>3. Moves(d, "claimed") /\ "claimed" \in Places \ {"started", "found"} /\ "claimed" \in Live
  BY <1>2, GotoMoves DEF Places, Live
<1>4. /\ takeovers[t] \in Nat /\ takeovers'[t] = takeovers[t] + 1
      /\ takeovers'[t] <= aged[t] /\ aged[t] <= takeovers'[t] + 1
      /\ \A u \in Tasks \ {t} : takeovers'[u] = takeovers[u]
  BY <1>1, <1>2, BoundsAssumption DEF TaskTypes, FoundAt, CountedOf
<1>5. takeovers[t] + 1 <= MaxDeliveries
  <2>1. d \notin Seen(t)
    BY <1>2 DEF Seen
  <2>2. Cardinality(Seen(t)) \in Nat /\ Cardinality(Seen(t)) + 1 <= Len(delivery)
    BY <1>1, <2>1, DeliverySets
  <2>3. Len(delivery) \in Nat /\ Len(delivery) <= MaxDeliveries
    BY <1>1, DeliveryFacts DEF TypeOK
  <2>4. takeovers[t] + 1 <= Cardinality(Seen(t))
    BY <1>1, <1>2 DEF CountedOf, Claims
  <2> QED
    BY <1>4, <2>2, <2>3, <2>4, BoundsAssumption
<1>6. TypeOK'
  <2>1. PartitionTypes'
    BY <1>1, <1>2, <1>3, WorkTypes
  <2>2. takeovers' \in [Tasks -> 0..MaxDeliveries]
    BY <1>1, <1>2, <1>4, <1>5, BoundsAssumption DEF TaskTypes
  <2> QED
    BY <1>1, <1>2, <2>1, <2>2, TypeParts DEF TaskTypes, RowTypes, requestVars, rowVars, docVars
<1>7. delivery'[d].place = "claimed"
  BY <1>1, <1>2, <1>3, MoveFacts
<1>8. CountedOf(t)'
  <2>1. Claims(t)' = Claims(t) + 1
    BY <1>2, <1>4 DEF Claims
  <2> QED
    BY <1>1, <1>2, <1>4, <1>6, <2>1, ClaimCounts
<1>9. FirstRunOf(t)'
  BY <1>4 DEF FirstRunOf
<1>10. FoundAt(d)' /\ ledger'[t] # "none"
  BY <1>2, <1>7 DEF FoundAt
<1> QED
  BY <1>1, <1>2, <1>3, <1>4, <1>6, <1>8, <1>9, <1>10, WorkKept DEF docVars

\* Lemma: a delivery that leaves the claim as it is keeps the invariant.
LEMMA NoClaimStep ==
    ASSUME Inv, NEW d \in DOMAIN delivery,
           FindClaim(d) \/ (TakeOver(d) /\ ~Unchanged(d)) \/ LedgerFails(d)
    PROVE  Inv'
<1>0. PICK t \in Tasks : t = TaskOf(d)
  BY DeliveryFacts DEF Inv
<1>1. /\ TypeOK /\ TaskTypes /\ RowTypes /\ PartitionTypes
  BY TypeParts DEF Inv
<1>2. /\ UNCHANGED <<requestVars, batch, log, consumerVars, claimVars, docVars>>
      /\ delivery[d].place \in {"started", "found"} /\ faults' \in 0..MaxFaults
  BY <1>1, BoundsAssumption
  DEF FindClaim, TakeOver, LedgerFails, claimVars, Fault, TaskTypes
<1>3. PICK place \in {"found", "returned", "raised"} : Moves(d, place)
  <2>1. takeovers[t] \in 0..MaxDeliveries
    BY <1>0, <1>1 DEF TaskTypes
  <2>2. Move(d, "found", takeovers[t]) => Moves(d, "found")
    BY <2>1 DEF Moves
  <2> QED
    BY <1>0, <2>2, GotoMoves DEF FindClaim, TakeOver, LedgerFails
<1>4. place \in Places /\ place \notin Live
  BY DEF Places, Ended, Live
<1>5. /\ DOMAIN delivery' = DOMAIN delivery /\ delivery'[d].place = place
      /\ \A e \in DOMAIN delivery : /\ e # d => delivery'[e] = delivery[e]
                                    /\ TaskOf(e)' = TaskOf(e)
  BY <1>1, <1>2, <1>3, <1>4, MoveFacts
<1>6. TypeOK'
  <2>1. PartitionTypes'
    BY <1>1, <1>2, <1>3, <1>4, WorkTypes
  <2> QED
    BY <1>1, <1>2, <2>1, TypeParts
    DEF TaskTypes, RowTypes, requestVars, rowVars, claimVars, docVars
<1>7. ASSUME NEW u \in Tasks
      PROVE  /\ Runs(u)' \subseteq Runs(u) /\ Seen(u) \subseteq Seen(u)'
             /\ \A e \in Runs(u)' : delivery'[e].place = delivery[e].place
  BY <1>2, <1>4, <1>5 DEF Runs, Seen, IsLive
<1>8. FoundAt(d)'
  <2>1. CASE place # "found"
    BY <1>5, <2>1 DEF FoundAt
  <2>2. CASE place = "found"
    <3>1. FindClaim(d) /\ ~Goto(d, "returned")
      <4>1. ~Goto(d, "returned") /\ ~Goto(d, "raised")
        <5>1. /\ Goto(d, "returned") => delivery'[d].place = "returned"
              /\ Goto(d, "raised") => delivery'[d].place = "raised"
          BY <1>1, <1>2, GotoMoves, MoveFacts DEF Places, Ended
        <5> QED
          BY <1>5, <2>2, <5>1
      <4> QED
        BY <4>1 DEF TakeOver, LedgerFails
    <3>2. /\ ledger[t] # "none" /\ ~Skips(t)
          /\ delivery' = [delivery EXCEPT ![d].place = "found", ![d].found = takeovers[t]]
      BY <1>0, <3>1 DEF FindClaim, Move
    <3>3. delivery'[d].found = takeovers[t]
      <4>1. delivery[d] \in Deliveries
        BY <1>1, DeliveryFacts
      <4> QED
        BY <3>2, <4>1 DEF Deliveries
    <3>4. takeovers[t] < aged[t]
      BY <1>0, <1>1, <3>2 DEF Skips, Stale, TaskTypes
    <3> QED
      BY <1>0, <1>2, <1>5, <3>2, <3>3, <3>4 DEF FoundAt, claimVars
  <2> QED
    BY <2>1, <2>2
<1>9. Inv'
  <2>1. Known /\ Bounded /\ Found /\ Counted /\ FirstRun
    BY DEF Inv
  <2>2. Known' /\ Bounded'
    BY <1>2, <2>1
    DEF Known, Bounded, BoundedOf, Holders, AttemptsBound, requestVars, rowVars, docVars
  <2>3. ASSUME NEW u \in Tasks PROVE CountedOf(u)'
    BY <1>1, <1>2, <1>6, <1>7, <2>1, CountedKept DEF Counted, claimVars
  <2>4. ASSUME NEW u \in Tasks PROVE FirstRunOf(u)'
    BY <1>2, <1>7, <2>1, FirstRunKept DEF FirstRun, claimVars, docVars
  <2>5. ASSUME NEW e \in DOMAIN delivery \ {d} PROVE FoundAt(e)'
    BY <1>2, <1>5, <2>1 DEF Found, FoundAt, claimVars
  <2> QED
    BY <1>5, <1>6, <1>8, <2>2, <2>3, <2>4, <2>5 DEF Inv, Counted, FirstRun, Found
<1> QED
  BY <1>9

\* Lemma: the writes of a run.
LEMMA WriteStep ==
    ASSUME Inv, NEW d \in DOMAIN delivery,
           \/ Upsert(d) \/ Progress(d) \/ Fail(d) \/ Complete(d) \/ WriteResult(d) \/ Raise(d)
    PROVE  Inv'
<1>0. PICK t \in Tasks : t = TaskOf(d)
  BY DeliveryFacts DEF Inv
<1> USE <1>0
<1>1. /\ TypeOK /\ TaskTypes /\ RowTypes /\ PartitionTypes /\ t \in Tasks
      /\ CountedOf(t) /\ FirstRunOf(t)
  BY TypeParts, DeliveryFacts DEF Inv, Counted, FirstRun
<1>2. /\ UNCHANGED <<requestVars, batch, log, consumerVars, claimVars>>
      /\ delivery[d].place \in Live
  BY DEF Upsert, Progress, Fail, Complete, WriteResult, Raise, SetStatus, Ready, Live
<1>3. \/ UNCHANGED delivery
      \/ \E place \in {"working", "terminal", "emitted", "raised"} : Moves(d, place)
  BY GotoMoves DEF Upsert, Progress, Fail, Complete, WriteResult, Raise
<1>4. /\ trace' \in [Tasks -> {"absent", "pending", "running"} \cup Terminal]
      /\ result' \in SUBSET Tasks /\ lostWrite' \in SUBSET Tasks /\ faults' \in 0..MaxFaults
      /\ \A u \in Tasks \ {t} : /\ trace'[u] = trace[u]
                                /\ u \in result' <=> u \in result
                                /\ u \in lostWrite' <=> u \in lostWrite
      /\ result \subseteq result'
  BY <1>1, BoundsAssumption
  DEF Upsert, Progress, Fail, Complete, WriteResult, Raise, SetStatus, Fault, NoFault,
      TaskTypes, docVars, Terminal
<1>5. TypeOK'
  <2>1. PartitionTypes'
    BY <1>1, <1>2, <1>3, WorkTypes DEF Places, Live, Ended
  <2>2. TaskTypes' /\ RowTypes'
    BY <1>1, <1>2, <1>4 DEF TaskTypes, RowTypes, requestVars, rowVars, claimVars
  <2> QED
    BY <2>1, <2>2, TypeParts
<1>6. CountedOf(t)'
  <2>1. CASE UNCHANGED delivery
    <3>1. Runs(t)' = Runs(t) /\ Seen(t)' = Seen(t)
      BY <1>1, <1>2, <2>1, LogGrows
    <3> QED
      BY <1>1, <1>2, <1>5, <3>1, CountedKept DEF claimVars
  <2>2. CASE \E place \in {"working", "terminal", "emitted", "raised"} : Moves(d, place)
    <3>1. PICK place \in {"working", "terminal", "emitted", "raised"} : Moves(d, place)
      BY <2>2
    <3>2. place \in Places \ {"started", "found"}
      BY DEF Places, Live, Ended
    <3> QED
      BY <1>1, <1>2, <1>5, <3>1, <3>2, RunMoves DEF claimVars
  <2> QED
    BY <1>3, <2>1, <2>2
<1>7. FirstRunOf(t)'
  <2> SUFFICES ASSUME takeovers[t] = 0 PROVE FirstRunOf(t)'
    BY <1>2 DEF FirstRunOf, claimVars
  <2>1. Runs(t) = {d} /\ Written(t, delivery[d].place) /\ ledger'[t] = "in_progress"
    BY <1>1, <1>2, OnlyRun DEF claimVars
  <2>3. /\ {"working", "terminal", "emitted", "raised"} \subseteq Places \ {"started", "found"}
        /\ "raised" \notin Live
    BY DEF Places, Live, Ended
  <2>4. \A e \in Runs(t)' : e = d
    <3>1. CASE UNCHANGED delivery
      BY <1>1, <1>2, <2>1, <3>1, LogGrows
    <3>2. CASE \E place \in {"working", "terminal", "emitted", "raised"} : Moves(d, place)
      BY <1>1, <1>2, <2>1, <2>3, <3>2, MoveSets
    <3> QED
      BY <1>3, <3>1, <3>2
  <2>2. ASSUME NEW place, delivery'[d].place = place, Written(t, place)'
        PROVE  FirstRunOf(t)'
    BY <2>1, <2>2, <2>4 DEF FirstRunOf
  <2>5. CASE Upsert(d)
    <3>1. delivery'[d].place = "working" /\ delivery[d].place = "claimed"
      BY <1>1, <1>2, <2>3, <2>5, GotoMoves, MoveFacts DEF Upsert, Ready
    <3>2. trace'[t] \notin Terminal
      BY <1>1, <2>1, <2>5, <3>1 DEF Upsert, SetStatus, Written, Terminal, TaskTypes
    <3>3. Written(t, "working")'
      BY <3>2 DEF Written
    <3> QED
      BY <2>2, <3>1, <3>3
  <2>6. CASE Progress(d)
    <3>1. delivery'[d].place = "working" /\ delivery[d].place = "working"
      BY <2>6 DEF Progress, Ready
    <3>2. trace'[t] \notin Terminal
      BY <1>1, <2>1, <2>6, <3>1 DEF Progress, SetStatus, Written, Terminal, TaskTypes
    <3>3. Written(t, "working")'
      BY <3>2 DEF Written
    <3> QED
      BY <2>2, <3>1, <3>3
  <2>7. CASE Fail(d)
    <3>1. delivery'[d].place = "terminal"
      BY <1>1, <1>2, <2>3, <2>7, GotoMoves, MoveFacts DEF Fail, Ready
    <3>2. t \in lostWrite' \/ trace'[t] = "failed"
      BY <1>1, <2>7 DEF Fail, SetStatus, TaskTypes
    <3>3. Written(t, "terminal")'
      BY <3>2 DEF Written, Settled, Terminal
    <3> QED
      BY <2>2, <3>1, <3>3
  <2>8. CASE Complete(d)
    <3>1. delivery'[d].place = "emitted" /\ delivery[d].place = "working"
      BY <1>1, <1>2, <2>3, <2>8, GotoMoves, MoveFacts DEF Complete, Ready
    <3>2. \/ t \in lostWrite' /\ trace'[t] = trace[t] /\ trace[t] \notin Terminal
          \/ trace'[t] = "completed"
      BY <1>1, <2>1, <2>8, <3>1 DEF Complete, SetStatus, TaskTypes, Written
    <3>3. Written(t, "emitted")'
      BY <3>2 DEF Written, Terminal
    <3> QED
      BY <2>2, <3>1, <3>3
  <2>9. CASE WriteResult(d)
    <3>1. delivery'[d].place = "terminal"
      BY <1>1, <1>2, <2>3, <2>9, GotoMoves, MoveFacts DEF WriteResult, Ready
    <3>2. t \in lostWrite' \/ (trace'[t] = "completed" /\ t \in result')
      BY <1>1, <2>9 DEF WriteResult, TaskTypes
    <3>3. Written(t, "terminal")'
      BY <3>2 DEF Written, Settled, Terminal
    <3> QED
      BY <2>2, <3>1, <3>3
  <2>10. CASE Raise(d)
    <3>1. Runs(t)' = Runs(t) \ {d}
      BY <1>1, <1>2, <2>3, <2>10, GotoMoves, MoveSets DEF Raise
    <3> QED
      BY <2>1, <3>1 DEF FirstRunOf
  <2> QED
    BY <2>5, <2>6, <2>7, <2>8, <2>9, <2>10
<1>8. UNCHANGED delivery \/ \E place \in Places \ {"started"} : Moves(d, place)
  BY <1>3 DEF Places, Live, Ended
<1>9. FoundAt(d)' /\ ledger'[t] # "none"
  <2>1. delivery'[d].place # "found"
    <3>1. CASE UNCHANGED delivery
      BY <1>2, <3>1 DEF Live
    <3>2. CASE \E place \in {"working", "terminal", "emitted", "raised"} : Moves(d, place)
      BY <1>1, <1>2, <3>2, MoveFacts DEF Places, Live, Ended
    <3> QED
      BY <1>3, <3>1, <3>2
  <2>2. ledger[t] # "none"
    BY <1>2, OnlyRun
  <2> QED
    BY <1>2, <2>1, <2>2 DEF FoundAt, claimVars
<1> QED
  BY <1>1, <1>2, <1>4, <1>5, <1>6, <1>7, <1>8, <1>9, WorkKept DEF claimVars

\* Lemma: the finalization.
LEMMA FinalizeStep ==
    ASSUME Inv, NEW d \in DOMAIN delivery, Finalize(d)
    PROVE  Inv'
<1>0. PICK t \in Tasks : t = TaskOf(d)
  BY DeliveryFacts DEF Inv
<1> USE <1>0
<1>1. /\ TypeOK /\ TaskTypes /\ RowTypes /\ PartitionTypes /\ t \in Tasks
      /\ CountedOf(t) /\ FirstRunOf(t)
  BY TypeParts, DeliveryFacts DEF Inv, Counted, FirstRun
<1>2. /\ UNCHANGED <<requestVars, batch, trace, result, log, consumerVars, aged, takeovers>>
      /\ delivery[d].place = "terminal" /\ Moves(d, "returned")
  BY GotoMoves DEF Finalize, Ready
<1>3. /\ "returned" \in Places \ {"started", "found"} /\ "returned" \notin Live
      /\ "terminal" \in Live
  BY DEF Places, Live, Ended
<1>4. /\ ledger' \in [Tasks -> {"none", "in_progress", "completed"}]
      /\ lostWrite' \in SUBSET Tasks /\ faults' \in 0..MaxFaults
      /\ \A u \in Tasks \ {t} : /\ ledger'[u] = ledger[u]
                                /\ u \in lostWrite' <=> u \in lostWrite
      /\ \/ ledger'[t] = "completed" /\ UNCHANGED lostWrite
         \/ ledger'[t] = ledger[t] /\ t \in lostWrite'
  BY <1>1, BoundsAssumption DEF Finalize, Fault, NoFault, TaskTypes
<1>5. TypeOK'
  <2>1. PartitionTypes'
    BY <1>1, <1>2, <1>3, WorkTypes
  <2>2. TaskTypes' /\ RowTypes'
    BY <1>1, <1>2, <1>4 DEF TaskTypes, RowTypes, requestVars, rowVars
  <2> QED
    BY <2>1, <2>2, TypeParts
<1>6. /\ ledger[t] # "none"
      /\ takeovers[t] = 0 => Runs(t) = {d} /\ Written(t, "terminal")
  BY <1>1, <1>2, <1>3, OnlyRun
<1>7. CountedOf(t)'
  <2>1. ledger'[t] = "none" <=> ledger[t] = "none"
    BY <1>4, <1>6
  <2> QED
    BY <1>1, <1>2, <1>3, <1>5, <2>1, RunMoves
<1>8. FirstRunOf(t)'
  <2>1. Runs(t)' = Runs(t) \ {d}
    BY <1>1, <1>2, <1>3, MoveSets
  <2> QED
    BY <1>1, <1>2, <1>4, <1>6, <2>1 DEF FirstRunOf, Written, Settled
<1>9. FoundAt(d)' /\ ledger'[t] # "none"
  <2>1. delivery'[d].place = "returned"
    BY <1>1, <1>2, <1>3, MoveFacts
  <2> QED
    BY <1>4, <1>6, <2>1 DEF FoundAt
<1> QED
  BY <1>1, <1>2, <1>3, <1>4, <1>5, <1>7, <1>8, <1>9, WorkKept

-------------------------------------------------------------------------------
\* Lemma: the invariant holds initially.
LEMMA InitInv == Init => Inv
<1> SUFFICES ASSUME Init PROVE Inv
  OBVIOUS
<1>1. TaskTypes
  BY BoundsAssumption DEF Init, TaskTypes
<1>2. PartitionTypes /\ RowTypes
  BY BoundsAssumption, AttemptsBoundFact DEF Init, PartitionTypes, RowTypes, BatchRows, NoRow
<1>3. Known /\ Found
  BY DEF Init, Known, Found, NoRow
<1>4. \A t \in Tasks : Runs(t) = {} /\ Seen(t) = {} /\ Claims(t) = 0 /\ Holders(t) = {}
  BY DEF Init, Runs, Seen, Claims, Holders, NoRow
<1>6. Bounded
  <2>1. Cardinality({}) = 0
    BY FS_EmptySet
  <2> QED
    <3> SUFFICES ASSUME NEW t \in Tasks PROVE BoundedOf(t)
      BY DEF Bounded
    <3>1. attempts[t] = 0 /\ Cardinality(Holders(t)) = 0
      BY <1>4, <2>1 DEF Init
    <3> QED
      BY <3>1, AttemptsBoundFact DEF BoundedOf
<1>5. Counted /\ FirstRun
  <2> SUFFICES ASSUME NEW t \in Tasks PROVE CountedOf(t) /\ FirstRunOf(t)
    BY DEF Counted, FirstRun
  <2>1. takeovers[t] = 0 /\ ledger[t] = "none" /\ aged[t] = 0 /\ trace[t] \notin Terminal
    BY DEF Init, Terminal
  <2>2. Cardinality(Runs(t)) = 0 /\ Cardinality(Seen(t)) = 0
    BY <1>4, FS_EmptySet
  <2> QED
    BY <1>4, <2>1, <2>2 DEF CountedOf, FirstRunOf
<1> QED
  BY <1>1, <1>2, <1>3, <1>5, <1>6, TypeParts DEF Inv

\* Lemma: every step keeps the invariant.
LEMMA NextInv == Inv /\ [Next]_vars => Inv'
<1> SUFFICES ASSUME Inv, [Next]_vars PROVE Inv'
  OBVIOUS
<1>1. CASE UNCHANGED vars
  <2>1. TypeOK /\ TypeOK'
    BY <1>1 DEF vars, Inv, TypeOK
  <2>2. /\ \A t \in Tasks : Runs(t)' = Runs(t) /\ Seen(t)' = Seen(t)
        /\ \A d \in DOMAIN delivery : TaskOf(d)' = TaskOf(d)
    BY <1>1, <2>1, LogGrows DEF vars
  <2> QED
    BY <1>1, <2>1, <2>2, TasksKept DEF vars, requestVars, rowVars, docVars
<1>2. CASE \E t \in Tasks : InsertTrace(t) \/ ProduceRequest(t) \/ RequestCrashes(t)
  BY <1>2, RequestStep
<1>3. CASE \/ \E w \in Replicas : Assign(w) \/ CommitOffset(w) \/ GiveUp(w)
           \/ \E t \in Tasks : ClaimAges(t)
  BY <1>3, QuietStep
<1>4. CASE \E w \in Replicas : Poll(w)
  BY <1>4, PollStep
<1>5. CASE \E w \in Replicas : Crash(w)
  BY <1>5, CrashStep
<1>6. CASE \E d \in DOMAIN delivery : Process(d) \/ Progress(d)
  BY <1>6, ClaimStep, TakeOverStep, NoClaimStep, WriteStep, FinalizeStep DEF Process
<1>7. CASE \E w \in Replicas : PollerFinds(w) \/ Drain(w)
  BY <1>7, DrainStep
<1> QED
  BY <1>1, <1>2, <1>3, <1>4, <1>5, <1>6, <1>7 DEF Next

\* The invariant holds in every reachable state.
THEOREM Invariance == Spec => []Inv
BY InitInv, NextInv, PTL DEF Spec

\* Every variable keeps its type; in particular a claim is taken over no more often than
\* messages were handed to the supervisor, and a row of the outbox, which several replicas
\* may have read at its last attempt but one, counts at most one attempt per replica
\* beyond that one.
THEOREM TypeCorrect == Spec => []TypeOK
<1>1. Inv => TypeOK
  BY DEF Inv
<1> QED
  BY <1>1, Invariance, PTL

\* A task has no more runs than claims, each claim being the right to one run, and no more
\* takeovers than claims of it that went stale.
THEOREM OneRun == Spec => []OneRunPerClaim
<1>1. Inv => OneRunPerClaim
  <2> SUFFICES ASSUME Inv, NEW t \in Tasks
               PROVE  Cardinality(Runs(t)) <= takeovers[t] + 1 /\ takeovers[t] <= aged[t]
    BY DEF OneRunPerClaim
  <2>1. TypeOK /\ CountedOf(t) /\ takeovers[t] \in Nat
    BY BoundsAssumption DEF Inv, Counted, TypeOK
  <2>2. Cardinality(Runs(t)) \in Nat
    BY <2>1, DeliverySets
  <2> QED
    BY <2>1, <2>2 DEF CountedOf, Claims
<1> QED
  BY <1>1, Invariance, PTL

\* What the ledger calls completed has ended, with its result.
THEOREM Finalized == Spec => []FinalizedIsTerminal
<1>1. Inv => FinalizedIsTerminal
  BY DEF Inv, FirstRun, FirstRunOf, Settled, FinalizedIsTerminal
<1> QED
  BY <1>1, Invariance, PTL

\* Lemma: the steps of a drain touch no document, delivery, claim or position.
LEMMA DrainQuiet ==
    ASSUME NEW w \in Replicas, PollerFinds(w) \/ Drain(w)
    PROVE  UNCHANGED <<delivery, consumerVars, claimVars, docVars>>
BY DEF PollerFinds, Drain, PollerProduces, PollerMarksDelivered, PollerFails, PollerAborts

\* Lemma: a step changes the status of a finished task only after a takeover.
LEMMA TerminalStep ==
    ASSUME Inv, Next, NEW t \in Tasks, trace[t] \in Terminal, takeovers'[t] = 0
    PROVE  trace'[t] = trace[t]
<1>1. TypeOK /\ TaskTypes /\ Known
  BY TypeParts DEF Inv
<1>2. CASE \E u \in Tasks : \/ InsertTrace(u) \/ ProduceRequest(u) \/ RequestCrashes(u)
                            \/ ClaimAges(u)
  <2>1. handler[t] # "idle"
    BY <1>1 DEF Known, Terminal
  <2> QED
    BY <1>1, <1>2, <2>1
    DEF InsertTrace, ProduceRequest, RequestCrashes, ClaimAges, docVars, TaskTypes
<1>3. CASE \E w \in Replicas :
              \/ PollerFinds(w) \/ Drain(w)
              \/ Assign(w) \/ Poll(w) \/ CommitOffset(w) \/ GiveUp(w) \/ Crash(w)
  BY <1>3, DrainQuiet DEF Assign, Crash, Poll, CommitOffset, GiveUp, docVars
<1>4. CASE \E d \in DOMAIN delivery : Process(d) \/ Progress(d)
  <2>1. PICK d \in DOMAIN delivery : Process(d) \/ Progress(d)
    BY <1>4
  <2>2. CASE \/ Claim(d) \/ FindClaim(d) \/ TakeOver(d) \/ LedgerFails(d)
             \/ Raise(d) \/ Finalize(d)
    BY <2>2 DEF Claim, FindClaim, TakeOver, LedgerFails, Raise, Finalize, docVars
  <2>3. CASE Upsert(d) \/ Progress(d) \/ Fail(d) \/ Complete(d) \/ WriteResult(d)
    <3>1. /\ UNCHANGED takeovers /\ delivery[d].place \in Live /\ TaskOf(d) \in Tasks
          /\ delivery[d].place \in {"claimed", "working", "emitted"}
      BY <1>1, <2>3, DeliveryFacts
      DEF Upsert, Progress, Fail, Complete, WriteResult, Ready, claimVars, Live
    <3>2. CASE TaskOf(d) # t
      BY <1>1, <2>3, <3>1, <3>2
      DEF Upsert, Progress, Fail, Complete, WriteResult, SetStatus, TaskTypes
    <3>3. CASE TaskOf(d) = t
      <4>1. Written(t, delivery[d].place)
        BY <3>1, <3>3, OnlyRun
      <4>2. delivery[d].place = "emitted" /\ trace[t] = "completed"
        BY <3>1, <4>1 DEF Written, Terminal
      <4>3. WriteResult(d)
        BY <2>3, <4>2 DEF Upsert, Progress, Fail, Complete, Ready
      <4> QED
        BY <1>1, <3>3, <4>2, <4>3 DEF WriteResult, TaskTypes
    <3> QED
      BY <3>2, <3>3
  <2> QED
    BY <2>1, <2>2, <2>3 DEF Process
<1> QED
  BY <1>2, <1>3, <1>4 DEF Next

\* No duplicate, redelivery or restart changes the status of a finished task.
THEOREM TerminalStays == Spec => TerminalIsFinal
<1>1. Inv /\ [Next]_vars =>
        [\A t \in Tasks :
           trace[t] \in Terminal /\ takeovers'[t] = 0 => trace'[t] = trace[t]]_vars
  BY TerminalStep
<1> QED
  BY <1>1, Invariance, PTL DEF Spec, TerminalIsFinal

-------------------------------------------------------------------------------
(* The safety half of QueuedTaskEnds, and what the leak of                 *)
(* RunningTaskIsAlive takes: Fetched says what the consumers' positions    *)
(* mean, FateOf where a task can be.                                       *)

\* A delivery of t is at one of the places.
At(t, places) == \E d \in DOMAIN delivery : TaskOf(d) = t /\ delivery[d].place \in places

Stopped == {"raised", "dead"}
Begun   == {"working", "emitted", "terminal"}

\* Every message up to the n-th was handed to process_task.
Reached(n) == \A o \in 1..n : \E d \in DOMAIN delivery : delivery[d].offset = o

\* The message of d was handed over another time too.
Twice(d) == \E e \in DOMAIN delivery : e # d /\ delivery[e].offset = delivery[d].offset

\* Delivery d, which w waits for, is the only one of its message and the furthest.
Newest(d, w) ==
    /\ committed < delivery[d].offset
    /\ \A e \in DOMAIN delivery : e # d => delivery[e].offset < delivery[d].offset
    /\ owner # w => position < delivery[d].offset

\* What w's thread waits for is its own delivery, and the newest unless another replica,
\* or w itself, was handed the message again.
Waits(w) ==
    awaited[w] # 0 =>
        delivery[awaited[w]].host = w /\ (Twice(awaited[w]) \/ Newest(awaited[w], w))

Fetched ==
    /\ Reached(committed) /\ Reached(position)
    /\ \A d \in DOMAIN delivery : Reached(delivery[d].offset)
    /\ \A w \in Replicas : Waits(w)

\* What is known of t from its deliveries while none of its writes was lost.
FateOf(t) ==
    /\ At(t, {"returned"}) => ledger[t] # "none"
    /\ t \notin lostWrite =>
          /\ trace[t] = "running" => At(t, {"working"} \cup Stopped)
          /\ ledger[t] = "in_progress" => At(t, Live \cup Stopped)
          /\ ledger[t] = "completed" \/ At(t, Begun) => trace[t] \in {"running"} \cup Terminal

Fate == \A t \in Tasks : FateOf(t)

\* Lemma: the consumers' positions keep their meaning while they and the offsets of the
\* deliveries stay; a thread may stop waiting.
LEMMA FetchedKept ==
    ASSUME TypeOK, Fetched, UNCHANGED <<committed, position>>,
           \A w \in Replicas :
              awaited'[w] = 0 \/ (awaited'[w] = awaited[w] /\ (owner' = w <=> owner = w)),
           DOMAIN delivery' = DOMAIN delivery,
           \A d \in DOMAIN delivery : /\ delivery'[d].offset = delivery[d].offset
                                      /\ delivery'[d].host = delivery[d].host
    PROVE  Fetched'
<1>1. \A n : Reached(n) => Reached(n)'
  BY DEF Reached
<1>2. Reached(committed)' /\ Reached(position)'
  BY DEF Fetched, Reached
<1>3. ASSUME NEW d \in DOMAIN delivery' PROVE Reached(delivery[d].offset)'
  BY <1>1, <1>3 DEF Fetched, Reached
<1>4. ASSUME NEW w \in Replicas PROVE Waits(w)'
  <2> SUFFICES ASSUME awaited'[w] # 0
               PROVE  /\ delivery'[awaited'[w]].host = w
                      /\ (Twice(awaited[w]) \/ Newest(awaited[w], w))'
    BY DEF Waits
  <2>1. awaited'[w] = awaited[w] /\ (owner' = w <=> owner = w) /\ awaited[w] \in DOMAIN delivery
    BY DeliveryFacts DEF TypeOK
  <2>2. PICK d \in DOMAIN delivery : d = awaited[w] /\ d = awaited'[w]
    BY <2>1
  <2>3. delivery[d].host = w /\ (Twice(d) \/ Newest(d, w))
    BY <2>1, <2>2 DEF Fetched, Waits
  <2>4. Twice(d) => Twice(d)'
    BY <2>2 DEF Twice
  <2>5. Newest(d, w) => Newest(d, w)'
    BY <2>1, <2>2 DEF Newest
  <2> QED
    BY <2>2, <2>3, <2>4, <2>5
<1> QED
  BY <1>2, <1>3, <1>4 DEF Fetched

\* Lemma: a message is polled.
LEMMA FetchedPoll ==
    ASSUME Inv, Fetched, NEW w \in Replicas, Poll(w)
    PROVE  Fetched'
<1>1. TypeOK /\ PartitionTypes
  BY TypeParts DEF Inv
<1>2. /\ Len(delivery) \in Nat /\ DOMAIN delivery = 1..Len(delivery)
      /\ \A d \in DOMAIN delivery : delivery[d].offset \in 1..Len(log)
      /\ committed \in Nat /\ position \in Nat /\ Len(log) \in Nat
      /\ awaited \in [Replicas -> 0..Len(delivery)]
  BY <1>1, DeliveryFacts DEF PartitionTypes
<1>0. PICK n \in Nat : n = Len(delivery) + 1
  BY <1>2
<1>3. /\ UNCHANGED <<committed, owner>> /\ owner = w /\ position' = position + 1
      /\ awaited[w] = 0 /\ awaited'[w] = n /\ \A x \in Replicas \ {w} : awaited'[x] = awaited[x]
      /\ DOMAIN delivery' = 1..n /\ \A d \in 1..Len(delivery) : delivery'[d] = delivery[d]
      /\ delivery'[n].offset = position + 1 /\ delivery'[n].host = w
  BY <1>0, <1>1, <1>2 DEF Poll, PartitionTypes
<1>4. \A m \in Nat : Reached(m) => Reached(m)'
  BY <1>0, <1>2, <1>3 DEF Reached
<1>5. Reached(committed)'
  <2>1. \A o \in 1..committed : \E d \in DOMAIN delivery' : delivery'[d].offset = o
    <3> SUFFICES ASSUME NEW o \in 1..committed
                 PROVE  \E d \in DOMAIN delivery' : delivery'[d].offset = o
      OBVIOUS
    <3>1. PICK d \in DOMAIN delivery : delivery[d].offset = o
      BY DEF Fetched, Reached
    <3> QED
      BY <1>0, <1>2, <1>3, <3>1
  <2> QED
    BY <1>3, <2>1 DEF Reached
<1>6. \A o \in 1..(position + 1) : \E d \in DOMAIN delivery' : delivery'[d].offset = o
  <2> SUFFICES ASSUME NEW o \in 1..(position + 1)
               PROVE  \E d \in DOMAIN delivery' : delivery'[d].offset = o
    OBVIOUS
  <2>1. CASE o \in 1..position
    <3>1. PICK d \in DOMAIN delivery : delivery[d].offset = o
      BY <2>1 DEF Fetched, Reached
    <3> QED
      BY <1>0, <1>2, <1>3, <3>1
  <2>2. CASE o = position + 1
    BY <1>0, <1>2, <1>3, <2>2
  <2> QED
    BY <1>2, <2>1, <2>2
<1>7. Reached(position)'
  BY <1>3, <1>6 DEF Reached
<1>8. ASSUME NEW d \in DOMAIN delivery' PROVE Reached(delivery[d].offset)'
  <2>1. CASE d = n
    BY <1>3, <1>6, <2>1 DEF Reached
  <2>2. CASE d # n
    <3>1. d \in DOMAIN delivery /\ delivery'[d] = delivery[d] /\ delivery[d].offset \in Nat
      BY <1>0, <1>2, <1>3, <2>2
    <3>2. \A o \in 1..delivery[d].offset : \E e \in DOMAIN delivery' : delivery'[e].offset = o
      BY <1>4, <3>1 DEF Fetched, Reached
    <3> QED
      BY <3>1, <3>2 DEF Reached
  <2> QED
    BY <2>1, <2>2
<1>9. Waits(w)'
  <2> SUFFICES ASSUME ~Twice(n)' PROVE Newest(n, w)'
    BY <1>3 DEF Waits
  <2>1. \A e \in DOMAIN delivery : delivery[e].offset # position + 1
    BY <1>0, <1>2, <1>3 DEF Twice
  <2>2. ~Reached(position + 1)
    BY <1>2, <2>1 DEF Reached
  <2>3. ASSUME NEW m \in Nat, Reached(m) PROVE m < position + 1
    BY <1>2, <2>2, <2>3 DEF Reached
  <2>4. committed < position + 1
    BY <1>2, <2>3 DEF Fetched
  <2>5. \A e \in DOMAIN delivery : delivery[e].offset < position + 1
    BY <1>2, <2>3 DEF Fetched
  <2> QED
    BY <1>0, <1>2, <1>3, <2>4, <2>5 DEF Newest
<1>10. ASSUME NEW x \in Replicas \ {w} PROVE Waits(x)'
  <2> SUFFICES ASSUME awaited'[x] # 0
               PROVE  /\ delivery'[awaited'[x]].host = x
                      /\ (Twice(awaited[x]) \/ Newest(awaited[x], x))'
    BY DEF Waits
  <2>1. PICK d \in DOMAIN delivery : d = awaited[x] /\ d = awaited'[x] /\ d # n /\ d # 0
    BY <1>0, <1>2, <1>3
  <2>2. delivery[d].host = x /\ (Twice(d) \/ Newest(d, x)) /\ delivery'[d] = delivery[d]
    BY <1>0, <1>2, <1>3, <2>1 DEF Fetched, Waits
  <2>3. Twice(d) => Twice(d)'
    BY <1>0, <1>2, <1>3, <2>1 DEF Twice
  <2>4. CASE Newest(d, x)
    <3>1. position < delivery[d].offset /\ committed < delivery[d].offset
      BY <1>3, <2>4 DEF Newest
    <3>2. CASE position + 1 = delivery[d].offset
      BY <1>0, <1>2, <1>3, <2>1, <2>2, <3>2 DEF Twice
    <3>3. CASE position + 1 < delivery[d].offset
      <4>1. \A e \in DOMAIN delivery' : e # d => delivery'[e].offset < delivery'[d].offset
        BY <1>0, <1>2, <1>3, <2>1, <2>2, <2>4, <3>3 DEF Newest
      <4>2. Newest(d, x)'
        BY <1>3, <2>2, <3>1, <3>3, <4>1 DEF Newest
      <4> QED
        BY <2>1, <2>2, <4>2
    <3> QED
      BY <1>2, <2>1, <2>2, <3>1, <3>2, <3>3
  <2> QED
    BY <2>1, <2>2, <2>3, <2>4
<1> QED
  BY <1>5, <1>7, <1>8, <1>9, <1>10 DEF Fetched

\* Lemma: a message is committed, whoever owns the partition, or the partition moves.
LEMMA FetchedMoves ==
    ASSUME Inv, Fetched, NEW w \in Replicas, CommitOffset(w) \/ Assign(w)
    PROVE  Fetched'
<1>1. TypeOK /\ PartitionTypes
  BY TypeParts DEF Inv
<1>2. /\ DOMAIN delivery = 1..Len(delivery)
      /\ \A d \in DOMAIN delivery : delivery[d].offset \in 1..Len(log)
      /\ committed \in Nat /\ position \in Nat /\ Len(log) \in Nat
      /\ awaited \in [Replicas -> 0..Len(delivery)]
  BY <1>1, DeliveryFacts DEF PartitionTypes
<1>3. UNCHANGED delivery /\ \A n : Reached(n) => Reached(n)'
  BY DEF CommitOffset, Assign, Reached
<1>4. \/ UNCHANGED committed
      \/ awaited[w] # 0 /\ committed' = delivery[awaited[w]].offset
  BY DEF CommitOffset, Assign
<1>5. \/ UNCHANGED <<owner, position>> /\ awaited' = [awaited EXCEPT ![w] = 0]
      \/ UNCHANGED <<committed, awaited>> /\ owner' = w /\ position' = committed
  BY DEF CommitOffset, Assign
<1>6. Reached(committed)' /\ Reached(position)'
  <2>1. Reached(committed) /\ Reached(position)
    BY DEF Fetched
  <2>2. awaited[w] # 0 => Reached(delivery[awaited[w]].offset)
    BY <1>2 DEF Fetched
  <2> QED
    BY <1>3, <1>4, <1>5, <2>1, <2>2 DEF Reached
<1>7. ASSUME NEW d \in DOMAIN delivery' PROVE Reached(delivery[d].offset)'
  BY <1>3 DEF Fetched, Reached
<1>8. ASSUME NEW x \in Replicas PROVE Waits(x)'
  <2> SUFFICES ASSUME awaited'[x] # 0
               PROVE  /\ delivery'[awaited'[x]].host = x
                      /\ (Twice(awaited[x]) \/ Newest(awaited[x], x))'
    BY DEF Waits
  <2>1. PICK d \in DOMAIN delivery : d = awaited[x] /\ d = awaited'[x] /\ d # 0
    BY <1>2, <1>5
  <2>2. delivery[d].host = x /\ (Twice(d) \/ Newest(d, x))
    BY <2>1 DEF Fetched, Waits
  <2>3. Twice(d) => Twice(d)'
    BY <1>3 DEF Twice
  <2>4. ASSUME Newest(d, x) PROVE Newest(d, x)'
    <3>1. committed' < delivery[d].offset
      <4>1. CASE UNCHANGED committed
        BY <2>4, <4>1 DEF Newest
      <4>2. CASE committed' # committed
        <5>1. awaited[w] # 0 /\ committed' = delivery[awaited[w]].offset /\ awaited'[w] = 0
          BY <1>2, <1>4, <1>5, <4>2
        <5>2. awaited[w] \in DOMAIN delivery /\ awaited[w] # d
          <6>1. x # w
            BY <5>1
          <6>2. delivery[awaited[w]].host = w /\ awaited[w] \in DOMAIN delivery
            BY <1>2, <5>1 DEF Fetched, Waits
          <6> QED
            BY <2>2, <6>1, <6>2
        <5> QED
          BY <2>4, <5>1, <5>2 DEF Newest
      <4> QED
        BY <4>1, <4>2
    <3>2. owner' # x => position' < delivery[d].offset
      BY <1>5, <2>4 DEF Newest
    <3> QED
      BY <1>3, <2>4, <3>1, <3>2 DEF Newest
  <2> QED
    BY <1>3, <2>1, <2>2, <2>3, <2>4
<1> QED
  BY <1>6, <1>7, <1>8 DEF Fetched

\* Lemma: what is known of t stays while its document and its ledger row do and no
\* delivery of it moves but into death.
LEMMA FateKept ==
    ASSUME NEW t, FateOf(t),
           trace'[t] = trace[t], ledger'[t] = ledger[t], t \in lostWrite => t \in lostWrite',
           \A d \in DOMAIN delivery :
              TaskOf(d) = t => /\ d \in DOMAIN delivery' /\ TaskOf(d)' = t
                               /\ delivery'[d].place \in {delivery[d].place, "dead"},
           \A d \in DOMAIN delivery' :
              TaskOf(d)' = t => \/ delivery'[d].place = "started"
                                \/ d \in DOMAIN delivery /\ TaskOf(d) = t
    PROVE  FateOf(t)'
<1>1. ASSUME NEW S, "dead" \in S, At(t, S) PROVE At(t, S)'
  BY <1>1 DEF At
<1>2. ASSUME NEW S, "dead" \notin S, "started" \notin S, At(t, S)' PROVE At(t, S)
  BY <1>2 DEF At
<1>3. /\ At(t, {"working"} \cup Stopped) => At(t, {"working"} \cup Stopped)'
      /\ At(t, Live \cup Stopped) => At(t, Live \cup Stopped)'
  BY <1>1 DEF Stopped
<1>4. /\ At(t, {"returned"})' => At(t, {"returned"})
      /\ At(t, Begun)' => At(t, Begun)
  BY <1>2 DEF Begun
<1> QED
  BY <1>3, <1>4 DEF FateOf

\* Lemma: where the deliveries of a task are after one of them, or of another task, moved.
LEMMA AtMoved ==
    ASSUME TypeOK, NEW d \in DOMAIN delivery, NEW place \in Places, Moves(d, place),
           UNCHANGED log, NEW t, t = TaskOf(d), NEW S
    PROVE  /\ place \in S => At(t, S)'
           /\ delivery[d].place \notin S /\ At(t, S) => At(t, S)'
           /\ At(t, S)' => place \in S \/ At(t, S)
<1> USE MoveFacts
<1> QED
  BY DEF At

\* Lemma: a step on delivery d keeps what is known of the tasks d is not for.
LEMMA OthersFate ==
    ASSUME TypeOK, NEW d \in DOMAIN delivery, NEW u, u # TaskOf(d), FateOf(u), UNCHANGED log,
           UNCHANGED delivery \/ \E place \in Places : Moves(d, place),
           trace'[u] = trace[u], ledger'[u] = ledger[u], u \in lostWrite => u \in lostWrite'
    PROVE  FateOf(u)'
<1>1. /\ DOMAIN delivery' = DOMAIN delivery
      /\ \A e \in DOMAIN delivery : /\ TaskOf(e)' = TaskOf(e)
                                    /\ e # d => delivery'[e].place = delivery[e].place
  <2>1. CASE UNCHANGED delivery
    BY <2>1 DEF TaskOf
  <2>2. CASE \E place \in Places : Moves(d, place)
    BY <2>2, MoveFacts
  <2> QED
    BY <2>1, <2>2
<1>2. ASSUME NEW e \in DOMAIN delivery, TaskOf(e) = u
      PROVE  /\ e \in DOMAIN delivery' /\ TaskOf(e)' = u
             /\ delivery'[e].place \in {delivery[e].place, "dead"}
  <2>1. e # d
    BY <1>2
  <2> QED
    BY <1>1, <1>2, <2>1
<1>3. ASSUME NEW e \in DOMAIN delivery', TaskOf(e)' = u
      PROVE  e \in DOMAIN delivery /\ TaskOf(e) = u
  <2>1. e \in DOMAIN delivery /\ TaskOf(e)' = TaskOf(e)
    BY <1>1, <1>3
  <2> QED
    BY <1>3, <2>1
<1> QED
  BY <1>2, <1>3, FateKept

\* Lemma: a claim, a skip or a failed call to the ledger keeps what is known of the task.
LEMMA LedgerFate ==
    ASSUME Inv, NEW d \in DOMAIN delivery,
           Claim(d) \/ FindClaim(d) \/ TakeOver(d) \/ LedgerFails(d),
           NEW t \in Tasks, t = TaskOf(d), FateOf(t)
    PROVE  FateOf(t)'
<1>1. TypeOK /\ TaskTypes /\ FoundAt(d)
  BY TypeParts DEF Inv, Found
<1>2. /\ UNCHANGED <<log, docVars>> /\ delivery[d].place \in {"started", "found"}
      /\ UNCHANGED ledger \/ (Goto(d, "claimed") /\ ledger'[t] = "in_progress")
  BY <1>1 DEF Claim, FindClaim, TakeOver, LedgerFails, claimVars, TaskTypes
<1>3. /\ {"claimed", "found", "returned", "raised"} \subseteq Places
      /\ "claimed" \in Live
      /\ {"started", "found", "returned"} \cap (Live \cup Stopped \cup Begun) = {}
      /\ "claimed" \notin Begun /\ "raised" \in Stopped /\ "raised" \notin Begun
  BY DEF Places, Live, Ended, Stopped, Begun
<1>4. ASSUME NEW place \in {"claimed", "found", "returned", "raised"}, Moves(d, place), NEW S
      PROVE  /\ place \in S => At(t, S)'
             /\ delivery[d].place \notin S /\ At(t, S) => At(t, S)'
             /\ At(t, S)' => place \in S \/ At(t, S)
  BY <1>1, <1>2, <1>3, <1>4, AtMoved
<1>5. ASSUME NEW place \in {"claimed", "found", "returned", "raised"}, Moves(d, place)
      PROVE  /\ At(t, {"working"} \cup Stopped) => At(t, {"working"} \cup Stopped)'
             /\ At(t, Live \cup Stopped) => At(t, Live \cup Stopped)'
             /\ At(t, Begun)' => At(t, Begun)
             /\ place = "claimed" => At(t, Live \cup Stopped)'
             /\ At(t, {"returned"})' => place = "returned" \/ At(t, {"returned"})
  <2>1. delivery[d].place \notin {"working"} \cup Stopped
    BY <1>2 DEF Stopped
  <2>2. delivery[d].place \notin Live \cup Stopped /\ place \notin Begun
    BY <1>2, <1>3, <1>5
  <2>3. place = "claimed" => place \in Live \cup Stopped
    BY <1>3
  <2> QED
    BY <1>4, <1>5, <2>1, <2>2, <2>3
<1>6. CASE Goto(d, "claimed")
  <2>1. Moves(d, "claimed")
    BY <1>6, GotoMoves
  <2>2. ledger'[t] # "none" /\ (ledger'[t] = "completed" => ledger[t] = "completed")
    <3>1. CASE Claim(d)
      BY <1>1, <3>1 DEF Claim, TaskTypes
    <3>2. CASE TakeOver(d)
      BY <1>1, <3>2 DEF TakeOver, FoundAt
    <3>3. CASE FindClaim(d)
      BY <3>3 DEF FindClaim, claimVars
    <3>4. CASE LedgerFails(d)
      <4>1. Moves(d, "raised")
        BY <3>4, GotoMoves DEF LedgerFails
      <4>2. delivery'[d].place = "raised" /\ delivery'[d].place = "claimed"
        BY <1>1, <1>2, <1>3, <2>1, <4>1, MoveFacts
      <4> QED
        BY <4>2
    <3> QED
      BY <3>1, <3>2, <3>3, <3>4
  <2> QED
    BY <1>2, <1>5, <2>1, <2>2 DEF FateOf, docVars
<1>7. CASE UNCHANGED ledger /\ \E place \in {"found", "returned", "raised"} : Moves(d, place)
  <2>1. PICK place \in {"found", "returned", "raised"} : Moves(d, place)
    BY <1>7
  <2>2. place = "returned" => ledger[t] # "none"
    <3>1. delivery'[d].place = place
      BY <1>1, <1>2, <1>3, <2>1, MoveFacts
    <3>2. CASE LedgerFails(d)
      <4>1. delivery'[d].place = "raised"
        BY <1>1, <1>2, <1>3, <3>2, GotoMoves, MoveFacts DEF LedgerFails
      <4> QED
        BY <3>1, <4>1
    <3>3. CASE Claim(d)
      <4>1. delivery'[d].place = "claimed"
        BY <1>1, <1>2, <1>3, <3>3, GotoMoves, MoveFacts DEF Claim
      <4> QED
        BY <3>1, <4>1
    <3>4. CASE FindClaim(d) \/ TakeOver(d)
      BY <1>1, <3>4 DEF FindClaim, TakeOver, FoundAt
    <3> QED
      BY <3>2, <3>3, <3>4
  <2> QED
    BY <1>2, <1>5, <1>7, <2>1, <2>2 DEF FateOf, docVars
<1>8. \/ Goto(d, "claimed")
      \/ UNCHANGED ledger /\ \E place \in {"found", "returned", "raised"} : Moves(d, place)
  <2>1. takeovers[t] \in 0..MaxDeliveries
    BY <1>1 DEF TaskTypes
  <2>2. Move(d, "found", takeovers[t]) => Moves(d, "found")
    BY <2>1 DEF Moves
  <2> QED
    BY <2>2, GotoMoves DEF Claim, FindClaim, TakeOver, LedgerFails, claimVars
<1> QED
  BY <1>6, <1>7, <1>8

\* Lemma: the steps of process_task keep what is known of the task they are for.
LEMMA OwnFate ==
    ASSUME Inv, NEW d \in DOMAIN delivery, Process(d) \/ Progress(d),
           NEW t \in Tasks, t = TaskOf(d), FateOf(t)
    PROVE  FateOf(t)'
<1>1. TypeOK /\ TaskTypes
  BY TypeParts DEF Inv
<1>2. CASE Claim(d) \/ FindClaim(d) \/ TakeOver(d) \/ LedgerFails(d)
  BY <1>2, LedgerFate
<1>3. ASSUME NEW place \in Places, Goto(d, place), UNCHANGED log, NEW S
      PROVE  /\ place \in S => At(t, S)'
             /\ delivery[d].place \notin S /\ At(t, S) => At(t, S)'
             /\ At(t, S)' => place \in S \/ At(t, S)
  BY <1>1, <1>3, GotoMoves, AtMoved
<1>4. /\ {"claimed", "working", "emitted", "terminal", "returned", "raised"} \subseteq Places
      /\ "claimed" \in Live /\ "working" \in Live /\ "emitted" \in Live /\ "terminal" \in Live
      /\ "started" \notin Live /\ "returned" \notin Live
  BY DEF Places, Live, Ended
<1>5. ASSUME NEW S, delivery[d].place \in S PROVE At(t, S)
  BY <1>5 DEF At
<1>6. ASSUME \/ Upsert(d) \/ Progress(d) \/ Fail(d) \/ Complete(d) \/ WriteResult(d)
             \/ Raise(d) \/ Finalize(d)
      PROVE  UNCHANGED log
  BY <1>6 DEF Upsert, Progress, Fail, Complete, WriteResult, Raise, Finalize
<1>7. CASE Upsert(d)
  <2>1. /\ delivery[d].place = "claimed" /\ Goto(d, "working") /\ UNCHANGED ledger
        /\ \/ trace'[t] = "running" /\ UNCHANGED lostWrite
           \/ t \in lostWrite'
    BY <1>1, <1>7 DEF Upsert, Ready, SetStatus, claimVars, TaskTypes
  <2>2. At(t, Live)
    BY <1>4, <1>5, <2>1
  <2> QED
    BY <1>3, <1>4, <1>6, <1>7, <2>1, <2>2 DEF FateOf, Stopped, Begun
<1>8. CASE Progress(d)
  <2>1. /\ delivery[d].place = "working" /\ UNCHANGED <<delivery, ledger>>
        /\ \/ trace'[t] = "running" /\ UNCHANGED lostWrite
           \/ t \in lostWrite'
    BY <1>1, <1>8 DEF Progress, Ready, SetStatus, claimVars, TaskTypes
  <2>2. At(t, {"working"} \cup Stopped)
    BY <1>5, <2>1
  <2>3. ASSUME NEW S PROVE At(t, S)' <=> At(t, S)
    BY <1>6, <1>8, <2>1 DEF At, TaskOf
  <2> QED
    BY <2>1, <2>2, <2>3 DEF FateOf
<1>9. CASE Fail(d) \/ Complete(d)
  <2>1. /\ delivery[d].place = "working" /\ UNCHANGED ledger
        /\ Goto(d, "terminal") \/ Goto(d, "emitted")
        /\ \/ trace'[t] \in Terminal /\ UNCHANGED lostWrite
           \/ t \in lostWrite'
    BY <1>1, <1>9 DEF Fail, Complete, Ready, SetStatus, claimVars, TaskTypes, Terminal
  <2> QED
    BY <1>3, <1>4, <1>6, <1>9, <2>1 DEF FateOf, Stopped, Begun, Terminal
<1>10. CASE WriteResult(d)
  <2>1. /\ delivery[d].place = "emitted" /\ UNCHANGED ledger /\ Goto(d, "terminal")
        /\ \/ trace'[t] \in Terminal /\ UNCHANGED lostWrite
           \/ t \in lostWrite'
    BY <1>1, <1>10 DEF WriteResult, Ready, claimVars, TaskTypes, Terminal
  <2> QED
    BY <1>3, <1>4, <1>6, <1>10, <2>1 DEF FateOf, Stopped, Begun, Terminal
<1>11. CASE Raise(d)
  <2>1. /\ delivery[d].place = "working" /\ UNCHANGED <<ledger, trace, lostWrite>>
        /\ Goto(d, "raised")
    BY <1>11 DEF Raise, Ready, claimVars, docVars
  <2>2. At(t, Begun)
    BY <1>5, <2>1 DEF Begun
  <2> QED
    BY <1>3, <1>4, <1>6, <1>11, <2>1, <2>2 DEF FateOf, Stopped, Begun
<1>12. CASE Finalize(d)
  <2>1. /\ delivery[d].place = "terminal" /\ UNCHANGED trace /\ Goto(d, "returned")
        /\ \/ ledger'[t] = "completed" /\ UNCHANGED lostWrite
           \/ UNCHANGED ledger /\ t \in lostWrite'
    BY <1>1, <1>12 DEF Finalize, Ready, TaskTypes
  <2>2. At(t, Begun) /\ d \in Runs(t)
    BY <1>4, <1>5, <2>1 DEF Begun, Runs, IsLive
  <2>3. ledger[t] # "none"
    BY <2>2 DEF Inv, Counted, CountedOf
  <2> QED
    BY <1>3, <1>4, <1>6, <1>12, <2>1, <2>2, <2>3 DEF FateOf, Stopped, Begun
<1> QED
  BY <1>2, <1>7, <1>8, <1>9, <1>10, <1>11, <1>12 DEF Process

\* Lemma: a step of process_task moves its delivery and nothing else in the partition.
LEMMA ProcessMoves ==
    ASSUME TypeOK, NEW d \in DOMAIN delivery, Process(d) \/ Progress(d)
    PROVE  /\ UNCHANGED <<log, consumerVars>>
           /\ UNCHANGED delivery \/ \E place \in Places : Moves(d, place)
<1>1. UNCHANGED <<log, consumerVars>>
  BY DEF Process, Claim, FindClaim, TakeOver, LedgerFails, Upsert, Progress, Fail, Complete,
         WriteResult, Raise, Finalize
<1>2. takeovers[TaskOf(d)] \in 0..MaxDeliveries
  BY DeliveryFacts DEF TypeOK
<1>3. Move(d, "found", takeovers[TaskOf(d)]) => Moves(d, "found")
  BY <1>2 DEF Moves
<1>4. {"claimed", "found", "working", "emitted", "terminal", "returned", "raised"} \subseteq Places
  BY DEF Places, Live, Ended
<1>5. CASE Claim(d) \/ FindClaim(d) \/ TakeOver(d) \/ LedgerFails(d)
  BY <1>3, <1>4, <1>5, GotoMoves DEF Claim, FindClaim, TakeOver, LedgerFails
<1>6. CASE \/ Upsert(d) \/ Progress(d) \/ Fail(d) \/ Complete(d) \/ WriteResult(d) \/ Raise(d)
           \/ Finalize(d)
  BY <1>4, <1>6, GotoMoves DEF Upsert, Progress, Fail, Complete, WriteResult, Raise, Finalize
<1> QED
  BY <1>1, <1>5, <1>6 DEF Process

\* Lemma: every step keeps what is known of where a task is.
LEMMA FateStep ==
    ASSUME Inv, Fate, Next, NEW t \in Tasks
    PROVE  FateOf(t)'
<1>1. TypeOK /\ TaskTypes /\ PartitionTypes /\ Known /\ FateOf(t)
  BY TypeParts DEF Inv, Fate
<1>2. /\ Len(delivery) \in Nat /\ DOMAIN delivery = 1..Len(delivery)
      /\ \A d \in DOMAIN delivery : /\ delivery[d] \in Deliveries /\ TaskOf(d) \in Tasks
                                    /\ delivery[d].offset \in 1..Len(log)
  BY <1>1, DeliveryFacts
<1>3. CASE \/ \E u \in Tasks : InsertTrace(u) \/ ProduceRequest(u) \/ RequestCrashes(u)
           \/ \E w \in Replicas : PollerFinds(w) \/ Drain(w)
  <2>2. /\ UNCHANGED <<delivery, ledger, lostWrite>>
        /\ UNCHANGED log \/ \E u \in Tasks : log' = Append(log, u)
    <3>1. CASE \E u \in Tasks : InsertTrace(u) \/ ProduceRequest(u) \/ RequestCrashes(u)
      BY <3>1 DEF InsertTrace, ProduceRequest, RequestCrashes, Produced, claimVars, docVars
    <3>2. CASE \E w \in Replicas : PollerFinds(w) \/ Drain(w)
      BY <1>1, <3>2, DrainFacts DEF Inv, claimVars, docVars
    <3> QED
      BY <1>3, <3>1, <3>2
  <2>3. \A d \in DOMAIN delivery : TaskOf(d)' = TaskOf(d)
    <3>1. \A o \in 1..Len(log) : log'[o] = log[o]
      BY <1>1, <2>2 DEF PartitionTypes
    <3> QED
      BY <1>2, <2>2, <3>1 DEF TaskOf
  <2>4. CASE trace'[t] = trace[t]
    BY <1>1, <2>2, <2>3, <2>4, FateKept
  <2>5. CASE trace'[t] # trace[t]
    <3>1. trace[t] = "absent" /\ trace'[t] = "pending"
      BY <1>1, <1>3, <2>5, DrainQuiet
      DEF InsertTrace, ProduceRequest, RequestCrashes, docVars, TaskTypes, Known
    <3>2. ASSUME NEW S PROVE At(t, S)' <=> At(t, S)
      BY <2>2, <2>3 DEF At
    <3> QED
      BY <1>1, <2>2, <3>1, <3>2 DEF FateOf, Terminal
  <2> QED
    BY <2>4, <2>5
<1>4. CASE \/ \E w \in Replicas : Assign(w) \/ CommitOffset(w) \/ GiveUp(w)
           \/ \E u \in Tasks : ClaimAges(u)
  <2>1. UNCHANGED <<log, delivery, ledger, docVars>>
    BY <1>4 DEF Assign, CommitOffset, GiveUp, ClaimAges, claimVars
  <2> QED
    BY <1>1, <2>1, FateKept DEF docVars, TaskOf
<1>5. CASE \E w \in Replicas : Poll(w)
  <2>1. /\ UNCHANGED <<log, ledger, docVars>>
        /\ DOMAIN delivery' = 1..(Len(delivery) + 1)
        /\ \A d \in 1..Len(delivery) : delivery'[d] = delivery[d]
        /\ delivery'[Len(delivery) + 1].place = "started"
    BY <1>1, <1>2, <1>5 DEF Poll, PartitionTypes, claimVars
  <2>2. \A d \in DOMAIN delivery :
           /\ d \in DOMAIN delivery' /\ TaskOf(d)' = TaskOf(d)
           /\ delivery'[d].place = delivery[d].place
    BY <1>2, <2>1 DEF TaskOf
  <2>3. \A d \in DOMAIN delivery' : d \in DOMAIN delivery \/ delivery'[d].place = "started"
    BY <1>2, <2>1
  <2> QED
    BY <1>1, <2>1, <2>2, <2>3, FateKept DEF docVars
<1>6. CASE \E w \in Replicas : Crash(w)
  <2>1. /\ UNCHANGED <<log, ledger, docVars>> /\ DOMAIN delivery' = DOMAIN delivery
        /\ \A d \in DOMAIN delivery : /\ delivery'[d].place \in {delivery[d].place, "dead"}
                                      /\ delivery'[d].offset = delivery[d].offset
    <3>1. ASSUME NEW d \in DOMAIN delivery
          PROVE  /\ [delivery[d] EXCEPT !.place = "dead", !.found = 0].place = "dead"
                 /\ [delivery[d] EXCEPT !.place = "dead", !.found = 0].offset = delivery[d].offset
      BY <1>2 DEF Deliveries
    <3> QED
      BY <1>6, <3>1 DEF Crash, claimVars
  <2>2. \A d \in DOMAIN delivery : TaskOf(d)' = TaskOf(d)
    BY <2>1 DEF TaskOf
  <2> QED
    BY <1>1, <2>1, <2>2, FateKept DEF docVars
<1>7. CASE \E d \in DOMAIN delivery : Process(d) \/ Progress(d)
  <2>1. PICK d \in DOMAIN delivery : Process(d) \/ Progress(d)
    BY <1>7
  <2>2. CASE t = TaskOf(d)
    BY <1>1, <2>1, <2>2, OwnFate
  <2>3. CASE t # TaskOf(d)
    <3>1. UNCHANGED log /\ (UNCHANGED delivery \/ \E place \in Places : Moves(d, place))
      BY <1>1, <2>1, ProcessMoves
    <3>2. trace'[t] = trace[t] /\ ledger'[t] = ledger[t] /\ (t \in lostWrite => t \in lostWrite')
      BY <1>1, <2>1, <2>3
      DEF Process, Claim, FindClaim, TakeOver, LedgerFails, Upsert, Progress, Fail, Complete,
          WriteResult, Raise, Finalize,
          SetStatus, claimVars, docVars, TaskTypes
    <3> QED
      BY <1>1, <2>3, <3>1, <3>2, OthersFate
  <2> QED
    BY <2>2, <2>3
<1> QED
  BY <1>3, <1>4, <1>5, <1>6, <1>7 DEF Next

Tracked == Fetched /\ Fate

\* Lemma: every step keeps both.
LEMMA TrackedStep == Inv /\ Tracked /\ [Next]_vars => Tracked'
<1> SUFFICES ASSUME Inv, Tracked, [Next]_vars PROVE Tracked'
  OBVIOUS
<1>1. TypeOK /\ Fetched /\ Fate
  BY DEF Inv, Tracked
<1>2. CASE UNCHANGED vars
  BY <1>1, <1>2
  DEF Tracked, Fetched, Reached, Waits, Twice, Newest, Fate, FateOf, At, TaskOf, vars
<1>3. CASE Next
  <2>1. Fate'
    BY <1>1, <1>3, FateStep DEF Fate
  <2>2. CASE \E w \in Replicas : Poll(w) \/ CommitOffset(w) \/ Assign(w)
    BY <1>1, <2>2, <2>1, FetchedPoll, FetchedMoves DEF Tracked
  <2>3. CASE \/ \E t \in Tasks : \/ InsertTrace(t) \/ ProduceRequest(t) \/ RequestCrashes(t)
                                \/ ClaimAges(t)
             \/ \E w \in Replicas : PollerFinds(w) \/ Drain(w) \/ GiveUp(w)
    <3>1. /\ UNCHANGED <<delivery, committed, owner, position>>
          /\ UNCHANGED awaited \/ \E w \in Replicas : awaited' = [awaited EXCEPT ![w] = 0]
      BY <2>3, DrainQuiet
      DEF InsertTrace, ProduceRequest, RequestCrashes, ClaimAges, GiveUp, consumerVars
    <3>2. \A w \in Replicas : awaited'[w] \in {0, awaited[w]}
      BY <1>1, <3>1 DEF TypeOK
    <3> QED
      BY <1>1, <3>1, <3>2, <2>1, FetchedKept DEF Tracked
  <2>4. CASE \E w \in Replicas : Crash(w)
    <3>1. PICK w \in Replicas : Crash(w)
      BY <2>4
    <3>2. \A d \in DOMAIN delivery : delivery[d] \in Deliveries
      BY <1>1, DeliveryFacts
    <3>3. /\ UNCHANGED <<committed, position>> /\ awaited' = [awaited EXCEPT ![w] = 0]
          /\ owner' = (IF owner = w THEN NoOne ELSE owner)
          /\ DOMAIN delivery' = DOMAIN delivery
          /\ \A d \in DOMAIN delivery : /\ delivery'[d].offset = delivery[d].offset
                                        /\ delivery'[d].host = delivery[d].host
      BY <3>1, <3>2 DEF Crash, Deliveries
    <3>4. \A x \in Replicas :
             awaited'[x] = 0 \/ (awaited'[x] = awaited[x] /\ (owner' = x <=> owner = x))
      BY <1>1, <3>3, ReplicasAssumption DEF TypeOK
    <3> QED
      BY <1>1, <3>3, <3>4, <2>1, FetchedKept DEF Tracked
  <2>5. CASE \E d \in DOMAIN delivery : Process(d) \/ Progress(d)
    <3>1. PICK d \in DOMAIN delivery : Process(d) \/ Progress(d)
      BY <2>5
    <3>2. /\ UNCHANGED <<log, consumerVars>>
          /\ UNCHANGED delivery \/ \E place \in Places : Moves(d, place)
      BY <1>1, <3>1, ProcessMoves
    <3>3. /\ DOMAIN delivery' = DOMAIN delivery
          /\ \A e \in DOMAIN delivery : /\ delivery'[e].offset = delivery[e].offset
                                        /\ delivery'[e].host = delivery[e].host
      BY <1>1, <3>2, MoveFacts
    <3> QED
      BY <1>1, <3>2, <3>3, <2>1, FetchedKept DEF Tracked, consumerVars
  <2> QED
    BY <1>3, <2>1, <2>2, <2>3, <2>4, <2>5 DEF Next, Tracked
<1> QED
  BY <1>2, <1>3

\* Lemma: both hold in every reachable state.
LEMMA TrackedAlways == Spec => [](Inv /\ Tracked)
<1>1. Init => Tracked
  BY DEF Init, Tracked, Fetched, Reached, Waits, Fate, FateOf, At, Begun
<1> QED
  BY <1>1, InitInv, NextInv, TrackedStep, PTL DEF Spec

-------------------------------------------------------------------------------
\* Every committed message was handed to process_task first, across rebalances, restarts
\* and the late commits of former owners.
THEOREM NothingSkipped == Spec => []CommittedWasDelivered
<1>1. Inv /\ Tracked => CommittedWasDelivered
  BY DEF Tracked, Fetched, Reached, CommittedWasDelivered
<1> QED
  BY <1>1, TrackedAlways, PTL

\* A replica that lost the partition while it waited may commit late, behind what the new
\* owner has committed.  The committed offset goes back in no other case: only to a message
\* that was handed to process_task twice, so what is delivered again has met the ledger.
BackOnlyToATwin ==
    committed' < committed =>
        \E d, e \in DOMAIN delivery :
            d # e /\ delivery[d].offset = committed' /\ delivery[e].offset = committed'

\* The committed offset never goes back but by the late commit of a message handed over again.
THEOREM CommitsForward == Spec => [][BackOnlyToATwin]_vars
<1>1. Inv /\ Tracked /\ [Next]_vars => [BackOnlyToATwin]_vars
  <2> SUFFICES ASSUME TypeOK, Fetched, Next, committed' < committed
               PROVE  \E d, e \in DOMAIN delivery :
                         /\ d # e /\ delivery[d].offset = committed'
                         /\ delivery[e].offset = committed'
    BY DEF Inv, Tracked, BackOnlyToATwin
  <2>1. committed \in Nat
    BY DeliveryFacts DEF TypeOK
  <2>2. committed' = committed \/ \E w \in Replicas : CommitOffset(w)
    BY DrainQuiet, ProcessMoves
    DEF Next, InsertTrace, ProduceRequest, RequestCrashes, ClaimAges, Assign, Crash, Poll,
        GiveUp, consumerVars
  <2>3. PICK w \in Replicas : CommitOffset(w)
    BY <2>1, <2>2
  <2>4. PICK d \in DOMAIN delivery :
           d = awaited[w] /\ d # 0 /\ committed' = delivery[d].offset
    BY <2>1, <2>3, DeliveryFacts DEF CommitOffset, TypeOK
  <2>5. Twice(d) \/ Newest(d, w)
    BY <2>4 DEF Fetched, Waits
  <2>6. ~Newest(d, w)
    BY <2>1, <2>4, DeliveryFacts DEF Newest
  <2> QED
    BY <2>4, <2>5, <2>6 DEF Twice
<1> QED
  BY <1>1, TrackedAlways, PTL DEF Spec

\* A task whose message is in the partition is never dropped in silence: it has ended,
\* or one of its writes was lost or one of its runs raised or died, or a delivery of it
\* is being run, or the consumer has still to reach a message of it.
QueuedTaskIsHeld ==
    \A t \in Tasks :
        (\E o \in DOMAIN log : log[o] = t) =>
            \/ trace[t] \in Terminal \/ t \in lostWrite \/ At(t, Stopped)
            \/ At(t, {"started", "found"} \cup Live)
            \/ \E o \in DOMAIN log : o > position /\ log[o] = t

\* A queued task is worked on, or still to be reached, unless it has ended or met a fault.
THEOREM QueuedIsHeld == Spec => []QueuedTaskIsHeld
<1>1. Inv /\ Tracked => QueuedTaskIsHeld
  <2> SUFFICES ASSUME TypeOK, TaskTypes, Fetched, Fate, NEW t \in Tasks,
                      NEW o \in DOMAIN log, log[o] = t, ~(o > position),
                      trace[t] \notin Terminal, t \notin lostWrite, ~At(t, Stopped)
               PROVE  At(t, {"started", "found"} \cup Live)
    BY TypeParts DEF QueuedTaskIsHeld, Inv, Tracked
  <2>1. o \in 1..position
    <3>1. o \in 1..Len(log) /\ Len(log) \in Nat /\ position \in Nat
      BY TypeParts, DeliveryFacts DEF PartitionTypes
    <3> QED
      BY <3>1
  <2>2. PICK d \in DOMAIN delivery : delivery[d].offset = o
    BY <2>1 DEF Fetched, Reached
  <2>3. TaskOf(d) = t /\ delivery[d].place \in Places
    BY <2>2, DeliveryFacts DEF TaskOf
  <2>4. CASE delivery[d].place = "returned"
    <3>1. At(t, {"returned"}) /\ FateOf(t)
      BY <2>3, <2>4 DEF At, Fate
    <3>2. ledger[t] \in {"in_progress", "completed"}
      BY <3>1 DEF FateOf, TaskTypes
    <3>3. \A S : At(t, S \cup Stopped) => At(t, S)
      BY DEF At
    <3>4. At(t, Live) \/ At(t, {"working"})
      BY <3>1, <3>2, <3>3 DEF FateOf
    <3> QED
      BY <3>4 DEF At, Live
  <2>5. CASE delivery[d].place # "returned"
    BY <2>3, <2>5 DEF At, Places, Ended, Stopped
  <2> QED
    BY <2>4, <2>5
<1> QED
  BY <1>1, TrackedAlways, PTL

\* What db.py promises of the stale takeover holds of every task none of whose runs
\* raised or died and none of whose writes was lost: while it is shown as running, a
\* delivery of it is at work.  The leak RunningTaskIsAlive meets needs one of those.
RunningIsWorkedOn ==
    \A t \in Tasks :
        trace[t] = "running" /\ t \notin lostWrite => At(t, {"working"} \cup Stopped)

\* A running task without a run had a fault of its own: nothing else leaks a claim.
THEOREM LeakNeedsAFault == Spec => []RunningIsWorkedOn
<1>1. Inv /\ Tracked => RunningIsWorkedOn
  BY DEF Tracked, Fate, FateOf, RunningIsWorkedOn
<1> QED
  BY <1>1, TrackedAlways, PTL
===============================================================================
