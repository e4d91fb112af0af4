------------------------------ MODULE OutboxProofs -----------------------------
(***************************************************************************)
(* NothingIsSkipped and the refinement of EventDelivery, for any number of *)
(* events, services, polls and faults and any batch size.  Inv adds to     *)
(* TypeOK what a poll that has produced its first row knows, and how far   *)
(* the consumer and its committed offset may be.                           *)
(***************************************************************************)
EXTENDS Outbox, TLAPS

\* The row whose mark is due is on the broker.
ProducedIsLogged ==
    \A p \in produced : \A i \in First(p) : table[i] \in Logged

\* The consumer is nowhere behind the end of the partition.
WithinLog ==
    /\ committed <= Len(log) + 1
    /\ running => next <= Len(log) + 1

Inv == TypeOK /\ NothingIsSkipped /\ ProducedIsLogged /\ WithinLog

\* TypeOK without the three sequences, and those.
FlatTypes ==
    /\ broker \in BOOLEAN
    /\ producer \in [Node -> {"starting", "connected", "offline"}]
    /\ publish \in [Events -> Stages]
    /\ sent \in SUBSET Events
    /\ produced \in SUBSET Polls
    /\ group \in {"starting", "joining", "running", "off"}
    /\ origin \in Nat \ {0} /\ next \in Nat \ {0} /\ committed \in Nat
    /\ docs \in [Events -> Nat]
    /\ faults \in 0..MaxFaults

TableTypes ==
    /\ table \in Seq(Events)
    /\ batch \in [Polls -> SUBSET DOMAIN table]
    /\ \A p \in produced : batch[p] # {}

LogTypes == log \in Seq(Events)

\* What the steps of the log's producers and of its consumer must keep.
Skipless == NothingIsSkipped /\ ProducedIsLogged /\ WithinLog

\* Lemma: the parts of TypeOK, now and in the next state.
LEMMA TypeParts ==
    /\ TypeOK <=> FlatTypes /\ TableTypes /\ LogTypes
    /\ TypeOK' <=> FlatTypes' /\ TableTypes' /\ LogTypes'
BY DEF TypeOK, FlatTypes, TableTypes, LogTypes

\* Lemma: one more message leaves the others where they are.
LEMMA AppendFacts ==
    ASSUME LogTypes, NEW e \in Events, log' = Append(log, e)
    PROVE  /\ LogTypes' /\ Len(log') = Len(log) + 1
           /\ DOMAIN log' = DOMAIN log \cup {Len(log) + 1} /\ Len(log) \in Nat
           /\ DOMAIN log = 1..Len(log)
           /\ \A i \in DOMAIN log : log'[i] = log[i] /\ i <= Len(log)
           /\ log'[Len(log) + 1] = e
           /\ Logged' = Logged \cup {e}
<1>1. log \in Seq(Events) /\ Len(log) \in Nat /\ DOMAIN log = 1..Len(log)
  BY DEF LogTypes
<1>2. /\ log' \in Seq(Events) /\ Len(log') = Len(log) + 1 /\ DOMAIN log' = 1..(Len(log) + 1)
      /\ \A i \in DOMAIN log : log'[i] = log[i]
      /\ log'[Len(log) + 1] = e
  BY <1>1
<1>3. DOMAIN log' = DOMAIN log \cup {Len(log) + 1}
  BY <1>1, <1>2
<1> QED
  BY <1>1, <1>2, <1>3 DEF LogTypes, Logged

\* Lemma: the log may grow, and what is kept of rows and consumer stays true.
LEMMA LogGrows ==
    ASSUME Inv, UNCHANGED log \/ \E e \in Events : log' = Append(log, e),
           UNCHANGED <<sent, group, origin, next, committed, docs>>
    PROVE  LogTypes' /\ NothingIsSkipped' /\ WithinLog' /\ Logged \subseteq Logged'
<1>1. LogTypes /\ FlatTypes /\ NothingIsSkipped /\ WithinLog
  BY TypeParts DEF Inv
<1>2. CASE UNCHANGED log
  BY <1>1, <1>2 DEF LogTypes, NothingIsSkipped, WithinLog, Logged, running, Counted
<1>3. ASSUME NEW e \in Events, log' = Append(log, e)
      PROVE  LogTypes' /\ NothingIsSkipped' /\ WithinLog' /\ Logged \subseteq Logged'
  <2>1. /\ LogTypes' /\ Len(log') = Len(log) + 1
        /\ DOMAIN log' = DOMAIN log \cup {Len(log) + 1} /\ Len(log) \in Nat
        /\ \A i \in DOMAIN log : log'[i] = log[i]
        /\ Logged' = Logged \cup {e}
    BY <1>1, <1>3, AppendFacts
  <2>2. WithinLog'
    BY <1>1, <2>1 DEF WithinLog, FlatTypes, running
  <2>3. ASSUME NEW i \in DOMAIN log', origin <= i, i < committed \/ (running /\ i < next)
        PROVE  Counted(KeyOf[log'[i]])
    <3>1. i \in DOMAIN log
      BY <1>1, <2>1, <2>3 DEF WithinLog, FlatTypes
    <3> QED
      BY <1>1, <2>1, <2>3, <3>1 DEF NothingIsSkipped
  <2> QED
    BY <1>1, <2>1, <2>2, <2>3 DEF NothingIsSkipped, running, Counted
<1> QED
  BY <1>2, <1>3

\* Lemma: what the polls know stays true while rows are added and messages appended.
LEMMA PollsKept ==
    ASSUME Inv, Logged \subseteq Logged', produced' \subseteq produced,
           \A p \in produced' : batch'[p] = batch[p],
           \A i \in DOMAIN table : table'[i] = table[i]
    PROVE  ProducedIsLogged'
<1> SUFFICES ASSUME NEW p \in produced', NEW i \in First(p)' PROVE table'[i] \in Logged'
  BY DEF ProducedIsLogged
<1>1. p \in produced /\ i \in First(p)
  BY DEF First
<1>2. i \in DOMAIN table
  BY <1>1, TypeParts DEF Inv, First, TableTypes, FlatTypes
<1> QED
  BY <1>1, <1>2 DEF Inv, ProducedIsLogged

-------------------------------------------------------------------------------
\* Lemma: the steps of a publication that do not store it.
LEMMA PublishStep ==
    ASSUME Inv, NEW e \in Events,
           \/ Commit(e) \/ Send(e) \/ SendFails(e) \/ Buffer(e)
           \/ BufferOverflows(e) \/ BufferRefuses(e) \/ Deliver(e) \/ Drop(e) \/ StoreFails(e)
    PROVE  Inv'
<1>1. FlatTypes /\ TableTypes /\ LogTypes
  BY TypeParts DEF Inv
<1>2. /\ UNCHANGED <<broker, producer, table, sent, polling, consumer, docs>>
      /\ UNCHANGED log \/ log' = Append(log, e)
  BY DEF Commit, Send, SendFails, Buffer, BufferOverflows, BufferRefuses, Deliver, Drop, StoreFails
<1>3. publish' \in [Events -> Stages] /\ faults' \in 0..MaxFaults
  <2>1. (\E stage \in Stages : Move(e, stage)) /\ (Fault \/ NoFault)
    BY DEF Commit, Send, SendFails, Buffer, BufferOverflows, BufferRefuses, Deliver, Drop,
           StoreFails, Stages
  <2> QED
    BY <1>1, <2>1, PollsAssumption DEF Move, Fault, NoFault, FlatTypes
<1>4. LogTypes' /\ NothingIsSkipped' /\ WithinLog' /\ Logged \subseteq Logged'
  BY <1>2, LogGrows DEF consumer
<1>5. FlatTypes' /\ TableTypes'
  BY <1>1, <1>2, <1>3 DEF FlatTypes, TableTypes, polling, consumer
<1>6. ProducedIsLogged'
  BY <1>2, <1>4, PollsKept DEF polling
<1> QED
  BY <1>4, <1>5, <1>6, TypeParts DEF Inv

\* Lemma: a stored event is one more row.
LEMMA StoreStep ==
    ASSUME Inv, NEW e \in Events, Store(e)
    PROVE  Inv'
<1>1. FlatTypes /\ TableTypes /\ LogTypes
  BY TypeParts DEF Inv
<1>2. /\ UNCHANGED <<broker, producer, sent, polling, log, consumer, docs, faults>>
      /\ table' = Append(table, e)
  BY DEF Store, NoFault
<1>3. publish' \in [Events -> Stages]
  BY <1>1 DEF Store, Move, Stages, FlatTypes
<1>4. /\ table' \in Seq(Events) /\ DOMAIN table \subseteq DOMAIN table'
      /\ \A i \in DOMAIN table : table'[i] = table[i]
  <2>1. table \in Seq(Events)
    BY <1>1 DEF TableTypes
  <2> QED
    BY <1>2, <2>1
<1>5. LogTypes' /\ NothingIsSkipped' /\ WithinLog' /\ Logged \subseteq Logged'
  BY <1>2, LogGrows DEF consumer
<1>6. FlatTypes'
  BY <1>1, <1>2, <1>3 DEF FlatTypes, polling, consumer
<1>7. TableTypes'
  BY <1>1, <1>2, <1>4 DEF TableTypes, polling
<1>8. ProducedIsLogged'
  BY <1>2, <1>4, <1>5, PollsKept DEF polling
<1> QED
  BY <1>5, <1>6, <1>7, <1>8, TypeParts DEF Inv

\* Lemma: the steps of a poll.
LEMMA PollStep ==
    ASSUME Inv, NEW p \in Polls, Poll(p) \/ Produce(p) \/ ProduceFails(p) \/ Mark(p) \/ MarkFails(p)
    PROVE  Inv'
<1>1. FlatTypes /\ TableTypes /\ LogTypes /\ ProducedIsLogged /\ NothingIsSkipped /\ WithinLog
  BY TypeParts DEF Inv
<1>2. UNCHANGED <<broker, services, table, consumer, docs>> /\ faults' \in 0..MaxFaults
  BY <1>1, PollsAssumption
  DEF Poll, Produce, ProduceFails, Mark, MarkFails, Fault, NoFault, FlatTypes
<1>3. \A i \in First(p) : i \in DOMAIN table /\ table[i] \in Events
  BY <1>1 DEF First, TableTypes
<1>4. \A q \in Polls \ {p} : batch'[q] = batch[q] /\ (q \in produced' <=> q \in produced)
  BY <1>1 DEF Poll, Produce, ProduceFails, Mark, MarkFails, TableTypes
<1>5. /\ batch' \in [Polls -> SUBSET DOMAIN table] /\ produced' \in SUBSET Polls
      /\ p \in produced' => batch'[p] # {}
  BY <1>1 DEF Poll, Produce, ProduceFails, Mark, MarkFails, TableTypes, FlatTypes, Unsent, First
<1>6. TableTypes'
  BY <1>1, <1>2, <1>4, <1>5 DEF TableTypes, FlatTypes
<1>7. CASE UNCHANGED sent
  <2>1. UNCHANGED log \/ \E e \in Events : log' = Append(log, e)
    BY <1>3 DEF Poll, Produce, ProduceFails, Mark, MarkFails
  <2>2. LogTypes' /\ NothingIsSkipped' /\ WithinLog' /\ Logged \subseteq Logged'
    BY <1>2, <1>7, <2>1, LogGrows DEF consumer
  <2>3. FlatTypes'
    BY <1>1, <1>2, <1>5, <1>7 DEF FlatTypes, services, consumer
  <2>4. ProducedIsLogged'
    <3> SUFFICES ASSUME NEW q \in produced', NEW i \in First(q)' PROVE table'[i] \in Logged'
      BY DEF ProducedIsLogged
    <3>1. q \in Polls
      BY <1>5
    <3>2. CASE q \in produced /\ batch'[q] = batch[q]
      BY <1>1, <1>2, <2>2, <3>2 DEF ProducedIsLogged, First
    <3>3. CASE q = p /\ Produce(p)
      <4>1. batch' = batch /\ \E j \in First(p) : log' = Append(log, table[j])
        BY <3>3 DEF Produce
      <4>2. i \in First(p) /\ \A j \in First(p) : j = i
        BY <1>1, <3>3, <4>1 DEF First, TableTypes
      <4>3. log' = Append(log, table[i])
        BY <4>1, <4>2
      <4> QED
        BY <1>1, <1>2, <1>3, <4>2, <4>3, AppendFacts
    <3>4. CASE q = p /\ ~Produce(p)
      <4>1. p \in produced' => FALSE
        BY <1>1, <3>4 DEF Poll, ProduceFails, Mark, MarkFails, TableTypes
      <4> QED
        BY <3>4, <4>1
    <3>5. CASE q # p
      BY <1>4, <3>1, <3>2, <3>5
    <3> QED
      BY <3>3, <3>4, <3>5
  <2> QED
    BY <1>6, <2>2, <2>3, <2>4, TypeParts DEF Inv
<1>8. CASE sent' # sent
  <2>1. Mark(p)
    BY <1>8 DEF Poll, Produce, ProduceFails, MarkFails
  <2>2. UNCHANGED <<log, faults>> /\ produced' \subseteq produced /\ p \notin produced'
    BY <2>1 DEF Mark, NoFault
  <2>3. sent' \subseteq Logged' /\ sent' \in SUBSET Events
    <3>1. PICK i \in First(p) : sent' = sent \cup {table[i]}
      BY <2>1 DEF Mark
    <3>2. table[i] \in Logged /\ table[i] \in Events
      BY <1>1, <1>3, <2>1, <3>1 DEF Mark, ProducedIsLogged
    <3> QED
      BY <1>1, <2>2, <3>1, <3>2 DEF NothingIsSkipped, Logged, FlatTypes
  <2>4. FlatTypes' /\ LogTypes' /\ WithinLog'
    BY <1>1, <1>2, <1>5, <2>2, <2>3 DEF FlatTypes, LogTypes, WithinLog, services, consumer, running
  <2>5. NothingIsSkipped'
    BY <1>1, <1>2, <2>2, <2>3 DEF NothingIsSkipped, consumer, running, Counted
  <2>6. Logged \subseteq Logged' /\ \A q \in produced' : batch'[q] = batch[q]
    BY <1>1, <1>4, <2>2 DEF Logged, FlatTypes
  <2>7. ProducedIsLogged'
    BY <1>2, <2>2, <2>6, PollsKept
  <2> QED
    BY <1>6, <2>4, <2>5, <2>7, TypeParts DEF Inv
<1> QED
  BY <1>7, <1>8

\* Lemma: connections, crashes of services, and the broker.
LEMMA ServiceStep ==
    ASSUME Inv,
           \/ \E s \in Node : Connect(s)
           \/ \E s \in Node \cup Buffering : Crash(s)
           \/ BrokerDown \/ BrokerUp
    PROVE  Inv'
<1>1. FlatTypes /\ TableTypes /\ LogTypes
  BY TypeParts DEF Inv
<1>2. UNCHANGED <<table, sent, log, consumer, docs>>
  BY DEF Connect, Crash, BrokerDown, BrokerUp
<1>3. broker' \in BOOLEAN /\ faults' \in 0..MaxFaults
  <2>1. broker' \in BOOLEAN
    BY <1>1 DEF Connect, Crash, BrokerDown, BrokerUp, FlatTypes
  <2>2. faults' = faults \/ (faults < MaxFaults /\ faults' = faults + 1)
    BY DEF Connect, Crash, BrokerDown, BrokerUp, Fault, NoFault
  <2>3. faults \in 0..MaxFaults
    BY <1>1 DEF FlatTypes
  <2> QED
    BY <2>1, <2>2, <2>3, PollsAssumption
<1>4. /\ producer' \in [Node -> {"starting", "connected", "offline"}]
      /\ publish' \in [Events -> Stages]
  BY <1>1 DEF Connect, Crash, BrokerDown, BrokerUp, FlatTypes, Stages, services
<1>5. /\ batch' \in [Polls -> SUBSET DOMAIN table] /\ produced' \subseteq produced
      /\ \A p \in produced' : batch'[p] = batch[p]
  BY <1>1 DEF Connect, Crash, BrokerDown, BrokerUp, FlatTypes, TableTypes, polling
<1>6. FlatTypes'
  BY <1>1, <1>2, <1>3, <1>4, <1>5 DEF FlatTypes, consumer
<1>7. TableTypes'
  BY <1>1, <1>2, <1>5 DEF TableTypes
<1>8. LogTypes' /\ NothingIsSkipped' /\ WithinLog' /\ Logged \subseteq Logged'
  BY <1>2, LogGrows DEF consumer
<1>9. ProducedIsLogged'
  BY <1>2, <1>5, <1>8, PollsKept
<1> QED
  BY <1>6, <1>7, <1>8, <1>9, TypeParts DEF Inv

\* Lemma: an insert leaves a document with the key of its event, and every other one.
LEMMA InsertFacts ==
    ASSUME docs \in [Events -> Nat], NEW e \in Events,
           docs' \in {docs, [docs EXCEPT ![e] = InsertedOnce(e)]}
    PROVE  /\ docs' \in [Events -> Nat]
           /\ \A f \in Events : docs[f] > 0 => docs'[f] > 0
           /\ \A k : Counted(k) => Counted(k)'
           /\ docs' = [docs EXCEPT ![e] = InsertedOnce(e)] => Counted(KeyOf[e])'
<1>1. InsertedOnce(e) \in {docs[e], docs[e] + 1} /\ (~Counted(KeyOf[e]) => InsertedOnce(e) > 0)
  BY DEF InsertedOnce
<1>2. docs' \in [Events -> Nat] /\ \A f \in Events : docs[f] > 0 => docs'[f] > 0
  BY <1>1
<1>3. \A k : Counted(k) => Counted(k)'
  BY <1>2 DEF Counted
<1>4. docs' = [docs EXCEPT ![e] = InsertedOnce(e)] /\ ~Counted(KeyOf[e]) => docs'[e] > 0
  BY <1>1
<1> QED
  BY <1>2, <1>3, <1>4 DEF Counted

\* Lemma: the steps of the consumer.
LEMMA ConsumerStep ==
    ASSUME Inv, \/ StartConsumer \/ Join \/ Ingest \/ IngestFails \/ CommitOffset
                \/ ConsumerLeaves \/ ConsumerCrash
    PROVE  Inv'
<1>1. FlatTypes /\ TableTypes /\ LogTypes /\ NothingIsSkipped /\ WithinLog
  BY TypeParts DEF Inv
<1>2. UNCHANGED <<broker, services, table, sent, polling, log>> /\ faults' \in 0..MaxFaults
  BY <1>1, PollsAssumption
  DEF StartConsumer, Join, Ingest, IngestFails, CommitOffset, ConsumerLeaves, ConsumerCrash,
      Fault, NoFault, FlatTypes
<1>3. /\ Len(log) \in Nat /\ DOMAIN log = 1..Len(log)
      /\ \A i \in 1..Len(log) : log[i] \in Events
  BY <1>1 DEF LogTypes
<1>4. /\ docs' \in [Events -> Nat] /\ \A k : Counted(k) => Counted(k)'
      /\ \A e : Ingest /\ e = log[next] => Counted(KeyOf[e])'
  <2>1. CASE UNCHANGED docs /\ ~Ingest
    BY <1>1, <2>1 DEF FlatTypes, Counted
  <2>2. CASE Ingest \/ IngestFails
    <3>1. log[next] \in Events
      BY <1>1, <1>3, <2>2 DEF FlatTypes, Ingest, IngestFails
    <3>2. docs' \in {docs, [docs EXCEPT ![log[next]] = InsertedOnce(log[next])]}
      BY <2>2 DEF Ingest, IngestFails
    <3>3. Ingest => docs' = [docs EXCEPT ![log[next]] = InsertedOnce(log[next])]
      BY DEF Ingest
    <3> QED
      BY <1>1, <3>1, <3>2, <3>3, InsertFacts DEF FlatTypes
  <2> QED
    BY <2>1, <2>2 DEF StartConsumer, Join, CommitOffset, ConsumerLeaves, ConsumerCrash
<1>5. /\ group' \in {"starting", "joining", "running", "off"}
      /\ origin' \in Nat \ {0} /\ next' \in Nat \ {0} /\ committed' \in Nat
  <2>1. group' \in {"starting", "joining", "running", "off"}
    BY <1>1 DEF StartConsumer, Join, Ingest, IngestFails, CommitOffset, ConsumerLeaves,
                ConsumerCrash, FlatTypes, consumer
  <2>2. /\ origin' \in {origin, Len(log) + 1}
        /\ next' \in {next, next + 1, committed, Len(log) + 1}
        /\ next' = committed => committed # 0 \/ next' = next \/ next' = next + 1
        /\ committed' \in {committed, next}
    BY DEF StartConsumer, Join, Ingest, IngestFails, CommitOffset, ConsumerLeaves, ConsumerCrash,
           consumer
  <2>3. origin \in Nat \ {0} /\ next \in Nat \ {0} /\ committed \in Nat
    BY <1>1 DEF FlatTypes
  <2> QED
    BY <1>3, <2>1, <2>2, <2>3
<1>6. FlatTypes' /\ TableTypes' /\ LogTypes'
  BY <1>1, <1>2, <1>4, <1>5 DEF FlatTypes, TableTypes, LogTypes, services, polling
<1>7. WithinLog'
  BY <1>1, <1>2, <1>3
  DEF StartConsumer, Join, Ingest, IngestFails, CommitOffset, ConsumerLeaves, ConsumerCrash,
      WithinLog, FlatTypes, consumer, running
<1>8. NothingIsSkipped'
  <2>1. sent' \subseteq Logged'
    BY <1>1, <1>2 DEF NothingIsSkipped, Logged
  <2>2. ASSUME NEW i \in DOMAIN log, origin' <= i, i < committed' \/ (running' /\ i < next')
        PROVE  \A e : e = log[i] => Counted(KeyOf[e])'
    <3>1. log[i] \in Events /\ i \in Nat /\ i <= Len(log)
      BY <1>3
    <3>2. \/ origin <= i /\ (i < committed \/ (running /\ i < next))
          \/ Ingest /\ i = next
      BY <1>1, <1>3, <2>2, <3>1
      DEF StartConsumer, Join, Ingest, IngestFails, CommitOffset, ConsumerLeaves, ConsumerCrash,
          FlatTypes, consumer, running
    <3> QED
      BY <1>1, <1>4, <3>1, <3>2 DEF NothingIsSkipped
  <2> QED
    BY <1>2, <2>1, <2>2 DEF NothingIsSkipped, Counted
<1>9. ProducedIsLogged'
  BY <1>2, PollsKept DEF polling, Logged
<1> QED
  BY <1>6, <1>7, <1>8, <1>9, TypeParts DEF Inv

-------------------------------------------------------------------------------
\* Lemma: the invariant holds initially.
LEMMA InitInv == Init => Inv
<1> SUFFICES ASSUME Init PROVE Inv
  OBVIOUS
<1>1. FlatTypes /\ TableTypes /\ LogTypes
  <2>1. broker \in BOOLEAN /\ group \in {"starting", "joining", "running", "off"}
    BY DEF Init
  <2>2. /\ producer \in [Node -> {"starting", "connected", "offline"}]
        /\ publish \in [Events -> Stages] /\ docs \in [Events -> Nat]
        /\ sent \in SUBSET Events /\ produced \in SUBSET Polls
    BY DEF Init, Stages
  <2>3. /\ origin \in Nat \ {0} /\ next \in Nat \ {0} /\ committed \in Nat
        /\ faults \in 0..MaxFaults
    BY PollsAssumption DEF Init
  <2>4. TableTypes /\ LogTypes
    BY DEF Init, TableTypes, LogTypes
  <2> QED
    BY <2>1, <2>2, <2>3, <2>4 DEF FlatTypes
<1>2. NothingIsSkipped /\ ProducedIsLogged /\ WithinLog
  BY DEF Init, NothingIsSkipped, ProducedIsLogged, WithinLog, running
<1> QED
  BY <1>1, <1>2, TypeParts DEF Inv

\* Lemma: every step keeps the invariant.
LEMMA NextInv == Inv /\ [Next]_vars => Inv'
<1> SUFFICES ASSUME Inv, [Next]_vars PROVE Inv'
  OBVIOUS
<1>1. CASE UNCHANGED vars
  <2>1. FlatTypes' /\ TableTypes'
    BY <1>1, TypeParts DEF Inv, vars, FlatTypes, TableTypes, services, polling, consumer
  <2>2. LogTypes' /\ NothingIsSkipped' /\ WithinLog' /\ Logged \subseteq Logged'
    BY <1>1, LogGrows DEF vars, consumer
  <2>3. ProducedIsLogged'
    BY <1>1, <2>2, PollsKept DEF vars, polling
  <2> QED
    BY <2>1, <2>2, <2>3, TypeParts DEF Inv
<1>2. CASE \E e \in Events : \/ Commit(e) \/ Publishing(e)
                             \/ BufferOverflows(e) \/ BufferRefuses(e) \/ Drop(e) \/ StoreFails(e)
  BY <1>2, PublishStep, StoreStep DEF Publishing
<1>3. CASE \E p \in Polls : Polling(p) \/ MarkFails(p)
  BY <1>3, PollStep DEF Polling
<1>4. CASE \/ \E s \in Node : Connect(s)
           \/ \E s \in Node \cup Buffering : Crash(s)
           \/ BrokerDown \/ BrokerUp
  BY <1>4, ServiceStep
<1>5. CASE \/ StartConsumer \/ Join \/ Ingest \/ IngestFails \/ CommitOffset
           \/ ConsumerLeaves \/ ConsumerCrash
  BY <1>5, ConsumerStep
<1> QED
  BY <1>1, <1>2, <1>3, <1>4, <1>5 DEF Next, Terminated

\* The invariant holds in every reachable state.
THEOREM Invariance == Spec => []Inv
BY InitInv, NextInv, PTL DEF Spec

\* Every variable keeps its type.
THEOREM TypeCorrect == Spec => []TypeOK
<1>1. Inv => TypeOK
  BY DEF Inv
<1> QED
  BY <1>1, Invariance, PTL

\* Nothing accepted is skipped: neither by the polls nor by the consumer.
THEOREM NoneSkipped == Spec => []NothingIsSkipped
<1>1. Inv => NothingIsSkipped
  BY DEF Inv
<1> QED
  BY <1>1, Invariance, PTL

-------------------------------------------------------------------------------
Accepted == Logged \cup Stored

\* Lemma: a step accepts one event and counts none, or the other way round.
LEMMA StepAcceptsOrCounts ==
    ASSUME Inv, [Next]_vars
    PROVE  \/ /\ Accepted' = Accepted \/ \E e \in Events : Accepted' = Accepted \cup {e}
              /\ UNCHANGED docs
           \/ /\ UNCHANGED Accepted
              /\ \E e \in Accepted :
                    e \in Events /\ docs' \in {docs, [docs EXCEPT ![e] = InsertedOnce(e)]}
<1>1. FlatTypes /\ TableTypes /\ LogTypes
  BY TypeParts DEF Inv
<1>2. ASSUME NEW e \in Events, log' = Append(log, e), UNCHANGED table
      PROVE  Accepted' = Accepted \cup {e}
  BY <1>1, <1>2, AppendFacts DEF Accepted, Stored
<1>3. ASSUME UNCHANGED <<log, table>> PROVE Accepted' = Accepted
  BY <1>3 DEF Accepted, Logged, Stored
<1>4. CASE UNCHANGED vars
  BY <1>3, <1>4 DEF vars
<1>5. CASE \E e \in Events : \/ Commit(e) \/ Send(e) \/ SendFails(e) \/ Buffer(e)
                             \/ BufferOverflows(e) \/ BufferRefuses(e)
                             \/ Deliver(e) \/ Drop(e) \/ StoreFails(e)
  <2>1. PICK e \in Events : \/ Commit(e) \/ Send(e) \/ SendFails(e) \/ Buffer(e)
                            \/ BufferOverflows(e) \/ BufferRefuses(e) \/ Deliver(e) \/ Drop(e) \/ StoreFails(e)
    BY <1>5
  <2>2. UNCHANGED <<table, docs>> /\ (UNCHANGED log \/ log' = Append(log, e))
    BY <2>1 DEF Commit, Send, SendFails, Buffer, BufferOverflows, BufferRefuses, Deliver, Drop,
                StoreFails
  <2> QED
    BY <1>2, <1>3, <2>2
<1>6. CASE \E e \in Events : Store(e)
  <2>1. PICK e \in Events : Store(e)
    BY <1>6
  <2>2. UNCHANGED <<log, docs>> /\ table' = Append(table, e)
    BY <2>1 DEF Store
  <2>3. Stored' = Stored \cup {e}
    <3>1. table \in Seq(Events) /\ Len(table) \in Nat /\ DOMAIN table = 1..Len(table)
      BY <1>1 DEF TableTypes
    <3>2. /\ DOMAIN table' = DOMAIN table \cup {Len(table) + 1}
          /\ \A i \in DOMAIN table : table'[i] = table[i]
          /\ table'[Len(table) + 1] = e
      BY <2>2, <3>1
    <3> QED
      BY <3>2 DEF Stored
  <2> QED
    BY <2>2, <2>3 DEF Accepted, Logged
<1>7. CASE \E p \in Polls : Polling(p) \/ MarkFails(p)
  <2>1. PICK p \in Polls : Poll(p) \/ Produce(p) \/ ProduceFails(p) \/ Mark(p) \/ MarkFails(p)
    BY <1>7 DEF Polling
  <2>2. \A i \in First(p) : table[i] \in Events
    BY <1>1 DEF First, TableTypes
  <2>3. /\ UNCHANGED <<table, docs>>
        /\ UNCHANGED log \/ \E i \in First(p) : log' = Append(log, table[i])
    BY <2>1 DEF Poll, Produce, ProduceFails, Mark, MarkFails
  <2> QED
    BY <1>2, <1>3, <2>2, <2>3
<1>8. CASE \/ \E s \in Node : Connect(s)
           \/ \E s \in Node \cup Buffering : Crash(s)
           \/ BrokerDown \/ BrokerUp
           \/ StartConsumer \/ Join \/ CommitOffset \/ ConsumerLeaves \/ ConsumerCrash
  <2>1. UNCHANGED <<log, table, docs>>
    BY <1>8 DEF Connect, Crash, BrokerDown, BrokerUp, StartConsumer, Join, CommitOffset,
                ConsumerLeaves, ConsumerCrash
  <2> QED
    BY <1>3, <2>1
<1>9. CASE Ingest \/ IngestFails
  <2>1. /\ UNCHANGED <<log, table>> /\ next <= Len(log)
        /\ docs' \in {docs, [docs EXCEPT ![log[next]] = InsertedOnce(log[next])]}
    BY <1>9 DEF Ingest, IngestFails
  <2>2. next \in DOMAIN log /\ log[next] \in Events
    BY <1>1, <2>1 DEF FlatTypes, LogTypes
  <2>3. log[next] \in Accepted
    BY <2>2 DEF Accepted, Logged
  <2> QED
    BY <1>3, <2>1, <2>2, <2>3
<1> QED
  BY <1>4, <1>5, <1>6, <1>7, <1>8, <1>9 DEF Next, Publishing, Terminated

\* The detailed channel implements its promise.
THEOREM Refinement == Spec => RefinesEventDelivery
<1>1. Init => Delivery!Init
  BY DEF Init, Delivery!Init, Logged, Stored
<1>2. Inv /\ [Next]_vars => [Delivery!Next]_<<Logged \cup Stored, docs>>
  <2> SUFFICES ASSUME Inv, [Next]_vars
               PROVE  Delivery!Next \/ UNCHANGED <<Logged \cup Stored, docs>>
    OBVIOUS
  <2>1. CASE /\ Accepted' = Accepted \/ \E e \in Events : Accepted' = Accepted \cup {e}
             /\ UNCHANGED docs
    BY <2>1 DEF Accepted, Delivery!Next, Delivery!Accept
  <2>2. CASE /\ UNCHANGED Accepted
             /\ \E e \in Accepted : /\ e \in Events
                                    /\ docs' \in {docs, [docs EXCEPT ![e] = InsertedOnce(e)]}
    <3>1. PICK e \in Accepted : /\ e \in Events
                                /\ docs' \in {docs, [docs EXCEPT ![e] = InsertedOnce(e)]}
      BY <2>2
    <3>2. docs \in [Events -> Nat]
      BY TypeParts DEF Inv, FlatTypes
    <3>3. CASE docs' = docs \/ Counted(KeyOf[e])
      <4>1. docs' = docs
        BY <3>1, <3>2, <3>3 DEF InsertedOnce
      <4> QED
        BY <2>2, <4>1 DEF Accepted
    <3>4. CASE docs' = [docs EXCEPT ![e] = InsertedOnce(e)] /\ ~Counted(KeyOf[e])
      <4>1. \A f \in Events : KeyOf[f] = KeyOf[e] => docs[f] = 0
        BY <3>2, <3>4 DEF Counted
      <4>2. e \in Events /\ docs[e] = 0 /\ InsertedOnce(e) = 1
        BY <3>1, <3>4, <4>1 DEF InsertedOnce
      <4>3. docs' = [docs EXCEPT ![e] = 1]
        BY <3>4, <4>2
      <4> QED
        BY <2>2, <3>1, <4>1, <4>3 DEF Accepted, Delivery!Next, Delivery!Count
    <3> QED
      BY <3>1, <3>3, <3>4
  <2> QED
    BY <2>1, <2>2, StepAcceptsOrCounts
<1> QED
  BY <1>1, <1>2, Invariance, PTL DEF Spec, RefinesEventDelivery, Delivery!Spec

-------------------------------------------------------------------------------
(* Where every event is: the safety half of "an event is not lost".        *)

\* A publication that is over left its event with the broker or in the table, one that
\* was lost was lost in a fault (a crash, a dropped buffer, a failed INSERT), and none is
\* with the broker or in the table before its own service has published it: the polls of
\* the other services send only what somebody stored.
EventAccounted ==
    \A e \in Events :
        /\ publish[e] = "done" => e \in Accepted
        /\ publish[e] \in {"none", "committed", "buffered"} => e \notin Accepted
        /\ publish[e] = "storing" => e \notin Stored
        /\ publish[e] = "lost" => faults > 0

\* Whatever duplicates the broker holds, an event has one row at most in the table and, of
\* the events with its key, one document at most in analytics, and a document only if its
\* transaction committed.
CountedOnce ==
    /\ \A i, j \in DOMAIN table : table[i] = table[j] => i = j
    /\ \A e \in Events :
          /\ docs[e] <= 1
          /\ \A f \in Events : KeyOf[f] = KeyOf[e] /\ docs[e] = 1 /\ docs[f] = 1 => f = e
          /\ docs[e] = 1 => e \in Logged /\ publish[e] \notin {"none", "committed", "buffered"}

Where == EventAccounted /\ CountedOnce

\* Lemma: a step that publishes nothing keeps both if it sends only what is stored.
LEMMA WhereKept ==
    ASSUME Where, UNCHANGED <<publish, table, docs>>, faults \in Nat, faults' \in Nat,
           faults <= faults', Logged \subseteq Logged', Logged' \subseteq Accepted
    PROVE  Where'
<1>1. Stored' = Stored /\ Accepted' = Accepted
  BY DEF Stored, Accepted
<1>2. \A e \in Events : publish'[e] = publish[e] /\ docs'[e] = docs[e]
  OBVIOUS
<1>3. EventAccounted'
  BY <1>1, <1>2 DEF Where, EventAccounted
<1>4. CountedOnce'
  BY <1>2 DEF Where, CountedOnce
<1> QED
  BY <1>3, <1>4 DEF Where

\* Lemma: a step of the publication of e.
LEMMA WherePublished ==
    ASSUME Inv, Where, NEW e \in Events,
           \/ Commit(e) \/ Send(e) \/ SendFails(e) \/ Buffer(e)
           \/ BufferOverflows(e) \/ BufferRefuses(e) \/ Deliver(e) \/ Drop(e)
           \/ StoreFails(e) \/ Store(e)
    PROVE  Where'
<1>1. FlatTypes /\ TableTypes /\ LogTypes
  BY TypeParts DEF Inv
<1>2. UNCHANGED docs /\ \A u \in Events \ {e} : publish'[u] = publish[u]
  BY <1>1
  DEF Commit, Send, SendFails, Buffer, BufferOverflows, BufferRefuses, Deliver, Drop, StoreFails,
      Store, Move, FlatTypes
<1>3. faults \in Nat /\ (faults' = faults \/ faults' = faults + 1)
  BY <1>1, PollsAssumption
  DEF Commit, Send, SendFails, Buffer, BufferOverflows, BufferRefuses, Deliver, Drop, StoreFails,
      Store, Fault, NoFault, FlatTypes
<1>4. log' = Append(log, e) => Logged' = Logged \cup {e}
  BY <1>1, AppendFacts
<1>5. /\ log' = log => Logged' = Logged
      /\ table' = table => Stored' = Stored
  BY DEF Logged, Stored
<1>6. table' = Append(table, e) =>
         /\ Stored' = Stored \cup {e}
         /\ e \notin Stored /\ (\A i, j \in DOMAIN table : table[i] = table[j] => i = j)
               => \A i, j \in DOMAIN table' : table'[i] = table'[j] => i = j
  <2> SUFFICES ASSUME table' = Append(table, e)
               PROVE  /\ Stored' = Stored \cup {e}
                      /\ e \notin Stored /\ (\A i, j \in DOMAIN table : table[i] = table[j] => i = j)
                            => \A i, j \in DOMAIN table' : table'[i] = table'[j] => i = j
    OBVIOUS
  <2>1. table \in Seq(Events) /\ Len(table) \in Nat /\ DOMAIN table = 1..Len(table)
    BY <1>1 DEF TableTypes
  <2>2. /\ DOMAIN table' = DOMAIN table \cup {Len(table) + 1}
        /\ \A i \in DOMAIN table : table'[i] = table[i]
        /\ table'[Len(table) + 1] = e
    BY <2>1
  <2>3. Stored' = Stored \cup {e}
    BY <2>2 DEF Stored
  <2>4. e \notin Stored => \A i \in DOMAIN table : table[i] # e
    BY DEF Stored
  <2> QED
    BY <2>2, <2>3, <2>4
<1>7. CASE Store(e)
  <2>1. publish[e] = "storing" /\ publish'[e] = "done" /\ table' = Append(table, e) /\ log' = log
    BY <1>1, <1>7 DEF Store, Move, FlatTypes
  <2>2. e \notin Stored
    BY <2>1 DEF Where, EventAccounted
  <2>3. EventAccounted'
    BY <1>2, <1>3, <1>5, <1>6, <2>1, <2>2 DEF Where, EventAccounted, Accepted
  <2>4. CountedOnce'
    BY <1>2, <1>5, <1>6, <2>1, <2>2 DEF Where, CountedOnce
  <2> QED
    BY <2>3, <2>4 DEF Where
<1>8. CASE ~Store(e)
  <2>1. /\ table' = table
        /\ \/ /\ publish[e] \in {"none", "committed"} /\ log' = log
              /\ publish'[e] \in {"committed", "buffered", "storing"}
           \/ /\ publish[e] = "committed" /\ publish'[e] \in {"done", "storing"}
              /\ log' = Append(log, e)
           \/ publish[e] = "buffered" /\ publish'[e] = "done" /\ log' = Append(log, e)
           \/ /\ publish[e] \in {"committed", "buffered", "storing"} /\ publish'[e] = "lost"
              /\ log' = log /\ Fault
    BY <1>1, <1>8
    DEF Commit, Send, SendFails, Buffer, BufferOverflows, BufferRefuses, Deliver, Drop, StoreFails,
        Move, FlatTypes
  <2>2. Fault => faults' > 0
    BY <1>3 DEF Fault
  <2>3. EventAccounted'
    BY <1>2, <1>3, <1>4, <1>5, <2>1, <2>2 DEF Where, EventAccounted, Accepted
  <2>4. CountedOnce'
    BY <1>2, <1>4, <1>5, <2>1 DEF Where, CountedOnce
  <2> QED
    BY <2>3, <2>4 DEF Where
<1> QED
  BY <1>7, <1>8

\* Lemma: every step keeps both.
LEMMA WhereStep == Inv /\ Where /\ [Next]_vars => Where'
<1> SUFFICES ASSUME Inv, Where, [Next]_vars PROVE Where'
  OBVIOUS
<1>1. /\ FlatTypes /\ TableTypes /\ LogTypes /\ faults \in Nat
      /\ Logged \subseteq Accepted /\ Stored \subseteq Accepted
  BY TypeParts, PollsAssumption DEF Inv, FlatTypes, Accepted
<1>2. ASSUME UNCHANGED <<publish, table, docs, log>>, UNCHANGED faults \/ Fault PROVE Where'
  <2>1. faults' \in Nat /\ faults <= faults' /\ Logged' = Logged
    BY <1>1, <1>2 DEF Fault, Logged
  <2> QED
    BY <1>1, <1>2, <2>1, WhereKept
<1>3. CASE UNCHANGED vars
  BY <1>2, <1>3 DEF vars, services
<1>4. CASE \E e \in Events : \/ Commit(e) \/ Publishing(e)
                             \/ BufferOverflows(e) \/ BufferRefuses(e) \/ Drop(e) \/ StoreFails(e)
  BY <1>4, WherePublished DEF Publishing
<1>5. CASE \/ \E s \in Node : Connect(s)
           \/ BrokerDown \/ BrokerUp
           \/ StartConsumer \/ Join \/ CommitOffset \/ ConsumerLeaves \/ ConsumerCrash
  BY <1>2, <1>5
  DEF Connect, BrokerDown, BrokerUp, StartConsumer, Join, CommitOffset, ConsumerLeaves,
      ConsumerCrash, services, NoFault
<1>6. CASE \E p \in Polls : Polling(p) \/ MarkFails(p)
  <2>1. PICK p \in Polls : Poll(p) \/ Produce(p) \/ ProduceFails(p) \/ Mark(p) \/ MarkFails(p)
    BY <1>6 DEF Polling
  <2>2. \A i \in First(p) : table[i] \in Events /\ table[i] \in Stored
    BY <1>1 DEF First, TableTypes, Stored
  <2>3. /\ UNCHANGED <<publish, table, docs>> /\ (UNCHANGED faults \/ Fault)
        /\ UNCHANGED log \/ \E i \in First(p) : log' = Append(log, table[i])
    BY <2>1 DEF Poll, Produce, ProduceFails, Mark, MarkFails, services, NoFault
  <2>4. CASE UNCHANGED log
    BY <1>2, <2>3, <2>4
  <2>5. CASE \E i \in First(p) : log' = Append(log, table[i])
    <3>1. PICK i \in First(p) : log' = Append(log, table[i])
      BY <2>5
    <3>2. Logged' = Logged \cup {table[i]}
      BY <1>1, <2>2, <3>1, AppendFacts
    <3>3. faults' \in Nat /\ faults <= faults'
      BY <1>1, <2>3 DEF Fault
    <3> QED
      BY <1>1, <2>2, <2>3, <3>2, <3>3, WhereKept
  <2> QED
    BY <2>3, <2>4, <2>5
<1>7. CASE \E s \in Node \cup Buffering : Crash(s)
  <2>1. UNCHANGED <<table, log, docs>> /\ Fault
    BY <1>7 DEF Crash
  <2>2. \A e \in Events : \/ publish'[e] = publish[e]
                          \/ /\ publish'[e] = "lost"
                             /\ publish[e] \in {"committed", "storing", "buffered"}
    BY <1>7 DEF Crash
  <2>3. Logged' = Logged /\ Stored' = Stored /\ Accepted' = Accepted /\ faults' > 0
    BY <1>1, <2>1 DEF Logged, Stored, Accepted, Fault
  <2>4. EventAccounted'
    BY <2>2, <2>3 DEF Where, EventAccounted
  <2>5. CountedOnce'
    <3>1. \A e \in Events : docs[e] = 1 => publish'[e] \notin {"none", "committed", "buffered"}
      BY <2>2 DEF Where, CountedOnce
    <3> QED
      BY <2>1, <2>3, <3>1 DEF Where, CountedOnce
  <2> QED
    BY <2>4, <2>5 DEF Where
<1>8. CASE Ingest \/ IngestFails
  <2>1. /\ UNCHANGED <<publish, table, log>> /\ next <= Len(log) /\ (UNCHANGED faults \/ Fault)
        /\ docs' \in {docs, [docs EXCEPT ![log[next]] = InsertedOnce(log[next])]}
    BY <1>8 DEF Ingest, IngestFails, services, NoFault
  <2>2. next \in DOMAIN log
    BY <1>1, <2>1 DEF FlatTypes, LogTypes
  <2>3. log[next] \in Events /\ log[next] \in Logged
    BY <1>1, <2>2 DEF LogTypes, Logged
  <2>4. Logged' = Logged /\ Stored' = Stored /\ Accepted' = Accepted
    BY <2>1 DEF Logged, Stored, Accepted
  <2>5. EventAccounted'
    <3>1. faults > 0 => faults' > 0
      BY <1>1, <2>1 DEF Fault
    <3> QED
      BY <2>1, <2>4, <3>1 DEF Where, EventAccounted
  <2>6. CountedOnce'
    <3>1. publish[log[next]] \notin {"none", "committed", "buffered"}
      BY <1>1, <2>3 DEF Where, EventAccounted
    <3>2. \A e \in Events : docs[e] \in Nat /\ docs[e] <= 1
      BY <1>1 DEF Where, CountedOnce, FlatTypes
    <3>3. \A e \in Events :
             \/ docs'[e] = docs[e]
             \/ /\ e = log[next] /\ docs'[e] = 1
                /\ \A f \in Events : KeyOf[f] = KeyOf[e] => docs[f] = 0
      BY <1>1, <2>1, <2>3, <3>2 DEF InsertedOnce, Counted, FlatTypes
    <3> QED
      BY <2>1, <2>3, <2>4, <3>1, <3>2, <3>3 DEF Where, CountedOnce
  <2> QED
    BY <2>5, <2>6 DEF Where
<1> QED
  BY <1>3, <1>4, <1>5, <1>6, <1>7, <1>8 DEF Next, Terminated

\* Lemma: both hold in every reachable state.
LEMMA WhereAlways == Spec => []Where
<1>1. Init => Where
  BY DEF Init, Where, EventAccounted, CountedOnce, Accepted, Logged, Stored
<1> QED
  BY <1>1, Invariance, WhereStep, PTL DEF Spec

\* No event disappears between its transaction and the broker or the table without a
\* fault.
THEOREM Accounted == Spec => []EventAccounted
BY WhereAlways, PTL DEF Where

\* One row, one document, and none of an event nobody published.
THEOREM OneDocument == Spec => []CountedOnce
BY WhereAlways, PTL DEF Where
===============================================================================
