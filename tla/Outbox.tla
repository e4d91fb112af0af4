-------------------------------- MODULE Outbox --------------------------------
(***************************************************************************)
(* The way of an event from the commit that causes it to the analytics     *)
(* collection: publishOrOutbox and the outbox pollers of the Node services *)
(* (shared/src/outbox.js, kafka.js), the buffering producer of the Python  *)
(* services, one table outbox_events, one Kafka partition, and the         *)
(* deduplicating consumer of the Analytics service.                        *)
(*                                                                         *)
(* A service that crashes restarts at once.  Envelopes are the events      *)
(* themselves, each with its idempotency_key.  The Node services draw a    *)
(* random key (but for job.saved); the Python services hash type, actor    *)
(* and entity, which two events may have in common: two messages of one    *)
(* sender in one thread do.  Whatever goes wrong without the broker being  *)
(* down (a crash, an answer or a statement lost, an outage beginning) is a *)
(* fault, and MaxFaults bounds their number.                               *)
(***************************************************************************)
EXTENDS Naturals, Sequences, FiniteSets

CONSTANTS
    Events,
    KeyOf,       \* KeyOf[e]: its idempotency_key
    Node,        \* services that publish through outbox.js
    Buffering,   \* services that publish through librdkafka (Messaging, Connection)
    Falling,     \* those that fall back to the table (Messaging)
    HomeOf,      \* HomeOf[e]: the service that publishes e
    Polls,       \* runs of flushOutbox that may be under way together
    PollOf,      \* PollOf[p]: the service whose timer starts p
    BatchSize,   \* LIMIT of flushOutbox
    MaxFaults    \* bound on the faults of a behaviour

ASSUME ServicesAssumption ==
    /\ Node \cap Buffering = {} /\ Falling \subseteq Buffering
    /\ HomeOf \in [Events -> Node \cup Buffering]
ASSUME PollsAssumption ==
    /\ IsFiniteSet(Polls) /\ PollOf \in [Polls -> Node]
    /\ BatchSize \in Nat \ {0} /\ MaxFaults \in Nat

VARIABLES
    broker,      \* the Kafka broker answers
    producer,    \* producer[s]: the flag "connected" of the Node service s
    publish,     \* publish[e]: how far the publication of e is
    table,       \* the rows of outbox_events in the order of their creation
    sent,        \* the rows with sent = TRUE
    batch,       \* batch[p]: ids of the rows poll p has read and not finished
    produced,    \* polls that have produced the first row of their batch
    log,         \* the partition
    group,       \* the consumer: "starting", "joining" its group, "running" in it, or "off"
    origin,      \* position the group began at while it had no committed offset
    next,        \* position of the next message the consumer takes
    committed,   \* committed offset of the group, 0 while there is none
    docs,        \* docs[e]: documents of e in the events collection
    faults       \* faults so far

vars == <<broker, producer, publish, table, sent, batch, produced, log,
          group, origin, next, committed, docs, faults>>
services == <<producer, publish>>
polling  == <<batch, produced>>
consumer == <<group, origin, next, committed>>

\* "committed": the handler's transaction is committed and publishOrOutbox not yet called.
Stages == {"none", "committed", "storing", "buffered", "done", "lost"}

running == group = "running"

Stored == {table[i] : i \in DOMAIN table}
Logged == {log[i] : i \in DOMAIN log}

TypeOK ==
    /\ broker \in BOOLEAN
    /\ producer \in [Node -> {"starting", "connected", "offline"}]
    /\ publish \in [Events -> Stages]
    /\ table \in Seq(Events)
    /\ sent \in SUBSET Events
    /\ batch \in [Polls -> SUBSET DOMAIN table]
    /\ produced \in SUBSET Polls
    /\ \A p \in produced : batch[p] # {}
    /\ log \in Seq(Events)
    /\ group \in {"starting", "joining", "running", "off"}
    /\ origin \in Nat \ {0} /\ next \in Nat \ {0} /\ committed \in Nat
    /\ docs \in [Events -> Nat]
    /\ faults \in 0..MaxFaults

\* The broker and the services start in any order; the group may have consumed before.
Init ==
    /\ broker \in BOOLEAN
    /\ producer = [s \in Node |-> "starting"]
    /\ publish = [e \in Events |-> "none"]
    /\ table = <<>> /\ sent = {}
    /\ batch = [p \in Polls |-> {}] /\ produced = {}
    /\ log = <<>>
    /\ group = "starting" /\ origin = 1 /\ next = 1
    /\ committed \in {0, 1}
    /\ docs = [e \in Events |-> 0]
    /\ faults = 0

Fault   == faults < MaxFaults /\ faults' = faults + 1
NoFault == UNCHANGED faults

Move(e, stage) == publish' = [publish EXCEPT ![e] = stage]

-------------------------------------------------------------------------------
(* Services.                                                               *)

\* connectProducer runs once, at the start; when it fails nothing calls it again, and the
\* service has no poller either.
Connect(s) ==
    /\ producer[s] = "starting"
    /\ producer' = [producer EXCEPT ![s] = IF broker THEN "connected" ELSE "offline"]
    /\ NoFault
    /\ UNCHANGED <<broker, publish, table, sent, polling, log, consumer, docs>>

\* The handler's transaction commits.
Commit(e) ==
    /\ publish[e] = "none"
    /\ Move(e, "committed")
    /\ NoFault
    /\ UNCHANGED <<broker, producer, table, sent, polling, log, consumer, docs>>

\* publishOrOutbox: the send is acknowledged.
Send(e) ==
    /\ publish[e] = "committed"
    /\ HomeOf[e] \in Node /\ producer[HomeOf[e]] = "connected" /\ broker
    /\ log' = Append(log, e)
    /\ Move(e, "done")
    /\ NoFault
    /\ UNCHANGED <<broker, producer, table, sent, polling, consumer, docs>>

\* The send raises: no connection, no broker, or no answer, and then the broker may have
\* the message.
SendFails(e) ==
    /\ publish[e] = "committed"
    /\ HomeOf[e] \in Node
    /\ IF producer[HomeOf[e]] = "connected" /\ broker
       THEN Fault /\ log' \in {log, Append(log, e)}
       ELSE NoFault /\ UNCHANGED log
    /\ Move(e, "storing")
    /\ UNCHANGED <<broker, producer, table, sent, polling, consumer, docs>>

\* produce of the Python services answers True although the message may still be in the
\* buffer when flush returns.
Buffer(e) ==
    /\ publish[e] = "committed"
    /\ HomeOf[e] \in Buffering
    /\ Move(e, "buffered")
    /\ NoFault
    /\ UNCHANGED <<broker, producer, table, sent, polling, log, consumer, docs>>

\* The local queue is full: BufferError is none of the exceptions that produce catches, so
\* the request fails with the transaction committed and the event gone.
BufferOverflows(e) ==
    /\ publish[e] = "committed"
    /\ HomeOf[e] \in Buffering
    /\ Move(e, "lost")
    /\ Fault
    /\ UNCHANGED <<broker, producer, table, sent, polling, log, consumer, docs>>

\* produce answers False: there is no producer, or its three attempts raise
\* KafkaException.  Messaging falls back to the table; Connection ignores the answer.
BufferRefuses(e) ==
    /\ publish[e] = "committed"
    /\ HomeOf[e] \in Buffering
    /\ Move(e, IF HomeOf[e] \in Falling THEN "storing" ELSE "lost")
    /\ Fault
    /\ UNCHANGED <<broker, producer, table, sent, polling, log, consumer, docs>>

\* The library sends what it buffered ...
Deliver(e) ==
    /\ publish[e] = "buffered" /\ broker
    /\ log' = Append(log, e)
    /\ Move(e, "done")
    /\ NoFault
    /\ UNCHANGED <<broker, producer, table, sent, polling, consumer, docs>>

\* ... or drops it after message.timeout.ms.
Drop(e) ==
    /\ publish[e] = "buffered"
    /\ Move(e, "lost")
    /\ Fault
    /\ UNCHANGED <<broker, producer, table, sent, polling, log, consumer, docs>>

\* INSERT INTO outbox_events, on its own and after the handler's commit.
Store(e) ==
    /\ publish[e] = "storing"
    /\ table' = Append(table, e)
    /\ Move(e, "done")
    /\ NoFault
    /\ UNCHANGED <<broker, producer, sent, polling, log, consumer, docs>>

\* It fails: the Node services swallow the error, Messaging answers 500.
StoreFails(e) ==
    /\ publish[e] = "storing"
    /\ Move(e, "lost")
    /\ Fault
    /\ UNCHANGED <<broker, producer, table, sent, polling, log, consumer, docs>>

\* What the process of s has in memory is gone.
Crash(s) ==
    /\ producer' = [t \in Node |-> IF t = s THEN "starting" ELSE producer[t]]
    /\ publish' = [e \in Events |->
                     IF HomeOf[e] = s /\ publish[e] \in {"committed", "storing", "buffered"}
                     THEN "lost" ELSE publish[e]]
    /\ batch' = [p \in Polls |-> IF PollOf[p] = s THEN {} ELSE batch[p]]
    /\ produced' = {p \in produced : PollOf[p] # s}
    /\ Fault
    /\ UNCHANGED <<broker, table, sent, log, consumer, docs>>

-------------------------------------------------------------------------------
(* flushOutbox, every 10 s in every connected Node service.                *)

Unsent == {i \in DOMAIN table : table[i] \notin sent}

\* The row of batch[p] whose turn it is.
First(p) == {i \in batch[p] : \A j \in batch[p] : i <= j}

\* The SELECT: the oldest first, those of one second in the order of their ids; LIMIT.
Poll(p) ==
    /\ producer[PollOf[p]] = "connected"
    /\ batch[p] = {} /\ Unsent # {}
    /\ batch' = [batch EXCEPT ![p] =
                   {i \in Unsent : Cardinality({j \in Unsent : j < i}) < BatchSize}]
    /\ NoFault
    /\ UNCHANGED <<broker, services, table, sent, produced, log, consumer, docs>>

Produce(p) ==
    /\ p \notin produced /\ broker
    /\ \E i \in First(p) : log' = Append(log, table[i])
    /\ produced' = produced \cup {p}
    /\ NoFault
    /\ UNCHANGED <<broker, services, table, sent, batch, consumer, docs>>

\* Mutant: a row that cannot be produced is given up.
ProduceFailsAndMarks(p) ==
    /\ p \notin produced
    /\ IF broker THEN Fault ELSE NoFault
    /\ \E i \in First(p) :
          /\ sent' = sent \cup {table[i]}
          /\ batch' = [batch EXCEPT ![p] = @ \ {i}]
    /\ UNCHANGED <<broker, services, table, produced, log, consumer, docs>>

\* The first row that cannot be produced ends the run.
ProduceFails(p) ==
    /\ p \notin produced
    /\ \E i \in First(p) :
          IF broker THEN Fault /\ log' \in {log, Append(log, table[i])}
                    ELSE NoFault /\ UNCHANGED log
    /\ batch' = [batch EXCEPT ![p] = {}]
    /\ UNCHANGED <<broker, services, table, sent, produced, consumer, docs>>

\* UPDATE ... SET sent = TRUE.
Mark(p) ==
    /\ p \in produced
    /\ \E i \in First(p) :
          /\ sent' = sent \cup {table[i]}
          /\ batch' = [batch EXCEPT ![p] = @ \ {i}]
    /\ produced' = produced \ {p}
    /\ NoFault
    /\ UNCHANGED <<broker, services, table, log, consumer, docs>>

\* Mutant: the run ends, but its row still counts as sent.
MarkFailsHalfway(p) ==
    /\ p \in produced
    /\ batch' = [batch EXCEPT ![p] = {}]
    /\ Fault
    /\ UNCHANGED <<broker, services, table, sent, produced, log, consumer, docs>>

MarkFails(p) ==
    /\ p \in produced
    /\ batch' = [batch EXCEPT ![p] = {}]
    /\ produced' = produced \ {p}
    /\ Fault
    /\ UNCHANGED <<broker, services, table, sent, log, consumer, docs>>

-------------------------------------------------------------------------------
(* The broker and the consumer of the Analytics service.                   *)

BrokerDown ==
    /\ broker /\ broker' = FALSE
    /\ Fault
    /\ UNCHANGED <<services, table, sent, polling, log, consumer, docs>>

BrokerUp ==
    /\ ~broker /\ broker' = TRUE
    /\ NoFault
    /\ UNCHANGED <<services, table, sent, polling, log, consumer, docs>>

\* startKafkaConsumer connects and subscribes once, at the start of the Analytics process;
\* when it fails the error is logged and nothing calls it again.
StartConsumer ==
    /\ group = "starting"
    /\ \/ broker /\ group' = "joining" /\ NoFault
       \/ ~broker /\ group' = "off" /\ NoFault
       \/ broker /\ group' = "off" /\ Fault
    /\ UNCHANGED <<broker, services, table, sent, polling, log, origin, next, committed, docs>>

\* From then on kafkajs joins by itself.  fromBeginning is false: without a committed
\* offset the group begins behind the last message, and again so at every join until it
\* has committed one.
Join ==
    /\ group = "joining" /\ broker
    /\ group' = "running"
    /\ IF committed = 0
       THEN next' = Len(log) + 1 /\ origin' = Len(log) + 1
       ELSE next' = committed /\ UNCHANGED origin
    /\ NoFault
    /\ UNCHANGED <<broker, services, table, sent, polling, log, committed, docs>>

\* The events collection has a document with the key k.
Counted(k) == \E e \in Events : KeyOf[e] = k /\ docs[e] > 0

\* Mutant: the collection has no unique index.
Inserted(e) == docs[e] + 1

\* Documents of e after an insertOne: a duplicate key is a skip, be it of e or of another
\* event.
InsertedOnce(e) == IF Counted(KeyOf[e]) THEN docs[e] ELSE docs[e] + 1

\* eachMessage: insert the document, then go on to the next message.
Ingest ==
    /\ running /\ broker /\ next <= Len(log)
    /\ docs' = [docs EXCEPT ![log[next]] = InsertedOnce(log[next])]
    /\ next' = next + 1
    /\ NoFault
    /\ UNCHANGED <<broker, services, table, sent, polling, log, group, origin, committed>>

\* Mutant: the error is logged and the message passed over, as in createConsumer.
IngestSwallows ==
    /\ running /\ broker /\ next <= Len(log)
    /\ next' = next + 1
    /\ Fault
    /\ UNCHANGED <<broker, services, table, sent, polling, log, group, origin, committed, docs>>

\* The insert raises, with or without effect; the message stays where it is.
IngestFails ==
    /\ running /\ broker /\ next <= Len(log)
    /\ docs' \in {docs, [docs EXCEPT ![log[next]] = InsertedOnce(log[next])]}
    /\ Fault
    /\ UNCHANGED <<broker, services, table, sent, polling, log, consumer>>

\* kafkajs commits behind the last message it processed.
CommitOffset ==
    /\ running /\ broker
    /\ next > origin /\ next > committed
    /\ committed' = next
    /\ NoFault
    /\ UNCHANGED <<broker, services, table, sent, polling, log, group, origin, next, docs>>

\* The group expires the consumer, or its connection breaks: kafkajs joins again.
ConsumerLeaves ==
    /\ running
    /\ group' = "joining"
    /\ Fault
    /\ UNCHANGED <<broker, services, table, sent, polling, log, origin, next, committed, docs>>

\* The Analytics process dies and starts again.
ConsumerCrash ==
    /\ group # "starting"
    /\ group' = "starting"
    /\ Fault
    /\ UNCHANGED <<broker, services, table, sent, polling, log, origin, next, committed, docs>>

-------------------------------------------------------------------------------
Publishing(e) == Send(e) \/ SendFails(e) \/ Buffer(e) \/ Deliver(e) \/ Store(e)
Polling(p)    == Poll(p) \/ Produce(p) \/ ProduceFails(p) \/ Mark(p)

\* Nothing is left to do but to handle further requests.
Terminated ==
    /\ \A e \in Events : publish[e] \in {"none", "done", "lost"}
    /\ \A e \in Stored : e \in sent \/ \A s \in Node : producer[s] = "offline"
    /\ \A p \in Polls : batch[p] = {}
    /\ \A s \in Node : producer[s] # "starting"
    /\ group = "off" \/ (running /\ next > Len(log))
    /\ UNCHANGED vars

Next ==
    \/ \E s \in Node : Connect(s)
    \/ \E e \in Events : \/ Commit(e) \/ Publishing(e)
                         \/ BufferOverflows(e) \/ BufferRefuses(e) \/ Drop(e) \/ StoreFails(e)
    \/ \E s \in Node \cup Buffering : Crash(s)
    \/ \E p \in Polls : Polling(p) \/ MarkFails(p)
    \/ BrokerDown \/ BrokerUp
    \/ StartConsumer \/ Join \/ Ingest \/ IngestFails \/ CommitOffset
    \/ ConsumerLeaves \/ ConsumerCrash
    \/ Terminated

Spec == Init /\ [][Next]_vars

\* Timers fire, statements and sends return, a broker that is down comes back (faults are
\* bounded, so it is down finitely often) and the consumer, once started, joins and reads.
Fairness ==
    /\ \A s \in Node : WF_vars(Connect(s))
    /\ \A e \in Events : WF_vars(Publishing(e))
    /\ \A p \in Polls : WF_vars(Polling(p))
    /\ WF_vars(BrokerUp) /\ WF_vars(StartConsumer) /\ WF_vars(Join)
    /\ WF_vars(Ingest) /\ WF_vars(CommitOffset)

FairSpec == Spec /\ Fairness

-------------------------------------------------------------------------------
(* Properties.                                                             *)

Delivery == INSTANCE EventDelivery WITH accepted <- Logged \cup Stored, counted <- docs

\* Through crashes, outages, lost answers and overlapping polls the channel implements its
\* promise: what the broker or the table has is never given up, and of the events with one
\* key one is counted, once.
RefinesEventDelivery == Delivery!Spec

\* A row is marked sent only when the broker has it, and the consumer passes a message,
\* and commits the offset behind it, only when an event with its key is counted: nothing
\* accepted is skipped, but as the duplicate its key makes it.
NothingIsSkipped ==
    /\ sent \subseteq Logged
    /\ \A i \in DOMAIN log :
          origin <= i /\ (i < committed \/ (running /\ i < next)) => Counted(KeyOf[log[i]])

\* No connected service is left to poll the table, or no consumer to read the partition.
Stranded == (\A s \in Node : producer[s] = "offline") \/ group = "off"

\* The key of a stored event is counted in the end, however its sends fail and whichever
\* row blocks the batch before it, unless every service, or the consumer, started while the
\* broker was down: it never connects again, and nobody polls, or reads.
StoredIsCounted ==
    \A e \in Events :
        (e \in Stored \ sent /\ committed > 0 /\ e \notin Logged)
            ~> (Counted(KeyOf[e]) \/ Stranded)
===============================================================================
