------------------------------ MODULE AiPipeline ------------------------------
(***************************************************************************)
(* The life of an AI task: POST /ai/request inserts the trace document and *)
(* produces to ai.requests (falling back to the Mongo outbox, drained by   *)
(* the outbox poller of every replica); the consumer thread of the replica *)
(* that owns the partition polls, hands the message to the supervisor and  *)
(* waits for it up to 120 s; the supervisor claims the idempotency key in  *)
(* the processed-events ledger, runs the workflow and finalizes the claim. *)
(*                                                                         *)
(* A replica has one event loop, and the drain of the outbox and the claim *)
(* run on it without an await: between their database calls other replicas *)
(* act, and the consumer threads, but no other coroutine of the replica.   *)
(*                                                                         *)
(* One partition of ai.requests is modelled, and the workflow's steps      *)
(* between its first and its last status write are one step (every one of  *)
(* them writes status running).  A replica may crash, the partition may    *)
(* move, a write whose error the code swallows may be lost.                *)
(***************************************************************************)
EXTENDS Naturals, Sequences, FiniteSets

CONSTANTS
    Tasks,           \* task ids; a task's idempotency key is ai-task-<id>
    Replicas,        \* processes of the AI agent
    NoOne,           \* no replica owns the partition
    MaxLog,          \* bound: messages appended to the partition
    MaxDeliveries,   \* bound: messages handed to the supervisor
    MaxAttempts,     \* MAX_ATTEMPTS of the outbox poller
    MaxFaults        \* bound: crashes, partition moves, raised and lost operations

ASSUME ReplicasAssumption == NoOne \notin Replicas /\ IsFiniteSet(Replicas)
ASSUME BoundsAssumption ==
    MaxLog \in Nat /\ MaxDeliveries \in Nat /\ MaxFaults \in Nat /\ MaxAttempts \in Nat \ {0}

VARIABLES
    handler,     \* handler[t]: the request that creates t
    trace,       \* trace[t]: ai_traces.status
    result,      \* tasks whose ai_traces.result is written
    outbox,      \* outbox[t]: the outbox row of t's message
    attempts,    \* attempts[t]: ... how often its update counted an attempt
    flagged,     \* tasks whose row says permanent_failure
    batch,       \* batch[w][t]: t's row in the drain of replica w
    log,         \* the partition of ai.requests, each message named by its task
    committed,   \* how many of its messages the group has committed
    owner,       \* the replica the partition is assigned to
    position,    \* how many messages the owner has polled
    awaited,     \* awaited[w]: the delivery w's consumer thread waits for, 0 if none
    delivery,    \* every hand-over to process_task, in order: [offset, host, place, found]
    ledger,      \* ledger[t]: processed_events row of t's key
    aged,        \* aged[t]: how many claims of it got older than STALE_CLAIM_SECONDS
    takeovers,   \* takeovers[t]: attempt - 1 of the row, which names its claimed_at
    lostWrite,   \* tasks one of whose status, result or ledger writes was lost
    faults       \* how many faults have happened

vars == <<handler, trace, result, outbox, attempts, flagged, batch, log, committed, owner,
          position, awaited, delivery, ledger, aged, takeovers, lostWrite, faults>>
rowVars == <<outbox, attempts, flagged>>
requestVars == <<handler, rowVars>>
consumerVars == <<committed, owner, position, awaited>>
claimVars == <<ledger, aged, takeovers>>
docVars == <<trace, result, lostWrite>>

Live     == {"claimed", "working", "emitted", "terminal"}
Ended    == {"returned", "raised", "dead"}
Places   == {"started", "found"} \cup Live \cup Ended
Terminal == {"completed", "failed"}

Deliveries == [offset : 1..MaxLog, host : Replicas, place : Places, found : 0..MaxDeliveries]

\* Every replica that read a row at its last attempt but one may still count one.
AttemptsBound == MaxAttempts - 1 + Cardinality(Replicas)

BatchRows == [place : {"none", "found", "sent", "unsent"}, attempts : 0..AttemptsBound]
NoRow     == [place |-> "none", attempts |-> 0]

TypeOK ==
    /\ handler \in [Tasks -> {"idle", "inserted", "202", "500", "503", "crashed"}]
    /\ trace \in [Tasks -> {"absent", "pending", "running"} \cup Terminal]
    /\ result \in SUBSET Tasks
    /\ outbox \in [Tasks -> {"none", "stored", "delivered"}]
    /\ attempts \in [Tasks -> 0..AttemptsBound]
    /\ flagged \in SUBSET Tasks
    /\ batch \in [Replicas -> [Tasks -> BatchRows]]
    /\ log \in Seq(Tasks) /\ Len(log) <= MaxLog
    /\ committed \in 0..Len(log)
    /\ owner \in Replicas \cup {NoOne}
    /\ position \in 0..Len(log)
    /\ awaited \in [Replicas -> 0..Len(delivery)]
    /\ delivery \in Seq(Deliveries)
    /\ Len(delivery) <= MaxDeliveries
    /\ \A d \in DOMAIN delivery : delivery[d].offset <= Len(log)
    /\ ledger \in [Tasks -> {"none", "in_progress", "completed"}]
    /\ aged \in [Tasks -> 0..(MaxDeliveries + 1)]
    /\ takeovers \in [Tasks -> 0..MaxDeliveries]
    /\ lostWrite \in SUBSET Tasks
    /\ faults \in 0..MaxFaults

Init ==
    /\ handler = [t \in Tasks |-> "idle"]
    /\ trace = [t \in Tasks |-> "absent"]
    /\ result = {}
    /\ outbox = [t \in Tasks |-> "none"]
    /\ attempts = [t \in Tasks |-> 0]
    /\ flagged = {}
    /\ batch = [w \in Replicas |-> [t \in Tasks |-> NoRow]]
    /\ log = <<>> /\ committed = 0
    /\ owner = NoOne /\ position = 0
    /\ awaited = [w \in Replicas |-> 0]
    /\ delivery = <<>>
    /\ ledger = [t \in Tasks |-> "none"]
    /\ aged = [t \in Tasks |-> 0]
    /\ takeovers = [t \in Tasks |-> 0]
    /\ lostWrite = {}
    /\ faults = 0

TaskOf(d)  == log[delivery[d].offset]
IsLive(d)  == delivery[d].place \in Live
Runs(t)    == {d \in DOMAIN delivery : TaskOf(d) = t /\ IsLive(d)}

NoFault == UNCHANGED faults
Fault   == faults < MaxFaults /\ faults' = faults + 1

\* Delivery d goes to a place; found names the stale claim it goes there with.
Move(d, place, found) == delivery' = [delivery EXCEPT ![d].place = place, ![d].found = found]
Goto(d, place)        == Move(d, place, 0)

Draining(w) == \E t \in Tasks : batch[w][t].place # "none"
Claiming(w) == \E d \in DOMAIN delivery : delivery[d].host = w /\ delivery[d].place = "found"

\* The event loop of w is not inside a drain or a claim.
Free(w) == ~Draining(w) /\ ~Claiming(w)

-------------------------------------------------------------------------------
(* POST /ai/request.                                                       *)

\* The document is inserted as pending; an insert that raises is answered 500.
InsertTrace(t) ==
    /\ handler[t] = "idle"
    /\ \/ /\ handler' = [handler EXCEPT ![t] = "inserted"]
          /\ trace' = [trace EXCEPT ![t] = "pending"]
          /\ NoFault
       \/ /\ handler' = [handler EXCEPT ![t] = "500"]
          /\ Fault
          /\ UNCHANGED trace
    /\ UNCHANGED <<result, rowVars, batch, log, consumerVars, delivery, claimVars, lostWrite>>

\* producer.produce with the client connected: True once flush returns, whether or not
\* the broker has the message (a delivery error is only logged).
Produced(t) ==
    \/ Len(log) < MaxLog /\ log' = Append(log, t) /\ NoFault
    \/ UNCHANGED log /\ Fault

ProduceRequest(t) ==
    /\ handler[t] = "inserted"
    /\ \/ /\ Produced(t)
          /\ handler' = [handler EXCEPT ![t] = "202"]
          /\ UNCHANGED outbox
       \* All attempts raised, or there is no client: an outbox row, if Mongo takes it.
       \/ /\ \E row \in {"stored", "none"} : outbox' = [outbox EXCEPT ![t] = row]
          /\ Fault
          /\ handler' = [handler EXCEPT ![t] = "503"]
          /\ UNCHANGED log
    /\ UNCHANGED <<attempts, flagged, batch, consumerVars, delivery, claimVars, docVars>>

\* The process dies between the insert and the produce.
RequestCrashes(t) ==
    /\ handler[t] = "inserted"
    /\ handler' = [handler EXCEPT ![t] = "crashed"]
    /\ Fault
    /\ UNCHANGED <<rowVars, batch, log, consumerVars, delivery, claimVars, docVars>>

-------------------------------------------------------------------------------
(* OutboxPoller._drain_once.  The rows found are produced and updated one    *)
(* after the other, from what the find read of them: another replica may     *)
(* have found, sent, failed or marked them since.                            *)

\* Mutant: the limit on attempts is off by one.
RetryableOnceMore(t) == outbox[t] = "stored" /\ attempts[t] <= MaxAttempts

\* The rows the find of a drain selects.
Retryable(t) == outbox[t] = "stored" /\ attempts[t] < MaxAttempts

PollerFinds(w) ==
    /\ Free(w)
    /\ \E t \in Tasks : Retryable(t)
    /\ batch' = [batch EXCEPT ![w] =
                   [t \in Tasks |-> IF Retryable(t)
                                    THEN [place |-> "found", attempts |-> attempts[t]]
                                    ELSE NoRow]]
    /\ UNCHANGED <<requestVars, log, consumerVars, delivery, claimVars, docVars, faults>>

\* One attempt to produce the row; False when it raises or there is no client.
PollerProduces(w, t) ==
    /\ batch[w][t].place = "found"
    /\ \A u \in Tasks : batch[w][u].place \in {"none", "found"}
    /\ \/ Produced(t) /\ batch' = [batch EXCEPT ![w][t].place = "sent"]
       \/ UNCHANGED log /\ NoFault /\ batch' = [batch EXCEPT ![w][t].place = "unsent"]
    /\ UNCHANGED <<requestVars, consumerVars, delivery, claimVars, docVars>>

PollerMarksDelivered(w, t) ==
    /\ batch[w][t].place = "sent"
    /\ outbox' = [outbox EXCEPT ![t] = "delivered"]
    /\ attempts' = [attempts EXCEPT ![t] = @ + 1]
    /\ batch' = [batch EXCEPT ![w][t] = NoRow]
    /\ UNCHANGED <<handler, flagged, log, consumerVars, delivery, claimVars, docVars, faults>>

\* One more attempt; the row is flagged if the find had read all but one of them.
PollerFails(w, t) ==
    /\ batch[w][t].place = "unsent"
    /\ attempts' = [attempts EXCEPT ![t] = @ + 1]
    /\ flagged' = IF batch[w][t].attempts + 1 >= MaxAttempts THEN flagged \cup {t} ELSE flagged
    /\ batch' = [batch EXCEPT ![w][t] = NoRow]
    /\ UNCHANGED <<handler, outbox, log, consumerVars, delivery, claimVars, docVars, faults>>

\* The update raises, which ends the drain.
PollerAborts(w, t) ==
    /\ batch[w][t].place \in {"sent", "unsent"}
    /\ batch' = [batch EXCEPT ![w] = [u \in Tasks |-> NoRow]]
    /\ Fault
    /\ UNCHANGED <<requestVars, log, consumerVars, delivery, claimVars, docVars>>

\* What a drain that has found rows does next.
Drain(w) ==
    \E t \in Tasks :
        \/ PollerProduces(w, t) \/ PollerMarksDelivered(w, t)
        \/ PollerFails(w, t) \/ PollerAborts(w, t)

-------------------------------------------------------------------------------
(* KafkaRequestsConsumer._poll_loop.                                       *)

\* Mutant: without a committed offset the group begins behind the last message
\* (auto.offset.reset "latest", as the results consumer has it).
AssignAtEnd(w) ==
    /\ owner # w
    /\ owner' = w /\ position' = IF committed = 0 THEN Len(log) ELSE committed
    /\ IF owner = NoOne THEN NoFault ELSE Fault
    /\ UNCHANGED <<requestVars, batch, log, committed, awaited, delivery, claimVars, docVars>>

\* The group assigns the partition: to a new owner, or after a restart.  The owner
\* starts from the committed offset (while there is none: at the earliest message).  The
\* old owner's thread waits on, and its coroutine keeps running.
Assign(w) ==
    /\ owner # w
    /\ owner' = w /\ position' = committed
    /\ IF owner = NoOne THEN NoFault ELSE Fault
    /\ UNCHANGED <<requestVars, batch, log, committed, awaited, delivery, claimVars, docVars>>

\* Poll a message and schedule process_task on the replica's event loop.
Poll(w) ==
    /\ owner = w /\ awaited[w] = 0
    /\ position < Len(log) /\ Len(delivery) < MaxDeliveries
    /\ position' = position + 1
    /\ delivery' = Append(delivery, [offset |-> position + 1, host |-> w,
                                     place |-> "started", found |-> 0])
    /\ awaited' = [awaited EXCEPT ![w] = Len(delivery) + 1]
    /\ UNCHANGED <<requestVars, batch, log, committed, owner, claimVars, docVars, faults>>

\* process_task returned: commit the message's offset, whoever owns the partition by now.
\* A commit that raises is only logged: the broker refuses the one of a replica that has
\* not joined the group's new generation, and accepts it from one that has.
CommitOffset(w) ==
    /\ awaited[w] # 0
    /\ delivery[awaited[w]].place = "returned"
    /\ \/ committed' = delivery[awaited[w]].offset /\ NoFault
       \/ UNCHANGED committed /\ IF owner = w THEN Fault ELSE NoFault
    /\ awaited' = [awaited EXCEPT ![w] = 0]
    /\ UNCHANGED <<requestVars, batch, log, owner, position, delivery, claimVars, docVars>>

\* process_task raised, or 120 s are over: no commit, and the loop polls the next
\* message; nothing seeks back.  After a timeout the coroutine is still running.
GiveUp(w) ==
    /\ awaited[w] # 0
    /\ delivery[awaited[w]].place # "returned"
    /\ awaited' = [awaited EXCEPT ![w] = 0]
    /\ UNCHANGED <<requestVars, batch, log, committed, owner, position, delivery, claimVars,
                   docVars, faults>>

\* A replica dies with its coroutines, its thread and its drain; the partition waits for
\* a new assignment.
Crash(w) ==
    /\ delivery' = [d \in DOMAIN delivery |->
                      IF delivery[d].host = w /\ delivery[d].place \notin Ended
                      THEN [delivery[d] EXCEPT !.place = "dead", !.found = 0] ELSE delivery[d]]
    /\ owner = w \/ Draining(w) \/ delivery' # delivery
    /\ owner' = IF owner = w THEN NoOne ELSE owner
    /\ awaited' = [awaited EXCEPT ![w] = 0]
    /\ batch' = [batch EXCEPT ![w] = [t \in Tasks |-> NoRow]]
    /\ Fault
    /\ UNCHANGED <<requestVars, log, committed, position, claimVars, docVars>>

-------------------------------------------------------------------------------
(* process_task and the two-phase claim.                                   *)

\* A claim of t that has not been taken over is older than STALE_CLAIM_SECONDS.
Stale(t) == aged[t] > takeovers[t]

\* The key is inserted: the delivery has the claim.
Claim(d) ==
    LET t == TaskOf(d) IN
    /\ delivery[d].place = "started" /\ Free(delivery[d].host)
    /\ ledger[t] = "none"
    /\ ledger' = [ledger EXCEPT ![t] = "in_progress"]
    /\ Goto(d, "claimed")
    /\ UNCHANGED <<requestVars, batch, log, consumerVars, aged, takeovers, docVars, faults>>

\* A claim that is completed, or in progress and fresh: process_task returns normally.
Skips(t) == ledger[t] = "completed" \/ (ledger[t] = "in_progress" /\ ~Stale(t))

\* The insert met the unique key: the claim found is skipped, or it is stale and its
\* claimed_at remembered.  A row is never deleted, so the two calls are one step.
FindClaim(d) ==
    LET t == TaskOf(d) IN
    /\ delivery[d].place = "started" /\ Free(delivery[d].host)
    /\ ledger[t] # "none"
    /\ IF Skips(t)
       THEN Goto(d, "returned")
       ELSE Move(d, "found", takeovers[t])
    /\ UNCHANGED <<requestVars, batch, log, consumerVars, claimVars, docVars, faults>>

\* Mutant: the update does not compare claimed_at.
UnchangedAtAnyAge(d) == ledger[TaskOf(d)] = "in_progress"

\* The claim is the one that was found.
Unchanged(d) ==
    ledger[TaskOf(d)] = "in_progress" /\ takeovers[TaskOf(d)] = delivery[d].found

\* The update of a stale claim: a takeover, or nothing modified, which is a skip.
TakeOver(d) ==
    LET t == TaskOf(d) IN
    /\ delivery[d].place = "found"
    /\ IF Unchanged(d)
       THEN /\ takeovers' = [takeovers EXCEPT ![t] = @ + 1]
            /\ Goto(d, "claimed")
       ELSE /\ UNCHANGED takeovers
            /\ Goto(d, "returned")
    /\ UNCHANGED <<requestVars, batch, log, consumerVars, ledger, aged, docVars, faults>>

\* IdempotencyLedgerError, of the insert or of a later call.
LedgerFails(d) ==
    /\ \/ delivery[d].place = "started" /\ Free(delivery[d].host)
       \/ delivery[d].place = "found"
    /\ Goto(d, "raised")
    /\ Fault
    /\ UNCHANGED <<requestVars, batch, log, consumerVars, claimVars, docVars>>

\* 300 s (STALE_CLAIM_SECONDS) have passed since the claim.
ClaimAges(t) ==
    /\ ledger[t] = "in_progress" /\ ~Stale(t)
    /\ aged' = [aged EXCEPT ![t] = @ + 1]
    /\ UNCHANGED <<requestVars, batch, log, consumerVars, delivery, ledger, takeovers, docVars,
                   faults>>

\* The workflow of d is at this place and its event loop free to go on with it.
Ready(d, place) == delivery[d].place = place /\ Free(delivery[d].host)

\* A status write to ai_traces, whose error is logged and swallowed.
SetStatus(t, s) ==
    \/ trace' = [trace EXCEPT ![t] = s] /\ NoFault /\ UNCHANGED lostWrite
    \/ lostWrite' = lostWrite \cup {t} /\ Fault /\ UNCHANGED trace

\* Upsert of the document as running, whatever it was before.
Upsert(d) ==
    /\ Ready(d, "claimed")
    /\ SetStatus(TaskOf(d), "running")
    /\ Goto(d, "working")
    /\ UNCHANGED <<requestVars, batch, result, log, consumerVars, claimVars>>

\* A progress step of the workflow: status running again.
Progress(d) ==
    /\ Ready(d, "working")
    /\ trace[TaskOf(d)] # "running"
    /\ SetStatus(TaskOf(d), "running")
    /\ UNCHANGED <<requestVars, batch, result, log, consumerVars, delivery, claimVars>>

\* Mutant: a step fails and returns before any status write.
FailSilently(d) ==
    /\ Ready(d, "working")
    /\ Goto(d, "terminal")
    /\ UNCHANGED <<requestVars, batch, log, consumerVars, claimVars, docVars, faults>>

\* A step failed: the failed step and the failed status, both status writes.
Fail(d) ==
    /\ Ready(d, "working")
    /\ SetStatus(TaskOf(d), "failed")
    /\ Goto(d, "terminal")
    /\ UNCHANGED <<requestVars, batch, result, log, consumerVars, claimVars>>

\* emit_progress("complete", "completed") writes the status before the result.
Complete(d) ==
    /\ Ready(d, "working")
    /\ SetStatus(TaskOf(d), "completed")
    /\ Goto(d, "emitted")
    /\ UNCHANGED <<requestVars, batch, result, log, consumerVars, claimVars>>

\* update_task_status(COMPLETED, result).
WriteResult(d) ==
    LET t == TaskOf(d) IN
    /\ Ready(d, "emitted")
    /\ \/ /\ trace' = [trace EXCEPT ![t] = "completed"]
          /\ result' = result \cup {t}
          /\ NoFault /\ UNCHANGED lostWrite
       \/ lostWrite' = lostWrite \cup {t} /\ Fault /\ UNCHANGED <<trace, result>>
    /\ Goto(d, "terminal")
    /\ UNCHANGED <<requestVars, batch, log, consumerVars, claimVars>>

\* Mutant: the claim is finalized by a finally clause.
RaiseAndFinalize(d) ==
    /\ Ready(d, "working")
    /\ ledger' = [ledger EXCEPT ![TaskOf(d)] = "completed"]
    /\ Goto(d, "raised")
    /\ Fault
    /\ UNCHANGED <<requestVars, batch, log, consumerVars, aged, takeovers, docVars>>

\* The workflow raised: the claim is left in progress.
Raise(d) ==
    /\ Ready(d, "working")
    /\ Goto(d, "raised")
    /\ Fault
    /\ UNCHANGED <<requestVars, batch, log, consumerVars, claimVars, docVars>>

\* Mutant: the claim is released instead of completed.
FinalizeReleases(d) ==
    /\ Ready(d, "terminal")
    /\ ledger' = [ledger EXCEPT ![TaskOf(d)] = "none"]
    /\ Goto(d, "returned")
    /\ UNCHANGED <<requestVars, batch, log, consumerVars, aged, takeovers, docVars, faults>>

\* finalize_idempotency_key, then process_task returns.
Finalize(d) ==
    LET t == TaskOf(d) IN
    /\ Ready(d, "terminal")
    /\ \/ /\ ledger' = [ledger EXCEPT ![t] = "completed"]
          /\ NoFault /\ UNCHANGED lostWrite
       \/ lostWrite' = lostWrite \cup {t} /\ Fault /\ UNCHANGED ledger
    /\ Goto(d, "returned")
    /\ UNCHANGED <<requestVars, batch, trace, result, log, consumerVars, aged, takeovers>>

\* What the event loop does for a delivery without outside help.
Process(d) ==
    \/ Claim(d) \/ FindClaim(d) \/ TakeOver(d) \/ LedgerFails(d)
    \/ Upsert(d) \/ Fail(d) \/ Complete(d) \/ WriteResult(d) \/ Raise(d) \/ Finalize(d)

-------------------------------------------------------------------------------
Next ==
    \/ \E t \in Tasks :
          \/ InsertTrace(t) \/ ProduceRequest(t) \/ RequestCrashes(t)
          \/ ClaimAges(t)
    \/ \E w \in Replicas :
          \/ PollerFinds(w) \/ Drain(w)
          \/ Assign(w) \/ Poll(w) \/ CommitOffset(w) \/ GiveUp(w) \/ Crash(w)
    \/ \E d \in DOMAIN delivery : Process(d) \/ Progress(d)

Spec == Init /\ [][Next]_vars

\* The group assigns an orphaned partition, the consumer threads poll and stop waiting
\* after 120 s at the latest, a drain's database and broker calls end, and every workflow
\* step ends within SKILL_TIMEOUT.
Fairness ==
    /\ WF_vars(owner = NoOne /\ \E w \in Replicas : Assign(w))
    /\ \A w \in Replicas :
          WF_vars(Poll(w)) /\ WF_vars(CommitOffset(w) \/ GiveUp(w)) /\ WF_vars(Drain(w))
    /\ \A d \in 1..MaxDeliveries : WF_vars(d \in DOMAIN delivery /\ Process(d))

FairSpec == Spec /\ Fairness

-------------------------------------------------------------------------------
(* Properties.                                                             *)

\* However messages are duplicated, redelivered or handed to another replica, a task has
\* no more coroutines running it than one for its first claim and one for every takeover,
\* and no claim that went stale is taken over twice, however many replicas found it stale
\* (the unique key and the compare-and-set of claim_idempotency_key).
OneRunPerClaim ==
    \A t \in Tasks : Cardinality(Runs(t)) <= takeovers[t] + 1 /\ takeovers[t] <= aged[t]

\* A key finalized in the ledger, which no redelivery runs again, belongs to a task in a
\* terminal status, a completed one with its result, unless a takeover or a swallowed
\* write error came between (the try/except/else around the workflow in process_task).
FinalizedIsTerminal ==
    \A t \in Tasks :
        ledger[t] = "completed" /\ takeovers[t] = 0 /\ t \notin lostWrite =>
            trace[t] \in Terminal /\ (trace[t] = "completed" => t \in result)

\* No duplicate, redelivery or restart changes the status of a finished task: only a
\* takeover may set it back to running (process_task's upsert writes running whatever
\* the document says, so the claim is all that protects a finished task).
TerminalIsFinal ==
    [][\A t \in Tasks :
          trace[t] \in Terminal /\ takeovers'[t] = 0 => trace'[t] = trace[t]]_vars

\* A task whose message is in the partition ends, unless a run of it crashed or raised
\* or one of its writes was lost; a message never delivered because of the bound on
\* deliveries is no counterexample.
QueuedTaskEnds ==
    \A t \in Tasks :
        (\E o \in DOMAIN log : log[o] = t) ~>
            \/ trace[t] \in Terminal
            \/ t \in lostWrite
            \/ \E d \in DOMAIN delivery :
                  TaskOf(d) = t /\ delivery[d].place \in {"raised", "dead"}
            \/ Len(delivery) = MaxDeliveries /\ \A d \in DOMAIN delivery : TaskOf(d) # t

\* No offset is committed over a message that was never handed to process_task, whoever
\* owned the partition and however late a former owner commits: the loop never seeks back,
\* so it also commits over those whose run raised or timed out, but each had its run.
CommittedWasDelivered ==
    \A o \in 1..committed : \E d \in DOMAIN delivery : delivery[d].offset = o

\* db.py says the takeover of a stale claim "prevents the claim-before-process trap
\* where a crash leaks forever": a task shown as running is being run, or a message of
\* it can still be delivered.
RunningTaskIsAlive ==
    \A t \in Tasks :
        trace[t] = "running" /\ t \notin lostWrite =>
            \/ \E d \in DOMAIN delivery : TaskOf(d) = t /\ delivery[d].place \notin Ended
            \/ \E o \in DOMAIN log : o > committed /\ log[o] = t
            \/ Retryable(t) \/ \E w \in Replicas : batch[w][t].place # "none"
===============================================================================
