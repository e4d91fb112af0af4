# Verification of the LinkedIn-clone back end

TLA+ models of the services under `services/`, checked with TLC on small instances and, for the
parts marked *proved*, with TLAPS for every value of the constants.  The code is the reference:
every definition that models code names the lines it stands for in `PROJECT.json` ("map"), and
comments in the modules name the function.

## 1. The system

A set of small services behind an HTTP gateway, with MySQL, MongoDB, Redis and Kafka between them.

| component | state | operations | interacts through | what makes it hard | what makes it correct |
|---|---|---|---|---|---|
| AI agent: approvals (`ai-agent/src/main.py`) | `approvals` array in the task's `ai_traces` document | approve, edit, reject a candidate's draft | MongoDB atomic updates, `await` of the Messaging service | racing requests on several replicas, a lost answer, a raised write, a crash between claim and final write | one record per candidate, the slot is a lock, no silent second message, the record is true |
| AI agent: task pipeline (`main.py`, `supervisor.py`, `db.py`, `kafka_*.py`, `outbox_poller.py`) | `ai_traces`, `outbox`, `processed_events`, consumer offsets | request, retry, drain the outbox, consume, run, finalize | Kafka topics `ai.requests`, `ai.results` | at-least-once delivery, duplicates, time-outs, rebalances, crashes | a run per claim, finished stays finished, queued tasks end |
| AI agent: results stream (`kafka_results_consumer.py`, `ws_manager.py`) | sockets per task, in memory | subscribe, catch up, broadcast | Kafka, WebSocket | catch-up and live frames interleave | the last frame a client sees is the state of the task |
| AI agent: skills | none | parse, match, draft, coach | HTTP to the other services, an LLM | - | pure |
| Applications (`application/src/app.js`) | `applications`, mirror rows in `members`, `jobs.applicants_count` | submit, update status, add note | one MySQL database with Jobs and Profiles; outbox | snapshots, unique keys, deadlocks, read-check-write | one application per member and job, exact counter, legal status history |
| Jobs (`job/src/routes/jobs.js`, `shared/cache.js`) | `jobs`, `job:{id}` and `job:search:*` in Redis | create, update, close, count views, recompute, read, search | MySQL, Redis, outbox; submits write the same rows | a reader stores what it read before a write, an invalidation is lost | an outdated copy has a known cause and does not stay |
| Profiles, recruiters, accounts (`profile/src/routes`) | `members`, `recruiters`, details of a member | sign up, log in, update, delete | MySQL over a pool of connections | several statements, not always in a transaction; a connection given back with its transaction open | one account per e-mail, what was answered is kept, a member and its details go together |
| Posts (`posts/src/routes/posts.js`) | posts, likes, comments and their counters | create, like, comment, delete | MySQL | a check on a snapshot before the write; a delete without a transaction | a count never exceeds its rows, and falls short only for a known reason |
| Connections (`connection/`) | `connections` in MySQL, a mirror in MongoDB, `connections_count` | request, accept, reject | MySQL, MongoDB, Kafka | two stores, no transaction over both | one edge per pair, both stores agree |
| Messaging (`messaging/`) | threads, messages, outbox, presence | open, send, read | MySQL, Kafka | check then insert, commit then produce | one thread per pair, no message without its event |
| Shared outbox and consumers (`shared/src`, `analytics/src/kafka`) | `outbox_events`, the `events` collection, offsets | publish, store, drain, consume | Kafka, MySQL, MongoDB | overlapping pollers, a broker that is down, answers lost, crashes | what was taken over is never given up and is counted once |
| Gateways (`api-gateway`, `dev-gateway`) | none / sessions in memory | proxy, authorize | HTTP, WebSocket | a restart forgets sessions | only the owner passes |
| In-memory variants, frontend, data scripts, infrastructure | - | - | - | - | not modelled, see section 7 |

## 2. Modules

`OutreachDecision` is an abstract specification; `Approval` implements it.  `<name>Proofs` holds the
theorems about `<name>`.  `AiPipeline` is how a task gets into the state that `Approval` starts
from: `Approval`'s actions `Supervisor*` are the writes `AiPipeline` makes to the same document,
reduced to what a handler can read.  `Applications` composes two services (Application and Job) over
one database.  `Connections` relates three stores.  `Outbox` implements the second abstract
specification, `EventDelivery`; it composes a service of each kind, the pollers of several services,
the broker and the Analytics service.  `JobCache` composes the Job service, its Redis client and the
submits of the Application service.  `Posts` and `Accounts` are one service each.  `MC<name>` gives
the constants of `<name>` values for TLC.

### OutreachDecision
One variable, the decision about each candidate: `open`, taken (`send_pending` or `recorded`),
`completed`, `rejected`, or `send_failed`.  `Take` is possible from `open` and `send_failed` only;
`Conclude` ends a taken decision.  Nothing else changes it.

### Approval - `POST /ai/approve`
| state | code |
|---|---|
| `status`, `result` | the fields of the `ai_traces` document of the task |
| `slot[r]` | `approvals[].state` of the record whose `approval_id` is the one request `r` drew; `none` if there is none |
| `at[r]` | where the handler of `r` is: before `find_one`, after it, after the first claim missed, after the claim, after the send |
| `outcome[r]` | what Messaging did: nothing, stored and answered, stored but the call raised, not stored |
| `worker`, `runs` | the supervisor and how often it ran the task |
| `dbFault` | history: requests with a MongoDB call that raised |

There is an action for each MongoDB call and each `await`: `Load` (the read and every check, 404,
409 or 400), `Retake` / `RetakeMisses` (atomic update R2), `Push` / `PushMisses` (R1),
`FinalizeReject`, `Send`, `Finalize`, `ClaimFails` (a call raises, and its write took effect or
not), `Crash`.  Retaking a failed slot replaces the record's `approval_id`, so the record passes
from the old request to the new one; that is why an old handler's final write finds nothing.
Messaging's answers have no field `sent` (`messaging/routers/messages.py`), so the branch of
`main.py` that would read `sent` as false in an answer of 200 is not reached in this repository and
is left out.

### AiPipeline - from `POST /ai/request` to the finalized claim
| state | code |
|---|---|
| `handler`, `trace`, `result` | the handler of `POST /ai/request`, the task's `ai_traces` document |
| `outbox`, `attempts`, `flagged` | the outbox row of the task's message: stored or delivered, `attempts`, `permanent_failure` |
| `batch[w]` | a drain of replica `w`: each row with the `attempts` its find has read, and how far the drain is with it |
| `log`, `committed`, `owner`, `position` | one partition of `ai.requests`, the group's offset, and who reads it from where |
| `awaited[w]` | the hand-over the consumer thread of `w` waits for |
| `delivery[d]` | a hand-over to `process_task`: its message, its replica, its place, and the claim it found |
| `ledger`, `aged`, `takeovers` | the row of `processed_events`; how many of its claims got older than 300 s, and how many were taken over: the two name `claimed_at` |

Actions: the request handler (`InsertTrace`, `ProduceRequest`, `RequestCrashes`); a drain of the
outbox, which acts on what its find has read (`PollerFinds`, then for each row `PollerProduces` and
`PollerMarksDelivered` or `PollerFails`; `PollerAborts` when an update raises); the consumer thread
(`Assign`, `Poll`, `CommitOffset`, `GiveUp`); the claim, one action per database call (`Claim` or
`FindClaim`, `TakeOver`, `LedgerFails`); the workflow (`Upsert`, `Progress`, `Fail`, `Complete`,
`WriteResult`, `Raise`, `Finalize`), time (`ClaimAges`) and `Crash`.  The workflow's middle steps
all write `running`, so they are one action.

Two replicas drain the same rows and meet at the same claim in any order of their calls.  The
coroutines of one replica do not: `_drain_once` and `claim_idempotency_key` have no `await`, so the
event loop of a replica that is inside one of them does nothing else (`Free`); its consumer thread
goes on.  After the partition has moved, or the consumer has timed out, the coroutine runs on, and the
thread of a former owner still commits when `process_task` returns.  The broker refuses that commit
when the replica has not joined the group's new generation, and accepts it when it has: `CommitOffset`
has both outcomes.

### Applications - submit, close, recompute, update status
A submit is one InnoDB transaction at REPEATABLE READ (MySQL's default; the code sets no other):
`Begin` opens its snapshot, `Check` makes every decision the code makes from it, `Link` takes the
foreign key's shared lock, `Insert` the unique key, `Count` the exclusive lock, `Commit` makes it
visible.  A recruiter without a row in `members` takes a way of their own to `Link`: `FindRecruiter`
reads the recruiter, `Mirror` inserts the mirror row, and `MirrorIsTaken` is its `ER_DUP_ENTRY`, on the
id or on the unique e-mail (`EmailOf`, `schema.sql:8`), after which only the contact e-mail is left to
find the applicant by.  `WaitsFor` says which transactions a statement waits for, the mirror row's
INSERT for another submit's uncommitted row included; `Deadlock` rolls one of two that wait for each
other back, `DuplicateKey` is the 500 after `ER_DUP_ENTRY` of the application.  The close, the
recompute and the status updates are two autocommit statements each, one action per statement.
`Publish` is `publishOrOutbox`, called without `await` after the commit.

InnoDB's locks are external: modelled from what the statements in `app.js` and the keys in
`data/schema.sql` make it do.  Left out: the shared lock that a statement refused by a key leaves on
it until its transaction ends, and the lock wait time-out.  The foreign key of `applications` on
`members` (`schema.sql:80`) is not an action's guard: the order of the code's statements alone keeps what
it would enforce, as the theorem about `ApplicantHasMemberRow` shows.  Every job starts with the count of its
applications; the benchmark's seed, which draws the counts at random, is a start of `JobCache`.

### Connections - request, accept, reject
| state | code |
|---|---|
| `row`, `requestedBy` | the row of the pair in MySQL's `connections` (the pair is ordered and unique; rows are never deleted) |
| `edge` | the pairs with a document in MongoDB's `connections` |
| `counted` | what accepts added to both members' `connections_count` |
| `body[r]`, `at[r]`, `seen[r]` | a request, where its handler is, and the row as it last read it |
| `overlapped`, `faulty`, `rejecting` | history: what has happened to a pair, for the properties |

The routes are plain functions, which FastAPI runs in threads; each has a session of its own, in a
transaction at REPEATABLE READ.  A handler is `Read` (with every early answer), `Write` (the
commit: an UPDATE by primary key, or an INSERT that the unique key may refuse, `WriteConflicts`),
`Refresh` (the second read, in a new transaction), `Mirror` (upsert or delete of the edge),
`CountUp` and `Publish`.  `body[r].rest` tells the two sets of routes apart: a REST accept neither
counts nor publishes, a REST request does not publish, and REST answers a repeated decision with
200 where the frontend's route says 400.  SQLAlchemy writes the changed columns only, hence
`Written` and `requestedBy`.  The refresh after a request is not a step: what it reads is not used
again.  `WriteFails` is a commit that raises, with or without effect; a failing write to MongoDB,
to the counters or to Kafka is an alternative of its action, since the code logs it and goes on.

### EventDelivery
What the event channel promises to analytics: an event that was accepted stays accepted, it is
counted at most once and only then, and of the events with one idempotency key at most one is
counted.  It does not promise that every event is: the keys decide.

### Outbox - from a handler's commit to the analytics collection
| state | code |
|---|---|
| `producer[s]` | the flag `connected` of a Node service, set by the only call of `connectProducer` |
| `publish[e]` | where the call that publishes `e` is: committed, storing in the outbox, buffered by librdkafka, done, lost |
| `table`, `sent` | the rows of `outbox_events`, which all services share, and those with `sent = TRUE` |
| `batch[p]`, `produced` | a run of `flushOutbox`: the rows it read and has not finished, and whether it has produced the first |
| `log`, `broker` | the partition, and whether the broker answers |
| `group`, `origin`, `next`, `committed` | the analytics consumer: starting, joining, running or off; its position, and the offset of its group (0 while there is none) |
| `KeyOf[e]`, `docs[e]` | the `idempotency_key` of `e`, and its documents in the `events` collection |

An event's key is its own only if it was drawn at random.  The Python services hash type, actor and
entity (`messaging/kafka_client.py:22-23`, `connection/kafka_client.py:18-19`), and the entity of a
message is its thread, so the second message of a sender in a thread has the key of the first;
`job.saved` has a key of member and job (`jobs.js:440`).  `KeyOf` may map any events to one key.  The
unique index (`mongo.js:37`) drops the later one as a duplicate (`InsertedOnce`), and the consumer
commits behind it: `NothingIsSkipped` says that each message passed has its *key* counted.

`Send`, `SendFails`, `Store` and `StoreFails` are `publishOrOutbox`; `Buffer`, `BufferRefuses`,
`BufferOverflows`, `Deliver` and `Drop` the Python services' producer, whose `flush` may return before
the message is sent.  When it answers False, Messaging stores the event in the table and Connection
drops it (`Falling`, `connections.py:160`); a full local queue raises `BufferError`, which neither
catches.  `Poll`, `Produce`, `Mark` and their failures are the poller, one action per `await`;
`StartConsumer`, `Join`, `Ingest`, `IngestFails`, `CommitOffset`, `ConsumerLeaves` and `ConsumerCrash`
the consumer.  It is started once (`analytics/src/server.js:28-32`): if the broker is down then, it is
off until the process restarts; once started, kafkajs joins again by itself.  A send without an answer
may have reached the broker; a crash loses what a process has in memory.

### JobCache - job postings and their Redis copies
A row is its status, a version of its text, its views and its applicants, which is all a reader of
a copy can tell apart.  A read or a search is `Hit`, or `Miss`, `Load` and `Fill` / `FillNot`
(`getOrSet`); a write is `Write` and then, if it has them, `Invalidate` and `InvalidateSearches`, each
of which may do nothing because the client is not connected or the call fails.  A statement that raises
is `ReadFails` or `WriteFails`, after which the request is answered 500 and nothing is invalidated,
whether or not the write took effect.  A close reads first (`ReadForClose`), and so does the recompute:
`CountApplications` counts, and its `Write` sets `applicants_count` to what was counted, which may be
less than the column had.  `Submit` is the counter's UPDATE of the Application service, which
invalidates nothing.  A job is there before the requests as it was posted, or as the benchmark's seed
leaves it, with more applicants than applications (`Seeded`).  `overtaken`, `suspect` and `doubtful`
are history: which readers were overtaken by a write, and why a copy may be outdated.

### Posts - likes, comments, deletes
`posts`, `rows` and `count` are the three tables; likes and comments differ only in who draws the
key, so each is a kind of row.  A change is `Look` (the SELECTs, with 404 and 403), `Insert` or
`Remove`, `Bump` (the UPDATE of the counter) and `Commit`; its rows are locked from the statement
that changes them, the post from `Bump` on.  A delete is three statements without a transaction.
The seeds load posts with counts and no rows of likes or comments (`backend_demo_seed.sql:332-377`,
`transform.py:697-698`, `seed_loader.py:185-189`): `Seeded` is what a count is ahead of the rows at the
start, and the properties say what requests make of that difference.  A second run of the seed under
live requests sets the counts back (`backend_demo_seed.sql:378-392`); it is outside the service and not
modelled.  `landed`, `found` and `stripped` are history.

### Accounts - sign-up, login, update, delete
| state | code |
|---|---|
| `db` | the committed rows of `members` and `recruiters` (one per e-mail, both UNIQUE) and a member's details |
| `open`, `pending[c]`, `snapshot[c]` | the transaction on a connection of the pool: its writes, and what its SELECTs see |
| `on[r]` | the connection a handler keeps; `pool.query` takes any that nobody keeps |
| `at[r]`, `reply[r]`, `account[r]` | where a request is, its status and the account it was answered with |

An update replaces a member's details, removes them or keeps them (`ListsOf`): the lists of the body
are deleted and inserted anew (`members.js:657-670`), so an empty one removes what was there, and a
body with scalars only touches nothing.  The INSERT IGNORE of the skills turns a missing member into a
warning.  The details are one row; an update that empties some lists only counts as one that keeps
them.  `profile_extensions` (`members.js:490-504`) is a column of the member and not modelled.

The transaction belongs to the connection and not to the handler, since `handleDeleteMember` gives
its connection back with the transaction open when a statement raises (`Leaks`): a later
`pool.query` on it writes into that transaction, and the next `beginTransaction` commits it.
`TimesOut` and `Deadlock` are InnoDB's ways out of a lock wait.

## 3. Runs

| run | question | states | result |
|---|---|---|---|
| `approvals` | do racing approvals keep one honest decision per candidate, and does the handler implement `OutreachDecision`? | 379,682 | holds |
| `ai_pipeline` | do duplicates, redeliveries and crashes leave a finished task finished, and does a queued task end? | 461,111 | holds |
| `ai_claim_leak` | can a crash leave a task running for ever? | - | yes, see section 6 |
| `applications` | do the row and the counter stay together under races, deadlocks and crashes? | 545,601 | holds |
| `offer_not_terminal` | is an offer terminal? | - | no |
| `recruiter_not_found` | is a recruiter always found? | - | no |
| `connections` | which races part the table, the edges and the counters, and does nothing else? | 802,556 | holds |
| `edge_of_rejected` | are edges those of accepted pairs? | - | no |
| `outbox` | does the event channel implement `EventDelivery` through crashes, outages and lost answers, and is the key of a stored event counted? | 662,386 | holds |
| `job_cache` | why can a Redis copy be outdated, and can it stay so? | 764,977 | holds |
| `posts` | how can the counts of a post and its rows part? | 2,534,654 | holds |
| `accounts` | do sign-ups, logins, updates and deletes keep one account per e-mail, on a pool with a leak? | 662,376 | holds |

What the properties say, and what would break them:

* `approvals`: `OneRecordPerCandidate` (a push that looks only at terminal records),
  `ClaimIsALock` (a retake of a slot in flight), `DuplicateOnlyAfterLostAnswer` (a success
  recorded as failed), `RecordIsHonest` (a failure recorded as completed), `NoSlotWithoutResult`
  (no membership check in the window in which the status is completed and the result missing),
  `RefinesOutreachDecision` (a rejected candidate decided again), `EveryClaimSettles` (a final
  write that leaves the state alone).
* `ai_pipeline`: `TypeOK` with its bound on attempts (a find that selects rows at the limit),
  `OneRunPerClaim` (a takeover that does not compare `claimed_at`: two replicas that found one stale
  claim both run), `FinalizedIsTerminal` (the finalize in a `finally`), `CommittedWasDelivered` (a group
  that begins behind the last message), `TerminalIsFinal` (a finalize that releases the claim),
  `QueuedTaskEnds` (a failure that writes no status).
* `applications`: `OneApplicationPerMember` (no unique key), `CountNeverExceeds` (a dirty read in the recompute),
  `CountIsExactUntilRecompute` (an insert without the count), `OfferWasEarned` (a shortcut in the
  transitions), `EverySubmitEnds` (a connection that goes back with its transaction open).
* `connections`: `OneRequestSucceeds` (a table without the unique key), `OnlyRejectsPartTheStores`
  (an accept that mirrors the status it has replaced), `SequentialCallsAgree` (a mirror that writes
  the edge of whatever was decided; the counter of a pair at rest is one if a frontend's accept was
  answered and zero if none was), `DoubleCountNeedsRace` (an accept that may be repeated),
  `AcceptedIsFinal` (a check for `pending` only before a new request).  They are what the code
  does guarantee although no write repeats its check: without a reject all stores agree after any
  race, and with rejects they agree as long as the calls about a pair do not overlap.

* `outbox`: `NothingIsSkipped` (a consumer that logs an error and goes on), `RefinesEventDelivery` (a
  collection without the unique index), `StoredIsCounted` (a poller that gives up a row it cannot
  produce).
* `job_cache`: `OutdatedHasACause` (a close that forgets the searches), `CopiesConverge` (entries
  without a TTL).
* `posts`: `CountNeverExceeds` (a like that is there already counted again), `DriftHasACause` (an
  insert without its count).
* `accounts`: `AnsweredIsKept` (a connection given back without a COMMIT), `OneAccountPerEmail` (a
  Google sign-up that lost the race and answers with its own id), `DeletedTogether` (the details
  erased outside the transaction).

The properties about accounts, counts and copies say what the code guarantees although it is not
what one would wish: each names the causes of a deviation, and TLC shows that there is no other.
`OneAccountPerEmail` excuses a recruiter's row whose second INSERT was refused or never came
(`recruiters.js:51`), e-mails with a delete that has committed or that failed (`members.js:741`: a
later `beginTransaction` on its connection commits what a delete answered 500 has written), and
writes on a leaked transaction; `DeletedTogether` a delete answered 500 and an update that brings no
details; `DriftHasACause` two removals of one row at once (`posts.js:56`); `OutdatedHasACause` a
reader that another write has overtaken between its SELECT and its store, a lost invalidation, a
statement that raised after its write, and a submit, beside the write whose invalidation is still
due.

### Bounds, and why they are enough
* `approvals`: three requests, two candidates, four bodies, two runs of the task.  Three requests
  are a holder, a retry and a late third; a fourth is in no situation the third is not in, since
  a record belongs to one request and R1 and R2 compare records pairwise.  The theorems drop the
  bound.  The two candidates show that one slot does not block the other.  Requests differ in
  their bodies only, so one order of bodies is kept.
* `ai_pipeline`: two tasks, two replicas, two messages in the log, three hand-overs, two attempts, two
  faults.  A duplicate, a message behind another, an old run beside a new one, two drains of one row at
  its last attempt but one, and a former owner that commits late all fit.  There are two starts: one
  task with both faults to spend (the other was refused), or two tasks and one fault, in both with the
  partition assigned.  The bounds on log and deliveries stop the system, hence no deadlock check.
* `applications`: three submits (two that deadlock and one that waits), one job, one older
  application, a close, a recompute; two submits, one of a recruiter (`twin`) with the e-mail of a
  member; three status updates and a submit in a third scenario.  Deadlock is checked: `Terminated` is
  the only state in which nothing else happens.
* `connections`: one pair, since pairs share no state; four requests of six bodies (both askers,
  each decision over each route); one fault.  Two decisions that race need a request before them,
  and the fourth request is the one that comes after the race.  The run about edges has no fault,
  which makes its answer the stronger.  Requests differ in their bodies only, so one order of
  bodies is kept.

* `outbox`: any two of three events are published, one of the Job service and two of Messaging with
  one key; polls of two services, batches of one row so that a row blocks another, three faults: an
  event can be stored, blocked, produced twice and read twice, and be the second with its key.  The two
  messages differ in nothing, so one order of their commits is kept.  The union of the services' tables
  is one table, as in the code.
* `job_cache`: of nine requests any three arrive, in any order, with two faults: a write that
  invalidates, a reader it overtakes, and a third that reads on or writes in between; a lost
  invalidation and a lost connection.
* `posts`, `accounts`: more requests than can arrive.  `MaxSent = 4` of them do, any four, in any order,
  with one fault between them: two requests that race, one that prepared the state and one that
  observes it.  The instances have a request of each kind and a second one of those that race with their
  own kind.  The post that is there has one seeded like without a row.
* `accounts`: two connections, so that one may be leaked and the other used; a member with an
  application, whose delete fails, and one without, who may be a recruiter without a mirror row, whose
  updates replace, remove or keep details, and with whose e-mail others log in and sign up.  Updates
  that remove or keep arrive with requests about these two only (`AboutTheTwo`): what they leave is of no
  concern to the third e-mail.  Symmetric: the connections; the properties are invariants.

### Fairness
Only what runs by itself is fair.  `approvals`: a handler the event loop has started continues
(`pymongo` calls return, the send is cut off after 10 s); neither faults nor the supervisor are
fair.  `ai_pipeline`: the group assigns an orphaned partition, a consumer thread polls and stops
waiting (after 120 s at the latest), a drain that has begun goes on to its end (its database and
broker calls return, and it holds the event loop until then), and every workflow step ends within
`SKILL_TIMEOUT`; beginning a drain, time and requests are not fair.  `applications`: a statement
that need not wait returns, and InnoDB breaks a deadlock at once.  `outbox`: services start, sends
and statements return, timers fire, a broker that is down comes back (faults are bounded), the
consumer is started with its process, and once it has connected it joins and reads on.  A consumer
or a producer that met a broker that was down at its start is not tried again: `StoredIsCounted`
excuses the state in which every service, or the consumer, is off for that reason (`Stranded`), and
speaks of the event's key, since an event whose key was counted for another event never is.
`job_cache`: a request that has begun goes on, and the TTL of an entry passes (300 s and 60 s); no
request has to arrive.  `posts` and `accounts` are about safety.  `connections` has no liveness
property and no fairness: nothing in it waits.

## 4. What is proved

`ApprovalProofs` proves, for every set of requests, candidates, bodies and results and every
`MaxRuns`, from the assumptions of `Approval` (bodies and results have their types, `MaxRuns` is a
natural number):

| theorem | property |
|---|---|
| `TypeCorrect` | `TypeOK` |
| `OneRecord` | `OneRecordPerCandidate` |
| `Lock` | `ClaimIsALock` |
| `NoSilentDuplicate` | `DuplicateOnlyAfterLostAnswer` |
| `HonestRecord` | `RecordIsHonest` |
| `SlotNeedsResult` | `NoSlotWithoutResult` |
| `Refinement` | `RefinesOutreachDecision` |
| `StuckOnlyByFault` | `StuckNeedsAFault`: a candidate stays locked only by a crash or a raised write |
| `HonestReply` | `ReplyIsHonest`: the HTTP answer agrees with the message and the record |
| `FinalStays` | `FinalDecisionStays`: the promise of `OutreachDecision`, carried over to the handler |

A property with a text beside its name is stated in the proof module; no run checks it.

The argument.  None of the properties is inductive: that two handlers are not in their windows
together depends on what the record says while they are.  The invariant `Inv` ties the two
together: a handler between claim and final write owns a record, and that record is in the
in-flight state its action wrote (`send_pending` or `recorded`); a record's other states say what
became of its message; a message of a request that owns no record any more was not confirmed.
From "at most one record per candidate" and "a window owns a record" the lock follows, and from
the lock and the third part the absence of silent duplicates.  `HandlerStep` and `SupervisorStep`
show that each action keeps `Inv`, `Invariance` puts them together, and the refinement uses `Inv`
to map a claim to `Take`, a final write to `Conclude` and every other step to a stutter.
`FinalStays` needs no look at the handlers: `OutreachDecision` never leaves a final state, and the
refinement carries that over.  `Told` follows a request to its answer, on top of `Inv`: a record in
flight outside a window is that of a handler that died or whose final write raised, and each answer
is given at a place where message and record are known.

`ApplicationsProofs`, for every set of jobs, accounts and requests, with finitely many
applications:

| theorem | property |
|---|---|
| `TypeCorrect` | `TypeOK` |
| `OneApplication` | `OneApplicationPerMember` |
| `ApplicantExists` | `ApplicantHasMemberRow`: the foreign key on `members` never refuses an application |
| `OfferEarned` | `OfferWasEarned` |
| `NoPhantom` | `NoPhantomEvent` |
| `CounterIsHonest` | `CountNeverExceeds` |
| `CounterIsExact` | `CountIsExactUntilRecompute` |
| `WaitsEnd` | `NobodyWaitsForEver`: a waiting submit is released, or one it waits for, at most over one other, is |
| `OfferLostToOverlap` | `OfferIsLostToOverlap`: the only cause of the violation of `OfferIsTerminal` |
| `RecruiterLostToAnother` | `RecruiterIsLostToAnother`: the two causes of the violation of `RecruiterIsFound` |
| `TooLateToApply` | a submit that begins after the close stores nothing, for ever |

A snapshot proves nothing about the rows of today, so the duplicate check is not what keeps
applications unique: `UniqueKey` extends the key to the rows that are inserted and not committed
(`Keyed`), `RowsAreCommitted` ties the stored rows to the commits.  `ApplicantIsKnown` says what
does survive from a snapshot: members are never deleted here, so an applicant read from it has a
row, and any other brings the mirror row in its own commit.  `HistoryIsLegal` closes the statuses an
application has had under what an offer needs; a racing update has read one of them.  The counter is
a second invariant on top of the first (`CounterInvariance`): a commit adds one to both the counter
and the cardinality of the job's rows, and `RecomputesAreLate` bounds what a recompute has counted
by the rows there are when it stores it.  `WaitsEnd` is the safety half of `EverySubmitEnds`.  The
exclusive lock on a job shuts out every other (`LocksExclude`), so whoever holds the unique key of a
waiting submit shares the job's lock with it and waits for it in turn: a wait for the key is a
deadlock of two (`RivalsDeadlock`), which InnoDB breaks, and a wait for the job ends at a
transaction that is in one or can go on.  The INSERT of a mirror row may wait for a transaction that
waits itself, but no chain is longer: whoever holds a mirror row is past that INSERT
(`MirrorsAreHeld`), and whoever is at it holds nothing anybody waits for.  `OfferIsLostToOverlap` is
inductive together with "a status update is answered last" (`RepliesAreLast`): the check refuses to
leave "offer", so an update that passed it has read an older status.  `RecruiterLostToAnother` has
two causes, one a race and one not: another submit of the same recruiter stored the row that the old
snapshot does not show, or a member's row has the recruiter's e-mail (`MirrorIsBarred`);
`MirrorsAreSubmitted` says that a row of a recruiter in `members` was stored by a submit of that
recruiter that was answered.  `TooLateToApply` is a stable state (`Refused`): a closed job is not
opened again, and a snapshot of a closed job is refused.

`ConnectionsProofs`, for every set of pairs and requests and every number of faults:

| theorem | property |
|---|---|
| `TypeCorrect` | `TypeOK` |
| `OneRequest` | `OneRequestSucceeds` |
| `StoresAgree` | `OnlyRejectsPartTheStores` |
| `SequentialAgree` | `SequentialCallsAgree` |
| `CountedOnce` | `DoubleCountNeedsRace` |
| `AcceptedStays` | `AcceptedIsFinal` |
| `SuccessIsKept` | `SuccessStays`: an answered or published success stays true until a reject |
| `LeftEdgeIsRaced` | `LeftEdgeNeedsRejectInRace`: the only cause of the violation of `EdgesAreAccepted` |

No write is guarded, so nothing follows from the row alone: `Inv` says what a handler has `Seen`,
and then has one part for each of two worlds.  While no reject has passed its check (`OneWinner`,
`Lasting`, `EdgesFollow`) an accepted row stays accepted and has its edge or an accept that still
owes it.  While the handlers of a pair do not overlap (`OneAtATime`) the one under way has read the
row as it is.  `Lockstep`, on top of `Inv`, follows the edge through a decision in the second world,
and `Tallied` the counter: while the handlers of a pair follow one another, it has been raised if
and only if a frontend's accept has got past the raise or was answered, and never twice.
`AcceptedStays` is an action property, from `Inv` and one lemma about the commit.  `SuccessIsKept` is
about the first world: without a reject no step takes a row, an accepted status, an edge or a count
back (`NothingGivenBack`), so it is enough that each is there when the request is answered;
`HalfDone` follows the frontend's accept there.

`AiPipelineProofs`, for every set of tasks and replicas and every bound on log, deliveries and faults:

| theorem | property |
|---|---|
| `TypeCorrect` | `TypeOK` |
| `OneRun` | `OneRunPerClaim` |
| `Finalized` | `FinalizedIsTerminal` |
| `TerminalStays` | `TerminalIsFinal` |
| `NothingSkipped` | `CommittedWasDelivered`: no offset is committed over a message never handed over |
| `CommitsForward` | `BackOnlyToATwin`: the committed offset goes back only by a former owner's late commit, to a message handed over twice |
| `QueuedIsHeld` | `QueuedTaskIsHeld`: a queued task has ended, met a fault, is run or is still to come |
| `LeakNeedsAFault` | `RunningIsWorkedOn`: the only causes of the violation of `RunningTaskIsAlive` |

`TypeCorrect` bounds the attempts of a row although find, produce and `$inc` are steps of their own: a
row's attempts and the drains that have yet to count one together do not exceed `MAX_ATTEMPTS - 1` and
the number of replicas (`Bounded`, with `Holders`), since a find selects a row below the limit and a
replica has one drain.

The number of runs is a cardinality over deliveries, so `Counted` ties three numbers together: a
task has at most as many runs as it has been claimed, and at most as many claims as deliveries that
have seen the ledger.  A takeover compares the `claimed_at` that its find has read, so there are no
more of them than claims that have aged.  That bounds the takeovers and gives `OneRun`.  `FirstRun`
is about a task whose claim nobody has taken over: there is one run, the status is what a run at its
place has written, and the key is finalized after it.  From there a redelivery that reaches the
`upsert` of a terminal task would be a second run of a first claim.  The last four rest on a second
invariant, `Tracked`: every message up to the position has a delivery (`Fetched`; so what a former
owner commits late was handed over, and if it lies behind the committed offset it was handed over
again, which is `CommitsForward`), and `FateOf(t)` says of a delivered task where its deliveries are
if it has not ended.  `QueuedIsHeld` is the safety half of `QueuedTaskEnds`: a task can only be lost
in a write or a run that failed.

`OutboxProofs`, for every set of events, services and polls, every batch size and number of faults:

| theorem | property |
|---|---|
| `TypeCorrect` | `TypeOK` |
| `NoneSkipped` | `NothingIsSkipped`: what the consumer passes is counted, itself or another event with its key |
| `Refinement` | `RefinesEventDelivery` |
| `Accounted` | `EventAccounted`: no event disappears without a fault |
| `OneDocument` | `CountedOnce`: at most one row per event and one document per key, and none unpublished |

`NothingIsSkipped` is inductive once it is known that the row whose mark is due is on the broker
(`ProducedIsLogged`) and that position and committed offset stay within the log (`WithinLog`).  The
refinement needs its unique index: an event is counted when its first copy is ingested and no event
with its key was counted before, and every other step is a stutter of `EventDelivery`.  Nothing is
assumed of `KeyOf`.  `Where` adds what a producer's place says of its event
(in the table, on the broker, nowhere yet, lost in a fault); it is the part that the refinement,
which speaks of accepted events only, leaves open.

`JobCacheProofs`, for every set of jobs and requests and every number of faults:

| theorem | property |
|---|---|
| `TypeCorrect` | `TypeOK` |
| `OutdatedCaused` | `OutdatedHasACause` |
| `NoCopyAhead` | `CopiesAreOlder`: no copy, and no reader about to store one, is ahead of MySQL but in applicants |

A write owes an invalidation, so the argument is a ledger of debts: `EntryCause` and `SearchCause`
say that a copy is as MySQL has it, is suspect, or has a write whose invalidation is due.  `Unread`
carries the create, which invalidates no entry: its job has none, since nobody can name it before it
is answered.  A counter's write needs no invalidation of searches because it leaves the texts alone
(`WrittenRow`, `SameTexts`).  That a reader stores something stale is not
taken as its own cause: `NotOvertaken` says that what a reader holds is what MySQL has unless a write
came between, and `overtaken` is set by the write.  How an outdated copy may differ is the other half:
`Older` orders the rows a job can have by status, text and views, every statement goes up in it
(`RowStep`; a create draws a fresh job, `Fresh`), and what is stored in Redis was read from a row or is
a copy that is there already (`CopySources`).  `applicants_count` is not in the order: a recompute may
lower it, and a copy then shows more applicants than the row.

`PostsProofs`, for every set of posts, keys and requests and every number of faults:

| theorem | property |
|---|---|
| `TypeCorrect` | `TypeOK` |
| `NeverExceeds` | `CountNeverExceeds` |
| `DriftCaused` | `DriftHasACause` |
| `LateRowsOnly` | `OnlyLateRowsAreLeft`: a deleted post leaves no row it had from before |
| `CommentIsKept` | `CommentStays`: only its author or a delete of its post takes a comment away |

`Bounded` holds the count, less what a seed has put on it, between the rows and the rows less the
removals that missed; a step that
adds or removes a row moves both sides by what `Knows` says of the open transaction, and `Exclusive`
(a row is changed by one open transaction at a time) makes what it knows stay true.  `Caused` names,
for a removal that will miss, the one that took the row: it has to be established when the row goes,
before the count is wrong.  `After`, on top of `Inv`, is about the posts `Bounded` leaves out: a
delete empties the comments and the likes of a post one after the other, and what comes in between
was stored by a request of its own (`Brought`); a comment's key is drawn once, so only a removal that
has found the row, and that `AuthorsOnly` ties to the author, can have taken it.

`AccountsProofs`, for every set of accounts, requests and connections and every number of faults:

| theorem | property |
|---|---|
| `TypeCorrect` | `TypeOK` |
| `Answered` | `AnsweredIsKept` |
| `OneAccount` | `OneAccountPerEmail` |
| `GoneTogether` | `DeletedTogether` |
| `LeakHasACause` | `Left`: a transaction without a keeper was left open by a delete answered 500 |

The difficulty is that a connection may have a transaction that nobody keeps, and that a later
`beginTransaction` commits.  `Guarded` says what such a commit can replace: a pending row of
`members` stands over an existing account or over none, never over one created here, because the
unique key was checked when it was written and the row has been locked since (`Exclusive`).  `Owes`
is the row a sign-up has pending at its COMMIT, `Fresh` that a login is not answered with an id it
drew itself, and `Left` that an open transaction without a keeper was left by a failed delete.
`Together` orders what a transaction has written of one account: it takes the member away only after
its details, replaces details only under a member, and brings a member back only in an update that
brings the details as well or is the reason why there are none (`PendingOf`, `Bares`); the row of
the details is what an update and a delete wait for each other on.  `Named` says of an e-mail
without an excuse that its rows, once written, stay, that older snapshots miss them at most, and
that they hold every account answered for it; a pending row belongs to the request that keeps the
connection, so what a leaked transaction hides from a login is the excuse.  Every action is one of
seven kinds (`RollsBackStep`, `LeaksStep`, `BeginStep`, `InsideStep`, `OutsideReadStep`,
`OutsideWriteStep`, `CommitStep`), for each of which `StepInv` collects what is to be shown.

The invariants, and the properties that no run lists, were model-checked on the instances of section
3 before they were proved.

Seven of the theorems say more than a run can show.  Each of the four runs that expect a violation is
joined by the cause of it: `LeakNeedsAFault`, `OfferLostToOverlap`, `RecruiterLostToAnother` and
`LeftEdgeIsRaced` prove what every behaviour that breaks the comment or the page has in it: a fault,
another handler on the same row, or another member with the recruiter's e-mail.  `StuckOnlyByFault`,
`QueuedIsHeld` and `WaitsEnd` are the safety halves of `EveryClaimSettles`, `QueuedTaskEnds` and `EverySubmitEnds`:
they say in which states the system may stay, for all values of the constants, where the run says
that fair steps leave them.

Only model-checked:

* the liveness properties `EveryClaimSettles`, `QueuedTaskEnds`, `EverySubmitEnds`, `StoredIsCounted`
  and `CopiesConverge`: liveness under fairness is out of the prover's reach;
* what `EventDelivery` promises beyond its actions: the refinement is proved, and of the two abstract
  specifications only the promise of `OutreachDecision` is stated as a theorem (`FinalStays`);
* the four violations, which are traces of one instance.

## 5. Hazards
`PROJECT.json` ("hazards") lists what is hard to test in this code at the line where it bites, with
the properties that watch it.  A hazard without a property says why: the code neither prevents nor
promises anything there, or the part is not modelled.

## 6. Disagreements between the code and its comments
* **A crash can leave a task running for ever** (`ai_claim_leak`): a redelivery within 300 s of the
  crashed run's claim is skipped *and committed*, so the takeover of the stale claim, which
  `db.py:117-120` relies on, has no message left to happen on.
* **An offer is not terminal** (`offer_not_terminal`): the status is checked before and written
  after another update's write (`application/src/app.js:377-389`, `246`), against `app.js:14`.
* **A recruiter may be told that they do not exist** (`recruiter_not_found`): the row a concurrent
  submit inserted is re-read in the old snapshot (`application/src/app.js:67`), against
  `app.js:38-39`.  There is a second cause that needs no race: `members.email` is unique
  (`data/schema.sql:8`), so the mirror row of a recruiter with another member's e-mail is refused every
  time.  `RecruiterLostToAnother` proves that there is no third; the run's recruiter has an e-mail of
  their own and shows the race.
* **A rejected pair may keep its edge** (`edge_of_rejected`): an accept and a reject race, and the
  accept's upsert comes after the reject's delete (`connection/routers/connections.py:283`), against
  `docs/data-storage-justification.md:29`.  The two members are then listed as connected.

Met while modelling, and not given a run of their own:

* `ai-agent/src/main.py:1089-1091` calls a final write that fails after a confirmed send "the narrow
  residual window where a subsequent retry could cause a duplicate send".  The code is safer than
  the comment: the slot stays `send_pending`, which neither R1 nor R2 takes, so every later approval
  is answered 409.  What remains is a candidate that stays locked (`StuckOnlyByFault`), not a second
  message: `DuplicateOnlyAfterLostAnswer` holds with such writes among the faults, and the window of
  a duplicate is another one, a send whose answer is lost.  The comment says what *could* be, which
  no counterexample refutes; hence no run.
* `ai-agent/src/outbox_poller.py:7-9` says that after `MAX_ATTEMPTS` failed deliveries a row is
  flagged as `permanent_failure`.  With two replicas it may not be: each reads `attempts` below the
  last one, both count a failure, neither sets the flag, and the row is at the limit and selected no
  more; or it goes over the limit (`AttemptsBound`).
* `ai-agent/src/kafka_consumer.py:4-6` says that offsets "are committed only *after* the task has been
  written to MongoDB (at-least-once with idempotent processing)", and logs at `120` "offset NOT committed;
  will redeliver".  The loop does not seek back, so the commit of the next message covers the one that
  raised or timed out; it is redelivered only if the replica stops, or loses the partition, before that
  commit.  What holds is `CommittedWasDelivered`: every message committed over had a run.
* `analytics/src/kafka/consumer.js:104` takes a duplicate key for a redelivery ("idempotent skip"),
  but the Python services give different events one key: the second message of a sender in a thread
  is published, passed, committed and never counted.  `EventDelivery` is stated for keys, and
  `messaging/outbox_poller.py:4` ("Ensures no Kafka message is ever permanently lost") holds at most
  of them.
* `docs/diagrams.md:236` draws the outbox row into the same transaction as the change ("broker DOWN,
  same TX"); `publishOrOutbox` inserts it after the commit, on a connection of its own, and callers
  swallow its errors.  `Outbox` has the code's order (`Crash` at `committed`, `StoreFails`).
* `data/schema.sql:193` lets `post_likes` "drive" `reactions_count`; the counter may fall below the
  rows (`DriftHasACause` says when).
* `handleDeleteMember` (`profile/src/routes/members.js:727-743`) rolls back only its own 404.  A member
  with an application cannot be deleted, and each attempt leaves a connection in a transaction whose
  snapshot, locks and later writes belong to nobody (`Leaks`; the excuses of `Accounts`' properties).
* `POST` and `GET /jobs/search` use one cache key for results of different shapes (`jobs.js:565`,
  `690`: `results` and `page_size` against `items` and `limit`), so one route may answer with the
  other's shape.  The copies' contents, not their shapes, are in `JobCache`.
* The query of `messaging/outbox_poller.py` compares a Boolean column with the string `"false"`, and its
  container does not start it.

## 7. Not modelled
* The skills, the evaluation script, the analytics queries: pure functions on text and floating
  point; nothing depends on their state.
* The in-memory variants of the services: one process, no interleaving between statements.
* The frontend, the data scripts, the infrastructure: no protocol of their own.
* Messaging's threads, read marks and presence: thread creation is a check and an insert that
  nothing protects and nothing repairs; its events and its answers to the AI agent are in `Outbox`
  and `Approval`.
* `POST /ai/retry` and the progress stream of `ai.results`: a retry is a new task; the stream keeps
  nothing that another part reads.
* Read-only routes everywhere, media uploads, and the Redis copies of members, which follow the
  pattern of `JobCache`.
* InnoDB's gap locks: they make statements wait that the models let through, which adds no state.
* Texts, identifiers, times, HTTP wording, logging and metrics everywhere.

## 8. Plan
Written: 1 `OutreachDecision`, `Approval` and its proofs; 2 `AiPipeline`; 3 `Applications` and its
proofs; 4 `Connections` and its proofs; 5 `EventDelivery` and `Outbox`; 6 `JobCache`; 7 `Posts`;
8 `Accounts`; 9 the proofs of 2 and of 5 to 8; 10 what answers, events and committed offsets promise,
the causes of the four violations and the safety halves of three liveness properties, as theorems; 11 a
finer grain and more inputs: drains, claims and late commits in `AiPipeline`, mirror rows and e-mails in
`Applications`, repeated keys and the single start of the consumer in `Outbox`, absolute counts and
failing statements in `JobCache`, seeded counts in `Posts`, partial updates in `Accounts`.  Open:

* Messaging's threads and read marks, with one thread per pair as the property that the code does not
  keep;
* `POST /ai/retry` as a second way into `AiPipeline`, and the WebSocket's catch-up read against the
  live frames of `ai.results`;
* saved jobs;
* a second run of the seed against live posts;
* the consumer that bridges connection events to analytics;
* as a theorem: that no lock of `Accounts` is waited for for ever.
