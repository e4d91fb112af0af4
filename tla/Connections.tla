------------------------------ MODULE Connections ------------------------------
(***************************************************************************)
(* Requesting, accepting and rejecting a connection, through the routes    *)
(* the frontend calls and through the REST routes.  The state of a pair of *)
(* members is one row of the MySQL table connections (the pair is stored   *)
(* in order and has a unique key); accepted pairs are mirrored as edges of *)
(* a MongoDB collection, which lists and mutual connections are read from; *)
(* the counters of both members are a third write.                         *)
(*                                                                         *)
(* The routes are synchronous functions that FastAPI runs in threads, on   *)
(* any number of processes.  Each reads the row, checks it and writes it   *)
(* back without a condition, in a transaction at REPEATABLE READ, then     *)
(* reads it again and does the other writes.  A write to the counters, to  *)
(* MongoDB or to Kafka may fail, which is only logged; a commit may raise  *)
(* although it took effect; the process may stop.  Rows are never deleted. *)
(***************************************************************************)
EXTENDS Naturals, FiniteSets

CONSTANTS
    Pairs,        \* unordered pairs of members
    Requests,     \* HTTP requests
    Bodies,       \* what they are: [pair, kind, rest, by]; by is the member who asks
    MaxFaults     \* bound: calls that fail and processes that stop

Kinds == {"ask", "accept", "reject"}
Sides == {"a", "b"}              \* the smaller and the greater member of a pair

ASSUME BodiesAssumption ==
    Bodies \subseteq [pair : Pairs, kind : Kinds, rest : BOOLEAN, by : Sides]
ASSUME MaxFaultsAssumption == MaxFaults \in Nat

VARIABLES
    body,          \* body[r]: what request r is
    row,           \* connections.status, "none" without a row
    requestedBy,   \* connections.requested_by
    edge,          \* pairs with a document in MongoDB
    counted,       \* counted[p]: what accepts of p added to both connections_counts
    at,            \* at[r]: where the handler of r is
    seen,          \* seen[r]: the row as r last read it: [status, by]
    reply,         \* reply[r]: HTTP status answered, 0 while there is none
    published,     \* requests whose event Kafka has
    overlapped,    \* history: pairs about which two handlers were under way at once
    faulty,        \* history: pairs about which a call failed or a handler stopped
    rejecting,     \* history: pairs about which a reject passed its check
    faults         \* how many faults have happened

vars == <<body, row, requestedBy, edge, counted, at, seen, reply, published,
          overlapped, faulty, rejecting, faults>>
stores  == <<row, requestedBy, edge, counted>>
history == <<overlapped, rejecting>>

Statuses == {"none", "pending", "accepted", "rejected"}
Places   == {"new", "read", "committed", "refreshed", "mirrored", "counted", "answered", "stopped"}

TypeOK ==
    /\ body \in [Requests -> Bodies]
    /\ row \in [Pairs -> Statuses]
    /\ requestedBy \in [Pairs -> Sides \cup {"none"}]
    /\ \A p \in Pairs : requestedBy[p] = "none" <=> row[p] = "none"
    /\ edge \in SUBSET Pairs
    /\ counted \in [Pairs -> Nat]
    /\ at \in [Requests -> Places]
    /\ seen \in [Requests -> [status : Statuses, by : Sides \cup {"none"}]]
    /\ reply \in [Requests -> {0, 200, 201, 400, 404, 409, 500}]
    /\ published \in SUBSET Requests
    /\ overlapped \in SUBSET Pairs
    /\ faulty \in SUBSET Pairs
    /\ rejecting \in SUBSET Pairs
    /\ faults \in 0..MaxFaults

Unread == [status |-> "none", by |-> "none"]

Init ==
    /\ body \in [Requests -> Bodies]
    /\ row = [p \in Pairs |-> "none"]
    /\ requestedBy = [p \in Pairs |-> "none"]
    /\ edge = {}
    /\ counted = [p \in Pairs |-> 0]
    /\ at = [r \in Requests |-> "new"]
    /\ seen = [r \in Requests |-> Unread]
    /\ reply = [r \in Requests |-> 0]
    /\ published = {}
    /\ overlapped = {} /\ faulty = {} /\ rejecting = {}
    /\ faults = 0

-------------------------------------------------------------------------------
(* Vocabulary.                                                             *)

Pair(r)     == body[r].pair
IsAsk(r)    == body[r].kind = "ask"
UnderWay(r) == at[r] \notin {"new", "answered", "stopped"}
Quiet(p)    == \A r \in Requests : Pair(r) = p => ~UnderWay(r)

RowOf(p) == [status |-> row[p], by |-> requestedBy[p]]

\* The status a decision writes.
Decided(r) == IF body[r].kind = "accept" THEN "accepted" ELSE "rejected"

Goto(r, place) == at' = [at EXCEPT ![r] = place] /\ UNCHANGED reply

Answer(r, code) ==
    /\ at' = [at EXCEPT ![r] = "answered"]
    /\ reply' = [reply EXCEPT ![r] = code]

Succeed(r) == Answer(r, IF body[r].rest /\ IsAsk(r) THEN 201 ELSE 200)

NoFault  == UNCHANGED <<faulty, faults>>
Fault(r) ==
    /\ faults < MaxFaults /\ faults' = faults + 1
    /\ faulty' = faulty \cup {Pair(r)}

-------------------------------------------------------------------------------
(* The steps of a handler.                                                 *)

\* Mutant: only a pending request is in the way of a new one.
EarlyAnswerToPending(r, status) ==
    IF IsAsk(r) THEN IF status = "pending" THEN 409 ELSE 0
    ELSE IF status = "none" THEN 404
    ELSE IF status = "pending" THEN 0
    ELSE IF body[r].rest /\ status = Decided(r) THEN 200
    ELSE 400

\* Mutant: accepting an accepted request again is not refused.
EarlyAnswerButRepeats(r, status) ==
    IF IsAsk(r) THEN IF status \in {"accepted", "pending"} THEN 409 ELSE 0
    ELSE IF status = "none" THEN 404
    ELSE IF status \in {"pending", Decided(r)} THEN 0
    ELSE 400

\* What a request is answered if the row has this status; 0 if it goes on.
EarlyAnswer(r, status) ==
    IF IsAsk(r) THEN IF status \in {"accepted", "pending"} THEN 409 ELSE 0
    ELSE IF status = "none" THEN 404
    ELSE IF status = "pending" THEN 0
    ELSE IF body[r].rest /\ status = Decided(r) THEN 200
    ELSE 400

\* The row is read and checked.
Read(r) ==
    LET p == Pair(r)
        early == EarlyAnswer(r, row[p]) IN
    /\ at[r] = "new"
    /\ seen' = [seen EXCEPT ![r] = RowOf(p)]
    /\ IF early # 0 THEN Answer(r, early) ELSE Goto(r, "read")
    /\ overlapped' = IF early # 0 \/ Quiet(p) THEN overlapped ELSE overlapped \cup {p}
    /\ rejecting' = IF early = 0 /\ body[r].kind = "reject" THEN rejecting \cup {p} ELSE rejecting
    /\ UNCHANGED <<body, stores, published>> /\ NoFault

\* Mutant: the table has no unique key.
AnyKey(p) == TRUE

\* The unique key of the pair has no row.
FreeKey(p) == row[p] = "none"

\* Mutant: an insert leaves out who asks.
WrittenWithoutRequester(r) ==
    LET p == Pair(r) IN
    /\ row' = [row EXCEPT ![p] = IF IsAsk(r) THEN "pending" ELSE Decided(r)]
    /\ UNCHANGED requestedBy

\* The commit's effect.  SQLAlchemy writes the columns whose value differs from the one
\* it has read: the status always, requested_by only if another member asks now.
Written(r) ==
    LET p == Pair(r) IN
    IF IsAsk(r)
    THEN /\ row' = [row EXCEPT ![p] = "pending"]
         /\ requestedBy' = IF seen[r].by = body[r].by THEN requestedBy
                           ELSE [requestedBy EXCEPT ![p] = body[r].by]
    ELSE /\ row' = [row EXCEPT ![p] = Decided(r)]
         /\ UNCHANGED requestedBy

Conflicts(r) == IsAsk(r) /\ seen[r].status = "none" /\ ~FreeKey(Pair(r))

\* db.commit(): the row is written whatever it is by now.
Write(r) ==
    /\ at[r] = "read"
    /\ ~Conflicts(r)
    /\ Written(r)
    /\ IF IsAsk(r) /\ body[r].rest THEN Succeed(r) ELSE Goto(r, "committed")
    /\ UNCHANGED <<body, edge, counted, seen, published, history>> /\ NoFault

\* IntegrityError: another request has inserted the pair's row: 500.
WriteConflicts(r) ==
    /\ at[r] = "read"
    /\ Conflicts(r)
    /\ Answer(r, 500)
    /\ UNCHANGED <<body, stores, seen, published, history>> /\ NoFault

\* The commit raises, and the row is written or not: 500.
WriteFails(r) ==
    /\ at[r] = "read"
    /\ ~Conflicts(r)
    /\ Written(r) \/ UNCHANGED <<row, requestedBy>>
    /\ Answer(r, 500)
    /\ Fault(r)
    /\ UNCHANGED <<body, edge, counted, seen, published, history>>

\* db.refresh() reads the row again, in a new transaction.
Refresh(r) ==
    /\ at[r] = "committed"
    /\ ~IsAsk(r)
    /\ seen' = [seen EXCEPT ![r] = RowOf(Pair(r))]
    /\ Goto(r, "refreshed")
    /\ UNCHANGED <<body, stores, published, history>> /\ NoFault

\* Mutant: the mirror writes the edge of whatever was decided.
MirroredAlways(r) == edge \cup {Pair(r)}

\* Mutant: an accept mirrors the status it has replaced.
MirroredStale(r) ==
    IF body[r].kind = "reject" THEN edge \ {Pair(r)}
    ELSE IF seen[r].status = "pending" THEN edge \cup {Pair(r)} ELSE edge

\* An accept upserts the edge if the row it has read again is accepted; a reject deletes
\* it in any case.
Mirrored(r) ==
    IF body[r].kind = "reject" THEN edge \ {Pair(r)}
    ELSE IF seen[r].status = "accepted" THEN edge \cup {Pair(r)} ELSE edge

\* The write to MongoDB, whose failure is logged.
Mirror(r) ==
    /\ at[r] = "refreshed"
    /\ \/ edge' = Mirrored(r) /\ NoFault
       \/ UNCHANGED edge /\ Fault(r)
    /\ IF body[r].rest /\ body[r].kind = "accept" THEN Succeed(r) ELSE Goto(r, "mirrored")
    /\ UNCHANGED <<body, row, requestedBy, counted, seen, published, history>>

\* Both counters, in one UPDATE; only the frontend's accept counts.
CountUp(r) ==
    /\ at[r] = "mirrored"
    /\ body[r].kind = "accept"
    /\ \/ counted' = [counted EXCEPT ![Pair(r)] = @ + 1] /\ NoFault
       \/ UNCHANGED counted /\ Fault(r)
    /\ Goto(r, "counted")
    /\ UNCHANGED <<body, row, requestedBy, edge, seen, published, history>>

\* The event is handed to Kafka, or not: produce only answers False.
Publish(r) ==
    /\ \/ IsAsk(r) /\ at[r] = "committed"
       \/ body[r].kind = "reject" /\ at[r] = "mirrored"
       \/ at[r] = "counted"
    /\ \/ published' = published \cup {r} /\ NoFault
       \/ UNCHANGED published /\ Fault(r)
    /\ Succeed(r)
    /\ UNCHANGED <<body, stores, seen, history>>

\* The process stops, or the second read raises.
Stop(r) ==
    /\ UnderWay(r)
    /\ Goto(r, "stopped")
    /\ Fault(r)
    /\ UNCHANGED <<body, stores, seen, published, history>>

Handle(r) ==
    \/ Read(r) \/ Write(r) \/ WriteConflicts(r) \/ Refresh(r) \/ Mirror(r) \/ CountUp(r)
    \/ Publish(r)

-------------------------------------------------------------------------------
Terminated ==
    /\ \A r \in Requests : at[r] \in {"answered", "stopped"}
    /\ UNCHANGED vars

Next ==
    \/ \E r \in Requests : Handle(r) \/ WriteFails(r) \/ Stop(r)
    \/ Terminated

Spec == Init /\ [][Next]_vars

-------------------------------------------------------------------------------
(* Properties.                                                             *)

\* Two first requests of a pair, whoever asks whom, never both succeed: the second one
\* finds the row, or the unique key does.  (A rejected pair may be asked for again.)
OneRequestSucceeds ==
    \A q, r \in Requests :
        /\ IsAsk(q) /\ IsAsk(r) /\ Pair(q) = Pair(r) /\ Pair(q) \notin rejecting
        /\ reply[q] \in {200, 201} /\ reply[r] \in {200, 201}
        => q = r

\* Without a reject the two stores agree as soon as nobody works on the pair, however many
\* requests and accepts have raced: the second read of an accept decides about the edge.
OnlyRejectsPartTheStores ==
    \A p \in Pairs \ (rejecting \cup faulty) :
        Quiet(p) => (p \in edge <=> row[p] = "accepted")

\* r is a frontend's accept that was answered: the only route that counts a connection.
AcceptedInFrontend(r) == body[r].kind = "accept" /\ ~body[r].rest /\ reply[r] = 200

\* Requests that follow one another keep all three stores in step, rejects included: an
\* edge for an accepted pair and no other; and an accepted pair is counted exactly once if
\* the accept was the frontend's, and not at all if it was the REST route's.
SequentialCallsAgree ==
    \A p \in Pairs \ (overlapped \cup faulty) :
        Quiet(p) =>
            /\ p \in edge <=> row[p] = "accepted"
            /\ counted[p] > 0 => row[p] = "accepted"
            /\ counted[p] = IF \E r \in Requests : Pair(r) = p /\ AcceptedInFrontend(r)
                            THEN 1 ELSE 0

\* A pair is counted twice only if two handlers worked on it at once; a commit that
\* raised, or a process that stopped, never makes a later accept count again.
DoubleCountNeedsRace == \A p \in Pairs \ overlapped : counted[p] <= 1

\* An accepted connection is never undone by a request that comes later; only one that
\* was under way when it was accepted can do that.
AcceptedIsFinal ==
    [][\A p \in Pairs : row[p] = "accepted" /\ row'[p] # "accepted" => p \in overlapped]_vars

\* The storage guide says "MongoDB only stores edges once they become accepted (and
\* deletes on reject)": no edge is left for a pair that is not accepted.
EdgesAreAccepted ==
    \A p \in Pairs \ faulty : Quiet(p) /\ p \in edge => row[p] = "accepted"
===============================================================================
