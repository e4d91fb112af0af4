----------------------------- MODULE Applications -----------------------------
(***************************************************************************)
(* Job applications: the Application service submits applications and      *)
(* updates their status, the Job service closes jobs and recomputes        *)
(* applicants_count, all on one MySQL database.                            *)
(*                                                                         *)
(* A submit is one InnoDB transaction at REPEATABLE READ.  Its plain       *)
(* SELECTs read the snapshot of the first one; its INSERT and UPDATE read  *)
(* and lock the current rows.  The foreign key of applications.job_id      *)
(* makes the INSERT take a shared lock on the jobs row, which the UPDATE   *)
(* of applicants_count then needs exclusively: two submits to one job can  *)
(* deadlock, and InnoDB rolls one of them back.  The other statements run  *)
(* with autocommit.  Texts, ids and times are left out, and so are the     *)
(* job's Redis copy and the events other than application.submitted.       *)
(***************************************************************************)
EXTENDS Naturals, FiniteSets

CONSTANTS
    Jobs,
    Members,       \* accounts with a row in members from the start
    Recruiters,    \* accounts with a row in recruiters only
    NoOne,         \* no account, and no e-mail
    Emails,        \* e-mail addresses
    EmailOf,       \* the e-mail of an account: unique in members, and unique in recruiters
    Existing,      \* applications stored before the first request
    ExistingOf,    \* their job and applicant: [job, member]
    Submits,       \* submit requests; each draws a fresh application_id, named by the request
    SubmitBodies,  \* what they send: [job, member, email]
    Closes,        \* requests to close a job
    Recomputes,    \* /jobs/incrementApplicants requests
    Updates,       \* status update requests
    UpdateBodies   \* what they send: [application, status]

Accounts == Members \cup Recruiters
Apps     == Existing \cup Submits
Requests == Submits \cup Closes \cup Recomputes \cup Updates
Statuses == {"submitted", "reviewing", "interview", "offer", "rejected"}

ASSUME AccountsAssumption == Members \cap Recruiters = {} /\ NoOne \notin Accounts
ASSUME EmailsAssumption ==
    /\ EmailOf \in [Accounts -> Emails] /\ NoOne \notin Emails
    /\ \A m, n \in Members : EmailOf[m] = EmailOf[n] => m = n
    /\ \A m, n \in Recruiters : EmailOf[m] = EmailOf[n] => m = n
ASSUME AppsAssumption == IsFiniteSet(Apps) /\ Existing \cap Submits = {}
ASSUME RequestsAssumption ==
    /\ Submits \cap (Closes \cup Recomputes \cup Updates) = {}
    /\ Closes \cap (Recomputes \cup Updates) = {}
    /\ Recomputes \cap Updates = {}
ASSUME ExistingAssumption ==
    /\ ExistingOf \in [Existing -> [job : Jobs, member : Members]]
    /\ \A a, b \in Existing : ExistingOf[a] = ExistingOf[b] => a = b
ASSUME BodiesAssumption ==
    /\ SubmitBodies \subseteq [job : Jobs, member : Accounts, email : Emails \cup {NoOne}]
    /\ UpdateBodies \subseteq [application : Apps, status : Statuses]

VARIABLES
    arriving,     \* the requests that clients send
    sent,         \* sent[r]: what submit r sends
    ordered,      \* ordered[u]: what status update u sends
    target,       \* target[x]: the job of close or recompute x
    jobStatus,    \* jobs.status
    count,        \* jobs.applicants_count
    memberRows,   \* accounts with a row in members
    row,          \* row[a]: status of application a, "none" while it is not committed
    visited,      \* visited[a]: every status a has had (history)
    at,           \* at[r]: where request r is
    reply,        \* reply[r]: HTTP status answered, 0 while there is none
    snapshot,     \* snapshot[r]: what the transaction of submit r can read
    applicant,    \* applicant[r]: the account submit r applies for
    mirrors,      \* submits that inserted their recruiter's members row, not yet committed
    total,        \* total[x]: what recompute x counted
    event         \* event[r]: the event submit r publishes after its commit

vars == <<arriving, sent, ordered, target, jobStatus, count, memberRows, row, visited,
          at, reply, snapshot, applicant, mirrors, total, event>>
inputs == <<arriving, sent, ordered, target>>
tables == <<jobStatus, count, memberRows, row, visited>>
locals == <<snapshot, applicant, mirrors, total>>

Snapshots   == [open : BOOLEAN, applied : SUBSET Accounts, members : SUBSET Accounts]
NoSnapshot  == [open |-> FALSE, applied |-> {}, members |-> {}]
Places      == {"new", "began", "mirroring", "checked", "linked", "inserted", "counted", "read",
                "answered", "crashed"}
Keeping     == {"checked", "linked", "inserted", "counted"}  \* past every read
EventStates == {"none", "pending", "out", "lost"}

JobOf(a)       == IF a \in Existing THEN ExistingOf[a].job ELSE sent[a].job
ApplicantOf(a) == IF a \in Existing THEN ExistingOf[a].member ELSE applicant[a]
stored         == {a \in Apps : row[a] # "none"}
RowsOf(j)      == {a \in stored : JobOf(a) = j}

TypeOK ==
    /\ arriving \in SUBSET Requests
    /\ sent \in [Submits -> SubmitBodies]
    /\ ordered \in [Updates -> UpdateBodies]
    /\ target \in [Closes \cup Recomputes -> Jobs]
    /\ jobStatus \in [Jobs -> {"open", "closed"}]
    /\ count \in [Jobs -> Nat]
    /\ memberRows \in SUBSET Accounts
    /\ row \in [Apps -> Statuses \cup {"none"}]
    /\ visited \in [Apps -> SUBSET Statuses]
    /\ at \in [Requests -> Places]
    /\ reply \in [Requests -> {0, 200, 201, 400, 404, 409, 500}]
    /\ snapshot \in [Submits -> Snapshots]
    /\ applicant \in [Submits -> Accounts \cup {NoOne}]
    /\ \A r \in Submits : at[r] \in Keeping => applicant[r] # NoOne
    /\ mirrors \in SUBSET Submits
    /\ total \in [Recomputes -> Nat]
    /\ event \in [Submits -> EventStates]

\* The statuses on the way to s of an application stored before the first request.
Past(s) ==
    {s, "submitted"} \cup (IF s \in {"interview", "offer"} THEN {"reviewing"} ELSE {})
                     \cup (IF s = "offer" THEN {"interview"} ELSE {})

\* Every job starts with the count of its applications (the benchmark's seed, which draws
\* the counts at random, is in JobCache).
Init ==
    /\ arriving \in SUBSET Requests
    /\ sent \in [Submits -> SubmitBodies]
    /\ ordered \in [Updates -> UpdateBodies]
    /\ target \in [Closes \cup Recomputes -> Jobs]
    /\ jobStatus = [j \in Jobs |-> "open"]
    /\ count = [j \in Jobs |-> Cardinality({a \in Existing : ExistingOf[a].job = j})]
    /\ memberRows = Members
    /\ \E s \in [Existing -> Statuses] :
          /\ row = [a \in Apps |-> IF a \in Existing THEN s[a] ELSE "none"]
          /\ visited = [a \in Apps |-> IF a \in Existing THEN Past(s[a]) ELSE {}]
    /\ at = [r \in Requests |-> "new"]
    /\ reply = [r \in Requests |-> 0]
    /\ snapshot = [r \in Submits |-> NoSnapshot]
    /\ applicant = [r \in Submits |-> NoOne]
    /\ mirrors = {}
    /\ total = [x \in Recomputes |-> 0]
    /\ event = [r \in Submits |-> "none"]

Arrives(r) == r \in arriving /\ at[r] = "new"

Goto(r, place) == at' = [at EXCEPT ![r] = place] /\ UNCHANGED reply

Answer(r, code) ==
    /\ at' = [at EXCEPT ![r] = "answered"]
    /\ reply' = [reply EXCEPT ![r] = code]

-------------------------------------------------------------------------------
(* Locks.  A transaction holds what it took until it commits or rolls back. *)

\* Submits with a shared, and with an exclusive, lock on the row of job j.
Sharing(j)   == {r \in Submits : at[r] \in {"linked", "inserted"} /\ sent[r].job = j}
Exclusive(j) == {r \in Submits : at[r] = "counted" /\ sent[r].job = j}
Unlocked(j)  == Sharing(j) = {} /\ Exclusive(j) = {}

\* q has inserted, and not yet committed, the row r is about to insert.
SameKey(a, r) == JobOf(a) = sent[r].job /\ ApplicantOf(a) = applicant[r]
Rivals(r) == {q \in Submits : at[q] \in {"inserted", "counted"} /\ q # r /\ SameKey(q, r)}

\* Two rows of members clash: in the unique e-mail, as in the primary key.
Clash(m, n) == EmailOf[m] = EmailOf[n]

\* q has inserted, and not yet committed, a members row that r's mirror row clashes with.
Mirroring(r) == {q \in mirrors : q # r /\ Clash(sent[q].member, sent[r].member)}

\* The transactions the next statement of r has to wait for.
WaitsFor(r) ==
    CASE at[r] = "mirroring" -> Mirroring(r)
      [] at[r] = "checked"  -> Exclusive(sent[r].job)
      [] at[r] = "linked"   -> Rivals(r)
      [] at[r] = "inserted" -> Sharing(sent[r].job) \ {r}
      [] OTHER              -> {}

-------------------------------------------------------------------------------
(* POST /applications/submit and POST /applications.                       *)

\* The SELECT of the job opens the snapshot.
Begin(r) ==
    LET j == sent[r].job IN
    /\ Arrives(r)
    /\ snapshot' = [snapshot EXCEPT ![r] =
                      [open    |-> jobStatus[j] = "open",
                       applied |-> {ApplicantOf(a) : a \in RowsOf(j)},
                       members |-> memberRows]]
    /\ Goto(r, "began")
    /\ UNCHANGED <<inputs, tables, applicant, mirrors, total, event>>

\* The applicant is not in the snapshot's members, but in recruiters.
NeedsMirror(r) == sent[r].member \in Recruiters \ snapshot[r].members

\* m is the owner of the contact e-mail in the snapshot, NoOne if it has none.
OwnsContact(r, m) ==
    LET owners == {n \in snapshot[r].members : EmailOf[n] = sent[r].email} IN
    IF owners = {} THEN m = NoOne ELSE m \in owners

\* resolveApplicantMemberId without a mirror row: the member, or the contact's owner.
Resolves(r, m) ==
    IF sent[r].member \in snapshot[r].members THEN m = sent[r].member ELSE OwnsContact(r, m)

\* Mutant: an applicant who was not found is not refused.
RefusalOfKnown(r, m) == IF ~snapshot[r].open \/ m \in snapshot[r].applied THEN 409 ELSE 0

\* The answer to an applicant m who may not apply; 0 if the row may be inserted.
Refusal(r, m) ==
    IF m = NoOne THEN 404
    ELSE IF ~snapshot[r].open \/ m \in snapshot[r].applied THEN 409
    ELSE 0

\* The remaining reads, all of the snapshot, for the applicant m.
Decide(r, m) ==
    /\ IF Refusal(r, m) # 0
       THEN Answer(r, Refusal(r, m)) /\ UNCHANGED applicant
       ELSE Goto(r, "checked") /\ applicant' = [applicant EXCEPT ![r] = m]
    /\ snapshot' = [snapshot EXCEPT ![r] = NoSnapshot]
    /\ UNCHANGED <<inputs, jobStatus, count, row, visited, total, event>>

\* Every read before the INSERT, for an applicant who needs no mirror row.
Check(r) ==
    /\ at[r] = "began" /\ ~NeedsMirror(r)
    /\ \E m \in Accounts \cup {NoOne} : Resolves(r, m) /\ Decide(r, m)
    /\ UNCHANGED <<memberRows, mirrors>>

\* ensureApplicantMemberRow reads the recruiter, and is about to insert the mirror row.
FindRecruiter(r) ==
    /\ at[r] = "began" /\ NeedsMirror(r)
    /\ Goto(r, "mirroring")
    /\ UNCHANGED <<inputs, tables, locals, event>>

\* A committed row of members has the recruiter's id or e-mail.
MirrorTaken(r) == \E m \in memberRows : Clash(m, sent[r].member)

\* The row of members that stands for the recruiter.
MirrorRow(r) == {sent[r].member}

\* The mirror row is inserted.  A refusal is a plain return, so it commits the row.
Mirror(r) ==
    /\ at[r] = "mirroring" /\ WaitsFor(r) = {} /\ ~MirrorTaken(r)
    /\ Decide(r, sent[r].member)
    /\ IF Refusal(r, sent[r].member) # 0
       THEN memberRows' = memberRows \cup MirrorRow(r) /\ UNCHANGED mirrors
       ELSE mirrors' = mirrors \cup {r} /\ UNCHANGED memberRows

\* ER_DUP_ENTRY: the row is read again, but in the old snapshot, which does not have it.
\* What is left is the contact e-mail.
MirrorIsTaken(r) ==
    /\ at[r] = "mirroring" /\ WaitsFor(r) = {} /\ MirrorTaken(r)
    /\ \E m \in Accounts \cup {NoOne} : OwnsContact(r, m) /\ Decide(r, m)
    /\ UNCHANGED <<memberRows, mirrors>>

\* The INSERT checks the foreign key: a shared lock on the jobs row.
Link(r) ==
    /\ at[r] = "checked"
    /\ WaitsFor(r) = {}
    /\ Goto(r, "linked")
    /\ UNCHANGED <<inputs, tables, locals, event>>

\* Mutant: the table has no unique key.
NeverTaken(r) == FALSE

\* The unique key (job_id, member_id) has a committed row.
Taken(r) == \E a \in stored : SameKey(a, r)

\* The INSERT finds the key free.
Insert(r) ==
    /\ at[r] = "linked"
    /\ WaitsFor(r) = {} /\ ~Taken(r)
    /\ Goto(r, "inserted")
    /\ UNCHANGED <<inputs, tables, locals, event>>

\* The UPDATE of applicants_count gets the exclusive lock.
Count(r) ==
    /\ at[r] = "inserted"
    /\ WaitsFor(r) = {}
    /\ Goto(r, "counted")
    /\ UNCHANGED <<inputs, tables, locals, event>>

\* Mutant: the transaction does not count the applicant.
SameCount(j) == count[j]

CountAfterSubmit(j) == count[j] + 1

Commit(r) ==
    LET j == sent[r].job IN
    /\ at[r] = "counted"
    /\ row' = [row EXCEPT ![r] = "submitted"]
    /\ visited' = [visited EXCEPT ![r] = {"submitted"}]
    /\ count' = [count EXCEPT ![j] = CountAfterSubmit(j)]
    /\ memberRows' = IF r \in mirrors THEN memberRows \cup MirrorRow(r) ELSE memberRows
    /\ mirrors' = mirrors \ {r}
    /\ event' = [event EXCEPT ![r] = "pending"]
    /\ Answer(r, 201)
    /\ UNCHANGED <<inputs, jobStatus, snapshot, applicant, total>>

\* Nothing of the transaction of r stays.
RollBack(r) ==
    /\ snapshot' = [snapshot EXCEPT ![r] = NoSnapshot]
    /\ applicant' = [applicant EXCEPT ![r] = NoOne]
    /\ mirrors' = mirrors \ {r}
    /\ UNCHANGED <<inputs, tables, total, event>>

\* Mutant: the error is answered, but the connection goes back with its transaction open.
DuplicateKeyLeaks(r) ==
    /\ at[r] = "linked"
    /\ Rivals(r) = {} /\ Taken(r) /\ reply[r] = 0
    /\ reply' = [reply EXCEPT ![r] = 500]
    /\ UNCHANGED <<inputs, tables, locals, at, event>>

\* ER_DUP_ENTRY, a row committed after the snapshot: 500, not the 409 of the check.
DuplicateKey(r) ==
    /\ at[r] = "linked"
    /\ Rivals(r) = {} /\ Taken(r)
    /\ Answer(r, 500)
    /\ RollBack(r)

\* r and another transaction wait for each other: InnoDB rolls one back, 500.
Deadlock(r) ==
    /\ \E q \in WaitsFor(r) : r \in WaitsFor(q)
    /\ Answer(r, 500)
    /\ RollBack(r)

\* The process or its connection dies before the commit.
Crash(r) ==
    /\ at[r] \in {"began", "mirroring"} \cup Keeping
    /\ Goto(r, "crashed")
    /\ RollBack(r)

Submit(r) ==
    \/ Begin(r) \/ Check(r) \/ FindRecruiter(r) \/ Mirror(r) \/ MirrorIsTaken(r)
    \/ Link(r) \/ Insert(r) \/ Count(r) \/ Commit(r)
    \/ DuplicateKey(r) \/ Deadlock(r)

-------------------------------------------------------------------------------
(* The Job service.                                                        *)

\* /jobs/close reads the status first ...
ReadForClose(c) ==
    /\ Arrives(c)
    /\ IF jobStatus[target[c]] = "closed" THEN Answer(c, 409) ELSE Goto(c, "read")
    /\ UNCHANGED <<inputs, tables, locals, event>>

\* ... and updates it whatever it is by then.
Close(c) ==
    /\ at[c] = "read"
    /\ Unlocked(target[c])
    /\ jobStatus' = [jobStatus EXCEPT ![target[c]] = "closed"]
    /\ Answer(c, 200)
    /\ UNCHANGED <<inputs, count, memberRows, row, visited, locals, event>>

\* Mutant: a recompute counts rows of transactions still open.
CountedDirty(j) ==
    Cardinality(RowsOf(j) \cup {r \in Submits : at[r] = "inserted" /\ sent[r].job = j})

\* /jobs/incrementApplicants counts the committed applications ...
Counted(j) == Cardinality(RowsOf(j))

ReadForRecompute(x) ==
    /\ Arrives(x)
    /\ total' = [total EXCEPT ![x] = Counted(target[x])]
    /\ Goto(x, "read")
    /\ UNCHANGED <<inputs, tables, snapshot, applicant, mirrors, event>>

\* ... and stores the number in a second statement.
Recompute(x) ==
    /\ at[x] = "read"
    /\ Unlocked(target[x])
    /\ count' = [count EXCEPT ![target[x]] = total[x]]
    /\ Answer(x, 200)
    /\ UNCHANGED <<inputs, jobStatus, memberRows, row, visited, locals, event>>

-------------------------------------------------------------------------------
(* PATCH /applications/:id/status and POST /applications/updateStatus.     *)

\* VALID_TRANSITIONS: the statuses s may move to.
Targets ==
    [submitted |-> {"reviewing", "rejected"},
     reviewing |-> {"interview", "rejected"},
     interview |-> {"offer", "rejected"},
     offer     |-> {},
     rejected  |-> {"reviewing"}]

\* Mutant: undoing a rejection invites to an interview at once.
AllowedToUndo(from, to) == to \in Targets[from] \/ (from = "rejected" /\ to = "interview")

Allowed(from, to) == to \in Targets[from]

\* The status is read and checked ...
ReadForUpdate(u) ==
    LET current == row[ordered[u].application] IN
    /\ Arrives(u)
    /\ IF current = "none" THEN Answer(u, 404)
       ELSE IF ~Allowed(current, ordered[u].status) THEN Answer(u, 400)
       ELSE Goto(u, "read")
    /\ UNCHANGED <<inputs, tables, locals, event>>

\* ... and written later, whatever it is by then.
UpdateStatus(u) ==
    LET a == ordered[u].application
        s == ordered[u].status IN
    /\ at[u] = "read"
    /\ row' = [row EXCEPT ![a] = s]
    /\ visited' = [visited EXCEPT ![a] = @ \cup {s}]
    /\ Answer(u, 200)
    /\ UNCHANGED <<inputs, jobStatus, count, memberRows, locals, event>>

-------------------------------------------------------------------------------
\* publishOrOutbox runs on its own after the handler: produced or stored in the outbox,
\* or lost, when the outbox INSERT fails (its error is swallowed) or the process dies.
Publish(r) ==
    /\ event[r] = "pending"
    /\ event' \in {[event EXCEPT ![r] = "out"], [event EXCEPT ![r] = "lost"]}
    /\ UNCHANGED <<inputs, tables, at, reply, locals>>

-------------------------------------------------------------------------------
\* Every request has ended.
Terminated ==
    /\ \A r \in arriving : at[r] \in {"answered", "crashed"}
    /\ \A r \in DOMAIN event : event[r] # "pending"
    /\ UNCHANGED vars

Next ==
    \/ \E r \in Submits : Submit(r) \/ Crash(r)
    \/ \E c \in Closes : ReadForClose(c) \/ Close(c)
    \/ \E x \in Recomputes : ReadForRecompute(x) \/ Recompute(x)
    \/ \E u \in Updates : ReadForUpdate(u) \/ UpdateStatus(u)
    \/ \E r \in Submits : Publish(r)
    \/ Terminated

Spec == Init /\ [][Next]_vars

\* A statement that need not wait returns, and InnoDB breaks a deadlock at once.
FairSpec == Spec /\ \A r \in Submits : WF_vars(Submit(r))

-------------------------------------------------------------------------------
(* Properties.                                                             *)

\* A member has one application per job: the check of submit reads an old snapshot, so
\* only the unique key of the table stands between two concurrent submits.
OneApplicationPerMember ==
    \A a, b \in stored :
        /\ JobOf(a) = JobOf(b) /\ ApplicantOf(a) = ApplicantOf(b)
        => a = b

\* No application is stored for an account without a row in members, even when the
\* transaction that inserted the recruiter's mirror row was rolled back: the foreign key
\* on members (fk_applications_member) never refuses a row, so no action asks it.
ApplicantHasMemberRow ==
    \A a \in stored : ApplicantOf(a) \in memberRows

\* applicants_count never promises more applications than there are, whatever submits
\* and recomputes overlap, roll back or crash.
CountNeverExceeds == \A j \in Jobs : count[j] <= Cardinality(RowsOf(j))

\* As long as no recompute has written it, applicants_count is exact: the transaction
\* keeps the row and the counter together.
CountIsExactUntilRecompute ==
    \A j \in Jobs :
        (\A x \in Recomputes : target[x] = j => at[x] # "answered")
            => count[j] = Cardinality(RowsOf(j))

\* Concurrent status updates may overwrite each other, but an offer is only ever made to
\* an application that was in interview, and an interview only after a review.
OfferWasEarned ==
    \A a \in Apps :
        /\ "offer" \in visited[a] => "interview" \in visited[a]
        /\ "interview" \in visited[a] => "reviewing" \in visited[a]

\* No event is published for an application that is not stored.
NoPhantomEvent == \A r \in Submits : event[r] # "none" => r \in stored

\* Every submit ends although submits to one job deadlock: each is answered, or its
\* process died.
EverySubmitEnds == \A r \in Submits : at[r] = "began" ~> at[r] \in {"answered", "crashed"}

\* app.js says of the status "Any status can move to rejected *except* offer (terminal
\* for demo)": an offered application keeps its status.
OfferIsTerminal == [][\A a \in Apps : row[a] = "offer" => row'[a] = "offer"]_vars

\* app.js says of recruiters without a members row "Materialize the same stub row": no
\* submit for a recruiter is answered that the member was not found.
RecruiterIsFound ==
    \A r \in Submits : sent[r].member \in Recruiters => reply[r] # 404
===============================================================================
