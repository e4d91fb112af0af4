-------------------------- MODULE ApplicationsProofs --------------------------
(***************************************************************************)
(* The safety properties of Applications, for any number of jobs, accounts *)
(* and requests.  Inv is the inductive invariant: it extends the unique    *)
(* key to rows that are inserted and not yet committed, says what a        *)
(* transaction knows of the account it applies for, and what a recompute   *)
(* and a status update still know of what they have read.                  *)
(***************************************************************************)
EXTENDS Applications, FiniteSetTheorems, TLAPS

\* A submit stores its row at its commit and not before, and a status update has found
\* the row it will write.
RowsAreCommitted ==
    /\ \A r \in Submits : row[r] # "none" => at[r] = "answered"
    /\ \A u \in Updates : at[u] = "read" => row[ordered[u].application] # "none"

\* Rows with an entry in the unique key, committed or not.
Keyed == stored \cup {r \in Submits : at[r] \in {"inserted", "counted"}}

UniqueKey ==
    \A a, b \in Keyed :
        /\ JobOf(a) = JobOf(b) /\ ApplicantOf(a) = ApplicantOf(b)
        => a = b

\* What a transaction has read of members stays true, and the account it applies for has
\* a row or gets one with its commit.
ApplicantIsKnown ==
    /\ \A r \in Submits : snapshot[r].members \subseteq memberRows
    /\ \A r \in Submits : at[r] \in Keeping =>
          \/ applicant[r] \in memberRows
          \/ r \in mirrors /\ applicant[r] = sent[r].member

\* A recompute never knows of more rows than there are, and only it parts the counter
\* from them.
RecomputesAreLate ==
    \A x \in Recomputes : at[x] = "read" => total[x] <= Cardinality(RowsOf(target[x]))

\* The history of an application holds its status and is closed under what an offer and
\* an interview need; a status update has read a status of that history.
HistoryIsLegal ==
    /\ \A a \in Apps : (row[a] # "none" => row[a] \in visited[a])
                       /\ (row[a] = "none" => visited[a] = {})
    /\ \A u \in Updates : at[u] = "read" =>
          \E s \in visited[ordered[u].application] : Allowed(s, ordered[u].status)

Inv ==
    /\ TypeOK
    /\ RowsAreCommitted
    /\ UniqueKey
    /\ ApplicantIsKnown
    /\ ApplicantHasMemberRow
    /\ HistoryIsLegal
    /\ OfferWasEarned
    /\ NoPhantomEvent

-------------------------------------------------------------------------------
\* Lemma: the number of rows of a job is a natural number.
LEMMA RowsAreFinite ==
    ASSUME NEW j PROVE IsFiniteSet(RowsOf(j)) /\ Cardinality(RowsOf(j)) \in Nat
<1>1. RowsOf(j) \in SUBSET Apps
  BY DEF RowsOf, stored
<1> QED
  BY <1>1, AppsAssumption, FS_Subset, FS_CardinalityType

\* Lemma: an applicant found by resolveApplicantMemberId without a mirror row is a member
\* of the snapshot.
LEMMA ResolvedApplicant ==
    ASSUME TypeOK, NEW r \in Submits, NEW m, Resolves(r, m) \/ OwnsContact(r, m), m # NoOne
    PROVE  m \in Accounts /\ m \in snapshot[r].members
<1>1. snapshot[r].members \in SUBSET Accounts
  BY DEF TypeOK, Snapshots
<1> QED
  BY <1>1 DEF Resolves, OwnsContact

\* Lemma: what the remaining reads lead to.
LEMMA Decision ==
    ASSUME TypeOK, NEW r \in Submits, NEW m, Decide(r, m)
    PROVE  /\ snapshot' = [snapshot EXCEPT ![r] = NoSnapshot]
           /\ UNCHANGED <<inputs, jobStatus, count, row, visited, total, event>>
           /\ \/ /\ Refusal(r, m) # 0 /\ Refusal(r, m) \in {404, 409}
                 /\ Refusal(r, m) = 404 => m = NoOne
                 /\ at' = [at EXCEPT ![r] = "answered"]
                 /\ reply' = [reply EXCEPT ![r] = Refusal(r, m)]
                 /\ UNCHANGED applicant
              \/ /\ Refusal(r, m) = 0 /\ m # NoOne
                 /\ at' = [at EXCEPT ![r] = "checked"] /\ UNCHANGED reply
                 /\ applicant' = [applicant EXCEPT ![r] = m]
BY DEF Decide, Refusal, Answer, Goto

\* Lemma: the initial states are of the declared types.
LEMMA TypesInitially == Init => TypeOK
<1> SUFFICES ASSUME Init PROVE TypeOK
  OBVIOUS
<1>1. ASSUME NEW j \in Jobs PROVE Cardinality({a \in Existing : ExistingOf[a].job = j}) \in Nat
  <2>1. {a \in Existing : ExistingOf[a].job = j} \in SUBSET Apps
    BY DEF Apps
  <2> QED
    BY <2>1, AppsAssumption, FS_Subset, FS_CardinalityType
<1>2. \A s \in Statuses : Past(s) \in SUBSET Statuses
  BY DEF Past, Statuses
<1>3. row \in [Apps -> Statuses \cup {"none"}] /\ visited \in [Apps -> SUBSET Statuses]
  BY <1>2 DEF Init
<1>4. count \in [Jobs -> Nat]
  BY <1>1 DEF Init
<1> QED
  BY <1>3, <1>4
     DEF Init, TypeOK, Accounts, Requests, Places, Keeping, Snapshots, NoSnapshot, EventStates

\* Lemma: an application that is stored has an applicant.
LEMMA StoredHasApplicant ==
    ASSUME Inv, NEW a \in stored PROVE ApplicantOf(a) \in Accounts /\ JobOf(a) \in Jobs
BY ExistingAssumption, BodiesAssumption
   DEF Inv, TypeOK, ApplicantHasMemberRow, stored, Apps, JobOf, Accounts

\* Lemma: the steps of submits keep the types.
LEMMA SubmitKeepsTypes ==
    ASSUME Inv, NEW r \in Submits, Submit(r) \/ Crash(r) PROVE TypeOK'
<1> USE DEF Inv, TypeOK, inputs, tables, locals, Goto, Answer, Requests, Places, EventStates
<1>1. sent[r].job \in Jobs /\ sent[r].member \in Accounts /\ r \in Apps
  BY BodiesAssumption DEF Apps
<1>2. CASE Begin(r)
  <2> DEFINE seen == [open    |-> jobStatus[sent[r].job] = "open",
                      applied |-> {ApplicantOf(a) : a \in RowsOf(sent[r].job)},
                      members |-> memberRows]
  <2>1. seen \in Snapshots
    BY StoredHasApplicant DEF Snapshots, RowsOf
  <2> HIDE DEF seen
  <2>2. snapshot' = [snapshot EXCEPT ![r] = seen]
    BY <1>2 DEF Begin, seen
  <2>3. /\ at' = [at EXCEPT ![r] = "began"]
        /\ UNCHANGED <<inputs, tables, applicant, mirrors, total, event, reply>>
    BY <1>2 DEF Begin
  <2> QED
    BY <2>1, <2>2, <2>3 DEF Keeping
<1>3. NoSnapshot \in Snapshots
  BY DEF NoSnapshot, Snapshots
<1>4. CASE Check(r) \/ Mirror(r) \/ MirrorIsTaken(r)
  <2>1. PICK m \in Accounts \cup {NoOne} : Decide(r, m)
    BY <1>1, <1>4 DEF Check, Mirror, MirrorIsTaken
  <2>2. memberRows' \in SUBSET Accounts /\ mirrors' \in SUBSET Submits
    BY <1>1, <1>4 DEF Check, Mirror, MirrorIsTaken, MirrorRow
  <2>3. at' \in [Requests -> Places] /\ reply' \in [Requests -> {0, 200, 201, 400, 404, 409, 500}]
    BY <2>1, Decision
  <2>4. /\ applicant' \in [Submits -> Accounts \cup {NoOne}]
        /\ \A q \in Submits : at'[q] \in Keeping => applicant'[q] # NoOne
    BY <2>1, Decision DEF Keeping
  <2>5. snapshot' \in [Submits -> Snapshots]
    BY <1>3, <2>1, Decision
  <2>6. UNCHANGED <<inputs, jobStatus, count, row, visited, total, event>>
    BY <2>1, Decision
  <2> QED
    BY <2>2, <2>3, <2>4, <2>5, <2>6
<1>5. CASE FindRecruiter(r) \/ Link(r) \/ Insert(r) \/ Count(r)
  BY <1>5 DEF FindRecruiter, Link, Insert, Count, Keeping
<1>6. CASE Commit(r)
  BY <1>1, <1>6 DEF Commit, CountAfterSubmit, Statuses, MirrorRow, Keeping
<1>7. CASE DuplicateKey(r) \/ Deadlock(r) \/ Crash(r)
  BY <1>3, <1>7 DEF DuplicateKey, Deadlock, Crash, RollBack, WaitsFor, Keeping
<1> QED
  BY <1>2, <1>4, <1>5, <1>6, <1>7 DEF Submit

\* Lemma: every step keeps the types.
LEMMA TypesKept ==
    ASSUME Inv, [Next]_vars PROVE TypeOK'
<1> USE DEF inputs, tables, locals, Goto, Answer, Arrives, Requests, Places, Keeping, EventStates
<1>1. ASSUME NEW r \in Submits, Publish(r) PROVE TypeOK'
  BY <1>1 DEF Inv, TypeOK, Publish
<1>2. ASSUME NEW c \in Closes, ReadForClose(c) \/ Close(c) PROVE TypeOK'
  BY <1>2 DEF Inv, TypeOK, ReadForClose, Close
<1>3. ASSUME NEW x \in Recomputes, ReadForRecompute(x) \/ Recompute(x) PROVE TypeOK'
  BY <1>3, RowsAreFinite DEF Inv, TypeOK, ReadForRecompute, Recompute, Counted
<1>4. ASSUME NEW u \in Updates, ReadForUpdate(u) \/ UpdateStatus(u) PROVE TypeOK'
  <2>1. ordered[u].application \in Apps /\ ordered[u].status \in Statuses
    BY BodiesAssumption DEF Inv, TypeOK
  <2>2. CASE ReadForUpdate(u)
    BY <2>2 DEF Inv, TypeOK, ReadForUpdate
  <2>3. CASE UpdateStatus(u)
    BY <2>1, <2>3 DEF Inv, TypeOK, UpdateStatus
  <2> QED
    BY <1>4, <2>2, <2>3
<1>5. CASE UNCHANGED vars
  BY <1>5 DEF Inv, TypeOK, vars
<1> QED
  BY <1>1, <1>2, <1>3, <1>4, <1>5, SubmitKeepsTypes DEF Next, Terminated

-------------------------------------------------------------------------------
(* The inductive step.                                                     *)

\* Inv without the types and the unique key.
Rest ==
    /\ RowsAreCommitted
    /\ ApplicantIsKnown
    /\ ApplicantHasMemberRow
    /\ HistoryIsLegal
    /\ OfferWasEarned
    /\ NoPhantomEvent

\* Lemma: a transaction that ends without a commit leaves the invariant as it is.
LEMMA AbortStep ==
    ASSUME Inv, TypeOK', NEW r \in Submits, DuplicateKey(r) \/ Deadlock(r) \/ Crash(r)
    PROVE  Inv'
<1>1. PICK place \in {"answered", "crashed"} :
        at' = [at EXCEPT ![r] = place]
  BY DEF DuplicateKey, Deadlock, Crash, Answer, Goto
<1>2. RollBack(r) /\ at[r] \notin {"new", "answered", "crashed"}
  BY DEF DuplicateKey, Deadlock, Crash, WaitsFor, Keeping
<1>3. row[r] = "none"
  BY <1>2 DEF Inv, RowsAreCommitted
<1>4. Rest'
  BY <1>1, <1>2, <1>3
     DEF Inv, TypeOK, Rest, RollBack, NoSnapshot, inputs, tables, Requests, Places, Keeping, stored,
         RowsAreCommitted, ApplicantIsKnown, ApplicantHasMemberRow, HistoryIsLegal,
         OfferWasEarned, NoPhantomEvent, ApplicantOf
<1>5. UniqueKey'
  BY <1>1, <1>2, <1>3
     DEF Inv, TypeOK, UniqueKey, Keyed, RollBack, inputs, tables, stored, JobOf, ApplicantOf
<1> QED
  BY <1>4, <1>5 DEF Inv, Rest

\* Lemma: what a submit does before its commit.
LEMMA OpenStep ==
    ASSUME Inv, TypeOK', NEW r \in Submits,
           \/ Begin(r) \/ Check(r) \/ FindRecruiter(r) \/ Mirror(r) \/ MirrorIsTaken(r)
           \/ Link(r) \/ Insert(r) \/ Count(r)
    PROVE  Inv'
<1> USE DEF Inv, TypeOK, Rest, Goto, Answer, inputs, tables, locals, Requests, stored, Keyed,
            JobOf, ApplicantOf, RowsAreCommitted, UniqueKey, ApplicantIsKnown,
            ApplicantHasMemberRow, HistoryIsLegal, OfferWasEarned, NoPhantomEvent
<1>1. CASE Begin(r)
  <2>1. /\ at[r] = "new" /\ at' = [at EXCEPT ![r] = "began"]
        /\ snapshot'[r].members = memberRows
        /\ \A q \in Submits \ {r} : snapshot'[q] = snapshot[q]
        /\ UNCHANGED <<inputs, tables, applicant, mirrors, total, event>>
    BY <1>1 DEF Begin, Arrives
  <2>2. Keyed' = Keyed /\ UniqueKey'
    BY <2>1
  <2>3. ApplicantIsKnown' /\ ApplicantHasMemberRow'
    BY <2>1 DEF Keeping
  <2>4. RowsAreCommitted' /\ HistoryIsLegal' /\ OfferWasEarned' /\ NoPhantomEvent'
    BY <2>1
  <2> QED
    BY <2>2, <2>3, <2>4
<1>2. CASE Check(r) \/ Mirror(r) \/ MirrorIsTaken(r)
  <2>1. PICK m \in Accounts \cup {NoOne} :
          /\ Decide(r, m)
          /\ \/ (Resolves(r, m) \/ OwnsContact(r, m)) /\ UNCHANGED <<memberRows, mirrors>>
             \/ Mirror(r) /\ m = sent[r].member
    BY <1>2, BodiesAssumption DEF Check, Mirror, MirrorIsTaken
  <2>2. /\ at[r] \in {"began", "mirroring"} /\ row[r] = "none"
        /\ snapshot' = [snapshot EXCEPT ![r] = NoSnapshot] /\ NoSnapshot.members = {}
        /\ UNCHANGED <<inputs, jobStatus, count, row, visited, total, event>>
        /\ memberRows \subseteq memberRows' /\ mirrors \subseteq mirrors'
    BY <1>2, <2>1, Decision DEF Check, Mirror, MirrorIsTaken, NoSnapshot
  <2>3. CASE at' = [at EXCEPT ![r] = "answered"] /\ UNCHANGED applicant
    BY <2>2, <2>3 DEF Keeping
  <2>4. CASE /\ Refusal(r, m) = 0 /\ m # NoOne /\ at' = [at EXCEPT ![r] = "checked"]
             /\ applicant' = [applicant EXCEPT ![r] = m]
    <3>1. m \in memberRows \/ (r \in mirrors' /\ m = sent[r].member)
      BY <2>1, <2>4, ResolvedApplicant DEF Mirror
    <3> QED
      BY <2>2, <2>4, <3>1 DEF Keeping
  <2> QED
    BY <2>1, <2>3, <2>4, Decision
<1>3. CASE FindRecruiter(r) \/ Link(r)
  BY <1>3 DEF FindRecruiter, Link, Keeping
<1>4. CASE Insert(r)
  <2>1. Rest'
    BY <1>4 DEF Insert, Keeping
  <2>2. /\ at' = [at EXCEPT ![r] = "inserted"] /\ at[r] = "linked"
        /\ ~Taken(r) /\ Rivals(r) = {} /\ UNCHANGED <<inputs, tables, locals>>
    BY <1>4 DEF Insert, WaitsFor
  <2>3. ASSUME NEW a \in Keyed, a # r
        PROVE  ~(JobOf(a) = JobOf(r) /\ ApplicantOf(a) = ApplicantOf(r))
    BY <2>2, <2>3, AppsAssumption DEF Taken, Rivals, SameKey
  <2> HIDE DEF JobOf, ApplicantOf
  <2>4. \A a \in Apps : JobOf(a)' = JobOf(a) /\ ApplicantOf(a)' = ApplicantOf(a)
    BY <2>2 DEF JobOf, ApplicantOf
  <2>5. Keyed' = Keyed \cup {r} /\ Keyed \cup {r} \subseteq Apps
    BY <2>2 DEF Apps
  <2>6. UniqueKey'
    <3> SUFFICES ASSUME NEW a \in Keyed', NEW b \in Keyed', JobOf(a)' = JobOf(b)',
                        ApplicantOf(a)' = ApplicantOf(b)'
                 PROVE  a = b
      BY DEF UniqueKey
    <3>1. /\ a \in Keyed \cup {r} /\ b \in Keyed \cup {r}
          /\ JobOf(a) = JobOf(b) /\ ApplicantOf(a) = ApplicantOf(b)
      BY <2>4, <2>5
    <3> QED
      BY <2>3, <3>1 DEF UniqueKey
  <2> QED
    BY <2>1, <2>6
<1>5. CASE Count(r)
  BY <1>5 DEF Count, Keeping
<1> QED
  BY <1>1, <1>2, <1>3, <1>4, <1>5

\* Lemma: a commit stores a row whose key the transaction already holds.
LEMMA CommitStep ==
    ASSUME Inv, TypeOK', NEW r \in Submits, Commit(r)
    PROVE  Inv'
<1> USE DEF Inv, TypeOK, Answer, inputs, Requests, stored, RowsAreCommitted
<1>1. /\ at[r] = "counted" /\ row[r] = "none" /\ at' = [at EXCEPT ![r] = "answered"]
      /\ row' = [row EXCEPT ![r] = "submitted"]
      /\ visited' = [visited EXCEPT ![r] = {"submitted"}]
      /\ memberRows \subseteq memberRows' /\ (r \in mirrors => sent[r].member \in memberRows')
      /\ mirrors' = mirrors \ {r}
      /\ event' = [event EXCEPT ![r] = "pending"]
      /\ UNCHANGED <<inputs, snapshot, applicant>>
  BY DEF Commit, MirrorRow
<1>2. r \in Apps /\ r \notin Existing
  BY AppsAssumption DEF Apps
<1>3. RowsAreCommitted' /\ NoPhantomEvent'
  BY <1>1, <1>2 DEF NoPhantomEvent
<1>4. UniqueKey'
  <2>1. Keyed' = Keyed
    BY <1>1, <1>2 DEF Keyed
  <2>2. \A a \in Apps : JobOf(a)' = JobOf(a) /\ ApplicantOf(a)' = ApplicantOf(a)
    BY <1>1 DEF JobOf, ApplicantOf
  <2>3. Keyed \subseteq Apps
    BY DEF Keyed, Apps
  <2> QED
    BY <2>1, <2>2, <2>3 DEF UniqueKey
<1>5. ApplicantIsKnown' /\ ApplicantHasMemberRow'
  BY <1>1, <1>2 DEF ApplicantIsKnown, ApplicantHasMemberRow, ApplicantOf, Keeping
<1>6. HistoryIsLegal' /\ OfferWasEarned'
  BY <1>1, <1>2 DEF HistoryIsLegal, OfferWasEarned
<1> QED
  BY <1>3, <1>4, <1>5, <1>6

\* Lemma: an offer follows an interview, and an interview a review.
LEMMA AllowedSteps ==
    ASSUME NEW from \in Statuses, NEW to \in Statuses, Allowed(from, to)
    PROVE  (to = "offer" => from = "interview") /\ (to = "interview" => from = "reviewing")
BY DEF Allowed, Targets, Statuses

\* Lemma: a status update adds a status to the history that the history allows.
LEMMA UpdateStep ==
    ASSUME Inv, TypeOK', NEW u \in Updates, ReadForUpdate(u) \/ UpdateStatus(u)
    PROVE  Inv'
<1> USE DEF Inv, TypeOK, Goto, Answer, inputs, tables, locals, Requests, stored,
            RowsAreCommitted, ApplicantIsKnown, ApplicantHasMemberRow, NoPhantomEvent,
            UniqueKey, Keyed
<1>1. ordered[u].application \in Apps /\ ordered[u].status \in Statuses /\ u \notin Submits
  BY BodiesAssumption, RequestsAssumption
<1>2. CASE ReadForUpdate(u)
  BY <1>1, <1>2 DEF ReadForUpdate, HistoryIsLegal, OfferWasEarned, JobOf, ApplicantOf
<1>3. CASE UpdateStatus(u)
  <2> DEFINE a == ordered[u].application
             s == ordered[u].status
  <2>1. /\ at[u] = "read" /\ at' = [at EXCEPT ![u] = "answered"]
        /\ row' = [row EXCEPT ![a] = s]
        /\ visited' = [visited EXCEPT ![a] = @ \cup {s}]
        /\ UNCHANGED <<inputs, memberRows, locals, event>>
    BY <1>3 DEF UpdateStatus
  <2>2. row[a] # "none" /\ s # "none"
    BY <1>1, <2>1 DEF Statuses
  <2>3. stored' = stored /\ \A r \in Submits : at'[r] = at[r]
    BY <1>1, <2>1, <2>2
  <2>4. RowsAreCommitted' /\ NoPhantomEvent' /\ ApplicantIsKnown' /\ ApplicantHasMemberRow'
    BY <1>1, <2>1, <2>2, <2>3 DEF ApplicantOf
  <2>5. UniqueKey'
    BY <2>1, <2>3 DEF JobOf, ApplicantOf
  <2>6. HistoryIsLegal'
    BY <1>1, <2>1, <2>2 DEF HistoryIsLegal
  <2>7. OfferWasEarned'
    <3>1. PICK from \in visited[a] : Allowed(from, s)
      BY <2>1 DEF HistoryIsLegal
    <3>2. from \in Statuses
      BY <1>1
    <3>3. (s = "offer" => from = "interview") /\ (s = "interview" => from = "reviewing")
      BY <1>1, <3>1, <3>2, AllowedSteps
    <3> QED
      BY <1>1, <2>1, <3>1, <3>3 DEF OfferWasEarned
  <2> QED
    BY <2>4, <2>5, <2>6, <2>7
<1> QED
  BY <1>2, <1>3

\* Lemma: the Job service, a publication and a stutter touch nothing the invariant is about.
LEMMA OtherStep ==
    ASSUME Inv, TypeOK',
           \/ \E c \in Closes : ReadForClose(c) \/ Close(c)
           \/ \E x \in Recomputes : ReadForRecompute(x) \/ Recompute(x)
           \/ \E r \in Submits : Publish(r)
           \/ UNCHANGED vars
    PROVE  Inv'
<1>1. /\ UNCHANGED <<inputs, memberRows, row, visited, snapshot, applicant, mirrors>>
      /\ \A r \in Submits \cup Updates : at'[r] = at[r]
  BY RequestsAssumption
     DEF Inv, TypeOK, Requests, ReadForClose, Close, ReadForRecompute, Recompute, Publish, vars,
         inputs, tables, locals, Goto, Answer
<1>2. \A r \in Submits : event'[r] # "none" => event[r] # "none"
  BY DEF Inv, TypeOK, ReadForClose, Close, ReadForRecompute, Recompute, Publish, vars
<1> QED
  BY <1>1, <1>2
     DEF Inv, TypeOK, inputs, RowsAreCommitted, UniqueKey, Keyed, stored, JobOf, ApplicantOf,
         ApplicantIsKnown, ApplicantHasMemberRow, HistoryIsLegal, OfferWasEarned, NoPhantomEvent

\* The inductive invariant holds in every reachable state.
THEOREM Invariance == Spec => []Inv
<1>1. Init => Inv
  <2> SUFFICES ASSUME Init PROVE Inv
    OBVIOUS
  <2>1. TypeOK
    BY TypesInitially
  <2>2. stored = Existing /\ \A r \in Submits : at[r] = "new" /\ row[r] = "none"
    BY AppsAssumption DEF Init, stored, Apps, Statuses, Requests
  <2>3. RowsAreCommitted /\ NoPhantomEvent
    BY <2>2 DEF Init, RowsAreCommitted, NoPhantomEvent, Requests
  <2>4. Keyed = Existing
    BY <2>2 DEF Keyed
  <2>5. ASSUME NEW a \in Existing, NEW b \in Existing, JobOf(a) = JobOf(b),
               ApplicantOf(a) = ApplicantOf(b)
        PROVE  a = b
    <3>1. ExistingOf[a] = ExistingOf[b]
      BY <2>5, ExistingAssumption DEF JobOf, ApplicantOf
    <3> QED
      BY <3>1, ExistingAssumption
  <2>6. UniqueKey /\ ApplicantHasMemberRow
    BY <2>2, <2>4, <2>5, ExistingAssumption
       DEF Init, UniqueKey, ApplicantHasMemberRow, ApplicantOf
  <2>7. ApplicantIsKnown
    BY <2>2 DEF Init, ApplicantIsKnown, NoSnapshot, Keeping
  <2>8. HistoryIsLegal /\ OfferWasEarned
    BY <2>2 DEF Init, HistoryIsLegal, OfferWasEarned, Past, Requests, Apps, Statuses
  <2> QED
    BY <2>1, <2>3, <2>6, <2>7, <2>8 DEF Inv
<1>2. Inv /\ [Next]_vars => Inv'
  BY TypesKept, AbortStep, OpenStep, CommitStep, UpdateStep, OtherStep
     DEF Next, Submit, Terminated
<1> QED
  BY <1>1, <1>2, PTL DEF Spec

-------------------------------------------------------------------------------
(* The properties.                                                         *)

\* Every reachable state is of the declared types.
THEOREM TypeCorrect == Spec => []TypeOK
BY Invariance, PTL DEF Inv

\* However submits race, a member has one application per job.
THEOREM OneApplication == Spec => []OneApplicationPerMember
<1>1. Inv => OneApplicationPerMember
  BY DEF Inv, UniqueKey, Keyed, OneApplicationPerMember
<1> QED
  BY <1>1, Invariance, PTL

\* An application's account has its members row, mirror rows included.
THEOREM ApplicantExists == Spec => []ApplicantHasMemberRow
BY Invariance, PTL DEF Inv

\* Racing status updates cannot make an offer without an interview.
THEOREM OfferEarned == Spec => []OfferWasEarned
BY Invariance, PTL DEF Inv

\* Events are published for stored applications only.
THEOREM NoPhantom == Spec => []NoPhantomEvent
BY Invariance, PTL DEF Inv

-------------------------------------------------------------------------------
(* The counter.                                                            *)

\* The inductive invariant of applicants_count, relative to Inv.
CountInv == RecomputesAreLate /\ CountNeverExceeds /\ CountIsExactUntilRecompute

\* Lemma: a step that stores no application changes no job's rows.
LEMMA RowsKept ==
    ASSUME UNCHANGED sent, stored' = stored
    PROVE  \A j : RowsOf(j)' = RowsOf(j)
BY DEF RowsOf, JobOf

\* Lemma: a commit gives its job one more row.
LEMMA CommitAddsRow ==
    ASSUME Inv, NEW r \in Submits, Commit(r), NEW j \in Jobs
    PROVE  Cardinality(RowsOf(j)') =
             IF j = sent[r].job THEN Cardinality(RowsOf(j)) + 1 ELSE Cardinality(RowsOf(j))
<1>1. row[r] = "none" /\ row' = [row EXCEPT ![r] = "submitted"] /\ UNCHANGED sent
  BY DEF Commit, Inv, TypeOK, RowsAreCommitted, inputs
<1>2. r \in Apps /\ r \notin Existing /\ r \notin RowsOf(j)
  BY <1>1, AppsAssumption DEF Apps, RowsOf, stored
<1>3. stored' = stored \cup {r}
  BY <1>1, <1>2 DEF stored, Inv, TypeOK
<1>4. RowsOf(j)' = IF j = sent[r].job THEN RowsOf(j) \cup {r} ELSE RowsOf(j)
  BY <1>1, <1>2, <1>3 DEF RowsOf, JobOf
<1> QED
  BY <1>2, <1>4, RowsAreFinite, FS_AddElement

\* Lemma: every step keeps the counter honest.
LEMMA CountStep ==
    ASSUME Inv, CountInv, [Next]_vars
    PROVE  CountInv'
<1> USE DEF Inv, TypeOK, CountInv, RecomputesAreLate, CountNeverExceeds,
            CountIsExactUntilRecompute, Goto, Answer, inputs, tables, locals, Requests
<1>1. \A j \in Jobs : Cardinality(RowsOf(j)) \in Nat
  BY RowsAreFinite
<1>2. ASSUME UNCHANGED <<sent, target, count, total>>, stored' = stored,
             \A x \in Recomputes : at'[x] = at[x]
      PROVE  CountInv'
  BY <1>2, RowsKept
<1>3. ASSUME NEW r \in Submits, Submit(r) \/ Crash(r) PROVE CountInv'
  <2>1. r \notin Recomputes
    BY RequestsAssumption
  <2>2. CASE Commit(r)
    <3>1. /\ count' = [count EXCEPT ![sent[r].job] = count[sent[r].job] + 1]
          /\ UNCHANGED <<sent, target, total>>
          /\ \A x \in Recomputes : at'[x] = at[x]
      BY <2>1, <2>2 DEF Commit, CountAfterSubmit
    <3>2. sent[r].job \in Jobs
      BY BodiesAssumption
    <3> QED
      BY <1>1, <2>2, <3>1, <3>2, CommitAddsRow
  <2>3. CASE \/ Begin(r) \/ Check(r) \/ FindRecruiter(r) \/ Mirror(r) \/ MirrorIsTaken(r)
             \/ Link(r) \/ Insert(r) \/ Count(r)
    <3>1. /\ UNCHANGED <<inputs, count, row, total>>
          /\ \A x \in Recomputes : at'[x] = at[x]
      BY <2>1, <2>3 DEF Begin, Check, FindRecruiter, Mirror, MirrorIsTaken, Decide, Link, Insert, Count
    <3> QED
      BY <1>2, <3>1 DEF stored
  <2>4. CASE DuplicateKey(r) \/ Deadlock(r) \/ Crash(r)
    <3>1. /\ UNCHANGED <<inputs, count, row, total>>
          /\ \A x \in Recomputes : at'[x] = at[x]
      BY <2>1, <2>4 DEF DuplicateKey, Deadlock, Crash, RollBack
    <3> QED
      BY <1>2, <3>1 DEF stored
  <2> QED
    BY <1>3, <2>2, <2>3, <2>4 DEF Submit
<1>4. ASSUME NEW c \in Closes, ReadForClose(c) \/ Close(c) PROVE CountInv'
  <2>1. /\ UNCHANGED <<inputs, count, row, total>>
        /\ \A x \in Recomputes : at'[x] = at[x]
    BY <1>4, RequestsAssumption DEF ReadForClose, Close
  <2> QED
    BY <1>2, <2>1 DEF stored
<1>5. ASSUME NEW x \in Recomputes, ReadForRecompute(x) PROVE CountInv'
  <2>1. /\ UNCHANGED <<inputs, count, row>> /\ at' = [at EXCEPT ![x] = "read"]
        /\ at[x] = "new" /\ total' = [total EXCEPT ![x] = Cardinality(RowsOf(target[x]))]
    BY <1>5 DEF ReadForRecompute, Counted, Arrives
  <2>2. \A j : RowsOf(j)' = RowsOf(j)
    BY <2>1, RowsKept DEF stored
  <2> QED
    BY <1>1, <2>1, <2>2
<1>6. ASSUME NEW x \in Recomputes, Recompute(x) PROVE CountInv'
  <2>1. /\ UNCHANGED <<inputs, row, total>> /\ at' = [at EXCEPT ![x] = "answered"]
        /\ at[x] = "read" /\ count' = [count EXCEPT ![target[x]] = total[x]]
    BY <1>6 DEF Recompute
  <2>2. \A j : RowsOf(j)' = RowsOf(j)
    BY <2>1, RowsKept DEF stored
  <2> QED
    BY <1>1, <2>1, <2>2
<1>7. ASSUME NEW u \in Updates, ReadForUpdate(u) \/ UpdateStatus(u) PROVE CountInv'
  <2>1. /\ UNCHANGED <<inputs, count, total>>
        /\ \A x \in Recomputes : at'[x] = at[x]
    BY <1>7, RequestsAssumption DEF ReadForUpdate, UpdateStatus
  <2>2. stored' = stored
    <3>1. ordered[u].application \in Apps /\ ordered[u].status # "none"
      BY BodiesAssumption DEF Statuses
    <3> QED
      BY <1>7, <3>1 DEF ReadForUpdate, UpdateStatus, RowsAreCommitted, stored
  <2> QED
    BY <1>2, <2>1, <2>2
<1>8. ASSUME NEW r \in Submits, Publish(r) PROVE CountInv'
  BY <1>2, <1>8 DEF Publish, stored
<1>9. CASE UNCHANGED vars
  BY <1>2, <1>9 DEF vars, stored
<1> QED
  BY <1>3, <1>4, <1>5, <1>6, <1>7, <1>8, <1>9 DEF Next, Terminated

\* In every reachable state the counter is at most the number of applications, and equal
\* to it until a recompute has written it.
THEOREM CounterInvariance == Spec => []CountInv
<1>1. Init => CountInv
  <2> SUFFICES ASSUME Init PROVE CountInv
    OBVIOUS
  <2>1. stored = Existing
    BY AppsAssumption DEF Init, stored, Apps, Statuses
  <2>2. ASSUME NEW j \in Jobs PROVE RowsOf(j) = {a \in Existing : ExistingOf[a].job = j}
    BY <2>1 DEF RowsOf, JobOf
  <2>3. \A j \in Jobs : count[j] = Cardinality(RowsOf(j)) /\ Cardinality(RowsOf(j)) \in Nat
    BY <2>2, RowsAreFinite DEF Init
  <2> QED
    BY <2>3 DEF Init, CountInv, RecomputesAreLate, CountNeverExceeds,
                CountIsExactUntilRecompute, Requests
<1>2. Inv /\ CountInv /\ [Next]_vars => CountInv'
  BY CountStep
<1> QED
  BY <1>1, <1>2, Invariance, PTL DEF Spec

\* The counter never promises more applications than there are.
THEOREM CounterIsHonest == Spec => []CountNeverExceeds
BY CounterInvariance, PTL DEF CountInv

\* Until a recompute writes it, the counter is the number of applications.
THEOREM CounterIsExact == Spec => []CountIsExactUntilRecompute
BY CounterInvariance, PTL DEF CountInv

-------------------------------------------------------------------------------
(* Waiting for locks: the safety half of EverySubmitEnds.                  *)

\* The exclusive lock on a job's row shuts out every other lock on it.
LocksExclude ==
    \A q, r \in Submits :
        /\ at[q] = "counted" /\ at[r] \in {"linked", "inserted", "counted"}
        /\ sent[q].job = sent[r].job
        => q = r

\* Only a transaction that goes on to store an application holds a mirror row.
MirrorsAreHeld == \A q \in mirrors : at[q] \in Keeping

\* The next statement of r returns, or InnoDB finds r in a deadlock and ends it.
Released(r) == WaitsFor(r) = {} \/ \E q \in WaitsFor(r) : r \in WaitsFor(q)

\* r is released, or a transaction it waits for is.
SoonReleased(r) == Released(r) \/ \E q \in WaitsFor(r) : Released(q)

\* No submit waits for ever: it goes on, it is in a deadlock of two, which InnoDB breaks,
\* or it waits, at most over one other, for one that goes on or is in such a deadlock.
\* Over one other only the INSERT of a mirror row waits, which holds no lock itself.
NobodyWaitsForEver ==
    \A r \in Submits :
        \/ SoonReleased(r)
        \/ at[r] = "mirroring" /\ \E q \in WaitsFor(r) : SoonReleased(q)

\* Lemma: every step keeps the exclusive lock exclusive.
LEMMA LocksKept ==
    ASSUME Inv, LocksExclude, [Next]_vars PROVE LocksExclude'
<1>1. ASSUME UNCHANGED sent,
             \A r \in Submits : at'[r] = at[r] \/ at'[r] \notin {"linked", "inserted", "counted"}
      PROVE  LocksExclude'
  BY <1>1 DEF LocksExclude
<1> USE DEF Inv, TypeOK, inputs, tables, locals, Goto, Answer, Requests
<1>2. ASSUME NEW r \in Submits, Link(r) PROVE LocksExclude'
  BY <1>2 DEF Link, WaitsFor, Exclusive, LocksExclude
<1>3. ASSUME NEW r \in Submits, Insert(r) PROVE LocksExclude'
  BY <1>3 DEF Insert, LocksExclude
<1>4. ASSUME NEW r \in Submits, Count(r) PROVE LocksExclude'
  BY <1>4 DEF Count, WaitsFor, Sharing, LocksExclude
<1>5. ASSUME NEW r \in Submits,
             \/ Begin(r) \/ Check(r) \/ FindRecruiter(r) \/ Mirror(r) \/ MirrorIsTaken(r)
             \/ Commit(r) \/ DuplicateKey(r) \/ Deadlock(r) \/ Crash(r)
      PROVE  LocksExclude'
  <2>1. /\ UNCHANGED sent
        /\ \E place \in {"began", "mirroring", "checked", "answered", "crashed"} :
              at' = [at EXCEPT ![r] = place]
    BY <1>5 DEF Begin, Check, FindRecruiter, Mirror, MirrorIsTaken, Decide, Commit,
                DuplicateKey, Deadlock, Crash, RollBack
  <2> QED
    BY <1>1, <2>1
<1>6. CASE \/ \E c \in Closes : ReadForClose(c) \/ Close(c)
           \/ \E x \in Recomputes : ReadForRecompute(x) \/ Recompute(x)
           \/ \E u \in Updates : ReadForUpdate(u) \/ UpdateStatus(u)
           \/ \E r \in Submits : Publish(r)
           \/ UNCHANGED vars
  <2>1. UNCHANGED sent /\ \A r \in Submits : at'[r] = at[r]
    BY <1>6, RequestsAssumption
       DEF ReadForClose, Close, ReadForRecompute, Recompute, ReadForUpdate, UpdateStatus,
           Publish, vars
  <2> QED
    BY <1>1, <2>1
<1> QED
  BY <1>2, <1>3, <1>4, <1>5, <1>6 DEF Next, Submit, Terminated

\* Lemma: every step keeps mirror rows with the transactions that hold them.
LEMMA MirrorsHeldKept ==
    ASSUME Inv, MirrorsAreHeld, [Next]_vars PROVE MirrorsAreHeld'
<1> USE DEF Inv, TypeOK, MirrorsAreHeld, inputs, tables, locals, Goto, Answer, Requests
<1>1. ASSUME UNCHANGED mirrors, \A r \in Submits : at'[r] = at[r] \/ at[r] \notin Keeping
      PROVE  MirrorsAreHeld'
  BY <1>1
<1>2. ASSUME NEW r \in Submits, Begin(r) \/ Check(r) \/ FindRecruiter(r) \/ MirrorIsTaken(r)
      PROVE  MirrorsAreHeld'
  BY <1>1, <1>2 DEF Begin, Arrives, Check, FindRecruiter, MirrorIsTaken, Decide, Keeping
<1>3. ASSUME NEW r \in Submits, Mirror(r) PROVE MirrorsAreHeld'
  BY <1>3, Decision DEF Mirror, Keeping
<1>4. ASSUME NEW r \in Submits, Link(r) \/ Insert(r) \/ Count(r) PROVE MirrorsAreHeld'
  BY <1>4 DEF Link, Insert, Count, Keeping
<1>5. ASSUME NEW r \in Submits, Commit(r) \/ DuplicateKey(r) \/ Deadlock(r) \/ Crash(r)
      PROVE  MirrorsAreHeld'
  <2>1. /\ mirrors' = mirrors \ {r} /\ \A q \in Submits \ {r} : at'[q] = at[q]
    BY <1>5 DEF Commit, DuplicateKey, Deadlock, Crash, RollBack
  <2> QED
    BY <2>1
<1>6. CASE \/ \E c \in Closes : ReadForClose(c) \/ Close(c)
           \/ \E x \in Recomputes : ReadForRecompute(x) \/ Recompute(x)
           \/ \E u \in Updates : ReadForUpdate(u) \/ UpdateStatus(u)
           \/ \E r \in Submits : Publish(r)
           \/ UNCHANGED vars
  <2>1. UNCHANGED mirrors /\ \A r \in Submits : at'[r] = at[r]
    BY <1>6, RequestsAssumption
       DEF ReadForClose, Close, ReadForRecompute, Recompute, ReadForUpdate, UpdateStatus,
           Publish, vars
  <2> QED
    BY <1>1, <2>1
<1> QED
  BY <1>2, <1>3, <1>4, <1>5, <1>6 DEF Next, Submit, Terminated

\* Lemma: a submit that waits for a row key waits for one that waits for its lock.
LEMMA RivalsDeadlock ==
    ASSUME Inv, LocksExclude, NEW r \in Submits, at[r] = "linked" PROVE Released(r)
<1> SUFFICES ASSUME NEW q \in Rivals(r) PROVE r \in WaitsFor(q)
  BY DEF Released, WaitsFor
<1>1. q \in Submits /\ q # r /\ at[q] \in {"inserted", "counted"} /\ sent[q].job = sent[r].job
  BY AppsAssumption DEF Rivals, SameKey, JobOf
<1>2. at[q] = "inserted"
  BY <1>1 DEF LocksExclude
<1> QED
  BY <1>1, <1>2 DEF WaitsFor, Sharing

\* Lemma: a submit past every read is released, or waits for one that is.
LEMMA KeepersAreReleased ==
    ASSUME Inv, LocksExclude, NEW r \in Submits, at[r] # "mirroring" PROVE SoonReleased(r)
<1> SUFFICES ASSUME ~Released(r)
             PROVE  \E q \in WaitsFor(r) : Released(q)
  BY DEF SoonReleased
<1>1. PICK q \in WaitsFor(r) : TRUE
  BY DEF Released
<1>2. CASE at[r] = "checked"
  <2>1. q \in Submits /\ at[q] = "counted"
    BY <1>1, <1>2 DEF WaitsFor, Exclusive
  <2> QED
    BY <1>1, <2>1 DEF WaitsFor, Released
<1>3. CASE at[r] = "inserted"
  <2>1. q \in Submits /\ q # r /\ at[q] \in {"linked", "inserted"} /\ sent[q].job = sent[r].job
    BY <1>1, <1>3 DEF WaitsFor, Sharing
  <2>2. at[q] = "inserted" => r \in WaitsFor(q)
    BY <1>3, <2>1 DEF WaitsFor, Sharing
  <2> QED
    BY <1>1, <2>1, <2>2, RivalsDeadlock DEF Released
<1>4. at[r] # "linked"
  BY RivalsDeadlock
<1> QED
  BY <1>1, <1>2, <1>3, <1>4 DEF WaitsFor

\* However submits wait for one another, one of every chain is released: neither a chain
\* nor a cycle of waiting transactions lasts.  A transaction that waits to insert a mirror
\* row holds no lock, so no cycle goes through it.
THEOREM WaitsEnd == Spec => []NobodyWaitsForEver
<1>1. Init => LocksExclude /\ MirrorsAreHeld
  BY DEF Init, LocksExclude, MirrorsAreHeld, Requests
<1>2. Inv /\ LocksExclude /\ MirrorsAreHeld => NobodyWaitsForEver
  <2> SUFFICES ASSUME Inv, LocksExclude, MirrorsAreHeld, NEW r \in Submits, at[r] = "mirroring"
               PROVE  SoonReleased(r) \/ \E q \in WaitsFor(r) : SoonReleased(q)
    BY KeepersAreReleased DEF NobodyWaitsForEver
  <2>1. CASE WaitsFor(r) = {}
    BY <2>1 DEF SoonReleased, Released
  <2>2. ASSUME NEW q \in WaitsFor(r) PROVE SoonReleased(q)
    <3>1. q \in Submits /\ at[q] # "mirroring"
      BY <2>2 DEF WaitsFor, Mirroring, MirrorsAreHeld, Keeping, Inv, TypeOK
    <3> QED
      BY <3>1, KeepersAreReleased
  <2> QED
    BY <2>1, <2>2
<1>3. Inv /\ LocksExclude /\ MirrorsAreHeld /\ [Next]_vars => LocksExclude' /\ MirrorsAreHeld'
  BY LocksKept, MirrorsHeldKept
<1> QED
  BY <1>1, <1>2, <1>3, Invariance, PTL DEF Spec

-------------------------------------------------------------------------------
(* Late requests.                                                          *)

\* An update about to overwrite an offer has been overtaken by the update that made it.
OfferIsLostToOverlap ==
    \A u \in Updates :
        /\ at[u] = "read" /\ row[ordered[u].application] = "offer"
        => \E w \in Updates \ {u} :
              /\ reply[w] = 200
              /\ ordered[w] = [application |-> ordered[u].application, status |-> "offer"]

\* A status update that is answered has ended.
RepliesAreLast == \A u \in Updates : reply[u] # 0 => at[u] = "answered"

\* Lemma: every step keeps both.
LEMMA OverlapKept ==
    ASSUME Inv, RepliesAreLast, OfferIsLostToOverlap, [Next]_vars
    PROVE  RepliesAreLast' /\ OfferIsLostToOverlap'
<1> USE DEF Inv, TypeOK, inputs, tables, locals, Goto, Answer, Requests, Arrives
<1>1. ASSUME UNCHANGED <<ordered, row>>, \A u \in Updates : at'[u] = at[u] /\ reply'[u] = reply[u]
      PROVE  RepliesAreLast' /\ OfferIsLostToOverlap'
  BY <1>1 DEF RepliesAreLast, OfferIsLostToOverlap
<1>2. ASSUME NEW r \in Submits, Submit(r) \/ Crash(r)
      PROVE  RepliesAreLast' /\ OfferIsLostToOverlap'
  <2>1. UNCHANGED ordered /\ \A u \in Updates : at'[u] = at[u] /\ reply'[u] = reply[u]
    BY <1>2, RequestsAssumption
       DEF Submit, Begin, Check, FindRecruiter, Mirror, MirrorIsTaken, Decide, Link, Insert,
           Count, Commit, DuplicateKey, Deadlock, Crash, RollBack
  <2>2. \A a \in Apps : row'[a] = row[a] \/ row'[a] = "submitted"
    BY <1>2 DEF Submit, Begin, Check, FindRecruiter, Mirror, MirrorIsTaken, Decide, Link, Insert,
                Count, Commit, DuplicateKey, Deadlock, Crash, RollBack
  <2>3. \A u \in Updates : ordered[u].application \in Apps
    BY BodiesAssumption
  <2> QED
    BY <2>1, <2>2, <2>3 DEF RepliesAreLast, OfferIsLostToOverlap
<1>3. ASSUME NEW u \in Updates, ReadForUpdate(u)
      PROVE  RepliesAreLast' /\ OfferIsLostToOverlap'
  <2>1. row[ordered[u].application] = "offer" => at'[u] # "read"
    BY <1>3 DEF ReadForUpdate, Allowed, Targets
  <2>2. /\ at[u] = "new" /\ reply[u] = 0 /\ UNCHANGED <<ordered, row>>
        /\ at'[u] \in {"answered", "read"} /\ (at'[u] = "read" => reply'[u] = 0)
        /\ \A w \in Updates \ {u} : at'[w] = at[w] /\ reply'[w] = reply[w]
    BY <1>3 DEF ReadForUpdate, RepliesAreLast
  <2>3. RepliesAreLast'
    BY <2>2 DEF RepliesAreLast
  <2>4. OfferIsLostToOverlap'
    BY <2>1, <2>2 DEF OfferIsLostToOverlap
  <2> QED
    BY <2>3, <2>4
<1>4. ASSUME NEW u \in Updates, UpdateStatus(u)
      PROVE  RepliesAreLast' /\ OfferIsLostToOverlap'
  <2>1. ordered[u].application \in Apps /\ ordered[u].status \in Statuses
        /\ ordered[u] = [application |-> ordered[u].application, status |-> ordered[u].status]
    BY BodiesAssumption
  <2>2. /\ at[u] = "read" /\ reply[u] = 0 /\ UNCHANGED ordered
        /\ at'[u] = "answered" /\ reply'[u] = 200
        /\ row' = [row EXCEPT ![ordered[u].application] = ordered[u].status]
        /\ \A w \in Updates \ {u} : at'[w] = at[w] /\ reply'[w] = reply[w]
    BY <1>4 DEF UpdateStatus, RepliesAreLast
  <2>3. RepliesAreLast'
    BY <2>2 DEF RepliesAreLast
  <2>4. OfferIsLostToOverlap'
    <3> SUFFICES ASSUME NEW v \in Updates, at'[v] = "read", row'[ordered[v].application] = "offer"
                 PROVE  \E w \in Updates \ {v} :
                           /\ reply'[w] = 200
                           /\ ordered[w] = [application |-> ordered[v].application, status |-> "offer"]
      BY <2>2 DEF OfferIsLostToOverlap
    <3>1. v # u /\ at[v] = "read"
      BY <2>2
    <3>2. CASE ordered[v].application = ordered[u].application
      <4>1. ordered[u].status = "offer"
        BY <2>1, <2>2, <3>2
      <4> QED
        BY <2>1, <2>2, <3>1, <3>2, <4>1
    <3>3. CASE ordered[v].application # ordered[u].application
      <4>1. row[ordered[v].application] = "offer"
        BY <2>1, <2>2, <3>3, BodiesAssumption
      <4>2. PICK w \in Updates \ {v} :
              /\ reply[w] = 200
              /\ ordered[w] = [application |-> ordered[v].application, status |-> "offer"]
        BY <3>1, <4>1 DEF OfferIsLostToOverlap
      <4>3. w # u
        BY <2>2, <4>2
      <4> QED
        BY <2>2, <4>2, <4>3
    <3> QED
      BY <3>2, <3>3
  <2> QED
    BY <2>3, <2>4
<1>5. CASE \/ \E c \in Closes : ReadForClose(c) \/ Close(c)
           \/ \E x \in Recomputes : ReadForRecompute(x) \/ Recompute(x)
           \/ \E r \in Submits : Publish(r)
           \/ UNCHANGED vars
  <2>1. UNCHANGED <<ordered, row>> /\ \A u \in Updates : at'[u] = at[u] /\ reply'[u] = reply[u]
    BY <1>5, RequestsAssumption
       DEF ReadForClose, Close, ReadForRecompute, Recompute, Publish, vars
  <2> QED
    BY <1>1, <2>1
<1> QED
  BY <1>2, <1>3, <1>4, <1>5 DEF Next, Terminated

\* What OfferIsTerminal says is broken by two status updates that overlap and by nothing
\* else: the one that undoes an offer has read the row before the other made it.
THEOREM OfferLostToOverlap == Spec => []OfferIsLostToOverlap
<1>1. Init => RepliesAreLast /\ OfferIsLostToOverlap
  BY DEF Init, RepliesAreLast, OfferIsLostToOverlap, Requests
<1> QED
  BY <1>1, OverlapKept, Invariance, PTL DEF Spec

\* Submit r has not read an open job, and has nothing stored.
Refused(r) ==
    /\ jobStatus[sent[r].job] = "closed" /\ r \notin stored
    /\ \/ at[r] \in {"new", "answered", "crashed"}
       \/ at[r] \in {"began", "mirroring"} /\ ~snapshot[r].open

\* Lemma: a submit that has not read an open job never does.
LEMMA RefusedKept ==
    ASSUME Inv, NEW r \in Submits, Refused(r), [Next]_vars PROVE Refused(r)'
<1> USE DEF Inv, TypeOK, inputs, tables, locals, Goto, Answer, Requests, Arrives
<1>1. sent[r].job \in Jobs /\ r \in Apps /\ row[r] = "none"
  BY BodiesAssumption DEF Refused, stored, Apps
<1>2. ASSUME UNCHANGED sent, jobStatus' = jobStatus, row'[r] = "none",
             \/ /\ at'[r] = at[r] \/ (at[r] = "began" /\ at'[r] = "mirroring")
                /\ at[r] \in {"began", "mirroring"} => snapshot'[r] = snapshot[r]
             \/ at'[r] \in {"answered", "crashed"}
      PROVE  Refused(r)'
  BY <1>1, <1>2 DEF Refused, stored
<1>3. ASSUME NEW q \in Submits, Submit(q) \/ Crash(q) PROVE Refused(r)'
  <2>1. CASE q # r
    <3>1. /\ UNCHANGED <<sent, jobStatus>> /\ row'[r] = row[r] /\ at'[r] = at[r]
          /\ snapshot'[r] = snapshot[r]
      <4>1. CASE Begin(q) \/ Check(q) \/ FindRecruiter(q) \/ Mirror(q) \/ MirrorIsTaken(q)
        BY <2>1, <4>1 DEF Begin, Check, FindRecruiter, Mirror, MirrorIsTaken, Decide
      <4>2. CASE Link(q) \/ Insert(q) \/ Count(q)
        BY <2>1, <4>2 DEF Link, Insert, Count
      <4>3. CASE Commit(q)
        <5>1. /\ UNCHANGED <<sent, jobStatus, snapshot>> /\ at' = [at EXCEPT ![q] = "answered"]
              /\ row' = [row EXCEPT ![q] = "submitted"]
          BY <4>3 DEF Commit
        <5> QED
          BY <2>1, <5>1
      <4>4. CASE DuplicateKey(q) \/ Deadlock(q) \/ Crash(q)
        BY <2>1, <4>4 DEF DuplicateKey, Deadlock, Crash, RollBack
      <4> QED
        BY <1>3, <4>1, <4>2, <4>3, <4>4 DEF Submit
    <3> QED
      BY <1>1, <1>2, <3>1
  <2>2. CASE q = r /\ Begin(r)
    <3>1. /\ UNCHANGED <<sent, jobStatus, row>> /\ at'[r] = "began"
          /\ snapshot'[r].open = (jobStatus[sent[r].job] = "open")
      BY <2>2 DEF Begin
    <3> QED
      BY <1>1, <3>1 DEF Refused, stored
  <2>3. CASE q = r /\ (Check(r) \/ Mirror(r) \/ MirrorIsTaken(r))
    <3>1. PICK m : Decide(r, m)
      BY <2>3 DEF Check, Mirror, MirrorIsTaken
    <3>2. ~snapshot[r].open
      BY <2>3 DEF Check, Mirror, MirrorIsTaken, Refused
    <3>3. at'[r] = "answered" /\ UNCHANGED <<sent, jobStatus, row>>
      BY <3>1, <3>2 DEF Decide, Refusal
    <3> QED
      BY <1>1, <1>2, <3>3
  <2>4. CASE q = r /\ FindRecruiter(r)
    BY <1>1, <1>2, <2>4 DEF FindRecruiter
  <2>5. CASE q = r /\ Crash(r)
    BY <1>1, <1>2, <2>5 DEF Crash, RollBack
  <2>6. CASE q = r /\ (Link(r) \/ Insert(r) \/ Count(r) \/ Commit(r) \/ DuplicateKey(r) \/ Deadlock(r))
    <3>1. at[r] \in {"checked", "linked", "inserted", "counted"} \/ WaitsFor(r) # {}
      BY <2>6 DEF Link, Insert, Count, Commit, DuplicateKey, Deadlock
    <3>2. at[r] = "mirroring" /\ Deadlock(r)
      BY <2>6, <3>1 DEF Link, Insert, Count, Commit, DuplicateKey, WaitsFor, Refused
    <3> QED
      BY <1>1, <1>2, <3>2 DEF Deadlock, RollBack
  <2> QED
    BY <1>3, <2>1, <2>2, <2>3, <2>4, <2>5, <2>6 DEF Submit
<1>4. ASSUME NEW c \in Closes, ReadForClose(c) \/ Close(c) PROVE Refused(r)'
  BY <1>1, <1>4, RequestsAssumption DEF ReadForClose, Close, Refused, stored
<1>5. ASSUME NEW x \in Recomputes, ReadForRecompute(x) \/ Recompute(x) PROVE Refused(r)'
  BY <1>1, <1>2, <1>5, RequestsAssumption DEF ReadForRecompute, Recompute
<1>6. ASSUME NEW u \in Updates, ReadForUpdate(u) \/ UpdateStatus(u) PROVE Refused(r)'
  <2>1. UNCHANGED <<sent, jobStatus, snapshot>> /\ at'[r] = at[r]
    BY <1>6, RequestsAssumption DEF ReadForUpdate, UpdateStatus
  <2>2. row'[r] = "none"
    BY <1>1, <1>6 DEF ReadForUpdate, UpdateStatus, RowsAreCommitted
  <2> QED
    BY <1>2, <2>1, <2>2
<1>7. ASSUME NEW q \in Submits, Publish(q) PROVE Refused(r)'
  BY <1>1, <1>2, <1>7 DEF Publish
<1>8. CASE UNCHANGED vars
  BY <1>1, <1>2, <1>8 DEF vars
<1> QED
  BY <1>3, <1>4, <1>5, <1>6, <1>7, <1>8 DEF Next, Terminated

\* Only a submit that read the job before it was closed can store an application
\* afterwards: one that begins once the job is closed never does.
THEOREM TooLateToApply ==
    ASSUME NEW r \in Submits
    PROVE  Spec => [](/\ at[r] = "new" /\ jobStatus[sent[r].job] = "closed"
                      => [](r \notin stored))
<1>1. Inv /\ at[r] = "new" /\ jobStatus[sent[r].job] = "closed" => Refused(r)
  BY DEF Inv, RowsAreCommitted, Refused, stored
<1>2. Inv /\ Refused(r) /\ [Next]_vars => Refused(r)'
  BY RefusedKept
<1>3. Refused(r) => r \notin stored
  BY DEF Refused
<1> QED
  BY <1>1, <1>2, <1>3, Invariance, PTL DEF Spec

\* There is a members row that the recruiter m's mirror row would clash with: m's own,
\* stored by a submit of m, or the row of another account with m's e-mail.
MirrorIsBarred(m) ==
    \/ \E n \in memberRows : n # m /\ Clash(n, m)
    \/ \E q \in Submits : sent[q].member = m /\ reply[q] \in {201, 409}

\* A recruiter who is told that the member was not found was overtaken by another submit of
\* the same recruiter, which stored the mirror row that the old snapshot does not show, or
\* has the e-mail of another account's members row.
RecruiterIsLostToAnother ==
    \A r \in Submits :
        reply[r] = 404 /\ sent[r].member \in Recruiters => MirrorIsBarred(sent[r].member)

\* A recruiter's members row was stored by a submit of that recruiter; one that was not
\* found cannot be mirrored; and a submit that is answered has ended.
MirrorsAreSubmitted ==
    /\ \A m \in memberRows \cap Recruiters :
          \E q \in Submits : sent[q].member = m /\ reply[q] \in {201, 409}
    /\ \A r \in Submits : reply[r] = 404 /\ sent[r].member \in Recruiters
          => \E n \in memberRows : Clash(n, sent[r].member)
    /\ \A r \in Submits : reply[r] # 0 => at[r] = "answered"

\* Lemma: an answer to r keeps it, if every row it leaves behind is r's own and r is told
\* so, and r is not told 404 without such a row.
LEMMA MirrorsOfAnAnswer ==
    ASSUME MirrorsAreSubmitted, NEW r \in Submits,
           UNCHANGED sent, reply[r] = 0, at'[r] = "answered",
           \A q \in Submits \ {r} : reply'[q] = reply[q] /\ at'[q] = at[q],
           memberRows \subseteq memberRows',
           \A m \in memberRows' \ memberRows : m = sent[r].member /\ reply'[r] \in {201, 409},
           reply'[r] = 404 /\ sent[r].member \in Recruiters
              => \E n \in memberRows : Clash(n, sent[r].member)
    PROVE  MirrorsAreSubmitted'
<1>1. ASSUME NEW m \in memberRows' \cap Recruiters
      PROVE  \E q \in Submits : sent[q].member = m /\ reply'[q] \in {201, 409}
  <2>1. CASE m \in memberRows
    <3>1. PICK q \in Submits : sent[q].member = m /\ reply[q] \in {201, 409}
      BY <2>1, <1>1 DEF MirrorsAreSubmitted
    <3>2. q # r
      BY <3>1
    <3> QED
      BY <3>1, <3>2
  <2>2. CASE m \notin memberRows
    BY <1>1, <2>2
  <2> QED
    BY <2>1, <2>2
<1>2. ASSUME NEW q \in Submits, reply'[q] = 404, sent[q].member \in Recruiters
      PROVE  \E n \in memberRows' : Clash(n, sent[q].member)
  BY <1>2 DEF MirrorsAreSubmitted
<1>3. \A q \in Submits : reply'[q] # 0 => at'[q] = "answered"
  BY DEF MirrorsAreSubmitted
<1> QED
  BY <1>1, <1>2, <1>3 DEF MirrorsAreSubmitted, Clash

\* Lemma: every step keeps it.
LEMMA MirrorsKept ==
    ASSUME Inv, MirrorsAreSubmitted, [Next]_vars PROVE MirrorsAreSubmitted'
<1> USE DEF Inv, TypeOK, inputs, tables, locals, Goto, Answer, Requests, Arrives
<1>1. ASSUME UNCHANGED <<sent, memberRows>>,
             \A r \in Submits :
                \/ at'[r] = at[r] /\ reply'[r] = reply[r]
                \/ reply[r] = 0 /\ reply'[r] = 0
                \/ reply[r] = 0 /\ reply'[r] = 500 /\ at'[r] = "answered"
      PROVE  MirrorsAreSubmitted'
  BY <1>1 DEF MirrorsAreSubmitted, Clash
<1>2. \A r \in Submits : at[r] # "answered" => reply[r] = 0
  BY DEF MirrorsAreSubmitted
<1>3. ASSUME NEW r \in Submits, Check(r) \/ Mirror(r) \/ MirrorIsTaken(r)
      PROVE  MirrorsAreSubmitted'
  <2>1. PICK m \in Accounts \cup {NoOne} :
          /\ Decide(r, m)
          /\ \/ Check(r) /\ Resolves(r, m)
             \/ Mirror(r) /\ m = sent[r].member
             \/ MirrorIsTaken(r)
    BY <1>3, BodiesAssumption DEF Check, Mirror, MirrorIsTaken
  <2>2. UNCHANGED sent /\ reply[r] = 0
    BY <1>2, <1>3, <2>1, Decision DEF Check, Mirror, MirrorIsTaken
  <2>3. CASE Refusal(r, m) = 0
    <3>1. UNCHANGED memberRows
      BY <1>3, <2>1, <2>3 DEF Check, Mirror, MirrorIsTaken
    <3>2. at' = [at EXCEPT ![r] = "checked"] /\ UNCHANGED reply
      BY <2>1, <2>3, Decision
    <3> QED
      BY <1>1, <2>2, <3>1, <3>2
  <2>4. CASE Refusal(r, m) # 0
    <3>1. /\ reply'[r] = Refusal(r, m) /\ at'[r] = "answered"
          /\ \A q \in Submits \ {r} : reply'[q] = reply[q] /\ at'[q] = at[q]
      BY <2>1, <2>4, Decision
    <3>2. Refusal(r, m) \in {404, 409} /\ (Refusal(r, m) = 404 => m = NoOne)
      BY <2>1, <2>4, Decision
    <3>3. sent[r].member \in Accounts
      BY BodiesAssumption
    <3>4. CASE Check(r) /\ Resolves(r, m)
      <4>1. UNCHANGED memberRows
        BY <3>4 DEF Check
      <4>2. m = NoOne => sent[r].member \notin Recruiters
        BY <3>3, <3>4, AccountsAssumption DEF Check, NeedsMirror, Resolves, Accounts
      <4> HIDE DEF Inv, TypeOK
      <4> QED
        BY <2>2, <3>1, <3>2, <4>1, <4>2, MirrorsOfAnAnswer
    <3>5. CASE Mirror(r) /\ m = sent[r].member
      <4>1. m # NoOne
        BY <3>3, <3>5, AccountsAssumption DEF Accounts
      <4>2. memberRows' = memberRows \cup {sent[r].member}
        BY <2>4, <3>5 DEF Mirror, MirrorRow
      <4> HIDE DEF Inv, TypeOK
      <4> QED
        BY <2>2, <3>1, <3>2, <4>1, <4>2, MirrorsOfAnAnswer
    <3>6. CASE MirrorIsTaken(r)
      <4>1. UNCHANGED memberRows /\ \E n \in memberRows : Clash(n, sent[r].member)
        BY <3>6 DEF MirrorIsTaken, MirrorTaken
      <4> HIDE DEF Inv, TypeOK
      <4> QED
        BY <2>2, <3>1, <3>2, <4>1, MirrorsOfAnAnswer
    <3> QED
      BY <2>1, <3>4, <3>5, <3>6
  <2> QED
    BY <2>3, <2>4
<1>4. ASSUME NEW r \in Submits, Commit(r) PROVE MirrorsAreSubmitted'
  <2>1. /\ UNCHANGED sent /\ reply[r] = 0
        /\ reply'[r] = 201 /\ at'[r] = "answered"
        /\ \A q \in Submits \ {r} : reply'[q] = reply[q] /\ at'[q] = at[q]
    BY <1>2, <1>4 DEF Commit
  <2>2. memberRows' = IF r \in mirrors THEN memberRows \cup {sent[r].member} ELSE memberRows
    BY <1>4 DEF Commit, MirrorRow
  <2>3. /\ memberRows \subseteq memberRows'
        /\ \A x \in memberRows' \ memberRows : x = sent[r].member
    BY <2>2
  <2> HIDE DEF Inv, TypeOK
  <2> QED
    BY <2>1, <2>3, MirrorsOfAnAnswer
<1>5. ASSUME NEW r \in Submits,
             \/ Begin(r) \/ FindRecruiter(r) \/ Link(r) \/ Insert(r) \/ Count(r) \/ Publish(r)
             \/ DuplicateKey(r) \/ Deadlock(r) \/ Crash(r)
      PROVE  MirrorsAreSubmitted'
  <2>1. CASE Begin(r) \/ FindRecruiter(r) \/ Link(r) \/ Insert(r) \/ Count(r)
    <3>1. /\ UNCHANGED <<sent, memberRows, reply>> /\ at[r] # "answered"
          /\ \E place \in Places : at' = [at EXCEPT ![r] = place]
      BY <2>1 DEF Begin, FindRecruiter, Link, Insert, Count, Places
    <3> QED
      BY <1>1, <1>2, <3>1
  <2>2. CASE Publish(r)
    BY <1>1, <2>2 DEF Publish
  <2>3. CASE DuplicateKey(r) \/ Deadlock(r) \/ Crash(r)
    <3>1. /\ UNCHANGED <<sent, memberRows>> /\ at[r] # "answered"
          /\ \/ at' = [at EXCEPT ![r] = "crashed"] /\ UNCHANGED reply
             \/ at' = [at EXCEPT ![r] = "answered"] /\ reply' = [reply EXCEPT ![r] = 500]
      BY <2>3 DEF DuplicateKey, Deadlock, Crash, RollBack, WaitsFor, Keeping
    <3> QED
      BY <1>1, <1>2, <3>1
  <2> QED
    BY <1>5, <2>1, <2>2, <2>3
<1>6. CASE \/ \E c \in Closes : ReadForClose(c) \/ Close(c)
           \/ \E x \in Recomputes : ReadForRecompute(x) \/ Recompute(x)
           \/ \E u \in Updates : ReadForUpdate(u) \/ UpdateStatus(u)
           \/ UNCHANGED vars
  <2>1. /\ UNCHANGED <<sent, memberRows>>
        /\ \A r \in Submits : at'[r] = at[r] /\ reply'[r] = reply[r]
    BY <1>6, RequestsAssumption
       DEF ReadForClose, Close, ReadForRecompute, Recompute, ReadForUpdate, UpdateStatus, vars
  <2> QED
    BY <1>1, <2>1
<1> QED
  BY <1>3, <1>4, <1>5, <1>6 DEF Next, Submit, Terminated

\* A submit breaks RecruiterIsFound only if another submit of the same recruiter stored the
\* row, or another account's row has the recruiter's e-mail.
THEOREM RecruiterLostToAnother == Spec => []RecruiterIsLostToAnother
<1>1. Init => MirrorsAreSubmitted
  BY AccountsAssumption DEF Init, MirrorsAreSubmitted, Requests
<1>2. MirrorsAreSubmitted => RecruiterIsLostToAnother
  <2> SUFFICES ASSUME MirrorsAreSubmitted, NEW r \in Submits, reply[r] = 404,
                      sent[r].member \in Recruiters
               PROVE  MirrorIsBarred(sent[r].member)
    BY DEF RecruiterIsLostToAnother
  <2>1. PICK n \in memberRows : Clash(n, sent[r].member)
    BY DEF MirrorsAreSubmitted
  <2> QED
    BY <2>1 DEF MirrorsAreSubmitted, MirrorIsBarred
<1> QED
  BY <1>1, <1>2, MirrorsKept, Invariance, PTL DEF Spec
===============================================================================
