------------------------------- MODULE Accounts -------------------------------
(***************************************************************************)
(* Accounts of the Profile service: sign-up, login, profile update and     *)
(* deletion (profile/src/routes/members.js, recruiters.js, auth.js) over   *)
(* one pool of MySQL connections (db/mysql.js).                            *)
(*                                                                         *)
(* Each statement is a step.  pool.query runs a statement on any free      *)
(* connection; a handler with a transaction keeps one.  Of InnoDB          *)
(* (REPEATABLE READ) the model has what decides here: writes of an open    *)
(* transaction are pending and lock their rows, its SELECTs see the        *)
(* snapshot of its first one and its own writes, and START TRANSACTION     *)
(* commits what is open on the connection.                                 *)
(***************************************************************************)
EXTENDS Naturals, FiniteSets

CONSTANTS
    Emails,
    Connections, \* of the pool
    Existing,    \* accounts that exist already
    Applied,     \* those of them that have applied for a job
    Signups,     \* POST /members and /members/create
    Recruits,    \* /recruiters/create
    Logins,      \* /auth/login
    Googles,     \* /auth/google
    Updates,     \* PUT /members/:id and /members/update
    Deletes,     \* DELETE /members/:id and /members/delete
    EmailOf,     \* EmailOf[x]: the e-mail of a request's account or of an existing account
    TargetOf,    \* TargetOf[r]: the account that an update or a delete names
    ListsOf,     \* ListsOf[u]: what update u makes of the details: "kept", "emptied", "replaced"
    None,        \* no row, no connection, no account
    MaxSent,     \* bound on the requests that begin
    MaxFaults    \* bound on failing statements and restarts

InTransaction == Signups \cup Updates \cup Deletes
Lookups  == Logins \cup Googles
Requests == InTransaction \cup Recruits \cup Lookups

\* A new account gets a fresh id: that of the request that creates it.
Ids == Existing \cup Requests

ASSUME RequestsAssumption ==
    /\ Signups \cap (Updates \cup Deletes \cup Recruits \cup Lookups) = {}
    /\ Updates \cap (Deletes \cup Recruits \cup Lookups) = {}
    /\ Deletes \cap (Recruits \cup Lookups) = {}
    /\ Recruits \cap Lookups = {} /\ Logins \cap Googles = {}
    /\ Existing \cap Requests = {} /\ Applied \subseteq Existing
    /\ EmailOf \in [Ids -> Emails] /\ TargetOf \in [Updates \cup Deletes -> Existing]
    /\ \A r \in Updates \cup Deletes : EmailOf[r] = EmailOf[TargetOf[r]]
    /\ None \notin Ids \cup Connections
ASSUME ListsAssumption == ListsOf \in [Updates -> {"kept", "emptied", "replaced"}]
ASSUME BoundsAssumption == IsFiniteSet(Requests) /\ MaxSent \in Nat /\ MaxFaults \in Nat

\* Rows: of members and recruiters by e-mail (UNIQUE), an account's skills, experience and
\* education by its id.
Rows == ({"members", "recruiters"} \X Emails) \cup ({"details"} \X Ids)
Member(x)    == <<"members", EmailOf[x]>>
Recruiter(x) == <<"recruiters", EmailOf[x]>>
Details(x)   == <<"details", x>>

VARIABLES
    db,          \* db[k]: the id in the committed row k, None if there is no row
    open,        \* connections with an open transaction
    pending,     \* pending[c]: the rows the transaction on c has written
    snapshot,    \* snapshot[c]: what its SELECTs see, None before the first
    on,          \* on[r]: the connection request r keeps
    at,          \* at[r]: where request r is
    reply,       \* reply[r]: HTTP status answered, 0 while there is none
    account,     \* account[r]: the account r was answered with
    carried,     \* creations that wrote into a transaction left open (history)
    faults

vars == <<db, open, pending, snapshot, on, at, reply, account, carried, faults>>

Places == {"new", "begun", "ready", "mirroring", "updated", "erased", "wrote",
           "stored", "gone", "unknown", "signup", "duplicate", "half", "answered", "crashed"}

Contents == [Rows -> Ids \cup {None}]

TypeOK ==
    /\ db \in Contents
    /\ open \in SUBSET Connections
    /\ DOMAIN pending = Connections
    /\ \A c \in Connections :
          /\ DOMAIN pending[c] \subseteq Rows
          /\ \A k \in DOMAIN pending[c] : pending[c][k] \in Ids \cup {None}
          /\ c \notin open => DOMAIN pending[c] = {} /\ snapshot[c] = None
    /\ DOMAIN snapshot = Connections
    /\ \A c \in Connections : snapshot[c] = None \/ snapshot[c] \in Contents
    /\ on \in [Requests -> open \cup {None}]
    /\ \A r, q \in Requests : on[r] = on[q] /\ r # q => on[r] = None
    /\ at \in [Requests -> Places]
    /\ reply \in [Requests -> {0, 200, 201, 401, 404, 409, 500}]
    /\ account \in [Requests -> Ids \cup {None}]
    /\ carried \in SUBSET Requests
    /\ faults \in 0..MaxFaults

\* Existing members have their details; some recruiters have no row in members yet.
Init ==
    /\ \E unmirrored \in SUBSET (Existing \ Applied) :
       /\ \A x, y \in Existing :
             EmailOf[x] = EmailOf[y] /\ (x \in unmirrored <=> y \in unmirrored) => x = y
       /\ db = [k \in Rows |->
                  IF k[1] = "details"
                  THEN IF k[2] \in Existing \ unmirrored THEN k[2] ELSE None
                  ELSE LET owners == {x \in Existing : EmailOf[x] = k[2]
                                                    /\ (x \in unmirrored <=> k[1] = "recruiters")}
                       IN  IF owners = {} THEN None ELSE CHOOSE x \in owners : TRUE]
    /\ open = {}
    /\ pending = [c \in Connections |-> <<>>]
    /\ snapshot = [c \in Connections |-> None]
    /\ on = [r \in Requests |-> None]
    /\ at = [r \in Requests |-> "new"]
    /\ reply = [r \in Requests |-> 0]
    /\ account = [r \in Requests |-> None]
    /\ carried = {}
    /\ faults = 0

mysql == <<db, open, pending, snapshot>>
Fault   == faults < MaxFaults /\ faults' = faults + 1
NoFault == UNCHANGED faults

Goto(r, place) == at' = [at EXCEPT ![r] = place] /\ UNCHANGED <<reply, account>>

Answer(r, code, id) ==
    /\ at' = [at EXCEPT ![r] = "answered"]
    /\ reply' = [reply EXCEPT ![r] = code]
    /\ account' = [account EXCEPT ![r] = id]

-------------------------------------------------------------------------------
(* MySQL and the pool.                                                     *)

Free(c) == \A r \in Requests : on[r] # c

\* A request uses the connection it keeps, or any free one.
Uses(r, c) == IF on[r] # None THEN c = on[r] ELSE Free(c)

Over(base, writes) == [k \in Rows |-> IF k \in DOMAIN writes THEN writes[k] ELSE base[k]]

\* What a SELECT on c reads, and what an INSERT or a DELETE finds.
View(c)    == Over(IF snapshot[c] = None THEN db ELSE snapshot[c], pending[c])
Current(c) == Over(db, pending[c])

\* A SELECT on c.
Selects(c) ==
    /\ snapshot' = IF c \in open /\ snapshot[c] = None THEN [snapshot EXCEPT ![c] = db]
                                                       ELSE snapshot
    /\ UNCHANGED <<db, open, pending>>

\* Another transaction has written row k and is open.
Locked(c, k) == \E d \in Connections \ {c} : k \in DOMAIN pending[d]

\* A statement on c that makes id the content of row k.
Writes(c, k, id) ==
    /\ IF c \in open
       THEN /\ pending' = [pending EXCEPT ![c] =
                             [j \in DOMAIN @ \cup {k} |-> IF j = k THEN id ELSE @[j]]]
            /\ UNCHANGED db
       ELSE db' = [db EXCEPT ![k] = id] /\ UNCHANGED pending
    /\ UNCHANGED <<open, snapshot>>

\* The transaction on c ends, committed or not.
Closes(c, committed) ==
    /\ db' = IF committed THEN Current(c) ELSE db
    /\ open' = open \ {c}
    /\ pending' = [pending EXCEPT ![c] = <<>>]
    /\ snapshot' = [snapshot EXCEPT ![c] = None]

Releases(r) == on' = [on EXCEPT ![r] = None]

\* getConnection and beginTransaction.
Begin(r) ==
    /\ r \in InTransaction /\ at[r] = "new"
    /\ \E c \in Connections :
          /\ Free(c)
          /\ db' = Current(c)
          /\ open' = open \cup {c}
          /\ pending' = [pending EXCEPT ![c] = <<>>]
          /\ snapshot' = [snapshot EXCEPT ![c] = None]
          /\ on' = [on EXCEPT ![r] = c]
    /\ Goto(r, "begun")
    /\ NoFault /\ UNCHANGED carried

\* Mutant: the connection is given back without a COMMIT.
CommitForgotten(r) ==
    /\ at[r] = "wrote"
    /\ Releases(r)
    /\ \/ r \in Signups /\ Answer(r, 201, r)
       \/ r \in Updates /\ Goto(r, "stored")
       \/ r \in Deletes /\ Goto(r, "gone")
    /\ NoFault /\ UNCHANGED <<mysql, carried>>

Commit(r) ==
    /\ at[r] = "wrote"
    /\ Closes(on[r], TRUE) /\ Releases(r)
    /\ \/ r \in Signups /\ Answer(r, 201, r)
       \/ r \in Updates /\ Goto(r, "stored")
       \/ r \in Deletes /\ Goto(r, "gone")
    /\ NoFault /\ UNCHANGED carried

\* Mutant: the connection is not given back.
RollsBackKeeping(r, code) == Closes(on[r], FALSE) /\ Answer(r, code, None) /\ UNCHANGED on

RollsBack(r, code) == Closes(on[r], FALSE) /\ Releases(r) /\ Answer(r, code, None)

-------------------------------------------------------------------------------
(* Creation.                                                               *)

\* The INSERT of a creation: the UNIQUE e-mail decides, on committed rows.
Creates(r, c, k) ==
    /\ Writes(c, k, r)
    /\ carried' = IF on[r] = None /\ c \in open THEN carried \cup {r} ELSE carried

InsertSignup(r) ==
    LET c == on[r] IN
    /\ r \in Signups /\ at[r] = "begun" /\ ~Locked(c, Member(r))
    /\ IF Current(c)[Member(r)] # None
       THEN RollsBack(r, 409) /\ UNCHANGED carried
       ELSE Creates(r, c, Member(r)) /\ Goto(r, "wrote") /\ UNCHANGED on
    /\ NoFault

\* The recruiter's row and its mirror in members: two statements, no transaction.
InsertRecruiter(r) ==
    /\ r \in Recruits /\ at[r] = "new"
    /\ \E c \in Connections :
          /\ Uses(r, c) /\ ~Locked(c, Recruiter(r))
          /\ IF Current(c)[Recruiter(r)] # None
             THEN Answer(r, 409, None) /\ UNCHANGED <<mysql, carried>>
             ELSE Creates(r, c, Recruiter(r)) /\ Goto(r, "half")
    /\ NoFault /\ UNCHANGED on

InsertMirror(r) ==
    /\ at[r] = "half"
    /\ \E c \in Connections :
          /\ Uses(r, c) /\ ~Locked(c, Member(r))
          /\ IF Current(c)[Member(r)] # None
             THEN Answer(r, 409, None) /\ UNCHANGED <<mysql, carried>>
             ELSE Creates(r, c, Member(r)) /\ Answer(r, 201, r)
    /\ NoFault /\ UNCHANGED on

-------------------------------------------------------------------------------
(* Login, and Google's login that signs up whoever is unknown.             *)

\* What a SELECT by e-mail on c finds.
Found(r, c, table) == View(c)[<<table, EmailOf[r]>>]

LookMember(r) ==
    /\ r \in Lookups /\ at[r] = "new"
    /\ \E c \in Connections :
          /\ Uses(r, c) /\ Selects(c)
          /\ IF Found(r, c, "members") # None
             THEN Answer(r, 200, Found(r, c, "members"))
             ELSE Goto(r, "unknown")
    /\ NoFault /\ UNCHANGED <<on, carried>>

LookRecruiter(r) ==
    /\ at[r] = "unknown"
    /\ \E c \in Connections :
          /\ Uses(r, c) /\ Selects(c)
          /\ CASE Found(r, c, "recruiters") # None -> Answer(r, 200, Found(r, c, "recruiters"))
               [] Found(r, c, "recruiters") = None /\ r \in Googles -> Goto(r, "signup")
               [] OTHER -> Answer(r, 401, None)
    /\ NoFault /\ UNCHANGED <<on, carried>>

\* Mutant: a sign-up that lost the race answers with the id it drew itself.
InsertGoogleOrNot(r) ==
    /\ at[r] = "signup"
    /\ \E c \in Connections :
          /\ Uses(r, c) /\ ~Locked(c, Member(r))
          /\ IF Current(c)[Member(r)] # None
             THEN UNCHANGED <<mysql, carried>>
             ELSE Creates(r, c, Member(r))
    /\ Answer(r, 200, r)
    /\ NoFault /\ UNCHANGED on

InsertGoogle(r) ==
    /\ at[r] = "signup"
    /\ \E c \in Connections :
          /\ Uses(r, c) /\ ~Locked(c, Member(r))
          /\ IF Current(c)[Member(r)] # None
             THEN Goto(r, "duplicate") /\ UNCHANGED <<mysql, carried>>
             ELSE Creates(r, c, Member(r)) /\ Answer(r, 200, r)
    /\ NoFault /\ UNCHANGED on

\* "another request created it first": read it again, or raise.
Refetch(r) ==
    /\ at[r] = "duplicate"
    /\ \E c \in Connections :
          /\ Uses(r, c) /\ Selects(c)
          /\ IF Found(r, c, "members") # None
             THEN Answer(r, 200, Found(r, c, "members"))
             ELSE Answer(r, 500, None)
    /\ NoFault /\ UNCHANGED <<on, carried>>

-------------------------------------------------------------------------------
(* Update: ensureMemberRowForRecruiter, the member's row, its details.     *)

LookSelf(r) ==
    LET c == on[r] IN
    /\ r \in Updates /\ at[r] = "begun"
    /\ \/ View(c)[Member(r)] = TargetOf[r] /\ Goto(r, "ready") /\ Selects(c) /\ UNCHANGED on
       \/ /\ View(c)[Member(r)] # TargetOf[r] /\ View(c)[Recruiter(r)] = TargetOf[r]
          /\ Goto(r, "mirroring") /\ Selects(c) /\ UNCHANGED on
       \/ /\ TargetOf[r] \notin {View(c)[Member(r)], View(c)[Recruiter(r)]}
          /\ RollsBack(r, 404)
    /\ NoFault /\ UNCHANGED carried

\* The mirror of a recruiter; if its e-mail is taken nothing handles the error: 500.
Mirror(r) ==
    LET c == on[r] IN
    /\ at[r] = "mirroring" /\ ~Locked(c, Member(r))
    /\ IF Current(c)[Member(r)] # None
       THEN RollsBack(r, 500)
       ELSE Writes(c, Member(r), TargetOf[r]) /\ Goto(r, "ready") /\ UNCHANGED on
    /\ NoFault /\ UNCHANGED carried

\* If the body names no column of members there is only a SELECT, which sees what LookSelf
\* saw.
UpdateMember(r) ==
    LET c == on[r] IN
    /\ at[r] = "ready"
    /\ \/ /\ ~Locked(c, Member(r))
          /\ IF Current(c)[Member(r)] # TargetOf[r]
             THEN RollsBack(r, 404)
             ELSE Writes(c, Member(r), TargetOf[r]) /\ Goto(r, "updated") /\ UNCHANGED on
       \/ Goto(r, "updated") /\ UNCHANGED <<mysql, on>>
    /\ NoFault /\ UNCHANGED carried

\* The DELETE of all skills, experience and education that the body names, and the INSERT of
\* new ones.  The foreign keys of the details ask for the member: without it an INSERT raises,
\* but the INSERT IGNORE of skills is only silent.
ReplaceDetails(r) ==
    LET c == on[r]
        d == Details(TargetOf[r])
    IN
    /\ at[r] = "updated"
    /\ \/ ListsOf[r] = "kept" /\ Goto(r, "wrote") /\ UNCHANGED <<mysql, on>>
       \/ /\ ListsOf[r] = "emptied" /\ ~Locked(c, d)
          /\ Writes(c, d, None) /\ Goto(r, "wrote") /\ UNCHANGED on
       \/ /\ ListsOf[r] = "replaced" /\ ~Locked(c, d) /\ ~Locked(c, Member(r))
          /\ IF Current(c)[Member(r)] = TargetOf[r]
             THEN Writes(c, d, TargetOf[r]) /\ Goto(r, "wrote") /\ UNCHANGED on
             ELSE \/ RollsBack(r, 500)
                  \/ Writes(c, d, None) /\ Goto(r, "wrote") /\ UNCHANGED on
    /\ NoFault /\ UNCHANGED carried

\* After its COMMIT an update reads the member that it answers with.
Reread(r) ==
    /\ at[r] = "stored"
    /\ \E c \in Connections :
          /\ Uses(r, c) /\ Selects(c)
          /\ Answer(r, IF View(c)[Member(r)] = TargetOf[r] THEN 200 ELSE 404, None)
    /\ NoFault /\ UNCHANGED <<on, carried>>

-------------------------------------------------------------------------------
(* Delete: the details, then the member.                                   *)

\* Mutant: outside the transaction.
EraseDetailsAtOnce(r) ==
    /\ r \in Deletes /\ at[r] = "begun" /\ ~Locked(on[r], Details(TargetOf[r]))
    /\ db' = [db EXCEPT ![Details(TargetOf[r])] = None]
    /\ Goto(r, "erased")
    /\ NoFault /\ UNCHANGED <<open, pending, snapshot, on, carried>>

EraseDetails(r) ==
    LET c == on[r] IN
    /\ r \in Deletes /\ at[r] = "begun" /\ ~Locked(c, Details(TargetOf[r]))
    /\ Writes(c, Details(TargetOf[r]), None)
    /\ Goto(r, "erased")
    /\ NoFault /\ UNCHANGED <<on, carried>>

\* The connection goes back to the pool with its transaction open: only a 404 rolls back.
Leaks(r) == Releases(r) /\ Answer(r, 500, None) /\ UNCHANGED mysql

\* fk_applications_member refuses to delete a member with an application.
EraseMember(r) ==
    LET c == on[r] IN
    /\ at[r] = "erased" /\ ~Locked(c, Member(r))
    /\ \/ Current(c)[Member(r)] # TargetOf[r] /\ RollsBack(r, 404)
       \/ Current(c)[Member(r)] = TargetOf[r] /\ TargetOf[r] \in Applied /\ Leaks(r)
       \/ /\ Current(c)[Member(r)] = TargetOf[r] /\ TargetOf[r] \notin Applied
          /\ Writes(c, Member(r), None) /\ Goto(r, "wrote") /\ UNCHANGED on
    /\ NoFault /\ UNCHANGED carried

\* After its COMMIT a delete drops Redis copies, which cannot raise, and answers.
Deleted(r) ==
    /\ at[r] = "gone"
    /\ Answer(r, 200, None)
    /\ NoFault /\ UNCHANGED <<mysql, on, carried>>

-------------------------------------------------------------------------------
(* Errors and crashes.                                                     *)

InFlight(r) == at[r] \notin {"new", "answered", "crashed"}

\* What a handler does when a statement raises.
Catches(r) ==
    \/ r \in Deletes /\ Leaks(r)
    \/ r \notin Deletes /\ on[r] # None /\ RollsBack(r, 500)
    \/ r \notin Deletes /\ on[r] = None /\ Answer(r, 500, None) /\ UNCHANGED <<mysql, on>>

\* The rows that the next statement of r must lock, none if it only reads or ends.
Needs(r) ==
    CASE r \in Deletes /\ at[r] = "begun" -> {Details(TargetOf[r])}
      [] r \in Signups /\ at[r] = "begun" -> {Member(r)}
      [] r \in Recruits /\ at[r] = "new"  -> {Recruiter(r)}
      [] at[r] = "updated" /\ ListsOf[r] = "emptied"  -> {Details(TargetOf[r])}
      [] at[r] = "updated" /\ ListsOf[r] = "replaced" -> {Details(TargetOf[r]), Member(r)}
      [] at[r] \in {"half", "signup", "mirroring", "ready", "erased"} -> {Member(r)}
      [] OTHER                             -> {}

\* r waits for a row that the transaction on d has written.
WaitsFor(r, d) == d # on[r] /\ Needs(r) \cap DOMAIN pending[d] # {}

Fails(r) ==
    /\ InFlight(r) /\ at[r] # "gone" /\ Catches(r)
    /\ Fault /\ UNCHANGED carried

\* innodb_lock_wait_timeout: the statement raises, the transaction stays open.
TimesOut(r) ==
    /\ \E d \in Connections : WaitsFor(r, d)
    /\ Catches(r)
    /\ NoFault /\ UNCHANGED carried

\* Two transactions wait for each other: InnoDB rolls back one of them.
Deadlock(r) ==
    /\ on[r] # None
    /\ \E q \in Requests \ {r} : on[q] # None /\ WaitsFor(r, on[q]) /\ WaitsFor(q, on[r])
    /\ RollsBack(r, 500)
    /\ NoFault /\ UNCHANGED carried

\* The process dies and its connections with it.
Restart ==
    /\ at' = [r \in Requests |-> IF InFlight(r) THEN "crashed" ELSE at[r]]
    /\ on' = [r \in Requests |-> None]
    /\ open' = {}
    /\ pending' = [c \in Connections |-> <<>>]
    /\ snapshot' = [c \in Connections |-> None]
    /\ Fault
    /\ UNCHANGED <<db, reply, account, carried>>

\* Any of the requests may be among the MaxSent that arrive.
Step(r) ==
    /\ at[r] = "new" => Cardinality({q \in Requests : at[q] # "new"}) < MaxSent
    /\ \/ Begin(r) \/ Commit(r)
       \/ InsertSignup(r) \/ InsertRecruiter(r) \/ InsertMirror(r)
       \/ LookMember(r) \/ LookRecruiter(r) \/ InsertGoogle(r) \/ Refetch(r)
       \/ LookSelf(r) \/ Mirror(r) \/ UpdateMember(r) \/ ReplaceDetails(r) \/ Reread(r)
       \/ EraseDetails(r) \/ EraseMember(r) \/ Deleted(r)
       \/ Fails(r) \/ TimesOut(r) \/ Deadlock(r)

\* Every request that began has ended.
Terminated == (\A r \in Requests : ~InFlight(r)) /\ UNCHANGED vars

Next == (\E r \in Requests : Step(r)) \/ Restart \/ Terminated

Spec == Init /\ [][Next]_vars

-------------------------------------------------------------------------------
(* Properties.                                                             *)

\* An account whose creation was answered has its row in members, unless the creation
\* wrote on a connection that a failed delete had given back with its transaction open.
AnsweredIsKept ==
    /\ \A r \in Requests : account[r] = r => db[Member(r)] = r \/ r \in carried
    /\ carried # {} => \E d \in Deletes : reply[d] = 500

\* Account id is a recruiter's and has no mirror in members: its second INSERT was refused
\* or never came, or the recruiter is older than the mirror.
Unmirrored(email, id) == db[<<"recruiters", email>>] = id /\ db[<<"members", email>>] # id

\* A delete for this e-mail has removed the account, or may have: one that failed, or was
\* cut off, after its writes.
MayBeGone(email) ==
    \E d \in Deletes : EmailOf[d] = email /\ (reply[d] \in {200, 500} \/ at[d] \in {"gone", "crashed"})

\* All answers for one e-mail name one account, however sign-ups and logins race, unless a
\* delete came between or one of two rare things did: one of the two is a recruiter without
\* a mirror, or somebody wrote into a transaction left open.
OneAccountPerEmail ==
    \A r, q \in Requests :
        /\ EmailOf[r] = EmailOf[q] /\ None \notin {account[r], account[q]}
        /\ ~MayBeGone(EmailOf[r]) /\ carried = {}
        => \/ account[r] = account[q]
           \/ Unmirrored(EmailOf[r], account[r]) \/ Unmirrored(EmailOf[r], account[q])

\* What may leave a member x without details: a delete that was answered 500, or an update
\* that brings none (it empties the lists, or it keeps those of a recruiter without a mirror)
\* and has committed, been answered or been cut off.
MayBeBare(x) ==
    \/ \E d \in Deletes : TargetOf[d] = x /\ reply[d] = 500
    \/ \E u \in Updates : /\ TargetOf[u] = x /\ ListsOf[u] # "replaced"
                          /\ at[u] \in {"stored", "answered", "crashed"}

\* A member and its details go together, however updates and deletes race: there are no
\* details of a member that has gone, and a member loses them only by one of those.
DeletedTogether ==
    \A x \in Existing :
        /\ db[Details(x)] = x => db[Member(x)] = x
        /\ db[Member(x)] = x /\ db[Details(x)] # x => MayBeBare(x)
===============================================================================
