------------------------------- MODULE JobCache -------------------------------
(***************************************************************************)
(* Job postings and their Redis copies: the Job service reads job:{id} and *)
(* job:search:* through getOrSet and invalidates them after its writes     *)
(* (job/src/routes/jobs.js, shared/cache.js); the Application service      *)
(* writes applicants_count to the same rows.                               *)
(*                                                                         *)
(* Each await is a step, and any statement may raise: 500.  A job row is   *)
(* its status, the version of its text, views_count and applicants_count;  *)
(* the latter is added to by submits and set by a recompute to a number of *)
(* applications counted before, so that it may fall.  One search stands    *)
(* for all: its result holds the rows of the open jobs.  Ids are drawn at  *)
(* random, so nobody names a job before its creation has been answered; an *)
(* id of no job stays one.  Time is left out: an entry with a TTL may      *)
(* expire at any moment.                                                   *)
(***************************************************************************)
EXTENDS Naturals, FiniteSets

CONSTANTS
    Jobs,
    Reads,      \* /jobs/get and GET /jobs/:id requests
    Searches,   \* /jobs/search requests
    Creates,    \* /jobs and /jobs/create requests
    Updates,    \* /jobs/update and PUT /jobs/:id requests
    Closes,     \* /jobs/close and PATCH /jobs/:id/close requests
    Views,      \* /jobs/incrementViews requests
    Recomputes, \* /jobs/incrementApplicants requests
    Submits,    \* submits of the Application service that commit
    JobOf,      \* JobOf[r]: the job request r names (of a create: the id it draws)
    None,       \* no entry, nothing read
    MaxSent,    \* bound on the requests that begin
    MaxFaults   \* bound on lost Redis calls, lost connections, failing statements, restarts

Writes   == Creates \cup Updates \cup Closes \cup Views \cup Recomputes
Requests == Reads \cup Searches \cup Writes \cup Submits

ASSUME JobOfAssumption == JobOf \in [Requests \ Searches -> Jobs]
ASSUME RequestsAssumption ==
    /\ Reads \cap (Searches \cup Writes \cup Submits) = {}
    /\ Searches \cap (Writes \cup Submits) = {}
    /\ Submits \cap Writes = {}
    /\ Creates \cap (Updates \cup Closes \cup Views \cup Recomputes) = {}
    /\ Updates \cap (Closes \cup Views \cup Recomputes) = {}
    /\ Closes \cap (Views \cup Recomputes) = {}
    /\ Views \cap Recomputes = {}
\* A create draws an id that no other request names.
ASSUME FreshIds ==
    \A c \in Creates, r \in Requests \ Searches : r # c => JobOf[c] # JobOf[r]
ASSUME BoundsAssumption == IsFiniteSet(Requests) /\ MaxSent \in Nat /\ MaxFaults \in Nat

VARIABLES
    row,        \* row[j]: the row of jobs
    applications, \* applications[j]: how many rows of applications name j
    entry,      \* entry[j]: what Redis has under job:{j}, None if nothing
    results,    \* what Redis has under job:search:..., None if nothing
    healthy,    \* the flag of the Job service's Redis client
    at,         \* at[r]: where request r is
    loaded,     \* loaded[r]: what the loader of r has read
    counted,    \* counted[r]: the applications recompute r has counted
    reply,      \* reply[r]: HTTP status answered, 0 while there is none
    overtaken,  \* readers whose row, or listed text, was written since they read it (history)
    suspect,    \* jobs whose entry may be outdated (history)
    doubtful,   \* the search entry may show an outdated text (history)
    faults

vars == <<row, applications, entry, results, healthy, at, loaded, counted, reply, overtaken,
          suspect, doubtful, faults>>
mysql == <<row, applications, overtaken>>

Rows     == [status : {"absent", "open", "closed"}, text : Nat, views : Nat, applicants : Nat]
Listings == [Jobs -> Rows]

ASSUME NoneAssumption == None \notin Rows \cup Listings

Places   == {"new", "missed", "loaded", "read", "written", "purged", "answered", "crashed"}

NoJob  == [status |-> "absent", text |-> 0, views |-> 0, applicants |-> 0]
Posted == [status |-> "open", text |-> 1, views |-> 0, applicants |-> 0]

\* The benchmark's seed posts jobs with applicants that have no applications.
Seeded == [Posted EXCEPT !.applicants = 1]

\* What a search finds: the rows of the open jobs, counters included.
Listed == [j \in Jobs |-> IF row[j].status = "open" THEN row[j] ELSE NoJob]

\* The jobs of a listing and their texts; no write of a counter invalidates a search.
Texts(listing) == [j \in Jobs |-> listing[j].text]

TypeOK ==
    /\ row \in [Jobs -> Rows]
    /\ entry \in [Jobs -> {None} \cup Rows]
    /\ results = None \/ results \in Listings
    /\ healthy \in BOOLEAN
    /\ at \in [Requests -> Places]
    /\ DOMAIN loaded = Reads \cup Searches
    /\ \A r \in Reads : loaded[r] = None \/ loaded[r] \in Rows
    /\ \A r \in Searches : loaded[r] = None \/ loaded[r] \in Listings
    /\ \A r \in Reads \cup Searches : at[r] = "loaded" => loaded[r] # None
    /\ applications \in [Jobs -> Nat] /\ counted \in [Recomputes -> Nat]
    /\ reply \in [Requests -> {0, 200, 201, 404, 409, 500}]
    /\ overtaken \in SUBSET (Reads \cup Searches)
    /\ suspect \in SUBSET Jobs /\ doubtful \in BOOLEAN
    /\ faults \in 0..MaxFaults

Init ==
    /\ \E posted \in SUBSET {j \in Jobs : \A c \in Creates : JobOf[c] # j} :
          \E seeded \in SUBSET posted :
             row = [j \in Jobs |-> IF j \in seeded THEN Seeded
                                 ELSE IF j \in posted THEN Posted ELSE NoJob]
    /\ applications = [j \in Jobs |-> 0]
    /\ \E kept \in SUBSET Jobs :
          entry = [j \in Jobs |-> IF j \in kept /\ row[j] # NoJob THEN row[j] ELSE None]
    /\ results \in {None, Listed}
    /\ healthy = FALSE
    /\ at = [r \in Requests |-> "new"]
    /\ loaded = [r \in Reads \cup Searches |-> None]
    /\ counted = [r \in Recomputes |-> 0]
    /\ reply = [r \in Requests |-> 0]
    /\ overtaken = {} /\ suspect = {} /\ doubtful = FALSE
    /\ faults = 0

redis   == <<entry, results, suspect, doubtful>>
Fault   == faults < MaxFaults /\ faults' = faults + 1
NoFault == UNCHANGED faults

Goto(r, place) == at' = [at EXCEPT ![r] = place] /\ UNCHANGED reply

Answer(r, code) ==
    /\ at' = [at EXCEPT ![r] = "answered"]
    /\ reply' = [reply EXCEPT ![r] = code]

-------------------------------------------------------------------------------
(* getOrSet.                                                               *)

\* Redis is asked if the client believes it is connected; an error counts as a miss.
Hit(r) ==
    /\ at[r] = "new" /\ healthy
    /\ \/ r \in Reads /\ entry[JobOf[r]] # None
          /\ Answer(r, IF entry[JobOf[r]].status = "absent" THEN 404 ELSE 200)
       \/ r \in Searches /\ results # None /\ Answer(r, 200)
    /\ NoFault
    /\ UNCHANGED <<mysql, redis, healthy, loaded, counted>>

Miss(r) ==
    /\ at[r] = "new" /\ r \in Reads \cup Searches
    /\ IF /\ healthy
          /\ IF r \in Reads THEN entry[JobOf[r]] # None ELSE results # None
       THEN Fault ELSE NoFault
    /\ Goto(r, "missed")
    /\ UNCHANGED <<mysql, redis, healthy, loaded, counted>>

\* Mutant: the loader is not awaited.
LoadUnawaited(r) ==
    /\ at[r] = "missed"
    /\ Goto(r, "loaded")
    /\ NoFault
    /\ UNCHANGED <<mysql, redis, healthy, loaded, counted>>

\* The loader reads MySQL.
Load(r) ==
    /\ at[r] = "missed"
    /\ loaded' = [loaded EXCEPT ![r] = IF r \in Reads THEN row[JobOf[r]] ELSE Listed]
    /\ Goto(r, "loaded")
    /\ NoFault
    /\ UNCHANGED <<mysql, redis, healthy, counted>>

\* SET with EX, whatever was written since the loader read.
Fill(r) ==
    /\ at[r] = "loaded" /\ healthy
    /\ IF r \in Reads
       THEN LET j == JobOf[r] IN
            /\ entry' = [entry EXCEPT ![j] = loaded[r]]
            /\ suspect' = IF r \in overtaken THEN suspect \cup {j} ELSE suspect \ {j}
            /\ Answer(r, IF loaded[r].status = "absent" THEN 404 ELSE 200)
            /\ UNCHANGED <<results, doubtful>>
       ELSE /\ results' = loaded[r]
            /\ doubtful' = (r \in overtaken)
            /\ Answer(r, 200)
            /\ UNCHANGED <<entry, suspect>>
    /\ loaded' = [loaded EXCEPT ![r] = None]
    /\ overtaken' = overtaken \ {r}
    /\ NoFault
    /\ UNCHANGED <<row, applications, healthy, counted>>

\* Redis is not connected, or the SET fails.
FillNot(r) ==
    /\ at[r] = "loaded"
    /\ IF healthy THEN Fault ELSE NoFault
    /\ Answer(r, IF r \in Reads /\ loaded[r].status = "absent" THEN 404 ELSE 200)
    /\ loaded' = [loaded EXCEPT ![r] = None]
    /\ overtaken' = overtaken \ {r}
    /\ UNCHANGED <<row, applications, redis, healthy, counted>>

\* Mutant: the entries are stored without a TTL.
NeverExpires == FALSE /\ UNCHANGED vars

\* The TTL of an entry has passed.
Expire ==
    /\ \/ /\ \E j \in Jobs : /\ entry[j] # None
                             /\ entry' = [entry EXCEPT ![j] = None]
                             /\ suspect' = suspect \ {j}
          /\ UNCHANGED <<results, doubtful>>
       \/ /\ results # None
          /\ results' = None /\ doubtful' = FALSE
          /\ UNCHANGED <<entry, suspect>>
    /\ NoFault
    /\ UNCHANGED <<mysql, healthy, at, loaded, counted, reply>>

-------------------------------------------------------------------------------
(* Writes.                                                                 *)

\* /jobs/close reads the status first.
ReadForClose(r) ==
    LET status == row[JobOf[r]].status IN
    /\ r \in Closes /\ at[r] = "new"
    /\ IF status = "absent" THEN Answer(r, 404)
       ELSE IF status = "closed" THEN Answer(r, 409)
       ELSE Goto(r, "read")
    /\ NoFault
    /\ UNCHANGED <<mysql, redis, healthy, loaded, counted>>

\* /jobs/incrementApplicants counts the applications first, in a statement of its own.
CountApplications(r) ==
    /\ r \in Recomputes /\ at[r] = "new"
    /\ counted' = [counted EXCEPT ![r] = applications[JobOf[r]]]
    /\ Goto(r, "read")
    /\ NoFault
    /\ UNCHANGED <<mysql, redis, healthy, loaded>>

\* The writing statement of r is next.
AtStatement(r) == r \in Writes /\ at[r] = IF r \in Closes \cup Recomputes THEN "read" ELSE "new"

\* r's UPDATE is the first statement to miss a row that is not there.
MayMiss(r) == r \in Updates \cup Views \cup Recomputes

\* A statement that names a row that is not there affects none: 404.
NotFound(r) ==
    /\ AtStatement(r) /\ MayMiss(r)
    /\ row[JobOf[r]].status = "absent"
    /\ Answer(r, 404)
    /\ NoFault
    /\ UNCHANGED <<mysql, redis, healthy, loaded, counted>>

Written(r) ==
    LET old == row[JobOf[r]] IN
    CASE r \in Creates    -> Posted
      [] r \in Updates    -> [old EXCEPT !.text = @ + 1]
      [] r \in Closes     -> [old EXCEPT !.status = "closed"]
      [] r \in Views      -> [old EXCEPT !.views = @ + 1]
      [] r \in Recomputes -> [old EXCEPT !.applicants = counted[r]]

\* Mutant: a close forgets the searches.
SearchesButCloses(r) == r \in Creates \cup Updates

\* Which writes go on to invalidate the searches.
PurgesSearches(r) == r \in Creates \cup Updates \cup Closes

\* The readers on their way to Redis that r's write outruns.
Outrun(r) ==
    {q \in Reads \cup Searches :
        at[q] = "loaded" /\ IF q \in Reads THEN JobOf[q] = JobOf[r] ELSE PurgesSearches(r)}

\* What the INSERT's commit or the UPDATE does.
Effect(r) ==
    /\ row' = [row EXCEPT ![JobOf[r]] = Written(r)]
    /\ overtaken' = overtaken \cup Outrun(r)

Write(r) ==
    /\ AtStatement(r)
    /\ MayMiss(r) => row[JobOf[r]].status # "absent"
    /\ Effect(r)
    /\ Goto(r, IF r \in Creates THEN "purged" ELSE "written")
    /\ NoFault
    /\ UNCHANGED <<applications, redis, healthy, loaded, counted>>

\* The statement raises, and it took effect or not: 500, and nothing is invalidated.
WriteFails(r) ==
    /\ AtStatement(r)
    /\ \/ UNCHANGED <<row, overtaken, suspect, doubtful>>
       \/ /\ MayMiss(r) => row[JobOf[r]].status # "absent"
          /\ Effect(r)
          /\ suspect' = suspect \cup {JobOf[r]}
          /\ doubtful' = (doubtful \/ PurgesSearches(r))
    /\ Answer(r, 500)
    /\ Fault
    /\ UNCHANGED <<applications, entry, results, healthy, loaded, counted>>

\* A SELECT raises: 500.  A view reads the title after its UPDATE: nothing is invalidated.
ReadFails(r) ==
    /\ \/ at[r] = "missed" /\ UNCHANGED suspect
       \/ r \in Closes \cup Recomputes /\ at[r] = "new" /\ UNCHANGED suspect
       \/ r \in Views /\ at[r] = "written" /\ suspect' = suspect \cup {JobOf[r]}
    /\ Answer(r, 500)
    /\ Fault
    /\ UNCHANGED <<mysql, entry, results, doubtful, healthy, loaded, counted>>

\* The end of a write, or of its first invalidation.
Proceed(r, last) ==
    IF last THEN Answer(r, IF r \in Creates THEN 201 ELSE 200) ELSE Goto(r, "purged")

\* invalidate: DEL, or nothing when the client is not connected or the DEL fails.
Invalidate(r) ==
    LET j == JobOf[r] IN
    /\ at[r] = "written"
    /\ \/ /\ healthy
          /\ entry' = [entry EXCEPT ![j] = None]
          /\ suspect' = suspect \ {j}
          /\ NoFault
       \/ /\ IF healthy THEN Fault ELSE NoFault
          /\ suspect' = suspect \cup {j}
          /\ UNCHANGED entry
    /\ Proceed(r, ~PurgesSearches(r))
    /\ UNCHANGED <<mysql, results, doubtful, healthy, loaded, counted>>

\* invalidatePrefix: SCAN and UNLINK, or nothing.
InvalidateSearches(r) ==
    /\ at[r] = "purged"
    /\ \/ healthy /\ results' = None /\ doubtful' = FALSE /\ NoFault
       \/ /\ IF healthy THEN Fault ELSE NoFault
          /\ doubtful' = TRUE
          /\ UNCHANGED results
    /\ Proceed(r, TRUE)
    /\ UNCHANGED <<mysql, entry, suspect, healthy, loaded, counted>>

\* The Application service stores an application and counts it, in one transaction, and
\* knows nothing of the copies.
Submit(r) ==
    LET j == JobOf[r] IN
    /\ r \in Submits /\ at[r] = "new"
    /\ IF row[j].status = "open"
       THEN /\ row' = [row EXCEPT ![j].applicants = @ + 1]
            /\ applications' = [applications EXCEPT ![j] = @ + 1]
            /\ overtaken' = overtaken \cup Outrun(r)
            /\ suspect' = suspect \cup {j}
            /\ Answer(r, 201)
       ELSE /\ Answer(r, IF row[j].status = "closed" THEN 409 ELSE 404)
            /\ UNCHANGED <<mysql, suspect>>
    /\ NoFault
    /\ UNCHANGED <<entry, results, doubtful, healthy, loaded, counted>>

-------------------------------------------------------------------------------
(* The Redis client and the process.                                       *)

\* "ready"; a new client is not ready before its first command has made it connect.
Ready ==
    /\ ~healthy /\ healthy' = TRUE
    /\ NoFault
    /\ UNCHANGED <<mysql, redis, at, loaded, counted, reply>>

\* "error" or "end"; Redis keeps what it has.
Disconnect ==
    /\ healthy /\ healthy' = FALSE
    /\ Fault
    /\ UNCHANGED <<mysql, redis, at, loaded, counted, reply>>

InFlight(r) == at[r] \in {"missed", "loaded", "read", "written", "purged"}

\* The Job service restarts: a write it had not invalidated will not be.
Restart ==
    /\ healthy' = FALSE
    /\ at' = [r \in Requests |-> IF InFlight(r) THEN "crashed" ELSE at[r]]
    /\ loaded' = [r \in Reads \cup Searches |-> None]
    /\ suspect' = suspect \cup {JobOf[r] : r \in {w \in Writes : at[w] = "written"}}
    /\ doubtful' = (doubtful \/ \E r \in Writes : \/ at[r] = "purged"
                                                  \/ at[r] = "written" /\ PurgesSearches(r))
    /\ overtaken' = {}
    /\ Fault
    /\ UNCHANGED <<row, applications, entry, results, counted, reply>>

-------------------------------------------------------------------------------
\* Any of the requests may be among the MaxSent that arrive.
Step(r) ==
    /\ at[r] = "new" => Cardinality({q \in Requests : at[q] # "new"}) < MaxSent
    /\ \/ Hit(r) \/ Miss(r) \/ Load(r) \/ Fill(r) \/ FillNot(r)
       \/ ReadForClose(r) \/ CountApplications(r) \/ NotFound(r) \/ Write(r)
       \/ Invalidate(r) \/ InvalidateSearches(r) \/ Submit(r)
       \/ WriteFails(r) \/ ReadFails(r)

\* Every request that began has ended.
Terminated ==
    /\ \A r \in Requests : at[r] \in {"new", "answered", "crashed"}
    /\ UNCHANGED vars

Next == (\E r \in Requests : Step(r)) \/ Expire \/ Ready \/ Disconnect \/ Restart \/ Terminated

Spec == Init /\ [][Next]_vars

\* A request that has begun goes on, and TTLs pass.
FairSpec == Spec /\ WF_vars(Expire) /\ \A r \in Requests : WF_vars(at[r] # "new" /\ Step(r))

-------------------------------------------------------------------------------
(* Properties.                                                             *)

Outdated(j) == entry[j] # None /\ entry[j] # row[j]
SearchOutdated == results # None /\ results # Listed
TextsOutdated == results # None /\ Texts(results) # Texts(Listed)

\* An outdated copy has one of five causes and no other: a write that is about to
\* invalidate it, a reader that stored what it read before such a write, an invalidation
\* that did not happen, a statement that raised after the write (its 500 invalidates
\* nothing), or a submit, which never invalidates.
OutdatedHasACause ==
    /\ \A j \in Jobs :
          Outdated(j) => j \in suspect \/ \E r \in Writes : at[r] = "written" /\ JobOf[r] = j
    /\ TextsOutdated =>
          \/ doubtful
          \/ \E r \in Writes : PurgesSearches(r) /\ at[r] \in {"written", "purged"}

\* Whatever stale copy a race or a fault leaves behind, it does not stay: once the
\* writes are over, Redis agrees with MySQL for ever.
CopiesConverge == <>[]((\A j \in Jobs : ~Outdated(j)) /\ ~SearchOutdated)
===============================================================================
