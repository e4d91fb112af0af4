----------------------------- MODULE JobCacheProofs ----------------------------
(***************************************************************************)
(* What may be outdated in Redis, and why, for any number of jobs,         *)
(* requests and faults.  Inv adds to TypeOK and OutdatedHasACause which    *)
(* requests can be where, that nobody has read the job of a create, and    *)
(* that a reader whose row was not written since has read the row as it is.*)
(***************************************************************************)
EXTENDS JobCache, TLAPS

Who ==
    \A r \in Requests :
        /\ at[r] \in {"missed", "loaded"} => r \in Reads \cup Searches
        /\ at[r] \in {"written", "purged"} => r \in Writes
        /\ at[r] = "read" => r \in Closes \cup Recomputes

Unread == \A c \in Creates : entry[JobOf[c]] = None

\* The two parts of OutdatedHasACause.
EntryCause ==
    \A j \in Jobs :
        Outdated(j) => j \in suspect \/ \E w \in Writes : at[w] = "written" /\ JobOf[w] = j

SearchCause ==
    TextsOutdated =>
        doubtful \/ \E w \in Writes : PurgesSearches(w) /\ at[w] \in {"written", "purged"}

\* What a reader that was not overtaken brings to Redis is what MySQL has.
NotOvertaken ==
    /\ \A r \in Reads : at[r] = "loaded" /\ r \notin overtaken => loaded[r] = row[JobOf[r]]
    /\ \A r \in Searches :
          at[r] = "loaded" /\ r \notin overtaken => Texts(loaded[r]) = Texts(Listed)

Inv == TypeOK /\ Who /\ Unread /\ EntryCause /\ SearchCause /\ NotOvertaken

\* TypeOK: MySQL and Redis, and the requests.
DataTypes ==
    /\ row \in [Jobs -> Rows]
    /\ entry \in [Jobs -> {None} \cup Rows]
    /\ results = None \/ results \in Listings
    /\ healthy \in BOOLEAN
    /\ applications \in [Jobs -> Nat]
    /\ overtaken \in SUBSET (Reads \cup Searches)
    /\ suspect \in SUBSET Jobs /\ doubtful \in BOOLEAN
    /\ faults \in 0..MaxFaults

RequestTypes ==
    /\ at \in [Requests -> Places]
    /\ DOMAIN loaded = Reads \cup Searches
    /\ \A r \in Reads : loaded[r] = None \/ loaded[r] \in Rows
    /\ \A r \in Searches : loaded[r] = None \/ loaded[r] \in Listings
    /\ \A r \in Reads \cup Searches : at[r] = "loaded" => loaded[r] # None
    /\ counted \in [Recomputes -> Nat]
    /\ reply \in [Requests -> {0, 200, 201, 404, 409, 500}]

-------------------------------------------------------------------------------
\* Lemma: the parts of TypeOK, now and in the next state.
LEMMA TypeParts ==
    /\ TypeOK <=> DataTypes /\ RequestTypes
    /\ TypeOK' <=> DataTypes' /\ RequestTypes'
BY DEF TypeOK, DataTypes, RequestTypes

\* Lemma: the kinds of requests exclude each other, and name jobs.
LEMMA RequestFacts ==
    /\ \A r \in Writes : /\ r \in Requests /\ r \notin Reads \cup Searches \cup Submits
                         /\ JobOf[r] \in Jobs
    /\ \A r \in Reads \cup Submits : r \in Requests /\ r \notin Writes \cup Searches /\ JobOf[r] \in Jobs
    /\ Searches \subseteq Requests /\ Reads \cap Submits = {}
    /\ \A r \in Creates : r \in Writes /\ r \notin Updates \cup Closes \cup Views \cup Recomputes
    /\ \A r \in Closes : r \in Writes /\ r \notin Updates \cup Views \cup Recomputes
    /\ \A r \in Updates : r \in Writes /\ r \notin Views \cup Recomputes
    /\ \A r \in Views : r \in Writes /\ r \notin Recomputes
    /\ Recomputes \subseteq Writes
BY RequestsAssumption, JobOfAssumption DEF Requests, Writes

\* Lemma: nobody else names the job of a create.
LEMMA CreatesAlone ==
    \A c \in Creates, r \in Reads \cup Writes \cup Submits : r # c => JobOf[c] # JobOf[r]
BY FreshIds, RequestFacts DEF Requests

\* Lemma: what is listed are rows.
LEMMA ListedRows == DataTypes => Listed \in Listings
BY DEF DataTypes, Listed, Listings, Rows, NoJob

\* Lemma: an answer, and a step to another place, keep the types of at and reply.
LEMMA PlaceTypes ==
    ASSUME RequestTypes, NEW r \in Requests
    PROVE  /\ \A place \in Places : Goto(r, place) =>
                 /\ at' \in [Requests -> Places] /\ at'[r] = place
                 /\ reply' \in [Requests -> {0, 200, 201, 404, 409, 500}]
                 /\ \A q \in Requests \ {r} : at'[q] = at[q]
           /\ \A code \in {200, 201, 404, 409, 500} : Answer(r, code) =>
                 /\ at' \in [Requests -> Places] /\ at'[r] = "answered"
                 /\ reply' \in [Requests -> {0, 200, 201, 404, 409, 500}]
                 /\ \A q \in Requests \ {r} : at'[q] = at[q]
BY DEF RequestTypes, Goto, Answer, Places

\* Lemma: a step that writes no row, and lets no reader reach Redis whose place it forgets.
LEMMA NobodyOvertaken ==
    ASSUME NotOvertaken, UNCHANGED row,
           \A q \in Reads \cup Searches : at'[q] = "loaded" =>
               at[q] = "loaded" /\ loaded'[q] = loaded[q] /\ (q \in overtaken => q \in overtaken')
    PROVE  NotOvertaken'
<1>1. Texts(Listed)' = Texts(Listed) /\ \A q : Texts(loaded[q])' = Texts(loaded'[q])
  BY DEF Texts, Listed
<1>2. ASSUME NEW q \in Searches, at'[q] = "loaded", q \notin overtaken'
      PROVE  Texts(loaded'[q]) = Texts(Listed)
  <2>1. at[q] = "loaded" /\ loaded'[q] = loaded[q] /\ q \notin overtaken
    BY <1>2
  <2> QED
    BY <1>2, <2>1 DEF NotOvertaken
<1> QED
  BY <1>1, <1>2 DEF NotOvertaken

\* Lemma: a step that writes neither MySQL nor Redis and moves no writer that is about to
\* invalidate.
LEMMA CalmStep ==
    ASSUME Inv, TypeOK', Who', NotOvertaken', UNCHANGED <<row, redis>>,
           \A r \in Writes : at[r] \in {"written", "purged"} => at'[r] = at[r]
    PROVE  Inv'
<1>1. /\ Unread /\ EntryCause /\ SearchCause
      /\ UNCHANGED <<row, entry, results, suspect, doubtful>>
  BY DEF Inv, redis
<1>2. Unread' /\ EntryCause'
  BY <1>1 DEF Unread, EntryCause, Outdated
<1>3. SearchCause'
  <2>1. TextsOutdated' <=> TextsOutdated
    BY <1>1 DEF TextsOutdated, Texts, Listed
  <2> QED
    BY <1>1, <2>1 DEF SearchCause, PurgesSearches
<1> QED
  BY <1>2, <1>3 DEF Inv

\* Lemma: hits, misses, loads, and reads whose copy is not stored.
LEMMA ReadStep ==
    ASSUME Inv, NEW r \in Requests, Hit(r) \/ Miss(r) \/ Load(r) \/ FillNot(r)
    PROVE  Inv'
<1>1. DataTypes /\ RequestTypes /\ Who /\ NotOvertaken
      /\ UNCHANGED <<row, applications, redis, healthy, counted>>
  BY TypeParts DEF Inv, Hit, Miss, Load, FillNot, mysql
<1>2. r \in Reads \cup Searches /\ at[r] \in {"new", "missed", "loaded"}
  BY <1>1 DEF Hit, Miss, Load, FillNot, Who
<1>3. faults' \in 0..MaxFaults
  <2>1. faults' = faults \/ (faults < MaxFaults /\ faults' = faults + 1)
    BY DEF Hit, Miss, Load, FillNot, Fault, NoFault
  <2> QED
    BY <1>1, <2>1, BoundsAssumption DEF DataTypes
<1>4. DataTypes'
  <2>1. overtaken' \in SUBSET (Reads \cup Searches)
    BY <1>1 DEF DataTypes, Hit, Miss, Load, FillNot, mysql
  <2> QED
    BY <1>1, <1>3, <2>1 DEF DataTypes, redis
<1>5. \/ Goto(r, "missed") /\ at[r] = "new" /\ UNCHANGED loaded
      \/ Goto(r, "loaded") /\ Load(r)
      \/ (\E code \in {200, 404} : Answer(r, code)) /\ (FillNot(r) \/ UNCHANGED loaded)
  BY DEF Hit, Miss, Load, FillNot
<1>6. /\ at' \in [Requests -> Places] /\ at'[r] \in {"missed", "loaded", "answered"}
      /\ reply' \in [Requests -> {0, 200, 201, 404, 409, 500}]
      /\ \A q \in Requests \ {r} : at'[q] = at[q]
      /\ at'[r] = "loaded" => Load(r)
  BY <1>1, <1>5, PlaceTypes DEF Places
<1>7. /\ DOMAIN loaded' = Reads \cup Searches
      /\ \A q \in Reads \cup Searches : q # r => loaded'[q] = loaded[q]
      /\ r \in Reads => loaded'[r] = None \/ loaded'[r] \in Rows
      /\ r \in Searches => loaded'[r] = None \/ loaded'[r] \in Listings
      /\ Load(r) => loaded'[r] # None
  <2>1. CASE UNCHANGED loaded /\ ~Load(r)
    BY <1>1, <2>1 DEF RequestTypes
  <2>2. CASE FillNot(r) /\ ~Load(r)
    BY <1>1, <1>2, <2>2 DEF RequestTypes, FillNot
  <2>3. CASE Load(r)
    <3>1. loaded' = [loaded EXCEPT ![r] = IF r \in Reads THEN row[JobOf[r]] ELSE Listed]
      BY <2>3 DEF Load
    <3>2. CASE r \in Reads
      <4>1. row[JobOf[r]] \in Rows /\ r \notin Searches
        BY <1>1, <3>2, RequestFacts DEF DataTypes
      <4> QED
        BY <1>1, <1>2, <3>1, <3>2, <4>1, NoneAssumption DEF RequestTypes
    <3>3. CASE r \notin Reads
      BY <1>1, <1>2, <3>1, <3>3, ListedRows, NoneAssumption DEF RequestTypes
    <3> QED
      BY <3>2, <3>3
  <2> QED
    BY <1>5, <2>1, <2>2, <2>3
<1>8. RequestTypes'
  <2>1. \A q \in Reads \cup Searches : at'[q] = "loaded" => loaded'[q] # None
    BY <1>1, <1>6, <1>7, RequestFacts DEF RequestTypes
  <2>2. /\ \A q \in Reads : loaded'[q] = None \/ loaded'[q] \in Rows
        /\ \A q \in Searches : loaded'[q] = None \/ loaded'[q] \in Listings
    BY <1>1, <1>7 DEF RequestTypes
  <2> QED
    BY <1>1, <1>6, <1>7, <2>1, <2>2 DEF RequestTypes
<1>9. TypeOK'
  BY <1>4, <1>8, TypeParts
<1>10. Who'
  BY <1>1, <1>2, <1>6 DEF Who
<1>11. \A w \in Writes : at[w] \in {"written", "purged"} => at'[w] = at[w]
  BY <1>2, <1>6, RequestFacts
<1>12. NotOvertaken'
  <2>1. \A q \in Reads \cup Searches : q # r /\ q \in overtaken => q \in overtaken'
    BY DEF Hit, Miss, Load, FillNot, mysql
  <2>2. CASE at'[r] # "loaded"
    <3>1. \A q \in Reads \cup Searches : at'[q] = "loaded" =>
             at[q] = "loaded" /\ loaded'[q] = loaded[q] /\ (q \in overtaken => q \in overtaken')
      BY <1>6, <1>7, <2>1, <2>2, RequestFacts
    <3> QED
      BY <1>1, <3>1, NobodyOvertaken
  <2>3. CASE at'[r] = "loaded"
    <3>1. UNCHANGED overtaken
          /\ loaded' = [loaded EXCEPT ![r] = IF r \in Reads THEN row[JobOf[r]] ELSE Listed]
      BY <1>6, <2>3 DEF Load, mysql
    <3>2. r \in Reads => loaded'[r] = row'[JobOf[r]]
      BY <1>1, <1>2, <3>1 DEF RequestTypes
    <3>3. r \in Searches => Texts(loaded'[r]) = Texts(Listed)'
      <4>1. r \in Searches => loaded'[r] = Listed
        BY <1>1, <1>2, <3>1, RequestFacts DEF RequestTypes
      <4>2. Texts(Listed)' = Texts(Listed)
        BY <1>1 DEF Texts, Listed
      <4> QED
        BY <4>1, <4>2
    <3>4. \A q \in Reads : q # r /\ at'[q] = "loaded" /\ q \notin overtaken'
                             => loaded'[q] = row'[JobOf[q]]
      BY <1>1, <1>6, <1>7, <3>1, RequestFacts DEF NotOvertaken
    <3>5. ASSUME NEW q \in Searches, q # r, at'[q] = "loaded", q \notin overtaken'
          PROVE  Texts(loaded'[q]) = Texts(Listed)'
      <4>1. loaded'[q] = loaded[q] /\ Texts(loaded[q]) = Texts(Listed)
        BY <1>1, <1>6, <1>7, <3>1, <3>5, RequestFacts DEF NotOvertaken
      <4>2. Texts(Listed)' = Texts(Listed)
        BY <1>1 DEF Texts, Listed
      <4> QED
        BY <4>1, <4>2
    <3>6. \A q : Texts(loaded[q])' = Texts(loaded'[q])
      BY DEF Texts
    <3> QED
      BY <3>2, <3>3, <3>4, <3>5, <3>6 DEF NotOvertaken
  <2> QED
    BY <2>2, <2>3
<1> QED
  BY <1>1, <1>9, <1>10, <1>11, <1>12, CalmStep

\* Lemma: a request that moves, and has nothing loaded to bring.
LEMMA MoveTypes ==
    ASSUME RequestTypes, NEW r \in Requests, UNCHANGED loaded,
           counted' \in [Recomputes -> Nat],
           \/ \E place \in Places \ {"loaded"} : Goto(r, place)
           \/ \E code \in {200, 201, 404, 409, 500} : Answer(r, code)
    PROVE  /\ RequestTypes' /\ at'[r] # "loaded"
           /\ \A q \in Requests \ {r} : at'[q] = at[q]
<1>1. /\ at' \in [Requests -> Places] /\ at'[r] # "loaded"
      /\ reply' \in [Requests -> {0, 200, 201, 404, 409, 500}]
      /\ \A q \in Requests \ {r} : at'[q] = at[q]
  BY PlaceTypes
<1>2. \A q \in Reads \cup Searches : at'[q] = "loaded" => loaded'[q] # None
  BY <1>1, RequestFacts DEF RequestTypes
<1> QED
  BY <1>1, <1>2 DEF RequestTypes

\* Lemma: the copy of a row is stored, unless the row has changed since without its being
\* suspected; the same of a search.
LEMMA FillStep ==
    ASSUME Inv, NEW r \in Requests, Fill(r)
    PROVE  Inv'
<1>1. DataTypes /\ RequestTypes /\ Who /\ Unread /\ EntryCause /\ SearchCause /\ NotOvertaken
  BY TypeParts DEF Inv
<1>2. /\ at[r] = "loaded" /\ r \in Reads \cup Searches /\ r \notin Writes
      /\ loaded[r] # None
      /\ UNCHANGED <<row, applications, healthy, counted, faults>>
      /\ overtaken' = overtaken \ {r}
      /\ loaded' = [loaded EXCEPT ![r] = None]
  BY <1>1, RequestFacts DEF Fill, Who, RequestTypes, NoFault
<1>3. \E code \in {200, 404} : Answer(r, code)
  BY DEF Fill
<1>4. /\ at' \in [Requests -> Places] /\ at'[r] = "answered"
      /\ reply' \in [Requests -> {0, 200, 201, 404, 409, 500}]
      /\ \A q \in Requests \ {r} : at'[q] = at[q]
  BY <1>1, <1>3, PlaceTypes
<1>5. RequestTypes'
  <2>1. \A q \in Reads \cup Searches : at'[q] = "loaded" => loaded'[q] # None
    BY <1>1, <1>2, <1>4, RequestFacts DEF RequestTypes
  <2>2. \A q \in Reads \cup Searches : loaded'[q] \in {None, loaded[q]}
    BY <1>1, <1>2 DEF RequestTypes
  <2> QED
    BY <1>1, <1>2, <1>4, <2>1, <2>2 DEF RequestTypes
<1>6. Who'
  BY <1>1, <1>4 DEF Who
<1>7. /\ \A w \in Writes : at'[w] = at[w]
      /\ NotOvertaken'
  <2>1. \A q \in Reads \cup Searches : at'[q] = "loaded" =>
           at[q] = "loaded" /\ loaded'[q] = loaded[q] /\ (q \in overtaken => q \in overtaken')
    BY <1>1, <1>2, <1>4, RequestFacts DEF RequestTypes
  <2> QED
    BY <1>1, <1>2, <1>4, <2>1, NobodyOvertaken, RequestFacts
<1>8. CASE r \in Reads
  <2> DEFINE j == JobOf[r]
  <2>1. /\ entry' = [entry EXCEPT ![j] = loaded[r]]
        /\ suspect' = IF r \in overtaken THEN suspect \cup {j} ELSE suspect \ {j}
        /\ UNCHANGED <<results, doubtful>>
    BY <1>8 DEF Fill
  <2>2. j \in Jobs /\ loaded[r] \in Rows
    BY <1>1, <1>2, <1>8, RequestFacts DEF RequestTypes
  <2>3. DataTypes'
    BY <1>1, <1>2, <2>1, <2>2 DEF DataTypes
  <2>4. Unread'
    <3>1. ASSUME NEW c \in Creates PROVE JobOf[c] # j
      BY <1>8, CreatesAlone, RequestFacts
    <3> QED
      BY <1>1, <2>1, <3>1, RequestFacts DEF Unread, DataTypes
  <2>5. EntryCause'
    <3>1. SUFFICES ASSUME NEW i \in Jobs, Outdated(i)'
                   PROVE  i \in suspect' \/ \E w \in Writes : at'[w] = "written" /\ JobOf[w] = i
      BY DEF EntryCause
    <3>2. CASE i = j
      <4>1. loaded[r] # row[j]
        BY <1>1, <1>2, <2>1, <2>2, <3>1, <3>2 DEF Outdated, DataTypes
      <4>2. r \in overtaken
        BY <1>1, <1>2, <1>8, <4>1 DEF NotOvertaken
      <4> QED
        BY <1>1, <2>1, <2>2, <3>2, <4>2
    <3>3. CASE i # j
      <4>1. Outdated(i) /\ (i \in suspect => i \in suspect')
        BY <1>1, <1>2, <2>1, <3>1, <3>3 DEF Outdated, DataTypes
      <4> QED
        BY <1>1, <1>7, <4>1 DEF EntryCause
    <3> QED
      BY <3>2, <3>3
  <2>6. SearchCause'
    <3>1. TextsOutdated' <=> TextsOutdated
      BY <1>2, <2>1 DEF TextsOutdated, Texts, Listed
    <3> QED
      BY <1>1, <1>7, <2>1, <3>1 DEF SearchCause, PurgesSearches
  <2> QED
    BY <1>5, <1>6, <1>7, <2>3, <2>4, <2>5, <2>6, TypeParts DEF Inv
<1>9. CASE r \notin Reads
  <2>1. /\ results' = loaded[r]
        /\ doubtful' = (r \in overtaken)
        /\ UNCHANGED <<entry, suspect>>
    BY <1>9 DEF Fill
  <2>2. loaded[r] \in Listings
    BY <1>1, <1>2, <1>9 DEF RequestTypes
  <2>3. DataTypes'
    BY <1>1, <1>2, <2>1, <2>2 DEF DataTypes
  <2>4. Unread' /\ EntryCause'
    BY <1>1, <1>2, <1>7, <2>1 DEF Unread, EntryCause, Outdated
  <2>5. SearchCause'
    <3>1. TextsOutdated' => Texts(loaded[r]) # Texts(Listed)
      BY <1>2, <2>1 DEF TextsOutdated, Texts, Listed
    <3>2. Texts(loaded[r]) # Texts(Listed) => r \in overtaken
      BY <1>1, <1>2, <1>9 DEF NotOvertaken
    <3> QED
      BY <2>1, <3>1, <3>2 DEF SearchCause
  <2> QED
    BY <1>5, <1>6, <1>7, <2>3, <2>4, <2>5, TypeParts DEF Inv
<1> QED
  BY <1>8, <1>9

\* Lemma: an entry whose time has passed is gone.
LEMMA ExpireStep ==
    ASSUME Inv, Expire
    PROVE  Inv'
<1>1. DataTypes /\ RequestTypes /\ Who /\ Unread /\ EntryCause /\ SearchCause /\ NotOvertaken
  BY TypeParts DEF Inv
<1>2. UNCHANGED <<row, applications, overtaken, healthy, at, loaded, counted, reply, faults>>
  BY DEF Expire, NoFault, mysql
<1>3. RequestTypes' /\ Who' /\ NotOvertaken'
  BY <1>1, <1>2, NobodyOvertaken DEF RequestTypes, Who
<1>4. CASE /\ \E j \in Jobs : /\ entry[j] # None
                              /\ entry' = [entry EXCEPT ![j] = None]
                              /\ suspect' = suspect \ {j}
           /\ UNCHANGED <<results, doubtful>>
  <2>1. PICK j \in Jobs : entry' = [entry EXCEPT ![j] = None] /\ suspect' = suspect \ {j}
    BY <1>4
  <2>2. DataTypes'
    BY <1>1, <1>2, <1>4, <2>1 DEF DataTypes
  <2>3. Unread'
    BY <1>1, <2>1, RequestFacts DEF Unread, DataTypes
  <2>4. \A i \in Jobs : Outdated(i)' => Outdated(i) /\ i # j
    BY <1>1, <1>2, <2>1 DEF Outdated, DataTypes
  <2>5. EntryCause'
    BY <1>1, <1>2, <2>1, <2>4 DEF EntryCause
  <2>6. SearchCause'
    BY <1>1, <1>2, <1>4 DEF SearchCause, TextsOutdated, Texts, Listed, PurgesSearches
  <2> QED
    BY <1>3, <2>2, <2>3, <2>5, <2>6, TypeParts DEF Inv
<1>5. CASE results' = None /\ doubtful' = FALSE /\ UNCHANGED <<entry, suspect>>
  <2>1. DataTypes'
    BY <1>1, <1>2, <1>5 DEF DataTypes
  <2>2. Unread' /\ EntryCause' /\ SearchCause'
    BY <1>1, <1>2, <1>5 DEF Unread, EntryCause, Outdated, SearchCause, TextsOutdated
  <2> QED
    BY <1>3, <2>1, <2>2, TypeParts DEF Inv
<1> QED
  BY <1>4, <1>5 DEF Expire

\* Lemma: reads before a write, writes that find no row, the flag of the client, and
\* statements that raise without effect.
LEMMA QuietStep ==
    ASSUME Inv,
           \/ Ready \/ Disconnect
           \/ \E r \in Requests :
                 \/ ReadForClose(r) \/ CountApplications(r) \/ NotFound(r)
                 \/ (WriteFails(r) \/ ReadFails(r)) /\ UNCHANGED <<row, overtaken, suspect, doubtful>>
                    /\ at[r] # "written"
    PROVE  Inv'
<1>1. DataTypes /\ RequestTypes /\ Who /\ NotOvertaken
      /\ UNCHANGED <<row, applications, overtaken, redis, loaded>>
  BY TypeParts DEF Inv, Ready, Disconnect, ReadForClose, CountApplications, NotFound, WriteFails,
                   ReadFails, mysql, redis
<1>2. faults' \in 0..MaxFaults
  <2>1. faults' = faults \/ (faults < MaxFaults /\ faults' = faults + 1)
    BY DEF Ready, Disconnect, ReadForClose, CountApplications, NotFound, WriteFails, ReadFails,
           Fault, NoFault
  <2> QED
    BY <1>1, <2>1, BoundsAssumption DEF DataTypes
<1>3. healthy' \in BOOLEAN
  BY <1>1 DEF Ready, Disconnect, ReadForClose, CountApplications, NotFound, WriteFails, ReadFails,
              DataTypes
<1>4. DataTypes'
  BY <1>1, <1>2, <1>3 DEF DataTypes, redis
<1>5. CASE Ready \/ Disconnect
  <2>1. UNCHANGED <<at, counted, reply>>
    BY <1>5 DEF Ready, Disconnect
  <2>2. RequestTypes' /\ Who'
    BY <1>1, <2>1 DEF RequestTypes, Who
  <2>3. NotOvertaken'
    BY <1>1, <2>1, NobodyOvertaken
  <2> QED
    BY <1>1, <1>4, <2>1, <2>2, <2>3, TypeParts, CalmStep
<1>6. CASE \E r \in Requests :
              \/ ReadForClose(r) \/ CountApplications(r) \/ NotFound(r)
              \/ (WriteFails(r) \/ ReadFails(r)) /\ at[r] # "written"
  <2>1. PICK r \in Requests :
              \/ ReadForClose(r) \/ CountApplications(r) \/ NotFound(r)
              \/ (WriteFails(r) \/ ReadFails(r)) /\ at[r] # "written"
    BY <1>6
  <2>2. /\ at[r] \in {"new", "read", "missed"}
        /\ \/ r \in Closes \cup Recomputes /\ Goto(r, "read")
           \/ \E code \in {404, 409, 500} : Answer(r, code)
        /\ counted' \in [Recomputes -> Nat]
    BY <1>1, <2>1, JobOfAssumption, RequestFacts
    DEF ReadForClose, CountApplications, NotFound, WriteFails, ReadFails, AtStatement,
        RequestTypes, DataTypes
  <2>3. /\ RequestTypes' /\ at'[r] # "loaded"
        /\ \A q \in Requests \ {r} : at'[q] = at[q]
    BY <1>1, <2>2, MoveTypes DEF Places
  <2>4. at'[r] = "answered" \/ (at'[r] = "read" /\ r \in Closes \cup Recomputes)
    BY <1>1, <2>2, PlaceTypes DEF Places
  <2>5. Who'
    BY <1>1, <2>3, <2>4 DEF Who
  <2>6. \A w \in Writes : at[w] \in {"written", "purged"} => at'[w] = at[w]
    BY <2>2, <2>3, RequestFacts
  <2>7. NotOvertaken'
    BY <1>1, <2>3, NobodyOvertaken, RequestFacts
  <2> QED
    BY <1>1, <1>4, <2>3, <2>5, <2>6, <2>7, TypeParts, CalmStep
<1> QED
  BY <1>5, <1>6

\* Lemma: the row a write leaves; a counter's write changes nothing a search is invalidated for.
LEMMA WrittenRow ==
    ASSUME DataTypes, RequestTypes, NEW r \in Writes
    PROVE  /\ Written(r) \in Rows
           /\ ~PurgesSearches(r) => /\ Written(r).status = row[JobOf[r]].status
                                    /\ Written(r).text = row[JobOf[r]].text
<1> DEFINE old == row[JobOf[r]]
<1>1. old \in Rows
  BY RequestFacts DEF DataTypes
<1>2. CASE r \in Creates
  BY <1>2, RequestFacts DEF Written, Posted, Rows, PurgesSearches
<1>3. CASE r \in Updates
  <2>1. Written(r) = [old EXCEPT !.text = @ + 1]
    BY <1>3, RequestFacts DEF Written
  <2> QED
    BY <1>1, <1>3, <2>1, RequestFacts DEF Rows, PurgesSearches
<1>4. CASE r \in Closes
  <2>1. Written(r) = [old EXCEPT !.status = "closed"]
    BY <1>4, RequestFacts DEF Written
  <2> QED
    BY <1>1, <1>4, <2>1, RequestFacts DEF Rows, PurgesSearches
<1>5. CASE r \in Views
  <2>1. Written(r) = [old EXCEPT !.views = @ + 1]
    BY <1>5, RequestFacts DEF Written
  <2> QED
    BY <1>1, <1>5, <2>1 DEF Rows
<1>6. CASE r \in Recomputes
  <2>1. Written(r) = [old EXCEPT !.applicants = counted[r]]
    BY <1>6, RequestFacts DEF Written
  <2>2. counted[r] \in Nat
    BY <1>6 DEF RequestTypes
  <2> QED
    BY <1>1, <1>6, <2>1, <2>2 DEF Rows
<1> QED
  BY <1>2, <1>3, <1>4, <1>5, <1>6 DEF Writes

\* Lemma: a row that keeps its status and its text leaves the texts of a search.
LEMMA SameTexts ==
    ASSUME row \in [Jobs -> Rows], row' \in [Jobs -> Rows],
           \A j \in Jobs : row'[j].status = row[j].status /\ row'[j].text = row[j].text
    PROVE  Texts(Listed)' = Texts(Listed)
<1>1. /\ Texts(Listed) = [j \in Jobs |-> Listed[j].text]
      /\ Texts(Listed)' = [j \in Jobs |-> Listed'[j].text]
  BY DEF Texts
<1>2. \A j \in Jobs : Listed'[j].text = Listed[j].text
  BY DEF Listed
<1> QED
  BY <1>1, <1>2

\* Lemma: a write overtakes the readers that hold what it changes.
LEMMA OutrunStep ==
    ASSUME row \in [Jobs -> Rows], row' \in [Jobs -> Rows], NotOvertaken,
           NEW r \in Requests,
           \A i \in Jobs : i # JobOf[r] => row'[i] = row[i],
           ~PurgesSearches(r) =>
               \A i \in Jobs : row'[i].status = row[i].status /\ row'[i].text = row[i].text,
           overtaken' = overtaken \cup Outrun(r), UNCHANGED loaded,
           \A q \in Reads \cup Searches : at'[q] = at[q]
    PROVE  NotOvertaken'
<1>1. ASSUME NEW q \in Reads, at'[q] = "loaded", q \notin overtaken'
      PROVE  loaded'[q] = row'[JobOf[q]]
  <2>1. at[q] = "loaded" /\ q \notin overtaken /\ q \notin Outrun(r)
    BY <1>1
  <2>2. JobOf[q] # JobOf[r] /\ JobOf[q] \in Jobs
    BY <2>1, RequestFacts DEF Outrun
  <2> QED
    BY <2>1, <2>2 DEF NotOvertaken
<1>2. ASSUME NEW q \in Searches, at'[q] = "loaded", q \notin overtaken'
      PROVE  Texts(loaded'[q]) = Texts(Listed)'
  <2>1. at[q] = "loaded" /\ q \notin overtaken /\ q \notin Outrun(r)
    BY <1>2
  <2>2. ~PurgesSearches(r)
    BY <2>1, RequestFacts DEF Outrun
  <2> QED
    BY <2>1, <2>2, SameTexts DEF NotOvertaken
<1>3. \A q : Texts(loaded[q])' = Texts(loaded'[q])
  BY DEF Texts
<1> QED
  BY <1>1, <1>2, <1>3 DEF NotOvertaken

\* Lemma: what the statement of a write leaves, whether its request goes on or not.
LEMMA EffectStep ==
    ASSUME DataTypes, RequestTypes, NotOvertaken, NEW r \in Writes, Effect(r),
           UNCHANGED <<entry, results, loaded>>,
           \A q \in Requests \ {r} : at'[q] = at[q]
    PROVE  /\ row' \in [Jobs -> Rows] /\ overtaken' \in SUBSET (Reads \cup Searches)
           /\ \A i \in Jobs : i # JobOf[r] => (Outdated(i)' <=> Outdated(i))
           /\ ~PurgesSearches(r) => (TextsOutdated' <=> TextsOutdated)
           /\ NotOvertaken'
<1>1. r \in Requests /\ JobOf[r] \in Jobs /\ r \notin Reads \cup Searches
  BY RequestFacts
<1>2. /\ row' = [row EXCEPT ![JobOf[r]] = Written(r)]
      /\ overtaken' = overtaken \cup Outrun(r)
  BY DEF Effect
<1>3. row \in [Jobs -> Rows] /\ row' \in [Jobs -> Rows]
  BY <1>1, <1>2, WrittenRow DEF DataTypes
<1>4. \A i \in Jobs : i # JobOf[r] => row'[i] = row[i]
  BY <1>2, <1>3
<1>5. ~PurgesSearches(r) =>
        \A i \in Jobs : row'[i].status = row[i].status /\ row'[i].text = row[i].text
  BY <1>1, <1>2, <1>3, <1>4, WrittenRow
<1>6. overtaken' \in SUBSET (Reads \cup Searches)
  BY <1>2 DEF DataTypes, Outrun
<1>7. \A i \in Jobs : i # JobOf[r] => (Outdated(i)' <=> Outdated(i))
  BY <1>4 DEF Outdated
<1>8. ASSUME ~PurgesSearches(r) PROVE TextsOutdated' <=> TextsOutdated
  <2>1. Texts(Listed)' = Texts(Listed)
    BY <1>3, <1>5, <1>8, SameTexts
  <2>2. Texts(results)' = Texts(results)
    BY DEF Texts
  <2> QED
    BY <2>1, <2>2 DEF TextsOutdated
<1>9. NotOvertaken'
  <2>1. \A q \in Reads \cup Searches : at'[q] = at[q]
    BY <1>1, RequestFacts
  <2> QED
    BY <1>1, <1>2, <1>3, <1>4, <1>5, <2>1, OutrunStep
<1> QED
  BY <1>3, <1>6, <1>7, <1>8, <1>9

\* Lemma: a write owes the invalidation of whatever it may have made outdated.
LEMMA WriteStep ==
    ASSUME Inv, NEW r \in Requests, Write(r)
    PROVE  Inv'
<1> DEFINE j == JobOf[r]
<1>1. DataTypes /\ RequestTypes /\ Who /\ Unread /\ EntryCause /\ SearchCause /\ NotOvertaken
  BY TypeParts DEF Inv
<1>2. /\ r \in Writes /\ at[r] \in {"new", "read"} /\ j \in Jobs
      /\ Effect(r)
      /\ UNCHANGED <<applications, entry, results, suspect, doubtful, healthy, loaded, counted, faults>>
  BY RequestFacts DEF Write, AtStatement, redis, NoFault
<1>3. Goto(r, IF r \in Creates THEN "purged" ELSE "written")
  BY DEF Write
<1>4. /\ RequestTypes'
      /\ \A q \in Requests \ {r} : at'[q] = at[q]
  BY <1>1, <1>2, <1>3, MoveTypes DEF Places, RequestTypes
<1>5. at'[r] = IF r \in Creates THEN "purged" ELSE "written"
  BY <1>1, <1>3, PlaceTypes DEF Places
<1>6. /\ row' \in [Jobs -> Rows] /\ overtaken' \in SUBSET (Reads \cup Searches)
      /\ \A i \in Jobs : i # j => (Outdated(i)' <=> Outdated(i))
      /\ ~PurgesSearches(r) => (TextsOutdated' <=> TextsOutdated)
      /\ NotOvertaken'
  BY <1>1, <1>2, <1>4, EffectStep
<1>7. DataTypes'
  BY <1>1, <1>2, <1>6 DEF DataTypes
<1>8. Who' /\ Unread'
  BY <1>1, <1>2, <1>4, <1>5 DEF Who, Unread
<1>9. \A w \in Writes : at[w] \in {"written", "purged"} => at'[w] = at[w]
  BY <1>2, <1>4, RequestFacts
<1>10. EntryCause'
  <2>1. SUFFICES ASSUME NEW i \in Jobs, Outdated(i)'
                 PROVE  i \in suspect' \/ \E w \in Writes : at'[w] = "written" /\ JobOf[w] = i
    BY DEF EntryCause
  <2>2. CASE i = j
    <3>1. r \notin Creates
      BY <1>1, <1>2, <2>1, <2>2 DEF Unread, Outdated
    <3> QED
      BY <1>2, <1>5, <2>2, <3>1
  <2>3. CASE i # j
    BY <1>1, <1>2, <1>6, <1>9, <2>1, <2>3 DEF EntryCause
  <2> QED
    BY <2>2, <2>3
<1>11. SearchCause'
  <2>1. CASE PurgesSearches(r)
    BY <1>2, <1>5, <2>1 DEF SearchCause, PurgesSearches
  <2>2. CASE ~PurgesSearches(r)
    BY <1>1, <1>2, <1>6, <1>9, <2>2 DEF SearchCause, PurgesSearches
  <2> QED
    BY <2>1, <2>2
<1> QED
  BY <1>4, <1>6, <1>7, <1>8, <1>10, <1>11, TypeParts DEF Inv

\* Lemma: a statement that raises, and what it may have left, is suspect.
LEMMA FailStep ==
    ASSUME Inv, NEW r \in Requests, WriteFails(r) \/ ReadFails(r)
    PROVE  Inv'
<1> DEFINE j == JobOf[r]
<1>1. DataTypes /\ RequestTypes /\ Who /\ Unread /\ EntryCause /\ SearchCause /\ NotOvertaken
  BY TypeParts DEF Inv
<1>2. CASE UNCHANGED <<row, overtaken, suspect, doubtful>> /\ at[r] # "written"
  BY <1>2, QuietStep
<1>3. CASE ~(UNCHANGED <<row, overtaken, suspect, doubtful>> /\ at[r] # "written")
  <2>1. /\ r \in Writes /\ at[r] \in {"new", "read", "written"} /\ j \in Jobs
        /\ at[r] = "written" => r \in Views
        /\ Answer(r, 500) /\ Fault
        /\ suspect' = suspect \cup {j}
        /\ \/ Effect(r) /\ doubtful' = (doubtful \/ PurgesSearches(r))
           \/ UNCHANGED <<row, overtaken, doubtful>>
        /\ UNCHANGED <<applications, entry, results, healthy, loaded, counted>>
    BY <1>3, RequestFacts DEF WriteFails, ReadFails, AtStatement, mysql
  <2>2. /\ RequestTypes' /\ at'[r] = "answered"
        /\ \A q \in Requests \ {r} : at'[q] = at[q]
    BY <1>1, <2>1, MoveTypes, PlaceTypes DEF RequestTypes
  <2>3. /\ row' \in [Jobs -> Rows] /\ overtaken' \in SUBSET (Reads \cup Searches)
        /\ \A i \in Jobs : i # j => (Outdated(i)' <=> Outdated(i))
        /\ ~(doubtful' /\ PurgesSearches(r)) => (TextsOutdated' <=> TextsOutdated)
        /\ doubtful => doubtful'
        /\ NotOvertaken'
    <3>1. CASE Effect(r) /\ doubtful' = (doubtful \/ PurgesSearches(r))
      BY <1>1, <2>1, <2>2, <3>1, EffectStep
    <3>2. CASE UNCHANGED <<row, overtaken, doubtful>>
      <4>1. NotOvertaken'
        BY <1>1, <2>1, <2>2, <3>2, NobodyOvertaken, RequestFacts
      <4> QED
        BY <1>1, <2>1, <3>2, <4>1 DEF DataTypes, Outdated, TextsOutdated, Texts, Listed
    <3> QED
      BY <2>1, <3>1, <3>2
  <2>4. DataTypes'
    <3>1. faults' \in 0..MaxFaults
      BY <1>1, <2>1, BoundsAssumption DEF Fault, DataTypes
    <3>2. doubtful' \in BOOLEAN
      BY <1>1, <2>1 DEF DataTypes
    <3> QED
      BY <1>1, <2>1, <2>3, <3>1, <3>2 DEF DataTypes
  <2>5. Who' /\ Unread'
    BY <1>1, <2>1, <2>2 DEF Who, Unread
  <2>6. \A w \in Writes : w # r => at'[w] = at[w]
    BY <2>2, RequestFacts
  <2>7. EntryCause'
    <3>1. SUFFICES ASSUME NEW i \in Jobs, Outdated(i)', i # j
                   PROVE  i \in suspect' \/ \E w \in Writes : at'[w] = "written" /\ JobOf[w] = i
      BY <2>1 DEF EntryCause
    <3>2. i \in suspect \/ \E w \in Writes : at[w] = "written" /\ JobOf[w] = i
      BY <1>1, <2>3, <3>1 DEF EntryCause
    <3> QED
      BY <2>1, <2>6, <3>1, <3>2
  <2>8. SearchCause'
    <3>1. CASE doubtful'
      BY <3>1 DEF SearchCause
    <3>2. CASE ~doubtful'
      <4>1. SUFFICES ASSUME TextsOutdated'
                     PROVE  \E w \in Writes : PurgesSearches(w) /\ at'[w] \in {"written", "purged"}
        BY DEF SearchCause, PurgesSearches
      <4>2. PICK w \in Writes : PurgesSearches(w) /\ at[w] \in {"written", "purged"}
        BY <1>1, <2>3, <3>2, <4>1 DEF SearchCause
      <4>3. w # r
        BY <2>1, <4>2, RequestFacts DEF PurgesSearches
      <4> QED
        BY <2>6, <4>2, <4>3
    <3> QED
      BY <3>1, <3>2
  <2> QED
    BY <2>2, <2>3, <2>4, <2>5, <2>7, <2>8, TypeParts DEF Inv
<1> QED
  BY <1>2, <1>3

\* Lemma: an invalidation removes the entry, or leaves it suspect.
LEMMA InvalidateStep ==
    ASSUME Inv, NEW r \in Requests, Invalidate(r)
    PROVE  Inv'
<1> DEFINE j == JobOf[r]
<1>1. DataTypes /\ RequestTypes /\ Who /\ Unread /\ EntryCause /\ SearchCause /\ NotOvertaken
  BY TypeParts DEF Inv
<1>2. /\ at[r] = "written" /\ r \in Writes /\ j \in Jobs
      /\ UNCHANGED <<row, applications, overtaken, results, doubtful, healthy, loaded, counted>>
      /\ Proceed(r, ~PurgesSearches(r))
  BY <1>1, RequestFacts DEF Invalidate, Who, mysql
<1>3. \/ entry' = [entry EXCEPT ![j] = None] /\ suspect' = suspect \ {j}
      \/ suspect' = suspect \cup {j} /\ UNCHANGED entry
  BY DEF Invalidate
<1>4. faults' \in 0..MaxFaults
  <2>1. faults' = faults \/ (faults < MaxFaults /\ faults' = faults + 1)
    BY DEF Invalidate, Fault, NoFault
  <2> QED
    BY <1>1, <2>1, BoundsAssumption DEF DataTypes
<1>5. IF PurgesSearches(r) THEN Goto(r, "purged") ELSE \E code \in {200, 201} : Answer(r, code)
  BY <1>2 DEF Proceed
<1>6. /\ RequestTypes' /\ at'[r] # "loaded"
      /\ \A q \in Requests \ {r} : at'[q] = at[q]
  BY <1>1, <1>2, <1>5, MoveTypes DEF Places, RequestTypes
<1>7. at'[r] = IF PurgesSearches(r) THEN "purged" ELSE "answered"
  BY <1>1, <1>5, PlaceTypes DEF Places
<1>8. DataTypes'
  BY <1>1, <1>2, <1>3, <1>4 DEF DataTypes
<1>9. Who'
  BY <1>1, <1>2, <1>6, <1>7 DEF Who
<1>10. Unread'
  BY <1>1, <1>3, RequestFacts DEF Unread, DataTypes
<1>11. EntryCause'
  <2>1. SUFFICES ASSUME NEW i \in Jobs, Outdated(i)'
                 PROVE  i \in suspect' \/ \E w \in Writes : at'[w] = "written" /\ JobOf[w] = i
    BY DEF EntryCause
  <2>2. CASE i = j
    BY <1>1, <1>2, <1>3, <2>1, <2>2 DEF Outdated, DataTypes
  <2>3. CASE i # j
    <3>1. Outdated(i) /\ (i \in suspect => i \in suspect')
      BY <1>1, <1>2, <1>3, <2>1, <2>3 DEF Outdated, DataTypes
    <3>2. \A w \in Writes : JobOf[w] = i => at'[w] = at[w]
      BY <1>6, <2>3, RequestFacts
    <3> QED
      BY <1>1, <3>1, <3>2 DEF EntryCause
  <2> QED
    BY <2>2, <2>3
<1>12. SearchCause'
  <2>1. TextsOutdated' => TextsOutdated
    BY <1>2 DEF TextsOutdated, Texts, Listed
  <2>2. \A w \in Writes : PurgesSearches(w) /\ at[w] \in {"written", "purged"}
                             => at'[w] \in {"written", "purged"}
    BY <1>6, <1>7, RequestFacts
  <2> QED
    BY <1>1, <1>2, <2>1, <2>2 DEF SearchCause, PurgesSearches
<1>13. NotOvertaken'
  BY <1>1, <1>2, <1>6, NobodyOvertaken, RequestFacts
<1> QED
  BY <1>6, <1>8, <1>9, <1>10, <1>11, <1>12, <1>13, TypeParts DEF Inv

\* Lemma: the same of the invalidation of the searches.
LEMMA InvalidateSearchesStep ==
    ASSUME Inv, NEW r \in Requests, InvalidateSearches(r)
    PROVE  Inv'
<1>1. DataTypes /\ RequestTypes /\ Who /\ Unread /\ EntryCause /\ SearchCause /\ NotOvertaken
  BY TypeParts DEF Inv
<1>2. /\ at[r] = "purged" /\ r \in Writes
      /\ UNCHANGED <<row, applications, overtaken, entry, suspect, healthy, loaded, counted>>
  BY <1>1 DEF InvalidateSearches, Who, mysql
<1>3. (results' = None /\ doubtful' = FALSE) \/ (doubtful' = TRUE /\ UNCHANGED results)
  BY DEF InvalidateSearches
<1>4. faults' \in 0..MaxFaults
  <2>1. faults' = faults \/ (faults < MaxFaults /\ faults' = faults + 1)
    BY DEF InvalidateSearches, Fault, NoFault
  <2> QED
    BY <1>1, <2>1, BoundsAssumption DEF DataTypes
<1>5. \E code \in {200, 201} : Answer(r, code)
  BY DEF InvalidateSearches, Proceed
<1>6. /\ RequestTypes' /\ at'[r] # "loaded"
      /\ \A q \in Requests \ {r} : at'[q] = at[q]
  BY <1>1, <1>2, <1>5, MoveTypes DEF RequestTypes
<1>7. at'[r] = "answered"
  BY <1>1, <1>5, PlaceTypes
<1>8. DataTypes'
  <2>1. doubtful' \in BOOLEAN /\ (results' = None \/ results' \in Listings)
    BY <1>1, <1>3 DEF DataTypes
  <2> QED
    BY <1>1, <1>2, <1>4, <2>1 DEF DataTypes
<1>9. Who' /\ Unread'
  BY <1>1, <1>2, <1>6, <1>7 DEF Who, Unread
<1>10. EntryCause'
  <2>1. \A w \in Writes : at[w] = "written" => at'[w] = at[w]
    BY <1>2, <1>6, RequestFacts
  <2> QED
    BY <1>1, <1>2, <2>1 DEF EntryCause, Outdated
<1>11. SearchCause'
  BY <1>3 DEF SearchCause, TextsOutdated
<1>12. NotOvertaken'
  BY <1>1, <1>2, <1>6, NobodyOvertaken, RequestFacts
<1> QED
  BY <1>6, <1>8, <1>9, <1>10, <1>11, <1>12, TypeParts DEF Inv

\* Lemma: a submit leaves the entry suspect, and no text.
LEMMA SubmitStep ==
    ASSUME Inv, NEW r \in Requests, Submit(r)
    PROVE  Inv'
<1> DEFINE j == JobOf[r]
<1>1. DataTypes /\ RequestTypes /\ Who /\ Unread /\ EntryCause /\ SearchCause /\ NotOvertaken
  BY TypeParts DEF Inv
<1>2. /\ at[r] = "new" /\ r \in Submits /\ r \notin Writes /\ j \in Jobs
      /\ UNCHANGED <<entry, results, doubtful, healthy, loaded, counted, faults>>
  BY RequestFacts DEF Submit, NoFault
<1>3. \E code \in {201, 404, 409} : Answer(r, code)
  BY DEF Submit
<1>4. \/ UNCHANGED <<row, suspect, applications, overtaken>>
      \/ /\ row' = [row EXCEPT ![j].applicants = @ + 1] /\ suspect' = suspect \cup {j}
         /\ applications' = [applications EXCEPT ![j] = @ + 1]
         /\ overtaken' = overtaken \cup Outrun(r)
  BY DEF Submit, mysql
<1>5. /\ RequestTypes'
      /\ \A q \in Requests \ {r} : at'[q] = at[q]
  BY <1>1, <1>2, <1>3, MoveTypes DEF RequestTypes
<1>6. at'[r] = "answered"
  BY <1>1, <1>3, PlaceTypes
<1>7. /\ row' \in [Jobs -> Rows] /\ suspect' \in SUBSET Jobs
      /\ \A i \in Jobs : row'[i].status = row[i].status /\ row'[i].text = row[i].text
  <2>1. CASE UNCHANGED <<row, suspect>>
    BY <1>1, <2>1 DEF DataTypes
  <2>2. CASE row' = [row EXCEPT ![j].applicants = @ + 1] /\ suspect' = suspect \cup {j}
    <3>1. row[j] \in Rows /\ row \in [Jobs -> Rows] /\ suspect' \in SUBSET Jobs
      BY <1>1, <1>2, <2>2 DEF DataTypes
    <3>2. [row[j] EXCEPT !.applicants = @ + 1] \in Rows
      BY <3>1 DEF Rows
    <3>3. row' = [row EXCEPT ![j] = [row[j] EXCEPT !.applicants = @ + 1]]
      BY <2>2
    <3>4. row' \in [Jobs -> Rows] /\ row'[j] = [row[j] EXCEPT !.applicants = @ + 1]
      BY <1>2, <3>1, <3>2, <3>3
    <3>5. row'[j].status = row[j].status /\ row'[j].text = row[j].text
      BY <3>1, <3>4 DEF Rows
    <3>6. \A i \in Jobs \ {j} : row'[i] = row[i]
      BY <3>1, <3>3
    <3> QED
      BY <3>1, <3>4, <3>5, <3>6
  <2> QED
    BY <1>4, <2>1, <2>2
<1>8. DataTypes'
  <2>1. overtaken' \in SUBSET (Reads \cup Searches) /\ applications' \in [Jobs -> Nat]
    BY <1>1, <1>4 DEF DataTypes, Outrun
  <2> QED
    BY <1>1, <1>2, <1>7, <2>1 DEF DataTypes
<1>9. Who' /\ Unread'
  BY <1>1, <1>2, <1>5, <1>6 DEF Who, Unread
<1>10. \A w \in Writes : at'[w] = at[w]
  BY <1>2, <1>5, RequestFacts
<1>11. EntryCause'
  <2>1. SUFFICES ASSUME NEW i \in Jobs, Outdated(i)', i \notin suspect'
                 PROVE  \E w \in Writes : at'[w] = "written" /\ JobOf[w] = i
    BY DEF EntryCause
  <2>2. Outdated(i) /\ i \notin suspect
    BY <1>1, <1>2, <1>4, <2>1 DEF Outdated, DataTypes
  <2> QED
    BY <1>1, <1>10, <2>2 DEF EntryCause
<1>12. SearchCause'
  <2>1. Texts(Listed)' = Texts(Listed)
    BY <1>1, <1>7, SameTexts DEF DataTypes
  <2>2. Texts(results)' = Texts(results)
    BY <1>2 DEF Texts
  <2>3. TextsOutdated' => TextsOutdated
    BY <1>2, <2>1, <2>2 DEF TextsOutdated
  <2> QED
    BY <1>1, <1>2, <1>10, <2>3 DEF SearchCause, PurgesSearches
<1>13. NotOvertaken'
  <2>1. \A q \in Reads \cup Searches : at'[q] = at[q]
    BY <1>2, <1>5, RequestFacts, RequestsAssumption
  <2>2. CASE UNCHANGED <<row, overtaken>>
    BY <1>1, <1>2, <2>1, <2>2, NobodyOvertaken
  <2>3. CASE row' = [row EXCEPT ![j].applicants = @ + 1] /\ overtaken' = overtaken \cup Outrun(r)
    <3>1. \A i \in Jobs : i # j => row'[i] = row[i]
      BY <1>1, <2>3 DEF DataTypes
    <3> QED
      BY <1>1, <1>2, <1>7, <2>1, <2>3, <3>1, OutrunStep DEF DataTypes
  <2> QED
    BY <1>4, <2>2, <2>3
<1> QED
  BY <1>5, <1>8, <1>9, <1>11, <1>12, <1>13, TypeParts DEF Inv

\* Lemma: what a restart makes writes forget, it leaves suspect.
LEMMA RestartStep ==
    ASSUME Inv, Restart
    PROVE  Inv'
<1>1. DataTypes /\ RequestTypes /\ Who /\ Unread /\ EntryCause /\ SearchCause
  BY TypeParts DEF Inv
<1>2. /\ UNCHANGED <<row, applications, entry, results, counted, reply>>
      /\ healthy' = FALSE /\ overtaken' = {}
      /\ at' = [r \in Requests |-> IF InFlight(r) THEN "crashed" ELSE at[r]]
      /\ loaded' = [r \in Reads \cup Searches |-> None]
  BY DEF Restart
<1>3. suspect' = suspect \cup {JobOf[r] : r \in {w \in Writes : at[w] = "written"}}
  BY DEF Restart
<1>4. \/ doubtful' = TRUE
      \/ /\ doubtful' = doubtful
         /\ ~\E w \in Writes : PurgesSearches(w) /\ at[w] \in {"written", "purged"}
  <2>1. doubtful' = (doubtful \/ \E r \in Writes : \/ at[r] = "purged"
                                                   \/ at[r] = "written" /\ PurgesSearches(r))
    BY DEF Restart
  <2>2. doubtful \in BOOLEAN
    BY <1>1 DEF DataTypes
  <2> QED
    BY <2>1, <2>2
<1>5. faults' \in 0..MaxFaults
  <2>1. faults < MaxFaults /\ faults' = faults + 1
    BY DEF Restart, Fault
  <2>2. faults \in 0..MaxFaults
    BY <1>1 DEF DataTypes
  <2> QED
    BY <2>1, <2>2, BoundsAssumption
<1>6. suspect' \in SUBSET Jobs /\ doubtful' \in BOOLEAN
  <2>1. suspect \in SUBSET Jobs /\ doubtful \in BOOLEAN
    BY <1>1 DEF DataTypes
  <2>2. {JobOf[r] : r \in {w \in Writes : at[w] = "written"}} \subseteq Jobs
    BY RequestFacts
  <2>3. suspect' \in SUBSET Jobs
    BY <1>3, <2>1, <2>2
  <2>4. doubtful' \in BOOLEAN
    BY <1>4, <2>1
  <2> QED
    BY <2>3, <2>4
<1>7. DataTypes'
  BY <1>1, <1>2, <1>5, <1>6 DEF DataTypes
<1>8. /\ at' \in [Requests -> Places]
      /\ \A r \in Requests : at'[r] \notin {"missed", "loaded", "read", "written", "purged"}
  BY <1>1, <1>2 DEF RequestTypes, Places, InFlight
<1>9. RequestTypes'
  <2>1. \A r \in Reads \cup Searches : at'[r] # "loaded" /\ loaded'[r] = None
    BY <1>2, <1>8, RequestFacts
  <2> QED
    BY <1>1, <1>2, <1>8, <2>1 DEF RequestTypes
<1>10. Who' /\ Unread'
  BY <1>1, <1>2, <1>8 DEF Who, Unread
<1>11. EntryCause'
  BY <1>1, <1>2, <1>3 DEF EntryCause, Outdated
<1>12. SearchCause'
  <2>1. TextsOutdated' => TextsOutdated
    BY <1>2 DEF TextsOutdated, Texts, Listed
  <2> QED
    BY <1>1, <1>4, <2>1 DEF SearchCause
<1>13. NotOvertaken'
  BY <1>8, RequestFacts DEF NotOvertaken
<1> QED
  BY <1>7, <1>9, <1>10, <1>11, <1>12, <1>13, TypeParts DEF Inv

-------------------------------------------------------------------------------
\* Lemma: Redis may hold rows and a search at the start, and they are not outdated.
LEMMA InitInv == Init => Inv
<1> SUFFICES ASSUME Init PROVE Inv
  OBVIOUS
<1>1. /\ row \in [Jobs -> Rows] /\ \A c \in Creates : row[JobOf[c]] = NoJob
  <2>1. PICK posted \in SUBSET {j \in Jobs : \A c \in Creates : JobOf[c] # j} :
            \E seeded \in SUBSET posted :
               row = [j \in Jobs |-> IF j \in seeded THEN Seeded
                                   ELSE IF j \in posted THEN Posted ELSE NoJob]
    BY DEF Init
  <2>2. NoJob \in Rows /\ Posted \in Rows /\ Seeded \in Rows
    BY DEF Rows, NoJob, Posted, Seeded
  <2> QED
    BY <2>1, <2>2, RequestFacts
<1>2. \A j \in Jobs : entry[j] = None \/ (entry[j] = row[j] /\ row[j] # NoJob)
  BY DEF Init
<1>3. entry \in [Jobs -> {None} \cup Rows]
  <2>1. entry = [j \in Jobs |-> entry[j]]
    BY DEF Init
  <2> QED
    BY <1>1, <1>2, <2>1
<1>4. results = None \/ results = Listed
  BY DEF Init
<1>5. /\ healthy = FALSE /\ at = [r \in Requests |-> "new"]
      /\ loaded = [r \in Reads \cup Searches |-> None]
      /\ applications = [j \in Jobs |-> 0] /\ counted = [r \in Recomputes |-> 0]
      /\ reply = [r \in Requests |-> 0]
      /\ overtaken = {} /\ suspect = {} /\ doubtful = FALSE /\ faults = 0
  BY DEF Init
<1>6. Listed \in Listings
  BY <1>1 DEF Listed, Listings, Rows, NoJob
<1>7. DataTypes
  <2>1. faults \in 0..MaxFaults
    BY <1>5, BoundsAssumption
  <2> QED
    BY <1>1, <1>3, <1>4, <1>5, <1>6, <2>1 DEF DataTypes
<1>8. RequestTypes
  BY <1>5, RequestFacts DEF RequestTypes, Places
<1>9. Who
  BY <1>5 DEF Who
<1>10. Unread
  BY <1>1, <1>2, RequestFacts DEF Unread
<1>11. EntryCause
  BY <1>2 DEF EntryCause, Outdated
<1>12. SearchCause
  BY <1>4 DEF SearchCause, TextsOutdated
<1>13. NotOvertaken
  BY <1>5, RequestFacts DEF NotOvertaken
<1> QED
  BY <1>7, <1>8, <1>9, <1>10, <1>11, <1>12, <1>13, TypeParts DEF Inv

\* Lemma: every step keeps Inv.
LEMMA NextInv ==
    ASSUME Inv, [Next]_vars
    PROVE  Inv'
<1>1. CASE UNCHANGED vars
  <2>1. UNCHANGED <<row, applications, entry, results, healthy, at, loaded, counted, reply,
                    overtaken, suspect, doubtful, faults>>
    BY <1>1 DEF vars
  <2>2. TypeOK' /\ Who'
    BY <2>1 DEF Inv, TypeOK, Who
  <2>3. NotOvertaken'
    BY <2>1, NobodyOvertaken DEF Inv
  <2> QED
    BY <2>1, <2>2, <2>3, CalmStep DEF redis
<1>2. CASE Expire \/ Ready \/ Disconnect \/ Restart
  BY <1>2, ExpireStep, QuietStep, RestartStep
<1>3. ASSUME NEW r \in Requests, Step(r)
      PROVE  Inv'
  <2>1. CASE Hit(r) \/ Miss(r) \/ Load(r) \/ FillNot(r)
    BY <2>1, ReadStep
  <2>2. CASE Fill(r)
    BY <2>2, FillStep
  <2>3. CASE ReadForClose(r) \/ CountApplications(r) \/ NotFound(r)
    BY <2>3, QuietStep
  <2>4. CASE Write(r) \/ Invalidate(r) \/ InvalidateSearches(r)
    BY <2>4, WriteStep, InvalidateStep, InvalidateSearchesStep
  <2>5. CASE Submit(r) \/ WriteFails(r) \/ ReadFails(r)
    BY <2>5, SubmitStep, FailStep
  <2> QED
    BY <1>3, <2>1, <2>2, <2>3, <2>4, <2>5 DEF Step
<1> QED
  BY <1>1, <1>2, <1>3 DEF Next, Terminated

\* Theorem: Inv holds in every state the Job service and its Redis can get into.
THEOREM Invariance == Spec => []Inv
<1>1. Init => Inv
  BY InitInv
<1>2. Inv /\ [Next]_vars => Inv'
  BY NextInv
<1> QED
  BY <1>1, <1>2, PTL DEF Spec

\* Theorem: the variables keep their types (TypeOK).
THEOREM TypeCorrect == Spec => []TypeOK
<1>1. Inv => TypeOK
  BY DEF Inv
<1> QED
  BY <1>1, Invariance, PTL

\* Theorem: a copy is outdated for one of the causes OutdatedHasACause names, and no other.
THEOREM OutdatedCaused == Spec => []OutdatedHasACause
<1>1. Inv => OutdatedHasACause
  BY DEF Inv, EntryCause, SearchCause, OutdatedHasACause
<1> QED
  BY <1>1, Invariance, PTL

-------------------------------------------------------------------------------
(* Copies come from the past: the counterpart of OutdatedHasACause says    *)
(* how an outdated copy may differ.                                        *)

\* Row a of a job may have been its row before row b: its text and its views do not go back,
\* a closed job is not opened again and a posted one does not disappear.  Its applicants may
\* be more than b's: a recompute may lower them.
Older(a, b) ==
    /\ a.text <= b.text /\ a.views <= b.views
    /\ a.status = "closed" => b.status = "closed"
    /\ b.status = "absent" => a.status = "absent"

\* Whatever races with a read or a write, or fails half-way, no copy is ahead of MySQL but in
\* applicants: a job shown as closed is closed, and a text or a view that Redis, or a reader
\* about to store what it read, knows of is in the row.
CopiesAreOlder ==
    /\ \A j \in Jobs : entry[j] # None => Older(entry[j], row[j])
    /\ results # None => \A j \in Jobs : Older(results[j], row[j])
    /\ \A r \in Reads : loaded[r] # None => Older(loaded[r], row[JobOf[r]])
    /\ \A r \in Searches : loaded[r] # None => \A j \in Jobs : Older(loaded[r][j], row[j])

\* The job of a create is not there before its INSERT.
Fresh == \A c \in Creates : at[c] = "new" => row[JobOf[c]] = NoJob

\* Lemma: Older is an order on rows, with the job that is not there as its least element.
LEMMA OlderOrder ==
    /\ \A a \in Rows : Older(a, a) /\ Older(NoJob, a)
    /\ \A a, b, c \in Rows : Older(a, b) /\ Older(b, c) => Older(a, c)
BY DEF Older, Rows, NoJob

\* Lemma: what is read from a row, or listed, is no newer than it.
LEMMA ListedOlder ==
    ASSUME DataTypes
    PROVE  Listed \in Listings /\ \A j \in Jobs : Older(Listed[j], row[j])
BY ListedRows, OlderOrder DEF Listed, DataTypes

\* Lemma: no statement takes a row back.
LEMMA RowStep ==
    ASSUME Inv, Fresh, [Next]_vars
    PROVE  /\ \A j \in Jobs : Older(row[j], row'[j])
           /\ Fresh'
<1>1. DataTypes /\ RequestTypes
  BY TypeParts DEF Inv
<1>2. ASSUME UNCHANGED row, \A c \in Creates : at'[c] = "new" => at[c] = "new"
      PROVE  (\A j \in Jobs : Older(row[j], row'[j])) /\ Fresh'
  BY <1>1, <1>2, OlderOrder DEF Fresh, DataTypes
<1>3. ASSUME NEW r \in Requests, (Write(r) \/ WriteFails(r)) /\ Effect(r)
      PROVE  (\A j \in Jobs : Older(row[j], row'[j])) /\ Fresh'
  <2>1. /\ r \in Writes /\ JobOf[r] \in Jobs /\ at'[r] # "new"
        /\ row' = [row EXCEPT ![JobOf[r]] = Written(r)]
        /\ \A q \in Requests \ {r} : at'[q] = at[q]
        /\ r \in Creates => at[r] = "new"
    BY <1>1, <1>3, RequestFacts
    DEF Write, WriteFails, AtStatement, Effect, Goto, Answer, RequestTypes
  <2>2. row[JobOf[r]] \in Rows
    BY <1>1, <2>1 DEF DataTypes
  <2>3. r \in Creates => row[JobOf[r]] = NoJob
    BY <2>1 DEF Fresh
  <2>4. Older(row[JobOf[r]], Written(r))
    <3>1. CASE r \in Creates
      BY <2>3, <3>1 DEF Written, Older, Posted, NoJob
    <3>2. CASE r \in Updates
      BY <2>2, <3>2, RequestFacts DEF Written, Older, Rows
    <3>3. CASE r \in Closes
      BY <2>2, <3>3, RequestFacts DEF Written, Older, Rows
    <3>4. CASE r \in Views
      BY <2>2, <3>4, RequestFacts DEF Written, Older, Rows
    <3>5. CASE r \in Recomputes
      BY <2>2, <3>5, RequestFacts DEF Written, Older, Rows
    <3> QED
      BY <2>1, <3>1, <3>2, <3>3, <3>4, <3>5 DEF Writes
  <2>5. \A j \in Jobs : Older(row[j], row'[j])
    BY <1>1, <2>1, <2>4, OlderOrder DEF DataTypes
  <2>6. \A c \in Creates : c # r => c \in Requests /\ JobOf[c] # JobOf[r]
    BY <2>1, CreatesAlone, RequestFacts
  <2>7. Fresh'
    BY <1>1, <2>1, <2>6 DEF Fresh, DataTypes
  <2> QED
    BY <2>5, <2>7
<1>4. ASSUME NEW r \in Requests, Submit(r)
      PROVE  (\A j \in Jobs : Older(row[j], row'[j])) /\ Fresh'
  <2>1. /\ r \in Submits /\ JobOf[r] \in Jobs
        /\ \A c \in Creates : c # r /\ c \in Requests /\ JobOf[c] # JobOf[r]
    BY <1>4, RequestFacts, CreatesAlone DEF Submit
  <2>2. \A q \in Requests \ {r} : at'[q] = at[q]
    BY <1>1, <1>4, PlaceTypes DEF Submit
  <2>3. CASE UNCHANGED row
    BY <1>2, <2>1, <2>2, <2>3
  <2>4. CASE row' = [row EXCEPT ![JobOf[r]].applicants = @ + 1]
    <3>1. row[JobOf[r]] \in Rows
      BY <1>1, <2>1 DEF DataTypes
    <3>2. Older(row[JobOf[r]], [row[JobOf[r]] EXCEPT !.applicants = @ + 1])
      BY <3>1 DEF Older, Rows
    <3>3. \A j \in Jobs : Older(row[j], row'[j])
      BY <1>1, <2>1, <2>4, <3>2, OlderOrder DEF DataTypes
    <3> QED
      BY <1>1, <2>1, <2>2, <2>4, <3>3 DEF Fresh, DataTypes
  <2> QED
    BY <1>4, <2>3, <2>4 DEF Submit, mysql
<1>5. ASSUME NEW r \in Requests,
             \/ Hit(r) \/ Miss(r) \/ Load(r) \/ Fill(r) \/ FillNot(r)
             \/ ReadForClose(r) \/ CountApplications(r) \/ NotFound(r)
             \/ Invalidate(r) \/ InvalidateSearches(r)
             \/ (WriteFails(r) \/ ReadFails(r)) /\ UNCHANGED row
      PROVE  (\A j \in Jobs : Older(row[j], row'[j])) /\ Fresh'
  <2>1. UNCHANGED row
    BY <1>5 DEF Hit, Miss, Load, Fill, FillNot, ReadForClose, CountApplications, NotFound,
                Invalidate, InvalidateSearches, mysql
  <2>2. \A q \in Requests : at'[q] = "new" => at[q] = "new"
    BY <1>1, <1>5
    DEF Hit, Miss, Load, Fill, FillNot, ReadForClose, CountApplications, NotFound, Invalidate,
        InvalidateSearches, WriteFails, ReadFails, Proceed, Goto, Answer, RequestTypes
  <2> QED
    BY <1>2, <2>1, <2>2, RequestFacts
<1>6. CASE Expire \/ Ready \/ Disconnect \/ UNCHANGED vars
  BY <1>2, <1>6 DEF Expire, Ready, Disconnect, vars, mysql
<1>7. CASE Restart
  <2>1. UNCHANGED row /\ \A q \in Requests : at'[q] = "new" => at[q] = "new"
    BY <1>7 DEF Restart
  <2> QED
    BY <1>2, <2>1, RequestFacts
<1>8. \A r \in Requests : /\ Write(r) => Effect(r)
                          /\ WriteFails(r) => Effect(r) \/ UNCHANGED row
                          /\ ReadFails(r) => UNCHANGED row
  BY DEF Write, WriteFails, ReadFails, mysql
<1> QED
  BY <1>3, <1>4, <1>5, <1>6, <1>7, <1>8 DEF Next, Step, Terminated

\* Lemma: a copy of the next state is one of this state, or was just read.
LEMMA CopySources ==
    ASSUME Inv, [Next]_vars
    PROVE  /\ \A j \in Jobs :
                 \/ entry'[j] \in {None, entry[j]}
                 \/ \E r \in Reads : JobOf[r] = j /\ entry'[j] = loaded[r] /\ loaded[r] # None
           /\ \/ results' \in {None, results}
              \/ \E r \in Searches : results' = loaded[r] /\ loaded[r] # None
           /\ \A r \in Reads : loaded'[r] \in {None, loaded[r], row[JobOf[r]]}
           /\ \A r \in Searches : loaded'[r] \in {None, loaded[r], Listed}
<1>1. DataTypes /\ RequestTypes /\ Who /\ Reads \cap Searches = {}
  BY TypeParts, RequestsAssumption DEF Inv
<1>2. CASE UNCHANGED <<entry, results, loaded>>
  BY <1>2
<1>3. ASSUME NEW r \in Requests, Load(r)
      PROVE  /\ UNCHANGED <<entry, results>>
             /\ \A q \in Reads : loaded'[q] \in {None, loaded[q], row[JobOf[q]]}
             /\ \A q \in Searches : loaded'[q] \in {None, loaded[q], Listed}
  <2>1. /\ UNCHANGED <<entry, results>>
        /\ loaded' = [loaded EXCEPT ![r] = IF r \in Reads THEN row[JobOf[r]] ELSE Listed]
    BY <1>3 DEF Load, redis
  <2>2. \A q \in Reads \cup Searches : q # r => loaded'[q] = loaded[q]
    BY <2>1
  <2>3. r \in Reads \cup Searches
    BY <1>1, <1>3 DEF Load, Who
  <2>4. loaded'[r] = IF r \in Reads THEN row[JobOf[r]] ELSE Listed
    BY <1>1, <2>1, <2>3 DEF RequestTypes
  <2> QED
    BY <1>1, <2>1, <2>2, <2>4
<1>4. ASSUME NEW r \in Requests, Fill(r) \/ FillNot(r)
      PROVE  /\ \A j \in Jobs :
                   \/ entry'[j] = entry[j]
                   \/ r \in Reads /\ JobOf[r] = j /\ entry'[j] = loaded[r] /\ loaded[r] # None
             /\ results' = results \/ (r \in Searches /\ results' = loaded[r] /\ loaded[r] # None)
             /\ \A q \in Reads \cup Searches : loaded'[q] \in {None, loaded[q]}
  <2>1. r \in Reads \cup Searches /\ loaded[r] # None
    BY <1>1, <1>4 DEF Fill, FillNot, Who, RequestTypes
  <2>2. \A q \in Reads \cup Searches : loaded'[q] \in {None, loaded[q]}
    BY <1>1, <1>4 DEF Fill, FillNot, RequestTypes
  <2> QED
    BY <1>1, <1>4, <2>1, <2>2 DEF Fill, FillNot, redis, DataTypes
<1>5. ASSUME NEW r \in Requests,
             \/ Hit(r) \/ Miss(r) \/ ReadForClose(r) \/ CountApplications(r) \/ NotFound(r)
             \/ Write(r) \/ WriteFails(r) \/ ReadFails(r) \/ Submit(r)
             \/ Invalidate(r) \/ InvalidateSearches(r)
      PROVE  /\ UNCHANGED loaded /\ results' \in {None, results}
             /\ \A j \in Jobs : entry'[j] \in {None, entry[j]}
  BY <1>1, <1>5
  DEF Hit, Miss, ReadForClose, CountApplications, NotFound, Write, WriteFails, ReadFails, Submit,
      Invalidate, InvalidateSearches, redis, DataTypes
<1>6. CASE Expire
  BY <1>1, <1>6 DEF Expire, DataTypes
<1>7. CASE Restart
  BY <1>7 DEF Restart
<1>8. CASE Ready \/ Disconnect \/ UNCHANGED vars
  BY <1>2, <1>8 DEF Ready, Disconnect, vars, redis
<1> QED
  BY <1>3, <1>4, <1>5, <1>6, <1>7, <1>8 DEF Next, Step, Terminated

\* Lemma: the copies stay behind the rows.
LEMMA CopyStep ==
    ASSUME Inv, Inv', Fresh, CopiesAreOlder, [Next]_vars
    PROVE  CopiesAreOlder'
<1>1. DataTypes /\ RequestTypes /\ row' \in [Jobs -> Rows] /\ row \in [Jobs -> Rows]
  BY TypeParts DEF Inv, DataTypes
<1>2. ASSUME NEW a \in Rows, NEW j \in Jobs, Older(a, row[j]) PROVE Older(a, row'[j])
  BY <1>1, <1>2, RowStep, OlderOrder
<1>3. ASSUME NEW j \in Jobs, entry'[j] # None PROVE Older(entry'[j], row'[j])
  <2>1. entry'[j] \in Rows /\ Older(entry'[j], row[j])
    BY <1>1, <1>3, CopySources DEF CopiesAreOlder, DataTypes, RequestTypes
  <2> QED
    BY <1>2, <2>1
<1>4. ASSUME results' # None, NEW j \in Jobs PROVE Older(results'[j], row'[j])
  <2>1. results' \in Listings /\ Older(results'[j], row[j])
    BY <1>1, <1>4, CopySources DEF CopiesAreOlder, DataTypes, RequestTypes
  <2>2. results'[j] \in Rows
    BY <2>1 DEF Listings
  <2> QED
    BY <1>2, <2>1, <2>2
<1>5. ASSUME NEW r \in Reads, loaded'[r] # None PROVE Older(loaded'[r], row'[JobOf[r]])
  <2>1. JobOf[r] \in Jobs /\ loaded'[r] \in {loaded[r], row[JobOf[r]]}
    BY <1>5, CopySources, RequestFacts
  <2>2. loaded'[r] \in Rows /\ Older(loaded'[r], row[JobOf[r]])
    BY <1>1, <1>5, <2>1, OlderOrder DEF CopiesAreOlder, RequestTypes
  <2> QED
    BY <1>2, <2>1, <2>2
<1>6. ASSUME NEW r \in Searches, loaded'[r] # None, NEW j \in Jobs
      PROVE  Older(loaded'[r][j], row'[j])
  <2>1. loaded'[r] \in {loaded[r], Listed}
    BY <1>6, CopySources
  <2>2. loaded'[r] \in Listings /\ Older(loaded'[r][j], row[j])
    BY <1>1, <1>6, <2>1, ListedOlder DEF CopiesAreOlder, RequestTypes
  <2>3. loaded'[r][j] \in Rows
    BY <2>2 DEF Listings
  <2> QED
    BY <1>2, <2>2, <2>3
<1> QED
  BY <1>3, <1>4, <1>5, <1>6 DEF CopiesAreOlder

\* Lemma: at the start a copy is its row, or the search's listing.
LEMMA InitCopies == Init => Fresh /\ CopiesAreOlder
<1> SUFFICES ASSUME Init PROVE Fresh /\ CopiesAreOlder
  OBVIOUS
<1>1. DataTypes
  BY InitInv, TypeParts DEF Inv
<1>2. /\ \A j \in Jobs : entry[j] = None \/ entry[j] = row[j]
      /\ results \in {None, Listed}
      /\ loaded = [r \in Reads \cup Searches |-> None]
  BY DEF Init
<1>3. Fresh
  <2>1. PICK posted \in SUBSET {j \in Jobs : \A c \in Creates : JobOf[c] # j} :
            \E seeded \in SUBSET posted :
               row = [j \in Jobs |-> IF j \in seeded THEN Seeded
                                   ELSE IF j \in posted THEN Posted ELSE NoJob]
    BY DEF Init
  <2> QED
    BY <2>1, RequestFacts DEF Fresh
<1> QED
  BY <1>1, <1>2, <1>3, OlderOrder, ListedOlder DEF CopiesAreOlder, DataTypes

\* Theorem: no copy and no reader is ever ahead of MySQL, but in the one counter that a
\* recompute may lower.
THEOREM NoCopyAhead == Spec => []CopiesAreOlder
<1>1. Inv /\ Fresh /\ [Next]_vars => Fresh'
  BY RowStep
<1>2. Inv /\ Inv' /\ Fresh /\ CopiesAreOlder /\ [Next]_vars => CopiesAreOlder'
  BY CopyStep
<1> QED
  BY <1>1, <1>2, InitCopies, Invariance, PTL DEF Spec
===============================================================================
