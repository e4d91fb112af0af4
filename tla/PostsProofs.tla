------------------------------- MODULE PostsProofs -----------------------------
(***************************************************************************)
(* The counters of Posts against their rows, for any number of posts,      *)
(* requests and faults.  Inv says what an open transaction knows of its    *)
(* row (it holds the lock, and the row is there exactly if its DELETE has  *)
(* found it), that only a post with a row or one being deleted has rows,   *)
(* and bounds the counters from both sides.                                *)
(***************************************************************************)
EXTENDS Posts, FiniteSetTheorems, TLAPS

\* The transaction of r has changed its row and is open.
Open(r) == at[r] \in {"changed", "counted"}

SameRow(r, q) == KindOf(r) = KindOf(q) /\ PostOf[r] = PostOf[q] /\ KeyOf[r] = KeyOf[q]

RowsFinite == \A k \in Kinds, p \in Posts : IsFiniteSet(rows[k][p])

\* Who has something to do, and where those are whose transaction has taken effect.
Doers ==
    \A r \in Requests :
        /\ doing[r] # "nothing" => r \in Changes
        /\ Open(r) => doing[r] # "nothing"
        /\ r \in landed => at[r] \in {"stored", "answered", "crashed"}
        /\ at[r] \in {"new", "looked"} => r \notin found

\* A row is changed by one open transaction at a time ...
Exclusive == \A r, q \in Changes : Open(r) /\ Open(q) /\ SameRow(r, q) => r = q

\* ... and is there exactly if that one is about to remove it.
Knows == \A r \in Changes : Open(r) => (RowOf(r) <=> doing[r] = "remove" /\ r \in found)

\* A post that is neither there nor being deleted has no rows, and nobody changes it.
Touched ==
    /\ \A p \in Posts \ (posts \cup stripped), k \in Kinds : rows[k][p] = {}
    /\ \A r \in Changes \cup Deletes :
          at[r] \in {"looked", "changed", "counted"} => PostOf[r] \in posts \cup stripped
    /\ \A r \in Deletes : at[r] \in {"uncommented", "unliked"} => PostOf[r] \in stripped

\* A count is between its rows and the seeded ones less the misses, and all of these.
Bounded ==
    \A p \in Posts \ stripped, k \in Kinds :
        /\ count[k][p] <= Seeded[k][p] + Cardinality(rows[k][p])
        /\ Seeded[k][p] + Cardinality(rows[k][p]) <= count[k][p] + Cardinality(Misses(k, p))

\* The removal of r has found nothing, or is about to.
Missing(r) ==
    /\ doing[r] = "remove" /\ PostOf[r] \notin stripped
    /\ \/ at[r] = "looked" /\ ~RowOf(r)
       \/ (Open(r) \/ r \in landed) /\ r \notin found

Caused ==
    \A r \in Changes : Missing(r) => \E q \in landed \cap found : SameRow(r, q)

Inv ==
    /\ TypeOK /\ RowsFinite /\ Doers /\ Exclusive /\ Knows /\ Touched /\ Bounded /\ Caused

-------------------------------------------------------------------------------
\* Lemma: the kinds of requests exclude each other.
LEMMA RequestFacts ==
    /\ \A r \in Changes : /\ r \in Requests /\ r \notin Creates \cup Deletes
                          /\ PostOf[r] \in Posts /\ KeyOf[r] \in Keys /\ KindOf(r) \in Kinds
    /\ \A r \in Creates \cup Deletes : r \in Requests /\ PostOf[r] \in Posts
    /\ Creates \cap Deletes = {}
BY RequestsAssumption DEF Changes, Requests, Kinds, KindOf

\* Lemma: the misses are finitely many.
LEMMA MissesFinite ==
    ASSUME TypeOK, NEW k, NEW p
    PROVE  IsFiniteSet(Misses(k, p)) /\ Cardinality(Misses(k, p)) \in Nat
<1>1. Misses(k, p) \subseteq Requests
  BY DEF TypeOK, Misses, Requests
<1> QED
  BY <1>1, BoundsAssumption, FS_Subset, FS_CardinalityType

\* Lemma: a step that changes no data, keeps what everyone has to do and has found, and
\* takes nobody anywhere but to the end or from "changed" to "counted".
LEMMA CalmStep ==
    ASSUME Inv, UNCHANGED <<data, doing, found>>,
           at' \in [Requests -> Places],
           reply' \in [Requests -> {0, 200, 201, 403, 404, 500}],
           faults' \in 0..MaxFaults,
           \A r \in Requests : \/ at'[r] \in {at[r], "answered", "crashed"}
                               \/ at[r] = "changed" /\ at'[r] = "counted"
    PROVE  Inv'
<1>1. /\ TypeOK /\ RowsFinite /\ Doers /\ Exclusive /\ Knows /\ Touched /\ Bounded /\ Caused
      /\ UNCHANGED <<posts, rows, count, landed, stripped, doing, found>>
  BY DEF Inv, data
<1>2. TypeOK'
  BY <1>1 DEF TypeOK
<1>3. \A r \in Requests : /\ Open(r)' => Open(r)
                          /\ RowOf(r)' <=> RowOf(r)
  BY <1>1 DEF Open, RowOf
<1>4. RowsFinite'
  BY <1>1 DEF RowsFinite
<1>5. Doers'
  BY <1>1, <1>3 DEF Doers, Open
<1>6. Exclusive'
  BY <1>1, <1>3, RequestFacts DEF Exclusive, SameRow
<1>7. Knows'
  BY <1>1, <1>3, RequestFacts DEF Knows
<1>8. Touched'
  BY <1>1, RequestFacts DEF Touched
<1>9. Bounded'
  BY <1>1 DEF Bounded, Misses
<1>10. Caused'
  <2>1. \A r \in Changes : Missing(r)' => Missing(r)
    BY <1>1, <1>3, RequestFacts DEF Missing
  <2> QED
    BY <1>1, <2>1 DEF Caused, SameRow
<1> QED
  BY <1>2, <1>4, <1>5, <1>6, <1>7, <1>8, <1>9, <1>10 DEF Inv

\* Lemma: the first SELECTs.
LEMMA LookStep ==
    ASSUME Inv, NEW r \in Requests, Look(r)
    PROVE  Inv'
<1>1. /\ TypeOK /\ RowsFinite /\ Doers /\ Exclusive /\ Knows /\ Touched /\ Bounded /\ Caused
      /\ UNCHANGED <<posts, rows, count, landed, stripped, found, faults>>
      /\ r \in Changes \cup Deletes /\ at[r] = "new"
  BY DEF Inv, Look, data, NoFault
<1>2. CASE Refused(r)
  <2>1. /\ UNCHANGED <<data, doing, found>> /\ at' = [at EXCEPT ![r] = "answered"]
        /\ \E code \in {403, 404} : reply' = [reply EXCEPT ![r] = code]
    BY <1>2 DEF Look, Refused, Answer
  <2> QED
    BY <1>1, <2>1, CalmStep DEF TypeOK, Places
<1>3. CASE Accepted(r)
  <2>1. /\ at' = [at EXCEPT ![r] = "looked"] /\ UNCHANGED reply
        /\ \E what \in {"nothing", "insert", "remove"} :
              /\ doing' = [doing EXCEPT ![r] = what]
              /\ what # "nothing" => r \in Changes
              /\ what = "remove" => RowOf(r)
    <3>1. at' = [at EXCEPT ![r] = "looked"] /\ UNCHANGED reply
      BY <1>3 DEF Accepted, Goto
    <3>2. CASE r \in Deletes
      <4>1. doing' = [doing EXCEPT ![r] = "nothing"]
        BY <1>3, <3>2, RequestFacts DEF Accepted, Changes
      <4> QED
        BY <3>1, <4>1
    <3>3. CASE r \in Adds
      <4>1. r \notin Deletes /\ r \in Changes
        BY <3>3, RequestFacts DEF Changes
      <4>2. doing' = [doing EXCEPT ![r] = "insert"]
        BY <1>3, <3>3, <4>1 DEF Accepted
      <4> QED
        BY <3>1, <4>1, <4>2
    <3>4. CASE r \notin Deletes \cup Adds
      <4>1. r \in Changes
        BY <1>1, <3>4
      <4>2. doing' = [doing EXCEPT ![r] = IF RowOf(r) THEN "remove" ELSE "insert"]
        BY <1>3, <3>4 DEF Accepted
      <4>3. CASE RowOf(r)
        BY <3>1, <4>1, <4>2, <4>3
      <4>4. CASE ~RowOf(r)
        BY <3>1, <4>1, <4>2, <4>4
      <4> QED
        BY <4>3, <4>4
    <3> QED
      BY <3>2, <3>3, <3>4
  <2>2. PostOf[r] \in posts \cup stripped
    <3>1. CASE r \in Removals
      <4>1. r \in Changes /\ RowOf(r)
        BY <1>3, <3>1 DEF Accepted, Changes
      <4> QED
        BY <1>1, <4>1, RequestFacts DEF Touched, RowOf
    <3>2. CASE r \notin Removals
      BY <1>3, <3>2 DEF Accepted
    <3> QED
      BY <3>1, <3>2
  <2>3. TypeOK'
    BY <1>1, <2>1 DEF TypeOK, Places
  <2>4. /\ \A q \in Requests \ {r} : at'[q] = at[q] /\ doing'[q] = doing[q]
        /\ at'[r] = "looked" /\ r \notin landed
    BY <1>1, <2>1 DEF TypeOK, Doers
  <2>5. \A q \in Requests : /\ Open(q)' => Open(q) /\ q # r
                            /\ RowOf(q)' <=> RowOf(q)
    BY <1>1, <2>4 DEF Open, RowOf
  <2>6. RowsFinite'
    BY <1>1 DEF RowsFinite
  <2>7. Doers'
    BY <1>1, <2>1, <2>4, <2>5 DEF Doers, Open, TypeOK
  <2>8. Exclusive'
    BY <1>1, <2>5, RequestFacts DEF Exclusive, SameRow
  <2>9. Knows'
    BY <1>1, <2>4, <2>5, RequestFacts DEF Knows
  <2>10. Touched'
    BY <1>1, <2>2, <2>4, RequestFacts DEF Touched
  <2>11. Bounded'
    <3>1. \A k, p : Misses(k, p)' = Misses(k, p)
      BY <1>1, <2>4 DEF Misses, TypeOK, Requests
    <3> QED
      BY <1>1, <3>1 DEF Bounded
  <2>12. Caused'
    <3>1. \A q \in Changes : Missing(q)' => Missing(q)
      <4> SUFFICES ASSUME NEW q \in Changes, Missing(q)' PROVE Missing(q)
        OBVIOUS
      <4>1. CASE q = r
        BY <1>1, <2>1, <2>4, <2>5, <4>1 DEF Missing, TypeOK, Open
      <4>2. CASE q # r
        BY <1>1, <2>4, <2>5, <4>2, RequestFacts DEF Missing
      <4> QED
        BY <4>1, <4>2
    <3> QED
      BY <1>1, <3>1 DEF Caused, SameRow
  <2> QED
    BY <2>3, <2>6, <2>7, <2>8, <2>9, <2>10, <2>11, <2>12 DEF Inv
<1> QED
  BY <1>2, <1>3 DEF Look

\* Lemma: the statement that inserts or deletes the row.
LEMMA ChangeStep ==
    ASSUME Inv, NEW r \in Requests, Insert(r) \/ Remove(r)
    PROVE  Inv'
<1>1. /\ TypeOK /\ RowsFinite /\ Doers /\ Exclusive /\ Knows /\ Touched /\ Bounded /\ Caused
      /\ UNCHANGED <<posts, rows, count, landed, stripped, doing, faults>>
      /\ at[r] = "looked" /\ Unlocked(r) /\ r \in Changes
  BY DEF Inv, Insert, Remove, data, NoFault, Doers
<1>2. CASE at' = [at EXCEPT ![r] = "answered"] /\ Insert(r)
  <2>1. /\ UNCHANGED <<data, doing, found>>
        /\ reply' = reply \/ reply' = [reply EXCEPT ![r] = 500]
    BY <1>2 DEF Insert, Answer, Goto
  <2> QED
    BY <1>1, <1>2, <2>1, CalmStep DEF TypeOK, Places
<1>3. CASE at' = [at EXCEPT ![r] = "changed"] /\ UNCHANGED reply
           /\ found' = (IF doing[r] = "remove" /\ RowOf(r) THEN found \cup {r} ELSE found)
           /\ (doing[r] = "insert" => ~RowOf(r)) /\ doing[r] \in {"insert", "remove"}
           /\ (doing[r] = "insert" => UNCHANGED found)
  <2>1. TypeOK'
    BY <1>1, <1>3 DEF TypeOK, Places
  <2>2. /\ \A q \in Requests \ {r} : at'[q] = at[q] /\ (q \in found' <=> q \in found)
        /\ at'[r] = "changed" /\ r \notin landed /\ found \subseteq found'
    BY <1>1, <1>3 DEF TypeOK, Doers
  <2>3. \A q \in Requests : /\ Open(q)' <=> Open(q) \/ q = r
                            /\ RowOf(q)' <=> RowOf(q)
    BY <1>1, <2>2 DEF Open, RowOf
  <2>4. RowsFinite'
    BY <1>1 DEF RowsFinite
  <2>5. Doers'
    BY <1>1, <1>3, <2>2, <2>3 DEF Doers
  <2>6. Exclusive'
    <3>1. \A q \in Changes : Open(q) /\ SameRow(r, q) => q = r
      BY <1>1 DEF Unlocked, HoldersOf, Open, SameRow
    <3> QED
      BY <1>1, <2>3, <3>1, RequestFacts DEF Exclusive, SameRow
  <2>7. Knows'
    <3> SUFFICES ASSUME NEW q \in Changes, Open(q)'
                 PROVE  RowOf(q)' <=> doing'[q] = "remove" /\ q \in found'
      BY DEF Knows
    <3>1. CASE q = r
      <4>1. doing[r] = "insert" => ~RowOf(r)
        BY <1>3
      <4>2. doing[r] = "remove" /\ r \in found' => RowOf(r)
        <5>1. r \notin found \/ RowOf(r) \/ doing[r] # "remove"
          BY <1>1 DEF Doers
        <5> QED
          BY <1>3, <5>1
      <4> QED
        BY <1>1, <1>3, <2>3, <3>1, <4>1, <4>2
    <3>2. CASE q # r
      BY <1>1, <2>2, <2>3, <3>2, RequestFacts DEF Knows
    <3> QED
      BY <3>1, <3>2
  <2>8. Touched'
    BY <1>1, <2>2, RequestFacts DEF Touched
  <2>9. Bounded'
    <3>1. \A k, p : Misses(k, p)' = Misses(k, p)
      BY <1>1, <2>2 DEF Misses, TypeOK, Requests
    <3> QED
      BY <1>1, <3>1 DEF Bounded
  <2>10. Caused'
    <3>1. \A q \in Changes : Missing(q)' => Missing(q)
      <4> SUFFICES ASSUME NEW q \in Changes, Missing(q)' PROVE Missing(q)
        OBVIOUS
      <4>1. CASE q = r
        BY <1>1, <1>3, <2>2, <2>3, <4>1 DEF Missing
      <4>2. CASE q # r
        BY <1>1, <2>2, <2>3, <4>2, RequestFacts DEF Missing
      <4> QED
        BY <4>1, <4>2
    <3> QED
      BY <1>1, <2>2, <3>1 DEF Caused, SameRow
  <2> QED
    BY <2>1, <2>4, <2>5, <2>6, <2>7, <2>8, <2>9, <2>10 DEF Inv
<1> QED
  BY <1>1, <1>2, <1>3 DEF Insert, Remove, Goto, Answer

\* Lemma: the COMMIT of a change.
LEMMA CommitStep ==
    ASSUME Inv, NEW r \in Requests, Commit(r)
    PROVE  Inv'
<1> DEFINE k == KindOf(r)
           p == PostOf[r]
<1>1. /\ TypeOK /\ RowsFinite /\ Doers /\ Exclusive /\ Knows /\ Touched /\ Bounded /\ Caused
      /\ UNCHANGED <<posts, stripped, doing, found>> /\ landed' = landed \cup {r}
      /\ at[r] = "counted" /\ Open(r) /\ r \in Changes /\ doing[r] \in {"insert", "remove"}
      /\ k \in Kinds /\ p \in Posts /\ KeyOf[r] \in Keys /\ r \notin landed
      /\ p \in posts \cup stripped
  BY RequestFacts DEF Inv, Commit, Committed, Doers, Open, TypeOK, Touched
<1>2. /\ at' \in [Requests -> Places] /\ at'[r] \in {"stored", "answered"}
      /\ \A q \in Requests \ {r} : at'[q] = at[q]
      /\ reply' \in [Requests -> {0, 200, 201, 403, 404, 500}]
      /\ faults' \in 0..MaxFaults
  <2>1. \/ at' = [at EXCEPT ![r] = "stored"] /\ UNCHANGED reply
        \/ /\ at' = [at EXCEPT ![r] = "answered"]
           /\ \E code \in {200, 500} : reply' = [reply EXCEPT ![r] = code]
    BY DEF Commit, Goto, Answer
  <2>2. faults' = faults \/ (faults < MaxFaults /\ faults' = faults + 1)
    BY DEF Commit, Fault, NoFault
  <2>3. /\ at \in [Requests -> Places] /\ reply \in [Requests -> {0, 200, 201, 403, 404, 500}]
        /\ faults \in 0..MaxFaults
    BY <1>1 DEF TypeOK
  <2>4. faults' \in 0..MaxFaults
    BY <2>2, <2>3, BoundsAssumption
  <2> QED
    BY <2>1, <2>3, <2>4 DEF Places
<1>3. /\ rows' \in [Kinds -> [Posts -> SUBSET Keys]]
      /\ rows'[k][p] = IF doing[r] = "insert" THEN rows[k][p] \cup {KeyOf[r]}
                                              ELSE rows[k][p] \ {KeyOf[r]}
      /\ \A j \in Kinds, o \in Posts : j # k \/ o # p => rows'[j][o] = rows[j][o]
  <2>1. rows' = [rows EXCEPT ![k][p] =
                   IF doing[r] = "insert" THEN @ \cup {KeyOf[r]} ELSE @ \ {KeyOf[r]}]
    BY DEF Commit, Committed
  <2>2. rows \in [Kinds -> [Posts -> SUBSET Keys]]
    BY <1>1 DEF TypeOK
  <2>3. CASE doing[r] = "insert"
    BY <1>1, <2>1, <2>2, <2>3
  <2>4. CASE doing[r] # "insert"
    BY <1>1, <2>1, <2>2, <2>4
  <2> QED
    BY <2>3, <2>4
<1>4. /\ count' \in [Kinds -> [Posts -> Nat]]
      /\ p \in posts => count'[k][p] = IF doing[r] = "insert" THEN count[k][p] + 1
                                                              ELSE Less(count[k][p])
      /\ \A j \in Kinds, o \in Posts : j # k \/ o # p => count'[j][o] = count[j][o]
  <2>1. Less(count[k][p]) \in Nat /\ count[k][p] + 1 \in Nat /\ count[k][p] \in Nat
    BY <1>1 DEF TypeOK, Less
  <2> QED
    BY <1>1, <2>1 DEF Commit, Committed, TypeOK
<1>5. TypeOK'
  BY <1>1, <1>2, <1>3, <1>4 DEF TypeOK
<1>6. RowsFinite'
  <2>1. IsFiniteSet(rows'[k][p])
    <3>1. IsFiniteSet(rows[k][p])
      BY <1>1 DEF RowsFinite
    <3>2. IsFiniteSet(rows[k][p] \cup {KeyOf[r]}) /\ IsFiniteSet(rows[k][p] \ {KeyOf[r]})
      BY <3>1, FS_AddElement, FS_RemoveElement
    <3> QED
      BY <1>3, <3>2
  <2> QED
    BY <1>1, <1>3, <2>1 DEF RowsFinite
<1>7. \A q \in Requests : Open(q)' <=> Open(q) /\ q # r
  BY <1>2 DEF Open
<1>8. ASSUME NEW q \in Changes, ~SameRow(r, q)
      PROVE  RowOf(q)' <=> RowOf(q)
  BY <1>1, <1>3, <1>8, RequestFacts DEF RowOf, SameRow
<1>9. \A q \in Changes : Open(q)' => ~SameRow(r, q)
  BY <1>1, <1>7, RequestFacts DEF Exclusive
<1>10. Doers'
  BY <1>1, <1>2, <1>7 DEF Doers
<1>11. Exclusive'
  BY <1>1, <1>7, RequestFacts DEF Exclusive, SameRow
<1>12. Knows'
  BY <1>1, <1>7, <1>8, <1>9, RequestFacts DEF Knows
<1>13. Touched'
  BY <1>1, <1>2, <1>3, RequestFacts DEF Touched
<1>14. RowOf(r) <=> doing[r] = "remove" /\ r \in found
  BY <1>1 DEF Knows
<1>15. Bounded'
  <2> SUFFICES ASSUME NEW o \in Posts \ stripped, NEW j \in Kinds
               PROVE  /\ count'[j][o] <= Seeded[j][o] + Cardinality(rows'[j][o])
                      /\ Seeded[j][o] + Cardinality(rows'[j][o])
                           <= count'[j][o] + Cardinality(Misses(j, o)')
    BY <1>1 DEF Bounded
  <2>1. /\ count[j][o] <= Seeded[j][o] + Cardinality(rows[j][o])
        /\ Seeded[j][o] + Cardinality(rows[j][o]) <= count[j][o] + Cardinality(Misses(j, o))
    BY <1>1 DEF Bounded
  <2>2. /\ IsFiniteSet(rows[j][o]) /\ IsFiniteSet(Misses(j, o)) /\ count[j][o] \in Nat
        /\ Cardinality(rows[j][o]) \in Nat /\ Cardinality(Misses(j, o)) \in Nat
        /\ Seeded[j][o] \in Nat
    BY <1>1, MissesFinite, FS_CardinalityType, SeededAssumption DEF RowsFinite, TypeOK
  <2>3. CASE j # k \/ o # p
    <3>1. Misses(j, o)' = Misses(j, o)
      BY <1>1, <2>3 DEF Misses
    <3> QED
      BY <1>3, <1>4, <2>1, <2>3, <3>1
  <2>4. CASE j = k /\ o = p /\ doing[r] = "insert"
    <3>1. Misses(k, p)' = Misses(k, p)
      BY <1>1, <2>4 DEF Misses
    <3>2. Cardinality(rows'[k][p]) = Cardinality(rows[k][p]) + 1
      BY <1>3, <1>14, <2>2, <2>4, FS_AddElement DEF RowOf
    <3>3. count'[k][p] = count[k][p] + 1
      BY <1>1, <1>4, <2>4
    <3> QED
      BY <2>1, <2>2, <2>4, <3>1, <3>2, <3>3
  <2>5. CASE j = k /\ o = p /\ doing[r] = "remove" /\ r \in found
    <3>1. Misses(k, p)' = Misses(k, p)
      BY <1>1, <2>5 DEF Misses
    <3>2. Cardinality(rows'[k][p]) = Cardinality(rows[k][p]) - 1
      <4>1. KeyOf[r] \in rows[k][p] /\ rows'[k][p] = rows[k][p] \ {KeyOf[r]}
        BY <1>3, <1>14, <2>5 DEF RowOf
      <4>2. Cardinality(rows[k][p] \ {KeyOf[r]}) = Cardinality(rows[k][p]) - 1
        BY <2>2, <2>5, <4>1, FS_RemoveElement
      <4> QED
        BY <4>1, <4>2
    <3>3. count'[k][p] = Less(count[k][p])
      BY <1>1, <1>4, <2>5
    <3>4. Cardinality(rows'[k][p]) \in Nat
      BY <1>6, <1>1, FS_CardinalityType DEF RowsFinite
    <3> QED
      BY <2>1, <2>2, <2>5, <3>1, <3>2, <3>3, <3>4 DEF Less
  <2>6. CASE j = k /\ o = p /\ doing[r] = "remove" /\ r \notin found
    <3>1. Misses(k, p)' = Misses(k, p) \cup {r} /\ r \notin Misses(k, p)
      BY <1>1, <2>6 DEF Misses
    <3>2. Cardinality(Misses(k, p)') = Cardinality(Misses(k, p)) + 1
      BY <2>2, <2>6, <3>1, FS_AddElement
    <3>3. rows'[k][p] = rows[k][p]
      BY <1>3, <1>14, <2>6 DEF RowOf
    <3>4. count'[k][p] = Less(count[k][p])
      BY <1>1, <1>4, <2>6
    <3> QED
      BY <2>1, <2>2, <2>6, <3>2, <3>3, <3>4 DEF Less
  <2> QED
    BY <1>1, <2>3, <2>4, <2>5, <2>6
<1>16. Caused'
  <2> SUFFICES ASSUME NEW q \in Changes, Missing(q)'
               PROVE  \E s \in (landed \cap found)' : SameRow(q, s)
    BY DEF Caused, SameRow
  <2>1. CASE Missing(q)
    BY <1>1, <2>1 DEF Caused
  <2>2. CASE ~Missing(q)
    <3>1. \/ at[q] = "looked" /\ q # r /\ ~RowOf(q)' /\ RowOf(q)
          \/ q = r /\ r \notin found /\ doing[r] = "remove" /\ PostOf[r] \notin stripped
      BY <1>1, <1>2, <1>7, <2>2, RequestFacts DEF Missing, Open
    <3>2. CASE at[q] = "looked" /\ q # r /\ ~RowOf(q)' /\ RowOf(q)
      <4>1. SameRow(r, q)
        BY <1>8, <3>2
      <4>2. RowOf(r) <=> RowOf(q)
        BY <4>1 DEF SameRow, RowOf
      <4> QED
        BY <1>1, <1>14, <3>2, <4>1, <4>2 DEF SameRow
    <3>3. CASE q = r /\ r \notin found /\ doing[r] = "remove" /\ PostOf[r] \notin stripped
      BY <1>1, <2>2, <3>3 DEF Missing
    <3> QED
      BY <3>1, <3>2, <3>3
  <2> QED
    BY <2>1, <2>2
<1> QED
  BY <1>5, <1>6, <1>10, <1>11, <1>12, <1>13, <1>15, <1>16 DEF Inv

\* Lemma: a new post has no rows.
LEMMA CreateStep ==
    ASSUME Inv, NEW r \in Requests, Create(r)
    PROVE  Inv'
<1>1. /\ TypeOK /\ RowsFinite /\ Doers /\ Exclusive /\ Knows /\ Touched /\ Bounded /\ Caused
      /\ UNCHANGED <<rows, count, landed, stripped, doing, found, reply, faults>>
      /\ r \in Creates /\ at[r] = "new" /\ posts' = posts \cup {PostOf[r]}
      /\ at' = [at EXCEPT ![r] = "stored"]
  BY DEF Inv, Create, Goto, NoFault
<1>2. r \notin Changes \cup Deletes /\ PostOf[r] \in Posts
  BY <1>1, RequestFacts
<1>3. TypeOK'
  BY <1>1, <1>2 DEF TypeOK, Places
<1>4. at'[r] = "stored" /\ \A q \in Requests \ {r} : at'[q] = at[q]
  BY <1>1 DEF TypeOK
<1>5. \A q \in Changes : (Open(q)' <=> Open(q)) /\ (RowOf(q)' <=> RowOf(q))
  BY <1>1, <1>2, <1>4, RequestFacts DEF Open, RowOf
<1>6. RowsFinite' /\ Bounded'
  BY <1>1 DEF RowsFinite, Bounded, Misses
<1>7. Doers'
  BY <1>1, <1>2, <1>4 DEF Doers, Open
<1>8. Exclusive' /\ Knows'
  BY <1>1, <1>5 DEF Exclusive, Knows, SameRow
<1>9. Touched'
  BY <1>1, <1>2, <1>4, RequestFacts DEF Touched
<1>10. Caused'
  <2>1. \A q \in Changes : Missing(q)' => Missing(q)
    BY <1>1, <1>2, <1>4, <1>5, RequestFacts DEF Missing
  <2> QED
    BY <1>1, <2>1 DEF Caused, SameRow
<1> QED
  BY <1>3, <1>6, <1>7, <1>8, <1>9, <1>10 DEF Inv

\* Lemma: a delete removes the rows of one kind, which nobody keeps locked.
LEMMA StripStep ==
    ASSUME Inv, NEW r \in Requests, NEW k \in Kinds, NEW from, NEW to,
           from = "looked" \/ from = "uncommented", to = "uncommented" \/ to = "unliked",
           Strip(r, k, from, to)
    PROVE  Inv'
<1> DEFINE p == PostOf[r]
<1>1. /\ TypeOK /\ RowsFinite /\ Doers /\ Exclusive /\ Knows /\ Touched /\ Bounded /\ Caused
      /\ UNCHANGED <<posts, count, landed, doing, found, reply, faults>>
      /\ r \in Deletes /\ at[r] = from /\ HoldersOf(k, p) = {}
      /\ rows' = [rows EXCEPT ![k][p] = {}] /\ stripped' = stripped \cup {p}
      /\ at' = [at EXCEPT ![r] = to]
  BY DEF Inv, Strip, Goto, NoFault
<1>2. r \notin Changes \cup Creates /\ p \in Posts
  BY <1>1, RequestFacts
<1>3. TypeOK'
  BY <1>1, <1>2 DEF TypeOK, Places
<1>4. at'[r] = to /\ \A q \in Requests \ {r} : at'[q] = at[q]
  BY <1>1 DEF TypeOK
<1>5. rows'[k][p] = {} /\ \A j \in Kinds, o \in Posts : j # k \/ o # p => rows'[j][o] = rows[j][o]
  BY <1>1, <1>2 DEF TypeOK
<1>6. \A q \in Changes : /\ Open(q)' <=> Open(q)
                         /\ Open(q) \/ PostOf[q] \notin stripped' => (RowOf(q)' <=> RowOf(q))
  <2> SUFFICES ASSUME NEW q \in Changes
               PROVE  /\ Open(q)' <=> Open(q)
                      /\ Open(q) \/ PostOf[q] \notin stripped' => (RowOf(q)' <=> RowOf(q))
    OBVIOUS
  <2>1. Open(q)' <=> Open(q)
    BY <1>2, <1>4, RequestFacts DEF Open
  <2>2. Open(q) => KindOf(q) # k \/ PostOf[q] # p
    BY <1>1 DEF HoldersOf, Open
  <2>3. PostOf[q] \notin stripped' => PostOf[q] # p
    BY <1>1
  <2> QED
    BY <1>5, <2>1, <2>2, <2>3, RequestFacts DEF RowOf
<1>7. RowsFinite'
  BY <1>1, <1>5, FS_EmptySet DEF RowsFinite
<1>8. Bounded'
  <2> SUFFICES ASSUME NEW o \in Posts \ stripped', NEW j \in Kinds
               PROVE  /\ count'[j][o] <= Seeded[j][o] + Cardinality(rows'[j][o])
                      /\ Seeded[j][o] + Cardinality(rows'[j][o])
                           <= count'[j][o] + Cardinality(Misses(j, o)')
    BY DEF Bounded
  <2>1. o # p /\ o \notin stripped /\ Misses(j, o)' = Misses(j, o)
    BY <1>1 DEF Misses
  <2> QED
    BY <1>1, <1>5, <2>1 DEF Bounded
<1>9. Doers'
  BY <1>1, <1>2, <1>4 DEF Doers, Open
<1>10. Exclusive' /\ Knows'
  BY <1>1, <1>6 DEF Exclusive, Knows, SameRow
<1>11. Touched'
  <2>1. \A o \in Posts \ (posts' \cup stripped'), j \in Kinds : rows'[j][o] = {}
    BY <1>1, <1>5 DEF Touched
  <2>2. \A q \in Changes \cup Deletes :
           at'[q] \in {"looked", "changed", "counted"} => PostOf[q] \in posts' \cup stripped'
    BY <1>1, <1>4, RequestFacts DEF Touched
  <2>3. \A q \in Deletes : at'[q] \in {"uncommented", "unliked"} => PostOf[q] \in stripped'
    BY <1>1, <1>4, RequestFacts DEF Touched
  <2> QED
    BY <2>1, <2>2, <2>3 DEF Touched
<1>12. Caused'
  <2>1. \A q \in Changes : Missing(q)' => Missing(q)
    BY <1>1, <1>2, <1>4, <1>6, RequestFacts DEF Missing
  <2> QED
    BY <1>1, <2>1 DEF Caused, SameRow
<1> QED
  BY <1>3, <1>7, <1>8, <1>9, <1>10, <1>11, <1>12 DEF Inv

\* Lemma: a delete removes the row of the post.
LEMMA DeletePostStep ==
    ASSUME Inv, NEW r \in Requests, DeletePost(r)
    PROVE  Inv'
<1>1. /\ TypeOK /\ RowsFinite /\ Doers /\ Exclusive /\ Knows /\ Touched /\ Bounded /\ Caused
      /\ UNCHANGED <<rows, count, landed, stripped, doing, found, faults>>
      /\ r \in Deletes /\ at[r] = "unliked" /\ posts' = posts \ {PostOf[r]}
      /\ at' = [at EXCEPT ![r] = "answered"] /\ reply' = [reply EXCEPT ![r] = 200]
  BY DEF Inv, DeletePost, Answer, NoFault
<1>2. r \notin Changes /\ PostOf[r] \in stripped
  BY <1>1, RequestFacts DEF Touched
<1>3. TypeOK'
  BY <1>1 DEF TypeOK, Places
<1>4. at'[r] = "answered" /\ \A q \in Requests \ {r} : at'[q] = at[q]
  BY <1>1 DEF TypeOK
<1>5. \A q \in Changes : (Open(q)' <=> Open(q)) /\ (RowOf(q)' <=> RowOf(q))
  BY <1>1, <1>2, <1>4, RequestFacts DEF Open, RowOf
<1>6. RowsFinite' /\ Bounded'
  BY <1>1 DEF RowsFinite, Bounded, Misses
<1>7. Doers'
  BY <1>1, <1>2, <1>4 DEF Doers, Open
<1>8. Exclusive' /\ Knows'
  BY <1>1, <1>5 DEF Exclusive, Knows, SameRow
<1>9. Touched'
  BY <1>1, <1>2, <1>4, RequestFacts DEF Touched
<1>10. Caused'
  <2>1. \A q \in Changes : Missing(q)' => Missing(q)
    BY <1>1, <1>2, <1>4, <1>5, RequestFacts DEF Missing
  <2> QED
    BY <1>1, <2>1 DEF Caused, SameRow
<1> QED
  BY <1>3, <1>6, <1>7, <1>8, <1>9, <1>10 DEF Inv

-------------------------------------------------------------------------------
\* Lemma: the invariant holds initially.
LEMMA InitInv == Init => Inv
<1> SUFFICES ASSUME Init PROVE Inv
  OBVIOUS
<1>1. PICK likes \in SUBSET {KeyOf[t] : t \in Toggles},
           comments \in SUBSET ({KeyOf[d] : d \in Removals} \ {KeyOf[a] : a \in Adds}) :
         rows = [k \in Kinds |-> [p \in Posts |->
                   IF p \in Drawn THEN {} ELSE IF k = "reactions" THEN likes ELSE comments]]
  BY DEF Init
<1>2. IsFiniteSet(likes) /\ likes \subseteq Keys
  <2>1. IsFiniteSet(Toggles)
    BY BoundsAssumption, FS_Subset DEF Requests, Changes
  <2>2. IsFiniteSet({KeyOf[t] : t \in Toggles})
    <3>1. [t \in Toggles |-> KeyOf[t]] \in Surjection(Toggles, {KeyOf[t] : t \in Toggles})
      BY DEF Surjection
    <3> QED
      BY <2>1, <3>1, FS_Surjection
  <2> QED
    BY <1>1, <2>2, FS_Subset, RequestFacts DEF Changes
<1>3. IsFiniteSet(comments) /\ comments \subseteq Keys
  <2>1. IsFiniteSet(Removals)
    BY BoundsAssumption, FS_Subset DEF Requests, Changes
  <2>2. IsFiniteSet({KeyOf[d] : d \in Removals})
    <3>1. [d \in Removals |-> KeyOf[d]] \in Surjection(Removals, {KeyOf[d] : d \in Removals})
      BY DEF Surjection
    <3> QED
      BY <2>1, <3>1, FS_Surjection
  <2>3. comments \subseteq {KeyOf[d] : d \in Removals}
    BY <1>1
  <2> QED
    BY <2>2, <2>3, FS_Subset, RequestFacts DEF Changes
<1>4. \A k \in Kinds, p \in Posts : /\ rows[k][p] \subseteq Keys /\ IsFiniteSet(rows[k][p])
                                    /\ p \in Drawn => rows[k][p] = {}
                                    /\ count[k][p] = Seeded[k][p] + Cardinality(rows[k][p])
  BY <1>1, <1>2, <1>3, FS_EmptySet DEF Init
<1>5. TypeOK
  <2>1. rows \in [Kinds -> [Posts -> SUBSET Keys]]
    BY <1>1, <1>2, <1>3
  <2>2. \A k \in Kinds, p \in Posts : Seeded[k][p] + Cardinality(rows[k][p]) \in Nat
    BY <1>4, FS_CardinalityType, SeededAssumption
  <2>3. count \in [Kinds -> [Posts -> Nat]]
    BY <2>2 DEF Init
  <2> QED
    BY <2>1, <2>3, BoundsAssumption DEF Init, TypeOK, Places
<1>6. RowsFinite /\ Doers /\ Exclusive /\ Knows
  BY <1>4, RequestFacts DEF Init, RowsFinite, Doers, Exclusive, Knows, Open
<1>7. Touched
  BY <1>4, RequestFacts DEF Init, Touched
<1>8. Bounded
  <2> SUFFICES ASSUME NEW p \in Posts, NEW k \in Kinds
               PROVE  /\ count[k][p] <= Seeded[k][p] + Cardinality(rows[k][p])
                      /\ Seeded[k][p] + Cardinality(rows[k][p]) <= count[k][p] + Cardinality(Misses(k, p))
    BY DEF Bounded
  <2>1. Misses(k, p) = {}
    BY DEF Init, Misses
  <2>2. /\ Cardinality(Misses(k, p)) = 0 /\ Cardinality(rows[k][p]) \in Nat
        /\ Seeded[k][p] \in Nat
    BY <1>4, <2>1, FS_EmptySet, FS_CardinalityType, SeededAssumption
  <2> QED
    BY <1>4, <2>2
<1>9. Caused
  BY RequestFacts DEF Init, Caused, Missing
<1> QED
  BY <1>5, <1>6, <1>7, <1>8, <1>9 DEF Inv

\* Lemma: every step keeps the invariant.
LEMMA NextInv == Inv /\ [Next]_vars => Inv'
<1> SUFFICES ASSUME Inv, [Next]_vars PROVE Inv'
  OBVIOUS
<1>0. TypeOK /\ faults \in 0..MaxFaults
  BY DEF Inv, TypeOK
<1>1. CASE UNCHANGED vars
  BY <1>0, <1>1, CalmStep DEF vars, data, TypeOK
<1>2. CASE Restart
  <2>1. \A r \in Requests : at'[r] \in {at[r], "crashed"}
    BY <1>2 DEF Restart
  <2>2. at' \in [Requests -> Places] /\ faults' \in 0..MaxFaults
    BY <1>0, <1>2, BoundsAssumption DEF Restart, Fault, TypeOK, Places
  <2> QED
    BY <1>0, <1>2, <2>1, <2>2, CalmStep DEF Restart, TypeOK
<1>3. ASSUME NEW r \in Requests, Bump(r) \/ AnswerStored(r) \/ Fails(r) PROVE Inv'
  <2>1. /\ UNCHANGED <<data, doing, found>>
        /\ \/ at[r] = "changed" /\ at' = [at EXCEPT ![r] = "counted"] /\ UNCHANGED reply
           \/ /\ at' = [at EXCEPT ![r] = "answered"]
              /\ \E code \in {201, 500} : reply' = [reply EXCEPT ![r] = code]
    BY <1>3 DEF Bump, AnswerStored, Fails, Goto, Answer
  <2>2. faults' \in 0..MaxFaults
    BY <1>0, <1>3, BoundsAssumption DEF Bump, AnswerStored, Fails, Fault, NoFault
  <2> QED
    BY <1>0, <2>1, <2>2, CalmStep DEF TypeOK, Places
<1>4. ASSUME NEW r \in Requests, Step(r) PROVE Inv'
  BY <1>3, <1>4, LookStep, ChangeStep, CommitStep, CreateStep, StripStep, DeletePostStep
  DEF Step, Kinds
<1> QED
  BY <1>1, <1>2, <1>4 DEF Next, Terminated

\* The invariant holds in every reachable state.
THEOREM Invariance == Spec => []Inv
BY InitInv, NextInv, PTL DEF Spec

\* Every variable keeps its type; in particular no count falls below zero.
THEOREM TypeCorrect == Spec => []TypeOK
<1>1. Inv => TypeOK
  BY DEF Inv
<1> QED
  BY <1>1, Invariance, PTL

\* A count never exceeds the rows it counts and those a seed has counted.
THEOREM NeverExceeds == Spec => []CountNeverExceeds
<1>1. Inv => CountNeverExceeds
  BY DEF Inv, TypeOK, Bounded, CountNeverExceeds
<1> QED
  BY <1>1, Invariance, PTL

\* It falls short by one at most for every removal that missed a row which another
\* removal had found.
THEOREM DriftCaused == Spec => []DriftHasACause
<1>1. Inv => DriftHasACause
  <2> SUFFICES ASSUME Inv, NEW p \in posts \ stripped, NEW k \in Kinds
               PROVE  /\ Seeded[k][p] + Cardinality(rows[k][p]) <= count[k][p] + Cardinality(Misses(k, p))
                      /\ \A r \in Misses(k, p) : \E q \in landed \cap found :
                            KindOf(q) = k /\ PostOf[q] = p /\ KeyOf[q] = KeyOf[r]
    BY DEF DriftHasACause
  <2>1. Seeded[k][p] + Cardinality(rows[k][p]) <= count[k][p] + Cardinality(Misses(k, p))
    BY DEF Inv, TypeOK, Bounded
  <2>2. ASSUME NEW r \in Misses(k, p)
        PROVE  \E q \in landed \cap found : KindOf(q) = k /\ PostOf[q] = p /\ KeyOf[q] = KeyOf[r]
    <3>1. r \in Changes /\ KindOf(r) = k /\ PostOf[r] = p /\ Missing(r)
      BY DEF Inv, TypeOK, Misses, Missing
    <3> QED
      BY <3>1 DEF Inv, Caused, SameRow
  <2> QED
    BY <2>1, <2>2
<1> QED
  BY <1>1, Invariance, PTL

-------------------------------------------------------------------------------
(* What deletes and removals leave, on top of Inv.                         *)

\* Every row of kind k of post p was stored by a like or a comment among the requests.
Brought(k, p) ==
    \A key \in rows[k][p] :
        \E q \in landed : doing[q] = "insert" /\ KindOf(q) = k /\ PostOf[q] = p /\ KeyOf[q] = key

\* Of the rows a deleted post had from before, none is left: every row that stays behind
\* was stored by a like or a comment that came on top of them.
OnlyLateRowsAreLeft == \A p \in Posts \ posts, k \in Kinds : Brought(k, p)

\* The same for the kinds a delete is through with, while it is under way.
StripIsThorough ==
    \A d \in Deletes :
        /\ at[d] \in {"uncommented", "unliked"} => Brought("comments", PostOf[d])
        /\ at[d] = "unliked" => Brought("reactions", PostOf[d])

\* A comment that was stored, answered or not, is there until its author deletes it or its
\* post is deleted; no other request and no fault takes it away.
CommentStays ==
    \A a \in Adds : a \in landed \/ reply[a] = 201 =>
        \/ a \in landed /\ RowOf(a)
        \/ PostOf[a] \in stripped
        \/ \E d \in Removals \cap ByAuthor \cap landed \cap found :
              PostOf[d] = PostOf[a] /\ KeyOf[d] = KeyOf[a]

\* An add removes nothing, and is answered after its commit.
AddsCommitFirst ==
    \A a \in Adds : /\ doing[a] # "remove"
                    /\ at[a] = "stored" => a \in landed
                    /\ reply[a] = 201 => a \in landed

\* A removal that has something to do was sent by the author.
AuthorsOnly == \A d \in Removals : doing[d] # "nothing" => d \in ByAuthor

After ==
    OnlyLateRowsAreLeft /\ StripIsThorough /\ CommentStays /\ AddsCommitFirst /\ AuthorsOnly

\* Lemma: a step that stores and removes no row and begins no delete keeps all of it.
LEMMA IdleStep ==
    ASSUME Inv, After, UNCHANGED <<rows, landed, stripped>>, found \subseteq found',
           posts \subseteq posts',
           \A q \in landed : doing'[q] = doing[q],
           \A r \in Requests :
               \/ at'[r] = at[r] \/ at'[r] \in {"looked", "changed", "counted", "answered", "crashed"}
               \/ r \in Creates,
           \A a \in Adds : doing'[a] # "remove",
           \A d \in Removals : doing'[d] # "nothing" => d \in ByAuthor,
           \A a \in Adds : reply'[a] = 201 => reply[a] = 201 \/ at[a] = "stored"
    PROVE  After'
<1>1. \A k, p : Brought(k, p) => Brought(k, p)'
  BY DEF Brought
<1>2. OnlyLateRowsAreLeft'
  BY <1>1 DEF After, OnlyLateRowsAreLeft
<1>3. StripIsThorough'
  BY <1>1, RequestFacts DEF After, StripIsThorough
<1>4. AddsCommitFirst'
  BY RequestFacts DEF After, AddsCommitFirst, Changes
<1>5. CommentStays'
  BY <1>4 DEF After, AddsCommitFirst, CommentStays, RowOf
<1> QED
  BY <1>2, <1>3, <1>4, <1>5 DEF After, AuthorsOnly

\* Lemma: a commit stores its own row, or removes one that an open removal has found.
LEMMA CommitAfter ==
    ASSUME Inv, After, NEW r \in Requests, Commit(r) PROVE After'
<1>1. /\ TypeOK /\ Doers /\ Knows /\ at[r] = "counted" /\ r \in Changes
      /\ doing[r] \in {"insert", "remove"} /\ r \notin landed
  BY DEF Inv, Commit, Doers, Open, TypeOK
<1>2. KindOf(r) \in Kinds /\ PostOf[r] \in Posts /\ KeyOf[r] \in Keys
  BY <1>1, RequestFacts
<1>3. /\ rows' = [rows EXCEPT ![KindOf(r)][PostOf[r]] =
                    IF doing[r] = "insert" THEN @ \cup {KeyOf[r]} ELSE @ \ {KeyOf[r]}]
      /\ landed' = landed \cup {r}
      /\ UNCHANGED <<posts, stripped, doing, found>>
      /\ \/ r \in Adds /\ at' = [at EXCEPT ![r] = "stored"] /\ UNCHANGED reply
         \/ /\ at' = [at EXCEPT ![r] = "answered"]
            /\ \E code \in {200, 500} : reply' = [reply EXCEPT ![r] = code]
  BY DEF Commit, Committed, Goto, Answer
<1>4. ASSUME NEW k \in Kinds, NEW p \in Posts, Brought(k, p) PROVE Brought(k, p)'
  <2> SUFFICES ASSUME NEW key \in rows'[k][p]
               PROVE  \E q \in landed' : /\ doing'[q] = "insert" /\ KindOf(q) = k
                                         /\ PostOf[q] = p /\ KeyOf[q] = key
    BY DEF Brought
  <2>1. key \in rows[k][p] \/ (/\ doing[r] = "insert" /\ KindOf(r) = k
                               /\ PostOf[r] = p /\ KeyOf[r] = key)
    BY <1>1, <1>2, <1>3 DEF TypeOK
  <2> QED
    BY <1>3, <1>4, <2>1 DEF Brought
<1>5. OnlyLateRowsAreLeft'
  BY <1>3, <1>4 DEF After, OnlyLateRowsAreLeft
<1>6. StripIsThorough'
  BY <1>1, <1>3, <1>4, RequestFacts DEF After, StripIsThorough, TypeOK, Kinds
<1>7. AddsCommitFirst'
  <2>1. ASSUME NEW a \in Adds, a # r PROVE at'[a] = at[a] /\ reply'[a] = reply[a]
    BY <1>1, <1>3, <2>1 DEF TypeOK, Requests, Changes
  <2> QED
    BY <1>3, <2>1 DEF After, AddsCommitFirst
<1>8. CommentStays'
  <2> SUFFICES ASSUME NEW a \in Adds, a \in landed', PostOf[a] \notin stripped
               PROVE  \/ RowOf(a)'
                      \/ \E d \in Removals \cap ByAuthor \cap landed' \cap found :
                            PostOf[d] = PostOf[a] /\ KeyOf[d] = KeyOf[a]
    BY <1>3, <1>7 DEF CommentStays, AddsCommitFirst
  <2>1. a \in Changes /\ a \notin Toggles /\ KindOf(a) = "comments" /\ "comments" \in Kinds
    BY RequestsAssumption DEF Changes, KindOf, Kinds
  <2>2. PostOf[a] \in Posts /\ KeyOf[a] \in Keys
    BY <2>1, RequestFacts
  <2>3. CASE RowOf(a) /\ ~RowOf(a)'
    <3>1. doing[r] = "remove" /\ KindOf(r) = "comments" /\ PostOf[r] = PostOf[a] /\ KeyOf[r] = KeyOf[a]
      BY <1>1, <1>2, <1>3, <2>1, <2>2, <2>3 DEF RowOf, TypeOK
    <3>2. RowOf(r)
      BY <2>1, <2>3, <3>1 DEF RowOf
    <3>3. r \in found
      BY <1>1, <3>2 DEF Knows, Open
    <3>4. r \notin Toggles /\ r \notin Adds
      <4>1. r \notin Toggles
        BY <3>1 DEF KindOf
      <4> QED
        BY <1>1, <1>3, <3>1, <4>1 DEF After, AddsCommitFirst
    <3> QED
      BY <1>1, <1>3, <3>1, <3>3, <3>4 DEF Changes, After, AuthorsOnly
  <2>4. CASE a = r
    <3>1. doing[r] = "insert"
      BY <1>1, <2>4 DEF After, AddsCommitFirst
    <3> QED
      BY <1>1, <1>2, <1>3, <2>1, <2>4, <3>1 DEF RowOf, TypeOK
  <2>5. CASE a # r /\ ~(RowOf(a) /\ ~RowOf(a)')
    <3>1. a \in landed
      BY <1>3, <2>5
    <3> QED
      BY <1>3, <2>5, <3>1 DEF After, CommentStays
  <2> QED
    BY <2>3, <2>4, <2>5
<1> QED
  BY <1>3, <1>5, <1>6, <1>7, <1>8 DEF After, AuthorsOnly

\* Lemma: a delete empties one kind of rows of its post.
LEMMA StripAfter ==
    ASSUME Inv, After, NEW r \in Requests, NEW k \in Kinds, NEW from, NEW to,
           Strip(r, k, from, to),
           \/ k = "comments" /\ to = "uncommented"
           \/ k = "reactions" /\ from = "uncommented" /\ to = "unliked"
    PROVE  After'
<1>1. /\ TypeOK /\ r \in Deletes /\ at[r] = from /\ PostOf[r] \in Posts
      /\ rows' = [rows EXCEPT ![k][PostOf[r]] = {}]
      /\ stripped' = stripped \cup {PostOf[r]}
      /\ at' = [at EXCEPT ![r] = to]
      /\ UNCHANGED <<posts, landed, doing, found, reply>>
  BY RequestFacts DEF Inv, Strip, Goto
<1>2. \A j \in Kinds, p \in Posts : Brought(j, p) => Brought(j, p)'
  BY <1>1 DEF Brought, TypeOK
<1>3. Brought(k, PostOf[r])'
  BY <1>1 DEF Brought, TypeOK
<1>4. OnlyLateRowsAreLeft'
  BY <1>1, <1>2 DEF After, OnlyLateRowsAreLeft
<1>5. StripIsThorough'
  <2>1. \A d \in Deletes \ {r} : at'[d] = at[d] /\ PostOf[d] \in Posts
    BY <1>1, RequestFacts DEF TypeOK
  <2>2. at'[r] = to
    BY <1>1 DEF TypeOK
  <2> QED
    BY <1>1, <1>2, <1>3, <2>1, <2>2 DEF After, StripIsThorough, Kinds
<1>6. AddsCommitFirst'
  BY <1>1, RequestFacts DEF After, AddsCommitFirst, Changes
<1>7. CommentStays'
  <2>1. \A a \in Adds : PostOf[a] # PostOf[r] => (RowOf(a)' <=> RowOf(a))
    BY <1>1, RequestFacts DEF RowOf, TypeOK, Changes
  <2> QED
    BY <1>1, <2>1 DEF After, CommentStays
<1> QED
  BY <1>1, <1>4, <1>5, <1>6, <1>7 DEF After, AuthorsOnly

\* Lemma: every step keeps all of it.
LEMMA AfterKept ==
    ASSUME Inv, After, [Next]_vars PROVE After'
<1> USE DEF data, Goto, Answer
<1>1. TypeOK /\ Doers /\ AddsCommitFirst /\ AuthorsOnly
  BY DEF Inv, After
<1>2. CASE Restart
  <2>1. \A q \in Requests : at'[q] \in {at[q], "crashed"}
    BY <1>2 DEF Restart
  <2> QED
    BY <1>1, <1>2, <2>1, IdleStep DEF Restart, AddsCommitFirst, AuthorsOnly
<1>3. CASE UNCHANGED vars
  BY <1>1, <1>3, IdleStep DEF vars, AddsCommitFirst, AuthorsOnly
<1>4. ASSUME NEW r \in Requests, Look(r) PROVE After'
  <2>1. /\ at[r] = "new" /\ UNCHANGED <<posts, rows, landed, stripped, found>>
        /\ \E place \in {"looked", "answered"} : at' = [at EXCEPT ![r] = place]
        /\ \A a \in Requests : reply'[a] = reply[a] \/ reply'[a] \in {403, 404}
    BY <1>1, <1>4 DEF Look, Refused, Accepted, TypeOK
  <2>2. r \notin landed
    BY <1>1, <2>1 DEF Doers
  <2>3. /\ \A q \in Requests \ {r} : doing'[q] = doing[q]
        /\ r \in Adds => doing'[r] # "remove"
        /\ r \in Removals /\ doing'[r] # "nothing" => r \in ByAuthor
    BY <1>1, <1>4, RequestsAssumption
    DEF Look, Refused, Accepted, TypeOK, AddsCommitFirst, AuthorsOnly
  <2>4. Adds \cup Removals \subseteq Requests /\ landed \subseteq Requests
    BY <1>1 DEF TypeOK, Requests, Changes
  <2>5. \A q \in Requests : at'[q] = at[q] \/ at'[q] \in {"looked", "answered"}
    BY <1>1, <2>1 DEF TypeOK
  <2> QED
    BY <1>1, <2>1, <2>2, <2>3, <2>4, <2>5, IdleStep DEF AddsCommitFirst, AuthorsOnly
<1>5. ASSUME NEW r \in Requests,
             Insert(r) \/ Remove(r) \/ Bump(r) \/ AnswerStored(r) \/ Create(r) \/ Fails(r)
      PROVE  After'
  <2>1. /\ UNCHANGED <<rows, landed, stripped, doing>> /\ found \subseteq found'
        /\ posts \subseteq posts'
        /\ \/ r \in Creates /\ at' = [at EXCEPT ![r] = "stored"]
           \/ \E place \in {"changed", "counted", "answered"} : at' = [at EXCEPT ![r] = place]
    BY <1>5 DEF Insert, Remove, Bump, AnswerStored, Create, Fails
  <2>2. \/ UNCHANGED reply
        \/ reply' = [reply EXCEPT ![r] = 500]
        \/ at[r] = "stored" /\ reply' = [reply EXCEPT ![r] = 201]
    BY <1>5 DEF Insert, Remove, Bump, AnswerStored, Create, Fails
  <2>3. Adds \subseteq Requests
    BY DEF Requests, Changes
  <2>4. \A q \in Requests : \/ at'[q] = at[q] \/ at'[q] \in {"changed", "counted", "answered"}
                            \/ q \in Creates
    BY <1>1, <2>1 DEF TypeOK
  <2>5. \A a \in Adds : reply'[a] = 201 => reply[a] = 201 \/ at[a] = "stored"
    BY <1>1, <2>2, <2>3 DEF TypeOK
  <2> QED
    BY <1>1, <2>1, <2>4, <2>5, IdleStep DEF AddsCommitFirst, AuthorsOnly
<1>6. ASSUME NEW r \in Requests, DeletePost(r) PROVE After'
  <2>1. /\ r \in Deletes /\ at[r] = "unliked" /\ posts' = posts \ {PostOf[r]}
        /\ at' = [at EXCEPT ![r] = "answered"] /\ reply' = [reply EXCEPT ![r] = 200]
        /\ UNCHANGED <<rows, landed, stripped, doing, found>>
    BY <1>6 DEF DeletePost
  <2>2. \A k, p : Brought(k, p) => Brought(k, p)'
    BY <2>1 DEF Brought
  <2>3. Brought("comments", PostOf[r]) /\ Brought("reactions", PostOf[r])
    BY <2>1 DEF After, StripIsThorough
  <2>4. OnlyLateRowsAreLeft'
    BY <2>1, <2>2, <2>3 DEF After, OnlyLateRowsAreLeft, Kinds
  <2>5. StripIsThorough'
    BY <1>1, <2>1, <2>2, RequestFacts DEF After, StripIsThorough, TypeOK
  <2>6. AddsCommitFirst' /\ CommentStays' /\ AuthorsOnly'
    <3>1. \A a \in Adds : reply'[a] = reply[a] /\ at'[a] = at[a]
      BY <1>1, <2>1, RequestFacts DEF TypeOK, Changes
    <3> QED
      BY <2>1, <3>1 DEF After, AddsCommitFirst, CommentStays, RowOf, AuthorsOnly
  <2> QED
    BY <2>4, <2>5, <2>6 DEF After
<1> QED
  BY <1>2, <1>3, <1>4, <1>5, <1>6, CommitAfter, StripAfter DEF Next, Step, Terminated, Kinds

\* All of it holds in every reachable state.
THEOREM AfterInvariance == Spec => []After
<1>1. Init => After
  <2> SUFFICES ASSUME Init PROVE After
    OBVIOUS
  <2>1. \A k \in Kinds, p \in Posts \ posts : rows[k][p] = {}
    BY DEF Init
  <2>2. OnlyLateRowsAreLeft
    BY <2>1 DEF OnlyLateRowsAreLeft, Brought
  <2>3. StripIsThorough /\ AddsCommitFirst /\ CommentStays /\ AuthorsOnly
    BY RequestFacts
    DEF Init, StripIsThorough, AddsCommitFirst, CommentStays, AuthorsOnly, Requests, Changes
  <2> QED
    BY <2>2, <2>3 DEF After
<1> QED
  BY <1>1, AfterKept, Invariance, PTL DEF Spec

\* The three statements of a delete leave no row that was there before the requests; what
\* stays behind of a deleted post was stored by a like or a comment that raced with them.
THEOREM LateRowsOnly == Spec => []OnlyLateRowsAreLeft
BY AfterInvariance, PTL DEF After

\* A comment that was stored stays until its author deletes it or its post is deleted,
\* whatever other requests race with it, fail or are cut off.
THEOREM CommentIsKept == Spec => []CommentStays
BY AfterInvariance, PTL DEF After
===============================================================================
