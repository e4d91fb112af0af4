--------------------------------- MODULE Posts ---------------------------------
(***************************************************************************)
(* The Posts service (posts/src/routes/posts.js): a post keeps a count of  *)
(* its likes and one of its comments beside the rows themselves.           *)
(*                                                                         *)
(* Likes and comments are treated alike: rows of a kind, with the member   *)
(* or the comment id as key.  Each statement is a step.  What InnoDB does  *)
(* (REPEATABLE READ) is modelled by what can be seen of it: the SELECTs of *)
(* a transaction read one snapshot of what is committed; a statement that  *)
(* changes a row waits until no open transaction has changed it, sees the  *)
(* committed value and keeps the row locked; a transaction takes effect    *)
(* with its COMMIT, and one that ends otherwise leaves nothing.            *)
(***************************************************************************)
EXTENDS Naturals, FiniteSets

CONSTANTS
    Posts,
    Keys,       \* members who like, ids of comments
    Creates,    \* /posts/create requests
    Toggles,    \* /posts/toggle-like requests
    Adds,       \* /posts/add-comment requests
    Removals,   \* /posts/delete-comment requests
    Deletes,    \* /posts/delete requests
    PostOf,     \* PostOf[r]: the post r names (of a create: the id it draws)
    KeyOf,      \* KeyOf[r]: the member of a toggle, the comment of an add or a removal
    ByAuthor,   \* removals and deletes sent by the author of what they remove
    Seeded,     \* Seeded[k][p]: likes or comments that a seed has counted without a row
    MaxSent,    \* bound on the requests that begin
    MaxFaults   \* bound on failing statements, lost answers and restarts

Changes  == Toggles \cup Adds \cup Removals
Requests == Changes \cup Creates \cup Deletes
Kinds    == {"reactions", "comments"}

KindOf(r) == IF r \in Toggles THEN "reactions" ELSE "comments"

ASSUME RequestsAssumption ==
    /\ Toggles \cap (Adds \cup Removals \cup Creates \cup Deletes) = {}
    /\ Adds \cap (Removals \cup Creates \cup Deletes) = {}
    /\ Removals \cap (Creates \cup Deletes) = {} /\ Creates \cap Deletes = {}
    /\ PostOf \in [Requests -> Posts] /\ KeyOf \in [Changes -> Keys]
\* Posts and comments draw fresh ids.
ASSUME FreshIds ==
    /\ \A c, d \in Creates : PostOf[c] = PostOf[d] => c = d
    /\ \A a, b \in Adds : KeyOf[a] = KeyOf[b] => a = b
ASSUME SeededAssumption ==
    /\ Seeded \in [Kinds -> [Posts -> Nat]]
    /\ \A k \in Kinds, c \in Creates : Seeded[k][PostOf[c]] = 0
ASSUME BoundsAssumption == IsFiniteSet(Requests) /\ MaxSent \in Nat /\ MaxFaults \in Nat

VARIABLES
    posts,      \* posts that have a row
    rows,       \* rows[k][p]: keys of the committed rows of kind k of post p
    count,      \* count[k][p]: the column reactions_count or comments_count of p
    at,         \* at[r]: where request r is
    doing,      \* doing[r]: what r found it has to do
    found,      \* requests whose DELETE found its row
    reply,      \* reply[r]: HTTP status answered, 0 while there is none
    landed,     \* requests whose transaction has been committed (history)
    stripped,   \* posts whose rows a delete has begun to remove (history)
    faults

vars == <<posts, rows, count, at, doing, found, reply, landed, stripped, faults>>
data == <<posts, rows, count, landed, stripped>>

Places == {"new", "looked", "changed", "counted", "stored", "uncommented", "unliked",
           "answered", "crashed"}

TypeOK ==
    /\ posts \in SUBSET Posts
    /\ rows \in [Kinds -> [Posts -> SUBSET Keys]]
    /\ count \in [Kinds -> [Posts -> Nat]]
    /\ at \in [Requests -> Places]
    /\ doing \in [Requests -> {"nothing", "insert", "remove"}]
    /\ found \in SUBSET Changes
    /\ reply \in [Requests -> {0, 200, 201, 403, 404, 500}]
    /\ landed \in SUBSET Changes
    /\ stripped \in SUBSET Posts
    /\ faults \in 0..MaxFaults

Drawn == {PostOf[c] : c \in Creates}

\* A comment that an add will draw is not there yet.  The posts of the demo seeds come with
\* counts above the rows they have; a post that the service has created does not.
Init ==
    /\ posts = Posts \ Drawn
    /\ \E likes \in SUBSET {KeyOf[t] : t \in Toggles},
          comments \in SUBSET ({KeyOf[d] : d \in Removals} \ {KeyOf[a] : a \in Adds}) :
          rows = [k \in Kinds |-> [p \in Posts |->
                    IF p \in Drawn THEN {} ELSE IF k = "reactions" THEN likes ELSE comments]]
    /\ count = [k \in Kinds |-> [p \in Posts |-> Seeded[k][p] + Cardinality(rows[k][p])]]
    /\ at = [r \in Requests |-> "new"]
    /\ doing = [r \in Requests |-> "nothing"]
    /\ found = {}
    /\ reply = [r \in Requests |-> 0]
    /\ landed = {} /\ stripped = {}
    /\ faults = 0

Fault   == faults < MaxFaults /\ faults' = faults + 1
NoFault == UNCHANGED faults

Goto(r, place) == at' = [at EXCEPT ![r] = place] /\ UNCHANGED reply

Answer(r, code) ==
    /\ at' = [at EXCEPT ![r] = "answered"]
    /\ reply' = [reply EXCEPT ![r] = code]

\* The committed row that r is about is there.
RowOf(r) == KeyOf[r] \in rows[KindOf(r)][PostOf[r]]

\* Transactions that keep a row of kind k of post p locked, and the row of p itself.
HoldersOf(k, p) ==
    {q \in Changes : at[q] \in {"changed", "counted"} /\ KindOf(q) = k /\ PostOf[q] = p}
PostHolders(p) == {q \in Changes : at[q] = "counted" /\ PostOf[q] = p}

\* No other open transaction has changed the row r is about.
Unlocked(r) ==
    \A q \in HoldersOf(KindOf(r), PostOf[r]) : q = r \/ KeyOf[q] # KeyOf[r]

-------------------------------------------------------------------------------
(* The first SELECTs: what is refused, what is to be done.                 *)

Refused(r) ==
    /\ \/ r \in Toggles \cup Adds \cup Deletes /\ PostOf[r] \notin posts /\ Answer(r, 404)
       \/ r \in Removals /\ ~RowOf(r) /\ Answer(r, 404)
       \/ /\ IF r \in Removals THEN RowOf(r) ELSE r \in Deletes /\ PostOf[r] \in posts
          /\ r \notin ByAuthor /\ Answer(r, 403)
    /\ UNCHANGED doing

\* A comment is deleted without a look at its post.
Accepted(r) ==
    /\ IF r \in Removals THEN RowOf(r) ELSE PostOf[r] \in posts
    /\ r \in Removals \cup Deletes => r \in ByAuthor
    /\ doing' = [doing EXCEPT ![r] =
                   CASE r \in Deletes -> "nothing"
                     [] r \in Adds -> "insert"
                     [] OTHER -> IF RowOf(r) THEN "remove" ELSE "insert"]
    /\ Goto(r, "looked")

Look(r) ==
    /\ r \in Changes \cup Deletes /\ at[r] = "new"
    /\ Refused(r) \/ Accepted(r)
    /\ NoFault
    /\ UNCHANGED <<data, found>>

-------------------------------------------------------------------------------
(* toggle-like, add-comment, delete-comment.                               *)

\* Mutant: a like that is there already is no error, as with INSERT IGNORE.
InsertIgnore(r) ==
    /\ at[r] = "looked" /\ doing[r] = "insert" /\ Unlocked(r)
    /\ Goto(r, "changed")
    /\ NoFault
    /\ UNCHANGED <<data, doing, found>>

\* The primary key refuses a second like of a member: rollback, 500.
Insert(r) ==
    /\ at[r] = "looked" /\ doing[r] = "insert" /\ Unlocked(r)
    /\ IF RowOf(r) THEN Answer(r, 500) ELSE Goto(r, "changed")
    /\ NoFault
    /\ UNCHANGED <<data, doing, found>>

\* The DELETE may find that another transaction has been faster; the code does not look.
Remove(r) ==
    /\ at[r] = "looked" /\ doing[r] = "remove" /\ Unlocked(r)
    /\ found' = IF RowOf(r) THEN found \cup {r} ELSE found
    /\ Goto(r, "changed")
    /\ NoFault
    /\ UNCHANGED <<data, doing>>

\* The UPDATE of the counter: from here on the row of the post is locked.
Bump(r) ==
    /\ at[r] = "changed"
    /\ PostHolders(PostOf[r]) = {}
    /\ Goto(r, "counted")
    /\ NoFault
    /\ UNCHANGED <<data, doing, found>>

\* Mutant: the count is not kept from falling below zero.
Lowered(n) == n - 1

\* GREATEST(0, n - 1).
Less(n) == IF n = 0 THEN 0 ELSE n - 1

\* Mutant: only the removal of a row is counted.
CommittedUncounted(r) ==
    /\ rows' = [rows EXCEPT ![KindOf(r)][PostOf[r]] =
                  IF doing[r] = "insert" THEN @ \cup {KeyOf[r]} ELSE @ \ {KeyOf[r]}]
    /\ count' = [count EXCEPT ![KindOf(r)][PostOf[r]] =
                  IF doing[r] = "insert" THEN @ ELSE Less(@)]
    /\ landed' = landed \cup {r}
    /\ UNCHANGED <<posts, stripped>>

\* What COMMIT makes of the transaction; the counter of a post that is gone is gone.
Committed(r) ==
    LET k == KindOf(r)
        p == PostOf[r]
    IN  /\ rows' = [rows EXCEPT ![k][p] =
                      IF doing[r] = "insert" THEN @ \cup {KeyOf[r]} ELSE @ \ {KeyOf[r]}]
        /\ count' = [count EXCEPT ![k][p] =
                      IF p \notin posts THEN @
                      ELSE IF doing[r] = "insert" THEN @ + 1 ELSE Less(@)]
        /\ landed' = landed \cup {r}
        /\ UNCHANGED <<posts, stripped>>

\* The COMMIT; add-comment still reads what it answers, and the answer of COMMIT may be lost.
Commit(r) ==
    /\ at[r] = "counted"
    /\ Committed(r)
    /\ \/ NoFault /\ IF r \in Adds THEN Goto(r, "stored") ELSE Answer(r, 200)
       \/ Fault /\ Answer(r, 500)
    /\ UNCHANGED <<doing, found>>

-------------------------------------------------------------------------------
(* create and delete, statement by statement, without a transaction.       *)

Create(r) ==
    /\ r \in Creates /\ at[r] = "new"
    /\ posts' = posts \cup {PostOf[r]}
    /\ Goto(r, "stored")
    /\ NoFault
    /\ UNCHANGED <<rows, count, landed, stripped, doing, found>>

\* create and add-comment have read what they answer.
AnswerStored(r) ==
    /\ at[r] = "stored"
    /\ Answer(r, 201)
    /\ NoFault
    /\ UNCHANGED <<data, doing, found>>

\* DELETE FROM post_comments, then post_likes, of all keys.
Strip(r, k, from, to) ==
    LET p == PostOf[r] IN
    /\ r \in Deletes /\ at[r] = from
    /\ HoldersOf(k, p) = {}
    /\ rows' = [rows EXCEPT ![k][p] = {}]
    /\ stripped' = stripped \cup {p}
    /\ Goto(r, to)
    /\ NoFault
    /\ UNCHANGED <<posts, count, landed, doing, found>>

DeletePost(r) ==
    /\ r \in Deletes /\ at[r] = "unliked"
    /\ PostHolders(PostOf[r]) = {}
    /\ posts' = posts \ {PostOf[r]}
    /\ Answer(r, 200)
    /\ NoFault
    /\ UNCHANGED <<rows, count, landed, stripped, doing, found>>

-------------------------------------------------------------------------------
InFlight(r) == at[r] \notin {"new", "answered", "crashed"}

\* A statement raises (connection, deadlock, lock wait timeout): a transaction is rolled
\* back, what was done without one stays.
Fails(r) ==
    /\ InFlight(r)
    /\ Answer(r, 500)
    /\ Fault
    /\ UNCHANGED <<data, doing, found>>

\* The process dies, MySQL rolls back its open transactions.
Restart ==
    /\ at' = [r \in Requests |-> IF InFlight(r) THEN "crashed" ELSE at[r]]
    /\ Fault
    /\ UNCHANGED <<data, doing, found, reply>>

\* Any of the requests may be among the MaxSent that arrive.
Step(r) ==
    /\ at[r] = "new" => Cardinality({q \in Requests : at[q] # "new"}) < MaxSent
    /\ \/ Look(r) \/ Insert(r) \/ Remove(r) \/ Bump(r) \/ Commit(r)
       \/ Create(r) \/ AnswerStored(r)
       \/ Strip(r, "comments", "looked", "uncommented")
       \/ Strip(r, "reactions", "uncommented", "unliked")
       \/ DeletePost(r)
       \/ Fails(r)

\* Every request that began has ended.
Terminated == (\A r \in Requests : ~InFlight(r)) /\ UNCHANGED vars

Next == (\E r \in Requests : Step(r)) \/ Restart \/ Terminated

Spec == Init /\ [][Next]_vars

-------------------------------------------------------------------------------
(* Properties.                                                             *)

\* However requests of one post overlap, fail or are cut off, and although an unlike
\* counts whether or not it removed anything: a count never exceeds the rows it counts and
\* those a seed has counted, as long as no delete of the post has begun.
CountNeverExceeds ==
    \A p \in posts \ stripped, k \in Kinds :
        count[k][p] <= Seeded[k][p] + Cardinality(rows[k][p])

\* Removals of kind k from p that found nothing to remove and lowered the count.
Misses(k, p) ==
    {r \in landed \ found : doing[r] = "remove" /\ KindOf(r) = k /\ PostOf[r] = p}

\* A count falls short of its rows and the seeded ones by at most one for every such removal,
\* and each of them overlapped a removal of the same row that found it: one member unliking
\* twice at once, or one comment deleted twice at once.
DriftHasACause ==
    \A p \in posts \ stripped, k \in Kinds :
        /\ Seeded[k][p] + Cardinality(rows[k][p]) <= count[k][p] + Cardinality(Misses(k, p))
        /\ \A r \in Misses(k, p) : \E q \in landed \cap found :
              KindOf(q) = k /\ PostOf[q] = p /\ KeyOf[q] = KeyOf[r]
===============================================================================
