---------------------------- MODULE AccountsProofs ----------------------------
(***************************************************************************)
(* What an answered sign-up is worth, that members go with their details,  *)
(* and that an e-mail has one account, for every set of accounts, requests *)
(* and connections and every number of faults.  Inv says what a request at *)
(* each place keeps, which committed rows a pending write may replace,     *)
(* whose transaction is open on a connection that nobody keeps, what an    *)
(* open transaction has written of an account when it has written only one *)
(* of its rows, and what becomes of the rows of an e-mail.                 *)
(***************************************************************************)
EXTENDS Accounts, TLAPS

Emailed    == {"members"} \X Emails
Replaceable == Existing \cup {None}
Inside     == {"begun", "ready", "mirroring", "updated", "erased", "wrote"}

\* TypeOK: MySQL, and the requests.
StoreTypes ==
    /\ db \in Contents
    /\ open \in SUBSET Connections
    /\ DOMAIN pending = Connections
    /\ \A c \in Connections :
          /\ DOMAIN pending[c] \subseteq Rows
          /\ \A k \in DOMAIN pending[c] : pending[c][k] \in Ids \cup {None}
          /\ c \notin open => DOMAIN pending[c] = {} /\ snapshot[c] = None
    /\ DOMAIN snapshot = Connections
    /\ \A c \in Connections : snapshot[c] = None \/ snapshot[c] \in Contents

RequestTypes ==
    /\ on \in [Requests -> open \cup {None}]
    /\ \A r, q \in Requests : on[r] = on[q] /\ r # q => on[r] = None
    /\ at \in [Requests -> Places]
    /\ reply \in [Requests -> {0, 200, 201, 401, 404, 409, 500}]
    /\ account \in [Requests -> Ids \cup {None}]
    /\ carried \in SUBSET Requests
    /\ faults \in 0..MaxFaults

\* Which request can be where, and who keeps a connection.
Who ==
    \A r \in Requests :
        /\ at[r] \in {"begun", "wrote"} => r \in InTransaction
        /\ at[r] \in {"ready", "mirroring", "updated", "stored"} => r \in Updates
        /\ at[r] \in {"erased", "gone"} => r \in Deletes
        /\ at[r] \in {"unknown", "signup", "duplicate"} => r \in Lookups
        /\ at[r] = "half" => r \in Recruits
        /\ on[r] # None <=> at[r] \in Inside
        /\ reply[r] # 0 => at[r] = "answered"

\* A row is pending on one connection.
Exclusive ==
    \A c, d \in Connections : c # d => DOMAIN pending[c] \cap DOMAIN pending[d] = {}

\* A pending write replaces no account that has been created here.
Guarded ==
    \A c \in Connections : \A k \in Emailed \cap DOMAIN pending[c] : db[k] \in Replaceable

\* A sign-up about to commit has its row pending.
Owes ==
    \A r \in Signups : at[r] = "wrote" =>
        Member(r) \in DOMAIN pending[on[r]] /\ pending[on[r]][Member(r)] = r

\* A login that is not answered has no account of its own anywhere.
Absent(r) ==
    /\ \A k \in Rows : db[k] # r
    /\ \A c \in Connections : \A k \in DOMAIN pending[c] : pending[c][k] # r
    /\ \A c \in Connections : snapshot[c] # None => \A k \in Rows : snapshot[c][k] # r

Fresh == \A r \in Lookups : at[r] \notin {"answered", "crashed"} => Absent(r)

\* A transaction that nobody keeps was left open by a delete.
Left ==
    \A c \in open : Free(c) => \E d \in Deletes : reply[d] = 500

\* The two parts of AnsweredIsKept.
Kept     == \A r \in Requests : account[r] = r => db[Member(r)] = r \/ r \in carried
Blamable == carried # {} => \E d \in Deletes : reply[d] = 500

\* What the transaction on c has written into row k, and what row k is for it.
Pends(c, k, id) == k \in DOMAIN pending[c] /\ pending[c][k] = id
Holds(c, k, id) == IF k \in DOMAIN pending[c] THEN pending[c][k] = id ELSE db[k] = id

\* What the transaction on c may have written of account x, whose rows are m and d: it
\* takes the member away only after the details, replaces details only of a member, brings a
\* member back only in an update that brings its details as well or is to bring none, and
\* takes the details away in a delete or in an update that is to bring none, or that has
\* found the member gone.
Bares(u, c, x, m, d) ==
    /\ TargetOf[u] = x /\ on[u] = c /\ at[u] = "wrote"
    /\ ListsOf[u] # "replaced" \/ (db[d] # x /\ ~Pends(c, m, x))

PendingOf(c, x, m, d) ==
    /\ m \in DOMAIN pending[c] /\ ~Pends(c, m, x) /\ db[m] = x => Pends(c, d, None)
    /\ d \in DOMAIN pending[c] => Pends(c, d, None) \/ (Pends(c, d, x) /\ Holds(c, m, x))
    /\ Pends(c, m, x) /\ db[m] # x =>
          \E u \in Updates : /\ TargetOf[u] = x /\ on[u] = c
                             /\ at[u] = "wrote" => Pends(c, d, x) \/ ListsOf[u] # "replaced"
    /\ Pends(c, d, None) =>
          \/ \E e \in Deletes : TargetOf[e] = x /\ (on[e] = c \/ reply[e] = 500)
          \/ \E u \in Updates : Bares(u, c, x, m, d)

\* A delete under way has written what its place says.
ErasesBoth(e, m, d) ==
    /\ at[e] \in {"erased", "wrote"} => Pends(on[e], d, None)
    /\ at[e] = "wrote" => m \in DOMAIN pending[on[e]] /\ ~Pends(on[e], m, TargetOf[e])

\* The two parts of DeletedTogether.
TogetherOf(x, m, d) ==
    /\ db[d] = x => db[m] = x
    /\ db[m] = x /\ db[d] # x => MayBeBare(x)

Together ==
    /\ \A c \in Connections, x \in Existing : PendingOf(c, x, Member(x), Details(x))
    /\ \A e \in Deletes : ErasesBoth(e, Member(e), Details(TargetOf[e]))
    /\ \A x \in Existing : TogetherOf(x, Member(x), Details(x))

\* The rows of an e-mail, and what makes its answers differ.
Mem(e) == <<"members", e>>
Rec(e) == <<"recruiters", e>>
Excused(e) == MayBeGone(e) \/ carried # {}

\* Without an excuse the rows of an e-mail, once written, stay: a pending one is that of a
\* request for this e-mail and, but for a delete, new or the same; an older snapshot misses
\* them at most; and they hold all accounts that were answered.
NamedOf(e, m, k) ==
    /\ \A c \in Connections :
          /\ k \notin DOMAIN pending[c]
          /\ m \in DOMAIN pending[c] =>
                \E q \in InTransaction :
                    /\ on[q] = c /\ EmailOf[q] = e
                    /\ q \in Deletes \/ db[m] = None \/ pending[c][m] = db[m]
          /\ snapshot[c] # None => snapshot[c][m] \in {None, db[m]} /\ snapshot[c][k] \in {None, db[k]}
    /\ \A q \in Requests : EmailOf[q] = e /\ account[q] # None => account[q] \in {db[m], db[k]}

Named == \A e \in Emails : Excused(e) \/ NamedOf(e, Mem(e), Rec(e))

Store == StoreTypes /\ Exclusive /\ Guarded
Inv   == /\ Store /\ RequestTypes /\ Who /\ Owes /\ Fresh /\ Left /\ Kept /\ Blamable
         /\ Together /\ Named

-------------------------------------------------------------------------------
\* Lemma: the parts of TypeOK, now and in the next state.
LEMMA TypeParts ==
    /\ TypeOK <=> StoreTypes /\ RequestTypes
    /\ TypeOK' <=> StoreTypes' /\ RequestTypes'
BY DEF TypeOK, StoreTypes, RequestTypes

\* Lemma: the kinds of requests exclude each other.
LEMMA RequestFacts ==
    /\ Requests \subseteq Ids /\ Existing \subseteq Ids /\ Existing \cap Requests = {}
    /\ None \notin Ids /\ None \notin Connections
    /\ \A r \in Signups : r \in InTransaction /\ r \notin Updates \cup Deletes \cup Recruits \cup Lookups
    /\ \A r \in Updates : r \in InTransaction /\ r \notin Deletes \cup Recruits \cup Lookups
    /\ \A r \in Deletes : r \in InTransaction /\ r \notin Recruits \cup Lookups
    /\ \A r \in Recruits : r \in Requests /\ r \notin InTransaction \cup Lookups
    /\ \A r \in Lookups : r \in Requests /\ r \notin InTransaction
    /\ Googles \subseteq Lookups /\ InTransaction \subseteq Requests
    /\ \A r \in Updates \cup Deletes : TargetOf[r] \in Existing /\ EmailOf[r] = EmailOf[TargetOf[r]]
BY RequestsAssumption DEF Ids, Requests, InTransaction, Lookups

\* Lemma: members' rows are told apart from recruiters' and details.
LEMMA RowFacts ==
    /\ Emailed \subseteq Rows
    /\ \A x \in Ids : /\ Member(x) \in Emailed /\ Member(x) \in Rows
                      /\ Recruiter(x) \in Rows /\ Recruiter(x) \notin Emailed
                      /\ Details(x) \in Rows /\ Details(x) \notin Emailed
    /\ \A x, y \in Ids : /\ Details(x) = Details(y) => x = y
                         /\ Details(x) # Recruiter(y)
                         /\ EmailOf[x] = EmailOf[y] => Member(x) = Member(y)
BY RequestsAssumption DEF Emailed, Rows, Member, Recruiter, Details

\* Lemma: the rows of an e-mail.
LEMMA EmailFacts ==
    /\ \A e \in Emails : Mem(e) \in Rows /\ Rec(e) \in Rows /\ Mem(e) # Rec(e)
    /\ \A x \in Ids : /\ EmailOf[x] \in Emails
                      /\ Member(x) = Mem(EmailOf[x]) /\ Recruiter(x) = Rec(EmailOf[x])
    /\ \A x \in Ids, e \in Emails :
          /\ Member(x) = Mem(e) <=> EmailOf[x] = e
          /\ Recruiter(x) = Rec(e) <=> EmailOf[x] = e
          /\ Details(x) # Mem(e) /\ Details(x) # Rec(e)
          /\ Member(x) # Rec(e) /\ Recruiter(x) # Mem(e)
BY RequestsAssumption DEF Mem, Rec, Member, Recruiter, Details, Rows

\* Lemma: a table with pending writes over it.
LEMMA OverFacts ==
    ASSUME NEW base \in Contents, NEW writes, DOMAIN writes \subseteq Rows,
           \A k \in DOMAIN writes : writes[k] \in Ids \cup {None}
    PROVE  /\ Over(base, writes) \in Contents
           /\ \A k \in DOMAIN writes : Over(base, writes)[k] = writes[k]
           /\ \A k \in Rows \ DOMAIN writes : Over(base, writes)[k] = base[k]
BY DEF Over, Contents

\* Lemma: what a statement on a connection finds.
LEMMA CurrentFacts ==
    ASSUME StoreTypes, NEW c \in Connections
    PROVE  /\ Current(c) \in Contents /\ View(c) \in Contents
           /\ \A k \in Rows : k \in DOMAIN pending[c] => Current(c)[k] = pending[c][k]
           /\ \A k \in Rows : k \notin DOMAIN pending[c] => Current(c)[k] = db[k]
           /\ \A r : Absent(r) => \A k \in Rows : View(c)[k] # r
<1>1. /\ db \in Contents /\ (snapshot[c] = None \/ snapshot[c] \in Contents)
      /\ DOMAIN pending[c] \subseteq Rows
      /\ \A k \in DOMAIN pending[c] : pending[c][k] \in Ids \cup {None}
  BY DEF StoreTypes
<1>2. /\ Current(c) \in Contents
      /\ \A k \in Rows : k \in DOMAIN pending[c] => Current(c)[k] = pending[c][k]
      /\ \A k \in Rows : k \notin DOMAIN pending[c] => Current(c)[k] = db[k]
  BY <1>1, OverFacts DEF Current
<1>3. PICK base \in Contents : /\ View(c) = Over(base, pending[c])
                               /\ base = IF snapshot[c] = None THEN db ELSE snapshot[c]
  BY <1>1 DEF View
<1>4. ASSUME NEW r, Absent(r), NEW k \in Rows
      PROVE  View(c)[k] # r
  <2>1. base[k] # r
    BY <1>3, <1>4 DEF Absent
  <2>2. k \in DOMAIN pending[c] => pending[c][k] # r
    BY <1>4 DEF Absent
  <2> QED
    BY <1>1, <1>3, <2>1, <2>2, OverFacts
<1> QED
  BY <1>1, <1>2, <1>3, <1>4, OverFacts

\* What every step does to MySQL: it replaces no account that has been created here, and
\* it brings nobody's account but that of request r.
Settled  == \A k \in Emailed : db[k] \notin Replaceable => db'[k] = db[k]
Brings(r) == \A q \in Lookups : q # r /\ Absent(q) => Absent(q)'

\* Lemma: a statement that writes a row.
LEMMA WritesStore ==
    ASSUME Store, NEW c \in Connections, NEW k \in Rows, NEW id \in Ids \cup {None},
           ~Locked(c, k), Writes(c, k, id), k \in Emailed => Current(c)[k] \in Replaceable
    PROVE  /\ Store' /\ Settled /\ Brings(id) /\ UNCHANGED <<open, snapshot>>
           /\ \A d \in Connections \ {c} : pending'[d] = pending[d]
           /\ c \in open => /\ UNCHANGED db
                            /\ DOMAIN pending'[c] = DOMAIN pending[c] \cup {k}
                            /\ pending'[c][k] = id
                            /\ \A j \in DOMAIN pending[c] \ {k} : pending'[c][j] = pending[c][j]
           /\ c \notin open => /\ UNCHANGED pending /\ db'[k] = id
                               /\ \A j \in Rows \ {k} : db'[j] = db[j]
<1>1. StoreTypes /\ Exclusive /\ Guarded
  BY DEF Store
<1>2. \A d \in Connections \ {c} : k \notin DOMAIN pending[d]
  BY DEF Locked
<1>3. UNCHANGED <<open, snapshot>>
  BY DEF Writes
<1>4. CASE c \in open
  <2> DEFINE new == [j \in DOMAIN pending[c] \cup {k} |-> IF j = k THEN id ELSE pending[c][j]]
  <2>1. UNCHANGED db /\ pending' = [pending EXCEPT ![c] = new]
    BY <1>4 DEF Writes
  <2>2. /\ DOMAIN new = DOMAIN pending[c] \cup {k} /\ new[k] = id
        /\ \A j \in DOMAIN pending[c] \ {k} : new[j] = pending[c][j]
    OBVIOUS
  <2>3. /\ DOMAIN pending' = Connections /\ pending'[c] = new
        /\ \A d \in Connections \ {c} : pending'[d] = pending[d]
    BY <1>1, <2>1 DEF StoreTypes
  <2> HIDE DEF new
  <2>4. StoreTypes'
    <3>1. ASSUME NEW d \in Connections
          PROVE  /\ DOMAIN pending'[d] \subseteq Rows
                 /\ \A j \in DOMAIN pending'[d] : pending'[d][j] \in Ids \cup {None}
                 /\ d \notin open' => DOMAIN pending'[d] = {} /\ snapshot'[d] = None
      BY <1>1, <1>3, <1>4, <2>2, <2>3 DEF StoreTypes
    <3> QED
      BY <1>1, <1>3, <2>1, <2>3, <3>1 DEF StoreTypes
  <2>5. Exclusive'
    BY <1>1, <1>2, <2>2, <2>3 DEF Exclusive
  <2>6. Guarded'
    <3>1. k \in Emailed /\ k \notin DOMAIN pending[c] => db[k] \in Replaceable
      BY <1>1, CurrentFacts
    <3> QED
      BY <1>1, <2>1, <2>2, <2>3, <3>1 DEF Guarded
  <2>7. Brings(id)
    <3>1. SUFFICES ASSUME NEW q \in Lookups, q # id, Absent(q)
                   PROVE  Absent(q)'
      BY DEF Brings
    <3>2. \A d \in Connections : \A j \in DOMAIN pending'[d] : pending'[d][j] # q
      BY <2>2, <2>3, <3>1 DEF Absent
    <3> QED
      BY <1>3, <2>1, <3>1, <3>2 DEF Absent
  <2> QED
    BY <1>3, <1>4, <2>1, <2>2, <2>3, <2>4, <2>5, <2>6, <2>7 DEF Store, Settled
<1>5. CASE c \notin open
  <2>1. db' = [db EXCEPT ![k] = id] /\ UNCHANGED pending
    BY <1>5 DEF Writes
  <2>2. /\ db' \in Contents /\ db'[k] = id
        /\ \A j \in Rows \ {k} : db'[j] = db[j]
    BY <1>1, <2>1 DEF StoreTypes, Contents
  <2>3. \A d \in Connections : k \notin DOMAIN pending[d]
    BY <1>1, <1>2, <1>5 DEF StoreTypes
  <2>4. StoreTypes' /\ Exclusive'
    BY <1>1, <1>3, <2>1, <2>2 DEF StoreTypes, Exclusive
  <2>5. Guarded'
    BY <1>1, <2>1, <2>2, <2>3, RowFacts DEF Guarded
  <2>6. Settled
    BY <1>1, <2>2, <2>3, CurrentFacts, RowFacts DEF Settled
  <2>7. Brings(id)
    BY <1>3, <2>1, <2>2 DEF Brings, Absent
  <2> QED
    BY <1>3, <1>5, <2>1, <2>2, <2>4, <2>5, <2>6, <2>7 DEF Store
<1> QED
  BY <1>4, <1>5

\* Lemma: a transaction ends, or one begins where one was left open.
LEMMA EndsStore ==
    ASSUME Store, NEW c \in Connections, NEW committed \in BOOLEAN,
           db' = IF committed THEN Current(c) ELSE db,
           open' = open \ {c} \/ open' = open \cup {c},
           pending' = [pending EXCEPT ![c] = <<>>],
           snapshot' = [snapshot EXCEPT ![c] = None]
    PROVE  /\ Store' /\ Settled /\ \A r : Brings(r)
           /\ \A d \in Connections \ {c} : pending'[d] = pending[d]
           /\ DOMAIN pending'[c] = {}
           /\ \A d \in Connections : snapshot'[d] \in {snapshot[d], None}
           /\ committed => \A k \in DOMAIN pending[c] : db'[k] = pending[c][k]
           /\ \A k \in Rows \ DOMAIN pending[c] : db'[k] = db[k]
<1>1. StoreTypes /\ Exclusive /\ Guarded
  BY DEF Store
<1>2. /\ DOMAIN pending' = Connections /\ DOMAIN pending'[c] = {}
      /\ \A d \in Connections \ {c} : pending'[d] = pending[d]
  BY <1>1 DEF StoreTypes
<1>3. /\ DOMAIN snapshot' = Connections /\ snapshot'[c] = None
      /\ \A d \in Connections \ {c} : snapshot'[d] = snapshot[d]
  BY <1>1 DEF StoreTypes
<1>4. /\ db' \in Contents
      /\ \A k \in Rows : db'[k] = db[k] \/ (k \in DOMAIN pending[c] /\ db'[k] = pending[c][k])
      /\ \A k \in Rows \ DOMAIN pending[c] : db'[k] = db[k]
      /\ committed => \A k \in DOMAIN pending[c] : db'[k] = pending[c][k]
  BY <1>1, CurrentFacts DEF StoreTypes
<1>5. StoreTypes'
  <2>1. ASSUME NEW d \in Connections
        PROVE  /\ DOMAIN pending'[d] \subseteq Rows
               /\ \A j \in DOMAIN pending'[d] : pending'[d][j] \in Ids \cup {None}
               /\ d \notin open' => DOMAIN pending'[d] = {} /\ snapshot'[d] = None
               /\ snapshot'[d] = None \/ snapshot'[d] \in Contents
    <3>1. CASE d = c
      BY <1>2, <1>3, <3>1
    <3>2. CASE d # c
      BY <1>1, <1>2, <1>3, <3>2 DEF StoreTypes
    <3> QED
      BY <3>1, <3>2
  <2>2. open' \in SUBSET Connections
    BY <1>1 DEF StoreTypes
  <2> QED
    BY <1>2, <1>3, <1>4, <2>1, <2>2 DEF StoreTypes
<1>6. Exclusive'
  BY <1>1, <1>2 DEF Exclusive
<1>7. Guarded'
  <2>1. SUFFICES ASSUME NEW d \in Connections, NEW k \in Emailed \cap DOMAIN pending'[d]
                 PROVE  db'[k] \in Replaceable
    BY DEF Guarded
  <2>2. d # c /\ k \in DOMAIN pending[d] /\ k \notin DOMAIN pending[c]
    BY <1>1, <1>2, <2>1 DEF Exclusive
  <2> QED
    BY <1>1, <1>4, <2>1, <2>2, RowFacts DEF Guarded
<1>8. Settled
  BY <1>1, <1>4, RowFacts DEF Settled, Guarded
<1>9. ASSUME NEW r PROVE Brings(r)
  <2>1. SUFFICES ASSUME NEW q \in Lookups, Absent(q)
                 PROVE  Absent(q)'
    BY DEF Brings
  <2>2. \A k \in Rows : db'[k] # q
    BY <1>4, <2>1 DEF Absent
  <2>3. \A d \in Connections : \A k \in DOMAIN pending'[d] : pending'[d][k] # q
    BY <1>2, <2>1 DEF Absent
  <2>4. \A d \in Connections : snapshot'[d] # None => \A k \in Rows : snapshot'[d][k] # q
    BY <1>3, <2>1 DEF Absent
  <2> QED
    BY <2>2, <2>3, <2>4 DEF Absent
<1> QED
  BY <1>2, <1>3, <1>4, <1>5, <1>6, <1>7, <1>8, <1>9 DEF Store

\* Lemma: a SELECT, or no statement at all.
LEMMA ReadsStore ==
    ASSUME Store, UNCHANGED mysql \/ \E c \in Connections : Selects(c)
    PROVE  /\ Store' /\ Settled /\ \A r : Brings(r)
           /\ UNCHANGED <<db, open, pending>>
           /\ \A d \in Connections : snapshot'[d] \in {snapshot[d], db}
<1>1. StoreTypes /\ Exclusive /\ Guarded
  BY DEF Store
<1>2. /\ UNCHANGED <<db, open, pending>>
      /\ \/ UNCHANGED snapshot
         \/ \E c \in Connections : c \in open /\ snapshot' = [snapshot EXCEPT ![c] = db]
  BY DEF mysql, Selects
<1>3. /\ DOMAIN snapshot' = Connections
      /\ \A d \in Connections : snapshot'[d] = snapshot[d] \/ (d \in open /\ snapshot'[d] = db)
  BY <1>1, <1>2 DEF StoreTypes
<1>4. StoreTypes'
  BY <1>1, <1>2, <1>3 DEF StoreTypes
<1>5. Exclusive' /\ Guarded' /\ Settled
  BY <1>1, <1>2 DEF Exclusive, Guarded, Settled
<1>6. \A r : Brings(r)
  BY <1>2, <1>3 DEF Brings, Absent
<1> QED
  BY <1>2, <1>3, <1>4, <1>5, <1>6 DEF Store

-------------------------------------------------------------------------------
Codes == {200, 201, 401, 404, 409, 500}

Past == {"stored", "answered", "crashed"}

\* Nobody but r moves, and an update that has committed or ended has done so for good.
Alone(r) ==
    /\ \A q \in Requests \ {r} :
          at'[q] = at[q] /\ reply'[q] = reply[q] /\ account'[q] = account[q] /\ on'[q] = on[q]
    /\ r \in Updates /\ at[r] \in Past => at'[r] \in Past

\* Lemma: where a request goes.
LEMMA MoveFacts ==
    ASSUME RequestTypes, NEW r \in Requests
    PROVE  /\ \A place \in Places : Goto(r, place) =>
                 /\ at' \in [Requests -> Places] /\ at'[r] = place
                 /\ UNCHANGED <<reply, account>>
                 /\ \A q \in Requests \ {r} : at'[q] = at[q]
           /\ \A code \in Codes, id \in Ids \cup {None} : Answer(r, code, id) =>
                 /\ at' \in [Requests -> Places] /\ at'[r] = "answered"
                 /\ reply' \in [Requests -> {0, 200, 201, 401, 404, 409, 500}]
                 /\ reply'[r] = code
                 /\ account' \in [Requests -> Ids \cup {None}] /\ account'[r] = id
                 /\ \A q \in Requests \ {r} :
                       at'[q] = at[q] /\ reply'[q] = reply[q] /\ account'[q] = account[q]
BY DEF RequestTypes, Goto, Answer, Places, Codes

\* Lemma: a request that keeps no connection, or goes on keeping its own.
LEMMA StayTypes ==
    ASSUME RequestTypes, Who, NEW r \in Requests, at[r] # "answered", UNCHANGED <<on, open>>,
           carried' \in SUBSET Requests, faults' \in 0..MaxFaults,
           \/ \E place \in Places :
                 /\ Goto(r, place)
                 /\ place \in Inside <=> at[r] \in Inside
                 /\ place = "wrote" => r \in InTransaction
                 /\ place \in {"ready", "mirroring", "updated"} => r \in Updates
                 /\ place = "erased" => r \in Deletes
                 /\ place \in {"unknown", "signup", "duplicate"} => r \in Lookups
                 /\ place = "half" => r \in Recruits
                 /\ place \notin {"new", "begun", "stored", "gone"}
           \/ at[r] \notin Inside /\ \E code \in Codes, id \in Ids \cup {None} : Answer(r, code, id)
    PROVE  RequestTypes' /\ Who' /\ Alone(r)
<1>1. /\ at' \in [Requests -> Places]
      /\ reply' \in [Requests -> {0, 200, 201, 401, 404, 409, 500}]
      /\ account' \in [Requests -> Ids \cup {None}]
      /\ \A q \in Requests \ {r} :
            at'[q] = at[q] /\ reply'[q] = reply[q] /\ account'[q] = account[q]
  BY MoveFacts DEF RequestTypes
<1>2. RequestTypes' /\ Alone(r)
  <2>1. /\ on' \in [Requests -> open' \cup {None}]
        /\ \A p, q \in Requests : on'[p] = on'[q] /\ p # q => on'[p] = None
    BY DEF RequestTypes
  <2>2. r \in Updates /\ at[r] \in Past => at'[r] \in Past
    BY MoveFacts, RequestFacts DEF Past, Inside, Places
  <2> QED
    BY <1>1, <2>1, <2>2 DEF RequestTypes, Alone
<1>3. /\ at'[r] \in {"begun", "wrote"} => r \in InTransaction
      /\ at'[r] \in {"ready", "mirroring", "updated", "stored"} => r \in Updates
      /\ at'[r] \in {"erased", "gone"} => r \in Deletes
      /\ at'[r] \in {"unknown", "signup", "duplicate"} => r \in Lookups
      /\ at'[r] = "half" => r \in Recruits
      /\ on'[r] # None <=> at'[r] \in Inside
      /\ reply'[r] # 0 => at'[r] = "answered"
  BY MoveFacts DEF Who, Inside
<1> QED
  BY <1>1, <1>2, <1>3 DEF Who

\* Lemma: a request that gives its connection back.
LEMMA ReleaseTypes ==
    ASSUME RequestTypes, Who, NEW r \in Requests, at[r] \in Inside, Releases(r),
           open' = open \/ open' = open \ {on[r]},
           UNCHANGED carried, faults' \in 0..MaxFaults,
           \/ r \in Updates /\ Goto(r, "stored")
           \/ r \in Deletes /\ Goto(r, "gone")
           \/ \E code \in Codes, id \in Ids \cup {None} : Answer(r, code, id)
    PROVE  /\ RequestTypes' /\ Who' /\ Alone(r) /\ on'[r] = None
           /\ at'[r] \in {"stored", "gone", "answered"}
<1>1. /\ at' \in [Requests -> Places] /\ at'[r] \in {"stored", "gone", "answered"}
      /\ at'[r] = "stored" => r \in Updates
      /\ at'[r] = "gone" => r \in Deletes
      /\ reply' \in [Requests -> {0, 200, 201, 401, 404, 409, 500}]
      /\ reply'[r] # 0 => at'[r] = "answered"
      /\ account' \in [Requests -> Ids \cup {None}]
      /\ \A q \in Requests \ {r} :
            at'[q] = at[q] /\ reply'[q] = reply[q] /\ account'[q] = account[q]
  BY MoveFacts DEF RequestTypes, Places, Who, Inside
<1>2. /\ on'[r] = None /\ DOMAIN on' = Requests
      /\ \A q \in Requests \ {r} : on'[q] = on[q] /\ (on[q] # None => on[q] # on[r])
  BY DEF RequestTypes, Releases
<1>3. on' \in [Requests -> open' \cup {None}]
  <2>1. ASSUME NEW q \in Requests PROVE on'[q] \in open' \cup {None}
    BY <1>2 DEF RequestTypes
  <2> QED
    BY <2>1 DEF RequestTypes, Releases
<1>4. \A p, q \in Requests : on'[p] = on'[q] /\ p # q => on'[p] = None
  BY <1>2 DEF RequestTypes
<1>5. RequestTypes' /\ Alone(r)
  BY <1>1, <1>2, <1>3, <1>4 DEF RequestTypes, Alone, Inside, Past
<1>6. Who'
  BY <1>1, <1>2 DEF Who, Inside
<1> QED
  BY <1>1, <1>2, <1>5, <1>6

\* Lemma: what was answered stays.
LEMMA AnswersStay ==
    ASSUME Inv, NEW r \in Requests, at[r] # "answered", Alone(r)
    PROVE  /\ \A e \in Deletes : reply[e] = 500 => reply'[e] = 500
           /\ \A x \in Existing : MayBeBare(x) => MayBeBare(x)'
<1>1. \A e \in Deletes : reply[e] = 500 => reply'[e] = 500
  BY RequestFacts DEF Inv, Who, Alone
<1>2. \A u \in Updates : at[u] \in Past => at'[u] \in Past
  BY RequestFacts DEF Alone
<1> QED
  BY <1>1, <1>2 DEF MayBeBare, Past

\* Lemma: what the step of request r must show to keep Together, if it writes on c only.
LEMMA TogetherStep ==
    ASSUME Inv, NEW r \in Requests, at[r] # "answered", Alone(r),
           NEW c \in Connections, on[r] \in {None, c},
           \A q \in Requests \ {r} : on[q] # c,
           \A b \in Connections \ {c} : pending'[b] = pending[b],
           \A b \in Connections \ {c} : \A k \in DOMAIN pending[b] : db'[k] = db[k],
           \A b \in Connections \ {c}, x \in Existing :
               Pends(b, Details(x), x) /\ db[Member(x)] = x => db'[Member(x)] = x,
           \A x \in Existing : PendingOf(c, x, Member(x), Details(x))',
           \A x \in Existing : TogetherOf(x, Member(x), Details(x))',
           r \in Deletes => ErasesBoth(r, Member(r), Details(TargetOf[r]))'
    PROVE  Together'
<1>1. Together /\ Who /\ RequestTypes /\ StoreTypes
  BY DEF Inv, Store
<1>2. \A e \in Deletes : reply[e] = 500 => reply'[e] = 500
  BY AnswersStay
<1>3. ASSUME NEW b \in Connections \ {c}, NEW x \in Existing
      PROVE  PendingOf(b, x, Member(x), Details(x))'
  <2> DEFINE m == Member(x)
             d == Details(x)
  <2>1. PendingOf(b, x, m, d)
    BY <1>1 DEF Together
  <2>2. /\ \A k : Pends(b, k, x)' <=> Pends(b, k, x)
        /\ \A k : Pends(b, k, None)' <=> Pends(b, k, None)
        /\ pending'[b] = pending[b]
    BY DEF Pends
  <2>3. /\ m \in DOMAIN pending[b] => db'[m] = db[m]
        /\ Pends(b, d, x) /\ db[m] = x => db'[m] = x
    OBVIOUS
  <2>4. b # None /\ on[r] # b
    BY RequestFacts
  <2>5. \A q \in Requests : on[q] = b => on'[q] = b /\ at'[q] = at[q]
    BY <2>4 DEF Alone
  <2>6. /\ \A u \in Updates : u \in Requests
        /\ \A e \in Deletes : e \in Requests
    BY RequestFacts
  <2> HIDE DEF m, d
  <2>7. \A u \in Updates : Bares(u, b, x, m, d) /\ d \in DOMAIN pending[b] => Bares(u, b, x, m, d)'
    BY <2>2, <2>5, <2>6 DEF Bares
  <2>8. PendingOf(b, x, m, d)'
    BY <1>2, <2>1, <2>2, <2>3, <2>5, <2>6, <2>7 DEF PendingOf, Holds, Pends
  <2> QED
    BY <2>8 DEF m, d, Member, Details
<1>4. ASSUME NEW e \in Deletes, e # r
      PROVE  ErasesBoth(e, Member(e), Details(TargetOf[e]))'
  <2> DEFINE m == Member(e)
             d == Details(TargetOf[e])
  <2>1. ErasesBoth(e, m, d)
    BY <1>1 DEF Together
  <2>2. at'[e] = at[e] /\ on'[e] = on[e] /\ e \in Requests
    BY <1>4, RequestFacts DEF Alone
  <2>3. at[e] \in {"erased", "wrote"} => on[e] \in Connections \ {c}
    BY <1>1, <1>4, <2>2 DEF Who, Inside, RequestTypes, StoreTypes
  <2> HIDE DEF m, d
  <2>4. ErasesBoth(e, m, d)'
    BY <2>1, <2>2, <2>3 DEF ErasesBoth, Pends
  <2> QED
    BY <2>4 DEF m, d, Member, Details
<1>5. \A b \in Connections, x \in Existing : PendingOf(b, x, Member(x), Details(x))'
  BY <1>3
<1>6. \A e \in Deletes : ErasesBoth(e, Member(e), Details(TargetOf[e]))'
  BY <1>4
<1> QED
  BY <1>5, <1>6 DEF Together, Member, Details

\* Lemma: a step that writes nothing, and takes no request out of a transaction except by
\* a delete's 500.
LEMMA QuietTogether ==
    ASSUME Inv, NEW r \in Requests, at[r] # "answered", Alone(r), UNCHANGED <<db, pending>>,
           at'[r] # "erased", r \in Updates => at[r] # "wrote",
           at'[r] = "wrote" => r \in Updates /\ ListsOf[r] # "replaced",
           on'[r] = on[r] \/ (r \in Deletes /\ reply'[r] = 500)
    PROVE  Together'
<1>1. Together /\ Who
  BY DEF Inv
<1>2. /\ \A e \in Deletes : reply[e] = 500 => reply'[e] = 500
      /\ \A x \in Existing : MayBeBare(x) => MayBeBare(x)'
  BY AnswersStay
<1>3. ASSUME NEW b \in Connections, NEW x \in Existing
      PROVE  PendingOf(b, x, Member(x), Details(x))'
  <2> DEFINE m == Member(x)
             d == Details(x)
  <2>1. PendingOf(b, x, m, d)
    BY <1>1 DEF Together
  <2>2. /\ \A u \in Updates :
              /\ on'[u] = on[u]
              /\ at[u] = "wrote" => at'[u] = "wrote"
              /\ at'[u] = "wrote" => at[u] = "wrote" \/ ListsOf[u] # "replaced"
        /\ \A e \in Deletes : on'[e] = on[e] \/ reply'[e] = 500
    BY RequestFacts DEF Alone
  <2> HIDE DEF m, d
  <2>3. \A u \in Updates : Bares(u, b, x, m, d) => Bares(u, b, x, m, d)'
    BY <2>2 DEF Bares, Pends
  <2>4. PendingOf(b, x, m, d)'
    BY <1>2, <2>1, <2>2, <2>3 DEF PendingOf, Holds, Pends
  <2> QED
    BY <2>4 DEF m, d, Member, Details
<1>4. ASSUME NEW e \in Deletes
      PROVE  ErasesBoth(e, Member(e), Details(TargetOf[e]))'
  <2>1. /\ e \in Requests /\ e \notin Updates
        /\ ErasesBoth(e, Member(e), Details(TargetOf[e]))
    BY <1>1, RequestFacts DEF Together
  <2>2. at'[e] \in {"erased", "wrote"} => e # r
    BY <2>1
  <2> QED
    BY <2>1, <2>2 DEF ErasesBoth, Pends, Alone, Member, Details
<1>5. ASSUME NEW x \in Existing
      PROVE  TogetherOf(x, Member(x), Details(x))'
  BY <1>1, <1>2 DEF Together, TogetherOf, Member, Details
<1> QED
  BY <1>3, <1>4, <1>5 DEF Together

\* Lemma: what a transaction that ends leaves, if no update on it has still to bring
\* details and no delete has still to take the member away.
LEMMA EndTogether ==
    ASSUME Inv, NEW c \in Connections, NEW x \in Existing,
           DOMAIN pending'[c] = {},
           \/ UNCHANGED db
           \/ /\ \A k \in DOMAIN pending[c] : db'[k] = pending[c][k]
              /\ \A k \in Rows \ DOMAIN pending[c] : db'[k] = db[k]
              /\ \A q \in Requests : on[q] = c => at[q] = "wrote"
              /\ \A u \in Updates : on[u] = c => at'[u] = "stored",
           \A e \in Deletes : reply[e] = 500 => reply'[e] = 500,
           MayBeBare(x) => MayBeBare(x)'
    PROVE  /\ PendingOf(c, x, Member(x), Details(x))'
           /\ TogetherOf(x, Member(x), Details(x))'
<1> DEFINE m == Member(x)
           d == Details(x)
<1>1. /\ PendingOf(c, x, m, d) /\ TogetherOf(x, m, d)
      /\ \A e \in Deletes : ErasesBoth(e, Member(e), Details(TargetOf[e]))
  BY DEF Inv, Together
<1>2. m \in Rows /\ d \in Rows /\ x # None
  BY RequestFacts, RowFacts
<1>3. \A e \in Deletes : TargetOf[e] = x => ErasesBoth(e, m, d)
  BY <1>1, RequestFacts, RowFacts
<1>4. /\ \A u \in Updates : u \in Requests
      /\ \A e \in Deletes : e \in Requests
  BY RequestFacts
<1> HIDE DEF m, d
<1>5. PendingOf(c, x, m, d)'
  BY DEF PendingOf, Pends
<1>6. TogetherOf(x, m, d)'
  <2>1. CASE UNCHANGED db
    BY <1>1, <2>1 DEF TogetherOf
  <2>2. CASE /\ \A k \in DOMAIN pending[c] : db'[k] = pending[c][k]
             /\ \A k \in Rows \ DOMAIN pending[c] : db'[k] = db[k]
             /\ \A q \in Requests : on[q] = c => at[q] = "wrote"
             /\ \A u \in Updates : on[u] = c => at'[u] = "stored"
    <3>1. db'[d] = x => db'[m] = x
      BY <1>1, <1>2, <2>2 DEF PendingOf, TogetherOf, Holds, Pends
    <3>2. ASSUME db'[m] = x, db'[d] # x
          PROVE  MayBeBare(x)'
      <4>1. ASSUME NEW u \in Updates, TargetOf[u] = x, on[u] = c, ListsOf[u] # "replaced"
            PROVE  MayBeBare(x)'
        BY <2>2, <4>1 DEF MayBeBare
      <4>2. CASE db[m] = x /\ db[d] # x
        BY <1>1, <4>2 DEF TogetherOf
      <4>3. CASE d \in DOMAIN pending[c]
        <5>1. Pends(c, d, None)
          BY <1>1, <2>2, <3>2, <4>3 DEF PendingOf, Pends
        <5>2. ASSUME NEW e \in Deletes, TargetOf[e] = x, on[e] = c \/ reply[e] = 500
              PROVE  MayBeBare(x)'
          <6>1. on[e] # c
            <7>1. SUFFICES ASSUME on[e] = c PROVE FALSE
              OBVIOUS
            <7>2. m \in DOMAIN pending[c] /\ pending[c][m] # x
              BY <1>3, <1>4, <2>2, <5>2, <7>1 DEF ErasesBoth, Pends
            <7> QED
              BY <2>2, <3>2, <7>2
          <6> QED
            BY <5>2, <6>1 DEF MayBeBare
        <5>3. ASSUME NEW u \in Updates, Bares(u, c, x, m, d)
              PROVE  MayBeBare(x)'
          <6>1. CASE ListsOf[u] # "replaced"
            BY <4>1, <5>3, <6>1 DEF Bares
          <6>2. CASE db[d] # x /\ ~Pends(c, m, x)
            BY <1>2, <2>2, <3>2, <4>2, <6>2 DEF Pends
          <6> QED
            BY <5>3, <6>1, <6>2 DEF Bares
        <5> QED
          BY <1>1, <5>1, <5>2, <5>3 DEF PendingOf
      <4>4. CASE d \notin DOMAIN pending[c] /\ db[m] # x
        <5>1. Pends(c, m, x)
          BY <1>2, <2>2, <3>2, <4>4 DEF Pends
        <5>2. PICK u \in Updates : /\ TargetOf[u] = x /\ on[u] = c
                                   /\ at[u] = "wrote" => ListsOf[u] # "replaced"
          BY <1>1, <4>4, <5>1 DEF PendingOf, Pends, Bares
        <5> QED
          BY <1>4, <2>2, <4>1, <5>2
      <4>5. d \notin DOMAIN pending[c] => db[d] # x
        BY <1>2, <2>2, <3>2
      <4> QED
        BY <4>2, <4>3, <4>4, <4>5
    <3> QED
      BY <3>1, <3>2 DEF TogetherOf
  <2> QED
    BY <2>1, <2>2
<1> QED
  BY <1>5, <1>6 DEF m, d, Member, Details

\* Lemma: a commit on c takes no member from under details pending elsewhere.
LEMMA CommitElsewhere ==
    ASSUME Inv, NEW c \in Connections, NEW b \in Connections \ {c}, NEW x \in Existing,
           \A k \in Rows : db'[k] = db[k] \/ (k \in DOMAIN pending[c] /\ db'[k] = pending[c][k]),
           Pends(b, Details(x), x), db[Member(x)] = x
    PROVE  db'[Member(x)] = x
<1>1. PendingOf(c, x, Member(x), Details(x)) /\ Exclusive
  BY DEF Inv, Together, Store
<1>2. Member(x) \in Rows
  BY RequestFacts, RowFacts
<1> QED
  BY <1>1, <1>2 DEF PendingOf, Pends, Exclusive

\* Lemma: the connection a request keeps is open, and nobody else keeps it.
LEMMA KeptConnection ==
    ASSUME Inv, NEW r \in Requests, at[r] \in Inside
    PROVE  /\ on[r] \in open /\ on[r] \in Connections /\ on[r] # None
           /\ \A q \in Requests \ {r} : on[q] # on[r] /\ (on[q] # None => on[q] \in Connections)
           /\ at[r] # "answered"
BY RequestFacts DEF Inv, Store, StoreTypes, RequestTypes, Who, Inside

\* Lemma: a later state has the excuses of an earlier one.
LEMMA ExcusedStays ==
    ASSUME Inv, NEW r \in Requests, at[r] \notin {"answered", "crashed"}, Alone(r),
           carried \subseteq carried', at[r] = "gone" => reply'[r] = 200,
           NEW e, Excused(e)
    PROVE  Excused(e)'
<1>1. Who /\ \A d \in Deletes : d \in Requests
  BY RequestFacts DEF Inv
<1>2. ASSUME NEW d \in Deletes, reply[d] \in {200, 500} \/ at[d] \in {"gone", "crashed"}
      PROVE  reply'[d] \in {200, 500} \/ at'[d] \in {"gone", "crashed"}
  <2>1. CASE d = r
    BY <1>1, <1>2, <2>1 DEF Who
  <2>2. CASE d # r
    BY <1>1, <1>2, <2>2 DEF Alone
  <2> QED
    BY <2>1, <2>2
<1> QED
  BY <1>2 DEF Excused, MayBeGone

\* Lemma: what the step of request r must show of an e-mail that is not excused, if it
\* changes what is pending on c only.
LEMMA NamedStep ==
    ASSUME Inv, NEW r \in Requests, Alone(r), NEW e, NEW m, NEW k, NamedOf(e, m, k),
           NEW c \in Connections, \A q \in Requests \ {r} : on[q] # c,
           on[r] \in {None, c},
           \A b \in Connections \ {c} : pending'[b] = pending[b],
           k \notin DOMAIN pending'[c],
           m \in DOMAIN pending'[c] =>
               /\ r \in InTransaction /\ on'[r] = c /\ EmailOf[r] = e
               /\ r \in Deletes \/ db'[m] = None \/ pending'[c][m] = db'[m],
           \A b \in Connections \ {c} : m \in DOMAIN pending[b] => db'[m] = db[m],
           db[m] # None => db'[m] = db[m],
           db[k] # None => db'[k] = db[k],
           \A b \in Connections : snapshot'[b] \in {snapshot[b], None, db},
           EmailOf[r] = e => account'[r] \in {account[r], None, db'[m], db'[k]}
    PROVE  NamedOf(e, m, k)'
<1>1. ASSUME NEW b \in Connections
      PROVE  /\ k \notin DOMAIN pending'[b]
             /\ m \in DOMAIN pending'[b] =>
                   \E q \in InTransaction :
                       /\ on'[q] = b /\ EmailOf[q] = e
                       /\ q \in Deletes \/ db'[m] = None \/ pending'[b][m] = db'[m]
  <2>1. CASE b = c
    BY <2>1
  <2>2. CASE b # c
    <3>1. pending'[b] = pending[b] /\ k \notin DOMAIN pending[b]
      BY <2>2 DEF NamedOf
    <3>2. ASSUME m \in DOMAIN pending[b]
          PROVE  \E q \in InTransaction :
                     /\ on'[q] = b /\ EmailOf[q] = e
                     /\ q \in Deletes \/ db'[m] = None \/ pending'[b][m] = db'[m]
      <4>1. PICK q \in InTransaction :
                /\ on[q] = b /\ EmailOf[q] = e
                /\ q \in Deletes \/ db[m] = None \/ pending[b][m] = db[m]
        BY <3>2 DEF NamedOf
      <4>2. on'[q] = b
        <5>1. q \in Requests /\ b # None
          BY <4>1, RequestFacts
        <5> QED
          BY <2>2, <4>1, <5>1 DEF Alone
      <4>3. db'[m] = db[m]
        BY <2>2, <3>2
      <4> QED
        BY <3>1, <4>1, <4>2, <4>3
    <3> QED
      BY <3>1, <3>2
  <2> QED
    BY <2>1, <2>2
<1>2. ASSUME NEW b \in Connections, snapshot'[b] # None
      PROVE  snapshot'[b][m] \in {None, db'[m]} /\ snapshot'[b][k] \in {None, db'[k]}
  <2>1. CASE snapshot'[b] = snapshot[b]
    BY <1>2, <2>1 DEF NamedOf
  <2>2. CASE snapshot'[b] = db
    BY <2>2
  <2> QED
    BY <1>2, <2>1, <2>2
<1>3. ASSUME NEW q \in Requests, EmailOf[q] = e, account'[q] # None
      PROVE  account'[q] \in {db'[m], db'[k]}
  <2>1. CASE account'[q] = account[q]
    BY <1>3, <2>1 DEF NamedOf
  <2>2. CASE account'[q] # account[q]
    BY <1>3, <2>2 DEF Alone
  <2> QED
    BY <2>1, <2>2
<1> QED
  BY <1>1, <1>2, <1>3 DEF NamedOf

\* Lemma: a step that writes nothing.
LEMMA QuietNamed ==
    ASSUME Inv, NEW r \in Requests, at[r] \notin {"answered", "crashed"}, Alone(r),
           UNCHANGED <<db, pending, carried>>,
           \A b \in Connections : snapshot'[b] \in {snapshot[b], db},
           at[r] = "gone" => reply'[r] = 200,
           on'[r] = on[r] \/ (r \in Deletes /\ reply'[r] = 500),
           \/ account'[r] \in {account[r], None, db[Member(r)], db[Recruiter(r)]}
           \/ Excused(EmailOf[r])
    PROVE  Named'
<1>1. SUFFICES ASSUME NEW e \in Emails, ~Excused(e)'
               PROVE  NamedOf(e, Mem(e), Rec(e))'
  BY DEF Named, Mem, Rec
<1>2. ~Excused(e)
  BY <1>1, ExcusedStays
<1>3. r \in Ids /\ InTransaction \subseteq Requests
  BY RequestFacts
<1>4. EmailOf[r] = e => account'[r] \in {account[r], None, db[Mem(e)], db[Rec(e)]}
  BY <1>2, <1>3, EmailFacts
<1> DEFINE m == Mem(e)
           k == Rec(e)
<1>5. NamedOf(e, m, k)
  BY <1>2 DEF Inv, Named
<1>6. EmailOf[r] = e => account'[r] \in {account[r], None, db[m], db[k]}
  BY <1>4
<1> HIDE DEF m, k
<1>7. \A q \in InTransaction : EmailOf[q] = e => on'[q] = on[q]
  <2>1. EmailOf[r] = e /\ r \in Deletes => reply'[r] # 500
    BY <1>1 DEF Excused, MayBeGone
  <2> QED
    BY <1>3, <2>1 DEF Alone
<1>8. \A q \in Requests : EmailOf[q] = e /\ account'[q] # None => account'[q] \in {db[m], db[k]}
  <2>1. ASSUME NEW q \in Requests, EmailOf[q] = e, account'[q] # None
        PROVE  account'[q] \in {db[m], db[k]}
    <3>1. account[q] # None => account[q] \in {db[m], db[k]}
      BY <1>5, <2>1 DEF NamedOf
    <3> QED
      BY <1>6, <2>1, <3>1 DEF Alone
  <2> QED
    BY <2>1
<1>9. ASSUME NEW b \in Connections
      PROVE  /\ k \notin DOMAIN pending'[b]
             /\ m \in DOMAIN pending'[b] =>
                   \E q \in InTransaction :
                       /\ on'[q] = b /\ EmailOf[q] = e
                       /\ q \in Deletes \/ db'[m] = None \/ pending'[b][m] = db'[m]
             /\ snapshot'[b] # None =>
                   snapshot'[b][m] \in {None, db'[m]} /\ snapshot'[b][k] \in {None, db'[k]}
  <2>1. m \in DOMAIN pending[b] =>
           \E q \in InTransaction :
               /\ on'[q] = b /\ EmailOf[q] = e
               /\ q \in Deletes \/ db[m] = None \/ pending[b][m] = db[m]
    BY <1>5, <1>7 DEF NamedOf
  <2>2. k \notin DOMAIN pending[b]
    BY <1>5 DEF NamedOf
  <2>3. snapshot'[b] # None =>
           snapshot'[b][m] \in {None, db[m]} /\ snapshot'[b][k] \in {None, db[k]}
    BY <1>5 DEF NamedOf
  <2> QED
    BY <2>1, <2>2, <2>3
<1>10. NamedOf(e, m, k)'
  BY <1>8, <1>9 DEF NamedOf
<1> QED
  BY <1>10 DEF m, k, Mem, Rec

\* Lemma: a transaction ends, or one begins where one was left open.
LEMMA EndNamed ==
    ASSUME Inv, NEW r \in Requests, at[r] \notin {"answered", "crashed", "gone"}, Alone(r),
           UNCHANGED carried,
           NEW c \in Connections, on[r] \in {None, c},
           \A q \in Requests \ {r} : on[q] # c,
           \A b \in Connections \ {c} : pending'[b] = pending[b],
           DOMAIN pending'[c] = {},
           \A b \in Connections : snapshot'[b] \in {snapshot[b], None},
           \/ UNCHANGED db
           \/ /\ \A j \in DOMAIN pending[c] : db'[j] = pending[c][j]
              /\ \A j \in Rows \ DOMAIN pending[c] : db'[j] = db[j]
              /\ on[r] = c /\ r \in Deletes => at'[r] = "gone",
           account'[r] \in {account[r], None, db'[Member(r)]}
    PROVE  Named'
<1>1. SUFFICES ASSUME NEW e \in Emails, ~Excused(e)'
               PROVE  NamedOf(e, Mem(e), Rec(e))'
  BY DEF Named, Mem, Rec
<1>2. ~Excused(e)
  BY <1>1, ExcusedStays
<1>3. r \in Ids /\ InTransaction \subseteq Requests
  BY RequestFacts
<1> DEFINE m == Mem(e)
           k == Rec(e)
<1>4. NamedOf(e, m, k) /\ Exclusive /\ m \in Rows /\ k \in Rows
  BY <1>2, EmailFacts DEF Inv, Store, Named
<1>5. EmailOf[r] = e => account'[r] \in {account[r], None, db'[m], db'[k]}
  <2>1. EmailOf[r] = e => Member(r) = m
    BY <1>3, EmailFacts
  <2> QED
    BY <2>1
<1> HIDE DEF m, k
<1>6. db[m] # None => db'[m] = db[m]
  <2>1. CASE UNCHANGED db
    BY <2>1
  <2>2. CASE /\ \A j \in DOMAIN pending[c] : db'[j] = pending[c][j]
             /\ \A j \in Rows \ DOMAIN pending[c] : db'[j] = db[j]
             /\ on[r] = c /\ r \in Deletes => at'[r] = "gone"
    <3>1. CASE m \in DOMAIN pending[c]
      <4>1. PICK q \in InTransaction :
                /\ on[q] = c /\ EmailOf[q] = e
                /\ q \in Deletes \/ db[m] = None \/ pending[c][m] = db[m]
        BY <1>4, <3>1 DEF NamedOf
      <4>2. q = r
        BY <1>3, <4>1
      <4>3. r \notin Deletes
        <5>1. r \in Deletes => at'[r] = "gone"
          BY <2>2, <4>1, <4>2
        <5> QED
          BY <1>1, <4>1, <4>2, <5>1 DEF Excused, MayBeGone
      <4> QED
        BY <2>2, <3>1, <4>1, <4>2, <4>3
    <3>2. CASE m \notin DOMAIN pending[c]
      BY <1>4, <2>2, <3>2
    <3> QED
      BY <3>1, <3>2
  <2> QED
    BY <2>1, <2>2
<1>7. db'[k] = db[k]
  <2>1. k \notin DOMAIN pending[c]
    BY <1>4 DEF NamedOf
  <2> QED
    BY <1>4, <2>1
<1>8. \A b \in Connections \ {c} : m \in DOMAIN pending[b] => db'[m] = db[m]
  BY <1>4 DEF Exclusive
<1>9. NamedOf(e, m, k)'
  BY <1>4, <1>5, <1>6, <1>7, <1>8, NamedStep
<1> QED
  BY <1>9 DEF m, k, Mem, Rec

\* A write on c in a transaction of r's own: details, or the member's row.
Plain(r, c, k, id) ==
    \/ k = Details(TargetOf[r]) /\ TargetOf[r] \in Ids
    \/ k = Member(r) /\ (r \in Deletes \/ Current(c)[k] \in {None, id})

\* Lemma: a write in a transaction of one's own.
LEMMA OwnNamed ==
    ASSUME Inv, NEW r \in InTransaction, at[r] \in Inside, Alone(r), on'[r] = on[r],
           UNCHANGED <<account, carried>>,
           NEW row \in Rows, NEW id \in Ids \cup {None},
           ~Locked(on[r], row), Writes(on[r], row, id),
           row \in Emailed => Current(on[r])[row] \in Replaceable,
           Plain(r, on[r], row, id)
    PROVE  Named'
<1>1. SUFFICES ASSUME NEW e \in Emails, ~Excused(e)'
               PROVE  NamedOf(e, Mem(e), Rec(e))'
  BY DEF Named, Mem, Rec
<1>2. r \in Requests /\ r \in Ids /\ InTransaction \subseteq Requests
  BY RequestFacts
<1>3. PICK c \in Connections : c = on[r] /\ c \in open
  BY <1>2, KeptConnection
<1>4. /\ \A q \in Requests \ {r} : on[q] # c
      /\ at[r] \notin {"answered", "crashed", "gone"}
      /\ on'[r] = c
  BY <1>2, <1>3, KeptConnection DEF Inside
<1>5. ~Excused(e)
  BY <1>1, <1>2, <1>4, ExcusedStays
<1>6. /\ UNCHANGED <<db, snapshot>>
      /\ \A b \in Connections \ {c} : pending'[b] = pending[b]
      /\ DOMAIN pending'[c] = DOMAIN pending[c] \cup {row}
      /\ pending'[c][row] = id
      /\ \A j \in DOMAIN pending[c] \ {row} : pending'[c][j] = pending[c][j]
  BY <1>3, WritesStore DEF Inv
<1> DEFINE m == Mem(e)
           k == Rec(e)
<1>7. NamedOf(e, m, k) /\ StoreTypes /\ m \in Rows
  BY <1>5, EmailFacts DEF Inv, Store, Named
<1>8. /\ row # k
      /\ row = m => EmailOf[r] = e /\ (r \in Deletes \/ Current(c)[m] \in {None, id})
  BY <1>2, <1>3, EmailFacts DEF Plain
<1> HIDE DEF m, k
<1>9. k \notin DOMAIN pending'[c]
  BY <1>6, <1>7, <1>8 DEF NamedOf
<1>10. ASSUME m \in DOMAIN pending[c]
       PROVE  /\ EmailOf[r] = e
              /\ r \in Deletes \/ db[m] = None \/ pending[c][m] = db[m]
  <2>1. PICK q \in InTransaction :
            /\ on[q] = c /\ EmailOf[q] = e
            /\ q \in Deletes \/ db[m] = None \/ pending[c][m] = db[m]
    BY <1>7, <1>10 DEF NamedOf
  <2> QED
    BY <1>2, <1>4, <2>1
<1>11. ASSUME m \in DOMAIN pending'[c]
       PROVE  /\ EmailOf[r] = e
              /\ r \in Deletes \/ db[m] = None \/ pending'[c][m] = db[m]
  <2>1. CASE row = m
    <3>1. /\ m \in DOMAIN pending[c] => Current(c)[m] = pending[c][m]
          /\ m \notin DOMAIN pending[c] => Current(c)[m] = db[m]
      BY <1>7, CurrentFacts
    <3> QED
      BY <1>6, <1>8, <1>10, <2>1, <3>1
  <2>2. CASE row # m
    BY <1>6, <1>10, <1>11, <2>2
  <2> QED
    BY <2>1, <2>2
<1>12. NamedOf(e, m, k)'
  BY <1>2, <1>3, <1>4, <1>6, <1>7, <1>9, <1>11, NamedStep
<1> QED
  BY <1>12 DEF m, k, Mem, Rec

\* Lemma: an INSERT of a new account outside any transaction of its own.
LEMMA CreateNamed ==
    ASSUME Inv, NEW r \in Requests, at[r] \notin {"answered", "crashed", "gone"}, Alone(r),
           on[r] = None, NEW c \in Connections, NEW row \in Rows,
           row \in {Member(r), Recruiter(r)},
           carried' = IF c \in open THEN carried \cup {r} ELSE carried,
           Free(c), ~Locked(c, row), Writes(c, row, r), Current(c)[row] = None,
           account'[r] = account[r] \/ (row = Member(r) /\ account'[r] = r)
    PROVE  Named'
<1>1. SUFFICES ASSUME NEW e \in Emails, ~Excused(e)'
               PROVE  NamedOf(e, Mem(e), Rec(e))'
  BY DEF Named, Mem, Rec
<1>2. c \notin open
  BY <1>1 DEF Excused
<1>3. ~Excused(e)
  BY <1>1, ExcusedStays
<1>4. /\ Store /\ StoreTypes /\ r \in Ids /\ None \in Replaceable
      /\ \A q \in Requests : on[q] # c
  BY RequestFacts DEF Inv, Store, Replaceable, Free
<1>5. /\ UNCHANGED <<pending, snapshot>> /\ db'[row] = r
      /\ \A j \in Rows \ {row} : db'[j] = db[j]
  BY <1>2, <1>4, WritesStore
<1>6. DOMAIN pending[c] = {} /\ db[row] = None
  <2>1. DOMAIN pending[c] = {}
    BY <1>2, <1>4 DEF StoreTypes
  <2> QED
    BY <1>4, <2>1, CurrentFacts
<1> DEFINE m == Mem(e)
           k == Rec(e)
<1>7. NamedOf(e, m, k) /\ m \in Rows /\ k \in Rows
  BY <1>3, EmailFacts DEF Inv, Named
<1>8. EmailOf[r] = e => account'[r] \in {account[r], None, db'[m], db'[k]}
  <2>1. EmailOf[r] = e => Member(r) = m
    BY <1>4, EmailFacts
  <2> QED
    BY <1>5, <2>1
<1> HIDE DEF m, k
<1>9. /\ db[m] # None => db'[m] = db[m]
      /\ db[k] # None => db'[k] = db[k]
  BY <1>5, <1>6, <1>7
<1>10. \A b \in Connections \ {c} : m \in DOMAIN pending[b] => db'[m] = db[m]
  BY <1>5, <1>7 DEF Locked
<1>11. NamedOf(e, m, k)'
  BY <1>4, <1>5, <1>6, <1>7, <1>8, <1>9, <1>10, NamedStep
<1> QED
  BY <1>11 DEF m, k, Mem, Rec

\* Lemma: what the step of a request must show to keep Inv, the parts that are shown for
\* all steps together left out.
LEMMA StepInv ==
    ASSUME Inv, NEW r \in Requests, at[r] # "answered",
           Store', Settled, Brings(r), RequestTypes', Who', Alone(r),
           \A q \in Requests \ {r} : on[q] # None => pending'[on[q]] = pending[on[q]],
           r \in Signups /\ at'[r] = "wrote" =>
               Member(r) \in DOMAIN pending'[on'[r]] /\ pending'[on'[r]][Member(r)] = r,
           r \in Lookups /\ at'[r] \notin {"answered", "crashed"} => Absent(r)',
           account'[r] = r => db'[Member(r)] = r \/ r \in carried',
           carried \subseteq carried',
           carried' # carried => \E c \in open : Free(c),
           \A c \in open' : Free(c)' => (c \in open /\ Free(c)) \/ (r \in Deletes /\ reply'[r] = 500),
           Together',
           Named'
    PROVE  Inv'
<1>1. /\ StoreTypes /\ RequestTypes /\ Who /\ Owes /\ Fresh /\ Left /\ Kept /\ Blamable
  BY DEF Inv, Store
<1>2. (\E d \in Deletes : reply[d] = 500) => \E d \in Deletes : reply'[d] = 500
  BY <1>1, RequestFacts DEF Who, Alone
<1>3. Owes'
  <2>1. SUFFICES ASSUME NEW q \in Signups, at'[q] = "wrote"
                 PROVE  Member(q) \in DOMAIN pending'[on'[q]] /\ pending'[on'[q]][Member(q)] = q
    BY DEF Owes, Member
  <2>2. CASE q # r
    <3>1. q \in Requests /\ at[q] = "wrote" /\ on'[q] = on[q] /\ on[q] # None
      BY <1>1, <2>1, <2>2, RequestFacts DEF Alone, Who, Inside
    <3> QED
      BY <1>1, <2>1, <2>2, <3>1 DEF Owes
  <2> QED
    BY <2>1, <2>2
<1>4. Fresh'
  <2>1. SUFFICES ASSUME NEW q \in Lookups, at'[q] \notin {"answered", "crashed"}
                 PROVE  Absent(q)'
    BY DEF Fresh
  <2>2. CASE q # r
    BY <1>1, <2>1, <2>2, RequestFacts DEF Alone, Fresh, Brings
  <2> QED
    BY <2>1, <2>2
<1>5. Left'
  BY <1>1, <1>2, RequestFacts DEF Left
<1>6. Kept'
  <2>1. SUFFICES ASSUME NEW q \in Requests, account'[q] = q, q # r
                 PROVE  db'[Member(q)] = q \/ q \in carried'
    BY DEF Kept, Member
  <2>2. db[Member(q)] = q \/ q \in carried
    BY <1>1, <2>1 DEF Alone, Kept
  <2>3. q \notin Replaceable /\ Member(q) \in Emailed
    BY RequestFacts, RowFacts DEF Replaceable
  <2> QED
    BY <2>2, <2>3 DEF Settled
<1>7. Blamable'
  BY <1>1, <1>2 DEF Blamable, Left
<1> QED
  BY <1>3, <1>4, <1>5, <1>6, <1>7 DEF Inv

\* Lemma: a transaction that is rolled back, and its connection given back.
LEMMA RollsBackStep ==
    ASSUME Inv, NEW r \in Requests, at[r] \in Inside, NEW code \in Codes, RollsBack(r, code),
           UNCHANGED carried, faults' \in 0..MaxFaults
    PROVE  Inv'
<1>0. PICK c \in Connections : c = on[r]
  BY KeptConnection
<1> USE <1>0
<1>1. /\ Store /\ RequestTypes /\ Who
      /\ db' = db /\ open' = open \ {c}
      /\ pending' = [pending EXCEPT ![c] = <<>>]
      /\ snapshot' = [snapshot EXCEPT ![c] = None]
      /\ Releases(r) /\ Answer(r, code, None)
  BY DEF Inv, RollsBack, Closes
<1>2. /\ c \in open /\ c \in Connections
      /\ \A q \in Requests \ {r} : on[q] # c /\ (on[q] # None => on[q] \in Connections)
      /\ at[r] # "answered"
  BY KeptConnection
<1>3. /\ Store' /\ Settled /\ Brings(r)
      /\ \A d \in Connections \ {c} : pending'[d] = pending[d]
      /\ DOMAIN pending'[c] = {}
      /\ \A d \in Connections : snapshot'[d] \in {snapshot[d], None}
  <2>1. db' = IF FALSE THEN Current(c) ELSE db
    BY <1>1
  <2> QED
    BY <1>1, <1>2, <2>1, EndsStore
<1>4. /\ RequestTypes' /\ Who' /\ Alone(r) /\ on'[r] = None
      /\ at'[r] \in {"stored", "gone", "answered"}
  BY <1>1, ReleaseTypes
<1>5. at'[r] = "answered" /\ account'[r] = None
  BY <1>1, MoveFacts
<1>6. \A d \in open' : Free(d)' => d \in open /\ Free(d)
  BY <1>1, <1>4 DEF Free, Alone
<1>7. r # None
  BY RequestFacts
<1>8. Together'
  <2>1. \A x \in Existing : /\ PendingOf(c, x, Member(x), Details(x))'
                            /\ TogetherOf(x, Member(x), Details(x))'
    BY <1>1, <1>2, <1>3, <1>4, AnswersStay, EndTogether
  <2>2. ErasesBoth(r, Member(r), Details(TargetOf[r]))'
    BY <1>5 DEF ErasesBoth
  <2> QED
    BY <1>1, <1>2, <1>3, <1>4, <2>1, <2>2, TogetherStep
<1>9. Named'
  BY <1>1, <1>2, <1>3, <1>4, <1>5, EndNamed DEF Inside
<1> QED
  BY <1>2, <1>3, <1>4, <1>5, <1>6, <1>7, <1>8, <1>9, StepInv

\* Lemma: a delete that fails and gives its connection back with the transaction open.
LEMMA LeaksStep ==
    ASSUME Inv, NEW r \in Deletes, at[r] \in Inside, Leaks(r),
           UNCHANGED carried, faults' \in 0..MaxFaults
    PROVE  Inv'
<1>1. /\ Store /\ RequestTypes /\ Who
      /\ UNCHANGED mysql /\ Releases(r) /\ Answer(r, 500, None)
      /\ r \in Requests /\ r # None /\ r \notin Lookups \cup Updates
  BY RequestFacts DEF Inv, Leaks
<1>2. at[r] # "answered"
  BY <1>1, KeptConnection
<1>3. /\ Store' /\ Settled /\ Brings(r) /\ UNCHANGED <<db, open, pending>>
      /\ \A d \in Connections : snapshot'[d] \in {snapshot[d], db}
  BY <1>1, ReadsStore
<1>4. RequestTypes' /\ Who' /\ Alone(r) /\ on'[r] = None
  BY <1>1, <1>3, ReleaseTypes DEF Codes
<1>5. at'[r] = "answered" /\ account'[r] = None /\ reply'[r] = 500
  BY <1>1, MoveFacts DEF Codes
<1>6. Together'
  BY <1>1, <1>2, <1>3, <1>4, <1>5, QuietTogether
<1>7. Named'
  BY <1>1, <1>2, <1>3, <1>4, <1>5, QuietNamed DEF Inside
<1> QED
  BY <1>1, <1>2, <1>3, <1>4, <1>5, <1>6, <1>7, StepInv

\* Lemma: START TRANSACTION, which commits what a delete may have left open there.
LEMMA BeginStep ==
    ASSUME Inv, NEW r \in Requests, Begin(r)
    PROVE  Inv'
<1>1. /\ Store /\ StoreTypes /\ RequestTypes /\ Who
      /\ r \in InTransaction /\ at[r] = "new" /\ Goto(r, "begun") /\ UNCHANGED <<faults, carried>>
  BY DEF Inv, Store, Begin, NoFault
<1>2. PICK c \in Connections : /\ Free(c)
                               /\ db' = Current(c)
                               /\ open' = open \cup {c}
                               /\ pending' = [pending EXCEPT ![c] = <<>>]
                               /\ snapshot' = [snapshot EXCEPT ![c] = None]
                               /\ on' = [on EXCEPT ![r] = c]
  BY DEF Begin
<1>3. /\ Store' /\ Settled /\ Brings(r)
      /\ \A d \in Connections \ {c} : pending'[d] = pending[d]
      /\ DOMAIN pending'[c] = {}
      /\ \A d \in Connections : snapshot'[d] \in {snapshot[d], None}
      /\ \A k \in DOMAIN pending[c] : db'[k] = pending[c][k]
      /\ \A k \in Rows \ DOMAIN pending[c] : db'[k] = db[k]
  <2>1. db' = IF TRUE THEN Current(c) ELSE db
    BY <1>2
  <2> QED
    BY <1>1, <1>2, <2>1, EndsStore
<1>4. /\ at' \in [Requests -> Places] /\ at'[r] = "begun" /\ UNCHANGED <<reply, account>>
      /\ \A q \in Requests \ {r} : at'[q] = at[q]
  BY <1>1, MoveFacts DEF Places
<1>5. /\ on'[r] = c /\ c # None
      /\ \A q \in Requests \ {r} : on'[q] = on[q] /\ on[q] # c
  BY <1>1, <1>2, RequestFacts DEF RequestTypes, Free
<1>6. RequestTypes' /\ Alone(r)
  <2>1. on' \in [Requests -> open' \cup {None}]
    BY <1>1, <1>2 DEF RequestTypes
  <2>2. \A p, q \in Requests : on'[p] = on'[q] /\ p # q => on'[p] = None
    BY <1>1, <1>5 DEF RequestTypes
  <2> QED
    BY <1>1, <1>4, <1>5, <2>1, <2>2 DEF RequestTypes, Alone, Past
<1>7. Who'
  BY <1>1, <1>4, <1>5 DEF Who, Inside
<1>8. \A q \in Requests \ {r} : on[q] # None => pending'[on[q]] = pending[on[q]]
  BY <1>1, <1>3, <1>5 DEF RequestTypes, StoreTypes
<1>9. account'[r] = r => db'[Member(r)] = r \/ r \in carried'
  <2>1. account[r] = r => db[Member(r)] = r \/ r \in carried
    BY DEF Inv, Kept
  <2>2. r \notin Replaceable /\ Member(r) \in Emailed
    BY RequestFacts, RowFacts DEF Replaceable
  <2> QED
    BY <1>1, <1>3, <1>4, <2>1, <2>2 DEF Settled
<1>10. \A d \in open' : Free(d)' => d \in open /\ Free(d)
  <2>1. on[r] = None
    BY <1>1 DEF Who, Inside
  <2>2. \A d \in open : d # None
    BY <1>1, RequestFacts DEF StoreTypes
  <2> QED
    BY <1>2, <1>5, <2>1, <2>2 DEF Free
<1>11. r \notin Lookups
  BY <1>1, RequestFacts
<1>12. Together'
  <2>1. /\ on[r] = None /\ \A q \in Requests : on[q] # c
        /\ \A u \in Updates : on[u] # c
    BY <1>1, <1>2, RequestFacts DEF Who, Inside, Free
  <2>2. \A x \in Existing : /\ PendingOf(c, x, Member(x), Details(x))'
                            /\ TogetherOf(x, Member(x), Details(x))'
    BY <1>1, <1>2, <1>3, <1>6, <2>1, AnswersStay, EndTogether
  <2>3. ErasesBoth(r, Member(r), Details(TargetOf[r]))'
    BY <1>4 DEF ErasesBoth
  <2>4. \A b \in Connections \ {c} : \A k \in DOMAIN pending[b] : db'[k] = db[k]
    BY <1>1, <1>3 DEF Store, StoreTypes, Exclusive
  <2>5. \A b \in Connections \ {c}, x \in Existing :
           Pends(b, Details(x), x) /\ db[Member(x)] = x => db'[Member(x)] = x
    BY <1>3, CommitElsewhere
  <2> QED
    BY <1>1, <1>2, <1>3, <1>6, <2>1, <2>2, <2>3, <2>4, <2>5, TogetherStep
<1>13. Named'
  <2>1. on[r] = None /\ \A q \in Requests : on[q] # c
    BY <1>1, <1>2 DEF Who, Inside, Free
  <2>2. on[r] # c
    BY <2>1
  <2> QED
    BY <1>1, <1>3, <1>4, <1>6, <2>1, <2>2, EndNamed
<1> QED
  BY <1>1, <1>3, <1>4, <1>6, <1>7, <1>8, <1>9, <1>10, <1>11, <1>12, <1>13, StepInv

\* A write on c keeps the order of PendingOf: whoever takes a member away has erased its
\* details, and details are replaced under a member.
Orderly(r, c, k, id, place) ==
    /\ \A x \in Existing : k = Member(x) =>
          IF id = x THEN r \in Updates /\ TargetOf[r] = x /\ place # "wrote"
                    ELSE Current(c)[k] # x \/ Pends(c, Details(x), None)
    /\ \A x \in Existing : k = Details(x) =>
          /\ TargetOf[r] = x
          /\ \/ id = None /\ r \in Deletes
             \/ /\ id = None /\ r \in Updates /\ place = "wrote"
                /\ ListsOf[r] # "replaced" \/ Current(c)[Member(x)] # x
             \/ id = x /\ Current(c)[Member(x)] = x
    /\ r \in Updates /\ place = "wrote" => k = Details(TargetOf[r])
    /\ r \in Deletes => /\ id = None
                        /\ \/ place = "erased" /\ k = Details(TargetOf[r])
                           \/ place = "wrote" /\ k = Member(r) /\ at[r] = "erased"

\* Lemma: a write in a transaction of one's own keeps Together.
LEMMA OwnTogether ==
    ASSUME Inv, NEW r \in Requests, at[r] \in Inside, r \in Updates => at[r] # "wrote",
           Alone(r), NEW place, at'[r] = place,
           on'[r] = on[r], NEW k \in Rows, NEW id \in Ids \cup {None},
           ~Locked(on[r], k), Writes(on[r], k, id), k \in Emailed => Current(on[r])[k] \in Replaceable,
           Orderly(r, on[r], k, id, place)
    PROVE  Together'
<1> DEFINE c == on[r]
<1>1. /\ Store /\ StoreTypes /\ RequestTypes /\ Together
      /\ c \in open /\ c \in Connections
      /\ \A q \in Requests \ {r} : on[q] # c
      /\ at[r] # "answered"
  BY KeptConnection DEF Inv, Store
<1>2. /\ UNCHANGED db
      /\ \A b \in Connections \ {c} : pending'[b] = pending[b]
      /\ DOMAIN pending'[c] = DOMAIN pending[c] \cup {k}
      /\ pending'[c][k] = id
      /\ \A j \in DOMAIN pending[c] \ {k} : pending'[c][j] = pending[c][j]
  BY <1>1, WritesStore
<1>3. /\ \A e \in Deletes : reply[e] = 500 => reply'[e] = 500
      /\ \A x \in Existing : MayBeBare(x) => MayBeBare(x)'
  BY <1>1, AnswersStay
<1>4. \A q \in Requests : on'[q] = on[q]
  BY DEF Alone
<1>5. ASSUME NEW x \in Existing
      PROVE  PendingOf(c, x, Member(x), Details(x))'
  <2> DEFINE m == Member(x)
             d == Details(x)
  <2>1. /\ PendingOf(c, x, m, d) /\ TogetherOf(x, m, d)
        /\ m \in Rows /\ d \in Rows /\ m # d /\ x # None
    BY <1>1, RequestFacts, RowFacts DEF Together
  <2>2. Current(c)[m] = x <=> Holds(c, m, x)
    BY <1>1, <2>1, CurrentFacts DEF Holds
  <2>3. /\ k = m => IF id = x THEN r \in Updates /\ TargetOf[r] = x /\ place # "wrote"
                               ELSE ~Holds(c, m, x) \/ Pends(c, d, None)
        /\ k = d => /\ TargetOf[r] = x
                    /\ \/ id = None /\ r \in Deletes
                       \/ /\ id = None /\ r \in Updates /\ place = "wrote"
                          /\ ListsOf[r] # "replaced" \/ ~Holds(c, m, x)
                       \/ id = x /\ Holds(c, m, x)
        /\ r \in Updates /\ place = "wrote" /\ TargetOf[r] = x => k = d
    BY <2>2 DEF Orderly
  <2>4. /\ \A u \in Updates : u \in Requests /\ u \notin Deletes /\ (on[u] = c => u = r)
        /\ \A e \in Deletes : e \in Requests
    BY <1>1, RequestFacts
  <2> HIDE DEF m, d
  <2> DEFINE p == pending[c]
             n == pending'[c]
  <2>5. /\ k # m => /\ m \in DOMAIN n <=> m \in DOMAIN p
                    /\ m \in DOMAIN p => n[m] = p[m]
        /\ k # d => /\ d \in DOMAIN n <=> d \in DOMAIN p
                    /\ d \in DOMAIN p => n[d] = p[d]
    BY <1>2
  <2>6. (m \in DOMAIN n /\ n[m] # x /\ db[m] = x) => (d \in DOMAIN n /\ n[d] = None)
    BY <1>2, <2>1, <2>3, <2>5 DEF PendingOf, Pends, Holds
  <2>7. d \in DOMAIN n => \/ n[d] = None
                          \/ n[d] = x /\ (IF m \in DOMAIN n THEN n[m] = x ELSE db[m] = x)
    BY <1>2, <2>1, <2>3, <2>5 DEF PendingOf, Pends, Holds
  <2>8. ASSUME m \in DOMAIN n, n[m] = x, db[m] # x
        PROVE  \E u \in Updates : /\ TargetOf[u] = x /\ on[u] = c
                                  /\ at'[u] = "wrote" => \/ d \in DOMAIN n /\ n[d] = x
                                                        \/ ListsOf[u] # "replaced"
    <3>1. CASE k = m
      BY <1>2, <2>3, <2>8, <3>1
    <3>2. CASE k # m
      <4>1. /\ m \in DOMAIN p /\ p[m] = x
            /\ \E u \in Updates : TargetOf[u] = x /\ on[u] = c
        BY <2>1, <2>5, <2>8, <3>2 DEF PendingOf, Pends
      <4>2. r \in Updates /\ TargetOf[r] = x
        BY <2>4, <4>1
      <4>3. place = "wrote" => (d \in DOMAIN n /\ n[d] = x) \/ ListsOf[r] # "replaced"
        BY <1>2, <2>1, <2>3, <2>4, <4>1, <4>2 DEF Holds
      <4> QED
        BY <4>2, <4>3
    <3> QED
      BY <3>1, <3>2
  <2>9. ASSUME d \in DOMAIN n, n[d] = None
        PROVE  \/ \E e \in Deletes : TargetOf[e] = x /\ (on[e] = c \/ reply'[e] = 500)
               \/ \E u \in Updates : Bares(u, c, x, m, d)'
    <3>1. ASSUME Pends(c, d, None), r \in Updates \/ k # d
          PROVE  \E e \in Deletes : TargetOf[e] = x /\ (on[e] = c \/ reply'[e] = 500)
      <4>1. \A u \in Updates : ~Bares(u, c, x, m, d)
        BY <2>4 DEF Bares
      <4> QED
        BY <1>3, <2>1, <3>1, <4>1 DEF PendingOf
    <3>2. CASE k = d /\ r \notin Updates
      BY <1>2, <2>1, <2>3, <2>9, <3>2
    <3>3. CASE k = d /\ r \in Updates /\ ~Pends(c, d, None)
      <4>1. /\ TargetOf[r] = x /\ place = "wrote" /\ r \notin Deletes
            /\ ListsOf[r] # "replaced" \/ ~Holds(c, m, x)
        BY <1>2, <2>1, <2>3, <2>4, <2>9, <3>3
      <4>2. ~Holds(c, m, x) => db[d] # x /\ ~Pends(c, m, x)'
        BY <1>2, <2>1, <2>5, <3>3 DEF Holds, Pends, PendingOf, TogetherOf
      <4>3. Bares(r, c, x, m, d)'
        BY <1>2, <1>4, <4>1, <4>2 DEF Bares
      <4> QED
        BY <3>3, <4>3
    <3>4. CASE k # d
      BY <2>5, <2>9, <3>1, <3>4 DEF Pends
    <3> QED
      BY <3>1, <3>2, <3>3, <3>4
  <2>10. PendingOf(c, x, m, d)'
    BY <1>2, <1>4, <2>4, <2>6, <2>7, <2>8, <2>9 DEF PendingOf, Pends, Holds
  <2> QED
    BY <2>10 DEF m, d, Member, Details
<1>6. ASSUME NEW x \in Existing
      PROVE  TogetherOf(x, Member(x), Details(x))'
  BY <1>1, <1>2, <1>3 DEF Together, TogetherOf, Member, Details
<1>7. ASSUME r \in Deletes
      PROVE  ErasesBoth(r, Member(r), Details(TargetOf[r]))'
  <2> DEFINE m == Member(r)
             d == Details(TargetOf[r])
  <2>1. /\ ErasesBoth(r, m, d) /\ m # d /\ TargetOf[r] # None
        /\ id = None
        /\ \/ place = "erased" /\ k = d
           \/ place = "wrote" /\ k = m /\ at[r] = "erased"
    BY <1>1, <1>7, RequestFacts, RowFacts DEF Together, Orderly
  <2> HIDE DEF m, d
  <2>2. ErasesBoth(r, m, d)'
    BY <1>2, <1>4, <2>1 DEF ErasesBoth, Pends
  <2> QED
    BY <2>2 DEF m, d, Member, Details
<1> QED
  BY <1>1, <1>2, <1>5, <1>6, <1>7, TogetherStep

\* A step on c that writes nothing and goes to place.
Quiet(r, c, place) ==
    /\ UNCHANGED mysql \/ Selects(c)
    /\ place # "erased"
    /\ place = "wrote" => r \in Updates /\ ListsOf[r] # "replaced"

\* Lemma: a step inside a transaction that writes a row or only reads.
LEMMA InsideStep ==
    ASSUME Inv, NEW r \in Requests, at[r] \in Inside, NEW place \in Inside \ {"begun"},
           r \in Updates => at[r] # "wrote",
           Goto(r, place), UNCHANGED <<on, carried, faults>>,
           place = "wrote" => r \in InTransaction,
           place \in {"ready", "mirroring", "updated"} => r \in Updates,
           place = "erased" => r \in Deletes,
           NEW k \in Rows, NEW id \in Ids \cup {None},
           \/ Quiet(r, on[r], place)
           \/ /\ ~Locked(on[r], k) /\ Writes(on[r], k, id)
              /\ k \in Emailed => Current(on[r])[k] \in Replaceable
              /\ id = r \/ id \notin Lookups
              /\ Orderly(r, on[r], k, id, place) /\ Plain(r, on[r], k, id)
              /\ r \in Signups => id = r /\ k = Member(r)
    PROVE  Inv'
<1> DEFINE c == on[r]
<1>1. /\ Store /\ RequestTypes /\ Who
  BY DEF Inv
<1>2. /\ c \in open /\ c \in Connections
      /\ \A q \in Requests \ {r} : on[q] # c /\ (on[q] # None => on[q] \in Connections)
      /\ at[r] # "answered" /\ r \notin Lookups
  <2>1. r \notin Lookups
    BY <1>1, RequestFacts DEF Who, Inside
  <2> QED
    BY <2>1, KeptConnection
<1>3. /\ at'[r] = place /\ UNCHANGED <<reply, account>>
  BY <1>1, MoveFacts DEF Places, Inside
<1>4. \/ Quiet(r, c, place)
      \/ /\ ~Locked(c, k) /\ Writes(c, k, id)
         /\ k \in Emailed => Current(c)[k] \in Replaceable
         /\ Orderly(r, c, k, id, place) /\ Plain(r, c, k, id)
         /\ id = r \/ id \notin Lookups
         /\ r \in Signups => id = r /\ k = Member(r)
  OBVIOUS
<1>5. /\ Store' /\ Settled /\ Brings(r) /\ UNCHANGED open
      /\ \A d \in Connections \ {c} : pending'[d] = pending[d]
  <2>1. CASE Quiet(r, c, place)
    BY <1>1, <1>2, <2>1, ReadsStore DEF Quiet
  <2>2. CASE /\ ~Locked(c, k) /\ Writes(c, k, id)
             /\ k \in Emailed => Current(c)[k] \in Replaceable
             /\ id = r \/ id \notin Lookups
    BY <1>1, <1>2, <2>2, WritesStore DEF Brings
  <2> QED
    BY <1>4, <2>1, <2>2
<1>6. r \in Signups /\ place = "wrote" =>
         Member(r) \in DOMAIN pending'[c] /\ pending'[c][Member(r)] = r
  <2>1. r \in Signups /\ place = "wrote" => ~Quiet(r, c, place)
    BY RequestFacts DEF Quiet
  <2> QED
    BY <1>1, <1>2, <1>4, <2>1, WritesStore
<1>7. RequestTypes' /\ Who' /\ Alone(r)
  BY <1>1, <1>2, <1>5, StayTypes DEF Places, Inside, RequestTypes
<1>8. account'[r] = r => db'[Member(r)] = r \/ r \in carried'
  <2>1. account[r] = r => db[Member(r)] = r \/ r \in carried
    BY DEF Inv, Kept
  <2>2. r \notin Replaceable /\ Member(r) \in Emailed
    BY RequestFacts, RowFacts DEF Replaceable
  <2> QED
    BY <1>3, <1>5, <2>1, <2>2 DEF Settled
<1>9. \A d \in open' : Free(d)' => d \in open /\ Free(d)
  BY <1>5 DEF Free
<1>10. Together'
  <2>1. CASE Quiet(r, c, place)
    <3>1. UNCHANGED <<db, pending>>
      BY <1>1, <1>2, <2>1, ReadsStore DEF Quiet
    <3> QED
      BY <1>2, <1>3, <1>7, <2>1, <3>1, QuietTogether DEF Quiet
  <2>2. CASE /\ ~Locked(c, k) /\ Writes(c, k, id)
             /\ k \in Emailed => Current(c)[k] \in Replaceable
             /\ Orderly(r, c, k, id, place)
    BY <1>3, <1>7, <2>2, OwnTogether
  <2> QED
    BY <1>4, <2>1, <2>2
<1>11. Named'
  <2>1. CASE Quiet(r, c, place)
    <3>1. /\ UNCHANGED <<db, pending>>
          /\ \A d \in Connections : snapshot'[d] \in {snapshot[d], db}
      BY <1>1, <1>2, <2>1, ReadsStore DEF Quiet
    <3> QED
      BY <1>2, <1>3, <1>7, <3>1, QuietNamed DEF Inside
  <2>2. CASE /\ ~Locked(c, k) /\ Writes(c, k, id)
             /\ k \in Emailed => Current(c)[k] \in Replaceable
             /\ Plain(r, c, k, id)
    <3>1. r \in InTransaction
      BY <1>1, RequestFacts DEF Who, Inside
    <3> QED
      BY <1>3, <1>7, <2>2, <3>1, OwnNamed
  <2> QED
    BY <1>4, <2>1, <2>2
<1> QED
  BY <1>2, <1>3, <1>5, <1>6, <1>7, <1>8, <1>9, <1>10, <1>11, StepInv

\* Lemma: a step of a request that keeps no connection and only reads.
LEMMA OutsideReadStep ==
    ASSUME Inv, NEW r \in Requests, at[r] \notin Inside \cup {"answered", "crashed"},
           UNCHANGED <<on, carried>>, faults' \in 0..MaxFaults,
           UNCHANGED mysql \/ \E c \in Connections : Selects(c),
           \/ \E place \in {"unknown", "signup", "duplicate"} : r \in Lookups /\ Goto(r, place)
           \/ \E code \in Codes, id \in Ids \cup {None} :
                 /\ Answer(r, code, id) /\ id # r
                 /\ at[r] = "gone" => code = 200
                 /\ id \in {None, db[Member(r)], db[Recruiter(r)]} \/ Excused(EmailOf[r])
    PROVE  Inv'
<1>1. /\ Store /\ RequestTypes /\ Who /\ Fresh
      /\ carried' \in SUBSET Requests
  BY DEF Inv, RequestTypes
<1>2. /\ Store' /\ Settled /\ UNCHANGED <<db, open, pending>>
      /\ \A x : Brings(x)
      /\ \A d \in Connections : snapshot'[d] \in {snapshot[d], db}
  BY <1>1, ReadsStore
<1>3. RequestTypes' /\ Who' /\ Alone(r)
  BY <1>1, <1>2, StayTypes DEF Places, Inside
<1>4. \/ /\ at'[r] \in {"unknown", "signup", "duplicate"} /\ account'[r] = account[r]
         /\ r \in Lookups
      \/ /\ at'[r] = "answered" /\ account'[r] # r
         /\ at[r] = "gone" => reply'[r] = 200
         /\ account'[r] \in {None, db[Member(r)], db[Recruiter(r)]} \/ Excused(EmailOf[r])
  BY <1>1, MoveFacts DEF Places
<1>5. r \in Lookups => Absent(r)'
  <2>1. r # None /\ (r \in Lookups => Absent(r))
    BY <1>1, RequestFacts DEF Fresh
  <2>2. Brings(None)
    BY <1>2
  <2> QED
    BY <2>1, <2>2 DEF Brings
<1>6. account'[r] = r => db'[Member(r)] = r \/ r \in carried'
  BY <1>2, <1>4 DEF Inv, Kept
<1>7. \A d \in open' : Free(d)' => d \in open /\ Free(d)
  BY <1>2 DEF Free
<1>8. r \notin Signups \/ at'[r] # "wrote"
  BY <1>4
<1>9. Together'
  BY <1>2, <1>3, <1>4, QuietTogether DEF Inside
<1>10. Named'
  <2>1. at[r] = "gone" => r \notin Lookups
    BY <1>1, RequestFacts DEF Who
  <2> QED
    BY <1>2, <1>3, <1>4, <2>1, QuietNamed
<1> QED
  BY <1>2, <1>3, <1>5, <1>6, <1>7, <1>8, <1>9, <1>10, StepInv

\* Lemma: an INSERT of a new account keeps Together, in whichever transaction it lands.
LEMMA CreateTogether ==
    ASSUME Inv, NEW r \in Requests, at[r] # "answered", Alone(r),
           at'[r] \notin {"erased", "wrote"}, on[r] = None,
           NEW c \in Connections, NEW k \in Rows, k \in {Member(r), Recruiter(r)},
           Free(c), ~Locked(c, k), Writes(c, k, r), Current(c)[k] = None
    PROVE  Together'
<1>1. /\ Store /\ StoreTypes /\ Together
      /\ r \in Ids /\ r # None /\ r \notin Existing /\ None \in Replaceable
      /\ \A q \in Requests : on[q] # c
  BY RequestFacts DEF Inv, Store, Replaceable, Free
<1>2. /\ \A b \in Connections \ {c} : pending'[b] = pending[b]
      /\ c \in open => /\ UNCHANGED db
                       /\ DOMAIN pending'[c] = DOMAIN pending[c] \cup {k}
                       /\ pending'[c][k] = r
                       /\ \A j \in DOMAIN pending[c] \ {k} : pending'[c][j] = pending[c][j]
      /\ c \notin open => /\ UNCHANGED pending /\ db'[k] = r
                          /\ \A j \in Rows \ {k} : db'[j] = db[j]
  BY <1>1, WritesStore
<1>3. /\ IF k \in DOMAIN pending[c] THEN pending[c][k] = None ELSE db[k] = None
      /\ c \notin open => DOMAIN pending[c] = {}
  BY <1>1, CurrentFacts DEF StoreTypes
<1>4. /\ \A e \in Deletes : reply[e] = 500 => reply'[e] = 500
      /\ \A x \in Existing : MayBeBare(x) => MayBeBare(x)'
  BY AnswersStay
<1>5. ASSUME NEW x \in Existing
      PROVE  /\ PendingOf(c, x, Member(x), Details(x))'
             /\ TogetherOf(x, Member(x), Details(x))'
  <2> DEFINE m == Member(x)
             d == Details(x)
  <2>1. /\ PendingOf(c, x, m, d) /\ TogetherOf(x, m, d)
        /\ m \in Rows /\ d \in Rows /\ m # d /\ k # d /\ x # None /\ x # r
    BY <1>1, RequestFacts, RowFacts DEF Together
  <2>2. /\ \A u \in Updates : on[u] # c
        /\ \A e \in Deletes : on[e] # c
    BY <1>1, RequestFacts
  <2> HIDE DEF m, d
  <2>3. CASE c \in open
    <3> DEFINE p == pending[c]
               n == pending'[c]
    <3>1. /\ d \in DOMAIN n <=> d \in DOMAIN p
          /\ d \in DOMAIN p => n[d] = p[d]
          /\ k # m => /\ m \in DOMAIN n <=> m \in DOMAIN p
                      /\ m \in DOMAIN p => n[m] = p[m]
          /\ k = m => m \in DOMAIN n /\ n[m] = r
      BY <1>2, <2>1, <2>3
    <3>2. (m \in DOMAIN n /\ n[m] # x /\ db[m] = x) => (d \in DOMAIN n /\ n[d] = None)
      BY <1>3, <2>1, <3>1 DEF PendingOf, Pends
    <3>3. d \in DOMAIN n => \/ n[d] = None
                            \/ n[d] = x /\ (IF m \in DOMAIN n THEN n[m] = x ELSE db[m] = x)
      BY <1>3, <2>1, <3>1 DEF PendingOf, Pends, Holds
    <3>4. ~(m \in DOMAIN n /\ n[m] = x /\ db[m] # x)
      BY <2>1, <2>2, <3>1 DEF PendingOf, Pends
    <3>5. d \in DOMAIN n /\ n[d] = None =>
             \E e \in Deletes : TargetOf[e] = x /\ reply'[e] = 500
      BY <1>4, <2>1, <2>2, <3>1 DEF PendingOf, Pends, Bares
    <3>6. PendingOf(c, x, m, d)'
      BY <1>2, <2>3, <3>2, <3>3, <3>4, <3>5 DEF PendingOf, Pends, Holds
    <3>7. TogetherOf(x, m, d)'
      BY <1>2, <1>4, <2>1, <2>3 DEF TogetherOf
    <3> QED
      BY <3>6, <3>7 DEF m, d, Member, Details
  <2>4. CASE c \notin open
    <3>1. PendingOf(c, x, m, d)'
      BY <1>2, <1>3, <2>4 DEF PendingOf, Pends
    <3>2. TogetherOf(x, m, d)'
      BY <1>2, <1>3, <1>4, <2>1, <2>4 DEF TogetherOf
    <3> QED
      BY <3>1, <3>2 DEF m, d, Member, Details
  <2> QED
    BY <2>3, <2>4
<1>6. \A b \in Connections \ {c} : \A j \in DOMAIN pending[b] : db'[j] = db[j]
  BY <1>1, <1>2 DEF Locked, StoreTypes
<1>7. \A b \in Connections \ {c}, x \in Existing :
         Pends(b, Details(x), x) /\ db[Member(x)] = x => db'[Member(x)] = x
  BY <1>1, <1>2, <1>3, RequestFacts, RowFacts
<1>8. ErasesBoth(r, Member(r), Details(TargetOf[r]))'
  BY DEF ErasesBoth
<1> QED
  BY <1>1, <1>2, <1>5, <1>6, <1>7, <1>8, TogetherStep

\* Lemma: an INSERT outside any transaction of its own.
LEMMA OutsideWriteStep ==
    ASSUME Inv, NEW r \in Requests, at[r] \notin Inside \cup {"gone", "answered", "crashed"},
           UNCHANGED on, faults' \in 0..MaxFaults,
           NEW c \in Connections, NEW k \in Rows,
           Uses(r, c), ~Locked(c, k), Creates(r, c, k), Current(c)[k] = None,
           \/ r \in Recruits /\ k = Recruiter(r) /\ Goto(r, "half")
           \/ k = Member(r) /\ \E code \in Codes : Answer(r, code, r)
    PROVE  Inv'
<1>1. /\ Store /\ RequestTypes /\ Who /\ on[r] = None /\ Free(c)
      /\ None \in Replaceable /\ r \in Ids
  BY RequestFacts DEF Inv, Who, Uses, Replaceable
<1>2. /\ Writes(c, k, r)
      /\ carried' = IF c \in open THEN carried \cup {r} ELSE carried
  BY <1>1 DEF Creates
<1>3. /\ Store' /\ Settled /\ Brings(r) /\ UNCHANGED open
      /\ \A d \in Connections \ {c} : pending'[d] = pending[d]
      /\ c \notin open => db'[k] = r
  BY <1>1, <1>2, WritesStore
<1>4. RequestTypes' /\ Who' /\ Alone(r)
  <2>1. carried' \in SUBSET Requests
    BY <1>1, <1>2 DEF RequestTypes
  <2> QED
    BY <1>1, <1>3, <2>1, StayTypes DEF Places, Inside
<1>5. /\ \/ /\ at'[r] = "half" /\ account'[r] = account[r] /\ r \in Recruits
            /\ k = Recruiter(r)
         \/ at'[r] = "answered" /\ k = Member(r) /\ account'[r] = r
  BY <1>1, MoveFacts DEF Places
<1>6. account'[r] = r => db'[Member(r)] = r \/ r \in carried'
  <2>1. account[r] = r => db[Member(r)] = r \/ r \in carried
    BY DEF Inv, Kept
  <2>2. r \notin Replaceable /\ Member(r) \in Emailed
    BY RequestFacts, RowFacts DEF Replaceable
  <2> QED
    BY <1>2, <1>3, <1>5, <2>1, <2>2 DEF Settled
<1>7. \A d \in open' : Free(d)' => d \in open /\ Free(d)
  BY <1>3 DEF Free
<1>8. \A q \in Requests \ {r} : on[q] # None => pending'[on[q]] = pending[on[q]]
  <2>1. ASSUME NEW q \in Requests \ {r}, on[q] # None
        PROVE  on[q] \in Connections \ {c}
    BY <1>1, <2>1 DEF Free, RequestTypes, Store, StoreTypes
  <2> QED
    BY <1>3, <2>1
<1>9. /\ carried \subseteq carried' /\ (carried' # carried => \E d \in open : Free(d))
  BY <1>1, <1>2
<1>10. /\ r \in Signups => at'[r] # "wrote"
       /\ r \in Lookups => at'[r] \in {"answered", "crashed"}
  BY <1>5, RequestFacts
<1>11. Together'
  BY <1>1, <1>2, <1>4, <1>5, CreateTogether
<1>12. Named'
  BY <1>1, <1>2, <1>4, <1>5, CreateNamed
<1> QED
  BY <1>3, <1>4, <1>6, <1>7, <1>8, <1>9, <1>10, <1>11, <1>12, StepInv

-------------------------------------------------------------------------------
\* Lemma: a COMMIT, after which a sign-up has its row.
LEMMA CommitStep ==
    ASSUME Inv, NEW r \in Requests, Commit(r)
    PROVE  Inv'
<1>0. PICK c \in Connections : c = on[r]
  BY KeptConnection DEF Commit, Inside
<1> USE <1>0
<1>1. /\ Store /\ StoreTypes /\ RequestTypes /\ Who /\ Owes
      /\ at[r] = "wrote" /\ at[r] \in Inside /\ Releases(r) /\ UNCHANGED <<carried, faults>>
      /\ db' = Current(c) /\ open' = open \ {c}
      /\ pending' = [pending EXCEPT ![c] = <<>>]
      /\ snapshot' = [snapshot EXCEPT ![c] = None]
      /\ faults' \in 0..MaxFaults
  BY DEF Inv, Store, Commit, Closes, NoFault, Inside, RequestTypes
<1>2. /\ c \in open /\ c \in Connections
      /\ \A q \in Requests \ {r} : on[q] # c /\ (on[q] # None => on[q] \in Connections)
      /\ at[r] # "answered" /\ r \notin Lookups /\ r # None /\ r \in Ids
  BY <1>1, KeptConnection, RequestFacts DEF Who
<1>3. /\ Store' /\ Settled /\ Brings(r)
      /\ \A d \in Connections \ {c} : pending'[d] = pending[d]
      /\ DOMAIN pending'[c] = {}
      /\ \A d \in Connections : snapshot'[d] \in {snapshot[d], None}
      /\ \A k \in DOMAIN pending[c] : db'[k] = pending[c][k]
      /\ \A k \in Rows \ DOMAIN pending[c] : db'[k] = db[k]
  <2>1. db' = IF TRUE THEN Current(c) ELSE db
    BY <1>1
  <2> QED
    BY <1>1, <1>2, <2>1, EndsStore
<1>4. \/ r \in Signups /\ Answer(r, 201, r)
      \/ r \in Updates /\ Goto(r, "stored")
      \/ r \in Deletes /\ Goto(r, "gone")
  BY DEF Commit
<1>5. RequestTypes' /\ Who' /\ Alone(r) /\ on'[r] = None
      /\ at'[r] \in {"stored", "gone", "answered"}
  BY <1>1, <1>2, <1>4, ReleaseTypes DEF Codes
<1>6. account'[r] = r => db'[Member(r)] = r \/ r \in carried'
  <2>1. CASE r \in Signups
    BY <1>1, <1>3, <2>1 DEF Owes
  <2>2. CASE Goto(r, "stored") \/ Goto(r, "gone")
    <3>1. account'[r] = account[r] /\ (account[r] = r => db[Member(r)] = r \/ r \in carried)
      BY <1>1, <2>2, MoveFacts DEF Inv, Kept, Places
    <3>2. r \notin Replaceable /\ Member(r) \in Emailed
      BY RequestFacts, RowFacts DEF Replaceable
    <3> QED
      BY <1>1, <1>3, <3>1, <3>2 DEF Settled
  <2> QED
    BY <1>4, <2>1, <2>2
<1>7. \A d \in open' : Free(d)' => d \in open /\ Free(d)
  BY <1>1, <1>5 DEF Free, Alone
<1>8. Together'
  <2>0. \A u \in Updates : on[u] = c => at'[u] = "stored"
    BY <1>1, <1>2, <1>4, RequestFacts, MoveFacts DEF Places
  <2>1. \A x \in Existing : /\ PendingOf(c, x, Member(x), Details(x))'
                            /\ TogetherOf(x, Member(x), Details(x))'
    BY <1>1, <1>2, <1>3, <1>5, <2>0, AnswersStay, EndTogether
  <2>2. ErasesBoth(r, Member(r), Details(TargetOf[r]))'
    BY <1>5 DEF ErasesBoth
  <2>3. \A b \in Connections \ {c} : \A k \in DOMAIN pending[b] : db'[k] = db[k]
    BY <1>1, <1>2, <1>3 DEF Store, StoreTypes, Exclusive
  <2>4. \A b \in Connections \ {c}, x \in Existing :
           Pends(b, Details(x), x) /\ db[Member(x)] = x => db'[Member(x)] = x
    BY <1>2, <1>3, CommitElsewhere
  <2> QED
    BY <1>1, <1>2, <1>3, <1>5, <2>1, <2>2, <2>3, <2>4, TogetherStep
<1>9. Named'
  <2>1. r \in Deletes => at'[r] = "gone"
    BY <1>1, <1>4, RequestFacts, MoveFacts DEF Places
  <2>2. account'[r] \in {account[r], db'[Member(r)]}
    <3>1. CASE r \in Signups /\ Answer(r, 201, r)
      <4>1. account'[r] = r
        BY <1>1, <1>2, <3>1, MoveFacts DEF Codes
      <4> QED
        BY <1>1, <1>3, <3>1, <4>1 DEF Owes
    <3>2. CASE Goto(r, "stored") \/ Goto(r, "gone")
      BY <1>1, <3>2, MoveFacts DEF Places
    <3> QED
      BY <1>4, <3>1, <3>2
  <2> QED
    BY <1>1, <1>2, <1>3, <1>5, <2>1, <2>2, EndNamed
<1> QED
  BY <1>1, <1>2, <1>3, <1>5, <1>6, <1>7, <1>8, <1>9, StepInv

\* Lemma: a fault stays within its bound.
LEMMA FaultTypes ==
    ASSUME RequestTypes, Fault \/ NoFault
    PROVE  faults' \in 0..MaxFaults
BY BoundsAssumption DEF RequestTypes, Fault, NoFault

\* Lemma: creations.
LEMMA CreationStep ==
    ASSUME Inv, NEW r \in Requests,
           InsertSignup(r) \/ InsertRecruiter(r) \/ InsertMirror(r) \/ InsertGoogle(r)
    PROVE  Inv'
<1>1. RequestTypes /\ Who /\ StoreTypes /\ r \in Ids /\ r # None
  BY RequestFacts DEF Inv, Store
<1>2. faults' \in 0..MaxFaults
  BY <1>1, FaultTypes DEF InsertSignup, InsertRecruiter, InsertMirror, InsertGoogle
<1>3. CASE InsertSignup(r)
  <2> DEFINE c == on[r]
  <2>1. r \in Signups /\ at[r] = "begun" /\ at[r] \in Inside /\ ~Locked(c, Member(r)) /\ UNCHANGED faults
    BY <1>3 DEF InsertSignup, Inside, NoFault
  <2>2. CASE Current(c)[Member(r)] # None
    <3>1. RollsBack(r, 409) /\ UNCHANGED carried
      BY <1>3, <2>2 DEF InsertSignup
    <3> QED
      BY <1>2, <2>1, <3>1, RollsBackStep DEF Codes
  <2>3. CASE Current(c)[Member(r)] = None
    <3>1. Creates(r, c, Member(r)) /\ Goto(r, "wrote") /\ UNCHANGED on
      BY <1>3, <2>3 DEF InsertSignup
    <3>2. Writes(c, Member(r), r) /\ UNCHANGED carried
      BY <1>1, <2>1, <3>1, KeptConnection DEF Creates
    <3>3. "wrote" \in Inside \ {"begun"} /\ None \in Replaceable /\ r \in InTransaction
      BY <2>1, RequestFacts DEF Inside, Replaceable
    <3>4. Orderly(r, c, Member(r), r, "wrote")
      <4>1. /\ r \notin Updates /\ r \notin Deletes
            /\ \A x \in Existing : r # x /\ None # x /\ Member(r) # Details(x)
        BY <1>1, <2>1, RequestFacts, RowFacts
      <4> QED
        BY <2>3, <4>1 DEF Orderly
    <3>5. Plain(r, c, Member(r), r)
      BY <2>3 DEF Plain
    <3> QED
      BY <1>1, <2>1, <2>3, <3>1, <3>2, <3>3, <3>4, <3>5, InsideStep, RowFacts
  <2> QED
    BY <2>2, <2>3
<1>4. CASE InsertRecruiter(r)
  <2>1. /\ r \in Recruits /\ at[r] = "new" /\ at[r] \notin Inside \cup {"gone", "answered", "crashed"}
        /\ UNCHANGED on
    BY <1>4 DEF InsertRecruiter, Inside
  <2>2. PICK c \in Connections :
            /\ Uses(r, c) /\ ~Locked(c, Recruiter(r))
            /\ IF Current(c)[Recruiter(r)] # None
               THEN Answer(r, 409, None) /\ UNCHANGED <<mysql, carried>>
               ELSE Creates(r, c, Recruiter(r)) /\ Goto(r, "half")
    BY <1>4 DEF InsertRecruiter
  <2>3. CASE Current(c)[Recruiter(r)] # None
    BY <1>1, <1>2, <2>1, <2>2, <2>3, OutsideReadStep DEF Codes
  <2>4. CASE Current(c)[Recruiter(r)] = None
    BY <1>1, <1>2, <2>1, <2>2, <2>4, OutsideWriteStep, RowFacts
  <2> QED
    BY <2>3, <2>4
<1>5. CASE InsertMirror(r)
  <2>1. /\ at[r] = "half" /\ at[r] \notin Inside \cup {"gone", "answered", "crashed"}
        /\ UNCHANGED on
    BY <1>5 DEF InsertMirror, Inside
  <2>2. PICK c \in Connections :
            /\ Uses(r, c) /\ ~Locked(c, Member(r))
            /\ IF Current(c)[Member(r)] # None
               THEN Answer(r, 409, None) /\ UNCHANGED <<mysql, carried>>
               ELSE Creates(r, c, Member(r)) /\ Answer(r, 201, r)
    BY <1>5 DEF InsertMirror
  <2>3. CASE Current(c)[Member(r)] # None
    BY <1>1, <1>2, <2>1, <2>2, <2>3, OutsideReadStep DEF Codes
  <2>4. CASE Current(c)[Member(r)] = None
    BY <1>1, <1>2, <2>1, <2>2, <2>4, OutsideWriteStep, RowFacts DEF Codes
  <2> QED
    BY <2>3, <2>4
<1>6. CASE InsertGoogle(r)
  <2>1. /\ at[r] = "signup" /\ at[r] \notin Inside \cup {"gone", "answered", "crashed"}
        /\ UNCHANGED on /\ r \in Lookups
    BY <1>1, <1>6 DEF InsertGoogle, Inside, Who
  <2>2. PICK c \in Connections :
            /\ Uses(r, c) /\ ~Locked(c, Member(r))
            /\ IF Current(c)[Member(r)] # None
               THEN Goto(r, "duplicate") /\ UNCHANGED <<mysql, carried>>
               ELSE Creates(r, c, Member(r)) /\ Answer(r, 200, r)
    BY <1>6 DEF InsertGoogle
  <2>3. CASE Current(c)[Member(r)] # None
    BY <1>1, <1>2, <2>1, <2>2, <2>3, OutsideReadStep
  <2>4. CASE Current(c)[Member(r)] = None
    BY <1>1, <1>2, <2>1, <2>2, <2>4, OutsideWriteStep, RowFacts DEF Codes
  <2> QED
    BY <2>3, <2>4
<1> QED
  BY <1>3, <1>4, <1>5, <1>6

\* Lemma: logins and the read that ends an update: whoever is found has been there before.
LEMMA LookStep ==
    ASSUME Inv, NEW r \in Requests,
           LookMember(r) \/ LookRecruiter(r) \/ Refetch(r) \/ Reread(r)
    PROVE  Inv'
<1>1. RequestTypes /\ Who /\ StoreTypes /\ Fresh /\ r # None /\ UNCHANGED <<on, carried>>
  BY RequestFacts DEF Inv, Store, LookMember, LookRecruiter, Refetch, Reread
<1>2. faults' \in 0..MaxFaults
  BY <1>1, FaultTypes DEF LookMember, LookRecruiter, Refetch, Reread
<1>3. /\ at[r] \notin Inside \cup {"answered", "crashed"}
      /\ r \in Lookups \/ Reread(r)
  BY <1>1 DEF LookMember, LookRecruiter, Refetch, Reread, Inside, Who
<1>4. ASSUME NEW c \in Connections, Uses(r, c), NEW table \in {"members", "recruiters"}, r \in Lookups
      PROVE  /\ Found(r, c, table) \in Ids \cup {None} /\ Found(r, c, table) # r
             /\ \/ Found(r, c, table) \in {None, db[Member(r)], db[Recruiter(r)]}
                \/ Excused(EmailOf[r])
  <2>1. <<table, EmailOf[r]>> \in Rows
    BY RequestsAssumption DEF Rows, Ids
  <2>2. Absent(r)
    BY <1>1, <1>3, <1>4 DEF Fresh
  <2>3. View(c) \in Contents /\ \A k \in Rows : View(c)[k] # r
    BY <1>1, <2>2, CurrentFacts
  <2>4. ASSUME ~Excused(EmailOf[r])
        PROVE  Found(r, c, table) \in {None, db[Member(r)], db[Recruiter(r)]}
    <3>1. Free(c)
      BY <1>1, <1>3, <1>4, RequestFacts DEF Who, Uses
    <3>2. /\ EmailOf[r] \in Emails /\ r \in Ids
          /\ Member(r) = Mem(EmailOf[r]) /\ Recruiter(r) = Rec(EmailOf[r])
      BY RequestFacts, EmailFacts
    <3>3. NamedOf(EmailOf[r], Member(r), Recruiter(r))
      BY <2>4, <3>2 DEF Inv, Named
    <3>4. Member(r) \notin DOMAIN pending[c] /\ Recruiter(r) \notin DOMAIN pending[c]
      BY <3>1, <3>3, RequestFacts DEF NamedOf, Free
    <3>5. PICK k \in Rows : k = <<table, EmailOf[r]>> /\ k \in {Member(r), Recruiter(r)}
      BY <2>1 DEF Member, Recruiter
    <3>6. k \notin DOMAIN pending[c] /\ (snapshot[c] # None => snapshot[c][k] \in {None, db[k]})
      BY <3>3, <3>4, <3>5 DEF NamedOf
    <3>7. Found(r, c, table) = IF snapshot[c] = None THEN db[k] ELSE snapshot[c][k]
      BY <3>5, <3>6 DEF Found, View, Over
    <3> QED
      BY <3>5, <3>6, <3>7
  <2> QED
    BY <2>1, <2>3, <2>4 DEF Found, Contents
<1>5. \E c \in Connections :
         /\ Selects(c)
         /\ \/ \E place \in {"unknown", "signup", "duplicate"} : r \in Lookups /\ Goto(r, place)
            \/ \E code \in Codes, id \in Ids \cup {None} :
                  /\ Answer(r, code, id) /\ id # r
                  /\ id \in {None, db[Member(r)], db[Recruiter(r)]} \/ Excused(EmailOf[r])
  <2>1. CASE LookMember(r)
    BY <1>4, <2>1 DEF LookMember, Codes
  <2>2. CASE LookRecruiter(r)
    <3>1. r \in Lookups
      BY <1>1, <2>2 DEF LookRecruiter, Who
    <3> QED
      BY <1>1, <1>4, <2>2, <3>1 DEF LookRecruiter, Codes
  <2>3. CASE Refetch(r)
    <3>1. r \in Lookups
      BY <1>1, <2>3 DEF Refetch, Who
    <3> QED
      BY <1>1, <1>4, <2>3, <3>1 DEF Refetch, Codes
  <2>4. CASE Reread(r)
    BY <1>1, <2>4 DEF Reread, Codes
  <2> QED
    BY <2>1, <2>2, <2>3, <2>4
<1>6. at[r] # "gone"
  BY DEF LookMember, LookRecruiter, Refetch, Reread
<1> QED
  BY <1>1, <1>2, <1>3, <1>5, <1>6, OutsideReadStep

\* Lemma: updates.
LEMMA UpdateStep ==
    ASSUME Inv, NEW r \in Requests,
           LookSelf(r) \/ Mirror(r) \/ UpdateMember(r) \/ ReplaceDetails(r)
    PROVE  Inv'
<1> DEFINE c == on[r]
<1>1. RequestTypes /\ Who /\ StoreTypes /\ UNCHANGED <<carried, faults>>
  BY DEF Inv, Store, LookSelf, Mirror, UpdateMember, ReplaceDetails, NoFault
<1>2. faults' \in 0..MaxFaults
  BY <1>1 DEF RequestTypes
<1>3. r \in Updates /\ at[r] \in Inside /\ at[r] # "wrote"
  BY <1>1 DEF LookSelf, Mirror, UpdateMember, ReplaceDetails, Inside, Who
<1>4. /\ TargetOf[r] \in Ids /\ TargetOf[r] \in Replaceable /\ TargetOf[r] \notin Lookups
      /\ r \in InTransaction /\ r \notin Signups /\ None \in Replaceable
      /\ Member(r) \in Rows /\ Details(TargetOf[r]) \in Rows /\ Details(TargetOf[r]) \notin Emailed
  BY <1>3, RequestFacts, RowFacts DEF Replaceable
<1>5. CASE RollsBack(r, 404) \/ RollsBack(r, 500)
  BY <1>1, <1>2, <1>3, <1>5, RollsBackStep DEF Codes
<1>6. ASSUME NEW place \in Inside \ {"begun", "erased"}, Goto(r, place), UNCHANGED on,
             NEW k \in Rows,
             NEW id \in {None, TargetOf[r]},
             \/ Quiet(r, c, place)
             \/ /\ ~Locked(c, k) /\ Writes(c, k, id)
                /\ k \in Emailed => Current(c)[k] \in Replaceable
                /\ Orderly(r, c, k, id, place) /\ Plain(r, c, k, id)
      PROVE  Inv'
  BY <1>1, <1>3, <1>4, <1>6, RequestFacts, InsideStep
<1>7. /\ \A place \in {"ready", "updated"} : Current(c)[Member(r)] \in {None, TargetOf[r]} =>
            Orderly(r, c, Member(r), TargetOf[r], place) /\ Plain(r, c, Member(r), TargetOf[r])
      /\ Current(c)[Member(r)] = TargetOf[r] =>
            /\ Orderly(r, c, Details(TargetOf[r]), TargetOf[r], "wrote")
            /\ Plain(r, c, Details(TargetOf[r]), TargetOf[r])
      /\ ListsOf[r] # "replaced" \/ Current(c)[Member(r)] # TargetOf[r] =>
            /\ Orderly(r, c, Details(TargetOf[r]), None, "wrote")
            /\ Plain(r, c, Details(TargetOf[r]), None)
  <2>1. /\ r \notin Deletes /\ Member(r) = Member(TargetOf[r])
        /\ \A x \in Existing : /\ None # x /\ Member(r) # Details(x)
                               /\ Details(TargetOf[r]) # Member(x)
                               /\ Details(TargetOf[r]) = Details(x) => TargetOf[r] = x
    BY <1>3, <1>4, RequestFacts, RowFacts
  <2> QED
    BY <1>3, <1>4, <2>1 DEF Orderly, Plain
<1>8. CASE LookSelf(r)
  BY <1>4, <1>5, <1>6, <1>8 DEF LookSelf, Quiet, Inside
<1>9. CASE Mirror(r)
  BY <1>4, <1>5, <1>6, <1>7, <1>9 DEF Mirror, Quiet, Inside
<1>10. CASE UpdateMember(r)
  BY <1>4, <1>5, <1>6, <1>7, <1>10 DEF UpdateMember, Quiet, Inside
<1>11. CASE ReplaceDetails(r)
  <2>1. CASE ListsOf[r] = "kept"
    BY <1>3, <1>4, <1>6, <1>11, <2>1 DEF ReplaceDetails, Quiet, Inside
  <2>2. CASE ListsOf[r] = "emptied"
    BY <1>4, <1>6, <1>7, <1>11, <2>2 DEF ReplaceDetails, Inside
  <2>3. CASE ListsOf[r] = "replaced"
    BY <1>4, <1>5, <1>6, <1>7, <1>11, <2>3 DEF ReplaceDetails, Inside
  <2> QED
    BY <1>3, <2>1, <2>2, <2>3, ListsAssumption
<1> QED
  BY <1>8, <1>9, <1>10, <1>11

\* Lemma: deletes.
LEMMA DeleteStep ==
    ASSUME Inv, NEW r \in Requests, EraseDetails(r) \/ EraseMember(r)
    PROVE  Inv'
<1> DEFINE c == on[r]
<1>1. RequestTypes /\ Who /\ StoreTypes /\ UNCHANGED <<carried, faults>>
  BY DEF Inv, Store, EraseDetails, EraseMember, NoFault
<1>2. faults' \in 0..MaxFaults
  BY <1>1 DEF RequestTypes
<1>3. r \in Deletes /\ at[r] \in Inside
  BY <1>1 DEF EraseDetails, EraseMember, Inside, Who
<1>4. /\ TargetOf[r] \in Ids /\ TargetOf[r] \in Replaceable /\ None \notin Lookups
      /\ r \in InTransaction /\ r \notin Signups /\ r \notin Updates
      /\ Member(r) \in Rows /\ Details(TargetOf[r]) \in Rows /\ Details(TargetOf[r]) \notin Emailed
  BY <1>3, RequestFacts, RowFacts DEF Replaceable
<1>5. ASSUME NEW place \in {"erased", "wrote"}, Goto(r, place), UNCHANGED on,
             NEW k \in Rows, ~Locked(c, k), Writes(c, k, None),
             k \in Emailed => Current(c)[k] \in Replaceable,
             Orderly(r, c, k, None, place), Plain(r, c, k, None)
      PROVE  Inv'
  BY <1>1, <1>3, <1>4, <1>5, InsideStep DEF Inside
<1>6. CASE EraseDetails(r)
  <2>1. Orderly(r, c, Details(TargetOf[r]), None, "erased")
    BY <1>3, <1>4, RequestFacts, RowFacts DEF Orderly
  <2>2. Plain(r, c, Details(TargetOf[r]), None)
    BY <1>4 DEF Plain
  <2> QED
    BY <1>4, <1>5, <1>6, <2>1, <2>2 DEF EraseDetails
<1>7. CASE EraseMember(r)
  <2>1. CASE RollsBack(r, 404)
    BY <1>1, <1>2, <1>3, <2>1, RollsBackStep DEF Codes
  <2>2. CASE Leaks(r)
    BY <1>1, <1>2, <1>3, <2>2, LeaksStep
  <2>3. CASE Current(c)[Member(r)] = TargetOf[r] /\ at[r] = "erased"
    <3>1. Pends(c, Details(TargetOf[r]), None)
      BY <1>3, <2>3 DEF Inv, Together, ErasesBoth
    <3>2. Orderly(r, c, Member(r), None, "wrote")
      BY <1>3, <1>4, <2>3, <3>1, RequestFacts, RowFacts DEF Orderly
    <3>3. Plain(r, c, Member(r), None)
      BY <1>3 DEF Plain
    <3> QED
      BY <1>4, <1>5, <1>7, <2>1, <2>2, <2>3, <3>2, <3>3 DEF EraseMember
  <2> QED
    BY <1>7, <2>1, <2>2, <2>3 DEF EraseMember
<1> QED
  BY <1>6, <1>7

\* Lemma: the answer of a delete that has committed.
LEMMA DeletedStep ==
    ASSUME Inv, NEW r \in Requests, Deleted(r)
    PROVE  Inv'
<1>1. /\ RequestTypes /\ r # None
      /\ at[r] \notin Inside \cup {"answered", "crashed"}
      /\ UNCHANGED <<mysql, on, carried, faults>> /\ Answer(r, 200, None)
  BY RequestFacts DEF Inv, Deleted, NoFault, Inside
<1>2. faults' \in 0..MaxFaults
  BY <1>1 DEF RequestTypes
<1> QED
  BY <1>1, <1>2, OutsideReadStep DEF Codes

\* Lemma: statements that raise, time out or are the victim of a deadlock.
LEMMA ErrorStep ==
    ASSUME Inv, NEW r \in Requests, Fails(r) \/ TimesOut(r) \/ Deadlock(r)
    PROVE  Inv'
<1>1. RequestTypes /\ Who /\ UNCHANGED carried /\ r # None
  BY RequestFacts DEF Inv, Fails, TimesOut, Deadlock
<1>2. faults' \in 0..MaxFaults
  BY <1>1, FaultTypes DEF Fails, TimesOut, Deadlock
<1>3. CASE Deadlock(r)
  <2>1. at[r] \in Inside /\ RollsBack(r, 500)
    BY <1>1, <1>3 DEF Deadlock, Who
  <2> QED
    BY <1>1, <1>2, <2>1, RollsBackStep DEF Codes
<1>4. CASE Fails(r) \/ TimesOut(r)
  <2>1. Catches(r)
    BY <1>4 DEF Fails, TimesOut
  <2>2. at[r] \notin {"gone", "answered", "crashed"} /\ (at[r] = "new" => r \in Recruits)
    <3>1. CASE Fails(r)
      BY <3>1 DEF Fails, InFlight
    <3>2. CASE TimesOut(r)
      <4>1. Needs(r) # {}
        BY <3>2 DEF TimesOut, WaitsFor
      <4> QED
        BY <4>1 DEF Needs
    <3> QED
      BY <1>4, <3>1, <3>2
  <2>3. CASE r \in Deletes
    <3>1. at[r] \in Places /\ r \notin Updates \cup Lookups \cup Recruits
      BY <1>1, <2>3, RequestFacts DEF RequestTypes
    <3>2. at[r] \in Inside /\ Leaks(r)
      BY <1>1, <2>1, <2>2, <2>3, <3>1 DEF Catches, Who, Inside, Places
    <3> QED
      BY <1>1, <1>2, <2>3, <3>2, LeaksStep
  <2>4. CASE r \notin Deletes /\ on[r] # None
    <3>1. at[r] \in Inside /\ RollsBack(r, 500)
      BY <1>1, <2>1, <2>4 DEF Catches, Who
    <3> QED
      BY <1>1, <1>2, <3>1, RollsBackStep DEF Codes
  <2>5. CASE r \notin Deletes /\ on[r] = None
    <3>1. Answer(r, 500, None) /\ UNCHANGED <<mysql, on>>
      BY <2>1, <2>5 DEF Catches
    <3>2. at[r] \notin Inside \cup {"answered", "crashed"}
      BY <1>1, <2>2, <2>5 DEF Who
    <3> QED
      BY <1>1, <1>2, <2>2, <3>1, <3>2, OutsideReadStep DEF Codes
  <2> QED
    BY <2>3, <2>4, <2>5
<1> QED
  BY <1>3, <1>4

\* Lemma: a restart loses every open transaction.
LEMMA RestartStep ==
    ASSUME Inv, Restart
    PROVE  Inv'
<1>1. /\ StoreTypes /\ RequestTypes /\ Who /\ Kept /\ Blamable /\ Fresh
      /\ UNCHANGED <<db, reply, account, carried>>
      /\ open' = {}
      /\ pending' = [c \in Connections |-> <<>>]
      /\ snapshot' = [c \in Connections |-> None]
      /\ on' = [r \in Requests |-> None]
      /\ at' = [r \in Requests |-> IF InFlight(r) THEN "crashed" ELSE at[r]]
  BY DEF Inv, Store, Restart
<1>2. faults' \in 0..MaxFaults
  BY <1>1, FaultTypes DEF Restart
<1>3. \A c \in Connections : DOMAIN pending'[c] = {} /\ snapshot'[c] = None
  BY <1>1
<1>4. Store'
  BY <1>1, <1>3 DEF Store, StoreTypes, Exclusive, Guarded
<1>5. /\ at' \in [Requests -> Places]
      /\ \A r \in Requests : /\ at'[r] \in {"new", "answered", "crashed"}
                             /\ at[r] = "answered" => at'[r] = "answered"
                             /\ at'[r] = "new" => at[r] = "new"
  BY <1>1 DEF RequestTypes, InFlight, Places
<1>6. RequestTypes'
  BY <1>1, <1>2, <1>5 DEF RequestTypes
<1>7. Who' /\ Owes'
  BY <1>1, <1>5, RequestFacts DEF Who, Owes, Inside, InTransaction
<1>8. Fresh'
  <2>1. ASSUME NEW r \in Lookups, at'[r] \notin {"answered", "crashed"}
        PROVE  Absent(r)'
    <3>1. Absent(r)
      BY <1>1, <1>5, <2>1, RequestFacts DEF Fresh
    <3> QED
      BY <1>1, <1>3, <3>1 DEF Absent
  <2> QED
    BY <2>1 DEF Fresh
<1>9. Left' /\ Kept' /\ Blamable'
  BY <1>1 DEF Left, Kept, Blamable, Member
<1>10. Together'
  <2>1. \A c \in Connections, k \in Rows : k \notin DOMAIN pending'[c]
    BY <1>3
  <2>2. \A x \in Existing : Member(x) \in Rows /\ Details(x) \in Rows
    BY RequestFacts, RowFacts
  <2>3. ASSUME NEW c \in Connections, NEW x \in Existing
        PROVE  PendingOf(c, x, Member(x), Details(x))'
    BY <2>1, <2>2 DEF PendingOf, Pends, Member, Details
  <2>4. ASSUME NEW e \in Deletes
        PROVE  ErasesBoth(e, Member(e), Details(TargetOf[e]))'
    BY <1>5, RequestFacts DEF ErasesBoth
  <2>5. ASSUME NEW x \in Existing
        PROVE  TogetherOf(x, Member(x), Details(x))'
    <3>1. MayBeBare(x) => MayBeBare(x)'
      BY <1>1, RequestFacts DEF MayBeBare, InFlight, RequestTypes
    <3> QED
      BY <1>1, <3>1 DEF Inv, Together, TogetherOf, Member, Details
  <2> QED
    BY <2>3, <2>4, <2>5 DEF Together
<1>11. Named'
  <2>1. SUFFICES ASSUME NEW e \in Emails, ~Excused(e)'
                 PROVE  NamedOf(e, Mem(e), Rec(e))'
    BY DEF Named, Mem, Rec
  <2>2. \A d \in Deletes : at[d] \in {"gone", "crashed"} => at'[d] = "crashed"
    BY <1>1, RequestFacts DEF InFlight, RequestTypes
  <2>3. ~Excused(e)
    BY <1>1, <2>1, <2>2 DEF Excused, MayBeGone
  <2>4. NamedOf(e, Mem(e), Rec(e))
    BY <2>3 DEF Inv, Named
  <2> QED
    BY <1>1, <1>3, <2>4 DEF NamedOf, Mem, Rec
<1> QED
  BY <1>4, <1>6, <1>7, <1>8, <1>9, <1>10, <1>11 DEF Inv

-------------------------------------------------------------------------------
\* Lemma: at the start nobody who signs up or logs in here has an account.
LEMMA InitInv == Init => Inv
<1> SUFFICES ASSUME Init PROVE Inv
  OBVIOUS
<1>1. db \in Contents /\ \A k \in Rows : db[k] \in Existing \cup {None}
  <2>1. PICK unmirrored \in SUBSET (Existing \ Applied) :
          db = [k \in Rows |->
                  IF k[1] = "details"
                  THEN IF k[2] \in Existing \ unmirrored THEN k[2] ELSE None
                  ELSE LET owners == {x \in Existing : EmailOf[x] = k[2]
                                                    /\ (x \in unmirrored <=> k[1] = "recruiters")}
                       IN  IF owners = {} THEN None ELSE CHOOSE x \in owners : TRUE]
    BY DEF Init
  <2>2. ASSUME NEW k \in Rows PROVE db[k] \in Existing \cup {None}
    <3> DEFINE owners == {x \in Existing : EmailOf[x] = k[2]
                                        /\ (x \in unmirrored <=> k[1] = "recruiters")}
    <3>1. owners # {} => (CHOOSE x \in owners : TRUE) \in owners
      OBVIOUS
    <3>2. CASE k[1] = "details"
      BY <2>1, <3>2
    <3>3. CASE k[1] # "details"
      <4>1. db[k] = IF owners = {} THEN None ELSE CHOOSE x \in owners : TRUE
        BY <2>1, <3>3
      <4> QED
        BY <3>1, <4>1
    <3> QED
      BY <3>2, <3>3
  <2> QED
    BY <2>1, <2>2, RequestFacts DEF Contents
<1>2. /\ open = {}
      /\ pending = [c \in Connections |-> <<>>]
      /\ snapshot = [c \in Connections |-> None]
      /\ on = [r \in Requests |-> None]
      /\ at = [r \in Requests |-> "new"]
      /\ reply = [r \in Requests |-> 0]
      /\ account = [r \in Requests |-> None]
      /\ carried = {}
      /\ faults = 0
  BY DEF Init
<1>3. \A c \in Connections : DOMAIN pending[c] = {} /\ snapshot[c] = None
  BY <1>2
<1>4. Store
  BY <1>1, <1>2, <1>3 DEF Store, StoreTypes, Exclusive, Guarded
<1>5. RequestTypes
  <2>1. faults \in 0..MaxFaults
    BY <1>2, BoundsAssumption
  <2> QED
    BY <1>2, <2>1 DEF RequestTypes, Places
<1>6. Who /\ Owes
  BY <1>2, RequestFacts DEF Who, Owes, Inside
<1>7. Fresh
  BY <1>1, <1>3, RequestFacts DEF Fresh, Absent
<1>8. Left /\ Kept /\ Blamable
  BY <1>2, RequestFacts DEF Left, Kept, Blamable
<1>9. Together
  <2>1. PICK unmirrored \in SUBSET (Existing \ Applied) :
          /\ \A x, y \in Existing :
                EmailOf[x] = EmailOf[y] /\ (x \in unmirrored <=> y \in unmirrored) => x = y
          /\ db = [k \in Rows |->
                  IF k[1] = "details"
                  THEN IF k[2] \in Existing \ unmirrored THEN k[2] ELSE None
                  ELSE LET owners == {x \in Existing : EmailOf[x] = k[2]
                                                    /\ (x \in unmirrored <=> k[1] = "recruiters")}
                       IN  IF owners = {} THEN None ELSE CHOOSE x \in owners : TRUE]
    BY DEF Init
  <2>2. ASSUME NEW x \in Existing
        PROVE  TogetherOf(x, Member(x), Details(x))
    <3> DEFINE owners == {y \in Existing : EmailOf[y] = EmailOf[x] /\ y \notin unmirrored}
    <3>1. /\ Member(x) \in Rows /\ Member(x)[1] = "members" /\ Member(x)[2] = EmailOf[x]
          /\ Details(x) \in Rows /\ Details(x)[1] = "details" /\ Details(x)[2] = x
          /\ x # None
      BY RequestFacts, RowFacts DEF Member, Details
    <3>2. db[Details(x)] = IF x \in unmirrored THEN None ELSE x
      BY <2>1, <3>1
    <3>3. db[Member(x)] = IF owners = {} THEN None ELSE CHOOSE y \in owners : TRUE
      <4>1. owners = {y \in Existing : EmailOf[y] = Member(x)[2]
                                     /\ (y \in unmirrored <=> Member(x)[1] = "recruiters")}
        BY <3>1
      <4> QED
        BY <2>1, <3>1, <4>1
    <3>4. CASE x \in unmirrored
      <4>1. x \notin owners
        BY <3>4
      <4>2. db[Member(x)] # x
        BY <3>1, <3>3, <4>1
      <4> QED
        BY <3>1, <3>2, <3>4, <4>2 DEF TogetherOf
    <3>5. CASE x \notin unmirrored
      <4>1. owners = {x}
        BY <2>1, <3>5
      <4>2. db[Member(x)] = x
        BY <3>3, <4>1
      <4> QED
        BY <3>2, <3>5, <4>2 DEF TogetherOf
    <3> QED
      BY <3>4, <3>5
  <2>3. \A c \in Connections, x \in Existing : PendingOf(c, x, Member(x), Details(x))
    BY <1>3, RequestFacts, RowFacts DEF PendingOf, Pends
  <2>4. \A e \in Deletes : ErasesBoth(e, Member(e), Details(TargetOf[e]))
    BY <1>2, RequestFacts DEF ErasesBoth
  <2> QED
    BY <2>2, <2>3, <2>4 DEF Together
<1>10. Named
  BY <1>2, <1>3 DEF Named, NamedOf
<1> QED
  BY <1>4, <1>5, <1>6, <1>7, <1>8, <1>9, <1>10 DEF Inv

\* Lemma: every step keeps Inv.
LEMMA NextInv ==
    ASSUME Inv, [Next]_vars
    PROVE  Inv'
<1>1. CASE UNCHANGED vars
  <2>1. /\ Store' /\ RequestTypes' /\ Who' /\ Owes' /\ Fresh' /\ Left' /\ Kept' /\ Blamable'
    BY <1>1 DEF vars, Inv, Store, StoreTypes, Exclusive, Guarded, RequestTypes, Who, Owes, Fresh,
                Absent, Left, Free, Kept, Blamable, Member
  <2>2. Together'
    BY <1>1 DEF vars, Inv, Together, PendingOf, ErasesBoth, TogetherOf, Pends, Holds,
                Bares, MayBeBare, Member, Details
  <2>3. Named'
    BY <1>1 DEF vars, Inv, Named, NamedOf, Excused, MayBeGone, Mem, Rec
  <2> QED
    BY <2>1, <2>2, <2>3 DEF Inv
<1>2. CASE Restart
  BY <1>2, RestartStep
<1>3. ASSUME NEW r \in Requests, Step(r)
      PROVE  Inv'
  BY <1>3, BeginStep, CommitStep, CreationStep, LookStep, UpdateStep, DeleteStep, DeletedStep,
     ErrorStep
     DEF Step
<1> QED
  BY <1>1, <1>2, <1>3 DEF Next, Terminated

\* Theorem: Inv holds in every state the Profile service can get into.
THEOREM Invariance == Spec => []Inv
<1>1. Init => Inv
  BY InitInv
<1>2. Inv /\ [Next]_vars => Inv'
  BY NextInv
<1> QED
  BY <1>1, <1>2, PTL DEF Spec

\* Theorem: the variables keep their types (TypeOK).
THEOREM TypeCorrect == Spec => []TypeOK
<1>1. Inv => TypeOK
  BY TypeParts DEF Inv, Store
<1> QED
  BY <1>1, Invariance, PTL

\* Theorem: a sign-up that was answered has its row, or wrote into a transaction that a
\* failed delete had left open (AnsweredIsKept).
THEOREM Answered == Spec => []AnsweredIsKept
<1>1. Inv => AnsweredIsKept
  BY DEF Inv, Kept, Blamable, AnsweredIsKept
<1> QED
  BY <1>1, Invariance, PTL

\* Theorem: all answers for an e-mail name one account, unless a delete came between, one of
\* two accounts is a recruiter's without a mirror, or a transaction was left open
\* (OneAccountPerEmail).
THEOREM OneAccount == Spec => []OneAccountPerEmail
<1>1. Inv => OneAccountPerEmail
  <2> SUFFICES ASSUME Inv, NEW r \in Requests, NEW q \in Requests,
                      EmailOf[r] = EmailOf[q], None \notin {account[r], account[q]},
                      ~MayBeGone(EmailOf[r]), carried = {}
               PROVE  \/ account[r] = account[q]
                      \/ Unmirrored(EmailOf[r], account[r]) \/ Unmirrored(EmailOf[r], account[q])
    BY DEF OneAccountPerEmail
  <2>1. EmailOf[r] \in Emails
    BY RequestFacts, EmailFacts
  <2>2. NamedOf(EmailOf[r], Mem(EmailOf[r]), Rec(EmailOf[r]))
    BY <2>1 DEF Inv, Named, Excused
  <2> QED
    BY <2>2 DEF NamedOf, Unmirrored, Mem, Rec
<1> QED
  BY <1>1, Invariance, PTL

\* Theorem: a member and its details go together, however updates and deletes race; only a
\* delete that was answered 500, or an update that is to bring none, may leave a member
\* without them (DeletedTogether).
THEOREM GoneTogether == Spec => []DeletedTogether
<1>1. Inv => DeletedTogether
  BY DEF Inv, Together, TogetherOf, DeletedTogether
<1> QED
  BY <1>1, Invariance, PTL

\* Theorem: a connection that goes back to the pool with its transaction open was left so by
\* a delete that was answered 500; no other handler, error or restart leaks one (Left).
THEOREM LeakHasACause == Spec => []Left
<1>1. Inv => Left
  BY DEF Inv
<1> QED
  BY <1>1, Invariance, PTL
===============================================================================
