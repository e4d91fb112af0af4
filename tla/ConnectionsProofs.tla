--------------------------- MODULE ConnectionsProofs ---------------------------
(***************************************************************************)
(* The safety properties of Connections, for any number of pairs and       *)
(* requests.  Inv is the inductive invariant.  It says what a handler has  *)
(* read of its row, and, separately, what stays true while no reject has   *)
(* passed its check and while no two handlers have worked on a pair.  On   *)
(* top of it, Lockstep follows the edge of a pair through a decision, and  *)
(* Tallied its counter.                                                    *)
(***************************************************************************)
EXTENDS Connections, TLAPS

\* What a handler has read is a row the pair has had; a handler past its check has read
\* a status that the check lets pass.
Seen ==
    \A r \in Requests :
        /\ seen[r].status = "none" <=> seen[r].by = "none"
        /\ seen[r].status # "none" => row[Pair(r)] # "none"
        /\ at[r] = "read" => EarlyAnswer(r, seen[r].status) = 0
        /\ UnderWay(r) /\ at[r] # "read" => row[Pair(r)] # "none"
        /\ at[r] \in {"refreshed", "mirrored", "counted"} => ~IsAsk(r)

\* A rejected row, and whoever has read one, had a reject.
RejectsAreKnown ==
    /\ \A p \in Pairs : row[p] = "rejected" => p \in rejecting
    /\ \A r \in Requests :
          /\ seen[r].status = "rejected" => Pair(r) \in rejecting
          /\ UnderWay(r) /\ body[r].kind = "reject" => Pair(r) \in rejecting

\* r has inserted its pair's row, or asked again for it.
Winner(r) == IsAsk(r) /\ (at[r] = "committed" \/ reply[r] \in {200, 201})

\* Without a reject, the ask that inserts the row is the only one to succeed.
OneWinner ==
    /\ \A r \in Requests : reply[r] # 0 => at[r] = "answered"
    /\ \A r \in Requests : Winner(r) => row[Pair(r)] # "none"
    /\ \A q, r \in Requests :
          Winner(q) /\ Winner(r) /\ Pair(q) = Pair(r) /\ Pair(q) \notin rejecting => q = r

\* Without a reject, a row that was accepted, or read as accepted, stays accepted.
Lasting ==
    \A r \in Requests : Pair(r) \notin rejecting =>
        /\ seen[r].status = "accepted" => row[Pair(r)] = "accepted"
        /\ body[r].kind = "accept" /\ at[r] \in {"committed", "refreshed", "mirrored", "counted"}
           => row[Pair(r)] = "accepted"
        /\ at[r] = "refreshed" => seen[r].status = "accepted"

\* r is an accept that has yet to write the edge.
Owes(r) == body[r].kind = "accept" /\ at[r] \in {"committed", "refreshed"}

\* Without a reject an edge is that of an accepted row, and an accepted row has its edge or
\* an accept that owes it.
EdgesFollow ==
    /\ \A p \in Pairs \ rejecting : p \in edge => row[p] = "accepted"
    /\ \A p \in Pairs \ (rejecting \cup faulty) : row[p] = "accepted" =>
          p \in edge \/ \E r \in Requests : Pair(r) = p /\ Owes(r)

\* The handlers of p follow one another, and the one under way has read the row as it is.
Alone(p) ==
    /\ \A q, r \in Requests : Pair(q) = p /\ Pair(r) = p /\ UnderWay(q) /\ UnderWay(r) => q = r
    /\ \A r \in Requests : Pair(r) = p /\ at[r] = "read" => seen[r].status = row[p]

\* p is counted once, by the accept that accepted it.
CountedByAccept(p) ==
    /\ counted[p] <= 1
    /\ counted[p] > 0 => row[p] = "accepted"
    /\ \A r \in Requests :
          Pair(r) = p /\ body[r].kind = "accept" /\ at[r] \in {"committed", "refreshed", "mirrored"}
          => counted[p] = 0 /\ row[p] = "accepted"

\* What holds while no two handlers have worked on a pair at once.
OneAtATime == \A p \in Pairs \ overlapped : Alone(p) /\ CountedByAccept(p)

Inv == TypeOK /\ Seen /\ RejectsAreKnown /\ OneWinner /\ Lasting /\ EdgesFollow /\ OneAtATime

\* A decision that is under way and has yet to write or delete the edge.
Deciding(r) == ~IsAsk(r) /\ at[r] \in {"committed", "refreshed"}

\* While the handlers of p follow one another and nothing fails, a decision under way is
\* that of the row, and without one the edge is as the row says.
InStep(p) ==
    /\ \A r \in Requests : Pair(r) = p /\ Deciding(r) => row[p] = Decided(r)
    /\ \A r \in Requests : Pair(r) = p /\ at[r] = "refreshed" => seen[r].status = row[p]
    /\ (\A r \in Requests : Pair(r) = p => ~Deciding(r)) => (p \in edge <=> row[p] = "accepted")

Lockstep == \A p \in Pairs \ (overlapped \cup faulty) : InStep(p)

\* r, a frontend's accept, has counted its pair.
HasCounted(r) ==
    body[r].kind = "accept" /\ ~body[r].rest /\ (at[r] = "counted" \/ reply[r] = 200)

\* Only the frontend's accept gets as far as the counters; and while the handlers of a pair
\* follow one another and nothing fails, its count is that of such an accept.
Tallied ==
    /\ \A r \in Requests :
          /\ at[r] = "counted" => body[r].kind = "accept"
          /\ body[r].kind = "accept" /\ at[r] \in {"mirrored", "counted"} => ~body[r].rest
    /\ \A p \in Pairs \ (overlapped \cup faulty) :
          counted[p] > 0 <=> \E r \in Requests : Pair(r) = p /\ HasCounted(r)

-------------------------------------------------------------------------------
\* Lemma: the parts of a body.
LEMMA BodyParts ==
    ASSUME TypeOK, NEW r \in Requests
    PROVE  /\ Pair(r) \in Pairs /\ body[r].by \in Sides /\ body[r].rest \in BOOLEAN
           /\ body[r].kind \in Kinds
           /\ IsAsk(r) <=> body[r].kind = "ask"
BY BodiesAssumption DEF TypeOK, Pair, IsAsk

\* Lemma: every step keeps the types.
LEMMA TypesKept ==
    ASSUME Inv, [Next]_vars PROVE TypeOK'
<1> USE BodyParts, MaxFaultsAssumption
    DEF Inv, TypeOK, stores, history, Goto, Answer, Succeed, NoFault, Fault, Places, Statuses
<1>1. ASSUME NEW r \in Requests, Read(r) PROVE TypeOK'
  <2>1. RowOf(Pair(r)) \in [status : Statuses, by : Sides \cup {"none"}]
    BY DEF RowOf
  <2>2. EarlyAnswer(r, row[Pair(r)]) \in {0, 200, 400, 404, 409}
    BY DEF EarlyAnswer
  <2>3. at' \in [Requests -> Places] /\ reply' \in [Requests -> {0, 200, 201, 400, 404, 409, 500}]
    <3>1. CASE EarlyAnswer(r, row[Pair(r)]) = 0
      BY <1>1, <3>1 DEF Read
    <3>2. CASE EarlyAnswer(r, row[Pair(r)]) # 0
      BY <1>1, <2>2, <3>2 DEF Read
    <3> QED
      BY <3>1, <3>2
  <2>4. overlapped' \in SUBSET Pairs /\ rejecting' \in SUBSET Pairs
    BY <1>1 DEF Read
  <2>5. seen' \in [Requests -> [status : Statuses, by : Sides \cup {"none"}]]
    BY <1>1, <2>1 DEF Read
  <2>6. UNCHANGED <<body, row, requestedBy, edge, counted, published, faulty, faults>>
    BY <1>1 DEF Read
  <2> QED
    BY <2>3, <2>4, <2>5, <2>6
<1>2. ASSUME NEW r \in Requests, at[r] = "read", ~Conflicts(r), Written(r)
      PROVE  /\ row' \in [Pairs -> Statuses]
             /\ requestedBy' \in [Pairs -> Sides \cup {"none"}]
             /\ \A p \in Pairs : requestedBy'[p] = "none" <=> row'[p] = "none"
  <2>1. CASE IsAsk(r)
    <3>1. seen[r].by = body[r].by => row[Pair(r)] # "none"
      BY DEF Seen, Sides
    <3> QED
      BY <1>2, <2>1, <3>1 DEF Written, Sides
  <2>2. CASE ~IsAsk(r)
    <3>1. row[Pair(r)] # "none"
      BY <1>2, <2>2 DEF Seen, EarlyAnswer
    <3> QED
      BY <1>2, <2>2, <3>1 DEF Written, Decided
  <2> QED
    BY <2>1, <2>2
<1>3. ASSUME NEW r \in Requests, Write(r) PROVE TypeOK'
  BY <1>2, <1>3 DEF Write
<1>4. ASSUME NEW r \in Requests, WriteFails(r) PROVE TypeOK'
  BY <1>2, <1>4 DEF WriteFails
<1>5. ASSUME NEW r \in Requests, WriteConflicts(r) \/ Stop(r) PROVE TypeOK'
  BY <1>5 DEF WriteConflicts, Stop
<1>6. ASSUME NEW r \in Requests, Refresh(r) PROVE TypeOK'
  <2>1. RowOf(Pair(r)) \in [status : Statuses, by : Sides \cup {"none"}]
    BY DEF RowOf
  <2> QED
    BY <1>6, <2>1 DEF Refresh
<1>7. ASSUME NEW r \in Requests, Mirror(r) PROVE TypeOK'
  BY <1>7 DEF Mirror, Mirrored
<1>8. ASSUME NEW r \in Requests, CountUp(r) PROVE TypeOK'
  BY <1>8 DEF CountUp
<1>9. ASSUME NEW r \in Requests, Publish(r) PROVE TypeOK'
  <2>1. UNCHANGED <<body, row, requestedBy, edge, counted, seen, overlapped, rejecting>>
    BY <1>9 DEF Publish
  <2>2. published' \in SUBSET Requests /\ faulty' \in SUBSET Pairs /\ faults' \in 0..MaxFaults
    BY <1>9 DEF Publish
  <2>3. at' \in [Requests -> Places] /\ reply' \in [Requests -> {0, 200, 201, 400, 404, 409, 500}]
    BY <1>9 DEF Publish
  <2> QED
    BY <2>1, <2>2, <2>3
<1>10. CASE UNCHANGED vars
  BY <1>10 DEF vars
<1> QED
  BY <1>1, <1>3, <1>4, <1>5, <1>6, <1>7, <1>8, <1>9, <1>10 DEF Next, Handle, Terminated

-------------------------------------------------------------------------------
(* The inductive step.                                                     *)

\* Lemma: the read of a handler.
LEMMA ReadStep ==
    ASSUME Inv, TypeOK', NEW r \in Requests, Read(r) PROVE Inv'
<1> DEFINE early == EarlyAnswer(r, row[Pair(r)])
<1>1. /\ at[r] = "new" /\ Pair(r) \in Pairs /\ reply[r] = 0
      /\ seen' = [seen EXCEPT ![r] = RowOf(Pair(r))]
      /\ early # 0 => at' = [at EXCEPT ![r] = "answered"] /\ reply' = [reply EXCEPT ![r] = early]
      /\ early = 0 => at' = [at EXCEPT ![r] = "read"] /\ UNCHANGED reply
      /\ overlapped' = IF early # 0 \/ Quiet(Pair(r)) THEN overlapped
                       ELSE overlapped \cup {Pair(r)}
      /\ rejecting' = IF early = 0 /\ body[r].kind = "reject" THEN rejecting \cup {Pair(r)}
                      ELSE rejecting
      /\ UNCHANGED <<body, row, requestedBy, edge, counted, faulty>>
  BY BodyParts DEF Read, Inv, OneWinner, Goto, Answer, stores, NoFault
<1>2. RowOf(Pair(r)).status = row[Pair(r)] /\ RowOf(Pair(r)).by = requestedBy[Pair(r)]
  BY DEF RowOf
<1>3. IsAsk(r) => early \in {0, 409}
  BY DEF EarlyAnswer
<1> HIDE DEF early
<1> USE <1>1, <1>2 DEF Inv, TypeOK, Pair, IsAsk, UnderWay
<1>4. Seen'
  BY DEF Seen, EarlyAnswer, early, Decided
<1>5. RejectsAreKnown'
  BY DEF RejectsAreKnown
<1>6. OneWinner'
  <2>1. \A q \in Requests : Winner(q)' => Winner(q)
    BY <1>3 DEF Winner
  <2>2. \A q \in Requests : reply'[q] # 0 => at'[q] = "answered"
    BY DEF OneWinner
  <2> QED
    BY <2>1, <2>2 DEF OneWinner
<1>7. Lasting'
  BY DEF Lasting
<1>8. EdgesFollow'
  <2> SUFFICES ASSUME NEW p \in Pairs \ (rejecting' \cup faulty'),
                      row'[p] = "accepted", p \notin edge'
               PROVE  \E q \in Requests : Pair(q)' = p /\ Owes(q)'
    BY DEF EdgesFollow
  <2>1. PICK q \in Requests : Pair(q) = p /\ Owes(q)
    BY DEF EdgesFollow
  <2> QED
    BY <2>1 DEF Owes
<1>9. OneAtATime'
  <2> SUFFICES ASSUME NEW p \in Pairs \ overlapped' PROVE Alone(p)' /\ CountedByAccept(p)'
    BY DEF OneAtATime
  <2>1. p \notin overlapped /\ Alone(p) /\ CountedByAccept(p)
    BY DEF OneAtATime
  <2>2. \A q, o \in Requests :
           Pair(q) = p /\ Pair(o) = p /\ UnderWay(q)' /\ UnderWay(o)' => q = o
    BY <2>1 DEF Alone, Quiet
  <2>3. Alone(p)'
    BY <2>1, <2>2 DEF Alone
  <2>4. CountedByAccept(p)'
    BY <2>1 DEF CountedByAccept
  <2> QED
    BY <2>3, <2>4
<1> QED
  BY <1>4, <1>5, <1>6, <1>7, <1>8, <1>9

\* Lemma: the commit of a handler, whether it is answered, goes on or raises.
LEMMA WriteStep ==
    ASSUME Inv, TypeOK', NEW r \in Requests, Write(r) \/ (WriteFails(r) /\ Written(r))
    PROVE  Inv'
<1>1. /\ at[r] = "read" /\ ~Conflicts(r) /\ Pair(r) \in Pairs /\ reply[r] = 0
      /\ UNCHANGED <<body, edge, counted, seen, overlapped, rejecting>>
      /\ faulty \subseteq faulty'
  BY BodyParts DEF Inv, OneWinner, Write, WriteFails, history, NoFault, Fault
<1>2. \/ at' = [at EXCEPT ![r] = "committed"] /\ UNCHANGED reply
      \/ /\ at' = [at EXCEPT ![r] = "answered"]
         /\ IsAsk(r) \/ Pair(r) \in faulty'
         /\ \E code \in {200, 201, 500} : reply' = [reply EXCEPT ![r] = code]
  BY DEF Write, WriteFails, Goto, Succeed, Answer, Fault
<1>3. /\ row' = [row EXCEPT ![Pair(r)] = IF IsAsk(r) THEN "pending" ELSE Decided(r)]
      /\ IsAsk(r) => seen[r].status \in {"none", "rejected"}
      /\ IsAsk(r) /\ seen[r].status = "none" => row[Pair(r)] = "none"
      /\ ~IsAsk(r) => seen[r].status = "pending"
  BY <1>1 DEF Write, WriteFails, Written, Inv, TypeOK, Seen, EarlyAnswer, Conflicts,
                FreeKey, Statuses
<1> USE <1>1, <1>2, <1>3, BodyParts DEF Inv, TypeOK, Pair, IsAsk, UnderWay, Kinds, Decided
<1>4. Seen'
  BY DEF Seen, EarlyAnswer
<1>5. RejectsAreKnown'
  BY DEF RejectsAreKnown
<1>6. OneWinner'
  <2>1. \A q \in Requests : Winner(q)' => q = r \/ Winner(q)
    BY DEF Winner
  <2>2. \A q \in Requests : reply'[q] # 0 => at'[q] = "answered"
    BY DEF OneWinner
  <2>3. row'[Pair(r)] # "none" /\ \A p \in Pairs \ {Pair(r)} : row'[p] = row[p]
    BY DEF Statuses
  <2>4. Winner(r)' /\ Pair(r) \notin rejecting => row[Pair(r)] = "none"
    BY DEF Winner, RejectsAreKnown
  <2> QED
    BY <2>1, <2>2, <2>3, <2>4 DEF OneWinner
<1>7. Lasting'
  BY DEF Lasting, RejectsAreKnown
<1>8. EdgesFollow'
  BY DEF EdgesFollow, Owes, RejectsAreKnown
<1>9. OneAtATime'
  <2> SUFFICES ASSUME NEW p \in Pairs \ overlapped PROVE Alone(p)' /\ CountedByAccept(p)'
    BY DEF OneAtATime
  <2>1. Alone(p) /\ CountedByAccept(p)
    BY DEF OneAtATime
  <2>2. Alone(p)'
    BY <2>1 DEF Alone
  <2>3. CountedByAccept(p)'
    BY <2>1 DEF CountedByAccept, Alone
  <2> QED
    BY <2>2, <2>3
<1> QED
  BY <1>4, <1>5, <1>6, <1>7, <1>8, <1>9

\* Lemma: a handler that ends without a write.
LEMMA EndStep ==
    ASSUME Inv, TypeOK', NEW r \in Requests,
           WriteConflicts(r) \/ Stop(r) \/ (WriteFails(r) /\ UNCHANGED <<row, requestedBy>>)
    PROVE  Inv'
<1>1. /\ UnderWay(r) /\ Pair(r) \in Pairs /\ reply[r] = 0
      /\ UNCHANGED <<body, row, edge, counted, seen, overlapped, rejecting>>
      /\ faulty \subseteq faulty'
  BY BodyParts DEF Inv, OneWinner, WriteConflicts, WriteFails, Stop, UnderWay, stores,
                   history, NoFault, Fault
<1>2. \/ at' = [at EXCEPT ![r] = "stopped"] /\ UNCHANGED reply /\ Pair(r) \in faulty'
      \/ at' = [at EXCEPT ![r] = "answered"] /\ reply' = [reply EXCEPT ![r] = 500] /\ at[r] = "read"
  BY DEF WriteConflicts, WriteFails, Stop, Goto, Answer, Fault
<1> USE <1>1 DEF Inv, TypeOK, Pair, IsAsk, UnderWay
<1>3. Seen' /\ RejectsAreKnown'
  <2>1. \A q \in Requests : at'[q] = at[q] \/ at'[q] \in {"stopped", "answered"}
    BY <1>2
  <2>2. Seen'
    BY <2>1 DEF Seen, EarlyAnswer, Decided
  <2>3. RejectsAreKnown'
    BY <2>1 DEF RejectsAreKnown
  <2> QED
    BY <2>2, <2>3
<1> USE <1>2
<1>4. OneWinner'
  BY DEF OneWinner, Winner
<1>5. Lasting'
  BY DEF Lasting
<1>6. EdgesFollow'
  BY DEF EdgesFollow, Owes
<1>7. OneAtATime'
  <2> SUFFICES ASSUME NEW p \in Pairs \ overlapped PROVE Alone(p)' /\ CountedByAccept(p)'
    BY DEF OneAtATime
  <2>1. Alone(p) /\ CountedByAccept(p)
    BY DEF OneAtATime
  <2>2. Alone(p)'
    BY <2>1 DEF Alone
  <2>3. CountedByAccept(p)'
    BY <2>1 DEF CountedByAccept, Alone
  <2> QED
    BY <2>2, <2>3
<1> QED
  BY <1>3, <1>4, <1>5, <1>6, <1>7

\* Lemma: the second read.
LEMMA RefreshStep ==
    ASSUME Inv, TypeOK', NEW r \in Requests, Refresh(r) PROVE Inv'
<1>1. /\ at[r] = "committed" /\ ~IsAsk(r) /\ Pair(r) \in Pairs
      /\ at' = [at EXCEPT ![r] = "refreshed"]
      /\ \E new : new.status = row[Pair(r)] /\ new.by = requestedBy[Pair(r)]
                  /\ seen' = [seen EXCEPT ![r] = new]
      /\ UNCHANGED <<body, row, requestedBy, edge, counted, reply, overlapped, rejecting, faulty>>
  BY BodyParts DEF Inv, Refresh, RowOf, Goto, stores, history, NoFault
<1> USE <1>1, BodyParts DEF Inv, TypeOK, Pair, IsAsk, UnderWay, Kinds
<1>2. Seen' /\ RejectsAreKnown'
  BY DEF Seen, EarlyAnswer, Decided, RejectsAreKnown
<1>3. OneWinner'
  BY DEF OneWinner, Winner
<1>4. Lasting'
  BY DEF Lasting, RejectsAreKnown
<1>5. EdgesFollow'
  BY DEF EdgesFollow, Owes
<1>6. OneAtATime'
  <2> SUFFICES ASSUME NEW p \in Pairs \ overlapped PROVE Alone(p)' /\ CountedByAccept(p)'
    BY DEF OneAtATime
  <2>1. Alone(p) /\ CountedByAccept(p)
    BY DEF OneAtATime
  <2>2. Alone(p)'
    BY <2>1 DEF Alone
  <2>3. CountedByAccept(p)'
    BY <2>1 DEF CountedByAccept, Alone
  <2> QED
    BY <2>2, <2>3
<1> QED
  BY <1>2, <1>3, <1>4, <1>5, <1>6

\* Lemma: the writes after the second read.
LEMMA AfterStep ==
    ASSUME Inv, TypeOK', NEW r \in Requests, Mirror(r) \/ CountUp(r) \/ Publish(r)
    PROVE  Inv'
<1>1. /\ UNCHANGED <<body, row, requestedBy, seen, overlapped, rejecting>>
      /\ faulty \subseteq faulty' /\ Pair(r) \in Pairs /\ UnderWay(r) /\ at[r] # "read"
      /\ reply[r] = 0 /\ row[Pair(r)] # "none"
  BY BodyParts DEF Inv, Seen, OneWinner, Mirror, CountUp, Publish, stores, history, NoFault,
                   Fault, UnderWay
<1> USE <1>1, BodyParts DEF Inv, TypeOK, Pair, IsAsk, UnderWay, Kinds
<1>2. CASE Mirror(r)
  <2>1. /\ at[r] = "refreshed" /\ UNCHANGED counted
        /\ \/ at' = [at EXCEPT ![r] = "mirrored"] /\ UNCHANGED reply
           \/ /\ body[r].kind = "accept" /\ at' = [at EXCEPT ![r] = "answered"]
              /\ reply' = [reply EXCEPT ![r] = 200]
        /\ edge' = Mirrored(r) \/ (UNCHANGED edge /\ Pair(r) \in faulty')
    BY <1>2 DEF Mirror, Goto, Succeed, Answer, Fault
  <2>2. Seen' /\ RejectsAreKnown'
    BY <2>1 DEF Seen, EarlyAnswer, Decided, RejectsAreKnown
  <2>3. OneWinner'
    <3>1. \A q \in Requests : Winner(q)' => Winner(q)
      BY <2>1 DEF Winner
    <3>2. \A q \in Requests : reply'[q] # 0 => at'[q] = "answered"
      BY <2>1 DEF OneWinner
    <3> QED
      BY <3>1, <3>2 DEF OneWinner
  <2>4. Lasting'
    BY <2>1 DEF Lasting
  <2>5. EdgesFollow'
    BY <2>1 DEF EdgesFollow, Owes, Mirrored, Lasting, RejectsAreKnown
  <2>6. OneAtATime'
    <3> SUFFICES ASSUME NEW p \in Pairs \ overlapped PROVE Alone(p)' /\ CountedByAccept(p)'
      BY DEF OneAtATime
    <3>1. Alone(p) /\ CountedByAccept(p)
      BY DEF OneAtATime
    <3>2. Alone(p)'
      BY <2>1, <3>1 DEF Alone
    <3>3. CountedByAccept(p)'
      BY <2>1, <3>1 DEF CountedByAccept, Alone
    <3> QED
      BY <3>2, <3>3
  <2> QED
    BY <2>2, <2>3, <2>4, <2>5, <2>6
<1>3. CASE CountUp(r)
  <2>1. /\ at[r] = "mirrored" /\ UNCHANGED <<edge, reply>> /\ body[r].kind = "accept"
        /\ at' = [at EXCEPT ![r] = "counted"]
        /\ counted' = [counted EXCEPT ![Pair(r)] = @ + 1] \/ UNCHANGED counted
    BY <1>3 DEF CountUp, Goto
  <2>2. Seen' /\ RejectsAreKnown'
    BY <2>1 DEF Seen, EarlyAnswer, Decided, RejectsAreKnown
  <2>3. OneWinner'
    <3>1. \A q \in Requests : Winner(q)' => Winner(q)
      BY <2>1 DEF Winner
    <3>2. \A q \in Requests : reply'[q] # 0 => at'[q] = "answered"
      BY <2>1 DEF OneWinner
    <3> QED
      BY <3>1, <3>2 DEF OneWinner
  <2>4. Lasting'
    BY <2>1 DEF Lasting
  <2>5. EdgesFollow'
    BY <2>1 DEF EdgesFollow, Owes
  <2>6. OneAtATime'
    <3> SUFFICES ASSUME NEW p \in Pairs \ overlapped PROVE Alone(p)' /\ CountedByAccept(p)'
      BY DEF OneAtATime
    <3>1. Alone(p) /\ CountedByAccept(p)
      BY DEF OneAtATime
    <3>2. Alone(p)'
      BY <2>1, <3>1 DEF Alone
    <3>3. CASE p = Pair(r)
      <4>1. counted[p] = 0 /\ row[p] = "accepted" /\ counted'[p] <= 1
        BY <2>1, <3>1, <3>3 DEF CountedByAccept
      <4>2. ASSUME NEW q \in Requests, Pair(q) = p
            PROVE  at'[q] \notin {"committed", "refreshed", "mirrored"}
        BY <2>1, <3>1, <3>3, <4>2 DEF Alone
      <4> QED
        BY <3>2, <4>1, <4>2 DEF CountedByAccept
    <3>4. CASE p # Pair(r)
      <4>1. counted'[p] = counted[p] /\ \A q \in Requests : Pair(q) = p => at'[q] = at[q]
        BY <2>1, <3>4
      <4> QED
        BY <3>1, <3>2, <4>1 DEF CountedByAccept
    <3> QED
      BY <3>2, <3>3, <3>4
  <2> QED
    BY <2>2, <2>3, <2>4, <2>5, <2>6
<1>4. CASE Publish(r)
  <2>1. /\ at[r] \in {"committed", "mirrored", "counted"}
        /\ at[r] = "committed" => IsAsk(r)
        /\ UNCHANGED <<edge, counted>>
        /\ at' = [at EXCEPT ![r] = "answered"]
        /\ \E code \in {200, 201} : reply' = [reply EXCEPT ![r] = code]
    <3>1. /\ at[r] \in {"committed", "mirrored", "counted"}
          /\ at[r] = "committed" => IsAsk(r)
          /\ UNCHANGED <<edge, counted>> /\ Succeed(r)
      BY <1>4 DEF Publish, stores
    <3>2. PICK code \in {200, 201} : Answer(r, code)
      BY <3>1 DEF Succeed
    <3> HIDE DEF Inv, TypeOK
    <3> QED
      BY <3>1, <3>2 DEF Answer
  <2>2. Seen' /\ RejectsAreKnown'
    BY <2>1 DEF Seen, EarlyAnswer, Decided, RejectsAreKnown
  <2>3. OneWinner'
    <3>1. \A q \in Requests : Winner(q)' => Winner(q)
      BY <2>1 DEF Winner, Seen
    <3>2. \A q \in Requests : reply'[q] # 0 => at'[q] = "answered"
      BY <2>1 DEF OneWinner
    <3> QED
      BY <3>1, <3>2 DEF OneWinner
  <2>4. Lasting'
    BY <2>1 DEF Lasting
  <2>5. EdgesFollow'
    BY <2>1 DEF EdgesFollow, Owes
  <2>6. OneAtATime'
    <3> SUFFICES ASSUME NEW p \in Pairs \ overlapped PROVE Alone(p)' /\ CountedByAccept(p)'
      BY DEF OneAtATime
    <3>1. Alone(p) /\ CountedByAccept(p)
      BY DEF OneAtATime
    <3>2. Alone(p)'
      BY <2>1, <3>1 DEF Alone
    <3>3. CountedByAccept(p)'
      BY <2>1, <3>1 DEF CountedByAccept, Alone
    <3> QED
      BY <3>2, <3>3
  <2> QED
    BY <2>2, <2>3, <2>4, <2>5, <2>6
<1> QED
  BY <1>2, <1>3, <1>4

\* The inductive invariant holds in every reachable state.
THEOREM Invariance == Spec => []Inv
<1>1. Init => Inv
  <2> SUFFICES ASSUME Init PROVE Inv
    OBVIOUS
  <2>1. TypeOK
    BY MaxFaultsAssumption DEF Init, TypeOK, Statuses, Places, Unread
  <2>2. Seen /\ RejectsAreKnown /\ OneWinner /\ Lasting /\ EdgesFollow
    BY DEF Init, Seen, RejectsAreKnown, OneWinner, Winner, Lasting, EdgesFollow, UnderWay, Unread
  <2>3. OneAtATime
    BY DEF Init, OneAtATime, Alone, CountedByAccept, UnderWay
  <2> QED
    BY <2>1, <2>2, <2>3 DEF Inv
<1>2. Inv /\ UNCHANGED vars => Inv'
  BY DEF Inv, TypeOK, Seen, RejectsAreKnown, OneWinner, Winner, Lasting, EdgesFollow, Owes,
         OneAtATime, Alone, CountedByAccept, EarlyAnswer, Decided, UnderWay, Pair, IsAsk, vars
<1>3. Inv /\ [Next]_vars => Inv'
  BY <1>2, TypesKept, ReadStep, WriteStep, EndStep, RefreshStep, AfterStep
     DEF Next, Handle, Terminated, WriteFails
<1> QED
  BY <1>1, <1>3, PTL DEF Spec

-------------------------------------------------------------------------------
(* The second invariant, on top of the first.                              *)

\* Lemma: while one handler works on a pair at a time, every step keeps the edge in step.
LEMMA LockstepKept ==
    ASSUME Inv, Inv', Lockstep, [Next]_vars PROVE Lockstep'
<1> SUFFICES ASSUME NEW p \in Pairs \ (overlapped' \cup faulty') PROVE InStep(p)'
  BY DEF Lockstep
<1>1. overlapped \subseteq overlapped' /\ faulty \subseteq faulty' /\ UNCHANGED body
  BY DEF Next, Handle, Terminated, Read, Write, WriteConflicts, WriteFails, Refresh, Mirror, CountUp,
         Publish, Stop, history, stores, vars, NoFault, Fault
<1>2. InStep(p) /\ Alone(p) /\ p \in Pairs /\ p \notin faulty'
  BY <1>1 DEF Inv, OneAtATime, Lockstep
<1>3. at \in [Requests -> Places] /\ row \in [Pairs -> Statuses] /\ edge \subseteq Pairs
      /\ seen \in [Requests -> [status : Statuses, by : Sides \cup {"none"}]]
  BY DEF Inv, TypeOK
<1> USE <1>1, <1>2, <1>3 DEF Pair, IsAsk
<1>4. ASSUME NEW r \in Requests, Read(r) PROVE InStep(p)'
  <2>1. /\ at[r] = "new" /\ UNCHANGED <<row, edge>>
        /\ \E place \in {"read", "answered"} : at' = [at EXCEPT ![r] = place]
        /\ \A q \in Requests \ {r} : seen'[q] = seen[q]
    BY <1>4 DEF Read, Goto, Answer, stores
  <2>2. \A q \in Requests : Deciding(q)' <=> Deciding(q)
    BY <2>1 DEF Deciding
  <2>3. \A q \in Requests : at'[q] = "refreshed" => at[q] = "refreshed" /\ q # r
    BY <2>1
  <2> QED
    BY <2>1, <2>2, <2>3 DEF InStep, Decided
<1>5. ASSUME NEW r \in Requests, at[r] = "read", Written(r), Write(r) \/ WriteFails(r)
      PROVE  InStep(p)'
  <2>1. UNCHANGED <<edge, seen>> /\ Pair(r) \in Pairs
    BY <1>5, BodyParts DEF Inv, Write, WriteFails
  <2>2. CASE Pair(r) # p
    <3>1. row'[p] = row[p]
      BY <1>5, <2>1, <2>2 DEF Written
    <3>2. \A q \in Requests : Pair(q) = p => at'[q] = at[q]
      BY <1>5, <2>2 DEF Write, WriteFails, Goto, Succeed, Answer
    <3> QED
      BY <2>1, <3>1, <3>2 DEF InStep, Deciding, Decided
  <2>3. CASE Pair(r) = p
    <3>1. Write(r)
      BY <1>5, <2>3 DEF WriteFails, Fault
    <3>2. \A q \in Requests : Pair(q) = p /\ q # r => at'[q] = at[q] /\ ~UnderWay(q)
      BY <1>5, <2>3, <3>1 DEF Write, Goto, Succeed, Answer, Alone, UnderWay
    <3>3. row[p] # "accepted" /\ p \notin edge
      <4>1. seen[r].status # "accepted"
        BY <1>5 DEF Inv, Seen, EarlyAnswer, Decided
      <4>2. row[p] # "accepted"
        BY <1>5, <2>3, <4>1 DEF Alone
      <4>3. \A q \in Requests : Pair(q) = p => ~Deciding(q)
        BY <1>5, <2>3, <3>2 DEF Deciding, UnderWay
      <4> QED
        BY <4>2, <4>3 DEF InStep
    <3>4. CASE IsAsk(r)
      <4>1. row'[p] = "pending"
        BY <1>5, <2>3, <3>4 DEF Written
      <4>2. \A q \in Requests : Pair(q) = p => ~Deciding(q)' /\ at'[q] # "refreshed"
        BY <3>1, <3>2, <3>4 DEF Deciding, UnderWay, Write, Goto, Succeed, Answer
      <4> QED
        BY <2>1, <3>3, <4>1, <4>2 DEF InStep
    <3>5. CASE ~IsAsk(r)
      <4>1. row'[p] = Decided(r) /\ at' = [at EXCEPT ![r] = "committed"]
        BY <1>5, <2>3, <3>1, <3>5 DEF Written, Write, Goto
      <4>2. \A q \in Requests : Pair(q) = p /\ q # r => ~Deciding(q)' /\ at'[q] # "refreshed"
        BY <3>2 DEF Deciding, UnderWay
      <4>3. Deciding(r)' /\ at'[r] # "refreshed"
        BY <3>5, <4>1 DEF Deciding
      <4> QED
        BY <2>1, <2>3, <4>1, <4>2, <4>3 DEF InStep, Decided
    <3> QED
      BY <3>4, <3>5
  <2> QED
    BY <2>2, <2>3
<1>6. ASSUME NEW r \in Requests,
             WriteConflicts(r) \/ Stop(r) \/ (WriteFails(r) /\ UNCHANGED <<row, requestedBy>>)
      PROVE  InStep(p)'
  <2>1. /\ UNCHANGED <<row, edge, seen>>
        /\ \E place \in {"answered", "stopped"} : at' = [at EXCEPT ![r] = place]
        /\ Pair(r) = p => at[r] = "read"
    BY <1>6 DEF WriteConflicts, WriteFails, Stop, Goto, Answer, Fault, stores
  <2>2. \A q \in Requests : Pair(q) = p => (Deciding(q)' <=> Deciding(q))
    BY <2>1 DEF Deciding
  <2> QED
    BY <2>1, <2>2 DEF InStep, Decided
<1>7. ASSUME NEW r \in Requests, Refresh(r) PROVE InStep(p)'
  <2>1. /\ at[r] = "committed" /\ ~IsAsk(r) /\ UNCHANGED <<row, edge>>
        /\ at' = [at EXCEPT ![r] = "refreshed"]
        /\ Pair(r) = p => seen'[r].status = row[p]
        /\ \A q \in Requests \ {r} : seen'[q] = seen[q]
    BY <1>7 DEF Refresh, Goto, RowOf, stores
  <2>2. \A q \in Requests : Deciding(q)' <=> Deciding(q)
    BY <2>1 DEF Deciding
  <2> QED
    BY <2>1, <2>2 DEF InStep, Decided
<1>8. ASSUME NEW r \in Requests, Mirror(r) PROVE InStep(p)'
  <2>1. /\ at[r] = "refreshed" /\ ~IsAsk(r) /\ UNCHANGED <<row, seen>>
        /\ \E place \in {"mirrored", "answered"} : at' = [at EXCEPT ![r] = place]
        /\ edge' = Mirrored(r) \/ (UNCHANGED edge /\ Pair(r) # p)
    BY <1>8 DEF Mirror, Goto, Succeed, Answer, Fault, Inv, Seen
  <2>2. CASE Pair(r) # p
    <3>1. p \in edge' <=> p \in edge
      BY <2>1, <2>2 DEF Mirrored
    <3>2. \A q \in Requests : Pair(q) = p => (at'[q] = at[q])
      BY <2>1, <2>2
    <3> QED
      BY <2>1, <3>1, <3>2 DEF InStep, Deciding, Decided
  <2>3. CASE Pair(r) = p
    <3>1. seen[r].status = row[p] /\ row[p] = Decided(r)
      BY <2>1, <2>3 DEF InStep, Deciding
    <3>2. p \in edge' <=> row[p] = "accepted"
      <4>1. CASE body[r].kind = "reject"
        BY <2>1, <2>3, <3>1, <4>1 DEF Mirrored, Decided
      <4>2. CASE body[r].kind # "reject"
        <5>1. body[r].kind = "accept"
          BY <2>1, <4>2, BodyParts DEF Inv, Kinds
        <5>2. row[p] = "accepted" /\ Mirrored(r) = edge \cup {p}
          BY <2>3, <3>1, <5>1 DEF Mirrored, Decided
        <5> QED
          BY <2>1, <2>3, <5>2
      <4> QED
        BY <4>1, <4>2
    <3>3. \A q \in Requests : Deciding(q)' => Deciding(q)
      BY <2>1 DEF Deciding
    <3>4. \A q \in Requests : at'[q] = "refreshed" => at[q] = "refreshed"
      BY <2>1
    <3> QED
      BY <2>1, <3>2, <3>3, <3>4 DEF InStep, Decided
  <2> QED
    BY <2>2, <2>3
<1>9. ASSUME NEW r \in Requests, CountUp(r) \/ Publish(r) PROVE InStep(p)'
  <2>1. /\ UNCHANGED <<row, edge, seen>>
        /\ IsAsk(r) \/ at[r] \in {"mirrored", "counted"}
        /\ at[r] # "refreshed"
        /\ \E place \in {"counted", "answered"} : at' = [at EXCEPT ![r] = place]
    BY <1>9 DEF CountUp, Publish, Goto, Succeed, Answer, stores
  <2>2. \A q \in Requests : Deciding(q)' <=> Deciding(q)
    BY <2>1 DEF Deciding
  <2> QED
    BY <2>1, <2>2 DEF InStep, Decided
<1>10. CASE UNCHANGED vars
  BY <1>10 DEF InStep, Deciding, Decided, vars
<1>11. \A r \in Requests : WriteFails(r) =>
          at[r] = "read" /\ (Written(r) \/ UNCHANGED <<row, requestedBy>>)
  BY DEF WriteFails
<1>12. \A r \in Requests : Write(r) => at[r] = "read" /\ Written(r)
  BY DEF Write
<1> QED
  BY <1>4, <1>5, <1>6, <1>7, <1>8, <1>9, <1>10, <1>11, <1>12 DEF Next, Handle, Terminated

\* One handler at a time, and no fault, keep the edge in step with the row.
THEOREM LockstepInvariance == Spec => []Lockstep
<1>1. Init => Lockstep
  BY DEF Init, Lockstep, InStep, Deciding
<1> QED
  BY <1>1, LockstepKept, Invariance, PTL DEF Spec

\* Lemma: a step of r that leaves the counters alone, and what r has counted, keeps the tally.
LEMMA TallyUntouched ==
    ASSUME Inv, Tallied, NEW r \in Requests, UNCHANGED <<body, counted>>,
           overlapped \subseteq overlapped', faulty \subseteq faulty',
           \A q \in Requests \ {r} : at'[q] = at[q] /\ reply'[q] = reply[q],
           Pair(r) \notin faulty' => (HasCounted(r)' <=> HasCounted(r)),
           at'[r] = "counted" => body[r].kind = "accept",
           body[r].kind = "accept" /\ at'[r] \in {"mirrored", "counted"} => ~body[r].rest
    PROVE  Tallied'
<1>1. \A q \in Requests \ {r} : HasCounted(q)' <=> HasCounted(q)
  BY DEF HasCounted
<1>2. ASSUME NEW p \in Pairs \ (overlapped' \cup faulty')
      PROVE  counted'[p] > 0 <=> \E q \in Requests : Pair(q)' = p /\ HasCounted(q)'
  <2>1. counted[p] > 0 <=> \E q \in Requests : Pair(q) = p /\ HasCounted(q)
    BY <1>2 DEF Tallied
  <2>2. \A q \in Requests : Pair(q) = p => (HasCounted(q)' <=> HasCounted(q))
    BY <1>1, <1>2
  <2> QED
    BY <2>1, <2>2 DEF Pair
<1> QED
  BY <1>2 DEF Tallied

\* Lemma: every step keeps the tally.
LEMMA TalliedKept ==
    ASSUME Inv, Tallied, [Next]_vars PROVE Tallied'
<1>1. \A r \in Requests : reply[r] # 0 => at[r] = "answered"
  BY DEF Inv, OneWinner
<1>2. at \in [Requests -> Places] /\ reply \in [Requests -> {0, 200, 201, 400, 404, 409, 500}]
      /\ counted \in [Pairs -> Nat]
  BY DEF Inv, TypeOK
<1>3. \A r \in Requests : /\ at[r] = "counted" => body[r].kind = "accept"
                          /\ body[r].kind = "accept" /\ at[r] \in {"mirrored", "counted"}
                             => ~body[r].rest
  BY DEF Tallied
<1> USE DEF Goto, Answer, Succeed, NoFault, Fault, stores, history
<1>4. ASSUME NEW r \in Requests, Read(r) PROVE Tallied'
  <2>1. /\ at[r] = "new" /\ UNCHANGED <<body, counted>> /\ overlapped \subseteq overlapped'
        /\ faulty \subseteq faulty' /\ at'[r] \in {"read", "answered"}
        /\ \A q \in Requests \ {r} : at'[q] = at[q] /\ reply'[q] = reply[q]
        /\ reply'[r] = 0 \/ reply'[r] = EarlyAnswer(r, row[Pair(r)])
    BY <1>1, <1>2, <1>4 DEF Read
  <2>2. body[r].kind = "accept" /\ ~body[r].rest => EarlyAnswer(r, row[Pair(r)]) # 200
    BY DEF EarlyAnswer, IsAsk
  <2>3. HasCounted(r)' <=> HasCounted(r)
    BY <1>1, <2>1, <2>2 DEF HasCounted
  <2> QED
    BY <2>1, <2>3, TallyUntouched
<1>5. ASSUME NEW r \in Requests, Write(r) \/ WriteConflicts(r) \/ WriteFails(r) \/ Refresh(r)
      PROVE  Tallied'
  <2>1. /\ at[r] \in {"read", "committed"} /\ UNCHANGED <<body, counted, overlapped>>
        /\ faulty \subseteq faulty' /\ at'[r] \in {"committed", "refreshed", "answered"}
        /\ \A q \in Requests \ {r} : at'[q] = at[q] /\ reply'[q] = reply[q]
        /\ reply'[r] \in {reply[r], 500} \/ IsAsk(r)
    BY <1>2, <1>5 DEF Write, WriteConflicts, WriteFails, Refresh
  <2>2. HasCounted(r)' <=> HasCounted(r)
    BY <1>1, <2>1 DEF HasCounted, IsAsk
  <2> QED
    BY <2>1, <2>2, TallyUntouched
<1>6. ASSUME NEW r \in Requests, Mirror(r) PROVE Tallied'
  <2>1. /\ at[r] = "refreshed" /\ UNCHANGED <<body, counted, overlapped>>
        /\ faulty \subseteq faulty'
        /\ \A q \in Requests \ {r} : at'[q] = at[q] /\ reply'[q] = reply[q]
        /\ at'[r] \in {"mirrored", "answered"}
        /\ body[r].kind = "accept" =>
             IF body[r].rest THEN at'[r] = "answered"
             ELSE at'[r] = "mirrored" /\ reply'[r] = reply[r]
    BY <1>2, <1>6 DEF Mirror
  <2>2. HasCounted(r)' <=> HasCounted(r)
    BY <1>1, <2>1 DEF HasCounted
  <2> QED
    BY <2>1, <2>2, TallyUntouched
<1>7. ASSUME NEW r \in Requests, CountUp(r) PROVE Tallied'
  <2>1. /\ at[r] = "mirrored" /\ body[r].kind = "accept" /\ ~body[r].rest
        /\ UNCHANGED <<body, reply, overlapped>> /\ faulty \subseteq faulty'
        /\ at' = [at EXCEPT ![r] = "counted"]
        /\ counted' = [counted EXCEPT ![Pair(r)] = @ + 1] \/ Pair(r) \in faulty'
        /\ \A p \in Pairs : p # Pair(r) => counted'[p] = counted[p]
    BY <1>2, <1>3, <1>7 DEF CountUp
  <2>2. HasCounted(r)' /\ \A q \in Requests \ {r} : HasCounted(q)' <=> HasCounted(q)
    BY <1>2, <2>1 DEF HasCounted
  <2>3. ASSUME NEW p \in Pairs \ (overlapped' \cup faulty')
        PROVE  counted'[p] > 0 <=> \E q \in Requests : Pair(q)' = p /\ HasCounted(q)'
    <3>1. CASE p = Pair(r)
      <4>1. counted'[p] > 0
        BY <1>2, <2>1, <2>3, <3>1
      <4> QED
        BY <2>1, <2>2, <3>1, <4>1 DEF Pair
    <3>2. CASE p # Pair(r)
      <4>1. counted[p] > 0 <=> \E q \in Requests : Pair(q) = p /\ HasCounted(q)
        BY <2>1, <2>3 DEF Tallied
      <4> QED
        BY <2>1, <2>2, <3>2, <4>1 DEF Pair
    <3> QED
      BY <3>1, <3>2
  <2>4. \A q \in Requests : /\ at'[q] = "counted" => body'[q].kind = "accept"
                            /\ body'[q].kind = "accept" /\ at'[q] \in {"mirrored", "counted"}
                               => ~body'[q].rest
    BY <1>2, <1>3, <2>1
  <2> QED
    BY <2>3, <2>4 DEF Tallied
<1>8. ASSUME NEW r \in Requests, Publish(r) PROVE Tallied'
  <2>1. /\ at[r] \in {"committed", "mirrored", "counted"} /\ UNCHANGED <<body, counted, overlapped>>
        /\ faulty \subseteq faulty' /\ at'[r] = "answered" /\ reply'[r] \in {200, 201}
        /\ \A q \in Requests \ {r} : at'[q] = at[q] /\ reply'[q] = reply[q]
        /\ body[r].kind = "accept" => at[r] = "counted" /\ reply'[r] = 200
    BY <1>2, <1>3, <1>8 DEF Publish, IsAsk
  <2>2. HasCounted(r)' <=> HasCounted(r)
    BY <2>1 DEF HasCounted
  <2> QED
    BY <2>1, <2>2, TallyUntouched
<1>9. ASSUME NEW r \in Requests, Stop(r) PROVE Tallied'
  <2>1. /\ UNCHANGED <<body, counted, overlapped>> /\ faulty \subseteq faulty'
        /\ at'[r] = "stopped" /\ Pair(r) \in faulty'
        /\ \A q \in Requests \ {r} : at'[q] = at[q] /\ reply'[q] = reply[q]
    BY <1>2, <1>9 DEF Stop
  <2> QED
    BY <2>1, TallyUntouched
<1>10. CASE UNCHANGED vars
  BY <1>10 DEF vars, Tallied, HasCounted, Pair
<1> QED
  BY <1>4, <1>5, <1>6, <1>7, <1>8, <1>9, <1>10 DEF Next, Handle, Terminated

\* One handler at a time, and no fault, keep the counters in step with the accepts.
THEOREM TalliedInvariance == Spec => []Tallied
<1>1. Init => Tallied
  BY DEF Init, Tallied, HasCounted
<1> QED
  BY <1>1, TalliedKept, Invariance, PTL DEF Spec

-------------------------------------------------------------------------------
(* The properties.                                                         *)

\* Every reachable state is of the declared types.
THEOREM TypeCorrect == Spec => []TypeOK
BY Invariance, PTL DEF Inv

\* Of the requests for a pair that was never rejected, one succeeds at most.
THEOREM OneRequest == Spec => []OneRequestSucceeds
<1>1. Inv => OneRequestSucceeds
  BY DEF Inv, OneWinner, OneRequestSucceeds, Winner
<1> QED
  BY <1>1, Invariance, PTL

\* Accepts and requests alone, however they race, leave both stores in agreement.
THEOREM StoresAgree == Spec => []OnlyRejectsPartTheStores
<1>1. Inv => OnlyRejectsPartTheStores
  BY DEF Inv, EdgesFollow, Owes, OnlyRejectsPartTheStores, Quiet, UnderWay
<1> QED
  BY <1>1, Invariance, PTL

\* Requests about a pair that follow one another, without faults, leave the row, the edge and
\* the counters in step: an accepted pair is counted once, and only by the frontend's accept.
THEOREM SequentialAgree == Spec => []SequentialCallsAgree
<1>1. Inv /\ Lockstep /\ Tallied => SequentialCallsAgree
  <2> SUFFICES ASSUME Inv, Lockstep, Tallied,
                      NEW p \in Pairs \ (overlapped \cup faulty), Quiet(p)
               PROVE  /\ p \in edge <=> row[p] = "accepted"
                      /\ counted[p] > 0 => row[p] = "accepted"
                      /\ counted[p] = IF \E r \in Requests : Pair(r) = p /\ AcceptedInFrontend(r)
                                      THEN 1 ELSE 0
    BY DEF SequentialCallsAgree
  <2>1. \A r \in Requests : Pair(r) = p => ~Deciding(r)
    BY DEF Quiet, Deciding, UnderWay
  <2>2. (p \in edge <=> row[p] = "accepted") /\ (counted[p] > 0 => row[p] = "accepted")
    BY <2>1 DEF Inv, OneAtATime, CountedByAccept, Lockstep, InStep
  <2>3. \A r \in Requests : Pair(r) = p => (HasCounted(r) <=> AcceptedInFrontend(r))
    BY DEF Quiet, UnderWay, HasCounted, AcceptedInFrontend
  <2>4. counted[p] > 0 <=> \E r \in Requests : Pair(r) = p /\ AcceptedInFrontend(r)
    BY <2>3 DEF Tallied
  <2>5. counted[p] \in {0, 1}
    BY DEF Inv, TypeOK, OneAtATime, CountedByAccept
  <2> QED
    BY <2>2, <2>4, <2>5
<1> QED
  BY <1>1, Invariance, LockstepInvariance, TalliedInvariance, PTL

\* Only handlers that overlap count a connection twice.
THEOREM CountedOnce == Spec => []DoubleCountNeedsRace
<1>1. Inv => DoubleCountNeedsRace
  BY DEF Inv, OneAtATime, CountedByAccept, DoubleCountNeedsRace
<1> QED
  BY <1>1, Invariance, PTL

\* Lemma: a commit that undoes an accepted row is that of a handler that overlapped.
LEMMA CommitOfAccepted ==
    ASSUME Inv, NEW r \in Requests, at[r] = "read", Written(r),
           NEW p \in Pairs, row[p] = "accepted", row'[p] # "accepted"
    PROVE  p \in overlapped
<1>1. Pair(r) \in Pairs
  BY BodyParts DEF Inv
<1>2. p = Pair(r)
  BY <1>1 DEF Written, Inv, TypeOK
<1>3. seen[r].status # "accepted"
  BY DEF Inv, Seen, EarlyAnswer, Decided
<1> QED
  BY <1>1, <1>2, <1>3 DEF Inv, OneAtATime, Alone

\* Only handlers that overlap undo an accepted connection.
THEOREM AcceptedStays == Spec => AcceptedIsFinal
<1>1. ASSUME Inv, [Next]_vars, NEW p \in Pairs, row[p] = "accepted", row'[p] # "accepted"
      PROVE  p \in overlapped
  <2>1. row' # row
    BY <1>1
  <2>2. PICK r \in Requests : at[r] = "read" /\ Written(r)
    BY <1>1, <2>1
       DEF Next, Handle, Read, Write, WriteConflicts, WriteFails, Refresh, Mirror, CountUp,
           Publish, Stop, Terminated, stores, vars
  <2> QED
    BY <1>1, <2>2, CommitOfAccepted
<1>2. Inv /\ [Next]_vars =>
        [\A p \in Pairs : row[p] = "accepted" /\ row'[p] # "accepted" => p \in overlapped]_vars
  BY <1>1
<1> QED
  BY <1>2, Invariance, PTL DEF Spec, AcceptedIsFinal

-------------------------------------------------------------------------------
(* What a request was answered, on top of Inv.                             *)

\* A success that was answered, or told in an event, stays true unless somebody rejects:
\* a request has its row, and an accept an accepted row.  The frontend's accept has its
\* edge and is counted as well, if nothing failed.
SuccessStays ==
    \A r \in Requests : Pair(r) \notin rejecting =>
        /\ reply[r] \in {200, 201} \/ r \in published =>
              /\ row[Pair(r)] # "none"
              /\ body[r].kind = "accept" => row[Pair(r)] = "accepted"
        /\ /\ reply[r] = 200 /\ body[r].kind = "accept" /\ ~body[r].rest
           /\ Pair(r) \notin faulty
           => Pair(r) \in edge /\ counted[Pair(r)] > 0

\* The frontend's accept on the way to its answer.
HalfDone ==
    \A r \in Requests : Pair(r) \notin rejecting \cup faulty /\ body[r].kind = "accept" =>
        /\ at[r] \in {"mirrored", "counted"} => Pair(r) \in edge
        /\ at[r] = "counted" => counted[Pair(r)] > 0

\* Lemma: no step gives back what a pair has, unless somebody rejects.
LEMMA NothingGivenBack ==
    ASSUME Inv, [Next]_vars, NEW p \in Pairs \ rejecting'
    PROVE  /\ p \notin rejecting /\ (p \in faulty => p \in faulty')
           /\ row[p] # "none" => row'[p] # "none"
           /\ row[p] = "accepted" => row'[p] = "accepted"
           /\ p \in edge => p \in edge'
           /\ counted[p] > 0 => counted'[p] > 0
<1> USE BodyParts DEF Inv, TypeOK, stores, history, NoFault, Fault, Statuses
<1>1. ASSUME NEW r \in Requests, at[r] = "read", Written(r), ~Conflicts(r), p \notin rejecting
      PROVE  /\ row[p] # "none" => row'[p] # "none"
             /\ row[p] = "accepted" => row'[p] = "accepted"
  <2>1. CASE Pair(r) # p
    BY <1>1, <2>1 DEF Written
  <2>2. CASE Pair(r) = p /\ IsAsk(r)
    <3>1. row[p] = "none"
      BY <1>1, <2>2 DEF Seen, EarlyAnswer, RejectsAreKnown, Conflicts, FreeKey
    <3> QED
      BY <3>1
  <2>3. CASE Pair(r) = p /\ ~IsAsk(r)
    <3>1. body[r].kind = "accept"
      BY <1>1, <2>3 DEF RejectsAreKnown, UnderWay, Kinds
    <3> QED
      BY <1>1, <2>3, <3>1 DEF Written, Decided
  <2> QED
    BY <2>1, <2>2, <2>3
<1>2. ASSUME NEW r \in Requests, Read(r) \/ WriteConflicts(r) \/ Refresh(r) \/ Publish(r) \/ Stop(r)
      PROVE  /\ rejecting \subseteq rejecting' /\ faulty \subseteq faulty'
             /\ UNCHANGED <<row, edge, counted>>
  BY <1>2 DEF Read, WriteConflicts, Refresh, Publish, Stop
<1>3. ASSUME NEW r \in Requests, Write(r) \/ WriteFails(r)
      PROVE  /\ UNCHANGED <<rejecting, edge, counted>> /\ faulty \subseteq faulty'
             /\ at[r] = "read" /\ ~Conflicts(r) /\ (Written(r) \/ UNCHANGED row)
  BY <1>3 DEF Write, WriteFails
<1>4. ASSUME NEW r \in Requests, Mirror(r)
      PROVE  /\ UNCHANGED <<rejecting, row, counted>> /\ faulty \subseteq faulty'
             /\ p \in edge /\ p \notin rejecting => p \in edge'
  <2>1. UNCHANGED <<rejecting, row, counted>> /\ faulty \subseteq faulty' /\ UnderWay(r)
        /\ edge' \in {edge, Mirrored(r)}
    BY <1>4 DEF Mirror, UnderWay
  <2> QED
    BY <2>1 DEF Mirrored, RejectsAreKnown
<1>5. ASSUME NEW r \in Requests, CountUp(r)
      PROVE  /\ UNCHANGED <<rejecting, row, edge>> /\ faulty \subseteq faulty'
             /\ counted[p] > 0 => counted'[p] > 0
  BY <1>5 DEF CountUp
<1>6. CASE UNCHANGED vars
  BY <1>6 DEF vars
<1> QED
  BY <1>1, <1>2, <1>3, <1>4, <1>5, <1>6 DEF Next, Handle, Terminated

\* Lemma: every step keeps both.
LEMMA SuccessKept ==
    ASSUME Inv, Inv', SuccessStays, HalfDone, [Next]_vars PROVE SuccessStays' /\ HalfDone'
<1>1. UNCHANGED body
  BY DEF Next, Handle, Terminated, Read, Write, WriteConflicts, WriteFails, Refresh, Mirror, CountUp,
         Publish, Stop, vars
<1> SUFFICES ASSUME NEW r \in Requests, Pair(r) \notin rejecting'
             PROVE  /\ reply'[r] \in {200, 201} \/ r \in published' =>
                          /\ row'[Pair(r)] # "none"
                          /\ body[r].kind = "accept" => row'[Pair(r)] = "accepted"
                    /\ /\ reply'[r] = 200 /\ body[r].kind = "accept" /\ ~body[r].rest
                       /\ Pair(r) \notin faulty'
                       => Pair(r) \in edge' /\ counted'[Pair(r)] > 0
                    /\ Pair(r) \notin faulty' /\ body[r].kind = "accept" =>
                          /\ at'[r] \in {"mirrored", "counted"} => Pair(r) \in edge'
                          /\ at'[r] = "counted" => counted'[Pair(r)] > 0
  BY <1>1 DEF SuccessStays, HalfDone, Pair
<1>2. /\ Pair(r) \in Pairs /\ Pair(r) \notin rejecting
      /\ Pair(r) \in faulty => Pair(r) \in faulty'
      /\ row[Pair(r)] # "none" => row'[Pair(r)] # "none"
      /\ row[Pair(r)] = "accepted" => row'[Pair(r)] = "accepted"
      /\ Pair(r) \in edge => Pair(r) \in edge'
      /\ counted[Pair(r)] > 0 => counted'[Pair(r)] > 0
  BY BodyParts, NothingGivenBack DEF Inv
<1>3. CASE at'[r] = at[r] /\ reply'[r] = reply[r] /\ (r \in published' => r \in published)
  BY <1>2, <1>3 DEF SuccessStays, HalfDone
<1> USE BodyParts DEF Inv, TypeOK, Goto, Answer, Succeed, stores, history, NoFault, Fault
<1>4. ASSUME NEW q \in Requests, q # r, Handle(q) \/ WriteFails(q) \/ Stop(q)
      PROVE  at'[r] = at[r] /\ reply'[r] = reply[r] /\ (r \in published' => r \in published)
  BY <1>4 DEF Handle, Read, Write, WriteConflicts, WriteFails, Refresh, Mirror, CountUp,
              Publish, Stop
<1>5. reply[r] # 0 => at[r] = "answered"
  BY DEF OneWinner
<1>6. CASE Read(r)
  <2>1. /\ UNCHANGED <<row, published>> /\ at'[r] \in {"read", "answered"}
        /\ reply'[r] = reply[r] \/ reply'[r] = EarlyAnswer(r, row[Pair(r)])
    BY <1>6 DEF Read
  <2>2. /\ EarlyAnswer(r, row[Pair(r)]) # 201
        /\ EarlyAnswer(r, row[Pair(r)]) = 200 =>
             body[r].rest /\ ~IsAsk(r) /\ row[Pair(r)] = Decided(r)
    BY DEF EarlyAnswer
  <2>3. reply[r] = 0
    BY <1>5, <1>6 DEF Read
  <2> QED
    BY <1>2, <2>1, <2>2, <2>3 DEF SuccessStays, Decided, Statuses
<1>7. CASE Write(r)
  <2>1. reply[r] = 0 /\ UNCHANGED published
    BY <1>5, <1>7 DEF Write
  <2>2. CASE IsAsk(r)
    <3>1. row'[Pair(r)] = "pending" /\ body[r].kind # "accept"
      BY <1>2, <1>7, <2>2 DEF Write, Written
    <3> QED
      BY <3>1
  <2>3. CASE ~IsAsk(r)
    <3>1. at'[r] = "committed" /\ reply'[r] = 0
      BY <1>7, <2>1, <2>3 DEF Write
    <3> QED
      BY <1>2, <2>1, <3>1 DEF SuccessStays
  <2> QED
    BY <2>2, <2>3
<1>8. CASE WriteConflicts(r) \/ WriteFails(r) \/ Refresh(r) \/ Stop(r)
  <2>1. /\ UNCHANGED published /\ reply'[r] \in {reply[r], 500}
        /\ at'[r] \in {"answered", "refreshed", "stopped"}
    BY <1>8 DEF WriteConflicts, WriteFails, Refresh, Stop
  <2> QED
    BY <1>2, <2>1 DEF SuccessStays
<1>9. CASE Mirror(r)
  <2>1. /\ at[r] = "refreshed" /\ reply[r] = 0 /\ UNCHANGED <<row, published>>
        /\ at'[r] \in {"mirrored", "answered"} /\ (at'[r] = "mirrored" => reply'[r] = 0)
        /\ at'[r] = "answered" => body[r].rest /\ body[r].kind = "accept" /\ reply'[r] = 200
        /\ edge' = Mirrored(r) \/ Pair(r) \in faulty'
    BY <1>5, <1>9 DEF Mirror, IsAsk
  <2>2. row[Pair(r)] # "none"
    <3>1. UnderWay(r) /\ at[r] # "read"
      BY <2>1 DEF UnderWay
    <3> HIDE DEF TypeOK
    <3> QED
      BY <3>1 DEF Seen
  <2>3. body[r].kind = "accept" => row[Pair(r)] = "accepted" /\ seen[r].status = "accepted"
    BY <1>2, <2>1 DEF Lasting
  <2>4. body[r].kind = "accept" /\ Pair(r) \notin faulty' => Pair(r) \in edge'
    BY <2>1, <2>3 DEF Mirrored
  <2> QED
    BY <1>2, <2>1, <2>2, <2>3, <2>4 DEF SuccessStays
<1>10. CASE CountUp(r)
  <2>1. /\ at[r] = "mirrored" /\ reply[r] = 0 /\ UNCHANGED <<reply, published>>
        /\ at'[r] = "counted"
        /\ Pair(r) \in faulty' \/ counted'[Pair(r)] = counted[Pair(r)] + 1
    BY <1>2, <1>5, <1>10 DEF CountUp
  <2> QED
    BY <1>2, <2>1 DEF SuccessStays, HalfDone
<1>11. CASE Publish(r)
  <2>1. /\ at[r] \in {"committed", "mirrored", "counted"} /\ UNCHANGED <<row, edge, counted>>
        /\ at'[r] = "answered"
        /\ body[r].kind = "accept" => at[r] = "counted"
    BY <1>11 DEF Publish, IsAsk
  <2>2. row[Pair(r)] # "none"
    <3>1. UnderWay(r) /\ at[r] # "read"
      BY <2>1 DEF UnderWay
    <3> HIDE DEF TypeOK
    <3> QED
      BY <3>1 DEF Seen
  <2>3. body[r].kind = "accept" => row[Pair(r)] = "accepted"
    BY <1>2, <2>1 DEF Lasting
  <2> QED
    BY <1>2, <2>1, <2>2, <2>3 DEF HalfDone
<1>12. UNCHANGED vars => at'[r] = at[r] /\ reply'[r] = reply[r] /\ (r \in published' => r \in published)
  BY DEF vars
<1> QED
  BY <1>3, <1>4, <1>6, <1>7, <1>8, <1>9, <1>10, <1>11, <1>12 DEF Next, Handle, Terminated

\* Only a reject takes back what a request was told: an accept that was answered stays
\* accepted, and the frontend's stays connected and counted.
THEOREM SuccessIsKept == Spec => []SuccessStays
<1>1. Init => SuccessStays /\ HalfDone
  BY DEF Init, SuccessStays, HalfDone
<1> QED
  BY <1>1, SuccessKept, Invariance, PTL DEF Spec

\* An edge of a pair that is not accepted needs both: a reject of the pair, and two of its
\* handlers at work at once.
LeftEdgeNeedsRejectInRace ==
    \A p \in Pairs \ faulty :
        Quiet(p) /\ p \in edge /\ row[p] # "accepted" => p \in rejecting \cap overlapped

\* What EdgesAreAccepted says is broken by a reject that races with another request about
\* the pair, and by nothing else but a fault.
THEOREM LeftEdgeIsRaced == Spec => []LeftEdgeNeedsRejectInRace
<1>1. OnlyRejectsPartTheStores /\ SequentialCallsAgree => LeftEdgeNeedsRejectInRace
  BY DEF OnlyRejectsPartTheStores, SequentialCallsAgree, LeftEdgeNeedsRejectInRace
<1> QED
  BY <1>1, StoresAgree, SequentialAgree, PTL
===============================================================================
