---------------------------- MODULE ApprovalProofs ----------------------------
(***************************************************************************)
(* The safety properties of Approval, for any number of requests,          *)
(* candidates and runs of the task.  Inv is the inductive invariant: it    *)
(* says what slot a handler holds at each place, and what the state of a   *)
(* record says about its message.                                          *)
(***************************************************************************)
EXTENDS Approval, TLAPS

\* A handler owns no record before its claim, its own in-flight record until its final
\* write, and nothing but its own write changes that record while it is in flight.
Ownership ==
    \A r \in Requests :
        /\ at[r] \in {"new", "loaded", "missed"} => slot[r] = "none"
        /\ InWindow(r) => slot[r] = TargetState(r)
        /\ at[r] \in {"sent", "unsent"} => ~IsReject(r)

\* Where a handler is tells what its send did.
SendHistory ==
    \A r \in Requests :
        /\ at[r] \in {"new", "loaded", "missed", "claimed"} => outcome[r] = "none"
        /\ at[r] = "sent" => outcome[r] = "ok"
        /\ at[r] = "unsent" => outcome[r] \in {"lost_answer", "refused"}
        /\ IsReject(r) => outcome[r] = "none"

\* A confirmed message keeps its record, in flight or completed.
ConfirmedKeepsRecord ==
    \A r \in Requests : outcome[r] = "ok" => slot[r] \in {"send_pending", "completed"}

\* Which requests write which states.
RecordKind ==
    \A r \in Requests :
        /\ slot[r] \in {"recorded", "rejected"} => IsReject(r)
        /\ slot[r] \in {"send_pending", "completed", "send_failed"} => ~IsReject(r)
        /\ slot[r] = "completed" => outcome[r] = "ok"
        /\ slot[r] = "send_failed" => outcome[r] \in {"lost_answer", "refused"}

\* Whoever passed the first read did so after a run of the supervisor had written a
\* result; the three facts on the right never become false again.
ResultSeen ==
    /\ status \notin {"absent", "pending"} \/ worker # "idle" => runs > 0
    /\ (\E r \in Requests : at[r] \in {"loaded", "missed"} \/ HasRecord(r))
            => status # "absent" /\ runs > 0 /\ result \in Results

Inv ==
    /\ TypeOK
    /\ OneRecordPerCandidate
    /\ Ownership
    /\ SendHistory
    /\ ConfirmedKeepsRecord
    /\ RecordKind
    /\ ResultSeen

-------------------------------------------------------------------------------
\* Every reachable state is of the declared types.
THEOREM TypeCorrect == Spec => []TypeOK
<1>1. Init => TypeOK
  BY MaxRunsAssumption DEF Init, TypeOK, SlotStates, Places, Replies, Outcomes
<1>2. TypeOK /\ [Next]_vars => TypeOK'
  <2> SUFFICES ASSUME TypeOK, [Next]_vars PROVE TypeOK'
    OBVIOUS
  <2> USE DEF TypeOK, SlotStates, Places, Replies, Outcomes, task, TargetState, Retaken, Pushed
  <2>1. ASSUME NEW r \in Requests, Load(r) PROVE TypeOK'
    BY <2>1 DEF Load, Answer, Goto, Refusal
  <2>2. ASSUME NEW r \in Requests, Retake(r) PROVE TypeOK'
    BY <2>2 DEF Retake, Goto
  <2>3. ASSUME NEW r \in Requests, RetakeMisses(r) PROVE TypeOK'
    BY <2>3 DEF RetakeMisses, Goto
  <2>4. ASSUME NEW r \in Requests, Push(r) PROVE TypeOK'
    BY <2>4 DEF Push, Goto
  <2>5. ASSUME NEW r \in Requests, PushMisses(r) PROVE TypeOK'
    BY <2>5 DEF PushMisses, Answer
  <2>6. ASSUME NEW r \in Requests, ClaimFails(r) PROVE TypeOK'
    BY <2>6 DEF ClaimFails, Answer
  <2>7. ASSUME NEW r \in Requests, FinalizeReject(r) PROVE TypeOK'
    BY <2>7 DEF FinalizeReject, Answer, RejectedState
  <2>8. ASSUME NEW r \in Requests, Send(r) PROVE TypeOK'
    BY <2>8 DEF Send, Goto
  <2>9. ASSUME NEW r \in Requests, Finalize(r) PROVE TypeOK'
    BY <2>9 DEF Finalize, Answer, FinalState
  <2>10. ASSUME NEW r \in Requests, Crash(r) PROVE TypeOK'
    BY <2>10 DEF Crash, Goto
  <2>11. CASE Supervisor
    BY <2>11, MaxRunsAssumption
       DEF Supervisor, SupervisorStarts, SupervisorFails, SupervisorCompletes, SupervisorWritesResult
  <2>12. CASE UNCHANGED vars
    BY <2>12 DEF vars
  <2> QED
    BY <2>1, <2>2, <2>3, <2>4, <2>5, <2>6, <2>7, <2>8, <2>9, <2>10, <2>11, <2>12
       DEF Next, Handle, Terminated
<1> QED
  BY <1>1, <1>2, PTL DEF Spec

-------------------------------------------------------------------------------
(* The inductive step, one lemma per conjunct of Inv.                      *)

\* Lemma: the steps of the supervisor touch nothing a handler owns.
LEMMA SupervisorFrame ==
    ASSUME Supervisor \/ UNCHANGED vars
    PROVE  UNCHANGED <<body, slot, at, reply, outcome, dbFault>>
BY DEF Supervisor, SupervisorStarts, SupervisorFails, SupervisorCompletes,
       SupervisorWritesResult, vars

\* Lemma: a claim of r leaves one record per candidate, by either filter.
LEMMA ClaimKeepsOneRecord ==
    ASSUME TypeOK, OneRecordPerCandidate, UNCHANGED body, NEW r \in Requests,
           slot[r] = "none",
           \/ \E q \in Requests : Retakeable(q, r) /\ slot' = Retaken(q, r)
           \/ NoRecord(r) /\ slot' = Pushed(r)
    PROVE  OneRecordPerCandidate'
<1> USE DEF TypeOK, OneRecordPerCandidate, HasRecord, Member
<1>1. CASE NoRecord(r) /\ slot' = Pushed(r)
  BY <1>1 DEF NoRecord, Pushed
<1>2. ASSUME NEW q \in Requests, Retakeable(q, r), slot' = Retaken(q, r)
      PROVE  OneRecordPerCandidate'
  BY <1>2 DEF Retakeable, Retaken
<1> QED
  BY <1>1, <1>2

\* Lemma: rewriting the state of an existing record leaves one record per candidate.
LEMMA RewriteKeepsOneRecord ==
    ASSUME TypeOK, OneRecordPerCandidate, UNCHANGED body, NEW r \in Requests, NEW s,
           \/ slot' = (IF HasRecord(r) THEN [slot EXCEPT ![r] = s] ELSE slot)
           \/ UNCHANGED slot
    PROVE  OneRecordPerCandidate'
BY DEF TypeOK, OneRecordPerCandidate, HasRecord, Member

\* Lemma: what the handlers own survives the steps of one handler.
LEMMA HandlerStep ==
    ASSUME Inv, TypeOK', NEW r \in Requests, Handle(r) \/ ClaimFails(r) \/ Crash(r)
    PROVE  Inv'
<1> USE DEF Inv, TypeOK, Ownership, SendHistory, ConfirmedKeepsRecord, RecordKind, ResultSeen,
            HasRecord, Member, IsReject, InWindow, TargetState, task
<1>1. CASE Load(r)
  <2> USE <1>1 DEF Load, Answer, Goto
  <2>1. OneRecordPerCandidate'
    BY DEF OneRecordPerCandidate
  <2>2. Ownership' /\ SendHistory' /\ ConfirmedKeepsRecord' /\ RecordKind'
    OBVIOUS
  <2>3. ResultSeen'
    <3>1. Refusal(r) = 0 => status = "completed" /\ result[Member(r)] # "absent"
      BY DEF Refusal
    <3>2. Member(r) \in Candidates
      BY BodiesAssumption
    <3>3. Refusal(r) = 0 => status = "completed" /\ result \in Results
      BY <3>1, <3>2 DEF NoResult
    <3> QED
      BY <3>3
  <2> QED
    BY <2>1, <2>2, <2>3
<1>2. CASE Retake(r)
  <2> USE <1>2 DEF Retake, Goto
  <2>1. OneRecordPerCandidate'
    BY ClaimKeepsOneRecord
  <2>2. Ownership' /\ SendHistory' /\ ConfirmedKeepsRecord' /\ RecordKind'
    BY DEF Retakeable, Retaken, SlotStates
  <2>3. ResultSeen'
    BY DEF Retakeable, Retaken
  <2> QED
    BY <2>1, <2>2, <2>3
<1>3. CASE RetakeMisses(r)
  BY <1>3 DEF RetakeMisses, Goto, OneRecordPerCandidate
<1>4. CASE Push(r)
  <2> USE <1>4 DEF Push, Goto
  <2>1. OneRecordPerCandidate'
    BY ClaimKeepsOneRecord
  <2>2. Ownership' /\ SendHistory' /\ ConfirmedKeepsRecord' /\ RecordKind'
    BY DEF Pushed
  <2>3. ResultSeen'
    BY DEF Pushed
  <2> QED
    BY <2>1, <2>2, <2>3
<1>5. CASE PushMisses(r)
  BY <1>5 DEF PushMisses, Answer, OneRecordPerCandidate
<1>6. CASE ClaimFails(r)
  <2> USE <1>6 DEF ClaimFails, Answer
  <2>1. CASE UNCHANGED slot
    BY <2>1 DEF OneRecordPerCandidate
  <2>2. CASE at[r] = "loaded" /\ \E q \in Requests : Retakeable(q, r) /\ slot' = Retaken(q, r)
    <3>1. OneRecordPerCandidate'
      BY <2>2, ClaimKeepsOneRecord
    <3>2. Ownership' /\ SendHistory' /\ ConfirmedKeepsRecord' /\ RecordKind'
      BY <2>2 DEF Retakeable, Retaken
    <3>3. ResultSeen'
      BY <2>2 DEF Retakeable, Retaken
    <3> QED
      BY <3>1, <3>2, <3>3
  <2>3. CASE at[r] = "missed" /\ NoRecord(r) /\ slot' = Pushed(r)
    <3>1. OneRecordPerCandidate'
      BY <2>3, ClaimKeepsOneRecord
    <3>2. Ownership' /\ SendHistory' /\ ConfirmedKeepsRecord' /\ RecordKind' /\ ResultSeen'
      BY <2>3 DEF Pushed
    <3> QED
      BY <3>1, <3>2
  <2> QED
    BY <2>1, <2>2, <2>3
<1>7. CASE FinalizeReject(r)
  <2> USE <1>7 DEF FinalizeReject, Answer, RejectedState
  <2>1. OneRecordPerCandidate'
    BY RewriteKeepsOneRecord
  <2>2. Ownership' /\ SendHistory' /\ ConfirmedKeepsRecord' /\ RecordKind' /\ ResultSeen'
    OBVIOUS
  <2> QED
    BY <2>1, <2>2
<1>8. CASE Send(r)
  BY <1>8 DEF Send, Goto, OneRecordPerCandidate
<1>9. CASE Finalize(r)
  <2> USE <1>9 DEF Finalize, Answer, FinalState
  <2>1. OneRecordPerCandidate'
    BY RewriteKeepsOneRecord
  <2>2. Ownership' /\ SendHistory' /\ ConfirmedKeepsRecord' /\ RecordKind' /\ ResultSeen'
    OBVIOUS
  <2> QED
    BY <2>1, <2>2
<1>10. CASE Crash(r)
  BY <1>10 DEF Crash, Goto, OneRecordPerCandidate
<1> QED
  BY <1>1, <1>2, <1>3, <1>4, <1>5, <1>6, <1>7, <1>8, <1>9, <1>10 DEF Handle

\* Lemma: the supervisor's steps preserve the invariant; a new run hides no old fact.
LEMMA SupervisorStep ==
    ASSUME Inv, TypeOK', Supervisor \/ UNCHANGED vars
    PROVE  Inv'
<1>1. UNCHANGED <<body, slot, at, reply, outcome, dbFault>>
  BY SupervisorFrame
<1>2. /\ OneRecordPerCandidate' /\ Ownership' /\ SendHistory'
      /\ ConfirmedKeepsRecord' /\ RecordKind'
  BY <1>1 DEF Inv, OneRecordPerCandidate, Ownership, SendHistory, ConfirmedKeepsRecord,
              RecordKind, HasRecord, Member, IsReject, InWindow, TargetState
<1>3. ResultSeen'
  BY <1>1 DEF Inv, TypeOK, ResultSeen, HasRecord, Supervisor, SupervisorStarts, SupervisorFails,
              SupervisorCompletes, SupervisorWritesResult, vars
<1> QED
  BY <1>2, <1>3 DEF Inv

\* The inductive invariant holds in every reachable state.
THEOREM Invariance == Spec => []Inv
<1>1. Init => Inv
  BY MaxRunsAssumption
     DEF Init, Inv, TypeOK, OneRecordPerCandidate, Ownership, SendHistory, ConfirmedKeepsRecord,
         RecordKind, ResultSeen, HasRecord, InWindow,
         SlotStates, Places, Replies, Outcomes
<1>2. Inv /\ TypeOK' /\ [Next]_vars => Inv'
  BY HandlerStep, SupervisorStep DEF Next, Terminated
<1> QED
  BY <1>1, <1>2, TypeCorrect, PTL DEF Spec

-------------------------------------------------------------------------------
(* The properties.                                                         *)

\* One record per candidate, for every number of racing requests.
THEOREM OneRecord == Spec => []OneRecordPerCandidate
BY Invariance, PTL DEF Inv

\* The claim is a lock: a handler in its window owns a record, and a candidate has one.
THEOREM Lock == Spec => []ClaimIsALock
<1>1. Inv => ClaimIsALock
  BY DEF Inv, Ownership, OneRecordPerCandidate, ClaimIsALock, HasRecord, TargetState
<1> QED
  BY <1>1, Invariance, PTL

\* A confirmed message is never repeated: its record is never retaken, and it is the
\* candidate's only one.
THEOREM NoSilentDuplicate == Spec => []DuplicateOnlyAfterLostAnswer
<1>1. Inv => DuplicateOnlyAfterLostAnswer
  BY DEF Inv, OneRecordPerCandidate, ConfirmedKeepsRecord, DuplicateOnlyAfterLostAnswer,
         Delivered, HasRecord
<1> QED
  BY <1>1, Invariance, PTL

\* The approvals record says of a message what Messaging did with it.
THEOREM HonestRecord == Spec => []RecordIsHonest
<1>1. Inv => RecordIsHonest
  BY DEF Inv, SendHistory, RecordKind, RecordIsHonest
<1> QED
  BY <1>1, Invariance, PTL

\* A decision is recorded only after a result was written.
THEOREM SlotNeedsResult == Spec => []NoSlotWithoutResult
<1>1. Inv => NoSlotWithoutResult
  BY DEF Inv, ResultSeen, NoSlotWithoutResult
<1> QED
  BY <1>1, Invariance, PTL

-------------------------------------------------------------------------------
(* The handler implements OutreachDecision.                                *)

\* One record per candidate, of any approvals s: OneRecordPerCandidate is Unique(slot, body).
Unique(s, b) ==
    \A q, r \in Requests : s[q] # "none" /\ s[r] # "none" /\ b[q].member = b[r].member => q = r

\* Lemma: with one record per candidate, the decision is that record's state.
LEMMA StateOfRecord ==
    ASSUME NEW s, NEW b, Unique(s, b), NEW r \in Requests, s[r] # "none"
    PROVE  StateIn(s, b, b[r].member) = s[r]
<1> DEFINE P(q) == s[q] # "none" /\ b[q].member = b[r].member
           w == CHOOSE q \in Requests : P(q)
<1>1. w \in Requests /\ P(w)
  OBVIOUS
<1>2. w = r
  BY <1>1 DEF Unique
<1>3. StateIn(s, b, b[r].member) = s[w]
  BY DEF StateIn
<1> QED
  BY <1>2, <1>3

\* Lemma: rewriting records of one candidate leaves the decision about another alone.
LEMMA OtherStatesKept ==
    ASSUME NEW s, NEW t, NEW b, Unique(s, b), Unique(t, b), NEW c, NEW d, d # c,
           \A r \in Requests : b[r].member # c => t[r] = s[r]
    PROVE  StateIn(t, b, d) = StateIn(s, b, d)
<1>1. CASE \E r \in Requests : s[r] # "none" /\ b[r].member = d
  <2>1. PICK r \in Requests : s[r] # "none" /\ b[r].member = d
    BY <1>1
  <2>2. t[r] = s[r]
    BY <2>1
  <2> QED
    BY <2>1, <2>2, StateOfRecord
<1>2. CASE \A r \in Requests : b[r].member = d => s[r] = "none"
  BY <1>2 DEF StateIn
<1> QED
  BY <1>1, <1>2

\* Lemma: rewriting the records of one candidate so that r's is the one left changes
\* that candidate's decision to the state of r's record, and no other.
LEMMA OneDecisionChanged ==
    ASSUME NEW s, NEW t, NEW b, NEW b2, b2 = b, Unique(s, b), Unique(t, b),
           NEW r \in Requests, b[r].member \in Candidates, t[r] # "none",
           \A q \in Requests : b[q].member # b[r].member => t[q] = s[q]
    PROVE  [c \in Candidates |-> StateIn(t, b2, c)]
             = [[c \in Candidates |-> StateIn(s, b, c)] EXCEPT ![b[r].member] = t[r]]
<1>1. StateIn(t, b, b[r].member) = t[r]
  BY StateOfRecord
<1>2. ASSUME NEW c \in Candidates, c # b[r].member
      PROVE  StateIn(t, b, c) = StateIn(s, b, c)
  BY <1>2, OtherStatesKept
<1>3. ASSUME NEW c \in Candidates
      PROVE  StateIn(t, b2, c) = IF c = b[r].member THEN t[r] ELSE StateIn(s, b, c)
  BY <1>1, <1>2
<1> QED
  BY <1>3

\* Lemma: the same of the records, before and after a step.
LEMMA OneSlotChanged ==
    ASSUME UNCHANGED body, Unique(slot, body), Unique(slot', body),
           NEW r \in Requests, body[r].member \in Candidates, slot'[r] # "none",
           \A q \in Requests : body[q].member # body[r].member => slot'[q] = slot[q]
    PROVE  [c \in Candidates |-> StateIn(slot', body', c)]
             = [[c \in Candidates |-> StateIn(slot, body, c)] EXCEPT ![body[r].member] = slot'[r]]
BY OneDecisionChanged

\* Lemma: a claim takes an open or failed decision.
LEMMA ClaimTakes ==
    ASSUME Inv, OneRecordPerCandidate', UNCHANGED body, NEW r \in Requests, slot[r] = "none",
           \/ \E q \in Requests : Retakeable(q, r) /\ slot' = Retaken(q, r)
           \/ NoRecord(r) /\ slot' = Pushed(r)
    PROVE  Abstract!Take(body[r].member)
<1> DEFINE c == body[r].member
           Taken == /\ slot'[r] = TargetState(r)
                    /\ \A q \in Requests : body[q].member # c => slot'[q] = slot[q]
                    /\ StateIn(slot, body, c) \in {"open", "send_failed"}
<1>1. Unique(slot, body) /\ Unique(slot', body) /\ c \in Candidates
  BY BodiesAssumption DEF Inv, TypeOK, OneRecordPerCandidate, Unique, HasRecord, Member
<1>2. Taken
  <2>1. CASE NoRecord(r) /\ slot' = Pushed(r)
    BY <2>1 DEF NoRecord, Pushed, HasRecord, Inv, TypeOK, StateIn, Member
  <2>2. ASSUME NEW q \in Requests, Retakeable(q, r), slot' = Retaken(q, r)
        PROVE  Taken
    BY <2>2, <1>1, StateOfRecord DEF Retakeable, Retaken, Inv, TypeOK, Member
  <2> QED
    BY <2>1, <2>2
<1>3. TargetState(r) \in {"send_pending", "recorded"}
  BY DEF TargetState
<1>4. [d \in Candidates |-> StateIn(slot', body', d)]
        = [[d \in Candidates |-> StateIn(slot, body, d)] EXCEPT ![c] = TargetState(r)]
  <2>1. /\ slot'[r] = TargetState(r) /\ slot'[r] # "none"
        /\ \A q \in Requests : body[q].member # c => slot'[q] = slot[q]
    BY <1>2, <1>3
  <2> HIDE DEF Taken
  <2> QED
    BY <1>1, <2>1, OneSlotChanged
<1> QED
  BY <1>1, <1>2, <1>3, <1>4 DEF Abstract!Take, DecisionOf

\* Lemma: the final write of the record's owner concludes the decision.
LEMMA FinalWriteConcludes ==
    ASSUME Inv, OneRecordPerCandidate', UNCHANGED body, NEW r \in Requests,
           NEW s \in SlotStates \ {"none"},
           slot'[r] = s, \A q \in Requests \ {r} : slot'[q] = slot[q],
           \/ slot[r] = "send_pending" /\ s \in {"completed", "send_failed"}
           \/ slot[r] = "recorded" /\ s = "rejected"
    PROVE  Abstract!Conclude(body[r].member)
<1> DEFINE c == body[r].member
<1>1. Unique(slot, body) /\ Unique(slot', body) /\ c \in Candidates
  BY BodiesAssumption DEF Inv, TypeOK, OneRecordPerCandidate, Unique, HasRecord, Member
<1>2. slot'[r] # "none" /\ \A q \in Requests : body[q].member # c => slot'[q] = slot[q]
  OBVIOUS
<1>3. StateIn(slot, body, c) = slot[r]
  BY <1>1, StateOfRecord
<1>4. [d \in Candidates |-> StateIn(slot', body', d)]
        = [[d \in Candidates |-> StateIn(slot, body, d)] EXCEPT ![c] = s]
  <2>1. [d \in Candidates |-> StateIn(slot', body', d)]
          = [[d \in Candidates |-> StateIn(slot, body, d)] EXCEPT ![c] = slot'[r]]
    BY <1>1, <1>2, OneSlotChanged
  <2> QED
    BY <2>1
<1> QED
  BY <1>1, <1>3, <1>4 DEF Abstract!Conclude, DecisionOf

\* Every step of the handlers and of the supervisor is a step of OutreachDecision or
\* leaves every decision as it was.
THEOREM Refinement == Spec => RefinesOutreachDecision
<1> DEFINE decision == [c \in Candidates |-> DecisionOf(c)]
<1>1. Init => Abstract!Init
  BY DEF Init, Abstract!Init, DecisionOf, StateIn
<1>2. Inv /\ Inv' /\ [Next]_vars => [Abstract!Next]_decision
  <2> SUFFICES ASSUME Inv, Inv', [Next]_vars
               PROVE  Abstract!Next \/ UNCHANGED decision
    OBVIOUS
  <2> USE DEF Inv
  <2>1. ASSUME UNCHANGED <<slot, body>> PROVE UNCHANGED decision
    BY <2>1 DEF DecisionOf, StateIn
  <2>2. ASSUME NEW r \in Requests PROVE body[r].member \in Candidates
    BY BodiesAssumption DEF TypeOK
  <2>3. ASSUME NEW r \in Requests, Retake(r) \/ Push(r)
        PROVE  Abstract!Next
    BY <2>2, <2>3, ClaimTakes DEF Retake, Push, Ownership, Abstract!Next
  <2>4. ASSUME NEW r \in Requests, ClaimFails(r)
        PROVE  Abstract!Next \/ UNCHANGED decision
    BY <2>1, <2>2, <2>4, ClaimTakes DEF ClaimFails, Ownership, Abstract!Next
  <2>5. ASSUME NEW r \in Requests, FinalizeReject(r)
        PROVE  Abstract!Next \/ UNCHANGED decision
    <3>1. slot[r] = "recorded"
      BY <2>5 DEF FinalizeReject, Ownership, InWindow, TargetState
    <3>2. CASE slot' = [slot EXCEPT ![r] = "rejected"]
      BY <2>2, <2>5, <3>1, <3>2, FinalWriteConcludes
         DEF TypeOK, FinalizeReject, SlotStates, Abstract!Next
    <3> QED
      BY <2>1, <2>5, <3>1, <3>2 DEF FinalizeReject, HasRecord, RejectedState
  <2>6. ASSUME NEW r \in Requests, Finalize(r)
        PROVE  Abstract!Next \/ UNCHANGED decision
    <3>1. slot[r] = "send_pending"
      BY <2>6 DEF Finalize, Ownership, InWindow, TargetState
    <3>2. CASE slot' = [slot EXCEPT ![r] = FinalState(r)]
      BY <2>2, <2>6, <3>1, <3>2, FinalWriteConcludes
         DEF TypeOK, Finalize, FinalState, SlotStates, Abstract!Next
    <3> QED
      BY <2>1, <2>6, <3>1, <3>2 DEF Finalize, HasRecord
  <2>7. ASSUME NEW r \in Requests,
               Load(r) \/ RetakeMisses(r) \/ PushMisses(r) \/ Send(r) \/ Crash(r)
        PROVE  UNCHANGED decision
    BY <2>1, <2>7 DEF Load, RetakeMisses, PushMisses, Send, Crash
  <2>8. CASE Supervisor \/ UNCHANGED vars
    BY <2>1, <2>8, SupervisorFrame
  <2> QED
    BY <2>3, <2>4, <2>5, <2>6, <2>7, <2>8 DEF Next, Handle, Terminated
<1> QED
  BY <1>1, <1>2, Invariance, PTL DEF Spec, RefinesOutreachDecision, Abstract!Spec

-------------------------------------------------------------------------------
(* What a client may conclude from the answer, and what strands a record.  *)

\* A record in flight is its handler's, unless that handler died or one of its MongoDB
\* calls raised: nothing else leaves a candidate locked, which is the safety half of
\* EveryClaimSettles (main.py has no job that takes over an old send_pending slot).
StuckNeedsAFault ==
    \A r \in Requests :
        slot[r] \in {"send_pending", "recorded"} =>
            InWindow(r) \/ at[r] = "crashed" \/ r \in dbFault

\* The answer is true of the message and of the record: 200 means sent or rejected, with
\* a record that says so unless its write raised; 502 means the send was not confirmed;
\* a request refused with 400, 404 or 409 has left nothing; after a 500 nothing was
\* sent, although the candidate may be locked.
ReplyIsHonest ==
    \A r \in Requests :
        /\ reply[r] = 200 => outcome[r] = IF IsReject(r) THEN "none" ELSE "ok"
        /\ reply[r] = 200 /\ r \notin dbFault =>
              slot[r] = IF IsReject(r) THEN "rejected" ELSE "completed"
        /\ reply[r] = 502 => outcome[r] \in {"lost_answer", "refused"}
        /\ reply[r] \in {400, 404, 409} => slot[r] = "none" /\ outcome[r] = "none"
        /\ reply[r] = 500 => slot[r] \in {"none", TargetState(r)} /\ outcome[r] = "none"

\* Nobody is answered before the handler's last step.
RepliesLast == \A r \in Requests : at[r] # "answered" => reply[r] = 0

Told == StuckNeedsAFault /\ ReplyIsHonest /\ RepliesLast

\* Lemma: every step of a handler keeps the three.
LEMMA ToldStep ==
    ASSUME Inv, Told, NEW r \in Requests, Handle(r) \/ ClaimFails(r) \/ Crash(r)
    PROVE  Told'
<1> USE DEF Inv, TypeOK, Told, StuckNeedsAFault, ReplyIsHonest, RepliesLast, IsReject, InWindow,
            TargetState
<1>1. CASE Load(r)
  <2>1. Refusal(r) \in {0, 400, 404, 409}
    BY DEF Refusal
  <2>2. slot[r] = "none" /\ outcome[r] = "none"
    BY <1>1 DEF Load, Ownership, SendHistory
  <2> QED
    BY <1>1, <2>1, <2>2 DEF Load, Answer, Goto
<1>2. CASE Retake(r)
  BY <1>2 DEF Retake, Goto, Retakeable, Retaken
<1>3. CASE RetakeMisses(r)
  BY <1>3 DEF RetakeMisses, Goto
<1>4. CASE Push(r)
  BY <1>4 DEF Push, Goto, Pushed
<1>5. CASE PushMisses(r)
  BY <1>5 DEF PushMisses, Answer, Ownership, SendHistory
<1>6. CASE ClaimFails(r)
  <2>1. slot[r] = "none" /\ outcome[r] = "none" /\ reply'[r] = 500 /\ r \in dbFault'
    BY <1>6 DEF ClaimFails, Answer, Ownership, SendHistory
  <2>2. /\ slot'[r] \in {"none", TargetState(r)}
        /\ \A q \in Requests \ {r} :
              slot'[q] = slot[q] \/ (slot[q] = "send_failed" /\ slot'[q] = "none")
    BY <1>6, <2>1 DEF ClaimFails, Retakeable, Retaken, Pushed
  <2> QED
    BY <1>6, <2>1, <2>2 DEF ClaimFails, Answer
<1>7. CASE FinalizeReject(r)
  BY <1>7 DEF FinalizeReject, Answer, RejectedState, Ownership, SendHistory, HasRecord
<1>8. CASE Send(r)
  BY <1>8 DEF Send, Goto
<1>9. CASE Finalize(r)
  <2>1. /\ slot[r] = "send_pending" /\ ~IsReject(r)
        /\ at[r] = "sent" => outcome[r] = "ok"
        /\ at[r] = "unsent" => outcome[r] \in {"lost_answer", "refused"}
    BY <1>9 DEF Finalize, Ownership, SendHistory
  <2> QED
    BY <1>9, <2>1 DEF Finalize, Answer, FinalState, HasRecord
<1>10. CASE Crash(r)
  BY <1>10 DEF Crash, Goto
<1> QED
  BY <1>1, <1>2, <1>3, <1>4, <1>5, <1>6, <1>7, <1>8, <1>9, <1>10 DEF Handle

\* Lemma: the three hold in every reachable state.
LEMMA ToldAlways == Spec => []Told
<1>1. Init => Told
  BY DEF Init, Told, StuckNeedsAFault, ReplyIsHonest, RepliesLast
<1>2. Inv /\ Told /\ [Next]_vars => Told'
  <2>1. ASSUME Told, Supervisor \/ UNCHANGED vars PROVE Told'
    <3>1. UNCHANGED <<body, slot, at, reply, outcome, dbFault>>
      BY <2>1, SupervisorFrame
    <3> QED
      BY <2>1, <3>1 DEF Told, StuckNeedsAFault, ReplyIsHonest, RepliesLast, IsReject, InWindow,
                        TargetState
  <2> QED
    BY <2>1, ToldStep DEF Next, Terminated
<1> QED
  BY <1>1, <1>2, Invariance, PTL DEF Spec

\* No candidate stays locked without a crash or a raised write.
THEOREM StuckOnlyByFault == Spec => []StuckNeedsAFault
BY ToldAlways, PTL DEF Told

\* The HTTP answer agrees with the message and with the record.
THEOREM HonestReply == Spec => []ReplyIsHonest
BY ToldAlways, PTL DEF Told

-------------------------------------------------------------------------------
(* What the promise means for a candidate, carried from OutreachDecision.  *)

\* A completed or rejected decision about a candidate is never taken again, by any
\* request, retry or run of the task: only a failed send may be (main.py's rule R2).
FinalDecisionStays ==
    [][\A c \in Candidates :
          DecisionOf(c) \in {"completed", "rejected"} => DecisionOf(c)' = DecisionOf(c)]_vars

\* The handler never takes a completed or rejected decision back.
THEOREM FinalStays == Spec => FinalDecisionStays
<1> DEFINE decision == [c \in Candidates |-> DecisionOf(c)]
<1>1. ASSUME [Abstract!Next]_decision, NEW c \in Candidates,
             DecisionOf(c) \in {"completed", "rejected"}
      PROVE  DecisionOf(c)' = DecisionOf(c)
  <2>1. decision[c] = DecisionOf(c) /\ decision'[c] = DecisionOf(c)'
    OBVIOUS
  <2>2. CASE UNCHANGED decision
    BY <2>1, <2>2
  <2>3. ASSUME NEW d \in Candidates, Abstract!Take(d) \/ Abstract!Conclude(d)
        PROVE  decision'[c] = decision[c]
    <3>1. d # c
      BY <1>1, <2>1, <2>3 DEF Abstract!Take, Abstract!Conclude
    <3> QED
      BY <2>3, <3>1 DEF Abstract!Take, Abstract!Conclude
  <2> QED
    BY <1>1, <2>1, <2>2, <2>3 DEF Abstract!Next
<1>2. [Abstract!Next]_decision =>
        [\A c \in Candidates :
           DecisionOf(c) \in {"completed", "rejected"} => DecisionOf(c)' = DecisionOf(c)]_vars
  BY <1>1
<1> QED
  BY <1>2, Refinement, PTL DEF RefinesOutreachDecision, Abstract!Spec, FinalDecisionStays
===============================================================================
