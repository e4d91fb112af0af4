------------------------------- MODULE Approval -------------------------------
(***************************************************************************)
(* POST /ai/approve of the AI agent: recruiters approve, edit or reject    *)
(* the outreach drafts of one shortlist task.  A handler reads the task    *)
(* document, claims the candidate's slot in its `approvals` array with one *)
(* of two atomic MongoDB updates (R2: retake a send_failed slot, R1: push  *)
(* a slot if the candidate has none), sends through the Messaging service  *)
(* and finalizes the slot by its approval_id.                              *)
(*                                                                         *)
(* Any number of handlers run at once, on any number of replicas, and each *)
(* may stop at any point (a crash).  A MongoDB call may raise, whether or  *)
(* not the write it carried took effect, and a send may raise after the    *)
(* message was stored (the 10 s timeout, or a 500 after the commit).       *)
(* The task document is written at the same time by the supervisor, which  *)
(* may run the task again.  Message texts, ids and times are left out.     *)
(***************************************************************************)
EXTENDS Naturals, FiniteSets

CONSTANTS
    Requests,     \* approve requests; each draws a fresh approval_id, named by the request
    Candidates,   \* member ids
    Bodies,       \* request bodies: [member, action, content]
    Results,      \* shortlists a run of the task may write: [Candidates -> ...]
    MaxRuns       \* bound: how often the supervisor runs the task

Actions == {"approve", "edit", "reject"}
Entries == {"absent", "no_draft", "draft"}     \* a candidate's place in a shortlist

ASSUME BodiesAssumption ==
    Bodies \subseteq [member : Candidates, action : Actions, content : BOOLEAN]
ASSUME ResultsAssumption == Results \subseteq [Candidates -> Entries]
ASSUME MaxRunsAssumption == MaxRuns \in Nat

VARIABLES
    body,       \* body[r]: what the client of request r sent
    status,     \* ai_traces.status of the task
    result,     \* ai_traces.result: the shortlist, nobody in it while it is None
    worker,     \* the supervisor: idle, working, or between its last two writes
    runs,       \* how often it has started
    slot,       \* slot[r]: state of the approvals record whose approval_id is r's
    at,         \* at[r]: where the handler of r is
    reply,      \* reply[r]: HTTP status answered, 0 while there is none
    outcome,    \* outcome[r]: what became of r's message at the Messaging service
    dbFault     \* requests one of whose MongoDB calls raised

vars == <<body, status, result, worker, runs, slot, at, reply, outcome, dbFault>>
task == <<status, result, worker, runs>>

SlotStates == {"none", "send_pending", "recorded", "completed", "send_failed", "rejected"}
Places     == {"new", "loaded", "missed", "claimed", "sent", "unsent", "answered", "crashed"}
Replies    == {0, 200, 400, 404, 409, 500, 502}
Outcomes   == {"none", "ok", "lost_answer", "refused"}

NoResult == [c \in Candidates |-> "absent"]

TypeOK ==
    /\ body \in [Requests -> Bodies]
    /\ status \in {"absent", "pending", "running", "completed", "failed"}
    /\ result \in Results \cup {NoResult}
    /\ worker \in {"idle", "working", "emitted"}
    /\ runs \in 0..MaxRuns
    /\ slot \in [Requests -> SlotStates]
    /\ at \in [Requests -> Places]
    /\ reply \in [Requests -> Replies]
    /\ outcome \in [Requests -> Outcomes]
    /\ dbFault \in SUBSET Requests

Init ==
    /\ body \in [Requests -> Bodies]
    /\ status \in {"absent", "pending"}
    /\ result = NoResult
    /\ worker = "idle"
    /\ runs = 0
    /\ slot = [r \in Requests |-> "none"]
    /\ at = [r \in Requests |-> "new"]
    /\ reply = [r \in Requests |-> 0]
    /\ outcome = [r \in Requests |-> "none"]
    /\ dbFault = {}

-------------------------------------------------------------------------------
(* Vocabulary of the handler.                                              *)

Member(r)   == body[r].member
IsReject(r) == body[r].action = "reject"
HasRecord(r) == slot[r] # "none"
Delivered(r) == outcome[r] \in {"ok", "lost_answer"}

\* r holds its candidate's slot and has not finalized it yet.
InWindow(r) == at[r] \in {"claimed", "sent", "unsent"}

\* The state a claim writes: send_pending when there is a text to send.
TargetState(r) == IF IsReject(r) THEN "recorded" ELSE "send_pending"

\* Mutant: the candidate need not be in the shortlist.
RefusalWithoutMembership(r) ==
    IF status = "absent" THEN 404
    ELSE IF status # "completed" THEN 409
    ELSE IF body[r].action = "edit" /\ ~body[r].content THEN 400
    ELSE 0

\* The HTTP error of the checks made before anything is written; 0 if none.
Refusal(r) ==
    LET entry == result[Member(r)] IN
    IF status = "absent" THEN 404
    ELSE IF status # "completed" THEN 409
    ELSE IF entry = "absent" THEN 404
    ELSE IF body[r].action = "edit" /\ ~body[r].content THEN 400
    ELSE IF body[r].action = "approve" /\ entry = "no_draft" THEN 409
    ELSE 0

Answer(r, code) ==
    /\ at' = [at EXCEPT ![r] = "answered"]
    /\ reply' = [reply EXCEPT ![r] = code]

Goto(r, place) ==
    /\ at' = [at EXCEPT ![r] = place]
    /\ UNCHANGED reply

-------------------------------------------------------------------------------
(* Claiming the slot.                                                      *)

\* Mutant: the retry path also takes over a slot that is still in flight.
RetakeableOrPending(q, r) ==
    Member(q) = Member(r) /\ slot[q] \in {"send_failed", "send_pending"}

\* Mutant: a rejected candidate may be decided again.
RetakeableOrRejected(q, r) ==
    Member(q) = Member(r) /\ slot[q] \in {"send_failed", "rejected"}

\* R2's filter: q's record is the candidate's and its send failed.
Retakeable(q, r) == Member(q) = Member(r) /\ slot[q] = "send_failed"

\* Mutant: only terminal records block a push.
NoTerminalRecord(r) ==
    \A q \in Requests : Member(q) = Member(r) => slot[q] \notin {"completed", "rejected", "send_failed"}

\* R1's filter: no record at all for the candidate.
NoRecord(r) == \A q \in Requests : Member(q) = Member(r) => ~HasRecord(q)

\* R2 rewrites q's record in place, approval_id included: it becomes r's.
Retaken(q, r) == [slot EXCEPT ![q] = "none", ![r] = TargetState(r)]

\* R1 appends a record of r's.
Pushed(r) == [slot EXCEPT ![r] = TargetState(r)]

-------------------------------------------------------------------------------
(* The handler, one action per MongoDB call or await.                      *)

\* find_one and every check before the first write.
Load(r) ==
    /\ at[r] = "new"
    /\ IF Refusal(r) # 0 THEN Answer(r, Refusal(r)) ELSE Goto(r, "loaded")
    /\ UNCHANGED <<body, task, slot, outcome, dbFault>>

\* R2 matched: the failed slot is r's now.
Retake(r) ==
    /\ at[r] = "loaded"
    /\ \E q \in Requests : Retakeable(q, r) /\ slot' = Retaken(q, r)
    /\ Goto(r, "claimed")
    /\ UNCHANGED <<body, task, outcome, dbFault>>

\* R2 matched nothing.
RetakeMisses(r) ==
    /\ at[r] = "loaded"
    /\ \A q \in Requests : ~Retakeable(q, r)
    /\ Goto(r, "missed")
    /\ UNCHANGED <<body, task, slot, outcome, dbFault>>

\* R1 matched: a new slot is r's.
Push(r) ==
    /\ at[r] = "missed"
    /\ NoRecord(r)
    /\ slot' = Pushed(r)
    /\ Goto(r, "claimed")
    /\ UNCHANGED <<body, task, outcome, dbFault>>

\* R1 matched nothing: 409 ALREADY_ACTIONED, even if the record is send_failed by now.
PushMisses(r) ==
    /\ at[r] = "missed"
    /\ ~NoRecord(r)
    /\ Answer(r, 409)
    /\ UNCHANGED <<body, task, slot, outcome, dbFault>>

\* find_one, R2 or R1 raised: 500.  The claim may have been written all the same.
ClaimFails(r) ==
    /\ at[r] \in {"new", "loaded", "missed"}
    /\ \/ UNCHANGED slot
       \/ at[r] = "loaded" /\ \E q \in Requests : Retakeable(q, r) /\ slot' = Retaken(q, r)
       \/ at[r] = "missed" /\ NoRecord(r) /\ slot' = Pushed(r)
    /\ dbFault' = dbFault \cup {r}
    /\ Answer(r, 500)
    /\ UNCHANGED <<body, task, outcome>>

\* Mutant: the final write of a rejection repeats the recorded state.
RejectedStateKept(r) == slot[r]

\* Mutant: the action's name is written where the state belongs.
RejectedStateIsAction(r) == body[r].action

\* What a rejection's final write sets.
RejectedState(r) == "rejected"

\* A rejection is final as soon as it is recorded; the write's error is only logged.
FinalizeReject(r) ==
    /\ at[r] = "claimed"
    /\ IsReject(r)
    /\ \/ /\ slot' = IF HasRecord(r) THEN [slot EXCEPT ![r] = RejectedState(r)] ELSE slot
          /\ UNCHANGED dbFault
       \/ UNCHANGED slot /\ dbFault' = dbFault \cup {r}
    /\ Answer(r, 200)
    /\ UNCHANGED <<body, task, outcome>>

\* await send_outreach_message: answered, stored but the call raised, or not stored.  (An
\* answer never says sent = false: Messaging's has no such field, and the default is true.)
Send(r) ==
    /\ at[r] = "claimed"
    /\ ~IsReject(r)
    /\ \E o \in {"ok", "lost_answer", "refused"} :
          /\ outcome' = [outcome EXCEPT ![r] = o]
          /\ Goto(r, IF o = "ok" THEN "sent" ELSE "unsent")
    /\ UNCHANGED <<body, task, slot, dbFault>>

\* Mutant: the slot is completed whatever the send returned.
AlwaysCompleted(r) == "completed"

\* Mutant: a send that succeeded is recorded as failed.
AlwaysFailed(r) == "send_failed"

FinalState(r) == IF at[r] = "sent" THEN "completed" ELSE "send_failed"

\* The write after the send, located by approval_id; its error is only logged.
Finalize(r) ==
    /\ at[r] \in {"sent", "unsent"}
    /\ \/ /\ slot' = IF HasRecord(r) THEN [slot EXCEPT ![r] = FinalState(r)] ELSE slot
          /\ UNCHANGED dbFault
       \/ UNCHANGED slot /\ dbFault' = dbFault \cup {r}
    /\ Answer(r, IF at[r] = "sent" THEN 200 ELSE 502)
    /\ UNCHANGED <<body, task, outcome>>

\* The process of r dies; what MongoDB and Messaging hold stays.
Crash(r) ==
    /\ at[r] \notin {"new", "answered", "crashed"}
    /\ Goto(r, "crashed")
    /\ UNCHANGED <<body, task, slot, outcome, dbFault>>

Handle(r) ==
    \/ Load(r) \/ Retake(r) \/ RetakeMisses(r) \/ Push(r) \/ PushMisses(r)
    \/ FinalizeReject(r) \/ Send(r) \/ Finalize(r)

-------------------------------------------------------------------------------
(* The supervisor's writes to the same document.                           *)

\* process_task upserts the document as running, on every run of the task.
SupervisorStarts ==
    /\ worker = "idle" /\ runs < MaxRuns
    /\ worker' = "working" /\ runs' = runs + 1
    /\ status' = "running"
    /\ UNCHANGED <<body, result, slot, at, reply, outcome, dbFault>>

\* A step failed: status failed, the result is left as it was.
SupervisorFails ==
    /\ worker = "working"
    /\ worker' = "idle"
    /\ status' = "failed"
    /\ UNCHANGED <<body, result, runs, slot, at, reply, outcome, dbFault>>

\* emit_progress("complete", "completed") sets the status, not the result.
SupervisorCompletes ==
    /\ worker = "working"
    /\ worker' = "emitted"
    /\ status' = "completed"
    /\ UNCHANGED <<body, result, runs, slot, at, reply, outcome, dbFault>>

\* update_task_status then writes the result.
SupervisorWritesResult ==
    /\ worker = "emitted"
    /\ worker' = "idle"
    /\ status' = "completed"
    /\ result' \in Results
    /\ UNCHANGED <<body, runs, slot, at, reply, outcome, dbFault>>

Supervisor ==
    SupervisorStarts \/ SupervisorFails \/ SupervisorCompletes \/ SupervisorWritesResult

-------------------------------------------------------------------------------
\* Every request is answered, or lost in a crash, and the task is not run again.
Terminated ==
    /\ \A r \in Requests : at[r] \in {"answered", "crashed"}
    /\ worker = "idle" /\ runs = MaxRuns
    /\ UNCHANGED vars

Next ==
    \/ \E r \in Requests : Handle(r) \/ ClaimFails(r) \/ Crash(r)
    \/ Supervisor
    \/ Terminated

Spec == Init /\ [][Next]_vars

\* A handler the event loop has started keeps running: pymongo calls return and the
\* send is cut off by httpx after 10 s.  Faults and the supervisor are not fair.
FairSpec == Spec /\ \A r \in Requests : WF_vars(Handle(r))

-------------------------------------------------------------------------------
(* Properties.                                                             *)

\* The approvals array never holds two records of one candidate (main.py's rule R1),
\* whatever requests race and whatever write raised after it took effect.
OneRecordPerCandidate ==
    \A q, r \in Requests :
        HasRecord(q) /\ HasRecord(r) /\ Member(q) = Member(r) => q = r

\* "The slot is a per-(task_id, member_id) lock": two handlers are never both between
\* the claim and the final write for one candidate.
ClaimIsALock ==
    \A q, r \in Requests :
        InWindow(q) /\ InWindow(r) /\ Member(q) = Member(r) => q = r

\* A candidate gets a second message only if the send of an earlier one raised after
\* Messaging had stored it; a confirmed send is never repeated.  That includes the send whose
\* final write failed, where a comment in the code expects a duplicate: the slot stays
\* send_pending, and every later approval of the candidate is answered 409.
DuplicateOnlyAfterLostAnswer ==
    \A q, r \in Requests :
        /\ Delivered(q) /\ Delivered(r)
        /\ Member(q) = Member(r) /\ q # r
        => "lost_answer" \in {outcome[q], outcome[r]}

\* The record tells the truth about the message: completed only if Messaging stored it,
\* rejected only on a request to reject, and a record that says the send failed is never
\* of a send that was confirmed.
RecordIsHonest ==
    \A r \in Requests :
        /\ slot[r] = "completed" => outcome[r] = "ok"
        /\ slot[r] \in {"recorded", "rejected"} => IsReject(r) /\ outcome[r] = "none"
        /\ slot[r] = "send_failed" => outcome[r] \in {"lost_answer", "refused"}

\* No slot is claimed before a result was written, although the status is already
\* completed in the window between the supervisor's last two writes.
NoSlotWithoutResult ==
    (\E r \in Requests : HasRecord(r)) => status # "absent" /\ runs > 0 /\ result \in Results

\* The decision about c in approvals s of requests with bodies b: its record's state.
StateIn(s, b, c) ==
    IF \E r \in Requests : s[r] # "none" /\ b[r].member = c
    THEN s[CHOOSE r \in Requests : s[r] # "none" /\ b[r].member = c]
    ELSE "open"

DecisionOf(c) == StateIn(slot, body, c)

Abstract == INSTANCE OutreachDecision WITH decision <- [c \in Candidates |-> DecisionOf(c)]

\* The handler implements the one-decision-per-candidate promise.
RefinesOutreachDecision == Abstract!Spec

\* Every request that is not lost in a crash is answered, and every slot it claimed
\* leaves its in-flight state unless one of its MongoDB writes raised.
EveryClaimSettles ==
    \A r \in Requests :
        (at[r] # "new" \/ HasRecord(r)) ~>
            \/ at[r] = "crashed"
            \/ /\ at[r] = "answered"
               /\ slot[r] \in {"send_pending", "recorded"} => r \in dbFault
===============================================================================
