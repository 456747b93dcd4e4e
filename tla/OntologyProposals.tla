------------------------- MODULE OntologyProposals -------------------------
(***************************************************************************)
(* The review of ontology proposals: the OntologyProposal rows in Neo4j     *)
(* and the request handlers that work on them concurrently                  *)
(* (services/ontology_service.py, graph/nodes/ontology_learner.py,          *)
(* graph/nodes/ontology_update_handler.py and the repository under them).   *)
(*                                                                         *)
(* The handlers are coroutines of one asyncio loop, possibly of several     *)
(* server processes, over one database: between two database calls of a     *)
(* handler any other handler may run.  Each database call is one step; one  *)
(* Cypher statement is taken to be atomic, as the repository's comments do. *)
(*                                                                         *)
(* A task is one request or one background learning item.  Each is used     *)
(* once, so the set Tasks bounds the number of requests of a behaviour.     *)
(***************************************************************************)
EXTENDS Integers, FiniteSets

CONSTANTS
  Ids,          \* proposal identifiers (uuid4)
  Existing,     \* the rows already stored when a behaviour starts
  Tasks,        \* requests and learning items
  Kinds,        \* bound: the kinds of request an instance has
  Keys,         \* lower-cased <<term, category>> pairs, what merging compares
  Contents,     \* type, parent and canonical of a proposal, up to renaming
  None,         \* an optional field left out
  MinFrequency, \* auto_approve_min_frequency
  DailyLimit,   \* auto_approve_daily_limit, 0 for no limit
  MaxDay,       \* bound: the days a behaviour spans
  MaxFailures   \* bound: the database calls of a behaviour that fail

ASSUME ConstantsAssumption ==
  /\ Existing \subseteq Ids
  /\ None \notin Keys \cup Contents
  /\ MinFrequency \in Nat \ {0}
  /\ DailyLimit \in Nat
  /\ MaxDay \in Nat
  /\ MaxFailures \in Nat

VARIABLES
  proposal,  \* the OntologyProposal rows
  today,     \* the database's date()
  failures,  \* database calls that have failed so far
  pc,        \* where each task is
  op,        \* what each task was asked to do
  target,    \* the proposal each task works on
  ask,       \* the key and content the request carries
  seen,      \* the row the client saw; its version is expected_version
  row,       \* the row the handler read or got back last
  won        \* the proposals whose decision the task was told is its own

vars == <<proposal, today, failures, pc, op, target, ask, seen, row, won>>
request == <<op, target, ask, seen>>

-----------------------------------------------------------------------------
(* Rows                                                                     *)

Statuses == {"absent", "pending", "approved", "rejected", "auto_approved"}

Row == [status: Statuses, version: Nat, key: Keys \cup {None},
        content: Contents \cup {None}, frequency: Nat, trusted: BOOLEAN,
        day: Nat, applied: BOOLEAN]

\* "trusted": confidence >= auto_approve_confidence and an allowed type.
NewRow(k, c, trusted) ==
  [status |-> "pending", version |-> 1, key |-> k, content |-> c,
   frequency |-> 1, trusted |-> trusted, day |-> 0, applied |-> FALSE]

NoRow == [NewRow(None, None, FALSE) EXCEPT !.status = "absent", !.version = 0]

Decided == {"approved", "rejected", "auto_approved"}
Stored == {p \in Ids : proposal[p].status # "absent"}
Matching(k) == {p \in Stored : proposal[p].key = k}

AmendedMutant(r, a) == \* the version is not raised
  [r EXCEPT !.key = IF a.key = None THEN @ ELSE a.key,
            !.content = IF a.content = None THEN @ ELSE a.content]

\* The optional fields of a request replace the row's, the others stay.
Amended(r, a) ==
  [r EXCEPT !.key = IF a.key = None THEN @ ELSE a.key,
            !.content = IF a.content = None THEN @ ELSE a.content,
            !.version = @ + 1]

MergedMutant(r) == \* a merge submits the proposal for review again
  [r EXCEPT !.version = @ + 1, !.frequency = @ + 1, !.status = "pending"]

\* save_ontology_proposal on a row that exists, whatever its status.
Merged(r) == [r EXCEPT !.version = @ + 1, !.frequency = @ + 1]

Counted(r) == [r EXCEPT !.frequency = @ + 1]

WithStatus(r, s) == [r EXCEPT !.status = s, !.version = @ + 1]

AutoApprovedMutant(r) == \* a status ProposalStatus does not have
  [WithStatus(r, "autoapproved") EXCEPT !.day = today]

AutoApproved(r) == [WithStatus(r, "auto_approved") EXCEPT !.day = today]

CanAutoApproveMutant(r) == \* the frequency is not compared
  r.status = "pending" /\ r.trusted

\* can_auto_approve
CanAutoApprove(r) ==
  /\ r.status = "pending"
  /\ r.trusted
  /\ r.frequency >= MinFrequency

ApprovedOn(d) ==
  {p \in Ids : proposal[p].status = "auto_approved" /\ proposal[p].day = d}

-----------------------------------------------------------------------------
(* Tasks                                                                    *)

Ops == {"approve", "reject", "edit", "chat", "chat_unsure", "learn",
        "batch_approve", "batch_reject", "create"}

ASSUME KindsAssumption == Kinds \subseteq Ops

Reviews == {"approve", "reject", "chat"}

Verdict(o) == CASE o \in {"approve", "chat", "batch_approve"} -> "approved"
                [] o \in {"reject", "batch_reject"} -> "rejected"
                [] OTHER -> "auto_approved"

Running == {"read", "cas", "apply", "mark", "count", "save", "auto"}
Answers == {"approved", "applied", "rejected", "edited", "stored", "batched",
            "learned", "conflict", "invalid", "not_found", "error", "stopped"}

Put(p, r) == proposal' = [proposal EXCEPT ![p] = r]
Goto(t, l) == pc' = [pc EXCEPT ![t] = l]
Win(t, ps) == won' = [won EXCEPT ![t] = ps]
Return(t, r) == row' = [row EXCEPT ![t] = r]

NoFailure == UNCHANGED failures
Failure == failures < MaxFailures /\ failures' = failures + 1

NoChange == [key |-> None, content |-> None]
Changes == [key: Keys \cup {None}, content: Contents \cup {None}]

Request(t, o, p, a, r) ==
  /\ pc[t] = "idle"
  /\ o \in Kinds
  /\ op' = [op EXCEPT ![t] = o]
  /\ target' = [target EXCEPT ![t] = p]
  /\ ask' = [ask EXCEPT ![t] = a]
  /\ seen' = [seen EXCEPT ![t] = r]

-----------------------------------------------------------------------------
(* The administrator's requests                                             *)

\* A detail page is read (GET /proposals/{id}) and a request about it is sent
\* later, with the version of the page: approve_proposal, reject_proposal and
\* update_proposal start here.
Submit(t, o, p, a) ==
  /\ o \in {"approve", "reject", "edit"}
  /\ p \in Stored
  /\ a \in Changes
  /\ o = "reject" => a = NoChange
  /\ o = "approve" => a.key = None
  /\ Request(t, o, p, a, proposal[p])
  /\ Goto(t, "read")
  /\ UNCHANGED <<proposal, today, failures, row, won>>

\* create_proposal: always a new row, even when the key has one already.
Create(t, p, k, c, trusted) ==
  /\ p \notin Stored
  /\ Request(t, "create", p, [key |-> k, content |-> c], NoRow)
  /\ \/ NoFailure /\ Put(p, NewRow(k, c, trusted)) /\ Goto(t, "stored")
     \/ /\ Failure
        /\ Put(p, NewRow(k, c, trusted)) \/ UNCHANGED proposal
        /\ Goto(t, "error")
  /\ UNCHANGED <<today, row, won>>

PendingOfMutant(ps) == ps \* the batch decides every row of the list

\* batch_approve and batch_reject: one statement decides every row of the list
\* that is pending; nothing is applied to the ontology.
PendingOf(ps) == {p \in ps : proposal[p].status = "pending"}

DecideAll(ps, s) ==
  proposal' = [p \in Ids |-> IF p \in PendingOf(ps)
                             THEN WithStatus(proposal[p], s)
                             ELSE proposal[p]]

Batch(t, o, ps) ==
  /\ o \in {"batch_approve", "batch_reject"}
  /\ ps # {}
  /\ Request(t, o, None, NoChange, NoRow)
  /\ \/ NoFailure /\ DecideAll(ps, Verdict(o)) /\ Win(t, PendingOf(ps))
     \/ /\ Failure
        /\ DecideAll(ps, Verdict(o)) \/ UNCHANGED proposal
        /\ UNCHANGED won
  /\ Goto(t, "batched")
  /\ UNCHANGED <<today, row>>

-----------------------------------------------------------------------------
(* approve_proposal, reject_proposal, update_proposal                       *)

CheckMutant(t, r) == \* the status is not checked
  IF r.version # seen[t].version THEN "conflict" ELSE "cas"

\* The checks a handler makes on the row it reads, before it writes.
Check(t, r) ==
  IF op[t] \in Reviews /\ r.status # "pending" THEN "invalid"
  ELSE IF r.version # seen[t].version THEN "conflict"
  ELSE "cas"

\* get_proposal_by_id or get_proposal_current_version; an error reads as None.
Read(t) ==
  /\ pc[t] = "read"
  /\ \/ NoFailure /\ Goto(t, Check(t, proposal[target[t]]))
     \/ Failure /\ Goto(t, "not_found")
  /\ UNCHANGED <<proposal, today, request, row, won>>

\* The row update_proposal_with_version writes for each request.
Override(t) == IF op[t] = "chat" THEN NoChange ELSE ask[t]

Rewritten(t, r) ==
  [Amended(r, Override(t)) EXCEPT
     !.status = IF op[t] \in Reviews THEN Verdict(op[t]) ELSE @]

VersionHoldsMutant(t) == TRUE \* the write does not compare the version

VersionHolds(t) == proposal[target[t]].version = seen[t].version

\* An edit without fields is answered by a plain read, whatever the version.
EmptyEdit(t) == op[t] = "edit" /\ ask[t] = NoChange

AfterWriteMutant(t) == \* a rejected proposal is applied too
  IF op[t] = "edit" THEN "edited" ELSE "apply"

AfterWrite(t) == CASE op[t] = "edit" -> "edited"
                   [] op[t] = "reject" -> "rejected"
                   [] OTHER -> "apply"

UpdateWithVersion(t) ==
  LET p == target[t]
      new == Rewritten(t, proposal[p])
  IN /\ pc[t] = "cas"
     /\ \/ /\ NoFailure
           /\ VersionHolds(t) /\ ~EmptyEdit(t)
           /\ Put(p, new)
           /\ Return(t, new)
           /\ Win(t, IF op[t] \in Reviews THEN {p} ELSE {})
           /\ Goto(t, AfterWrite(t))
        \/ /\ NoFailure
           /\ EmptyEdit(t)
           /\ Return(t, proposal[p])
           /\ Goto(t, "edited")
           /\ UNCHANGED <<proposal, won>>
        \/ /\ NoFailure
           /\ ~VersionHolds(t) /\ ~EmptyEdit(t)
           /\ Goto(t, "conflict")
           /\ UNCHANGED <<proposal, row, won>>
        \/ /\ Failure
           /\ \/ VersionHolds(t) /\ ~EmptyEdit(t) /\ Put(p, new)
              \/ UNCHANGED proposal
           /\ Goto(t, "conflict")
           /\ UNCHANGED <<row, won>>
     /\ UNCHANGED <<today, request>>

\* apply_proposal_to_ontology returns True, or it returns False or raises and
\* the approval stands without it.
Apply(t) ==
  /\ pc[t] = "apply"
  /\ \/ NoFailure /\ Goto(t, "mark")
     \/ Failure /\ Goto(t, "approved")
  /\ UNCHANGED <<proposal, today, request, row, won>>

\* update_proposal_applied_at; the answer says "applied" even if it fails.
MarkApplied(t) ==
  LET p == target[t] IN
  /\ pc[t] = "mark"
  /\ \/ NoFailure /\ Put(p, [proposal[p] EXCEPT !.applied = TRUE])
     \/ /\ Failure
        /\ Put(p, [proposal[p] EXCEPT !.applied = TRUE]) \/ UNCHANGED proposal
  /\ Goto(t, "applied")
  /\ UNCHANGED <<today, request, row, won>>

-----------------------------------------------------------------------------
(* The background learner and the chat handler                              *)

\* _process_single_entity looks for a row with the term's key.
Find(t, k) ==
  /\ \/ \E p \in Matching(k) :
          /\ Request(t, "learn", p, [key |-> k, content |-> None], NoRow)
          /\ Return(t, proposal[p])
          /\ Goto(t, "count")
          /\ NoFailure
     \/ /\ Request(t, "learn", None, [key |-> k, content |-> None], NoRow)
        /\ (Matching(k) = {} /\ NoFailure) \/ Failure
        /\ Goto(t, "save")
        /\ UNCHANGED row
  /\ UNCHANGED <<proposal, today, won>>

AutoOr(r, answer) == IF CanAutoApprove(r) THEN "auto" ELSE answer

\* update_proposal_frequency: the version stays.  The handler counts its own
\* copy of the row too, whether or not the call succeeded.
CountTerm(t) ==
  LET p == target[t] IN
  /\ pc[t] = "count"
  /\ \/ NoFailure /\ Put(p, Counted(proposal[p]))
     \/ Failure /\ (Put(p, Counted(proposal[p])) \/ UNCHANGED proposal)
  /\ Return(t, Counted(row[t]))
  /\ Goto(t, AutoOr(Counted(row[t]), "learned"))
  /\ UNCHANGED <<today, request, won>>

\* The LLM's analysis gives the learner no usable proposal.
NoAnalysis(t) ==
  /\ pc[t] = "save" /\ op[t] = "learn"
  /\ Goto(t, "learned")
  /\ UNCHANGED <<proposal, today, failures, request, row, won>>

\* A chat request the parser understands, with its confidence at or above
\* chat_auto_approve_threshold ("chat") or below it ("chat_unsure").
Chat(t, o, k, c) ==
  /\ o \in {"chat", "chat_unsure"}
  /\ Request(t, o, None, [key |-> k, content |-> c], NoRow)
  /\ Goto(t, "save")
  /\ UNCHANGED <<proposal, today, failures, row, won>>

AfterSave(t, r) == CASE op[t] = "learn" -> AutoOr(r, "learned")
                     [] op[t] = "chat" -> "read"
                     [] OTHER -> "stored"

\* save_ontology_proposal: every row with the key is counted and its version
\* raised, one of them is returned; without one a new row is stored.
SaveMerge(k) ==
  proposal' = [p \in Ids |-> IF p \in Matching(k) THEN Merged(proposal[p])
                                                  ELSE proposal[p]]

Saved(t, p, r) ==
  /\ Return(t, r)
  /\ target' = [target EXCEPT ![t] = p]
  /\ seen' = [seen EXCEPT ![t] = IF op[t] = "chat" THEN r ELSE @]
  /\ Goto(t, AfterSave(t, r))
  /\ UNCHANGED <<op, ask>>

SaveExisting(t) ==
  LET k == ask[t].key IN
  /\ pc[t] = "save"
  /\ Matching(k) # {}
  /\ \/ /\ NoFailure /\ SaveMerge(k)
        /\ \E p \in Matching(k) : Saved(t, p, Merged(proposal[p]))
     \/ /\ Failure
        /\ SaveMerge(k) \/ UNCHANGED proposal
        /\ Goto(t, "error")
        /\ UNCHANGED <<request, row>>
  /\ UNCHANGED <<today, won>>

SaveNew(t, p, c, trusted) ==
  LET new == NewRow(ask[t].key, c, trusted) IN
  /\ pc[t] = "save"
  /\ Matching(ask[t].key) = {}
  /\ p \notin Stored
  /\ op[t] # "learn" => c = ask[t].content
  /\ \/ NoFailure /\ Put(p, new) /\ Saved(t, p, new)
     \/ /\ Failure
        /\ Put(p, new) \/ UNCHANGED proposal
        /\ Goto(t, "error")
        /\ UNCHANGED <<request, row>>
  /\ UNCHANGED <<today, won>>

\* try_auto_approve_with_limit: the version of the row found or saved, and the
\* rows already approved today, in one statement.
RowHolds(t) == proposal[target[t]].version = row[t].version
RoomMutant == \* one more than the limit
  DailyLimit = 0 \/ Cardinality(ApprovedOn(today)) <= DailyLimit

Room == DailyLimit = 0 \/ Cardinality(ApprovedOn(today)) < DailyLimit

TryAutoApprove(t) ==
  LET p == target[t]
      approve == Put(p, AutoApproved(proposal[p]))
  IN /\ pc[t] = "auto"
     /\ \/ RowHolds(t) /\ Room /\ NoFailure /\ approve /\ Win(t, {p})
        \/ ~(RowHolds(t) /\ Room) /\ NoFailure /\ UNCHANGED <<proposal, won>>
        \/ /\ Failure
           /\ (RowHolds(t) /\ Room /\ approve) \/ UNCHANGED proposal
           /\ UNCHANGED won
     /\ Goto(t, "learned")
     /\ UNCHANGED <<today, request, row>>

-----------------------------------------------------------------------------

\* A handler is gone between two calls: its process stops, its node times out
\* (ontology_update_handler runs under a timeout) or its client disconnects.
Stop(t) ==
  /\ pc[t] \in Running
  /\ Goto(t, "stopped")
  /\ UNCHANGED <<proposal, today, failures, request, row, won>>

Midnight ==
  /\ today < MaxDay
  /\ today' = today + 1
  /\ UNCHANGED <<proposal, failures, pc, request, row, won>>

\* Every request has been answered: the behaviour may end here.
Quiet == \A t \in Tasks : pc[t] \in Answers
Rest == Quiet /\ UNCHANGED vars

Init ==
  /\ proposal \in [Ids -> {NoRow} \cup
       {Counted(NewRow(k, c, b)) : k \in Keys, c \in Contents, b \in BOOLEAN}]
  /\ \A p \in Ids : proposal[p] # NoRow <=> p \in Existing
  /\ today = 0
  /\ failures = 0
  /\ pc = [t \in Tasks |-> "idle"]
  /\ op = [t \in Tasks |-> "create"]
  /\ target = [t \in Tasks |-> None]
  /\ ask = [t \in Tasks |-> NoChange]
  /\ seen = [t \in Tasks |-> NoRow]
  /\ row = [t \in Tasks |-> NoRow]
  /\ won = [t \in Tasks |-> {}]

Handle(t) ==
  \/ Read(t)
  \/ UpdateWithVersion(t)
  \/ Apply(t)
  \/ MarkApplied(t)
  \/ CountTerm(t)
  \/ NoAnalysis(t)
  \/ SaveExisting(t)
  \/ \E p \in Ids, c \in Contents, b \in BOOLEAN : SaveNew(t, p, c, b)
  \/ TryAutoApprove(t)
  \/ Stop(t)

Arrive(t) ==
  \/ \E o \in Kinds, p \in Ids, a \in Changes : Submit(t, o, p, a)
  \/ \E p \in Ids, k \in Keys, c \in Contents, b \in BOOLEAN :
       Create(t, p, k, c, b)
  \/ \E o \in Kinds, ps \in SUBSET Stored : Batch(t, o, ps)
  \/ \E k \in Keys : Find(t, k)
  \/ \E o \in Kinds, k \in Keys, c \in Contents : Chat(t, o, k, c)

Next == (\E t \in Tasks : Handle(t) \/ Arrive(t)) \/ Midnight \/ Rest

Spec == Init /\ [][Next]_vars

-----------------------------------------------------------------------------
(* Properties                                                               *)

\* The variables hold what the code can put in them.
TypeOK ==
  /\ proposal \in [Ids -> Row]
  /\ today \in Nat
  /\ failures \in Nat
  /\ pc \in [Tasks -> {"idle"} \cup Running \cup Answers]
  /\ op \in [Tasks -> Ops]
  /\ target \in [Tasks -> Ids \cup {None}]
  /\ ask \in [Tasks -> Changes]
  /\ seen \in [Tasks -> Row]
  /\ row \in [Tasks -> Row]
  /\ won \in [Tasks -> SUBSET Ids]

\* A decided proposal is never decided again and never becomes pending: not
\* by a late reviewer, a batch, the learner or a chat request that merges
\* into it (the status checks and the version compared by every writer).
DecisionFinal ==
  [][\A p \in Ids : proposal[p].status \in Decided =>
                      proposal'[p].status = proposal[p].status]_vars

\* At most one request is told that the decision on a proposal is its own.
OneWinner ==
  \A t, u \in Tasks : t # u => won[t] \cap won[u] = {}

\* What a request was told about a proposal it decided stays true.
AnswerStands ==
  \A t \in Tasks : \A p \in won[t] : proposal[p].status = Verdict(op[t])

\* A reviewer approves what the page showed, with the reviewer's own changes:
\* an edit or a merge after the page was read makes the approval a conflict.
AsSeen(t) ==
  op[t] = "approve" /\ pc[t] \in {"apply", "mark", "applied"} =>
    /\ row[t].key = seen[t].key
    /\ row[t].content = IF ask[t].content = None THEN seen[t].content
                                                  ELSE ask[t].content

ApprovedAsSeen == \A t \in Tasks : AsSeen(t)

\* No day has more automatic approvals than auto_approve_daily_limit allows.
WithinDailyLimit ==
  DailyLimit > 0 =>
    \A d \in 0..MaxDay : Cardinality(ApprovedOn(d)) <= DailyLimit

\* The learner approves a term only once it was met often enough: the stored
\* frequency misses at most the counts whose write failed.
Earned(r) == r.trusted /\ r.frequency + failures >= MinFrequency

AutoApprovedOften ==
  \A p \in Ids : proposal[p].status = "auto_approved" => Earned(proposal[p])

\* applied_at is only ever set on a proposal a reviewer or the chat approved.
AppliedWasApproved ==
  \A p \in Ids : proposal[p].applied => proposal[p].status = "approved"

\* The handlers, their versions and their failures implement the ledger of
\* ProposalReview: each step of a handler is one step of the ledger or none.
Review == INSTANCE ProposalReview WITH
  status <- [p \in Ids |-> proposal[p].status],
  applied <- [p \in Ids |-> proposal[p].applied],
  approvedOn <- [p \in Ids |-> proposal[p].day]

ImplementsReview == Review!Spec

-----------------------------------------------------------------------------
(* The invariant that makes the properties inductive                        *)

\* A task's copy of a row is not ahead of the stored row, and while the
\* versions agree the rows agree on everything a decision depends on.
Snapshot(p, r) ==
  /\ p \in Stored
  /\ r.version <= proposal[p].version
  /\ r.version = proposal[p].version =>
       /\ r.status = proposal[p].status
       /\ r.key = proposal[p].key
       /\ r.content = proposal[p].content

\* A learner's copy counts the term at most as often as the stored row and the
\* counts whose write failed.
Tallied(p, r) ==
  /\ r.trusted = proposal[p].trusted
  /\ r.frequency <= proposal[p].frequency + failures

\* A handler about to decide holds a copy of the row as it was when pending.
\* With the version check of its write this makes every decision the first.
Informed(t) ==
  /\ pc[t] \in {"read", "cas"} =>
       Snapshot(target[t], seen[t]) /\ op[t] \in Reviews \cup {"edit"}
  /\ pc[t] = "cas" /\ op[t] \in Reviews => seen[t].status = "pending"
  /\ pc[t] \in {"read", "cas"} /\ op[t] = "approve" => ask[t].key = None
  /\ pc[t] \in {"count", "auto"} =>
       /\ Snapshot(target[t], row[t])
       /\ Tallied(target[t], row[t])
       /\ op[t] = "learn"
  /\ pc[t] = "auto" => CanAutoApprove(row[t])
  /\ pc[t] = "save" => op[t] \in {"learn", "chat", "chat_unsure"}
  /\ pc[t] \in {"apply", "mark"} =>
       op[t] \in {"approve", "chat"} /\ target[t] \in won[t]
  /\ pc[t] \in {"idle", "read", "cas", "count", "save", "auto"} => won[t] = {}

HandlersInformed == \A t \in Tasks : Informed(t)

\* Together these are inductive: what a handler copied before an await is
\* either what is stored or what the version check of its write will refuse.
Inv == /\ TypeOK
       /\ \A p \in Ids \ Stored : proposal[p] = NoRow
       /\ HandlersInformed
       /\ OneWinner
       /\ AnswerStands
       /\ ApprovedAsSeen
       /\ AppliedWasApproved
       /\ AutoApprovedOften

=============================================================================
