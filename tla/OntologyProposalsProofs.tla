---------------------- MODULE OntologyProposalsProofs ----------------------
(***************************************************************************)
(* Theorems about OntologyProposals, for any number of proposals, tasks,    *)
(* keys, contents, days and failures.                                       *)
(*                                                                         *)
(* The argument: every write to a row obeys RowStep (a change of status,    *)
(* key or content raises the version; a decided row keeps its status; a     *)
(* count never sinks).  Therefore a handler whose copy of a row has the     *)
(* stored version holds the row as it is, and the version check of its      *)
(* write makes a decision taken on a pending copy a decision on a pending   *)
(* row.  Each step is then a step of the ledger of ProposalReview or none,  *)
(* and what bounds the ledger's automatic approvals bounds the rows'.       *)
(***************************************************************************)
EXTENDS OntologyProposals, FiniteSetTheorems, TLAPS

USE DEF Running, Answers, Ops, Reviews, Decided, Statuses

-----------------------------------------------------------------------------
(* Rows                                                                     *)

\* Every way of writing a row gives a row (the SET clauses of the statements).
LEMMA RowWrites ==
  ASSUME NEW r \in Row, NEW a \in Changes, NEW s \in Statuses, today \in Nat
  PROVE  /\ Amended(r, a) \in Row
         /\ Merged(r) \in Row
         /\ Counted(r) \in Row
         /\ WithStatus(r, s) \in Row
         /\ AutoApproved(r) \in Row
         /\ [r EXCEPT !.applied = TRUE] \in Row
         /\ [Amended(r, a) EXCEPT !.status = s] \in Row
<1>0. /\ r.version \in Nat /\ r.version + 1 \in Nat
      /\ r.frequency \in Nat /\ r.frequency + 1 \in Nat
  BY DEF Row
<1>1. Amended(r, a) \in Row
  <2>1. \A k \in Keys \cup {None}, c \in Contents \cup {None}, v \in Nat :
          [r EXCEPT !.key = k, !.content = c, !.version = v] \in Row
    BY DEF Row
  <2>2. /\ (IF a.key = None THEN r.key ELSE a.key) \in Keys \cup {None}
        /\ (IF a.content = None THEN r.content ELSE a.content)
             \in Contents \cup {None}
    BY DEF Row, Changes
  <2> QED
    BY <1>0, <2>1, <2>2 DEF Amended
<1>2. Merged(r) \in Row /\ Counted(r) \in Row
  <2>1. \A v, f \in Nat : /\ [r EXCEPT !.version = v, !.frequency = f] \in Row
                          /\ [r EXCEPT !.frequency = f] \in Row
    BY DEF Row
  <2> QED
    BY <1>0, <2>1 DEF Merged, Counted
<1>3. \A v \in Statuses : WithStatus(r, v) \in Row
  <2>1. \A v \in Statuses, n \in Nat :
          [r EXCEPT !.status = v, !.version = n] \in Row
    BY DEF Row
  <2> QED
    BY <1>0, <2>1 DEF WithStatus
<1>4. AutoApproved(r) \in Row
  <2>1. WithStatus(r, "auto_approved") \in Row
    BY <1>3
  <2> QED
    BY <2>1 DEF Row, AutoApproved
<1>5. [r EXCEPT !.applied = TRUE] \in Row
  BY DEF Row
<1>6. [Amended(r, a) EXCEPT !.status = s] \in Row
  BY <1>1 DEF Row
<1> QED
  BY <1>1, <1>2, <1>3, <1>4, <1>5, <1>6

\* A new row is a row, and so is the absent one.
LEMMA NewRows ==
  /\ NoRow \in Row
  /\ \A k \in Keys \cup {None}, c \in Contents \cup {None}, b \in BOOLEAN :
       NewRow(k, c, b) \in Row
  BY DEF Row, NewRow, NoRow

\* What one step may do to a stored row.
RowStep(r, s) ==
  /\ s.version >= r.version
  /\ s.version = r.version =>
       s.status = r.status /\ s.key = r.key /\ s.content = r.content
  /\ r.status \in Decided => s.status = r.status
  /\ s.applied => r.applied \/ s.status = "approved"
  /\ s.status = "absent" => s = r
  /\ s.frequency >= r.frequency
  /\ r.status # "absent" => s.trusted = r.trusted
  /\ s.status = "auto_approved" => r.status = "auto_approved" \/ Earned(r)

\* The writes obey RowStep; those that decide do so on a pending row.
LEMMA RowSteps ==
  ASSUME NEW r \in Row, NEW a \in Changes, NEW s \in {"approved", "rejected"}
  PROVE  /\ RowStep(r, r)
         /\ RowStep(r, Counted(r)) \/ r.status = "absent"
         /\ RowStep(r, Merged(r)) \/ r.status = "absent"
         /\ RowStep(r, Amended(r, a)) \/ r.status = "absent"
         /\ r.status = "pending" =>
              /\ RowStep(r, WithStatus(r, s))
              /\ Earned(r) => RowStep(r, AutoApproved(r))
              /\ RowStep(r, [Amended(r, a) EXCEPT !.status = s])
         /\ r.status = "approved" => RowStep(r, [r EXCEPT !.applied = TRUE])
         /\ r = NoRow =>
              \A k \in Keys \cup {None}, c \in Contents \cup {None},
                 b \in BOOLEAN : RowStep(r, NewRow(k, c, b))
<1>0. /\ r.version \in Nat /\ r.status \in Statuses /\ r.applied \in BOOLEAN
      /\ r.frequency \in Nat
  BY DEF Row
<1>1. RowStep(r, r)
  BY <1>0 DEF RowStep
<1>2. r.status # "absent" => RowStep(r, Counted(r))
  BY <1>0 DEF RowStep, Counted, Row
<1>3. r.status # "absent" => RowStep(r, Merged(r))
  BY <1>0 DEF RowStep, Merged, Row
<1>4. r.status # "absent" => RowStep(r, Amended(r, a))
  BY <1>0 DEF RowStep, Amended, Row
<1>5. r.status = "pending" => RowStep(r, WithStatus(r, s))
  BY <1>0 DEF RowStep, WithStatus, Row
<1>6. r.status = "pending" /\ Earned(r) => RowStep(r, AutoApproved(r))
  BY <1>0 DEF RowStep, WithStatus, AutoApproved, Row
<1>7. r.status = "pending" => RowStep(r, [Amended(r, a) EXCEPT !.status = s])
  BY <1>0 DEF RowStep, Amended, Row
<1>8. r.status = "approved" => RowStep(r, [r EXCEPT !.applied = TRUE])
  BY <1>0 DEF RowStep, Row
<1>9. ASSUME r = NoRow, NEW k \in Keys \cup {None},
             NEW c \in Contents \cup {None}, NEW b \in BOOLEAN
      PROVE  RowStep(r, NewRow(k, c, b))
  BY <1>9 DEF RowStep, NewRow, NoRow
<1> QED
  BY <1>1, <1>2, <1>3, <1>4, <1>5, <1>6, <1>7, <1>8, <1>9

-----------------------------------------------------------------------------
(* Types                                                                    *)

\* A step of the task t leaves the other tasks alone.
LEMMA Typed ==
  ASSUME TypeOK, NEW t \in Tasks
  PROVE  /\ \A l \in {"idle"} \cup Running \cup Answers :
              Goto(t, l) => pc' \in [Tasks -> {"idle"} \cup Running \cup Answers]
         /\ \A r \in Row : Return(t, r) => row' \in [Tasks -> Row]
         /\ \A ps \in SUBSET Ids : Win(t, ps) => won' \in [Tasks -> SUBSET Ids]
         /\ \A p \in Ids, r \in Row : Put(p, r) => proposal' \in [Ids -> Row]
         /\ NoFailure \/ Failure => failures' \in Nat
         /\ \A o \in Ops, p \in Ids \cup {None}, a \in Changes, r \in Row :
              Request(t, o, p, a, r) =>
                /\ op' \in [Tasks -> Ops]
                /\ target' \in [Tasks -> Ids \cup {None}]
                /\ ask' \in [Tasks -> Changes]
                /\ seen' \in [Tasks -> Row]
  BY DEF TypeOK, Goto, Return, Win, Put, NoFailure, Failure, Request

\* Every step keeps the types.
LEMMA TypeStep ==
  ASSUME Inv, [Next]_vars
  PROVE  TypeOK'
<1> USE KindsAssumption, ConstantsAssumption DEF Inv
<1> TypeOK
  OBVIOUS
<1>1. ASSUME NEW t \in Tasks, NEW o \in Kinds, NEW p \in Ids, NEW a \in Changes,
             Submit(t, o, p, a)
      PROVE  TypeOK'
  BY <1>1, Typed DEF TypeOK, Submit, Stored
<1>2. ASSUME NEW t \in Tasks, NEW p \in Ids, NEW k \in Keys, NEW c \in Contents,
             NEW b \in BOOLEAN, Create(t, p, k, c, b)
      PROVE  TypeOK'
  BY <1>2, Typed, NewRows DEF TypeOK, Create, Changes
<1>3. ASSUME NEW t \in Tasks, NEW o \in Kinds, NEW ps \in SUBSET Stored,
             Batch(t, o, ps)
      PROVE  TypeOK'
  <2>1. NoChange \in Changes
    BY DEF Changes, NoChange
  <2>2. Verdict(o) \in Statuses
    BY DEF Verdict
  <2>3. \A p \in Ids : WithStatus(proposal[p], Verdict(o)) \in Row
    BY <2>1, <2>2, RowWrites DEF TypeOK
  <2>4. DecideAll(ps, Verdict(o)) => proposal' \in [Ids -> Row]
    BY <2>3 DEF TypeOK, DecideAll
  <2>5. PendingOf(ps) \in SUBSET Ids
    BY DEF PendingOf, Stored
  <2> QED
    BY <1>3, <2>1, <2>4, <2>5, Typed, NewRows DEF TypeOK, Batch
<1>4. ASSUME NEW t \in Tasks, Read(t)
      PROVE  TypeOK'
  BY <1>4, Typed DEF TypeOK, Read, Check, request
<1>5. ASSUME NEW t \in Tasks, UpdateWithVersion(t)
      PROVE  TypeOK'
  <2>1. target[t] \in Ids /\ op[t] \in Reviews \cup {"edit"}
    BY <1>5 DEF UpdateWithVersion, HandlersInformed, Informed, Snapshot, Stored
  <2>2. Override(t) \in Changes
    BY DEF TypeOK, Override, NoChange, Changes
  <2>3. Rewritten(t, proposal[target[t]]) \in Row
    <3> DEFINE amended == Amended(proposal[target[t]], Override(t))
               s == IF op[t] \in Reviews THEN Verdict(op[t]) ELSE amended.status
    <3>1. amended \in Row
      BY <2>1, <2>2, RowWrites DEF TypeOK
    <3>2. s \in Statuses
      BY <3>1 DEF Verdict, Row
    <3>3. [amended EXCEPT !.status = s] \in Row
      BY <3>1, <3>2 DEF Row
    <3> QED
      BY <3>3 DEF Rewritten
  <2> QED
    BY <1>5, <2>1, <2>3, Typed
    DEF TypeOK, UpdateWithVersion, AfterWrite, request
<1>6. ASSUME NEW t \in Tasks, Apply(t)
      PROVE  TypeOK'
  BY <1>6, Typed DEF TypeOK, Apply, request
<1>7. ASSUME NEW t \in Tasks, MarkApplied(t)
      PROVE  TypeOK'
  <2>1. target[t] \in Ids
    BY <1>7 DEF MarkApplied, HandlersInformed, Informed, TypeOK
  <2> QED
    BY <1>7, <2>1, Typed, RowWrites DEF TypeOK, MarkApplied, request
<1>8. ASSUME NEW t \in Tasks, NEW k \in Keys, Find(t, k)
      PROVE  TypeOK'
  BY <1>8, Typed, NewRows DEF TypeOK, Find, Matching, Stored, Changes
<1>9. ASSUME NEW t \in Tasks, CountTerm(t)
      PROVE  TypeOK'
  <2>1. target[t] \in Ids
    BY <1>9 DEF CountTerm, HandlersInformed, Informed, Snapshot, Stored
  <2>2. Counted(proposal[target[t]]) \in Row /\ Counted(row[t]) \in Row
    BY <2>1, RowWrites DEF TypeOK
  <2> QED
    BY <1>9, <2>1, <2>2, Typed DEF TypeOK, CountTerm, AutoOr, request
<1>10. ASSUME NEW t \in Tasks, NoAnalysis(t)
       PROVE  TypeOK'
  BY <1>10, Typed DEF TypeOK, NoAnalysis, request
<1>11. ASSUME NEW t \in Tasks, NEW o \in Kinds, NEW k \in Keys,
              NEW c \in Contents, Chat(t, o, k, c)
       PROVE  TypeOK'
  <2>1. [key |-> k, content |-> c] \in Changes
    BY DEF Changes
  <2> QED
    BY <1>11, <2>1, Typed, NewRows DEF TypeOK, Chat
<1>12. ASSUME NEW t \in Tasks, NEW p \in Ids, NEW r \in Row, Saved(t, p, r)
       PROVE  /\ pc' \in [Tasks -> {"idle"} \cup Running \cup Answers]
              /\ row' \in [Tasks -> Row]
              /\ op' \in [Tasks -> Ops]
              /\ target' \in [Tasks -> Ids \cup {None}]
              /\ ask' \in [Tasks -> Changes]
              /\ seen' \in [Tasks -> Row]
  BY <1>12, Typed DEF TypeOK, Saved, AfterSave, AutoOr
<1>13. ASSUME NEW t \in Tasks, SaveExisting(t)
       PROVE  TypeOK'
  <2>1. \A p \in Ids : Merged(proposal[p]) \in Row
    BY RowWrites DEF TypeOK
  <2>2. \A k : SaveMerge(k) => proposal' \in [Ids -> Row]
    BY <2>1 DEF TypeOK, SaveMerge
  <2> QED
    BY <1>12, <1>13, <2>1, <2>2, Typed
    DEF TypeOK, SaveExisting, Matching, Stored, request
<1>14. ASSUME NEW t \in Tasks, NEW p \in Ids, NEW c \in Contents,
              NEW b \in BOOLEAN, SaveNew(t, p, c, b)
       PROVE  TypeOK'
  <2>1. NewRow(ask[t].key, c, b) \in Row
    BY NewRows DEF TypeOK, Changes
  <2> QED
    BY <1>12, <1>14, <2>1, Typed DEF TypeOK, SaveNew, request
<1>15. ASSUME NEW t \in Tasks, TryAutoApprove(t)
       PROVE  TypeOK'
  <2>1. target[t] \in Ids
    BY <1>15 DEF TryAutoApprove, HandlersInformed, Informed, Snapshot, Stored
  <2>2. AutoApproved(proposal[target[t]]) \in Row
    BY <2>1, RowWrites DEF TypeOK
  <2> QED
    BY <1>15, <2>1, <2>2, Typed DEF TypeOK, TryAutoApprove, request
<1>16. ASSUME NEW t \in Tasks, Stop(t)
       PROVE  TypeOK'
  BY <1>16, Typed DEF TypeOK, Stop, request
<1>17. CASE Midnight
  BY <1>17 DEF TypeOK, Midnight, request
<1>18. CASE UNCHANGED vars
  BY <1>18 DEF TypeOK, vars
<1> QED
  BY <1>1, <1>2, <1>3, <1>4, <1>5, <1>6, <1>7, <1>8, <1>9, <1>10, <1>11,
     <1>13, <1>14, <1>15, <1>16, <1>17, <1>18
  DEF Next, Handle, Arrive, Rest

-----------------------------------------------------------------------------
(* Rows obey RowStep                                                        *)

\* Writing one row so, or none, makes all rows obey RowStep.
LEMMA OneWrite ==
  ASSUME TypeOK, NEW p \in Ids, NEW r, RowStep(proposal[p], r),
         Put(p, r) \/ UNCHANGED proposal
  PROVE  \A q \in Ids : RowStep(proposal[q], proposal'[q])
<1>1. \A q \in Ids : RowStep(proposal[q], proposal[q])
  BY RowSteps DEF TypeOK, Row, RowStep
<1> QED
  BY <1>1 DEF TypeOK, Put

\* Every step changes the stored rows as RowStep says.
LEMMA RowsStep ==
  ASSUME Inv, [Next]_vars
  PROVE  \A p \in Ids : RowStep(proposal[p], proposal'[p])
<1> USE DEF Inv
<1> DEFINE Goal == \A p \in Ids : RowStep(proposal[p], proposal'[p])
<1>0. TypeOK /\ NoChange \in Changes
  BY DEF NoChange, Changes
<1>1. ASSUME UNCHANGED proposal PROVE Goal
  BY <1>0, <1>1 DEF TypeOK, Row, RowStep
<1>2. ASSUME NEW t \in Tasks, NEW p \in Ids, NEW k \in Keys, NEW c \in Contents,
             NEW b \in BOOLEAN, Create(t, p, k, c, b)
      PROVE  Goal
  <2>1. proposal[p] = NoRow
    BY <1>2 DEF Create
  <2>2. RowStep(proposal[p], NewRow(k, c, b))
    BY <2>1, <1>0, RowSteps, NewRows
  <2> QED
    BY <1>2, <2>2, OneWrite DEF Create
<1>3. ASSUME NEW t \in Tasks, NEW o \in Kinds, NEW ps \in SUBSET Stored,
             Batch(t, o, ps)
      PROVE  Goal
  <2>1. Verdict(o) \in {"approved", "rejected"}
    BY <1>3 DEF Batch, Verdict
  <2>2. \A p \in PendingOf(ps) :
          RowStep(proposal[p], WithStatus(proposal[p], Verdict(o)))
    BY <2>1, <1>0, RowSteps DEF PendingOf, Stored, TypeOK
  <2>3. CASE UNCHANGED proposal
    BY <1>1, <2>3
  <2>4. CASE DecideAll(ps, Verdict(o))
    BY <2>2, <2>4, <1>0, RowSteps DEF DecideAll, TypeOK
  <2> QED
    BY <1>3, <2>3, <2>4 DEF Batch
<1>4. ASSUME NEW t \in Tasks, UpdateWithVersion(t)
      PROVE  Goal
  <2> DEFINE p == target[t]
  <2>1. p \in Stored /\ p \in Ids /\ op[t] \in Reviews \cup {"edit"}
    BY <1>4 DEF UpdateWithVersion, HandlersInformed, Informed, Snapshot, Stored
  <2>2. Override(t) \in Changes
    BY DEF TypeOK, Override, NoChange, Changes
  <2>3. VersionHolds(t) => RowStep(proposal[p], Rewritten(t, proposal[p]))
    <3>1. CASE op[t] \in Reviews
      <4>1. Verdict(op[t]) \in {"approved", "rejected"}
        BY <3>1 DEF Verdict
      <4>2. VersionHolds(t) => proposal[p].status = "pending"
        BY <1>4, <3>1 DEF UpdateWithVersion, HandlersInformed, Informed,
                          Snapshot, VersionHolds
      <4> QED
        BY <2>1, <2>2, <3>1, <4>1, <4>2, RowSteps DEF TypeOK, Rewritten
    <3>2. CASE op[t] = "edit"
      <4> DEFINE amended == Amended(proposal[p], Override(t))
      <4>1. amended \in Row
        BY <2>1, <2>2, RowWrites DEF TypeOK
      <4>2. Rewritten(t, proposal[p]) = amended
        BY <3>2, <4>1 DEF Rewritten, Row
      <4> QED
        BY <2>1, <2>2, <4>2, <1>0, RowSteps DEF TypeOK, Stored
    <3> QED
      BY <2>1, <3>1, <3>2
  <2>4. UNCHANGED proposal \/ (VersionHolds(t) /\ Put(p, Rewritten(t, proposal[p])))
    BY <1>4 DEF UpdateWithVersion
  <2> QED
    BY <1>1, <2>1, <2>3, <2>4, OneWrite
<1>5. ASSUME NEW t \in Tasks, MarkApplied(t)
      PROVE  Goal
  <2> DEFINE p == target[t]
  <2>1. p \in Ids /\ proposal[p].status = "approved"
    BY <1>5 DEF MarkApplied, HandlersInformed, Informed, AnswerStands,
                Verdict, TypeOK
  <2>2. RowStep(proposal[p], [proposal[p] EXCEPT !.applied = TRUE])
    BY <2>1, <1>0, RowSteps DEF TypeOK
  <2> QED
    BY <1>5, <2>1, <2>2, OneWrite DEF MarkApplied
<1>6. ASSUME NEW t \in Tasks, CountTerm(t)
      PROVE  Goal
  <2> DEFINE p == target[t]
  <2>1. p \in Ids /\ proposal[p].status # "absent"
    BY <1>6 DEF CountTerm, HandlersInformed, Informed, Snapshot, Stored
  <2>2. RowStep(proposal[p], Counted(proposal[p]))
    BY <2>1, <1>0, RowSteps DEF TypeOK
  <2> QED
    BY <1>6, <2>1, <2>2, OneWrite DEF CountTerm
<1>7. ASSUME NEW t \in Tasks, SaveExisting(t)
      PROVE  Goal
  <2>1. \A p \in Ids : p \in Matching(ask[t].key) =>
                         RowStep(proposal[p], Merged(proposal[p]))
    BY <1>0, RowSteps DEF Matching, Stored, TypeOK
  <2>2. CASE UNCHANGED proposal
    BY <1>1, <2>2
  <2>3. CASE SaveMerge(ask[t].key)
    BY <2>1, <2>3, <1>0, RowSteps DEF SaveMerge, TypeOK
  <2> QED
    BY <1>7, <2>2, <2>3 DEF SaveExisting
<1>8. ASSUME NEW t \in Tasks, NEW p \in Ids, NEW c \in Contents,
             NEW b \in BOOLEAN, SaveNew(t, p, c, b)
      PROVE  Goal
  <2>1. proposal[p] = NoRow
    BY <1>8 DEF SaveNew
  <2>2. ask[t].key \in Keys \cup {None}
    BY DEF TypeOK, Changes
  <2>3. RowStep(proposal[p], NewRow(ask[t].key, c, b))
    BY <2>1, <2>2, <1>0, RowSteps, NewRows
  <2> QED
    BY <1>8, <2>3, OneWrite DEF SaveNew
<1>9. ASSUME NEW t \in Tasks, TryAutoApprove(t)
      PROVE  Goal
  <2> DEFINE p == target[t]
  <2>1. p \in Ids /\ (RowHolds(t) => proposal[p].status = "pending")
    BY <1>9 DEF TryAutoApprove, HandlersInformed, Informed, Snapshot, Stored,
                RowHolds, CanAutoApprove
  <2>2. Earned(proposal[p])
    <3>1. Tallied(p, row[t]) /\ CanAutoApprove(row[t])
      BY <1>9 DEF TryAutoApprove, HandlersInformed, Informed
    <3>2. /\ row[t].frequency \in Nat /\ proposal[p].frequency \in Nat
          /\ failures \in Nat
      BY <2>1, <1>0 DEF TypeOK, Row
    <3> QED
      BY <3>1, <3>2, ConstantsAssumption DEF Tallied, CanAutoApprove, Earned
  <2>3. RowHolds(t) => RowStep(proposal[p], AutoApproved(proposal[p]))
    BY <2>1, <2>2, <1>0, RowSteps DEF TypeOK
  <2>4. UNCHANGED proposal \/ (RowHolds(t) /\ Put(p, AutoApproved(proposal[p])))
    BY <1>9 DEF TryAutoApprove
  <2> QED
    BY <1>1, <2>1, <2>3, <2>4, OneWrite
<1> QED
  <2>1. CASE \E t \in Tasks : Handle(t)
    BY <2>1, <1>1, <1>4, <1>5, <1>6, <1>7, <1>8, <1>9
    DEF Handle, Read, Apply, NoAnalysis, Stop
  <2>2. CASE \E t \in Tasks : Arrive(t)
    BY <2>2, <1>1, <1>2, <1>3 DEF Arrive, Submit, Find, Chat
  <2>3. CASE Midnight \/ Rest \/ UNCHANGED vars
    BY <2>3, <1>1 DEF Midnight, Rest, vars
  <2> QED
    BY <2>1, <2>2, <2>3 DEF Next

-----------------------------------------------------------------------------
(* Tasks                                                                    *)

\* What Inv says of one task.
Answered(t) == \A p \in won[t] : proposal[p].status = Verdict(op[t])
TaskOK(t) == Informed(t) /\ Answered(t) /\ AsSeen(t)

\* The step is not one of the task t.
Same(t) ==
  /\ pc'[t] = pc[t] /\ op'[t] = op[t] /\ target'[t] = target[t]
  /\ ask'[t] = ask[t] /\ seen'[t] = seen[t] /\ row'[t] = row[t]
  /\ won'[t] = won[t]

\* A task that wins proposals wins pending ones.
Wins(t) ==
  won'[t] = won[t] \/ \A p \in won'[t] : proposal[p].status = "pending"

\* A copy of a row stays a sound one whatever the others do.
LEMMA SnapshotStays ==
  ASSUME Inv, [Next]_vars
  PROVE  \A p, r : r \in Row /\ Snapshot(p, r) => Snapshot(p, r)'
<1>1. \A p \in Ids : RowStep(proposal[p], proposal'[p])
  BY RowsStep
<1>2. \A p \in Ids : proposal[p].version \in Nat /\ proposal'[p].version \in Nat
  BY TypeStep DEF Inv, TypeOK, Row
<1>3. \A r \in Row : r.version \in Nat
  BY DEF Row
<1>4. \A p \in Stored : proposal'[p].status # "absent"
  BY <1>1 DEF Stored, RowStep
<1> QED
  BY <1>1, <1>2, <1>3, <1>4 DEF Snapshot, Stored, RowStep

\* No step takes a failure back.
LEMMA FailuresGrow ==
  ASSUME Inv, [Next]_vars
  PROVE  failures \in Nat /\ failures' \in Nat /\ failures <= failures'
<1>1. failures \in Nat
  BY DEF Inv, TypeOK
<1>2. CASE \E t \in Tasks : Handle(t)
  BY <1>1, <1>2
  DEF Handle, Read, UpdateWithVersion, Apply, MarkApplied, CountTerm,
      NoAnalysis, SaveExisting, SaveNew, TryAutoApprove, Stop, NoFailure, Failure
<1>3. CASE \E t \in Tasks : Arrive(t)
  <2>1. \A t, o, p, a : Submit(t, o, p, a) => NoFailure \/ Failure
    BY DEF Submit, NoFailure
  <2>2. \A t, p, k, c, b : Create(t, p, k, c, b) => NoFailure \/ Failure
    BY DEF Create
  <2>3. \A t, o, ps : Batch(t, o, ps) => NoFailure \/ Failure
    BY DEF Batch
  <2>4. \A t, k : Find(t, k) => NoFailure \/ Failure
    BY DEF Find
  <2>5. \A t, o, k, c : Chat(t, o, k, c) => NoFailure \/ Failure
    BY DEF Chat, NoFailure
  <2>6. NoFailure \/ Failure
    BY <1>3, <2>1, <2>2, <2>3, <2>4, <2>5 DEF Arrive
  <2> QED
    BY <1>1, <2>6 DEF NoFailure, Failure
<1>4. CASE Midnight \/ Rest \/ UNCHANGED vars
  BY <1>1, <1>4 DEF Midnight, Rest, vars
<1> QED
  BY <1>2, <1>3, <1>4 DEF Next

\* The count of a learner's copy stays covered by the row and the failures.
LEMMA TalliedStays ==
  ASSUME Inv, [Next]_vars
  PROVE  \A p \in Stored, r \in Row : Tallied(p, r) => Tallied(p, r)'
<1>1. \A p \in Ids : RowStep(proposal[p], proposal'[p])
  BY RowsStep
<1>2. \A p \in Ids : /\ proposal[p].frequency \in Nat
                     /\ proposal'[p].frequency \in Nat
  BY TypeStep DEF Inv, TypeOK, Row
<1>3. \A r \in Row : r.frequency \in Nat
  BY DEF Row
<1> QED
  BY <1>1, <1>2, <1>3, FailuresGrow DEF Tallied, Stored, RowStep

\* Decisions that were answered still stand after the step.
LEMMA AnswersStay ==
  ASSUME Inv, [Next]_vars, NEW t \in Tasks, op'[t] = op[t], won'[t] = won[t]
  PROVE  Answered(t)'
<1>1. \A p \in Ids : RowStep(proposal[p], proposal'[p])
  BY RowsStep
<1>2. won[t] \in SUBSET Ids /\ Answered(t)
  BY DEF Inv, TypeOK, AnswerStands, Answered
<1>3. Verdict(op[t]) \in Decided
  BY DEF Verdict
<1> QED
  BY <1>1, <1>2, <1>3 DEF Answered, RowStep

\* A task is not disturbed by the steps of the others.
LEMMA Bystander ==
  ASSUME Inv, [Next]_vars, NEW t \in Tasks, Same(t)
  PROVE  TaskOK(t)' /\ Wins(t)
<1>1. Informed(t) /\ AsSeen(t) /\ seen[t] \in Row /\ row[t] \in Row
  BY DEF Inv, HandlersInformed, ApprovedAsSeen, TypeOK
<1>2. Informed(t)'
  <2>1. pc[t] \in {"count", "auto"} => Tallied(target[t], row[t])'
    BY <1>1, TalliedStays DEF Informed, Snapshot, Tallied, Same
  <2> QED
    BY <1>1, <2>1, SnapshotStays DEF Informed, CanAutoApprove, Same
<1>3. Answered(t)'
  BY AnswersStay DEF Same
<1> QED
  BY <1>1, <1>2, <1>3 DEF TaskOK, AsSeen, Same, Wins

\* A handler's step on the row it holds a copy of, step by step.
LEMMA Acting ==
  ASSUME Inv, [Next]_vars, NEW t \in Tasks, Handle(t) \/ Arrive(t)
  PROVE  /\ TaskOK(t)' /\ Wins(t)
         /\ \A u \in Tasks \ {t} : Same(u)
<1> DEFINE Others == \A u \in Tasks \ {t} : Same(u)
<1> DEFINE Goal == TaskOK(t)' /\ Wins(t) /\ Others
<1>0. /\ Informed(t) /\ Answered(t) /\ AsSeen(t)
      /\ seen[t] \in Row /\ row[t] \in Row /\ ask[t] \in Changes
      /\ TypeOK /\ TypeOK' /\ op[t] \in Ops /\ won[t] \in SUBSET Ids
  BY TypeStep
  DEF Inv, HandlersInformed, ApprovedAsSeen, AnswerStands, Answered, TypeOK
<1>1. ASSUME NEW o \in Kinds, NEW p \in Ids, NEW a \in Changes, Submit(t, o, p, a)
      PROVE  Goal
  <2>1. won[t] = {} /\ won'[t] = {} /\ pc'[t] = "read"
    BY <1>1, <1>0 DEF Submit, Informed, Request, Goto, TypeOK
  <2>2. Snapshot(p, proposal[p])' /\ p = target'[t] /\ seen'[t] = proposal[p]
    BY <1>1, <1>0 DEF Submit, Request, Snapshot, TypeOK, Row, Stored
  <2> QED
    BY <1>1, <1>0, <2>1, <2>2
    DEF Submit, Request, Goto, TaskOK, Informed, Answered, AsSeen, Wins, Same,
        TypeOK
<1>2. ASSUME NEW p \in Ids, NEW k \in Keys, NEW c \in Contents,
             NEW b \in BOOLEAN, Create(t, p, k, c, b)
      PROVE  Goal
  BY <1>2, <1>0
  DEF Create, Request, Goto, Put, TaskOK, Informed, Answered, AsSeen, Wins,
      Same, TypeOK
<1>3. ASSUME NEW o \in Kinds, NEW ps \in SUBSET Stored, Batch(t, o, ps)
      PROVE  Goal
  <2>1. /\ pc'[t] = "batched" /\ op'[t] = o /\ won[t] = {}
        /\ o \in {"batch_approve", "batch_reject"}
    BY <1>3, <1>0 DEF Batch, Request, Goto, Informed, TypeOK
  <2>2. \/ won'[t] = {}
        \/ won'[t] = PendingOf(ps) /\ DecideAll(ps, Verdict(o))
    BY <1>3, <1>0, <2>1 DEF Batch, Win, TypeOK
  <2>3. Answered(t)'
    <3>1. \A p \in Ids : WithStatus(proposal[p], Verdict(o)).status
                           = Verdict(o)
      BY <1>0 DEF WithStatus, TypeOK, Row
    <3>2. \A p \in PendingOf(ps) :
            DecideAll(ps, Verdict(o)) => proposal'[p].status = Verdict(o)
      BY <3>1 DEF DecideAll, PendingOf, Stored
    <3> QED
      BY <2>1, <2>2, <3>2 DEF Answered
  <2>4. Wins(t)
    BY <2>1, <2>2 DEF Wins, PendingOf
  <2>5. Others
    BY <1>3, <1>0 DEF Batch, Request, Goto, Win, Same, TypeOK
  <2> QED
    BY <2>1, <2>3, <2>4, <2>5 DEF TaskOK, Informed, AsSeen
<1>4. CASE Read(t)
  <2>1. /\ UNCHANGED <<proposal, op, target, ask, seen, row, won>>
        /\ pc'[t] \in {"not_found", "invalid", "conflict", "cas"}
        /\ pc'[t] = "cas" => Check(t, proposal[target[t]]) = "cas"
        /\ pc[t] = "read"
    BY <1>4, <1>0 DEF Read, Check, Goto, request, TypeOK
  <2>2. pc'[t] = "cas" /\ op[t] \in Reviews => seen[t].status = "pending"
    BY <2>1, <1>0 DEF Informed, Snapshot, Check
  <2>3. Informed(t)'
    BY <2>1, <2>2, <1>0 DEF Informed, Snapshot, Stored
  <2>4. Others
    BY <1>4, <1>0 DEF Read, Goto, request, Same, TypeOK
  <2> QED
    BY <2>1, <2>3, <2>4, <1>0 DEF TaskOK, Answered, AsSeen, Wins
<1>5. CASE UpdateWithVersion(t)
  <2> DEFINE p == target[t]
             new == Rewritten(t, proposal[p])
  <2>1. /\ pc[t] = "cas" /\ won[t] = {}
        /\ p \in Ids /\ Snapshot(p, seen[t])
        /\ op[t] \in Reviews \cup {"edit"}
        /\ op[t] \in Reviews => seen[t].status = "pending"
        /\ op[t] = "approve" => ask[t].key = None
    BY <1>5, <1>0 DEF UpdateWithVersion, Informed, Snapshot, Stored
  <2>2. UNCHANGED <<op, target, ask, seen>>
    BY <1>5 DEF UpdateWithVersion, request
  <2>3. Others
    BY <1>5, <1>0 DEF UpdateWithVersion, Return, Win, Goto, request, Same,
                      TypeOK
  <2>4. CASE pc'[t] \in {"edited", "conflict"} /\ won'[t] = {}
    BY <2>1, <2>3, <2>4 DEF TaskOK, Informed, Answered, AsSeen, Wins
  <2>5. CASE /\ VersionHolds(t)
             /\ Put(p, new) /\ Return(t, new) /\ Goto(t, AfterWrite(t))
             /\ won'[t] = {p} /\ op[t] \in Reviews
    <3>1. /\ proposal[p].status = "pending"
          /\ proposal[p].key = seen[t].key
          /\ proposal[p].content = seen[t].content
      BY <2>1, <2>5 DEF VersionHolds, Snapshot
    <3>2. proposal'[p] = new /\ row'[t] = new /\ pc'[t] = AfterWrite(t)
      BY <2>1, <2>5, <1>0 DEF Put, Return, Goto, TypeOK
    <3>3. proposal[p] \in Row
      BY <2>1, <1>0 DEF TypeOK
    <3>4. new.status = Verdict(op[t])
      BY <2>5, <3>3 DEF Rewritten, Amended, Row
    <3>5. op[t] = "approve" =>
            /\ new.key = seen[t].key
            /\ new.content = IF ask[t].content = None THEN seen[t].content
                                                      ELSE ask[t].content
      BY <2>1, <3>1, <3>3 DEF Rewritten, Amended, Override, Row
    <3>6. Answered(t)'
      BY <2>2, <2>5, <3>2, <3>4 DEF Answered
    <3>7. Informed(t)' /\ Wins(t)
      BY <2>2, <2>5, <3>1, <3>2 DEF Informed, Wins, AfterWrite
    <3> QED
      BY <2>2, <2>3, <3>2, <3>5, <3>6, <3>7 DEF TaskOK, AsSeen
  <2> QED
    BY <1>5, <1>0, <2>1, <2>4, <2>5
    DEF UpdateWithVersion, AfterWrite, Goto, Win, EmptyEdit, TypeOK
<1>6. CASE Apply(t)
  BY <1>6, <1>0
  DEF Apply, Goto, request, TaskOK, Informed, Answered, AsSeen, Wins, Same,
      TypeOK
<1>7. CASE MarkApplied(t)
  <2>1. /\ pc[t] = "mark" /\ pc'[t] = "applied"
        /\ UNCHANGED <<op, ask, seen, row, won>>
    BY <1>7, <1>0 DEF MarkApplied, Goto, request, TypeOK
  <2>2. Answered(t)'
    BY <2>1, AnswersStay
  <2>3. Others
    BY <1>7, <1>0 DEF MarkApplied, Goto, request, Same, TypeOK
  <2> QED
    BY <2>1, <2>2, <2>3, <1>0 DEF TaskOK, Informed, AsSeen, Wins
<1>8. ASSUME NEW k \in Keys, Find(t, k)
      PROVE  Goal
  <2>1. pc[t] = "idle" /\ op'[t] = "learn" /\ won'[t] = {} /\ won[t] = {}
    BY <1>8, <1>0 DEF Find, Request, Informed, TypeOK
  <2>2. Others
    BY <1>8, <1>0 DEF Find, Request, Goto, Return, Same, TypeOK
  <2>3. \/ pc'[t] = "save"
        \/ /\ pc'[t] = "count" /\ UNCHANGED proposal
           /\ target'[t] \in Stored /\ row'[t] = proposal[target'[t]]
    BY <1>8, <1>0 DEF Find, Request, Goto, Return, Matching, TypeOK
  <2>4. pc'[t] = "count" => /\ Snapshot(target[t], row[t])'
                            /\ Tallied(target[t], row[t])'
    BY <2>3, <1>0, FailuresGrow DEF Snapshot, Tallied, Stored, TypeOK, Row
  <2> QED
    BY <2>1, <2>2, <2>3, <2>4 DEF TaskOK, Informed, Answered, AsSeen, Wins
<1>9. CASE CountTerm(t)
  <2>1. /\ pc[t] = "count" /\ won[t] = {} /\ op[t] = "learn"
        /\ Snapshot(target[t], row[t]) /\ Tallied(target[t], row[t])
        /\ UNCHANGED <<op, target, ask, seen, won>>
        /\ row'[t] = Counted(row[t])
        /\ pc'[t] \in {"auto", "learned"}
        /\ pc'[t] = "auto" => CanAutoApprove(row'[t])
    BY <1>9, <1>0
    DEF CountTerm, Goto, Return, AutoOr, request, Informed, TypeOK
  <2>2. /\ row'[t].version = row[t].version /\ row'[t].key = row[t].key
        /\ row'[t].content = row[t].content /\ row'[t].status = row[t].status
    BY <2>1, <1>0 DEF Counted, Row
  <2>3. Snapshot(target[t], row[t])'
    <3>1. Snapshot(target[t], row'[t])
      BY <2>1, <2>2 DEF Snapshot
    <3>2. row'[t] \in Row
      BY <1>0 DEF TypeOK
    <3> QED
      BY <2>1, <3>1, <3>2, SnapshotStays DEF Snapshot, Stored
  <2>4. Others
    BY <1>9, <1>0 DEF CountTerm, Goto, Return, request, Same, TypeOK
  <2>5. Tallied(target[t], row[t])'
    <3> DEFINE p == target[t]
    <3>1. p \in Ids /\ proposal[p] \in Row /\ proposal'[p] \in Row
      BY <2>1, <1>0 DEF Snapshot, Stored, TypeOK
    <3>2. /\ row'[t].frequency = row[t].frequency + 1
          /\ row'[t].trusted = row[t].trusted
      BY <2>1, <1>0 DEF Counted, Row
    <3>3. /\ proposal'[p].trusted = proposal[p].trusted
          /\ \/ /\ proposal'[p].frequency = proposal[p].frequency + 1
                /\ failures' >= failures
             \/ /\ proposal'[p].frequency = proposal[p].frequency
                /\ failures' = failures + 1
      <4>1. /\ Counted(proposal[p]).frequency = proposal[p].frequency + 1
            /\ Counted(proposal[p]).trusted = proposal[p].trusted
        BY <3>1 DEF Counted, Row
      <4>2. Put(p, Counted(proposal[p])) => proposal'[p] = Counted(proposal[p])
        BY <3>1, <1>0 DEF Put, TypeOK
      <4> QED
        BY <1>9, <4>1, <4>2, FailuresGrow DEF CountTerm, Failure
    <3>4. /\ row[t].frequency \in Nat /\ proposal[p].frequency \in Nat
          /\ failures \in Nat /\ failures' \in Nat
      BY <3>1, <1>0, FailuresGrow DEF Row
    <3> QED
      BY <2>1, <3>2, <3>3, <3>4 DEF Tallied
  <2> QED
    BY <2>1, <2>3, <2>4, <2>5
    DEF TaskOK, Informed, Answered, AsSeen, Wins, CanAutoApprove
<1>10. CASE NoAnalysis(t)
  BY <1>10, <1>0
  DEF NoAnalysis, Goto, request, TaskOK, Informed, Answered, AsSeen, Wins,
      Same,
      TypeOK
<1>11. ASSUME NEW o \in Kinds, NEW k \in Keys, NEW c \in Contents,
              Chat(t, o, k, c)
       PROVE  Goal
  BY <1>11, <1>0
  DEF Chat, Request, Goto, TaskOK, Informed, Answered, AsSeen, Wins, Same,
      TypeOK
<1>12. ASSUME NEW p \in Ids, NEW r \in Row, Saved(t, p, r), pc[t] = "save",
              proposal'[p] = r, r.status # "absent", UNCHANGED won
       PROVE  Goal
  <2>1. /\ UNCHANGED <<op, ask, won>>
        /\ op[t] \in {"learn", "chat", "chat_unsure"} /\ won[t] = {}
        /\ target'[t] = p /\ row'[t] = r
        /\ op[t] = "chat" => seen'[t] = r
        /\ pc'[t] = AfterSave(t, r)
    BY <1>12, <1>0 DEF Saved, Goto, Return, Informed, TypeOK
  <2>2. Snapshot(target[t], row[t])' /\ Tallied(target[t], row[t])'
    BY <2>1, <1>12, <1>0, FailuresGrow DEF Snapshot, Tallied, Stored, TypeOK, Row
  <2>3. op[t] = "chat" => Snapshot(target[t], seen[t])'
    BY <2>1, <2>2 DEF Snapshot
  <2>4. Others
    BY <1>12, <1>0 DEF Saved, Goto, Return, Same, TypeOK
  <2> QED
    BY <2>1, <2>2, <2>3, <2>4
    DEF TaskOK, Informed, Answered, AsSeen, Wins, AfterSave, AutoOr,
        CanAutoApprove
<1>13. ASSUME Goto(t, "error"), UNCHANGED <<request, row, won>>, pc[t] = "save"
       PROVE  Goal
  BY <1>13, <1>0
  DEF Goto, request, TaskOK, Informed, Answered, AsSeen, Wins, Same, TypeOK
<1>14. CASE SaveExisting(t)
  <2>1. ASSUME SaveMerge(ask[t].key), NEW p \in Matching(ask[t].key),
               Saved(t, p, Merged(proposal[p]))
        PROVE  Goal
    <3>1. p \in Ids /\ proposal[p] \in Row /\ proposal[p].status # "absent"
      BY <1>0 DEF Matching, Stored, TypeOK
    <3>2. /\ Merged(proposal[p]) \in Row
          /\ Merged(proposal[p]).status = proposal[p].status
      <4>1. Merged(proposal[p]) \in Row
        BY <3>1, <1>0, RowWrites DEF TypeOK
      <4> QED
        BY <3>1, <4>1 DEF Merged, Row
    <3>3. proposal'[p] = Merged(proposal[p])
      BY <2>1, <3>1 DEF SaveMerge
    <3> QED
      BY <1>12, <1>14, <2>1, <3>1, <3>2, <3>3 DEF SaveExisting
  <2> QED
    BY <1>13, <1>14, <2>1 DEF SaveExisting
<1>15. ASSUME NEW p \in Ids, NEW c \in Contents, NEW b \in BOOLEAN,
              SaveNew(t, p, c, b)
       PROVE  Goal
  <2> DEFINE new == NewRow(ask[t].key, c, b)
  <2>1. new \in Row /\ new.status = "pending"
    BY <1>0, NewRows DEF Changes, NewRow
  <2>2. Put(p, new) => proposal'[p] = new
    BY <1>0 DEF Put, TypeOK
  <2> QED
    BY <1>12, <1>13, <1>15, <2>1, <2>2 DEF SaveNew
<1>16. CASE TryAutoApprove(t)
  <2> DEFINE p == target[t]
  <2>1. /\ pc[t] = "auto" /\ pc'[t] = "learned" /\ op'[t] = "learn"
        /\ p \in Ids /\ RowHolds(t) => proposal[p].status = "pending"
        /\ won[t] = {}
    BY <1>16, <1>0
    DEF TryAutoApprove, Goto, request, Informed, Snapshot, Stored, RowHolds,
        CanAutoApprove, TypeOK
  <2>2. p \in Ids
    BY <1>16, <1>0 DEF TryAutoApprove, Informed, Snapshot, Stored
  <2>3. \/ won'[t] = {}
        \/ /\ won'[t] = {p} /\ RowHolds(t)
           /\ proposal'[p] = AutoApproved(proposal[p])
    BY <1>16, <1>0, <2>1, <2>2 DEF TryAutoApprove, Put, Win, TypeOK
  <2>4. AutoApproved(proposal[p]).status = Verdict("learn")
    BY <2>2, <1>0 DEF AutoApproved, WithStatus, Verdict, TypeOK, Row
  <2>5. Others
    BY <1>16, <1>0 DEF TryAutoApprove, Goto, Win, request, Same, TypeOK
  <2> QED
    BY <2>1, <2>2, <2>3, <2>4, <2>5
    DEF TaskOK, Informed, Answered, AsSeen, Wins
<1>17. CASE Stop(t)
  <2>1. /\ pc'[t] = "stopped"
        /\ UNCHANGED <<op, ask, seen, row, won>>
    BY <1>17, <1>0 DEF Stop, Goto, request, TypeOK
  <2>2. Answered(t)'
    BY <2>1, AnswersStay
  <2>3. Others
    BY <1>17, <1>0 DEF Stop, Goto, request, Same, TypeOK
  <2> QED
    BY <2>1, <2>2, <2>3 DEF TaskOK, Informed, AsSeen, Wins
<1> QED
  BY <1>1, <1>2, <1>3, <1>4, <1>5, <1>6, <1>7, <1>8, <1>9, <1>10, <1>11,
     <1>14, <1>15, <1>16, <1>17
  DEF Handle, Arrive

-----------------------------------------------------------------------------
(* The theorems                                                             *)

\* The initial rows are pending and no request has arrived.
LEMMA InitInv == Init => Inv
<1> SUFFICES ASSUME Init PROVE Inv
  OBVIOUS
<1>1. \A k \in Keys, c \in Contents, b \in BOOLEAN :
        /\ Counted(NewRow(k, c, b)) \in Row
        /\ Counted(NewRow(k, c, b)).status = "pending"
        /\ Counted(NewRow(k, c, b)).applied = FALSE
  <2> TAKE k \in Keys, c \in Contents, b \in BOOLEAN
  <2> DEFINE n == NewRow(k, c, b)
  <2>1. n \in Row
    BY NewRows
  <2>2. /\ n.frequency = 1 /\ n.status = "pending" /\ n.applied = FALSE
        /\ Counted(n).status = n.status /\ Counted(n).applied = n.applied
    BY DEF NewRow, Counted
  <2> HIDE DEF n
  <2>3. \A v \in Nat : [n EXCEPT !.frequency = v] \in Row
    BY <2>1 DEF Row
  <2>4. Counted(n) \in Row
    BY <2>2, <2>3 DEF Counted
  <2> QED
    BY <2>2, <2>4 DEF n
<1>2. NoRow \in Row /\ NoRow.applied = FALSE /\ NoChange \in Changes
  <2>1. NoRow \in Row
    BY NewRows
  <2>2. NoRow.applied = FALSE
    BY DEF NoRow, NewRow
  <2>3. NoChange \in Changes
    BY DEF NoChange, Changes
  <2> QED
    BY <2>1, <2>2, <2>3
<1>3. TypeOK
  <2>1. \A p \in Ids : proposal[p] \in Row
    BY <1>1, <1>2 DEF Init
  <2> QED
    BY <1>2, <2>1 DEF Init, TypeOK
<1>4. \A p \in Ids \ Stored : proposal[p] = NoRow
  BY <1>1 DEF Init, Stored
<1>5. AppliedWasApproved
  BY <1>1, <1>2 DEF Init, AppliedWasApproved
<1>6. /\ HandlersInformed /\ OneWinner /\ AnswerStands /\ ApprovedAsSeen
      /\ AutoApprovedOften
  <2>1. NoRow.status = "absent"
    BY DEF NoRow, NewRow
  <2>2. \A p \in Ids : proposal[p].status # "auto_approved"
    BY <1>1, <2>1 DEF Init
  <2> QED
    BY <2>2 DEF Init, AutoApprovedOften, HandlersInformed, Informed, OneWinner,
                AnswerStands, ApprovedAsSeen, AsSeen
<1> QED
  BY <1>3, <1>4, <1>5, <1>6 DEF Inv

\* After a step every task is as Inv wants it, and at most one of them is told
\* that it decided something.
LEMMA TasksStep ==
  ASSUME Inv, [Next]_vars
  PROVE  /\ \A t \in Tasks : TaskOK(t)' /\ Wins(t)
         /\ \A t, u \in Tasks : t # u => won'[t] = won[t] \/ won'[u] = won[u]
<1>1. ASSUME NEW t \in Tasks, Handle(t) \/ Arrive(t)
      PROVE  /\ TaskOK(t)' /\ Wins(t)
             /\ \A u \in Tasks \ {t} : Same(u) /\ TaskOK(u)' /\ Wins(u)
  BY <1>1, Acting, Bystander
<1>2. CASE Midnight \/ Rest \/ UNCHANGED vars
  <2>1. \A t \in Tasks : Same(t)
    BY <1>2 DEF Midnight, Rest, vars, request, Same
  <2> QED
    BY <2>1, Bystander DEF Same
<1> QED
  BY <1>1, <1>2 DEF Next, Same

\* Every step keeps the invariant.
LEMMA StepInv ==
  ASSUME Inv, [Next]_vars
  PROVE  Inv'
<1>1. TypeOK' /\ \A p \in Ids : RowStep(proposal[p], proposal'[p])
  BY TypeStep, RowsStep
<1>2. \A p \in (Ids \ Stored)' : proposal'[p] = NoRow
  BY <1>1 DEF Inv, Stored, RowStep
<1>3. AppliedWasApproved'
  BY <1>1 DEF Inv, AppliedWasApproved, RowStep
<1>6. AutoApprovedOften'
  <2>1. ASSUME NEW p \in Ids, proposal'[p].status = "auto_approved"
        PROVE  Earned(proposal[p])'
    <3>1. RowStep(proposal[p], proposal'[p])
      BY <1>1
    <3>2. Earned(proposal[p]) /\ proposal[p].status # "absent"
      BY <2>1, <3>1 DEF Inv, AutoApprovedOften, RowStep, NoRow, NewRow, Stored,
                        Earned
    <3>3. /\ proposal[p].frequency \in Nat /\ proposal'[p].frequency \in Nat
          /\ proposal[p].trusted \in BOOLEAN /\ proposal'[p].trusted \in BOOLEAN
          /\ MinFrequency \in Nat
      BY <1>1, ConstantsAssumption DEF Inv, TypeOK, Row
    <3>4. /\ proposal'[p].trusted
          /\ proposal'[p].frequency >= proposal[p].frequency
      BY <3>1, <3>2, <3>3 DEF Earned, RowStep
    <3>5. proposal'[p].frequency + failures' >= proposal[p].frequency + failures
      BY <3>3, <3>4, FailuresGrow
    <3>6. proposal[p].frequency + failures >= MinFrequency
      BY <3>2 DEF Earned
    <3>7. proposal'[p].frequency + failures' >= MinFrequency
      BY <3>3, <3>5, <3>6, FailuresGrow
    <3> QED
      BY <3>4, <3>7 DEF Earned
  <2> QED
    BY <2>1 DEF AutoApprovedOften
<1>4. HandlersInformed' /\ AnswerStands' /\ ApprovedAsSeen'
  BY TasksStep
  DEF TaskOK, HandlersInformed, AnswerStands, Answered, ApprovedAsSeen
<1>5. OneWinner'
  <2>1. \A t \in Tasks : \A p \in won[t] : proposal[p].status # "pending"
    BY DEF Inv, AnswerStands, Verdict
  <2> QED
    BY <2>1, TasksStep DEF Inv, OneWinner, Wins
<1> QED
  BY <1>1, <1>2, <1>3, <1>4, <1>5, <1>6 DEF Inv

\* The invariant holds of every reachable state.
THEOREM Invariance == Spec => []Inv
<1>1. Init => Inv
  BY InitInv
<1>2. Inv /\ [Next]_vars => Inv'
  BY StepInv
<1> QED
  BY <1>1, <1>2, PTL DEF Spec

\* The variables always hold what the code can put in them.
THEOREM TypeCorrect == Spec => []TypeOK
<1>1. Inv => TypeOK
  BY DEF Inv
<1> QED
  BY <1>1, Invariance, PTL

\* A decided proposal keeps its decision, whoever else was about to decide it.
THEOREM DecisionsAreFinal == Spec => DecisionFinal
<1>1. Inv /\ [Next]_vars =>
        [\A p \in Ids : proposal[p].status \in Decided =>
           proposal'[p].status = proposal[p].status]_vars
  BY RowsStep DEF RowStep
<1> QED
  BY <1>1, Invariance, PTL DEF Spec, DecisionFinal

\* No two requests are told that they decided the same proposal, and what they
\* were told stays true.
THEOREM AnswersAreTrue == Spec => []OneWinner /\ []AnswerStands
<1>1. Inv => OneWinner /\ AnswerStands
  BY DEF Inv
<1> QED
  BY <1>1, Invariance, PTL

\* An approval approves the row the reviewer saw, with the reviewer's changes.
THEOREM ApprovesWhatWasSeen == Spec => []ApprovedAsSeen
<1>1. Inv => ApprovedAsSeen
  BY DEF Inv
<1> QED
  BY <1>1, Invariance, PTL

\* The learner approves no term it met less often than it must, but for the
\* counts whose write failed, and none its analysis was not sure of.
THEOREM ApprovesOftenMetTerms == Spec => []AutoApprovedOften
<1>1. Inv => AutoApprovedOften
  BY DEF Inv
<1> QED
  BY <1>1, Invariance, PTL

\* Only approved proposals are ever marked as applied.
THEOREM AppliesOnlyApproved == Spec => []AppliedWasApproved
<1>1. Inv => AppliedWasApproved
  BY DEF Inv
<1> QED
  BY <1>1, Invariance, PTL

-----------------------------------------------------------------------------
(* The ledger of ProposalReview                                             *)

\* ProposalReview's Cardinality is that of the modules it extends.
LEMMA SameCardinality == \A S : Review!Cardinality(S) = Cardinality(S)
  BY Zenon DEF Review!Cardinality, Cardinality

\* A write that keeps the decision, the day and the mark of every row is none
\* of the ledger's business.
LEMMA Unseen ==
  ASSUME TypeOK, UNCHANGED today,
         \A p \in Ids : /\ proposal'[p].status = proposal[p].status
                        /\ proposal'[p].applied = proposal[p].applied
                        /\ proposal'[p].day = proposal[p].day
  PROVE  UNCHANGED Review!vars
  BY DEF Review!vars

\* What one step writes to the row p, the others staying as they are.
Alters(p, status, day, applied) ==
  /\ proposal'[p].status = status
  /\ proposal'[p].day = day
  /\ proposal'[p].applied = applied
  /\ \A q \in Ids \ {p} : proposal'[q] = proposal[q]

\* A write alters one row.
LEMMA OneRow ==
  ASSUME TypeOK, NEW p \in Ids, NEW r, Put(p, r)
  PROVE  Alters(p, r.status, r.day, r.applied)
  BY DEF TypeOK, Put, Alters

\* The steps of the ledger that are about one proposal.
LEMMA LedgerActions ==
  ASSUME TypeOK, UNCHANGED today, NEW p \in Ids
  PROVE  /\ /\ proposal[p].status = "absent"
            /\ Alters(p, "pending", proposal[p].day, proposal[p].applied)
            => Review!Propose(p)
         /\ \A v : /\ proposal[p].status = "pending"
                   /\ Alters(p, v, proposal[p].day, proposal[p].applied)
                   => Review!Decide({p}, v)
         /\ /\ proposal[p].status = "approved"
            /\ Alters(p, proposal[p].status, proposal[p].day, TRUE)
            => Review!MarkApplied(p)
         /\ /\ proposal[p].status = "pending"
            /\ DailyLimit = 0 \/ Cardinality(ApprovedOn(today)) < DailyLimit
            /\ Alters(p, "auto_approved", today, proposal[p].applied)
            => Review!AutoApprove(p)
         /\ Alters(p, proposal[p].status, proposal[p].day, proposal[p].applied)
            => UNCHANGED Review!vars
<1> USE DEF TypeOK, Alters, Review!Becomes
<1>1. ASSUME proposal[p].status = "absent",
             Alters(p, "pending", proposal[p].day, proposal[p].applied)
      PROVE  Review!Propose(p)
  BY <1>1 DEF Review!Propose
<1>2. ASSUME NEW v, proposal[p].status = "pending",
             Alters(p, v, proposal[p].day, proposal[p].applied)
      PROVE  Review!Decide({p}, v)
  BY <1>2 DEF Review!Decide
<1>3. ASSUME proposal[p].status = "approved",
             Alters(p, proposal[p].status, proposal[p].day, TRUE)
      PROVE  Review!MarkApplied(p)
  BY <1>3 DEF Review!MarkApplied
<1>4. ASSUME proposal[p].status = "pending", Room,
             Alters(p, "auto_approved", today, proposal[p].applied)
      PROVE  Review!AutoApprove(p)
  <2>1. Review!AutoApprovedToday = ApprovedOn(today)
    BY DEF Review!AutoApprovedToday, ApprovedOn
  <2>2. DailyLimit = 0 \/ Review!Cardinality(Review!AutoApprovedToday) < DailyLimit
    BY <1>4, <2>1, SameCardinality DEF Room
  <2> QED
    BY <1>4, <2>2 DEF Review!AutoApprove
<1>5. ASSUME Alters(p, proposal[p].status, proposal[p].day, proposal[p].applied)
      PROVE  UNCHANGED Review!vars
  BY <1>5 DEF Review!vars
<1> QED
  BY <1>1, <1>2, <1>3, <1>4, <1>5 DEF Room

\* A new row is a proposal made; the write may also have failed.
LEMMA Proposed ==
  ASSUME Inv, UNCHANGED today, NEW p \in Ids \ Stored,
         NEW k \in Keys \cup {None}, NEW c \in Contents \cup {None},
         NEW b \in BOOLEAN, Put(p, NewRow(k, c, b)) \/ UNCHANGED proposal
  PROVE  [Review!Next]_Review!vars
<1> DEFINE new == NewRow(k, c, b)
<1>1. new \in Row /\ new.status = "pending" /\ new.day = 0 /\ new.applied = FALSE
  BY NewRows DEF NewRow
<1>2. /\ proposal[p].status = "absent" /\ proposal[p].day = 0
      /\ proposal[p].applied = FALSE
  BY DEF Inv, NoRow, NewRow
<1> HIDE DEF new
<1>3. CASE Put(p, new)
  <2>1. Alters(p, "pending", proposal[p].day, proposal[p].applied)
    BY <1>1, <1>2, <1>3, OneRow DEF Inv
  <2>2. Review!Propose(p)
    BY <1>2, <2>1, LedgerActions DEF Inv
  <2> QED
    BY <2>2 DEF Review!Next
<1>4. CASE UNCHANGED proposal
  BY <1>4, Unseen DEF Inv
<1> QED
  BY <1>3, <1>4 DEF new

\* Every step of the handlers is a step of the ledger or none.
LEMMA LedgerStep ==
  ASSUME Inv, [Next]_vars
  PROVE  [Review!Next]_Review!vars
<1> DEFINE Goal == [Review!Next]_Review!vars
<1>0. TypeOK /\ NoChange \in Changes
  BY DEF Inv, NoChange, Changes
<1>1. ASSUME UNCHANGED <<proposal, today>> PROVE Goal
  BY <1>1, <1>0, Unseen
<1>2. ASSUME NEW t \in Tasks, NEW p \in Ids, NEW k \in Keys, NEW c \in Contents,
             NEW b \in BOOLEAN, Create(t, p, k, c, b)
      PROVE  Goal
  BY <1>2, Proposed DEF Create
<1>3. ASSUME NEW t \in Tasks, NEW o \in Kinds, NEW ps \in SUBSET Stored,
             Batch(t, o, ps)
      PROVE  Goal
  <2>1. Verdict(o) \in {"approved", "rejected"}
    BY <1>3 DEF Batch, Verdict
  <2>2. CASE UNCHANGED proposal
    BY <1>1, <1>3, <2>2 DEF Batch
  <2>3. CASE DecideAll(ps, Verdict(o))
    <3>1. \A p \in Ids :
            LET r == WithStatus(proposal[p], Verdict(o)) IN
            /\ r.status = Verdict(o) /\ r.day = proposal[p].day
            /\ r.applied = proposal[p].applied
      BY <1>0 DEF WithStatus, TypeOK, Row
    <3>2. \A p \in Ids :
            /\ proposal'[p].day = proposal[p].day
            /\ proposal'[p].applied = proposal[p].applied
            /\ proposal'[p].status = IF p \in PendingOf(ps) THEN Verdict(o)
                                                    ELSE proposal[p].status
      BY <2>3, <3>1 DEF DecideAll
    <3>3. PendingOf(ps) \in SUBSET Ids
      BY DEF PendingOf, Stored
    <3>4. UNCHANGED today
      BY <1>3 DEF Batch
    <3>5. PICK qs \in SUBSET Ids : qs = PendingOf(ps)
      BY <3>3
    <3>6. Review!Decide(qs, Verdict(o))
      BY <3>2, <3>4, <3>5 DEF Review!Decide, Review!Becomes, PendingOf
    <3> QED
      BY <2>1, <3>6 DEF Review!Next
  <2> QED
    BY <1>3, <2>2, <2>3 DEF Batch
<1>4. ASSUME NEW t \in Tasks, UpdateWithVersion(t)
      PROVE  Goal
  <2>1. PICK p \in Ids :
          /\ p = target[t] /\ op[t] \in Reviews \cup {"edit"}
          /\ UNCHANGED today
    BY <1>4 DEF UpdateWithVersion, Inv, HandlersInformed, Informed, Snapshot,
                Stored
  <2> DEFINE new == Rewritten(t, proposal[p])
             amended == Amended(proposal[p], Override(t))
  <2>2. Override(t) \in Changes
    BY <1>0 DEF TypeOK, Override, NoChange, Changes
  <2>3. /\ amended \in Row /\ amended.day = proposal[p].day
        /\ amended.applied = proposal[p].applied
        /\ amended.status = proposal[p].status
    <3>1. amended \in Row
      BY <2>1, <2>2, <1>0, RowWrites DEF TypeOK
    <3> QED
      BY <2>1, <3>1, <1>0 DEF Amended, TypeOK, Row
  <2>4. CASE UNCHANGED proposal
    BY <1>1, <2>1, <2>4
  <2>5. CASE VersionHolds(t) /\ Put(p, new) /\ op[t] \in Reviews
    <3>1. proposal[p].status = "pending"
      BY <1>4, <2>1, <2>5 DEF UpdateWithVersion, Inv, HandlersInformed, Informed,
                        Snapshot, VersionHolds
    <3>2. PICK v \in {"approved", "rejected"} : v = Verdict(op[t])
      BY <2>5 DEF Verdict
    <3>3. new = [amended EXCEPT !.status = Verdict(op[t])]
      BY <2>5 DEF Rewritten
    <3>4. /\ new \in Row /\ new.status = Verdict(op[t])
          /\ new.day = proposal[p].day /\ new.applied = proposal[p].applied
      <4> HIDE DEF amended
      <4> QED
        BY <2>3, <3>2, <3>3 DEF Row
    <3>5. Alters(p, v, proposal[p].day, proposal[p].applied)
      <4> HIDE DEF new
      <4> QED
        BY <2>5, <3>2, <3>4, <1>0, OneRow
    <3>6. Review!Decide({p}, v)
      BY <2>1, <3>1, <3>5, <1>0, LedgerActions
    <3> QED
      BY <3>6 DEF Review!Next
  <2>6. CASE Put(p, new) /\ op[t] = "edit"
    <3>1. new = [amended EXCEPT !.status = @]
      BY <2>6 DEF Rewritten
    <3>2. new = amended
      <4> HIDE DEF amended, new
      <4> QED
        BY <2>3, <3>1 DEF Row
    <3>3. UNCHANGED Review!vars
      <4> HIDE DEF amended, new
      <4> QED
        BY <2>1, <2>3, <2>6, <3>2, <1>0, OneRow, LedgerActions
    <3> QED
      BY <3>3
  <2>7. UNCHANGED proposal \/ (VersionHolds(t) /\ Put(p, new))
    BY <1>4, <2>1 DEF UpdateWithVersion
  <2> QED
    BY <2>1, <2>4, <2>5, <2>6, <2>7
<1>5. ASSUME NEW t \in Tasks, MarkApplied(t)
      PROVE  Goal
  <2>1. PICK p \in Ids : /\ p = target[t] /\ proposal[p].status = "approved"
                         /\ UNCHANGED today
    BY <1>5 DEF MarkApplied, Inv, HandlersInformed, Informed, AnswerStands,
                Verdict, TypeOK
  <2> DEFINE new == [proposal[p] EXCEPT !.applied = TRUE]
  <2>2. /\ new.applied = TRUE
        /\ new.status = proposal[p].status /\ new.day = proposal[p].day
    BY <1>0 DEF TypeOK, Row
  <2>3. UNCHANGED proposal \/ Put(p, new)
    BY <1>5, <2>1 DEF MarkApplied
  <2> HIDE DEF new
  <2>4. ASSUME Put(p, new) PROVE Review!MarkApplied(p)
    <3>1. Alters(p, proposal[p].status, proposal[p].day, TRUE)
      BY <2>2, <2>4, <1>0, OneRow
    <3> QED
      BY <2>1, <3>1, <1>0, LedgerActions
  <2> QED
    BY <1>1, <2>1, <2>3, <2>4 DEF Review!Next
<1>6. ASSUME NEW t \in Tasks, CountTerm(t)
      PROVE  Goal
  <2>1. PICK p \in Ids : p = target[t] /\ UNCHANGED today
    BY <1>6 DEF CountTerm, Inv, HandlersInformed, Informed, Snapshot, Stored
  <2> DEFINE new == Counted(proposal[p])
  <2>2. /\ new \in Row /\ new.status = proposal[p].status
        /\ new.day = proposal[p].day /\ new.applied = proposal[p].applied
    <3>1. new \in Row
      BY <2>1, <1>0, RowWrites DEF TypeOK
    <3> QED
      BY <2>1, <3>1, <1>0 DEF Counted, TypeOK, Row
  <2>3. UNCHANGED proposal \/ Put(p, new)
    BY <1>6, <2>1 DEF CountTerm
  <2> HIDE DEF new
  <2>4. ASSUME Put(p, new) PROVE UNCHANGED Review!vars
    <3>1. Alters(p, proposal[p].status, proposal[p].day, proposal[p].applied)
      BY <2>2, <2>4, <1>0, OneRow
    <3> QED
      BY <2>1, <3>1, <1>0, LedgerActions
  <2> QED
    BY <1>1, <2>1, <2>3, <2>4
<1>7. ASSUME NEW t \in Tasks, SaveExisting(t)
      PROVE  Goal
  <2>1. \A p \in Ids :
          LET r == Merged(proposal[p]) IN
          /\ r.status = proposal[p].status /\ r.day = proposal[p].day
          /\ r.applied = proposal[p].applied
    BY <1>0 DEF Merged, TypeOK, Row
  <2>2. CASE UNCHANGED proposal
    BY <1>1, <1>7, <2>2 DEF SaveExisting
  <2>3. CASE SaveMerge(ask[t].key)
    BY <1>7, <2>1, <2>3, <1>0, Unseen DEF SaveMerge, SaveExisting
  <2> QED
    BY <1>7, <2>2, <2>3 DEF SaveExisting
<1>8. ASSUME NEW t \in Tasks, NEW p \in Ids, NEW c \in Contents,
             NEW b \in BOOLEAN, SaveNew(t, p, c, b)
      PROVE  Goal
  <2>1. ask[t].key \in Keys \cup {None}
    BY <1>0 DEF TypeOK, Changes
  <2> QED
    BY <1>8, <2>1, Proposed DEF SaveNew
<1>9. ASSUME NEW t \in Tasks, TryAutoApprove(t)
      PROVE  Goal
  <2>1. PICK p \in Ids :
          /\ p = target[t] /\ UNCHANGED today
          /\ RowHolds(t) => proposal[p].status = "pending"
    BY <1>9 DEF TryAutoApprove, Inv, HandlersInformed, Informed, Snapshot,
                Stored, RowHolds, CanAutoApprove
  <2> DEFINE new == AutoApproved(proposal[p])
  <2>2. /\ new \in Row /\ new.status = "auto_approved"
        /\ new.day = today /\ new.applied = proposal[p].applied
    <3>1. new \in Row
      BY <2>1, <1>0, RowWrites DEF TypeOK
    <3> QED
      BY <2>1, <3>1, <1>0 DEF AutoApproved, WithStatus, TypeOK, Row
  <2>3. UNCHANGED proposal \/ (RowHolds(t) /\ Room /\ Put(p, new))
    BY <1>9, <2>1 DEF TryAutoApprove
  <2> HIDE DEF new
  <2>4. ASSUME RowHolds(t), Room, Put(p, new) PROVE Review!AutoApprove(p)
    <3>1. Alters(p, "auto_approved", today, proposal[p].applied)
      BY <2>2, <2>4, <1>0, OneRow
    <3> QED
      BY <2>1, <2>4, <3>1, <1>0, LedgerActions DEF Room
  <2> QED
    BY <1>1, <2>1, <2>3, <2>4 DEF Review!Next
<1>10. CASE Midnight
  BY <1>10 DEF Midnight, Review!Next, Review!NextDay
<1> QED
  <2>1. CASE \E t \in Tasks : Handle(t)
    BY <2>1, <1>1, <1>4, <1>5, <1>6, <1>7, <1>8, <1>9
    DEF Handle, Read, Apply, NoAnalysis, Stop
  <2>2. CASE \E t \in Tasks : Arrive(t)
    BY <2>2, <1>1, <1>2, <1>3 DEF Arrive, Submit, Find, Chat
  <2>3. CASE Rest \/ UNCHANGED vars
    BY <2>3, <1>1 DEF Rest, vars
  <2> QED
    BY <2>1, <2>2, <2>3, <1>10 DEF Next

\* The rows stored at the start are pending proposals of the ledger.
LEMMA LedgerInit == Init => Review!Init
<1> SUFFICES ASSUME Init PROVE Review!Init
  OBVIOUS
<1>1. \A k \in Keys, c \in Contents, b \in BOOLEAN :
        LET r == Counted(NewRow(k, c, b)) IN
        r.status = "pending" /\ r.applied = FALSE /\ r.day = 0
  BY DEF NewRow, Counted
<1>2. NoRow.status = "absent" /\ NoRow.applied = FALSE /\ NoRow.day = 0
  BY DEF NoRow, NewRow
<1>3. \A p \in Ids : /\ proposal[p].status \in {"absent", "pending"}
                     /\ proposal[p].applied = FALSE /\ proposal[p].day = 0
  BY <1>1, <1>2 DEF Init
<1> QED
  BY <1>3 DEF Init, Review!Init

\* Concurrent handlers, merges and failed calls implement the ledger, in which
\* a decision is one atomic step on a pending proposal.
THEOREM Refinement == Spec => ImplementsReview
<1>1. Init => Review!Init
  BY LedgerInit
<1>2. Inv /\ [Next]_vars => [Review!Next]_Review!vars
  BY LedgerStep
<1> QED
  BY <1>1, <1>2, Invariance, PTL DEF Spec, ImplementsReview, Review!Spec

-----------------------------------------------------------------------------
(* The limit of automatic approvals a day                                   *)

\* Finitely many rows are approved automatically on a day, however many there
\* are, and no more than the limit.
Limited ==
  \A d \in Nat :
    /\ IsFiniteSet(ApprovedOn(d))
    /\ DailyLimit > 0 => Cardinality(ApprovedOn(d)) <= DailyLimit

\* Only the ledger's AutoApprove adds to a day, to the present one, and only
\* while there is room; nothing else changes what was approved on any day.
LEMMA LimitStep ==
  ASSUME Inv, Limited, [Next]_vars
  PROVE  Limited'
<1>1. [Review!Next]_Review!vars /\ TypeOK /\ TypeOK'
  BY LedgerStep, TypeStep DEF Inv
<1>2. ASSUME \A d \in Nat : ApprovedOn(d)' = ApprovedOn(d) PROVE Limited'
  BY <1>2 DEF Limited
<1>3. CASE UNCHANGED Review!vars
  <2>1. \A p \in Ids : /\ proposal'[p].status = proposal[p].status
                       /\ proposal'[p].day = proposal[p].day
    BY <1>3 DEF Review!vars
  <2> QED
    BY <1>2, <2>1 DEF ApprovedOn
<1>4. ASSUME NEW p \in Ids, Review!Propose(p) PROVE Limited'
  <2>1. /\ proposal[p].status = "absent" /\ proposal'[p].status = "pending"
        /\ \A q \in Ids \ {p} : proposal'[q].status = proposal[q].status
        /\ \A q \in Ids : proposal'[q].day = proposal[q].day
    BY <1>4 DEF Review!Propose, Review!Becomes
  <2> QED
    BY <1>2, <2>1 DEF ApprovedOn
<1>5. ASSUME NEW p \in Ids, Review!MarkApplied(p) PROVE Limited'
  <2>1. \A q \in Ids : /\ proposal'[q].status = proposal[q].status
                       /\ proposal'[q].day = proposal[q].day
    BY <1>5 DEF Review!MarkApplied
  <2> QED
    BY <1>2, <2>1 DEF ApprovedOn
<1>6. ASSUME NEW ps \in SUBSET Ids, NEW v \in {"approved", "rejected"},
             Review!Decide(ps, v)
      PROVE  Limited'
  <2>1. /\ \A q \in ps : proposal[q].status = "pending" /\ proposal'[q].status = v
        /\ \A q \in Ids \ ps : proposal'[q].status = proposal[q].status
        /\ \A q \in Ids : proposal'[q].day = proposal[q].day
    BY <1>6 DEF Review!Decide, Review!Becomes
  <2>2. \A d \in Nat : ApprovedOn(d)' = ApprovedOn(d)
    BY <2>1 DEF ApprovedOn
  <2> QED
    BY <1>2, <2>2
<1>7. CASE Review!NextDay
  <2>1. \A q \in Ids : /\ proposal'[q].status = proposal[q].status
                       /\ proposal'[q].day = proposal[q].day
    BY <1>7 DEF Review!NextDay
  <2> QED
    BY <1>2, <2>1 DEF ApprovedOn
<1>8. ASSUME NEW p \in Ids, Review!AutoApprove(p) PROVE Limited'
  <2>1. /\ proposal[p].status = "pending"
        /\ proposal'[p].status = "auto_approved" /\ proposal'[p].day = today
        /\ \A q \in Ids \ {p} : /\ proposal'[q].status = proposal[q].status
                                /\ proposal'[q].day = proposal[q].day
    BY <1>8 DEF Review!AutoApprove, Review!Becomes
  <2>2. Room
    <3>1. Review!AutoApprovedToday = ApprovedOn(today)
      BY DEF Review!AutoApprovedToday, ApprovedOn
    <3> QED
      BY <1>8, <3>1, SameCardinality DEF Review!AutoApprove, Room
  <2>3. \A d \in Nat : {q \in Ids : /\ proposal'[q].status = "auto_approved"
                                   /\ proposal'[q].day = d}
          = IF d = today THEN ApprovedOn(d) \cup {p} ELSE ApprovedOn(d)
    BY <2>1 DEF ApprovedOn
  <2>4. \A d \in Nat :
          ApprovedOn(d)' = IF d = today THEN ApprovedOn(d) \cup {p} ELSE ApprovedOn(d)
    BY <2>3 DEF ApprovedOn
  <2>5. today \in Nat /\ p \notin ApprovedOn(today)
    BY <1>1, <2>1 DEF TypeOK, ApprovedOn
  <2>6. /\ IsFiniteSet(ApprovedOn(today) \cup {p})
        /\ Cardinality(ApprovedOn(today) \cup {p}) = Cardinality(ApprovedOn(today)) + 1
    BY <2>5, FS_AddElement DEF Limited
  <2>7. Cardinality(ApprovedOn(today)) \in Nat
    BY <2>5, FS_CardinalityType DEF Limited
  <2>8. DailyLimit > 0 => Cardinality(ApprovedOn(today) \cup {p}) <= DailyLimit
    BY <2>2, <2>6, <2>7, ConstantsAssumption DEF Room
  <2> QED
    BY <2>4, <2>6, <2>8 DEF Limited
<1> QED
  BY <1>1, <1>3, <1>4, <1>5, <1>6, <1>7, <1>8 DEF Review!Next

\* No day has more automatic approvals than the limit allows, with any number
\* of learners, at work on any number of proposals.
THEOREM DailyLimitHolds == Spec => []WithinDailyLimit
<1>1. Init => Limited
  <2> SUFFICES ASSUME Init PROVE Limited
    OBVIOUS
  <2>1. \A p \in Ids : proposal[p].status # "auto_approved"
    BY LedgerInit DEF Review!Init
  <2>2. \A d \in Nat : ApprovedOn(d) = {}
    BY <2>1 DEF ApprovedOn
  <2> QED
    BY <2>2, FS_EmptySet, ConstantsAssumption DEF Limited
<1>2. Inv /\ Limited /\ [Next]_vars => Limited'
  BY LimitStep
<1>3. Limited => WithinDailyLimit
  <2>1. \A d \in 0..MaxDay : d \in Nat
    BY ConstantsAssumption
  <2> QED
    BY <2>1 DEF Limited, WithinDailyLimit
<1> QED
  BY <1>1, <1>2, <1>3, Invariance, PTL DEF Spec

=============================================================================
