--------------------------- MODULE ProposalReview --------------------------
(***************************************************************************)
(* What the review of ontology proposals promises, without versions,        *)
(* handlers or failures: a ledger in which a proposal is decided at most    *)
(* once, by one atomic step on rows that are pending, is marked as applied  *)
(* only if a reviewer approved it, and in which at most DailyLimit          *)
(* proposals a day are approved automatically.  OntologyProposals           *)
(* implements it.                                                           *)
(***************************************************************************)
EXTENDS Integers, FiniteSets

CONSTANTS Ids, DailyLimit

VARIABLES
  status,     \* of each proposal
  applied,    \* whether applied_at of a proposal is set
  approvedOn, \* the day of a proposal's automatic approval
  today

vars == <<status, applied, approvedOn, today>>

Becomes(ps, s) == status' = [p \in Ids |-> IF p \in ps THEN s ELSE status[p]]

AutoApprovedToday ==
  {p \in Ids : status[p] = "auto_approved" /\ approvedOn[p] = today}

Propose(p) ==
  /\ status[p] = "absent"
  /\ Becomes({p}, "pending")
  /\ UNCHANGED <<applied, approvedOn, today>>

\* A reviewer, or a batch, decides pending proposals.
Decide(ps, verdict) ==
  /\ \A p \in ps : status[p] = "pending"
  /\ Becomes(ps, verdict)
  /\ UNCHANGED <<applied, approvedOn, today>>

AutoApprove(p) ==
  /\ status[p] = "pending"
  /\ DailyLimit = 0 \/ Cardinality(AutoApprovedToday) < DailyLimit
  /\ Becomes({p}, "auto_approved")
  /\ approvedOn' = [approvedOn EXCEPT ![p] = today]
  /\ UNCHANGED <<applied, today>>

MarkApplied(p) ==
  /\ status[p] = "approved"
  /\ applied' = [applied EXCEPT ![p] = TRUE]
  /\ UNCHANGED <<status, approvedOn, today>>

NextDay ==
  /\ today' = today + 1
  /\ UNCHANGED <<status, applied, approvedOn>>

Init ==
  /\ status \in [Ids -> {"absent", "pending"}]
  /\ applied = [p \in Ids |-> FALSE]
  /\ approvedOn = [p \in Ids |-> 0]
  /\ today = 0

Next ==
  \/ \E p \in Ids : Propose(p) \/ AutoApprove(p) \/ MarkApplied(p)
  \/ \E ps \in SUBSET Ids, v \in {"approved", "rejected"} : Decide(ps, v)
  \/ NextDay

Spec == Init /\ [][Next]_vars

=============================================================================
