------------------------------- MODULE BsiDrafts -------------------------------
(***************************************************************************)
(* Stock drafts at the overseas-warehouse provider BSI (app/bsi_sdms.py,     *)
(* process_bsi_drafts), for one group of orders that ship together.          *)
(*                                                                         *)
(* Pipeline runs that may overlap look the group up in the table of          *)
(* submissions, commit the intent to submit, create the draft over HTTP and  *)
(* commit the result.  Any run may die or be cancelled at every point.  The  *)
(* other groups of a run only decide whether its second look at the row is   *)
(* fresh: a commit, or the end of the last reference, drops what it loaded.  *)
(***************************************************************************)
EXTENDS Naturals

CONSTANTS
  Runs,           \* runs of the pipeline
  MaxDrafts,      \* bound on the drafts the provider creates
  GatewayErrors   \* may a gateway answer 5xx, with no JSON, for a created draft?

ASSUME DraftAssumption == MaxDrafts \in Nat \ {0} /\ GatewayErrors \in BOOLEAN

VARIABLES
  submission,   \* the row of logistics_order_submissions
  bsiOrderNo,   \* orders.bsi_order_no of the group, 0 if empty
  drafts,       \* drafts at the provider, numbered from 1
  run,          \* run[r]: where run r is and what it knows
  overlapped    \* history: has a run committed its intent over a row that changed?

draftVars == <<submission, bsiOrderNo, drafts, run, overlapped>>

RowStatuses == {"none", "pending", "succeeded", "failed", "uncertain"}
DraftNumbers == 0..MaxDrafts

Outside == [pc |-> "outside", seen |-> "none", answer |-> "none", no |-> 0]
Step == [pc : {"outside", "check", "intend", "send", "record"}, seen : RowStatuses,
         answer : {"none", "succeeded", "failed", "uncertain"}, no : DraftNumbers]

DraftTypeOK ==
  /\ submission \in [status : RowStatuses, no : DraftNumbers]
  /\ bsiOrderNo \in DraftNumbers
  /\ drafts \in DraftNumbers
  /\ run \in [Runs -> Step]
  /\ overlapped \in BOOLEAN

DraftInit ==
  /\ submission = [status |-> "none", no |-> 0]
  /\ bsiOrderNo = 0 /\ drafts = 0 /\ overlapped = FALSE
  /\ run = [r \in Runs |-> Outside]

(* Statuses after which the group may be submitted.                        *)
Open == {"none", "failed"}
-----------------------------------------------------------------------------
(* The first look: a number in the orders or a row that is not open ends the *)
(* run's work on the group; otherwise the configuration and the addresses     *)
(* are checked, which may end it too (Quit).                               *)
Classify(r) ==
  /\ run[r].pc = "outside"
  /\ bsiOrderNo = 0 /\ submission.status \in Open
  /\ run' = [run EXCEPT ![r] = [Outside EXCEPT !.pc = "check", !.seen = submission.status]]
  /\ UNCHANGED <<submission, bsiOrderNo, drafts, overlapped>>

(* _write_bsi_order_no of a submission that succeeded before, at either look. *)
Reuse(r) ==
  /\ run[r].pc \in {"outside", "check"}
  /\ submission.status = "succeeded"
  /\ bsiOrderNo = 0 \/ run[r].pc = "check"
  /\ bsiOrderNo' = submission.no
  /\ run' = [run EXCEPT ![r] = Outside]
  /\ UNCHANGED <<submission, drafts, overlapped>>

(* What the second look may see: a row loaded at the first look may still be  *)
(* the session's, an absent one is queried again.                          *)
SecondLook(r) ==
  {submission.status} \cup (IF run[r].seen = "none" THEN {} ELSE {run[r].seen})

Recheck(r) ==
  /\ run[r].pc = "check"
  /\ \E s \in SecondLook(r) \cap Open :
       run' = [run EXCEPT ![r] = [@ EXCEPT !.pc = "intend", !.seen = s]]
  /\ UNCHANGED <<submission, bsiOrderNo, drafts, overlapped>>

(* Mutant: the intent is committed only with the result.                   *)
IntendLater(r) ==
  /\ run[r].pc = "intend"
  /\ run' = [run EXCEPT ![r].pc = "send"]
  /\ UNCHANGED <<submission, bsiOrderNo, drafts, overlapped>>

(* _upsert_submission and the commit before the request: an UPDATE by primary *)
(* key of the row it saw, or an INSERT.                                    *)
Intend(r) ==
  /\ run[r].pc = "intend"
  /\ run[r].seen = "none" => submission.status = "none"
  /\ submission' = [submission EXCEPT !.status = "pending"]
  /\ overlapped' = (overlapped \/ submission.status # run[r].seen)
  /\ run' = [run EXCEPT ![r].pc = "send"]
  /\ UNCHANGED <<bsiOrderNo, drafts>>

(* The run's work on the group ends: a check fails, the second look finds a   *)
(* row that is not open, the INSERT violates the unique customer number, or   *)
(* the run is cancelled or dies, at any time.                              *)
Quit(r) ==
  /\ run[r].pc # "outside"
  /\ run' = [run EXCEPT ![r] = Outside]
  /\ UNCHANGED <<submission, bsiOrderNo, drafts, overlapped>>
-----------------------------------------------------------------------------
(* Mutant: a request that timed out counts as failed.                      *)
VerdictHasty(created) == IF created THEN {"succeeded", "failed"} ELSE {"failed"}

(* SdmsClient._post and create_draft: what the run concludes.  A timeout, a   *)
(* transport error, a malformed answer, a missing number and a 5xx with JSON   *)
(* are uncertain; a rejection is a failure, and so is a 5xx without JSON,     *)
(* whether or not the draft exists.                                        *)
Verdict(created) ==
  {"uncertain"} \cup (IF created THEN {"succeeded"} ELSE {"failed"})
                \cup (IF GatewayErrors THEN {"failed"} ELSE {})

Send(r) ==
  /\ run[r].pc = "send"
  /\ \E created \in BOOLEAN : \E v \in Verdict(created) :
       /\ created => drafts < MaxDrafts
       /\ drafts' = IF created THEN drafts + 1 ELSE drafts
       /\ run' = [run EXCEPT ![r] = [@ EXCEPT !.pc = "record", !.answer = v,
                                     !.no = IF v = "succeeded" THEN drafts' ELSE 0]]
  /\ UNCHANGED <<submission, bsiOrderNo, overlapped>>

(* The result, with the order numbers if there is one, in one commit.        *)
RecordResult(r) ==
  /\ run[r].pc = "record"
  /\ submission' = [status |-> run[r].answer,
                    no |-> IF run[r].answer = "succeeded" THEN run[r].no ELSE submission.no]
  /\ bsiOrderNo' = IF run[r].answer = "succeeded" THEN run[r].no ELSE bsiOrderNo
  /\ run' = [run EXCEPT ![r] = Outside]
  /\ UNCHANGED <<drafts, overlapped>>

(* A further order of the same transaction is synchronised: the rows a run    *)
(* selects next have no number yet.                                        *)
NewRow ==
  /\ bsiOrderNo # 0
  /\ bsiOrderNo' = 0
  /\ UNCHANGED <<submission, drafts, run, overlapped>>

RunStep(r) ==
  \/ Classify(r) \/ Reuse(r) \/ Recheck(r) \/ Intend(r) \/ Send(r) \/ RecordResult(r) \/ Quit(r)

DraftNext == (\E r \in Runs : RunStep(r)) \/ NewRow

DraftSpec == DraftInit /\ [][DraftNext]_draftVars
-----------------------------------------------------------------------------
(* At most one draft is created for a group, over retries, crashes, timeouts  *)
(* and lost answers; only two runs that saw the same failed row at the same   *)
(* time may both submit.                                                   *)
DraftOnce == drafts <= 1 \/ overlapped

(* The number an order carries is that of a draft the provider created, and   *)
(* the one the table of submissions has for the group.                     *)
NumberIsDraft == bsiOrderNo # 0 => bsiOrderNo <= drafts /\ bsiOrderNo = submission.no

(* A draft leaves a row that blocks a further submission.  This holds between  *)
(* any two steps, so also after a run died.                                *)
DraftBlocks == drafts > 0 => submission.status \notin Open \/ overlapped
=============================================================================
