----------------------------- MODULE Parcels_proofs -----------------------------
(***************************************************************************)
(* Proofs about what an order leaves with, for any number of orders, runs,        *)
(* submissions, scanners and batches: the drafts at the overseas warehouse       *)
(* (BsiDrafts), the parcels and how they are created (ShipmentCreate) and how     *)
(* they leave (Outbound).                                                   *)
(***************************************************************************)
EXTENDS BsiDrafts, ShipmentCreate, Outbound, TLAPS

(* Every step of a run keeps the types of the variables.                    *)
LEMMA DraftStepTyped ==
  ASSUME DraftTypeOK, NEW r \in Runs, RunStep(r)
  PROVE  DraftTypeOK'
<1> USE DraftAssumption DEF DraftTypeOK, DraftNumbers, RowStatuses, Step, Outside
<1>1. CASE Classify(r)  BY <1>1 DEF Classify, Open
<1>2. CASE Reuse(r)     BY <1>2 DEF Reuse
<1>3. CASE Recheck(r)
  <2>1. PICK s \in Open : run' = [run EXCEPT ![r] = [@ EXCEPT !.pc = "intend", !.seen = s]]
    BY <1>3 DEF Recheck
  <2> QED BY <1>3, <2>1 DEF Recheck, Open
<1>4. CASE Intend(r)    BY <1>4 DEF Intend
<1>5. CASE Send(r)
  <2>1. PICK created \in BOOLEAN : \E v \in Verdict(created) :
          /\ created => drafts < MaxDrafts
          /\ drafts' = IF created THEN drafts + 1 ELSE drafts
          /\ run' = [run EXCEPT ![r] = [@ EXCEPT !.pc = "record", !.answer = v,
                                        !.no = IF v = "succeeded" THEN drafts' ELSE 0]]
    BY <1>5 DEF Send
  <2>2. PICK v \in {"succeeded", "failed", "uncertain"} :
          run' = [run EXCEPT ![r] = [@ EXCEPT !.pc = "record", !.answer = v,
                                        !.no = IF v = "succeeded" THEN drafts' ELSE 0]]
    BY <2>1 DEF Verdict
  <2>3. drafts' \in 0..MaxDrafts /\ 0 \in 0..MaxDrafts  BY <2>1
  <2>4. run' \in [Runs -> Step]  BY <2>2, <2>3
  <2> QED BY <1>5, <2>3, <2>4 DEF Send
<1>6. CASE RecordResult(r)
  <2>1. run[r].answer \in RowStatuses /\ run[r].no \in 0..MaxDrafts  OBVIOUS
  <2> QED BY <1>6, <2>1 DEF RecordResult
<1>7. CASE Quit(r)      BY <1>7 DEF Quit
<1> QED BY <1>1, <1>2, <1>3, <1>4, <1>5, <1>6, <1>7 DEF RunStep

(* The variables keep their types, with and without gateway errors.         *)
THEOREM DraftTypeCorrect == DraftSpec => []DraftTypeOK
<1>1. DraftInit => DraftTypeOK
  <2>1. 0 \in DraftNumbers  BY DraftAssumption DEF DraftNumbers
  <2>2. Outside \in Step  BY <2>1 DEF Outside, Step, RowStatuses
  <2>3. [status |-> "none", no |-> 0] \in [status : RowStatuses, no : DraftNumbers]
    BY <2>1 DEF RowStatuses
  <2> QED BY <2>1, <2>2, <2>3 DEF DraftInit, DraftTypeOK
<1>2. DraftTypeOK /\ [DraftNext]_draftVars => DraftTypeOK'
  <2> SUFFICES ASSUME DraftTypeOK, [DraftNext]_draftVars PROVE DraftTypeOK'
    OBVIOUS
  <2>1. CASE \E r \in Runs : RunStep(r)  BY <2>1, DraftStepTyped
  <2>2. CASE NewRow
    BY <2>2, DraftAssumption DEF NewRow, DraftTypeOK, DraftNumbers
  <2>3. CASE UNCHANGED draftVars  BY <2>3 DEF draftVars, DraftTypeOK
  <2> QED BY <2>1, <2>2, <2>3 DEF DraftNext
<1> QED BY <1>1, <1>2, PTL DEF DraftSpec
-----------------------------------------------------------------------------
Submitting(r) == run[r].pc \in {"send", "record"}

(* Why one draft is all there is, as long as no run has committed its intent   *)
(* over a row that changed: a run submits only behind a pending row, which      *)
(* lets no other run in; it submits while there is no draft; and what it        *)
(* concludes of a draft that exists is never a plain failure.                *)
RowGuards ==
  /\ drafts <= 1
  /\ drafts > 0 => submission.status \notin Open
  /\ \A r \in Runs :
       /\ Submitting(r) => submission.status = "pending"
       /\ run[r].pc = "send" => drafts = 0
       /\ run[r].pc = "record" =>
            /\ run[r].answer \in {"succeeded", "failed", "uncertain"}
            /\ drafts > 0 => run[r].answer # "failed"
       /\ run[r].pc = "intend" => run[r].seen \in Open
  /\ \A r, q \in Runs : Submitting(r) /\ Submitting(q) => r = q

DraftInv == overlapped \/ RowGuards

(* Where a 5xx answer without JSON does not occur, every step keeps it.       *)
LEMMA DraftInvStep ==
  ASSUME ~GatewayErrors, DraftTypeOK, DraftInv, NEW r \in Runs, RunStep(r)
  PROVE  DraftInv'
<1> SUFFICES ASSUME ~overlapped' PROVE RowGuards'
  BY DEF DraftInv
<1> USE DEF RowGuards, DraftInv, DraftTypeOK, Submitting, Open, Step, Outside, DraftNumbers
<1>1. CASE Classify(r)  BY <1>1 DEF Classify
<1>2. CASE Reuse(r)     BY <1>2 DEF Reuse
<1>3. CASE Recheck(r)   BY <1>3 DEF Recheck
<1>4. CASE Intend(r)
  <2>1. ~overlapped /\ submission.status \in Open  BY <1>4 DEF Intend
  <2>2. drafts = 0 /\ \A q \in Runs : ~Submitting(q)  BY <2>1
  <2>3. run' = [run EXCEPT ![r].pc = "send"] /\ drafts' = drafts /\ submission'.status = "pending"
    BY <1>4 DEF Intend
  <2>4. /\ run'[r].pc = "send"
        /\ \A q \in Runs \ {r} : run'[q] = run[q] /\ ~Submitting(q)
    BY <2>2, <2>3
  <2>5. /\ \A q \in Runs : Submitting(q)' => q = r
        /\ \A q \in Runs : run'[q].pc = "intend" => run'[q].seen \in Open
        /\ \A q \in Runs : run'[q].pc # "record"
    BY <2>1, <2>4
  <2> QED BY <2>2, <2>3, <2>5
<1>5. CASE Send(r)
  <2>1. PICK created \in BOOLEAN : \E v \in Verdict(created) :
          /\ drafts' = IF created THEN drafts + 1 ELSE drafts
          /\ run' = [run EXCEPT ![r] = [@ EXCEPT !.pc = "record", !.answer = v,
                                        !.no = IF v = "succeeded" THEN drafts' ELSE 0]]
    BY <1>5 DEF Send
  <2>2. PICK v \in {"succeeded", "failed", "uncertain"} :
          /\ created => v # "failed"
          /\ run' = [run EXCEPT ![r] = [@ EXCEPT !.pc = "record", !.answer = v,
                                        !.no = IF v = "succeeded" THEN drafts' ELSE 0]]
    BY <2>1, ~GatewayErrors DEF Verdict
  <2>3. ~overlapped /\ UNCHANGED submission /\ run[r].pc = "send"  BY <1>5 DEF Send
  <2>4. drafts = 0 /\ submission.status = "pending"  BY <2>3
  <2>5. /\ run'[r].pc = "record" /\ run'[r].answer = v
        /\ \A q \in Runs \ {r} : run'[q] = run[q] /\ ~Submitting(q)
    BY <2>2, <2>3
  <2> QED BY <2>1, <2>2, <2>3, <2>4, <2>5
<1>6. CASE RecordResult(r)
  <2>1. /\ ~overlapped /\ run[r].pc = "record" /\ drafts' = drafts
        /\ run' = [run EXCEPT ![r] = Outside]
        /\ submission'.status = run[r].answer
    BY <1>6 DEF RecordResult
  <2>2. \A q \in Runs \ {r} : ~Submitting(q)  BY <2>1
  <2> QED BY <2>1, <2>2
<1>7. CASE Quit(r)      BY <1>7 DEF Quit
<1> QED BY <1>1, <1>2, <1>3, <1>4, <1>5, <1>6, <1>7 DEF RunStep

(* Without a 5xx answer that hides a created draft, a group gets one draft, over *)
(* any number of runs, deaths, timeouts and lost answers, unless two runs      *)
(* submitted after the same failed row.                                    *)
THEOREM DraftsSingle ==
  ASSUME ~GatewayErrors
  PROVE  DraftSpec => [](DraftOnce /\ DraftBlocks)
<1>1. DraftInit => DraftInv
  BY DEF DraftInit, DraftInv, RowGuards, Submitting, Outside
<1>2. DraftTypeOK /\ DraftInv /\ [DraftNext]_draftVars => DraftInv'
  <2> SUFFICES ASSUME DraftTypeOK, DraftInv, [DraftNext]_draftVars PROVE DraftInv'
    OBVIOUS
  <2>1. CASE \E r \in Runs : RunStep(r)  BY <2>1, ~GatewayErrors, DraftInvStep
  <2>2. CASE NewRow  BY <2>2 DEF NewRow, DraftInv, RowGuards, Submitting
  <2>3. CASE UNCHANGED draftVars  BY <2>3 DEF draftVars, DraftInv, RowGuards, Submitting
  <2> QED BY <2>1, <2>2, <2>3 DEF DraftNext
<1>3. DraftInv => DraftOnce /\ DraftBlocks
  BY DEF DraftInv, RowGuards, DraftOnce, DraftBlocks
<1> QED BY <1>1, <1>2, <1>3, DraftTypeCorrect, PTL DEF DraftSpec
-----------------------------------------------------------------------------
(* Numbers come only from the provider, and the order's is the row's.        *)
NumbersKnown ==
  /\ bsiOrderNo # 0 => bsiOrderNo = submission.no
  /\ submission.no <= drafts
  /\ \A r \in Runs : run[r].no <= drafts

(* The number an order carries is that of an existing draft and the one the     *)
(* table of submissions has, in every environment.                          *)
THEOREM NumbersReal == DraftSpec => []NumberIsDraft
<1>1. DraftInit => NumbersKnown
  BY DEF DraftInit, NumbersKnown, Outside
<1>2. DraftTypeOK /\ NumbersKnown /\ [DraftNext]_draftVars => NumbersKnown'
  <2> SUFFICES ASSUME DraftTypeOK, NumbersKnown, [DraftNext]_draftVars PROVE NumbersKnown'
    OBVIOUS
  <2> USE DEF NumbersKnown, DraftTypeOK, Step, Outside, DraftNumbers
  <2>1. ASSUME NEW r \in Runs, RunStep(r) PROVE NumbersKnown'
    <3> USE DraftAssumption
    <3>1. CASE Classify(r)      BY <3>1 DEF Classify
    <3>2. CASE Reuse(r)         BY <3>2 DEF Reuse
    <3>3. CASE Recheck(r)       BY <3>3 DEF Recheck
    <3>4. CASE Intend(r)        BY <3>4 DEF Intend
    <3>5. CASE Send(r)
      <4>1. drafts' \in Nat /\ drafts <= drafts'  BY <3>5 DEF Send
      <4>2. PICK n \in {0, drafts'}, v \in RowStatuses :
              run' = [run EXCEPT ![r] = [@ EXCEPT !.pc = "record", !.answer = v, !.no = n]]
        BY <3>5 DEF Send, Verdict, RowStatuses
      <4>3. \A q \in Runs : run'[q].no <= drafts'
        BY <4>1, <4>2
      <4> QED BY <3>5, <4>1, <4>3 DEF Send
    <3>6. CASE RecordResult(r)  BY <3>6 DEF RecordResult
    <3>7. CASE Quit(r)          BY <3>7 DEF Quit
    <3> QED BY <2>1, <3>1, <3>2, <3>3, <3>4, <3>5, <3>6, <3>7 DEF RunStep
  <2>2. CASE NewRow  BY <2>2 DEF NewRow
  <2>3. CASE UNCHANGED draftVars  BY <2>3 DEF draftVars
  <2> QED BY <2>1, <2>2, <2>3 DEF DraftNext
<1>3. DraftTypeOK /\ NumbersKnown => NumberIsDraft
  BY DEF NumbersKnown, NumberIsDraft, DraftTypeOK, DraftNumbers
<1> QED BY <1>1, <1>2, <1>3, DraftTypeCorrect, PTL DEF DraftSpec
-----------------------------------------------------------------------------

(* Every step keeps the types of the variables.                             *)
LEMMA ShipmentStepTyped ==
  ASSUME ShipmentTypeOK, [ShipmentNext]_shipmentVars
  PROVE  ShipmentTypeOK'
<1> USE ShipmentAssumption DEF ShipmentTypeOK, Parcels
<1>1. NoParcel \in [Parcelled -> Parcels]  BY DEF NoParcel
<1>2. Waiting \in Submission  BY <1>1 DEF Waiting, Submission
<1>3. \A s \in Submitters : sub[s] \in Submission /\ Skipped(s) \in Submission
  BY DEF Submission, Skipped
<1>4. ASSUME NEW s \in Submitters, SubmissionStep(s) PROVE ShipmentTypeOK'
  <2>0. Answered(s) => blind' \subseteq Parcelled  BY DEF Answered, Made
  <2>1. CASE Begin(s)
    <3>1. [Waiting EXCEPT !.pc = "look", !.todo = Parcelled] \in Submission
      BY <1>1 DEF Waiting, Submission
    <3> QED BY <2>1, <3>1 DEF Begin
  <2>2. CASE Look(s)
    <3>1. PICK o \in sub[s].todo :
            /\ sub' = [sub EXCEPT ![s] = [@ EXCEPT !.todo = sub[s].todo \ {o},
                         !.pc = IF HasExisting(o) THEN "look" ELSE "lock",
                         !.at = IF HasExisting(o) THEN {} ELSE {o}]]
            /\ vague' = vague \cup ({o} \cap blind)
      BY <2>2 DEF Look
    <3>2. o \in Parcelled  BY <1>3 DEF Submission
    <3>3. [sub[s] EXCEPT !.todo = sub[s].todo \ {o},
                         !.pc = IF HasExisting(o) THEN "look" ELSE "lock",
                         !.at = IF HasExisting(o) THEN {} ELSE {o}] \in Submission
      <4>1. sub[s] \in Submission  BY <1>3
      <4>2. CASE HasExisting(o)  BY <4>1, <4>2 DEF HasExisting, Submission
      <4>3. CASE ~HasExisting(o)  BY <3>2, <4>1, <4>3 DEF HasExisting, Submission
      <4> QED BY <4>2, <4>3 DEF HasExisting
    <3>4. sub' \in [Submitters -> Submission]  BY <3>1, <3>3
    <3>5. vague' \subseteq Parcelled  BY <3>1, <3>2
    <3> QED BY <2>2, <3>4, <3>5 DEF Look
  <2>3. CASE TakeCreateLock(s)
    <3>1. [sub[s] EXCEPT !.pc = "create"] \in Submission  BY <1>3 DEF Submission
    <3>2. sub' \in [Submitters -> Submission]  BY <1>3, <2>3, <3>1 DEF TakeCreateLock
    <3> QED BY <2>3, <3>2 DEF TakeCreateLock
  <2>4. CASE Create(s)
    <3>1. PICK o \in sub[s].at :
            \/ /\ parcels[o] < MaxParcels
               /\ parcels' = [parcels EXCEPT ![o] = @ + 1]
               /\ \/ /\ sub' = [sub EXCEPT ![s] = [@ EXCEPT !.pc = "settle",
                                                            !.made[o] = parcels[o] + 1]]
                     /\ UNCHANGED unsure
                  \/ /\ sub' = [sub EXCEPT ![s].pc = "settle"]
                     /\ unsure' = unsure \cup {o}
            \/ /\ sub' = [sub EXCEPT ![s].pc = "settle"]
               /\ UNCHANGED <<parcels, unsure>>
      BY <2>4 DEF Create
    <3>2. o \in Parcelled  BY <1>3 DEF Submission
    <3>3. [sub[s] EXCEPT !.pc = "settle"] \in Submission  BY <1>3 DEF Submission
    <3>4. ASSUME parcels[o] < MaxParcels
          PROVE  [sub[s] EXCEPT !.pc = "settle", !.made[o] = parcels[o] + 1] \in Submission
      <4>1. sub[s] \in Submission /\ parcels[o] + 1 \in Parcels  BY <1>3, <3>2, <3>4
      <4>2. [sub[s].made EXCEPT ![o] = parcels[o] + 1] \in [Parcelled -> Parcels]
        BY <4>1 DEF Submission
      <4>3. [sub[s] EXCEPT !.pc = "settle", !.made = [@ EXCEPT ![o] = parcels[o] + 1]]
              \in Submission
        BY <4>1, <4>2 DEF Submission
      <4> QED BY <4>3
    <3>5. sub' \in [Submitters -> Submission]  BY <3>1, <3>3, <3>4
    <3>6. parcels' \in [Parcelled -> Parcels] /\ unsure' \subseteq Parcelled  BY <3>1, <3>2
    <3> QED BY <2>4, <3>5, <3>6 DEF Create
  <2>5. CASE Settle(s)  BY <1>3, <2>5 DEF Settle
  <2>6. CASE Commit(s)
    <3>1. \A o \in Parcelled : sub[s].made[o] \in Parcels  BY <1>3 DEF Submission
    <3>2. Recorded(s) \in [Parcelled -> Parcels]  BY <3>1 DEF Recorded
    <3>3. LookedAt(s) \subseteq Parcelled  BY DEF LookedAt, Made
    <3> QED BY <1>2, <2>0, <2>6, <3>2, <3>3 DEF Commit
  <2>7. CASE Abort(s)
    <3>1. Made(s) \subseteq Parcelled  BY DEF Made
    <3> QED BY <1>2, <2>7, <3>1 DEF Abort
  <2>8. CASE CommitEarly(s)
    <3>1. \A o \in Parcelled : sub[s].made[o] \in Parcels  BY <1>3 DEF Submission
    <3>2. Recorded(s) \in [Parcelled -> Parcels]  BY <3>1 DEF Recorded
    <3>3. LookedAt(s) \subseteq Parcelled  BY DEF LookedAt, Made
    <3>4. [sub[s] EXCEPT !.made = NoParcel] \in Submission  BY <1>1, <1>3 DEF Submission
    <3> QED BY <2>0, <2>8, <3>2, <3>3, <3>4 DEF CommitEarly
  <2> QED BY <1>4, <2>1, <2>2, <2>3, <2>4, <2>5, <2>6, <2>7, <2>8 DEF SubmissionStep
<1>5. CASE UNCHANGED shipmentVars  BY <1>5 DEF shipmentVars
<1>6. ASSUME NEW o \in Parcelled, Refresh(o) PROVE ShipmentTypeOK'  BY <1>6 DEF Refresh
<1> QED BY <1>4, <1>5, <1>6 DEF ShipmentNext

(* The variables keep their types.                                          *)
THEOREM ShipmentTypeCorrect == ShipmentSpec => []ShipmentTypeOK
<1>1. ShipmentInit => ShipmentTypeOK
  BY ShipmentAssumption
     DEF ShipmentInit, ShipmentTypeOK, NoParcel, Parcels, Waiting, Submission
<1> QED BY <1>1, ShipmentStepTyped, PTL DEF ShipmentSpec
-----------------------------------------------------------------------------
(* An order a submission is about to create a parcel for, or has still to look   *)
(* at, has none in the submission's own session.                            *)
Ahead(s, o) == o \in sub[s].todo \/ (o \in sub[s].at /\ sub[s].pc \in {"lock", "create"})

SessionShape ==
  \A s \in Submitters :
    /\ sub[s].pc = "waiting" => \A o \in Parcelled : sub[s].made[o] = 0
    /\ \A o \in Parcelled : Ahead(s, o) => sub[s].made[o] = 0
    /\ sub[s].at \cap sub[s].todo = {}

(* An order that a submission has looked at and found without a parcel has      *)
(* none, or it lost its record, or its row did not count, or it is another         *)
(* session's.                                                             *)
LookHolds ==
  \A s \in Submitters, o \in Parcelled :
    o \in sub[s].at /\ sub[s].pc \in {"lock", "create"} /\ parcels[o] > 0 =>
      o \in unsure \cup vague \/ \E u \in Submitters \ {s} : o \in Made(u)

ShipmentInv == SessionShape /\ ParcelKept /\ LookHolds

(* At the start there are no parcels.                                       *)
LEMMA ShipmentInvInit == ShipmentInit => ShipmentInv
BY DEF ShipmentInit, ShipmentInv, SessionShape, Ahead, ParcelKept, LookHolds, Made, Waiting,
       NoParcel

(* What a step of one submission leaves of the sessions of the others.          *)
LEMMA OthersStay ==
  ASSUME ShipmentTypeOK, NEW s \in Submitters, SubmissionStep(s), NEW u \in Submitters \ {s}
  PROVE  sub'[u] = sub[u] /\ Made(u)' = Made(u)
<1>1. sub'[u] = sub[u]
  BY DEF ShipmentTypeOK, SubmissionStep, Begin, Look, TakeCreateLock, CommitEarly, Create, Settle,
            Commit, Abort
<1> QED BY <1>1 DEF Made

(* The shape of a session, over every step of a submission.                     *)
LEMMA SessionShapeStep ==
  ASSUME ShipmentTypeOK, SessionShape, NEW s \in Submitters, SubmissionStep(s)
  PROVE  SessionShape'
<1> USE DEF ShipmentTypeOK, Submission, Ahead
<1>0. SUFFICES
        /\ sub'[s].pc = "waiting" => \A o \in Parcelled : sub'[s].made[o] = 0
        /\ \A o \in Parcelled : Ahead(s, o)' => sub'[s].made[o] = 0
        /\ sub'[s].at \cap sub'[s].todo = {}
  BY OthersStay DEF SessionShape
<1>1. CASE Begin(s)  BY <1>1 DEF Begin, Waiting, NoParcel
<1>2. CASE Look(s)
  <2>1. PICK o \in sub[s].todo :
          sub' = [sub EXCEPT ![s] = [@ EXCEPT !.todo = sub[s].todo \ {o},
                    !.pc = IF HasExisting(o) THEN "look" ELSE "lock",
                    !.at = IF HasExisting(o) THEN {} ELSE {o}]]
    BY <1>2 DEF Look
  <2>2. /\ sub'[s].todo = sub[s].todo \ {o} /\ sub'[s].made = sub[s].made
        /\ sub'[s].at \subseteq {o} /\ sub'[s].pc # "waiting"
    <3> DEFINE looked == [sub[s] EXCEPT !.todo = sub[s].todo \ {o},
                            !.pc = IF HasExisting(o) THEN "look" ELSE "lock",
                            !.at = IF HasExisting(o) THEN {} ELSE {o}]
    <3>1. sub[s] \in Submission  OBVIOUS
    <3>2. sub' = [sub EXCEPT ![s] = looked]  BY <2>1
    <3>3. /\ looked.todo = sub[s].todo \ {o} /\ looked.made = sub[s].made
          /\ looked.at \subseteq {o} /\ looked.pc # "waiting"
      BY <3>1 DEF HasExisting
    <3> HIDE DEF looked
    <3> QED BY <3>2, <3>3
  <2> QED BY <2>2 DEF SessionShape
<1>3. CASE TakeCreateLock(s)
  <2>1. /\ sub[s].pc = "lock" /\ sub'[s].pc # "waiting" /\ sub'[s].made = sub[s].made
        /\ sub'[s].todo = sub[s].todo /\ sub'[s].at \subseteq sub[s].at
    BY <1>3 DEF TakeCreateLock, Skipped
  <2> QED BY <2>1 DEF SessionShape
<1>4. CASE Create(s)
  <2>1. PICK o \in sub[s].at :
          \/ sub' = [sub EXCEPT ![s] = [@ EXCEPT !.pc = "settle", !.made[o] = parcels[o] + 1]]
          \/ sub' = [sub EXCEPT ![s].pc = "settle"]
    BY <1>4 DEF Create
  <2>2. sub[s].pc = "create" /\ sub[s] \in Submission  BY <1>4 DEF Create
  <2>3. CASE sub' = [sub EXCEPT ![s] = [@ EXCEPT !.pc = "settle", !.made[o] = parcels[o] + 1]]
    <3>1. sub'[s] = [sub[s] EXCEPT !.pc = "settle",
                       !.made = [sub[s].made EXCEPT ![o] = parcels[o] + 1]]
      BY <2>2, <2>3
    <3>2. /\ sub'[s].pc = "settle" /\ sub'[s].todo = sub[s].todo /\ sub'[s].at = sub[s].at
          /\ \A q \in Parcelled \ {o} : sub'[s].made[q] = sub[s].made[q]
      BY <2>2, <3>1
    <3> QED BY <3>2 DEF SessionShape
  <2>4. CASE sub' = [sub EXCEPT ![s].pc = "settle"]
    <3>1. /\ sub'[s].pc = "settle" /\ sub'[s].todo = sub[s].todo /\ sub'[s].at = sub[s].at
          /\ sub'[s].made = sub[s].made
      BY <2>2, <2>4
    <3> QED BY <3>1 DEF SessionShape
  <2> QED BY <2>1, <2>3, <2>4
<1>5. CASE Settle(s)
  <2>1. /\ sub[s].pc = "settle" /\ sub'[s].pc = "look" /\ sub'[s].made = sub[s].made
        /\ sub'[s].todo = sub[s].todo /\ sub'[s].at = {}
    BY <1>5 DEF Settle, Skipped
  <2> QED BY <2>1 DEF SessionShape
<1>6. CASE Commit(s)  BY <1>6 DEF Commit, Waiting, NoParcel
<1>7. CASE Abort(s)  BY <1>7 DEF Abort, Waiting, NoParcel
<1>8. CASE CommitEarly(s)
  <2>1. sub'[s] = [sub[s] EXCEPT !.made = NoParcel]  BY <1>8 DEF CommitEarly
  <2>2. sub'[s].made = NoParcel /\ sub'[s].at = sub[s].at /\ sub'[s].todo = sub[s].todo
    BY <2>1
  <2> QED BY <2>2 DEF SessionShape, NoParcel
<1> QED BY <1>1, <1>2, <1>3, <1>4, <1>5, <1>6, <1>7, <1>8 DEF SubmissionStep

(* What a step does to the parcels of one order: it keeps the record or the      *)
(* session of those there are, and a look's answer stays justified.           *)
LEMMA ParcelStep ==
  ASSUME ShipmentTypeOK, ShipmentInv, NEW s \in Submitters, SubmissionStep(s)
  PROVE  ParcelKept' /\ LookHolds'
<1> USE ShipmentAssumption DEF ShipmentTypeOK, Submission, Parcels
<1> DEFINE Kept(o) == parcels[o] > 0 =>
                        shipment[o] # 0 \/ o \in unsure \/ \E u \in Submitters : o \in Made(u)
           Looked(u, o) == o \in sub[u].at /\ sub[u].pc \in {"lock", "create"}
           Known(u, o) == o \in unsure \cup vague \/ \E v \in Submitters \ {u} : o \in Made(v)
<1>0. SUFFICES ASSUME NEW o \in Parcelled
               PROVE  /\ Kept(o)'
                      /\ \A u \in Submitters : Looked(u, o)' /\ parcels'[o] > 0 => Known(u, o)'
  BY DEF ParcelKept, LookHolds
<1>1. Kept(o) /\ \A u \in Submitters : Looked(u, o) /\ parcels[o] > 0 => Known(u, o)
  BY DEF ShipmentInv, ParcelKept, LookHolds
<1>2. \A u \in Submitters \ {s} : sub'[u] = sub[u] /\ Made(u)' = Made(u)  BY OthersStay
<1>3. \A u \in Submitters : o \in Made(u) <=> sub[u].made[o] # 0  BY DEF Made
<1>4. \A u \in Submitters : o \in Made(u)' <=> sub'[u].made[o] # 0  BY DEF Made
<1>11. vague \subseteq vague'
  BY DEF SubmissionStep, Begin, Look, TakeCreateLock, CommitEarly, Create, Settle, Commit, Abort
<1>5. CASE Begin(s)
  <2>1. /\ UNCHANGED <<shipment, parcels, unsure>>
        /\ sub[s].pc = "waiting" /\ sub'[s].pc = "look"
    BY <1>5 DEF Begin, Waiting
  <2>2. o \notin Made(s)  BY <1>3, <2>1 DEF ShipmentInv, SessionShape
  <2>3. sub'[s].at = {}  BY <1>5 DEF Begin, Waiting
  <2>4. Kept(o)'  BY <1>1, <1>2, <2>1, <2>2
  <2>5. ASSUME NEW u \in Submitters, Looked(u, o)', parcels'[o] > 0 PROVE Known(u, o)'
    <3>1. u # s /\ Looked(u, o)  BY <1>2, <2>3, <2>5
    <3>2. Known(u, o)  BY <1>1, <2>1, <2>5, <3>1
    <3> QED BY <1>2, <1>11, <2>1, <2>2, <3>2
  <2> QED BY <2>4, <2>5
<1>6. CASE Look(s)
  <2>1. PICK q \in sub[s].todo :
          /\ sub' = [sub EXCEPT ![s] = [@ EXCEPT !.todo = sub[s].todo \ {q},
                       !.pc = IF HasExisting(q) THEN "look" ELSE "lock",
                       !.at = IF HasExisting(q) THEN {} ELSE {q}]]
          /\ vague' = vague \cup ({q} \cap blind)
    BY <1>6 DEF Look
  <2>2. UNCHANGED <<shipment, parcels, unsure>> /\ sub'[s].made = sub[s].made
    BY <1>6, <2>1 DEF Look
  <2>3. Looked(s, o)' => o \in sub[s].todo /\ (shipment[o] = 0 \/ o \in vague')
    BY <2>1 DEF HasExisting
  <2>4. o \in sub[s].todo => o \notin Made(s)
    BY <1>3 DEF ShipmentInv, SessionShape, Ahead
  <2>5. \A u \in Submitters : o \in Made(u)' <=> o \in Made(u)  BY <1>2, <1>3, <1>4, <2>2
  <2>6. Looked(s, o)' /\ parcels'[o] > 0 => Known(s, o)'
    BY <1>1, <1>11, <2>2, <2>3, <2>4, <2>5
  <2>7. \A u \in Submitters \ {s} : Looked(u, o)' => Looked(u, o)  BY <1>2
  <2> QED BY <1>1, <1>11, <2>2, <2>5, <2>6, <2>7
<1>7. CASE TakeCreateLock(s) \/ Settle(s)
  <2>0. sub'[s] \in {[sub[s] EXCEPT !.pc = "create"], Skipped(s)} /\ sub[s] \in Submission
        /\ (sub'[s] # Skipped(s) => sub[s].pc = "lock")
    BY <1>7 DEF TakeCreateLock, Settle
  <2>1. /\ UNCHANGED <<shipment, parcels, unsure>> /\ sub'[s].made = sub[s].made
        /\ Looked(s, o)' => Looked(s, o)
    <3>1. UNCHANGED <<shipment, parcels, unsure>>  BY <1>7 DEF TakeCreateLock, Settle
    <3>2. CASE sub'[s] = Skipped(s)  BY <2>0, <3>1, <3>2 DEF Skipped
    <3>3. CASE sub'[s] # Skipped(s)  BY <2>0, <3>1, <3>3
    <3> QED BY <3>2, <3>3
  <2>2. \A u \in Submitters : o \in Made(u)' <=> o \in Made(u)  BY <1>2, <1>3, <1>4, <2>1
  <2>3. \A u \in Submitters : Looked(u, o)' => Looked(u, o)  BY <1>2, <2>1
  <2> QED BY <1>1, <1>11, <2>1, <2>2, <2>3
<1>8. CASE Create(s)
  <2>0. PICK q \in sub[s].at :
          \/ /\ parcels' = [parcels EXCEPT ![q] = @ + 1]
             /\ \/ /\ sub' = [sub EXCEPT ![s] = [@ EXCEPT !.pc = "settle",
                                                          !.made[q] = parcels[q] + 1]]
                   /\ UNCHANGED unsure
                \/ /\ sub' = [sub EXCEPT ![s].pc = "settle"]
                   /\ unsure' = unsure \cup {q}
          \/ /\ sub' = [sub EXCEPT ![s].pc = "settle"]
             /\ UNCHANGED <<parcels, unsure>>
    BY <1>8 DEF Create
  <2>1. /\ shipment' = shipment /\ sub[s] \in Submission /\ unsure \subseteq unsure'
        /\ sub'[s].pc = "settle"
    <3>1. shipment' = shipment /\ sub[s] \in Submission  BY <1>8 DEF Create
    <3>2. unsure \subseteq unsure'  BY <2>0
    <3>3. CASE sub' = [sub EXCEPT ![s] = [@ EXCEPT !.pc = "settle", !.made[q] = parcels[q] + 1]]
      <4>1. sub'[s] = [sub[s] EXCEPT !.pc = "settle",
                         !.made = [sub[s].made EXCEPT ![q] = parcels[q] + 1]]
        BY <3>1, <3>3
      <4> QED BY <3>1, <3>2, <4>1
    <3>4. CASE sub' = [sub EXCEPT ![s].pc = "settle"]  BY <3>1, <3>2, <3>4
    <3> QED BY <2>0, <3>3, <3>4
  <2>2. \/ parcels'[o] = parcels[o] /\ sub'[s].made[o] = sub[s].made[o]
        \/ o \in unsure'
        \/ sub'[s].made[o] = parcels[o] + 1
    <3>1. CASE q = o
      <4>1. CASE sub' = [sub EXCEPT ![s] = [@ EXCEPT !.pc = "settle", !.made[q] = parcels[q] + 1]]
        <5>1. sub'[s] = [sub[s] EXCEPT !.pc = "settle",
                           !.made = [sub[s].made EXCEPT ![q] = parcels[q] + 1]]
          BY <2>1, <4>1
        <5> QED BY <2>1, <3>1, <5>1
      <4>2. CASE unsure' = unsure \cup {q}  BY <3>1, <4>2
      <4>3. CASE sub' = [sub EXCEPT ![s].pc = "settle"] /\ UNCHANGED <<parcels, unsure>>
        BY <2>1, <4>3
      <4> QED BY <2>0, <4>1, <4>2, <4>3
    <3>2. CASE q # o
      <4>1. parcels'[o] = parcels[o]  BY <2>0, <3>2
      <4>2. CASE sub' = [sub EXCEPT ![s] = [@ EXCEPT !.pc = "settle", !.made[q] = parcels[q] + 1]]
        <5>1. sub'[s] = [sub[s] EXCEPT !.pc = "settle",
                           !.made = [sub[s].made EXCEPT ![q] = parcels[q] + 1]]
          BY <2>1, <4>2
        <5> QED BY <2>1, <3>2, <4>1, <5>1
      <4>3. CASE sub' = [sub EXCEPT ![s].pc = "settle"]  BY <2>1, <4>1, <4>3
      <4> QED BY <2>0, <4>2, <4>3
    <3> QED BY <3>1, <3>2
  <2>3. \A u \in Submitters \ {s} : Looked(u, o)' <=> Looked(u, o)  BY <1>2
  <2>4. CASE parcels'[o] = parcels[o] /\ sub'[s].made[o] = sub[s].made[o]
    <3>1. \A u \in Submitters : o \in Made(u)' <=> o \in Made(u)  BY <1>2, <1>3, <1>4, <2>4
    <3> QED BY <1>1, <1>11, <2>1, <2>3, <2>4, <3>1
  <2>5. CASE o \in unsure'  BY <2>5
  <2>6. CASE sub'[s].made[o] = parcels[o] + 1
    <3>1. o \in Made(s)'  BY <1>4, <2>6
    <3> QED BY <1>1, <1>2, <1>11, <2>1, <2>3, <3>1
  <2> QED BY <2>2, <2>4, <2>5, <2>6
<1>9. CASE Commit(s) \/ CommitEarly(s)
  <2>1. /\ parcels' = parcels /\ unsure' = unsure \cup LookedAt(s)
        /\ shipment'[o] = IF o \in Made(s) THEN sub[s].made[o] ELSE shipment[o]
        /\ Looked(s, o)' => Looked(s, o)
    <3>1. parcels' = parcels /\ unsure' = unsure \cup LookedAt(s) /\ shipment' = Recorded(s)
      BY <1>9 DEF Commit, CommitEarly
    <3>2. CASE sub'[s] = Waiting  BY <3>1, <3>2 DEF Recorded, Waiting
    <3>3. CASE sub'[s] = [sub[s] EXCEPT !.made = NoParcel]
      <4>1. sub[s] \in Submission  OBVIOUS
      <4> QED BY <3>1, <3>3, <4>1 DEF Recorded
    <3> QED BY <1>9, <3>2, <3>3 DEF Commit, CommitEarly
  <2>2. Kept(o)'  BY <1>1, <1>2, <1>3, <2>1
  <2>3. ASSUME NEW u \in Submitters \ {s}, Looked(u, o), parcels[o] > 0 PROVE Known(u, o)'
    <3>1. CASE o \in Made(s)
      BY <2>1, <2>3, <3>1 DEF LookedAt
    <3>2. CASE o \notin Made(s)  BY <1>1, <1>2, <1>11, <2>1, <2>3, <3>2
    <3> QED BY <3>1, <3>2
  <2>4. Looked(s, o)' /\ parcels'[o] > 0 => Known(s, o)'  BY <1>1, <1>2, <1>11, <2>1
  <2> QED BY <1>2, <2>1, <2>2, <2>3, <2>4
<1>10. CASE Abort(s)
  <2>1. /\ UNCHANGED <<shipment, parcels>> /\ unsure' = unsure \cup Made(s)
        /\ sub'[s].pc = "waiting"
    BY <1>10 DEF Abort, Waiting
  <2>2. Kept(o)'  BY <1>1, <1>2, <2>1
  <2>3. ASSUME NEW u \in Submitters, Looked(u, o)', parcels'[o] > 0 PROVE Known(u, o)'
    <3>1. u # s /\ Looked(u, o)  BY <1>2, <2>1, <2>3
    <3>2. Known(u, o)  BY <1>1, <2>1, <2>3, <3>1
    <3> QED BY <1>2, <1>11, <2>1, <3>2
  <2> QED BY <2>2, <2>3
<1> QED BY <1>5, <1>6, <1>7, <1>8, <1>9, <1>10 DEF SubmissionStep

(* Every step keeps the invariant.                                          *)
LEMMA ShipmentInvStep == ShipmentTypeOK /\ ShipmentInv /\ [ShipmentNext]_shipmentVars => ShipmentInv'
<1> SUFFICES ASSUME ShipmentTypeOK, ShipmentInv, [ShipmentNext]_shipmentVars PROVE ShipmentInv'
  OBVIOUS
<1>1. ASSUME NEW s \in Submitters, SubmissionStep(s) PROVE ShipmentInv'
  BY <1>1, SessionShapeStep, ParcelStep DEF ShipmentInv
<1>2. CASE UNCHANGED shipmentVars
  BY <1>2 DEF shipmentVars, ShipmentInv, SessionShape, Ahead, ParcelKept, LookHolds, Made
<1>3. ASSUME NEW o \in Parcelled, Refresh(o) PROVE ShipmentInv'
  BY <1>3 DEF Refresh, ShipmentInv, SessionShape, Ahead, ParcelKept, LookHolds, Made
<1> QED BY <1>1, <1>2, <1>3 DEF ShipmentNext

(* A parcel is recorded or about to be, unless its answer or session was lost.  *)
THEOREM ParcelsKept == ShipmentSpec => []ParcelKept
<1>1. ShipmentInv => ParcelKept  BY DEF ShipmentInv
<1> QED BY <1>1, ShipmentInvInit, ShipmentInvStep, ShipmentTypeCorrect, PTL DEF ShipmentSpec

(* No step creates a further parcel for an order whose parcel is on record, in a    *)
(* row that counts, or in the same session: the look before the lock is enough for  *)
(* one submission, however many run beside it.                               *)
THEOREM NoParcelTwice == ShipmentSpec => NoSecondParcel
<1> DEFINE Justified ==
      \A s \in Submitters, o \in Parcelled :
        parcels[o] > 0 /\ parcels'[o] > parcels[o] /\ o \in sub[s].at /\ sub[s].pc = "create"
          => \/ o \in unsure \cup vague
             \/ \E u \in Submitters \ {s} : o \in Made(u)
<1>1. ShipmentInv => Justified  BY DEF ShipmentInv, LookHolds
<1>2. ShipmentInv /\ [ShipmentNext]_shipmentVars => [Justified]_shipmentVars  BY <1>1
<1> QED BY <1>2, ShipmentInvInit, ShipmentInvStep, ShipmentTypeCorrect, PTL
        DEF ShipmentSpec, NoSecondParcel
-----------------------------------------------------------------------------
(* What a request looks like at each of its steps.                           *)
LEMMA ScanShape ==
  ASSUME NEW x \in Scan, x # NoScan
  PROVE  /\ x.order \in OutOrders /\ x.seen \in OutStages
         /\ x.pc \in {"found", "clear", "recorded"}
         /\ \A pc \in {"found", "clear", "recorded"} :
              [x EXCEPT !.pc = pc] \in Scan /\ [x EXCEPT !.pc = pc].order = x.order
                /\ [x EXCEPT !.pc = pc].pc = pc
  BY DEF Scan

(* Every step of a scan keeps the types of the variables.                    *)
LEMMA ScanTyped ==
  ASSUME OutTypeOK, NEW s \in Scanners, ScanStep(s)
  PROVE  OutTypeOK'
<1>1. NoScan \in Scan  BY DEF Scan
<1>2. CASE FindOrder(s)
  <2>1. PICK o \in OutOrders :
          scan' = [scan EXCEPT ![s] = [pc |-> "found", order |-> o, seen |-> stage[o]]]
    BY <1>2 DEF FindOrder
  <2>2. [pc |-> "found", order |-> o, seen |-> stage[o]] \in Scan  BY DEF OutTypeOK, Scan
  <2> QED BY <1>2, <2>1, <2>2 DEF FindOrder, scanVars, OutTypeOK
<1>3. ASSUME scan[s].pc # "idle" PROVE scan[s] \in Scan /\ scan[s] # NoScan
  BY <1>3 DEF OutTypeOK, NoScan
<1>4. CASE LookUp(s)
  <2>1. scan[s] \in Scan /\ scan[s] # NoScan  BY <1>3, <1>4 DEF LookUp
  <2>2. [scan[s] EXCEPT !.pc = "clear"] \in Scan  BY <2>1, ScanShape
  <2>3. scan' \in [Scanners -> Scan]
    <3>1. \/ scan' = [scan EXCEPT ![s] = [scan[s] EXCEPT !.pc = "clear"]]
          \/ scan' = [scan EXCEPT ![s] = NoScan]
      BY <1>4 DEF LookUp
    <3> QED BY <1>1, <2>2, <3>1 DEF OutTypeOK
  <2>4. scan[s].order \in OutOrders  BY <2>1, ScanShape
  <2>5. carries[scan[s].order] \in TrackingNos  BY <2>4 DEF OutTypeOK
  <2>6. beside' \subseteq TrackingNos  BY <1>4, <2>5 DEF LookUp, OutTypeOK
  <2> QED BY <1>4, <2>3, <2>6 DEF LookUp, scanVars, OutTypeOK
<1>5. CASE Record(s)
  <2>1. scan[s] \in Scan /\ scan[s] # NoScan  BY <1>3, <1>5 DEF Record
  <2>2. [scan[s] EXCEPT !.pc = "recorded"] \in Scan /\ scan[s].order \in OutOrders
    BY <2>1, ScanShape
  <2> QED BY <1>5, <2>2 DEF Record, scanVars, OutTypeOK, ScanRecord
<1>6. CASE ShipScanned(s)
  BY <1>1, <1>6 DEF ShipScanned, scanVars, OutTypeOK, OutStages
<1>7. CASE DieScanning(s)
  <2>1. scan[s] \in Scan /\ scan[s] # NoScan  BY <1>7 DEF DieScanning, OutTypeOK
  <2>2. scan[s].order \in OutOrders  BY <2>1, ScanShape
  <2> QED BY <1>1, <1>7, <2>2 DEF DieScanning, scanVars, OutTypeOK, ScanRecord
<1> QED BY <1>2, <1>4, <1>5, <1>6, <1>7 DEF ScanStep

(* A batch that rests has read nothing.                                      *)
LEMMA NoBatchTyped == NoBatch \in Batch
<1>1. NoRows \in [{} -> OutStages]  BY DEF NoRows
<1>2. NoBatch \in [seen : [{} -> OutStages], to : [{} -> OutStages]]  BY <1>1 DEF NoBatch
<1>3. {} \in SUBSET OutOrders  OBVIOUS
<1> QED BY <1>2, <1>3 DEF Batch

(* Every step of a batch keeps them, too.                                    *)
LEMMA BatchTyped ==
  ASSUME OutTypeOK, NEW b \in Batches, BatchStep(b)
  PROVE  OutTypeOK'
<1>1. ASSUME NEW S \in SUBSET OutOrders, NEW T \in SUBSET OutStages, Reads(b, S, T)
      PROVE  OutTypeOK'
  <2>1. PICK to \in [S -> T] :
          batch' = [batch EXCEPT ![b] = [seen |-> [o \in S |-> stage[o]], to |-> to]]
    BY <1>1 DEF Reads
  <2>2. to \in [S -> OutStages] /\ [o \in S |-> stage[o]] \in [S -> OutStages]
    BY DEF OutTypeOK
  <2>3. [seen |-> [o \in S |-> stage[o]], to |-> to] \in Batch  BY <2>2 DEF Batch
  <2> QED BY <1>1, <2>1, <2>3 DEF Reads, OutTypeOK
<1>2. {"picking", "shipped"} \in SUBSET OutStages /\ {"shipped"} \in SUBSET OutStages
      /\ {"buying"} \in SUBSET OutStages /\ {"voided"} \in SUBSET OutStages
  BY DEF OutStages
<1>3. CASE ToPicking(b)  BY <1>1, <1>2, <1>3 DEF ToPicking
<1>4. CASE MarkShipped(b)  BY <1>1, <1>2, <1>4 DEF MarkShipped
<1>5. CASE ImportShipped(b)
  BY <1>1, <1>2, <1>5 DEF ImportShipped, Those, Matching
<1>6. CASE PurchaseDeleted(b)  BY <1>1, <1>2, <1>6 DEF PurchaseDeleted, Those
<1>7. CASE Cancelled(b)
  <2>1. PICK o \in OutOrders : Reads(b, {o}, {"voided"})  BY <1>7 DEF Cancelled
  <2> QED BY <1>1, <1>2, <2>1
<1>8. NoBatch \in Batch  BY NoBatchTyped
<1>9. CASE CommitBatch(b)
  <2>1. PICK S \in SUBSET OutOrders :
          batch[b] \in [seen : [S -> OutStages], to : [S -> OutStages]]
    BY DEF OutTypeOK, Batch
  <2>2. stage' \in [OutOrders -> OutStages]  BY <1>9, <2>1 DEF CommitBatch, OutTypeOK
  <2>3. overtaken' \subseteq OutOrders  BY <1>9, <2>1 DEF CommitBatch, OutTypeOK
  <2> QED BY <1>8, <1>9, <2>2, <2>3 DEF CommitBatch, OutTypeOK
<1>10. CASE RollBackBatch(b)  BY <1>8, <1>10 DEF RollBackBatch, OutTypeOK
<1> QED BY <1>3, <1>4, <1>5, <1>6, <1>7, <1>9, <1>10 DEF BatchStep

(* The variables of scans and batches stay well typed.                       *)
THEOREM OutTypeCorrect == OutSpec => []OutTypeOK
<1>1. OutInit => OutTypeOK
  <2>1. NoScan \in Scan  BY DEF Scan
  <2> QED BY <2>1, NoBatchTyped DEF OutInit, OutTypeOK, OutStages
<1>2. OutTypeOK /\ [OutNext]_outVars => OutTypeOK'
  <2>1. ASSUME OutTypeOK, UNCHANGED outVars PROVE OutTypeOK'  BY <2>1 DEF outVars, OutTypeOK
  <2> QED BY <2>1, ScanTyped, BatchTyped DEF OutNext
<1> QED BY <1>1, <1>2, PTL DEF OutSpec

(* A request that has found its number unused is the only one that has, and no    *)
(* record of the number has appeared since, unless two looked at once.          *)
ClearAlone ==
  \A s \in Scanners : scan[s].pc = "clear" =>
    /\ \A t \in Scanners \ {s} :
         scan[t].pc = "clear" /\ carries[scan[t].order] = carries[scan[s].order]
           => carries[scan[s].order] \in beside
    /\ \A r \in scanned :
         carries[r.order] = carries[scan[s].order] => carries[r.order] \in beside

(* Only a cancellation writes an order that it has read as out.              *)
OutStaysOut ==
  \A b \in Batches : \A o \in DOMAIN batch[b].seen :
    batch[b].seen[o] \in {"shipped", "voided"} => batch[b].to[o] = "voided"

OutInv == ScannedIsOut /\ ClearAlone /\ OutStaysOut

(* A step of a scanner keeps the invariant.                                   *)
LEMMA ScanKeeps ==
  ASSUME OutTypeOK, OutInv, NEW s \in Scanners, ScanStep(s)
  PROVE  OutInv'
<1>1. UNCHANGED <<carries, batch, overtaken>>
  BY DEF ScanStep, FindOrder, LookUp, Record, ShipScanned, DieScanning, scanVars
<1>2. \A t \in Scanners \ {s} : scan'[t] = scan[t]
  BY DEF ScanStep, FindOrder, LookUp, Record, ShipScanned, DieScanning, OutTypeOK
<1>3. OutStaysOut'  BY <1>1 DEF OutInv, OutStaysOut
<1>4. \A r \in scanned : r.by \in Scanners /\ r.order \in OutOrders
  BY DEF OutTypeOK, ScanRecord
<1>5. NoScan.pc = "idle"  BY DEF NoScan
<1>6. CASE FindOrder(s)
  <2>1. scan[s].pc = "idle" /\ scan'[s].pc = "found" /\ UNCHANGED <<stage, scanned, torn, beside>>
    BY <1>5, <1>6 DEF FindOrder, OutTypeOK
  <2> QED BY <1>1, <1>2, <1>3, <1>4, <2>1
          DEF OutInv, ScannedIsOut, Finishing, ClearAlone
<1>7. CASE LookUp(s)
  <2>1. scan[s].pc = "found" /\ UNCHANGED <<stage, scanned, torn>>  BY <1>7 DEF LookUp
  <2>2. beside \subseteq beside'  BY <1>7 DEF LookUp
  <2>3. scan[s] \in Scan /\ scan[s] # NoScan  BY <1>5, <2>1 DEF OutTypeOK
  <2>4. \/ scan'[s] = NoScan
        \/ /\ ~NumberScanned(scan[s].order)
           /\ scan'[s].pc = "clear" /\ scan'[s].order = scan[s].order
           /\ (\E t \in Scanners \ {s} : /\ scan[t].pc = "clear"
                                         /\ carries[scan[t].order] = carries[scan[s].order])
                => carries[scan[s].order] \in beside'
    BY <1>7, <2>3, ScanShape DEF LookUp, OutTypeOK
  <2>5. ScannedIsOut'
    BY <1>1, <1>2, <1>4, <1>5, <2>1, <2>2, <2>4 DEF OutInv, ScannedIsOut, Finishing
  <2>6. ClearAlone'
    BY <1>1, <1>2, <1>5, <2>1, <2>2, <2>4 DEF OutInv, ClearAlone, NumberScanned
  <2> QED BY <1>3, <2>5, <2>6 DEF OutInv
<1>8. CASE Record(s)
  <2> DEFINE new == [order |-> scan[s].order, by |-> s]
  <2>1. scan[s].pc = "clear" /\ UNCHANGED <<stage, torn, beside>> /\ scanned' = scanned \cup {new}
    BY <1>8 DEF Record
  <2>2. scan[s] \in Scan /\ scan[s] # NoScan  BY <1>5, <2>1 DEF OutTypeOK
  <2>3. scan'[s].pc = "recorded" /\ scan'[s].order = scan[s].order
    BY <1>8, <2>2, ScanShape DEF Record, OutTypeOK
  <2>4. ScannedIsOut'
    <3>1. ASSUME NEW r \in scanned'
          PROVE  stage'[r.order] \in {"shipped", "voided"} \/ Finishing(r)'
                   \/ r \in torn' \/ r.order \in overtaken'
      <4>1. CASE r = new  BY <2>3, <4>1 DEF Finishing
      <4>2. CASE r \in scanned
        BY <1>1, <1>2, <1>4, <2>1, <2>3, <4>2 DEF OutInv, ScannedIsOut, Finishing
      <4> QED BY <2>1, <4>1, <4>2
    <3>2. \A r \in scanned : carries[r.order] = carries[new.order] => carries[r.order] \in beside
      BY <2>1 DEF OutInv, ClearAlone
    <3>3. ASSUME NEW r \in scanned', NEW q \in scanned', r # q,
                 carries'[r.order] = carries'[q.order]
          PROVE  carries'[r.order] \in beside'
      BY <1>1, <2>1, <3>2, <3>3 DEF OutInv, ScannedIsOut
    <3> QED BY <3>1, <3>3 DEF ScannedIsOut
  <2>5. ClearAlone'
    <3>1. ASSUME NEW t \in Scanners, scan'[t].pc = "clear" PROVE t # s /\ scan'[t] = scan[t]
      BY <1>2, <2>3, <3>1
    <3> QED BY <1>1, <2>1, <2>3, <3>1 DEF OutInv, ClearAlone
  <2> QED BY <1>3, <2>4, <2>5 DEF OutInv
<1>9. CASE ShipScanned(s)
  <2>1. /\ scan[s].pc = "recorded" /\ scan'[s] = NoScan
        /\ UNCHANGED <<scanned, torn, beside>>
        /\ stage' = [stage EXCEPT ![scan[s].order] = "shipped"]
    BY <1>9 DEF ShipScanned, OutTypeOK
  <2>2. ScannedIsOut'
    BY <1>1, <1>2, <1>4, <1>5, <2>1 DEF OutInv, ScannedIsOut, Finishing, OutTypeOK
  <2>3. ClearAlone'  BY <1>1, <1>2, <1>5, <2>1 DEF OutInv, ClearAlone
  <2> QED BY <1>3, <2>2, <2>3 DEF OutInv
<1>10. CASE DieScanning(s)
  <2>1. /\ scan'[s] = NoScan /\ UNCHANGED <<stage, scanned, beside>>
        /\ torn \subseteq torn'
        /\ scan[s].pc = "recorded" => [order |-> scan[s].order, by |-> s] \in torn'
    BY <1>10 DEF DieScanning, OutTypeOK
  <2>2. ASSUME NEW r \in scanned, r.by = s, Finishing(r) PROVE r \in torn'
    <3>1. r = [order |-> scan[s].order, by |-> s]
      BY <2>2 DEF Finishing, OutTypeOK, ScanRecord
    <3> QED BY <2>1, <2>2, <3>1 DEF Finishing
  <2>3. ScannedIsOut'
    BY <1>1, <1>2, <1>4, <2>1, <2>2 DEF OutInv, ScannedIsOut, Finishing
  <2>4. ClearAlone'  BY <1>1, <1>2, <1>5, <2>1 DEF OutInv, ClearAlone
  <2> QED BY <1>3, <2>3, <2>4 DEF OutInv
<1> QED BY <1>6, <1>7, <1>8, <1>9, <1>10 DEF ScanStep

(* A step of a batch keeps the invariant.                                     *)
LEMMA BatchKeeps ==
  ASSUME OutTypeOK, OutInv, NEW b \in Batches, BatchStep(b)
  PROVE  OutInv'
<1>1. UNCHANGED <<carries, scan, scanned, torn, beside>>
  BY DEF BatchStep, ToPicking, MarkShipped, ImportShipped, PurchaseDeleted, Cancelled, Reads,
         CommitBatch, RollBackBatch
<1>2. ClearAlone'  BY <1>1 DEF OutInv, ClearAlone
<1>3. ASSUME NEW S \in SUBSET OutOrders, NEW T \in SUBSET OutStages, Reads(b, S, T),
             \A o \in S : stage[o] \in {"shipped", "voided"} => T = {"voided"}
      PROVE  OutInv'
  <2>1. PICK to \in [S -> T] :
          batch' = [batch EXCEPT ![b] = [seen |-> [o \in S |-> stage[o]], to |-> to]]
    BY <1>3 DEF Reads
  <2>2. UNCHANGED <<stage, overtaken>>  BY <1>3 DEF Reads
  <2>3. OutStaysOut'  BY <1>3, <2>1 DEF OutInv, OutStaysOut, OutTypeOK
  <2>4. ScannedIsOut'  BY <1>1, <2>2 DEF OutInv, ScannedIsOut, Finishing
  <2> QED BY <1>2, <2>3, <2>4 DEF OutInv
<1>4. {"picking", "shipped"} \in SUBSET OutStages /\ {"shipped"} \in SUBSET OutStages
      /\ {"buying"} \in SUBSET OutStages /\ {"voided"} \in SUBSET OutStages
  BY DEF OutStages
<1>5. CASE ToPicking(b)  BY <1>3, <1>4, <1>5 DEF ToPicking, Those
<1>6. CASE MarkShipped(b)  BY <1>3, <1>4, <1>6 DEF MarkShipped, Those
<1>7. CASE ImportShipped(b)  BY <1>3, <1>4, <1>7 DEF ImportShipped, Those, Matching
<1>8. CASE PurchaseDeleted(b)  BY <1>3, <1>4, <1>8 DEF PurchaseDeleted, Those
<1>9. CASE Cancelled(b)
  <2>1. PICK o \in OutOrders : Reads(b, {o}, {"voided"})  BY <1>9 DEF Cancelled
  <2> QED BY <1>3, <1>4, <2>1
<1>10. batch' = [batch EXCEPT ![b] = NoBatch] => OutStaysOut'
  BY DEF OutInv, OutStaysOut, OutTypeOK, NoBatch, NoRows
<1>11. CASE CommitBatch(b)
  <2>1. PICK S \in SUBSET OutOrders :
          batch[b] \in [seen : [S -> OutStages], to : [S -> OutStages]]
    BY DEF OutTypeOK, Batch
  <2>2. ASSUME NEW o \in OutOrders, stage[o] \in {"shipped", "voided"}
        PROVE  stage'[o] \in {"shipped", "voided"} \/ o \in overtaken'
    BY <1>11, <2>1, <2>2 DEF CommitBatch, OutInv, OutStaysOut
  <2>3. overtaken \subseteq overtaken'  BY <1>11 DEF CommitBatch
  <2>4. \A r \in scanned : r.order \in OutOrders  BY DEF OutTypeOK, ScanRecord
  <2>5. ScannedIsOut'
    BY <1>1, <2>2, <2>3, <2>4 DEF OutInv, ScannedIsOut, Finishing
  <2> QED BY <1>2, <1>10, <1>11, <2>5 DEF CommitBatch, OutInv
<1>12. CASE RollBackBatch(b)
  <2>1. ScannedIsOut'  BY <1>1, <1>12 DEF RollBackBatch, OutInv, ScannedIsOut, Finishing
  <2> QED BY <1>2, <1>10, <1>12, <2>1 DEF RollBackBatch, OutInv
<1> QED BY <1>5, <1>6, <1>7, <1>8, <1>9, <1>11, <1>12 DEF BatchStep

(* What the outbound records say is so, for any number of orders, numbers,       *)
(* scanners and batches.                                                    *)
THEOREM ScansTrue == OutSpec => []ScannedIsOut
<1>1. OutInit => OutInv
  BY DEF OutInit, OutInv, ScannedIsOut, ClearAlone, OutStaysOut, NoScan, NoBatch, NoRows
<1>2. OutTypeOK /\ OutInv /\ [OutNext]_outVars => OutInv'
  <2>1. ASSUME OutInv, UNCHANGED outVars PROVE OutInv'
    BY <2>1 DEF outVars, OutInv, ScannedIsOut, Finishing, ClearAlone, OutStaysOut
  <2> QED BY <2>1, ScanKeeps, BatchKeeps DEF OutNext
<1>3. OutInv => ScannedIsOut  BY DEF OutInv
<1> QED BY <1>1, <1>2, <1>3, OutTypeCorrect, PTL DEF OutSpec
=================================================================================
