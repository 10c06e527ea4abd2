------------------------- MODULE FollowUpExport_proofs -------------------------
(***************************************************************************)
(* Proofs about the follow-up export, for any number of workers, jobs and   *)
(* items, with crashes, overrun leases and late commits.                   *)
(***************************************************************************)
EXTENDS FollowUpExport, TLAPS

(* The empty plan, verdicts and workbook are well formed.                  *)
LEMMA EmptyTyped ==
  /\ NoPlan \in Plans
  /\ NoVerdict \in [Jobs -> {"keep", "retry_wait", "failed"}]
  /\ EmptyBook \in Books
BY DEF NoPlan, Plans, NoVerdict, EmptyBook, Books

(* The workbook a worker puts in place is well formed.                     *)
LEMMA WrittenTyped ==
  ASSUME NEW w \in Workers, NEW file \in Books, job[w] \in Jobs, plan[w] \in Plans
  PROVE  Written(w, file) \in Books
<1> DEFINE new == Unlogged(w, file)
           added == {i \in new : plan[w][i] = "append"}
           rows == [file.rows EXCEPT ![job[w]] =
                      [i \in Items |-> IF i \in added THEN @[i] + 1 ELSE @[i]]]
           log == [file.log EXCEPT ![job[w]] = @ \cup new]
<1>1. new \subseteq Items  BY DEF Unlogged, Writes
<1>2. file.rows \in [Jobs -> [Items -> Nat]] /\ file.log \in [Jobs -> SUBSET Items]
  BY DEF Books
<1>3. rows \in [Jobs -> [Items -> Nat]]  BY <1>2
<1>4. log \in [Jobs -> SUBSET Items]  BY <1>1, <1>2
<1>5. Written(w, file) = [rows |-> rows, log |-> log]  BY DEF Written
<1> HIDE DEF rows, log
<1> QED BY <1>3, <1>4, <1>5 DEF Books

(* Finishing a job keeps the worker's variables typed.                     *)
LEMMA RestTyped ==
  ASSUME ExportTypeOK, NEW w \in Workers, Rest(w)
  PROVE  /\ pc' \in [Workers -> {"idle", "recover"} \cup Working]
         /\ job' \in [Workers -> Jobs \cup {None}]
         /\ verdict' \in [Workers -> [Jobs -> {"keep", "retry_wait", "failed"}]]
         /\ plan' \in [Workers -> Plans]
         /\ copy' \in [Workers -> Books]
         /\ logged' \in [Workers -> SUBSET Items]
         /\ \A v \in Workers : pc'[v] \in Working => job'[v] \in Jobs
BY EmptyTyped DEF ExportTypeOK, Rest, Goto, Working

(* Writing the row of a job keeps the job columns typed.                   *)
LEMMA WriteJobTyped ==
  ASSUME ExportTypeOK, NEW j \in Jobs, NEW s \in Statuses, NEW d \in 0..RetryDelay,
         WriteJob(j, s, d)
  PROVE  /\ status' \in [Jobs -> Statuses]
         /\ attempts' \in [Jobs -> Nat]
         /\ lease' \in [Jobs -> 0..Lease]
         /\ wait' \in [Jobs -> 0..RetryDelay]
<1>1. 0 \in 0..Lease  BY ExportAssumption
<1> QED BY <1>1 DEF ExportTypeOK, WriteJob

(* The first state is typed.                                               *)
LEMMA ExportInitTyped == Init => ExportTypeOK
<1>1. 0 \in 0..Lease /\ 0 \in 0..RetryDelay  BY ExportAssumption
<1> QED BY <1>1, EmptyTyped DEF Init, ExportTypeOK, Statuses, Working

(* Steps that only move a worker and change what it has read.              *)
LEMMA MoveTyped ==
  ASSUME ExportTypeOK, NEW w \in Workers,
         NEW l \in {"idle", "recover"} \cup Working, Goto(w, l),
         job[w] \in Jobs \/ l \notin Working, job' = job
  PROVE  /\ pc' \in [Workers -> {"idle", "recover"} \cup Working]
         /\ \A v \in Workers : pc'[v] \in Working => job'[v] \in Jobs
BY DEF ExportTypeOK, Goto

(* Every step keeps the types of the variables.                            *)
LEMMA ExportStepTyped ==
  ASSUME ExportTypeOK, [Next]_vars
  PROVE  ExportTypeOK'
<1> USE DEF ExportTypeOK
<1>1. CASE \E j \in Jobs : Enqueue(j)
  BY <1>1 DEF Enqueue, Statuses, itemVars, fileVars, workerVars
<1>2. ASSUME NEW w \in Workers, RecoverRead(w) PROVE ExportTypeOK'
  <2>1. \A j \in Jobs : AfterAttempt(j) \in {"retry_wait", "failed"}  BY DEF AfterAttempt
  <2>2. verdict' \in [Workers -> [Jobs -> {"keep", "retry_wait", "failed"}]]
    BY <1>2, <2>1 DEF RecoverRead
  <2> QED BY <1>2, <2>2, MoveTyped DEF RecoverRead, jobVars, itemVars, fileVars, Working
<1>3. ASSUME NEW w \in Workers, RecoverCommit(w) PROVE ExportTypeOK'
  <2>1. 0 \in 0..Lease /\ 0 \in 0..RetryDelay  BY ExportAssumption
  <2>2. /\ status' \in [Jobs -> Statuses] /\ lease' \in [Jobs -> 0..Lease]
        /\ wait' \in [Jobs -> 0..RetryDelay]
    <3>1. \A j \in Jobs : verdict[w][j] # "keep" => verdict[w][j] \in Statuses
      BY DEF Statuses, Terminal
    <3> QED BY <1>3, <2>1, <3>1 DEF RecoverCommit
  <2>3. verdict' \in [Workers -> [Jobs -> {"keep", "retry_wait", "failed"}]]
    BY <1>3, EmptyTyped DEF RecoverCommit
  <2> QED BY <1>3, <2>2, <2>3, MoveTyped DEF RecoverCommit, itemVars, fileVars, Working
<1>4. ASSUME NEW w \in Workers, Claim(w) PROVE ExportTypeOK'
  <2>1. PICK j \in Jobs : /\ status' = [status EXCEPT ![j] = "running"]
                          /\ attempts' = [attempts EXCEPT ![j] = @ + 1]
                          /\ lease' = [lease EXCEPT ![j] = Lease]
                          /\ job' = [job EXCEPT ![w] = j]
    BY <1>4 DEF Claim
  <2>2. Lease \in 0..Lease  BY ExportAssumption
  <2>3. pc' = [pc EXCEPT ![w] = "prepare"]  BY <1>4 DEF Claim, Goto
  <2> QED BY <1>4, <2>1, <2>2, <2>3
          DEF Claim, Statuses, Terminal, Working, itemVars, fileVars
<1>5. ASSUME NEW w \in Workers, Process(w) PROVE ExportTypeOK'
  <2>1. CASE Resume(w)
    <3>1. CASE status[job[w]] # "running"
      BY <2>1, <3>1, RestTyped DEF Resume, jobVars, itemVars, fileVars
    <3>2. CASE status[job[w]] = "running"
      <4>1. job[w] \in Jobs  BY <2>1 DEF Resume, Working
      <4>2. plan' \in [Workers -> Plans]  BY <2>1, <3>2, <4>1 DEF Resume
      <4> QED BY <2>1, <3>2, <4>1, <4>2, MoveTyped
              DEF Resume, jobVars, itemVars, fileVars, Working
    <3> QED BY <3>1, <3>2
  <2>2. CASE Prepare(w)
    <3>1. job[w] \in Jobs  BY <2>2 DEF Prepare, Working
    <3>2. PICK p \in Plans : /\ plan' = [plan EXCEPT ![w] = p]
                             /\ Goto(w, IF p = NoPlan THEN "empty" ELSE "insert")
      BY <2>2 DEF Prepare
    <3> QED BY <2>2, <3>1, <3>2, MoveTyped
            DEF Prepare, jobVars, itemVars, fileVars, Working
  <2>3. CASE Insert(w)
    <3> DEFINE j == job[w]
               clash == \E i \in Items : plan[w][i] # "none" /\ action[j][i] # "none"
               new == [i \in Items |-> IF plan[w][i] # "none" THEN plan[w][i]
                                                              ELSE action[j][i]]
    <3>1. j \in Jobs  BY <2>3 DEF Insert, Working
    <3>2. new \in Plans  BY <3>1 DEF Plans
    <3>3. /\ action' \in [Jobs -> Plans] /\ plan' \in [Workers -> Plans]
      <4>1. CASE clash  BY <2>3, <4>1, EmptyTyped DEF Insert
      <4>2. CASE ~clash
        <5>1. action' = [action EXCEPT ![j] = new]  BY <2>3, <4>2 DEF Insert
        <5>2. plan' = [plan EXCEPT ![w] = action'[j]]  BY <2>3, <4>2 DEF Insert
        <5> HIDE DEF new
        <5> QED BY <5>1, <5>2, <3>1, <3>2
      <4> QED BY <4>1, <4>2
    <3>4. Goto(w, "fail") \/ Goto(w, "lock")  BY <2>3 DEF Insert
    <3>5. /\ pc' \in [Workers -> {"idle", "recover"} \cup Working]
          /\ \A v \in Workers : pc'[v] \in Working => job'[v] \in Jobs
      BY <2>3, <3>1, <3>4, MoveTyped DEF Insert, Working
    <3> QED BY <2>3, <3>3, <3>5 DEF Insert, jobVars, fileVars
  <2>4. CASE TakeLock(w)
    <3>1. job[w] \in Jobs  BY <2>4 DEF TakeLock, Working
    <3>2. Goto(w, "fail") \/ Goto(w, "unlock") \/ Goto(w, "replace")
      BY <2>4 DEF TakeLock
    <3>3. /\ pc' \in [Workers -> {"idle", "recover"} \cup Working]
          /\ \A v \in Workers : pc'[v] \in Working => job'[v] \in Jobs
      BY <2>4, <3>1, <3>2, MoveTyped DEF TakeLock, Working
    <3>4. book.log[job[w]] \in SUBSET Items  BY <3>1 DEF Books
    <3>5. /\ holder' \in Workers \cup {None}
          /\ copy' \in [Workers -> Books] /\ logged' \in [Workers -> SUBSET Items]
      BY <2>4, <3>4 DEF TakeLock
    <3> QED BY <2>4, <3>3, <3>5 DEF TakeLock, jobVars, itemVars
  <2>5. CASE Replace(w)
    <3>1. job[w] \in Jobs  BY <2>5 DEF Replace, Working
    <3>2. book' \in Books  BY <2>5, <3>1, WrittenTyped DEF Replace
    <3>3. book'.log[job[w]] \in SUBSET Items  BY <3>1, <3>2 DEF Books
    <3>4. /\ copy' \in [Workers -> Books] /\ logged' \in [Workers -> SUBSET Items]
      BY <2>5, <3>3, EmptyTyped DEF Replace
    <3> QED BY <2>5, <3>1, <3>2, <3>4, MoveTyped
            DEF Replace, jobVars, itemVars, Working
  <2>6. CASE Unlock(w)
    <3>1. job[w] \in Jobs  BY <2>6 DEF Unlock, Working
    <3>2. holder' \in Workers \cup {None}  BY <2>6 DEF Unlock, Released
    <3> QED BY <2>6, <3>1, <3>2, MoveTyped DEF Unlock, jobVars, itemVars, Working
  <2>7. CASE FinalizeSuccess(w)
    <3>1. job[w] \in Jobs  BY <2>7 DEF FinalizeSuccess, Working
    <3>2. /\ marked' \in [Jobs -> SUBSET Items] /\ placed' \in [Jobs -> SUBSET Items]
          /\ shipped' \in SUBSET Items
      BY <2>7, <3>1 DEF FinalizeSuccess, Writes
    <3>3. 0 \in 0..RetryDelay /\ "success" \in Statuses
      BY ExportAssumption DEF Statuses, Terminal
    <3>4. WriteJob(job[w], "success", 0)  BY <2>7 DEF FinalizeSuccess
    <3> QED BY <2>7, <3>1, <3>2, <3>3, <3>4, WriteJobTyped, RestTyped
            DEF FinalizeSuccess, fileVars
  <2>8. CASE FinalizeEmpty(w)
    <3>1. job[w] \in Jobs  BY <2>8 DEF FinalizeEmpty, Working
    <3>2. 0 \in 0..RetryDelay /\ "skipped" \in Statuses
      BY ExportAssumption DEF Statuses, Terminal
    <3> QED BY <2>8, <3>1, <3>2, WriteJobTyped, RestTyped
            DEF FinalizeEmpty, itemVars, fileVars
  <2>9. CASE FinalizeFailure(w)
    <3> DEFINE s == AfterAttempt(job[w])
               d == IF s = "failed" THEN 0 ELSE RetryDelay
    <3>1. job[w] \in Jobs  BY <2>9 DEF FinalizeFailure, Working
    <3>2. s \in Statuses /\ d \in 0..RetryDelay
      BY ExportAssumption DEF Statuses, Terminal, AfterAttempt
    <3>3. WriteJob(job[w], s, d)  BY <2>9 DEF FinalizeFailure
    <3> HIDE DEF s, d
    <3> QED BY <2>9, <3>1, <3>2, <3>3, WriteJobTyped, RestTyped
            DEF FinalizeFailure, itemVars, fileVars
  <2> QED BY <1>5, <2>1, <2>2, <2>3, <2>4, <2>5, <2>6, <2>7, <2>8, <2>9 DEF Process
<1>6. ASSUME NEW w \in Workers, Fail(w) PROVE ExportTypeOK'
  <2>1. job[w] \in Jobs  BY <1>6 DEF Fail
  <2>2. holder' \in Workers \cup {None}  BY <1>6 DEF Fail, Released
  <2> QED BY <1>6, <2>1, <2>2, MoveTyped, EmptyTyped
          DEF Fail, jobVars, itemVars, Working
<1>7. ASSUME NEW w \in Workers, Crash(w) PROVE ExportTypeOK'
  <2>1. holder' \in Workers \cup {None}  BY <1>7 DEF Crash, Released
  <2> QED BY <1>7, <2>1, RestTyped DEF Crash, jobVars, itemVars
<1>8. ASSUME NEW w \in Workers, LoseLock(w) PROVE ExportTypeOK'
  BY <1>8 DEF LoseLock, jobVars, itemVars, workerVars
<1>9. CASE Tick
  <2>1. \A n \in 0..Lease : (IF n > 0 THEN n - 1 ELSE 0) \in 0..Lease
    BY ExportAssumption
  <2>2. \A n \in 0..RetryDelay : (IF n > 0 THEN n - 1 ELSE 0) \in 0..RetryDelay
    BY ExportAssumption
  <2>3. lease' \in [Jobs -> 0..Lease] /\ wait' \in [Jobs -> 0..RetryDelay]
    BY <1>9, <2>1, <2>2 DEF Tick
  <2> QED BY <1>9, <2>3 DEF Tick, itemVars, fileVars, workerVars
<1>10. CASE UNCHANGED vars
  BY <1>10 DEF vars, jobVars, itemVars, fileVars, workerVars
<1> QED BY <1>1, <1>2, <1>3, <1>4, <1>5, <1>6, <1>7, <1>8, <1>9, <1>10
        DEF Next, Recover

(* Type correctness in every environment.                                  *)
THEOREM ExportTypeCorrect == Spec => []ExportTypeOK
<1> QED BY ExportInitTyped, ExportStepTyped, PTL DEF Spec
-----------------------------------------------------------------------------
(* Whoever edits a copy holds the lock ...                                 *)
LockHeld ==
  \A w \in Workers : pc[w] \in {"replace", "unlock"} => holder = w

(* ... and, for one reason or another, the copy is still the workbook.        *)
CopyCurrent == \A w \in Workers : pc[w] = "replace" => copy[w] = book

(* A job's rows are the appended items of its log.                         *)
RowsLogged ==
  \A j \in Jobs, i \in Items :
    book.rows[j][i] <= 1 /\ (book.rows[j][i] > 0 => i \in book.log[j])

(* Whatever is logged, planned as known, recorded as placed or reported by a *)
(* write has a row.                                                        *)
KnownHasRow ==
  /\ \A j \in Jobs : \A i \in book.log[j] : HasRow(i)
  /\ \A j \in Jobs, i \in Items : action[j][i] \in {"update", "skip"} => HasRow(i)
  /\ \A w \in Workers, i \in Items : plan[w][i] \in {"update", "skip"} => HasRow(i)
  /\ \A j \in Jobs : \A i \in placed[j] : HasRow(i)
  /\ \A w \in Workers : \A i \in logged[w] : HasRow(i)

(* The inductive invariant behind RowsOnce and ShippedRegistered.           *)
BookInv == ExportTypeOK /\ CopyCurrent /\ RowsLogged /\ KnownHasRow /\ ShippedHasRow

(* Nothing is in the workbook, planned or shipped at the start.            *)
LEMMA BookInit == Init => BookInv
<1> SUFFICES ASSUME Init PROVE BookInv  OBVIOUS
<1>1. ExportTypeOK  BY ExportInitTyped
<1>2. CopyCurrent  BY DEF Init, CopyCurrent
<1>3. RowsLogged  BY DEF Init, RowsLogged, EmptyBook
<1>4. KnownHasRow  BY DEF Init, KnownHasRow, EmptyBook, NoPlan
<1>5. ShippedHasRow  BY DEF Init, ShippedHasRow
<1> QED BY <1>1, <1>2, <1>3, <1>4, <1>5 DEF BookInv

(* A plan takes an item as known only if it has a row already.             *)
LEMMA ChoicesKnown ==
  ASSUME BookInv, NEW j \in Jobs, NEW i \in Items,
         Choices(j, i) \cap {"update", "skip"} # {}
  PROVE  HasRow(i)
<1>1. CASE Priors(j, i) # {}
  <2>1. PICK k \in Priors(j, i) : Located(k, i)  BY <1>1 DEF Choices
  <2>2. k \in Jobs  BY <2>1 DEF Priors
  <2> QED BY <2>1, <2>2 DEF Located, BookInv, KnownHasRow
<1>2. CASE Priors(j, i) = {}  BY <1>2 DEF Choices
<1> QED BY <1>1, <1>2

(* Writing adds at most one row per item, none for a logged item, and keeps  *)
(* every row; whatever it logs has a row.                                  *)
LEMMA WrittenRows ==
  ASSUME BookInv, NEW w \in Workers, pc[w] = "replace", book' = Written(w, book)
  PROVE  /\ RowsLogged'
         /\ \A i \in Items : HasRow(i) => HasRow(i)'
         /\ \A j \in Jobs : \A i \in book'.log[j] : HasRow(i)'
<1> DEFINE J == job[w]
           new == Writes(plan[w]) \ book.log[J]
           added == {i \in new : plan[w][i] = "append"}
<1>1. J \in Jobs  BY DEF BookInv, ExportTypeOK, Working
<1>2. book.rows \in [Jobs -> [Items -> Nat]] /\ book.log \in [Jobs -> SUBSET Items]
  BY DEF BookInv, ExportTypeOK, Books
<1>3. /\ book'.rows = [book.rows EXCEPT ![J] =
                         [i \in Items |-> IF i \in added THEN @[i] + 1 ELSE @[i]]]
      /\ book'.log = [book.log EXCEPT ![J] = @ \cup new]
  BY DEF Written, Unlogged
<1>4. \A j \in Jobs, i \in Items :
        /\ book'.rows[j][i] = IF j = J /\ i \in added THEN book.rows[j][i] + 1
                                                     ELSE book.rows[j][i]
        /\ book.rows[j][i] \in Nat
  BY <1>1, <1>2, <1>3
<1>5. \A j \in Jobs : book'.log[j] = IF j = J THEN book.log[j] \cup new ELSE book.log[j]
  BY <1>1, <1>2, <1>3
<1>6. added \subseteq new /\ new \subseteq Items /\ new \cap book.log[J] = {}
  BY DEF Writes
<1> HIDE DEF J, new, added
<1>7. RowsLogged'
  <2> SUFFICES ASSUME NEW j \in Jobs, NEW i \in Items
               PROVE  /\ book'.rows[j][i] <= 1
                      /\ book'.rows[j][i] > 0 => i \in book'.log[j]
    BY DEF RowsLogged
  <2>1. /\ book.rows[j][i] \in Nat /\ book.rows[j][i] <= 1
        /\ book.rows[j][i] > 0 => i \in book.log[j]
    BY <1>4 DEF BookInv, RowsLogged
  <2>2. CASE j = J /\ i \in added
    <3>1. i \notin book.log[j]  BY <2>2, <1>6
    <3>2. book.rows[j][i] = 0  BY <2>1, <3>1
    <3>3. book'.rows[j][i] = 1  BY <2>2, <3>2, <1>4
    <3>4. i \in book'.log[j]  BY <2>2, <1>5, <1>6
    <3> QED BY <3>3, <3>4
  <2>3. CASE ~(j = J /\ i \in added)
    BY <2>1, <2>3, <1>4, <1>5
  <2> QED BY <2>2, <2>3
<1>8. ASSUME NEW i \in Items, HasRow(i) PROVE HasRow(i)'
  <2>1. PICK j \in Jobs : book.rows[j][i] > 0  BY <1>8 DEF HasRow
  <2>2. book'.rows[j][i] > 0  BY <2>1, <1>4
  <2> QED BY <2>2 DEF HasRow
<1>9. ASSUME NEW j \in Jobs, NEW i \in book'.log[j] PROVE HasRow(i)'
  <2>1. CASE i \in book.log[j]
    BY <2>1, <1>2, <1>8 DEF BookInv, KnownHasRow
  <2>2. CASE i \notin book.log[j]
    <3>1. j = J /\ i \in new  BY <2>2, <1>5
    <3>2. CASE plan[w][i] = "append"
      <4>1. i \in added  BY <3>1, <3>2 DEF added
      <4>2. book'.rows[J][i] > 0  BY <4>1, <1>1, <1>4, <1>6
      <4> QED BY <4>2, <1>1 DEF HasRow
    <3>3. CASE plan[w][i] = "update"
      BY <3>1, <3>3, <1>6, <1>8 DEF BookInv, KnownHasRow
    <3> QED BY <3>1, <3>2, <3>3 DEF Writes, new
  <2> QED BY <2>1, <2>2
<1> QED BY <1>7, <1>8, <1>9

(* Steps that leave the workbook and what is known about it alone.         *)
LEMMA BookKept ==
  ASSUME BookInv, UNCHANGED <<book, action, placed, shipped>>,
         \A w \in Workers, i \in Items :
           plan'[w][i] \in {"update", "skip"} => HasRow(i),
         \A w \in Workers : \A i \in logged'[w] : HasRow(i)
  PROVE  RowsLogged' /\ KnownHasRow' /\ ShippedHasRow'
<1>1. \A i : HasRow(i)' <=> HasRow(i)  BY DEF HasRow
<1> QED BY <1>1 DEF BookInv, RowsLogged, KnownHasRow, ShippedHasRow

(* Every step keeps the invariant, as long as no copy becomes outdated.       *)
LEMMA BookStep ==
  ASSUME BookInv, [Next]_vars, CopyCurrent'
  PROVE  BookInv'
<1>1. ExportTypeOK'  BY ExportStepTyped DEF BookInv
<1>2. \A w \in Workers, i \in Items : plan[w][i] \in {"update", "skip"} => HasRow(i)
  BY DEF BookInv, KnownHasRow
<1>3. \A w \in Workers : \A i \in logged[w] : HasRow(i)
  BY DEF BookInv, KnownHasRow
<1>4. \A i \in Items : NoPlan[i] \notin {"update", "skip"}  BY DEF NoPlan
<1>5. SUFFICES RowsLogged' /\ KnownHasRow' /\ ShippedHasRow'
  BY <1>1 DEF BookInv
(* Steps that touch neither the file nor what is known about it.           *)
<1>6. CASE UNCHANGED <<book, action, placed, shipped, plan, logged>>
  BY <1>2, <1>3, <1>6, BookKept
(* The worker ends its job.                                                *)
<1>7. ASSUME NEW w \in Workers, Rest(w), UNCHANGED <<book, action, placed, shipped>>
      PROVE  RowsLogged' /\ KnownHasRow' /\ ShippedHasRow'
  <2>1. \A v \in Workers, i \in Items : plan'[v][i] \in {"update", "skip"} => HasRow(i)
    BY <1>2, <1>4, <1>7 DEF Rest, BookInv, ExportTypeOK
  <2>2. \A v \in Workers : \A i \in logged'[v] : HasRow(i)
    BY <1>3, <1>7 DEF Rest, BookInv, ExportTypeOK
  <2> QED BY <1>7, <2>1, <2>2, BookKept
<1>8. ASSUME NEW w \in Workers, Resume(w)
      PROVE  RowsLogged' /\ KnownHasRow' /\ ShippedHasRow'
  <2>1. UNCHANGED <<book, action, placed, shipped>>
    BY <1>8 DEF Resume, itemVars, fileVars
  <2>2. CASE Rest(w)  BY <1>7, <2>1, <2>2
  <2>3. CASE ~Rest(w)
    <3>1. /\ plan' = [plan EXCEPT ![w] = action[job[w]]] /\ job[w] \in Jobs
          /\ UNCHANGED logged
      BY <1>8, <2>3 DEF Resume, BookInv, ExportTypeOK, Working
    <3>2. \A v \in Workers, i \in Items : plan'[v][i] \in {"update", "skip"} => HasRow(i)
      BY <3>1 DEF BookInv, KnownHasRow, ExportTypeOK
    <3> QED BY <1>3, <2>1, <3>1, <3>2, BookKept
  <2> QED BY <2>2, <2>3
<1>9. ASSUME NEW w \in Workers, Prepare(w)
      PROVE  RowsLogged' /\ KnownHasRow' /\ ShippedHasRow'
  <2>1. UNCHANGED <<book, action, placed, shipped, logged>> /\ job[w] \in Jobs
    BY <1>9 DEF Prepare, itemVars, fileVars, BookInv, ExportTypeOK, Working
  <2>2. PICK p \in Plans : /\ \A i \in Items : p[i] \in {"none"} \cup Choices(job[w], i)
                           /\ plan' = [plan EXCEPT ![w] = p]
    BY <1>9 DEF Prepare
  <2>3. \A i \in Items : p[i] \in {"update", "skip"} => HasRow(i)
    BY <2>1, <2>2, ChoicesKnown
  <2>4. \A v \in Workers, i \in Items : plan'[v][i] \in {"update", "skip"} => HasRow(i)
    BY <1>2, <2>2, <2>3 DEF BookInv, ExportTypeOK
  <2> QED BY <1>3, <2>1, <2>4, BookKept
<1>10. ASSUME NEW w \in Workers, Insert(w)
       PROVE  RowsLogged' /\ KnownHasRow' /\ ShippedHasRow'
  <2> DEFINE j == job[w]
             clash == \E i \in Items : plan[w][i] # "none" /\ action[j][i] # "none"
             new == [i \in Items |-> IF plan[w][i] # "none" THEN plan[w][i]
                                                            ELSE action[j][i]]
  <2>1. UNCHANGED <<book, placed, shipped, logged>> /\ j \in Jobs
    BY <1>10 DEF Insert, fileVars, BookInv, ExportTypeOK, Working
  <2>2. CASE clash
    <3>1. plan' = [plan EXCEPT ![w] = NoPlan] /\ action' = action
      BY <1>10, <2>2 DEF Insert
    <3>2. \A v \in Workers, i \in Items : plan'[v][i] \in {"update", "skip"} => HasRow(i)
      BY <1>2, <1>4, <3>1 DEF BookInv, ExportTypeOK
    <3> QED BY <1>3, <2>1, <3>1, <3>2, BookKept
  <2>3. CASE ~clash
    <3>1. /\ action' = [action EXCEPT ![j] = new]
          /\ plan' = [plan EXCEPT ![w] = action'[j]]
      BY <1>10, <2>3 DEF Insert
    <3>2. \A i \in Items : new[i] \in {"update", "skip"} => HasRow(i)
      BY <1>2, <2>1 DEF BookInv, KnownHasRow
    <3> HIDE DEF new, j, clash
    <3>3. action'[j] = new  BY <2>1, <3>1 DEF BookInv, ExportTypeOK
    <3>4. \A i : HasRow(i)' <=> HasRow(i)  BY <2>1 DEF HasRow
    <3>5. \A k \in Jobs, i \in Items : action'[k][i] \in {"update", "skip"} => HasRow(i)
      BY <2>1, <3>1, <3>2 DEF BookInv, KnownHasRow, ExportTypeOK
    <3>6. \A v \in Workers, i \in Items : plan'[v][i] \in {"update", "skip"} => HasRow(i)
      BY <1>2, <3>1, <3>2, <3>3 DEF BookInv, ExportTypeOK
    <3>7. KnownHasRow'  BY <2>1, <3>4, <3>5, <3>6 DEF BookInv, KnownHasRow
    <3>8. RowsLogged' /\ ShippedHasRow'
      BY <2>1, <3>4 DEF BookInv, RowsLogged, ShippedHasRow
    <3> QED BY <3>7, <3>8
  <2> QED BY <2>2, <2>3
<1>11. ASSUME NEW w \in Workers, TakeLock(w)
       PROVE  RowsLogged' /\ KnownHasRow' /\ ShippedHasRow'
  <2>1. UNCHANGED <<book, action, placed, shipped, plan>> /\ job[w] \in Jobs
    BY <1>11 DEF TakeLock, itemVars, BookInv, ExportTypeOK, Working
  <2>2. logged' = logged \/ logged' = [logged EXCEPT ![w] = book.log[job[w]]]
    BY <1>11 DEF TakeLock
  <2>3. \A v \in Workers : \A i \in logged'[v] : HasRow(i)
    BY <1>3, <2>1, <2>2 DEF BookInv, KnownHasRow, ExportTypeOK
  <2> QED BY <1>2, <2>1, <2>3, BookKept
<1>12. ASSUME NEW w \in Workers, Replace(w)
       PROVE  RowsLogged' /\ KnownHasRow' /\ ShippedHasRow'
  <2>1. /\ UNCHANGED <<action, placed, shipped, plan>>
        /\ job[w] \in Jobs /\ pc[w] = "replace" /\ copy[w] = book
    BY <1>12 DEF Replace, itemVars, BookInv, ExportTypeOK, Working, CopyCurrent
  <2>2. /\ RowsLogged'
        /\ \A i \in Items : HasRow(i) => HasRow(i)'
        /\ \A j \in Jobs : \A i \in book'.log[j] : HasRow(i)'
    BY <1>12, <2>1, WrittenRows DEF Replace
  <2>3. \A v \in Workers : \A i \in logged'[v] : HasRow(i)'
    <3>1. logged' = [logged EXCEPT ![w] = book'.log[job[w]]]  BY <1>12 DEF Replace
    <3>2. \A v \in Workers : logged[v] \subseteq Items  BY DEF BookInv, ExportTypeOK
    <3> QED BY <1>3, <2>1, <2>2, <3>1, <3>2 DEF BookInv, ExportTypeOK
  <2>4. KnownHasRow'
    <3>1. \A j \in Jobs : placed[j] \subseteq Items  BY DEF BookInv, ExportTypeOK
    <3> QED BY <2>1, <2>2, <2>3, <3>1 DEF BookInv, KnownHasRow
  <2>5. ShippedHasRow'
    BY <2>1, <2>2 DEF BookInv, ShippedHasRow, ExportTypeOK
  <2> QED BY <2>2, <2>4, <2>5
<1>13. ASSUME NEW w \in Workers, FinalizeSuccess(w)
       PROVE  RowsLogged' /\ KnownHasRow' /\ ShippedHasRow'
  <2> DEFINE j == job[w]
             placing == Writes(action[j]) \cap logged[w]
  <2>1. /\ UNCHANGED <<book, action>> /\ Rest(w) /\ j \in Jobs
        /\ placed' = [placed EXCEPT ![j] = @ \cup placing]
        /\ shipped' = shipped \cup {i \in Items :
             \/ action[j][i] \in {"update", "skip"}
             \/ action[j][i] = "append" /\ i \in placed'[j]}
    BY <1>13 DEF FinalizeSuccess, fileVars, BookInv, ExportTypeOK, Working
  <2>2. \A k \in Jobs : \A i \in placed'[k] : HasRow(i)
    <3>1. \A i \in placing : HasRow(i)  BY <1>3
    <3> HIDE DEF placing
    <3> QED BY <2>1, <3>1 DEF BookInv, KnownHasRow, ExportTypeOK
  <2>3. \A i \in shipped' : HasRow(i)
    BY <2>1, <2>2 DEF BookInv, KnownHasRow, ShippedHasRow
  <2>4. \A i : HasRow(i)' <=> HasRow(i)  BY <2>1 DEF HasRow
  <2>5. \A v \in Workers, i \in Items : plan'[v][i] \in {"update", "skip"} => HasRow(i)
    BY <1>2, <1>4, <2>1 DEF Rest, BookInv, ExportTypeOK
  <2>6. \A v \in Workers : \A i \in logged'[v] : HasRow(i)
    BY <1>3, <2>1 DEF Rest, BookInv, ExportTypeOK
  <2>7. KnownHasRow'  BY <2>1, <2>2, <2>4, <2>5, <2>6 DEF BookInv, KnownHasRow
  <2>8. RowsLogged' /\ ShippedHasRow'
    BY <2>1, <2>3, <2>4 DEF BookInv, RowsLogged, ShippedHasRow
  <2> QED BY <2>7, <2>8
<1>14. ASSUME NEW w \in Workers, Fail(w)
       PROVE  RowsLogged' /\ KnownHasRow' /\ ShippedHasRow'
  <2>1. /\ UNCHANGED <<book, action, placed, shipped>>
        /\ plan' = [plan EXCEPT ![w] = NoPlan]
        /\ logged' = [logged EXCEPT ![w] = {}]
    BY <1>14 DEF Fail, itemVars
  <2>2. \A v \in Workers, i \in Items : plan'[v][i] \in {"update", "skip"} => HasRow(i)
    BY <1>2, <1>4, <2>1 DEF BookInv, ExportTypeOK
  <2>3. \A v \in Workers : \A i \in logged'[v] : HasRow(i)
    BY <1>3, <2>1 DEF BookInv, ExportTypeOK
  <2> QED BY <2>1, <2>2, <2>3, BookKept
<1>15. ASSUME NEW w \in Workers,
              \/ RecoverRead(w) \/ RecoverCommit(w) \/ Claim(w)
              \/ Unlock(w) \/ LoseLock(w)
       PROVE  RowsLogged' /\ KnownHasRow' /\ ShippedHasRow'
  BY <1>6, <1>15 DEF RecoverRead, RecoverCommit, Claim, Unlock, LoseLock, itemVars,
                     fileVars, workerVars
<1>16. ASSUME NEW w \in Workers, FinalizeEmpty(w) \/ FinalizeFailure(w) \/ Crash(w)
       PROVE  RowsLogged' /\ KnownHasRow' /\ ShippedHasRow'
  BY <1>7, <1>16 DEF FinalizeEmpty, FinalizeFailure, Crash, itemVars, fileVars
<1>17. CASE (\E j \in Jobs : Enqueue(j)) \/ Tick \/ UNCHANGED vars
  BY <1>6, <1>17 DEF Enqueue, Tick, vars, itemVars, fileVars, workerVars
<1> QED BY <1>8, <1>9, <1>10, <1>11, <1>12, <1>13, <1>14, <1>15, <1>16, <1>17
        DEF Next, Recover, Process

(* A step of one worker leaves the places and the copies of the others alone.  *)
LEMMA OthersStay ==
  ASSUME ExportTypeOK, NEW w \in Workers,
         Recover(w) \/ Claim(w) \/ Process(w) \/ Fail(w) \/ Crash(w)
  PROVE  /\ pc' \in [Workers -> {"idle", "recover"} \cup Working]
         /\ \A v \in Workers : v # w =>
              /\ pc'[v] = pc[v] /\ copy'[v] = copy[v] /\ job'[v] = job[v]
              /\ plan'[v] = plan[v] /\ logged'[v] = logged[v] /\ verdict'[v] = verdict[v]
         /\ book' # book => Replace(w)
<1>1. ExportTypeOK'
  BY ExportStepTyped DEF Next
<1> USE DEF ExportTypeOK, Goto, Rest
<1>2. CASE Recover(w) \/ Claim(w)
  BY <1>1, <1>2 DEF Recover, RecoverRead, RecoverCommit, Claim, fileVars
<1>3. CASE Resume(w) \/ Prepare(w) \/ Insert(w)
  BY <1>1, <1>3 DEF Resume, Prepare, Insert, fileVars
<1>4. CASE TakeLock(w) \/ Replace(w) \/ Unlock(w)
  BY <1>1, <1>4 DEF TakeLock, Replace, Unlock
<1>5. CASE FinalizeSuccess(w) \/ FinalizeEmpty(w) \/ FinalizeFailure(w)
  BY <1>1, <1>5 DEF FinalizeSuccess, FinalizeEmpty, FinalizeFailure, fileVars
<1>6. CASE Fail(w) \/ Crash(w)
  BY <1>1, <1>6 DEF Fail, Crash
<1> QED BY <1>2, <1>3, <1>4, <1>5, <1>6 DEF Process

(* The lock keeps to the worker that took it, while its connection lives.      *)
LEMMA LockStep ==
  ASSUME ~ConnFaults, ExportTypeOK, LockHeld, [Next]_vars
  PROVE  LockHeld'
<1>1. ASSUME NEW w \in Workers,
             Recover(w) \/ Claim(w) \/ Process(w) \/ Fail(w) \/ Crash(w)
      PROVE  LockHeld'
  <2>1. pc'[w] \in {"replace", "unlock"} => TakeLock(w) \/ Replace(w)
    BY <1>1 DEF Process, Recover, RecoverRead, RecoverCommit, Claim, Resume, Prepare,
                Insert, Unlock, FinalizeSuccess, FinalizeEmpty, FinalizeFailure, Fail,
                Crash, Goto, Rest, ExportTypeOK
  <2>2. pc'[w] \in {"replace", "unlock"} => holder' = w
    <3>1. CASE TakeLock(w)  BY <3>1 DEF TakeLock, Goto, ExportTypeOK
    <3>2. CASE Replace(w)  BY <3>2 DEF Replace, LockHeld
    <3> QED BY <2>1, <3>1, <3>2
  <2>3. \/ holder' = holder \/ holder' = Released(w)
        \/ holder = None /\ holder' = w
    BY <1>1 DEF Process, Recover, RecoverRead, RecoverCommit, Claim, Resume, Prepare,
                Insert, TakeLock, Replace, Unlock, FinalizeSuccess, FinalizeEmpty,
                FinalizeFailure, Fail, Crash, fileVars
  <2> QED BY <1>1, <2>2, <2>3, OthersStay, ExportAssumption DEF LockHeld, Released
<1>2. CASE (\E j \in Jobs : Enqueue(j)) \/ Tick \/ UNCHANGED vars
  BY <1>2 DEF LockHeld, Enqueue, Tick, vars, fileVars, workerVars
<1>3. \A w \in Workers : ~LoseLock(w)  BY DEF LoseLock
<1> QED BY <1>1, <1>2, <1>3 DEF Next

(* The workbook changes only by a replacement: a copy is outdated only if its   *)
(* worker is not the only one in the place where files are replaced.          *)
LEMMA CopyStep ==
  ASSUME ExportTypeOK, CopyCurrent, [Next]_vars,
         \A v, w \in Workers : pc[v] = "replace" /\ pc[w] = "replace" => v = w
  PROVE  CopyCurrent'
<1>1. ASSUME NEW w \in Workers,
             Recover(w) \/ Claim(w) \/ Process(w) \/ Fail(w) \/ Crash(w)
      PROVE  CopyCurrent'
  <2>1. CASE Replace(w)
    <3>1. pc[w] = "replace" /\ pc'[w] # "replace"
      BY <2>1 DEF Replace, Goto, ExportTypeOK
    <3>2. \A v \in Workers : v # w => pc'[v] = pc[v]  BY <1>1, OthersStay
    <3> QED BY <3>1, <3>2 DEF CopyCurrent
  <2>2. CASE ~Replace(w)
    <3>1. book' = book  BY <1>1, <2>2, OthersStay
    <3>2. pc'[w] = "replace" => TakeLock(w)
      BY <1>1, <2>2 DEF Process, Recover, RecoverRead, RecoverCommit, Claim, Resume,
           Prepare, Insert, Unlock, FinalizeSuccess, FinalizeEmpty, FinalizeFailure,
           Fail, Crash, Goto, Rest, ExportTypeOK
    <3>3. pc'[w] = "replace" => copy'[w] = book
      BY <3>2 DEF TakeLock, Goto, ExportTypeOK
    <3> QED BY <1>1, <3>1, <3>3, OthersStay DEF CopyCurrent
  <2> QED BY <2>1, <2>2
<1>2. CASE \/ \E j \in Jobs : Enqueue(j)
           \/ \E w \in Workers : LoseLock(w)
           \/ Tick \/ UNCHANGED vars
  BY <1>2 DEF CopyCurrent, Enqueue, LoseLock, Tick, vars, fileVars, workerVars
<1> QED BY <1>1, <1>2 DEF Next

(* While the lock's connection holds, the invariant does.                  *)
LEMMA BookInvariant == ASSUME ~ConnFaults PROVE Spec => []BookInv
<1>1. Init => BookInv /\ LockHeld  BY BookInit DEF Init, LockHeld
<1>2. BookInv /\ LockHeld /\ [Next]_vars => (BookInv /\ LockHeld)'
  <2> SUFFICES ASSUME BookInv, LockHeld, [Next]_vars PROVE BookInv' /\ LockHeld'
    OBVIOUS
  <2>1. LockHeld'  BY LockStep DEF BookInv
  <2>2. CopyCurrent'  BY CopyStep DEF BookInv, LockHeld
  <2> QED BY <2>1, <2>2, BookStep
<1> QED BY <1>1, <1>2, PTL DEF Spec
-----------------------------------------------------------------------------
(* When workers exclude each other: there is one, or leases hold; and jobs      *)
(* become visible in order.                                                *)
Alone == \A v, w \in Workers : v = w
LeasesHold == ~Overruns /\ ~Crashes
Exclusive == ~LateCommits /\ (Alone \/ LeasesHold)

Busy(w) == pc[w] \in Working

(* Jobs are created in order, and all before one that runs or has items have   *)
(* ended.                                                                  *)
QueueOrder ==
  /\ \A j, k \in Jobs : k < j /\ status[k] = "absent" => status[j] = "absent"
  /\ \A j, k \in Jobs :
       k < j /\ (status[j] = "running" \/ Prepared(j)) => status[k] \in Terminal

(* A busy worker is alone with its job, which is running; and what a recovery   *)
(* has decided is still right.                                             *)
ClaimHeld ==
  /\ \A w \in Workers : Busy(w) => status[job[w]] = "running"
  /\ OneExecutor
  /\ \A w \in Workers : pc[w] = "recover" =>
       /\ \A v \in Workers : ~Busy(v)
       /\ \A j \in Jobs : verdict[w][j] # "keep" =>
            status[j] = "running" /\ verdict[w][j] = AfterAttempt(j)

(* Where leases hold, a running job has a worker with a lease.                *)
LeaseHeld == LeasesHold =>
  /\ \A w \in Workers : pc[w] # "recover" /\ (Busy(w) => lease[job[w]] > 0)
  /\ \A j \in Jobs : status[j] = "running" => \E w \in Workers : Busy(w) /\ job[w] = j

AttemptsLeft ==
  \A j \in Jobs :
    /\ attempts[j] <= MaxAttempts
    /\ status[j] \in {"absent", "pending", "retry_wait"} => attempts[j] < MaxAttempts

ClaimInv == QueueOrder /\ ClaimHeld /\ LeaseHeld /\ AttemptsLeft

(* At the start there are no jobs.                                         *)
LEMMA ClaimInit == Init => ClaimInv
BY ExportAssumption
   DEF Init, ClaimInv, QueueOrder, ClaimHeld, LeaseHeld, AttemptsLeft, OneExecutor, Busy,
       Working, Prepared, NoPlan

(* Job ids and counts are numbers.                                          *)
LEMMA Numbers == MaxAttempts \in Nat /\ Lease \in Nat \ {0} /\ \A j \in Jobs : j \in Nat
BY ExportAssumption

(* A busy worker goes on with its job.                                      *)
LEMMA GoOn ==
  ASSUME ExportTypeOK, ClaimInv, NEW w \in Workers, Busy(w),
         NEW l \in Working, Goto(w, l), UNCHANGED <<jobVars, job, verdict>>,
         \A j \in Jobs : j # job[w] => action'[j] = action[j]
  PROVE  ClaimInv'
<1>1. pc' = [pc EXCEPT ![w] = l]  BY DEF Goto
<1>2. /\ \A v \in Workers : Busy(v)' <=> Busy(v)
      /\ \A v \in Workers : pc'[v] = "recover" <=> pc[v] = "recover"
  BY <1>1 DEF ExportTypeOK, Busy, Working
<1>3. QueueOrder'
  <2>1. \A j \in Jobs : Prepared(j)' => Prepared(j) \/ status[j] = "running"
    BY DEF Prepared, ClaimInv, ClaimHeld
  <2> QED BY <2>1 DEF ClaimInv, QueueOrder, jobVars
<1>4. ClaimHeld'
  BY <1>2 DEF ClaimInv, ClaimHeld, OneExecutor, Busy, AfterAttempt, jobVars
<1>5. LeaseHeld'  BY <1>2 DEF ClaimInv, LeaseHeld, LeasesHold, jobVars
<1>6. AttemptsLeft'  BY DEF ClaimInv, AttemptsLeft, jobVars
<1> QED BY <1>3, <1>4, <1>5, <1>6 DEF ClaimInv

(* A busy worker ends its job.                                             *)
LEMMA EndJob ==
  ASSUME ExportTypeOK, ClaimInv, NEW w \in Workers, Busy(w), Rest(w), UNCHANGED action,
         NEW s \in Terminal \cup {"retry_wait"}, NEW d, WriteJob(job[w], s, d),
         s = "retry_wait" => attempts[job[w]] < MaxAttempts
  PROVE  ClaimInv'
<1> DEFINE J == job[w]
<1>1. J \in Jobs /\ status[J] = "running"
  BY DEF ExportTypeOK, ClaimInv, ClaimHeld, Busy
<1>2. /\ status' = [status EXCEPT ![J] = s] /\ lease' = [lease EXCEPT ![J] = 0]
      /\ attempts' = attempts /\ verdict' = verdict
      /\ pc' = [pc EXCEPT ![w] = "idle"] /\ job' = [job EXCEPT ![w] = None]
  BY DEF WriteJob, Rest, Goto
<1> HIDE DEF J
<1>3. \A v \in Workers : ~Busy(v)' /\ pc'[v] # "recover"
  BY <1>2 DEF ExportTypeOK, ClaimInv, ClaimHeld, OneExecutor, Busy, Working
<1>4. QueueOrder'
  BY <1>1, <1>2 DEF ExportTypeOK, ClaimInv, QueueOrder, Prepared, Terminal
<1>5. ClaimHeld'  BY <1>3 DEF ClaimHeld, OneExecutor, Busy
<1>6. LeaseHeld'
  <2> SUFFICES ASSUME LeasesHold, NEW j \in Jobs, status'[j] = "running" PROVE FALSE
    BY <1>3 DEF LeaseHeld, LeasesHold
  <2>1. j # J /\ status[j] = "running"  BY <1>1, <1>2 DEF ExportTypeOK, Terminal
  <2>2. PICK v \in Workers : Busy(v) /\ job[v] = j  BY <2>1 DEF ClaimInv, LeaseHeld
  <2>3. v = w  BY <2>2 DEF ClaimInv, ClaimHeld, OneExecutor, Busy
  <2> QED BY <2>1, <2>2, <2>3 DEF J
<1>7. AttemptsLeft'
  BY <1>1, <1>2 DEF ExportTypeOK, ClaimInv, AttemptsLeft, Terminal, J
<1> QED BY <1>4, <1>5, <1>6, <1>7 DEF ClaimInv

(* Every step keeps the invariant.                                         *)
LEMMA ClaimStep ==
  ASSUME Exclusive, ExportTypeOK, ClaimInv, [Next]_vars
  PROVE  ClaimInv'
<1>1. ASSUME NEW j \in Jobs, Enqueue(j) PROVE ClaimInv'
  <2>1. /\ status' = [status EXCEPT ![j] = "pending"] /\ status[j] = "absent"
        /\ \A k \in Jobs : k < j => status[k] # "absent"
        /\ UNCHANGED <<attempts, lease, action, pc, job, verdict>>
    BY <1>1 DEF Enqueue, itemVars, workerVars, Exclusive
  <2>2. QueueOrder'
    BY <2>1, ExportAssumption DEF ExportTypeOK, ClaimInv, QueueOrder, Prepared, Terminal
  <2>3. ClaimHeld'
    BY <2>1 DEF ExportTypeOK, ClaimInv, ClaimHeld, OneExecutor, Busy, AfterAttempt
  <2>4. LeaseHeld'
    BY <2>1 DEF ExportTypeOK, ClaimInv, LeaseHeld, LeasesHold, Busy
  <2>5. AttemptsLeft'  BY <2>1 DEF ExportTypeOK, ClaimInv, AttemptsLeft
  <2> QED BY <2>2, <2>3, <2>4, <2>5 DEF ClaimInv
<1>2. ASSUME NEW w \in Workers, RecoverRead(w) PROVE ClaimInv'
  <2>1. /\ pc' = [pc EXCEPT ![w] = "recover"] /\ pc[w] = "idle"
        /\ verdict' = [verdict EXCEPT ![w] =
                         [j \in Jobs |-> IF Expired(j) THEN AfterAttempt(j) ELSE "keep"]]
        /\ UNCHANGED <<status, attempts, lease, action, job>>
    BY <1>2 DEF RecoverRead, Goto, jobVars, itemVars
  <2>2. PICK j \in Jobs : Expired(j)  BY <1>2 DEF RecoverRead
  <2>3. ~LeasesHold
    <3> SUFFICES ASSUME LeasesHold PROVE FALSE  OBVIOUS
    <3>1. PICK v \in Workers : Busy(v) /\ job[v] = j
      BY <2>2 DEF Expired, ClaimInv, LeaseHeld
    <3>2. lease[j] > 0  BY <3>1 DEF ClaimInv, LeaseHeld
    <3> QED BY <2>2, <3>2 DEF Expired
  <2>4. \A v \in Workers : v = w  BY <2>3 DEF Exclusive, Alone
  <2>5. \A v \in Workers : ~Busy(v)'
    BY <2>1, <2>4 DEF Busy, Working, ExportTypeOK
  <2>6. ClaimHeld'
    <3>1. \A k \in Jobs : verdict'[w][k] # "keep" =>
            status'[k] = "running" /\ verdict'[w][k] = AfterAttempt(k)'
      BY <2>1 DEF ExportTypeOK, Expired, AfterAttempt
    <3> QED BY <2>4, <2>5, <3>1 DEF ClaimHeld, OneExecutor, Busy
  <2>7. LeaseHeld'  BY <2>3 DEF LeaseHeld, LeasesHold
  <2>8. QueueOrder' /\ AttemptsLeft'
    BY <2>1 DEF ClaimInv, QueueOrder, AttemptsLeft, Prepared
  <2> QED BY <2>6, <2>7, <2>8 DEF ClaimInv
<1>3. ASSUME NEW w \in Workers, RecoverCommit(w) PROVE ClaimInv'
  <2> DEFINE hit == {j \in Jobs : verdict[w][j] # "keep"}
  <2>1. /\ pc' = [pc EXCEPT ![w] = "idle"] /\ pc[w] = "recover"
        /\ status' = [j \in Jobs |-> IF j \in hit THEN verdict[w][j] ELSE status[j]]
        /\ UNCHANGED <<attempts, action, job>>
    BY <1>3 DEF RecoverCommit, Goto, itemVars
  <2>2. ~LeasesHold /\ \A v \in Workers : v = w
    BY <2>1 DEF ClaimInv, LeaseHeld, Exclusive, Alone
  <2>3. \A v \in Workers : ~Busy(v)' /\ pc'[v] # "recover"
    BY <2>1, <2>2 DEF Busy, Working, ExportTypeOK
  <2>4. \A j \in hit : /\ status[j] = "running" /\ verdict[w][j] = AfterAttempt(j)
                       /\ verdict[w][j] \in {"retry_wait", "failed"}
                       /\ status'[j] = verdict[w][j]
    BY <2>1 DEF ClaimInv, ClaimHeld, AfterAttempt
  <2>5. \A j \in Jobs : j \notin hit => status'[j] = status[j]  BY <2>1
  <2> HIDE DEF hit
  <2>6. QueueOrder'
    BY <2>1, <2>4, <2>5 DEF ClaimInv, QueueOrder, Prepared, Terminal
  <2>7. AttemptsLeft'
    <3>1. \A j \in hit : status'[j] = "retry_wait" => attempts[j] < MaxAttempts
      <4> SUFFICES ASSUME NEW j \in hit, status'[j] = "retry_wait"
                   PROVE  attempts[j] < MaxAttempts
        OBVIOUS
      <4>1. j \in Jobs /\ attempts[j] \in Nat  BY DEF hit, ExportTypeOK
      <4>2. AfterAttempt(j) = "retry_wait"  BY <2>4
      <4> QED BY <4>1, <4>2, Numbers DEF AfterAttempt
    <3> QED BY <2>1, <2>4, <2>5, <3>1 DEF ClaimInv, AttemptsLeft
  <2> QED BY <2>2, <2>3, <2>6, <2>7
          DEF ClaimInv, ClaimHeld, LeaseHeld, LeasesHold, OneExecutor, Busy
<1>4. ASSUME NEW w \in Workers, Claim(w) PROVE ClaimInv'
  <2>1. PICK j \in Jobs : /\ Oldest(j) /\ Due(j)
                          /\ status' = [status EXCEPT ![j] = "running"]
                          /\ attempts' = [attempts EXCEPT ![j] = @ + 1]
                          /\ lease' = [lease EXCEPT ![j] = Lease]
                          /\ job' = [job EXCEPT ![w] = j]
    BY <1>4 DEF Claim
  <2>2. /\ pc' = [pc EXCEPT ![w] = "prepare"] /\ pc[w] = "idle"
        /\ UNCHANGED <<verdict, action>>
    BY <1>4 DEF Claim, Goto, itemVars
  <2>3. \A v \in Workers : v # w => ~Busy(v) /\ pc[v] # "recover"
    <3> SUFFICES ASSUME NEW v \in Workers, v # w PROVE ~Busy(v) /\ pc[v] # "recover"
      OBVIOUS
    <3>1. LeasesHold  BY DEF Exclusive, Alone
    <3>2. pc[v] # "recover"  BY <3>1 DEF ClaimInv, LeaseHeld
    <3>3. ASSUME Busy(v) PROVE FALSE
      <4>1. status[job[v]] = "running" /\ job[v] \in Jobs
        BY <3>3 DEF ClaimInv, ClaimHeld, Busy, ExportTypeOK
      <4>2. status[j] \notin Terminal \cup {"absent", "running"}
        BY <2>1 DEF Oldest, Closed, Due
      <4>3. ~(j < job[v])  BY <4>1, <4>2 DEF ClaimInv, QueueOrder
      <4>4. ~(job[v] < j)  BY <2>1, <4>1 DEF Oldest, Closed, Terminal
      <4>5. job[v] = j  BY <4>1, <4>3, <4>4, Numbers
      <4> QED BY <4>1, <4>2, <4>5
    <3> QED BY <3>2, <3>3
  <2>4. \A v \in Workers : /\ Busy(v)' <=> v = w
                           /\ pc'[v] # "recover"
    BY <2>2, <2>3 DEF Busy, Working, ExportTypeOK
  <2>5. QueueOrder'
    <3>1. \A k \in Jobs : k < j => status[k] \in Terminal
      BY <2>1 DEF Oldest, Due, Closed, ClaimInv, QueueOrder
    <3>2. status[j] # "absent" /\ status[j] \notin Terminal
      BY <2>1 DEF Oldest, Closed
    <3> QED BY <2>1, <2>2, <3>1, <3>2
            DEF ClaimInv, QueueOrder, Prepared, ExportTypeOK, Terminal
  <2>6. ClaimHeld'
    BY <2>1, <2>4 DEF ClaimHeld, OneExecutor, Busy, ExportTypeOK
  <2>7. LeaseHeld'
    <3>1. lease'[j] > 0 /\ job'[w] = j  BY <2>1, ExportAssumption DEF ExportTypeOK
    <3>2. ASSUME LeasesHold, NEW k \in Jobs, status'[k] = "running" PROVE k = j
      <4>1. k # j => status[k] = "running"  BY <2>1, <3>2 DEF ExportTypeOK
      <4>2. ASSUME status[k] = "running" PROVE FALSE
        <5>1. PICK v \in Workers : Busy(v)  BY <3>2, <4>2 DEF ClaimInv, LeaseHeld
        <5> QED BY <5>1, <2>2, <2>3 DEF Busy, Working
      <4> QED BY <4>1, <4>2
    <3> QED BY <2>4, <3>1, <3>2 DEF LeaseHeld, LeasesHold
  <2>8. AttemptsLeft'
    <3>1. attempts[j] < MaxAttempts  BY <2>1 DEF Due, ClaimInv, AttemptsLeft
    <3> QED BY <2>1, <3>1, ExportAssumption DEF ClaimInv, AttemptsLeft, ExportTypeOK
  <2> QED BY <2>5, <2>6, <2>7, <2>8 DEF ClaimInv
<1>5. ASSUME NEW w \in Workers, Resume(w) PROVE ClaimInv'
  <2>1. Busy(w) /\ status[job[w]] = "running"
    BY <1>5 DEF Resume, Busy, Working, ClaimInv, ClaimHeld
  <2> QED BY <1>5, <2>1, GoOn DEF Resume, Working, itemVars
<1>6. ASSUME NEW w \in Workers, Prepare(w) PROVE ClaimInv'
  <2>1. Goto(w, "empty") \/ Goto(w, "insert")  BY <1>6 DEF Prepare
  <2> QED BY <1>6, <2>1, GoOn DEF Prepare, Busy, Working, itemVars
<1>7. ASSUME NEW w \in Workers, Insert(w) PROVE ClaimInv'
  <2>1. Goto(w, "fail") \/ Goto(w, "lock")  BY <1>7 DEF Insert
  <2>2. \A j \in Jobs : j # job[w] => action'[j] = action[j]
    BY <1>7 DEF Insert, ExportTypeOK
  <2> QED BY <1>7, <2>1, <2>2, GoOn DEF Insert, Busy, Working
<1>8. ASSUME NEW w \in Workers, TakeLock(w) \/ Replace(w) \/ Unlock(w) PROVE ClaimInv'
  <2>1. \/ Goto(w, "fail") \/ Goto(w, "unlock") \/ Goto(w, "replace")
        \/ Goto(w, "finalize")
    BY <1>8 DEF TakeLock, Replace, Unlock
  <2> QED BY <1>8, <2>1, GoOn DEF TakeLock, Replace, Unlock, Busy, Working, itemVars
<1>9. ASSUME NEW w \in Workers, Fail(w) PROVE ClaimInv'
  BY <1>9, GoOn DEF Fail, Busy, Working, itemVars
<1>10. ASSUME NEW w \in Workers, FinalizeSuccess(w) \/ FinalizeEmpty(w) PROVE ClaimInv'
  BY <1>10, EndJob DEF FinalizeSuccess, FinalizeEmpty, Busy, Working, Terminal, itemVars
<1>11. ASSUME NEW w \in Workers, FinalizeFailure(w) PROVE ClaimInv'
  <2> DEFINE s == AfterAttempt(job[w])
  <2>1. /\ WriteJob(job[w], s, IF s = "failed" THEN 0 ELSE RetryDelay)
        /\ Rest(w) /\ UNCHANGED action /\ Busy(w)
    BY <1>11 DEF FinalizeFailure, itemVars, Busy, Working
  <2>2. s \in Terminal \cup {"retry_wait"}  BY DEF AfterAttempt, Terminal
  <2>3. s = "retry_wait" => attempts[job[w]] < MaxAttempts
    <3>1. job[w] \in Jobs /\ attempts[job[w]] \in Nat  BY <2>1 DEF ExportTypeOK, Busy
    <3> QED BY <3>1, Numbers DEF AfterAttempt
  <2> HIDE DEF s
  <2> QED BY <2>1, <2>2, <2>3, EndJob
<1>12. ASSUME NEW w \in Workers, Crash(w) PROVE ClaimInv'
  <2>1. /\ pc' = [pc EXCEPT ![w] = "idle"]
        /\ UNCHANGED <<status, attempts, action>>
    BY <1>12 DEF Crash, Rest, Goto, jobVars, itemVars
  <2>2. ~LeasesHold /\ \A v \in Workers : v = w
    BY <1>12 DEF Crash, LeasesHold, Exclusive, Alone
  <2>3. \A v \in Workers : ~Busy(v)' /\ pc'[v] # "recover"
    BY <2>1, <2>2 DEF Busy, Working, ExportTypeOK
  <2> QED BY <2>1, <2>2, <2>3
          DEF ClaimInv, QueueOrder, ClaimHeld, LeaseHeld, LeasesHold, AttemptsLeft,
              OneExecutor, Busy, Prepared
<1>13. CASE Tick
  <2>1. /\ UNCHANGED <<status, attempts, action, pc, job, verdict>>
        /\ lease' = [j \in Jobs |-> IF lease[j] > 0 THEN lease[j] - 1 ELSE 0]
    BY <1>13 DEF Tick, itemVars, workerVars
  <2>2. LeaseHeld'
    <3> SUFFICES ASSUME LeasesHold, NEW w \in Workers, Busy(w) PROVE lease'[job[w]] > 0
      BY <2>1 DEF ClaimInv, LeaseHeld, LeasesHold, Busy
    <3>1. job[w] \in Jobs /\ lease[job[w]] > 0 /\ lease[job[w]] # 1
      BY <1>13 DEF Tick, LeasesHold, ClaimInv, LeaseHeld, Busy, ExportTypeOK
    <3>2. lease[job[w]] \in Nat  BY <3>1 DEF ExportTypeOK
    <3> QED BY <2>1, <3>1, <3>2
  <2> QED BY <2>1, <2>2
          DEF ClaimInv, QueueOrder, ClaimHeld, AttemptsLeft, OneExecutor, Busy, Prepared,
              AfterAttempt
<1>14. CASE UNCHANGED <<jobVars, action, pc, job, verdict>>
  BY <1>14 DEF ClaimInv, QueueOrder, ClaimHeld, LeaseHeld, LeasesHold, AttemptsLeft,
               OneExecutor, Busy, Prepared, AfterAttempt, jobVars
<1>15. ASSUME NEW w \in Workers, LoseLock(w) PROVE ClaimInv'
  BY <1>14, <1>15 DEF LoseLock, itemVars, workerVars
<1>16. CASE UNCHANGED vars  BY <1>14, <1>16 DEF vars, itemVars, workerVars
<1> QED BY <1>1, <1>2, <1>3, <1>4, <1>5, <1>6, <1>7, <1>8, <1>9, <1>10, <1>11, <1>12,
           <1>13, <1>15, <1>16 DEF Next, Recover, Process

(* Exclusive workers stay so.                                              *)
LEMMA ClaimInvariant == ASSUME Exclusive PROVE Spec => [](ExportTypeOK /\ ClaimInv)
<1>1. ExportTypeOK /\ ClaimInv /\ [Next]_vars => (ExportTypeOK /\ ClaimInv)'
  BY ExportStepTyped, ClaimStep
<1> QED BY <1>1, ExportInitTyped, ClaimInit, PTL DEF Spec

(* At most one worker processes a job, for any number of workers whose leases   *)
(* hold.                                                                   *)
THEOREM WorkersExclude == ASSUME Exclusive PROVE Spec => []OneExecutor
<1>1. ClaimInv => OneExecutor  BY DEF ClaimInv, ClaimHeld
<1> QED BY <1>1, ClaimInvariant, PTL

(* No job is attempted more often than allowed, by one worker with whatever     *)
(* crashes and overruns, or by several whose leases hold.                    *)
THEOREM AttemptsCounted == ASSUME Exclusive PROVE Spec => []AttemptsBounded
<1>1. ClaimInv => AttemptsBounded  BY DEF ClaimInv, AttemptsLeft, AttemptsBounded
<1> QED BY <1>1, ClaimInvariant, PTL
-----------------------------------------------------------------------------
(* What an exclusive worker has in hand is what its job's items say, and what   *)
(* it is to write is in the log once it has written.                         *)
PlanKept ==
  \A w \in Workers :
    /\ pc[w] \in {"lock", "replace", "unlock", "finalize"} => plan[w] = action[job[w]]
    /\ pc[w] \in {"unlock", "finalize"} => Writes(plan[w]) \subseteq logged[w]

(* An item to append has no row yet, while it is planned and, until it is       *)
(* logged, as long as its job is open.                                      *)
FirstRow ==
  /\ \A w \in Workers, i \in Items : pc[w] = "insert" /\ plan[w][i] = "append" => ~HasRow(i)
  /\ \A j \in Jobs, i \in Items :
       status[j] \notin Terminal /\ action[j][i] = "append" /\ i \notin book.log[j]
         => ~HasRow(i)

SoleInv == ClaimInv /\ BookInv /\ PlanKept /\ MarkedHasRow

(* No workbook, no rows.                                                   *)
LEMMA SoleInit == Init => SoleInv /\ FirstRow
<1>1. Init => PlanKept /\ MarkedHasRow /\ FirstRow
  BY DEF Init, PlanKept, MarkedHasRow, FirstRow, NoPlan
<1> QED BY <1>1, ClaimInit, BookInit DEF SoleInv

(* Only the worker with the job writes its items or the workbook, and an open   *)
(* job was open before.                                                    *)
LEMMA SoleWriter ==
  ASSUME SoleInv, [Next]_vars
  PROVE  /\ action' # action => \E w \in Workers : Insert(w)
         /\ book' # book => \E w \in Workers : Replace(w)
         /\ \A j \in Jobs : status'[j] \notin Terminal => status[j] \notin Terminal
<1> USE DEF SoleInv
<1>1. ASSUME NEW w \in Workers,
             FinalizeSuccess(w) \/ FinalizeEmpty(w) \/ FinalizeFailure(w)
      PROVE  /\ UNCHANGED <<action, book>>
             /\ \A j \in Jobs : status'[j] \notin Terminal => status[j] \notin Terminal
  <2>1. UNCHANGED <<action, book>> /\ Busy(w)
    BY <1>1 DEF FinalizeSuccess, FinalizeEmpty, FinalizeFailure, itemVars, fileVars,
                Busy, Working
  <2>2. status[job[w]] = "running"  BY <2>1 DEF ClaimInv, ClaimHeld
  <2>3. PICK s : status' = [status EXCEPT ![job[w]] = s]
    BY <1>1 DEF FinalizeSuccess, FinalizeEmpty, FinalizeFailure, WriteJob
  <2> QED BY <2>1, <2>2, <2>3 DEF Terminal, BookInv, ExportTypeOK
<1>2. ASSUME NEW w \in Workers, RecoverCommit(w)
      PROVE  /\ UNCHANGED <<action, book>>
             /\ \A j \in Jobs : status'[j] \notin Terminal => status[j] \notin Terminal
  <2>1. \A j \in Jobs : verdict[w][j] # "keep" => status[j] \notin Terminal
    BY <1>2 DEF RecoverCommit, ClaimInv, ClaimHeld, Terminal
  <2> QED BY <1>2, <2>1 DEF RecoverCommit, itemVars, fileVars
<1>3. ASSUME NEW w \in Workers, Claim(w)
      PROVE  /\ UNCHANGED <<action, book>>
             /\ \A j \in Jobs : status'[j] \notin Terminal => status[j] \notin Terminal
  BY <1>3 DEF Claim, Oldest, Closed, itemVars, fileVars, BookInv, ExportTypeOK
<1>4. ASSUME NEW j \in Jobs, Enqueue(j)
      PROVE  /\ UNCHANGED <<action, book>>
             /\ \A k \in Jobs : status'[k] \notin Terminal => status[k] \notin Terminal
  BY <1>4 DEF Enqueue, Terminal, itemVars, fileVars, BookInv, ExportTypeOK
<1>5. ASSUME NEW w \in Workers,
             \/ RecoverRead(w) \/ Resume(w) \/ Prepare(w) \/ Insert(w) \/ TakeLock(w)
             \/ Replace(w) \/ Unlock(w) \/ Fail(w) \/ Crash(w) \/ LoseLock(w)
      PROVE  /\ status' = status
             /\ action' # action => Insert(w)
             /\ book' # book => Replace(w)
  BY <1>5 DEF RecoverRead, Resume, Prepare, Insert, TakeLock, Replace, Unlock, Fail,
              Crash, LoseLock, jobVars, itemVars, fileVars
<1>6. CASE Tick \/ UNCHANGED vars
  BY <1>6 DEF Tick, vars, jobVars, itemVars, fileVars
<1> QED BY <1>1, <1>2, <1>3, <1>4, <1>5, <1>6 DEF Next, Recover, Process

(* Rows stay.                                                              *)
LEMMA RowsStay ==
  ASSUME SoleInv, [Next]_vars
  PROVE  \A i \in Items : HasRow(i) => HasRow(i)'
<1>1. CASE book' = book  BY <1>1 DEF HasRow
<1>2. ASSUME NEW w \in Workers, Replace(w)
      PROVE  \A i \in Items : HasRow(i) => HasRow(i)'
  BY <1>2, WrittenRows DEF Replace, SoleInv, BookInv, CopyCurrent
<1> QED BY <1>1, <1>2, SoleWriter

(* The plan of a worker stays that of its items.                             *)
LEMMA PlanStep ==
  ASSUME SoleInv, [Next]_vars
  PROVE  PlanKept'
<1>1. ASSUME NEW w \in Workers,
             Recover(w) \/ Claim(w) \/ Process(w) \/ Fail(w) \/ Crash(w)
      PROVE  PlanKept'
  <2>1. ASSUME NEW v \in Workers, v # w, Busy(v)
        PROVE  action' = action
    <3>1. \A u \in Workers : ~Insert(u) \/ u = v
      BY <2>1 DEF SoleInv, ClaimInv, ClaimHeld, OneExecutor, Busy, Insert, Working
    <3>2. ~Insert(v)
      BY <1>1, <2>1, OthersStay DEF Insert, Goto, SoleInv, BookInv, ExportTypeOK
    <3> QED BY <3>1, <3>2, SoleWriter
  <2>2. /\ pc'[w] \in {"lock", "replace", "unlock", "finalize"} => plan'[w] = action'[job'[w]]
        /\ pc'[w] \in {"unlock", "finalize"} => Writes(plan'[w]) \subseteq logged'[w]
    <3> USE DEF SoleInv, BookInv, ExportTypeOK, Goto
    <3>1. CASE \/ Recover(w) \/ Claim(w) \/ Prepare(w) \/ FinalizeSuccess(w)
               \/ FinalizeEmpty(w) \/ FinalizeFailure(w) \/ Fail(w) \/ Crash(w)
      <4>1. pc'[w] \notin {"lock", "replace", "unlock", "finalize"}
        BY <3>1 DEF Recover, RecoverRead, RecoverCommit, Claim, Prepare, FinalizeSuccess,
                    FinalizeEmpty, FinalizeFailure, Fail, Crash, Rest
      <4> QED BY <4>1
    <3>2. CASE Resume(w)  BY <3>2 DEF Resume, Rest, itemVars
    <3>3. CASE Insert(w)  BY <3>3 DEF Insert
    <3>4. CASE TakeLock(w)
      <4>1. plan[w] = action[job[w]] /\ UNCHANGED <<plan, action, job>>
        BY <3>4 DEF TakeLock, PlanKept, itemVars
      <4>2. pc'[w] \in {"unlock", "finalize"} =>
              Unlogged(w, book) = {} /\ logged'[w] = book.log[job[w]]
        BY <3>4 DEF TakeLock
      <4> QED BY <4>1, <4>2 DEF Unlogged
    <3>5. CASE Replace(w)
      <4>1. /\ plan[w] = action[job[w]] /\ UNCHANGED <<plan, action, job>>
            /\ copy[w] = book /\ job[w] \in Jobs
        BY <3>5 DEF Replace, PlanKept, itemVars, CopyCurrent, Working
      <4>2. logged'[w] = book'.log[job[w]] /\ book' = Written(w, book)
        BY <3>5, <4>1 DEF Replace
      <4>3. book'.log[job[w]] = book.log[job[w]] \cup (Writes(plan[w]) \ book.log[job[w]])
        <5>1. book'.log = [book.log EXCEPT ![job[w]] = @ \cup Unlogged(w, book)]
          BY <4>2 DEF Written
        <5>2. book.log \in [Jobs -> SUBSET Items]  BY DEF Books
        <5> QED BY <4>1, <5>1, <5>2 DEF Unlogged
      <4> QED BY <4>1, <4>2, <4>3
    <3>6. CASE Unlock(w)  BY <3>6 DEF Unlock, PlanKept, itemVars
    <3> QED BY <1>1, <3>1, <3>2, <3>3, <3>4, <3>5, <3>6 DEF Process
  <2> QED BY <1>1, <2>1, <2>2, OthersStay
          DEF PlanKept, Busy, Working, SoleInv, BookInv
<1>2. CASE \/ \E j \in Jobs : Enqueue(j)
           \/ \E w \in Workers : LoseLock(w)
           \/ Tick \/ UNCHANGED vars
  BY <1>2 DEF PlanKept, SoleInv, Enqueue, LoseLock, Tick, vars, itemVars, workerVars
<1> QED BY <1>1, <1>2 DEF Next

(* Items are marked only when their rows are there.                          *)
LEMMA MarkedStep ==
  ASSUME SoleInv, [Next]_vars
  PROVE  MarkedHasRow'
<1> USE DEF SoleInv
<1>1. CASE marked' = marked
  BY <1>1, RowsStay DEF MarkedHasRow, BookInv, ExportTypeOK
<1>2. ASSUME NEW w \in Workers, FinalizeSuccess(w) PROVE MarkedHasRow'
  <2>1. /\ job[w] \in Jobs /\ plan[w] = action[job[w]]
        /\ Writes(plan[w]) \subseteq logged[w]
    BY <1>2 DEF FinalizeSuccess, PlanKept, BookInv, ExportTypeOK, Working
  <2>2. \A i \in logged[w] : i \in Items /\ HasRow(i)
    BY DEF BookInv, KnownHasRow, ExportTypeOK
  <2>3. marked' = [marked EXCEPT ![job[w]] = @ \cup Writes(action[job[w]])]
    BY <1>2 DEF FinalizeSuccess
  <2>4. \A j \in Jobs : \A i \in marked'[j] : i \in Items /\ HasRow(i)
    BY <2>1, <2>2, <2>3 DEF MarkedHasRow, BookInv, ExportTypeOK
  <2> QED BY <2>4, RowsStay DEF MarkedHasRow
<1>3. ASSUME NEW w \in Workers,
             \/ Recover(w) \/ Claim(w) \/ Resume(w) \/ Prepare(w) \/ Insert(w) \/ TakeLock(w)
             \/ Replace(w) \/ Unlock(w) \/ FinalizeEmpty(w) \/ FinalizeFailure(w)
             \/ Fail(w) \/ Crash(w) \/ LoseLock(w)
      PROVE  marked' = marked
  BY <1>3 DEF Recover, RecoverRead, RecoverCommit, Claim, Resume, Prepare, Insert, TakeLock,
              Replace, Unlock, FinalizeEmpty, FinalizeFailure, Fail, Crash, LoseLock, itemVars
<1>4. CASE (\E j \in Jobs : Enqueue(j)) \/ Tick \/ UNCHANGED vars
  BY <1>1, <1>4 DEF Enqueue, Tick, vars, itemVars
<1> QED BY <1>1, <1>2, <1>3, <1>4 DEF Next, Process

(* Every step of exclusive workers keeps the invariant.                      *)
LEMMA SoleStep ==
  ASSUME Exclusive, SoleInv, [Next]_vars
  PROVE  SoleInv'
<1>1. ClaimInv'  BY ClaimStep DEF SoleInv, BookInv
<1>2. CopyCurrent'
  BY CopyStep DEF SoleInv, BookInv, ClaimInv, ClaimHeld, OneExecutor, Working
<1>3. BookInv'  BY <1>2, BookStep DEF SoleInv
<1> QED BY <1>1, <1>3, PlanStep, MarkedStep DEF SoleInv

(* An append is planned only for an item without a row, and no other job writes *)
(* one before it is done.                                                  *)
LEMMA FirstRowStep ==
  ASSUME Dedupe, SoleInv, FirstRow, [Next]_vars, ExportTypeOK'
  PROVE  FirstRow'
<1> USE DEF SoleInv
<1>1. ASSUME NEW w \in Workers, Replace(w) PROVE FirstRow'
  <2> DEFINE J == job[w]
  <2>1. /\ pc[w] = "replace" /\ copy[w] = book /\ J \in Jobs /\ status[J] = "running"
        /\ plan[w] = action[J]
    BY <1>1 DEF Replace, BookInv, CopyCurrent, ExportTypeOK, Working, ClaimInv, ClaimHeld,
                Busy, PlanKept
  <2>2. UNCHANGED <<status, action>> /\ book' = Written(w, book)
    BY <1>1, <2>1 DEF Replace, jobVars, itemVars
  <2>3. \A v \in Workers : pc'[v] # "insert"
    BY <1>1, <2>1 DEF Replace, Goto, ClaimInv, ClaimHeld, OneExecutor, Working, BookInv,
                      ExportTypeOK
  <2>4. Writes(plan[w]) \subseteq book'.log[J]
    <3>1. book'.log = [book.log EXCEPT ![J] = @ \cup Unlogged(w, book)]
      BY <2>2 DEF Written
    <3>2. book.log \in [Jobs -> SUBSET Items]  BY DEF BookInv, ExportTypeOK, Books
    <3> QED BY <2>1, <3>1, <3>2 DEF Unlogged
  <2>5. ASSUME NEW j \in Jobs, NEW i \in Items, status[j] \notin Terminal,
               action[j][i] = "append"
        PROVE  i \in book'.log[j]
    <3>1. Prepared(j)  BY <2>5 DEF Prepared
    <3>2. ~(j < J)  BY <2>1, <2>5 DEF ClaimInv, QueueOrder
    <3>3. ~(J < j)  BY <2>1, <3>1 DEF ClaimInv, QueueOrder, Terminal
    <3>4. j = J  BY <2>1, <3>2, <3>3, Numbers
    <3> QED BY <2>1, <2>4, <2>5, <3>4 DEF Writes
  <2> QED BY <2>2, <2>3, <2>5 DEF FirstRow
<1>2. ASSUME book' = book, NEW w \in Workers, Insert(w) PROVE FirstRow'
  <2> DEFINE j == job[w]
  <2>1. j \in Jobs /\ status' = status /\ pc[w] = "insert"
    BY <1>2 DEF Insert, BookInv, ExportTypeOK, Working, jobVars
  <2>2. \A v \in Workers : pc'[v] # "insert"
    BY <1>2, <2>1 DEF Insert, Goto, ClaimInv, ClaimHeld, OneExecutor, Working, BookInv,
                      ExportTypeOK
  <2>3. \A k \in Jobs, i \in Items : action'[k][i] = "append" =>
          action[k][i] = "append" \/ (k = j /\ plan[w][i] = "append")
    BY <1>2, <2>1 DEF Insert, BookInv, ExportTypeOK
  <2> QED BY <1>2, <2>1, <2>2, <2>3 DEF FirstRow, HasRow
<1>3. ASSUME book' = book, action' = action,
             \A v \in Workers, i \in Items :
               pc'[v] = "insert" /\ plan'[v][i] = "append" => ~HasRow(i)
      PROVE  FirstRow'
  BY <1>3, SoleWriter DEF FirstRow, HasRow
<1>4. ASSUME NEW w \in Workers, Prepare(w) PROVE FirstRow'
  <2>1. PICK p \in Plans : /\ \A i \in Items : p[i] \in {"none"} \cup Choices(job[w], i)
                           /\ plan' = [plan EXCEPT ![w] = p]
    BY <1>4 DEF Prepare
  <2>2. \A i \in Items : p[i] = "append" => ~HasRow(i)  BY <2>1 DEF Choices
  <2>3. \A v \in Workers : v # w => pc'[v] = pc[v] /\ plan'[v] = plan[v]
    BY <1>4, OthersStay DEF Process, BookInv
  <2>4. plan'[w] = p  BY <2>1 DEF BookInv, ExportTypeOK
  <2> QED BY <1>3, <1>4, <2>2, <2>3, <2>4 DEF FirstRow, Prepare, itemVars, fileVars
<1>5. ASSUME NEW w \in Workers, action' = action, book' = book,
             \/ Recover(w) \/ Claim(w) \/ Resume(w) \/ TakeLock(w) \/ Unlock(w)
             \/ FinalizeSuccess(w) \/ FinalizeEmpty(w) \/ FinalizeFailure(w)
             \/ Fail(w) \/ Crash(w)
      PROVE  FirstRow'
  <2>1. pc'[w] # "insert"
    BY <1>5 DEF Recover, RecoverRead, RecoverCommit, Claim, Resume, TakeLock, Unlock,
                FinalizeSuccess, FinalizeEmpty, FinalizeFailure, Fail, Crash, Rest, Goto,
                BookInv, ExportTypeOK
  <2>2. \A v \in Workers : v # w => pc'[v] = pc[v] /\ plan'[v] = plan[v]
    BY <1>5, OthersStay DEF Process, BookInv
  <2> QED BY <1>3, <1>5, <2>1, <2>2 DEF FirstRow
<1>6. CASE \/ \E j \in Jobs : Enqueue(j)
           \/ \E w \in Workers : LoseLock(w)
           \/ Tick \/ UNCHANGED vars
  <2>1. UNCHANGED <<book, action, pc, plan>>
    BY <1>6 DEF Enqueue, LoseLock, Tick, vars, itemVars, fileVars, workerVars
  <2> QED BY <1>3, <2>1 DEF FirstRow
<1>7. ASSUME NEW w \in Workers, ~Replace(w), ~Insert(w),
             Recover(w) \/ Claim(w) \/ Process(w) \/ Fail(w) \/ Crash(w)
      PROVE  book' = book /\ action' = action
  BY <1>7 DEF Recover, RecoverRead, RecoverCommit, Claim, Process, Resume, Prepare, TakeLock,
              Unlock, FinalizeSuccess, FinalizeEmpty, FinalizeFailure, Fail, Crash,
              itemVars, fileVars
<1>8. ASSUME NEW w \in Workers, Insert(w) PROVE book' = book
  BY <1>8 DEF Insert, fileVars
<1> QED BY <1>1, <1>2, <1>4, <1>5, <1>6, <1>7, <1>8 DEF Next, Process

(* Exclusive workers, from the start.                                       *)
LEMMA SoleInvariant == ASSUME Exclusive PROVE Spec => []SoleInv
<1>1. SoleInv /\ [Next]_vars => SoleInv'  BY SoleStep
<1> QED BY <1>1, SoleInit, PTL DEF Spec

(* The workbook is in order, by the lock or by exclusion.                      *)
LEMMA BookInOrder == ASSUME ~ConnFaults \/ Exclusive PROVE Spec => []BookInv
<1>1. CASE ~ConnFaults  BY <1>1, BookInvariant, PTL
<1>2. CASE Exclusive
  <2>1. SoleInv => BookInv  BY DEF SoleInv
  <2> QED BY <1>2, <2>1, SoleInvariant, PTL
<1> QED BY <1>1, <1>2

(* A job puts at most one row for an item into the workbook: with any number of *)
(* workers, overrun leases, crashes and retries, as the log inside the file  *)
(* is read and written under the lock, whoever owns the job; and without the *)
(* lock, as long as workers exclude each other.                             *)
THEOREM RowsOnce == ASSUME ~ConnFaults \/ Exclusive PROVE Spec => []RowOncePerJob
<1>1. BookInv => RowOncePerJob  BY DEF BookInv, RowsLogged, RowOncePerJob
<1> QED BY <1>1, BookInOrder, PTL

(* No order is marked shipped before the workbook has a row for it, under the   *)
(* same hypotheses.                                                         *)
THEOREM ShippedRegistered == ASSUME ~ConnFaults \/ Exclusive PROVE Spec => []ShippedHasRow
<1>1. BookInv => ShippedHasRow  BY DEF BookInv
<1> QED BY <1>1, BookInOrder, PTL

(* What the database calls exported is in the workbook, lost lock connections   *)
(* or not, as long as workers exclude each other.                            *)
THEOREM MarkedRegistered == ASSUME Exclusive PROVE Spec => []MarkedHasRow
<1>1. SoleInv => MarkedHasRow  BY DEF SoleInv
<1> QED BY <1>1, SoleInvariant, PTL
-----------------------------------------------------------------------------
(* What ExportQueue sees of a job and of an item.                             *)
JobState == [j \in Jobs |-> IF status[j] \in {"pending", "running", "retry_wait"}
                            THEN "open" ELSE status[j]]
Ledger == [i \in Items |-> {j \in Jobs : book.rows[j][i] > 0}]

(* A running job is the first of the open ones.                              *)
LEMMA RunningIsHead ==
  ASSUME SoleInv, NEW j \in Jobs, status[j] = "running"
  PROVE  Queue!Head(j)
<1>1. \A k \in Jobs : k < j => status[k] \in Terminal
  BY DEF SoleInv, ClaimInv, QueueOrder
<1> QED BY <1>1 DEF Queue!Head, Terminal

(* Steps that change neither files nor orders, and no job's openness, are       *)
(* stuttering steps of the queue.                                            *)
LEMMA QueueStutters ==
  ASSUME book' = book, shipped' = shipped, JobState' = JobState
  PROVE  UNCHANGED Queue!queueVars
BY DEF Queue!queueVars, JobState, Ledger

(* Ending a running job ends it in the queue; what it ships is registered.      *)
LEMMA QueueCloses ==
  ASSUME SoleInv, NEW j \in Jobs, status[j] = "running",
         NEW o \in Terminal, status' = [status EXCEPT ![j] = o],
         book' = book, NEW S \in SUBSET Items, shipped' = shipped \cup S,
         \A i \in S : HasRow(i), S # {} => o = "success"
  PROVE  Queue!QueueNext
<1>1. Queue!Head(j)  BY RunningIsHead
<1>2. JobState' = [JobState EXCEPT ![j] = o]
  BY DEF JobState, Terminal, SoleInv, BookInv, ExportTypeOK
<1>3. o \in Queue!Outcomes /\ JobState'[j] = o
  BY <1>2 DEF Queue!Outcomes, Terminal, JobState
<1>4. Ledger' = Ledger  BY DEF Ledger
<1>5. S \subseteq {i \in Items : Ledger[i] # {}}  BY DEF Ledger, HasRow
<1>6. Queue!Close(j)
  <2>1. \E p \in Queue!Outcomes : JobState' = [JobState EXCEPT ![j] = p]  BY <1>2, <1>3
  <2>2. \E T \in SUBSET {i \in Items : Ledger[i] # {}} :
          shipped' = shipped \cup T /\ (T # {} => JobState'[j] = "success")
    BY <1>3, <1>5
  <2> QED BY <1>1, <1>4, <2>1, <2>2 DEF Queue!Close, JobState, Ledger
<1> QED BY <1>6 DEF Queue!QueueNext

(* A job may also end without shipping anything.                              *)
LEMMA QueueEnds ==
  ASSUME SoleInv, NEW j \in Jobs, status[j] = "running",
         NEW o \in Terminal, status' = [status EXCEPT ![j] = o], UNCHANGED <<book, shipped>>
  PROVE  Queue!QueueNext
<1>1. shipped' = shipped \cup {}  OBVIOUS
<1>2. {} \in SUBSET Items /\ \A i \in {} : HasRow(i)  OBVIOUS
<1> QED BY <1>1, <1>2, QueueCloses

(* The workbook is replaced by the worker of the first open job, with first rows. *)
LEMMA QueueRegisters ==
  ASSUME SoleInv, FirstRow, NEW w \in Workers, NEW J \in Jobs, J = job[w], Replace(w)
  PROVE  Queue!QueueNext
<1> DEFINE S == {i \in Unlogged(w, book) : plan[w][i] = "append"}
<1> USE DEF SoleInv
<1>1. /\ pc[w] = "replace" /\ copy[w] = book /\ status[J] = "running"
      /\ plan[w] = action[J] /\ UNCHANGED <<status, shipped>> /\ book' = Written(w, book)
  BY DEF Replace, BookInv, CopyCurrent, ExportTypeOK, Working, ClaimInv, ClaimHeld, Busy,
         PlanKept, jobVars, itemVars
<1>2. S \subseteq Items /\ \A i \in S : ~HasRow(i)
  BY <1>1 DEF Unlogged, Writes, FirstRow, Terminal
<1>3. \A i \in S : Ledger[i] = {}  BY <1>2 DEF Ledger, HasRow
<1>4. book.rows \in [Jobs -> [Items -> Nat]]  BY DEF BookInv, ExportTypeOK, Books
<1>5. book'.rows = [book.rows EXCEPT ![J] = [i \in Items |-> IF i \in S THEN @[i] + 1 ELSE @[i]]]
  BY <1>1 DEF Written
<1> HIDE DEF S
<1>6. \A j \in Jobs, i \in Items :
        book'.rows[j][i] = IF j = J /\ i \in S THEN book.rows[j][i] + 1 ELSE book.rows[j][i]
  BY <1>1, <1>4, <1>5
<1>7. ASSUME NEW i \in Items PROVE Ledger'[i] = IF i \in S THEN {J} ELSE Ledger[i]
  <2>1. CASE i \in S
    <3>1. \A j \in Jobs : ~(book.rows[j][i] > 0) /\ book.rows[j][i] \in Nat
      BY <1>4, <2>1, <1>2 DEF HasRow
    <3>2. \A j \in Jobs : book'.rows[j][i] > 0 <=> j = J  BY <1>6, <2>1, <3>1
    <3> QED BY <1>1, <2>1, <3>2 DEF Ledger
  <2>2. CASE i \notin S  BY <1>6, <2>2 DEF Ledger
  <2> QED BY <2>1, <2>2
<1>8. Ledger' = [i \in Items |-> IF i \in S THEN {J} ELSE Ledger[i]]
  BY <1>7 DEF Ledger
<1>9. S \in SUBSET {i \in Items : Ledger[i] = {}}  BY <1>2, <1>3
<1>10. \E T \in SUBSET {i \in Items : Ledger[i] = {}} :
         Ledger' = [i \in Items |-> IF i \in T THEN {J} ELSE Ledger[i]]
  BY <1>8, <1>9
<1>11. Queue!Head(J)  BY <1>1, RunningIsHead
<1>12. JobState' = JobState /\ shipped' = shipped  BY <1>1 DEF JobState
<1>13. Queue!Register(J)
  BY <1>10, <1>11, <1>12 DEF Queue!Register, JobState, Ledger
<1> QED BY <1>13 DEF Queue!QueueNext

(* Every step is one of the queue, or none.                                   *)
LEMMA QueueStep ==
  ASSUME SoleInv, FirstRow, [Next]_vars
  PROVE  [Queue!QueueNext]_(Queue!queueVars)
<1> USE DEF SoleInv
<1>1. ASSUME NEW j \in Jobs, Enqueue(j) PROVE Queue!QueueNext
  <2>1. JobState' = [JobState EXCEPT ![j] = "open"] /\ JobState[j] = "absent"
    BY <1>1 DEF Enqueue, JobState, BookInv, ExportTypeOK
  <2>2. Ledger' = Ledger /\ shipped' = shipped
    BY <1>1 DEF Enqueue, Ledger, itemVars, fileVars
  <2>3. Queue!Enqueue(j)  BY <2>1, <2>2 DEF Queue!Enqueue, JobState, Ledger
  <2> QED BY <2>3 DEF Queue!QueueNext
<1>2. ASSUME NEW w \in Workers, RecoverCommit(w)
      PROVE  Queue!QueueNext \/ UNCHANGED Queue!queueVars
  <2>1. /\ UNCHANGED <<book, shipped>>
        /\ status' = [j \in Jobs |-> IF verdict[w][j] # "keep" THEN verdict[w][j]
                                                              ELSE status[j]]
        /\ \A j \in Jobs : verdict[w][j] # "keep" =>
             status[j] = "running" /\ verdict[w][j] \in {"failed", "retry_wait"}
    BY <1>2 DEF RecoverCommit, itemVars, fileVars, ClaimInv, ClaimHeld, BookInv, ExportTypeOK
  <2>2. CASE \E j \in Jobs : verdict[w][j] = "failed"
    <3>1. PICK j \in Jobs : verdict[w][j] = "failed"  BY <2>2
    <3>2. status[j] = "running"  BY <2>1, <3>1
    <3>3. ASSUME NEW k \in Jobs, k # j PROVE verdict[w][k] = "keep"
      <4> SUFFICES ASSUME status[k] = "running" PROVE FALSE  BY <2>1
      <4>1. k < j \/ j < k  BY <3>3, Numbers
      <4> QED BY <3>2, <4>1 DEF ClaimInv, QueueOrder, Terminal
    <3>4. status' = [status EXCEPT ![j] = "failed"]
      BY <2>1, <3>1, <3>3 DEF BookInv, ExportTypeOK
    <3> QED BY <2>1, <3>2, <3>4, QueueEnds DEF Terminal
  <2>3. CASE \A j \in Jobs : verdict[w][j] # "failed"
    <3>1. JobState' = JobState  BY <2>1, <2>3 DEF JobState
    <3> QED BY <2>1, <3>1, QueueStutters
  <2> QED BY <2>2, <2>3
<1>3. ASSUME NEW w \in Workers, Claim(w) PROVE UNCHANGED Queue!queueVars
  <2>1. PICK j \in Jobs : Due(j) /\ status' = [status EXCEPT ![j] = "running"]
    BY <1>3 DEF Claim
  <2>2. JobState' = JobState  BY <2>1 DEF JobState, Due, BookInv, ExportTypeOK
  <2> QED BY <1>3, <2>2, QueueStutters DEF Claim, itemVars, fileVars
<1>4. ASSUME NEW w \in Workers, FinalizeSuccess(w) PROVE Queue!QueueNext
  <2> DEFINE J == job[w]
             S == {i \in Items : \/ action[J][i] \in {"update", "skip"}
                                 \/ action[J][i] = "append" /\ i \in placed'[J]}
  <2>1. J \in Jobs /\ status[J] = "running"
    BY <1>4 DEF FinalizeSuccess, BookInv, ExportTypeOK, Working, ClaimInv, ClaimHeld, Busy
  <2>2. /\ status' = [status EXCEPT ![J] = "success"] /\ book' = book
        /\ shipped' = shipped \cup S
        /\ placed' = [placed EXCEPT ![J] = @ \cup (Writes(action[J]) \cap logged[w])]
    BY <1>4 DEF FinalizeSuccess, WriteJob, fileVars
  <2>3. \A i \in placed'[J] : HasRow(i)
    BY <2>1, <2>2 DEF BookInv, KnownHasRow, ExportTypeOK
  <2>4. \A i \in S : HasRow(i)  BY <2>1, <2>3 DEF BookInv, KnownHasRow
  <2> HIDE DEF S
  <2>5. S \in SUBSET Items  BY DEF S
  <2> QED BY <2>1, <2>2, <2>4, <2>5, QueueCloses DEF Terminal
<1>5. ASSUME NEW w \in Workers, FinalizeEmpty(w) \/ FinalizeFailure(w)
      PROVE  Queue!QueueNext \/ UNCHANGED Queue!queueVars
  <2>1. job[w] \in Jobs /\ status[job[w]] = "running" /\ UNCHANGED <<book, shipped>>
    BY <1>5 DEF FinalizeEmpty, FinalizeFailure, BookInv, ExportTypeOK, Working, ClaimInv,
                ClaimHeld, Busy, itemVars, fileVars
  <2>2. PICK s \in {"skipped", "failed", "retry_wait"} :
          status' = [status EXCEPT ![job[w]] = s]
    BY <1>5 DEF FinalizeEmpty, FinalizeFailure, WriteJob, AfterAttempt
  <2>3. CASE s \in Terminal  BY <2>1, <2>2, <2>3, QueueEnds
  <2>4. CASE s = "retry_wait"
    <3>1. JobState' = JobState  BY <2>1, <2>2, <2>4 DEF JobState, BookInv, ExportTypeOK
    <3> QED BY <2>1, <3>1, QueueStutters
  <2> QED BY <2>2, <2>3, <2>4 DEF Terminal
<1>6. ASSUME NEW w \in Workers, Replace(w) PROVE Queue!QueueNext
  BY <1>6, QueueRegisters DEF Replace, BookInv, ExportTypeOK, Working
<1>7. ASSUME NEW w \in Workers,
             \/ RecoverRead(w) \/ Resume(w) \/ Prepare(w) \/ Insert(w) \/ TakeLock(w)
             \/ Unlock(w) \/ Fail(w) \/ Crash(w) \/ LoseLock(w)
      PROVE  UNCHANGED <<status, book, shipped>>
  BY <1>7 DEF RecoverRead, Resume, Prepare, Insert, TakeLock, Unlock, Fail, Crash, LoseLock,
              jobVars, itemVars, fileVars
<1>8. CASE Tick \/ UNCHANGED vars
  BY <1>8, QueueStutters DEF Tick, vars, jobVars, itemVars, fileVars, JobState
<1>9. CASE UNCHANGED <<status, book, shipped>>
  BY <1>9, QueueStutters DEF JobState
<1> QED BY <1>1, <1>2, <1>3, <1>4, <1>5, <1>6, <1>7, <1>8, <1>9
        DEF Next, Recover, Process

(* The exporter is an ExportQueue: exclusive workers that look into the         *)
(* workbook register and close the jobs in order, each item once, and ship   *)
(* what is registered.                                                      *)
THEOREM QueueImplemented == ASSUME Dedupe, Exclusive PROVE Spec => ImplementsQueue
<1>1. Init => Queue!QueueInit
  BY DEF Init, Queue!QueueInit, EmptyBook
<1>2. SoleInv /\ FirstRow /\ [Next]_vars => FirstRow'
  BY FirstRowStep, ExportStepTyped DEF SoleInv, BookInv
<1>3. SoleInv /\ FirstRow /\ [Next]_vars => [Queue!QueueNext]_(Queue!queueVars)
  BY QueueStep
<1> QED BY <1>1, <1>2, <1>3, SoleInit, SoleInvariant, PTL
        DEF Spec, ImplementsQueue, Queue!QueueSpec
=============================================================================
