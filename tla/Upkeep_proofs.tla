------------------------------ MODULE Upkeep_proofs ------------------------------
(***************************************************************************)
(* Proofs about the tokens of an account, for any number of processes and all      *)
(* windows and timeouts, and about the collection of traffic figures, for any      *)
(* accounts and threads; and the types of the modules that MC_Upkeep runs.       *)
(***************************************************************************)
EXTENDS MC_Upkeep, SchedulerLeader_proofs, SequenceTheorems, FiniteSetTheorems

(* Credentials that are used, grow older, or lose their marker are credentials;   *)
(* none of that makes a token accepted again.                                *)
LEMMA CredentialsTyped ==
  /\ NoCreds \in Credentials /\ Idle \in Thread
  /\ \A c \in Credentials :
       /\ Used(c) \in Credentials /\ ~Used(c).accepted /\ Used(c).marker = c.marker
       /\ Older(c) \in Credentials /\ Older(c).accepted = c.accepted
       /\ Older(c).marker = IF c.marker > 0 THEN c.marker - 1 ELSE 0
       /\ \A m \in 0..MarkerLife : /\ [c EXCEPT !.marker = m] \in Credentials
                                   /\ [c EXCEPT !.marker = m].accepted = c.accepted
                                   /\ [c EXCEPT !.marker = m].marker = m
<1> USE TokenAssumption
<1>1. NoCreds \in Credentials  BY DEF NoCreds, Credentials
<1>2. Idle \in Thread  BY <1>1 DEF Idle, Thread
<1>3. ASSUME NEW c \in Credentials
      PROVE  Used(c) \in Credentials /\ ~Used(c).accepted /\ Used(c).marker = c.marker
  BY <1>3 DEF Used, Credentials
<1>4. ASSUME NEW c \in Credentials
      PROVE  /\ Older(c) \in Credentials /\ Older(c).accepted = c.accepted
             /\ Older(c).marker = IF c.marker > 0 THEN c.marker - 1 ELSE 0
  <2>1. /\ (IF c.left > 0 THEN c.left - 1 ELSE 0) \in 0..Lifetime
        /\ (IF c.marker > 0 THEN c.marker - 1 ELSE 0) \in 0..MarkerLife
    BY DEF Credentials
  <2> QED BY <2>1 DEF Older, Credentials
<1>5. ASSUME NEW c \in Credentials, NEW m \in 0..MarkerLife
      PROVE  /\ [c EXCEPT !.marker = m] \in Credentials
             /\ [c EXCEPT !.marker = m].accepted = c.accepted
             /\ [c EXCEPT !.marker = m].marker = m
  BY DEF Credentials
<1> QED BY <1>1, <1>2, <1>3, <1>4, <1>5

(* The records a thread takes on.                                           *)
LEMMA ThreadTyped ==
  ASSUME NEW r \in Thread
  PROVE  /\ r.creds \in Credentials /\ r.budget \in 0..CallTime
         /\ \A c \in Credentials, b \in 0..CallTime, a \in {"none", "ok", "error", "invalid"},
              pc \in {"idle", "mark", "wait", "ask", "write"} :
              [pc |-> pc, creds |-> c, answer |-> a, budget |-> b] \in Thread
BY DEF Thread

(* A thread of a kind belongs to a process.                                  *)
LEMMA ThreadKinds ==
  /\ \A p \in TokenProcs : <<p, "maintain">> \in Threads /\ <<p, "call">> \in Threads
  /\ \A t \in Threads : t[1] \in TokenProcs /\ t[2] \in Kinds /\ t = <<t[1], t[2]>>
BY DEF Threads, Kinds
-----------------------------------------------------------------------------
(* Steps of the thread of one process.                                      *)
LEMMA ProcessStepTyped ==
  ASSUME TokenTypeOK, NEW p \in TokenProcs, ProcessStep(p)
  PROVE  TokenTypeOK'
<1> USE TokenAssumption DEF TokenTypeOK
<1>t. <<p, "maintain">> \in Threads /\ <<p, "call">> \in Threads
      /\ thread[<<p, "maintain">>] \in Thread /\ thread[<<p, "call">>] \in Thread
  BY ThreadKinds
<1>m. 0 \in 0..MarkerLife /\ MarkerLife \in 0..MarkerLife  OBVIOUS
<1>1. CASE Maintain(p)
  <2> DEFINE row == [Idle EXCEPT !.pc = "mark", !.creds = [creds EXCEPT !.marker = MarkerLife]]
  <2>m. [creds EXCEPT !.marker = MarkerLife] \in Credentials
    BY <1>m, CredentialsTyped
  <2>1. row \in Thread  BY <2>m, CredentialsTyped DEF Thread, Idle
  <2>2. thread' = [thread EXCEPT ![<<p, "maintain">>] = row]  BY <1>1 DEF Maintain
  <2> HIDE DEF row
  <2>3. thread' \in [Threads -> Thread]  BY <2>1, <2>2, <1>t
  <2>4. raced' \in BOOLEAN  BY <1>1 DEF Maintain
  <2> QED BY <1>1, <2>3, <2>4 DEF Maintain, Kinds
<1>2. CASE Mark(p)
  <2>1. thread[<<p, "maintain">>].creds \in Credentials  BY <1>t, ThreadTyped
  <2> DEFINE t == <<p, "maintain">>
             row == [thread[t] EXCEPT !.pc = "ask", !.budget = CallTime]
  <2>0. CallTime \in 0..CallTime
    <3>1. CallTime \in Nat  OBVIOUS
    <3> QED BY <3>1
  <2>2. row \in Thread  BY <2>0, <1>t DEF Thread
  <2>3. thread' = [thread EXCEPT ![t] = row]  BY <1>2 DEF Mark
  <2> HIDE DEF row
  <2>4. thread' \in [Threads -> Thread]  BY <2>2, <2>3, <1>t
  <2> QED BY <1>2, <2>1, <2>4 DEF Mark
<1>3. CASE Call(p)
  <2> DEFINE row == [Idle EXCEPT !.pc = "wait", !.creds = creds]
  <2>1. row \in Thread  BY CredentialsTyped DEF Thread, Idle
  <2>2. thread' = [thread EXCEPT ![<<p, "call">>] = row]  BY <1>3 DEF Call
  <2> HIDE DEF row
  <2>3. thread' \in [Threads -> Thread]  BY <2>1, <2>2, <1>t
  <2> QED BY <1>3, <2>3 DEF Call
<1>4. CASE CallLocked(p)
  <2>1. thread' \in [Threads -> Thread]  BY <1>4, <1>t DEF CallLocked, Thread
  <2>2. raced' \in BOOLEAN  BY <1>4 DEF CallLocked
  <2> QED BY <1>4, <2>1, <2>2 DEF CallLocked, Kinds
<1>5. CASE Reread(p)
  <2>1. [creds EXCEPT !.marker = 0] \in Credentials  BY <1>m, CredentialsTyped
  <2>2. thread' \in [Threads -> Thread]  BY <1>5, <1>t, <2>1 DEF Reread, Thread
  <2> QED BY <1>5, <2>2 DEF Reread
<1>6. CASE ChangeLeader(p)  BY <1>6 DEF ChangeLeader
<1>7. CASE Die(p)
  <2>1. thread' \in [Threads -> Thread]  BY <1>7, CredentialsTyped DEF Die
  <2>2. lost' \in BOOLEAN  BY <1>7 DEF Die
  <2>3. deaths' \in 0..MaxDeaths  BY <1>7 DEF Die
  <2> QED BY <1>7, <2>1, <2>2, <2>3 DEF Die
<1> QED BY <1>1, <1>2, <1>3, <1>4, <1>5, <1>6, <1>7 DEF ProcessStep

(* A token that the marketplace takes rotates in every copy.                *)
LEMMA RotateTyped ==
  ASSUME TokenTypeOK, NEW t \in Threads, NEW row \in Thread, Rotate(t, row)
  PROVE  /\ thread[t].creds.accepted
         /\ creds' \in Credentials /\ ~creds'.accepted /\ creds'.marker = creds.marker
         /\ thread' \in [Threads -> Thread] /\ thread'[t] = row
         /\ \A u \in Threads \ {t} :
              /\ thread'[u] = [thread[u] EXCEPT !.creds = Used(thread[u].creds)]
              /\ ~thread'[u].creds.accepted
<1> USE DEF TokenTypeOK
<1>1. creds' \in Credentials /\ ~creds'.accepted /\ creds'.marker = creds.marker
  BY CredentialsTyped DEF Rotate
<1>2. ASSUME NEW u \in Threads
      PROVE  /\ [thread[u] EXCEPT !.creds = Used(thread[u].creds)] \in Thread
             /\ ~[thread[u] EXCEPT !.creds = Used(thread[u].creds)].creds.accepted
  <2>1. thread[u] \in Thread /\ thread[u].creds \in Credentials  BY ThreadTyped
  <2>2. Used(thread[u].creds) \in Credentials /\ ~Used(thread[u].creds).accepted
    BY <2>1, CredentialsTyped
  <2> QED BY <2>1, <2>2 DEF Thread
<1>3. thread' = [u \in Threads |-> IF u = t THEN row
                    ELSE [thread[u] EXCEPT !.creds = Used(thread[u].creds)]]
  BY DEF Rotate
<1>4. thread' \in [Threads -> Thread]  BY <1>2, <1>3
<1>5. thread'[t] = row  BY <1>3
<1>6. ASSUME NEW u \in Threads \ {t}
      PROVE  /\ thread'[u] = [thread[u] EXCEPT !.creds = Used(thread[u].creds)]
             /\ ~thread'[u].creds.accepted
  <2>1. thread'[u] = [thread[u] EXCEPT !.creds = Used(thread[u].creds)]  BY <1>3
  <2> QED BY <1>2, <2>1
<1>7. thread[t].creds.accepted  BY DEF Rotate
<1> QED BY <1>1, <1>4, <1>5, <1>6, <1>7

(* The records with which a request ends.                                   *)
OkRow(t) == [thread[t] EXCEPT !.pc = "write", !.answer = "ok", !.creds.left = Lifetime]
LostRow(t) == [thread[t] EXCEPT !.pc = "write", !.answer = "error",
                                !.creds = Used(thread[t].creds)]

LEMMA RowsTyped ==
  ASSUME TokenTypeOK, NEW t \in Threads
  PROVE  /\ OkRow(t) \in Thread /\ OkRow(t).pc = "write" /\ OkRow(t).answer = "ok"
         /\ OkRow(t).creds.accepted = thread[t].creds.accepted
         /\ LostRow(t) \in Thread /\ LostRow(t).pc = "write" /\ LostRow(t).answer = "error"
         /\ ~LostRow(t).creds.accepted
<1> USE TokenAssumption DEF TokenTypeOK
<1>1. thread[t] \in Thread /\ thread[t].creds \in Credentials  BY ThreadTyped
<1>2. Used(thread[t].creds) \in Credentials /\ ~Used(thread[t].creds).accepted
  BY <1>1, CredentialsTyped
<1>3. [thread[t].creds EXCEPT !.left = Lifetime] \in Credentials
      /\ [thread[t].creds EXCEPT !.left = Lifetime].accepted = thread[t].creds.accepted
  BY <1>1 DEF Credentials
<1>4. OkRow(t) \in Thread /\ OkRow(t).pc = "write" /\ OkRow(t).answer = "ok"
      /\ OkRow(t).creds = [thread[t].creds EXCEPT !.left = Lifetime]
  BY <1>1, <1>3 DEF OkRow, Thread
<1>5. LostRow(t) \in Thread /\ LostRow(t).pc = "write" /\ LostRow(t).answer = "error"
      /\ LostRow(t).creds = Used(thread[t].creds)
  BY <1>1, <1>2 DEF LostRow, Thread
<1> QED BY <1>2, <1>3, <1>4, <1>5

(* How a request ends: it is answered with new tokens, or refused, or nobody   *)
(* heard of it, or its answer is lost.                                      *)
LEMMA RequestEnds ==
  ASSUME TokenTypeOK, NEW t \in Threads, Answered(t) \/ Unanswered(t)
  PROVE  /\ thread[t].pc = "ask"
         /\ UNCHANGED <<deaths, leading, status, held, raced>>
         /\ \/ Rotate(t, OkRow(t)) /\ lost' = lost
            \/ Rotate(t, LostRow(t)) /\ lost'
            \/ /\ ~thread[t].creds.accepted
               /\ thread' = [thread EXCEPT ![t].pc = "write", ![t].answer = "invalid"]
               /\ UNCHANGED <<creds, lost>>
            \/ /\ thread' = [thread EXCEPT ![t].pc = "write", ![t].answer = "error"]
               /\ UNCHANGED <<creds, lost>>
<1>1. CASE Answered(t)
  <2>1. thread[t].pc = "ask" /\ UNCHANGED <<deaths, leading, status, held, lost, raced>>
    BY <1>1 DEF Answered
  <2>2. \/ Rotate(t, OkRow(t))
        \/ /\ ~thread[t].creds.accepted
           /\ thread' = [thread EXCEPT ![t].pc = "write", ![t].answer = "invalid"]
           /\ UNCHANGED creds
    BY <1>1 DEF Answered, OkRow
  <2> QED BY <2>1, <2>2
<1>2. CASE Unanswered(t)
  <2>1. thread[t].pc = "ask" /\ UNCHANGED <<deaths, leading, status, held, raced>>
    BY <1>2 DEF Unanswered
  <2>2. \/ Rotate(t, LostRow(t)) /\ lost'
        \/ /\ thread' = [thread EXCEPT ![t].pc = "write", ![t].answer = "error"]
           /\ UNCHANGED <<creds, lost>>
    BY <1>2 DEF Unanswered, LostRow
  <2> QED BY <2>1, <2>2
<1> QED BY <1>1, <1>2

(* Steps of a thread, and the passing of time.                              *)
LEMMA ThreadStepTyped ==
  ASSUME TokenTypeOK, NEW t \in Threads, ThreadStep(t)
  PROVE  TokenTypeOK'
<1> USE DEF TokenTypeOK
<1>t. /\ thread[t] \in Thread /\ thread[t].creds \in Credentials
      /\ t[1] \in TokenProcs /\ NoOne \in Kinds \cup {NoOne}
  BY ThreadTyped, ThreadKinds
<1>m. 0 \in 0..MarkerLife /\ Idle \in Thread  BY TokenAssumption, CredentialsTyped
<1>1. CASE Answered(t) \/ Unanswered(t)
  <2>1. UNCHANGED <<deaths, leading, status, held, raced>>  BY <1>1, RequestEnds
  <2>2. lost' \in BOOLEAN /\ creds' \in Credentials /\ thread' \in [Threads -> Thread]
    <3>1. CASE Rotate(t, OkRow(t)) /\ lost' = lost  BY <3>1, RowsTyped, RotateTyped
    <3>2. CASE Rotate(t, LostRow(t)) /\ lost'
      <4>1. creds' \in Credentials /\ thread' \in [Threads -> Thread]
        BY <3>2, RowsTyped, RotateTyped
      <4>2. lost' \in BOOLEAN
        BY <1>1, <3>2 DEF Answered, Unanswered
      <4> QED BY <4>1, <4>2
    <3>3. CASE /\ thread' = [thread EXCEPT ![t].pc = "write", ![t].answer = "invalid"]
               /\ UNCHANGED <<creds, lost>>
      BY <3>3, <1>t DEF Thread
    <3>4. CASE /\ thread' = [thread EXCEPT ![t].pc = "write", ![t].answer = "error"]
               /\ UNCHANGED <<creds, lost>>
      BY <3>4, <1>t DEF Thread
    <3> QED BY <1>1, RequestEnds, <3>1, <3>2, <3>3, <3>4
  <2> QED BY <2>1, <2>2
<1>2. CASE Store(t)
  <2>1. creds' \in Credentials  BY <1>2, <1>t, <1>m, CredentialsTyped DEF Store
  <2>2. thread' \in [Threads -> Thread] /\ held' \in [TokenProcs -> Kinds \cup {NoOne}]
    BY <1>2, <1>t, <1>m DEF Store, Release
  <2> QED BY <1>2, <2>1, <2>2 DEF Store
<1>3. CASE RecordFailure(t)
  <2>1. creds' \in Credentials  BY <1>3, <1>t DEF RecordFailure
  <2>2. thread' \in [Threads -> Thread] /\ held' \in [TokenProcs -> Kinds \cup {NoOne}]
    BY <1>3, <1>t, <1>m DEF RecordFailure, Release
  <2> QED BY <1>3, <2>1, <2>2 DEF RecordFailure
<1>4. CASE StoreFails(t)
  <2>1. lost' \in BOOLEAN  BY <1>4 DEF StoreFails
  <2>2. CASE Release(t)
    <3>1. thread' \in [Threads -> Thread] /\ held' \in [TokenProcs -> Kinds \cup {NoOne}]
      BY <2>2, <1>t, <1>m DEF Release
    <3> QED BY <1>4, <2>1, <3>1 DEF StoreFails
  <2>3. CASE /\ thread' = [thread EXCEPT ![t].answer = "error", ![t].creds = creds]
             /\ UNCHANGED held
    <3>1. thread' \in [Threads -> Thread]  BY <2>3, <1>t DEF Thread
    <3> QED BY <1>4, <2>1, <2>3, <3>1 DEF StoreFails
  <2> QED BY <1>4, <2>2, <2>3 DEF StoreFails
<1> QED BY <1>1, <1>2, <1>3, <1>4 DEF ThreadStep

(* What a tick makes of a thread.                                           *)
LEMMA AdvanceRows ==
  ASSUME TokenTypeOK, Advance, NEW t \in Threads
  PROVE  /\ thread'[t] \in Thread
         /\ thread[t].pc = "idle" => thread'[t] = Idle
         /\ thread[t].pc # "idle" =>
              /\ thread'[t].pc = thread[t].pc /\ thread'[t].answer = thread[t].answer
              /\ thread'[t].creds = Older(thread[t].creds)
              /\ thread'[t].budget =
                   IF thread[t].budget > 0 THEN thread[t].budget - 1 ELSE 0
<1> USE TokenAssumption DEF TokenTypeOK
<1>1. thread[t] \in Thread /\ thread[t].creds \in Credentials
      /\ thread[t].budget \in 0..CallTime
  BY ThreadTyped
<1>2. Older(thread[t].creds) \in Credentials /\ Idle \in Thread  BY <1>1, CredentialsTyped
<1> DEFINE spent == IF thread[t].budget > 0 THEN thread[t].budget - 1 ELSE 0
<1>3. spent \in 0..CallTime  BY <1>1
<1>4. thread'[t] = IF thread[t].pc = "idle" THEN Idle
                   ELSE [thread[t] EXCEPT !.creds = Older(thread[t].creds),
                                          !.budget = spent]
  BY DEF Advance
<1> HIDE DEF spent
<1>5. [thread[t] EXCEPT !.creds = Older(thread[t].creds), !.budget = spent] \in Thread
  BY <1>1, <1>2, <1>3 DEF Thread
<1>6. thread'[t] \in Thread  BY <1>2, <1>4, <1>5
<1>7. thread[t].pc = "idle" => thread'[t] = Idle  BY <1>4
<1>8. thread[t].pc # "idle" =>
        /\ thread'[t].pc = thread[t].pc /\ thread'[t].answer = thread[t].answer
        /\ thread'[t].creds = Older(thread[t].creds) /\ thread'[t].budget = spent
  BY <1>1, <1>4 DEF Thread
<1> QED BY <1>6, <1>7, <1>8 DEF spent

(* The variables of the tokens keep their types.                            *)
LEMMA TokenTypeStep ==
  ASSUME TokenTypeOK, [TokenNext]_tokenVars
  PROVE  TokenTypeOK'
<1>1. ASSUME NEW p \in TokenProcs, ProcessStep(p) PROVE TokenTypeOK'
  BY <1>1, ProcessStepTyped
<1>2. ASSUME NEW t \in Threads, ThreadStep(t) PROVE TokenTypeOK'
  BY <1>2, ThreadStepTyped
<1>3. CASE Advance
  <2>1. creds' \in Credentials  BY <1>3, CredentialsTyped DEF Advance, TokenTypeOK
  <2>2. \A t \in Threads : thread'[t] \in Thread  BY <1>3, AdvanceRows
  <2>3. thread' = [t \in Threads |-> thread'[t]]  BY <1>3 DEF Advance
  <2>4. thread' \in [Threads -> Thread]  BY <2>2, <2>3
  <2> QED BY <1>3, <2>1, <2>4 DEF Advance, TokenTypeOK
<1>4. CASE UNCHANGED tokenVars  BY <1>4 DEF tokenVars, TokenTypeOK
<1> QED BY <1>1, <1>2, <1>3, <1>4 DEF TokenNext

LEMMA TokenInitTyped == TokenInit => TokenTypeOK
<1> SUFFICES ASSUME TokenInit PROVE TokenTypeOK
  OBVIOUS
<1>1. [accepted |-> TRUE, left |-> Lifetime, marker |-> 0] \in Credentials
  BY TokenAssumption DEF Credentials
<1>2. creds \in Credentials  BY <1>1 DEF TokenInit
<1>3. thread \in [Threads -> Thread]  BY CredentialsTyped DEF TokenInit
<1>4. held \in [TokenProcs -> Kinds \cup {NoOne}]  BY DEF TokenInit
<1>5. deaths \in 0..MaxDeaths  BY TokenAssumption DEF TokenInit
<1> QED BY <1>2, <1>3, <1>4, <1>5 DEF TokenInit, TokenTypeOK

THEOREM TokenTypeCorrect == TokenSpec => []TokenTypeOK
BY TokenInitTyped, TokenTypeStep, PTL DEF TokenSpec
-----------------------------------------------------------------------------
(* Why no refresh of a maintenance loses the token.  What a thread knows:     *)
(* an answer arrived only when it writes, only the leader marks, and only a   *)
(* process with business calls has a thread of that kind.                   *)
ThreadShape(t) ==
  /\ thread[t].answer = "ok" => thread[t].pc = "write"
  /\ thread[t].pc = "mark" => /\ t[2] = "maintain" /\ leading = t[1]
                              /\ thread[t].creds.marker = MarkerLife
  /\ t[2] = "call" /\ thread[t].pc # "idle" => t[1] \in Callers

OneRefreshes == \A t, u \in Threads : Refreshing(t) /\ Refreshing(u) => t = u

(* The marker lasts longer than the request it protects.                    *)
MarkerOutlasts(t) ==
  t[2] = "maintain" =>
    /\ thread[t].pc = "ask" => creds.marker > thread[t].budget
    /\ thread[t].pc = "write" => creds.marker > 0

(* Until its answer arrives the refreshing thread works with the token that is *)
(* stored; a token is refused only when its successor died with its answer.    *)
CopyIsCurrent(t) ==
  /\ \/ thread[t].pc \in {"mark", "ask"}
     \/ thread[t].pc = "write" /\ thread[t].answer # "ok"
     => thread[t].creds.accepted = creds.accepted
  /\ thread[t].answer = "ok" => thread[t].creds.accepted
  /\ thread[t].pc = "write" /\ thread[t].answer = "invalid" => lost

(* A thread that refreshes is alone, and the token is kept.                  *)
RefreshedAlone ==
  /\ OneRefreshes
  /\ \A t \in Threads : MarkerOutlasts(t) /\ CopyIsCurrent(t)
  /\ LockKeepsToken /\ (status = "failed" => lost)

RotationInv ==
  /\ TokenTypeOK /\ \A t \in Threads : ThreadShape(t)
  /\ raced \/ RefreshedAlone

LEMMA RotationInit == TokenInit => RotationInv
<1> SUFFICES ASSUME TokenInit PROVE RotationInv
  OBVIOUS
<1>1. TokenTypeOK  BY TokenInitTyped
<1>2. \A t \in Threads : thread[t].pc = "idle" /\ thread[t].answer = "none"
  BY DEF TokenInit, Idle
<1>3. \A t \in Threads : ThreadShape(t) /\ ~Refreshing(t)
  BY <1>2 DEF ThreadShape, Refreshing
<1>4. \A t \in Threads : MarkerOutlasts(t) /\ CopyIsCurrent(t)
  BY <1>2 DEF MarkerOutlasts, CopyIsCurrent
<1>5. LockKeepsToken /\ (status = "failed" => lost)
  BY DEF TokenInit, LockKeepsToken
<1> QED BY <1>1, <1>3, <1>4, <1>5 DEF RotationInv, RefreshedAlone, OneRefreshes

(* A maintenance starts: no other one can be under way, for it would have      *)
(* marked the row, or be about to and so run in the leader.                  *)
LEMMA MaintainKeeps ==
  ASSUME RotationInv, TokenTypeOK', NEW p \in TokenProcs, Maintain(p)
  PROVE  RotationInv'
<1> USE DEF RotationInv
<1> DEFINE t == <<p, "maintain">>
<1>t. t \in Threads  BY ThreadKinds
<1>1. /\ thread'[t].pc = "mark" /\ thread'[t].answer = "none"
      /\ thread'[t].creds.accepted = creds.accepted
      /\ thread'[t].creds.marker = MarkerLife
      /\ \A u \in Threads \ {t} : thread'[u] = thread[u]
  <2>1. MarkerLife \in 0..MarkerLife  BY TokenAssumption
  <2>2. /\ [creds EXCEPT !.marker = MarkerLife].accepted = creds.accepted
        /\ [creds EXCEPT !.marker = MarkerLife].marker = MarkerLife
    BY <2>1, CredentialsTyped DEF TokenTypeOK
  <2> DEFINE row == [Idle EXCEPT !.pc = "mark",
                                 !.creds = [creds EXCEPT !.marker = MarkerLife]]
  <2>3. thread' = [thread EXCEPT ![t] = row]  BY DEF Maintain
  <2>4. /\ row.pc = "mark" /\ row.answer = "none"
        /\ row.creds = [creds EXCEPT !.marker = MarkerLife]
    BY DEF Idle
  <2> HIDE DEF row
  <2> QED BY <2>2, <2>3, <2>4, <1>t DEF TokenTypeOK
<1>2. /\ leading = p /\ thread[t].pc = "idle" /\ ~Marked(creds)
      /\ raced' = (raced \/ \E q \in Callers : Refreshing(<<q, "call">>))
      /\ UNCHANGED <<deaths, leading, creds, status, lost>>
  BY DEF Maintain
<1> HIDE DEF t
<1>3. \A u \in Threads : ThreadShape(u)'
  <2>1. ThreadShape(t)'  BY <1>1, <1>2 DEF ThreadShape, t
  <2>2. \A u \in Threads \ {t} : ThreadShape(u)'  BY <1>1, <1>2 DEF ThreadShape
  <2> QED BY <2>1, <2>2
<1>4. ASSUME ~raced'  PROVE RefreshedAlone'
  <2>1. ~raced /\ \A q \in Callers : ~Refreshing(<<q, "call">>)  BY <1>2, <1>4
  <2>2. RefreshedAlone  BY <2>1
  <2>3. ASSUME NEW u \in Threads \ {t} PROVE ~Refreshing(u)
    <3>1. ThreadShape(u) /\ MarkerOutlasts(u) /\ thread[u] \in Thread
          /\ thread[u].budget \in 0..CallTime
      BY <2>2, ThreadTyped DEF RefreshedAlone, TokenTypeOK
    <3>2. CASE u[2] = "call"
      <4>1. u = <<u[1], "call">>  BY <3>2, ThreadKinds
      <4>2. Refreshing(u) => u[1] \in Callers  BY <3>1, <3>2 DEF ThreadShape, Refreshing
      <4> QED BY <4>1, <4>2, <2>1
    <3>3. CASE u[2] = "maintain"
      <4>1. u = <<u[1], "maintain">>  BY <3>3, ThreadKinds
      <4>2. thread[u].pc # "mark"  BY <4>1, <3>1, <1>2 DEF ThreadShape, t
      <4>3. ~(creds.marker > 0)  BY <1>2 DEF Marked
      <4>4. thread[u].pc # "ask" /\ thread[u].pc # "write"
        BY <3>1, <3>3, <4>3, TokenAssumption DEF MarkerOutlasts, TokenTypeOK, Credentials
      <4> QED BY <4>2, <4>4 DEF Refreshing
    <3> QED BY <3>2, <3>3, ThreadKinds DEF Kinds
  <2>4. OneRefreshes'  BY <2>3, <1>1 DEF OneRefreshes, Refreshing
  <2>5. \A u \in Threads : (MarkerOutlasts(u) /\ CopyIsCurrent(u))'
    BY <2>2, <1>1, <1>2 DEF RefreshedAlone, MarkerOutlasts, CopyIsCurrent
  <2>6. LockKeepsToken'
    <3>1. thread[t].answer # "ok"  BY <1>2, <1>t DEF ThreadShape
    <3> QED BY <3>1, <2>2, <1>1, <1>2 DEF RefreshedAlone, LockKeepsToken
  <2> QED BY <2>2, <2>4, <2>5, <2>6, <1>2 DEF RefreshedAlone
<1> QED BY <1>3, <1>4

(* It marks the row for longer than its request can take.                   *)
LEMMA MarkKeeps ==
  ASSUME RotationInv, TokenTypeOK', NEW p \in TokenProcs, Mark(p)
  PROVE  RotationInv'
<1> USE DEF RotationInv
<1> DEFINE t == <<p, "maintain">>
<1>t. t \in Threads  BY ThreadKinds
<1>1. /\ thread[t].pc = "mark" /\ thread[t] \in Thread
      /\ creds' = thread[t].creds
      /\ UNCHANGED <<deaths, leading, status, held, lost, raced>>
  BY <1>t DEF Mark, TokenTypeOK
<1>2. /\ thread'[t].pc = "ask" /\ thread'[t].budget = CallTime
      /\ thread'[t].creds = thread[t].creds /\ thread'[t].answer = thread[t].answer
      /\ \A u \in Threads \ {t} : thread'[u] = thread[u]
  BY <1>t, <1>1 DEF Mark, TokenTypeOK, Thread
<1>3. ThreadShape(t) /\ thread[t].answer # "ok"  BY <1>t, <1>1 DEF ThreadShape
<1>4. \A u \in Threads : ThreadShape(u)'
  <2>1. ThreadShape(t)'  BY <1>1, <1>2, <1>3 DEF ThreadShape, t
  <2>2. \A u \in Threads \ {t} : ThreadShape(u)'  BY <1>1, <1>2 DEF ThreadShape
  <2> QED BY <2>1, <2>2
<1>5. creds'.marker = MarkerLife  BY <1>1, <1>3 DEF ThreadShape
<1> HIDE DEF t
<1>6. ASSUME ~raced'  PROVE RefreshedAlone'
  <2>1. RefreshedAlone  BY <1>1, <1>6
  <2>2. OneRefreshes'
    BY <2>1, <1>1, <1>2, <1>t DEF RefreshedAlone, OneRefreshes, Refreshing
  <2>3. creds'.accepted = creds.accepted
    BY <2>1, <1>1, <1>t DEF RefreshedAlone, CopyIsCurrent
  <2>4. (MarkerOutlasts(t) /\ CopyIsCurrent(t))'
    BY <1>1, <1>2, <1>3, <1>5, TokenAssumption DEF MarkerOutlasts, CopyIsCurrent
  <2>5. ASSUME NEW u \in Threads \ {t} PROVE (MarkerOutlasts(u) /\ CopyIsCurrent(u))'
    <3>1. ~Refreshing(u)
      BY <2>1, <2>5, <1>1, <1>t DEF RefreshedAlone, OneRefreshes, Refreshing
    <3>2. CopyIsCurrent(u)  BY <2>1 DEF RefreshedAlone
    <3> QED BY <3>1, <3>2, <1>1, <1>2 DEF Refreshing, MarkerOutlasts, CopyIsCurrent
  <2>6. LockKeepsToken'
    BY <2>1, <2>3, <1>1, <1>2, <1>3 DEF RefreshedAlone, LockKeepsToken
  <2> QED BY <2>1, <2>2, <2>4, <2>5, <2>6, <1>1 DEF RefreshedAlone
<1> QED BY <1>4, <1>6, <1>1

(* A business call reads the row.                                           *)
LEMMA CallKeeps ==
  ASSUME RotationInv, TokenTypeOK', NEW p \in TokenProcs, Call(p)
  PROVE  RotationInv'
<1> USE DEF RotationInv
<1> DEFINE t == <<p, "call">>
<1>t. t \in Threads  BY ThreadKinds
<1>1. /\ thread[t].pc = "idle" /\ p \in Callers
      /\ UNCHANGED <<deaths, leading, creds, status, held, lost, raced>>
  BY DEF Call
<1>2. /\ thread'[t].pc = "wait" /\ thread'[t].answer = "none"
      /\ \A u \in Threads \ {t} : thread'[u] = thread[u]
  <2> DEFINE row == [Idle EXCEPT !.pc = "wait", !.creds = creds]
  <2>1. thread' = [thread EXCEPT ![t] = row]  BY DEF Call
  <2>2. row.pc = "wait" /\ row.answer = "none"  BY DEF Idle
  <2> HIDE DEF row
  <2> QED BY <2>1, <2>2, <1>t DEF TokenTypeOK
<1>3. thread[t].answer # "ok"  BY <1>t, <1>1 DEF ThreadShape
<1>4. \A u \in Threads : ThreadShape(u)'
  <2>1. ThreadShape(t)'  BY <1>1, <1>2 DEF ThreadShape, t
  <2>2. \A u \in Threads \ {t} : ThreadShape(u)'  BY <1>1, <1>2 DEF ThreadShape
  <2> QED BY <2>1, <2>2
<1> HIDE DEF t
<1>5. ASSUME ~raced'  PROVE RefreshedAlone'
  <2>1. RefreshedAlone  BY <1>1, <1>5
  <2>2. OneRefreshes'  BY <2>1, <1>2 DEF RefreshedAlone, OneRefreshes, Refreshing
  <2>3. \A u \in Threads : (MarkerOutlasts(u) /\ CopyIsCurrent(u))'
    BY <2>1, <1>1, <1>2 DEF RefreshedAlone, MarkerOutlasts, CopyIsCurrent
  <2>4. LockKeepsToken'
    BY <2>1, <1>1, <1>2, <1>3 DEF RefreshedAlone, LockKeepsToken
  <2> QED BY <2>1, <2>2, <2>3, <2>4, <1>1 DEF RefreshedAlone
<1> QED BY <1>4, <1>5, <1>1

(* Its turn comes: with what it read before, and beside whoever refreshes.    *)
LEMMA CallLockedKeeps ==
  ASSUME RotationInv, TokenTypeOK', NEW p \in TokenProcs, CallLocked(p)
  PROVE  RotationInv'
<1> USE DEF RotationInv
<1> DEFINE t == <<p, "call">>
<1>t. t \in Threads  BY ThreadKinds
<1>1. /\ thread[t].pc = "wait" /\ thread[t] \in Thread
      /\ raced' = (raced \/ thread[t].creds.accepted # creds.accepted
                         \/ \E u \in Threads : Refreshing(u))
      /\ UNCHANGED <<deaths, leading, creds, status, lost>>
  BY <1>t DEF CallLocked, TokenTypeOK
<1>2. /\ thread'[t].pc = "ask" /\ thread'[t].answer = thread[t].answer
      /\ thread'[t].creds = thread[t].creds
      /\ \A u \in Threads \ {t} : thread'[u] = thread[u]
  BY <1>t, <1>1 DEF CallLocked, TokenTypeOK, Thread
<1>3. ThreadShape(t) /\ thread[t].answer # "ok"  BY <1>t, <1>1 DEF ThreadShape
<1>4. \A u \in Threads : ThreadShape(u)'
  <2>1. ThreadShape(t)'  BY <1>1, <1>2, <1>3 DEF ThreadShape, t
  <2>2. \A u \in Threads \ {t} : ThreadShape(u)'  BY <1>1, <1>2 DEF ThreadShape
  <2> QED BY <2>1, <2>2
<1>5. t[2] # "maintain"  OBVIOUS
<1> HIDE DEF t
<1>6. ASSUME ~raced'  PROVE RefreshedAlone'
  <2>1. RefreshedAlone /\ thread[t].creds.accepted = creds.accepted
        /\ \A u \in Threads : ~Refreshing(u)
    <3>1. ~(raced \/ thread[t].creds.accepted # creds.accepted
                  \/ \E u \in Threads : Refreshing(u))
      BY <1>1, <1>6
    <3> QED BY <3>1
  <2>2. OneRefreshes'  BY <2>1, <1>2 DEF OneRefreshes, Refreshing
  <2>3. (MarkerOutlasts(t) /\ CopyIsCurrent(t))'
    BY <2>1, <1>1, <1>2, <1>3, <1>5 DEF MarkerOutlasts, CopyIsCurrent
  <2>4. \A u \in Threads \ {t} : (MarkerOutlasts(u) /\ CopyIsCurrent(u))'
    BY <2>1, <1>1, <1>2 DEF RefreshedAlone, MarkerOutlasts, CopyIsCurrent
  <2>5. LockKeepsToken'
    BY <2>1, <1>1, <1>2, <1>3 DEF RefreshedAlone, LockKeepsToken
  <2> QED BY <2>1, <2>2, <2>3, <2>4, <2>5, <1>1 DEF RefreshedAlone
<1> QED BY <1>4, <1>6

(* After a failure the maintenance reads the row again.                     *)
LEMMA RereadKeeps ==
  ASSUME RotationInv, TokenTypeOK', NEW p \in TokenProcs, Reread(p)
  PROVE  RotationInv'
<1> USE DEF RotationInv
<1> DEFINE t == <<p, "maintain">>
<1>t. t \in Threads  BY ThreadKinds
<1>1. /\ thread[t].pc = "write" /\ thread[t].answer \in {"error", "invalid"}
      /\ thread[t] \in Thread
      /\ UNCHANGED <<deaths, leading, creds, status, held, lost, raced>>
  BY <1>t DEF Reread, Failed, TokenTypeOK
<1>2. /\ thread'[t].pc = "write" /\ thread'[t].answer = thread[t].answer
      /\ thread'[t].creds.accepted = creds.accepted
      /\ \A u \in Threads \ {t} : thread'[u] = thread[u]
  <2>1. 0 \in 0..MarkerLife  BY TokenAssumption
  <2>2. [creds EXCEPT !.marker = 0].accepted = creds.accepted
    BY <2>1, CredentialsTyped DEF TokenTypeOK
  <2>3. thread' = [thread EXCEPT ![t].creds = [creds EXCEPT !.marker = 0]]
    BY DEF Reread
  <2>4. thread'[t].creds = [creds EXCEPT !.marker = 0]
    BY <2>3, <1>1, <1>t DEF TokenTypeOK, Thread
  <2> QED BY <2>2, <2>3, <2>4, <1>1, <1>t DEF TokenTypeOK, Thread
<1>3. \A u \in Threads : ThreadShape(u)'
  <2>1. ThreadShape(t)'  BY <1>1, <1>2 DEF ThreadShape, t
  <2>2. \A u \in Threads \ {t} : ThreadShape(u)'  BY <1>1, <1>2 DEF ThreadShape
  <2> QED BY <2>1, <2>2
<1> HIDE DEF t
<1>4. ASSUME ~raced'  PROVE RefreshedAlone'
  <2>1. RefreshedAlone  BY <1>1, <1>4
  <2>2. OneRefreshes'
    BY <2>1, <1>1, <1>2, <1>t DEF RefreshedAlone, OneRefreshes, Refreshing
  <2>3. \A u \in Threads : (MarkerOutlasts(u) /\ CopyIsCurrent(u))'
    BY <2>1, <1>1, <1>2, <1>t DEF RefreshedAlone, MarkerOutlasts, CopyIsCurrent
  <2>4. LockKeepsToken'
    BY <2>1, <1>1, <1>2 DEF RefreshedAlone, LockKeepsToken
  <2> QED BY <2>1, <2>2, <2>3, <2>4, <1>1 DEF RefreshedAlone
<1> QED BY <1>3, <1>4, <1>1

(* Another leader finds no maintenance that is about to mark the row.        *)
LEMMA ChangeLeaderKeeps ==
  ASSUME RotationInv, TokenTypeOK', NEW p \in TokenProcs, ChangeLeader(p)
  PROVE  RotationInv'
<1> USE DEF RotationInv
<1>1. UNCHANGED <<deaths, creds, status, held, thread, lost, raced>>
  BY DEF ChangeLeader
<1>2. ASSUME NEW u \in Threads PROVE ThreadShape(u)'
  <2>1. CASE u[2] = "maintain"
    <3>1. thread[u].pc # "mark"  BY <2>1, ThreadKinds DEF ChangeLeader
    <3> QED BY <1>1, <3>1 DEF ThreadShape
  <2>2. CASE u[2] = "call"  BY <1>1, <2>2 DEF ThreadShape
  <2> QED BY <2>1, <2>2, ThreadKinds DEF Kinds
<1>3. RefreshedAlone => RefreshedAlone'
  BY <1>1 DEF RefreshedAlone, OneRefreshes, Refreshing, MarkerOutlasts, CopyIsCurrent,
              LockKeepsToken
<1> QED BY <1>1, <1>2, <1>3

(* A crash loses at most the token that its process had just received.        *)
LEMMA DieKeeps ==
  ASSUME RotationInv, TokenTypeOK', NEW p \in TokenProcs, Die(p)
  PROVE  RotationInv'
<1> USE DEF RotationInv
<1>1. /\ \A u \in Threads : thread'[u] = IF u[1] = p THEN Idle ELSE thread[u]
      /\ lost' = (lost \/ \E u \in Threads : u[1] = p /\ thread[u].answer = "ok")
      /\ UNCHANGED <<leading, creds, status, raced>>
  BY DEF Die
<1>2. Idle.pc = "idle" /\ Idle.answer = "none"  BY DEF Idle
<1>3. \A u \in Threads : ThreadShape(u)'  BY <1>1, <1>2 DEF ThreadShape
<1>4. lost => lost'
  <2> SUFFICES ASSUME lost PROVE lost \/ \E u \in Threads : u[1] = p /\ thread[u].answer = "ok"
    BY <1>1
  <2> QED OBVIOUS
<1>5. ASSUME ~raced'  PROVE RefreshedAlone'
  <2>1. RefreshedAlone  BY <1>1, <1>5
  <2>2. OneRefreshes'  BY <2>1, <1>1, <1>2 DEF RefreshedAlone, OneRefreshes, Refreshing
  <2>3. ASSUME NEW u \in Threads PROVE (MarkerOutlasts(u) /\ CopyIsCurrent(u))'
    <3>1. MarkerOutlasts(u) /\ CopyIsCurrent(u)  BY <2>1 DEF RefreshedAlone
    <3>2. CASE u[1] = p
      BY <3>2, <1>1, <1>2 DEF MarkerOutlasts, CopyIsCurrent
    <3>3. CASE u[1] # p
      BY <3>1, <3>3, <1>1, <1>4 DEF MarkerOutlasts, CopyIsCurrent
    <3> QED BY <3>2, <3>3
  <2>4. LockKeepsToken'
    <3>1. CASE lost  BY <3>1, <1>4 DEF LockKeepsToken
    <3>2. CASE creds.accepted  BY <3>2, <1>1 DEF LockKeepsToken
    <3>3. ASSUME NEW u \in Threads, thread[u].answer = "ok", thread[u].creds.accepted
          PROVE  LockKeepsToken'
      <4>1. CASE u[1] = p
        <5>1. lost \/ \E w \in Threads : w[1] = p /\ thread[w].answer = "ok"
          BY <3>3, <4>1
        <5>2. lost'  BY <5>1, <1>1
        <5> QED BY <5>2 DEF LockKeepsToken
      <4>2. CASE u[1] # p  BY <3>3, <4>2, <1>1 DEF LockKeepsToken
      <4> QED BY <4>1, <4>2
    <3> QED BY <2>1, <3>1, <3>2, <3>3 DEF RefreshedAlone, LockKeepsToken
  <2> QED BY <2>1, <2>2, <2>3, <2>4, <1>1, <1>4 DEF RefreshedAlone
<1> QED BY <1>3, <1>5, <1>1

(* Time passes for the marker and for the request alike.                    *)
LEMMA AdvanceKeeps ==
  ASSUME RotationInv, TokenTypeOK', Advance
  PROVE  RotationInv'
<1> USE DEF RotationInv
<1>1. /\ creds' = Older(creds)
      /\ UNCHANGED <<deaths, leading, status, held, lost, raced>>
      /\ \A u \in Threads : /\ thread[u].pc # "mark" /\ thread[u].pc # "write"
                            /\ thread[u].pc = "ask" => thread[u].budget > 0
  BY DEF Advance
<1>2. /\ creds'.accepted = creds.accepted /\ creds.marker \in 0..MarkerLife
      /\ creds'.marker = IF creds.marker > 0 THEN creds.marker - 1 ELSE 0
  BY <1>1, CredentialsTyped DEF TokenTypeOK, Credentials
<1>3. ASSUME NEW u \in Threads
      PROVE  /\ thread'[u].pc = thread[u].pc
             /\ thread[u].pc = "idle" => thread'[u].answer # "ok"
             /\ thread[u].pc # "idle" =>
                  /\ thread'[u].answer = thread[u].answer
                  /\ thread'[u].creds.accepted = thread[u].creds.accepted
             /\ thread[u].pc = "ask" => thread'[u].budget = thread[u].budget - 1
             /\ thread[u].budget \in 0..CallTime
  <2>1. thread[u].creds \in Credentials /\ thread[u].budget \in 0..CallTime
    BY ThreadTyped DEF TokenTypeOK
  <2>2. Older(thread[u].creds).accepted = thread[u].creds.accepted
    BY <2>1, CredentialsTyped
  <2>3. Idle.pc = "idle" /\ Idle.answer = "none"  BY DEF Idle
  <2> QED BY <2>1, <2>2, <2>3, <1>1, AdvanceRows
<1>4. \A u \in Threads : ThreadShape(u)'  BY <1>1, <1>3 DEF ThreadShape
<1>5. \A u \in Threads : thread[u].answer # "ok"  BY <1>1 DEF ThreadShape
<1>6. ASSUME ~raced'  PROVE RefreshedAlone'
  <2>1. RefreshedAlone  BY <1>1, <1>6
  <2>2. OneRefreshes'  BY <2>1, <1>3 DEF RefreshedAlone, OneRefreshes, Refreshing
  <2>3. ASSUME NEW u \in Threads PROVE MarkerOutlasts(u)'
    <3>1. MarkerOutlasts(u)  BY <2>1 DEF RefreshedAlone
    <3>2. ASSUME thread[u].pc = "ask", creds.marker > thread[u].budget
          PROVE  creds'.marker > thread'[u].budget
      BY <3>2, <1>1, <1>2, <1>3, TokenAssumption
    <3> QED BY <3>1, <3>2, <1>1, <1>3 DEF MarkerOutlasts
  <2>4. \A u \in Threads : CopyIsCurrent(u)'
    BY <2>1, <1>1, <1>2, <1>3, <1>5 DEF RefreshedAlone, CopyIsCurrent
  <2>5. LockKeepsToken'
    BY <2>1, <1>1, <1>2, <1>5 DEF RefreshedAlone, LockKeepsToken
  <2> QED BY <2>1, <2>2, <2>3, <2>4, <2>5, <1>1 DEF RefreshedAlone
<1> QED BY <1>4, <1>6, <1>1

(* A thread whose request has ended, whichever way, when no other refreshes:   *)
(* its marker still stands, and the token is with it, stored, or lost.       *)
LEMMA RequestKeeps ==
  ASSUME RotationInv, TokenTypeOK', NEW t \in Threads, Answered(t) \/ Unanswered(t)
  PROVE  RotationInv'
<1> USE DEF RotationInv
<1>1. /\ thread[t].pc = "ask" /\ thread[t].answer # "ok"
      /\ UNCHANGED <<deaths, leading, status, held, raced>>
  <2>1. thread[t].pc = "ask" /\ UNCHANGED <<deaths, leading, status, held, raced>>
    BY RequestEnds
  <2> QED BY <2>1 DEF ThreadShape
<1>t. thread[t] \in Thread  BY DEF TokenTypeOK
<1> DEFINE others(accepted) ==
      \A u \in Threads \ {t} :
        /\ thread'[u].pc = thread[u].pc /\ thread'[u].answer = thread[u].answer
        /\ thread'[u].budget = thread[u].budget
        /\ thread'[u].creds.marker = thread[u].creds.marker
        /\ accepted => thread'[u].creds.accepted = thread[u].creds.accepted
<1>2. /\ thread'[t].pc = "write" /\ thread'[t].answer \in {"ok", "error", "invalid"}
      /\ creds'.marker = creds.marker /\ (lost => lost')
      /\ others(thread'[t].answer = "invalid")
      /\ thread'[t].answer = "ok" => thread'[t].creds.accepted /\ lost' = lost
      /\ thread'[t].answer = "error" =>
           \/ ~creds'.accepted /\ ~thread'[t].creds.accepted /\ lost'
           \/ /\ creds' = creds /\ thread'[t].creds = thread[t].creds /\ lost' = lost
              /\ others(TRUE)
      /\ thread'[t].answer = "invalid" =>
           /\ creds' = creds /\ thread'[t].creds = thread[t].creds /\ lost' = lost
           /\ ~thread[t].creds.accepted
  <2>0. ASSUME NEW row \in Thread, Rotate(t, row)
        PROVE  /\ thread'[t] = row /\ thread[t].creds.accepted
               /\ ~creds'.accepted /\ creds'.marker = creds.marker
               /\ others(FALSE)
    <3>1. ASSUME NEW u \in Threads \ {t}
          PROVE  /\ thread'[u].pc = thread[u].pc /\ thread'[u].answer = thread[u].answer
                 /\ thread'[u].budget = thread[u].budget
                 /\ thread'[u].creds.marker = thread[u].creds.marker
      <4>1. thread[u] \in Thread /\ thread[u].creds \in Credentials
        BY ThreadTyped DEF TokenTypeOK
      <4>2. Used(thread[u].creds).marker = thread[u].creds.marker
        BY <4>1, CredentialsTyped
      <4>3. thread'[u] = [thread[u] EXCEPT !.creds = Used(thread[u].creds)]
        BY <2>0, RotateTyped
      <4> QED BY <4>1, <4>2, <4>3 DEF Thread
    <3> QED BY <2>0, <3>1, RotateTyped
  <2>1. CASE Rotate(t, OkRow(t)) /\ lost' = lost
    BY <2>1, <2>0, RowsTyped
  <2>2. CASE Rotate(t, LostRow(t)) /\ lost'
    BY <2>2, <2>0, RowsTyped
  <2>3. CASE /\ ~thread[t].creds.accepted
             /\ thread' = [thread EXCEPT ![t].pc = "write", ![t].answer = "invalid"]
             /\ UNCHANGED <<creds, lost>>
    <3>1. /\ thread'[t].pc = "write" /\ thread'[t].answer = "invalid"
          /\ thread'[t].creds = thread[t].creds
          /\ \A u \in Threads \ {t} : thread'[u] = thread[u]
      BY <2>3, <1>t DEF TokenTypeOK, Thread
    <3> QED BY <2>3, <3>1
  <2>4. CASE /\ thread' = [thread EXCEPT ![t].pc = "write", ![t].answer = "error"]
             /\ UNCHANGED <<creds, lost>>
    <3>1. /\ thread'[t].pc = "write" /\ thread'[t].answer = "error"
          /\ thread'[t].creds = thread[t].creds
          /\ \A u \in Threads \ {t} : thread'[u] = thread[u]
      BY <2>4, <1>t DEF TokenTypeOK, Thread
    <3> QED BY <2>4, <3>1
  <2> QED BY RequestEnds, <2>1, <2>2, <2>3, <2>4
<1>3. \A u \in Threads \ {t} :
        /\ thread'[u].pc = thread[u].pc /\ thread'[u].answer = thread[u].answer
        /\ thread'[u].budget = thread[u].budget
        /\ thread'[u].creds.marker = thread[u].creds.marker
  BY <1>2
<1>4. \A u \in Threads : ThreadShape(u)'
  <2>1. ThreadShape(t)'  BY <1>1, <1>2 DEF ThreadShape
  <2>2. \A u \in Threads \ {t} : ThreadShape(u)'  BY <1>1, <1>3 DEF ThreadShape
  <2> QED BY <2>1, <2>2
<1>5. ASSUME ~raced'  PROVE RefreshedAlone'
  <2>1. RefreshedAlone  BY <1>1, <1>5
  <2>2. \A u \in Threads \ {t} : ~Refreshing(u)
    BY <2>1, <1>1 DEF RefreshedAlone, OneRefreshes, Refreshing
  <2>3. \A u \in Threads \ {t} : thread[u].answer # "ok"
    BY <2>2 DEF ThreadShape, Refreshing
  <2>4. OneRefreshes'  BY <2>2, <1>3 DEF OneRefreshes, Refreshing
  <2>5. thread[t].creds.accepted = creds.accepted /\ (creds.accepted \/ lost)
    BY <2>1, <2>3, <1>1 DEF RefreshedAlone, CopyIsCurrent, LockKeepsToken
  <2>6. thread'[t].answer = "invalid" => lost'  BY <2>5, <1>2
  <2>7. CopyIsCurrent(t)'
    <3>1. thread'[t].answer # "ok" => thread'[t].creds.accepted = creds'.accepted
      <4>1. CASE thread'[t].answer = "error"
        <5>1. CASE ~creds'.accepted /\ ~thread'[t].creds.accepted /\ lost'
          <6>1. creds'.accepted \in BOOLEAN  BY DEF TokenTypeOK, Credentials
          <6>2. thread'[t].creds.accepted \in BOOLEAN
            BY DEF TokenTypeOK, Thread, Credentials
          <6> QED BY <5>1, <6>1, <6>2
        <5>2. CASE creds' = creds /\ thread'[t].creds = thread[t].creds
          BY <5>2, <2>5
        <5> QED BY <4>1, <5>1, <5>2, <1>2
      <4>2. CASE thread'[t].answer = "invalid"  BY <4>2, <2>5, <1>2
      <4> QED BY <4>1, <4>2, <1>2
    <3> QED BY <3>1, <2>6, <1>2 DEF CopyIsCurrent
  <2>8. MarkerOutlasts(t)'
    <3>1. ASSUME t[2] = "maintain" PROVE creds.marker > 0
      <4>1. creds.marker > thread[t].budget
        BY <3>1, <2>1, <1>1 DEF RefreshedAlone, MarkerOutlasts
      <4>2. thread[t].budget \in 0..CallTime /\ creds.marker \in 0..MarkerLife
        BY <1>t DEF Thread, TokenTypeOK, Credentials
      <4> QED BY <4>1, <4>2, TokenAssumption
    <3> QED BY <3>1, <1>2 DEF MarkerOutlasts
  <2>9. \A u \in Threads \ {t} : (MarkerOutlasts(u) /\ CopyIsCurrent(u))'
    BY <2>2, <2>3, <1>3 DEF Refreshing, MarkerOutlasts, CopyIsCurrent
  <2>10. LockKeepsToken'
    <3>1. CASE thread'[t].answer = "ok"  BY <3>1, <1>2 DEF LockKeepsToken
    <3>2. CASE thread'[t].answer # "ok"  BY <3>2, <2>5, <1>2 DEF LockKeepsToken
    <3> QED BY <3>1, <3>2
  <2> QED BY <2>1, <2>4, <2>7, <2>8, <2>9, <2>10, <1>1, <1>2 DEF RefreshedAlone
<1> QED BY <1>4, <1>5, <1>1

(* What is written when nobody else refreshes is the token that was stored, or  *)
(* the one that was received.                                               *)
LEMMA ReleaseKeeps ==
  ASSUME RotationInv, TokenTypeOK', NEW t \in Threads, Store(t) \/ RecordFailure(t)
  PROVE  RotationInv'
<1> USE DEF RotationInv
<1>1. /\ thread[t].pc = "write" /\ thread[t] \in Thread /\ thread[t].creds \in Credentials
      /\ thread'[t] = Idle /\ \A u \in Threads \ {t} : thread'[u] = thread[u]
      /\ UNCHANGED <<deaths, leading, lost, raced>>
  BY ThreadTyped DEF Store, RecordFailure, Failed, Release, TokenTypeOK
<1>2. creds'.accepted = thread[t].creds.accepted
  <2>1. 0 \in 0..MarkerLife  BY TokenAssumption
  <2>2. [thread[t].creds EXCEPT !.marker = 0].accepted = thread[t].creds.accepted
    BY <1>1, <2>1, CredentialsTyped
  <2> QED BY <2>2 DEF Store, RecordFailure
<1>3. \/ thread[t].answer = "ok" /\ status' = "success"
      \/ thread[t].answer = "error" /\ status' = status
      \/ thread[t].answer = "invalid" /\ status' = "failed"
  BY DEF Store, RecordFailure, Failed
<1>4. Idle.pc = "idle" /\ Idle.answer = "none"  BY DEF Idle
<1>5. \A u \in Threads : ThreadShape(u)'
  <2>1. ThreadShape(t)'  BY <1>1, <1>4 DEF ThreadShape
  <2>2. \A u \in Threads \ {t} : ThreadShape(u)'  BY <1>1 DEF ThreadShape
  <2> QED BY <2>1, <2>2
<1>6. ASSUME ~raced'  PROVE RefreshedAlone'
  <2>1. RefreshedAlone  BY <1>1, <1>6
  <2>2. \A u \in Threads \ {t} : ~Refreshing(u)
    BY <2>1, <1>1 DEF RefreshedAlone, OneRefreshes, Refreshing
  <2>3. \A u \in Threads \ {t} : thread[u].answer # "ok"
    BY <2>2 DEF ThreadShape, Refreshing
  <2>4. OneRefreshes'  BY <2>2, <1>1, <1>4 DEF OneRefreshes, Refreshing
  <2>5. \A u \in Threads : (MarkerOutlasts(u) /\ CopyIsCurrent(u))'
    BY <2>2, <2>3, <1>1, <1>4 DEF Refreshing, MarkerOutlasts, CopyIsCurrent
  <2>6. CopyIsCurrent(t)  BY <2>1 DEF RefreshedAlone
  <2>7. creds'.accepted \/ lost
    <3>1. CASE thread[t].answer = "ok"  BY <3>1, <2>6, <1>2 DEF CopyIsCurrent
    <3>2. CASE thread[t].answer # "ok"
      BY <3>2, <2>1, <2>3, <2>6, <1>1, <1>2 DEF CopyIsCurrent, RefreshedAlone, LockKeepsToken
    <3> QED BY <3>1, <3>2
  <2>8. status' = "failed" => lost
    BY <2>1, <2>6, <1>1, <1>3 DEF RefreshedAlone, CopyIsCurrent
  <2> QED BY <2>4, <2>5, <2>7, <2>8, <1>1 DEF RefreshedAlone, LockKeepsToken
<1> QED BY <1>5, <1>6, <1>1

(* A commit that fails loses the token: the thread ends, or has left what the   *)
(* row has.                                                                 *)
LEMMA StoreFailsKeeps ==
  ASSUME RotationInv, TokenTypeOK', NEW t \in Threads, StoreFails(t)
  PROVE  RotationInv'
<1> USE DEF RotationInv
<1>1. /\ thread[t].pc = "write" /\ thread[t] \in Thread /\ lost'
      /\ UNCHANGED <<deaths, leading, creds, status, raced>>
  BY DEF StoreFails, TokenTypeOK
<1>2. /\ \A u \in Threads \ {t} : thread'[u] = thread[u]
      /\ \/ thread'[t].pc = "idle" /\ thread'[t].answer = "none"
         \/ /\ thread'[t].pc = "write" /\ thread'[t].answer = "error"
            /\ thread'[t].creds = creds
  <2>1. Idle.pc = "idle" /\ Idle.answer = "none"  BY DEF Idle
  <2>2. CASE Release(t)  BY <2>1, <2>2 DEF Release, TokenTypeOK
  <2>3. CASE thread' = [thread EXCEPT ![t].answer = "error", ![t].creds = creds]
    BY <2>3, <1>1 DEF TokenTypeOK, Thread
  <2> QED BY <2>2, <2>3 DEF StoreFails
<1>3. \A u \in Threads : ThreadShape(u)'
  <2>1. ThreadShape(t)'  BY <1>1, <1>2 DEF ThreadShape
  <2>2. \A u \in Threads \ {t} : ThreadShape(u)'  BY <1>1, <1>2 DEF ThreadShape
  <2> QED BY <2>1, <2>2
<1>4. ASSUME ~raced'  PROVE RefreshedAlone'
  <2>1. RefreshedAlone  BY <1>1, <1>4
  <2>2. OneRefreshes'
    BY <2>1, <1>1, <1>2 DEF RefreshedAlone, OneRefreshes, Refreshing
  <2>3. (MarkerOutlasts(t) /\ CopyIsCurrent(t))'
    BY <2>1, <1>1, <1>2 DEF RefreshedAlone, MarkerOutlasts, CopyIsCurrent
  <2>4. \A u \in Threads \ {t} : (MarkerOutlasts(u) /\ CopyIsCurrent(u))'
    BY <2>1, <1>1, <1>2 DEF RefreshedAlone, MarkerOutlasts, CopyIsCurrent
  <2> QED BY <2>2, <2>3, <2>4, <1>1 DEF RefreshedAlone, LockKeepsToken
<1> QED BY <1>3, <1>4, <1>1

(* Among maintenances alone, however the leader changes and processes crash,   *)
(* for every number of processes and every timeout shorter than the marker,   *)
(* no refresh overwrites the token that the marketplace accepts.             *)
THEOREM RotationSafe == TokenSpec => []RotationKept
<1>1. RotationInv /\ [TokenNext]_tokenVars => RotationInv'
  <2> SUFFICES ASSUME RotationInv, [TokenNext]_tokenVars PROVE RotationInv'
    OBVIOUS
  <2>0. TokenTypeOK'  BY TokenTypeStep DEF RotationInv
  <2>1. ASSUME NEW p \in TokenProcs, ProcessStep(p) PROVE RotationInv'
    BY <2>0, <2>1, MaintainKeeps, MarkKeeps, CallKeeps, CallLockedKeeps, RereadKeeps,
       ChangeLeaderKeeps, DieKeeps DEF ProcessStep
  <2>2. ASSUME NEW t \in Threads, ThreadStep(t) PROVE RotationInv'
    BY <2>0, <2>2, RequestKeeps, ReleaseKeeps, StoreFailsKeeps DEF ThreadStep
  <2>3. CASE Advance  BY <2>0, <2>3, AdvanceKeeps
  <2>4. CASE UNCHANGED tokenVars
    BY <2>0, <2>4 DEF tokenVars, RotationInv, ThreadShape, RefreshedAlone, OneRefreshes,
       Refreshing, MarkerOutlasts, CopyIsCurrent, LockKeepsToken
  <2> QED BY <2>1, <2>2, <2>3, <2>4 DEF TokenNext
<1>2. RotationInv => RotationKept  BY DEF RotationInv, RefreshedAlone, RotationKept
<1> QED BY RotationInit, <1>1, <1>2, PTL DEF TokenSpec
-----------------------------------------------------------------------------
(* The shape of a thread that collects: it has runs to execute exactly while it *)
(* executes some, and accounts while it is about to insert.                 *)
TrafficRow == [account : Accounts, by : {"scheduler", "user"},
               status : Unfinished \cup Finished]
CollectorRow == [pc : {"idle", "insert", "load", "next", "collect"},
                 chosen : SUBSET Accounts, queue : Seq(Nat)]

CollectorShape(t) ==
  /\ collector[t].pc \in {"idle", "insert"} <=> collector[t].queue = <<>>
  /\ collector[t].pc = "insert" => collector[t].chosen # {}
  /\ \A k \in DOMAIN collector[t].queue : collector[t].queue[k] \in DOMAIN collection

TrafficShape ==
  /\ TrafficTypeOK /\ collection \in Seq(TrafficRow)
  /\ collector \in [Collectors -> CollectorRow]
  /\ \A t \in Collectors : CollectorShape(t)

LEMMA RestTyped ==
  AtRest \in CollectorRow /\ AtRest.pc = "idle" /\ AtRest.queue = <<>>
BY DEF AtRest, CollectorRow

(* The shape and what bounds it make the type, after a step as at the start.   *)
LEMMA ShapeIsTyped ==
  ASSUME collection' \in Seq(TrafficRow), Len(collection') <= MaxTraffic,
         collector' \in [Collectors -> CollectorRow],
         \A t \in Collectors : CollectorShape(t)',
         alive' \subseteq TrafficProcs, chief' \in TrafficProcs, stops' \in 0..MaxStops,
         unrecorded' \subseteq 1..MaxTraffic, mixed' \in BOOLEAN
  PROVE  TrafficShape'
<1>1. \A t \in Collectors :
        /\ collector'[t].pc \in {"idle", "insert", "load", "next", "collect"}
        /\ collector'[t].chosen \subseteq Accounts
        /\ \A k \in DOMAIN collector'[t].queue : collector'[t].queue[k] \in DOMAIN collection'
  BY DEF CollectorRow, CollectorShape
<1>2. collection' \in Seq([account : Accounts, by : {"scheduler", "user"},
                           status : Unfinished \cup Finished])
  BY DEF TrafficRow
<1> QED BY <1>1, <1>2 DEF TrafficTypeOK, TrafficShape

LEMMA TrafficShapeInit == TrafficInit => TrafficShape
<1> SUFFICES ASSUME TrafficInit PROVE TrafficShape
  OBVIOUS
<1>1. \A t \in Collectors : CollectorShape(t)
  BY RestTyped DEF TrafficInit, CollectorShape
<1>2. collector \in [Collectors -> CollectorRow]  BY RestTyped DEF TrafficInit
<1>3. \A t \in Collectors :
        /\ collector[t].pc \in {"idle", "insert", "load", "next", "collect"}
        /\ collector[t].chosen \subseteq Accounts
        /\ \A k \in DOMAIN collector[t].queue : collector[t].queue[k] \in DOMAIN collection
  BY <1>1, <1>2 DEF CollectorRow, CollectorShape
<1>4. /\ collection \in Seq(TrafficRow) /\ Len(collection) = 0
      /\ collection \in Seq([account : Accounts, by : {"scheduler", "user"},
                             status : Unfinished \cup Finished])
  BY DEF TrafficInit
<1>5. stops \in 0..MaxStops /\ 0 <= MaxTraffic  BY TrafficAssumption DEF TrafficInit
<1>6. unrecorded \subseteq 1..MaxTraffic /\ mixed \in BOOLEAN /\ alive \subseteq TrafficProcs
      /\ chief \in TrafficProcs
  BY DEF TrafficInit
<1> QED BY <1>1, <1>2, <1>3, <1>4, <1>5, <1>6 DEF TrafficShape, TrafficTypeOK

(* What an insertion adds: a run for each chosen account, and nothing else.    *)
LEMMA InsertRows ==
  ASSUME TrafficShape, NEW t \in Collectors, InsertRuns(t)
  PROVE  /\ collector[t].pc = "insert"
         /\ UNCHANGED <<alive, chief, stops, unrecorded, mixed>>
         /\ collection' \in Seq(TrafficRow) /\ Len(collection') <= MaxTraffic
         /\ DOMAIN collection \subseteq DOMAIN collection'
         /\ \A i \in DOMAIN collection : collection'[i] = collection[i]
         /\ collector'[t] \in CollectorRow
         /\ collector'[t].pc = "load" /\ collector'[t].queue # <<>>
         /\ collector' = [collector EXCEPT ![t] = collector'[t]]
         /\ \A k \in DOMAIN collector'[t].queue :
              /\ collector'[t].queue[k] \in DOMAIN collection'
              /\ collection'[collector'[t].queue[k]].account \in collector[t].chosen
              /\ collection'[collector'[t].queue[k]].status \in Unfinished
         /\ \A k, l \in DOMAIN collector'[t].queue :
              collection'[collector'[t].queue[k]].account
                = collection'[collector'[t].queue[l]].account => k = l
<1> USE TrafficAssumption DEF TrafficShape, TrafficTypeOK
<1> DEFINE chosen == collector[t].chosen
           n == Cardinality(chosen)
<1>1. collector[t].pc = "insert" /\ Len(collection) + n <= MaxTraffic
      /\ UNCHANGED <<alive, chief, stops, unrecorded, mixed>>
  BY DEF InsertRuns
<1>2. chosen \subseteq Accounts /\ chosen # {}
  BY <1>1 DEF CollectorShape
<1>3. n \in Nat /\ n # 0
  BY <1>2, FS_Subset, FS_CardinalityType, FS_EmptySet
<1>4. PICK order \in [1..n -> chosen] :
        /\ \A j, k \in DOMAIN order : order[j] = order[k] => j = k
        /\ collection' = collection \o
             [k \in DOMAIN order |-> [account |-> order[k], by |-> t[2], status |-> "pending"]]
        /\ collector' = [collector EXCEPT ![t] =
             [AtRest EXCEPT !.pc = "load",
                            !.queue = [k \in DOMAIN order |-> Len(collection) + k]]]
  BY DEF InsertRuns
<1> DEFINE rows == [k \in 1..n |-> [account |-> order[k], by |-> t[2], status |-> "pending"]]
           indexes == [k \in 1..n |-> Len(collection) + k]
<1>5. t[2] \in {"scheduler", "user"}  BY DEF Collectors
<1>6. /\ DOMAIN order = 1..n /\ \A k \in 1..n : order[k] \in collector[t].chosen
      /\ \A j, k \in 1..n : order[j] = order[k] => j = k
  BY <1>4
<1> HIDE DEF n
<1>7. rows \in Seq(TrafficRow) /\ Len(rows) = n
  <2>1. ASSUME NEW k \in 1..n
        PROVE  [account |-> order[k], by |-> t[2], status |-> "pending"] \in TrafficRow
    BY <1>2, <1>5 DEF TrafficRow, Unfinished
  <2>2. rows \in [1..n -> TrafficRow]  BY <2>1
  <2>3. rows \in Seq(TrafficRow)  BY <2>2, <1>3
  <2> QED BY <2>2, <2>3, <1>3
<1>8. indexes \in Seq(Nat) /\ Len(indexes) = n /\ DOMAIN indexes = 1..n
  <2>1. indexes \in [1..n -> Nat]  OBVIOUS
  <2>2. indexes \in Seq(Nat)  BY <2>1, <1>3
  <2> QED BY <2>1, <2>2, <1>3
<1>9. /\ collection' \in Seq(TrafficRow) /\ Len(collection') = Len(collection) + n
      /\ \A i \in 1..Len(collection) : collection'[i] = collection[i]
      /\ \A k \in 1..n : collection'[Len(collection) + k] = rows[k]
  <2>1. collection' = collection \o rows  BY <1>4, <1>6
  <2> HIDE DEF rows
  <2> QED BY <2>1, <1>3, <1>7, ConcatProperties
<1>10. /\ collector'[t] = [AtRest EXCEPT !.pc = "load", !.queue = indexes]
       /\ collector' = [collector EXCEPT ![t] = collector'[t]]
  BY <1>4, <1>6
<1>11. /\ collector'[t].pc = "load" /\ collector'[t].queue = indexes
       /\ collector'[t] \in CollectorRow
  BY <1>8, <1>10 DEF AtRest, CollectorRow
<1>12. indexes # <<>>  BY <1>3, <1>8
<1>13. ASSUME NEW k \in 1..n
       PROVE  /\ indexes[k] = Len(collection) + k /\ indexes[k] \in DOMAIN collection'
              /\ collection'[indexes[k]].account = order[k]
              /\ collection'[indexes[k]].status \in Unfinished
  <2>1. indexes[k] = Len(collection) + k /\ indexes[k] \in DOMAIN collection'
    BY <1>3, <1>9
  <2>2. collection'[indexes[k]] = rows[k]  BY <2>1, <1>9
  <2>3. rows[k].account = order[k] /\ rows[k].status \in Unfinished  BY DEF Unfinished
  <2> QED BY <2>1, <2>2, <2>3
<1>14. DOMAIN collection \subseteq DOMAIN collection'  BY <1>3, <1>9
<1>15. Len(collection') <= MaxTraffic  BY <1>1, <1>9 DEF n
<1> HIDE DEF indexes, rows
<1>q. DOMAIN collector'[t].queue = 1..n /\ collector'[t].queue = indexes  BY <1>8, <1>11
<1>16. ASSUME NEW k \in DOMAIN collector'[t].queue
       PROVE  /\ collector'[t].queue[k] \in DOMAIN collection'
              /\ collection'[collector'[t].queue[k]].account \in collector[t].chosen
              /\ collection'[collector'[t].queue[k]].status \in Unfinished
  <2>1. k \in 1..n  BY <1>q
  <2>2. order[k] \in collector[t].chosen  BY <2>1, <1>6
  <2> QED BY <2>1, <2>2, <1>q, <1>13
<1>17. ASSUME NEW k \in DOMAIN collector'[t].queue, NEW l \in DOMAIN collector'[t].queue,
              collection'[collector'[t].queue[k]].account
                = collection'[collector'[t].queue[l]].account
       PROVE  k = l
  <2>1. k \in 1..n /\ l \in 1..n  BY <1>q
  <2>2. order[k] = order[l]  BY <2>1, <1>q, <1>13, <1>17
  <2> QED BY <2>1, <2>2, <1>6
<1>18. \A i \in DOMAIN collection : collection'[i] = collection[i]  BY <1>9
<1> QED BY <1>1, <1>9, <1>10, <1>11, <1>12, <1>14, <1>15, <1>16, <1>17, <1>18

(* A run whose status changes stays where it is, with its account.           *)
LEMMA RunUpdated ==
  ASSUME collection \in Seq(TrafficRow), NEW i \in DOMAIN collection,
         NEW s \in Unfinished \cup Finished,
         collection' = [collection EXCEPT ![i].status = s]
  PROVE  /\ collection' \in Seq(TrafficRow) /\ Len(collection') = Len(collection)
         /\ DOMAIN collection' = DOMAIN collection
         /\ \A j \in DOMAIN collection :
              /\ collection'[j].account = collection[j].account
              /\ collection'[j].status = IF j = i THEN s ELSE collection[j].status
<1> DEFINE row == [collection[i] EXCEPT !.status = s]
<1>1. collection[i] \in TrafficRow  OBVIOUS
<1>2. row \in TrafficRow /\ row.account = collection[i].account /\ row.status = s
  BY <1>1 DEF TrafficRow
<1>3. collection' = [collection EXCEPT ![i] = row]  OBVIOUS
<1> HIDE DEF row
<1>4. /\ collection' \in Seq(TrafficRow) /\ Len(collection') = Len(collection)
      /\ DOMAIN collection' = DOMAIN collection
      /\ \A j \in DOMAIN collection : collection'[j] = IF j = i THEN row ELSE collection[j]
  BY <1>2, <1>3, ExceptSeq
<1> QED BY <1>2, <1>4

(* A thread that executes a run leaves it for the rest of its queue.           *)
LEMMA QueueAdvanced ==
  ASSUME TrafficShape, NEW t \in Collectors, collector[t].pc \in {"next", "collect"}
  PROVE  /\ Head(collector[t].queue) = collector[t].queue[1]
         /\ 1 \in DOMAIN collector[t].queue
         /\ collector[t].queue[1] \in DOMAIN collection
         /\ Advanced(t) =>
              LET rest == Tail(collector[t].queue) IN
              /\ collector' \in [Collectors -> CollectorRow]
              /\ \A u \in Collectors \ {t} : collector'[u] = collector[u]
              /\ collector'[t].pc \in {"idle", "next"}
              /\ collector'[t].queue = rest
              /\ collector'[t].pc = "idle" <=> rest = <<>>
              /\ \A k \in DOMAIN rest : k + 1 \in DOMAIN collector[t].queue
                                        /\ rest[k] = collector[t].queue[k + 1]
<1> DEFINE queue == collector[t].queue
           rest == Tail(queue)
           row == IF rest = <<>> THEN AtRest
                  ELSE [collector[t] EXCEPT !.pc = "next", !.queue = rest]
<1>1. collector[t] \in CollectorRow /\ queue \in Seq(Nat) /\ queue # <<>>
  BY DEF TrafficShape, CollectorShape, CollectorRow
<1>2. Head(queue) = queue[1] /\ 1 \in DOMAIN queue /\ queue[1] \in DOMAIN collection
  <2>1. Head(queue) = queue[1] /\ 1 \in DOMAIN queue  BY <1>1
  <2> QED BY <2>1 DEF TrafficShape, CollectorShape
<1>3. rest \in Seq(Nat) /\ \A k \in DOMAIN rest : k + 1 \in DOMAIN queue
                                                 /\ rest[k] = queue[k + 1]
  <2> HIDE DEF queue
  <2> QED BY <1>1, HeadTailProperties
<1> HIDE DEF rest
<1>4. row \in CollectorRow
  <2>1. ASSUME rest # <<>>
        PROVE  [collector[t] EXCEPT !.pc = "next", !.queue = rest] \in CollectorRow
    BY <1>1, <1>3 DEF CollectorRow
  <2> QED BY <2>1, RestTyped
<1>5. /\ row.pc \in {"idle", "next"} /\ row.queue = rest
      /\ row.pc = "idle" <=> rest = <<>>
  BY <1>1, RestTyped DEF CollectorRow
<1>6. Advanced(t) => collector' = [collector EXCEPT ![t] = row]
  BY DEF Advanced, rest
<1> HIDE DEF row
<1>7. Advanced(t) => /\ collector' \in [Collectors -> CollectorRow]
                     /\ \A u \in Collectors \ {t} : collector'[u] = collector[u]
                     /\ collector'[t] = row
  BY <1>4, <1>6 DEF TrafficShape
<1> QED BY <1>2, <1>3, <1>5, <1>7 DEF rest

(* The steps of a thread keep the shape.                                    *)
LEMMA CollectorStepShape ==
  ASSUME TrafficShape, NEW t \in Collectors, LookUp(t) \/ CollectorStep(t)
  PROVE  TrafficShape'
<1>0. /\ collection \in Seq(TrafficRow) /\ Len(collection) <= MaxTraffic
      /\ collector \in [Collectors -> CollectorRow]
      /\ alive \subseteq TrafficProcs /\ chief \in TrafficProcs /\ stops \in 0..MaxStops
      /\ unrecorded \subseteq 1..MaxTraffic /\ mixed \in BOOLEAN
      /\ \A u \in Collectors : CollectorShape(u)
  BY DEF TrafficShape, TrafficTypeOK
<1>1. CASE LookUp(t)
  <2>1. PICK chosen \in SUBSET Accounts :
          /\ chosen # {}
          /\ collector' = [collector EXCEPT ![t] = [AtRest EXCEPT !.pc = "insert",
                                                                  !.chosen = chosen]]
    BY <1>1 DEF LookUp
  <2> DEFINE row == [AtRest EXCEPT !.pc = "insert", !.chosen = chosen]
  <2>2. row.pc = "insert" /\ row.queue = <<>> /\ row.chosen = chosen
    BY DEF AtRest
  <2>3. row \in CollectorRow  BY RestTyped DEF CollectorRow
  <2>4. collector' = [collector EXCEPT ![t] = row]  BY <2>1
  <2> HIDE DEF row
  <2>5. /\ collector' \in [Collectors -> CollectorRow] /\ collector'[t] = row
        /\ \A u \in Collectors \ {t} : collector'[u] = collector[u]
    BY <2>3, <2>4, <1>0
  <2>6. /\ UNCHANGED <<collection, alive, chief, stops, unrecorded>>
        /\ mixed' \in BOOLEAN
    BY <1>1 DEF LookUp
  <2>7. CollectorShape(t)'
    <3>1. collector'[t].pc = "insert" /\ collector'[t].queue = <<>>
          /\ collector'[t].chosen # {}
      BY <2>1, <2>2, <2>5
    <3>2. \A k \in DOMAIN collector'[t].queue : FALSE  BY <3>1
    <3> QED BY <3>1, <3>2 DEF CollectorShape
  <2>8. \A u \in Collectors \ {t} : CollectorShape(u)'
    BY <2>5, <2>6, <1>0 DEF CollectorShape
  <2> QED BY <1>0, <2>5, <2>6, <2>7, <2>8, ShapeIsTyped
<1>2. CASE InsertRuns(t)
  <2>1. /\ collector' = [collector EXCEPT ![t] = collector'[t]]
        /\ collector'[t] \in CollectorRow
        /\ collector'[t].pc = "load" /\ collector'[t].queue # <<>>
        /\ \A k \in DOMAIN collector'[t].queue :
             collector'[t].queue[k] \in DOMAIN collection'
        /\ DOMAIN collection \subseteq DOMAIN collection'
    BY <1>2, InsertRows
  <2>2. CollectorShape(t)'  BY <2>1 DEF CollectorShape
  <2>3. ASSUME NEW u \in Collectors \ {t} PROVE CollectorShape(u)'
    <3>1. collector'[u] = collector[u]  BY <1>0, <2>1
    <3> QED BY <3>1, <2>1, <1>0 DEF CollectorShape
  <2>4. collector' \in [Collectors -> CollectorRow]  BY <1>0, <2>1
  <2>5. /\ UNCHANGED <<alive, chief, stops, unrecorded, mixed>>
        /\ collection' \in Seq(TrafficRow) /\ Len(collection') <= MaxTraffic
    BY <1>2, InsertRows
  <2> QED BY <1>0, <2>2, <2>3, <2>4, <2>5, ShapeIsTyped
<1>3. CASE BeginRun(t)
  <2>1. collector[t].pc = "next"  BY <1>3 DEF BeginRun
  <2>2. /\ Head(collector[t].queue) = collector[t].queue[1]
        /\ collector[t].queue[1] \in DOMAIN collection
    BY <2>1, QueueAdvanced
  <2>3. /\ collection' = [collection EXCEPT ![collector[t].queue[1]].status = "running"]
        /\ collector' = [collector EXCEPT ![t].pc = "collect"]
        /\ UNCHANGED <<alive, chief, stops, unrecorded, mixed>>
    BY <1>3, <2>2 DEF BeginRun
  <2>4. "running" \in Unfinished \cup Finished  BY DEF Unfinished
  <2>5. /\ collection' \in Seq(TrafficRow) /\ Len(collection') = Len(collection)
        /\ DOMAIN collection' = DOMAIN collection
    BY <1>0, <2>2, <2>3, <2>4, RunUpdated
  <2>6. /\ collector' \in [Collectors -> CollectorRow]
        /\ collector'[t].pc = "collect" /\ collector'[t].queue = collector[t].queue
        /\ \A u \in Collectors \ {t} : collector'[u] = collector[u]
    BY <1>0, <2>3 DEF CollectorRow
  <2>7. CollectorShape(t)'  BY <1>0, <2>1, <2>5, <2>6 DEF CollectorShape
  <2>8. \A u \in Collectors \ {t} : CollectorShape(u)'
    BY <1>0, <2>5, <2>6 DEF CollectorShape
  <2> QED BY <1>0, <2>3, <2>5, <2>6, <2>7, <2>8, ShapeIsTyped
<1>4. CASE EndRun(t) \/ LoseRecord(t)
  <2>1. /\ collector[t].pc = "collect" /\ Advanced(t)
        /\ UNCHANGED <<alive, chief, stops, mixed>>
    BY <1>4 DEF EndRun, LoseRecord
  <2> DEFINE rest == Tail(collector[t].queue)
  <2>2. /\ Head(collector[t].queue) = collector[t].queue[1]
        /\ collector[t].queue[1] \in DOMAIN collection
        /\ collector' \in [Collectors -> CollectorRow]
        /\ \A u \in Collectors \ {t} : collector'[u] = collector[u]
        /\ collector'[t].pc \in {"idle", "next"}
        /\ collector'[t].queue = rest
        /\ collector'[t].pc = "idle" <=> rest = <<>>
        /\ \A k \in DOMAIN rest : k + 1 \in DOMAIN collector[t].queue
                                  /\ rest[k] = collector[t].queue[k + 1]
    BY <2>1, QueueAdvanced
  <2> HIDE DEF rest
  <2>3. /\ collection' \in Seq(TrafficRow) /\ Len(collection') = Len(collection)
        /\ DOMAIN collection' = DOMAIN collection
    <3>1. CASE EndRun(t)
      <4>1. PICK end \in Finished :
              collection' = [collection EXCEPT ![collector[t].queue[1]].status = end]
        BY <3>1, <2>2 DEF EndRun
      <4> QED BY <4>1, <1>0, <2>2, RunUpdated
    <3>2. CASE LoseRecord(t)  BY <3>2, <1>0 DEF LoseRecord
    <3> QED BY <1>4, <3>1, <3>2
  <2>4. unrecorded' \subseteq 1..MaxTraffic
    <3>1. CASE EndRun(t)  BY <3>1, <1>0 DEF EndRun
    <3>2. CASE LoseRecord(t)
      <4>1. collector[t].queue[1] \in 1..MaxTraffic
        BY <1>0, <2>2, TrafficAssumption
      <4> QED BY <1>0, <3>2, <4>1, <2>2 DEF LoseRecord
    <3> QED BY <1>4, <3>1, <3>2
  <2>5. CollectorShape(t)'
    <3>1. ASSUME NEW k \in DOMAIN rest PROVE rest[k] \in DOMAIN collection'
      <4>1. k + 1 \in DOMAIN collector[t].queue /\ rest[k] = collector[t].queue[k + 1]
        BY <2>2
      <4> QED BY <4>1, <1>0, <2>3 DEF CollectorShape
    <3> QED BY <3>1, <2>2 DEF CollectorShape
  <2>6. \A u \in Collectors \ {t} : CollectorShape(u)'
    BY <1>0, <2>2, <2>3 DEF CollectorShape
  <2> QED BY <1>0, <2>1, <2>2, <2>3, <2>4, <2>5, <2>6, ShapeIsTyped
<1>5. CASE LoadRuns(t)
  <2>1. /\ collector[t].pc = "load" /\ collector' = [collector EXCEPT ![t].pc = "next"]
        /\ UNCHANGED <<collection, alive, chief, stops, unrecorded, mixed>>
    BY <1>5 DEF LoadRuns
  <2>2. /\ collector' \in [Collectors -> CollectorRow]
        /\ collector'[t].pc = "next" /\ collector'[t].queue = collector[t].queue
        /\ \A u \in Collectors \ {t} : collector'[u] = collector[u]
    BY <1>0, <2>1 DEF CollectorRow
  <2>3. CollectorShape(t)'  BY <1>0, <2>1, <2>2 DEF CollectorShape
  <2>4. \A u \in Collectors \ {t} : CollectorShape(u)'
    BY <1>0, <2>1, <2>2 DEF CollectorShape
  <2> QED BY <1>0, <2>1, <2>2, <2>3, <2>4, ShapeIsTyped
<1>6. CASE LoseQueue(t)
  <2>1. /\ collector' = [collector EXCEPT ![t] = AtRest]
        /\ unrecorded' = unrecorded \cup
             {collector[t].queue[k] : k \in DOMAIN collector[t].queue}
        /\ UNCHANGED <<collection, alive, chief, stops, mixed>>
    BY <1>6 DEF LoseQueue
  <2>2. /\ collector' \in [Collectors -> CollectorRow] /\ collector'[t] = AtRest
        /\ \A u \in Collectors \ {t} : collector'[u] = collector[u]
    BY <1>0, <2>1, RestTyped
  <2>3. CollectorShape(t)'
    <3>1. collector'[t].pc = "idle" /\ collector'[t].queue = <<>>  BY <2>2, RestTyped
    <3>2. \A k \in DOMAIN collector'[t].queue : FALSE  BY <3>1
    <3> QED BY <3>1, <3>2 DEF CollectorShape
  <2>4. \A u \in Collectors \ {t} : CollectorShape(u)'
    BY <1>0, <2>1, <2>2 DEF CollectorShape
  <2>5. unrecorded' \subseteq 1..MaxTraffic
    <3>1. \A k \in DOMAIN collector[t].queue : collector[t].queue[k] \in DOMAIN collection
      BY <1>0 DEF CollectorShape
    <3>2. DOMAIN collection \subseteq 1..MaxTraffic  BY <1>0, TrafficAssumption
    <3> QED BY <1>0, <2>1, <3>1, <3>2
  <2> QED BY <1>0, <2>1, <2>2, <2>3, <2>4, <2>5, ShapeIsTyped
<1> QED BY <1>1, <1>2, <1>3, <1>4, <1>5, <1>6 DEF CollectorStep

(* So do the deaths and starts of processes.                                *)
LEMMA TrafficProcessShape ==
  ASSUME TrafficShape, NEW p \in TrafficProcs,
         StopProcess(p) \/ StartProcess(p) \/ ChangeChief(p)
  PROVE  TrafficShape'
<1>0. /\ collection \in Seq(TrafficRow) /\ Len(collection) <= MaxTraffic
      /\ collector \in [Collectors -> CollectorRow]
      /\ alive \subseteq TrafficProcs /\ chief \in TrafficProcs /\ stops \in 0..MaxStops
      /\ unrecorded \subseteq 1..MaxTraffic /\ mixed \in BOOLEAN
      /\ \A u \in Collectors : CollectorShape(u)
  BY DEF TrafficShape, TrafficTypeOK
<1>1. CASE StopProcess(p)
  <2>1. /\ \A u \in Collectors : collector'[u] = AtRest \/ collector'[u] = collector[u]
        /\ collector' \in [Collectors -> CollectorRow]
        /\ UNCHANGED <<collection, chief, unrecorded, mixed>>
    BY <1>0, <1>1, RestTyped DEF StopProcess
  <2>2. stops' \in 0..MaxStops /\ alive' \subseteq TrafficProcs
    BY <1>0, <1>1, TrafficAssumption DEF StopProcess
  <2>3. \A k \in DOMAIN AtRest.queue : FALSE  BY RestTyped
  <2>4. \A u \in Collectors : CollectorShape(u)'
    BY <1>0, <2>1, <2>3, RestTyped DEF CollectorShape
  <2> QED BY <1>0, <2>1, <2>2, <2>4, ShapeIsTyped
<1>2. CASE StartProcess(p)
  <2>1. /\ collection' \in [1..Len(collection) -> TrafficRow]
        /\ UNCHANGED <<collector, chief, stops, unrecorded>> /\ mixed' \in BOOLEAN
        /\ alive' \subseteq TrafficProcs
    <3>1. ASSUME NEW i \in 1..Len(collection)
          PROVE  /\ collection[i] \in TrafficRow
                 /\ [collection[i] EXCEPT !.status = "failed"] \in TrafficRow
      <4>1. collection[i] \in TrafficRow  BY <1>0
      <4> QED BY <4>1 DEF TrafficRow, Finished
    <3>2. DOMAIN collection = 1..Len(collection)  BY <1>0
    <3>3. collection' \in [1..Len(collection) -> TrafficRow]
      BY <1>2, <3>1, <3>2 DEF StartProcess
    <3> QED BY <1>0, <1>2, <3>3 DEF StartProcess
  <2>2. /\ collection' \in Seq(TrafficRow) /\ Len(collection') = Len(collection)
        /\ DOMAIN collection' = DOMAIN collection
    <3>1. Len(collection) \in Nat  BY <1>0
    <3>2. collection' \in Seq(TrafficRow)  BY <2>1, <3>1
    <3> QED BY <1>0, <2>1, <3>1, <3>2
  <2>3. \A u \in Collectors : CollectorShape(u)'  BY <1>0, <2>1, <2>2 DEF CollectorShape
  <2> QED BY <1>0, <2>1, <2>2, <2>3, ShapeIsTyped
<1>3. CASE ChangeChief(p)
  <2>1. UNCHANGED <<collection, collector, alive, stops, unrecorded, mixed>> /\ chief' = p
    BY <1>3 DEF ChangeChief
  <2>2. \A u \in Collectors : CollectorShape(u)'  BY <1>0, <2>1 DEF CollectorShape
  <2> QED BY <1>0, <2>1, <2>2, ShapeIsTyped
<1> QED BY <1>1, <1>2, <1>3

LEMMA TrafficShapeStep ==
  ASSUME TrafficShape, [TrafficNext]_trafficVars
  PROVE  TrafficShape'
<1>1. CASE TrafficNext
  BY <1>1, CollectorStepShape, TrafficProcessShape DEF TrafficNext
<1>2. CASE UNCHANGED trafficVars
  BY <1>2 DEF trafficVars, TrafficShape, TrafficTypeOK, CollectorShape
<1> QED BY <1>1, <1>2

(* The variables of the traffic figures keep their types.                   *)
THEOREM TrafficTypeCorrect == TrafficSpec => []TrafficTypeOK
<1>1. TrafficShape => TrafficTypeOK  BY DEF TrafficShape
<1> QED BY <1>1, TrafficShapeInit, TrafficShapeStep, PTL DEF TrafficSpec
-----------------------------------------------------------------------------
(* Why accounts are apart: an account whose run waits or runs in some queue has  *)
(* an unfinished run, so nobody who looks then chooses it, and of those who     *)
(* have chosen only one is about to insert.                                 *)
QueuedRun(t, k) == collection[collector[t].queue[k]]

QueuesApart ==
  \A t, u \in Collectors :
    \A k \in DOMAIN collector[t].queue, l \in DOMAIN collector[u].queue :
      QueuedRun(t, k).account = QueuedRun(u, l).account => t = u /\ k = l

QueuedUnfinished ==
  \A t \in Collectors : \A k \in DOMAIN collector[t].queue :
    QueuedRun(t, k).status \in Unfinished

OneInserts ==
  \A t, u \in Collectors : collector[t].pc = "insert" /\ collector[u].pc = "insert" => t = u

ChosenUnqueued ==
  \A t, u \in Collectors : collector[t].pc = "insert" =>
    \A k \in DOMAIN collector[u].queue : QueuedRun(u, k).account \notin collector[t].chosen

TrafficApart == QueuesApart /\ QueuedUnfinished /\ OneInserts /\ ChosenUnqueued
TrafficInv == TrafficShape /\ (mixed \/ TrafficApart)

(* A step after which every queue is what is left of the queue before it, d[t]   *)
(* runs further, and every queued run kept its account and is unfinished.      *)
LEMMA QueuesShrink ==
  ASSUME TrafficApart, NEW d \in [Collectors -> Nat],
         \A t \in Collectors :
           /\ \A k \in DOMAIN collector'[t].queue :
                /\ k \in Nat /\ k + d[t] \in DOMAIN collector[t].queue
                /\ QueuedRun(t, k)'.account = QueuedRun(t, k + d[t]).account
                /\ QueuedRun(t, k)'.status \in Unfinished
           /\ collector'[t].pc = "insert" =>
                collector[t].pc = "insert" /\ collector'[t].chosen = collector[t].chosen
  PROVE  TrafficApart'
<1> USE DEF TrafficApart
<1>1. QueuesApart'
  <2> SUFFICES ASSUME NEW t \in Collectors, NEW u \in Collectors,
                      NEW k \in DOMAIN collector'[t].queue,
                      NEW l \in DOMAIN collector'[u].queue,
                      QueuedRun(t, k)'.account = QueuedRun(u, l)'.account
               PROVE  t = u /\ k = l
    BY DEF QueuesApart
  <2>1. t = u /\ k + d[t] = l + d[u]  BY DEF QueuesApart
  <2>2. k \in Nat /\ l \in Nat /\ d[t] \in Nat  OBVIOUS
  <2>3. k + d[t] = l + d[t]  BY <2>1
  <2>4. k = l  BY <2>2, <2>3
  <2> QED BY <2>1, <2>4
<1>2. QueuedUnfinished'  BY DEF QueuedUnfinished
<1>3. OneInserts'  BY DEF OneInserts
<1>4. ChosenUnqueued'
  <2> SUFFICES ASSUME NEW t \in Collectors, NEW u \in Collectors,
                      collector'[t].pc = "insert", NEW k \in DOMAIN collector'[u].queue
               PROVE  QueuedRun(u, k)'.account \notin collector'[t].chosen
    BY DEF ChosenUnqueued
  <2> QED BY DEF ChosenUnqueued
<1> QED BY <1>1, <1>2, <1>3, <1>4

(* The steps of a thread that executes runs.                                *)
LEMMA RunsKeepApart ==
  ASSUME TrafficShape, TrafficApart, NEW t \in Collectors,
         BeginRun(t) \/ EndRun(t) \/ LoseRecord(t) \/ LoadRuns(t) \/ LoseQueue(t)
  PROVE  TrafficApart'
<1>0. /\ collection \in Seq(TrafficRow) /\ collector \in [Collectors -> CollectorRow]
      /\ \A u \in Collectors : /\ collector[u].queue \in Seq(Nat)
                               /\ \A k \in DOMAIN collector[u].queue :
                                    /\ k \in Nat
                                    /\ collector[u].queue[k] \in DOMAIN collection
      /\ \A u \in Collectors : \A k \in DOMAIN collector[u].queue :
           QueuedRun(u, k).status \in Unfinished
  BY DEF TrafficShape, CollectorShape, CollectorRow, TrafficApart, QueuedUnfinished
<1>1. CASE BeginRun(t)
  <2>1. collector[t].pc = "next"  BY <1>1 DEF BeginRun
  <2>2. /\ Head(collector[t].queue) = collector[t].queue[1]
        /\ collector[t].queue[1] \in DOMAIN collection
    BY <2>1, QueueAdvanced
  <2>3. /\ collection' = [collection EXCEPT ![collector[t].queue[1]].status = "running"]
        /\ collector' = [collector EXCEPT ![t].pc = "collect"]
    BY <1>1, <2>2 DEF BeginRun
  <2>4. "running" \in Unfinished \cup Finished /\ "running" \in Unfinished
    BY DEF Unfinished
  <2>5. \A j \in DOMAIN collection :
          /\ collection'[j].account = collection[j].account
          /\ collection[j].status \in Unfinished => collection'[j].status \in Unfinished
    BY <1>0, <2>2, <2>3, <2>4, RunUpdated
  <2>6. \A u \in Collectors :
          /\ collector'[u].queue = collector[u].queue
          /\ collector'[u].pc = "insert" =>
               collector[u].pc = "insert" /\ collector'[u].chosen = collector[u].chosen
    BY <1>0, <2>3 DEF CollectorRow
  <2> DEFINE d == [u \in Collectors |-> 0]
  <2>7. ASSUME NEW u \in Collectors, NEW k \in DOMAIN collector'[u].queue
        PROVE  /\ k \in Nat /\ k + d[u] \in DOMAIN collector[u].queue
               /\ QueuedRun(u, k)'.account = QueuedRun(u, k + d[u]).account
               /\ QueuedRun(u, k)'.status \in Unfinished
    <3>1. k \in DOMAIN collector[u].queue /\ k \in Nat /\ k + d[u] = k
      BY <1>0, <2>6
    <3>2. QueuedRun(u, k)' = collection'[collector[u].queue[k]]
      BY <2>6 DEF QueuedRun
    <3> QED BY <3>1, <3>2, <1>0, <2>5 DEF QueuedRun
  <2>8. d \in [Collectors -> Nat]  OBVIOUS
  <2> HIDE DEF d
  <2> QED BY <2>6, <2>7, <2>8, QueuesShrink
<1>2. CASE EndRun(t) \/ LoseRecord(t)
  <2>1. collector[t].pc = "collect" /\ Advanced(t)
    BY <1>2 DEF EndRun, LoseRecord
  <2> DEFINE rest == Tail(collector[t].queue)
  <2>2. /\ Head(collector[t].queue) = collector[t].queue[1]
        /\ 1 \in DOMAIN collector[t].queue
        /\ collector[t].queue[1] \in DOMAIN collection
        /\ \A u \in Collectors \ {t} : collector'[u] = collector[u]
        /\ collector'[t].pc \in {"idle", "next"}
        /\ collector'[t].queue = rest
        /\ \A k \in DOMAIN rest : k + 1 \in DOMAIN collector[t].queue
                                  /\ rest[k] = collector[t].queue[k + 1]
    BY <2>1, QueueAdvanced
  <2>3. rest \in Seq(Nat)
    <3>1. collector[t].queue # <<>>  BY <2>1 DEF TrafficShape, CollectorShape
    <3> QED BY <3>1, <1>0
  <2> HIDE DEF rest
  <2>4. \A j \in DOMAIN collection :
          /\ collection'[j].account = collection[j].account
          /\ collection'[j].status = collection[j].status \/ j = collector[t].queue[1]
    <3>1. CASE EndRun(t)
      <4>1. PICK end \in Finished :
              collection' = [collection EXCEPT ![collector[t].queue[1]].status = end]
        BY <3>1, <2>2 DEF EndRun
      <4> QED BY <4>1, <1>0, <2>2, RunUpdated
    <3>2. CASE LoseRecord(t)  BY <3>2 DEF LoseRecord
    <3> QED BY <1>2, <3>1, <3>2
  <2> DEFINE d == [u \in Collectors |-> IF u = t THEN 1 ELSE 0]
  <2>5. ASSUME NEW u \in Collectors, NEW k \in DOMAIN collector'[u].queue
        PROVE  /\ k \in Nat /\ k + d[u] \in DOMAIN collector[u].queue
               /\ QueuedRun(u, k)'.account = QueuedRun(u, k + d[u]).account
               /\ QueuedRun(u, k)'.status \in Unfinished
    <3>1. /\ k \in Nat /\ k + d[u] \in DOMAIN collector[u].queue
          /\ collector'[u].queue[k] = collector[u].queue[k + d[u]]
          /\ u = t => k + d[u] # 1
      <4>1. CASE u = t
        <5>1. d[u] = 1 /\ k \in DOMAIN rest  BY <4>1, <2>2
        <5>2. k \in Nat /\ k # 0  BY <5>1, <2>3
        <5> QED BY <4>1, <5>1, <5>2, <2>2
      <4>2. CASE u # t
        <5>1. d[u] = 0 /\ collector'[u] = collector[u]  BY <4>2, <2>2
        <5>2. k \in Nat /\ k + 0 = k  BY <5>1, <1>0
        <5> QED BY <4>2, <5>1, <5>2
      <4> QED BY <4>1, <4>2
    <3> HIDE DEF d
    <3> DEFINE j == collector[u].queue[k + d[u]]
    <3>2. j \in DOMAIN collection /\ QueuedRun(u, k)' = collection'[j]
          /\ QueuedRun(u, k + d[u]) = collection[j]
      BY <3>1, <1>0 DEF QueuedRun
    <3>3. j # collector[t].queue[1]
      <4>1. QueuedRun(t, 1) = collection[collector[t].queue[1]]  BY DEF QueuedRun
      <4> QED BY <3>1, <3>2, <4>1, <2>2 DEF TrafficApart, QueuesApart
    <3>4. collection[j].status \in Unfinished  BY <3>1, <3>2, <1>0
    <3> HIDE DEF j
    <3> QED BY <3>1, <3>2, <3>3, <3>4, <2>4
  <2>6. \A u \in Collectors : collector'[u].pc = "insert" =>
          collector[u].pc = "insert" /\ collector'[u].chosen = collector[u].chosen
    BY <2>2
  <2>7. d \in [Collectors -> Nat]  OBVIOUS
  <2> HIDE DEF d
  <2> QED BY <2>5, <2>6, <2>7, QueuesShrink
<1>3. CASE LoadRuns(t) \/ LoseQueue(t)
  <2>1. /\ collection' = collection
        /\ \A u \in Collectors :
             /\ collector'[u].queue = <<>> \/ collector'[u].queue = collector[u].queue
             /\ collector'[u].pc = "insert" => collector'[u] = collector[u]
    <3>1. CASE LoadRuns(t)  BY <3>1, <1>0 DEF LoadRuns, CollectorRow
    <3>2. CASE LoseQueue(t)  BY <3>2, <1>0, RestTyped DEF LoseQueue
    <3> QED BY <1>3, <3>1, <3>2
  <2> DEFINE d == [u \in Collectors |-> 0]
  <2>2. d \in [Collectors -> Nat] /\ \A u \in Collectors : d[u] = 0  OBVIOUS
  <2> HIDE DEF d
  <2>3. ASSUME NEW u \in Collectors, NEW k \in DOMAIN collector'[u].queue
        PROVE  /\ k \in Nat /\ k + d[u] \in DOMAIN collector[u].queue
               /\ QueuedRun(u, k)'.account = QueuedRun(u, k + d[u]).account
               /\ QueuedRun(u, k)'.status \in Unfinished
    <3>1. collector'[u].queue = collector[u].queue
      <4>1. \A l \in DOMAIN <<>> : FALSE  OBVIOUS
      <4> QED BY <4>1, <2>1
    <3>2. k \in DOMAIN collector[u].queue /\ k \in Nat /\ k + d[u] = k
      BY <3>1, <1>0, <2>2
    <3>3. QueuedRun(u, k)' = QueuedRun(u, k)  BY <3>1, <2>1 DEF QueuedRun
    <3> QED BY <3>2, <3>3, <1>0
  <2> QED BY <2>1, <2>2, <2>3, QueuesShrink
<1> QED BY <1>1, <1>2, <1>3

(* The runs of an insertion are of accounts that no queue has.               *)
LEMMA InsertKeepsApart ==
  ASSUME TrafficShape, TrafficApart, NEW t \in Collectors, InsertRuns(t)
  PROVE  TrafficApart'
<1> USE DEF TrafficApart
<1>0. collector \in [Collectors -> CollectorRow]
      /\ \A u \in Collectors : \A k \in DOMAIN collector[u].queue :
                                 collector[u].queue[k] \in DOMAIN collection
  BY DEF TrafficShape, CollectorShape
<1>1. /\ collector[t].pc = "insert" /\ collector'[t].pc = "load"
      /\ collector' = [collector EXCEPT ![t] = collector'[t]]
      /\ \A i \in DOMAIN collection : collection'[i] = collection[i]
  BY InsertRows
<1>2. \A k \in DOMAIN collector'[t].queue :
        /\ QueuedRun(t, k)'.account \in collector[t].chosen
        /\ QueuedRun(t, k)'.status \in Unfinished
  BY InsertRows DEF QueuedRun
<1>3. \A k, l \in DOMAIN collector'[t].queue :
        QueuedRun(t, k)'.account = QueuedRun(t, l)'.account => k = l
  BY InsertRows DEF QueuedRun
<1>4. \A u \in Collectors \ {t} :
        /\ collector'[u] = collector[u] /\ collector[u].pc # "insert"
        /\ \A k \in DOMAIN collector[u].queue :
             /\ QueuedRun(u, k)' = QueuedRun(u, k)
             /\ QueuedRun(u, k).account \notin collector[t].chosen
  <2> SUFFICES ASSUME NEW u \in Collectors \ {t}
               PROVE  /\ collector'[u] = collector[u] /\ collector[u].pc # "insert"
                      /\ \A k \in DOMAIN collector[u].queue :
                           /\ QueuedRun(u, k)' = QueuedRun(u, k)
                           /\ QueuedRun(u, k).account \notin collector[t].chosen
    OBVIOUS
  <2>1. collector'[u] = collector[u]  BY <1>0, <1>1
  <2>2. collector[u].pc # "insert"  BY <1>1 DEF OneInserts
  <2>3. \A k \in DOMAIN collector[u].queue : QueuedRun(u, k)' = QueuedRun(u, k)
    BY <2>1, <1>0, <1>1 DEF QueuedRun
  <2> QED BY <2>1, <2>2, <2>3, <1>1 DEF ChosenUnqueued
<1>5. QueuesApart'
  <2> SUFFICES ASSUME NEW u \in Collectors, NEW w \in Collectors,
                      NEW k \in DOMAIN collector'[u].queue,
                      NEW l \in DOMAIN collector'[w].queue,
                      QueuedRun(u, k)'.account = QueuedRun(w, l)'.account
               PROVE  u = w /\ k = l
    BY DEF QueuesApart
  <2>1. CASE u = t /\ w = t  BY <2>1, <1>3
  <2>2. CASE u = t /\ w # t  BY <2>2, <1>2, <1>4
  <2>3. CASE u # t /\ w = t  BY <2>3, <1>2, <1>4
  <2>4. CASE u # t /\ w # t  BY <2>4, <1>4 DEF QueuesApart
  <2> QED BY <2>1, <2>2, <2>3, <2>4
<1>6. QueuedUnfinished'
  <2> SUFFICES ASSUME NEW u \in Collectors, NEW k \in DOMAIN collector'[u].queue
               PROVE  QueuedRun(u, k)'.status \in Unfinished
    BY DEF QueuedUnfinished
  <2> QED BY <1>2, <1>4 DEF QueuedUnfinished
<1>7. \A u \in Collectors : collector'[u].pc # "insert"  BY <1>1, <1>4
<1>8. OneInserts' /\ ChosenUnqueued'  BY <1>7 DEF OneInserts, ChosenUnqueued
<1> QED BY <1>5, <1>6, <1>8

(* Who looks alone chooses no account that a queue has.                      *)
LEMMA LookUpKeepsApart ==
  ASSUME TrafficShape, TrafficApart, NEW t \in Collectors, LookUp(t), ~mixed'
  PROVE  TrafficApart'
<1> USE DEF TrafficApart
<1>0. collector \in [Collectors -> CollectorRow]
      /\ \A u \in Collectors : \A k \in DOMAIN collector[u].queue :
                                 collector[u].queue[k] \in DOMAIN collection
  BY DEF TrafficShape, CollectorShape
<1>1. PICK asked \in SUBSET Accounts :
        collector' = [collector EXCEPT ![t] = [AtRest EXCEPT !.pc = "insert",
          !.chosen = {a \in asked : ~Active(a) /\ (t[2] = "scheduler" =>
                                                     ~Synchronised(a) /\ ~Exhausted(a))}]]
  BY DEF LookUp
<1> DEFINE chosen == {a \in asked : ~Active(a) /\ (t[2] = "scheduler" =>
                                                     ~Synchronised(a) /\ ~Exhausted(a))}
           row == [AtRest EXCEPT !.pc = "insert", !.chosen = chosen]
<1>2. /\ collector[t].pc = "idle" /\ collection' = collection
      /\ \A u \in Collectors : collector[u].pc # "insert"
  <2>1. ~(mixed \/ \E u \in Collectors : collector[u].pc = "insert")  BY DEF LookUp
  <2> QED BY <2>1 DEF LookUp
<1>3. row.queue = <<>> /\ row.chosen = chosen  BY DEF AtRest
<1>4. \A a \in chosen : ~Active(a)  OBVIOUS
<1>5. collector' = [collector EXCEPT ![t] = row]  BY <1>1
<1> HIDE DEF row, chosen
<1>6. /\ \A u \in Collectors \ {t} : collector'[u] = collector[u]
      /\ collector'[t].queue = <<>> /\ collector'[t].chosen = chosen
      /\ collector[t].queue = <<>>
  BY <1>0, <1>2, <1>3, <1>5 DEF TrafficShape, CollectorShape
<1>7. \A u \in Collectors : collector'[u].queue = collector[u].queue  BY <1>6
<1>8. \A u \in Collectors : \A k \in DOMAIN collector[u].queue :
        QueuedRun(u, k)' = QueuedRun(u, k)
  BY <1>2, <1>7 DEF QueuedRun
<1>9. \A u \in Collectors : collector'[u].pc = "insert" => u = t  BY <1>2, <1>6
<1>10. QueuesApart'  BY <1>7, <1>8 DEF QueuesApart
<1>11. QueuedUnfinished'  BY <1>7, <1>8 DEF QueuedUnfinished
<1>12. OneInserts'  BY <1>9 DEF OneInserts
<1>13. ASSUME NEW u \in Collectors, NEW k \in DOMAIN collector[u].queue
       PROVE  QueuedRun(u, k).account \notin chosen
  <2>1. /\ collector[u].queue[k] \in DOMAIN collection
        /\ QueuedRun(u, k).status \in Unfinished
    BY <1>0 DEF QueuedUnfinished
  <2>2. Active(QueuedRun(u, k).account)  BY <2>1 DEF Active, RunsOf, QueuedRun
  <2> QED BY <2>2, <1>4
<1>14. ChosenUnqueued'  BY <1>6, <1>7, <1>8, <1>9, <1>13 DEF ChosenUnqueued
<1> QED BY <1>10, <1>11, <1>12, <1>14

(* A death empties the queues of a process; a start that finds the others at     *)
(* rest finds every queue empty.                                            *)
LEMMA ProcessKeepsApart ==
  ASSUME TrafficShape, TrafficApart, NEW p \in TrafficProcs,
         StopProcess(p) \/ StartProcess(p) \/ ChangeChief(p), ~mixed'
  PROVE  TrafficApart'
<1> DEFINE d == [u \in Collectors |-> 0]
<1>0. /\ \A u \in Collectors : \A k \in DOMAIN collector[u].queue :
           k \in Nat /\ QueuedRun(u, k).status \in Unfinished
      /\ \A k \in DOMAIN <<>> : FALSE
      /\ \A u \in Collectors : collector[u].pc = "idle" => collector[u].queue = <<>>
  BY DEF TrafficShape, CollectorShape, CollectorRow, TrafficApart, QueuedUnfinished
<1>1. \A u \in Collectors :
        /\ collector'[u].pc = "insert" =>
             collector[u].pc = "insert" /\ collector'[u].chosen = collector[u].chosen
        /\ \A k \in DOMAIN collector'[u].queue :
             k \in DOMAIN collector[u].queue /\ QueuedRun(u, k)' = QueuedRun(u, k)
  <2>1. CASE StopProcess(p)
    <3>1. collection' = collection
          /\ \A u \in Collectors : collector'[u] = AtRest \/ collector'[u] = collector[u]
      BY <2>1 DEF StopProcess
    <3> QED BY <3>1, <1>0, RestTyped DEF QueuedRun
  <2>2. CASE StartProcess(p)
    <3>1. ~(mixed \/ \E t \in Collectors : collector[t].pc # "idle")
          /\ collector' = collector
      BY <2>2 DEF StartProcess
    <3> QED BY <3>1, <1>0
  <2>3. CASE ChangeChief(p)  BY <2>3 DEF ChangeChief, QueuedRun
  <2> QED BY <2>1, <2>2, <2>3
<1>2. d \in [Collectors -> Nat] /\ \A u \in Collectors : d[u] = 0  OBVIOUS
<1> HIDE DEF d
<1>3. ASSUME NEW u \in Collectors, NEW k \in DOMAIN collector'[u].queue
      PROVE  /\ k \in Nat /\ k + d[u] \in DOMAIN collector[u].queue
             /\ QueuedRun(u, k)'.account = QueuedRun(u, k + d[u]).account
             /\ QueuedRun(u, k)'.status \in Unfinished
  <2>1. k \in DOMAIN collector[u].queue /\ QueuedRun(u, k)' = QueuedRun(u, k)  BY <1>1
  <2>2. k \in Nat /\ QueuedRun(u, k).status \in Unfinished  BY <2>1, <1>0
  <2>3. k + d[u] = k  BY <2>2, <1>2
  <2> QED BY <2>1, <2>2, <2>3
<1> QED BY <1>1, <1>2, <1>3, QueuesShrink

(* For any number of accounts, threads and processes, two threads have runs of    *)
(* one account only if they looked at one moment or a process that started has   *)
(* declared a live run interrupted.                                         *)
THEOREM CollectorsApart == TrafficSpec => []AccountsApart
<1>1. TrafficInit => TrafficInv
  <2> SUFFICES ASSUME TrafficInit PROVE TrafficApart
    BY TrafficShapeInit DEF TrafficInv
  <2>1. \A u \in Collectors :
          collector[u].pc = "idle" /\ \A k \in DOMAIN collector[u].queue : FALSE
    BY RestTyped DEF TrafficInit
  <2> QED BY <2>1 DEF TrafficApart, QueuesApart, QueuedUnfinished, OneInserts,
                      ChosenUnqueued
<1>2. TrafficInv /\ [TrafficNext]_trafficVars => TrafficInv'
  <2> SUFFICES ASSUME TrafficInv, [TrafficNext]_trafficVars, ~mixed' PROVE TrafficApart'
    BY TrafficShapeStep DEF TrafficInv
  <2>0. TrafficShape  BY DEF TrafficInv
  <2>1. CASE TrafficNext
    <3>1. mixed => mixed'
      BY <2>0, <2>1 DEF TrafficNext, LookUp, CollectorStep, InsertRuns, LoadRuns,
         LoseQueue, BeginRun, EndRun, LoseRecord, StopProcess, StartProcess, ChangeChief, TrafficShape, TrafficTypeOK
    <3>2. TrafficApart  BY <3>1 DEF TrafficInv
    <3> QED BY <2>0, <2>1, <3>2, RunsKeepApart, InsertKeepsApart, LookUpKeepsApart,
               ProcessKeepsApart DEF TrafficNext, CollectorStep
  <2>2. CASE UNCHANGED trafficVars
    BY <2>2 DEF trafficVars, TrafficInv, TrafficApart, QueuesApart, QueuedUnfinished,
                OneInserts, ChosenUnqueued, QueuedRun
  <2> QED BY <2>1, <2>2
<1>3. TrafficInv => AccountsApart
  <2> SUFFICES ASSUME TrafficInv, ~mixed, NEW t \in Collectors, NEW u \in Collectors, t # u
               PROVE  {collection[collector[t].queue[k]].account :
                         k \in DOMAIN collector[t].queue} \cap
                      {collection[collector[u].queue[k]].account :
                         k \in DOMAIN collector[u].queue} = {}
    BY DEF AccountsApart
  <2>1. QueuesApart  BY DEF TrafficInv, TrafficApart
  <2> QED BY <2>1 DEF QueuesApart, QueuedRun
<1> QED BY <1>1, <1>2, <1>3, PTL DEF TrafficSpec
-----------------------------------------------------------------------------
(* The types of the three modules, in the run that checks them together.       *)
THEOREM UpkeepTyped == MCSpec => []TypesOK
<1>1. MCInit => LeaderTypeOK /\ TokenTypeOK /\ TrafficShape
  BY LeaderInitTyped, TokenInitTyped, TrafficShapeInit DEF MCInit
<1>2. LeaderTypeOK /\ TokenTypeOK /\ TrafficShape /\ [MCNext]_mcVars
        => LeaderTypeOK' /\ TokenTypeOK' /\ TrafficShape'
  <2> SUFFICES ASSUME LeaderTypeOK, TokenTypeOK, TrafficShape, [MCNext]_mcVars
               PROVE  LeaderTypeOK' /\ TokenTypeOK' /\ TrafficShape'
    OBVIOUS
  <2>1. [LeaderNext]_leaderVars
    BY DEF MCNext, MCLeader, MCTokens, MCTraffic, mcVars
  <2>2. [TokenNext]_tokenVars
    BY DEF MCNext, MCLeader, MCTokens, MCTraffic, mcVars
  <2>3. [TrafficNext]_trafficVars
    BY DEF MCNext, MCLeader, MCTokens, MCTraffic, mcVars
  <2>4. LeaderTypeOK'
    BY <2>1, LeaderStepTyped DEF LeaderNext, leaderVars, LeaderTypeOK
  <2> QED BY <2>2, <2>3, <2>4, TokenTypeStep, TrafficShapeStep
<1>3. LeaderTypeOK /\ TokenTypeOK /\ TrafficShape => TypesOK
  BY DEF TrafficShape, TypesOK
<1> QED BY <1>1, <1>2, <1>3, PTL DEF MCSpec
=============================================================================
