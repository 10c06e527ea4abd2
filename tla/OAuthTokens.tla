------------------------------ MODULE OAuthTokens ------------------------------
(***************************************************************************)
(* Refresh of one marketplace account's OAuth token (app/oauth_tokens.py):   *)
(* the periodic maintenance of the scheduler's leader and the refresh a      *)
(* business call does before it needs the token.                           *)
(*                                                                         *)
(* The credentials are one encrypted column, so every commit writes all of   *)
(* them, whatever another session stored since they were read.  The          *)
(* marketplace rotates the refresh token: each use yields its successor and  *)
(* makes it invalid.  Times are countdowns, so no clock bounds the model.    *)
(* The account has a refresh token and client data.                        *)
(***************************************************************************)
EXTENDS Naturals

CONSTANTS
  NoOne,          \* no thread
  TokenProcs,     \* processes of the service
  Callers,        \* processes that also run business calls
  Forced,         \* may a call answered 401 force a refresh?
  Window,         \* the platform's refresh window, in ticks
  Lifetime,       \* lifetime of an access token
  MarkerLife,     \* what is left of TOKEN_REFRESH_LOCK_TIMEOUT when the account's
                  \* turn comes: the marker bears the start of the round
  CallTime,       \* timeout of the HTTP client
  MaxDeaths,      \* bound on the crashes of processes
  TokenFaults     \* a subset of {"lostAnswer", "noAnswer", "noCommit"}

ASSUME TokenAssumption ==
  /\ NoOne \notin {"maintain", "call"}
  /\ Callers \subseteq TokenProcs
  /\ {Window, Lifetime, MarkerLife, CallTime, MaxDeaths} \subseteq Nat
  /\ Window < Lifetime /\ 0 < CallTime /\ CallTime < MarkerLife
  /\ Forced \in BOOLEAN
  /\ TokenFaults \subseteq {"lostAnswer", "noAnswer", "noCommit"}

(* One maintenance thread and one business thread per process.             *)
Kinds == {"maintain", "call"}
Threads == TokenProcs \X Kinds

VARIABLES
  leading,   \* the process whose scheduler runs the maintenance job
  creds,     \* column encrypted_credentials
  status,    \* column authorization_status
  held,      \* held[p]: the thread that holds p's lock of the account
  thread,    \* thread[t]: where thread t is, and the credentials it works with
  deaths,    \* crashes so far
  lost,      \* has the accepted token died with its process, its answer
             \* or the commit that was to store it?
  raced      \* has a business call refreshed beside another refresh?

(* lost and raced are history, for the properties.                         *)
tokenVars == <<leading, creds, status, held, thread, deaths, lost, raced>>

(* accepted: does the marketplace still accept this refresh token?  left:    *)
(* ticks to access_token_expires_at; marker: ticks that                     *)
(* token_refresh_started_at still keeps other maintenances out, 0 if none.   *)
Credentials == [accepted : BOOLEAN, left : 0..Lifetime, marker : 0..MarkerLife]
NoCreds == [accepted |-> FALSE, left |-> 0, marker |-> 0]

Idle == [pc |-> "idle", creds |-> NoCreds, answer |-> "none", budget |-> 0]
Thread == [pc : {"idle", "mark", "wait", "ask", "write"}, creds : Credentials,
           answer : {"none", "ok", "error", "invalid"}, budget : 0..CallTime]

TokenTypeOK ==
  /\ leading \in TokenProcs
  /\ creds \in Credentials
  /\ status \in {"success", "failed"}
  /\ held \in [TokenProcs -> Kinds \cup {NoOne}]
  /\ thread \in [Threads -> Thread]
  /\ deaths \in 0..MaxDeaths
  /\ lost \in BOOLEAN /\ raced \in BOOLEAN

TokenInit ==
  /\ leading \in TokenProcs
  /\ creds = [accepted |-> TRUE, left |-> Lifetime, marker |-> 0]
  /\ status = "success"
  /\ held = [p \in TokenProcs |-> NoOne]
  /\ thread = [t \in Threads |-> Idle]
  /\ deaths = 0 /\ lost = FALSE /\ raced = FALSE

(* _token_refresh_due, _token_expired: within the window of its expiry.     *)
Due(c) == c.left <= Window

(* Mutant: the marker of another maintenance is not looked at.             *)
MarkedNever(c) == FALSE
Marked(c) == c.marker > 0

Refreshing(t) == thread[t].pc \in {"mark", "ask", "write"}
-----------------------------------------------------------------------------
(* maintain_oauth_tokens: the lock of this process, without waiting for it,  *)
(* the row re-read, and nothing to do unless it is due and unmarked.       *)
Maintain(p) ==
  LET t == <<p, "maintain">> IN
  /\ leading = p /\ thread[t].pc = "idle" /\ held[p] = NoOne
  /\ Due(creds) /\ ~Marked(creds)
  /\ held' = [held EXCEPT ![p] = "maintain"]
  /\ thread' = [thread EXCEPT ![t] =
       [Idle EXCEPT !.pc = "mark", !.creds = [creds EXCEPT !.marker = MarkerLife]]]
  /\ raced' = (raced \/ \E q \in Callers : Refreshing(<<q, "call">>))
  /\ UNCHANGED <<deaths, leading, creds, status, lost>>

Mark(p) ==
  LET t == <<p, "maintain">> IN
  /\ thread[t].pc = "mark"
  /\ creds' = thread[t].creds
  /\ thread' = [thread EXCEPT ![t].pc = "ask", ![t].budget = CallTime]
  /\ UNCHANGED <<deaths, leading, status, held, lost, raced>>

(* ensure_access_token: the caller has loaded the account and decrypted it   *)
(* before it waits for the lock ...                                        *)
Call(p) ==
  LET t == <<p, "call">> IN
  /\ p \in Callers /\ thread[t].pc = "idle"
  /\ Due(creds) \/ Forced
  /\ thread' = [thread EXCEPT ![t] = [Idle EXCEPT !.pc = "wait", !.creds = creds]]
  /\ UNCHANGED <<deaths, leading, creds, status, held, lost, raced>>

(* ... and what it decrypts again under the lock is the object its session   *)
(* loaded then: no commit of its own has expired it in between.            *)
CallLocked(p) ==
  LET t == <<p, "call">> IN
  /\ thread[t].pc = "wait" /\ held[p] = NoOne
  /\ held' = [held EXCEPT ![p] = "call"]
  /\ thread' = [thread EXCEPT ![t].pc = "ask", ![t].budget = CallTime]
  /\ raced' = (raced \/ thread[t].creds.accepted # creds.accepted
                     \/ \E u \in Threads : Refreshing(u))
  /\ UNCHANGED <<deaths, leading, creds, status, lost>>
-----------------------------------------------------------------------------
Used(c) == [c EXCEPT !.accepted = FALSE]

(* refresh_access_token, at the marketplace: it takes a token once, and then  *)
(* no copy of it anywhere is accepted any more.                            *)
Rotate(t, row) ==
  /\ thread[t].creds.accepted
  /\ creds' = Used(creds)
  /\ thread' = [u \in Threads |->
                  IF u = t THEN row ELSE [thread[u] EXCEPT !.creds = Used(@)]]

(* The answer with the new tokens (_token_payload_from_response), a refusal   *)
(* of a used token, or an error: the request or its answer was lost.        *)
Answered(t) ==
  /\ thread[t].pc = "ask"
  /\ \/ /\ Rotate(t, [thread[t] EXCEPT !.pc = "write", !.answer = "ok",
                                       !.creds.left = Lifetime])
     \/ /\ ~thread[t].creds.accepted
        /\ thread' = [thread EXCEPT ![t].pc = "write", ![t].answer = "invalid"]
        /\ UNCHANGED creds
  /\ UNCHANGED <<deaths, leading, status, held, lost, raced>>

Unanswered(t) ==
  /\ thread[t].pc = "ask"
  /\ \/ /\ "noAnswer" \in TokenFaults
        /\ thread' = [thread EXCEPT ![t].pc = "write", ![t].answer = "error"]
        /\ UNCHANGED <<creds, lost>>
     \/ /\ "lostAnswer" \in TokenFaults
        /\ Rotate(t, [thread[t] EXCEPT !.pc = "write", !.answer = "error",
                                       !.creds = Used(@)])
        /\ lost' = TRUE
  /\ UNCHANGED <<deaths, leading, status, held, raced>>

Release(t) ==
  /\ held' = [held EXCEPT ![t[1]] = NoOne]
  /\ thread' = [thread EXCEPT ![t] = Idle]

(* _store_refreshed_credentials; the maintenance drops its marker, a business *)
(* call keeps whatever marker it read.                                     *)
Store(t) ==
  /\ thread[t].pc = "write" /\ thread[t].answer = "ok"
  /\ creds' = IF t[2] = "maintain" THEN [thread[t].creds EXCEPT !.marker = 0]
                                   ELSE thread[t].creds
  /\ status' = "success"
  /\ Release(t)
  /\ UNCHANGED <<deaths, leading, lost, raced>>

(* The commit fails and the new token with it.  The maintenance goes on to    *)
(* record a failure, with the row's own credentials; or its session refuses   *)
(* that, too, and the exception leaves the thread, as a business call's does.  *)
StoreFails(t) ==
  /\ "noCommit" \in TokenFaults
  /\ thread[t].pc = "write" /\ thread[t].answer = "ok"
  /\ lost' = TRUE
  /\ \/ Release(t)
     \/ /\ t[2] = "maintain"
        /\ thread' = [thread EXCEPT ![t].answer = "error", ![t].creds = creds]
        /\ UNCHANGED held
  /\ UNCHANGED <<deaths, leading, creds, status, raced>>

Failed(t) == thread[t].pc = "write" /\ thread[t].answer \in {"error", "invalid"}

(* The maintenance re-reads the row after a failure and drops the marker ... *)
Reread(p) ==
  LET t == <<p, "maintain">> IN
  /\ Failed(t) /\ Marked(thread[t].creds)
  /\ thread' = [thread EXCEPT ![t].creds = [creds EXCEPT !.marker = 0]]
  /\ UNCHANGED <<deaths, leading, creds, status, held, lost, raced>>

(* ... and _record_token_refresh_failure writes the credentials it was given; *)
(* only a refused token asks for a new authorisation.                      *)
RecordFailure(t) ==
  /\ Failed(t) /\ ~(t[2] = "maintain" /\ Marked(thread[t].creds))
  /\ creds' = thread[t].creds
  /\ status' = IF thread[t].answer = "invalid" THEN "failed" ELSE status
  /\ Release(t)
  /\ UNCHANGED <<deaths, leading, lost, raced>>
-----------------------------------------------------------------------------
(* Another process becomes leader; the old one's job, if any, runs on.  The   *)
(* new leader's job first fires an interval later, long after a marker.     *)
ChangeLeader(p) ==
  /\ leading # p
  /\ \A q \in TokenProcs : thread[<<q, "maintain">>].pc # "mark"
  /\ leading' = p
  /\ UNCHANGED <<deaths, creds, status, held, thread, lost, raced>>

(* A crash: the process comes back with no thread and no lock.             *)
Die(p) ==
  /\ deaths < MaxDeaths /\ held[p] # NoOne
  /\ deaths' = deaths + 1
  /\ lost' = (lost \/ \E t \in Threads : t[1] = p /\ thread[t].answer = "ok")
  /\ held' = [held EXCEPT ![p] = NoOne]
  /\ thread' = [t \in Threads |-> IF t[1] = p THEN Idle ELSE thread[t]]
  /\ UNCHANGED <<leading, creds, status, raced>>

(* Mutant: the marker has no time limit.                                   *)
OlderMarked(c) == [c EXCEPT !.left = IF @ > 0 THEN @ - 1 ELSE 0]
Older(c) == [c EXCEPT !.left = IF @ > 0 THEN @ - 1 ELSE 0,
                      !.marker = IF @ > 0 THEN @ - 1 ELSE 0]

(* Time passes; a request is over within its timeout, and the few statements  *)
(* around it take less than a tick.                                        *)
Advance ==
  /\ \A t \in Threads : /\ thread[t].pc \notin {"mark", "write"}
                        /\ thread[t].pc = "ask" => thread[t].budget > 0
  /\ creds' = Older(creds)
  /\ thread' = [t \in Threads |->
                  IF thread[t].pc = "idle" THEN Idle
                  ELSE [thread[t] EXCEPT !.creds = Older(@),
                                         !.budget = IF @ > 0 THEN @ - 1 ELSE 0]]
  /\ UNCHANGED <<deaths, leading, status, held, lost, raced>>

ProcessStep(p) ==
  \/ Maintain(p) \/ Mark(p) \/ Call(p) \/ CallLocked(p) \/ Reread(p)
  \/ ChangeLeader(p) \/ Die(p)

ThreadStep(t) ==
  \/ Answered(t) \/ Unanswered(t)
  \/ Store(t) \/ StoreFails(t) \/ RecordFailure(t)

TokenNext ==
  \/ \E p \in TokenProcs : ProcessStep(p)
  \/ \E t \in Threads : ThreadStep(t)
  \/ Advance

TokenSpec == TokenInit /\ [][TokenNext]_tokenVars

(* The maintenance job keeps firing in whichever process leads, a thread that  *)
(* got this far goes on, and not every request is lost ...                  *)
TokenProgress ==
  /\ SF_tokenVars(\E p \in TokenProcs : Maintain(p))
  /\ SF_tokenVars(\E t \in Threads : Answered(t))
  /\ \A p \in TokenProcs : WF_tokenVars(Mark(p) \/ CallLocked(p) \/ Reread(p))
  /\ \A t \in Threads : WF_tokenVars(ThreadStep(t))

(* ... and time passes.                                                    *)
TokenFairness == TokenProgress /\ SF_tokenVars(Advance)
-----------------------------------------------------------------------------
(* The token the marketplace accepts is stored, or in the hands of the thread *)
(* that received it, or it died with a process, an answer or a failed commit: *)
(* no concurrent refresh overwrites it                                      *)
(* (marketplace-integration-phase2-research.md 9.2).                        *)
LockKeepsToken ==
  \/ creds.accepted
  \/ \E t \in Threads : thread[t].answer = "ok" /\ thread[t].creds.accepted
  \/ lost

(* The same among maintenances alone, across changes of leader and crashes:   *)
(* the marker keeps a second leader out while the first one's request lasts.  *)
(* And the account asks for a new authorisation only if its token is lost.    *)
RotationKept == raced \/ (LockKeepsToken /\ (status = "failed" => lost))

(* A token that is due is refreshed, or the account asks for a new            *)
(* authorisation, also when the refreshing process dies half-way and leaves   *)
(* its marker behind.                                                      *)
DueIsHandled == (Due(creds) /\ status = "success") ~> (~Due(creds) \/ status = "failed")
=============================================================================
