--------------------------- MODULE PostPrintMonitor ---------------------------
(***************************************************************************)
(* What happens to the printed labels of one pipeline run after it has ended    *)
(* (app/task_runner.py): every minute the scheduler's leader looks whether the   *)
(* run's jobs have left the printers' queues, tries to recover a printer that     *)
(* does not print, and reports it once.                                      *)
(*                                                                         *)
(* The monitor is a key of the run's stats_json, and a reprint by an operator     *)
(* also writes that column as a whole, from what it read before.              *)
(***************************************************************************)
EXTENDS Naturals, FiniteSets

CONSTANTS
  Printers,    \* printers the run printed on
  Watchers,    \* processes whose scheduler may scan: the leader and its successor
  WindowSize,  \* POST_PRINT_MONITOR_DURATION, in scans
  MaxReprints  \* bound on the reprints of the run

ASSUME MonitorAssumption == {WindowSize, MaxReprints} \subseteq Nat

VARIABLES
  queued,     \* printers with jobs of the run in their queue
  broken,     \* printers that are missing, paused or offline
  monitor,    \* stats_json["post_print_monitor"]
  scanner,    \* scanner[w]: the scan of process w
  reprint,    \* the stats a reprint request has read
  reprints,   \* reprints so far
  window,     \* scans left until expires_at
  messages,   \* messages[p]: reports of printer p that arrived; 2 for two or more
  disturbed,  \* has a scan met a reprint or another scan, or died after its report?
  doubted,    \* printers of a report that arrived though its request failed: those
              \* are no longer counted
  overlooked  \* printers with jobs in a queue that a scan has taken for empty

monitorVars == <<queued, broken, monitor, scanner, reprint, reprints, window, messages,
                 disturbed, doubted, overlooked>>

Monitors == [status : {"active", "completed", "expired"}, notified : SUBSET Printers]
Fresh == [status |-> "active", notified |-> {}]
NoScanner == [pc |-> "idle", view |-> Fresh]
NoReprint == [pc |-> "idle", view |-> Fresh]

MonitorTypeOK ==
  /\ queued \subseteq Printers /\ broken \subseteq Printers
  /\ monitor \in Monitors
  /\ scanner \in [Watchers -> [pc : {"idle", "look", "commit"}, view : Monitors]]
  /\ reprint \in [pc : {"idle", "commit"}, view : Monitors]
  /\ reprints \in 0..MaxReprints /\ window \in 0..WindowSize
  /\ messages \in [Printers -> 0..2] /\ disturbed \in BOOLEAN
  /\ doubted \subseteq Printers /\ overlooked \subseteq queued

(* _initialize_post_print_monitor, when the run ends: the printers of its        *)
(* submitted rows.                                                         *)
MonitorInit ==
  /\ queued = Printers /\ broken = {}
  /\ monitor = Fresh
  /\ scanner = [w \in Watchers |-> NoScanner] /\ reprint = NoReprint
  /\ reprints = 0 /\ window = WindowSize
  /\ messages = [p \in Printers |-> 0] /\ disturbed = FALSE
  /\ doubted = {} /\ overlooked = {}

Scanning(w) == scanner[w].pc # "idle"
-----------------------------------------------------------------------------
(* process_post_print_monitors selects the run; a monitor that is not active is   *)
(* passed over, one whose window is over expires.                             *)
SelectRun(w) ==
  /\ ~Scanning(w) /\ monitor.status = "active"
  /\ scanner' = [scanner EXCEPT ![w] =
       IF window = 0 THEN [pc |-> "commit", view |-> [monitor EXCEPT !.status = "expired"]]
                     ELSE [pc |-> "look", view |-> monitor]]
  /\ disturbed' = (disturbed \/ reprint.pc # "idle" \/ \E v \in Watchers : Scanning(v))
  /\ UNCHANGED <<queued, broken, monitor, reprint, reprints, window, messages,
                 doubted, overlooked>>

(* Mutant: a printer is reported whenever it does not print.                   *)
IncidentsAll(w, pending) == pending \cap broken

(* Printers with pending jobs that do not print and were not reported yet.       *)
Incidents(w, pending) == (pending \cap broken) \ scanner[w].view.notified

(* Mutant: a queue that lpstat could not read counts as empty.                  *)
OutcomeHasty(pending, unread) == IF pending = {} THEN "completed" ELSE "active"

(* The monitor is done when no queue is pending and lpstat has read all.         *)
Outcome(pending, unread) ==
  IF pending = {} /\ unread = {} THEN "completed" ELSE "active"

(* _process_post_print_monitor_run: the queues, up to three attempts to recover a  *)
(* printer, and one message about all of them.  lpstat may fail (unread).  A      *)
(* queue of Windows that cannot be read, or jobs whose id was not understood when  *)
(* they were submitted, look like an empty queue (blank).  The message may be       *)
(* sent, lost, or reported as failed after it arrived (late).                   *)
Report(w, pending, unread, recovered, message) ==
  LET incidents == Incidents(w, pending)
      sent == IF message = "sent" THEN incidents ELSE {} IN
  /\ recovered \subseteq incidents /\ (message = "none" <=> incidents = {})
  /\ broken' = broken \ recovered
  /\ doubted' = IF message = "late" THEN doubted \cup incidents ELSE doubted
  /\ messages' = [p \in Printers |-> IF p \in doubted' THEN 0
                    ELSE IF p \in sent /\ messages[p] < 2 THEN messages[p] + 1
                    ELSE messages[p]]
  /\ scanner' = [scanner EXCEPT ![w] =
       [pc |-> "commit",
        view |-> [status |-> Outcome(pending, unread),
                  notified |-> scanner[w].view.notified \cup sent]]]

Look(w) ==
  /\ scanner[w].pc = "look"
  /\ \E unread \in SUBSET Printers, recovered \in SUBSET Printers,
        message \in {"none", "sent", "lost", "late"} :
       \E blank \in SUBSET (queued \ unread) :
         /\ Report(w, queued \ (unread \cup blank), unread, recovered, message)
         /\ overlooked' = overlooked \cup blank
  /\ UNCHANGED <<queued, monitor, reprint, reprints, window, disturbed>>

(* One commit at the end of the scan.                                        *)
CommitScan(w) ==
  /\ scanner[w].pc = "commit"
  /\ monitor' = scanner[w].view
  /\ scanner' = [scanner EXCEPT ![w] = NoScanner]
  /\ UNCHANGED <<queued, broken, reprint, reprints, window, messages, disturbed,
                 doubted, overlooked>>

(* The scan raises or its process dies before the commit.                      *)
DropScan(w) ==
  /\ Scanning(w)
  /\ scanner' = [scanner EXCEPT ![w] = NoScanner]
  /\ disturbed' = (disturbed \/ scanner[w].view # monitor)
  /\ UNCHANGED <<queued, broken, monitor, reprint, reprints, window, messages,
                 doubted, overlooked>>
-----------------------------------------------------------------------------
(* _resume_run_after_manual_reprint copies stats_json, goes on with the purchase  *)
(* order and writes the copy back.                                           *)
ReadStats ==
  /\ reprint.pc = "idle" /\ reprints < MaxReprints
  /\ reprint' = [pc |-> "commit", view |-> monitor]
  /\ reprints' = reprints + 1
  /\ disturbed' = (disturbed \/ \E w \in Watchers : Scanning(w))
  /\ UNCHANGED <<queued, broken, monitor, scanner, window, messages,
                 doubted, overlooked>>

WriteStats ==
  /\ reprint.pc = "commit"
  /\ monitor' = reprint.view
  /\ reprint' = NoReprint
  /\ UNCHANGED <<queued, broken, scanner, reprints, window, messages, disturbed,
                 doubted, overlooked>>

(* Printers break down and are repaired; jobs leave the queue; minutes pass.      *)
PrinterChange ==
  /\ \/ \E p \in Printers \ broken : broken' = broken \cup {p} /\ UNCHANGED <<queued, overlooked>>
     \/ \E p \in broken : broken' = broken \ {p} /\ UNCHANGED <<queued, overlooked>>
     \/ \E p \in queued \ broken :
          queued' = queued \ {p} /\ overlooked' = overlooked \ {p} /\ UNCHANGED broken
  /\ UNCHANGED <<monitor, scanner, reprint, reprints, window, messages, disturbed, doubted>>

PassMinute ==
  /\ window > 0 /\ window' = window - 1
  /\ UNCHANGED <<queued, broken, monitor, scanner, reprint, reprints, messages, disturbed,
                 doubted, overlooked>>

MonitorNext ==
  \/ \E w \in Watchers : SelectRun(w) \/ Look(w) \/ CommitScan(w) \/ DropScan(w)
  \/ ReadStats \/ WriteStats \/ PrinterChange \/ PassMinute

MonitorSpec == MonitorInit /\ [][MonitorNext]_monitorVars
-----------------------------------------------------------------------------
(* A printer is reported once, whatever breaks down, recovers and breaks down       *)
(* again, however often a message was lost or a scan failed, unless a message        *)
(* about it arrived and its request failed.  A run followed to the end has left all  *)
(* queues but those that looked empty to a scan.  A reprint that writes back what it  *)
(* read, two leaders and a scan that dies after its message are excepted from the    *)
(* former only.                                                              *)
ReportedOnce ==
  /\ disturbed \/ \A p \in Printers \ doubted : messages[p] <= 1
  /\ monitor.status = "completed" => queued \subseteq overlooked
=============================================================================
