----------------------------- MODULE OrderPipeline -----------------------------
(***************************************************************************)
(* The automatic order pipeline (app/task_runner.py,                        *)
(* _auto_order_pipeline_async) and the requests of operators that change the *)
(* same orders (app/main.py): waiting for labels, printing, purchase,        *)
(* picking.                                                                 *)
(*                                                                         *)
(* A chain is a run with its retries; of several chains (scheduled, manual,   *)
(* caught up) each may be active at the same time as the others.  An order is *)
(* printed alone, as the only one of its platform.  A label can be ready at   *)
(* any time.  Every action is one commit or one request to the printer.      *)
(***************************************************************************)
EXTENDS Naturals, FiniteSets

CONSTANTS
  Orders,
  Chains,         \* chains of runs that may be active at once
  Operators,      \* what else changes orders: "print", "pick", "ship", "delete", "name"
  Faults,         \* a subset of {"printer", "raise", "crash"}
  MaxRetries,     \* max_retry_count of the task
  MaxPapers,      \* bound on the labels printed for one order
  MaxPurchases    \* bound on the purchase orders

ASSUME PipelineAssumption ==
  /\ Operators \subseteq {"print", "pick", "ship", "delete", "name"}
  /\ Faults \subseteq {"printer", "raise", "crash"}
  /\ {MaxRetries, MaxPapers, MaxPurchases} \subseteq Nat

VARIABLES
  order,       \* order[o]: row of orders, with the purchase its items are in
  purchases,   \* number of purchase orders so far; they are numbered from 1
  paper,       \* paper[o]: labels the pipeline has handed to the printer
  chain,       \* chain[c]: where the current run of chain c is
  byHand,      \* byHand[o]: a request to pick o, and whether it found a purchase
  shared,      \* history: orders that two active chains had selected
  unmarked,    \* history: orders of which a label came out that no run marked
  stripped     \* history: orders whose purchase was deleted with no way back

pipelineVars == <<order, purchases, paper, chain, byHand, shared, unmarked, stripped>>

(* biz_status, in the order of an order's life.                             *)
Stage == [pending |-> 1, printing |-> 2, buying |-> 3, picking |-> 4, shipped |-> 5]
(* exempt: needs no label (overseas, exempt platform, no rule matches);        *)
(* nameless: has a product without a Chinese name.  recent: paid, and since    *)
(* PURCHASE_DELETE_ROLLBACK_PAYMENT_START_DATE.                             *)
Kinds == {"plain", "exempt", "nameless"}
OrderRow == [biz : DOMAIN Stage, kind : Kinds, recent : BOOLEAN, printed : BOOLEAN,
             purchase : 0..MaxPurchases]

(* sel, submitted: rows of scheduled_task_run_orders of all runs of the chain,  *)
(* and those with print_submitted.  labels: orders the run is to print;        *)
(* done: those it has printed, or need not; hand: those just printed, without   *)
(* a record; buy: those to purchase.                                         *)
Ended == [pc |-> "ended", attempt |-> 0, sel |-> {}, submitted |-> {}, labels |-> {},
          done |-> {}, hand |-> {}, buy |-> {}, failed |-> FALSE]
Chain == [pc : {"ended", "retry", "split", "wait", "print", "filter", "buy", "pick"},
          attempt : 0..MaxRetries, sel : SUBSET Orders, submitted : SUBSET Orders,
          labels : SUBSET Orders, done : SUBSET Orders, hand : SUBSET Orders,
          buy : SUBSET Orders, failed : BOOLEAN]

PipelineTypeOK ==
  /\ order \in [Orders -> OrderRow]
  /\ purchases \in 0..MaxPurchases
  /\ paper \in [Orders -> 0..MaxPapers]
  /\ chain \in [Chains -> Chain]
  /\ byHand \in [Orders -> {"none", "new", "joined"}]
  /\ shared \subseteq Orders /\ unmarked \subseteq Orders /\ stripped \subseteq Orders

PipelineInit ==
  /\ order \in [Orders ->
        [biz : {"pending"}, kind : Kinds, recent : BOOLEAN, printed : {FALSE},
         purchase : {0}]
          \cup [biz : {"shipped"}, kind : {"plain"}, recent : {TRUE}, printed : {TRUE},
                purchase : {0}]]
  /\ purchases = 0
  /\ paper = [o \in Orders |-> 0]
  /\ chain = [c \in Chains |-> Ended]
  /\ byHand = [o \in Orders |-> "none"]
  /\ shared = {} /\ unmarked = {} /\ stripped = {}

Of(k) == {o \in Orders : order[o].kind = k}
InStage(s) == {o \in Orders : order[o].biz = s}
Put(S, s) == [o \in Orders |-> IF o \in S THEN [order[o] EXCEPT !.biz = s] ELSE order[o]]
history == <<shared, unmarked, stripped>>
-----------------------------------------------------------------------------
(* _select_pending_orders_for_run                                          *)
Selectable ==
  {o \in InStage("pending") \cup InStage("printing") : ~order[o].printed}
    \cup {o \in InStage("buying") : order[o].printed /\ order[o].purchase = 0}

(* _select_orders_for_run: a retry takes all orders of its chain's runs.     *)
ToSelect(c) == IF chain[c].sel # {} THEN chain[c].sel ELSE Selectable

(* A run starts, and its orders are recorded.                              *)
Select(c) ==
  /\ chain[c].pc \in {"ended", "retry"}
  /\ ToSelect(c) # {}
  /\ chain' = [chain EXCEPT ![c] =
       [Ended EXCEPT !.pc = "split", !.attempt = chain[c].attempt, !.sel = ToSelect(c),
                     !.submitted = chain[c].submitted]]
  /\ shared' = shared \cup
       {o \in ToSelect(c) : \E d \in Chains \ {c} : o \in chain[d].sel}
  /\ UNCHANGED <<order, purchases, paper, byHand, unmarked, stripped>>

(* After the overseas drafts: exempt orders are shipped at once, orders that   *)
(* wait for their purchase skip the labels.                                *)
Split(c) ==
  LET mine == chain[c].sel \cap (InStage("pending") \cup InStage("printing"))
      waiting == chain[c].sel \cap InStage("buying")
  IN
  /\ chain[c].pc = "split"
  /\ order' = Put((mine \cup waiting) \cap Of("exempt"), "shipped")
  /\ chain' = [chain EXCEPT ![c] =
       [@ EXCEPT !.pc = "wait", !.labels = mine \ Of("exempt"), !.buy = waiting \ Of("exempt")]]
  /\ UNCHANGED <<purchases, paper, byHand, history>>

After(ready) == IF ready = {} THEN "filter" ELSE "print"

(* The wait for tracking numbers and labels is over for some of the orders     *)
(* (_ready_rows_from_sync_stats does not look at biz_status), and             *)
(* _move_to_printing moves them whatever has become of them meanwhile.       *)
MoveToPrinting(c) ==
  /\ chain[c].pc = "wait"
  /\ \E ready \in SUBSET chain[c].labels :
       /\ order' = Put(ready, "printing")
       /\ chain' = [chain EXCEPT ![c] = [@ EXCEPT !.labels = ready, !.pc = After(ready)]]
  /\ UNCHANGED <<purchases, paper, byHand, history>>

(* Mutant: only this run's own submissions are known.                      *)
ReprintableAll(c) == chain[c].labels \ chain[c].done

(* rows_to_print: not printed by an earlier run of the chain.               *)
Reprintable(c) == chain[c].labels \ (chain[c].done \cup chain[c].submitted)

(* _submit_pdf_to_printer for the only order of a platform ...              *)
Copied(o) == paper[o] < MaxPapers /\ paper' = [paper EXCEPT ![o] = @ + 1]

PrintLabel(c) ==
  /\ chain[c].pc = "print" /\ chain[c].hand = {}
  /\ \E o \in Reprintable(c) :
       /\ Copied(o)
       /\ chain' = [chain EXCEPT ![c].hand = {o}]
  /\ UNCHANGED <<order, purchases, byHand, history>>

(* ... which reports a failure instead; the label may come out all the same     *)
(* (the job was queued when lp ran into its timeout).                       *)
PrintFails(c) ==
  /\ "printer" \in Faults
  /\ chain[c].pc = "print" /\ chain[c].hand = {}
  /\ \E o \in Reprintable(c) :
       /\ \/ UNCHANGED <<paper, unmarked>>
          \/ Copied(o) /\ unmarked' = unmarked \cup {o}
       /\ chain' = [chain EXCEPT ![c] = [@ EXCEPT !.failed = TRUE,
                                                  !.labels = chain[c].labels \ {o}]]
  /\ UNCHANGED <<order, purchases, byHand, shared, stripped>>

(* ... and the commit that records it, or one that takes over an earlier run's. *)
ToRecord(c) == IF chain[c].hand # {} THEN chain[c].hand
               ELSE (chain[c].labels \cap chain[c].submitted) \ chain[c].done

RecordPrint(c) ==
  /\ chain[c].pc = "print" /\ ToRecord(c) # {}
  /\ chain' = [chain EXCEPT ![c] = [@ EXCEPT
       !.submitted = chain[c].submitted \cup ToRecord(c), !.hand = {},
       !.done = chain[c].done \cup ToRecord(c)]]
  /\ UNCHANGED <<order, purchases, paper, byHand, history>>

(* Mutant: the run that used the last retry still gets one more.            *)
AfterRaiseOneMore(ch) ==
  IF ch.attempt <= MaxRetries
  THEN [ch EXCEPT !.pc = "retry", !.attempt = @ + 1, !.labels = {}, !.done = {},
                  !.hand = {}, !.buy = {}, !.failed = FALSE]
  ELSE Ended

(* The run raises: a retry, if any is left.                                 *)
AfterRaise(ch) ==
  IF ch.attempt < MaxRetries
  THEN [ch EXCEPT !.pc = "retry", !.attempt = @ + 1, !.labels = {}, !.done = {},
                  !.hand = {}, !.buy = {}, !.failed = FALSE]
  ELSE Ended

(* Mutant: a label with a record of its submission needs no mark.            *)
PrintedSetUnsubmitted(c) == chain[c].done \ chain[c].submitted

(* printed_rows: all labels this run printed or found printed.              *)
PrintedSet(c) == chain[c].done

(* _mark_labels_printed, also for a run that goes on to raise because another *)
(* label, or the Chinese labels, failed.                                   *)
Mark(c) ==
  /\ chain[c].pc = "print" /\ chain[c].hand = {} /\ chain[c].labels \subseteq chain[c].done
  /\ order' = [o \in Orders |-> IF o \in PrintedSet(c)
                                THEN [order[o] EXCEPT !.printed = TRUE] ELSE order[o]]
  /\ \/ /\ ~chain[c].failed
        /\ chain' = [chain EXCEPT ![c] =
             [@ EXCEPT !.pc = "filter", !.labels = {}, !.buy = chain[c].buy \cup chain[c].done]]
     \/ /\ chain[c].failed \/ "printer" \in Faults
        /\ chain' = [chain EXCEPT ![c] = AfterRaise(@)]
  /\ UNCHANGED <<purchases, paper, byHand, history>>
-----------------------------------------------------------------------------
(* _generate_purchase_and_move_to_picking: orders to buy leave the stage of    *)
(* printing; those with a nameless product stay behind.                     *)
Filter(c) ==
  LET left == chain[c].buy \ Of("nameless") IN
  /\ chain[c].pc = "filter"
  /\ order' = Put(chain[c].buy \cap InStage("printing"), "buying")
  /\ chain' = [chain EXCEPT ![c] = IF left = {} THEN Ended
                                   ELSE [@ EXCEPT !.pc = "buy", !.buy = left]]
  /\ UNCHANGED <<purchases, paper, byHand, history>>

(* _generate_purchase_order_for_orders with allow_existing: the one purchase   *)
(* that already has all of them, or a new one if none is in any.             *)
PurchaseFor(S) ==
  LET in == {order[o].purchase : o \in S} IN
  IF in = {0} THEN {purchases + 1} ELSE IF 0 \notin in /\ Cardinality(in) = 1 THEN in ELSE {}

Bought(S, p) == [o \in Orders |-> IF o \in S THEN [order[o] EXCEPT !.purchase = p]
                                  ELSE order[o]]

Buy(c) ==
  /\ chain[c].pc = "buy"
  /\ \E p \in PurchaseFor(chain[c].buy) :
       /\ p <= MaxPurchases
       /\ order' = Bought(chain[c].buy, p)
       /\ purchases' = IF p > purchases THEN p ELSE purchases
  /\ chain' = [chain EXCEPT ![c].pc = "pick"]
  /\ UNCHANGED <<paper, byHand, history>>

(* Some of the orders are in a purchase already, or are put into one while     *)
(* this transaction lasts (order_item_id is unique): it raises.              *)
BuyRaises(c) ==
  /\ chain[c].pc = "buy"
  /\ \E o \in chain[c].buy : order[o].purchase # 0
  /\ chain' = [chain EXCEPT ![c] = AfterRaise(@)]
  /\ UNCHANGED <<order, purchases, paper, byHand, history>>

(* _move_orders_to_picking_after_purchase, whatever stage they are in.       *)
Pick(c) ==
  /\ chain[c].pc = "pick"
  /\ order' = Put(chain[c].buy, "picking")
  /\ chain' = [chain EXCEPT ![c] = Ended]
  /\ UNCHANGED <<purchases, paper, byHand, history>>

(* Labels of c that came out, without a record or without their order's mark.  *)
Unsaid(c) == chain[c].hand \cup {o \in chain[c].done : ~order[o].printed}

(* A statement raises, at any point between two commits; or the timeout cancels  *)
(* the run, at an await, that is before the first label is printed.           *)
Raise(c) ==
  /\ "raise" \in Faults
  /\ chain[c].pc \notin {"ended", "retry"}
  /\ chain' = [chain EXCEPT ![c] = AfterRaise(@)]
  /\ unmarked' = unmarked \cup Unsaid(c)
  /\ UNCHANGED <<order, purchases, paper, byHand, shared, stripped>>

(* The process dies; the watchdog fails the run for good.                  *)
Crash(c) ==
  /\ "crash" \in Faults
  /\ chain[c].pc \notin {"ended", "retry"}
  /\ chain' = [chain EXCEPT ![c] = Ended]
  /\ unmarked' = unmarked \cup Unsaid(c)
  /\ UNCHANGED <<order, purchases, paper, byHand, shared, stripped>>
-----------------------------------------------------------------------------
(* batch_to_printing: without waiting for anything.                         *)
MoveByHand(o) ==
  /\ "print" \in Operators /\ order[o].biz = "pending"
  /\ order' = Put({o}, IF o \in Of("exempt") THEN "shipped" ELSE "printing")
  /\ UNCHANGED <<purchases, paper, chain, byHand, history>>

(* batch_print_label, batch_confirm_printed                                *)
PrintByHand(o) ==
  /\ "print" \in Operators /\ order[o].biz # "pending"
  /\ order' = [order EXCEPT ![o] = [@ EXCEPT !.printed = TRUE,
                  !.biz = IF order[o].biz = "printing" THEN "buying" ELSE order[o].biz]]
  /\ UNCHANGED <<purchases, paper, chain, byHand, history>>

(* batch_to_picking, for one order: its stage and its purchase are read ...   *)
ReadToPick(o) ==
  /\ "pick" \in Operators /\ order[o].biz = "buying" /\ byHand[o] = "none"
  /\ byHand' = [byHand EXCEPT ![o] = IF order[o].purchase = 0 THEN "new" ELSE "joined"]
  /\ UNCHANGED <<order, purchases, paper, chain, history>>

(* ... and the new stage is committed, with a new purchase unless one was found; *)
(* if the order has come into a purchase since, the request fails as a whole.   *)
PickByHand(o) ==
  /\ byHand[o] # "none"
  /\ byHand' = [byHand EXCEPT ![o] = "none"]
  /\ \/ /\ byHand[o] = "new" /\ order[o].purchase = 0 /\ purchases < MaxPurchases
        /\ order' = [order EXCEPT ![o] = [@ EXCEPT !.purchase = purchases + 1,
                                                   !.biz = "picking"]]
        /\ purchases' = purchases + 1
     \/ /\ byHand[o] = "new" /\ order[o].purchase # 0
        /\ UNCHANGED <<order, purchases>>
     \/ /\ byHand[o] = "joined"
        /\ order' = Put({o}, "picking")
        /\ UNCHANGED purchases
  /\ UNCHANGED <<paper, chain, history>>

(* batch_mark_shipped, and a synchronised order that the platform has shipped. *)
Ship(o) ==
  /\ "ship" \in Operators /\ order[o].biz # "shipped"
  /\ order' = Put({o}, "shipped")
  /\ UNCHANGED <<purchases, paper, chain, byHand, history>>

(* The products of an order get their names.                               *)
NameProducts(o) ==
  /\ "name" \in Operators /\ order[o].kind = "nameless"
  /\ order' = [order EXCEPT ![o].kind = "plain"]
  /\ UNCHANGED <<purchases, paper, chain, byHand, history>>

(* _rollback_orders_to_waiting_purchase_after_purchase_delete                *)
RolledBack(p) == {o \in InStage("picking") : order[o].purchase = p /\ order[o].recent}

(* delete_purchase_order                                                   *)
DeletePurchase(p) ==
  LET of == {o \in Orders : order[o].purchase = p} IN
  /\ "delete" \in Operators /\ of # {}
  /\ order' = [o \in Orders |->
       [order[o] EXCEPT !.purchase = IF o \in of THEN 0 ELSE @,
                        !.biz = IF o \in RolledBack(p) THEN "buying" ELSE @]]
  /\ stripped' = stripped \cup
       {o \in of : \/ order[o].biz = "picking" /\ ~order[o].recent
                   \/ byHand[o] = "joined"
                   \/ \E c \in Chains : chain[c].pc = "pick" /\ o \in chain[c].buy}
  /\ UNCHANGED <<purchases, paper, chain, byHand, shared, unmarked>>

ChainStep(c) ==
  \/ Select(c) \/ Split(c) \/ MoveToPrinting(c)
  \/ PrintLabel(c) \/ PrintFails(c) \/ RecordPrint(c) \/ Mark(c)
  \/ Filter(c) \/ Buy(c) \/ BuyRaises(c) \/ Pick(c) \/ Raise(c) \/ Crash(c)

OperatorStep ==
  \/ \E o \in Orders : \/ MoveByHand(o) \/ PrintByHand(o) \/ ReadToPick(o) \/ PickByHand(o)
                      \/ NameProducts(o) \/ Ship(o)
  \/ \E p \in 1..MaxPurchases : DeletePurchase(p)

PipelineNext == (\E c \in Chains : ChainStep(c)) \/ OperatorStep

PipelineSpec == PipelineInit /\ [][PipelineNext]_pipelineVars
-----------------------------------------------------------------------------
(* The pipeline prints an order's label once, over retries of its chain,      *)
(* failing printers and cancelled runs: a second copy needs two active chains   *)
(* with the order, or a first copy that no run has marked, since the printer    *)
(* reported a failure, or the run died or raised between its request to the   *)
(* printer and the commit of the mark.                                      *)
PrintedOnce ==
  \A o \in Orders : paper[o] > 1 => o \in shared \cup unmarked

(* An order is purchased and picked only after its label was printed, and one   *)
(* in picking is in a purchase, unless an operator deleted that one while a run  *)
(* or a request that had seen it was about to commit the stage, or the order is  *)
(* one that the rollback leaves out (no payment date, or an early one).        *)
StagesEarned ==
  /\ \A o \in InStage("buying") \cup InStage("picking") : order[o].printed
  /\ \A o \in InStage("picking") : order[o].purchase # 0 \/ o \in stripped

(* No order goes back to an earlier stage (phase3-shop-order-requirements.md   *)
(* 7.2), except by the deletion of its purchase.                            *)
StagesAdvance ==
  [][\A o \in Orders : \/ Stage[order'[o].biz] >= Stage[order[o].biz]
                       \/ order'[o].purchase = 0 /\ order[o].purchase # 0]_pipelineVars
=============================================================================
