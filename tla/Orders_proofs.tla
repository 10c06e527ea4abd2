------------------------------ MODULE Orders_proofs ------------------------------
(***************************************************************************)
(* Proofs about the order pipeline, for any number of orders, chains of runs,    *)
(* retries and operators; and the types of the modules that MC_Orders runs.     *)
(***************************************************************************)
EXTENDS MC_Orders, Parcels_proofs

LEMMA StageNames ==
  DOMAIN Stage = {"pending", "printing", "buying", "picking", "shipped"}
BY DEF Stage

(* Moving orders to another stage changes nothing else of them.                *)
LEMMA PutRows ==
  ASSUME PipelineTypeOK, NEW S, NEW s \in DOMAIN Stage
  PROVE  /\ Put(S, s) \in [Orders -> OrderRow]
         /\ \A o \in Orders :
              /\ Put(S, s)[o].biz = IF o \in S THEN s ELSE order[o].biz
              /\ Put(S, s)[o].printed = order[o].printed
              /\ Put(S, s)[o].purchase = order[o].purchase
              /\ Put(S, s)[o].kind = order[o].kind
<1>1. \A o \in Orders : [order[o] EXCEPT !.biz = s] \in OrderRow /\ order[o] \in OrderRow
  BY DEF PipelineTypeOK, OrderRow
<1>2. \A o \in Orders : Put(S, s)[o] = IF o \in S THEN [order[o] EXCEPT !.biz = s] ELSE order[o]
  BY DEF Put
<1>3. Put(S, s) \in [Orders -> OrderRow]  BY <1>1 DEF Put
<1>4. ASSUME NEW o \in Orders
      PROVE  /\ Put(S, s)[o].biz = IF o \in S THEN s ELSE order[o].biz
             /\ Put(S, s)[o].printed = order[o].printed
             /\ Put(S, s)[o].purchase = order[o].purchase
             /\ Put(S, s)[o].kind = order[o].kind
  BY <1>1, <1>2 DEF OrderRow
<1> QED BY <1>3, <1>4

LEMMA EndedTyped == Ended \in Chain
BY PipelineAssumption DEF Ended, Chain

(* The record of a chain after its run raised.                               *)
LEMMA RaiseTyped ==
  ASSUME NEW ch \in Chain
  PROVE  /\ AfterRaise(ch) \in Chain
         /\ \/ AfterRaise(ch) = Ended
            \/ /\ AfterRaise(ch).pc = "retry" /\ AfterRaise(ch).sel = ch.sel
               /\ AfterRaise(ch).submitted = ch.submitted /\ AfterRaise(ch).hand = {}
               /\ AfterRaise(ch).labels = {} /\ AfterRaise(ch).done = {} /\ AfterRaise(ch).buy = {}
<1> DEFINE again == [ch EXCEPT !.pc = "retry", !.attempt = @ + 1, !.labels = {}, !.done = {},
                               !.hand = {}, !.buy = {}, !.failed = FALSE]
<1>1. again.pc = "retry" /\ again.sel = ch.sel /\ again.submitted = ch.submitted
      /\ again.hand = {} /\ again.labels = {} /\ again.done = {} /\ again.buy = {}
  BY DEF Chain
<1>2. CASE ch.attempt < MaxRetries
  <2>1. ch.attempt + 1 \in 0..MaxRetries  BY <1>2, PipelineAssumption DEF Chain
  <2>2. again \in Chain  BY <2>1 DEF Chain
  <2>3. AfterRaise(ch) = again  BY <1>2 DEF AfterRaise
  <2> HIDE DEF again
  <2> QED BY <1>1, <2>2, <2>3
<1>3. CASE ~(ch.attempt < MaxRetries)
  BY <1>3, EndedTyped DEF AfterRaise
<1> QED BY <1>2, <1>3

(* A purchase order for some orders has a number.                             *)
LEMMA PurchaseNumber ==
  ASSUME PipelineTypeOK, NEW S \in SUBSET Orders, NEW p \in PurchaseFor(S), p <= MaxPurchases
  PROVE  /\ p \in 1..MaxPurchases
         /\ (IF p > purchases THEN p ELSE purchases) \in 0..MaxPurchases
<1>1. \A o \in S : order[o].purchase \in 0..MaxPurchases  BY DEF PipelineTypeOK, OrderRow
<1>2. p = purchases + 1 \/ \E o \in S : p = order[o].purchase /\ p # 0
  BY DEF PurchaseFor
<1> QED BY <1>1, <1>2, PipelineAssumption DEF PipelineTypeOK

(* A chain's selection is a set of orders.                                   *)
LEMMA SelectTyped ==
  ASSUME PipelineTypeOK, NEW c \in Chains
  PROVE  ToSelect(c) \in SUBSET Orders
BY DEF PipelineTypeOK, Chain, ToSelect, Selectable, InStage

(* Every step keeps the types of the variables.                             *)
LEMMA ChainStepTyped ==
  ASSUME PipelineTypeOK, NEW c \in Chains, ChainStep(c)
  PROVE  PipelineTypeOK'
<1> DEFINE ch == chain[c]
<1>0. ch \in Chain  BY DEF PipelineTypeOK
<1>1. ASSUME NEW r \in Chain, chain' = [chain EXCEPT ![c] = r]
      PROVE  chain' \in [Chains -> Chain]
  BY <1>1 DEF PipelineTypeOK
<1>2. CASE Select(c)
  <2>1. [Ended EXCEPT !.pc = "split", !.attempt = ch.attempt, !.sel = ToSelect(c),
                      !.submitted = ch.submitted] \in Chain
    BY <1>0, SelectTyped DEF Ended, Chain
  <2> QED BY <1>1, <1>2, <2>1, SelectTyped DEF Select, PipelineTypeOK
<1>3. CASE Split(c)
  <2> DEFINE mine == ch.sel \cap (InStage("pending") \cup InStage("printing"))
             waiting == ch.sel \cap InStage("buying")
             after == [ch EXCEPT !.pc = "wait", !.labels = mine \ Of("exempt"),
                                 !.buy = waiting \ Of("exempt")]
  <2>1. after \in Chain  BY <1>0 DEF Chain
  <2>2. chain' = [chain EXCEPT ![c] = after]
        /\ order' = Put((mine \cup waiting) \cap Of("exempt"), "shipped")
    BY <1>3 DEF Split
  <2> HIDE DEF after, mine, waiting
  <2>3. order' \in [Orders -> OrderRow]  BY <2>2, PutRows, StageNames
  <2> QED BY <1>1, <1>3, <2>1, <2>2, <2>3 DEF Split, PipelineTypeOK, history
<1>4. CASE MoveToPrinting(c)
  <2>1. PICK ready \in SUBSET ch.labels :
          /\ order' = Put(ready, "printing")
          /\ chain' = [chain EXCEPT ![c] =
               [@ EXCEPT !.labels = ready, !.pc = After(ready)]]
    BY <1>4 DEF MoveToPrinting
  <2>2. [ch EXCEPT !.labels = ready, !.pc = After(ready)] \in Chain
    <3>1. After(ready) \in {"filter", "print"}  BY DEF After
    <3> QED BY <1>0, <3>1 DEF Chain
  <2>3. order' \in [Orders -> OrderRow]  BY <2>1, PutRows, StageNames
  <2> QED BY <1>1, <1>4, <2>1, <2>2, <2>3 DEF MoveToPrinting, PipelineTypeOK, history
<1>5. ASSUME PrintLabel(c) \/ PrintFails(c) PROVE PipelineTypeOK'
  <2>1. PICK o \in Reprintable(c) :
          /\ \/ chain' = [chain EXCEPT ![c].hand = {o}]
             \/ chain' = [chain EXCEPT ![c] = [@ EXCEPT !.failed = TRUE, !.labels = ch.labels \ {o}]]
          /\ Copied(o) \/ UNCHANGED paper
          /\ unmarked' \in {unmarked, unmarked \cup {o}}
          /\ UNCHANGED <<order, purchases, byHand, shared, stripped>>
    BY <1>5 DEF PrintLabel, PrintFails, history
  <2>2. o \in Orders  BY <1>0 DEF Reprintable, Chain
  <2>3. [ch EXCEPT !.hand = {o}] \in Chain
        /\ [ch EXCEPT !.failed = TRUE, !.labels = @ \ {o}] \in Chain
    BY <1>0, <2>2 DEF Chain
  <2>4. chain' \in [Chains -> Chain]  BY <1>1, <2>1, <2>3
  <2>5. paper' \in [Orders -> 0..MaxPapers]
    BY <2>1, <2>2, PipelineAssumption DEF PipelineTypeOK, Copied
  <2> QED BY <2>1, <2>2, <2>4, <2>5 DEF PipelineTypeOK
<1>6. CASE RecordPrint(c)
  <2> DEFINE o == ToRecord(c)
             after == [ch EXCEPT !.submitted = @ \cup o, !.hand = {}, !.done = @ \cup o]
  <2>1. o \in SUBSET Orders  BY <1>0 DEF Chain, ToRecord
  <2>2. chain' = [chain EXCEPT ![c] = after]  BY <1>6 DEF RecordPrint
  <2> HIDE DEF o
  <2>3. after \in Chain  BY <1>0, <2>1 DEF Chain
  <2> QED BY <1>1, <1>6, <2>2, <2>3 DEF RecordPrint, PipelineTypeOK, history
<1>7. CASE Mark(c)
  <2> DEFINE after == [ch EXCEPT !.pc = "filter", !.labels = {}, !.buy = @ \cup ch.done]
  <2>1. after \in Chain /\ AfterRaise(ch) \in Chain  BY <1>0, RaiseTyped DEF Chain
  <2>2. chain' = [chain EXCEPT ![c] = after] \/ chain' = [chain EXCEPT ![c] = AfterRaise(ch)]
    BY <1>7 DEF Mark
  <2> HIDE DEF after
  <2>3. order' \in [Orders -> OrderRow]
    <3>1. \A row \in OrderRow : [row EXCEPT !.printed = TRUE] \in OrderRow  BY DEF OrderRow
    <3> QED BY <1>7, <3>1 DEF Mark, PipelineTypeOK
  <2> QED BY <1>1, <1>7, <2>1, <2>2, <2>3 DEF Mark, PipelineTypeOK, history
<1>8. CASE Filter(c)
  <2> DEFINE left == ch.buy \ Of("nameless")
             after == [ch EXCEPT !.pc = "buy", !.buy = left]
  <2>1. after \in Chain  BY <1>0 DEF Chain
  <2>2. chain' = [chain EXCEPT ![c] = after] \/ chain' = [chain EXCEPT ![c] = Ended]
    BY <1>8 DEF Filter
  <2> HIDE DEF after
  <2>3. order' = Put(ch.buy \cap InStage("printing"), "buying")  BY <1>8 DEF Filter
  <2>4. order' \in [Orders -> OrderRow]  BY <2>3, PutRows, StageNames
  <2> QED BY <1>1, <1>8, <2>1, <2>2, <2>4, EndedTyped DEF Filter, PipelineTypeOK, history
<1>9. CASE Buy(c)
  <2>1. PICK p \in PurchaseFor(ch.buy) :
          p <= MaxPurchases /\ order' = Bought(ch.buy, p)
            /\ purchases' = IF p > purchases THEN p ELSE purchases
    BY <1>9 DEF Buy
  <2>2. p \in 0..MaxPurchases /\ purchases' \in 0..MaxPurchases
    BY <1>0, <2>1, PurchaseNumber DEF Chain
  <2>3. order' \in [Orders -> OrderRow]  BY <2>1, <2>2 DEF Bought, PipelineTypeOK, OrderRow
  <2>4. [ch EXCEPT !.pc = "pick"] \in Chain  BY <1>0 DEF Chain
  <2>5. chain' \in [Chains -> Chain]  BY <1>1, <1>9, <2>4 DEF Buy
  <2> QED BY <1>9, <2>2, <2>3, <2>5 DEF Buy, PipelineTypeOK, history
<1>10. CASE BuyRaises(c) \/ Raise(c)
  <2>1. chain' \in [Chains -> Chain]
    BY <1>0, <1>1, <1>10, RaiseTyped DEF BuyRaises, Raise
  <2>2. unmarked' \subseteq Orders
    BY <1>0, <1>10 DEF BuyRaises, Raise, Unsaid, PipelineTypeOK, Chain, history
  <2> QED BY <1>10, <2>1, <2>2 DEF BuyRaises, Raise, PipelineTypeOK, history
<1>11. CASE Pick(c)
  <2>1. order' \in [Orders -> OrderRow]  BY <1>11, PutRows, StageNames DEF Pick
  <2> QED BY <1>1, <1>11, <2>1, EndedTyped DEF Pick, PipelineTypeOK, history
<1>12. CASE Crash(c)
  <2>1. unmarked' \subseteq Orders  BY <1>0, <1>12 DEF Crash, Unsaid, PipelineTypeOK, Chain
  <2> QED BY <1>1, <1>12, <2>1, EndedTyped DEF Crash, PipelineTypeOK
<1> QED BY <1>2, <1>3, <1>4, <1>5, <1>6, <1>7, <1>8, <1>9, <1>10, <1>11, <1>12 DEF ChainStep

(* What an operator does to the rows: each keeps its label's mark, and its        *)
(* purchase unless that is deleted.                                          *)
LEMMA OperatorRows ==
  ASSUME PipelineTypeOK, OperatorStep
  PROVE  /\ PipelineTypeOK'
         /\ UNCHANGED <<paper, chain, shared, unmarked>>
         /\ stripped \subseteq stripped'
<1>1. ASSUME NEW o \in Orders, MoveByHand(o) \/ Ship(o) PROVE PipelineTypeOK'
  <2>1. order' \in [Orders -> OrderRow]
    BY <1>1, PutRows, StageNames DEF MoveByHand, Ship
  <2> QED BY <1>1, <2>1 DEF MoveByHand, Ship, PipelineTypeOK, history
<1>2. ASSUME NEW o \in Orders, PrintByHand(o) \/ NameProducts(o) PROVE PipelineTypeOK'
  <2>1. order' \in [Orders -> OrderRow]
    <3> DEFINE b == IF order[o].biz = "printing" THEN "buying" ELSE order[o].biz
    <3>1. order[o] \in OrderRow /\ b \in DOMAIN Stage
      BY StageNames DEF PipelineTypeOK, OrderRow
    <3>2. \/ order' = [order EXCEPT ![o] = [@ EXCEPT !.printed = TRUE, !.biz = b]]
          \/ order' = [order EXCEPT ![o].kind = "plain"]
      BY <1>2 DEF PrintByHand, NameProducts
    <3> HIDE DEF b
    <3>3. [order[o] EXCEPT !.printed = TRUE, !.biz = b] \in OrderRow  BY <3>1 DEF OrderRow
    <3>4. [order[o] EXCEPT !.kind = "plain"] \in OrderRow  BY <3>1 DEF OrderRow, Kinds
    <3> QED BY <3>2, <3>3, <3>4 DEF PipelineTypeOK
  <2> QED BY <1>2, <2>1 DEF PrintByHand, NameProducts, PipelineTypeOK, history
<1>3. ASSUME NEW o \in Orders, ReadToPick(o) \/ PickByHand(o) PROVE PipelineTypeOK'
  <2>1. byHand' \in [Orders -> {"none", "new", "joined"}]
    BY <1>3 DEF ReadToPick, PickByHand, PipelineTypeOK
  <2>2. \/ purchases' = purchases
        \/ purchases < MaxPurchases /\ purchases' = purchases + 1
    BY <1>3 DEF ReadToPick, PickByHand
  <2>3. purchases' \in 0..MaxPurchases  BY <2>2, PipelineAssumption DEF PipelineTypeOK
  <2>4. order' \in [Orders -> OrderRow]
    <3>1. order[o] \in OrderRow /\ "picking" \in DOMAIN Stage  BY StageNames DEF PipelineTypeOK
    <3>2. [order[o] EXCEPT !.purchase = purchases', !.biz = "picking"] \in OrderRow
      BY <2>3, <3>1 DEF OrderRow
    <3>3. \/ order' = order \/ order' = Put({o}, "picking")
          \/ order' = [order EXCEPT ![o] = [@ EXCEPT !.purchase = purchases', !.biz = "picking"]]
      BY <1>3 DEF ReadToPick, PickByHand
    <3> QED BY <3>2, <3>3, PutRows, StageNames DEF PipelineTypeOK
  <2> QED BY <1>3, <2>1, <2>3, <2>4 DEF ReadToPick, PickByHand, PipelineTypeOK, history
<1>4. ASSUME NEW p \in 1..MaxPurchases, DeletePurchase(p) PROVE PipelineTypeOK'
  <2>1. ASSUME NEW o \in Orders PROVE order'[o] \in OrderRow
    <3> DEFINE a == IF order[o].purchase = p THEN 0 ELSE order[o].purchase
               b == IF o \in RolledBack(p) THEN "buying" ELSE order[o].biz
    <3>1. order[o] \in OrderRow  BY DEF PipelineTypeOK
    <3>2. "buying" \in DOMAIN Stage /\ 0 \in 0..MaxPurchases  BY StageNames, PipelineAssumption
    <3>3. a \in 0..MaxPurchases /\ b \in DOMAIN Stage  BY <3>1, <3>2 DEF OrderRow
    <3>4. order'[o] = [order[o] EXCEPT !.purchase = a, !.biz = b]  BY <1>4 DEF DeletePurchase
    <3> HIDE DEF a, b
    <3> QED BY <3>1, <3>3, <3>4 DEF OrderRow
  <2>2. order' \in [Orders -> OrderRow]  BY <1>4, <2>1 DEF DeletePurchase
  <2>3. stripped' \subseteq Orders  BY <1>4 DEF DeletePurchase, PipelineTypeOK
  <2> QED BY <1>4, <2>2, <2>3 DEF DeletePurchase, PipelineTypeOK
<1>5. UNCHANGED <<paper, chain, shared, unmarked>> /\ stripped \subseteq stripped'
  BY DEF OperatorStep, MoveByHand, PrintByHand, ReadToPick, PickByHand, Ship, NameProducts,
         DeletePurchase, history
<1> QED BY <1>1, <1>2, <1>3, <1>4, <1>5 DEF OperatorStep

(* The variables keep their types, for any orders, chains and retries.          *)
THEOREM PipelineTypeCorrect == PipelineSpec => []PipelineTypeOK
<1>1. PipelineInit => PipelineTypeOK
  <2> SUFFICES ASSUME PipelineInit PROVE PipelineTypeOK
    OBVIOUS
  <2>1. 0 \in 0..MaxPurchases /\ 0 \in 0..MaxPapers  BY PipelineAssumption
  <2>2. /\ [biz : {"pending"}, kind : Kinds, recent : BOOLEAN, printed : {FALSE},
            purchase : {0}] \subseteq OrderRow
        /\ [biz : {"shipped"}, kind : {"plain"}, recent : {TRUE}, printed : {TRUE},
            purchase : {0}] \subseteq OrderRow
    BY <2>1, StageNames DEF OrderRow, Kinds
  <2>3. order \in [Orders -> OrderRow]  BY <2>2 DEF PipelineInit
  <2> QED BY <2>1, <2>3, EndedTyped DEF PipelineInit, PipelineTypeOK
<1>2. PipelineTypeOK /\ [PipelineNext]_pipelineVars => PipelineTypeOK'
  <2> SUFFICES ASSUME PipelineTypeOK, [PipelineNext]_pipelineVars PROVE PipelineTypeOK'
    OBVIOUS
  <2>1. CASE UNCHANGED pipelineVars  BY <2>1 DEF pipelineVars, PipelineTypeOK
  <2> QED BY <2>1, ChainStepTyped, OperatorRows DEF PipelineNext
<1> QED BY <1>1, <1>2, PTL DEF PipelineSpec
-----------------------------------------------------------------------------
(* What a chain does to the rows: a label stays marked and an order in its         *)
(* purchase; only the wait for labels takes an order back to printing, only the    *)
(* last two commits take it to buying and to picking.                         *)
LEMMA ChainRows ==
  ASSUME PipelineTypeOK, NEW c \in Chains, ChainStep(c)
  PROVE  /\ stripped' = stripped
         /\ \A o \in Orders :
              /\ order[o].printed => order'[o].printed
              /\ order[o].purchase # 0 => order'[o].purchase # 0
              /\ order'[o].biz \in {"pending", "printing"} =>
                   \/ order[o].biz \in {"pending", "printing"}
                   \/ chain[c].pc = "wait" /\ o \in chain[c].labels
              /\ order'[o].biz = "buying" =>
                   order[o].biz = "buying" \/ (chain[c].pc = "filter" /\ o \in chain[c].buy)
              /\ order'[o].biz = "picking" =>
                   order[o].biz = "picking" \/ (chain[c].pc = "pick" /\ o \in chain[c].buy)
<1>1. CASE \/ Select(c) \/ PrintLabel(c) \/ PrintFails(c) \/ RecordPrint(c)
           \/ BuyRaises(c) \/ Raise(c) \/ Crash(c)
  <2>1. order' = order /\ stripped' = stripped
    BY <1>1 DEF Select, PrintLabel, PrintFails, RecordPrint, BuyRaises, Raise, Crash, history
  <2> QED BY <2>1
<1>2. CASE Split(c)
  <2>1. PICK S : order' = Put(S, "shipped")  BY <1>2 DEF Split
  <2>2. stripped' = stripped  BY <1>2 DEF Split, history
  <2> QED BY <2>1, <2>2, PutRows, StageNames
<1>3. CASE MoveToPrinting(c)
  <2>1. PICK ready \in SUBSET chain[c].labels : order' = Put(ready, "printing")
    BY <1>3 DEF MoveToPrinting
  <2>2. chain[c].pc = "wait" /\ stripped' = stripped  BY <1>3 DEF MoveToPrinting, history
  <2> QED BY <2>1, <2>2, PutRows, StageNames
<1>4. CASE Mark(c)
  <2>1. \A o \in Orders : order[o] \in OrderRow  BY DEF PipelineTypeOK
  <2>2. \A o \in Orders : order'[o] \in {order[o], [order[o] EXCEPT !.printed = TRUE]}
    BY <1>4 DEF Mark
  <2>3. stripped' = stripped  BY <1>4 DEF Mark, history
  <2>4. \A o \in Orders : /\ order[o].printed => order'[o].printed
                          /\ order'[o].biz = order[o].biz /\ order'[o].purchase = order[o].purchase
    BY <2>1, <2>2 DEF OrderRow
  <2> QED BY <2>3, <2>4
<1>5. CASE Filter(c)
  <2>1. /\ order' = Put(chain[c].buy \cap InStage("printing"), "buying")
        /\ stripped' = stripped /\ chain[c].pc = "filter"
    BY <1>5 DEF Filter, history
  <2> QED BY <2>1, PutRows, StageNames
<1>6. CASE Buy(c)
  <2>1. PICK n \in PurchaseFor(chain[c].buy) : n <= MaxPurchases /\ order' = Bought(chain[c].buy, n)
    BY <1>6 DEF Buy
  <2>2. stripped' = stripped  BY <1>6 DEF Buy, history
  <2>3. n \in 1..MaxPurchases  BY <2>1, PurchaseNumber DEF PipelineTypeOK, Chain
  <2>4. \A o \in Orders : order[o] \in OrderRow  BY DEF PipelineTypeOK
  <2>5. \A o \in Orders : /\ order'[o].printed = order[o].printed
                          /\ order'[o].biz = order[o].biz
                          /\ order'[o].purchase \in {order[o].purchase, n}
    BY <2>1, <2>4 DEF Bought, OrderRow
  <2> QED BY <2>2, <2>3, <2>5
<1>7. CASE Pick(c)
  <2>1. order' = Put(chain[c].buy, "picking") /\ stripped' = stripped /\ chain[c].pc = "pick"
    BY <1>7 DEF Pick, history
  <2> QED BY <2>1, PutRows, StageNames
<1> QED BY <1>1, <1>2, <1>3, <1>4, <1>5, <1>6, <1>7 DEF ChainStep

(* What an operator does to the rows: an order comes to a later stage only with    *)
(* its label marked, from such a stage, or by a request that has read it; a         *)
(* purchase that is deleted takes its orders out of picking, or they are known.    *)
LEMMA OperatorMoves ==
  ASSUME PipelineTypeOK, OperatorStep
  PROVE  \A o \in Orders :
           /\ order[o].printed => order'[o].printed
           /\ order'[o].biz \in {"pending", "printing"} => order[o].biz \in {"pending", "printing"}
           /\ order'[o].biz \in {"buying", "picking"} =>
                order'[o].printed \/ order[o].biz \in {"buying", "picking"} \/ byHand[o] # "none"
           /\ order'[o].biz = "picking" =>
                \/ order'[o].purchase # 0
                \/ order[o].biz = "picking" /\ order[o].purchase = 0
                \/ o \in stripped'
                \/ byHand[o] = "joined" /\ order[o].purchase = 0
           /\ order[o].purchase # 0 /\ order'[o].purchase = 0 =>
                /\ byHand[o] = "joined" => o \in stripped'
                /\ \A c \in Chains :
                     chain[c].pc = "pick" /\ o \in chain[c].buy => o \in stripped'
           /\ byHand'[o] # "none" =>
                \/ byHand'[o] = byHand[o]
                \/ order[o].biz = "buying" /\ (byHand'[o] = "joined" => order'[o].purchase # 0)
<1>0. \A o \in Orders : order[o] \in OrderRow  BY DEF PipelineTypeOK
<1>1. ASSUME NEW u \in Orders, MoveByHand(u) \/ Ship(u)
      PROVE  \A o \in Orders : /\ order'[o].printed = order[o].printed
                               /\ order'[o].purchase = order[o].purchase
                               /\ \/ order'[o].biz \in {order[o].biz, "shipped"}
                                  \/ order[o].biz = "pending" /\ order'[o].biz = "printing"
  <2>1. \/ order' = Put({u}, "shipped")
        \/ order[u].biz = "pending" /\ order' = Put({u}, "printing")
    BY <1>1 DEF MoveByHand, Ship
  <2> QED BY <2>1, PutRows, StageNames
<1>2. ASSUME NEW u \in Orders, PrintByHand(u)
      PROVE  \A o \in Orders : /\ order[o].printed => order'[o].printed
                               /\ order'[o].purchase = order[o].purchase
                               /\ \/ order'[o].biz = order[o].biz
                                  \/ order'[o].biz = "buying" /\ order'[o].printed
  <2> DEFINE b == IF order[u].biz = "printing" THEN "buying" ELSE order[u].biz
  <2>1. order' = [order EXCEPT ![u] = [@ EXCEPT !.printed = TRUE, !.biz = b]]
    BY <1>2 DEF PrintByHand
  <2>2. b \in {order[u].biz, "buying"}  OBVIOUS
  <2> HIDE DEF b
  <2>3. order'[u].printed /\ order'[u].purchase = order[u].purchase /\ order'[u].biz = b
    BY <1>0, <2>1 DEF OrderRow, PipelineTypeOK
  <2>4. \A o \in Orders \ {u} : order'[o] = order[o]  BY <2>1 DEF PipelineTypeOK
  <2> QED BY <2>2, <2>3, <2>4
<1>3. ASSUME NEW u \in Orders, PickByHand(u)
      PROVE  \A o \in Orders :
               /\ order'[o].printed = order[o].printed
               /\ \/ order'[o] = order[o]
                  \/ /\ byHand[o] # "none" /\ order'[o].biz = "picking"
                     /\ order'[o].purchase # 0 \/ byHand[o] = "joined"
                     /\ order[o].purchase # 0 => order'[o].purchase # 0
               /\ byHand'[o] \in {byHand[o], "none"}
  <2>1. byHand[u] # "none" /\ \A o \in Orders : byHand'[o] \in {byHand[o], "none"}
    BY <1>3 DEF PickByHand, PipelineTypeOK
  <2>2. CASE byHand[u] = "joined" /\ order' = Put({u}, "picking")
    <3>1. \A o \in Orders \ {u} : order'[o] = order[o]  BY <2>2 DEF Put
    <3>2. /\ order'[u].printed = order[u].printed /\ order'[u].biz = "picking"
          /\ order'[u].purchase = order[u].purchase
      BY <2>2, PutRows, StageNames
    <3> QED BY <2>1, <2>2, <3>1, <3>2
  <2>3. CASE order' = [order EXCEPT ![u] = [@ EXCEPT !.purchase = purchases + 1,
                                                     !.biz = "picking"]]
    <3>1. purchases + 1 # 0  BY DEF PipelineTypeOK
    <3>2. /\ order'[u].printed = order[u].printed /\ order'[u].purchase = purchases + 1
          /\ order'[u].biz = "picking"
      BY <1>0, <2>3 DEF OrderRow, PipelineTypeOK
    <3>3. \A o \in Orders \ {u} : order'[o] = order[o]  BY <2>3 DEF PipelineTypeOK
    <3> QED BY <2>1, <3>1, <3>2, <3>3
  <2>4. CASE order' = order  BY <2>1, <2>4
  <2> QED BY <1>3, <2>2, <2>3, <2>4 DEF PickByHand
<1>4. ASSUME NEW u \in Orders, NameProducts(u)
      PROVE  \A o \in Orders : /\ order'[o].printed = order[o].printed
                               /\ order'[o].purchase = order[o].purchase
                               /\ order'[o].biz = order[o].biz
  BY <1>0, <1>4 DEF NameProducts, OrderRow, PipelineTypeOK
<1>5. ASSUME NEW n \in 1..MaxPurchases, DeletePurchase(n)
      PROVE  \A o \in Orders :
               /\ order'[o].printed = order[o].printed
               /\ order'[o].purchase = IF order[o].purchase = n THEN 0 ELSE order[o].purchase
               /\ order'[o].biz \in {order[o].biz, "buying"}
               /\ order'[o].biz # order[o].biz => order[o].biz = "picking"
               /\ order[o].purchase = n =>
                    /\ order'[o].biz = "picking" => o \in stripped'
                    /\ byHand[o] = "joined" => o \in stripped'
                    /\ \A c \in Chains :
                         chain[c].pc = "pick" /\ o \in chain[c].buy => o \in stripped'
  <2> SUFFICES ASSUME NEW o \in Orders
               PROVE  /\ order'[o].printed = order[o].printed
                      /\ order'[o].purchase = IF order[o].purchase = n THEN 0 ELSE order[o].purchase
                      /\ order'[o].biz \in {order[o].biz, "buying"}
                      /\ order'[o].biz # order[o].biz => order[o].biz = "picking"
                      /\ order[o].purchase = n =>
                           /\ order'[o].biz = "picking" => o \in stripped'
                           /\ byHand[o] = "joined" => o \in stripped'
                           /\ \A c \in Chains :
                                chain[c].pc = "pick" /\ o \in chain[c].buy => o \in stripped'
    OBVIOUS
  <2> DEFINE goes == order[o].biz = "picking" /\ order[o].purchase = n /\ order[o].recent
             b == IF goes THEN "buying" ELSE order[o].biz
  <2>1. order'[o] = [order[o] EXCEPT
          !.purchase = IF order[o].purchase = n THEN 0 ELSE order[o].purchase, !.biz = b]
    BY <1>5 DEF DeletePurchase, RolledBack, InStage
  <2>2. order[o] \in OrderRow  BY <1>0
  <2>3. b = order[o].biz \/ (b = "buying" /\ goes)  OBVIOUS
  <2>4. order[o].purchase = n =>
          /\ order[o].biz = "picking" /\ ~order[o].recent => o \in stripped'
          /\ byHand[o] = "joined" => o \in stripped'
          /\ \A c \in Chains :
               chain[c].pc = "pick" /\ o \in chain[c].buy => o \in stripped'
    BY <1>5 DEF DeletePurchase
  <2>5. order[o].biz = "picking" /\ order[o].purchase = n /\ order[o].recent => b = "buying"
    OBVIOUS
  <2> HIDE DEF b
  <2>6. /\ order'[o].printed = order[o].printed /\ order'[o].biz = b
        /\ order'[o].purchase = IF order[o].purchase = n THEN 0 ELSE order[o].purchase
    BY <2>1, <2>2 DEF OrderRow
  <2> QED BY <2>2, <2>3, <2>4, <2>5, <2>6 DEF OrderRow
<1>6. ASSUME NEW u \in Orders, ReadToPick(u)
      PROVE  /\ order' = order
             /\ \A o \in Orders : byHand'[o] # byHand[o] =>
                  order[o].biz = "buying" /\ (byHand'[o] = "joined" => order'[o].purchase # 0)
  BY <1>6 DEF ReadToPick, PipelineTypeOK
<1>7. CASE \E u \in Orders : MoveByHand(u) \/ Ship(u) \/ NameProducts(u)
  <2>1. byHand' = byHand  BY <1>7 DEF MoveByHand, Ship, NameProducts
  <2> QED BY <1>1, <1>4, <1>7, <2>1
<1>8. CASE \E u \in Orders : PrintByHand(u)
  <2>1. byHand' = byHand  BY <1>8 DEF PrintByHand
  <2> QED BY <1>2, <1>8, <2>1
<1>9. CASE \E u \in Orders : PickByHand(u)
  <2>1. PICK u \in Orders : PickByHand(u)  BY <1>9
  <2> QED BY <1>3, <2>1
<1>10. CASE \E u \in Orders : ReadToPick(u)
  <2>1. PICK u \in Orders : ReadToPick(u)  BY <1>10
  <2> QED BY <1>6, <2>1
<1>11. CASE \E n \in 1..MaxPurchases : DeletePurchase(n)
  <2>1. PICK n \in 1..MaxPurchases : DeletePurchase(n)  BY <1>11
  <2>2. byHand' = byHand  BY <2>1 DEF DeletePurchase
  <2> QED BY <1>5, <2>1, <2>2
<1> QED BY <1>7, <1>8, <1>9, <1>10, <1>11 DEF OperatorStep
-----------------------------------------------------------------------------
(* A chain between two runs, or at rest, has nothing in hand; what its run is busy  *)
(* with was selected.                                                      *)
RunShape(r) ==
  /\ r.pc = "ended" => r = Ended
  /\ r.pc # "print" => r.hand = {}
  /\ r.labels \cup r.submitted \cup r.hand \cup r.done \cup r.buy \subseteq r.sel

ChainShape == \A c \in Chains : RunShape(chain[c])

(* Two active chains with the same order are remembered.                      *)
Alone ==
  \A o \in Orders \ shared : \A c, d \in Chains :
    o \in chain[c].sel /\ o \in chain[d].sel => c = d

(* What a step makes of its chain's record.                                  *)
LEMMA RecordShape ==
  ASSUME PipelineTypeOK, ChainShape, NEW c \in Chains, ChainStep(c)
  PROVE  /\ RunShape(chain'[c])
         /\ \A d \in Chains \ {c} : chain'[d] = chain[d]
         /\ shared \subseteq shared'
         /\ Select(c) \/ chain'[c].sel \subseteq chain[c].sel
<1> DEFINE ch == chain[c]
<1>0. ch \in Chain /\ RunShape(ch)  BY DEF PipelineTypeOK, ChainShape
<1>1. RunShape(Ended) /\ Ended.sel = {}  BY DEF RunShape, Ended
<1>2. RunShape(AfterRaise(ch)) /\ AfterRaise(ch).sel \subseteq ch.sel
  BY <1>0, <1>1, RaiseTyped DEF RunShape
<1>3. ASSUME NEW r, chain' = [chain EXCEPT ![c] = r]
      PROVE  chain'[c] = r /\ \A d \in Chains \ {c} : chain'[d] = chain[d]
  BY <1>3 DEF PipelineTypeOK
<1>4. CASE Select(c)
  <2> DEFINE r == [Ended EXCEPT !.pc = "split", !.attempt = ch.attempt, !.sel = ToSelect(c),
                                !.submitted = ch.submitted]
  <2>1. chain' = [chain EXCEPT ![c] = r] /\ shared \subseteq shared' /\ ch.pc \in {"ended", "retry"}
    BY <1>4 DEF Select
  <2>2. r.pc = "split" /\ r.hand = {} /\ r.labels = {} /\ r.done = {} /\ r.buy = {}
        /\ r.sel = ToSelect(c) /\ r.submitted = ch.submitted
    BY DEF Ended
  <2>3. ch.submitted \subseteq ToSelect(c)  BY <1>0 DEF RunShape, ToSelect
  <2> HIDE DEF r
  <2>4. RunShape(r)  BY <2>2, <2>3 DEF RunShape
  <2>5. chain'[c] = r /\ \A d \in Chains \ {c} : chain'[d] = chain[d]  BY <1>3, <2>1
  <2> QED BY <1>4, <2>1, <2>4, <2>5
<1>5. CASE Split(c)
  <2> DEFINE mine == ch.sel \cap (InStage("pending") \cup InStage("printing"))
             waiting == ch.sel \cap InStage("buying")
             r == [ch EXCEPT !.pc = "wait", !.labels = mine \ Of("exempt"),
                             !.buy = waiting \ Of("exempt")]
  <2>1. chain' = [chain EXCEPT ![c] = r] /\ shared' = shared /\ ch.pc = "split"
    BY <1>5 DEF Split, history
  <2>2. r.pc = "wait" /\ r.hand = ch.hand /\ r.labels \subseteq ch.sel /\ r.done = ch.done
        /\ r.buy \subseteq ch.sel /\ r.sel = ch.sel /\ r.submitted = ch.submitted
    BY <1>0 DEF Chain
  <2> HIDE DEF r, mine, waiting
  <2> QED BY <1>0, <1>3, <2>1, <2>2 DEF RunShape
<1>6. CASE MoveToPrinting(c)
  <2>1. PICK ready \in SUBSET ch.labels : chain' = [chain EXCEPT ![c] =
          [@ EXCEPT !.labels = ready, !.pc = After(ready)]]
    BY <1>6 DEF MoveToPrinting
  <2> DEFINE r == [ch EXCEPT !.labels = ready, !.pc = After(ready)]
  <2>2. chain' = [chain EXCEPT ![c] = r] /\ shared' = shared /\ ch.pc = "wait"
    BY <1>6, <2>1 DEF MoveToPrinting, history
  <2>3. r.pc \in {"filter", "print"} /\ r.hand = ch.hand /\ r.labels = ready /\ r.done = ch.done
        /\ r.buy = ch.buy /\ r.sel = ch.sel /\ r.submitted = ch.submitted
    BY <1>0 DEF Chain, After
  <2> HIDE DEF r
  <2> QED BY <1>0, <1>3, <2>2, <2>3 DEF RunShape
<1>7. CASE PrintLabel(c) \/ PrintFails(c)
  <2>1. PICK o \in Reprintable(c) :
          \/ chain' = [chain EXCEPT ![c] = [ch EXCEPT !.hand = {o}]]
          \/ chain' = [chain EXCEPT ![c] = [@ EXCEPT !.failed = TRUE, !.labels = ch.labels \ {o}]]
    BY <1>7 DEF PrintLabel, PrintFails
  <2>2. shared' = shared /\ ch.pc = "print" /\ o \in ch.labels
    BY <1>7 DEF PrintLabel, PrintFails, history, Reprintable
  <2> DEFINE r == [ch EXCEPT !.hand = {o}]
             f == [ch EXCEPT !.failed = TRUE, !.labels = ch.labels \ {o}]
  <2>3. chain' = [chain EXCEPT ![c] = r] \/ chain' = [chain EXCEPT ![c] = f]  BY <2>1
  <2>4. r.pc = ch.pc /\ r.hand = {o} /\ r.labels = ch.labels /\ r.done = ch.done
        /\ r.buy = ch.buy /\ r.sel = ch.sel /\ r.submitted = ch.submitted
    BY <1>0 DEF Chain
  <2>5. f.pc = ch.pc /\ f.hand = ch.hand /\ f.labels \subseteq ch.labels /\ f.done = ch.done
        /\ f.buy = ch.buy /\ f.sel = ch.sel /\ f.submitted = ch.submitted
    BY <1>0 DEF Chain
  <2> HIDE DEF r, f
  <2>6. RunShape(r) /\ RunShape(f)  BY <1>0, <2>2, <2>4, <2>5 DEF RunShape
  <2> QED BY <1>3, <2>2, <2>3, <2>4, <2>5, <2>6
<1>8. CASE RecordPrint(c)
  <2> DEFINE o == ToRecord(c)
             r == [ch EXCEPT !.submitted = ch.submitted \cup o, !.hand = {},
                             !.done = ch.done \cup o]
  <2>1. chain' = [chain EXCEPT ![c] = r] /\ shared' = shared /\ ch.pc = "print"
    BY <1>8 DEF RecordPrint, history
  <2>2. o \subseteq ch.sel  BY <1>0 DEF RunShape, ToRecord
  <2> HIDE DEF o
  <2>3. r.pc = ch.pc /\ r.hand = {} /\ r.labels = ch.labels /\ r.done = ch.done \cup o
        /\ r.buy = ch.buy /\ r.sel = ch.sel /\ r.submitted = ch.submitted \cup o
    BY <1>0 DEF Chain
  <2> HIDE DEF r
  <2> QED BY <1>0, <1>3, <2>1, <2>2, <2>3 DEF RunShape
<1>9. CASE Mark(c)
  <2> DEFINE r == [ch EXCEPT !.pc = "filter", !.labels = {}, !.buy = ch.buy \cup ch.done]
  <2>1. /\ chain' = [chain EXCEPT ![c] = r] \/ chain' = [chain EXCEPT ![c] = AfterRaise(ch)]
        /\ shared' = shared /\ ch.pc = "print" /\ ch.hand = {}
    BY <1>9 DEF Mark, history
  <2>2. r.pc = "filter" /\ r.hand = ch.hand /\ r.labels = {} /\ r.done = ch.done
        /\ r.buy = ch.buy \cup ch.done /\ r.sel = ch.sel /\ r.submitted = ch.submitted
    BY <1>0 DEF Chain
  <2> HIDE DEF r
  <2>3. RunShape(r)  BY <1>0, <2>1, <2>2 DEF RunShape
  <2> QED BY <1>2, <1>3, <2>1, <2>2, <2>3
<1>10. CASE Filter(c)
  <2> DEFINE left == ch.buy \ Of("nameless")
             r == [ch EXCEPT !.pc = "buy", !.buy = left]
  <2>1. /\ chain' = [chain EXCEPT ![c] = r] \/ chain' = [chain EXCEPT ![c] = Ended]
        /\ shared' = shared /\ ch.pc = "filter"
    BY <1>10 DEF Filter, history
  <2>2. r.pc = "buy" /\ r.hand = ch.hand /\ r.labels = ch.labels /\ r.done = ch.done
        /\ r.buy = left /\ r.sel = ch.sel /\ r.submitted = ch.submitted
    BY <1>0 DEF Chain
  <2> HIDE DEF r
  <2>3. RunShape(r)  BY <1>0, <2>1, <2>2 DEF RunShape
  <2> QED BY <1>1, <1>3, <2>1, <2>2, <2>3
<1>11. CASE Buy(c)
  <2> DEFINE r == [ch EXCEPT !.pc = "pick"]
  <2>1. chain' = [chain EXCEPT ![c] = r] /\ shared' = shared /\ ch.pc = "buy"
    BY <1>11 DEF Buy, history
  <2>2. r.pc = "pick" /\ r.hand = ch.hand /\ r.labels = ch.labels /\ r.done = ch.done
        /\ r.buy = ch.buy /\ r.sel = ch.sel /\ r.submitted = ch.submitted
    BY <1>0 DEF Chain
  <2> HIDE DEF r
  <2> QED BY <1>0, <1>3, <2>1, <2>2 DEF RunShape
<1>12. CASE BuyRaises(c) \/ Raise(c)
  <2>1. chain' = [chain EXCEPT ![c] = AfterRaise(ch)] /\ shared' = shared
    BY <1>12 DEF BuyRaises, Raise, history
  <2> QED BY <1>2, <1>3, <2>1
<1>13. CASE Pick(c) \/ Crash(c)
  <2>1. chain' = [chain EXCEPT ![c] = Ended] /\ shared' = shared
    BY <1>13 DEF Pick, Crash, history
  <2> QED BY <1>1, <1>3, <2>1
<1> QED BY <1>4, <1>5, <1>6, <1>7, <1>8, <1>9, <1>10, <1>11, <1>12, <1>13 DEF ChainStep

(* Every step keeps the shape, and remembers orders of two chains.             *)
LEMMA ShapeStep ==
  ASSUME PipelineTypeOK, ChainShape, Alone, [PipelineNext]_pipelineVars
  PROVE  ChainShape' /\ Alone'
<1>1. ASSUME NEW c \in Chains, ChainStep(c) PROVE ChainShape' /\ Alone'
  <2>1. /\ RunShape(chain'[c]) /\ \A d \in Chains \ {c} : chain'[d] = chain[d]
        /\ shared \subseteq shared'
        /\ Select(c) \/ chain'[c].sel \subseteq chain[c].sel
    BY <1>1, RecordShape
  <2>2. ChainShape'  BY <2>1 DEF ChainShape, RunShape
  <2>3. CASE Select(c)
    <3>1. /\ chain'[c].sel = ToSelect(c)
          /\ \A o \in ToSelect(c) : \A d \in Chains \ {c} : o \in chain[d].sel => o \in shared'
      BY <2>3 DEF Select, PipelineTypeOK, Ended
    <3> QED BY <2>1, <2>2, <3>1 DEF Alone
  <2>4. CASE chain'[c].sel \subseteq chain[c].sel
    BY <2>1, <2>2, <2>4 DEF Alone
  <2> QED BY <2>1, <2>3, <2>4
<1>2. CASE OperatorStep
  <2>1. chain' = chain /\ shared' = shared  BY <1>2, OperatorRows
  <2> QED BY <2>1 DEF ChainShape, Alone, RunShape
<1>3. CASE UNCHANGED pipelineVars
  BY <1>3 DEF pipelineVars, ChainShape, Alone, RunShape
<1> QED BY <1>1, <1>2, <1>3 DEF PipelineNext
-----------------------------------------------------------------------------
(* A run that has printed an order's label and not marked it yet.              *)
Printing(c, o) == chain[c].pc = "print" /\ o \in chain[c].hand \cup chain[c].done

(* A label printed is marked, or will be by a run that is still alive.          *)
PrintKept ==
  \A o \in Orders \ unmarked : paper[o] > 0 =>
    order[o].printed \/ \E c \in Chains : Printing(c, o)

(* A chain that has an order whose label was printed knows that, from its record    *)
(* or from what it has in hand; or it will not print it: the order is past the    *)
(* labels, and nothing but the run's own list takes it back.                   *)
Knows(c, o) ==
  \/ o \in chain[c].submitted \cup chain[c].hand
  \/ order[o].biz \notin {"pending", "printing"} /\ o \notin chain[c].labels

PrintKnown ==
  \A o \in Orders \ (shared \cup unmarked) : \A c \in Chains :
    o \in chain[c].sel /\ paper[o] > 0 => Knows(c, o)

PrintInv == ChainShape /\ Alone /\ PrintKept /\ PrintKnown /\ PrintedOnce

(* Only a request to the printer prints: for an order of the run's list that no    *)
(* run of the chain has submitted; and either the run has it in hand, or it is      *)
(* remembered that the printer reported a failure.                           *)
LEMMA PaperGrows ==
  ASSUME PipelineTypeOK, ChainShape, NEW c \in Chains, ChainStep(c), NEW o \in Orders
  PROVE  \/ paper'[o] = paper[o]
         \/ /\ o \in chain[c].labels /\ o \notin chain[c].submitted \cup chain[c].hand
            /\ paper'[o] = paper[o] + 1 /\ o \in chain[c].sel
            /\ o \in unmarked' \/ (Printing(c, o)' /\ o \in chain'[c].hand)
<1>1. CASE PrintLabel(c)
  <2>1. PICK u \in Reprintable(c) : /\ paper' = [paper EXCEPT ![u] = @ + 1]
                                     /\ chain' = [chain EXCEPT ![c].hand = {u}]
    BY <1>1 DEF PrintLabel, Copied
  <2>2. u \in chain[c].labels /\ u \notin chain[c].submitted /\ u \in chain[c].sel
        /\ chain[c].hand = {} /\ chain[c].pc = "print"
    BY <1>1 DEF PrintLabel, Reprintable, ChainShape, RunShape
  <2>3. u \in Orders  BY <2>2 DEF PipelineTypeOK, Chain
  <2>4. chain' = [chain EXCEPT ![c].hand = {u}] =>
          chain'[c].pc = "print" /\ chain'[c].hand = {u}
    BY <2>2 DEF PipelineTypeOK, Chain
  <2> QED BY <2>1, <2>2, <2>3, <2>4 DEF Printing, PipelineTypeOK
<1>2. CASE PrintFails(c)
  <2>1. PICK u \in Reprintable(c) :
          \/ UNCHANGED paper
          \/ Copied(u) /\ unmarked' = unmarked \cup {u}
    BY <1>2 DEF PrintFails
  <2>2. u \in chain[c].labels /\ u \notin chain[c].submitted /\ u \in chain[c].sel
        /\ chain[c].hand = {}
    BY <1>2 DEF PrintFails, Reprintable, ChainShape, RunShape
  <2>3. u \in Orders  BY <2>2 DEF PipelineTypeOK, Chain
  <2> QED BY <2>1, <2>2, <2>3 DEF Copied, PipelineTypeOK
<1>3. CASE ~PrintLabel(c) /\ ~PrintFails(c)
  <2>1. paper' = paper
    BY <1>3 DEF ChainStep, Select, Split, MoveToPrinting, RecordPrint, Mark, Filter, Buy,
                BuyRaises, Pick, Raise, Crash
  <2> QED BY <2>1
<1> QED BY <1>1, <1>2, <1>3

(* A run goes on with what it has printed until it marks it; one that dies or        *)
(* raises leaves it without a mark.                                         *)
LEMMA PrintingLeft ==
  ASSUME PipelineTypeOK, NEW c \in Chains, ChainStep(c), NEW o \in Orders, Printing(c, o)
  PROVE  Printing(c, o)' \/ order'[o].printed \/ o \in unmarked'
<1>0. chain[c] \in Chain /\ chain[c].pc = "print" /\ o \in chain[c].hand \cup chain[c].done
  BY DEF PipelineTypeOK, Printing
<1>1. CASE PrintLabel(c) \/ PrintFails(c)
  <2>1. chain[c].hand = {} /\ o \in chain[c].done  BY <1>0, <1>1 DEF PrintLabel, PrintFails
  <2>2. PICK u : \/ chain' = [chain EXCEPT ![c] = [chain[c] EXCEPT !.hand = {u}]]
                 \/ chain' = [chain EXCEPT ![c] =
                      [chain[c] EXCEPT !.failed = TRUE, !.labels = chain[c].labels \ {u}]]
    BY <1>1 DEF PrintLabel, PrintFails
  <2>3. \/ chain'[c] = [chain[c] EXCEPT !.hand = {u}]
        \/ chain'[c] = [chain[c] EXCEPT !.failed = TRUE, !.labels = chain[c].labels \ {u}]
    BY <2>2 DEF PipelineTypeOK
  <2>4. chain'[c].pc = "print" /\ chain'[c].done = chain[c].done
    BY <1>0, <2>3 DEF Chain
  <2> QED BY <2>1, <2>4 DEF Printing
<1>2. CASE RecordPrint(c)
  <2> DEFINE u == ToRecord(c)
  <2>1. chain' = [chain EXCEPT ![c] = [chain[c] EXCEPT !.submitted = chain[c].submitted \cup u,
                                         !.hand = {}, !.done = chain[c].done \cup u]]
    BY <1>2 DEF RecordPrint
  <2>2. o \in chain[c].done \cup u  BY <1>0 DEF ToRecord
  <2> HIDE DEF u
  <2>3. chain'[c].pc = "print" /\ chain'[c].done = chain[c].done \cup u
    BY <1>0, <2>1 DEF PipelineTypeOK, Chain
  <2> QED BY <2>2, <2>3 DEF Printing
<1>3. CASE Mark(c)
  <2>1. o \in chain[c].done  BY <1>0, <1>3 DEF Mark
  <2>2. order'[o] = [order[o] EXCEPT !.printed = TRUE]  BY <1>3, <2>1 DEF Mark, PrintedSet
  <2> QED BY <2>2 DEF PipelineTypeOK, OrderRow
<1>4. CASE Crash(c) \/ Raise(c)
  <2>1. ~order[o].printed => o \in unmarked'  BY <1>0, <1>4 DEF Crash, Raise, Unsaid
  <2>2. order' = order  BY <1>4 DEF Crash, Raise
  <2> QED BY <2>1, <2>2
<1> QED BY <1>0, <1>1, <1>2, <1>3, <1>4
        DEF ChainStep, Select, Split, MoveToPrinting, Filter, Buy, BuyRaises, Pick

(* A chain that knows an order as printed still does after each of its steps that   *)
(* keeps the order, or the run raised with the label in hand.                   *)
LEMMA KnowsStays ==
  ASSUME PipelineTypeOK, ChainShape, NEW c \in Chains, ChainStep(c), NEW o \in Orders,
         o \in chain[c].sel, o \in chain'[c].sel, Knows(c, o)
  PROVE  Knows(c, o)' \/ o \in unmarked'
<1> DEFINE ch == chain[c]
<1>0. /\ ch \in Chain /\ RunShape(ch)
      /\ \A r : chain' = [chain EXCEPT ![c] = r] => chain'[c] = r
  BY DEF PipelineTypeOK, ChainShape
<1>1. order'[o].biz \in {"pending", "printing"} =>
        order[o].biz \in {"pending", "printing"} \/ o \in ch.labels
  BY ChainRows
<1>2. ASSUME ch.submitted \cup ch.hand \subseteq chain'[c].submitted \cup chain'[c].hand,
             chain'[c].labels \subseteq ch.labels
      PROVE  Knows(c, o)'
  BY <1>1, <1>2 DEF Knows
<1>3. Ended.sel = {}  BY DEF Ended
<1>4. ASSUME ch.hand = {}, chain' = [chain EXCEPT ![c] = AfterRaise(ch)] PROVE Knows(c, o)'
  <2>1. chain'[c] = AfterRaise(ch)  BY <1>0, <1>4
  <2> QED BY <1>0, <1>2, <1>3, <1>4, <2>1, RaiseTyped
<1>5. CASE Select(c)
  <2>1. chain'[c] = [Ended EXCEPT !.pc = "split", !.attempt = ch.attempt, !.sel = ToSelect(c),
                                  !.submitted = ch.submitted]
    BY <1>0, <1>5 DEF Select
  <2>2. chain'[c].submitted = ch.submitted /\ chain'[c].labels = {}  BY <2>1 DEF Ended
  <2>3. ch.hand = {}  BY <1>0, <1>5 DEF Select, RunShape
  <2> QED BY <1>2, <2>2, <2>3
<1>6. CASE Split(c)
  <2> DEFINE mine == ch.sel \cap (InStage("pending") \cup InStage("printing"))
             waiting == ch.sel \cap InStage("buying")
  <2>1. chain'[c] = [ch EXCEPT !.pc = "wait", !.labels = mine \ Of("exempt"),
                               !.buy = waiting \ Of("exempt")]
    BY <1>0, <1>6 DEF Split
  <2>2. chain'[c].submitted = ch.submitted /\ chain'[c].hand = ch.hand
        /\ chain'[c].labels \subseteq mine
    BY <1>0, <2>1 DEF Chain
  <2>3. order[o].biz \notin {"pending", "printing"} => o \notin mine  BY DEF InStage
  <2>4. ch.pc = "split"  BY <1>6 DEF Split
  <2>5. order'[o].biz \in {"pending", "printing"} => order[o].biz \in {"pending", "printing"}
    BY <2>4, ChainRows
  <2> HIDE DEF mine, waiting
  <2> QED BY <2>2, <2>3, <2>5 DEF Knows
<1>7. CASE MoveToPrinting(c)
  <2>1. PICK ready \in SUBSET ch.labels : chain' = [chain EXCEPT ![c] =
          [@ EXCEPT !.labels = ready, !.pc = After(ready)]]
    BY <1>7 DEF MoveToPrinting
  <2>2. chain'[c] = [ch EXCEPT !.labels = ready, !.pc = After(ready)]
    BY <1>0, <2>1
  <2>3. chain'[c].submitted = ch.submitted /\ chain'[c].hand = ch.hand
        /\ chain'[c].labels = ready
    BY <1>0, <2>2 DEF Chain
  <2> QED BY <1>2, <2>3
<1>8. CASE PrintLabel(c) \/ PrintFails(c)
  <2>1. PICK u : \/ chain' = [chain EXCEPT ![c] = [ch EXCEPT !.hand = {u}]]
                 \/ chain' = [chain EXCEPT ![c] =
                      [ch EXCEPT !.failed = TRUE, !.labels = ch.labels \ {u}]]
    BY <1>8 DEF PrintLabel, PrintFails
  <2>2. \/ chain'[c] = [ch EXCEPT !.hand = {u}]
        \/ chain'[c] = [ch EXCEPT !.failed = TRUE, !.labels = ch.labels \ {u}]
    BY <1>0, <2>1
  <2>3. chain'[c].submitted = ch.submitted /\ chain'[c].labels \subseteq ch.labels
    BY <1>0, <2>2 DEF Chain
  <2>4. ch.hand = {}  BY <1>8 DEF PrintLabel, PrintFails
  <2> QED BY <1>2, <2>3, <2>4
<1>9. CASE RecordPrint(c)
  <2> DEFINE u == ToRecord(c)
  <2>1. chain' = [chain EXCEPT ![c] = [ch EXCEPT !.submitted = ch.submitted \cup u,
                                                 !.hand = {}, !.done = ch.done \cup u]]
    BY <1>9 DEF RecordPrint
  <2>2. ch.hand \subseteq u  BY DEF ToRecord
  <2> HIDE DEF u
  <2>3. chain'[c].labels = ch.labels /\ chain'[c].submitted = ch.submitted \cup u
    BY <1>0, <2>1 DEF PipelineTypeOK, Chain
  <2> QED BY <1>2, <2>2, <2>3
<1>10. CASE Mark(c)
  <2>1. /\ \/ chain' = [chain EXCEPT ![c] =
                [ch EXCEPT !.pc = "filter", !.labels = {}, !.buy = ch.buy \cup ch.done]]
           \/ chain' = [chain EXCEPT ![c] = AfterRaise(ch)]
        /\ ch.hand = {}
    BY <1>10 DEF Mark
  <2>2. ASSUME chain' = [chain EXCEPT ![c] =
                 [ch EXCEPT !.pc = "filter", !.labels = {}, !.buy = ch.buy \cup ch.done]]
        PROVE  chain'[c].labels = {} /\ chain'[c].submitted = ch.submitted
    BY <1>0, <2>2 DEF PipelineTypeOK, Chain
  <2> QED BY <1>2, <1>4, <2>1, <2>2
<1>11. CASE Filter(c) \/ Buy(c)
  <2>1. PICK b, q : \/ chain' = [chain EXCEPT ![c] = [ch EXCEPT !.pc = "buy", !.buy = b]]
                    \/ chain' = [chain EXCEPT ![c] = [ch EXCEPT !.pc = "pick"]]
                    \/ chain' = [chain EXCEPT ![c] = Ended]
    BY <1>11 DEF Filter, Buy
  <2>2. \/ chain'[c] = Ended
        \/ /\ chain'[c].labels = ch.labels /\ chain'[c].submitted = ch.submitted
           /\ chain'[c].hand = ch.hand
    BY <1>0, <2>1 DEF PipelineTypeOK, Chain
  <2> QED BY <1>2, <1>3, <2>2
<1>12. CASE BuyRaises(c)
  <2>1. chain' = [chain EXCEPT ![c] = AfterRaise(ch)] /\ ch.pc # "print"
    BY <1>12 DEF BuyRaises
  <2>2. ch.hand = {}  BY <1>0, <2>1 DEF RunShape
  <2> QED BY <1>4, <2>1, <2>2
<1>14. CASE Raise(c)
  <2>1. /\ chain' = [chain EXCEPT ![c] = AfterRaise(ch)]
        /\ ch.hand \subseteq unmarked'
    BY <1>14 DEF Raise, Unsaid
  <2>2. CASE o \in ch.hand  BY <2>1, <2>2
  <2>3. CASE o \notin ch.hand
    <3>1. chain'[c] = AfterRaise(ch)  BY <1>0, <2>1
    <3>2. chain'[c].submitted = ch.submitted /\ chain'[c].labels = {}
      BY <1>0, <1>3, <3>1, RaiseTyped
    <3> QED BY <1>1, <2>3, <3>2 DEF Knows
  <2> QED BY <2>2, <2>3
<1>13. CASE Pick(c) \/ Crash(c)
  <2>1. chain'[c] = Ended  BY <1>0, <1>13 DEF Pick, Crash
  <2> QED BY <1>3, <2>1
<1> QED BY <1>5, <1>6, <1>7, <1>8, <1>9, <1>10, <1>11, <1>12, <1>13,
            <1>14 DEF ChainStep

(* A step of a chain.                                                      *)
LEMMA ChainPrints ==
  ASSUME PipelineTypeOK, PrintInv, NEW c \in Chains, ChainStep(c)
  PROVE  PrintKept' /\ PrintKnown' /\ PrintedOnce'
<1> USE DEF PrintInv
<1>1. /\ \A d \in Chains \ {c} : chain'[d] = chain[d]
      /\ shared \subseteq shared'
  BY RecordShape
<1>2. unmarked \subseteq unmarked'
  BY DEF ChainStep, Select, Split, MoveToPrinting, PrintLabel, PrintFails, RecordPrint, Mark,
         Filter, Buy, BuyRaises, Pick, Raise, Crash, history
<1>3. \A o \in Orders : paper[o] \in Nat  BY PipelineAssumption DEF PipelineTypeOK
<1>4. chain'[c].sel \subseteq chain[c].sel \/ Select(c)  BY RecordShape
<1>5. ASSUME NEW o \in Orders, o \notin unmarked', paper'[o] > 0
      PROVE  order'[o].printed \/ \E d \in Chains : Printing(d, o)'
  <2>1. CASE Printing(c, o)'  BY <2>1
  <2>2. CASE paper'[o] = paper[o]
    <3>1. CASE order[o].printed  BY <3>1, ChainRows
    <3>2. CASE \E d \in Chains : Printing(d, o)
      <4>1. PICK d \in Chains : Printing(d, o)  BY <3>2
      <4>2. CASE d = c  BY <1>5, <4>1, <4>2, PrintingLeft
      <4>3. CASE d # c
        <5>1. Printing(d, o)'  BY <1>1, <4>1, <4>3 DEF Printing
        <5> QED BY <5>1
      <4> QED BY <4>2, <4>3
    <3> QED BY <1>2, <1>5, <2>2, <3>1, <3>2 DEF PrintKept
  <2> QED BY <1>5, <2>1, <2>2, PaperGrows
<1>6. ASSUME NEW o \in Orders, o \notin shared' \cup unmarked', NEW d \in Chains,
             o \in chain'[d].sel, paper'[o] > 0
      PROVE  Knows(d, o)'
  <2>0. o \notin shared \cup unmarked  BY <1>1, <1>2, <1>6
  <2>1. ASSUME o \in chain[c].labels, o \in chain[c].sel, d # c PROVE FALSE
    BY <1>1, <1>6, <2>0, <2>1 DEF Alone
  <2>2. CASE paper'[o] # paper[o]
    <3>1. o \in chain[c].labels /\ o \in chain[c].sel /\ o \in chain'[c].hand
      BY <1>6, <2>2, PaperGrows
    <3> QED BY <2>1, <3>1 DEF Knows
  <2>3. CASE paper'[o] = paper[o] /\ d # c
    <3>1. chain'[d] = chain[d] /\ Knows(d, o)  BY <1>1, <1>6, <2>0, <2>3 DEF PrintKnown
    <3>2. o \notin chain[c].labels  BY <2>1, <2>3 DEF ChainShape, RunShape
    <3>3. order'[o].biz \in {"pending", "printing"} => order[o].biz \in {"pending", "printing"}
      BY <3>2, ChainRows
    <3> QED BY <3>1, <3>3 DEF Knows
  <2>4. CASE paper'[o] = paper[o] /\ d = c /\ o \in chain[c].sel
    <3>1. Knows(c, o)  BY <1>6, <2>0, <2>4 DEF PrintKnown
    <3> QED BY <1>6, <2>4, <3>1, KnowsStays
  <2>5. CASE paper'[o] = paper[o] /\ d = c /\ o \notin chain[c].sel
    <3>1. Select(c)  BY <1>4, <1>6, <2>5
    <3>2. chain'[c] = [Ended EXCEPT !.pc = "split", !.attempt = chain[c].attempt,
                         !.sel = ToSelect(c), !.submitted = chain[c].submitted]
      BY <3>1 DEF Select, PipelineTypeOK
    <3>3. chain'[c].sel = ToSelect(c) /\ chain'[c].labels = {}  BY <3>2 DEF Ended
    <3>4. o \in Selectable  BY <1>6, <2>5, <3>3 DEF ToSelect
    <3>5. order' = order  BY <3>1 DEF Select
    <3>6. CASE order[o].biz = "buying"
      BY <2>5, <3>3, <3>5, <3>6 DEF Knows
    <3>7. CASE ~order[o].printed
      <4>1. PICK e \in Chains : Printing(e, o)
        BY <1>6, <2>0, <2>5, <3>7 DEF PrintKept
      <4>2. e # c /\ o \in chain[e].sel
        BY <3>1, <4>1 DEF Printing, Select, ChainShape, RunShape
      <4>3. o \in shared'  BY <1>6, <2>5, <3>1, <3>3, <4>2 DEF Select
      <4> QED BY <1>6, <4>3
    <3> QED BY <3>4, <3>6, <3>7 DEF Selectable, InStage
  <2> QED BY <2>2, <2>3, <2>4, <2>5
<1>7. ASSUME NEW o \in Orders, paper'[o] > 1, o \notin shared' \cup unmarked' PROVE FALSE
  <2>0. o \notin shared \cup unmarked  BY <1>1, <1>2, <1>7
  <2>1. CASE paper'[o] = paper[o]  BY <1>7, <2>0, <2>1 DEF PrintedOnce
  <2>2. CASE paper'[o] # paper[o]
    <3>1. /\ o \in chain[c].labels /\ o \notin chain[c].submitted \cup chain[c].hand
          /\ paper'[o] = paper[o] + 1 /\ o \in chain[c].sel
      BY <2>2, PaperGrows
    <3>2. paper[o] > 0  BY <1>3, <1>7, <3>1
    <3> QED BY <2>0, <3>1, <3>2 DEF PrintKnown, Knows
  <2> QED BY <2>1, <2>2
<1> QED BY <1>5, <1>6, <1>7 DEF PrintKept, PrintKnown, PrintedOnce

(* A label is printed once for any orders, chains, retries and faults, unless two    *)
(* active chains had the order, or a copy came out that no run marked: the printer   *)
(* reported a failure, or the run died or raised before its mark.               *)
THEOREM LabelsPrintedOnce == PipelineSpec => []PrintedOnce
<1>1. PipelineInit => PrintInv
  <2>1. PipelineInit => \A o \in Orders : paper[o] = 0  BY DEF PipelineInit
  <2>2. PipelineInit => \A c \in Chains : chain[c] = Ended  BY DEF PipelineInit
  <2>3. PipelineInit => ChainShape /\ Alone
    BY <2>2 DEF ChainShape, Alone, RunShape, Ended
  <2>4. PipelineInit => PrintKept /\ PrintKnown /\ PrintedOnce
    BY <2>1 DEF PrintKept, PrintKnown, PrintedOnce
  <2> QED BY <2>3, <2>4 DEF PrintInv
<1>2. PipelineTypeOK /\ PrintInv /\ [PipelineNext]_pipelineVars => PrintInv'
  <2> SUFFICES ASSUME PipelineTypeOK, PrintInv, [PipelineNext]_pipelineVars PROVE PrintInv'
    OBVIOUS
  <2>1. ChainShape' /\ Alone'  BY ShapeStep DEF PrintInv
  <2>2. CASE \E c \in Chains : ChainStep(c)  BY <2>1, <2>2, ChainPrints DEF PrintInv
  <2>3. CASE OperatorStep
    <3>1. UNCHANGED <<paper, chain, shared, unmarked>>  BY <2>3, OperatorRows
    <3>2. \A o \in Orders :
            /\ order[o].printed => order'[o].printed
            /\ order'[o].biz \in {"pending", "printing"} => order[o].biz \in {"pending", "printing"}
      BY <2>3, OperatorMoves
    <3> QED BY <2>1, <3>1, <3>2
            DEF PrintInv, PrintKept, PrintKnown, PrintedOnce, Knows, Printing
  <2>4. CASE UNCHANGED pipelineVars
    BY <2>1, <2>4 DEF pipelineVars, PrintInv, PrintKept, PrintKnown, PrintedOnce, Knows, Printing
  <2> QED BY <2>2, <2>3, <2>4 DEF PipelineNext
<1>3. PrintInv => PrintedOnce  BY DEF PrintInv
<1> QED BY <1>1, <1>2, <1>3, PipelineTypeCorrect, PTL DEF PipelineSpec
-----------------------------------------------------------------------------
(* Orders a run is to purchase are marked as printed; those it is to pick are in a *)
(* purchase, or one was deleted under its feet.                              *)
BuyPrinted ==
  \A c \in Chains : \A o \in chain[c].buy :
    /\ order[o].printed
    /\ chain[c].pc = "pick" => order[o].purchase # 0 \/ o \in stripped

(* A run is to purchase what it was to, what waits for a purchase, or what it has   *)
(* just marked; and it picks only what it has just purchased.                  *)
LEMMA BuyGrows ==
  ASSUME PipelineTypeOK, NEW c \in Chains, ChainStep(c)
  PROVE  /\ \A d \in Chains \ {c} : chain'[d] = chain[d]
         /\ \A o \in chain'[c].buy :
              /\ o \in Orders
              /\ o \in chain[c].buy \/ order[o].biz = "buying" \/ order'[o].printed
              /\ chain'[c].pc = "pick" => order'[o].purchase # 0
<1> DEFINE ch == chain[c]
<1>0. ch \in Chain  BY DEF PipelineTypeOK
<1>1. ASSUME NEW r, chain' = [chain EXCEPT ![c] = r]
      PROVE  chain'[c] = r /\ \A d \in Chains \ {c} : chain'[d] = chain[d]
  BY <1>1 DEF PipelineTypeOK
<1>2. Ended.buy = {}  BY DEF Ended
<1>3. ASSUME NEW r, chain' = [chain EXCEPT ![c] = r], r.buy \subseteq ch.buy, r.pc # "pick"
      PROVE  /\ \A d \in Chains \ {c} : chain'[d] = chain[d]
             /\ \A o \in chain'[c].buy :
                  /\ o \in Orders
                  /\ o \in chain[c].buy \/ order[o].biz = "buying" \/ order'[o].printed
                  /\ chain'[c].pc = "pick" => order'[o].purchase # 0
  <2>1. ch.buy \subseteq Orders  BY <1>0 DEF Chain
  <2> QED BY <1>1, <1>3, <2>1
<1>4. Ended.pc # "pick"  BY DEF Ended
<1>5. CASE Select(c)
  <2> DEFINE r == [Ended EXCEPT !.pc = "split", !.attempt = ch.attempt, !.sel = ToSelect(c),
                                !.submitted = ch.submitted]
  <2>1. chain' = [chain EXCEPT ![c] = r]  BY <1>5 DEF Select
  <2>2. r.buy = {} /\ r.pc = "split"  BY DEF Ended
  <2> HIDE DEF r
  <2> QED BY <1>3, <2>1, <2>2
<1>6. CASE Split(c)
  <2> DEFINE mine == ch.sel \cap (InStage("pending") \cup InStage("printing"))
             waiting == ch.sel \cap InStage("buying")
             r == [ch EXCEPT !.pc = "wait", !.labels = mine \ Of("exempt"),
                             !.buy = waiting \ Of("exempt")]
  <2>1. chain' = [chain EXCEPT ![c] = r]  BY <1>6 DEF Split
  <2>2. r.pc = "wait" /\ r.buy \subseteq waiting  BY <1>0 DEF Chain
  <2>3. \A o \in waiting : o \in Orders /\ order[o].biz = "buying"  BY DEF InStage
  <2> HIDE DEF r, mine, waiting
  <2> QED BY <1>1, <2>1, <2>2, <2>3
<1>7. CASE MoveToPrinting(c)
  <2>1. PICK ready : chain' = [chain EXCEPT ![c] =
          [@ EXCEPT !.labels = ready, !.pc = After(ready)]]
    BY <1>7 DEF MoveToPrinting
  <2> DEFINE r == [ch EXCEPT !.labels = ready, !.pc = After(ready)]
  <2>2. chain' = [chain EXCEPT ![c] = r]  BY <2>1
  <2>3. r.pc # "pick" /\ r.buy = ch.buy  BY <1>0 DEF Chain, After
  <2> HIDE DEF r
  <2> QED BY <1>3, <2>2, <2>3
<1>8. CASE PrintLabel(c) \/ PrintFails(c)
  <2>1. PICK o : \/ chain' = [chain EXCEPT ![c] = [ch EXCEPT !.hand = {o}]]
                 \/ chain' = [chain EXCEPT ![c] =
                      [ch EXCEPT !.failed = TRUE, !.labels = ch.labels \ {o}]]
    BY <1>8 DEF PrintLabel, PrintFails
  <2> DEFINE r == [ch EXCEPT !.hand = {o}]
             f == [ch EXCEPT !.failed = TRUE, !.labels = ch.labels \ {o}]
  <2>2. chain' = [chain EXCEPT ![c] = r] \/ chain' = [chain EXCEPT ![c] = f]  BY <2>1
  <2>3. ch.pc = "print"  BY <1>8 DEF PrintLabel, PrintFails
  <2>4. r.pc # "pick" /\ r.buy = ch.buy /\ f.pc # "pick" /\ f.buy = ch.buy
    BY <1>0, <2>3 DEF Chain
  <2> HIDE DEF r, f
  <2> QED BY <1>3, <2>2, <2>4
<1>9. CASE RecordPrint(c)
  <2> DEFINE o == ToRecord(c)
             r == [ch EXCEPT !.submitted = ch.submitted \cup o, !.hand = {},
                             !.done = ch.done \cup o]
  <2>1. chain' = [chain EXCEPT ![c] = r] /\ ch.pc = "print"  BY <1>9 DEF RecordPrint
  <2> HIDE DEF o
  <2>2. r.pc # "pick" /\ r.buy = ch.buy  BY <1>0, <2>1 DEF Chain
  <2> HIDE DEF r
  <2> QED BY <1>3, <2>1, <2>2
<1>10. CASE Mark(c)
  <2> DEFINE r == [ch EXCEPT !.pc = "filter", !.labels = {}, !.buy = ch.buy \cup ch.done]
  <2>1. \/ chain' = [chain EXCEPT ![c] = r]
        \/ chain' = [chain EXCEPT ![c] = AfterRaise(ch)]
    BY <1>10 DEF Mark
  <2>2. r.pc = "filter" /\ r.buy = ch.buy \cup ch.done  BY <1>0 DEF Chain
  <2>3. \A o \in ch.done : o \in Orders /\ order'[o].printed
    <3>1. \A o \in Orders : [order[o] EXCEPT !.printed = TRUE].printed = TRUE
      BY DEF PipelineTypeOK, OrderRow
    <3> QED BY <1>0, <1>10, <3>1 DEF Mark, PrintedSet, Chain
  <2>4. ch.buy \subseteq Orders  BY <1>0 DEF Chain
  <2>5. AfterRaise(ch).buy = {} /\ AfterRaise(ch).pc # "pick"
    BY <1>0, <1>2, <1>4, RaiseTyped
  <2> HIDE DEF r
  <2>6. CASE chain' = [chain EXCEPT ![c] = r]  BY <1>1, <2>2, <2>3, <2>4, <2>6
  <2>7. CASE chain' = [chain EXCEPT ![c] = AfterRaise(ch)]  BY <1>3, <2>5, <2>7
  <2> QED BY <2>1, <2>6, <2>7
<1>11. CASE Filter(c)
  <2> DEFINE left == ch.buy \ Of("nameless")
             r == [ch EXCEPT !.pc = "buy", !.buy = left]
  <2>1. chain' = [chain EXCEPT ![c] = r] \/ chain' = [chain EXCEPT ![c] = Ended]
    BY <1>11 DEF Filter
  <2>2. r.pc = "buy" /\ r.buy \subseteq ch.buy  BY <1>0 DEF Chain
  <2> HIDE DEF r
  <2> QED BY <1>2, <1>3, <1>4, <2>1, <2>2
<1>12. CASE Buy(c)
  <2> DEFINE r == [ch EXCEPT !.pc = "pick"]
  <2>1. chain' = [chain EXCEPT ![c] = r]  BY <1>12 DEF Buy
  <2>2. PICK n \in PurchaseFor(ch.buy) : n <= MaxPurchases /\ order' = Bought(ch.buy, n)
    BY <1>12 DEF Buy
  <2>3. ch.buy \in SUBSET Orders  BY <1>0 DEF Chain
  <2>4. n \in 1..MaxPurchases  BY <2>2, <2>3, PurchaseNumber
  <2>5. \A o \in ch.buy : order'[o].purchase = n
    BY <2>2, <2>3 DEF Bought, PipelineTypeOK, OrderRow
  <2>6. r.buy = ch.buy  BY <1>0 DEF Chain
  <2> HIDE DEF r
  <2> QED BY <1>1, <2>1, <2>3, <2>4, <2>5, <2>6
<1>13. CASE BuyRaises(c) \/ Raise(c)
  <2>1. chain' = [chain EXCEPT ![c] = AfterRaise(ch)]  BY <1>13 DEF BuyRaises, Raise
  <2>2. AfterRaise(ch).buy = {} /\ AfterRaise(ch).pc # "pick"
    BY <1>0, <1>2, <1>4, RaiseTyped
  <2> QED BY <1>3, <2>1, <2>2
<1>14. CASE Pick(c) \/ Crash(c)
  <2>1. chain' = [chain EXCEPT ![c] = Ended]  BY <1>14 DEF Pick, Crash
  <2> QED BY <1>2, <1>3, <1>4, <2>1
<1> QED BY <1>5, <1>6, <1>7, <1>8, <1>9, <1>10, <1>11, <1>12, <1>13, <1>14 DEF ChainStep

(* An order that a request is about to pick is marked as printed; if it was found in *)
(* a purchase, it is in one, or that was deleted under the request's feet.        *)
HandEarned ==
  \A o \in Orders : byHand[o] # "none" =>
    /\ order[o].printed
    /\ byHand[o] = "joined" => order[o].purchase # 0 \/ o \in stripped

StageInv == BuyPrinted /\ HandEarned /\ StagesEarned

LEMMA StageStep ==
  ASSUME PipelineTypeOK, StageInv, [PipelineNext]_pipelineVars
  PROVE  StageInv'
<1> USE DEF StageInv
<1>0. \A c \in Chains : chain[c].buy \subseteq Orders  BY DEF PipelineTypeOK, Chain
<1>1. /\ \A o \in Orders : order[o].biz \in {"buying", "picking"} => order[o].printed
      /\ \A o \in Orders : order[o].biz = "picking" => order[o].purchase # 0 \/ o \in stripped
  BY DEF StagesEarned, InStage
<1>2. ASSUME \A o \in Orders : order'[o].biz \in {"buying", "picking"} => order'[o].printed,
             \A o \in Orders : order'[o].biz = "picking" =>
                                 order'[o].purchase # 0 \/ o \in stripped'
      PROVE  StagesEarned'
  BY <1>2 DEF StagesEarned, InStage
<1>3. ASSUME NEW c \in Chains, ChainStep(c) PROVE StageInv'
  <2>1. /\ stripped' = stripped
        /\ \A o \in Orders :
             /\ order[o].printed => order'[o].printed
             /\ order[o].purchase # 0 => order'[o].purchase # 0
             /\ order'[o].biz = "buying" =>
                  order[o].biz = "buying" \/ (chain[c].pc = "filter" /\ o \in chain[c].buy)
             /\ order'[o].biz = "picking" =>
                  order[o].biz = "picking" \/ (chain[c].pc = "pick" /\ o \in chain[c].buy)
    BY <1>3, ChainRows
  <2>2. StagesEarned'  BY <1>1, <1>2, <2>1 DEF BuyPrinted
  <2>3. BuyPrinted'
    <3> SUFFICES ASSUME NEW d \in Chains, NEW o \in chain'[d].buy
                 PROVE  /\ order'[o].printed
                        /\ chain'[d].pc = "pick" => order'[o].purchase # 0 \/ o \in stripped'
      BY DEF BuyPrinted
    <3>1. CASE d = c
      <4>1. o \in Orders /\ (o \in chain[c].buy \/ order[o].biz = "buying" \/ order'[o].printed)
            /\ (chain'[c].pc = "pick" => order'[o].purchase # 0)
        BY <1>3, <3>1, BuyGrows
      <4> QED BY <1>1, <2>1, <3>1, <4>1 DEF BuyPrinted
    <3>2. CASE d # c
      <4>1. chain'[d] = chain[d]  BY <1>3, <3>2, BuyGrows
      <4> QED BY <1>0, <2>1, <4>1 DEF BuyPrinted
    <3> QED BY <3>1, <3>2
  <2>4. byHand' = byHand
    BY <1>3 DEF ChainStep, Select, Split, MoveToPrinting, PrintLabel, PrintFails, RecordPrint,
                Mark, Filter, Buy, BuyRaises, Pick, Raise, Crash
  <2>5. HandEarned'  BY <2>1, <2>4 DEF HandEarned
  <2> QED BY <2>2, <2>3, <2>5
<1>4. CASE OperatorStep
  <2>1. chain' = chain /\ stripped \subseteq stripped'  BY <1>4, OperatorRows
  <2>2. \A o \in Orders :
          /\ order[o].printed => order'[o].printed
          /\ order'[o].biz \in {"buying", "picking"} =>
               order'[o].printed \/ order[o].biz \in {"buying", "picking"} \/ byHand[o] # "none"
          /\ order'[o].biz = "picking" =>
               \/ order'[o].purchase # 0
               \/ order[o].biz = "picking" /\ order[o].purchase = 0
               \/ o \in stripped'
               \/ byHand[o] = "joined" /\ order[o].purchase = 0
          /\ order[o].purchase # 0 /\ order'[o].purchase = 0 =>
               /\ byHand[o] = "joined" => o \in stripped'
               /\ \A c \in Chains :
                    chain[c].pc = "pick" /\ o \in chain[c].buy => o \in stripped'
          /\ byHand'[o] # "none" =>
               \/ byHand'[o] = byHand[o]
               \/ order[o].biz = "buying" /\ (byHand'[o] = "joined" => order'[o].purchase # 0)
    BY <1>4, OperatorMoves
  <2>3. StagesEarned'  BY <1>1, <1>2, <2>1, <2>2 DEF HandEarned
  <2>4. BuyPrinted'  BY <1>0, <2>1, <2>2 DEF BuyPrinted
  <2>5. ASSUME NEW o \in Orders, byHand'[o] # "none"
        PROVE  order'[o].printed /\ (byHand'[o] = "joined" => order'[o].purchase # 0 \/ o \in stripped')
    <3>1. CASE byHand'[o] = byHand[o]
      <4>1. order[o].printed /\ (byHand[o] = "joined" => order[o].purchase # 0 \/ o \in stripped)
        BY <2>5, <3>1 DEF HandEarned
      <4>2. order'[o].printed  BY <2>2, <4>1
      <4>3. byHand[o] = "joined" /\ order[o].purchase # 0 /\ order'[o].purchase = 0 =>
              o \in stripped'
        BY <2>2
      <4> QED BY <2>1, <3>1, <4>1, <4>2, <4>3
    <3>2. CASE order[o].biz = "buying" /\ (byHand'[o] = "joined" => order'[o].purchase # 0)
      BY <1>1, <2>2, <3>2
    <3> QED BY <2>2, <2>5, <3>1, <3>2
  <2>6. HandEarned'  BY <2>5 DEF HandEarned
  <2> QED BY <2>3, <2>4, <2>6
<1>5. CASE UNCHANGED pipelineVars
  BY <1>5 DEF pipelineVars, BuyPrinted, HandEarned, StagesEarned, InStage
<1> QED BY <1>3, <1>4, <1>5 DEF PipelineNext

(* For any orders, chains, operators and faults: nothing is purchased or picked      *)
(* before its label is printed, nor picked without a purchase, but where one was     *)
(* deleted under a step that had seen it or left its order out of the rollback.     *)
THEOREM StagesAreEarned == PipelineSpec => []StagesEarned
<1>1. PipelineInit => StageInv
  <2> SUFFICES ASSUME PipelineInit PROVE StageInv
    OBVIOUS
  <2>1. \A c \in Chains : chain[c].buy = {}  BY DEF PipelineInit, Ended
  <2>2. \A o \in Orders : order[o].biz \in {"pending", "shipped"} /\ byHand[o] = "none"
    BY DEF PipelineInit
  <2> QED BY <2>1, <2>2 DEF StageInv, BuyPrinted, HandEarned, StagesEarned, InStage
<1>2. StageInv => StagesEarned  BY DEF StageInv
<1> QED BY <1>1, <1>2, StageStep, PipelineTypeCorrect, PTL DEF PipelineSpec
-----------------------------------------------------------------------------
(* The run of the modules keeps the types of all: each step of it is a step of one   *)
(* and leaves the others' variables.                                        *)
THEOREM OrdersTyped == MCSpec => []TypesOK
<1>1. MCInit => PipelineInit /\ DraftInit /\ ShipmentInit /\ OutInit  BY DEF MCInit
<1>2. [MCNext]_mcVars =>
        /\ [PipelineNext]_pipelineVars /\ [DraftNext]_draftVars
        /\ [ShipmentNext]_shipmentVars /\ [OutNext]_outVars
  BY LoneAssumption DEF MCNext, MCPipeline, MCDrafts, MCParcels, MCScans, mcVars, PipelineNext
<1>3. MCSpec => PipelineSpec /\ DraftSpec /\ ShipmentSpec /\ OutSpec
  BY <1>1, <1>2, PTL DEF MCSpec, PipelineSpec, DraftSpec, ShipmentSpec, OutSpec
<1>4. PipelineTypeOK /\ DraftTypeOK /\ ShipmentTypeOK /\ OutTypeOK => TypesOK
  BY DEF TypesOK
<1> QED BY <1>3, <1>4, PipelineTypeCorrect, DraftTypeCorrect, ShipmentTypeCorrect,
           OutTypeCorrect, PTL
==================================================================================
