------------------------------ MODULE CatalogSync ------------------------------
(***************************************************************************)
(* Synchronisation of one shop's product catalogue                          *)
(* (app/platform_product_catalog.py), seen through one row: a product in one   *)
(* warehouse, "listed" while a whole answer of the marketplace names it.  There  *)
(* is a full sync every day, an incremental one every hour, and those an          *)
(* operator starts.                                                        *)
(* Nothing keeps two of them apart: the jobs are different jobs of the          *)
(* scheduler, and an operator's runs in the request.                        *)
(***************************************************************************)
EXTENDS Naturals

CONSTANTS
  Origins,     \* who starts syncs: the scheduler, an operator
  MaxCatalog   \* bound on the clock

ASSUME CatalogAssumption == MaxCatalog \in Nat \ {0}

Modes == {"full", "incremental"}
CatalogSyncs == Origins \X Modes   \* max_instances=1 for each job of the scheduler

VARIABLES
  hour,       \* the clock
  listing,    \* the product at the marketplace
  row,        \* its row of platform_product_catalog_items
  cursor,     \* cursor[m]: the sync cursor of mode m, 0 if it has none
  pull,       \* pull[s]: sync s
  doubtful    \* has a sync that ran beside another one, or whose answer lacked
              \* something, been committed since the last full sync without either?

catalogVars == <<hour, listing, row, cursor, pull, doubtful>>

(* latest: does the row hold the listing's latest state?  got: what a sync has  *)
(* fetched of the product, "old" when it changed after that or the answer lacks   *)
(* a part of it; unsure: another sync has run at the same time, or the answer     *)
(* lacks something.                                                        *)
NoPull == [pc |-> "idle", begun |-> 0, got |-> "none", unsure |-> FALSE]
Pull == [pc : {"idle", "fetch", "save"}, begun : 0..MaxCatalog,
         got : {"none", "old", "latest"}, unsure : BOOLEAN]

CatalogTypeOK ==
  /\ hour \in 1..MaxCatalog
  /\ listing \in [listed : BOOLEAN, changed : 1..MaxCatalog, removed : 0..MaxCatalog]
  /\ row \in [latest : BOOLEAN, active : BOOLEAN, seen : 0..MaxCatalog]
  /\ cursor \in [Modes -> 0..MaxCatalog]
  /\ pull \in [CatalogSyncs -> Pull]
  /\ doubtful \in BOOLEAN

CatalogInit ==
  /\ hour = 1
  /\ listing = [listed |-> TRUE, changed |-> 1, removed |-> 0]
  /\ row = [latest |-> FALSE, active |-> FALSE, seen |-> 0]
  /\ cursor = [m \in Modes |-> 0]
  /\ pull = [s \in CatalogSyncs |-> NoPull]
  /\ doubtful = FALSE

Pulling(s) == pull[s].pc # "idle"
-----------------------------------------------------------------------------
(* _load_latest_catalog_sync_cursor                                         *)
LatestCursor == IF cursor["full"] > cursor["incremental"] THEN cursor["full"]
                                                           ELSE cursor["incremental"]

(* synchronize_platform_catalog, for a shop: started_at is taken first.        *)
BeginPull(s) ==
  LET others == {u \in CatalogSyncs \ {s} : Pulling(u)} IN
  /\ ~Pulling(s)
  /\ pull' = [u \in CatalogSyncs |->
       IF u = s THEN [NoPull EXCEPT !.pc = "fetch", !.begun = hour, !.unsure = others # {}]
       ELSE IF u \in others THEN [pull[u] EXCEPT !.unsure = TRUE] ELSE pull[u]]
  /\ UNCHANGED <<hour, listing, row, cursor, doubtful>>

(* What the sync asks for: everything, or what changed since the later cursor.   *)
Asked(s) == listing.listed /\ (s[2] = "full" \/ listing.changed >= LatestCursor)

(* An answer with got is not one to rely on.                                *)
Doubt(s, got) == pull[s].unsure \/ got = "old" \/ (got = "none" /\ Asked(s))

(* fetch_platform_products.  A connector may answer with more than was asked     *)
(* for.  It may also leave a product out, or one of its parts, and still succeed: *)
(* prices or stocks that could not be read, entries without a body.           *)
FetchProducts(s) ==
  /\ pull[s].pc = "fetch"
  /\ \E got \in IF listing.listed THEN {"none", "old", "latest"} ELSE {"none"} :
       pull' = [pull EXCEPT ![s] =
         [@ EXCEPT !.pc = "save", !.got = got, !.unsure = Doubt(s, got)]]
  /\ UNCHANGED <<hour, listing, row, cursor, doubtful>>

(* upsert_catalog_item                                                     *)
Upserted(s) ==
  IF pull[s].got = "none" THEN row
  ELSE [latest |-> pull[s].got = "latest", active |-> TRUE, seen |-> pull[s].begun]

(* A full sync deactivates the rows that it and later syncs have not seen.      *)
Deactivated(s, r) ==
  IF s[2] = "full" /\ 0 < r.seen /\ r.seen < pull[s].begun THEN [r EXCEPT !.active = FALSE]
                                                           ELSE r

(* Mutant: the cursor is the time the sync ended.                           *)
SavedAtEnd(s) == hour

(* _save_catalog_sync_cursor                                               *)
Saved(s) == pull[s].begun

(* Rows, deactivation and cursor are one transaction.                         *)
CommitPull(s) ==
  /\ pull[s].pc = "save"
  /\ row' = Deactivated(s, Upserted(s))
  /\ cursor' = [cursor EXCEPT ![s[2]] = Saved(s)]
  /\ pull' = [pull EXCEPT ![s] = NoPull]
  /\ doubtful' = (pull[s].unsure \/ (doubtful /\ s[2] # "full"))
  /\ UNCHANGED <<hour, listing>>

(* The connector or a row raises, or the process dies: rolled back.            *)
FailPull(s) ==
  /\ Pulling(s)
  /\ pull' = [pull EXCEPT ![s] = NoPull]
  /\ UNCHANGED <<hour, listing, row, cursor, doubtful>>
-----------------------------------------------------------------------------
Outdated == [s \in CatalogSyncs |->
               IF pull[s].got = "latest" THEN [pull[s] EXCEPT !.got = "old"] ELSE pull[s]]

(* The seller changes the listing, or lists the product again.                *)
ChangeListing ==
  /\ listing' = [listing EXCEPT !.listed = TRUE, !.changed = hour]
  /\ row' = [row EXCEPT !.latest = FALSE]
  /\ pull' = Outdated
  /\ UNCHANGED <<hour, cursor, doubtful>>

Delist ==
  /\ listing.listed
  /\ listing' = [listing EXCEPT !.listed = FALSE, !.removed = hour]
  /\ pull' = Outdated
  /\ UNCHANGED <<hour, row, cursor, doubtful>>

Hour ==
  /\ hour < MaxCatalog /\ hour' = hour + 1
  /\ UNCHANGED <<listing, row, cursor, pull, doubtful>>

CatalogNext ==
  \/ \E s \in CatalogSyncs : BeginPull(s) \/ FetchProducts(s) \/ CommitPull(s) \/ FailPull(s)
  \/ ChangeListing \/ Delist \/ Hour

CatalogSpec == CatalogInit /\ [][CatalogNext]_catalogVars
-----------------------------------------------------------------------------
(* A listing whose latest state the catalogue does not show is asked for by the   *)
(* next incremental sync, and a product that is gone but still active was         *)
(* removed after the last full sync began: modes, failures and the one cursor     *)
(* both of them advance lose no change.  Excepted is what a sync leaves behind    *)
(* that ran beside another one or took an incomplete answer for a success, until  *)
(* a full sync does neither.                                                *)
CatalogCurrent ==
  doubtful \/
    /\ listing.listed /\ ~(row.latest /\ row.active) => listing.changed >= LatestCursor
    /\ ~listing.listed /\ row.active => listing.removed >= cursor["full"]
=============================================================================
