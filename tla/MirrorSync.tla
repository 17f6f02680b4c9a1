----------------------------- MODULE MirrorSync -----------------------------
(***************************************************************************)
(* The local mirror of the Tienda Nube (TN) catalogue and everything that  *)
(* writes to it: the handlers of TN's product webhooks (webhook_service,   *)
(* catalog_sync.upsert_product and delete_product) and the full resync     *)
(* (catalog_sync.sync_products), run by the scheduler threads of the       *)
(* gunicorn workers or forced from outside (tn_scheduler).                 *)
(*                                                                         *)
(* Each of them reads TN over HTTP, reads the row or rows it will write,   *)
(* and commits; other writers and TN itself move between these steps.  At  *)
(* commit SQLAlchemy writes only the columns that differ from the values   *)
(* it loaded, and refuses (rolling back everything) to insert a product    *)
(* that is there by now or to update one that is not; deleting one that is *)
(* not there any more only warns.                                          *)
(*                                                                         *)
(* What follows a commit (cache, snapshot and CDN, _after_write) does not  *)
(* touch the mirror and is modelled in CatalogueServing.                   *)
(***************************************************************************)
EXTENDS Integers, FiniteSets

CONSTANTS
    Products,      \* the ids TN hands out, in the order it lists them
    Columns,       \* the columns of a row that readers can tell apart
    Values,        \* what a column can hold
    PerPage,       \* products on a page of TN's listing
    Runners,       \* threads and requests that may run a full resync
    Handlers,      \* webhook requests that may be served at once
    LockPossible,  \* DATA_DIR is writable: there is a lock file and a stamp
    RowIds,        \* primary keys a product's row can get
    NoRow,         \* the mirror has no row for the product
    Unborn, Gone,  \* TN does not have the product yet, or any more
    NoRunner,      \* nobody holds the lock
    MaxChanges,    \* bound: changes the shop owner makes in TN
    MaxFaults      \* bound: crashes, failed calls and lost webhooks

ASSUME MirrorAssumption ==
    /\ Products \subseteq Nat /\ IsFiniteSet(Products) /\ Products # {}
    /\ PerPage \in Nat \ {0}
    /\ LockPossible \in BOOLEAN
    /\ NoRunner \notin Runners
    /\ RowIds # {}
    /\ MaxChanges \in Nat /\ MaxFaults \in Nat

VARIABLES
    store,     \* TN: what it says of each product
    hooks,     \* TN: the notifications it has still to deliver
    mirror,    \* the table tienda_nube_products
    sync,      \* sync[r]: the resync of runner r
    hook,      \* hook[h]: the webhook handler h
    lock,      \* the runner that holds the lock file
    due,       \* the stamp is missing or an interval old
    changes,   \* changes left before MaxChanges
    faults     \* faults left before MaxFaults

vars == <<store, hooks, mirror, sync, hook, lock, due, changes, faults>>

Payloads == [Columns -> Values]
Fetched == Payloads \cup {Unborn, Gone}
Rows == [id: RowIds, data: Payloads] \cup {NoRow}
ASSUME RowAssumption ==
    /\ NoRow \notin [id: RowIds, data: Payloads]
    /\ Unborn # Gone /\ {Unborn, Gone} \cap Payloads = {}

Notifications == {"upsert", "delete"} \X Products

Live == {p \in Products : store[p] \in Payloads}

\* loaded is the mirror as `existing` was read; fetched what the pages said.
Syncs == [pc: {"idle", "load", "pages", "commit", "stamp"}, force: BOOLEAN,
          loaded: [Products -> Rows], seen: SUBSET Products,
          fetched: [Products -> Payloads \cup {NoRow}], page: Nat]

Hooks == [pc: {"idle", "fetch", "load", "commit"},
          event: {"upsert", "delete"}, product: Products,
          payload: Payloads \cup {NoRow}, loaded: Rows]

TypeOK ==
    /\ store \in [Products -> Fetched]
    /\ hooks \in SUBSET Notifications
    /\ mirror \in [Products -> Rows]
    /\ sync \in [Runners -> Syncs]
    /\ hook \in [Handlers -> Hooks]
    /\ lock \in Runners \cup {NoRunner}
    /\ due \in BOOLEAN
    /\ changes \in 0..MaxChanges
    /\ faults \in 0..MaxFaults

NoRows == [p \in Products |-> NoRow]

IdleSync == [pc |-> "idle", force |-> FALSE, loaded |-> NoRows, seen |-> {},
             fetched |-> NoRows, page |-> 0]

IdleHook == [pc |-> "idle", event |-> "upsert",
             product |-> CHOOSE p \in Products : TRUE,
             payload |-> NoRow, loaded |-> NoRow]

\* Keys are only ever compared, so the first ones can be fixed.
FirstId == CHOOSE i \in RowIds : TRUE

\* The shop starts with its mirror in step with TN.
Init ==
    /\ store \in [Products -> Payloads \cup {Unborn}]
    /\ \A p \in Live : \A c, d \in Columns : store[p][c] = store[p][d]
    /\ mirror = [p \in Products |-> IF p \in Live THEN [id |-> FirstId, data |-> store[p]]
                                   ELSE NoRow]
    /\ hooks = {}
    /\ sync = [r \in Runners |-> IdleSync]
    /\ hook = [h \in Handlers |-> IdleHook]
    /\ lock = NoRunner
    /\ due = TRUE
    /\ changes = MaxChanges
    /\ faults = MaxFaults

Fault == faults > 0 /\ faults' = faults - 1

(***************************************************************************)
(* The shop owner edits the catalogue in TN, which notifies each change.   *)
(***************************************************************************)
Change(p, listed, event) ==
    /\ changes > 0
    /\ changes' = changes - 1
    /\ store' = [store EXCEPT ![p] = listed]
    /\ hooks' = hooks \cup {<<event, p>>}
    /\ UNCHANGED <<mirror, sync, hook, lock, due, faults>>

Create(p) == store[p] = Unborn /\ \E x \in Payloads : Change(p, x, "upsert")
Edit(p) == p \in Live /\ \E x \in Payloads \ {store[p]} : Change(p, x, "upsert")
Remove(p) == p \in Live /\ Change(p, Gone, "delete")

\* TN gives up on a notification it could not deliver.
LoseHook ==
    /\ Fault
    /\ \E n \in hooks : hooks' = hooks \ {n}
    /\ UNCHANGED <<store, mirror, sync, hook, lock, due, changes>>

(***************************************************************************)
(* What a commit does to a row.                                            *)
(***************************************************************************)
\* The row that was loaded is still there: not deleted, nor deleted and
\* inserted again under another key.
Still(row, loaded) == row # NoRow /\ row.id = loaded.id

\* Inserting what exists or updating what does not raises.
Conflicts(row, loaded) == IF loaded = NoRow THEN row # NoRow ELSE ~Still(row, loaded)

\* An INSERT gets any key; only the columns that differ from their loaded
\* value are in an UPDATE.
Upserted(row, loaded, payload) ==
    IF loaded = NoRow
    THEN {[id |-> i, data |-> payload] : i \in RowIds}
    ELSE {[row EXCEPT !.data = [c \in Columns |->
              IF payload[c] # loaded.data[c] THEN payload[c] ELSE row.data[c]]]}

\* Deleting a row that is not there only warns.
Deleted(row, loaded) == IF row # NoRow /\ Still(row, loaded) THEN NoRow ELSE row

(***************************************************************************)
(* Webhooks.  TN delivers a notification, perhaps again while it is being  *)
(* handled, in any order.                                                  *)
(***************************************************************************)
HookStep(h, fields) ==
    /\ hook' = [hook EXCEPT ![h] = fields]
    /\ UNCHANGED <<store, sync, lock, due, changes>>

Deliver(h) ==
    /\ hook[h].pc = "idle"
    /\ \E n \in hooks :
         /\ hooks' \in {hooks \ {n}, hooks}
         /\ HookStep(h, [IdleHook EXCEPT !.pc = IF n[1] = "upsert" THEN "fetch" ELSE "load",
                                         !.event = n[1], !.product = n[2]])
    /\ UNCHANGED <<mirror, faults>>

\* Anything but a 2xx makes TN deliver the notification again.
Retry(h) == hooks' = hooks \cup {<<"upsert", hook[h].product>>}

\* get_product answers, or says 404 and the event becomes a deletion.
Fetch(h) ==
    LET p == hook[h].product
    IN /\ hook[h].pc = "fetch"
       /\ HookStep(h, IF p \in Live
                      THEN [hook[h] EXCEPT !.pc = "load", !.payload = store[p]]
                      ELSE [hook[h] EXCEPT !.pc = "load", !.event = "delete"])
       /\ UNCHANGED <<hooks, mirror, faults>>

\* TN's API fails: 502.
FetchFails(h) ==
    /\ hook[h].pc = "fetch"
    /\ Fault
    /\ Retry(h)
    /\ HookStep(h, IdleHook)
    /\ UNCHANGED mirror

\* No API token: 202, and TN is satisfied.
Defer(h) ==
    /\ hook[h].pc = "fetch"
    /\ Fault
    /\ HookStep(h, IdleHook)
    /\ UNCHANGED <<hooks, mirror>>

\* The handler looks its row up; there is nothing to delete if there is none.
LoadRow(h) ==
    LET row == mirror[hook[h].product]
    IN /\ hook[h].pc = "load"
       /\ HookStep(h, IF hook[h].event = "delete" /\ row = NoRow
                      THEN IdleHook
                      ELSE [hook[h] EXCEPT !.pc = "commit", !.loaded = row])
       /\ UNCHANGED <<hooks, mirror, faults>>

CommitDelete(h) ==
    /\ hook[h].pc = "commit" /\ hook[h].event = "delete"
    /\ mirror' = [mirror EXCEPT ![hook[h].product] = Deleted(@, hook[h].loaded)]
    /\ HookStep(h, IdleHook)
    /\ UNCHANGED <<hooks, faults>>

\* A commit that conflicts raises out of process(), and the exception becomes a 500.
CommitUpsert(h) ==
    LET p == hook[h].product
    IN /\ hook[h].pc = "commit" /\ hook[h].event = "upsert"
       /\ IF Conflicts(mirror[p], hook[h].loaded)
          THEN Retry(h) /\ UNCHANGED mirror
          ELSE /\ \E row \in Upserted(mirror[p], hook[h].loaded, hook[h].payload) :
                     mirror' = [mirror EXCEPT ![p] = row]
               /\ UNCHANGED hooks
       /\ HookStep(h, IdleHook)
       /\ UNCHANGED faults

(***************************************************************************)
(* The full resync.                                                        *)
(***************************************************************************)
SyncStep(r, fields) ==
    /\ sync' = [sync EXCEPT ![r] = fields]
    /\ UNCHANGED <<store, hooks, hook, changes>>

\* Mutant: a lock that another worker holds is taken for one that is not possible.
BeginUnlocked(r) ==
    /\ sync[r].pc = "idle"
    /\ \E force \in BOOLEAN :
         /\ force \/ due
         /\ SyncStep(r, [IdleSync EXCEPT !.pc = "load", !.force = force])
    /\ lock' = IF lock = NoRunner THEN r ELSE lock
    /\ UNCHANGED <<mirror, due, faults>>

\* run_sync: skip unless the lock is free (or impossible) and, if not forced,
\* an interval has passed since the last success.
Begin(r) ==
    /\ sync[r].pc = "idle"
    /\ LockPossible => lock = NoRunner
    /\ \E force \in BOOLEAN :
         /\ force \/ due
         /\ SyncStep(r, [IdleSync EXCEPT !.pc = "load", !.force = force])
    /\ lock' = IF LockPossible THEN r ELSE lock
    /\ UNCHANGED <<mirror, due, faults>>

Load(r) ==
    /\ sync[r].pc = "load"
    /\ SyncStep(r, [sync[r] EXCEPT !.pc = "pages", !.loaded = mirror, !.page = 1])
    /\ UNCHANGED <<mirror, lock, due, faults>>

\* TN lists what it has now, numbered: page k holds the positions
\* (k-1)*PerPage+1 to k*PerPage.
Position(p) == Cardinality({q \in Live : q <= p})
Page(k) == {p \in Live : (k - 1) * PerPage < Position(p) /\ Position(p) <= k * PerPage}

\* Mutant: the page that would hold the last product counts as one too many.
HasAnother(k) == Cardinality(Live) > (k + 1) * PerPage

HasNext(k) == Cardinality(Live) > k * PerPage

ReadPage(r) ==
    LET s == sync[r]
        items == Page(s.page)
    IN /\ s.pc = "pages"
       /\ SyncStep(r, [s EXCEPT
             !.seen = @ \cup items,
             !.fetched = [p \in Products |-> IF p \in items THEN store[p] ELSE s.fetched[p]],
             !.pc = IF HasNext(s.page) THEN "pages" ELSE "commit",
             !.page = IF HasNext(s.page) THEN @ + 1 ELSE 0])
       /\ UNCHANGED <<mirror, lock, due, faults>>

Release(r) == lock' = IF lock = r THEN NoRunner ELSE lock

\* A failed page, or a crash of the process before it commits, changes nothing
\* and leaves no lock behind; without a stamp the next attempt is due at once.
AbortSync(r) ==
    /\ sync[r].pc \in {"load", "pages", "commit"}
    /\ Fault
    /\ SyncStep(r, IdleSync)
    /\ Release(r)
    /\ UNCHANGED <<mirror, due>>

\* Mutant: the rows to prune are looked for among those the listing returned.
PrunedSeen(s) == {p \in s.seen : s.loaded[p] # NoRow /\ p \notin s.seen}

\* Prune only when the listing was not empty.
Pruned(s) == {p \in Products : s.seen # {} /\ s.loaded[p] # NoRow /\ p \notin s.seen}

CommitSync(r) ==
    LET s == sync[r]
    IN /\ s.pc = "commit"
       /\ IF \E p \in s.seen : Conflicts(mirror[p], s.loaded[p])
          THEN /\ SyncStep(r, IdleSync)
               /\ Release(r)
               /\ UNCHANGED mirror
          ELSE /\ SyncStep(r, [IdleSync EXCEPT !.pc = "stamp", !.force = s.force])
               /\ mirror' \in {m \in [Products -> Rows] : \A p \in Products :
                     m[p] \in IF p \in Pruned(s) THEN {Deleted(mirror[p], s.loaded[p])}
                              ELSE IF p \in s.seen
                              THEN Upserted(mirror[p], s.loaded[p], s.fetched[p])
                              ELSE {mirror[p]}}
               /\ UNCHANGED lock
       /\ UNCHANGED <<due, faults>>

\* _touch_stamp, still under the lock.
Stamp(r) ==
    /\ sync[r].pc = "stamp"
    /\ SyncStep(r, IdleSync)
    /\ Release(r)
    /\ due' = IF LockPossible THEN FALSE ELSE due
    /\ UNCHANGED <<mirror, faults>>

\* The process dies between the commit and the stamp.
CrashBeforeStamp(r) ==
    /\ sync[r].pc = "stamp"
    /\ Fault
    /\ SyncStep(r, IdleSync)
    /\ Release(r)
    /\ UNCHANGED <<mirror, due>>

IntervalPasses ==
    /\ ~due
    /\ due' = TRUE
    /\ UNCHANGED <<store, hooks, mirror, sync, hook, lock, changes, faults>>

RunSync(r) == Load(r) \/ ReadPage(r) \/ CommitSync(r) \/ Stamp(r)
Handle(h) == Fetch(h) \/ LoadRow(h) \/ CommitDelete(h) \/ CommitUpsert(h)

Next ==
    \/ \E p \in Products : Create(p) \/ Edit(p) \/ Remove(p)
    \/ LoseHook
    \/ \E h \in Handlers : Deliver(h) \/ Handle(h) \/ FetchFails(h) \/ Defer(h)
    \/ \E r \in Runners : Begin(r) \/ RunSync(r) \/ AbortSync(r) \/ CrashBeforeStamp(r)
    \/ IntervalPasses

Spec == Init /\ [][Next]_vars

\* The scheduler thread wakes for ever, time passes, requests that are being
\* served end, and TN delivers what it has not given up on.
Fairness ==
    /\ WF_vars(IntervalPasses)
    /\ \A r \in Runners : WF_vars(Begin(r)) /\ WF_vars(RunSync(r))
    /\ \A h \in Handlers : WF_vars(Deliver(h)) /\ WF_vars(Handle(h))

FairSpec == Spec /\ Fairness

(***************************************************************************)
(* Properties.                                                             *)
(***************************************************************************)
Syncing(r) == sync[r].pc # "idle"

\* How far a resync is with its turn.
Phase(s) ==
    CASE s.pc = "idle" -> "idle"
      [] s.pc = "stamp" -> "committed"
      [] OTHER -> IF s.force THEN "forced" ELSE "scheduled"

Turns == INSTANCE SyncTurns WITH Workers <- Runners, turn <- [r \in Runners |-> Phase(sync[r])]

\* The runners take turns: one syncs at a time, a scheduled sync starts only if
\* none was completed since the interval began, and only one that committed
\* ends the interval, although each worker has a thread that checks the stamp
\* on its own and may die between any two steps (_sync_lock, run_sync).
TakesTurns == Turns!Spec

\* Only one worker syncs at a time, and a scheduled sync in progress is still
\* due.
OneSyncPerInterval ==
    /\ \A r, s \in Runners : Syncing(r) /\ Syncing(s) => r = s
    /\ \A r \in Runners : Syncing(r) /\ ~sync[r].force => due

\* The mirror shows the catalogue TN has.
InStep ==
    \A p \in Products : IF p \in Live
                         THEN mirror[p] # NoRow /\ mirror[p].data = store[p]
                         ELSE mirror[p] = NoRow

\* Once the owner stops editing, the mirror ends up in step with TN and stays
\* so, whatever webhooks were lost, duplicated, reordered or raced a sync
\* ("reconciles anything a webhook missed", tn_scheduler) -- unless TN is left
\* without a single product, which sync_products does not believe.
MirrorConverges == <>[](Live # {}) => <>[]InStep

\* What is on its way to the mirror is what TN says now: a handler holds the
\* product as it is, and a resync has the pages before its next one, whole.
CurrentHook(f) ==
    f.pc \in {"load", "commit"} /\ f.event = "upsert" => f.payload = store[f.product]

CurrentSync(s) ==
    /\ s.pc = "pages" => s.seen = {p \in Live : Position(p) <= (s.page - 1) * PerPage}
    /\ s.pc = "commit" => s.seen = Live
    /\ s.pc \in {"pages", "commit"} => \A p \in s.seen : s.fetched[p] = store[p]

Current == /\ \A h \in Handlers : CurrentHook(hook[h])
           /\ \A r \in Runners : CurrentSync(sync[r])

\* A resync commits on top of the very rows it has loaded.
Reconciles(r) ==
    sync[r].pc = "commit" /\ sync'[r].pc = "stamp" /\ sync[r].loaded = mirror

\* While the owner edits nothing, nothing stale comes back: what is on its way
\* stays current, a mirror in step stays in step, and a resync that nobody wrote
\* beside brings it in step, whatever is lost, duplicated, refused or aborted.
\* These are the steps MirrorConverges is made of; it is up to the scheduler, and
\* to TN, that they are taken.
StaysInStep ==
    [][Current /\ UNCHANGED store =>
        /\ Current'
        /\ InStep \/ (Live # {} /\ \E r \in Runners : Reconciles(r)) => InStep']_vars
=============================================================================
