-------------------------- MODULE CatalogueServing --------------------------
(***************************************************************************)
(* How the mirrored catalogue reaches a visitor: the table, the cache each *)
(* instance of the app keeps of it (catalog_cache), the snapshot in the    *)
(* Blob store that stands in for the table when Postgres refuses           *)
(* connections (catalog_snapshot), the pages rendered from them            *)
(* (catalog, routes) and the CDN that keeps those pages (page_cache), with *)
(* what every write of the mirror triggers (catalog_sync._after_write).    *)
(*                                                                         *)
(* A write stands for a webhook or a resync that committed (MirrorSync):   *)
(* here the table is only a number, the writes it has seen, and whatever   *)
(* is read from it, cached, saved or rendered carries that number.         *)
(***************************************************************************)
EXTENDS Integers, FiniteSets

CONSTANTS
    Instances,   \* processes of the app, each with a cache of its own
    Workers,     \* requests that may be served at once
    Home,        \* Home[w]: the instance that serves worker w's requests
    Asked,       \* bound: Asked[w], the pages worker w may be asked for
    Writers,     \* the workers that may be given a write
    MaxWrites,   \* bound: writes of the mirror
    MaxFaults    \* bound: outages, restarts and calls that fail

\* Pages that list products, and the page of one product.
Pages == {"listing", "product"}

ASSUME ServingAssumption ==
    /\ Home \in [Workers -> Instances]
    /\ Asked \in [Workers -> SUBSET Pages] /\ Writers \subseteq Workers
    /\ MaxWrites \in Nat /\ MaxFaults \in Nat

VARIABLES
    db,        \* writes committed to the table
    up,        \* Postgres answers
    snapshot,  \* what the Blob store holds
    cache,     \* cache[i]: the CatalogCache of instance i
    cdn,       \* cdn[p]: Vercel's copy of page p
    visit,     \* visit[w]: the page worker w renders
    write,     \* write[w]: the _after_write worker w runs
    wrote,     \* wrote[i]: the newest write instance i has invalidated for
    faults     \* faults left before MaxFaults

vars == <<db, up, snapshot, cache, cdn, visit, write, wrote, faults>>

Versions == 0..MaxWrites

\* load() found no snapshot it could read.
Nothing == -1
Contents == Versions \cup {Nothing}

\* late: (history) read from the table before an invalidation, cached after it.
Caches == [content: Contents, fresh: BOOLEAN, degraded: BOOLEAN, late: BOOLEAN]

\* left: reads of the catalogue still to make.  oldest: the oldest content
\* rendered.  fallback: some of it is the snapshot's.  marked: g.cache_degraded.
\* late: (history) the cache was invalidated since the table was read.  raced:
\* (history) it was emptied or filled since degraded content was found in it,
\* before is_degraded was asked.
Visits == [pc: {"idle", "read", "check", "query", "load", "fill", "respond"},
           page: Pages, left: 0..3, got: Contents, oldest: Contents,
           fallback: BOOLEAN, marked: BOOLEAN, degraded: BOOLEAN,
           late: BOOLEAN, raced: BOOLEAN]

\* beside: (history) when it was committed, another write was about to save rows
\* scanned before.
Writes == [pc: {"idle", "invalidate", "scan", "save", "purge"},
           version: Versions, rows: Versions, unsaved: BOOLEAN, beside: BOOLEAN]

Copies == [state: {"absent", "fresh", "stale"}, version: Contents, fallback: BOOLEAN,
           raced: BOOLEAN]

TypeOK ==
    /\ db \in Versions /\ up \in BOOLEAN /\ snapshot \in Contents
    /\ cache \in [Instances -> Caches]
    /\ cdn \in [Pages -> Copies]
    /\ visit \in [Workers -> Visits]
    /\ write \in [Workers -> Writes]
    /\ wrote \in [Instances -> Versions]
    /\ faults \in 0..MaxFaults

NoCache == [content |-> Nothing, fresh |-> FALSE, degraded |-> FALSE, late |-> FALSE]
NoVisit == [pc |-> "idle", page |-> "listing", left |-> 0, got |-> Nothing,
            oldest |-> Nothing, fallback |-> FALSE, marked |-> FALSE, degraded |-> FALSE,
            late |-> FALSE, raced |-> FALSE]
NoWrite == [pc |-> "idle", version |-> 0, rows |-> 0, unsaved |-> FALSE, beside |-> FALSE]
NoCopy == [state |-> "absent", version |-> Nothing, fallback |-> FALSE, raced |-> FALSE]

Init ==
    /\ db = 0 /\ up = TRUE
    /\ snapshot \in {0, Nothing}
    /\ cache = [i \in Instances |-> NoCache]
    /\ cdn = [p \in Pages |-> NoCopy]
    /\ visit = [w \in Workers |-> NoVisit]
    /\ write = [w \in Workers |-> NoWrite]
    /\ wrote = [i \in Instances |-> 0]
    /\ faults = MaxFaults

Idle(w) == visit[w].pc = "idle" /\ write[w].pc = "idle"
Fault == faults > 0 /\ faults' = faults - 1

(***************************************************************************)
(* Rendering a page.                                                       *)
(***************************************************************************)
VisitStep(w, fields) ==
    /\ visit' = [visit EXCEPT ![w] = fields]
    /\ UNCHANGED <<db, up, snapshot, write, wrote, faults>>

\* A home, category or sitemap page reads the published catalogue twice; a
\* product page looks its product up and then reads the catalogue twice
\* (related products, navigation).
Reads == [listing |-> 2, product |-> 3]
LooksUp(v) == v.page = "product" /\ v.left = 3

\* A visitor asks for a page the CDN has to fetch, or refetch.
Visit(w, p) ==
    /\ p \in Asked[w] /\ Idle(w)
    /\ cdn[p].state # "fresh"
    /\ VisitStep(w, [NoVisit EXCEPT !.pc = "read", !.page = p, !.left = Reads[p],
                                    !.oldest = MaxWrites])
    /\ UNCHANGED <<cache, cdn>>

\* What was read becomes part of the page.
Rendered(v, content, degraded) ==
    [v EXCEPT !.left = @ - 1, !.got = Nothing, !.degraded = FALSE, !.late = FALSE,
              !.oldest = IF content < @ THEN content ELSE @,
              !.fallback = @ \/ degraded,
              !.pc = IF v.left = 1 THEN "respond" ELSE "read"]

\* Mutant: a hit on the cache is never checked for degraded content.
ReadUnchecked(w) ==
    LET v == visit[w]
        c == cache[Home[w]]
    IN /\ v.pc = "read"
       /\ VisitStep(w, IF c.fresh THEN Rendered(v, c.content, c.degraded)
                       ELSE [v EXCEPT !.pc = "query"])
       /\ UNCHANGED <<cache, cdn>>

\* cached_by_id serves a product straight from a fresh cache; cached() too, but
\* _published_snapshots then asks is_degraded.
Read(w) ==
    LET v == visit[w]
        c == cache[Home[w]]
    IN /\ v.pc = "read"
       /\ VisitStep(w,
            IF ~c.fresh THEN [v EXCEPT !.pc = "query"]
            ELSE IF LooksUp(v) /\ c.content # Nothing
            THEN Rendered(v, c.content, c.degraded)
            ELSE [v EXCEPT !.pc = "check", !.got = c.content, !.degraded = c.degraded])
       /\ UNCHANGED <<cache, cdn>>

Check(w) ==
    LET v == visit[w]
    IN /\ v.pc = "check"
       /\ VisitStep(w, [Rendered(v, v.got, v.degraded)
                          EXCEPT !.marked = @ \/ cache[Home[w]].degraded])
       /\ UNCHANGED <<cache, cdn>>

\* The table is read, or Postgres refuses the connection.
Query(w) ==
    LET v == visit[w]
    IN /\ v.pc = "query"
       /\ VisitStep(w, IF up THEN [v EXCEPT !.pc = "fill", !.got = db]
                       ELSE [v EXCEPT !.pc = "load"])
       /\ UNCHANGED <<cache, cdn>>

\* The snapshot stands in for the table, and the request is marked.
Load(w) ==
    /\ visit[w].pc = "load"
    /\ VisitStep(w, [visit[w] EXCEPT !.pc = "fill", !.got = snapshot,
                                     !.degraded = TRUE, !.marked = TRUE])
    /\ UNCHANGED <<cache, cdn>>

\* What an instance's visits make of a change of its cache.
Overtaken(i, invalidated) ==
    [w \in Workers |->
        IF Home[w] = i
        THEN [visit[w] EXCEPT
                 !.late = @ \/ (invalidated /\ visit[w].pc = "fill" /\ ~visit[w].degraded),
                 !.raced = @ \/ (visit[w].pc = "check" /\ visit[w].degraded)]
        ELSE visit[w]]

\* catalog_cache.store, and the caller renders what it stored.
Fill(w) ==
    LET v == visit[w]
    IN /\ v.pc = "fill"
       /\ cache' = [cache EXCEPT ![Home[w]] =
                      [content |-> v.got, fresh |-> TRUE, degraded |-> v.degraded,
                       late |-> v.late]]
       /\ visit' = [Overtaken(Home[w], FALSE) EXCEPT ![w] = Rendered(v, v.got, v.degraded)]
       /\ UNCHANGED <<db, up, snapshot, cdn, write, wrote, faults>>

\* The page goes out; the CDN keeps it for a day unless the request is marked.
Respond(w) ==
    LET v == visit[w]
    IN /\ v.pc = "respond"
       /\ cdn' = IF v.marked THEN cdn
                 ELSE [cdn EXCEPT ![v.page] =
                         [state |-> "fresh", version |-> v.oldest, fallback |-> v.fallback,
                          raced |-> v.raced]]
       /\ VisitStep(w, NoVisit)
       /\ UNCHANGED cache

(***************************************************************************)
(* Writing the mirror, and what every write triggers, in this order.       *)
(***************************************************************************)
WriteStep(w, fields) ==
    /\ write' = [write EXCEPT ![w] = fields]
    /\ UNCHANGED <<up, cache, visit, faults>>

\* Mutant: the purge comes first.
PurgeFirst(pc) ==
    [commit |-> "invalidate", invalidate |-> "purge", purge |-> "scan",
     scan |-> "save", save |-> "idle"][pc]

\* The step of _after_write that follows step pc.
Then(pc) ==
    [commit |-> "invalidate", invalidate |-> "scan", scan |-> "save",
     save |-> "purge", purge |-> "idle"][pc]

Commit(w) ==
    /\ w \in Writers /\ Idle(w) /\ up /\ db < MaxWrites
    /\ db' = db + 1
    /\ WriteStep(w, [NoWrite EXCEPT !.pc = Then("commit"), !.version = db + 1,
                                    !.beside = \E v \in Workers : write[v].pc = "save"])
    /\ UNCHANGED <<snapshot, cdn, wrote>>

InvalidateStep(w, emptied) ==
    LET i == Home[w]
    IN /\ write[w].pc = "invalidate"
       /\ write' = [write EXCEPT ![w].pc = Then("invalidate")]
       /\ cache' = [cache EXCEPT ![i] = emptied]
       /\ wrote' = [wrote EXCEPT ![i] =
                      IF @ < write[w].version THEN write[w].version ELSE @]
       /\ visit' = Overtaken(i, TRUE)
       /\ UNCHANGED <<db, up, snapshot, cdn, faults>>

\* Mutant: only the degraded flag is reset.
InvalidateFlag(w) == InvalidateStep(w, [cache[Home[w]] EXCEPT !.degraded = FALSE])

Invalidate(w) == InvalidateStep(w, NoCache)

\* The published rows are read again for the snapshot; if that fails the write
\* goes on without one.
Scan(w) ==
    /\ write[w].pc = "scan"
    /\ WriteStep(w, IF up THEN [write[w] EXCEPT !.pc = Then("scan"), !.rows = db]
                    ELSE [write[w] EXCEPT !.pc = Then("save"), !.unsaved = TRUE])
    /\ UNCHANGED <<db, snapshot, cdn, wrote>>

Save(w) ==
    /\ write[w].pc = "save"
    /\ snapshot' = write[w].rows
    /\ WriteStep(w, [write[w] EXCEPT !.pc = Then("save")])
    /\ UNCHANGED <<db, cdn, wrote>>

\* The Blob store refuses, and the write goes on.
SaveFails(w) ==
    /\ write[w].pc = "save"
    /\ Fault
    /\ write' = [write EXCEPT ![w].pc = Then("save"), ![w].unsaved = TRUE]
    /\ UNCHANGED <<db, up, snapshot, cache, cdn, visit, wrote>>

\* purge_catalog: every page that shows products carries the catalogue's tag.
Purge(w) ==
    /\ write[w].pc = "purge"
    /\ cdn' = [p \in Pages |->
                 IF cdn[p].state = "fresh" THEN [cdn[p] EXCEPT !.state = "stale"]
                 ELSE cdn[p]]
    /\ WriteStep(w, IF Then("purge") = "idle" THEN NoWrite
                    ELSE [write[w] EXCEPT !.pc = Then("purge")])
    /\ UNCHANGED <<db, snapshot, wrote>>

\* Vercel's API refuses, or there is no token: only the log knows.
PurgeFails(w) ==
    /\ write[w].pc = "purge"
    /\ Fault
    /\ write' = [write EXCEPT ![w] = NoWrite]
    /\ UNCHANGED <<db, up, snapshot, cache, cdn, visit, wrote>>

(***************************************************************************)
(* Time, and what fails.                                                   *)
(***************************************************************************)
\* Mutant: what is cached never gets too old.
NeverTooOld(i) == cache[i].fresh /\ UNCHANGED vars

\* CATALOG_CACHE_TTL passes.
CacheExpires(i) ==
    /\ cache[i].fresh
    /\ cache' = [cache EXCEPT ![i].fresh = FALSE]
    /\ UNCHANGED <<db, up, snapshot, cdn, visit, write, wrote, faults>>

\* s-maxage passes.
PageExpires(p) ==
    /\ cdn[p].state = "fresh"
    /\ cdn' = [cdn EXCEPT ![p].state = "stale"]
    /\ UNCHANGED <<db, up, snapshot, cache, visit, write, wrote, faults>>

Outage ==
    /\ up /\ Fault
    /\ up' = FALSE
    /\ UNCHANGED <<db, snapshot, cache, cdn, visit, write, wrote>>

Recovery ==
    /\ ~up
    /\ up' = TRUE
    /\ UNCHANGED <<db, snapshot, cache, cdn, visit, write, wrote, faults>>

\* The platform kills an instance, whatever it was doing, and starts it cold.
Restart(i) ==
    /\ Fault
    /\ cache' = [cache EXCEPT ![i] = NoCache]
    /\ visit' = [w \in Workers |-> IF Home[w] = i THEN NoVisit ELSE visit[w]]
    /\ write' = [w \in Workers |-> IF Home[w] = i THEN NoWrite ELSE write[w]]
    /\ UNCHANGED <<db, up, snapshot, cdn, wrote>>

Serve(w) ==
    \/ Read(w) \/ Check(w) \/ Query(w) \/ Load(w) \/ Fill(w) \/ Respond(w)
    \/ Invalidate(w) \/ Scan(w) \/ Save(w) \/ Purge(w)

Next ==
    \/ \E w \in Workers : \/ \E p \in Pages : Visit(w, p)
                          \/ Commit(w) \/ Serve(w) \/ SaveFails(w) \/ PurgeFails(w)
    \/ \E i \in Instances : CacheExpires(i) \/ Restart(i)
    \/ \E p \in Pages : PageExpires(p)
    \/ Outage \/ Recovery

Spec == Init /\ [][Next]_vars

\* Requests end, time passes, and a page that is asked for is served in its turn.
Fairness ==
    /\ \A w \in Workers : WF_vars(Serve(w))
    /\ \A i \in Instances : WF_vars(CacheExpires(i))
    /\ \A p \in Pages : /\ WF_vars(PageExpires(p))
                        /\ SF_vars(\E w \in Workers : Visit(w, p))

FairSpec == Spec /\ Fairness

(***************************************************************************)
(* Properties.                                                             *)
(***************************************************************************)
\* No page that lists products shows the snapshot's on the CDN, unless another
\* request of the process emptied or filled the cache between the hit and the
\* question whether the cache is degraded (_published_snapshots, is_degraded).
ListingsNeverFallback == cdn["listing"].fallback => cdn["listing"].raced

\* "A page served from the degraded path (DB down, snapshot fallback) must not
\* be pinned on the CDN for a day" (page_cache._is_cacheable), whatever page.
NoFallbackPinned == \A p \in Pages : ~cdn[p].fallback

\* An instance that wrote does not serve from its cache a table older than its
\* own write ("Invalidation only reaches the instance that wrote", catalog_cache),
\* unless a request of it had read the table before the invalidation and kept
\* what it read after it.
InvalidationReachesTheWriter ==
    \A i \in Instances :
        cache[i].fresh /\ ~cache[i].degraded /\ ~cache[i].late => cache[i].content >= wrote[i]

\* When the CDN is about to be purged for a write, the snapshot that pages may
\* be rendered from is not older than the write (_after_write: "the snapshot is
\* written before the purge"), unless it could not be written at all or another
\* write was committed first, had scanned the table and saved only now.
SnapshotBeforePurge ==
    \A w \in Workers : write[w].pc = "purge" /\ ~write[w].unsaved /\ ~write[w].beside
                        => snapshot >= write[w].version

\* Once Postgres stays up and nobody writes any more, every page ends up showing
\* the catalogue as it is, whatever purge was lost, cache was filled with an old
\* read or instance was killed.
EventuallyFresh == <>[]up => <>[](\A p \in Pages : cdn[p].version = db /\ ~cdn[p].fallback)
=============================================================================
