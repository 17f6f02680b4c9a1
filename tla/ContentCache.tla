---------------------------- MODULE ContentCache ----------------------------
(***************************************************************************)
(* The editable copy of the site in one process: CachingTextStore          *)
(* (app/content/store.py), which holds the overrides of the table          *)
(* site_texts for a short while, the public pages that read it, the        *)
(* editors that write through it, and the CDN that keeps the pages.        *)
(*                                                                         *)
(* The table is a number, the commits it has seen.  Each request has a     *)
(* database session of its own; the store and its dirty flag are shared by *)
(* all of them.  Preview and admin requests read straight through          *)
(* (_bypass) and touch nothing here.                                       *)
(***************************************************************************)
EXTENDS Integers

CONSTANTS
    Readers,    \* public page requests served at once
    Editors,    \* editor requests served at once
    Ttl,        \* CONTENT_CACHE_TTL, in ticks
    MaxCommits, \* bound: commits of the editors
    MaxFaults   \* bound: purges that fail

ASSUME ContentAssumption == Ttl \in Nat /\ MaxCommits \in Nat /\ MaxFaults \in Nat

VARIABLES
    db,       \* commits the table has seen
    asMap,    \* what as_map keeps
    previous, \* what previous_map keeps
    age,      \* ticks since _loaded_at, the one clock of both maps
    dirty,    \* _dirty
    reader,   \* reader[r]: the page request r
    editor,   \* editor[e]: the editor request e
    cdn,      \* the copy of a page the CDN holds
    faults,   \* faults left before MaxFaults
    purged,   \* history: the newest commit the CDN was purged for
    robbed,   \* history: the editors whose flag another one has reset since their last write
    unpurged  \* history: no purge since one failed, or since a robbed editor went without

vars == <<db, asMap, previous, age, dirty, reader, editor, cdn, faults,
          purged, robbed, unpurged>>

Versions == 0..MaxCommits
Absent == -1

\* What a map keeps, with the ticks since it was read; Ttl stands for any later.
Kept == [version: Versions \cup {Absent}, age: 0..Ttl]

Dropped == [version |-> Absent, age |-> Ttl]

TypeOK ==
    /\ db \in Versions
    /\ asMap \in Kept /\ previous \in Kept /\ age \in 0..Ttl
    /\ dirty \in BOOLEAN
    /\ reader \in [Readers -> [pc: {"idle", "texts", "keep_texts", "previous",
                                    "keep_previous", "respond"},
                               read: Versions \cup {Absent}, page: Versions \cup {Absent}]]
    /\ editor \in [Editors -> {"idle", "flag", "write", "commit", "check", "drop",
                               "clear", "purge", "drop_all", "clear_all"}]
    /\ cdn \in [fresh: BOOLEAN, version: Versions \cup {Absent}]
    /\ cdn.fresh => cdn.version # Absent
    /\ faults \in 0..MaxFaults
    /\ purged \in Versions
    /\ robbed \in SUBSET Editors /\ unpurged \in BOOLEAN

IdleReader == [pc |-> "idle", read |-> Absent, page |-> Absent]

Init ==
    /\ db = 0
    /\ asMap = Dropped /\ previous = Dropped /\ age = Ttl
    /\ dirty = FALSE
    /\ reader = [r \in Readers |-> IdleReader]
    /\ editor = [e \in Editors |-> "idle"]
    /\ cdn = [fresh |-> FALSE, version |-> Absent]
    /\ faults = MaxFaults
    /\ purged = 0 /\ robbed = {} /\ unpurged = FALSE

Fresh == age < Ttl

(***************************************************************************)
(* A public page: as_map, then perhaps previous_map.                       *)
(***************************************************************************)
ReaderStep(r, fields) ==
    /\ reader' = [reader EXCEPT ![r] = fields]
    /\ UNCHANGED <<db, dirty, editor, faults, purged, robbed, unpurged>>

\* The CDN asks for a page it does not have, or has only stale.
Visit(r) ==
    /\ reader[r].pc = "idle" /\ ~cdn.fresh
    /\ ReaderStep(r, [IdleReader EXCEPT !.pc = "texts"])
    /\ UNCHANGED <<asMap, previous, age, cdn>>

\* as_map returns what is kept while it is fresh, else reads the table...
AsMap(r) ==
    /\ reader[r].pc = "texts"
    /\ ReaderStep(r, IF asMap.version # Absent /\ Fresh
                     THEN [reader[r] EXCEPT !.pc = "previous", !.page = asMap.version]
                     ELSE [reader[r] EXCEPT !.pc = "keep_texts", !.read = db])
    /\ UNCHANGED <<asMap, previous, age, cdn>>

\* ... and keeps what it read.
KeepAsMap(r) ==
    /\ reader[r].pc = "keep_texts"
    /\ asMap' = [version |-> reader[r].read, age |-> 0]
    /\ age' = 0
    /\ ReaderStep(r, [pc |-> "previous", read |-> Absent, page |-> reader[r].read])
    /\ UNCHANGED <<previous, cdn>>

PreviousMap(r) ==
    /\ reader[r].pc = "previous"
    /\ ReaderStep(r, IF previous.version # Absent /\ Fresh
                     THEN [reader[r] EXCEPT !.pc = "respond"]
                     ELSE [reader[r] EXCEPT !.pc = "keep_previous", !.read = db])
    /\ UNCHANGED <<asMap, previous, age, cdn>>

\* Most pages never ask for it.
NoPrevious(r) ==
    /\ reader[r].pc = "previous"
    /\ ReaderStep(r, [reader[r] EXCEPT !.pc = "respond"])
    /\ UNCHANGED <<asMap, previous, age, cdn>>

\* Mutant: the clock starts again although as_map was not read again.
KeepPreviousClock(r) ==
    /\ reader[r].pc = "keep_previous"
    /\ previous' = [version |-> reader[r].read, age |-> 0]
    /\ age' = 0
    /\ ReaderStep(r, [reader[r] EXCEPT !.pc = "respond", !.read = Absent])
    /\ UNCHANGED <<asMap, cdn>>

KeepPrevious(r) ==
    /\ reader[r].pc = "keep_previous"
    /\ previous' = [version |-> reader[r].read, age |-> 0]
    /\ age' = IF asMap.version = Absent THEN 0 ELSE age
    /\ ReaderStep(r, [reader[r] EXCEPT !.pc = "respond", !.read = Absent])
    /\ UNCHANGED <<asMap, cdn>>

Respond(r) ==
    /\ reader[r].pc = "respond"
    /\ cdn' = [fresh |-> TRUE, version |-> reader[r].page]
    /\ ReaderStep(r, IdleReader)
    /\ UNCHANGED <<asMap, previous, age>>

(***************************************************************************)
(* The editor: any number of writes, then commit or rollback.              *)
(***************************************************************************)
Move(e, from, to) == editor[e] = from /\ editor' = [editor EXCEPT ![e] = to]

\* A step of an editor that leaves the shared maps and the histories alone.
Onward(e, from, to) ==
    /\ Move(e, from, to)
    /\ UNCHANGED <<asMap, previous, age, reader, cdn, faults, purged, robbed, unpurged>>

\* Mutant: a method that writes forgets the flag.
FlagNot(e) ==
    /\ Move(e, "idle", "write") \/ Move(e, "flag", "write")
    /\ robbed' = robbed \ {e}
    /\ UNCHANGED <<db, asMap, previous, age, dirty, reader, cdn, faults, purged, unpurged>>

\* A method that writes flags the store and then calls the wrapped one.
Flag(e) ==
    /\ Move(e, "idle", "write") \/ Move(e, "flag", "write")
    /\ dirty' = TRUE
    /\ robbed' = robbed \ {e}
    /\ UNCHANGED <<db, asMap, previous, age, reader, cdn, faults, purged, unpurged>>

\* The write stays in the request's own transaction.
Write(e) ==
    /\ Onward(e, "write", "flag") \/ Onward(e, "write", "commit")
    /\ UNCHANGED <<db, dirty>>

Commit(e) ==
    /\ Onward(e, "commit", "check")
    /\ db < MaxCommits /\ db' = db + 1
    /\ UNCHANGED dirty

\* The wrapped rollback of a request that fails.
Rollback(e) ==
    /\ Onward(e, "commit", "drop_all")
    /\ UNCHANGED <<db, dirty>>

\* An editor that finds the store clean neither invalidates nor purges.
Check(e) ==
    /\ Move(e, "check", IF dirty THEN "drop" ELSE "idle")
    /\ unpurged' = (unpurged \/ (~dirty /\ e \in robbed))
    /\ UNCHANGED <<db, asMap, previous, age, dirty, reader, cdn, faults, purged, robbed>>

\* invalidate
Drop(e) ==
    /\ Move(e, "drop", "clear") \/ Move(e, "drop_all", "clear_all")
    /\ asMap' = Dropped /\ previous' = Dropped /\ age' = Ttl
    /\ UNCHANGED <<db, dirty, reader, cdn, faults, purged, robbed, unpurged>>

\* The flag is the store's, not the editor's.
Flaggers == {e \in Editors : editor[e] \in {"flag", "write", "commit", "check"}}
Clear(e) ==
    /\ Move(e, "clear", "purge") \/ Move(e, "clear_all", "idle")
    /\ dirty' = FALSE
    /\ robbed' = Flaggers
    /\ UNCHANGED <<db, asMap, previous, age, reader, cdn, faults, purged, unpurged>>

\* purge_content: every page carries the content tag.
Purge(e) ==
    /\ Move(e, "purge", "idle")
    /\ cdn' = [cdn EXCEPT !.fresh = FALSE]
    /\ purged' = db /\ unpurged' = FALSE
    /\ UNCHANGED <<db, asMap, previous, age, dirty, reader, faults, robbed>>

\* Vercel's API refuses or does not answer, or there is no token: only the log
\* knows.
PurgeFails(e) ==
    /\ Move(e, "purge", "idle")
    /\ faults > 0 /\ faults' = faults - 1
    /\ unpurged' = TRUE
    /\ UNCHANGED <<db, asMap, previous, age, dirty, reader, cdn, purged, robbed>>

(***************************************************************************)
(* Time.                                                                   *)
(***************************************************************************)
Older(n) == IF n < Ttl THEN n + 1 ELSE Ttl

\* Everybody but the clocks waits.
Passes ==
    /\ asMap' = [asMap EXCEPT !.age = Older(@)]
    /\ previous' = [previous EXCEPT !.age = Older(@)]
    /\ UNCHANGED <<db, dirty, reader, editor, cdn, faults, purged, robbed, unpurged>>

\* Mutant: time passes without the kept maps getting too old.
TickBelowTtl == age < Ttl - 1 /\ age' = age + 1 /\ Passes

Tick == age' = Older(age) /\ Passes

\* s-maxage passes.
PageExpires ==
    /\ cdn.fresh
    /\ cdn' = [cdn EXCEPT !.fresh = FALSE]
    /\ UNCHANGED <<db, asMap, previous, age, dirty, reader, editor, faults,
                   purged, robbed, unpurged>>

Serve(r) == \/ AsMap(r) \/ KeepAsMap(r) \/ PreviousMap(r) \/ NoPrevious(r)
            \/ KeepPrevious(r) \/ Respond(r)

Finish(e) == Commit(e) \/ Check(e) \/ Drop(e) \/ Clear(e) \/ Purge(e) \/ PurgeFails(e)

Next ==
    \/ \E r \in Readers : Visit(r) \/ Serve(r)
    \/ \E e \in Editors : Flag(e) \/ Write(e) \/ Rollback(e) \/ Finish(e)
    \/ Tick \/ PageExpires

Spec == Init /\ [][Next]_vars

\* Requests end, time passes, and pages are asked for.
Fairness ==
    /\ \A r \in Readers : WF_vars(Visit(r)) /\ WF_vars(Serve(r))
    /\ \A e \in Editors : WF_vars(Finish(e))
    /\ WF_vars(Tick) /\ WF_vars(PageExpires)

FairSpec == Spec /\ Fairness

(***************************************************************************)
(* Properties.                                                             *)
(***************************************************************************)
\* Every commit of the panel is followed by a purge of the CDN, its editor's or
\* a later one, unless a purge failed or another editor's commit or rollback
\* reset the dirty flag, of which the process has one, between the write and the
\* commit.  ("commit() -- the single point every one of the panel's writes goes
\* through -- drops the cache and purges the CDN tag" has neither exception.)
CommittedIsPurged ==
    (\A e \in Editors : editor[e] \in {"idle", "flag", "write", "commit", "drop_all", "clear_all"})
        => purged = db \/ unpurged

\* Neither map is returned Ttl or more after it was read ("caching its two read
\* maps for ttl seconds"), except that the previous texts outlive it when as_map
\* was read again after them: that restarts the clock they share.
MapsWithinTtl ==
    Fresh =>
        /\ asMap.version # Absent => asMap.age < Ttl
        /\ previous.version # Absent => previous.age < Ttl \/ (asMap.version # Absent /\ asMap.age < previous.age)

\* When the editors are done, the page ends up showing the last commit, even if
\* no purge followed it.
EventuallyShown == <>[](cdn.version = db)
=============================================================================
