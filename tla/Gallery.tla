------------------------------- MODULE Gallery -------------------------------
(***************************************************************************)
(* The photos and videos of one product of the admin panel: the rows of    *)
(* product_media, the files of each item in the media store, and the       *)
(* requests that change both (app/admin): creating the product, saving its *)
(* form (_apply_media) and deleting it.                                    *)
(*                                                                         *)
(* Files and rows are not changed together.  A save first deletes the      *)
(* files of the items the form left out, then processes and publishes the  *)
(* new one, and only then commits the rows; deleting the product commits   *)
(* first.  Requests run in several threads and processes, and each works   *)
(* on the rows as it loaded them: at commit SQLAlchemy writes the columns  *)
(* that differ from what was loaded, and raises if a row it updates is not *)
(* there any more.                                                         *)
(*                                                                         *)
(* An item is the random directory name its files are under, so it is the  *)
(* identity of its row too.  A product has one id here: on SQLite the id   *)
(* of a deleted product is given to the next one.                          *)
(***************************************************************************)
EXTENDS Integers, FiniteSets, Sequences

CONSTANTS
    Items,      \* directory names; a row has the name of its directory
    Requests,   \* admin requests that may be served at once
    Variants,   \* the files one item has in the store
    NoRow,      \* product_media has no row for the item
    NoItem,     \* the save brings no new file
    Remote,     \* the media store is the Blob store, not a file system
    Postgres,   \* foreign keys are enforced and ids are never given again
    MaxTokens,  \* bound: length of the order a form posts
    MaxFaults   \* bound: crashes and calls or commits that fail

ASSUME GalleryAssumption ==
    /\ IsFiniteSet(Items) /\ NoItem \notin Items
    /\ Variants # {}
    /\ Remote \in BOOLEAN /\ Postgres \in BOOLEAN
    /\ MaxTokens \in Nat /\ MaxFaults \in Nat

VARIABLES
    live,    \* the products table has the product
    born,    \* it has had it
    rows,    \* product_media
    files,   \* the media store
    spare,   \* directory names nobody has drawn yet
    req,     \* req[r]: the admin request r, with the form it comes from
    faults,  \* faults left before MaxFaults
    torn     \* (history) items whose row and files a failure or a sweep parted

vars == <<live, born, rows, files, spare, req, faults, torn>>

Row == [position: 0..(Cardinality(Items) - 1), cover: BOOLEAN]
ASSUME NoRowAssumption == NoRow \notin Row

Table == [Items -> Row \cup {NoRow}]
Filed(table) == {i \in Items : table[i] # NoRow}

\* shown: the items the form lists.  tokens: the order posted.  plain: no order
\* was posted.  loaded: the rows as this request read them.  drop: what is left
\* to delete from the store.  put: the files of the new item it has published.
Served == [pc: {"idle", "form", "load", "unlink", "publish", "commit", "delete", "sweep"},
           shown: SUBSET Items, tokens: Seq(Items), plain: BOOLEAN,
           new: Items \cup {NoItem}, loaded: Table, drop: SUBSET Items,
           put: SUBSET Variants]

TypeOK ==
    /\ live \in BOOLEAN /\ born \in BOOLEAN
    /\ rows \in Table
    /\ files \in [Items -> SUBSET Variants]
    /\ spare \in SUBSET Items
    /\ req \in [Requests -> Served]
    /\ faults \in 0..MaxFaults
    /\ torn \in SUBSET Items

NoRows == [i \in Items |-> NoRow]

Idle == [pc |-> "idle", shown |-> {}, tokens |-> <<>>, plain |-> FALSE,
         new |-> NoItem, loaded |-> NoRows, drop |-> {}, put |-> {}]

Init ==
    /\ live = FALSE /\ born = FALSE
    /\ rows = NoRows
    /\ files = [i \in Items |-> {}]
    /\ spare = Items
    /\ req = [r \in Requests |-> Idle]
    /\ faults = MaxFaults
    /\ torn = {}

Fault == faults > 0 /\ faults' = faults - 1

Step(r, fields) == req' = [req EXCEPT ![r] = fields]

(***************************************************************************)
(* The form.                                                               *)
(***************************************************************************)
\* A form is posted: an order of some of what it lists and perhaps one new file
\* (bound), with repetitions or without the file if it was not our script that
\* wrote it, or no order.
Post(r, shown) ==
    \E new \in spare \cup {NoItem} :
      LET listed == shown \cup ({new} \ {NoItem})
      IN \E n \in 0..MaxTokens : \E tokens \in [1..n -> listed], plain \in BOOLEAN :
           /\ plain => tokens = <<>>
           /\ spare' = spare \ {new}
           /\ Step(r, [Idle EXCEPT !.pc = "load", !.tokens = tokens, !.plain = plain,
                                   !.new = new])

\* product_create: the product is committed before its files are looked at.
Create(r) ==
    /\ req[r].pc = "idle" /\ ~live
    /\ Postgres => ~born
    /\ live' = TRUE /\ born' = TRUE
    /\ Post(r, {})
    /\ UNCHANGED <<rows, files, faults, torn>>

\* product_edit
OpenForm(r) ==
    /\ req[r].pc = "idle" /\ live
    /\ Step(r, [Idle EXCEPT !.pc = "form", !.shown = Filed(rows)])
    /\ UNCHANGED <<live, born, rows, files, spare, faults, torn>>

Submit(r) ==
    /\ req[r].pc = "form"
    /\ Post(r, req[r].shown)
    /\ UNCHANGED <<live, born, rows, files, faults, torn>>

(***************************************************************************)
(* _apply_media.                                                           *)
(***************************************************************************)
Mentioned(q) == {q.tokens[k] : k \in DOMAIN q.tokens}

\* The orders of the items of table by position.
Sorted(table) ==
    {s \in [1..Cardinality(Filed(table)) -> Filed(table)] :
        \A k, l \in DOMAIN s : k < l =>
            s[k] # s[l] /\ table[s[k]].position <= table[s[l]].position}

\* Where a save goes on once there is nothing left to delete: a new file is
\* processed only if the order mentions it.
Onward(q) ==
    IF q.drop # {} THEN q
    ELSE IF q.new \in Mentioned(q) THEN [q EXCEPT !.pc = "publish"]
    ELSE [q EXCEPT !.pc = "commit", !.new = NoItem]

\* The rows are read; an item the order does not mention is to be dropped.
Load(r) ==
    LET q == req[r]
    IN /\ q.pc = "load"
       /\ IF ~live THEN Step(r, Idle)
          ELSE \E tokens \in IF q.plain
                             THEN {IF q.new = NoItem THEN s ELSE Append(s, q.new) :
                                      s \in Sorted(rows)}
                             ELSE {q.tokens} :
                 Step(r, Onward([q EXCEPT !.pc = "unlink", !.loaded = rows,
                                          !.tokens = tokens, !.plain = FALSE,
                                          !.drop = {i \in Filed(rows) :
                                              \A k \in DOMAIN tokens : tokens[k] # i}]))
       /\ UNCHANGED <<live, born, rows, files, spare, faults, torn>>

Emptied(dirs) == [i \in Items |-> IF i \in dirs THEN {} ELSE files[i]]

\* Mutant: the row of a dropped item goes, its files stay.
UnlinkNothing(r) ==
    /\ req[r].pc = "unlink"
    /\ Step(r, Onward([req[r] EXCEPT !.drop = {}]))
    /\ UNCHANGED <<live, born, rows, files, spare, faults, torn>>

\* delete_media_files, one dropped item after another, long before the commit.
Unlink(r) ==
    /\ req[r].pc = "unlink"
    /\ \E i \in req[r].drop :
         /\ files' = Emptied({i})
         /\ Step(r, Onward([req[r] EXCEPT !.drop = @ \ {i}]))
    /\ UNCHANGED <<live, born, rows, spare, faults, torn>>

\* The file cannot be processed: the save goes on without it.
Reject(r) ==
    /\ req[r].pc = "publish" /\ req[r].put = {}
    /\ Step(r, [req[r] EXCEPT !.pc = "commit", !.new = NoItem])
    /\ UNCHANGED <<live, born, rows, files, spare, faults, torn>>

\* Mutant: the first file put in the store counts as all of them.
PublishOne(r) ==
    LET q == req[r]
    IN /\ q.pc = "publish"
       /\ \E v \in Variants : /\ files' = [files EXCEPT ![q.new] = {v}]
                              /\ Step(r, [q EXCEPT !.pc = "commit", !.put = {v}])
       /\ UNCHANGED <<live, born, rows, spare, faults, torn>>

\* publish: a file system moves the directory, the Blob store takes the files
\* one by one.
Publish(r) ==
    LET q == req[r]
    IN /\ q.pc = "publish"
       /\ \E some \in IF Remote THEN {{v} : v \in Variants \ q.put} ELSE {Variants} :
            /\ files' = [files EXCEPT ![q.new] = @ \cup some]
            /\ Step(r, [q EXCEPT !.put = @ \cup some,
                                !.pc = IF q.put \cup some = Variants THEN "commit" ELSE @])
       /\ UNCHANGED <<live, born, rows, spare, faults, torn>>

\* The items of the gallery that the save leaves, and the place of each: the
\* number of those the order mentions before it does.
Kept(q) == {i \in Mentioned(q) : q.loaded[i] # NoRow \/ i = q.new}
Before(q, i) == {j \in Kept(q) : \E k \in DOMAIN q.tokens :
                    q.tokens[k] = j /\ \A l \in 1..k : q.tokens[l] # i}
Place(q, i) == Cardinality(Before(q, i))

\* Mutant: positions count from 1.
ArrangedFromOne(q, i) ==
    [position |-> Place(q, i) + 1, cover |-> Place(q, i) = 0]

\* Mutant: the cover is given and never taken away.
ArrangedCover(q, i) ==
    [position |-> Place(q, i),
     cover |-> Place(q, i) = 0 \/ (i # q.new /\ q.loaded[i].cover)]

\* The first item is the cover.
Arranged(q, i) == [position |-> Place(q, i), cover |-> Place(q, i) = 0]

\* Only the columns that differ from what was loaded are written.
Merged(q, i) ==
    LET old == q.loaded[i]
        new == Arranged(q, i)
    IN [position |-> IF new.position = old.position THEN rows[i].position ELSE new.position,
        cover |-> IF new.cover = old.cover THEN rows[i].cover ELSE new.cover]

\* The items that get an UPDATE.
Changed(q) == {i \in Kept(q) \ {q.new} : Arranged(q, i) # q.loaded[i]}

\* An UPDATE of a row that is gone raises; so does, if foreign keys are
\* enforced, an INSERT for a product that is gone.
Refused(q) ==
    \/ \E i \in Changed(q) : rows[i] = NoRow
    \/ Postgres /\ ~live /\ q.new # NoItem

\* What a save has done in the store that only its commit makes right: the files
\* it deleted, and those it published.
Undone(q) ==
    (Filed(q.loaded) \ (Mentioned(q) \cup q.drop)) \cup (IF q.put = {} THEN {} ELSE {q.new})

\* The commit of the save.  A product that is gone is noticed (StaleDataError)
\* if the form changed something of its own columns.
Commit(r) ==
    LET q == req[r]
    IN /\ q.pc = "commit"
       /\ Step(r, Idle)
       /\ \/ /\ Refused(q) \/ ~live
             /\ torn' = torn \cup Undone(q)
             /\ UNCHANGED rows
          \/ /\ ~Refused(q)
             /\ rows' = [i \in Items |->
                   IF i = q.new THEN Arranged(q, i)
                   ELSE IF i \in Changed(q) THEN Merged(q, i)
                   ELSE IF q.loaded[i] # NoRow /\ i \notin Mentioned(q) THEN NoRow
                   ELSE rows[i]]
             /\ UNCHANGED torn
       /\ UNCHANGED <<live, born, files, spare, faults>>

(***************************************************************************)
(* product_delete: the commit first, then the whole directory.             *)
(***************************************************************************)
Delete(r) ==
    /\ req[r].pc = "idle" /\ live
    /\ live' = FALSE
    /\ rows' = NoRows
    /\ Step(r, [Idle EXCEPT !.pc = "sweep"])
    /\ UNCHANGED <<born, files, spare, faults, torn>>

\* On SQLite the product may be another by now, which has been given the id.
Sweep(r) ==
    /\ req[r].pc = "sweep"
    /\ files' = Emptied(Items)
    /\ Step(r, Idle)
    /\ torn' = torn \cup Filed(rows) \cup UNION {Undone(req[s]) : s \in Requests}
    /\ UNCHANGED <<live, born, rows, spare, faults>>

(***************************************************************************)
(* The process dies, the database refuses the commit, or the Blob store    *)
(* goes on failing after its retries (BlobError is neither a MediaError    *)
(* nor an OSError, so nothing catches it): the request ends where it is.   *)
(***************************************************************************)
Abort(r) ==
    /\ req[r].pc \in {"load", "unlink", "publish", "commit", "sweep"}
    /\ Fault
    /\ Step(r, Idle)
    /\ torn' = torn \cup (IF req[r].pc = "sweep" THEN {i \in Items : files[i] # {}}
                         ELSE Undone(req[r]))
    /\ UNCHANGED <<live, born, rows, files, spare>>

Save(r) == Load(r) \/ Unlink(r) \/ Reject(r) \/ Publish(r) \/ Commit(r)

Next == \E r \in Requests :
    \/ Create(r) \/ OpenForm(r) \/ Submit(r)
    \/ Save(r)
    \/ Delete(r) \/ Sweep(r)
    \/ Abort(r)

Spec == Init /\ [][Next]_vars

(***************************************************************************)
(* Properties.                                                             *)
(***************************************************************************)
Settled == \A r \in Requests : req[r].pc \in {"idle", "form"}

\* "positions stay contiguous and exactly one item is the cover" (_apply_media):
\* it is what Product.cover and the order of the gallery rely on.
InOrder(table) ==
    LET n == Cardinality(Filed(table))
    IN /\ {table[i].position : i \in Filed(table)} = 0..(n - 1)
       /\ \A i \in Filed(table) : table[i].cover <=> table[i].position = 0

\* Whatever changes the rows leaves the gallery in order, the save of a form that
\* another tab has made stale included; all but a save that commits what it made
\* of rows that are no longer the ones it loaded.
GalleryInOrder ==
    [][rows' # rows => \/ InOrder(rows')
                       \/ \E r \in Requests : /\ req[r].pc = "commit" /\ req'[r].pc = "idle"
                                              /\ req[r].loaded # rows]_vars

\* When nothing is being saved, the store holds the files of the rows, all of
\* them and no others, however the saves overlapped: all but those of the items
\* that a save which did not commit had deleted or published, that a sweep found
\* under a product with the same id, or that a sweep left.
RowsAndFilesAgree ==
    Settled => \A i \in Items \ torn : files[i] = IF rows[i] = NoRow THEN {} ELSE Variants

\* A row that is inserted has all its files already: a page rendered from the
\* rows never links a file that was still to come.
NewRowsHaveFiles ==
    [][\A i \in Items : rows[i] = NoRow /\ rows'[i] # NoRow => files[i] = Variants]_vars

\* When nothing is being saved, no product that is alive has lost its photos
\* (what product_delete orders its steps for).
PhotosKept == Settled /\ live => \A i \in Filed(rows) : files[i] = Variants
=============================================================================
