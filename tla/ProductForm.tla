----------------------------- MODULE ProductForm -----------------------------
(***************************************************************************)
(* The form of a product in the admin panel, from the tiles its owner      *)
(* arranges in the browser (static/js/admin.js) to the rows the server     *)
(* writes (app/admin), with the list page of ProductList beside it.        *)
(*                                                                         *)
(* The browser numbers the files it sends and names them by number in the  *)
(* order it posts.  Where a request cannot carry them, it puts each file   *)
(* into the staging area of the object store first and posts the names.    *)
(* It gives up on an answer after some time, the server does not notice,   *)
(* and the owner can press the button again.                               *)
(*                                                                         *)
(* What the store has of each row, and what concurrent saves do to the     *)
(* cover flag, is in Gallery.                                              *)
(***************************************************************************)
EXTENDS ProductList

CONSTANTS
    Photos,      \* the files the owner may add, photos or videos
    Inputs,      \* what the server may find of the files
    Old,         \* the media the first product has already
    NoRow,       \* product_media has no such row
    NoAnswer,    \* the server has not answered yet
    MaxSubmits,  \* bound: times the form is submitted
    MaxFaults    \* bound: what fails on the way

Submits == 1..MaxSubmits
New == 0         \* the form of a product that does not exist yet

\* What the server finds of a file: its name is refused, its bytes cannot be
\* read, it is larger than a request may be, or nothing.
Kinds == {"fine", "unreadable", "unsupported", "huge"}

\* A row of product_media, by the file and the submission it came with.
Media == Old \cup (Photos \X Submits)
MediaRow == [product: Ids, position: Nat]

ASSUME FormAssumption ==
    /\ Inputs \subseteq [Photos -> Kinds]
    /\ IsFiniteSet(Photos) /\ IsFiniteSet(Old) /\ Media \cap Photos = {}
    /\ Old \cap (Photos \X Submits) = {}
    /\ MaxSubmits \in Nat /\ MaxFaults \in Nat
    /\ NoRow \notin MediaRow
    /\ NoAnswer \notin {"list", "edit", "login", "invalid", "error"}

VARIABLES
    kind,     \* kind[f]: what the server finds of the file
    direct,   \* the files travel through the object store
    media,    \* product_media
    staged,   \* the originals in the staging area, by file and submission
    form,     \* the page in the browser
    req,      \* req[k]: the k-th submission at the server
    session,  \* the owner is logged in
    faults    \* faults left before MaxFaults

vars == <<listVars, kind, direct, media, staged, form, req, session, faults>>

MediaTable == [Media -> MediaRow \cup {NoRow}]
RowsOf(table, p) == {m \in Media : table[m] # NoRow /\ table[m].product = p}

\* The orders of the media of p by position.
Galleries(table, p) ==
    {s \in SetToSeqs(RowsOf(table, p)) :
        \A k, l \in DOMAIN s : k < l => table[s[k]].position <= table[s[l]].position}

Tile == Media \cup Photos
Token == [existing: Media] \cup [new: Nat]

Form == [pc: {"editing", "uploading", "posted", "left"}, product: Ids \cup {New},
         published: BOOLEAN, tiles: Seq(Tile), sent: Nat, last: 0..MaxSubmits]

Request ==
    [pc: {"none", "arrived", "insert", "load", "tokens", "commit", "done"},
     product: Ids \cup {New}, row: Ids \cup {New}, published: BOOLEAN,
     shown: Seq(Tile), files: Seq(Photos), tokens: Seq(Token),
     blank: BOOLEAN, seen: Table, loaded: MediaTable, ordered: Seq(Media),
     rejected: SUBSET Photos, reply: {NoAnswer, "list", "edit", "login", "invalid", "error"}]

TypeOK ==
    /\ ListTypeOK
    /\ kind \in [Photos -> Kinds] /\ direct \in BOOLEAN
    /\ media \in MediaTable
    /\ \A m \in Media : media[m] # NoRow => media[m].product \in Alive
    /\ staged \in SUBSET (Photos \X Submits)
    /\ form \in Form
    /\ req \in [Submits -> Request]
    /\ session \in BOOLEAN
    /\ faults \in 0..MaxFaults

NoMedia == [m \in Media |-> NoRow]
NotSent == [pc |-> "none", product |-> New, row |-> New, published |-> TRUE, shown |-> <<>>,
            files |-> <<>>, tokens |-> <<>>, blank |-> FALSE,
            seen |-> [p \in Ids |-> NoProduct], loaded |-> NoMedia, ordered |-> <<>>,
            rejected |-> {}, reply |-> NoAnswer]

\* The form of a new product, or of the first one.
Init ==
    /\ ListInit
    /\ kind \in Inputs /\ direct \in BOOLEAN
    /\ \E s \in SetToSeqs(Old) :
         /\ media = [m \in Media |-> IF m \in Old
                        THEN [product |-> 1, position |-> (CHOOSE i \in DOMAIN s : s[i] = m) - 1]
                        ELSE NoRow]
         /\ \E p \in {New, 1} :
              form = [pc |-> "editing", product |-> p, published |-> TRUE,
                      tiles |-> IF p = New THEN <<>> ELSE s, sent |-> 0, last |-> 0]
    /\ staged = {}
    /\ req = [k \in Submits |-> NotSent]
    /\ session = TRUE
    /\ faults = MaxFaults

Fault == faults > 0 /\ faults' = faults - 1

serverVars == <<products, born, media, staged, req>>
otherVars == <<page, call, calls, kind, direct, session>>

(***************************************************************************)
(* The page.                                                               *)
(***************************************************************************)
Arrange(tiles) ==
    /\ form.pc = "editing" /\ form.last < MaxSubmits
    /\ form' = [form EXCEPT !.tiles = tiles]
    /\ UNCHANGED <<serverVars, otherVars, faults>>

AddFile == \E f \in Photos \ Range(form.tiles) : Arrange(Append(form.tiles, f))

RemoveTile == \E i \in DOMAIN form.tiles : Arrange(RemoveAt(form.tiles, i))

\* A tile is dragged elsewhere, or made the first.
MoveTile == \E i, j \in DOMAIN form.tiles :
    i # j /\ Arrange(InsertAt(RemoveAt(form.tiles, i), j, form.tiles[i]))

IsFile(t) == t \in Photos
Files(tiles) == Only(tiles, Photos)

\* Mutant: a file is numbered by its tile, not among the files.
TokensByTile(tiles) ==
    [i \in DOMAIN tiles |-> IF IsFile(tiles[i]) THEN [new |-> i - 1]
                            ELSE [existing |-> tiles[i]]]

\* The order: each medium by its id, each file by its number among the files.
Tokens(tiles) ==
    [i \in DOMAIN tiles |-> IF IsFile(tiles[i])
                            THEN [new |-> Cardinality({j \in 1..(i - 1) : IsFile(tiles[j])})]
                            ELSE [existing |-> tiles[i]]]

\* uploadForm.  The title may be blank: the browser takes spaces for a title.
SendForm(k) ==
    \E blank \in BOOLEAN :
       req' = [req EXCEPT ![k] =
         [NotSent EXCEPT !.pc = "arrived", !.product = form.product, !.row = form.product,
            !.published = form.published, !.shown = form.tiles,
            !.files = Files(form.tiles), !.tokens = Tokens(form.tiles), !.blank = blank]]

\* The button.
Submit ==
    /\ form.pc = "editing" /\ form.last < MaxSubmits
    /\ form' = [form EXCEPT !.last = @ + 1, !.sent = 0,
                            !.pc = IF direct THEN "uploading" ELSE "posted"]
    /\ IF direct THEN UNCHANGED req ELSE SendForm(form.last + 1)
    /\ UNCHANGED <<products, born, media, staged, otherVars, faults>>

ToUpload == Files(form.tiles)[form.sent + 1]

\* uploadDirect: a token is asked for the next file, and the file is put.
UploadFile ==
    /\ form.pc = "uploading" /\ form.sent < Len(Files(form.tiles))
    /\ session /\ kind[ToUpload] \notin {"unsupported", "huge"}
    /\ staged' = staged \cup {<<ToUpload, form.last>>}
    /\ form' = [form EXCEPT !.sent = @ + 1]
    /\ UNCHANGED <<products, born, media, req, otherVars, faults>>

\* No token (the session expired, the name is refused), a file over the limit,
\* or a PUT that fails: an alert, and the form is as it was.
UploadRefused ==
    /\ form.pc = "uploading" /\ form.sent < Len(Files(form.tiles))
    /\ \/ (~session \/ kind[ToUpload] \in {"unsupported", "huge"}) /\ UNCHANGED faults
       \/ Fault
    /\ form' = [form EXCEPT !.pc = "editing"]
    /\ UNCHANGED <<serverVars, otherVars>>

Uploaded ==
    /\ form.pc = "uploading" /\ form.sent = Len(Files(form.tiles))
    /\ form' = [form EXCEPT !.pc = "posted"]
    /\ SendForm(form.last)
    /\ UNCHANGED <<products, born, media, staged, otherVars, faults>>

\* "error" or "timeout" of the request: an alert, and the form is as it was.
GiveUp ==
    /\ form.pc = "posted" /\ Fault
    /\ form' = [form EXCEPT !.pc = "editing"]
    /\ UNCHANGED <<serverVars, otherVars>>

Opened(p, tiles) ==
    [form EXCEPT !.pc = "editing", !.product = p, !.tiles = tiles]

\* product_edit
Edited(p, tiles) == [Opened(p, tiles) EXCEPT !.published = products[p].published]

\* Mutant: the form a failed creation comes back to creates again.
AnswerAsNew(k) ==
    LET reply == req[k].reply
    IN /\ form.pc = "posted" /\ form.last = k /\ reply # NoAnswer
       /\ \/ reply \in {"list", "login"} /\ form' = [form EXCEPT !.pc = "left"]
          \/ reply = "invalid" /\ form' = Opened(form.product, req[k].ordered)
          \/ /\ reply = "edit" /\ req[k].row \in Alive
             /\ \E tiles \in Galleries(media, req[k].row) :
                  form' = [Edited(req[k].row, tiles) EXCEPT !.product = form.product]
          \/ /\ reply \in {"error", "edit"}
             /\ reply = "edit" => req[k].row \notin Alive
             /\ form' = [form EXCEPT !.pc = "editing"]
       /\ UNCHANGED <<serverVars, otherVars, faults>>

\* load: the page goes where the answer leads (the list, the login, the form of
\* the product as it is now), becomes the answer (a refusal), or stays: an error,
\* or a form that is not there any more when the request is redirected to it.
Answer(k) ==
    LET reply == req[k].reply
    IN /\ form.pc = "posted" /\ form.last = k /\ reply # NoAnswer
       /\ \/ reply \in {"list", "login"} /\ form' = [form EXCEPT !.pc = "left"]
          \/ reply = "invalid" /\ form' = Opened(form.product, req[k].ordered)
          \/ /\ reply = "edit" /\ req[k].row \in Alive
             /\ \E tiles \in Galleries(media, req[k].row) : form' = Edited(req[k].row, tiles)
          \/ /\ reply \in {"error", "edit"}
             /\ reply = "edit" => req[k].row \notin Alive
             /\ form' = [form EXCEPT !.pc = "editing"]
       /\ UNCHANGED <<serverVars, otherVars, faults>>

(***************************************************************************)
(* The server.                                                             *)
(***************************************************************************)
Done(k, reply) ==
    [req EXCEPT ![k] = [NotSent EXCEPT !.pc = "done", !.row = req[k].row, !.reply = reply]]

\* login_required, then the checks of product_create and product_update.  The
\* files are looked at when the form is read, and a refusal renders the gallery.
Refuse(k) ==
    LET q == req[k]
    IN /\ q.pc = "arrived"
       /\ \/ ~session /\ req' = Done(k, "login")
          \/ /\ session
             /\ \/ q.product \notin Alive \cup {New}
                \/ ~direct /\ \E f \in Range(q.files) : kind[f] = "huge"
             /\ req' = Done(k, "error")
          \/ /\ session /\ q.blank /\ q.product \in Alive \cup {New}
             /\ direct \/ \A f \in Range(q.files) : kind[f] # "huge"
             /\ \E s \in Galleries(media, q.product) :
                  req' = [Done(k, "invalid") EXCEPT ![k].ordered = s]
       /\ UNCHANGED <<products, born, media, staged, form, otherVars, faults>>

\* The last position is read, for a product that is to be created.
Accept(k) ==
    LET q == req[k]
    IN /\ q.pc = "arrived" /\ session /\ ~q.blank
       /\ q.product \in Alive \cup {New}
       /\ direct \/ \A f \in Range(q.files) : kind[f] # "huge"
       /\ req' = [req EXCEPT ![k].seen = products,
                             ![k].pc = IF q.product = New THEN "insert" ELSE "load"]
       /\ UNCHANGED <<products, born, media, staged, form, otherVars, faults>>

\* ProductRepository.create commits the product before its files are looked at.
Insert(k) ==
    /\ req[k].pc = "insert" /\ born < MaxProducts
    /\ born' = born + 1
    /\ products' = [products EXCEPT ![born'] =
                       [position |-> NextPosition(req[k].seen), published |-> req[k].published]]
    /\ req' = [req EXCEPT ![k].pc = "load", ![k].row = born', ![k].seen = products']
    /\ UNCHANGED <<media, staged, form, otherVars, faults>>

\* _apply_media reads the gallery.  A product just created is read again, and
\* must be there.
Load(k) ==
    LET q == req[k]
    IN /\ q.pc = "load"
       /\ IF q.product = New /\ q.row \notin Alive THEN req' = Done(k, "error")
          ELSE req' = [req EXCEPT ![k].pc = "tokens",
                          ![k].loaded = [m \in Media |-> IF m \in RowsOf(media, q.row)
                                                         THEN media[m] ELSE NoRow]]
       /\ UNCHANGED <<products, born, media, staged, form, otherVars, faults>>

\* Mutant: the original of a file that cannot be processed stays.
ConsumedIfFine(k, f) ==
    staged' = IF kind[f] = "fine" THEN staged \ {<<f, k>>} ELSE staged

\* The original of a file, if it came through the store, is deleted once read.
Consumed(k, f) ==
    staged' = IF kind[f] = "unsupported" THEN staged ELSE staged \ {<<f, k>>}

Took(q, m) == IF m \in Range(q.ordered) THEN q ELSE [q EXCEPT !.ordered = Append(@, m)]
Rejected(q, f) == [q EXCEPT !.rejected = @ \cup {f}]

\* The next name of the order.  A medium stays if it was in the gallery.  A file
\* is refused by its name, or (_as_source) read and processed, whereupon its
\* original is deleted whatever came of it; that the deletion fails is ignored.
Take(k) ==
    LET q == [req[k] EXCEPT !.tokens = Tail(@)]
        t == Head(req[k].tokens)
    IN /\ req[k].pc = "tokens" /\ req[k].tokens # <<>>
       /\ \/ /\ "existing" \in DOMAIN t
             /\ req' = [req EXCEPT ![k] = IF q.loaded[t.existing] = NoRow THEN q
                                          ELSE Took(q, t.existing)]
             /\ UNCHANGED <<staged, faults>>
          \/ /\ "new" \in DOMAIN t /\ t.new >= Len(q.files)
             /\ req' = [req EXCEPT ![k] = q]
             /\ UNCHANGED <<staged, faults>>
          \/ /\ "new" \in DOMAIN t /\ t.new < Len(q.files)
             /\ LET f == q.files[t.new + 1]
                IN /\ req' = [req EXCEPT ![k] = IF kind[f] = "fine" THEN Took(q, <<f, k>>)
                                                ELSE Rejected(q, f)]
                   /\ \/ Consumed(k, f) /\ UNCHANGED faults
                      \/ <<f, k>> \in staged /\ Fault /\ UNCHANGED staged
       /\ UNCHANGED <<products, born, media, form, otherVars>>

\* The names are all taken: what is left of the gallery is put in order.
NamesTaken(k) ==
    /\ req[k].pc = "tokens" /\ req[k].tokens = <<>>
    /\ req' = [req EXCEPT ![k].pc = "commit"]
    /\ UNCHANGED <<products, born, media, staged, form, otherVars, faults>>

Position(q, m) == (CHOOSE i \in DOMAIN q.ordered : q.ordered[i] = m) - 1
Changed(q) == {m \in Media : /\ m \in Range(q.ordered) /\ q.loaded[m] # NoRow
                             /\ q.loaded[m].position # Position(q, m)}
Inserted(q) == {m \in Media : m \in Range(q.ordered) /\ q.loaded[m] = NoRow}

\* Mutant: foreign keys are not enforced.
RefusedUpdates(q) == \E m \in Changed(q) : media[m] = NoRow

\* The commit raises if a row it updates is gone, or the product it inserts for.
Refused(q) ==
    \/ \E m \in Changed(q) : media[m] = NoRow
    \/ q.row \notin Alive /\ Inserted(q) # {}

\* The commit of the save.  That the product is gone is noticed if the form
\* changes something of its own columns.
Commit(k) ==
    LET q == req[k]
    IN /\ q.pc = "commit"
       /\ \/ /\ Refused(q) \/ q.row \notin Alive
             /\ req' = Done(k, "error")
             /\ UNCHANGED <<products, media>>
          \/ /\ ~Refused(q)
             /\ q.row \in Alive \/ q.published = q.seen[q.row].published
             /\ req' = Done(k, IF q.rejected = {} THEN "list" ELSE "edit")
             /\ products' = IF q.published = q.seen[q.row].published THEN products
                            ELSE [products EXCEPT ![q.row].published = q.published]
             /\ media' = [m \in Media |->
                   IF m \in Inserted(q) THEN [product |-> q.row, position |-> Position(q, m)]
                   ELSE IF m \in Changed(q) THEN [media[m] EXCEPT !.position = Position(q, m)]
                   ELSE IF q.loaded[m] # NoRow /\ m \notin Range(q.ordered) THEN NoRow
                   ELSE media[m]]
       /\ UNCHANGED <<born, staged, form, otherVars, faults>>

\* The process dies, or the store or the database fails for good, which nothing
\* catches: the original that was being read is deleted all the same.
Abort(k) ==
    /\ req[k].pc \in {"arrived", "insert", "load", "tokens", "commit"}
    /\ Fault
    /\ req' = Done(k, "error")
    /\ staged' \in {staged} \cup
          {staged \ {<<f, k>>} : f \in {g \in Range(req[k].files) :
              req[k].pc = "tokens" /\ req[k].tokens # <<>> /\
              Head(req[k].tokens) = [new |-> (CHOOSE i \in DOMAIN req[k].files :
                                                  req[k].files[i] = g) - 1]}}
    /\ UNCHANGED <<products, born, media, form, otherVars>>

\* product_delete, from the list page: the media go with the product.
Delete ==
    /\ calls > 0 /\ calls' = calls - 1
    /\ \E p \in Range(page) \cap Alive :
         /\ products' = [products EXCEPT ![p] = NoProduct]
         /\ media' = [m \in Media |-> IF m \in RowsOf(media, p) THEN NoRow ELSE media[m]]
         /\ Shows(Listed(products, Alive \ {p}))
    /\ UNCHANGED <<born, call, kind, direct, staged, form, req, session, faults>>

\* The session expires, or the owner logs out in another tab.
Expire ==
    /\ session /\ Fault
    /\ session' = FALSE
    /\ UNCHANGED <<serverVars, page, call, calls, kind, direct, form>>

Browse == AddFile \/ RemoveTile \/ MoveTile \/ Submit
          \/ UploadFile \/ UploadRefused \/ Uploaded \/ GiveUp

Serve(k) == Refuse(k) \/ Accept(k) \/ Insert(k) \/ Load(k) \/ Take(k) \/ NamesTaken(k)
            \/ Commit(k) \/ Abort(k)

List == /\ OpenList \/ \E c \in Calls : ListStep(c)
        /\ UNCHANGED <<kind, direct, media, staged, form, req, session, faults>>

Next == \/ Browse
        \/ \E k \in Submits : Answer(k) \/ Serve(k)
        \/ List \/ Delete
        \/ Expire

Spec == Init /\ [][Next]_vars

(***************************************************************************)
(* Properties.                                                             *)
(***************************************************************************)
Saves(k) == req[k].pc = "commit" /\ req'[k].reply \in {"list", "edit"}

\* The tiles of the form as the gallery has them: without the files that were
\* refused and the media another save has removed.
AsShown(q, k) ==
    LET s == Only(q.shown, {f \in Photos : kind[f] = "fine"}
                              \cup {m \in Media : q.loaded[m] # NoRow})
    IN [i \in DOMAIN s |-> IF IsFile(s[i]) THEN <<s[i], k>> ELSE s[i]]

\* A save that nobody interferes with leaves the gallery the owner arranged: the
\* files, which travel apart from the order and of which some are refused, are
\* each at the place of their tile, and the first tile is the cover.
SavedAsShown ==
    [][\A k \in Submits : LET q == req[k] IN
        Saves(k) /\ (\A m \in Media : m \in RowsOf(media, q.row) \/ q.loaded[m] # NoRow
                                         => media[m] = q.loaded[m])
          => Galleries(media', q.row) = {AsShown(q, k)}]_vars

\* A product is created after every product that its place was computed from and
\* that was not moved or deleted since: it is listed last.
NewProductsLast ==
    [][\A k \in Submits : req[k].pc = "insert" /\ req'[k].pc = "load" =>
        \A p \in Alive : req[k].seen[p] = products[p] =>
            ListedBefore(products', p, req'[k].row)]_vars

\* A save that was answered has left no original in the staging area, whatever
\* became of its files, unless a deletion failed.
NoStrayOriginals ==
    Cardinality({o \in staged : req[o[2]].reply \in {"list", "edit"}}) <= MaxFaults - faults

\* The form of a new product leaves a second one only if something failed: a
\* product is committed before its files, and a creation that fails after that
\* or is not answered in time is submitted again.
DuplicatesNeedAFailure == Cardinality(Alive \ {1, 2}) <= 1 + MaxFaults - faults
=============================================================================
