-------------------------------- MODULE Boot --------------------------------
(***************************************************************************)
(* The start of the container: the backup, then gunicorn's workers, each of *)
(* which runs create_app against the same volume (SQLite and local media). *)
(* A worker resolves the secret key, then creates the tables, seeds, adds  *)
(* the missing column and heals old media under the file lock .init.lock   *)
(* (_initialize_schema), then has sitecopy create its table, and serves.   *)
(*                                                                         *)
(* A worker that serves handles the requests of the shop's owner while     *)
(* another one still boots.  A worker may be killed and started again; one *)
(* whose boot raises takes the container down, which Docker restarts.      *)
(***************************************************************************)
EXTENDS Backups

CONSTANTS
    Workers,       \* gunicorn's workers
    NoWorker,      \* nobody holds the lock
    Keys,          \* what os.urandom can return
    NoKey,         \* no key file
    EmptyKey,      \* a key file opened for writing and not written yet
    TableCount,    \* the tables of db.metadata, created in this order
    SeedDirs,      \* media directories the seed draws
    ShopDirs,      \* media directories of products made in the admin
    NoDir,
    Widths,        \* responsive widths of a picture
    LockPossible,  \* fcntl and a writable DATA_DIR
    MaxId,         \* bound: the ids products are given
    MaxFaults      \* bound: workers killed and steps that fail

ASSUME BootAssumption ==
    /\ NoWorker \notin Workers
    /\ NoKey \notin Keys /\ EmptyKey \notin Keys /\ NoKey # EmptyKey
    /\ TableCount \in Nat \ {0} /\ Widths # {}
    /\ SeedDirs \cap ShopDirs = {} /\ NoDir \notin SeedDirs \cup ShopDirs
    /\ LockPossible \in BOOLEAN
    /\ MaxId \in Nat \ {0}
    /\ MaxFaults \in Nat

VARIABLES
    worker,    \* worker[w]: how far it is
    lock,      \* the worker that holds .init.lock
    keyfile,   \* DATA_DIR/secret_key
    tables,    \* the tables that exist
    content,   \* site_texts: not there, without previous_value, or complete
    rows,      \* the products, each by the directory of its picture
    files,     \* files[d]: the files in directory d
    pid,       \* pid[d]: the product d was made for, d being products/<pid>/<d>
    late,      \* history: pictures made under an id whose files were yet to be swept
    faults     \* faults left before MaxFaults

media == <<files, pid, late>>
bootVars == <<worker, lock, keyfile, tables, content, rows, files, pid, late, faults>>
vars == <<backupVars, bootVars>>

Tables == 1..TableCount
Dirs == SeedDirs \cup ShopDirs
JpgFiles == {"jpg"} \X Widths
AvifFiles == {"avif"} \X Widths
OgFile == <<"og", 0>>
PictureFiles == JpgFiles \cup AvifFiles \cup {OgFile}

\* Past "lock", a worker is in _initialize_schema until "content".
Schema == {"tables", "create", "count", "seed", "commit", "column", "list", "heal", "pick", "put"}
Stages == {"down", "key", "truncate", "write", "lock", "content", "up"} \cup Schema

WorkerStates ==
    [pc: Stages, key: Keys \cup {NoKey, EmptyKey}, missing: SUBSET Tables,
     dir: Dirs \cup {NoDir}, todo: SUBSET Dirs, names: SUBSET PictureFiles,
     making: PictureFiles, sweep: 0..MaxId]

BootTypeOK ==
    /\ worker \in [Workers -> WorkerStates]
    /\ lock \in Workers \cup {NoWorker}
    /\ keyfile \in Keys \cup {NoKey, EmptyKey}
    /\ tables \in SUBSET Tables
    /\ content \in {"absent", "old", "complete"}
    /\ rows \in SUBSET Dirs
    /\ files \in [Dirs -> SUBSET PictureFiles]
    /\ pid \in [Dirs -> 0..MaxId]
    /\ late \in SUBSET Dirs
    /\ faults \in 0..MaxFaults

TypeOK == BackupsTypeOK /\ BootTypeOK

Down == [pc |-> "down", key |-> NoKey, missing |-> {}, dir |-> NoDir, todo |-> {},
         names |-> {}, making |-> OgFile, sweep |-> 0]

\* A fresh volume, or one that an older build left: without the newest table or
\* the column, with pictures that have neither AVIF nor the social crop.
Init ==
    /\ BackupsInit
    /\ worker = [w \in Workers |-> Down]
    /\ lock = NoWorker
    /\ faults = MaxFaults
    /\ \/ /\ keyfile = NoKey /\ tables = {} /\ content = "absent" /\ rows = {}
          /\ files = [d \in Dirs |-> {}] /\ pid = [d \in Dirs |-> 0]
       \/ /\ keyfile \in Keys /\ tables = Tables \ {TableCount} /\ content = "old"
          /\ \E d \in SeedDirs :
               /\ rows = {d} /\ files = [e \in Dirs |-> IF e = d THEN JpgFiles ELSE {}]
               /\ pid = [e \in Dirs |-> IF e = d THEN 1 ELSE 0]
    /\ late = {}

Fault == faults > 0 /\ faults' = faults - 1

(***************************************************************************)
(* The container and its processes.                                        *)
(***************************************************************************)
Started == [Down EXCEPT !.pc = "key"]

StartContainer ==
    /\ \A w \in Workers : worker[w].pc = "down"
    /\ TakeBackup
    /\ worker' = [w \in Workers |-> Started]
    /\ UNCHANGED <<lock, keyfile, tables, content, rows, media, faults>>

\* A deploy or a boot that raises stops every worker; the transaction of a seed
\* is lost and the kernel releases the lock.  (Bound: only while another start
\* is left.)
StopContainer ==
    /\ \E w \in Workers : worker[w].pc # "down"
    /\ starts < MaxStarts
    /\ worker' = [w \in Workers |-> Down]
    /\ lock' = NoWorker
    /\ UNCHANGED <<backupVars, keyfile, tables, content, rows, media, faults>>

\* Mutant: a worker killed with the lock keeps it.
KillHolding(w) ==
    /\ worker[w].pc # "down"
    /\ Fault
    /\ worker' = [worker EXCEPT ![w] = Started]
    /\ UNCHANGED <<backupVars, lock, keyfile, tables, content, rows, media>>

\* gunicorn replaces a worker that is killed.
KillWorker(w) ==
    /\ worker[w].pc # "down"
    /\ Fault
    /\ worker' = [worker EXCEPT ![w] = Started]
    /\ lock' = IF lock = w THEN NoWorker ELSE lock
    /\ UNCHANGED <<backupVars, keyfile, tables, content, rows, media>>

Step(w, state) ==
    /\ worker' = [worker EXCEPT ![w] = state]
    /\ UNCHANGED backupVars

Goto(w, pc) == Step(w, [worker[w] EXCEPT !.pc = pc])

(***************************************************************************)
(* _resolve_secret_key, without SECRET_KEY in the environment.             *)
(***************************************************************************)
\* A random key is one that no worker has; any such key stands for it.
FreshKey == CHOOSE k \in Keys : \A v \in Workers : worker[v].key # k

ReadKey(w) ==
    /\ worker[w].pc = "key"
    /\ IF keyfile = NoKey
       THEN \E k \in Keys : /\ k = FreshKey
                            /\ Step(w, [worker[w] EXCEPT !.pc = "truncate", !.key = k])
       ELSE Step(w, [worker[w] EXCEPT !.pc = "lock", !.key = keyfile])
    /\ UNCHANGED <<lock, keyfile, tables, content, rows, media, faults>>

\* open(key_path, "w") empties the file; the key is in it once it is closed.
TruncateKey(w) ==
    /\ worker[w].pc = "truncate"
    /\ keyfile' = EmptyKey
    /\ Goto(w, "write")
    /\ UNCHANGED <<lock, tables, content, rows, media, faults>>

WriteKey(w) ==
    /\ worker[w].pc = "write"
    /\ keyfile' = worker[w].key
    /\ Goto(w, "lock")
    /\ UNCHANGED <<lock, tables, content, rows, media, faults>>

(***************************************************************************)
(* _initialize_schema.                                                     *)
(***************************************************************************)
\* Mutant: the lock is asked for but never waited for.
TryLock(w) ==
    /\ worker[w].pc = "lock"
    /\ lock' = IF lock = NoWorker THEN w ELSE lock
    /\ Goto(w, "tables")
    /\ UNCHANGED <<keyfile, tables, content, rows, media, faults>>

TakeLock(w) ==
    /\ worker[w].pc = "lock"
    /\ LockPossible => lock = NoWorker
    /\ lock' = IF LockPossible THEN w ELSE lock
    /\ Goto(w, "tables")
    /\ UNCHANGED <<keyfile, tables, content, rows, media, faults>>

\* create_all looks for the tables first ...
CheckTables(w) ==
    /\ worker[w].pc = "tables"
    /\ Step(w, [worker[w] EXCEPT !.pc = "create", !.missing = Tables \ tables])
    /\ UNCHANGED <<lock, keyfile, tables, content, rows, media, faults>>

\* Mutant: every worker that finds a table missing is done with the creation.
CreateOne(w) ==
    LET left == worker[w].missing
        next == CHOOSE t \in left : \A u \in left : t <= u
    IN /\ worker[w].pc = "create"
       /\ tables' = IF left = {} THEN tables ELSE tables \cup {next}
       /\ Step(w, [worker[w] EXCEPT !.pc = "count", !.missing = {}])
       /\ UNCHANGED <<lock, keyfile, content, rows, media, faults>>

\* ... and creates one after the other.  One that is there by now raises, which
\* ends the creation and is not an error.
CreateTable(w) ==
    LET left == worker[w].missing
        next == CHOOSE t \in left : \A u \in left : t <= u
    IN /\ worker[w].pc = "create"
       /\ IF left = {} \/ next \in tables
          THEN Step(w, [worker[w] EXCEPT !.pc = "count", !.missing = {}]) /\ UNCHANGED tables
          ELSE /\ tables' = tables \cup {next}
               /\ Step(w, [worker[w] EXCEPT !.missing = left \ {next}])
       /\ UNCHANGED <<lock, keyfile, content, rows, media, faults>>

\* A random directory name is one that nothing refers to; any such name stands
\* for it.  What a killed seed left under it is forgotten.
Unused(d) == d \notin rows /\ \A v \in Workers : worker[v].dir # d /\ d \notin worker[v].todo
Fresh(S) == CHOOSE d \in S : Unused(d)

\* A product's id is the greatest in the table and one: SQLite gives the id of the
\* last product, once that is deleted, to the next (no AUTOINCREMENT).
NextId(n) == (\A d \in rows : pid[d] < n) /\ (n = 1 \/ \E d \in rows : pid[d] = n - 1)
Pending(n) == \E v \in Workers : worker[v].sweep = n

\* The first INSERT of a seed takes SQLite's write lock, which its commit releases.
Unlocked == \A v \in Workers : worker[v].pc # "commit"

\* A new product with one picture: an id, and files in a directory of its own.
NewPicture(d) ==
    \E n \in 1..MaxId :
        /\ NextId(n)
        /\ files' = [files EXCEPT ![d] = PictureFiles]
        /\ pid' = [pid EXCEPT ![d] = n]
        /\ late' = IF Pending(n) THEN late \cup {d} ELSE late \ {d}

\* Mutant: the product is committed before its picture is published.
CountThenCommit(w) ==
    /\ worker[w].pc = "count"
    /\ Goto(w, IF rows = {} THEN "commit" ELSE "column")
    /\ UNCHANGED <<lock, keyfile, tables, content, rows, media, faults>>

\* seed_initial_products
CountProducts(w) ==
    /\ worker[w].pc = "count"
    /\ Goto(w, IF rows = {} THEN "seed" ELSE "column")
    /\ UNCHANGED <<lock, keyfile, tables, content, rows, media, faults>>

PublishSeed(w) ==
    /\ worker[w].pc = "seed" /\ Unlocked
    /\ \E d \in SeedDirs :
         /\ Unused(d) /\ d = Fresh(SeedDirs)
         /\ NewPicture(d)
         /\ Step(w, [worker[w] EXCEPT !.pc = "commit", !.dir = d])
    /\ UNCHANGED <<lock, keyfile, tables, content, rows, faults>>

CommitSeed(w) ==
    /\ worker[w].pc = "commit"
    /\ rows' = rows \cup {worker[w].dir}
    /\ Step(w, [worker[w] EXCEPT !.pc = "column", !.dir = NoDir])
    /\ UNCHANGED <<lock, keyfile, tables, content, media, faults>>

\* _add_missing_columns: an ALTER that fails is logged and boot goes on.
AddColumn(w) ==
    /\ worker[w].pc = "column"
    /\ \/ /\ content' = IF content = "old" THEN "complete" ELSE content
          /\ UNCHANGED faults
       \/ content = "old" /\ Fault /\ UNCHANGED content
    /\ Goto(w, "list")
    /\ UNCHANGED <<lock, keyfile, tables, rows, media>>

\* backfill_media_variants: every picture there is now, ...
ListMedia(w) ==
    /\ worker[w].pc = "list"
    /\ Step(w, [worker[w] EXCEPT !.pc = "heal", !.todo = rows])
    /\ UNCHANGED <<lock, keyfile, tables, content, rows, media, faults>>

\* Mutant: a picture that has the social crop counts as healed.
SkipsCropped(w) ==
    /\ worker[w].pc = "heal"
    /\ \E d \in worker[w].todo :
         IF files[d] \cap JpgFiles = {} \/ OgFile \in files[d]
         THEN Step(w, [worker[w] EXCEPT !.todo = @ \ {d}])
         ELSE Step(w, [worker[w] EXCEPT
                  !.pc = "pick", !.todo = @ \ {d}, !.dir = d, !.names = files[d]])
    /\ UNCHANGED <<lock, keyfile, tables, content, rows, media, faults>>

\* ... one by one: what its directory holds, unless the source is not there.
ListFiles(w) ==
    /\ worker[w].pc = "heal"
    /\ \E d \in worker[w].todo :
         IF files[d] \cap JpgFiles = {}
         THEN Step(w, [worker[w] EXCEPT !.todo = @ \ {d}])
         ELSE Step(w, [worker[w] EXCEPT
                  !.pc = "pick", !.todo = @ \ {d}, !.dir = d, !.names = files[d]])
    /\ UNCHANGED <<lock, keyfile, tables, content, rows, media, faults>>

\* The variants the listing lacks, among those there is a source for.
Derived(names) == {OgFile} \cup {<<"avif", f[2]>> : f \in names \cap JpgFiles}
Lacking(w) == Derived(worker[w].names) \ worker[w].names

\* The next variant to make.  The crop comes from the picture already read, an
\* AVIF from the JPEG of its width, which may have been deleted by now.
PickVariant(w) ==
    /\ worker[w].pc = "pick"
    /\ \E f \in Lacking(w) :
         Step(w, [worker[w] EXCEPT
             !.pc = IF f = OgFile \/ <<"jpg", f[2]>> \in files[worker[w].dir] THEN "put" ELSE "pick",
             !.making = f, !.names = @ \cup {f}])
    /\ UNCHANGED <<lock, keyfile, tables, content, rows, media, faults>>

\* The variant is put into the directory, which is made if it is not there, or
\* fails and is skipped.
PutVariant(w) ==
    /\ worker[w].pc = "put"
    /\ \/ /\ files' = [files EXCEPT ![worker[w].dir] = @ \cup {worker[w].making}]
          /\ UNCHANGED faults
       \/ Fault /\ UNCHANGED files
    /\ Step(w, [worker[w] EXCEPT !.pc = "pick", !.making = OgFile])
    /\ UNCHANGED <<lock, keyfile, tables, content, rows, pid, late>>

EndPicture(w) ==
    /\ worker[w].pc = "pick" /\ Lacking(w) = {}
    /\ Step(w, [worker[w] EXCEPT !.pc = "heal", !.dir = NoDir, !.names = {}])
    /\ UNCHANGED <<lock, keyfile, tables, content, rows, media, faults>>

ReleaseLock(w) ==
    /\ worker[w].pc = "heal" /\ worker[w].todo = {}
    /\ lock' = IF lock = w THEN NoWorker ELSE lock
    /\ Goto(w, "content")
    /\ UNCHANGED <<keyfile, tables, content, rows, media, faults>>

\* ensure_content_schema, outside the lock: the worker that comes second finds
\* the table or has its error swallowed.
EnsureContent(w) ==
    /\ worker[w].pc = "content"
    /\ content' = IF content = "absent" THEN "complete" ELSE content
    /\ Goto(w, "up")
    /\ UNCHANGED <<lock, keyfile, tables, rows, media, faults>>

(***************************************************************************)
(* The shop's owner, served by a worker that is up and has a key to sign   *)
(* the session with.                                                       *)
(***************************************************************************)
Serves(w) == worker[w].pc = "up" /\ worker[w].key # EmptyKey

\* product_create of a product with one picture: its files, then its row.
CreateProduct(w) ==
    /\ Serves(w) /\ Unlocked
    /\ \E d \in ShopDirs : Unused(d) /\ NewPicture(d) /\ rows' = rows \cup {d}
    /\ UNCHANGED <<backupVars, worker, lock, keyfile, tables, content, faults>>

Without(n) == [d \in Dirs |-> IF pid[d] = n THEN {} ELSE files[d]]

\* Mutant: the files go before the row.
SweepFirst(w) ==
    /\ Serves(w) /\ Unlocked /\ worker[w].sweep = 0
    /\ \E d \in rows :
         /\ files' = Without(pid[d])
         /\ Step(w, [worker[w] EXCEPT !.sweep = pid[d]])
    /\ UNCHANGED <<lock, keyfile, tables, content, rows, pid, late, faults>>

\* product_delete: the row is deleted and committed, which frees its id; then
\* everything under products/<id> goes (delete_product_files), whoever has the id by
\* now.  (A worker killed in between leaves the files.)
DeleteProduct(w) ==
    /\ Serves(w) /\ Unlocked /\ worker[w].sweep = 0
    /\ \E d \in rows :
         /\ rows' = rows \ {d} /\ late' = late \ {d}
         /\ Step(w, [worker[w] EXCEPT !.sweep = pid[d]])
    /\ UNCHANGED <<lock, keyfile, tables, content, files, pid, faults>>

SweepFiles(w) ==
    /\ Serves(w) /\ worker[w].sweep # 0
    /\ files' = Without(worker[w].sweep)
    /\ Step(w, [worker[w] EXCEPT !.sweep = 0])
    /\ UNCHANGED <<lock, keyfile, tables, content, rows, pid, late, faults>>

BootStep(w) ==
    \/ ReadKey(w) \/ TruncateKey(w) \/ WriteKey(w)
    \/ TakeLock(w) \/ CheckTables(w) \/ CreateTable(w)
    \/ CountProducts(w) \/ PublishSeed(w) \/ CommitSeed(w)
    \/ AddColumn(w)
    \/ ListMedia(w) \/ ListFiles(w) \/ PickVariant(w) \/ PutVariant(w) \/ EndPicture(w)
    \/ ReleaseLock(w) \/ EnsureContent(w)

Next ==
    \/ StartContainer
    \/ StopContainer
    \/ \E w \in Workers :
         \/ KillWorker(w) \/ BootStep(w)
         \/ CreateProduct(w) \/ DeleteProduct(w) \/ SweepFiles(w)

Spec == Init /\ [][Next]_vars

\* Docker starts what stopped (restart: unless-stopped) and a boot goes on.
Fairness ==
    /\ WF_vars(StartContainer)
    /\ \A w \in Workers : WF_vars(BootStep(w))

FairSpec == Spec /\ Fairness

(***************************************************************************)
(* Properties.                                                             *)
(***************************************************************************)
\* The seed is in the table at most once, whatever workers boot together, are
\* killed in the middle of it or boot while the owner edits the catalogue
\* (_initialize_schema: "seed exactly once").
SeededOnce == Cardinality(rows \cap SeedDirs) <= 1

\* No worker serves before all tables are there, although the one that loses
\* the race for a table gives the creation up, nor, unless an ALTER failed,
\* before the column is (create_all, _add_missing_columns, ensure_content_schema).
ServesWithSchema ==
    \A w \in Workers : worker[w].pc = "up" =>
        /\ tables = Tables
        /\ content # "absent"
        /\ faults = MaxFaults => content = "complete"

\* Without a failure, a worker that serves has healed every picture of every
\* product that is listed, even one whose healing an earlier start left half
\* done (backfill_media_variants: "a deploy heals existing media"), unless the
\* picture was made under the id of a deleted product whose files were yet to go.
HealedBeforeServing ==
    faults = MaxFaults /\ (\E w \in Workers : worker[w].pc = "up")
        => \A d \in rows \ late : PictureFiles \subseteq files[d]

\* Once nobody is writing the key file, a worker that is up signs sessions, with the
\* key that every later start finds there (_resolve_secret_key: "keeps admin sessions
\* valid across restarts/redeploys").
SessionsOutliveRestarts ==
    (\A v \in Workers : worker[v].pc \notin {"truncate", "write"}) =>
        \A w \in Workers : worker[w].pc = "up" => Serves(w) /\ worker[w].key = keyfile

\* has_avif: every width has its AVIF.
HasAvif(d) == AvifFiles \subseteq files[d]

\* What a page offers as AVIF is there as long as the product is listed, whatever
\* boots, heals and sweeps of other products go on: a <picture> does not fall back
\* on a 404 (product_delete: the row first, then the files).  The exception is the
\* picture that took the id of a product whose files were yet to go.
OfferedAvifStays ==
    [][\A d \in (rows \cap rows') \ late : HasAvif(d) => HasAvif(d)']_vars

\* Every worker comes up, whoever was killed with the lock or lost a race.  (One
\* with an empty key comes up too, and can sign nobody in: see Serves.)
AllComeUp == <>[](\A w \in Workers : worker[w].pc = "up")
=============================================================================
