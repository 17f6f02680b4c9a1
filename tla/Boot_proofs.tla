------------------------------ MODULE Boot_proofs ------------------------------
(***************************************************************************)
(* Proofs about Boot for any number of workers, keys, tables, ids, pictures, *)
(* snapshots kept, starts and faults.                                      *)
(*                                                                         *)
(* None of the properties is inductive.  The lock excludes because exactly *)
(* the worker in _initialize_schema holds it (Exclusion); a seed happens   *)
(* once because who holds it has found no product (SeedOnEmpty); pictures  *)
(* are healed and stay because a directory is in the hands of one worker    *)
(* and an id is one product's at a time, so that a sweep reaches only what  *)
(* was deleted or made late (Custody), and because what a healing worker    *)
(* believes of the picture in hand stays true (HealProgress).               *)
(***************************************************************************)
EXTENDS Boot, FiniteSetTheorems, TLAPS

USE DEF media

\* Who is in _initialize_schema holds the lock.
Exclusion == LockPossible => \A w \in Workers : worker[w].pc \in Schema <=> lock = w

\* A worker that seeds has found no product, and a seed there is is the only one.
SeedOnEmpty ==
    /\ \A w \in Workers : worker[w].pc \in {"seed", "commit"} => rows \cap SeedDirs = {}
    /\ \A d, e \in rows \cap SeedDirs : d = e

\* Who creates tables misses the ones that are not there; then all are.
AfterTables == {"count", "seed", "commit", "column", "list", "heal", "pick", "put", "content", "up"}
TablesMade ==
    \A w \in Workers :
        /\ worker[w].pc = "create" => worker[w].missing = Tables \ tables
        /\ worker[w].pc \in AfterTables => tables = Tables

\* The column has been added when nothing failed.
AfterColumn == {"list", "heal", "pick", "put", "content", "up"}
ColumnMade ==
    \A w \in Workers :
        /\ worker[w].pc = "up" => content # "absent"
        /\ worker[w].pc \in AfterColumn /\ faults = MaxFaults => content # "old"

\* The pictures of the products in the table and of the seed being committed, and
\* the listed ones whose files no sweep of another product is after.
Committing == {w \in Workers : worker[w].pc = "commit"}
Live == rows \cup {worker[w].dir : w \in Committing}
Sound == rows \ late

\* Whose directory it is: one seed at a time is being committed, which has its own
\* directory, out of every other worker's hands; only a worker that commits or heals
\* has one.
CommitSafe ==
    \A w \in Committing :
        /\ worker[w].dir \notin rows
        /\ worker[w].dir \in late \/ PictureFiles \subseteq files[worker[w].dir]
        /\ \A v \in Workers \ {w} :
             v \notin Committing /\ worker[v].dir # worker[w].dir /\ worker[w].dir \notin worker[v].todo
EmptyHanded ==
    \A w \in Workers : worker[w].pc \notin {"commit", "pick", "put"} => worker[w].dir = NoDir

\* Whose id it is: a product's alone, and a sweep reaches no picture but the deleted
\* product's and the late ones.
OwnIds == \A d, e \in Live : pid[d] = pid[e] => d = e
SweepSafe ==
    \A w \in Workers : worker[w].sweep # 0 =>
        \A d \in Live : pid[d] = worker[w].sweep => d \in late
HasJpgs == \A d \in Sound : JpgFiles \subseteq files[d]
Custody == CommitSafe /\ EmptyHanded /\ OwnIds /\ SweepSafe /\ HasJpgs

\* How far a worker's healing is, when nothing has failed: what it thinks the
\* picture in hand has is there, every other listed picture is healed or to do.
HandTrue(w) ==
    worker[w].pc \in {"pick", "put"} /\ worker[w].dir \in Sound =>
        /\ JpgFiles \subseteq worker[w].names
        /\ \A f \in worker[w].names : f \in files[worker[w].dir]
                                      \/ (worker[w].pc = "put" /\ f = worker[w].making)
RestHealed(w) ==
    worker[w].pc \in {"heal", "pick", "put"} => \A d \in Sound :
        \/ PictureFiles \subseteq files[d] \/ d \in worker[w].todo
        \/ worker[w].pc \in {"pick", "put"} /\ d = worker[w].dir
AllHealed(w) ==
    worker[w].pc \in {"content", "up"} => \A d \in Sound : PictureFiles \subseteq files[d]
Healing(w) == HandTrue(w) /\ RestHealed(w) /\ AllHealed(w)
HealProgress == faults = MaxFaults => \A w \in Workers : Healing(w)

\* No snapshot is from the future, and no second has two.
Stamped ==
    /\ \A f \in snapshots : f.stamp <= starts
    /\ \A f, g \in snapshots : f.stamp = g.stamp => f = g
    /\ \A n \in complete : n <= starts

\* The picture of the seed that is being committed is one the seed drew.
Drawn == \A w \in Workers : worker[w].pc = "commit" => worker[w].dir \in SeedDirs

-----------------------------------------------------------------------------
(***************************************************************************)
(* Types.                                                                  *)
(***************************************************************************)
\* A nonempty set of naturals has a least element: the next table to create is one.
LEMMA Least ==
    ASSUME NEW S \in SUBSET Nat, S # {}
    PROVE  \E n \in S : \A m \in S : n <= m
<1> DEFINE R == OpToRel(<, Nat)
<1>1. IsWellFoundedOn(R, Nat)
  BY NatLessThanWellFounded
<1>2. PICK n \in S : \A m \in S : ~(<<m, n>> \in R)
  <2> HIDE DEF R
  <2> QED
    BY <1>1, WFMin
<1>3. ASSUME NEW m \in S PROVE n <= m
  <2>1. n \in Nat /\ m \in Nat /\ (m < n => <<m, n>> \in R)
    BY DEF OpToRel
  <2>2. ~(m < n)
    <3> HIDE DEF R
    <3> QED
      BY <1>2, <2>1
  <2> HIDE DEF R
  <2>3. \A i, j \in Nat : ~(j < i) => i <= j
    OBVIOUS
  <2> QED
    BY <2>1, <2>2, <2>3
<1> QED
  BY <1>3

LEMMA InitTypes == Init => TypeOK
<1>1. 0 \in 0..MaxId /\ 1 \in 0..MaxId
  BY BootAssumption
<1>2. Down \in WorkerStates
  BY <1>1 DEF Down, WorkerStates, Stages, PictureFiles, Schema
<1> SUFFICES ASSUME Init PROVE TypeOK
  OBVIOUS
<1>3. BackupsTypeOK
  BY BackupAssumption DEF Init, BackupsInit, BackupsTypeOK
<1>4. /\ worker \in [Workers -> WorkerStates] /\ lock \in Workers \cup {NoWorker}
      /\ late \in SUBSET Dirs /\ faults \in 0..MaxFaults
  BY <1>2, BootAssumption DEF Init
<1>5. /\ keyfile \in Keys \cup {NoKey, EmptyKey} /\ tables \in SUBSET Tables
      /\ content \in {"absent", "old", "complete"} /\ rows \in SUBSET Dirs
  BY DEF Init, Dirs
<1>6. files \in [Dirs -> SUBSET PictureFiles]
  BY DEF Init, PictureFiles
<1>7. pid \in [Dirs -> 0..MaxId]
  BY <1>1 DEF Init
<1> QED
  BY <1>3, <1>4, <1>5, <1>6, <1>7 DEF TypeOK, BootTypeOK

LEMMA KeyTypes == \A w \in Workers : TypeOK => worker[w] \in WorkerStates
BY DEF TypeOK, BootTypeOK

LEMMA StartedTypes == Started \in WorkerStates /\ Down \in WorkerStates
BY BootAssumption DEF Started, Down, WorkerStates, Stages, PictureFiles, Schema

\* A step of one worker to a state of the right type leaves the rest to be shown.
LEMMA StepTypes ==
    ASSUME TypeOK, NEW w \in Workers, NEW state \in WorkerStates, Step(w, state),
           lock' \in Workers \cup {NoWorker},
           keyfile' \in Keys \cup {NoKey, EmptyKey},
           tables' \in SUBSET Tables,
           content' \in {"absent", "old", "complete"},
           rows' \in SUBSET Dirs,
           files' \in [Dirs -> SUBSET PictureFiles],
           pid' \in [Dirs -> 0..MaxId], late' \in SUBSET Dirs,
           faults' \in 0..MaxFaults
    PROVE  TypeOK'
<1>1. worker' \in [Workers -> WorkerStates]
  BY DEF TypeOK, BootTypeOK, Step
<1> QED
  BY <1>1 DEF TypeOK, BootTypeOK, BackupsTypeOK, Step, backupVars

LEMMA GotoTypes ==
    ASSUME TypeOK, NEW w \in Workers, NEW pc \in Stages
    PROVE  [worker[w] EXCEPT !.pc = pc] \in WorkerStates
BY KeyTypes DEF WorkerStates

LEMMA FaultTypes == ASSUME TypeOK, Fault PROVE faults' \in 0..MaxFaults
BY BootAssumption DEF TypeOK, BootTypeOK, Fault

LEMMA KeyStepTypes ==
    ASSUME TypeOK, NEW w \in Workers, ReadKey(w) \/ TruncateKey(w) \/ WriteKey(w)
    PROVE  TypeOK'
<1>0. worker[w] \in WorkerStates
  BY KeyTypes
<1>1. CASE ReadKey(w)
  <2>1. ASSUME NEW k \in Keys PROVE [worker[w] EXCEPT !.pc = "truncate", !.key = k] \in WorkerStates
    BY <1>0 DEF WorkerStates, Stages
  <2>2. [worker[w] EXCEPT !.pc = "lock", !.key = keyfile] \in WorkerStates
    BY <1>0 DEF WorkerStates, Stages, TypeOK, BootTypeOK
  <2> QED
    BY <1>1, <2>1, <2>2, StepTypes DEF ReadKey, TypeOK, BootTypeOK
<1>2. CASE TruncateKey(w)
  BY <1>2, GotoTypes, StepTypes DEF TruncateKey, Goto, TypeOK, BootTypeOK, Stages
<1>3. CASE WriteKey(w)
  <2>1. [worker[w] EXCEPT !.pc = "lock"] \in WorkerStates /\ worker[w].key \in Keys \cup {NoKey, EmptyKey}
    BY <1>0 DEF WorkerStates, Stages
  <2> QED
    BY <1>3, <2>1, StepTypes DEF WriteKey, Goto, TypeOK, BootTypeOK
<1> QED
  BY <1>1, <1>2, <1>3

LEMMA TableStepTypes ==
    ASSUME TypeOK, NEW w \in Workers, TakeLock(w) \/ CheckTables(w) \/ CreateTable(w)
    PROVE  TypeOK'
<1>0. worker[w] \in WorkerStates
  BY KeyTypes
<1>1. CASE TakeLock(w)
  BY <1>1, GotoTypes, StepTypes DEF TakeLock, Goto, TypeOK, BootTypeOK, Stages, Schema
<1>2. CASE CheckTables(w)
  <2>1. [worker[w] EXCEPT !.pc = "create", !.missing = Tables \ tables] \in WorkerStates
    BY <1>0 DEF WorkerStates, Stages, Schema
  <2> QED
    BY <1>2, <2>1, StepTypes DEF CheckTables, TypeOK, BootTypeOK
<1>3. CASE CreateTable(w)
  <2> DEFINE left == worker[w].missing
             next == CHOOSE t \in left : \A u \in left : t <= u
  <2>1. left \in SUBSET Tables /\ left \in SUBSET Nat
    BY <1>0 DEF WorkerStates, Tables
  <2>2. left # {} => next \in Tables
    <3> SUFFICES ASSUME left # {} PROVE next \in Tables
      OBVIOUS
    <3> HIDE DEF left
    <3>1. \E t \in left : \A u \in left : t <= u
      BY <2>1, Least
    <3> QED
      BY <2>1, <3>1
  <2>3. [worker[w] EXCEPT !.pc = "count", !.missing = {}] \in WorkerStates
    BY <1>0 DEF WorkerStates, Stages, Schema
  <2>4. [worker[w] EXCEPT !.missing = left \ {next}] \in WorkerStates
    <3> HIDE DEF next
    <3> QED
      BY <1>0 DEF WorkerStates
  <2>5. tables' \in SUBSET Tables
    <3> HIDE DEF next
    <3> QED
      BY <1>3, <2>2 DEF CreateTable, TypeOK, BootTypeOK, next
  <2>6. \/ Step(w, [worker[w] EXCEPT !.pc = "count", !.missing = {}])
        \/ Step(w, [worker[w] EXCEPT !.missing = left \ {next}])
    BY <1>3 DEF CreateTable
  <2>7. /\ lock' = lock /\ keyfile' = keyfile /\ content' = content
        /\ rows' = rows /\ files' = files /\ faults' = faults /\ pid' = pid /\ late' = late
    BY <1>3 DEF CreateTable
  <2> HIDE DEF next, left
  <2> QED
    BY <2>3, <2>4, <2>5, <2>6, <2>7, StepTypes DEF TypeOK, BootTypeOK
<1> QED
  BY <1>1, <1>2, <1>3

LEMMA PictureTypes ==
    ASSUME TypeOK, NEW d \in Dirs, NewPicture(d)
    PROVE  /\ files' \in [Dirs -> SUBSET PictureFiles]
           /\ pid' \in [Dirs -> 0..MaxId]
           /\ late' \in SUBSET Dirs
<1>1. PICK n \in 1..MaxId : /\ files' = [files EXCEPT ![d] = PictureFiles]
                            /\ pid' = [pid EXCEPT ![d] = n]
                            /\ late' = IF Pending(n) THEN late \cup {d} ELSE late \ {d}
  BY DEF NewPicture
<1>2. n \in 0..MaxId
  BY BootAssumption
<1> QED
  BY <1>1, <1>2 DEF TypeOK, BootTypeOK

LEMMA SeedStepTypes ==
    ASSUME TypeOK, Drawn, NEW w \in Workers,
           CountProducts(w) \/ PublishSeed(w) \/ CommitSeed(w) \/ AddColumn(w)
    PROVE  TypeOK'
<1>0. worker[w] \in WorkerStates
  BY KeyTypes
<1>1. CASE CountProducts(w)
  BY <1>1, GotoTypes, StepTypes DEF CountProducts, Goto, TypeOK, BootTypeOK, Stages, Schema
<1>2. CASE PublishSeed(w)
  <2>1. PICK d \in SeedDirs : /\ NewPicture(d)
                              /\ Step(w, [worker[w] EXCEPT !.pc = "commit", !.dir = d])
    BY <1>2 DEF PublishSeed
  <2>2. [worker[w] EXCEPT !.pc = "commit", !.dir = d] \in WorkerStates
    BY <1>0 DEF WorkerStates, Stages, Schema, Dirs
  <2>3. /\ files' \in [Dirs -> SUBSET PictureFiles]
        /\ pid' \in [Dirs -> 0..MaxId] /\ late' \in SUBSET Dirs
    BY <2>1, PictureTypes DEF Dirs
  <2> QED
    BY <1>2, <2>1, <2>2, <2>3, StepTypes DEF PublishSeed, TypeOK, BootTypeOK
<1>3. CASE CommitSeed(w)
  <2>1. [worker[w] EXCEPT !.pc = "column", !.dir = NoDir] \in WorkerStates
    BY <1>0 DEF WorkerStates, Stages, Schema
  <2>2. rows' \in SUBSET Dirs
    BY <1>3 DEF CommitSeed, TypeOK, BootTypeOK, Drawn, Dirs
  <2> QED
    BY <1>3, <2>1, <2>2, StepTypes DEF CommitSeed, TypeOK, BootTypeOK
<1>4. CASE AddColumn(w)
  <2>1. faults' \in 0..MaxFaults
    BY <1>4, FaultTypes DEF AddColumn, TypeOK, BootTypeOK
  <2> QED
    BY <1>4, <2>1, GotoTypes, StepTypes DEF AddColumn, Goto, TypeOK, BootTypeOK, Stages, Schema
<1> QED
  BY <1>1, <1>2, <1>3, <1>4

LEMMA HealStepTypes ==
    ASSUME TypeOK, NEW w \in Workers,
           ListMedia(w) \/ ListFiles(w) \/ PickVariant(w) \/ PutVariant(w) \/ EndPicture(w)
    PROVE  TypeOK'
<1>0. worker[w] \in WorkerStates
  BY KeyTypes
<1>1. CASE ListMedia(w)
  <2>1. [worker[w] EXCEPT !.pc = "heal", !.todo = rows] \in WorkerStates
    BY <1>0 DEF WorkerStates, Stages, Schema, TypeOK, BootTypeOK
  <2> QED
    BY <1>1, <2>1, StepTypes DEF ListMedia, TypeOK, BootTypeOK
<1>2. CASE ListFiles(w)
  <2>1. PICK d \in worker[w].todo :
          \/ Step(w, [worker[w] EXCEPT !.todo = @ \ {d}])
          \/ Step(w, [worker[w] EXCEPT
                  !.pc = "pick", !.todo = @ \ {d}, !.dir = d, !.names = files[d]])
    BY <1>2 DEF ListFiles
  <2>2. d \in Dirs /\ files[d] \in SUBSET PictureFiles
    BY <1>0 DEF WorkerStates, TypeOK, BootTypeOK
  <2>3. [worker[w] EXCEPT !.todo = @ \ {d}] \in WorkerStates
    BY <1>0 DEF WorkerStates
  <2>4. [worker[w] EXCEPT !.pc = "pick", !.todo = @ \ {d}, !.dir = d, !.names = files[d]]
           \in WorkerStates
    BY <1>0, <2>2 DEF WorkerStates, Stages, Schema
  <2> QED
    BY <1>2, <2>1, <2>3, <2>4, StepTypes DEF ListFiles, TypeOK, BootTypeOK
<1>3. CASE PickVariant(w)
  <2>1. PICK f \in Lacking(w), pc \in {"put", "pick"} :
          Step(w, [worker[w] EXCEPT !.pc = pc, !.making = f, !.names = @ \cup {f}])
    BY <1>3 DEF PickVariant
  <2>2. f \in PictureFiles
    BY <1>0, <2>1 DEF Lacking, Derived, WorkerStates, PictureFiles, JpgFiles, AvifFiles
  <2>3. [worker[w] EXCEPT !.pc = pc, !.making = f, !.names = @ \cup {f}] \in WorkerStates
    BY <1>0, <2>2 DEF WorkerStates, Stages, Schema
  <2> QED
    BY <1>3, <2>1, <2>3, StepTypes DEF PickVariant, TypeOK, BootTypeOK
<1>4. CASE PutVariant(w)
  <2>1. [worker[w] EXCEPT !.pc = "pick", !.making = OgFile] \in WorkerStates
    BY <1>0 DEF WorkerStates, Stages, Schema, PictureFiles
  <2>2. files' \in [Dirs -> SUBSET PictureFiles]
    BY <1>0, <1>4 DEF PutVariant, WorkerStates, TypeOK, BootTypeOK
  <2>3. faults' \in 0..MaxFaults
    BY <1>4, FaultTypes DEF PutVariant, TypeOK, BootTypeOK
  <2> QED
    BY <1>4, <2>1, <2>2, <2>3, StepTypes DEF PutVariant, TypeOK, BootTypeOK
<1>5. CASE EndPicture(w)
  <2>1. [worker[w] EXCEPT !.pc = "heal", !.dir = NoDir, !.names = {}] \in WorkerStates
    BY <1>0 DEF WorkerStates, Stages, Schema
  <2> QED
    BY <1>5, <2>1, StepTypes DEF EndPicture, TypeOK, BootTypeOK
<1> QED
  BY <1>1, <1>2, <1>3, <1>4, <1>5

LEMMA LastStepTypes ==
    ASSUME TypeOK, NEW w \in Workers, ReleaseLock(w) \/ EnsureContent(w)
    PROVE  TypeOK'
BY GotoTypes, StepTypes DEF ReleaseLock, EnsureContent, Goto, TypeOK, BootTypeOK, Stages

LEMMA OwnerTypes ==
    ASSUME TypeOK, NEW w \in Workers, CreateProduct(w) \/ DeleteProduct(w) \/ SweepFiles(w)
    PROVE  TypeOK'
<1>0. worker[w] \in WorkerStates
  BY KeyTypes
<1>1. CASE CreateProduct(w)
  BY <1>1, PictureTypes DEF CreateProduct, TypeOK, BootTypeOK, BackupsTypeOK, backupVars, Dirs
<1>2. CASE DeleteProduct(w)
  <2>1. PICK d \in rows : /\ rows' = rows \ {d} /\ late' = late \ {d}
                          /\ Step(w, [worker[w] EXCEPT !.sweep = pid[d]])
    BY <1>2 DEF DeleteProduct
  <2>2. [worker[w] EXCEPT !.sweep = pid[d]] \in WorkerStates
    BY <1>0, <2>1 DEF WorkerStates, TypeOK, BootTypeOK
  <2> QED
    BY <1>2, <2>1, <2>2, StepTypes DEF DeleteProduct, TypeOK, BootTypeOK
<1>3. CASE SweepFiles(w)
  <2>1. [worker[w] EXCEPT !.sweep = 0] \in WorkerStates
    BY <1>0, BootAssumption DEF WorkerStates
  <2>2. files' \in [Dirs -> SUBSET PictureFiles]
    BY <1>3 DEF SweepFiles, Without, TypeOK, BootTypeOK
  <2> QED
    BY <1>3, <2>1, <2>2, StepTypes DEF SweepFiles, TypeOK, BootTypeOK
<1> QED
  BY <1>1, <1>2, <1>3

LEMMA BackupTypes == ASSUME BackupsTypeOK, TakeBackup PROVE BackupsTypeOK'
<1>1. starts \in Nat /\ starts' = starts + 1 /\ starts' \in 1..MaxStarts
  BY BackupAssumption DEF BackupsTypeOK, TakeBackup
<1>2. PICK t \in Taken(snapshots, starts + 1) : snapshots' = t.left
  BY DEF TakeBackup
<1>3. \A whole \in BOOLEAN : [stamp |-> starts + 1, whole |-> whole] \in Files
  BY <1>1 DEF Files
<1>4. t.left \in SUBSET Files
  <2> DEFINE whole == snapshots \cup {[stamp |-> starts + 1, whole |-> TRUE]}
  <2>1. whole \in SUBSET Files /\ snapshots \in SUBSET Files
    BY <1>3 DEF BackupsTypeOK
  <2>2. CASE t = [left |-> snapshots, done |-> FALSE]
    BY <2>1, <2>2
  <2>3. CASE t = [left |-> snapshots \cup {[stamp |-> starts + 1, whole |-> FALSE]}, done |-> FALSE]
    BY <2>1, <2>3, <1>3
  <2>4. ASSUME NEW kept \in Pruned(whole), t = [left |-> kept, done |-> TRUE]
        PROVE  t.left \in SUBSET Files
    <3>1. kept \in SUBSET whole
      BY DEF Pruned
    <3> HIDE DEF whole
    <3> QED
      BY <2>1, <2>4, <3>1
  <2> QED
    BY <1>2, <2>2, <2>3, <2>4 DEF Taken
<1> QED
  BY <1>1, <1>2, <1>4 DEF BackupsTypeOK, TakeBackup

LEMMA ContainerTypes ==
    ASSUME TypeOK, StartContainer \/ StopContainer \/ \E w \in Workers : KillWorker(w)
    PROVE  TypeOK'
<1>1. CASE StartContainer
  BY <1>1, StartedTypes, BackupTypes DEF StartContainer, TypeOK, BootTypeOK
<1>2. CASE StopContainer
  BY <1>2, StartedTypes DEF StopContainer, TypeOK, BootTypeOK, BackupsTypeOK, backupVars
<1>3. ASSUME NEW w \in Workers, KillWorker(w) PROVE TypeOK'
  BY <1>3, StartedTypes, FaultTypes DEF KillWorker, TypeOK, BootTypeOK, BackupsTypeOK, backupVars
<1> QED
  BY <1>1, <1>2, <1>3

LEMMA NextTypes == ASSUME TypeOK, Drawn, [Next]_vars PROVE TypeOK'
<1>1. CASE UNCHANGED vars
  BY <1>1 DEF vars, backupVars, bootVars, TypeOK, BackupsTypeOK, BootTypeOK
<1>2. CASE StartContainer \/ StopContainer \/ \E w \in Workers : KillWorker(w)
  BY <1>2, ContainerTypes
<1>3. ASSUME NEW w \in Workers, BootStep(w) PROVE TypeOK'
  BY <1>3, KeyStepTypes, TableStepTypes, SeedStepTypes, HealStepTypes, LastStepTypes DEF BootStep
<1>4. ASSUME NEW w \in Workers, CreateProduct(w) \/ DeleteProduct(w) \/ SweepFiles(w)
      PROVE  TypeOK'
  BY <1>4, OwnerTypes
<1> QED
  BY <1>1, <1>2, <1>3, <1>4 DEF Next

\* The way through the boot.
Moves ==
    {<<"key", "truncate">>, <<"key", "lock">>, <<"truncate", "write">>, <<"write", "lock">>,
     <<"lock", "tables">>, <<"tables", "create">>, <<"create", "create">>,
     <<"create", "count">>, <<"count", "seed">>, <<"count", "column">>, <<"seed", "commit">>,
     <<"commit", "column">>, <<"column", "list">>, <<"list", "heal">>, <<"heal", "heal">>,
     <<"heal", "pick">>, <<"pick", "pick">>, <<"pick", "put">>, <<"put", "pick">>,
     <<"pick", "heal">>, <<"heal", "content">>, <<"content", "up">>}

\* Where a worker is when it takes a step.
LEMMA Guards ==
    ASSUME NEW w \in Workers
    PROVE  /\ ReadKey(w) => worker[w].pc = "key"
           /\ TruncateKey(w) => worker[w].pc = "truncate"
           /\ WriteKey(w) => worker[w].pc = "write"
           /\ TakeLock(w) => worker[w].pc = "lock"
           /\ CheckTables(w) => worker[w].pc = "tables"
           /\ CreateTable(w) => worker[w].pc = "create"
           /\ CountProducts(w) => worker[w].pc = "count"
           /\ PublishSeed(w) => worker[w].pc = "seed"
           /\ CommitSeed(w) => worker[w].pc = "commit"
           /\ AddColumn(w) => worker[w].pc = "column"
           /\ ListMedia(w) => worker[w].pc = "list"
           /\ ListFiles(w) => worker[w].pc = "heal"
           /\ PickVariant(w) => worker[w].pc = "pick"
           /\ PutVariant(w) => worker[w].pc = "put"
           /\ EndPicture(w) => worker[w].pc = "pick"
           /\ ReleaseLock(w) => worker[w].pc = "heal"
           /\ EnsureContent(w) => worker[w].pc = "content"
<1>1. ReadKey(w) => worker[w].pc = "key"
  BY DEF ReadKey
<1>2. TruncateKey(w) => worker[w].pc = "truncate"
  BY DEF TruncateKey
<1>3. WriteKey(w) => worker[w].pc = "write"
  BY DEF WriteKey
<1>4. TakeLock(w) => worker[w].pc = "lock"
  BY DEF TakeLock
<1>5. CheckTables(w) => worker[w].pc = "tables"
  BY DEF CheckTables
<1>6. CreateTable(w) => worker[w].pc = "create"
  BY DEF CreateTable
<1>7. CountProducts(w) => worker[w].pc = "count"
  BY DEF CountProducts
<1>8. PublishSeed(w) => worker[w].pc = "seed"
  BY DEF PublishSeed
<1>9. CommitSeed(w) => worker[w].pc = "commit"
  BY DEF CommitSeed
<1>10. AddColumn(w) => worker[w].pc = "column"
  BY DEF AddColumn
<1>11. ListMedia(w) => worker[w].pc = "list"
  BY DEF ListMedia
<1>12. ListFiles(w) => worker[w].pc = "heal"
  BY DEF ListFiles
<1>13. PickVariant(w) => worker[w].pc = "pick"
  BY DEF PickVariant
<1>14. PutVariant(w) => worker[w].pc = "put"
  BY DEF PutVariant
<1>15. EndPicture(w) => worker[w].pc = "pick"
  BY DEF EndPicture
<1>16. ReleaseLock(w) => worker[w].pc = "heal"
  BY DEF ReleaseLock
<1>17. EnsureContent(w) => worker[w].pc = "content"
  BY DEF EnsureContent
<1> QED
  BY <1>1, <1>2, <1>3, <1>4, <1>5, <1>6, <1>7, <1>8, <1>9, <1>10, <1>11, <1>12, <1>13, <1>14, <1>15, <1>16, <1>17

LEMMA Path ==
    ASSUME TypeOK, NEW w \in Workers, BootStep(w)
    PROVE  /\ \A v \in Workers \ {w} : worker'[v] = worker[v]
           /\ <<worker[w].pc, worker'[w].pc>> \in Moves
           /\ worker'[w].pc = "commit" => worker'[w].dir \in SeedDirs
           /\ worker'[w].key = worker[w].key \/ ReadKey(w)
<1>0. worker \in [Workers -> WorkerStates]
  BY DEF TypeOK, BootTypeOK
<1>1. CASE ReadKey(w)
  BY <1>0, <1>1 DEF ReadKey, Goto, Step, WorkerStates, Moves
<1>2. CASE TruncateKey(w)
  BY <1>0, <1>2 DEF TruncateKey, Goto, Step, WorkerStates, Moves
<1>3. CASE WriteKey(w)
  BY <1>0, <1>3 DEF WriteKey, Goto, Step, WorkerStates, Moves
<1>4. CASE TakeLock(w)
  BY <1>0, <1>4 DEF TakeLock, Goto, Step, WorkerStates, Moves
<1>5. CASE CheckTables(w)
  BY <1>0, <1>5 DEF CheckTables, Goto, Step, WorkerStates, Moves
<1>6. CASE CreateTable(w)
  BY <1>0, <1>6 DEF CreateTable, Goto, Step, WorkerStates, Moves
<1>7. CASE CountProducts(w)
  BY <1>0, <1>7 DEF CountProducts, Goto, Step, WorkerStates, Moves
<1>8. CASE PublishSeed(w)
  BY <1>0, <1>8 DEF PublishSeed, Goto, Step, WorkerStates, Moves
<1>9. CASE CommitSeed(w)
  BY <1>0, <1>9 DEF CommitSeed, Goto, Step, WorkerStates, Moves
<1>10. CASE AddColumn(w)
  BY <1>0, <1>10 DEF AddColumn, Goto, Step, WorkerStates, Moves
<1>11. CASE ListMedia(w)
  BY <1>0, <1>11 DEF ListMedia, Goto, Step, WorkerStates, Moves
<1>12. CASE ListFiles(w)
  BY <1>0, <1>12 DEF ListFiles, Goto, Step, WorkerStates, Moves
<1>13. CASE PickVariant(w)
  BY <1>0, <1>13 DEF PickVariant, Goto, Step, WorkerStates, Moves
<1>14. CASE PutVariant(w)
  BY <1>0, <1>14 DEF PutVariant, Goto, Step, WorkerStates, Moves
<1>15. CASE EndPicture(w)
  BY <1>0, <1>15 DEF EndPicture, Goto, Step, WorkerStates, Moves
<1>16. CASE ReleaseLock(w)
  BY <1>0, <1>16 DEF ReleaseLock, Goto, Step, WorkerStates, Moves
<1>17. CASE EnsureContent(w)
  BY <1>0, <1>17 DEF EnsureContent, Goto, Step, WorkerStates, Moves
<1> QED
  BY <1>1, <1>2, <1>3, <1>4, <1>5, <1>6, <1>7, <1>8, <1>9, <1>10, <1>11, <1>12, <1>13, <1>14, <1>15, <1>16, <1>17 DEF BootStep

LEMMA OwnerPath ==
    ASSUME TypeOK, NEW w \in Workers, CreateProduct(w) \/ DeleteProduct(w) \/ SweepFiles(w)
    PROVE  /\ \A v \in Workers : /\ worker'[v].pc = worker[v].pc
                                 /\ worker'[v].key = worker[v].key
                                 /\ worker'[v].missing = worker[v].missing
           /\ worker[w].pc = "up"
           /\ UNCHANGED <<backupVars, lock, keyfile, tables, content, faults>>
<1>0. worker \in [Workers -> WorkerStates]
  BY DEF TypeOK, BootTypeOK
<1> QED
  BY <1>0 DEF CreateProduct, DeleteProduct, SweepFiles, Serves, Step, WorkerStates, backupVars

LEMMA ContainerPath ==
    ASSUME TypeOK, StartContainer \/ StopContainer \/ \E w \in Workers : KillWorker(w)
    PROVE  /\ \A v \in Workers : \/ worker'[v] = worker[v]
                                 \/ worker'[v].pc \in {"down", "key"} /\ worker'[v].dir = NoDir
                                    /\ worker'[v].todo = {} /\ worker'[v].sweep = 0
           /\ UNCHANGED <<keyfile, tables, content, rows, files, pid, late>>
           /\ faults' = faults \/ faults' # MaxFaults
<1>0. worker \in [Workers -> WorkerStates]
  BY DEF TypeOK, BootTypeOK
<1>1. CASE StartContainer
  BY <1>0, <1>1 DEF StartContainer, Started, Down
<1>2. CASE StopContainer
  BY <1>0, <1>2 DEF StopContainer, Down
<1>3. ASSUME NEW w \in Workers, KillWorker(w)
      PROVE  /\ \A v \in Workers : \/ worker'[v] = worker[v]
                                   \/ worker'[v].pc = "key" /\ worker'[v].dir = NoDir
                                      /\ worker'[v].todo = {} /\ worker'[v].sweep = 0
             /\ UNCHANGED <<keyfile, tables, content, rows, files, pid, late>>
             /\ faults' # MaxFaults
  BY <1>0, <1>3, BootAssumption DEF KillWorker, Started, Down, Fault, TypeOK, BootTypeOK
<1> QED
  BY <1>1, <1>2, <1>3

-----------------------------------------------------------------------------
(***************************************************************************)
(* One step, invariant by invariant.                                       *)
(***************************************************************************)
LEMMA DrawnStep == ASSUME TypeOK, Drawn, [Next]_vars PROVE Drawn'
<1>1. CASE UNCHANGED vars
  BY <1>1 DEF vars, bootVars, Drawn
<1>2. CASE StartContainer \/ StopContainer \/ \E w \in Workers : KillWorker(w)
  BY <1>2, ContainerPath DEF Drawn
<1>3. ASSUME NEW w \in Workers, BootStep(w) PROVE Drawn'
  BY <1>3, Path DEF Drawn
<1>4. ASSUME NEW w \in Workers, CreateProduct(w) \/ DeleteProduct(w) \/ SweepFiles(w)
      PROVE  Drawn'
  <2>0. worker \in [Workers -> WorkerStates]
    BY DEF TypeOK, BootTypeOK
  <2> QED
    BY <1>4, <2>0 DEF CreateProduct, DeleteProduct, SweepFiles, Serves, Step, Drawn, WorkerStates
<1> QED
  BY <1>1, <1>2, <1>3, <1>4 DEF Next

\* Which steps of a boot change what.
LEMMA Touched ==
    ASSUME NEW w \in Workers, BootStep(w)
    PROVE  /\ lock' = lock \/ TakeLock(w) \/ ReleaseLock(w)
           /\ keyfile' = keyfile \/ TruncateKey(w) \/ WriteKey(w)
           /\ tables' = tables \/ CreateTable(w)
           /\ content' = content \/ AddColumn(w) \/ EnsureContent(w)
           /\ rows' = rows \/ CommitSeed(w)
           /\ faults' = faults \/ AddColumn(w) \/ PutVariant(w)
           /\ UNCHANGED backupVars
<1>1. CASE ReadKey(w)
  BY <1>1 DEF ReadKey, Goto, Step, backupVars
<1>2. CASE TruncateKey(w)
  BY <1>2 DEF TruncateKey, Goto, Step, backupVars
<1>3. CASE WriteKey(w)
  BY <1>3 DEF WriteKey, Goto, Step, backupVars
<1>4. CASE TakeLock(w)
  BY <1>4 DEF TakeLock, Goto, Step, backupVars
<1>5. CASE CheckTables(w)
  BY <1>5 DEF CheckTables, Goto, Step, backupVars
<1>6. CASE CreateTable(w)
  BY <1>6 DEF CreateTable, Goto, Step, backupVars
<1>7. CASE CountProducts(w)
  BY <1>7 DEF CountProducts, Goto, Step, backupVars
<1>8. CASE PublishSeed(w)
  BY <1>8 DEF PublishSeed, Goto, Step, backupVars
<1>9. CASE CommitSeed(w)
  BY <1>9 DEF CommitSeed, Goto, Step, backupVars
<1>10. CASE AddColumn(w)
  BY <1>10 DEF AddColumn, Goto, Step, backupVars
<1>11. CASE ListMedia(w)
  BY <1>11 DEF ListMedia, Goto, Step, backupVars
<1>12. CASE ListFiles(w)
  BY <1>12 DEF ListFiles, Goto, Step, backupVars
<1>13. CASE PickVariant(w)
  BY <1>13 DEF PickVariant, Goto, Step, backupVars
<1>14. CASE PutVariant(w)
  BY <1>14 DEF PutVariant, Goto, Step, backupVars
<1>15. CASE EndPicture(w)
  BY <1>15 DEF EndPicture, Goto, Step, backupVars
<1>16. CASE ReleaseLock(w)
  BY <1>16 DEF ReleaseLock, Goto, Step, backupVars
<1>17. CASE EnsureContent(w)
  BY <1>17 DEF EnsureContent, Goto, Step, backupVars
<1> QED
  BY <1>1, <1>2, <1>3, <1>4, <1>5, <1>6, <1>7, <1>8, <1>9, <1>10, <1>11, <1>12, <1>13, <1>14, <1>15, <1>16, <1>17 DEF BootStep

LEMMA ExclusionStep == ASSUME TypeOK, Exclusion, [Next]_vars PROVE Exclusion'
<1> SUFFICES ASSUME LockPossible PROVE Exclusion'
  BY DEF Exclusion
<1>0. worker \in [Workers -> WorkerStates] /\ lock \in Workers \cup {NoWorker} /\ NoWorker \notin Workers
  BY BootAssumption DEF TypeOK, BootTypeOK
<1>1. CASE UNCHANGED vars
  BY <1>1 DEF vars, bootVars, Exclusion
<1>2. CASE StartContainer
  BY <1>0, <1>2 DEF StartContainer, Started, Down, Exclusion, Schema
<1>3. CASE StopContainer
  BY <1>0, <1>3 DEF StopContainer, Down, Exclusion, Schema
<1>4. ASSUME NEW w \in Workers, KillWorker(w) PROVE Exclusion'
  BY <1>0, <1>4 DEF KillWorker, Started, Down, Exclusion, Schema
<1>5. ASSUME NEW w \in Workers, BootStep(w) PROVE Exclusion'
  <2>1. CASE TakeLock(w)
    BY <1>0, <1>5, <2>1, Path DEF TakeLock, Exclusion, Schema, Moves
  <2>2. CASE ReleaseLock(w)
    BY <1>0, <2>2 DEF ReleaseLock, Goto, Step, Exclusion, Schema, WorkerStates
  <2>3. CASE ~TakeLock(w) /\ ~ReleaseLock(w)
    <3>1. lock' = lock
      BY <1>5, <2>3, Touched
    <3>2. worker[w].pc \in Schema <=> worker'[w].pc \in Schema
      <4>1. worker[w].pc # "lock" /\ (worker[w].pc = "heal" => ListFiles(w))
        BY <1>5, <2>3, Guards DEF BootStep
      <4>2. ListFiles(w) => worker'[w].pc # "content"
        BY <1>0 DEF ListFiles, Step, WorkerStates
      <4> QED
        BY <1>5, <4>1, <4>2, Path DEF Moves, Schema
    <3> QED
      BY <1>0, <1>5, <3>1, <3>2, Path DEF Exclusion
  <2> QED
    BY <2>1, <2>2, <2>3
<1>6. ASSUME NEW w \in Workers, CreateProduct(w) \/ DeleteProduct(w) \/ SweepFiles(w)
      PROVE  Exclusion'
  BY <1>6, OwnerPath DEF Exclusion
<1> QED
  BY <1>1, <1>2, <1>3, <1>4, <1>5, <1>6 DEF Next

LEMMA Alone ==
    ASSUME LockPossible, Exclusion, NEW w \in Workers, worker[w].pc \in Schema,
           NEW v \in Workers \ {w}
    PROVE  worker[v].pc \notin Schema
BY DEF Exclusion

LEMMA SeedStep ==
    ASSUME TypeOK, LockPossible, Exclusion, Drawn, SeedOnEmpty, [Next]_vars
    PROVE  SeedOnEmpty'
<1>0. worker \in [Workers -> WorkerStates] /\ SeedDirs \cap ShopDirs = {}
  BY BootAssumption DEF TypeOK, BootTypeOK
<1>1. CASE UNCHANGED vars
  BY <1>1 DEF vars, bootVars, SeedOnEmpty
<1>2. CASE StartContainer \/ StopContainer \/ \E w \in Workers : KillWorker(w)
  BY <1>2, ContainerPath DEF SeedOnEmpty
<1>3. ASSUME NEW w \in Workers, BootStep(w) PROVE SeedOnEmpty'
  <2>1. CASE CommitSeed(w)
    <3>1. worker[w].pc = "commit" /\ worker'[w].pc = "column" /\ rows' = rows \cup {worker[w].dir}
      BY <1>0, <2>1 DEF CommitSeed, Step, WorkerStates
    <3>2. rows \cap SeedDirs = {}
      BY <3>1 DEF SeedOnEmpty
    <3>3. \A v \in Workers \ {w} : worker'[v].pc \notin {"seed", "commit"}
      BY <1>3, <3>1, Alone, Path DEF Schema
    <3> QED
      BY <3>1, <3>2, <3>3 DEF SeedOnEmpty
  <2>2. CASE CountProducts(w)
    BY <1>0, <2>2 DEF CountProducts, Goto, Step, WorkerStates, SeedOnEmpty
  <2>3. CASE ~CommitSeed(w) /\ ~CountProducts(w)
    <3>1. worker'[w].pc # "seed"
      <4>1. worker[w].pc # "count"
        BY <1>3, <2>3, Guards DEF BootStep
      <4> QED
        BY <1>3, <4>1, Path DEF Moves
    <3>2. worker'[w].pc = "commit" => worker[w].pc = "seed"
      BY <1>3, Path DEF Moves
    <3> QED
      BY <1>3, <2>3, <3>1, <3>2, Path, Touched DEF SeedOnEmpty
  <2> QED
    BY <2>1, <2>2, <2>3
<1>4. ASSUME NEW w \in Workers, CreateProduct(w) \/ DeleteProduct(w) \/ SweepFiles(w)
      PROVE  SeedOnEmpty'
  <2>1. rows' \cap SeedDirs \subseteq rows \cap SeedDirs
    BY <1>0, <1>4 DEF CreateProduct, DeleteProduct, SweepFiles
  <2> QED
    BY <1>4, <2>1, OwnerPath DEF SeedOnEmpty
<1> QED
  BY <1>1, <1>2, <1>3, <1>4 DEF Next

LEMMA TablesStep ==
    ASSUME TypeOK, LockPossible, Exclusion, TablesMade, [Next]_vars
    PROVE  TablesMade'
<1>0. worker \in [Workers -> WorkerStates] /\ tables \in SUBSET Tables
  BY DEF TypeOK, BootTypeOK
<1>1. CASE UNCHANGED vars
  BY <1>1 DEF vars, bootVars, TablesMade
<1>2. CASE StartContainer \/ StopContainer \/ \E w \in Workers : KillWorker(w)
  BY <1>2, ContainerPath DEF TablesMade, AfterTables
<1>3. ASSUME NEW w \in Workers, BootStep(w) PROVE TablesMade'
  <2>1. CASE CheckTables(w)
    BY <1>0, <2>1 DEF CheckTables, Step, WorkerStates, TablesMade, AfterTables
  <2>2. CASE CreateTable(w)
    <3> DEFINE left == worker[w].missing
               next == CHOOSE t \in left : \A u \in left : t <= u
    <3>1. worker[w].pc = "create" /\ left = Tables \ tables
      BY <2>2 DEF CreateTable, TablesMade
    <3>2. left # {} => next \in left
      <4>1. left \in SUBSET Nat
        BY <1>0 DEF WorkerStates, Tables
      <4> HIDE DEF left
      <4>2. left # {} => \E t \in left : \A u \in left : t <= u
        BY <4>1, Least
      <4> QED
        BY <4>2
    <3>3. \/ left = {} /\ tables' = tables /\ worker'[w].pc = "count"
          \/ /\ left # {} /\ tables' = tables \cup {next}
             /\ worker'[w].pc = "create" /\ worker'[w].missing = left \ {next}
      <4> HIDE DEF next
      <4>1. next \in tables => left = {}
        BY <3>1, <3>2
      <4>2. \/ /\ left = {} /\ tables' = tables
               /\ Step(w, [worker[w] EXCEPT !.pc = "count", !.missing = {}])
            \/ /\ left # {} /\ tables' = tables \cup {next}
               /\ Step(w, [worker[w] EXCEPT !.missing = left \ {next}])
        BY <2>2, <4>1 DEF CreateTable, next
      <4> HIDE DEF left
      <4> QED
        BY <1>0, <3>1, <4>2 DEF Step, WorkerStates
    <3>4. \A v \in Workers \ {w} : worker'[v].pc # "create"
      BY <1>3, <3>1, Alone, Path DEF Schema
    <3>5. tables' = Tables \/ tables' = tables \cup {next}
      BY <1>0, <3>1, <3>3
    <3>6. tables' \in SUBSET Tables /\ tables \subseteq tables'
      BY <1>0, <3>1, <3>2, <3>3
    <3> HIDE DEF next, left
    <3>7. worker'[w].pc = "create" => worker'[w].missing = Tables \ tables'
      BY <3>1, <3>3
    <3>8. worker'[w].pc \in AfterTables => tables' = Tables
      BY <1>0, <3>1, <3>3 DEF AfterTables
    <3> QED
      BY <1>3, <3>4, <3>6, <3>7, <3>8, Path DEF TablesMade
  <2>3. CASE ~CheckTables(w) /\ ~CreateTable(w)
    <3>1. worker[w].pc \notin {"tables", "create"}
      BY <1>3, <2>3, Guards DEF BootStep
    <3>2. worker'[w].pc # "create"
          /\ (worker'[w].pc \in AfterTables => worker[w].pc \in AfterTables \cup {"truncate", "write", "key"})
      BY <1>3, <3>1, Path DEF Moves, AfterTables
    <3>3. worker'[w].pc \in AfterTables => worker[w].pc \in AfterTables
      BY <1>3, <3>2, Path DEF Moves, AfterTables
    <3> QED
      BY <1>3, <2>3, <3>2, <3>3, Path, Touched DEF TablesMade
  <2> QED
    BY <2>1, <2>2, <2>3
<1>4. ASSUME NEW w \in Workers, CreateProduct(w) \/ DeleteProduct(w) \/ SweepFiles(w)
      PROVE  TablesMade'
  BY <1>4, OwnerPath DEF TablesMade
<1> QED
  BY <1>1, <1>2, <1>3, <1>4 DEF Next

LEMMA ColumnStep == ASSUME TypeOK, ColumnMade, [Next]_vars PROVE ColumnMade'
<1>0. worker \in [Workers -> WorkerStates] /\ faults \in 0..MaxFaults /\ MaxFaults \in Nat
      /\ content \in {"absent", "old", "complete"}
  BY BootAssumption DEF TypeOK, BootTypeOK
<1>1. CASE UNCHANGED vars
  BY <1>1 DEF vars, bootVars, ColumnMade
<1>2. CASE StartContainer \/ StopContainer \/ \E w \in Workers : KillWorker(w)
  BY <1>2, ContainerPath DEF ColumnMade, AfterColumn
<1>3. ASSUME NEW w \in Workers, BootStep(w) PROVE ColumnMade'
  <2>1. CASE AddColumn(w)
    BY <1>0, <2>1 DEF AddColumn, Fault, Goto, Step, WorkerStates, ColumnMade, AfterColumn
  <2>2. CASE EnsureContent(w)
    BY <1>0, <2>2 DEF EnsureContent, Goto, Step, WorkerStates, ColumnMade, AfterColumn
  <2>3. CASE ~AddColumn(w) /\ ~EnsureContent(w)
    <3>1. worker[w].pc # "column" /\ worker[w].pc # "content"
      BY <1>3, <2>3, Guards DEF BootStep
    <3>2. worker'[w].pc # "up" /\ (worker'[w].pc \in AfterColumn => worker[w].pc \in AfterColumn)
      BY <1>3, <3>1, Path DEF Moves, AfterColumn
    <3>3. faults' = MaxFaults => faults = MaxFaults
      <4>1. faults' = faults \/ Fault
        BY <1>3, <2>3, Touched DEF PutVariant
      <4> QED
        BY <1>0, <4>1 DEF Fault
    <3> QED
      BY <1>3, <2>3, <3>2, <3>3, Path, Touched DEF ColumnMade
  <2> QED
    BY <2>1, <2>2, <2>3
<1>4. ASSUME NEW w \in Workers, CreateProduct(w) \/ DeleteProduct(w) \/ SweepFiles(w)
      PROVE  ColumnMade'
  BY <1>4, OwnerPath DEF ColumnMade
<1> QED
  BY <1>1, <1>2, <1>3, <1>4 DEF Next

\* What the owner does to the directories.
LEMMA OwnerTook ==
    ASSUME TypeOK, NEW w \in Workers, CreateProduct(w) \/ DeleteProduct(w) \/ SweepFiles(w)
    PROVE  \A v \in Workers :
             /\ worker'[v].pc = worker[v].pc /\ worker'[v].dir = worker[v].dir
             /\ worker'[v].todo = worker[v].todo
             /\ v # w => worker'[v] = worker[v]
<1>0. worker \in [Workers -> WorkerStates]
  BY DEF TypeOK, BootTypeOK
<1> QED
  BY <1>0 DEF CreateProduct, DeleteProduct, SweepFiles, Step, WorkerStates

\* A new picture: its directory, its id, and what it leaves alone.
LEMMA Pictured ==
    ASSUME TypeOK, NEW d \in Dirs, NewPicture(d), Unlocked, d \notin rows
    PROVE  /\ files'[d] = PictureFiles /\ pid'[d] # 0
           /\ \A e \in rows : pid'[e] # pid'[d]
           /\ \A v \in Workers : worker[v].sweep = pid'[d] => d \in late'
           /\ \A e \in Dirs \ {d} : /\ files'[e] = files[e] /\ pid'[e] = pid[e]
                                    /\ e \in late' <=> e \in late
           /\ Live = rows
<1>1. PICK n \in 1..MaxId : /\ NextId(n)
                            /\ files' = [files EXCEPT ![d] = PictureFiles]
                            /\ pid' = [pid EXCEPT ![d] = n]
                            /\ late' = IF Pending(n) THEN late \cup {d} ELSE late \ {d}
  BY DEF NewPicture
<1>2. /\ n # 0 /\ pid'[d] = n /\ files'[d] = PictureFiles
      /\ \A e \in Dirs \ {d} : files'[e] = files[e] /\ pid'[e] = pid[e]
  BY <1>1, BootAssumption DEF TypeOK, BootTypeOK
<1>3. \A e \in rows : pid'[e] # n
  <2>1. \A e \in rows : e \in Dirs \ {d} /\ pid[e] \in Nat /\ pid[e] < n
    BY <1>1, BootAssumption DEF NextId, TypeOK, BootTypeOK
  <2> QED
    BY <1>1, <1>2, <2>1
<1>4. /\ \A v \in Workers : worker[v].sweep = n => d \in late'
      /\ \A e \in Dirs \ {d} : e \in late' <=> e \in late
  BY <1>1 DEF Pending
<1>5. Live = rows
  BY DEF Live, Committing, Unlocked
<1> QED
  BY <1>2, <1>3, <1>4, <1>5

\* The directories a boot takes and fills: apart from the seed, which draws a new
\* one, it takes what it has listed, and only adds files.
LEMMA Took ==
    ASSUME TypeOK, NEW w \in Workers, BootStep(w)
    PROVE  /\ worker'[w].dir \in {worker[w].dir, NoDir} \cup worker[w].todo \/ PublishSeed(w)
           /\ worker'[w].todo \subseteq worker[w].todo \cup rows
           /\ (\A d \in Dirs : files[d] \subseteq files'[d]) \/ PublishSeed(w)
           /\ (pid' = pid /\ late' = late) \/ PublishSeed(w)
           /\ worker'[w].sweep = worker[w].sweep
           /\ \/ rows' = rows
              \/ worker[w].pc = "commit" /\ rows' = rows \cup {worker[w].dir}
           /\ worker'[w].pc \notin {"commit", "pick", "put"} =>
                \/ worker'[w].dir = NoDir
                \/ /\ worker[w].pc \notin {"commit", "pick", "put"}
                   /\ worker'[w].dir = worker[w].dir
<1>0. worker \in [Workers -> WorkerStates] /\ files \in [Dirs -> SUBSET PictureFiles]
  BY DEF TypeOK, BootTypeOK
<1>1. CASE ReadKey(w)
  <2>1. worker[w].pc = "key" /\ worker'[w].pc \in {"truncate", "lock"}
        /\ worker'[w].dir = worker[w].dir /\ worker'[w].todo = worker[w].todo
        /\ worker'[w].sweep = worker[w].sweep
    <3>1. worker[w] \in WorkerStates /\ worker[w].pc = "key"
      BY <1>0, <1>1 DEF ReadKey
    <3>2. \/ \E k \in Keys : worker'[w] = [worker[w] EXCEPT !.pc = "truncate", !.key = k]
          \/ worker'[w] = [worker[w] EXCEPT !.pc = "lock", !.key = keyfile]
      BY <1>0, <1>1 DEF ReadKey, Step
    <3> QED
      BY <3>1, <3>2 DEF WorkerStates
  <2>2. rows' = rows /\ files' = files /\ pid' = pid /\ late' = late
    BY <1>1 DEF ReadKey
  <2> QED
    BY <2>1, <2>2
<1>2. CASE TruncateKey(w)
  BY <1>0, <1>2 DEF TruncateKey, Goto, Step, WorkerStates
<1>3. CASE WriteKey(w)
  BY <1>0, <1>3 DEF WriteKey, Goto, Step, WorkerStates
<1>4. CASE TakeLock(w)
  BY <1>0, <1>4 DEF TakeLock, Goto, Step, WorkerStates
<1>5. CASE CheckTables(w)
  BY <1>0, <1>5 DEF CheckTables, Goto, Step, WorkerStates
<1>6. CASE CreateTable(w)
  BY <1>0, <1>6 DEF CreateTable, Goto, Step, WorkerStates
<1>7. CASE CountProducts(w)
  BY <1>0, <1>7 DEF CountProducts, Goto, Step, WorkerStates
<1>8. CASE PublishSeed(w)
  <2>1. worker'[w].pc = "commit" /\ worker'[w].todo = worker[w].todo
        /\ worker'[w].sweep = worker[w].sweep
    BY <1>0, <1>8 DEF PublishSeed, Step, WorkerStates
  <2>2. rows' = rows
    BY <1>8 DEF PublishSeed
  <2> QED
    BY <1>8, <2>1, <2>2
<1>9. CASE CommitSeed(w)
  <2>1. worker'[w].pc = "column"
        /\ worker'[w].dir = NoDir /\ worker'[w].todo = worker[w].todo
        /\ worker'[w].sweep = worker[w].sweep
    BY <1>0, <1>9 DEF CommitSeed, Step, WorkerStates
  <2>2. worker[w].pc = "commit" /\ files' = files /\ rows' = rows \cup {worker[w].dir}
        /\ pid' = pid /\ late' = late
    BY <1>9 DEF CommitSeed
  <2> QED
    BY <2>1, <2>2
<1>10. CASE AddColumn(w)
  BY <1>0, <1>10 DEF AddColumn, Goto, Step, WorkerStates
<1>11. CASE ListMedia(w)
  BY <1>0, <1>11 DEF ListMedia, Goto, Step, WorkerStates
<1>12. CASE ListFiles(w)
  <2>1. PICK d \in worker[w].todo :
          \/ Step(w, [worker[w] EXCEPT !.todo = @ \ {d}])
          \/ Step(w, [worker[w] EXCEPT
                  !.pc = "pick", !.todo = @ \ {d}, !.dir = d, !.names = files[d]])
    BY <1>12 DEF ListFiles
  <2>2. worker[w].pc = "heal" /\ files' = files /\ rows' = rows /\ pid' = pid /\ late' = late
    BY <1>12 DEF ListFiles
  <2>3. CASE Step(w, [worker[w] EXCEPT !.todo = @ \ {d}])
    <3>1. worker'[w].todo = worker[w].todo \ {d} /\ worker'[w].pc = worker[w].pc
          /\ worker'[w].dir = worker[w].dir /\ worker'[w].sweep = worker[w].sweep
      BY <1>0, <2>3 DEF Step, WorkerStates
    <3> QED
      BY <2>2, <3>1
  <2>4. CASE Step(w, [worker[w] EXCEPT
                  !.pc = "pick", !.todo = @ \ {d}, !.dir = d, !.names = files[d]])
    <3>1. worker'[w].todo = worker[w].todo \ {d} /\ worker'[w].pc = "pick"
          /\ worker'[w].dir = d /\ worker'[w].sweep = worker[w].sweep
      BY <1>0, <2>4 DEF Step, WorkerStates
    <3> QED
      BY <2>2, <3>1
  <2> QED
    BY <2>1, <2>3, <2>4
<1>13. CASE PickVariant(w)
  BY <1>0, <1>13 DEF PickVariant, Goto, Step, WorkerStates
<1>14. CASE PutVariant(w)
  BY <1>0, <1>14 DEF PutVariant, Goto, Step, WorkerStates
<1>15. CASE EndPicture(w)
  <2>1. worker'[w].pc = "heal" /\ worker'[w].dir = NoDir /\ worker'[w].todo = worker[w].todo
        /\ worker'[w].sweep = worker[w].sweep
    BY <1>0, <1>15 DEF EndPicture, Step, WorkerStates
  <2>2. files' = files /\ rows' = rows /\ pid' = pid /\ late' = late
    BY <1>15 DEF EndPicture
  <2> QED
    BY <2>1, <2>2
<1>16. CASE ReleaseLock(w)
  BY <1>0, <1>16 DEF ReleaseLock, Goto, Step, WorkerStates
<1>17. CASE EnsureContent(w)
  BY <1>0, <1>17 DEF EnsureContent, Goto, Step, WorkerStates
<1> QED
  BY <1>1, <1>2, <1>3, <1>4, <1>5, <1>6, <1>7, <1>8, <1>9, <1>10, <1>11, <1>12, <1>13, <1>14, <1>15, <1>16, <1>17 DEF BootStep

\* What a step does to the pictures that count: it makes a new one, deletes one,
\* sweeps an id, or leaves them their ids and files.
Drew(d) ==
    /\ Unused(d) /\ Unlocked /\ NewPicture(d)
    /\ Live' = rows \cup {d}
    /\ \A v \in Workers : worker'[v].sweep = worker[v].sweep
Deleted(w, d) ==
    /\ Unlocked /\ Live' = rows \ {d}
    /\ files' = files /\ pid' = pid /\ late' = late \ {d}
    /\ worker'[w].sweep = pid[d]
    /\ \A v \in Workers \ {w} : worker'[v].sweep = worker[v].sweep
Sweeps(w) ==
    /\ worker[w].sweep # 0 /\ files' = Without(worker[w].sweep)
    /\ Live' = Live /\ pid' = pid /\ late' = late
    /\ \A v \in Workers : worker'[v].sweep \in {worker[v].sweep, 0}
Quiet ==
    /\ Live' \subseteq Live /\ pid' = pid /\ late' = late
    /\ \A d \in Dirs : files[d] \subseteq files'[d]
    /\ \A v \in Workers : worker'[v].sweep \in {worker[v].sweep, 0}
Effect ==
    \/ \E d \in Dirs : Drew(d)
    \/ \E w \in Workers, d \in rows : Deleted(w, d)
    \/ \E w \in Workers : Sweeps(w)
    \/ Quiet

LEMMA BootEffect == ASSUME TypeOK, Drawn, NEW w \in Workers, BootStep(w) PROVE Effect
<1>0. worker \in [Workers -> WorkerStates]
  BY DEF TypeOK, BootTypeOK
<1>1. CASE PublishSeed(w)
  <2>1. PICK d \in SeedDirs : /\ Unused(d) /\ NewPicture(d)
                              /\ Step(w, [worker[w] EXCEPT !.pc = "commit", !.dir = d])
    BY <1>1 DEF PublishSeed
  <2>2. worker'[w].pc = "commit" /\ worker'[w].dir = d /\ worker'[w].sweep = worker[w].sweep
    BY <1>0, <2>1 DEF Step, WorkerStates
  <2>3. Unlocked /\ rows' = rows
    BY <1>1 DEF PublishSeed
  <2>4. Live' = rows \cup {d}
    <3>1. Committing' = {w}
      BY <1>1, <2>2, <2>3, Path DEF Committing, Unlocked
    <3> QED
      BY <2>2, <2>3, <3>1 DEF Live
  <2>5. \A v \in Workers : worker'[v].sweep = worker[v].sweep
    BY <1>1, <2>2, Path
  <2> QED
    BY <2>1, <2>3, <2>4, <2>5 DEF Effect, Drew, Dirs
<1>2. CASE ~PublishSeed(w)
  <2>1. /\ \A d \in Dirs : files[d] \subseteq files'[d]
        /\ pid' = pid /\ late' = late
        /\ \A v \in Workers : worker'[v].sweep \in {worker[v].sweep, 0}
    BY <1>2, Took, Path
  <2>2. worker'[w].pc # "commit"
    <3>1. worker[w].pc # "seed"
      BY <1>2, Guards DEF BootStep
    <3> QED
      BY <3>1, Path DEF Moves
  <2>3. rows' \subseteq Live
    BY Took DEF Live, Committing
  <2>4. \A v \in Committing' : v \in Committing /\ worker'[v].dir = worker[v].dir
    BY <2>2, Path DEF Committing
  <2>5. Live' \subseteq Live
    BY <2>3, <2>4 DEF Live
  <2> QED
    BY <2>1, <2>5 DEF Effect, Quiet
<1> QED
  BY <1>1, <1>2

LEMMA OwnerEffect ==
    ASSUME TypeOK, NEW w \in Workers, CreateProduct(w) \/ DeleteProduct(w) \/ SweepFiles(w)
    PROVE  Effect
<1>0. worker \in [Workers -> WorkerStates]
  BY DEF TypeOK, BootTypeOK
<1>1. Committing' = Committing /\ \A v \in Workers : worker'[v].dir = worker[v].dir
  BY OwnerTook DEF Committing
<1>2. CASE CreateProduct(w)
  <2>1. PICK d \in ShopDirs : Unused(d) /\ NewPicture(d) /\ rows' = rows \cup {d}
    BY <1>2 DEF CreateProduct
  <2>2. Unlocked /\ worker' = worker
    BY <1>2 DEF CreateProduct
  <2>3. Live' = rows \cup {d}
    BY <1>1, <2>1, <2>2 DEF Live, Committing, Unlocked
  <2> QED
    BY <2>1, <2>2, <2>3 DEF Effect, Drew, Dirs
<1>3. CASE DeleteProduct(w)
  <2>1. PICK d \in rows : /\ rows' = rows \ {d} /\ late' = late \ {d}
                          /\ Step(w, [worker[w] EXCEPT !.sweep = pid[d]])
    BY <1>3 DEF DeleteProduct
  <2>2. Unlocked /\ files' = files /\ pid' = pid
    BY <1>3 DEF DeleteProduct
  <2>3. worker'[w].sweep = pid[d] /\ \A v \in Workers \ {w} : worker'[v].sweep = worker[v].sweep
    BY <1>0, <2>1 DEF Step, WorkerStates
  <2>4. Live' = rows \ {d}
    BY <1>1, <2>1, <2>2 DEF Live, Committing, Unlocked
  <2> QED
    BY <2>1, <2>2, <2>3, <2>4 DEF Effect, Deleted
<1>4. CASE SweepFiles(w)
  <2>1. /\ worker[w].sweep # 0 /\ files' = Without(worker[w].sweep)
        /\ pid' = pid /\ late' = late /\ rows' = rows
    BY <1>4 DEF SweepFiles
  <2>2. \A v \in Workers : worker'[v].sweep \in {worker[v].sweep, 0}
    BY <1>0, <1>4 DEF SweepFiles, Step, WorkerStates
  <2>3. Live' = Live
    BY <1>1, <2>1 DEF Live, Committing
  <2> QED
    BY <2>1, <2>2, <2>3 DEF Effect, Sweeps
<1> QED
  BY <1>2, <1>3, <1>4

LEMMA Effects == ASSUME TypeOK, Drawn, [Next]_vars PROVE Effect
<1>1. CASE UNCHANGED vars
  <2>1. Live' = Live
    BY <1>1 DEF vars, bootVars, Live, Committing
  <2> QED
    BY <1>1, <2>1 DEF vars, bootVars, Effect, Quiet
<1>2. CASE StartContainer \/ StopContainer \/ \E w \in Workers : KillWorker(w)
  <2>1. \A v \in Committing' : v \in Committing /\ worker'[v].dir = worker[v].dir
    BY <1>2, ContainerPath DEF Committing
  <2>2. Live' \subseteq Live
    BY <1>2, <2>1, ContainerPath DEF Live
  <2> QED
    BY <1>2, <2>2, ContainerPath DEF Effect, Quiet
<1>3. ASSUME NEW w \in Workers, BootStep(w) PROVE Effect
  BY <1>3, BootEffect
<1>4. ASSUME NEW w \in Workers, CreateProduct(w) \/ DeleteProduct(w) \/ SweepFiles(w)
      PROVE  Effect
  BY <1>4, OwnerEffect
<1> QED
  BY <1>1, <1>2, <1>3, <1>4 DEF Next

LEMMA LiveDirs == ASSUME TypeOK, Drawn PROVE Live \subseteq Dirs
BY DEF TypeOK, BootTypeOK, Drawn, Live, Committing, Dirs

\* A product's id is given to no other picture, ...
LEMMA OwnIdsStep == ASSUME TypeOK, Drawn, Custody, [Next]_vars PROVE OwnIds'
<1>0. Live \subseteq Dirs /\ OwnIds
  BY LiveDirs DEF Custody
<1>1. ASSUME NEW d \in Dirs, Drew(d) PROVE OwnIds'
  <2>1. /\ \A e \in rows : pid'[e] # pid'[d] /\ e # d
        /\ \A e \in Dirs \ {d} : pid'[e] = pid[e]
        /\ Live = rows /\ Live' = rows \cup {d}
    BY <1>1, Pictured DEF Drew, Unused
  <2> QED
    BY <1>0, <2>1 DEF OwnIds
<1>2. ASSUME NEW w \in Workers, NEW d \in rows, Deleted(w, d) PROVE OwnIds'
  BY <1>0, <1>2 DEF Deleted, OwnIds, Live
<1>3. CASE Quiet \/ \E w \in Workers : Sweeps(w)
  BY <1>0, <1>3 DEF Quiet, Sweeps, OwnIds
<1> QED
  BY <1>1, <1>2, <1>3, Effects DEF Effect

\* ... no sweep is after a picture but its own product's and the late ones, ...
LEMMA SweepSafeStep == ASSUME TypeOK, Drawn, Custody, [Next]_vars PROVE SweepSafe'
<1>0. Live \subseteq Dirs /\ OwnIds /\ SweepSafe
  BY LiveDirs DEF Custody
<1>1. ASSUME NEW d \in Dirs, Drew(d) PROVE SweepSafe'
  <2>1. /\ \A v \in Workers : worker[v].sweep = pid'[d] => d \in late'
        /\ \A e \in rows : e # d
        /\ \A e \in Dirs \ {d} : pid'[e] = pid[e] /\ (e \in late' <=> e \in late)
        /\ Live = rows /\ Live' = rows \cup {d}
        /\ \A v \in Workers : worker'[v].sweep = worker[v].sweep
    BY <1>1, Pictured DEF Drew, Unused
  <2> QED
    BY <1>0, <2>1 DEF SweepSafe
<1>2. ASSUME NEW w \in Workers, NEW d \in rows, Deleted(w, d) PROVE SweepSafe'
  <2>1. \A e \in Live' : e \in Live /\ e # d /\ pid[e] # pid[d] /\ (e \in late' <=> e \in late)
    BY <1>0, <1>2 DEF Deleted, OwnIds, Live
  <2> QED
    BY <1>0, <1>2, <2>1 DEF Deleted, SweepSafe
<1>3. CASE Quiet \/ \E w \in Workers : Sweeps(w)
  BY <1>0, <1>3 DEF Quiet, Sweeps, SweepSafe
<1> QED
  BY <1>1, <1>2, <1>3, Effects DEF Effect

\* ... so what is not late keeps its files, and what is new has them all.
LEMMA LiveKept ==
    ASSUME TypeOK, Drawn, Custody, [Next]_vars, NEW d \in Live', d \notin late'
    PROVE  \/ d \in Live /\ d \notin late /\ files[d] \subseteq files'[d]
           \/ Unused(d) /\ PictureFiles \subseteq files'[d]
<1>0. Live \subseteq Dirs /\ SweepSafe
  BY LiveDirs DEF Custody
<1>1. ASSUME NEW e \in Dirs, Drew(e)
      PROVE  \/ d \in Live /\ d \notin late /\ files[d] \subseteq files'[d]
             \/ Unused(d) /\ PictureFiles \subseteq files'[d]
  <2>1. /\ files'[e] = PictureFiles /\ Live = rows /\ Live' = rows \cup {e} /\ Unused(e)
        /\ \A x \in Dirs \ {e} : files'[x] = files[x] /\ (x \in late' <=> x \in late)
    BY <1>1, Pictured DEF Drew, Unused
  <2> QED
    BY <1>0, <2>1
<1>2. ASSUME NEW w \in Workers, NEW e \in rows, Deleted(w, e)
      PROVE  d \in Live /\ d \notin late /\ files[d] \subseteq files'[d]
  BY <1>2 DEF Deleted, Live
<1>3. ASSUME NEW w \in Workers, Sweeps(w)
      PROVE  d \in Live /\ d \notin late /\ files[d] \subseteq files'[d]
  <2>1. d \in Live /\ d \notin late /\ pid[d] # worker[w].sweep
    BY <1>0, <1>3 DEF Sweeps, SweepSafe
  <2> QED
    BY <1>0, <1>3, <2>1 DEF Sweeps, Without
<1>4. CASE Quiet
  BY <1>0, <1>4 DEF Quiet
<1> QED
  BY <1>1, <1>2, <1>3, <1>4, Effects DEF Effect

LEMMA CommitSafeStep == ASSUME TypeOK, Drawn, Custody, [Next]_vars PROVE CommitSafe'
<1>0. worker \in [Workers -> WorkerStates] /\ SeedDirs \subseteq Dirs /\ NoDir \notin Dirs
  BY BootAssumption DEF TypeOK, BootTypeOK, Dirs
<1> SUFFICES ASSUME NEW x \in Committing'
             PROVE  /\ worker'[x].dir \notin rows'
                    /\ worker'[x].dir \in late' \/ PictureFiles \subseteq files'[worker'[x].dir]
                    /\ \A v \in Workers \ {x} :
                         /\ worker'[v].pc # "commit" /\ worker'[v].dir # worker'[x].dir
                         /\ worker'[x].dir \notin worker'[v].todo
  BY DEF CommitSafe, Committing
<1> DEFINE d == worker'[x].dir
<1>1. x \in Workers /\ worker'[x].pc = "commit" /\ d \in Live' /\ d \in SeedDirs
  BY DrawnStep DEF Committing, Live, Drawn
<1>2. ASSUME NEW v \in Workers, v # x, x \in Committing
      PROVE  /\ worker[x].dir \notin rows /\ worker[v].pc # "commit"
             /\ worker[v].dir # worker[x].dir /\ worker[x].dir \notin worker[v].todo
  BY <1>2 DEF Custody, CommitSafe, Committing
<1>3. ASSUME x \in Committing, worker[x].dir = d
      PROVE  d \in late' \/ PictureFiles \subseteq files'[d]
  <2>1. d \in late \/ PictureFiles \subseteq files[d]
    BY <1>3 DEF Custody, CommitSafe
  <2> QED
    BY <1>1, <2>1, LiveKept
<1>4. CASE UNCHANGED vars
  BY <1>4 DEF vars, bootVars, Custody, CommitSafe, Committing
<1>5. CASE StartContainer \/ StopContainer \/ \E w \in Workers : KillWorker(w)
  <2>1. worker'[x] = worker[x] /\ x \in Committing /\ rows' = rows
    BY <1>1, <1>5, ContainerPath DEF Committing
  <2>2. d \notin rows
    BY <2>1 DEF Custody, CommitSafe
  <2>3. \A v \in Workers \ {x} : \/ worker'[v] = worker[v]
                                 \/ /\ worker'[v].pc # "commit" /\ worker'[v].dir = NoDir
                                    /\ worker'[v].todo = {}
    BY <1>5, ContainerPath
  <2> QED
    BY <1>0, <1>1, <1>2, <1>3, <2>1, <2>2, <2>3
<1>6. ASSUME NEW w \in Workers, BootStep(w)
      PROVE  /\ d \notin rows' /\ (d \in late' \/ PictureFiles \subseteq files'[d])
             /\ \A v \in Workers \ {x} :
                  worker'[v].pc # "commit" /\ worker'[v].dir # d /\ d \notin worker'[v].todo
  <2>1. CASE x = w
    <3>1. PublishSeed(w)
      BY <1>1, <1>6, <2>1, Path, Guards DEF BootStep, Moves
    <3>2. PICK e \in SeedDirs : /\ Unused(e) /\ NewPicture(e)
                                /\ Step(w, [worker[w] EXCEPT !.pc = "commit", !.dir = e])
      BY <3>1 DEF PublishSeed
    <3>3. Unlocked /\ rows' = rows
      BY <3>1 DEF PublishSeed
    <3>4. e = d
      BY <1>0, <2>1, <3>2 DEF Step, WorkerStates
    <3>5. files'[d] = PictureFiles
      BY <1>0, <3>2, <3>3, <3>4, Pictured DEF Unused
    <3>6. \A v \in Workers \ {x} : worker'[v] = worker[v] /\ worker[v].pc # "commit"
      BY <1>6, <2>1, <3>3, Path DEF Unlocked
    <3> QED
      BY <3>2, <3>3, <3>4, <3>5, <3>6 DEF Unused
  <2>2. CASE x # w
    <3>1. worker'[x] = worker[x] /\ x \in Committing
      BY <1>1, <1>6, <2>2, Path DEF Committing
    <3>2. ~PublishSeed(w) /\ worker[w].pc # "commit"
      BY <1>2, <2>2, <3>1 DEF PublishSeed, Unlocked, Committing
    <3>3. rows' = rows /\ d \notin rows
      BY <1>2, <1>6, <2>2, <3>1, <3>2, Took
    <3>4. worker'[w].dir # d /\ d \notin worker'[w].todo
      <4>1. d # NoDir /\ worker[w].dir # d /\ d \notin worker[w].todo
        BY <1>0, <1>1, <1>2, <2>2, <3>1
      <4> QED
        BY <1>6, <3>2, <3>3, <4>1, Took
    <3>5. worker'[w].pc # "commit"
      <4>1. worker[w].pc # "seed"
        BY <1>6, <3>2, Guards DEF BootStep
      <4> QED
        BY <1>6, <4>1, Path DEF Moves
    <3>6. \A v \in Workers \ {x, w} : worker'[v] = worker[v]
      BY <1>6, Path
    <3> QED
      BY <1>2, <1>3, <3>1, <3>3, <3>4, <3>5, <3>6
  <2> QED
    BY <2>1, <2>2
<1>7. ASSUME NEW w \in Workers, CreateProduct(w) \/ DeleteProduct(w) \/ SweepFiles(w)
      PROVE  /\ d \notin rows' /\ (d \in late' \/ PictureFiles \subseteq files'[d])
             /\ \A v \in Workers \ {x} :
                  worker'[v].pc # "commit" /\ worker'[v].dir # d /\ d \notin worker'[v].todo
  <2>1. \A v \in Workers : /\ worker'[v].pc = worker[v].pc /\ worker'[v].dir = worker[v].dir
                           /\ worker'[v].todo = worker[v].todo
    BY <1>7, OwnerTook
  <2>2. x \in Committing /\ worker[x].dir = d
    BY <1>1, <2>1 DEF Committing
  <2>3. rows' = rows /\ d \notin rows
    <3>1. ~Unlocked
      BY <2>2 DEF Unlocked, Committing
    <3>2. rows' = rows
      BY <1>7, <3>1 DEF CreateProduct, DeleteProduct, SweepFiles
    <3> QED
      BY <2>2, <3>2 DEF Custody, CommitSafe
  <2> QED
    BY <1>2, <1>3, <2>1, <2>2, <2>3
<1> QED
  BY <1>4, <1>5, <1>6, <1>7 DEF Next

LEMMA EmptyHandedStep == ASSUME TypeOK, Custody, [Next]_vars PROVE EmptyHanded'
<1>1. CASE UNCHANGED vars
  BY <1>1 DEF vars, bootVars, Custody, EmptyHanded
<1>2. CASE StartContainer \/ StopContainer \/ \E w \in Workers : KillWorker(w)
  BY <1>2, ContainerPath DEF Custody, EmptyHanded
<1>3. ASSUME NEW w \in Workers, BootStep(w) PROVE EmptyHanded'
  BY <1>3, Path, Took DEF Custody, EmptyHanded
<1>4. ASSUME NEW w \in Workers, CreateProduct(w) \/ DeleteProduct(w) \/ SweepFiles(w)
      PROVE  EmptyHanded'
  BY <1>4, OwnerTook DEF Custody, EmptyHanded
<1> QED
  BY <1>1, <1>2, <1>3, <1>4 DEF Next

\* A file of a listed product stays, and a product is listed with all its files.
LEMMA FilesKept ==
    ASSUME TypeOK, Drawn, Custody, [Next]_vars, NEW d \in Sound'
    PROVE  \/ d \in Sound /\ files[d] \subseteq files'[d]
           \/ d \notin rows /\ PictureFiles \subseteq files'[d]
              /\ \A v \in Workers : worker[v].dir = d => worker[v].pc = "commit"
<1>1. d \in Live' /\ d \notin late'
  BY DEF Sound, Live
<1>2. CASE Unused(d) /\ PictureFiles \subseteq files'[d]
  BY <1>2 DEF Unused
<1>3. CASE d \in Live /\ d \notin late /\ files[d] \subseteq files'[d]
  <2>1. CASE d \in rows
    BY <1>3, <2>1 DEF Sound
  <2>2. CASE d \notin rows
    <3>1. PICK w \in Committing : worker[w].dir = d
      BY <1>3, <2>2 DEF Live
    <3>2. /\ PictureFiles \subseteq files[d]
          /\ \A v \in Workers \ {w} : worker[v].dir # d
      BY <1>3, <3>1 DEF Custody, CommitSafe
    <3> QED
      BY <1>3, <2>2, <3>1, <3>2 DEF Committing
  <2> QED
    BY <2>1, <2>2
<1> QED
  BY <1>1, <1>2, <1>3, LiveKept

LEMMA CustodyStep == ASSUME TypeOK, Drawn, Custody, [Next]_vars PROVE Custody'
<1>1. HasJpgs'
  BY FilesKept DEF HasJpgs, Custody, PictureFiles
<1> QED
  BY <1>1, CommitSafeStep, EmptyHandedStep, OwnIdsStep, SweepSafeStep DEF Custody

\* Nobody else's step undoes what a worker has healed.
LEMMA HealingKept ==
    ASSUME TypeOK, Drawn, Custody, [Next]_vars, NEW v \in Workers, Healing(v),
           \/ worker'[v] = worker[v]
           \/ worker[v].pc = "up" /\ worker'[v].pc = "up"
    PROVE  Healing(v)'
<1>1. ASSUME NEW d \in Sound', worker[v].dir = d, worker[v].pc \in {"pick", "put"}
      PROVE  d \in Sound /\ files[d] \subseteq files'[d]
  BY <1>1, FilesKept
<1>2. HandTrue(v)'
  BY <1>1 DEF HandTrue, Healing
<1>3. ASSUME NEW d \in Sound'
      PROVE  \/ d \in Sound /\ files[d] \subseteq files'[d]
             \/ PictureFiles \subseteq files'[d]
  BY FilesKept
<1>4. RestHealed(v)'
  BY <1>3 DEF RestHealed, Healing
<1>5. AllHealed(v)'
  BY <1>3 DEF AllHealed, Healing
<1> QED
  BY <1>2, <1>4, <1>5 DEF Healing

LEMMA HealingStep ==
    ASSUME TypeOK, Drawn, Custody, NEW w \in Workers, BootStep(w), Healing(w), faults' = MaxFaults
    PROVE  Healing(w)'
<1>0. /\ worker \in [Workers -> WorkerStates] /\ files \in [Dirs -> SUBSET PictureFiles]
      /\ Sound \subseteq rows /\ rows \in SUBSET Dirs /\ JpgFiles # {}
      /\ \A d \in Sound : JpgFiles \subseteq files[d]
  <2>1. PICK x \in Widths : TRUE
    BY BootAssumption
  <2>2. <<"jpg", x>> \in JpgFiles
    BY <2>1 DEF JpgFiles
  <2> QED
    BY <2>2 DEF TypeOK, BootTypeOK, Custody, HasJpgs, Sound
<1>1. CASE worker'[w].pc \notin {"heal", "pick", "put", "content", "up"}
  BY <1>1 DEF Healing, HandTrue, RestHealed, AllHealed
<1>2. CASE ListMedia(w)
  <2>1. worker'[w].pc = "heal" /\ worker'[w].todo = rows
    BY <1>0, <1>2 DEF ListMedia, Step, WorkerStates
  <2>2. Sound' = Sound
    BY <1>2 DEF ListMedia, Sound
  <2> QED
    BY <1>0, <2>1, <2>2 DEF Healing, HandTrue, RestHealed, AllHealed
<1>3. CASE ListFiles(w)
  <2>1. PICK d \in worker[w].todo :
          IF files[d] \cap JpgFiles = {}
          THEN Step(w, [worker[w] EXCEPT !.todo = @ \ {d}])
          ELSE Step(w, [worker[w] EXCEPT
                   !.pc = "pick", !.todo = @ \ {d}, !.dir = d, !.names = files[d]])
    BY <1>3 DEF ListFiles, Sound
  <2>2. worker[w].pc = "heal" /\ files' = files /\ Sound' = Sound
    BY <1>3 DEF ListFiles, Sound
  <2>3. CASE files[d] \cap JpgFiles = {}
    <3>1. d \notin Sound
      BY <1>0, <2>3
    <3>2. worker'[w].pc = "heal" /\ worker'[w].todo = worker[w].todo \ {d}
      BY <1>0, <2>1, <2>2, <2>3 DEF Step, WorkerStates
    <3> QED
      BY <2>2, <3>1, <3>2 DEF Healing, HandTrue, RestHealed, AllHealed
  <2>4. CASE files[d] \cap JpgFiles # {}
    <3>1. /\ worker'[w].pc = "pick" /\ worker'[w].todo = worker[w].todo \ {d}
          /\ worker'[w].dir = d /\ worker'[w].names = files[d]
      BY <1>0, <2>1, <2>2, <2>4 DEF Step, WorkerStates
    <3> QED
      BY <1>0, <2>2, <3>1 DEF Healing, HandTrue, RestHealed, AllHealed
  <2> QED
    BY <2>3, <2>4
<1>4. CASE PickVariant(w)
  <2> DEFINE dir == worker[w].dir
  <2>1. PICK f \in Lacking(w) :
          Step(w, [worker[w] EXCEPT
              !.pc = IF f = OgFile \/ <<"jpg", f[2]>> \in files[dir] THEN "put" ELSE "pick",
              !.making = f, !.names = @ \cup {f}])
    BY <1>4 DEF PickVariant
  <2>2. worker[w].pc = "pick" /\ files' = files /\ Sound' = Sound
    BY <1>4 DEF PickVariant, Sound
  <2>3. /\ worker'[w].pc = IF f = OgFile \/ <<"jpg", f[2]>> \in files[dir] THEN "put" ELSE "pick"
        /\ worker'[w].making = f /\ worker'[w].names = worker[w].names \cup {f}
        /\ worker'[w].dir = dir /\ worker'[w].todo = worker[w].todo
    BY <1>0, <2>1 DEF Step, WorkerStates
  <2>4. f = OgFile \/ <<"jpg", f[2]>> \in JpgFiles
    BY <2>1 DEF Lacking, Derived, JpgFiles
  <2>5. dir \in Sound => worker'[w].pc = "put"
    BY <1>0, <2>3, <2>4
  <2> HIDE DEF dir
  <2> QED
    BY <2>2, <2>3, <2>5 DEF Healing, HandTrue, RestHealed, AllHealed, dir
<1>5. CASE PutVariant(w)
  <2>1. worker[w].pc = "put" /\ Sound' = Sound
    BY <1>5 DEF PutVariant, Sound
  <2>2. files' = [files EXCEPT ![worker[w].dir] = @ \cup {worker[w].making}]
    BY <1>5, BootAssumption DEF PutVariant, Fault, TypeOK, BootTypeOK
  <2>3. /\ worker'[w].pc = "pick" /\ worker'[w].dir = worker[w].dir
        /\ worker'[w].names = worker[w].names /\ worker'[w].todo = worker[w].todo
    BY <1>0, <1>5 DEF PutVariant, Step, WorkerStates
  <2>4. \A d \in Sound : files[d] \subseteq files'[d]
    BY <1>0, <2>2
  <2>5. worker[w].dir \in Sound => worker[w].making \in files'[worker[w].dir]
    BY <1>0, <2>2
  <2>6. HandTrue(w)'
    BY <2>1, <2>3, <2>4, <2>5 DEF Healing, HandTrue
  <2>7. RestHealed(w)'
    BY <2>1, <2>3, <2>4 DEF Healing, RestHealed
  <2> QED
    BY <2>3, <2>6, <2>7 DEF Healing, AllHealed
<1>6. CASE EndPicture(w)
  <2>1. worker[w].pc = "pick" /\ Sound' = Sound /\ files' = files /\ Lacking(w) = {}
    BY <1>6 DEF EndPicture, Sound
  <2>2. worker'[w].pc = "heal" /\ worker'[w].todo = worker[w].todo
    BY <1>0, <1>6 DEF EndPicture, Step, WorkerStates
  <2>3. ASSUME worker[w].dir \in Sound PROVE PictureFiles \subseteq files[worker[w].dir]
    <3>1. JpgFiles \subseteq worker[w].names /\ worker[w].names \subseteq files[worker[w].dir]
      BY <2>1, <2>3 DEF Healing, HandTrue
    <3>2. Derived(worker[w].names) \subseteq worker[w].names
      BY <2>1 DEF Lacking
    <3>3. OgFile \in worker[w].names
      BY <3>2 DEF Derived
    <3>4. ASSUME NEW x \in Widths PROVE <<"avif", x>> \in worker[w].names
      <4>1. <<"jpg", x>> \in worker[w].names \cap JpgFiles
        BY <3>1 DEF JpgFiles
      <4>2. <<"avif", <<"jpg", x>>[2]>> \in Derived(worker[w].names)
        BY <4>1 DEF Derived
      <4> QED
        BY <3>2, <4>2
    <3>5. AvifFiles \subseteq worker[w].names
      BY <3>4 DEF AvifFiles
    <3> QED
      BY <3>1, <3>3, <3>5 DEF PictureFiles
  <2> QED
    BY <2>1, <2>2, <2>3 DEF Healing, HandTrue, RestHealed, AllHealed
<1>7. CASE ReleaseLock(w)
  <2>1. worker[w].pc = "heal" /\ worker[w].todo = {} /\ Sound' = Sound /\ files' = files
    BY <1>7 DEF ReleaseLock, Sound
  <2>2. worker'[w].pc = "content"
    BY <1>0, <1>7 DEF ReleaseLock, Goto, Step, WorkerStates
  <2> QED
    BY <2>1, <2>2 DEF Healing, HandTrue, RestHealed, AllHealed
<1>8. CASE EnsureContent(w)
  <2>1. worker[w].pc = "content" /\ Sound' = Sound /\ files' = files
    BY <1>8 DEF EnsureContent, Sound
  <2>2. worker'[w].pc = "up"
    BY <1>0, <1>8 DEF EnsureContent, Goto, Step, WorkerStates
  <2> QED
    BY <2>1, <2>2 DEF Healing, HandTrue, RestHealed, AllHealed
<1>9. CASE /\ ~ListMedia(w) /\ ~ListFiles(w) /\ ~PickVariant(w) /\ ~PutVariant(w)
           /\ ~EndPicture(w) /\ ~ReleaseLock(w) /\ ~EnsureContent(w)
  <2>1. worker[w].pc \notin {"list", "heal", "pick", "put", "content"}
    BY <1>9, Guards DEF BootStep
  <2>2. worker'[w].pc \notin {"heal", "pick", "put", "content", "up"}
    BY <2>1, Path DEF Moves
  <2> QED
    BY <1>1, <2>2
<1> QED
  BY <1>2, <1>3, <1>4, <1>5, <1>6, <1>7, <1>8, <1>9

LEMMA HealProgressStep ==
    ASSUME TypeOK, Drawn, Custody, HealProgress, [Next]_vars
    PROVE  HealProgress'
<1> SUFFICES ASSUME faults' = MaxFaults, NEW v \in Workers PROVE Healing(v)'
  BY DEF HealProgress
<1>0. faults \in 0..MaxFaults /\ MaxFaults \in Nat
  BY BootAssumption DEF TypeOK, BootTypeOK
<1>1. CASE UNCHANGED vars
  BY <1>1, HealingKept DEF vars, bootVars, HealProgress
<1>2. CASE StartContainer \/ StopContainer \/ \E w \in Workers : KillWorker(w)
  <2>1. faults = MaxFaults
    BY <1>2, ContainerPath DEF StartContainer, StopContainer, KillWorker, Fault
  <2>2. CASE worker'[v] = worker[v]
    BY <2>1, <2>2, HealingKept DEF HealProgress
  <2>3. CASE worker'[v].pc \in {"down", "key"}
    BY <2>3 DEF Healing, HandTrue, RestHealed, AllHealed
  <2> QED
    BY <1>2, <2>2, <2>3, ContainerPath
<1>3. ASSUME NEW w \in Workers, BootStep(w) PROVE Healing(v)'
  <2>1. faults = MaxFaults
    <3>1. faults' = faults \/ Fault
      BY <1>3, Touched DEF AddColumn, PutVariant
    <3> QED
      BY <1>0, <3>1 DEF Fault
  <2> QED
    BY <1>3, <2>1, HealingStep, HealingKept, Path DEF HealProgress
<1>4. ASSUME NEW w \in Workers, CreateProduct(w) \/ DeleteProduct(w) \/ SweepFiles(w)
      PROVE  Healing(v)'
  BY <1>4, OwnerTook, OwnerPath, HealingKept DEF HealProgress
<1> QED
  BY <1>1, <1>2, <1>3, <1>4 DEF Next

-----------------------------------------------------------------------------
(***************************************************************************)
(* The snapshots.                                                          *)
(***************************************************************************)
\* Stamps number the files: those newer than n are at most m - n.
LEMMA NewerThan ==
    ASSUME NEW S \in SUBSET Files, NEW n \in Int, NEW m \in Int, n <= m,
           \A f \in S : f.stamp <= m,
           \A f, g \in S : f.stamp = g.stamp => f = g
    PROVE  /\ Cardinality({g \in S : g.stamp > n}) \in Nat
           /\ Cardinality({g \in S : g.stamp > n}) <= m - n
<1> DEFINE newer == {g \in S : g.stamp > n}
           stamp == [g \in newer |-> g.stamp]
<1>1. \A g \in newer : g.stamp \in (n + 1)..m
  BY BackupAssumption DEF Files
<1>2. stamp \in [newer -> (n + 1)..m] /\ \A f, g \in newer : stamp[f] = stamp[g] => f = g
  BY <1>1
<1> HIDE DEF newer, stamp
<1>3. stamp \in Injection(newer, (n + 1)..m)
  BY <1>2 DEF Injection, IsInjective
<1>4. IsFiniteSet((n + 1)..m) /\ Cardinality((n + 1)..m) = m - n
  <2>1. n + 1 \in Int
    OBVIOUS
  <2>2. /\ IsFiniteSet((n + 1)..m)
        /\ Cardinality((n + 1)..m) = IF n + 1 > m THEN 0 ELSE m - (n + 1) + 1
    BY <2>1, FS_Interval
  <2> QED
    BY <2>2
<1>5. /\ IsFiniteSet(newer) /\ Cardinality(newer) <= Cardinality((n + 1)..m)
      /\ Cardinality(newer) \in Nat
  BY <1>3, <1>4, FS_Injection, FS_CardinalityType
<1> QED
  BY <1>4, <1>5 DEF newer

SnapshotInv == BackupsTypeOK /\ Stamped /\ RollbackPossible

LEMMA TakeBackupStep == ASSUME SnapshotInv, TakeBackup PROVE (Stamped /\ RollbackPossible)'
<1> DEFINE n == starts + 1
           new(whole) == [stamp |-> n, whole |-> whole]
           all == snapshots \cup {new(TRUE)}
<1>0. /\ starts \in Nat /\ n \in 1..MaxStarts /\ starts' = n /\ Keep \in Nat \ {0}
      /\ snapshots \in SUBSET Files /\ complete \in SUBSET Nat
      /\ new(TRUE) \in Files /\ new(FALSE) \in Files
  BY BackupAssumption DEF SnapshotInv, BackupsTypeOK, TakeBackup, Files
<1>1. PICK t \in Taken(snapshots, n) :
        snapshots' = t.left /\ complete' = IF t.done THEN complete \cup {n} ELSE complete
  BY DEF TakeBackup
<1>2. ASSUME NEW whole \in BOOLEAN
      PROVE  /\ \A f \in snapshots \cup {new(whole)} : f.stamp <= n
             /\ \A f, g \in snapshots \cup {new(whole)} : f.stamp = g.stamp => f = g
  <2>1. \A f \in snapshots : f.stamp \in Nat /\ f.stamp <= starts
    BY <1>0 DEF SnapshotInv, Stamped, Files
  <2>2. new(whole).stamp = n
    OBVIOUS
  <2> HIDE DEF new
  <2> QED
    BY <1>0, <2>1, <2>2 DEF SnapshotInv, Stamped
<1>3. \A k \in complete : k <= starts
  BY DEF SnapshotInv, Stamped
<1> HIDE DEF new
<1>4. CASE ~t.done
  <2>1. /\ complete' = complete /\ snapshots \subseteq snapshots'
        /\ snapshots' \subseteq snapshots \cup {new(FALSE)}
    BY <1>1, <1>4 DEF Taken, new
  <2>2. Stamped'
    <3>1. \A k \in complete' : k <= starts'
      BY <1>0, <1>3, <2>1
    <3> QED
      BY <1>0, <1>2, <2>1, <3>1 DEF Stamped
  <2>3. RollbackPossible'
    BY <1>0, <1>3, <2>1 DEF RollbackPossible, SnapshotInv
  <2> QED
    BY <2>2, <2>3
<1>5. CASE t.done
  <2>1. /\ complete' = complete \cup {n} /\ snapshots' \in SUBSET all
        /\ Newest(all) \subseteq snapshots'
    BY <1>1, <1>5 DEF Taken, Pruned, new
  <2>2. Stamped'
    <3>1. \A k \in complete' : k <= starts'
      BY <1>0, <1>3, <2>1
    <3> QED
      BY <1>0, <1>2, <2>1, <3>1 DEF Stamped
  <2>3. ASSUME NEW k \in complete', n - k < Keep PROVE [stamp |-> k, whole |-> TRUE] \in snapshots'
    <3> DEFINE kept == [stamp |-> k, whole |-> TRUE]
    <3>1. k \in Nat /\ k <= n
      BY <1>0, <1>3, <2>1
    <3>2. kept \in all
      <4>1. CASE k = n
        BY <4>1 DEF new
      <4>2. CASE k # n
        <5>1. k \in complete /\ starts - k < Keep
          BY <1>0, <2>1, <2>3, <3>1, <4>2
        <5> QED
          BY <5>1 DEF SnapshotInv, RollbackPossible
      <4> QED
        BY <4>1, <4>2
    <3>3. kept.stamp = k
      OBVIOUS
    <3> HIDE DEF kept
    <3>4. /\ Cardinality({g \in all : g.stamp > k}) <= n - k
          /\ Cardinality({g \in all : g.stamp > k}) \in Nat
      <4>1. all \in SUBSET Files
        BY <1>0
      <4> HIDE DEF all
      <4>2. /\ \A f \in all : f.stamp <= n
            /\ \A f, g \in all : f.stamp = g.stamp => f = g
        BY <1>2 DEF all
      <4>3. k \in Int /\ n \in Int /\ k <= n
        BY <1>0, <3>1
      <4> HIDE DEF n
      <4> QED
        BY <4>1, <4>2, <4>3, NewerThan
    <3>5. Cardinality({g \in all : g.stamp > k}) < Keep
      <4> HIDE DEF all
      <4> QED
        BY <1>0, <2>3, <3>1, <3>4
    <3>6. kept \in Newest(all)
      BY <3>2, <3>3, <3>5 DEF Newest
    <3> QED
      BY <2>1, <3>6 DEF kept
  <2>4. [stamp |-> n, whole |-> TRUE] \in snapshots'
    BY <1>0, <2>1, <2>3
  <2> QED
    BY <1>0, <2>1, <2>2, <2>3, <2>4 DEF RollbackPossible
<1> QED
  BY <1>4, <1>5

LEMMA SnapshotStep ==
    ASSUME TypeOK, Drawn, Stamped, RollbackPossible, [Next]_vars
    PROVE  (Stamped /\ RollbackPossible)'
<1>1. CASE StartContainer
  BY <1>1, TakeBackupStep DEF StartContainer, SnapshotInv, TypeOK
<1>2. CASE ~StartContainer
  <2>1. UNCHANGED backupVars
    <3>1. CASE \E w \in Workers : BootStep(w)
      BY <3>1, Touched
    <3>2. CASE ~(\E w \in Workers : BootStep(w))
      BY <1>2, <3>2, OwnerPath DEF Next, StopContainer, KillWorker, vars
    <3> QED
      BY <3>1, <3>2
  <2> QED
    BY <2>1 DEF backupVars, Stamped, RollbackPossible
<1> QED
  BY <1>1, <1>2

-----------------------------------------------------------------------------
(***************************************************************************)
(* The theorems.                                                           *)
(***************************************************************************)
\* What holds with or without the lock, and what the lock adds.
IInv ==
    TypeOK /\ Drawn /\ ColumnMade /\ Custody /\ HealProgress /\ Stamped /\ RollbackPossible
LockedInv == Exclusion /\ SeedOnEmpty /\ TablesMade

LEMMA InitInv == Init => IInv /\ LockedInv
<1> SUFFICES ASSUME Init PROVE IInv /\ LockedInv
  OBVIOUS
<1>1. \A w \in Workers : worker[w].pc = "down" /\ worker[w].dir = NoDir /\ worker[w].sweep = 0
  BY DEF Init, Down
<1>2. /\ NoWorker \notin Workers /\ NoDir \notin Dirs /\ lock = NoWorker /\ rows \in SUBSET Dirs
      /\ \A d, e \in rows : d = e
  BY BootAssumption DEF Init, Dirs
<1>3. Drawn /\ ColumnMade /\ HealProgress
  BY <1>1 DEF Drawn, ColumnMade, AfterColumn, HealProgress, Healing, HandTrue,
     RestHealed, AllHealed, Init
<1>4. HasJpgs
  BY DEF HasJpgs, Sound, Init, Dirs
<1>5. Custody
  BY <1>1, <1>2, <1>4 DEF Custody, CommitSafe, EmptyHanded, OwnIds, SweepSafe, Committing, Live
<1>6. Stamped /\ RollbackPossible
  BY DEF Init, BackupsInit, Stamped, RollbackPossible
<1>7. LockedInv
  BY <1>1, <1>2 DEF LockedInv, Exclusion, Schema, SeedOnEmpty, TablesMade, AfterTables
<1> QED
  BY <1>3, <1>5, <1>6, <1>7, InitTypes DEF IInv

LEMMA StepInv == IInv /\ [Next]_vars => IInv'
BY NextTypes, DrawnStep, ColumnStep, CustodyStep, HealProgressStep, SnapshotStep DEF IInv

LEMMA LockedStep == LockPossible /\ IInv /\ LockedInv /\ [Next]_vars => LockedInv'
BY ExclusionStep, SeedStep, TablesStep DEF IInv, LockedInv

LEMMA Invariance == Spec => []IInv
BY InitInv, StepInv, PTL DEF Spec

LEMMA LockedInvariance == ASSUME LockPossible PROVE Spec => []LockedInv
<1>1. IInv /\ LockedInv /\ [Next]_vars => LockedInv'
  BY LockedStep
<1> QED
  BY <1>1, InitInv, StepInv, PTL DEF Spec

\* However many workers boot, are killed and serve, every variable keeps its type;
\* a seed that is committed has the directory it drew.
THEOREM TypeCorrect == Spec => []TypeOK
BY Invariance, PTL DEF IInv

\* Where there is a lock file, the products of the seed are in the table at most
\* once (seed_initial_products under .init.lock), for any number of workers.
THEOREM SeededAtMostOnce == ASSUME LockPossible PROVE Spec => []SeededOnce
<1>1. SeedOnEmpty => SeededOnce
  <2> SUFFICES ASSUME SeedOnEmpty PROVE SeededOnce
    OBVIOUS
  <2> DEFINE seeded == rows \cap SeedDirs
  <2>1. seeded = {} \/ \E d : seeded = {d}
    BY DEF SeedOnEmpty
  <2>2. seeded = {} => Cardinality(seeded) = 0
    BY FS_EmptySet
  <2>3. \A d : seeded = {d} => Cardinality(seeded) = 1
    BY FS_Singleton
  <2> HIDE DEF seeded
  <2>4. Cardinality(seeded) <= 1
    BY <2>1, <2>2, <2>3
  <2> QED
    BY <2>4 DEF SeededOnce, seeded
<1> QED
  BY <1>1, LockedInvariance, PTL DEF LockedInv

\* Where there is a lock file, a worker that serves has every table, the table of
\* texts and, when nothing failed, its column (create_all gives up at a table that
\* is there by now, which only the lock makes harmless).
THEOREM ServedSchema == ASSUME LockPossible PROVE Spec => []ServesWithSchema
<1>1. TypeOK /\ TablesMade /\ ColumnMade => ServesWithSchema
  BY DEF TypeOK, BootTypeOK, TablesMade, ColumnMade, ServesWithSchema, AfterTables, AfterColumn
<1> QED
  BY <1>1, LockedInvariance, Invariance, PTL DEF IInv, LockedInv

\* Without a failure, whatever the owner deletes or creates while workers boot, the
\* first worker that serves finds every listed picture with all its variants
\* (backfill_media_variants), with the lock or without it, although ids are given
\* again: only a picture made under an id that was about to be swept is excepted.
THEOREM Healed == Spec => []HealedBeforeServing
<1>1. IInv => HealedBeforeServing
  BY DEF IInv, HealProgress, Healing, AllHealed, HealedBeforeServing, Sound
<1> QED
  BY <1>1, Invariance, PTL

\* For any number of snapshots kept, a complete one outlives the Keep - 1 starts
\* after it, failed backups included (backup_db._prune).
THEOREM RollbackKept == Spec => []RollbackPossible
BY Invariance, PTL DEF IInv

\* No boot, healing or edit takes an AVIF from a product that stays listed, unless it
\* was made under an id that was about to be swept: the row goes before the files,
\* an id is one product's at a time, and a directory nobody else's (product_delete,
\* delete_product_files).
THEOREM AvifKept == Spec => OfferedAvifStays
<1>1. ASSUME IInv, Next, NEW d \in (rows \cap rows') \ late, HasAvif(d) PROVE HasAvif(d)'
  <2>1. d \in Sound'
    <3>1. d \notin late'
      <4>1. CASE \E e \in Dirs : Drew(e)
        BY <1>1, <4>1, Pictured DEF IInv, Drew, Unused, TypeOK, BootTypeOK
      <4>2. CASE ~(\E e \in Dirs : Drew(e))
        BY <1>1, <4>2, Effects DEF IInv, Effect, Deleted, Sweeps, Quiet
      <4> QED
        BY <4>1, <4>2
    <3> QED
      BY <1>1, <3>1 DEF Sound
  <2> QED
    BY <1>1, <2>1, FilesKept DEF IInv, HasAvif
<1>2. IInv /\ [Next]_vars => [\A d \in (rows \cap rows') \ late : HasAvif(d) => HasAvif(d)']_vars
  BY <1>1
<1> QED
  BY <1>2, Invariance, PTL DEF Spec, OfferedAvifStays
=============================================================================
