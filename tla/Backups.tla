------------------------------ MODULE Backups ------------------------------
(***************************************************************************)
(* The snapshots that scripts/backup_db.py takes of the SQLite database     *)
(* each time the container starts, before any worker runs.                 *)
(*                                                                         *)
(* A snapshot is named after the second it was taken in; two starts are at *)
(* least a second apart, so the number of the start stands for the stamp.  *)
(* A copy that fails leaves a file that is not a database, and main() ends *)
(* there; only a complete copy is followed by the pruning.                 *)
(***************************************************************************)
EXTENDS Integers, FiniteSets

CONSTANTS
    Keep,       \* BACKUP_KEEP
    MaxStarts   \* bound: container starts

ASSUME BackupAssumption == Keep \in Nat \ {0} /\ MaxStarts \in Nat

VARIABLES
    starts,     \* how often the container has started
    snapshots,  \* the files that match gluck-*.db
    complete    \* history: the stamps whose copy was completed

backupVars == <<starts, snapshots, complete>>

Files == [stamp: 1..MaxStarts, whole: BOOLEAN]

BackupsTypeOK ==
    /\ starts \in 0..MaxStarts
    /\ snapshots \in SUBSET Files
    /\ complete \in SUBSET (1..MaxStarts)

BackupsInit == starts = 0 /\ snapshots = {} /\ complete = {}

\* Mutant: the snapshots are pruned down to one less than asked for.
NewestButOne(files) ==
    {f \in files : Cardinality({g \in files : g.stamp > f.stamp}) < Keep - 1}

\* The Keep newest of the files, whole or not.
Newest(files) == {f \in files : Cardinality({g \in files : g.stamp > f.stamp}) < Keep}

\* _prune: the unlink of a stale file may fail, which keeps the file.
Pruned(files) == {kept \in SUBSET files : Newest(files) \subseteq kept}

\* Mutant: a failed copy is followed by the pruning too.
TakenAlwaysPruned(files, n) ==
    {[left |-> Newest(files \cup {[stamp |-> n, whole |-> w]}), done |-> w] : w \in BOOLEAN}

\* main(): nothing to copy or a copy that fails before its file exists, one
\* that fails with its file begun, and a complete one, which is then pruned (a
\* process killed before that has kept every file).
Taken(files, n) ==
    LET whole == files \cup {[stamp |-> n, whole |-> TRUE]}
    IN {[left |-> files, done |-> FALSE],
        [left |-> files \cup {[stamp |-> n, whole |-> FALSE]}, done |-> FALSE]}
       \cup {[left |-> kept, done |-> TRUE] : kept \in Pruned(whole)}

\* entrypoint.sh: the backup runs once, and whatever becomes of it the workers
\* are started.
TakeBackup ==
    /\ starts < MaxStarts
    /\ starts' = starts + 1
    /\ \E t \in Taken(snapshots, starts + 1) :
         /\ snapshots' = t.left
         /\ complete' = IF t.done THEN complete \cup {starts + 1} ELSE complete

\* A database that is damaged by a deploy can be rolled back: a complete
\* snapshot outlives the Keep - 1 starts after its own, however many of these
\* fail, and the last complete one is there for ever (backup_db.py: "there is
\* always a recent snapshot to roll back to").
RollbackPossible ==
    /\ \A n \in complete : starts - n < Keep => [stamp |-> n, whole |-> TRUE] \in snapshots
    /\ complete # {} => \E f \in snapshots : f.whole
=============================================================================
