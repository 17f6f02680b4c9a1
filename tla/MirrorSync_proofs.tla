------------------------- MODULE MirrorSync_proofs -------------------------
(***************************************************************************)
(* Proofs about MirrorSync for every catalogue, every set of workers and   *)
(* every number of faults.                                                 *)
(*                                                                         *)
(* OneSyncPerInterval is not inductive: nothing in it keeps a worker that  *)
(* sees the lock free from starting beside one that syncs.  LockHeld says  *)
(* that the lock is held exactly by the worker that syncs, and with it     *)
(* every step keeps both.                                                  *)
(*                                                                         *)
(* StaysInStep needs beside the types that TN's notifications name         *)
(* products it has had, deletions those that are gone for good (News), and *)
(* that the pages of a listing that does not change are the listing        *)
(* (Pages).                                                                *)
(***************************************************************************)
EXTENDS MirrorSync, FiniteSetTheorems, TLAPS

\* Where there is a lock, who syncs holds it and who holds it syncs.
LockHeld == LockPossible => \A r \in Runners : Syncing(r) <=> lock = r

\* An unforced sync that started when it was due still is: only its own stamp
\* could end the interval.
DueHeld == LockPossible => \A r \in Runners : Syncing(r) /\ ~sync[r].force => due

\* A handler that is going to upsert has been given a product by TN.
HasPayload(f) == f.pc \in {"load", "commit"} /\ f.event = "upsert" => f.payload \in Payloads
PayloadHeld == \A h \in Handlers : HasPayload(hook[h])

\* The inductive invariant.
IInv == TypeOK /\ PayloadHeld /\ LockHeld /\ DueHeld

-----------------------------------------------------------------------------
\* The resets of the two state machines have their types.
LEMMA IdleTypes ==
    IdleSync \in Syncs /\ IdleHook \in Hooks /\ HasPayload(IdleHook) /\ NoRow \in Rows
<1>1. NoRow \in Rows
  BY DEF Rows
<1>2. NoRows \in [Products -> Rows] /\ NoRows \in [Products -> Payloads \cup {NoRow}]
  BY <1>1 DEF NoRows
<1>3. (CHOOSE p \in Products : TRUE) \in Products
  BY MirrorAssumption
<1> QED
  BY <1>1, <1>2, <1>3 DEF IdleSync, IdleHook, Syncs, Hooks, HasPayload

\* What a commit leaves in a row is a row.
LEMMA RowTypes ==
    ASSUME NEW row \in Rows, NEW loaded \in Rows
    PROVE  /\ Deleted(row, loaded) \in Rows
           /\ \A payload \in Payloads :
                ~Conflicts(row, loaded) => Upserted(row, loaded, payload) \subseteq Rows
<1>1. Deleted(row, loaded) \in Rows
  BY DEF Deleted, Rows
<1>2. ASSUME NEW payload \in Payloads, ~Conflicts(row, loaded)
      PROVE  Upserted(row, loaded, payload) \subseteq Rows
  <2>1. CASE loaded = NoRow
    BY <2>1 DEF Upserted, Rows
  <2>2. CASE loaded # NoRow
    <3> DEFINE data == [c \in Columns |->
                 IF payload[c] # loaded.data[c] THEN payload[c] ELSE row.data[c]]
    <3>1. row \in [id: RowIds, data: Payloads]
      BY <1>2, <2>2 DEF Conflicts, Still, Rows
    <3>2. data \in Payloads
      BY <3>1 DEF Payloads
    <3>3. Upserted(row, loaded, payload) = {[row EXCEPT !.data = data]}
      BY <2>2 DEF Upserted
    <3> HIDE DEF data
    <3>4. [row EXCEPT !.data = data] \in [id: RowIds, data: Payloads]
      BY <3>1, <3>2
    <3> QED
      BY <3>3, <3>4 DEF Rows
  <2> QED
    BY <2>1, <2>2
<1> QED
  BY <1>1, <1>2

-----------------------------------------------------------------------------
LEMMA InitInv == Init => IInv
<1> SUFFICES ASSUME Init PROVE IInv
  OBVIOUS
<1>0. FirstId \in RowIds
  BY MirrorAssumption DEF FirstId
<1>1. mirror \in [Products -> Rows]
  BY <1>0 DEF Init, Rows, Live
<1>2. store \in [Products -> Fetched]
  BY DEF Init, Fetched
<1>3. TypeOK
  BY <1>1, <1>2, IdleTypes, MirrorAssumption DEF Init, TypeOK
<1> QED
  BY <1>3, IdleTypes, MirrorAssumption DEF Init, IInv, PayloadHeld, LockHeld, DueHeld, Syncing, IdleSync

\* A handler or the owner moves: nothing the lock depends on changes.
LEMMA OthersInv ==
    ASSUME IInv, UNCHANGED <<sync, lock, due>>,
           store' \in [Products -> Fetched], hooks' \in SUBSET Notifications,
           mirror' \in [Products -> Rows], hook' \in [Handlers -> Hooks], PayloadHeld',
           changes' \in 0..MaxChanges, faults' \in 0..MaxFaults
    PROVE  IInv'
BY DEF IInv, TypeOK, LockHeld, DueHeld, Syncing

\* Spending a fault stays within the bound.
LEMMA FaultType == ASSUME TypeOK, Fault PROVE faults' \in 0..MaxFaults
BY MirrorAssumption DEF TypeOK, Fault

LEMMA OwnerInv ==
    ASSUME IInv, NEW p \in Products, Create(p) \/ Edit(p) \/ Remove(p)
    PROVE  IInv'
<1>1. PICK listed \in Fetched, event \in {"upsert", "delete"} : Change(p, listed, event)
  BY DEF Create, Edit, Remove, Fetched
<1>2. store' \in [Products -> Fetched] /\ hooks' \in SUBSET Notifications
  BY <1>1 DEF Change, IInv, TypeOK, Notifications
<1>3. changes' \in 0..MaxChanges
  BY <1>1, MirrorAssumption DEF Change, IInv, TypeOK
<1> QED
  BY <1>1, <1>2, <1>3, OthersInv DEF Change, IInv, TypeOK, PayloadHeld, HasPayload

LEMMA LoseHookInv == ASSUME IInv, LoseHook PROVE IInv'
<1>1. faults' \in 0..MaxFaults
  BY FaultType DEF LoseHook, IInv
<1>2. hooks' \in SUBSET Notifications
  BY DEF LoseHook, IInv, TypeOK
<1> QED
  BY <1>1, <1>2, OthersInv DEF LoseHook, IInv, TypeOK, PayloadHeld, HasPayload

\* A step of a handler whose new state, notifications, mirror and faults have
\* their types.
LEMMA HookInv ==
    ASSUME IInv, NEW h \in Handlers, NEW fields \in Hooks, HasPayload(fields), HookStep(h, fields),
           hooks' \in SUBSET Notifications, mirror' \in [Products -> Rows],
           faults' \in 0..MaxFaults
    PROVE  IInv'
<1>1. hook' \in [Handlers -> Hooks] /\ PayloadHeld'
  BY DEF HookStep, IInv, TypeOK, PayloadHeld, HasPayload
<1> QED
  BY <1>1, OthersInv DEF HookStep, IInv, TypeOK

LEMMA HandlerInv ==
    ASSUME IInv, NEW h \in Handlers,
           Deliver(h) \/ Handle(h) \/ FetchFails(h) \/ Defer(h)
    PROVE  IInv'
<1>0. TypeOK /\ hook[h] \in Hooks /\ HasPayload(hook[h])
      /\ hook[h].product \in Products /\ mirror[hook[h].product] \in Rows
  BY DEF IInv, TypeOK, Hooks, PayloadHeld
<1>r. Retry(h) => hooks' \in SUBSET Notifications
  BY <1>0 DEF Retry, Notifications, TypeOK
<1>1. CASE Deliver(h)
  <2>1. PICK n \in hooks :
          /\ hooks' \in {hooks \ {n}, hooks}
          /\ HookStep(h, [IdleHook EXCEPT !.pc = IF n[1] = "upsert" THEN "fetch" ELSE "load",
                                          !.event = n[1], !.product = n[2]])
    BY <1>1 DEF Deliver
  <2>2. n[1] \in {"upsert", "delete"} /\ n[2] \in Products
    BY <1>0 DEF TypeOK, Notifications
  <2>3. [IdleHook EXCEPT !.pc = IF n[1] = "upsert" THEN "fetch" ELSE "load",
                         !.event = n[1], !.product = n[2]] \in Hooks
    BY <2>2, IdleTypes DEF Hooks
  <2>4. HasPayload([IdleHook EXCEPT !.pc = IF n[1] = "upsert" THEN "fetch" ELSE "load",
                                    !.event = n[1], !.product = n[2]])
    BY <2>2 DEF HasPayload, IdleHook
  <2> QED
    BY <1>0, <1>1, <2>1, <2>3, <2>4, HookInv DEF Deliver, TypeOK
<1>2. CASE Fetch(h)
  <2> DEFINE p == hook[h].product
             fields == IF p \in Live
                       THEN [hook[h] EXCEPT !.pc = "load", !.payload = store[p]]
                       ELSE [hook[h] EXCEPT !.pc = "load", !.event = "delete"]
  <2>1. fields \in Hooks /\ HasPayload(fields)
    BY <1>0 DEF Hooks, Live, HasPayload
  <2>2. HookStep(h, fields)
    BY <1>2 DEF Fetch
  <2> HIDE DEF fields
  <2> QED
    BY <1>0, <1>2, <2>1, <2>2, HookInv DEF Fetch, TypeOK
<1>3. CASE FetchFails(h) \/ Defer(h)
  BY <1>0, <1>r, <1>3, IdleTypes, FaultType, HookInv DEF FetchFails, Defer, TypeOK
<1>4. CASE LoadRow(h)
  <2> DEFINE row == mirror[hook[h].product]
             fields == IF hook[h].event = "delete" /\ row = NoRow
                       THEN IdleHook
                       ELSE [hook[h] EXCEPT !.pc = "commit", !.loaded = row]
  <2>1. fields \in Hooks /\ HasPayload(fields)
    BY <1>0, <1>4, IdleTypes DEF Hooks, HasPayload, LoadRow
  <2>2. HookStep(h, fields)
    BY <1>4 DEF LoadRow
  <2> HIDE DEF fields
  <2> QED
    BY <1>0, <1>4, <2>1, <2>2, HookInv DEF LoadRow, TypeOK
<1>5. CASE CommitDelete(h)
  <2>1. hook[h].loaded \in Rows
    BY <1>0 DEF Hooks
  <2>2. mirror' \in [Products -> Rows]
    BY <1>0, <1>5, <2>1, RowTypes DEF CommitDelete, TypeOK
  <2> QED
    BY <1>0, <1>5, <2>2, IdleTypes, HookInv DEF CommitDelete, TypeOK
<1>6. CASE CommitUpsert(h)
  <2>1. CASE Conflicts(mirror[hook[h].product], hook[h].loaded)
    BY <1>0, <1>r, <1>6, <2>1, IdleTypes, HookInv DEF CommitUpsert, TypeOK
  <2>2. CASE ~Conflicts(mirror[hook[h].product], hook[h].loaded)
    <3>1. PICK row \in Upserted(mirror[hook[h].product], hook[h].loaded, hook[h].payload) :
            mirror' = [mirror EXCEPT ![hook[h].product] = row]
      BY <1>6, <2>2 DEF CommitUpsert
    <3>2. hook[h].payload \in Payloads /\ hook[h].loaded \in Rows
      BY <1>0, <1>6 DEF CommitUpsert, Hooks, HasPayload
    <3>4. row \in Rows
      BY <1>0, <2>2, <3>1, <3>2, RowTypes
    <3>3. mirror' \in [Products -> Rows]
      BY <1>0, <3>1, <3>4 DEF TypeOK
    <3> QED
      BY <1>0, <1>6, <2>2, <3>3, IdleTypes, HookInv DEF CommitUpsert, TypeOK
  <2> QED
    BY <2>1, <2>2
<1> QED
  BY <1>1, <1>2, <1>3, <1>4, <1>5, <1>6 DEF Handle

-----------------------------------------------------------------------------
\* A step of a resync that keeps its lock and its right to run, whose new state
\* and mirror have their types.
LEMMA SyncGoesOn ==
    ASSUME IInv, NEW r \in Runners, NEW fields \in Syncs, SyncStep(r, fields),
           Syncing(r), fields.pc # "idle", fields.force = sync[r].force,
           mirror' \in [Products -> Rows], UNCHANGED <<lock, due, faults>>
    PROVE  IInv'
<1>1. sync' \in [Runners -> Syncs] /\ sync'[r] = fields
      /\ \A s \in Runners : s # r => sync'[s] = sync[s]
  BY DEF SyncStep, IInv, TypeOK
<1> QED
  BY <1>1 DEF SyncStep, IInv, TypeOK, PayloadHeld, LockHeld, DueHeld, Syncing

\* A resync that ends, well or badly, gives its lock back.
LEMMA SyncEnds ==
    ASSUME IInv, NEW r \in Runners, SyncStep(r, IdleSync), Syncing(r), Release(r),
           mirror' \in [Products -> Rows], due' \in BOOLEAN, faults' \in 0..MaxFaults
    PROVE  IInv'
<1>1. sync' \in [Runners -> Syncs] /\ sync'[r].pc = "idle"
      /\ \A s \in Runners : s # r => sync'[s] = sync[s]
  BY IdleTypes DEF SyncStep, IInv, TypeOK, IdleSync
<1>2. lock' \in Runners \cup {NoRunner}
  BY DEF Release, IInv, TypeOK
<1>3. LockPossible => lock = r /\ lock' = NoRunner
  BY DEF IInv, LockHeld, Release
<1>4. TypeOK'
  BY <1>1, <1>2 DEF SyncStep, IInv, TypeOK
<1>5. LockPossible => \A s \in Runners : ~Syncing(s)'
  BY <1>1, <1>3 DEF IInv, LockHeld, Syncing
<1> QED
  BY <1>3, <1>4, <1>5, MirrorAssumption DEF SyncStep, IInv, PayloadHeld, LockHeld, DueHeld

\* Only a worker that finds the lock free, and its interval over unless it is
\* forced, starts a resync.
LEMMA BeginInv == ASSUME IInv, NEW r \in Runners, Begin(r) PROVE IInv'
<1>1. PICK force \in BOOLEAN :
        /\ force \/ due
        /\ SyncStep(r, [IdleSync EXCEPT !.pc = "load", !.force = force])
  BY DEF Begin
<1> DEFINE fields == [IdleSync EXCEPT !.pc = "load", !.force = force]
<1>2. fields \in Syncs /\ fields.pc = "load" /\ fields.force = force
  BY IdleTypes DEF Syncs
<1>3. SyncStep(r, fields)
  BY <1>1
<1> HIDE DEF fields
<1>4. sync' \in [Runners -> Syncs] /\ sync'[r] = fields
      /\ \A s \in Runners : s # r => sync'[s] = sync[s]
  BY <1>2, <1>3 DEF SyncStep, IInv, TypeOK
<1>5. TypeOK'
  BY <1>3, <1>4 DEF SyncStep, Begin, IInv, TypeOK
<1>6. LockPossible => /\ lock' = r /\ Syncing(r)'
                      /\ \A s \in Runners : s # r => ~Syncing(s)'
  BY <1>2, <1>4, MirrorAssumption DEF Begin, IInv, LockHeld, Syncing
<1> QED
  BY <1>1, <1>2, <1>4, <1>5, <1>6 DEF SyncStep, Begin, IInv, PayloadHeld, LockHeld, DueHeld

LEMMA RunnerInv ==
    ASSUME IInv, NEW r \in Runners,
           Load(r) \/ ReadPage(r) \/ CommitSync(r) \/ Stamp(r)
             \/ AbortSync(r) \/ CrashBeforeStamp(r)
    PROVE  IInv'
<1>0. TypeOK /\ sync[r] \in Syncs
  BY DEF IInv, TypeOK
<1>1. CASE Load(r)
  <2> DEFINE fields == [sync[r] EXCEPT !.pc = "pages", !.loaded = mirror, !.page = 1]
  <2>1. fields \in Syncs /\ fields.pc = "pages" /\ fields.force = sync[r].force
    BY <1>0 DEF TypeOK, Syncs
  <2>2. SyncStep(r, fields) /\ Syncing(r)
    BY <1>1 DEF Load, Syncing
  <2> HIDE DEF fields
  <2> QED
    BY <1>0, <1>1, <2>1, <2>2, SyncGoesOn DEF Load, TypeOK
<1>2. CASE ReadPage(r)
  <2> DEFINE s == sync[r]
             items == Page(s.page)
             seen == s.seen \cup items
             fetched == [p \in Products |-> IF p \in items THEN store[p] ELSE s.fetched[p]]
             pc == IF HasNext(s.page) THEN "pages" ELSE "commit"
             page == IF HasNext(s.page) THEN s.page + 1 ELSE 0
             fields == [s EXCEPT !.seen = seen, !.fetched = fetched, !.pc = pc, !.page = page]
  <2>1. SyncStep(r, fields) /\ Syncing(r)
    BY <1>0, <1>2 DEF ReadPage, Syncing, Syncs
  <2>2. seen \in SUBSET Products
    BY <1>0 DEF Page, Live, Syncs
  <2>3. fetched \in [Products -> Payloads \cup {NoRow}]
    BY <1>0 DEF Page, Live, Syncs
  <2>4. pc \in {"pages", "commit"} /\ page \in Nat
    BY <1>0 DEF Syncs
  <2> HIDE DEF seen, fetched, pc, page
  <2>5. fields \in Syncs /\ fields.pc # "idle" /\ fields.force = sync[r].force
    BY <1>0, <2>2, <2>3, <2>4 DEF Syncs
  <2> HIDE DEF fields
  <2> QED
    BY <1>0, <1>2, <2>1, <2>5, SyncGoesOn DEF ReadPage, TypeOK
<1>3. CASE CommitSync(r)
  <2>1. Syncing(r)
    BY <1>3 DEF CommitSync, Syncing
  <2>2. CASE \E p \in sync[r].seen : Conflicts(mirror[p], sync[r].loaded[p])
    BY <1>0, <1>3, <2>1, <2>2, SyncEnds DEF CommitSync, TypeOK
  <2>3. CASE ~\E p \in sync[r].seen : Conflicts(mirror[p], sync[r].loaded[p])
    <3> DEFINE fields == [IdleSync EXCEPT !.pc = "stamp", !.force = sync[r].force]
    <3>1. fields \in Syncs /\ fields.pc = "stamp" /\ fields.force = sync[r].force
      BY <1>0, IdleTypes DEF Syncs
    <3>2. SyncStep(r, fields) /\ mirror' \in [Products -> Rows] /\ UNCHANGED <<lock, due, faults>>
      BY <1>3, <2>3 DEF CommitSync
    <3> HIDE DEF fields
    <3> QED
      BY <2>1, <3>1, <3>2, SyncGoesOn
  <2> QED
    BY <2>2, <2>3
<1>4. CASE Stamp(r)
  BY <1>0, <1>4, SyncEnds DEF Stamp, Syncing, TypeOK
<1>5. CASE AbortSync(r) \/ CrashBeforeStamp(r)
  BY <1>0, <1>5, FaultType, SyncEnds DEF AbortSync, CrashBeforeStamp, Syncing, TypeOK
<1> QED
  BY <1>1, <1>2, <1>3, <1>4, <1>5

LEMMA NextInv == IInv /\ [Next]_vars => IInv'
<1> SUFFICES ASSUME IInv, [Next]_vars PROVE IInv'
  OBVIOUS
<1>1. ASSUME NEW p \in Products, Create(p) \/ Edit(p) \/ Remove(p) PROVE IInv'
  BY <1>1, OwnerInv
<1>2. CASE LoseHook
  BY <1>2, LoseHookInv
<1>3. ASSUME NEW h \in Handlers, Deliver(h) \/ Handle(h) \/ FetchFails(h) \/ Defer(h)
      PROVE  IInv'
  BY <1>3, HandlerInv
<1>4. ASSUME NEW r \in Runners, Begin(r) PROVE IInv'
  BY <1>4, BeginInv
<1>5. ASSUME NEW r \in Runners, RunSync(r) \/ AbortSync(r) \/ CrashBeforeStamp(r)
      PROVE  IInv'
  BY <1>5, RunnerInv DEF RunSync
<1>6. CASE IntervalPasses
  BY <1>6 DEF IntervalPasses, IInv, TypeOK, PayloadHeld, LockHeld, DueHeld, Syncing
<1>7. CASE UNCHANGED vars
  BY <1>7 DEF vars, IInv, TypeOK, PayloadHeld, LockHeld, DueHeld, Syncing
<1> QED
  BY <1>1, <1>2, <1>3, <1>4, <1>5, <1>6, <1>7 DEF Next

\* The inductive invariant holds in every reachable state.
THEOREM Invariance == Spec => []IInv
BY InitInv, NextInv, PTL DEF Spec

\* The mirror, the resyncs and the handlers keep their types; in particular
\* nothing but a payload that TN answered is ever written into a row.
THEOREM TypeCorrect == Spec => []TypeOK
<1>1. IInv => TypeOK
  BY DEF IInv
<1> QED
  BY <1>1, Invariance, PTL

\* However many workers run the scheduler thread, and whatever crashes or
\* fails, one syncs at a time and at most once per interval unless forced,
\* wherever the lock file is possible.
THEOREM SyncsOncePerInterval ==
    ASSUME LockPossible
    PROVE  Spec => []OneSyncPerInterval
<1>1. IInv => OneSyncPerInterval
  BY DEF IInv, LockHeld, DueHeld, OneSyncPerInterval
<1> QED
  BY <1>1, Invariance, PTL

-----------------------------------------------------------------------------
\* A step of the resync of r moves r in the abstraction, and nobody else.
LEMMA TurnMoves ==
    ASSUME TypeOK, NEW r \in Runners, NEW fields, SyncStep(r, fields)
    PROVE  Turns!Advance(r, Phase(fields))
<1>1. sync' = [sync EXCEPT ![r] = fields] /\ sync \in [Runners -> Syncs]
  BY DEF SyncStep, TypeOK
<1> QED
  BY <1>1 DEF Turns!Advance, Phase

\* Who does not touch the resyncs or the stamp stutters.
LEMMA OthersStutter == UNCHANGED <<sync, due>> => UNCHANGED Turns!vars
BY DEF Turns!vars, Phase

\* Beginning is taking a turn: under the lock nobody else has one.
LEMMA BeginTakes == ASSUME LockPossible, IInv, NEW r \in Runners, Begin(r) PROVE Turns!Next
<1>1. PICK force \in BOOLEAN :
        /\ force \/ due
        /\ SyncStep(r, [IdleSync EXCEPT !.pc = "load", !.force = force])
  BY DEF Begin
<1> DEFINE fields == [IdleSync EXCEPT !.pc = "load", !.force = force]
<1>2. Phase(fields) = IF force THEN "forced" ELSE "scheduled"
  BY DEF Phase, IdleSync
<1>3. Turns!Advance(r, Phase(fields))
  BY <1>1, TurnMoves DEF IInv
<1> HIDE DEF fields
<1>4. \A s \in Runners : Phase(sync[s]) = "idle"
  BY MirrorAssumption DEF Begin, IInv, LockHeld, Syncing, Phase
<1>5. UNCHANGED due
  BY DEF Begin
<1> QED
  BY <1>1, <1>2, <1>3, <1>4, <1>5
  DEF Turns!Next, Turns!Scheduled, Turns!Forced, Turns!Take

\* What a resync does after it has begun, up to its stamp, its failure or its
\* death.
LEMMA RunnerTurns ==
    ASSUME LockPossible, IInv, NEW r \in Runners,
           Load(r) \/ ReadPage(r) \/ CommitSync(r) \/ Stamp(r)
             \/ AbortSync(r) \/ CrashBeforeStamp(r)
    PROVE  Turns!Next \/ UNCHANGED Turns!vars
<1>0. TypeOK /\ sync[r] \in Syncs /\ sync \in [Runners -> Syncs]
  BY DEF IInv, TypeOK
<1>i. Phase(IdleSync) = "idle"
  BY DEF Phase, IdleSync
<1>1. CASE Load(r) \/ ReadPage(r)
  <2>1. PICK fields : SyncStep(r, fields) /\ Phase(fields) = Phase(sync[r])
    <3>1. CASE Load(r)
      <4> DEFINE fields == [sync[r] EXCEPT !.pc = "pages", !.loaded = mirror, !.page = 1]
      <4>1. Phase(fields) = Phase(sync[r])
        BY <1>0, <3>1 DEF Load, Phase, Syncs
      <4> QED
        BY <3>1, <4>1 DEF Load
    <3>2. CASE ReadPage(r)
      <4> DEFINE s == sync[r]
                 items == Page(s.page)
                 fields == [s EXCEPT
                    !.seen = @ \cup items,
                    !.fetched = [p \in Products |-> IF p \in items THEN store[p] ELSE s.fetched[p]],
                    !.pc = IF HasNext(s.page) THEN "pages" ELSE "commit",
                    !.page = IF HasNext(s.page) THEN @ + 1 ELSE 0]
      <4>1. Phase(fields) = Phase(sync[r])
        BY <1>0, <3>2 DEF ReadPage, Phase, Syncs
      <4> QED
        BY <3>2, <4>1 DEF ReadPage
    <3> QED
      BY <1>1, <3>1, <3>2
  <2>2. UNCHANGED due
    BY <1>1 DEF Load, ReadPage
  <2>3. sync' = [sync EXCEPT ![r] = fields]
    BY <2>1 DEF SyncStep
  <2>4. \A s \in Runners : Phase(sync'[s]) = Phase(sync[s])
    BY <1>0, <2>1, <2>3
  <2> QED
    BY <2>2, <2>4 DEF Turns!vars
<1>2. CASE CommitSync(r)
  <2>1. Phase(sync[r]) \in {"forced", "scheduled"}
    BY <1>2 DEF CommitSync, Phase
  <2>2. UNCHANGED due
    BY <1>2 DEF CommitSync
  <2>3. CASE SyncStep(r, IdleSync)
    <3>1. Turns!GiveUp(r)
      BY <1>0, <1>i, <2>1, <2>2, <2>3, TurnMoves DEF Turns!GiveUp
    <3> QED
      BY <3>1 DEF Turns!Next
  <2>4. CASE SyncStep(r, [IdleSync EXCEPT !.pc = "stamp", !.force = sync[r].force])
    <3>1. Phase([IdleSync EXCEPT !.pc = "stamp", !.force = sync[r].force]) = "committed"
      BY DEF Phase, IdleSync
    <3>2. Turns!Commit(r)
      BY <1>0, <2>1, <2>2, <2>4, <3>1, TurnMoves DEF Turns!Commit, Turns!Working
    <3> QED
      BY <3>2 DEF Turns!Next
  <2> QED
    BY <1>2, <2>3, <2>4 DEF CommitSync
<1>3. CASE Stamp(r)
  <2>1. Turns!Complete(r)
    BY <1>0, <1>3, <1>i, TurnMoves DEF Stamp, Phase, Turns!Complete
  <2> QED
    BY <2>1 DEF Turns!Next
<1>4. CASE AbortSync(r) \/ CrashBeforeStamp(r)
  <2>1. Phase(sync[r]) # "idle"
    BY <1>4 DEF AbortSync, CrashBeforeStamp, Phase
  <2>2. Turns!GiveUp(r)
    BY <1>0, <1>4, <1>i, <2>1, TurnMoves DEF AbortSync, CrashBeforeStamp, Turns!GiveUp
  <2> QED
    BY <2>2 DEF Turns!Next
<1> QED
  BY <1>1, <1>2, <1>3, <1>4

\* Where the lock file is possible the resyncs of any number of workers do what
\* SyncTurns promises, for any catalogue, any webhooks and any failures.
THEOREM Implements ==
    ASSUME LockPossible
    PROVE  Spec => TakesTurns
<1>1. Init => Turns!Init
  BY DEF Init, Turns!Init, IdleSync, Phase
<1>2. IInv /\ [Next]_vars => [Turns!Next]_(Turns!vars)
  <2> SUFFICES ASSUME IInv, [Next]_vars PROVE Turns!Next \/ UNCHANGED Turns!vars
    OBVIOUS
  <2>1. ASSUME NEW p \in Products, Create(p) \/ Edit(p) \/ Remove(p)
        PROVE  UNCHANGED Turns!vars
    BY <2>1, OthersStutter DEF Create, Edit, Remove, Change
  <2>2. CASE LoseHook
    BY <2>2, OthersStutter DEF LoseHook
  <2>3. ASSUME NEW h \in Handlers, Deliver(h) \/ Handle(h) \/ FetchFails(h) \/ Defer(h)
        PROVE  UNCHANGED Turns!vars
    BY <2>3, OthersStutter
    DEF Deliver, Handle, Fetch, LoadRow, CommitDelete, CommitUpsert, FetchFails, Defer, HookStep
  <2>4. ASSUME NEW r \in Runners, Begin(r) PROVE Turns!Next
    BY <2>4, BeginTakes
  <2>5. ASSUME NEW r \in Runners, RunSync(r) \/ AbortSync(r) \/ CrashBeforeStamp(r)
        PROVE  Turns!Next \/ UNCHANGED Turns!vars
    BY <2>5, RunnerTurns DEF RunSync
  <2>6. CASE IntervalPasses
    BY <2>6 DEF IntervalPasses, Turns!Next, Turns!IntervalPasses, Phase
  <2>7. CASE UNCHANGED vars
    BY <2>7, OthersStutter DEF vars
  <2> QED
    BY <2>1, <2>2, <2>3, <2>4, <2>5, <2>6, <2>7 DEF Next
<1> QED
  BY <1>1, <1>2, Invariance, PTL DEF Spec, TakesTurns, Turns!Spec

-----------------------------------------------------------------------------
(***************************************************************************)
(* TN's notifications name products it has had, a deletion one that is     *)
(* gone for good; a resync that starts has seen nothing.                   *)
(***************************************************************************)
Told(event, p) == store[p] # Unborn /\ (event = "delete" => store[p] = Gone)

News ==
    /\ \A n \in hooks : Told(n[1], n[2])
    /\ \A h \in Handlers : hook[h].pc # "idle" => Told(hook[h].event, hook[h].product)
    /\ \A r \in Runners : sync[r].pc = "load" => sync[r].seen = {}

LEMMA InitNews == Init => News
BY DEF Init, News, IdleHook, IdleSync

\* What is gone stays gone, and nothing is unborn again.
LEMMA ToldStays ==
    ASSUME TypeOK, [Next]_vars, NEW event, NEW p \in Products, Told(event, p)
    PROVE  Told(event, p)'
<1>1. CASE \E q \in Products : Create(q) \/ Edit(q) \/ Remove(q)
  <2>1. PICK q \in Products : Create(q) \/ Edit(q) \/ Remove(q)
    BY <1>1
  <2>2. store[q] # Gone
    BY <2>1, RowAssumption DEF Create, Edit, Remove, Live
  <2>3. PICK x \in Payloads \cup {Gone} : store' = [store EXCEPT ![q] = x]
    BY <2>1 DEF Create, Edit, Remove, Change
  <2>4. x # Unborn
    BY RowAssumption
  <2> QED
    BY <2>2, <2>3, <2>4 DEF Told, TypeOK
<1>2. CASE UNCHANGED store
  BY <1>2 DEF Told
<1>3. UNCHANGED store \/ \E q \in Products : Create(q) \/ Edit(q) \/ Remove(q)
  BY DEF Next, vars, LoseHook, Deliver, Handle, Fetch, FetchFails, Defer, LoadRow, CommitDelete,
         CommitUpsert, HookStep, Begin, RunSync, Load, ReadPage, CommitSync, Stamp, AbortSync,
         CrashBeforeStamp, SyncStep, IntervalPasses
<1> QED
  BY <1>1, <1>2, <1>3

\* A notification that was there, or one TN has a reason for.
LEMMA HooksTold ==
    ASSUME TypeOK, News, [Next]_vars, NEW n \in hooks'
    PROVE  Told(n[1], n[2])'
<1>1. CASE n \in hooks
  <2>1. Told(n[1], n[2]) /\ n[2] \in Products
    BY <1>1 DEF News, TypeOK, Notifications
  <2> QED
    BY <2>1, ToldStays
<1>2. CASE \E p \in Products : Create(p) \/ Edit(p) \/ Remove(p)
  <2>1. PICK p \in Products : Create(p) \/ Edit(p) \/ Remove(p)
    BY <1>2
  <2>2. PICK x, event : /\ Change(p, x, event) /\ x \in Payloads \cup {Gone}
                        /\ event = "delete" => x = Gone
    BY <2>1 DEF Create, Edit, Remove
  <2>3. store'[p] = x /\ x # Unborn
    BY <2>2, RowAssumption DEF Change, TypeOK
  <2>4. n \in hooks \/ n = <<event, p>>
    BY <2>2 DEF Change
  <2> QED
    BY <1>1, <2>2, <2>3, <2>4 DEF Told
<1>3. CASE \E h \in Handlers : Retry(h) /\ hook[h].pc # "idle"
  <2>1. PICK h \in Handlers : Retry(h) /\ hook[h].pc # "idle"
    BY <1>3
  <2>2. PICK p \in Products : p = hook[h].product
    BY DEF TypeOK, Hooks
  <2>3. Told("upsert", p)
    BY <2>1, <2>2 DEF News, Told
  <2>4. Told("upsert", p)'
    BY <2>3, ToldStays
  <2>5. n \in hooks \/ n = <<"upsert", p>>
    BY <2>1, <2>2 DEF Retry
  <2> QED
    BY <1>1, <2>4, <2>5
<1>4. \/ hooks' \subseteq hooks
      \/ \E p \in Products : Create(p) \/ Edit(p) \/ Remove(p)
      \/ \E h \in Handlers : Retry(h) /\ hook[h].pc # "idle"
  <2>1. ASSUME NEW h \in Handlers, Deliver(h) \/ Handle(h) \/ FetchFails(h) \/ Defer(h)
        PROVE  hooks' \subseteq hooks \/ (Retry(h) /\ hook[h].pc # "idle")
    <3>1. CASE Deliver(h)
      BY <3>1 DEF Deliver
    <3>2. CASE FetchFails(h)
      BY <3>2 DEF FetchFails
    <3>3. CASE Fetch(h) \/ Defer(h) \/ LoadRow(h) \/ CommitDelete(h)
      BY <3>3 DEF Fetch, Defer, LoadRow, CommitDelete
    <3>4. CASE CommitUpsert(h)
      BY <3>4 DEF CommitUpsert
    <3> QED
      BY <2>1, <3>1, <3>2, <3>3, <3>4 DEF Handle
  <2>2. ASSUME NEW r \in Runners, Begin(r) \/ RunSync(r) \/ AbortSync(r) \/ CrashBeforeStamp(r)
        PROVE  hooks' = hooks
    BY <2>2 DEF Begin, RunSync, Load, ReadPage, CommitSync, Stamp, AbortSync,
         CrashBeforeStamp, SyncStep
  <2>3. CASE LoseHook \/ IntervalPasses \/ UNCHANGED vars
    BY <2>3 DEF LoseHook, IntervalPasses, vars
  <2> QED
    BY <2>1, <2>2, <2>3 DEF Next
<1> QED
  BY <1>1, <1>2, <1>3, <1>4

\* What a handler becomes.
LEMMA HookMoves ==
    ASSUME TypeOK, [Next]_vars, NEW h \in Handlers
    PROVE  \/ hook'[h] = hook[h]
           \/ hook'[h] = IdleHook
           \/ Deliver(h) \/ Fetch(h) \/ LoadRow(h)
<1>1. ASSUME NEW g \in Handlers, Deliver(g) \/ Handle(g) \/ FetchFails(g) \/ Defer(g), g # h
      PROVE  hook'[h] = hook[h]
  BY <1>1 DEF Deliver, Handle, Fetch, FetchFails, Defer, LoadRow, CommitDelete, CommitUpsert,
         HookStep, TypeOK
<1>2. ASSUME FetchFails(h) \/ Defer(h) \/ CommitDelete(h) \/ CommitUpsert(h)
      PROVE  hook'[h] = IdleHook
  BY <1>2 DEF FetchFails, Defer, CommitDelete, CommitUpsert, HookStep, TypeOK
<1>3. ASSUME ~\E g \in Handlers : Deliver(g) \/ Handle(g) \/ FetchFails(g) \/ Defer(g)
      PROVE  hook'[h] = hook[h]
  BY <1>3 DEF Next, vars, Create, Edit, Remove, Change, LoseHook, Begin, RunSync, Load, ReadPage,
         CommitSync, Stamp, AbortSync, CrashBeforeStamp, SyncStep, IntervalPasses
<1> QED
  BY <1>1, <1>2, <1>3 DEF Handle

\* What a resync becomes.
LEMMA SyncMoves ==
    ASSUME TypeOK, [Next]_vars, NEW r \in Runners
    PROVE  \/ sync'[r] = sync[r]
           \/ sync'[r].pc \in {"idle", "stamp"}
           \/ Begin(r) \/ Load(r) \/ ReadPage(r)
<1>1. ASSUME NEW g \in Runners, Begin(g) \/ RunSync(g) \/ AbortSync(g) \/ CrashBeforeStamp(g), g # r
      PROVE  sync'[r] = sync[r]
  BY <1>1 DEF Begin, RunSync, Load, ReadPage, CommitSync, Stamp, AbortSync, CrashBeforeStamp,
         SyncStep, TypeOK
<1>2. ASSUME CommitSync(r) \/ Stamp(r) \/ AbortSync(r) \/ CrashBeforeStamp(r)
      PROVE  sync'[r].pc \in {"idle", "stamp"}
  <2>1. \E f \in {IdleSync, [IdleSync EXCEPT !.pc = "stamp", !.force = sync[r].force]} :
            SyncStep(r, f)
    BY <1>2 DEF CommitSync, Stamp, AbortSync, CrashBeforeStamp
  <2>2. PICK f \in {IdleSync, [IdleSync EXCEPT !.pc = "stamp", !.force = sync[r].force]} :
            SyncStep(r, f)
    BY <2>1
  <2>3. sync'[r] = f
    BY <2>2 DEF SyncStep, TypeOK
  <2>4. f.pc \in {"idle", "stamp"}
    <3>1. IdleSync.pc = "idle" /\ [IdleSync EXCEPT !.pc = "stamp", !.force = sync[r].force].pc = "stamp"
      BY DEF IdleSync
    <3> QED
      BY <3>1
  <2> QED
    BY <2>3, <2>4
<1>3. ASSUME ~\E g \in Runners : Begin(g) \/ RunSync(g) \/ AbortSync(g) \/ CrashBeforeStamp(g)
      PROVE  sync'[r] = sync[r]
  BY <1>3 DEF Next, vars, Create, Edit, Remove, Change, LoseHook, Deliver, Handle, Fetch, FetchFails,
         Defer, LoadRow, CommitDelete, CommitUpsert, HookStep, IntervalPasses
<1> QED
  BY <1>1, <1>2, <1>3 DEF RunSync

LEMMA NextNews == IInv /\ News /\ [Next]_vars => News'
<1> SUFFICES ASSUME IInv, News, [Next]_vars PROVE News'
  OBVIOUS
<1>0. TypeOK
  BY DEF IInv
<1>1. ASSUME NEW h \in Handlers, hook'[h].pc # "idle",
             NEW e, NEW p, e = hook'[h].event, p = hook'[h].product
      PROVE  Told(e, p)'
  <2>0. /\ hook[h] \in Hooks /\ hook[h].product \in Products
        /\ hook[h].pc # "idle" => Told(hook[h].event, hook[h].product)
    BY <1>0 DEF TypeOK, Hooks, News
  <2>1. CASE hook'[h] = hook[h]
    BY <1>0, <1>1, <2>0, <2>1, ToldStays
  <2>2. CASE hook'[h] = IdleHook
    BY <1>1, <2>2 DEF IdleHook
  <2>3. CASE Deliver(h)
    <3>1. PICK n \in hooks :
             hook' = [hook EXCEPT ![h] = [IdleHook EXCEPT
                          !.pc = IF n[1] = "upsert" THEN "fetch" ELSE "load",
                          !.event = n[1], !.product = n[2]]]
      BY <2>3 DEF Deliver, HookStep
    <3>2. Told(n[1], n[2]) /\ n[2] \in Products
      BY <1>0 DEF News, TypeOK, Notifications
    <3>3. hook'[h].event = n[1] /\ hook'[h].product = n[2]
      BY <1>0, <3>1 DEF TypeOK, IdleHook
    <3> QED
      BY <1>0, <1>1, <3>2, <3>3, ToldStays
  <2>4. CASE Fetch(h)
    <3>1. hook[h].pc = "fetch" /\ store' = store
      BY <2>4 DEF Fetch, HookStep
    <3>2. \/ hook'[h].event = hook[h].event /\ hook'[h].product = hook[h].product
          \/ hook[h].product \notin Live /\ hook'[h].event = "delete"
             /\ hook'[h].product = hook[h].product
      BY <1>0, <2>0, <2>4 DEF Fetch, HookStep, TypeOK, Hooks
    <3>3. ASSUME hook[h].product \notin Live PROVE store[hook[h].product] = Gone
      BY <1>0, <2>0, <3>1, <3>3 DEF Told, Live, TypeOK, Fetched
    <3> QED
      BY <1>1, <2>0, <3>1, <3>2, <3>3 DEF Told
  <2>5. CASE LoadRow(h)
    <3>1. hook[h].pc = "load" /\ store' = store
      BY <2>5 DEF LoadRow, HookStep
    <3>2. \/ hook'[h].event = hook[h].event /\ hook'[h].product = hook[h].product
          \/ hook'[h] = IdleHook
      BY <1>0, <2>0, <2>5 DEF LoadRow, HookStep, TypeOK, Hooks
    <3> QED
      BY <1>1, <2>0, <2>2, <3>1, <3>2 DEF Told
  <2> QED
    BY <1>0, <2>1, <2>2, <2>3, <2>4, <2>5, HookMoves
<1>2. ASSUME NEW r \in Runners, sync'[r].pc = "load" PROVE sync'[r].seen = {}
  <2>1. CASE sync'[r] = sync[r]
    BY <1>2, <2>1 DEF News
  <2>2. CASE Begin(r)
    <3>1. PICK force \in BOOLEAN :
             sync' = [sync EXCEPT ![r] = [IdleSync EXCEPT !.pc = "load", !.force = force]]
      BY <2>2 DEF Begin, SyncStep
    <3> QED
      BY <1>0, <3>1 DEF TypeOK, IdleSync
  <2>3. CASE Load(r) \/ ReadPage(r)
    BY <1>0, <1>2, <2>3 DEF Load, ReadPage, SyncStep, TypeOK, Syncs
  <2> QED
    BY <1>0, <1>2, <2>1, <2>2, <2>3, SyncMoves
<1>3. \A n \in hooks' : Told(n[1], n[2])'
  BY <1>0, HooksTold
<1>4. (\A h \in Handlers : hook[h].pc # "idle" => Told(hook[h].event, hook[h].product))'
  BY <1>1 DEF Told
<1> QED
  BY <1>2, <1>3, <1>4 DEF News

-----------------------------------------------------------------------------
(***************************************************************************)
(* The listing: the products up to a position, and where the pages end.    *)
(***************************************************************************)
UpTo(k) == {p \in Live : Position(p) <= k}

LEMMA Pages ==
    ASSUME NEW k \in Nat
    PROVE  /\ UpTo(0) = {}
           /\ UpTo((k - 1) * PerPage) \cup Page(k) = UpTo(k * PerPage)
           /\ ~HasNext(k) => UpTo(k * PerPage) = Live
<1>1. IsFiniteSet(Live) /\ Cardinality(Live) \in Nat
  <2>1. Live \in SUBSET Products
    BY DEF Live
  <2> QED
    BY <2>1, MirrorAssumption, FS_Subset, FS_CardinalityType
<1>2. ASSUME NEW p \in Live
      PROVE  Position(p) \in Nat /\ 1 <= Position(p) /\ Position(p) <= Cardinality(Live)
  <2> DEFINE B == {q \in Live : q <= p}
  <2>1. B \in SUBSET Live /\ {p} \in SUBSET B
    <3>1. p <= p
      BY MirrorAssumption DEF Live
    <3> QED
      BY <3>1
  <2>2. Position(p) = Cardinality(B)
    BY DEF Position
  <2> HIDE DEF B
  <2>3. IsFiniteSet(B) /\ Cardinality(B) \in Nat /\ Cardinality(B) <= Cardinality(Live)
    BY <1>1, <2>1, FS_Subset, FS_CardinalityType
  <2>4. Cardinality({p}) <= Cardinality(B) /\ Cardinality({p}) = 1
    BY <2>1, <2>3, FS_Subset, FS_Singleton
  <2> QED
    BY <2>2, <2>3, <2>4
<1>3. PICK a, b : a = (k - 1) * PerPage /\ b = k * PerPage
  OBVIOUS
<1>4. a \in Int /\ b \in Int /\ a <= b
  <2>1. PerPage \in Nat
    BY MirrorAssumption
  <2>2. (k - 1) * PerPage = k * PerPage - PerPage
    BY <2>1
  <2>3. k * PerPage \in Int
    BY <2>1
  <2> QED
    BY <1>3, <2>1, <2>2, <2>3
<1>5. UpTo(0) = {}
  <2>1. ASSUME NEW p \in Live PROVE ~(Position(p) <= 0)
    BY <1>2
  <2> QED
    BY <2>1 DEF UpTo
<1>6. UpTo(a) \cup Page(k) = UpTo(b)
  <2>1. ASSUME NEW p \in Live
        PROVE  Position(p) <= a \/ (a < Position(p) /\ Position(p) <= b) <=> Position(p) <= b
    <3>1. PICK n \in Nat : n = Position(p)
      BY <1>2
    <3>2. n <= a \/ (a < n /\ n <= b) <=> n <= b
      BY <1>4
    <3> QED
      BY <3>1, <3>2
  <2>2. Page(k) = {p \in Live : a < Position(p) /\ Position(p) <= b}
    BY <1>3 DEF Page
  <2> QED
    BY <2>1, <2>2 DEF UpTo
<1>7. ASSUME ~HasNext(k) PROVE UpTo(b) = Live
  <2>1. Cardinality(Live) <= b
    BY <1>1, <1>3, <1>4, <1>7 DEF HasNext
  <2>2. ASSUME NEW p \in Live PROVE Position(p) <= b
    BY <1>1, <1>2, <1>4, <2>1
  <2> QED
    BY <2>2 DEF UpTo
<1> QED
  BY <1>3, <1>5, <1>6, <1>7

-----------------------------------------------------------------------------
(***************************************************************************)
(* While the owner edits nothing, what is on its way stays current.        *)
(***************************************************************************)
LEMMA HooksCurrent ==
    ASSUME IInv, [Next]_vars, UNCHANGED store, NEW h \in Handlers, CurrentHook(hook[h])
    PROVE  CurrentHook(hook[h])'
<1>0. TypeOK /\ hook[h] \in Hooks /\ hook[h].product \in Products
  BY DEF IInv, TypeOK, Hooks
<1>1. CASE hook'[h] = hook[h]
  BY <1>1 DEF CurrentHook
<1>2. CASE hook'[h] = IdleHook
  BY <1>2 DEF CurrentHook, IdleHook
<1>3. CASE Deliver(h)
  <2>1. PICK n \in hooks :
           hook' = [hook EXCEPT ![h] = [IdleHook EXCEPT
                        !.pc = IF n[1] = "upsert" THEN "fetch" ELSE "load",
                        !.event = n[1], !.product = n[2]]]
    BY <1>3 DEF Deliver, HookStep
  <2>2. hook'[h].event = n[1] /\ hook'[h].pc = IF n[1] = "upsert" THEN "fetch" ELSE "load"
    BY <1>0, <2>1 DEF TypeOK, IdleHook
  <2> QED
    BY <2>2 DEF CurrentHook
<1>4. CASE Fetch(h)
  <2>1. \/ hook'[h].payload = store[hook[h].product] /\ hook'[h].product = hook[h].product
        \/ hook'[h].event = "delete"
    BY <1>0, <1>4 DEF Fetch, HookStep, TypeOK, Hooks
  <2> QED
    BY <2>1 DEF CurrentHook
<1>5. CASE LoadRow(h)
  <2>1. hook[h].pc = "load"
    BY <1>5 DEF LoadRow
  <2>2. \/ hook'[h] = IdleHook
        \/ /\ hook'[h].event = hook[h].event /\ hook'[h].product = hook[h].product
           /\ hook'[h].payload = hook[h].payload
    BY <1>0, <1>5 DEF LoadRow, HookStep, TypeOK, Hooks
  <2> QED
    BY <1>2, <2>1, <2>2 DEF CurrentHook
<1> QED
  BY <1>0, <1>1, <1>2, <1>3, <1>4, <1>5, HookMoves

LEMMA SyncsCurrent ==
    ASSUME IInv, News, [Next]_vars, UNCHANGED store, NEW r \in Runners, CurrentSync(sync[r])
    PROVE  CurrentSync(sync[r])'
<1>0. TypeOK /\ sync[r] \in Syncs
  BY DEF IInv, TypeOK
<1>u. \A k : UpTo(k)' = UpTo(k)
  BY DEF UpTo, Live, Position
<1>l. Live' = Live
  BY DEF Live
<1>s. ASSUME NEW s, s = sync'[r],
             /\ s.pc = "pages" => s.seen = UpTo((s.page - 1) * PerPage)
             /\ s.pc = "commit" => s.seen = Live
             /\ s.pc \in {"pages", "commit"} => \A p \in s.seen : s.fetched[p] = store[p]
      PROVE  CurrentSync(sync[r])'
  BY <1>s, <1>u, <1>l DEF CurrentSync, UpTo
<1>1. CASE sync'[r] = sync[r]
  BY <1>1, <1>s DEF CurrentSync, UpTo
<1>2. CASE sync'[r].pc \in {"idle", "stamp"}
  BY <1>2, <1>s
<1>3. CASE Begin(r)
  <2>1. PICK force \in BOOLEAN :
           sync' = [sync EXCEPT ![r] = [IdleSync EXCEPT !.pc = "load", !.force = force]]
    BY <1>3 DEF Begin, SyncStep
  <2>2. sync'[r].pc = "load"
    BY <1>0, <2>1 DEF TypeOK, IdleSync
  <2> QED
    BY <2>2, <1>s
<1>4. CASE Load(r)
  <2>1. sync[r].pc = "load" /\ sync[r].seen = {}
    BY <1>4 DEF Load, News
  <2>2. sync'[r].pc = "pages" /\ sync'[r].seen = {} /\ sync'[r].page = 1
    BY <1>0, <1>4, <2>1 DEF Load, SyncStep, TypeOK, Syncs
  <2>3. UpTo((1 - 1) * PerPage) = {}
    <3>1. (1 - 1) * PerPage = 0
      BY MirrorAssumption
    <3> QED
      BY <3>1, Pages
  <2> QED
    BY <2>2, <2>3, <1>s
<1>5. CASE ReadPage(r)
  <2>1. PICK s, k : s = sync[r] /\ k = s.page
    OBVIOUS
  <2>2. s \in Syncs /\ k \in Nat /\ s.pc = "pages"
    BY <1>0, <1>5, <2>1 DEF ReadPage, Syncs
  <2>3. s.seen = UpTo((k - 1) * PerPage) /\ \A p \in s.seen : s.fetched[p] = store[p]
    BY <2>1, <2>2 DEF CurrentSync, UpTo
  <2>4. PICK t : t = sync'[r]
    OBVIOUS
  <2>5. /\ t.seen = s.seen \cup Page(k)
        /\ t.fetched = [p \in Products |-> IF p \in Page(k) THEN store[p] ELSE s.fetched[p]]
        /\ t.pc = IF HasNext(k) THEN "pages" ELSE "commit"
        /\ HasNext(k) => t.page = k + 1
    BY <1>0, <1>5, <2>1, <2>2, <2>4 DEF ReadPage, SyncStep, TypeOK, Syncs
  <2>6. t.seen = UpTo(k * PerPage) /\ (~HasNext(k) => t.seen = Live)
    BY <2>2, <2>3, <2>5, Pages
  <2>7. \A p \in t.seen : t.fetched[p] = store[p]
    <3>1. t.seen \subseteq Products
      BY <2>6 DEF UpTo, Live
    <3> QED
      BY <2>3, <2>5, <3>1
  <2>8. HasNext(k) => (t.page - 1) * PerPage = k * PerPage
    <3>1. (k + 1) - 1 = k
      BY <2>2
    <3> QED
      BY <2>5, <3>1
  <2> QED
    BY <2>4, <2>5, <2>6, <2>7, <2>8, <1>s
<1> QED
  BY <1>0, <1>1, <1>2, <1>3, <1>4, <1>5, SyncMoves

-----------------------------------------------------------------------------
(***************************************************************************)
(* What is current brings no row out of step, and a resync that nobody     *)
(* wrote beside brings them all in.                                        *)
(***************************************************************************)
RowInStep(p, row) ==
    IF p \in Live THEN row # NoRow /\ row.data = store[p] ELSE row = NoRow

LEMMA UpsertInStep ==
    ASSUME NEW p \in Live, NEW row \in Rows, NEW loaded \in Rows, ~Conflicts(row, loaded),
           row = loaded \/ RowInStep(p, row), NEW new \in Upserted(row, loaded, store[p])
    PROVE  RowInStep(p, new)
<1>0. store[p] \in Payloads
  BY DEF Live
<1>1. CASE loaded = NoRow
  <2>1. PICK i \in RowIds : new = [id |-> i, data |-> store[p]]
    BY <1>1 DEF Upserted
  <2> QED
    BY <1>0, <2>1, RowAssumption DEF RowInStep
<1>2. CASE loaded # NoRow
  <2>1. row # NoRow /\ row \in [id: RowIds, data: Payloads] /\ loaded \in [id: RowIds, data: Payloads]
    BY <1>2 DEF Conflicts, Still, Rows
  <2>2. PICK d : d = [c \in Columns |-> IF store[p][c] # loaded.data[c] THEN store[p][c]
                                        ELSE row.data[c]]
    OBVIOUS
  <2>3. new = [row EXCEPT !.data = d]
    BY <1>2, <2>2 DEF Upserted
  <2>4. row.data = loaded.data \/ row.data = store[p]
    BY <2>1 DEF RowInStep
  <2>5. d = store[p]
    <3>1. store[p] = [c \in Columns |-> store[p][c]]
      BY <1>0 DEF Payloads
    <3>2. \A c \in Columns : d[c] = store[p][c]
      BY <2>2, <2>4
    <3> QED
      BY <2>2, <3>1, <3>2
  <2>6. d \in Payloads
    BY <1>0, <2>5
  <2>7. new \in [id: RowIds, data: Payloads] /\ new.data = d
    BY <2>1, <2>3, <2>6
  <2> QED
    BY <2>5, <2>7, RowAssumption DEF RowInStep
<1> QED
  BY <1>1, <1>2

\* A resync that has read everything, over rows in step or the rows it loaded.
LEMMA SyncInStep ==
    ASSUME IInv, UNCHANGED store, NEW r \in Runners, CommitSync(r), CurrentSync(sync[r]),
           ~\E p \in sync[r].seen : Conflicts(mirror[p], sync[r].loaded[p]),
           InStep \/ (Live # {} /\ sync[r].loaded = mirror)
    PROVE  InStep'
<1>1. PICK s : s = sync[r]
  OBVIOUS
<1>2. /\ s \in Syncs /\ s.pc = "commit" /\ s.seen = Live /\ \A p \in Live : s.fetched[p] = store[p]
      /\ mirror \in [Products -> Rows] /\ s.loaded \in [Products -> Rows]
  BY <1>1 DEF CommitSync, CurrentSync, IInv, TypeOK, Syncs
<1>3. \A p \in Products :
         mirror'[p] \in IF p \in Pruned(s) THEN {Deleted(mirror[p], s.loaded[p])}
                        ELSE IF p \in s.seen THEN Upserted(mirror[p], s.loaded[p], s.fetched[p])
                        ELSE {mirror[p]}
  BY <1>1 DEF CommitSync
<1>4. ASSUME NEW p \in Products PROVE RowInStep(p, mirror'[p])
  <2>0. PICK new, row, loaded : new = mirror'[p] /\ row = mirror[p] /\ loaded = s.loaded[p]
    OBVIOUS
  <2>1. row \in Rows /\ loaded \in Rows /\ (row = loaded \/ RowInStep(p, row))
    BY <1>1, <1>2, <2>0 DEF InStep, RowInStep
  <2>2. CASE p \in Live
    <3>1. p \notin Pruned(s)
      BY <1>2, <2>2 DEF Pruned
    <3>2. new \in Upserted(row, loaded, store[p]) /\ ~Conflicts(row, loaded)
      BY <1>1, <1>2, <1>3, <2>0, <2>2, <3>1
    <3>3. RowInStep(p, new)
      BY <2>1, <2>2, <3>2, UpsertInStep
    <3> QED
      BY <2>0, <3>3
  <2>3. CASE p \notin Live
    <3>1. CASE InStep
      <4>1. row = NoRow
        BY <2>0, <2>3, <3>1 DEF InStep
      <4>2. new = NoRow
        BY <1>2, <1>3, <2>0, <2>3, <4>1 DEF Deleted
      <4> QED
        BY <2>0, <2>3, <4>2 DEF RowInStep
    <3>2. CASE Live # {} /\ sync[r].loaded = mirror
      <4>1. row = loaded
        BY <1>1, <2>0, <3>2
      <4>2. p \in Pruned(s) <=> loaded # NoRow
        BY <1>2, <2>0, <2>3, <3>2 DEF Pruned
      <4>3. new = IF loaded # NoRow THEN Deleted(row, loaded) ELSE row
        BY <1>2, <1>3, <2>0, <2>3, <4>2
      <4>4. new = NoRow
        BY <4>1, <4>3 DEF Deleted, Still
      <4> QED
        BY <2>0, <2>3, <4>4 DEF RowInStep
    <3> QED
      BY <3>1, <3>2
  <2> QED
    BY <2>2, <2>3
<1> QED
  BY <1>4 DEF InStep, RowInStep, Live

\* A handler over a mirror in step.
LEMMA HandlerInStep ==
    ASSUME IInv, News, UNCHANGED store, InStep, NEW h \in Handlers, CurrentHook(hook[h]),
           CommitDelete(h) \/ CommitUpsert(h)
    PROVE  InStep'
<1>1. PICK f, p : f = hook[h] /\ p = f.product
  OBVIOUS
<1>2. /\ f \in Hooks /\ p \in Products /\ f.pc = "commit" /\ Told(f.event, p) /\ HasPayload(f)
      /\ mirror \in [Products -> Rows] /\ f.loaded \in Rows
  BY <1>1 DEF IInv, TypeOK, Hooks, News, PayloadHeld, CommitDelete, CommitUpsert
<1>3. ASSUME NEW new, RowInStep(p, new), mirror' = [mirror EXCEPT ![p] = new] PROVE InStep'
  BY <1>2, <1>3 DEF InStep, RowInStep, Live
<1>4. CASE UNCHANGED mirror
  BY <1>4 DEF InStep, Live
<1>5. CASE CommitDelete(h)
  <2>1. p \notin Live
    BY <1>1, <1>2, <1>5, RowAssumption DEF CommitDelete, Told, Live
  <2>2. mirror[p] = NoRow
    BY <1>2, <2>1 DEF InStep
  <2>3. mirror' = [mirror EXCEPT ![p] = NoRow]
    BY <1>1, <1>2, <1>5, <2>2 DEF CommitDelete, Deleted
  <2> QED
    BY <1>3, <2>1, <2>3 DEF RowInStep
<1>6. CASE CommitUpsert(h) /\ ~UNCHANGED mirror
  <2>1. f.payload = store[p] /\ store[p] \in Payloads
    BY <1>1, <1>2, <1>6 DEF CommitUpsert, CurrentHook, HasPayload
  <2>2. p \in Live
    BY <1>2, <2>1 DEF Live
  <2>3. /\ ~Conflicts(mirror[p], f.loaded)
        /\ \E row \in Upserted(mirror[p], f.loaded, store[p]) : mirror' = [mirror EXCEPT ![p] = row]
    BY <1>1, <1>6, <2>1 DEF CommitUpsert
  <2>4. PICK row \in Upserted(mirror[p], f.loaded, store[p]) : mirror' = [mirror EXCEPT ![p] = row]
    BY <2>3
  <2>5. RowInStep(p, mirror[p]) /\ mirror[p] \in Rows
    BY <1>2 DEF InStep, RowInStep
  <2>6. RowInStep(p, row)
    BY <1>2, <2>2, <2>3, <2>5, UpsertInStep
  <2> QED
    BY <1>3, <2>4, <2>6
<1> QED
  BY <1>4, <1>5, <1>6

\* Nothing else writes the mirror, nor commits a resync.
LEMMA Writers ==
    ASSUME TypeOK, [Next]_vars
    PROVE  \/ UNCHANGED mirror /\ \A r \in Runners :
                  ~(sync[r].pc = "commit" /\ sync'[r].pc = "stamp")
           \/ \E h \in Handlers : CommitDelete(h) \/ CommitUpsert(h)
           \/ \E r \in Runners : CommitSync(r)
<1>1. ASSUME NEW r \in Runners, sync'[r] = sync[r]
      PROVE  ~(sync[r].pc = "commit" /\ sync'[r].pc = "stamp")
  BY <1>1
<1>2. CASE UNCHANGED <<mirror, sync>>
  BY <1>1, <1>2
<1>3. ASSUME NEW r \in Runners, Begin(r) \/ Load(r) \/ ReadPage(r) \/ Stamp(r) \/ AbortSync(r)
                                  \/ CrashBeforeStamp(r)
      PROVE  /\ UNCHANGED mirror
             /\ \A t \in Runners : ~(sync[t].pc = "commit" /\ sync'[t].pc = "stamp")
  <2>1. UNCHANGED mirror
    BY <1>3 DEF Begin, Load, ReadPage, Stamp, AbortSync, CrashBeforeStamp
  <2>2. ASSUME NEW t \in Runners, t # r PROVE sync'[t] = sync[t]
    BY <1>3, <2>2 DEF Begin, Load, ReadPage, Stamp, AbortSync, CrashBeforeStamp, SyncStep, TypeOK
  <2>3. sync[r].pc = "commit" => sync'[r] = IdleSync
    BY <1>3 DEF Begin, Load, ReadPage, Stamp, AbortSync, CrashBeforeStamp, SyncStep, TypeOK
  <2>4. IdleSync.pc = "idle"
    BY DEF IdleSync
  <2> QED
    BY <1>1, <2>1, <2>2, <2>3, <2>4
<1>4. ASSUME NEW h \in Handlers, Deliver(h) \/ Fetch(h) \/ LoadRow(h) \/ FetchFails(h) \/ Defer(h)
      PROVE  UNCHANGED <<mirror, sync>>
  BY <1>4 DEF Deliver, Fetch, LoadRow, FetchFails, Defer, HookStep
<1>5. CASE \/ \E p \in Products : Create(p) \/ Edit(p) \/ Remove(p)
           \/ LoseHook \/ IntervalPasses \/ UNCHANGED vars
  BY <1>2, <1>5 DEF Create, Edit, Remove, Change, LoseHook, IntervalPasses, vars
<1> QED
  BY <1>2, <1>3, <1>4, <1>5 DEF Next, Handle, RunSync

\* The steps that MirrorConverges is made of: from when the owner edits nothing
\* more and what is on its way is current, a resync that nobody wrote beside
\* brings the mirror in step, and nothing that is lost, duplicated, refused or
\* aborted, nor any other writer, takes it out of step again.
THEOREM MirrorStays == Spec => StaysInStep
<1> DEFINE Act == Current /\ UNCHANGED store =>
        /\ Current'
        /\ InStep \/ (Live # {} /\ \E r \in Runners : Reconciles(r)) => InStep'
<1>1. IInv /\ News /\ [Next]_vars => [Act]_vars
  <2> SUFFICES ASSUME IInv, News, [Next]_vars, Current, UNCHANGED store
               PROVE  /\ Current'
                      /\ InStep \/ (Live # {} /\ \E r \in Runners : Reconciles(r)) => InStep'
    OBVIOUS
  <2>1. TypeOK
    BY DEF IInv
  <2>2. Current'
    BY HooksCurrent, SyncsCurrent DEF Current
  <2>3. ASSUME InStep \/ (Live # {} /\ \E r \in Runners : Reconciles(r)) PROVE InStep'
    <3>1. CASE \E r \in Runners : CommitSync(r)
      <4>1. PICK r \in Runners : CommitSync(r)
        BY <3>1
      <4>2. \A t \in Runners : t # r => sync'[t] = sync[t]
        BY <2>1, <4>1 DEF CommitSync, SyncStep, TypeOK
      <4>3. CASE \E p \in sync[r].seen : Conflicts(mirror[p], sync[r].loaded[p])
        <5>1. UNCHANGED mirror /\ sync'[r].pc = "idle"
          BY <2>1, <4>1, <4>3 DEF CommitSync, SyncStep, TypeOK, IdleSync
        <5>2. \A t \in Runners : ~Reconciles(t)
          BY <4>2, <5>1 DEF Reconciles
        <5> QED
          BY <2>3, <5>1, <5>2 DEF InStep, Live
      <4>4. CASE ~\E p \in sync[r].seen : Conflicts(mirror[p], sync[r].loaded[p])
        <5>1. InStep \/ (Live # {} /\ sync[r].loaded = mirror)
          BY <2>3, <4>2 DEF Reconciles
        <5>2. CurrentSync(sync[r])
          BY DEF Current
        <5> QED
          BY <4>1, <4>4, <5>1, <5>2, SyncInStep
      <4> QED
        BY <4>3, <4>4
    <3>2. CASE \E h \in Handlers : CommitDelete(h) \/ CommitUpsert(h)
      <4>1. PICK h \in Handlers : CommitDelete(h) \/ CommitUpsert(h)
        BY <3>2
      <4>2. UNCHANGED sync
        BY <4>1 DEF CommitDelete, CommitUpsert, HookStep
      <4>3. InStep
        BY <2>3, <4>2 DEF Reconciles
      <4> QED
        BY <4>1, <4>3, HandlerInStep DEF Current
    <3>3. CASE UNCHANGED mirror /\ \A r \in Runners :
                  ~(sync[r].pc = "commit" /\ sync'[r].pc = "stamp")
      BY <2>3, <3>3 DEF Reconciles, InStep, Live
    <3> QED
      BY <2>1, <3>1, <3>2, <3>3, Writers
  <2> QED
    BY <2>2, <2>3
<1>2. StaysInStep <=> [][Act]_vars
  BY PTL DEF StaysInStep
<1> QED
  BY InitInv, NextInv, InitNews, NextNews, <1>1, <1>2, PTL DEF Spec
=============================================================================
