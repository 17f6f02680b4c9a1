------------------------ MODULE CatalogueServing_proofs ------------------------
(***************************************************************************)
(* Proofs about CatalogueServing for any number of instances, requests,    *)
(* writes and failures.                                                    *)
(*                                                                         *)
(* The threads of an instance share its cache, and writes overlap: what a  *)
(* request knows of the cache between two of its steps stays true only     *)
(* until another thread empties or fills it.  The histories of the model   *)
(* (late, raced, beside) say when that happened, and the invariants here   *)
(* (Marked, FillsNew, SavedInTurn) that nothing else can go wrong.         *)
(***************************************************************************)
EXTENDS CatalogueServing, TLAPS

\* A request that is going to read the catalogue has a read left.
Reading == {"read", "check", "query", "load", "fill"}
ReadsLeft == \A w \in Workers : visit[w].pc \in Reading => visit[w].left \in 1..3

\* A worker does not render and write at once, and only a writer writes.
Exclusive ==
    \A w \in Workers :
        /\ visit[w].pc # "idle" => write[w].pc = "idle"
        /\ write[w].pc # "idle" => w \in Writers

\* The inductive invariant that holds whatever the deployment.
IInv == TypeOK /\ ReadsLeft /\ Exclusive

-----------------------------------------------------------------------------
LEMMA Numbers == 0 \in Versions /\ MaxWrites \in Versions /\ Nothing \in Contents
BY ServingAssumption DEF Versions, Contents

\* Nothing is running.
LEMMA NoTypes ==
    NoVisit \in Visits /\ NoWrite \in Writes /\ NoCache \in Caches /\ NoCopy \in Copies
<1>1. "listing" \in Pages
  BY DEF Pages
<1> QED
  BY <1>1, Numbers DEF NoVisit, Visits, NoWrite, Writes, NoCache, Caches, NoCopy, Copies

LEMMA InitInv == Init => IInv
<1> SUFFICES ASSUME Init PROVE IInv
  OBVIOUS
<1>1. visit \in [Workers -> Visits] /\ write \in [Workers -> Writes]
      /\ cache \in [Instances -> Caches]
  BY NoTypes DEF Init
<1>2. cdn \in [Pages -> Copies]
  BY NoTypes DEF Init
<1>3. db \in Versions /\ snapshot \in Contents /\ wrote \in [Instances -> Versions]
      /\ faults \in 0..MaxFaults /\ up \in BOOLEAN
  BY Numbers, ServingAssumption DEF Init, Contents
<1>4. ReadsLeft /\ Exclusive
  BY DEF Init, ReadsLeft, Exclusive, Reading, NoVisit, NoWrite
<1> QED
  BY <1>1, <1>2, <1>3, <1>4 DEF IInv, TypeOK

\* What has been rendered so far, with one read less to make.
LEMMA RenderedTypes ==
    ASSUME NEW v \in Visits, v.left \in 1..3, NEW content \in Contents, NEW degraded \in BOOLEAN
    PROVE  /\ Rendered(v, content, degraded) \in Visits
           /\ Rendered(v, content, degraded).pc \in {"read", "respond"}
           /\ Rendered(v, content, degraded).pc = "read" => Rendered(v, content, degraded).left \in 1..3
           /\ Rendered(v, content, degraded).page = v.page
           /\ Rendered(v, content, degraded).marked = v.marked
           /\ Rendered(v, content, degraded).raced = v.raced
           /\ Rendered(v, content, degraded).fallback = (v.fallback \/ degraded)
           /\ ~Rendered(v, content, degraded).degraded
<1> DEFINE left == v.left - 1
           oldest == IF content < v.oldest THEN content ELSE v.oldest
           fallback == v.fallback \/ degraded
           pc == IF v.left = 1 THEN "respond" ELSE "read"
           r == [v EXCEPT !.left = left, !.got = Nothing, !.degraded = FALSE, !.late = FALSE,
                          !.oldest = oldest, !.fallback = fallback, !.pc = pc]
<1>1. Rendered(v, content, degraded) = r
  BY DEF Rendered
<1>2. left \in 0..3 /\ (pc = "read" => left \in 1..3) /\ pc \in {"read", "respond"}
  OBVIOUS
<1>3. oldest \in Contents /\ fallback \in BOOLEAN /\ Nothing \in Contents
  BY Numbers DEF Visits
<1>h. fallback = (v.fallback \/ degraded)
  OBVIOUS
<1> HIDE DEF left, oldest, fallback, pc
<1>4. r \in Visits
  BY <1>2, <1>3 DEF Visits
<1>5. /\ r.pc = pc /\ r.left = left /\ r.page = v.page /\ r.marked = v.marked
      /\ r.fallback = fallback /\ ~r.degraded /\ r.raced = v.raced
  BY DEF Visits
<1> QED
  BY <1>1, <1>2, <1>4, <1>5, <1>h

\* Another thread's change of the cache is only remembered by a request.
LEMMA OvertakenTypes ==
    ASSUME TypeOK, NEW i, NEW invalidated \in BOOLEAN
    PROVE  /\ Overtaken(i, invalidated) \in [Workers -> Visits]
           /\ \A w \in Workers :
                LET v == visit[w]
                    o == Overtaken(i, invalidated)[w]
                IN /\ o.pc = v.pc /\ o.page = v.page /\ o.left = v.left /\ o.got = v.got
                   /\ o.degraded = v.degraded /\ o.marked = v.marked /\ o.fallback = v.fallback
                   /\ v.raced => o.raced
                   /\ Home[w] = i /\ v.pc = "check" /\ v.degraded => o.raced
                   /\ v.late => o.late
                   /\ Home[w] = i /\ invalidated /\ v.pc = "fill" /\ ~v.degraded => o.late
                   /\ Home[w] # i => o = v
<1> DEFINE O == Overtaken(i, invalidated)
           late(v) == v.late \/ (invalidated /\ v.pc = "fill" /\ ~v.degraded)
           raced(v) == v.raced \/ (v.pc = "check" /\ v.degraded)
           told(v) == [v EXCEPT !.late = late(v), !.raced = raced(v)]
<1>1. O = [w \in Workers |-> IF Home[w] = i THEN told(visit[w]) ELSE visit[w]]
  BY DEF Overtaken
<1>2. ASSUME NEW v \in Visits
      PROVE  /\ told(v) \in Visits
             /\ told(v).pc = v.pc /\ told(v).page = v.page /\ told(v).left = v.left
             /\ told(v).got = v.got /\ told(v).degraded = v.degraded
             /\ told(v).marked = v.marked /\ told(v).fallback = v.fallback
             /\ v.raced => told(v).raced
             /\ v.pc = "check" /\ v.degraded => told(v).raced
             /\ v.late => told(v).late
             /\ invalidated /\ v.pc = "fill" /\ ~v.degraded => told(v).late
  <2> DEFINE l == late(v)
             r == raced(v)
             t == [v EXCEPT !.late = l, !.raced = r]
  <2>1. l \in BOOLEAN /\ r \in BOOLEAN
    BY Zenon DEF Visits
  <2>2. told(v) = t
    OBVIOUS
  <2>3. /\ v.late => l
        /\ invalidated /\ v.pc = "fill" /\ ~v.degraded => l
        /\ v.raced => r
        /\ v.pc = "check" /\ v.degraded => r
    BY Zenon
  <2> HIDE DEF l, r, late, raced, told
  <2>4. t \in Visits /\ t.late = l /\ t.raced = r
    BY <2>1 DEF Visits
  <2>5. t.pc = v.pc /\ t.page = v.page /\ t.left = v.left /\ t.got = v.got
        /\ t.degraded = v.degraded /\ t.marked = v.marked /\ t.fallback = v.fallback
    BY DEF Visits
  <2> QED
    BY <2>2, <2>3, <2>4, <2>5
<1>3. visit \in [Workers -> Visits]
  BY DEF TypeOK
<1> HIDE DEF told, O
<1>4. ASSUME NEW w \in Workers
      PROVE  O[w] = IF Home[w] = i THEN told(visit[w]) ELSE visit[w]
  BY <1>1
<1>5. O \in [Workers -> Visits]
  BY <1>1, <1>2, <1>3
<1>6. ASSUME NEW w \in Workers
      PROVE  LET v == visit[w]
                 o == O[w]
             IN /\ o.pc = v.pc /\ o.page = v.page /\ o.left = v.left /\ o.got = v.got
                /\ o.degraded = v.degraded /\ o.marked = v.marked /\ o.fallback = v.fallback
                /\ v.raced => o.raced
                /\ Home[w] = i /\ v.pc = "check" /\ v.degraded => o.raced
                /\ v.late => o.late
                /\ Home[w] = i /\ invalidated /\ v.pc = "fill" /\ ~v.degraded => o.late
                /\ Home[w] # i => o = v
  <2>1. visit[w] \in Visits
    BY <1>3
  <2>2. CASE Home[w] = i
    <3>1. O[w] = told(visit[w])
      BY <1>4, <2>2
    <3> QED
      BY <1>2, <2>1, <2>2, <3>1
  <2>3. CASE Home[w] # i
    BY <1>4, <2>3
  <2> QED
    BY <2>2, <2>3
<1> QED
  BY <1>5, <1>6 DEF O

\* A step of a page request, and what it may do to the cache and the CDN.
LEMMA VisitInv ==
    ASSUME IInv, NEW w \in Workers, NEW fields \in Visits,
           VisitStep(w, fields), fields.pc \in Reading => fields.left \in 1..3,
           fields.pc # "idle" => write[w].pc = "idle",
           cache' \in [Instances -> Caches], cdn' \in [Pages -> Copies]
    PROVE  IInv'
<1>1. visit' = [visit EXCEPT ![w] = fields] /\ visit \in [Workers -> Visits]
  BY DEF VisitStep, IInv, TypeOK
<1> QED
  BY <1>1 DEF VisitStep, IInv, TypeOK, ReadsLeft, Exclusive

LEMMA PageInv ==
    ASSUME IInv, NEW w \in Workers,
           \/ \E p \in Pages : Visit(w, p)
           \/ Read(w) \/ Check(w) \/ Query(w) \/ Load(w) \/ Fill(w) \/ Respond(w)
    PROVE  IInv'
<1>0. /\ TypeOK /\ visit[w] \in Visits /\ Home[w] \in Instances /\ cache[Home[w]] \in Caches
      /\ visit[w].pc # "idle" => write[w].pc = "idle"
      /\ visit[w].pc \in Reading => visit[w].left \in 1..3
  BY ServingAssumption DEF IInv, TypeOK, ReadsLeft, Exclusive
<1>1. ASSUME NEW p \in Pages, Visit(w, p) PROVE IInv'
  <2> DEFINE left == Reads[p]
             fields == [NoVisit EXCEPT !.pc = "read", !.page = p, !.left = left,
                                       !.oldest = MaxWrites]
  <2>1. left \in 1..3 /\ left \in 0..3
    BY DEF Reads, Pages
  <2>2. fields \in Visits /\ fields.left \in 1..3
    <3>1. MaxWrites \in Contents
      BY Numbers DEF Contents
    <3> HIDE DEF left
    <3> QED
      BY <2>1, <3>1, NoTypes DEF Visits
  <2>3. VisitStep(w, fields) /\ write[w].pc = "idle"
    BY <1>1 DEF Visit, Idle
  <2> HIDE DEF fields
  <2> QED
    BY <1>0, <1>1, <2>2, <2>3, VisitInv DEF Visit, TypeOK
<1>2. CASE Read(w)
  <2>1. visit[w].left \in 1..3 /\ write[w].pc = "idle"
    BY <1>0, <1>2 DEF Read, Reading
  <2>2. cache[Home[w]].content \in Contents /\ cache[Home[w]].degraded \in BOOLEAN
    BY <1>0 DEF Caches
  <2> DEFINE c == cache[Home[w]]
             query == [visit[w] EXCEPT !.pc = "query"]
             check == [visit[w] EXCEPT !.pc = "check", !.got = c.content, !.degraded = c.degraded]
             hit == Rendered(visit[w], c.content, c.degraded)
  <2>3. query \in Visits /\ query.left \in 1..3 /\ check \in Visits /\ check.left \in 1..3
    BY <1>0, <2>1, <2>2 DEF Visits
  <2>4. hit \in Visits /\ (hit.pc \in Reading => hit.left \in 1..3)
    BY <1>0, <2>1, <2>2, RenderedTypes DEF Reading
  <2>5. VisitStep(w, query) \/ VisitStep(w, check) \/ VisitStep(w, hit)
    BY <1>2 DEF Read
  <2> HIDE DEF query, check, hit
  <2> QED
    BY <1>0, <1>2, <2>1, <2>3, <2>4, <2>5, VisitInv DEF Read, TypeOK
<1>3. CASE Check(w)
  <2>1. visit[w].left \in 1..3 /\ write[w].pc = "idle"
    BY <1>0, <1>3 DEF Check, Reading
  <2> DEFINE rendered == Rendered(visit[w], visit[w].got, visit[w].degraded)
             fields == [rendered EXCEPT !.marked = @ \/ cache[Home[w]].degraded]
  <2>2. rendered \in Visits /\ (rendered.pc \in Reading => rendered.left \in 1..3)
    BY <1>0, <2>1, RenderedTypes DEF Visits, Reading
  <2>3. VisitStep(w, fields)
    BY <1>3 DEF Check
  <2> HIDE DEF rendered
  <2>4. fields \in Visits /\ (fields.pc \in Reading => fields.left \in 1..3)
    BY <1>0, <2>2 DEF Visits, Caches
  <2> HIDE DEF fields
  <2> QED
    BY <1>0, <1>3, <2>1, <2>3, <2>4, VisitInv DEF Check, TypeOK
<1>4. CASE Query(w)
  <2>1. visit[w].left \in 1..3 /\ write[w].pc = "idle"
    BY <1>0, <1>4 DEF Query, Reading
  <2> DEFINE fill == [visit[w] EXCEPT !.pc = "fill", !.got = db]
             load == [visit[w] EXCEPT !.pc = "load"]
  <2>2. fill \in Visits /\ fill.left \in 1..3 /\ load \in Visits /\ load.left \in 1..3
    BY <1>0, <2>1 DEF Visits, TypeOK, Contents
  <2>3. VisitStep(w, fill) \/ VisitStep(w, load)
    BY <1>4 DEF Query
  <2> HIDE DEF fill, load
  <2> QED
    BY <1>0, <1>4, <2>1, <2>2, <2>3, VisitInv DEF Query, TypeOK
<1>5. CASE Load(w)
  <2>1. visit[w].left \in 1..3 /\ write[w].pc = "idle"
    BY <1>0, <1>5 DEF Load, Reading
  <2> DEFINE fields == [visit[w] EXCEPT !.pc = "fill", !.got = snapshot,
                                        !.degraded = TRUE, !.marked = TRUE]
  <2>2. fields \in Visits /\ fields.left \in 1..3
    BY <1>0, <2>1 DEF Visits, TypeOK
  <2>3. VisitStep(w, fields)
    BY <1>5 DEF Load
  <2> HIDE DEF fields
  <2> QED
    BY <1>0, <1>5, <2>1, <2>2, <2>3, VisitInv DEF Load, TypeOK
<1>6. CASE Fill(w)
  <2>1. visit[w].left \in 1..3 /\ write[w].pc = "idle"
    BY <1>0, <1>6 DEF Fill, Reading
  <2>2. visit[w].got \in Contents /\ visit[w].degraded \in BOOLEAN
    BY <1>0 DEF Visits
  <2> DEFINE fields == Rendered(visit[w], visit[w].got, visit[w].degraded)
  <2>3. fields \in Visits /\ (fields.pc \in Reading => fields.left \in 1..3)
    BY <1>0, <2>1, <2>2, RenderedTypes DEF Reading
  <2>4. cache' \in [Instances -> Caches]
    <3> DEFINE filled == [content |-> visit[w].got, fresh |-> TRUE,
                          degraded |-> visit[w].degraded, late |-> visit[w].late]
    <3>1. filled \in Caches
      BY <1>0, <2>2 DEF Caches, Visits
    <3>2. cache' = [cache EXCEPT ![Home[w]] = filled]
      BY <1>6 DEF Fill
    <3> HIDE DEF filled
    <3> QED
      BY <1>0, <3>1, <3>2 DEF TypeOK
  <2> DEFINE told == Overtaken(Home[w], FALSE)
  <2>5. /\ told \in [Workers -> Visits]
        /\ \A u \in Workers : told[u].pc = visit[u].pc /\ told[u].left = visit[u].left
    BY <1>0, OvertakenTypes
  <2>6. visit' = [told EXCEPT ![w] = fields]
    BY <1>6 DEF Fill
  <2> HIDE DEF fields, told
  <2>7. visit' \in [Workers -> Visits] /\ ReadsLeft' /\ Exclusive'
    <3>1. UNCHANGED write
      BY <1>6 DEF Fill
    <3>2. visit' \in [Workers -> Visits]
      BY <2>3, <2>5, <2>6
    <3>3. ASSUME NEW u \in Workers, u # w
          PROVE  visit'[u].pc = visit[u].pc /\ visit'[u].left = visit[u].left
      BY <2>5, <2>6, <3>3
    <3>4. visit'[w] = fields
      BY <2>5, <2>6
    <3>5. ReadsLeft'
      BY <2>3, <3>3, <3>4 DEF IInv, ReadsLeft
    <3>6. Exclusive'
      BY <2>1, <3>1, <3>3 DEF IInv, Exclusive
    <3> QED
      BY <3>2, <3>5, <3>6
  <2> QED
    BY <1>0, <1>6, <2>4, <2>7 DEF Fill, IInv, TypeOK
<1>7. CASE Respond(w)
  <2>1. cdn' \in [Pages -> Copies]
    BY <1>0, <1>7 DEF Respond, TypeOK, Copies, Visits
  <2>2. NoVisit.pc = "idle"
    BY DEF NoVisit
  <2> QED
    BY <1>0, <1>7, <2>1, <2>2, NoTypes, VisitInv DEF Respond, TypeOK, Reading
<1> QED
  BY <1>1, <1>2, <1>3, <1>4, <1>5, <1>6, <1>7

-----------------------------------------------------------------------------
\* A step of a write that touches neither cache nor pages being rendered.
LEMMA WriteInv ==
    ASSUME IInv, NEW w \in Workers, NEW fields \in Writes, WriteStep(w, fields),
           fields.pc # "idle" => w \in Writers /\ visit[w].pc = "idle",
           db' \in Versions, snapshot' \in Contents, cdn' \in [Pages -> Copies],
           wrote' \in [Instances -> Versions]
    PROVE  IInv'
<1>1. write' = [write EXCEPT ![w] = fields] /\ write \in [Workers -> Writes]
  BY DEF WriteStep, IInv, TypeOK
<1> QED
  BY <1>1 DEF WriteStep, IInv, TypeOK, ReadsLeft, Exclusive

LEMMA MirrorInv ==
    ASSUME IInv, NEW w \in Workers,
           \/ Commit(w) \/ Invalidate(w) \/ Scan(w) \/ Save(w) \/ Purge(w)
           \/ SaveFails(w) \/ PurgeFails(w)
    PROVE  IInv'
<1>0. /\ TypeOK /\ write[w] \in Writes /\ Home[w] \in Instances
      /\ write[w].pc # "idle" => w \in Writers /\ visit[w].pc = "idle"
      /\ write \in [Workers -> Writes]
  BY ServingAssumption DEF IInv, TypeOK, Exclusive
<1>f. Fault => faults' \in 0..MaxFaults
  BY <1>0, ServingAssumption DEF Fault, TypeOK
<1>1. CASE Commit(w)
  <2> DEFINE beside == \E v \in Workers : write[v].pc = "save"
             fields == [NoWrite EXCEPT !.pc = Then("commit"), !.version = db + 1,
                                       !.beside = beside]
  <2>1. db + 1 \in Versions
    BY <1>0, <1>1, ServingAssumption DEF Commit, TypeOK, Versions
  <2>2. Then("commit") = "invalidate" /\ beside \in BOOLEAN
    BY DEF Then
  <2>3. fields \in Writes
    <3> HIDE DEF beside
    <3> QED
      BY <2>1, <2>2, NoTypes DEF Writes
  <2>4. WriteStep(w, fields) /\ w \in Writers /\ visit[w].pc = "idle"
    BY <1>1 DEF Commit, Idle
  <2> HIDE DEF fields
  <2> QED
    BY <1>0, <1>1, <2>1, <2>3, <2>4, WriteInv DEF Commit, TypeOK
<1>2. CASE Invalidate(w)
  <2>1. write' = [write EXCEPT ![w].pc = "scan"] /\ write[w].pc # "idle"
    BY <1>2 DEF Invalidate, InvalidateStep, Then
  <2>2. write' \in [Workers -> Writes]
    BY <1>0, <2>1 DEF Writes
  <2>3. cache' \in [Instances -> Caches] /\ wrote' \in [Instances -> Versions]
    BY <1>0, <1>2, NoTypes DEF Invalidate, InvalidateStep, TypeOK, Writes
  <2>4. visit' = Overtaken(Home[w], TRUE)
    BY <1>2 DEF Invalidate, InvalidateStep
  <2>5. /\ visit' \in [Workers -> Visits]
        /\ \A u \in Workers : visit'[u].pc = visit[u].pc /\ visit'[u].left = visit[u].left
    BY <1>0, <2>4, OvertakenTypes
  <2>6. ReadsLeft'
    BY <2>5 DEF IInv, ReadsLeft
  <2>7. Exclusive'
    BY <1>0, <2>1, <2>5 DEF IInv, Exclusive
  <2> QED
    BY <1>0, <1>2, <2>2, <2>3, <2>5, <2>6, <2>7 DEF Invalidate, InvalidateStep, IInv, TypeOK
<1>3. CASE Scan(w)
  <2> DEFINE scanned == [write[w] EXCEPT !.pc = Then("scan"), !.rows = db]
             unread == [write[w] EXCEPT !.pc = Then("save"), !.unsaved = TRUE]
  <2>1. Then("scan") = "save" /\ Then("save") = "purge"
    BY DEF Then
  <2>2. scanned \in Writes /\ unread \in Writes
    BY <1>0, <2>1 DEF Writes, TypeOK
  <2>3. WriteStep(w, scanned) \/ WriteStep(w, unread)
    BY <1>3 DEF Scan
  <2>4. write[w].pc # "idle"
    BY <1>3 DEF Scan
  <2> HIDE DEF scanned, unread
  <2> QED
    BY <1>0, <1>3, <2>2, <2>3, <2>4, WriteInv DEF Scan, TypeOK
<1>4. CASE Save(w)
  <2> DEFINE fields == [write[w] EXCEPT !.pc = Then("save")]
  <2>1. fields \in Writes
    BY <1>0 DEF Writes, Then
  <2>2. WriteStep(w, fields) /\ write[w].pc # "idle" /\ snapshot' = write[w].rows
    BY <1>4 DEF Save
  <2>3. snapshot' \in Contents
    BY <1>0, <2>2 DEF Writes, Contents
  <2> HIDE DEF fields
  <2> QED
    BY <1>0, <1>4, <2>1, <2>2, <2>3, WriteInv DEF Save, TypeOK
<1>5. CASE Purge(w)
  <2>1. WriteStep(w, NoWrite)
    BY <1>5 DEF Purge, Then
  <2>2. cdn' \in [Pages -> Copies]
    BY <1>0, <1>5 DEF Purge, TypeOK, Copies
  <2>3. NoWrite.pc = "idle"
    BY DEF NoWrite
  <2> QED
    BY <1>0, <1>5, <2>1, <2>2, <2>3, NoTypes, WriteInv DEF Purge, TypeOK
<1>6. CASE SaveFails(w)
  <2>1. write' = [write EXCEPT ![w].pc = "purge", ![w].unsaved = TRUE]
    BY <1>6 DEF SaveFails, Then
  <2>2. write' \in [Workers -> Writes]
    BY <1>0, <2>1 DEF Writes
  <2>3. Exclusive'
    BY <1>0, <1>6, <2>1 DEF SaveFails, IInv, Exclusive
  <2> QED
    BY <1>0, <1>f, <1>6, <2>2, <2>3 DEF SaveFails, IInv, TypeOK, ReadsLeft
<1>7. CASE PurgeFails(w)
  <2>1. write' \in [Workers -> Writes]
    BY <1>0, <1>7, NoTypes DEF PurgeFails
  <2>2. Exclusive'
    BY <1>0, <1>7 DEF PurgeFails, IInv, Exclusive, NoWrite
  <2> QED
    BY <1>0, <1>f, <1>7, <2>1, <2>2 DEF PurgeFails, IInv, TypeOK, ReadsLeft
<1> QED
  BY <1>1, <1>2, <1>3, <1>4, <1>5, <1>6, <1>7

\* Time passes, Postgres comes and goes, instances restart.
LEMMA WorldInv ==
    ASSUME IInv,
           \/ \E i \in Instances : CacheExpires(i) \/ Restart(i)
           \/ \E p \in Pages : PageExpires(p)
           \/ Outage \/ Recovery
    PROVE  IInv'
<1>f. Fault => faults' \in 0..MaxFaults
  BY ServingAssumption DEF Fault, IInv, TypeOK
<1>1. ASSUME NEW i \in Instances, CacheExpires(i) PROVE IInv'
  <2>1. cache' \in [Instances -> Caches]
    BY <1>1 DEF CacheExpires, IInv, TypeOK, Caches
  <2> QED
    BY <1>1, <2>1 DEF CacheExpires, IInv, TypeOK, ReadsLeft, Exclusive
<1>2. ASSUME NEW i \in Instances, Restart(i) PROVE IInv'
  <2>1. /\ cache' \in [Instances -> Caches] /\ visit' \in [Workers -> Visits]
        /\ write' \in [Workers -> Writes]
    BY <1>2, NoTypes DEF Restart, IInv, TypeOK
  <2>2. ReadsLeft' /\ Exclusive'
    BY <1>2 DEF Restart, IInv, ReadsLeft, Exclusive, NoVisit, NoWrite, Reading
  <2> QED
    BY <1>f, <1>2, <2>1, <2>2 DEF Restart, IInv, TypeOK
<1>3. ASSUME NEW p \in Pages, PageExpires(p) PROVE IInv'
  <2>1. cdn' \in [Pages -> Copies]
    BY <1>3 DEF PageExpires, IInv, TypeOK, Copies
  <2> QED
    BY <1>3, <2>1 DEF PageExpires, IInv, TypeOK, ReadsLeft, Exclusive
<1>4. CASE Outage \/ Recovery
  BY <1>f, <1>4 DEF Outage, Recovery, IInv, TypeOK, ReadsLeft, Exclusive
<1> QED
  BY <1>1, <1>2, <1>3, <1>4

LEMMA NextInv == IInv /\ [Next]_vars => IInv'
<1> SUFFICES ASSUME IInv, [Next]_vars PROVE IInv'
  OBVIOUS
<1>1. CASE UNCHANGED vars
  BY <1>1 DEF vars, IInv, TypeOK, ReadsLeft, Exclusive
<1> QED
  BY <1>1, PageInv, MirrorInv, WorldInv DEF Next, Serve

\* The inductive invariant holds in every reachable state.
THEOREM Invariance == Spec => []IInv
BY InitInv, NextInv, PTL DEF Spec

\* Caches, snapshots, pages and writes keep their types: whatever is read,
\* saved or pinned is a table some write left, or the snapshot's absence.
THEOREM TypeCorrect == Spec => []TypeOK
<1>1. IInv => TypeOK
  BY DEF IInv
<1> QED
  BY <1>1, Invariance, PTL

-----------------------------------------------------------------------------
(***************************************************************************)
(* A listing made of the snapshot is marked, unless it lost a race.        *)
(***************************************************************************)
\* What a page request knows of the cache c of its instance: a listing that
\* shows the snapshot's content is marked, and one that is about to ask
\* is_degraded of content that is will be told so, unless it was raced.
MarkedAt(v, c) ==
    /\ v.page = "listing" /\ v.fallback => v.marked \/ v.raced
    /\ v.pc = "check" /\ v.degraded => c.degraded \/ v.raced
    /\ v.pc = "fill" /\ v.degraded => v.marked
    /\ v.pc \in {"read", "query", "load"} => ~v.degraded
Marked == \A w \in Workers : MarkedAt(visit[w], cache[Home[w]])

\* A step of a request that leaves the caches alone.
LEMMA MarkedStep ==
    ASSUME IInv, Marked, NEW w \in Workers, NEW fields, VisitStep(w, fields),
           UNCHANGED cache, MarkedAt(fields, cache[Home[w]])
    PROVE  Marked'
<1>1. /\ visit'[w] = fields
      /\ \A u \in Workers : u # w => visit'[u] = visit[u]
  BY DEF VisitStep, IInv, TypeOK
<1> QED
  BY <1>1 DEF Marked

\* A change of instance i's cache, as its requests remember it.
LEMMA MarkedTold ==
    ASSUME IInv, Marked, NEW i \in Instances, NEW invalidated \in BOOLEAN, NEW u \in Workers,
           \A j \in Instances : j # i => cache'[j] = cache[j]
    PROVE  MarkedAt(Overtaken(i, invalidated)[u], cache'[Home[u]])
<1> DEFINE v == visit[u]
           o == Overtaken(i, invalidated)[u]
<1>1. /\ o.pc = v.pc /\ o.page = v.page /\ o.degraded = v.degraded /\ o.marked = v.marked
      /\ o.fallback = v.fallback /\ (v.raced => o.raced)
      /\ Home[u] = i /\ v.pc = "check" /\ v.degraded => o.raced
      /\ Home[u] # i => o = v
  BY OvertakenTypes DEF IInv
<1>2. MarkedAt(v, cache[Home[u]]) /\ Home[u] \in Instances
  BY ServingAssumption DEF Marked
<1> HIDE DEF v, o
<1>3. MarkedAt(o, cache'[Home[u]])
  <2>1. CASE Home[u] = i
    BY <1>1, <1>2, <2>1 DEF MarkedAt
  <2>2. CASE Home[u] # i
    BY <1>1, <1>2, <2>2
  <2> QED
    BY <2>1, <2>2
<1> QED
  BY <1>3 DEF o

LEMMA PageMarked ==
    ASSUME IInv, Marked, NEW w \in Workers,
           \/ \E p \in Pages : Visit(w, p)
           \/ Read(w) \/ Check(w) \/ Query(w) \/ Load(w) \/ Fill(w) \/ Respond(w)
    PROVE  Marked'
<1> DEFINE v == visit[w]
           c == cache[Home[w]]
<1>0. /\ TypeOK /\ v \in Visits /\ Home[w] \in Instances /\ c \in Caches
      /\ v.pc \in Reading => v.left \in 1..3
      /\ MarkedAt(v, c)
  BY ServingAssumption DEF IInv, TypeOK, ReadsLeft, Marked
<1>r. ASSUME v.pc \in Reading, NEW content \in Contents, NEW degraded \in BOOLEAN,
             v.page = "listing" /\ degraded => v.marked \/ v.raced, NEW any
      PROVE  MarkedAt(Rendered(v, content, degraded), any)
  BY <1>0, <1>r, RenderedTypes DEF MarkedAt
<1>1. ASSUME NEW p \in Pages, Visit(w, p) PROVE Marked'
  <2> DEFINE fields == [NoVisit EXCEPT !.pc = "read", !.page = p, !.left = Reads[p],
                                       !.oldest = MaxWrites]
  <2>1. MarkedAt(fields, cache[Home[w]])
    BY DEF MarkedAt, NoVisit
  <2>2. VisitStep(w, fields) /\ UNCHANGED cache
    BY <1>1 DEF Visit
  <2> HIDE DEF fields
  <2> QED
    BY <2>1, <2>2, MarkedStep
<1>2. CASE Read(w)
  <2>1. v.pc = "read" /\ UNCHANGED cache
    BY <1>2 DEF Read
  <2> DEFINE query == [v EXCEPT !.pc = "query"]
             check == [v EXCEPT !.pc = "check", !.got = c.content, !.degraded = c.degraded]
             hit == Rendered(v, c.content, c.degraded)
  <2>2. MarkedAt(query, c) /\ MarkedAt(check, c)
    BY <1>0, <2>1 DEF MarkedAt, Visits, Caches
  <2>3. v.page = "product" => MarkedAt(hit, c)
    BY <1>0, <1>r, <2>1 DEF Caches, Reading
  <2>4. \/ VisitStep(w, query) \/ VisitStep(w, check)
        \/ v.page = "product" /\ VisitStep(w, hit)
    BY <1>2 DEF Read, LooksUp
  <2> HIDE DEF query, check, hit, v, c
  <2> QED
    BY <2>1, <2>2, <2>3, <2>4, MarkedStep DEF c
<1>3. CASE Check(w)
  <2> DEFINE rendered == Rendered(v, v.got, v.degraded)
             fields == [rendered EXCEPT !.marked = @ \/ c.degraded]
  <2>1. /\ v.pc \in Reading /\ UNCHANGED cache /\ VisitStep(w, fields)
        /\ v.degraded => c.degraded \/ v.raced
    BY <1>0, <1>3 DEF Check, Reading, MarkedAt
  <2>2. /\ rendered \in Visits /\ rendered.pc \in {"read", "respond"} /\ ~rendered.degraded
        /\ rendered.page = v.page /\ rendered.marked = v.marked
        /\ rendered.raced = v.raced
        /\ rendered.fallback = (v.fallback \/ v.degraded)
    BY <1>0, <2>1, RenderedTypes DEF Visits
  <2> HIDE DEF rendered
  <2>3. MarkedAt(fields, c)
    BY <1>0, <2>1, <2>2 DEF MarkedAt, Visits
  <2> HIDE DEF fields
  <2> QED
    BY <2>1, <2>3, MarkedStep
<1>4. CASE Query(w)
  <2> DEFINE fill == [v EXCEPT !.pc = "fill", !.got = db]
             load == [v EXCEPT !.pc = "load"]
  <2>1. MarkedAt(fill, c) /\ MarkedAt(load, c)
    BY <1>0, <1>4 DEF Query, MarkedAt, Visits
  <2>2. UNCHANGED cache /\ (VisitStep(w, fill) \/ VisitStep(w, load))
    BY <1>4 DEF Query
  <2> HIDE DEF fill, load
  <2> QED
    BY <2>1, <2>2, MarkedStep
<1>5. CASE Load(w)
  <2> DEFINE fields == [v EXCEPT !.pc = "fill", !.got = snapshot, !.degraded = TRUE, !.marked = TRUE]
  <2>1. MarkedAt(fields, c)
    BY <1>0 DEF MarkedAt, Visits
  <2>2. UNCHANGED cache /\ VisitStep(w, fields)
    BY <1>5 DEF Load
  <2> HIDE DEF fields
  <2> QED
    BY <2>1, <2>2, MarkedStep
<1>6. CASE Fill(w)
  <2> DEFINE fields == Rendered(v, v.got, v.degraded)
             told == Overtaken(Home[w], FALSE)
  <2>1. v.pc \in Reading /\ (v.degraded => v.marked) /\ v.got \in Contents /\ v.degraded \in BOOLEAN
    BY <1>0, <1>6 DEF Fill, MarkedAt, Reading, Visits
  <2>2. MarkedAt(fields, cache'[Home[w]])
    BY <1>r, <2>1
  <2>3. \A j \in Instances : j # Home[w] => cache'[j] = cache[j]
    BY <1>0, <1>6 DEF Fill, TypeOK
  <2>4. visit' = [told EXCEPT ![w] = fields] /\ told \in [Workers -> Visits]
    BY <1>0, <1>6, OvertakenTypes DEF Fill
  <2>5. \A u \in Workers : MarkedAt(told[u], cache'[Home[u]])
    BY <1>0, <2>3, MarkedTold
  <2> HIDE DEF fields, told
  <2> QED
    BY <2>2, <2>4, <2>5 DEF Marked
<1>7. CASE Respond(w)
  <2>1. MarkedAt(NoVisit, cache[Home[w]])
    BY DEF MarkedAt, NoVisit
  <2> QED
    BY <1>7, <2>1, MarkedStep DEF Respond
<1> QED
  BY <1>1, <1>2, <1>3, <1>4, <1>5, <1>6, <1>7

LEMMA MarkedInv ==
    ASSUME IInv, Marked, [Next]_vars
    PROVE  Marked'
<1>1. ASSUME NEW w \in Workers,
             \/ \E p \in Pages : Visit(w, p)
             \/ Read(w) \/ Check(w) \/ Query(w) \/ Load(w) \/ Fill(w) \/ Respond(w)
      PROVE  Marked'
  BY <1>1, PageMarked
<1>2. ASSUME NEW w \in Workers,
             \/ Commit(w) \/ Scan(w) \/ Save(w) \/ Purge(w) \/ SaveFails(w) \/ PurgeFails(w)
      PROVE  Marked'
  BY <1>2 DEF Commit, Scan, Save, Purge, SaveFails, PurgeFails, WriteStep, Marked
<1>3. ASSUME NEW w \in Workers, Invalidate(w) PROVE Marked'
  <2>1. /\ Home[w] \in Instances /\ visit' = Overtaken(Home[w], TRUE)
        /\ \A j \in Instances : j # Home[w] => cache'[j] = cache[j]
    BY <1>3, ServingAssumption DEF Invalidate, InvalidateStep, IInv, TypeOK
  <2> QED
    BY <2>1, MarkedTold DEF Marked
<1>4. ASSUME NEW i \in Instances, CacheExpires(i) PROVE Marked'
  <2>1. UNCHANGED visit /\ \A u \in Workers : cache'[Home[u]].degraded = cache[Home[u]].degraded
    BY <1>4, ServingAssumption DEF CacheExpires, IInv, TypeOK, Caches
  <2> QED
    BY <2>1 DEF Marked, MarkedAt
<1>5. ASSUME NEW i \in Instances, Restart(i) PROVE Marked'
  <2>1. \A u \in Workers : \/ visit'[u] = NoVisit
                           \/ visit'[u] = visit[u] /\ cache'[Home[u]] = cache[Home[u]]
    BY <1>5, ServingAssumption DEF Restart, IInv, TypeOK
  <2>2. NoVisit.pc = "idle" /\ ~NoVisit.fallback
    BY DEF NoVisit
  <2> QED
    BY <2>1, <2>2 DEF Marked, MarkedAt
<1>6. CASE (\E p \in Pages : PageExpires(p)) \/ Outage \/ Recovery \/ UNCHANGED vars
  BY <1>6 DEF PageExpires, Outage, Recovery, vars, Marked
<1> QED
  BY <1>1, <1>2, <1>3, <1>4, <1>5, <1>6 DEF Next, Serve

\* No page that lists products pins the snapshot's content on the CDN, whatever
\* fails in whatever order and however many threads share a cache, unless one of
\* them changed it between the hit and is_degraded.
THEOREM ListingsAreMarked == Spec => []ListingsNeverFallback
<1>1. Init => Marked /\ ListingsNeverFallback
  <2>1. "listing" \in Pages
    BY DEF Pages
  <2> QED
    BY <2>1 DEF Init, Marked, MarkedAt, NoVisit, NoCopy, ListingsNeverFallback
<1>2. IInv /\ Marked /\ ListingsNeverFallback /\ [Next]_vars => Marked' /\ ListingsNeverFallback'
  <2> SUFFICES ASSUME IInv, Marked, ListingsNeverFallback, [Next]_vars
               PROVE  ListingsNeverFallback'
    BY MarkedInv
  <2>0. cdn \in [Pages -> Copies] /\ "listing" \in Pages
    BY DEF IInv, TypeOK, Pages
  <2>1. ASSUME NEW w \in Workers, Respond(w) PROVE ListingsNeverFallback'
    <3>1. MarkedAt(visit[w], cache[Home[w]]) /\ visit[w] \in Visits
      BY DEF Marked, IInv, TypeOK
    <3> QED
      BY <2>0, <2>1, <3>1 DEF Respond, MarkedAt, ListingsNeverFallback, Visits
  <2>2. ASSUME NEW w \in Workers, Purge(w) PROVE ListingsNeverFallback'
    BY <2>0, <2>2 DEF Purge, ListingsNeverFallback, Copies
  <2>3. ASSUME NEW p \in Pages, PageExpires(p) PROVE ListingsNeverFallback'
    BY <2>0, <2>3 DEF PageExpires, ListingsNeverFallback, Copies
  <2>4. CASE UNCHANGED cdn
    BY <2>4 DEF ListingsNeverFallback
  <2> QED
    BY <2>1, <2>2, <2>3, <2>4
    DEF Next, Serve, Visit, Read, Check, Query, Load, Fill, Commit, Invalidate, InvalidateStep,
        Scan, Save, SaveFails, PurgeFails, CacheExpires, Restart, Outage, Recovery, vars
<1> QED
  BY <1>1, <1>2, Invariance, PTL DEF Spec

-----------------------------------------------------------------------------
(***************************************************************************)
(* An instance does not cache what is older than its own write.            *)
(***************************************************************************)
\* Nobody has invalidated for a write that is not committed.
Committed ==
    /\ \A w \in Workers : write[w].version =< db
    /\ \A i \in Instances : wrote[i] =< db

\* What a request read from the table and is about to cache, unless the cache
\* was invalidated meanwhile.
FillsAt(v, n) == v.pc = "fill" /\ ~v.degraded /\ ~v.late => v.got >= n
FillsNew == \A w \in Workers : FillsAt(visit[w], wrote[Home[w]])

NewerInv == Committed /\ FillsNew /\ InvalidationReachesTheWriter

\* A request that does not touch the caches, and is not about to with less than
\* its instance has written.
LEMMA NewerStep ==
    ASSUME IInv, NewerInv, NEW w \in Workers, NEW fields, VisitStep(w, fields), UNCHANGED cache,
           FillsAt(fields, wrote[Home[w]])
    PROVE  NewerInv'
<1>1. visit' = [visit EXCEPT ![w] = fields] /\ visit \in [Workers -> Visits]
  BY DEF VisitStep, IInv, TypeOK
<1>2. FillsNew'
  BY <1>1 DEF NewerInv, FillsNew, VisitStep
<1> QED
  BY <1>2 DEF NewerInv, Committed, InvalidationReachesTheWriter, VisitStep

\* A request remembers that the cache was invalidated since it read the table.
LEMMA FillsTold ==
    ASSUME TypeOK, FillsNew, NEW i, NEW invalidated \in BOOLEAN, NEW u \in Workers,
           NEW m, m = wrote[Home[u]] \/ (Home[u] = i /\ invalidated)
    PROVE  FillsAt(Overtaken(i, invalidated)[u], m)
<1> DEFINE v == visit[u]
           o == Overtaken(i, invalidated)[u]
<1>1. /\ o.pc = v.pc /\ o.got = v.got /\ o.degraded = v.degraded /\ (v.late => o.late)
      /\ Home[u] = i /\ invalidated /\ v.pc = "fill" /\ ~v.degraded => o.late
  BY OvertakenTypes
<1>2. FillsAt(v, wrote[Home[u]])
  BY DEF FillsNew
<1> HIDE DEF v, o
<1>3. FillsAt(o, m)
  BY <1>1, <1>2 DEF FillsAt
<1> QED
  BY <1>3 DEF o

LEMMA PageNewer ==
    ASSUME IInv, NewerInv, NEW w \in Workers,
           \/ \E p \in Pages : Visit(w, p)
           \/ Read(w) \/ Check(w) \/ Query(w) \/ Load(w) \/ Fill(w) \/ Respond(w)
    PROVE  NewerInv'
<1> DEFINE v == visit[w]
           c == cache[Home[w]]
           n == wrote[Home[w]]
<1>0. /\ TypeOK /\ v \in Visits /\ Home[w] \in Instances /\ c \in Caches
      /\ v.pc \in Reading => v.left \in 1..3
      /\ FillsAt(v, n) /\ n =< db
  BY ServingAssumption DEF IInv, TypeOK, ReadsLeft, NewerInv, FillsNew, Committed
<1>r. ASSUME v.pc \in Reading, NEW content \in Contents, NEW degraded \in BOOLEAN
      PROVE  FillsAt(Rendered(v, content, degraded), n)
  BY <1>0, <1>r, RenderedTypes DEF FillsAt
<1>1. ASSUME NEW p \in Pages, Visit(w, p) PROVE NewerInv'
  <2> DEFINE fields == [NoVisit EXCEPT !.pc = "read", !.page = p, !.left = Reads[p],
                                       !.oldest = MaxWrites]
  <2>1. FillsAt(fields, n) /\ VisitStep(w, fields) /\ UNCHANGED cache
    BY <1>1 DEF Visit, FillsAt, NoVisit
  <2> HIDE DEF fields
  <2> QED
    BY <2>1, NewerStep
<1>2. CASE Read(w)
  <2> DEFINE query == [v EXCEPT !.pc = "query"]
             check == [v EXCEPT !.pc = "check", !.got = c.content, !.degraded = c.degraded]
             hit == Rendered(v, c.content, c.degraded)
  <2>1. FillsAt(query, n) /\ FillsAt(check, n)
    BY <1>0 DEF FillsAt, Visits
  <2>2. FillsAt(hit, n)
    BY <1>0, <1>r, <1>2 DEF Caches, Read, Reading
  <2>3. UNCHANGED cache /\ (VisitStep(w, query) \/ VisitStep(w, check) \/ VisitStep(w, hit))
    BY <1>2 DEF Read
  <2> HIDE DEF query, check, hit
  <2> QED
    BY <2>1, <2>2, <2>3, NewerStep
<1>3. CASE Check(w)
  <2> DEFINE rendered == Rendered(v, v.got, v.degraded)
             fields == [rendered EXCEPT !.marked = @ \/ c.degraded]
  <2>1. v.pc \in Reading /\ UNCHANGED cache /\ VisitStep(w, fields)
    BY <1>3 DEF Check, Reading
  <2>2. rendered \in Visits /\ rendered.pc \in {"read", "respond"}
    BY <1>0, <2>1, RenderedTypes DEF Visits
  <2> HIDE DEF rendered
  <2>3. FillsAt(fields, n)
    BY <2>2 DEF FillsAt, Visits
  <2> HIDE DEF fields
  <2> QED
    BY <2>1, <2>3, NewerStep
<1>4. CASE Query(w)
  <2> DEFINE fill == [v EXCEPT !.pc = "fill", !.got = db]
             load == [v EXCEPT !.pc = "load"]
  <2>1. FillsAt(fill, n) /\ FillsAt(load, n)
    BY <1>0 DEF FillsAt, Visits, TypeOK, Versions
  <2>2. UNCHANGED cache /\ (VisitStep(w, fill) \/ VisitStep(w, load))
    BY <1>4 DEF Query
  <2> HIDE DEF fill, load
  <2> QED
    BY <2>1, <2>2, NewerStep
<1>5. CASE Load(w)
  <2> DEFINE fields == [v EXCEPT !.pc = "fill", !.got = snapshot, !.degraded = TRUE, !.marked = TRUE]
  <2>1. FillsAt(fields, n) /\ UNCHANGED cache /\ VisitStep(w, fields)
    BY <1>0, <1>5 DEF Load, FillsAt, Visits
  <2> HIDE DEF fields
  <2> QED
    BY <2>1, NewerStep
<1>6. CASE Fill(w)
  <2> DEFINE fields == Rendered(v, v.got, v.degraded)
             told == Overtaken(Home[w], FALSE)
  <2>1. FillsAt(fields, n) /\ UNCHANGED <<db, write, wrote>>
    BY <1>0, <1>6, <1>r DEF Fill, Reading, Visits
  <2>2. \A i \in Instances : i # Home[w] => cache'[i] = cache[i]
    BY <1>0, <1>6 DEF Fill, TypeOK
  <2>3. cache'[Home[w]] = [content |-> v.got, fresh |-> TRUE, degraded |-> v.degraded,
                           late |-> v.late]
    BY <1>0, <1>6 DEF Fill, TypeOK
  <2>4. ~v.degraded /\ ~v.late => v.got >= n
    BY <1>0, <1>6 DEF Fill, FillsAt
  <2>5. visit' = [told EXCEPT ![w] = fields] /\ told \in [Workers -> Visits]
    BY <1>0, <1>6, OvertakenTypes DEF Fill
  <2>6. \A u \in Workers : FillsAt(told[u], wrote[Home[u]])
    BY <1>0, FillsTold DEF NewerInv
  <2> HIDE DEF fields, told
  <2>7. InvalidationReachesTheWriter'
    BY <2>1, <2>2, <2>3, <2>4 DEF NewerInv, InvalidationReachesTheWriter
  <2>8. FillsNew'
    BY <2>1, <2>5, <2>6 DEF FillsNew
  <2> QED
    BY <2>1, <2>7, <2>8 DEF NewerInv, Committed
<1>7. CASE Respond(w)
  <2>1. FillsAt(NoVisit, n)
    BY DEF FillsAt, NoVisit
  <2> QED
    BY <1>7, <2>1, NewerStep DEF Respond
<1> QED
  BY <1>1, <1>2, <1>3, <1>4, <1>5, <1>6, <1>7

LEMMA MirrorNewer ==
    ASSUME IInv, NewerInv, NEW w \in Workers,
           \/ Commit(w) \/ Invalidate(w) \/ Scan(w) \/ Save(w) \/ Purge(w)
           \/ SaveFails(w) \/ PurgeFails(w)
    PROVE  NewerInv'
<1> USE DEF NewerInv, InvalidationReachesTheWriter
<1>0. /\ TypeOK /\ write \in [Workers -> Writes] /\ write[w] \in Writes /\ db \in Nat
      /\ write[w].version \in Nat /\ write[w].version =< db
      /\ \A u \in Workers : write[u].version \in Nat
      /\ \A i \in Instances : wrote[i] \in Nat
      /\ Home \in [Workers -> Instances] /\ Home[w] \in Instances
  BY ServingAssumption DEF IInv, TypeOK, Writes, Versions, Committed
<1>1. CASE Commit(w)
  <2> DEFINE fields == [NoWrite EXCEPT !.pc = Then("commit"), !.version = db + 1,
                                       !.beside = \E v \in Workers : write[v].pc = "save"]
  <2>1. fields.version = db + 1 /\ write' = [write EXCEPT ![w] = fields] /\ db' = db + 1
        /\ UNCHANGED <<cache, visit, wrote>>
    BY <1>1 DEF Commit, WriteStep, NoWrite
  <2> HIDE DEF fields
  <2>2. Committed'
    BY <1>0, <2>1 DEF Committed
  <2> QED
    BY <2>1, <2>2 DEF FillsNew
<1>2. CASE Invalidate(w)
  <2>1. /\ visit' = Overtaken(Home[w], TRUE) /\ UNCHANGED db
        /\ write' = [write EXCEPT ![w].pc = "scan"]
    BY <1>2 DEF Invalidate, InvalidateStep, Then
  <2>2. \A i \in Instances : i # Home[w] => cache'[i] = cache[i] /\ wrote'[i] = wrote[i]
    BY <1>0, <1>2 DEF Invalidate, InvalidateStep, TypeOK
  <2>3. cache'[Home[w]] = NoCache /\ wrote'[Home[w]] =< db
    BY <1>0, <1>2 DEF Invalidate, InvalidateStep, TypeOK, Committed
  <2>4. \A u \in Workers : write'[u].version = write[u].version
    BY <1>0, <2>1 DEF Writes
  <2>5. Committed'
    BY <1>0, <2>1, <2>2, <2>3, <2>4 DEF Committed
  <2>6. FillsNew'
    <3>1. ASSUME NEW u \in Workers PROVE FillsAt(visit'[u], wrote'[Home[u]])
      <4>1. wrote'[Home[u]] = wrote[Home[u]] \/ Home[u] = Home[w]
        BY <1>0, <2>2
      <4> QED
        BY <1>0, <2>1, <4>1, FillsTold
    <3> QED
      BY <3>1 DEF FillsNew
  <2>7. InvalidationReachesTheWriter'
    BY <2>2, <2>3 DEF NoCache
  <2> QED
    BY <2>5, <2>6, <2>7
<1>3. CASE Scan(w) \/ Save(w) \/ Purge(w) \/ SaveFails(w) \/ PurgeFails(w)
  <2>1. UNCHANGED <<cache, visit, wrote, db>>
    BY <1>3 DEF Scan, Save, Purge, SaveFails, PurgeFails, WriteStep
  <2>2. \A u \in Workers : write'[u].version \in {write[u].version, 0}
    <3>1. CASE Purge(w) \/ PurgeFails(w)
      BY <1>0, <3>1 DEF Purge, PurgeFails, WriteStep, NoWrite, Then
    <3>2. CASE Scan(w)
      BY <1>0, <3>2 DEF Scan, WriteStep, Writes
    <3>3. CASE Save(w)
      BY <1>0, <3>3 DEF Save, WriteStep, Writes
    <3>4. CASE SaveFails(w)
      BY <1>0, <3>4 DEF SaveFails, Writes
    <3> QED
      BY <1>3, <3>1, <3>2, <3>3, <3>4
  <2>3. Committed'
    BY <1>0, <2>1, <2>2 DEF Committed
  <2> QED
    BY <2>1, <2>3 DEF FillsNew
<1> QED
  BY <1>1, <1>2, <1>3

LEMMA NewerNext == ASSUME IInv, NewerInv, [Next]_vars PROVE NewerInv'
<1> USE DEF NewerInv, InvalidationReachesTheWriter
<1>1. ASSUME NEW i \in Instances, CacheExpires(i) PROVE NewerInv'
  <2>1. \A j \in Instances : \/ ~cache'[j].fresh
                             \/ cache'[j] = cache[j]
    BY <1>1 DEF CacheExpires, IInv, TypeOK, Caches
  <2> QED
    BY <1>1, <2>1 DEF CacheExpires, FillsNew, Committed
<1>2. ASSUME NEW i \in Instances, Restart(i) PROVE NewerInv'
  <2>1. \A j \in Instances : cache'[j] \in {NoCache, cache[j]}
    BY <1>2 DEF Restart, IInv, TypeOK
  <2>2. \A u \in Workers : visit'[u] \in {NoVisit, visit[u]} /\ write'[u] \in {NoWrite, write[u]}
    BY <1>2 DEF Restart
  <2>3. ~NoCache.fresh /\ NoVisit.pc = "idle" /\ NoWrite.version = 0
    BY DEF NoCache, NoVisit, NoWrite
  <2>4. db \in Nat /\ UNCHANGED <<db, wrote>>
    BY <1>2, ServingAssumption DEF Restart, IInv, TypeOK, Versions
  <2>5. InvalidationReachesTheWriter'
    BY <2>1, <2>3, <2>4
  <2>6. FillsNew'
    BY <2>2, <2>3, <2>4 DEF FillsNew, FillsAt
  <2>7. Committed'
    BY <2>2, <2>3, <2>4 DEF Committed
  <2> QED
    BY <2>5, <2>6, <2>7
<1>3. CASE (\E p \in Pages : PageExpires(p)) \/ Outage \/ Recovery \/ UNCHANGED vars
  BY <1>3 DEF PageExpires, Outage, Recovery, vars, FillsNew, Committed
<1> QED
  BY <1>1, <1>2, <1>3, PageNewer, MirrorNewer DEF Next, Serve

\* What an instance serves from its cache is never older than a write it has
\* invalidated for, however many threads fill and empty that cache, unless it was
\* filled after the invalidation with rows read before.
THEOREM WritersSeeTheirWrites == Spec => []InvalidationReachesTheWriter
<1>1. Init => NewerInv
  BY DEF Init, NewerInv, Committed, FillsNew, FillsAt, InvalidationReachesTheWriter,
         NoVisit, NoWrite, NoCache
<1>2. IInv /\ NewerInv /\ [Next]_vars => NewerInv'
  BY NewerNext
<1>3. NewerInv => InvalidationReachesTheWriter
  BY DEF NewerInv
<1> QED
  BY <1>1, <1>2, <1>3, Invariance, PTL DEF Spec

-----------------------------------------------------------------------------
(***************************************************************************)
(* The snapshot precedes the purge.                                        *)
(***************************************************************************)
\* A write saves what it read after its commit, and purges once that is saved.
\* Whatever is saved meanwhile was read after the commit too, unless another
\* write was about to save when this one was committed.
SavedInTurn ==
    /\ \A w \in Workers : write[w].version =< db
    /\ \A w, v \in Workers :
          write[v].pc = "save" /\ (v = w \/ ~write[w].beside) => write[v].rows >= write[w].version
    /\ \A w \in Workers :
          write[w].pc = "purge" /\ ~write[w].unsaved /\ ~write[w].beside
              => snapshot >= write[w].version

\* A step of write w that commits nothing and saves nothing.
LEMMA SavedStep ==
    ASSUME IInv, SavedInTurn, NEW w \in Workers, NEW fields \in Writes,
           write' = [write EXCEPT ![w] = fields], UNCHANGED <<db, snapshot>>,
           \/ fields = NoWrite
           \/ fields.version = write[w].version /\ fields.beside = write[w].beside,
           fields.pc = "save" => fields.rows = db,
           fields.pc = "purge" => fields.unsaved
    PROVE  SavedInTurn'
<1>1. /\ write \in [Workers -> Writes] /\ db \in Nat /\ snapshot \in Int
      /\ \A u \in Workers : write[u].version \in Nat /\ write[u].rows \in Nat
  BY ServingAssumption DEF IInv, TypeOK, Writes, Versions, Contents, Nothing
<1>2. write'[w] = fields /\ \A u \in Workers : u # w => write'[u] = write[u]
  BY <1>1
<1>3. NoWrite.version = 0 /\ NoWrite.pc = "idle"
  BY DEF NoWrite
<1>4. \A u \in Workers : write'[u].version =< db /\ write'[u].version =< write[u].version
  BY <1>1, <1>2, <1>3 DEF SavedInTurn
<1>5. \A u \in Workers : write'[u].pc # "idle" => write'[u].beside = write[u].beside
  BY <1>2, <1>3
<1>6. fields.version \in Nat /\ fields.rows \in Nat
  BY ServingAssumption DEF Writes, Versions
<1>7. ASSUME NEW u \in Workers, NEW v \in Workers,
             write'[v].pc = "save", v = u \/ ~write'[u].beside
      PROVE  write'[v].rows >= write'[u].version
  <2>1. CASE v = w
    BY <1>1, <1>2, <1>4, <1>6, <1>7, <2>1
  <2>2. CASE v # w /\ write'[u].version = 0
    BY <1>1, <1>2, <2>2
  <2>3. CASE v # w /\ write'[u].version # 0
    <3>1. write'[u].version = write[u].version /\ write'[u].beside = write[u].beside
      BY <1>2, <1>3, <2>3
    <3> QED
      BY <1>2, <1>7, <2>3, <3>1 DEF SavedInTurn
  <2> QED
    BY <2>1, <2>2, <2>3
<1>8. ASSUME NEW u \in Workers, write'[u].pc = "purge", ~write'[u].unsaved, ~write'[u].beside
      PROVE  snapshot >= write'[u].version
  BY <1>2, <1>8 DEF SavedInTurn
<1> QED
  BY <1>4, <1>7, <1>8 DEF SavedInTurn

\* A purge finds a snapshot at least as new as its write, however many writes
\* overlap, unless the snapshot could not be written or another write was about
\* to save when this one was committed.
THEOREM SnapshotsPrecedePurges == Spec => []SnapshotBeforePurge
<1>1. Init => SavedInTurn
  BY DEF Init, SavedInTurn, NoWrite
<1>2. IInv /\ SavedInTurn /\ [Next]_vars => SavedInTurn'
  <2> SUFFICES ASSUME IInv, SavedInTurn, [Next]_vars PROVE SavedInTurn'
    OBVIOUS
  <2>0. /\ write \in [Workers -> Writes] /\ db \in Nat /\ snapshot \in Int
        /\ \A u \in Workers : write[u] \in Writes /\ write[u].version \in Nat /\ write[u].rows \in Nat
    BY ServingAssumption DEF IInv, TypeOK, Writes, Versions, Contents, Nothing
  <2>2. ASSUME NEW w \in Workers, Commit(w) PROVE SavedInTurn'
    <3> DEFINE beside == \E v \in Workers : write[v].pc = "save"
               fields == [NoWrite EXCEPT !.pc = Then("commit"), !.version = db + 1,
                                         !.beside = beside]
    <3>1. fields.version = db + 1 /\ fields.pc = "invalidate" /\ (beside => fields.beside)
      BY DEF NoWrite, Then
    <3>2. write' = [write EXCEPT ![w] = fields] /\ db' = db + 1 /\ UNCHANGED snapshot
      BY <2>2 DEF Commit, WriteStep
    <3> HIDE DEF fields
    <3>3. write'[w] = fields /\ \A u \in Workers : u # w => write'[u] = write[u]
      BY <2>0, <3>2
    <3>4. \A v \in Workers : write'[v].pc = "save" => fields.beside /\ v # w
      BY <3>1, <3>3
    <3> QED
      BY <2>0, <3>1, <3>2, <3>3, <3>4 DEF SavedInTurn
  <2>3. ASSUME NEW w \in Workers, Invalidate(w) PROVE SavedInTurn'
    <3> DEFINE fields == [write[w] EXCEPT !.pc = "scan"]
    <3>1. write' = [write EXCEPT ![w] = fields] /\ UNCHANGED <<db, snapshot>>
      BY <2>3 DEF Invalidate, InvalidateStep, Then
    <3>2. /\ fields \in Writes /\ fields.pc = "scan" /\ fields.version = write[w].version
          /\ fields.beside = write[w].beside
      BY <2>0 DEF Writes
    <3> HIDE DEF fields
    <3> QED
      BY <3>1, <3>2, SavedStep
  <2>4. ASSUME NEW w \in Workers, Scan(w) PROVE SavedInTurn'
    <3> DEFINE scanned == [write[w] EXCEPT !.pc = "save", !.rows = db]
               unread == [write[w] EXCEPT !.pc = "purge", !.unsaved = TRUE]
    <3>1. /\ UNCHANGED <<db, snapshot>>
          /\ \/ write' = [write EXCEPT ![w] = scanned]
             \/ write' = [write EXCEPT ![w] = unread]
      BY <2>4 DEF Scan, WriteStep, Then
    <3>2. /\ scanned \in Writes /\ scanned.pc = "save" /\ scanned.rows = db
          /\ scanned.version = write[w].version /\ scanned.beside = write[w].beside
      BY <2>0 DEF Writes, IInv, TypeOK
    <3>3. /\ unread \in Writes /\ unread.pc = "purge" /\ unread.unsaved
          /\ unread.version = write[w].version /\ unread.beside = write[w].beside
      BY <2>0 DEF Writes
    <3> HIDE DEF scanned, unread
    <3> QED
      BY <3>1, <3>2, <3>3, SavedStep
  <2>5. ASSUME NEW w \in Workers, Save(w) PROVE SavedInTurn'
    <3>1. snapshot' = write[w].rows /\ write[w].pc = "save" /\ UNCHANGED db
      BY <2>5 DEF Save, WriteStep
    <3>2. \A u \in Workers : u # w => write'[u] = write[u]
      BY <2>0, <2>5 DEF Save, WriteStep
    <3>3. /\ write'[w].pc = "purge" /\ write'[w].version = write[w].version
          /\ write'[w].beside = write[w].beside
      BY <2>0, <2>5 DEF Save, WriteStep, Then, Writes
    <3>4. \A u \in Workers : ~write[u].beside => write[w].rows >= write[u].version
      BY <3>1 DEF SavedInTurn
    <3> QED
      BY <2>0, <3>1, <3>2, <3>3, <3>4 DEF SavedInTurn
  <2>6. ASSUME NEW w \in Workers, Purge(w) \/ PurgeFails(w) PROVE SavedInTurn'
    <3>1. write' = [write EXCEPT ![w] = NoWrite] /\ UNCHANGED <<db, snapshot>>
      BY <2>6 DEF Purge, PurgeFails, WriteStep, Then
    <3>2. NoWrite.pc = "idle"
      BY DEF NoWrite
    <3> QED
      BY <3>1, <3>2, NoTypes, SavedStep
  <2>7. ASSUME NEW w \in Workers, SaveFails(w) PROVE SavedInTurn'
    <3> DEFINE fields == [write[w] EXCEPT !.pc = "purge", !.unsaved = TRUE]
    <3>1. /\ fields \in Writes /\ fields.pc = "purge" /\ fields.unsaved
          /\ fields.version = write[w].version /\ fields.beside = write[w].beside
      BY <2>0 DEF Writes
    <3>2. write' = [write EXCEPT ![w] = fields] /\ UNCHANGED <<db, snapshot>>
      BY <2>0, <2>7 DEF SaveFails, Then
    <3> HIDE DEF fields
    <3> QED
      BY <3>1, <3>2, SavedStep
  <2>8. ASSUME NEW i \in Instances, Restart(i) PROVE SavedInTurn'
    <3>1. \A u \in Workers : write'[u] = write[u] \/ write'[u] = NoWrite
      BY <2>8 DEF Restart
    <3>2. NoWrite.pc = "idle" /\ NoWrite.version = 0
      BY DEF NoWrite
    <3>3. UNCHANGED <<db, snapshot>>
      BY <2>8 DEF Restart
    <3> QED
      BY <2>0, <3>1, <3>2, <3>3 DEF SavedInTurn
  <2>9. CASE UNCHANGED <<write, db, snapshot>>
    BY <2>9 DEF SavedInTurn
  <2> QED
    BY <2>2, <2>3, <2>4, <2>5, <2>6, <2>7, <2>8, <2>9
    DEF Next, Serve, Visit, Read, Check, Query, Load, Fill, Respond, VisitStep,
        CacheExpires, PageExpires, Outage, Recovery, vars
<1>3. SavedInTurn => SnapshotBeforePurge
  BY DEF SavedInTurn, SnapshotBeforePurge
<1> QED
  BY <1>1, <1>2, <1>3, Invariance, PTL DEF Spec
=============================================================================
