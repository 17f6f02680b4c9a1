---------------------------- MODULE Gallery_proofs ----------------------------
(***************************************************************************)
(* What holds of the gallery for any number of items, requests and files:  *)
(* its types, that a row is never inserted before its files are there,     *)
(* which items a save can leave with a row and no files or files and no    *)
(* row, and when the positions have no gap.                                *)
(***************************************************************************)
EXTENDS Gallery, FiniteSetTheorems, WellFoundedInduction, TLAPS

(***************************************************************************)
(* The inductive invariant.  A directory name is drawn once: the name of   *)
(* the new item of a request is nobody else's, neither a name still to be  *)
(* drawn, nor that of a row, nor of a row some request has loaded (and may *)
(* be about to delete the files of).                                       *)
(***************************************************************************)
OwnName ==
    \A r \in Requests : req[r].new # NoItem =>
        /\ req[r].new \notin spare
        /\ rows[req[r].new] = NoRow
        /\ \A s \in Requests : /\ s # r => req[s].new # req[r].new
                               /\ req[s].loaded[req[r].new] = NoRow

\* Names still to be drawn are names of nothing.
Unused ==
    \A i \in spare : rows[i] = NoRow /\ \A r \in Requests : req[r].loaded[i] = NoRow

\* How far a request is: what it may still drop is what it loaded and does not
\* mention, and it has published all files of its new item before it commits.
Sound(q) ==
    /\ q.drop \subseteq Filed(q.loaded) \ Mentioned(q)
    /\ q.pc \in {"idle", "form", "load", "sweep"} => q.loaded = NoRows
    /\ q.pc \in {"publish", "commit"} => q.drop = {} /\ q.new \in Mentioned(q) \cup {NoItem}
    /\ q.pc = "publish" => q.new # NoItem
    /\ q.pc \notin {"publish", "commit"} \/ q.new = NoItem => q.put = {}
    /\ q.pc = "commit" /\ q.new # NoItem => q.put = Variants
AllSound == \A r \in Requests : Sound(req[r])

\* Nothing is asked of a product that never was.
Born == /\ live => born
        /\ \A r \in Requests : req[r].pc # "idle" => born

\* A product whose directory is about to be swept is gone, for good if ids are
\* not given again.
Swept == Postgres => \A r \in Requests : req[r].pc = "sweep" => ~live

\* What a request has published is there, unless its product is gone.
Complete ==
    Postgres /\ live => \A r \in Requests :
        req[r].new # NoItem => req[r].put \subseteq files[req[r].new]

IInv == TypeOK /\ OwnName /\ Unused /\ AllSound /\ Born /\ Swept /\ Complete
-----------------------------------------------------------------------------
LEMMA IdleTypes ==
    /\ NoRows \in Table /\ Idle \in Served
    /\ \A i \in Items : NoRows[i] = NoRow
    /\ Idle.loaded = NoRows /\ Idle.drop = {} /\ Idle.new = NoItem /\ Idle.pc = "idle"
    /\ Idle.put = {} /\ Sound(Idle)
<1>1. NoRows \in Table /\ \A i \in Items : NoRows[i] = NoRow
  BY DEF NoRows, Table
<1>2. <<>> \in Seq(Items)
  OBVIOUS
<1> QED
  BY <1>1, <1>2 DEF Idle, Served, Sound

\* An item is not before itself, so the gallery has a place for each.
LEMMA ArrangedTypes ==
    ASSUME NEW q \in Served, NEW i \in Items
    PROVE  Arranged(q, i) \in Row
<1>1. Before(q, i) \in SUBSET (Items \ {i})
  <2>1. ASSUME NEW k \in DOMAIN q.tokens, \A l \in 1..k : q.tokens[l] # i
        PROVE  q.tokens[k] # i
    <3>1. q.tokens \in Seq(Items)
      BY DEF Served
    <3>2. k \in 1..k
      BY <3>1
    <3> QED
      BY <2>1, <3>2
  <2>2. \A j \in Mentioned(q) : j \in Items
    BY DEF Mentioned, Served
  <2> QED
    BY <2>1, <2>2 DEF Before, Kept
<1>2. /\ IsFiniteSet(Items \ {i}) /\ Cardinality(Items \ {i}) = Cardinality(Items) - 1
  BY GalleryAssumption, FS_RemoveElement
<1>3. IsFiniteSet(Before(q, i)) /\ Cardinality(Before(q, i)) <= Cardinality(Items \ {i})
  BY <1>1, <1>2, FS_Subset
<1>4. Cardinality(Before(q, i)) \in Nat /\ Cardinality(Items) \in Nat
  BY <1>3, GalleryAssumption, FS_CardinalityType
<1>5. Place(q, i) \in 0..(Cardinality(Items) - 1)
  BY <1>2, <1>3, <1>4 DEF Place
<1> QED
  BY <1>5 DEF Arranged, Row

LEMMA ArrangedFields ==
    ASSUME NEW q, NEW i
    PROVE  /\ Arranged(q, i).position = Place(q, i)
           /\ Arranged(q, i).cover <=> Place(q, i) = 0
<1>1. Arranged(q, i).position = Place(q, i)
  BY DEF Arranged
<1>2. Arranged(q, i).cover <=> Place(q, i) = 0
  BY Zenon DEF Arranged
<1> QED
  BY <1>1, <1>2

-----------------------------------------------------------------------------
LEMMA InitInv == Init => IInv
<1> SUFFICES ASSUME Init PROVE IInv
  OBVIOUS
<1>1. TypeOK
  <2>1. files \in [Items -> SUBSET Variants]
    BY DEF Init
  <2>2. faults \in 0..MaxFaults
    BY GalleryAssumption DEF Init
  <2>3. req \in [Requests -> Served]
    BY IdleTypes DEF Init
  <2>4. rows \in Table /\ live \in BOOLEAN /\ born \in BOOLEAN /\ spare \in SUBSET Items
      /\ torn \in SUBSET Items
    BY IdleTypes DEF Init
  <2> QED
    BY <2>1, <2>2, <2>3, <2>4 DEF TypeOK
<1>2. OwnName /\ AllSound /\ Born /\ Swept /\ Complete
  BY IdleTypes DEF Init, OwnName, AllSound, Born, Swept, Complete
<1>3. Unused
  BY IdleTypes DEF Init, Unused
<1> QED
  BY <1>1, <1>2, <1>3 DEF IInv

\* A request that takes its name from those nobody has drawn, loads the rows as
\* they are, and inserts no row but the one with its name, keeps names apart.
LEMMA NamesInv ==
    ASSUME IInv, NEW r \in Requests, NEW fields \in Served, Step(r, fields),
           rows' \in Table, spare' \in SUBSET spare,
           fields.new \in {NoItem, req[r].new} \cup (spare \ spare'),
           fields.loaded \in {NoRows, req[r].loaded, rows},
           Sound(fields),
           rows' = rows \/ fields.new = NoItem,
           \A i \in Items : rows[i] = NoRow /\ req[r].loaded[i] = NoRow /\ i # req[r].new
                             => rows'[i] = NoRow
    PROVE  OwnName' /\ Unused' /\ AllSound'
<1> USE DEF IInv
<1>1. /\ req' \in [Requests -> Served] /\ req'[r] = fields
      /\ \A s \in Requests \ {r} : req'[s] = req[s]
  BY DEF Step, TypeOK
<1>2. \A s \in Requests : req[s].new \in Items \cup {NoItem}
  BY DEF TypeOK, Served
<1>3. \A i \in Items : NoRows[i] = NoRow
  BY IdleTypes
<1>4. spare \subseteq Items /\ NoItem \notin Items
  BY GalleryAssumption DEF TypeOK
<1>5. AllSound'
  BY <1>1 DEF AllSound
<1>6. Unused'
  <2>1. ASSUME NEW i \in spare'
        PROVE  rows'[i] = NoRow /\ \A s \in Requests : req'[s].loaded[i] = NoRow
    <3>1. i \in Items /\ rows[i] = NoRow /\ \A s \in Requests : req[s].loaded[i] = NoRow
      BY <1>4, <2>1 DEF Unused
    <3>2. i # req[r].new
      BY <1>4, <2>1 DEF OwnName
    <3> QED
      BY <1>1, <1>3, <3>1, <3>2
  <2> QED
    BY <2>1 DEF Unused
<1>7. OwnName'
  <2> SUFFICES ASSUME NEW t \in Requests, req'[t].new # NoItem
               PROVE  /\ req'[t].new \notin spare'
                      /\ rows'[req'[t].new] = NoRow
                      /\ \A s \in Requests : /\ s # t => req'[s].new # req'[t].new
                                             /\ req'[s].loaded[req'[t].new] = NoRow
    BY DEF OwnName
  <2> DEFINE i == req'[t].new
  <2>1. CASE t = r
    <3>1. i \in Items /\ i \notin spare'
      BY <1>1, <1>2, <1>4, <2>1 DEF OwnName
    <3>2. rows[i] = NoRow /\ \A s \in Requests : req[s].loaded[i] = NoRow
      BY <1>1, <1>2, <2>1 DEF OwnName, Unused
    <3>3. \A s \in Requests \ {r} : req[s].new # i
      BY <1>1, <1>2, <1>4, <2>1, <3>1 DEF OwnName
    <3> QED
      BY <1>1, <1>3, <2>1, <3>1, <3>2, <3>3
  <2>2. CASE t # r
    <3>1. i = req[t].new /\ i \in Items
      BY <1>1, <1>2, <2>2
    <3>2. /\ i \notin spare /\ rows[i] = NoRow
          /\ \A s \in Requests : s # t => req[s].new # i
          /\ \A s \in Requests : req[s].loaded[i] = NoRow
      BY <3>1 DEF OwnName
    <3> QED
      BY <1>1, <1>3, <2>2, <3>1, <3>2
  <2> QED
    BY <2>1, <2>2
<1> QED
  BY <1>5, <1>6, <1>7

\* The whole invariant, from what a step does to the product and the store.
LEMMA StepInv ==
    ASSUME IInv, NEW r \in Requests, NEW fields \in Served, Step(r, fields),
           rows' \in Table, files' \in [Items -> SUBSET Variants], spare' \in SUBSET spare,
           faults' \in 0..MaxFaults, live' \in BOOLEAN, born' \in BOOLEAN,
           OwnName', Unused', AllSound', torn' \in SUBSET Items,
           born \/ live' \/ fields.pc # "idle" => born',
           Postgres /\ live' => live \/ ~born,
           fields.pc = "sweep" => ~live',
           Postgres /\ live => \A i \in Items :
               req[r].loaded[i] = NoRow /\ i # req[r].new => files'[i] = files[i],
           Postgres /\ live' /\ fields.new # NoItem => fields.put \subseteq files'[fields.new]
    PROVE  IInv'
<1> USE DEF IInv
<1>1. /\ req' \in [Requests -> Served] /\ req'[r] = fields
      /\ \A s \in Requests \ {r} : req'[s] = req[s]
  BY DEF Step, TypeOK
<1>2. TypeOK'
  BY <1>1 DEF TypeOK
<1>3. Born'
  BY <1>1 DEF Born
<1>4. Swept'
  BY <1>1 DEF Born, Swept
<1>5. Complete'
  <2> SUFFICES ASSUME Postgres, live', NEW s \in Requests, req'[s].new # NoItem
               PROVE  req'[s].put \subseteq files'[req'[s].new]
    BY DEF Complete
  <2>1. CASE s = r
    BY <1>1, <2>1
  <2>2. CASE s # r /\ req[s].put = {}
    BY <1>1, <2>2
  <2>3. CASE s # r /\ req[s].put # {}
    <3>1. req[s].pc # "idle" /\ req[s].new # NoItem /\ req'[s] = req[s]
      BY <1>1, <2>3 DEF AllSound, Sound
    <3>2. live
      BY <3>1 DEF Born
    <3>3. req[s].new \in Items
      BY <3>1 DEF TypeOK, Served
    <3>4. req[s].put \subseteq files[req[s].new]
      BY <3>1, <3>2 DEF Complete
    <3>5. req[r].loaded[req[s].new] = NoRow /\ req[r].new # req[s].new
      BY <2>3, <3>1 DEF OwnName
    <3> QED
      BY <3>1, <3>2, <3>3, <3>4, <3>5
  <2> QED
    BY <2>1, <2>2, <2>3
<1> QED
  BY <1>2, <1>3, <1>4, <1>5

\* The form is posted, by Create or by Submit.
LEMMA PostInv ==
    ASSUME IInv, NEW r \in Requests, Create(r) \/ Submit(r)
    PROVE  IInv'
<1> USE DEF IInv
<1>1. PICK shown \in SUBSET Items : Post(r, shown) /\ UNCHANGED <<rows, files, faults, torn>>
  BY DEF Create, Submit, TypeOK, Served
<1>n. PICK new \in spare \cup {NoItem} :
        \E n \in 0..MaxTokens :
          \E tokens \in [1..n -> shown \cup ({new} \ {NoItem})], plain \in BOOLEAN :
            /\ spare' = spare \ {new}
            /\ Step(r, [Idle EXCEPT !.pc = "load", !.tokens = tokens, !.plain = plain, !.new = new])
  BY <1>1 DEF Post
<1>t. PICK n \in 0..MaxTokens :
        \E tokens \in [1..n -> shown \cup ({new} \ {NoItem})], plain \in BOOLEAN :
          /\ spare' = spare \ {new}
          /\ Step(r, [Idle EXCEPT !.pc = "load", !.tokens = tokens, !.plain = plain, !.new = new])
  BY <1>n
<1>2. PICK tokens \in [1..n -> shown \cup ({new} \ {NoItem})], plain \in BOOLEAN :
        /\ spare' = spare \ {new}
        /\ Step(r, [Idle EXCEPT !.pc = "load", !.tokens = tokens, !.plain = plain, !.new = new])
  BY <1>t
<1> DEFINE fields == [Idle EXCEPT !.pc = "load", !.tokens = tokens, !.plain = plain, !.new = new]
<1>3. new \in Items \cup {NoItem} /\ (new # NoItem => new \in spare /\ new \notin spare')
  BY <1>2 DEF TypeOK
<1>4. tokens \in Seq(Items)
  <2>1. n \in Nat /\ tokens \in [1..n -> Items]
    BY <1>2, <1>3, GalleryAssumption
  <2> QED
    BY <2>1
<1>5. /\ fields \in Served /\ fields.pc = "load" /\ fields.new = new
      /\ fields.loaded = NoRows /\ fields.drop = {} /\ fields.put = {}
  BY <1>3, <1>4, IdleTypes DEF Served, Idle
<1>s. Sound(fields)
  BY <1>5 DEF Sound
<1>6. Step(r, fields)
  BY <1>2
<1> HIDE DEF fields
<1>7. rows' = rows /\ files' = files /\ faults' = faults /\ spare' \in SUBSET spare
      /\ torn' = torn
  BY <1>1, <1>2
<1>8. OwnName' /\ Unused' /\ AllSound'
  BY <1>3, <1>5, <1>s, <1>6, <1>7, NamesInv DEF TypeOK
<1>9. /\ live' \in BOOLEAN /\ born' \in BOOLEAN /\ born'
      /\ Postgres /\ live' => live \/ ~born
  <2>1. CASE Create(r)
    BY <2>1 DEF Create
  <2>2. CASE Submit(r)
    <3>1. req[r].pc # "idle" /\ born' = born /\ live' = live
      BY <2>2 DEF Submit
    <3>2. born
      BY <3>1 DEF Born
    <3> QED
      BY <3>1, <3>2 DEF TypeOK
  <2> QED
    BY <2>1, <2>2
<1> QED
  BY <1>5, <1>6, <1>7, <1>8, <1>9, StepInv DEF TypeOK

\* Spending a fault stays within the bound.
LEMMA FaultType == ASSUME TypeOK, Fault PROVE faults' \in 0..MaxFaults
BY GalleryAssumption DEF TypeOK, Fault

\* What a request has done to the store, it has done to items.
LEMMA UndoneTypes ==
    ASSUME TypeOK, NEW r \in Requests, Sound(req[r])
    PROVE  Undone(req[r]) \subseteq Items
BY DEF TypeOK, Served, Undone, Filed, Sound

\* The request ends, or waits for its form, or for the sweep of its product.
LEMMA EndInv ==
    ASSUME IInv, NEW r \in Requests,
           OpenForm(r) \/ Abort(r) \/ Delete(r) \/ Sweep(r)
    PROVE  IInv'
<1> USE DEF IInv
<1>1. PICK fields \in Served :
        /\ Step(r, fields) /\ fields.new = NoItem /\ fields.loaded = NoRows /\ fields.drop = {}
        /\ fields.pc \in {"idle", "form", "sweep"} /\ fields.put = {} /\ Sound(fields)
        /\ fields.pc = "form" => live
        /\ fields.pc = "sweep" => Delete(r)
  <2>1. CASE OpenForm(r)
    <3> DEFINE fields == [Idle EXCEPT !.pc = "form", !.shown = Filed(rows)]
    <3>1. fields \in Served
      BY IdleTypes DEF Served, Filed
    <3>2. /\ fields.new = NoItem /\ fields.loaded = NoRows /\ fields.drop = {}
          /\ fields.pc = "form" /\ fields.put = {}
      BY DEF Idle
    <3>3. Step(r, fields) /\ live
      BY <2>1 DEF OpenForm
    <3> HIDE DEF fields
    <3>4. Sound(fields)
      BY <3>2 DEF Sound
    <3> QED
      BY <3>1, <3>2, <3>3, <3>4
  <2>2. CASE Delete(r)
    <3> DEFINE fields == [Idle EXCEPT !.pc = "sweep"]
    <3>1. fields \in Served
      BY IdleTypes DEF Served
    <3>2. /\ fields.new = NoItem /\ fields.loaded = NoRows /\ fields.drop = {}
          /\ fields.pc = "sweep" /\ fields.put = {}
      BY DEF Idle
    <3>3. Step(r, fields)
      BY <2>2 DEF Delete
    <3> HIDE DEF fields
    <3>4. Sound(fields)
      BY <3>2 DEF Sound
    <3> QED
      BY <2>2, <3>1, <3>2, <3>3, <3>4
  <2>3. CASE Abort(r) \/ Sweep(r)
    BY <2>3, IdleTypes DEF Abort, Sweep
  <2> QED
    BY <2>1, <2>2, <2>3
<1>2. /\ rows' \in {rows, NoRows} /\ rows' \in Table
      /\ spare' = spare /\ born' = born /\ live' \in BOOLEAN /\ (live' => live)
      /\ Delete(r) => live /\ ~live'
  <2>1. CASE Delete(r)
    BY <2>1, IdleTypes DEF Delete
  <2>2. CASE ~Delete(r)
    <3>1. UNCHANGED <<live, born, rows, spare>>
      BY <2>2 DEF OpenForm, Abort, Sweep
    <3> QED
      BY <2>2, <3>1 DEF TypeOK
  <2> QED
    BY <2>1, <2>2
<1>3. /\ files' \in [Items -> SUBSET Variants]
      /\ Postgres /\ live => files' = files
  BY DEF OpenForm, Abort, Delete, Sweep, Emptied, TypeOK, Swept
<1>4. faults' \in 0..MaxFaults
  BY FaultType DEF OpenForm, Abort, Delete, Sweep, TypeOK
<1>5. \A i \in Items : NoRows[i] = NoRow
  BY IdleTypes
<1>6. OwnName' /\ Unused' /\ AllSound'
  BY <1>1, <1>2, <1>5, NamesInv
<1>7. torn' \in SUBSET Items
  <2>1. \A s \in Requests : Undone(req[s]) \subseteq Items
    BY UndoneTypes DEF AllSound
  <2> QED
    BY <2>1 DEF OpenForm, Abort, Delete, Sweep, TypeOK, Filed
<1> QED
  BY <1>1, <1>2, <1>3, <1>4, <1>6, <1>7, StepInv DEF TypeOK, Born

\* Going on changes neither what is loaded nor what is mentioned.
LEMMA OnwardFields ==
    ASSUME NEW q \in Served, q.pc = "unlink", q.put = {},
           q.drop \subseteq Filed(q.loaded) \ Mentioned(q)
    PROVE  LET f == Onward(q)
           IN /\ f \in Served /\ Sound(f) /\ Mentioned(f) = Mentioned(q)
              /\ f.loaded = q.loaded /\ f.drop = q.drop /\ f.put = {}
              /\ f.new \in {NoItem, q.new} /\ f.pc \in {"unlink", "publish", "commit"}
<1> DEFINE publish == [q EXCEPT !.pc = "publish"]
           commit == [q EXCEPT !.pc = "commit", !.new = NoItem]
<1>1. CASE q.drop # {}
  BY <1>1 DEF Onward, Sound
<1>2. CASE q.drop = {} /\ q.new \in Mentioned(q)
  <2>1. /\ publish \in Served /\ publish.loaded = q.loaded /\ publish.drop = {}
        /\ publish.put = {} /\ publish.new = q.new /\ publish.pc = "publish"
        /\ publish.tokens = q.tokens
    BY <1>2 DEF Served
  <2>2. q.new # NoItem
    BY <1>2, GalleryAssumption DEF Mentioned, Served
  <2>3. Onward(q) = publish
    BY <1>2 DEF Onward
  <2> HIDE DEF publish
  <2>4. Mentioned(publish) = Mentioned(q)
    BY <2>1 DEF Mentioned
  <2>5. Sound(publish)
    BY <1>2, <2>1, <2>2, <2>4 DEF Sound
  <2> QED
    BY <1>2, <2>1, <2>3, <2>4, <2>5
<1>3. CASE q.drop = {} /\ q.new \notin Mentioned(q)
  <2>1. /\ commit \in Served /\ commit.loaded = q.loaded /\ commit.drop = {}
        /\ commit.put = {} /\ commit.new = NoItem /\ commit.pc = "commit"
        /\ commit.tokens = q.tokens
    BY <1>3 DEF Served
  <2>2. Onward(q) = commit
    BY <1>3 DEF Onward
  <2> HIDE DEF commit
  <2>3. Mentioned(commit) = Mentioned(q)
    BY <2>1 DEF Mentioned
  <2>4. Sound(commit)
    BY <1>3, <2>1 DEF Sound
  <2> QED
    BY <1>3, <2>1, <2>2, <2>3, <2>4
<1> QED
  BY <1>1, <1>2, <1>3

\* What a request has read, with what it is to drop, when it goes on.
LEMMA LoadFields ==
    ASSUME TypeOK, NEW r \in Requests, Sound(req[r]), Load(r)
    PROVE  \E fields \in Served :
              /\ Step(r, fields) /\ fields.new \in {NoItem, req[r].new}
              /\ fields.loaded \in {NoRows, rows} /\ fields.put = {} /\ Sound(fields)
              /\ fields.pc \in {"idle", "unlink", "publish", "commit"}
              /\ Undone(fields) = {}
<1> DEFINE q == req[r]
<1>0. q \in Served /\ q.pc = "load" /\ q.put = {}
  BY DEF Load, TypeOK, Sound
<1>1. CASE ~live
  <2>1. Undone(Idle) = {}
    BY IdleTypes DEF Undone, Filed
  <2> QED
    BY <1>1, <2>1, IdleTypes DEF Load
<1>2. CASE live
  <2>1. PICK tokens \in IF q.plain
                        THEN {IF q.new = NoItem THEN s ELSE Append(s, q.new) : s \in Sorted(rows)}
                        ELSE {q.tokens} :
          Step(r, Onward([q EXCEPT !.pc = "unlink", !.loaded = rows, !.tokens = tokens,
                                   !.plain = FALSE,
                                   !.drop = {i \in Filed(rows) :
                                                \A k \in DOMAIN tokens : tokens[k] # i}]))
    BY <1>2 DEF Load
  <2>2. tokens \in Seq(Items)
    <3>1. CASE q.plain
      <4>1. PICK s \in Sorted(rows) : tokens = IF q.new = NoItem THEN s ELSE Append(s, q.new)
        BY <2>1, <3>1
      <4>2. IsFiniteSet(Filed(rows))
        BY GalleryAssumption, FS_Subset DEF Filed
      <4>3. Cardinality(Filed(rows)) \in Nat
        BY <4>2, FS_CardinalityType
      <4>4. s \in [1..Cardinality(Filed(rows)) -> Items]
        BY <4>1 DEF Sorted, Filed
      <4>5. s \in Seq(Items)
        BY <4>3, <4>4
      <4> QED
        BY <1>0, <4>1, <4>5 DEF Served
    <3>2. CASE ~q.plain
      BY <1>0, <2>1, <3>2 DEF Served
    <3> QED
      BY <3>1, <3>2
  <2> DEFINE dropped == {i \in Filed(rows) : \A k \in DOMAIN tokens : tokens[k] # i}
             mentioned == {tokens[k] : k \in DOMAIN tokens}
             base == [q EXCEPT !.pc = "unlink", !.loaded = rows, !.tokens = tokens,
                               !.plain = FALSE, !.drop = dropped]
  <2>3. dropped \in SUBSET Items /\ dropped = Filed(rows) \ mentioned
    BY DEF Filed
  <2>4. Step(r, Onward(base))
    BY <2>1
  <2> HIDE DEF dropped
  <2>5. /\ base \in Served /\ base.new = q.new /\ base.loaded = rows /\ base.put = {}
        /\ base.drop = dropped /\ base.pc = "unlink" /\ base.tokens = tokens
    BY <1>0, <2>2, <2>3 DEF Served, TypeOK
  <2> HIDE DEF base
  <2>6. Mentioned(base) = mentioned
    BY <2>5 DEF Mentioned
  <2> HIDE DEF mentioned
  <2> DEFINE f == Onward(base)
  <2>7. /\ f \in Served /\ Sound(f) /\ Mentioned(f) = mentioned
        /\ f.loaded = rows /\ f.drop = dropped /\ f.put = {}
        /\ f.new \in {NoItem, q.new} /\ f.pc \in {"unlink", "publish", "commit"}
    BY <2>3, <2>5, <2>6, OnwardFields
  <2> HIDE DEF f
  <2>8. Undone(f) = {}
    BY <2>3, <2>7 DEF Undone
  <2> QED
    BY <2>4, <2>7, <2>8 DEF f
<1> QED
  BY <1>1, <1>2

LEMMA LoadInv ==
    ASSUME IInv, NEW r \in Requests, Load(r)
    PROVE  IInv'
<1> USE DEF IInv
<1> DEFINE q == req[r]
<1>0. /\ q \in Served /\ q.pc = "load" /\ Sound(q)
      /\ UNCHANGED <<live, born, rows, files, spare, faults, torn>>
  BY DEF Load, TypeOK, AllSound
<1>1. PICK fields \in Served :
        /\ Step(r, fields) /\ fields.new \in {NoItem, q.new}
        /\ fields.loaded \in {NoRows, rows} /\ fields.put = {} /\ Sound(fields)
        /\ fields.pc \in {"idle", "unlink", "publish", "commit"}
  BY <1>0, LoadFields
<1>2. OwnName' /\ Unused' /\ AllSound'
  BY <1>0, <1>1, NamesInv DEF TypeOK
<1>3. live' \in BOOLEAN /\ born' \in BOOLEAN /\ born' /\ (live' => live)
  <2>1. born
    BY <1>0 DEF Born
  <2> QED
    BY <1>0, <2>1 DEF TypeOK
<1> QED
  BY <1>0, <1>1, <1>2, <1>3, StepInv DEF TypeOK

\* One dropped item's files are gone, and it is one less to drop.
LEMMA UnlinkFields ==
    ASSUME TypeOK, NEW r \in Requests, Sound(req[r]), Unlink(r)
    PROVE  \E fields \in Served, i \in req[r].drop :
              /\ Step(r, fields) /\ fields.new \in {NoItem, req[r].new}
              /\ files' = Emptied({i})
              /\ fields.loaded = req[r].loaded /\ fields.put = {} /\ Sound(fields)
              /\ fields.drop = req[r].drop \ {i} /\ Mentioned(fields) = Mentioned(req[r])
              /\ fields.pc \in {"unlink", "publish", "commit"}
<1> DEFINE q == req[r]
<1>0. /\ q \in Served /\ q.pc = "unlink" /\ q.put = {}
      /\ q.drop \subseteq Filed(q.loaded) \ Mentioned(q)
  BY DEF Unlink, TypeOK, Sound
<1>1. PICK i \in q.drop : files' = Emptied({i}) /\ Step(r, Onward([q EXCEPT !.drop = @ \ {i}]))
  BY DEF Unlink
<1> DEFINE base == [q EXCEPT !.drop = @ \ {i}]
<1>2. /\ base \in Served /\ base.new = q.new /\ base.loaded = q.loaded /\ base.put = {}
      /\ base.drop = q.drop \ {i} /\ base.pc = "unlink" /\ base.tokens = q.tokens
  BY <1>0 DEF Served
<1>3. Step(r, Onward(base))
  BY <1>1
<1> HIDE DEF base
<1>4. Mentioned(base) = Mentioned(q)
  BY <1>2 DEF Mentioned
<1> DEFINE f == Onward(base)
<1>5. /\ f \in Served /\ Sound(f) /\ Mentioned(f) = Mentioned(q)
      /\ f.loaded = q.loaded /\ f.drop = q.drop \ {i} /\ f.put = {}
      /\ f.new \in {NoItem, q.new} /\ f.pc \in {"unlink", "publish", "commit"}
  BY <1>0, <1>2, <1>4, OnwardFields
<1> HIDE DEF f
<1> QED
  BY <1>1, <1>3, <1>5 DEF f

\* The new item has some more of its files, or is given up before the first.
LEMMA NewItemFields ==
    ASSUME TypeOK, NEW r \in Requests, Sound(req[r]), Reject(r) \/ Publish(r)
    PROVE  \E fields \in Served, some \in SUBSET Variants :
              /\ Step(r, fields)
              /\ \/ fields.new = NoItem /\ some = {} /\ req[r].put = {} /\ files' = files
                 \/ fields.new = req[r].new /\ some # {}
              /\ files' = [files EXCEPT ![req[r].new] = @ \cup some]
              /\ fields.put = req[r].put \cup some /\ Sound(fields)
              /\ fields.loaded = req[r].loaded /\ fields.drop = {}
              /\ Mentioned(fields) = Mentioned(req[r])
              /\ fields.pc \in {"publish", "commit"}
<1> DEFINE q == req[r]
<1>0. /\ q \in Served /\ q.pc = "publish" /\ q.drop = {} /\ q.new # NoItem
      /\ q.new \in Mentioned(q) /\ files \in [Items -> SUBSET Variants]
      /\ q.drop \subseteq Filed(q.loaded) \ Mentioned(q) /\ q.new \in Items
  BY DEF Reject, Publish, TypeOK, Sound, Served
<1>1. CASE Reject(r)
  <2> DEFINE f == [q EXCEPT !.pc = "commit", !.new = NoItem]
  <2>1. /\ f \in Served /\ f.new = NoItem /\ f.loaded = q.loaded /\ f.put = q.put
        /\ f.drop = {} /\ f.pc = "commit" /\ f.tokens = q.tokens
    BY <1>0 DEF Served
  <2>2. Step(r, f) /\ q.put = {} /\ files' = files
    BY <1>1 DEF Reject
  <2> HIDE DEF f
  <2>3. Mentioned(f) = Mentioned(q)
    BY <2>1 DEF Mentioned
  <2>4. Sound(f)
    BY <1>0, <2>1, <2>2, <2>3 DEF Sound
  <2>5. files' = [files EXCEPT ![q.new] = @ \cup {}]
    BY <1>0, <2>2
  <2> QED
    BY <2>1, <2>2, <2>3, <2>4, <2>5
<1>2. CASE Publish(r)
  <2>1. PICK some \in IF Remote THEN {{v} : v \in Variants \ q.put} ELSE {Variants} :
          /\ files' = [files EXCEPT ![q.new] = @ \cup some]
          /\ Step(r, [q EXCEPT !.put = @ \cup some,
                              !.pc = IF q.put \cup some = Variants THEN "commit" ELSE @])
    BY <1>2, Zenon DEF Publish
  <2>2. some \in SUBSET Variants /\ some # {}
    BY GalleryAssumption
  <2> DEFINE pc == IF q.put \cup some = Variants THEN "commit" ELSE "publish"
             put == q.put \cup some
             f == [q EXCEPT !.put = put, !.pc = pc]
  <2>3. Step(r, f)
    BY <1>0, <2>1
  <2>4. pc \in {"publish", "commit"} /\ put \in SUBSET Variants /\ (pc = "commit" => put = Variants)
    BY <1>0, <2>2 DEF Served
  <2>p. put = q.put \cup some
    OBVIOUS
  <2> HIDE DEF pc, put
  <2>5. /\ f \in Served /\ f.new = q.new /\ f.loaded = q.loaded /\ f.put = put
        /\ f.drop = {} /\ f.pc = pc /\ f.tokens = q.tokens
    BY <1>0, <2>4 DEF Served
  <2> HIDE DEF f
  <2>6. Mentioned(f) = Mentioned(q)
    BY <2>5 DEF Mentioned
  <2>7. Sound(f)
    BY <1>0, <2>4, <2>5, <2>6 DEF Sound
  <2> QED
    BY <2>1, <2>2, <2>3, <2>4, <2>p, <2>5, <2>6, <2>7
<1> QED
  BY <1>1, <1>2

\* The steps on the store: each works on the files of a row it has loaded, or
\* on those of its own new item.
LEMMA StoreInv ==
    ASSUME IInv, NEW r \in Requests, Unlink(r) \/ Reject(r) \/ Publish(r)
    PROVE  IInv'
<1> USE DEF IInv
<1> DEFINE q == req[r]
<1>0. /\ q \in Served /\ q.pc \in {"unlink", "publish"} /\ Sound(q)
      /\ UNCHANGED <<live, born, rows, spare, faults, torn>>
      /\ files \in [Items -> SUBSET Variants]
      /\ Postgres /\ live /\ q.new # NoItem => q.put \subseteq files[q.new]
  BY DEF Unlink, Reject, Publish, TypeOK, AllSound, Complete
<1>1. \E fields \in Served :
            /\ Step(r, fields) /\ fields.new \in {NoItem, q.new}
            /\ fields.loaded = q.loaded /\ Sound(fields)
            /\ fields.pc \in {"unlink", "publish", "commit"}
            /\ files' \in [Items -> SUBSET Variants]
            /\ \A i \in Items : q.loaded[i] = NoRow /\ i # q.new => files'[i] = files[i]
            /\ Postgres /\ live /\ fields.new # NoItem => fields.put \subseteq files'[fields.new]
  <2>1. CASE Unlink(r)
    <3>1. PICK fields \in Served, i \in q.drop :
              /\ Step(r, fields) /\ fields.new \in {NoItem, q.new}
              /\ files' = Emptied({i})
              /\ fields.loaded = q.loaded /\ fields.put = {} /\ Sound(fields)
              /\ fields.pc \in {"unlink", "publish", "commit"}
      BY <1>0, <2>1, UnlinkFields
    <3>2. q.loaded[i] # NoRow
      BY <1>0 DEF Sound, Filed
    <3> QED
      BY <1>0, <3>1, <3>2 DEF Emptied
  <2>2. CASE Reject(r) \/ Publish(r)
    <3>1. PICK fields \in Served, some \in SUBSET Variants :
              /\ Step(r, fields)
              /\ \/ fields.new = NoItem
                 \/ fields.new = q.new
              /\ files' = [files EXCEPT ![q.new] = @ \cup some]
              /\ fields.put = q.put \cup some /\ Sound(fields)
              /\ fields.loaded = q.loaded
              /\ fields.pc \in {"publish", "commit"}
      BY <1>0, <2>2, NewItemFields
    <3>2. files' \in [Items -> SUBSET Variants]
      BY <1>0, <3>1
    <3>3. q.new \in Items \cup {NoItem}
      BY <1>0 DEF Served
    <3>4. Postgres /\ live /\ fields.new # NoItem => fields.put \subseteq files'[fields.new]
      BY <1>0, <3>1, <3>3
    <3> QED
      BY <1>0, <3>1, <3>2, <3>4
  <2> QED
    BY <2>1, <2>2
<1>2. PICK fields \in Served :
            /\ Step(r, fields) /\ fields.new \in {NoItem, q.new}
            /\ fields.loaded = q.loaded /\ Sound(fields)
            /\ fields.pc \in {"unlink", "publish", "commit"}
            /\ files' \in [Items -> SUBSET Variants]
            /\ \A i \in Items : q.loaded[i] = NoRow /\ i # q.new => files'[i] = files[i]
            /\ Postgres /\ live /\ fields.new # NoItem => fields.put \subseteq files'[fields.new]
  BY <1>1
<1>3. OwnName' /\ Unused' /\ AllSound'
  BY <1>0, <1>2, NamesInv DEF TypeOK
<1>4. live' \in BOOLEAN /\ born' \in BOOLEAN /\ born' /\ (live' => live)
  <2>1. born
    BY <1>0 DEF Born
  <2> QED
    BY <1>0, <2>1 DEF TypeOK
<1> QED
  BY <1>0, <1>2, <1>3, <1>4, StepInv DEF TypeOK

\* What a commit leaves: a row it inserts is that of its new item.
LEMMA CommittedRows ==
    ASSUME TypeOK, NEW r \in Requests, Commit(r)
    PROVE  /\ rows' \in Table
           /\ \A i \in Items : rows[i] = NoRow /\ rows'[i] # NoRow =>
                i = req[r].new /\ (Postgres => live)
<1> DEFINE q == req[r]
<1>1. q \in Served /\ rows \in Table
  BY DEF TypeOK
<1>2. CASE rows' = rows
  BY <1>1, <1>2
<1>3. CASE rows' # rows
  <2>1. /\ ~Refused(q)
        /\ rows' = [i \in Items |->
              IF i = q.new THEN Arranged(q, i)
              ELSE IF i \in Changed(q) THEN Merged(q, i)
              ELSE IF q.loaded[i] # NoRow /\ i \notin Mentioned(q) THEN NoRow
              ELSE rows[i]]
    BY <1>3 DEF Commit
  <2>2. \A i \in Items : Arranged(q, i) \in Row
    BY <1>1, ArrangedTypes
  <2>3. \A i \in Items : i \in Changed(q) => rows[i] \in Row /\ Merged(q, i) \in Row
    <3> SUFFICES ASSUME NEW i \in Items, i \in Changed(q)
                 PROVE  rows[i] \in Row /\ Merged(q, i) \in Row
      OBVIOUS
    <3>1. rows[i] \in Row
      BY <1>1, <2>1 DEF Refused, Table
    <3>2. Arranged(q, i) \in Row
      BY <2>2
    <3> HIDE DEF q
    <3> QED
      BY <3>1, <3>2 DEF Merged, Row
  <2> HIDE DEF q
  <2>4. rows' \in Table
    BY <1>1, <2>1, <2>2, <2>3 DEF Table
  <2>5. ASSUME NEW i \in Items, rows[i] = NoRow, rows'[i] # NoRow
        PROVE  i = q.new /\ (Postgres => live)
    <3>1. i = q.new
      BY <2>1, <2>3, <2>5, NoRowAssumption
    <3> QED
      BY <2>1, <3>1, GalleryAssumption DEF Refused
  <2> QED
    BY <2>4, <2>5 DEF q
<1> QED
  BY <1>2, <1>3

LEMMA CommitInv ==
    ASSUME IInv, NEW r \in Requests, Commit(r)
    PROVE  IInv'
<1> USE DEF IInv
<1>1. rows' \in Table /\ \A i \in Items : rows[i] = NoRow /\ i # req[r].new => rows'[i] = NoRow
  BY CommittedRows
<1>2. /\ Step(r, Idle) /\ req[r].pc = "commit"
      /\ UNCHANGED <<live, born, files, spare, faults>>
  BY DEF Commit
<1>t. torn' \in SUBSET Items
  BY UndoneTypes DEF Commit, TypeOK, AllSound
<1>3. OwnName' /\ Unused' /\ AllSound'
  BY <1>1, <1>2, IdleTypes, NamesInv
<1>4. live' \in BOOLEAN /\ born' \in BOOLEAN /\ born' /\ (live' => live)
  <2>1. born
    BY <1>2 DEF Born
  <2> QED
    BY <1>2, <2>1 DEF TypeOK
<1> QED
  BY <1>1, <1>2, <1>t, <1>3, <1>4, IdleTypes, StepInv DEF TypeOK

-----------------------------------------------------------------------------
\* The invariant holds of every gallery.
THEOREM Invariance == Spec => []IInv
<1>1. Init => IInv
  BY InitInv
<1>2. IInv /\ [Next]_vars => IInv'
  <2> SUFFICES ASSUME IInv, [Next]_vars PROVE IInv'
    OBVIOUS
  <2>1. CASE UNCHANGED vars
    BY <2>1 DEF vars, IInv, TypeOK, OwnName, Unused, AllSound, Born, Swept, Complete
  <2>2. ASSUME NEW r \in Requests, Create(r) \/ Submit(r) PROVE IInv'
    BY <2>2, PostInv
  <2>3. ASSUME NEW r \in Requests, OpenForm(r) \/ Abort(r) \/ Delete(r) \/ Sweep(r) PROVE IInv'
    BY <2>3, EndInv
  <2>4. ASSUME NEW r \in Requests, Load(r) PROVE IInv'
    BY <2>4, LoadInv
  <2>5. ASSUME NEW r \in Requests, Unlink(r) \/ Reject(r) \/ Publish(r)
        PROVE IInv'
    BY <2>5, StoreInv
  <2>6. ASSUME NEW r \in Requests, Commit(r) PROVE IInv'
    BY <2>6, CommitInv
  <2> QED
    BY <2>1, <2>2, <2>3, <2>4, <2>5, <2>6 DEF Next, Save
<1> QED
  BY <1>1, <1>2, PTL DEF Spec

\* The gallery, the store and the requests keep their types: in particular a
\* save never gives a position outside 0..n-1, whatever order is posted.
THEOREM TypeCorrect == Spec => []TypeOK
<1>1. IInv => TypeOK
  BY DEF IInv
<1> QED
  BY <1>1, Invariance, PTL

\* With foreign keys and ids that are never given again, no row is inserted
\* before all its files are in the store, whatever other requests delete or
\* sweep meanwhile and wherever they fail.
THEOREM NewRowsPublished ==
    ASSUME Postgres
    PROVE  Spec => NewRowsHaveFiles
<1>1. IInv /\ [Next]_vars
        => [\A i \in Items : rows[i] = NoRow /\ rows'[i] # NoRow => files[i] = Variants]_vars
  <2> SUFFICES ASSUME IInv, Next, NEW i \in Items, rows[i] = NoRow, rows'[i] # NoRow
               PROVE  files[i] = Variants
    BY DEF vars
  <2>1. PICK r \in Requests : Commit(r)
    <3>1. \A s \in Requests : Create(s) \/ Submit(s) \/ OpenForm(s) \/ Abort(s) \/ Sweep(s)
                             \/ Load(s) \/ Unlink(s) \/ Reject(s) \/ Publish(s)
                             => rows' = rows
      BY DEF Create, Submit, OpenForm, Abort, Sweep, Load, Unlink, Reject, Publish
    <3>2. \A s \in Requests : Delete(s) => rows'[i] = NoRow
      BY IdleTypes DEF Delete
    <3> QED
      BY <3>1, <3>2 DEF Next, Save
  <2>2. i = req[r].new /\ live
    BY <2>1, CommittedRows DEF IInv
  <2>3. req[r].pc = "commit" /\ req[r].new # NoItem
    BY <2>1, <2>2, GalleryAssumption DEF Commit
  <2>4. req[r].put = Variants /\ req[r].put \subseteq files[i] /\ files[i] \subseteq Variants
    BY <2>2, <2>3 DEF IInv, Complete, AllSound, Sound, TypeOK
  <2> QED
    BY <2>4
<1> QED
  BY <1>1, Invariance, PTL DEF Spec, NewRowsHaveFiles

-----------------------------------------------------------------------------
(***************************************************************************)
(* Rows and files part only inside a request, and this is how far.         *)
(***************************************************************************)
\* The files of a new item are those its request has published, those of an item
\* it has dropped are gone, and a name nobody has drawn has none.
Stored ==
    /\ \A r \in Requests :
         /\ req[r].new # NoItem /\ req[r].new \notin torn => files[req[r].new] = req[r].put
         /\ \A i \in Filed(req[r].loaded) \ (Mentioned(req[r]) \cup req[r].drop) : files[i] = {}
    /\ \A i \in spare : files[i] = {}

Matched(i) == files[i] = IF rows[i] = NoRow THEN {} ELSE Variants

\* An item's row and files agree, or some request is about to make them.
Owed(i) ==
    \/ Matched(i)
    \/ \E r \in Requests : i \in Undone(req[r])
    \/ rows[i] = NoRow /\ \E r \in Requests : req[r].pc = "sweep"
AllOwed == \A i \in Items \ torn : Owed(i)

\* What a request becomes, and what the others stay.
LEMMA OneMoves ==
    ASSUME TypeOK, NEW r \in Requests, NEW fields, Step(r, fields)
    PROVE  /\ req'[r] = fields
           /\ \A s \in Requests : s # r => req'[s] = req[s]
BY DEF Step, TypeOK

\* A step that leaves the store alone, draws at most a name nobody had, and
\* drops nothing that it has not deleted.
LEMMA StoredStep ==
    ASSUME IInv, Stored, NEW r \in Requests, NEW fields, Step(r, fields),
           files' = files, torn \subseteq torn', spare' \subseteq spare,
           \/ fields.new = NoItem
           \/ fields.new \in spare /\ fields.put = {}
           \/ fields.new = req[r].new /\ fields.put = req[r].put,
           Filed(fields.loaded) \ (Mentioned(fields) \cup fields.drop)
              \subseteq Filed(req[r].loaded) \ (Mentioned(req[r]) \cup req[r].drop)
    PROVE  Stored'
<1>1. /\ req'[r] = fields
      /\ \A s \in Requests : s # r => req'[s] = req[s]
  BY OneMoves DEF IInv
<1>2. ASSUME NEW s \in Requests, req'[s].new # NoItem, req'[s].new \notin torn'
      PROVE  files'[req'[s].new] = req'[s].put
  <2>1. CASE s = r
    BY <1>1, <1>2, <2>1 DEF Stored
  <2>2. CASE s # r
    BY <1>1, <1>2, <2>2 DEF Stored
  <2> QED
    BY <2>1, <2>2
<1>3. ASSUME NEW s \in Requests,
             NEW i \in Filed(req'[s].loaded) \ (Mentioned(req'[s]) \cup req'[s].drop)
      PROVE  files'[i] = {}
  <2>1. CASE s = r
    BY <1>1, <1>3, <2>1 DEF Stored
  <2>2. CASE s # r
    BY <1>1, <1>3, <2>2 DEF Stored
  <2> QED
    BY <2>1, <2>2
<1>4. \A i \in spare' : files'[i] = {}
  BY DEF Stored
<1> QED
  BY <1>2, <1>3, <1>4 DEF Stored

\* A step that leaves an item's files and row alone, and does not forget what is
\* owed to it.
LEMMA OwedStep ==
    ASSUME TypeOK, NEW r \in Requests, NEW fields, Step(r, fields), NEW i \in Items, Owed(i),
           files'[i] = files[i], rows'[i] = NoRow <=> rows[i] = NoRow,
           i \in Undone(req[r]) => i \in Undone(fields),
           req[r].pc # "sweep"
    PROVE  Owed(i)'
<1>1. /\ req'[r] = fields
      /\ \A s \in Requests : s # r => req'[s] = req[s]
  BY OneMoves
<1>2. CASE Matched(i)
  BY <1>2 DEF Matched, Owed
<1>3. ASSUME NEW s \in Requests, i \in Undone(req[s]) PROVE Owed(i)'
  <2>1. i \in Undone(req'[s])
    BY <1>1, <1>3
  <2>2. Undone(req[s])' = Undone(req'[s])
    BY DEF Undone, Mentioned, Filed
  <2> QED
    BY <2>1, <2>2 DEF Owed
<1>4. ASSUME NEW s \in Requests, rows[i] = NoRow, req[s].pc = "sweep" PROVE Owed(i)'
  <2>1. req'[s].pc = "sweep"
    BY <1>1, <1>4
  <2> QED
    BY <1>4, <2>1 DEF Owed
<1> QED
  BY <1>2, <1>3, <1>4 DEF Owed

\* Nothing is owed by a request that has not begun.
LEMMA NothingUndone ==
    ASSUME NEW q, Sound(q), q.pc \in {"idle", "form", "load", "sweep"}
    PROVE  Undone(q) = {} /\ Filed(q.loaded) \ (Mentioned(q) \cup q.drop) = {}
BY IdleTypes DEF Sound, Undone, Filed

LEMMA FormOwed ==
    ASSUME IInv, Stored, AllOwed, NEW r \in Requests,
           Create(r) \/ OpenForm(r) \/ Submit(r) \/ Load(r)
    PROVE  Stored' /\ AllOwed'
<1> USE DEF IInv
<1> DEFINE q == req[r]
<1>0. /\ Sound(q) /\ q.pc \in {"idle", "form", "load"} /\ Undone(q) = {}
      /\ UNCHANGED <<rows, files, torn>>
  BY NothingUndone DEF Create, OpenForm, Submit, Load, AllSound
<1>1. \E fields :
         /\ Step(r, fields) /\ spare' \subseteq spare /\ fields.put = {}
         /\ fields.new \in {NoItem, q.new} \cup spare
         /\ Filed(fields.loaded) \ (Mentioned(fields) \cup fields.drop) = {}
  <2>1. CASE Create(r) \/ Submit(r)
    <3>1. PICK shown : Post(r, shown)
      BY <2>1 DEF Create, Submit
    <3>2. PICK new \in spare \cup {NoItem} :
            \E n \in 0..MaxTokens :
              \E tokens \in [1..n -> shown \cup ({new} \ {NoItem})], plain \in BOOLEAN :
                /\ spare' = spare \ {new}
                /\ Step(r, [Idle EXCEPT !.pc = "load", !.tokens = tokens, !.plain = plain, !.new = new])
      BY <3>1 DEF Post
    <3>3. PICK tokens, plain :
            /\ spare' = spare \ {new}
            /\ Step(r, [Idle EXCEPT !.pc = "load", !.tokens = tokens, !.plain = plain, !.new = new])
      BY <3>2
    <3> DEFINE fields == [Idle EXCEPT !.pc = "load", !.tokens = tokens, !.plain = plain, !.new = new]
    <3>4. fields.put = {} /\ fields.new = new /\ fields.loaded = NoRows
      BY DEF Idle
    <3>5. Step(r, fields)
      BY <3>3
    <3> HIDE DEF fields
    <3>6. Filed(fields.loaded) = {}
      BY <3>4, IdleTypes DEF Filed
    <3> QED
      BY <3>3, <3>4, <3>5, <3>6
  <2>2. CASE OpenForm(r)
    <3> DEFINE fields == [Idle EXCEPT !.pc = "form", !.shown = Filed(rows)]
    <3>1. fields.put = {} /\ fields.new = NoItem /\ fields.loaded = NoRows
      BY DEF Idle
    <3>2. Step(r, fields) /\ spare' = spare
      BY <2>2 DEF OpenForm
    <3> HIDE DEF fields
    <3>3. Filed(fields.loaded) = {}
      BY <3>1, IdleTypes DEF Filed
    <3> QED
      BY <3>1, <3>2, <3>3
  <2>3. CASE Load(r)
    <3>1. PICK fields \in Served :
            /\ Step(r, fields) /\ fields.new \in {NoItem, q.new}
            /\ fields.put = {} /\ Undone(fields) = {}
      BY <1>0, <2>3, LoadFields
    <3>2. spare' = spare
      BY <2>3 DEF Load
    <3>3. Filed(fields.loaded) \ (Mentioned(fields) \cup fields.drop) = {}
      BY <3>1 DEF Undone
    <3> QED
      BY <3>1, <3>2, <3>3
  <2> QED
    BY <2>1, <2>2, <2>3
<1>2. PICK fields :
         /\ Step(r, fields) /\ spare' \subseteq spare /\ fields.put = {}
         /\ fields.new \in {NoItem, q.new} \cup spare
         /\ Filed(fields.loaded) \ (Mentioned(fields) \cup fields.drop) = {}
  BY <1>1
<1>3. q.put = {}
  BY <1>0 DEF Sound
<1>4. Stored'
  BY <1>0, <1>2, <1>3, StoredStep
<1>5. ASSUME NEW i \in Items, i \notin torn' PROVE Owed(i)'
  BY <1>0, <1>2, <1>5, OwedStep DEF AllOwed
<1> QED
  BY <1>4, <1>5 DEF AllOwed

\* The files of a row go before it does, those of a new item come before.
LEMMA StoreOwed ==
    ASSUME IInv, Stored, AllOwed, NEW r \in Requests, Unlink(r) \/ Reject(r) \/ Publish(r)
    PROVE  Stored' /\ AllOwed'
<1> USE DEF IInv
<1> DEFINE q == req[r]
<1>0. /\ Sound(q) /\ q \in Served /\ UNCHANGED <<rows, torn, spare>> /\ q.pc # "sweep"
      /\ files \in [Items -> SUBSET Variants]
  BY DEF Unlink, Reject, Publish, AllSound, TypeOK
<1>1. CASE Unlink(r)
  <2>1. PICK fields \in Served, i \in q.drop :
              /\ Step(r, fields) /\ fields.new \in {NoItem, q.new}
              /\ files' = Emptied({i})
              /\ fields.loaded = q.loaded /\ fields.put = {} /\ Sound(fields)
              /\ fields.drop = q.drop \ {i} /\ Mentioned(fields) = Mentioned(q)
              /\ fields.pc \in {"unlink", "publish", "commit"}
    BY <1>0, <1>1, UnlinkFields
  <2>2. i \in Items /\ q.loaded[i] # NoRow /\ i \notin Mentioned(q) /\ q.put = {}
    BY <1>0, <1>1 DEF Sound, Filed, Unlink
  <2>3. /\ req'[r] = fields /\ \A s \in Requests : s # r => req'[s] = req[s]
    BY <2>1, OneMoves
  <2>4. \A j \in Items : files'[j] = IF j = i THEN {} ELSE files[j]
    BY <2>1 DEF Emptied
  <2>5. \A s \in Requests : req[s].new # i
    BY <2>2, GalleryAssumption DEF OwnName
  <2>6. Stored'
    <3>1. ASSUME NEW s \in Requests, req'[s].new # NoItem, req'[s].new \notin torn'
          PROVE  files'[req'[s].new] = req'[s].put
      <4>1. req'[s].new = req[s].new /\ req'[s].put = req[s].put
        BY <2>1, <2>2, <2>3, <3>1
      <4>2. req[s].new \in Items /\ req[s].new # i
        BY <2>5, <3>1, <4>1 DEF TypeOK, Served
      <4> QED
        BY <1>0, <2>4, <3>1, <4>1, <4>2 DEF Stored
    <3>2. ASSUME NEW s \in Requests,
                 NEW j \in Filed(req'[s].loaded) \ (Mentioned(req'[s]) \cup req'[s].drop)
          PROVE  files'[j] = {}
      <4>1. j \in Items
        BY <3>2 DEF Filed
      <4>2. CASE j = i
        BY <2>4, <4>1, <4>2
      <4>3. CASE j # i
        <5>1. j \in Filed(req[s].loaded) \ (Mentioned(req[s]) \cup req[s].drop)
          BY <2>1, <2>3, <3>2, <4>3
        <5> QED
          BY <2>4, <4>1, <5>1 DEF Stored
      <4> QED
        BY <4>2, <4>3
    <3>3. \A j \in spare' : files'[j] = {}
      BY <1>0, <2>4 DEF Stored, TypeOK
    <3> QED
      BY <3>1, <3>2, <3>3 DEF Stored
  <2>7. ASSUME NEW j \in Items, j \notin torn' PROVE Owed(j)'
    <3>1. CASE j = i
      <4>1. i \in Undone(fields)
        BY <2>1, <2>2 DEF Undone, Filed
      <4>2. Undone(req[r])' = Undone(fields)
        BY <2>3 DEF Undone, Mentioned, Filed
      <4> QED
        BY <3>1, <4>1, <4>2 DEF Owed
    <3>2. CASE j # i
      <4>1. Undone(q) \subseteq Undone(fields)
        BY <2>1, <2>2 DEF Undone
      <4> QED
        BY <1>0, <2>1, <2>4, <2>7, <3>2, <4>1, OwedStep DEF AllOwed
    <3> QED
      BY <3>1, <3>2
  <2> QED
    BY <2>6, <2>7 DEF AllOwed
<1>2. CASE Reject(r) \/ Publish(r)
  <2>1. PICK fields \in Served, some \in SUBSET Variants :
              /\ Step(r, fields)
              /\ \/ fields.new = NoItem /\ some = {} /\ q.put = {} /\ files' = files
                 \/ fields.new = q.new /\ some # {}
              /\ files' = [files EXCEPT ![q.new] = @ \cup some]
              /\ fields.put = q.put \cup some /\ Sound(fields)
              /\ fields.loaded = q.loaded /\ fields.drop = {}
              /\ Mentioned(fields) = Mentioned(q)
              /\ fields.pc \in {"publish", "commit"}
    BY <1>0, <1>2, NewItemFields
  <2>2. q.pc = "publish" /\ q.drop = {} /\ q.new # NoItem /\ q.new \in Items
    BY <1>0, <1>2 DEF Reject, Publish, Sound, Served
  <2>3. /\ req'[r] = fields /\ \A s \in Requests : s # r => req'[s] = req[s]
    BY <2>1, OneMoves
  <2>4. /\ files'[q.new] = files[q.new] \cup some
        /\ \A j \in Items : j # q.new => files'[j] = files[j]
    BY <1>0, <2>1, <2>2
  <2>5. /\ q.new \notin spare
        /\ \A s \in Requests : /\ s # r => req[s].new # q.new
                               /\ req[s].loaded[q.new] = NoRow
    BY <2>2 DEF OwnName
  <2>6. Stored'
    <3>1. ASSUME NEW s \in Requests, req'[s].new # NoItem, req'[s].new \notin torn'
          PROVE  files'[req'[s].new] = req'[s].put
      <4>1. CASE s = r
        BY <1>0, <2>1, <2>3, <2>4, <3>1, <4>1 DEF Stored
      <4>2. CASE s # r
        <5>1. req'[s] = req[s] /\ req[s].new # q.new /\ req[s].new \in Items
          BY <2>3, <2>5, <3>1, <4>2 DEF TypeOK, Served
        <5> QED
          BY <1>0, <2>4, <3>1, <5>1 DEF Stored
      <4> QED
        BY <4>1, <4>2
    <3>2. ASSUME NEW s \in Requests,
                 NEW j \in Filed(req'[s].loaded) \ (Mentioned(req'[s]) \cup req'[s].drop)
          PROVE  files'[j] = {}
      <4>1. j \in Items /\ j \in Filed(req[s].loaded) \ (Mentioned(req[s]) \cup req[s].drop)
        BY <2>1, <2>2, <2>3, <3>2 DEF Filed
      <4>2. j # q.new
        BY <2>5, <4>1 DEF Filed
      <4> QED
        BY <2>4, <4>1, <4>2 DEF Stored
    <3>3. \A j \in spare' : files'[j] = {}
      BY <1>0, <2>4, <2>5 DEF Stored, TypeOK
    <3> QED
      BY <3>1, <3>2, <3>3 DEF Stored
  <2>7. ASSUME NEW j \in Items, j \notin torn' PROVE Owed(j)'
    <3>1. CASE j = q.new /\ some # {}
      <4>1. q.new \in Undone(fields)
        BY <2>1, <2>2, <3>1 DEF Undone
      <4>2. Undone(req[r])' = Undone(fields)
        BY <2>3 DEF Undone, Mentioned, Filed
      <4> QED
        BY <3>1, <4>1, <4>2 DEF Owed
    <3>2. CASE j # q.new \/ some = {}
      <4>1. files'[j] = files[j]
        BY <2>1, <2>4, <3>2
      <4>2. j \in Undone(q) => j \in Undone(fields)
        BY <2>1, <2>2 DEF Undone
      <4> QED
        BY <1>0, <2>1, <2>7, <4>1, <4>2, OwedStep DEF AllOwed
    <3> QED
      BY <3>1, <3>2
  <2> QED
    BY <2>6, <2>7 DEF AllOwed
<1> QED
  BY <1>1, <1>2

\* The rows become those of the items that are there, or what was done in the
\* store stays undone.
LEMMA CommitOwed ==
    ASSUME IInv, Stored, AllOwed, NEW r \in Requests, Commit(r)
    PROVE  Stored' /\ AllOwed'
<1> USE DEF IInv
<1> DEFINE q == req[r]
<1>0. /\ Sound(q) /\ q \in Served /\ q.pc = "commit" /\ rows \in Table
      /\ UNCHANGED <<files, spare>> /\ Step(r, Idle) /\ torn \subseteq torn'
      /\ files \in [Items -> SUBSET Variants]
  BY DEF Commit, AllSound, TypeOK
<1>1. Undone(Idle) = {} /\ Filed(Idle.loaded) \ (Mentioned(Idle) \cup Idle.drop) = {}
  BY IdleTypes, NothingUndone
<1>2. Stored'
  BY <1>0, <1>1, IdleTypes, StoredStep
<1>3. CASE rows' = rows /\ torn' = torn \cup Undone(q)
  <2>1. ASSUME NEW i \in Items, i \notin torn' PROVE Owed(i)'
    BY <1>0, <1>3, <2>1, OwedStep DEF AllOwed
  <2> QED
    BY <1>2, <2>1 DEF AllOwed
<1>4. CASE ~Refused(q) /\ torn' = torn
           /\ rows' = [i \in Items |->
                IF i = q.new THEN Arranged(q, i)
                ELSE IF i \in Changed(q) THEN Merged(q, i)
                ELSE IF q.loaded[i] # NoRow /\ i \notin Mentioned(q) THEN NoRow
                ELSE rows[i]]
  <2>1. ASSUME NEW i \in Items
        PROVE  /\ Arranged(q, i) # NoRow
               /\ i \in Changed(q) => rows[i] # NoRow /\ Merged(q, i) # NoRow /\ i \in Mentioned(q)
    <3>1. Arranged(q, i) \in Row
      BY <1>0, ArrangedTypes
    <3>2. i \in Changed(q) => rows[i] # NoRow /\ rows[i] \in Row /\ i \in Mentioned(q)
      BY <1>0, <1>4 DEF Refused, Table, Changed, Kept
    <3> HIDE DEF q
    <3>3. i \in Changed(q) => Merged(q, i) \in Row
      BY <3>1, <3>2 DEF Merged, Row
    <3> QED
      BY <3>1, <3>2, <3>3, NoRowAssumption
  <2>2. q.drop = {} /\ (q.new # NoItem => q.put = Variants /\ q.loaded[q.new] = NoRow)
    BY <1>0 DEF Sound, OwnName
  <2>3. ASSUME NEW i \in Items, i \notin torn' PROVE Owed(i)'
    <3> HIDE DEF q
    <3>1. CASE i = q.new
      <4>1. files[i] = Variants
        BY <1>4, <2>2, <2>3, <3>1, GalleryAssumption DEF Stored, q
      <4>2. rows'[i] # NoRow
        BY <1>4, <2>1, <3>1
      <4> QED
        BY <1>0, <4>1, <4>2 DEF Owed, Matched
    <3>2. CASE i # q.new /\ q.loaded[i] # NoRow /\ i \notin Mentioned(q)
      <4>1. files[i] = {}
        BY <2>2, <3>2 DEF Stored, Filed, q
      <4>2. rows'[i] = NoRow
        BY <1>4, <2>1, <3>2
      <4> QED
        BY <1>0, <4>1, <4>2 DEF Owed, Matched
    <3>3. CASE i # q.new /\ (q.loaded[i] = NoRow \/ i \in Mentioned(q))
      <4>1. i \notin Undone(q)
        BY <3>3 DEF Undone, Filed
      <4>2. rows'[i] = NoRow <=> rows[i] = NoRow
        BY <1>4, <2>1, <3>3
      <4> QED
        BY <1>0, <1>4, <2>3, <4>1, <4>2, OwedStep DEF AllOwed, q
    <3> QED
      BY <3>1, <3>2, <3>3
  <2> QED
    BY <1>2, <2>3 DEF AllOwed
<1> QED
  BY <1>3, <1>4 DEF Commit

\* The end of a product, or of a request that fails.
LEMMA EndOwed ==
    ASSUME IInv, Stored, AllOwed, NEW r \in Requests, Delete(r) \/ Sweep(r) \/ Abort(r)
    PROVE  Stored' /\ AllOwed'
<1> USE DEF IInv
<1> DEFINE q == req[r]
<1>0. /\ Sound(q) /\ spare' = spare /\ torn \subseteq torn'
      /\ files \in [Items -> SUBSET Variants]
  BY DEF Delete, Sweep, Abort, AllSound, TypeOK
<1>i. Undone(Idle) = {} /\ Filed(Idle.loaded) \ (Mentioned(Idle) \cup Idle.drop) = {}
  BY IdleTypes, NothingUndone
<1>1. CASE Delete(r)
  <2> DEFINE fields == [Idle EXCEPT !.pc = "sweep"]
  <2>1. fields.new = NoItem /\ fields.loaded = NoRows /\ fields.pc = "sweep"
    BY DEF Idle
  <2>2. Step(r, fields) /\ files' = files /\ rows' = NoRows
    BY <1>1 DEF Delete
  <2> HIDE DEF fields
  <2>3. Filed(fields.loaded) \ (Mentioned(fields) \cup fields.drop) = {}
    BY <2>1, IdleTypes DEF Filed
  <2>4. Stored'
    BY <1>0, <2>1, <2>2, <2>3, StoredStep
  <2>5. req'[r].pc = "sweep"
    BY <2>1, <2>2, OneMoves
  <2> QED
    BY <2>2, <2>4, <2>5, IdleTypes DEF AllOwed, Owed
<1>2. CASE Sweep(r)
  <2>1. /\ Step(r, Idle) /\ rows' = rows /\ \A i \in Items : files'[i] = {}
        /\ torn' = torn \cup Filed(rows) \cup UNION {Undone(req[s]) : s \in Requests}
    BY <1>2 DEF Sweep, Emptied
  <2>2. /\ req'[r] = Idle /\ \A s \in Requests : s # r => req'[s] = req[s]
    BY <2>1, OneMoves
  <2>3. Stored'
    <3>1. ASSUME NEW s \in Requests, req'[s].new # NoItem, req'[s].new \notin torn'
          PROVE  files'[req'[s].new] = req'[s].put
      <4>1. s # r /\ req'[s] = req[s] /\ req[s].new \in Items
        BY <2>2, <3>1, IdleTypes DEF TypeOK, Served
      <4>2. req[s].new \notin Undone(req[s])
        BY <2>1, <3>1, <4>1
      <4>3. req[s].put = {}
        BY <4>2 DEF Undone
      <4> QED
        BY <2>1, <4>1, <4>3
    <3>2. ASSUME NEW s \in Requests,
                 NEW j \in Filed(req'[s].loaded) \ (Mentioned(req'[s]) \cup req'[s].drop)
          PROVE  files'[j] = {}
      BY <2>1 DEF Filed
    <3>3. \A j \in spare' : files'[j] = {}
      BY <1>0, <2>1 DEF TypeOK
    <3> QED
      BY <3>1, <3>2, <3>3 DEF Stored
  <2>4. ASSUME NEW i \in Items, i \notin torn' PROVE Owed(i)'
    <3>1. rows[i] = NoRow
      BY <2>1, <2>4 DEF Filed
    <3> QED
      BY <2>1, <3>1 DEF Owed, Matched
  <2> QED
    BY <2>3, <2>4 DEF AllOwed
<1>3. CASE Abort(r)
  <2>1. /\ Step(r, Idle) /\ UNCHANGED <<rows, files>>
        /\ torn' = torn \cup (IF q.pc = "sweep" THEN {i \in Items : files[i] # {}}
                             ELSE Undone(q))
    BY <1>3 DEF Abort
  <2>2. Stored'
    BY <1>0, <1>i, <2>1, IdleTypes, StoredStep
  <2>3. ASSUME NEW i \in Items, i \notin torn' PROVE Owed(i)'
    <3>1. CASE q.pc # "sweep"
      BY <2>1, <2>3, <3>1, OwedStep DEF AllOwed
    <3>2. CASE q.pc = "sweep"
      <4>1. files[i] = {} /\ Owed(i)
        BY <2>1, <2>3, <3>2 DEF AllOwed
      <4>2. CASE rows[i] = NoRow
        BY <2>1, <4>1, <4>2 DEF Owed, Matched
      <4>3. CASE rows[i] # NoRow
        <5>1. PICK s \in Requests : i \in Undone(req[s])
          BY <4>1, <4>3, GalleryAssumption DEF Owed, Matched
        <5>2. Undone(q) = {}
          BY <1>0, <3>2, NothingUndone
        <5>3. req'[s] = req[s]
          BY <2>1, <5>1, <5>2, OneMoves
        <5>4. Undone(req[s])' = Undone(req[s])
          BY <5>3 DEF Undone, Mentioned, Filed
        <5> QED
          BY <5>1, <5>4 DEF Owed
      <4> QED
        BY <4>2, <4>3
    <3> QED
      BY <3>1, <3>2
  <2> QED
    BY <2>2, <2>3 DEF AllOwed
<1> QED
  BY <1>1, <1>2, <1>3

\* Between saves the store holds the files of the rows, all of them and no
\* others, whatever orders and files are posted, however requests overlap and
\* wherever they fail: all but those of the items a failure or a sweep parted.
THEOREM FilesFollowRows == Spec => []RowsAndFilesAgree
<1>1. Init => Stored /\ AllOwed
  <2> SUFFICES ASSUME Init PROVE Stored /\ AllOwed
    OBVIOUS
  <2>1. /\ rows = NoRows /\ \A i \in Items : files[i] = {}
        /\ \A r \in Requests : req[r] = Idle
    BY DEF Init
  <2>2. Filed(Idle.loaded) = {}
    BY IdleTypes DEF Filed
  <2>3. Stored
    BY <2>1, <2>2, IdleTypes DEF Stored, Init
  <2>4. AllOwed
    BY <2>1, IdleTypes DEF AllOwed, Owed, Matched
  <2> QED
    BY <2>3, <2>4
<1>2. IInv /\ Stored /\ AllOwed /\ [Next]_vars => Stored' /\ AllOwed'
  <2> SUFFICES ASSUME IInv, Stored, AllOwed, [Next]_vars PROVE Stored' /\ AllOwed'
    OBVIOUS
  <2>1. CASE UNCHANGED vars
    BY <2>1 DEF vars, Stored, AllOwed, Owed, Matched, Undone, Mentioned, Filed
  <2>2. CASE Next
    BY <2>2, FormOwed, StoreOwed, CommitOwed, EndOwed DEF Next, Save
  <2> QED
    BY <2>1, <2>2
<1>3. IInv /\ AllOwed => RowsAndFilesAgree
  <2> SUFFICES ASSUME IInv, AllOwed, Settled, NEW i \in Items \ torn PROVE Matched(i)
    BY DEF RowsAndFilesAgree, Matched
  <2>1. \A r \in Requests : Undone(req[r]) = {} /\ req[r].pc # "sweep"
    BY NothingUndone DEF IInv, AllSound, Settled
  <2> QED
    BY <2>1 DEF AllOwed, Owed
<1> QED
  BY <1>1, <1>2, <1>3, Invariance, PTL DEF Spec

-----------------------------------------------------------------------------
(***************************************************************************)
(* The places a save gives: 0, 1, 2... without a gap, whatever order is    *)
(* posted, repetitions and unknown names included.                         *)
(***************************************************************************)
LEMMA Smallest ==
    ASSUME NEW S, S \subseteq Nat, S # {}
    PROVE  \E m \in S : \A n \in S : m =< n
<1> DEFINE R == {p \in Nat \X Nat : p[1] < p[2]}
<1>1. IsWellFoundedOn(R, Nat)
  BY NatLessThanWellFounded DEF OpToRel
<1>2. PICK m \in S : \A n \in S : ~(<<n, m>> \in R)
  <2> HIDE DEF R
  <2> QED
    BY <1>1, WFMin
<1>3. \A n \in S : ~(n < m)
  BY <1>2
<1> QED
  BY <1>3

\* Ranks by a number nobody shares are the numbers from 0 on.
LEMMA Ranks ==
    ASSUME NEW K, IsFiniteSet(K), NEW F \in [K -> Nat],
           \A i, j \in K : F[i] = F[j] => i = j
    PROVE  {Cardinality({j \in K : F[j] < F[i]}) : i \in K} = 0..(Cardinality(K) - 1)
<1> DEFINE Below(i) == {j \in K : F[j] < F[i]}
           rank == [i \in K |-> Cardinality(Below(i))]
           N == 0..(Cardinality(K) - 1)
<1>1. Cardinality(K) \in Nat
  BY FS_CardinalityType
<1>2. ASSUME NEW i \in K
      PROVE  /\ IsFiniteSet(Below(i)) /\ Cardinality(Below(i)) \in Nat
             /\ Cardinality(Below(i)) < Cardinality(K)
  <2>1. Below(i) \in SUBSET K /\ i \notin Below(i)
    OBVIOUS
  <2>2. Below(i) # K
    BY <2>1
  <2> HIDE DEF Below
  <2>3. /\ IsFiniteSet(Below(i)) /\ Cardinality(Below(i)) <= Cardinality(K)
        /\ Cardinality(Below(i)) # Cardinality(K)
    BY <2>1, <2>2, FS_Subset
  <2>4. Cardinality(Below(i)) \in Nat
    BY <2>3, FS_CardinalityType
  <2> QED
    BY <1>1, <2>3, <2>4
<1>3. ASSUME NEW i \in K, NEW j \in K, F[i] < F[j]
      PROVE  Cardinality(Below(i)) < Cardinality(Below(j))
  <2>1. Below(i) \in SUBSET Below(j) /\ i \in Below(j) /\ i \notin Below(i)
    BY <1>3
  <2>2. Below(i) # Below(j)
    BY <2>1
  <2> HIDE DEF Below
  <2>3. /\ Cardinality(Below(i)) <= Cardinality(Below(j))
        /\ Cardinality(Below(i)) # Cardinality(Below(j))
    BY <1>2, <2>1, <2>2, FS_Subset
  <2> QED
    BY <1>2, <2>3
<1>4. rank \in Injection(K, N)
  <2>1. rank \in [K -> N]
    <3> HIDE DEF Below
    <3> QED
      BY <1>1, <1>2
  <2>2. ASSUME NEW i \in K, NEW j \in K, rank[i] = rank[j] PROVE i = j
    <3>1. Cardinality(Below(i)) = Cardinality(Below(j))
      BY <2>2
    <3>2. ~(F[i] < F[j]) /\ ~(F[j] < F[i])
      <4> HIDE DEF Below
      <4> QED
        BY <1>2, <1>3, <3>1
    <3> QED
      BY <3>2
  <2> HIDE DEF rank
  <2> QED
    BY <2>1, <2>2 DEF Injection, IsInjective
<1>5. IsFiniteSet(N) /\ Cardinality(N) = Cardinality(K)
  BY <1>1, FS_Interval
<1>6. rank \in Surjection(K, N)
  <2> HIDE DEF rank, N
  <2> QED
    BY <1>4, <1>5, FS_Injection
<1>7. N = {rank[i] : i \in K}
  <2> HIDE DEF rank, N
  <2> QED
    BY <1>6 DEF Surjection
<1> QED
  BY <1>7

\* A save numbers the items it keeps by where the order first mentions them.
LEMMA PlacesContiguous ==
    ASSUME NEW q \in Served
    PROVE  {Place(q, i) : i \in Kept(q)} = 0..(Cardinality(Kept(q)) - 1)
<1> DEFINE At(i) == {k \in DOMAIN q.tokens : q.tokens[k] = i}
           Least(i, k) == k \in At(i) /\ \A l \in At(i) : k =< l
           F == [i \in Kept(q) |-> CHOOSE k \in Nat : Least(i, k)]
<1>1. q.tokens \in Seq(Items) /\ DOMAIN q.tokens = 1..Len(q.tokens) /\ Len(q.tokens) \in Nat
  BY DEF Served
<1>2. Kept(q) \subseteq Items /\ IsFiniteSet(Kept(q))
  <2>1. Kept(q) \in SUBSET Items
    BY <1>1 DEF Kept, Mentioned
  <2> QED
    BY <2>1, GalleryAssumption, FS_Subset
<1>3. ASSUME NEW i \in Kept(q) PROVE F[i] \in Nat /\ Least(i, F[i])
  <2>1. At(i) # {} /\ At(i) \subseteq Nat
    BY <1>1 DEF Kept, Mentioned
  <2>2. \E k \in Nat : Least(i, k)
    <3> HIDE DEF At
    <3> QED
      BY <2>1, Smallest
  <2>3. F[i] = CHOOSE k \in Nat : Least(i, k)
    OBVIOUS
  <2> HIDE DEF Least, F
  <2> QED
    BY <2>2, <2>3
<1> HIDE DEF F
<1>4. ASSUME NEW i \in Kept(q) PROVE Before(q, i) = {j \in Kept(q) : F[j] < F[i]}
  <2>1. ASSUME NEW j \in Kept(q), F[j] < F[i] PROVE j \in Before(q, i)
    <3>1. \A l \in 1..F[j] : q.tokens[l] # i
      BY <1>1, <1>3, <2>1
    <3> QED
      BY <1>3, <3>1 DEF Before
  <2>2. ASSUME NEW j \in Before(q, i) PROVE j \in Kept(q) /\ F[j] < F[i]
    <3>1. PICK k \in DOMAIN q.tokens : q.tokens[k] = j /\ \A l \in 1..k : q.tokens[l] # i
      BY <2>2 DEF Before
    <3>2. j \in Kept(q) /\ F[j] =< k /\ F[j] \in Nat
      BY <1>1, <1>3, <2>2, <3>1 DEF Before
    <3>3. F[i] \notin 1..k /\ F[i] \in 1..Len(q.tokens)
      BY <1>1, <1>3, <3>1
    <3> QED
      BY <1>1, <3>1, <3>2, <3>3
  <2> QED
    BY <2>1, <2>2 DEF Before
<1>5. F \in [Kept(q) -> Nat]
  BY <1>3 DEF F
<1>6. \A i, j \in Kept(q) : F[i] = F[j] => i = j
  BY <1>3
<1>7. {Cardinality({j \in Kept(q) : F[j] < F[i]}) : i \in Kept(q)} = 0..(Cardinality(Kept(q)) - 1)
  BY <1>2, <1>5, <1>6, Ranks
<1>8. {Place(q, i) : i \in Kept(q)} = {Cardinality({j \in Kept(q) : F[j] < F[i]}) : i \in Kept(q)}
  BY <1>4 DEF Place
<1> QED
  BY <1>7, <1>8

-----------------------------------------------------------------------------
(***************************************************************************)
(* The commit of a save that finds the rows it has loaded.                 *)
(***************************************************************************)
LEMMA FreshCommit ==
    ASSUME IInv, NEW r \in Requests, Commit(r), req[r].loaded = rows, rows' # rows,
           NEW i \in Items
    PROVE  rows'[i] = IF i \in Kept(req[r]) THEN Arranged(req[r], i) ELSE NoRow
<1> USE DEF IInv
<1> DEFINE q == req[r]
<1>1. /\ q \in Served /\ q.pc = "commit" /\ q.loaded = rows /\ rows \in Table
      /\ q.new \in Mentioned(q) \cup {NoItem} /\ (q.new # NoItem => rows[q.new] = NoRow)
  BY DEF Commit, AllSound, Sound, TypeOK, OwnName
<1>2. rows'[i] = IF i = q.new THEN Arranged(q, i)
                 ELSE IF i \in Changed(q) THEN Merged(q, i)
                 ELSE IF q.loaded[i] # NoRow /\ i \notin Mentioned(q) THEN NoRow
                 ELSE rows[i]
  BY DEF Commit
<1>3. Arranged(q, i) \in Row
  BY <1>1, ArrangedTypes
<1>4. i \in Changed(q) => Merged(q, i) = Arranged(q, i)
  <2>1. Merged(q, i) = [position |-> Arranged(q, i).position, cover |-> Arranged(q, i).cover]
    BY <1>1, Zenon DEF Merged
  <2> HIDE DEF q
  <2> QED
    BY <1>3, <2>1 DEF Row
<1> HIDE DEF q
<1>5. CASE i = q.new
  BY <1>1, <1>2, <1>5, GalleryAssumption DEF Kept, q
<1>6. CASE i # q.new /\ i \in Changed(q)
  BY <1>2, <1>4, <1>6 DEF Changed, q
<1>7. CASE i # q.new /\ i \notin Changed(q)
  BY <1>1, <1>2, <1>7 DEF Changed, Kept, q
<1> QED
  BY <1>5, <1>6, <1>7

\* Whatever changes the rows of a product leaves its gallery in order, positions
\* without a gap and one cover, the first, whatever order the form posts, however
\* stale it is, whatever file is refused and wherever a request fails; but for
\* a save that commits over rows it has not loaded.
THEOREM SavesKeepOrder == Spec => GalleryInOrder
<1>1. IInv /\ [Next]_vars
        => [rows' # rows => \/ InOrder(rows')
                            \/ \E r \in Requests : /\ req[r].pc = "commit" /\ req'[r].pc = "idle"
                                                   /\ req[r].loaded # rows]_vars
  <2> SUFFICES ASSUME IInv, Next, rows' # rows,
                      ~ \E r \in Requests : /\ req[r].pc = "commit" /\ req'[r].pc = "idle"
                                            /\ req[r].loaded # rows
               PROVE  InOrder(rows')
    BY DEF vars
  <2>1. PICK r \in Requests : Delete(r) \/ Commit(r)
    BY DEF Next, Create, Submit, OpenForm, Abort, Sweep, Save, Load, Unlink, Reject, Publish
  <2>2. CASE Delete(r)
    <3>1. Filed(rows') = {}
      BY <2>2, IdleTypes DEF Delete, Filed
    <3>2. Cardinality(Filed(rows')) = 0
      BY <3>1, FS_EmptySet
    <3> QED
      BY <3>1, <3>2 DEF InOrder
  <2>3. CASE Commit(r)
    <3> DEFINE q == req[r]
    <3>0. q.loaded = rows
      <4>1. q.pc = "commit" /\ req'[r] = Idle
        BY <2>3, OneMoves DEF Commit, IInv
      <4> QED
        BY <4>1, IdleTypes
    <3>1. q \in Served /\ Kept(q) \subseteq Items
      BY DEF IInv, TypeOK, Served, Kept, Mentioned
    <3>2. \A i \in Items : rows'[i] = IF i \in Kept(q) THEN Arranged(q, i) ELSE NoRow
      BY <2>3, <3>0, FreshCommit
    <3>3. \A i \in Items : Arranged(q, i) # NoRow
      BY <3>1, ArrangedTypes, NoRowAssumption
    <3> HIDE DEF q
    <3>4. Filed(rows') = Kept(q)
      BY <3>1, <3>2, <3>3 DEF Filed
    <3>5. ASSUME NEW i \in Kept(q)
          PROVE  /\ rows'[i].position = Place(q, i)
                 /\ rows'[i].cover <=> rows'[i].position = 0
      <4>1. rows'[i] = Arranged(q, i)
        BY <3>1, <3>2
      <4>2. rows'[i].position = Place(q, i) /\ (rows'[i].cover <=> Place(q, i) = 0)
        BY <4>1, ArrangedFields
      <4> QED
        BY <4>2
    <3>6. {rows'[i].position : i \in Kept(q)} = {Place(q, i) : i \in Kept(q)}
      BY <3>5
    <3>7. {rows'[i].position : i \in Kept(q)} = 0..(Cardinality(Kept(q)) - 1)
      BY <3>1, <3>6, PlacesContiguous
    <3> QED
      BY <3>4, <3>5, <3>7 DEF InOrder
  <2> QED
    BY <2>1, <2>2, <2>3
<1> QED
  BY <1>1, Invariance, PTL DEF Spec, GalleryInOrder
=============================================================================
