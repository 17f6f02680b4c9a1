-------------------------- MODULE ContentCache_proofs --------------------------
(***************************************************************************)
(* Proofs about ContentCache for any number of page requests, any time to  *)
(* live and any number of commits.                                         *)
(*                                                                         *)
(* None of the invariants the runs check is inductive.  That neither map   *)
(* is kept too long rests on the one clock: it never runs behind what      *)
(* as_map keeps, nor behind the previous texts unless as_map was read      *)
(* after them (OneClock).  That every commit is purged rests on the dirty  *)
(* flag: it is set when the committing editor looks at it, or another      *)
(* editor has reset it meanwhile (Flagged).                                *)
(***************************************************************************)
EXTENDS ContentCache, TLAPS

\* A request holds what its next step needs: what it read to keep, a page to
\* respond with.
Ready(f) ==
    /\ f.pc \in {"keep_texts", "keep_previous"} => f.read # Absent
    /\ f.pc \in {"previous", "keep_previous", "respond"} => f.page # Absent
ReadersReady == \A r \in Readers : Ready(reader[r])

\* The clock shared by the two maps is never behind the map of texts, and behind
\* the previous texts only if it was restarted for newer texts, which grow too
\* old no later than they do.
OneClock ==
    /\ asMap.version # Absent => asMap.age =< age
    /\ previous.version # Absent =>
          \/ previous.age =< age
          \/ asMap.version # Absent /\ (asMap.age < previous.age \/ asMap.age = Ttl)

\* The inductive invariant.
IInv == TypeOK /\ ReadersReady /\ OneClock

-----------------------------------------------------------------------------
LEMMA Distinct == 0 \in Versions /\ Absent \notin Versions
BY ContentAssumption DEF Versions, Absent

ReaderStates ==
    [pc: {"idle", "texts", "keep_texts", "previous", "keep_previous", "respond"},
     read: Versions \cup {Absent}, page: Versions \cup {Absent}]

LEMMA IdleTypes == IdleReader \in ReaderStates /\ Ready(IdleReader) /\ Dropped \in Kept
BY ContentAssumption DEF IdleReader, ReaderStates, Ready, Dropped, Kept

LEMMA InitInv == Init => IInv
<1> SUFFICES ASSUME Init PROVE IInv
  OBVIOUS
<1>1. reader \in [Readers -> ReaderStates] /\ ReadersReady
  BY IdleTypes DEF Init, ReadersReady
<1>2. db \in Versions /\ purged \in Versions
  BY Distinct DEF Init
<1>3. asMap \in Kept /\ age \in 0..Ttl
  BY IdleTypes, ContentAssumption DEF Init
<1>6. faults \in 0..MaxFaults /\ robbed \in SUBSET Editors /\ previous \in Kept
  BY IdleTypes, ContentAssumption DEF Init
<1>4. cdn \in [fresh: BOOLEAN, version: Versions \cup {Absent}] /\ ~cdn.fresh
  BY DEF Init
<1>5. TypeOK
  BY <1>1, <1>2, <1>3, <1>4, <1>6 DEF Init, TypeOK, ReaderStates
<1> QED
  BY <1>1, <1>5 DEF Init, IInv, OneClock, Dropped

\* A page request moves on: the shared maps and the CDN's copy keep their types,
\* and the clock stays ahead.
LEMMA ReaderInv ==
    ASSUME IInv, NEW r \in Readers, NEW fields \in ReaderStates, Ready(fields),
           ReaderStep(r, fields),
           asMap' \in Kept, previous' \in Kept, age' \in 0..Ttl, OneClock',
           cdn' \in [fresh: BOOLEAN, version: Versions \cup {Absent}],
           cdn'.fresh => cdn'.version # Absent
    PROVE  IInv'
<1>1. reader' \in [Readers -> ReaderStates] /\ ReadersReady'
  BY DEF IInv, TypeOK, ReaderStates, ReaderStep, ReadersReady, Ready
<1> QED
  BY <1>1 DEF IInv, TypeOK, ReaderStates, ReaderStep

LEMMA PageInv == ASSUME IInv, NEW r \in Readers, Visit(r) \/ Serve(r) PROVE IInv'
<1>0. /\ TypeOK /\ OneClock /\ reader[r] \in ReaderStates /\ Ready(reader[r])
      /\ 0 \in 0..Ttl /\ db \in Versions
  BY ContentAssumption DEF IInv, TypeOK, ReaderStates, ReadersReady
<1>1. CASE Visit(r)
  <2>1. [IdleReader EXCEPT !.pc = "texts"] \in ReaderStates
        /\ Ready([IdleReader EXCEPT !.pc = "texts"])
    BY IdleTypes DEF ReaderStates, Ready, IdleReader
  <2> QED
    BY <1>0, <1>1, <2>1, ReaderInv DEF Visit, TypeOK, OneClock
<1>2. CASE AsMap(r)
  <2> DEFINE hit == [reader[r] EXCEPT !.pc = "previous", !.page = asMap.version]
             miss == [reader[r] EXCEPT !.pc = "keep_texts", !.read = db]
  <2>1. miss \in ReaderStates /\ Ready(miss)
    BY <1>0, Distinct DEF ReaderStates, Ready
  <2>2. asMap.version # Absent => hit \in ReaderStates /\ Ready(hit)
    BY <1>0 DEF ReaderStates, Ready, TypeOK, Kept
  <2>3. \/ asMap.version # Absent /\ ReaderStep(r, hit)
        \/ ReaderStep(r, miss)
    BY <1>2 DEF AsMap
  <2> HIDE DEF hit, miss
  <2> QED
    BY <1>0, <1>2, <2>1, <2>2, <2>3, ReaderInv DEF AsMap, TypeOK, OneClock
<1>3. CASE KeepAsMap(r)
  <2> DEFINE fields == [pc |-> "previous", read |-> Absent, page |-> reader[r].read]
  <2>1. fields \in ReaderStates /\ Ready(fields)
    BY <1>0, <1>3 DEF KeepAsMap, ReaderStates, Ready
  <2>2. asMap' \in Kept /\ OneClock'
    <3>1. asMap' = [version |-> reader[r].read, age |-> 0] /\ age' = 0 /\ previous' = previous
      BY <1>3 DEF KeepAsMap
    <3>2. reader[r].read # Absent /\ reader[r].read \in Versions \cup {Absent}
      BY <1>0, <1>3 DEF KeepAsMap, ReaderStates, Ready
    <3>3. previous.age \in Nat /\ previous.age >= 0
      BY <1>0 DEF TypeOK, Kept
    <3>4. asMap'.version # Absent /\ asMap'.age = 0 /\ asMap' \in Kept
      BY <1>0, <3>1, <3>2 DEF Kept
    <3> QED
      BY <3>1, <3>3, <3>4 DEF OneClock
  <2>3. ReaderStep(r, fields)
    BY <1>3 DEF KeepAsMap
  <2> HIDE DEF fields
  <2> QED
    BY <1>0, <1>3, <2>1, <2>2, <2>3, ReaderInv DEF KeepAsMap, TypeOK
<1>4. CASE PreviousMap(r)
  <2> DEFINE hit == [reader[r] EXCEPT !.pc = "respond"]
             miss == [reader[r] EXCEPT !.pc = "keep_previous", !.read = db]
  <2>1. /\ hit \in ReaderStates /\ Ready(hit)
        /\ miss \in ReaderStates /\ Ready(miss)
    BY <1>0, <1>4, Distinct DEF PreviousMap, ReaderStates, Ready
  <2>2. ReaderStep(r, hit) \/ ReaderStep(r, miss)
    BY <1>4 DEF PreviousMap
  <2> HIDE DEF hit, miss
  <2> QED
    BY <1>0, <1>4, <2>1, <2>2, ReaderInv DEF PreviousMap, TypeOK, OneClock
<1>5. CASE NoPrevious(r)
  <2>1. [reader[r] EXCEPT !.pc = "respond"] \in ReaderStates
        /\ Ready([reader[r] EXCEPT !.pc = "respond"])
    BY <1>0, <1>5 DEF NoPrevious, ReaderStates, Ready
  <2> QED
    BY <1>0, <1>5, <2>1, ReaderInv DEF NoPrevious, TypeOK, OneClock
<1>6. CASE KeepPrevious(r)
  <2> DEFINE fields == [reader[r] EXCEPT !.pc = "respond", !.read = Absent]
  <2>1. fields \in ReaderStates /\ Ready(fields)
    BY <1>0, <1>6 DEF KeepPrevious, ReaderStates, Ready
  <2>2. previous' \in Kept /\ age' \in 0..Ttl /\ OneClock'
    BY <1>0, <1>6, ContentAssumption DEF KeepPrevious, ReaderStates, TypeOK, Kept, OneClock
  <2>3. ReaderStep(r, fields)
    BY <1>6 DEF KeepPrevious
  <2> HIDE DEF fields
  <2> QED
    BY <1>0, <1>6, <2>1, <2>2, <2>3, ReaderInv DEF KeepPrevious, TypeOK
<1>7. CASE Respond(r)
  <2>1. /\ cdn' \in [fresh: BOOLEAN, version: Versions \cup {Absent}]
        /\ cdn'.version # Absent
    BY <1>0, <1>7 DEF Respond, ReaderStates, Ready
  <2> QED
    BY <1>0, <1>7, <2>1, IdleTypes, ReaderInv DEF Respond, TypeOK, OneClock
<1> QED
  BY <1>1, <1>2, <1>3, <1>4, <1>5, <1>6, <1>7 DEF Serve

LEMMA EditorInv ==
    ASSUME IInv, NEW e \in Editors, Flag(e) \/ Write(e) \/ Rollback(e) \/ Finish(e)
    PROVE  IInv'
<1> USE DEF IInv, TypeOK, ReadersReady, Ready, OneClock
<1>1. CASE Flag(e) \/ Check(e) \/ Clear(e)
  BY <1>1 DEF Flag, Check, Clear, Move, Flaggers
<1>2. CASE Write(e) \/ Rollback(e)
  BY <1>2 DEF Write, Rollback, Onward, Move
<1>3. CASE Commit(e)
  BY <1>3, ContentAssumption DEF Commit, Onward, Move, Versions
<1>4. CASE Drop(e)
  <2>1. asMap' \in Kept /\ previous' \in Kept /\ age' \in 0..Ttl /\ OneClock'
    BY <1>4, IdleTypes, ContentAssumption DEF Drop, Dropped
  <2> QED
    BY <1>4, <2>1 DEF Drop, Move
<1>5. CASE Purge(e) \/ PurgeFails(e)
  <2>1. /\ editor' \in [Editors -> {"idle", "flag", "write", "commit", "check",
                                   "drop", "clear", "purge", "drop_all", "clear_all"}]
        /\ UNCHANGED <<db, asMap, previous, age, dirty, reader, robbed>>
    BY <1>5 DEF Purge, PurgeFails, Move
  <2>2. faults' \in 0..MaxFaults /\ purged' \in Versions /\ unpurged' \in BOOLEAN
    <3>1. /\ purged' \in {db, purged} /\ unpurged' \in BOOLEAN
          /\ faults' = faults \/ (faults > 0 /\ faults' = faults - 1)
      BY <1>5 DEF Purge, PurgeFails
    <3>2. faults \in Int /\ 0 <= faults /\ faults <= MaxFaults /\ MaxFaults \in Nat
      BY ContentAssumption
    <3>3. faults' \in 0..MaxFaults
      BY <3>1, <3>2
    <3> QED
      BY <3>1, <3>3
  <2>3. cdn' \in [fresh: BOOLEAN, version: Versions \cup {Absent}]
        /\ (cdn'.fresh => cdn'.version # Absent)
    BY <1>5 DEF Purge, PurgeFails
  <2> QED
    BY <2>1, <2>2, <2>3
<1> QED
  BY <1>1, <1>2, <1>3, <1>4, <1>5 DEF Finish

\* Time passes for the clock and for what the two maps keep alike.
LEMMA TickInv == ASSUME IInv, Tick PROVE IInv'
<1>1. /\ age \in 0..Ttl /\ asMap \in Kept /\ asMap.age \in 0..Ttl /\ OneClock
      /\ previous \in Kept /\ previous.age \in 0..Ttl
      /\ age' = Older(age) /\ asMap' = [asMap EXCEPT !.age = Older(asMap.age)]
      /\ previous' = [previous EXCEPT !.age = Older(previous.age)]
  BY DEF IInv, TypeOK, Kept, Tick, Passes
<1>2. \A n \in 0..Ttl : Older(n) \in 0..Ttl
  BY ContentAssumption DEF Older
<1>3. asMap' \in Kept /\ previous' \in Kept /\ age' \in 0..Ttl
  BY <1>1, <1>2 DEF Kept
<1>4. OneClock'
  BY <1>1, ContentAssumption DEF OneClock, Older, Kept
<1> QED
  BY <1>3, <1>4 DEF Tick, Passes, IInv, TypeOK, ReadersReady, Ready

LEMMA NextInv == IInv /\ [Next]_vars => IInv'
<1> SUFFICES ASSUME IInv, [Next]_vars PROVE IInv'
  OBVIOUS
<1>1. ASSUME NEW r \in Readers, Visit(r) \/ Serve(r) PROVE IInv'
  BY <1>1, PageInv
<1>2. ASSUME NEW e \in Editors, Flag(e) \/ Write(e) \/ Rollback(e) \/ Finish(e) PROVE IInv'
  BY <1>2, EditorInv
<1>3. CASE Tick
  BY <1>3, TickInv
<1>4. CASE PageExpires
  BY <1>4 DEF PageExpires, IInv, TypeOK, ReadersReady, Ready, OneClock
<1>5. CASE UNCHANGED vars
  BY <1>5 DEF vars, IInv, TypeOK, ReadersReady, Ready, OneClock
<1> QED
  BY <1>1, <1>2, <1>3, <1>4, <1>5 DEF Next

\* The inductive invariant holds in every reachable state.
THEOREM Invariance == Spec => []IInv
BY InitInv, NextInv, PTL DEF Spec

\* The store, the requests and the CDN's copy keep their types: a page that goes
\* out was rendered from texts some request has read.
THEOREM TypeCorrect == Spec => []TypeOK
<1>1. IInv => TypeOK
  BY DEF IInv
<1> QED
  BY <1>1, Invariance, PTL

\* However many page requests fill the two maps at once and whatever the editors
\* do in between, neither map is returned Ttl or more after it was read, but for
\* the previous texts when as_map was read after them.
THEOREM NeverTooOld == Spec => []MapsWithinTtl
<1>1. IInv => MapsWithinTtl
  BY ContentAssumption DEF IInv, TypeOK, Kept, OneClock, MapsWithinTtl, Fresh
<1> QED
  BY <1>1, Invariance, PTL

-----------------------------------------------------------------------------
\* An editor that has written finds the flag set, or it was robbed of it; and
\* if no editor is between its commit and its purge, the last commit was purged
\* for or is accounted for.
Committing(e) == editor[e] \in {"check", "drop", "clear", "purge"}

Flagged ==
    /\ \A e \in Flaggers : dirty \/ e \in robbed
    /\ (\A e \in Editors : ~Committing(e)) => purged = db \/ unpurged

\* However many editors write, commit and roll back at once, a commit is left
\* without a purge only if a purge failed or another editor reset the flag.
THEOREM CommitsPurge == Spec => []CommittedIsPurged
<1>1. Init => Flagged
  BY DEF Init, Flagged, Flaggers
<1>2. TypeOK /\ Flagged /\ [Next]_vars => Flagged'
  <2> SUFFICES ASSUME TypeOK, Flagged, [Next]_vars PROVE Flagged'
    OBVIOUS
  <2> USE DEF TypeOK, Flagged, Flaggers, Committing, Move, Onward
  <2>1. ASSUME NEW r \in Readers, Visit(r) \/ Serve(r) PROVE Flagged'
    BY <2>1 DEF Visit, Serve, AsMap, KeepAsMap, PreviousMap, NoPrevious, KeepPrevious,
                Respond, ReaderStep
  <2>2. ASSUME NEW e \in Editors, Flag(e) PROVE Flagged'
    BY <2>2 DEF Flag
  <2>3. ASSUME NEW e \in Editors, Write(e) \/ Rollback(e) PROVE Flagged'
    BY <2>3 DEF Write, Rollback
  <2>4. ASSUME NEW e \in Editors, Commit(e) PROVE Flagged'
    <3>1. Committing(e)'
      BY <2>4 DEF Commit
    <3> QED
      BY <2>4, <3>1 DEF Commit
  <2>5. ASSUME NEW e \in Editors, Check(e) PROVE Flagged'
    <3>1. CASE dirty
      BY <2>5, <3>1 DEF Check
    <3>2. CASE ~dirty
      <4>1. unpurged'
        BY <2>5, <3>2 DEF Check
      <4> QED
        BY <2>5, <4>1 DEF Check
    <3> QED
      BY <3>1, <3>2
  <2>6. ASSUME NEW e \in Editors, Drop(e) PROVE Flagged'
    BY <2>6 DEF Drop
  <2>7. ASSUME NEW e \in Editors, Clear(e) PROVE Flagged'
    <3>1. Flaggers' = Flaggers /\ robbed' = Flaggers
      BY <2>7 DEF Clear
    <3>2. (\A v \in Editors : ~Committing(v)') => \A v \in Editors : ~Committing(v)
      BY <2>7 DEF Clear
    <3> QED
      BY <2>7, <3>1, <3>2 DEF Clear
  <2>8. ASSUME NEW e \in Editors, Purge(e) \/ PurgeFails(e) PROVE Flagged'
    BY <2>8 DEF Purge, PurgeFails
  <2>9. CASE Tick \/ PageExpires \/ UNCHANGED vars
    BY <2>9 DEF Tick, Passes, PageExpires, vars
  <2> QED
    BY <2>1, <2>2, <2>3, <2>4, <2>5, <2>6, <2>7, <2>8, <2>9 DEF Next, Finish
<1>3. TypeOK /\ Flagged => CommittedIsPurged
  BY DEF TypeOK, Flagged, Committing, CommittedIsPurged
<1> QED
  BY <1>1, <1>2, <1>3, TypeCorrect, PTL DEF Spec
=============================================================================
