------------------------ MODULE CartCheckout_proofs ------------------------
(***************************************************************************)
(* Proofs about CartCheckout for every set of products, slots and drafts   *)
(* and every value of the time constants.                                  *)
(*                                                                         *)
(* The argument: a session is Good if it has its type, the handoff it      *)
(* tracks matches TN's draft and has not been settled.  Every operation a  *)
(* handler applies to its session keeps it Good (lemmas on Reconcile, the   *)
(* writes of the cart and Remember), and the other actors (TN, clock) change a draft *)
(* only in ways that a Good session survives.                              *)
(***************************************************************************)
EXTENDS CartCheckout, TLAPS

Good(s) == s \in Sessions /\ MatchesDraft(s) /\ Unsettled(s)

\* The lines a checkout bills are still the cart of the session it remembers.
HandoffBillsCart ==
    \A r \in Slots : req[r].pc = "handoff" => req[r].lines = req[r].session.cart

\* The inductive invariant.
IInv == TypeOK /\ HandoffMatchesDraft /\ SettledAtMostOnce /\ HandoffBillsCart

-----------------------------------------------------------------------------
\* A clamped quantity is one a line may hold.
LEMMA ClampType == ASSUME NEW q \in Int PROVE ClampQty(q) \in 0..MaxQty
BY MaxQtyAssumption DEF ClampQty

\* The mutations of cart_service keep every line within 0..MaxQty.
LEMMA LinesType ==
    /\ NoLines \in Lines
    /\ \A raw \in Lines, p \in Products, q \in Int :
         AddLine(raw, p, q) \in Lines /\ SetLine(raw, p, q) \in Lines
    /\ \A raw \in Lines, p \in Products : RemoveLine(raw, p) \in Lines
    /\ \A raw, items \in Lines : RemoveQuantities(raw, items) \in Lines
    /\ \A raw \in Lines, ps \in SUBSET Products : Prune(raw, ps) \in Lines
<1>1. NoLines \in Lines
  BY MaxQtyAssumption DEF NoLines, Lines
<1>2. ASSUME NEW raw \in Lines, NEW p \in Products, NEW q \in Int
      PROVE  AddLine(raw, p, q) \in Lines /\ SetLine(raw, p, q) \in Lines
  <2>1. ClampQty(q) \in 0..MaxQty
    BY ClampType
  <2>2. raw[p] \in 0..MaxQty
    BY DEF Lines
  <2>3. ClampQty(raw[p] + ClampQty(q)) \in 0..MaxQty
    BY <2>1, <2>2, ClampType, MaxQtyAssumption
  <2> QED
    BY <2>1, <2>3 DEF AddLine, SetLine, Lines
<1>3. ASSUME NEW raw \in Lines, NEW p \in Products PROVE RemoveLine(raw, p) \in Lines
  BY MaxQtyAssumption DEF RemoveLine, Lines
<1>4. ASSUME NEW raw \in Lines, NEW items \in Lines
      PROVE  RemoveQuantities(raw, items) \in Lines
  <2> SUFFICES ASSUME NEW p \in Products
               PROVE  (IF raw[p] > ClampQty(items[p])
                       THEN raw[p] - ClampQty(items[p]) ELSE 0) \in 0..MaxQty
    BY DEF RemoveQuantities, Lines
  <2>1. raw[p] \in 0..MaxQty /\ items[p] \in Int
    BY MaxQtyAssumption DEF Lines
  <2>2. ClampQty(items[p]) \in 0..MaxQty
    BY <2>1, ClampType
  <2> QED
    BY <2>1, <2>2, MaxQtyAssumption
<1>5. ASSUME NEW raw \in Lines, NEW ps \in SUBSET Products PROVE Prune(raw, ps) \in Lines
  BY MaxQtyAssumption DEF Prune, Lines
<1> QED
  BY <1>1, <1>2, <1>3, <1>4, <1>5

-----------------------------------------------------------------------------
\* A session that tracks a handoff has a record of type Tracked.
LEMMA TrackedType ==
    ASSUME NEW s \in Sessions, HasPending(s) PROVE s.pending \in Tracked
BY DEF Sessions, HasPending

\* forget_pending keeps a session Good.
LEMMA ForgetGood ==
    ASSUME NEW s, Good(s), HasPending(s) PROVE Good(Forget(s))
<1>1. s.pending \in Tracked
  BY TrackedType DEF Good
<1>2. Forget(s) \in Sessions /\ ~HasPending(Forget(s))
  BY <1>1 DEF Good, Forget, HasPending, Sessions, Tracked
<1> QED
  BY <1>2 DEF Good, MatchesDraft, Unsettled

\* consume_pending_purchase keeps a session Good.
LEMMA ConsumeGood ==
    ASSUME NEW s, Good(s), HasPending(s) PROVE Good(Consume(s))
<1>1. s.pending \in Tracked /\ s \in Sessions
  BY TrackedType DEF Good
<1>2. s.pending.items \in Lines /\ s.pending.id \in Drafts
  BY <1>1 DEF Tracked
<1> DEFINE cart == IF s.pending.items = NoLines THEN NoLines
                   ELSE RemoveQuantities(s.cart, s.pending.items)
<1>3. cart \in Lines
  BY <1>1, <1>2, LinesType DEF Sessions
<1> HIDE DEF cart
<1>4. Consume(s) = [s EXCEPT !.cart = cart, !.pending = NoPending,
                             !.trail[s.pending.id] = "settled"]
  BY DEF Consume, cart
<1> DEFINE trail == [s.trail EXCEPT ![s.pending.id] = "settled"]
<1>5. trail \in [Drafts -> {"unseen", "handed", "settled", "given_up"}]
  BY <1>1, <1>2 DEF Sessions
<1>6. Consume(s) = [cart |-> cart, pending |-> NoPending, trail |-> trail]
  BY <1>1, <1>4 DEF Sessions
<1> HIDE DEF trail
<1>7. Consume(s) \in Sessions /\ ~HasPending(Consume(s))
  BY <1>3, <1>5, <1>6 DEF HasPending, Sessions
<1> QED
  BY <1>7 DEF Good, MatchesDraft, Unsettled

\* reconcile_pending keeps a session Good, whatever TN answers.
LEMMA ReconcileGood ==
    ASSUME TypeOK, NEW s, Good(s), NEW answer \in Answers(s)
    PROVE  Good(Reconcile(s, answer))
<1>1. CASE Expired(s)
  <2>1. answer = "unasked"
    BY <1>1 DEF Answers, Probes
  <2>2. Reconcile(s, answer) = Forget(s)
    BY <1>1, <2>1 DEF Reconcile
  <2> QED
    BY <1>1, <2>2, ForgetGood DEF Expired
<1>2. CASE ~Expired(s) /\ ~Probes(s)
  <2>1. answer = "unasked"
    BY <1>2 DEF Answers
  <2>2. Reconcile(s, answer) = s
    BY <1>2, <2>1 DEF Reconcile
  <2> QED
    BY <2>2
<1>3. CASE ~Expired(s) /\ Probes(s)
  <2>1. HasPending(s) /\ s \in Sessions /\ s.pending \in Tracked
    BY <1>3, TrackedType DEF Probes, Good
  <2>2. answer \in {"unreachable", "open", "paid", "cancelled"}
    BY <1>3, <2>1 DEF Answers, Good, MatchesDraft, TypeOK, DraftOrders, Statuses, Tracked
  <2>3. CASE answer = "paid"
    <3>1. Reconcile(s, answer) = Consume(s)
      BY <1>3, <2>3 DEF Reconcile
    <3> QED
      BY <2>1, <3>1, ConsumeGood
  <2>4. CASE answer = "cancelled"
    <3>1. Reconcile(s, answer) = Forget(s)
      BY <1>3, <2>4 DEF Reconcile
    <3> QED
      BY <2>1, <3>1, ForgetGood
  <2>5. CASE answer \in {"open", "unreachable"}
    <3> DEFINE t == [s EXCEPT !.pending.checked = now]
    <3>1. Reconcile(s, answer) = t
      BY <1>3, <2>5 DEF Reconcile
    <3>2. t.pending = [s.pending EXCEPT !.checked = now] /\ t.trail = s.trail /\ t.cart = s.cart
      BY <2>1 DEF Sessions
    <3>3. t.pending \in Tracked /\ now \in Nat
      BY <2>1, <3>2 DEF Tracked, TypeOK
    <3>4. t \in Sessions
      BY <2>1, <3>2, <3>3 DEF Sessions
    <3>5. /\ t.pending.id = s.pending.id /\ t.pending.items = s.pending.items
          /\ t.pending.ts = s.pending.ts /\ t.pending.checked = now
      BY <2>1, <3>2 DEF Tracked
    <3>6. MatchesDraft(t) /\ Unsettled(t)
      BY <2>1, <3>2, <3>3, <3>5 DEF Good, MatchesDraft, Unsettled
    <3> QED
      BY <3>1, <3>4, <3>6 DEF Good
  <2> QED
    BY <2>2, <2>3, <2>4, <2>5
<1> QED
  BY <1>1, <1>2, <1>3

\* Writing the cart keeps a session Good.
LEMMA CartWriteGood ==
    ASSUME NEW s, Good(s), NEW cart \in Lines, NEW t, t = [s EXCEPT !.cart = cart]
    PROVE  Good(t) /\ t \in Sessions /\ t.cart = cart
<1>1. s \in Sessions
  BY DEF Good
<1>2. t \in Sessions /\ t.cart = cart /\ t.pending = s.pending /\ t.trail = s.trail
  BY <1>1 DEF Sessions
<1> QED
  BY <1>2 DEF Good, MatchesDraft, Unsettled, HasPending

\* remember_pending makes a Good session of one whose lines TN has just billed.
LEMMA RememberGood ==
    ASSUME TypeOK, NEW s \in Sessions, NEW d \in Drafts,
           drafts'[d].status = "open", drafts'[d].lines = s.cart, drafts'[d].created = now,
           now' = now, NEW t, t = Remember(s, d, s.cart)
    PROVE  Good(t)'
<1> DEFINE pending == [id |-> d, ts |-> now, checked |-> 0, items |-> s.cart]
           trail == [s.trail EXCEPT ![d] = "handed"]
<1>1. now \in Nat /\ s.cart \in Lines
  BY DEF TypeOK, Sessions
<1>2. pending \in Tracked
  BY <1>1 DEF Tracked
<1>3. trail \in [Drafts -> {"unseen", "handed", "settled", "given_up"}] /\ trail[d] = "handed"
  BY DEF Sessions
<1>4. t = [cart |-> s.cart, pending |-> pending, trail |-> trail]
  BY DEF Remember, Sessions
<1>5. t \in Sessions
  BY <1>1, <1>2, <1>3, <1>4 DEF Sessions
<1>6. MatchesDraft(t)' /\ Unsettled(t)
  BY <1>1, <1>3, <1>4 DEF MatchesDraft, Unsettled, HasPending
<1> QED
  BY <1>5, <1>6 DEF Good, MatchesDraft, Unsettled, HasPending

\* A Good session stays Good while drafts only change status or appear and
\* the clock does not go back.
LEMMA GoodKept ==
    ASSUME TypeOK, NEW s, Good(s), now' \in Nat, now' >= now,
           \A d \in Drafts : drafts[d].status # "none" =>
               /\ drafts'[d].status # "none" /\ drafts'[d].lines = drafts[d].lines
               /\ drafts'[d].created = drafts[d].created
    PROVE  Good(s)'
<1>1. CASE ~HasPending(s)
  BY <1>1 DEF Good, MatchesDraft, Unsettled, HasPending
<1>2. CASE HasPending(s)
  <2>1. s.pending \in Tracked
    BY <1>2, TrackedType DEF Good
  <2> QED
    BY <1>2, <2>1 DEF Good, MatchesDraft, Unsettled, Tracked, TypeOK, HasPending
<1> QED
  BY <1>1, <1>2

\* Init establishes the invariant: no session tracks anything.
LEMMA InitInv == Init => IInv
<1> SUFFICES ASSUME Init PROVE IInv
  OBVIOUS
<1>1. EmptySession \in Sessions /\ ~HasPending(EmptySession) /\ NoLines \in Lines
  BY LinesType DEF EmptySession, Sessions, HasPending
<1>2. IdleRequest \in Requests /\ IdleRequest.pc = "idle" /\ IdleRequest.session = EmptySession
  BY <1>1, ProductsAssumption DEF IdleRequest, Requests, Operations
<1>3. TypeOK
  BY <1>1, <1>2, TimeAssumption DEF Init, TypeOK, DraftOrders, Statuses
<1>4. \A s \in Copies : s = EmptySession
  BY <1>2 DEF Init, Copies
<1> QED
  BY <1>1, <1>2, <1>3, <1>4
     DEF IInv, HandoffMatchesDraft, SettledAtMostOnce, MatchesDraft, Unsettled,
         HandoffBillsCart, Init

-----------------------------------------------------------------------------
\* The invariant holds after a step that leaves every copy of the session Good.
LEMMA InvIntro ==
    ASSUME NEW j, NEW f, jar' = j, req' = f,
           f \in [Slots -> Requests],
           Good(j)', \A r \in Slots : Good(f[r].session)',
           \A r \in Slots : f[r].pc = "handoff" => f[r].lines = f[r].session.cart,
           drafts' \in [Drafts -> DraftOrders], purchasable' \in SUBSET Products,
           now' \in Nat, budget' \in Nat
    PROVE  IInv'
<1>1. TypeOK'
  BY DEF TypeOK, Good
<1>2. ASSUME NEW s \in Copies' PROVE Good(s)'
  <2>1. s = j \/ \E r \in Slots : s = f[r].session
    BY <1>2 DEF Copies
  <2> QED
    BY <2>1
<1>3. HandoffMatchesDraft' /\ SettledAtMostOnce'
  BY <1>2 DEF HandoffMatchesDraft, SettledAtMostOnce, Good
<1>4. HandoffBillsCart'
  BY DEF HandoffBillsCart
<1> QED
  BY <1>1, <1>3, <1>4 DEF IInv

\* Every copy of the session is Good.
LEMMA CopiesGood ==
    ASSUME IInv PROVE Good(jar) /\ \A r \in Slots : Good(req[r].session)
<1>1. jar \in Sessions /\ \A r \in Slots : req[r].session \in Sessions
  BY DEF IInv, TypeOK, Requests
<1>2. jar \in Copies /\ \A r \in Slots : req[r].session \in Copies
  BY DEF Copies
<1> QED
  BY <1>1, <1>2 DEF IInv, HandoffMatchesDraft, SettledAtMostOnce, Good

\* The invariant holds after a step that changes one request to q, the drafts in
\* the ways TN does, and the cookie, if at all, to some copy of the session.
LEMMA StepInv ==
    ASSUME IInv, NEW r \in Slots, NEW q \in Requests, req' = [req EXCEPT ![r] = q],
           NEW j, jar' = j, Good(j), Good(q.session)',
           q.pc = "handoff" => q.lines = q.session.cart,
           drafts' \in [Drafts -> DraftOrders],
           \A d \in Drafts : drafts[d].status # "none" =>
               /\ drafts'[d].status # "none" /\ drafts'[d].lines = drafts[d].lines
               /\ drafts'[d].created = drafts[d].created,
           purchasable' = purchasable, now' = now, budget' \in Nat
    PROVE  IInv'
<1>0. PICK f : f = [req EXCEPT ![r] = q]
  OBVIOUS
<1>1. TypeOK /\ req \in [Slots -> Requests] /\ now \in Nat /\ now' >= now
  BY DEF IInv, TypeOK
<1>2. f \in [Slots -> Requests] /\ f[r] = q /\ \A x \in Slots \ {r} : f[x] = req[x]
  BY <1>0, <1>1
<1>3. ASSUME NEW s, Good(s) PROVE Good(s)'
  BY <1>1, <1>3, GoodKept
<1>4. ASSUME NEW x \in Slots PROVE Good(f[x].session)'
  <2>1. CASE x = r
    BY <1>2, <2>1
  <2>2. CASE x # r
    <3>1. PICK s : s = req[x].session
      OBVIOUS
    <3>2. Good(s)'
      BY <1>3, <3>1, CopiesGood
    <3> QED
      BY <1>2, <2>2, <3>1, <3>2
  <2> QED
    BY <2>1, <2>2
<1>5. Good(j)'
  BY <1>3
<1>6. \A x \in Slots : f[x].pc = "handoff" => f[x].lines = f[x].session.cart
  BY <1>2 DEF IInv, HandoffBillsCart
<1>7. purchasable' \in SUBSET Products
  BY <1>1 DEF TypeOK
<1>8. req' = f /\ now' \in Nat
  BY <1>0, <1>1
<1> QED
  BY <1>2, <1>4, <1>5, <1>6, <1>7, <1>8, InvIntro

\* An empty session is Good in every state.
LEMMA EmptyGood == Good(EmptySession) /\ Good(EmptySession)'
<1>1. EmptySession \in Sessions /\ ~HasPending(EmptySession)
  BY LinesType DEF EmptySession, Sessions, HasPending
<1> QED
  BY <1>1 DEF Good, MatchesDraft, Unsettled

\* An idle slot has the type of a request.
LEMMA IdleType == IdleRequest \in Requests
BY EmptyGood, LinesType, ProductsAssumption DEF IdleRequest, Requests, Operations, Good

\* The fields of a request record.
LEMMA ContinueType ==
    ASSUME NEW pc \in {"idle", "arrived", "build", "handoff", "answered"},
           NEW op \in Operations, NEW s \in Sessions, NEW b \in BOOLEAN
    PROVE  /\ Continue(pc, op, s, b) \in Requests
           /\ Continue(pc, op, s, b).session = s
           /\ Continue(pc, op, s, b).pc = pc
BY IdleType DEF Continue, Requests

\* A handler step that leaves drafts alone and its session Good.
LEMMA HandlerInv ==
    ASSUME IInv, NEW r \in Slots, NEW q \in Requests, Step(r, q), UNCHANGED drafts,
           Good(q.session), q.pc = "handoff" => q.lines = q.session.cart
    PROVE  IInv'
<1>1. PICK s : s = q.session
  OBVIOUS
<1>2. TypeOK
  BY DEF IInv
<1>3. Good(s)'
  BY <1>1, <1>2, GoodKept DEF Step, TypeOK
<1>4. PICK j : j = jar
  OBVIOUS
<1>5. Good(j)
  BY <1>4, CopiesGood
<1>6. jar' = j /\ now' = now /\ budget' \in Nat
  BY <1>2, <1>4 DEF Step, TypeOK
<1> QED
  BY <1>1, <1>2, <1>3, <1>5, <1>6, StepInv DEF Step, TypeOK

\* The step that answers a request.
LEMMA RespondInv ==
    ASSUME IInv, NEW r \in Slots, NEW s, Good(s), NEW b \in BOOLEAN,
           Step(r, Respond(s, b)), UNCHANGED drafts
    PROVE  IInv'
<1>1. PICK t : t = IF b THEN s ELSE EmptySession
  OBVIOUS
<1>2. Good(t) /\ t \in Sessions
  BY <1>1, EmptyGood DEF Good
<1>3. Respond(s, b) = Continue("answered", "view", t, b)
  BY <1>1 DEF Respond
<1>4. /\ Respond(s, b) \in Requests
      /\ Respond(s, b).session = t
      /\ Respond(s, b).pc = "answered"
  BY <1>2, <1>3, ContinueType DEF Operations
<1> QED
  BY <1>2, <1>4, HandlerInv

\* What Mutate writes is a cart.
LEMMA WrittenType ==
    ASSUME NEW q \in Requests, q.op \in {"add", "update", "remove"}, NEW cart \in Lines
    PROVE  Written(q, cart) \in Lines
BY LinesType DEF Written, Requests

-----------------------------------------------------------------------------
\* Each handler step preserves the invariant.
LEMMA HandleInv == ASSUME IInv, NEW r \in Slots, Handle(r) PROVE IInv'
<1> DEFINE s0 == req[r].session
<1>0. TypeOK /\ Good(s0) /\ req[r] \in Requests
  BY CopiesGood DEF IInv, TypeOK
<1>1. CASE RefuseAdd(r)
  BY <1>0, <1>1, RespondInv DEF RefuseAdd
<1>2. CASE Mutate(r)
  <2>1. PICK answer \in Answers(s0) :
           LET s == Reconcile(s0, answer)
           IN Step(r, Continue("build", "view", [s EXCEPT !.cart = Written(req[r], @)], TRUE))
    BY <1>2 DEF Mutate
  <2>2. PICK s : s = Reconcile(s0, answer)
    OBVIOUS
  <2>3. Good(s) /\ s.cart \in Lines
    BY <1>0, <2>2, ReconcileGood DEF Good, Sessions
  <2>4. Written(req[r], s.cart) \in Lines
    BY <1>0, <1>2, <2>3, WrittenType DEF Mutate, Arrived
  <2>5. PICK t : t = [s EXCEPT !.cart = Written(req[r], s.cart)]
    OBVIOUS
  <2>6. Good(t) /\ t \in Sessions
    BY <2>3, <2>4, <2>5, CartWriteGood
  <2>7. PICK q : q = Continue("build", "view", t, TRUE)
    OBVIOUS
  <2>8. q \in Requests /\ q.session = t /\ q.pc = "build"
    BY <2>6, <2>7, IdleType DEF Continue, Requests, Operations
  <2>9. Step(r, q) /\ UNCHANGED drafts
    BY <1>2, <2>1, <2>2, <2>5, <2>7 DEF Mutate
  <2> QED
    BY <2>6, <2>8, <2>9, HandlerInv
<1>3. CASE Clear(r)
  <2>1. PICK t : t = [s0 EXCEPT !.cart = NoLines]
    OBVIOUS
  <2>2. Good(t) /\ t \in Sessions
    BY <1>0, <2>1, CartWriteGood, LinesType
  <2>3. PICK q : q = Continue("build", "view", t, TRUE)
    OBVIOUS
  <2>4. q \in Requests /\ q.session = t /\ q.pc = "build"
    BY <2>2, <2>3, IdleType DEF Continue, Requests, Operations
  <2>5. Step(r, q) /\ UNCHANGED drafts
    BY <1>3, <2>1, <2>3 DEF Clear
  <2> QED
    BY <2>2, <2>4, <2>5, HandlerInv
<1>4. CASE Build(r)
  <2>1. PICK answer \in Answers(s0) :
           LET s     == Reconcile(s0, answer)
               kept  == Prune(s.cart, purchasable)
               built == [s EXCEPT !.cart = kept]
               dirty == req[r].dirty \/ Expired(s0) \/ Probes(s0) \/ kept # s.cart
           IN IF req[r].op = "checkout" /\ kept # NoLines
              THEN Step(r, [Continue("handoff", "checkout", built, dirty)
                            EXCEPT !.lines = kept])
              ELSE Step(r, Respond(built, dirty))
    BY <1>4 DEF Build
  <2>2. PICK s : s = Reconcile(s0, answer)
    OBVIOUS
  <2>3. PICK kept : kept = Prune(s.cart, purchasable)
    OBVIOUS
  <2>4. PICK built : built = [s EXCEPT !.cart = kept]
    OBVIOUS
  <2>5. PICK dirty \in BOOLEAN :
           dirty = (req[r].dirty \/ Expired(s0) \/ Probes(s0) \/ kept # s.cart)
    BY <1>0 DEF Requests
  <2>6. Good(s) /\ s.cart \in Lines
    BY <1>0, <2>2, ReconcileGood DEF Good, Sessions
  <2>7. kept \in Lines
    BY <1>0, <2>3, <2>6, LinesType DEF TypeOK
  <2>8. Good(built) /\ built \in Sessions /\ built.cart = kept
    BY <2>4, <2>6, <2>7, CartWriteGood
  <2>9. UNCHANGED drafts
    BY <1>4 DEF Build
  <2>10. CASE req[r].op = "checkout" /\ kept # NoLines
    <3>1. PICK q : q = [Continue("handoff", "checkout", built, dirty)
                        EXCEPT !.lines = kept]
      OBVIOUS
    <3>2. q \in Requests /\ q.session = built /\ q.lines = kept
      BY <2>7, <2>8, <3>1, IdleType DEF Continue, Requests, Operations
    <3>3. Step(r, q)
      BY <2>1, <2>2, <2>3, <2>4, <2>5, <2>10, <3>1
    <3> QED
      BY <2>8, <2>9, <3>2, <3>3, HandlerInv
  <2>11. CASE ~(req[r].op = "checkout" /\ kept # NoLines)
    <3>1. Step(r, Respond(built, dirty))
      BY <2>1, <2>2, <2>3, <2>4, <2>5, <2>11
    <3> QED
      BY <2>8, <2>9, <3>1, RespondInv
  <2> QED
    BY <2>10, <2>11
<1>5. CASE FailHandoff(r)
  BY <1>0, <1>5, RespondInv DEF FailHandoff, Requests
<1>6. CASE Handoff(r)
  <2>1. PICK d \in Drafts :
           /\ drafts[d].status = "none"
           /\ drafts' = [drafts EXCEPT ![d] = [status |-> "open", lines |-> req[r].lines,
                                               created |-> now]]
           /\ Step(r, Respond(Remember(s0, d, s0.cart), TRUE))
    BY <1>6 DEF Handoff
  <2>2. PICK s : s = s0
    OBVIOUS
  <2>3. s \in Sessions /\ req[r].lines = s.cart /\ s.cart \in Lines
    BY <1>0, <1>6, <2>2 DEF Handoff, IInv, HandoffBillsCart, Good, Sessions
  <2>4. /\ drafts \in [Drafts -> DraftOrders] /\ now \in Nat /\ now' = now
        /\ jar' = jar /\ purchasable' = purchasable /\ budget' \in Nat
    BY <1>0, <2>1 DEF TypeOK, Step
  <2>5. drafts'[d] = [status |-> "open", lines |-> s.cart, created |-> now]
    BY <2>1, <2>3, <2>4
  <2>6. PICK t : t = Remember(s, d, s.cart)
    OBVIOUS
  <2>7. Good(t)'
    BY <1>0, <2>3, <2>4, <2>5, <2>6, RememberGood
  <2>8. PICK q : q = Respond(t, TRUE)
    OBVIOUS
  <2>9. q \in Requests /\ q.session = t /\ q.pc = "answered"
    BY <2>7, <2>8, IdleType DEF Respond, Continue, Requests, Operations, Good
  <2>10. req' = [req EXCEPT ![r] = q]
    BY <2>1, <2>2, <2>6, <2>8 DEF Step
  <2>11. drafts' \in [Drafts -> DraftOrders]
    BY <2>1, <2>3, <2>4 DEF DraftOrders, Statuses
  <2>12. \A x \in Drafts : drafts[x].status # "none" => drafts'[x] = drafts[x]
    BY <2>1, <2>4
  <2>13. PICK j : j = jar
    OBVIOUS
  <2>14. Good(q.session)'
    BY <2>7, <2>9
  <2> QED
    BY <2>4, <2>9, <2>10, <2>11, <2>12, <2>13, <2>14, CopiesGood, StepInv
<1>7. CASE Thanks(r)
  <2>1. CASE HasPending(s0)
    <3>1. Good(Consume(s0))
      BY <1>0, <2>1, ConsumeGood
    <3> QED
      BY <1>7, <2>1, <3>1, RespondInv DEF Thanks
  <2>2. CASE ~HasPending(s0)
    BY <1>0, <1>7, <2>2, RespondInv DEF Thanks
  <2> QED
    BY <2>1, <2>2
<1> QED
  BY <1>1, <1>2, <1>3, <1>4, <1>5, <1>6, <1>7 DEF Handle

-----------------------------------------------------------------------------
\* A request carries the cookie as it is, so sending one preserves the invariant.
LEMMA SendInv ==
    ASSUME IInv, NEW r \in Slots, NEW op \in Operations, NEW p \in Products, NEW n \in Int,
           Send(r, op, p, n), budget' \in Nat
    PROVE  IInv'
<1>1. PICK q : q = [IdleRequest EXCEPT !.pc = "arrived", !.op = op,
                                       !.product = p, !.qty = n, !.session = jar]
  OBVIOUS
<1>2. PICK j : j = jar
  OBVIOUS
<1>3. Good(j) /\ TypeOK
  BY <1>2, CopiesGood DEF IInv
<1>4. q \in Requests /\ q.session = j /\ q.pc = "arrived"
  BY <1>1, <1>2, <1>3, IdleType DEF Requests, Good
<1>5. /\ req' = [req EXCEPT ![r] = q] /\ jar' = j /\ drafts' = drafts
      /\ purchasable' = purchasable /\ now' = now
  BY <1>1, <1>2 DEF Send
<1>6. Good(j)'
  BY <1>3, <1>5, GoodKept DEF TypeOK
<1> QED
  BY <1>3, <1>4, <1>5, <1>6, StepInv DEF TypeOK

\* Delivering a response makes one copy of the session the cookie.
LEMMA DeliverInv == ASSUME IInv, NEW r \in Slots, Deliver(r) PROVE IInv'
<1>1. PICK j : j = IF req[r].dirty THEN req[r].session ELSE jar
  OBVIOUS
<1>2. PICK q : q = IdleRequest
  OBVIOUS
<1>3. Good(j) /\ TypeOK
  BY <1>1, CopiesGood DEF IInv
<1>4. q \in Requests /\ q.session = EmptySession /\ q.pc = "idle"
  BY <1>2, IdleType DEF IdleRequest
<1>5. /\ req' = [req EXCEPT ![r] = q] /\ jar' = j /\ drafts' = drafts
      /\ purchasable' = purchasable /\ now' = now /\ budget' = budget
  BY <1>1, <1>2 DEF Deliver
<1>6. PICK e : e = EmptySession
  OBVIOUS
<1>7. Good(e)'
  BY <1>3, <1>5, <1>6, EmptyGood, GoodKept DEF TypeOK
<1> QED
  BY <1>3, <1>4, <1>5, <1>6, <1>7, StepInv DEF TypeOK

\* So does losing it, which changes no cookie.
LEMMA LoseInv == ASSUME IInv, NEW r \in Slots, Lose(r) PROVE IInv'
<1>1. PICK q : q = IdleRequest
  OBVIOUS
<1>2. q \in Requests /\ q.session = EmptySession /\ q.pc = "idle"
  BY <1>1, IdleType DEF IdleRequest
<1>3. Step(r, q) /\ UNCHANGED drafts
  BY <1>1 DEF Lose
<1>4. Good(q.session)
  BY <1>2, EmptyGood
<1> QED
  BY <1>2, <1>3, <1>4, HandlerInv

\* A step of TN, of the catalogue or of the clock changes no session.
LEMMA OthersInv ==
    ASSUME IInv, UNCHANGED <<jar, req, budget>>,
           drafts' \in [Drafts -> DraftOrders], purchasable' \in SUBSET Products,
           now' \in Nat, now' >= now,
           \A d \in Drafts : drafts[d].status # "none" =>
               /\ drafts'[d].status # "none" /\ drafts'[d].lines = drafts[d].lines
               /\ drafts'[d].created = drafts[d].created
    PROVE  IInv'
<1>1. PICK j : j = jar
  OBVIOUS
<1>2. PICK f : f = req
  OBVIOUS
<1>3. TypeOK
  BY DEF IInv
<1>4. ASSUME NEW s, Good(s) PROVE Good(s)'
  BY <1>3, <1>4, GoodKept
<1>5. Good(j)'
  BY <1>1, <1>4, CopiesGood
<1>6. ASSUME NEW r \in Slots PROVE Good(f[r].session)'
  <2>1. PICK s : s = f[r].session
    OBVIOUS
  <2>2. Good(s)'
    BY <1>2, <1>4, <2>1, CopiesGood
  <2> QED
    BY <2>1, <2>2
<1>7. \A r \in Slots : f[r].pc = "handoff" => f[r].lines = f[r].session.cart
  BY <1>2 DEF IInv, HandoffBillsCart
<1>8. jar' = j /\ req' = f /\ f \in [Slots -> Requests] /\ budget' \in Nat
  BY <1>1, <1>2, <1>3 DEF TypeOK
<1> QED
  BY <1>5, <1>6, <1>7, <1>8, InvIntro

LEMMA NextInv == IInv /\ [Next]_vars => IInv'
<1> SUFFICES ASSUME IInv, [Next]_vars PROVE IInv'
  OBVIOUS
<1>0. TypeOK /\ IdleRequest.product \in Products /\ 0 \in Int
  BY IdleType DEF IInv, Requests
<1>1. ASSUME NEW r \in Slots, SendView(r) PROVE IInv'
  BY <1>0, <1>1, SendInv DEF SendView, TypeOK, Operations
<1>2. ASSUME NEW r \in Slots, SendAdd(r) \/ SendUpdate(r) PROVE IInv'
  <2>1. budget' \in Nat
    BY <1>0, <1>2 DEF SendAdd, SendUpdate, Spend, TypeOK
  <2>2. PICK op \in {"add", "update"}, p \in Products, n \in Int : Send(r, op, p, n)
    BY <1>2, QtyAssumption DEF SendAdd, SendUpdate
  <2> QED
    BY <2>1, <2>2, SendInv DEF Operations
<1>3. ASSUME NEW r \in Slots, SendRemove(r) \/ SendPlain(r) PROVE IInv'
  <2>1. budget' \in Nat
    BY <1>0, <1>3 DEF SendRemove, SendPlain, Spend, TypeOK
  <2>2. PICK op \in Operations, p \in Products : Send(r, op, p, 0)
    BY <1>0, <1>3 DEF SendRemove, SendPlain, Operations
  <2> QED
    BY <1>0, <2>1, <2>2, SendInv
<1>4. ASSUME NEW r \in Slots, Handle(r) PROVE IInv'
  BY <1>4, HandleInv
<1>5. ASSUME NEW r \in Slots, Deliver(r) PROVE IInv'
  BY <1>5, DeliverInv
<1>6. ASSUME NEW r \in Slots, Lose(r) PROVE IInv'
  BY <1>6, LoseInv
<1>7. ASSUME NEW d \in Drafts, Pay(d) \/ Cancel(d) PROVE IInv'
  <2>1. PICK status \in {"paid", "cancelled"} : Close(d, status)
    BY <1>7 DEF Pay, Cancel
  <2>2. drafts' \in [Drafts -> DraftOrders]
    BY <1>0, <2>1 DEF Close, TypeOK, DraftOrders, Statuses
  <2>3. \A x \in Drafts : drafts[x].status # "none" =>
            /\ drafts'[x].status # "none" /\ drafts'[x].lines = drafts[x].lines
            /\ drafts'[x].created = drafts[x].created
    BY <1>0, <2>1 DEF Close, TypeOK, DraftOrders
  <2> QED
    BY <1>0, <2>1, <2>2, <2>3, OthersInv DEF Close, TypeOK
<1>8. ASSUME NEW p \in Products, CatalogueChange(p) PROVE IInv'
  <2>1. purchasable' \in SUBSET Products
    BY <1>0, <1>8 DEF CatalogueChange, TypeOK
  <2> QED
    BY <1>0, <1>8, <2>1, OthersInv DEF CatalogueChange, TypeOK
<1>9. CASE Tick
  BY <1>0, <1>9, OthersInv DEF Tick, TypeOK
<1>10. CASE UNCHANGED vars
  BY <1>0, <1>10, OthersInv DEF vars, TypeOK
<1> QED
  BY <1>1, <1>2, <1>3, <1>4, <1>5, <1>6, <1>7, <1>8, <1>9, <1>10 DEF Next

\* The inductive invariant holds in every reachable state.
THEOREM Invariance == Spec => []IInv
BY InitInv, NextInv, PTL DEF Spec

\* Every session, request and draft has its type: in particular no line of any
\* cart, whatever quantities are asked for and however responses are
\* interleaved, ever exceeds MAX_QTY.
THEOREM TypeCorrect == Spec => []TypeOK
<1>1. IInv => TypeOK
  BY DEF IInv
<1> QED
  BY <1>1, Invariance, PTL

\* Whichever copy of the session settles its handoff, it subtracts the lines of
\* the order that was billed.
THEOREM HandoffSafety == Spec => []HandoffMatchesDraft
<1>1. IInv => HandoffMatchesDraft
  BY DEF IInv
<1> QED
  BY <1>1, Invariance, PTL

\* No line of cookies settles an order twice.
THEOREM SettlementSafety == Spec => []SettledAtMostOnce
<1>1. IInv => SettledAtMostOnce
  BY DEF IInv
<1> QED
  BY <1>1, Invariance, PTL

-----------------------------------------------------------------------------
(***************************************************************************)
(* What a step settles and when it bills again.  An order that billed      *)
(* nothing would make Consume empty the cart, so the proof needs that      *)
(* every draft bills something, and that a slot starts anew.               *)
(***************************************************************************)
DraftsBill == \A d \in Drafts : drafts[d].status # "none" => drafts[d].lines # NoLines
HandoffsBill == \A r \in Slots : req[r].pc = "handoff" => req[r].lines # NoLines
SlotsStartAnew == \A r \in Slots : req[r].pc = "idle" => req[r].session = EmptySession

BillInv == IInv /\ DraftsBill /\ HandoffsBill /\ SlotsStartAnew

LEMMA RespondType ==
    ASSUME NEW s \in Sessions, NEW b \in BOOLEAN
    PROVE  /\ Respond(s, b) \in Requests
           /\ Respond(s, b).pc = "answered"
           /\ Respond(s, b).session = IF b THEN s ELSE EmptySession
<1>1. PICK t : t = IF b THEN s ELSE EmptySession
  OBVIOUS
<1>2. t \in Sessions
  BY <1>1, EmptyGood DEF Good
<1>3. Respond(s, b) = Continue("answered", "view", t, b)
  BY <1>1 DEF Respond
<1> QED
  BY <1>1, <1>2, <1>3, ContinueType DEF Operations

\* What Build leaves in its slot.
BuiltFrom(r, s, t, dirty) ==
    /\ Good(s)
    /\ t \in Sessions /\ t.pending = s.pending /\ t.trail = s.trail
    /\ t.cart = Prune(s.cart, purchasable)
    /\ req'[r] \in Requests
    /\ \/ /\ req'[r].pc = "handoff" /\ req'[r].session = t
          /\ req'[r].lines = t.cart /\ t.cart # NoLines
       \/ /\ req'[r].pc = "answered"
          /\ req'[r].session = IF dirty THEN t ELSE EmptySession

LEMMA Built ==
    ASSUME IInv, NEW r \in Slots, Build(r)
    PROVE  \E answer \in Answers(req[r].session), t \in Sessions, dirty \in BOOLEAN :
             BuiltFrom(r, Reconcile(req[r].session, answer), t, dirty)
<1> DEFINE s0 == req[r].session
<1>0. TypeOK /\ Good(s0) /\ req[r] \in Requests
  BY CopiesGood DEF IInv, TypeOK
<1>1. PICK answer \in Answers(s0) :
         LET s     == Reconcile(s0, answer)
             kept  == Prune(s.cart, purchasable)
             built == [s EXCEPT !.cart = kept]
             dirty == req[r].dirty \/ Expired(s0) \/ Probes(s0) \/ kept # s.cart
         IN IF req[r].op = "checkout" /\ kept # NoLines
            THEN Step(r, [Continue("handoff", "checkout", built, dirty)
                          EXCEPT !.lines = kept])
            ELSE Step(r, Respond(built, dirty))
  BY DEF Build
<1>2. PICK s : s = Reconcile(s0, answer)
  OBVIOUS
<1>3. PICK kept : kept = Prune(s.cart, purchasable)
  OBVIOUS
<1>4. PICK t : t = [s EXCEPT !.cart = kept]
  OBVIOUS
<1>5. PICK dirty \in BOOLEAN :
         dirty = (req[r].dirty \/ Expired(s0) \/ Probes(s0) \/ kept # s.cart)
  BY <1>0 DEF Requests
<1>6. Good(s) /\ s \in Sessions
  BY <1>0, <1>2, ReconcileGood DEF Good
<1>7. kept \in Lines
  BY <1>0, <1>3, <1>6, LinesType DEF TypeOK, Sessions
<1>8. t \in Sessions /\ t.pending = s.pending /\ t.trail = s.trail /\ t.cart = kept
  BY <1>4, <1>6, <1>7 DEF Sessions
<1>9. CASE req[r].op = "checkout" /\ kept # NoLines
  <2>1. PICK q : q = [Continue("handoff", "checkout", t, dirty) EXCEPT !.lines = kept]
    OBVIOUS
  <2>2. q \in Requests /\ q.session = t /\ q.lines = kept /\ q.pc = "handoff"
    BY <1>7, <1>8, <2>1, IdleType DEF Continue, Requests, Operations
  <2>3. Step(r, q)
    BY <1>1, <1>2, <1>3, <1>4, <1>5, <1>9, <2>1
  <2>4. req'[r] = q
    BY <1>0, <2>3 DEF Step, TypeOK
  <2>5. BuiltFrom(r, s, t, dirty)
    BY <1>3, <1>6, <1>8, <1>9, <2>2, <2>4 DEF BuiltFrom
  <2> QED
    BY <1>2, <1>8, <2>5
<1>10. CASE ~(req[r].op = "checkout" /\ kept # NoLines)
  <2>1. Step(r, Respond(t, dirty))
    BY <1>1, <1>2, <1>3, <1>4, <1>5, <1>10
  <2>2. req'[r] = Respond(t, dirty)
    BY <1>0, <2>1 DEF Step, TypeOK
  <2>3. BuiltFrom(r, s, t, dirty)
    BY <1>3, <1>6, <1>8, <2>2, RespondType DEF BuiltFrom
  <2> QED
    BY <1>2, <1>8, <2>3
<1> QED
  BY <1>9, <1>10

\* What Mutate leaves in its slot.
MutatedFrom(r, s) ==
    /\ Good(s)
    /\ req'[r] \in Requests /\ req'[r].pc = "build"
    /\ req'[r].session.trail = s.trail
    /\ req'[r].session.cart = Written(req[r], s.cart)

LEMMA Mutated ==
    ASSUME IInv, NEW r \in Slots, Mutate(r)
    PROVE  \E answer \in Answers(req[r].session) :
             MutatedFrom(r, Reconcile(req[r].session, answer))
<1> DEFINE s0 == req[r].session
<1>0. TypeOK /\ Good(s0) /\ req[r] \in Requests
  BY CopiesGood DEF IInv, TypeOK
<1>1. PICK answer \in Answers(s0) :
         LET s == Reconcile(s0, answer)
         IN Step(r, Continue("build", "view", [s EXCEPT !.cart = Written(req[r], @)], TRUE))
  BY DEF Mutate
<1>2. PICK s : s = Reconcile(s0, answer)
  OBVIOUS
<1>3. Good(s) /\ s \in Sessions
  BY <1>0, <1>2, ReconcileGood DEF Good
<1>4. Written(req[r], s.cart) \in Lines
  BY <1>0, <1>3, WrittenType DEF Mutate, Arrived, Sessions
<1>5. PICK t : t = [s EXCEPT !.cart = Written(req[r], s.cart)]
  OBVIOUS
<1>6. t \in Sessions /\ t.trail = s.trail /\ t.cart = Written(req[r], s.cart)
  BY <1>3, <1>4, <1>5 DEF Sessions
<1>7. PICK q : q = Continue("build", "view", t, TRUE)
  OBVIOUS
<1>8. q \in Requests /\ q.session = t /\ q.pc = "build"
  BY <1>6, <1>7, IdleType DEF Continue, Requests, Operations
<1>9. req'[r] = q
  BY <1>0, <1>1, <1>2, <1>5, <1>7 DEF Step, TypeOK
<1>10. MutatedFrom(r, s)
  BY <1>3, <1>6, <1>8, <1>9 DEF MutatedFrom
<1> QED
  BY <1>2, <1>10

\* Only reconcile_pending, and only for an order TN reports as paid, settles;
\* what leaves the cart is what the order billed.
LEMMA ReconcileSettles ==
    ASSUME TypeOK, DraftsBill, NEW s, Good(s), NEW answer \in Answers(s),
           NEW d \in Drafts, s.trail[d] = "handed",
           Reconcile(s, answer).trail[d] = "settled"
    PROVE  /\ drafts[d].status = "paid"
           /\ \A p \in Products :
                Reconcile(s, answer).cart[p] >= s.cart[p] - drafts[d].lines[p]
<1>0. s \in Sessions
  BY DEF Good
<1>1. CASE Expired(s)
  <2>1. s.pending \in Tracked
    BY <1>0, <1>1, TrackedType DEF Expired
  <2>2. Reconcile(s, answer) = Forget(s)
    <3>1. answer = "unasked"
      BY <1>1 DEF Answers, Probes
    <3> QED
      BY <1>1, <3>1 DEF Reconcile
  <2>3. Forget(s).trail = [s.trail EXCEPT ![s.pending.id] = "given_up"]
    BY <1>0 DEF Forget, Sessions
  <2> QED
    BY <1>0, <2>1, <2>2, <2>3 DEF Sessions, Tracked
<1>2. CASE ~Expired(s) /\ ~Probes(s)
  <2>1. Reconcile(s, answer) = s
    BY <1>2 DEF Answers, Reconcile
  <2> QED
    BY <2>1
<1>3. CASE ~Expired(s) /\ Probes(s)
  <2>1. HasPending(s) /\ s.pending \in Tracked /\ s.pending.id \in Drafts
    BY <1>0, <1>3, TrackedType DEF Probes, Tracked
  <2>2. answer \in {"unreachable", "open", "paid", "cancelled"}
    BY <1>3, <2>1 DEF Answers, Good, MatchesDraft, TypeOK, DraftOrders, Statuses
  <2>3. CASE answer \in {"open", "unreachable"}
    <3>1. Reconcile(s, answer) = [s EXCEPT !.pending.checked = now]
      BY <1>3, <2>3 DEF Reconcile
    <3>2. Reconcile(s, answer).trail = s.trail
      BY <1>0, <3>1 DEF Sessions
    <3> QED
      BY <3>2
  <2>4. CASE answer = "cancelled"
    <3>1. Reconcile(s, answer) = Forget(s)
      BY <1>3, <2>4 DEF Reconcile
    <3>2. Forget(s).trail = [s.trail EXCEPT ![s.pending.id] = "given_up"]
      BY <1>0 DEF Forget, Sessions
    <3> QED
      BY <1>0, <2>1, <3>1, <3>2 DEF Sessions
  <2>5. CASE answer = "paid"
    <3>1. Reconcile(s, answer) = Consume(s) /\ drafts[s.pending.id].status = "paid"
      BY <1>3, <2>5 DEF Reconcile, Answers
    <3>2. Consume(s).trail = [s.trail EXCEPT ![s.pending.id] = "settled"]
      BY <1>0 DEF Consume, Sessions
    <3>3. d = s.pending.id
      BY <1>0, <2>1, <3>1, <3>2 DEF Sessions
    <3>4. s.pending.items = drafts[d].lines /\ drafts[d].lines # NoLines /\ drafts[d].lines \in Lines
      BY <2>1, <3>1, <3>3 DEF Good, MatchesDraft, DraftsBill, TypeOK, DraftOrders
    <3>5. Consume(s).cart = RemoveQuantities(s.cart, drafts[d].lines)
      BY <1>0, <3>4 DEF Consume, Sessions
    <3>6. ASSUME NEW p \in Products
          PROVE  RemoveQuantities(s.cart, drafts[d].lines)[p] >= s.cart[p] - drafts[d].lines[p]
      <4>1. s.cart[p] \in 0..MaxQty /\ drafts[d].lines[p] \in 0..MaxQty /\ MaxQty \in Nat
        BY <1>0, <3>4, MaxQtyAssumption DEF Sessions, Lines
      <4>2. ClampQty(drafts[d].lines[p]) = drafts[d].lines[p]
        BY <4>1 DEF ClampQty
      <4>3. RemoveQuantities(s.cart, drafts[d].lines)[p] =
              IF s.cart[p] > drafts[d].lines[p] THEN s.cart[p] - drafts[d].lines[p] ELSE 0
        BY <4>2 DEF RemoveQuantities
      <4> QED
        BY <4>1, <4>3
    <3> QED
      BY <3>1, <3>3, <3>5, <3>6
  <2> QED
    BY <2>2, <2>3, <2>4, <2>5
<1> QED
  BY <1>1, <1>2, <1>3

\* A write of one line lessens no other, and an addition not even that one.
LEMMA WrittenKeeps ==
    ASSUME NEW q \in Requests, q.op \in {"add", "update", "remove"},
           NEW cart \in Lines, NEW p \in Products, q.op = "add" \/ p # q.product
    PROVE  Written(q, cart)[p] >= cart[p]
<1>0. cart[p] \in 0..MaxQty /\ MaxQty \in Nat /\ q.qty \in Int
  BY MaxQtyAssumption DEF Lines, Requests
<1>1. CASE p # q.product
  <2>1. Written(q, cart)[p] = cart[p]
    BY <1>1 DEF Written, AddLine, SetLine, RemoveLine, Lines
  <2> QED
    BY <1>0, <2>1
<1>2. CASE q.op = "add" /\ p = q.product
  <2>1. Written(q, cart)[p] = ClampQty(cart[p] + ClampQty(q.qty))
    BY <1>2 DEF Written, AddLine, Lines
  <2>2. ClampQty(q.qty) \in 0..MaxQty
    BY <1>0, ClampType
  <2> QED
    BY <1>0, <2>1, <2>2 DEF ClampQty
<1> QED
  BY <1>1, <1>2

\* What SettlesOnlyWhatWasPaid says of the slot r and the draft d.
PaidFor(r, d) ==
    /\ drafts[d].status = "paid"
    /\ \A p \in purchasable :
         \/ req[r].op \in {"update", "remove"} /\ p = req[r].product
         \/ req'[r].session.cart[p] >= req[r].session.cart[p] - drafts[d].lines[p]

\* A session that has just begun has settled nothing.
LEMMA FreshSettlesNothing ==
    ASSUME NEW r \in Slots, NEW d \in Drafts, Settles(r, d)
    PROVE  /\ req'[r].session # EmptySession
           /\ req'[r].session.trail # req[r].session.trail
BY DEF Settles, EmptySession

LEMMA MutateSettles ==
    ASSUME BillInv, NEW r \in Slots, Mutate(r), NEW d \in Drafts, Settles(r, d)
    PROVE  PaidFor(r, d)
<1> DEFINE s0 == req[r].session
<1>0. IInv /\ DraftsBill /\ TypeOK /\ Good(s0) /\ req[r] \in Requests
  BY CopiesGood DEF BillInv, IInv, TypeOK
<1>1. PICK answer \in Answers(s0) : MutatedFrom(r, Reconcile(s0, answer))
  BY <1>0, Mutated
<1>2. PICK s : s = Reconcile(s0, answer)
  OBVIOUS
<1>3. /\ s \in Sessions /\ req'[r].session.trail = s.trail
      /\ req'[r].session.cart = Written(req[r], s.cart)
  BY <1>1, <1>2 DEF MutatedFrom, Good
<1>4. s0.trail[d] = "handed" /\ s.trail[d] = "settled"
  BY <1>3 DEF Settles
<1>5. drafts[d].status = "paid" /\ \A p \in Products : s.cart[p] >= s0.cart[p] - drafts[d].lines[p]
  BY <1>0, <1>1, <1>2, <1>4, ReconcileSettles
<1>6. ASSUME NEW p \in purchasable, ~(req[r].op \in {"update", "remove"} /\ p = req[r].product)
      PROVE  req'[r].session.cart[p] >= s0.cart[p] - drafts[d].lines[p]
  <2>1. p \in Products /\ req[r].op \in {"add", "update", "remove"} /\ s.cart \in Lines
    BY <1>0, <1>3 DEF TypeOK, Mutate, Arrived, Sessions
  <2>2. Written(req[r], s.cart)[p] >= s.cart[p]
    BY <1>0, <1>6, <2>1, WrittenKeeps
  <2>3. Written(req[r], s.cart) \in Lines
    BY <1>0, <2>1, WrittenType
  <2>4. /\ Written(req[r], s.cart)[p] \in Int /\ s.cart[p] \in Int
        /\ s0.cart[p] \in Int /\ drafts[d].lines[p] \in Int
    BY <1>0, <2>1, <2>3, MaxQtyAssumption DEF Lines, TypeOK, DraftOrders, Good, Sessions
  <2>5. s.cart[p] >= s0.cart[p] - drafts[d].lines[p]
    BY <1>5, <2>1
  <2> QED
    BY <1>3, <2>2, <2>4, <2>5
<1> QED
  BY <1>5, <1>6 DEF PaidFor

LEMMA BuildSettles ==
    ASSUME BillInv, NEW r \in Slots, Build(r), NEW d \in Drafts, Settles(r, d)
    PROVE  PaidFor(r, d)
<1> DEFINE s0 == req[r].session
<1>0. IInv /\ DraftsBill /\ TypeOK /\ Good(s0)
  BY CopiesGood DEF BillInv, IInv
<1>1. PICK answer \in Answers(s0), t \in Sessions, dirty \in BOOLEAN :
         BuiltFrom(r, Reconcile(s0, answer), t, dirty)
  BY <1>0, Built
<1>2. PICK s : s = Reconcile(s0, answer)
  OBVIOUS
<1>3. t.trail = s.trail /\ t.cart = Prune(s.cart, purchasable)
  BY <1>1, <1>2 DEF BuiltFrom
<1>4. req'[r].session = t
  BY <1>1, FreshSettlesNothing DEF BuiltFrom
<1>5. s0.trail[d] = "handed" /\ s.trail[d] = "settled"
  BY <1>3, <1>4 DEF Settles
<1>6. drafts[d].status = "paid" /\ \A p \in Products : s.cart[p] >= s0.cart[p] - drafts[d].lines[p]
  BY <1>0, <1>1, <1>2, <1>5, ReconcileSettles
<1>7. \A p \in purchasable : t.cart[p] = s.cart[p] /\ p \in Products
  BY <1>0, <1>3 DEF Prune, TypeOK
<1> QED
  BY <1>4, <1>6, <1>7 DEF PaidFor

\* Nothing else settles, but for the visit to /gracias.
LEMMA HandleSettles ==
    ASSUME BillInv, NEW r \in Slots, Handle(r), NEW d \in Drafts, Settles(r, d)
    PROVE  Mutate(r) \/ Build(r) \/ req[r].op = "thanks"
<1> DEFINE s0 == req[r].session
<1>0. TypeOK /\ s0 \in Sessions /\ req[r] \in Requests
  BY CopiesGood DEF BillInv, IInv, TypeOK, Good
<1>1. CASE RefuseAdd(r)
  <2>1. req'[r] = Respond(s0, FALSE)
    BY <1>0, <1>1 DEF RefuseAdd, Step, TypeOK
  <2> QED
    BY <1>0, <2>1, RespondType, FreshSettlesNothing
<1>2. CASE Clear(r)
  <2>1. PICK t : t = [s0 EXCEPT !.cart = NoLines]
    OBVIOUS
  <2>2. t \in Sessions /\ t.trail = s0.trail
    BY <1>0, <2>1, LinesType DEF Sessions
  <2>3. PICK q : q = Continue("build", "view", t, TRUE)
    OBVIOUS
  <2>4. q.session = t
    BY <2>2, <2>3, IdleType DEF Continue, Requests
  <2>5. req'[r] = q
    BY <1>0, <1>2, <2>1, <2>3 DEF Clear, Step, TypeOK
  <2> QED
    BY <2>2, <2>4, <2>5, FreshSettlesNothing
<1>3. CASE FailHandoff(r)
  <2>1. req'[r] = Respond(s0, req[r].dirty) /\ req[r].dirty \in BOOLEAN
    BY <1>0, <1>3 DEF FailHandoff, Step, TypeOK, Requests
  <2> QED
    BY <1>0, <2>1, RespondType, FreshSettlesNothing
<1>4. CASE Handoff(r)
  <2>1. PICK x \in Drafts : Step(r, Respond(Remember(s0, x, s0.cart), TRUE))
    BY <1>4 DEF Handoff
  <2>2. PICK t : t = Remember(s0, x, s0.cart)
    OBVIOUS
  <2>3. t.trail = [s0.trail EXCEPT ![x] = "handed"]
    BY <1>0, <2>2 DEF Remember, Sessions
  <2>4. PICK q : q = Respond(t, TRUE)
    OBVIOUS
  <2>5. q.session = t
    BY <2>4, IdleType DEF Respond, Continue, Requests
  <2>6. req'[r] = q
    BY <1>0, <2>1, <2>2, <2>4 DEF Step, TypeOK
  <2> QED
    BY <1>0, <2>3, <2>5, <2>6 DEF Settles, Sessions
<1>5. CASE Thanks(r)
  BY <1>5 DEF Thanks, Arrived
<1> QED
  BY <1>1, <1>2, <1>3, <1>4, <1>5 DEF Handle

LEMMA OnlyTheSlot ==
    ASSUME TypeOK, NEW x \in Slots, NEW r \in Slots,
           \/ SendView(x) \/ SendAdd(x) \/ SendUpdate(x) \/ SendRemove(x) \/ SendPlain(x)
           \/ Handle(x) \/ Deliver(x) \/ Lose(x)
    PROVE  req'[r] = req[r] \/ r = x
<1>1. CASE SendView(x) \/ SendAdd(x) \/ SendUpdate(x) \/ SendRemove(x) \/ SendPlain(x)
  BY <1>1 DEF SendView, SendAdd, SendUpdate, SendRemove, SendPlain, Send, TypeOK
<1>2. CASE RefuseAdd(x) \/ Mutate(x) \/ Clear(x) \/ FailHandoff(x) \/ Handoff(x) \/ Thanks(x)
  BY <1>2 DEF RefuseAdd, Mutate, Clear, FailHandoff, Handoff, Thanks, Step, TypeOK
<1>3. CASE Build(x)
  BY <1>3 DEF Build, Step, TypeOK
<1>4. CASE Deliver(x) \/ Lose(x)
  BY <1>4 DEF Deliver, Lose, Step, TypeOK
<1> QED
  BY <1>1, <1>2, <1>3, <1>4 DEF Handle

\* What Send puts into its slot.
LEMMA Sent ==
    ASSUME TypeOK, NEW x \in Slots, NEW op \in Operations, NEW p \in Products, NEW n \in Int,
           Send(x, op, p, n)
    PROVE  req[x].pc = "idle" /\ req'[x].pc = "arrived" /\ req'[x].session = jar
<1>1. PICK q : q = [IdleRequest EXCEPT !.pc = "arrived", !.op = op, !.product = p,
                                       !.qty = n, !.session = jar]
  OBVIOUS
<1>2. q.pc = "arrived" /\ q.session = jar
  BY <1>1, IdleType DEF Requests
<1>3. req'[x] = q
  BY <1>1 DEF Send, TypeOK
<1> QED
  BY <1>2, <1>3 DEF Send

LEMMA Sends ==
    ASSUME TypeOK, NEW x \in Slots,
           SendView(x) \/ SendAdd(x) \/ SendUpdate(x) \/ SendRemove(x) \/ SendPlain(x)
    PROVE  /\ req[x].pc = "idle" /\ req'[x].pc = "arrived" /\ req'[x].session = jar
           /\ UNCHANGED drafts
<1>0. IdleRequest.product \in Products /\ 0 \in Int
  BY IdleType DEF Requests
<1>1. PICK op \in Operations, p \in Products, n \in Int : Send(x, op, p, n)
  <2>1. CASE SendView(x)
    BY <1>0, <2>1 DEF SendView, Operations
  <2>2. CASE SendAdd(x) \/ SendUpdate(x)
    BY <2>2, QtyAssumption DEF SendAdd, SendUpdate, Operations
  <2>3. CASE SendRemove(x) \/ SendPlain(x)
    BY <1>0, <2>3 DEF SendRemove, SendPlain, Operations
  <2> QED
    BY <2>1, <2>2, <2>3
<1>2. UNCHANGED drafts
  BY <1>1 DEF Send
<1> QED
  BY <1>1, <1>2, Sent

\* What Deliver and Lose put into their slot.
LEMMA Ends ==
    ASSUME TypeOK, NEW x \in Slots, Deliver(x) \/ Lose(x)
    PROVE  req'[x].pc = "idle" /\ req'[x].session = EmptySession /\ UNCHANGED drafts
<1>1. req'[x] = IdleRequest /\ UNCHANGED drafts
  BY DEF Deliver, Lose, Step, TypeOK
<1> QED
  BY <1>1 DEF IdleRequest

LEMMA SettlesFollows ==
    ASSUME BillInv, [Next]_vars, NEW r \in Slots, NEW d \in Drafts,
           Settles(r, d), req[r].op # "thanks"
    PROVE  PaidFor(r, d)
<1>0. TypeOK /\ req'[r] # req[r]
  BY FreshSettlesNothing DEF BillInv, IInv
<1>1. ASSUME NEW x \in Slots,
             \/ SendView(x) \/ SendAdd(x) \/ SendUpdate(x) \/ SendRemove(x) \/ SendPlain(x)
             \/ Handle(x) \/ Deliver(x) \/ Lose(x)
      PROVE  PaidFor(r, d)
  <2>0. r = x
    BY <1>0, <1>1, OnlyTheSlot
  <2>1. CASE SendView(x) \/ SendAdd(x) \/ SendUpdate(x) \/ SendRemove(x) \/ SendPlain(x)
    <3>1. req[r].session = EmptySession
      BY <1>0, <2>0, <2>1, Sends DEF BillInv, SlotsStartAnew
    <3> QED
      BY <3>1 DEF Settles, EmptySession
  <2>2. CASE Handle(x)
    BY <2>0, <2>2, HandleSettles, MutateSettles, BuildSettles
  <2>3. CASE Deliver(x) \/ Lose(x)
    BY <1>0, <2>0, <2>3, Ends, FreshSettlesNothing
  <2> QED
    BY <1>1, <2>1, <2>2, <2>3
<1>2. CASE \E x \in Drafts : Pay(x) \/ Cancel(x)
  BY <1>0, <1>2 DEF Pay, Cancel, Close
<1>3. CASE Tick \/ UNCHANGED vars \/ \E p \in Products : CatalogueChange(p)
  BY <1>0, <1>3 DEF Tick, vars, CatalogueChange
<1> QED
  BY <1>1, <1>2, <1>3 DEF Next

\* What a handler leaves in its slot, and that a new draft bills what was built.
LEMMA HandleBills ==
    ASSUME BillInv, NEW r \in Slots, Handle(r)
    PROVE  /\ req'[r].pc # "idle"
           /\ req'[r].pc = "handoff" => req'[r].lines # NoLines
           /\ DraftsBill'
<1> DEFINE s0 == req[r].session
<1>0. TypeOK /\ s0 \in Sessions /\ req[r] \in Requests /\ DraftsBill /\ IInv
  BY CopiesGood DEF BillInv, IInv, TypeOK, Good
<1>1. CASE RefuseAdd(r)
  <2>1. req'[r] = Respond(s0, FALSE) /\ UNCHANGED drafts
    BY <1>0, <1>1 DEF RefuseAdd, Step, TypeOK
  <2> QED
    BY <1>0, <2>1, RespondType DEF DraftsBill
<1>2. CASE Mutate(r)
  <2>1. req'[r].pc = "build" /\ UNCHANGED drafts
    BY <1>0, <1>2, Mutated DEF MutatedFrom, Mutate
  <2> QED
    BY <1>0, <2>1 DEF DraftsBill
<1>3. CASE Clear(r)
  <2>1. PICK q : q = Continue("build", "view", [s0 EXCEPT !.cart = NoLines], TRUE)
    OBVIOUS
  <2>2. q.pc = "build"
    BY <2>1, IdleType DEF Continue, Requests
  <2>3. req'[r] = q /\ UNCHANGED drafts
    BY <1>0, <1>3, <2>1 DEF Clear, Step, TypeOK
  <2> QED
    BY <1>0, <2>2, <2>3 DEF DraftsBill
<1>4. CASE Build(r)
  <2>1. PICK answer \in Answers(s0), t \in Sessions, dirty \in BOOLEAN :
           BuiltFrom(r, Reconcile(s0, answer), t, dirty)
    BY <1>0, <1>4, Built
  <2>2. UNCHANGED drafts
    BY <1>4 DEF Build
  <2> QED
    BY <1>0, <2>1, <2>2 DEF BuiltFrom, DraftsBill
<1>5. CASE FailHandoff(r)
  <2>1. req'[r] = Respond(s0, req[r].dirty) /\ req[r].dirty \in BOOLEAN /\ UNCHANGED drafts
    BY <1>0, <1>5 DEF FailHandoff, Step, TypeOK, Requests
  <2> QED
    BY <1>0, <2>1, RespondType DEF DraftsBill
<1>6. CASE Handoff(r)
  <2>1. PICK d \in Drafts :
           /\ drafts' = [drafts EXCEPT ![d] = [status |-> "open", lines |-> req[r].lines,
                                               created |-> now]]
           /\ Step(r, Respond(Remember(s0, d, s0.cart), TRUE))
    BY <1>6 DEF Handoff
  <2>2. PICK q : q = Respond(Remember(s0, d, s0.cart), TRUE)
    OBVIOUS
  <2>3. q.pc = "answered"
    BY <2>2, IdleType DEF Respond, Continue, Requests
  <2>4. req'[r] = q
    BY <1>0, <2>1, <2>2 DEF Step, TypeOK
  <2>5. req[r].lines # NoLines
    BY <1>6 DEF Handoff, BillInv, HandoffsBill
  <2>6. DraftsBill'
    BY <1>0, <2>1, <2>5 DEF DraftsBill, TypeOK
  <2> QED
    BY <2>3, <2>4, <2>6
<1>7. CASE Thanks(r)
  <2>1. req'[r] = Respond(Consume(s0), TRUE) \/ req'[r] = Respond(s0, FALSE)
    BY <1>0, <1>7 DEF Thanks, Step, TypeOK
  <2>2. \A s, b : Respond(s, b).pc = "answered"
    BY IdleType DEF Respond, Continue, Requests
  <2> QED
    BY <1>0, <1>7, <2>1, <2>2 DEF Thanks, DraftsBill
<1> QED
  BY <1>1, <1>2, <1>3, <1>4, <1>5, <1>6, <1>7 DEF Handle

LEMMA InitBill == Init => BillInv
<1>1. IdleRequest.pc = "idle" /\ IdleRequest.session = EmptySession
  BY DEF IdleRequest
<1> QED
  BY <1>1, InitInv DEF Init, BillInv, DraftsBill, HandoffsBill, SlotsStartAnew

LEMMA NextBill == BillInv /\ [Next]_vars => BillInv'
<1> SUFFICES ASSUME BillInv, [Next]_vars PROVE BillInv'
  OBVIOUS
<1>0. IInv' /\ TypeOK /\ DraftsBill /\ HandoffsBill /\ SlotsStartAnew
  BY NextInv DEF BillInv, IInv
<1>1. ASSUME NEW x \in Slots,
             \/ SendView(x) \/ SendAdd(x) \/ SendUpdate(x) \/ SendRemove(x) \/ SendPlain(x)
             \/ Handle(x) \/ Deliver(x) \/ Lose(x)
      PROVE  BillInv'
  <2>1. /\ DraftsBill'
        /\ req'[x].pc = "handoff" => req'[x].lines # NoLines
        /\ req'[x].pc = "idle" => req'[x].session = EmptySession
    <3>1. CASE SendView(x) \/ SendAdd(x) \/ SendUpdate(x) \/ SendRemove(x) \/ SendPlain(x)
      BY <1>0, <3>1, Sends DEF DraftsBill
    <3>2. CASE Handle(x)
      BY <3>2, HandleBills
    <3>3. CASE Deliver(x) \/ Lose(x)
      BY <1>0, <3>3, Ends DEF DraftsBill
    <3> QED
      BY <1>1, <3>1, <3>2, <3>3
  <2>2. \A r \in Slots : req'[r] = req[r] \/ r = x
    BY <1>0, <1>1, OnlyTheSlot
  <2> QED
    BY <1>0, <2>1, <2>2 DEF BillInv, HandoffsBill, SlotsStartAnew
<1>2. ASSUME NEW d \in Drafts, Pay(d) \/ Cancel(d) PROVE BillInv'
  <2>1. PICK status \in Statuses : Close(d, status)
    BY <1>2 DEF Pay, Cancel, Statuses
  <2>2. DraftsBill'
    BY <1>0, <2>1 DEF Close, DraftsBill, TypeOK, DraftOrders
  <2>3. UNCHANGED req
    BY <2>1 DEF Close
  <2> QED
    BY <1>0, <2>2, <2>3 DEF BillInv, HandoffsBill, SlotsStartAnew
<1>3. CASE Tick \/ UNCHANGED vars \/ \E p \in Products : CatalogueChange(p)
  <2>1. UNCHANGED <<req, drafts>>
    BY <1>3 DEF Tick, vars, CatalogueChange
  <2> QED
    BY <1>0, <2>1 DEF BillInv, DraftsBill, HandoffsBill, SlotsStartAnew
<1> QED
  BY <1>1, <1>2, <1>3 DEF Next

\* Without the buyer's own visit to /gracias only a paid order is settled, and
\* what was added after the handoff stays in the cart, in every interleaving.
THEOREM SettlementIsPaid == Spec => SettlesOnlyWhatWasPaid
<1>1. BillInv /\ [Next]_vars =>
        [\A r \in Slots, d \in Drafts : Settles(r, d) /\ req[r].op # "thanks" =>
         /\ drafts[d].status = "paid"
         /\ \A p \in purchasable :
              \/ req[r].op \in {"update", "remove"} /\ p = req[r].product
              \/ req'[r].session.cart[p] >= req[r].session.cart[p] - drafts[d].lines[p]]_vars
  BY SettlesFollows DEF PaidFor
<1> QED
  BY InitBill, NextBill, <1>1, PTL DEF Spec, SettlesOnlyWhatWasPaid

\* What RebillsOnlyInWindow says of the slot r.
InWindow(r) ==
    LET s == req'[r].session
    IN \/ now - s.pending.ts < MinAge
       \/ now - s.pending.checked < Interval

LEMMA RebillsFollows ==
    ASSUME IInv, [Next]_vars, Interval > 0, NEW r \in Slots,
           req[r].pc # "handoff", req'[r].pc = "handoff",
           HasPending(req'[r].session), drafts[req'[r].session.pending.id].status = "paid"
    PROVE  InWindow(r)
<1> DEFINE s0 == req[r].session
<1>0. TypeOK /\ Good(s0) /\ s0 \in Sessions /\ req[r] \in Requests
  BY CopiesGood DEF IInv, Good, TypeOK
<1>1. Build(r)
  <2>1. req'[r] # req[r]
    OBVIOUS
  <2>2. ASSUME NEW x \in Slots,
             \/ SendView(x) \/ SendAdd(x) \/ SendUpdate(x) \/ SendRemove(x) \/ SendPlain(x)
             \/ Handle(x) \/ Deliver(x) \/ Lose(x)
        PROVE  Build(r)
    <3>1. r = x
      BY <1>0, <2>1, <2>2, OnlyTheSlot
    <3>2. Handle(r)
      BY <1>0, <2>2, <3>1, Sends, Ends
    <3>3. \A s, b : Respond(s, b).pc = "answered"
      BY IdleType DEF Respond, Continue, Requests
    <3>4. CASE RefuseAdd(r) \/ FailHandoff(r) \/ Thanks(r)
      <4>1. \/ req'[r] = Respond(s0, FALSE) \/ req'[r] = Respond(s0, req[r].dirty)
            \/ req'[r] = Respond(Consume(s0), TRUE)
        BY <1>0, <3>4 DEF RefuseAdd, FailHandoff, Thanks, Step, TypeOK
      <4> QED
        BY <3>3, <4>1
    <3>5. CASE Handoff(r)
      BY <3>5 DEF Handoff
    <3>6. CASE Mutate(r)
      BY <3>6, Mutated DEF MutatedFrom
    <3>7. CASE Clear(r)
      <4>1. PICK q : q = Continue("build", "view", [s0 EXCEPT !.cart = NoLines], TRUE)
        OBVIOUS
      <4>2. q.pc = "build"
        BY <4>1, IdleType DEF Continue, Requests
      <4>3. req'[r] = q
        BY <1>0, <3>7, <4>1 DEF Clear, Step, TypeOK
      <4> QED
        BY <4>2, <4>3
    <3> QED
      BY <3>2, <3>4, <3>5, <3>6, <3>7 DEF Handle
  <2>3. CASE \E x \in Drafts : Pay(x) \/ Cancel(x)
    BY <2>1, <2>3 DEF Pay, Cancel, Close
  <2>4. CASE Tick \/ UNCHANGED vars \/ \E p \in Products : CatalogueChange(p)
    BY <2>1, <2>4 DEF Tick, vars, CatalogueChange
  <2> QED
    BY <2>2, <2>3, <2>4 DEF Next
<1>2. PICK answer \in Answers(s0), t \in Sessions, dirty \in BOOLEAN :
         BuiltFrom(r, Reconcile(s0, answer), t, dirty)
  BY <1>1, Built
<1>3. PICK s : s = Reconcile(s0, answer)
  OBVIOUS
<1>4. req'[r].session = t /\ t.pending = s.pending /\ s \in Sessions
  BY <1>2, <1>3 DEF BuiltFrom, Good
<1>5. HasPending(s) /\ drafts[s.pending.id].status = "paid" /\ s.pending \in Tracked
  BY <1>4, TrackedType DEF HasPending
<1>6. CASE Expired(s0)
  <2>1. answer = "unasked"
    BY <1>6 DEF Answers, Probes
  <2>2. s = Forget(s0)
    BY <1>3, <1>6, <2>1 DEF Reconcile
  <2> QED
    BY <1>0, <1>5, <2>2 DEF Forget, HasPending, Sessions
<1>7. CASE ~Expired(s0) /\ ~Probes(s0)
  <2>1. s = s0
    BY <1>3, <1>7 DEF Answers, Reconcile
  <2>2. now - s0.pending.ts < MinAge \/ now - s0.pending.checked < Interval
    BY <1>5, <1>7, <2>1, TimeAssumption, <1>0 DEF Probes, Tracked, TypeOK
  <2> QED
    BY <1>4, <2>1, <2>2 DEF InWindow
<1>8. CASE ~Expired(s0) /\ Probes(s0)
  <2>1. s0.pending \in Tracked /\ HasPending(s0)
    BY <1>0, <1>8, TrackedType DEF Probes
  <2>2. CASE answer = "unreachable"
    <3>1. s = [s0 EXCEPT !.pending.checked = now]
      BY <1>3, <1>8, <2>2 DEF Reconcile
    <3>2. s.pending.checked = now
      BY <1>0, <2>1, <3>1 DEF Sessions, Tracked
    <3>3. now - now < Interval
      BY <1>0, TimeAssumption DEF TypeOK
    <3> QED
      BY <1>4, <3>2, <3>3 DEF InWindow
  <2>3. CASE answer = drafts[s0.pending.id].status /\ answer # "unreachable"
    <3>1. answer \in Statuses
      BY <1>0, <2>1, <2>3 DEF TypeOK, DraftOrders, Tracked
    <3>2. CASE answer = "paid"
      <4>1. s = Consume(s0)
        BY <1>3, <1>8, <3>2 DEF Reconcile
      <4> QED
        BY <1>0, <1>5, <4>1 DEF Consume, HasPending, Sessions
    <3>3. CASE answer = "cancelled"
      <4>1. s = Forget(s0)
        BY <1>3, <1>8, <3>3 DEF Reconcile
      <4> QED
        BY <1>0, <1>5, <4>1 DEF Forget, HasPending, Sessions
    <3>4. CASE answer \in {"open", "none"}
      <4>1. s = s0 \/ s = [s0 EXCEPT !.pending.checked = now]
        BY <1>3, <1>8, <3>4 DEF Reconcile
      <4>2. s.pending.id = s0.pending.id
        BY <1>0, <2>1, <4>1 DEF Sessions, Tracked
      <4> QED
        BY <1>5, <2>3, <3>4, <4>2
    <3> QED
      BY <3>1, <3>2, <3>3, <3>4 DEF Statuses
  <2> QED
    BY <1>8, <2>2, <2>3 DEF Answers
<1> QED
  BY <1>6, <1>7, <1>8

\* With any interval at all between probes, a checkout bills a cart again whose
\* order is paid only within the documented window.
THEOREM RebillsAreThrottled == ASSUME Interval > 0 PROVE Spec => RebillsOnlyInWindow
<1>1. IInv /\ [Next]_vars =>
        [\A r \in Slots :
         LET s == req'[r].session
         IN /\ req[r].pc # "handoff" /\ req'[r].pc = "handoff"
            /\ HasPending(s) /\ drafts[s.pending.id].status = "paid"
            => \/ now - s.pending.ts < MinAge
               \/ now - s.pending.checked < Interval]_vars
  BY RebillsFollows DEF InWindow
<1> QED
  BY InitInv, NextInv, <1>1, PTL DEF Spec, RebillsOnlyInWindow
=============================================================================
