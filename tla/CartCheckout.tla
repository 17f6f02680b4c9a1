---------------------------- MODULE CartCheckout ----------------------------
(***************************************************************************)
(* One browser session of the shop: its cart, its Tienda Nube (TN) checkout *)
(* handoff and the reconciliation that drops what was bought.              *)
(*                                                                         *)
(* The session is a signed cookie, so the server keeps nothing: a request  *)
(* works on the cookie it was sent with, and its response replaces the     *)
(* browser's cookie if the handler wrote to the session.  Requests of two  *)
(* tabs, or of two quick clicks, run concurrently, and their responses     *)
(* arrive in any order or not at all.                                      *)
(*                                                                         *)
(* A handler awaits TN (a probe of the pending draft order, the creation   *)
(* of a new one) and nothing else that another actor can change in a way   *)
(* it could tell apart, so it is one action up to each of these calls.     *)
(***************************************************************************)
EXTENDS CartLines

CONSTANTS
    Slots,        \* the requests that may be in flight at once
    Drafts,       \* the ids of TN draft orders
    NoPending,    \* no "tn_checkout" key in the session
    MinAge,       \* _RECONCILE_MIN_AGE
    Interval,     \* _RECONCILE_INTERVAL
    TTL,          \* _PENDING_TTL
    Epoch,        \* the clock when the session starts, far from 0
    AddQtys,      \* quantities a request to /api/cart/add asks for
    SetQtys,      \* quantities a request to /api/cart/update asks for
    MaxTime,      \* bound: the clock stops here
    MaxRequests   \* bound: requests that are not plain reads of the cart

ASSUME TimeAssumption ==
    /\ {MinAge, Interval, TTL, Epoch, MaxTime, MaxRequests} \subseteq Nat
    /\ Epoch >= Interval
ASSUME QtyAssumption == AddQtys \cup SetQtys \subseteq Int
ASSUME ProductsAssumption == Products # {}

VARIABLES
    jar,          \* the session in the browser's cookie
    req,          \* req[r]: the request in slot r, with its copy of the session
    drafts,       \* TN's draft orders
    purchasable,  \* the products catalog.is_purchasable accepts
    now,          \* the clock (int(time.time()))
    budget        \* requests left before MaxRequests

vars == <<jar, req, drafts, purchasable, now, budget>>

(***************************************************************************)
(* The session: the cart, the handoff being tracked and, for the properties *)
(* only, a history that travels with the cookie: trail[d] says what this    *)
(* line of cookies has done with draft d.                                  *)
(***************************************************************************)
Statuses == {"none", "open", "paid", "cancelled"}

Tracked == [id: Drafts, ts: Nat, checked: Nat, items: Lines]

ASSUME NoPendingAssumption == NoPending \notin Tracked

Sessions == [cart: Lines, pending: Tracked \cup {NoPending},
             trail: [Drafts -> {"unseen", "handed", "settled", "given_up"}]]

EmptySession == [cart |-> NoLines, pending |-> NoPending,
                 trail |-> [d \in Drafts |-> "unseen"]]

DraftOrders == [status: Statuses, lines: Lines, created: Nat]

Operations == {"view", "add", "update", "remove", "clear", "thanks", "checkout"}

\* How far the handler of a request is: lines is what build() returned to it,
\* dirty is session.modified.
Requests == [pc: {"idle", "arrived", "build", "handoff", "answered"},
             op: Operations, product: Products, qty: Int,
             session: Sessions, lines: Lines, dirty: BOOLEAN]

TypeOK ==
    /\ jar \in Sessions
    /\ req \in [Slots -> Requests]
    /\ drafts \in [Drafts -> DraftOrders]
    /\ purchasable \in SUBSET Products
    /\ now \in Nat
    /\ budget \in Nat

IdleRequest == [pc |-> "idle", op |-> "view", product |-> CHOOSE p \in Products : TRUE,
                qty |-> 0, session |-> EmptySession, lines |-> NoLines,
                dirty |-> FALSE]

Init ==
    /\ jar = EmptySession
    /\ req = [r \in Slots |-> IdleRequest]
    /\ drafts = [d \in Drafts |-> [status |-> "none", lines |-> NoLines, created |-> 0]]
    /\ purchasable = Products
    /\ now = Epoch
    /\ budget = MaxRequests

(***************************************************************************)
(* checkout_service: tracking a handoff and settling it.                   *)
(***************************************************************************)
HasPending(s) == s.pending # NoPending

\* Mutant: a second handoff keeps the clock of the first.
RememberKeepsClock(s, d, items) ==
    [s EXCEPT !.pending = [id |-> d, checked |-> 0, items |-> items,
                           ts |-> IF HasPending(s) THEN s.pending.ts ELSE now],
              !.trail[d] = "handed"]

\* remember_pending, with the snapshot of the lines handed off.
Remember(s, d, items) ==
    [s EXCEPT !.pending = [id |-> d, ts |-> now, checked |-> 0, items |-> items],
              !.trail[d] = "handed"]

\* forget_pending
Forget(s) == [s EXCEPT !.pending = NoPending, !.trail[s.pending.id] = "given_up"]

\* Mutant: the purchased lines are dropped but the handoff is not forgotten.
ConsumeKeepsPending(s) ==
    [s EXCEPT !.cart = RemoveQuantities(s.cart, s.pending.items),
              !.trail[s.pending.id] = "settled"]

\* Mutant: the whole cart goes, whatever was bought.
ConsumeWholeCart(s) ==
    [s EXCEPT !.cart = NoLines, !.pending = NoPending,
              !.trail[s.pending.id] = "settled"]

\* consume_pending_purchase: the snapshot of lines, or the whole cart when the
\* handoff kept none.
Consume(s) ==
    [s EXCEPT !.cart = IF s.pending.items = NoLines
                       THEN NoLines
                       ELSE RemoveQuantities(s.cart, s.pending.items),
              !.pending = NoPending,
              !.trail[s.pending.id] = "settled"]

\* Mutant: the time to live counts from the last probe.
ExpiredSinceProbe(s) == HasPending(s) /\ now - s.pending.checked > TTL

\* reconcile_pending: the handoff is given up on, ...
Expired(s) == HasPending(s) /\ now - s.pending.ts > TTL

\* Mutant: an order that was not paid at the first probe is never probed again.
ProbesOnce(s) ==
    /\ HasPending(s)
    /\ ~Expired(s)
    /\ now - s.pending.ts >= MinAge
    /\ s.pending.checked = 0

\* ... or probed, if it is neither too young nor probed too recently.
Probes(s) ==
    /\ HasPending(s)
    /\ ~Expired(s)
    /\ now - s.pending.ts >= MinAge
    /\ now - s.pending.checked >= Interval

\* What a probe can answer: TN may be down (or unconfigured), or tells the truth.
Answers(s) ==
    IF Probes(s) THEN {"unreachable", drafts[s.pending.id].status} ELSE {"unasked"}

\* Mutant: an order that is no longer open counts as bought.
ReconcileNotOpen(s, answer) ==
    CASE Expired(s) -> Forget(s)
      [] answer \in {"paid", "cancelled"} -> Consume(s)
      [] answer \in {"open", "unreachable"} -> [s EXCEPT !.pending.checked = now]
      [] OTHER -> s

\* The session after reconcile_pending.  The stamp precedes the call, so a
\* probe that fails is as throttled as one that succeeds.
Reconcile(s, answer) ==
    CASE Expired(s) -> Forget(s)
      [] answer = "paid" -> Consume(s)
      [] answer = "cancelled" -> Forget(s)
      [] answer \in {"open", "unreachable"} -> [s EXCEPT !.pending.checked = now]
      [] OTHER -> s

(***************************************************************************)
(* The browser sends a request with the cookie it has.                     *)
(***************************************************************************)
Send(r, op, p, q) ==
    /\ req[r].pc = "idle"
    /\ req' = [req EXCEPT ![r] = [IdleRequest EXCEPT !.pc = "arrived", !.op = op,
                                  !.product = p, !.qty = q, !.session = jar]]
    /\ UNCHANGED <<jar, drafts, purchasable, now>>

SendView(r) == Send(r, "view", IdleRequest.product, 0) /\ UNCHANGED budget

Spend == budget > 0 /\ budget' = budget - 1

SendAdd(r) == Spend /\ \E p \in Products, q \in AddQtys : Send(r, "add", p, q)
SendUpdate(r) == Spend /\ \E p \in Products, q \in SetQtys : Send(r, "update", p, q)
SendRemove(r) == Spend /\ \E p \in Products : Send(r, "remove", p, 0)
SendPlain(r) ==
    Spend /\ \E op \in {"clear", "thanks", "checkout"} :
                Send(r, op, IdleRequest.product, 0)

(***************************************************************************)
(* The handlers.                                                           *)
(***************************************************************************)
Step(r, request) ==
    /\ req' = [req EXCEPT ![r] = request]
    /\ UNCHANGED <<jar, purchasable, now, budget>>

\* The handler goes on, with session s, to the step pc.
Continue(pc, op, s, dirty) ==
    [IdleRequest EXCEPT !.pc = pc, !.op = op, !.session = s, !.dirty = dirty]

\* The handler ends; the response carries a cookie only if the session was
\* written to.
Respond(s, dirty) ==
    Continue("answered", "view", IF dirty THEN s ELSE EmptySession, dirty)

Arrived(r, ops) == req[r].pc = "arrived" /\ req[r].op \in ops

\* /api/cart/add answers 409 when the product cannot be bought.
RefuseAdd(r) ==
    /\ Arrived(r, {"add"})
    /\ req[r].product \notin purchasable
    /\ Step(r, Respond(req[r].session, FALSE))
    /\ UNCHANGED drafts

\* The cart after the mutation that request q asks for.
Written(q, cart) ==
    CASE q.op = "add" -> AddLine(cart, q.product, q.qty)
      [] q.op = "update" -> SetLine(cart, q.product, q.qty)
      [] q.op = "remove" -> RemoveLine(cart, q.product)

\* add, set_qty and remove: settle first, then write the line.
Mutate(r) ==
    /\ Arrived(r, {"add", "update", "remove"})
    /\ req[r].op = "add" => req[r].product \in purchasable
    /\ \E answer \in Answers(req[r].session) :
         LET s == Reconcile(req[r].session, answer)
         IN Step(r, Continue("build", "view", [s EXCEPT !.cart = Written(req[r], @)], TRUE))
    /\ UNCHANGED drafts

\* /api/cart/clear empties the cart without settling; build() settles after it.
Clear(r) ==
    /\ Arrived(r, {"clear"})
    /\ Step(r, Continue("build", "view", [req[r].session EXCEPT !.cart = NoLines], TRUE))
    /\ UNCHANGED drafts

\* build(): settle, then drop the lines that cannot be bought any more.  A
\* checkout goes on to TN with the lines built unless the cart is empty.
Build(r) ==
    /\ req[r].pc = "build" \/ Arrived(r, {"view", "checkout"})
    /\ \E answer \in Answers(req[r].session) :
         LET s     == Reconcile(req[r].session, answer)
             kept  == Prune(s.cart, purchasable)
             built == [s EXCEPT !.cart = kept]
             dirty == \/ req[r].dirty
                      \/ Expired(req[r].session) \/ Probes(req[r].session)
                      \/ kept # s.cart
         IN IF req[r].op = "checkout" /\ kept # NoLines
            THEN Step(r, [Continue("handoff", "checkout", built, dirty)
                          EXCEPT !.lines = kept])
            ELSE Step(r, Respond(built, dirty))
    /\ UNCHANGED drafts

\* start_checkout ends without a draft the buyer could pay: no valid e-mail,
\* no credentials, a line TN does not know, an error of TN or no checkout URL.
FailHandoff(r) ==
    /\ req[r].pc = "handoff"
    /\ Step(r, Respond(req[r].session, req[r].dirty))
    /\ UNCHANGED drafts

\* TN creates the draft and the handoff is remembered in the session.  (Bound:
\* only while its TTL still fits in MaxTime.)
Handoff(r) ==
    /\ req[r].pc = "handoff"
    /\ now + TTL < MaxTime
    /\ \E d \in Drafts :
         /\ drafts[d].status = "none"
         /\ drafts' = [drafts EXCEPT ![d] = [status |-> "open", lines |-> req[r].lines,
                                             created |-> now]]
         /\ Step(r, Respond(Remember(req[r].session, d, req[r].session.cart), TRUE))

\* /gracias: a session with a pending handoff is taken at its word.
Thanks(r) ==
    /\ Arrived(r, {"thanks"})
    /\ IF HasPending(req[r].session)
       THEN Step(r, Respond(Consume(req[r].session), TRUE))
       ELSE Step(r, Respond(req[r].session, FALSE))
    /\ UNCHANGED drafts

(***************************************************************************)
(* The response reaches the browser, which stores the cookie it carries if *)
(* any, or never does.                                                     *)
(***************************************************************************)
Deliver(r) ==
    /\ req[r].pc = "answered"
    /\ jar' = IF req[r].dirty THEN req[r].session ELSE jar
    /\ req' = [req EXCEPT ![r] = IdleRequest]
    /\ UNCHANGED <<drafts, purchasable, now, budget>>

Lose(r) ==
    /\ req[r].pc = "answered"
    /\ Step(r, IdleRequest)
    /\ UNCHANGED drafts

(***************************************************************************)
(* TN, the catalogue and the clock.                                        *)
(***************************************************************************)
Close(d, status) ==
    /\ drafts[d].status = "open"
    /\ drafts' = [drafts EXCEPT ![d].status = status]
    /\ UNCHANGED <<jar, req, purchasable, now, budget>>

Pay(d) == Close(d, "paid")
Cancel(d) == Close(d, "cancelled")

CatalogueChange(p) ==
    /\ purchasable' = IF p \in purchasable THEN purchasable \ {p} ELSE purchasable \cup {p}
    /\ UNCHANGED <<jar, req, drafts, now, budget>>

Tick ==
    /\ now < MaxTime
    /\ now' = now + 1
    /\ UNCHANGED <<jar, req, drafts, purchasable, budget>>

Handle(r) ==
    \/ RefuseAdd(r) \/ Mutate(r) \/ Clear(r) \/ Build(r)
    \/ FailHandoff(r) \/ Handoff(r) \/ Thanks(r)

Next ==
    \/ \E r \in Slots :
         \/ SendView(r) \/ SendAdd(r) \/ SendUpdate(r) \/ SendRemove(r) \/ SendPlain(r)
         \/ Handle(r) \/ Deliver(r) \/ Lose(r)
    \/ \E d \in Drafts : Pay(d) \/ Cancel(d)
    \/ \E p \in Products : CatalogueChange(p)
    \/ Tick

Spec == Init /\ [][Next]_vars

\* The buyer keeps opening the cart, the server finishes what it started, the
\* clock advances and the network does not lose every response.
Fairness ==
    /\ WF_vars(Tick)
    /\ WF_vars(\E r \in Slots : SendView(r))
    /\ \A r \in Slots : WF_vars(Handle(r)) /\ SF_vars(Deliver(r))

FairSpec == Spec /\ Fairness

(***************************************************************************)
(* Properties.                                                             *)
(***************************************************************************)
\* Every copy of the session there is: the cookie and those of the requests.
Copies == {jar} \cup {req[r].session : r \in Slots}

\* What a session says of the handoff it tracks is what TN knows of it.
MatchesDraft(s) ==
    HasPending(s) =>
        LET draft == drafts[s.pending.id]
        IN /\ draft.status # "none"
           /\ draft.lines = s.pending.items
           /\ draft.created = s.pending.ts
           /\ s.pending.ts <= now /\ s.pending.checked <= now

\* A handoff that any copy of the session tracks is a draft order TN really
\* has, created at the time the session says, and the lines the session will
\* subtract are exactly the lines that order bills, whatever the catalogue or
\* other requests did meanwhile (remember_pending's "exactly what was bought").
HandoffMatchesDraft == \A s \in Copies : MatchesDraft(s)

\* The handoff a session tracks is one it has not settled or given up.
Unsettled(s) == HasPending(s) => s.trail[s.pending.id] = "handed"

\* No line of cookies subtracts one order twice: a session that tracks a
\* handoff has neither settled it nor given it up before, although stale
\* responses can bring an older cookie, with its pending handoff, back.
SettledAtMostOnce == \A s \in Copies : Unsettled(s)

\* The lines of d leave the session of request r in this step.
Settles(r, d) ==
    /\ req[r].session.trail[d] = "handed"
    /\ req'[r].session.trail[d] = "settled"

\* Without the buyer's own visit to /gracias, only a completed order is settled,
\* and settling it takes no more out of the cart than it billed: what was added
\* afterwards stays, whichever request settles (reconcile_pending,
\* remove_quantities, "never items added afterwards").
SettlesOnlyWhatWasPaid ==
    [][\A r \in Slots, d \in Drafts : Settles(r, d) /\ req[r].op # "thanks" =>
         /\ drafts[d].status = "paid"
         /\ \A p \in purchasable :
              \/ req[r].op \in {"update", "remove"} /\ p = req[r].product
              \/ req'[r].session.cart[p] >= req[r].session.cart[p] - drafts[d].lines[p]]_vars

\* A checkout goes on to bill the cart of a session whose tracked order was
\* already paid only while that handoff is younger than MinAge or was probed
\* (perhaps in vain) less than Interval ago: the window in which the buyer can
\* buy the same lines again is the documented throttle and nothing more.
RebillsOnlyInWindow ==
    [][\A r \in Slots :
         LET s == req'[r].session
         IN /\ req[r].pc # "handoff" /\ req'[r].pc = "handoff"
            /\ HasPending(s) /\ drafts[s.pending.id].status = "paid"
            => \/ now - s.pending.ts < MinAge
               \/ now - s.pending.checked < Interval]_vars

\* No handoff is tracked for ever: a buyer who keeps opening the cart ends with
\* a session that no longer polls TN for it, even if stale responses bring the
\* pending handoff back for a while.
TrackingEnds ==
    \A d \in Drafts : <>[](HasPending(jar) => jar.pending.id # d)
=============================================================================
