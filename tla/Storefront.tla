------------------------------ MODULE Storefront ------------------------------
(***************************************************************************)
(* What a visitor of the shop can reach and buy: the pages and the sitemap *)
(* (routes.py, seo.py and the links of the templates), the cart            *)
(* (services/cart_service.py, cart/__init__.py) and the handoff of the     *)
(* cart to Tienda Nube (services/checkout_service.py and the client's      *)
(* request loop), over whichever catalogue serves them: the mirror, the    *)
(* copy of it this process caches, the snapshot that stands in for it when *)
(* the database is down, or, after a rollback, the legacy table.           *)
(*                                                                         *)
(* The mirror is taken to be in step with Tienda Nube (MirrorSync says how *)
(* it gets there), and the visitor sends one request at a time             *)
(* (CartCheckout has the concurrent ones).                                 *)
(***************************************************************************)
EXTENDS ShopCatalogue

CONSTANTS
    TnIds,       \* ids of products in Tienda Nube
    LegacyIds,   \* ids of the legacy table
    Payloads,    \* what Tienda Nube may say of a product
    LegacyTables,\* what the legacy table may hold
    StaticPages, \* the keys of routes.STATIC_PAGES
    NoRow,       \* the mirror has no row with that id
    NoCache,     \* the process holds no fresh copy of the catalogue
    MaxRetries,  \* retries of a request that is rate limited
    MaxWrites,   \* bound: writes of the mirror
    MaxFaults    \* bound: outages and switches of the source

LegacyRow == [published: BOOLEAN, category: Names \cup {NoName}, price: Nat \cup {NoPrice},
              media: Seq(Sources), position: Nat]

\* Tienda Nube's ids have nine digits.
ASSUME StorefrontAssumption ==
    /\ TnIds \subseteq Nat /\ LegacyIds \subseteq Nat /\ TnIds \cap LegacyIds = {}
    /\ Payloads \subseteq Payload
    /\ NoRow \notin {RowOf(p) : p \in Payloads} /\ NoRow \notin Payloads
    /\ \A t \in LegacyTables : DOMAIN t \subseteq LegacyIds /\ \A i \in DOMAIN t : t[i] \in LegacyRow
    /\ MaxRetries \in Nat /\ MaxWrites \in Nat /\ MaxFaults \in Nat

VARIABLES
    source,    \* CATALOG_SOURCE
    mirror,    \* the table tiendanube_products
    doubt,     \* history: ids the mirror has not had for sale all along
    legacy,    \* the table products
    up,        \* the database answers
    snapshot,  \* the document in the Blob store
    cache,     \* the published catalogue as this process caches it
    cart,      \* the ids in the session's cart
    screen,    \* what the cart last showed: id -> product
    request,   \* the POST /checkout being served, or how the last one ended
    writes, faults

shopVars == <<source, mirror, doubt, legacy, up, snapshot, cache>>
vars == <<shopVars, cart, screen, request, writes, faults>>

Ids == TnIds \cup LegacyIds
Remote == source = "tiendanube"

(***************************************************************************)
(* The facade of services/catalog.py.                                      *)
(***************************************************************************)
Published(table) == {i \in DOMAIN table : table[i] # NoRow /\ table[i].published}
Snapshots(table) == [i \in Published(table) |-> SnapshotOf(table[i])]

\* load(), and the filter on it.
Fallback ==
    LET loaded == Deserialize(snapshot)
    IN  [i \in {j \in DOMAIN loaded : loaded[j].published} |-> loaded[i]]

\* _published_snapshots: what a read returns, and leaves cached.
Current ==
    IF cache # NoCache THEN cache ELSE IF up THEN Snapshots(mirror) ELSE Fallback

ReadCatalogue == cache' = IF Remote THEN Current ELSE cache

\* Reading the legacy table needs the database; the mirror has its fallback.
Readable == Remote \/ up

\* get_published.
Listed ==
    IF Remote THEN [i \in DOMAIN Current |-> MirrorView(i, Current[i])]
    ELSE [i \in {j \in DOMAIN legacy : legacy[j].published} |-> LegacyView(legacy[i])]

\* Mutant: only the legacy table is looked up.
UnlistedLegacy == IF Remote THEN {} ELSE DOMAIN legacy

\* get_by_id: what is not listed is looked up in the table, where it may be
\* unpublished, or newer than the cache.
Unlisted ==
    IF Remote THEN IF up THEN {i \in DOMAIN mirror : mirror[i] # NoRow} ELSE {}
    ELSE DOMAIN legacy
Found(i) == i \in DOMAIN Listed \cup Unlisted
ById(i) ==
    IF i \in DOMAIN Listed THEN Listed[i]
    ELSE IF Remote THEN MirrorView(i, mirror[i]) ELSE LegacyView(legacy[i])

(***************************************************************************)
(* Pages, the answer each gives and the links it shows.                    *)
(***************************************************************************)
Home == <<"home">>
StaticPage(k) == <<"page", k>>
CategoryPage(s) == <<"category", s>>
ProductPage(i) == <<"product", i>>

Footer == {Home} \cup {StaticPage(k) : k \in StaticPages}
Pages == Footer \cup {CategoryPage(s) : s \in Slugs} \cup {ProductPage(i) : i \in Ids}

Shown(i) == Found(i) /\ ById(i).published
Cards(ids) == {ProductPage(i) : i \in ids}
Chips == {CategoryPage(Slug[n]) : n \in PublishedCategories(Listed)}

\* product_detail: the id of a legacy product leads to its category.
LegacySlug(i) ==
    IF i \in DOMAIN legacy /\ legacy[i].category # NoName THEN {Slug[legacy[i].category]} ELSE {}

\* Mutant: the redirect does not check that the category still exists.
RedirectsUnchecked(i) == LegacySlug(i)

Redirects(i) == {s \in LegacySlug(i) : NameForSlug(Listed, s) # NoName}

ProductStatus(i) ==
    IF ~Readable THEN 500
    ELSE IF Shown(i) THEN 200
    ELSE IF ~Remote THEN 404
    ELSE IF ~up THEN 500
    ELSE IF Redirects(i) # {} THEN 301 ELSE 404

\* The breadcrumb, on the page and in the markup.
Crumb(i) ==
    IF ById(i).category = NoName THEN {} ELSE {CategoryPage(Slug[ById(i).category])}
ProductTrail(i) == {Home, ProductPage(i)} \cup Crumb(i)

ProductLinks(i) ==
    IF Shown(i)
    THEN ProductTrail(i) \cup Chips \cup Cards(Related(Listed, i, ById(i).category))
    ELSE {CategoryPage(s) : s \in Redirects(i)}

CategoryStatus(s) ==
    IF ~Readable THEN 500 ELSE IF NameForSlug(Listed, s) # NoName THEN 200 ELSE 404

OnCategory(s) == ByCategory(Listed, NameForSlug(Listed, s))
CategoryTrail(s) == {Home, CategoryPage(Slug[NameForSlug(Listed, s)])}
CategoryLinks(s) == CategoryTrail(s) \cup Chips \cup Cards(OnCategory(s))

\* The cards of the curated categories, which are links if a category of that
\* slug has products, and the grid.
CategoryCards == {CategoryPage(Slug[n]) : n \in Curated} \cap Chips
HomeLinks == CategoryCards \cup Cards(DOMAIN Listed)

\* The pages without products need nothing of the catalogue.
Status(p) ==
    CASE p[1] = "page" -> 200
      [] p[1] = "home" -> IF Readable THEN 200 ELSE 500
      [] p[1] = "category" -> CategoryStatus(p[2])
      [] p[1] = "product" -> ProductStatus(p[2])

Links(p) ==
    Footer \cup
    CASE p[1] = "page" -> {}
      [] p[1] = "home" -> HomeLinks
      [] p[1] = "category" -> CategoryLinks(p[2])
      [] p[1] = "product" -> ProductLinks(p[2])

\* Mutant: no exemption for curated categories.
NoIndexEmpty(p) == p[1] = "category" /\ OnCategory(p[2]) = {}

\* category_page: a category that nobody curates leaves the index while empty.
CuratedSlugs == {Slug[n] : n \in Curated}
NoIndex(p) == p[1] = "category" /\ OnCategory(p[2]) = {} /\ p[2] \notin CuratedSlugs

Sitemap ==
    Footer \cup {CategoryPage(s) : s \in CuratedSlugs} \cup Chips \cup Cards(DOMAIN Listed)

(***************************************************************************)
(* The cart and the handoff.                                               *)
(***************************************************************************)
Idle == [pc |-> "idle", outcome |-> "refused"]

\* An answer with the address to pay at, another one with its reason, or the 500 of
\* an exception that start_checkout does not catch.
Outcomes == {"ready", "refused", "error"}
VariantIds == UNION {{p.variants[k].id : k \in DOMAIN p.variants} : p \in Payloads}
Requests == [pc: {"idle"}, outcome: Outcomes]
            \cup [pc: {"resolve"}, items: SUBSET Ids]
            \cup [pc: {"post"}, lines: UNION {[S -> VariantIds] : S \in SUBSET TnIds},
                  attempt: 0..MaxRetries]

Rows == {RowOf(p) : p \in Payloads}
Tables == [TnIds -> Rows \cup {NoRow}]
Copies == UNION {[S -> {SnapshotOf(r) : r \in Rows}] : S \in SUBSET TnIds}
Line == [price: Nat, raw: Payloads \cup {NoRow}]

CatalogueTypeOK ==
    /\ source \in {"tiendanube", "admin"}
    /\ mirror \in Tables
    /\ doubt \subseteq Ids
    /\ legacy \in LegacyTables
    /\ up \in BOOLEAN
    /\ snapshot = Unreadable \/ Deserialize(snapshot) \in Copies
    /\ cache \in Copies \cup {NoCache}

TypeOK ==
    /\ CatalogueTypeOK
    /\ cart \subseteq Ids
    /\ DOMAIN screen \subseteq Ids /\ \A i \in DOMAIN screen : screen[i] \in Line
    /\ request \in Requests
    /\ writes \in 0..MaxWrites /\ faults \in 0..MaxFaults

ForSale(i) == i \in TnIds /\ mirror[i] # NoRow /\ IsPurchasable(MirrorView(i, mirror[i]))

\* The snapshot may be missing, or left by another version of the code.
Init ==
    /\ source \in {"tiendanube", "admin"}
    /\ mirror \in Tables
    /\ doubt = {i \in Ids : ~ForSale(i)}
    /\ legacy \in LegacyTables
    /\ up = TRUE
    /\ snapshot \in {Unreadable, Serialize(Snapshots(mirror))}
    /\ cache = NoCache
    /\ cart = {} /\ screen = <<>>
    /\ request = Idle
    /\ writes = MaxWrites /\ faults = MaxFaults

(***************************************************************************)
(* The catalogue.                                                          *)
(***************************************************************************)
\* A webhook or a resync commits, and _after_write runs: in this process or in
\* another one, whose invalidation this one does not notice.  Saving may fail.
Write(i, row) ==
    /\ up /\ writes > 0 /\ row # mirror[i]
    /\ mirror' = [mirror EXCEPT ![i] = row]
    /\ doubt' = doubt \cup {j \in Ids : ~ForSale(j)'}
    /\ cache' \in {NoCache, cache}
    /\ snapshot' \in {Serialize(Snapshots(mirror')), snapshot}
    /\ writes' = writes - 1
    /\ UNCHANGED <<source, legacy, up, cart, screen, request, faults>>

\* The cache outlives CATALOG_CACHE_TTL.
Expire ==
    /\ cache # NoCache
    /\ cache' = NoCache
    /\ UNCHANGED <<source, mirror, doubt, legacy, up, snapshot, cart, screen,
                   request, writes, faults>>

\* Postgres refuses connections, and answers again.
Outage ==
    /\ up /\ faults > 0
    /\ up' = FALSE /\ faults' = faults - 1
    /\ UNCHANGED <<source, mirror, doubt, legacy, snapshot, cache, cart, screen,
                   request, writes>>
Recover ==
    /\ ~up
    /\ up' = TRUE
    /\ UNCHANGED <<source, mirror, doubt, legacy, snapshot, cache, cart, screen,
                   request, writes, faults>>

\* A deploy switches to the mirror, or back: the session's cart outlives it.
Switch ==
    /\ request.pc = "idle" /\ faults > 0
    /\ source' = IF Remote THEN "admin" ELSE "tiendanube"
    /\ faults' = faults - 1
    /\ cache' = NoCache
    /\ UNCHANGED <<mirror, doubt, legacy, up, snapshot, cart, screen, request, writes>>

\* Any page of the catalogue.
Visit ==
    /\ Remote /\ cache = NoCache
    /\ ReadCatalogue
    /\ UNCHANGED <<source, mirror, doubt, legacy, up, snapshot, cart, screen,
                   request, writes, faults>>

(***************************************************************************)
(* The cart's requests.                                                    *)
(***************************************************************************)
\* build: a line that cannot be bought leaves the session.
Buyable(i) == Found(i) /\ IsPurchasable(ById(i))
Built(ids) == {i \in ids : Buyable(i)}

Raw(i) == IF ~Remote THEN NoRow
          ELSE IF i \in DOMAIN Current THEN Current[i].raw ELSE mirror[i].raw
Shows(ids) == [i \in Built(ids) |-> [price |-> ById(i).price, raw |-> Raw(i)]]

ViewCart ==
    /\ request.pc = "idle" /\ Readable
    /\ cart' = Built(cart) /\ screen' = Shows(cart)
    /\ ReadCatalogue
    /\ UNCHANGED <<source, mirror, doubt, legacy, up, snapshot, request, writes, faults>>

\* What cannot be bought is answered 409, and the cart is not built.
Add(i) ==
    /\ request.pc = "idle" /\ Readable
    /\ IF Buyable(i) THEN cart' = Built(cart \cup {i}) /\ screen' = Shows(cart \cup {i})
       ELSE UNCHANGED <<cart, screen>>
    /\ ReadCatalogue
    /\ UNCHANGED <<source, mirror, doubt, legacy, up, snapshot, request, writes, faults>>

\* from_env: the environment is read anew for each request.
Credentials == {"TN_STORE_ID", "TN_ACCESS_TOKEN"}
Configured(env) == Credentials \subseteq env

\* start_checkout, up to the lines it has to resolve.
End(outcome) == request' = [pc |-> "idle", outcome |-> outcome]
StartCheckout(email, env) ==
    /\ request.pc = "idle" /\ Readable
    /\ cart' = Built(cart)
    /\ IF Built(cart) # {} /\ email /\ Configured(env)
       THEN request' = [pc |-> "resolve", items |-> Built(cart)]
       ELSE End("refused")
    /\ ReadCatalogue
    /\ UNCHANGED <<source, mirror, doubt, legacy, up, snapshot, screen, writes, faults>>

\* mirror_variant_resolver, for every line: the mirror as it is now, whatever
\* the source.  That it cannot be read is not caught.
Variants(i) == IF i \in TnIds /\ mirror[i] # NoRow THEN mirror[i].variants ELSE <<>>
Resolve ==
    /\ request.pc = "resolve"
    /\ IF ~up THEN End("error")
       ELSE IF \E i \in request.items : Variants(i) = <<>> THEN End("refused")
       ELSE request' = [pc |-> "post", attempt |-> 0,
                        lines |-> [i \in request.items |-> Variants(i)[1].id]]
    /\ UNCHANGED <<shopVars, cart, screen, writes, faults>>

\* Mutant: the count of attempts starts again after the last one.
LimitedForEver ==
    /\ request.pc = "post"
    /\ request' = [request EXCEPT !.attempt = IF @ < MaxRetries THEN @ + 1 ELSE 0]
    /\ UNCHANGED <<shopVars, cart, screen, writes, faults>>

\* _request: a call that is rate limited sleeps and is tried again.
Limited ==
    /\ request.pc = "post"
    /\ IF request.attempt < MaxRetries
       THEN request' = [request EXCEPT !.attempt = @ + 1]
       ELSE End("refused")
    /\ UNCHANGED <<shopVars, cart, screen, writes, faults>>

\* What Tienda Nube charges for a line, if it still sells the variant.
Billed(i) == {v.price : v \in {w \in Range(Variants(i)) : w.id = request.lines[i]}}

\* Tienda Nube makes the draft order, or it refuses or sends no address; what the
\* network raises (no answer in time, no connection) is not caught.
Answered(outcome) ==
    /\ request.pc = "post"
    /\ outcome = "ready" => \A i \in DOMAIN request.lines : Billed(i) # {}
    /\ End(outcome)
    /\ UNCHANGED <<shopVars, cart, screen, writes, faults>>

Post == Limited \/ \E o \in Outcomes : Answered(o)

Next ==
    \/ \E i \in TnIds, r \in Rows \cup {NoRow} : Write(i, r)
    \/ Expire \/ Outage \/ Recover \/ Switch \/ Visit \/ ViewCart
    \/ \E i \in Ids : Add(i)
    \/ \E e \in BOOLEAN, env \in SUBSET Credentials : StartCheckout(e, env)
    \/ Resolve \/ Post

Spec == Init /\ [][Next]_vars

\* The thread that serves a request goes on with it, and a call has a timeout.
FairSpec == Spec /\ WF_vars(Resolve) /\ WF_vars(Post)

(***************************************************************************)
(* Properties.                                                             *)
(***************************************************************************)
\* A product on show that the catalogue's copy in this process does not have
\* yet: it was published after the copy was taken.
Newer(i) == Shown(i) /\ i \notin DOMAIN Listed

\* Every link of a page that answers leads to a page that answers, in
\* whatever way the catalogue is being served, and so does every redirect of
\* an old address and every line of the sitemap.  The one exception is the
\* breadcrumb of a product newer than the cache: nothing in the copy has its
\* category yet (routes.product_detail, category_page, sitemap).
LinksResolve ==
    /\ \A p \in Pages : Status(p) \in {200, 301} =>
         \A l \in Links(p) :
            \/ Status(l) = 200
            \/ p[1] = "product" /\ Newer(p[2]) /\ l \in Crumb(p[2])
            \/ ~Readable
    /\ Readable => \A l \in Sitemap : Status(l) = 200

\* The sitemap lists what may be indexed, and nothing else: the categories it
\* adds are those category_page leaves in the index.  Again a product newer
\* than the cache is missing until the cache expires.
SitemapIsTheIndex ==
    Readable =>
        \A p \in Pages :
            p \in Sitemap <=> /\ Status(p) = 200 /\ ~NoIndex(p)
                             /\ ~(p[1] = "product" /\ Newer(p[2]))

\* The markup of a product page says InStock exactly when the cart takes the
\* product, and what the cart takes can be handed to Tienda Nube, unless the
\* mirror has changed since the copy on show was taken (seo.product_jsonld,
\* catalog.is_purchasable, checkout_service.mirror_variant_resolver).
OffersCanBeBought ==
    \A i \in Ids : Status(ProductPage(i)) = 200 =>
        /\ Offer(ById(i)) = "InStock" <=> Buyable(i)
        /\ Remote /\ Buyable(i) /\ mirror[i] # NoRow /\ mirror[i].raw = Raw(i) => Variants(i) # <<>>

\* The copy that stands in for the mirror in an outage has nothing in it.
NothingSaved == ~up /\ DOMAIN Current = {}

\* A product that has been for sale all along is not dropped from a cart: not by a
\* stale or degraded cache, not by a copy that was saved before the last writes, and
\* not by an outage, unless there is no copy at all (cart_service.build,
\* catalog.get_by_id).  One that was put on sale, repriced from nothing or restocked
\* may be: the copies lag behind.
ForSaleStaysInCart ==
    [][\A i \in cart \ cart' :
          IF Remote THEN i \in doubt \/ NothingSaved
          ELSE i \notin DOMAIN legacy \/ ~IsPurchasable(LegacyView(legacy[i]))]_vars

\* What Tienda Nube charges for a line is what the cart last showed for it, up
\* to the rounding to whole pesos, if the product has one variant and has not
\* changed since (models/tiendanube.apply_payload, StorefrontProduct.price,
\* mirror_variant_resolver).
BilledAsShown ==
    [][request.pc = "post" /\ request'.pc = "idle" /\ request'.outcome = "ready" =>
          \A i \in DOMAIN request.lines \cap DOMAIN screen :
             Raw(i) = screen[i].raw /\ mirror[i] # NoRow /\ mirror[i].raw = screen[i].raw
             /\ Len(Variants(i)) = 1 =>
                \A price \in Billed(i) :
                   price - 100 * screen[i].price \in -50..50]_vars

\* A checkout is always answered: rate limits are waited out only so often
\* (TiendaNubeClient._request).
CheckoutAnswered == request.pc # "idle" ~> request.pc = "idle"
=============================================================================
