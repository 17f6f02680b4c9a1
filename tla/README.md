# Glück bags: TLA+ models of the shop

This directory models the concurrent and failure-prone parts of gluckbags.com
(the Flask application under `src/app`), checks them with TLC on small instances
and proves the central invariants with TLAPS for instances of any size.

`PROJECT.json` lists, for every definition that models code, the lines it stands
for; for every run its configuration and properties; for every property a mutated
definition that breaks it; the disagreements found between code and its own
documentation; and the hazards the properties are aimed at.

## 1. The system

There are two deployments of one code base.

* *Docker*: gunicorn with two workers of four threads, SQLite and media files on a
  volume (`DATA_DIR`), and a scheduler thread in every worker that resyncs the
  Tienda Nube catalogue.
* *Vercel*: any number of short-lived instances, Postgres (Neon), media in the
  Blob store, pages cached by Vercel's CDN, no scheduler (`TN_SYNC_ENABLED=0`);
  the mirror depends on webhooks and on a resync somebody starts by hand.

| Part | State it keeps | Operations | What makes it correct |
|---|---|---|---|
| Session cart (`cart_service`, `app/cart`) | a signed cookie: lines, pending handoff | add, update, remove, clear, view | quantities bounded, what cannot be bought is dropped, and only that |
| Checkout (`checkout_service`) | the pending handoff in the same cookie; draft orders at Tienda Nube (TN) | hand off, settle at `/gracias`, probe TN lazily | what was bought leaves the cart once, what was not stays, TN bills what was shown and is not polled without bound |
| Mirror (`catalog_sync`, `webhook_service`, `tn_scheduler`, `tiendanube_client`) | table `tienda_nube_products`, lock file, stamp | upsert and delete by webhook, full resync | one sync at a time, the mirror ends in step with TN |
| Catalogue serving (`catalog`, `catalog_cache`, `catalog_snapshot`, `page_cache`, `cdn_cache`, `routes`) | a cache per process, a snapshot in the Blob store, pages on the CDN | render, invalidate, snapshot, purge | stale or fallback content is not pinned, and always leaves in the end |
| Shop pages (`routes`, `seo`, `models/tiendanube`, `product_repository`) | none of their own | category, product, sitemap, redirects | links lead to pages that answer, the index holds what it should, the markup offers what the cart takes |
| Editable copy (`content/store`) | two cached maps, one clock, one dirty flag per process | read, write, commit, rollback | a committed text is purged and shown |
| Admin gallery (`admin`, `media_service`, `media_store*`) | rows of `product_media`, files in the store | create, edit, save, delete | rows and files agree, order and cover are right |
| Admin form and list (`admin`, `static/js/admin.js`) | the form in a browser, staged originals, the `products` table | submit, give up, retry, upload directly, drag, toggle | what is saved is what was shown, nothing stays in the staging area |
| Boot (`factory`, `seed`, `maintenance`, `entrypoint.sh`, `backup_db`) | schema, secret key, lock file, variants, backups | back up, create, seed, add a column, heal | once, whoever boots together; nothing served half done |
| Authentication (`auth`, `admin.login`) | session flag, attempts per process | login, logout, throttle | attempts bounded |
| Plumbing (`factory`, `seo`, `utils`) | none | URL canonicalisation, headers, metadata | pure functions |
| Scripts | files, databases | migration, builds | run by hand |

How they interact: the cart prunes by `catalog.is_purchasable`, which reads the
serving path; webhooks and resyncs write the mirror and call `_after_write`, which
invalidates the cache of their own process, writes the snapshot and purges the
CDN; the content store purges the same CDN; the gallery writes to the store that
also holds the snapshot. There is no shared memory between processes: they meet in
the database, the store, the CDN, Tienda Nube and the browser's cookie.

The hard behaviour is in five places: cookies that travel with requests and come
back in any order; writers that read, wait on HTTP and commit what they read;
caches filled by reads that began before a write; files and rows that are not
changed in one transaction; and everything that fails between two of those steps.

## 2. Modules

| Module | Models | Composes or extends |
|---|---|---|
| `CartLines` | the pure operations on cart lines (`cart_service`) | |
| `CartCheckout` | one browser session: cookie, requests in flight, handoff, TN's draft orders, clock | extends `CartLines` |
| `SyncTurns` | what the resync scheduler promises: workers take turns, only a committed turn ends the interval | abstract specification |
| `MirrorSync` | the mirror and all its writers, TN's listing and notifications, lock and stamp | implements `SyncTurns` (`Turns == INSTANCE SyncTurns WITH ...`) |
| `CatalogueServing` | table, caches, snapshot, pages, CDN, `_after_write` | abstracts a commit of `MirrorSync` to a version number |
| `ShopCatalogue` | one product on its way to a page: TN's payload, the row, the detached snapshot, the view of a template, and what listings make of many (pure operators) | |
| `Storefront` | pages, links and sitemap, cart and handoff, over whichever catalogue serves them | extends `ShopCatalogue` |
| `ContentCache` | `CachingTextStore` with its readers and editors | |
| `Gallery` | rows and files of one product and the requests that change them | |
| `ProductList` | the legacy products and the page that lists, drags and toggles them | |
| `ProductForm` | the form of a product in the browser, its submissions and the handlers that serve them | extends `ProductList` |
| `Backups` | the snapshots of the database that each start takes, and their pruning | |
| `Boot` | the start of the container: backup, then workers that boot together and are killed | extends `Backups` |
| `*_proofs` | the theorems of section 5 | each extends its module |
| `MC*` | the small sets and symmetries of the runs | each extends its module |

Definitions keep the names of the code where TLA+ allows it. Definitions whose
comment starts with "Mutant" are the broken variants used to see that each
property can fail; nothing in a specification uses them.

### CartCheckout

The server keeps nothing, so the session is a value: `jar` is the browser's
cookie, and `req[r].session` is the copy request `r` was sent with. A handler is
one action up to each call to TN, the only thing it waits for: `Mutate` or
`Clear`, then `Build` (which settles again and prunes), then `Handoff` or
`FailHandoff`. `Deliver` stores the response's cookie if the handler wrote to the
session, `Lose` drops it. `Reconcile` is `reconcile_pending` with its early
returns; what TN answers is any of `Answers`. `Pay` and `Cancel` are TN's: a draft
can be paid even if the response that carried its URL never reached the browser,
because TN mails the buyer of an abandoned cart. Quantities above the cap are
among the inputs (`AnyAdd`), as are updates of products that are not in the cart.
A history rides on the cookie for the properties: `trail`, what this line of
cookies has done with each order. No action reads it.

### MirrorSync

`store` is what TN says, `hooks` the notifications it has still to deliver; a
handler that answers anything but 2xx leaves its notification in `hooks`. Each
writer loads rows, waits on TN, and commits against the table as it is by then:
`Upserted` writes the columns that differ from those loaded, `Conflicts` is
SQLAlchemy's refusal. `ReadPage` reads TN's listing by position, in ascending id
order, as it is at that moment. `RowIds` is free, which covers both databases:
SQLite gives keys again, Postgres does not; keys are interchangeable, so the first
one is fixed. A crash or an abandoned sync releases the lock, because the kernel
does. `Phase` maps a worker's sync to a turn of `SyncTurns`: what a worker has
read, waits for or has committed is not part of it. Not modelled: a row key given to *another*
product's row, and the refresh of `row.tn_id` after the commit.

### CatalogueServing

The table is the number of commits it has seen, and whatever is read from it
carries that number. `Visit` and its steps are one page: how many times it reads
the catalogue, that a product page looks its product up first (`cached_by_id`,
which does not ask whether the cache is degraded), and that the request is marked
when a read falls back or finds the cache degraded. `Then` is the order of
`_after_write`. `Restart` kills an instance with whatever it was doing. Threads of
one instance share its cache (`Home`). `wrote` and the fields `late`, `raced` and
`beside` are histories: they remember that a request had read the table when its
cache was invalidated, that the cache changed between a degraded hit and the question
whether it is degraded, and that a write was committed while another one was about to
save rows it had scanned before.

### ContentCache

One process. Reading and keeping are separate steps because the lock is released
between them; the write, the commit and each assignment of `commit()` are separate
because nothing is held there at all. Any number of editors share the flag, and a
purge may fail without anybody noticing (`PurgeFails`). Each map has the age of its
own reading beside the one clock of the code, counted in ticks up to `Ttl`. `robbed`
and `unpurged` are histories: whose flag another editor has reset, and whether the
last purge failed or was skipped for that.

### Gallery

An item is the random directory name of its files, which identifies its row too.
The steps of a save are those of `_apply_media`: `Load`, `Unlink` for each dropped
item, `Publish` or `Reject`, `Commit`. `Commit` writes the columns that differ and
is refused when a row it updates is gone, or, with foreign keys enforced
(Postgres), when the product is. `Remote` chooses between the store that moves a
directory and the one that puts files one by one. Abstractions: one new file per
save, one product id (given again on SQLite, never on Postgres), and the deletion
of a product reads its rows and commits in one step. A second request with the
same form covers the retry after a timeout in `admin.js`. `torn` is a history: the items
that a save had deleted or published when it failed to commit, or that a sweep of
`products/<id>` found or left.

### ProductList and ProductForm

`kind[f]` is what the server will find of a file: fine, a name it refuses, bytes it
cannot read, or too large. The form keeps the tiles as the owner arranged them; a
submission posts the tiles as tokens and the files apart, numbered in the order
they were sent (`buildPayload` in `admin.js`), and the server puts them together
again (`_parse_tokens`, `_apply_media`). `direct` is the other way files travel:
staged in the object store first, named in the post, deleted by the save. A
submission is a request record at the server with one step per thing it waits for;
the browser gives up on it after its time limit, the server does not notice, and
the form can be submitted again. The product row is committed before its media,
as in `product_create`. In `ProductList` a drag posts the whole order and two can
be served at once; a commit writes the columns that differ from what was loaded.

Orders are said by what they are and not by how they are computed, so that they can
be proved about: `Listed` is the enumeration of the products in which each one is
before the next, `Galleries` the set of the enumerations of a product's media by
position (SQL leaves the order of equal positions open), and `Only(s, S)` the
elements of `s` in `S`, the n-th having n - 1 of them before it. `MCProductForm` has
TLC compare `Only` with `SelectSeq` on every short sequence.

### ShopCatalogue and Storefront

A name is a value and `Slug` a function on names, which need not be injective: two
spellings share a slug. Prices keep their centavos up to `WholePesos`, with
Python's rounding, because `BilledAsShown` is about it. `Current` is
`_published_snapshots`: the cache, else the table, else the snapshot. `Status` and
`Links` say for every page what it answers and which pages it links to;
`Sitemap` and `NoIndex` what is indexed. `Write` commits a row of the mirror here
or in another process (which leaves this one's cache as it is); `Switch` is the
rollback to the legacy table, `Outage` the database's. What a call to TN or a read of
the mirror raises and `start_checkout` does not catch ends in a 500, the outcome
"error". `doubt` is a history: the products that have not been for sale all along.
Abstractions: the mirror is
in step with TN (`MirrorSync` says how it gets there), one visitor whose requests
come one after another (`CartCheckout` has the concurrent ones), a page reads the
catalogue once (`CatalogueServing` has several reads), an image is its URL, and
labels, `html_to_text` and the wording of metadata are left out.

### Backups and Boot

A start is the only step that needs every worker down; it takes the backup and then
lets all workers boot. Each step of a worker is what no other worker can come
between: reading the key file, emptying it, writing it; looking for tables,
creating one; counting products, publishing the seed's picture, committing it; for
each picture listing its directory, choosing a variant, putting it. A killed worker
forgets everything (`Started`), and the kernel releases its lock. While some
workers boot, those that are up serve the owner, who creates and deletes products:
the backfill runs beside that. Pictures are kept under `products/<id>/<directory>`:
`pid` is the id each directory was made for, `NextId` the id SQLite gives next, which
is that of the last product once it is deleted, and `SweepFiles` removes whatever is
under the id of the deleted product. `late` is a history: pictures made under an id
whose sweep was still to come. A random key or directory name is one nobody has,
so any such value stands for it. Backups count starts for seconds.

## 3. Runs

A run that finds a violation checks one sentence that the repository says of
itself and that the code does not keep; `findings` quotes it. All other runs pass.

| Run | Checks | What it shows |
|---|---|---|
| `cart_safety` | `TypeOK`, `HandoffMatchesDraft`, `SettledAtMostOnce`, `SettlesOnlyWhatWasPaid`, `RebillsOnlyInWindow` | two requests at once, two orders, every order of responses |
| `cart_liveness` | `TrackingEnds` | no order is polled for ever, whatever stale cookies come back |
| `mirror` | `TakesTurns`, `StaysInStep`, `MirrorConverges` | two workers, webhooks, edits while the listing is read, one failure anywhere; the refinement of `SyncTurns` (the types are proved, `TypeCorrect`) |
| `serving` | `ListingsNeverFallback`, `InvalidationReachesTheWriter`, `SnapshotBeforePurge`, `EventuallyFresh` | two threads of one process, both of which write while one serves pages, one failure |
| `serving_fallback` | `NoFallbackPinned` fails | a product page from the snapshot is pinned |
| `storefront` | `LinksResolve`, `SitemapIsTheIndex`, `OffersCanBeBought`, `ForSaleStaysInCart`, `BilledAsShown`, `CheckoutAnswered` | every catalogue of the instance, from every source, with outages, rollbacks and stale copies |
| `content` | `CommittedIsPurged`, `MapsWithinTtl`, `EventuallyShown` | two editors that share the flag, one reader, a purge that fails |
| `gallery` | `TypeOK`, `GalleryInOrder`, `RowsAndFilesAgree`, `NewRowsHaveFiles` | two requests of any kind, any posted order of three items, Blob and Postgres, one failure |
| `gallery_lost_photos` | `PhotosKept` fails | files deleted before a commit that raises |
| `admin_form` | `TypeOK`, `NoStrayOriginals`, `DuplicatesNeedAFailure`, `SavedAsShown`, `NewProductsLast`, `ReorderedAsDropped` | a form with two new files and one old one, submitted twice, beside the list page |
| `deploy` | `TypeOK`, `SeededOnce`, `ServesWithSchema`, `HealedBeforeServing`, `RollbackPossible`, `OfferedAvifStays`, `AllComeUp` | two workers, two starts, a fresh or an old volume, an owner who creates and deletes, one fault |
| `deploy_key` | `SessionsOutliveRestarts` fails | two workers mint two keys on a fresh volume, with no failure at all |

Deadlock is checked except where the system really may stop: in
`gallery` and `gallery_lost_photos` the product may be deleted and its
one id never comes back; in `admin_form` the owner leaves the form and has no
request left for the list; in `deploy` and `deploy_key` all workers may be up with no start, fault
or product left to change, and workers that read the key file while another one was
writing it hold an empty key, with which they cannot sign a session.

### What the instances leave out on purpose

Some properties hold of the instance of their run because of how the code is
deployed there, and not of every instance. Changing the named constant shows it:

* `MirrorConverges` needs a runner: with `Runners = {}` (Vercel, where nobody
  starts the resync) two notifications of one product handled at once can leave the
  older fetch in the mirror for ever.
* `NewRowsHaveFiles` needs `Postgres = TRUE`: SQLite gives the id of a deleted
  product to the next one, whose directory the late sweep of the deletion empties.
* `SeededOnce` and `ServesWithSchema` need `LockPossible = TRUE`. Without a lock two
  workers both find no products, and a worker that loses the race for the first
  table gives up the creation of the second one and goes on.

### Where code and documentation disagree

Three runs end in a violation: `serving_fallback`, `gallery_lost_photos` and
`deploy_key`. The other disagreements have no run of their own. Where a property
touches one, it names the disagreement as its only exception, so that the run shows
both that it happens (dropping the exception violates the property) and that nothing
else does:

* `content/store.py:33` caches "its two read maps for `ttl` seconds". A reload of
  `as_map` restarts the clock both share, so `previous_map` can be returned when it is
  older (`MapsWithinTtl`).
* `content/store.py:15`: `commit()` "drops the cache and purges the CDN tag". A purge
  that fails is only logged (`cdn_cache.py` lines 60 to 90), and with two editors the
  first commit resets the one flag of the process, so that the second one neither
  drops nor purges (`CommittedIsPurged`).
* `catalog_sync.py:27`: the snapshot is written before the purge so that the CDN cannot
  "revalidate against a snapshot that is still the old one". Two writes that overlap
  can save in the other order (`SnapshotBeforePurge`).
* `admin/__init__.py:483` deletes the row first and the files after, so that no live
  product loses its photos. On SQLite the id is free once the row is gone
  (`models/product.py:19` has no AUTOINCREMENT), and a product created before
  the sweep has its pictures under the same `products/<id>`: the sweep takes them
  (`OfferedAvifStays`, `HealedBeforeServing`, and in `Gallery` `RowsAndFilesAgree`).
* `cart_service.py:5` drops a line whose product was "unpublished, deleted or had its
  price cleared". In an outage with nothing cached and no readable snapshot every line
  goes, and one whose product was put on sale after the copy at hand was taken
  (`ForSaleStaysInCart`).
* `routes.py:104`: the home page avoids "linking an empty (noindex) category". The card
  of a curated category is a link when a product has a name of its slug, but
  `category_page` compares names: when the products carry another spelling, the page
  that answers is empty (`LinksResolve` is about answers).
* `cart/__init__.py:115` and the docstring of `start_checkout` give a clear status for
  whatever goes wrong. A database that does not answer when the variants are resolved,
  and what `requests` raises when TN does not answer, are not caught: the answer is a
  500 (outcome "error"; `CheckoutAnswered` counts it as an answer).
* `tiendanube_client.py:108` has interactive paths pass `max_retries=0`;
  `build_client_from_env` passes nothing, so a checkout that is rate limited waits for
  the default retries (`Limited`).

### What else the models show

Behaviour that is visible in the models and that contradicts no document:

* Cart: a second checkout replaces the tracked order, so that the lines of the first
  stay in the cart when it is the one that is paid. A line removed and added again
  after the handoff is subtracted with the purchase (`SettlesOnlyWhatWasPaid` is
  about quantities). Two tabs can each probe TN within one interval, since each
  looks at the time in its own cookie (`checkout_service.py` lines 240 to 242).
* Mirror: a product deleted in TN while its listing is read shifts another one off
  the pages, which the sync prunes until the next one. The loser of two inserts of
  one product answers 500 and is delivered again.
* Storefront: a product that is newer than the cache is served, but the category in
  its breadcrumb may not exist in the cache yet; `LinksResolve` names the exception
  (`Newer`). A product with several variants shows the cheapest and bills the first,
  hence the condition of `BilledAsShown`. An id that nobody knows is answered 500
  during an outage.
* Admin: a submission that was given up and arrives late deletes what its retry
  saved, if it loaded the rows after the retry committed. Two quick drags merge
  column by column. A save whose product was deleted meanwhile ends on a form
  that creates a product. A stale form publishes a product again that the list has just hidden.
* Serving: a request that read the table before a write of its own process can keep
  what it read after the invalidation, until the cache expires
  (`InvalidationReachesTheWriter` names it).
* Gallery: two saves that loaded the same rows merge column by column, and the rows
  of the later one need not be in order (`GalleryInOrder` names it).
* Boot: a worker killed after it emptied the key file, before it wrote it, leaves it
  empty for good: every later worker comes up and can sign nobody in. What a killed
  seed left in the media store stays there.

### Bounds

* Carts: `MaxQty` 2 keeps the cap reachable. `MinAge` 1, `Interval` 2 and `TTL` 3
  keep the order of 120 s, 300 s and 48 h; `Epoch` is at least `Interval`, as the
  real clock is, so a handoff never probed counts as due. `MaxTime` lets a handoff
  be made, probed twice and expire. A handoff is made only while its time to live
  fits in `MaxTime`, so that every one can expire. `MaxRequests` counts only
  requests that are not reads, which are unlimited.
* Mirror: two products are what pruning one of them takes, two values tell old
  from new. One column stands for the row. `MaxChanges` 2 is an edit and a second
  one that overtakes it. `MaxFaults` 1 is one failure at any point. Pages of one
  product, so that the listing changes between two of them.
* Serving: two writes that overlap are what saving out of order takes; two threads
  share the cache of one process, and the second only writes, which is what the first
  one's pages can be overtaken by. `MaxFaults` 1 is one outage, restart, failed put or
  failed purge. (A second process adds only a cache no invalidation reaches, which
  expires like one that was filled late.)
* Storefront: four names with two slugs, one of them curated, are the ways two
  spellings can meet; five payloads cover on sale, draft, no stock control, sold out
  with an unreadable price, and no variant; two products and one legacy product, in
  every combination. One write makes a cache stale, two faults are an outage and a
  rollback. `RelatedLimit` 1 cuts the list.
* Content: `Ttl` 2 separates "young", "old" and "too old"; two editors and two commits
  are what robbing a flag takes, one reader fills both maps, one purge fails.
* Gallery: three items and orders of up to two tokens allow a repeat, an omission, a
  save that drops one item, keeps one and adds one, and positions 0 to 2; two requests
  are two saves of one form, a save beside a deletion, or a deletion beside the
  creation that gets the id. Two files per item are enough to be half there.
* Admin form: two files, of which one may be anything, and one medium that is
  already there, give every order of tiles and every pattern of refusal; two
  submissions are one retry. Four product ids leave room for two duplicates; one
  request of the list page at a time meets each step of a save.
* Boot: two workers are what a race takes; two tables, of which an old volume has
  one; two widths, so that a picture can be half healed; two seed directories, so
  that a seed can be drawn twice; ids up to 3, so that an id is given again
  beside another product; two starts with `Keep` 1, where pruning could
  remove the only backup; one kill or failure at any step.

### Fairness

* `CartCheckout`: the clock ticks, a buyer keeps opening the cart (`GET /api/cart`,
  which builds it and settles; the badge of a page only counts the cookie's lines and
  settles nothing), a handler that started ends (every call to TN has a timeout),
  and the network does not lose *every* response (strong fairness of `Deliver`:
  losses disable it again and again). Nothing is assumed of buyers' other
  requests, of payment or of TN.
* `MirrorSync`: the scheduler thread wakes for ever (`start_scheduler` loops and
  swallows exceptions), a sync that runs and a handler that runs end, time passes,
  TN delivers what it has not given up on. Failures need no fairness; they are
  finitely many.
* `CatalogueServing`: requests end, caches and pages age; a page is asked for
  infinitely often if it can be (strong, because an instance can be busy with other
  pages). `Recovery` is not assumed: `EventuallyFresh` speaks of runs in which
  Postgres stays up in the end.
* `ContentCache`: requests end, time passes, pages are asked for. An editor that
  never comes to its commit is allowed.
* `Boot`: Docker starts what stopped (`restart: unless-stopped`), and a worker that
  boots goes on (weak fairness of `StartContainer` and of each worker's `BootStep`).
  The kernel wakes whoever waits for the lock: with finitely many kills and a
  holder that goes on, weak fairness is enough, since each worker takes it at most
  once per boot.
* `Storefront`: a checkout that resolved its lines goes on, and a call to TN ends
  with an answer, a limit or a timeout (`Resolve`, `Post`).
* `Gallery`, `ProductList` and `ProductForm` have no liveness: an aborted save is
  not resumed by anything.

## 4. Properties

Each property is stated in the comment above its definition. Why the ones that are
not obvious hold:

* `SettledAtMostOnce` holds although stale cookies bring settled handoffs back,
  because the cart they bring back is the one *before* the settlement: within any
  line of cookies an order is subtracted once.
* `RebillsOnlyInWindow` makes precise what the throttle costs: a paid cart can be
  billed again, but only within `_RECONCILE_MIN_AGE` of the handoff or
  `_RECONCILE_INTERVAL` of a probe (which may have failed).
* `SettlesOnlyWhatWasPaid` compares quantities: whatever request settles, each line
  shrinks by at most what the order billed, unless that request writes that line.
* `TakesTurns` is the abstract specification itself: one turn at a time, a scheduled
  one only when due, and no turn that was given up ends the interval.
* `MirrorConverges` needs the scheduler and a catalogue that is not empty, since
  `sync_products` takes an empty listing for an error.
* `StaysInStep` is what `MirrorConverges` is made of, step by step: from when the owner
  edits nothing more and what is on its way is current (`Current`), no writer, failure
  or late notification takes a mirror in step out of it, and a resync that nobody
  wrote beside brings it in step. A listing cut short by one page breaks it.
* `ListingsNeverFallback` holds because a page without a lookup checks `is_degraded`
  after every hit; the check is a second look at the cache, so the property names what
  may come between. `NoFallbackPinned` is the same claim for product pages, which do
  not check.
* `CommittedIsPurged` has the editors share one flag: it is enough that the flag was
  not reset between an editor's last write and its commit, because a commit that finds
  it set purges for every commit before it.
* `LinksResolve` rests on what makes a category exist: a category page answers when a
  published product has a name of that slug or somebody curates it, and links are
  made of the same catalogue, except where `get_by_id` looks past the cache.
* `SitemapIsTheIndex` ties two routes that never call each other: the sitemap lists a
  category exactly if its page is left in the index.
* `ForSaleStaysInCart` is about time: whatever copy of the catalogue a request is
  served from was taken when the product was for sale, unless the product has not been
  for sale all along; and what the copy lacks is looked up in the table. That leaves
  the outage with no copy at all.
* `RowsAndFilesAgree` holds however saves overlap, because a directory name belongs to
  one save: only a save that does not commit, or a sweep, parts row and files.
* `NewRowsHaveFiles` holds across failures because publication precedes the row.
* `SavedAsShown` crosses the browser and the server: the numbers given to files by
  `admin.js`, the refused files skipped by the server and the positions of the
  tokens have to fit. It is about saves that no other save interferes with.
* `NoStrayOriginals` and `DuplicatesNeedAFailure` count failures: an original stays,
  or a creation happens twice, only as often as something failed.
* `SeededOnce` holds although a seed can be killed between its picture and its row,
  because the count of products and the insert are in one critical section;
  `ServesWithSchema` holds although `create_all` gives up at the first table that
  another worker has made meanwhile, because under the lock no other worker makes
  one.
* `HealedBeforeServing` and `OfferedAvifStays` hold beside an owner who deletes and
  creates products while a worker heals, because a deletion removes the row first and
  a directory is drawn for one picture. Ids are not: SQLite gives the id of the last
  product again, and a sweep that comes after the next creation takes its pictures,
  which both properties except (`late`).

## 5. Proofs

Checked by TLAPS for every value of the constants that satisfies the named
assumptions.

* `CartCheckout_proofs` (`TimeAssumption`, `QtyAssumption`, `ProductsAssumption`,
  `NoPendingAssumption`, `MaxQtyAssumption`): `TypeCorrect`, `HandoffSafety`,
  `SettlementSafety`, `SettlementIsPaid` and, with `Interval > 0`,
  `RebillsAreThrottled`. The first two properties already speak of every copy of the session,
  which is nearly what makes them inductive: a handler works on a copy, a response
  replaces one copy by another. What has to be added is that a request on its way
  to TN with the lines it built has those very lines in its session's cart, so that
  the draft `Handoff` creates bills what `Remember` notes. One lemma per handler
  shows that it maps a good session to a good session, and one that the steps of
  TN and of the clock keep good sessions good. An order that billed nothing would
  make `Consume` empty the cart, so `SettlementIsPaid` needs in addition that every
  draft bills something (`DraftsBill`, `HandoffsBill`); and because a settlement is
  read off a step that changes a slot's session, that an idle slot holds none
  (`SlotsStartAnew`). With an interval of 0 between probes `RebillsAreThrottled`
  does not follow: a probe that just failed is due again in the same instant.
* `MirrorSync_proofs` (`MirrorAssumption`, `RowAssumption`): `TypeCorrect`, and,
  where a lock is possible, `Implements` (MirrorSync implements `SyncTurns`: every
  step is a step of taking turns, or a stutter) and the invariant under it,
  `SyncsOncePerInterval`. The abstract specification says nothing of a lock, so the
  invariant adds that it is held exactly by the worker that syncs (`LockHeld`), that
  an unforced sync in progress is still due (`DueHeld`), and, for the types, that a
  handler about to upsert has a product TN returned (`PayloadHeld`). `MirrorStays`, the
  safe half of `MirrorConverges`, with a lock or without one: it adds that TN's
  notifications name products it has had, deletions those that are gone for good
  (`News`), so that no deletion on its way removes a product TN still has; and that
  the pages of a listing that does not change are the listing (`Pages`: positions are
  cardinalities, so the products of the pages read are those up to a position, and
  after the last page all of them). `RowAssumption` says that the two values of a
  product TN does not have are different and no product.
* `Gallery_proofs` (`GalleryAssumption`, `NoRowAssumption`): `TypeCorrect`, whose
  content is that whatever order is posted the positions stay within the gallery
  (an item is never before itself, so fewer than all items are before it), and
  `NewRowsPublished` with Postgres. The invariant of both says that a drawn directory name
  belongs to one request and to no row, and was loaded by nobody (`OwnName`,
  `Unused`), so no other request deletes its files; that only loaded items are
  dropped (`DropsLoaded`); that the product of a pending sweep is gone for good
  (`Swept`, `Born`); and that what a request is about to insert is complete
  (`Complete`). `FilesFollowRows`, for any number of requests on either store and
  database: an item that no failure or sweep has touched either agrees, or a request in
  progress has undone just that and its commit will make it right (`Owed`). `SavesKeepOrder`,
  that is `GalleryInOrder`: a commit whose rows are still the ones it loaded
  numbers all of them, since its new item is mentioned in the order. That the numbers
  have no gap is a matter of counting: the place of an item is how many items are
  first mentioned before it, a rank, and ranks by a number that nobody shares are an
  injection of n items into 0..n-1, therefore onto it (`Ranks`, `PlacesContiguous`).
* `CatalogueServing_proofs` (`ServingAssumption`): `TypeCorrect`, `ListingsAreMarked`,
  `WritersSeeTheirWrites` and `SnapshotsPrecedePurges`, for any number of processes,
  threads and writers. The invariants say what a page in progress knows of the cache
  it has read (a degraded hit finds the cache degraded when it asks, or was overtaken:
  `Marked`), that what an instance is about to keep was read after its last
  invalidation or is known to be late (`FillsNew`), and that the scan a writer holds is
  at least as new as its own commit and as every commit that was not made beside it
  (`SavedInTurn`).
* `ContentCache_proofs` (`ContentAssumption`): `TypeCorrect`; `NeverTooOld`, because
  the clock the two maps share never runs behind what `as_map` keeps, nor behind the
  previous texts unless `as_map` was read after them (`OneClock`); `CommitsPurge` for
  any number of editors, because the dirty flag is still set when a committing editor
  looks at it, or it was robbed of it (`Flagged`).
* `Boot_proofs` (`BootAssumption`, `BackupAssumption`): all six safety properties of
  `deploy`. With a lock: exactly the worker inside `_initialize_schema` holds it
  (`Exclusion`), whoever is about to seed has found no product (`SeedOnEmpty`), and
  what a worker has still to create is what is not there (`TablesMade`). With or
  without one: a directory that is committed is in no other worker's hands, an id
  belongs to one product at a time, so that a pending sweep meets only what was deleted
  or made late, and what is listed keeps its JPEGs (`Custody`); and what a healing
  worker believes of the picture in hand is true (`HealProgress`), from which `Healed`
  and `AvifKept` follow; stamps number the backups (`Stamped`), so that fewer than
  `Keep` are newer than a complete one that is younger than `Keep` starts
  (`RollbackKept`).
* `Storefront_proofs` (`CatalogueAssumption`, `StorefrontAssumption`): `TypeCorrect`
  and the five safety properties of the run, for any catalogue. The argument is about
  one operator: a slug has a name exactly if it is a curated one or a product on show
  has it (`NameFound`; that there is an earliest product to take the name from is the
  well-foundedness of the naturals). Then each kind of page is taken in turn:
  its chips, cards, breadcrumb and redirects are pages (`LinksFollow`), and what
  `category_page` leaves in the index is what the sitemap adds (`IndexFollows`). A
  snapshot survives being written and read (`RoundTrip`). The invariant adds that a
  cache keeps published products only (`CachePublished`) and that the price on a
  screen is the one made of the payload it came from (`ScreenTrue`); a product of one variant has that
  variant's price (`OnlyPrice`), rounded to the nearest peso (`Rounding`). For
  `StaysInCart` it adds that every copy anybody holds of the mirror, the cached one and
  the saved one, has what has been for sale all along (`Stocked`).

* `ProductForm_proofs` (`ListAssumption`, `FormAssumption`): all six safety properties
  of the run, by three invariants on top of each other.

  `OneProductPerForm`, that is `DuplicatesNeedAFailure`. Counting products is not
  inductive, so `IInv` counts what the form has made or may yet make (`Claims`): each
  product that was added, each creation on its way, and a page that can still send one
  (`MaySend`). A step gives one claim for another, or spends a failure (`OneForOne`).
  What has to be excluded is that a creation makes its product and still answers with
  an error although nothing failed: its commit cannot be refused, because nobody else
  knows the product yet, so it has no media to lose (`OwnProduct`).

  `FormTypes`. The types are not inductive either: positions are computed from an
  order by looking elements up, and a lookup has a place only if what is looked up is
  there. `Types` adds that no order, page or gallery names anything twice (`Distinct`)
  and that a toggle has loaded the row it toggles. From it follow two properties of
  single steps. `DragsHold`: the places of a dropped order are their numbers, a
  finite set has at most one enumeration that rises in a linear order (`Sorting`), and
  the dropped order is one. `CreatedLast`: the highest position of a table is the
  position of one of its products and at least that of each (`NextPositionLast`).

  `NoStrays` and `SavesHold` need to know what a submission carries from the browser
  to its commit (`Carries`): the tokens still to be taken are the last ones of the
  tiles as they were shown, the media put in order so far are those of the names taken
  without the refused files (`Named`, `InOrder`), what was loaded is of its product
  and none of it is of the files it brings (`ReadFrom`, `OwnMedia`), an original is
  staged only for a file that a submission is still sending or that its tiles name
  (`Uploads`). `Left` are the originals whose token was taken, or whose
  save was answered: they are at most as many as the failures (`FewLeft`), because
  taking a token deletes its original or spends one. When the last token is taken
  nothing is awaited, so the answered saves' originals are among `Left`, and the
  order of the save is exactly what the owner was shown (`AllTaken`), whose places
  the commit writes (`SavedRow`), which leaves one gallery (`OneGallery`).

Induction over data is out of the prover's reach, but what the form needs of sequences
is about finite sets of numbers: a set of naturals that is not empty has a least member
(from `NatLessThanWellFounded` and `WFMin`), an injection between finite sets of one
size is onto, and the number of a place is a cardinality (`Counts`).

Only model-checked: all liveness (`TrackingEnds`, `MirrorConverges`, `EventuallyFresh`,
`EventuallyShown`, `AllComeUp`, `CheckoutAnswered`), for the prover has neither fairness
nor `ENABLED`, and the three runs that find a violation. Every safety property that a
passing run checks is a theorem of section 5, under the assumptions named there.

## 6. Not modelled, and the plan

Left out for good: encodings of pictures and videos, templates, wording of metadata
and labels, the request plumbing of `factory` (stateless string handling), the
sitecopy package (seen only through the calls the store wraps), one-off scripts and
the migration (run by hand with the site stopped; note that a truncation of
`products` alone cascades to their media), `src/relevamiento-seo-gluckbags-com`
(reports), and the content registry, which is data. They have no state of their own
or are not in the repository. The login throttle is a dictionary per process; what
it promises is a number of attempts per worker, and it is not modelled.

Planned, in this order:

1. The listing cache of the Blob store and `url_for`, next to `Gallery`.
2. A `Settlement` that says what the buyer is promised (an order is open, then
   settled or given up, once), implemented by `CartCheckout`; a `Mirror` whose only
   step is "some product takes a value TN has had", implemented by `MirrorSync`.
3. The migration, as a copy that is interrupted and run again.
