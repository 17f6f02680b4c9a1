---------------------------- MODULE ShopCatalogue ----------------------------
(***************************************************************************)
(* One product on its way to a page: the payload Tienda Nube sends, the    *)
(* row of the mirror made from it (models/tiendanube.py), the detached     *)
(* snapshot of the row that the cache and the Blob store hold              *)
(* (services/catalog_snapshot.py), what the templates see of it            *)
(* (services/catalog.py), and what the listings and the markup make of     *)
(* many of those (repositories/product_repository.py, seo.py).             *)
(*                                                                         *)
(* A product on show is a record with its place in the grid; a catalogue   *)
(* is a function from ids to such records.  Prices are centavos in         *)
(* Tienda Nube and whole pesos on the site.                                *)
(***************************************************************************)
EXTENDS Integers, FiniteSets, Sequences, Functions, FiniteSetsExt

CONSTANTS
    Names,        \* names of categories, as typed on products
    NoName,       \* the product has no category
    Curated,      \* the names of routes.CATEGORIES
    Slugs,        \* slugs of URLs
    Slug,         \* Slug[n] is slugify(n)
    Sources,      \* URLs of images
    RelatedLimit  \* products a product page recommends

\* Two names may differ only in case or accents, and then share a slug.
ASSUME CatalogueAssumption ==
    /\ NoName \notin Names
    /\ Curated \subseteq Names
    /\ Slug \in [Names -> Slugs]
    /\ \A m, n \in Curated : Slug[m] = Slug[n] => m = n
    /\ RelatedLimit \in Nat

\* Not set or not a number (prices), not managed (stock).
NoPrice == -1
Garbled == -2
Unmanaged == -1

Variant == [id: Nat, price: Nat \cup {NoPrice, Garbled}, stock: Nat \cup {Unmanaged}]
Image == [src: Sources, position: Nat]
Payload == [published: BOOLEAN, category: Names \cup {NoName},
            variants: Seq(Variant), images: Seq(Image)]

(***************************************************************************)
(* The row.                                                                *)
(***************************************************************************)
\* _lowest_price: what does not parse as a number counts as infinite.
LowestPrice(variants) ==
    LET prices == {variants[k].price : k \in DOMAIN variants} \ {NoPrice}
        numbers == prices \ {Garbled}
    IN  IF prices = {} THEN NoPrice
        ELSE IF numbers = {} THEN Garbled ELSE Min(numbers)

\* _total_stock: one variant that is not managed makes the product unlimited.
TotalStock(variants) ==
    IF \E k \in DOMAIN variants : variants[k].stock = Unmanaged
    THEN Unmanaged
    ELSE SumFunction([k \in DOMAIN variants |-> variants[k].stock])

\* apply_payload.
RowOf(payload) ==
    [published |-> payload.published, category |-> payload.category,
     price |-> LowestPrice(payload.variants), stock |-> TotalStock(payload.variants),
     variants |-> payload.variants,
     images |-> [k \in DOMAIN payload.images |-> payload.images[k].src],
     raw |-> payload]

\* from_row.
SnapshotOf(row) ==
    [published |-> row.published, category |-> row.category,
     price |-> row.price, stock |-> row.stock,
     variants |-> row.variants, images |-> row.images, raw |-> row.raw]

(***************************************************************************)
(* The document in the Blob store.  Unreadable is one that is not there,   *)
(* does not parse, or was written under another SNAPSHOT_VERSION.          *)
(***************************************************************************)
SnapshotVersion == 1
Unreadable == [version |-> 0, products |-> {}]

\* to_dict: the object carries its id.
ToDict(id, snapshot) == <<id, snapshot>>

Serialize(snapshots) ==
    [version |-> SnapshotVersion,
     products |-> {ToDict(i, snapshots[i]) : i \in DOMAIN snapshots}]

\* from_dict.
FromDict(data) ==
    [published |-> data.published, category |-> data.category,
     price |-> data.price, stock |-> data.stock,
     variants |-> data.variants, images |-> data.images, raw |-> data.raw]

\* deserialize, load.
Deserialize(document) ==
    IF document.version # SnapshotVersion THEN <<>>
    ELSE [i \in {entry[1] : entry \in document.products} |->
             FromDict((CHOOSE entry \in document.products : entry[1] = i)[2])]

(***************************************************************************)
(* What a template sees of a product.                                      *)
(***************************************************************************)
\* Mutant: int(float(price)).
Truncated(price) == IF price \in {NoPrice, Garbled} THEN NoPrice ELSE price \div 100

\* int(round(float(price))): Python rounds half to even.
WholePesos(price) ==
    IF price \in {NoPrice, Garbled} THEN NoPrice
    ELSE LET pesos == price \div 100
             rest == price % 100
         IN  IF rest > 50 \/ (rest = 50 /\ pesos % 2 = 1) THEN pesos + 1 ELSE pesos

\* _media: by position, and by order of arrival where positions repeat.
ByPosition(images) ==
    LET Place(k) == Cardinality({j \in DOMAIN images :
                        \/ images[j].position < images[k].position
                        \/ images[j].position = images[k].position /\ j =< k})
    IN  [n \in DOMAIN images |-> images[CHOOSE k \in DOMAIN images : Place(k) = n].src]

\* Not managed is not sold out.
InStock(row) == row.stock = Unmanaged \/ row.stock > 0

\* StorefrontProduct: of a row or of a snapshot.
MirrorView(id, row) ==
    [published |-> row.published, category |-> row.category,
     price |-> WholePesos(row.price),
     inStock |-> InStock(row),
     media |-> IF row.raw.images # <<>> THEN ByPosition(row.raw.images) ELSE row.images,
     place |-> id]

\* Product: the legacy table has no stock.
LegacyView(product) ==
    [published |-> product.published, category |-> product.category,
     price |-> product.price, inStock |-> TRUE,
     media |-> product.media, place |-> product.position]

\* Mutant: stock is not looked at.
PublishedAndPriced(view) == view.published /\ view.price # NoPrice

IsPurchasable(view) == view.published /\ view.price # NoPrice /\ view.inStock

\* product_jsonld: no price, no offer.
Offer(view) ==
    IF view.price = NoPrice THEN "none"
    ELSE IF view.inStock THEN "InStock" ELSE "OutOfStock"

(***************************************************************************)
(* What is made of a catalogue.                                            *)
(***************************************************************************)
\* The order of the grid.
Before(catalogue, i, j) ==
    \/ catalogue[i].place < catalogue[j].place
    \/ catalogue[i].place = catalogue[j].place /\ i < j

PublishedCategories(catalogue) ==
    {catalogue[i].category : i \in DOMAIN catalogue} \ {NoName}

ByCategory(catalogue, name) == {i \in DOMAIN catalogue : catalogue[i].category = name}

\* get_related: those of the same category first.
Related(catalogue, i, category) ==
    LET others == DOMAIN catalogue \ {i}
        Same(j) == catalogue[j].category = category /\ category # NoName
        Earlier(j, k) == IF Same(j) = Same(k) THEN Before(catalogue, j, k) ELSE Same(j)
    IN  {k \in others : Cardinality({j \in others : Earlier(j, k)}) < RelatedLimit}

\* _category_name_for_slug: the curated names, then those on products, in the
\* order of the grid.
NameForSlug(catalogue, slug) ==
    LET curated == {n \in Curated : Slug[n] = slug}
        holders == {i \in DOMAIN catalogue :
                       catalogue[i].category # NoName /\ Slug[catalogue[i].category] = slug}
    IN  IF curated # {} THEN CHOOSE n \in curated : TRUE
        ELSE IF holders = {} THEN NoName
        ELSE catalogue[CHOOSE i \in holders :
                          \A j \in holders \ {i} : Before(catalogue, i, j)].category
=============================================================================
