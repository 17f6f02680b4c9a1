--------------------------- MODULE Storefront_proofs ---------------------------
(***************************************************************************)
(* Proofs about Storefront for any catalogue, any names and slugs, and any *)
(* number of products, writes, outages and switches of the source.         *)
(*                                                                         *)
(* That links resolve and that the sitemap is the index follow from the    *)
(* types of the state alone: both speak of one moment, and the pages, the  *)
(* links and the sitemap of that moment are made of one copy of the        *)
(* catalogue, Listed.  The copy matters for its categories only, so the    *)
(* key lemma is NameFound: a slug has a name exactly when a curated name   *)
(* or a product on show has it.                                            *)
(*                                                                         *)
(* That a product for sale all along stays in the carts is about time, and *)
(* needs an invariant: every copy anybody holds of the mirror has it       *)
(* (Stocked).                                                              *)
(***************************************************************************)
EXTENDS Storefront, TLAPS, WellFoundedInduction

-----------------------------------------------------------------------------
(***************************************************************************)
(* Catalogues.                                                             *)
(***************************************************************************)
LEMMA Smallest ==
    ASSUME NEW S, S \subseteq Nat, S # {}
    PROVE  \E m \in S : \A n \in S : m =< n
<1> DEFINE R == {p \in Nat \X Nat : p[1] < p[2]}
<1>1. IsWellFoundedOn(R, Nat)
  BY NatLessThanWellFounded DEF OpToRel
<1>2. \E m \in S : \A n \in S : ~(<<n, m>> \in R)
  <2> HIDE DEF R
  <2> QED
    BY <1>1, WFMin
<1>3. \A n, m \in Nat : n < m => <<n, m>> \in R
  OBVIOUS
<1>4. PICK m \in S : \A n \in S : ~(<<n, m>> \in R)
  BY <1>2
<1>5. ASSUME NEW n \in S PROVE m =< n
  <2>1. ~(n < m)
    BY <1>3, <1>4
  <2> QED
    BY <2>1
<1> QED
  BY <1>5

\* The grid has a first product in any part of it.
LEMMA FirstOfGrid ==
    ASSUME NEW C, DOMAIN C \subseteq Nat, \A i \in DOMAIN C : C[i].place \in Nat,
           NEW S, S \subseteq DOMAIN C, S # {}
    PROVE  \E i \in S : \A j \in S \ {i} : Before(C, i, j)
<1> DEFINE Places == {C[i].place : i \in S}
<1>1. PICK m \in Places : \A n \in Places : m =< n
  <2>1. Places \subseteq Nat /\ Places # {}
    OBVIOUS
  <2> HIDE DEF Places
  <2> QED
    BY <2>1, Smallest
<1> DEFINE Front == {i \in S : C[i].place = m}
<1>2. PICK i \in Front : \A j \in Front : i =< j
  <2>1. Front \subseteq Nat /\ Front # {}
    BY <1>1
  <2> HIDE DEF Front
  <2> QED
    BY <2>1, Smallest
<1>3. ASSUME NEW j \in S \ {i} PROVE Before(C, i, j)
  <2>1. C[i].place = m /\ m =< C[j].place /\ C[j].place \in Nat /\ m \in Nat
    BY <1>1, <1>2
  <2>2. CASE C[j].place = m
    <3>1. i =< j /\ i \in Nat /\ j \in Nat
      BY <1>2, <2>2
    <3> QED
      BY <2>1, <2>2, <3>1 DEF Before
  <2>3. CASE C[j].place # m
    BY <2>1, <2>3 DEF Before
  <2> QED
    BY <2>2, <2>3
<1> QED
  BY <1>2, <1>3

\* The names under which products are on show.
Typed(C) ==
    /\ DOMAIN C \subseteq Nat
    /\ \A i \in DOMAIN C : C[i].place \in Nat /\ C[i].category \in Names \cup {NoName}

\* _category_name_for_slug finds a name exactly when there is one, it has that
\* slug, and unless it is curated some product on show has it.
LEMMA NameFound ==
    ASSUME NEW C, Typed(C), NEW s
    PROVE  /\ NameForSlug(C, s) # NoName <=>
                s \in CuratedSlugs \cup {Slug[n] : n \in PublishedCategories(C)}
           /\ NameForSlug(C, s) # NoName =>
                /\ NameForSlug(C, s) \in Names
                /\ Slug[NameForSlug(C, s)] = s
                /\ s \in CuratedSlugs \/ ByCategory(C, NameForSlug(C, s)) # {}
<1> DEFINE named == {n \in Curated : Slug[n] = s}
<1> DEFINE holders == {i \in DOMAIN C : C[i].category # NoName /\ Slug[C[i].category] = s}
<1> DEFINE first == CHOOSE i \in holders : \A j \in holders \ {i} : Before(C, i, j)
<1>0. NameForSlug(C, s) = IF named # {} THEN CHOOSE n \in named : TRUE
                          ELSE IF holders = {} THEN NoName ELSE C[first].category
  BY DEF NameForSlug
<1>1. /\ s \in CuratedSlugs <=> named # {}
      /\ s \in {Slug[n] : n \in PublishedCategories(C)} <=> holders # {}
  BY DEF CuratedSlugs, PublishedCategories
<1>2. CASE named # {}
  <2>1. NameForSlug(C, s) \in named
    BY <1>0, <1>2
  <2> QED
    BY <1>1, <1>2, <2>1, CatalogueAssumption
<1>3. CASE named = {} /\ holders # {}
  <2>1. first \in holders
    <3>1. \E i \in holders : \A j \in holders \ {i} : Before(C, i, j)
      <4>1. holders \subseteq DOMAIN C
        OBVIOUS
      <4> HIDE DEF holders
      <4> QED
        BY <1>3, <4>1, FirstOfGrid DEF Typed
    <3> HIDE DEF holders
    <3> QED
      BY <3>1
  <2>2. NameForSlug(C, s) = C[first].category
    BY <1>0, <1>3
  <2> HIDE DEF first
  <2> QED
    BY <1>1, <1>3, <2>1, <2>2, CatalogueAssumption DEF ByCategory, Typed
<1>4. CASE named = {} /\ holders = {}
  BY <1>0, <1>1, <1>4
<1> QED
  BY <1>2, <1>3, <1>4

-----------------------------------------------------------------------------
(***************************************************************************)
(* Types.  Two facts are not types and have to be carried along: what a    *)
(* process caches is published, and what the cart shows is the price made  *)
(* of the payload it remembers.                                            *)
(***************************************************************************)
CachePublished == cache # NoCache => \A i \in DOMAIN cache : cache[i].published

ScreenTrue ==
    \A i \in DOMAIN screen : screen[i].raw # NoRow =>
        screen[i].price = WholePesos(LowestPrice(screen[i].raw.variants))

IInv == TypeOK /\ CachePublished /\ ScreenTrue

LEMMA LowestPriceType ==
    ASSUME NEW variants \in Seq(Variant)
    PROVE  LowestPrice(variants) \in Nat \cup {NoPrice, Garbled}
<1> DEFINE prices == {variants[k].price : k \in DOMAIN variants} \ {NoPrice}
<1> DEFINE numbers == prices \ {Garbled}
<1>1. ASSUME NEW k \in DOMAIN variants PROVE variants[k].price \in Nat \cup {NoPrice, Garbled}
  <2>1. variants[k] \in Variant
    OBVIOUS
  <2> QED
    BY <2>1 DEF Variant
<1>2. numbers \subseteq Nat
  BY <1>1
<1>3. CASE prices # {} /\ numbers # {}
  <2>1. Min(numbers) \in numbers
    <3> HIDE DEF numbers
    <3>1. \E m \in numbers : \A n \in numbers : m =< n
      BY <1>2, <1>3, Smallest
    <3> QED
      BY <3>1 DEF Min
  <2>2. LowestPrice(variants) = Min(numbers)
    BY <1>3 DEF LowestPrice
  <2> HIDE DEF numbers
  <2> QED
    BY <1>2, <2>1, <2>2
<1>4. CASE prices = {} \/ numbers = {}
  BY <1>4 DEF LowestPrice
<1> QED
  BY <1>3, <1>4

LEMMA WholePesosType ==
    ASSUME NEW price \in Nat \cup {NoPrice, Garbled}
    PROVE  WholePesos(price) \in Nat \cup {NoPrice}
<1>1. CASE price \in {NoPrice, Garbled}
  BY <1>1 DEF WholePesos
<1>2. CASE price \in Nat /\ price \notin {NoPrice, Garbled}
  <2>1. price \div 100 \in Nat /\ price % 100 \in Nat
    BY <1>2
  <2> QED
    BY <1>2, <2>1 DEF WholePesos
<1> QED
  BY <1>1, <1>2

\* A row says what its payload says.
LEMMA RowTypes ==
    ASSUME NEW r \in Rows
    PROVE  /\ r.raw \in Payloads /\ r.raw \in Payload
           /\ r.published \in BOOLEAN
           /\ r.category \in Names \cup {NoName}
           /\ r.variants = r.raw.variants /\ r.variants \in Seq(Variant)
           /\ r.price = LowestPrice(r.raw.variants)
           /\ r.price \in Nat \cup {NoPrice, Garbled}
           /\ r # NoRow
<1>1. PICK p \in Payloads : r = RowOf(p)
  BY DEF Rows
<1>2. p \in Payload /\ p.variants \in Seq(Variant)
  BY StorefrontAssumption DEF Payload
<1>3. LowestPrice(p.variants) \in Nat \cup {NoPrice, Garbled}
  BY <1>2, LowestPriceType
<1>4. r # NoRow
  BY <1>1, StorefrontAssumption
<1> QED
  BY <1>1, <1>2, <1>3, <1>4 DEF RowOf, Payload

\* A snapshot says what its row says.
LEMMA SnapshotTypes ==
    ASSUME NEW C \in Copies, NEW i \in DOMAIN C
    PROVE  /\ i \in TnIds
           /\ \E r \in Rows : C[i] = SnapshotOf(r)
           /\ C[i].raw \in Payloads
           /\ C[i].published \in BOOLEAN
           /\ C[i].category \in Names \cup {NoName}
           /\ C[i].price = LowestPrice(C[i].raw.variants)
           /\ C[i].price \in Nat \cup {NoPrice, Garbled}
<1>1. PICK S \in SUBSET TnIds : C \in [S -> {SnapshotOf(r) : r \in Rows}]
  BY DEF Copies
<1>2. PICK r \in Rows : C[i] = SnapshotOf(r)
  BY <1>1
<1> QED
  BY <1>1, <1>2, RowTypes DEF SnapshotOf

LEMMA SnapshotsTypes ==
    ASSUME NEW t \in Tables
    PROVE  /\ Snapshots(t) \in Copies
           /\ \A i \in DOMAIN Snapshots(t) : Snapshots(t)[i].published
<1>1. Published(t) \in SUBSET TnIds /\ \A i \in Published(t) : t[i] \in Rows /\ t[i].published
  BY DEF Published, Tables
<1>2. Snapshots(t) \in [Published(t) -> {SnapshotOf(r) : r \in Rows}]
  BY <1>1 DEF Snapshots
<1> QED
  BY <1>1, <1>2 DEF Copies, Snapshots, SnapshotOf

\* What is read from the Blob store is what was written there.
LEMMA RoundTrip ==
    ASSUME NEW C \in Copies
    PROVE  Deserialize(Serialize(C)) = C
<1>1. PICK S \in SUBSET TnIds : C \in [S -> {SnapshotOf(r) : r \in Rows}]
  BY DEF Copies
<1> DEFINE products == {<<i, C[i]>> : i \in S}
<1>2. Serialize(C) = [version |-> SnapshotVersion, products |-> products]
  BY <1>1 DEF Serialize, ToDict
<1>3. Deserialize(Serialize(C)) =
        [i \in {entry[1] : entry \in products} |->
            FromDict((CHOOSE entry \in products : entry[1] = i)[2])]
  BY <1>2 DEF Deserialize
<1>4. {entry[1] : entry \in products} = S
  <2>1. \A i \in S : <<i, C[i]>> \in products /\ <<i, C[i]>>[1] = i
    OBVIOUS
  <2>2. \A entry \in products : entry[1] \in S
    OBVIOUS
  <2> HIDE DEF products
  <2> QED
    BY <2>1, <2>2
<1>5. ASSUME NEW i \in S PROVE FromDict((CHOOSE entry \in products : entry[1] = i)[2]) = C[i]
  <2>1. (CHOOSE entry \in products : entry[1] = i) = <<i, C[i]>>
    <3>1. <<i, C[i]>> \in products /\ \A entry \in products : entry[1] = i => entry = <<i, C[i]>>
      OBVIOUS
    <3> QED
      BY <3>1
  <2>2. PICK r \in Rows : C[i] = SnapshotOf(r)
    BY <1>1
  <2>3. FromDict(SnapshotOf(r)) = SnapshotOf(r)
    BY DEF FromDict, SnapshotOf
  <2> QED
    BY <2>1, <2>2, <2>3
<1> HIDE DEF products
<1> QED
  BY <1>1, <1>3, <1>4, <1>5

LEMMA UnreadableIsEmpty == DOMAIN Deserialize(Unreadable) = {}
BY DEF Deserialize, Unreadable, SnapshotVersion

LEMMA FallbackTypes ==
    ASSUME CatalogueTypeOK
    PROVE  Fallback \in Copies /\ \A i \in DOMAIN Fallback : Fallback[i].published
<1> DEFINE loaded == Deserialize(snapshot)
<1> DEFINE shown == {j \in DOMAIN loaded : loaded[j].published}
<1>1. Fallback = [i \in shown |-> loaded[i]]
  BY DEF Fallback
<1>2. shown \subseteq TnIds /\ \A i \in shown : loaded[i] \in {SnapshotOf(r) : r \in Rows}
  <2>1. CASE snapshot = Unreadable
    BY <2>1, UnreadableIsEmpty
  <2>2. CASE loaded \in Copies
    <3> HIDE DEF loaded
    <3> QED
      BY <2>2, SnapshotTypes
  <2> QED
    BY <2>1, <2>2 DEF CatalogueTypeOK
<1>3. \A i \in shown : loaded[i].published
  OBVIOUS
<1> HIDE DEF loaded, shown
<1> QED
  BY <1>1, <1>2, <1>3 DEF Copies

LEMMA CurrentTypes ==
    ASSUME CatalogueTypeOK, CachePublished
    PROVE  Current \in Copies /\ \A i \in DOMAIN Current : Current[i].published
<1>1. CASE cache # NoCache
  BY <1>1 DEF Current, CatalogueTypeOK, CachePublished
<1>2. CASE cache = NoCache /\ up
  BY <1>2, SnapshotsTypes DEF Current, CatalogueTypeOK
<1>3. CASE cache = NoCache /\ ~up
  BY <1>3, FallbackTypes DEF Current
<1> QED
  BY <1>1, <1>2, <1>3

\* What is listed is published, and has a place and a category.
LEMMA ListedTypes ==
    ASSUME CatalogueTypeOK, CachePublished
    PROVE  /\ Typed(Listed)
           /\ DOMAIN Listed \subseteq Ids
           /\ \A i \in DOMAIN Listed : Listed[i].published
<1>1. CASE Remote
  <2>1. Current \in Copies /\ \A i \in DOMAIN Current : Current[i].published
    BY CurrentTypes
  <2>2. Listed = [i \in DOMAIN Current |-> MirrorView(i, Current[i])]
    BY <1>1 DEF Listed
  <2>3. \A i \in DOMAIN Current : i \in TnIds /\ Current[i].category \in Names \cup {NoName}
    BY <2>1, SnapshotTypes
  <2>4. TnIds \subseteq Nat
    BY StorefrontAssumption
  <2> QED
    BY <2>1, <2>2, <2>3, <2>4 DEF Typed, MirrorView, Ids
<1>2. CASE ~Remote
  <2> DEFINE shown == {j \in DOMAIN legacy : legacy[j].published}
  <2>1. Listed = [i \in shown |-> LegacyView(legacy[i])]
    BY <1>2 DEF Listed
  <2>2. shown \subseteq LegacyIds /\ LegacyIds \subseteq Nat
        /\ \A i \in shown : legacy[i].published
                            /\ legacy[i].position \in Nat
                            /\ legacy[i].category \in Names \cup {NoName}
    BY StorefrontAssumption DEF CatalogueTypeOK, LegacyRow
  <2> HIDE DEF shown
  <2> QED
    BY <2>1, <2>2 DEF Typed, LegacyView, Ids
<1> QED
  BY <1>1, <1>2

\* A category on show has a page.
LEMMA ChipNamed ==
    ASSUME CatalogueTypeOK, CachePublished, NEW s,
           s \in CuratedSlugs \/ \E n \in PublishedCategories(Listed) : s = Slug[n]
    PROVE  s \in Slugs /\ NameForSlug(Listed, s) # NoName
<1>1. Typed(Listed)
  BY ListedTypes
<1>2. NameForSlug(Listed, s) # NoName
  BY <1>1, NameFound
<1>3. PublishedCategories(Listed) \subseteq Names
  BY <1>1 DEF PublishedCategories, Typed
<1> QED
  BY <1>2, <1>3, CatalogueAssumption DEF CuratedSlugs

-----------------------------------------------------------------------------
(***************************************************************************)
(* Pages.                                                                  *)
(***************************************************************************)
\* Two pages are the same only if they are of one kind and of one thing.
LEMMA Kinds ==
    /\ Home[1] = "home"
    /\ \A k : StaticPage(k)[1] = "page"
    /\ \A s : CategoryPage(s)[1] = "category" /\ CategoryPage(s)[2] = s
    /\ \A i : ProductPage(i)[1] = "product" /\ ProductPage(i)[2] = i
BY DEF Home, StaticPage, CategoryPage, ProductPage

LEMMA Answers ==
    /\ Status(Home) = IF Readable THEN 200 ELSE 500
    /\ \A k : Status(StaticPage(k)) = 200
    /\ \A s : Status(CategoryPage(s)) = CategoryStatus(s)
    /\ \A i : Status(ProductPage(i)) = ProductStatus(i)
BY Kinds DEF Status

LEMMA FooterAnswers == ASSUME Readable, NEW l \in Footer PROVE Status(l) = 200
BY Answers DEF Footer

LEMMA ChipsAnswer ==
    ASSUME CatalogueTypeOK, CachePublished, Readable, NEW s,
           s \in CuratedSlugs \/ \E n \in PublishedCategories(Listed) : s = Slug[n]
    PROVE  Status(CategoryPage(s)) = 200
BY ChipNamed, Answers DEF CategoryStatus

LEMMA CardsAnswer ==
    ASSUME CatalogueTypeOK, CachePublished, Readable, NEW i \in DOMAIN Listed
    PROVE  Shown(i) /\ Status(ProductPage(i)) = 200
<1>1. Shown(i)
  BY ListedTypes DEF Shown, Found, ById
<1> QED
  BY <1>1, Answers DEF ProductStatus

LEMMA HomeLinksAnswer ==
    ASSUME CatalogueTypeOK, CachePublished, Readable, NEW l \in HomeLinks
    PROVE  Status(l) = 200
BY ChipsAnswer, CardsAnswer DEF HomeLinks, CategoryCards, Chips, Cards

LEMMA ChipLinksAnswer ==
    ASSUME CatalogueTypeOK, CachePublished, Readable, NEW l \in Chips
    PROVE  Status(l) = 200
BY ChipsAnswer DEF Chips

LEMMA CategoryLinksAnswer ==
    ASSUME CatalogueTypeOK, CachePublished, Readable,
           NEW s, CategoryStatus(s) = 200, NEW l \in CategoryLinks(s)
    PROVE  Status(l) = 200
<1>1. Slug[NameForSlug(Listed, s)] = s
  BY ListedTypes, NameFound DEF CategoryStatus
<1>2. CASE l \in CategoryTrail(s)
  BY <1>1, <1>2, Answers DEF CategoryTrail
<1>3. CASE l \in Chips
  BY <1>3, ChipLinksAnswer
<1>4. CASE l \in Cards(OnCategory(s))
  BY <1>4, CardsAnswer DEF Cards, OnCategory, ByCategory
<1> QED
  BY <1>2, <1>3, <1>4 DEF CategoryLinks

\* The breadcrumb is the one link that may lead nowhere.
LEMMA ProductLinksAnswer ==
    ASSUME CatalogueTypeOK, CachePublished, Readable,
           NEW i, ProductStatus(i) \in {200, 301}, NEW l \in ProductLinks(i)
    PROVE  Status(l) = 200 \/ (Newer(i) /\ l \in Crumb(i))
<1>1. CASE ~Shown(i)
  <2>1. PICK s \in Redirects(i) : l = CategoryPage(s)
    BY <1>1 DEF ProductLinks
  <2> QED
    BY <2>1, Answers DEF Redirects, CategoryStatus
<1>2. CASE Shown(i)
  <2>0. \/ l \in {Home, ProductPage(i)} \/ l \in Crumb(i) \/ l \in Chips
        \/ l \in Cards(Related(Listed, i, ById(i).category))
    BY <1>2 DEF ProductLinks, ProductTrail
  <2>1. CASE l \in {Home, ProductPage(i)}
    BY <1>2, <2>1, Answers DEF ProductStatus
  <2>2. CASE l \in Crumb(i) /\ i \notin DOMAIN Listed
    BY <1>2, <2>2 DEF Newer
  <2>3. CASE l \in Crumb(i) /\ i \in DOMAIN Listed
    <3>1. Listed[i].category # NoName /\ l = CategoryPage(Slug[Listed[i].category])
      BY <2>3 DEF Crumb, ById
    <3>2. Listed[i].category \in PublishedCategories(Listed)
      BY <2>3, <3>1 DEF PublishedCategories
    <3> QED
      BY <3>1, <3>2, ChipsAnswer
  <2>4. CASE l \in Chips
    BY <2>4, ChipLinksAnswer
  <2>5. CASE l \in Cards(Related(Listed, i, ById(i).category))
    <3>1. PICK j \in Related(Listed, i, ById(i).category) : l = ProductPage(j)
      BY <2>5 DEF Cards
    <3>2. j \in DOMAIN Listed
      BY <3>1 DEF Related
    <3> QED
      BY <3>1, <3>2, CardsAnswer
  <2> QED
    BY <2>0, <2>1, <2>2, <2>3, <2>4, <2>5
<1> QED
  BY <1>1, <1>2

LEMMA SitemapAnswers ==
    ASSUME CatalogueTypeOK, CachePublished, Readable, NEW l \in Sitemap
    PROVE  Status(l) = 200
<1>1. CASE l \in {CategoryPage(s) : s \in CuratedSlugs}
  BY <1>1, ChipsAnswer
<1> QED
  BY <1>1, FooterAnswers, ChipLinksAnswer, CardsAnswer DEF Sitemap, Cards

LEMMA LinksFollow == CatalogueTypeOK /\ CachePublished => LinksResolve
<1> SUFFICES ASSUME CatalogueTypeOK, CachePublished PROVE LinksResolve
  OBVIOUS
<1>1. ASSUME Readable, NEW p \in Pages, Status(p) \in {200, 301}, NEW l \in Links(p)
      PROVE  Status(l) = 200 \/ (p[1] = "product" /\ Newer(p[2]) /\ l \in Crumb(p[2]))
  <2>1. CASE l \in Footer
    BY <1>1, <2>1, FooterAnswers
  <2>2. CASE l \notin Footer
    <3>1. CASE \E k : p = StaticPage(k)
      BY <1>1, <2>2, <3>1, Kinds DEF Links
    <3>2. CASE p = Home
      <4>1. l \in HomeLinks
        BY <1>1, <2>2, <3>2, Kinds DEF Links
      <4> QED
        BY <1>1, <4>1, HomeLinksAnswer
    <3>3. ASSUME NEW s, p = CategoryPage(s) PROVE Status(l) = 200
      <4>1. l \in CategoryLinks(s)
        BY <1>1, <2>2, <3>3, Kinds DEF Links
      <4>2. CategoryStatus(s) = 200
        BY <1>1, <3>3, Answers DEF CategoryStatus
      <4> QED
        BY <1>1, <4>1, <4>2, CategoryLinksAnswer
    <3>4. ASSUME NEW i, p = ProductPage(i)
          PROVE  Status(l) = 200 \/ (p[1] = "product" /\ Newer(p[2]) /\ l \in Crumb(p[2]))
      <4>1. l \in ProductLinks(i)
        BY <1>1, <2>2, <3>4, Kinds DEF Links
      <4>2. ProductStatus(i) \in {200, 301}
        BY <1>1, <3>4, Answers
      <4>3. p[1] = "product" /\ p[2] = i
        BY <3>4, Kinds
      <4> QED
        BY <1>1, <4>1, <4>2, <4>3, ProductLinksAnswer
    <3> QED
      BY <3>1, <3>2, <3>3, <3>4 DEF Pages, Footer
  <2> QED
    BY <2>1, <2>2
<1>2. ASSUME Readable, NEW l \in Sitemap PROVE Status(l) = 200
  BY <1>2, SitemapAnswers
<1> QED
  BY <1>1, <1>2 DEF LinksResolve

LEMMA IndexFollows == CatalogueTypeOK /\ CachePublished => SitemapIsTheIndex
<1> SUFFICES ASSUME CatalogueTypeOK, CachePublished, Readable, NEW p \in Pages
             PROVE  p \in Sitemap <=> /\ Status(p) = 200 /\ ~NoIndex(p)
                                      /\ ~(p[1] = "product" /\ Newer(p[2]))
  BY DEF SitemapIsTheIndex
<1>1. CASE p \in Footer
  <2>1. p[1] \in {"home", "page"}
    BY <1>1, Kinds DEF Footer
  <2> QED
    BY <1>1, <2>1, FooterAnswers DEF NoIndex, Sitemap
<1>2. ASSUME NEW s, p = CategoryPage(s)
      PROVE  p \in Sitemap <=> Status(p) = 200 /\ ~NoIndex(p)
  <2>1. p[1] = "category" /\ p[2] = s
    BY <1>2, Kinds
  <2>2. p \in Sitemap <=> s \in CuratedSlugs \cup {Slug[n] : n \in PublishedCategories(Listed)}
    BY <1>2, <2>1, Kinds DEF Sitemap, Footer, Chips, Cards
  <2>3. Status(p) = 200 <=> NameForSlug(Listed, s) # NoName
    BY <1>2, Answers DEF CategoryStatus
  <2>4. NameForSlug(Listed, s) # NoName => ~NoIndex(p)
    BY <2>1, ListedTypes, NameFound DEF NoIndex, OnCategory
  <2> QED
    BY <2>2, <2>3, <2>4, ListedTypes, NameFound
<1>3. ASSUME NEW i, p = ProductPage(i)
      PROVE  p \in Sitemap <=> Status(p) = 200 /\ ~NoIndex(p) /\ ~Newer(i)
  <2>1. p[1] = "product" /\ p[2] = i
    BY <1>3, Kinds
  <2>2. p \in Sitemap <=> i \in DOMAIN Listed
    BY <1>3, <2>1, Kinds DEF Sitemap, Footer, Chips, Cards
  <2>3. Status(p) = 200 <=> Shown(i)
    BY <1>3, Answers DEF ProductStatus
  <2> QED
    BY <2>1, <2>2, <2>3, CardsAnswer DEF NoIndex, Newer
<1> QED
  BY <1>1, <1>2, <1>3, Kinds DEF Pages

-----------------------------------------------------------------------------
(***************************************************************************)
(* Lines of the cart.                                                      *)
(***************************************************************************)
\* The price of a view is made of the payload it comes from.
LEMMA PriceOfPayload ==
    ASSUME CatalogueTypeOK, CachePublished, Remote, NEW i, Found(i)
    PROVE  /\ i \in TnIds
           /\ Raw(i) \in Payloads
           /\ ById(i).price = WholePesos(LowestPrice(Raw(i).variants))
           /\ LowestPrice(Raw(i).variants) \in Nat \cup {NoPrice, Garbled}
<1>1. Current \in Copies
  BY CurrentTypes
<1>2. Listed = [j \in DOMAIN Current |-> MirrorView(j, Current[j])]
  BY DEF Listed
<1>3. CASE i \in DOMAIN Listed
  <2>1. i \in DOMAIN Current /\ Raw(i) = Current[i].raw
    BY <1>2, <1>3 DEF Raw
  <2>2. ById(i).price = WholePesos(Current[i].price)
    BY <1>2, <1>3 DEF ById, MirrorView
  <2> QED
    BY <1>1, <2>1, <2>2, SnapshotTypes
<1>4. CASE i \notin DOMAIN Listed
  <2>1. i \in DOMAIN mirror /\ mirror[i] # NoRow
    BY <1>4 DEF Found, Unlisted
  <2>2. i \in TnIds /\ mirror[i] \in Rows
    BY <2>1 DEF CatalogueTypeOK, Tables
  <2>3. Raw(i) = mirror[i].raw
    BY <1>2, <1>4 DEF Raw
  <2>4. ById(i).price = WholePesos(mirror[i].price)
    BY <1>4 DEF ById, MirrorView
  <2> QED
    BY <2>2, <2>3, <2>4, RowTypes
<1> QED
  BY <1>3, <1>4

LEMMA BuyableTypes ==
    ASSUME CatalogueTypeOK, CachePublished, NEW i, Buyable(i)
    PROVE  ById(i).price \in Nat /\ Raw(i) \in Payloads \cup {NoRow}
<1>1. Found(i) /\ ById(i).price # NoPrice
  BY DEF Buyable, IsPurchasable
<1>2. CASE Remote
  BY <1>1, <1>2, PriceOfPayload, WholePesosType
<1>3. CASE ~Remote
  <2>1. i \in DOMAIN legacy
    BY <1>1, <1>3 DEF Found, Unlisted, Listed
  <2>2. ById(i).price = legacy[i].price
    BY <1>3 DEF ById, Listed, LegacyView
  <2>3. legacy[i].price \in Nat \cup {NoPrice}
    BY <2>1, StorefrontAssumption DEF CatalogueTypeOK, LegacyRow
  <2> QED
    BY <1>1, <1>3, <2>2, <2>3 DEF Raw
<1> QED
  BY <1>2, <1>3

LEMMA NoVariantNoPrice == WholePesos(LowestPrice(<<>>)) = NoPrice
<1>1. LowestPrice(<<>>) = NoPrice
  BY DEF LowestPrice
<1> QED
  BY <1>1 DEF WholePesos

LEMMA OffersFollow == CatalogueTypeOK /\ CachePublished => OffersCanBeBought
<1> SUFFICES ASSUME CatalogueTypeOK, CachePublished,
                    NEW i \in Ids, Status(ProductPage(i)) = 200
             PROVE  /\ Offer(ById(i)) = "InStock" <=> Buyable(i)
                    /\ Remote /\ Buyable(i) /\ mirror[i] # NoRow /\ mirror[i].raw = Raw(i)
                         => Variants(i) # <<>>
  BY DEF OffersCanBeBought
<1>1. Found(i) /\ ById(i).published
  BY Answers DEF ProductStatus, Shown
<1>2. Offer(ById(i)) = "InStock" <=> Buyable(i)
  BY <1>1 DEF Offer, Buyable, IsPurchasable
<1>3. ASSUME Remote, Buyable(i), mirror[i] # NoRow, mirror[i].raw = Raw(i), Variants(i) = <<>>
      PROVE  FALSE
  <2>1. i \in TnIds /\ ById(i).price = WholePesos(LowestPrice(Raw(i).variants))
    BY <1>1, <1>3, PriceOfPayload
  <2>2. mirror[i].variants = <<>>
    BY <1>3, <2>1 DEF Variants
  <2>3. mirror[i] \in Rows
    BY <1>3, <2>1 DEF CatalogueTypeOK, Tables
  <2>4. Raw(i).variants = <<>>
    BY <1>3, <2>2, <2>3, RowTypes
  <2> QED
    BY <1>3, <2>1, <2>4, NoVariantNoPrice DEF Buyable, IsPurchasable
<1> QED
  BY <1>2, <1>3

-----------------------------------------------------------------------------
(***************************************************************************)
(* The inductive invariant.                                                *)
(***************************************************************************)
LEMMA InitInv == Init => IInv
<1> SUFFICES ASSUME Init PROVE IInv
  OBVIOUS
<1>1. mirror \in Tables /\ Snapshots(mirror) \in Copies
  BY SnapshotsTypes DEF Init
<1>2. snapshot = Unreadable \/ Deserialize(snapshot) \in Copies
  BY <1>1, RoundTrip DEF Init
<1>3. CatalogueTypeOK
  BY <1>1, <1>2 DEF Init, CatalogueTypeOK
<1>4. DOMAIN screen = {}
  BY DEF Init
<1>5. request \in Requests
  BY DEF Init, Idle, Requests, Outcomes
<1>6. writes \in 0..MaxWrites /\ faults \in 0..MaxFaults
  BY StorefrontAssumption DEF Init
<1>7. cart = {} /\ cache = NoCache
  BY DEF Init
<1> QED
  BY <1>3, <1>4, <1>5, <1>6, <1>7 DEF IInv, TypeOK, CachePublished, ScreenTrue

\* What a request leaves cached.
LEMMA ReadTypes ==
    ASSUME CatalogueTypeOK, CachePublished, ReadCatalogue,
           UNCHANGED <<source, mirror, doubt, legacy, up, snapshot>>
    PROVE  CatalogueTypeOK' /\ CachePublished'
<1>1. Current \in Copies /\ \A i \in DOMAIN Current : Current[i].published
  BY CurrentTypes
<1>2. CASE Remote
  BY <1>1, <1>2 DEF ReadCatalogue, CatalogueTypeOK, CachePublished
<1>3. CASE ~Remote
  BY <1>3 DEF ReadCatalogue, CatalogueTypeOK, CachePublished
<1> QED
  BY <1>2, <1>3

LEMMA WriteTypes ==
    ASSUME IInv, NEW i \in TnIds, NEW r \in Rows \cup {NoRow}, Write(i, r)
    PROVE  CatalogueTypeOK' /\ CachePublished' /\ writes' \in 0..MaxWrites
<1>1. mirror' \in Tables
  BY DEF Write, IInv, TypeOK, CatalogueTypeOK, Tables
<1>2. Deserialize(Serialize(Snapshots(mirror'))) \in Copies
  BY <1>1, SnapshotsTypes, RoundTrip
<1>3. snapshot' = Unreadable \/ Deserialize(snapshot') \in Copies
  BY <1>2 DEF Write, IInv, TypeOK, CatalogueTypeOK
<1>4. cache' \in Copies \cup {NoCache} /\ CachePublished'
  BY DEF Write, IInv, TypeOK, CatalogueTypeOK, CachePublished
<1>5. writes' \in 0..MaxWrites
  BY StorefrontAssumption DEF Write, IInv, TypeOK
<1>6. UNCHANGED <<source, legacy, up>>
  BY DEF Write
<1>7. doubt' \subseteq Ids
  BY DEF Write, IInv, TypeOK, CatalogueTypeOK
<1> QED
  BY <1>1, <1>3, <1>4, <1>5, <1>6, <1>7 DEF CatalogueTypeOK, IInv, TypeOK

\* Expiry, outages and switches.
LEMMA WeatherTypes ==
    ASSUME IInv, Expire \/ Outage \/ Recover \/ Switch
    PROVE  CatalogueTypeOK' /\ CachePublished' /\ faults' \in 0..MaxFaults
<1>1. CatalogueTypeOK /\ CachePublished /\ faults \in 0..MaxFaults
  BY DEF IInv, TypeOK
<1>2. CASE Expire
  BY <1>1, <1>2 DEF Expire, CatalogueTypeOK, CachePublished
<1>3. CASE Outage
  <2>1. up' = FALSE /\ UNCHANGED <<source, mirror, doubt, legacy, snapshot, cache>>
    BY <1>3 DEF Outage
  <2>2. CatalogueTypeOK' /\ CachePublished'
    BY <1>1, <2>1 DEF CatalogueTypeOK, CachePublished
  <2>3. faults' \in 0..MaxFaults
    BY <1>1, <1>3, StorefrontAssumption DEF Outage
  <2> QED
    BY <2>2, <2>3
<1>4. CASE Recover
  BY <1>1, <1>4 DEF Recover, CatalogueTypeOK, CachePublished
<1>5. CASE Switch
  BY <1>1, <1>5, StorefrontAssumption DEF Switch, CatalogueTypeOK, CachePublished
<1> QED
  BY <1>2, <1>3, <1>4, <1>5

LEMMA ShowsTypes ==
    ASSUME CatalogueTypeOK, CachePublished, NEW ids, ids \subseteq Ids
    PROVE  /\ Built(ids) \subseteq Ids
           /\ DOMAIN Shows(ids) = Built(ids)
           /\ \A i \in DOMAIN Shows(ids) :
                /\ Shows(ids)[i] \in Line
                /\ Shows(ids)[i].raw # NoRow =>
                     Shows(ids)[i].price = WholePesos(LowestPrice(Shows(ids)[i].raw.variants))
<1>1. Built(ids) \subseteq Ids /\ \A i \in Built(ids) : Buyable(i)
  BY DEF Built
<1>2. Shows(ids) = [i \in Built(ids) |-> [price |-> ById(i).price, raw |-> Raw(i)]]
  BY DEF Shows
<1>3. ASSUME NEW i \in Built(ids)
      PROVE  /\ [price |-> ById(i).price, raw |-> Raw(i)] \in Line
             /\ Raw(i) # NoRow => ById(i).price = WholePesos(LowestPrice(Raw(i).variants))
  <2>1. [price |-> ById(i).price, raw |-> Raw(i)] \in Line
    BY <1>1, BuyableTypes DEF Line
  <2>2. Raw(i) # NoRow => Remote
    BY DEF Raw
  <2>3. Found(i)
    BY <1>1 DEF Buyable
  <2> QED
    BY <2>1, <2>2, <2>3, PriceOfPayload
<1> QED
  BY <1>1, <1>2, <1>3

\* Looking at the cart and adding to it.
LEMMA CartTypes ==
    ASSUME IInv, ViewCart \/ \E i \in Ids : Add(i)
    PROVE  IInv'
<1>1. CatalogueTypeOK /\ CachePublished /\ cart \subseteq Ids
  BY DEF IInv, TypeOK
<1>2. CatalogueTypeOK' /\ CachePublished'
  <2>1. ReadCatalogue /\ UNCHANGED <<source, mirror, doubt, legacy, up, snapshot>>
    BY DEF ViewCart, Add
  <2> QED
    BY <1>1, <2>1, ReadTypes
<1>3. UNCHANGED <<request, writes, faults>>
  BY DEF ViewCart, Add
<1>4. \/ UNCHANGED <<cart, screen>>
      \/ \E ids \in SUBSET Ids : cart' = Built(ids) /\ screen' = Shows(ids)
  <2>1. CASE ViewCart
    BY <1>1, <2>1 DEF ViewCart
  <2>2. ASSUME NEW i \in Ids, Add(i), ~UNCHANGED <<cart, screen>>
        PROVE  \E ids \in SUBSET Ids : cart' = Built(ids) /\ screen' = Shows(ids)
    <3>1. cart \cup {i} \in SUBSET Ids
      BY <1>1
    <3> QED
      BY <2>2, <3>1 DEF Add
  <2> QED
    BY <2>1, <2>2
<1>5. /\ cart' \subseteq Ids
      /\ DOMAIN screen' \subseteq Ids /\ \A i \in DOMAIN screen' : screen'[i] \in Line
      /\ ScreenTrue'
  <2>1. CASE UNCHANGED <<cart, screen>>
    BY <2>1 DEF IInv, TypeOK, ScreenTrue
  <2>2. ASSUME NEW ids \in SUBSET Ids, cart' = Built(ids), screen' = Shows(ids)
        PROVE  /\ cart' \subseteq Ids
               /\ DOMAIN screen' \subseteq Ids /\ \A i \in DOMAIN screen' : screen'[i] \in Line
               /\ ScreenTrue'
    BY <1>1, <2>2, ShowsTypes DEF ScreenTrue
  <2> QED
    BY <1>4, <2>1, <2>2
<1> QED
  BY <1>2, <1>3, <1>5 DEF IInv, TypeOK

\* What a checkout leaves alone.
LEMMA CheckoutFrame ==
    ASSUME IInv, UNCHANGED <<shopVars, screen, writes, faults>>,
           cart' \subseteq Ids, request' \in Requests
    PROVE  IInv'
BY DEF shopVars, IInv, TypeOK, CatalogueTypeOK, CachePublished, ScreenTrue

LEMMA StartTypes ==
    ASSUME IInv, NEW email \in BOOLEAN, NEW env, StartCheckout(email, env)
    PROVE  IInv'
<1>1. CatalogueTypeOK /\ CachePublished
  BY DEF IInv, TypeOK
<1>2. ReadCatalogue /\ UNCHANGED <<source, mirror, doubt, legacy, up, snapshot>>
  BY DEF StartCheckout
<1>3. CatalogueTypeOK' /\ CachePublished'
  BY <1>1, <1>2, ReadTypes
<1>4. Built(cart) \subseteq Ids
  BY DEF Built, IInv, TypeOK
<1>5. request' \in Requests
  BY <1>4 DEF StartCheckout, End, Requests, Outcomes
<1>6. cart' = Built(cart) /\ UNCHANGED <<screen, writes, faults>>
  BY DEF StartCheckout
<1> QED
  BY <1>3, <1>4, <1>5, <1>6 DEF IInv, TypeOK, ScreenTrue

\* The variants of a product are those its payload lists.
LEMMA VariantTypes ==
    ASSUME CatalogueTypeOK, NEW i, Variants(i) # <<>>
    PROVE  /\ i \in TnIds /\ mirror[i] \in Rows
           /\ Variants(i) = mirror[i].raw.variants /\ Variants(i) \in Seq(Variant)
           /\ Variants(i)[1].id \in VariantIds
<1>1. i \in TnIds /\ mirror[i] \in Rows /\ Variants(i) = mirror[i].variants
  BY DEF Variants, CatalogueTypeOK, Tables
<1>2. /\ mirror[i].variants = mirror[i].raw.variants /\ mirror[i].raw \in Payloads
      /\ mirror[i].variants \in Seq(Variant)
  BY <1>1, RowTypes
<1>3. 1 \in DOMAIN Variants(i)
  BY <1>1, <1>2
<1> QED
  BY <1>1, <1>2, <1>3 DEF VariantIds

LEMMA ResolveTypes == ASSUME IInv, Resolve PROVE IInv'
<1>1. CatalogueTypeOK /\ cart \subseteq Ids /\ request \in Requests
  BY DEF IInv, TypeOK
<1>2. request.pc = "resolve" /\ request.items \in SUBSET Ids
  BY <1>1 DEF Resolve, Requests
<1>3. request' \in Requests
  <2>1. CASE ~up \/ \E i \in request.items : Variants(i) = <<>>
    BY <2>1 DEF Resolve, End, Requests, Outcomes
  <2>2. CASE \A i \in request.items : Variants(i) # <<>>
    <3> DEFINE lines == [i \in request.items |-> Variants(i)[1].id]
    <3>1. request.items \in SUBSET TnIds
      BY <1>1, <2>2, VariantTypes
    <3>2. lines \in [request.items -> VariantIds]
      BY <1>1, <2>2, VariantTypes
    <3>3. \/ \E outcome \in Outcomes : request' = [pc |-> "idle", outcome |-> outcome]
          \/ request' = [pc |-> "post", attempt |-> 0, lines |-> lines]
      BY DEF Resolve, End, Outcomes
    <3>4. 0 \in 0..MaxRetries
      BY StorefrontAssumption
    <3> HIDE DEF lines
    <3> QED
      BY <3>1, <3>2, <3>3, <3>4 DEF Requests
  <2> QED
    BY <2>1, <2>2
<1>4. UNCHANGED <<shopVars, cart, screen, writes, faults>>
  BY DEF Resolve
<1> QED
  BY <1>1, <1>3, <1>4, CheckoutFrame

LEMMA PostTypes == ASSUME IInv, Post PROVE IInv'
<1>1. cart \subseteq Ids /\ request \in Requests
  BY DEF IInv, TypeOK
<1>2. request.pc = "post"
  BY DEF Post, Limited, Answered
<1>3. PICK S \in SUBSET TnIds : \E f \in [S -> VariantIds], n \in 0..MaxRetries :
         request = [pc |-> "post", lines |-> f, attempt |-> n]
  BY <1>1, <1>2 DEF Requests
<1>4. request' \in Requests
  <2>1. CASE Limited
    <3>1. CASE request.attempt < MaxRetries
      <4>1. request.attempt + 1 \in 0..MaxRetries
        BY <1>3, <3>1, StorefrontAssumption
      <4>2. request' = [request EXCEPT !.attempt = @ + 1]
        BY <2>1, <3>1 DEF Limited
      <4> QED
        BY <1>3, <4>1, <4>2 DEF Requests
    <3>2. CASE ~(request.attempt < MaxRetries)
      BY <2>1, <3>2 DEF Limited, End, Requests, Outcomes
    <3> QED
      BY <3>1, <3>2
  <2>2. CASE \E o \in Outcomes : Answered(o)
    BY <2>2 DEF Answered, End, Requests
  <2> QED
    BY <2>1, <2>2 DEF Post
<1>5. UNCHANGED <<shopVars, cart, screen, writes, faults>>
  BY DEF Post, Limited, Answered
<1> QED
  BY <1>1, <1>4, <1>5, CheckoutFrame

LEMMA NextInv == IInv /\ [Next]_vars => IInv'
<1> SUFFICES ASSUME IInv, [Next]_vars PROVE IInv'
  OBVIOUS
<1>1. CASE UNCHANGED vars
  BY <1>1 DEF vars, shopVars, IInv, TypeOK, CatalogueTypeOK, CachePublished, ScreenTrue
<1>2. ASSUME NEW i \in TnIds, NEW r \in Rows \cup {NoRow}, Write(i, r) PROVE IInv'
  <2>1. UNCHANGED <<cart, screen, request, faults>>
    BY <1>2 DEF Write
  <2> QED
    BY <1>2, <2>1, WriteTypes DEF IInv, TypeOK, ScreenTrue
<1>3. CASE Expire \/ Outage \/ Recover \/ Switch
  <2>1. UNCHANGED <<cart, screen, request, writes>>
    BY <1>3 DEF Expire, Outage, Recover, Switch
  <2> QED
    BY <1>3, <2>1, WeatherTypes DEF IInv, TypeOK, ScreenTrue
<1>4. CASE Visit
  <2>1. UNCHANGED <<source, mirror, doubt, legacy, up, snapshot, cart, screen,
                    request, writes, faults>>
        /\ ReadCatalogue
    BY <1>4 DEF Visit
  <2>2. CatalogueTypeOK' /\ CachePublished'
    BY <2>1, ReadTypes DEF IInv, TypeOK
  <2> QED
    BY <2>1, <2>2 DEF IInv, TypeOK, ScreenTrue
<1>5. CASE ViewCart \/ \E i \in Ids : Add(i)
  BY <1>5, CartTypes
<1>6. ASSUME NEW e \in BOOLEAN, NEW env \in SUBSET Credentials, StartCheckout(e, env) PROVE IInv'
  BY <1>6, StartTypes
<1>7. CASE Resolve
  BY <1>7, ResolveTypes
<1>8. CASE Post
  BY <1>8, PostTypes
<1> QED
  BY <1>1, <1>2, <1>3, <1>4, <1>5, <1>6, <1>7, <1>8 DEF Next

\* Every state has the types Storefront declares.
THEOREM TypeCorrect == Spec => []TypeOK
<1>1. IInv => TypeOK
  BY DEF IInv
<1> QED
  BY InitInv, NextInv, <1>1, PTL DEF Spec

-----------------------------------------------------------------------------
(***************************************************************************)
(* The properties of the run.                                              *)
(***************************************************************************)
\* A page never links to a page that does not answer, whichever catalogue is
\* served and however the visitor got there, but for the breadcrumb of a
\* product newer than the copy being served.
THEOREM LinksAlwaysResolve == Spec => []LinksResolve
<1>1. IInv => LinksResolve
  BY LinksFollow DEF IInv, TypeOK
<1> QED
  BY InitInv, NextInv, <1>1, PTL DEF Spec

\* The sitemap and the robots of the pages never disagree.
THEOREM SitemapAgrees == Spec => []SitemapIsTheIndex
<1>1. IInv => SitemapIsTheIndex
  BY IndexFollows DEF IInv, TypeOK
<1> QED
  BY InitInv, NextInv, <1>1, PTL DEF Spec

\* The markup never offers what the cart refuses, nor the cart takes what has
\* no variant to sell.
THEOREM OffersHold == Spec => []OffersCanBeBought
<1>1. IInv => OffersCanBeBought
  BY OffersFollow DEF IInv, TypeOK
<1> QED
  BY InitInv, NextInv, <1>1, PTL DEF Spec

(***************************************************************************)
(* What has been for sale all along is in every copy that anybody took of  *)
(* the mirror: the one cached here and the one saved in the Blob store.    *)
(***************************************************************************)
Keeps(C) == \A i \in Ids \ doubt : i \in DOMAIN C /\ IsPurchasable(MirrorView(i, C[i]))

Stocked ==
    /\ \A i \in Ids \ doubt : ForSale(i)
    /\ cache # NoCache => DOMAIN cache = {} \/ Keeps(cache)
    /\ snapshot = Unreadable \/ Keeps(Deserialize(snapshot))

SInv == IInv /\ Stocked

\* A copy of the mirror has what the mirror has for sale.
LEMMA CopyHasIt ==
    ASSUME NEW t \in Tables, NEW i \in TnIds, t[i] # NoRow, IsPurchasable(MirrorView(i, t[i]))
    PROVE  /\ i \in DOMAIN Snapshots(t)
           /\ IsPurchasable(MirrorView(i, Snapshots(t)[i]))
<1>1. i \in DOMAIN t /\ t[i].published
  BY DEF Tables, IsPurchasable, MirrorView
<1>2. i \in DOMAIN Snapshots(t) /\ Snapshots(t)[i] = SnapshotOf(t[i])
  BY <1>1 DEF Snapshots, Published
<1>3. MirrorView(i, SnapshotOf(t[i])) = MirrorView(i, t[i])
  BY DEF MirrorView, SnapshotOf, InStock
<1> QED
  BY <1>2, <1>3

\* What a read returns, whatever it has to fall back on.
LEMMA ReadHasIt ==
    ASSUME CatalogueTypeOK, Stocked
    PROVE  DOMAIN Current = {} \/ Keeps(Current)
<1>1. CASE cache # NoCache
  BY <1>1 DEF Current, Stocked
<1>2. CASE cache = NoCache /\ up
  <2>1. Current = Snapshots(mirror) /\ mirror \in Tables
    BY <1>2 DEF Current, CatalogueTypeOK
  <2>2. \A i \in Ids \ doubt : i \in TnIds /\ mirror[i] # NoRow
                               /\ IsPurchasable(MirrorView(i, mirror[i]))
    BY DEF Stocked, ForSale
  <2> QED
    BY <2>1, <2>2, CopyHasIt DEF Keeps
<1>3. CASE cache = NoCache /\ ~up
  <2> DEFINE loaded == Deserialize(snapshot)
  <2>1. Current = [i \in {j \in DOMAIN loaded : loaded[j].published} |-> loaded[i]]
    BY <1>3 DEF Current, Fallback
  <2>2. CASE snapshot = Unreadable
    BY <2>1, <2>2, UnreadableIsEmpty
  <2>3. CASE Keeps(loaded)
    <3>1. \A i \in Ids \ doubt : i \in DOMAIN loaded /\ loaded[i].published
                                 /\ IsPurchasable(MirrorView(i, loaded[i]))
      BY <2>3 DEF Keeps, IsPurchasable, MirrorView
    <3> HIDE DEF loaded
    <3> QED
      BY <2>1, <3>1 DEF Keeps
  <2> QED
    BY <2>2, <2>3 DEF Stocked
<1> QED
  BY <1>1, <1>2, <1>3

LEMMA InitStocked == Init => SInv
<1> SUFFICES ASSUME Init PROVE Stocked
  BY InitInv DEF SInv
<1>1. mirror \in Tables /\ Snapshots(mirror) \in Copies
  BY SnapshotsTypes DEF Init
<1>2. \A i \in Ids \ doubt : ForSale(i)
  BY DEF Init
<1>3. Keeps(Snapshots(mirror))
  BY <1>1, <1>2, CopyHasIt DEF Keeps, ForSale
<1>4. snapshot = Unreadable \/ Keeps(Deserialize(snapshot))
  BY <1>1, <1>3, RoundTrip DEF Init
<1> QED
  BY <1>2, <1>4 DEF Init, Stocked

\* A write puts in doubt what it takes off sale, and the copy it saves has the rest.
LEMMA WriteStocked ==
    ASSUME SInv, NEW i \in TnIds, NEW r \in Rows \cup {NoRow}, Write(i, r)
    PROVE  Stocked'
<1>1. mirror' \in Tables
  BY DEF Write, SInv, IInv, TypeOK, CatalogueTypeOK, Tables
<1>2. doubt \subseteq doubt' /\ \A j \in Ids \ doubt' : ForSale(j)'
  BY DEF Write
<1>3. (cache # NoCache => DOMAIN cache = {} \/ Keeps(cache))'
  BY <1>2 DEF Write, SInv, Stocked, Keeps
<1>4. CASE snapshot' = snapshot
  <2>1. (snapshot = Unreadable \/ Keeps(Deserialize(snapshot)))'
    BY <1>2, <1>4 DEF SInv, Stocked, Keeps
  <2> QED
    BY <1>2, <1>3, <2>1 DEF Stocked
<1>5. CASE snapshot' = Serialize(Snapshots(mirror'))
  <2>1. Deserialize(snapshot') = Snapshots(mirror')
    BY <1>1, <1>5, SnapshotsTypes, RoundTrip
  <2>2. \A j \in Ids \ doubt' :
            /\ j \in DOMAIN Snapshots(mirror')
            /\ IsPurchasable(MirrorView(j, Snapshots(mirror')[j]))
    BY <1>1, <1>2, CopyHasIt DEF ForSale
  <2>3. Keeps(Deserialize(snapshot))'
    BY <2>1, <2>2 DEF Keeps
  <2> QED
    BY <1>2, <1>3, <2>3 DEF Stocked
<1> QED
  BY <1>4, <1>5 DEF Write

LEMMA NextStocked == SInv /\ [Next]_vars => SInv'
<1> SUFFICES ASSUME SInv, [Next]_vars PROVE Stocked'
  BY NextInv DEF SInv
<1>0. CatalogueTypeOK /\ Stocked
  BY DEF SInv, IInv, TypeOK
<1>1. ASSUME NEW i \in TnIds, NEW r \in Rows \cup {NoRow}, Write(i, r) PROVE Stocked'
  BY <1>1, WriteStocked
<1>2. ASSUME UNCHANGED <<mirror, doubt, snapshot>>, cache' \in {cache, NoCache, Current}
      PROVE  Stocked'
  BY <1>0, <1>2, ReadHasIt DEF Stocked, Keeps, ForSale
<1>3. CASE UNCHANGED vars \/ Resolve \/ Post
  <2>1. UNCHANGED shopVars
    BY <1>3 DEF vars, Resolve, Post, Limited, Answered
  <2> QED
    BY <1>2, <2>1 DEF shopVars
<1>4. CASE Expire \/ Outage \/ Recover \/ Switch
  BY <1>2, <1>4 DEF Expire, Outage, Recover, Switch
<1>5. ASSUME ReadCatalogue, UNCHANGED <<mirror, doubt, snapshot>> PROVE Stocked'
  BY <1>2, <1>5 DEF ReadCatalogue
<1>6. CASE Visit \/ ViewCart
  BY <1>5, <1>6 DEF Visit, ViewCart
<1>7. ASSUME NEW i \in Ids, Add(i) PROVE Stocked'
  BY <1>5, <1>7 DEF Add
<1>8. ASSUME NEW e \in BOOLEAN, NEW env \in SUBSET Credentials, StartCheckout(e, env)
      PROVE  Stocked'
  BY <1>5, <1>8 DEF StartCheckout
<1> QED
  BY <1>1, <1>3, <1>4, <1>6, <1>7, <1>8 DEF Next

\* Only build takes a line out of the cart.
LEMMA OnlyBuild ==
    ASSUME [Next]_vars
    PROVE  cart \subseteq cart' \/ (Readable /\ Built(cart) \subseteq cart')
<1>1. CASE UNCHANGED vars
  BY <1>1 DEF vars
<1>2. ASSUME NEW i \in TnIds, NEW r \in Rows \cup {NoRow}, Write(i, r) PROVE cart' = cart
  BY <1>2 DEF Write
<1>3. CASE Expire \/ Outage \/ Recover \/ Switch \/ Visit \/ Resolve \/ Post
  BY <1>3 DEF Expire, Outage, Recover, Switch, Visit, Resolve, Post, Limited, Answered
<1>4. CASE ViewCart
  BY <1>4 DEF ViewCart
<1>5. ASSUME NEW i \in Ids, Add(i)
      PROVE  cart \subseteq cart' \/ (Readable /\ Built(cart) \subseteq cart')
  <2>1. Built(cart) \subseteq Built(cart \cup {i})
    BY DEF Built
  <2>2. Readable /\ (cart' = cart \/ cart' = Built(cart \cup {i}))
    BY <1>5 DEF Add
  <2> QED
    BY <2>1, <2>2
<1>6. ASSUME NEW e \in BOOLEAN, NEW env \in SUBSET Credentials, StartCheckout(e, env)
      PROVE  Readable /\ Built(cart) \subseteq cart'
  BY <1>6 DEF StartCheckout
<1> QED
  BY <1>1, <1>2, <1>3, <1>4, <1>5, <1>6 DEF Next

LEMMA StaysFollows ==
    ASSUME SInv, [Next]_vars, NEW i \in cart \ cart'
    PROVE  IF Remote THEN i \in doubt \/ NothingSaved
           ELSE i \notin DOMAIN legacy \/ ~IsPurchasable(LegacyView(legacy[i]))
<1>0. CatalogueTypeOK /\ Stocked /\ i \in Ids
  BY DEF SInv, IInv, TypeOK
<1>1. Readable /\ ~Buyable(i)
  BY OnlyBuild DEF Built
<1>2. CASE ~Remote
  <2>1. i \in DOMAIN legacy => Found(i) /\ ById(i) = LegacyView(legacy[i])
    BY <1>2 DEF Found, Unlisted, ById, Listed
  <2> QED
    BY <1>1, <1>2, <2>1 DEF Buyable
<1>3. CASE Remote
  <2> SUFFICES ASSUME i \notin doubt, ~NothingSaved PROVE FALSE
    BY <1>3
  <2>0. Listed = [j \in DOMAIN Current |-> MirrorView(j, Current[j])]
    BY <1>3 DEF Listed
  <2>1. CASE DOMAIN Current # {}
    <3>1. i \in DOMAIN Current /\ IsPurchasable(MirrorView(i, Current[i]))
      BY <1>0, <2>1, ReadHasIt DEF Keeps
    <3> QED
      BY <1>1, <2>0, <3>1 DEF Buyable, Found, ById
  <2>2. CASE DOMAIN Current = {}
    <3>1. up
      BY <2>2 DEF NothingSaved
    <3>2. i \in TnIds /\ mirror[i] # NoRow /\ IsPurchasable(MirrorView(i, mirror[i]))
      BY <1>0 DEF Stocked, ForSale
    <3>3. i \in Unlisted
      BY <1>0, <1>3, <3>1, <3>2 DEF Unlisted, CatalogueTypeOK, Tables
    <3> QED
      BY <1>1, <1>3, <2>0, <2>2, <3>2, <3>3 DEF Buyable, Found, ById
  <2> QED
    BY <2>1, <2>2
<1> QED
  BY <1>2, <1>3

\* No write, stale copy, late save or outage takes out of a cart what has been
\* for sale all along, as long as some copy of the catalogue can be read.
THEOREM StaysInCart == Spec => ForSaleStaysInCart
<1>1. SInv /\ [Next]_vars =>
        [\A i \in cart \ cart' :
            IF Remote THEN i \in doubt \/ NothingSaved
            ELSE i \notin DOMAIN legacy \/ ~IsPurchasable(LegacyView(legacy[i]))]_vars
  BY StaysFollows
<1> QED
  BY InitStocked, NextStocked, <1>1, PTL DEF Spec, ForSaleStaysInCart

\* The price of the only variant there is.
LEMMA OnlyPrice ==
    ASSUME NEW variants \in Seq(Variant), Len(variants) = 1,
           WholePesos(LowestPrice(variants)) # NoPrice
    PROVE  LowestPrice(variants) = variants[1].price /\ variants[1].price \in Nat
<1> DEFINE price == variants[1].price
<1>1. DOMAIN variants = {1} /\ variants[1] \in Variant
  OBVIOUS
<1>2. price \in Nat \cup {NoPrice, Garbled}
  BY <1>1 DEF Variant
<1>3. {variants[k].price : k \in DOMAIN variants} = {price}
  BY <1>1
<1>4. CASE price = NoPrice
  <2>1. LowestPrice(variants) = NoPrice
    BY <1>3, <1>4 DEF LowestPrice
  <2> QED
    BY <2>1 DEF WholePesos
<1>5. CASE price = Garbled
  <2>1. LowestPrice(variants) = Garbled
    BY <1>3, <1>5 DEF LowestPrice, NoPrice, Garbled
  <2> QED
    BY <2>1 DEF WholePesos
<1>6. CASE price \in Nat
  <2>1. price \notin {NoPrice, Garbled}
    BY <1>6 DEF NoPrice, Garbled
  <2>2. LowestPrice(variants) = Min({price})
    <3>1. ({price} \ {NoPrice}) = {price} /\ ({price} \ {Garbled}) = {price}
      BY <2>1
    <3> HIDE DEF price
    <3> QED
      BY <1>3, <3>1 DEF LowestPrice
  <2>3. Min({price}) = price
    BY <1>6 DEF Min
  <2> QED
    BY <1>6, <2>2, <2>3
<1> QED
  BY <1>2, <1>4, <1>5, <1>6

LEMMA Rounding ==
    ASSUME NEW price \in Nat
    PROVE  price - 100 * WholePesos(price) \in -50..50
<1> DEFINE pesos == price \div 100
<1> DEFINE rest == price % 100
<1>1. pesos \in Nat /\ rest \in 0..99 /\ price = 100 * pesos + rest
  OBVIOUS
<1>2. WholePesos(price) = IF rest > 50 \/ (rest = 50 /\ pesos % 2 = 1) THEN pesos + 1 ELSE pesos
  BY DEF WholePesos, NoPrice, Garbled
<1> HIDE DEF pesos, rest
<1> QED
  BY <1>1, <1>2

LEMMA BillFollows ==
    ASSUME IInv, request.pc = "post",
           NEW i \in DOMAIN request.lines \cap DOMAIN screen,
           mirror[i] # NoRow, mirror[i].raw = screen[i].raw, Len(Variants(i)) = 1,
           NEW price \in Billed(i)
    PROVE  price - 100 * screen[i].price \in -50..50
<1>1. i \in TnIds /\ mirror[i] \in Rows
  <2>1. i \in TnIds
    BY DEF IInv, TypeOK, Requests
  <2> QED
    BY <2>1 DEF IInv, TypeOK, CatalogueTypeOK, Tables
<1>2. /\ Variants(i) = screen[i].raw.variants /\ Variants(i) \in Seq(Variant)
      /\ screen[i].raw \in Payloads
  BY <1>1, RowTypes DEF Variants
<1>3. screen[i].price \in Nat /\ screen[i].price = WholePesos(LowestPrice(Variants(i)))
  <2>1. screen[i].raw # NoRow
    BY <1>2, StorefrontAssumption
  <2>2. screen[i].price \in Nat
    BY DEF IInv, TypeOK, Line
  <2> QED
    BY <1>2, <2>1, <2>2 DEF IInv, ScreenTrue
<1>4. LowestPrice(Variants(i)) = Variants(i)[1].price /\ Variants(i)[1].price \in Nat
  <2>1. WholePesos(LowestPrice(Variants(i))) # NoPrice
    BY <1>3 DEF NoPrice
  <2> QED
    BY <1>2, <2>1, OnlyPrice
<1>5. price = Variants(i)[1].price
  <2>1. DOMAIN Variants(i) = {1}
    BY <1>2
  <2> QED
    BY <2>1 DEF Billed, Range
<1> QED
  BY <1>3, <1>4, <1>5, Rounding

\* Nobody is charged anything but the price the cart showed, to the rounding.
THEOREM ChargedAsShown == Spec => BilledAsShown
<1>1. IInv /\ [Next]_vars =>
        [request.pc = "post" /\ request'.pc = "idle" /\ request'.outcome = "ready" =>
          \A i \in DOMAIN request.lines \cap DOMAIN screen :
             Raw(i) = screen[i].raw /\ mirror[i] # NoRow /\ mirror[i].raw = screen[i].raw
             /\ Len(Variants(i)) = 1 =>
                \A price \in Billed(i) :
                   price - 100 * screen[i].price \in -50..50]_vars
  BY BillFollows
<1> QED
  BY InitInv, NextInv, <1>1, PTL DEF Spec, BilledAsShown
=============================================================================
