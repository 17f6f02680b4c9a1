---------------------------- MODULE MCStorefront ----------------------------
(* Storefront on small sets. *)
EXTENDS Storefront, TLC

CONSTANTS none

TwoIds == {101, 102}
OneLegacyId == {1}

\* "tote" and "Tote" share a slug, and so do "Bolso" and "bolso".
FourNames == {"Tote", "tote", "Bolso", "bolso"}
OneCurated == {"Tote"}
ThreeSlugs == {"tote", "bolso", "otro"}
SlugOf == [n \in FourNames |-> IF n \in {"Tote", "tote"} THEN "tote" ELSE "bolso"]
TwoSources == {"front", "back"}
OnePage == {"about"}

One(price, stock) == <<[id |-> 7, price |-> price, stock |-> stock]>>
Photos == <<[src |-> "back", position |-> 2], [src |-> "front", position |-> 1]>>
Bag(published, category, variants, images) ==
    [published |-> published, category |-> category, variants |-> variants, images |-> images]

\* On sale, in the category as curated; a draft; another spelling, sold without
\* stock control; two variants, sold out; no variant yet.
FewPayloads ==
    {Bag(TRUE, "Tote", One(104950, 1), Photos),
     Bag(FALSE, none, One(104950, 1), Photos),
     Bag(TRUE, "tote", One(109999, Unmanaged), <<>>),
     Bag(TRUE, "Bolso", One(Garbled, 0) \o <<[id |-> 8, price |-> 5000, stock |-> 0]>>, <<>>),
     Bag(TRUE, "bolso", <<>>, <<>>)}

Legacy(published, category, price) ==
    (1 :> [published |-> published, category |-> category, price |-> price,
           media |-> <<>>, position |-> 0])
FewTables == {Legacy(TRUE, "bolso", 900), Legacy(FALSE, "Tote", NoPrice)}
=============================================================================
