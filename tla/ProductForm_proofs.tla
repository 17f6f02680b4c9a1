-------------------------- MODULE ProductForm_proofs --------------------------
(***************************************************************************)
(* The form of a product and the list page, for any files, submissions,    *)
(* failures and requests:                                                  *)
(*  - a form makes a second product only if something failed;              *)
(*  - the types, orders that name nothing twice among them;                *)
(*  - a drag leaves the list as dropped, a new product comes last;         *)
(*  - a save leaves no original behind, and the gallery that was arranged. *)
(* Each needs the invariants before it: IInv, Types, Carries.              *)
(***************************************************************************)
EXTENDS ProductForm, FiniteSetTheorems, SequenceTheorems, WellFoundedInduction, TLAPS

(***************************************************************************)
(* Records whose fields are known, and not what the fields hold: the       *)
(* argument is about who made which product, never about orders or names.  *)
(***************************************************************************)
FormFields(f) ==
    f = [pc |-> f.pc, product |-> f.product, published |-> f.published,
         tiles |-> f.tiles, sent |-> f.sent, last |-> f.last]

RequestFields(q) ==
    q = [pc |-> q.pc, product |-> q.product, row |-> q.row, published |-> q.published,
         shown |-> q.shown, files |-> q.files, tokens |-> q.tokens, blank |-> q.blank,
         seen |-> q.seen, loaded |-> q.loaded, ordered |-> q.ordered,
         rejected |-> q.rejected, reply |-> q.reply]

MediaFields(row) == row = [product |-> row.product, position |-> row.position]

Fields ==
    /\ born \in 2..MaxProducts /\ faults \in 0..MaxFaults
    /\ DOMAIN products = Ids /\ products = [p \in Ids |-> products[p]]
    /\ FormFields(form)
    /\ form.last \in 0..MaxSubmits /\ form.product \in 0..born
    /\ form.pc \in {"editing", "uploading", "posted", "left"}
    /\ form.pc \in {"uploading", "posted"} => form.last \in Submits
    /\ req = [k \in Submits |-> req[k]]
    /\ \A k \in Submits : RequestFields(req[k]) /\ req[k].row \in 0..born
    /\ media = [m \in Media |-> media[m]]
    /\ \A m \in Media : media[m] # NoRow => MediaFields(media[m]) /\ media[m].product \in 1..born

\* What a request was sent for, and how it is answered.
Protocol ==
    /\ \A k \in Submits : /\ req[k].pc # "done" => req[k].reply = NoAnswer
                          /\ req[k].pc = "done" =>
                                req[k].reply \in {"list", "edit", "login", "invalid", "error"}
                          /\ req[k].pc = "insert" => req[k].product = New
    /\ form.pc = "posted" /\ req[form.last].pc # "done" =>
          req[form.last].product = form.product

\* A product that is being created is known to nobody else, so it has no media
\* and no save of another request can make its own fail.
Creates(k) == req[k].product = New /\ req[k].pc \in {"load", "tokens", "commit"}
OwnProduct ==
    \A k \in Submits : Creates(k) =>
        /\ req[k].row # New /\ req[k].row # form.product
        /\ \A j \in Submits \ {k} : req[j].row # req[k].row
        /\ req[k].pc = "load" => \A m \in Media : media[m] # NoRow => media[m].product # req[k].row
        /\ req[k].pc # "load" => \A m \in Media : req[k].loaded[m] = NoRow

(***************************************************************************)
(* What the form has made or may yet make: the products that were added,   *)
(* each under its id; the creations on their way, under the negative of    *)
(* their number; and, under 0, a page that can still send one.             *)
(***************************************************************************)
Added == Alive \ {1, 2}
Pending(k) == req[k].product = New /\ req[k].pc \in {"arrived", "insert"}
MaySend ==
    /\ form.product = New /\ form.pc # "left"
    /\ form.pc = "posted" =>
          LET q == req[form.last]
          IN \/ ~Pending(form.last) /\ q.row \notin Added
             \/ q.pc = "done" /\ q.reply \in {"error", "invalid"}

Claims == Added \cup {-k : k \in {j \in Submits : Pending(j)}} \cup {x \in {0} : MaySend}

\* A failure makes room for one more.
ClaimsNeedFailures == Cardinality(Claims) <= 1 + MaxFaults - faults

IInv == Fields /\ Protocol /\ OwnProduct /\ ClaimsNeedFailures

-----------------------------------------------------------------------------
(***************************************************************************)
(* Counting.                                                               *)
(***************************************************************************)
\* Claims are numbers between -MaxSubmits and MaxProducts.
LEMMA ClaimsFinite ==
    ASSUME Fields
    PROVE  IsFiniteSet(Claims) /\ Cardinality(Claims) \in Nat
<1>1. Claims \in SUBSET ((-MaxSubmits)..MaxProducts)
  BY ListAssumption, FormAssumption DEF Claims, Added, Alive, Ids, Submits
<1>2. IsFiniteSet((-MaxSubmits)..MaxProducts)
  <2>1. -MaxSubmits \in Int /\ MaxProducts \in Int
    BY ListAssumption, FormAssumption
  <2> QED
    BY <2>1, FS_Interval
<1>3. IsFiniteSet(Claims)
  BY <1>1, <1>2, FS_Subset
<1> QED
  BY <1>3, FS_CardinalityType

\* A step that gives one claim for another, or for a failure, keeps the count.
LEMMA OneForOne ==
    ASSUME Fields, ClaimsNeedFailures, faults' \in 0..MaxFaults,
           NEW x, NEW y, Claims' \subseteq (Claims \ {x}) \cup {y},
           \/ y \in Claims /\ faults' <= faults
           \/ x \in Claims /\ faults' <= faults
           \/ faults' < faults
    PROVE  ClaimsNeedFailures'
<1> DEFINE S == Claims
           T == Claims'
<1>1. /\ IsFiniteSet(S) /\ Cardinality(S) \in Nat
      /\ Cardinality(S) <= 1 + MaxFaults - faults
      /\ faults \in Nat /\ faults' \in Nat /\ MaxFaults \in Nat
  BY ClaimsFinite, FormAssumption DEF ClaimsNeedFailures, Fields
<1>2. T \in SUBSET ((S \ {x}) \cup {y})
  OBVIOUS
<1> SUFFICES Cardinality(T) <= 1 + MaxFaults - faults'
  BY DEF ClaimsNeedFailures
<1> HIDE DEF S, T
<1>3. /\ IsFiniteSet(S \ {x})
      /\ Cardinality(S \ {x}) = IF x \in S THEN Cardinality(S) - 1 ELSE Cardinality(S)
  BY <1>1, FS_RemoveElement
<1>4. /\ IsFiniteSet((S \ {x}) \cup {y})
      /\ Cardinality((S \ {x}) \cup {y}) =
           IF y \in S \ {x} THEN Cardinality(S \ {x}) ELSE Cardinality(S \ {x}) + 1
  BY <1>3, FS_AddElement
<1>5. IsFiniteSet(T) /\ Cardinality(T) <= Cardinality((S \ {x}) \cup {y})
  BY <1>2, <1>4, FS_Subset
<1>6. Cardinality(T) \in Nat
  BY <1>5, FS_CardinalityType
<1>7. y \in Claims <=> y \in S
  BY DEF S
<1>8. x \in Claims <=> x \in S
  BY DEF S
<1> QED
  BY <1>1, <1>3, <1>4, <1>5, <1>6, <1>7, <1>8

\* A step that gives no claim keeps it too.
LEMMA NoneAdded ==
    ASSUME Fields, ClaimsNeedFailures, faults' \in 0..MaxFaults, faults' <= faults,
           Claims' \subseteq Claims
    PROVE  ClaimsNeedFailures'
<1>1. IsFiniteSet(Claims) /\ Cardinality(Claims) \in Nat
  BY ClaimsFinite
<1>2. IsFiniteSet(Claims') /\ Cardinality(Claims') <= Cardinality(Claims)
  BY <1>1, FS_Subset
<1>3. Cardinality(Claims') \in Nat
  BY <1>2, FS_CardinalityType
<1>4. faults \in Nat /\ faults' \in Nat /\ MaxFaults \in Nat
  BY FormAssumption DEF Fields
<1> QED
  BY <1>1, <1>2, <1>3, <1>4 DEF ClaimsNeedFailures

-----------------------------------------------------------------------------
\* What a submission that was never sent is.
LEMMA NotSentFields ==
    /\ RequestFields(NotSent)
    /\ NotSent.row = 0 /\ NotSent.pc = "none" /\ NotSent.product = New
    /\ NotSent.reply = NoAnswer
<1>1. RequestFields(NotSent)
  BY DEF NotSent, RequestFields
<1> QED
  BY <1>1 DEF NotSent, New

LEMMA InitInv == Init => IInv
<1> SUFFICES ASSUME Init PROVE IInv
  OBVIOUS
<1> USE DEF Init
<1>1. PICK s \in SetToSeqs(Old) :
         /\ media = [m \in Media |-> IF m \in Old
                        THEN [product |-> 1, position |-> (CHOOSE i \in DOMAIN s : s[i] = m) - 1]
                        ELSE NoRow]
         /\ \E p \in {New, 1} :
              form = [pc |-> "editing", product |-> p, published |-> TRUE,
                      tiles |-> IF p = New THEN <<>> ELSE s, sent |-> 0, last |-> 0]
  OBVIOUS
<1>2. born = 2 /\ faults = MaxFaults /\ req = [k \in Submits |-> NotSent]
      /\ \A p \in Ids : p > 2 => products[p] = NoProduct
  BY DEF ListInit
<1>3. DOMAIN products = Ids /\ products = [p \in Ids |-> products[p]]
  BY DEF ListInit
<1>4. \A k \in Submits : /\ RequestFields(req[k]) /\ req[k].row = 0 /\ req[k].pc = "none"
                         /\ req[k].reply = NoAnswer
  BY <1>2, NotSentFields
<1>5. FormFields(form) /\ form.last = 0 /\ form.product \in {0, 1} /\ form.pc = "editing"
  BY <1>1 DEF FormFields, New
<1>6. media = [m \in Media |-> media[m]]
  BY <1>1
<1>7. \A m \in Media : media[m] # NoRow => MediaFields(media[m]) /\ media[m].product = 1
  BY <1>1 DEF MediaFields
<1>8. Fields
  <2>1. born \in 2..MaxProducts /\ faults \in 0..MaxFaults
    BY <1>2, ListAssumption, FormAssumption
  <2>2. req = [k \in Submits |-> req[k]]
    BY <1>2
  <2>3. form.last \in 0..MaxSubmits /\ form.product \in 0..born
    BY <1>2, <1>5, FormAssumption
  <2>4. \A k \in Submits : req[k].row \in 0..born
    BY <1>2, <1>4
  <2>5. \A m \in Media : media[m] # NoRow => media[m].product \in 1..born
    BY <1>2, <1>7
  <2> QED
    BY <1>2, <1>3, <1>4, <1>5, <1>6, <1>7, <2>1, <2>2, <2>3, <2>4, <2>5 DEF Fields
<1>9. Protocol /\ OwnProduct
  BY <1>4, <1>5 DEF Protocol, OwnProduct, Creates
<1>10. ClaimsNeedFailures
  <2>1. Added = {}
    BY <1>2 DEF Added, Alive, Ids
  <2>2. Claims \in SUBSET {0}
    BY <1>4, <2>1 DEF Claims, Pending
  <2>3. IsFiniteSet({0}) /\ Cardinality({0}) = 1
    BY FS_Singleton
  <2>4. Cardinality(Claims) <= 1
    BY <2>2, <2>3, FS_Subset
  <2> QED
    BY <1>2, <2>4, FormAssumption DEF ClaimsNeedFailures
<1> QED
  BY <1>8, <1>9, <1>10 DEF IInv

-----------------------------------------------------------------------------
(***************************************************************************)
(* The page.                                                               *)
(***************************************************************************)
\* What the page does without the server: a page that could not send may do so
\* again only after a failure.
LEMMA PageInv ==
    ASSUME IInv,
           AddFile \/ RemoveTile \/ MoveTile \/ (Submit /\ direct)
              \/ UploadFile \/ UploadRefused \/ GiveUp
    PROVE  IInv'
<1> USE DEF IInv
<1>0. UNCHANGED <<products, born, media, req>> /\ faults' \in 0..MaxFaults /\ faults' <= faults
  <2>1. UNCHANGED <<products, born, media, req>> /\ (UNCHANGED faults \/ Fault)
    BY DEF AddFile, RemoveTile, MoveTile, Arrange, Submit, UploadFile, UploadRefused, GiveUp,
           serverVars
  <2>2. faults \in 0..MaxFaults /\ MaxFaults \in Nat
    BY FormAssumption DEF Fields
  <2> QED
    BY <2>1, <2>2 DEF Fault
<1>1. /\ FormFields(form)' /\ form'.product = form.product
      /\ form'.last \in 0..MaxSubmits
      /\ form'.pc \in {"editing", "uploading"} /\ form.pc # "left"
      /\ form'.pc = "uploading" => form'.last \in Submits
      /\ form.pc = "posted" => faults' < faults
  <2>1. CASE AddFile \/ RemoveTile \/ MoveTile
    <3>1. PICK tiles : Arrange(tiles)
      BY <2>1 DEF AddFile, RemoveTile, MoveTile
    <3> QED
      BY <3>1 DEF Arrange, Fields, FormFields
  <2>2. CASE Submit /\ direct
    <3>1. /\ form.pc = "editing"
          /\ form' = [form EXCEPT !.last = form.last + 1, !.sent = 0, !.pc = "uploading"]
      BY <2>2 DEF Submit
    <3>2. form.last + 1 \in 0..MaxSubmits /\ form.last + 1 \in Submits
      BY <2>2, FormAssumption DEF Submit, Fields, Submits
    <3>3. PICK last : last = form.last + 1
      OBVIOUS
    <3>4. form' = [form EXCEPT !.last = last, !.sent = 0, !.pc = "uploading"]
      BY <3>1, <3>3
    <3> QED
      BY <3>1, <3>2, <3>3, <3>4 DEF Fields, FormFields
  <2>3. CASE UploadFile
    <3>1. form.pc = "uploading" /\ form' = [form EXCEPT !.sent = form.sent + 1]
      BY <2>3 DEF UploadFile
    <3>2. PICK sent : form' = [form EXCEPT !.sent = sent]
      BY <3>1
    <3> QED
      BY <3>1, <3>2 DEF Fields, FormFields
  <2>4. CASE UploadRefused
    <3>1. form.pc = "uploading" /\ form' = [form EXCEPT !.pc = "editing"]
      BY <2>4 DEF UploadRefused
    <3> QED
      BY <3>1 DEF Fields, FormFields
  <2>5. CASE GiveUp
    <3>1. faults' < faults
      BY <2>5, FormAssumption DEF GiveUp, Fields, Fault
    <3> QED
      BY <2>5, <3>1 DEF GiveUp, Fields, FormFields
  <2> QED
    BY <2>1, <2>2, <2>3, <2>4, <2>5
<1>2. Fields'
  BY <1>0, <1>1 DEF Fields
<1>3. Protocol' /\ OwnProduct'
  BY <1>0, <1>1 DEF Protocol, OwnProduct, Creates
<1>4. Claims' \subseteq Claims \cup {0}
  BY <1>0 DEF Claims, Added, Alive, Pending
<1>5. form.pc # "posted" => Claims' \subseteq Claims
  BY <1>0, <1>1 DEF Claims, Added, Alive, Pending, MaySend
<1>6. ClaimsNeedFailures'
  <2>1. CASE form.pc = "posted"
    <3>1. Claims' \subseteq (Claims \ {0}) \cup {0}
      BY <1>4
    <3> QED
      BY <1>0, <1>1, <2>1, <1>4, OneForOne
  <2>2. CASE form.pc # "posted"
    BY <1>0, <1>5, <2>2, NoneAdded
  <2> QED
    BY <2>1, <2>2
<1> QED
  BY <1>2, <1>3, <1>6

\* The form is sent: the page gives its claim to the submission.
LEMMA SendInv ==
    ASSUME IInv, (Submit /\ ~direct) \/ Uploaded
    PROVE  IInv'
<1> USE DEF IInv
<1>0. UNCHANGED <<products, born, media, faults>> /\ faults \in 0..MaxFaults /\ MaxFaults \in Nat
  BY FormAssumption DEF Submit, Uploaded, otherVars, Fields
<1>1. PICK k \in Submits : SendForm(k) /\ form'.last = k
  <2>1. CASE Submit /\ ~direct
    <3>1. form.last + 1 \in Submits
      BY <2>1, FormAssumption DEF Submit, Fields, Submits
    <3>2. SendForm(form.last + 1) /\ form'.last = form.last + 1
      BY <2>1 DEF Submit, Fields, FormFields
    <3> QED
      BY <3>1, <3>2
  <2>2. CASE Uploaded
    <3>1. form.last \in Submits
      BY <2>2 DEF Uploaded, Fields
    <3>2. SendForm(form.last) /\ form'.last = form.last
      BY <2>2 DEF Uploaded, Fields, FormFields
    <3> QED
      BY <3>1, <3>2
  <2> QED
    BY <2>1, <2>2
<1>2. /\ FormFields(form)' /\ form'.product = form.product /\ form'.pc = "posted"
      /\ form.pc \in {"editing", "uploading"}
  BY DEF Submit, Uploaded, Fields, FormFields
<1>3. PICK n : /\ req' = [req EXCEPT ![k] = n]
               /\ RequestFields(n) /\ n.pc = "arrived" /\ n.product = form.product
               /\ n.row = form.product /\ n.reply = NoAnswer
  <2>1. PICK blank \in BOOLEAN :
          req' = [req EXCEPT ![k] =
            [NotSent EXCEPT !.pc = "arrived", !.product = form.product, !.row = form.product,
               !.published = form.published, !.shown = form.tiles,
               !.files = Files(form.tiles), !.tokens = Tokens(form.tiles), !.blank = blank]]
    BY <1>1 DEF SendForm
  <2>2. PICK n :
          n = [NotSent EXCEPT !.pc = "arrived", !.product = form.product, !.row = form.product,
                 !.published = form.published, !.shown = form.tiles,
                 !.files = Files(form.tiles), !.tokens = Tokens(form.tiles), !.blank = blank]
    OBVIOUS
  <2>3. req' = [req EXCEPT ![k] = n]
    BY <2>1, <2>2
  <2>4. NotSent = [pc |-> NotSent.pc, product |-> NotSent.product, row |-> NotSent.row,
           published |-> NotSent.published, shown |-> NotSent.shown, files |-> NotSent.files,
           tokens |-> NotSent.tokens, blank |-> NotSent.blank, seen |-> NotSent.seen,
           loaded |-> NotSent.loaded, ordered |-> NotSent.ordered,
           rejected |-> NotSent.rejected, reply |-> NotSent.reply]
    BY NotSentFields DEF RequestFields
  <2>5. n = [pc |-> "arrived", product |-> form.product, row |-> form.product,
             published |-> form.published, shown |-> form.tiles,
             files |-> Files(form.tiles), tokens |-> Tokens(form.tiles), blank |-> blank,
             seen |-> NotSent.seen, loaded |-> NotSent.loaded, ordered |-> NotSent.ordered,
             rejected |-> NotSent.rejected, reply |-> NotSent.reply]
    BY <2>2, <2>4
  <2>6. /\ RequestFields(n) /\ n.pc = "arrived" /\ n.product = form.product
        /\ n.row = form.product /\ n.reply = NoAnswer
    BY <2>5, NotSentFields DEF RequestFields
  <2> QED
    BY <2>3, <2>6
<1>4. req' = [j \in Submits |-> IF j = k THEN n ELSE req[j]]
  BY <1>3 DEF Fields
<1>5. Fields'
  <2>1. k \in 0..MaxSubmits
    BY FormAssumption DEF Submits
  <2>2. \A j \in Submits : RequestFields(req'[j]) /\ req'[j].row \in 0..born
    BY <1>3, <1>4 DEF Fields
  <2>3. req' = [j \in Submits |-> req'[j]]
    BY <1>4
  <2> QED
    BY <1>0, <1>1, <1>2, <2>1, <2>2, <2>3 DEF Fields
<1>6. Protocol'
  BY <1>1, <1>2, <1>3, <1>4 DEF Protocol
<1>7. OwnProduct'
  BY <1>0, <1>2, <1>3, <1>4 DEF OwnProduct, Creates
<1>8. Claims' \subseteq (Claims \ {0}) \cup {-k} \/ Claims' \subseteq Claims
  <2>1. \A j \in Submits : j # k => (Pending(j)' <=> Pending(j))
    BY <1>4 DEF Pending
  <2>2. Pending(k)' <=> form.product = New
    BY <1>3, <1>4 DEF Pending
  <2>3. Added' = Added /\ 0 \notin Added /\ \A j \in Submits : -j # 0
    BY <1>0, FormAssumption DEF Added, Alive, Ids, Submits
  <2>4. MaySend <=> form.product = New
    BY <1>2 DEF MaySend
  <2>5. ~MaySend'
    BY <1>1, <1>2, <1>3, <1>4, <2>2 DEF MaySend
  <2> QED
    BY <2>1, <2>2, <2>3, <2>5 DEF Claims
<1>9. \/ Claims' \subseteq (Claims \ {0}) \cup {-k} /\ 0 \in Claims
      \/ Claims' \subseteq Claims
  <2>1. CASE form.product = New
    <3>1. MaySend
      BY <1>2, <2>1 DEF MaySend
    <3> QED
      BY <1>8, <3>1 DEF Claims
  <2>2. CASE form.product # New
    <3>1. \A j \in Submits : Pending(j)' => Pending(j)
      BY <1>3, <1>4, <2>2 DEF Pending
    <3>2. ~MaySend'
      BY <1>2, <2>2 DEF MaySend
    <3>3. Added' = Added
      BY <1>0 DEF Added, Alive
    <3> QED
      BY <3>1, <3>2, <3>3 DEF Claims
  <2> QED
    BY <2>1, <2>2
<1>10. ClaimsNeedFailures'
  BY <1>0, <1>9, OneForOne, NoneAdded
<1> QED
  BY <1>5, <1>6, <1>7, <1>10

\* The answer: a page may send again if the submission made no product.
LEMMA AnswerInv ==
    ASSUME IInv, NEW k \in Submits, Answer(k)
    PROVE  IInv'
<1> USE DEF IInv
<1>0. /\ UNCHANGED <<products, born, media, req, faults>>
      /\ faults \in 0..MaxFaults /\ MaxFaults \in Nat
  BY FormAssumption DEF Answer, serverVars, Fields
<1>1. /\ form.pc = "posted" /\ form.last = k /\ req[k].pc = "done"
  BY DEF Answer, Protocol
<1>2. /\ FormFields(form)' /\ form'.last = k /\ form'.pc \in {"editing", "left"}
      /\ form'.product \in {form.product, req[k].row}
      /\ form'.pc = "editing" =>
            \/ /\ form'.product = form.product
               /\ req[k].reply \in {"error", "invalid"} \/ req[k].row \notin Alive
            \/ form'.product = req[k].row /\ req[k].row \in Alive
  <2>1. CASE req[k].reply \in {"list", "login"}
    <3>1. form' = [form EXCEPT !.pc = "left"]
      BY <2>1 DEF Answer
    <3> QED
      BY <1>1, <3>1 DEF Fields, FormFields
  <2>2. CASE req[k].reply = "invalid"
    <3>1. form' = Opened(form.product, req[k].ordered)
      BY <2>2 DEF Answer
    <3> QED
      BY <1>1, <2>2, <3>1 DEF Fields, FormFields, Opened
  <2>3. CASE req[k].reply = "edit" /\ req[k].row \in Alive
    <3>1. PICK tiles : form' = Edited(req[k].row, tiles)
      BY <2>3 DEF Answer
    <3> QED
      BY <1>1, <2>3, <3>1 DEF Fields, FormFields, Opened, Edited
  <2>4. CASE \/ req[k].reply = "error"
             \/ req[k].reply = "edit" /\ req[k].row \notin Alive
    <3>1. form' = [form EXCEPT !.pc = "editing"]
      BY <2>4 DEF Answer
    <3> QED
      BY <1>1, <2>4, <3>1 DEF Fields, FormFields
  <2> QED
    BY <1>1, <2>1, <2>2, <2>3, <2>4 DEF Protocol
<1>3. Fields'
  <2>1. form'.product \in 0..born
    <3>1. form.product \in 0..born /\ req[k].row \in 0..born
      BY DEF Fields
    <3> QED
      BY <1>2, <3>1
  <2> QED
    BY <1>0, <1>1, <1>2, <2>1 DEF Fields
<1>4. Protocol'
  BY <1>0, <1>2 DEF Protocol
<1>5. OwnProduct'
  <2>1. \A j \in Submits : Creates(j) =>
           j # k /\ req[j].row # form.product /\ req[j].row # req[k].row
    BY <1>1 DEF OwnProduct, Creates
  <2> QED
    BY <1>0, <1>2, <2>1 DEF OwnProduct, Creates
<1>6. Claims' \subseteq Claims
  <2>1. Added' = Added /\ \A j \in Submits : Pending(j)' <=> Pending(j)
    BY <1>0 DEF Added, Alive, Pending
  <2>2. MaySend' => MaySend
    <3>1. ~Pending(k)
      BY <1>1 DEF Pending
    <3>2. New \notin Alive
      BY DEF New, Alive, Ids
    <3> QED
      BY <1>1, <1>2, <3>1, <3>2 DEF MaySend, Added
  <2> QED
    BY <2>1, <2>2 DEF Claims
<1> QED
  BY <1>0, <1>3, <1>4, <1>5, <1>6, NoneAdded

-----------------------------------------------------------------------------
(***************************************************************************)
(* The server.                                                             *)
(***************************************************************************)
\* What an answered request is.
LEMMA DoneRecord ==
    ASSUME NEW k \in Submits, NEW reply
    PROVE  \E n : /\ Done(k, reply) = [req EXCEPT ![k] = n]
                  /\ RequestFields(n) /\ n.pc = "done" /\ n.product = New
                  /\ n.row = req[k].row /\ n.reply = reply
<1>1. PICK n : n = [NotSent EXCEPT !.pc = "done", !.row = req[k].row, !.reply = reply]
  OBVIOUS
<1>2. Done(k, reply) = [req EXCEPT ![k] = n]
  BY <1>1 DEF Done
<1>3. /\ n.pc = "done" /\ n.product = New /\ n.row = req[k].row /\ n.reply = reply
      /\ RequestFields(n)
  <2>1. NotSent = [pc |-> NotSent.pc, product |-> NotSent.product, row |-> NotSent.row,
           published |-> NotSent.published, shown |-> NotSent.shown, files |-> NotSent.files,
           tokens |-> NotSent.tokens, blank |-> NotSent.blank, seen |-> NotSent.seen,
           loaded |-> NotSent.loaded, ordered |-> NotSent.ordered,
           rejected |-> NotSent.rejected, reply |-> NotSent.reply]
    BY NotSentFields DEF RequestFields
  <2>2. n = [pc |-> "done", product |-> NotSent.product, row |-> req[k].row,
             published |-> NotSent.published,
             shown |-> NotSent.shown, files |-> NotSent.files, tokens |-> NotSent.tokens,
             blank |-> NotSent.blank,
             seen |-> NotSent.seen, loaded |-> NotSent.loaded, ordered |-> NotSent.ordered,
             rejected |-> NotSent.rejected, reply |-> reply]
    BY <1>1, <2>1
  <2> QED
    BY <2>2, NotSentFields DEF RequestFields
<1> QED
  BY <1>2, <1>3

\* What a request becomes in a step that changes no product and no medium: it
\* stays on its way, or it is done, and then it has made no product or
\* something failed.
Becomes(k, n) ==
    /\ req' = [req EXCEPT ![k] = n]
    /\ RequestFields(n) /\ n.row = req[k].row /\ req[k].pc # "done"
    /\ \/ /\ n.pc = "done" /\ n.product = New
          /\ n.reply \in {"list", "edit", "login", "invalid", "error"}
          /\ \/ Pending(k) \/ req[k].product # New \/ req[k].row \notin Added
             \/ faults' < faults
       \/ /\ n.reply = NoAnswer /\ n.product = req[k].product
          /\ n.pc = "insert" => n.product = New
          /\ n.product = New =>
                \/ Pending(k) /\ n.pc = "insert"
                \/ /\ Creates(k) /\ n.pc \in {"tokens", "commit"}
                   /\ \A m \in Media : n.loaded[m] = NoRow
          /\ n.pc \in {"insert", "load", "tokens", "commit"}

LEMMA BecomesInv ==
    ASSUME IInv, NEW k \in Submits, NEW n, Becomes(k, n),
           UNCHANGED <<products, born, media, form>>,
           UNCHANGED faults \/ Fault
    PROVE  IInv'
<1> USE DEF IInv
<1> DEFINE q == req[k]
<1>0. faults' \in 0..MaxFaults /\ faults' <= faults
  BY FormAssumption DEF Fields, Fault
<1>1. req' = [j \in Submits |-> IF j = k THEN n ELSE req[j]]
  BY DEF Becomes, Fields
<1>2. Fields'
  <2>1. \A j \in Submits : RequestFields(req'[j]) /\ req'[j].row \in 0..born
    BY <1>1 DEF Fields, Becomes
  <2>2. req' = [j \in Submits |-> req'[j]]
    BY <1>1
  <2> QED
    BY <1>0, <2>1, <2>2 DEF Fields
<1>3. Protocol'
  BY <1>1 DEF Protocol, Becomes, Fields
<1>4. OwnProduct'
  <2>1. \A j \in Submits : req'[j].row = req[j].row
    BY <1>1 DEF Becomes
  <2>2. \A j \in Submits : Creates(j)' => Creates(j)
    BY <1>1 DEF Becomes, Creates
  <2>3. \A j \in Submits : j # k => req'[j] = req[j]
    BY <1>1
  <2>4. Creates(k)' => n.pc # "load" /\ \A m \in Media : n.loaded[m] = NoRow
    BY <1>1 DEF Becomes, Creates
  <2>5. req'[k] = n
    BY <1>1
  <2> QED
    BY <2>1, <2>2, <2>3, <2>4, <2>5 DEF OwnProduct
<1>5. \A j \in Submits : Pending(j)' => Pending(j)
  BY <1>1 DEF Pending, Becomes, Creates
<1>6. Added' = Added
  BY DEF Added, Alive
<1>7. Claims' \subseteq (Claims \ {0}) \cup {0}
  BY <1>5, <1>6 DEF Claims
<1>8. CASE Pending(k) /\ ~Pending(k)'
  <2>1. -k \in Claims
    BY <1>8 DEF Claims
  <2>2. Claims' \subseteq (Claims \ {-k}) \cup {0}
    <3>1. -k \notin Added /\ \A j \in Submits : -j = -k => j = k
      BY DEF Added, Alive, Ids, Submits
    <3> QED
      BY <1>5, <1>6, <1>8, <3>1 DEF Claims
  <2> QED
    BY <1>0, <1>2, <1>3, <1>4, <2>1, <2>2, OneForOne
<1>9. CASE faults' < faults
  BY <1>0, <1>2, <1>3, <1>4, <1>7, <1>9, OneForOne
<1>10. CASE ~(faults' < faults) /\ (Pending(k) => Pending(k)')
  <2>1. MaySend' => MaySend
    <3> SUFFICES ASSUME MaySend' PROVE MaySend
      OBVIOUS
    <3>1. form.product = New /\ form.pc # "left"
      BY DEF MaySend
    <3>2. CASE form.pc # "posted" \/ form.last # k
      <4>1. form.pc = "posted" => form.last \in Submits
        BY DEF Fields
      <4>2. form.pc = "posted" => req'[form.last] = req[form.last]
        BY <1>1, <3>2, <4>1
      <4> QED
        BY <1>6, <3>1, <4>2 DEF MaySend, Pending
    <3>3. CASE form.pc = "posted" /\ form.last = k
      <4>1. q.product = New
        BY <3>1, <3>3 DEF Protocol, Becomes
      <4>2. req'[k] = n /\ n.row = q.row
        BY <1>1 DEF Becomes
      <4>3. CASE n.pc = "done"
        <5>1. ~Pending(k)'
          BY <4>2, <4>3 DEF Pending
        <5>2. q.row \notin Added
          BY <1>10, <4>1, <4>3, <5>1 DEF Becomes
        <5> QED
          BY <1>10, <3>1, <3>3, <5>1, <5>2 DEF MaySend
      <4>4. CASE n.pc # "done"
        <5>1. ~Pending(k)' /\ q.row \notin Added
          BY <1>6, <3>3, <4>2, <4>4 DEF MaySend
        <5> QED
          BY <1>10, <3>1, <3>3, <5>1 DEF MaySend
      <4> QED
        BY <4>3, <4>4
    <3> QED
      BY <3>2, <3>3
  <2>2. Claims' \subseteq Claims
    BY <1>5, <1>6, <2>1 DEF Claims
  <2> QED
    BY <1>0, <1>2, <1>3, <1>4, <2>2, NoneAdded
<1> QED
  BY <1>8, <1>9, <1>10

\* Every step of the server but the creation and the save that succeeds.
LEMMA QuietInv ==
    ASSUME IInv, NEW k \in Submits,
           Refuse(k) \/ Accept(k) \/ Load(k) \/ Take(k) \/ NamesTaken(k) \/ Abort(k)
              \/ (Commit(k) /\ UNCHANGED <<products, media>> /\ req' = Done(k, "error")
                    /\ (Refused(req[k]) \/ req[k].row \notin Alive))
    PROVE  IInv'
<1> USE DEF IInv
<1> DEFINE q == req[k]
<1>0. /\ UNCHANGED <<products, born, media, form>> /\ (UNCHANGED faults \/ Fault)
      /\ q.pc \in {"arrived", "insert", "load", "tokens", "commit"}
  BY DEF Refuse, Accept, Load, Take, NamesTaken, Abort, Commit
<1>1. /\ q.reply = NoAnswer /\ RequestFields(q)
      /\ q.pc = "insert" => q.product = New
      /\ Creates(k) /\ q.pc # "load" => \A m \in Media : q.loaded[m] = NoRow
  BY <1>0 DEF Protocol, Fields, OwnProduct
<1>2. q.product = New => Pending(k) \/ Creates(k)
  BY <1>0 DEF Pending, Creates
<1> SUFFICES \E n : Becomes(k, n)
  BY <1>0, BecomesInv
<1>3. ASSUME NEW reply \in {"login", "invalid", "error"}, req' = Done(k, reply),
             \/ Pending(k) \/ q.product # New \/ q.row \notin Added
             \/ faults' < faults
      PROVE  \E n : Becomes(k, n)
  BY <1>0, <1>3, DoneRecord DEF Becomes
<1>4. CASE Refuse(k)
  <2>1. Pending(k) \/ q.product # New
    BY <1>4 DEF Refuse, Pending
  <2>2. CASE \E reply \in {"login", "error"} : req' = Done(k, reply)
    BY <1>3, <2>1, <2>2
  <2>3. CASE \E s : req' = [Done(k, "invalid") EXCEPT ![k].ordered = s]
    <3>1. PICK s : req' = [Done(k, "invalid") EXCEPT ![k].ordered = s]
      BY <2>3
    <3>2. PICK d : /\ Done(k, "invalid") = [req EXCEPT ![k] = d]
                   /\ RequestFields(d) /\ d.pc = "done" /\ d.product = New
                   /\ d.row = q.row /\ d.reply = "invalid"
      BY DoneRecord
    <3>3. PICK n : n = [d EXCEPT !.ordered = s]
      OBVIOUS
    <3>4. req' = [req EXCEPT ![k] = n]
      BY <3>1, <3>2, <3>3 DEF Fields
    <3>5. /\ RequestFields(n) /\ n.pc = "done" /\ n.product = New
          /\ n.row = q.row /\ n.reply = "invalid"
      BY <3>2, <3>3 DEF RequestFields
    <3> QED
      BY <1>0, <2>1, <3>4, <3>5 DEF Becomes
  <2> QED
    BY <1>4, <2>2, <2>3 DEF Refuse
<1>5. CASE Accept(k)
  <2>1. PICK seen, pc : /\ req' = [req EXCEPT ![k].seen = seen, ![k].pc = pc]
                        /\ pc = IF q.product = New THEN "insert" ELSE "load"
    BY <1>5 DEF Accept
  <2>2. PICK n : n = [q EXCEPT !.seen = seen, !.pc = pc]
    OBVIOUS
  <2>3. req' = [req EXCEPT ![k] = n]
    BY <2>1, <2>2 DEF Fields
  <2>4. /\ RequestFields(n) /\ n.row = q.row /\ n.product = q.product /\ n.reply = q.reply
        /\ n.pc = pc
    BY <1>1, <2>2 DEF RequestFields
  <2>5. q.product = New => Pending(k)
    BY <1>5 DEF Accept, Pending
  <2> QED
    BY <1>0, <1>1, <2>1, <2>3, <2>4, <2>5 DEF Becomes
<1>6. CASE Load(k)
  <2>1. CASE q.product = New /\ q.row \notin Alive
    <3>1. req' = Done(k, "error") /\ q.row \notin Added
      BY <1>6, <2>1 DEF Load, Added
    <3> QED
      BY <1>3, <3>1
  <2>2. CASE ~(q.product = New /\ q.row \notin Alive)
    <3>1. PICK loaded : loaded = [m \in Media |-> IF m \in RowsOf(media, q.row)
                                                  THEN media[m] ELSE NoRow]
      OBVIOUS
    <3>2. req' = [req EXCEPT ![k].pc = "tokens", ![k].loaded = loaded] /\ q.pc = "load"
      BY <1>6, <2>2, <3>1 DEF Load
    <3>3. PICK n : n = [q EXCEPT !.pc = "tokens", !.loaded = loaded]
      OBVIOUS
    <3>4. req' = [req EXCEPT ![k] = n]
      BY <3>2, <3>3 DEF Fields
    <3>5. /\ RequestFields(n) /\ n.row = q.row /\ n.product = q.product /\ n.reply = q.reply
          /\ n.pc = "tokens" /\ n.loaded = loaded
      BY <1>1, <3>3 DEF RequestFields
    <3>6. q.product = New => Creates(k) /\ \A m \in Media : loaded[m] = NoRow
      BY <3>1, <3>2 DEF Creates, OwnProduct, RowsOf
    <3> QED
      BY <1>0, <1>1, <3>4, <3>5, <3>6 DEF Becomes
  <2> QED
    BY <2>1, <2>2
<1>7. CASE Take(k) \/ NamesTaken(k)
  <2>1. q.pc = "tokens"
    BY <1>7 DEF Take, NamesTaken
  <2>2. \E n : /\ req' = [req EXCEPT ![k] = n]
               /\ RequestFields(n) /\ n.row = q.row /\ n.product = q.product
               /\ n.reply = q.reply /\ n.loaded = q.loaded /\ n.pc \in {"tokens", "commit"}
    <3>1. CASE Take(k)
      <4>1. PICK p : p = [q EXCEPT !.tokens = Tail(@)]
        OBVIOUS
      <4>2. \/ req' = [req EXCEPT ![k] = p]
            \/ \E m : req' = [req EXCEPT ![k] = Took(p, m)]
            \/ \E f : req' = [req EXCEPT ![k] = Rejected(p, f)]
        BY <3>1, <4>1 DEF Take
      <4>3. PICK rest : p = [q EXCEPT !.tokens = rest]
        BY <4>1
      <4>4. /\ RequestFields(p) /\ p.row = q.row /\ p.product = q.product
            /\ p.reply = q.reply /\ p.loaded = q.loaded /\ p.pc = q.pc
        BY <1>1, <4>3 DEF RequestFields
      <4>5. CASE req' = [req EXCEPT ![k] = p]
        BY <2>1, <4>4, <4>5
      <4>6. ASSUME NEW m, req' = [req EXCEPT ![k] = Took(p, m)]
            PROVE  \E n : /\ req' = [req EXCEPT ![k] = n]
                          /\ RequestFields(n) /\ n.row = q.row /\ n.product = q.product
                          /\ n.reply = q.reply /\ n.loaded = q.loaded
                          /\ n.pc \in {"tokens", "commit"}
        <5>1. CASE Took(p, m) = p
          BY <2>1, <4>4, <4>6, <5>1
        <5>2. CASE Took(p, m) # p
          <6>1. PICK ordered : Took(p, m) = [p EXCEPT !.ordered = ordered]
            BY <5>2 DEF Took
          <6>2. PICK n : n = [p EXCEPT !.ordered = ordered]
            OBVIOUS
          <6>3. /\ RequestFields(n) /\ n.row = q.row /\ n.product = q.product
                /\ n.reply = q.reply /\ n.loaded = q.loaded /\ n.pc = q.pc
            BY <4>4, <6>2 DEF RequestFields
          <6> QED
            BY <2>1, <4>6, <6>1, <6>2, <6>3
        <5> QED
          BY <5>1, <5>2
      <4>7. ASSUME NEW f, req' = [req EXCEPT ![k] = Rejected(p, f)]
            PROVE  \E n : /\ req' = [req EXCEPT ![k] = n]
                          /\ RequestFields(n) /\ n.row = q.row /\ n.product = q.product
                          /\ n.reply = q.reply /\ n.loaded = q.loaded
                          /\ n.pc \in {"tokens", "commit"}
        <5>1. PICK rejected : Rejected(p, f) = [p EXCEPT !.rejected = rejected]
          BY DEF Rejected
        <5>2. PICK n : n = [p EXCEPT !.rejected = rejected]
          OBVIOUS
        <5>3. /\ RequestFields(n) /\ n.row = q.row /\ n.product = q.product
              /\ n.reply = q.reply /\ n.loaded = q.loaded /\ n.pc = q.pc
          BY <4>4, <5>2 DEF RequestFields
        <5> QED
          BY <2>1, <4>7, <5>1, <5>2, <5>3
      <4> QED
        BY <4>2, <4>5, <4>6, <4>7
    <3>2. CASE NamesTaken(k)
      <4>1. PICK n : n = [q EXCEPT !.pc = "commit"]
        OBVIOUS
      <4>2. req' = [req EXCEPT ![k] = n]
        BY <3>2, <4>1 DEF NamesTaken, Fields
      <4>3. /\ RequestFields(n) /\ n.row = q.row /\ n.product = q.product
            /\ n.reply = q.reply /\ n.loaded = q.loaded /\ n.pc = "commit"
        BY <1>1, <4>1 DEF RequestFields
      <4> QED
        BY <4>2, <4>3
    <3> QED
      BY <1>7, <3>1, <3>2
  <2>3. q.product = New => Creates(k) /\ \A m \in Media : q.loaded[m] = NoRow
    BY <1>1, <2>1 DEF Creates
  <2> QED
    BY <1>0, <1>1, <2>2, <2>3 DEF Becomes
<1>8. CASE Abort(k)
  <2>1. req' = Done(k, "error") /\ faults' < faults
    BY <1>8, FormAssumption DEF Abort, Fault, Fields
  <2> QED
    BY <1>3, <2>1
<1>9. CASE Commit(k) /\ req' = Done(k, "error") /\ (Refused(q) \/ q.row \notin Alive)
  <2>1. CASE q.row \notin Alive \/ q.product # New
    BY <1>3, <1>9, <2>1 DEF Added
  <2>2. CASE q.row \in Alive /\ q.product = New
    <3>1. q.pc = "commit" /\ \A m \in Media : q.loaded[m] = NoRow
      BY <1>1, <1>2, <1>9, <2>2 DEF Commit, Pending
    <3>2. Changed(q) = {}
      BY <3>1 DEF Changed
    <3>3. ~Refused(q)
      BY <2>2, <3>2 DEF Refused
    <3> QED
      BY <1>9, <2>2, <3>3
  <2> QED
    BY <2>1, <2>2
<1> QED
  BY <1>4, <1>5, <1>6, <1>7, <1>8, <1>9

\* The product of a creation takes the claim of its submission; if it cannot be
\* told from no product, the page has it.
LEMMA InsertInv ==
    ASSUME IInv, NEW k \in Submits, Insert(k)
    PROVE  IInv'
<1> USE DEF IInv
<1> DEFINE q == req[k]
<1>0. /\ UNCHANGED <<media, form, faults>> /\ faults \in 0..MaxFaults /\ MaxFaults \in Nat
      /\ q.pc = "insert" /\ q.product = New /\ q.reply = NoAnswer /\ RequestFields(q)
      /\ born' = born + 1 /\ born \in 2..MaxProducts /\ born' \in 2..MaxProducts
      /\ MaxProducts \in Nat
  BY ListAssumption, FormAssumption DEF Insert, Protocol, Fields
<1>1. PICK row : products' = [products EXCEPT ![born'] = row]
  BY DEF Insert
<1>2. PICK n : /\ req' = [req EXCEPT ![k] = n]
               /\ RequestFields(n) /\ n.row = born' /\ n.product = New
               /\ n.reply = NoAnswer /\ n.pc = "load"
  <2>1. PICK next : next = born'
    OBVIOUS
  <2>2. PICK seen : seen = products'
    OBVIOUS
  <2>3. PICK n : n = [q EXCEPT !.pc = "load", !.row = next, !.seen = seen]
    OBVIOUS
  <2>4. req' = [req EXCEPT ![k].pc = "load", ![k].row = next, ![k].seen = seen]
    BY <2>1, <2>2 DEF Insert
  <2>5. req' = [req EXCEPT ![k] = n]
    BY <2>3, <2>4 DEF Fields
  <2>6. RequestFields(n) /\ n.row = next /\ n.product = New /\ n.reply = NoAnswer /\ n.pc = "load"
    BY <1>0, <2>3 DEF RequestFields
  <2> QED
    BY <2>1, <2>5, <2>6
<1>3. req' = [j \in Submits |-> IF j = k THEN n ELSE req[j]]
  BY <1>2 DEF Fields
<1>4. /\ DOMAIN products' = Ids /\ products' = [p \in Ids |-> products'[p]]
      /\ \A p \in Ids : p # born' => products'[p] = products[p]
  BY <1>1 DEF Fields
<1>5. \A j \in Submits : req[j].row \in 0..born
  BY DEF Fields
<1>6. Fields'
  <2>1. \A j \in Submits : RequestFields(req'[j]) /\ req'[j].row \in 0..born'
    <3> SUFFICES ASSUME NEW j \in Submits
                 PROVE  RequestFields(req'[j]) /\ req'[j].row \in 0..born'
      OBVIOUS
    <3>1. CASE j = k
      BY <1>0, <1>2, <1>3, <3>1
    <3>2. CASE j # k
      <4>1. req'[j] = req[j] /\ RequestFields(req[j])
        BY <1>3, <3>2 DEF Fields
      <4>2. req[j].row \in 0..born'
        BY <1>0, <1>5
      <4> QED
        BY <4>1, <4>2
    <3> QED
      BY <3>1, <3>2
  <2>2. req' = [j \in Submits |-> req'[j]]
    BY <1>3
  <2>3. form'.product \in 0..born'
    <3>1. form.product \in 0..born
      BY DEF Fields
    <3> QED
      BY <1>0, <3>1
  <2>4. \A m \in Media : media[m] # NoRow => MediaFields(media[m]) /\ media[m].product \in 1..born'
    <3>1. \A m \in Media : media[m] # NoRow => MediaFields(media[m]) /\ media[m].product \in 1..born
      BY DEF Fields
    <3> QED
      BY <1>0, <3>1
  <2> QED
    BY <1>0, <1>4, <2>1, <2>2, <2>3, <2>4 DEF Fields
<1>7. Protocol'
  BY <1>0, <1>2, <1>3 DEF Protocol, Fields
<1>8. OwnProduct'
  <2>1. form.product # born' /\ \A m \in Media : media[m] # NoRow => media[m].product # born'
    BY <1>0 DEF Fields
  <2>2. \A j \in Submits : req[j].row # born'
    BY <1>0, <1>5
  <2>3. born' # New
    BY <1>0 DEF New
  <2> QED
    BY <1>0, <1>2, <1>3, <2>1, <2>2, <2>3 DEF OwnProduct, Creates
<1>9. /\ Pending(k) /\ ~Pending(k)'
      /\ \A j \in Submits : j # k => (Pending(j)' <=> Pending(j))
  BY <1>0, <1>2, <1>3 DEF Pending
<1>10. -k \in Claims
  BY <1>9 DEF Claims
<1>11. Added' \subseteq Added \cup {born'}
  BY <1>4 DEF Added, Alive
<1>12. -k # 0 /\ \A j \in Submits : -j = -k => j = k
  BY DEF Submits
<1>13. -k \notin Ids
  BY DEF Submits, Ids
<1>14. Claims' \subseteq (Claims \ {-k}) \cup {born'} \/ Claims' \subseteq (Claims \ {-k}) \cup {0}
  <2>1. CASE born' \in Added'
    <3>1. MaySend' => MaySend
      <4> SUFFICES ASSUME MaySend' PROVE MaySend
        OBVIOUS
      <4>1. CASE form.pc # "posted"
        BY <1>0, <4>1 DEF MaySend
      <4>2. CASE form.pc = "posted" /\ form.last = k
        <5>1. ~MaySend'
          BY <1>0, <1>2, <1>3, <2>1, <4>2 DEF MaySend
        <5> QED
          BY <5>1
      <4>3. CASE form.pc = "posted" /\ form.last # k
        <5>1. form.last \in Submits
          BY <4>3 DEF Fields
        <5>2. req'[form.last] = req[form.last] /\ (Pending(form.last)' <=> Pending(form.last))
          BY <1>0, <1>3, <4>3, <5>1 DEF Pending
        <5>3. req[form.last].row # born'
          BY <1>0, <1>5, <5>1
        <5>4. req[form.last].row \in Added => req[form.last].row \in Added'
          BY <1>4, <5>3 DEF Added, Alive
        <5> QED
          BY <1>0, <4>3, <5>1, <5>2, <5>4 DEF MaySend
      <4> QED
        BY <4>1, <4>2, <4>3
    <3> QED
      BY <1>9, <1>11, <1>12, <1>13, <3>1 DEF Claims, Added, Alive
  <2>2. CASE born' \notin Added'
    <3>1. Added' \subseteq Added
      BY <1>11, <2>2
    <3> QED
      BY <1>9, <1>12, <1>13, <3>1 DEF Claims, Added, Alive
  <2> QED
    BY <2>1, <2>2
<1>15. ClaimsNeedFailures'
  BY <1>0, <1>10, <1>14, OneForOne
<1> QED
  BY <1>6, <1>7, <1>8, <1>15

\* Products may go and media with them; new media belong to product r, which no
\* creation on its way has; and a save may end well.
FewerProducts ==
    /\ DOMAIN products' = Ids /\ products' = [p \in Ids |-> products'[p]]
    /\ Alive' \subseteq Alive

MediaFrom(r) ==
    /\ r \in 1..born => \A j \in Submits : Creates(j) /\ req[j].pc = "load" => req[j].row # r
    /\ media' = [m \in Media |-> media'[m]]
    /\ \A m \in Media : media'[m] # NoRow =>
          /\ MediaFields(media'[m])
          /\ \/ media[m] # NoRow /\ media'[m].product = media[m].product
             \/ r \in 1..born /\ media'[m].product = r

SaveEnds(k, n) ==
    /\ req' = [req EXCEPT ![k] = n]
    /\ RequestFields(n) /\ n.pc = "done" /\ n.product = New /\ n.row = req[k].row
    /\ n.reply \in {"list", "edit"} /\ req[k].pc = "commit"

\* Such a step gives no claim but perhaps that of a product that went to the page
\* that sent it.
LEMMA FewerInv ==
    ASSUME IInv, UNCHANGED <<born, form, faults>>,
           FewerProducts, NEW r, MediaFrom(r),
           UNCHANGED req \/ \E k \in Submits : \E n : SaveEnds(k, n)
    PROVE  IInv'
<1> USE DEF IInv
<1>0. faults \in 0..MaxFaults /\ MaxFaults \in Nat
  BY FormAssumption DEF Fields
<1>1. /\ req' = [j \in Submits |-> req'[j]]
      /\ \A j \in Submits :
           \/ req'[j] = req[j]
           \/ /\ RequestFields(req'[j]) /\ req'[j].pc = "done" /\ req'[j].product = New
              /\ req'[j].row = req[j].row
              /\ req'[j].reply \in {"list", "edit"} /\ req[j].pc = "commit"
  <2>1. CASE UNCHANGED req
    BY <2>1 DEF Fields
  <2>2. ASSUME NEW k \in Submits, NEW n, SaveEnds(k, n)
        PROVE  /\ req' = [j \in Submits |-> req'[j]]
               /\ \A j \in Submits :
                    \/ req'[j] = req[j]
                    \/ /\ RequestFields(req'[j]) /\ req'[j].pc = "done" /\ req'[j].product = New
                       /\ req'[j].row = req[j].row
                       /\ req'[j].reply \in {"list", "edit"} /\ req[j].pc = "commit"
    <3>1. req' = [j \in Submits |-> IF j = k THEN n ELSE req[j]]
      BY <2>2 DEF Fields, SaveEnds
    <3> QED
      BY <2>2, <3>1 DEF SaveEnds
  <2> QED
    BY <2>1, <2>2
<1>2. Fields'
  <2>1. \A j \in Submits : RequestFields(req'[j]) /\ req'[j].row \in 0..born
    BY <1>1 DEF Fields
  <2>2. \A m \in Media : media'[m] # NoRow => media'[m].product \in 1..born
    BY DEF Fields, MediaFrom
  <2> QED
    BY <1>0, <1>1, <2>1, <2>2 DEF Fields, FewerProducts, MediaFrom
<1>3. Protocol'
  BY <1>1 DEF Protocol, Fields
<1>4. /\ \A j \in Submits : req'[j].row = req[j].row /\ (Creates(j)' => req'[j] = req[j])
      /\ \A j \in Submits : Creates(j)' => Creates(j)
  BY <1>1 DEF Creates
<1>5. OwnProduct'
  <2> SUFFICES ASSUME NEW k \in Submits, Creates(k)'
               PROVE  /\ req'[k].row # New /\ req'[k].row # form.product
                      /\ \A j \in Submits \ {k} : req'[j].row # req'[k].row
                      /\ req'[k].pc = "load" =>
                            \A m \in Media : media'[m] # NoRow => media'[m].product # req'[k].row
                      /\ req'[k].pc # "load" => \A m \in Media : req'[k].loaded[m] = NoRow
    BY DEF OwnProduct
  <2>1. Creates(k) /\ req'[k] = req[k]
    BY <1>4
  <2>2. req[k].pc = "load" => \A m \in Media : media'[m] # NoRow => media'[m].product # req[k].row
    BY <2>1 DEF OwnProduct, MediaFrom
  <2> QED
    BY <1>4, <2>1, <2>2 DEF OwnProduct
<1>6. \A j \in Submits : Pending(j)' <=> Pending(j)
  BY <1>1 DEF Pending
<1>7. Added' \subseteq Added
  BY DEF Added, FewerProducts
<1>8. CASE MaySend' => MaySend
  <2>1. Claims' \subseteq Claims
    BY <1>6, <1>7, <1>8 DEF Claims
  <2> QED
    BY <1>0, <1>2, <1>3, <1>5, <2>1, NoneAdded
<1>9. CASE MaySend' /\ ~MaySend
  <2>1. /\ form.product = New /\ form.pc = "posted" /\ form.last \in Submits
        /\ ~(~Pending(form.last) /\ req[form.last].row \notin Added)
    BY <1>9 DEF MaySend, Fields
  <2>2. /\ ~Pending(form.last) /\ req'[form.last].row \notin Added'
    <3>1. \/ ~Pending(form.last)' /\ req'[form.last].row \notin Added'
          \/ req'[form.last].pc = "done" /\ req'[form.last].reply \in {"error", "invalid"}
      BY <1>9, <2>1 DEF MaySend
    <3>2. ~(req'[form.last].pc = "done" /\ req'[form.last].reply \in {"error", "invalid"})
      BY <1>1, <1>9, <2>1 DEF MaySend
    <3>3. Pending(form.last)' <=> Pending(form.last)
      BY <1>1, <2>1 DEF Pending
    <3> QED
      BY <3>1, <3>2, <3>3
  <2> DEFINE x == req[form.last].row
  <2>3. x \in Added /\ x \notin Added'
    BY <1>4, <2>1, <2>2
  <2>4. x \in Claims
    BY <2>3 DEF Claims
  <2>5. x \in Ids /\ \A j \in Submits : -j \notin Ids
    BY <2>3 DEF Added, Alive, Ids, Submits
  <2>6. Claims' \subseteq (Claims \ {x}) \cup {0}
    BY <1>6, <1>7, <2>3, <2>5 DEF Claims
  <2> QED
    BY <1>0, <1>2, <1>3, <1>5, <2>4, <2>6, OneForOne
<1> QED
  BY <1>8, <1>9

\* Requests of the list page change and delete products that are there.
LEMMA ListInv ==
    ASSUME IInv, Delete \/ List
    PROVE  IInv'
<1> USE DEF IInv
<1>0. /\ UNCHANGED <<born, form, faults, req>>
      /\ media' = media \/ \E p : media' = [m \in Media |-> IF m \in RowsOf(media, p)
                                                            THEN NoRow ELSE media[m]]
  BY DEF Delete, List, OpenList, ListStep, Drag, LoadOrder, Reorder, LoadToggle, Toggle
<1>1. DOMAIN products = Ids /\ products = [p \in Ids |-> products[p]]
  BY DEF Fields
<1>2. ASSUME NEW p \in Alive, NEW row, products' = [products EXCEPT ![p] = row]
      PROVE  /\ DOMAIN products' = Ids /\ products' = [x \in Ids |-> products'[x]]
             /\ Alive' \subseteq Alive
  BY <1>1, <1>2 DEF Alive
<1>3. /\ DOMAIN products' = Ids /\ products' = [p \in Ids |-> products'[p]]
      /\ Alive' \subseteq Alive
  <2>1. CASE UNCHANGED products
    BY <1>1, <2>1 DEF Alive
  <2>2. CASE Delete
    <3>1. PICK p \in Range(page) \cap Alive : products' = [products EXCEPT ![p] = NoProduct]
      BY <2>2 DEF Delete
    <3> QED
      BY <1>2, <3>1
  <2>3. ASSUME NEW c \in Calls, Reorder(c), products' # products
        PROVE  /\ DOMAIN products' = Ids /\ products' = [p \in Ids |-> products'[p]]
               /\ Alive' \subseteq Alive
    <3>1. /\ Moved(call[c]) \subseteq Alive
          /\ products' = [p \in Ids |-> IF p \in Moved(call[c])
               THEN [products[p] EXCEPT !.position = Place(call[c].order, p)]
               ELSE products[p]]
      BY <2>3 DEF Reorder
    <3>2. \A p \in Ids : p \notin Alive => products'[p] = products[p]
      BY <3>1
    <3> QED
      BY <3>1, <3>2 DEF Alive
  <2>4. ASSUME NEW c \in Calls, Toggle(c), products' # products
        PROVE  /\ DOMAIN products' = Ids /\ products' = [p \in Ids |-> products'[p]]
               /\ Alive' \subseteq Alive
    <3>1. call[c].product \in Alive
      BY <2>4 DEF Toggle
    <3>2. products' = [products EXCEPT ![call[c].product].published =
                          ~call[c].loaded[call[c].product].published]
      BY <2>4, <3>1 DEF Toggle
    <3>3. PICK row : row = [products[call[c].product] EXCEPT !.published =
                          ~call[c].loaded[call[c].product].published]
      OBVIOUS
    <3>4. products' = [products EXCEPT ![call[c].product] = row]
      BY <3>2, <3>3
    <3> QED
      BY <1>2, <3>1, <3>4
  <2>5. CASE List /\ products' # products
    <3>1. PICK c \in Calls : ListStep(c)
      BY <2>5 DEF List, OpenList
    <3>2. Reorder(c) \/ Toggle(c)
      BY <2>5, <3>1 DEF ListStep, Drag, LoadOrder, LoadToggle
    <3> QED
      BY <2>3, <2>4, <2>5, <3>2
  <2> QED
    BY <2>1, <2>2, <2>5
<1>4. MediaFrom(0)
  <2>1. media = [m \in Media |-> media[m]] /\ \A m \in Media : media[m] # NoRow => MediaFields(media[m])
    BY DEF Fields
  <2>2. \A m \in Media : media'[m] \in {media[m], NoRow}
    BY <1>0, <2>1
  <2>3. media' = [m \in Media |-> media'[m]]
    BY <1>0, <2>1
  <2>4. 0 \notin 1..born
    OBVIOUS
  <2> QED
    BY <2>1, <2>2, <2>3, <2>4 DEF MediaFrom
<1> QED
  BY <1>0, <1>3, <1>4, FewerInv DEF FewerProducts

\* A save that succeeds.
LEMMA SavedInv ==
    ASSUME IInv, NEW k \in Submits, Commit(k),
           ~Refused(req[k]),
           req[k].row \in Alive \/ req[k].published = req[k].seen[req[k].row].published,
           req' = Done(k, IF req[k].rejected = {} THEN "list" ELSE "edit"),
           products' = IF req[k].published = req[k].seen[req[k].row].published THEN products
                       ELSE [products EXCEPT ![req[k].row].published = req[k].published],
           media' = [m \in Media |->
                   IF m \in Inserted(req[k])
                   THEN [product |-> req[k].row, position |-> Position(req[k], m)]
                   ELSE IF m \in Changed(req[k])
                        THEN [media[m] EXCEPT !.position = Position(req[k], m)]
                   ELSE IF req[k].loaded[m] # NoRow /\ m \notin Range(req[k].ordered) THEN NoRow
                   ELSE media[m]]
    PROVE  IInv'
<1> USE DEF IInv
<1> DEFINE q == req[k]
<1>0. UNCHANGED <<born, form, faults>> /\ q.pc = "commit"
  BY DEF Commit
<1>1. DOMAIN products = Ids /\ products = [p \in Ids |-> products[p]]
  BY DEF Fields
<1>2. /\ DOMAIN products' = Ids /\ products' = [p \in Ids |-> products'[p]]
      /\ Alive' \subseteq Alive
  <2>1. CASE products' = products
    BY <1>1, <2>1 DEF Alive
  <2>2. CASE products' # products
    <3>1. q.row \in Alive
      BY <2>2
    <3>2. products' = [products EXCEPT ![q.row].published = q.published]
      BY <2>2
    <3>3. PICK row : row = [products[q.row] EXCEPT !.published = q.published]
      OBVIOUS
    <3>4. products' = [products EXCEPT ![q.row] = row]
      BY <3>2, <3>3
    <3> QED
      BY <1>1, <3>1, <3>4 DEF Alive
  <2> QED
    BY <2>1, <2>2
<1>3. PICK reply \in {"list", "edit"} : req' = Done(k, reply)
  OBVIOUS
<1>4. \E n : SaveEnds(k, n)
  <2>1. PICK n : /\ Done(k, reply) = [req EXCEPT ![k] = n]
                 /\ RequestFields(n) /\ n.pc = "done" /\ n.product = New
                 /\ n.row = req[k].row /\ n.reply = reply
    BY DoneRecord
  <2>2. req' = [req EXCEPT ![k] = n] /\ n.reply \in {"list", "edit"}
    BY <1>3, <2>1
  <2> QED
    BY <1>0, <2>1, <2>2 DEF SaveEnds
<1>5. \A j \in Submits : Creates(j) /\ req[j].pc = "load" => req[j].row # q.row
  BY <1>0 DEF OwnProduct
<1>6. Inserted(q) # {} => q.row \in 1..born
  <2>1. Inserted(q) # {} => q.row \in Alive
    BY DEF Refused
  <2>2. q.row \in 0..born
    BY DEF Fields
  <2> QED
    BY <2>1, <2>2 DEF Alive, Ids
<1>7. media' = [m \in Media |-> media'[m]]
  OBVIOUS
<1>8. ASSUME NEW m \in Media, media'[m] # NoRow
      PROVE  /\ MediaFields(media'[m])
             /\ \/ media[m] # NoRow /\ media'[m].product = media[m].product
                \/ q.row \in 1..born /\ media'[m].product = q.row
  <2>1. CASE m \in Inserted(q)
    <3>1. media'[m] = [product |-> q.row, position |-> Position(q, m)]
      BY <2>1
    <3> QED
      BY <1>6, <2>1, <3>1 DEF MediaFields
  <2>2. CASE m \notin Inserted(q) /\ m \in Changed(q)
    <3>1. media[m] # NoRow /\ MediaFields(media[m])
      BY <2>2 DEF Refused, Fields
    <3>2. PICK position : media'[m] = [media[m] EXCEPT !.position = position]
      BY <2>2
    <3> QED
      BY <3>1, <3>2 DEF MediaFields
  <2>3. CASE m \notin Inserted(q) /\ m \notin Changed(q)
    BY <1>8, <2>3 DEF Fields
  <2> QED
    BY <2>1, <2>2, <2>3
<1>9. MediaFrom(q.row)
  BY <1>5, <1>7, <1>8 DEF MediaFrom
<1>10. FewerProducts
  BY <1>2 DEF FewerProducts
<1> HIDE DEF q
<1> QED
  BY <1>0, <1>4, <1>9, <1>10, FewerInv

\* Either way a save may end.
LEMMA CommitInv ==
    ASSUME IInv, NEW k \in Submits, Commit(k)
    PROVE  IInv'
<1>1. CASE /\ ~Refused(req[k])
           /\ req[k].row \in Alive \/ req[k].published = req[k].seen[req[k].row].published
           /\ req' = Done(k, IF req[k].rejected = {} THEN "list" ELSE "edit")
           /\ products' = IF req[k].published = req[k].seen[req[k].row].published THEN products
                          ELSE [products EXCEPT ![req[k].row].published = req[k].published]
           /\ media' = [m \in Media |->
                   IF m \in Inserted(req[k])
                   THEN [product |-> req[k].row, position |-> Position(req[k], m)]
                   ELSE IF m \in Changed(req[k])
                        THEN [media[m] EXCEPT !.position = Position(req[k], m)]
                   ELSE IF req[k].loaded[m] # NoRow /\ m \notin Range(req[k].ordered) THEN NoRow
                   ELSE media[m]]
  BY <1>1, SavedInv
<1>2. CASE UNCHANGED <<products, media>> /\ req' = Done(k, "error")
           /\ (Refused(req[k]) \/ req[k].row \notin Alive)
  BY <1>2, QuietInv
<1> QED
  BY <1>1, <1>2 DEF Commit

-----------------------------------------------------------------------------
LEMMA NextInv == IInv /\ [Next]_vars => IInv'
<1> SUFFICES ASSUME IInv, [Next]_vars PROVE IInv'
  OBVIOUS
<1>1. CASE UNCHANGED vars
  BY <1>1 DEF vars, listVars, IInv, Fields, Protocol, OwnProduct, ClaimsNeedFailures, Claims,
              Added, Alive, Pending, MaySend, Creates
<1>2. CASE Browse
  BY <1>2, PageInv, SendInv DEF Browse
<1>3. ASSUME NEW k \in Submits, Answer(k) PROVE IInv'
  BY <1>3, AnswerInv
<1>4. ASSUME NEW k \in Submits, Serve(k) PROVE IInv'
  BY <1>4, QuietInv, InsertInv, CommitInv DEF Serve
<1>5. CASE List \/ Delete
  BY <1>5, ListInv
<1>6. CASE Expire
  <2>1. /\ UNCHANGED <<products, born, media, req, form>> /\ faults' \in 0..MaxFaults
        /\ faults' <= faults
    BY <1>6, FormAssumption DEF Expire, serverVars, Fault, IInv, Fields
  <2>2. Fields' /\ Protocol' /\ OwnProduct'
    BY <2>1 DEF IInv, Fields, Protocol, OwnProduct, Creates
  <2>3. Claims' \subseteq Claims
    BY <2>1 DEF Claims, Added, Alive, Pending, MaySend
  <2> QED
    BY <2>1, <2>2, <2>3, NoneAdded DEF IInv
<1> QED
  BY <1>1, <1>2, <1>3, <1>4, <1>5, <1>6 DEF Next

\* The form of a new product leaves a second one only if something failed, however
\* often it is submitted, whatever of its files are refused, and whatever is
\* deleted, dragged or toggled in the list meanwhile.
THEOREM OneProductPerForm == Spec => []DuplicatesNeedAFailure
<1>1. IInv => DuplicatesNeedAFailure
  <2> SUFFICES ASSUME IInv PROVE DuplicatesNeedAFailure
    OBVIOUS
  <2>1. IsFiniteSet(Claims) /\ Cardinality(Claims) \in Nat
    BY ClaimsFinite DEF IInv
  <2>2. Added \in SUBSET Claims
    BY DEF Claims
  <2>3. IsFiniteSet(Added) /\ Cardinality(Added) <= Cardinality(Claims)
    BY <2>1, <2>2, FS_Subset
  <2>4. Cardinality(Added) \in Nat
    BY <2>3, FS_CardinalityType
  <2>5. Cardinality(Claims) <= 1 + MaxFaults - faults /\ faults \in Nat /\ MaxFaults \in Nat
    BY FormAssumption DEF IInv, ClaimsNeedFailures, Fields
  <2>6. Cardinality(Added) <= 1 + MaxFaults - faults
    BY <2>1, <2>3, <2>4, <2>5
  <2> QED
    BY <2>6 DEF DuplicatesNeedAFailure, Added
<1> QED
  BY InitInv, NextInv, <1>1, PTL DEF Spec

-----------------------------------------------------------------------------
(***************************************************************************)
(* Orders: a finite set has one sequence of its elements in a strict total *)
(* order, and what Only, RemoveAt and InsertAt make of a sequence.         *)
(***************************************************************************)
LEMMA Smallest ==
    ASSUME NEW S, S \subseteq Nat, S # {}
    PROVE  \E m \in S : \A n \in S : m =< n
<1> DEFINE R == {p \in Nat \X Nat : p[1] < p[2]}
<1>1. IsWellFoundedOn(R, Nat)
  BY NatLessThanWellFounded DEF OpToRel
<1>2. PICK m \in S : \A n \in S : ~(<<n, m>> \in R)
  <2> HIDE DEF R
  <2> QED
    BY <1>1, WFMin
<1>3. \A n \in S : ~(n < m)
  BY <1>2
<1> QED
  BY <1>3

\* A strict total order.
Orders(R, K) ==
    /\ \A x \in K : <<x, x>> \notin R
    /\ \A x, y, z \in K : <<x, y>> \in R /\ <<y, z>> \in R => <<x, z>> \in R
    /\ \A x, y \in K : x # y => <<x, y>> \in R \/ <<y, x>> \in R

Below(R, K, x) == {y \in K : <<y, x>> \in R}
Rank(R, K, x) == Cardinality(Below(R, K, x))

\* The ranks of the elements of a finite set are 0, 1, 2 and so on.
LEMMA Ranks ==
    ASSUME NEW K, IsFiniteSet(K), NEW R, Orders(R, K)
    PROVE  /\ Cardinality(K) \in Nat
           /\ \A x \in K : Rank(R, K, x) \in 0..(Cardinality(K) - 1)
           /\ \A x, y \in K : <<x, y>> \in R => Rank(R, K, x) < Rank(R, K, y)
           /\ \A n \in 1..Cardinality(K) : \E x \in K : Rank(R, K, x) = n - 1
<1> DEFINE N == 0..(Cardinality(K) - 1)
           rank == [x \in K |-> Rank(R, K, x)]
<1>1. Cardinality(K) \in Nat
  BY FS_CardinalityType
<1>2. ASSUME NEW x \in K
      PROVE  IsFiniteSet(Below(R, K, x)) /\ Rank(R, K, x) \in N
  <2>1. Below(R, K, x) \in SUBSET K /\ Below(R, K, x) # K
    BY DEF Below, Orders
  <2>2. /\ IsFiniteSet(Below(R, K, x)) /\ Rank(R, K, x) <= Cardinality(K)
        /\ Rank(R, K, x) # Cardinality(K)
    BY <2>1, FS_Subset DEF Rank
  <2>3. Rank(R, K, x) \in Nat
    BY <2>2, FS_CardinalityType DEF Rank
  <2> QED
    BY <1>1, <2>2, <2>3
<1>3. ASSUME NEW x \in K, NEW y \in K, <<x, y>> \in R
      PROVE  Rank(R, K, x) < Rank(R, K, y)
  <2>1. Below(R, K, x) \in SUBSET Below(R, K, y) /\ x \in Below(R, K, y) /\ x \notin Below(R, K, x)
    BY <1>3 DEF Below, Orders
  <2>2. Rank(R, K, x) <= Rank(R, K, y) /\ Rank(R, K, x) # Rank(R, K, y)
    BY <1>2, <2>1, FS_Subset DEF Rank
  <2> QED
    BY <1>2, <2>2
<1>4. rank \in Injection(K, N)
  <2>1. rank \in [K -> N]
    BY <1>2
  <2>2. ASSUME NEW x \in K, NEW y \in K, rank[x] = rank[y] PROVE x = y
    <3>1. Rank(R, K, x) = Rank(R, K, y) /\ Rank(R, K, x) \in N
      BY <1>2, <2>2
    <3>2. <<x, y>> \notin R /\ <<y, x>> \notin R
      BY <1>3, <3>1
    <3> QED
      BY <3>2 DEF Orders
  <2> HIDE DEF rank
  <2> QED
    BY <2>1, <2>2 DEF Injection, IsInjective
<1>5. IsFiniteSet(N) /\ Cardinality(N) = Cardinality(K)
  BY <1>1, FS_Interval
<1>6. rank \in Surjection(K, N)
  <2> HIDE DEF rank, N
  <2> QED
    BY <1>4, <1>5, FS_Injection
<1>7. \A n \in N : \E x \in K : rank[x] = n
  <2> HIDE DEF rank, N
  <2> QED
    BY <1>6 DEF Surjection
<1>8. \A n \in 1..Cardinality(K) : n - 1 \in N
  BY <1>1
<1> QED
  BY <1>1, <1>2, <1>3, <1>7, <1>8

\* What rises from 0..N-1 to 0..N-1 is where it was.
LEMMA Rises ==
    ASSUME NEW N \in Nat, NEW f \in [1..N -> 0..(N - 1)],
           \A i, j \in 1..N : i < j => f[i] < f[j]
    PROVE  \A i \in 1..N : f[i] = i - 1
<1> DEFINE Low == {i \in 1..N : f[i] < i - 1}
           High == {k \in 0..N : \E i \in 1..N : k = N - i /\ f[i] > i - 1}
<1>1. Low = {}
  <2> SUFFICES ASSUME Low # {} PROVE FALSE
    OBVIOUS
  <2>1. Low \subseteq Nat
    OBVIOUS
  <2>2. PICK m \in Low : \A i \in Low : m =< i
    <3> HIDE DEF Low
    <3> QED
      BY <2>1, Smallest
  <2>3. m \in 1..N /\ f[m] < m - 1 /\ f[m] >= 0 /\ f[m] \in Int
    OBVIOUS
  <2>4. m - 1 \in 1..N /\ m - 1 \notin Low
    BY <2>2, <2>3
  <2>5. f[m - 1] >= m - 2 /\ f[m - 1] < f[m] /\ f[m - 1] \in Int
    BY <2>3, <2>4
  <2> QED
    BY <2>3, <2>5
<1>2. High = {}
  <2> SUFFICES ASSUME High # {} PROVE FALSE
    OBVIOUS
  <2>1. High \subseteq Nat
    OBVIOUS
  <2>2. PICK k \in High : \A i \in High : k =< i
    <3> HIDE DEF High
    <3> QED
      BY <2>1, Smallest
  <2>3. PICK m \in 1..N : k = N - m /\ f[m] > m - 1
    OBVIOUS
  <2>4. m + 1 \in 1..N
    BY <2>3
  <2>5. f[m + 1] > f[m] /\ f[m + 1] \in Int /\ f[m] \in Int
    BY <2>4
  <2>6. N - (m + 1) \in High
    BY <2>3, <2>4, <2>5
  <2>7. ~(k =< N - (m + 1)) /\ N - (m + 1) \in Nat
    BY <2>3, <2>4
  <2> HIDE DEF High
  <2> QED
    BY <2>2, <2>6, <2>7
<1> QED
  <2> SUFFICES ASSUME NEW i \in 1..N PROVE f[i] = i - 1
    OBVIOUS
  <2>1. ~(f[i] < i - 1)
    BY <1>1
  <2>2. ~(f[i] > i - 1)
    <3>1. N - i \in 0..N
      OBVIOUS
    <3> QED
      BY <1>2, <3>1
  <2> QED
    BY <2>1, <2>2

Rising(R, s) == \A k, l \in DOMAIN s : k < l => <<s[k], s[l]>> \in R

\* A finite set has one sequence of its elements in a given order.
LEMMA Sorting ==
    ASSUME NEW K, IsFiniteSet(K), NEW R, Orders(R, K)
    PROVE  /\ \E s \in SetToSeqs(K) : Rising(R, s)
           /\ \A s, t \in SetToSeqs(K) : Rising(R, s) /\ Rising(R, t) => s = t
<1> DEFINE N == Cardinality(K)
<1>1. /\ N \in Nat
      /\ \A x \in K : Rank(R, K, x) \in 0..(N - 1)
      /\ \A x, y \in K : <<x, y>> \in R => Rank(R, K, x) < Rank(R, K, y)
      /\ \A n \in 1..N : \E x \in K : Rank(R, K, x) = n - 1
  BY Ranks
<1>2. ASSUME NEW x \in K, NEW y \in K
      PROVE  /\ Rank(R, K, x) < Rank(R, K, y) => <<x, y>> \in R
             /\ Rank(R, K, x) = Rank(R, K, y) => x = y
  <2>1. /\ Rank(R, K, x) \in Int /\ Rank(R, K, y) \in Int
        /\ <<x, y>> \in R => Rank(R, K, x) < Rank(R, K, y)
        /\ <<y, x>> \in R => Rank(R, K, y) < Rank(R, K, x)
    BY <1>1
  <2>2. x = y \/ <<x, y>> \in R \/ <<y, x>> \in R
    BY DEF Orders
  <2> QED
    BY <2>1, <2>2
<1> HIDE DEF N
<1>4. \E s \in SetToSeqs(K) : Rising(R, s)
  <2> DEFINE s == [n \in 1..N |-> CHOOSE x \in K : Rank(R, K, x) = n - 1]
  <2>1. \A n \in 1..N : s[n] \in K /\ Rank(R, K, s[n]) = n - 1
    BY <1>1
  <2>2. s \in [1..N -> K]
    BY <2>1
  <2> HIDE DEF s
  <2>3. Rising(R, s)
    BY <1>2, <1>1, <2>1, <2>2 DEF Rising
  <2>4. \A i, j \in 1..N : i # j => s[i] # s[j]
    BY <2>1
  <2>5. s \in SetToSeqs(K)
    BY <2>2, <2>4 DEF SetToSeqs, N
  <2> QED
    BY <2>3, <2>5
<1>5. ASSUME NEW s \in SetToSeqs(K), Rising(R, s), NEW n \in 1..N
      PROVE  s[n] \in K /\ Rank(R, K, s[n]) = n - 1
  <2> DEFINE f == [i \in 1..N |-> Rank(R, K, s[i])]
  <2>1. s \in [1..N -> K]
    BY DEF SetToSeqs, N
  <2>2. f \in [1..N -> 0..(N - 1)]
    BY <1>1, <2>1
  <2>3. \A i, j \in 1..N : i < j => f[i] < f[j]
    BY <1>1, <1>5, <2>1 DEF Rising
  <2>4. f[n] = n - 1
    <3> HIDE DEF f
    <3> QED
      BY <1>1, <2>2, <2>3, Rises
  <2> QED
    BY <2>1, <2>4
<1>6. ASSUME NEW s \in SetToSeqs(K), NEW t \in SetToSeqs(K), Rising(R, s), Rising(R, t)
      PROVE  s = t
  <2>1. s \in [1..N -> K] /\ t \in [1..N -> K]
    BY DEF SetToSeqs, N
  <2>2. ASSUME NEW n \in 1..N PROVE s[n] = t[n]
    <3>1. /\ s[n] \in K /\ Rank(R, K, s[n]) = n - 1
          /\ t[n] \in K /\ Rank(R, K, t[n]) = n - 1
      BY <1>5, <1>6
    <3> QED
      BY <1>2, <3>1
  <2>3. s = [n \in 1..N |-> s[n]] /\ t = [n \in 1..N |-> t[n]]
    BY <2>1
  <2> QED
    BY <2>2, <2>3
<1> QED
  BY <1>4, <1>6

\* Where s has an element of S, and how many it has before place i.
At(s, S) == {i \in DOMAIN s : s[i] \in S}
Number(s, S, i) == Cardinality({j \in At(s, S) : j < i})
Nth(s, S, n) == CHOOSE i \in At(s, S) : Number(s, S, i) = n - 1

\* Only takes each of them, in order.
Elements(T, s, S) ==
    /\ IsFiniteSet(At(s, S)) /\ Cardinality(At(s, S)) \in Nat
    /\ Only(s, S) \in Seq(T \cap S) /\ Len(Only(s, S)) = Cardinality(At(s, S))
    /\ \A n \in 1..Cardinality(At(s, S)) :
          /\ Nth(s, S, n) \in At(s, S) /\ Number(s, S, Nth(s, S, n)) = n - 1
          /\ Only(s, S)[n] = s[Nth(s, S, n)]
    /\ \A i \in At(s, S) :
          /\ Number(s, S, i) \in 0..(Cardinality(At(s, S)) - 1)
          /\ Only(s, S)[Number(s, S, i) + 1] = s[i]
    /\ \A i, j \in At(s, S) : i < j => Number(s, S, i) < Number(s, S, j)

LEMMA OnlyElements ==
    ASSUME NEW T, NEW s \in Seq(T), NEW S
    PROVE  Elements(T, s, S)
<1> DEFINE A == At(s, S)
           c == Cardinality(A)
           R == {z \in Nat \X Nat : z[1] < z[2]}
<1>1. DOMAIN s = 1..Len(s) /\ Len(s) \in Nat /\ \A i \in 1..Len(s) : s[i] \in T
  OBVIOUS
<1>2. IsFiniteSet(A) /\ c \in Nat
  <2>1. A \in SUBSET (1..Len(s)) /\ IsFiniteSet(1..Len(s))
    BY <1>1, FS_Interval DEF At
  <2> HIDE DEF A
  <2> QED
    BY <2>1, FS_Subset, FS_CardinalityType
<1>3. A \subseteq Nat
  BY <1>1 DEF At
<1>4. Orders(R, A)
  <2> HIDE DEF A
  <2> QED
    BY <1>3 DEF Orders
<1>5. \A i \in A : Rank(R, A, i) = Number(s, S, i)
  <2> SUFFICES ASSUME NEW i \in A PROVE Rank(R, A, i) = Number(s, S, i)
    OBVIOUS
  <2>1. Below(R, A, i) = {j \in A : j < i}
    <3> HIDE DEF A
    <3> QED
      BY <1>3 DEF Below
  <2> QED
    BY <2>1 DEF Rank, Number
<1>6. \A i, j \in A : i < j => <<i, j>> \in R
  <2> HIDE DEF A
  <2> QED
    BY <1>3
<1>7. /\ \A i \in A : Number(s, S, i) \in 0..(c - 1)
      /\ \A i, j \in A : i < j => Number(s, S, i) < Number(s, S, j)
      /\ \A n \in 1..c : \E i \in A : Number(s, S, i) = n - 1
  <2> HIDE DEF R, A
  <2>1. /\ \A i \in A : Rank(R, A, i) \in 0..(c - 1)
        /\ \A i, j \in A : <<i, j>> \in R => Rank(R, A, i) < Rank(R, A, j)
        /\ \A n \in 1..c : \E i \in A : Rank(R, A, i) = n - 1
    BY <1>2, <1>4, Ranks
  <2>2. \A i \in A : Number(s, S, i) \in 0..(c - 1)
    BY <1>5, <2>1
  <2>3. \A i, j \in A : i < j => Number(s, S, i) < Number(s, S, j)
    BY <1>5, <1>6, <2>1
  <2>4. \A n \in 1..c : \E i \in A : Number(s, S, i) = n - 1
    BY <1>5, <2>1
  <2> QED
    BY <2>2, <2>3, <2>4
<1>8. \A n \in 1..c : Nth(s, S, n) \in A /\ Number(s, S, Nth(s, S, n)) = n - 1
  BY <1>7 DEF Nth
<1>9. ASSUME NEW i \in A, NEW j \in A, Number(s, S, i) = Number(s, S, j) PROVE i = j
  <2>1. ~(i < j) /\ ~(j < i)
    <3>1. Number(s, S, i) \in Int /\ Number(s, S, j) \in Int
      BY <1>7
    <3> QED
      BY <1>7, <1>9, <3>1
  <2> QED
    BY <1>3, <2>1
<1>10. Only(s, S) = [n \in 1..c |-> s[Nth(s, S, n)]]
  BY DEF Only, At, Nth, Number
<1>11. \A i \in A : s[i] \in T \cap S
  BY <1>1 DEF At
<1> HIDE DEF A, c
<1>12. Only(s, S) \in [1..c -> T \cap S]
  BY <1>8, <1>10, <1>11
<1>13. Only(s, S) \in Seq(T \cap S) /\ Len(Only(s, S)) = c
  BY <1>2, <1>12 DEF c
<1>14. ASSUME NEW i \in A PROVE Only(s, S)[Number(s, S, i) + 1] = s[i]
  <2>1. Number(s, S, i) + 1 \in 1..c
    BY <1>2, <1>7 DEF c
  <2>2. Nth(s, S, Number(s, S, i) + 1) = i
    <3>1. /\ Nth(s, S, Number(s, S, i) + 1) \in A
          /\ Number(s, S, Nth(s, S, Number(s, S, i) + 1)) = Number(s, S, i)
      BY <1>7, <1>8, <2>1
    <3> QED
      BY <1>9, <3>1
  <2> QED
    BY <1>10, <2>1, <2>2
<1> QED
  BY <1>2, <1>7, <1>8, <1>10, <1>13, <1>14 DEF A, c, Elements

Distinct(s) == \A i, j \in DOMAIN s : s[i] = s[j] => i = j

\* Only keeps elements apart.
LEMMA OnlyDistinct ==
    ASSUME NEW T, NEW s \in Seq(T), NEW S, Distinct(s)
    PROVE  Distinct(Only(s, S)) /\ Range(Only(s, S)) = Range(s) \cap S
<1>1. /\ Cardinality(At(s, S)) \in Nat /\ At(s, S) \subseteq DOMAIN s
      /\ DOMAIN Only(s, S) = 1..Cardinality(At(s, S))
      /\ \A n \in 1..Cardinality(At(s, S)) :
            /\ Nth(s, S, n) \in At(s, S) /\ Number(s, S, Nth(s, S, n)) = n - 1
            /\ Only(s, S)[n] = s[Nth(s, S, n)]
      /\ \A i \in At(s, S) :
            /\ Number(s, S, i) \in 0..(Cardinality(At(s, S)) - 1)
            /\ Only(s, S)[Number(s, S, i) + 1] = s[i]
  <2>1. Elements(T, s, S)
    BY OnlyElements
  <2>2. At(s, S) \subseteq DOMAIN s
    BY DEF At
  <2>3. DOMAIN Only(s, S) = 1..Cardinality(At(s, S))
    BY <2>1 DEF Elements
  <2> QED
    BY <2>1, <2>2, <2>3 DEF Elements
<1>2. ASSUME NEW m \in DOMAIN Only(s, S), NEW n \in DOMAIN Only(s, S),
             Only(s, S)[m] = Only(s, S)[n]
      PROVE  m = n
  <2>1. Nth(s, S, m) = Nth(s, S, n)
    BY <1>1, <1>2 DEF Distinct
  <2>2. m - 1 = n - 1
    BY <1>1, <2>1
  <2> QED
    BY <1>1, <2>2
<1>3. ASSUME NEW x \in Range(s) \cap S PROVE x \in Range(Only(s, S))
  <2>1. PICK i \in At(s, S) : s[i] = x
    BY <1>3 DEF Range, At
  <2>2. Number(s, S, i) + 1 \in 1..Cardinality(At(s, S))
    BY <1>1, <2>1
  <2> QED
    BY <1>1, <2>1, <2>2 DEF Range
<1>4. ASSUME NEW x \in Range(Only(s, S)) PROVE x \in Range(s) \cap S
  <2>1. PICK n \in DOMAIN Only(s, S) : Only(s, S)[n] = x
    BY <1>4 DEF Range
  <2>2. Nth(s, S, n) \in At(s, S) /\ s[Nth(s, S, n)] = x
    BY <1>1, <2>1
  <2> QED
    BY <2>2 DEF Range, At
<1> QED
  BY <1>2, <1>3, <1>4 DEF Distinct

\* The sequences of the elements of a finite set have each of them once.
LEMMA Enumerations ==
    ASSUME NEW K, IsFiniteSet(K), NEW s \in SetToSeqs(K)
    PROVE  s \in Seq(K) /\ Len(s) = Cardinality(K) /\ Distinct(s) /\ Range(s) = K
<1> DEFINE N == Cardinality(K)
<1>1. N \in Nat
  BY FS_CardinalityType
<1>2. s \in [1..N -> K] /\ \A i, j \in 1..N : i # j => s[i] # s[j]
  BY DEF SetToSeqs
<1>3. IsFiniteSet(1..N) /\ Cardinality(1..N) = N
  BY <1>1, FS_Interval
<1>4. s \in Surjection(1..N, K)
  <2>1. s \in Injection(1..N, K)
    BY <1>2 DEF Injection, IsInjective
  <2> QED
    BY <1>3, <2>1, FS_Injection
<1> HIDE DEF N
<1>5. \A x \in K : \E i \in 1..N : s[i] = x
  BY <1>4 DEF Surjection
<1>6. s \in Seq(K) /\ Len(s) = N /\ DOMAIN s = 1..N
  BY <1>1, <1>2
<1>7. Range(s) = K
  BY <1>2, <1>5, <1>6 DEF Range
<1> QED
  BY <1>2, <1>6, <1>7 DEF Distinct, N

LEMMA Enumerates ==
    ASSUME NEW T, NEW s \in Seq(T), Distinct(s)
    PROVE  /\ IsFiniteSet(Range(s)) /\ Cardinality(Range(s)) = Len(s)
           /\ s \in SetToSeqs(Range(s))
<1> DEFINE N == Len(s)
           K == Range(s)
<1>1. N \in Nat /\ DOMAIN s = 1..N
  OBVIOUS
<1>2. IsFiniteSet(1..N) /\ Cardinality(1..N) = N
  BY <1>1, FS_Interval
<1>3. s \in [1..N -> K]
  BY <1>1 DEF Range
<1>4. s \in Surjection(1..N, K) /\ s \in Injection(1..N, K)
  <2>1. \A x \in K : \E i \in 1..N : s[i] = x
    BY <1>1 DEF Range
  <2> HIDE DEF N, K
  <2> QED
    BY <1>1, <1>3, <2>1 DEF Surjection, Injection, IsInjective, Distinct
<1> HIDE DEF N, K
<1>5. IsFiniteSet(K) /\ Cardinality(K) = N
  BY <1>2, <1>4, FS_Surjection
<1>6. s \in SetToSeqs(K)
  BY <1>1, <1>3, <1>5 DEF SetToSeqs, Distinct
<1> QED
  BY <1>5, <1>6 DEF N, K

LEMMA RemoveAtElements ==
    ASSUME NEW T, NEW s \in Seq(T), NEW i \in 1..Len(s)
    PROVE  /\ RemoveAt(s, i) \in Seq(T) /\ Len(RemoveAt(s, i)) = Len(s) - 1
           /\ \A k \in 1..(Len(s) - 1) :
                RemoveAt(s, i)[k] = IF k < i THEN s[k] ELSE s[k + 1]
<1> DEFINE l == SubSeq(s, 1, i - 1)
           r == SubSeq(s, i + 1, Len(s))
<1>1. Len(s) \in Nat /\ \A k \in 1..Len(s) : s[k] \in T
  OBVIOUS
<1>2. /\ l \in Seq(T) /\ Len(l) = i - 1
      /\ \A k \in 1..(i - 1) : l[k] = s[k]
  <2>1. \A k \in 1..(i - 1) : s[k] \in T
    BY <1>1
  <2>2. /\ l \in Seq(T) /\ Len(l) = IF 1 <= i - 1 THEN i - 1 - 1 + 1 ELSE 0
        /\ \A k \in 1..(i - 1 - 1 + 1) : l[k] = s[1 + k - 1]
    <3> HIDE DEF l
    <3> QED
      BY <2>1, SubSeqProperties DEF l
  <2> HIDE DEF l
  <2> QED
    BY <2>2
<1>3. /\ r \in Seq(T) /\ Len(r) = Len(s) - i
      /\ \A k \in 1..(Len(s) - i) : r[k] = s[i + k]
  <2>1. \A k \in (i + 1)..Len(s) : s[k] \in T
    BY <1>1
  <2>2. /\ r \in Seq(T) /\ Len(r) = IF i + 1 <= Len(s) THEN Len(s) - (i + 1) + 1 ELSE 0
        /\ \A k \in 1..(Len(s) - (i + 1) + 1) : r[k] = s[(i + 1) + k - 1]
    <3> HIDE DEF r
    <3> QED
      BY <1>1, <2>1, SubSeqProperties DEF r
  <2> HIDE DEF r
  <2> QED
    BY <1>1, <2>2
<1> HIDE DEF l, r
<1>4. /\ l \o r \in Seq(T) /\ Len(l \o r) = Len(l) + Len(r)
      /\ \A k \in 1..(Len(l) + Len(r)) : (l \o r)[k] = IF k <= Len(l) THEN l[k] ELSE r[k - Len(l)]
  BY <1>2, <1>3, ConcatProperties
<1>5. RemoveAt(s, i) = l \o r
  BY DEF RemoveAt, l, r
<1>6. ASSUME NEW k \in 1..(Len(s) - 1)
      PROVE  (l \o r)[k] = IF k < i THEN s[k] ELSE s[k + 1]
  <2>1. CASE k < i
    BY <1>1, <1>2, <1>3, <1>4, <2>1
  <2>2. CASE ~(k < i)
    <3>1. k - Len(l) \in 1..(Len(s) - i) /\ k - Len(l) = k - i + 1
      BY <1>1, <1>2, <2>2
    <3>2. (l \o r)[k] = r[k - i + 1] /\ r[k - i + 1] = s[k + 1]
      BY <1>1, <1>2, <1>3, <1>4, <2>2, <3>1
    <3> QED
      BY <2>2, <3>2
  <2> QED
    BY <2>1, <2>2
<1> QED
  BY <1>1, <1>2, <1>3, <1>4, <1>5, <1>6

LEMMA RemoveAtDistinct ==
    ASSUME NEW T, NEW s \in Seq(T), NEW i \in 1..Len(s), Distinct(s)
    PROVE  Distinct(RemoveAt(s, i))
<1> DEFINE d == RemoveAt(s, i)
<1>0. DOMAIN s = 1..Len(s) /\ Len(s) \in Nat
  OBVIOUS
<1>1. /\ d \in Seq(T) /\ Len(d) = Len(s) - 1
      /\ \A k \in 1..(Len(s) - 1) : d[k] = IF k < i THEN s[k] ELSE s[k + 1]
  BY RemoveAtElements
<1> HIDE DEF d
<1> USE <1>0
<1>2. ASSUME NEW k \in DOMAIN d, NEW l \in DOMAIN d, d[k] = d[l] PROVE k = l
  <2>1. k \in 1..(Len(s) - 1) /\ l \in 1..(Len(s) - 1)
    BY <1>1
  <2>2. s[IF k < i THEN k ELSE k + 1] = s[IF l < i THEN l ELSE l + 1]
    BY <1>1, <1>2, <2>1
  <2>3. (IF k < i THEN k ELSE k + 1) = (IF l < i THEN l ELSE l + 1)
    BY <1>1, <2>1, <2>2 DEF Distinct
  <2> QED
    BY <2>1, <2>3
<1> QED
  BY <1>2 DEF Distinct, d

LEMMA InsertAtElements ==
    ASSUME NEW T, NEW s \in Seq(T), NEW j \in 1..(Len(s) + 1), NEW e \in T
    PROVE  /\ InsertAt(s, j, e) \in Seq(T) /\ Len(InsertAt(s, j, e)) = Len(s) + 1
           /\ \A k \in 1..(Len(s) + 1) :
                InsertAt(s, j, e)[k] = IF k < j THEN s[k] ELSE IF k = j THEN e ELSE s[k - 1]
<1> DEFINE l == SubSeq(s, 1, j - 1)
           r == SubSeq(s, j, Len(s))
<1>1. Len(s) \in Nat /\ \A k \in 1..Len(s) : s[k] \in T
  OBVIOUS
<1>2. /\ l \in Seq(T) /\ Len(l) = j - 1
      /\ \A k \in 1..(j - 1) : l[k] = s[k]
  <2>1. \A k \in 1..(j - 1) : s[k] \in T
    BY <1>1
  <2>2. /\ l \in Seq(T) /\ Len(l) = IF 1 <= j - 1 THEN j - 1 - 1 + 1 ELSE 0
        /\ \A k \in 1..(j - 1 - 1 + 1) : l[k] = s[1 + k - 1]
    <3> HIDE DEF l
    <3> QED
      BY <2>1, SubSeqProperties DEF l
  <2> HIDE DEF l
  <2> QED
    BY <2>2
<1>3. /\ r \in Seq(T) /\ Len(r) = Len(s) - j + 1
      /\ \A k \in 1..(Len(s) - j + 1) : r[k] = s[j + k - 1]
  <2>1. \A k \in j..Len(s) : s[k] \in T
    BY <1>1
  <2>2. /\ r \in Seq(T) /\ Len(r) = IF j <= Len(s) THEN Len(s) - j + 1 ELSE 0
        /\ \A k \in 1..(Len(s) - j + 1) : r[k] = s[j + k - 1]
    <3> HIDE DEF r
    <3> QED
      BY <1>1, <2>1, SubSeqProperties DEF r
  <2> HIDE DEF r
  <2> QED
    BY <1>1, <2>2
<1>4. <<e>> \in Seq(T) /\ Len(<<e>>) = 1 /\ <<e>>[1] = e
  OBVIOUS
<1> DEFINE le == l \o <<e>>
<1> HIDE DEF l, r
<1>5. /\ le \in Seq(T) /\ Len(le) = j
      /\ \A k \in 1..j : le[k] = IF k < j THEN s[k] ELSE e
  <2>1. /\ le \in Seq(T) /\ Len(le) = Len(l) + 1
        /\ \A k \in 1..(Len(l) + 1) : le[k] = IF k <= Len(l) THEN l[k] ELSE <<e>>[k - Len(l)]
    BY <1>2, <1>4, ConcatProperties
  <2> HIDE DEF le
  <2> QED
    BY <1>1, <1>2, <2>1
<1> HIDE DEF le
<1>6. /\ le \o r \in Seq(T) /\ Len(le \o r) = Len(le) + Len(r)
      /\ \A k \in 1..(Len(le) + Len(r)) : (le \o r)[k] = IF k <= Len(le) THEN le[k] ELSE r[k - Len(le)]
  BY <1>3, <1>5, ConcatProperties
<1>7. InsertAt(s, j, e) = le \o r
  BY DEF InsertAt, le, l, r
<1>8. ASSUME NEW k \in 1..(Len(s) + 1)
      PROVE  (le \o r)[k] = IF k < j THEN s[k] ELSE IF k = j THEN e ELSE s[k - 1]
  <2>1. CASE k <= j
    BY <1>1, <1>3, <1>5, <1>6, <2>1
  <2>2. CASE ~(k <= j)
    <3>1. k - j \in 1..(Len(s) - j + 1)
      BY <1>1, <2>2
    <3>2. (le \o r)[k] = r[k - j] /\ r[k - j] = s[j + (k - j) - 1]
      BY <1>1, <1>3, <1>5, <1>6, <2>2, <3>1
    <3>3. j + (k - j) - 1 = k - 1
      OBVIOUS
    <3> QED
      BY <2>2, <3>2, <3>3
  <2> QED
    BY <2>1, <2>2
<1> QED
  BY <1>1, <1>3, <1>5, <1>6, <1>7, <1>8

\* A row that is dragged changes the order of the rows and nothing else.
LEMMA DraggedElements ==
    ASSUME NEW T, NEW s \in Seq(T), NEW i \in DOMAIN s, NEW j \in DOMAIN s,
           NEW d, d = InsertAt(RemoveAt(s, i), j, s[i])
    PROVE  d \in Seq(T) /\ Len(d) = Len(s) /\ Range(d) = Range(s) /\ (Distinct(s) => Distinct(d))
<1> DEFINE r == RemoveAt(s, i)
           From(k) == IF k = j THEN i
                      ELSE IF k < j THEN IF k < i THEN k ELSE k + 1
                      ELSE IF k - 1 < i THEN k - 1 ELSE k
<1>1. Len(s) \in Nat /\ DOMAIN s = 1..Len(s) /\ i \in 1..Len(s) /\ j \in 1..Len(s) /\ s[i] \in T
  OBVIOUS
<1>2. /\ r \in Seq(T) /\ Len(r) = Len(s) - 1
      /\ \A k \in 1..(Len(s) - 1) : r[k] = IF k < i THEN s[k] ELSE s[k + 1]
  BY <1>1, RemoveAtElements
<1> HIDE DEF r
<1>3. j \in 1..(Len(r) + 1)
  BY <1>1, <1>2
<1>4. /\ d \in Seq(T) /\ Len(d) = Len(r) + 1
      /\ \A k \in 1..(Len(r) + 1) :
            d[k] = IF k < j THEN r[k] ELSE IF k = j THEN s[i] ELSE r[k - 1]
  <2>1. d = InsertAt(r, j, s[i])
    BY DEF r
  <2>2. PICK e \in T : e = s[i]
    BY <1>1
  <2>3. /\ InsertAt(r, j, e) \in Seq(T) /\ Len(InsertAt(r, j, e)) = Len(r) + 1
        /\ \A k \in 1..(Len(r) + 1) :
              InsertAt(r, j, e)[k] = IF k < j THEN r[k] ELSE IF k = j THEN e ELSE r[k - 1]
    <3>1. r \in Seq(T)
      BY <1>2
    <3>2. ASSUME NEW q \in Seq(T), NEW n \in 1..(Len(q) + 1), NEW x \in T
          PROVE  /\ InsertAt(q, n, x) \in Seq(T) /\ Len(InsertAt(q, n, x)) = Len(q) + 1
                 /\ \A k \in 1..(Len(q) + 1) :
                       InsertAt(q, n, x)[k] = IF k < n THEN q[k] ELSE IF k = n THEN x ELSE q[k - 1]
      BY InsertAtElements
    <3> QED
      BY <1>3, <3>1, <3>2
  <2> QED
    BY <2>1, <2>2, <2>3
<1>5. Len(d) = Len(s) /\ DOMAIN d = 1..Len(s)
  BY <1>1, <1>2, <1>4
<1>6. ASSUME NEW k \in 1..Len(s) PROVE From(k) \in 1..Len(s) /\ d[k] = s[From(k)]
  <2>1. From(k) \in 1..Len(s)
    BY <1>1
  <2>2. d[k] = IF k < j THEN r[k] ELSE IF k = j THEN s[i] ELSE r[k - 1]
    BY <1>1, <1>2, <1>4
  <2>3. k < j => r[k] = IF k < i THEN s[k] ELSE s[k + 1]
    BY <1>1, <1>2
  <2>4. k > j => r[k - 1] = IF k - 1 < i THEN s[k - 1] ELSE s[k]
    BY <1>1, <1>2
  <2> QED
    BY <1>1, <2>1, <2>2, <2>3, <2>4
<1>7. \A k, l \in 1..Len(s) : From(k) = From(l) => k = l
  BY <1>1
<1>8. ASSUME NEW m \in 1..Len(s) PROVE \E k \in 1..Len(s) : From(k) = m
  <2>1. PICK k : k = IF m = i THEN j
                     ELSE IF m < i THEN IF m < j THEN m ELSE m + 1
                     ELSE IF m - 1 < j THEN m - 1 ELSE m
    OBVIOUS
  <2>2. k \in 1..Len(s) /\ From(k) = m
    BY <1>1, <2>1
  <2> QED
    BY <2>2
<1> HIDE DEF From
<1>9. Range(d) = Range(s)
  <2>1. ASSUME NEW x \in Range(d) PROVE x \in Range(s)
    BY <1>1, <1>5, <1>6, <2>1 DEF Range
  <2>2. ASSUME NEW x \in Range(s) PROVE x \in Range(d)
    <3>1. PICK m \in 1..Len(s) : s[m] = x
      BY <1>1, <2>2 DEF Range
    <3>2. PICK k \in 1..Len(s) : From(k) = m
      BY <1>8
    <3>3. d[k] = x
      BY <1>6, <3>1, <3>2
    <3> QED
      BY <1>5, <3>3 DEF Range
  <2> QED
    BY <2>1, <2>2
<1>10. ASSUME Distinct(s) PROVE Distinct(d)
  <2> SUFFICES ASSUME NEW k \in 1..Len(s), NEW l \in 1..Len(s), d[k] = d[l] PROVE k = l
    BY <1>5 DEF Distinct
  <2>1. s[From(k)] = s[From(l)] /\ From(k) \in DOMAIN s /\ From(l) \in DOMAIN s
    BY <1>1, <1>6
  <2>2. From(k) = From(l)
    BY <1>10, <2>1 DEF Distinct
  <2> QED
    BY <1>7, <2>2
<1> QED
  BY <1>4, <1>5, <1>9, <1>10

LEMMA InvAlways == Spec => []IInv
  BY InitInv, NextInv, PTL DEF Spec

-----------------------------------------------------------------------------
(***************************************************************************)
(* What each step makes of a request, field by field.                      *)
(***************************************************************************)
\* What a request carries from the page stays as it is.
Keeps(n, q) ==
    /\ n.product = q.product /\ n.published = q.published /\ n.blank = q.blank
    /\ n.shown = q.shown /\ n.files = q.files

Becoming(k, n) == req' = [j \in Submits |-> IF j = k THEN n ELSE req[j]]

LEMMA SendStep ==
    ASSUME Fields, NEW k \in Submits, SendForm(k)
    PROVE  \E n : /\ Becoming(k, n)
                  /\ n.pc = "arrived" /\ n.product = form.product /\ n.row = form.product
                  /\ n.published = form.published /\ n.blank \in BOOLEAN
                  /\ n.shown = form.tiles /\ n.files = Files(form.tiles)
                  /\ n.tokens = Tokens(form.tiles)
                  /\ n.seen = NotSent.seen /\ n.loaded = NoMedia /\ n.ordered = <<>>
                  /\ n.rejected = {} /\ n.reply = NoAnswer
<1>1. PICK blank \in BOOLEAN :
          req' = [req EXCEPT ![k] =
            [NotSent EXCEPT !.pc = "arrived", !.product = form.product, !.row = form.product,
               !.published = form.published, !.shown = form.tiles,
               !.files = Files(form.tiles), !.tokens = Tokens(form.tiles), !.blank = blank]]
  BY DEF SendForm
<1>2. PICK seen : seen = NotSent.seen
  OBVIOUS
<1>3. NotSent = [pc |-> "none", product |-> New, row |-> New, published |-> TRUE, shown |-> <<>>,
            files |-> <<>>, tokens |-> <<>>, blank |-> FALSE,
            seen |-> seen, loaded |-> NoMedia, ordered |-> <<>>,
            rejected |-> {}, reply |-> NoAnswer]
  BY <1>2 DEF NotSent
<1>4. PICK files, tokens : files = Files(form.tiles) /\ tokens = Tokens(form.tiles)
  OBVIOUS
<1>5. PICK n :
          n = [NotSent EXCEPT !.pc = "arrived", !.product = form.product, !.row = form.product,
                 !.published = form.published, !.shown = form.tiles,
                 !.files = files, !.tokens = tokens, !.blank = blank]
  OBVIOUS
<1>6. req' = [req EXCEPT ![k] = n]
  BY <1>1, <1>4, <1>5
<1>7. n = [pc |-> "arrived", product |-> form.product, row |-> form.product,
           published |-> form.published, shown |-> form.tiles,
           files |-> files, tokens |-> tokens, blank |-> blank,
           seen |-> seen, loaded |-> NoMedia, ordered |-> <<>>,
           rejected |-> {}, reply |-> NoAnswer]
  BY <1>3, <1>5
<1>8. Becoming(k, n)
  BY <1>6 DEF Fields, Becoming
<1> QED
  BY <1>2, <1>4, <1>7, <1>8

\* What is left of a request once it is answered.
AnsweredFields(n, row, ordered, reply) ==
    /\ n.pc = "done" /\ n.product = New /\ n.row = row
    /\ n.published = TRUE /\ n.blank = FALSE
    /\ n.shown = <<>> /\ n.files = <<>> /\ n.tokens = <<>>
    /\ n.seen = NotSent.seen /\ n.loaded = NoMedia /\ n.ordered = ordered
    /\ n.rejected = {} /\ n.reply = reply

LEMMA DoneStep ==
    ASSUME Fields, NEW k \in Submits, NEW reply, req' = Done(k, reply)
    PROVE  \E n : Becoming(k, n) /\ AnsweredFields(n, req[k].row, <<>>, reply)
<1>1. PICK seen : seen = NotSent.seen
  OBVIOUS
<1>2. NotSent = [pc |-> "none", product |-> New, row |-> New, published |-> TRUE, shown |-> <<>>,
            files |-> <<>>, tokens |-> <<>>, blank |-> FALSE,
            seen |-> seen, loaded |-> NoMedia, ordered |-> <<>>,
            rejected |-> {}, reply |-> NoAnswer]
  BY <1>1 DEF NotSent
<1>3. PICK row : row = req[k].row
  OBVIOUS
<1>4. PICK n : n = [NotSent EXCEPT !.pc = "done", !.row = row, !.reply = reply]
  OBVIOUS
<1>5. n = [pc |-> "done", product |-> New, row |-> row, published |-> TRUE, shown |-> <<>>,
            files |-> <<>>, tokens |-> <<>>, blank |-> FALSE,
            seen |-> seen, loaded |-> NoMedia, ordered |-> <<>>,
            rejected |-> {}, reply |-> reply]
  BY <1>2, <1>4
<1>6. req' = [req EXCEPT ![k] = n]
  BY <1>3, <1>4 DEF Done
<1>7. Becoming(k, n)
  BY <1>6 DEF Fields, Becoming
<1>8. AnsweredFields(n, row, <<>>, reply)
  BY <1>1, <1>5 DEF AnsweredFields
<1> QED
  BY <1>3, <1>7, <1>8

\* A refused form comes back with the gallery.
Invalid(k, s) == [Done(k, "invalid") EXCEPT ![k].ordered = s]

LEMMA RefusedStep ==
    ASSUME NEW k \in Submits, Refuse(k)
    PROVE  \/ \E reply \in {"login", "error"} : req' = Done(k, reply)
           \/ \E s \in Galleries(media, req[k].product) : req' = Invalid(k, s)
  BY DEF Refuse, Invalid

LEMMA InvalidStep ==
    ASSUME Fields, NEW k \in Submits, NEW s, req' = Invalid(k, s)
    PROVE  \E n : Becoming(k, n) /\ AnsweredFields(n, req[k].row, s, "invalid")
<1>1. PICK seen : seen = NotSent.seen
  OBVIOUS
<1>2. NotSent = [pc |-> "none", product |-> New, row |-> New, published |-> TRUE, shown |-> <<>>,
            files |-> <<>>, tokens |-> <<>>, blank |-> FALSE,
            seen |-> seen, loaded |-> NoMedia, ordered |-> <<>>,
            rejected |-> {}, reply |-> NoAnswer]
  BY <1>1 DEF NotSent
<1>3. PICK row : row = req[k].row
  OBVIOUS
<1>4. PICK d : d = [NotSent EXCEPT !.pc = "done", !.row = row, !.reply = "invalid"]
  OBVIOUS
<1>5. PICK n : n = [d EXCEPT !.ordered = s]
  OBVIOUS
<1>6. n = [pc |-> "done", product |-> New, row |-> row, published |-> TRUE, shown |-> <<>>,
            files |-> <<>>, tokens |-> <<>>, blank |-> FALSE,
            seen |-> seen, loaded |-> NoMedia, ordered |-> s,
            rejected |-> {}, reply |-> "invalid"]
  BY <1>2, <1>4, <1>5
<1>7. Done(k, "invalid") = [req EXCEPT ![k] = d]
  BY <1>3, <1>4 DEF Done
<1>8. req' = [req EXCEPT ![k] = n]
  BY <1>5, <1>7 DEF Fields, Invalid
<1>9. Becoming(k, n)
  BY <1>8 DEF Fields, Becoming
<1>10. AnsweredFields(n, row, s, "invalid")
  BY <1>1, <1>6 DEF AnsweredFields
<1> QED
  BY <1>3, <1>9, <1>10

LEMMA AcceptStep ==
    ASSUME Fields, NEW k \in Submits, Accept(k)
    PROVE  \E n : /\ Becoming(k, n) /\ Keeps(n, req[k])
                  /\ n.pc = IF req[k].product = New THEN "insert" ELSE "load"
                  /\ n.row = req[k].row /\ n.tokens = req[k].tokens
                  /\ n.seen = products /\ n.loaded = req[k].loaded
                  /\ n.ordered = req[k].ordered /\ n.rejected = req[k].rejected
                  /\ n.reply = req[k].reply
<1>1. PICK q, seen, pc : q = req[k] /\ seen = products
                         /\ pc = IF q.product = New THEN "insert" ELSE "load"
  OBVIOUS
<1>2. PICK n : n = [q EXCEPT !.seen = seen, !.pc = pc]
  OBVIOUS
<1>3. Becoming(k, n)
  BY <1>1, <1>2 DEF Fields, Accept, Becoming
<1>4. RequestFields(q)
  BY <1>1 DEF Fields
<1>5. /\ Keeps(n, q) /\ n.pc = pc /\ n.row = q.row /\ n.tokens = q.tokens /\ n.seen = seen
      /\ n.loaded = q.loaded /\ n.ordered = q.ordered /\ n.rejected = q.rejected
      /\ n.reply = q.reply
  BY <1>2, <1>4 DEF RequestFields, Keeps
<1> QED
  BY <1>1, <1>3, <1>5

LEMMA InsertStep ==
    ASSUME Fields, NEW k \in Submits, Insert(k)
    PROVE  \E n : /\ Becoming(k, n) /\ Keeps(n, req[k])
                  /\ n.pc = "load"
                  /\ n.row = born' /\ n.tokens = req[k].tokens
                  /\ n.seen = products' /\ n.loaded = req[k].loaded
                  /\ n.ordered = req[k].ordered /\ n.rejected = req[k].rejected
                  /\ n.reply = req[k].reply
<1>1. PICK q, seen, row : q = req[k] /\ seen = products' /\ row = born'
  OBVIOUS
<1>2. PICK n : n = [q EXCEPT !.pc = "load", !.row = row, !.seen = seen]
  OBVIOUS
<1>3. req' = [req EXCEPT ![k].pc = "load", ![k].row = row, ![k].seen = seen]
  BY <1>1 DEF Insert
<1>4. Becoming(k, n)
  BY <1>1, <1>2, <1>3 DEF Fields, Becoming
<1>5. RequestFields(q)
  BY <1>1 DEF Fields
<1>6. /\ Keeps(n, q) /\ n.pc = "load" /\ n.row = row /\ n.tokens = q.tokens /\ n.seen = seen
      /\ n.loaded = q.loaded /\ n.ordered = q.ordered /\ n.rejected = q.rejected
      /\ n.reply = q.reply
  BY <1>2, <1>5 DEF RequestFields, Keeps
<1> QED
  BY <1>1, <1>4, <1>6

LEMMA LoadStep ==
    ASSUME Fields, NEW k \in Submits, Load(k), ~(req[k].product = New /\ req[k].row \notin Alive)
    PROVE  \E n : /\ Becoming(k, n) /\ Keeps(n, req[k])
                  /\ n.pc = "tokens"
                  /\ n.row = req[k].row /\ n.tokens = req[k].tokens
                  /\ n.seen = req[k].seen
                  /\ n.loaded = [m \in Media |-> IF m \in RowsOf(media, req[k].row)
                                                 THEN media[m] ELSE NoRow]
                  /\ n.ordered = req[k].ordered /\ n.rejected = req[k].rejected
                  /\ n.reply = req[k].reply
<1>1. PICK q, loaded : /\ q = req[k]
                       /\ loaded = [m \in Media |-> IF m \in RowsOf(media, req[k].row)
                                                    THEN media[m] ELSE NoRow]
  OBVIOUS
<1>2. PICK n : n = [q EXCEPT !.pc = "tokens", !.loaded = loaded]
  OBVIOUS
<1>3. req' = [req EXCEPT ![k].pc = "tokens", ![k].loaded = loaded]
  BY <1>1 DEF Load
<1>4. Becoming(k, n)
  BY <1>1, <1>2, <1>3 DEF Fields, Becoming
<1>5. RequestFields(q)
  BY <1>1 DEF Fields
<1>6. /\ Keeps(n, q) /\ n.pc = "tokens" /\ n.row = q.row /\ n.tokens = q.tokens
      /\ n.seen = q.seen
      /\ n.loaded = loaded /\ n.ordered = q.ordered /\ n.rejected = q.rejected
      /\ n.reply = q.reply
  BY <1>2, <1>5 DEF RequestFields, Keeps
<1> QED
  BY <1>1, <1>4, <1>6

LEMMA NamesTakenStep ==
    ASSUME Fields, NEW k \in Submits, NamesTaken(k)
    PROVE  \E n : /\ Becoming(k, n) /\ Keeps(n, req[k])
                  /\ n.pc = "commit"
                  /\ n.row = req[k].row /\ n.tokens = req[k].tokens
                  /\ n.seen = req[k].seen /\ n.loaded = req[k].loaded
                  /\ n.ordered = req[k].ordered /\ n.rejected = req[k].rejected
                  /\ n.reply = req[k].reply
<1>1. PICK q : q = req[k]
  OBVIOUS
<1>2. PICK n : n = [q EXCEPT !.pc = "commit"]
  OBVIOUS
<1>3. Becoming(k, n)
  BY <1>1, <1>2 DEF Fields, Becoming, NamesTaken
<1>4. RequestFields(q)
  BY <1>1 DEF Fields
<1>5. /\ Keeps(n, q) /\ n.pc = "commit" /\ n.row = q.row /\ n.tokens = q.tokens
      /\ n.seen = q.seen
      /\ n.loaded = q.loaded /\ n.ordered = q.ordered /\ n.rejected = q.rejected
      /\ n.reply = q.reply
  BY <1>2, <1>4 DEF RequestFields, Keeps
<1> QED
  BY <1>1, <1>3, <1>5

\* A name of the order is taken: what it names is added, or not.
Joined(s, m) == IF m \in Range(s) THEN s ELSE Append(s, m)

TakenFields(n, q, ordered, rejected) ==
    /\ Keeps(n, q)
    /\ n.pc = "tokens" /\ n.row = q.row /\ n.tokens = Tail(q.tokens)
    /\ n.seen = q.seen /\ n.loaded = q.loaded /\ n.reply = q.reply
    /\ n.ordered = ordered /\ n.rejected = rejected

LEMMA TakeStep ==
    ASSUME Fields, NEW k \in Submits, Take(k), NEW t, t = Head(req[k].tokens)
    PROVE  \E n : 
             /\ Becoming(k, n) 
             /\ \/ /\ "existing" \in DOMAIN t /\ req[k].loaded[t.existing] = NoRow
                   /\ TakenFields(n, req[k], req[k].ordered, req[k].rejected)
                   /\ UNCHANGED <<staged, faults>>
                \/ /\ "existing" \in DOMAIN t /\ req[k].loaded[t.existing] # NoRow
                   /\ TakenFields(n, req[k], Joined(req[k].ordered, t.existing), req[k].rejected)
                   /\ UNCHANGED <<staged, faults>>
                \/ /\ "new" \in DOMAIN t /\ t.new >= Len(req[k].files)
                   /\ TakenFields(n, req[k], req[k].ordered, req[k].rejected)
                   /\ UNCHANGED <<staged, faults>>
                \/ /\ "new" \in DOMAIN t /\ t.new < Len(req[k].files)
                   /\ \E f : 
                        /\ f = req[k].files[t.new + 1]
                        /\ \/ /\ kind[f] = "fine"
                              /\ TakenFields(n, req[k], Joined(req[k].ordered, <<f, k>>), req[k].rejected)
                           \/ /\ kind[f] # "fine"
                              /\ TakenFields(n, req[k], req[k].ordered, req[k].rejected \cup {f})
                        /\ \/ Consumed(k, f) /\ UNCHANGED faults
                           \/ <<f, k>> \in staged /\ Fault /\ UNCHANGED staged
<1> DEFINE q == req[k]
<1>1. PICK rest : rest = Tail(q.tokens)
  OBVIOUS
<1>2. PICK p : p = [q EXCEPT !.tokens = rest]
  OBVIOUS
<1>3. RequestFields(q) /\ q.pc = "tokens"
  BY DEF Fields, Take
<1>4. RequestFields(p) /\ TakenFields(p, q, q.ordered, q.rejected)
      /\ p.ordered = q.ordered /\ p.rejected = q.rejected /\ p.loaded = q.loaded
      /\ p.files = q.files
  <2>1. RequestFields(p)
    BY <1>2, <1>3 DEF RequestFields
  <2>2. TakenFields(p, q, q.ordered, q.rejected)
    BY <1>1, <1>2, <1>3 DEF RequestFields, TakenFields, Keeps
  <2> QED
    BY <2>1, <2>2 DEF TakenFields, Keeps
<1>5. ASSUME NEW n, req' = [req EXCEPT ![k] = n] PROVE Becoming(k, n)
  BY <1>5 DEF Fields, Becoming
<1>6. ASSUME NEW m, NEW n, n = Took(p, m) PROVE TakenFields(n, q, Joined(q.ordered, m), q.rejected)
  <2>1. CASE m \in Range(p.ordered)
    BY <1>4, <1>6, <2>1 DEF Took, Joined
  <2>2. CASE m \notin Range(p.ordered)
    <3>1. PICK ordered : ordered = Append(q.ordered, m)
      OBVIOUS
    <3>2. n = [p EXCEPT !.ordered = ordered]
      BY <1>4, <1>6, <2>2, <3>1 DEF Took
    <3>3. Joined(q.ordered, m) = ordered
      BY <1>4, <2>2, <3>1 DEF Joined
    <3>4. TakenFields(n, q, ordered, q.rejected)
      BY <1>4, <3>2 DEF TakenFields, Keeps, RequestFields
    <3> QED
      BY <3>3, <3>4
  <2> QED
    BY <2>1, <2>2
<1>7. ASSUME NEW f, NEW n, n = Rejected(p, f)
      PROVE  TakenFields(n, q, q.ordered, q.rejected \cup {f})
  <2>1. PICK rejected : rejected = q.rejected \cup {f}
    OBVIOUS
  <2>2. n = [p EXCEPT !.rejected = rejected]
    BY <1>4, <1>7, <2>1 DEF Rejected
  <2>3. TakenFields(n, q, q.ordered, rejected)
    BY <1>4, <2>2 DEF TakenFields, Keeps, RequestFields
  <2> QED
    BY <2>1, <2>3
<1>8. \/ /\ "existing" \in DOMAIN t
         /\ req' = [req EXCEPT ![k] = IF p.loaded[t.existing] = NoRow THEN p
                                      ELSE Took(p, t.existing)]
         /\ UNCHANGED <<staged, faults>>
      \/ /\ "new" \in DOMAIN t /\ t.new >= Len(p.files)
         /\ req' = [req EXCEPT ![k] = p]
         /\ UNCHANGED <<staged, faults>>
      \/ /\ "new" \in DOMAIN t /\ t.new < Len(p.files)
         /\ \E f : 
              /\ f = p.files[t.new + 1]
              /\ req' = [req EXCEPT ![k] = IF kind[f] = "fine" THEN Took(p, <<f, k>>)
                                           ELSE Rejected(p, f)]
              /\ \/ Consumed(k, f) /\ UNCHANGED faults
                 \/ <<f, k>> \in staged /\ Fault /\ UNCHANGED staged
  BY <1>1, <1>2 DEF Take
<1>9. CASE /\ "existing" \in DOMAIN t
           /\ req' = [req EXCEPT ![k] = IF p.loaded[t.existing] = NoRow THEN p
                                        ELSE Took(p, t.existing)]
           /\ UNCHANGED <<staged, faults>>
  <2>1. CASE p.loaded[t.existing] = NoRow
    <3>1. Becoming(k, p)
      BY <1>5, <1>9, <2>1
    <3> QED
      BY <1>4, <1>9, <2>1, <3>1
  <2>2. CASE p.loaded[t.existing] # NoRow
    <3>1. PICK n : n = Took(p, t.existing)
      OBVIOUS
    <3>2. Becoming(k, n)
      BY <1>5, <1>9, <2>2, <3>1
    <3>3. TakenFields(n, q, Joined(q.ordered, t.existing), q.rejected)
      BY <1>6, <3>1
    <3> QED
      BY <1>4, <1>9, <2>2, <3>2, <3>3
  <2> QED
    BY <2>1, <2>2
<1>10. CASE /\ "new" \in DOMAIN t /\ t.new >= Len(p.files)
            /\ req' = [req EXCEPT ![k] = p]
            /\ UNCHANGED <<staged, faults>>
  <2>1. Becoming(k, p)
    BY <1>5, <1>10
  <2> QED
    BY <1>4, <1>10, <2>1
<1>11. ASSUME NEW f, "new" \in DOMAIN t, t.new < Len(p.files), f = p.files[t.new + 1],
              req' = [req EXCEPT ![k] = IF kind[f] = "fine" THEN Took(p, <<f, k>>)
                                        ELSE Rejected(p, f)]
       PROVE  \E n : /\ Becoming(k, n)
                     /\ \/ /\ kind[f] = "fine"
                           /\ TakenFields(n, q, Joined(q.ordered, <<f, k>>), q.rejected)
                        \/ /\ kind[f] # "fine"
                           /\ TakenFields(n, q, q.ordered, q.rejected \cup {f})
  <2>1. CASE kind[f] = "fine"
    <3>1. PICK n : n = Took(p, <<f, k>>)
      OBVIOUS
    <3>2. Becoming(k, n)
      BY <1>5, <1>11, <2>1, <3>1
    <3> QED
      BY <1>6, <2>1, <3>1, <3>2
  <2>2. CASE kind[f] # "fine"
    <3>1. PICK n : n = Rejected(p, f)
      OBVIOUS
    <3>2. Becoming(k, n)
      BY <1>5, <1>11, <2>2, <3>1
    <3> QED
      BY <1>7, <2>2, <3>1, <3>2
  <2> QED
    BY <2>1, <2>2
<1>12. p.files = q.files
  BY <1>4
<1> HIDE DEF q
<1>13. CASE /\ "new" \in DOMAIN t /\ t.new < Len(p.files)
            /\ \E f : 
                 /\ f = p.files[t.new + 1]
                 /\ req' = [req EXCEPT ![k] = IF kind[f] = "fine" THEN Took(p, <<f, k>>)
                                              ELSE Rejected(p, f)]
                 /\ \/ Consumed(k, f) /\ UNCHANGED faults
                    \/ <<f, k>> \in staged /\ Fault /\ UNCHANGED staged
  <2>1. PICK f : /\ f = p.files[t.new + 1]
                 /\ req' = [req EXCEPT ![k] = IF kind[f] = "fine" THEN Took(p, <<f, k>>)
                                              ELSE Rejected(p, f)]
                 /\ \/ Consumed(k, f) /\ UNCHANGED faults
                    \/ <<f, k>> \in staged /\ Fault /\ UNCHANGED staged
    BY <1>13
  <2>2. PICK n : /\ Becoming(k, n)
                 /\ \/ /\ kind[f] = "fine"
                       /\ TakenFields(n, q, Joined(q.ordered, <<f, k>>), q.rejected)
                    \/ /\ kind[f] # "fine"
                       /\ TakenFields(n, q, q.ordered, q.rejected \cup {f})
    BY <1>11, <1>13, <2>1
  <2> QED
    BY <1>12, <1>13, <2>1, <2>2 DEF q
<1> QED
  BY <1>8, <1>9, <1>10, <1>13

-----------------------------------------------------------------------------
(***************************************************************************)
(* Orders of products and of media.                                        *)
(***************************************************************************)
ListOrder(table) == {z \in Ids \X Ids : ListedBefore(table, z[1], z[2])}

\* Products are listed in one order.
LEMMA ListedOrder ==
    ASSUME NEW table, NEW some \in SUBSET Ids, \A p \in some : table[p] \in Row
    PROVE  /\ IsFiniteSet(some)
           /\ Listed(table, some) \in SetToSeqs(some)
           /\ Rising(ListOrder(table), Listed(table, some))
           /\ \A s \in SetToSeqs(some) : Rising(ListOrder(table), s) => s = Listed(table, some)
<1> DEFINE R == ListOrder(table)
<1>1. IsFiniteSet(some)
  <2>1. IsFiniteSet(Ids)
    BY ListAssumption, FS_Interval DEF Ids
  <2> QED
    BY <2>1, FS_Subset
<1>2. Orders(R, some)
  <2>1. \A p \in some : p \in Nat /\ table[p].position \in Nat
    BY DEF Ids, Row
  <2> QED
    BY <2>1 DEF Orders, ListOrder, ListedBefore
<1> HIDE DEF R
<1>3. /\ \E s \in SetToSeqs(some) : Rising(R, s)
      /\ \A s, t \in SetToSeqs(some) : Rising(R, s) /\ Rising(R, t) => s = t
  BY <1>1, <1>2, Sorting
<1>4. ASSUME NEW s \in SetToSeqs(some)
      PROVE  Rising(R, s) <=> \A k, l \in DOMAIN s : k < l => ListedBefore(table, s[k], s[l])
  <2>1. \A k \in DOMAIN s : s[k] \in Ids
    BY DEF SetToSeqs
  <2> QED
    BY <2>1 DEF Rising, R, ListOrder
<1>5. Listed(table, some) = CHOOSE s \in SetToSeqs(some) : Rising(R, s)
  BY <1>4 DEF Listed
<1>6. Listed(table, some) \in SetToSeqs(some) /\ Rising(R, Listed(table, some))
  BY <1>3, <1>5
<1> QED
  BY <1>1, <1>3, <1>6 DEF R

\* The next position is after every other.
LEMMA NextPositionLast ==
    ASSUME NEW table \in Table
    PROVE  /\ NextPosition(table) \in Nat
           /\ \A p \in Ids : table[p] # NoProduct => table[p].position < NextPosition(table)
<1> DEFINE some == {p \in Ids : table[p] # NoProduct}
<1>1. \A p \in some : table[p] \in Row /\ p \in Ids
  BY DEF Table
<1>2. CASE some = {}
  BY <1>2 DEF NextPosition
<1>3. CASE some # {}
  <2>1. PICK s : s = Listed(table, some)
    OBVIOUS
  <2>2. /\ IsFiniteSet(some) /\ s \in SetToSeqs(some)
        /\ Rising(ListOrder(table), s)
    <3>1. some \in SUBSET Ids
      OBVIOUS
    <3> HIDE DEF some
    <3> QED
      BY <1>1, <2>1, <3>1, ListedOrder
  <2>3. s \in Seq(some) /\ Range(s) = some
    <3> HIDE DEF some
    <3> QED
      BY <2>2, Enumerations
  <2>4. Len(s) \in DOMAIN s /\ DOMAIN s = 1..Len(s) /\ Len(s) \in Nat
    BY <1>3, <2>3 DEF Range
  <2>5. ASSUME NEW q \in some PROVE table[q].position <= table[s[Len(s)]].position
    <3>1. PICK i \in DOMAIN s : s[i] = q
      BY <2>3 DEF Range
    <3>2. s[Len(s)] \in some
      BY <2>3, <2>4
    <3>3. table[q].position \in Nat /\ table[s[Len(s)]].position \in Nat
      BY <1>1, <3>2 DEF Row
    <3>4. CASE i = Len(s)
      BY <3>1, <3>3, <3>4
    <3>5. CASE i # Len(s)
      <4>1. <<s[i], s[Len(s)]>> \in ListOrder(table)
        BY <2>2, <2>4, <3>5 DEF Rising
      <4> QED
        BY <3>1, <3>3, <4>1 DEF ListOrder, ListedBefore
    <3> QED
      BY <3>4, <3>5
  <2>6. s[Len(s)] \in some
    BY <2>3, <2>4
  <2> DEFINE last == CHOOSE p \in some : \A q \in some : table[q].position <= table[p].position
  <2>7. last \in some /\ \A q \in some : table[q].position <= table[last].position
    BY <2>5, <2>6
  <2> HIDE DEF last
  <2>8. table[last].position \in Nat /\ \A q \in some : table[q].position \in Nat
    BY <1>1, <2>7 DEF Row
  <2>9. NextPosition(table) = table[last].position + 1
    BY <1>3 DEF NextPosition, last
  <2> QED
    BY <2>7, <2>8, <2>9
<1> QED
  BY <1>2, <1>3

LEMMA MediaFinite == IsFiniteSet(Media) /\ \A table, p : IsFiniteSet(RowsOf(table, p))
<1>1. IsFiniteSet(Submits)
  BY FormAssumption, FS_Interval DEF Submits
<1>2. IsFiniteSet(Photos \X Submits)
  BY <1>1, FormAssumption, FS_Product
<1>3. IsFiniteSet(Media)
  BY <1>2, FormAssumption, FS_Union DEF Media
<1>4. \A table, p : RowsOf(table, p) \in SUBSET Media
  BY DEF RowsOf
<1> QED
  BY <1>3, <1>4, FS_Subset

\* A gallery has each medium of the product once.
LEMMA GalleryOrder ==
    ASSUME NEW table, NEW p, NEW s \in Galleries(table, p)
    PROVE  s \in Seq(Media) /\ Distinct(s) /\ Range(s) = RowsOf(table, p)
<1>1. IsFiniteSet(RowsOf(table, p)) /\ s \in SetToSeqs(RowsOf(table, p))
  BY MediaFinite DEF Galleries
<1>2. s \in Seq(RowsOf(table, p)) /\ Distinct(s) /\ Range(s) = RowsOf(table, p)
  BY <1>1, Enumerations
<1>3. RowsOf(table, p) \subseteq Media
  BY DEF RowsOf
<1> QED
  BY <1>2, <1>3

LEMMA NumberType ==
    ASSUME NEW T, NEW s \in Seq(T), NEW S, NEW i
    PROVE  Number(s, S, i) \in Nat
<1>1. IsFiniteSet(At(s, S))
  <2>1. Elements(T, s, S)
    BY OnlyElements
  <2> QED
    BY <2>1 DEF Elements
<1>2. {j \in At(s, S) : j < i} \in SUBSET At(s, S)
  OBVIOUS
<1>3. IsFiniteSet({j \in At(s, S) : j < i})
  BY <1>1, <1>2, FS_Subset
<1> QED
  BY <1>3, FS_CardinalityType DEF Number

\* The order of the tiles, and the files it numbers.
LEMMA TokensOf ==
    ASSUME NEW tiles \in Seq(Tile)
    PROVE  /\ Files(tiles) \in Seq(Photos)
           /\ Tokens(tiles) \in Seq(Token)
           /\ Len(Tokens(tiles)) = Len(tiles)
           /\ \A i \in 1..Len(tiles) :
                 Tokens(tiles)[i] = IF IsFile(tiles[i]) THEN [new |-> Number(tiles, Photos, i)]
                                    ELSE [existing |-> tiles[i]]
<1>1. Files(tiles) \in Seq(Photos)
  <2>1. Only(tiles, Photos) \in Seq(Tile \cap Photos)
    <3>1. Elements(Tile, tiles, Photos)
      BY OnlyElements
    <3> QED
      BY <3>1 DEF Elements
  <2>2. Tile \cap Photos = Photos
    BY DEF Tile
  <2> QED
    BY <2>1, <2>2 DEF Files
<1>2. DOMAIN tiles = 1..Len(tiles) /\ Len(tiles) \in Nat /\ \A i \in 1..Len(tiles) : tiles[i] \in Tile
  OBVIOUS
<1>3. ASSUME NEW i \in 1..Len(tiles)
      PROVE  Tokens(tiles)[i] = IF IsFile(tiles[i]) THEN [new |-> Number(tiles, Photos, i)]
                                ELSE [existing |-> tiles[i]]
  <2>1. {j \in 1..(i - 1) : IsFile(tiles[j])} = {j \in At(tiles, Photos) : j < i}
    BY <1>2 DEF At, IsFile
  <2>2. Tokens(tiles)[i] = IF IsFile(tiles[i])
             THEN [new |-> Cardinality({j \in 1..(i - 1) : IsFile(tiles[j])})]
             ELSE [existing |-> tiles[i]]
    BY <1>2 DEF Tokens
  <2> QED
    BY <2>1, <2>2 DEF Number
<1>4. ASSUME NEW i \in 1..Len(tiles) PROVE Tokens(tiles)[i] \in Token
  <2>1. CASE IsFile(tiles[i])
    <3>1. Number(tiles, Photos, i) \in Nat
      BY NumberType
    <3>2. [new |-> Number(tiles, Photos, i)] \in [new: Nat]
      BY <3>1
    <3>3. Tokens(tiles)[i] = [new |-> Number(tiles, Photos, i)]
      BY <1>3, <2>1
    <3> QED
      BY <3>2, <3>3 DEF Token
  <2>2. CASE ~IsFile(tiles[i])
    <3>1. tiles[i] \in Media
      BY <1>2, <2>2 DEF Tile, IsFile
    <3>2. [existing |-> tiles[i]] \in [existing: Media]
      BY <3>1
    <3>3. Tokens(tiles)[i] = [existing |-> tiles[i]]
      BY <1>3, <2>2
    <3> QED
      BY <3>2, <3>3 DEF Token
  <2> QED
    BY <2>1, <2>2
<1>5. DOMAIN Tokens(tiles) = 1..Len(tiles)
  BY <1>2 DEF Tokens
<1>6. Tokens(tiles) = [i \in 1..Len(tiles) |-> Tokens(tiles)[i]]
  BY <1>2 DEF Tokens
<1>7. Tokens(tiles) \in [1..Len(tiles) -> Token]
  BY <1>4, <1>6
<1>8. Tokens(tiles) \in Seq(Token) /\ Len(Tokens(tiles)) = Len(tiles)
  BY <1>2, <1>5, <1>7
<1> QED
  BY <1>1, <1>3, <1>8

LEMMA JoinedType ==
    ASSUME NEW T, NEW s \in Seq(T), NEW e \in T
    PROVE  /\ Joined(s, e) \in Seq(T)
           /\ Distinct(s) => Distinct(Joined(s, e))
<1>1. CASE e \in Range(s)
  BY <1>1 DEF Joined
<1>2. CASE e \notin Range(s)
  <2>1. Joined(s, e) = Append(s, e)
    BY <1>2 DEF Joined
  <2>2. /\ Append(s, e) \in Seq(T) /\ Len(Append(s, e)) = Len(s) + 1 /\ Len(s) \in Nat
        /\ DOMAIN s = 1..Len(s) /\ DOMAIN Append(s, e) = 1..(Len(s) + 1)
        /\ \A i \in 1..Len(s) : Append(s, e)[i] = s[i] /\ s[i] # e
        /\ Append(s, e)[Len(s) + 1] = e
    BY <1>2 DEF Range
  <2>3. ASSUME Distinct(s) PROVE Distinct(Append(s, e))
    <3> SUFFICES ASSUME NEW i \in 1..(Len(s) + 1), NEW j \in 1..(Len(s) + 1),
                        Append(s, e)[i] = Append(s, e)[j]
                 PROVE  i = j
      BY <2>2 DEF Distinct
    <3>1. CASE i \in 1..Len(s) /\ j \in 1..Len(s)
      BY <2>2, <2>3, <3>1 DEF Distinct
    <3>2. CASE i = Len(s) + 1 \/ j = Len(s) + 1
      BY <2>2, <3>2
    <3> QED
      BY <2>2, <3>1, <3>2
  <2> QED
    BY <2>1, <2>2, <2>3
<1> QED
  BY <1>1, <1>2

-----------------------------------------------------------------------------
(***************************************************************************)
(* The list: its types, and no product twice in an order.                  *)
(***************************************************************************)
ListTypes ==
    /\ ListTypeOK
    /\ Distinct(page)
    /\ \A c \in Calls :
          /\ call[c].pc = "toggle" => call[c].loaded[call[c].product] # NoProduct
          /\ call[c].pc \in {"load", "reorder"} => Distinct(call[c].order)

LEMMA ListedRows ==
    ASSUME NEW table, NEW some \in SUBSET Ids, \A p \in some : table[p] \in Row,
           NEW S, some \subseteq S
    PROVE  /\ Listed(table, some) \in Seq(S)
           /\ Distinct(Listed(table, some)) /\ Range(Listed(table, some)) = some
<1>1. PICK s : s = Listed(table, some)
  OBVIOUS
<1>2. IsFiniteSet(some) /\ s \in SetToSeqs(some)
  BY <1>1, ListedOrder
<1>3. s \in Seq(some) /\ Distinct(s) /\ Range(s) = some
  BY <1>2, Enumerations
<1>4. s \in Seq(S)
  BY <1>3
<1> QED
  BY <1>1, <1>3, <1>4

LEMMA CallKinds ==
    ASSUME NEW q \in Call
    PROVE  /\ q.pc \in {"idle", "toggle", "load", "reorder"}
           /\ q.pc = "toggle" => q.product \in Ids /\ q.loaded \in Table
           /\ q.pc \in {"load", "reorder"} => q.order \in Seq(Ids)
           /\ q.pc = "reorder" => q.loaded \in Table
  BY DEF Call, NoCall

LEMMA ListInitTypes == ListInit => ListTypes
<1> SUFFICES ASSUME ListInit PROVE ListTypes
  OBVIOUS
<1> USE DEF ListInit
<1>1. products \in Table
  <2>1. \A p \in Ids : p > 2 \/ 2 * (p - 1) \in Nat
    BY DEF Ids
  <2>2. \A p \in Ids : products[p] = IF p > 2 THEN NoProduct
                                     ELSE [position |-> 2 * (p - 1), published |-> TRUE]
    OBVIOUS
  <2>3. \A p \in Ids : products[p] \in Row \cup {NoProduct}
    <3> SUFFICES ASSUME NEW p \in Ids, ~(p > 2) PROVE products[p] \in Row
      BY <2>2
    <3>1. PICK n \in Nat : n = 2 * (p - 1)
      BY <2>1
    <3>2. [position |-> n, published |-> TRUE] \in Row
      BY DEF Row
    <3> QED
      BY <2>2, <3>1, <3>2
  <2> QED
    BY <2>3 DEF Table
<1>2. born \in 0..MaxProducts /\ Alive \subseteq 1..born
  <2>1. \A p \in Ids : p > 2 => products[p] = NoProduct
    OBVIOUS
  <2> QED
    BY <2>1, ListAssumption DEF Alive, Ids
<1>3. page \in Seq(1..born) /\ Distinct(page)
  BY DEF Distinct
<1>4. call \in [Calls -> Call] /\ \A c \in Calls : call[c].pc = "idle"
  BY DEF Call, NoCall
<1>5. calls \in 0..MaxCalls
  BY ListAssumption
<1> QED
  BY <1>1, <1>2, <1>3, <1>4, <1>5 DEF ListTypes, ListTypeOK

LEMMA AlivesAreRows ==
    ASSUME products \in Table
    PROVE  /\ \A p \in Alive : products[p] \in Row
           /\ Alive \in SUBSET Ids
           /\ \A p \in Ids : products[p] \in Row => p \in Alive
  BY ListAssumption DEF Alive, Table

LEMMA ListKept ==
    ASSUME ListTypes, List \/ Delete
    PROVE  ListTypes' /\ (List => Alive' = Alive)
<1> USE DEF ListTypes, ListTypeOK
<1>0. /\ MaxProducts \in Nat /\ MaxCalls \in Nat /\ born \in Nat
      /\ \A p \in Alive : products[p] \in Row
      /\ Alive \in SUBSET Ids
      /\ \A c \in Calls : call[c] \in Call
      /\ UNCHANGED born
  <2>1. UNCHANGED born
    BY DEF List, Delete, OpenList, ListStep, Drag, LoadOrder, Reorder, LoadToggle, Toggle
  <2> QED
    BY <2>1, ListAssumption, AlivesAreRows
<1>1. ASSUME NEW c \in Calls, NEW q \in Call, call' = [call EXCEPT ![c] = q],
             q.pc = "toggle" => q.loaded[q.product] # NoProduct,
             q.pc \in {"load", "reorder"} => Distinct(q.order)
      PROVE  /\ call' \in [Calls -> Call]
             /\ \A d \in Calls :
                  /\ call'[d].pc = "toggle" => call'[d].loaded[call'[d].product] # NoProduct
                  /\ call'[d].pc \in {"load", "reorder"} => Distinct(call'[d].order)
  <2>1. \A d \in Calls : call'[d] = IF d = c THEN q ELSE call[d]
    BY <1>1
  <2> QED
    BY <1>1, <2>1
<1>2. ASSUME NEW rows \in Seq(1..born), Distinct(rows), Shows(rows)
      PROVE  page' \in Seq(1..born) /\ Distinct(page')
  <2>1. <<>> \in Seq(1..born) /\ Distinct(<<>>)
    BY DEF Distinct
  <2> QED
    BY <1>2, <2>1 DEF Shows
<1>3. NoCall \in Call /\ NoCall.pc = "idle"
  BY DEF NoCall, Call
<1>4. ASSUME OpenList PROVE ListTypes' /\ Alive' = Alive
  <2>1. Listed(products, Alive) \in Seq(1..born) /\ Distinct(Listed(products, Alive))
    BY <1>0, ListedRows
  <2> QED
    BY <1>0, <1>4, <2>1 DEF OpenList, Alive
<1>5. ASSUME NEW c \in Calls, Drag(c) PROVE ListTypes' /\ Alive' = Alive
  <2>1. PICK i, j, order :
          /\ i \in DOMAIN page /\ j \in DOMAIN page
          /\ order = InsertAt(RemoveAt(page, i), j, page[i])
          /\ Send(c, [pc |-> "load", order |-> order]) /\ Shows(order)
    BY <1>5 DEF Drag
  <2>2. order \in Seq(1..born) /\ Distinct(order)
    BY <2>1, DraggedElements
  <2>3. order \in Seq(Ids)
    <3>1. 1..born \subseteq Ids
      BY <1>0 DEF Ids
    <3> QED
      BY <2>2, <3>1
  <2>4. PICK q : q = [pc |-> "load", order |-> order]
    OBVIOUS
  <2>5. q \in Call /\ q.pc = "load" /\ q.order = order
    BY <2>3, <2>4 DEF Call
  <2>6. call' = [call EXCEPT ![c] = q] /\ calls' = calls - 1 /\ calls > 0
    BY <2>1, <2>4 DEF Send
  <2>7. /\ call' \in [Calls -> Call]
        /\ \A d \in Calls :
             /\ call'[d].pc = "toggle" => call'[d].loaded[call'[d].product] # NoProduct
             /\ call'[d].pc \in {"load", "reorder"} => Distinct(call'[d].order)
    BY <1>1, <2>2, <2>5, <2>6
  <2>8. page' \in Seq(1..born) /\ Distinct(page')
    BY <1>2, <2>1, <2>2
  <2>9. UNCHANGED <<products, born>>
    BY <1>5 DEF Drag
  <2>10. Alive' = Alive /\ calls' \in 0..MaxCalls
    BY <1>0, <2>6, <2>9 DEF Alive
  <2> QED
    BY <2>7, <2>8, <2>9, <2>10
<1>6. ASSUME NEW c \in Calls, LoadOrder(c) PROVE ListTypes' /\ Alive' = Alive
  <2>1. call[c].pc = "load" /\ call[c].order \in Seq(Ids) /\ Distinct(call[c].order)
    BY <1>0, <1>6, CallKinds DEF LoadOrder
  <2>2. PICK q : q = [pc |-> "reorder", order |-> call[c].order, loaded |-> products]
    OBVIOUS
  <2>3. q \in Call /\ q.pc = "reorder" /\ q.order = call[c].order
    BY <2>1, <2>2 DEF Call
  <2>4. call' = [call EXCEPT ![c] = q] /\ UNCHANGED <<products, born, page, calls>>
    BY <1>6, <2>2 DEF LoadOrder
  <2>5. /\ call' \in [Calls -> Call]
        /\ \A d \in Calls :
             /\ call'[d].pc = "toggle" => call'[d].loaded[call'[d].product] # NoProduct
             /\ call'[d].pc \in {"load", "reorder"} => Distinct(call'[d].order)
    BY <1>1, <2>1, <2>3, <2>4
  <2>6. Alive' = Alive
    BY <2>4 DEF Alive
  <2> QED
    BY <2>4, <2>5, <2>6
<1>7. ASSUME NEW c \in Calls, Reorder(c) PROVE ListTypes' /\ Alive' = Alive
  <2>1. call[c].pc = "reorder" /\ call[c].order \in Seq(Ids) /\ call[c].loaded \in Table
    BY <1>0, <1>7, CallKinds DEF Reorder
  <2>2. call' = [call EXCEPT ![c] = NoCall] /\ UNCHANGED <<born, page, calls>>
    BY <1>7 DEF Reorder
  <2>3. /\ call' \in [Calls -> Call]
        /\ \A d \in Calls :
             /\ call'[d].pc = "toggle" => call'[d].loaded[call'[d].product] # NoProduct
             /\ call'[d].pc \in {"load", "reorder"} => Distinct(call'[d].order)
    BY <1>1, <1>3, <2>2
  <2>4. CASE products' = products
    <3>1. Alive' = Alive
      BY <2>4 DEF Alive
    <3> QED
      BY <2>2, <2>3, <2>4, <3>1
  <2>5. CASE products' # products
    <3>1. /\ Moved(call[c]) \subseteq Alive
          /\ products' = [p \in Ids |-> IF p \in Moved(call[c])
                THEN [products[p] EXCEPT !.position = Place(call[c].order, p)]
                ELSE products[p]]
      BY <1>7, <2>5 DEF Reorder
    <3>2. ASSUME NEW p \in Moved(call[c]) PROVE Place(call[c].order, p) \in Nat
      <4>1. PICK o \in Seq(Ids) : o = call[c].order
        BY <2>1
      <4>2. p \in Range(o)
        BY <4>1 DEF Moved
      <4>3. (CHOOSE i \in DOMAIN o : o[i] = p) \in DOMAIN o
        BY <4>2 DEF Range
      <4>4. DOMAIN o = 1..Len(o)
        BY <4>1
      <4>5. PICK x : x = CHOOSE i \in DOMAIN o : o[i] = p
        OBVIOUS
      <4>6. x - 1 \in Nat
        BY <4>3, <4>4, <4>5
      <4> QED
        BY <4>1, <4>5, <4>6 DEF Place
    <3>3. ASSUME NEW row \in Row, NEW n \in Nat PROVE [row EXCEPT !.position = n] \in Row
      BY DEF Row
    <3>4. \A p \in Ids : p \in Moved(call[c]) => products'[p] \in Row
      BY <1>0, <3>1, <3>2, <3>3
    <3>5. \A p \in Ids : p \notin Moved(call[c]) => products'[p] = products[p]
      BY <3>1
    <3>6. products' \in Table
      <4>1. \A p \in Ids : products'[p] \in Row \cup {NoProduct}
        BY <3>4, <3>5 DEF Table
      <4> QED
        BY <3>1, <4>1 DEF Table
    <3>7. Alive' = Alive
      BY <1>0, <3>1, <3>4, <3>5, ListAssumption DEF Alive
    <3> QED
      BY <2>2, <2>3, <3>6, <3>7
  <2> QED
    BY <2>4, <2>5
<1>8. ASSUME NEW c \in Calls, LoadToggle(c) PROVE ListTypes' /\ Alive' = Alive
  <2>1. PICK p \in Alive : Send(c, [pc |-> "toggle", product |-> p, loaded |-> products])
    BY <1>8 DEF LoadToggle
  <2>2. PICK q : q = [pc |-> "toggle", product |-> p, loaded |-> products]
    OBVIOUS
  <2>3. /\ q \in Call /\ q.pc = "toggle" /\ q.loaded[q.product] # NoProduct
    BY <1>0, <2>2 DEF Call, Alive
  <2>4. call' = [call EXCEPT ![c] = q] /\ calls' = calls - 1 /\ calls > 0
    BY <2>1, <2>2 DEF Send
  <2>5. /\ call' \in [Calls -> Call]
        /\ \A d \in Calls :
             /\ call'[d].pc = "toggle" => call'[d].loaded[call'[d].product] # NoProduct
             /\ call'[d].pc \in {"load", "reorder"} => Distinct(call'[d].order)
    BY <1>1, <2>3, <2>4
  <2>6. Shows(page) /\ UNCHANGED <<products, born>>
    BY <1>8 DEF LoadToggle
  <2>7. page' \in Seq(1..born) /\ Distinct(page')
    BY <1>2, <2>6
  <2>8. Alive' = Alive /\ calls' \in 0..MaxCalls
    BY <1>0, <2>4, <2>6 DEF Alive
  <2> QED
    BY <2>5, <2>6, <2>7, <2>8
<1>9. ASSUME NEW c \in Calls, Toggle(c) PROVE ListTypes' /\ Alive' = Alive
  <2>1. PICK p, loaded : p = call[c].product /\ loaded = call[c].loaded
    OBVIOUS
  <2>2. p \in Ids /\ loaded \in Table /\ loaded[p] # NoProduct
    BY <1>0, <1>9, <2>1, CallKinds DEF Toggle
  <2>3. loaded[p] \in Row
    BY <2>2 DEF Table
  <2>4. call' = [call EXCEPT ![c] = NoCall] /\ UNCHANGED <<born, calls>>
    BY <1>9 DEF Toggle
  <2>5. /\ call' \in [Calls -> Call]
        /\ \A d \in Calls :
             /\ call'[d].pc = "toggle" => call'[d].loaded[call'[d].product] # NoProduct
             /\ call'[d].pc \in {"load", "reorder"} => Distinct(call'[d].order)
    BY <1>1, <1>3, <2>4
  <2>6. products' \in Table /\ Alive' = Alive
    <3>1. CASE p \notin Alive
      <4>1. products' = products
        BY <1>9, <2>1, <3>1 DEF Toggle
      <4> QED
        BY <4>1 DEF Alive
    <3>2. CASE p \in Alive
      <4>1. products[p] \in Row
        BY <1>0, <3>2
      <4>2. PICK b \in BOOLEAN : b = ~loaded[p].published
        OBVIOUS
      <4>3. products' = [products EXCEPT ![p].published = b]
        BY <1>9, <2>1, <3>2, <4>2 DEF Toggle
      <4>4. PICK row : row = [products[p] EXCEPT !.published = b]
        OBVIOUS
      <4>5. row \in Row
        BY <4>1, <4>2, <4>4 DEF Row
      <4>6. products' = [products EXCEPT ![p] = row]
        BY <4>3, <4>4
      <4> QED
        BY <2>2, <3>2, <4>5, <4>6, ListAssumption DEF Table, Alive
    <3> QED
      BY <3>1, <3>2
  <2>7. Listed(products', Alive) \in Seq(1..born) /\ Distinct(Listed(products', Alive))
    <3>1. \A x \in Alive : products'[x] \in Row
      BY <2>6 DEF Table, Alive
    <3> QED
      BY <1>0, <3>1, ListedRows
  <2>8. page' \in Seq(1..born) /\ Distinct(page')
    BY <1>2, <1>9, <2>7 DEF Toggle
  <2> QED
    BY <2>4, <2>5, <2>6, <2>8
<1>10. ASSUME Delete PROVE ListTypes'
  <2>1. PICK p \in Alive :
          /\ products' = [products EXCEPT ![p] = NoProduct]
          /\ Shows(Listed(products, Alive \ {p}))
    BY <1>10 DEF Delete
  <2>2. calls' \in 0..MaxCalls /\ UNCHANGED <<born, call>>
    BY <1>0, <1>10 DEF Delete
  <2>3. products' \in Table /\ Alive' = Alive \ {p}
    BY <1>0, <2>1 DEF Table, Alive
  <2>4. PICK some : some = Alive \ {p}
    OBVIOUS
  <2>5. Listed(products, some) \in Seq(1..born) /\ Distinct(Listed(products, some))
    <3>1. some \in SUBSET Ids /\ some \subseteq 1..born /\ \A x \in some : products[x] \in Row
      BY <1>0, <2>4
    <3> QED
      BY <3>1, ListedRows
  <2>6. page' \in Seq(1..born) /\ Distinct(page')
    BY <1>2, <2>1, <2>4, <2>5
  <2>7. born' \in 0..MaxProducts /\ Alive' \subseteq 1..born' /\ call' \in [Calls -> Call]
    BY <2>2, <2>3
  <2>8. page' \in Seq(1..born')
    BY <2>2, <2>6
  <2>9. \A c \in Calls :
           /\ call'[c].pc = "toggle" => call'[c].loaded[call'[c].product] # NoProduct
           /\ call'[c].pc \in {"load", "reorder"} => Distinct(call'[c].order)
    BY <2>2
  <2> QED
    BY <2>2, <2>3, <2>6, <2>7, <2>8, <2>9
<1>11. List => Alive' = Alive
  BY <1>4, <1>5, <1>6, <1>7, <1>8, <1>9 DEF List, ListStep
<1> QED
  BY <1>4, <1>5, <1>6, <1>7, <1>8, <1>9, <1>10, <1>11 DEF List, ListStep

-----------------------------------------------------------------------------
(***************************************************************************)
(* The form and its requests: their types, and nothing twice in an order.  *)
(***************************************************************************)
FormOK(f) ==
    /\ f.pc \in {"editing", "uploading", "posted", "left"}
    /\ f.product \in Ids \cup {New} /\ f.published \in BOOLEAN
    /\ f.tiles \in Seq(Tile) /\ Distinct(f.tiles)
    /\ f.sent \in Nat /\ f.last \in 0..MaxSubmits

RequestOK(q) ==
    /\ q.pc \in {"none", "arrived", "insert", "load", "tokens", "commit", "done"}
    /\ q.product \in Ids \cup {New} /\ q.row \in Ids \cup {New}
    /\ q.published \in BOOLEAN /\ q.blank \in BOOLEAN
    /\ q.shown \in Seq(Tile) /\ Distinct(q.shown)
    /\ q.files \in Seq(Photos) /\ q.tokens \in Seq(Token)
    /\ q.seen \in Table /\ q.loaded \in MediaTable
    /\ q.ordered \in Seq(Media) /\ Distinct(q.ordered)
    /\ q.rejected \in SUBSET Photos
    /\ q.reply \in {NoAnswer, "list", "edit", "login", "invalid", "error"}

MediaOK ==
    /\ media \in MediaTable
    /\ \A m \in Media : media[m] # NoRow => media[m].product \in Alive

Types ==
    /\ ListTypes
    /\ kind \in [Photos -> Kinds] /\ direct \in BOOLEAN /\ session \in BOOLEAN
    /\ MediaOK
    /\ staged \in SUBSET (Photos \X Submits)
    /\ FormOK(form)
    /\ \A k \in Submits : RequestOK(req[k])

LEMMA TypesHold == Fields /\ Types => TypeOK
<1> SUFFICES ASSUME Fields, Types PROVE TypeOK
  OBVIOUS
<1>1. form \in Form
  <2>1. FormFields(form) /\ FormOK(form)
    BY DEF Fields, Types
  <2>2. PICK pc, product, published, tiles, sent, last :
           /\ pc = form.pc /\ product = form.product /\ published = form.published
           /\ tiles = form.tiles /\ sent = form.sent /\ last = form.last
    OBVIOUS
  <2>3. form = [pc |-> pc, product |-> product, published |-> published,
                tiles |-> tiles, sent |-> sent, last |-> last]
    BY <2>1, <2>2 DEF FormFields
  <2>4. /\ pc \in {"editing", "uploading", "posted", "left"}
        /\ product \in Ids \cup {New} /\ published \in BOOLEAN
        /\ tiles \in Seq(Tile) /\ sent \in Nat /\ last \in 0..MaxSubmits
    BY <2>1, <2>2 DEF FormOK
  <2> QED
    BY <2>3, <2>4 DEF Form
<1>2. ASSUME NEW k \in Submits PROVE req[k] \in Request
  <2>1. PICK q : q = req[k]
    OBVIOUS
  <2>2. RequestFields(q) /\ RequestOK(q)
    BY <2>1 DEF Fields, Types
  <2>3. PICK pc, product, row, published, shown, files, tokens :
           /\ pc = q.pc /\ product = q.product /\ row = q.row /\ published = q.published
           /\ shown = q.shown /\ files = q.files /\ tokens = q.tokens
    OBVIOUS
  <2>4. PICK blank, seen, loaded, ordered, rejected, reply :
           /\ blank = q.blank /\ seen = q.seen /\ loaded = q.loaded /\ ordered = q.ordered
           /\ rejected = q.rejected /\ reply = q.reply
    OBVIOUS
  <2>5. q = [pc |-> pc, product |-> product, row |-> row, published |-> published,
             shown |-> shown, files |-> files, tokens |-> tokens, blank |-> blank,
             seen |-> seen, loaded |-> loaded, ordered |-> ordered,
             rejected |-> rejected, reply |-> reply]
    BY <2>2, <2>3, <2>4 DEF RequestFields
  <2>6. /\ pc \in {"none", "arrived", "insert", "load", "tokens", "commit", "done"}
        /\ product \in Ids \cup {New} /\ row \in Ids \cup {New}
        /\ published \in BOOLEAN /\ blank \in BOOLEAN
        /\ shown \in Seq(Tile) /\ files \in Seq(Photos) /\ tokens \in Seq(Token)
        /\ seen \in Table /\ loaded \in MediaTable
        /\ ordered \in Seq(Media)
        /\ rejected \in SUBSET Photos
        /\ reply \in {NoAnswer, "list", "edit", "login", "invalid", "error"}
    BY <2>2, <2>3, <2>4 DEF RequestOK
  <2>7. q \in Request
    BY <2>5, <2>6 DEF Request
  <2> QED
    BY <2>1, <2>7
<1>3. req \in [Submits -> Request]
  BY <1>2 DEF Fields
<1> QED
  BY <1>1, <1>3 DEF TypeOK, Types, ListTypes, Fields, MediaOK

LEMMA FormKept ==
    ASSUME Fields, Types,
           AddFile \/ RemoveTile \/ MoveTile \/ Submit
              \/ UploadFile \/ UploadRefused \/ Uploaded \/ GiveUp
    PROVE  FormOK(form')
<1>0. FormFields(form) /\ FormOK(form) /\ MaxSubmits \in Nat
  BY FormAssumption DEF Fields, Types
<1>1. ASSUME NEW tiles \in Seq(Tile), Distinct(tiles), Arrange(tiles) PROVE FormOK(form')
  <2>1. form' = [form EXCEPT !.tiles = tiles]
    BY <1>1 DEF Arrange
  <2>2. /\ form'.pc = form.pc /\ form'.product = form.product /\ form'.published = form.published
        /\ form'.tiles = tiles /\ form'.sent = form.sent /\ form'.last = form.last
    BY <1>0, <2>1 DEF FormFields
  <2> QED
    BY <1>0, <1>1, <2>2 DEF FormOK
<1>2. PICK tiles \in Seq(Tile) : tiles = form.tiles /\ Distinct(tiles)
  BY <1>0 DEF FormOK
<1>3. CASE AddFile
  <2>1. PICK f \in Photos \ Range(tiles) : Arrange(Append(tiles, f))
    BY <1>2, <1>3 DEF AddFile
  <2>2. f \in Tile /\ Append(tiles, f) = Joined(tiles, f)
    BY <2>1 DEF Tile, Joined
  <2>3. Joined(tiles, f) \in Seq(Tile) /\ Distinct(Joined(tiles, f))
    BY <1>2, <2>2, JoinedType
  <2> QED
    BY <1>1, <2>1, <2>2, <2>3
<1>4. CASE RemoveTile
  <2>1. PICK i \in 1..Len(tiles) : Arrange(RemoveAt(tiles, i))
    BY <1>2, <1>4 DEF RemoveTile
  <2>2. RemoveAt(tiles, i) \in Seq(Tile) /\ Distinct(RemoveAt(tiles, i))
    BY <1>2, RemoveAtElements, RemoveAtDistinct
  <2> QED
    BY <1>1, <2>1, <2>2
<1>5. CASE MoveTile
  <2>1. PICK i, j, d :
           /\ i \in DOMAIN tiles /\ j \in DOMAIN tiles
           /\ d = InsertAt(RemoveAt(tiles, i), j, tiles[i]) /\ Arrange(d)
    BY <1>2, <1>5 DEF MoveTile
  <2>2. d \in Seq(Tile) /\ Distinct(d)
    BY <1>2, <2>1, DraggedElements
  <2> QED
    BY <1>1, <2>1, <2>2
<1>6. CASE Submit
  <2>1. PICK last, pc : last = form.last + 1 /\ pc = IF direct THEN "uploading" ELSE "posted"
    OBVIOUS
  <2>2. form' = [form EXCEPT !.last = last, !.sent = 0, !.pc = pc]
    BY <1>6, <2>1 DEF Submit
  <2>3. /\ form'.pc = pc /\ form'.product = form.product /\ form'.published = form.published
        /\ form'.tiles = form.tiles /\ form'.sent = 0 /\ form'.last = last
    BY <1>0, <2>2 DEF FormFields
  <2>4. last \in 0..MaxSubmits /\ pc \in {"uploading", "posted"}
    BY <1>0, <1>6, <2>1 DEF Submit, FormOK
  <2> QED
    BY <1>0, <2>3, <2>4 DEF FormOK
<1>7. CASE UploadFile
  <2>1. PICK sent : sent = form.sent + 1
    OBVIOUS
  <2>2. form' = [form EXCEPT !.sent = sent]
    BY <1>7, <2>1 DEF UploadFile
  <2>3. /\ form'.pc = form.pc /\ form'.product = form.product /\ form'.published = form.published
        /\ form'.tiles = form.tiles /\ form'.sent = sent /\ form'.last = form.last
    BY <1>0, <2>2 DEF FormFields
  <2>4. sent \in Nat
    BY <1>0, <2>1 DEF FormOK
  <2> QED
    BY <1>0, <2>3, <2>4 DEF FormOK
<1>8. CASE UploadRefused \/ Uploaded \/ GiveUp
  <2>1. PICK pc \in {"editing", "posted"} : form' = [form EXCEPT !.pc = pc]
    BY <1>8 DEF UploadRefused, Uploaded, GiveUp
  <2>2. /\ form'.pc = pc /\ form'.product = form.product /\ form'.published = form.published
        /\ form'.tiles = form.tiles /\ form'.sent = form.sent /\ form'.last = form.last
    BY <1>0, <2>1 DEF FormFields
  <2> QED
    BY <1>0, <2>2 DEF FormOK
<1> QED
  BY <1>3, <1>4, <1>5, <1>6, <1>7, <1>8

LEMMA TilesOfMedia ==
    ASSUME NEW s \in Seq(Media) PROVE s \in Seq(Tile)
<1>1. Media \subseteq Tile
  BY DEF Tile
<1> QED
  BY <1>1

LEMMA FormAnswered ==
    ASSUME Fields, Types, NEW k \in Submits, Answer(k)
    PROVE  FormOK(form')
<1>0. FormFields(form) /\ FormOK(form) /\ RequestOK(req[k]) /\ \A p \in Alive : products[p] \in Row
      /\ Alive \in SUBSET Ids
  BY AlivesAreRows DEF Fields, Types, ListTypes, ListTypeOK
<1>1. CASE \E pc \in {"left", "editing"} : form' = [form EXCEPT !.pc = pc]
  <2>1. PICK pc \in {"left", "editing"} : form' = [form EXCEPT !.pc = pc]
    BY <1>1
  <2>2. /\ form'.pc = pc /\ form'.product = form.product /\ form'.published = form.published
        /\ form'.tiles = form.tiles /\ form'.sent = form.sent /\ form'.last = form.last
    BY <1>0, <2>1 DEF FormFields
  <2> QED
    BY <1>0, <2>2 DEF FormOK
<1>2. CASE form' = Opened(form.product, req[k].ordered)
  <2>1. PICK tiles : tiles = req[k].ordered
    OBVIOUS
  <2>2. form' = [form EXCEPT !.pc = "editing", !.product = form.product, !.tiles = tiles]
    BY <1>2, <2>1 DEF Opened
  <2>3. /\ form'.pc = "editing" /\ form'.product = form.product /\ form'.published = form.published
        /\ form'.tiles = tiles /\ form'.sent = form.sent /\ form'.last = form.last
    BY <1>0, <2>2 DEF FormFields
  <2>4. tiles \in Seq(Tile) /\ Distinct(tiles)
    BY <1>0, <2>1, TilesOfMedia DEF RequestOK
  <2> QED
    BY <1>0, <2>3, <2>4 DEF FormOK
<1>3. ASSUME NEW p \in Alive, NEW tiles \in Galleries(media, p), form' = Edited(p, tiles)
      PROVE  FormOK(form')
  <2>1. PICK published : published = products[p].published
    OBVIOUS
  <2>2. published \in BOOLEAN
    BY <1>0, <2>1 DEF Row
  <2>3. tiles \in Seq(Tile) /\ Distinct(tiles)
    BY GalleryOrder, TilesOfMedia
  <2>4. PICK o : o = [form EXCEPT !.pc = "editing", !.product = p, !.tiles = tiles]
    OBVIOUS
  <2>5. form' = [o EXCEPT !.published = published]
    BY <1>3, <2>1, <2>4 DEF Edited, Opened
  <2>6. form' = [pc |-> "editing", product |-> p, published |-> published,
                 tiles |-> tiles, sent |-> form.sent, last |-> form.last]
    BY <1>0, <2>4, <2>5 DEF FormFields
  <2> QED
    BY <1>0, <2>2, <2>3, <2>6 DEF FormOK
<1> QED
  BY <1>1, <1>2, <1>3 DEF Answer

LEMMA NothingSeen == NotSent.seen \in Table /\ NoMedia \in MediaTable
  BY DEF NotSent, Table, NoMedia, MediaTable

LEMMA RequestsKept ==
    ASSUME Types, NEW k \in Submits, NEW n, Becoming(k, n), RequestOK(n)
    PROVE  \A j \in Submits : RequestOK(req'[j])
<1> SUFFICES ASSUME NEW j \in Submits PROVE RequestOK(req'[j])
  OBVIOUS
<1>1. req'[j] = IF j = k THEN n ELSE req[j]
  BY DEF Becoming
<1>2. RequestOK(req[j])
  BY DEF Types
<1> QED
  BY <1>1, <1>2

\* An answered request.
LEMMA DoneKept ==
    ASSUME Fields, Types, NEW k \in Submits,
           NEW reply \in {"list", "edit", "login", "invalid", "error"}, req' = Done(k, reply)
    PROVE  \A j \in Submits : RequestOK(req'[j])
<1>1. RequestOK(req[k])
  BY DEF Types
<1>2. <<>> \in Seq(Tile) /\ <<>> \in Seq(Photos) /\ <<>> \in Seq(Token) /\ <<>> \in Seq(Media)
      /\ Distinct(<<>>) /\ New \in Ids \cup {New}
  BY DEF Distinct
<1>3. PICK n : Becoming(k, n) /\ AnsweredFields(n, req[k].row, <<>>, reply)
  BY DoneStep
<1>4. n.published \in BOOLEAN /\ n.blank \in BOOLEAN
  BY <1>3 DEF AnsweredFields
<1>5. RequestOK(n)
  BY <1>1, <1>2, <1>3, <1>4, NothingSeen DEF RequestOK, AnsweredFields
<1> QED
  BY <1>3, <1>5, RequestsKept

LEMMA InvalidKept ==
    ASSUME Fields, Types, NEW k \in Submits, NEW s \in Seq(Media), Distinct(s), req' = Invalid(k, s)
    PROVE  \A j \in Submits : RequestOK(req'[j])
<1>1. RequestOK(req[k])
  BY DEF Types
<1>2. <<>> \in Seq(Tile) /\ <<>> \in Seq(Photos) /\ <<>> \in Seq(Token)
      /\ Distinct(<<>>) /\ New \in Ids \cup {New}
  BY DEF Distinct
<1>3. PICK n : Becoming(k, n) /\ AnsweredFields(n, req[k].row, s, "invalid")
  BY InvalidStep
<1>4. n.published \in BOOLEAN /\ n.blank \in BOOLEAN
  BY <1>3 DEF AnsweredFields
<1>5. RequestOK(n)
  BY <1>1, <1>2, <1>3, <1>4, NothingSeen DEF RequestOK, AnsweredFields
<1> QED
  BY <1>3, <1>5, RequestsKept

\* Every step of the server leaves requests of the right type.
LEMMA ServedKept ==
    ASSUME IInv, Types, NEW k \in Submits,
           Refuse(k) \/ Accept(k) \/ Insert(k) \/ Load(k) \/ Take(k) \/ NamesTaken(k)
              \/ Commit(k) \/ Abort(k),
           products' \in Table, born' \in Ids
    PROVE  \A j \in Submits : RequestOK(req'[j])
<1> DEFINE q == req[k]
<1>0. Fields /\ RequestOK(q) /\ products \in Table
  BY DEF IInv, Types, ListTypes, ListTypeOK
<1>1. CASE Refuse(k)
  <2>1. CASE \E reply \in {"login", "error"} : req' = Done(k, reply)
    BY <1>0, <2>1, DoneKept
  <2>2. CASE \E s \in Galleries(media, q.product) : req' = Invalid(k, s)
    <3>1. PICK s \in Galleries(media, q.product) : req' = Invalid(k, s)
      BY <2>2
    <3>2. s \in Seq(Media) /\ Distinct(s)
      BY <3>1, GalleryOrder
    <3>3. ASSUME NEW r \in Seq(Media), Distinct(r), req' = Invalid(k, r)
          PROVE  \A j \in Submits : RequestOK(req'[j])
      BY <1>0, <3>3, InvalidKept
    <3> QED
      BY <3>1, <3>2, <3>3
  <2>3. \/ \E reply \in {"login", "error"} : req' = Done(k, reply)
        \/ \E s \in Galleries(media, q.product) : req' = Invalid(k, s)
    BY <1>1, RefusedStep
  <2> QED
    BY <2>1, <2>2, <2>3
<1>2. CASE Accept(k)
  <2>1. PICK n : /\ Becoming(k, n) /\ Keeps(n, q)
                 /\ n.pc = IF q.product = New THEN "insert" ELSE "load"
                 /\ n.row = q.row /\ n.tokens = q.tokens
                 /\ n.seen = products /\ n.loaded = q.loaded
                 /\ n.ordered = q.ordered /\ n.rejected = q.rejected
                 /\ n.reply = q.reply
    BY <1>0, <1>2, AcceptStep
  <2>2. RequestOK(n)
    BY <1>0, <2>1 DEF RequestOK, Keeps
  <2> QED
    BY <2>1, <2>2, RequestsKept
<1>3. CASE Insert(k)
  <2>1. PICK n : /\ Becoming(k, n) /\ Keeps(n, q)
                 /\ n.pc = "load"
                 /\ n.row = born' /\ n.tokens = q.tokens
                 /\ n.seen = products' /\ n.loaded = q.loaded
                 /\ n.ordered = q.ordered /\ n.rejected = q.rejected
                 /\ n.reply = q.reply
    BY <1>0, <1>3, InsertStep
  <2>2. RequestOK(n)
    BY <1>0, <2>1 DEF RequestOK, Keeps
  <2> QED
    BY <2>1, <2>2, RequestsKept
<1>4. CASE Load(k)
  <2>1. CASE q.product = New /\ q.row \notin Alive
    <3>1. req' = Done(k, "error")
      BY <1>4, <2>1 DEF Load
    <3> QED
      BY <1>0, <3>1, DoneKept
  <2>2. CASE ~(q.product = New /\ q.row \notin Alive)
    <3>1. PICK n : /\ Becoming(k, n) /\ Keeps(n, q)
                   /\ n.pc = "tokens"
                   /\ n.row = q.row /\ n.tokens = q.tokens
                   /\ n.seen = q.seen
                   /\ n.loaded = [m \in Media |-> IF m \in RowsOf(media, q.row)
                                                  THEN media[m] ELSE NoRow]
                   /\ n.ordered = q.ordered /\ n.rejected = q.rejected
                   /\ n.reply = q.reply
      BY <1>0, <1>4, <2>2, LoadStep
    <3>2. n.loaded \in MediaTable
      BY <3>1 DEF Types, MediaOK, MediaTable
    <3>3. RequestOK(n)
      BY <1>0, <3>1, <3>2 DEF RequestOK, Keeps
    <3> QED
      BY <3>1, <3>3, RequestsKept
  <2> QED
    BY <2>1, <2>2
<1>5. CASE Take(k)
  <2>1. PICK t : t = Head(q.tokens)
    OBVIOUS
  <2>2. t \in Token /\ Tail(q.tokens) \in Seq(Token)
    <3>1. PICK s \in Seq(Token) : s = q.tokens /\ s # <<>>
      BY <1>0, <1>5 DEF Take, RequestOK
    <3> QED
      BY <2>1, <3>1
  <2>3. ASSUME NEW n, NEW ordered, NEW rejected, TakenFields(n, q, ordered, rejected),
               ordered \in Seq(Media), Distinct(ordered), rejected \in SUBSET Photos,
               Becoming(k, n)
        PROVE  \A j \in Submits : RequestOK(req'[j])
    <3>1. RequestOK(n)
      BY <1>0, <2>2, <2>3 DEF RequestOK, Keeps, TakenFields
    <3> QED
      BY <2>3, <3>1, RequestsKept
  <2>4. PICK n : 
             /\ Becoming(k, n) 
             /\ \/ /\ "existing" \in DOMAIN t /\ q.loaded[t.existing] = NoRow
                   /\ TakenFields(n, q, q.ordered, q.rejected)
                   /\ UNCHANGED <<staged, faults>>
                \/ /\ "existing" \in DOMAIN t /\ q.loaded[t.existing] # NoRow
                   /\ TakenFields(n, q, Joined(q.ordered, t.existing), q.rejected)
                   /\ UNCHANGED <<staged, faults>>
                \/ /\ "new" \in DOMAIN t /\ t.new >= Len(q.files)
                   /\ TakenFields(n, q, q.ordered, q.rejected)
                   /\ UNCHANGED <<staged, faults>>
                \/ /\ "new" \in DOMAIN t /\ t.new < Len(q.files)
                   /\ \E f : 
                        /\ f = q.files[t.new + 1]
                        /\ \/ /\ kind[f] = "fine"
                              /\ TakenFields(n, q, Joined(q.ordered, <<f, k>>), q.rejected)
                           \/ /\ kind[f] # "fine"
                              /\ TakenFields(n, q, q.ordered, q.rejected \cup {f})
                        /\ \/ Consumed(k, f) /\ UNCHANGED faults
                           \/ <<f, k>> \in staged /\ Fault /\ UNCHANGED staged
    BY <1>0, <1>5, <2>1, TakeStep
  <2>5. q.ordered \in Seq(Media) /\ Distinct(q.ordered) /\ q.rejected \in SUBSET Photos
    BY <1>0 DEF RequestOK
  <2>6. CASE TakenFields(n, q, q.ordered, q.rejected)
    BY <2>3, <2>4, <2>5, <2>6
  <2>7. ASSUME NEW m \in Media, TakenFields(n, q, Joined(q.ordered, m), q.rejected)
        PROVE  \A j \in Submits : RequestOK(req'[j])
    <3>1. Joined(q.ordered, m) \in Seq(Media) /\ Distinct(Joined(q.ordered, m))
      BY <2>5, JoinedType
    <3> QED
      BY <2>3, <2>4, <2>5, <2>7, <3>1
  <2>8. "existing" \in DOMAIN t => t.existing \in Media
    <3>1. ASSUME t \in [new: Nat] PROVE "existing" \notin DOMAIN t
      BY <3>1
    <3>2. ASSUME t \in [existing: Media] PROVE t.existing \in Media
      BY <3>2
    <3> QED
      BY <2>2, <3>1, <3>2 DEF Token
  <2>9. "new" \in DOMAIN t => t.new \in Nat
    <3>1. ASSUME t \in [existing: Media] PROVE "new" \notin DOMAIN t
      BY <3>1
    <3>2. ASSUME t \in [new: Nat] PROVE t.new \in Nat
      BY <3>2
    <3> QED
      BY <2>2, <3>1, <3>2 DEF Token
  <2>10. ASSUME "new" \in DOMAIN t, t.new < Len(q.files)
         PROVE  q.files[t.new + 1] \in Photos /\ <<q.files[t.new + 1], k>> \in Media
    <3>1. PICK s \in Seq(Photos) : s = q.files
      BY <1>0 DEF RequestOK
    <3>2. t.new + 1 \in 1..Len(s)
      BY <2>9, <2>10, <3>1
    <3>3. s[t.new + 1] \in Photos
      BY <3>2
    <3> QED
      BY <3>1, <3>3 DEF Media
  <2>11. ASSUME NEW f \in Photos, TakenFields(n, q, q.ordered, q.rejected \cup {f})
         PROVE  \A j \in Submits : RequestOK(req'[j])
    BY <2>3, <2>4, <2>5, <2>11
  <2> HIDE DEF q
  <2> QED
    BY <2>4, <2>6, <2>7, <2>8, <2>10, <2>11
<1>6. CASE NamesTaken(k)
  <2>1. PICK n : /\ Becoming(k, n) /\ Keeps(n, q)
                 /\ n.pc = "commit"
                 /\ n.row = q.row /\ n.tokens = q.tokens
                 /\ n.seen = q.seen /\ n.loaded = q.loaded
                 /\ n.ordered = q.ordered /\ n.rejected = q.rejected
                 /\ n.reply = q.reply
    BY <1>0, <1>6, NamesTakenStep
  <2>2. RequestOK(n)
    BY <1>0, <2>1 DEF RequestOK, Keeps
  <2> QED
    BY <2>1, <2>2, RequestsKept
<1>7. CASE Commit(k) \/ Abort(k)
  <2>1. \E reply \in {"list", "edit", "login", "invalid", "error"} : req' = Done(k, reply)
    BY <1>7 DEF Commit, Abort
  <2> QED
    BY <1>0, <2>1, DoneKept
<1> QED
  BY <1>1, <1>2, <1>3, <1>4, <1>5, <1>6, <1>7

LEMMA InitTypes == Init => Types
<1> SUFFICES ASSUME Init PROVE Types
  OBVIOUS
<1>1. ListTypes
  BY ListInitTypes DEF Init
<1>2. kind \in [Photos -> Kinds] /\ direct \in BOOLEAN /\ session \in BOOLEAN
  <2>1. kind \in [Photos -> Kinds]
    BY FormAssumption DEF Init
  <2>2. direct \in BOOLEAN
    BY DEF Init
  <2>3. session \in BOOLEAN
    BY DEF Init
  <2> QED
    BY <2>1, <2>2, <2>3
<1>3. PICK s \in SetToSeqs(Old) :
         /\ media = [m \in Media |-> IF m \in Old
                        THEN [product |-> 1, position |-> (CHOOSE i \in DOMAIN s : s[i] = m) - 1]
                        ELSE NoRow]
         /\ \E p \in {New, 1} :
              form = [pc |-> "editing", product |-> p, published |-> TRUE,
                      tiles |-> IF p = New THEN <<>> ELSE s, sent |-> 0, last |-> 0]
  BY DEF Init
<1>4. s \in Seq(Old) /\ Distinct(s) /\ Range(s) = Old
  BY FormAssumption, Enumerations
<1>5. s \in Seq(Tile) /\ <<>> \in Seq(Tile) /\ Distinct(<<>>)
  <2>1. Old \subseteq Tile
    BY DEF Tile, Media
  <2> QED
    BY <1>4, <2>1 DEF Distinct
<1>6. 1 \in Ids /\ 1 \in Alive
  <2>1. 1 \in Ids
    BY ListAssumption DEF Ids
  <2>2. products[1] = [position |-> 2 * (1 - 1), published |-> TRUE]
    BY <2>1 DEF Init, ListInit
  <2>3. [position |-> 0, published |-> TRUE] \in Row
    BY DEF Row
  <2> QED
    BY <2>1, <2>2, <2>3, ListAssumption DEF Alive
<1>7. MediaOK
  <2>1. ASSUME NEW m \in Old PROVE (CHOOSE i \in DOMAIN s : s[i] = m) - 1 \in Nat
    <3>1. (CHOOSE i \in DOMAIN s : s[i] = m) \in DOMAIN s /\ DOMAIN s = 1..Len(s)
      BY <1>4 DEF Range
    <3> QED
      BY <3>1
  <2>2. ASSUME NEW n \in Nat PROVE [product |-> 1, position |-> n] \in MediaRow
    BY <1>6 DEF MediaRow
  <2>3. \A m \in Media : media[m] = IF m \in Old
            THEN [product |-> 1, position |-> (CHOOSE i \in DOMAIN s : s[i] = m) - 1] ELSE NoRow
    BY <1>3
  <2>4. \A m \in Media : media[m] \in MediaRow \cup {NoRow}
    BY <2>1, <2>2, <2>3
  <2>5. media \in MediaTable
    <3>1. media = [m \in Media |-> media[m]]
      BY <1>3
    <3> QED
      BY <2>4, <3>1 DEF MediaTable
  <2>6. ASSUME NEW m \in Media, media[m] # NoRow PROVE media[m].product = 1
    <3>1. PICK n : n = (CHOOSE i \in DOMAIN s : s[i] = m) - 1
      OBVIOUS
    <3>2. media[m] = [product |-> 1, position |-> n]
      BY <2>3, <2>6, <3>1
    <3> QED
      BY <3>2
  <2> QED
    BY <1>6, <2>5, <2>6 DEF MediaOK
<1>8. FormOK(form)
  <2>1. PICK p \in {New, 1} :
              form = [pc |-> "editing", product |-> p, published |-> TRUE,
                      tiles |-> IF p = New THEN <<>> ELSE s, sent |-> 0, last |-> 0]
    BY <1>3
  <2>2. form.tiles \in Seq(Tile) /\ Distinct(form.tiles)
    BY <1>4, <1>5, <2>1
  <2>3. form.published \in BOOLEAN
    BY <2>1
  <2>4. form.pc = "editing" /\ form.product = p /\ form.sent = 0 /\ form.last = 0
    BY <2>1
  <2>5. 0 \in 0..MaxSubmits
    BY FormAssumption
  <2> QED
    BY <1>6, <2>2, <2>3, <2>4, <2>5 DEF FormOK
<1>9. RequestOK(NotSent)
  <2>1. PICK seen : seen = NotSent.seen /\ seen \in Table
    BY NothingSeen
  <2>2. NotSent = [pc |-> "none", product |-> New, row |-> New, published |-> TRUE, shown |-> <<>>,
            files |-> <<>>, tokens |-> <<>>, blank |-> FALSE,
            seen |-> seen, loaded |-> NoMedia, ordered |-> <<>>,
            rejected |-> {}, reply |-> NoAnswer]
    BY <2>1 DEF NotSent
  <2>3. NotSent.published \in BOOLEAN /\ NotSent.blank \in BOOLEAN
    BY <2>2
  <2>4. <<>> \in Seq(Tile) /\ <<>> \in Seq(Photos) /\ <<>> \in Seq(Token) /\ <<>> \in Seq(Media)
        /\ New \in Ids \cup {New}
    OBVIOUS
  <2> QED
    BY <1>5, <2>1, <2>2, <2>3, <2>4, NothingSeen DEF RequestOK
<1>10. \A k \in Submits : RequestOK(req[k])
  BY <1>9 DEF Init
<1>11. staged = {}
  BY DEF Init
<1> QED
  BY <1>1, <1>2, <1>7, <1>8, <1>10, <1>11 DEF Types

\* The list is changed by no other step but the creation and a save.
LEMMA ProductsSaved ==
    ASSUME ListTypes, UNCHANGED <<page, call, calls>>,
           products' \in Table, born' \in 0..MaxProducts, born' >= born, Alive' \subseteq 1..born'
    PROVE  ListTypes'
<1>1. 1..born \subseteq 1..born'
  BY DEF ListTypes, ListTypeOK
<1>2. page' \in Seq(1..born')
  BY <1>1 DEF ListTypes, ListTypeOK
<1>3. call' \in [Calls -> Call] /\ calls' \in 0..MaxCalls
  BY DEF ListTypes, ListTypeOK
<1>4. \A c \in Calls :
          /\ call'[c].pc = "toggle" => call'[c].loaded[call'[c].product] # NoProduct
          /\ call'[c].pc \in {"load", "reorder"} => Distinct(call'[c].order)
  BY DEF ListTypes
<1>5. Distinct(page')
  BY DEF ListTypes
<1> QED
  BY <1>2, <1>3, <1>4, <1>5 DEF ListTypes, ListTypeOK

LEMMA InsertTypes ==
    ASSUME IInv, Types, NEW k \in Submits, Insert(k)
    PROVE  /\ ListTypes' /\ MediaOK' /\ Alive' = Alive \cup {born'} /\ born' \in Ids \ Alive
           /\ products' \in Table
           /\ products'[born'] = [position |-> NextPosition(req[k].seen), published |-> req[k].published]
           /\ \A p \in Ids : p # born' => products'[p] = products[p]
<1>0. /\ RequestOK(req[k]) /\ products \in Table /\ Alive \subseteq 1..born
      /\ born \in 2..MaxProducts /\ MaxProducts \in Nat
  BY ListAssumption DEF Types, ListTypes, ListTypeOK, IInv, Fields
<1>1. PICK row : row = [position |-> NextPosition(req[k].seen), published |-> req[k].published]
  OBVIOUS
<1>2. row \in Row
  <2>1. NextPosition(req[k].seen) \in Nat
    BY <1>0, NextPositionLast DEF RequestOK
  <2>2. req[k].published \in BOOLEAN
    BY <1>0 DEF RequestOK
  <2> QED
    BY <1>1, <2>1, <2>2 DEF Row
<1>3. born' = born + 1 /\ born < MaxProducts /\ products' = [products EXCEPT ![born'] = row]
      /\ UNCHANGED <<media, page, call, calls>>
  BY <1>1 DEF Insert, otherVars
<1>4. born' \in Ids /\ born' \in 0..MaxProducts /\ born' >= born /\ born' \notin Alive
  BY <1>0, <1>3 DEF Ids
<1>5. products' \in Table /\ products'[born'] = row
      /\ \A p \in Ids : p # born' => products'[p] = products[p]
  BY <1>0, <1>2, <1>3, <1>4 DEF Table
<1>6. Alive' = Alive \cup {born'}
  BY <1>2, <1>4, <1>5, ListAssumption DEF Alive
<1>7. Alive' \subseteq 1..born'
  BY <1>0, <1>3, <1>6
<1>8. ListTypes'
  BY <1>3, <1>4, <1>5, <1>7, ProductsSaved DEF Types
<1>9. MediaOK'
  BY <1>3, <1>6 DEF Types, MediaOK
<1> QED
  BY <1>1, <1>4, <1>5, <1>6, <1>8, <1>9

LEMMA PositionType ==
    ASSUME NEW q, q.ordered \in Seq(Media), NEW m \in Range(q.ordered)
    PROVE  /\ Position(q, m) \in Nat
           /\ Position(q, m) + 1 \in DOMAIN q.ordered
           /\ q.ordered[Position(q, m) + 1] = m
<1>1. PICK s \in Seq(Media) : s = q.ordered
  OBVIOUS
<1>2. PICK x : x = CHOOSE i \in DOMAIN s : s[i] = m
  OBVIOUS
<1>3. x \in DOMAIN s /\ s[x] = m /\ DOMAIN s = 1..Len(s)
  BY <1>1, <1>2 DEF Range
<1>4. Position(q, m) = x - 1
  BY <1>1, <1>2 DEF Position
<1> QED
  BY <1>1, <1>3, <1>4

LEMMA CommitTypes ==
    ASSUME IInv, Types, NEW k \in Submits, Commit(k)
    PROVE  ListTypes' /\ MediaOK' /\ Alive' = Alive /\ products' \in Table
<1> DEFINE q == req[k]
<1>0. /\ RequestOK(q) /\ products \in Table /\ MediaOK /\ ListTypes
      /\ born \in 0..MaxProducts /\ Alive \subseteq 1..born /\ Alive \in SUBSET Ids
  BY AlivesAreRows DEF Types, ListTypes, ListTypeOK
<1>1. UNCHANGED <<born, page, call, calls>>
  BY DEF Commit, otherVars
<1>2. products' \in Table /\ Alive' = Alive
  <2>1. CASE products' = products
    BY <1>0, <2>1 DEF Alive
  <2>2. CASE products' # products
    <3>1. q.row \in Alive /\ products' = [products EXCEPT ![q.row].published = q.published]
      BY <2>2 DEF Commit
    <3>2. products[q.row] \in Row /\ q.row \in Ids
      BY <1>0, <3>1, AlivesAreRows
    <3>3. PICK b \in BOOLEAN : b = q.published
      BY <1>0 DEF RequestOK
    <3>4. PICK row : row = [products[q.row] EXCEPT !.published = b]
      OBVIOUS
    <3>5. row \in Row
      BY <3>2, <3>4 DEF Row
    <3>6. products' = [products EXCEPT ![q.row] = row]
      BY <3>1, <3>3, <3>4
    <3> QED
      BY <1>0, <3>1, <3>2, <3>5, <3>6, ListAssumption DEF Table, Alive
  <2> QED
    BY <2>1, <2>2
<1>3. ListTypes'
  <2>1. born' >= born
    BY <1>0, <1>1
  <2> QED
    BY <1>0, <1>1, <1>2, <2>1, ProductsSaved
<1>4. CASE media' = media
  BY <1>0, <1>2, <1>3, <1>4 DEF MediaOK
<1>5. CASE media' # media
  <2>1. /\ ~Refused(q)
        /\ media' = [m \in Media |->
                   IF m \in Inserted(q) THEN [product |-> q.row, position |-> Position(q, m)]
                   ELSE IF m \in Changed(q) THEN [media[m] EXCEPT !.position = Position(q, m)]
                   ELSE IF q.loaded[m] # NoRow /\ m \notin Range(q.ordered) THEN NoRow
                   ELSE media[m]]
    BY <1>5 DEF Commit
  <2>2. ASSUME NEW m \in Media
        PROVE  /\ media'[m] \in MediaRow \cup {NoRow}
               /\ media'[m] # NoRow => media'[m].product \in Alive
    <3>1. CASE m \in Inserted(q)
      <4>1. Position(q, m) \in Nat
        BY <1>0, <3>1, PositionType DEF Inserted, RequestOK
      <4>2. q.row \in Alive
        BY <2>1, <3>1 DEF Refused
      <4>3. PICK row : row = [product |-> q.row, position |-> Position(q, m)]
        OBVIOUS
      <4>4. media'[m] = row
        BY <2>1, <3>1, <4>3
      <4>5. row \in MediaRow /\ row.product = q.row
        BY <1>0, <4>1, <4>2, <4>3 DEF MediaRow
      <4> QED
        BY <4>2, <4>4, <4>5
    <3>2. CASE m \notin Inserted(q) /\ m \in Changed(q)
      <4>1. Position(q, m) \in Nat
        BY <1>0, <3>2, PositionType DEF Changed, RequestOK
      <4>2. media[m] \in MediaRow /\ media[m].product \in Alive
        BY <1>0, <2>1, <3>2 DEF Refused, MediaOK, MediaTable
      <4>3. PICK n \in Nat : n = Position(q, m)
        BY <4>1
      <4>4. media'[m] = [media[m] EXCEPT !.position = n]
        BY <2>1, <3>2, <4>3
      <4>5. media'[m] \in MediaRow /\ media'[m].product = media[m].product
        BY <4>2, <4>4 DEF MediaRow
      <4> QED
        BY <4>2, <4>5
    <3>3. CASE m \notin Inserted(q) /\ m \notin Changed(q)
      BY <1>0, <2>1, <3>3 DEF MediaOK, MediaTable
    <3> QED
      BY <3>1, <3>2, <3>3
  <2>3. media' = [m \in Media |-> media'[m]]
    BY <2>1
  <2>4. media' \in MediaTable
    BY <2>2, <2>3 DEF MediaTable
  <2> QED
    BY <1>2, <1>3, <2>2, <2>4 DEF MediaOK
<1> QED
  BY <1>4, <1>5

LEMMA DeleteTypes ==
    ASSUME Types, Delete
    PROVE  MediaOK'
<1>1. PICK p \in Alive :
         /\ products' = [products EXCEPT ![p] = NoProduct]
         /\ media' = [m \in Media |-> IF m \in RowsOf(media, p) THEN NoRow ELSE media[m]]
  BY DEF Delete
<1>2. products \in Table /\ MediaOK
  BY DEF Types, ListTypes, ListTypeOK
<1>3. Alive' = Alive \ {p}
  BY <1>1, <1>2 DEF Table, Alive
<1>4. media' \in MediaTable
  BY <1>1, <1>2 DEF MediaOK, MediaTable
<1>5. \A m \in Media : media'[m] # NoRow =>
          media'[m] = media[m] /\ media[m] # NoRow /\ media[m].product # p
  BY <1>1 DEF RowsOf
<1> QED
  BY <1>2, <1>3, <1>4, <1>5 DEF MediaOK

LEMMA NextTypes == IInv /\ Types /\ [Next]_vars => Types'
<1> SUFFICES ASSUME IInv, Types, [Next]_vars PROVE Types'
  OBVIOUS
<1>0. Fields
  BY DEF IInv
<1>1. CASE UNCHANGED vars
  BY <1>1 DEF vars, listVars, Types, ListTypes, ListTypeOK, Alive, MediaOK
<1>2. ASSUME UNCHANGED <<products, born, page, call, calls, kind, direct, media, session>>
      PROVE  /\ ListTypes' /\ MediaOK'
             /\ kind' \in [Photos -> Kinds] /\ direct' \in BOOLEAN /\ session' \in BOOLEAN
  BY <1>2 DEF Types, ListTypes, ListTypeOK, Alive, MediaOK
<1>3. CASE Browse
  <2>1. UNCHANGED <<products, born, page, call, calls, kind, direct, media, session>>
    BY <1>3 DEF Browse, AddFile, RemoveTile, MoveTile, Arrange, Submit, UploadFile, UploadRefused,
                Uploaded, GiveUp, serverVars, otherVars
  <2>2. FormOK(form')
    BY <1>0, <1>3, FormKept DEF Browse
  <2>3. staged' \in SUBSET (Photos \X Submits)
    <3>1. CASE UploadFile
      <4>1. /\ form.pc = "uploading" /\ form.sent < Len(Files(form.tiles))
            /\ staged' = staged \cup {<<ToUpload, form.last>>}
        BY <3>1 DEF UploadFile
      <4>2. form.last \in Submits /\ form.sent \in Nat /\ form.tiles \in Seq(Tile)
        BY <1>0, <4>1 DEF Fields, Types, FormOK
      <4>3. PICK s \in Seq(Photos) : s = Files(form.tiles)
        BY <4>2, TokensOf
      <4>4. ToUpload \in Photos
        BY <4>1, <4>2, <4>3 DEF ToUpload
      <4> QED
        BY <4>1, <4>2, <4>4 DEF Types
    <3>2. CASE ~UploadFile
      <4>1. UNCHANGED staged
        BY <1>3, <3>2 DEF Browse, AddFile, RemoveTile, MoveTile, Arrange, Submit, UploadRefused,
                Uploaded, GiveUp, serverVars
      <4> QED
        BY <4>1 DEF Types
    <3> QED
      BY <3>1, <3>2
  <2>4. \A k \in Submits : RequestOK(req'[k])
    <3>1. CASE UNCHANGED req
      BY <3>1 DEF Types
    <3>2. CASE req' # req
      <4>1. \/ Submit /\ SendForm(form.last + 1)
            \/ Uploaded /\ SendForm(form.last)
        BY <1>3, <3>2 DEF Browse, AddFile, RemoveTile, MoveTile, Arrange, Submit, UploadFile,
                UploadRefused, Uploaded, GiveUp, serverVars
      <4>2. FormOK(form) /\ form.last \in 0..MaxSubmits /\ MaxSubmits \in Nat
        BY FormAssumption DEF Types, FormOK
      <4>3. PICK k \in Submits : SendForm(k)
        BY <1>0, <4>1, <4>2 DEF Submit, Uploaded, Submits, Fields
      <4>4. PICK n : /\ Becoming(k, n)
                     /\ n.pc = "arrived" /\ n.product = form.product /\ n.row = form.product
                     /\ n.published = form.published /\ n.blank \in BOOLEAN
                     /\ n.shown = form.tiles /\ n.files = Files(form.tiles)
                     /\ n.tokens = Tokens(form.tiles)
                     /\ n.seen = NotSent.seen /\ n.loaded = NoMedia /\ n.ordered = <<>>
                     /\ n.rejected = {} /\ n.reply = NoAnswer
        BY <1>0, <4>3, SendStep
      <4>5. Files(form.tiles) \in Seq(Photos) /\ Tokens(form.tiles) \in Seq(Token)
        BY <4>2, TokensOf DEF FormOK
      <4>6. <<>> \in Seq(Media) /\ Distinct(<<>>)
        BY DEF Distinct
      <4>7. n.published \in BOOLEAN
        BY <4>2, <4>4 DEF FormOK
      <4>8. RequestOK(n)
        BY <4>2, <4>4, <4>5, <4>6, <4>7, NothingSeen DEF RequestOK, FormOK
      <4> QED
        BY <4>4, <4>8, RequestsKept
    <3> QED
      BY <3>1, <3>2
  <2> QED
    BY <1>2, <2>1, <2>2, <2>3, <2>4 DEF Types
<1>4. ASSUME NEW k \in Submits, Answer(k) PROVE Types'
  <2>1. UNCHANGED <<products, born, page, call, calls, kind, direct, media, session, staged, req>>
    BY <1>4 DEF Answer, serverVars, otherVars
  <2>2. FormOK(form')
    BY <1>0, <1>4, FormAnswered
  <2> QED
    BY <1>2, <2>1, <2>2 DEF Types
<1>5. ASSUME NEW k \in Submits, Serve(k) PROVE Types'
  <2>1. UNCHANGED <<form, kind, direct, session, page, call, calls>>
    BY <1>5 DEF Serve, Refuse, Accept, Insert, Load, Take, NamesTaken, Commit, Abort, otherVars
  <2>2. ListTypes' /\ MediaOK' /\ products' \in Table /\ born' \in Ids
    <3>1. CASE UNCHANGED <<products, born, media>>
      <4>1. born' \in Ids /\ products' \in Table
        BY <1>0, <3>1 DEF Fields, Ids, Types, ListTypes, ListTypeOK
      <4> QED
        BY <1>2, <2>1, <3>1, <4>1 DEF Types, ListTypes, ListTypeOK, Alive, MediaOK
    <3>2. CASE Insert(k)
      BY <3>2, InsertTypes
    <3>3. CASE Commit(k)
      <4>1. born' \in Ids
        BY <1>0, <3>3 DEF Fields, Ids, Commit
      <4> QED
        BY <3>3, <4>1, CommitTypes
    <3> QED
      BY <1>5, <3>1, <3>2, <3>3 DEF Serve, Refuse, Accept, Load, Take, NamesTaken, Abort
  <2>3. \A j \in Submits : RequestOK(req'[j])
    BY <1>5, <2>2, ServedKept DEF Serve
  <2>4. staged' \in SUBSET staged
    BY <1>5 DEF Serve, Refuse, Accept, Insert, Load, Take, NamesTaken, Commit, Abort, Consumed
  <2> QED
    BY <2>1, <2>2, <2>3, <2>4 DEF Types
<1>6. CASE List
  <2>1. UNCHANGED <<kind, direct, media, staged, form, req, session>>
    BY <1>6 DEF List
  <2>2. ListTypes' /\ Alive' = Alive
    BY <1>6, ListKept DEF Types
  <2> QED
    BY <2>1, <2>2 DEF Types, MediaOK
<1>7. CASE Delete
  <2>1. UNCHANGED <<kind, direct, staged, form, req, session>>
    BY <1>7 DEF Delete
  <2>2. ListTypes' /\ MediaOK'
    BY <1>7, ListKept, DeleteTypes DEF Types
  <2> QED
    BY <2>1, <2>2 DEF Types
<1>8. CASE Expire
  <2>1. UNCHANGED <<products, born, page, call, calls, kind, direct, media, staged, form, req>>
        /\ session' = FALSE
    BY <1>8 DEF Expire, serverVars
  <2>2. ListTypes' /\ MediaOK'
    BY <2>1 DEF Types, ListTypes, ListTypeOK, Alive, MediaOK
  <2>3. session' \in BOOLEAN
    BY <2>1
  <2> QED
    BY <2>1, <2>2, <2>3 DEF Types
<1> QED
  BY <1>1, <1>3, <1>4, <1>5, <1>6, <1>7, <1>8 DEF Next

\* The form, its submissions and the requests of the list keep their types, and
\* every medium belongs to a product that exists.
THEOREM FormTypes == Spec => []TypeOK
<1>1. IInv /\ Types => TypeOK
  BY TypesHold DEF IInv
<1> QED
  BY InitInv, InitTypes, NextInv, NextTypes, <1>1, PTL DEF Spec

\* The elements that are kept stay in order.
LEMMA OnlyRises ==
    ASSUME NEW T, NEW s \in Seq(T), NEW S,
           NEW m \in DOMAIN Only(s, S), NEW n \in DOMAIN Only(s, S), m < n
    PROVE  \E i, j \in At(s, S) : i < j /\ Only(s, S)[m] = s[i] /\ Only(s, S)[n] = s[j]
<1>1. /\ Cardinality(At(s, S)) \in Nat
      /\ Only(s, S) \in Seq(T \cap S) /\ Len(Only(s, S)) = Cardinality(At(s, S))
      /\ \A x \in 1..Cardinality(At(s, S)) :
            /\ Nth(s, S, x) \in At(s, S) /\ Number(s, S, Nth(s, S, x)) = x - 1
            /\ Only(s, S)[x] = s[Nth(s, S, x)]
      /\ \A i, j \in At(s, S) : i < j => Number(s, S, i) < Number(s, S, j)
  <2>1. Elements(T, s, S)
    BY OnlyElements
  <2> QED
    BY <2>1 DEF Elements
<1>2. m \in 1..Cardinality(At(s, S)) /\ n \in 1..Cardinality(At(s, S))
  BY <1>1
<1>3. PICK i \in At(s, S) : i = Nth(s, S, m) /\ Number(s, S, i) = m - 1 /\ Only(s, S)[m] = s[i]
  BY <1>1, <1>2
<1>4. PICK j \in At(s, S) : j = Nth(s, S, n) /\ Number(s, S, j) = n - 1 /\ Only(s, S)[n] = s[j]
  BY <1>1, <1>2
<1>5. i \in Nat /\ j \in Nat
  BY DEF At
<1>6. ~(j < i) /\ i # j
  <2>1. ~(n - 1 < m - 1) /\ n - 1 # m - 1
    BY <1>2
  <2>2. j < i => n - 1 < m - 1
    BY <1>1, <1>3, <1>4
  <2> QED
    BY <1>3, <1>4, <2>1, <2>2
<1> QED
  BY <1>3, <1>4, <1>5, <1>6

LEMMA PlaceOf ==
    ASSUME NEW o \in Seq(Ids), Distinct(o), NEW i \in DOMAIN o
    PROVE  Place(o, o[i]) = i - 1
<1>1. (CHOOSE j \in DOMAIN o : o[j] = o[i]) = i
  BY DEF Distinct
<1> QED
  BY <1>1 DEF Place

\* A drag that nobody interferes with.
LEMMA Dropped ==
    ASSUME ListTypes, NEW c \in Calls, Reorder(c),
           \A p \in Ids : call[c].loaded[p] = products[p]
    PROVE  Listed(products', Range(call[c].order) \cap Alive) = Only(call[c].order, Alive)
<1> DEFINE K == Range(call[c].order) \cap Alive
<1>1. PICK o \in Seq(Ids) : o = call[c].order /\ Distinct(o)
  BY CallKinds DEF ListTypes, ListTypeOK, Reorder
<1>2. products \in Table /\ \A p \in Alive : products[p] \in Row /\ p \in Ids
  BY AlivesAreRows DEF ListTypes, ListTypeOK
<1>3. K = Range(o) \cap Alive /\ K \in SUBSET Ids
  BY <1>1, <1>2
<1> HIDE DEF K
<1>4. /\ Moved(call[c]) \subseteq Alive
      /\ \A p \in K : p \notin Moved(call[c]) => products[p].position = Place(o, p)
  <2>1. \A p \in Range(o) : p \in Ids
    BY <1>1 DEF Range
  <2>2. Moved(call[c]) = {p \in Range(o) : /\ products[p] # NoProduct
                                           /\ products[p].position # Place(o, p)}
    BY <1>1, <2>1 DEF Moved
  <2> QED
    BY <1>3, <2>1, <2>2 DEF Alive
<1>5. \A p \in Ids : products'[p] = IF p \in Moved(call[c])
                                    THEN [products[p] EXCEPT !.position = Place(o, p)]
                                    ELSE products[p]
  BY <1>1, <1>4 DEF Reorder
<1>6. ASSUME NEW i \in DOMAIN o, o[i] \in Alive
      PROVE  products'[o[i]] \in Row /\ products'[o[i]].position = i - 1
  <2>1. Place(o, o[i]) = i - 1
    BY <1>1, PlaceOf
  <2>2. products[o[i]] \in Row /\ o[i] \in K /\ o[i] \in Ids
    BY <1>2, <1>3, <1>6 DEF Range
  <2>3. i - 1 \in Nat
    BY <1>1
  <2>4. PICK n \in Nat : n = i - 1
    BY <2>3
  <2>5. CASE o[i] \in Moved(call[c])
    <3>1. products'[o[i]] = [products[o[i]] EXCEPT !.position = n]
      BY <1>5, <2>1, <2>2, <2>4, <2>5
    <3> QED
      BY <2>2, <2>4, <3>1 DEF Row
  <2>6. CASE o[i] \notin Moved(call[c])
    BY <1>4, <1>5, <2>1, <2>2, <2>6
  <2> QED
    BY <2>5, <2>6
<1>7. \A p \in K : products'[p] \in Row
  BY <1>3, <1>6 DEF Range
<1>8. PICK w : w = Only(o, Alive)
  OBVIOUS
<1>9. w \in Seq(Ids \cap Alive) /\ Distinct(w) /\ Range(w) = K
  <2>1. o \in Seq(Ids) /\ Elements(Ids, o, Alive)
    BY <1>1, <1>3, OnlyElements
  <2>2. w \in Seq(Ids \cap Alive)
    BY <1>8, <2>1 DEF Elements
  <2> QED
    BY <1>1, <1>3, <1>8, <2>1, <2>2, OnlyDistinct
<1>10. w \in SetToSeqs(K)
  BY <1>9, Enumerates
<1>11. Rising(ListOrder(products'), w)
  <2> SUFFICES ASSUME NEW m \in DOMAIN w, NEW n \in DOMAIN w, m < n
               PROVE  <<w[m], w[n]>> \in ListOrder(products')
    BY DEF Rising
  <2>1. PICK i \in At(o, Alive), j \in At(o, Alive) : i < j /\ w[m] = o[i] /\ w[n] = o[j]
    BY <1>1, <1>8, OnlyRises
  <2>2. i \in DOMAIN o /\ j \in DOMAIN o /\ o[i] \in Alive /\ o[j] \in Alive
    BY DEF At
  <2>3. products'[o[i]].position < products'[o[j]].position
    BY <1>1, <1>6, <2>1, <2>2
  <2> QED
    BY <1>1, <2>1, <2>2, <2>3 DEF ListOrder, ListedBefore
<1>12. w = Listed(products', K)
  <2>1. ASSUME NEW table, \A p \in K : table[p] \in Row, Rising(ListOrder(table), w)
        PROVE  w = Listed(table, K)
    BY <1>3, <1>10, <2>1, ListedOrder
  <2> QED
    BY <1>7, <1>11, <2>1
<1> QED
  BY <1>1, <1>8, <1>12 DEF K

\* A product that is created is listed after those its place was computed from.
LEMMA Created ==
    ASSUME IInv, Types, NEW k \in Submits, Insert(k)
    PROVE  \A p \in Alive : req[k].seen[p] = products[p] =>
               ListedBefore(products', p, req'[k].row)
<1> SUFFICES ASSUME NEW p \in Alive, req[k].seen[p] = products[p]
             PROVE  ListedBefore(products', p, req'[k].row)
  OBVIOUS
<1>1. Fields
  BY DEF IInv
<1>2. req'[k].row = born'
  <2>1. PICK n : Becoming(k, n) /\ n.row = born'
    BY <1>1, InsertStep
  <2> QED
    BY <2>1 DEF Becoming
<1>3. /\ born' \in Ids \ Alive
      /\ products'[born'] = [position |-> NextPosition(req[k].seen), published |-> req[k].published]
      /\ \A x \in Ids : x # born' => products'[x] = products[x]
  BY InsertTypes
<1>4. p \in Ids /\ products[p] # NoProduct
  BY DEF Alive
<1>5. products[p].position < NextPosition(req[k].seen)
  <2>1. req[k].seen \in Table
    BY DEF Types, RequestOK
  <2> QED
    BY <1>4, <2>1, NextPositionLast
<1>6. PICK x, y : x = NextPosition(req[k].seen) /\ y = req[k].published
  OBVIOUS
<1>7. products'[born'].position = x /\ products'[p].position < x
  BY <1>3, <1>4, <1>5, <1>6
<1> QED
  BY <1>2, <1>7 DEF ListedBefore

-----------------------------------------------------------------------------
\* A request is changed by its own steps.
LEMMA ServedOne ==
    ASSUME Fields, NEW k \in Submits, Serve(k)
    PROVE  \E n : Becoming(k, n)
<1>1. CASE Refuse(k)
  BY <1>1, RefusedStep, DoneStep, InvalidStep
<1>2. CASE Accept(k)
  BY <1>2, AcceptStep
<1>3. CASE Insert(k)
  BY <1>3, InsertStep
<1>4. CASE Load(k)
  <2>1. CASE req[k].product = New /\ req[k].row \notin Alive
    BY <1>4, <2>1, DoneStep DEF Load
  <2>2. CASE ~(req[k].product = New /\ req[k].row \notin Alive)
    BY <1>4, <2>2, LoadStep
  <2> QED
    BY <2>1, <2>2
<1>5. CASE Take(k)
  BY <1>5, TakeStep
<1>6. CASE NamesTaken(k)
  BY <1>6, NamesTakenStep
<1>7. CASE Commit(k) \/ Abort(k)
  <2>1. \E reply : req' = Done(k, reply)
    BY <1>7 DEF Commit, Abort
  <2> QED
    BY <2>1, DoneStep
<1> QED
  BY <1>1, <1>2, <1>3, <1>4, <1>5, <1>6, <1>7 DEF Serve

LEMMA OwnSteps ==
    ASSUME Fields, [Next]_vars, NEW k \in Submits, req'[k] # req[k]
    PROVE  Serve(k) \/ ((Submit \/ Uploaded) /\ SendForm(k))
<1>1. CASE Browse
  <2>1. \/ Submit /\ SendForm(form.last + 1) /\ form.last + 1 \in Submits
        \/ Uploaded /\ SendForm(form.last) /\ form.last \in Submits
    <3>1. req' # req
      OBVIOUS
    <3>2. \/ Submit /\ SendForm(form.last + 1)
          \/ Uploaded /\ SendForm(form.last)
      BY <1>1, <3>1 DEF Browse, AddFile, RemoveTile, MoveTile, Arrange, Submit, UploadFile,
              UploadRefused, Uploaded, GiveUp, serverVars
    <3>3. form.last \in 0..MaxSubmits /\ MaxSubmits \in Nat
      BY FormAssumption DEF Fields
    <3> QED
      BY <3>2, <3>3 DEF Submit, Uploaded, Submits, Fields
  <2>2. PICK j \in Submits : (Submit \/ Uploaded) /\ SendForm(j)
    BY <2>1
  <2>3. PICK n : Becoming(j, n)
    BY <2>2, SendStep
  <2>4. j = k
    BY <2>3 DEF Becoming
  <2> QED
    BY <2>2, <2>4
<1>2. ASSUME NEW j \in Submits, Serve(j) PROVE Serve(k)
  <2>1. PICK n : Becoming(j, n)
    BY <1>2, ServedOne
  <2>2. j = k
    BY <2>1 DEF Becoming
  <2> QED
    BY <1>2, <2>2
<1>3. ASSUME NEW j \in Submits, Answer(j) PROVE FALSE
  BY <1>3 DEF Answer, serverVars
<1>4. ~(List \/ Delete \/ Expire \/ UNCHANGED vars)
  BY DEF List, Delete, Expire, serverVars, vars
<1> QED
  BY <1>1, <1>2, <1>3, <1>4 DEF Next

\* After a drag is served, with nobody moving products meanwhile, the products
\* of the page are listed in the order it shows.
THEOREM DragsHold == Spec => ReorderedAsDropped
<1> DEFINE Act == \A c \in Calls :
                    LET q == call[c]
                    IN (/\ q.pc = "reorder" /\ call'[c].pc = "idle"
                        /\ \A p \in Ids : q.loaded[p] = products[p]) =>
                         Listed(products', Range(q.order) \cap Alive)
                           = Only(q.order, Alive)
<1>1. ListTypes /\ [Next]_vars => [Act]_listVars
  <2> SUFFICES ASSUME ListTypes, [Next]_vars, NEW c \in Calls, call[c].pc = "reorder",
                      call'[c].pc = "idle",
                      \A p \in Ids : call[c].loaded[p] = products[p]
               PROVE  Listed(products', Range(call[c].order) \cap Alive)
                           = Only(call[c].order, Alive)
    OBVIOUS
  <2>1. Reorder(c)
    <3>1. call' # call
      OBVIOUS
    <3>2. PICK d \in Calls : ListStep(d)
      BY <3>1 DEF Next, vars, listVars, Browse, AddFile, RemoveTile, MoveTile, Arrange, Submit,
              UploadFile, UploadRefused, Uploaded, GiveUp, otherVars, Answer, Serve, Refuse, Accept,
              Insert, Load, Take, NamesTaken, Commit, Abort, List, OpenList, Delete, Expire
    <3>3. call \in [Calls -> Call]
      BY DEF ListTypes, ListTypeOK
    <3>4. PICK q : call' = [call EXCEPT ![d] = q]
      BY <3>2 DEF ListStep, Drag, LoadOrder, Reorder, LoadToggle, Toggle, Send
    <3>5. d = c
      BY <3>3, <3>4
    <3>6. Reorder(d)
      BY <3>2, <3>5 DEF ListStep, Drag, LoadOrder, LoadToggle, Toggle, Send
    <3> QED
      BY <3>5, <3>6
  <2> QED
    BY <2>1, Dropped
<1>2. Types => ListTypes
  BY DEF Types
<1>3. ReorderedAsDropped <=> [][Act]_listVars
  BY PTL DEF ReorderedAsDropped
<1> QED
  BY InitInv, InitTypes, NextInv, NextTypes, <1>1, <1>2, <1>3, PTL DEF Spec

\* A product is created after every product its place was computed from that was
\* not moved or deleted since.
THEOREM CreatedLast == Spec => NewProductsLast
<1> DEFINE Act == \A k \in Submits : req[k].pc = "insert" /\ req'[k].pc = "load" =>
                    \A p \in Alive : req[k].seen[p] = products[p] =>
                        ListedBefore(products', p, req'[k].row)
<1>1. IInv /\ Types /\ [Next]_vars => [Act]_vars
  <2> SUFFICES ASSUME IInv, Types, [Next]_vars, NEW k \in Submits, req[k].pc = "insert",
                      req'[k].pc = "load"
               PROVE  \A p \in Alive : req[k].seen[p] = products[p] =>
                        ListedBefore(products', p, req'[k].row)
    OBVIOUS
  <2>1. Fields /\ req'[k] # req[k]
    BY DEF IInv
  <2>2. Serve(k)
    <3>1. CASE SendForm(k)
      <4>1. PICK n : Becoming(k, n) /\ n.pc = "arrived"
        BY <2>1, <3>1, SendStep
      <4> QED
        BY <4>1 DEF Becoming
    <3> QED
      BY <2>1, <3>1, OwnSteps
  <2>3. Insert(k)
    <3>1. CASE Abort(k)
      <4>1. PICK n : Becoming(k, n) /\ AnsweredFields(n, req[k].row, <<>>, "error")
        BY <2>1, <3>1, DoneStep DEF Abort
      <4> QED
        BY <4>1 DEF Becoming, AnsweredFields
    <3> QED
      BY <2>2, <3>1 DEF Serve, Refuse, Accept, Load, Take, NamesTaken, Commit
  <2> QED
    BY <2>3, Created
<1>2. NewProductsLast <=> [][Act]_vars
  BY PTL DEF NewProductsLast
<1> QED
  BY InitInv, InitTypes, NextInv, NextTypes, <1>1, <1>2, PTL DEF Spec

\* The number of a place counts the elements of the set before it.
Counts(s, S) ==
    /\ Number(s, S, 1) = 0
    /\ Number(s, S, Len(s) + 1) = Cardinality(At(s, S))
    /\ \A i \in 1..Len(s) :
          Number(s, S, i + 1) = Number(s, S, i) + (IF s[i] \in S THEN 1 ELSE 0)

LEMMA NumberNext ==
    ASSUME NEW T, NEW s \in Seq(T), NEW S
    PROVE  Counts(s, S)
<1>1. IsFiniteSet(At(s, S)) /\ At(s, S) \subseteq 1..Len(s) /\ Len(s) \in Nat
  <2>1. DOMAIN s = 1..Len(s) /\ Len(s) \in Nat
    OBVIOUS
  <2>2. IsFiniteSet(At(s, S))
    <3>1. Elements(T, s, S)
      BY OnlyElements
    <3> QED
      BY <3>1 DEF Elements
  <2> QED
    BY <2>1, <2>2 DEF At
<1>2. {j \in At(s, S) : j < 1} = {}
  BY <1>1
<1>3. {j \in At(s, S) : j < Len(s) + 1} = At(s, S)
  BY <1>1
<1>4. Number(s, S, 1) = 0
  BY <1>2, FS_EmptySet DEF Number
<1>5. Number(s, S, Len(s) + 1) = Cardinality(At(s, S))
  BY <1>3 DEF Number
<1>6. ASSUME NEW i \in 1..Len(s)
      PROVE  Number(s, S, i + 1) = Number(s, S, i) + (IF s[i] \in S THEN 1 ELSE 0)
  <2> DEFINE A == {j \in At(s, S) : j < i}
             B == {j \in At(s, S) : j < i + 1}
  <2>1. A \in SUBSET At(s, S)
    OBVIOUS
  <2>2. IsFiniteSet(A) /\ Cardinality(A) \in Nat
    <3> HIDE DEF A
    <3> QED
      BY <1>1, <2>1, FS_Subset, FS_CardinalityType
  <2>3. i \notin A
    OBVIOUS
  <2>4. i \in At(s, S) <=> s[i] \in S
    BY DEF At
  <2>5. \A j \in At(s, S) : j < i + 1 <=> j < i \/ j = i
    BY <1>1
  <2>6. CASE s[i] \in S
    <3>1. B = A \cup {i}
      BY <2>4, <2>5, <2>6
    <3>2. Cardinality(B) = Cardinality(A) + 1
      <4> HIDE DEF A, B
      <4> QED
        BY <2>2, <2>3, <3>1, FS_AddElement
    <3> QED
      BY <2>6, <3>2 DEF Number
  <2>7. CASE s[i] \notin S
    <3>1. B = A
      BY <2>4, <2>5, <2>7
    <3>2. Number(s, S, i + 1) = Number(s, S, i)
      BY <3>1 DEF Number
    <3>3. Number(s, S, i) \in Nat
      BY <2>2 DEF Number
    <3> QED
      BY <2>7, <3>2, <3>3
  <2> QED
    BY <2>6, <2>7
<1> QED
  BY <1>4, <1>5, <1>6 DEF Counts

-----------------------------------------------------------------------------
(***************************************************************************)
(* What a request carries, and what is left of the originals.              *)
(***************************************************************************)
UnderWay(q) == q.pc \in {"arrived", "insert", "load", "tokens", "commit"}

\* How many names of the order are taken, and the tiles that are not refused.
Reached(q) == Len(q.shown) - Len(q.tokens)
Staying(q) == {f \in Photos : kind[f] = "fine"} \cup {m \in Media : q.loaded[m] # NoRow}
Shown(t, k) == IF IsFile(t) THEN <<t, k>> ELSE t

\* The order and the files are the tiles of the form; the media put in order so
\* far are those of the names that were taken.
Named(q) ==
    /\ q.files = Files(q.shown)
    /\ Len(q.tokens) <= Len(q.shown)
    /\ \A i \in 1..Len(q.tokens) : q.tokens[i] = Tokens(q.shown)[Reached(q) + i]

InOrder(q, k) ==
    /\ Len(q.ordered) = Number(q.shown, Staying(q), Reached(q) + 1)
    /\ \A n \in 1..Len(q.ordered) : q.ordered[n] = AsShown(q, k)[n]

ReadFrom(q, k) ==
    /\ \A m \in Media : q.loaded[m] # NoRow => q.loaded[m].product = q.row
    /\ \A f \in Photos : q.loaded[<<f, k>>] = NoRow

Stage(q) ==
    /\ q.pc \in {"arrived", "insert", "load"} =>
          Reached(q) = 0 /\ q.ordered = <<>> /\ q.loaded = NoMedia
    /\ q.pc = "commit" => q.tokens = <<>>

Carried(q, k) == Named(q) /\ InOrder(q, k) /\ ReadFrom(q, k) /\ Stage(q)

\* No row is made of a file but by the submission it came with.
OwnMedia == \A f \in Photos, k \in Submits : media[<<f, k>>] # NoRow => req[k].pc = "done"

Uploads ==
    /\ \A k \in Submits : req[k].pc # "none" => k <= form.last
    /\ form.pc = "uploading" =>
          /\ direct /\ form.sent <= Len(Files(form.tiles))
          /\ req[form.last].pc = "none"
    /\ \A f \in Photos, k \in Submits : <<f, k>> \in staged =>
          /\ direct /\ k <= form.last
          /\ kind[f] \notin {"unsupported", "huge"}
          /\ form.pc = "uploading" /\ k = form.last =>
                \E i \in 1..form.sent : f = Files(form.tiles)[i]
          /\ req[k].pc \in {"arrived", "insert", "load"} => f \in Range(req[k].shown)

\* The originals that no name of an order on its way will delete.
Awaited(q) == {q.shown[i] : i \in (Reached(q) + 1)..Len(q.shown)}
Strays(q, f) ==
    \/ q.pc \in {"tokens", "commit"} /\ f \notin Awaited(q)
    \/ q.reply \in {"list", "edit"}
Left == {o \in staged : Strays(req[o[2]], o[1])}
FewLeft == Cardinality(Left) <= MaxFaults - faults

Carries ==
    /\ \A k \in Submits : UnderWay(req[k]) => Carried(req[k], k)
    /\ OwnMedia
    /\ Uploads
    /\ FewLeft

\* The gallery of the form, medium by medium.
LEMMA ShownElements ==
    ASSUME NEW q, NEW k \in Submits, q.shown \in Seq(Tile), Distinct(q.shown), ReadFrom(q, k)
    PROVE  /\ Len(AsShown(q, k)) = Cardinality(At(q.shown, Staying(q)))
           /\ DOMAIN AsShown(q, k) = 1..Cardinality(At(q.shown, Staying(q)))
           /\ Cardinality(At(q.shown, Staying(q))) \in Nat
           /\ AsShown(q, k) = [n \in 1..Cardinality(At(q.shown, Staying(q))) |-> AsShown(q, k)[n]]
           /\ \A i \in At(q.shown, Staying(q)) :
                 /\ Number(q.shown, Staying(q), i) + 1 \in DOMAIN AsShown(q, k)
                 /\ AsShown(q, k)[Number(q.shown, Staying(q), i) + 1] = Shown(q.shown[i], k)
           /\ Distinct(AsShown(q, k))
           /\ \A n \in DOMAIN AsShown(q, k) :
                 \/ \E f \in Photos : AsShown(q, k)[n] = <<f, k>>
                 \/ AsShown(q, k)[n] \in Media /\ q.loaded[AsShown(q, k)[n]] # NoRow
<1> DEFINE S == Staying(q)
           c == Cardinality(At(q.shown, S))
<1>1. PICK s \in Seq(Tile) : s = q.shown /\ Distinct(s)
  OBVIOUS
<1>2. PICK w : w = Only(s, S)
  OBVIOUS
<1>3. /\ c \in Nat /\ w \in Seq(Tile \cap S) /\ Len(w) = c
      /\ \A i \in At(s, S) : Number(s, S, i) \in 0..(c - 1) /\ w[Number(s, S, i) + 1] = s[i]
  <2> HIDE DEF S
  <2>1. Elements(Tile, s, S)
    BY OnlyElements
  <2>2. c = Cardinality(At(s, S))
    BY <1>1
  <2> HIDE DEF c
  <2> QED
    BY <1>2, <2>1, <2>2 DEF Elements
<1>4. Distinct(w)
  <2> HIDE DEF S
  <2> QED
    BY <1>1, <1>2, OnlyDistinct
<1>5. AsShown(q, k) = [n \in 1..c |-> Shown(w[n], k)]
  <2> HIDE DEF S, c
  <2>1. w = Only(q.shown, {f \in Photos : kind[f] = "fine"} \cup {m \in Media : q.loaded[m] # NoRow})
    BY <1>1, <1>2 DEF Staying, S
  <2>2. DOMAIN w = 1..c
    BY <1>3 DEF c
  <2>3. AsShown(q, k) = [n \in DOMAIN w |-> IF IsFile(w[n]) THEN <<w[n], k>> ELSE w[n]]
    BY <2>1 DEF AsShown
  <2> QED
    BY <2>2, <2>3 DEF Shown
<1>6. PICK a : a = AsShown(q, k)
  OBVIOUS
<1>7. a = [n \in 1..c |-> a[n]] /\ DOMAIN a = 1..c /\ \A n \in 1..c : a[n] = Shown(w[n], k)
  BY <1>5, <1>6
<1>8. a \in Seq({a[n] : n \in 1..c})
  <2> HIDE DEF c
  <2>1. a \in [1..c -> {a[n] : n \in 1..c}]
    BY <1>7
  <2> QED
    BY <1>3, <2>1 DEF c
<1>9. Len(a) = c
  <2> HIDE DEF c
  <2> QED
    BY <1>3, <1>7, <1>8 DEF c
<1>10. \A n \in 1..c : /\ w[n] \in Tile /\ w[n] \in S
                       /\ IsFile(w[n]) \/ (w[n] \in Media /\ q.loaded[w[n]] # NoRow)
  <2>1. \A n \in 1..c : w[n] \in Tile \cap S
    <3> HIDE DEF S, c
    <3> QED
      BY <1>3 DEF c
  <2> QED
    BY <2>1 DEF Tile, IsFile, Staying
<1>11. ASSUME NEW m \in 1..c, NEW n \in 1..c, a[m] = a[n] PROVE m = n
  <2>1. \A f \in Photos : <<f, k>> \in Media /\ q.loaded[<<f, k>>] = NoRow
    BY DEF ReadFrom, Media
  <2>2. a[m] = Shown(w[m], k) /\ a[n] = Shown(w[n], k)
    BY <1>7
  <2>3. /\ IsFile(w[m]) \/ (w[m] \in Media /\ q.loaded[w[m]] # NoRow)
        /\ IsFile(w[n]) \/ (w[n] \in Media /\ q.loaded[w[n]] # NoRow)
    BY <1>10
  <2>4. w[m] = w[n]
    <3>1. PICK x, y : x = w[m] /\ y = w[n]
      OBVIOUS
    <3>2. ASSUME NEW f \in Photos PROVE <<f, k>> \in Media /\ q.loaded[<<f, k>>] = NoRow
      BY <2>1
    <3>3. Shown(x, k) = Shown(y, k)
      BY <1>11, <2>2, <3>1
    <3>4. x \in Photos => Shown(x, k) = <<x, k>>
      BY DEF Shown, IsFile
    <3>5. y \in Photos => Shown(y, k) = <<y, k>>
      BY DEF Shown, IsFile
    <3>6. x \notin Photos => Shown(x, k) = x /\ q.loaded[x] # NoRow
      BY <2>3, <3>1 DEF Shown, IsFile
    <3>7. y \notin Photos => Shown(y, k) = y /\ q.loaded[y] # NoRow
      BY <2>3, <3>1 DEF Shown, IsFile
    <3>8. <<x, k>> = <<y, k>> => x = y
      OBVIOUS
    <3> QED
      BY <3>1, <3>2, <3>3, <3>4, <3>5, <3>6, <3>7, <3>8
  <2>5. DOMAIN w = 1..c
    BY <1>3
  <2> QED
    BY <1>4, <2>4, <2>5 DEF Distinct
<1>12. \A n \in 1..c : \/ \E f \in Photos : a[n] = <<f, k>>
                       \/ a[n] \in Media /\ q.loaded[a[n]] # NoRow
  BY <1>7, <1>10 DEF Shown, IsFile
<1>13. \A i \in At(s, S) : Number(s, S, i) + 1 \in 1..c /\ a[Number(s, S, i) + 1] = Shown(s[i], k)
  <2> HIDE DEF S, c
  <2>1. \A i \in At(s, S) : Number(s, S, i) + 1 \in 1..c
    BY <1>3 DEF c
  <2> QED
    BY <1>3, <1>7, <2>1 DEF c
<1> HIDE DEF S, c
<1>14. Distinct(a)
  BY <1>7, <1>11 DEF Distinct
<1> QED
  BY <1>1, <1>3, <1>6, <1>7, <1>9, <1>12, <1>13, <1>14 DEF S, c

\* What is carried is read from the request, and from what the files are.
LEMMA CarriedPrime ==
    ASSUME UNCHANGED kind, NEW j \in Submits, NEW p, p = req'[j], UnderWay(p) => Carried(p, j)
    PROVE  (UnderWay(req[j]) => Carried(req[j], j))'
<1>1. Staying(req[j])' = Staying(p)
  BY DEF Staying
<1>2. Reached(req[j])' = Reached(p)
  BY DEF Reached
<1>3. AsShown(req[j], j)' = AsShown(p, j)
  BY DEF AsShown
<1>4. Named(p) => Named(req[j])'
  BY <1>2 DEF Named
<1>5. InOrder(p, j) => InOrder(req[j], j)'
  BY <1>1, <1>2, <1>3 DEF InOrder
<1>6. ReadFrom(p, j) => ReadFrom(req[j], j)'
  BY DEF ReadFrom
<1>7. Stage(p) => Stage(req[j])'
  BY <1>2 DEF Stage
<1> QED
  BY <1>4, <1>5, <1>6, <1>7 DEF Carried, UnderWay

\* The other requests carry what they carried.
LEMMA OthersCarried ==
    ASSUME UNCHANGED kind, \A j \in Submits : UnderWay(req[j]) => Carried(req[j], j),
           NEW k \in Submits, NEW n, Becoming(k, n), UnderWay(n) => Carried(n, k)
    PROVE  (\A j \in Submits : UnderWay(req[j]) => Carried(req[j], j))'
<1> SUFFICES ASSUME NEW j \in Submits PROVE (UnderWay(req[j]) => Carried(req[j], j))'
  OBVIOUS
<1>1. PICK p : p = req'[j]
  OBVIOUS
<1>2. UnderWay(p) => Carried(p, j)
  BY <1>1 DEF Becoming
<1> QED
  BY <1>1, <1>2, CarriedPrime

LEMMA StillCarried ==
    ASSUME NEW q, NEW n, NEW k \in Submits, Carried(q, k), Keeps(n, q), n.tokens = q.tokens,
           n.ordered = q.ordered, n.loaded = q.loaded, n.row = q.row \/ n.loaded = NoMedia,
           Stage(n)
    PROVE  Carried(n, k)
<1>1. Reached(n) = Reached(q) /\ Staying(n) = Staying(q) /\ AsShown(n, k) = AsShown(q, k)
  BY DEF Keeps, Reached, Staying, AsShown
<1>2. Named(n) /\ InOrder(n, k)
  BY <1>1 DEF Carried, Keeps, Named, InOrder
<1>3. ReadFrom(n, k)
  BY DEF Carried, ReadFrom, NoMedia
<1> QED
  BY <1>2, <1>3 DEF Carried

LEMMA StartCarried ==
    ASSUME NEW q, NEW k \in Submits, q.shown \in Seq(Tile), q.tokens \in Seq(Token),
           Named(q), Reached(q) = 0, q.ordered = <<>>, ReadFrom(q, k), Stage(q)
    PROVE  Carried(q, k)
<1>1. Number(q.shown, Staying(q), 1) = 0
  <2>1. Counts(q.shown, Staying(q))
    BY NumberNext
  <2> QED
    BY <2>1 DEF Counts
<1>2. InOrder(q, k)
  BY <1>1 DEF InOrder
<1> QED
  BY <1>2 DEF Carried

\* A form that is sent.
LEMMA SentCarried ==
    ASSUME Fields, Types, NEW k \in Submits, SendForm(k)
    PROVE  \E n : /\ Becoming(k, n) /\ Carried(n, k)
                  /\ n.pc = "arrived" /\ n.reply = NoAnswer /\ n.shown = form.tiles
<1>1. PICK n : /\ Becoming(k, n)
               /\ n.pc = "arrived" /\ n.product = form.product /\ n.row = form.product
               /\ n.published = form.published /\ n.blank \in BOOLEAN
               /\ n.shown = form.tiles /\ n.files = Files(form.tiles)
               /\ n.tokens = Tokens(form.tiles)
               /\ n.seen = NotSent.seen /\ n.loaded = NoMedia /\ n.ordered = <<>>
               /\ n.rejected = {} /\ n.reply = NoAnswer
  BY SendStep
<1>2. PICK s \in Seq(Tile) : s = form.tiles
  BY DEF Types, FormOK
<1>3. Tokens(s) \in Seq(Token) /\ Len(Tokens(s)) = Len(s) /\ Len(s) \in Nat
  BY TokensOf
<1>4. Reached(n) = 0
  BY <1>1, <1>2, <1>3 DEF Reached
<1>5. Named(n)
  BY <1>1, <1>2, <1>3, <1>4 DEF Named
<1>6. ReadFrom(n, k) /\ Stage(n)
  BY <1>1, <1>4 DEF ReadFrom, Stage, NoMedia, Media
<1>7. Carried(n, k)
  BY <1>1, <1>2, <1>3, <1>4, <1>5, <1>6, StartCarried
<1> QED
  BY <1>1, <1>7

\* The tile whose name is next.
NextTile(q) == q.shown[Reached(q) + 1]

\* The name of a tile is taken: the medium is put in order, if it is not refused
\* and was not removed.
TakenOne(n, q, k) ==
    /\ Keeps(n, q)
    /\ n.pc = "tokens" /\ n.row = q.row /\ n.tokens = Tail(q.tokens)
    /\ n.loaded = q.loaded /\ n.reply = q.reply
    /\ n.ordered = IF NextTile(q) \in Staying(q) THEN Append(q.ordered, Shown(NextTile(q), k))
                   ELSE q.ordered

\* Where the next name is, and what it is.
LEMMA NextName ==
    ASSUME NEW q, RequestOK(q), Named(q), q.tokens # <<>>
    PROVE  /\ Reached(q) \in Nat /\ Reached(q) + 1 \in 1..Len(q.shown)
           /\ Len(q.shown) \in Nat /\ Len(q.tokens) \in Nat
           /\ NextTile(q) \in Tile
           /\ IsFile(NextTile(q)) =>
                /\ Head(q.tokens) = [new |-> Number(q.shown, Photos, Reached(q) + 1)]
                /\ Number(q.shown, Photos, Reached(q) + 1) < Len(q.files)
                /\ q.files[Number(q.shown, Photos, Reached(q) + 1) + 1] = NextTile(q)
           /\ ~IsFile(NextTile(q)) => Head(q.tokens) = [existing |-> NextTile(q)]
<1>1. PICK s \in Seq(Tile), t \in Seq(Token) : s = q.shown /\ t = q.tokens
  BY DEF RequestOK
<1>2. Len(s) \in Nat /\ Len(t) \in Nat /\ Len(t) >= 1 /\ Len(t) <= Len(s) /\ Head(t) = t[1]
  BY <1>1 DEF Named
<1>3. PICK i : i = Reached(q) + 1
  OBVIOUS
<1>4. Reached(q) \in Nat /\ i \in 1..Len(s) /\ s[i] \in Tile
  <2>1. Reached(q) = Len(s) - Len(t)
    BY <1>1 DEF Reached
  <2>2. Reached(q) \in Nat /\ i \in 1..Len(s)
    BY <1>2, <1>3, <2>1
  <2> QED
    BY <2>2
<1>5. NextTile(q) = s[i]
  BY <1>1, <1>3 DEF NextTile
<1>6. Head(t) = Tokens(s)[i]
  BY <1>1, <1>2, <1>3 DEF Named
<1>7. Tokens(s)[i] = IF IsFile(s[i]) THEN [new |-> Number(s, Photos, i)] ELSE [existing |-> s[i]]
  BY <1>4, TokensOf
<1>8. ASSUME IsFile(s[i])
      PROVE  Number(s, Photos, i) < Len(q.files) /\ q.files[Number(s, Photos, i) + 1] = s[i]
  <2>1. q.files = Only(s, Photos)
    BY <1>1 DEF Named, Files
  <2>2. i \in At(s, Photos)
    BY <1>4, <1>8 DEF At, IsFile
  <2>3. /\ Len(Only(s, Photos)) = Cardinality(At(s, Photos)) /\ Cardinality(At(s, Photos)) \in Nat
        /\ Number(s, Photos, i) \in 0..(Cardinality(At(s, Photos)) - 1)
        /\ Only(s, Photos)[Number(s, Photos, i) + 1] = s[i]
    <3>1. Elements(Tile, s, Photos)
      BY OnlyElements
    <3> QED
      BY <2>2, <3>1 DEF Elements
  <2> QED
    BY <2>1, <2>3
<1> QED
  BY <1>1, <1>2, <1>3, <1>4, <1>5, <1>6, <1>7, <1>8

\* A medium of the order is put in it once.
LEMMA NotYet ==
    ASSUME NEW q, NEW k \in Submits, RequestOK(q), Carried(q, k), q.tokens # <<>>,
           NextTile(q) \in Staying(q)
    PROVE  /\ Number(q.shown, Staying(q), Reached(q) + 1) + 1 \in DOMAIN AsShown(q, k)
           /\ AsShown(q, k)[Number(q.shown, Staying(q), Reached(q) + 1) + 1] = Shown(NextTile(q), k)
           /\ Shown(NextTile(q), k) \notin Range(q.ordered)
<1> DEFINE i == Reached(q) + 1
<1>1. i \in 1..Len(q.shown) /\ q.shown \in Seq(Tile) /\ Distinct(q.shown) /\ ReadFrom(q, k)
      /\ Named(q)
  BY NextName DEF Carried, RequestOK
<1>2. i \in At(q.shown, Staying(q))
  BY <1>1 DEF At, NextTile
<1> HIDE DEF i
<1>3. PICK a, c, N : /\ a = AsShown(q, k) /\ c = Cardinality(At(q.shown, Staying(q)))
                     /\ N = Number(q.shown, Staying(q), i)
  OBVIOUS
<1>4. /\ DOMAIN a = 1..c /\ c \in Nat /\ Distinct(a)
      /\ N + 1 \in 1..c /\ a[N + 1] = Shown(q.shown[i], k)
  BY <1>1, <1>2, <1>3, ShownElements
<1>5. q.shown[i] = NextTile(q)
  BY DEF NextTile, i
<1>6. N \in Nat
  BY <1>1, <1>3, NumberType
<1>7. ASSUME NEW j \in DOMAIN q.ordered, q.ordered[j] = Shown(NextTile(q), k) PROVE FALSE
  <2>1. j \in 1..N
    <3>1. DOMAIN q.ordered = 1..Len(q.ordered)
      BY DEF RequestOK
    <3> QED
      BY <1>3, <3>1 DEF Carried, InOrder, i
  <2>2. a[j] = Shown(NextTile(q), k)
    BY <1>3, <1>6, <1>7, <2>1 DEF Carried, InOrder, i
  <2>3. j = N + 1
    BY <1>4, <1>5, <1>6, <2>1, <2>2 DEF Distinct
  <2> QED
    BY <1>6, <2>1, <2>3
<1> QED
  BY <1>3, <1>4, <1>5, <1>7 DEF Range, i

LEMMA TakenCarried ==
    ASSUME NEW q, NEW n, NEW k \in Submits, RequestOK(q), Carried(q, k), q.tokens # <<>>,
           TakenOne(n, q, k)
    PROVE  Carried(n, k) /\ Reached(n) = Reached(q) + 1
<1> DEFINE R == Reached(q)
<1>1. /\ R \in Nat /\ R + 1 \in 1..Len(q.shown) /\ Len(q.shown) \in Nat /\ Len(q.tokens) \in Nat
      /\ q.tokens \in Seq(Token) /\ q.shown \in Seq(Tile) /\ q.ordered \in Seq(Media)
      /\ Len(q.tokens) >= 1
  <2>1. R \in Nat /\ R + 1 \in 1..Len(q.shown) /\ Len(q.shown) \in Nat /\ Len(q.tokens) \in Nat
    BY NextName DEF Carried
  <2> QED
    BY <2>1 DEF RequestOK
<1>2. Len(n.tokens) = Len(q.tokens) - 1 /\ \A j \in 1..Len(n.tokens) : n.tokens[j] = q.tokens[j + 1]
  <2>1. PICK t \in Seq(Token) : t = q.tokens
    BY <1>1
  <2>2. Len(Tail(t)) = Len(t) - 1 /\ \A j \in 1..(Len(t) - 1) : Tail(t)[j] = t[j + 1]
    BY <1>1, <2>1
  <2> QED
    BY <2>1, <2>2 DEF TakenOne
<1>3. Reached(n) = R + 1
  <2>1. n.shown = q.shown
    BY DEF TakenOne, Keeps
  <2>2. R = Len(q.shown) - Len(q.tokens) /\ Reached(n) = Len(q.shown) - Len(n.tokens)
    BY <2>1 DEF Reached
  <2> QED
    BY <1>1, <1>2, <2>2
<1>4. Staying(n) = Staying(q) /\ AsShown(n, k) = AsShown(q, k)
  BY DEF TakenOne, Keeps, Staying, AsShown
<1>5. Named(n)
  <2>1. ASSUME NEW j \in 1..Len(n.tokens) PROVE n.tokens[j] = Tokens(q.shown)[Reached(n) + j]
    <3>1. j \in Nat /\ j + 1 \in 1..Len(q.tokens)
      BY <1>1, <1>2
    <3>2. R + (j + 1) = Reached(n) + j
      <4> HIDE DEF R
      <4> QED
        BY <1>1, <1>3, <3>1
    <3> QED
      BY <1>2, <3>1, <3>2 DEF Carried, Named
  <2> QED
    BY <1>1, <1>2, <2>1 DEF Carried, Named, TakenOne, Keeps
<1>6. InOrder(n, k)
  <2>1. PICK N, M, c : /\ N = Number(q.shown, Staying(q), R + 1)
                       /\ M = Number(q.shown, Staying(q), R + 2)
                       /\ c = Shown(NextTile(q), k)
    OBVIOUS
  <2>2. N \in Nat /\ M = N + (IF NextTile(q) \in Staying(q) THEN 1 ELSE 0)
    <3>1. N \in Nat
      BY <1>1, <2>1, NumberType
    <3>2. Number(q.shown, Staying(q), (R + 1) + 1) =
             N + (IF q.shown[R + 1] \in Staying(q) THEN 1 ELSE 0)
      <4>1. ASSUME NEW X, NEW j \in 1..Len(q.shown)
            PROVE  Number(q.shown, X, j + 1) =
                     Number(q.shown, X, j) + (IF q.shown[j] \in X THEN 1 ELSE 0)
        <5>1. PICK s \in Seq(Tile) : s = q.shown
          BY <1>1
        <5>2. Counts(s, X)
          BY NumberNext
        <5> QED
          BY <5>1, <5>2 DEF Counts
      <4> HIDE DEF R
      <4> QED
        BY <1>1, <2>1, <4>1
    <3>3. (R + 1) + 1 = R + 2
      BY <1>1
    <3> QED
      BY <2>1, <3>1, <3>2, <3>3 DEF NextTile
  <2>3. Len(q.ordered) = N /\ \A j \in 1..N : q.ordered[j] = AsShown(q, k)[j]
    BY <2>1 DEF Carried, InOrder
  <2>4. M = Number(n.shown, Staying(n), Reached(n) + 1)
    <3>1. (R + 1) + 1 = R + 2
      BY <1>1
    <3> QED
      BY <1>3, <1>4, <2>1, <3>1 DEF TakenOne, Keeps
  <2>5. CASE NextTile(q) \in Staying(q)
    <3>1. AsShown(q, k)[N + 1] = c
      BY <2>1, <2>5, NotYet
    <3>2. n.ordered = Append(q.ordered, c)
      BY <2>1, <2>5 DEF TakenOne
    <3>3. /\ Len(n.ordered) = N + 1 /\ n.ordered[N + 1] = c
          /\ \A j \in 1..N : n.ordered[j] = q.ordered[j]
      <4>1. c \in Media
        BY <1>1, <2>1, NextName DEF Carried, Shown, IsFile, Tile, Media
      <4>2. PICK o \in Seq(Media) : o = q.ordered
        BY <1>1
      <4>3. /\ Len(Append(o, c)) = Len(o) + 1 /\ Append(o, c)[Len(o) + 1] = c
            /\ \A j \in 1..Len(o) : Append(o, c)[j] = o[j]
        BY <4>1, <4>2
      <4> QED
        BY <2>3, <3>2, <4>2, <4>3
    <3>4. \A j \in 1..(N + 1) : j \in 1..N \/ j = N + 1
      BY <2>2
    <3> QED
      BY <1>4, <2>2, <2>3, <2>4, <2>5, <3>1, <3>3, <3>4 DEF InOrder
  <2>6. CASE NextTile(q) \notin Staying(q)
    <3>1. n.ordered = q.ordered
      BY <2>6 DEF TakenOne
    <3> QED
      BY <1>4, <2>2, <2>3, <2>4, <2>6, <3>1 DEF InOrder
  <2> QED
    BY <2>5, <2>6
<1>7. ReadFrom(n, k) /\ Stage(n)
  BY DEF Carried, ReadFrom, Stage, TakenOne, Keeps
<1> QED
  BY <1>3, <1>5, <1>6, <1>7 DEF Carried

\* What taking a name does to the originals.
OneConsumed(x) ==
    \/ staged' = staged \ {x} /\ UNCHANGED faults
    \/ UNCHANGED staged /\ Fault

LEMMA TakeEffect ==
    ASSUME Fields, Types, Uploads, NEW k \in Submits, Carried(req[k], k), Take(k)
    PROVE  \E n : /\ Becoming(k, n) /\ TakenOne(n, req[k], k)
                  /\ OneConsumed(<<NextTile(req[k]), k>>)
<1>1. PICK q, t, x : q = req[k] /\ t = Head(q.tokens) /\ x = NextTile(q)
  OBVIOUS
<1>2. RequestOK(q) /\ Carried(q, k) /\ Named(q) /\ q.tokens # <<>> /\ q.ordered \in Seq(Media)
  BY <1>1 DEF Types, Carried, Take, RequestOK
<1>3. PICK N : N = Number(q.shown, Photos, Reached(q) + 1)
  OBVIOUS
<1>4. /\ x \in Tile
      /\ IsFile(x) => t = [new |-> N] /\ N < Len(q.files) /\ q.files[N + 1] = x
      /\ ~IsFile(x) => t = [existing |-> x]
  BY <1>1, <1>2, <1>3, NextName
<1>5. \A f \in Photos, j \in Submits : <<f, j>> \in staged => kind[f] # "unsupported"
  BY DEF Uploads
<1>6. staged \in SUBSET (Photos \X Submits) /\ Media \cap Photos = {}
  BY FormAssumption DEF Types
<1>7. x \in Staying(q) => Joined(q.ordered, Shown(x, k)) = Append(q.ordered, Shown(x, k))
  <2> SUFFICES ASSUME x \in Staying(q) PROVE Shown(x, k) \notin Range(q.ordered)
    BY DEF Joined
  <2> QED
    BY <1>1, <1>2, NotYet
<1>8. PICK o : o = IF x \in Staying(q) THEN Append(q.ordered, Shown(x, k)) ELSE q.ordered
  OBVIOUS
<1>9. ASSUME NEW n, NEW rejected, TakenFields(n, q, o, rejected)
      PROVE  TakenOne(n, q, k)
  BY <1>1, <1>8, <1>9 DEF TakenOne, TakenFields
<1>10. PICK n : 
             /\ Becoming(k, n) 
             /\ \/ /\ "existing" \in DOMAIN t /\ q.loaded[t.existing] = NoRow
                   /\ TakenFields(n, q, q.ordered, q.rejected)
                   /\ UNCHANGED <<staged, faults>>
                \/ /\ "existing" \in DOMAIN t /\ q.loaded[t.existing] # NoRow
                   /\ TakenFields(n, q, Joined(q.ordered, t.existing), q.rejected)
                   /\ UNCHANGED <<staged, faults>>
                \/ /\ "new" \in DOMAIN t /\ t.new >= Len(q.files)
                   /\ TakenFields(n, q, q.ordered, q.rejected)
                   /\ UNCHANGED <<staged, faults>>
                \/ /\ "new" \in DOMAIN t /\ t.new < Len(q.files)
                   /\ \E f : 
                        /\ f = q.files[t.new + 1]
                        /\ \/ /\ kind[f] = "fine"
                              /\ TakenFields(n, q, Joined(q.ordered, <<f, k>>), q.rejected)
                           \/ /\ kind[f] # "fine"
                              /\ TakenFields(n, q, q.ordered, q.rejected \cup {f})
                        /\ \/ Consumed(k, f) /\ UNCHANGED faults
                           \/ <<f, k>> \in staged /\ Fault /\ UNCHANGED staged
  BY <1>1, TakeStep
<1>11. CASE ~IsFile(x)
  <2>1. DOMAIN t = {"existing"} /\ t.existing = x
    BY <1>4, <1>11
  <2>2. "new" \notin DOMAIN t
    BY <2>1
  <2>3. x \in Media /\ x \notin Photos /\ Shown(x, k) = x
    BY <1>4, <1>11 DEF Tile, IsFile, Shown
  <2>4. staged' = staged \ {<<x, k>>} /\ UNCHANGED faults
    <3>1. <<x, k>> \notin staged
      BY <1>6, <2>3
    <3> QED
      BY <1>10, <2>2, <3>1
  <2>5. x \in Staying(q) <=> q.loaded[x] # NoRow
    BY <2>3 DEF Staying
  <2>6. TakenFields(n, q, o, q.rejected)
    <3>1. CASE q.loaded[x] = NoRow
      BY <1>8, <1>10, <2>1, <2>2, <2>5, <3>1
    <3>2. CASE q.loaded[x] # NoRow
      <4>1. Joined(q.ordered, x) = o
        BY <1>7, <1>8, <2>3, <2>5, <3>2
      <4> QED
        BY <1>10, <2>1, <2>2, <3>2, <4>1
    <3> QED
      BY <3>1, <3>2
  <2> QED
    BY <1>1, <1>9, <1>10, <2>4, <2>6 DEF OneConsumed
<1>12. CASE IsFile(x)
  <2>1. DOMAIN t = {"new"} /\ t.new = N /\ t.new < Len(q.files) /\ q.files[t.new + 1] = x
    BY <1>4, <1>12
  <2>2. "existing" \notin DOMAIN t
    BY <2>1
  <2>3. ~(t.new >= Len(q.files))
    <3>1. N \in Nat
      BY <1>2, <1>3, NumberType DEF RequestOK
    <3>2. Len(q.files) \in Nat
      BY <1>2 DEF RequestOK
    <3> QED
      BY <2>1, <3>1, <3>2
  <2>4. x \in Photos /\ x \notin Media /\ Shown(x, k) = <<x, k>>
    BY <1>6, <1>12 DEF IsFile, Shown
  <2>5. /\ \/ /\ kind[x] = "fine"
              /\ TakenFields(n, q, Joined(q.ordered, <<x, k>>), q.rejected)
           \/ /\ kind[x] # "fine"
              /\ TakenFields(n, q, q.ordered, q.rejected \cup {x})
        /\ \/ Consumed(k, x) /\ UNCHANGED faults
           \/ <<x, k>> \in staged /\ Fault /\ UNCHANGED staged
    BY <1>10, <2>1, <2>2, <2>3
  <2>6. x \in Staying(q) <=> kind[x] = "fine"
    BY <2>4 DEF Staying
  <2>7. OneConsumed(<<x, k>>)
    <3>1. Consumed(k, x) => staged' = staged \ {<<x, k>>}
      BY <1>5, <2>4 DEF Consumed
    <3> QED
      BY <2>5, <3>1 DEF OneConsumed
  <2>8. TakenOne(n, q, k)
    <3>1. CASE kind[x] = "fine"
      <4>1. Joined(q.ordered, <<x, k>>) = o
        BY <1>7, <1>8, <2>4, <2>6, <3>1
      <4> QED
        BY <1>9, <2>5, <3>1, <4>1
    <3>2. CASE kind[x] # "fine"
      <4>1. o = q.ordered
        BY <1>8, <2>6, <3>2
      <4> QED
        BY <1>9, <2>5, <3>2, <4>1
    <3> QED
      BY <3>1, <3>2
  <2> QED
    BY <1>1, <1>10, <2>7, <2>8
<1> QED
  BY <1>11, <1>12

\* One more original may be left if something failed.
LEMMA FewLeftKept ==
    ASSUME Fields, Types, FewLeft, faults' \in 0..MaxFaults, faults' <= faults, NEW o,
           Left' \subseteq Left \cup {o}, Left' \subseteq Left \/ faults' < faults
    PROVE  FewLeft'
<1> DEFINE S == Left
           T == Left'
<1>1. IsFiniteSet(S) /\ Cardinality(S) \in Nat
  <2>1. IsFiniteSet(Photos \X Submits)
    <3>1. IsFiniteSet(Submits)
      BY FormAssumption, FS_Interval DEF Submits
    <3> QED
      BY <3>1, FormAssumption, FS_Product
  <2>2. S \in SUBSET (Photos \X Submits)
    BY DEF Left, Types
  <2> HIDE DEF S
  <2> QED
    BY <2>1, <2>2, FS_Subset, FS_CardinalityType
<1>2. /\ Cardinality(S) <= MaxFaults - faults
      /\ MaxFaults \in Nat /\ faults \in 0..MaxFaults
  BY FormAssumption DEF FewLeft, Fields
<1> SUFFICES Cardinality(T) <= MaxFaults - faults'
  BY DEF FewLeft
<1>3. T \in SUBSET (S \cup {o}) /\ (T \in SUBSET S \/ faults' < faults)
  OBVIOUS
<1> HIDE DEF S, T
<1>4. CASE T \in SUBSET S
  <2>1. Cardinality(T) <= Cardinality(S) /\ Cardinality(T) \in Nat
    BY <1>1, <1>4, FS_Subset, FS_CardinalityType
  <2> QED
    BY <1>1, <1>2, <2>1
<1>5. CASE faults' < faults
  <2>1. IsFiniteSet(S \cup {o}) /\ Cardinality(S \cup {o}) <= Cardinality(S) + 1
        /\ Cardinality(S \cup {o}) \in Nat
    BY <1>1, FS_AddElement
  <2>2. Cardinality(T) <= Cardinality(S \cup {o}) /\ Cardinality(T) \in Nat
    BY <1>3, <2>1, FS_Subset, FS_CardinalityType
  <2> QED
    BY <1>1, <1>2, <1>5, <2>1, <2>2
<1> QED
  BY <1>3, <1>4, <1>5

\* A request that changes leaves what it no longer names.
LEMMA LeftOf ==
    ASSUME Types, NEW k \in Submits, NEW n, Becoming(k, n), staged' \subseteq staged, NEW X,
           \A f \in Photos : <<f, k>> \in staged' /\ Strays(n, f) =>
               Strays(req[k], f) \/ <<f, k>> \in X
    PROVE  Left' \subseteq Left \cup X
<1> SUFFICES ASSUME NEW o \in Left' PROVE o \in Left \cup X
  OBVIOUS
<1>1. PICK f \in Photos, j \in Submits : o = <<f, j>>
  BY DEF Left, Types
<1>2. o \in staged' /\ o \in staged /\ Strays(req'[j], f)
  <2>1. Left' = {x \in staged' : Strays(req'[x[2]], x[1])}
    BY DEF Left, Strays, Awaited, Reached
  <2> QED
    BY <1>1, <2>1
<1>3. CASE j = k
  BY <1>1, <1>2, <1>3 DEF Becoming, Left
<1>4. CASE j # k
  BY <1>1, <1>2, <1>4 DEF Becoming, Left
<1> QED
  BY <1>3, <1>4

\* A name is taken: the tile it names is not awaited any more.
LEMMA AwaitedNext ==
    ASSUME NEW q, NEW n, NEW k, RequestOK(q), Named(q), q.tokens # <<>>, n.shown = q.shown,
           Reached(n) = Reached(q) + 1, NEW f \in Awaited(q)
    PROVE  f \in Awaited(n) \/ f = NextTile(q)
<1>1. /\ Reached(q) \in Nat /\ Len(q.shown) \in Nat
  BY NextName
<1>2. PICK i \in (Reached(q) + 1)..Len(q.shown) : f = q.shown[i]
  BY DEF Awaited
<1>3. CASE i = Reached(q) + 1
  BY <1>2, <1>3 DEF NextTile
<1>4. CASE i # Reached(q) + 1
  <2>1. i \in (Reached(n) + 1)..Len(n.shown)
    BY <1>1, <1>2, <1>4
  <2> QED
    BY <1>2, <2>1 DEF Awaited
<1> QED
  BY <1>3, <1>4

\* What a step of the server leaves of the invariant.
Continued(k, n) ==
    /\ UnderWay(n) => Carried(n, k)
    /\ n.pc # "none"
    /\ n.pc \in {"arrived", "insert", "load"} =>
          req[k].pc \in {"arrived", "insert", "load"} /\ n.shown = req[k].shown

LEMMA DoneContinued ==
    ASSUME Fields, Types, FewLeft, NEW k \in Submits, NEW row, NEW s,
           NEW reply \in {"login", "error", "invalid"}, NEW n,
           Becoming(k, n), AnsweredFields(n, row, s, reply), staged' \subseteq staged,
           faults' \in 0..MaxFaults, faults' <= faults
    PROVE  Continued(k, n) /\ FewLeft'
<1>1. Continued(k, n)
  BY DEF Continued, AnsweredFields, UnderWay
<1>2. \A f \in Photos : ~Strays(n, f)
  BY DEF Strays, AnsweredFields
<1>3. Left' \subseteq Left \cup {}
  BY <1>2, LeftOf
<1> QED
  BY <1>1, <1>3, FewLeftKept

LEMMA ServedCarries ==
    ASSUME IInv, Types, Carries, NEW k \in Submits, Serve(k), faults' \in 0..MaxFaults
    PROVE  /\ \E n : Becoming(k, n) /\ Continued(k, n)
           /\ FewLeft' /\ staged' \subseteq staged
           /\ req[k].pc \notin {"none", "done"}
<1> DEFINE q == req[k]
<1>1. /\ Fields /\ FewLeft /\ Uploads /\ RequestOK(q)
      /\ UnderWay(q) => Carried(q, k)
      /\ faults \in 0..MaxFaults /\ MaxFaults \in Nat
  BY FormAssumption DEF IInv, Carries, Types, Fields
<1>2. ASSUME NEW n, Becoming(k, n), staged' = staged, faults' = faults,
             \A f \in Photos : <<f, k>> \in staged /\ Strays(n, f) => Strays(q, f)
      PROVE  FewLeft'
  <2>1. Left' \subseteq Left \cup {}
    BY <1>2, LeftOf
  <2> QED
    BY <1>1, <1>2, <2>1, FewLeftKept
<1>3. CASE Refuse(k)
  <2>1. UNCHANGED <<staged, faults>> /\ q.pc = "arrived"
    BY <1>3 DEF Refuse
  <2>2. PICK n, s, reply : /\ reply \in {"login", "error", "invalid"}
                           /\ Becoming(k, n) /\ AnsweredFields(n, q.row, s, reply)
    BY <1>1, <1>3, RefusedStep, DoneStep, InvalidStep
  <2>3. Continued(k, n) /\ FewLeft'
    BY <1>1, <2>1, <2>2, DoneContinued
  <2> QED
    BY <2>1, <2>2, <2>3
<1>4. CASE Accept(k)
  <2>1. UNCHANGED <<staged, faults>> /\ q.pc = "arrived" /\ Carried(q, k)
    BY <1>1, <1>4 DEF Accept, UnderWay
  <2>2. PICK n : /\ Becoming(k, n) /\ Keeps(n, q)
                 /\ n.pc = IF q.product = New THEN "insert" ELSE "load"
                 /\ n.row = q.row /\ n.tokens = q.tokens
                 /\ n.seen = products /\ n.loaded = q.loaded
                 /\ n.ordered = q.ordered /\ n.rejected = q.rejected
                 /\ n.reply = q.reply
    BY <1>1, <1>4, AcceptStep
  <2>3. Stage(n)
    BY <2>1, <2>2 DEF Carried, Stage, Reached, Keeps
  <2>4. Carried(n, k)
    BY <2>1, <2>2, <2>3, StillCarried
  <2>5. Continued(k, n)
    BY <2>1, <2>2, <2>4 DEF Continued, Keeps
  <2>6. \A f \in Photos : Strays(n, f) => Strays(q, f)
    BY <2>2 DEF Strays
  <2>7. FewLeft'
    BY <1>2, <2>1, <2>2, <2>6
  <2> QED
    BY <2>1, <2>2, <2>5, <2>7
<1>5. CASE Insert(k)
  <2>1. UNCHANGED <<staged, faults>> /\ q.pc = "insert" /\ Carried(q, k)
    BY <1>1, <1>5 DEF Insert, UnderWay
  <2>2. PICK n : /\ Becoming(k, n) /\ Keeps(n, q)
                 /\ n.pc = "load"
                 /\ n.row = born' /\ n.tokens = q.tokens
                 /\ n.seen = products' /\ n.loaded = q.loaded
                 /\ n.ordered = q.ordered /\ n.rejected = q.rejected
                 /\ n.reply = q.reply
    BY <1>1, <1>5, InsertStep
  <2>3. Stage(n) /\ n.loaded = NoMedia
    BY <2>1, <2>2 DEF Carried, Stage, Reached, Keeps
  <2>4. Carried(n, k)
    BY <2>1, <2>2, <2>3, StillCarried
  <2>5. Continued(k, n)
    BY <2>1, <2>2, <2>4 DEF Continued, Keeps
  <2>6. \A f \in Photos : Strays(n, f) => Strays(q, f)
    BY <2>2 DEF Strays
  <2>7. FewLeft'
    BY <1>2, <2>1, <2>2, <2>6
  <2> QED
    BY <2>1, <2>2, <2>5, <2>7
<1>6. CASE Load(k)
  <2>1. UNCHANGED <<staged, faults>> /\ q.pc = "load" /\ Carried(q, k)
    BY <1>1, <1>6 DEF Load, UnderWay
  <2>2. CASE q.product = New /\ q.row \notin Alive
    <3>1. req' = Done(k, "error")
      BY <1>6, <2>2 DEF Load
    <3>2. PICK n : Becoming(k, n) /\ AnsweredFields(n, q.row, <<>>, "error")
      BY <1>1, <3>1, DoneStep
    <3>3. Continued(k, n) /\ FewLeft'
      BY <1>1, <2>1, <3>2, DoneContinued
    <3> QED
      BY <2>1, <3>2, <3>3
  <2>3. CASE ~(q.product = New /\ q.row \notin Alive)
    <3>1. PICK n : /\ Becoming(k, n) /\ Keeps(n, q)
                   /\ n.pc = "tokens"
                   /\ n.row = q.row /\ n.tokens = q.tokens
                   /\ n.seen = q.seen
                   /\ n.loaded = [m \in Media |-> IF m \in RowsOf(media, q.row)
                                                  THEN media[m] ELSE NoRow]
                   /\ n.ordered = q.ordered /\ n.rejected = q.rejected
                   /\ n.reply = q.reply
      BY <1>1, <1>6, <2>3, LoadStep
    <3>2. Reached(q) = 0 /\ Reached(n) = 0 /\ q.ordered = <<>> /\ Named(n) /\ Stage(n)
      BY <2>1, <3>1 DEF Carried, Named, Stage, Reached, Keeps
    <3>3. ReadFrom(n, k)
      <4>1. \A m \in Media : n.loaded[m] # NoRow =>
               m \in RowsOf(media, q.row) /\ n.loaded[m] = media[m]
        BY <3>1
      <4>2. \A f \in Photos : <<f, k>> \in Media /\ media[<<f, k>>] = NoRow
        BY <2>1 DEF Carries, OwnMedia, Media
      <4> QED
        BY <3>1, <4>1, <4>2 DEF ReadFrom, RowsOf
    <3>4. Carried(n, k)
      <4>1. n.shown \in Seq(Tile) /\ n.tokens \in Seq(Token)
        BY <1>1, <3>1 DEF RequestOK, Keeps
      <4> QED
        BY <3>1, <3>2, <3>3, <4>1, StartCarried
    <3>5. Continued(k, n)
      BY <3>1, <3>4 DEF Continued
    <3>6. ASSUME NEW f \in Photos, <<f, k>> \in staged, Strays(n, f) PROVE Strays(q, f)
      <4>1. f \in Range(q.shown)
        BY <1>1, <2>1, <3>6 DEF Uploads
      <4>2. f \in Awaited(n)
        <5>1. PICK s \in Seq(Tile) : s = q.shown /\ n.shown = s
          BY <1>1, <3>1 DEF RequestOK, Keeps
        <5>2. DOMAIN s = 1..Len(s)
          BY <5>1
        <5> QED
          BY <3>2, <4>1, <5>1, <5>2 DEF Awaited, Range
      <4> QED
        BY <3>1, <3>6, <4>2 DEF Strays
    <3>7. FewLeft'
      BY <1>2, <2>1, <3>1, <3>6
    <3> QED
      BY <2>1, <3>1, <3>5, <3>7
  <2> QED
    BY <2>2, <2>3
<1>7. CASE Take(k)
  <2>1. q.pc = "tokens" /\ q.tokens # <<>> /\ Carried(q, k)
    BY <1>1, <1>7 DEF Take, UnderWay
  <2>2. PICK n : Becoming(k, n) /\ TakenOne(n, q, k) /\ OneConsumed(<<NextTile(q), k>>)
    BY <1>1, <1>7, <2>1, TakeEffect
  <2>3. Carried(n, k) /\ Reached(n) = Reached(q) + 1
    BY <1>1, <2>1, <2>2, TakenCarried
  <2>4. Continued(k, n)
    BY <2>2, <2>3 DEF Continued, TakenOne
  <2>5. staged' \subseteq staged /\ faults' <= faults
    BY <1>1, <2>2 DEF OneConsumed, Fault
  <2>6. ASSUME NEW f \in Photos, <<f, k>> \in staged', Strays(n, f)
        PROVE  Strays(q, f) \/ <<f, k>> \in {<<NextTile(q), k>>}
    <3>1. f \notin Awaited(n) \/ q.reply \in {"list", "edit"}
      BY <2>2, <2>6 DEF Strays, TakenOne
    <3>2. f \in Awaited(q) => f \in Awaited(n) \/ f = NextTile(q)
      <4>1. n.shown = q.shown /\ Named(q)
        BY <2>1, <2>2 DEF TakenOne, Keeps, Carried
      <4> QED
        BY <1>1, <2>1, <2>3, <4>1, AwaitedNext
    <3> QED
      BY <2>1, <3>1, <3>2 DEF Strays
  <2>7. Left' \subseteq Left \cup {<<NextTile(q), k>>}
    BY <2>2, <2>5, <2>6, LeftOf
  <2>8. Left' \subseteq Left \/ faults' < faults
    <3>1. CASE staged' = staged \ {<<NextTile(q), k>>}
      <4>1. Left' \subseteq staged'
        BY DEF Left
      <4> QED
        BY <2>7, <3>1, <4>1
    <3>2. CASE Fault
      BY <1>1, <3>2 DEF Fault
    <3> QED
      BY <2>2, <3>1, <3>2 DEF OneConsumed
  <2>9. FewLeft'
    BY <1>1, <2>5, <2>7, <2>8, FewLeftKept
  <2> QED
    BY <2>1, <2>2, <2>4, <2>5, <2>9
<1>8. CASE NamesTaken(k)
  <2>1. UNCHANGED <<staged, faults>> /\ q.pc = "tokens" /\ q.tokens = <<>> /\ Carried(q, k)
    BY <1>1, <1>8 DEF NamesTaken, UnderWay
  <2>2. PICK n : /\ Becoming(k, n) /\ Keeps(n, q)
                 /\ n.pc = "commit"
                 /\ n.row = q.row /\ n.tokens = q.tokens
                 /\ n.seen = q.seen /\ n.loaded = q.loaded
                 /\ n.ordered = q.ordered /\ n.rejected = q.rejected
                 /\ n.reply = q.reply
    BY <1>1, <1>8, NamesTakenStep
  <2>3. Stage(n)
    BY <2>1, <2>2 DEF Stage
  <2>4. Carried(n, k)
    BY <2>1, <2>2, <2>3, StillCarried
  <2>5. Continued(k, n)
    BY <2>2, <2>4 DEF Continued
  <2>6. \A f \in Photos : Strays(n, f) => Strays(q, f)
    BY <2>1, <2>2 DEF Strays, Awaited, Reached, Keeps
  <2>7. FewLeft'
    BY <1>2, <2>1, <2>2, <2>6
  <2> QED
    BY <2>1, <2>2, <2>5, <2>7
<1>9. CASE Commit(k)
  <2>1. UNCHANGED <<staged, faults>> /\ q.pc = "commit" /\ Carried(q, k)
    BY <1>1, <1>9 DEF Commit, UnderWay
  <2>2. PICK reply : reply \in {"error", "list", "edit"} /\ req' = Done(k, reply)
    BY <1>9 DEF Commit
  <2>3. PICK n : Becoming(k, n) /\ AnsweredFields(n, q.row, <<>>, reply)
    BY <1>1, <2>2, DoneStep
  <2>4. Continued(k, n)
    BY <2>3 DEF Continued, AnsweredFields, UnderWay
  <2>5. \A f \in Photos : Strays(q, f)
    <3>1. q.tokens = <<>> /\ Len(q.shown) \in Nat
      BY <1>1, <2>1 DEF Carried, Stage, RequestOK
    <3>2. Reached(q) = Len(q.shown)
      BY <3>1 DEF Reached
    <3>3. (Reached(q) + 1)..Len(q.shown) = {}
      BY <3>1, <3>2
    <3> QED
      BY <2>1, <3>3 DEF Strays, Awaited
  <2>6. FewLeft'
    BY <1>2, <2>1, <2>3, <2>5
  <2> QED
    BY <2>1, <2>3, <2>4, <2>6
<1>10. CASE Abort(k)
  <2>1. /\ req' = Done(k, "error") /\ staged' \subseteq staged /\ Fault
        /\ q.pc \notin {"none", "done"}
    BY <1>10 DEF Abort
  <2>2. PICK n : Becoming(k, n) /\ AnsweredFields(n, q.row, <<>>, "error")
    BY <1>1, <2>1, DoneStep
  <2>3. faults' <= faults
    BY <1>1, <2>1 DEF Fault
  <2>4. Continued(k, n) /\ FewLeft'
    BY <1>1, <2>1, <2>2, <2>3, DoneContinued
  <2> QED
    BY <2>1, <2>2, <2>4
<1> QED
  BY <1>3, <1>4, <1>5, <1>6, <1>7, <1>8, <1>9, <1>10 DEF Serve

LEMMA LeftPrime == Left' = {o \in staged' : Strays(req'[o[2]], o[1])}
  BY DEF Left, Strays, Awaited, Reached

LEMMA UploadsKept ==
    ASSUME Uploads, UNCHANGED <<kind, direct>>, staged' \subseteq staged, form'.last = form.last,
           form'.pc = "uploading" =>
              form.pc = "uploading" /\ form'.sent = form.sent /\ form'.tiles = form.tiles,
           \A j \in Submits :
              /\ req'[j].pc # "none" => req[j].pc # "none"
              /\ req'[j].pc \in {"arrived", "insert", "load"} =>
                    /\ req[j].pc \in {"arrived", "insert", "load"}
                    /\ req'[j].shown = req[j].shown,
           form'.pc = "uploading" => form.last \in Submits
    PROVE  Uploads'
  BY DEF Uploads

\* A step that sends nothing and that the server does not make.
LEMMA QuietCarries ==
    ASSUME Fields, Types, Carries, UNCHANGED <<kind, direct, staged, req>>,
           \A m \in Media : media'[m] # NoRow => media[m] # NoRow,
           form'.last = form.last,
           form'.pc = "uploading" => form' = form,
           faults' \in 0..MaxFaults, faults' <= faults
    PROVE  Carries'
<1>1. (\A k \in Submits : UnderWay(req[k]) => Carried(req[k], k))'
  <2> SUFFICES ASSUME NEW k \in Submits PROVE (UnderWay(req[k]) => Carried(req[k], k))'
    OBVIOUS
  <2>1. PICK p : p = req'[k]
    OBVIOUS
  <2>2. UnderWay(p) => Carried(p, k)
    BY <2>1 DEF Carries
  <2> QED
    BY <2>1, <2>2, CarriedPrime
<1>2. OwnMedia'
  <2>1. \A f \in Photos, k \in Submits : <<f, k>> \in Media
    BY DEF Media
  <2> QED
    BY <2>1 DEF Carries, OwnMedia
<1>3. Uploads'
  <2>1. form'.pc = "uploading" => form.last \in Submits
    BY DEF Fields
  <2> QED
    BY <2>1, UploadsKept DEF Carries
<1>4. FewLeft'
  <2>1. Left' = Left
    BY LeftPrime DEF Left
  <2> QED
    BY <2>1, FewLeftKept DEF Carries
<1> QED
  BY <1>1, <1>2, <1>3, <1>4 DEF Carries

\* A form is sent.
LEMMA SendCarries ==
    ASSUME Fields, Types, Carries, NEW k \in Submits, SendForm(k), req[k].pc = "none",
           UNCHANGED <<kind, direct, staged, media, faults>>,
           form'.pc = "posted", form'.last = k, form.last <= k, \A j \in 1..(k - 1) : j <= form.last,
           \A f \in Photos : <<f, k>> \in staged => f \in Range(form.tiles)
    PROVE  Carries'
<1>1. PICK n : /\ Becoming(k, n) /\ Carried(n, k)
               /\ n.pc = "arrived" /\ n.reply = NoAnswer /\ n.shown = form.tiles
  BY SentCarried
<1>2. (\A j \in Submits : UnderWay(req[j]) => Carried(req[j], j))'
  BY <1>1, OthersCarried DEF Carries
<1>3. OwnMedia'
  BY <1>1 DEF Carries, OwnMedia, Becoming
<1>4. Uploads'
  <2>1. \A j \in Submits : req'[j] = IF j = k THEN n ELSE req[j]
    BY <1>1 DEF Becoming
  <2>2. form.last \in Int /\ k \in Int /\ \A j \in Submits : j \in Int
    BY DEF Fields, Submits
  <2>3. \A j \in Submits : req'[j].pc # "none" => j <= form'.last
    BY <2>1, <2>2 DEF Carries, Uploads
  <2>4. ASSUME NEW f \in Photos, NEW j \in Submits, <<f, j>> \in staged
        PROVE  /\ direct' /\ j <= form'.last
               /\ kind'[f] \notin {"unsupported", "huge"}
               /\ req'[j].pc \in {"arrived", "insert", "load"} => f \in Range(req'[j].shown)
    <3>1. /\ direct /\ j <= form.last /\ kind[f] \notin {"unsupported", "huge"}
          /\ req[j].pc \in {"arrived", "insert", "load"} => f \in Range(req[j].shown)
      BY <2>4 DEF Carries, Uploads
    <3> QED
      BY <1>1, <2>1, <2>2, <2>4, <3>1
  <2> QED
    BY <2>3, <2>4 DEF Uploads
<1>5. FewLeft'
  <2>1. \A f \in Photos : ~Strays(n, f)
    BY <1>1, FormAssumption DEF Strays
  <2>2. Left' \subseteq Left \cup {}
    BY <1>1, <2>1, LeftOf
  <2> QED
    BY <2>2, FewLeftKept DEF Carries, Fields
<1> QED
  BY <1>2, <1>3, <1>4, <1>5 DEF Carries

LEMMA FormsRead ==
    ASSUME Types
    PROVE  /\ Files(form.tiles) \in Seq(Photos) /\ Len(Files(form.tiles)) \in Nat
           /\ form.sent \in Nat /\ form.last \in Nat
           /\ \A i \in 1..Len(Files(form.tiles)) :
                Files(form.tiles)[i] \in Photos /\ Files(form.tiles)[i] \in Range(form.tiles)
<1>1. PICK s \in Seq(Tile) : s = form.tiles /\ Distinct(s)
  BY DEF Types, FormOK
<1>2. Files(s) \in Seq(Photos)
  BY TokensOf
<1>3. Range(Only(s, Photos)) = Range(s) \cap Photos
  BY <1>1, OnlyDistinct
<1>4. PICK w \in Seq(Photos) : w = Files(s) /\ Range(w) = Range(s) \cap Photos
  BY <1>2, <1>3 DEF Files
<1>5. Len(w) \in Nat /\ \A i \in 1..Len(w) : w[i] \in Photos /\ w[i] \in Range(w)
  BY DEF Range
<1>6. form.sent \in Nat /\ form.last \in Nat
  BY DEF Types, FormOK
<1> QED
  BY <1>1, <1>4, <1>5, <1>6

LEMMA UploadFileCarries ==
    ASSUME IInv, Types, Carries, UploadFile
    PROVE  Carries'
<1>0. Fields /\ Uploads /\ Protocol
  BY DEF IInv, Carries
<1>1. PICK w, i, x, l : w = Files(form.tiles) /\ i = form.sent + 1 /\ x = w[i] /\ l = form.last
  OBVIOUS
<1>2. /\ form.pc = "uploading" /\ i \in 1..Len(w) /\ x \in Photos /\ l \in Submits
      /\ kind[x] \notin {"unsupported", "huge"}
      /\ staged' = staged \cup {<<x, l>>}
      /\ UNCHANGED <<req, media, kind, direct, faults>>
      /\ direct /\ req[l].pc = "none" /\ req[l].reply = NoAnswer
      /\ form.sent \in Nat /\ Len(w) \in Nat
  <2>1. i \in 1..Len(w) /\ form.sent \in Nat /\ Len(w) \in Nat
    BY <1>1, FormsRead DEF UploadFile
  <2>2. x \in Photos
    BY <1>1, <2>1, FormsRead
  <2>3. l \in Submits /\ form.pc = "uploading"
    BY <1>0, <1>1 DEF Fields, UploadFile
  <2>4. direct /\ req[l].pc = "none"
    BY <1>0, <1>1, <2>3 DEF Uploads
  <2>5. req[l].reply = NoAnswer
    BY <1>0, <2>3, <2>4 DEF Protocol
  <2>6. ToUpload = x
    BY <1>1 DEF ToUpload
  <2> QED
    BY <1>1, <2>1, <2>2, <2>3, <2>4, <2>5, <2>6 DEF UploadFile, otherVars
<1>3. form'.pc = form.pc /\ form'.tiles = form.tiles /\ form'.sent = i /\ form'.last = l
  <2>1. FormFields(form)
    BY <1>0 DEF Fields
  <2>2. form' = [form EXCEPT !.sent = i]
    BY <1>1 DEF UploadFile
  <2> QED
    BY <1>1, <2>1, <2>2 DEF FormFields
<1>4. (\A k \in Submits : UnderWay(req[k]) => Carried(req[k], k))'
  <2> SUFFICES ASSUME NEW k \in Submits PROVE (UnderWay(req[k]) => Carried(req[k], k))'
    OBVIOUS
  <2>1. PICK p : p = req'[k]
    OBVIOUS
  <2>2. UnderWay(p) => Carried(p, k)
    BY <1>2, <2>1 DEF Carries
  <2> QED
    BY <1>2, <2>1, <2>2, CarriedPrime
<1>5. OwnMedia'
  BY <1>2 DEF Carries, OwnMedia
<1>6. Uploads'
  <2>1. \A j \in Submits : req'[j].pc # "none" => j <= form'.last
    BY <1>0, <1>1, <1>2, <1>3 DEF Uploads
  <2>2. form'.sent <= Len(Files(form'.tiles)) /\ direct' /\ req'[form'.last].pc = "none"
    BY <1>1, <1>2, <1>3
  <2>3. ASSUME NEW f \in Photos, NEW j \in Submits, <<f, j>> \in staged'
        PROVE  /\ direct' /\ j <= form'.last
               /\ kind'[f] \notin {"unsupported", "huge"}
               /\ j = form'.last => \E m \in 1..form'.sent : f = Files(form'.tiles)[m]
               /\ req'[j].pc \in {"arrived", "insert", "load"} => f \in Range(req'[j].shown)
    <3>1. CASE <<f, j>> \in staged
      <4>1. \A m \in 1..form.sent : m \in 1..i
        BY <1>1, <1>2
      <4> QED
        BY <1>0, <1>1, <1>2, <1>3, <3>1, <4>1 DEF Uploads
    <3>2. CASE f = x /\ j = l
      <4>1. j <= l
        BY <3>2 DEF Submits
      <4> QED
        BY <1>1, <1>2, <1>3, <3>2, <4>1
    <3> QED
      BY <1>2, <2>3, <3>1, <3>2
  <2> QED
    BY <2>1, <2>2, <2>3 DEF Uploads
<1>7. FewLeft'
  <2>1. ~Strays(req[l], x)
    BY <1>2, FormAssumption DEF Strays
  <2>2. Left' = Left
    BY <1>2, <2>1, LeftPrime DEF Left
  <2> QED
    BY <1>0, <1>2, <2>2, FewLeftKept DEF Carries, Fields
<1> QED
  BY <1>4, <1>5, <1>6, <1>7 DEF Carries

\* When the names are all taken the order is the one of the form.
LEMMA AllTaken ==
    ASSUME NEW q, NEW k \in Submits, RequestOK(q), Carried(q, k), q.tokens = <<>>
    PROVE  q.ordered = AsShown(q, k)
<1>1. PICK s \in Seq(Tile) : s = q.shown /\ Distinct(s)
  BY DEF RequestOK
<1>2. Reached(q) = Len(s) /\ Len(s) \in Nat
  BY <1>1 DEF Reached
<1>3. PICK c, a : c = Cardinality(At(s, Staying(q))) /\ a = AsShown(q, k)
  OBVIOUS
<1>4. Len(q.ordered) = c
  <2>1. Number(s, Staying(q), Len(s) + 1) = c
    <3>1. Counts(s, Staying(q))
      BY NumberNext
    <3> QED
      BY <1>3, <3>1 DEF Counts
  <2> QED
    BY <1>1, <1>2, <2>1 DEF Carried, InOrder
<1>5. c \in Nat /\ a = [n \in 1..c |-> a[n]]
  BY <1>1, <1>3, ShownElements DEF Carried
<1>6. PICK o \in Seq(Media) : o = q.ordered
  BY DEF RequestOK
<1>7. o = [n \in 1..c |-> o[n]]
  <2>1. DOMAIN o = 1..c /\ o = [n \in DOMAIN o |-> o[n]]
    BY <1>4, <1>6
  <2> QED
    BY <2>1
<1>8. \A n \in 1..c : o[n] = a[n]
  BY <1>3, <1>4, <1>6 DEF Carried, InOrder
<1> QED
  BY <1>3, <1>5, <1>6, <1>7, <1>8

\* The rows a save inserts are of its own files.
LEMMA InsertedOwn ==
    ASSUME NEW q, NEW k \in Submits, RequestOK(q), Carried(q, k), q.tokens = <<>>,
           NEW m \in Inserted(q)
    PROVE  \E f \in Photos : m = <<f, k>>
<1>1. m \in Range(q.ordered) /\ q.loaded[m] = NoRow
  BY DEF Inserted
<1>2. PICK a : a = AsShown(q, k) /\ a = q.ordered
  BY AllTaken
<1>3. \A n \in DOMAIN a : \/ \E f \in Photos : a[n] = <<f, k>>
                          \/ a[n] \in Media /\ q.loaded[a[n]] # NoRow
  <2>1. q.shown \in Seq(Tile) /\ Distinct(q.shown) /\ ReadFrom(q, k)
    BY DEF Carried, RequestOK
  <2>2. \A n \in DOMAIN AsShown(q, k) :
           \/ \E f \in Photos : AsShown(q, k)[n] = <<f, k>>
           \/ AsShown(q, k)[n] \in Media /\ q.loaded[AsShown(q, k)[n]] # NoRow
    BY <2>1, ShownElements
  <2> QED
    BY <1>2, <2>2
<1> QED
  BY <1>1, <1>2, <1>3 DEF Range

LEMMA OwnMediaKept ==
    ASSUME IInv, Types, Carries, NEW k \in Submits, Serve(k), NEW n, Becoming(k, n)
    PROVE  OwnMedia'
<1>1. Fields /\ OwnMedia /\ RequestOK(req[k]) /\ (UnderWay(req[k]) => Carried(req[k], k))
  BY DEF IInv, Carries, Types
<1>2. CASE media' = media /\ req[k].pc # "done"
  BY <1>1, <1>2 DEF OwnMedia, Becoming
<1>3. ASSUME Commit(k), media' # media
      PROVE  OwnMedia'
  <2>1. PICK q : q = req[k] /\ q.pc = "commit" /\ Carried(q, k) /\ q.tokens = <<>>
    BY <1>1, <1>3 DEF Commit, UnderWay, Carried, Stage
  <2>2. \A m \in Media : media'[m] # NoRow => media[m] # NoRow \/ m \in Inserted(q)
    <3>1. media' = [m \in Media |->
                   IF m \in Inserted(q) THEN [product |-> q.row, position |-> Position(q, m)]
                   ELSE IF m \in Changed(q) THEN [media[m] EXCEPT !.position = Position(q, m)]
                   ELSE IF q.loaded[m] # NoRow /\ m \notin Range(q.ordered) THEN NoRow
                   ELSE media[m]]
          /\ ~Refused(q)
      BY <1>3, <2>1 DEF Commit
    <3>2. \A m \in Changed(q) : media[m] # NoRow
      BY <3>1 DEF Refused
    <3> QED
      BY <3>1, <3>2
  <2>3. req'[k].pc = "done"
    <3>1. PICK reply : req' = Done(k, reply)
      BY <1>3 DEF Commit
    <3>2. PICK p : Becoming(k, p) /\ AnsweredFields(p, req[k].row, <<>>, reply)
      BY <1>1, <3>1, DoneStep
    <3> QED
      BY <3>2 DEF Becoming, AnsweredFields
  <2>4. \A m \in Inserted(q) : \E f \in Photos : m = <<f, k>>
    BY <1>1, <2>1, InsertedOwn
  <2>5. ASSUME NEW f \in Photos, NEW j \in Submits, media'[<<f, j>>] # NoRow
        PROVE  req'[j].pc = "done"
    <3>1. <<f, j>> \in Media
      BY DEF Media
    <3>2. CASE j = k
      BY <2>3, <3>2
    <3>3. CASE j # k
      <4>1. media[<<f, j>>] # NoRow
        BY <2>2, <2>4, <2>5, <3>1, <3>3
      <4> QED
        BY <1>1, <3>3, <4>1 DEF OwnMedia, Becoming
    <3> QED
      BY <3>2, <3>3
  <2> QED
    BY <2>5 DEF OwnMedia
<1>4. req[k].pc # "done" /\ (media' = media \/ Commit(k))
  BY DEF Serve, Refuse, Accept, Insert, Load, Take, NamesTaken, Commit, Abort
<1> QED
  BY <1>2, <1>3, <1>4

LEMMA InitCarries == Init => Carries
<1> SUFFICES ASSUME Init PROVE Carries
  OBVIOUS
<1>1. \A k \in Submits : req[k].pc = "none"
  <2>1. NotSent.pc = "none"
    BY DEF NotSent
  <2> QED
    BY <2>1 DEF Init
<1>2. OwnMedia
  <2>1. \A m \in Media : m \notin Old => media[m] = NoRow
    BY DEF Init
  <2>2. \A f \in Photos, k \in Submits : <<f, k>> \in Media \ Old
    BY FormAssumption DEF Media
  <2> QED
    BY <2>1, <2>2 DEF OwnMedia
<1>3. form.pc = "editing" /\ staged = {} /\ faults = MaxFaults
  BY DEF Init
<1>4. Uploads
  BY <1>1, <1>3 DEF Uploads
<1>5. FewLeft
  <2>1. Left = {}
    BY <1>3 DEF Left
  <2> QED
    BY <1>3, <2>1, FS_EmptySet, FormAssumption DEF FewLeft
<1> QED
  BY <1>1, <1>2, <1>4, <1>5 DEF Carries, UnderWay

LEMMA NextCarries == IInv /\ IInv' /\ Types /\ Carries /\ [Next]_vars => Carries'
<1> SUFFICES ASSUME IInv, IInv', Types, Carries, [Next]_vars PROVE Carries'
  OBVIOUS
<1>1. /\ Fields /\ FormFields(form) /\ faults' \in 0..MaxFaults /\ faults \in 0..MaxFaults
      /\ MaxFaults \in Nat /\ MaxSubmits \in Nat /\ form.last \in 0..MaxSubmits
  BY FormAssumption DEF IInv, Fields
<1>2. CASE UNCHANGED vars
  BY <1>1, <1>2, QuietCarries DEF vars
<1>3. CASE List \/ Delete \/ Expire
  <2>1. UNCHANGED <<kind, direct, staged, req, form>> /\ faults' <= faults
    BY <1>1, <1>3 DEF List, Delete, Expire, serverVars, Fault
  <2>2. \A m \in Media : media'[m] # NoRow => media[m] # NoRow
    <3>1. CASE Delete
      BY <3>1 DEF Delete
    <3>2. CASE List \/ Expire
      BY <3>2 DEF List, Expire, serverVars
    <3> QED
      BY <1>3, <3>1, <3>2
  <2> QED
    BY <1>1, <2>1, <2>2, QuietCarries
<1>4. CASE AddFile \/ RemoveTile \/ MoveTile \/ UploadRefused \/ GiveUp \/ \E k \in Submits : Answer(k)
  <2>1. UNCHANGED <<kind, direct, staged, req, media>> /\ faults' <= faults
    BY <1>1, <1>4 DEF AddFile, RemoveTile, MoveTile, Arrange, UploadRefused, GiveUp, Answer,
            serverVars, otherVars, Fault
  <2>2. form'.last = form.last /\ form'.pc # "uploading"
    <3>1. CASE \E tiles : Arrange(tiles)
      <4>1. PICK tiles : form' = [form EXCEPT !.tiles = tiles] /\ form.pc = "editing"
        BY <3>1 DEF Arrange
      <4> QED
        BY <1>1, <4>1 DEF FormFields
    <3>2. CASE UploadRefused \/ GiveUp
      <4>1. form' = [form EXCEPT !.pc = "editing"]
        BY <3>2 DEF UploadRefused, GiveUp
      <4> QED
        BY <1>1, <4>1 DEF FormFields
    <3>3. ASSUME NEW k \in Submits, Answer(k)
          PROVE  form'.last = form.last /\ form'.pc # "uploading"
      <4>1. CASE \E pc \in {"left", "editing"} : form' = [form EXCEPT !.pc = pc]
        BY <1>1, <4>1 DEF FormFields
      <4>2. ASSUME NEW product, NEW tiles, form' = Opened(product, tiles)
            PROVE  form'.last = form.last /\ form'.pc # "uploading"
        BY <1>1, <4>2 DEF FormFields, Opened
      <4>3. ASSUME NEW product, NEW tiles, form' = Edited(product, tiles)
            PROVE  form'.last = form.last /\ form'.pc # "uploading"
        <5>1. PICK x, y : x = Opened(product, tiles) /\ y = products[product].published
          OBVIOUS
        <5>2. FormFields(x) /\ x.last = form.last /\ x.pc = "editing"
          BY <1>1, <5>1 DEF FormFields, Opened
        <5>3. form' = [x EXCEPT !.published = y]
          BY <4>3, <5>1 DEF Edited
        <5> QED
          BY <5>2, <5>3 DEF FormFields
      <4>4. \/ \E pc \in {"left", "editing"} : form' = [form EXCEPT !.pc = pc]
            \/ \E product, tiles : form' = Opened(product, tiles)
            \/ \E product, tiles : form' = Edited(product, tiles)
        BY <3>3 DEF Answer
      <4> QED
        BY <4>1, <4>2, <4>3, <4>4
    <3> QED
      BY <1>4, <3>1, <3>2, <3>3 DEF AddFile, RemoveTile, MoveTile
  <2> QED
    BY <1>1, <2>1, <2>2, QuietCarries
<1>5. CASE UploadFile
  BY <1>5, UploadFileCarries
<1>6. CASE Uploaded
  <2>1. /\ form.pc = "uploading" /\ form.sent = Len(Files(form.tiles)) /\ SendForm(form.last)
        /\ form' = [form EXCEPT !.pc = "posted"]
        /\ UNCHANGED <<kind, direct, staged, media, faults>>
    BY <1>6 DEF Uploaded, otherVars
  <2>2. form'.pc = "posted" /\ form'.last = form.last
    BY <1>1, <2>1 DEF FormFields
  <2>3. form.last \in Submits /\ req[form.last].pc = "none"
    BY <1>1, <2>1 DEF Fields, Carries, Uploads
  <2>4. \A f \in Photos : <<f, form.last>> \in staged => f \in Range(form.tiles)
    BY <2>1, <2>3, FormsRead DEF Carries, Uploads
  <2>5. \A j \in 1..(form.last - 1) : j <= form.last
    BY <1>1
  <2>6. PICK k \in Submits : k = form.last
    BY <2>3
  <2> QED
    BY <1>1, <2>1, <2>2, <2>3, <2>4, <2>5, <2>6, SendCarries
<1>7. CASE Submit
  <2>1. PICK last, pc : last = form.last + 1 /\ pc = IF direct THEN "uploading" ELSE "posted"
    OBVIOUS
  <2>2. /\ form.pc = "editing" /\ last \in Submits
        /\ form' = [form EXCEPT !.last = last, !.sent = 0, !.pc = pc]
        /\ UNCHANGED <<kind, direct, staged, media, faults>>
    BY <1>1, <1>7, <2>1 DEF Submit, otherVars, Submits
  <2>3. form'.pc = pc /\ form'.tiles = form.tiles /\ form'.sent = 0 /\ form'.last = last
    BY <1>1, <2>2 DEF FormFields
  <2>4. req[last].pc = "none"
    <3>1. ~(last <= form.last)
      BY <1>1, <2>1
    <3> QED
      BY <2>2, <3>1 DEF Carries, Uploads
  <2>5. CASE ~direct
    <3>1. SendForm(last) /\ pc = "posted"
      BY <1>7, <2>1, <2>5 DEF Submit
    <3>2. \A f \in Photos : <<f, last>> \notin staged
      BY <2>2, <2>5 DEF Carries, Uploads
    <3>3. form.last <= last /\ \A j \in 1..(last - 1) : j <= form.last
      BY <1>1, <2>1
    <3> QED
      BY <1>1, <2>2, <2>3, <2>4, <3>1, <3>2, <3>3, SendCarries
  <2>6. CASE direct
    <3>1. UNCHANGED req /\ pc = "uploading"
      BY <1>7, <2>1, <2>6 DEF Submit
    <3>2. (\A k \in Submits : UnderWay(req[k]) => Carried(req[k], k))'
      <4> SUFFICES ASSUME NEW k \in Submits PROVE (UnderWay(req[k]) => Carried(req[k], k))'
        OBVIOUS
      <4>1. PICK p : p = req'[k]
        OBVIOUS
      <4>2. UnderWay(p) => Carried(p, k)
        BY <3>1, <4>1 DEF Carries
      <4> QED
        BY <2>2, <4>1, <4>2, CarriedPrime
    <3>3. OwnMedia'
      BY <2>2, <3>1 DEF Carries, OwnMedia
    <3>4. Uploads'
      <4>1. \A j \in Submits : j <= form.last => j <= last /\ j # last
        BY <1>1, <2>1 DEF Submits
      <4>2. 0 <= Len(Files(form.tiles))
        BY FormsRead
      <4>3. \A j \in Submits : req'[j].pc # "none" => j <= form'.last
        BY <2>3, <3>1, <4>1 DEF Carries, Uploads
      <4>4. form'.sent <= Len(Files(form'.tiles)) /\ direct' /\ req'[form'.last].pc = "none"
        BY <2>2, <2>3, <2>4, <2>6, <3>1, <4>2
      <4>5. ASSUME NEW f \in Photos, NEW j \in Submits, <<f, j>> \in staged'
            PROVE  /\ direct' /\ j <= form'.last /\ j # form'.last
                   /\ kind'[f] \notin {"unsupported", "huge"}
                   /\ req'[j].pc \in {"arrived", "insert", "load"} => f \in Range(req'[j].shown)
        BY <2>2, <2>3, <3>1, <4>1, <4>5 DEF Carries, Uploads
      <4> QED
        BY <4>3, <4>4, <4>5 DEF Uploads
    <3>5. FewLeft'
      <4>1. Left' = Left
        BY <2>2, <3>1, LeftPrime DEF Left
      <4> QED
        BY <1>1, <2>2, <4>1, FewLeftKept DEF Carries
    <3> QED
      BY <3>2, <3>3, <3>4, <3>5 DEF Carries
  <2> QED
    BY <2>5, <2>6
<1>8. ASSUME NEW k \in Submits, Serve(k) PROVE Carries'
  <2>1. /\ FewLeft' /\ staged' \subseteq staged
        /\ req[k].pc \notin {"none", "done"}
    BY <1>1, <1>8, ServedCarries
  <2>2. PICK n : Becoming(k, n) /\ Continued(k, n)
    BY <1>1, <1>8, ServedCarries
  <2>3. UNCHANGED <<kind, direct, form>>
    BY <1>8 DEF Serve, Refuse, Accept, Insert, Load, Take, NamesTaken, Commit, Abort, otherVars
  <2>4. (\A j \in Submits : UnderWay(req[j]) => Carried(req[j], j))'
    BY <2>2, <2>3, OthersCarried DEF Carries, Continued
  <2>5. OwnMedia'
    BY <1>8, <2>2, OwnMediaKept
  <2>6. Uploads'
    <3>1. form'.pc = "uploading" => form.last \in Submits
      BY <1>1, <2>3 DEF Fields
    <3>2. \A j \in Submits :
              /\ req'[j].pc # "none" => req[j].pc # "none"
              /\ req'[j].pc \in {"arrived", "insert", "load"} =>
                    /\ req[j].pc \in {"arrived", "insert", "load"}
                    /\ req'[j].shown = req[j].shown
      BY <2>1, <2>2 DEF Becoming, Continued
    <3> QED
      BY <2>1, <2>3, <3>1, <3>2, UploadsKept DEF Carries
  <2> QED
    BY <2>1, <2>4, <2>5, <2>6 DEF Carries
<1> QED
  BY <1>2, <1>3, <1>4, <1>5, <1>6, <1>7, <1>8 DEF Next, Browse

\* A save that was answered has left no original in the staging area, whatever
\* became of its files, but one for each deletion that failed.
THEOREM NoStrays == Spec => []NoStrayOriginals
<1>1. IInv /\ Types /\ Carries => NoStrayOriginals
  <2> SUFFICES ASSUME IInv, Types, Carries PROVE NoStrayOriginals
    OBVIOUS
  <2> DEFINE S == {o \in staged : req[o[2]].reply \in {"list", "edit"}}
             L == Left
  <2>1. S \in SUBSET L
    BY DEF Left, Strays
  <2>2. L \in SUBSET (Photos \X Submits) /\ Cardinality(L) <= MaxFaults - faults
    BY DEF Left, Types, Carries, FewLeft
  <2>3. IsFiniteSet(Photos \X Submits)
    <3>1. IsFiniteSet(Submits)
      BY FormAssumption, FS_Interval DEF Submits
    <3> QED
      BY <3>1, FormAssumption, FS_Product
  <2>4. MaxFaults - faults \in Int
    BY FormAssumption DEF IInv, Fields
  <2>5. Cardinality(S) <= MaxFaults - faults
    <3> HIDE DEF S, L
    <3>1. IsFiniteSet(L) /\ Cardinality(L) \in Nat
      BY <2>2, <2>3, FS_Subset, FS_CardinalityType
    <3>2. Cardinality(S) <= Cardinality(L) /\ Cardinality(S) \in Nat
      BY <2>1, <3>1, FS_Subset, FS_CardinalityType
    <3> QED
      BY <2>2, <2>4, <3>1, <3>2
  <2> QED
    BY <2>5 DEF NoStrayOriginals
<1> QED
  BY InitInv, InitTypes, InitCarries, NextInv, NextTypes, NextCarries, <1>1, PTL DEF Spec

\* Media at the places of an order are in that order and no other.
LEMMA OneGallery ==
    ASSUME NEW table, NEW p, NEW o \in Seq(Media), Distinct(o), RowsOf(table, p) = Range(o),
           \A i \in DOMAIN o : table[o[i]].position = i - 1
    PROVE  Galleries(table, p) = {o}
<1> DEFINE K == Range(o)
           R == {z \in Media \X Media : table[z[1]].position < table[z[2]].position}
<1>1. IsFiniteSet(K) /\ o \in SetToSeqs(K)
  BY Enumerates
<1>2. DOMAIN o = 1..Len(o) /\ K \subseteq Media
  BY DEF Range
<1>3. \A x \in K : \E i \in DOMAIN o : o[i] = x
  BY DEF Range
<1> HIDE DEF K
<1>4. \A x \in K : table[x].position \in Nat
  BY <1>2, <1>3
<1>5. \A x, y \in K : table[x].position = table[y].position => x = y
  <2> SUFFICES ASSUME NEW x \in K, NEW y \in K, table[x].position = table[y].position PROVE x = y
    OBVIOUS
  <2>1. PICK i \in DOMAIN o : o[i] = x
    BY <1>3
  <2>2. PICK j \in DOMAIN o : o[j] = y
    BY <1>3
  <2>3. i - 1 = j - 1
    BY <2>1, <2>2
  <2> QED
    BY <1>2, <2>1, <2>2, <2>3
<1>6. Orders(R, K)
  <2>1. \A x \in K : x \in Media
    BY <1>2
  <2>2. ASSUME NEW x \in K, NEW y \in K
        PROVE  <<x, y>> \in R <=> table[x].position < table[y].position
    BY <2>1
  <2> HIDE DEF R
  <2>3. \A x \in K : <<x, x>> \notin R
    BY <1>4, <2>2
  <2>4. \A x, y, z \in K : <<x, y>> \in R /\ <<y, z>> \in R => <<x, z>> \in R
    <3> SUFFICES ASSUME NEW x \in K, NEW y \in K, NEW z \in K,
                        <<x, y>> \in R, <<y, z>> \in R
                 PROVE  <<x, z>> \in R
      OBVIOUS
    <3>1. table[x].position < table[y].position
      BY <2>2
    <3>2. table[y].position < table[z].position
      BY <2>2
    <3>3. table[x].position \in Nat /\ table[y].position \in Nat /\ table[z].position \in Nat
      BY <1>4
    <3>4. table[x].position < table[z].position
      BY <3>1, <3>2, <3>3
    <3> QED
      BY <2>2, <3>4
  <2>5. \A x, y \in K : x # y => <<x, y>> \in R \/ <<y, x>> \in R
    BY <1>4, <1>5, <2>2
  <2> QED
    BY <2>3, <2>4, <2>5 DEF Orders
<1>7. \A s, t \in SetToSeqs(K) : Rising(R, s) /\ Rising(R, t) => s = t
  <2> HIDE DEF R
  <2> QED
    BY <1>1, <1>6, Sorting
<1>8. Rising(R, o)
  <2> SUFFICES ASSUME NEW i \in DOMAIN o, NEW j \in DOMAIN o, i < j PROVE <<o[i], o[j]>> \in R
    BY DEF Rising
  <2>1. o[i] \in Media /\ o[j] \in Media
    OBVIOUS
  <2>2. table[o[i]].position < table[o[j]].position
    BY <1>2
  <2> QED
    BY <2>1, <2>2
<1>9. Galleries(table, p) = {s \in SetToSeqs(K) :
          \A k, l \in DOMAIN s : k < l => table[s[k]].position <= table[s[l]].position}
  BY DEF Galleries, K
<1>10. o \in Galleries(table, p)
  <2>1. \A k, l \in DOMAIN o : k < l => table[o[k]].position <= table[o[l]].position
    BY <1>2
  <2> QED
    BY <1>1, <1>9, <2>1
<1>11. ASSUME NEW s \in Galleries(table, p) PROVE Rising(R, s)
  <2>1. s \in SetToSeqs(K)
    BY <1>9
  <2>2. s \in Seq(K) /\ Distinct(s)
    BY <1>1, <2>1, Enumerations
  <2> SUFFICES ASSUME NEW i \in DOMAIN s, NEW j \in DOMAIN s, i < j PROVE <<s[i], s[j]>> \in R
    BY DEF Rising
  <2>3. DOMAIN s = 1..Len(s) /\ s[i] \in K /\ s[j] \in K
    BY <2>2
  <2>4. s[i] # s[j]
    BY <2>2, <2>3 DEF Distinct
  <2>5. table[s[i]].position <= table[s[j]].position
    BY <1>9
  <2>6. table[s[i]].position < table[s[j]].position
    <3>1. table[s[i]].position \in Nat /\ table[s[j]].position \in Nat
      BY <1>4, <2>3
    <3>2. table[s[i]].position # table[s[j]].position
      BY <1>5, <2>3, <2>4
    <3> QED
      BY <2>5, <3>1, <3>2
  <2> QED
    BY <1>2, <2>3, <2>6
<1>12. ASSUME NEW s \in Galleries(table, p) PROVE s = o
  <2>1. s \in SetToSeqs(K)
    BY <1>9
  <2> HIDE DEF R
  <2> QED
    BY <1>1, <1>7, <1>8, <1>11, <2>1
<1> QED
  BY <1>10, <1>12

\* The rows that the save of a request writes, and that nobody wrote to the rows
\* of its product since they were read.
SavedMedia(q) ==
    [m \in Media |->
        IF m \in Inserted(q) THEN [product |-> q.row, position |-> Position(q, m)]
        ELSE IF m \in Changed(q) THEN [media[m] EXCEPT !.position = Position(q, m)]
        ELSE IF q.loaded[m] # NoRow /\ m \notin Range(q.ordered) THEN NoRow
        ELSE media[m]]

Untouched(q) ==
    \A m \in Media : m \in RowsOf(media, q.row) \/ q.loaded[m] # NoRow
                       => media[m] = q.loaded[m]

\* What became of a medium in a save that nobody interfered with.
SavedRow(q, m) ==
    /\ m \in Range(q.ordered) =>
         /\ media'[m] # NoRow /\ media'[m].product = q.row
         /\ media'[m].position = Position(q, m)
    /\ m \notin Range(q.ordered) => m \notin RowsOf(media', q.row)

\* The rows of a save that nobody interferes with.
LEMMA SavedRows ==
    ASSUME Types, NEW k \in Submits, NEW q, q = req[k], Commit(k), ~Refused(q), Carried(q, k),
           q.row \in Alive \/ Inserted(q) = {},
           media' = SavedMedia(q),
           Untouched(q), NEW m \in Media
    PROVE  SavedRow(q, m)
<1>1. RequestOK(q) /\ q.loaded \in MediaTable /\ media \in MediaTable /\ q.ordered \in Seq(Media)
      /\ ReadFrom(q, k)
  BY DEF Types, RequestOK, MediaOK, Carried
<1>2. PICK n : n = Position(q, m)
  OBVIOUS
<1>3. m \in Range(q.ordered) => n \in Nat
  BY <1>1, <1>2, PositionType
<1>4. CASE m \in Range(q.ordered) /\ q.loaded[m] = NoRow
  <2>1. m \in Inserted(q)
    BY <1>4 DEF Inserted
  <2>2. q.row \in Ids
    BY <2>1 DEF Alive
  <2>3. PICK row : row = [product |-> q.row, position |-> n]
    OBVIOUS
  <2>4. row \in MediaRow /\ row.product = q.row /\ row.position = n
    BY <1>3, <1>4, <2>2, <2>3 DEF MediaRow
  <2>5. media'[m] = row
    BY <1>2, <2>1, <2>3 DEF SavedMedia
  <2> QED
    BY <1>2, <1>4, <2>4, <2>5, FormAssumption DEF SavedRow
<1>5. CASE m \in Range(q.ordered) /\ q.loaded[m] # NoRow
  <2>1. m \notin Inserted(q)
    BY <1>5 DEF Inserted
  <2>2. PICK row : row = q.loaded[m] /\ row = media[m] /\ row \in MediaRow /\ row.product = q.row
    BY <1>1, <1>5 DEF MediaTable, ReadFrom, Untouched
  <2>3. CASE m \in Changed(q)
    <3>1. media'[m] = [row EXCEPT !.position = n]
      BY <1>2, <2>1, <2>2, <2>3 DEF SavedMedia
    <3>2. PICK r : r = [row EXCEPT !.position = n]
      OBVIOUS
    <3>3. r \in MediaRow /\ r.product = q.row /\ r.position = n
      BY <1>3, <1>5, <2>2, <3>2 DEF MediaRow
    <3> QED
      BY <1>2, <1>5, <3>1, <3>2, <3>3, FormAssumption DEF SavedRow
  <2>4. CASE m \notin Changed(q)
    <3>1. media'[m] = row
      BY <1>5, <2>1, <2>2, <2>4 DEF SavedMedia
    <3>2. row.position = n
      BY <1>2, <1>5, <2>2, <2>4 DEF Changed
    <3> QED
      BY <1>2, <1>5, <2>2, <3>1, <3>2, FormAssumption DEF SavedRow
  <2> QED
    BY <2>3, <2>4
<1>6. CASE m \notin Range(q.ordered)
  <2>1. m \notin Inserted(q) /\ m \notin Changed(q)
    BY <1>6 DEF Inserted, Changed
  <2>2. media'[m] = IF q.loaded[m] # NoRow THEN NoRow ELSE media[m]
    BY <1>6, <2>1 DEF SavedMedia
  <2>3. m \in RowsOf(media, q.row) <=> media[m] # NoRow /\ media[m].product = q.row
    BY DEF RowsOf
  <2>4. m \in RowsOf(media', q.row) => media'[m] # NoRow /\ media'[m].product = q.row
    BY DEF RowsOf
  <2> QED
    BY <1>6, <2>2, <2>3, <2>4 DEF SavedRow, Untouched
<1> QED
  BY <1>4, <1>5, <1>6

LEMMA SavedGallery ==
    ASSUME IInv, Types, Carries, NEW k \in Submits, Commit(k),
           req'[k].reply \in {"list", "edit"},
           \A m \in Media : m \in RowsOf(media, req[k].row) \/ req[k].loaded[m] # NoRow
                               => media[m] = req[k].loaded[m]
    PROVE  Galleries(media', req[k].row) = {AsShown(req[k], k)}
<1>1. PICK q : q = req[k]
  OBVIOUS
<1>2. Fields /\ RequestOK(q) /\ q.pc = "commit" /\ Carried(q, k) /\ q.tokens = <<>>
      /\ q.ordered \in Seq(Media) /\ Distinct(q.ordered)
  BY <1>1 DEF IInv, Carries, Types, Commit, UnderWay, Carried, Stage, RequestOK
<1>3. q.ordered = AsShown(q, k)
  BY <1>2, AllTaken
<1>4. ~(req' = Done(k, "error"))
  <2> SUFFICES ASSUME req' = Done(k, "error") PROVE FALSE
    OBVIOUS
  <2>1. PICK n : Becoming(k, n) /\ AnsweredFields(n, q.row, <<>>, "error")
    BY <1>1, <1>2, DoneStep
  <2> QED
    BY <2>1 DEF Becoming, AnsweredFields
<1>5. /\ ~Refused(q)
      /\ media' = SavedMedia(q)
  BY <1>1, <1>4 DEF Commit, SavedMedia
<1>6. q.row \in Alive \/ Inserted(q) = {}
  BY <1>5 DEF Refused
<1>7. \A m \in Media : SavedRow(q, m)
  <2>1. Untouched(q)
    BY <1>1 DEF Untouched
  <2> SUFFICES ASSUME NEW m \in Media PROVE SavedRow(q, m)
    OBVIOUS
  <2> QED
    BY <1>1, <1>2, <1>5, <1>6, <2>1, SavedRows
<1>8. PICK o \in Seq(Media) : o = q.ordered /\ Distinct(o)
  BY <1>2
<1>9. RowsOf(media', q.row) = Range(o)
  <2>1. \A m \in Range(o) : m \in Media
    BY DEF Range
  <2> QED
    BY <1>7, <1>8, <2>1 DEF RowsOf, SavedRow
<1>10. \A i \in DOMAIN o : media'[o[i]].position = i - 1
  <2> SUFFICES ASSUME NEW i \in DOMAIN o PROVE media'[o[i]].position = i - 1
    OBVIOUS
  <2>1. o[i] \in Range(o) /\ o[i] \in Media
    BY DEF Range
  <2>2. Position(q, o[i]) \in Nat /\ Position(q, o[i]) + 1 \in DOMAIN o
        /\ o[Position(q, o[i]) + 1] = o[i]
    BY <1>2, <1>8, <2>1, PositionType
  <2>3. Position(q, o[i]) + 1 = i
    BY <1>8, <2>2 DEF Distinct
  <2>4. Position(q, o[i]) = i - 1
    BY <2>2, <2>3
  <2> QED
    BY <1>7, <1>8, <2>1, <2>4 DEF SavedRow
<1>11. ASSUME NEW table, RowsOf(table, q.row) = Range(o),
              \A i \in DOMAIN o : table[o[i]].position = i - 1
       PROVE  Galleries(table, q.row) = {o}
  BY <1>8, <1>11, OneGallery
<1>12. Galleries(media', q.row) = {o}
  BY <1>9, <1>10, <1>11
<1> QED
  BY <1>1, <1>3, <1>8, <1>12

\* A save that nobody interferes with leaves the gallery the owner arranged: the
\* files, which travel apart from the order and of which some are refused, are
\* each at the place of their tile.
THEOREM SavesHold == Spec => SavedAsShown
<1> DEFINE Act == \A k \in Submits : LET q == req[k] IN
        Saves(k) /\ (\A m \in Media : m \in RowsOf(media, q.row) \/ q.loaded[m] # NoRow
                                         => media[m] = q.loaded[m])
          => Galleries(media', q.row) = {AsShown(q, k)}
<1>1. IInv /\ Types /\ Carries /\ [Next]_vars => [Act]_vars
  <2> SUFFICES ASSUME IInv, Types, Carries, [Next]_vars, NEW k \in Submits, Saves(k),
                      \A m \in Media : m \in RowsOf(media, req[k].row) \/ req[k].loaded[m] # NoRow
                                         => media[m] = req[k].loaded[m]
               PROVE  Galleries(media', req[k].row) = {AsShown(req[k], k)}
    OBVIOUS
  <2>1. Fields /\ req[k].pc = "commit" /\ req'[k].reply \in {"list", "edit"}
    BY DEF IInv, Saves
  <2>2. req[k].reply \notin {"list", "edit"}
    BY <2>1, FormAssumption DEF IInv, Protocol
  <2>3. req'[k] # req[k]
    BY <2>1, <2>2
  <2>4. Serve(k)
    <3>1. CASE SendForm(k)
      <4>1. PICK n : Becoming(k, n) /\ n.reply = NoAnswer
        BY <2>1, <3>1, SendStep
      <4>2. req'[k].reply = NoAnswer
        BY <4>1 DEF Becoming
      <4> QED
        BY <2>1, <4>2, FormAssumption
    <3> QED
      BY <2>1, <2>3, <3>1, OwnSteps
  <2>5. Commit(k)
    <3>1. CASE Abort(k)
      <4>1. PICK n : Becoming(k, n) /\ AnsweredFields(n, req[k].row, <<>>, "error")
        BY <2>1, <3>1, DoneStep DEF Abort
      <4> QED
        BY <2>1, <4>1 DEF Becoming, AnsweredFields
    <3> QED
      BY <2>1, <2>4, <3>1 DEF Serve, Refuse, Accept, Insert, Load, Take, NamesTaken
  <2> QED
    BY <2>1, <2>5, SavedGallery
<1>2. SavedAsShown <=> [][Act]_vars
  BY PTL DEF SavedAsShown
<1> QED
  BY InitInv, InitTypes, InitCarries, NextInv, NextTypes, NextCarries, <1>1, <1>2, PTL DEF Spec
=============================================================================
