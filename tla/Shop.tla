-------------------------------- MODULE Shop --------------------------------
(***************************************************************************)
(* The online shop of src/api/src/routes/shop.rs: its listings, their      *)
(* photos and the bags that buy them.                                      *)
(*                                                                         *)
(* Admins edit from several tabs.  Each handler is a few statements with   *)
(* no transaction around them; Postgres keeps the foreign keys and the     *)
(* unique index on listed scents.  An edit carries the whole listing.      *)
(***************************************************************************)
EXTENDS Naturals, FiniteSets

CONSTANTS
    Listings, Photos, ShopScents,   \* bounds: the rows that may ever exist
    Bags,       \* checkout requests, one cart each
    Tabs,       \* admin requests at a time
    Edits,      \* bound: what admins send
    None

ASSUME NoneAssumption == None \notin Listings \union Photos \union ShopScents

VARIABLES
    listing,    \* listing[l]: the row in shop_products
    photo,      \* photo[i]: the row in shop_images
    onSale,     \* the scents that are active and have a price
    tab,        \* tab[t]: an admin's request and what it has read
    bag         \* bag[b]: the lines priced, then the lines of the cart

vars == <<listing, photo, onSale, tab, bag>>

Face == {"shown", "soldout", "hidden"}
Listing ==
    [state : {"none", "live", "archived", "deleted"}, face : Face,
     scent : ShopScents \union {None}, photo : Photos \union {None}]
Edit == [face : Face, scent : ShopScents \union {None}, photo : Photos \union {None}]
ASSUME EditsAssumption == Edits \subseteq Edit

Tab ==
    [pc : {"idle"}]
    \union [pc : {"create"}, edit : Edit]
    \union [pc : {"update"}, l : Listings, edit : Edit, had : Photos \union {None}]
    \union [pc : {"remove"}, l : Listings, had : Photos \union {None}, sold : BOOLEAN]
    \union [pc : {"drop"}, had : Photos \union {None}]
Bag == [pc : {"none", "priced", "cart", "failed"}, lines : SUBSET Listings]

NoListing == [state |-> "none", face |-> "hidden", scent |-> None, photo |-> None]
Idle == [pc |-> "idle"]
Row(edit) == [state |-> "live", face |-> edit.face, scent |-> edit.scent, photo |-> edit.photo]

Live(l) == listing[l].state = "live"
Stored == {i \in Photos : photo[i] \in {"new", "old"}}
Used(i) == \E l \in Listings : listing[l].state \in {"live", "archived"} /\ listing[l].photo = i

\* Types, and what Postgres keeps: photos that are used are there, and a scent
\* has one live listing.
TypeOK ==
    /\ listing \in [Listings -> Listing]
    /\ photo \in [Photos -> {"none", "new", "old", "gone"}]
    /\ onSale \in SUBSET ShopScents
    /\ tab \in [Tabs -> Tab]
    /\ bag \in [Bags -> Bag]
    /\ \A i \in Photos : Used(i) => i \in Stored
    /\ \A l, m \in Listings :
         Live(l) /\ Live(m) /\ listing[l].scent = listing[m].scent /\ l # m
           => listing[l].scent = None

Init ==
    /\ listing = [l \in Listings |-> NoListing]
    /\ photo = [i \in Photos |-> "none"]
    /\ onSale = ShopScents
    /\ tab = [t \in Tabs |-> Idle]
    /\ bag = [b \in Bags |-> [pc |-> "none", lines |-> {}]]

Done(t) == tab' = [tab EXCEPT ![t] = Idle]

-----------------------------------------------------------------------------
(* Photos.                                                                 *)

\* A day has passed since the upload.
Age(i) ==
    /\ photo[i] = "new"
    /\ photo' = [photo EXCEPT ![i] = "old"]
    /\ UNCHANGED <<listing, onSale, tab, bag>>

\* upload_image: sweeps what was abandoned, then stores a photo with a new id.
Upload(i) ==
    /\ photo[i] = "none"
    /\ photo' = [j \in Photos |-> IF j = i THEN "new"
                                  ELSE IF photo[j] = "old" /\ ~Used(j) THEN "gone" ELSE photo[j]]
    /\ UNCHANGED <<listing, onSale, tab, bag>>

\* Mutant of Droppable: only listings on the page count.
DroppableIfNotLive(i) == i \in Stored /\ ~\E l \in Listings : Live(l) /\ listing[l].photo = i

\* drop_image_if_unused: archived listings count.
Droppable(i) == i \in Stored /\ ~Used(i)

DropPhoto(t) ==
    /\ tab[t].pc = "drop"
    /\ photo' = [i \in Photos |-> IF i = tab[t].had /\ Droppable(i) THEN "gone" ELSE photo[i]]
    \* The key is "on delete set null".
    /\ listing' = [l \in Listings |->
         IF listing[l].photo # None /\ photo'[listing[l].photo] = "gone"
         THEN [listing[l] EXCEPT !.photo = None] ELSE listing[l]]
    /\ Done(t)
    /\ UNCHANGED <<onSale, bag>>

-----------------------------------------------------------------------------
(* Listings.                                                               *)

\* clean: the photo is still there.
Clean(edit) == edit.photo \in Stored \union {None}

\* The keys and the index allow row to stand as listing l.
Allowed(l, row) ==
    /\ row.photo \in Stored \union {None}
    /\ row.scent # None => \A m \in Listings \ {l} : Live(m) => listing[m].scent # row.scent

StartCreate(t, edit) ==
    /\ tab[t] = Idle
    /\ Clean(edit)
    /\ tab' = [tab EXCEPT ![t] = [pc |-> "create", edit |-> edit]]
    /\ UNCHANGED <<listing, photo, onSale, bag>>

\* create; refused by the keys when the photo is gone or the scent is listed.
Create(t, l) ==
    /\ tab[t].pc = "create"
    /\ listing[l].state = "none"
    /\ listing' = IF Allowed(l, Row(tab[t].edit))
                  THEN [listing EXCEPT ![l] = Row(tab[t].edit)] ELSE listing
    /\ Done(t)
    /\ UNCHANGED <<photo, onSale, bag>>

\* The first half of update: the edit is checked and the photo it replaces is read.
StartUpdate(t, l, edit) ==
    /\ tab[t] = Idle
    /\ Clean(edit)
    /\ Live(l)
    /\ tab' = [tab EXCEPT ![t] =
         [pc |-> "update", l |-> l, edit |-> edit, had |-> listing[l].photo]]
    /\ UNCHANGED <<listing, photo, onSale, bag>>

Updates(l) == Live(l)

\* The rest of update: only a listing that is still live is written, and a photo
\* that was replaced is dropped next.
Update(t) ==
    /\ tab[t].pc = "update"
    /\ LET l == tab[t].l
           row == Row(tab[t].edit)
       IN IF Updates(l) /\ ~Allowed(l, row)
          THEN Done(t) /\ UNCHANGED listing
          ELSE /\ listing' = IF Updates(l) THEN [listing EXCEPT ![l] = row] ELSE listing
               /\ tab' = [tab EXCEPT ![t] =
                    IF tab[t].had # row.photo THEN [pc |-> "drop", had |-> tab[t].had] ELSE Idle]
    /\ UNCHANGED <<photo, onSale, bag>>

OnACart(l) == \E b \in Bags : bag[b].pc = "cart" /\ l \in bag[b].lines

\* The first half of remove: the photo, and whether the listing was ever sold.
StartRemove(t, l) ==
    /\ tab[t] = Idle
    /\ Live(l)
    /\ tab' = [tab EXCEPT ![t] =
         [pc |-> "remove", l |-> l, had |-> listing[l].photo, sold |-> OnACart(l)]]
    /\ UNCHANGED <<listing, photo, onSale, bag>>

Archived(row) == [row EXCEPT !.state = "archived", !.face = "hidden"]
Deleted(row) == [NoListing EXCEPT !.state = "deleted"]

\* Mutant of Deletable: no key from the lines of a cart to the listing.
DeletableAlways(l) == TRUE

\* cart_items.shop_product_id.
Deletable(l) == ~OnACart(l)

\* A listing that was sold is archived and keeps its photo.
Archive(t) ==
    /\ tab[t].pc = "remove" /\ tab[t].sold
    /\ listing' = [listing EXCEPT ![tab[t].l] =
         IF @.state = "deleted" THEN @ ELSE Archived(@)]
    /\ Done(t)
    /\ UNCHANGED <<photo, onSale, bag>>

\* One that was not is deleted, unless a bag was paid for meanwhile: then the
\* request fails.
Delete(t) ==
    /\ tab[t].pc = "remove" /\ ~tab[t].sold
    /\ IF Deletable(tab[t].l)
       THEN /\ listing' = [listing EXCEPT ![tab[t].l] = Deleted(@)]
            /\ tab' = [tab EXCEPT ![t] = [pc |-> "drop", had |-> tab[t].had]]
       ELSE Done(t) /\ UNCHANGED listing
    /\ UNCHANGED <<photo, onSale, bag>>

\* The admin left between two statements, or the server restarted.
Leave(t) ==
    /\ tab[t] # Idle
    /\ Done(t)
    /\ UNCHANGED <<listing, photo, onSale, bag>>

\* scents::update: switched on or off, priced or not.
SetOnSale(s) ==
    /\ onSale' \in {onSale \union {s}, onSale \ {s}}
    /\ UNCHANGED <<listing, photo, tab, bag>>

-----------------------------------------------------------------------------
(* Bags.                                                                   *)

\* public_product: what the page shows.
Visible(l) ==
    /\ Live(l) /\ listing[l].face # "hidden"
    /\ listing[l].scent # None => listing[l].scent \in onSale

\* The bag is priced line by line from the catalogue.
PriceBag(b, lines) ==
    /\ bag[b].pc = "none"
    /\ lines # {}
    /\ \A l \in lines : Visible(l) /\ listing[l].face # "soldout"
    /\ bag' = [bag EXCEPT ![b] = [pc |-> "priced", lines |-> lines]]
    /\ UNCHANGED <<listing, photo, onSale, tab>>

\* The transaction of checkout; a listing deleted meanwhile refuses its line,
\* and with it the cart.
WriteCart(b) ==
    /\ bag[b].pc = "priced"
    /\ bag' = [bag EXCEPT ![b].pc =
         IF \A l \in bag[b].lines : listing[l].state \in {"live", "archived"}
         THEN "cart" ELSE "failed"]
    /\ UNCHANGED <<listing, photo, onSale, tab>>

Next ==
    \/ \E i \in Photos : Age(i) \/ Upload(i)
    \/ \E t \in Tabs :
         \/ \E edit \in Edits : StartCreate(t, edit) \/ \E l \in Listings : StartUpdate(t, l, edit)
         \/ \E l \in Listings : Create(t, l) \/ StartRemove(t, l)
         \/ Update(t) \/ Archive(t) \/ Delete(t) \/ DropPhoto(t) \/ Leave(t)
    \/ \E s \in ShopScents : SetOnSale(s)
    \/ \E b \in Bags : WriteCart(b) \/ \E lines \in SUBSET Listings : PriceBag(b, lines)

Spec == Init /\ [][Next]_vars

-----------------------------------------------------------------------------
(* Properties.                                                             *)

\* What was bought can be looked up: the listing of every line of a cart is
\* there, whatever admins remove while the bag is being checked out.
SoldIsListed ==
    \A b \in Bags : bag[b].pc = "cart" =>
      \A l \in bag[b].lines : listing[l].state \in {"live", "archived"}

\* An archived listing stays as it was, photo included, whatever edits of it
\* were under way (remove: "the sales history stays intact").
ArchivedForGood ==
    [][\A l \in Listings : listing[l].state = "archived" => listing'[l] = listing[l]]_vars
=============================================================================
