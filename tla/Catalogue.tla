------------------------------- MODULE Catalogue -------------------------------
(***************************************************************************)
(* What the bar sells: ingredients, house scents with their formulas and   *)
(* prices, and package deals (src/api/src/routes/ingredients.rs,           *)
(* scents.rs, bundles.rs and their deletions), and how intake turns a      *)
(* package into priced lines (routes/intake.rs, pricing.rs).               *)
(*                                                                         *)
(* Money is in cents.  A formula gives amounts in ten-thousandths of a     *)
(* millilitre, what the column can hold.                                   *)
(***************************************************************************)
EXTENDS Integers, Sequences, FiniteSets, SequencesExt, FiniteSetsExt

CONSTANTS
    Ingredients, Scents, Packages, Sales,   \* bounds: the rows that may ever exist
    Sizes,
    Desks,          \* requests at a time
    Formulas,       \* bound: the formulas admins send
    ScentEdits,     \* bound: what admins send to scents::update
    Deals,          \* bound: the price and the items of a package
    Nothing, Same      \* no value; the field is not in the request

ASSUME NothingAssumption == Nothing \notin Int

BASE_FORMULA_ML == 1000000

VARIABLES
    ingredient,     \* ingredient[g]: the row in ingredients
    scent,          \* scent[s]: the row in scents and its scent_items
    package,        \* package[p]: the row in bundles and its bundle_items
    sale,           \* sale[x]: the lines an intake recorded
    desk            \* desk[d]: a request, and what it has read

catalogueVars == <<ingredient, scent, package, sale, desk>>

Empty == << >>      \* a formula without ingredients
Price == [Sizes -> Nat \union {Nothing}]
Item == [scent : Scents, size : Sizes, quantity : Nat \ {0}]
Deal == [price : Nat, items : Seq(Item)]
ASSUME DealsAssumption == Deals \subseteq Deal
Line == [scent : Scents, size : Sizes, quantity : Nat \ {0}, unit : Int \union {Nothing}]
ScentEdit ==
    [active : BOOLEAN \union {Same}, formula : Formulas \union {Empty, Same},
     prices : Price \union {Same}]
ASSUME ScentEditsAssumption == ScentEdits \subseteq ScentEdit

Scent == [is : {"none", "off", "on", "gone"}, formula : Formulas \union {Empty}, prices : Price]
Package == [is : {"none", "offered", "withdrawn", "gone"}, price : Nat, items : Seq(Item)]
Sale == [is : {"none"}] \union [is : {"lead"}, p : Packages \union {Nothing}, price : Nat, lines : Seq(Line)]
Desk ==
    [pc : {"idle"}]
    \union [pc : {"edit"}, s : Scents, edit : ScentEdit]
    \union [pc : {"delete scent"}, s : Scents]
    \union [pc : {"delete ingredient"}, g : Ingredients]
    \union [pc : {"delete package"}, p : Packages]
    \union [pc : {"package"}, p : Packages, price : Nat]
    \union [pc : {"items"}, p : Packages, price : Nat, items : Seq(Item)]
    \union [pc : {"lines"}, p : Packages \union {Nothing}, price : Nat, lines : Seq(Line)]

NoPrices == [z \in Sizes |-> Nothing]
NoScent == [is |-> "none", formula |-> Empty, prices |-> NoPrices]
NoPackage == [is |-> "none", price |-> 0, items |-> << >>]
NoSale == [is |-> "none"]
NoRequest == [pc |-> "idle"]

Exists(s) == scent[s].is \in {"off", "on"}
Made(f) == {g \in Ingredients : g \in DOMAIN f}
OnSales(s) == {x \in Sales : sale[x].is = "lead" /\ \E l \in Range(sale[x].lines) : l.scent = s}
InPackages(s) == {p \in Packages : \E i \in Range(package[p].items) : i.scent = s}
SoldAs(p) == {x \in Sales : sale[x].is = "lead" /\ sale[x].p = p}
UsedIn(g) == {s \in Scents : g \in Made(scent[s].formula)}

\* Types, and no formula names an ingredient, no package a scent, that is gone.
CatalogueTypeOK ==
    /\ ingredient \in [Ingredients -> {"none", "off", "on", "gone"}]
    /\ scent \in [Scents -> Scent]
    /\ DOMAIN package = Packages /\ \A p \in Packages : package[p] \in Package
    /\ DOMAIN sale = Sales /\ \A x \in Sales : sale[x] \in Sale
    /\ DOMAIN desk = Desks /\ \A d \in Desks : desk[d] \in Desk
    /\ \A s \in Scents : \A g \in Made(scent[s].formula) : ingredient[g] \in {"off", "on"}
    /\ \A p \in Packages : \A i \in Range(package[p].items) : Exists(i.scent)

CatalogueInit ==
    /\ ingredient = [g \in Ingredients |-> "none"]
    /\ scent = [s \in Scents |-> NoScent]
    /\ package = [p \in Packages |-> NoPackage]
    /\ sale = [x \in Sales |-> NoSale]
    /\ desk = [d \in Desks |-> NoRequest]

Goto(d, req) == desk' = [desk EXCEPT ![d] = req]

\* The request is refused, or its connection is lost.
Refused(d) ==
    /\ desk[d] # NoRequest
    /\ Goto(d, NoRequest)
    /\ UNCHANGED <<ingredient, scent, package, sale>>

-----------------------------------------------------------------------------
(* Ingredients.                                                            *)

CreateIngredient(g) ==
    /\ ingredient[g] = "none"
    /\ ingredient' = [ingredient EXCEPT ![g] = "on"]
    /\ UNCHANGED <<scent, package, sale, desk>>

SwitchIngredient(g) ==
    /\ ingredient[g] \in {"off", "on"}
    /\ ingredient' = [ingredient EXCEPT ![g] = IF @ = "on" THEN "off" ELSE "on"]
    /\ UNCHANGED <<scent, package, sale, desk>>

StartDeleteIngredient(d, g) ==
    /\ desk[d] = NoRequest
    /\ ingredient[g] \in {"off", "on"}
    /\ UsedIn(g) = {}
    /\ Goto(d, [pc |-> "delete ingredient", g |-> g])
    /\ UNCHANGED <<ingredient, scent, package, sale>>

\* The key of scent_items.
Unused(g) == UsedIn(g) = {}

DeleteIngredient(d) ==
    /\ desk[d].pc = "delete ingredient"
    /\ Unused(desk[d].g)
    /\ ingredient' = [ingredient EXCEPT ![desk[d].g] = "gone"]
    /\ Goto(d, NoRequest)
    /\ UNCHANGED <<scent, package, sale>>

-----------------------------------------------------------------------------
(* Scents.                                                                 *)

\* check_formula_total: half of the last place per ingredient is allowed.
FormulaTotals(f) ==
    LET total == FoldFunctionOnSet(LAMBDA x, y : x + y, 0, f, DOMAIN f)
        off == IF total > BASE_FORMULA_ML THEN total - BASE_FORMULA_ML ELSE BASE_FORMULA_ML - total
    IN f # Empty /\ 2 * off <= Cardinality(DOMAIN f)

\* validate_formula, with assert_active_ingredients.
ValidFormula(f) ==
    f # Empty => FormulaTotals(f) /\ \A g \in Made(f) : ingredient[g] = "on"

Keyed(f) == \A g \in Made(f) : ingredient[g] \in {"off", "on"}

\* create: a scent without a formula starts switched off.
CreateScent(s, f) ==
    /\ scent[s].is = "none"
    /\ ValidFormula(f)
    /\ scent' = [scent EXCEPT ![s] = [is |-> IF f = Empty THEN "off" ELSE "on", formula |-> f, prices |-> NoPrices]]
    /\ UNCHANGED <<ingredient, package, sale, desk>>

\* A scent that will be on needs a formula to be switched on, and may not lose it.
MayEdit(row, edit) ==
    LET on == IF edit.active = Same THEN row.is = "on" ELSE edit.active
        after == IF edit.formula = Same THEN row.formula ELSE edit.formula
    IN on /\ (row.is = "off" \/ edit.formula = Empty) => after # Empty

\* update reads whether the scent is on and how long its formula is.
StartEdit(d, s, edit) ==
    /\ desk[d] = NoRequest
    /\ Exists(s)
    /\ edit.formula # Same => ValidFormula(edit.formula)
    /\ MayEdit(scent[s], edit)
    /\ Goto(d, [pc |-> "edit", s |-> s, edit |-> edit])
    /\ UNCHANGED <<ingredient, scent, package, sale>>

Edited(row, edit) ==
    [is |-> IF edit.active = Same THEN row.is ELSE IF edit.active THEN "on" ELSE "off",
     formula |-> IF edit.formula = Same THEN row.formula ELSE edit.formula,
     prices |-> IF edit.prices = Same THEN row.prices ELSE edit.prices]

\* The rest of update, which does not look at the scent again: of two edits at
\* a time one may clear the formula and the other switch the scent on.
FinishEdit(d) ==
    /\ desk[d].pc = "edit"
    /\ LET s == desk[d].s
           edit == desk[d].edit
       IN /\ Exists(s)
          /\ edit.formula # Same => Keyed(edit.formula)
          /\ scent' = [scent EXCEPT ![s] = Edited(@, edit)]
    /\ Goto(d, NoRequest)
    /\ UNCHANGED <<ingredient, package, sale>>

StartDeleteScent(d, s) ==
    /\ desk[d] = NoRequest
    /\ Exists(s)
    /\ OnSales(s) = {} /\ InPackages(s) = {}
    /\ Goto(d, [pc |-> "delete scent", s |-> s])
    /\ UNCHANGED <<ingredient, scent, package, sale>>

\* delete_scent takes its formula along; the keys of orders and packages hold.
DeleteScent(d) ==
    /\ desk[d].pc = "delete scent"
    /\ LET s == desk[d].s
       IN /\ Exists(s)
          /\ OnSales(s) = {} /\ InPackages(s) = {}
          /\ scent' = [scent EXCEPT ![s] = [NoScent EXCEPT !.is = "gone"]]
    /\ Goto(d, NoRequest)
    /\ UNCHANGED <<ingredient, package, sale>>

-----------------------------------------------------------------------------
(* Packages.                                                               *)

\* create and update; an update may withdraw the package or offer it again.
WritePackage(p, deal, is) ==
    /\ package[p].is # "gone"
    /\ package[p].is = "none" => is = "offered"
    /\ \A i \in Range(deal.items) : Exists(i.scent)
    /\ package' = [package EXCEPT ![p] = [is |-> is, price |-> deal.price, items |-> deal.items]]
    /\ UNCHANGED <<ingredient, scent, sale, desk>>

StartDeletePackage(d, p) ==
    /\ desk[d] = NoRequest
    /\ package[p].is \in {"offered", "withdrawn"}
    /\ SoldAs(p) = {}
    /\ Goto(d, [pc |-> "delete package", p |-> p])
    /\ UNCHANGED <<ingredient, scent, package, sale>>

\* Mutant of Unsold: what delete saw is all there is.
UnsoldWhenSeen(p) == TRUE

\* The key orders.bundle_id.
Unsold(p) == SoldAs(p) = {}

DeletePackage(d) ==
    /\ desk[d].pc = "delete package"
    /\ package[desk[d].p].is \in {"offered", "withdrawn"}
    /\ Unsold(desk[d].p)
    /\ package' = [package EXCEPT ![desk[d].p] = [NoPackage EXCEPT !.is = "gone"]]
    /\ Goto(d, NoRequest)
    /\ UNCHANGED <<ingredient, scent, sale>>

-----------------------------------------------------------------------------
(* Intake.                                                                 *)

\* assert_sellable_scent
Sellable(s) == scent[s].is = "on" /\ FormulaTotals(scent[s].formula)

\* resolve_line, for a set perfume; its price comes with the order.
StartLine(d, s, size, quantity) ==
    /\ desk[d] = NoRequest
    /\ Sellable(s)
    /\ Goto(d, [pc |-> "lines", p |-> Nothing, price |-> 0,
                lines |-> <<[scent |-> s, size |-> size, quantity |-> quantity, unit |-> Nothing]>>])
    /\ UNCHANGED <<ingredient, scent, package, sale>>

\* resolve_bundle reads the package, then its items, then what they cost.
StartPackage(d, p) ==
    /\ desk[d] = NoRequest
    /\ package[p].is = "offered"
    /\ Goto(d, [pc |-> "package", p |-> p, price |-> package[p].price])
    /\ UNCHANGED <<ingredient, scent, package, sale>>

ReadItems(d) ==
    /\ desk[d].pc = "package"
    /\ LET items == package[desk[d].p].items
       IN /\ items # << >>
          /\ Goto(d, [pc |-> "items", p |-> desk[d].p, price |-> desk[d].price, items |-> items])
    /\ UNCHANGED <<ingredient, scent, package, sale>>

Total(parts) ==
    LET sum[n \in 0..Len(parts)] == IF n = 0 THEN 0 ELSE sum[n - 1] + parts[n]
    IN sum[Len(parts)]

\* Mutant of SplitPrice: the cents that division leaves over are forgotten.
SplitPriceDown(total, weights) ==
    LET n == Len(weights)
        sum == Total(weights)
    IN [i \in 1..n |-> IF sum <= 0 THEN total \div n ELSE (total * weights[i]) \div sum]

\* split_bundle_price: by weight, rounded down, and what is left over goes to the
\* last of the heaviest; evenly when nothing has a weight.
SplitPrice(total, weights) ==
    LET n == Len(weights)
        sum == Total(weights)
        share == [i \in 1..n |-> IF sum <= 0 THEN total \div n ELSE (total * weights[i]) \div sum]
        heaviest == IF sum <= 0 THEN 1
                    ELSE Max({i \in 1..n : \A j \in 1..n : weights[j] <= weights[i]})
    IN [share EXCEPT ![heaviest] = @ + total - Total(share)]

\* catalog_price; what has no price weighs nothing.
Weight(item) ==
    LET unit == scent[item.scent].prices[item.size]
    IN IF unit = Nothing THEN 0 ELSE unit * item.quantity

\* The unit amount of a line is its part divided by its bottles, rounded down.
ResolvePackage(d) ==
    /\ desk[d].pc = "items"
    /\ LET items == desk[d].items
           part == SplitPrice(desk[d].price, [i \in DOMAIN items |-> Weight(items[i])])
       IN /\ \A i \in Range(items) : Sellable(i.scent)
          /\ Goto(d, [pc |-> "lines", p |-> desk[d].p, price |-> desk[d].price,
                      lines |-> [i \in DOMAIN items |->
                        [scent |-> items[i].scent, size |-> items[i].size,
                         quantity |-> items[i].quantity, unit |-> part[i] \div items[i].quantity]]])
    /\ UNCHANGED <<ingredient, scent, package, sale>>

Priced(line) ==
    IF line.unit = Nothing THEN [line EXCEPT !.unit = scent[line.scent].prices[line.size]] ELSE line

\* The transaction of intake; refused when a scent or the package is gone.
Record(d, x) ==
    /\ desk[d].pc = "lines"
    /\ sale[x].is = "none"
    /\ \A l \in Range(desk[d].lines) : Exists(l.scent)
    /\ desk[d].p # Nothing => package[desk[d].p].is \in {"offered", "withdrawn"}
    /\ sale' = [sale EXCEPT ![x] =
         [is |-> "lead", p |-> desk[d].p, price |-> desk[d].price,
          lines |-> [i \in DOMAIN desk[d].lines |-> Priced(desk[d].lines[i])]]]
    /\ Goto(d, NoRequest)
    /\ UNCHANGED <<ingredient, scent, package>>

CatalogueNext ==
    \/ \E g \in Ingredients : CreateIngredient(g) \/ SwitchIngredient(g)
    \/ \E s \in Scents, f \in Formulas \union {Empty} : CreateScent(s, f)
    \/ \E p \in Packages, deal \in Deals, is \in {"offered", "withdrawn"} : WritePackage(p, deal, is)
    \/ \E d \in Desks :
         \/ Refused(d) \/ FinishEdit(d) \/ DeleteIngredient(d) \/ DeleteScent(d) \/ DeletePackage(d)
         \/ ReadItems(d) \/ ResolvePackage(d)
         \/ \E g \in Ingredients : StartDeleteIngredient(d, g)
         \/ \E s \in Scents : StartDeleteScent(d, s) \/ \E edit \in ScentEdits : StartEdit(d, s, edit)
         \/ \E p \in Packages : StartDeletePackage(d, p) \/ StartPackage(d, p)
         \/ \E s \in Scents, size \in Sizes : StartLine(d, s, size, 2)
         \/ \E x \in Sales : Record(d, x)

CatalogueSpec == CatalogueInit /\ [][CatalogueNext]_catalogueVars

-----------------------------------------------------------------------------
(* Properties.                                                             *)

\* The scents of every order, the ingredients to pour them with and its package
\* are on file, whatever admins delete while the order is taken (bundles.rs: "so
\* those orders keep their history").
HistoryIsReadable ==
    \A x \in Sales : sale[x].is = "lead" =>
      /\ \A l \in Range(sale[x].lines) :
           Exists(l.scent) /\ \A g \in Made(scent[l.scent].formula) : ingredient[g] \in {"off", "on"}
      /\ sale[x].p # Nothing => package[sale[x].p].is \in {"offered", "withdrawn"}

\* A package costs what intake read, short of less than a cent for each bottle
\* after the first of a line, and never more, whatever its parts cost.
PackagesAddUp ==
    \A x \in Sales : sale[x].is = "lead" /\ sale[x].p # Nothing =>
      LET lines == sale[x].lines
          charged == Total([i \in DOMAIN lines |-> lines[i].unit * lines[i].quantity])
          bottles == Total([i \in DOMAIN lines |-> lines[i].quantity - 1])
      IN charged <= sale[x].price /\ sale[x].price <= charged + bottles
=============================================================================
