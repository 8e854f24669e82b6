------------------------------- MODULE Catalog -------------------------------
(***************************************************************************)
(* Categories, products with their barcodes, bookings of products, and the *)
(* posters for scan and go.  A list is read outside a transaction, one     *)
(* table after the other, and commands may come in between; a command is   *)
(* one transaction and carries the version its author read.  Names, icons  *)
(* and images are left out; catalog permissions are in Roles.              *)
(***************************************************************************)
EXTENDS Integers, FiniteSets, FiniteSetsExt

CONSTANTS
  Categories, Products,   \* identifiers, never used twice
  Codes,                  \* scanned codes: [format, number]
  Prices,                 \* of products; 0 is a price the buyer names
  Positions,              \* what editors send as sortOrder, 0 among it when they omit it
  Clients,                \* readers of lists
  MaxCatalogVersion, MaxBookings   \* bounds

ASSUME CatalogAssumption ==
  /\ IsFiniteSet(Categories) /\ IsFiniteSet(Products)
  /\ Prices \subseteq Nat /\ Positions \subseteq Int /\ {MaxCatalogVersion, MaxBookings} \subseteq Nat

VARIABLES
  category,   \* rows of categories
  product,    \* rows of products with their product_barcodes
  booked,     \* bookings: the product, its category, the price shown and the price charged
  list,       \* per client: the catalog being read or on the screen
  poster,     \* a custom row of kiosk_posters with its products
  template    \* the poster in an editor

catalogVars == <<category, product, booked, list, poster, template>>

NoList == [phase |-> "NONE"]

CatalogInit ==
  /\ category = [c \in Categories |-> [status |-> "NONE", order |-> 0, version |-> 0]]
  /\ product = [p \in Products |->
       [status |-> "NONE", category |-> CHOOSE c \in Categories : TRUE, price |-> 0, order |-> 0, codes |-> {},
        version |-> 0]]
  /\ booked = {}
  /\ list = [c \in Clients |-> NoList]
  /\ poster = [version |-> 0, products |-> {}]
  /\ template = NoList

Present == {c \in Categories : category[c].status \in {"ACTIVE", "ARCHIVED"}}
Visible == {p \in Products : product[p].status \in {"ACTIVE", "ARCHIVED"}}
Shelf(c) == {p \in Visible : product[p].category = c}
Bookable(p) == product[p].status = "ACTIVE" /\ category[product[p].category].status = "ACTIVE"

\* UPC and EAN spellings of one number have the same key.
BarcodeKey(code) == <<IF code.format = "CODE_128" THEN "CODE128" ELSE "GTIN", code.number>>
NormalizeBarcodes(codes) == \A a, b \in codes : BarcodeKey(a) = BarcodeKey(b) => a = b
OwnerElsewhere(p, codes) ==
  \E q \in Products \ {p}, a \in codes : \E b \in product[q].codes : BarcodeKey(a) = BarcodeKey(b)

-----------------------------------------------------------------------------
(* List: categories, then products, then barcodes.                         *)

ListCategories(c) ==
  /\ list[c].phase = "NONE"
  /\ list' = [list EXCEPT ![c] =
       [phase |-> "CATEGORIES", shown |-> Present, category |-> [k \in Present |-> category[k]]]]
  /\ UNCHANGED <<category, product, booked, poster, template>>

ListProducts(c) ==
  /\ list[c].phase = "CATEGORIES"
  /\ LET items == {p \in Visible : product[p].category \in list[c].shown}
     IN  list' = [list EXCEPT ![c] =
           [phase |-> "PRODUCTS", category |-> list[c].category, shown |-> list[c].shown, items |-> items,
            product |-> [p \in items |-> [product[p] EXCEPT !.codes = {}]]]]
  /\ UNCHANGED <<category, product, booked, poster, template>>

ListBarcodes(c) ==
  /\ list[c].phase = "PRODUCTS"
  /\ list' = [list EXCEPT ![c].phase = "LOADED",
       ![c].product = [p \in list[c].items |-> [list[c].product[p] EXCEPT !.codes = product[p].codes]]]
  /\ UNCHANGED <<category, product, booked, poster, template>>

CloseList(c) ==
  /\ list[c].phase = "LOADED"
  /\ list' = [list EXCEPT ![c] = NoList]
  /\ UNCHANGED <<category, product, booked, poster, template>>

OnScreen(c, p) == list[c].phase = "LOADED" /\ p \in list[c].items
CategoryOnScreen(c, k) == list[c].phase = "LOADED" /\ k \in list[c].shown

-----------------------------------------------------------------------------
(* Commands.                                                               *)

ValidateProductPricing(price) == price \in Prices

\* Behind those that are there, from 0 on.
Behind(positions) == IF positions = {} THEN 0 ELSE Max(positions) + 1

CreateProduct(p, k, price, codes) ==
  /\ product[p].status = "NONE"
  /\ k \in Present
  /\ ValidateProductPricing(price) /\ NormalizeBarcodes(codes)
  /\ ~OwnerElsewhere(p, codes)
  /\ product' = [product EXCEPT ![p] =
       [status |-> "ACTIVE", category |-> k, price |-> price, codes |-> codes, version |-> 1,
        order |-> Behind({product[q].order : q \in Shelf(k)})]]
  /\ UNCHANGED <<category, booked, list, poster, template>>

\* The position is stored as it was sent.
UpdateProduct(c, p, price, codes, status, order) ==
  LET seen == list[c].product[p]
  IN  /\ OnScreen(c, p)
      /\ p \in Visible /\ product[p].version = seen.version
      /\ product[p].version < MaxCatalogVersion
      /\ ValidateProductPricing(price) /\ NormalizeBarcodes(codes)
      /\ ~OwnerElsewhere(p, codes)
      /\ product' = [product EXCEPT ![p] =
           [status |-> status, category |-> product[p].category, price |-> price, codes |-> codes,
            version |-> product[p].version + 1, order |-> order]]
      /\ UNCHANGED <<category, booked, list, poster, template>>

\* The editor sends back what it shows with one change, and some position.
EditPrice(c, p, price, order) ==
  UpdateProduct(c, p, price, list[c].product[p].codes, list[c].product[p].status, order)
EditCodes(c, p, codes, order) ==
  UpdateProduct(c, p, list[c].product[p].price, codes, list[c].product[p].status, order)
EditActive(c, p, status, order) ==
  UpdateProduct(c, p, list[c].product[p].price, list[c].product[p].codes, status, order)

SetProductImage(p) ==
  /\ p \in Visible
  /\ product[p].version < MaxCatalogVersion
  /\ product' = [product EXCEPT ![p].version = @ + 1]
  /\ UNCHANGED <<category, booked, list, poster, template>>

\* A booked product leaves a tombstone; its codes are free again.
DeleteProduct(c, p) ==
  /\ OnScreen(c, p)
  /\ p \in Visible /\ product[p].version = list[c].product[p].version
  /\ product[p].status = "ARCHIVED"
  /\ product' = [product EXCEPT
       ![p].status = IF \E b \in booked : b.product = p THEN "TOMBSTONE" ELSE "GONE",
       ![p].codes = {}, ![p].version = @ + 1]
  /\ UNCHANGED <<category, booked, list, poster, template>>

UpdateCategory(c, k, status, order) ==
  /\ CategoryOnScreen(c, k)
  /\ k \in Present /\ category[k].version = list[c].category[k].version
  /\ category[k].version < MaxCatalogVersion
  /\ category' = [category EXCEPT ![k] = [status |-> status, order |-> order, version |-> category[k].version + 1]]
  /\ UNCHANGED <<product, booked, list, poster, template>>

CreateCategory(k) ==
  /\ category[k].status = "NONE"
  /\ category' = [category EXCEPT ![k] =
       [status |-> "ACTIVE", order |-> Behind({category[d].order : d \in Present}), version |-> 1]]
  /\ UNCHANGED <<product, booked, list, poster, template>>

\* Bookings refer to their category, and so keep it; a tombstone needs none
\* of its own check.
DeleteCategory(c, k) ==
  /\ CategoryOnScreen(c, k)
  /\ k \in Present /\ category[k].version = list[c].category[k].version
  /\ category[k].status = "ARCHIVED"
  /\ Shelf(k) = {}
  /\ \A b \in booked : b.category # k
  /\ category' = [category EXCEPT ![k].status = "GONE"]
  /\ UNCHANGED <<product, booked, list, poster, template>>

\* Mutant of Positioned: a new position keeps the version.
PositionedQuietly(row, position) == [row EXCEPT !.order = position]

\* Rows that stay where they are keep their version.
Positioned(row, position) ==
  IF row.order = position THEN row ELSE [row EXCEPT !.order = position, !.version = @ + 1]

\* The complete order from a screen, be it out of date: the sets of
\* categories and products must still be the same.
Reorder(c, order, shelf) ==
  /\ list[c].phase = "LOADED"
  /\ Present = list[c].shown /\ Visible = list[c].items
  /\ \A k \in Present : category[k].version < MaxCatalogVersion
  /\ \A p \in Visible : product[p].version < MaxCatalogVersion
  /\ category' = [k \in Categories |-> IF k \in Present THEN Positioned(category[k], order[k]) ELSE category[k]]
  /\ product' = [p \in Products |-> IF p \in Visible THEN Positioned(product[p], shelf[p]) ELSE product[p]]
  /\ UNCHANGED <<booked, list, poster, template>>

CategoryOrders == {f \in [Present -> 0 .. Cardinality(Present) - 1] : \A k, l \in Present : f[k] = f[l] => k = l}
ShelfOrders ==
  {f \in [Visible -> 0 .. Cardinality(Visible) - 1] :
     \A p \in Visible :
       /\ f[p] < Cardinality(Shelf(product[p].category))
       /\ \A q \in Shelf(product[p].category) : f[p] = f[q] => p = q}

\* loadBookingDetails: the version the buyer saw, and a price of the buyer's
\* own exactly for products without one.
CreateBooking(c, p, named) ==
  LET seen == list[c].product[p]
  IN  /\ Cardinality(booked) < MaxBookings
      /\ OnScreen(c, p)
      /\ Bookable(p)
      /\ product[p].version = seen.version
      /\ (named # 0) = (product[p].price = 0)
      /\ (named # 0) = (seen.price = 0)
      /\ booked' = booked \cup
           {[product |-> p, category |-> product[p].category,
             shown |-> IF seen.price = 0 THEN named ELSE seen.price,
             charged |-> IF product[p].price = 0 THEN named ELSE product[p].price]}
      /\ UNCHANGED <<category, product, list, poster, template>>

-----------------------------------------------------------------------------
(* Posters: a custom one, in the order of the code's checks.               *)

ValidateActiveProducts(ps) == ps # {} /\ \A p \in ps : Bookable(p)

CreatePoster(ps) ==
  /\ poster.version = 0
  /\ ValidateActiveProducts(ps)
  /\ poster' = [version |-> 1, products |-> ps]
  /\ UNCHANGED <<category, product, booked, list, template>>

\* The template's row first, its products in a second query.
ListPosters ==
  /\ template.phase = "NONE"
  /\ poster.version > 0
  /\ template' = [phase |-> "ROW", version |-> poster.version]
  /\ UNCHANGED <<category, product, booked, list, poster>>

PosterProductIDs ==
  /\ template.phase = "ROW"
  /\ template' = [phase |-> "LOADED", version |-> template.version, products |-> poster.products]
  /\ UNCHANGED <<category, product, booked, list, poster>>

\* By the editor with the template, or by another with a current one.
UpdatePoster(ps, version) ==
  /\ poster.version > 0 /\ poster.version = version
  /\ version < MaxCatalogVersion
  /\ ValidateActiveProducts(ps)
  /\ poster' = [version |-> version + 1, products |-> ps]
  /\ UNCHANGED <<category, product, booked, list, template>>

DeletePoster ==
  /\ template.phase = "LOADED"
  /\ poster.version > 0 /\ poster.version = template.version
  /\ poster' = [version |-> -1, products |-> {}]
  /\ template' = NoList
  /\ UNCHANGED <<category, product, booked, list>>

ClientStep(c) ==
  \/ ListCategories(c) \/ ListProducts(c) \/ ListBarcodes(c) \/ CloseList(c)
  \/ \E p \in {q \in Products : OnScreen(c, q)} :
       \/ \E price \in Prices, order \in Positions : EditPrice(c, p, price, order)
       \/ \E codes \in SUBSET Codes, order \in Positions : EditCodes(c, p, codes, order)
       \/ \E status \in {"ACTIVE", "ARCHIVED"}, order \in Positions : EditActive(c, p, status, order)
       \/ DeleteProduct(c, p)
       \/ \E named \in 0 .. 1 : CreateBooking(c, p, named)
  \/ \E k \in Categories : DeleteCategory(c, k)
  \/ \E k \in Categories, s \in {"ACTIVE", "ARCHIVED"}, order \in Positions : UpdateCategory(c, k, s, order)
  \/ \E order \in CategoryOrders, shelf \in ShelfOrders : Reorder(c, order, shelf)

CatalogStep(clients, categories, products) ==
  \/ \E c \in clients : ClientStep(c)
  \/ \E p \in products, k \in categories, price \in Prices, codes \in SUBSET Codes : CreateProduct(p, k, price, codes)
  \/ \E p \in products : SetProductImage(p)
  \/ \E k \in categories : CreateCategory(k)

PosterStep ==
  \/ \E ps \in SUBSET Products :
       \/ CreatePoster(ps)
       \/ UpdatePoster(ps, poster.version)
       \/ template.phase = "LOADED" /\ UpdatePoster(ps, template.version)
  \/ ListPosters \/ PosterProductIDs \/ DeletePoster

CatalogSpec == CatalogInit /\ [][CatalogStep(Clients, Categories, Products) \/ PosterStep]_catalogVars
-----------------------------------------------------------------------------
\* However edits, reorderings, reads and bookings interleave: who has the
\* current version of a category, a product or a poster on the screen sees it
\* as it is, position and barcodes included, so a booking charges the price
\* that was shown (loadBookingDetails) and an edit is refused to whoever has
\* not seen the last change, a reordering included (UpdateProduct,
\* UpdateCategory, Reorder); a code leads to one visible product
\* (replaceProductBarcodes, DeleteProduct); and bookings and tombstones keep
\* their category (DeleteCategory).
CatalogConsistent ==
  /\ \A c \in Clients : list[c].phase = "LOADED" =>
       /\ \A k \in list[c].shown \cap Present :
            list[c].category[k].version = category[k].version => list[c].category[k] = category[k]
       /\ \A p \in list[c].items :
            list[c].product[p].version = product[p].version => list[c].product[p] = product[p]
  /\ template.phase = "LOADED" /\ template.version = poster.version => template.products = poster.products
  /\ \A b \in booked : b.shown = b.charged
  /\ \A p \in Products : product[p].codes # {} => p \in Visible /\ ~OwnerElsewhere(p, product[p].codes)
  /\ \A b \in booked : category[b.category].status # "GONE" /\ product[b.product].status # "GONE"
  /\ \A p \in Products : p \in Visible \/ product[p].status = "TOMBSTONE" => product[p].category \in Present
=============================================================================
