----------------------------- MODULE Catalogue ------------------------------
(***************************************************************************)
(* The catalogue of filaments and resins, and the spools and bottles that  *)
(* are entered from it (materials/catalog.ts, validate.ts, lifecycle.ts,   *)
(* the catalog and materials routes).  A product belongs to the system or  *)
(* to one user; users see the system's and their own.  A handler is one    *)
(* chain of database calls: requests interleave, their statements do not.  *)
(*                                                                         *)
(* Of a row's data the colours are kept: how many there are, and whether   *)
(* the client wrote them in capitals.  A refused request changes nothing   *)
(* and is no step.                                                         *)
(***************************************************************************)
EXTENDS Listing

CONSTANTS System,      \* owner_id NULL
          ProductIds,  \* ids of products
          PostKeys,    \* Idempotency-Keys of POST /materials
          Colorings,   \* how many colours, and how written, clients send
          Fashions,    \* patterns that they send
          Entries,     \* bodies of POST /materials
          MaxCalls     \* bound: requests that may change something

ASSUME CatalogueAssumption ==
  /\ ProductIds \subseteq RowIds
  /\ System \notin Users
  /\ Colorings \subseteq [n : 1..4, hex : {"upper", "mixed"}]
  /\ Fashions \subseteq {"solid", "dual-tone", "gradient", "multi-section"}
  /\ Entries \subseteq [kind : {"filament_spool", "resin_bottle"}, product : ProductIds \cup {0},
                         colors : Colorings \cup {[n |-> 0, hex |-> "upper"]},
                         pattern : Fashions \cup {"omitted"}, named : BOOLEAN]
  /\ MaxCalls \in Nat

VARIABLES filaments, resins,  \* id -> row
          spools,             \* <<owner, key>> -> the material made under the key
          answer,             \* what the last POST was told
          calls

catalogueVars == <<filaments, resins, spools, answer, calls, listingVars>>

Patterns == {"solid", "dual-tone", "gradient", "multi-section"}
Hues     == [n : 1..4, hex : {"upper"}]
NoHues   == [n |-> 0, hex |-> "upper"]    \* NULL, or left out
Omitted  == "omitted"
None     == [is |-> FALSE]

FilamentProducts(rows) ==
  \A id \in ProductIds : rows[id].is =>
    /\ rows[id].owner \in Users \cup {System}
    /\ rows[id].colors \in Hues /\ rows[id].pattern \in Patterns

ResinProducts(rows) ==
  \A id \in ProductIds : rows[id].is =>
    /\ rows[id].owner \in Users \cup {System}
    /\ rows[id].colors \in Hues \cup {NoHues}

\* Whatever was entered, a material has colours and a pattern.
MaterialRows(rows) ==
  \A p \in Users \X PostKeys : rows[p].is =>
    /\ rows[p].product \in ProductIds \cup {0}
    /\ rows[p].colors \in Hues /\ rows[p].pattern \in Patterns

CatalogueTypeOK ==
  /\ FilamentProducts(filaments) /\ ResinProducts(resins) /\ MaterialRows(spools)
  /\ answer \in [on : {"none", "product", "material"},
                 is : {"none", "made", "replayed", "conflict"}, same : BOOLEAN]
  /\ calls \in 0..MaxCalls

CatalogueInit ==
  /\ filaments = [id \in ProductIds |-> None]
  /\ resins = [id \in ProductIds |-> None]
  /\ spools = [p \in Users \X PostKeys |-> None]
  /\ answer = [on |-> "none", is |-> "none", same |-> FALSE]
  /\ calls = 0 /\ ListingInit

Called == calls < MaxCalls /\ calls' = calls + 1

\* History: "born" is the request that made a row, until somebody patches it.
Patched == <<>>
Answered(on, is, same) == answer' = [on |-> on, is |-> is, same |-> same]

-----------------------------------------------------------------------------
\* The colours that a row gets, and the patterns that so many colours may have.
Capitals(colors) == [colors EXCEPT !.hex = "upper"]

ValidColors(colors, pattern) ==
  \/ pattern = "solid" /\ colors.n = 1
  \/ pattern = "dual-tone" /\ colors.n = 2
  \/ pattern = "gradient" /\ colors.n \in {2, 3}
  \/ pattern = "multi-section" /\ colors.n \in 2..4

\* A user's row has that user as owner; a system row has none, and an admin's hand.
ValidOwnership(source, owner, u) ==
  IF source = "user" THEN owner = u ELSE owner = System /\ u \in Admins

\* Admins do not touch what users entered.
MayMutate(owner, u) ==
  IF owner = System THEN u \in Admins ELSE owner = u

\* The owner of a POST that names none.
DefaultOwner(source, u) == IF source = "user" THEN u ELSE System

Sees(row, u) == row.is /\ row.owner \in {System, u}

-----------------------------------------------------------------------------
\* What the row and the request say of a filament, when they are compared.
FilamentKey(row) == <<row.owner, Capitals(row.colors), row.pattern>>
FilamentKeyOf(owner, colors, pattern) == <<owner, Capitals(colors), pattern>>

\* Made, or, where the client chose an id that is taken, compared.
CreateFilament(u, id, source, owner, colors, pattern) ==
  LET born == <<u, source, colors, pattern>>
      prior == filaments[id] IN
  /\ ValidOwnership(source, owner, u)
  /\ ValidColors(colors, pattern)
  /\ IF prior.is
     THEN /\ Answered("product",
                      IF FilamentKey(prior) = FilamentKeyOf(owner, colors, pattern)
                      THEN "replayed" ELSE "conflict", prior.born = born)
          /\ UNCHANGED filaments
     ELSE /\ filaments' = [filaments EXCEPT ![id] =
               [is |-> TRUE, owner |-> owner, colors |-> Capitals(colors),
                pattern |-> pattern, born |-> born]]
          /\ Answered("product", "made", TRUE)

\* POST /catalog/filaments.
PostFilament(u) ==
  /\ Called
  /\ \E id \in ProductIds, source \in {"user", "system"}, colors \in Colorings,
        pattern \in Fashions :
       \E owner \in {DefaultOwner(source, u), u, System} :
         CreateFilament(u, id, source, owner, colors, pattern)
  /\ UNCHANGED <<resins, spools, listingVars>>

SeesFilament(u, id) == Sees(filaments[id], u)

\* Colours and pattern come together and fit, or neither comes.
UpdateFilament(u, id, colors, pattern) ==
  /\ filaments[id].is /\ MayMutate(filaments[id].owner, u)
  /\ \/ ValidColors(colors, pattern)
     \/ colors.n = 0 /\ pattern = Omitted
  /\ filaments' = [filaments EXCEPT
                    ![id].colors = IF colors.n = 0 THEN @ ELSE Capitals(colors),
                    ![id].pattern = IF pattern = Omitted THEN @ ELSE pattern,
                    ![id].born = Patched]

\* PATCH /catalog/filaments/:id, of these columns or of others.
PatchFilament(u) ==
  /\ Called
  /\ \E id \in ProductIds, colors \in Colorings \cup {NoHues}, pattern \in Fashions \cup {Omitted} :
       UpdateFilament(u, id, colors, pattern)
  /\ UNCHANGED <<resins, spools, answer, listingVars>>

DeleteFilament(u, id) ==
  /\ filaments[id].is /\ MayMutate(filaments[id].owner, u)
  /\ filaments' = [filaments EXCEPT ![id] = None]
  /\ NotOwed("filament", id)

\* DELETE /catalog/filaments/:id: materials that name it are not looked at.
RemoveFilament(u) ==
  /\ Called
  /\ \E id \in ProductIds : DeleteFilament(u, id)
  /\ UNCHANGED <<resins, spools, answer>>

-----------------------------------------------------------------------------
\* Resins: colours may be missing, and there is no pattern.
ResinKey(row) == <<row.owner, Capitals(row.colors)>>

ResinKeyOf(owner, colors) == <<owner, Capitals(colors)>>

CreateResin(u, id, source, owner, colors) ==
  LET born == <<u, source, colors>>
      prior == resins[id] IN
  /\ ValidOwnership(source, owner, u)
  /\ IF prior.is
     THEN /\ Answered("product",
                      IF ResinKey(prior) = ResinKeyOf(owner, colors)
                      THEN "replayed" ELSE "conflict", prior.born = born)
          /\ UNCHANGED resins
     ELSE /\ resins' = [resins EXCEPT ![id] =
               [is |-> TRUE, owner |-> owner, colors |-> Capitals(colors), born |-> born]]
          /\ Answered("product", "made", TRUE)

\* POST /catalog/resins.
PostResin(u) ==
  /\ Called
  /\ \E id \in ProductIds, source \in {"user", "system"}, colors \in Colorings \cup {NoHues} :
       \E owner \in {DefaultOwner(source, u), u, System} :
         CreateResin(u, id, source, owner, colors)
  /\ UNCHANGED <<filaments, spools, listingVars>>

SeesResin(u, id) == Sees(resins[id], u)

\* Colours that are sent replace the row's; the route turns null into "left out".
UpdateResin(u, id, colors) ==
  /\ resins[id].is /\ MayMutate(resins[id].owner, u)
  /\ resins' = [resins EXCEPT ![id].colors = IF colors.n = 0 THEN @ ELSE Capitals(colors),
                              ![id].born = Patched]

\* PATCH /catalog/resins/:id.
PatchResin(u) ==
  /\ Called
  /\ \E id \in ProductIds, colors \in Colorings \cup {NoHues} : UpdateResin(u, id, colors)
  /\ UNCHANGED <<filaments, spools, answer, listingVars>>

DeleteResin(u, id) ==
  /\ resins[id].is /\ MayMutate(resins[id].owner, u)
  /\ resins' = [resins EXCEPT ![id] = None]
  /\ NotOwed("resin", id)

\* DELETE /catalog/resins/:id.
RemoveResin(u) ==
  /\ Called
  /\ \E id \in ProductIds : DeleteResin(u, id)
  /\ UNCHANGED <<filaments, spools, answer>>

-----------------------------------------------------------------------------
\* Rows of the system and of the caller, by id, after the cursor.
ListFilaments(u, cursor) == PageOf(After(cursor, {id \in ProductIds : SeesFilament(u, id)}))
ListResins(u, cursor)    == PageOf(After(cursor, {id \in ProductIds : SeesResin(u, id)}))

\* A client begins to read one of them.
ReadsCatalogue(u) ==
  /\ \/ WalkStarts(u, "filament", {id \in ProductIds : SeesFilament(u, id)})
     \/ WalkStarts(u, "resin", {id \in ProductIds : SeesResin(u, id)})
  /\ UNCHANGED <<filaments, resins, spools, answer, calls>>

\* GET /catalog/filaments and /catalog/resins.
FilamentPage ==
  /\ Told("filament", ListFilaments(walk.who, walk.cursor))
  /\ UNCHANGED <<filaments, resins, spools, answer, calls>>
ResinPage ==
  /\ Told("resin", ListResins(walk.who, walk.cursor))
  /\ UNCHANGED <<filaments, resins, spools, answer, calls>>

-----------------------------------------------------------------------------
\* The product a material is entered from: of the table of its kind, visible to
\* its owner, and with colours; a resin's pattern follows from their number.
ResolveCatalogProduct(kind, id, u) ==
  CASE kind = "filament_spool" /\ SeesFilament(u, id) ->
         [is |-> TRUE, colors |-> filaments[id].colors, pattern |-> filaments[id].pattern]
    [] kind = "resin_bottle" /\ SeesResin(u, id) /\ resins[id].colors.n > 0 ->
         [is |-> TRUE, colors |-> resins[id].colors,
          pattern |-> CASE resins[id].colors.n = 1 -> "solid"
                        [] resins[id].colors.n = 2 -> "dual-tone"
                        [] OTHER -> "multi-section"]
    [] OTHER -> None

\* What the client says wins over the product; together it must fit.
CreateFrom(u, body) ==
  LET product == IF body.product = 0 THEN None ELSE ResolveCatalogProduct(body.kind, body.product, u)
      colors  == IF body.colors.n = 0 /\ product.is THEN product.colors ELSE body.colors
      pattern == IF body.pattern = Omitted /\ product.is THEN product.pattern ELSE body.pattern IN
  IF (body.product = 0 \/ product.is) /\ ValidColors(colors, pattern)
  THEN [is |-> TRUE, kind |-> body.kind, product |-> body.product, colors |-> Capitals(colors),
        pattern |-> pattern, named |-> body.named \/ product.is, born |-> body]
  ELSE None

\* The request and the stored row, as POST compares them; "named" is whether
\* there are brand and subtype.
MaterialKeyOf(body) == <<body.kind, body.product, Capitals(body.colors), body.pattern, body.named>>
MaterialKey(row)    == <<row.kind, row.product, Capitals(row.colors), row.pattern, row.named>>

\* POST /materials under a key: the row that has it, or a new one.
PostMaterial(u) ==
  /\ Called
  /\ \E key \in PostKeys, body \in Entries :
       LET prior == spools[<<u, key>>] IN
       IF prior.is
       THEN /\ Answered("material", IF MaterialKey(prior) = MaterialKeyOf(body)
                                    THEN "replayed" ELSE "conflict", prior.born = body)
            /\ UNCHANGED spools
       ELSE /\ CreateFrom(u, body).is
            /\ spools' = [spools EXCEPT ![<<u, key>>] = CreateFrom(u, body)]
            /\ Answered("material", "made", TRUE)
  /\ UNCHANGED <<filaments, resins, listingVars>>

\* PATCH /materials/:id: colours with their pattern, or any product.
PatchMaterial(u) ==
  /\ Called
  /\ \E key \in PostKeys, colors \in Colorings, pattern \in Fashions, product \in ProductIds :
       /\ spools[<<u, key>>].is
       /\ \/ /\ ValidColors(colors, pattern)
             /\ spools' = [spools EXCEPT ![<<u, key>>] =
                  [@ EXCEPT !.colors = Capitals(colors), !.pattern = pattern, !.born = Patched]]
          \/ spools' = [spools EXCEPT ![<<u, key>>] = [@ EXCEPT !.product = product, !.born = Patched]]
  /\ UNCHANGED <<filaments, resins, answer, listingVars>>

CatalogueNext ==
  \/ \E u \in Users :
       \/ PostFilament(u) \/ PatchFilament(u) \/ RemoveFilament(u)
       \/ PostResin(u) \/ PatchResin(u) \/ RemoveResin(u)
       \/ PostMaterial(u) \/ PatchMaterial(u)
       \/ ReadsCatalogue(u)
  \/ FilamentPage \/ ResinPage

CatalogueSpec == CatalogueInit /\ [][CatalogueNext]_catalogueVars

-----------------------------------------------------------------------------
\* "Same id + same body returns existing row": a product that was not touched
\* since is never a conflict for the request that made it.
SeedsReplay == answer.on = "product" /\ answer.same => answer.is # "conflict"

=============================================================================
