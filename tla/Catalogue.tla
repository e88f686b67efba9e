----------------------------- MODULE Catalogue -----------------------------
(***************************************************************************)
(* The catalogue a paid order is resolved against: access policies,        *)
(* products, their versions and components, offers, and the mapping of the *)
(* shop's product ids (SKUs) to offers (packages/db/src/commerce:          *)
(* catalogue-loader.ts and the repositories it writes through).            *)
(*                                                                         *)
(* A loader run plans inside its transaction, statement by statement, and  *)
(* then writes; at READ COMMITTED other loaders and people at work commit  *)
(* in between, and only unique keys stop it.  The plan's reads are one     *)
(* step here, the writes another.                                          *)
(*                                                                         *)
(* Versions are 1 throughout except a mapping's.  Prices, titles, validity *)
(* and checksums of rows nobody alters are left out, and so are the        *)
(* editorial steps of programs and exam batches: a target is there or not. *)
(***************************************************************************)
EXTENDS Naturals, FiniteSets

CONSTANTS
    Skus,        \* product ids of the shop
    Codes,       \* codes of products and of offers
    Components,  \* component codes
    Targets,     \* programs and exam batches
    PolicyCode,  \* [Codes \X Components -> policy codes], not always injective
    Catalogues,  \* files the loader may be given, each a set of products
    Loads,       \* runs of the loader, at once
    LastDay, MaxChanges,  \* bounds on the clock and on what people do
    NoOffer      \* an absent row or bound

PolicyCodes == {PolicyCode[k] : k \in Codes \X Components}
Days == 0..LastDay

ASSUME CatalogueAssumption ==
    /\ {LastDay, MaxChanges} \subseteq Nat /\ NoOffer \notin Nat \cup Codes
    /\ \A file \in Catalogues : \A p \in file :
         {p.code, p.offer} \subseteq Codes /\ DOMAIN p.parts \subseteq Components
    /\ NoOffer \notin [status : {"draft", "published"}, product : Codes]

VARIABLES
    today, changes,
    targets,     \* programs that exist, batches that are published
    policies,    \* access_policies: absent, draft or published
    products,    \* codes of products
    versions,    \* product_versions of each product, NoOffer while absent
    offers,      \* offers by code, NoOffer while absent
    mappings,    \* rows of external_sku_mappings
    load,        \* what each run of the loader is doing
    applied,     \* what each committed run created (history)
    told         \* products reported as existing, with the offer seen (history)

records == <<policies, products, versions, offers, mappings>>
catalogueVars == <<today, changes, targets, records, load, applied, told>>

\* Rows of product_versions, offers and external_sku_mappings.
ProductVersionDraft(parts) == [status |-> "draft", parts |-> parts]
PublishProductVersion(row) == [row EXCEPT !.status = "published"]
OfferDraft(code) == [status |-> "draft", product |-> code]
PublishOffer(row) == [row EXCEPT !.status = "published"]
SkuMapping(sku, version, offer, from, to, priority, by) ==
    [sku |-> sku, version |-> version, offer |-> offer, from |-> from, to |-> to,
     priority |-> priority, by |-> by]

NoLoad == [pc |-> "idle", file |-> {}, create |-> {}, at |-> 0]

CatalogueInit ==
    /\ today = 0 /\ changes = 0 /\ targets = {}
    /\ policies = [c \in PolicyCodes |-> "absent"]
    /\ products = {} /\ mappings = {}
    /\ versions = [c \in Codes |-> NoOffer] /\ offers = [c \in Codes |-> NoOffer]
    /\ load = [r \in Loads |-> NoLoad]
    /\ applied = {} /\ told = {}

OneMoreChange == changes < MaxChanges /\ changes' = changes + 1

-----------------------------------------------------------------------------
(* People *)

\* A program is created or a batch published; a batch is archived.
ChangeTarget(t) ==
    /\ targets' = IF t \in targets THEN targets \ {t} ELSE targets \cup {t}
    /\ OneMoreChange /\ UNCHANGED <<today, records, load, applied, told>>

CreatePolicyDraft(c) ==
    /\ policies[c] = "absent" /\ policies' = [policies EXCEPT ![c] = "draft"]
    /\ OneMoreChange
    /\ UNCHANGED <<today, targets, products, versions, offers, mappings, load, applied, told>>

PublishPolicyVersion(c) ==
    /\ policies[c] = "draft" /\ policies' = [policies EXCEPT ![c] = "published"]
    /\ OneMoreChange
    /\ UNCHANGED <<today, targets, products, versions, offers, mappings, load, applied, told>>

CreateProduct(c) ==
    /\ c \notin products /\ products' = products \cup {c}
    /\ OneMoreChange
    /\ UNCHANGED <<today, targets, policies, versions, offers, mappings, load, applied, told>>

\* external_sku_mapping_start_uq
StartIsFree(sku, from) == \A m \in mappings : m.sku = sku => m.from # from

\* A remap by hand: a new row with a higher version, from today or later.
CreateSkuMapping(sku, c, from, to, priority) ==
    /\ offers[c] # NoOffer /\ StartIsFree(sku, from) /\ from >= today
    /\ to \in {NoOffer} \cup {d \in Days : d > from}
    /\ mappings' = mappings \cup {SkuMapping(sku, 2 + Cardinality(mappings), c, from, to,
                                             priority, "hand")}
    /\ OneMoreChange
    /\ UNCHANGED <<today, targets, policies, products, versions, offers, load, applied, told>>

CatalogueTick ==
    /\ today < LastDay /\ today' = today + 1
    /\ UNCHANGED <<changes, targets, records, load, applied, told>>

-----------------------------------------------------------------------------
(* Resolution *)

\* resolveSkuMapping: of the rows in force, the highest priority, then the
\* highest version; rows equal in both come in no order.
ResolveSkuMapping(rows, t) ==
    LET eligible == {m \in rows : m.from <= t /\ (m.to = NoOffer \/ t < m.to)}
        beats(m, n) == \/ m.priority > n.priority
                       \/ m.priority = n.priority /\ m.version > n.version
    IN  {m \in eligible : \A n \in eligible : ~beats(n, m)}

\* resolveOfferForSku
ResolveOfferForSku(sku, t) == ResolveSkuMapping({m \in mappings : m.sku = sku}, t)

-----------------------------------------------------------------------------
(* The loader *)

\* parseCatalogueSpec, over the whole file.
ParseCatalogueSpec(file) ==
    /\ file # {}
    /\ \A p \in file : DOMAIN p.parts # {} /\ p.code # p.offer
    /\ \A p, q \in file : p # q =>
         p.sku # q.sku /\ {p.code, p.offer} \cap {q.code, q.offer} = {}

MissingTarget(p) == \E c \in DOMAIN p.parts : p.parts[c] \notin targets

\* planCatalogue, for one product.
PlanProduct(p) ==
    LET mapped   == ResolveOfferForSku(p.sku, today) # {}
        existing == p.code \in products
    IN  IF mapped /\ existing THEN "exists"
        ELSE IF mapped \/ existing THEN "conflict"
        ELSE IF MissingTarget(p) THEN "blocked" ELSE "create"

Planned(file, what) == {p \in file : PlanProduct(p) = what}

\* planCatalogue, as applyCatalogue runs it: every product must be `create`
\* or `exists`.
PlanCatalogue(r, file) ==
    /\ load[r] = NoLoad /\ ParseCatalogueSpec(file)
    /\ Planned(file, "conflict") = {} /\ Planned(file, "blocked") = {}
    /\ load' = [load EXCEPT ![r] = [pc |-> "planned", file |-> file, at |-> today,
                                    create |-> Planned(file, "create")]]
    /\ told' = told \cup UNION {{[code |-> p.code, offer |-> m.offer] :
                                   m \in ResolveOfferForSku(p.sku, today)} :
                                p \in Planned(file, "exists")}
    /\ OneMoreChange /\ UNCHANGED <<today, targets, records, applied>>

PoliciesOf(p) == {PolicyCode[<<p.code, c>>] : c \in DOMAIN p.parts}

\* Mutant: policies are inserted ON CONFLICT DO NOTHING.
KeysAreFreeButPolicies(create, t) ==
    \A p \in create : p.code \notin products /\ offers[p.offer] = NoOffer /\ StartIsFree(p.sku, t)

\* access_policies, products and offers have unique codes, across the file's
\* own products too; a mapping has its start.
KeysAreFree(create, t) ==
    /\ \A p \in create :
         /\ \A c \in PoliciesOf(p) : policies[c] = "absent"
         /\ Cardinality(PoliciesOf(p)) = Cardinality(DOMAIN p.parts)
         /\ p.code \notin products /\ offers[p.offer] = NoOffer /\ StartIsFree(p.sku, t)
    /\ \A p, q \in create : p # q => PoliciesOf(p) \cap PoliciesOf(q) = {}

\* applyCatalogue: every product to be created, with its policies, version,
\* offer and mapping, in one transaction.
ApplyCatalogue(r) ==
    LET create == load[r].create
        of(c)    == CHOOSE p \in create : p.code = c
        fresh    == UNION {PoliciesOf(p) : p \in create}
    IN  /\ load[r].pc = "planned" /\ KeysAreFree(create, load[r].at)
        /\ policies' = [c \in PolicyCodes |-> IF c \in fresh /\ policies[c] = "absent"
                                              THEN "published" ELSE policies[c]]
        /\ products' = products \cup {p.code : p \in create}
        /\ versions' = [c \in Codes |-> IF \E p \in create : p.code = c
                                       
                                        THEN PublishProductVersion(ProductVersionDraft(of(c).parts))
                                        ELSE versions[c]]
        /\ offers' = [c \in Codes |-> IF \E p \in create : p.offer = c
                        THEN PublishOffer(OfferDraft((CHOOSE p \in create : p.offer = c).code))
                        ELSE offers[c]]
        /\ mappings' = mappings \cup {SkuMapping(p.sku, 1, p.offer, load[r].at, NoOffer, 0, "load") :
                                      p \in create}
        /\ applied' = applied \cup {create}
        /\ load' = [load EXCEPT ![r] = NoLoad]
        /\ UNCHANGED <<today, changes, targets, told>>

\* A unique key refuses a write, or the process dies: nothing is left.
RollBackLoad(r) ==
    /\ load[r] # NoLoad /\ load' = [load EXCEPT ![r] = NoLoad]
    /\ UNCHANGED <<today, changes, targets, records, applied, told>>

-----------------------------------------------------------------------------
PeopleStep ==
    \/ \E t \in Targets : ChangeTarget(t)
    \/ \E c \in PolicyCodes : CreatePolicyDraft(c) \/ PublishPolicyVersion(c)
    \/ \E c \in Codes : CreateProduct(c)
    \/ \E s \in Skus, c \in Codes, from \in Days, to \in Days \cup {NoOffer}, p \in 0..1 :
         CreateSkuMapping(s, c, from, to, p)

LoaderStep(r) ==
    \/ \E file \in Catalogues : PlanCatalogue(r, file)
    \/ ApplyCatalogue(r) \/ RollBackLoad(r)

CatalogueNext == PeopleStep \/ (\E r \in Loads : LoaderStep(r)) \/ CatalogueTick

CatalogueSpec == CatalogueInit /\ [][CatalogueNext]_catalogueVars

-----------------------------------------------------------------------------
(* Properties *)

\* What an order of this product needs: its mapping, a published offer of the
\* published version, and for every component a published policy.
IsSold(p) ==
    /\ \E m \in mappings : m.by = "load" /\ m.sku = p.sku /\ m.offer = p.offer
    /\ offers[p.offer] = [status |-> "published", product |-> p.code]
    /\ versions[p.code] = [status |-> "published", parts |-> p.parts]
    /\ \A c \in PoliciesOf(p) : policies[c] = "published"

\* A committed run left all of its products complete, a failed one nothing:
\* no mapping, version or offer is there that no run created whole, whatever
\* two runs and people at work wrote meanwhile, and whichever codes collide
\* (catalogue-loader.ts applyCatalogue: one transaction, all or nothing).
CatalogueIsWhole ==
    /\ \A create \in applied : \A p \in create : IsSold(p)
    /\ \A c \in Codes : versions[c] # NoOffer =>
         \E create \in applied : \E p \in create : p.code = c
    /\ \A m \in mappings : m.by = "load" =>
         \E create \in applied : \E p \in create : p.sku = m.sku /\ p.offer = m.offer

=============================================================================
