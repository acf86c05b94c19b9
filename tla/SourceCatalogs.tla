--------------------------- MODULE SourceCatalogs ---------------------------
(***************************************************************************)
(* From the catalog a source publishes to what its collector tells a sync: *)
(* owners are resolved to registered vendors, names stripped of release    *)
(* suffixes, the items that come down to one model brought together, and   *)
(* defaults filled in.                                                     *)
(*                                                                         *)
(* A name is the sequence of the tokens between its dashes, in lower case. *)
(* An item of a catalog is a record                                        *)
(*   owner  what the collector takes for the owner, as the source has it   *)
(*   name   the model's name at the source                                 *)
(*   route  whether the id names a route variant (":free")                 *)
(*   slug   the owner, name and route of the canonical slug, or the item's *)
(*   place  where the id comes in string order                             *)
(*   fit    whether it is a released text model with a valid definition    *)
(*   says   what the source says of each field                             *)
(***************************************************************************)
EXTENDS DefinitionMerge, SequencesExt

CONSTANTS
  VendorList,    \* registered vendors in id order: [id, aliases]
  Presets,       \* ids that are sources of models, not vendors of any
  NoVendor,      \* an owner nobody or more than one vendor answers to
  Years, Months, Days, Dates,  \* tokens of 4, 2, 2 and 8 digits
  Channels,      \* tokens of previews and moving targets
  Unwanted,      \* Unwanted[o]: tokens of names o's collector passes over
  Joined,        \* Joined[t]: "qwen" and t as one token
  Guessed,       \* Guessed[o][t]: o's owner of names that start with t
  Routers,       \* sources that publish canonical slugs and route variants
  Hubs,          \* sources that are asked author by author
  Titled,        \* Titled[v]: v with its parts capitalised
  Defaulted,     \* fields that are never left open
  Default        \* what is put in them: the model id, chat, text

-----------------------------------------------------------------------------
(* Vendors.                                                                *)

VendorIds == {VendorList[i].id : i \in DOMAIN VendorList}

ManagedVendors == VendorIds \ Presets

\* Vendors an owner may stand for.  A vendor's own id overwrites aliases of
\* vendors before it, but not those of vendors after it.
Claims(owner) ==
  LET own == {i \in DOMAIN VendorList : VendorList[i].id = owner}
  IN  own \cup {i \in DOMAIN VendorList :
                  owner \in VendorList[i].aliases /\ \A j \in own : i > j}

\* canonicalVendorID: an owner two vendors claim is nobody's.
ResolveVendor(owner) ==
  LET C == Claims(owner)
  IN  IF Cardinality(C) = 1 /\ VendorList[Min(C)].id \in ManagedVendors
      THEN VendorList[Min(C)].id ELSE NoVendor

-----------------------------------------------------------------------------
(* Names.                                                                  *)

\* NormalizeExternalModelSlug
Slug(name) ==
  IF Len(name) > 2 /\ name[1] = "qwen" /\ name[2] \in DOMAIN Joined
  THEN <<Joined[name[2]]>> \o SubSeq(name, 3, Len(name)) ELSE name

HasToken(name, tokens) == \E i \in DOMAIN name : name[i] \in tokens

\* YYYY-MM-DD, YYYYMMDD, MM-YYYY, YYYY-MM and four digits, tried in this order.
ReleaseSuffixes ==
  << <<Years, Months, Days>>, <<Dates>>, <<Months, Years>>, <<Years, Months>>, <<Years>> >>

EndsIn(name, suffix) ==
  LET base == Len(name) - Len(suffix)
  IN  base > 0 /\ \A i \in DOMAIN suffix : name[base + i] \in suffix[i]

ReleasesOf(name) == {i \in DOMAIN ReleaseSuffixes : EndsIn(name, ReleaseSuffixes[i])}

\* The first of ExternalModelCandidates that is not the name itself: one
\* suffix is cut off, once.
Canonical(name) ==
  IF ReleasesOf(name) = {} THEN name
  ELSE SubSeq(name, 1, Len(name) - Len(ReleaseSuffixes[Min(ReleasesOf(name))]))

\* BuildExternalAliases; the kind, snapshot or stable, follows from the name.
AliasesOf(name) == {Slug(name)} \ {Canonical(Slug(name))}

-----------------------------------------------------------------------------
(* Items.                                                                  *)

\* ModelScope guesses the owner of some families.
VendorOf(o, item) ==
  LET first == Head(Slug(item.name))
  IN  IF ResolveVendor(item.owner) = NoVendor /\ first \in DOMAIN Guessed[o]
      THEN ResolveVendor(Guessed[o][first]) ELSE ResolveVendor(item.owner)

ModelOf(o, item) == <<VendorOf(o, item), Canonical(Slug(item.name))>>

Usable(o, item) ==
  /\ item.fit
  /\ VendorOf(o, item) # NoVendor
  /\ ~ HasToken(item.name, Channels \cup Unwanted[o])

\* A canonical slug of the same vendor is another name of the model.
SlugAlias(o, item) ==
  IF o \in Routers /\ ResolveVendor(item.slug.owner) = VendorOf(o, item)
  THEN {item.slug.name} \ {Canonical(Slug(item.name))} ELSE {}

Definition(o, item) ==
  [says |-> item.says, aliases |-> AliasesOf(item.name) \cup SlugAlias(o, item), sources |-> {o}]

\* Items as they are read: they speak of the fields, and the names that are
\* kept are aliases a model may have.
AreItems(I) ==
  \A i \in I :
    /\ i.says \in [Fields -> Values \cup {Unset}]
    /\ AliasesOf(i.name) \cup ({i.slug.name} \ {Canonical(Slug(i.name))}) \subseteq Aliases

\* candidatePriority of a router's item, smallest first.
Priority(item) ==
  IF item.slug = [owner |-> item.owner, name |-> item.name, route |-> item.route] THEN 0
  ELSE IF item.route THEN 2 ELSE 1

Preferred(i, j) ==
  \/ Priority(i) < Priority(j)
  \/ Priority(i) = Priority(j) /\ i.place < j.place

\* mergeDefinitions: c is what the items so far came to, led by item c.lead.
MergeRouted(o, c, item) ==
  IF Preferred(item, c.lead)
  THEN [lead |-> item, entry |-> Filled(Definition(o, item), c.entry)]
  ELSE [lead |-> c.lead, entry |-> Filled(c.entry, Definition(o, item))]

\* What becomes of model m item by item: nothing yet, or the one candidate.
\* A router's items are merged; of others the first one counts, and the names
\* of the rest are forgotten.
MergeItems(o, items, m) ==
  LET of[n \in 0 .. Len(items)] ==
        IF n = 0 THEN {}
        ELSE IF ~ Usable(o, items[n]) \/ ModelOf(o, items[n]) # m THEN of[n - 1]
        ELSE IF of[n - 1] = {} THEN {[lead |-> items[n], entry |-> Definition(o, items[n])]}
        ELSE IF o \in Routers THEN {MergeRouted(o, c, items[n]) : c \in of[n - 1]}
        ELSE of[n - 1]
  IN  of[Len(items)]

\* vendorSupportDefinitionCandidate: before anything is merged with what
\* other sources say.
WithDefaults(d) ==
  [d EXCEPT !.says = [f \in Fields |->
                      IF d.says[f] = Unset /\ f \in Defaulted THEN Default ELSE d.says[f]]]

\* What the collector of o makes of the items, in the order they came.
Normalized(o, items, models, none) ==
  [m \in models |->
     LET C == MergeItems(o, items, m)
     IN  IF C = {} THEN none ELSE WithDefaults((CHOOSE c \in C : TRUE).entry)]

-----------------------------------------------------------------------------
(* A catalog has a page per author, or one that nobody asks for by author; *)
(* pages are put together in the order they arrive.                        *)

\* Mutation: a vendor is not asked for by its aliases.
WithoutAliases(v) == {v, Titled[v]}

\* huggingface.AuthorCandidates, the vendor's registered aliases among them.
AuthorCandidates(v) ==
  {v, Titled[v]} \cup UNION {VendorList[i].aliases : i \in {j \in DOMAIN VendorList : VendorList[j].id = v}}

\* The pages that are asked for.
Asked(o, pages) ==
  IF o \in Hubs THEN DOMAIN pages \cap UNION {AuthorCandidates(v) : v \in ManagedVendors}
  ELSE DOMAIN pages

\* Items of these authors, in whatever order they answer.
PageOrders(pages, authors) ==
  {FlattenSeq([i \in DOMAIN order |-> pages[order[i]]]) : order \in SetToSeqs(authors)}

\* FetchAllModels and Normalize, with every author answering.
ToldOf(o, pages, models, none) ==
  {Normalized(o, items, models, none) : items \in PageOrders(pages, Asked(o, pages))}

\* With some authors failing, or the probes cancelled after one did.
CutShort(o, pages, models, none) ==
  UNION {{Normalized(o, items, models, none) : items \in PageOrders(pages, authors)} :
         authors \in (SUBSET Asked(o, pages)) \ {Asked(o, pages)}}

=============================================================================
