---------------------------- MODULE ModelQueries ----------------------------
(***************************************************************************)
(* PostgresModelRegistry's reads: ListModels page after page, and          *)
(* ResolveModelRef, while the registry changes.  A call is several         *)
(* statements, and each sees what is committed when it starts; so the      *)
(* writers are those of ModelCatalog, which ModelRegistry implements.      *)
(* Readers change nothing, and one of them stands for all.                 *)
(***************************************************************************)
EXTENDS ModelCatalog, Integers, SequencesExt

CONSTANTS
  Rank,         \* Rank[m]: place of m in "order by vendor_id, model_id"
  Aliases,      \* Aliases[d]: alias values of a definition
  Sources,      \* Sources[d]: ids of the sources that say it
  Texts,        \* Texts[d]: display name, family, the sources' names of it
  Containing,   \* Containing[w]: the texts in which word w is found
  Filters,      \* filters clients ask with, see IsFilter
  Categorised,  \* definitions whose category is set
  Sizes,        \* page sizes clients ask for
  DefaultSize, MaxSize,  \* 50 and 100 in the code
  NoVendor, NoToken,
  MaxEvents,    \* bound: no change of a model with so many events
  MaxChanges    \* bound: changes of the table while a client asks

Vendors == {m[1] : m \in Models}
Names == {m[2] : m \in Models} \cup UNION {Aliases[d] : d \in Definitions}
Words == DOMAIN Containing

\* A ModelListFilter: no id and no word is an empty set, a repeated field
\* that is not set likewise; category is whether it has one the code knows.
IsFilter(f) ==
  /\ f.vendors \subseteq Vendors
  /\ Cardinality(f.ids) <= 1
  /\ f.sources \subseteq UNION {Sources[d] : d \in Definitions}
  /\ f.words \subseteq Words /\ Cardinality(f.words) <= 1
  /\ f.category \in BOOLEAN

\* A search for a word and nothing else.
WordFilter(w) ==
  [vendors |-> {}, ids |-> {}, sources |-> {}, words |-> {w}, category |-> FALSE]

ASSUME QueryAssumption ==
  /\ Rank \in [Models -> Nat]
  /\ \A m, n \in Models : Rank[m] = Rank[n] => m = n
  /\ \A w \in Words \cap Names : w \in Containing[w]
  /\ \A f \in Filters : IsFilter(f)
  /\ Sizes \subseteq Int
  /\ MaxSize \in Nat
  /\ DefaultSize \in 1 .. MaxSize
  /\ NoVendor \notin Vendors
  /\ NoToken \notin Models
  /\ {MaxEvents, MaxChanges} \subseteq Nat

VARIABLES
  step,     \* where the client and its call stand
  request,  \* what it asks for
  token,    \* the page token it has: the last model of the page before
  page,     \* models of the page whose sources are still to be read
  more,     \* whether rows after the page were seen
  listed,   \* models it was given, page after page
  answer,   \* what ResolveModelRef returned
  since     \* history: the states of the table since it asked first

readVars == <<request, token, page, more, listed, answer>>
queryVars == <<entries, events, step, readVars, since>>

NoAnswer == [kind |-> "none"]
Ref(m) == [kind |-> "ref", model |-> m]
NoRequest == [kind |-> "none"]

QueryInit ==
  /\ Init
  /\ step = "idle"
  /\ request = NoRequest
  /\ token = NoToken
  /\ page = <<>>
  /\ more = FALSE
  /\ listed = <<>>
  /\ answer = NoAnswer
  /\ since = {}

-----------------------------------------------------------------------------
(* Writers.                                                                *)

Present(table) == {m \in Models : table[m] # NoEntry}

Change(m) ==
  /\ Len(events[m]) < MaxEvents
  /\ Cardinality(since) <= MaxChanges
  /\ Delete(m) \/ \E d \in Definitions : Upsert(m, d)
  /\ since' = IF step = "idle" THEN {} ELSE since \cup {entries'}
  /\ UNCHANGED <<step, readVars>>

-----------------------------------------------------------------------------
(* ListModels.  The client follows the tokens to the last page, with       *)
(* whatever page size each time, and asks again when a call fails.         *)

\* The client starts anew.
Ask(r) ==
  /\ step = "idle"
  /\ request' = r
  /\ since' = {entries}
  /\ UNCHANGED <<entries, events, token, page, more, listed, answer>>

StartList(f) == Ask([kind |-> "list", filter |-> f]) /\ step' = "listing"

PageSize(n) == IF n <= 0 THEN DefaultSize ELSE IF n > MaxSize THEN MaxSize ELSE n

\* Mutation: the aliases are not searched.
SearchedButAliases(m, d) == {m[1], m[2]} \cup Texts[d] \cup Sources[d]

\* addSearch: the texts of a row, of its aliases and of its observations.
Searched(m, d) == {m[1], m[2]} \cup Texts[d] \cup Aliases[d] \cup Sources[d]

\* The clauses of the predicate, but for the category.
Picks(f, m, d) ==
  /\ f.vendors # {} => m[1] \in f.vendors
  /\ f.ids # {} => m[2] \in f.ids
  /\ \A w \in f.words : Searched(m, d) \cap Containing[w] # {}
  /\ f.sources # {} => Sources[d] \cap f.sources # {}

Picked(table, f) == {m \in Present(table) : Picks(f, m, table[m].definition)}

\* The rows of the where clause.  A category is compared as an integer, but
\* stored by name; a lifecycle status is looked for under a key that is not
\* the stored one, so excluding any excludes nothing.
Matching(table, f) == IF f.category THEN {} ELSE Picked(table, f)

\* "order by vendor_id, model_id": up to the n-th row there are n.
InOrder(S) ==
  [n \in 1 .. Cardinality(S) |->
     CHOOSE m \in S : Cardinality({k \in S : Rank[k] <= Rank[m]}) = n]

\* Mutation: page tokens count the rows before the page.
AfterOffset(S) ==
  SubSeq(InOrder(S), Len(listed) + 1, Cardinality(S))

\* Mutation: the page starts with the row that ended the one before.
NotBefore(m) == token = NoToken \/ Rank[m] >= Rank[token]

\* The page token names the last row of the page before; one that is empty,
\* or that cannot be decoded, starts from the first row.
Beyond(m) == token = NoToken \/ Rank[m] > Rank[token]

\* "(vendor_id, model_id) > (...)", in order.
After(S) == InOrder({m \in S : Beyond(m)})

\* The cast of that name is an error.
CastFails(f) ==
  f.category /\ \E m \in Picked(entries, f) : entries[m].definition \in Categorised

\* First statement: the rows of the page and one more.
ReadPage(n) ==
  LET rows == After(Matching(entries, request.filter))
      size == PageSize(n)
  IN  /\ step = "listing"
      /\ ~ CastFails(request.filter)
      /\ page' = SubSeq(rows, 1, IF Len(rows) < size THEN Len(rows) ELSE size)
      /\ more' = (Len(rows) > size)
      /\ step' = "sourcing"
      /\ UNCHANGED <<entries, events, request, token, listed, answer, since>>

NextToken == IF more /\ page # <<>> THEN Last(page) ELSE NoToken

\* Second statement: their sources.  The page is returned, with the token
\* of its last row if there are more.
ReturnPage ==
  /\ step = "sourcing"
  /\ listed' = listed \o page
  /\ token' = NextToken
  /\ step' = IF NextToken = NoToken THEN "listed" ELSE "listing"
  /\ page' = <<>>
  /\ more' = FALSE
  /\ UNCHANGED <<entries, events, request, answer, since>>

\* A statement fails, and with it the call.
ListError ==
  /\ step = "sourcing"
  /\ step' = "listing"
  /\ page' = <<>>
  /\ more' = FALSE
  /\ UNCHANGED <<entries, events, request, token, listed, answer, since>>

-----------------------------------------------------------------------------
(* ResolveModelRef.                                                        *)

\* Mutation: aliases come first.
StartByAlias(v, n) ==
  /\ Ask([kind |-> "resolve", vendor |-> v, name |-> n])
  /\ step' = IF v = NoVendor THEN "byAlias" ELSE "byVendor"

StartResolve(v, n) ==
  /\ Ask([kind |-> "resolve", vendor |-> v, name |-> n])
  /\ step' = IF v = NoVendor THEN "byId" ELSE "byVendor"

Answer(a) ==
  /\ answer' = a
  /\ step' = "answered"
  /\ UNCHANGED <<entries, events, request, token, page, more, listed, since>>

HasId(table, n) == {m \in Present(table) : m[2] = n}
HasAlias(table, n) == {m \in Present(table) : n \in Aliases[table[m].definition]}

\* resolveUniqueModelRef
Unique(S) == IF Cardinality(S) = 1 THEN Ref(CHOOSE m \in S : TRUE) ELSE [kind |-> "ambiguous"]

\* Mutation: a model id means the same in every vendor.
ResolveInAnyVendor ==
  /\ step = "byVendor"
  /\ LET S == HasId(entries, request.name)
     IN  Answer(IF S # {} THEN Unique(S) ELSE [kind |-> "error"])

\* With a vendor: getRegistryEntry, as in GetModelVersion.  It reports a missing row as an error
\* that isDomainNotFound does not know, so nothing else is tried.
ResolveInVendor ==
  /\ step = "byVendor"
  /\ LET m == <<request.vendor, request.name>>
     IN  Answer(IF m \in Present(entries) THEN Ref(m) ELSE [kind |-> "error"])

\* Mutation: the first match will do.
ResolveFirstById ==
  LET S == HasId(entries, request.name)
  IN  /\ step = "byId"
      /\ IF S = {}
         THEN /\ step' = "byAlias"
              /\ UNCHANGED <<entries, events, readVars, since>>
         ELSE Answer(Ref(CHOOSE m \in S : \A n \in S : Rank[m] <= Rank[n]))

\* Without: queryResolveRefsByModelID ...
ResolveById ==
  LET S == HasId(entries, request.name)
  IN  /\ step = "byId"
      /\ IF S = {}
         THEN /\ step' = "byAlias"
              /\ UNCHANGED <<entries, events, readVars, since>>
         ELSE Answer(Unique(S))

\* ... and then queryResolveRefsByAlias, a statement later.
ResolveByAlias ==
  LET S == HasAlias(entries, request.name)
  IN  /\ step = "byAlias"
      /\ Answer(IF S = {} THEN [kind |-> "not found"] ELSE Unique(S))

\* A statement fails.
ResolveError ==
  /\ step \in {"byVendor", "byId", "byAlias"}
  /\ Answer([kind |-> "failed"])

-----------------------------------------------------------------------------
\* The client has what it wanted, or gives up between two pages.
Forget ==
  /\ step \in {"listing", "listed", "answered"}
  /\ step' = "idle"
  /\ request' = NoRequest
  /\ token' = NoToken
  /\ listed' = <<>>
  /\ answer' = NoAnswer
  /\ since' = {}
  /\ UNCHANGED <<entries, events, page, more>>

ReadStep ==
  \/ \E f \in Filters : StartList(f)
  \/ \E n \in Sizes : ReadPage(n)
  \/ ReturnPage \/ ListError
  \/ \E v \in Vendors \cup {NoVendor}, n \in Names : StartResolve(v, n)
  \/ ResolveInVendor \/ ResolveById \/ ResolveByAlias \/ ResolveError
  \/ Forget

QueryNext == ReadStep \/ \E m \in Models : Change(m)

QuerySpec == QueryInit /\ [][QueryNext]_queryVars

-----------------------------------------------------------------------------
\* A complete listing has every model that matched all the while, however
\* the table changed around it from page to page and whatever calls failed.
\* It has none twice, keeps the order, and has none that never matched.
ListingIsExact ==
  /\ step = "listed" =>
       \A m \in Models :
         (\A table \in since : m \in Matching(table, request.filter)) => Contains(listed, m)
  /\ \A i, j \in DOMAIN listed : i < j => Rank[listed[i]] < Rank[listed[j]]
  /\ \A m \in Range(listed) : \E table \in since : m \in Matching(table, request.filter)

\* What a name means in one state of the table.  Within a vendor it is a
\* model id.  Elsewhere it is a model id before an alias, and no model if it
\* is ambiguous.
Meaning(table, v, n) ==
  LET S == IF HasId(table, n) # {} THEN HasId(table, n) ELSE HasAlias(table, n)
  IN  IF v # NoVendor
      THEN IF <<v, n>> \in Present(table) THEN Ref(<<v, n>>) ELSE [kind |-> "error"]
      ELSE IF S = {} THEN [kind |-> "not found"] ELSE Unique(S)

Meanings == {Meaning(table, request.vendor, request.name) : table \in since}

Answered == step = "answered" /\ answer.kind # "failed"

\* A name that means the same model all through the call resolves to it,
\* whatever becomes of the models around it.
StableNameResolves ==
  Answered => \A m \in Models : Meanings = {Ref(m)} => answer = Ref(m)

\* A model, or that there is none, was the right answer at some moment of the
\* call, if the table changed at most once meanwhile: without a vendor, model
\* ids and aliases are read by two statements, and with two changes neither
\* need be right.
AnswerWasRight ==
  /\ Answered /\ answer.kind # "ambiguous"
  /\ request.vendor = NoVendor => Cardinality(since) <= 2
  => answer \in Meanings

\* The name of a model leads to it by either way: who searches for a word
\* that names one model all the while, be it by id or by alias, has it in the
\* listing, on whatever page.
SearchFindsName ==
  step = "listed" =>
    \A m \in Models, w \in Words \cap Names :
      /\ request.filter = WordFilter(w)
      /\ \A table \in since : Meaning(table, NoVendor, w) = Ref(m)
      => Contains(listed, m)

=============================================================================
