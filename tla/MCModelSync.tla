---------------------------- MODULE MCModelSync ----------------------------
(* A small instance of ModelSync for TLC, with real catalogs behind it. *)
EXTENDS ModelSync, SourceCatalogs, TLC

CONSTANTS hub, router, v1, v2, v3, nick, Title, x, y

\* v1 is registered under a nickname too; v2 is registered no more; v3, a
\* preset source, comes before v1 and claims its id as an alias, in vain.
const_VendorList == <<[id |-> v3, aliases |-> {v1}], [id |-> v1, aliases |-> {nick}]>>

old == <<"m", "7b">>
new == <<"n">>

const_Models == {<<v1, old>>, <<v1, new>>, <<v2, old>>}

const_Place == (<<v1, new>> :> 1) @@ (<<v1, old>> :> 2) @@ (<<v2, old>> :> 3)

const_Authority == (hub :> 200) @@ (router :> 100)

const_Fields == {"name", "context"}

\* What may be said: the context is never filled in by the code.
Says(context) == [f \in const_Fields |-> IF f = "context" THEN context ELSE Unset]

Item(owner, name, context) ==
  [owner |-> owner, name |-> name, route |-> FALSE, place |-> Len(name), fit |-> TRUE,
   slug |-> [owner |-> owner, name |-> name, route |-> FALSE], says |-> Says(context)]

Routed(item, slug) == [item EXCEPT !.route = TRUE, !.slug.name = slug, !.place = 9]

dated == old \o <<"2024", "05", "13">>
month == old \o <<"05", "2024">>
four == old \o <<"2024">>

\* Two authors of the hub, v1's name in capitals and its nickname, publish
\* releases of the old model; the first may come to speak of the new one
\* instead.  Nobody asks for a third, and previews and models of strangers
\* are passed over.  The router offers the old model twice, or nothing.
Pages ==
  (hub :> ("old" :> (Title :> <<Item(v1, dated, Unset)>> @@
                     nick :> <<Item(nick, month, Unset)>> @@
                     v2 :> <<Item(v2, new, x)>>) @@
           "new" :> (Title :> <<Item(v1, new, Unset), Item(v1, new \o <<"preview">>, y)>> @@
                     nick :> <<Item(nick, month, Unset)>>))) @@
  (router :> ("old" :> (router :> <<Routed(Item(v1, old, x), dated), Item(v1, four, y), Item(v3, new, x)>>) @@
              "new" :> (router :> <<>>)))

Catalog(o, c) ==
  [pages |-> c,
   told  |-> ToldOf(o, Pages[o][c], const_Models, NoDefinition),
   cut   |-> CutShort(o, Pages[o][c], const_Models, NoDefinition)]

const_Catalogs == [o \in {hub, router} |-> {Catalog(o, c) : c \in {"old", "new"}}]

\* These catalogs are of the kind ModelSyncProofs speaks of.
ASSUME CatalogsAreRead ==
  /\ Managed = ManagedVendors /\ NoVendor \notin ManagedVendors
  /\ Default \in Values \cup {Unset}
  /\ \A o \in Sources : \A c \in DOMAIN Pages[o] : \A p \in Range(Pages[o][c]) : AreItems(Range(p))

\* A row of every old model, from times when the hub said more of it.
const_Leftovers ==
  {[m \in const_Models |->
      IF m[2] = new THEN NoDefinition
      ELSE [says |-> Says(y), aliases |-> {four}, sources |-> {hub}]]}

const_Aliases == {dated, month, four}

const_Unwanted == [o \in {hub, router} |-> {"gguf"}]

const_Guessed == (hub :> <<>>) @@ (router :> <<>>)

const_Titled == v1 :> Title

const_Joined == ("3" :> "qwen3")

MCInit == Init /\ \A o \in Sources : offers[o].pages = "old"

\* Rows of vendor v that name resolves to.
Rows(v, name) ==
  {m \in Models : /\ m[1] = v /\ registry[m] # NoDefinition
                  /\ name = m[2] \/ name \in registry[m].aliases}

\* The name of a published, released text model of v1 finds one row, and a
\* row the source is named on; only a name that is not the hub's first one
\* for the model need not.
Resolves(o, item) ==
  \/ \E m \in Models : Rows(v1, item.name) = {m} /\ o \in registry[m].sources
  \/ /\ o = hub
     /\ \E p \in Range(Pages[o][offers[o].pages]) : \E i \in DOMAIN p :
          /\ p[i] # item /\ Head(p[i].name) = Head(item.name)
          /\ Cardinality(Rows(v1, p[i].name)) = 1

\* Whoever knows a model by the name a source publishes it under comes to
\* find it, whatever release suffix, vendor nickname or route that source
\* writes, and however many sources and syncs speak of it at once.
NamesResolve ==
  <>[]\A o \in Sources : \A p \in Range(Pages[o][offers[o].pages]) : \A i \in DOMAIN p :
        p[i].owner \in {v1, nick} /\ ~ HasToken(p[i].name, {"preview"}) => Resolves(o, p[i])

MCSpec == MCInit /\ [][Next]_vars /\ Fairness

=============================================================================
