---------------------------- MODULE UpstreamPlan ----------------------------
(***************************************************************************)
(* What the registry hands its readers: catalog() and gatewayPlan(), the   *)
(* two projections of the enabled entries the gateway is built from.  Both *)
(* are computed from the same entries by different code, and the plan      *)
(* names configuration slots by position, so they have to agree entry by   *)
(* entry whatever the registrations were.                                  *)
(***************************************************************************)
EXTENDS UpstreamRegistry, Sorting, SequencesExt

CONSTANT Rank       \* the alphabetical position of every id: upstream or group

ASSUME RankAssumption ==
  /\ Rank \in [Upstreams \cup Groups -> Nat]
  /\ \A u, v \in Upstreams : Rank[u] = Rank[v] => u = v
  /\ \A g, h \in Groups : Rank[g] = Rank[h] => g = h

Active == {u \in Registered : entries[u].descriptor.enabled}

Desc(u) == entries[u].descriptor

\* compareOrderThenId
OrderThenId(order1, id1, order2, id2) ==
  \/ order1 < order2
  \/ order1 = order2 /\ Rank[id1] < Rank[id2]

GroupBefore(u, v) ==
  OrderThenId(Desc(u).groupMeta, Desc(u).group, Desc(v).groupMeta, Desc(v).group)

ProviderBefore(u, v) == OrderThenId(Desc(u).order, u, Desc(v).order, v)

\* activeEntries: the enabled entries by group, then by their own order.
ActiveBefore(u, v) ==
  \/ GroupBefore(u, v)
  \/ ~GroupBefore(v, u) /\ ProviderBefore(u, v)

ActiveEntries == Sorted(Active, ActiveBefore)

PublicModels(u) == {Desc(u).routes[i].model : i \in Enabled(Desc(u))}

-----------------------------------------------------------------------------
(* catalog()                                                               *)

\* A provider's public models, each with the source models pooled behind it.
Provider(u) ==
  [provider |-> u,
   prefix |-> EffectivePrefix(Desc(u)),
   models |->
     {[gatewayModel |-> <<EffectivePrefix(Desc(u)), m>>,
       sourceModels |-> {Desc(u).routes[i].source :
                           i \in {j \in Enabled(Desc(u)) : Desc(u).routes[j].model = m}}] :
        m \in PublicModels(u)}]

Members(g) == {u \in Active : Desc(u).group = g}

\* The groups map: one group per id, described by the last of its entries.
CatalogGroup(g) ==
  LET last == CHOOSE u \in Members(g) : \A v \in Members(g) \ {u} : ActiveBefore(v, u)
      sorted == Sorted(Members(g), ProviderBefore)
  IN  [group |-> g,
       meta |-> Desc(last).groupMeta,
       providers |-> [i \in DOMAIN sorted |-> Provider(sorted[i])]]

Catalog ==
  LET used == {Desc(u).group : u \in Active}
      before(g, h) == OrderThenId(g.meta, g.group, h.meta, h.group)
  IN  [registryRevision |-> revision,
       upstreamRevisions |-> [u \in Active |-> Desc(u).revision],
       groups |-> Sorted({CatalogGroup(g) : g \in used}, before)]

-----------------------------------------------------------------------------
(* gatewayPlan()                                                           *)

\* Mutant: the routes switched off are served too.
SlotOfAllRoutes(u) ==
  [name |-> u,
   prefix |-> EffectivePrefix(Desc(u)),
   models |-> {[name |-> Desc(u).routes[i].source, alias |-> Desc(u).routes[i].model] :
                 i \in DOMAIN Desc(u).routes}]

\* A configuration slot; its origin and key are filled in through pointers.
Slot(u) ==
  [name |-> u,
   prefix |-> EffectivePrefix(Desc(u)),
   models |-> {[name |-> Desc(u).routes[i].source, alias |-> Desc(u).routes[i].model] :
                 i \in Enabled(Desc(u))}]

EmptyPlan == [responses |-> <<>>, chat |-> <<>>, composition |-> <<>>]

\* Mutant: the position is counted over both collections.
ComposeEntryGlobalIndex(plan, u) ==
  LET responses == Desc(u).wireApi = "responses"
      composed == [upstream |-> u, source |-> entries[u].source,
                   collection |-> Desc(u).wireApi, index |-> Len(plan.composition)]
  IN  [responses |-> IF responses THEN Append(plan.responses, Slot(u)) ELSE plan.responses,
       chat |-> IF responses THEN plan.chat ELSE Append(plan.chat, Slot(u)),
       composition |-> Append(plan.composition, composed)]

\* One turn of the loop: push the slot on the collection of its wire API and
\* compose the entry's source with the position it was pushed at.
ComposeEntry(plan, u) ==
  LET responses == Desc(u).wireApi = "responses"
      collection == IF responses THEN plan.responses ELSE plan.chat
      composed == [upstream |-> u, source |-> entries[u].source,
                   collection |-> Desc(u).wireApi, index |-> Len(collection)]
  IN  [responses |-> IF responses THEN Append(plan.responses, Slot(u)) ELSE plan.responses,
       chat |-> IF responses THEN plan.chat ELSE Append(plan.chat, Slot(u)),
       composition |-> Append(plan.composition, composed)]

GatewayPlan == FoldLeft(ComposeEntry, EmptyPlan, ActiveEntries)

\* The slot a composition's pointers address (they count from zero).
Addressed(plan, c) ==
  IF c.collection = "responses" THEN plan.responses[c.index + 1] ELSE plan.chat[c.index + 1]

-----------------------------------------------------------------------------
(* Properties                                                              *)

Providers(catalog) ==
  UNION {ToSet(catalog.groups[i].providers) : i \in DOMAIN catalog.groups}

\* Every source is bound into the slot of its own upstream, on the collection of
\* its wire API, no two into one slot, and no slot is left without a source: a
\* credential never reaches another upstream's base URL.
PointersResolve ==
  LET plan == GatewayPlan IN
    /\ \A i \in DOMAIN plan.composition :
         LET c == plan.composition[i] IN
           /\ c.index < Len(IF c.collection = "responses" THEN plan.responses ELSE plan.chat)
           /\ Addressed(plan, c).name = c.upstream
           /\ c.source = entries[c.upstream].source
    /\ Len(plan.composition) = Len(plan.responses) + Len(plan.chat)

\* The catalog the UI shows and the gateway validates against, and the
\* configuration the gateway serves, name the same models over the same sources.
CatalogMatchesPlan ==
  LET plan == GatewayPlan
      slots == ToSet(plan.responses) \cup ToSet(plan.chat)
  IN  {[provider |-> p.provider, served |->
          {<<m.gatewayModel, m.sourceModels>> : m \in p.models}] : p \in Providers(Catalog)}
      = {[provider |-> s.name, served |->
            {<<<<s.prefix, a>>, {r.name : r \in {x \in s.models : x.alias = a}}>> :
               a \in {r.alias : r \in s.models}}] : s \in slots}

\* The places of the catalog, read group by group; whether one comes before another.
Places(groups) ==
  UNION {{<<i, k>> : k \in DOMAIN groups[i].providers} : i \in DOMAIN groups}

ReadBefore(a, b) == a[1] < b[1] \/ (a[1] = b[1] /\ a[2] < b[2])

\* Every enabled upstream is listed once, in the group it names, described as it
\* describes it; read group by group the catalog lists them in the plan's order.
GroupsAreFaithful ==
  LET groups == Catalog.groups
      composition == GatewayPlan.composition
      at(a) == groups[a[1]].providers[a[2]].provider
      position(u) == CHOOSE n \in DOMAIN composition : composition[n].upstream = u
  IN  /\ \A i \in DOMAIN groups : \A p \in ToSet(groups[i].providers) :
           /\ Desc(p.provider).group = groups[i].group
           /\ Desc(p.provider).groupMeta = groups[i].meta
      /\ {at(a) : a \in Places(groups)} = {c.upstream : c \in ToSet(composition)}
      /\ \A a, b \in Places(groups) : ReadBefore(a, b) => position(at(a)) < position(at(b))
=============================================================================
