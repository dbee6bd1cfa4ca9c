-------------------------- MODULE UpstreamRegistry --------------------------
(***************************************************************************)
(* The upstream registry (src/src/service/upstream-registry.ts): producer  *)
(* plugins register upstream model sources under an id they own, and the   *)
(* gateway reads a catalog of what is registered.  A producer acts under   *)
(* an authority <<plugin, generation>>; binding a new generation of a      *)
(* plugin fences every older one.  Every operation is synchronous, so one  *)
(* action is one call.                                                     *)
(*                                                                         *)
(* A call the code answers with a rejection changes nothing and is not a   *)
(* step.  The fields of a descriptor that are only checked one by one      *)
(* (contract, names, orders, timeouts, ranges) are the flag wellFormed.    *)
(***************************************************************************)
EXTENDS Integers, Sequences, FiniteSets

CONSTANTS
  Upstreams,          \* upstream ids
  Plugins,            \* ids of the producing plugins
  Generations,        \* plugin generations
  Sources,            \* keys of managed-service sources
  GatewayPrefixes,    \* gateway prefixes, the default ones (ids) included
  Groups,             \* group ids
  Descriptors,        \* the descriptors producers may submit
  MaxModels,          \* MAX_MODELS
  MaxRegistrations,   \* MAX_REGISTRATIONS
  MaxRevision,        \* bound of the model on the registry's revision counter
  Absent,             \* no entry under this upstream id
  NoGeneration,       \* no live generation of this plugin
  NoPrefix            \* the descriptor leaves its prefix out

\* One model route of a descriptor; meta is its public display name and input
\* modalities, the data pooled routes must agree on.
Routes == [source : Nat, model : Nat, enabled : BOOLEAN, default : BOOLEAN, meta : Nat]

\* A descriptor; groupMeta is the group's display name and order.
DescriptorType ==
  [id : Upstreams, revision : Nat, enabled : BOOLEAN,
   prefix : GatewayPrefixes \cup {NoPrefix}, group : Groups, groupMeta : Int, order : Int,
   wireApi : {"responses", "chat-completions"}, wellFormed : BOOLEAN,
   routes : Seq(Routes)]

EntryType ==
  [plugin : Plugins, generation : Generations, source : Sources,
   descriptor : Descriptors]

ASSUME ConstantsAssumption ==
  /\ Descriptors \subseteq DescriptorType
  /\ Upstreams \subseteq GatewayPrefixes
  /\ IsFiniteSet(Upstreams)
  /\ MaxRegistrations \in Nat
  /\ MaxModels \in Nat
  /\ MaxRevision \in Nat
  /\ Absent \notin EntryType
  /\ NoGeneration \notin Generations
  /\ NoPrefix \notin GatewayPrefixes

VARIABLES
  entries,       \* the entry of each upstream id, or Absent
  generation,    \* the live generation of each plugin (producerGenerations)
  revision,      \* the registry's own revision counter
  disposed,      \* the registry was disposed
  subscribed,    \* a listener is subscribed
  seen           \* the revision that listener last read: when it subscribed or
                 \* was last notified

vars == <<entries, generation, revision, disposed, subscribed, seen>>

-----------------------------------------------------------------------------
(* Descriptors                                                             *)

Enabled(d) == {i \in DOMAIN d.routes : d.routes[i].enabled}

\* validateDescriptor: no source model twice, at least one enabled route, routes
\* pooled under one public model agree on what is shown, at most one default.
ValidDescriptor(d) ==
  /\ d.wellFormed
  /\ d.revision >= 1
  /\ Len(d.routes) \in 1 .. MaxModels
  /\ \A i, j \in DOMAIN d.routes :
       d.routes[i].source = d.routes[j].source => i = j
  /\ Enabled(d) # {}
  /\ \A i, j \in Enabled(d) :
       d.routes[i].model = d.routes[j].model =>
         /\ d.routes[i].meta = d.routes[j].meta
         /\ d.routes[i].default = d.routes[j].default
  /\ \A i, j \in Enabled(d) :
       d.routes[i].default /\ d.routes[j].default =>
         d.routes[i].model = d.routes[j].model

\* The prefix the upstream's models are served under.
EffectivePrefix(d) == IF d.prefix = NoPrefix THEN d.id ELSE d.prefix

\* Why two upstreams cannot be registered side by side.
SamePrefix(d, e) ==
  d.enabled /\ e.enabled /\ EffectivePrefix(d) = EffectivePrefix(e)

InconsistentGroup(d, e) ==
  d.enabled /\ e.enabled /\ d.group = e.group /\ d.groupMeta # e.groupMeta

-----------------------------------------------------------------------------
(* State and guards                                                        *)

Registered == {u \in Upstreams : entries[u] # Absent}

\* generationFailure: the authority is the plugin's live generation.
Live(p, g) == ~disposed /\ generation[p] = g

OwnedBy(u, p, g) == entries[u].plugin = p /\ entries[u].generation = g

\* Mutant: prefixes compared as submitted, so a default one never collides.
ConflictingRawPrefix(d, s) ==
  \E u \in Registered \ {d.id} :
    \/ entries[u].source = s
    \/ /\ entries[u].descriptor.enabled /\ d.enabled
       /\ entries[u].descriptor.prefix # NoPrefix
       /\ entries[u].descriptor.prefix = d.prefix
    \/ InconsistentGroup(entries[u].descriptor, d)

\* Mutant: what an entry says of its group is not compared.
ConflictingAnyGroup(d, s) ==
  \E u \in Registered \ {d.id} :
    entries[u].source = s \/ SamePrefix(entries[u].descriptor, d)

\* The loop of register over the entries of the other upstream ids.
Conflicting(d, s) ==
  \E u \in Registered \ {d.id} :
    \/ entries[u].source = s
    \/ SamePrefix(entries[u].descriptor, d)
    \/ InconsistentGroup(entries[u].descriptor, d)

Init ==
  /\ entries = [u \in Upstreams |-> Absent]
  /\ generation = [p \in Plugins |-> NoGeneration]
  /\ revision = 0
  /\ disposed = FALSE
  /\ subscribed = FALSE
  /\ seen = 0

\* revision += 1 and notify(): a subscribed listener hears the new revision.
Announce ==
  /\ revision < MaxRevision
  /\ revision' = revision + 1
  /\ seen' = IF subscribed THEN revision' ELSE seen
  /\ UNCHANGED <<disposed, subscribed>>

Silent == UNCHANGED <<revision, seen, disposed, subscribed>>

-----------------------------------------------------------------------------
(* Operations                                                              *)

\* What lets a descriptor replace the entry under its id, or take a free id.
Admissible(p, g, d) ==
  IF entries[d.id] = Absent
    THEN Cardinality(Registered) < MaxRegistrations
    ELSE /\ OwnedBy(d.id, p, g)
         /\ d.revision > entries[d.id].descriptor.revision

\* Mutant: the descriptor is not validated.
RegisterUnvalidated(p, g, d, s) ==
  /\ Live(p, g)
  /\ Admissible(p, g, d)
  /\ ~Conflicting(d, s)
  /\ entries' = [entries EXCEPT ![d.id] =
                   [plugin |-> p, generation |-> g, source |-> s, descriptor |-> d]]
  /\ Announce
  /\ UNCHANGED generation

\* register: answers 'registered' or 'updated'.
Register(p, g, d, s) ==
  /\ Live(p, g)
  /\ ValidDescriptor(d)
  /\ Admissible(p, g, d)
  /\ ~Conflicting(d, s)
  /\ entries' = [entries EXCEPT ![d.id] =
                   [plugin |-> p, generation |-> g, source |-> s, descriptor |-> d]]
  /\ Announce
  /\ UNCHANGED generation

\* register answers 'unchanged': the owner submits again what is stored.
RegisterUnchanged(p, g, d, s) ==
  /\ Live(p, g)
  /\ entries[d.id] # Absent
  /\ OwnedBy(d.id, p, g)
  /\ ValidDescriptor(d)
  /\ d = entries[d.id].descriptor
  /\ s = entries[d.id].source

\* What revoke asks of the caller: the owner, naming the revision it saw.
MayRevoke(p, g, u, expected) ==
  /\ Live(p, g)
  /\ entries[u] # Absent
  /\ OwnedBy(u, p, g)
  /\ expected = entries[u].descriptor.revision

Revoke(p, g, u, expected) ==
  /\ MayRevoke(p, g, u, expected)
  /\ entries' = [entries EXCEPT ![u] = Absent]
  /\ Announce
  /\ UNCHANGED generation

\* Mutant: the revision moves and nobody is told.
RemoveEntriesUntold(us) ==
  /\ entries' = [u \in Upstreams |-> IF u \in us THEN Absent ELSE entries[u]]
  /\ IF us = {} THEN Silent
               ELSE /\ revision < MaxRevision
                    /\ revision' = revision + 1
                    /\ UNCHANGED <<seen, disposed, subscribed>>

\* Mutant: the removal is not announced at all.
RemoveEntriesSilent(us) ==
  /\ entries' = [u \in Upstreams |-> IF u \in us THEN Absent ELSE entries[u]]
  /\ Silent

\* Drop the entries of the ids in us; only a real removal is announced.
RemoveEntries(us) ==
  /\ entries' = [u \in Upstreams |-> IF u \in us THEN Absent ELSE entries[u]]
  /\ IF us = {} THEN Silent ELSE Announce

EntriesOf(p) == {u \in Registered : entries[u].plugin = p}

\* Mutant: the entries of the replaced generation stay.
ActivateProducerKeeping(p, g) ==
  /\ ~disposed
  /\ generation[p] # g
  /\ generation' = [generation EXCEPT ![p] = g]
  /\ RemoveEntries({})

\* activateProducer: a new generation of p drops everything p registered.
ActivateProducer(p, g) ==
  /\ ~disposed
  /\ generation[p] # g
  /\ generation' = [generation EXCEPT ![p] = g]
  /\ RemoveEntries(EntriesOf(p))

\* Mutant: the plugin keeps its authority.
DisposeProducerKeeping(p, g) ==
  /\ Live(p, g)
  /\ UNCHANGED generation
  /\ RemoveEntries({u \in Registered : OwnedBy(u, p, g)})

\* Mutant: the generation is not fenced, so a late disposal hits the newer one.
DisposeProducerUnfenced(p, g) ==
  /\ ~disposed
  /\ generation' = [generation EXCEPT ![p] = NoGeneration]
  /\ RemoveEntries(EntriesOf(p))

\* disposeProducer: the live generation of p leaves, with what it registered.
DisposeProducer(p, g) ==
  /\ Live(p, g)
  /\ generation' = [generation EXCEPT ![p] = NoGeneration]
  /\ RemoveEntries({u \in Registered : OwnedBy(u, p, g)})

Subscribe ==
  /\ ~disposed
  /\ ~subscribed
  /\ subscribed' = TRUE
  /\ seen' = revision
  /\ UNCHANGED <<entries, generation, revision, disposed>>

Unsubscribe ==
  /\ subscribed
  /\ subscribed' = FALSE
  /\ UNCHANGED <<entries, generation, revision, disposed, seen>>

\* dispose: everything is cleared, the listeners too, and nobody is told.
Dispose ==
  /\ ~disposed
  /\ disposed' = TRUE
  /\ entries' = [u \in Upstreams |-> Absent]
  /\ generation' = [p \in Plugins |-> NoGeneration]
  /\ subscribed' = FALSE
  /\ revision' = revision + 1
  /\ UNCHANGED seen

\* Every call a producer holding the authority <<p, g>> can make.
ProducerStep(p, g) ==
  \/ ActivateProducer(p, g)
  \/ DisposeProducer(p, g)
  \/ \E d \in Descriptors, s \in Sources : Register(p, g, d, s)
  \/ \E u \in Upstreams : \E expected \in {d.revision : d \in Descriptors} :
       Revoke(p, g, u, expected)

Next ==
  \/ \E p \in Plugins, g \in Generations : ProducerStep(p, g)
  \/ Subscribe
  \/ Unsubscribe
  \/ Dispose

Spec == Init /\ [][Next]_vars

-----------------------------------------------------------------------------
(* Properties                                                              *)

\* Every variable has its type, and an entry sits under its descriptor's id.
TypeOK ==
  /\ entries \in [Upstreams -> EntryType \cup {Absent}]
  /\ \A u \in Registered : entries[u].descriptor.id = u
  /\ generation \in [Plugins -> Generations \cup {NoGeneration}]
  /\ revision \in Nat
  /\ disposed \in BOOLEAN
  /\ subscribed \in BOOLEAN
  /\ seen \in Nat

\* No sequence of registrations, updates, revocations and generation changes
\* leaves two upstreams on one managed source, two enabled upstreams behind one
\* gateway prefix (a default prefix being the other's id counts), or two
\* enabled upstreams that describe their common group differently.
NoConflicts ==
  \A u, v \in Registered :
    u # v =>
      /\ entries[u].source # entries[v].source
      /\ ~SamePrefix(entries[u].descriptor, entries[v].descriptor)
      /\ ~InconsistentGroup(entries[u].descriptor, entries[v].descriptor)

\* Every entry belongs to the live generation of its plugin: nothing survives
\* the generation that registered it, and nothing is left without an owner.
EntriesFenced ==
  \A u \in Registered : Live(entries[u].plugin, entries[u].generation)

\* The registry never holds more entries than MAX_REGISTRATIONS.
WithinCapacity == Cardinality(Registered) <= MaxRegistrations

\* A producer that lost the answer to a registration may repeat it: for every
\* entry, submitting it once more under its owner's authority is answered
\* 'unchanged', whatever others did in between.
RetryIsUnchanged ==
  \A u \in Registered :
    RegisterUnchanged(entries[u].plugin, entries[u].generation,
                      entries[u].descriptor, entries[u].source)

\* A listener that reads the registry when it subscribes and whenever it is
\* notified knows the current revision until the registry is disposed.
ListenerIsCurrent == subscribed => seen = revision

\* While an id stays registered it keeps its owner, and its descriptor only
\* moves to a higher revision.
EntryGrows(u) ==
  entries[u] # Absent /\ entries'[u] # Absent /\ entries'[u] # entries[u] =>
    /\ entries'[u].plugin = entries[u].plugin
    /\ entries'[u].generation = entries[u].generation
    /\ entries'[u].descriptor.revision > entries[u].descriptor.revision

RevisionsGrow == [][\A u \in Upstreams : EntryGrows(u)]_vars

\* A call made by one plugin never changes, revokes or drops what another
\* plugin registered.
OthersKept(p) ==
  \A u \in Registered : entries[u].plugin # p => entries'[u] = entries[u]

NoInterference ==
  [][\A p \in Plugins :
       (\E g \in Generations : ProducerStep(p, g)) => OthersKept(p)]_vars

\* Readers may rely on the revision: the registry implements a versioned store.
Store == INSTANCE VersionedStore
           WITH Empty <- [u \in Upstreams |-> Absent],
                content <- entries, version <- revision, closed <- disposed

RevisionTracksContent == Store!Spec
=============================================================================
