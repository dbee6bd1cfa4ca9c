------------------------- MODULE ExtensionRegistry --------------------------
(***************************************************************************)
(* The gateway extension registry (extension-registry.ts) behind its       *)
(* context service (extension-context.ts).  Consumer plugins register      *)
(* adapters, which transform requests, and connections, which route models *)
(* to a managed source through one revision of an adapter; an adapter and  *)
(* the connections that name it may come from different plugins.  Every    *)
(* call goes through a registrar the Host bound for a plugin generation.   *)
(* Operations are synchronous: one action is one call, and a rejected call *)
(* is not a step.  The fields checked one by one are the flag wellFormed.  *)
(***************************************************************************)
EXTENDS Integers, Sequences, FiniteSets

CONSTANTS
  AdapterIds,
  ConnectionIds,
  Plugins,            \* ids of the producing plugins
  Generations,        \* plugin generations
  Sources,            \* keys of managed-service sources
  Adapters,           \* the adapters producers may submit
  Connections,        \* the connections producers may submit, without their source
  Registrars,         \* the registrars the Host may bind, each once
  MaxModels,          \* MAX_MODELS
  MaxAdapters,        \* MAX_ADAPTERS
  MaxConnections,     \* MAX_CONNECTIONS
  MaxRevision,        \* bound of the model on the registry's revision counter
  Absent,             \* no entry under this id
  NoGeneration,       \* no live generation of this plugin
  Unbound             \* a registrar not bound yet

AdapterType == [id : AdapterIds, revision : Nat, enabled : BOOLEAN, wellFormed : BOOLEAN]

ModelRoutes == [source : Nat, model : Nat, enabled : BOOLEAN, default : BOOLEAN]

\* A connection; bearer: it asks for the source's credential.
ConnectionType ==
  [id : ConnectionIds, revision : Nat, enabled : BOOLEAN, adapter : AdapterIds,
   adapterRevision : Nat, required : BOOLEAN, bearer : BOOLEAN, wellFormed : BOOLEAN,
   models : Seq(ModelRoutes)]

Authorities == [plugin : Plugins, generation : Generations]

AdapterEntry == [producer : Authorities, adapter : Adapters]

ConnectionEntry == [producer : Authorities, source : Sources, connection : Connections]

ASSUME ConstantsAssumption ==
  /\ Adapters \subseteq AdapterType
  /\ Connections \subseteq ConnectionType
  /\ IsFiniteSet(AdapterIds) /\ IsFiniteSet(ConnectionIds)
  /\ MaxModels \in Nat /\ MaxAdapters \in Nat /\ MaxConnections \in Nat
  /\ MaxRevision \in Nat
  /\ Absent \notin AdapterEntry \cup ConnectionEntry
  /\ NoGeneration \notin Generations
  /\ Unbound \notin [producer : Authorities, disposed : BOOLEAN]

VARIABLES
  adapters,      \* the entry of each adapter id, or Absent
  connections,   \* the entry of each connection id, or Absent
  generation,    \* the live generation of each plugin (producerGenerations)
  revision,      \* the registry's own revision counter
  disposed,      \* the registry was disposed
  registrar,     \* each registrar: its producer and its own `disposed`, or Unbound
  subscribed,    \* a listener is subscribed
  seen           \* the revision that listener last read

vars == <<adapters, connections, generation, revision, disposed, registrar,
          subscribed, seen>>

-----------------------------------------------------------------------------
(* Validation                                                              *)

\* validateAdapter
ValidAdapter(a) == a.wellFormed /\ a.revision >= 1

EnabledModels(c) == {i \in DOMAIN c.models : c.models[i].enabled}

\* validateConnection: no model id and no source model twice, enabled or not, at
\* least one enabled route and at most one enabled default.
ValidConnection(c) ==
  /\ c.wellFormed
  /\ c.revision >= 1
  /\ c.adapterRevision >= 1
  /\ Len(c.models) \in 1 .. MaxModels
  /\ \A i, j \in DOMAIN c.models :
       \/ c.models[i].source = c.models[j].source
       \/ c.models[i].model = c.models[j].model
       => i = j
  /\ EnabledModels(c) # {}
  /\ Cardinality({i \in EnabledModels(c) : c.models[i].default}) <= 1

-----------------------------------------------------------------------------
(* State and guards                                                        *)

RegisteredAdapters == {a \in AdapterIds : adapters[a] # Absent}

RegisteredConnections == {c \in ConnectionIds : connections[c] # Absent}

Bound(r) == registrar[r] # Unbound

Producer(r) == registrar[r].producer

\* generationFailure: the registry lives and p is the live generation of its plugin.
Live(p) == ~disposed /\ generation[p.plugin] = p.generation

\* A registrar answers every call itself once it is disposed.
MayCall(r) == Bound(r) /\ ~registrar[r].disposed /\ Live(Producer(r))

\* What lets a submission replace the entry under its id (ownershipFailure and
\* revisionResult), or take a free id (the capacity left).
AdmissibleAdapter(r, a) ==
  IF adapters[a.id] = Absent
    THEN Cardinality(RegisteredAdapters) < MaxAdapters
    ELSE /\ adapters[a.id].producer = Producer(r)
         /\ a.revision > adapters[a.id].adapter.revision

AdmissibleConnection(r, c) ==
  IF connections[c.id] = Absent
    THEN Cardinality(RegisteredConnections) < MaxConnections
    ELSE /\ connections[c.id].producer = Producer(r)
         /\ c.revision > connections[c.id].connection.revision

\* Mutant: only the enabled connections occupy their source.
SourceTakenByEnabled(c, s) ==
  \E other \in RegisteredConnections \ {c.id} :
    connections[other].connection.enabled /\ connections[other].source = s

\* Another connection routes the source already.
SourceTaken(c, s) ==
  \E other \in RegisteredConnections \ {c.id} : connections[other].source = s

Init ==
  /\ adapters = [a \in AdapterIds |-> Absent]
  /\ connections = [c \in ConnectionIds |-> Absent]
  /\ generation = [p \in Plugins |-> NoGeneration]
  /\ revision = 0
  /\ disposed = FALSE
  /\ registrar = [r \in Registrars |-> Unbound]
  /\ subscribed = FALSE
  /\ seen = 0

\* changed(): the next revision, announced to the listener.
Changed ==
  /\ revision < MaxRevision
  /\ revision' = revision + 1
  /\ seen' = IF subscribed THEN revision' ELSE seen

-----------------------------------------------------------------------------
(* Operations                                                              *)

\* registerAdapter answers 'registered' or 'updated'.
RegisterAdapter(r, a) ==
  /\ MayCall(r)
  /\ ValidAdapter(a)
  /\ AdmissibleAdapter(r, a)
  /\ adapters' = [adapters EXCEPT ![a.id] = [producer |-> Producer(r), adapter |-> a]]
  /\ Changed
  /\ UNCHANGED <<connections, generation, disposed, registrar, subscribed>>

\* registerConnection answers 'registered' or 'updated'.  (Its test for a gateway
\* model of another connection never holds: the ids begin with the connection's.)
RegisterConnection(r, c, s) ==
  /\ MayCall(r)
  /\ ValidConnection(c)
  /\ AdmissibleConnection(r, c)
  /\ ~SourceTaken(c, s)
  /\ connections' = [connections EXCEPT ![c.id] =
                       [producer |-> Producer(r), source |-> s, connection |-> c]]
  /\ Changed
  /\ UNCHANGED <<adapters, generation, disposed, registrar, subscribed>>

RevokeAdapter(r, id, expected) ==
  /\ MayCall(r)
  /\ adapters[id] # Absent
  /\ adapters[id].producer = Producer(r)
  /\ adapters[id].adapter.revision = expected
  /\ adapters' = [adapters EXCEPT ![id] = Absent]
  /\ Changed
  /\ UNCHANGED <<connections, generation, disposed, registrar, subscribed>>

RevokeConnection(r, id, expected) ==
  /\ MayCall(r)
  /\ connections[id] # Absent
  /\ connections[id].producer = Producer(r)
  /\ connections[id].connection.revision = expected
  /\ connections' = [connections EXCEPT ![id] = Absent]
  /\ Changed
  /\ UNCHANGED <<adapters, generation, disposed, registrar, subscribed>>

\* Mutant: the adapters go and the connections stay.
RemoveEntriesOfAdapters(producers) ==
  LET gone(entry) == entry # Absent /\ entry.producer \in producers IN
    /\ adapters' = [a \in AdapterIds |-> IF gone(adapters[a]) THEN Absent ELSE adapters[a]]
    /\ UNCHANGED connections
    /\ IF adapters' = adapters THEN UNCHANGED <<revision, seen>> ELSE Changed

\* Mutant: only the removal of an adapter is announced.
RemoveEntriesAnnouncingAdapters(producers) ==
  LET gone(entry) == entry # Absent /\ entry.producer \in producers IN
    /\ adapters' = [a \in AdapterIds |-> IF gone(adapters[a]) THEN Absent ELSE adapters[a]]
    /\ connections' = [c \in ConnectionIds |->
                         IF gone(connections[c]) THEN Absent ELSE connections[c]]
    /\ IF adapters' = adapters THEN UNCHANGED <<revision, seen>> ELSE Changed

\* removeProducerEntries of these producers, and changed() if any entry went.
RemoveEntries(producers) ==
  LET gone(entry) == entry # Absent /\ entry.producer \in producers IN
    /\ adapters' = [a \in AdapterIds |-> IF gone(adapters[a]) THEN Absent ELSE adapters[a]]
    /\ connections' = [c \in ConnectionIds |->
                         IF gone(connections[c]) THEN Absent ELSE connections[c]]
    /\ IF adapters' = adapters /\ connections' = connections
         THEN UNCHANGED <<revision, seen>>
         ELSE Changed

\* bind: the Host creates a registrar, which activates its producer's generation.
Bind(r, p) ==
  /\ ~disposed
  /\ ~Bound(r)
  /\ registrar' = [registrar EXCEPT ![r] = [producer |-> p, disposed |-> FALSE]]
  /\ generation' = [generation EXCEPT ![p.plugin] = p.generation]
  /\ IF Live(p)
       THEN UNCHANGED <<adapters, connections, revision, seen>>
       ELSE RemoveEntries({q \in Authorities : q.plugin = p.plugin})
  /\ UNCHANGED <<disposed, subscribed>>

\* Mutant: disposeProducer goes by the plugin alone.
DisposeRegistrarOfPlugin(r) ==
  /\ Bound(r)
  /\ ~registrar[r].disposed
  /\ ~disposed
  /\ registrar' = [registrar EXCEPT ![r].disposed = TRUE]
  /\ generation' = [generation EXCEPT ![Producer(r).plugin] = NoGeneration]
  /\ RemoveEntries({q \in Authorities : q.plugin = Producer(r).plugin})
  /\ UNCHANGED <<disposed, subscribed>>

\* dispose of a registrar, by whoever holds it, its binding or the binding's signal:
\* disposeProducer, unless its generation was replaced.
DisposeRegistrar(r) ==
  /\ Bound(r)
  /\ ~registrar[r].disposed
  /\ registrar' = [registrar EXCEPT ![r].disposed = TRUE]
  /\ IF Live(Producer(r))
       THEN /\ generation' = [generation EXCEPT ![Producer(r).plugin] = NoGeneration]
            /\ RemoveEntries({Producer(r)})
       ELSE UNCHANGED <<generation, adapters, connections, revision, seen>>
  /\ UNCHANGED <<disposed, subscribed>>

Subscribe ==
  /\ ~disposed
  /\ ~subscribed
  /\ subscribed' = TRUE
  /\ seen' = revision
  /\ UNCHANGED <<adapters, connections, generation, revision, disposed, registrar>>

Unsubscribe ==
  /\ subscribed
  /\ subscribed' = FALSE
  /\ UNCHANGED <<adapters, connections, generation, revision, disposed, registrar, seen>>

\* The plugins whose entries go, and are announced, while the root disposes its
\* registrars one after the other.
DroppedByRegistrars ==
  LET owners == {adapters[a].producer : a \in RegisteredAdapters}
                  \cup {connections[c].producer : c \in RegisteredConnections}
  IN  {p \in owners :
         \E r \in Registrars : Bound(r) /\ ~registrar[r].disposed /\ Producer(r) = p}

\* dispose of the context's root: its registrars, then the registry, which announces
\* nothing.
DisposeRoot ==
  /\ ~disposed
  /\ disposed' = TRUE
  /\ adapters' = [a \in AdapterIds |-> Absent]
  /\ connections' = [c \in ConnectionIds |-> Absent]
  /\ generation' = [p \in Plugins |-> NoGeneration]
  /\ registrar' = [r \in Registrars |-> IF Bound(r) THEN [registrar[r] EXCEPT !.disposed = TRUE]
                                                    ELSE Unbound]
  /\ subscribed' = FALSE
  /\ revision' = revision + Cardinality(DroppedByRegistrars) + 1
  /\ seen' = IF subscribed /\ DroppedByRegistrars # {} THEN revision' - 1 ELSE seen

\* Every call the holder of a registrar can make.
RegistrarStep(r) ==
  \/ \E a \in Adapters : RegisterAdapter(r, a)
  \/ \E c \in Connections, s \in Sources : RegisterConnection(r, c, s)
  \/ \E a \in Adapters : RevokeAdapter(r, a.id, a.revision)
  \/ \E c \in Connections : RevokeConnection(r, c.id, c.revision)
  \/ DisposeRegistrar(r)

Next ==
  \/ \E r \in Registrars : RegistrarStep(r)
  \/ \E r \in Registrars, p \in Authorities : Bind(r, p)
  \/ Subscribe
  \/ Unsubscribe
  \/ DisposeRoot

Spec == Init /\ [][Next]_vars

-----------------------------------------------------------------------------
(* Properties                                                              *)

\* Nothing survives its producer: every adapter and every connection belongs to the
\* live generation of its plugin and was left by a registrar that is not disposed.
EntriesHaveRegistrars ==
  \A p \in {adapters[a].producer : a \in RegisteredAdapters}
             \cup {connections[c].producer : c \in RegisteredConnections} :
    /\ Live(p)
    /\ \E r \in Registrars : Bound(r) /\ Producer(r) = p /\ ~registrar[r].disposed

\* No sequence of registrations, updates, revocations and generation changes routes
\* one managed source through two connections, or passes either capacity.
SourcesExclusive ==
  /\ \A c, d \in RegisteredConnections :
       connections[c].source = connections[d].source => c = d
  /\ Cardinality(RegisteredAdapters) <= MaxAdapters
  /\ Cardinality(RegisteredConnections) <= MaxConnections

\* Disposing a registrar drops only what its own producer generation left, also when
\* it comes late, after a newer generation of the plugin took over.
DisposalIsLocal ==
  [][\A r \in Registrars : DisposeRegistrar(r) =>
       /\ \A a \in RegisteredAdapters :
            adapters[a].producer # Producer(r) => adapters'[a] = adapters[a]
       /\ \A c \in RegisteredConnections :
            connections[c].producer # Producer(r) => connections'[c] = connections[c]]_vars

\* Readers may rely on the revision: adapters and connections together are one
\* versioned store.
Store == INSTANCE VersionedStore
           WITH Empty <- <<[a \in AdapterIds |-> Absent], [c \in ConnectionIds |-> Absent]>>,
                content <- <<adapters, connections>>, version <- revision,
                closed <- disposed

RevisionTracksContent == Store!Spec
=============================================================================
