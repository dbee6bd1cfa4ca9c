-------------------------- MODULE ExtensionProofs ---------------------------
(***************************************************************************)
(* Proofs about ExtensionRegistry and ExtensionPlan, for all plugins,      *)
(* generations, sources, registrars and submissions.                       *)
(*                                                                         *)
(* The registry: two plugins share it without seeing each other.  What is  *)
(* registered belongs to a live generation with a registrar that is not    *)
(* disposed, one source is never routed twice, and readers find a new      *)
(* revision exactly when the content is new.                               *)
(*                                                                         *)
(* The plan: the position of a connection in the plan is where its source  *)
(* is written, so the bridge reads of each connection what was registered  *)
(* for it, and finds ready exactly what the plan enabled.                  *)
(***************************************************************************)
EXTENDS ExtensionPlan, FiniteSetTheorems, TLAPS

USE ConstantsAssumption

-----------------------------------------------------------------------------
(* The inductive invariant                                                 *)

Registrations == [producer : Authorities, disposed : BOOLEAN]

TypeOK ==
  /\ adapters \in [AdapterIds -> AdapterEntry \cup {Absent}]
  /\ \A a \in RegisteredAdapters : adapters[a].adapter.id = a
  /\ connections \in [ConnectionIds -> ConnectionEntry \cup {Absent}]
  /\ \A c \in RegisteredConnections : connections[c].connection.id = c
  /\ generation \in [Plugins -> Generations \cup {NoGeneration}]
  /\ revision \in Nat /\ seen \in Nat
  /\ disposed \in BOOLEAN /\ subscribed \in BOOLEAN
  /\ registrar \in [Registrars -> Registrations \cup {Unbound}]

\* p may have entries: its generation lives and a registrar of it does.
Served(p) ==
  /\ Live(p)
  /\ \E r \in Registrars : Bound(r) /\ Producer(r) = p /\ ~registrar[r].disposed

\* EntriesHaveRegistrars, entry by entry.
EntriesServed ==
  /\ \A a \in RegisteredAdapters : Served(adapters[a].producer)
  /\ \A c \in RegisteredConnections : Served(connections[c].producer)

IInv == TypeOK /\ EntriesServed /\ SourcesExclusive

-----------------------------------------------------------------------------
(* What a step does to the entries                                         *)

\* A registrar that is bound speaks for an authority.
LEMMA BoundProducer ==
  ASSUME TypeOK, NEW r \in Registrars, Bound(r)
  PROVE  /\ registrar[r] \in Registrations
         /\ Producer(r) \in Authorities
         /\ Producer(r).plugin \in Plugins /\ Producer(r).generation \in Generations
  BY DEF TypeOK, Bound, Producer, Registrations, Authorities

\* Two authorities of one plugin and one generation are one.
LEMMA SameAuthority ==
  ASSUME NEW p \in Authorities, NEW q \in Authorities,
         p.plugin = q.plugin, p.generation = q.generation
  PROVE  p = q
  BY DEF Authorities

\* What is submitted has the type of its entry and names its id.
LEMMA SubmittedTypes ==
  ASSUME NEW p \in Authorities, NEW s \in Sources
  PROVE  /\ \A a \in Adapters : /\ a.id \in AdapterIds
                                /\ [producer |-> p, adapter |-> a] \in AdapterEntry
         /\ \A c \in Connections :
              /\ c.id \in ConnectionIds
              /\ [producer |-> p, source |-> s, connection |-> c] \in ConnectionEntry
<1>1. \A a \in Adapters : a \in AdapterType
  OBVIOUS
<1>2. \A c \in Connections : c \in ConnectionType
  OBVIOUS
<1>3. QED
  BY <1>1, <1>2 DEF AdapterType, ConnectionType, AdapterEntry, ConnectionEntry

\* There are finitely many entries, so their numbers count them.
LEMMA RegisteredFinite ==
  /\ IsFiniteSet(RegisteredAdapters) /\ Cardinality(RegisteredAdapters) \in Nat
  /\ IsFiniteSet(RegisteredConnections) /\ Cardinality(RegisteredConnections) \in Nat
<1>1. IsFiniteSet(RegisteredAdapters)
  BY FS_Subset DEF RegisteredAdapters
<1>2. IsFiniteSet(RegisteredConnections)
  BY FS_Subset DEF RegisteredConnections
<1>3. QED
  BY <1>1, <1>2, FS_CardinalityType

Silent == UNCHANGED <<revision, seen>>

\* The ids in as and cs become free.
Frees(as, cs) ==
  /\ adapters' = [a \in AdapterIds |-> IF a \in as THEN Absent ELSE adapters[a]]
  /\ connections' = [c \in ConnectionIds |-> IF c \in cs THEN Absent ELSE connections[c]]

\* A step that takes entries away, and leaves those of every other authority with
\* their generation and their registrar.
Producers(as, cs) ==
  {adapters[a].producer : a \in as} \cup {connections[c].producer : c \in cs}

FreesOnly(as, cs) ==
  /\ Frees(as, cs)
  /\ IF as = {} /\ cs = {} THEN Silent ELSE ~disposed /\ Changed
  /\ generation' \in [Plugins -> Generations \cup {NoGeneration}]
  /\ registrar' \in [Registrars -> Registrations \cup {Unbound}]
  /\ UNCHANGED <<disposed, subscribed>>
  /\ \A q \in Producers(RegisteredAdapters \ as, RegisteredConnections \ cs) :
       Served(q) => Served(q)'

FreeStep ==
  \E as \in SUBSET RegisteredAdapters, cs \in SUBSET RegisteredConnections : FreesOnly(as, cs)

\* Every entry was left by an authority.
LEMMA EntryProducers ==
  ASSUME TypeOK
  PROVE  Producers(RegisteredAdapters, RegisteredConnections) \subseteq Authorities
  BY DEF TypeOK, RegisteredAdapters, RegisteredConnections, AdapterEntry, ConnectionEntry,
         Producers

\* The ids whose entries these producers left.
AdaptersOf(producers) == {a \in RegisteredAdapters : adapters[a].producer \in producers}

ConnectionsOf(producers) ==
  {c \in RegisteredConnections : connections[c].producer \in producers}

\* removeProducerEntries frees exactly these ids, and announces it if there are any.
LEMMA RemovedEntries ==
  ASSUME TypeOK, NEW producers, RemoveEntries(producers)
  PROVE  /\ Frees(AdaptersOf(producers), ConnectionsOf(producers))
         /\ IF AdaptersOf(producers) = {} /\ ConnectionsOf(producers) = {}
              THEN Silent ELSE Changed
<1>1. Frees(AdaptersOf(producers), ConnectionsOf(producers))
  BY DEF RemoveEntries, Frees, AdaptersOf, ConnectionsOf, RegisteredAdapters,
         RegisteredConnections
<1>2. adapters' = adapters <=> AdaptersOf(producers) = {}
  BY <1>1 DEF Frees, AdaptersOf, RegisteredAdapters, TypeOK
<1>3. connections' = connections <=> ConnectionsOf(producers) = {}
  BY <1>1 DEF Frees, ConnectionsOf, RegisteredConnections, TypeOK
<1>4. QED
  BY <1>1, <1>2, <1>3 DEF RemoveEntries, Silent

\* A revocation takes away one entry, and no registrar.
LEMMA RevokeFrees ==
  ASSUME TypeOK, NEW r \in Registrars, NEW id, NEW expected,
         \/ id \in AdapterIds /\ RevokeAdapter(r, id, expected)
         \/ id \in ConnectionIds /\ RevokeConnection(r, id, expected)
  PROVE  FreeStep
<1>1. CASE id \in AdapterIds /\ RevokeAdapter(r, id, expected)
  <2>1. Frees({id}, {}) /\ id \in RegisteredAdapters
    BY <1>1 DEF RevokeAdapter, Frees, RegisteredAdapters, TypeOK
  <2>2. /\ ~disposed /\ Changed
        /\ UNCHANGED <<generation, registrar, disposed, subscribed>>
    BY <1>1 DEF RevokeAdapter, MayCall, Live
  <2>3. {id} \in SUBSET RegisteredAdapters /\ {} \in SUBSET RegisteredConnections /\ {id} # {}
    BY <2>1
  <2>4. ASSUME NEW p, Served(p) PROVE Served(p)'
    BY <2>2, <2>4 DEF Served, Live, Bound, Producer
  <2>5. FreesOnly({id}, {})
    BY <2>1, <2>2, <2>3, <2>4 DEF FreesOnly, TypeOK
  <2>6. QED
    BY <2>3, <2>5 DEF FreeStep
<1>2. CASE id \in ConnectionIds /\ RevokeConnection(r, id, expected)
  <2>1. Frees({}, {id}) /\ id \in RegisteredConnections
    BY <1>2 DEF RevokeConnection, Frees, RegisteredConnections, TypeOK
  <2>2. /\ ~disposed /\ Changed
        /\ UNCHANGED <<generation, registrar, disposed, subscribed>>
    BY <1>2 DEF RevokeConnection, MayCall, Live
  <2>3. {} \in SUBSET RegisteredAdapters /\ {id} \in SUBSET RegisteredConnections /\ {id} # {}
    BY <2>1
  <2>4. ASSUME NEW p, Served(p) PROVE Served(p)'
    BY <2>2, <2>4 DEF Served, Live, Bound, Producer
  <2>5. FreesOnly({}, {id})
    BY <2>1, <2>2, <2>3, <2>4 DEF FreesOnly, TypeOK
  <2>6. QED
    BY <2>3, <2>5 DEF FreeStep
<1>3. QED
  BY <1>1, <1>2

\* Binding a registrar takes away what older generations of its plugin left.
LEMMA BindFrees ==
  ASSUME TypeOK, NEW r \in Registrars, NEW p \in Authorities, Bind(r, p)
  PROVE  FreeStep
<1>1. /\ ~disposed /\ ~Bound(r) /\ UNCHANGED <<disposed, subscribed>>
      /\ registrar' = [registrar EXCEPT ![r] = [producer |-> p, disposed |-> FALSE]]
      /\ generation' = [generation EXCEPT ![p.plugin] = p.generation]
  BY DEF Bind
<1>2. [producer |-> p, disposed |-> FALSE] \in Registrations
  BY DEF Registrations
<1>3. /\ registrar' \in [Registrars -> Registrations \cup {Unbound}]
      /\ \A q \in Registrars \ {r} : registrar'[q] = registrar[q]
  BY <1>1, <1>2 DEF TypeOK
<1>4. /\ p.plugin \in Plugins /\ p.generation \in Generations
      /\ generation' \in [Plugins -> Generations \cup {NoGeneration}]
      /\ \A q \in Plugins \ {p.plugin} : generation'[q] = generation[q]
  BY <1>1 DEF TypeOK, Authorities
<1>5. ASSUME NEW q \in Authorities, Served(q), q.plugin # p.plugin \/ Live(p)
      PROVE  Served(q)'
  <2>1. q.plugin \in Plugins
    BY DEF Authorities
  <2>2. generation'[q.plugin] = generation[q.plugin]
    <3>1. CASE q.plugin # p.plugin
      BY <1>4, <2>1, <3>1
    <3>2. CASE Live(p)
      BY <1>1, <1>4, <2>1, <3>2 DEF Live, TypeOK
    <3>3. QED
      BY <1>5, <3>1, <3>2
  <2>3. PICK o \in Registrars : Bound(o) /\ Producer(o) = q /\ ~registrar[o].disposed
    BY <1>5 DEF Served
  <2>4. o # r /\ registrar'[o] = registrar[o]
    BY <1>1, <1>3, <2>3
  <2>5. QED
    BY <1>1, <1>5, <2>2, <2>3, <2>4 DEF Served, Live, Bound, Producer
<1>6. Producers(RegisteredAdapters, RegisteredConnections) \subseteq Authorities
  BY EntryProducers
<1>7. CASE Live(p)
  <2>1. Frees({}, {}) /\ Silent
    BY <1>1, <1>7 DEF Bind, Frees, Silent, TypeOK
  <2>2. {} \in SUBSET RegisteredAdapters /\ {} \in SUBSET RegisteredConnections
    OBVIOUS
  <2>3. FreesOnly({}, {})
    BY <1>1, <1>3, <1>4, <1>5, <1>6, <1>7, <2>1, <2>2 DEF FreesOnly, Producers
  <2>4. QED
    BY <2>2, <2>3 DEF FreeStep
<1>8. CASE ~Live(p)
  <2> DEFINE producers == {q \in Authorities : q.plugin = p.plugin}
             as == AdaptersOf(producers)
             cs == ConnectionsOf(producers)
  <2>1. Frees(as, cs) /\ IF as = {} /\ cs = {} THEN Silent ELSE Changed
    BY <1>8, RemovedEntries DEF Bind
  <2>2. as \in SUBSET RegisteredAdapters /\ cs \in SUBSET RegisteredConnections
    BY DEF AdaptersOf, ConnectionsOf
  <2>3. \A q \in Producers(RegisteredAdapters \ as, RegisteredConnections \ cs) :
          Served(q) => Served(q)'
    BY <1>5, <1>6 DEF AdaptersOf, ConnectionsOf, Producers
  <2> HIDE DEF as, cs
  <2>4. FreesOnly(as, cs)
    BY <1>1, <1>3, <1>4, <2>1, <2>2, <2>3 DEF FreesOnly
  <2>5. QED
    BY <2>2, <2>4 DEF FreeStep
<1>9. QED
  BY <1>7, <1>8

\* A registrar that is disposed takes away what its own generation left, if that is
\* the live one still, and nothing otherwise.
LEMMA DisposeRegistrarFrees ==
  ASSUME TypeOK, NEW r \in Registrars, DisposeRegistrar(r)
  PROVE  FreeStep
<1> DEFINE p == Producer(r)
<1>1. /\ Bound(r) /\ UNCHANGED <<disposed, subscribed>>
      /\ registrar' = [registrar EXCEPT ![r].disposed = TRUE]
  BY DEF DisposeRegistrar
<1>2. registrar[r] \in Registrations /\ p \in Authorities
  BY <1>1, BoundProducer
<1>3. /\ registrar' \in [Registrars -> Registrations \cup {Unbound}]
      /\ \A q \in Registrars \ {r} : registrar'[q] = registrar[q]
  <2>1. [registrar[r] EXCEPT !.disposed = TRUE] \in Registrations
    BY <1>2 DEF Registrations
  <2>2. QED
    BY <1>1, <2>1 DEF TypeOK
<1>4. Producers(RegisteredAdapters, RegisteredConnections) \subseteq Authorities
  BY EntryProducers
<1>5. ASSUME NEW q \in Authorities, Served(q), q # p,
             generation'[q.plugin] = generation[q.plugin]
      PROVE  Served(q)'
  <2>1. PICK o \in Registrars : Bound(o) /\ Producer(o) = q /\ ~registrar[o].disposed
    BY <1>5 DEF Served
  <2>2. o # r /\ registrar'[o] = registrar[o]
    BY <1>3, <1>5, <2>1
  <2>3. QED
    BY <1>1, <1>5, <2>1, <2>2 DEF Served, Live, Bound, Producer
<1>6. CASE Live(p)
  <2>1. /\ generation' = [generation EXCEPT ![p.plugin] = NoGeneration]
        /\ RemoveEntries({p}) /\ ~disposed
    BY <1>6 DEF DisposeRegistrar, Live
  <2>2. /\ generation' \in [Plugins -> Generations \cup {NoGeneration}]
        /\ \A q \in Plugins \ {p.plugin} : generation'[q] = generation[q]
    BY <2>1 DEF TypeOK
  <2>3. ASSUME NEW q \in Authorities, Served(q), q # p
        PROVE  Served(q)'
    <3>1. q.plugin # p.plugin
      BY <1>2, <1>6, <2>3, SameAuthority DEF Served, Live
    <3>2. q.plugin \in Plugins
      BY DEF Authorities
    <3>3. QED
      BY <1>5, <2>2, <2>3, <3>1, <3>2
  <2> DEFINE as == AdaptersOf({p})
             cs == ConnectionsOf({p})
  <2>4. Frees(as, cs) /\ IF as = {} /\ cs = {} THEN Silent ELSE Changed
    BY <2>1, RemovedEntries
  <2>5. as \in SUBSET RegisteredAdapters /\ cs \in SUBSET RegisteredConnections
    BY DEF AdaptersOf, ConnectionsOf
  <2>6. \A q \in Producers(RegisteredAdapters \ as, RegisteredConnections \ cs) :
          Served(q) => Served(q)'
    BY <1>4, <2>3 DEF AdaptersOf, ConnectionsOf, Producers
  <2> HIDE DEF as, cs
  <2>7. FreesOnly(as, cs)
    BY <1>1, <1>3, <2>1, <2>2, <2>4, <2>5, <2>6 DEF FreesOnly
  <2>8. QED
    BY <2>5, <2>7 DEF FreeStep
<1>7. CASE ~Live(p)
  <2>1. UNCHANGED <<generation, adapters, connections, revision, seen>>
    BY <1>7 DEF DisposeRegistrar
  <2>2. Frees({}, {}) /\ Silent
    BY <2>1 DEF Frees, Silent, TypeOK
  <2>3. {} \in SUBSET RegisteredAdapters /\ {} \in SUBSET RegisteredConnections
    OBVIOUS
  <2>4. ASSUME NEW q \in Authorities, Served(q)
        PROVE  Served(q)'
    BY <1>5, <1>7, <2>1, <2>4 DEF Served
  <2>5. FreesOnly({}, {})
    BY <1>1, <1>3, <1>4, <2>1, <2>2, <2>3, <2>4 DEF FreesOnly, TypeOK, Producers
  <2>6. QED
    BY <2>3, <2>5 DEF FreeStep
<1>8. QED
  BY <1>6, <1>7

\* Every step stores one adapter or connection, takes entries away, concerns the
\* listener alone, or disposes everything; the later proofs split on these.
LEMMA StepKinds ==
  ASSUME TypeOK, Next
  PROVE  \/ \E r \in Registrars, a \in Adapters : RegisterAdapter(r, a)
         \/ \E r \in Registrars, c \in Connections, s \in Sources : RegisterConnection(r, c, s)
         \/ FreeStep
         \/ Subscribe \/ Unsubscribe
         \/ DisposeRoot
<1>1. /\ \A a \in Adapters : a.id \in AdapterIds
      /\ \A c \in Connections : c.id \in ConnectionIds
  BY DEF AdapterType, ConnectionType
<1>2. QED
  BY <1>1, RevokeFrees, BindFrees, DisposeRegistrarFrees DEF Next, RegistrarStep

-----------------------------------------------------------------------------
(* The invariant holds initially and in every step                         *)

\* Nothing is registered at first.
LEMMA InitIInv == Init => IInv
<1> SUFFICES ASSUME Init PROVE IInv
  OBVIOUS
<1>1. RegisteredAdapters = {} /\ RegisteredConnections = {}
  BY DEF Init, RegisteredAdapters, RegisteredConnections
<1>2. TypeOK
  BY <1>1 DEF Init, TypeOK
<1>3. EntriesServed
  BY <1>1 DEF EntriesServed
<1>4. SourcesExclusive
  BY <1>1, FS_EmptySet DEF SourcesExclusive
<1>5. QED
  BY <1>2, <1>3, <1>4 DEF IInv

\* One place more, or the same.
LEMMA OneMore ==
  ASSUME NEW S, IsFiniteSet(S), NEW x, NEW max \in Nat, Cardinality(S) <= max,
         x \notin S => Cardinality(S) < max
  PROVE  Cardinality(S \cup {x}) <= max
<1>1. Cardinality(S) \in Nat
  BY FS_CardinalityType
<1>2. CASE x \in S
  <2>1. S \cup {x} = S
    BY <1>2
  <2>2. QED
    BY <2>1
<1>3. CASE x \notin S
  <2>1. Cardinality(S \cup {x}) = Cardinality(S) + 1
    BY <1>3, FS_AddElement
  <2>2. QED
    BY <1>1, <1>3, <2>1
<1>4. QED
  BY <1>2, <1>3

\* An adapter comes from a registrar that may call, and takes a free place or its
\* owner's own.
LEMMA RegisterAdapterIInv ==
  ASSUME IInv, NEW r \in Registrars, NEW a \in Adapters, RegisterAdapter(r, a)
  PROVE  IInv'
<1> DEFINE p == Producer(r)
           e == [producer |-> p, adapter |-> a]
<1>1. /\ Bound(r) /\ ~registrar[r].disposed /\ Live(p) /\ AdmissibleAdapter(r, a) /\ Changed
      /\ adapters' = [adapters EXCEPT ![a.id] = e]
      /\ UNCHANGED <<connections, generation, disposed, registrar, subscribed>>
  BY DEF RegisterAdapter, MayCall
<1>2. p \in Authorities
  BY <1>1, BoundProducer DEF IInv
<1>3. /\ a.id \in AdapterIds /\ e \in AdapterEntry /\ e # Absent
      /\ e.producer = p /\ e.adapter = a
  BY <1>2, SubmittedTypes DEF AdapterEntry, AdapterType
<1> HIDE DEF p, e
<1>4. /\ adapters' \in [AdapterIds -> AdapterEntry \cup {Absent}]
      /\ RegisteredAdapters' = RegisteredAdapters \cup {a.id}
      /\ adapters'[a.id] = e
      /\ \A b \in RegisteredAdapters \ {a.id} : adapters'[b] = adapters[b]
      /\ RegisteredConnections' = RegisteredConnections
  BY <1>1, <1>3 DEF IInv, TypeOK, RegisteredAdapters, RegisteredConnections
<1>5. revision' \in Nat /\ seen' \in Nat
  BY <1>1 DEF Changed, IInv, TypeOK
<1>6. TypeOK'
  BY <1>1, <1>3, <1>4, <1>5 DEF IInv, TypeOK
<1>7. EntriesServed'
  <2>1. ASSUME NEW q, Served(q) PROVE Served(q)'
    BY <1>1, <2>1 DEF Served, Live, Bound, Producer
  <2>2. Served(p)
    BY <1>1 DEF Served, p
  <2>3. ASSUME NEW b \in RegisteredAdapters' PROVE Served(adapters[b].producer)'
    <3>1. CASE b = a.id
      BY <1>3, <1>4, <2>1, <2>2, <3>1
    <3>2. CASE b # a.id
      BY <1>4, <2>1, <3>2 DEF IInv, EntriesServed
    <3>3. QED
      BY <3>1, <3>2
  <2>4. \A c \in RegisteredConnections' : Served(connections[c].producer)'
    BY <1>1, <1>4, <2>1 DEF IInv, EntriesServed
  <2>5. QED
    BY <1>1, <2>3, <2>4 DEF EntriesServed
<1>8. SourcesExclusive'
  <2>1. a.id \notin RegisteredAdapters => Cardinality(RegisteredAdapters) < MaxAdapters
    BY <1>1, <1>3 DEF AdmissibleAdapter, RegisteredAdapters
  <2>2. Cardinality(RegisteredAdapters') <= MaxAdapters
    BY <1>4, <2>1, RegisteredFinite, OneMore DEF IInv, SourcesExclusive
  <2>3. QED
    BY <1>1, <1>4, <2>2 DEF IInv, SourcesExclusive
<1>9. QED
  BY <1>6, <1>7, <1>8 DEF IInv

\* So does a connection, and its source is routed by no other.
LEMMA RegisterConnectionIInv ==
  ASSUME IInv, NEW r \in Registrars, NEW c \in Connections, NEW s \in Sources,
         RegisterConnection(r, c, s)
  PROVE  IInv'
<1> DEFINE p == Producer(r)
           e == [producer |-> p, source |-> s, connection |-> c]
<1>1. /\ Bound(r) /\ ~registrar[r].disposed /\ Live(p) /\ AdmissibleConnection(r, c)
      /\ ~SourceTaken(c, s) /\ Changed
      /\ connections' = [connections EXCEPT ![c.id] = e]
      /\ UNCHANGED <<adapters, generation, disposed, registrar, subscribed>>
  BY DEF RegisterConnection, MayCall
<1>2. p \in Authorities
  BY <1>1, BoundProducer DEF IInv
<1>3. /\ c.id \in ConnectionIds /\ e \in ConnectionEntry /\ e # Absent
      /\ e.producer = p /\ e.connection = c /\ e.source = s
  BY <1>2, SubmittedTypes DEF ConnectionEntry, ConnectionType
<1> HIDE DEF p, e
<1>4. /\ connections' \in [ConnectionIds -> ConnectionEntry \cup {Absent}]
      /\ RegisteredConnections' = RegisteredConnections \cup {c.id}
      /\ connections'[c.id] = e
      /\ \A d \in RegisteredConnections \ {c.id} : connections'[d] = connections[d]
      /\ RegisteredAdapters' = RegisteredAdapters
  BY <1>1, <1>3 DEF IInv, TypeOK, RegisteredAdapters, RegisteredConnections
<1>5. revision' \in Nat /\ seen' \in Nat
  BY <1>1 DEF Changed, IInv, TypeOK
<1>6. TypeOK'
  BY <1>1, <1>3, <1>4, <1>5 DEF IInv, TypeOK
<1>7. EntriesServed'
  <2>1. ASSUME NEW q, Served(q) PROVE Served(q)'
    BY <1>1, <2>1 DEF Served, Live, Bound, Producer
  <2>2. Served(p)
    BY <1>1 DEF Served, p
  <2>3. ASSUME NEW d \in RegisteredConnections' PROVE Served(connections[d].producer)'
    <3>1. CASE d = c.id
      BY <1>3, <1>4, <2>1, <2>2, <3>1
    <3>2. CASE d # c.id
      BY <1>4, <2>1, <3>2 DEF IInv, EntriesServed
    <3>3. QED
      BY <3>1, <3>2
  <2>4. \A a \in RegisteredAdapters' : Served(adapters[a].producer)'
    BY <1>1, <1>4, <2>1 DEF IInv, EntriesServed
  <2>5. QED
    BY <1>1, <2>3, <2>4 DEF EntriesServed
<1>8. SourcesExclusive'
  <2>1. ASSUME NEW d \in RegisteredConnections', NEW f \in RegisteredConnections',
               connections'[d].source = connections'[f].source
        PROVE  d = f
    <3>1. \A o \in RegisteredConnections \ {c.id} : connections[o].source # s
      BY <1>1 DEF SourceTaken
    <3>2. QED
      BY <1>3, <1>4, <2>1, <3>1 DEF IInv, SourcesExclusive
  <2>2. c.id \notin RegisteredConnections =>
          Cardinality(RegisteredConnections) < MaxConnections
    BY <1>1, <1>3 DEF AdmissibleConnection, RegisteredConnections
  <2>3. Cardinality(RegisteredConnections') <= MaxConnections
    BY <1>4, <2>2, RegisteredFinite, OneMore DEF IInv, SourcesExclusive
  <2>4. QED
    BY <1>4, <2>1, <2>3 DEF IInv, SourcesExclusive
<1>9. QED
  BY <1>6, <1>7, <1>8 DEF IInv

\* What remains of a removal was there before, and is served still.
LEMMA FreeIInv ==
  ASSUME IInv, FreeStep
  PROVE  IInv'
<1>1. PICK as \in SUBSET RegisteredAdapters, cs \in SUBSET RegisteredConnections :
        FreesOnly(as, cs)
  BY DEF FreeStep
<1>2. /\ adapters' \in [AdapterIds -> AdapterEntry \cup {Absent}]
      /\ RegisteredAdapters' = RegisteredAdapters \ as
      /\ \A a \in RegisteredAdapters' : adapters'[a] = adapters[a]
  BY <1>1 DEF FreesOnly, Frees, IInv, TypeOK, RegisteredAdapters
<1>3. /\ connections' \in [ConnectionIds -> ConnectionEntry \cup {Absent}]
      /\ RegisteredConnections' = RegisteredConnections \ cs
      /\ \A c \in RegisteredConnections' : connections'[c] = connections[c]
  BY <1>1 DEF FreesOnly, Frees, IInv, TypeOK, RegisteredConnections
<1>4. revision' \in Nat /\ seen' \in Nat
  <2>1. Silent \/ Changed
    BY <1>1 DEF FreesOnly
  <2>2. revision \in Nat /\ seen \in Nat
    BY DEF IInv, TypeOK
  <2>3. QED
    BY <2>1, <2>2 DEF Silent, Changed
<1>5. TypeOK'
  BY <1>1, <1>2, <1>3, <1>4 DEF FreesOnly, IInv, TypeOK
<1>6. EntriesServed'
  <2>1. ASSUME NEW q \in Producers(RegisteredAdapters \ as, RegisteredConnections \ cs)
        PROVE  Served(q)'
    BY <1>1, <2>1 DEF FreesOnly, Producers, IInv, EntriesServed
  <2>2. ASSUME NEW a \in RegisteredAdapters' PROVE Served(adapters[a].producer)'
    BY <1>2, <2>1 DEF Producers
  <2>3. ASSUME NEW c \in RegisteredConnections' PROVE Served(connections[c].producer)'
    BY <1>3, <2>1 DEF Producers
  <2>4. QED
    BY <2>2, <2>3 DEF EntriesServed
<1>7. SourcesExclusive'
  <2>1. /\ Cardinality(RegisteredAdapters') <= Cardinality(RegisteredAdapters)
        /\ IsFiniteSet(RegisteredAdapters')
    BY <1>2, RegisteredFinite, FS_Subset
  <2>2. /\ Cardinality(RegisteredConnections') <= Cardinality(RegisteredConnections)
        /\ IsFiniteSet(RegisteredConnections')
    BY <1>3, RegisteredFinite, FS_Subset
  <2>3. Cardinality(RegisteredAdapters') \in Nat /\ Cardinality(RegisteredConnections') \in Nat
    BY <2>1, <2>2, FS_CardinalityType
  <2>4. QED
    BY <1>3, <2>1, <2>2, <2>3, RegisteredFinite DEF IInv, SourcesExclusive
<1>8. QED
  BY <1>5, <1>6, <1>7 DEF IInv

\* The registrars drop finitely many producers' entries.
LEMMA DroppedFinite ==
  ASSUME TypeOK
  PROVE  Cardinality(DroppedByRegistrars) \in Nat
<1> DEFINE ofAdapters == {adapters[a].producer : a \in RegisteredAdapters}
           ofConnections == {connections[c].producer : c \in RegisteredConnections}
<1>1. IsFiniteSet(ofAdapters)
  <2> DEFINE f == [a \in RegisteredAdapters |-> adapters[a].producer]
  <2>1. f \in Surjection(RegisteredAdapters, ofAdapters)
    BY DEF Surjection
  <2>2. QED
    BY <2>1, RegisteredFinite, FS_Surjection
<1>2. IsFiniteSet(ofConnections)
  <2> DEFINE f == [c \in RegisteredConnections |-> connections[c].producer]
  <2>1. f \in Surjection(RegisteredConnections, ofConnections)
    BY DEF Surjection
  <2>2. QED
    BY <2>1, RegisteredFinite, FS_Surjection
<1>3. IsFiniteSet(ofAdapters \cup ofConnections)
  BY <1>1, <1>2, FS_Union
<1>4. DroppedByRegistrars \in SUBSET (ofAdapters \cup ofConnections)
  BY DEF DroppedByRegistrars
<1>5. QED
  BY <1>3, <1>4, FS_Subset, FS_CardinalityType

\* Disposing the root takes everything away, under a revision of its own.
LEMMA DisposeRootIInv ==
  ASSUME IInv, DisposeRoot
  PROVE  IInv' /\ revision' > revision
<1>1. RegisteredAdapters' = {} /\ RegisteredConnections' = {}
  BY DEF DisposeRoot, RegisteredAdapters, RegisteredConnections
<1>2. /\ adapters' \in [AdapterIds -> AdapterEntry \cup {Absent}]
      /\ connections' \in [ConnectionIds -> ConnectionEntry \cup {Absent}]
      /\ generation' \in [Plugins -> Generations \cup {NoGeneration}]
      /\ disposed' \in BOOLEAN /\ subscribed' \in BOOLEAN
  BY DEF DisposeRoot
<1>3. Cardinality(DroppedByRegistrars) \in Nat /\ revision \in Nat /\ seen \in Nat
  BY DroppedFinite DEF IInv, TypeOK
<1>4. revision' \in Nat /\ revision' > revision
  BY <1>3 DEF DisposeRoot
<1>5. seen' \in Nat
  BY <1>3 DEF DisposeRoot
<1>6. registrar' \in [Registrars -> Registrations \cup {Unbound}]
  <2>1. ASSUME NEW r \in Registrars, Bound(r)
        PROVE  [registrar[r] EXCEPT !.disposed = TRUE] \in Registrations
    BY <2>1, BoundProducer DEF IInv, Registrations
  <2>2. registrar' = [r \in Registrars |->
                        IF Bound(r) THEN [registrar[r] EXCEPT !.disposed = TRUE]
                                    ELSE Unbound]
    BY DEF DisposeRoot
  <2>3. QED
    BY <2>1, <2>2
<1>7. TypeOK'
  BY <1>1, <1>2, <1>4, <1>5, <1>6 DEF TypeOK
<1>8. EntriesServed' /\ SourcesExclusive'
  BY <1>1, FS_EmptySet DEF EntriesServed, SourcesExclusive
<1>9. QED
  BY <1>4, <1>7, <1>8 DEF IInv

\* The other steps concern the listener alone.
LEMMA ListenerIInv ==
  ASSUME IInv, Subscribe \/ Unsubscribe \/ UNCHANGED vars
  PROVE  IInv'
<1>1. /\ UNCHANGED <<adapters, connections, generation, revision, disposed, registrar>>
      /\ subscribed' \in BOOLEAN /\ seen' \in Nat
  BY DEF Subscribe, Unsubscribe, vars, IInv, TypeOK
<1>2. /\ RegisteredAdapters' = RegisteredAdapters
      /\ RegisteredConnections' = RegisteredConnections
  BY <1>1 DEF RegisteredAdapters, RegisteredConnections
<1>3. TypeOK' /\ SourcesExclusive'
  BY <1>1, <1>2 DEF IInv, TypeOK, SourcesExclusive
<1>4. ASSUME NEW q, Served(q) PROVE Served(q)'
  BY <1>1, <1>4 DEF Served, Live, Bound, Producer
<1>5. EntriesServed'
  BY <1>1, <1>2, <1>4 DEF IInv, EntriesServed
<1>6. QED
  BY <1>3, <1>5 DEF IInv

\* Every step of the registry keeps the invariant.
LEMMA NextIInv ==
  ASSUME IInv, [Next]_vars
  PROVE  IInv'
  BY StepKinds, RegisterAdapterIInv, RegisterConnectionIInv, FreeIInv, DisposeRootIInv,
     ListenerIInv
  DEF IInv

-----------------------------------------------------------------------------
(* What the runs check, for every instance                                 *)

\* The inductive invariant holds in every state the registry reaches.
THEOREM Inductive == Spec => []IInv
  BY InitIInv, NextIInv, PTL DEF Spec

\* Nothing survives its producer, whoever else is bound or disposed.
THEOREM EntriesAreServed == Spec => []EntriesHaveRegistrars
<1>1. IInv => EntriesHaveRegistrars
  BY DEF IInv, EntriesServed, EntriesHaveRegistrars, Served
<1>2. QED
  BY <1>1, Inductive, PTL

\* One source is never routed through two connections, and neither capacity is passed.
THEOREM Exclusiveness == Spec => []SourcesExclusive
<1>1. IInv => SourcesExclusive
  BY DEF IInv
<1>2. QED
  BY <1>1, Inductive, PTL

\* Disposing a registrar, early or late, leaves what other authorities registered.
THEOREM LocalDisposal == Spec => DisposalIsLocal
<1>1. ASSUME IInv, NEW r \in Registrars, DisposeRegistrar(r)
      PROVE  /\ \A a \in RegisteredAdapters :
                  adapters[a].producer # Producer(r) => adapters'[a] = adapters[a]
             /\ \A c \in RegisteredConnections :
                  connections[c].producer # Producer(r) => connections'[c] = connections[c]
  <2>1. CASE Live(Producer(r))
    <3>1. RemoveEntries({Producer(r)})
      BY <1>1, <2>1 DEF DisposeRegistrar
    <3>2. Frees(AdaptersOf({Producer(r)}), ConnectionsOf({Producer(r)}))
      BY <1>1, <3>1, RemovedEntries DEF IInv
    <3>3. QED
      BY <3>2 DEF Frees, AdaptersOf, ConnectionsOf, RegisteredAdapters, RegisteredConnections
  <2>2. CASE ~Live(Producer(r))
    BY <1>1, <2>2 DEF DisposeRegistrar
  <2>3. QED
    BY <2>1, <2>2
<1>2. IInv /\ [Next]_vars =>
        [\A r \in Registrars : DisposeRegistrar(r) =>
           /\ \A a \in RegisteredAdapters :
                adapters[a].producer # Producer(r) => adapters'[a] = adapters[a]
           /\ \A c \in RegisteredConnections :
                connections[c].producer # Producer(r) => connections'[c] = connections[c]]_vars
  BY <1>1
<1>3. QED
  BY <1>2, Inductive, PTL DEF Spec, DisposalIsLocal

-----------------------------------------------------------------------------
(* Refinement                                                              *)

\* A registration changes what the store holds: the revision it stores is new.
LEMMA RegistrationWrites ==
  ASSUME IInv, NEW r \in Registrars,
         \/ \E a \in Adapters : RegisterAdapter(r, a)
         \/ \E c \in Connections, s \in Sources : RegisterConnection(r, c, s)
  PROVE  Store!Write
<1>1. ASSUME NEW a \in Adapters, RegisterAdapter(r, a)
      PROVE  Store!Write
  <2>1. a \in AdapterType /\ Producer(r) \in Authorities
    BY <1>1, BoundProducer DEF IInv, RegisterAdapter, MayCall
  <2>2. /\ a.id \in AdapterIds /\ a.revision \in Nat
        /\ [producer |-> Producer(r), adapter |-> a] # Absent
    BY <2>1 DEF AdapterType, AdapterEntry
  <2>3. adapters'[a.id] = [producer |-> Producer(r), adapter |-> a]
    BY <1>1, <2>2 DEF RegisterAdapter, IInv, TypeOK
  <2>4. adapters'[a.id] # adapters[a.id]
    BY <1>1, <2>2, <2>3 DEF RegisterAdapter, AdmissibleAdapter
  <2>5. adapters' # adapters
    BY <2>4
  <2>6. QED
    BY <1>1, <2>5 DEF RegisterAdapter, MayCall, Live, Changed, Store!Write
<1>2. ASSUME NEW c \in Connections, NEW s \in Sources, RegisterConnection(r, c, s)
      PROVE  Store!Write
  <2>1. c \in ConnectionType /\ Producer(r) \in Authorities
    BY <1>2, BoundProducer DEF IInv, RegisterConnection, MayCall
  <2>2. /\ c.id \in ConnectionIds /\ c.revision \in Nat
        /\ [producer |-> Producer(r), source |-> s, connection |-> c] # Absent
    BY <2>1 DEF ConnectionType, ConnectionEntry
  <2>3. connections'[c.id] = [producer |-> Producer(r), source |-> s, connection |-> c]
    BY <1>2, <2>2 DEF RegisterConnection, IInv, TypeOK
  <2>4. connections'[c.id] # connections[c.id]
    BY <1>2, <2>2, <2>3 DEF RegisterConnection, AdmissibleConnection
  <2>5. connections' # connections
    BY <2>4
  <2>6. QED
    BY <1>2, <2>5 DEF RegisterConnection, MayCall, Live, Changed, Store!Write
<1>3. QED
  BY <1>1, <1>2

\* A removal changes what the store holds, or nothing at all.
LEMMA RemovalWrites ==
  ASSUME IInv, FreeStep
  PROVE  Store!Write \/ UNCHANGED Store!vars
<1>1. PICK as \in SUBSET RegisteredAdapters, cs \in SUBSET RegisteredConnections :
        FreesOnly(as, cs)
  BY DEF FreeStep
<1>2. CASE as = {} /\ cs = {}
  <2>1. adapters' = adapters /\ connections' = connections
    BY <1>1, <1>2 DEF FreesOnly, Frees, IInv, TypeOK
  <2>2. QED
    BY <1>1, <1>2, <2>1 DEF FreesOnly, Silent, Store!vars
<1>3. CASE as # {} \/ cs # {}
  <2>1. adapters' # adapters \/ connections' # connections
    BY <1>1, <1>3 DEF FreesOnly, Frees, RegisteredAdapters, RegisteredConnections
  <2>2. QED
    BY <1>1, <1>3, <2>1 DEF FreesOnly, Changed, Store!Write
<1>4. QED
  BY <1>2, <1>3

\* Every step of the registry is a write or a closing of the versioned store, or
\* leaves it alone.
LEMMA StepOfStore ==
  ASSUME IInv, [Next]_vars
  PROVE  [Store!Next]_(Store!vars)
<1>1. CASE Subscribe \/ Unsubscribe \/ UNCHANGED vars
  BY <1>1 DEF Subscribe, Unsubscribe, vars, Store!vars
<1>2. CASE DisposeRoot
  <2>1. revision' > revision
    BY <1>2, DisposeRootIInv
  <2>2. QED
    BY <1>2, <2>1 DEF DisposeRoot, Store!Next, Store!Close
<1>3. CASE FreeStep
  BY <1>3, RemovalWrites DEF Store!Next
<1>4. CASE \/ \E r \in Registrars, a \in Adapters : RegisterAdapter(r, a)
           \/ \E r \in Registrars, c \in Connections, s \in Sources :
                RegisterConnection(r, c, s)
  BY <1>4, RegistrationWrites DEF Store!Next
<1>5. QED
  BY <1>1, <1>2, <1>3, <1>4, StepKinds DEF IInv

\* Readers may rely on the revision: adapters and connections together are one
\* versioned store.
THEOREM ImplementsStore == Spec => RevisionTracksContent
<1>1. Init => Store!Init
  BY DEF Init, Store!Init
<1>2. QED
  BY <1>1, StepOfStore, Inductive, PTL DEF Spec, RevisionTracksContent, Store!Spec

-----------------------------------------------------------------------------
(* Sorting                                                                 *)

\* What is finite can be sorted: each element's place is counted by those before it.
LEMMA SortedExists ==
  ASSUME NEW S, IsFiniteSet(S), NEW R, Orders(S, R)
  PROVE  \E s \in [1 .. Cardinality(S) -> S] : InOrder(s, R)
<1> DEFINE below(x) == {y \in S : <<y, x>> \in R}
           r == [x \in S |-> Cardinality(below(x)) + 1]
<1>1. PICK n \in Nat : n = Cardinality(S)
  BY FS_CardinalityType
<1>2. ASSUME NEW x \in S
      PROVE  /\ IsFiniteSet(below(x)) /\ Cardinality(below(x)) \in Nat
             /\ r[x] = Cardinality(below(x)) + 1 /\ r[x] \in 1 .. n
  <2>1. IsFiniteSet(S \ {x}) /\ Cardinality(S \ {x}) = n - 1
    BY <1>1, FS_RemoveElement
  <2>2. below(x) \in SUBSET (S \ {x})
    BY DEF Orders
  <2>3. /\ IsFiniteSet(below(x)) /\ Cardinality(below(x)) \in Nat
        /\ Cardinality(below(x)) <= n - 1
    <3> HIDE DEF below
    <3>1. IsFiniteSet(below(x)) /\ Cardinality(below(x)) <= Cardinality(S \ {x})
      BY <2>1, <2>2, FS_Subset, Zenon
    <3> QED BY <2>1, <3>1, FS_CardinalityType
  <2>4. r[x] = Cardinality(below(x)) + 1
    OBVIOUS
  <2> HIDE DEF below, r
  <2> QED BY <1>1, <2>3, <2>4
<1>3. ASSUME NEW x \in S, NEW y \in S, <<x, y>> \in R
      PROVE  r[x] < r[y]
  <2>1. below(x) \cup {x} \in SUBSET below(y) /\ x \notin below(x)
    BY <1>3 DEF Orders
  <2>2. IsFiniteSet(below(x) \cup {x})
        /\ Cardinality(below(x) \cup {x}) = Cardinality(below(x)) + 1
    BY <1>2, <2>1, FS_AddElement
  <2> HIDE DEF below, r
  <2>3. /\ Cardinality(below(x)) \in Nat /\ Cardinality(below(y)) \in Nat
        /\ IsFiniteSet(below(y))
        /\ r[x] = Cardinality(below(x)) + 1 /\ r[y] = Cardinality(below(y)) + 1
    BY <1>2
  <2>4. Cardinality(below(x) \cup {x}) <= Cardinality(below(y))
    BY <2>1, <2>3, FS_Subset
  <2> QED BY <2>2, <2>3, <2>4
<1> HIDE DEF r
<1>4. r \in Injection(S, 1 .. n)
  <2>1. r \in [S -> 1 .. n]
    BY <1>2 DEF r
  <2>2. ASSUME NEW x \in S, NEW y \in S, r[x] = r[y]
        PROVE  x = y
    <3>1. r[x] \in Nat /\ r[y] \in Nat
      BY <2>1
    <3>2. <<x, y>> \notin R /\ <<y, x>> \notin R
      BY <1>3, <2>2, <3>1
    <3> QED BY <3>2 DEF Orders
  <2> QED BY <2>1, <2>2 DEF Injection, IsInjective
<1>5. r \in Surjection(S, 1 .. n)
  BY <1>1, <1>4, FS_Injection, FS_Interval
<1> DEFINE s == [i \in 1 .. n |-> CHOOSE x \in S : r[x] = i]
<1>6. s \in [1 .. n -> S] /\ \A i \in 1 .. n : r[s[i]] = i
  BY <1>5 DEF Surjection
<1> HIDE DEF s
<1>7. ASSUME NEW i \in 1 .. n, NEW j \in 1 .. n, i < j
      PROVE  <<s[i], s[j]>> \in R
  <2>1. s[i] \in S /\ s[j] \in S /\ r[s[i]] = i /\ r[s[j]] = j
    BY <1>6
  <2>2. <<s[j], s[i]>> \notin R
    BY <1>3, <1>7, <2>1
  <2>3. s[i] # s[j]
    BY <1>7, <2>1
  <2> QED BY <2>1, <2>2, <2>3 DEF Orders
<1> QED BY <1>1, <1>6, <1>7 DEF InOrder

\* What is sorted lists every element, and none twice.
LEMMA SortedEnumerates ==
  ASSUME NEW S, IsFiniteSet(S), NEW R, Orders(S, R),
         NEW s \in [1 .. Cardinality(S) -> S], InOrder(s, R)
  PROVE  /\ \A i, j \in 1 .. Cardinality(S) : s[i] = s[j] => i = j
         /\ \A x \in S : \E i \in 1 .. Cardinality(S) : s[i] = x
<1>1. PICK n \in Nat : n = Cardinality(S)
  BY FS_CardinalityType
<1>2. \A i, j \in 1 .. n : s[i] = s[j] => i = j
  <2>1. SUFFICES ASSUME NEW i \in 1 .. n, NEW j \in 1 .. n, s[i] = s[j], i < j PROVE FALSE
    OBVIOUS
  <2>2. <<s[i], s[j]>> \in R
    BY <1>1, <2>1 DEF InOrder
  <2> QED BY <1>1, <2>1, <2>2 DEF Orders
<1>3. s \in Injection(1 .. n, S)
  BY <1>1, <1>2 DEF Injection, IsInjective
<1>4. s \in Surjection(1 .. n, S)
  BY <1>1, <1>3, FS_Injection, FS_Interval
<1> QED BY <1>1, <1>2, <1>4 DEF Surjection

-----------------------------------------------------------------------------
(* What is stored was validated                                            *)

StoredValid ==
  \A c \in RegisteredConnections : ValidConnection(connections[c].connection)

\* Only registerConnection stores a connection, and it validates it.
LEMMA NextValid ==
  ASSUME IInv, StoredValid, [Next]_vars
  PROVE  StoredValid'
<1> SUFFICES ASSUME NEW id \in ConnectionIds, connections'[id] # Absent
             PROVE  ValidConnection(connections'[id].connection)
  BY DEF StoredValid, RegisteredConnections
<1>1. ASSUME connections'[id] = connections[id]
      PROVE  ValidConnection(connections'[id].connection)
  BY <1>1 DEF StoredValid, RegisteredConnections
<1>2. ASSUME NEW ps, RemoveEntries(ps)
      PROVE  connections'[id] = connections[id]
  BY <1>2 DEF RemoveEntries
<1>3. ASSUME NEW r \in Registrars, RegistrarStep(r)
      PROVE  ValidConnection(connections'[id].connection)
  <2>1. CASE \E a \in Adapters : RegisterAdapter(r, a) \/ RevokeAdapter(r, a.id, a.revision)
    BY <1>1, <2>1 DEF RegisterAdapter, RevokeAdapter
  <2>2. ASSUME NEW c \in Connections, NEW s \in Sources, RegisterConnection(r, c, s)
        PROVE  ValidConnection(connections'[id].connection)
    <3>1. CASE id = c.id
      BY <2>2, <3>1 DEF RegisterConnection, IInv, TypeOK
    <3>2. CASE id # c.id
      BY <1>1, <2>2, <3>2 DEF RegisterConnection, IInv, TypeOK
    <3> QED BY <3>1, <3>2
  <2>3. CASE \E c \in Connections : RevokeConnection(r, c.id, c.revision)
    BY <1>1, <2>3 DEF RevokeConnection, IInv, TypeOK
  <2>4. CASE DisposeRegistrar(r)
    BY <1>1, <1>2, <2>4 DEF DisposeRegistrar
  <2> QED BY <1>3, <2>1, <2>2, <2>3, <2>4 DEF RegistrarStep
<1>4. ASSUME NEW r \in Registrars, NEW p \in Authorities, Bind(r, p)
      PROVE  connections'[id] = connections[id]
  BY <1>2, <1>4 DEF Bind
<1>5. CASE Subscribe \/ Unsubscribe \/ UNCHANGED vars
  BY <1>1, <1>5 DEF Subscribe, Unsubscribe, vars
<1>6. CASE DisposeRoot
  BY <1>6 DEF DisposeRoot
<1> QED BY <1>1, <1>3, <1>4, <1>5, <1>6 DEF Next

\* Every connection the plan is made of was validated, and the entries are as they should.
THEOREM PlanInductive == Spec => [](IInv /\ StoredValid)
<1>1. Init => StoredValid
  BY DEF Init, StoredValid, RegisteredConnections
<1>2. QED
  BY <1>1, NextValid, Inductive, PTL DEF Spec

-----------------------------------------------------------------------------
(* The plan and the configuration                                          *)

RankOrder ==
  {p \in RegisteredConnections \X RegisteredConnections : Rank[p[1]] < Rank[p[2]]}

\* The ids of the plan are the registered connections, each once.
LEMMA IdsListed ==
  ASSUME TypeOK
  PROVE  \E n \in Nat :
           /\ Ids \in [1 .. n -> RegisteredConnections]
           /\ \A i, j \in 1 .. n : Ids[i] = Ids[j] => i = j
           /\ \A c \in RegisteredConnections : \E i \in 1 .. n : Ids[i] = c
<1> DEFINE S == RegisteredConnections
           Sorts(s) == \A i, j \in DOMAIN s : i < j => Rank[s[i]] < Rank[s[j]]
<1>1. IsFiniteSet(S) /\ Cardinality(S) \in Nat
  BY FS_Subset, FS_CardinalityType DEF RegisteredConnections
<1>2. Orders(S, RankOrder)
  <2>1. \A c \in S : Rank[c] \in Nat
    BY RankAssumption DEF RegisteredConnections
  <2>2. \A c, d \in S : Rank[c] = Rank[d] => c = d
    BY RankAssumption DEF RegisteredConnections
  <2> QED BY <2>1, <2>2 DEF Orders, RankOrder
<1>3. Ids = CHOOSE s \in [1 .. Cardinality(S) -> S] : Sorts(s)
  BY DEF Ids, Sorted
<1>4. ASSUME NEW s \in [1 .. Cardinality(S) -> S]
      PROVE  Sorts(s) <=> InOrder(s, RankOrder)
  BY DEF InOrder, RankOrder
<1>5. \E s \in [1 .. Cardinality(S) -> S] : InOrder(s, RankOrder)
  BY <1>1, <1>2, SortedExists
<1> HIDE DEF Sorts
<1>6. Ids \in [1 .. Cardinality(S) -> S] /\ Sorts(Ids)
  BY <1>3, <1>4, <1>5, Zenon
<1>7. InOrder(Ids, RankOrder)
  BY <1>4, <1>6
<1> QED BY <1>1, <1>2, <1>6, <1>7, SortedEnumerates

Config == Materialized(Plan)

Submitted(c) == connections[c].connection

\* What the bridge gets to read of connection c: its own source, when it is enabled.
Written(c) ==
  IF PlanEnabled(Submitted(c))
    THEN [PlanConnection(Submitted(c)) EXCEPT
            !.endpoint = connections[c].source,
            !.credential = IF Submitted(c).bearer THEN connections[c].source ELSE @]
    ELSE PlanConnection(Submitted(c))

\* Field by field.
LEMMA WrittenFields ==
  ASSUME NEW c
  PROVE  LET w == Written(c)
             s == Submitted(c)
         IN  /\ w.id = s.id /\ w.enabled = PlanEnabled(s) /\ w.adapter = s.adapter
             /\ w.adapterRevision = s.adapterRevision /\ w.required = s.required
             /\ w.available = AdapterAvailable(s) /\ w.bearer = s.bearer
             /\ w.endpoint = (IF PlanEnabled(s) THEN connections[c].source ELSE Unset)
             /\ w.credential = (IF PlanEnabled(s) /\ s.bearer
                                  THEN connections[c].source ELSE Unset)
             /\ w.models = {[source |-> s.models[i].source,
                             gateway |-> <<s.id, s.models[i].model>>] :
                              i \in EnabledModels(s)}
  BY DEF Written, PlanConnection

\* What is stored under an id.
LEMMA SubmittedType ==
  ASSUME TypeOK, NEW c \in RegisteredConnections
  PROVE  /\ Submitted(c) \in ConnectionType /\ Submitted(c).id = c
         /\ connections[c].source \in Sources /\ connections[c].source # Unset
<1>1. connections[c] \in ConnectionEntry
  BY DEF TypeOK, RegisteredConnections
<1> QED BY <1>1, RankAssumption DEF TypeOK, ConnectionEntry, Submitted

\* Every composition is written to its own connection, and nothing to the others: the
\* positions count every connection, enabled or not.
LEMMA ConnectionsWritten ==
  ASSUME TypeOK
  PROVE  /\ DOMAIN Config.connections = DOMAIN Ids
         /\ \A i \in DOMAIN Ids : Config.connections[i] = Written(Ids[i])
         /\ Config.adapters = {adapters[a].adapter : a \in RegisteredAdapters}
         /\ Config.active <=> \E c \in RegisteredConnections : PlanEnabled(Submitted(c))
<1>1. PICK n \in Nat : /\ Ids \in [1 .. n -> RegisteredConnections]
                       /\ \A c \in RegisteredConnections : \E i \in 1 .. n : Ids[i] = c
  BY IdsListed
<1>2. /\ DOMAIN Listed = 1 .. n /\ DOMAIN Ids = 1 .. n
      /\ \A i \in 1 .. n : /\ Listed[i] = PlanConnection(Submitted(Ids[i]))
                           /\ Listed[i].enabled = PlanEnabled(Submitted(Ids[i]))
                           /\ Listed[i].bearer = Submitted(Ids[i]).bearer
  BY <1>1 DEF Listed, Submitted, PlanConnection
<1>3. \A i \in 1 .. n : i \in EnabledPositions <=> PlanEnabled(Submitted(Ids[i]))
  BY <1>2 DEF EnabledPositions
<1>4. /\ Plan.connections = Listed
      /\ Plan.composition = {Composed(i, i - 1) : i \in EnabledPositions}
      /\ Plan.adapters = {adapters[a].adapter : a \in RegisteredAdapters}
  BY DEF Plan
<1> DEFINE pointing(i) == {c \in Plan.composition : c.index = i - 1}
<1>5. ASSUME NEW i \in 1 .. n
      PROVE  pointing(i) = IF i \in EnabledPositions THEN {Composed(i, i - 1)} ELSE {}
  <2>1. \A j \in EnabledPositions : /\ j \in Nat /\ Composed(j, j - 1).index = j - 1
                                    /\ j - 1 = i - 1 => j = i
    BY <1>2 DEF EnabledPositions, Composed
  <2> QED BY <1>4, <2>1
<1> HIDE DEF pointing
<1>6. /\ DOMAIN Config.connections = 1 .. n
      /\ \A i \in 1 .. n :
           Config.connections[i] =
             IF pointing(i) = {} THEN Listed[i]
                                 ELSE WriteSource(Listed[i], CHOOSE c \in pointing(i) : TRUE)
      /\ Config.adapters = Plan.adapters
      /\ Config.active <=> Plan.composition # {}
  <2> DEFINE written(i) ==
               IF pointing(i) = {} THEN Plan.connections[i]
               ELSE WriteSource(Plan.connections[i], CHOOSE c \in pointing(i) : TRUE)
  <2>2. Config = [active |-> Plan.composition # {},
                  adapters |-> Plan.adapters,
                  connections |-> [i \in DOMAIN Plan.connections |-> written(i)]]
    BY Zenon DEF Config, Materialized, pointing
  <2> HIDE DEF written
  <2>3. /\ Config.connections = [i \in DOMAIN Plan.connections |-> written(i)]
        /\ Config.adapters = Plan.adapters
    BY <2>2
  <2>4. Config.active = (Plan.composition # {})
    BY <2>2
  <2>5. DOMAIN Config.connections = 1 .. n
        /\ \A i \in 1 .. n : Config.connections[i] = written(i)
    BY <1>2, <1>4, <2>3, Zenon
  <2>6. ASSUME NEW i \in 1 .. n
        PROVE  written(i) = IF pointing(i) = {}
                              THEN Listed[i]
                              ELSE WriteSource(Listed[i], CHOOSE c \in pointing(i) : TRUE)
    BY <1>4 DEF written
  <2> QED BY <2>3, <2>4, <2>5, <2>6, Zenon
<1>7. ASSUME NEW i \in 1 .. n
      PROVE  Config.connections[i] = Written(Ids[i])
  <2>1. CASE i \in EnabledPositions
    <3>1. (CHOOSE c \in pointing(i) : TRUE) = Composed(i, i - 1) /\ pointing(i) # {}
      BY <1>5, <2>1
    <3>2. Config.connections[i] = WriteSource(Listed[i], Composed(i, i - 1))
      BY <1>6, <3>1
    <3>3. /\ Composed(i, i - 1).source = connections[Ids[i]].source
          /\ Composed(i, i - 1).authorization = Submitted(Ids[i]).bearer
      BY <1>2 DEF Composed
    <3>4. PlanEnabled(Submitted(Ids[i]))
      BY <1>3, <2>1
    <3> QED BY <1>2, <3>2, <3>3, <3>4 DEF WriteSource, Written, PlanConnection
  <2>2. CASE i \notin EnabledPositions
    <3>1. Config.connections[i] = Listed[i] /\ ~PlanEnabled(Submitted(Ids[i]))
      BY <1>3, <1>5, <1>6, <2>2
    <3> QED BY <1>2, <3>1 DEF Written, PlanConnection
  <2> QED BY <2>1, <2>2
<1>8. Plan.composition # {} <=> \E c \in RegisteredConnections : PlanEnabled(Submitted(c))
  <2>1. Plan.composition # {} <=> EnabledPositions # {}
    BY <1>4
  <2>2. EnabledPositions \in SUBSET (1 .. n)
    BY <1>2 DEF EnabledPositions
  <2> QED BY <1>1, <1>3, <2>1, <2>2
<1> QED BY <1>2, <1>4, <1>6, <1>7, <1>8

\* The connections of the configuration, as a set.
LEMMA ConfigConnections ==
  ASSUME TypeOK
  PROVE  Bridge!ConnectionsOf(Config) = {Written(c) : c \in RegisteredConnections}
<1>1. PICK n \in Nat : /\ Ids \in [1 .. n -> RegisteredConnections]
                       /\ \A c \in RegisteredConnections : \E i \in 1 .. n : Ids[i] = c
  BY IdsListed
<1>2. Bridge!ConnectionsOf(Config) = {Config.connections[i] : i \in DOMAIN Config.connections}
  BY DEF Bridge!ConnectionsOf, Bridge!ToSet
<1>3. DOMAIN Config.connections = 1 .. n
      /\ \A i \in 1 .. n : Config.connections[i] = Written(Ids[i])
  BY <1>1, ConnectionsWritten
<1> QED BY <1>1, <1>2, <1>3

\* Both sides decide alike: the bridge finds ready exactly what the plan enabled.
LEMMA ReadyWhenEnabled ==
  ASSUME TypeOK, NEW c \in RegisteredConnections
  PROVE  Bridge!Ready(Config, Written(c)) <=> PlanEnabled(Submitted(c))
<1> DEFINE s == Submitted(c)
           w == Written(c)
<1>1. /\ w.enabled = PlanEnabled(s) /\ w.required = s.required
      /\ w.available = AdapterAvailable(s) /\ w.adapter = s.adapter
      /\ w.adapterRevision = s.adapterRevision
  BY WrittenFields
<1>2. s \in ConnectionType
  BY SubmittedType
<1> HIDE DEF s, w
<1>3. AdapterAvailable(s) => \E a \in Config.adapters : Bridge!Matches(w, a)
  <2> SUFFICES ASSUME AdapterAvailable(s)
               PROVE  \E a \in Config.adapters : Bridge!Matches(w, a)
    OBVIOUS
  <2>1. s.adapter \in RegisteredAdapters
    BY <1>2 DEF AdapterAvailable, RegisteredAdapters, ConnectionType
  <2>2. adapters[s.adapter].adapter \in Config.adapters
    BY <2>1, ConnectionsWritten
  <2>3. adapters[s.adapter].adapter.id = s.adapter
    BY <2>1 DEF TypeOK
  <2> QED BY <1>1, <2>2, <2>3 DEF AdapterAvailable, Bridge!Matches
<1>4. PlanEnabled(s) => Config.active
  BY ConnectionsWritten DEF s
<1> QED BY <1>1, <1>3, <1>4 DEF Bridge!Ready, PlanEnabled, s, w

\* The models of a connection are told apart by its id and theirs.
LEMMA ModelsApart ==
  ASSUME TypeOK, StoredValid,
         NEW c \in RegisteredConnections, NEW d \in RegisteredConnections,
         NEW m \in Written(c).models, NEW n \in Written(d).models,
         m.gateway = n.gateway
  PROVE  c = d /\ m = n /\ m.gateway[1] = c
<1>1. PICK i \in EnabledModels(Submitted(c)) :
        m = [source |-> Submitted(c).models[i].source,
             gateway |-> <<Submitted(c).id, Submitted(c).models[i].model>>]
  BY WrittenFields
<1>2. PICK j \in EnabledModels(Submitted(d)) :
        n = [source |-> Submitted(d).models[j].source,
             gateway |-> <<Submitted(d).id, Submitted(d).models[j].model>>]
  BY WrittenFields
<1>3. Submitted(c).id = c /\ Submitted(d).id = d
  BY SubmittedType
<1>4. c = d /\ m.gateway[1] = c /\ Submitted(c).models[i].model = Submitted(d).models[j].model
  BY <1>1, <1>2, <1>3
<1>5. ValidConnection(Submitted(c))
  BY DEF StoredValid, Submitted
<1>6. i = j
  BY <1>4, <1>5 DEF ValidConnection, EnabledModels
<1> QED BY <1>1, <1>2, <1>4, <1>6

\* The bridge's answer to a request for a model of connection c.
LEMMA Answered ==
  ASSUME TypeOK, StoredValid, NEW c \in RegisteredConnections,
         NEW i \in EnabledModels(Submitted(c))
  PROVE  LET model == <<c, Submitted(c).models[i].model>>
             call == Bridge!Prepare(Config, model)
             usable == {a \in Config.adapters : Bridge!Matches(Written(c), a)}
         IN  /\ Bridge!Handles(Config, model)
             /\ call.status = "ok" <=> PlanEnabled(Submitted(c))
             /\ model \in Bridge!StaticModels(Config) <=> PlanEnabled(Submitted(c))
             /\ PlanEnabled(Submitted(c)) =>
                  /\ call.connection = c
                  /\ call.endpoint = connections[c].source
                  /\ call.credential = (IF Submitted(c).bearer
                                          THEN connections[c].source ELSE Unset)
                  /\ call.adapter = (IF usable = {} THEN Unset
                                                    ELSE CHOOSE a \in usable : TRUE)
<1> DEFINE s == Submitted(c)
           w == Written(c)
           model == <<c, s.models[i].model>>
           call == Bridge!Prepare(Config, model)
           usable == {a \in Config.adapters : Bridge!Matches(w, a)}
<1>1. /\ s.id = c /\ connections[c].source # Unset
  BY SubmittedType
<1>2. PICK m \in w.models : m.gateway = model
  <2>1. [source |-> s.models[i].source, gateway |-> <<s.id, s.models[i].model>>] \in w.models
    BY WrittenFields
  <2> QED BY <1>1, <2>1
<1>3. w \in Bridge!ConnectionsOf(Config)
  BY ConfigConnections
<1>4. /\ w.id = c /\ w.bearer = s.bearer
      /\ w.endpoint = (IF PlanEnabled(s) THEN connections[c].source ELSE Unset)
      /\ w.credential = (IF PlanEnabled(s) /\ s.bearer THEN connections[c].source ELSE Unset)
  BY <1>1, WrittenFields
<1>5. Bridge!Ready(Config, w) <=> PlanEnabled(s)
  BY ReadyWhenEnabled
<1>6. Bridge!Handles(Config, model)
  BY <1>2, <1>3 DEF Bridge!Handles, Bridge!KnownModels
<1>7. \A d \in Bridge!ConnectionsOf(Config) : d.id = c => d = w
  <2> SUFFICES ASSUME NEW e \in RegisteredConnections, Written(e).id = c PROVE e = c
    BY ConfigConnections
  <2> QED BY WrittenFields, SubmittedType
<1>8. (CHOOSE d \in Bridge!ConnectionsOf(Config) : d.id = model[1]) = w
  <2>1. model[1] = c
    OBVIOUS
  <2> HIDE DEF w, model
  <2> QED BY <1>3, <1>4, <1>7, <2>1
<1>9. model \in Bridge!StaticModels(Config) <=> PlanEnabled(s)
  <2>1. ASSUME PlanEnabled(s)
        PROVE  model \in Bridge!StaticModels(Config)
    BY <1>2, <1>3, <1>5, <2>1 DEF Bridge!StaticModels
  <2>2. ASSUME model \in Bridge!StaticModels(Config)
        PROVE  PlanEnabled(s)
    <3>1. PICK d \in Bridge!ConnectionsOf(Config) :
            Bridge!Ready(Config, d) /\ \E n \in d.models : n.gateway = model
      BY <2>2 DEF Bridge!StaticModels
    <3>2. PICK e \in RegisteredConnections : d = Written(e)
      BY ConfigConnections
    <3>3. PICK n \in Written(e).models : n.gateway = model
      BY <3>1, <3>2
    <3>4. e = c
      BY <1>2, <3>3, ModelsApart
    <3> QED BY <1>5, <3>1, <3>2, <3>4
  <2> QED BY <2>1, <2>2
<1> HIDE DEF s, w, model
<1>10. call = IF ~PlanEnabled(s) \/ (w.bearer /\ w.credential = Unset)
                THEN Bridge!Refusal("unavailable")
                ELSE [status |-> "ok", connection |-> w.id, endpoint |-> w.endpoint,
                      credential |-> IF w.bearer THEN w.credential ELSE Unset,
                      adapter |-> IF usable = {} THEN Unset ELSE CHOOSE a \in usable : TRUE]
  <2> DEFINE d == CHOOSE x \in Bridge!ConnectionsOf(Config) : x.id = model[1]
             named == {a \in Config.adapters : Bridge!Matches(d, a)}
  <2>1. call = IF ~Bridge!Handles(Config, model)
                 THEN Bridge!Refusal("not-found")
                 ELSE IF ~Bridge!Ready(Config, d) \/ (d.bearer /\ d.credential = Unset)
                   THEN Bridge!Refusal("unavailable")
                   ELSE [status |-> "ok", connection |-> d.id, endpoint |-> d.endpoint,
                         credential |-> IF d.bearer THEN d.credential ELSE Unset,
                         adapter |-> IF named = {} THEN Unset ELSE CHOOSE a \in named : TRUE]
    BY Zenon DEF Bridge!Prepare
  <2>2. d = w
    BY <1>8
  <2> HIDE DEF d, call
  <2>3. named = usable
    BY <2>2
  <2> HIDE DEF named, usable
  <2> QED BY <1>5, <1>6, <2>1, <2>2, <2>3, Zenon
<1> HIDE DEF call, usable
<1>11. CASE PlanEnabled(s)
  <2>1. call = [status |-> "ok", connection |-> w.id, endpoint |-> w.endpoint,
                credential |-> IF w.bearer THEN w.credential ELSE Unset,
                adapter |-> IF usable = {} THEN Unset ELSE CHOOSE a \in usable : TRUE]
    BY <1>1, <1>4, <1>10, <1>11
  <2>2. /\ call.status = "ok" /\ call.connection = c /\ call.endpoint = connections[c].source
        /\ call.credential = (IF s.bearer THEN connections[c].source ELSE Unset)
        /\ call.adapter = IF usable = {} THEN Unset ELSE CHOOSE a \in usable : TRUE
    BY <1>4, <1>11, <2>1
  <2> QED BY <1>6, <1>9, <1>11, <2>2 DEF s, w, model, call, usable
<1>12. CASE ~PlanEnabled(s)
  <2>1. call.status = "unavailable"
    BY <1>10, <1>12 DEF Bridge!Refusal
  <2> QED BY <1>6, <1>9, <1>12, <2>1 DEF s, w, model, call, usable
<1> QED BY <1>11, <1>12

-----------------------------------------------------------------------------
(* What the plan promises, for every instance                              *)

\* The bridge accepts every configuration the registry can lead to, and lists exactly the
\* models the gateway expects of it: plan() and connectionReady decide alike.
THEOREM BridgeServesEveryPlan == Spec => []BridgeServesPlan
<1>1. ASSUME TypeOK, StoredValid
      PROVE  Bridge!Accepts(Config)
  <2>1. PICK n \in Nat : /\ Ids \in [1 .. n -> RegisteredConnections]
                         /\ \A i, j \in 1 .. n : Ids[i] = Ids[j] => i = j
    BY <1>1, IdsListed
  <2>2. /\ DOMAIN Config.connections = 1 .. n
        /\ \A i \in 1 .. n : Config.connections[i] = Written(Ids[i])
    BY <1>1, <2>1, ConnectionsWritten
  <2>3. ASSUME NEW d \in Bridge!ConnectionsOf(Config), d.enabled
        PROVE  d.endpoint # Unset
    <3>1. PICK c \in RegisteredConnections : d = Written(c)
      BY <1>1, ConfigConnections
    <3> QED BY <1>1, <2>3, <3>1, WrittenFields, SubmittedType
  <2>4. ASSUME NEW i \in 1 .. n, NEW j \in 1 .. n
        PROVE  /\ Written(Ids[i]).id = Written(Ids[j]).id => i = j
               /\ \A m \in Written(Ids[i]).models, k \in Written(Ids[j]).models :
                    m.gateway = k.gateway => i = j /\ m = k
    <3>1. Ids[i] \in RegisteredConnections /\ Ids[j] \in RegisteredConnections
      BY <2>1
    <3>2. Written(Ids[i]).id = Ids[i] /\ Written(Ids[j]).id = Ids[j]
      BY <1>1, <3>1, WrittenFields, SubmittedType
    <3>3. \A m \in Written(Ids[i]).models, k \in Written(Ids[j]).models :
            m.gateway = k.gateway => Ids[i] = Ids[j] /\ m = k
      BY <1>1, <3>1, ModelsApart
    <3> QED BY <2>1, <3>2, <3>3
  <2>5. ASSUME NEW i \in DOMAIN Config.connections, NEW j \in DOMAIN Config.connections
        PROVE  /\ Config.connections[i].id = Config.connections[j].id => i = j
               /\ \A m \in Config.connections[i].models, k \in Config.connections[j].models :
                    m.gateway = k.gateway => i = j /\ m = k
    BY <2>2, <2>4
  <2> QED BY <2>3, <2>5, Zenon DEF Bridge!Accepts
<1>2. ASSUME TypeOK
      PROVE  Bridge!StaticModels(Config) = ExpectedModels(Plan)
  <2>1. ASSUME NEW x
        PROVE  x \in Bridge!StaticModels(Config) <=>
                 \E c \in RegisteredConnections : /\ PlanEnabled(Submitted(c))
                                                  /\ \E m \in Written(c).models : x = m.gateway
    <3>1. x \in Bridge!StaticModels(Config) <=>
            \E d \in Bridge!ConnectionsOf(Config) : /\ Bridge!Ready(Config, d)
                                                    /\ \E m \in d.models : x = m.gateway
      BY DEF Bridge!StaticModels
    <3> QED BY <1>2, <3>1, ConfigConnections, ReadyWhenEnabled
  <2>2. ToSet(Plan.connections) = {PlanConnection(Submitted(c)) : c \in RegisteredConnections}
    <3>1. PICK n \in Nat : /\ Ids \in [1 .. n -> RegisteredConnections]
                           /\ \A c \in RegisteredConnections : \E i \in 1 .. n : Ids[i] = c
      BY <1>2, IdsListed
    <3>2. Plan.connections = [i \in 1 .. n |-> PlanConnection(Submitted(Ids[i]))]
      BY <3>1 DEF Plan, Listed, Submitted
    <3> QED BY <3>1, <3>2 DEF ToSet
  <2>3. ASSUME NEW c
        PROVE  /\ PlanConnection(Submitted(c)).enabled = PlanEnabled(Submitted(c))
               /\ PlanConnection(Submitted(c)).models = Written(c).models
    BY WrittenFields DEF PlanConnection
  <2>4. ASSUME NEW x
        PROVE  x \in ExpectedModels(Plan) <=>
                 \E c \in RegisteredConnections : /\ PlanEnabled(Submitted(c))
                                                  /\ \E m \in Written(c).models : x = m.gateway
    <3>1. x \in ExpectedModels(Plan) <=>
            \E d \in ToSet(Plan.connections) : d.enabled /\ \E m \in d.models : x = m.gateway
      BY DEF ExpectedModels
    <3> QED BY <2>2, <2>3, <3>1
  <2> QED BY <2>1, <2>4
<1>3. IInv /\ StoredValid => BridgeServesPlan
  BY <1>1, <1>2 DEF IInv, BridgeServesPlan, Config
<1>4. QED
  BY <1>3, PlanInductive, PTL

\* A request for a model of a connection reaches the source registered for that connection,
\* with its credential or none, whatever else is enabled or not.
THEOREM SourcesAreReached == Spec => []SourcesReachTheirModels
<1>1. ASSUME TypeOK, StoredValid
      PROVE  SourcesReachTheirModels
  <2>1. ASSUME NEW c \in RegisteredConnections, NEW i \in EnabledModels(connections[c].connection)
        PROVE  LET call == Bridge!Prepare(Materialized(Plan),
                                          <<c, connections[c].connection.models[i].model>>)
               IN  call.status = "ok" =>
                     /\ call.connection = c
                     /\ call.endpoint = connections[c].source
                     /\ call.credential = (IF connections[c].connection.bearer
                                             THEN connections[c].source ELSE Unset)
    BY <1>1, Answered DEF Config, Submitted
  <2> QED BY <2>1, Zenon DEF SourcesReachTheirModels
<1>2. IInv /\ StoredValid => SourcesReachTheirModels
  BY <1>1 DEF IInv
<1>3. QED
  BY <1>2, PlanInductive, PTL

\* A connection that requires its adapter is claimed by the bridge and served with exactly
\* that revision of it, or not at all and not listed.
THEOREM RequiredAdaptersAreUsed == Spec => []RequiredAdaptersProtect
<1>1. ASSUME TypeOK, StoredValid, NEW c \in RegisteredConnections, Submitted(c).required,
             NEW i \in EnabledModels(Submitted(c))
      PROVE  LET model == <<c, Submitted(c).models[i].model>>
                 call == Bridge!Prepare(Config, model)
             IN  /\ Bridge!Handles(Config, model)
                 /\ call.status = "ok" <=> model \in Bridge!StaticModels(Config)
                 /\ call.status = "ok" =>
                      /\ call.adapter # Unset
                      /\ call.adapter.id = Submitted(c).adapter
                      /\ call.adapter.revision = Submitted(c).adapterRevision
  <2> DEFINE model == <<c, Submitted(c).models[i].model>>
             call == Bridge!Prepare(Config, model)
             usable == {a \in Config.adapters : Bridge!Matches(Written(c), a)}
  <2>1. /\ Bridge!Handles(Config, model)
        /\ call.status = "ok" <=> PlanEnabled(Submitted(c))
        /\ model \in Bridge!StaticModels(Config) <=> PlanEnabled(Submitted(c))
        /\ PlanEnabled(Submitted(c)) =>
             call.adapter = (IF usable = {} THEN Unset ELSE CHOOSE a \in usable : TRUE)
    BY <1>1, Answered
  <2>2. ASSUME PlanEnabled(Submitted(c))
        PROVE  usable # {}
    <3>1. Bridge!Ready(Config, Written(c))
      BY <1>1, <2>2, ReadyWhenEnabled
    <3> QED BY <1>1, <3>1, WrittenFields DEF Bridge!Ready
  <2>3. \A a \in usable : /\ a # Unset /\ a.id = Submitted(c).adapter
                          /\ a.revision = Submitted(c).adapterRevision
    <3>1. \A a \in Config.adapters : a \in Adapters
      BY <1>1, ConnectionsWritten DEF TypeOK, RegisteredAdapters, AdapterEntry
    <3>2. \A a \in usable : a.id = Written(c).adapter /\ a.revision = Written(c).adapterRevision
      BY DEF Bridge!Matches
    <3> QED BY <3>1, <3>2, RankAssumption, WrittenFields
  <2> HIDE DEF model, call, usable
  <2>4. (CHOOSE a \in usable : TRUE) \in usable \/ usable = {}
    OBVIOUS
  <2>5. PlanEnabled(Submitted(c)) => /\ call.adapter # Unset
                                     /\ call.adapter.id = Submitted(c).adapter
                                     /\ call.adapter.revision = Submitted(c).adapterRevision
    BY <2>1, <2>2, <2>3, <2>4
  <2> QED BY <2>1, <2>5 DEF model, call
<1>2. TypeOK /\ StoredValid => RequiredAdaptersProtect
  BY <1>1, Zenon DEF RequiredAdaptersProtect, Config, Submitted
<1>3. IInv => TypeOK
  BY DEF IInv
<1>4. QED
  BY <1>2, <1>3, PlanInductive, PTL
=============================================================================
