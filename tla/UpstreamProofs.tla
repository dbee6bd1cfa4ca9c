--------------------------- MODULE UpstreamProofs ---------------------------
(***************************************************************************)
(* Proofs about UpstreamRegistry and about UpstreamContext, which contains *)
(* it, for all sets of upstreams, plugins, generations, sources and        *)
(* descriptors.                                                            *)
(*                                                                         *)
(* The registry: apart from the two orders of growth (revisions and        *)
(* versions) everything follows from one inductive invariant: what is      *)
(* stored was validated, belongs to a live producer generation and         *)
(* conflicts with nothing else.                                            *)
(*                                                                         *)
(* The context: one of its steps is a step of the registry, the closing of *)
(* it, or neither, so the registry's invariant carries over; on top of it, *)
(* a plugin only has a live generation while a binding of that generation  *)
(* lives.                                                                  *)
(*                                                                         *)
(* The plan and the catalog: a finite set has one sorted list, and a fold  *)
(* over a list is a sequence of turns.  One turn of the loop that builds   *)
(* the plan keeps its pointers right, so the whole loop does, whatever is  *)
(* enabled; and each reading of the entries lists every enabled one once.  *)
(***************************************************************************)
EXTENDS UpstreamContext, UpstreamPlan, FiniteSetTheorems, TLAPS

USE ConstantsAssumption

\* Only validated descriptors are stored.  RetryIsUnchanged needs it, and it is
\* not implied by what the runs check.
StoredValid == \A u \in Registered : ValidDescriptor(entries[u].descriptor)

IInv ==
  /\ TypeOK
  /\ StoredValid
  /\ NoConflicts
  /\ EntriesFenced
  /\ WithinCapacity
  /\ ListenerIsCurrent

-----------------------------------------------------------------------------
(* Every step either stores one entry, removes entries, or leaves them.    *)

\* The effect of a call on the entries: id u gets entry e.
Stores(u, e) == entries' = [entries EXCEPT ![u] = e]

\* The effect of a call on the entries: the ids in us become free.
Frees(us) == entries' = [u \in Upstreams |-> IF u \in us THEN Absent ELSE entries[u]]

\* What a registration stores has the type of an entry and names its id.
LEMMA StoredEntryType ==
  ASSUME NEW p \in Plugins, NEW g \in Generations, NEW d \in Descriptors,
         NEW s \in Sources
  PROVE  /\ d.id \in Upstreams
         /\ d.revision \in Nat
         /\ [plugin |-> p, generation |-> g, source |-> s, descriptor |-> d] \in EntryType
         /\ [plugin |-> p, generation |-> g, source |-> s, descriptor |-> d] # Absent
<1>1. d \in DescriptorType
  OBVIOUS
<1>2. d.id \in Upstreams /\ d.revision \in Nat
  BY <1>1 DEF DescriptorType
<1>3. [plugin |-> p, generation |-> g, source |-> s, descriptor |-> d] \in EntryType
  BY DEF EntryType
<1>4. QED
  BY <1>2, <1>3

\* Freeing ids keeps the entries well typed, the remaining ones being the old.
LEMMA FreedEntries ==
  ASSUME TypeOK, NEW us, Frees(us)
  PROVE  /\ entries' \in [Upstreams -> EntryType \cup {Absent}]
         /\ Registered' = Registered \ us
         /\ \A u \in Registered' : u \in Registered /\ entries'[u] = entries[u]
  BY DEF TypeOK, Frees, Registered

\* Revoking an id is freeing it.
LEMMA RevokeFrees ==
  ASSUME TypeOK, NEW p, NEW g, NEW u \in Upstreams, NEW expected,
         Revoke(p, g, u, expected)
  PROVE  Frees({u})
  BY DEF TypeOK, Revoke, Frees

\* The set of registered ids is finite, so its cardinality counts it.
LEMMA RegisteredFinite == IsFiniteSet(Registered)
  BY FS_Subset DEF Registered

\* The four ways a step of the registry treats entries, producer generations
\* and the counters; every later proof splits on them.
StoreStep ==
  \E p \in Plugins, g \in Generations, d \in Descriptors, s \in Sources :
    Register(p, g, d, s)

FreeStep ==
  \E us \in SUBSET Registered :
    /\ Frees(us)
    /\ IF us = {} THEN Silent ELSE Announce
    /\ generation' \in [Plugins -> Generations \cup {NoGeneration}]
    /\ ~disposed
    /\ \A u \in Registered \ us : generation'[entries[u].plugin] = generation[entries[u].plugin]

\* Every step of the registry is of one of five kinds.
LEMMA StepKinds ==
  ASSUME TypeOK, EntriesFenced, Next
  PROVE  StoreStep \/ FreeStep \/ Subscribe \/ Unsubscribe \/ Dispose
<1>1. ASSUME NEW p \in Plugins, NEW g \in Generations, ActivateProducer(p, g)
      PROVE  FreeStep
  <2>1. Frees(EntriesOf(p)) /\ EntriesOf(p) \in SUBSET Registered
    BY <1>1 DEF ActivateProducer, RemoveEntries, Frees, EntriesOf
  <2>2. \A u \in Registered \ EntriesOf(p) :
          generation'[entries[u].plugin] = generation[entries[u].plugin]
    BY <1>1 DEF ActivateProducer, EntriesOf, TypeOK, Registered, EntryType
  <2>3. QED
    BY <1>1, <2>1, <2>2 DEF ActivateProducer, RemoveEntries, FreeStep, TypeOK
<1>2. ASSUME NEW p \in Plugins, NEW g \in Generations, DisposeProducer(p, g)
      PROVE  FreeStep
  <2> DEFINE us == {u \in Registered : OwnedBy(u, p, g)}
  <2>1. Frees(us) /\ us \in SUBSET Registered
    BY <1>2 DEF DisposeProducer, RemoveEntries, Frees
  <2>2. \A u \in Registered \ us :
          generation'[entries[u].plugin] = generation[entries[u].plugin]
    BY <1>2 DEF DisposeProducer, OwnedBy, TypeOK, Registered, EntryType, EntriesFenced, Live
  <2>3. ~disposed /\ generation' \in [Plugins -> Generations \cup {NoGeneration}]
    BY <1>2 DEF DisposeProducer, Live, TypeOK
  <2>4. IF us = {} THEN Silent ELSE Announce
    BY <1>2 DEF DisposeProducer, RemoveEntries
  <2>5. QED
    BY <2>1, <2>2, <2>3, <2>4 DEF FreeStep
<1>3. ASSUME NEW p \in Plugins, NEW g \in Generations, NEW u \in Upstreams, NEW expected,
             Revoke(p, g, u, expected)
      PROVE  FreeStep
  <2>1. Frees({u}) /\ {u} \in SUBSET Registered
    BY <1>3, RevokeFrees DEF Revoke, MayRevoke, Registered
  <2>2. QED
    BY <1>3, <2>1 DEF Revoke, MayRevoke, Live, FreeStep, TypeOK
<1>4. QED
  BY <1>1, <1>2, <1>3 DEF Next, ProducerStep, StoreStep

-----------------------------------------------------------------------------
(* The inductive invariant                                                 *)

\* An empty registry satisfies the invariant.
LEMMA InitIInv == Init => IInv
<1> SUFFICES ASSUME Init PROVE IInv
  OBVIOUS
<1>1. Registered = {}
  BY DEF Init, Registered
<1>2. TypeOK
  BY <1>1 DEF Init, TypeOK
<1>3. WithinCapacity
  BY <1>1, FS_EmptySet DEF WithinCapacity
<1>4. QED
  BY <1>1, <1>2, <1>3 DEF Init, IInv, StoredValid, NoConflicts, EntriesFenced, ListenerIsCurrent

\* Registration: the new entry is validated, owned by a live generation, was
\* compared with every other entry, and took a free place or replaced one.
LEMMA RegisterIInv ==
  ASSUME IInv, NEW p \in Plugins, NEW g \in Generations, NEW d \in Descriptors,
         NEW s \in Sources, Register(p, g, d, s)
  PROVE  IInv'
<1> DEFINE e == [plugin |-> p, generation |-> g, source |-> s, descriptor |-> d]
<1>1. d.id \in Upstreams /\ e \in EntryType /\ e # Absent
  BY StoredEntryType
<1>2. entries \in [Upstreams -> EntryType \cup {Absent}] /\ Stores(d.id, e)
  BY DEF Register, Stores, IInv, TypeOK
<1>3. /\ Registered' = Registered \cup {d.id}
      /\ entries'[d.id] = e
      /\ \A u \in Registered \ {d.id} : entries'[u] = entries[u]
  BY <1>1, <1>2 DEF Stores, Registered
<1> HIDE DEF e
<1>e. /\ e.plugin = p /\ e.generation = g /\ e.source = s /\ e.descriptor = d
  BY DEF e
<1>4. TypeOK'
  <2>1. entries' \in [Upstreams -> EntryType \cup {Absent}]
    BY <1>1, <1>2 DEF Stores
  <2>2. \A u \in Registered' : entries'[u].descriptor.id = u
    BY <1>3, <1>e DEF IInv, TypeOK
  <2>3. QED
    BY <2>1, <2>2 DEF Register, Announce, IInv, TypeOK
<1>5. StoredValid'
  BY <1>3, <1>e DEF Register, StoredValid, IInv
<1>6. NoConflicts'
  <2> SUFFICES ASSUME NEW u \in Registered', NEW v \in Registered', u # v
               PROVE  /\ entries'[u].source # entries'[v].source
                      /\ ~SamePrefix(entries'[u].descriptor, entries'[v].descriptor)
                      /\ ~InconsistentGroup(entries'[u].descriptor, entries'[v].descriptor)
    BY DEF NoConflicts
  <2>1. \A w \in Registered \ {d.id} :
          /\ entries[w].source # s
          /\ ~SamePrefix(entries[w].descriptor, d)
          /\ ~InconsistentGroup(entries[w].descriptor, d)
    BY DEF Register, Conflicting
  <2>2. CASE u = d.id
    BY <2>1, <2>2, <1>3, <1>e DEF SamePrefix, InconsistentGroup
  <2>3. CASE v = d.id
    BY <2>1, <2>3, <1>3, <1>e
  <2>4. CASE u # d.id /\ v # d.id
    BY <2>4, <1>3 DEF IInv, NoConflicts
  <2>5. QED
    BY <2>2, <2>3, <2>4
<1>7. EntriesFenced'
  BY <1>3, <1>e DEF Register, Announce, Live, EntriesFenced, IInv
<1>8. WithinCapacity'
  <2>1. CASE d.id \in Registered
    <3>1. Registered' = Registered
      BY <1>3, <2>1
    <3>2. QED
      BY <3>1 DEF IInv, WithinCapacity
  <2>2. CASE d.id \notin Registered
    <3>1. Cardinality(Registered) < MaxRegistrations
      BY <2>2, <1>1 DEF Register, Admissible, Registered
    <3>2. Cardinality(Registered') = Cardinality(Registered) + 1
      BY <1>3, <2>2, RegisteredFinite, FS_AddElement
    <3>3. Cardinality(Registered) \in Nat
      BY RegisteredFinite, FS_CardinalityType
    <3>4. QED
      BY <3>1, <3>2, <3>3 DEF WithinCapacity
  <2>3. QED
    BY <2>1, <2>2
<1>9. ListenerIsCurrent'
  BY DEF Register, Announce, ListenerIsCurrent, IInv
<1>10. QED
  BY <1>4, <1>5, <1>6, <1>7, <1>8, <1>9 DEF IInv

\* Removal: what remains was there before, and the generations that remain
\* entries belong to are those that were live.
LEMMA FreeIInv ==
  ASSUME IInv, FreeStep
  PROVE  IInv'
<1>1. PICK us \in SUBSET Registered :
        /\ Frees(us)
        /\ IF us = {} THEN Silent ELSE Announce
        /\ generation' \in [Plugins -> Generations \cup {NoGeneration}]
        /\ ~disposed
        /\ \A u \in Registered \ us :
             generation'[entries[u].plugin] = generation[entries[u].plugin]
  BY DEF FreeStep
<1>2. /\ entries' \in [Upstreams -> EntryType \cup {Absent}]
      /\ Registered' = Registered \ us
      /\ \A u \in Registered' : u \in Registered /\ entries'[u] = entries[u]
  BY <1>1, FreedEntries DEF IInv
<1>3. TypeOK'
  BY <1>1, <1>2 DEF Silent, Announce, IInv, TypeOK
<1>4. StoredValid' /\ NoConflicts'
  BY <1>2 DEF StoredValid, NoConflicts, IInv
<1>5. EntriesFenced'
  BY <1>1, <1>2 DEF EntriesFenced, Live, Silent, Announce, IInv
<1>6. WithinCapacity'
  <2>1. Cardinality(Registered') <= Cardinality(Registered)
    BY <1>2, RegisteredFinite, FS_Subset
  <2>2. Cardinality(Registered) \in Nat /\ Cardinality(Registered') \in Nat
    BY <1>2, RegisteredFinite, FS_Subset, FS_CardinalityType
  <2>3. QED
    BY <2>1, <2>2 DEF WithinCapacity, IInv
<1>7. ListenerIsCurrent'
  BY <1>1 DEF Silent, Announce, ListenerIsCurrent, IInv
<1>8. QED
  BY <1>3, <1>4, <1>5, <1>6, <1>7 DEF IInv

\* dispose() empties the registry and forgets the generations and the listener.
LEMMA DisposeIInv ==
  ASSUME IInv, Dispose
  PROVE  IInv'
<1>1. Registered' = {}
  BY DEF Dispose, Registered
<1>2. TypeOK'
  <2>1. entries' \in [Upstreams -> EntryType \cup {Absent}]
    BY DEF Dispose
  <2>2. generation' \in [Plugins -> Generations \cup {NoGeneration}]
    BY DEF Dispose
  <2>3. revision' \in Nat /\ seen' \in Nat
    BY DEF Dispose, IInv, TypeOK
  <2>4. disposed' \in BOOLEAN /\ subscribed' \in BOOLEAN
    BY DEF Dispose
  <2>5. QED
    BY <1>1, <2>1, <2>2, <2>3, <2>4 DEF TypeOK
<1>3. WithinCapacity'
  BY <1>1, FS_EmptySet DEF WithinCapacity
<1>4. QED
  BY <1>1, <1>2, <1>3 DEF Dispose, IInv, StoredValid, NoConflicts, EntriesFenced,
                          ListenerIsCurrent

\* A step that leaves entries and generations alone only concerns listeners.
LEMMA ListenersIInv ==
  ASSUME IInv, Subscribe \/ Unsubscribe \/ UNCHANGED vars
  PROVE  IInv'
<1>1. /\ UNCHANGED <<entries, generation, revision, disposed>>
      /\ subscribed' \in BOOLEAN /\ seen' \in Nat
      /\ subscribed' => seen' = revision'
  <2>1. CASE Subscribe
    BY <2>1 DEF Subscribe, IInv, TypeOK
  <2>2. CASE Unsubscribe
    BY <2>2 DEF Unsubscribe, IInv, TypeOK
  <2>3. CASE UNCHANGED vars
    BY <2>3 DEF vars, IInv, TypeOK, ListenerIsCurrent
  <2>4. QED
    BY <2>1, <2>2, <2>3
<1>2. Registered' = Registered
  BY <1>1 DEF Registered
<1>3. TypeOK'
  BY <1>1, <1>2 DEF IInv, TypeOK
<1>4. QED
  BY <1>1, <1>2, <1>3 DEF IInv, StoredValid, NoConflicts, EntriesFenced, Live,
                          WithinCapacity, ListenerIsCurrent

\* Every step of the registry keeps the invariant.
LEMMA NextIInv ==
  ASSUME IInv, [Next]_vars
  PROVE  IInv'
<1>1. CASE Next
  <2>1. StoreStep \/ FreeStep \/ Subscribe \/ Unsubscribe \/ Dispose
    BY <1>1, StepKinds DEF IInv
  <2>2. CASE StoreStep
    BY <2>2, RegisterIInv DEF StoreStep
  <2>3. CASE FreeStep
    BY <2>3, FreeIInv
  <2>4. CASE Subscribe \/ Unsubscribe
    BY <2>4, ListenersIInv
  <2>5. CASE Dispose
    BY <2>5, DisposeIInv
  <2>6. QED
    BY <2>1, <2>2, <2>3, <2>4, <2>5
<1>2. CASE UNCHANGED vars
  BY <1>2, ListenersIInv
<1>3. QED
  BY <1>1, <1>2

\* The inductive invariant holds in every state the registry reaches.
THEOREM Inductive == Spec => []IInv
  BY InitIInv, NextIInv, PTL DEF Spec

-----------------------------------------------------------------------------
(* What the runs check, for every instance                                 *)

\* Every variable of the registry keeps its type.
THEOREM TypeCorrect == Spec => []TypeOK
<1>1. IInv => TypeOK
  BY DEF IInv
<1>2. QED
  BY <1>1, Inductive, PTL

\* Two registered upstreams never share a source; two enabled ones never share
\* a gateway prefix or contradict each other about a group.
THEOREM ConflictFreedom == Spec => []NoConflicts
<1>1. IInv => NoConflicts
  BY DEF IInv
<1>2. QED
  BY <1>1, Inductive, PTL

\* Every entry belongs to a live producer generation.
THEOREM Fencing == Spec => []EntriesFenced
<1>1. IInv => EntriesFenced
  BY DEF IInv
<1>2. QED
  BY <1>1, Inductive, PTL

\* The registry never exceeds its capacity.
THEOREM Capacity == Spec => []WithinCapacity
<1>1. IInv => WithinCapacity
  BY DEF IInv
<1>2. QED
  BY <1>1, Inductive, PTL

\* A registration can be repeated with the same arguments at any time.
THEOREM RetrySafety == Spec => []RetryIsUnchanged
<1>1. IInv => RetryIsUnchanged
  BY DEF IInv, TypeOK, StoredValid, EntriesFenced, RetryIsUnchanged,
         RegisterUnchanged, OwnedBy, Registered
<1>2. QED
  BY <1>1, Inductive, PTL

\* A subscribed listener that reads when notified is never behind.
THEOREM ListenersInformed == Spec => []ListenerIsCurrent
<1>1. IInv => ListenerIsCurrent
  BY DEF IInv
<1>2. QED
  BY <1>1, Inductive, PTL

-----------------------------------------------------------------------------
(* What a step may never do                                                *)

\* An id keeps its owner and moves to higher revisions while it is registered.
THEOREM RevisionGrowth == Spec => RevisionsGrow
<1>1. ASSUME IInv, [Next]_vars
      PROVE  [\A u \in Upstreams : EntryGrows(u)]_vars
  <2> SUFFICES ASSUME Next, NEW u \in Upstreams PROVE EntryGrows(u)
    BY <1>1
  <2>1. CASE StoreStep
    <3>1. PICK p \in Plugins, g \in Generations, d \in Descriptors, s \in Sources :
            Register(p, g, d, s)
      BY <2>1 DEF StoreStep
    <3>2. entries \in [Upstreams -> EntryType \cup {Absent}]
      BY <1>1 DEF IInv, TypeOK
    <3>3. CASE u # d.id
      BY <3>1, <3>2, <3>3 DEF EntryGrows, Register
    <3>4. CASE u = d.id
      BY <3>1, <3>2, <3>4 DEF EntryGrows, Register, Admissible, OwnedBy
    <3>5. QED
      BY <3>3, <3>4
  <2>2. CASE FreeStep
    BY <2>2 DEF EntryGrows, FreeStep, Frees
  <2>3. CASE Subscribe \/ Unsubscribe
    BY <2>3 DEF EntryGrows, Subscribe, Unsubscribe
  <2>4. CASE Dispose
    BY <2>4 DEF EntryGrows, Dispose
  <2>5. QED
    BY <1>1, <2>1, <2>2, <2>3, <2>4, StepKinds DEF IInv
<1>2. QED
  BY <1>1, Inductive, PTL DEF Spec, RevisionsGrow

\* No plugin touches what another plugin registered.
THEOREM Isolation == Spec => NoInterference
<1>1. ASSUME IInv, NEW p \in Plugins, NEW g \in Generations, ProducerStep(p, g)
      PROVE  OthersKept(p)
  <2>0. TypeOK /\ entries \in [Upstreams -> EntryType \cup {Absent}]
    BY <1>1 DEF IInv, TypeOK
  <2>1. ASSUME ActivateProducer(p, g) PROVE OthersKept(p)
    BY <2>1 DEF OthersKept, ActivateProducer, RemoveEntries, EntriesOf, Registered
  <2>2. ASSUME DisposeProducer(p, g) PROVE OthersKept(p)
    BY <2>2 DEF OthersKept, DisposeProducer, RemoveEntries, OwnedBy, Registered
  <2>3. ASSUME NEW d \in Descriptors, NEW s \in Sources, Register(p, g, d, s)
        PROVE  OthersKept(p)
    BY <2>0, <2>3 DEF OthersKept, Register, Admissible, OwnedBy, Registered
  <2>4. ASSUME NEW u \in Upstreams, NEW expected, Revoke(p, g, u, expected)
        PROVE  OthersKept(p)
    BY <2>0, <2>4 DEF OthersKept, Revoke, MayRevoke, OwnedBy, Registered
  <2>5. QED
    BY <1>1, <2>1, <2>2, <2>3, <2>4 DEF ProducerStep
<1>2. IInv /\ [Next]_vars =>
        [\A p \in Plugins : (\E g \in Generations : ProducerStep(p, g)) => OthersKept(p)]_vars
  BY <1>1
<1>3. QED
  BY <1>2, Inductive, PTL DEF Spec, NoInterference

-----------------------------------------------------------------------------
(* Refinement                                                              *)

\* Every step of the registry is a write or a closing of the versioned store, or
\* leaves it alone.
LEMMA StepOfStore ==
  ASSUME IInv, [Next]_vars
  PROVE  [Store!Next]_(Store!vars)
<1>0. entries \in [Upstreams -> EntryType \cup {Absent}]
  BY DEF IInv, TypeOK
<1>1. CASE StoreStep
  <2>1. PICK p \in Plugins, g \in Generations, d \in Descriptors, s \in Sources :
          Register(p, g, d, s)
    BY <1>1 DEF StoreStep
  <2>2. d.id \in Upstreams /\ d.revision \in Nat
    BY StoredEntryType
  <2>3. [plugin |-> p, generation |-> g, source |-> s, descriptor |-> d] # Absent
    BY StoredEntryType
  <2>4. entries'[d.id] # entries[d.id]
    BY <1>0, <2>1, <2>2, <2>3 DEF Register, Admissible
  <2>5. QED
    BY <2>1, <2>4 DEF Register, Live, Announce, Store!Next, Store!Write
<1>2. CASE FreeStep
  <2>1. PICK us \in SUBSET Registered :
          Frees(us) /\ ~disposed /\ IF us = {} THEN Silent ELSE Announce
    BY <1>2 DEF FreeStep
  <2>2. CASE us = {}
    <3>1. entries' = entries
      BY <1>0, <2>1, <2>2 DEF Frees
    <3>2. QED
      BY <2>1, <2>2, <3>1 DEF Silent, Store!vars
  <2>3. CASE us # {}
    <3>1. entries' # entries
      BY <1>0, <2>1, <2>3 DEF Frees, Registered
    <3>2. QED
      BY <2>1, <2>3, <3>1 DEF Announce, Store!Next, Store!Write
  <2>4. QED
    BY <2>2, <2>3
<1>3. CASE Subscribe \/ Unsubscribe
  BY <1>3 DEF Subscribe, Unsubscribe, Store!vars
<1>4. CASE Dispose
  BY <1>4 DEF Dispose, IInv, TypeOK, Store!Next, Store!Close
<1>5. CASE UNCHANGED vars
  BY <1>5 DEF vars, Store!vars
<1>6. QED
  BY <1>1, <1>2, <1>3, <1>4, <1>5, StepKinds DEF IInv

\* To its readers the registry is a versioned store: its content changes exactly
\* when its revision does, until it is closed.
THEOREM ImplementsStore == Spec => RevisionTracksContent
<1>1. Init => Store!Init
  BY DEF Init, Store!Init
<1>2. QED
  BY <1>1, StepOfStore, Inductive, PTL DEF Spec, RevisionTracksContent, Store!Spec

-----------------------------------------------------------------------------
(* The context                                                             *)


BindingTypeOK == binding \in [Bindings -> BindingType \cup {Unbound}]

\* Whatever authority the registry honours comes from a binding that still lives.
GenerationsBound ==
  \A p \in Plugins : ~disposed /\ generation[p] # NoGeneration =>
    \E b \in Bindings :
      /\ LiveBinding(b)
      /\ binding[b].plugin = p
      /\ binding[b].generation = generation[p]

ContextIInv == IInv /\ BindingTypeOK /\ GenerationsBound

-----------------------------------------------------------------------------
(* A step of the context, seen from the registry                           *)

\* The root's disposal empties the registry under a new revision, as the
\* registry's own does.
CloseStep ==
  /\ ~disposed
  /\ disposed' = TRUE
  /\ entries' = [u \in Upstreams |-> Absent]
  /\ generation' = [p \in Plugins |-> NoGeneration]
  /\ subscribed' = FALSE
  /\ revision' \in Nat /\ revision' > revision
  /\ seen' \in Nat

\* A binding that was created has an authority: a plugin and a generation.
LEMMA BoundAuthority ==
  ASSUME BindingTypeOK, NEW b \in Bindings, Created(b)
  PROVE  binding[b] \in BindingType
  BY DEF BindingTypeOK, Created

\* Under the context the registry takes its own steps, or is closed by the root.
LEMMA RegistryStep ==
  ASSUME ContextIInv, ContextNext
  PROVE  Next \/ UNCHANGED vars \/ CloseStep
<1>1. ASSUME NEW b \in Bindings, NEW p \in Plugins, NEW g \in Generations, Bind(b, p, g)
      PROVE  Next \/ UNCHANGED vars
  BY <1>1 DEF Bind, Next, ProducerStep
<1>2. ASSUME NEW b \in Bindings, UseRegistrar(b)
      PROVE  Next
  <2>1. binding[b].plugin \in Plugins /\ binding[b].generation \in Generations
    BY <1>2, BoundAuthority DEF ContextIInv, UseRegistrar, BindingType
  <2>2. ProducerStep(binding[b].plugin, binding[b].generation)
    BY <1>2 DEF UseRegistrar, ProducerStep
  <2>3. QED
    BY <2>1, <2>2 DEF Next
<1>3. ASSUME NEW b \in Bindings, DisposeBinding(b)
      PROVE  Next \/ UNCHANGED vars
  <2>1. binding[b].plugin \in Plugins /\ binding[b].generation \in Generations
    BY <1>3, BoundAuthority DEF ContextIInv, DisposeBinding, LiveBinding, BindingType
  <2>2. \/ DisposeProducer(binding[b].plugin, binding[b].generation)
        \/ UNCHANGED vars
    BY <1>3 DEF DisposeBinding
  <2>3. QED
    BY <2>1, <2>2 DEF Next, ProducerStep
<1>4. ASSUME DisposeRoot
      PROVE  CloseStep
  <2>1. Cardinality(DroppedByBindings) \in Nat
    BY ContextAssumption, FS_Subset, FS_CardinalityType DEF DroppedByBindings
  <2>2. QED
    BY <1>4, <2>1 DEF DisposeRoot, CloseStep, ContextIInv, IInv, TypeOK
<1>5. QED
  BY <1>1, <1>2, <1>3, <1>4 DEF ContextNext, Next

\* Closing the registry through the root keeps the registry's invariant.
LEMMA CloseIInv ==
  ASSUME IInv, CloseStep
  PROVE  IInv'
<1>1. Registered' = {}
  BY DEF CloseStep, Registered
<1>2. TypeOK'
  <2>1. /\ entries' \in [Upstreams -> EntryType \cup {Absent}]
        /\ generation' \in [Plugins -> Generations \cup {NoGeneration}]
    BY DEF CloseStep
  <2>2. /\ revision' \in Nat /\ seen' \in Nat
        /\ disposed' \in BOOLEAN /\ subscribed' \in BOOLEAN
    BY DEF CloseStep
  <2>3. QED
    BY <1>1, <2>1, <2>2 DEF TypeOK
<1>3. WithinCapacity'
  BY <1>1, FS_EmptySet DEF WithinCapacity
<1>4. QED
  BY <1>1, <1>2, <1>3 DEF CloseStep, IInv, StoredValid, NoConflicts, EntriesFenced,
                          ListenerIsCurrent

\* Whatever the context does, the registry's invariant is kept.
LEMMA ContextStepIInv ==
  ASSUME ContextIInv, [ContextNext]_contextVars
  PROVE  IInv'
<1>1. CASE ContextNext
  BY <1>1, RegistryStep, NextIInv, CloseIInv DEF ContextIInv
<1>2. CASE UNCHANGED contextVars
  <2>1. UNCHANGED vars
    BY <1>2 DEF contextVars, vars
  <2>2. QED
    BY <2>1, NextIInv DEF ContextIInv
<1>3. QED
  BY <1>1, <1>2

-----------------------------------------------------------------------------
(* The bindings behind the live generations                                *)

\* A generation stays bound while its binding stays as it is.
LEMMA StillBound ==
  ASSUME ContextIInv, ~disposed,
         \A b \in Bindings : LiveBinding(b) => binding'[b] = binding[b],
         NEW p \in Plugins, generation'[p] = generation[p]
  PROVE  generation'[p] # NoGeneration =>
           \E b \in Bindings :
             /\ LiveBinding(b)'
             /\ binding'[b].plugin = p
             /\ binding'[b].generation = generation'[p]
  BY DEF ContextIInv, GenerationsBound, LiveBinding, Created

\* What a producer's call does to the live generations: it may end its own.
LEMMA CallGenerations ==
  ASSUME TypeOK, NEW p \in Plugins, NEW g \in Generations,
         \/ \E d \in Descriptors, s \in Sources : Register(p, g, d, s)
         \/ \E u \in Upstreams : \E expected \in {d.revision : d \in Descriptors} :
              Revoke(p, g, u, expected)
         \/ DisposeProducer(p, g)
  PROVE  /\ \A q \in Plugins : generation'[q] \in {generation[q], NoGeneration}
         /\ \A q \in Plugins \ {p} : generation'[q] = generation[q]
  BY DEF TypeOK, Register, Revoke, DisposeProducer

\* bind() supersedes the plugin's other bindings in the step that creates its own.
LEMMA BindKeeps ==
  ASSUME ContextIInv, NEW b \in Bindings, NEW p \in Plugins, NEW g \in Generations,
         Bind(b, p, g)
  PROVE  BindingTypeOK' /\ GenerationsBound'
<1> DEFINE new == [plugin |-> p, generation |-> g, live |-> TRUE]
<1>1. new \in BindingType /\ new # Unbound
  <2>1. new \in BindingType
    BY DEF BindingType
  <2>2. QED
    BY <2>1, ContextAssumption
<1>2. /\ binding' = [binding EXCEPT ![b] = new]
      /\ ~Created(b) /\ ~disposed
      /\ generation'[p] = g
      /\ \A q \in Plugins \ {p} : generation'[q] = generation[q]
  <2>1. generation \in [Plugins -> Generations \cup {NoGeneration}]
    BY DEF ContextIInv, IInv, TypeOK
  <2>2. \/ generation' = [generation EXCEPT ![p] = g]
        \/ generation[p] = g /\ generation' = generation
    BY DEF Bind, ActivateProducer, vars
  <2>3. QED
    BY <2>1, <2>2 DEF Bind
<1>3. BindingTypeOK'
  BY <1>1, <1>2 DEF ContextIInv, BindingTypeOK
<1>4. /\ binding'[b] = new
      /\ \A c \in Bindings : LiveBinding(c) => binding'[c] = binding[c]
  BY <1>2 DEF ContextIInv, BindingTypeOK, LiveBinding, Created
<1>5. LiveBinding(b)'
  BY <1>1, <1>4 DEF LiveBinding, Created
<1>6. GenerationsBound'
  <2> SUFFICES ASSUME NEW q \in Plugins, ~disposed', generation'[q] # NoGeneration
               PROVE  \E c \in Bindings :
                        /\ LiveBinding(c)'
                        /\ binding'[c].plugin = q
                        /\ binding'[c].generation = generation'[q]
    BY DEF GenerationsBound
  <2>1. CASE q = p
    BY <1>2, <1>4, <1>5, <2>1
  <2>2. CASE q # p
    BY <1>2, <1>4, <2>2, StillBound
  <2>3. QED
    BY <2>1, <2>2
<1>7. QED
  BY <1>3, <1>6

\* A call made through a binding activates no other producer's generation.
LEMMA UseKeeps ==
  ASSUME ContextIInv, NEW b \in Bindings, UseRegistrar(b)
  PROVE  BindingTypeOK' /\ GenerationsBound'
<1>1. binding[b].plugin \in Plugins /\ binding[b].generation \in Generations
  BY BoundAuthority DEF ContextIInv, UseRegistrar, BindingType
<1>2. \A q \in Plugins : generation'[q] \in {generation[q], NoGeneration}
  BY <1>1, CallGenerations DEF ContextIInv, IInv, UseRegistrar
<1>3. binding' = binding /\ ~disposed
  BY DEF UseRegistrar, Register, Revoke, MayRevoke, DisposeProducer, Live
<1>4. GenerationsBound'
  <2> SUFFICES ASSUME NEW q \in Plugins, ~disposed', generation'[q] # NoGeneration
               PROVE  \E c \in Bindings :
                        /\ LiveBinding(c)'
                        /\ binding'[c].plugin = q
                        /\ binding'[c].generation = generation'[q]
    BY DEF GenerationsBound
  <2>1. generation'[q] = generation[q]
    BY <1>2
  <2>2. QED
    BY <1>3, <2>1, StillBound
<1>5. QED
  BY <1>3, <1>4 DEF ContextIInv, BindingTypeOK

\* A binding takes its generation with it, or no longer stands behind any.
LEMMA DisposeKeeps ==
  ASSUME ContextIInv, NEW b \in Bindings, DisposeBinding(b)
  PROVE  BindingTypeOK' /\ GenerationsBound'
<1> DEFINE p == binding[b].plugin
           g == binding[b].generation
<1>1. binding[b] \in BindingType
  BY BoundAuthority DEF ContextIInv, DisposeBinding, LiveBinding
<1>2. p \in Plugins /\ g \in Generations
  BY <1>1 DEF BindingType
<1>3. binding' = [binding EXCEPT ![b].live = FALSE]
  BY DEF DisposeBinding
<1>4. BindingTypeOK'
  BY <1>1, <1>3 DEF ContextIInv, BindingTypeOK, BindingType
<1>5. \A c \in Bindings \ {b} : binding'[c] = binding[c]
  BY <1>3 DEF ContextIInv, BindingTypeOK
<1>6. /\ \A q \in Plugins : generation'[q] \in {generation[q], NoGeneration}
      /\ ~disposed' => ~disposed /\ generation'[p] # g
  <2>1. CASE DisposeProducer(p, g)
    <3>1. generation'[p] = NoGeneration /\ ~disposed
      BY <1>2, <2>1 DEF DisposeProducer, Live, ContextIInv, IInv, TypeOK
    <3>2. QED
      BY <1>2, <2>1, <3>1, CallGenerations DEF ContextIInv, IInv
  <2>2. CASE ~Live(p, g) /\ UNCHANGED vars
    BY <1>2, <2>2 DEF vars, Live
  <2>3. QED
    BY <2>1, <2>2 DEF DisposeBinding
<1>7. GenerationsBound'
  <2> SUFFICES ASSUME NEW q \in Plugins, ~disposed', generation'[q] # NoGeneration
               PROVE  \E c \in Bindings :
                        /\ LiveBinding(c)'
                        /\ binding'[c].plugin = q
                        /\ binding'[c].generation = generation'[q]
    BY DEF GenerationsBound
  <2>1. generation'[q] = generation[q]
    BY <1>6
  <2>2. PICK c \in Bindings : /\ LiveBinding(c)
                              /\ binding[c].plugin = q
                              /\ binding[c].generation = generation[q]
    BY <1>6, <2>1 DEF ContextIInv, GenerationsBound
  <2>3. c # b
    BY <1>6, <2>1, <2>2
  <2>4. QED
    BY <1>5, <2>1, <2>2, <2>3 DEF LiveBinding, Created
<1>8. QED
  BY <1>4, <1>7

\* Disposing the root ends every binding.
LEMMA RootKeeps ==
  ASSUME ContextIInv, DisposeRoot
  PROVE  BindingTypeOK' /\ GenerationsBound'
<1>1. \A b \in Bindings : Created(b) =>
        [binding[b] EXCEPT !.live = FALSE] \in BindingType
  BY BoundAuthority DEF ContextIInv, BindingType
<1>2. BindingTypeOK'
  BY <1>1 DEF DisposeRoot, BindingTypeOK
<1>3. GenerationsBound'
  BY DEF DisposeRoot, GenerationsBound
<1>4. QED
  BY <1>2, <1>3

\* Every step of the context keeps the invariant.
LEMMA ContextStepKeeps ==
  ASSUME ContextIInv, [ContextNext]_contextVars
  PROVE  ContextIInv'
<1>1. BindingTypeOK' /\ GenerationsBound'
  <2>1. CASE \E b \in Bindings, p \in Plugins, g \in Generations : Bind(b, p, g)
    BY <2>1, BindKeeps
  <2>2. CASE \E b \in Bindings : UseRegistrar(b)
    BY <2>2, UseKeeps
  <2>3. CASE \E b \in Bindings : DisposeBinding(b)
    BY <2>3, DisposeKeeps
  <2>4. CASE DisposeRoot
    BY <2>4, RootKeeps
  <2>5. CASE UNCHANGED <<binding, generation, disposed>>
    BY <2>5 DEF ContextIInv, BindingTypeOK, GenerationsBound, LiveBinding, Created
  <2>6. QED
    BY <2>1, <2>2, <2>3, <2>4, <2>5
       DEF ContextNext, Subscribe, Unsubscribe, contextVars
<1>2. QED
  BY <1>1, ContextStepIInv DEF ContextIInv

-----------------------------------------------------------------------------
(* The theorems                                                            *)

\* The invariant of the registry and of the bindings behind it holds throughout.
THEOREM ContextInductive == ContextSpec => []ContextIInv
<1>1. ContextInit => ContextIInv
  <2>1. ASSUME ContextInit
        PROVE  IInv
    BY <2>1, InitIInv DEF ContextInit
  <2>2. ASSUME ContextInit
        PROVE  BindingTypeOK /\ GenerationsBound
    BY <2>2 DEF ContextInit, Init, BindingTypeOK, GenerationsBound
  <2>3. QED
    BY <2>1, <2>2 DEF ContextIInv
<1>2. QED
  BY <1>1, ContextStepKeeps, PTL DEF ContextSpec

\* What the registry promises by itself it keeps promising under a context: no conflicts,
\* fenced entries, harmless retries, and listeners that are never behind.
THEOREM ContextSafety ==
  ContextSpec => [](NoConflicts /\ EntriesFenced /\ RetryIsUnchanged /\ ListenerIsCurrent)
<1>1. ASSUME ContextIInv
      PROVE  NoConflicts /\ EntriesFenced /\ ListenerIsCurrent
  BY <1>1 DEF ContextIInv, IInv
<1>2. ASSUME ContextIInv
      PROVE  RetryIsUnchanged
  BY <1>2 DEF ContextIInv, IInv, TypeOK, StoredValid, EntriesFenced, RetryIsUnchanged,
              RegisterUnchanged, OwnedBy, Registered
<1>3. QED
  BY <1>1, <1>2, ContextInductive, PTL

\* No entry outlives the bindings that could revoke it, however many bindings of
\* however many plugins come and go, in whatever order.
THEOREM EntriesAreBound == ContextSpec => []NoEntryWithoutBinding
<1>1. ASSUME ContextIInv
      PROVE  NoEntryWithoutBinding
  <2> SUFFICES ASSUME NEW u \in Registered
               PROVE  \E b \in Bindings :
                        LiveBinding(b) /\ OwnedBy(u, binding[b].plugin, binding[b].generation)
    BY DEF NoEntryWithoutBinding
  <2>1. entries[u].plugin \in Plugins /\ entries[u].generation \in Generations
    BY <1>1 DEF ContextIInv, IInv, TypeOK, Registered, EntryType
  <2>2. /\ ~disposed
        /\ generation[entries[u].plugin] = entries[u].generation
    BY <1>1 DEF ContextIInv, IInv, EntriesFenced, Live
  <2>3. PICK b \in Bindings :
          /\ LiveBinding(b)
          /\ binding[b].plugin = entries[u].plugin
          /\ binding[b].generation = entries[u].generation
    BY <1>1, <2>1, <2>2 DEF ContextIInv, GenerationsBound
  <2>4. QED
    BY <2>3 DEF OwnedBy
<1>2. QED
  BY <1>1, ContextInductive, PTL

\* Under a context the registry is still a versioned store: the root's disposal of
\* its bindings and then of the registry is one closing of the store to its readers.
THEOREM ContextImplementsStore == ContextSpec => ContextKeepsStore
<1>1. ContextInit => Store!Init
  BY DEF ContextInit, Init, Store!Init
<1>2. ASSUME ContextIInv, [ContextNext]_contextVars
      PROVE  [Store!Next]_(Store!vars)
  <2>1. CASE CloseStep
    BY <1>2, <2>1 DEF CloseStep, Store!Next, Store!Close
  <2>2. CASE Next \/ UNCHANGED vars
    BY <1>2, <2>2, StepOfStore DEF ContextIInv
  <2>3. CASE UNCHANGED contextVars
    BY <2>3 DEF contextVars, Store!vars
  <2>4. QED
    BY <1>2, <2>1, <2>2, <2>3, RegistryStep
<1>3. QED
  BY <1>1, <1>2, ContextInductive, PTL DEF ContextSpec, ContextKeepsStore, Store!Spec

\* Disposing a binding drops only what its own producer generation registered.
THEOREM DisposalLocality == ContextSpec => DisposalIsLocal
<1>1. ASSUME NEW b \in Bindings, DisposeBinding(b), NEW u \in Registered,
             ~OwnedBy(u, binding[b].plugin, binding[b].generation)
      PROVE  entries'[u] = entries[u]
  <2>1. u \in Upstreams
    BY DEF Registered
  <2>2. CASE DisposeProducer(binding[b].plugin, binding[b].generation)
    BY <1>1, <2>1, <2>2 DEF DisposeProducer, RemoveEntries
  <2>3. CASE UNCHANGED vars
    BY <2>3 DEF vars
  <2>4. QED
    BY <1>1, <2>2, <2>3 DEF DisposeBinding
<1>2. [ContextNext]_contextVars =>
        [\A b \in Bindings :
           DisposeBinding(b) =>
             \A u \in Registered :
               ~OwnedBy(u, binding[b].plugin, binding[b].generation)
                 => entries'[u] = entries[u]]_contextVars
  BY <1>1
<1>3. QED
  BY <1>2, PTL DEF ContextSpec, DisposalIsLocal

-----------------------------------------------------------------------------
(* Sorting and folding                                                     *)

\* Induction over a set of naturals.
LEMMA SetInduction ==
  ASSUME NEW T \in SUBSET Nat, 0 \in T, \A n \in T : n + 1 \in T
  PROVE  T = Nat
<1> SUFFICES ASSUME Nat \ T # {} PROVE FALSE
  OBVIOUS
<1> DEFINE less == {p \in Nat \X Nat : p[1] < p[2]}
<1>1. less = OpToRel(<, Nat)
  BY DEF OpToRel
<1>2. IsWellFoundedOn(less, Nat)
  BY <1>1, NatLessThanWellFounded, Zenon
<1> HIDE DEF less
<1>3. PICK x \in Nat \ T : \A y \in Nat \ T : <<y, x>> \notin less
  BY <1>2, WFMin
<1>4. x # 0 /\ x - 1 \in Nat /\ (x - 1) + 1 = x /\ x - 1 < x
  BY <1>3
<1>5. x - 1 \notin T
  BY <1>3, <1>4
<1>6. <<x - 1, x>> \in less
  BY <1>4 DEF less
<1> QED BY <1>3, <1>4, <1>5, <1>6

\* What is finite can be sorted: each element's place is counted by those before it.
LEMMA SortedExists ==
  ASSUME NEW S, IsFiniteSet(S), NEW R, Orders(S, R)
  PROVE  \E s \in [1 .. Cardinality(S) -> S] : InOrder(s, R)
<1> DEFINE below(x) == {y \in S : <<y, x>> \in R}
           r == [x \in S |-> Cardinality(below(x)) + 1]
<1>1. PICK n \in Nat : n = Cardinality(S)
  BY FS_CardinalityType
<1>2. ASSUME NEW x \in S
      PROVE  /\ IsFiniteSet(below(x)) /\ Cardinality(below(x)) \in Nat
             /\ r[x] = Cardinality(below(x)) + 1 /\ r[x] \in 1 .. n
  <2>1. IsFiniteSet(S \ {x}) /\ Cardinality(S \ {x}) = n - 1
    BY <1>1, FS_RemoveElement
  <2>2. below(x) \in SUBSET (S \ {x})
    BY DEF Orders
  <2>3. /\ IsFiniteSet(below(x)) /\ Cardinality(below(x)) \in Nat
        /\ Cardinality(below(x)) <= n - 1
    <3> HIDE DEF below
    <3>1. IsFiniteSet(below(x)) /\ Cardinality(below(x)) <= Cardinality(S \ {x})
      BY <2>1, <2>2, FS_Subset, Zenon
    <3> QED BY <2>1, <3>1, FS_CardinalityType
  <2>4. r[x] = Cardinality(below(x)) + 1
    OBVIOUS
  <2> HIDE DEF below, r
  <2> QED BY <1>1, <2>3, <2>4
<1>3. ASSUME NEW x \in S, NEW y \in S, <<x, y>> \in R
      PROVE  r[x] < r[y]
  <2>1. below(x) \cup {x} \in SUBSET below(y) /\ x \notin below(x)
    BY <1>3 DEF Orders
  <2>2. IsFiniteSet(below(x) \cup {x})
        /\ Cardinality(below(x) \cup {x}) = Cardinality(below(x)) + 1
    BY <1>2, <2>1, FS_AddElement
  <2> HIDE DEF below, r
  <2>3. /\ Cardinality(below(x)) \in Nat /\ Cardinality(below(y)) \in Nat
        /\ IsFiniteSet(below(y))
        /\ r[x] = Cardinality(below(x)) + 1 /\ r[y] = Cardinality(below(y)) + 1
    BY <1>2
  <2>4. Cardinality(below(x) \cup {x}) <= Cardinality(below(y))
    BY <2>1, <2>3, FS_Subset
  <2> QED BY <2>2, <2>3, <2>4
<1> HIDE DEF r
<1>4. r \in Injection(S, 1 .. n)
  <2>1. r \in [S -> 1 .. n]
    BY <1>2 DEF r
  <2>2. ASSUME NEW x \in S, NEW y \in S, r[x] = r[y]
        PROVE  x = y
    <3>1. r[x] \in Nat /\ r[y] \in Nat
      BY <2>1
    <3>2. <<x, y>> \notin R /\ <<y, x>> \notin R
      BY <1>3, <2>2, <3>1
    <3> QED BY <3>2 DEF Orders
  <2> QED BY <2>1, <2>2 DEF Injection, IsInjective
<1>5. r \in Surjection(S, 1 .. n)
  BY <1>1, <1>4, FS_Injection, FS_Interval
<1> DEFINE s == [i \in 1 .. n |-> CHOOSE x \in S : r[x] = i]
<1>6. s \in [1 .. n -> S] /\ \A i \in 1 .. n : r[s[i]] = i
  BY <1>5 DEF Surjection
<1> HIDE DEF s
<1>7. ASSUME NEW i \in 1 .. n, NEW j \in 1 .. n, i < j
      PROVE  <<s[i], s[j]>> \in R
  <2>1. s[i] \in S /\ s[j] \in S /\ r[s[i]] = i /\ r[s[j]] = j
    BY <1>6
  <2>2. <<s[j], s[i]>> \notin R
    BY <1>3, <1>7, <2>1
  <2>3. s[i] # s[j]
    BY <1>7, <2>1
  <2> QED BY <2>1, <2>2, <2>3 DEF Orders
<1> QED BY <1>1, <1>6, <1>7 DEF InOrder

\* What is sorted lists every element, and none twice.
LEMMA SortedEnumerates ==
  ASSUME NEW S, IsFiniteSet(S), NEW R, Orders(S, R),
         NEW s \in [1 .. Cardinality(S) -> S], InOrder(s, R)
  PROVE  /\ \A i, j \in 1 .. Cardinality(S) : s[i] = s[j] => i = j
         /\ \A x \in S : \E i \in 1 .. Cardinality(S) : s[i] = x
<1>1. PICK n \in Nat : n = Cardinality(S)
  BY FS_CardinalityType
<1>2. \A i, j \in 1 .. n : s[i] = s[j] => i = j
  <2>1. SUFFICES ASSUME NEW i \in 1 .. n, NEW j \in 1 .. n, s[i] = s[j], i < j PROVE FALSE
    OBVIOUS
  <2>2. <<s[i], s[j]>> \in R
    BY <1>1, <2>1 DEF InOrder
  <2> QED BY <1>1, <2>1, <2>2 DEF Orders
<1>3. s \in Injection(1 .. n, S)
  BY <1>1, <1>2 DEF Injection, IsInjective
<1>4. s \in Surjection(1 .. n, S)
  BY <1>1, <1>3, FS_Injection, FS_Interval
<1> QED BY <1>1, <1>2, <1>4 DEF Surjection

\* The largest of a set of positions that holds the last one.
LEMMA LastIsMax ==
  ASSUME NEW n \in Nat, NEW s \in SUBSET (1 .. n), n \in s
  PROVE  Max(s) = n
<1>1. n \in s /\ \A y \in s : n >= y
  OBVIOUS
<1>2. \A x \in s : (\A y \in s : x >= y) => x = n
  <2> SUFFICES ASSUME NEW x \in s, \A y \in s : x >= y PROVE x = n
    OBVIOUS
  <2>1. x \in 1 .. n /\ x >= n
    OBVIOUS
  <2> QED BY <2>1
<1> QED BY <1>1, <1>2, Zenon DEF Max

\* The positions up to k are k and those before it.
LEMMA Prefix ==
  ASSUME NEW n \in Nat, NEW k \in 1 .. n
  PROVE  /\ k \in Nat /\ k \in 1 .. k /\ k \in 0 .. n /\ k - 1 \in 0 .. n
         /\ 1 .. k \in SUBSET (1 .. n) /\ (1 .. k) \ {k} = 1 .. (k - 1)
<1>1. k \in Nat /\ k \in 1 .. k /\ k \in 0 .. n /\ k - 1 \in 0 .. n
  OBVIOUS
<1>2. 1 .. k \in SUBSET (1 .. n)
  OBVIOUS
<1>3. (1 .. k) \ {k} = 1 .. (k - 1)
  BY SMTT(20)
<1> QED BY <1>1, <1>2, <1>3

\* A set of positions that is not empty has a largest.
LEMMA MaxIsIn ==
  ASSUME NEW n \in Nat, NEW s \in SUBSET (1 .. n), s # {}
  PROVE  Max(s) \in s /\ \A y \in s : Max(s) >= y
<1> DEFINE Has(m) == \A u \in SUBSET (1 .. m) : u # {} => \E x \in u : \A y \in u : x >= y
           T == {m \in Nat : Has(m)}
<1>1. 0 \in T
  <2>1. 1 .. 0 = {}
    OBVIOUS
  <2> QED BY <2>1
<1>2. ASSUME NEW m \in Nat, Has(m)
      PROVE  Has(m + 1)
  <2> SUFFICES ASSUME NEW u \in SUBSET (1 .. m + 1), u # {}
               PROVE  \E x \in u : \A y \in u : x >= y
    OBVIOUS
  <2>1. CASE m + 1 \in u
    <3>1. \A y \in u : m + 1 >= y
      OBVIOUS
    <3> QED BY <2>1, <3>1
  <2>2. CASE m + 1 \notin u
    <3>1. u \in SUBSET (1 .. m)
      BY <2>2, SMTT(20)
    <3> QED BY <1>2, <3>1
  <2> QED BY <2>1, <2>2
<1> HIDE DEF Has
<1>3. T = Nat
  <2>1. \A m \in T : m + 1 \in T
    BY <1>2
  <2> HIDE DEF T
  <2>2. T \in SUBSET Nat
    BY DEF T
  <2> QED BY <1>1, <2>1, <2>2, SetInduction
<1>4. Has(n)
  BY <1>3
<1> QED BY <1>4, Zenon DEF Has, Max

\* h folds the turns of F over the positions up to n, taking the largest last.
FoldsUpTo(h, n, base, F) ==
  \A s \in SUBSET (1 .. n) :
    h[s] = IF s = {} THEN base ELSE F[<<h[s \ {Max(s)}], Max(s)>>]

\* A fold by a function of turns exists, however many positions there are.
LEMMA FoldExists ==
  ASSUME NEW N \in Nat, NEW A, NEW base \in A, NEW F \in [A \X (1 .. N) -> A]
  PROVE  \E h \in [SUBSET (1 .. N) -> A] : FoldsUpTo(h, N, base, F)
<1> DEFINE Has(n) == \E h \in [SUBSET (1 .. n) -> A] : FoldsUpTo(h, n, base, F)
           T == {n \in Nat : n <= N => Has(n)}
<1>1. 0 \in T
  <2> DEFINE h == [s \in SUBSET (1 .. 0) |-> base]
  <2>1. 1 .. 0 = {}
    OBVIOUS
  <2>2. h \in [SUBSET (1 .. 0) -> A] /\ \A s \in SUBSET (1 .. 0) : s = {} /\ h[s] = base
    BY <2>1
  <2> HIDE DEF h
  <2>3. FoldsUpTo(h, 0, base, F)
    BY <2>2, Zenon DEF FoldsUpTo
  <2> QED BY <2>2, <2>3
<1>2. ASSUME NEW n \in Nat, n + 1 <= N, Has(n)
      PROVE  Has(n + 1)
  <2>1. PICK g \in [SUBSET (1 .. n) -> A] : FoldsUpTo(g, n, base, F)
    BY <1>2
  <2> DEFINE h == [s \in SUBSET (1 .. n + 1) |->
                     IF n + 1 \in s THEN F[<<g[s \ {n + 1}], n + 1>>] ELSE g[s]]
  <2>2. \A s \in SUBSET (1 .. n + 1) : s \ {n + 1} \in SUBSET (1 .. n)
    BY SMTT(20)
  <2>3. n + 1 \in 1 .. N
    BY <1>2
  <2>4. h \in [SUBSET (1 .. n + 1) -> A]
    <3> SUFFICES ASSUME NEW s \in SUBSET (1 .. n + 1) PROVE h[s] \in A
      OBVIOUS
    <3>1. g[s \ {n + 1}] \in A
      BY <2>2
    <3>2. F[<<g[s \ {n + 1}], n + 1>>] \in A
      BY <2>3, <3>1
    <3>3. n + 1 \notin s => g[s] \in A
      BY <2>2
    <3> QED BY <3>2, <3>3
  <2>5. ASSUME NEW s \in SUBSET (1 .. n + 1)
        PROVE  h[s] = IF s = {} THEN base ELSE F[<<h[s \ {Max(s)}], Max(s)>>]
    <3>1. CASE n + 1 \in s
      <4>1. Max(s) = n + 1
        BY <3>1, LastIsMax
      <4>2. h[s \ {n + 1}] = g[s \ {n + 1}]
        BY <2>2
      <4> QED BY <3>1, <4>1, <4>2
    <3>2. CASE n + 1 \notin s
      <4>1. s \in SUBSET (1 .. n) /\ s \ {Max(s)} \in SUBSET (1 .. n)
            /\ n + 1 \notin s \ {Max(s)} /\ s \ {Max(s)} \in SUBSET (1 .. n + 1)
        BY <2>2, <3>2
      <4>2. h[s] = g[s] /\ h[s \ {Max(s)}] = g[s \ {Max(s)}]
        BY <3>2, <4>1
      <4> QED BY <2>1, <4>1, <4>2 DEF FoldsUpTo
    <3> QED BY <3>1, <3>2
  <2> HIDE DEF h
  <2> QED BY <2>4, <2>5, Zenon DEF FoldsUpTo
<1> HIDE DEF Has
<1>3. T = Nat
  <2>1. \A n \in T : n + 1 \in T
    BY <1>2
  <2> HIDE DEF T
  <2>2. T \in SUBSET Nat
    BY DEF T
  <2> QED BY <1>1, <2>1, <2>2, SetInduction
<1>4. Has(N)
  BY <1>3
<1> QED BY <1>4 DEF Has
-----------------------------------------------------------------------------
(* The enabled entries, sorted                                             *)

N == Cardinality(Active)

ActiveOrder == {p \in Active \X Active : ActiveBefore(p[1], p[2])}

\* What the comparisons read of an enabled entry.
LEMMA Keys ==
  ASSUME TypeOK, NEW u \in Active
  PROVE  /\ Desc(u).groupMeta \in Int /\ Desc(u).order \in Int
         /\ Desc(u).group \in Groups /\ Rank[Desc(u).group] \in Nat /\ Rank[u] \in Nat
<1>1. entries[u] \in EntryType /\ u \in Upstreams
  BY DEF TypeOK, Active, Registered
<1>2. Desc(u) \in DescriptorType
  BY <1>1 DEF Desc, EntryType
<1> QED BY <1>1, <1>2, RankAssumption DEF DescriptorType

\* An order, then the alphabet: neither of two before the other means both are the same.
LEMMA OrderThenIdOrders ==
  ASSUME NEW o1 \in Int, NEW o2 \in Int, NEW o3 \in Int, NEW i1, NEW i2, NEW i3,
         Rank[i1] \in Nat, Rank[i2] \in Nat, Rank[i3] \in Nat
  PROVE  /\ OrderThenId(o1, i1, o2, i2) => ~OrderThenId(o2, i2, o1, i1)
         /\ ~OrderThenId(o1, i1, o2, i2) /\ ~OrderThenId(o2, i2, o1, i1)
              => o1 = o2 /\ Rank[i1] = Rank[i2]
         /\ OrderThenId(o1, i1, o2, i2) /\ OrderThenId(o2, i2, o3, i3)
              => OrderThenId(o1, i1, o3, i3)
         /\ OrderThenId(o1, i1, o2, i2) /\ o2 = o3 /\ Rank[i2] = Rank[i3]
              => OrderThenId(o1, i1, o3, i3)
         /\ o1 = o2 /\ Rank[i1] = Rank[i2] /\ OrderThenId(o2, i2, o3, i3)
              => OrderThenId(o1, i1, o3, i3)
  BY DEF OrderThenId

\* The comparison activeEntries sorts by (group, then the entry's own order and id) is a
\* strict and total order of the enabled entries.
LEMMA ActiveOrdered ==
  ASSUME TypeOK
  PROVE  Orders(Active, ActiveOrder)
<1> USE DEF ActiveOrder
<1>1. ASSUME NEW x \in Active, NEW y \in Active, x # y
      PROVE  ActiveBefore(x, y) \/ ActiveBefore(y, x)
  <2>1. Rank[x] # Rank[y]
    BY <1>1, RankAssumption DEF Active, Registered
  <2>2. ProviderBefore(x, y) \/ ProviderBefore(y, x)
    BY <2>1, Keys DEF ProviderBefore, OrderThenId
  <2> QED BY <2>2 DEF ActiveBefore
<1>2. ASSUME NEW x \in Active, NEW y \in Active, ActiveBefore(x, y)
      PROVE  ~ActiveBefore(y, x)
  <2>1. /\ GroupBefore(x, y) => ~GroupBefore(y, x)
        /\ ProviderBefore(x, y) => ~ProviderBefore(y, x)
    BY Keys, OrderThenIdOrders DEF GroupBefore, ProviderBefore
  <2> QED BY <1>2, <2>1 DEF ActiveBefore
<1>3. ASSUME NEW x \in Active, NEW y \in Active, NEW z \in Active,
             ActiveBefore(x, y), ActiveBefore(y, z)
      PROVE  ActiveBefore(x, z)
  BY <1>3, Keys DEF ActiveBefore, GroupBefore, ProviderBefore, OrderThenId
<1> QED BY <1>1, <1>2, <1>3 DEF Orders

\* There are finitely many of them.
LEMMA ActiveFinite == ASSUME TypeOK PROVE IsFiniteSet(Active) /\ N \in Nat
  BY FS_Subset, FS_CardinalityType DEF Active, Registered, N

\* activeEntries() lists the enabled entries, each once, in their order.
LEMMA ActiveListed ==
  ASSUME TypeOK
  PROVE  /\ ActiveEntries \in [1 .. N -> Active]
         /\ \A i, j \in 1 .. N : i < j => ActiveBefore(ActiveEntries[i], ActiveEntries[j])
         /\ \A i, j \in 1 .. N : ActiveEntries[i] = ActiveEntries[j] => i = j
         /\ \A u \in Active : \E i \in 1 .. N : ActiveEntries[i] = u
<1> DEFINE Sorts(s) == \A i, j \in DOMAIN s : i < j => ActiveBefore(s[i], s[j])
<1>1. ActiveEntries = CHOOSE s \in [1 .. N -> Active] : Sorts(s)
  BY DEF ActiveEntries, Sorted, N
<1>2. ASSUME NEW s \in [1 .. N -> Active]
      PROVE  Sorts(s) <=> InOrder(s, ActiveOrder)
  BY DEF InOrder, ActiveOrder
<1>3. \E s \in [1 .. N -> Active] : InOrder(s, ActiveOrder)
  BY ActiveFinite, ActiveOrdered, SortedExists DEF N
<1> HIDE DEF Sorts
<1>4. ActiveEntries \in [1 .. N -> Active] /\ Sorts(ActiveEntries)
  BY <1>1, <1>2, <1>3, Zenon
<1>5. InOrder(ActiveEntries, ActiveOrder)
  BY <1>2, <1>4
<1> QED BY <1>4, <1>5, ActiveFinite, ActiveOrdered, SortedEnumerates DEF N, Sorts

-----------------------------------------------------------------------------
(* The gateway plan                                                        *)

\* The slots and the compositions of the enabled entries.
SlotType == {Slot(u) : u \in Active}

CompositionType ==
  [upstream : Active, source : Sources, collection : {"responses", "chat-completions"},
   index : Nat]

PlanType ==
  [responses : Seq(SlotType), chat : Seq(SlotType), composition : Seq(CompositionType)]

Collection(plan, c) == IF c.collection = "responses" THEN plan.responses ELSE plan.chat

\* The pointers c of a composition address the slot of its own upstream.
Resolves(plan, c) ==
  /\ c.index < Len(Collection(plan, c))
  /\ Addressed(plan, c).name = c.upstream
  /\ c.source = entries[c.upstream].source

\* Every turn of the loop leaves the plan so: no two compositions address one slot either.
Pointed(plan) ==
  /\ plan \in PlanType
  /\ Len(plan.composition) = Len(plan.responses) + Len(plan.chat)
  /\ \A i \in DOMAIN plan.composition : Resolves(plan, plan.composition[i])
  /\ \A i, j \in DOMAIN plan.composition :
       LET c == plan.composition[i]
           d == plan.composition[j]
       IN  c.collection = d.collection /\ c.index = d.index => i = j

\* A sum grows by one with either of its terms.
LEMMA EitherTerm ==
  \A l, m \in Nat : /\ (l + m) + 1 = (l + 1) + m
                     /\ (l + m) + 1 = l + (m + 1)
OBVIOUS

\* The loop begins with no pointers.
LEMMA EmptyPointed == Pointed(EmptyPlan)
BY DEF Pointed, PlanType, EmptyPlan

\* What a turn appends to its two sequences.
LEMMA Appended ==
  ASSUME TypeOK, NEW plan \in PlanType, NEW u \in Active
  PROVE  LET c == [upstream |-> u, source |-> entries[u].source,
                   collection |-> Desc(u).wireApi,
                   index |-> IF Desc(u).wireApi = "responses" THEN Len(plan.responses)
                                                              ELSE Len(plan.chat)]
             after == ComposeEntry(plan, u)
         IN  /\ after.composition = Append(plan.composition, c)
             /\ after.responses = IF Desc(u).wireApi = "responses"
                                    THEN Append(plan.responses, Slot(u)) ELSE plan.responses
             /\ after.chat = IF Desc(u).wireApi = "responses"
                               THEN plan.chat ELSE Append(plan.chat, Slot(u))
             /\ c \in CompositionType
             /\ after \in PlanType
<1> DEFINE responses == Desc(u).wireApi = "responses"
           c == [upstream |-> u, source |-> entries[u].source,
                 collection |-> Desc(u).wireApi,
                 index |-> IF responses THEN Len(plan.responses) ELSE Len(plan.chat)]
           after == ComposeEntry(plan, u)
<1>1. entries[u] \in EntryType /\ Desc(u) \in DescriptorType
  BY DEF TypeOK, Active, Registered, Desc, EntryType
<1>2. plan.responses \in Seq(SlotType) /\ plan.chat \in Seq(SlotType)
  BY DEF PlanType
<1>3. c \in CompositionType
  BY <1>1, <1>2 DEF EntryType, DescriptorType, CompositionType
<1>4. /\ after.composition = Append(plan.composition, c)
      /\ after.responses = IF responses THEN Append(plan.responses, Slot(u))
                                        ELSE plan.responses
      /\ after.chat = IF responses THEN plan.chat ELSE Append(plan.chat, Slot(u))
      /\ after = [responses |-> after.responses, chat |-> after.chat,
                  composition |-> after.composition]
  BY DEF ComposeEntry
<1>5. after \in PlanType
  <2>1. after.responses \in Seq(SlotType) /\ after.chat \in Seq(SlotType)
    <3>1. Slot(u) \in SlotType
      BY DEF SlotType
    <3> QED BY <1>2, <1>4, <3>1
  <2>2. after.composition \in Seq(CompositionType)
    BY <1>3, <1>4 DEF PlanType
  <2> HIDE DEF after
  <2> QED BY <1>4, <2>1, <2>2 DEF PlanType
<1> QED BY <1>3, <1>4, <1>5

\* A turn of the loop (gatewayPlan) appends one slot and a composition that addresses it,
\* and leaves every other pointer at the slot it addressed: the pointers are right after
\* each turn, whatever was enabled and in whatever order.
THEOREM PointersByTurn ==
  ASSUME TypeOK, NEW plan, Pointed(plan), NEW u \in Active
  PROVE  Pointed(ComposeEntry(plan, u))
<1> DEFINE responses == Desc(u).wireApi = "responses"
<1>1. PICK after : after = ComposeEntry(plan, u)
  OBVIOUS
<1>2. PICK c : c = [upstream |-> u, source |-> entries[u].source,
                    collection |-> Desc(u).wireApi,
                    index |-> IF responses THEN Len(plan.responses) ELSE Len(plan.chat)]
  OBVIOUS
<1>3. /\ after.composition = Append(plan.composition, c)
      /\ after.responses = IF responses THEN Append(plan.responses, Slot(u))
                                        ELSE plan.responses
      /\ after.chat = IF responses THEN plan.chat ELSE Append(plan.chat, Slot(u))
      /\ c.index \in Nat /\ c.collection \in {"responses", "chat-completions"}
      /\ after \in PlanType
  BY <1>1, <1>2, Appended DEF Pointed, CompositionType
<1>4. /\ plan.responses \in Seq(SlotType) /\ plan.chat \in Seq(SlotType)
      /\ plan.composition \in Seq(CompositionType)
  BY DEF Pointed, PlanType
<1>5. Slot(u).name = u
  BY DEF Slot
<1> HIDE DEF responses
<1>6. Len(after.composition) = Len(after.responses) + Len(after.chat)
  <2>1. /\ Len(after.composition) = Len(plan.composition) + 1
        /\ Len(plan.composition) = Len(plan.responses) + Len(plan.chat)
        /\ Len(plan.responses) \in Nat /\ Len(plan.chat) \in Nat
        /\ Len(plan.composition) \in Nat
    <3>1. Len(after.composition) = Len(plan.composition) + 1
      BY <1>3, <1>4
    <3>2. Len(plan.composition) = Len(plan.responses) + Len(plan.chat)
      BY DEF Pointed
    <3>3. /\ Len(plan.responses) \in Nat /\ Len(plan.chat) \in Nat
          /\ Len(plan.composition) \in Nat
      BY <1>4
    <3> QED BY <3>1, <3>2, <3>3
  <2>2. \/ /\ Len(after.responses) = Len(plan.responses) + 1
           /\ Len(after.chat) = Len(plan.chat)
        \/ /\ Len(after.responses) = Len(plan.responses)
           /\ Len(after.chat) = Len(plan.chat) + 1
    <3>1. CASE responses
      BY <1>3, <1>4, <3>1
    <3>2. CASE ~responses
      BY <1>3, <1>4, <3>2
    <3> QED BY <3>1, <3>2
  <2>3. Len(after.composition) = (Len(plan.responses) + Len(plan.chat)) + 1
    BY <2>1
  <2>4. /\ Len(after.composition) = (Len(plan.responses) + 1) + Len(plan.chat)
        /\ Len(after.composition) = Len(plan.responses) + (Len(plan.chat) + 1)
    BY <2>1, <2>3, EitherTerm, Zenon
  <2> QED BY <2>2, <2>4, Zenon
<1>7. ASSUME NEW i \in DOMAIN plan.composition
      PROVE  /\ Resolves(after, plan.composition[i])
             /\ plan.composition[i].collection = c.collection
                  => plan.composition[i].index < c.index
  <2>1. PICK d : d = plan.composition[i]
    OBVIOUS
  <2>2. /\ d.index \in Nat /\ d.index < Len(Collection(plan, d))
        /\ Addressed(plan, d).name = d.upstream /\ d.source = entries[d.upstream].source
        /\ d.collection \in {"responses", "chat-completions"}
    <3>1. Resolves(plan, d)
      BY <2>1 DEF Pointed
    <3>2. d \in CompositionType
      BY <1>4, <2>1
    <3> QED BY <3>1, <3>2 DEF Resolves, CompositionType
  <2>3. CASE d.collection = "responses"
    <3>1. d.index + 1 \in 1 .. Len(plan.responses)
      BY <1>4, <2>2, <2>3 DEF Collection
    <3>2. d.index < Len(after.responses)
            /\ after.responses[d.index + 1] = plan.responses[d.index + 1]
      <4>1. CASE responses
        BY <1>3, <1>4, <2>2, <3>1, <4>1
      <4>2. CASE ~responses
        BY <1>3, <1>4, <2>2, <3>1, <4>2
      <4> QED BY <4>1, <4>2
    <3> QED BY <1>2, <2>1, <2>2, <2>3, <3>1, <3>2
            DEF Resolves, Collection, Addressed, responses
  <2>4. CASE d.collection = "chat-completions"
    <3>1. d.index + 1 \in 1 .. Len(plan.chat)
      BY <1>4, <2>2, <2>4 DEF Collection
    <3>2. d.index < Len(after.chat) /\ after.chat[d.index + 1] = plan.chat[d.index + 1]
      <4>1. CASE responses
        BY <1>3, <1>4, <2>2, <3>1, <4>1
      <4>2. CASE ~responses
        BY <1>3, <1>4, <2>2, <3>1, <4>2
      <4> QED BY <4>1, <4>2
    <3> QED BY <1>2, <2>1, <2>2, <2>4, <3>1, <3>2
            DEF Resolves, Collection, Addressed, responses
  <2> QED BY <2>2, <2>3, <2>4
<1>8. Resolves(after, c)
  <2>1. CASE responses
    <3>1. /\ Len(after.responses) = Len(plan.responses) + 1
          /\ after.responses[Len(plan.responses) + 1] = Slot(u)
      BY <1>3, <1>4, <2>1
    <3> QED BY <1>2, <1>4, <1>5, <2>1, <3>1 DEF Resolves, Collection, Addressed, responses
  <2>2. CASE ~responses
    <3>1. /\ Len(after.chat) = Len(plan.chat) + 1
          /\ after.chat[Len(plan.chat) + 1] = Slot(u)
      BY <1>3, <1>4, <2>2
    <3> QED BY <1>2, <1>4, <1>5, <2>2, <3>1 DEF Resolves, Collection, Addressed, responses
  <2> QED BY <2>1, <2>2
<1>9. ASSUME NEW i \in DOMAIN after.composition
      PROVE  \/ i \in DOMAIN plan.composition /\ after.composition[i] = plan.composition[i]
             \/ i = Len(plan.composition) + 1 /\ after.composition[i] = c
  BY <1>3, <1>4
<1>10. \A i \in DOMAIN after.composition : Resolves(after, after.composition[i])
  BY <1>7, <1>8, <1>9
<1>11. ASSUME NEW i \in DOMAIN after.composition, NEW j \in DOMAIN after.composition,
              after.composition[i].collection = after.composition[j].collection,
              after.composition[i].index = after.composition[j].index
       PROVE  i = j
  <2>1. CASE i \in DOMAIN plan.composition /\ j \in DOMAIN plan.composition
    <3>1. /\ after.composition[i] = plan.composition[i]
          /\ after.composition[j] = plan.composition[j]
      BY <1>4, <1>9, <2>1
    <3> QED BY <1>11, <2>1, <3>1 DEF Pointed
  <2>2. CASE i \notin DOMAIN plan.composition \/ j \notin DOMAIN plan.composition
    <3>2. /\ i \in DOMAIN plan.composition => after.composition[i] = plan.composition[i]
          /\ j \in DOMAIN plan.composition => after.composition[j] = plan.composition[j]
      BY <1>4, <1>9
    <3>3. \A k \in DOMAIN plan.composition : plan.composition[k].index \in Nat
      <4>1. \A k \in DOMAIN plan.composition : plan.composition[k] \in CompositionType
        BY <1>4
      <4> QED BY <4>1 DEF CompositionType
    <3>4. CASE i \notin DOMAIN plan.composition /\ j \notin DOMAIN plan.composition
      BY <1>9, <3>4
    <3>5. CASE i \in DOMAIN plan.composition /\ j \notin DOMAIN plan.composition
      <4>1. after.composition[i] = plan.composition[i] /\ after.composition[j] = c
        BY <1>9, <3>2, <3>5
      <4>2. plan.composition[i].index < c.index /\ plan.composition[i].index = c.index
        BY <1>7, <1>11, <3>5, <4>1
      <4> QED BY <1>3, <3>3, <3>5, <4>2
    <3>6. CASE i \notin DOMAIN plan.composition /\ j \in DOMAIN plan.composition
      <4>1. after.composition[j] = plan.composition[j] /\ after.composition[i] = c
        BY <1>9, <3>2, <3>6
      <4>2. plan.composition[j].index < c.index /\ plan.composition[j].index = c.index
        BY <1>7, <1>11, <3>6, <4>1
      <4> QED BY <1>3, <3>3, <3>6, <4>2
    <3> QED BY <2>2, <3>4, <3>5, <3>6
  <2> QED BY <2>1, <2>2
<1> QED BY <1>1, <1>3, <1>6, <1>10, <1>11 DEF Pointed

\* The fold as the library defines it: over the sets of positions, the largest last.
Folded(h, seq) ==
  h = [s \in SUBSET (DOMAIN seq) |->
         IF s = {} THEN EmptyPlan ELSE ComposeEntry(h[s \ {Max(s)}], seq[Max(s)])]

\* gatewayPlan's loop takes the enabled entries one by one, in their order.
LEMMA PlanByTurns ==
  ASSUME TypeOK
  PROVE  \E turn : /\ turn[0] = EmptyPlan
                   /\ \A k \in 1 .. N : turn[k] = ComposeEntry(turn[k - 1], ActiveEntries[k])
                   /\ GatewayPlan = turn[N]
<1> DEFINE F == [x \in PlanType \X (1 .. N) |-> ComposeEntry(x[1], ActiveEntries[x[2]])]
<1>1. /\ N \in Nat /\ ActiveEntries \in [1 .. N -> Active] /\ EmptyPlan \in PlanType
      /\ DOMAIN ActiveEntries = 1 .. N
  BY ActiveFinite, ActiveListed, EmptyPointed DEF Pointed
<1>2. F \in [PlanType \X (1 .. N) -> PlanType]
  <2>1. \A x \in PlanType \X (1 .. N) : ComposeEntry(x[1], ActiveEntries[x[2]]) \in PlanType
    BY <1>1, Appended
  <2> QED BY <2>1
<1>3. \A x \in PlanType, k \in 1 .. N : F[<<x, k>>] = ComposeEntry(x, ActiveEntries[k])
  OBVIOUS
<1> HIDE DEF F
<1>4. PICK h \in [SUBSET (1 .. N) -> PlanType] : FoldsUpTo(h, N, EmptyPlan, F)
  BY <1>1, <1>2, FoldExists
<1>5. ASSUME NEW s \in SUBSET (1 .. N)
      PROVE  h[s] = IF s = {} THEN EmptyPlan
                              ELSE ComposeEntry(h[s \ {Max(s)}], ActiveEntries[Max(s)])
  <2>1. s # {} => Max(s) \in 1 .. N /\ s \ {Max(s)} \in SUBSET (1 .. N)
    BY <1>1, MaxIsIn
  <2>2. h[s] = IF s = {} THEN EmptyPlan ELSE F[<<h[s \ {Max(s)}], Max(s)>>]
    BY <1>4 DEF FoldsUpTo
  <2> QED BY <1>3, <1>4, <2>1, <2>2
<1>6. Folded(h, ActiveEntries)
  <2>1. h = [s \in SUBSET (1 .. N) |-> h[s]]
    BY <1>4
  <2> QED BY <1>1, <1>5, <2>1, Zenon DEF Folded
<1> DEFINE g == CHOOSE f : Folded(f, ActiveEntries)
<1>7. Folded(g, ActiveEntries)
  BY <1>6, Zenon
<1>8. GatewayPlan = g[DOMAIN ActiveEntries]
  BY Zenon DEF GatewayPlan, FoldLeft, MapThenFoldSet, Folded
<1> HIDE DEF g
<1> DEFINE turn == [k \in 0 .. N |-> g[1 .. k]]
<1>9. turn[0] = EmptyPlan
  <2>1. 1 .. 0 = {}
    OBVIOUS
  <2>2. g[{}] = EmptyPlan
    BY <1>7, Zenon DEF Folded
  <2> QED BY <1>1, <2>1, <2>2
<1>10. ASSUME NEW k \in 1 .. N
       PROVE  turn[k] = ComposeEntry(turn[k - 1], ActiveEntries[k])
  <2>1. /\ k \in Nat /\ k \in 1 .. k /\ 1 .. k # {} /\ 1 .. k \in SUBSET (1 .. N)
        /\ (1 .. k) \ {k} = 1 .. (k - 1) /\ k \in 0 .. N /\ k - 1 \in 0 .. N
    BY <1>1, Prefix, Zenon
  <2>2. Max(1 .. k) = k
    BY <2>1, LastIsMax
  <2>3. g[1 .. k] = ComposeEntry(g[(1 .. k) \ {Max(1 .. k)}], ActiveEntries[Max(1 .. k)])
    BY <1>1, <1>7, <2>1, Zenon DEF Folded
  <2> QED BY <2>1, <2>2, <2>3
<1>11. GatewayPlan = turn[N]
  BY <1>1, <1>8
<1> HIDE DEF turn
<1> QED BY <1>9, <1>10, <1>11

\* After k turns: the pointers are right, the first k entries are composed, in their
\* order, and their slots are the slots of the two collections.
Composed(plan, k) ==
  /\ Pointed(plan)
  /\ Len(plan.composition) = k
  /\ \A i \in 1 .. k : plan.composition[i].upstream = ActiveEntries[i]
  /\ ToSet(plan.responses) \cup ToSet(plan.chat) = {Slot(ActiveEntries[i]) : i \in 1 .. k}

\* What appending adds to the elements of a sequence.
LEMMA AppendedSet ==
  ASSUME NEW E, NEW s \in Seq(E), NEW e \in E
  PROVE  ToSet(Append(s, e)) = ToSet(s) \cup {e}
<1>1. /\ DOMAIN Append(s, e) = DOMAIN s \cup {Len(s) + 1}
      /\ Len(s) + 1 \notin DOMAIN s
      /\ \A i \in DOMAIN s : Append(s, e)[i] = s[i]
      /\ Append(s, e)[Len(s) + 1] = e
  OBVIOUS
<1> QED BY <1>1, Zenon DEF ToSet

\* The next turn composes the next entry.
LEMMA NextComposed ==
  ASSUME TypeOK, NEW plan, NEW k \in 0 .. N - 1, Composed(plan, k)
  PROVE  Composed(ComposeEntry(plan, ActiveEntries[k + 1]), k + 1)
<1>1. k + 1 \in 1 .. N /\ k \in Nat
  BY ActiveFinite
<1>2. PICK u \in Active : u = ActiveEntries[k + 1]
  BY <1>1, ActiveListed
<1>3. PICK after : after = ComposeEntry(plan, u)
  OBVIOUS
<1>4. Pointed(after)
  BY <1>3, PointersByTurn DEF Composed
<1>5. /\ plan \in PlanType /\ plan.responses \in Seq(SlotType) /\ plan.chat \in Seq(SlotType)
      /\ plan.composition \in Seq(CompositionType) /\ Len(plan.composition) = k
  BY DEF Composed, Pointed, PlanType
<1>6. PICK c \in CompositionType : /\ after.composition = Append(plan.composition, c)
                                   /\ c.upstream = u
  <2>1. PICK c : c = [upstream |-> u, source |-> entries[u].source,
                      collection |-> Desc(u).wireApi,
                      index |-> IF Desc(u).wireApi = "responses" THEN Len(plan.responses)
                                                                 ELSE Len(plan.chat)]
    OBVIOUS
  <2>2. c \in CompositionType /\ after.composition = Append(plan.composition, c)
    BY <1>3, <1>5, <2>1, Appended
  <2> QED BY <2>1, <2>2
<1>7. Len(after.composition) = k + 1
  BY <1>5, <1>6
<1>8. ASSUME NEW i \in 1 .. k + 1
      PROVE  after.composition[i].upstream = ActiveEntries[i]
  <2>1. CASE i = k + 1
    BY <1>1, <1>2, <1>5, <1>6, <2>1
  <2>2. CASE i # k + 1
    <3>1. i \in 1 .. k
      BY <1>1, <2>2
    <3>2. after.composition[i] = plan.composition[i]
      BY <1>1, <1>5, <1>6, <3>1
    <3> QED BY <3>1, <3>2 DEF Composed
  <2> QED BY <2>1, <2>2
<1>9. ToSet(after.responses) \cup ToSet(after.chat)
        = (ToSet(plan.responses) \cup ToSet(plan.chat)) \cup {Slot(u)}
  <2>1. Slot(u) \in SlotType
    BY DEF SlotType
  <2>2. /\ ToSet(Append(plan.responses, Slot(u))) = ToSet(plan.responses) \cup {Slot(u)}
        /\ ToSet(Append(plan.chat, Slot(u))) = ToSet(plan.chat) \cup {Slot(u)}
    BY <1>5, <2>1, AppendedSet
  <2>3. \/ after.responses = Append(plan.responses, Slot(u)) /\ after.chat = plan.chat
        \/ after.responses = plan.responses /\ after.chat = Append(plan.chat, Slot(u))
    BY <1>3, <1>5, Appended
  <2> QED BY <2>2, <2>3
<1>10. {Slot(ActiveEntries[i]) : i \in 1 .. k + 1}
         = {Slot(ActiveEntries[i]) : i \in 1 .. k} \cup {Slot(u)}
  <2>1. 1 .. k + 1 = (1 .. k) \cup {k + 1}
    BY <1>1
  <2> QED BY <1>2, <2>1, Zenon
<1>11. ToSet(after.responses) \cup ToSet(after.chat)
         = {Slot(ActiveEntries[i]) : i \in 1 .. k + 1}
  BY <1>9, <1>10, Zenon DEF Composed
<1>12. Composed(after, k + 1)
  BY <1>4, <1>7, <1>8, <1>11, Zenon DEF Composed
<1> QED BY <1>2, <1>3, <1>12

\* The plan the gateway is given composes every enabled entry, whatever is enabled.
LEMMA PlanComposed == ASSUME TypeOK PROVE Composed(GatewayPlan, N)
<1>1. PICK turn : /\ turn[0] = EmptyPlan
                  /\ \A k \in 1 .. N : turn[k] = ComposeEntry(turn[k - 1], ActiveEntries[k])
                  /\ GatewayPlan = turn[N]
  BY PlanByTurns
<1>2. N \in Nat
  BY ActiveFinite
<1> DEFINE T == {k \in Nat : k <= N => Composed(turn[k], k)}
<1>3. 0 \in T
  <2>1. Pointed(EmptyPlan)
    BY EmptyPointed
  <2>2. /\ Len(EmptyPlan.composition) = 0 /\ 1 .. 0 = {}
        /\ ToSet(EmptyPlan.responses) = {} /\ ToSet(EmptyPlan.chat) = {}
    BY DEF EmptyPlan, ToSet
  <2>3. Composed(EmptyPlan, 0)
    BY <2>1, <2>2, Zenon DEF Composed
  <2> QED BY <1>1, <2>3
<1>4. ASSUME NEW k \in T
      PROVE  k + 1 \in T
  <2> SUFFICES ASSUME k + 1 <= N PROVE Composed(turn[k + 1], k + 1)
    OBVIOUS
  <2>1. k \in 0 .. N - 1 /\ k + 1 \in 1 .. N /\ (k + 1) - 1 = k /\ k <= N
    BY <1>2
  <2>2. Composed(turn[k], k)
    BY <2>1
  <2>3. turn[k + 1] = ComposeEntry(turn[k], ActiveEntries[k + 1])
    BY <1>1, <2>1
  <2> QED BY <2>1, <2>2, <2>3, NextComposed
<1>5. T = Nat
  <2> HIDE DEF T
  <2>1. T \in SUBSET Nat
    BY DEF T
  <2> QED BY <1>3, <1>4, <2>1, SetInduction
<1> QED BY <1>1, <1>2, <1>5

\* What the loop keeps is what PointersResolve says of the plan it ends with.
LEMMA PointedPlansResolve == Pointed(GatewayPlan) => PointersResolve
<1>1. PICK plan : plan = GatewayPlan
  OBVIOUS
<1>2. Pointed(plan) =>
        /\ \A i \in DOMAIN plan.composition :
             LET c == plan.composition[i] IN
               /\ c.index < Len(IF c.collection = "responses" THEN plan.responses
                                                              ELSE plan.chat)
               /\ Addressed(plan, c).name = c.upstream
               /\ c.source = entries[c.upstream].source
        /\ Len(plan.composition) = Len(plan.responses) + Len(plan.chat)
  BY DEF Pointed, Resolves, Collection
<1> QED BY <1>1, <1>2 DEF PointersResolve

-----------------------------------------------------------------------------
(* The catalog                                                             *)

Used == {Desc(u).group : u \in Active}

CatalogGroups == {CatalogGroup(g) : g \in Used}

GroupRecordBefore(g, h) == OrderThenId(g.meta, g.group, h.meta, h.group)

MemberOrder(g) == {p \in Members(g) \X Members(g) : ProviderBefore(p[1], p[2])}

CatalogOrder == {p \in CatalogGroups \X CatalogGroups : GroupRecordBefore(p[1], p[2])}

MemberList(g) == Sorted(Members(g), ProviderBefore)

\* A group's providers are its enabled entries, each once, in their own order.
LEMMA MembersListed ==
  ASSUME TypeOK, NEW g
  PROVE  LET s == MemberList(g)
             n == Cardinality(Members(g))
         IN  /\ n \in Nat /\ s \in [1 .. n -> Members(g)]
             /\ \A i, j \in 1 .. n : i < j => ProviderBefore(s[i], s[j])
             /\ \A u \in Members(g) : \E i \in 1 .. n : s[i] = u
<1> DEFINE S == Members(g)
           R == MemberOrder(g)
           Sorts(s) == \A i, j \in DOMAIN s : i < j => ProviderBefore(s[i], s[j])
<1>1. S \in SUBSET Active /\ IsFiniteSet(S) /\ Cardinality(S) \in Nat
  <2>1. S \in SUBSET Active
    BY DEF Members
  <2> QED BY <2>1, ActiveFinite, FS_Subset, FS_CardinalityType
<1>2. Orders(S, R)
  <2>1. ASSUME NEW x \in S, NEW y \in S, x # y
        PROVE  ProviderBefore(x, y) \/ ProviderBefore(y, x)
    <3>1. Rank[x] # Rank[y] /\ x \in Active /\ y \in Active
      BY <1>1, <2>1, RankAssumption DEF Active, Registered
    <3> QED BY <3>1, Keys DEF ProviderBefore, OrderThenId
  <2>2. ASSUME NEW x \in S, NEW y \in S, ProviderBefore(x, y)
        PROVE  ~ProviderBefore(y, x)
    BY <1>1, <2>2, Keys, OrderThenIdOrders DEF ProviderBefore
  <2>3. ASSUME NEW x \in S, NEW y \in S, NEW z \in S,
               ProviderBefore(x, y), ProviderBefore(y, z)
        PROVE  ProviderBefore(x, z)
    BY <1>1, <2>3, Keys, OrderThenIdOrders DEF ProviderBefore
  <2> QED BY <2>1, <2>2, <2>3 DEF Orders, MemberOrder
<1>3. MemberList(g) = CHOOSE s \in [1 .. Cardinality(S) -> S] : Sorts(s)
  BY DEF MemberList, Sorted
<1>4. ASSUME NEW s \in [1 .. Cardinality(S) -> S]
      PROVE  Sorts(s) <=> InOrder(s, R)
  BY DEF InOrder, MemberOrder
<1>5. \E s \in [1 .. Cardinality(S) -> S] : InOrder(s, R)
  BY <1>1, <1>2, SortedExists
<1> HIDE DEF Sorts
<1>6. MemberList(g) \in [1 .. Cardinality(S) -> S] /\ Sorts(MemberList(g))
  BY <1>3, <1>4, <1>5, Zenon
<1>7. InOrder(MemberList(g), R)
  BY <1>4, <1>6
<1> QED BY <1>1, <1>2, <1>6, <1>7, SortedEnumerates DEF Sorts

\* A group is described by one of its entries.
LEMMA GroupDescribed ==
  ASSUME TypeOK, NEW g \in Used
  PROVE  /\ g \in Groups /\ CatalogGroup(g).group = g
         /\ \E u \in Members(g) : CatalogGroup(g).meta = Desc(u).groupMeta
         /\ CatalogGroup(g).meta \in Int
<1> DEFINE Latest(u) == \A v \in Members(g) \ {u} : ActiveBefore(v, u)
           places == {i \in 1 .. N : ActiveEntries[i] \in Members(g)}
<1>1. /\ N \in Nat /\ ActiveEntries \in [1 .. N -> Active]
      /\ \A i, j \in 1 .. N : i < j => ActiveBefore(ActiveEntries[i], ActiveEntries[j])
      /\ \A u \in Active : \E i \in 1 .. N : ActiveEntries[i] = u
  BY ActiveFinite, ActiveListed
<1>2. PICK u \in Active : Desc(u).group = g
  BY DEF Used
<1>3. places # {} /\ places \in SUBSET (1 .. N)
  BY <1>1, <1>2 DEF Members
<1> DEFINE m == Max(places)
<1>4. m \in places /\ \A j \in places : m >= j
  BY <1>1, <1>3, MaxIsIn
<1> HIDE DEF m
<1>5. ActiveEntries[m] \in Members(g) /\ Latest(ActiveEntries[m])
  <2>1. ASSUME NEW v \in Members(g) \ {ActiveEntries[m]}
        PROVE  ActiveBefore(v, ActiveEntries[m])
    <3>1. PICK j \in 1 .. N : ActiveEntries[j] = v
      BY <1>1 DEF Members
    <3>2. j \in places /\ j # m
      BY <3>1
    <3>3. m \in 1 .. N /\ j < m
      BY <1>1, <1>4, <3>2
    <3> QED BY <1>1, <3>1, <3>3
  <2> QED BY <1>4, <2>1
<1> HIDE DEF Latest
<1>6. PICK w \in Members(g) : w = CHOOSE x \in Members(g) : Latest(x)
  BY <1>5, Zenon
<1>7. CatalogGroup(g).group = g /\ CatalogGroup(g).meta = Desc(w).groupMeta
  BY <1>6 DEF CatalogGroup, Latest
<1>8. g \in Groups /\ Desc(w).groupMeta \in Int
  BY <1>2, <1>6, Keys DEF Members
<1> QED BY <1>6, <1>7, <1>8

\* The catalog's groups are those of the enabled entries, each once, in their order.
LEMMA GroupsListed ==
  ASSUME TypeOK
  PROVE  LET s == Catalog.groups
             n == Cardinality(CatalogGroups)
         IN  /\ n \in Nat /\ s \in [1 .. n -> CatalogGroups]
             /\ \A i, j \in 1 .. n : i < j => GroupRecordBefore(s[i], s[j])
             /\ \A g \in Used : \E i \in 1 .. n : s[i] = CatalogGroup(g)
<1> DEFINE S == CatalogGroups
           R == CatalogOrder
           Sorts(s) == \A i, j \in DOMAIN s : i < j => GroupRecordBefore(s[i], s[j])
<1>1. IsFiniteSet(S) /\ Cardinality(S) \in Nat
  <2> DEFINE f == [u \in Active |-> CatalogGroup(Desc(u).group)]
  <2>1. f \in Surjection(Active, S)
    BY DEF CatalogGroups, Used, Surjection
  <2>2. IsFiniteSet(S)
    BY <2>1, ActiveFinite, FS_Surjection
  <2> QED BY <2>2, FS_CardinalityType
<1>2. ASSUME NEW x \in S
      PROVE  /\ x.group \in Groups /\ x.group \in Used /\ x = CatalogGroup(x.group)
             /\ x.meta \in Int /\ Rank[x.group] \in Nat
  <2>1. PICK g \in Used : x = CatalogGroup(g)
    BY DEF CatalogGroups
  <2>2. g \in Groups /\ x.group = g /\ x.meta \in Int
    BY <2>1, GroupDescribed
  <2> QED BY <2>1, <2>2, RankAssumption
<1>3. Orders(S, R)
  <2>1. ASSUME NEW x \in S, NEW y \in S, x # y
        PROVE  GroupRecordBefore(x, y) \/ GroupRecordBefore(y, x)
    <3>1. Rank[x.group] # Rank[y.group]
      BY <1>2, <2>1, RankAssumption
    <3> QED BY <1>2, <3>1 DEF GroupRecordBefore, OrderThenId
  <2>2. ASSUME NEW x \in S, NEW y \in S, GroupRecordBefore(x, y)
        PROVE  ~GroupRecordBefore(y, x)
    BY <1>2, <2>2, OrderThenIdOrders DEF GroupRecordBefore
  <2>3. ASSUME NEW x \in S, NEW y \in S, NEW z \in S,
               GroupRecordBefore(x, y), GroupRecordBefore(y, z)
        PROVE  GroupRecordBefore(x, z)
    BY <1>2, <2>3, OrderThenIdOrders DEF GroupRecordBefore
  <2> QED BY <2>1, <2>2, <2>3 DEF Orders, CatalogOrder
<1>4. Catalog.groups = CHOOSE s \in [1 .. Cardinality(S) -> S] : Sorts(s)
  BY DEF Catalog, Sorted, CatalogGroups, Used, GroupRecordBefore
<1>5. ASSUME NEW s \in [1 .. Cardinality(S) -> S]
      PROVE  Sorts(s) <=> InOrder(s, R)
  BY DEF InOrder, CatalogOrder
<1>6. \E s \in [1 .. Cardinality(S) -> S] : InOrder(s, R)
  BY <1>1, <1>3, SortedExists
<1> HIDE DEF Sorts
<1>7. Catalog.groups \in [1 .. Cardinality(S) -> S] /\ Sorts(Catalog.groups)
  BY <1>4, <1>5, <1>6, Zenon
<1>8. InOrder(Catalog.groups, R)
  BY <1>5, <1>7
<1>9. \A g \in Used : CatalogGroup(g) \in S
  BY DEF CatalogGroups
<1> QED BY <1>1, <1>3, <1>7, <1>8, <1>9, SortedEnumerates DEF Sorts

-----------------------------------------------------------------------------
(* What is read of both                                                    *)

\* Where the catalog has what.
LEMMA PlacesListed ==
  ASSUME TypeOK
  PROVE  LET groups == Catalog.groups IN
         /\ \A i \in DOMAIN groups : \A k \in DOMAIN groups[i].providers :
              \E g \in Used : \E u \in Members(g) :
                /\ groups[i] = CatalogGroup(g)
                /\ k \in 1 .. Cardinality(Members(g)) /\ MemberList(g)[k] = u
                /\ groups[i].providers[k] = Provider(u)
         /\ \A u \in Active :
              \E i \in DOMAIN groups : \E k \in DOMAIN groups[i].providers :
                groups[i].providers[k] = Provider(u)
<1> DEFINE groups == Catalog.groups
           n == Cardinality(CatalogGroups)
<1>1. /\ n \in Nat /\ groups \in [1 .. n -> CatalogGroups]
      /\ \A g \in Used : \E i \in 1 .. n : groups[i] = CatalogGroup(g)
  BY GroupsListed
<1> HIDE DEF groups, n
<1>2. ASSUME NEW g
      PROVE  /\ MemberList(g) \in [1 .. Cardinality(Members(g)) -> Members(g)]
             /\ \A u \in Members(g) :
                  \E k \in 1 .. Cardinality(Members(g)) : MemberList(g)[k] = u
             /\ DOMAIN CatalogGroup(g).providers = 1 .. Cardinality(Members(g))
             /\ \A k \in 1 .. Cardinality(Members(g)) :
                  CatalogGroup(g).providers[k] = Provider(MemberList(g)[k])
  <2>1. /\ MemberList(g) \in [1 .. Cardinality(Members(g)) -> Members(g)]
        /\ \A u \in Members(g) :
             \E k \in 1 .. Cardinality(Members(g)) : MemberList(g)[k] = u
    BY MembersListed
  <2>2. CatalogGroup(g).providers
          = [k \in DOMAIN MemberList(g) |-> Provider(MemberList(g)[k])]
    BY DEF CatalogGroup, MemberList
  <2>3. DOMAIN MemberList(g) = 1 .. Cardinality(Members(g))
    BY <2>1
  <2> QED BY <2>1, <2>2, <2>3
<1>3. ASSUME NEW i \in DOMAIN groups, NEW k \in DOMAIN groups[i].providers
      PROVE  \E g \in Used : \E u \in Members(g) :
               /\ groups[i] = CatalogGroup(g)
               /\ k \in 1 .. Cardinality(Members(g)) /\ MemberList(g)[k] = u
               /\ groups[i].providers[k] = Provider(u)
  <2>1. groups[i] \in CatalogGroups
    BY <1>1
  <2>2. PICK g \in Used : groups[i] = CatalogGroup(g)
    BY <2>1 DEF CatalogGroups
  <2>3. k \in 1 .. Cardinality(Members(g))
    BY <1>2, <2>2, Zenon
  <2>4. MemberList(g)[k] \in Members(g)
    BY <1>2, <2>3
  <2>5. groups[i].providers[k] = Provider(MemberList(g)[k])
    BY <1>2, <2>2, <2>3, Zenon
  <2> QED BY <2>2, <2>3, <2>4, <2>5, Zenon
<1>4. ASSUME NEW u \in Active
      PROVE  \E i \in DOMAIN groups : \E k \in DOMAIN groups[i].providers :
               groups[i].providers[k] = Provider(u)
  <2>1. PICK g \in Used : g = Desc(u).group
    BY DEF Used
  <2>2. PICK i \in DOMAIN groups : groups[i] = CatalogGroup(g)
    BY <1>1, <2>1
  <2>3. u \in Members(g)
    BY <2>1 DEF Members
  <2>4. PICK k \in 1 .. Cardinality(Members(g)) : MemberList(g)[k] = u
    BY <1>2, <2>3, Zenon
  <2>5. k \in DOMAIN groups[i].providers /\ groups[i].providers[k] = Provider(u)
    BY <1>2, <2>2, <2>4, Zenon
  <2> QED BY <2>5, Zenon
<1> QED BY <1>3, <1>4 DEF groups

\* The catalog describes the enabled entries.
LEMMA ProvidersListed ==
  ASSUME TypeOK
  PROVE  Providers(Catalog) = {Provider(u) : u \in Active}
<1>1. PICK groups : groups = Catalog.groups
  OBVIOUS
<1>2. ASSUME NEW i \in DOMAIN groups, NEW k \in DOMAIN groups[i].providers
      PROVE  \E u \in Active : groups[i].providers[k] = Provider(u)
  <2>1. PICK g \in Used :
          \E u \in Members(g) : /\ groups[i] = CatalogGroup(g)
                                /\ k \in 1 .. Cardinality(Members(g))
                                /\ MemberList(g)[k] = u
                                /\ groups[i].providers[k] = Provider(u)
    BY <1>1, PlacesListed
  <2>2. PICK u \in Members(g) : groups[i].providers[k] = Provider(u)
    BY <2>1
  <2> QED BY <2>2 DEF Members
<1>3. ASSUME NEW u \in Active
      PROVE  \E i \in DOMAIN groups : \E k \in DOMAIN groups[i].providers :
               groups[i].providers[k] = Provider(u)
  BY <1>1, PlacesListed, Zenon
<1>4. \A p : p \in Providers(Catalog) <=>
              \E i \in DOMAIN groups : \E k \in DOMAIN groups[i].providers :
                p = groups[i].providers[k]
  BY <1>1 DEF Providers, ToSet
<1>5. ASSUME NEW p \in Providers(Catalog)
      PROVE  p \in {Provider(u) : u \in Active}
  <2>1. PICK i \in DOMAIN groups : \E k \in DOMAIN groups[i].providers :
                                     p = groups[i].providers[k]
    BY <1>4, <1>5
  <2>2. PICK k \in DOMAIN groups[i].providers : p = groups[i].providers[k]
    BY <2>1
  <2> QED BY <1>2, <2>2
<1>6. ASSUME NEW u \in Active
      PROVE  Provider(u) \in Providers(Catalog)
  BY <1>3, <1>4, Zenon
<1> QED BY <1>5, <1>6

\* The slots and the compositions of the plan are those of the enabled entries.
LEMMA PlanListed ==
  ASSUME TypeOK
  PROVE  /\ ToSet(GatewayPlan.responses) \cup ToSet(GatewayPlan.chat) = SlotType
         /\ DOMAIN GatewayPlan.composition = 1 .. N
         /\ \A i \in 1 .. N : GatewayPlan.composition[i].upstream = ActiveEntries[i]
<1>1. PICK plan : plan = GatewayPlan
  OBVIOUS
<1>2. Composed(plan, N)
  BY <1>1, PlanComposed
<1>3. /\ N \in Nat /\ ActiveEntries \in [1 .. N -> Active]
      /\ \A u \in Active : \E i \in 1 .. N : ActiveEntries[i] = u
  BY ActiveFinite, ActiveListed
<1>4. {Slot(ActiveEntries[i]) : i \in 1 .. N} = SlotType
  BY <1>3 DEF SlotType
<1>5. DOMAIN plan.composition = 1 .. N
  <2>1. plan.composition \in Seq(CompositionType) /\ Len(plan.composition) = N
    BY <1>2 DEF Composed, Pointed, PlanType
  <2> QED BY <1>3, <2>1
<1> QED BY <1>1, <1>2, <1>4, <1>5 DEF Composed

\* What a provider and a slot of one entry say it serves.
LEMMA ServedAlike ==
  ASSUME NEW u
  PROVE  {<<m.gatewayModel, m.sourceModels>> : m \in Provider(u).models}
           = {<<<<Slot(u).prefix, a>>, {r.name : r \in {x \in Slot(u).models : x.alias = a}}>> :
                a \in {r.alias : r \in Slot(u).models}}
<1> DEFINE routes == Desc(u).routes
           on == Enabled(Desc(u))
           prefix == EffectivePrefix(Desc(u))
           Behind(m) == {routes[i].source : i \in {j \in on : routes[j].model = m}}
           models == {[gatewayModel |-> <<prefix, m>>, sourceModels |-> Behind(m)] :
                        m \in PublicModels(u)}
           bound == {[name |-> routes[i].source, alias |-> routes[i].model] : i \in on}
           Named(a) == {r.name : r \in {x \in bound : x.alias = a}}
<1>1. Provider(u).models = models /\ Slot(u).models = bound /\ Slot(u).prefix = prefix
  BY DEF Provider, Slot
<1>2. PublicModels(u) = {routes[i].model : i \in on}
  BY DEF PublicModels
<1> HIDE DEF routes, on, prefix
<1>3. {r.alias : r \in bound} = PublicModels(u)
  <2>1. \A i \in on : [name |-> routes[i].source, alias |-> routes[i].model] \in bound
    OBVIOUS
  <2>2. \A r \in bound : \E i \in on : r.alias = routes[i].model
    OBVIOUS
  <2>3. ASSUME NEW i \in on
        PROVE  routes[i].model \in {r.alias : r \in bound}
    <3>1. [name |-> routes[i].source, alias |-> routes[i].model].alias = routes[i].model
      OBVIOUS
    <3> HIDE DEF bound
    <3> QED BY <2>1, <3>1, Zenon
  <2> HIDE DEF bound
  <2> QED BY <1>2, <2>2, <2>3, Zenon
<1>4. ASSUME NEW a
      PROVE  Named(a) = Behind(a)
  <2>1. ASSUME NEW i \in on, routes[i].model = a
        PROVE  routes[i].source \in Named(a)
    <3> DEFINE r == [name |-> routes[i].source, alias |-> routes[i].model]
    <3>1. r \in bound /\ r.alias = a /\ r.name = routes[i].source
      BY <2>1
    <3> HIDE DEF r, bound
    <3> QED BY <3>1, Zenon
  <2>2. ASSUME NEW n \in Named(a)
        PROVE  n \in Behind(a)
    BY <2>2
  <2> QED BY <2>1, <2>2
<1> HIDE DEF Named, Behind, bound
<1>5. {<<m.gatewayModel, m.sourceModels>> : m \in models}
        = {<<<<prefix, m>>, Behind(m)>> : m \in PublicModels(u)}
  <2> DEFINE model(m) == [gatewayModel |-> <<prefix, m>>, sourceModels |-> Behind(m)]
  <2>1. \A m : model(m).gatewayModel = <<prefix, m>> /\ model(m).sourceModels = Behind(m)
    OBVIOUS
  <2>2. models = {model(m) : m \in PublicModels(u)}
    OBVIOUS
  <2> HIDE DEF model, models
  <2>3. ASSUME NEW x \in models
        PROVE  \E m \in PublicModels(u) : <<x.gatewayModel, x.sourceModels>>
                                            = <<<<prefix, m>>, Behind(m)>>
    BY <2>1, <2>2
  <2>4. ASSUME NEW m \in PublicModels(u)
        PROVE  \E x \in models : <<x.gatewayModel, x.sourceModels>>
                                   = <<<<prefix, m>>, Behind(m)>>
    BY <2>1, <2>2
  <2> QED BY <2>3, <2>4
<1>6. \A a : Named(a) = Behind(a)
  BY <1>4, Zenon
<1>7. {<<<<prefix, a>>, Named(a)>> : a \in PublicModels(u)}
        = {<<<<prefix, m>>, Behind(m)>> : m \in PublicModels(u)}
  BY <1>6, Zenon
<1> HIDE DEF models
<1>8. {<<<<Slot(u).prefix, a>>, {r.name : r \in {x \in Slot(u).models : x.alias = a}}>> :
         a \in {r.alias : r \in Slot(u).models}}
        = {<<<<prefix, a>>, Named(a)>> : a \in {r.alias : r \in bound}}
  BY <1>1 DEF Named
<1> QED BY <1>1, <1>3, <1>5, <1>7, <1>8

\* One entry comes before another in the plan when activeEntries() sorts it before.
LEMMA Positions ==
  ASSUME TypeOK, NEW u \in Active, NEW v \in Active, ActiveBefore(u, v)
  PROVE  LET composition == GatewayPlan.composition
             position(w) == CHOOSE n \in DOMAIN composition : composition[n].upstream = w
         IN  position(u) < position(v)
<1> DEFINE composition == GatewayPlan.composition
           At(n, w) == composition[n].upstream = w
           position(w) == CHOOSE n \in DOMAIN composition : At(n, w)
<1>1. /\ N \in Nat /\ ActiveEntries \in [1 .. N -> Active]
      /\ \A i, j \in 1 .. N : i < j => ActiveBefore(ActiveEntries[i], ActiveEntries[j])
      /\ \A w \in Active : \E i \in 1 .. N : ActiveEntries[i] = w
  BY ActiveFinite, ActiveListed
<1>2. DOMAIN composition = 1 .. N /\ \A i \in 1 .. N : composition[i].upstream = ActiveEntries[i]
  BY PlanListed
<1> HIDE DEF composition
<1>3. ASSUME NEW w \in Active
      PROVE  position(w) \in 1 .. N /\ ActiveEntries[position(w)] = w
  <2>1. \E n \in DOMAIN composition : At(n, w)
    BY <1>1, <1>2
  <2> HIDE DEF At
  <2>2. position(w) \in DOMAIN composition /\ At(position(w), w)
    BY <2>1, Zenon
  <2> HIDE DEF position
  <2> QED BY <1>2, <2>2 DEF At
<1> HIDE DEF position
<1>4. ~ActiveBefore(v, u) /\ u # v
  <2>1. <<u, v>> \in ActiveOrder
    BY DEF ActiveOrder
  <2>2. <<v, u>> \notin ActiveOrder
    BY <2>1, ActiveOrdered, Zenon DEF Orders
  <2> QED BY <2>1, <2>2 DEF ActiveOrder
<1>5. position(u) < position(v)
  <2>1. /\ position(u) \in 1 .. N /\ position(v) \in 1 .. N
        /\ ActiveEntries[position(u)] = u /\ ActiveEntries[position(v)] = v
    BY <1>3
  <2>2. ~(position(v) < position(u)) /\ position(u) # position(v)
    BY <1>1, <1>4, <2>1
  <2> QED BY <1>1, <2>1, <2>2
<1> QED BY <1>5 DEF position, At, composition

\* Every pointer of the gateway's plan addresses the slot of its own upstream, no slot is
\* left out and none is addressed twice: whatever producers registered, revoked and
\* replaced, a credential never reaches another upstream's base URL.
THEOREM PlansPoint == ContextSpec => []PointersResolve
<1>1. ContextIInv => TypeOK
  BY DEF ContextIInv, IInv
<1>2. TypeOK => PointersResolve
  BY PlanComposed, PointedPlansResolve, Zenon DEF Composed
<1>3. QED
  BY <1>1, <1>2, ContextInductive, PTL

\* catalog() and gatewayPlan(), two readings of the same entries by different code, name
\* the same models over the same sources, whatever is registered.
THEOREM CatalogAndPlanAgree == ContextSpec => []CatalogMatchesPlan
<1> DEFINE listed(p) == [provider |-> p.provider,
                         served |-> {<<m.gatewayModel, m.sourceModels>> : m \in p.models}]
           bound(s) == [provider |-> s.name,
                        served |-> {<<<<s.prefix, a>>,
                                      {r.name : r \in {x \in s.models : x.alias = a}}>> :
                                      a \in {r.alias : r \in s.models}}]
<1>1. ASSUME NEW u
      PROVE  listed(Provider(u)) = bound(Slot(u))
  <2>1. Provider(u).provider = u /\ Slot(u).name = u
    BY DEF Provider, Slot
  <2> QED BY <2>1, ServedAlike, Zenon
<1>2. ASSUME TypeOK
      PROVE  {listed(p) : p \in Providers(Catalog)}
               = {bound(s) : s \in ToSet(GatewayPlan.responses) \cup ToSet(GatewayPlan.chat)}
  <2> HIDE DEF listed, bound
  <2>1. Providers(Catalog) = {Provider(u) : u \in Active}
    BY <1>2, ProvidersListed
  <2>2. ToSet(GatewayPlan.responses) \cup ToSet(GatewayPlan.chat) = {Slot(u) : u \in Active}
    BY <1>2, PlanListed DEF SlotType
  <2>3. {listed(p) : p \in {Provider(u) : u \in Active}}
          = {bound(s) : s \in {Slot(u) : u \in Active}}
    <3>1. ASSUME NEW u \in Active
          PROVE  /\ \E s \in {Slot(w) : w \in Active} : listed(Provider(u)) = bound(s)
                 /\ \E p \in {Provider(w) : w \in Active} : bound(Slot(u)) = listed(p)
      BY <1>1
    <3> QED BY <3>1
  <2> QED BY <2>1, <2>2, <2>3, Zenon
<1>3. TypeOK => CatalogMatchesPlan
  BY <1>2, Zenon DEF CatalogMatchesPlan
<1>4. ContextIInv => TypeOK
  BY DEF ContextIInv, IInv
<1>5. QED
  BY <1>3, <1>4, ContextInductive, PTL

\* The catalog lists every enabled upstream once, in the group it names, described as every
\* entry of that group describes it, and reads in the order of the plan.
THEOREM GroupsFaithful == ContextSpec => []GroupsAreFaithful
<1>1. ASSUME TypeOK, NoConflicts
      PROVE  GroupsAreFaithful
  <2> DEFINE At(gs, a) == gs[a[1]].providers[a[2]].provider
  <2>1. PICK groups : groups = Catalog.groups
    OBVIOUS
  <2>2. PICK composition : composition = GatewayPlan.composition
    OBVIOUS
  \* Enabled entries of one group say the same of it, and so does the group.
  <2>3. ASSUME NEW g \in Used, NEW u \in Members(g)
        PROVE  /\ u \in Active /\ Desc(u).group = g
               /\ CatalogGroup(g).group = g /\ CatalogGroup(g).meta = Desc(u).groupMeta
    <3>1. PICK w \in Members(g) : CatalogGroup(g).meta = Desc(w).groupMeta
      BY <1>1, GroupDescribed
    <3>2. /\ u \in Active /\ Desc(u).group = g /\ w \in Active /\ Desc(w).group = g
          /\ CatalogGroup(g).group = g
      BY <1>1, GroupDescribed DEF Members
    <3>3. Desc(u).groupMeta = Desc(w).groupMeta
      BY <1>1, <3>2 DEF NoConflicts, InconsistentGroup, Active, Desc
    <3> QED BY <3>1, <3>2, <3>3
  \* What stands at a place of the catalog.
  <2>4. ASSUME NEW i \in DOMAIN groups, NEW k \in DOMAIN groups[i].providers
        PROVE  \E u \in Active :
                 /\ groups[i].providers[k].provider = u
                 /\ Desc(u).group = groups[i].group /\ Desc(u).groupMeta = groups[i].meta
                 /\ groups[i] = CatalogGroup(Desc(u).group)
                 /\ k \in 1 .. Cardinality(Members(Desc(u).group))
                 /\ MemberList(Desc(u).group)[k] = u
    <3>1. PICK g \in Used :
            \E u \in Members(g) : /\ groups[i] = CatalogGroup(g)
                                  /\ k \in 1 .. Cardinality(Members(g))
                                  /\ MemberList(g)[k] = u
                                  /\ groups[i].providers[k] = Provider(u)
      BY <1>1, <2>1, PlacesListed
    <3>2. PICK u \in Members(g) : /\ groups[i] = CatalogGroup(g)
                                  /\ k \in 1 .. Cardinality(Members(g))
                                  /\ MemberList(g)[k] = u
                                  /\ groups[i].providers[k] = Provider(u)
      BY <3>1
    <3>3. groups[i].providers[k].provider = u
      BY <3>2 DEF Provider
    <3> QED BY <2>3, <3>2, <3>3
  <2>5. ASSUME NEW i \in DOMAIN groups, NEW p \in ToSet(groups[i].providers)
        PROVE  /\ Desc(p.provider).group = groups[i].group
               /\ Desc(p.provider).groupMeta = groups[i].meta
    <3>1. PICK k \in DOMAIN groups[i].providers : p = groups[i].providers[k]
      BY <2>5 DEF ToSet
    <3> QED BY <2>4, <3>1
  \* Each place is a pair of positions.
  <2>6. ASSUME NEW a \in Places(groups)
        PROVE  /\ a[1] \in DOMAIN groups /\ a[2] \in DOMAIN groups[a[1]].providers
               /\ a = <<a[1], a[2]>>
    BY DEF Places
  <2>7. {At(groups, a) : a \in Places(groups)} = {c.upstream : c \in ToSet(composition)}
    <3>1. /\ DOMAIN composition = 1 .. N
          /\ \A n \in 1 .. N : composition[n].upstream = ActiveEntries[n]
      BY <1>1, <2>2, PlanListed
    <3>2. {c.upstream : c \in ToSet(composition)} = Active
      <4>1. /\ ActiveEntries \in [1 .. N -> Active]
            /\ \A u \in Active : \E n \in 1 .. N : ActiveEntries[n] = u
        BY <1>1, ActiveListed
      <4>2. ASSUME NEW c \in ToSet(composition)
            PROVE  c.upstream \in Active
        BY <3>1, <4>1, <4>2 DEF ToSet
      <4>3. ASSUME NEW u \in Active
            PROVE  \E c \in ToSet(composition) : c.upstream = u
        <5>1. PICK n \in 1 .. N : composition[n].upstream = u
          BY <3>1, <4>1
        <5>2. composition[n] \in ToSet(composition)
          BY <3>1, <5>1 DEF ToSet
        <5> QED BY <5>1, <5>2
      <4> QED BY <4>2, <4>3
    <3>3. ASSUME NEW a \in Places(groups)
          PROVE  At(groups, a) \in Active
      BY <2>4, <2>6
    <3>4. ASSUME NEW u \in Active
          PROVE  \E a \in Places(groups) : At(groups, a) = u
      <4>1. PICK i \in DOMAIN groups : \E k \in DOMAIN groups[i].providers :
                                         groups[i].providers[k] = Provider(u)
        BY <1>1, <2>1, PlacesListed
      <4>2. PICK k \in DOMAIN groups[i].providers : groups[i].providers[k] = Provider(u)
        BY <4>1
      <4>3. <<i, k>> \in Places(groups)
        BY <4>1, <4>2 DEF Places
      <4>4. At(groups, <<i, k>>) = u
        BY <4>2 DEF Provider
      <4> QED BY <4>3, <4>4
    <3> HIDE DEF At
    <3> QED BY <3>2, <3>3, <3>4
  <2>8. ASSUME NEW a \in Places(groups), NEW b \in Places(groups), ReadBefore(a, b)
        PROVE  /\ At(groups, a) \in Active /\ At(groups, b) \in Active
               /\ ActiveBefore(At(groups, a), At(groups, b))
    <3>1. PICK u \in Active :
            /\ At(groups, a) = u
            /\ Desc(u).group = groups[a[1]].group /\ Desc(u).groupMeta = groups[a[1]].meta
            /\ groups[a[1]] = CatalogGroup(Desc(u).group)
            /\ a[2] \in 1 .. Cardinality(Members(Desc(u).group))
            /\ MemberList(Desc(u).group)[a[2]] = u
      BY <2>4, <2>6
    <3>2. PICK v \in Active :
            /\ At(groups, b) = v
            /\ Desc(v).group = groups[b[1]].group /\ Desc(v).groupMeta = groups[b[1]].meta
            /\ groups[b[1]] = CatalogGroup(Desc(v).group)
            /\ b[2] \in 1 .. Cardinality(Members(Desc(v).group))
            /\ MemberList(Desc(v).group)[b[2]] = v
      BY <2>4, <2>6
    <3>3. CASE a[1] < b[1]
      <4>1. GroupRecordBefore(groups[a[1]], groups[b[1]])
        <5>1. /\ \A i, j \in 1 .. Cardinality(CatalogGroups) :
                   i < j => GroupRecordBefore(groups[i], groups[j])
              /\ DOMAIN groups = 1 .. Cardinality(CatalogGroups)
          BY <1>1, <2>1, GroupsListed
        <5> QED BY <2>6, <3>3, <5>1
      <4>2. GroupBefore(u, v)
        BY <3>1, <3>2, <4>1 DEF GroupRecordBefore, GroupBefore
      <4> QED BY <3>1, <3>2, <4>2 DEF ActiveBefore
    <3>4. CASE a[1] = b[1] /\ a[2] < b[2]
      <4>1. Desc(u).group = Desc(v).group /\ Desc(u).groupMeta = Desc(v).groupMeta
        BY <3>1, <3>2, <3>4
      <4>2. ProviderBefore(u, v)
        <5>1. PICK g : g = Desc(u).group
          OBVIOUS
        <5>2. \A i, j \in 1 .. Cardinality(Members(g)) :
                i < j => ProviderBefore(MemberList(g)[i], MemberList(g)[j])
          BY <1>1, MembersListed
        <5> QED BY <3>1, <3>2, <3>4, <4>1, <5>1, <5>2
      <4>3. ~GroupBefore(v, u)
        BY <1>1, <4>1, Keys, OrderThenIdOrders DEF GroupBefore
      <4> QED BY <3>1, <3>2, <4>2, <4>3 DEF ActiveBefore
    <3> QED BY <2>8, <3>3, <3>4 DEF ReadBefore
  <2> HIDE DEF At
  <2> DEFINE position(u) == CHOOSE n \in DOMAIN composition : composition[n].upstream = u
  <2>9. \A a, b \in Places(groups) :
          ReadBefore(a, b) => position(At(groups, a)) < position(At(groups, b))
    <3>1. \A u, v \in Active : ActiveBefore(u, v) => position(u) < position(v)
      BY <1>1, <2>2, Positions
    <3> HIDE DEF position
    <3> QED BY <2>8, <3>1
  <2> QED BY <2>1, <2>2, <2>5, <2>7, <2>9, Zenon DEF GroupsAreFaithful, At
<1>2. ContextIInv => TypeOK /\ NoConflicts
  BY DEF ContextIInv, IInv
<1>3. QED
  BY <1>1, <1>2, ContextInductive, PTL
=============================================================================
