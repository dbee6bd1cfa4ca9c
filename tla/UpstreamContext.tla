--------------------------- MODULE UpstreamContext --------------------------
(***************************************************************************)
(* The context service over the registry (upstream-context.ts): the Host   *)
(* binds a consumer plugin generation and gets a registrar for it; the     *)
(* binding is disposed when the consumer goes away or its signal aborts,   *)
(* and the root is disposed with the gateway's own generation.  Disposing  *)
(* a binding does not take the registrar away from whoever holds it.       *)
(***************************************************************************)
EXTENDS UpstreamRegistry

CONSTANTS
  Bindings,      \* the bindings the Host may create, each once
  Unbound        \* a binding not created yet

BindingType == [plugin : Plugins, generation : Generations, live : BOOLEAN]

ASSUME ContextAssumption ==
  /\ Unbound \notin BindingType
  /\ IsFiniteSet(Plugins)

VARIABLE binding    \* Unbound, or the authority of a binding and whether it lives

contextVars == <<entries, generation, revision, disposed, subscribed, seen, binding>>

Created(b) == binding[b] # Unbound

LiveBinding(b) == Created(b) /\ binding[b].live

ContextInit == Init /\ binding = [b \in Bindings |-> Unbound]

\* bind: refused once the root is disposed; activates the producer's generation.
Bind(b, p, g) ==
  /\ ~Created(b)
  /\ ~disposed
  /\ binding' = [binding EXCEPT ![b] = [plugin |-> p, generation |-> g, live |-> TRUE]]
  /\ \/ ActivateProducer(p, g)
     \/ generation[p] = g /\ UNCHANGED vars

\* The holder of a registrar calls it, whether or not the binding still lives.
UseRegistrar(b) ==
  /\ Created(b)
  /\ LET p == binding[b].plugin
         g == binding[b].generation
     IN  \/ \E d \in Descriptors, s \in Sources : Register(p, g, d, s)
         \/ \E u \in Upstreams : \E expected \in {d.revision : d \in Descriptors} :
              Revoke(p, g, u, expected)
         \/ DisposeProducer(p, g)
  /\ UNCHANGED binding

\* binding.dispose(), also run when the binding's signal aborts.
DisposeBinding(b) ==
  /\ LiveBinding(b)
  /\ binding' = [binding EXCEPT ![b].live = FALSE]
  /\ LET p == binding[b].plugin
         g == binding[b].generation
     IN  \/ DisposeProducer(p, g)
         \/ ~Live(p, g) /\ UNCHANGED vars

\* The plugins whose entries go, and are announced, while the root disposes its
\* bindings one after the other.
DroppedByBindings ==
  {p \in Plugins :
     /\ EntriesOf(p) # {}
     /\ \E b \in Bindings :
          LiveBinding(b) /\ binding[b].plugin = p /\ Live(p, binding[b].generation)}

\* dispose of the root: every binding, then the registry.
DisposeRoot ==
  /\ ~disposed
  /\ disposed' = TRUE
  /\ binding' = [b \in Bindings |-> IF Created(b) THEN [binding[b] EXCEPT !.live = FALSE]
                                                  ELSE Unbound]
  /\ entries' = [u \in Upstreams |-> Absent]
  /\ generation' = [p \in Plugins |-> NoGeneration]
  /\ subscribed' = FALSE
  /\ revision' = revision + Cardinality(DroppedByBindings) + 1
  /\ seen' = IF subscribed /\ DroppedByBindings # {} THEN revision' - 1 ELSE seen

ContextNext ==
  \/ \E b \in Bindings, p \in Plugins, g \in Generations : Bind(b, p, g)
  \/ \E b \in Bindings : UseRegistrar(b) \/ DisposeBinding(b)
  \/ (Subscribe \/ Unsubscribe) /\ UNCHANGED binding
  \/ DisposeRoot

ContextSpec == ContextInit /\ [][ContextNext]_contextVars

-----------------------------------------------------------------------------
(* Properties                                                              *)

\* An upstream never outlives the binding it came through: every entry's
\* authority is that of a binding which still lives.
NoEntryWithoutBinding ==
  \A u \in Registered : \E b \in Bindings :
    LiveBinding(b) /\ OwnedBy(u, binding[b].plugin, binding[b].generation)

\* Disposing a consumer binding revokes only what its own producer generation
\* registered, also when a newer generation of the plugin has taken over.
DisposalIsLocal ==
  [][\A b \in Bindings :
       DisposeBinding(b) =>
         \A u \in Registered :
           ~OwnedBy(u, binding[b].plugin, binding[b].generation)
             => entries'[u] = entries[u]]_contextVars

\* The bindings only ever make calls of the registry: to its readers the
\* registry under a context is still a versioned store.
ContextKeepsStore == Store!Spec
=============================================================================
