-------------------------- MODULE MCExtensionPlan ---------------------------
(***************************************************************************)
(* A small instance of ExtensionPlan: two plugins, one of them with two    *)
(* generations, three registrars, two adapters for one place, and three    *)
(* connections that require their adapter, make do without it, are         *)
(* disabled, or join two models of one source, so that registrars share an *)
(* authority or supersede each other, a connection outlives the adapter of *)
(* the other plugin, and every position of the plan can be skipped.        *)
(***************************************************************************)
EXTENDS ExtensionPlan, TLC

CONSTANTS a1, a2, c1, c2, c3

MCAdapterIds == {a1, a2}
MCConnectionIds == {c1, c2, c3}
MCRank == [c \in MCConnectionIds |-> CASE c = c1 -> 1 [] c = c2 -> 2 [] c = c3 -> 3]

\* Registrars and sources are interchangeable.
Symmetry == Permutations(Registrars) \cup Permutations(Sources)

Adapter(id, rev, on) == [id |-> id, revision |-> rev, enabled |-> on, wellFormed |-> TRUE]

Route(src, mdl, on, def) == [source |-> src, model |-> mdl, enabled |-> on, default |-> def]

Connection(id, rev, on, pinned, required, bearer, models) ==
  [id |-> id, revision |-> rev, enabled |-> on, adapter |-> a1, adapterRevision |-> pinned,
   required |-> required, bearer |-> bearer, wellFormed |-> TRUE, models |-> models]

Two == <<Route(1, 1, TRUE, TRUE), Route(2, 2, FALSE, FALSE)>>
TwiceOneSource == <<Route(1, 1, TRUE, FALSE), Route(1, 2, FALSE, FALSE)>>

MCAdapters == {Adapter(a1, 1, TRUE), Adapter(a1, 2, FALSE), Adapter(a2, 1, TRUE)}

MCConnections ==
  { Connection(c1, 1, TRUE, 1, TRUE, TRUE, Two),
    Connection(c1, 2, TRUE, 2, TRUE, FALSE, Two),
    Connection(c2, 1, TRUE, 1, FALSE, TRUE, TwiceOneSource),
    Connection(c2, 2, FALSE, 1, FALSE, TRUE, Two),
    Connection(c3, 1, TRUE, 2, FALSE, FALSE, Two) }
=============================================================================
