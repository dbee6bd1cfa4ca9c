------------------------- MODULE MCUpstreamContext --------------------------
(***************************************************************************)
(* A small instance of UpstreamContext and UpstreamPlan: three bindings    *)
(* over two plugins of two generations, so that two may share an           *)
(* authority, one may supersede another and an old generation may come     *)
(* back; four ids for three places; and descriptors chosen to collide (an  *)
(* explicit prefix equal to another upstream's default one, one group      *)
(* described in two ways, enabled and disabled revisions, descriptors that *)
(* validation refuses) and to mix the two wire APIs, equal and different   *)
(* orders, pooled routes and a route that is switched off.                 *)
(***************************************************************************)
EXTENDS UpstreamContext, UpstreamPlan, TLC

CONSTANTS u1, u2, u3, u4, ga, gb

MCUpstreams == {u1, u2, u3, u4}
MCGatewayPrefixes == MCUpstreams
MCGroups == {ga, gb}
MCRank == [i \in MCUpstreams \cup MCGroups |->
             CASE i = u1 -> 1 [] i = u2 -> 2 [] i = u3 -> 3 [] i = u4 -> 4
               [] i = ga -> 2 [] i = gb -> 1]

\* Bindings, plugins, generations and sources are interchangeable.
Symmetry ==
  UNION {Permutations(Bindings), Permutations(Plugins), Permutations(Generations),
         Permutations(Sources)}

Route(src, mdl, on, def, meta) ==
  [source |-> src, model |-> mdl, enabled |-> on, default |-> def, meta |-> meta]

Plain == <<Route(1, 1, TRUE, FALSE, 0)>>
Pooled == <<Route(1, 1, TRUE, TRUE, 0), Route(2, 1, TRUE, TRUE, 0), Route(3, 2, FALSE, TRUE, 0)>>
PooledTwoMetas == <<Route(1, 1, TRUE, FALSE, 0), Route(2, 1, TRUE, FALSE, 1)>>
AllDisabled == <<Route(1, 1, FALSE, FALSE, 0)>>

Descriptor(id, rev, on, prefix, group, meta, order, api, routes) ==
  [id |-> id, revision |-> rev, enabled |-> on, prefix |-> prefix, group |-> group,
   groupMeta |-> meta, order |-> order, wireApi |-> api, wellFormed |-> TRUE,
   routes |-> routes]

MCDescriptors ==
  { Descriptor(u1, 1, TRUE, NoPrefix, ga, 5, 2, "responses", Plain),
    Descriptor(u1, 2, FALSE, NoPrefix, ga, 5, 2, "responses", Pooled),
    Descriptor(u1, 3, TRUE, NoPrefix, ga, 7, 2, "responses", Plain),
    Descriptor(u2, 1, TRUE, u1, gb, 5, 2, "responses", Plain),
    Descriptor(u2, 1, TRUE, NoPrefix, ga, 5, 2, "responses", PooledTwoMetas),
    Descriptor(u2, 2, TRUE, NoPrefix, ga, 5, 1, "chat-completions", Pooled),
    Descriptor(u3, 1, TRUE, NoPrefix, gb, 5, 2, "responses", Pooled),
    Descriptor(u3, 2, TRUE, u2, gb, 5, 1, "chat-completions", AllDisabled),
    Descriptor(u4, 1, TRUE, NoPrefix, ga, 5, 2, "chat-completions", Plain) }
=============================================================================
