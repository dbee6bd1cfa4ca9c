--------------------------- MODULE ExtensionPlan ----------------------------
(***************************************************************************)
(* The extension plan from the registry to the bridge.  plan()             *)
(* (extension-registry.ts) lists every registered connection and decides   *)
(* which are enabled, and composes the enabled ones with their source by   *)
(* position; the gateway (gateway.ts) leases the sources and has the Host  *)
(* write their origins and credentials at those positions; the bridge      *)
(* (main.go) decides again, from the result, what it serves.  The three    *)
(* have to agree whatever was registered, by whichever plugins.            *)
(***************************************************************************)
EXTENDS ExtensionRegistry, Sorting, SequencesExt

CONSTANTS
  Rank,        \* the alphabetical position of every connection id
  Unset        \* null: an endpoint or a credential that was not written

ASSUME RankAssumption ==
  /\ Rank \in [ConnectionIds -> Nat]
  /\ \A c, d \in ConnectionIds : Rank[c] = Rank[d] => c = d
  /\ Unset \notin Sources \cup Adapters

Bridge == INSTANCE BridgePlan

-----------------------------------------------------------------------------
(* plan()                                                                  *)

AdapterAvailable(c) ==
  /\ adapters[c.adapter] # Absent
  /\ adapters[c.adapter].adapter.enabled
  /\ adapters[c.adapter].adapter.revision = c.adapterRevision

\* Mutant: a missing adapter does not disable its connection.
PlanEnabledAnyway(c) == c.enabled

PlanEnabled(c) == c.enabled /\ (~c.required \/ AdapterAvailable(c))

PlanConnection(c) ==
  [id |-> c.id, enabled |-> PlanEnabled(c), adapter |-> c.adapter,
   adapterRevision |-> c.adapterRevision, required |-> c.required,
   available |-> AdapterAvailable(c), bearer |-> c.bearer,
   endpoint |-> Unset, credential |-> Unset,
   models |-> {[source |-> c.models[i].source, gateway |-> <<c.id, c.models[i].model>>] :
                 i \in EnabledModels(c)}]

\* The ids of the connections, in alphabetical order.
Ids == LET before(c, d) == Rank[c] < Rank[d] IN Sorted(RegisteredConnections, before)

\* The plan's connections: all of them, enabled or not.
Listed == [i \in DOMAIN Ids |-> PlanConnection(connections[Ids[i]].connection)]

\* What the composition says of the connection at position i; its pointers name it by
\* the index, which counts from zero.
Composed(i, index) ==
  [connection |-> Ids[i], source |-> connections[Ids[i]].source, index |-> index,
   authorization |-> Listed[i].bearer]

EnabledPositions == {i \in DOMAIN Ids : Listed[i].enabled}

\* Mutant: positions are counted over the enabled connections.
PlanCountingEnabled ==
  [adapters |-> {adapters[a].adapter : a \in RegisteredAdapters},
   connections |-> Listed,
   composition |-> {Composed(i, Cardinality({j \in EnabledPositions : j < i})) :
                      i \in EnabledPositions}]

Plan ==
  [adapters |-> {adapters[a].adapter : a \in RegisteredAdapters},
   connections |-> Listed,
   composition |-> {Composed(i, i - 1) : i \in EnabledPositions}]

-----------------------------------------------------------------------------
(* Materialization                                                         *)

\* The bindings of a composition: the Host writes the source's origin where the first
\* points and, if the plan points there, the source's authorization where the second does.
WriteSource(connection, c) ==
  [connection EXCEPT !.endpoint = c.source,
                     !.credential = IF c.authorization THEN c.source ELSE @]

\* The bridge configuration the gateway has the Host materialize.
Materialized(plan) ==
  LET pointing(i) == {c \in plan.composition : c.index = i - 1}
      written(i) == IF pointing(i) = {}
                      THEN plan.connections[i]
                      ELSE WriteSource(plan.connections[i], CHOOSE c \in pointing(i) : TRUE)
  IN  [active |-> plan.composition # {},
       adapters |-> plan.adapters,
       connections |-> [i \in DOMAIN plan.connections |-> written(i)]]

\* expectedGatewayModels of activate(): what the gateway must list afterwards.
ExpectedModels(plan) ==
  {m.gateway : m \in UNION {c.models : c \in {d \in ToSet(plan.connections) : d.enabled}}}

-----------------------------------------------------------------------------
(* Properties                                                              *)

\* The bridge accepts every configuration the registry can lead to, so a registration
\* never leaves it on its previous plan; and it lists exactly the models the gateway
\* insists on before it publishes anything.
BridgeServesPlan ==
  LET config == Materialized(Plan) IN
    /\ Bridge!Accepts(config)
    /\ Bridge!StaticModels(config) = ExpectedModels(Plan)

\* A request for a model goes to the source registered for its connection, with that
\* source's credential or none: no position is off by one when entries are disabled.
SourcesReachTheirModels ==
  LET config == Materialized(Plan) IN
    \A c \in RegisteredConnections : \A i \in EnabledModels(connections[c].connection) :
      LET call == Bridge!Prepare(config, <<c, connections[c].connection.models[i].model>>) IN
        call.status = "ok" =>
          /\ call.connection = c
          /\ call.endpoint = connections[c].source
          /\ call.credential = (IF connections[c].connection.bearer
                                  THEN connections[c].source ELSE Unset)

\* A connection that requires its adapter is never served without it: missing,
\* disabled or of another revision, its models leave the list and a request fails
\* inside the bridge, which still claims them, before any upstream request.
RequiredAdaptersProtect ==
  LET config == Materialized(Plan) IN
    \A c \in RegisteredConnections :
      LET connection == connections[c].connection IN
        connection.required =>
          \A i \in EnabledModels(connection) :
            LET model == <<c, connection.models[i].model>>
                call == Bridge!Prepare(config, model)
            IN  /\ Bridge!Handles(config, model)
                /\ call.status = "ok" <=> model \in Bridge!StaticModels(config)
                /\ call.status = "ok" =>
                     /\ call.adapter # Unset
                     /\ call.adapter.id = connection.adapter
                     /\ call.adapter.revision = connection.adapterRevision
=============================================================================
