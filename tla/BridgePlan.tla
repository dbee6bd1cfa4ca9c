---------------------------- MODULE BridgePlan ------------------------------
(***************************************************************************)
(* How the native gateway bridge (native/gateway-bridge/main.go) reads its *)
(* configuration: what it refuses to be configured with, which models it   *)
(* lists, which it claims, and what it answers a request for one.          *)
(*                                                                         *)
(* A configuration has the adapters, as a set, and the connections in the  *)
(* order of the plan.  A gateway model is <<connectionId, modelId>>: an id *)
(* holds no '/', so SplitN on '/' gives the connection back.               *)
(***************************************************************************)
EXTENDS Naturals, Sequences, SequencesExt

CONSTANT Unset      \* an endpoint, credential or adapter that is not there

\* What the bridge holds before it is configured and after a shutdown.
EmptyPlan == [active |-> FALSE, adapters |-> {}, connections |-> <<>>]

ConnectionsOf(plan) == ToSet(plan.connections)

\* plan.models: every model a connection lists, ready or not.
KnownModels(plan) == {m.gateway : m \in UNION {c.models : c \in ConnectionsOf(plan)}}

\* configure: an enabled connection has an endpoint, and neither a connection nor a
\* gateway model comes twice.  Anything else leaves the plan in force as it was.
Accepts(config) ==
  /\ \A c \in ConnectionsOf(config) : c.enabled => c.endpoint # Unset
  /\ \A i, j \in DOMAIN config.connections :
       LET c == config.connections[i]
           d == config.connections[j]
       IN  /\ c.id = d.id => i = j
           /\ \A m \in c.models, n \in d.models : m.gateway = n.gateway => i = j /\ m = n

\* The adapter under the connection's adapter id, if it can serve the connection.
Matches(c, a) == a.id = c.adapter /\ a.enabled /\ a.revision = c.adapterRevision

\* connectionReady
Ready(plan, c) ==
  /\ plan.active
  /\ c.enabled
  /\ c.required => c.available /\ \E a \in plan.adapters : Matches(c, a)

\* model.static: the models the gateway lists.
StaticModels(plan) ==
  {m.gateway : m \in UNION {c.models : c \in {d \in ConnectionsOf(plan) : Ready(plan, d)}}}

\* Mutant: only the models that can be served are claimed.
HandlesReady(plan, model) == model \in StaticModels(plan)

\* model.route: the bridge claims every model it knows, so that no other provider
\* of the gateway answers for it.
Handles(plan, model) == model \in KnownModels(plan)

Refusal(status) ==
  [status |-> status, connection |-> Unset, endpoint |-> Unset, credential |-> Unset,
   adapter |-> Unset]

\* prepare and outboundRequest: the connection of the model, and the adapter it
\* names when that one matches; a bearer connection needs its credential.
Prepare(plan, model) ==
  IF ~Handles(plan, model)
    THEN Refusal("not-found")
    ELSE LET c == CHOOSE d \in ConnectionsOf(plan) : d.id = model[1]
             usable == {a \in plan.adapters : Matches(c, a)}
         IN  IF ~Ready(plan, c) \/ (c.bearer /\ c.credential = Unset)
               THEN Refusal("unavailable")
               ELSE [status |-> "ok", connection |-> c.id, endpoint |-> c.endpoint,
                     credential |-> IF c.bearer THEN c.credential ELSE Unset,
                     adapter |-> IF usable = {} THEN Unset ELSE CHOOSE a \in usable : TRUE]
=============================================================================
