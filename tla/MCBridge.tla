------------------------------ MODULE MCBridge ------------------------------
(***************************************************************************)
(* A small instance of Bridge: a request for one of two connections, under *)
(* configurations that move a connection to another endpoint, another      *)
(* adapter revision, take its adapter away or forget its endpoint.         *)
(***************************************************************************)
EXTENDS Bridge

CONSTANTS c1, c2, a1, s1, s2

AdapterOf(rev) == [id |-> a1, revision |-> rev, enabled |-> TRUE]

Connection(id, on, rev, required, available, source, credential) ==
  [id |-> id, enabled |-> on, adapter |-> a1, adapterRevision |-> rev, required |-> required,
   available |-> available, bearer |-> TRUE, endpoint |-> source, credential |-> credential,
   models |-> {[source |-> 1, gateway |-> <<id, 1>>]}]

Config(revs, conns) ==
  [active |-> TRUE, adapters |-> {AdapterOf(rev) : rev \in revs}, connections |-> conns]

MCConfigs ==
  { Config({1}, <<Connection(c1, TRUE, 1, TRUE, TRUE, s1, s1),
                  Connection(c2, TRUE, 1, FALSE, TRUE, s2, s2)>>),
    Config({2}, <<Connection(c1, TRUE, 2, TRUE, TRUE, s2, s2)>>),
    Config({}, <<Connection(c1, FALSE, 1, TRUE, FALSE, Unset, Unset),
                 Connection(c2, TRUE, 1, FALSE, FALSE, s2, Unset)>>),
    Config({2}, <<Connection(c1, TRUE, 2, TRUE, TRUE, Unset, s1)>>) }
=============================================================================
