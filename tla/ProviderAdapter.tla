--------------------------- MODULE ProviderAdapter --------------------------
(***************************************************************************)
(* CliProxyPlatformProviderAdapter (adapter.ts) and its BrokerClient       *)
(* (broker-client.ts): the Host asks for models, sessions and turns, each  *)
(* call is one exchange with the broker or two, and the Host drains and    *)
(* disposes the adapter when the provider is retired.  One action is the   *)
(* code from one await to the next; the broker's own steps are external.   *)
(*                                                                         *)
(* A thread of the broker does not always name its model: the adapter      *)
(* remembers the model it created a session with, and falls back on it.    *)
(* An answer that names the model names the right one.  A page of sessions *)
(* is stood for by one of them.  Decisions are the module Lifecycle's.     *)
(***************************************************************************)
CONSTANTS
  Calls,       \* places for calls under way: a bound of the model
  Drains,      \* places for drains under way
  Threads,     \* the threads the broker may ever start
  Models,
  None         \* undefined; also 'unknown', the model nobody remembers

\* What a drain waits for, and what was with the broker when it began and is not answered.
DrainType == [waits : SUBSET Calls, owes : SUBSET Calls]

ASSUME ConstantsAssumption == None \notin Models \cup Threads /\ None \notin DrainType

VARIABLES
  aborted,        \* signal
  disposed,       \* "no", "begun" (the lifecycle's disposal is awaited) or "done"
  sessionModels,  \* the model remembered for each thread, or None
  pending,        \* the exchanges a request awaits, named by their calls
  calls,          \* the calls
  drains,         \* what each drain waits for, and what it owes its caller, or None
  threads,        \* broker: the model of each thread it started, or None
  told            \* Host: the threads it had from create

vars == <<aborted, disposed, sessionModels, pending, calls, drains, threads, told>>

Idle == [op |-> "none", pc |-> "idle"]

Init ==
  /\ aborted = FALSE
  /\ disposed = "no"
  /\ sessionModels = [t \in Threads |-> None]
  /\ pending = {}
  /\ calls = [k \in Calls |-> Idle]
  /\ drains = [d \in Drains |-> None]
  /\ threads = [t \in Threads |-> None]
  /\ told = {}

\* unavailable()
Retired == disposed # "no" \/ aborted

Started == {t \in Threads : threads[t] # None}

Open == {k \in Calls : calls[k].pc \in {"sent", "served"}}

-----------------------------------------------------------------------------
(* Calls                                                                   *)

\* A call of an adapter that is not retired sends its first request.  `known` is what it may
\* be about that the Host had from create by then.
Begin(k, op, thread, model, subjects) ==
  /\ calls[k] = Idle
  /\ ~Retired
  /\ calls' = [calls EXCEPT ![k] = [op |-> op, pc |-> "sent", thread |-> thread,
                                    model |-> model, known |-> told \cap subjects]]
  /\ pending' = pending \cup {k}
  /\ UNCHANGED <<aborted, disposed, sessionModels, drains, threads, told>>

\* create; list; read, continue and restore ("session"), archive or fork of a session; or
\* one whose answer has no session ("other": models, turns, delete).
Call(k) ==
  \/ \E m \in Models : Begin(k, "create", None, m, {})
  \/ Begin(k, "list", None, None, Threads)
  \/ Begin(k, "other", None, None, {})
  \/ \E t \in Started, op \in {"session", "archive", "fork"} : Begin(k, op, t, None, {t})

\* The broker starts a thread: of the model asked for, or of the thread forked.
Serve(k) ==
  /\ calls[k].pc = "sent" /\ calls[k].op \in {"create", "fork"}
  /\ \E t \in Threads \ Started :
       LET model == IF calls[k].op = "create" THEN calls[k].model
                      ELSE threads[calls[k].thread]
       IN  /\ threads' = [threads EXCEPT ![t] = model]
           /\ calls' = [calls EXCEPT ![k].pc = "served", ![k].thread = t]
  /\ UNCHANGED <<aborted, disposed, sessionModels, pending, drains, told>>

\* What an exchange settles, in every drain.
Settled(k) ==
  drains' = [d \in Drains |->
    IF drains[d] = None THEN None
      ELSE [waits |-> drains[d].waits \ {k}, owes |-> drains[d].owes \ {k}]]

\* The broker accepts the request of k, about the thread t, and names its model or not.
Accept(k) ==
  /\ k \in Open
  /\ calls[k].op \in {"create", "fork"} => calls[k].pc = "served"
  /\ \E t \in IF calls[k].op = "list" THEN Started \cup {None} ELSE {calls[k].thread} :
     \E said \in IF t = None THEN {None} ELSE {None, threads[t]} :
       calls' = [calls EXCEPT ![k].pc = "accepted", ![k].thread = t,
                   ![k].model = IF calls[k].op \in {"create", "archiving"} THEN @ ELSE said]
  /\ Settled(k)
  /\ UNCHANGED <<aborted, disposed, sessionModels, pending, threads, told>>

\* Mutant: a drain ends with the first exchange that throws.
FailAlone(k) ==
  /\ k \in Open
  /\ calls' = [calls EXCEPT ![k] = [op |-> "none", pc |-> "failed"]]
  /\ drains' = [d \in Drains |->
       IF drains[d] = None THEN None
         ELSE [waits |-> IF k \in drains[d].waits THEN {} ELSE drains[d].waits,
               owes |-> drains[d].owes \ {k}]]
  /\ UNCHANGED <<aborted, disposed, sessionModels, pending, threads, told>>

\* The broker refuses, throws or loses the request.
Fail(k) ==
  /\ k \in Open
  /\ calls' = [calls EXCEPT ![k] = [op |-> "none", pc |-> "failed"]]
  /\ Settled(k)
  /\ UNCHANGED <<aborted, disposed, sessionModels, pending, threads, told>>

\* session(): the model the answer names, else the one remembered, else 'unknown'; an
\* archived session is returned as it was read.
Projection(k) ==
  IF calls[k].model # None \/ calls[k].op = "archiving" THEN calls[k].model
    ELSE sessionModels[calls[k].thread]

Return(k) == calls' = [calls EXCEPT ![k] = Idle] /\ pending' = pending \ {k}

\* A call that failed, or whose answer is no session, returns.
Finish(k) ==
  /\ \/ calls[k].pc = "failed"
     \/ calls[k].pc = "accepted" /\ calls[k].op \notin {"create", "archive"}
  /\ Return(k)
  /\ UNCHANGED <<aborted, disposed, sessionModels, drains, threads, told>>

\* create remembers the model, also when it has no session to return.
Created(k) ==
  /\ calls[k].pc = "accepted" /\ calls[k].op = "create"
  /\ sessionModels' = [sessionModels EXCEPT ![calls[k].thread] = calls[k].model]
  /\ Return(k)
  /\ told' \in {told, told \cup {calls[k].thread}}
  /\ UNCHANGED <<aborted, disposed, drains, threads>>

\* archive has read the session and sends its second request, whatever has become of the
\* adapter; what it read is what it will return.
Archive(k) ==
  /\ calls[k].pc = "accepted" /\ calls[k].op = "archive"
  /\ calls' = [calls EXCEPT ![k].op = "archiving", ![k].pc = "sent",
                            ![k].model = Projection(k)]
  /\ UNCHANGED <<aborted, disposed, sessionModels, pending, drains, threads, told>>

-----------------------------------------------------------------------------
(* Retirement                                                              *)

\* drain() waits for the exchanges that are pending now.
Drain(d) ==
  /\ drains[d] = None
  /\ drains' = [drains EXCEPT ![d] = [waits |-> pending \cap Open, owes |-> Open]]
  /\ UNCHANGED <<aborted, disposed, sessionModels, pending, calls, threads, told>>

\* Mutant: drain() ends when nothing is pending.
DrainedQuietly(d) ==
  /\ drains[d] # None /\ pending = {}
  /\ drains' = [drains EXCEPT ![d] = None]
  /\ UNCHANGED <<aborted, disposed, sessionModels, pending, calls, threads, told>>

Drained(d) ==
  /\ drains[d] # None /\ drains[d].waits = {}
  /\ drains' = [drains EXCEPT ![d] = None]
  /\ UNCHANGED <<aborted, disposed, sessionModels, pending, calls, threads, told>>

Abort ==
  /\ ~aborted
  /\ aborted' = TRUE
  /\ UNCHANGED <<disposed, sessionModels, pending, calls, drains, threads, told>>

\* Mutant: what is remembered is cleared before the lifecycle is disposed.
DisposeClearing ==
  /\ disposed = "no"
  /\ disposed' = "begun"
  /\ sessionModels' = [t \in Threads |-> None]
  /\ UNCHANGED <<aborted, pending, calls, drains, threads, told>>

Dispose ==
  /\ disposed = "no"
  /\ disposed' = "begun"
  /\ UNCHANGED <<aborted, sessionModels, pending, calls, drains, threads, told>>

\* The lifecycle is disposed: dispose() goes on.
Disposed ==
  /\ disposed = "begun"
  /\ disposed' = "done"
  /\ sessionModels' = [t \in Threads |-> None]
  /\ UNCHANGED <<aborted, pending, calls, drains, threads, told>>

-----------------------------------------------------------------------------

Resume(k) == Finish(k) \/ Created(k) \/ Archive(k)

Next ==
  \/ \E k \in Calls : Call(k) \/ Serve(k) \/ Accept(k) \/ Fail(k) \/ Resume(k)
  \/ \E d \in Drains : Drain(d) \/ Drained(d)
  \/ Abort \/ Dispose \/ Disposed

\* The broker answers every exchange, a timeout being an answer, and what was awaited goes
\* on.
Fairness ==
  /\ \A k \in Calls : WF_vars(Accept(k) \/ Fail(k)) /\ WF_vars(Resume(k))
  /\ \A d \in Drains : WF_vars(Drained(d))

Spec == Init /\ [][Next]_vars /\ Fairness

-----------------------------------------------------------------------------
(* Properties                                                              *)

\* A drain is over only when every request that was with the broker when it began has been
\* answered, also when some of them fail and new ones are sent meanwhile.
DrainsWait ==
  [][\A d \in Drains : drains[d] # None /\ drains'[d] = None => drains[d].owes = {}]_vars

\* A drain ends although calls go on being made.
DrainsEnd == \A d \in Drains : drains[d] # None ~> drains[d] = None

\* A session the Host had from create keeps its model in every answer to what is asked
\* later, also when the broker does not name it and the adapter is being disposed.
ModelsStayKnown ==
  \A k \in Calls :
    calls[k].pc = "accepted" /\ calls[k].thread \in calls[k].known /\ disposed # "done"
      => Projection(k) = threads[calls[k].thread]
=============================================================================
