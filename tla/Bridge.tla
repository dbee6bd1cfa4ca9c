------------------------------- MODULE Bridge -------------------------------
(***************************************************************************)
(* The running gateway bridge (native/gateway-bridge/main.go).  CLIProxyAPI *)
(* calls it from any number of threads: to configure it, which replaces    *)
(* the plan under a lock, and to execute requests, each of which takes one *)
(* snapshot of the plan and then calls the host.  A stream that was opened *)
(* is forwarded by a goroutine of its own until the upstream ends, fails,  *)
(* or the caller is gone.  One action is the code between two calls of the *)
(* host or two uses of the lock.                                           *)
(***************************************************************************)
EXTENDS BridgePlan

CONSTANTS
  Requests,       \* the requests callers make, each once
  Configs,        \* the configurations CLIProxyAPI may hand over
  MaxChunks       \* bound of the model on the payloads of one stream

ASSUME MaxChunksAssumption == MaxChunks \in Nat

\* The gateway has them materialized: each model is named for the connection that lists it.
ASSUME ConfigsAssumption ==
  \A config \in Configs : \A c \in ConnectionsOf(config) : \A m \in c.models :
    m.gateway[1] = c.id

VARIABLES
  plan,           \* state.plan
  call,           \* each request: where its thread is, what it holds, and, as history,
                  \* how its stream was forwarded
  inForce,        \* history: the plans that were in force since each request came
  upstream,       \* host: the HTTP stream opened for a request
  downstream      \* host: the stream the caller of a request reads

vars == <<plan, call, inForce, upstream, downstream>>

Models == UNION {KnownModels(c) : c \in Configs}

Idle == [pc |-> "idle"]

Init ==
  /\ plan = EmptyPlan
  /\ call = [r \in Requests |-> Idle]
  /\ inForce = [r \in Requests |-> {}]
  /\ upstream = [r \in Requests |-> "none"]
  /\ downstream = [r \in Requests |-> "none"]

At(r, pc) == call[r].pc = pc

Goto(r, pc) == call' = [call EXCEPT ![r].pc = pc]

-----------------------------------------------------------------------------
(* The plan                                                                *)

InForce(config) ==
  /\ plan' = config
  /\ inForce' = [r \in Requests |-> IF At(r, "idle") THEN {} ELSE inForce[r] \cup {config}]
  /\ UNCHANGED <<call, upstream, downstream>>

\* plugin.register and plugin.reconfigure; one that is refused changes nothing.
Configure == \E config \in Configs : Accepts(config) /\ InForce(config)

Shutdown == InForce(EmptyPlan)

-----------------------------------------------------------------------------
(* A request                                                               *)

\* executor.execute and executor.execute_stream come in.
Come(r) ==
  /\ At(r, "idle")
  /\ \E m \in Models, streaming \in BOOLEAN :
       /\ call' = [call EXCEPT ![r] = [pc |-> "prepare", model |-> m, streaming |-> streaming,
                     target |-> Unset, sent |-> Unset, read |-> 0, emitted |-> 0,
                     ended |-> FALSE, refused |-> FALSE]]
       /\ downstream' = [downstream EXCEPT ![r] = IF streaming THEN "open" ELSE "none"]
  /\ inForce' = [inForce EXCEPT ![r] = {plan}]
  /\ UNCHANGED <<plan, upstream>>

\* prepare: on one snapshot of the plan.
Snapshot(r) ==
  /\ At(r, "prepare")
  /\ LET prepared == Prepare(plan, call[r].model) IN
       call' = [call EXCEPT ![r].target = prepared,
                  ![r].pc = IF prepared.status = "ok" THEN "send" ELSE "failed"]
  /\ UNCHANGED <<plan, inForce, upstream, downstream>>

\* outboundRequest may still refuse the body, its session or its transforms.
Refuse(r) ==
  /\ At(r, "send")
  /\ Goto(r, "failed")
  /\ UNCHANGED <<plan, inForce, upstream, downstream>>

\* Mutant: the adapter is looked up again when the request is sent.
SendRereading(r) ==
  /\ At(r, "send")
  /\ \E next \in {"failed"} \cup (IF call[r].streaming THEN {"reject", "read"} ELSE {"returned"}) :
       /\ call' = [call EXCEPT ![r].pc = next,
                     ![r].sent = [call[r].target EXCEPT
                                    !.adapter = Prepare(plan, call[r].model).adapter]]
       /\ upstream' = [upstream EXCEPT ![r] = IF next \in {"reject", "read"} THEN "open" ELSE @]
  /\ UNCHANGED <<plan, inForce, downstream>>

\* host.http.do, or host.http.do_stream: the request goes upstream.  The answer is an
\* error, a status the bridge rejects, or a success.
Send(r) ==
  /\ At(r, "send")
  /\ \E next \in {"failed"} \cup (IF call[r].streaming THEN {"reject", "read"} ELSE {"returned"}) :
       /\ call' = [call EXCEPT ![r].sent = call[r].target, ![r].pc = next]
       /\ upstream' = [upstream EXCEPT ![r] = IF next \in {"reject", "read"} THEN "open" ELSE @]
  /\ UNCHANGED <<plan, inForce, downstream>>

\* Mutant: a rejected stream is only reported.
RejectWithoutClose(r) ==
  /\ At(r, "reject")
  /\ Goto(r, "failed")
  /\ UNCHANGED <<plan, inForce, upstream, downstream>>

\* host.http.stream_close for a stream whose status was rejected.
Reject(r) ==
  /\ At(r, "reject")
  /\ upstream' = [upstream EXCEPT ![r] = "closed"]
  /\ Goto(r, "failed")
  /\ UNCHANGED <<plan, inForce, downstream>>

-----------------------------------------------------------------------------
(* forwardStream                                                           *)

\* host.http.stream_read: the call fails, or its answer is an error, a payload, the
\* end, or a payload and the end at once.
Read(r) ==
  /\ At(r, "read")
  /\ \/ Goto(r, "tell")
     \/ /\ call[r].read < MaxChunks
        /\ \E last \in BOOLEAN :
             call' = [call EXCEPT ![r].read = @ + 1, ![r].ended = last, ![r].pc = "emit"]
     \/ call' = [call EXCEPT ![r].ended = TRUE, ![r].pc = "closeUpstream"]
  /\ UNCHANGED <<plan, inForce, upstream, downstream>>

\* Mutant: the error is left to the deferred close.
TellNobody(r) ==
  /\ At(r, "tell")
  /\ Goto(r, "closeUpstream")
  /\ UNCHANGED <<plan, inForce, upstream, downstream>>

\* A call of the host about the stream of the caller failed, with the caller there or
\* gone.  Nothing else is told to it: the deferred calls follow.
HostRefuses(r) ==
  call' = [call EXCEPT ![r].refused = (downstream[r] = "open"), ![r].pc = "closeUpstream"]

\* host.stream.close with the error; whether it fails is not looked at.
Tell(r) ==
  /\ At(r, "tell")
  /\ \/ /\ downstream' = [downstream EXCEPT ![r] = IF @ = "open" THEN "failed" ELSE @]
        /\ Goto(r, "closeUpstream")
     \/ /\ HostRefuses(r)
        /\ UNCHANGED downstream
  /\ UNCHANGED <<plan, inForce, upstream>>

\* host.stream.emit: it fails when nobody reads the stream any more, and may fail when
\* somebody does; either way the payload is dropped and forwardStream returns.
Emit(r) ==
  /\ At(r, "emit")
  /\ \/ /\ downstream[r] = "open"
        /\ call' = [call EXCEPT ![r].emitted = @ + 1,
                       ![r].pc = IF call[r].ended THEN "closeUpstream" ELSE "read"]
     \/ HostRefuses(r)
  /\ UNCHANGED <<plan, inForce, upstream, downstream>>

\* The deferred calls: host.http.stream_close, then host.stream.close, which does
\* nothing to a stream that was closed before.
CloseUpstream(r) ==
  /\ At(r, "closeUpstream")
  /\ upstream' = [upstream EXCEPT ![r] = "closed"]
  /\ Goto(r, "closeDownstream")
  /\ UNCHANGED <<plan, inForce, downstream>>

CloseDownstream(r) ==
  /\ At(r, "closeDownstream")
  /\ downstream' = [downstream EXCEPT ![r] = IF @ = "open" THEN "complete" ELSE @]
  /\ Goto(r, "returned")
  /\ UNCHANGED <<plan, inForce, upstream>>

\* The caller goes away: the host closes its stream.
CallerGone(r) ==
  /\ downstream[r] = "open"
  /\ downstream' = [downstream EXCEPT ![r] = "gone"]
  /\ UNCHANGED <<plan, call, inForce, upstream>>

\* What the thread or the goroutine of a request does next.
Proceed(r) ==
  \/ Snapshot(r) \/ Refuse(r) \/ Send(r) \/ Reject(r)
  \/ Read(r) \/ Tell(r) \/ Emit(r) \/ CloseUpstream(r) \/ CloseDownstream(r)

Next ==
  \/ Configure
  \/ Shutdown
  \/ \E r \in Requests : Come(r) \/ Proceed(r) \/ CallerGone(r)

\* Threads and goroutines are scheduled, and the host answers every call.
Spec == Init /\ [][Next]_vars /\ \A r \in Requests : WF_vars(Proceed(r))

-----------------------------------------------------------------------------
(* Properties                                                              *)

Started(r) == ~At(r, "idle")

\* What goes upstream is one plan's: the endpoint, the credential and the adapter of
\* a request belong together, and to a plan that was in force, and served the model,
\* while the request was made, however often the bridge was configured meanwhile.
SentUnderOnePlan ==
  \A r \in Requests : Started(r) /\ call[r].sent # Unset =>
    \E p \in inForce[r] : /\ call[r].model \in StaticModels(p)
                          /\ call[r].sent = Prepare(p, call[r].model)

\* A caller that sees its stream end without an error got all of it: the upstream had
\* ended, and every payload read from it was passed on.  An error told first is not
\* undone by the second, deferred close.  Only a call of the host that fails while the
\* caller is there breaks this: the deferred close then ends the stream as if it were
\* complete, and what the caller has is all that was read, or all but the last payload.
CompleteMeansComplete ==
  \A r \in Requests : downstream[r] = "complete" =>
    \/ call[r].ended /\ call[r].emitted = call[r].read
    \/ call[r].refused /\ call[r].read - call[r].emitted \in {0, 1}

\* No upstream stream is left open: whenever one was opened, whoever fails or leaves,
\* it is closed in the end.
UpstreamStreamsClose ==
  \A r \in Requests : upstream[r] = "open" ~> upstream[r] = "closed"
=============================================================================
