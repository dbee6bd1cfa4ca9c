---------------------------- MODULE BridgeProofs ----------------------------
(***************************************************************************)
(* That a request goes upstream under one plan, and that a stream that     *)
(* ends without an error was forwarded whole, unless a call of the host    *)
(* about it failed, for any number of requests, configurations and         *)
(* payloads.                                                               *)
(*                                                                         *)
(* For the plan: what a request is about to send was prepared by a plan    *)
(* that was in force since it came, and a plan that is in force was        *)
(* accepted, so that the model of a prepared request is one it lists.  For *)
(* the stream: where forwardStream is says how much of what was read has   *)
(* been passed on, and whether the stream may still be open.               *)
(***************************************************************************)
EXTENDS Bridge, TLAPS

\* The plans that may be in force.
Plans == {EmptyPlan} \cup {config \in Configs : Accepts(config)}

Targets == {Unset} \cup {Prepare(p, m) : p \in Plans, m \in Models}

CallType ==
  [pc : {"prepare", "send", "reject", "read", "tell", "emit", "closeUpstream",
         "closeDownstream", "returned", "failed"},
   model : Models, streaming : BOOLEAN, target : Targets, sent : Targets,
   read : Nat, emitted : Nat, ended : BOOLEAN, refused : BOOLEAN]

Streams == {"none", "open", "failed", "gone", "complete"}

TypeInv ==
  /\ plan \in Plans
  /\ call \in [Requests -> {Idle} \cup CallType]
  /\ inForce \in [Requests -> SUBSET Plans]
  /\ downstream \in [Requests -> Streams]

\* x is what a plan that was in force since the request r came, and lists its model m,
\* answers.
Prepared(r, m, x) == \E p \in inForce[r] : m \in StaticModels(p) /\ x = Prepare(p, m)

\* A request c that is about to go upstream, or went, was prepared by one of these plans.
Planned(r, c) ==
  /\ c.pc = "send" => Prepared(r, c.model, c.target)
  /\ c.sent # Unset => Prepared(r, c.model, c.sent)

Whole(c) == c.emitted = c.read

\* One payload was read and not passed on.
OneShort(c) == c.read = c.emitted + 1

\* How much of the stream the caller of c has when it is ended without an error.
Ends(c) ==
  \/ c.ended /\ Whole(c)
  \/ c.refused /\ (Whole(c) \/ OneShort(c))

\* How far a request c has forwarded its stream, which is in the state s.
Forwarded(c, s) ==
  /\ c.pc \in {"prepare", "send", "reject", "read", "tell"} => Whole(c)
  /\ c.pc = "emit" => OneShort(c)
  /\ c.pc \in {"closeUpstream", "closeDownstream"} /\ s = "open" => Ends(c)
  /\ s = "complete" => c.pc = "returned" /\ Ends(c)

RequestInv(r) ==
  \/ call[r] = Idle /\ downstream[r] = "none"
  \/ /\ call[r] \in CallType
     /\ plan \in inForce[r]
     /\ Planned(r, call[r])
     /\ Forwarded(call[r], downstream[r])

BridgeInv == TypeInv /\ \A r \in Requests : RequestInv(r)

-----------------------------------------------------------------------------
(* The plan                                                                *)

\* A request that is prepared (prepare of main.go) is for a model the plan lists, and has
\* the plan's only connection of that name.
LEMMA PrepareServes ==
  ASSUME NEW p \in Plans, NEW m, Prepare(p, m).status = "ok"
  PROVE  m \in StaticModels(p)
<1> DEFINE c == CHOOSE d \in ConnectionsOf(p) : d.id = m[1]
<1>1. Handles(p, m) /\ Ready(p, c)
  BY DEF Prepare, Refusal
<1>2. PICK d, n : d \in ConnectionsOf(p) /\ n \in d.models /\ n.gateway = m
  BY <1>1 DEF Handles, KnownModels
<1>3. p \in Configs /\ Accepts(p)
  BY <1>2 DEF Plans, EmptyPlan, ConnectionsOf, ToSet
<1>4. d.id = m[1]
  BY <1>2, <1>3, ConfigsAssumption
<1>5. c \in ConnectionsOf(p) /\ c.id = m[1]
  BY <1>2, <1>4
<1>6. c = d
  BY <1>2, <1>3, <1>4, <1>5 DEF Accepts, ConnectionsOf, ToSet
<1> QED BY <1>1, <1>2, <1>6 DEF StaticModels

\* A plan that is put in force is one since every request that came.
LEMMA InForceKeeps ==
  ASSUME BridgeInv, NEW config \in Plans, InForce(config)
  PROVE  BridgeInv'
<1>1. /\ plan' = config
      /\ UNCHANGED <<call, downstream>>
      /\ inForce' = [r \in Requests |-> IF At(r, "idle") THEN {} ELSE inForce[r] \cup {config}]
  BY DEF InForce
<1>2. TypeInv'
  BY <1>1 DEF BridgeInv, TypeInv
<1>3. ASSUME NEW r \in Requests
      PROVE  RequestInv(r)'
  <2>1. RequestInv(r)
    BY DEF BridgeInv
  <2>2. CASE call[r] = Idle /\ downstream[r] = "none"
    BY <1>1, <2>2 DEF RequestInv
  <2>3. CASE call[r] \in CallType
    <3>1. ~At(r, "idle") /\ call[r] # Idle
      BY <2>3 DEF At, CallType, Idle
    <3>2. inForce'[r] = inForce[r] \cup {config}
      BY <1>1, <3>1
    <3>3. /\ Planned(r, call[r])
          /\ Forwarded(call[r], downstream[r])
      BY <2>1, <3>1 DEF RequestInv
    <3>4. PICK c : c = call[r] /\ c = call'[r]
      BY <1>1
    <3>5. Planned(r, c)'
      BY <3>2, <3>3, <3>4 DEF Planned, Prepared
    <3>6. (call[r] \in CallType /\ plan \in inForce[r] /\ Planned(r, call[r]))'
      BY <1>1, <2>3, <3>2, <3>4, <3>5 DEF CallType
    <3>7. Forwarded(call[r], downstream[r])'
      BY <1>1, <3>3 DEF Forwarded, Ends, Whole, OneShort
    <3> QED BY <3>6, <3>7 DEF RequestInv
  <2> QED BY <2>1, <2>2, <2>3 DEF RequestInv
<1> QED BY <1>2, <1>3 DEF BridgeInv

-----------------------------------------------------------------------------
(* A request                                                               *)

\* The request r, which is c now, becomes d, and its stream ds.
Becomes(r, c, d, ds) ==
  /\ c \in CallType /\ c = call[r]
  /\ d \in CallType /\ ds \in Streams
  /\ call' = [call EXCEPT ![r] = d]
  /\ downstream' = [downstream EXCEPT ![r] = ds]
  /\ UNCHANGED <<plan, inForce>>

\* Where one request goes on, the others stay as they are.
LEMMA OthersKeep ==
  ASSUME BridgeInv, NEW r \in Requests, NEW q \in Requests \ {r},
         call'[q] = call[q], downstream'[q] = downstream[q], inForce'[q] = inForce[q],
         UNCHANGED plan
  PROVE  RequestInv(q)'
<1>1. RequestInv(q)
  BY DEF BridgeInv
<1>2. CASE call[q] = Idle /\ downstream[q] = "none"
  BY <1>2 DEF RequestInv
<1>3. CASE /\ call[q] \in CallType /\ plan \in inForce[q]
           /\ Planned(q, call[q]) /\ Forwarded(call[q], downstream[q])
  <2>1. PICK c : c = call[q] /\ c = call'[q]
    OBVIOUS
  <2>2. Planned(q, c)'
    BY <1>3, <2>1 DEF Planned, Prepared
  <2>3. (Planned(q, call[q]) /\ Forwarded(call[q], downstream[q]))'
    BY <1>3, <2>1, <2>2 DEF Forwarded, Ends, Whole, OneShort
  <2> QED BY <1>3, <2>3 DEF RequestInv
<1> QED BY <1>1, <1>2, <1>3 DEF RequestInv

\* A request that goes on keeps the invariant if what it becomes does.
LEMMA RequestGoesOn ==
  ASSUME BridgeInv, NEW r \in Requests, NEW c, NEW d, NEW ds, Becomes(r, c, d, ds),
         Planned(r, d), Forwarded(d, ds)
  PROVE  BridgeInv'
<1>1. /\ call'[r] = d /\ downstream'[r] = ds
      /\ \A q \in Requests \ {r} : call'[q] = call[q] /\ downstream'[q] = downstream[q]
      /\ UNCHANGED <<plan, inForce>>
  BY DEF Becomes, BridgeInv, TypeInv
<1>2. TypeInv'
  BY DEF Becomes, BridgeInv, TypeInv
<1>3. RequestInv(r)'
  <2>1. plan \in inForce[r]
    BY DEF BridgeInv, RequestInv, Becomes, CallType, Idle
  <2>2. Planned(r, d)'
    BY <1>1 DEF Planned, Prepared
  <2>3. (Planned(r, call[r]) /\ Forwarded(call[r], downstream[r]))'
    BY <1>1, <2>2 DEF Forwarded, Ends, Whole, OneShort
  <2> QED BY <1>1, <2>1, <2>3 DEF RequestInv, Becomes
<1>4. ASSUME NEW q \in Requests \ {r}
      PROVE  RequestInv(q)'
  BY <1>1, OthersKeep
<1> QED BY <1>2, <1>3, <1>4 DEF BridgeInv

\* A request comes in under the plan that is in force.
LEMMA ComeKeeps ==
  ASSUME BridgeInv, NEW r \in Requests, Come(r)
  PROVE  BridgeInv'
<1>1. PICK m \in Models, streaming \in BOOLEAN :
        /\ call' = [call EXCEPT ![r] = [pc |-> "prepare", model |-> m,
                      streaming |-> streaming, target |-> Unset, sent |-> Unset, read |-> 0,
                      emitted |-> 0, ended |-> FALSE, refused |-> FALSE]]
        /\ downstream' = [downstream EXCEPT ![r] = IF streaming THEN "open" ELSE "none"]
  BY DEF Come
<1>2. /\ inForce' = [inForce EXCEPT ![r] = {plan}]
      /\ UNCHANGED plan
  BY DEF Come
<1>3. /\ call \in [Requests -> {Idle} \cup CallType]
      /\ downstream \in [Requests -> Streams]
      /\ inForce \in [Requests -> SUBSET Plans]
      /\ plan \in Plans
  BY DEF BridgeInv, TypeInv
<1>4. PICK d : d = [pc |-> "prepare", model |-> m, streaming |-> streaming,
                    target |-> Unset, sent |-> Unset, read |-> 0, emitted |-> 0,
                    ended |-> FALSE, refused |-> FALSE]
  OBVIOUS
<1>5. d \in CallType
  BY <1>4 DEF CallType, Targets
<1>6. TypeInv'
  BY <1>1, <1>2, <1>3, <1>4, <1>5 DEF TypeInv, Streams
<1>7. call'[r] = d /\ inForce'[r] = {plan} /\ downstream'[r] \in {"open", "none"}
  BY <1>1, <1>2, <1>3, <1>4
<1>8. RequestInv(r)'
  BY <1>2, <1>4, <1>5, <1>7 DEF RequestInv, Planned, Forwarded, Ends, Whole, OneShort
<1>9. ASSUME NEW q \in Requests \ {r}
      PROVE  RequestInv(q)'
  BY <1>1, <1>2, <1>3, OthersKeep
<1> QED BY <1>6, <1>8, <1>9 DEF BridgeInv

\* prepare works on one snapshot of the plan, which is in force.
LEMMA SnapshotKeeps ==
  ASSUME BridgeInv, NEW r \in Requests, NEW c \in CallType, c = call[r], plan \in inForce[r],
         Forwarded(c, downstream[r]), Planned(r, c), Snapshot(r)
  PROVE  BridgeInv'
<1>1. PICK x : x = Prepare(plan, c.model)
  OBVIOUS
<1>2. PICK d : d = [pc |-> IF x.status = "ok" THEN "send" ELSE "failed",
                    model |-> c.model, streaming |-> c.streaming, target |-> x,
                    sent |-> c.sent, read |-> c.read, emitted |-> c.emitted,
                    ended |-> c.ended, refused |-> c.refused]
  OBVIOUS
<1>3. /\ c.pc = "prepare"
      /\ call' = [call EXCEPT ![r].target = x,
                    ![r].pc = IF x.status = "ok" THEN "send" ELSE "failed"]
      /\ UNCHANGED <<plan, inForce, downstream>>
  BY <1>1 DEF Snapshot, At
<1>4. call \in [Requests -> {Idle} \cup CallType] /\ downstream \in [Requests -> Streams]
      /\ plan \in Plans
  BY DEF BridgeInv, TypeInv
<1>5. x \in Targets
  BY <1>1, <1>4 DEF Targets, CallType
<1>6. d \in CallType
  BY <1>2, <1>5 DEF CallType
<1>7. call' = [call EXCEPT ![r] = d]
  <2>1. /\ call = [q \in Requests |-> call[q]]
        /\ call' = [q \in Requests |-> call'[q]]
        /\ \A q \in Requests \ {r} : call'[q] = call[q]
    BY <1>3, <1>4, Zenon
  <2>2. call'[r] = d
    BY <1>2, <1>3, <1>4 DEF CallType
  <2> QED BY <2>1, <2>2
<1>8. Becomes(r, c, d, downstream[r])
  BY <1>3, <1>4, <1>6, <1>7 DEF Becomes
<1>9. x.status = "ok" => c.model \in StaticModels(plan)
  BY <1>1, <1>4, PrepareServes
<1>10. Planned(r, d)
  BY <1>1, <1>2, <1>9 DEF Planned, Prepared
<1>11. Forwarded(d, downstream[r])
  BY <1>2, <1>3 DEF Forwarded, Ends, Whole, OneShort
<1> QED BY <1>8, <1>10, <1>11, RequestGoesOn

\* Sending a request sends what was prepared for it, not what a later plan says.
LEMMA SendKeeps ==
  ASSUME BridgeInv, NEW r \in Requests, NEW c \in CallType, c = call[r],
         Forwarded(c, downstream[r]), Planned(r, c), Send(r)
  PROVE  BridgeInv'
<1>1. PICK next \in {"failed", "reject", "read", "returned"} :
        call' = [call EXCEPT ![r].sent = call[r].target, ![r].pc = next]
  BY DEF Send
<1>2. /\ c.pc = "send"
      /\ UNCHANGED <<plan, inForce, downstream>>
  BY DEF Send, At
<1>3. PICK d : d = [pc |-> next, model |-> c.model, streaming |-> c.streaming,
                    target |-> c.target, sent |-> c.target, read |-> c.read,
                    emitted |-> c.emitted, ended |-> c.ended, refused |-> c.refused]
  OBVIOUS
<1>4. call \in [Requests -> {Idle} \cup CallType] /\ downstream \in [Requests -> Streams]
  BY DEF BridgeInv, TypeInv
<1>5. d \in CallType
  BY <1>3 DEF CallType
<1>6. call' = [call EXCEPT ![r] = d]
  <2>1. /\ call = [q \in Requests |-> call[q]]
        /\ call' = [q \in Requests |-> call'[q]]
        /\ \A q \in Requests \ {r} : call'[q] = call[q]
    BY <1>1, <1>4, Zenon
  <2>2. call'[r] = d
    BY <1>1, <1>3, <1>4 DEF CallType
  <2> QED BY <2>1, <2>2
<1>7. Becomes(r, c, d, downstream[r])
  BY <1>2, <1>4, <1>5, <1>6 DEF Becomes
<1>8. Planned(r, d) /\ Forwarded(d, downstream[r])
  BY <1>2, <1>3 DEF Planned, Prepared, Forwarded, Ends, Whole, OneShort
<1> QED BY <1>7, <1>8, RequestGoesOn

\* What is read is passed on before anything else is read (Read and Emit of forwardStream).
LEMMA ReadKeeps ==
  ASSUME BridgeInv, NEW r \in Requests, NEW c \in CallType, c = call[r],
         Forwarded(c, downstream[r]), Planned(r, c), Read(r) \/ Emit(r)
  PROVE  BridgeInv'
<1>1. call \in [Requests -> {Idle} \cup CallType] /\ downstream \in [Requests -> Streams]
  BY DEF BridgeInv, TypeInv
<1>2. /\ UNCHANGED <<plan, inForce, downstream>>
      /\ c.pc \in {"read", "emit"}
      /\ c.read \in Nat /\ c.emitted \in Nat
  BY DEF Read, Emit, At, CallType
<1>3. /\ call = [q \in Requests |-> call[q]]
      /\ call' = [q \in Requests |-> call'[q]]
      /\ \A q \in Requests \ {r} : call'[q] = call[q]
  BY <1>1, Zenon DEF Read, Emit, HostRefuses, Goto
<1>4. SUFFICES ASSUME NEW d \in CallType, call'[r] = d,
                      d.model = c.model, d.sent = c.sent, d.pc # "send",
                      Forwarded(d, downstream[r])
               PROVE  BridgeInv'
  <2>1. SUFFICES \E d \in CallType :
          /\ call'[r] = d /\ d.model = c.model /\ d.sent = c.sent /\ d.pc # "send"
          /\ Forwarded(d, downstream[r])
    OBVIOUS
  <2> DEFINE D(next, read, emitted, ended, refused) ==
        [pc |-> next, model |-> c.model, streaming |-> c.streaming, target |-> c.target,
         sent |-> c.sent, read |-> read, emitted |-> emitted, ended |-> ended,
         refused |-> refused]
  <2>2. downstream[r] # "complete"
    BY <1>2 DEF Forwarded
  <2>3. CASE Read(r)
    <3>1. c.pc = "read" /\ c.emitted = c.read
      BY <2>3 DEF Read, At, Forwarded, Whole
    <3>2. CASE Goto(r, "tell")
      <4>1. call'[r] = D("tell", c.read, c.emitted, c.ended, c.refused)
        BY <1>1, <3>2 DEF Goto, CallType
      <4>2. D("tell", c.read, c.emitted, c.ended, c.refused) \in CallType
        BY DEF CallType
      <4>3. Forwarded(D("tell", c.read, c.emitted, c.ended, c.refused), downstream[r])
        BY <2>2, <3>1 DEF Forwarded, Whole
      <4> QED BY <4>1, <4>2, <4>3
    <3>3. ASSUME NEW last \in BOOLEAN,
                 call' = [call EXCEPT ![r].read = @ + 1, ![r].ended = last,
                                      ![r].pc = "emit"]
          PROVE  \E d \in CallType :
                   /\ call'[r] = d /\ d.model = c.model /\ d.sent = c.sent /\ d.pc # "send"
                   /\ Forwarded(d, downstream[r])
      <4>1. call'[r] = D("emit", c.read + 1, c.emitted, last, c.refused)
        BY <1>1, <3>3 DEF CallType
      <4>2. D("emit", c.read + 1, c.emitted, last, c.refused) \in CallType
        BY <1>2 DEF CallType
      <4>3. Forwarded(D("emit", c.read + 1, c.emitted, last, c.refused), downstream[r])
        BY <2>2, <3>1 DEF Forwarded, OneShort
      <4> QED BY <4>1, <4>2, <4>3
    <3>4. CASE call' = [call EXCEPT ![r].ended = TRUE, ![r].pc = "closeUpstream"]
      <4>1. call'[r] = D("closeUpstream", c.read, c.emitted, TRUE, c.refused)
        BY <1>1, <3>4 DEF CallType
      <4>2. D("closeUpstream", c.read, c.emitted, TRUE, c.refused) \in CallType
        BY <1>2 DEF CallType
      <4>3. Forwarded(D("closeUpstream", c.read, c.emitted, TRUE, c.refused), downstream[r])
        BY <2>2, <3>1 DEF Forwarded, Ends, Whole, OneShort
      <4> QED BY <4>1, <4>2, <4>3
    <3> HIDE DEF D
    <3> QED BY <2>3, <3>2, <3>3, <3>4 DEF Read
  <2>4. CASE Emit(r)
    <3>1. c.pc = "emit" /\ c.read = c.emitted + 1
      BY <2>4 DEF Emit, At, Forwarded, OneShort
    <3>2. CASE /\ downstream[r] = "open"
               /\ call' = [call EXCEPT ![r].emitted = @ + 1,
                             ![r].pc = IF call[r].ended THEN "closeUpstream" ELSE "read"]
      <4> DEFINE next == IF c.ended THEN "closeUpstream" ELSE "read"
      <4>1. call'[r] = D(next, c.read, c.emitted + 1, c.ended, c.refused)
        BY <1>1, <3>2 DEF CallType
      <4>2. D(next, c.read, c.emitted + 1, c.ended, c.refused) \in CallType
        BY <1>2 DEF CallType
      <4>3. Forwarded(D(next, c.read, c.emitted + 1, c.ended, c.refused), downstream[r])
        BY <2>2, <3>1 DEF Forwarded, Ends, Whole
      <4> QED BY <4>1, <4>2, <4>3
    <3>3. CASE HostRefuses(r)
      <4> DEFINE refused == downstream[r] = "open"
      <4>1. call'[r] = D("closeUpstream", c.read, c.emitted, c.ended, refused)
        BY <1>1, <3>3 DEF HostRefuses, CallType
      <4>2. D("closeUpstream", c.read, c.emitted, c.ended, refused) \in CallType
        BY <1>2 DEF CallType
      <4>3. Forwarded(D("closeUpstream", c.read, c.emitted, c.ended, refused), downstream[r])
        BY <2>2, <3>1 DEF Forwarded, Ends, OneShort
      <4> QED BY <4>1, <4>2, <4>3
    <3> QED BY <2>4, <3>2, <3>3 DEF Emit
  <2> QED BY <2>3, <2>4
<1>5. Becomes(r, c, d, downstream[r])
  BY <1>1, <1>2, <1>3, <1>4 DEF Becomes
<1>6. Planned(r, d)
  BY <1>4 DEF Planned
<1> QED BY <1>4, <1>5, <1>6, RequestGoesOn

\* The request r, which is c now, goes to next, with or without a call of the host refused,
\* and its stream becomes ds.
Moves(r, c, next, refused, ds) ==
  /\ call' = [call EXCEPT ![r].refused = refused, ![r].pc = next]
  /\ downstream' = [downstream EXCEPT ![r] = ds]
  /\ UNCHANGED <<plan, inForce>>
  /\ \/ /\ next = "failed" /\ c.pc \in {"send", "reject"} /\ ds = downstream[r]
        /\ refused = c.refused
     \/ /\ next = "closeUpstream" /\ c.pc = "tell"
        /\ \/ ds = downstream[r] /\ refused = (downstream[r] = "open")
           \/ /\ ds = IF downstream[r] = "open" THEN "failed" ELSE downstream[r]
              /\ refused = c.refused
     \/ /\ next = "closeDownstream" /\ c.pc = "closeUpstream" /\ ds = downstream[r]
        /\ refused = c.refused
     \/ /\ next = "returned" /\ c.pc = "closeDownstream"
        /\ ds = IF downstream[r] = "open" THEN "complete" ELSE downstream[r]
        /\ refused = c.refused
     \/ next = c.pc /\ ds = "gone" /\ downstream[r] = "open" /\ refused = c.refused

\* The other steps move a request on, or close its streams, and change nothing else of it.
LEMMA ClosingKeeps ==
  ASSUME BridgeInv, NEW r \in Requests, NEW c \in CallType, c = call[r],
         Forwarded(c, downstream[r]), Planned(r, c),
         \/ Refuse(r) \/ Reject(r) \/ Tell(r) \/ CloseUpstream(r) \/ CloseDownstream(r)
         \/ CallerGone(r)
  PROVE  BridgeInv'
<1>1. call \in [Requests -> {Idle} \cup CallType] /\ downstream \in [Requests -> Streams]
  BY DEF BridgeInv, TypeInv
<1>2. PICK next, refused, ds : refused \in BOOLEAN /\ Moves(r, c, next, refused, ds)
  <2>1. downstream = [downstream EXCEPT ![r] = downstream[r]]
    BY <1>1
  <2>2. c.refused \in BOOLEAN
    BY DEF CallType
  <2>3. ASSUME NEW next, Goto(r, next)
        PROVE  call' = [call EXCEPT ![r].refused = c.refused, ![r].pc = next]
    BY <1>1, <2>3 DEF Goto, CallType
  <2>4. CASE Refuse(r) \/ Reject(r)
    <3>1. Moves(r, c, "failed", c.refused, downstream[r])
      BY <2>1, <2>3, <2>4 DEF Refuse, Reject, At, Moves
    <3> QED BY <2>2, <3>1
  <2>5. CASE CloseUpstream(r)
    <3>1. Moves(r, c, "closeDownstream", c.refused, downstream[r])
      BY <2>1, <2>3, <2>5 DEF CloseUpstream, At, Moves
    <3> QED BY <2>2, <3>1
  <2>6. CASE CloseDownstream(r)
    <3>1. Moves(r, c, "returned", c.refused,
                IF downstream[r] = "open" THEN "complete" ELSE downstream[r])
      BY <2>3, <2>6 DEF CloseDownstream, At, Moves
    <3> QED BY <2>2, <3>1
  <2>7. CASE Tell(r) /\ Goto(r, "closeUpstream")
                     /\ downstream' = [downstream EXCEPT ![r] = IF @ = "open" THEN "failed" ELSE @]
    <3>1. Moves(r, c, "closeUpstream", c.refused,
                IF downstream[r] = "open" THEN "failed" ELSE downstream[r])
      BY <2>3, <2>7 DEF Tell, At, Moves
    <3> QED BY <2>2, <3>1
  <2>8. CASE Tell(r) /\ HostRefuses(r) /\ UNCHANGED downstream
    <3>1. PICK refused \in BOOLEAN : refused = (downstream[r] = "open")
      OBVIOUS
    <3>2. Moves(r, c, "closeUpstream", refused, downstream[r])
      BY <2>1, <2>8, <3>1 DEF Tell, HostRefuses, At, Moves
    <3> QED BY <3>2
  <2>9. CASE CallerGone(r)
    <3>1. call' = [call EXCEPT ![r].refused = c.refused, ![r].pc = c.pc]
      BY <1>1, <2>9 DEF CallerGone, CallType
    <3>2. Moves(r, c, c.pc, c.refused, "gone")
      BY <2>9, <3>1 DEF CallerGone, Moves
    <3> QED BY <2>2, <3>2
  <2> QED BY <2>4, <2>5, <2>6, <2>7, <2>8, <2>9 DEF Tell
<1>3. PICK d : d = [c EXCEPT !.refused = refused, !.pc = next]
  OBVIOUS
<1>4. d \in CallType /\ ds \in Streams
  BY <1>1, <1>2, <1>3 DEF CallType, Streams, Moves
<1>5. call' = [call EXCEPT ![r] = d]
  BY <1>2, <1>3 DEF Moves
<1>6. Becomes(r, c, d, ds)
  BY <1>2, <1>4, <1>5 DEF Becomes, Moves
<1>7. /\ d.pc = next /\ d.model = c.model /\ d.target = c.target /\ d.sent = c.sent
      /\ d.read = c.read /\ d.emitted = c.emitted /\ d.ended = c.ended
      /\ d.refused = refused
  BY <1>3 DEF CallType
<1>8. Planned(r, d)
  BY <1>2, <1>7 DEF Planned, Prepared, Moves
<1>9. Forwarded(d, ds)
  BY <1>2, <1>7 DEF Forwarded, Ends, Whole, OneShort, Moves
<1> QED BY <1>6, <1>8, <1>9, RequestGoesOn

-----------------------------------------------------------------------------
(* The invariant                                                           *)

\* The bridge has its invariant before it is configured.
LEMMA InitBridge == Init => BridgeInv
BY DEF Init, BridgeInv, TypeInv, RequestInv, Plans, Streams

\* Every step keeps it.
LEMMA NextBridge ==
  ASSUME BridgeInv, [Next]_vars
  PROVE  BridgeInv'
<1>1. CASE UNCHANGED vars
  <2>1. ASSUME NEW r \in Requests
        PROVE  RequestInv(r)'
    <3>1. RequestInv(r) /\ UNCHANGED <<plan, call, inForce, downstream>>
      BY <1>1 DEF BridgeInv, vars
    <3> QED BY <3>1 DEF RequestInv, Planned, Prepared, Forwarded, Ends, Whole, OneShort
  <2>2. TypeInv'
    BY <1>1 DEF BridgeInv, TypeInv, vars
  <2> QED BY <2>1, <2>2 DEF BridgeInv
<1>2. CASE Configure \/ Shutdown
  BY <1>2, InForceKeeps DEF Configure, Shutdown, Plans
<1>3. ASSUME NEW r \in Requests, Proceed(r) \/ CallerGone(r)
      PROVE  BridgeInv'
  <2>1. call[r] # Idle \/ downstream[r] = "open"
    <3>1. Proceed(r) => call[r].pc # "idle"
      BY Zenon DEF Proceed, Snapshot, Refuse, Send, Reject, Read, Tell, Emit, CloseUpstream,
                   CloseDownstream, At
    <3>2. CallerGone(r) => downstream[r] = "open"
      BY DEF CallerGone
    <3> QED BY <1>3, <3>1, <3>2 DEF Idle
  <2>2. /\ call[r] \in CallType /\ plan \in inForce[r]
        /\ Planned(r, call[r]) /\ Forwarded(call[r], downstream[r])
    BY <2>1 DEF BridgeInv, RequestInv
  <2> QED BY <1>3, <2>2, SnapshotKeeps, SendKeeps, ReadKeeps, ClosingKeeps DEF Proceed
<1> QED BY <1>1, <1>2, <1>3, ComeKeeps DEF Next

\* The invariant of the bridge: requests are prepared by plans that were in force, and
\* streams are forwarded payload by payload.
THEOREM Inductive == Spec => []BridgeInv
BY InitBridge, NextBridge, PTL DEF Spec

\* What goes upstream (prepare, outboundRequest) belongs to one plan that was in force, and
\* served the model, while the request was made, however often the bridge is configured.
THEOREM OnePlan == Spec => []SentUnderOnePlan
<1>1. BridgeInv => SentUnderOnePlan
  BY DEF BridgeInv, RequestInv, Planned, Prepared, SentUnderOnePlan, Started, At, Idle
<1> QED BY <1>1, Inductive, PTL

\* A stream that ends without an error (forwardStream) was forwarded whole, to its end;
\* or a call of the host about it failed, and at most its last payload is missing.
THEOREM CompleteStreams == Spec => []CompleteMeansComplete
<1>1. ASSUME BridgeInv, NEW r \in Requests, downstream[r] = "complete"
      PROVE  \/ call[r].ended /\ call[r].emitted = call[r].read
             \/ call[r].refused /\ call[r].read - call[r].emitted \in {0, 1}
  <2>1. call[r] \in CallType /\ Ends(call[r])
    BY <1>1 DEF BridgeInv, RequestInv, Forwarded
  <2>2. call[r].read \in Nat /\ call[r].emitted \in Nat
    BY <2>1 DEF CallType
  <2> QED BY <2>1, <2>2 DEF Ends, Whole, OneShort
<1>2. BridgeInv => CompleteMeansComplete
  BY <1>1 DEF CompleteMeansComplete
<1> QED BY <1>2, Inductive, PTL
=============================================================================
