------------------------ MODULE ProviderAdapterProofs -----------------------
(***************************************************************************)
(* That a drain waits for what it owes, and that a session keeps its       *)
(* model, for any number of calls, drains and threads.                     *)
(*                                                                         *)
(* For the drains: a call under way is pending, so that a drain that       *)
(* begins waits for everything with the broker; and what a drain waits for *)
(* shrinks only by the exchange that settles, which is then owed no more.  *)
(*                                                                         *)
(* For the models: a thread the Host had from create is remembered with    *)
(* its model until the disposal is done, and a call that is about a thread *)
(* names its model or none.                                                *)
(***************************************************************************)
EXTENDS ProviderAdapter, TLAPS

\* The drains are drains, every call under way is pending, a drain waits for what it owes.
DrainInv ==
  /\ drains \in [Drains -> DrainType \cup {None}]
  /\ calls = [k \in Calls |-> calls[k]]
  /\ pending \subseteq Calls
  /\ \A k \in Calls \ pending : calls[k] = Idle
  /\ \A d \in Drains : drains[d] # None => drains[d].owes \subseteq drains[d].waits

\* No drain that is over owes anything: what DrainsWait says of one step.
DrainStep == \A d \in Drains : drains[d] # None /\ drains'[d] = None => drains[d].owes = {}

\* An exchange that settles takes itself off every drain, and ends none (drain() awaits
\* what is pending, broker-client.ts).
LEMMA SettledKeepsDrains ==
  ASSUME DrainInv, NEW k \in Calls, Settled(k)
  PROVE  /\ drains' \in [Drains -> DrainType \cup {None}]
         /\ \A d \in Drains : drains'[d] # None => drains'[d].owes \subseteq drains'[d].waits
         /\ DrainStep
<1>1. ASSUME NEW d \in Drains, drains[d] # None
      PROVE  /\ drains'[d] = [waits |-> drains[d].waits \ {k}, owes |-> drains[d].owes \ {k}]
             /\ drains'[d] \in DrainType
             /\ drains'[d].owes \subseteq drains'[d].waits
  <2>1. drains[d] \in DrainType
    BY <1>1 DEF DrainInv
  <2>2. drains'[d] = [waits |-> drains[d].waits \ {k}, owes |-> drains[d].owes \ {k}]
    BY <1>1 DEF Settled
  <2> QED BY <1>1, <2>1, <2>2 DEF DrainInv, DrainType
<1>2. ASSUME NEW d \in Drains, drains[d] = None
      PROVE  drains'[d] = None
  BY <1>2 DEF Settled
<1>3. drains' = [d \in Drains |-> drains'[d]]
  BY DEF Settled
<1> QED BY <1>1, <1>2, <1>3, ConstantsAssumption DEF DrainStep

\* The drain invariant holds at the start.
LEMMA InitDrains == Init => DrainInv
BY DEF Init, DrainInv, Idle

\* No step breaks it, and no step ends a drain that owes something.
LEMMA NextDrains ==
  ASSUME DrainInv, [Next]_vars
  PROVE  DrainInv' /\ DrainStep
<1> USE DEF DrainInv
<1> SUFFICES ASSUME Next PROVE DrainInv' /\ DrainStep
  <2>1. CASE UNCHANGED vars
    BY <2>1 DEF vars, DrainStep
  <2> QED BY <2>1
<1>1. ASSUME NEW k \in Calls, Call(k)
      PROVE  DrainInv' /\ DrainStep
  <2>1. PICK op, thread, model, subjects : Begin(k, op, thread, model, subjects)
    BY <1>1 DEF Call
  <2> QED BY <2>1 DEF Begin, DrainStep
<1>2. ASSUME NEW k \in Calls, Serve(k)
      PROVE  DrainInv' /\ DrainStep
  BY <1>2 DEF Serve, Idle, DrainStep
<1>3. ASSUME NEW k \in Calls, Accept(k) \/ Fail(k)
      PROVE  DrainInv' /\ DrainStep
  <2>1. Settled(k) /\ k \in pending
    <3>1. Settled(k) /\ k \in Open
      BY <1>3, Zenon DEF Accept, Fail
    <3> QED BY <3>1 DEF Open, Idle
  <2>2. /\ calls' = [j \in Calls |-> calls'[j]]
        /\ \A j \in Calls \ {k} : calls'[j] = calls[j]
        /\ pending' = pending
    <3>1. CASE Accept(k)
      BY <3>1, Zenon DEF Accept
    <3>2. CASE Fail(k)
      BY <3>2 DEF Fail
    <3> QED BY <1>3, <3>1, <3>2
  <2> QED BY <2>1, <2>2, SettledKeepsDrains
<1>4. ASSUME NEW k \in Calls, Resume(k)
      PROVE  DrainInv' /\ DrainStep
  <2>1. drains' = drains
    BY <1>4 DEF Resume, Finish, Created, Archive
  <2>2. CASE Return(k)
    BY <2>1, <2>2 DEF Return, DrainStep
  <2>3. CASE Archive(k)
    BY <2>1, <2>3 DEF Archive, Idle, DrainStep
  <2> QED BY <1>4, <2>2, <2>3 DEF Resume, Finish, Created
<1>5. ASSUME NEW d \in Drains, Drain(d)
      PROVE  DrainInv' /\ DrainStep
  <2>1. Open \subseteq pending
    BY DEF Open, Idle
  <2>2. [waits |-> pending \cap Open, owes |-> Open] \in DrainType
    BY <2>1 DEF DrainType
  <2>3. /\ \A e \in Drains \ {d} : drains'[e] = drains[e]
        /\ drains'[d] = [waits |-> pending \cap Open, owes |-> Open]
        /\ drains' = [e \in Drains |-> drains'[e]]
        /\ drains[d] = None
        /\ UNCHANGED <<calls, pending>>
    BY <1>5 DEF Drain
  <2> QED BY <2>1, <2>2, <2>3 DEF DrainStep
<1>6. ASSUME NEW d \in Drains, Drained(d)
      PROVE  DrainInv' /\ DrainStep
  BY <1>6 DEF Drained, DrainStep
<1>7. CASE Abort \/ Dispose \/ Disposed
  BY <1>7 DEF Abort, Dispose, Disposed, DrainStep
<1> QED BY <1>1, <1>2, <1>3, <1>4, <1>5, <1>6, <1>7 DEF Next

\* A drain is over only when everything that was with the broker when it began has been
\* answered (drain() of broker-client.ts), whatever fails, is sent or is drained beside it.
THEOREM DrainsOweNothing == Spec => DrainsWait
<1>1. DrainInv /\ [Next]_vars => [DrainStep]_vars
  BY NextDrains
<1>2. DrainInv /\ [Next]_vars => DrainInv'
  BY NextDrains
<1> QED BY InitDrains, <1>1, <1>2, PTL DEF Spec, DrainsWait, DrainStep

-----------------------------------------------------------------------------
(* Models                                                                  *)

Failed == [op |-> "none", pc |-> "failed"]

Sessions == {"session", "archive", "fork", "archiving"}

CallType ==
  [op : {"create", "list", "other"} \cup Sessions, pc : {"sent", "served", "accepted"},
   thread : Threads \cup {None}, model : Models \cup {None}, known : SUBSET Threads]

\* What a call c under way has of its thread: create asks for its model; an archive under
\* way was read with it; any other answer names it or nothing.
NamesItsThread(c) ==
  /\ c \in CallType
  /\ c.known \subseteq told
  /\ c.thread \in Started \cup {None}
  /\ c.op \in Sessions \/ (c.op = "create" /\ c.pc # "sent") => c.thread # None
  /\ c.op = "create" => c.model # None
  /\ c.op = "create" /\ c.thread # None => c.model = threads[c.thread]
  /\ c.op = "archiving" /\ c.thread \in c.known /\ disposed # "done"
       => c.model = threads[c.thread]
  /\ c.pc = "accepted" /\ c.op # "archiving" /\ c.model # None
       => c.thread # None /\ c.model = threads[c.thread]

\* The part of the invariant about the threads and what is remembered of them.
Remembered ==
  /\ threads \in [Threads -> Models \cup {None}]
  /\ sessionModels \in [Threads -> Models \cup {None}]
  /\ told \subseteq Started
  /\ disposed # "done" => \A t \in told : sessionModels[t] = threads[t]

KnownInv ==
  /\ Remembered
  /\ calls = [k \in Calls |-> calls[k]]
  /\ \A k \in Calls : calls[k] \in {Idle, Failed} \/ NamesItsThread(calls[k])

\* What every step keeps of the threads, of what was told, and of the disposal.
OnlyGrows ==
  /\ \A t \in Started : threads'[t] = threads[t]
  /\ told \subseteq told'
  /\ disposed' # "done" => disposed # "done"

\* A call that stays as it is goes on naming its thread's model: no step changes the model
\* of a thread that was started.
LEMMA StillNames ==
  ASSUME NEW c, Remembered, Remembered', OnlyGrows, NamesItsThread(c)
  PROVE  NamesItsThread(c)'
BY ConstantsAssumption DEF Remembered, OnlyGrows, NamesItsThread, Started, CallType

\* A step moves one call at most, to a call c.
LEMMA OneCallMoves ==
  ASSUME KnownInv, Remembered', OnlyGrows, NEW k \in Calls, NEW c,
         calls' = [calls EXCEPT ![k] = c],
         c \in {Idle, Failed} \/ NamesItsThread(c)'
  PROVE  KnownInv'
<1>1. ASSUME NEW j \in Calls
      PROVE  (calls[j] \in {Idle, Failed} \/ NamesItsThread(calls[j]))'
  <2>1. CASE j = k
    <3>1. calls'[j] = c
      BY <2>1 DEF KnownInv
    <3> QED BY <3>1, Zenon
  <2>2. CASE j # k
    <3>1. PICK d : d = calls[j]
      OBVIOUS
    <3>2. calls'[j] = d /\ (d \in {Idle, Failed} \/ NamesItsThread(d))
      BY <2>2, <3>1 DEF KnownInv
    <3>3. NamesItsThread(d) => NamesItsThread(d)'
      BY StillNames DEF KnownInv
    <3> QED BY <3>2, <3>3, Zenon DEF Idle, Failed
  <2> QED BY <2>1, <2>2
<1>2. calls' = [j \in Calls |-> calls'[j]]
  BY DEF KnownInv
<1> QED BY <1>1, <1>2 DEF KnownInv

\* The invariant holds at the start.
LEMMA InitKnown == Init => KnownInv
BY DEF Init, KnownInv, Remembered, Started, Idle

\* A call begins about a thread that was started, or about none.
LEMMA CallKnown ==
  ASSUME KnownInv, NEW k \in Calls, Call(k)
  PROVE  KnownInv'
<1>1. PICK op \in {"create", "list", "other", "session", "archive", "fork"},
           thread \in Started \cup {None}, model \in Models \cup {None},
           subjects \in SUBSET Threads :
        /\ Begin(k, op, thread, model, subjects)
        /\ op \in Sessions => thread # None
        /\ op = "create" => model # None /\ thread = None
  <2>1. None \notin Models
    BY ConstantsAssumption
  <2>2. CASE \E m \in Models : Begin(k, "create", None, m, {})
    BY <2>1, <2>2 DEF Sessions
  <2>3. CASE Begin(k, "list", None, None, Threads) \/ Begin(k, "other", None, None, {})
    BY <2>3 DEF Sessions
  <2>4. CASE \E t \in Started, op \in {"session", "archive", "fork"} :
               Begin(k, op, t, None, {t})
    BY <2>4, ConstantsAssumption DEF Started, Sessions
  <2> QED BY <2>2, <2>3, <2>4 DEF Call
<1> DEFINE c == [op |-> op, pc |-> "sent", thread |-> thread, model |-> model,
                 known |-> told \cap subjects]
<1>2. /\ calls' = [calls EXCEPT ![k] = c]
      /\ UNCHANGED <<disposed, sessionModels, threads, told>>
  BY <1>1 DEF Begin
<1>3. Remembered' /\ OnlyGrows
  BY <1>2 DEF KnownInv, Remembered, OnlyGrows, Started
<1>4. PICK d : d = c
  OBVIOUS
<1>5. NamesItsThread(d)'
  BY <1>1, <1>2, <1>4 DEF NamesItsThread, CallType, Started, Sessions
<1> QED BY <1>2, <1>3, <1>4, <1>5, OneCallMoves

\* The broker starts a thread of the model it was asked for, or of the thread forked.
LEMMA ServeKnown ==
  ASSUME KnownInv, NEW k \in Calls, Serve(k)
  PROVE  KnownInv'
<1>1. PICK t, model :
        /\ t \in Threads \ Started
        /\ model = IF calls[k].op = "create" THEN calls[k].model
                                             ELSE threads[calls[k].thread]
        /\ threads' = [threads EXCEPT ![t] = model]
        /\ calls' = [calls EXCEPT ![k].pc = "served", ![k].thread = t]
  BY Zenon DEF Serve
<1>2. /\ calls[k].pc = "sent" /\ calls[k].op \in {"create", "fork"}
      /\ UNCHANGED <<disposed, sessionModels, told>>
  BY DEF Serve
<1>3. NamesItsThread(calls[k]) /\ calls[k] \in CallType
  BY <1>2 DEF KnownInv, Idle, Failed, NamesItsThread
<1>4. model \in Models
  BY <1>1, <1>2, <1>3 DEF NamesItsThread, CallType, KnownInv, Remembered, Started, Sessions
<1>5. Remembered' /\ OnlyGrows
  BY <1>1, <1>2, <1>4, ConstantsAssumption DEF KnownInv, Remembered, OnlyGrows, Started
<1>6. PICK d : d = [op |-> calls[k].op, pc |-> "served", thread |-> t,
                    model |-> calls[k].model, known |-> calls[k].known]
  OBVIOUS
<1>7. calls' = [calls EXCEPT ![k] = d]
  <2>1. /\ calls = [j \in Calls |-> calls[j]]
        /\ calls' = [j \in Calls |-> calls'[j]]
        /\ \A j \in Calls \ {k} : calls'[j] = calls[j]
    BY <1>1, Zenon DEF KnownInv
  <2>2. calls'[k] = d
    BY <1>1, <1>3, <1>6 DEF CallType, KnownInv
  <2> QED BY <2>1, <2>2
<1>8. threads'[t] = model /\ t \in Started'
  BY <1>1, <1>4, ConstantsAssumption DEF KnownInv, Remembered, Started
<1>9. t \notin calls[k].known /\ calls[k].known \subseteq told'
  BY <1>1, <1>2, <1>3 DEF NamesItsThread, KnownInv, Remembered
<1>10. NamesItsThread(d)'
  BY <1>1, <1>2, <1>3, <1>6, <1>8, <1>9, ConstantsAssumption
     DEF NamesItsThread, CallType, Sessions
<1> QED BY <1>5, <1>7, <1>10, OneCallMoves

\* An answer names the thread's model or none; what an archive has read stays as it is.
LEMMA AcceptKnown ==
  ASSUME KnownInv, NEW k \in Calls, Accept(k)
  PROVE  KnownInv'
<1>1. PICK t, said :
        /\ t \in IF calls[k].op = "list" THEN Started \cup {None} ELSE {calls[k].thread}
        /\ said \in IF t = None THEN {None} ELSE {None, threads[t]}
        /\ calls' = [calls EXCEPT ![k].pc = "accepted", ![k].thread = t,
                       ![k].model = IF calls[k].op \in {"create", "archiving"} THEN @
                                                                             ELSE said]
  BY Zenon DEF Accept
<1>2. /\ calls[k].pc \in {"sent", "served"}
      /\ calls[k].op \in {"create", "fork"} => calls[k].pc = "served"
      /\ UNCHANGED <<disposed, sessionModels, threads, told>>
  BY DEF Accept, Open
<1>3. NamesItsThread(calls[k]) /\ calls[k] \in CallType
  BY <1>2 DEF KnownInv, Idle, Failed, NamesItsThread
<1>4. Remembered' /\ OnlyGrows
  BY <1>2 DEF KnownInv, Remembered, OnlyGrows, Started
<1>5. PICK d : d = [op |-> calls[k].op, pc |-> "accepted", thread |-> t,
                    model |-> IF calls[k].op \in {"create", "archiving"} THEN calls[k].model
                                                                        ELSE said,
                    known |-> calls[k].known]
  OBVIOUS
<1>6. calls' = [calls EXCEPT ![k] = d]
  <2>1. /\ calls = [j \in Calls |-> calls[j]]
        /\ calls' = [j \in Calls |-> calls'[j]]
        /\ \A j \in Calls \ {k} : calls'[j] = calls[j]
    BY <1>1, Zenon DEF KnownInv
  <2>2. calls'[k] = d
    BY <1>1, <1>3, <1>5 DEF CallType, KnownInv
  <2> QED BY <2>1, <2>2
<1>7. t \in Started \cup {None} /\ said \in Models \cup {None}
  BY <1>1, <1>3 DEF NamesItsThread, KnownInv, Remembered, Started
<1>8. NamesItsThread(d)'
  BY <1>1, <1>2, <1>3, <1>5, <1>7, ConstantsAssumption
     DEF NamesItsThread, CallType, Sessions, Started
<1> QED BY <1>4, <1>6, <1>8, OneCallMoves

\* create remembers the model of the thread before the Host may hear of it.
LEMMA CreatedKnown ==
  ASSUME KnownInv, NEW k \in Calls, Created(k)
  PROVE  KnownInv'
<1>1. /\ calls[k].pc = "accepted" /\ calls[k].op = "create"
      /\ sessionModels' = [sessionModels EXCEPT ![calls[k].thread] = calls[k].model]
      /\ calls' = [calls EXCEPT ![k] = Idle]
      /\ told' \in {told, told \cup {calls[k].thread}}
      /\ UNCHANGED <<disposed, threads>>
  BY DEF Created, Return
<1>2. NamesItsThread(calls[k])
  BY <1>1 DEF KnownInv, Idle, Failed
<1>3. /\ calls[k].thread \in Started
      /\ calls[k].model \in Models
      /\ calls[k].model = threads[calls[k].thread]
  BY <1>1, <1>2 DEF NamesItsThread, CallType
<1>4. Remembered' /\ OnlyGrows
  BY <1>1, <1>3 DEF KnownInv, Remembered, OnlyGrows, Started
<1> QED BY <1>1, <1>4, OneCallMoves

\* An archive goes on with the model it read, the right one if the Host knew the thread.
LEMMA ArchiveKnown ==
  ASSUME KnownInv, NEW k \in Calls, Archive(k)
  PROVE  KnownInv'
<1>1. /\ calls[k].pc = "accepted" /\ calls[k].op = "archive"
      /\ calls' = [calls EXCEPT ![k].op = "archiving", ![k].pc = "sent",
                                ![k].model = Projection(k)]
      /\ UNCHANGED <<disposed, sessionModels, threads, told>>
  BY DEF Archive
<1>2. NamesItsThread(calls[k]) /\ calls[k] \in CallType
  BY <1>1 DEF KnownInv, Idle, Failed, NamesItsThread
<1>3. Remembered' /\ OnlyGrows
  BY <1>1 DEF KnownInv, Remembered, OnlyGrows, Started
<1>4. PICK d : d = [op |-> "archiving", pc |-> "sent", thread |-> calls[k].thread,
                    model |-> Projection(k), known |-> calls[k].known]
  OBVIOUS
<1>5. calls' = [calls EXCEPT ![k] = d]
  <2>1. /\ calls = [j \in Calls |-> calls[j]]
        /\ calls' = [j \in Calls |-> calls'[j]]
        /\ \A j \in Calls \ {k} : calls'[j] = calls[j]
    BY <1>1, Zenon DEF KnownInv
  <2>2. calls'[k] = d
    BY <1>1, <1>2, <1>4 DEF CallType, KnownInv
  <2> QED BY <2>1, <2>2
<1>6. calls[k].thread \in Started
  BY <1>1, <1>2 DEF NamesItsThread, Sessions
<1>7. /\ Projection(k) \in Models \cup {None}
      /\ calls[k].thread \in calls[k].known /\ disposed # "done"
           => Projection(k) = threads[calls[k].thread]
  BY <1>1, <1>2, <1>6 DEF Projection, NamesItsThread, CallType, KnownInv, Remembered, Started
<1>8. NamesItsThread(d)'
  BY <1>1, <1>2, <1>4, <1>6, <1>7, ConstantsAssumption
     DEF NamesItsThread, CallType, Sessions, Started
<1> QED BY <1>3, <1>5, <1>8, OneCallMoves

\* No step breaks it: the disposal forgets the models only when it is done.
LEMMA NextKnown ==
  ASSUME KnownInv, [Next]_vars
  PROVE  KnownInv'
<1>1. ASSUME NEW k \in Calls, Call(k) \/ Serve(k) \/ Accept(k) \/ Fail(k) \/ Resume(k)
      PROVE  KnownInv'
  <2>1. CASE Fail(k) \/ Finish(k)
    <3>1. /\ \/ calls' = [calls EXCEPT ![k] = Failed]
             \/ calls' = [calls EXCEPT ![k] = Idle]
          /\ UNCHANGED <<disposed, sessionModels, threads, told>>
      BY <2>1 DEF Fail, Finish, Return, Failed
    <3>2. Remembered' /\ OnlyGrows
      BY <3>1 DEF KnownInv, Remembered, OnlyGrows, Started
    <3> QED BY <3>1, <3>2, OneCallMoves
  <2> QED BY <1>1, <2>1, CallKnown, ServeKnown, AcceptKnown, CreatedKnown, ArchiveKnown
          DEF Resume
<1>2. ASSUME UNCHANGED <<calls, threads, told>>,
             UNCHANGED <<sessionModels, disposed>> \/ Dispose \/ Disposed
      PROVE  KnownInv'
  <2>1. Remembered' /\ OnlyGrows
    BY <1>2 DEF Dispose, Disposed, KnownInv, Remembered, OnlyGrows, Started
  <2>2. ASSUME NEW k \in Calls
        PROVE  (calls[k] \in {Idle, Failed} \/ NamesItsThread(calls[k]))'
    <3>1. PICK c : c = calls[k]
      OBVIOUS
    <3>2. calls'[k] = c /\ (c \in {Idle, Failed} \/ NamesItsThread(c))
      BY <1>2, <3>1 DEF KnownInv
    <3>3. NamesItsThread(c) => NamesItsThread(c)'
      BY <2>1, StillNames DEF KnownInv
    <3> QED BY <3>2, <3>3, Zenon DEF Idle, Failed
  <2> QED BY <1>2, <2>1, <2>2 DEF KnownInv
<1>3. (\E d \in Drains : Drain(d) \/ Drained(d)) \/ Abort \/ Dispose \/ Disposed
        \/ UNCHANGED vars
      => KnownInv'
  BY <1>2 DEF Drain, Drained, Abort, Dispose, Disposed, vars
<1> QED BY <1>1, <1>3 DEF Next

\* A session the Host had from create keeps its model in every answer (session() of
\* adapter.ts), also when the broker does not name it, whatever calls overlap and while
\* the adapter is being disposed.
THEOREM SessionsKeepTheirModels == Spec => []ModelsStayKnown
<1>1. KnownInv => ModelsStayKnown
  <2> SUFFICES ASSUME KnownInv, NEW k \in Calls, calls[k].pc = "accepted",
                      calls[k].thread \in calls[k].known, disposed # "done"
               PROVE  Projection(k) = threads[calls[k].thread]
    BY DEF ModelsStayKnown
  <2>1. NamesItsThread(calls[k])
    BY DEF KnownInv, Idle, Failed
  <2>2. calls[k].thread \in told /\ calls[k].thread \in Started
    BY <2>1 DEF NamesItsThread, KnownInv, Remembered
  <2>3. sessionModels[calls[k].thread] = threads[calls[k].thread]
    BY <2>2 DEF KnownInv, Remembered
  <2> QED BY <2>1, <2>2, <2>3 DEF Projection, NamesItsThread
<1> QED BY InitKnown, NextKnown, <1>1, PTL DEF Spec
=============================================================================
