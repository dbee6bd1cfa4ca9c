---------------------------- MODULE GatewayProofs ----------------------------
(***************************************************************************)
(* Proofs about Gateway, for all upstreams and connections and any number  *)
(* of changes and refreshes.  Everything follows from one inductive        *)
(* invariant, which follows a reconcile from await to await: what the job  *)
(* holds in its locals is what the registries contained at the revision it *)
(* read, and becomes the activation in force only under that revision.     *)
(***************************************************************************)
EXTENDS Gateway, TLAPS

USE ConstantsAssumption

-----------------------------------------------------------------------------
(* The inductive invariant                                                 *)

Kinds == {"reconcile", "refresh", "teardown"}

\* How far dispose() is once its job has run.
TornDown == {"publication", "handle", "done"}

Revisions == Nat \X Nat

Activations == [revision : Revisions, leases : SUBSET Entries]

\* Where a reconcile waits, and where a refresh does.
PublishingPcs == {"models", "unpublish", "publish"}

ReconcilePcs == {"release", "register", "sources", "finish", "cleanup"} \cup PublishingPcs

Jobs == [pc : ReconcilePcs, revision : Revisions \cup {None}, catalog : SUBSET Entries,
         plan : SUBSET Entries, todo : SUBSET Entries, models : SUBSET Models,
         leases : SUBSET Entries]

TypeOK ==
  /\ registry \in [entries : SUBSET Entries, upstream : Nat, extension : Nat,
                   closed : BOOLEAN]
  /\ aborted \in BOOLEAN /\ handle \in BOOLEAN /\ starting \in BOOLEAN /\ failed \in BOOLEAN
  /\ job \in Jobs \cup {Idle}
  /\ active \in Activations \cup {None}
  /\ publication \in (SUBSET Models) \cup {None}
  /\ disposer \in {"none", "awaiting"} \cup TornDown
  /\ service \in SUBSET Entries

\* What is scheduled: dispose() schedules the teardown once, and after it only
\* refreshes may be scheduled still.
QueueOK(q, d) ==
  /\ q \in Seq(Kinds)
  /\ d = "none" => \A i \in 1 .. Len(q) : q[i] # "teardown"
  /\ \A i, j \in 1 .. Len(q) : q[i] = "teardown" /\ i < j => q[j] = "refresh"
  /\ d \in TornDown => \A i \in 1 .. Len(q) : q[i] = "refresh"

\* A set read at a revision: the part a registry contributed is what that registry
\* holds, as long as it is at the same revision still.
Reflects(rev, set) ==
  /\ rev[1] <= registry.upstream
  /\ rev[2] <= registry.extension
  /\ rev[1] = registry.upstream => set \cap Upstreams = Content \cap Upstreams
  /\ rev[2] = registry.extension => set \cap Connections = Content \cap Connections

\* What is published is served by the configuration the gateway runs.
PublicationServed == publication # None => publication \subseteq service \cup {Account}

\* A refresh holds nothing; the activation stays in force.
RefreshOK == job.pc \in PublishingPcs /\ job.leases = {}

\* A reconcile has taken the activation out of force, and its locals are what the
\* registries held.
ReconcileOK ==
  /\ active = None
  /\ Reflects(job.revision, job.catalog)
  /\ job.pc # "release" => Reflects(job.revision, job.plan)
  /\ job.pc = "register" => job.leases = {}
  /\ job.pc = "sources" => job.leases \cup job.todo = job.plan
  /\ job.pc \in PublishingPcs \cup {"finish"} => job.leases = job.plan /\ service = job.plan
  /\ job.pc = "finish" => PublicationServed

JobOK ==
  ~NoJob =>
    /\ IF IsRefresh THEN RefreshOK ELSE ReconcileOK
    /\ job.pc \in {"unpublish", "publish"} => job.models \subseteq service \cup {Account}
    /\ job.pc = "publish" => publication = None

\* The activation in force holds what the gateway runs, and that is what the
\* registries held at its revision.
ActiveOK ==
  active # None =>
    /\ active.leases = service
    /\ Reflects(active.revision, service)
    /\ PublicationServed

\* The UI is shown the revision of the activation in force.
ShownOK ==
  Bound /\ activeRevision # None => active # None /\ activeRevision = active.revision[1]

\* activateCliProxyGateway awaits the first reconcile, which is the first job.
StartingOK ==
  /\ starting => IF NoJob THEN queue # <<>> /\ Head(queue) = "reconcile" ELSE ~IsRefresh
  /\ aborted /\ Bound => starting

Scheduled(q) == \E i \in 1 .. Len(q) : q[i] = "reconcile"

\* No change is missed: a reconcile is scheduled, is running on the newest
\* revision, has brought it into force, or has failed.
NothingMissed ==
  Bound /\ ~registry.closed =>
    \/ Scheduled(queue)
    \/ ~NoJob /\ job.revision = Revision
    \/ active # None /\ active.revision = Revision
    \/ failed /\ (NoJob \/ IsRefresh)

\* What dispose() has let go of so far.
TornDownOK ==
  /\ disposer \in TornDown => NoJob /\ active = None
  /\ disposer \in {"handle", "done"} => publication = None
  /\ disposer = "done" => ~handle

IInv ==
  /\ TypeOK
  /\ QueueOK(queue, disposer)
  /\ LeasesAccounted
  /\ JobOK
  /\ ActiveOK
  /\ ShownOK
  /\ StartingOK
  /\ NothingMissed
  /\ TornDownOK

-----------------------------------------------------------------------------
(* What scheduling does to the queue                                       *)

\* The chain runs its first job and keeps the others in their order.
LEMMA HeadScheduled ==
  ASSUME NEW q \in Seq(Kinds), q # <<>>
  PROVE  /\ Head(q) = q[1] /\ Head(q) \in Kinds
         /\ Tail(q) \in Seq(Kinds) /\ Len(Tail(q)) = Len(q) - 1
         /\ \A i \in 1 .. Len(Tail(q)) : Tail(q)[i] = q[i + 1]
  OBVIOUS

\* Scheduling puts a job behind those that wait.
LEMMA AppendScheduled ==
  ASSUME NEW q \in Seq(Kinds), NEW k \in Kinds
  PROVE  /\ Append(q, k) \in Seq(Kinds) /\ Len(Append(q, k)) = Len(q) + 1
         /\ \A i \in 1 .. Len(q) : Append(q, k)[i] = q[i]
         /\ Append(q, k)[Len(q) + 1] = k
         /\ Append(q, k) # <<>>
         /\ Head(Append(q, k)) = IF q = <<>> THEN k ELSE Head(q)
  OBVIOUS

\* Beginning a job keeps the queue in order, and only the reconcile that begins is
\* no longer scheduled.
LEMMA TailOK ==
  ASSUME NEW q, NEW d, QueueOK(q, d), q # <<>>
  PROVE  /\ QueueOK(Tail(q), d)
         /\ Scheduled(q) /\ Head(q) # "reconcile" => Scheduled(Tail(q))
<1>1. q \in Seq(Kinds)
  BY DEF QueueOK
<1>2. /\ Tail(q) \in Seq(Kinds) /\ Len(Tail(q)) = Len(q) - 1
      /\ \A i \in 1 .. Len(Tail(q)) : Tail(q)[i] = q[i + 1]
      /\ Head(q) = q[1] /\ Len(q) \in Nat
  BY <1>1, HeadScheduled
<1>3. \A i \in 1 .. Len(Tail(q)) : i + 1 \in 1 .. Len(q)
  BY <1>2
<1>4. QueueOK(Tail(q), d)
  <2>1. \A i, j \in 1 .. Len(Tail(q)) :
          Tail(q)[i] = "teardown" /\ i < j => Tail(q)[j] = "refresh"
    BY <1>2, <1>3 DEF QueueOK
  <2>2. QED
    BY <1>2, <1>3, <2>1 DEF QueueOK
<1>5. ASSUME Scheduled(q), Head(q) # "reconcile"
      PROVE  Scheduled(Tail(q))
  <2>1. PICK i \in 1 .. Len(q) : q[i] = "reconcile"
    BY <1>5 DEF Scheduled
  <2>2. i # 1 /\ i - 1 \in 1 .. Len(Tail(q))
    BY <1>2, <1>5, <2>1
  <2>3. Tail(q)[i - 1] = "reconcile"
    BY <1>2, <2>1, <2>2
  <2>4. QED
    BY <2>2, <2>3 DEF Scheduled
<1>6. QED
  BY <1>4, <1>5

\* A reconcile may be scheduled until dispose() is called, a refresh at any time.
LEMMA AppendOK ==
  ASSUME NEW q, NEW d, QueueOK(q, d), NEW k \in {"reconcile", "refresh"},
         k = "reconcile" => d = "none", d \in {"none", "awaiting"} \cup TornDown
  PROVE  QueueOK(Append(q, k), d)
<1>1. q \in Seq(Kinds) /\ k \in Kinds /\ Len(q) \in Nat
  BY DEF QueueOK, Kinds
<1>2. /\ Append(q, k) \in Seq(Kinds) /\ Len(Append(q, k)) = Len(q) + 1
      /\ \A i \in 1 .. Len(q) : Append(q, k)[i] = q[i]
      /\ Append(q, k)[Len(q) + 1] = k
  BY <1>1, AppendScheduled
<1>3. \A i \in 1 .. Len(Append(q, k)) : i \in 1 .. Len(q) \/ i = Len(q) + 1
  BY <1>1, <1>2
<1>4. d = "none" => \A i \in 1 .. Len(Append(q, k)) : Append(q, k)[i] # "teardown"
  BY <1>2, <1>3 DEF QueueOK
<1>5. d \in TornDown => \A i \in 1 .. Len(Append(q, k)) : Append(q, k)[i] = "refresh"
  BY <1>2, <1>3 DEF QueueOK, TornDown
<1>6. ASSUME NEW i \in 1 .. Len(Append(q, k)), NEW j \in 1 .. Len(Append(q, k)),
             Append(q, k)[i] = "teardown", i < j
      PROVE  Append(q, k)[j] = "refresh"
  <2>1. i \in 1 .. Len(q) /\ q[i] = "teardown"
    BY <1>1, <1>2, <1>3, <1>6
  <2>2. d # "none"
    BY <2>1 DEF QueueOK
  <2>3. CASE j \in 1 .. Len(q)
    BY <1>2, <1>6, <2>1, <2>3 DEF QueueOK
  <2>4. CASE j = Len(q) + 1
    BY <1>2, <2>2, <2>4
  <2>5. QED
    BY <1>3, <2>3, <2>4
<1>7. QED
  BY <1>2, <1>4, <1>5, <1>6 DEF QueueOK

\* dispose() schedules the teardown behind everything else.
LEMMA TeardownScheduled ==
  ASSUME NEW q, QueueOK(q, "none")
  PROVE  QueueOK(Append(q, "teardown"), "awaiting")
<1>1. q \in Seq(Kinds) /\ "teardown" \in Kinds /\ Len(q) \in Nat
  BY DEF QueueOK, Kinds
<1>2. /\ Append(q, "teardown") \in Seq(Kinds) /\ Len(Append(q, "teardown")) = Len(q) + 1
      /\ \A i \in 1 .. Len(q) : Append(q, "teardown")[i] = q[i]
  BY <1>1, AppendScheduled
<1>3. \A i \in 1 .. Len(Append(q, "teardown")) : i \in 1 .. Len(q) \/ i = Len(q) + 1
  BY <1>1, <1>2
<1>4. \A i \in 1 .. Len(q) : Append(q, "teardown")[i] # "teardown"
  BY <1>2 DEF QueueOK
<1>5. \A i, j \in 1 .. Len(Append(q, "teardown")) :
        Append(q, "teardown")[i] = "teardown" /\ i < j => FALSE
  BY <1>1, <1>2, <1>3, <1>4
<1>6. QED
  BY <1>2, <1>5 DEF QueueOK, TornDown

\* What was scheduled stays scheduled behind whatever comes.
LEMMA AppendKeepsScheduled ==
  ASSUME NEW q \in Seq(Kinds), NEW k \in Kinds
  PROVE  /\ Scheduled(q) => Scheduled(Append(q, k))
         /\ k = "reconcile" => Scheduled(Append(q, k))
<1>1. /\ Len(q) \in Nat /\ Len(Append(q, k)) = Len(q) + 1
      /\ \A i \in 1 .. Len(q) : Append(q, k)[i] = q[i]
      /\ Append(q, k)[Len(q) + 1] = k
  BY AppendScheduled
<1>2. ASSUME Scheduled(q) PROVE Scheduled(Append(q, k))
  <2>1. PICK i \in 1 .. Len(q) : q[i] = "reconcile"
    BY <1>2 DEF Scheduled
  <2>2. i \in 1 .. Len(Append(q, k)) /\ Append(q, k)[i] = "reconcile"
    BY <1>1, <2>1
  <2>3. QED
    BY <2>2 DEF Scheduled
<1>3. ASSUME k = "reconcile" PROVE Scheduled(Append(q, k))
  <2>1. Len(q) + 1 \in 1 .. Len(Append(q, k)) /\ Append(q, k)[Len(q) + 1] = "reconcile"
    BY <1>1, <1>3
  <2>2. QED
    BY <2>1 DEF Scheduled
<1>4. QED
  BY <1>2, <1>3

\* dispose() may be called at any time: the queue stays in order, and the program
\* is no longer bound.
LEMMA DisposeBegins ==
  ASSUME NEW q, QueueOK(q, disposer), disposer \in {"none", "awaiting"} \cup TornDown,
         BeginDispose(q)
  PROVE  /\ QueueOK(queue', disposer')
         /\ disposer' = IF Bound THEN "awaiting" ELSE disposer
         /\ q # <<>> => queue' # <<>> /\ Head(queue') = Head(q)
<1>1. CASE Bound
  <2>1. disposer = "none" /\ disposer' = "awaiting" /\ queue' = Append(q, "teardown")
    BY <1>1 DEF Bound, BeginDispose
  <2>2. QueueOK(queue', "awaiting")
    BY <2>1, TeardownScheduled
  <2>3. q \in Seq(Kinds) /\ "teardown" \in Kinds
    BY DEF QueueOK, Kinds
  <2>4. q # <<>> => queue' # <<>> /\ Head(queue') = Head(q)
    BY <2>1, <2>3, AppendScheduled
  <2>5. QED
    BY <1>1, <2>1, <2>2, <2>4
<1>2. CASE ~Bound
  BY <1>2 DEF BeginDispose
<1>3. QED
  BY <1>1, <1>2

\* A job that ends leaves the queue in order.  Only the first one calls dispose(),
\* and then the program is no longer bound.
LEMMA JobEnds ==
  ASSUME IInv, ~NoJob, NEW threw, End(threw)
  PROVE  /\ job' = Idle /\ NoJob' /\ starting' = FALSE
         /\ QueueOK(queue', disposer')
         /\ disposer' \in {"none", "awaiting"}
         /\ aborted => ~Bound'
         /\ Bound' => Bound /\ queue' = queue
<1>1. /\ QueueOK(queue, disposer) /\ disposer \in {"none", "awaiting"}
      /\ aborted /\ Bound => starting
  BY DEF IInv, TypeOK, TornDownOK, StartingOK
<1>2. job' = Idle /\ starting' = FALSE
  BY DEF End
<1>3. CASE starting /\ (threw \/ aborted)
  <2>1. BeginDispose(queue)
    BY <1>3 DEF End
  <2>2. QueueOK(queue', disposer') /\ disposer' = IF Bound THEN "awaiting" ELSE disposer
    BY <1>1, <2>1, DisposeBegins
  <2>3. QED
    BY <1>1, <1>2, <2>2 DEF Bound, NoJob
<1>4. CASE ~(starting /\ (threw \/ aborted))
  <2>1. UNCHANGED <<queue, disposer>>
    BY <1>4 DEF End
  <2>2. QED
    BY <1>1, <1>2, <1>4, <2>1 DEF Bound, NoJob
<1>5. QED
  BY <1>3, <1>4

-----------------------------------------------------------------------------
(* The invariant holds initially and in every step                         *)

\* The context's creation (createGatewayContext) schedules the first reconcile.
LEMMA InitIInv == Init => IInv
<1> SUFFICES ASSUME Init PROVE IInv
  OBVIOUS
<1>1. queue = <<"reconcile">> /\ Len(queue) = 1 /\ queue[1] = "reconcile"
  BY DEF Init
<1>2. QueueOK(queue, disposer)
  BY <1>1 DEF Init, QueueOK, Kinds, TornDown
<1>3. TypeOK
  BY DEF Init, TypeOK, TornDown
<1>4. LeasesAccounted /\ JobOK /\ ActiveOK /\ ShownOK /\ TornDownOK
  BY DEF Init, LeasesAccounted, ActiveLeases, JobLeases, NoJob, JobOK, ActiveOK, ShownOK,
         TornDownOK, TornDown
<1>5. StartingOK
  BY <1>1 DEF Init, StartingOK, NoJob
<1>6. NothingMissed
  BY <1>1 DEF NothingMissed, Scheduled
<1>7. QED
  BY <1>2, <1>3, <1>4, <1>5, <1>6 DEF IInv

\* A change moves the revision, so that nothing read before counts as current, and
\* a reconcile is scheduled for it while the program is bound.
LEMMA ChangeIInv ==
  ASSUME IInv, Change
  PROVE  IInv'
<1>1. /\ registry' \in [entries : SUBSET Entries, upstream : Nat, extension : Nat,
                        closed : BOOLEAN]
      /\ registry.closed = registry'.closed
      /\ \/ /\ registry'.upstream = registry.upstream + 1
            /\ registry'.extension = registry.extension
            /\ registry'.entries \cap Connections = registry.entries \cap Connections
         \/ /\ registry'.upstream = registry.upstream
            /\ registry'.extension = registry.extension + 1
            /\ registry'.entries \cap Upstreams = registry.entries \cap Upstreams
  <2>1. /\ registry \in [entries : SUBSET Entries, upstream : Nat, extension : Nat,
                         closed : BOOLEAN]
        /\ Upstreams \cap Connections = {}
    BY DEF IInv, TypeOK
  <2>2. ASSUME NEW entries \in SUBSET Upstreams,
               registry' = [registry EXCEPT !.upstream = registry.upstream + 1,
                              !.entries = entries \cup (registry.entries \cap Connections)]
        PROVE  /\ registry' \in [entries : SUBSET Entries, upstream : Nat, extension : Nat,
                                 closed : BOOLEAN]
               /\ registry'.closed = registry.closed
               /\ registry'.upstream = registry.upstream + 1
               /\ registry'.extension = registry.extension
               /\ registry'.entries \cap Connections = registry.entries \cap Connections
    <3>1. registry' = [entries |-> entries \cup (registry.entries \cap Connections),
                       upstream |-> registry.upstream + 1,
                       extension |-> registry.extension, closed |-> registry.closed]
      BY <2>1, <2>2
    <3>2. QED
      BY <2>1, <3>1 DEF Entries
  <2>3. ASSUME NEW entries \in SUBSET Connections,
               registry' = [registry EXCEPT !.extension = registry.extension + 1,
                              !.entries = entries \cup (registry.entries \cap Upstreams)]
        PROVE  /\ registry' \in [entries : SUBSET Entries, upstream : Nat, extension : Nat,
                                 closed : BOOLEAN]
               /\ registry'.closed = registry.closed
               /\ registry'.upstream = registry.upstream
               /\ registry'.extension = registry.extension + 1
               /\ registry'.entries \cap Upstreams = registry.entries \cap Upstreams
    <3>1. registry' = [entries |-> entries \cup (registry.entries \cap Upstreams),
                       upstream |-> registry.upstream,
                       extension |-> registry.extension + 1, closed |-> registry.closed]
      BY <2>1, <2>3
    <3>2. QED
      BY <2>1, <3>1 DEF Entries
  <2>4. QED
    BY <2>2, <2>3, Zenon DEF Change
<1>2. ASSUME NEW rev \in Revisions, NEW set, Reflects(rev, set)
      PROVE  Reflects(rev, set)'
  BY <1>1, <1>2 DEF Reflects, Content, Revisions, IInv, TypeOK
<1>3. TypeOK'
  BY <1>1 DEF Change, IInv, TypeOK, host
<1>4. QueueOK(queue', disposer') /\ (Bound => Scheduled(queue'))
  <2>1. QueueOK(queue, disposer) /\ queue \in Seq(Kinds) /\ "reconcile" \in Kinds
    BY DEF IInv, QueueOK, Kinds
  <2>2. CASE Bound
    <3>1. queue' = Append(queue, "reconcile") /\ disposer' = disposer /\ disposer = "none"
      BY <2>2 DEF Change, Notified, Bound
    <3>2. QED
      BY <2>1, <3>1, AppendOK, AppendKeepsScheduled
  <2>3. CASE ~Bound
    BY <2>1, <2>3 DEF Change, Notified
  <2>4. QED
    BY <2>2, <2>3
<1>5. LeasesAccounted' /\ TornDownOK' /\ ShownOK'
  BY DEF Change, host, IInv, LeasesAccounted, ActiveLeases, JobLeases, NoJob, TornDownOK,
         ShownOK, Bound
<1>6. JobOK'
  <2>1. CASE ~NoJob /\ ~IsRefresh
    <3>1. job.revision \in Revisions
      BY <2>1 DEF IInv, TypeOK, Jobs, IsRefresh, NoJob
    <3>2. Reflects(job.revision, job.catalog)' /\
          (job.pc # "release" => Reflects(job.revision, job.plan)')
      BY <1>2, <2>1, <3>1 DEF IInv, JobOK, ReconcileOK, Change
    <3>3. QED
      BY <2>1, <3>2 DEF Change, host, IInv, JobOK, ReconcileOK, NoJob, IsRefresh,
                        PublicationServed
  <2>2. CASE NoJob \/ IsRefresh
    BY <2>2 DEF Change, host, IInv, JobOK, RefreshOK, NoJob, IsRefresh
  <2>3. QED
    BY <2>1, <2>2
<1>7. ActiveOK'
  <2>1. CASE active # None
    <3>1. active.revision \in Revisions
      BY <2>1 DEF IInv, TypeOK, Activations
    <3>2. Reflects(active.revision, service)'
      BY <1>2, <2>1, <3>1 DEF IInv, ActiveOK, Change, host
    <3>3. QED
      BY <2>1, <3>2 DEF Change, host, IInv, ActiveOK, PublicationServed
  <2>2. CASE active = None
    BY <2>2 DEF Change, ActiveOK
  <2>3. QED
    BY <2>1, <2>2
<1>8. StartingOK'
  <2>1. queue # <<>> => queue' # <<>> /\ Head(queue') = Head(queue)
    BY AppendScheduled DEF Change, Notified, IInv, QueueOK, Kinds
  <2>2. QED
    BY <2>1 DEF Change, IInv, StartingOK, NoJob, IsRefresh, Bound
<1>9. NothingMissed'
  BY <1>4 DEF NothingMissed, Change, Bound
<1>10. QED
  BY <1>3, <1>4, <1>5, <1>6, <1>7, <1>8, <1>9 DEF IInv

\* Closing moves the revisions of both registries, and no change follows it.
LEMMA CloseIInv ==
  ASSUME IInv, CloseRegistries
  PROVE  IInv'
<1>1. /\ registry' \in [entries : SUBSET Entries, upstream : Nat, extension : Nat,
                        closed : BOOLEAN]
      /\ registry'.closed
      /\ registry'.upstream = registry.upstream + 1
      /\ registry'.extension = registry.extension + 1
  BY DEF CloseRegistries, IInv, TypeOK
<1>2. UNCHANGED <<aborted, queue, job, active, activeRevision, handle, publication, disposer,
                  starting, failed, service, leases>>
  BY DEF CloseRegistries, program, host
<1>3. ASSUME NEW rev \in Revisions, NEW set, Reflects(rev, set)
      PROVE  Reflects(rev, set)'
  BY <1>1, <1>3 DEF Reflects, Revisions, IInv, TypeOK
<1>4. TypeOK' /\ QueueOK(queue', disposer') /\ LeasesAccounted' /\ TornDownOK' /\ ShownOK'
  BY <1>1, <1>2 DEF IInv, TypeOK, LeasesAccounted, ActiveLeases, JobLeases, NoJob,
                    TornDownOK, ShownOK, Bound
<1>5. JobOK'
  <2>1. CASE ~NoJob /\ ~IsRefresh
    <3>1. job.revision \in Revisions
      BY <2>1 DEF IInv, TypeOK, Jobs, IsRefresh, NoJob
    <3>2. Reflects(job.revision, job.catalog)' /\
          (job.pc # "release" => Reflects(job.revision, job.plan)')
      BY <1>2, <1>3, <2>1, <3>1 DEF IInv, JobOK, ReconcileOK
    <3>3. QED
      BY <1>2, <2>1, <3>2 DEF IInv, JobOK, ReconcileOK, NoJob, IsRefresh, PublicationServed
  <2>2. CASE NoJob \/ IsRefresh
    BY <1>2, <2>2 DEF IInv, JobOK, RefreshOK, NoJob, IsRefresh
  <2>3. QED
    BY <2>1, <2>2
<1>6. ActiveOK'
  <2>1. CASE active # None
    <3>1. active.revision \in Revisions
      BY <2>1 DEF IInv, TypeOK, Activations
    <3>2. Reflects(active.revision, service)'
      BY <1>2, <1>3, <2>1, <3>1 DEF IInv, ActiveOK
    <3>3. QED
      BY <1>2, <2>1, <3>2 DEF IInv, ActiveOK, PublicationServed
  <2>2. CASE active = None
    BY <1>2, <2>2 DEF ActiveOK
  <2>3. QED
    BY <2>1, <2>2
<1>7. StartingOK' /\ NothingMissed'
  BY <1>1, <1>2 DEF IInv, StartingOK, NoJob, IsRefresh, Bound, NothingMissed
<1>8. QED
  BY <1>4, <1>5, <1>6, <1>7 DEF IInv

\* A step that only schedules: the registries, the running job and what the program
\* and the Host hold stay as they are.
Schedules ==
  /\ UNCHANGED <<registry, job, active, activeRevision, handle, publication, starting,
                 failed, service, leases>>
  /\ QueueOK(queue', disposer')
  /\ aborted' \in BOOLEAN
  /\ disposer' = disposer \/ (disposer' = "awaiting" /\ disposer = "none")
  /\ queue # <<>> => queue' # <<>> /\ Head(queue') = Head(queue)
  /\ disposer' = "none" /\ Scheduled(queue) => Scheduled(queue')
  /\ aborted' /\ disposer' = "none" => aborted

\* Scheduling touches nothing the invariant speaks of but the queue.
LEMMA SchedulingIInv ==
  ASSUME IInv, Schedules
  PROVE  IInv'
<1>1. TypeOK' /\ LeasesAccounted' /\ TornDownOK' /\ ShownOK'
  BY DEF Schedules, IInv, TypeOK, LeasesAccounted, ActiveLeases, JobLeases, NoJob,
         TornDownOK, TornDown, ShownOK, Bound
<1>2. JobOK'
  BY DEF Schedules, IInv, JobOK, RefreshOK, ReconcileOK, Reflects, Content, NoJob, IsRefresh,
         PublicationServed
<1>3. ActiveOK'
  BY DEF Schedules, IInv, ActiveOK, Reflects, Content, PublicationServed
<1>4. StartingOK'
  BY DEF Schedules, IInv, StartingOK, NoJob, IsRefresh, Bound
<1>5. NothingMissed'
  BY DEF Schedules, IInv, NothingMissed, NoJob, IsRefresh, Bound, Revision
<1>6. QED
  BY <1>1, <1>2, <1>3, <1>4, <1>5 DEF Schedules, IInv

\* refresh() schedules its job behind the others, before or after a disposal.
LEMMA RequestRefreshIInv ==
  ASSUME IInv, RequestRefresh
  PROVE  IInv'
<1>1. /\ queue' = Append(queue, "refresh") /\ disposer' = disposer
      /\ UNCHANGED <<registry, aborted, job, active, activeRevision, handle, publication,
                     starting, failed, service, leases>>
  BY DEF RequestRefresh, host
<1>2. /\ queue \in Seq(Kinds) /\ "refresh" \in Kinds /\ QueueOK(queue, disposer)
      /\ disposer \in {"none", "awaiting"} \cup TornDown /\ aborted \in BOOLEAN
  BY DEF IInv, QueueOK, Kinds, TypeOK
<1>3. QueueOK(queue', disposer')
  BY <1>1, <1>2, AppendOK
<1>4. /\ Scheduled(queue) => Scheduled(queue')
      /\ queue # <<>> => queue' # <<>> /\ Head(queue') = Head(queue)
  BY <1>1, <1>2, AppendScheduled, AppendKeepsScheduled
<1>5. Schedules
  BY <1>1, <1>2, <1>3, <1>4 DEF Schedules
<1>6. QED
  BY <1>5, SchedulingIInv

\* Abort and the effect's clean-up call dispose().
LEMMA DisposeIInv ==
  ASSUME IInv, Abort \/ EffectCleanup
  PROVE  IInv'
<1>1. /\ BeginDispose(queue) /\ aborted' \in BOOLEAN
      /\ UNCHANGED <<registry, job, active, activeRevision, handle, publication, starting,
                     failed, service, leases>>
  BY DEF Abort, EffectCleanup, IInv, TypeOK, host
<1>2. QueueOK(queue, disposer) /\ disposer \in {"none", "awaiting"} \cup TornDown
  BY DEF IInv, TypeOK
<1>3. /\ QueueOK(queue', disposer')
      /\ disposer' = IF Bound THEN "awaiting" ELSE disposer
      /\ queue # <<>> => queue' # <<>> /\ Head(queue') = Head(queue)
  BY <1>1, <1>2, DisposeBegins
<1>4. Schedules
  BY <1>1, <1>3 DEF Schedules, Bound
<1>5. QED
  BY <1>4, SchedulingIInv

\* The host withdraws a publication: the plugin's own records do not move.
LEMMA HostRevokesIInv ==
  ASSUME IInv, HostRevokes \/ UNCHANGED vars
  PROVE  IInv'
<1>1. /\ UNCHANGED <<registry, aborted, queue, job, active, activeRevision, handle,
                     publication, disposer, starting, failed, service, leases>>
  BY DEF HostRevokes, vars, program, host
<1>2. QueueOK(queue', disposer') /\ aborted' \in BOOLEAN
  BY <1>1 DEF IInv, TypeOK
<1>3. Schedules
  BY <1>1, <1>2 DEF Schedules
<1>4. QED
  BY <1>3, SchedulingIInv

-----------------------------------------------------------------------------
(* The three ways a running job goes on                                    *)

\* While a job runs dispose() waits for it, and a reconcile holds the only leases.
LEMMA Running ==
  ASSUME IInv, ~NoJob
  PROVE  /\ job \in Jobs /\ job # Idle
         /\ disposer \in {"none", "awaiting"}
         /\ leases = ActiveLeases \cup job.leases
         /\ IsRefresh => RefreshOK /\ leases = ActiveLeases
         /\ ~IsRefresh => /\ ReconcileOK /\ active = None /\ leases = job.leases
                          /\ job.revision \in Revisions
         /\ job.pc \in {"unpublish", "publish"} => job.models \subseteq service \cup {Account}
         /\ job.pc = "publish" => publication = None
<1>1. job \in Jobs /\ job # Idle
  BY DEF IInv, TypeOK, NoJob
<1>2. disposer \in {"none", "awaiting"}
  BY DEF IInv, TypeOK, TornDownOK
<1>3. leases = ActiveLeases \cup job.leases
  BY DEF IInv, LeasesAccounted, JobLeases
<1>4. /\ IF IsRefresh THEN RefreshOK ELSE ReconcileOK
      /\ job.pc \in {"unpublish", "publish"} => job.models \subseteq service \cup {Account}
      /\ job.pc = "publish" => publication = None
  BY DEF IInv, JobOK
<1>5. IsRefresh => RefreshOK /\ leases = ActiveLeases
  BY <1>3, <1>4 DEF RefreshOK
<1>6. ~IsRefresh => ReconcileOK /\ active = None /\ leases = job.leases
  BY <1>3, <1>4 DEF ReconcileOK, ActiveLeases
<1>7. ~IsRefresh => job.revision \in Revisions
  BY <1>1 DEF Jobs, IsRefresh
<1>8. QED
  BY <1>1, <1>2, <1>3, <1>4, <1>5, <1>6, <1>7

\* A job goes on to its next await.
Advances ==
  /\ UNCHANGED <<registry, aborted, queue, active, activeRevision, disposer, starting, failed>>
  /\ job' \in Jobs /\ job'.revision = job.revision
  /\ handle' \in BOOLEAN
  /\ publication' \in (SUBSET Models) \cup {None}
  /\ service' \in SUBSET Entries
  /\ leases' = ActiveLeases \cup job'.leases
  /\ JobOK'
  /\ ActiveOK'

\* A step to the next await that keeps the leases accounted for keeps the rest too.
LEMMA AdvancesIInv ==
  ASSUME IInv, ~NoJob, Advances
  PROVE  IInv'
<1>1. ~NoJob' /\ job' # Idle /\ (IsRefresh' <=> IsRefresh)
  BY DEF Advances, NoJob, Idle, Jobs, ReconcilePcs, PublishingPcs, IsRefresh
<1>2. TypeOK' /\ QueueOK(queue', disposer')
  BY DEF Advances, IInv, TypeOK
<1>3. LeasesAccounted'
  BY <1>1 DEF Advances, LeasesAccounted, ActiveLeases, JobLeases
<1>4. ShownOK' /\ TornDownOK'
  BY Running DEF Advances, IInv, ShownOK, TornDownOK, TornDown, Bound
<1>5. StartingOK'
  BY <1>1 DEF Advances, IInv, StartingOK, Bound
<1>6. NothingMissed'
  BY <1>1 DEF Advances, IInv, NothingMissed, Bound, Revision, Scheduled
<1>7. QED
  BY <1>2, <1>3, <1>4, <1>5, <1>6 DEF Advances, IInv

\* A reconcile ends without bringing anything into force, having released every
\* lease: it threw, or the signal was aborted.
GivesUp(threw) ==
  /\ EndReconcile(threw)
  /\ threw \in BOOLEAN /\ (threw \/ aborted)
  /\ UNCHANGED <<registry, aborted, active, publication, service>>
  /\ handle' \in BOOLEAN
  /\ leases' = {}
  /\ aborted \/ UNCHANGED activeRevision

\* A reconcile that fails, or finds it must stop, leaves no lease behind it.
LEMMA GivesUpIInv ==
  ASSUME IInv, ~NoJob, ~IsRefresh, NEW threw, GivesUp(threw)
  PROVE  IInv'
<1>1. active = None /\ active' = None /\ leases' = {}
  BY Running DEF GivesUp
<1>2. /\ job' = Idle /\ NoJob' /\ starting' = FALSE
      /\ QueueOK(queue', disposer')
      /\ disposer' \in {"none", "awaiting"}
      /\ aborted => ~Bound'
      /\ Bound' => Bound /\ queue' = queue
  BY JobEnds DEF GivesUp, EndReconcile
<1>3. TypeOK' /\ LeasesAccounted' /\ JobOK' /\ ActiveOK' /\ TornDownOK'
  BY <1>1, <1>2 DEF GivesUp, EndReconcile, IInv, TypeOK, LeasesAccounted, ActiveLeases,
                    JobLeases, JobOK, ActiveOK, TornDownOK, TornDown
<1>4. ShownOK'
  BY <1>1, <1>2 DEF GivesUp, IInv, ShownOK
<1>5. StartingOK' /\ NothingMissed'
  BY <1>1, <1>2 DEF GivesUp, EndReconcile, StartingOK, NothingMissed
<1>6. QED
  BY <1>2, <1>3, <1>4, <1>5 DEF IInv

\* A refresh ends, and the activation it found in force stays in force.
RefreshEnds(threw) ==
  /\ End(threw)
  /\ UNCHANGED <<registry, aborted, active, activeRevision, handle, failed, service, leases>>
  /\ publication' \in (SUBSET Models) \cup {None}
  /\ ActiveOK'

\* A refresh ends, well or with a throw, over the configuration it found.
LEMMA RefreshEndsIInv ==
  ASSUME IInv, ~NoJob, IsRefresh, NEW threw, RefreshEnds(threw)
  PROVE  IInv'
<1>1. /\ job' = Idle /\ NoJob' /\ starting' = FALSE
      /\ QueueOK(queue', disposer')
      /\ disposer' \in {"none", "awaiting"}
      /\ aborted => ~Bound'
      /\ Bound' => Bound /\ queue' = queue
  BY JobEnds DEF RefreshEnds
<1>2. leases = ActiveLeases
  BY Running
<1>3. TypeOK' /\ LeasesAccounted' /\ JobOK' /\ TornDownOK'
  BY <1>1, <1>2 DEF RefreshEnds, IInv, TypeOK, LeasesAccounted, ActiveLeases,
                    JobLeases, JobOK, TornDownOK, TornDown
<1>4. ShownOK' /\ StartingOK'
  BY <1>1 DEF RefreshEnds, IInv, ShownOK, StartingOK
<1>5. NothingMissed'
  <2>1. job.revision # Revision
    BY DEF IsRefresh, Revision, IInv, TypeOK
  <2>2. QED
    BY <1>1, <2>1 DEF RefreshEnds, IInv, NothingMissed, Revision
<1>6. QED
  BY <1>1, <1>3, <1>4, <1>5 DEF RefreshEnds, IInv

-----------------------------------------------------------------------------
(* The steps of a reconcile                                                *)

\* A reconcile that begins takes the activation out of force together with the
\* revision that is shown, and reads what the registries hold now.
LEMMA StartReconcileIInv ==
  ASSUME IInv, StartReconcile
  PROVE  IInv'
<1> DEFINE current == active # None /\ active.revision = Revision
           rest == Tail(queue)
<1>1. /\ NoJob /\ queue # <<>> /\ Head(queue) = "reconcile"
      /\ UNCHANGED <<registry, aborted, handle, publication, service, leases>>
  BY DEF StartReconcile, host
<1>2. QueueOK(rest, disposer) /\ disposer \in {"none", "awaiting"}
  <2>1. queue \in Seq(Kinds) /\ Len(queue) \in Nat /\ QueueOK(queue, disposer)
    BY DEF IInv, QueueOK
  <2>2. 1 \in 1 .. Len(queue) /\ queue[1] = "reconcile"
    BY <1>1, <2>1
  <2>3. disposer \notin TornDown
    BY <2>1, <2>2 DEF QueueOK
  <2>4. QED
    BY <1>1, <2>1, <2>3, TailOK DEF IInv, TypeOK
<1>3. CASE aborted \/ registry.closed \/ current
  <2>1. /\ failed' = (~aborted /\ registry.closed) /\ starting' = FALSE
        /\ UNCHANGED <<job, active, activeRevision>>
        /\ IF starting /\ (aborted \/ registry.closed)
             THEN BeginDispose(rest)
             ELSE queue' = rest /\ UNCHANGED disposer
    BY <1>3 DEF StartReconcile
  <2>2. /\ QueueOK(queue', disposer')
        /\ disposer' \in {"none", "awaiting"}
        /\ disposer' = "none" => /\ disposer = "none"
                                 /\ aborted => ~starting
    <3>1. CASE starting /\ (aborted \/ registry.closed)
      BY <1>2, <2>1, <3>1, DisposeBegins DEF Bound
    <3>2. CASE ~(starting /\ (aborted \/ registry.closed))
      BY <1>2, <2>1, <3>2
    <3>3. QED
      BY <3>1, <3>2
  <2>3. TypeOK' /\ LeasesAccounted' /\ JobOK' /\ ActiveOK' /\ TornDownOK' /\ ShownOK'
    BY <1>1, <2>1, <2>2 DEF IInv, TypeOK, LeasesAccounted, ActiveLeases, JobLeases, NoJob,
         JobOK, ActiveOK, Reflects, Content, PublicationServed, TornDownOK, TornDown,
         ShownOK, Bound
  <2>4. StartingOK'
    BY <1>1, <2>1, <2>2 DEF IInv, StartingOK, Bound
  <2>5. NothingMissed'
    BY <1>1, <1>3, <2>1, <2>2 DEF IInv, StartingOK, NothingMissed, Bound, Revision
  <2>6. QED
    BY <2>2, <2>3, <2>4, <2>5 DEF IInv
<1>4. CASE ~(aborted \/ registry.closed \/ current)
  <2>1. /\ queue' = rest /\ active' = None /\ activeRevision' = None
        /\ job' = [pc |-> "release", revision |-> Revision, catalog |-> Content,
                   plan |-> {}, todo |-> {}, models |-> {},
                   leases |-> IF active = None THEN {} ELSE active.leases]
        /\ UNCHANGED <<disposer, starting, failed>>
    BY <1>4 DEF StartReconcile
  <2>2. Revision \in Revisions /\ Content \in SUBSET Entries
    BY DEF IInv, TypeOK, Revision, Revisions, Content
  <2>3. /\ job' \in Jobs /\ ~NoJob' /\ ~IsRefresh'
        /\ job'.revision = Revision /\ job'.catalog = Content /\ job'.pc = "release"
        /\ job'.leases = IF active = None THEN {} ELSE active.leases
    BY <2>1, <2>2 DEF Jobs, ReconcilePcs, PublishingPcs, NoJob, Idle, IsRefresh, Revisions,
         IInv, TypeOK, Activations
  <2>4. TypeOK' /\ QueueOK(queue', disposer')
    BY <1>1, <1>2, <2>1, <2>3 DEF IInv, TypeOK
  <2>5. LeasesAccounted'
    BY <1>1, <2>1, <2>3 DEF IInv, LeasesAccounted, ActiveLeases, JobLeases
  <2>6. JobOK'
    <3>1. Reflects(job.revision, job.catalog)'
      BY <1>1, <2>3 DEF Reflects, Revision, Content, IInv, TypeOK
    <3>2. QED
      BY <2>1, <2>3, <3>1 DEF JobOK, ReconcileOK, PublishingPcs
  <2>7. ActiveOK' /\ ShownOK' /\ TornDownOK'
    BY <1>2, <2>1 DEF ActiveOK, ShownOK, TornDownOK, TornDown
  <2>8. StartingOK' /\ NothingMissed'
    BY <1>1, <2>1, <2>3 DEF IInv, StartingOK, NothingMissed, Bound, Revision
  <2>9. QED
    BY <2>4, <2>5, <2>6, <2>7, <2>8 DEF IInv
<1>5. QED
  BY <1>3, <1>4

\* A reconcile that waits at a pc no refresh comes to.
LEMMA AtReconcile ==
  ASSUME IInv, NEW pc \in {"release", "register", "sources", "finish", "cleanup"}, At(pc)
  PROVE  ~NoJob /\ job.pc = pc /\ ~IsRefresh
<1>1. ~NoJob /\ job.pc = pc
  BY DEF At, NoJob
<1>2. job.pc \notin PublishingPcs
  BY <1>1 DEF PublishingPcs
<1>3. QED
  BY <1>1, <1>2, Running DEF RefreshOK

\* The release of every lease of the activation that was in force is asked for before
\* anything is leased, and the plan is read when none of them threw.
LEMMA ReleasePreviousIInv ==
  ASSUME IInv, ReleasePrevious
  PROVE  IInv'
<1>1. ~NoJob /\ job.pc = "release" /\ ~IsRefresh
  BY AtReconcile DEF ReleasePrevious
<1>2. /\ job \in Jobs /\ ReconcileOK /\ active = None /\ leases = job.leases
      /\ job.revision \in Revisions
  BY <1>1, Running
<1>3. /\ leases' = {}
      /\ UNCHANGED <<registry, aborted, active, activeRevision, handle, publication, service>>
  BY <1>2 DEF ReleasePrevious, Release
<1>4. CASE EndReconcile(TRUE)
  BY <1>1, <1>3, <1>4, GivesUpIInv DEF GivesUp, IInv, TypeOK
<1>5. CASE /\ ~registry.closed
           /\ job' = [job EXCEPT !.leases = {},
                        !.plan = (Content \cap Upstreams) \cup (job.catalog \cap Connections),
                        !.pc = "register"]
           /\ UNCHANGED <<queue, disposer, starting, failed>>
  <2> DEFINE plan == (Content \cap Upstreams) \cup (job.catalog \cap Connections)
  <2>1. plan \in SUBSET Entries
    BY DEF Entries
  <2>2. /\ job'.pc = "register" /\ job'.plan = plan /\ job'.leases = {}
        /\ job'.revision = job.revision /\ job'.catalog = job.catalog
    BY <1>2, <1>5 DEF Jobs
  <2>3. job' \in Jobs
    BY <1>2, <1>5, <2>1 DEF Jobs, ReconcilePcs
  <2>4. Reflects(job.revision, plan)'
    BY <1>2, <1>3, <2>2 DEF ReconcileOK, Reflects, Content
  <2>5. JobOK'
    BY <1>1, <1>2, <1>3, <2>2, <2>4 DEF JobOK, ReconcileOK, Reflects, Content, IsRefresh,
         PublishingPcs
  <2>6. Advances
    BY <1>2, <1>3, <1>5, <2>2, <2>3, <2>5 DEF Advances, ActiveOK, ActiveLeases, IInv, TypeOK
  <2>7. QED
    BY <1>1, <2>6, AdvancesIInv
<1>6. QED
  BY <1>4, <1>5, Zenon DEF ReleasePrevious

\* The handle is asked for when no configuration holds a lease.
LEMMA RegisterIInv ==
  ASSUME IInv, Register
  PROVE  IInv'
<1>1. ~NoJob /\ job.pc = "register" /\ ~IsRefresh
  BY AtReconcile DEF Register
<1>2. /\ job \in Jobs /\ ReconcileOK /\ active = None /\ leases = job.leases
      /\ job.leases = {}
  BY <1>1, Running DEF ReconcileOK
<1>3. /\ UNCHANGED <<registry, aborted, active, activeRevision, publication, service, leases>>
      /\ handle' \in BOOLEAN
  BY DEF Register, host, IInv, TypeOK
<1>4. CASE EndReconcile(TRUE)
  BY <1>1, <1>2, <1>3, <1>4, GivesUpIInv DEF GivesUp
<1>5. CASE aborted /\ EndReconcile(FALSE)
  BY <1>1, <1>2, <1>3, <1>5, GivesUpIInv DEF GivesUp
<1>6. CASE /\ job' = [job EXCEPT !.todo = job.plan, !.pc = "sources"]
           /\ UNCHANGED <<queue, disposer, starting, failed>>
  <2>1. /\ job'.pc = "sources" /\ job'.plan = job.plan /\ job'.todo = job.plan
        /\ job'.leases = {} /\ job'.revision = job.revision /\ job'.catalog = job.catalog
    BY <1>2, <1>6 DEF Jobs
  <2>2. job' \in Jobs
    BY <1>2, <1>6 DEF Jobs, ReconcilePcs
  <2>3. JobOK'
    BY <1>1, <1>2, <1>3, <2>1 DEF JobOK, ReconcileOK, Reflects, Content, IsRefresh,
         PublishingPcs
  <2>4. Advances
    BY <1>2, <1>3, <1>6, <2>1, <2>2, <2>3 DEF Advances, ActiveOK, ActiveLeases, IInv, TypeOK
  <2>5. QED
    BY <1>1, <2>4, AdvancesIInv
<1>7. QED
  BY <1>4, <1>5, <1>6, Zenon DEF Register

\* The catch of a reconcile asks for the release of what it had acquired.
LEMMA CleanupIInv ==
  ASSUME IInv, Cleanup
  PROVE  IInv'
<1>1. ~NoJob /\ ~IsRefresh
  BY AtReconcile DEF Cleanup
<1>2. leases = job.leases
  BY <1>1, Running
<1>3. GivesUp(TRUE)
  BY <1>2 DEF Cleanup, Release, GivesUp, IInv, TypeOK
<1>4. QED
  BY <1>1, <1>3, GivesUpIInv

\* Something in activate() threw: the job goes to its clean-up with what it leased.
LEMMA GotoCleanupIInv ==
  ASSUME IInv, ~NoJob, ~IsRefresh, job.pc # "release",
         job' \in Jobs, job'.pc = "cleanup", job'.revision = job.revision,
         job'.catalog = job.catalog, job'.plan = job.plan,
         leases' = job'.leases,
         UNCHANGED <<registry, aborted, queue, active, activeRevision, handle, disposer,
                     starting, failed>>,
         publication' \in (SUBSET Models) \cup {None}, service' \in SUBSET Entries
  PROVE  IInv'
<1>1. ReconcileOK /\ active = None
  BY Running
<1>2. JobOK'
  BY <1>1 DEF JobOK, ReconcileOK, Reflects, Content, IsRefresh, PublishingPcs
<1>3. Advances
  BY <1>1, <1>2 DEF Advances, ActiveOK, ActiveLeases, IInv, TypeOK
<1>4. QED
  BY <1>3, AdvancesIInv

\* Every source is leased before it is taken from what is left to do.
LEMMA AcquireSourceIInv ==
  ASSUME IInv, AcquireSource
  PROVE  IInv'
<1>1. ~NoJob /\ job.pc = "sources" /\ ~IsRefresh
  BY AtReconcile DEF AcquireSource
<1>2. /\ job \in Jobs /\ ReconcileOK /\ active = None /\ leases = job.leases
      /\ job.leases \cup job.todo = job.plan
      /\ publication \in (SUBSET Models) \cup {None} /\ service \in SUBSET Entries
  BY <1>1, Running DEF ReconcileOK, IInv, TypeOK
<1>3. UNCHANGED <<registry, aborted, queue, active, activeRevision, handle, publication,
                  disposer, starting, failed, service>>
  BY DEF AcquireSource
<1>4. ASSUME Goto("cleanup"), UNCHANGED leases
      PROVE  IInv'
  <2>1. job' \in Jobs /\ job'.pc = "cleanup" /\ job'.leases = job.leases
        /\ job'.revision = job.revision /\ job'.catalog = job.catalog /\ job'.plan = job.plan
    BY <1>2, <1>4 DEF Goto, Jobs, ReconcilePcs
  <2>2. QED
    BY <1>1, <1>2, <1>3, <1>4, <2>1, GotoCleanupIInv
<1>5. ASSUME NEW e \in job.todo, leases' = leases \cup {e},
             job' = [job EXCEPT !.leases = @ \cup {e}, !.pc = "cleanup"]
      PROVE  IInv'
  <2>1. e \in Entries
    BY <1>2 DEF Jobs
  <2>2. job' \in Jobs /\ job'.pc = "cleanup" /\ job'.leases = job.leases \cup {e}
        /\ job'.revision = job.revision /\ job'.catalog = job.catalog /\ job'.plan = job.plan
    BY <1>2, <1>5, <2>1 DEF Jobs, ReconcilePcs
  <2>3. QED
    BY <1>1, <1>2, <1>3, <1>5, <2>2, GotoCleanupIInv
<1>6. ASSUME NEW e \in job.todo, NEW pc \in {"sources", "cleanup"}, leases' = leases \cup {e},
             job' = [job EXCEPT !.leases = @ \cup {e}, !.todo = @ \ {e}, !.pc = pc]
      PROVE  IInv'
  <2>1. e \in Entries
    BY <1>2 DEF Jobs
  <2>2. job'.pc = pc /\ job'.leases = job.leases \cup {e} /\ job'.todo = job.todo \ {e}
        /\ job'.revision = job.revision /\ job'.catalog = job.catalog /\ job'.plan = job.plan
    BY <1>2, <1>6 DEF Jobs
  <2>3. job' \in Jobs
    BY <1>2, <1>6, <2>1 DEF Jobs, ReconcilePcs
  <2>4. CASE pc = "cleanup"
    BY <1>1, <1>2, <1>3, <1>6, <2>2, <2>3, <2>4, GotoCleanupIInv
  <2>5. CASE pc = "sources"
    <3>1. job'.leases \cup job'.todo = job'.plan
      BY <1>2, <2>2
    <3>2. JobOK'
      BY <1>1, <1>2, <1>3, <2>2, <2>5, <3>1 DEF JobOK, ReconcileOK, Reflects, Content,
           IsRefresh, PublishingPcs
    <3>3. Advances
      BY <1>2, <1>3, <1>6, <2>2, <2>3, <3>2 DEF Advances, ActiveOK, ActiveLeases, IInv, TypeOK
    <3>4. QED
      BY <1>1, <3>3, AdvancesIInv
  <2>6. QED
    BY <2>4, <2>5
<1>7. QED
  BY <1>4, <1>5, <1>6, Zenon DEF AcquireSource

\* With every source leased the plan becomes the configuration the gateway runs.
LEMMA MaterializeIInv ==
  ASSUME IInv, Materialize
  PROVE  IInv'
<1>1. ~NoJob /\ job.pc = "sources" /\ ~IsRefresh
  BY AtReconcile DEF Materialize
<1>2. /\ job \in Jobs /\ ReconcileOK /\ active = None /\ leases = job.leases
      /\ job.leases = job.plan
      /\ publication \in (SUBSET Models) \cup {None} /\ service \in SUBSET Entries
      /\ job.plan \in SUBSET Entries
  BY <1>1, Running DEF ReconcileOK, IInv, TypeOK, Materialize, Jobs
<1>3. /\ UNCHANGED <<registry, aborted, queue, active, activeRevision, handle, publication,
                     disposer, starting, failed, leases>>
      /\ service' \in {service, job.plan}
  BY DEF Materialize
<1>4. ASSUME Goto("cleanup")
      PROVE  IInv'
  <2>1. job' \in Jobs /\ job'.pc = "cleanup" /\ job'.leases = job.leases
        /\ job'.revision = job.revision /\ job'.catalog = job.catalog /\ job'.plan = job.plan
    BY <1>2, <1>4 DEF Goto, Jobs, ReconcilePcs
  <2>2. QED
    BY <1>1, <1>2, <1>3, <2>1, GotoCleanupIInv
<1>5. ASSUME Goto("models"), service' = job.plan
      PROVE  IInv'
  <2>1. job' \in Jobs /\ job'.pc = "models" /\ job'.leases = job.leases
        /\ job'.revision = job.revision /\ job'.catalog = job.catalog /\ job'.plan = job.plan
    BY <1>2, <1>5 DEF Goto, Jobs, ReconcilePcs, PublishingPcs
  <2>2. JobOK'
    BY <1>1, <1>2, <1>3, <1>5, <2>1 DEF JobOK, ReconcileOK, Reflects, Content, IsRefresh,
         PublishingPcs
  <2>3. Advances
    BY <1>2, <1>3, <1>5, <2>1, <2>2 DEF Advances, ActiveOK, ActiveLeases, IInv, TypeOK
  <2>4. QED
    BY <1>1, <2>3, AdvancesIInv
<1>6. QED
  BY <1>4, <1>5 DEF Materialize

-----------------------------------------------------------------------------
(* Publishing, which reconciles and refreshes share                        *)

\* A step of publishing threw: a refresh ends, a reconcile goes to its clean-up.
LEMMA ThrowIInv ==
  ASSUME IInv, ~NoJob, job.pc \in PublishingPcs, Throw,
         UNCHANGED <<registry, aborted, active, activeRevision, handle, service, leases>>,
         publication' \in {publication, None}
  PROVE  IInv'
<1>1. /\ job \in Jobs
      /\ ~IsRefresh => leases = job.leases
      /\ publication' \in (SUBSET Models) \cup {None} /\ service' \in SUBSET Entries
  BY Running DEF IInv, TypeOK
<1>2. CASE IsRefresh
  <2>1. End(TRUE) /\ UNCHANGED failed
    BY <1>2 DEF Throw
  <2>2. ActiveOK'
    BY DEF IInv, ActiveOK, Reflects, Content, PublicationServed
  <2>3. QED
    BY <1>1, <1>2, <2>1, <2>2, RefreshEndsIInv DEF RefreshEnds
<1>3. CASE ~IsRefresh
  <2>1. Goto("cleanup") /\ UNCHANGED <<queue, disposer, starting, failed>>
    BY <1>3 DEF Throw
  <2>2. job' \in Jobs /\ job'.pc = "cleanup" /\ job'.leases = job.leases
        /\ job'.revision = job.revision /\ job'.catalog = job.catalog /\ job'.plan = job.plan
    BY <1>1, <2>1 DEF Goto, Jobs, ReconcilePcs
  <2>3. job.pc # "release"
    BY DEF PublishingPcs
  <2>4. QED
    BY <1>1, <1>3, <2>1, <2>2, <2>3, GotoCleanupIInv
<1>4. QED
  BY <1>2, <1>3

\* Publishing is done: a refresh ends, a reconcile has only to take the activation
\* into force.
LEMMA ReturnIInv ==
  ASSUME IInv, ~NoJob, job.pc \in PublishingPcs, Return,
         UNCHANGED <<registry, aborted, active, activeRevision, handle, service, leases>>,
         publication' \in (SUBSET Models) \cup {None}, PublicationServed'
  PROVE  IInv'
<1>1. /\ job \in Jobs /\ leases = ActiveLeases \cup job.leases
      /\ ~IsRefresh => ReconcileOK /\ active = None
      /\ service' \in SUBSET Entries
  BY Running DEF IInv, TypeOK
<1>2. ActiveOK'
  BY DEF IInv, ActiveOK, Reflects, Content
<1>3. CASE IsRefresh
  <2>1. End(FALSE) /\ UNCHANGED failed
    BY <1>3 DEF Return
  <2>2. QED
    BY <1>2, <1>3, <2>1, RefreshEndsIInv DEF RefreshEnds
<1>4. CASE ~IsRefresh
  <2>1. Goto("finish") /\ UNCHANGED <<queue, disposer, starting, failed>>
    BY <1>4 DEF Return
  <2>2. job' \in Jobs /\ job'.pc = "finish" /\ job'.leases = job.leases
        /\ job'.revision = job.revision /\ job'.catalog = job.catalog /\ job'.plan = job.plan
    BY <1>1, <2>1 DEF Goto, Jobs, ReconcilePcs
  <2>3. JobOK'
    BY <1>1, <1>4, <2>2 DEF JobOK, ReconcileOK, Reflects, Content, IsRefresh, PublishingPcs
  <2>4. Advances
    BY <1>1, <1>2, <2>1, <2>2, <2>3 DEF Advances, IInv, TypeOK
  <2>5. QED
    BY <2>4, AdvancesIInv
<1>5. QED
  BY <1>3, <1>4

\* A job that goes on publishing, with the models it read.
LEMMA PublishingIInv ==
  ASSUME IInv, ~NoJob, job.pc \in PublishingPcs, NEW pc \in {"unpublish", "publish"},
         NEW models \in SUBSET (service \cup {Account}),
         job' = [job EXCEPT !.models = models, !.pc = pc],
         UNCHANGED <<registry, aborted, queue, active, activeRevision, handle, disposer,
                     starting, failed, service, leases>>,
         publication' \in {publication, None},
         pc = "publish" => publication' = None
  PROVE  IInv'
<1>1. /\ job \in Jobs /\ leases = ActiveLeases \cup job.leases
      /\ IF IsRefresh THEN RefreshOK ELSE ReconcileOK
      /\ publication' \in (SUBSET Models) \cup {None} /\ service \in SUBSET Entries
  BY Running DEF IInv, TypeOK
<1>2. models \in SUBSET Models
  BY <1>1 DEF Models
<1>3. job'.pc = pc /\ job'.leases = job.leases /\ job'.models = models
      /\ job'.revision = job.revision /\ job'.catalog = job.catalog /\ job'.plan = job.plan
  BY <1>1 DEF Jobs
<1>4. job' \in Jobs
  BY <1>1, <1>2 DEF Jobs, ReconcilePcs, PublishingPcs
<1>5. JobOK'
  BY <1>1, <1>3 DEF JobOK, RefreshOK, ReconcileOK, Reflects, Content, IsRefresh, PublishingPcs
<1>6. ActiveOK'
  BY DEF IInv, ActiveOK, Reflects, Content, PublicationServed
<1>7. Advances
  BY <1>1, <1>3, <1>4, <1>5, <1>6 DEF Advances, IInv, TypeOK
<1>8. QED
  BY <1>7, AdvancesIInv

\* Reading the models: the answer is what is served then, and it is published later.
LEMMA ReadModelsIInv ==
  ASSUME IInv, ReadModels
  PROVE  IInv'
<1>1. ~NoJob /\ job.pc \in PublishingPcs
  BY DEF ReadModels, At, NoJob, PublishingPcs
<1>2. UNCHANGED <<registry, aborted, active, activeRevision, handle, publication, service,
                  leases>>
  BY DEF ReadModels, host
<1>3. CASE Throw
  BY <1>1, <1>2, <1>3, ThrowIInv
<1>4. ASSUME NEW models \in SUBSET (service \cup {Account}),
             job' = [job EXCEPT !.models = models, !.pc = "unpublish"],
             UNCHANGED <<queue, disposer, starting, failed>>
      PROVE  IInv'
  BY <1>1, <1>2, <1>4, PublishingIInv
<1>5. QED
  BY <1>3, <1>4, Zenon DEF ReadModels

\* The old publication is forgotten before the new one is made.
LEMMA UnpublishIInv ==
  ASSUME IInv, Unpublish
  PROVE  IInv'
<1>1. ~NoJob /\ job.pc = "unpublish" /\ job.pc \in PublishingPcs
  BY DEF Unpublish, At, NoJob, PublishingPcs
<1>2. UNCHANGED <<registry, aborted, active, activeRevision, handle, service, leases>>
  BY DEF Unpublish
<1>3. /\ job \in Jobs /\ job.models \in SUBSET (service \cup {Account})
      /\ publication \in (SUBSET Models) \cup {None}
  BY <1>1, Running DEF IInv, TypeOK
<1>4. CASE Digest(job.models) = publication /\ Return /\ UNCHANGED publication
  <2>1. PublicationServed'
    BY <1>2, <1>3, <1>4 DEF Digest, PublicationServed
  <2>2. QED
    BY <1>1, <1>2, <1>3, <1>4, <2>1, ReturnIInv
<1>5. CASE /\ publication' = None
           /\ Goto("publish") /\ UNCHANGED <<queue, disposer, starting, failed>>
  <2>1. job' = [job EXCEPT !.models = job.models, !.pc = "publish"]
    BY <1>3, <1>5 DEF Goto, Jobs
  <2>2. QED
    BY <1>1, <1>2, <1>3, <1>5, <2>1, PublishingIInv
<1>6. CASE publication' = None /\ Throw
  BY <1>1, <1>2, <1>6, ThrowIInv
<1>7. QED
  BY <1>4, <1>5, <1>6 DEF Unpublish

\* Publishing, not publishing at all, or a throw: the job ends its publication.
LEMMA PublishIInv ==
  ASSUME IInv, Publish
  PROVE  IInv'
<1>1. ~NoJob /\ job.pc = "publish" /\ job.pc \in PublishingPcs
  BY DEF Publish, At, NoJob, PublishingPcs
<1>2. UNCHANGED <<registry, aborted, active, activeRevision, handle, service, leases>>
  BY DEF Publish
<1>3. /\ job \in Jobs /\ job.models \in SUBSET (service \cup {Account})
      /\ job.models \in SUBSET Models /\ publication = None
  BY <1>1, Running DEF IInv, TypeOK, Jobs
<1>4. CASE Return /\ UNCHANGED publication
  BY <1>1, <1>2, <1>3, <1>4, ReturnIInv DEF PublicationServed
<1>5. CASE publication' = job.models /\ Return
  BY <1>1, <1>2, <1>3, <1>5, ReturnIInv DEF PublicationServed
<1>6. CASE Throw /\ UNCHANGED publication
  BY <1>1, <1>2, <1>6, ThrowIInv
<1>7. QED
  BY <1>4, <1>5, <1>6 DEF Publish

\* The activation comes into force with the leases its job holds, under the revision
\* the job read; after an abort it does not, and its leases go back.
LEMMA FinishIInv ==
  ASSUME IInv, Finish
  PROVE  IInv'
<1>1. ~NoJob /\ job.pc = "finish" /\ ~IsRefresh
  BY AtReconcile DEF Finish
<1>2. /\ job \in Jobs /\ job.revision \in Revisions /\ active = None /\ leases = job.leases
      /\ job.leases = job.plan /\ service = job.plan /\ PublicationServed
      /\ Reflects(job.revision, job.plan)
  BY <1>1, Running DEF ReconcileOK
<1>3. /\ activeRevision' = job.revision[1]
      /\ UNCHANGED <<registry, aborted, handle, publication, service>>
  BY DEF Finish
<1>4. ASSUME NEW threw \in BOOLEAN, aborted, leases' = leases \ job.leases,
             UNCHANGED active, EndReconcile(threw)
      PROVE  IInv'
  <2>1. GivesUp(threw)
    BY <1>2, <1>3, <1>4 DEF GivesUp, IInv, TypeOK
  <2>2. QED
    BY <1>1, <2>1, GivesUpIInv
<1>5. CASE /\ ~aborted /\ UNCHANGED leases
           /\ active' = [revision |-> job.revision, leases |-> job.leases]
           /\ EndReconcile(FALSE)
  <2>1. /\ job' = Idle /\ NoJob' /\ starting' = FALSE /\ failed' = FALSE
        /\ QueueOK(queue', disposer')
        /\ disposer' \in {"none", "awaiting"}
        /\ Bound' => Bound /\ queue' = queue
    BY <1>1, <1>5, JobEnds DEF EndReconcile
  <2>2. /\ active' \in Activations /\ active' # None
        /\ active'.revision = job.revision /\ active'.leases = job.leases
    BY <1>2, <1>5 DEF Activations, Jobs, Revisions
  <2>3. TypeOK' /\ LeasesAccounted' /\ JobOK' /\ TornDownOK'
    BY <1>2, <1>3, <1>5, <2>1, <2>2 DEF IInv, TypeOK, LeasesAccounted, ActiveLeases, JobLeases,
         JobOK, TornDownOK, TornDown
  <2>4. ActiveOK'
    BY <1>2, <1>3, <2>2 DEF ActiveOK, Reflects, Content, PublicationServed
  <2>5. ShownOK' /\ StartingOK'
    BY <1>3, <1>5, <2>1, <2>2 DEF ShownOK, StartingOK
  <2>6. NothingMissed'
    BY <1>1, <1>2, <1>3, <2>1, <2>2 DEF IInv, NothingMissed, Revision
  <2>7. QED
    BY <2>1, <2>3, <2>4, <2>5, <2>6 DEF IInv
<1>6. QED
  BY <1>4, <1>5 DEF Finish, Release

\* A refresh begins only for an activation in force.
LEMMA StartRefreshIInv ==
  ASSUME IInv, StartRefresh
  PROVE  IInv'
<1>1. /\ NoJob /\ queue # <<>> /\ Head(queue) = "refresh" /\ queue' = Tail(queue)
      /\ UNCHANGED <<registry, aborted, active, activeRevision, handle, publication,
                     disposer, starting, failed, service, leases>>
      /\ job' = IF aborted \/ active = None
                  THEN Idle
                  ELSE [pc |-> "models", revision |-> None, catalog |-> {}, plan |-> {},
                        todo |-> {}, models |-> {}, leases |-> {}]
  BY DEF StartRefresh, host
<1>2. QueueOK(queue', disposer') /\ (Scheduled(queue) => Scheduled(queue'))
  BY <1>1, TailOK DEF IInv
<1>3. ~starting
  BY <1>1 DEF IInv, StartingOK
<1>4. CASE aborted \/ active = None
  <2>1. job' = Idle /\ NoJob'
    BY <1>1, <1>4 DEF NoJob
  <2>2. TypeOK' /\ LeasesAccounted' /\ JobOK' /\ TornDownOK' /\ ShownOK' /\ StartingOK'
    BY <1>1, <1>3, <2>1 DEF IInv, TypeOK, LeasesAccounted, ActiveLeases, JobLeases, NoJob,
         JobOK, TornDownOK, ShownOK, StartingOK, Bound
  <2>3. ActiveOK'
    BY <1>1 DEF IInv, ActiveOK, Reflects, Content, PublicationServed
  <2>4. NothingMissed'
    BY <1>1, <1>2, <2>1 DEF IInv, NothingMissed, NoJob, Bound, Revision
  <2>5. QED
    BY <1>2, <2>2, <2>3, <2>4 DEF IInv
<1>5. CASE ~(aborted \/ active = None)
  <2>1. job' = [pc |-> "models", revision |-> None, catalog |-> {}, plan |-> {},
                todo |-> {}, models |-> {}, leases |-> {}]
    BY <1>1, <1>5
  <2>2. /\ job' \in Jobs /\ ~NoJob' /\ IsRefresh'
        /\ job'.pc = "models" /\ job'.leases = {}
    BY <2>1 DEF Jobs, ReconcilePcs, PublishingPcs, NoJob, Idle, IsRefresh
  <2>3. disposer \notin TornDown
    BY <1>5 DEF IInv, TornDownOK
  <2>4. TypeOK' /\ LeasesAccounted' /\ TornDownOK' /\ ShownOK' /\ StartingOK'
    BY <1>1, <1>3, <2>2, <2>3 DEF IInv, TypeOK, LeasesAccounted, ActiveLeases, JobLeases,
         TornDownOK, TornDown, ShownOK, StartingOK, Bound
  <2>5. JobOK'
    BY <2>2 DEF JobOK, RefreshOK, PublishingPcs
  <2>6. ActiveOK'
    BY <1>1 DEF IInv, ActiveOK, Reflects, Content, PublicationServed
  <2>7. NothingMissed'
    BY <1>1, <1>2, <2>2 DEF IInv, NothingMissed, Bound, Revision
  <2>8. QED
    BY <1>2, <2>4, <2>5, <2>6, <2>7 DEF IInv
<1>6. QED
  BY <1>4, <1>5

-----------------------------------------------------------------------------
(* dispose()                                                               *)

\* When the teardown comes to run, only refreshes are scheduled behind it.
LEMMA TeardownIInv ==
  ASSUME IInv, Teardown
  PROVE  IInv'
<1>1. /\ NoJob /\ queue # <<>> /\ Head(queue) = "teardown" /\ queue' = Tail(queue)
      /\ active' = None /\ disposer' = "publication"
      /\ leases' = IF active = None THEN leases ELSE leases \ active.leases
      /\ UNCHANGED <<registry, aborted, job, handle, publication, starting, failed, service>>
  BY DEF Teardown, Release
<1>2. QueueOK(queue', "publication")
  <2>1. queue \in Seq(Kinds) /\ QueueOK(queue, disposer)
    BY DEF IInv, QueueOK
  <2>2. /\ queue[1] = "teardown" /\ Tail(queue) \in Seq(Kinds)
        /\ Len(queue) \in Nat /\ Len(queue) >= 1 /\ Len(Tail(queue)) = Len(queue) - 1
        /\ \A i \in 1 .. Len(Tail(queue)) : Tail(queue)[i] = queue[i + 1]
    BY <1>1, <2>1, HeadScheduled
  <2>3. \A i \in 1 .. Len(Tail(queue)) : i + 1 \in 1 .. Len(queue) /\ 1 < i + 1
    BY <2>2
  <2>4. \A i \in 1 .. Len(Tail(queue)) : Tail(queue)[i] = "refresh"
    BY <2>1, <2>2, <2>3 DEF QueueOK
  <2>5. QED
    BY <1>1, <2>2, <2>4 DEF QueueOK
<1>3. TypeOK'
  BY <1>1 DEF IInv, TypeOK, TornDown
<1>4. LeasesAccounted'
  BY <1>1 DEF IInv, LeasesAccounted, ActiveLeases, JobLeases, NoJob
<1>5. JobOK' /\ ActiveOK' /\ ShownOK' /\ TornDownOK' /\ NothingMissed'
  BY <1>1 DEF NoJob, JobOK, ActiveOK, ShownOK, TornDownOK, NothingMissed, Bound
<1>6. StartingOK'
  BY <1>1 DEF IInv, StartingOK, NoJob, Bound
<1>7. QED
  BY <1>1, <1>2, <1>3, <1>4, <1>5, <1>6 DEF IInv

\* The disposal goes on, publication first and the handle after it.
LEMMA TeardownGoesOnIInv ==
  ASSUME IInv, TeardownPublication \/ TeardownHandle
  PROVE  IInv'
<1>1. /\ disposer \in TornDown /\ disposer' \in TornDown
      /\ UNCHANGED <<registry, aborted, queue, job, active, starting, failed, leases>>
      /\ publication' \in {publication, None}
      /\ disposer' = "handle" => publication' = None
      /\ disposer' = "done" => ~handle' /\ publication' = publication /\ disposer = "handle"
      /\ service' \in {service, {}} /\ handle' \in {handle, FALSE}
  BY DEF TeardownPublication, TeardownHandle, TornDown
<1>2. NoJob /\ active = None /\ disposer # "none"
  BY <1>1 DEF IInv, TornDownOK, TornDown
<1>3. TypeOK' /\ LeasesAccounted' /\ QueueOK(queue', disposer')
  BY <1>1 DEF IInv, TypeOK, LeasesAccounted, ActiveLeases, JobLeases, NoJob, QueueOK, TornDown
<1>4. JobOK' /\ ActiveOK' /\ ShownOK' /\ NothingMissed'
  BY <1>1, <1>2 DEF NoJob, JobOK, ActiveOK, ShownOK, NothingMissed, Bound, TornDown
<1>5. TornDownOK'
  BY <1>1, <1>2 DEF IInv, TornDownOK, NoJob, TornDown
<1>6. StartingOK'
  BY <1>1, <1>2 DEF IInv, StartingOK, NoJob, Bound, TornDown
<1>7. QED
  BY <1>3, <1>4, <1>5, <1>6 DEF IInv

-----------------------------------------------------------------------------
(* What the runs check, for every instance                                 *)

\* Every step of the program and of the host keeps the invariant.
LEMMA NextIInv ==
  ASSUME IInv, [Next]_vars
  PROVE  IInv'
  BY ChangeIInv, CloseIInv, RequestRefreshIInv, DisposeIInv, HostRevokesIInv,
     StartReconcileIInv, ReleasePreviousIInv, RegisterIInv, AcquireSourceIInv,
     MaterializeIInv, ReadModelsIInv, UnpublishIInv, PublishIInv, FinishIInv, CleanupIInv,
     StartRefreshIInv, TeardownIInv, TeardownGoesOnIInv
  DEF Next, CodeStep

\* The inductive invariant holds in every state the gateway reaches.
THEOREM Inductive == Spec => []IInv
  BY InitIInv, NextIInv, PTL DEF Spec

\* No lease is lost track of before its release is asked for, whichever other call
\* fails and whenever the signal is aborted.
THEOREM NoLeaseForgotten == Spec => []LeasesAccounted
<1>1. IInv => LeasesAccounted
  BY DEF IInv
<1>2. QED
  BY <1>1, Inductive, PTL

\* dispose() is final: once it is through the code holds nothing, no job runs, and
\* only refreshes can come, which take nothing again.
THEOREM DisposalIsFinal == Spec => []DisposedIsClean
<1>1. IInv => DisposedIsClean
  BY DEF IInv, DisposedIsClean, QueueOK, TornDownOK, TornDown, LeasesAccounted, ActiveLeases,
         JobLeases
<1>2. QED
  BY <1>1, Inductive, PTL

\* When the chain has come to rest and its last reconcile did not fail, the gateway
\* runs, leases and publishes what the registries hold now.
THEOREM SettledMeansCurrent == Spec => []SettledIsCurrent
<1>1. ASSUME IInv, Settled, Bound, ~failed, ~registry.closed
      PROVE  /\ active # None
             /\ active.revision = Revision
             /\ service = Content
             /\ Content \subseteq leases
             /\ publication # None => publication \subseteq Content \cup {Account}
  <2>1. NoJob /\ ~Scheduled(queue)
    BY <1>1 DEF Settled, Scheduled
  <2>2. active # None /\ active.revision = Revision
    BY <1>1, <2>1 DEF IInv, NothingMissed
  <2>3. active.leases = service /\ Reflects(active.revision, service) /\ PublicationServed
    BY <1>1, <2>2 DEF IInv, ActiveOK
  <2>4. service \cap Upstreams = Content \cap Upstreams
        /\ service \cap Connections = Content \cap Connections
    BY <2>2, <2>3 DEF Reflects, Revision
  <2>5. service \subseteq Entries /\ Content \subseteq Entries
    BY <1>1 DEF IInv, TypeOK, Content
  <2>6. service = Content
    BY <2>4, <2>5 DEF Entries
  <2>7. leases = service
    BY <1>1, <2>1, <2>2, <2>3 DEF IInv, LeasesAccounted, ActiveLeases, JobLeases
  <2>8. QED
    BY <2>2, <2>3, <2>6, <2>7 DEF PublicationServed
<1>2. IInv => SettledIsCurrent
  BY <1>1 DEF SettledIsCurrent
<1>3. QED
  BY <1>2, Inductive, PTL

\* What the UI shows as active is what the gateway runs and has leased.
THEOREM ShownMeansServed == Spec => []ShownActiveIsServed
<1>1. ASSUME IInv, Bound, ~registry.closed, activeRevision = registry.upstream
      PROVE  /\ active # None
             /\ service \cap Upstreams = Content \cap Upstreams
             /\ Content \cap Upstreams \subseteq leases
  <2>1. activeRevision # None
    BY <1>1 DEF IInv, TypeOK
  <2>2. active # None /\ active.revision[1] = registry.upstream
    BY <1>1, <2>1 DEF IInv, ShownOK
  <2>3. service \cap Upstreams = Content \cap Upstreams /\ active.leases = service
    BY <1>1, <2>2 DEF IInv, ActiveOK, Reflects
  <2>4. active.leases \subseteq leases
    BY <1>1, <2>2 DEF IInv, LeasesAccounted, ActiveLeases
  <2>5. QED
    BY <2>2, <2>3, <2>4
<1>2. IInv => ShownActiveIsServed
  BY <1>1 DEF ShownActiveIsServed
<1>3. QED
  BY <1>2, Inductive, PTL
=============================================================================
