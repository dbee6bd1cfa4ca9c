------------------------------- MODULE Gateway ------------------------------
(***************************************************************************)
(* activateCliProxyGateway (src/src/service/gateway.ts): one coroutine     *)
(* chain rebuilds the managed gateway whenever a registry changes.  Every  *)
(* await is a point where the registries may change, the Host may abort,   *)
(* or the UI may ask for a model refresh; one action is the code from one  *)
(* await to the next.  Jobs run one at a time, in the order they were      *)
(* scheduled on `transition`.  A call to the Host and its answer are one   *)
(* step: the code reads nothing shared in between that it uses later.      *)
(*                                                                         *)
(* An upstream or a connection stands for its gateway models; its source   *)
(* is the managed service it leases.  The revision of an activation is the *)
(* pair of the registries' revisions, which both digests contain.          *)
(***************************************************************************)
EXTENDS Integers, Sequences, FiniteSets

CONSTANTS
  Upstreams,      \* what may be registered and enabled in the upstream registry
  Connections,    \* what the extension registry's plan may enable
  Account,        \* the models the gateway serves from its own accounts
  None,           \* undefined
  MaxChanges,     \* bound of the model on registry changes
  MaxRefreshes    \* bound of the model on refreshes the UI asks for

Entries == Upstreams \cup Connections
Models == Entries \cup {Account}

ASSUME ConstantsAssumption ==
  /\ Upstreams \cap Connections = {}
  /\ Account \notin Entries
  /\ \A models \in SUBSET Models : None # models
  /\ None \notin Nat /\ None \notin Nat \X Nat
  /\ None \notin [revision : Nat \X Nat, leases : SUBSET Entries]
  /\ MaxChanges \in Nat
  /\ MaxRefreshes \in Nat

VARIABLES
  registry,      \* both registries: entries, revision of each, closed
  aborted,       \* input.signal.aborted
  refreshes,     \* refreshes asked for so far
  queue,         \* jobs scheduled on `transition` and not begun
  job,           \* the job that is running, and the locals it keeps over awaits
  active,        \* the activation in force: its revision and its leases
  activeRevision,
  handle,        \* the gateway is registered as a managed service
  publication,   \* the models published through the handle the code holds
  disposer,      \* how far dispose() has come
  starting,      \* activateCliProxyGateway still awaits its first reconcile
  failed,        \* the last reconcile that ended threw
  service,       \* Host: the entries of the configuration the gateway runs
  leases,        \* Host: the sources with a lease the code has not asked to release
  kept,          \* Host: the sources of leases whose release threw; the code has
                 \* let go of them all the same
  published,     \* Host: the live native publications, by what they publish
  unseen         \* Host: entries whose source did not list the declared models
                 \* when its models were last asked for

program == <<queue, job, active, activeRevision, handle, publication, disposer,
             starting, failed>>
host == <<service, leases, kept, published, unseen>>
vars == <<registry, aborted, refreshes, program, host>>

Idle == [pc |-> "idle"]

NoJob == job = Idle

Bound == disposer = "none"      \* subscribed to the registries and to the UI

\* What both registries hold now, and what names it.
Content == registry.entries
Revision == <<registry.upstream, registry.extension>>

-----------------------------------------------------------------------------
(* Scheduling                                                              *)

Init ==
  /\ registry = [entries |-> {}, upstream |-> 0, extension |-> 0, closed |-> FALSE]
  /\ aborted \in BOOLEAN
  /\ refreshes = 0
  /\ queue = <<"reconcile">>
  /\ job = Idle
  /\ active = None
  /\ activeRevision = None
  /\ handle = FALSE
  /\ publication = None
  /\ disposer = "none"
  /\ starting = TRUE
  /\ failed = FALSE
  /\ service = {}
  /\ leases = {}
  /\ kept = {}
  /\ published = {}
  /\ unseen = {}

\* Mutant: what comes while a job runs is left to that job.
NotifiedWhenIdle == IF Bound /\ NoJob THEN Append(queue, "reconcile") ELSE queue

\* schedule(): both registries call it when they announce a change.
Notified == IF Bound THEN Append(queue, "reconcile") ELSE queue

\* dispose(), up to `await transition`; a second call returns the first's promise.
BeginDispose(pending) ==
  IF Bound
    THEN disposer' = "awaiting" /\ queue' = Append(pending, "teardown")
    ELSE UNCHANGED disposer /\ queue' = pending

\* A registry entry is added, updated or removed.
Change ==
  /\ ~registry.closed
  /\ registry.upstream + registry.extension < MaxChanges
  /\ \/ \E entries \in SUBSET Upstreams :
          registry' = [registry EXCEPT !.upstream = @ + 1,
                         !.entries = entries \cup (@ \cap Connections)]
     \/ \E entries \in SUBSET Connections :
          registry' = [registry EXCEPT !.extension = @ + 1,
                         !.entries = entries \cup (@ \cap Upstreams)]
  /\ queue' = Notified
  /\ UNCHANGED <<aborted, refreshes, job, active, activeRevision, handle, publication,
                 disposer, starting, failed, host>>

\* The roots of the context services are disposed: nothing is announced.
CloseRegistries ==
  /\ ~registry.closed
  /\ registry' = [entries |-> {}, upstream |-> registry.upstream + 1,
                  extension |-> registry.extension + 1, closed |-> TRUE]
  /\ UNCHANGED <<aborted, refreshes, program, host>>

\* The UI refreshes the models after an account changed.  An operation that was
\* under way when the UI was unbound may still come to this.
RequestRefresh ==
  /\ refreshes < MaxRefreshes
  /\ refreshes' = refreshes + 1
  /\ queue' = Append(queue, "refresh")
  /\ UNCHANGED <<registry, aborted, job, active, activeRevision, handle, publication,
                 disposer, starting, failed, host>>

\* onAbort
Abort ==
  /\ ~aborted
  /\ aborted' = TRUE
  /\ BeginDispose(queue)
  /\ UNCHANGED <<registry, refreshes, job, active, activeRevision, handle, publication,
                 starting, failed, host>>

\* The plugin's effect is cleaned up without an abort.
EffectCleanup ==
  /\ Bound
  /\ BeginDispose(queue)
  /\ UNCHANGED <<registry, aborted, refreshes, job, active, activeRevision, handle,
                 publication, starting, failed, host>>

\* The Host withdraws a publication on its own account.
HostRevokes ==
  /\ \E models \in published : published' = published \ {models}
  /\ UNCHANGED <<registry, aborted, refreshes, program, service, leases, kept, unseen>>

-----------------------------------------------------------------------------
(* The running job                                                         *)

At(pc) == job # Idle /\ job.pc = pc

\* The job goes on after its next await.
Goto(pc) == job' = [job EXCEPT !.pc = pc]

\* The job ends, and with the first one activateCliProxyGateway returns or fails:
\* when it failed, or was aborted meanwhile, everything is disposed.
End(threw) ==
  /\ job' = Idle
  /\ starting' = FALSE
  /\ IF starting /\ (threw \/ aborted)
       THEN BeginDispose(queue)
       ELSE UNCHANGED <<queue, disposer>>

\* Mutant: a reconcile that failed is scheduled again at once.
EndReconcileRetrying(threw) ==
  /\ failed' = threw
  /\ job' = Idle
  /\ starting' = FALSE
  /\ queue' = IF threw /\ Bound THEN Append(queue, "reconcile") ELSE queue
  /\ UNCHANGED disposer

\* A reconcile ends; `failed` remembers how.
EndReconcile(threw) == End(threw) /\ failed' = threw

\* cleanup(): each lease is taken off the list and its release is tried, once.  One
\* that throws stays with the Host, and nothing asks for it again.
Release(held, failing) ==
  /\ leases' = leases \ held
  /\ kept' = kept \cup failing

\* Mutant: the activation is dropped and still shown.
StartReconcileStillShown ==
  /\ NoJob
  /\ queue # <<>>
  /\ Head(queue) = "reconcile"
  /\ ~aborted /\ ~registry.closed
  /\ ~(active # None /\ active.revision = Revision)
  /\ queue' = Tail(queue)
  /\ active' = None
  /\ job' = [pc |-> "release", revision |-> Revision, catalog |-> Content,
             plan |-> {}, todo |-> {}, models |-> {},
             leases |-> IF active = None THEN {} ELSE active.leases]
  /\ UNCHANGED <<registry, aborted, refreshes, activeRevision, disposer, starting, failed,
                 handle, publication, host>>

\* A reconcile starts: it reads the catalog and the extension plan, drops the
\* activation in force unless it is of this revision, and releases its leases.
StartReconcile ==
  /\ NoJob
  /\ queue # <<>>
  /\ Head(queue) = "reconcile"
  /\ LET current == active # None /\ active.revision = Revision
         rest == Tail(queue)
     IN  \/ /\ aborted \/ registry.closed \/ current
            /\ failed' = (~aborted /\ registry.closed)
            /\ starting' = FALSE
            /\ IF starting /\ (aborted \/ registry.closed)
                 THEN BeginDispose(rest)
                 ELSE queue' = rest /\ UNCHANGED disposer
            /\ UNCHANGED <<job, active, activeRevision>>
         \/ /\ ~aborted /\ ~registry.closed /\ ~current
            /\ queue' = rest
            /\ active' = None
            /\ activeRevision' = None
            /\ job' = [pc |-> "release", revision |-> Revision, catalog |-> Content,
                       plan |-> {}, todo |-> {}, models |-> {},
                       leases |-> IF active = None THEN {} ELSE active.leases]
            /\ UNCHANGED <<disposer, starting, failed>>
  /\ UNCHANGED <<registry, aborted, refreshes, handle, publication, host>>

\* await previous?.dispose(): every release is tried; if any threw the job ends.
\* Otherwise the upstream plan is read, which may be newer than the catalog.
ReleasePrevious ==
  /\ At("release")
  /\ \E failing \in SUBSET job.leases :
       /\ Release(job.leases, failing)
       /\ \/ /\ failing = {} /\ ~registry.closed
             /\ job' = [job EXCEPT !.leases = {},
                          !.plan = (Content \cap Upstreams) \cup (job.catalog \cap Connections),
                          !.pc = "register"]
             /\ UNCHANGED <<queue, disposer, starting, failed>>
          \/ /\ failing # {} \/ registry.closed
             /\ EndReconcile(TRUE)
  /\ UNCHANGED <<registry, aborted, refreshes, active, activeRevision, handle,
                 publication, service, published, unseen>>

\* The gateway is registered once.  Then, unless aborted, activate() begins.
Register ==
  /\ At("register")
  /\ \/ /\ ~handle
        /\ UNCHANGED handle
        /\ EndReconcile(TRUE)
     \/ /\ handle' = TRUE
        /\ aborted
        /\ EndReconcile(FALSE)
     \/ /\ handle' = TRUE
        /\ ~aborted
        /\ job' = [job EXCEPT !.todo = job.plan, !.pc = "sources"]
        /\ UNCHANGED <<queue, disposer, starting, failed>>
  /\ UNCHANGED <<registry, aborted, refreshes, active, activeRevision, publication, host>>

\* Something in activate() threw: release what was leased, then rethrow.
Cleanup ==
  /\ At("cleanup")
  /\ \E failing \in SUBSET job.leases : Release(job.leases, failing)
  /\ EndReconcile(TRUE)
  /\ UNCHANGED <<registry, aborted, refreshes, active, activeRevision, handle,
                 publication, service, published, unseen>>

\* What activate() asks of an upstream whose source answered: the models the
\* catalog declares.  An upstream the catalog does not know declares none.
Validated(e, listed) == listed \/ e \notin job.catalog

\* One turn of the loops over the composed sources: lease the source and, if it is
\* an upstream's, ask for its models.
AcquireSource ==
  /\ At("sources")
  /\ \E e \in job.todo :
       \/ \* the lease is refused
          Goto("cleanup") /\ UNCHANGED <<leases, unseen>>
       \/ \* the lease is granted
          /\ leases' = leases \cup {e}
          /\ \/ \* a connection, or an upstream with the models it lists
                \E listed \in BOOLEAN :
                  /\ e \in Connections => listed
                  /\ unseen' = IF listed THEN unseen \ {e} ELSE unseen \cup {e}
                  /\ job' = [job EXCEPT !.leases = @ \cup {e}, !.todo = @ \ {e},
                               !.pc = IF Validated(e, listed) THEN "sources" ELSE "cleanup"]
             \/ \* the operation fails
                /\ e \in Upstreams
                /\ job' = [job EXCEPT !.leases = @ \cup {e}, !.pc = "cleanup"]
                /\ UNCHANGED unseen
  /\ UNCHANGED <<registry, aborted, refreshes, queue, active, activeRevision, handle,
                 publication, disposer, starting, failed, service, kept, published>>

\* Once every source is leased: client.materialize and handle.ensureReady, which
\* restart the gateway on the planned configuration.
Materialize ==
  /\ At("sources")
  /\ job.todo = {}
  /\ \/ Goto("cleanup") /\ service' \in {service, job.plan}
     \/ Goto("models") /\ service' = job.plan
  /\ UNCHANGED <<registry, aborted, refreshes, queue, active, activeRevision, handle,
                 publication, disposer, starting, failed, leases, kept, published, unseen>>

\* A job is the reconcile of a revision or the refresh of the models.
IsRefresh == job.revision = None

\* A step of publishing or reading threw.
Throw ==
  IF IsRefresh THEN End(TRUE) /\ UNCHANGED failed
               ELSE Goto("cleanup") /\ UNCHANGED <<queue, disposer, starting, failed>>

\* publishGatewayModels returned.
Return ==
  IF IsRefresh THEN End(FALSE) /\ UNCHANGED failed
               ELSE Goto("finish") /\ UNCHANGED <<queue, disposer, starting, failed>>

\* What the gateway must serve: what the catalog and the extension plan list.
Expected == job.catalog

\* readGatewayModels: a lease on the gateway for this call alone, whose release is
\* tried in any case.  A reconcile throws when an expected model is missing; a refresh takes what it gets.
ReadModels ==
  /\ At("models")
  /\ \/ Throw
     \/ \E models \in SUBSET (service \cup {Account}) :
          /\ handle
          /\ IsRefresh \/ Expected \subseteq models
          /\ job' = [job EXCEPT !.models = models, !.pc = "unpublish"]
          /\ UNCHANGED <<queue, disposer, starting, failed>>
  /\ UNCHANGED <<registry, aborted, refreshes, active, activeRevision, handle,
                 publication, host>>

\* The digest of what is to be published; nothing is published for no models.
Digest(models) == IF models = {} THEN None ELSE models

\* publishGatewayModels: the same models again are not published again; the old
\* publication is disposed first, and is forgotten before that is known to work.
Unpublish ==
  /\ At("unpublish")
  /\ \/ /\ Digest(job.models) = publication
        /\ Return
        /\ UNCHANGED <<publication, published>>
     \/ /\ Digest(job.models) # publication
        /\ publication' = None
        /\ \/ /\ published' = published \ {publication}
              /\ Goto("publish")
              /\ UNCHANGED <<queue, disposer, starting, failed>>
           \/ /\ publication # None
              /\ UNCHANGED published
              /\ Throw
  /\ UNCHANGED <<registry, aborted, refreshes, active, activeRevision, handle, service,
                 leases, kept, unseen>>

Publish ==
  /\ At("publish")
  /\ \/ /\ job.models = {} \/ aborted
        /\ Return
        /\ UNCHANGED <<publication, published>>
     \/ /\ job.models # {} /\ ~aborted
        /\ publication' = job.models
        /\ published' = published \cup {job.models}
        /\ Return
     \/ /\ job.models # {} /\ ~aborted
        /\ Throw
        /\ UNCHANGED <<publication, published>>
  /\ UNCHANGED <<registry, aborted, refreshes, active, activeRevision, handle, service,
                 leases, kept, unseen>>

\* Mutant: an activation the abort overtook is just not taken into force.
FinishForgettingLeases ==
  /\ At("finish")
  /\ activeRevision' = job.revision[1]
  /\ active' = IF aborted THEN active
                          ELSE [revision |-> job.revision, leases |-> job.leases]
  /\ EndReconcile(FALSE)
  /\ UNCHANGED <<registry, aborted, refreshes, handle, publication, host>>

\* activate() returned.  Unless the signal was aborted meanwhile the activation is
\* in force; otherwise its leases go back, and the job throws if one could not.
Finish ==
  /\ At("finish")
  /\ activeRevision' = job.revision[1]
  /\ \/ /\ aborted
        /\ UNCHANGED active
        /\ \E failing \in SUBSET job.leases :
             Release(job.leases, failing) /\ EndReconcile(failing # {})
     \/ /\ ~aborted
        /\ active' = [revision |-> job.revision, leases |-> job.leases]
        /\ UNCHANGED <<leases, kept>>
        /\ EndReconcile(FALSE)
  /\ UNCHANGED <<registry, aborted, refreshes, handle, publication, service, published,
                 unseen>>

\* Mutant: a refresh runs whatever happened since it was scheduled.
StartRefreshAnyway ==
  /\ NoJob
  /\ queue # <<>>
  /\ Head(queue) = "refresh"
  /\ queue' = Tail(queue)
  /\ job' = [pc |-> "models", revision |-> None, catalog |-> {}, plan |-> {},
             todo |-> {}, models |-> {}, leases |-> {}]
  /\ UNCHANGED <<registry, aborted, refreshes, active, activeRevision, handle,
                 publication, disposer, starting, failed, host>>

\* A refresh starts: only for an activation in force.
StartRefresh ==
  /\ NoJob
  /\ queue # <<>>
  /\ Head(queue) = "refresh"
  /\ queue' = Tail(queue)
  /\ job' = IF aborted \/ active = None
              THEN Idle
              ELSE [pc |-> "models", revision |-> None, catalog |-> {}, plan |-> {},
                    todo |-> {}, models |-> {}, leases |-> {}]
  /\ UNCHANGED <<registry, aborted, refreshes, active, activeRevision, handle,
                 publication, disposer, starting, failed, host>>

-----------------------------------------------------------------------------
(* dispose()                                                               *)

\* Everything scheduled before dispose() has run.  The activation is taken over
\* at once, so a job that follows finds none; its leases are released next, and a
\* release that throws is remembered for the caller and stops nothing.
Teardown ==
  /\ NoJob
  /\ queue # <<>>
  /\ Head(queue) = "teardown"
  /\ queue' = Tail(queue)
  /\ active' = None
  /\ \/ active = None /\ UNCHANGED <<leases, kept>>
     \/ /\ active # None
        /\ \E failing \in SUBSET active.leases : Release(active.leases, failing)
  /\ disposer' = "publication"
  /\ UNCHANGED <<registry, aborted, refreshes, job, activeRevision, handle, publication,
                 starting, failed, service, published, unseen>>

\* Mutant: a publication that cannot be disposed ends dispose().
TeardownPublicationThrows ==
  /\ disposer = "publication"
  /\ publication' = None
  /\ \/ published' = published \ {publication} /\ disposer' = "handle"
     \/ publication # None /\ UNCHANGED published /\ disposer' = "awaiting"
  /\ UNCHANGED <<registry, aborted, refreshes, queue, job, active, activeRevision, handle,
                 starting, failed, service, leases, kept, unseen>>

\* disposePublication: what the Host revoked already counts as disposed.  A failure
\* is remembered for the caller and stops nothing.
TeardownPublication ==
  /\ disposer = "publication"
  /\ publication' = None
  /\ \/ published' = published \ {publication}
     \/ publication # None /\ UNCHANGED published
  /\ disposer' = "handle"
  /\ UNCHANGED <<registry, aborted, refreshes, queue, job, active, activeRevision, handle,
                 starting, failed, service, leases, kept, unseen>>

\* handle.dispose() and client.dispose(), either of which may fail: then the Host may
\* keep what was not released before.
TeardownHandle ==
  /\ disposer = "handle"
  /\ handle' = FALSE
  /\ service' = {}
  /\ kept' \in {kept, {}}
  /\ disposer' = "done"
  /\ UNCHANGED <<registry, aborted, refreshes, queue, job, active, activeRevision,
                 publication, starting, failed, leases, published, unseen>>

-----------------------------------------------------------------------------

\* What the code does when the event loop comes to it.
CodeStep ==
  \/ StartReconcile \/ ReleasePrevious \/ Register \/ AcquireSource \/ Materialize
  \/ ReadModels \/ Unpublish \/ Publish \/ Finish \/ Cleanup \/ StartRefresh
  \/ Teardown \/ TeardownPublication \/ TeardownHandle

Next ==
  \/ Change \/ CloseRegistries \/ RequestRefresh \/ Abort \/ EffectCleanup \/ HostRevokes
  \/ CodeStep

\* The Host answers every call, and the event loop runs whatever can run.
Fairness == WF_vars(CodeStep)

Spec == Init /\ [][Next]_vars /\ Fairness

-----------------------------------------------------------------------------
(* Properties                                                              *)

ActiveLeases == IF active = None THEN {} ELSE active.leases
JobLeases == IF NoJob THEN {} ELSE job.leases

\* Nothing is scheduled or running.
Settled == NoJob /\ queue = <<>>

\* No lease is lost track of: one the Host granted is held by the activation in force
\* or by the job that is running until its release is asked for, whichever other call
\* failed in between and whenever the signal was aborted; and what they hold is still
\* leased.  A release that throws is not asked for again: the lease is in `kept`.
LeasesAccounted == leases = ActiveLeases \cup JobLeases

\* dispose() is final: once it is through, the release of every lease was asked for,
\* the code holds neither an activation nor the registration nor a publication, no
\* job runs, and only refreshes can come, which find no activation.  What the Host
\* refused to take back, a lease or a publication, may remain with it.
DisposedIsClean ==
  disposer = "done" =>
    /\ leases = {} /\ active = None /\ publication = None /\ ~handle
    /\ NoJob
    /\ \A i \in 1 .. Len(queue) : queue[i] = "refresh"

\* When nothing is left to do and the last reconcile did not fail, the gateway runs
\* exactly what the registries hold now, with a lease on each source, and publishes
\* nothing else: no change that came during an activation was missed.
SettledIsCurrent ==
  Settled /\ Bound /\ ~failed /\ ~registry.closed =>
    /\ active # None
    /\ active.revision = Revision
    /\ service = Content
    /\ Content \subseteq leases
    /\ publication # None => publication \subseteq Content \cup {Account}

\* The UI shows the providers as active when activeRevision is the revision of the
\* catalog it shows; then the gateway does run them and holds their sources.
ShownActiveIsServed ==
  Bound /\ ~registry.closed /\ activeRevision = registry.upstream =>
    /\ active # None
    /\ service \cap Upstreams = Content \cap Upstreams
    /\ Content \cap Upstreams \subseteq leases

\* dispose() completes, whatever was scheduled when it was called.
DisposeCompletes == disposer # "none" ~> disposer = "done"

\* When the registries come to rest the chain comes to rest: no job schedules
\* another for ever, and none waits for one that waits for it.
ChainSettles == <>[]Settled

-----------------------------------------------------------------------------
(* Properties a test, a document or the code states and the code breaks     *)

\* gateway.ts:202: an upstream that omits models it declared fails the activation,
\* so no upstream is published whose source did not list them when it was asked.
PublishedWereListed ==
  [][\A models \in published' : models \notin published => models \cap unseen = {}]_vars

\* .agents/docs/gateway-extensions.md:41: a connection that lost its required adapter
\* is removed from model publication, once the change has been processed.
DisabledAreUnpublished ==
  Settled /\ Bound /\ ~registry.closed =>
    \A models \in published : models \cap Connections \subseteq Content

\* test/lease-lifecycle.mjs:47: dispose() releases every held resource; when it comes
\* to the publications, every live one is the one it disposes.
DisposeReachesPublications ==
  disposer = "publication" => published \subseteq {publication}
=============================================================================
