# Verification of the CLIProxyAPI plugin

TLA+ models of the plugin in `src/` (paths below such as `gateway.ts:361` are under
`src/src/service/`, `page:213` is `src/src/upstream-subscription-manager-page.tsx`,
`main.go` is `src/native/gateway-bridge/main.go`), TLC runs over
small instances of them, and TLAPS proofs for every instance.  `PROJECT.json` lists
the components, the runs, the source lines of every definition, one mutated
definition per property (a plausible bug that TLC must catch), the hazards of the
code and the findings.

## 1. The system

The plugin puts one *managed gateway* (CLIProxyAPI, a Go process run by the Host) in
front of models that other plugins offer.  Other plugins register *upstreams* and
*connections*; the gateway service turns both registries into one configuration,
leases the services behind them, activates the gateway and publishes its models; a Go
plugin inside the gateway routes the requests for connections; and a provider adapter
and its lifecycle projection connect an agent broker to the Host.

    other plugins --bind/register--> upstream context --> upstream registry --+
                                     extension context -> extension registry -+
                                                                              | notify
   manager page --> account UI --refresh--> managed gateway <-----------------+
                                          |  acquire, configure, publish (Host)
                                          v
       callers --> CLIProxyAPI --> native bridge (Go) --> upstream services
       Host <-- lifecycle projection <-- platform adapter <-- broker

| Component | State | Operations | What makes it correct |
|---|---|---|---|
| Upstream registry (`upstream-registry.ts`) | entries by id, live generation of each plugin, revision, listeners | activate a producer, register, revoke, dispose of a producer, subscribe, dispose | no two entries collide in the gateway; one plugin cannot touch another's; a replaced generation has no authority; the revision moves exactly with the content; a repeated call is harmless |
| Catalog and gateway plan (same file) | none: functions of the registry | `catalog`, `gatewayPlan` | two independent projections agree; a credential pointer reaches the provider of its own source |
| Upstream context (`upstream-context.ts`) | bindings of the Host | bind, dispose of a binding, dispose of the root | an entry lives no longer than the bindings that could revoke it |
| Extension registry and context (`extension-registry.ts`, `extension-context.ts`) | adapters, connections, registrars | the same for adapters and connections, several registrars per plugin | as above, and one source behind one connection, pinned adapters keep their meaning |
| Extension plan (`extension-registry.ts`, `gateway.ts`) | none | `plan`, materialization | the bridge serves what the plan says, and nothing without its required adapter |
| Managed gateway (`gateway.ts`) | promise chain, activation, handle, publication, disposal | reconcile, activate, refresh models, dispose | no lease is lost track of before its release, what settles is current, after a disposal nothing is held or begun again, and it ends |
| Native bridge (`main.go`) | plan behind a lock, open streams | configure, shutdown, execute, stream | a request runs under one plan; only a complete stream looks complete, the host's own refusals apart; upstream streams are closed |
| Account and catalog UI (`gateway-ui.ts`) | revision of the last list, OAuth sessions | read, toggle, start, poll, cancel | changes reach the published models; a login is not forgotten |
| Lifecycle projection (`lifecycle.ts`) | pending approvals, messages of running turns, listeners | receive, decide, subscribe, dispose | the Host hears of the outcome the broker acts on; output is whole |
| Platform adapter, broker client (`adapter.ts`, `broker-client.ts`) | pending exchanges, remembered models, disposal | models, sessions, turns, drain, dispose | a drain waits for what was asked before it and ends; a created session keeps its model |
| Manager page (`page`) | what it shows, the login it follows, a poll timer, a subscription | load, refresh, poll, toggle, log in and out, start and cancel a login | it catches up with the service; a login is followed and a late poll says nothing; while it is mounted, its clean-up will end every timer and subscription |
| Plugin entry (`src/src/index.ts`) | the settings entry of one run of the effect | start, clean up, synchronise | one entry stands in exactly while the provider is not listed |
| Service entry, provider fleet page, definition, bindings, build scripts | none that is used | registration, conversions | not modelled, see section 7 |

Interactions: the registries call their listeners synchronously, and each call
appends a reconcile to the gateway's promise chain; everything that touches the Host
is awaited, and the registries, the abort signal and the UI may act at every await;
the bridge's requests are goroutines that share only the plan; the adapter and the
lifecycle projection share the abort signal of the provider; the page calls the
account UI through the Host, and its handlers, timers and subscription share React
state and refs across awaits; the Host calls the plugin entry back while the plugin
entry is changing the Host's list.

What is hard here is therefore interleaving at awaits (gateway, UI, page, adapter, lifecycle),
partial failure of sequences of Host calls (gateway, bridge), stale authority
(generations, registrars and bindings that outlive what they stood for), and
agreement between pieces of code that compute the same thing separately (catalog and
plan, plan and bridge).  Nothing is persisted, so there is no crash recovery to model.

## 2. Modules

| Module | Models | Composes |
|---|---|---|
| `VersionedStore` | abstract specification: content and version move together | |
| `UpstreamRegistry` | the registry, one action per operation | implements `VersionedStore` |
| `Sorting` | what `Array.prototype.sort` does under a total order | |
| `UpstreamPlan` | `catalog()` and `gatewayPlan()` | extends `UpstreamRegistry` and `Sorting` |
| `UpstreamContext` | bindings of the Host | extends `UpstreamRegistry`, implements `VersionedStore` |
| `UpstreamProofs` | theorems about these three | extends `UpstreamContext`, `UpstreamPlan` |
| `ExtensionRegistry` | adapters, connections, registrars, root | implements `VersionedStore` |
| `BridgePlan` | how the Go bridge reads a configuration, as operators | |
| `ExtensionPlan` | `plan()` and its materialization | extends `ExtensionRegistry` and `Sorting`, instantiates `BridgePlan` |
| `ExtensionProofs` | theorems about these two | extends `ExtensionPlan` |
| `Bridge` | configuration, shutdown and streamed requests | instantiates `BridgePlan` |
| `BridgeProofs` | theorems | extends `Bridge` |
| `Gateway` | the promise chain, activation, publication, disposal | |
| `GatewayProofs` | theorems | extends `Gateway` |
| `AccountUI` | overlapping account operations and logins | |
| `Lifecycle` | events, decisions, turns, retirement | |
| `LifecycleProofs` | theorems | extends `Lifecycle` |
| `ProviderAdapter` | calls of the Host, exchanges with the broker, drain, disposal | |
| `ProviderAdapterProofs` | theorems | extends `ProviderAdapter` |
| `ManagerPage` | the page's coroutines, timers and subscription | |
| `ManagerPageProofs` | theorems | extends `ManagerPage` |
| `SettingsEntry` | the settings entry and the Host's callbacks | |
| `HostUIProofs` | theorems about the account UI and the settings entry | extends `AccountUI`, `SettingsEntry` |

`MC*.tla` and `*.cfg` give the constants their values; no definition is overridden.
Actions have the names of the methods or of the section of a coroutine between two
awaits; operators that start with the name of another and are commented `Mutant:`
are the bugs the properties are tried against and occur in no specification.

### Correspondence and abstractions

* **UpstreamRegistry.** `entries`, `generation`, `revision`, `disposed` are the maps and
  fields of the class; `subscribed` and `seen` stand for one listener that reads the
  registry when it subscribes and when it is told.  A descriptor keeps id, revision,
  enabled, prefix, group, what it says of its group (display name and order in one
  value), order and routes; formats of single fields are one flag, `wellFormed`.
  The check of the registry's own generation is left out: every registrar passes the
  registry's own.  The order of the tests in `register` (validation, generation,
  ownership, revision, capacity, conflicts) is kept as conjuncts, because only the
  fact that it refuses, not the code it refuses with, changes the state.
* **UpstreamPlan.** Pooling of routes with one gateway model, slots of the
  configuration and target pointers are computed as in the code, turn by turn.  A sorted
  array is *the* sorted list of a set (`Sorting!Sorted`), since the comparisons never
  call two different entries equal; ids are ordered by a constant `Rank` instead of
  their letters.
* **UpstreamContext.** A registrar stays usable after its binding is disposed, as in the
  code, where only the registry's generations stop it.  The root's disposal disposes
  every binding and then the registry in one step, since nothing is awaited.
* **ExtensionRegistry, ExtensionPlan, BridgePlan.** The composition the code returns as
  an array is a set of records here, each of which names its position, as the pointers of
  the code do.  The Host's materializer, which writes endpoints and credentials at these
  pointers, is external and does what they say: a plan that pointed at the wrong place
  would have a source written there.  The bridge's `configure`, `route` and model listing
  are operators on the result.
* **Gateway.** An upstream or a connection is one element, standing for its models and
  its source; the two registries are the set of enabled ones and two revisions, and a
  change of either is a listener call.  `queue` holds the jobs on `transition`, `job`
  the locals the running one keeps across awaits.  A Host call and its answer are one
  step, because the code reads nothing shared between them that it uses later; every
  call may fail.  Live publications with the same models count as one.  Both context
  roots are closed together.  The Host's leases are two sets: `leases`, whose release
  the code has not asked for, and `kept`, whose release was asked for and threw.
  `cleanup()` takes each lease off its list before it releases it, collects what throws
  and is run once (`gateway.ts:163-182`), so nothing comes back to a lease in `kept`
  but `client.dispose()` at the end, which may free it or not.  `LeasesAccounted` is
  therefore about each lease until its release is asked for, and `DisposedIsClean` about
  what the code holds and will still do, not about what the Host refused to take back: a
  lease in `kept`, or a publication whose withdrawal failed (`gateway_lost_publication`).
  The lease of `readGatewayModels` on the gateway itself is kept over one call and is
  not modelled; a release of it that throws is the failure of that call.
* **Bridge.** One request per goroutine: the plan is read under its lock in `prepare`;
  the encodings of `outboundRequest` are one nondeterministic refusal.  Requests share
  only the plan, so one of them against any reconfiguration is the whole interaction.
  `emit` and the `close` that tells an error may fail with the caller gone or there
  (`HostRefuses`); `refused` remembers the second.  The deferred closes do what they ask.
* **AccountUI.** An account list is the set of disabled accounts and is its own
  revision (the code hashes it).  `open`, `unread`, `overdue` record what callers were
  told and what the gateway's models do not show yet.  The answers' sequence numbers
  and `readCatalog`, which changes nothing else, are left out.
* **Lifecycle.** `call` holds what `decide` keeps across its await.  The broker keeps
  the order of a turn's events, takes one answer per event, and may withdraw requests
  or lose answers.  A message is absent, partial or full; the cut at 1,000,000
  characters and blank texts are left out, and so are events that lack the ids the
  code needs, which it ignores.  A listener may subscribe after `dispose()` (`late`),
  as the code allows.
* **ProviderAdapter.** A call is its kind (`op`), where it stands (`pc`) and the thread
  and model it is about; a page of sessions is stood for by one of them, and the answer
  may leave the model out, as `values.ts` allows for.  `pending` is the set of
  exchanges; an exchange that has settled but whose `finally` has not run is still in
  it.  `drains[d].owes` records what was with the broker when the drain began, and
  `told` and `known` what the Host had from `create` before it asked; only properties
  read them.  Disposing the lifecycle is an await between `begun` and `done`; what it
  does itself is in `Lifecycle`.
* **ManagerPage.** One action is the code between two awaits.  What is shown is set
  from one `Promise.all` and is one value, compared with what the service would answer
  now: `new`, `old`, `lost` (a snapshot without accounts) or nothing.  The snapshot an
  update brings is shown at once (`UpdatesArrive`): it may come before there are accounts
  or be older than what is shown.  A poll and its
  timer are the login and the generation they were scheduled under.  Buttons that are
  disabled for one account or provider only are not, there being others.  Whether the
  service accepts a request is free: `AccountUI` models that.
* **SettingsEntry.** The JavaScript stack is `telling`, the calls the Host still has to
  make, and `syncing`, the call of the Host a run of the effect is in; nothing else
  starts while either is not empty (`Quiet`).

## 3. Runs

All runs are exhaustive over the constants below.

| Run | Instance | Shows |
|---|---|---|
| `upstream_context` | 3 bindings of 2 plugins and 2 generations, 4 ids for 3 places, descriptors made to collide, pooled and disabled routes, 5 revisions | registry: `NoConflicts`, `EntriesFenced`, `RetryIsUnchanged`, `ListenerIsCurrent`, `ContextKeepsStore` (it implements `VersionedStore`); plan, in every reachable registry: `PointersResolve`, `CatalogMatchesPlan`, `GroupsAreFaithful`; bindings: `NoEntryWithoutBinding`, `DisposalIsLocal` |
| `extension_plan` | 3 registrars of 2 plugins and 2 generations, 3 connections over 3 sources that require, prefer or lack the adapter | registry: `EntriesHaveRegistrars`, `SourcesExclusive`, `DisposalIsLocal`, `RevisionTracksContent`; plan and bridge: `BridgeServesPlan`, `SourcesReachTheirModels`, `RequiredAdaptersProtect`: the registry's, the gateway's and the bridge's code agree |
| `gateway` | 1 upstream, 1 connection, 2 changes, 1 refresh, any abort | `LeasesAccounted`, `DisposedIsClean`, `SettledIsCurrent`, `ShownActiveIsServed`; liveness `DisposeCompletes`, `ChainSettles` |
| `bridge` | 1 request of 2 chunks, reconfigurations, shutdown | `SentUnderOnePlan`, `CompleteMeansComplete`; liveness `UpstreamStreamsClose` |
| `account_ui` | 2 pages, 1 account, 2 logins, 5 calls | `ChangesReachModels`, `OutcomesAreTold` |
| `lifecycle` | 2 approvals, 2 events, 2 deciders, 1 turn of 2 messages where 1 is kept | `AnnouncedIsAnswered`, `PendingIsDecidable`, `OutputIsComplete`, `DisposedIsSilent` |
| `provider_adapter` | 2 calls at a time, 1 drain at a time, 2 threads, 2 models | `ModelsStayKnown`, `DrainsWait`; liveness `DrainsEnd` |
| `manager_page` | 2 coroutines beside timers and polls, 3 events (clicks, changes, failures, reruns) | `NothingLost`, `LoginIsFollowed`, `OutcomesAreFinal`; liveness `PageCatchesUp` |
| `settings_entry` | 3 runs of the effect | `EntryStandsIn` |
| `gateway_unlisted`, `gateway_stale_publication`, `gateway_lost_publication` | as `gateway`, no refresh | three statements about the code that it breaks, section 6 |

Registry and plan are checked together, under the context that owns them: a plan is a
function of the registry's state, and the bindings call every operation of the registry.

**Bounds.** `MaxRevision` bounds the registries' counters: it allows a registration,
its replacement, a removal and a second owner of the place, which is the longest
history any of the properties relates; the theorems below have no such bound.  Two
generations suffice because authority is only ever compared with the live one.
`MaxChanges` = 2 in `Gateway` gives a change before, during and after a reconcile, and
a second one queued behind it; `MaxRefreshes` = 1 puts a refresh at every place in the
queue.  `MaxCalls` = 5 in `AccountUI` is a read, a start, two overlapping polls and a
toggle or cancellation.  `MaxEvents` = 3 in `ManagerPage` is two logins and the
cancellation of one, a login across a rerun of the effect, or a change between two
refreshes that overlap; `Tick`, updates that show nothing older, refreshes and polls are not bounded.  Two calls in
`ProviderAdapter` let one create a session while the other asks about it, with as many
calls one after the other as there are; a second drain would share nothing with the
first.  Symmetry is used where identifiers are only compared (plugins, generations,
sources, registrars, bindings, pages, sessions, approvals, events).  It meets a
liveness property only in `provider_adapter`, over threads and models, which neither
the fairness nor the properties name, so that a permutation of them leaves each of
these formulas as it is.

**Deadlock.** The runs that say `CHECK_DEADLOCK FALSE` can really stop: after the root
is disposed, when all bounded inputs are used up, or when a request has ended.

**Fairness.** `Gateway` assumes `WF_vars(CodeStep)`: the event loop runs whatever can
run, and the Host answers each call, with success or failure, in the end; inputs
(changes, abort, refreshes, the Host's own revocations) are not fair.  `Bridge` assumes
weak fairness of each request's `Proceed`: a goroutine that can go on does, and host
calls return.  `ProviderAdapter` assumes that the broker answers or fails each exchange
(`Accept \/ Fail`; a timeout is an answer, `broker-client.ts:40`), that a coroutine
whose await is over goes on, and that a drain whose promises have settled returns; that
anybody calls is not assumed.  `ManagerPage` assumes that each coroutine goes on and
that the interval of 15 s fires again and again (`SF_vars(Tick)`: strong, because the
model's two places for coroutines may be taken at times, which the browser's are not);
clicks, changes, updates of the subscription, polls and timers are not fair, so
`PageCatchesUp` rests on the interval alone; failing refreshes, updates that come late
and changes of the service are bounded events, so it speaks of a service that settles.
The other specifications assume none.

## 4. Proofs

TLC checks the instances of section 3; the theorems hold for every value of the
constants that satisfies the named assumptions: any sets of plugins, generations,
sources, descriptors, callers, requests, threads and so on, and any bounds.  Every
safety invariant and every action property of a passing run has a theorem.  Each follows
from an inductive invariant that says more; what it adds, and why the property alone is
not inductive, is the argument below.

**Registry and context of upstreams** (`UpstreamProofs`).

    IInv == TypeOK /\ StoredValid /\ NoConflicts /\ EntriesFenced
              /\ WithinCapacity /\ ListenerIsCurrent

The conjuncts need one another.  `NoConflicts` is symmetric while `register` compares
only the new descriptor with the stored ones, which suffices because the others were
compared before; `EntriesFenced` is what makes a removal by generation remove all a
producer left; `StoredValid`, which no run checks, is needed for `RetryIsUnchanged`:
repeating a call passes validation again only because what is stored passed it.
The lemma `StepKinds` splits `Next` into steps that store one entry, free some, talk to
the listener, or dispose; one lemma per kind shows the invariant is kept.  The theorems
`TypeCorrect`, `ConflictFreedom`, `Fencing`, `Capacity`, `RetrySafety` and
`ListenersInformed` follow; `RevisionGrowth` and `Isolation` are action properties
proved under `IInv`; `ImplementsStore` is the refinement `Spec => Store!Spec`.
For the composed system, the lemma `RegistryStep` shows that each step of the context is
a step of the registry, the closing of it, or leaves it alone, so `IInv` carries over;
with `GenerationsBound` (a plugin has a live generation only while a binding of that
generation lives) this gives `EntriesAreBound` (`NoEntryWithoutBinding`),
`ContextSafety` (the four invariants of the registry in the composed system, the ones
the run checks), `ContextImplementsStore` (`ContextKeepsStore`) and `DisposalLocality`.

**Plan and catalog of upstreams** (`UpstreamProofs`).  Both are functions of the
entries, so what is needed is what sorting and folding return.  `SetInduction`, an
induction over the size of a finite set obtained from the well-foundedness of `<` on the
naturals, gives `SortedExists` (a finite set under a strict total order has a sorted
list), `SortedEnumerates` (that list has each element once) and `FoldExists` (a fold over
a list is a sequence of turns).  `PlanByTurns` then reads the plan as one turn for each
enabled upstream; `PointersByTurn` shows that one turn keeps every pointer right, those
of the earlier turns included, and `Composed` is what the turns have listed so far.
`PlansPoint` is `PointersResolve`, `CatalogAndPlanAgree` is `CatalogMatchesPlan` (both
sides list each enabled place and route once, though one sorts groups and the other
upstreams), and `GroupsFaithful` is `GroupsAreFaithful`.

**Extension registry** (`ExtensionProofs`).  As for upstreams, with a registrar where a
producer generation was: `EntriesServed` says for each entry that its generation lives
and has a registrar that is not disposed, and `SourcesExclusive` is carried by the
comparison of a new connection with the stored ones.  `EntriesAreServed`
(`EntriesHaveRegistrars`), `Exclusiveness`, `LocalDisposal` (`DisposalIsLocal`) and
`ImplementsStore` (`RevisionTracksContent`).

**Extension plan and bridge** (`ExtensionProofs`).  `IdsListed` says that the plan's ids
are the registered connections, each once, so the position in the plan, where the Host
writes a source, is the position at which the bridge reads it (`ConnectionsWritten`,
`ConfigConnections`); `ReadyWhenEnabled` and `ModelsApart` say that the bridge's test of
readiness is the plan's, and that no other connection answers for a model.  They give
`BridgeServesEveryPlan` (`BridgeServesPlan`), `SourcesAreReached`
(`SourcesReachTheirModels`) and `RequiredAdaptersAreUsed` (`RequiredAdaptersProtect`).
They rest on `StoredValid`: registration validated the connection, which is what keeps a
connection's own models apart.

**Managed gateway** (`GatewayProofs`).  `IInv` follows a reconcile from await to await:
`JobOK` says what its locals hold at each place (`Reflects`: the set read at a revision
is what the registry still holds if the revision is still the same; the leases taken and
those to take together are the plan; the gateway runs the plan once it is configured),
`ActiveOK` that an activation in force holds what the gateway runs, `QueueOK` that the
teardown is scheduled once and only refreshes can follow it, `NothingMissed` that the
newest revision is scheduled, being worked on, in force, or has failed, `StartingOK` that
the first job is the reconcile the activation awaits.  From it: `NoLeaseForgotten`
(`LeasesAccounted`), `DisposalIsFinal` (`DisposedIsClean`), `SettledMeansCurrent`
(`SettledIsCurrent`) and `ShownMeansServed` (`ShownActiveIsServed`).  They hold whichever
releases throw: `NoLeaseForgotten` ends where the release of a lease is asked for, and
`DisposalIsFinal` says what the code still holds and does (section 2).  None of these is
inductive: that disposal is clean rests on the order of the queue, that what settles is
current on what a job in the middle of its awaits still holds.

**Native bridge** (`BridgeProofs`).  `BridgeInv`: what a request is about to send was
prepared by a plan that was in force since it came (`Planned`); where `forwardStream`
stands says how much of what was read has been passed on (`Forwarded`), and `Ends` what
a stream that is ended without an error may lack: nothing, unless the host refused a call
about it, and then at most the last payload read.  Theorems `OnePlan` (`SentUnderOnePlan`) and `CompleteStreams` (`CompleteMeansComplete`).

**Account UI and settings entry** (`HostUIProofs`).  `AccountInv` needs little beside
the two properties, which already speak of the calls under way: the refresh that is owed
is the business of a call that has not come to it, and a login that ended is told by the
call that saw it end.  `ChangesAreRead` (`ChangesReachModels`) and `LoginsAreTold`
(`OutcomesAreTold`).  For the entry, `EntryInv` relates the variable of a run to what the
Host shows except within a call of the Host (`EntryMatches`), and says that a live run
shows what the list asks for or looks again (`LooksAgain`): `OneEntryStandsIn`
(`EntryStandsIn`).

**Lifecycle** (`LifecycleProofs`).  An event asks about one approval and takes one answer
for good (`AskedFor`, `AcceptedIsAnswered`), so what a decision keeps over its await
stays true however late it goes on; and the text kept of a turn is a part of what was
sent, as large as the room allows and without gaps in an item (`TextIsKept`).
`AnnouncementsAreTrue` (`AnnouncedIsAnswered`), `RequiredCanBeDecided`
(`PendingIsDecidable`), `OutputsAreComplete` (`OutputIsComplete`) and
`RetirementIsSilent` (`DisposedIsSilent`), for which the invariant says that only late
listeners listen after the disposal.

**Platform adapter** (`ProviderAdapterProofs`).  `DrainInv` says that every call under
way is pending, so that a drain that begins waits for all that is with the broker, and
that what a drain owes stays among what it waits for; the lemma `SettledKeepsDrains`
covers the one step that shrinks both: `DrainsOweNothing` (`DrainsWait`).  `KnownInv`
says that a thread the Host had from `create` is remembered with its model until the
disposal is done, and that a call about a thread names its model or none:
`SessionsKeepTheirModels` (`ModelsStayKnown`).

**Manager page** (`ManagerPageProofs`).  A timer is always of the current generation,
for whatever moves the generation clears the timer; of that generation there is one timer
or one poll (`OneFollower`), and it asks for the login that is shown, which is under way
(`FollowsShown`); an answer of an older generation is dropped.  `NothingIsLost`
(`NothingLost`, of a mounted page: a clean-up follows that ends what its refs name), `LoginsAreFollowed` (`LoginIsFollowed`) and `OutcomesStay`
(`OutcomesAreFinal`).

The lemmas about sorted lists stand in both `UpstreamProofs` and `ExtensionProofs`.

**Assumptions.** They are the named `ASSUME`s of the modules, and TLC evaluates them in
each run: the special values (`None`, `Unset`, `Absent`...) are outside the sets they
stand beside; bounds are naturals; descriptors are records of their type; the sets of ids
are finite, entries being counted against a capacity, and so is the set of plugins in
`UpstreamContext`, where the root's disposal announces one revision for each plugin whose
entries it drops; different ids have different ranks (`RankAssumption`: strings that are
compared); and a configuration the bridge is given names each of its models for the
connection that lists it (`ConfigsAssumption`), which is how `plan()` of
`extension-registry.ts` names them.

**Only model-checked.** Liveness: `DisposeCompletes`, `ChainSettles`,
`UpstreamStreamsClose`, `DrainsEnd` and `PageCatchesUp`, because fairness is out of the
prover's reach; and the three violations of section 6, which are statements about single
behaviours.

## 5. Hazards

`PROJECT.json` lists them by line.  Those without a property are steps the models have
and nothing in the repository promises anything about, so that no run can be said to
refute the code:

* a request repeated under a new event after the broker withdrew the old one is never
  decidable (`lifecycle.ts:137`);
* a cancellation that is answered after another login was started shows the old login
  cancelled and stops following the new one (`page:462`);
* `subscribe()` and `startOAuth()` that are answered after the page was unmounted leave
  a subscription, or a poll, nobody ends (`page:351`);
* the first refresh of the provider list may settle after the clean-up of the effect
  and insert a settings entry nobody disposes (`src/src/index.ts:311`);
* a lease whose release throws is not released again (`gateway.ts:175`);
* the upstream and extension registries do not know each other's gateway model ids
  (`extension-registry.ts:391`).

One is excepted by its property: an `emit` the host refuses while its caller is there
ends the stream as a complete one (`main.go:531`), and `CompleteMeansComplete` says of it
only how much can be missing.  The models also have these steps, which no property judges: a toggle can pass on a list
that is out of date, because the revision that fences it is the last one read, by
whichever read ended last (`gateway-ui.ts:283`); and `archive` sends its second request
without looking whether the adapter was retired between the two (`adapter.ts:194`).  The
capacity of the registry and the growth of revisions are proved, not run.

## 6. Findings

* **An unlisted upstream is published** (`gateway_unlisted`).  `reconcile` reads the
  catalog before, and the plan after, it awaits the release of the previous activation
  (`gateway.ts:363-373`).  An upstream registered in between is activated and published
  without the comparison of its declared models (`gateway.ts:190-204`) that otherwise
  fails the activation.  The reconcile that the registration queued repairs it, if it
  succeeds.
* **A failed reconcile leaves the old publication** (`gateway_stale_publication`).
  `schedule` turns the failure into a diagnostic and nothing retries, so a connection
  that lost its required adapter stays published although
  `.agents/docs/gateway-extensions.md:41` says it is removed.
* **A publication out of reach** (`gateway_lost_publication`).  `disposePublication`
  forgets its handle before the Host has confirmed (`gateway.ts:317-328`); when that
  fails, `dispose` ends with a publication it never asked to withdraw, against
  `test/lease-lifecycle.mjs:47`.

## 7. Plan

Done: a model of every component that keeps state, with its runs; and the proofs of
every safety invariant and action property that the passing runs check.  Left:

1. A composition of both registries with the gateway's configuration, for gateway model
   ids that collide across the registries (the hazard at `extension-registry.ts:391`).
2. An abstract specification of the managed gateway, the configuration in force as a
   variable that trails the registries, and `Gateway` shown to implement it; `IInv` of
   `GatewayProofs` is the invariant the step simulation needs.
3. `NoInterference`, proved for the producers of `UpstreamRegistry`, for the registrars
   of `ExtensionRegistry`.

**Not modelled**, and not planned: the service entry, a loop that registers one
definition per enabled configuration; the provider fleet page
(`src/src/provider-fleet-page.tsx`), which nothing imports and
`test/manifest.mjs` asserts is not registered; rendering, messages and the opening of
the configuration on the manager page; icons, constant tables, value conversions other
than the session's model, and build scripts, which have no state.
