----------------------------- MODULE ManagerPage ----------------------------
(***************************************************************************)
(* UpstreamSubscriptionManagerPage                                         *)
(* (upstream-subscription-manager-page.tsx): a React page that shows the   *)
(* gateway's accounts and starts, follows and cancels logins.  Its state   *)
(* is read and written on both sides of awaits, by handlers, timers and a  *)
(* subscription, so that answers meet a page that has moved on: one action *)
(* is the code from one await to the next.                                 *)
(*                                                                         *)
(* What the page shows (snapshot, catalog, accounts) is set together from  *)
(* one Promise.all and is one value: "new" while the service would still   *)
(* answer the same, else "old"; "lost" when there is a snapshot but no     *)
(* accounts, None when there is neither.  Whether the service accepts a    *)
(* request is its own affair (AccountUI models it).  A flag that disables  *)
(* only the button of one account or provider is left out, there being     *)
(* others; so are notifications and opening the configuration.             *)
(***************************************************************************)
EXTENDS Integers

CONSTANTS
  Calls,        \* places for calls under way: a bound of the model
  None,         \* null
  MaxEvents     \* bound: clicks that ask the service for something, its own changes,
                \* updates that come late, refreshes that fail, and reruns of the
                \* effect, together

\* The states of a login the page goes on polling in.
UnderWay == {"wait", "unknown"}

\* A login as the page keeps it; pending is "wait".
AccountOAuthState == [session : Nat, state : UnderWay \cup {"completed", "cancelled", "error"}]

ASSUME ConstantsAssumption ==
  /\ None \notin Nat
  /\ None \notin AccountOAuthState
  /\ MaxEvents \in Nat

VARIABLES
  effect,         \* the run of the effect that is live, 0 once unmounted
  acquired,       \* service, serviceRef
  shown,          \* accounts (snapshot, catalog)
  oauth,          \* oauthState, oauthStateRef
  generation,     \* oauthPollGenerationRef
  pollRef,        \* oauthPollRef: the timer of the next poll
  cancelling,     \* pendingCancelOAuth
  subscription,   \* subscriptionRef
  calls,          \* the coroutines that await the service
  polls,          \* the polls that do
  timers,         \* browser: timers that will run poll()
  subscribed,     \* Host: subscriptions that are open
  started,        \* service: how many logins it has started
  events          \* bounded by MaxEvents

login == <<oauth, generation, pollRef, timers, polls>>
host == <<subscribed, subscription>>
vars == <<effect, acquired, shown, login, cancelling, host, calls, started, events>>

Idle == [op |-> "none"]
Load(e) == [op |-> "load", pc |-> "get", effect |-> e, value |-> None]
Refresh == [op |-> "refresh", pc |-> "read", value |-> None]

Init ==
  /\ effect = 1
  /\ acquired = FALSE
  /\ shown = None
  /\ oauth = None
  /\ generation = 0
  /\ pollRef = None
  /\ cancelling = FALSE
  /\ subscription = None
  /\ calls = [[k \in Calls |-> Idle] EXCEPT ![CHOOSE k \in Calls : TRUE] = Load(1)]
  /\ polls = {}
  /\ timers = {}
  /\ subscribed = {}
  /\ started = 0
  /\ events = 0

At(k, op, pc) == calls[k].op = op /\ calls[k].pc = pc

InFlight(ops) == \E k \in Calls : calls[k].op \in ops

\* A coroutine takes a free place, whichever.
Begin(call) ==
  LET free == {k \in Calls : calls[k] = Idle} IN
    free # {} /\ calls' = [calls EXCEPT ![CHOOSE k \in free : TRUE] = call]

End(k) == calls' = [calls EXCEPT ![k] = Idle]

Event == events < MaxEvents /\ events' = events + 1

-----------------------------------------------------------------------------
(* Polling a login                                                         *)

\* clearOauthPoll()
ClearPoll ==
  /\ generation' = generation + 1
  /\ timers' = timers \ {pollRef}
  /\ pollRef' = None

\* setTimeout(poll) of the login s under the generation g, over the timers ts
Schedule(ts, s, g) ==
  LET timer == [session |-> s, generation |-> g] IN
    timers' = ts \cup {timer} /\ pollRef' = timer

\* Mutant: the generation is taken before clearOauthPoll() moves it.
PollSessionOutdated(s) ==
  /\ generation' = generation + 1
  /\ Schedule(timers \ {pollRef}, s, generation)

\* Mutant: the first poll of a login keeps the generation of the one before.
PollSessionKeeping(s) ==
  /\ generation' = generation
  /\ Schedule(timers \ {pollRef}, s, generation)

\* pollOAuthSession()
PollSession(s) ==
  /\ generation' = generation + 1
  /\ Schedule(timers \ {pollRef}, s, generation')

\* A timer runs poll(); its id, left in oauthPollRef, stands for nothing from then on.
TimerFires(t) ==
  /\ t \in timers
  /\ timers' = timers \ {t}
  /\ pollRef' = IF pollRef = t THEN None ELSE pollRef
  /\ polls' = IF t.generation = generation THEN polls \cup {t} ELSE polls
  /\ UNCHANGED <<effect, acquired, shown, oauth, generation, cancelling, host, calls,
                 started, events>>

\* The poll p is answered with the state of its login, "wait" standing for pending too
\* and "error" for a call that throws.  An answer under an old generation is dropped,
\* and a completed login refreshes the page.
PollAnswered(p, state) ==
  /\ p \in polls
  /\ polls' = polls \ {p}
  /\ IF p.generation # generation
       THEN UNCHANGED <<oauth, timers, pollRef, calls>>
       ELSE /\ oauth' = [session |-> p.session, state |-> state]
            /\ IF state \in UnderWay THEN Schedule(timers, p.session, p.generation)
                                     ELSE UNCHANGED <<timers, pollRef>>
            /\ IF state = "completed" THEN Begin(Refresh)
                                      ELSE UNCHANGED calls
  /\ UNCHANGED <<effect, acquired, shown, generation, cancelling, host, started, events>>

-----------------------------------------------------------------------------
(* The effect                                                              *)

\* Its clean-up: the interval ends, `disposed` is set, the poll and the subscription
\* are released.
CleanUp ==
  /\ ClearPoll
  /\ subscribed' = subscribed \ {subscription}
  /\ subscription' = None

Unmount ==
  /\ effect # 0
  /\ effect' = 0
  /\ CleanUp
  /\ UNCHANGED <<acquired, shown, oauth, polls, cancelling, calls, started, events>>

\* A dependency of the effect (the translator, with the language) has changed.
Rerun ==
  /\ effect # 0
  /\ Event
  /\ effect' = effect + 1
  /\ CleanUp
  /\ Begin(Load(effect'))
  /\ UNCHANGED <<acquired, shown, oauth, polls, cancelling, started>>

\* managedServices.get() answers, with the service or without it; an effect that was
\* cleaned up goes no further.
Loaded(k) ==
  /\ At(k, "load", "get")
  /\ \/ End(k) /\ UNCHANGED acquired
     \/ /\ calls[k].effect = effect
        /\ acquired' = TRUE
        /\ calls' = [calls EXCEPT ![k].pc = "read"]
  /\ UNCHANGED <<effect, shown, login, cancelling, host, started, events>>

\* Mutant: the subscription that is replaced is left open.
SubscribedBeside(k) ==
  /\ At(k, "load", "subscribe")
  /\ End(k)
  /\ subscribed' = subscribed \cup {calls[k].effect}
  /\ subscription' = calls[k].effect
  /\ UNCHANGED <<effect, acquired, shown, login, cancelling, started, events>>

\* subscribe() after the first refresh: a subscription, named for its effect, replaces
\* the one before, or is refused.
Subscribed(k) ==
  /\ At(k, "load", "subscribe")
  /\ End(k)
  /\ \/ /\ subscribed' = (subscribed \ {subscription}) \cup {calls[k].effect}
        /\ subscription' = calls[k].effect
     \/ UNCHANGED host
  /\ UNCHANGED <<effect, acquired, shown, login, cancelling, started, events>>

-----------------------------------------------------------------------------
(* Refreshing                                                              *)

BeginRefresh ==
  /\ Begin(Refresh)
  /\ UNCHANGED <<effect, acquired, shown, login, cancelling, host, started, events>>

\* Mutant: the interval refreshes only a page that shows nothing yet.
TickOnce == effect # 0 /\ acquired /\ shown = None /\ BeginRefresh

\* The interval of the live effect, or the button.
Tick == effect # 0 /\ acquired /\ BeginRefresh
ClickRefresh == effect # 0 /\ acquired /\ BeginRefresh

\* A page of updates: its snapshot is shown at once, and a refresh follows.  It may come
\* before there are accounts, or be older than what a refresh has brought since; alone
\* it brings nothing up to date.
UpdatesArrive ==
  /\ subscribed # {}
  /\ Begin(Refresh)
  /\ \/ UNCHANGED <<shown, events>>
     \/ shown = None /\ shown' = "lost" /\ UNCHANGED events
     \/ shown = "new" /\ shown' = "old" /\ Event
  /\ UNCHANGED <<effect, acquired, login, cancelling, host, started>>

\* The service answers a refresh, whoever awaits it; the page hears of it later.
ServeRead(k) ==
  /\ calls[k] # Idle /\ calls[k].pc = "read" /\ calls[k].value = None
  /\ calls' = [calls EXCEPT ![k].value = "new"]
  /\ UNCHANGED <<effect, acquired, shown, login, cancelling, host, started, events>>

\* What follows the refresh of the call k: the load subscribes, a handler's finally runs.
AfterRefresh(k) ==
  /\ calls' = [calls EXCEPT ![k] = IF @.op = "load" THEN [@ EXCEPT !.pc = "subscribe"]
                                     ELSE Idle]
  /\ cancelling' = (cancelling /\ calls[k].op # "cancel")

Refreshed(k) ==
  /\ calls[k] # Idle /\ calls[k].pc = "read" /\ calls[k].value # None
  /\ shown' = calls[k].value
  /\ AfterRefresh(k)
  /\ UNCHANGED <<effect, acquired, login, host, started, events>>

\* A refresh throws, and the page keeps what it shows, or finds no accounts.
RefreshFails(k) ==
  /\ calls[k] # Idle /\ calls[k].pc = "read"
  /\ Event
  /\ shown' \in {shown, "lost"}
  /\ AfterRefresh(k)
  /\ UNCHANGED <<effect, acquired, login, host, started>>

-----------------------------------------------------------------------------
(* Clicks                                                                  *)

\* A handler asks the service for op.  `current` is the login a cancellation found.
Ask(op) ==
  /\ effect # 0 /\ acquired
  /\ shown \in IF op \in {"login", "logout"} THEN {"old", "new", "lost"} ELSE {"old", "new"}
  /\ Event
  /\ Begin([op |-> op, pc |-> "asked", value |-> None,
                current |-> IF op = "cancel" THEN oauth ELSE None])
  /\ cancelling' = (cancelling \/ op = "cancel")
  /\ UNCHANGED <<effect, acquired, shown, login, host, started>>

ClickToggle == Ask("toggle")
ClickStart == Ask("start")
ClickCancel == oauth # None /\ oauth.state = "wait" /\ ~cancelling /\ Ask("cancel")
ClickLogin == ~InFlight({"login"}) /\ Ask("login")
ClickLogout == ~InFlight({"login", "logout"}) /\ Ask("logout")

\* The call k was refused, or threw.
Refused(k) ==
  /\ calls[k] # Idle /\ calls[k].pc = "asked"
  /\ End(k)
  /\ cancelling' = (cancelling /\ calls[k].op # "cancel")
  /\ UNCHANGED <<effect, acquired, shown, login, host, started, events>>

\* The call k was accepted.
Accepted(k, op) ==
  /\ At(k, op, "asked")
  /\ UNCHANGED <<effect, acquired, host, events>>

Reading(k) == [calls EXCEPT ![k].pc = "read"]

\* The service changes, while the coroutines are at cs: what was read of it is old.
ServiceChanges(cs) ==
  /\ shown' = IF shown = "new" THEN "old" ELSE shown
  /\ calls' = [k \in Calls |-> IF cs[k] # Idle /\ cs[k].value = "new"
                                THEN [cs[k] EXCEPT !.value = "old"] ELSE cs[k]]

\* An account is toggled, or the service logged in.
Done(k) ==
  /\ Accepted(k, "toggle") \/ Accepted(k, "login")
  /\ ServiceChanges(Reading(k))
  /\ UNCHANGED <<login, cancelling, started>>

StartAccepted(k) ==
  /\ Accepted(k, "start")
  /\ started' = started + 1
  /\ oauth' = [session |-> started', state |-> "wait"]
  /\ PollSession(started')
  /\ calls' = Reading(k)
  /\ UNCHANGED <<shown, polls, cancelling>>

\* The login found by the click is shown cancelled, and whatever is polled no longer is.
CancelAccepted(k) ==
  /\ Accepted(k, "cancel")
  /\ oauth' = [calls[k].current EXCEPT !.state = "cancelled"]
  /\ ClearPoll
  /\ calls' = Reading(k)
  /\ UNCHANGED <<shown, polls, cancelling, started>>

LogoutAccepted(k) ==
  /\ Accepted(k, "logout")
  /\ ServiceChanges(Reading(k))
  /\ ClearPoll
  /\ oauth' = None
  /\ cancelling' = FALSE
  /\ UNCHANGED <<polls, started>>

\* Something else changes the service.
Change ==
  /\ Event
  /\ ServiceChanges(calls)
  /\ UNCHANGED <<effect, acquired, login, cancelling, host, started>>

-----------------------------------------------------------------------------

Click ==
  \/ ClickRefresh \/ ClickToggle \/ ClickStart \/ ClickCancel
  \/ ClickLogin \/ ClickLogout

Resume(k) ==
  \/ Loaded(k) \/ Subscribed(k) \/ ServeRead(k) \/ Refreshed(k) \/ RefreshFails(k)
  \/ Refused(k) \/ Done(k) \/ StartAccepted(k) \/ CancelAccepted(k) \/ LogoutAccepted(k)

Next ==
  \/ Click \/ Tick \/ UpdatesArrive
  \/ \E k \in Calls : Resume(k)
  \/ \E t \in timers : TimerFires(t)
  \/ \E p \in polls, state \in UnderWay \cup {"completed", "error"} : PollAnswered(p, state)
  \/ Rerun \/ Unmount
  \/ Change

\* Every call is answered in the end.  The interval fires again and again; that it finds
\* no place among the calls is a limit of the model.
Fairness ==
  /\ \A k \in Calls : WF_vars(Resume(k))
  /\ SF_vars(Tick)

Spec == Init /\ [][Next]_vars /\ Fairness

-----------------------------------------------------------------------------
(* Properties                                                              *)

\* The login the page shows as under way is being polled: its timer runs, or its poll
\* is under way under the generation whose answer will be taken.
Followed ==
  oauth # None /\ oauth.state \in UnderWay =>
    \E p \in timers \cup polls : p = [session |-> oauth.session, generation |-> generation]

\* A login shown as under way does not stop being polled, whatever other logins, their
\* cancellations and late answers do; only the clean-up of the effect leaves it so.
LoginIsFollowed == [][Followed => Followed' \/ effect' # effect]_vars

\* A poll that outlived its login says nothing: it never changes the state shown of
\* another login, or one that is final.
OutcomesAreFinal ==
  [][\A p \in polls : p \notin polls' /\ oauth' # oauth =>
       oauth # None /\ oauth.session = p.session /\ oauth.state \in UnderWay]_vars

\* While the page is mounted, and a clean-up is to come therefore, it has one subscription
\* at most, the one the clean-up will close, and one timer of a poll, the one it will clear,
\* however effects and logins overlap.  Once unmounted it may still acquire either.
NothingLost ==
  effect # 0 =>
    /\ subscribed \subseteq {subscription}
    /\ timers \subseteq {pollRef}

\* However refreshes overlap and overwrite each other's answers, a mounted page that has
\* its service shows, in the end, what the service would answer.
PageCatchesUp == <>[](effect # 0 /\ acquired => shown = "new")
=============================================================================
