-------------------------- MODULE ManagerPageProofs -------------------------
(***************************************************************************)
(* That the mounted page has no timer and no subscription its clean-up     *)
(* will not end, follows the login it shows and lets no late answer change *)
(* one that is over, for any number of calls and events.                   *)
(*                                                                         *)
(* What makes it so is the generation: a timer is always of the current    *)
(* one, for whatever moves the generation clears the timer; there is at    *)
(* most one timer or poll under way of the current generation; and that    *)
(* one is about the login that is shown, which is under way.  An answer of *)
(* an older generation is dropped.                                         *)
(***************************************************************************)
EXTENDS ManagerPage, TLAPS

USE ConstantsAssumption

PollType == [session : Nat, generation : Nat]

Value == {None, "new", "old"}

CallType ==
  {Idle}
    \cup [op : {"load"}, pc : {"get", "read", "subscribe"}, effect : Nat, value : Value]
    \cup [op : {"refresh"}, pc : {"read"}, value : Value]
    \cup [op : {"toggle", "start", "login", "logout"}, pc : {"asked", "read"},
          value : Value, current : {None}]
    \cup [op : {"cancel"}, pc : {"asked", "read"}, value : Value, current : AccountOAuthState]

TypeInv ==
  /\ effect \in Nat
  /\ generation \in Nat
  /\ started \in Nat
  /\ oauth \in AccountOAuthState \cup {None}
  /\ timers \subseteq PollType
  /\ polls \subseteq PollType
  /\ calls \in [Calls -> CallType]

\* The state of the login the page shows is being asked for by a timer or a poll p.
Current(p) == p.generation = generation

\* A timer is the one that can be cleared, and of the current generation; of that generation
\* there is one timer or one poll, never both.
OneFollower ==
  /\ \A t \in timers : t = pollRef /\ Current(t)
  /\ \A p \in polls : p.generation <= generation
  /\ \A p \in polls : Current(p) => timers = {} /\ \A q \in polls : Current(q) => p = q

\* What is asked for is the login that is shown, and it is under way.
FollowsShown ==
  \A p \in timers \cup polls : Current(p) =>
    oauth # None /\ oauth.session = p.session /\ oauth.state \in UnderWay

PageInv ==
  /\ TypeInv
  /\ OneFollower
  /\ FollowsShown
  /\ subscribed \subseteq {subscription}

-----------------------------------------------------------------------------
(* Types                                                                   *)

\* A coroutine that takes a free place is a call of its type.
LEMMA BeginTyped ==
  ASSUME calls \in [Calls -> CallType], NEW call \in CallType, Begin(call)
  PROVE  calls' \in [Calls -> CallType]
BY DEF Begin

\* Two moves every handler makes: it returns, or goes on to read what the service has now.
LEMMA MovesTyped ==
  ASSUME calls \in [Calls -> CallType], NEW k \in Calls
  PROVE  /\ End(k) => calls' \in [Calls -> CallType]
         /\ calls[k] # Idle => Reading(k) \in [Calls -> CallType]
<1>1. Idle \in CallType
  BY DEF CallType
<1>2. End(k) => calls' \in [Calls -> CallType]
  BY <1>1 DEF End
<1>3. ASSUME calls[k] # Idle
      PROVE  [calls[k] EXCEPT !.pc = "read"] \in CallType
  <2>1. PICK c \in CallType : c = calls[k]
    OBVIOUS
  <2>2. [c EXCEPT !.pc = "read"] \in CallType
    BY <2>1, <1>3 DEF CallType
  <2> QED BY <2>1, <2>2
<1> QED BY <1>2, <1>3 DEF Reading

\* What was read of a service that changes is old.
LEMMA ChangesTyped ==
  ASSUME NEW cs \in [Calls -> CallType], ServiceChanges(cs)
  PROVE  calls' \in [Calls -> CallType]
<1>1. ASSUME NEW c \in CallType, c # Idle
      PROVE  [c EXCEPT !.value = "old"] \in CallType
  BY <1>1 DEF CallType, Value
<1>2. ASSUME NEW k \in Calls
      PROVE  (IF cs[k] # Idle /\ cs[k].value = "new" THEN [cs[k] EXCEPT !.value = "old"]
                                                     ELSE cs[k]) \in CallType
  BY <1>1
<1> QED BY <1>2 DEF ServiceChanges

\* The coroutines stay of their types: a cancellation, above all, holds a login it found.
LEMMA CallsTyped ==
  ASSUME TypeInv, [Next]_vars
  PROVE  calls' \in [Calls -> CallType]
<1>1. /\ calls \in [Calls -> CallType]
      /\ effect \in Nat
      /\ oauth \in AccountOAuthState \cup {None}
  BY DEF TypeInv
<1>2. Refresh \in CallType
  BY DEF CallType, Refresh, Value
<1>3. ASSUME BeginRefresh
      PROVE  calls' \in [Calls -> CallType]
  BY <1>1, <1>2, <1>3, BeginTyped DEF BeginRefresh
<1>4. ASSUME NEW op \in {"toggle", "start", "login", "logout", "cancel"}, Ask(op),
             op = "cancel" => oauth # None
      PROVE  calls' \in [Calls -> CallType]
  <2>1. PICK call : /\ call = [op |-> op, pc |-> "asked", value |-> None,
                                current |-> IF op = "cancel" THEN oauth ELSE None]
                    /\ Begin(call)
    BY <1>4 DEF Ask
  <2>2. call \in CallType
    BY <1>1, <1>4, <2>1 DEF CallType, Value
  <2> QED BY <1>1, <2>1, <2>2, BeginTyped
<1>5. CASE Click \/ Tick \/ UpdatesArrive
  BY <1>1, <1>2, <1>3, <1>4, <1>5, BeginTyped
     DEF Click, Tick, UpdatesArrive, ClickRefresh, ClickToggle, ClickStart, ClickCancel,
         ClickLogin, ClickLogout
<1>6. ASSUME NEW k \in Calls, Resume(k)
      PROVE  calls' \in [Calls -> CallType]
  <2>1. CASE End(k)
    BY <1>1, <2>1, MovesTyped
  <2>2. CASE calls' = Reading(k) /\ calls[k] # Idle
    BY <1>1, <2>2, MovesTyped
  <2>3. CASE ServeRead(k)
    <3>1. PICK c \in CallType : c = calls[k]
      BY <1>1
    <3>2. [c EXCEPT !.value = "new"] \in CallType
      BY <2>3, <3>1 DEF ServeRead, CallType, Value
    <3>3. calls' = [calls EXCEPT ![k] = [c EXCEPT !.value = "new"]]
      BY <2>3, <3>1 DEF ServeRead
    <3> QED BY <1>1, <3>2, <3>3
  <2>4. CASE AfterRefresh(k)
    <3>1. PICK c \in CallType : c = calls[k]
      BY <1>1
    <3>2. c.op = "load" => [c EXCEPT !.pc = "subscribe"] \in CallType
      BY DEF CallType, Idle
    <3>3. calls' = [calls EXCEPT ![k] = IF c.op = "load" THEN [c EXCEPT !.pc = "subscribe"]
                                          ELSE Idle]
      BY <2>4, <3>1 DEF AfterRefresh
    <3>4. Idle \in CallType
      BY DEF CallType
    <3> QED BY <1>1, <3>2, <3>3, <3>4
  <2>5. CASE ServiceChanges(Reading(k)) /\ calls[k] # Idle
    <3>1. PICK cs : cs = Reading(k)
      OBVIOUS
    <3>2. cs \in [Calls -> CallType] /\ ServiceChanges(cs)
      BY <1>1, <2>5, <3>1, MovesTyped
    <3> QED BY <3>2, ChangesTyped
  <2>6. CASE Loaded(k)
    BY <2>1, <2>2, <2>6 DEF Loaded, Reading, At, Idle
  <2>7. CASE Subscribed(k) \/ Refused(k)
    BY <2>1, <2>7 DEF Subscribed, Refused
  <2>8. CASE Refreshed(k) \/ RefreshFails(k)
    BY <2>4, <2>8 DEF Refreshed, RefreshFails
  <2>9. CASE Done(k) \/ LogoutAccepted(k)
    BY <2>5, <2>9 DEF Done, LogoutAccepted, Accepted, At, Idle
  <2>10. CASE StartAccepted(k) \/ CancelAccepted(k)
    BY <2>2, <2>10 DEF StartAccepted, CancelAccepted, Accepted, At, Idle
  <2> QED BY <1>6, <2>3, <2>6, <2>7, <2>8, <2>9, <2>10 DEF Resume
<1>7. ASSUME NEW p, NEW state, PollAnswered(p, state)
      PROVE  calls' \in [Calls -> CallType]
  BY <1>1, <1>2, <1>7, BeginTyped DEF PollAnswered
<1>8. CASE Rerun
  <2>1. PICK call : call = Load(effect') /\ Begin(call)
    BY <1>8 DEF Rerun
  <2>2. effect' \in Nat
    BY <1>1, <1>8 DEF Rerun
  <2>3. call \in CallType
    BY <2>1, <2>2 DEF Load, CallType, Value
  <2> QED BY <1>1, <2>1, <2>3, BeginTyped
<1>9. CASE Change
  BY <1>1, <1>9, ChangesTyped DEF Change
<1>10. CASE Unmount \/ (\E t \in timers : TimerFires(t)) \/ UNCHANGED vars
  BY <1>1, <1>10 DEF Unmount, TimerFires, vars
<1> QED BY <1>5, <1>6, <1>7, <1>8, <1>9, <1>10 DEF Next

-----------------------------------------------------------------------------
(* What a step does to the login                                           *)

\* The clean-up of the effect, a cancellation and a logout clear the poll.
Stops ==
  /\ ClearPoll
  /\ UNCHANGED <<polls, started>>
  /\ \/ effect' # effect /\ UNCHANGED oauth
     \/ oauth' = None
     \/ oauth' \in AccountOAuthState /\ oauth'.state = "cancelled"

\* A login is started, and polled from then on.
Starts ==
  /\ started' = started + 1
  /\ oauth' = [session |-> started', state |-> "wait"]
  /\ PollSession(started')
  /\ UNCHANGED polls

\* No step does anything else to it.
LEMMA LoginMoves ==
  ASSUME TypeInv, [Next]_vars
  PROVE  /\ effect' \in Nat
         /\ \/ UNCHANGED <<login, started>>
            \/ Stops
            \/ Starts
            \/ \E t \in timers : TimerFires(t)
            \/ \E p \in polls, state \in UnderWay \cup {"completed", "error"} :
                 PollAnswered(p, state)
<1>1. effect \in Nat /\ calls \in [Calls -> CallType]
  BY DEF TypeInv
<1>2. CASE Click \/ Tick \/ UpdatesArrive \/ Change \/ UNCHANGED vars
  <2>1. UNCHANGED <<effect, login, started>>
    BY <1>2 DEF Click, Tick, UpdatesArrive, ClickRefresh, ClickToggle, ClickStart,
                ClickCancel, ClickLogin, ClickLogout, Ask, BeginRefresh, Change, vars
  <2> QED BY <1>1, <2>1
<1>3. ASSUME NEW k \in Calls, Resume(k)
      PROVE  /\ UNCHANGED effect
             /\ UNCHANGED <<login, started>> \/ Stops \/ Starts
  <2>1. CASE \/ Loaded(k) \/ Subscribed(k) \/ ServeRead(k) \/ Refreshed(k)
             \/ RefreshFails(k) \/ Refused(k) \/ Done(k)
    BY <2>1 DEF Loaded, Subscribed, ServeRead, Refreshed, RefreshFails, Refused, Done,
                Accepted
  <2>2. CASE StartAccepted(k)
    BY <2>2 DEF StartAccepted, Accepted, Starts
  <2>3. CASE CancelAccepted(k)
    <3>1. calls[k].current \in AccountOAuthState
      BY <1>1, <2>3 DEF CancelAccepted, Accepted, At, CallType, Idle
    <3>2. oauth' = [calls[k].current EXCEPT !.state = "cancelled"]
      BY <2>3 DEF CancelAccepted
    <3>3. oauth' \in AccountOAuthState /\ oauth'.state = "cancelled"
      BY <3>1, <3>2 DEF AccountOAuthState
    <3> QED BY <2>3, <3>3 DEF CancelAccepted, Accepted, Stops
  <2>4. CASE LogoutAccepted(k)
    BY <2>4 DEF LogoutAccepted, Accepted, Stops
  <2> QED BY <1>3, <2>1, <2>2, <2>3, <2>4 DEF Resume
<1>4. CASE Rerun \/ Unmount
  <2>1. effect' \in Nat /\ effect' # effect
    BY <1>1, <1>4 DEF Rerun, Unmount
  <2> QED BY <1>4, <2>1 DEF Rerun, Unmount, CleanUp, Stops
<1>5. ASSUME NEW t, TimerFires(t)
      PROVE  effect' \in Nat
  BY <1>1, <1>5 DEF TimerFires
<1>6. ASSUME NEW p, NEW state, PollAnswered(p, state)
      PROVE  effect' \in Nat
  BY <1>1, <1>6 DEF PollAnswered
<1> QED BY <1>1, <1>2, <1>3, <1>4, <1>5, <1>6 DEF Next

\* What LoginIsFollowed and OutcomesAreFinal say of one step.
FollowStep == Followed => Followed' \/ effect' # effect

FinalStep ==
  \A p \in polls : p \notin polls' /\ oauth' # oauth =>
    oauth # None /\ oauth.session = p.session /\ oauth.state \in UnderWay

\* The part of the invariant about the login.
LoginInv ==
  /\ generation \in Nat
  /\ started \in Nat
  /\ oauth \in AccountOAuthState \cup {None}
  /\ timers \subseteq PollType
  /\ polls \subseteq PollType
  /\ OneFollower
  /\ FollowsShown

LoginKept == LoginInv' /\ FollowStep /\ FinalStep

\* Once the poll is cleared, nothing is of the current generation any more.
LEMMA StopsKeep ==
  ASSUME LoginInv, Stops
  PROVE  LoginKept
<1>1. /\ generation' = generation + 1
      /\ timers' = {}
      /\ polls' = polls
      /\ started' = started
  BY DEF Stops, ClearPoll, LoginInv, OneFollower
<1>2. oauth' \in AccountOAuthState \cup {None}
  BY DEF Stops, LoginInv
<1>3. OneFollower' /\ FollowsShown'
  BY <1>1 DEF LoginInv, OneFollower, FollowsShown, Current, PollType
<1>4. LoginInv'
  BY <1>1, <1>2, <1>3 DEF LoginInv
<1>5. FollowStep
  BY DEF Stops, FollowStep, Followed, UnderWay
<1> QED BY <1>1, <1>4, <1>5 DEF LoginKept, FinalStep

\* A login that is started has the only timer, of the generation that is current from then
\* on.
LEMMA StartsKeep ==
  ASSUME LoginInv, Starts
  PROVE  LoginKept
<1>1. PICK timer : timer = [session |-> started', generation |-> generation']
  OBVIOUS
<1>2. /\ generation' = generation + 1
      /\ started' = started + 1
      /\ oauth' = [session |-> started', state |-> "wait"]
      /\ timers' = {timer}
      /\ pollRef' = timer
      /\ polls' = polls
  BY <1>1 DEF Starts, PollSession, Schedule, LoginInv, OneFollower
<1>3. /\ oauth' \in AccountOAuthState /\ oauth'.session = started' /\ oauth'.state = "wait"
      /\ timer \in PollType
  BY <1>1, <1>2 DEF AccountOAuthState, PollType, UnderWay, LoginInv
<1>4. OneFollower' /\ FollowsShown'
  BY <1>1, <1>2, <1>3 DEF LoginInv, OneFollower, FollowsShown, Current, PollType, UnderWay
<1>5. LoginInv'
  BY <1>2, <1>3, <1>4 DEF LoginInv
<1>6. Followed'
  BY <1>1, <1>2, <1>3 DEF Followed
<1> QED BY <1>2, <1>5, <1>6 DEF LoginKept, FollowStep, FinalStep

\* The timer that fires hands its login on to a poll of the same generation.
LEMMA FiringKeeps ==
  ASSUME LoginInv, NEW t, TimerFires(t)
  PROVE  LoginKept
<1>1. /\ t \in timers /\ timers = {t} /\ Current(t)
      /\ timers' = {}
      /\ polls' = polls \cup {t}
      /\ UNCHANGED <<oauth, generation, started, effect>>
  BY DEF TimerFires, LoginInv, OneFollower, Current
<1>2. OneFollower' /\ FollowsShown'
  BY <1>1 DEF LoginInv, OneFollower, FollowsShown, Current, PollType
<1>3. LoginInv'
  BY <1>1, <1>2 DEF LoginInv
<1>4. FollowStep
  BY <1>1 DEF FollowStep, Followed
<1> QED BY <1>1, <1>3, <1>4 DEF LoginKept, FinalStep

\* An answer of an older generation changes nothing; one of the current generation is about
\* the login that is shown, and either ends it or schedules the next poll of it.
LEMMA AnswerKeeps ==
  ASSUME LoginInv, NEW p, NEW state \in UnderWay \cup {"completed", "error"},
         PollAnswered(p, state)
  PROVE  LoginKept
<1>1. /\ p \in polls
      /\ polls' = polls \ {p}
      /\ UNCHANGED <<generation, started, effect>>
  BY DEF PollAnswered
<1>2. CASE ~Current(p)
  <2>1. UNCHANGED <<oauth, timers, pollRef>>
    BY <1>2 DEF PollAnswered, Current
  <2>2. OneFollower' /\ FollowsShown'
    BY <1>1, <2>1 DEF LoginInv, OneFollower, FollowsShown, Current
  <2>3. LoginInv'
    BY <1>1, <2>1, <2>2 DEF LoginInv
  <2>4. FollowStep
    BY <1>1, <1>2, <2>1 DEF FollowStep, Followed, Current
  <2> QED BY <1>1, <2>1, <2>3, <2>4 DEF LoginKept, FinalStep
<1>3. CASE Current(p)
  <2>1. PICK s : s = [session |-> p.session, state |-> state]
    OBVIOUS
  <2>2. /\ oauth' = s
        /\ state \in UnderWay => Schedule(timers, p.session, p.generation)
        /\ state \notin UnderWay => UNCHANGED <<timers, pollRef>>
    BY <1>3, <2>1 DEF PollAnswered, Current
  <2>3. /\ p \in PollType
        /\ s \in AccountOAuthState /\ s.session = p.session /\ s.state = state
        /\ timers = {}
        /\ \A q \in polls' : ~Current(q)
    BY <1>1, <1>3, <2>1 DEF LoginInv, OneFollower, PollType, AccountOAuthState
  <2>4. /\ oauth # None /\ oauth.session = p.session /\ oauth.state \in UnderWay
    BY <1>1, <1>3 DEF LoginInv, FollowsShown
  <2>5. CASE state \in UnderWay
    <3>1. timers' = {p} /\ pollRef' = p
      <4>1. p = [session |-> p.session, generation |-> p.generation]
        BY <2>3 DEF PollType
      <4> QED BY <2>2, <2>3, <2>5, <4>1 DEF Schedule
    <3>2. OneFollower' /\ FollowsShown'
      BY <1>1, <1>3, <2>2, <2>3, <2>5, <3>1
         DEF LoginInv, OneFollower, FollowsShown, Current
    <3>3. LoginInv'
      BY <1>1, <2>2, <2>3, <3>1, <3>2 DEF LoginInv
    <3>4. Followed'
      BY <1>1, <1>3, <2>2, <2>3, <3>1 DEF Followed, Current, PollType
    <3> QED BY <1>1, <2>4, <3>3, <3>4 DEF LoginKept, FollowStep, FinalStep
  <2>6. CASE state \notin UnderWay
    <3>1. OneFollower' /\ FollowsShown'
      BY <1>1, <2>2, <2>3, <2>6 DEF LoginInv, OneFollower, FollowsShown, Current
    <3>2. LoginInv'
      BY <1>1, <2>2, <2>3, <2>6, <3>1 DEF LoginInv
    <3>3. Followed'
      BY <2>2, <2>3, <2>6 DEF Followed
    <3> QED BY <1>1, <2>4, <3>2, <3>3 DEF LoginKept, FollowStep, FinalStep
  <2> QED BY <2>5, <2>6
<1> QED BY <1>2, <1>3

-----------------------------------------------------------------------------
(* The invariant                                                           *)

\* The page has its invariant when it is mounted.
LEMMA InitPage == Init => PageInv
<1> SUFFICES ASSUME Init PROVE PageInv
  OBVIOUS
<1>1. calls \in [Calls -> CallType]
  BY DEF Init, Load, CallType, Value
<1> QED BY <1>1 DEF Init, PageInv, TypeInv, OneFollower, FollowsShown

\* No step opens a second subscription beside the one the ref names.
LEMMA SubscriptionKept ==
  ASSUME subscribed \subseteq {subscription}, [Next]_vars
  PROVE  (subscribed \subseteq {subscription})'
<1>1. CASE Click \/ Tick \/ UpdatesArrive \/ Change \/ UNCHANGED vars
  BY <1>1 DEF Click, Tick, UpdatesArrive, ClickRefresh, ClickToggle, ClickStart,
              ClickCancel, ClickLogin, ClickLogout, Ask, BeginRefresh, Change, host, vars
<1>2. ASSUME NEW k \in Calls, Resume(k)
      PROVE  (subscribed \subseteq {subscription})'
  <2>1. CASE Subscribed(k)
    BY <2>1 DEF Subscribed, host
  <2>2. CASE \/ Loaded(k) \/ ServeRead(k) \/ Refreshed(k) \/ RefreshFails(k)
             \/ Refused(k) \/ Done(k) \/ StartAccepted(k) \/ CancelAccepted(k)
             \/ LogoutAccepted(k)
    BY <2>2 DEF Loaded, ServeRead, Refreshed, RefreshFails, Refused, Done, StartAccepted,
                CancelAccepted, LogoutAccepted, Accepted, host
  <2> QED BY <1>2, <2>1, <2>2 DEF Resume
<1>3. CASE Rerun \/ Unmount
  BY <1>3 DEF Rerun, Unmount, CleanUp
<1>4. ASSUME NEW t, TimerFires(t)
      PROVE  (subscribed \subseteq {subscription})'
  BY <1>4 DEF TimerFires, host
<1>5. ASSUME NEW p, NEW state, PollAnswered(p, state)
      PROVE  (subscribed \subseteq {subscription})'
  BY <1>5 DEF PollAnswered, host
<1> QED BY <1>1, <1>2, <1>3, <1>4, <1>5 DEF Next

\* Every step keeps the invariant, and says what the two action properties say of it.
LEMMA NextPage ==
  ASSUME PageInv, [Next]_vars
  PROVE  PageInv' /\ FollowStep /\ FinalStep
<1>1. LoginInv
  BY DEF PageInv, TypeInv, LoginInv
<1>2. LoginKept
  <2>1. CASE UNCHANGED <<login, started>>
    BY <1>1, <2>1 DEF login, LoginKept, LoginInv, OneFollower, FollowsShown, Current,
                      FollowStep, Followed, FinalStep
  <2> QED BY <1>1, <2>1, LoginMoves, StopsKeep, StartsKeep, FiringKeeps, AnswerKeeps
          DEF PageInv
<1>3. calls' \in [Calls -> CallType] /\ effect' \in Nat
  BY CallsTyped, LoginMoves DEF PageInv
<1>4. (subscribed \subseteq {subscription})'
  BY SubscriptionKept DEF PageInv
<1> QED BY <1>2, <1>3, <1>4 DEF LoginKept, LoginInv, PageInv, TypeInv

\* The invariant of the page: its types, one follower at most, and the login it follows is
\* the one it shows.
THEOREM Inductive == Spec => []PageInv
BY InitPage, NextPage, PTL DEF Spec

\* While the page is mounted it has at most the subscription and the timer that its clean-up
\* will end (subscriptionRef, oauthPollRef), however effects and logins overlap.
THEOREM NothingIsLost == Spec => []NothingLost
<1>1. PageInv => NothingLost
  BY DEF PageInv, OneFollower, NothingLost
<1> QED BY <1>1, Inductive, PTL

\* A login shown as under way goes on being polled (pollOAuthSession) through every other
\* login, cancellation and late answer; only the clean-up of the effect leaves it.
THEOREM LoginsAreFollowed == Spec => LoginIsFollowed
<1>1. PageInv /\ [Next]_vars => [FollowStep]_vars
  BY NextPage
<1> QED BY <1>1, Inductive, PTL DEF Spec, LoginIsFollowed, FollowStep

\* An answer to a poll never changes the state shown of another login, nor one that is
\* final (the generation checks of poll()).
THEOREM OutcomesStay == Spec => OutcomesAreFinal
<1>1. PageInv /\ [Next]_vars => [FinalStep]_vars
  BY NextPage
<1> QED BY <1>1, Inductive, PTL DEF Spec, OutcomesAreFinal, FinalStep
=============================================================================
