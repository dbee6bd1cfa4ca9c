---------------------------- MODULE HostUIProofs ----------------------------
(***************************************************************************)
(* Proofs about what the plugin keeps standing in the Host's interface.    *)
(*                                                                         *)
(* The account source: a change the code was told of reaches the models,   *)
(* and a login stays open to polls until its outcome is told, for any      *)
(* number of pages, accounts, logins and calls.  Both follow a call: the   *)
(* one that will refresh the models is under way as long as they are owed, *)
(* and the one that ended a login is under way until its caller hears of   *)
(* it.                                                                     *)
(*                                                                         *)
(* The settings entry: for any number of runs of the effect, whatever a    *)
(* live run shows is either what the list asks for, or about to be looked  *)
(* at again.                                                               *)
(***************************************************************************)
EXTENDS AccountUI, SettingsEntry, TLAPS

-----------------------------------------------------------------------------
(* The account source                                                      *)

\* A call has its four fields, whatever they hold.
CallShape(x) == x = [pc |-> x.pc, op |-> x.op, on |-> x.on, value |-> x.value]

TypeInv ==
  /\ calls = [c \in Callers |-> calls[c]]
  /\ \A c \in Callers : calls[c] = Idle \/ CallShape(calls[c])
  /\ aborted \in BOOLEAN /\ serving \in BOOLEAN /\ refreshFailed \in BOOLEAN

AccountInv == TypeInv /\ ChangesReachModels /\ OutcomesAreTold

\* A call will refresh the gateway's models; a call will tell the outcome of the login s.
Refreshing == \E c \in Callers : calls[c].pc = "refresh"

Telling(s) ==
  \E c \in Callers : /\ calls[c].pc \in {"refresh", "refreshed"}
                     /\ calls[c].op = "poll"
                     /\ calls[c].on = s

Due == serving /\ ~aborted /\ ~refreshFailed /\ overdue # {}

\* Only the call of c moves.
Moves(c) ==
  /\ calls' = [d \in Callers |-> calls'[d]]
  /\ \A d \in Callers \ {c} : calls'[d] = calls[d]
  /\ calls'[c] = Idle \/ CallShape(calls'[c])

\* The calls keep their shape, whoever moves.
LEMMA MovesTyped ==
  ASSUME TypeInv, NEW c \in Callers, Moves(c),
         UNCHANGED <<aborted, serving, refreshFailed>>
           \/ (aborted' \in BOOLEAN /\ serving' \in BOOLEAN /\ refreshFailed' \in BOOLEAN)
  PROVE  TypeInv'
BY DEF TypeInv, Moves, CallShape

\* A call that had not come to its refresh leaves those that have where they are.
LEMMA OthersWait ==
  ASSUME NEW c \in Callers, Moves(c), calls[c].pc \notin {"refresh", "refreshed"}
  PROVE  /\ Refreshing => Refreshing'
         /\ \A s : Telling(s) => Telling(s)'
BY DEF Moves, Refreshing, Telling

\* The two invariants, by those names.
Promised == (Due => Refreshing) /\ \A s \in open \ sessions : Telling(s)

\* They say that, now and after a step.
LEMMA Promises ==
  /\ AccountInv <=> TypeInv /\ Promised
  /\ AccountInv' <=> TypeInv' /\ Promised'
<1>1. AccountInv <=> TypeInv /\ Promised
  BY Zenon DEF AccountInv, Promised, ChangesReachModels, OutcomesAreTold, Due, Refreshing,
               Telling
<1>2. AccountInv' <=> TypeInv' /\ Promised'
  BY Zenon DEF AccountInv, Promised, ChangesReachModels, OutcomesAreTold, Due, Refreshing,
               Telling
<1> QED BY <1>1, <1>2

\* The invariant holds at the start.
LEMMA InitAccounts == Init => AccountInv
BY DEF Init, AccountInv, TypeInv, ChangesReachModels, OutcomesAreTold

\* A caller asks, and the service answers: neither is told anything yet.
LEMMA CallKeeps ==
  ASSUME AccountInv, NEW c \in Callers, Call(c) \/ Served(c) \/ Throw(c)
  PROVE  AccountInv'
<1>1. TypeInv /\ Promised
  BY Promises
<1>2. /\ calls[c].pc \notin {"refresh", "refreshed"}
      /\ Moves(c)
      /\ UNCHANGED <<sessions, aborted, open, serving, overdue, refreshFailed>>
  <2>1. ASSUME NEW op, NEW on, Ask(c, op, on)
        PROVE  /\ calls[c].pc \notin {"refresh", "refreshed"}
               /\ Moves(c)
               /\ UNCHANGED <<sessions, aborted, open, serving, overdue, refreshFailed>>
    BY <1>1, <2>1 DEF Ask, Idle, TypeInv, Moves, CallShape, pages, service, gateway
  <2>2. CASE Call(c)
    BY <2>1, <2>2 DEF Call, ReadAccounts, ToggleAccount, StartOAuth, PollOAuth, CancelOAuth
  <2>3. ASSUME NEW value, Answer(c, value), calls[c].pc \in {"asked", "served"}
        PROVE  /\ calls[c].pc \notin {"refresh", "refreshed"}
               /\ Moves(c)
               /\ UNCHANGED <<sessions, aborted, open, serving, overdue, refreshFailed>>
    <3>1. CallShape(calls[c]) /\ calls = [d \in Callers |-> calls[d]]
      BY <1>1, <2>3 DEF TypeInv, Idle
    <3>2. calls' = [calls EXCEPT ![c].pc = "served", ![c].value = value]
      BY <2>3 DEF Answer
    <3>3. calls'[c] = [pc |-> "served", op |-> calls[c].op, on |-> calls[c].on,
                       value |-> value]
      BY <3>1, <3>2 DEF CallShape
    <3>4. /\ calls' = [d \in Callers |-> calls'[d]]
          /\ \A d \in Callers \ {c} : calls'[d] = calls[d]
      BY <3>1, <3>2, Zenon
    <3>5. Moves(c)
      BY <3>3, <3>4 DEF Moves, CallShape
    <3> QED BY <2>3, <3>5 DEF Answer, pages
  <2>4. CASE Served(c)
    BY <2>3, <2>4 DEF Served, Refuse, ServeAccounts, ServeToggle, ServeStart, ServePoll,
                      ServeCancel, At
  <2>5. CASE Throw(c)
    BY <1>1, <2>5 DEF Throw, End, TypeInv, Moves, pages, service, gateway
  <2> QED BY <2>2, <2>4, <2>5
<1>3. TypeInv'
  BY <1>1, <1>2, MovesTyped
<1>4. Promised'
  BY <1>1, <1>2, OthersWait DEF Promised, Due
<1> QED BY <1>3, <1>4, Promises

\* A call that is answered ends, or goes on to the refresh that tells what it did.
LEMMA AnsweredKeeps ==
  ASSUME AccountInv, NEW c \in Callers,
         \/ AccountsRead(c) \/ Toggled(c) \/ OAuthStarted(c) \/ OAuthPolled(c)
         \/ OAuthCancelled(c)
  PROVE  AccountInv'
<1>1. TypeInv /\ Promised
  BY Promises
<1>2. /\ calls[c].pc = "served" /\ CallShape(calls[c])
      /\ UNCHANGED <<aborted, serving, refreshFailed>>
  <2>1. /\ calls[c].pc = "served"
        /\ UNCHANGED <<aborted, serving, refreshFailed>>
    BY Zenon DEF AccountsRead, Toggled, OAuthStarted, OAuthPolled, OAuthCancelled, At, gateway
  <2> QED BY <1>1, <2>1 DEF TypeInv, Idle
<1>3. End(c) => Moves(c)
  BY <1>1 DEF End, Moves, TypeInv
<1>4. ASSUME NEW x, AwaitRefresh(c, x)
      PROVE  /\ Moves(c)
             /\ calls'[c].pc = "refresh" /\ calls'[c].op = calls[c].op
             /\ calls'[c].on = calls[c].on
  <2>1. calls' = [calls EXCEPT ![c].pc = "refresh"]
    BY <1>4 DEF AwaitRefresh
  <2>2. calls'[c] = [pc |-> "refresh", op |-> calls[c].op, on |-> calls[c].on,
                     value |-> calls[c].value]
    BY <1>1, <1>2, <2>1 DEF CallShape, TypeInv
  <2>3. /\ calls' = [d \in Callers |-> calls'[d]]
        /\ \A d \in Callers \ {c} : calls'[d] = calls[d]
    BY <1>1, <2>1 DEF TypeInv
  <2> QED BY <2>2, <2>3 DEF Moves, CallShape
<1>5. Moves(c)
  BY <1>3, <1>4 DEF AccountsRead, Toggled, OAuthStarted, OAuthPolled, OAuthCancelled
<1>6. TypeInv'
  BY <1>1, <1>2, <1>5, MovesTyped
<1>7. (Refreshing => Refreshing') /\ \A s : Telling(s) => Telling(s)'
  BY <1>2, <1>5, OthersWait
<1>8. (Due => Refreshing)'
  <2>1. CASE UNCHANGED overdue
    BY <1>1, <1>2, <1>7, <2>1 DEF Promised, Due
  <2>2. CASE \E x : AwaitRefresh(c, x)
    BY <1>4, <2>2 DEF Refreshing
  <2> QED BY <2>1, <2>2 DEF AccountsRead, Toggled, OAuthStarted, OAuthPolled, OAuthCancelled,
                           gateway
<1>9. \A s \in open' \ sessions' : Telling(s)'
  <2>1. CASE open' \ sessions' \subseteq open \ sessions
    BY <1>1, <1>7, <2>1 DEF Promised
  <2>2. CASE AccountsRead(c) \/ Toggled(c)
    BY <2>1, <2>2 DEF AccountsRead, Toggled, pages
  <2>3. CASE OAuthStarted(c) \/ OAuthCancelled(c)
    BY <2>1, <2>3 DEF OAuthStarted, OAuthCancelled
  <2>4. CASE OAuthPolled(c)
    <3>1. CASE calls[c].value = "ok" /\ ~aborted
      <4>1. /\ AwaitRefresh(c, calls[c].on) /\ open' = open
            /\ sessions' \in {sessions, sessions \ {calls[c].on}} /\ calls[c].op = "poll"
        BY <2>4, <3>1 DEF OAuthPolled, At
      <4>2. ASSUME NEW s \in open' \ sessions'
            PROVE  Telling(s)'
        <5>1. CASE s = calls[c].on
          BY <1>4, <4>1, <5>1 DEF Telling
        <5>2. CASE s # calls[c].on
          BY <1>1, <1>7, <4>1, <4>2, <5>2 DEF Promised
        <5> QED BY <5>1, <5>2
      <4> QED BY <4>2
    <3>2. CASE ~(calls[c].value = "ok" /\ ~aborted)
      BY <2>1, <2>4, <3>2 DEF OAuthPolled, Completed
    <3> QED BY <3>1, <3>2
  <2> QED BY <2>2, <2>3, <2>4
<1> QED BY <1>6, <1>8, <1>9, Promises DEF Promised

\* A refresh that ends settles what was owed, or fails; its caller is told then.
LEMMA RefreshKeeps ==
  ASSUME AccountInv, NEW c \in Callers, Refresh(c) \/ TellAfterRefresh(c)
  PROVE  AccountInv'
<1>1. TypeInv /\ Promised
  BY Promises
<1>2. CASE Refresh(c)
  <2>1. /\ calls[c].pc = "refresh" /\ calls' = [calls EXCEPT ![c].pc = "refreshed"]
        /\ UNCHANGED <<sessions, aborted, open, serving>>
    BY <1>2 DEF Refresh, pages
  <2>2. CallShape(calls[c])
    BY <1>1, <2>1 DEF TypeInv, Idle
  <2>3. calls'[c] = [pc |-> "refreshed", op |-> calls[c].op, on |-> calls[c].on,
                     value |-> calls[c].value]
    BY <1>1, <2>1, <2>2 DEF CallShape, TypeInv
  <2>4. /\ calls' = [d \in Callers |-> calls'[d]]
        /\ \A d \in Callers \ {c} : calls'[d] = calls[d]
    BY <1>1, <2>1 DEF TypeInv
  <2>5. Moves(c)
    BY <2>3, <2>4 DEF Moves, CallShape
  <2>6. refreshFailed' \in BOOLEAN /\ ~Due'
    <3>1. \/ (aborted' \/ ~serving') /\ refreshFailed' = refreshFailed
          \/ overdue' = {} /\ refreshFailed' = refreshFailed
          \/ refreshFailed' = TRUE
      BY <1>2, Zenon DEF Refresh
    <3> QED BY <1>1, <3>1, Zenon DEF TypeInv, Due
  <2>7. TypeInv'
    BY <1>1, <2>1, <2>5, <2>6, MovesTyped DEF TypeInv
  <2>8. \A s : Telling(s) => Telling(s)'
    BY <2>1, <2>3, <2>4 DEF Telling
  <2> QED BY <1>1, <2>1, <2>6, <2>7, <2>8, Promises DEF Promised
<1>3. CASE TellAfterRefresh(c)
  <2>1. /\ calls[c].pc = "refreshed"
        /\ calls' = [calls EXCEPT ![c] = Idle]
        /\ open' = IF calls[c].op = "poll" THEN open \ {calls[c].on} ELSE open
        /\ UNCHANGED <<sessions, aborted, serving, overdue, refreshFailed>>
    BY <1>3 DEF TellAfterRefresh, End, gateway
  <2>2. Moves(c)
    BY <1>1, <2>1 DEF Moves, TypeInv
  <2>3. TypeInv'
    BY <1>1, <2>1, <2>2, MovesTyped
  <2>4. (Due => Refreshing)'
    BY <1>1, <2>1, <2>2 DEF Promised, Due, Refreshing, Moves
  <2>5. ASSUME NEW s \in open' \ sessions'
        PROVE  Telling(s)'
    <3>1. Telling(s) /\ (calls[c].op = "poll" => calls[c].on # s)
      BY <1>1, <2>1 DEF Promised
    <3> QED BY <2>2, <3>1 DEF Telling, Moves
  <2> QED BY <2>3, <2>4, <2>5, Promises DEF Promised
<1> QED BY <1>2, <1>3

\* Every step keeps the invariant.
LEMMA NextAccounts ==
  ASSUME AccountInv, [Next]_vars
  PROVE  AccountInv'
<1>1. TypeInv /\ Promised
  BY Promises
<1>2. CASE \/ (\E s \in Sessions : LogIn(s) \/ Forget(s)) \/ GatewayChanges \/ Abort
           \/ UNCHANGED vars
  <2>1. /\ UNCHANGED <<calls, sessions, open, refreshFailed>>
        /\ \/ UNCHANGED <<serving, aborted, overdue>>
           \/ GatewayChanges \/ Abort
    BY <1>2 DEF LogIn, Forget, GatewayChanges, Abort, vars, program, pages, gateway
  <2>2. \/ UNCHANGED <<serving, aborted, overdue>>
        \/ /\ aborted' = aborted /\ serving' = ~serving
           /\ overdue' = IF serving' THEN {} ELSE overdue
        \/ aborted' = TRUE /\ serving' = serving
    BY <2>1, Zenon DEF GatewayChanges, Abort, gateway
  <2>3. TypeInv'
    BY <1>1, <2>1, <2>2 DEF TypeInv
  <2>4. Due' => Due
    BY <1>1, <2>1, <2>2 DEF TypeInv, Due
  <2>5. (Refreshing => Refreshing') /\ \A s : Telling(s) => Telling(s)'
    BY <2>1 DEF Refreshing, Telling
  <2> QED BY <1>1, <2>1, <2>3, <2>4, <2>5, Promises DEF Promised
<1> QED BY <1>2, CallKeeps, AnsweredKeeps, RefreshKeeps DEF Next, Resume

\* The two invariants are inductive together with the shape of the calls.
THEOREM Inductive == Spec => []AccountInv
BY InitAccounts, NextAccounts, PTL DEF Spec

\* A change the code was told of (setAccountDisabled, pollOAuth of gateway-ui.ts) reaches
\* the models the gateway publishes: a call that will refresh them is under way until then.
THEOREM ChangesAreRead == Spec => []ChangesReachModels
<1>1. AccountInv => ChangesReachModels
  BY DEF AccountInv
<1> QED BY <1>1, Inductive, PTL

\* A login reported started stays open to polls until its outcome is told (pollOAuth of
\* gateway-ui.ts), whatever is refused, lost or cancelled beside it.
THEOREM LoginsAreTold == Spec => []OutcomesAreTold
<1>1. AccountInv => OutcomesAreTold
  BY DEF AccountInv
<1> QED BY <1>1, Inductive, PTL

-----------------------------------------------------------------------------
(* The settings entry                                                      *)

EntryTypes ==
  /\ available \in BOOLEAN
  /\ shown \in [Effects -> Nat]
  /\ telling \in SUBSET Effects
  /\ phase \in [Effects -> {"new", "live", "over"}]
  /\ settingsEntry \in [Effects -> BOOLEAN]
  /\ syncing \in [Effects -> {"no", "insert", "dispose"}]

\* The variable of a run says whether it shows its entry, but for the call of the Host it is
\* in and for the clean-up, which leaves the variable set.
EntryMatches(e) ==
  /\ syncing[e] = "no" => shown[e] = 0 \/ (settingsEntry[e] /\ shown[e] = 1)
  /\ syncing[e] = "no" /\ phase[e] = "live" /\ settingsEntry[e] => shown[e] = 1
  /\ syncing[e] = "insert" => ~available /\ shown[e] = 1
  /\ syncing[e] = "dispose" => available /\ shown[e] = 0

\* A live run shows what the list asks for, or is about to look at it.
LooksAgain(e) ==
  phase[e] = "live" =>
    e \in telling \/ syncing[e] # "no" \/ settingsEntry[e] = ~available

\* A run that has not begun has done nothing.
NotBegun(e) ==
  phase[e] = "new" =>
    e \notin telling /\ e \notin refreshing /\ ~settingsEntry[e] /\ syncing[e] = "no"

EntryInv ==
  EntryTypes /\ \A e \in Effects : EntryMatches(e) /\ LooksAgain(e) /\ NotBegun(e)

\* The types of the entry's variables are kept.
LEMMA EntryTyped ==
  ASSUME EntryTypes, [EntryNext]_entryVars
  PROVE  EntryTypes'
<1>1. ASSUME NEW e \in Effects, Start(e) \/ Refreshed(e)
      PROVE  EntryTypes'
  BY <1>1 DEF Start, Refreshed, EntryTypes
<1>2. ASSUME NEW e \in Effects, Sync(e)
      PROVE  EntryTypes'
  BY <1>2 DEF Sync, Live, EntryTypes
<1>3. ASSUME NEW e \in Effects, Synced(e)
      PROVE  EntryTypes'
  BY <1>3 DEF Synced, EntryTypes
<1>4. ASSUME NEW e \in Effects, CleanUp(e)
      PROVE  EntryTypes'
  BY <1>4 DEF CleanUp, EntryTypes
<1>5. CASE ListChanges \/ UNCHANGED entryVars
  BY <1>5 DEF ListChanges, Live, EntryTypes, entryVars
<1> QED BY <1>1, <1>2, <1>3, <1>4, <1>5 DEF EntryNext

\* syncSettingsEntry, from the list's change or from within a call it made itself.
LEMMA SyncKeeps ==
  ASSUME EntryInv, EntryTypes', NEW e \in Effects, Sync(e), NEW d \in Effects
  PROVE  (EntryMatches(d) /\ LooksAgain(d) /\ NotBegun(d))'
<1> USE DEF EntryInv, EntryTypes
<1>1. phase[e] # "new" /\ (d \in Live => phase[d] = "live")
  BY DEF Sync, NotBegun, Live
<1>2. CASE /\ syncing[e] = "no" /\ available = settingsEntry[e]
           /\ shown' = [shown EXCEPT ![e] = IF available THEN 0 ELSE @ + 1]
           /\ syncing' = [syncing EXCEPT ![e] = IF available THEN "dispose" ELSE "insert"]
           /\ telling' = (telling \ {e}) \cup Live
  <2>1. UNCHANGED <<available, phase, settingsEntry, refreshing>>
    BY DEF Sync
  <2>2. CASE d = e
    <3>1. /\ available => syncing'[d] = "dispose" /\ shown'[d] = 0
          /\ ~available => syncing'[d] = "insert" /\ shown'[d] = shown[d] + 1
      BY <1>2, <2>2
    <3>2. ~available => shown[d] = 0
      BY <1>2, <2>2 DEF EntryMatches
    <3> QED BY <1>1, <2>1, <2>2, <3>1, <3>2 DEF EntryMatches, LooksAgain, NotBegun
  <2>3. CASE d # e
    <3>1. syncing'[d] = syncing[d] /\ shown'[d] = shown[d] /\ (d \in telling => d \in telling')
          /\ (d \in telling' => d \in telling \/ d \in Live)
      BY <1>2, <2>3
    <3> QED BY <1>1, <2>1, <3>1 DEF EntryMatches, LooksAgain, NotBegun
  <2> QED BY <2>2, <2>3
<1>3. CASE /\ syncing[e] # "no" \/ available # settingsEntry[e]
           /\ telling' = telling \ {e}
           /\ UNCHANGED <<shown, syncing>>
  <2>1. UNCHANGED <<available, phase, settingsEntry, refreshing>>
    BY DEF Sync
  <2>2. available # settingsEntry[e] => settingsEntry[e] = ~available
    OBVIOUS
  <2> QED BY <1>3, <2>1, <2>2 DEF EntryMatches, LooksAgain, NotBegun
<1> QED BY <1>2, <1>3 DEF Sync

\* Every step keeps the invariant of the settings entry.
LEMMA NextEntry ==
  ASSUME EntryInv, [EntryNext]_entryVars
  PROVE  EntryInv'
<1>1. EntryTypes'
  BY EntryTyped DEF EntryInv
<1> SUFFICES ASSUME NEW d \in Effects
             PROVE  (EntryMatches(d) /\ LooksAgain(d) /\ NotBegun(d))'
  BY <1>1 DEF EntryInv
<1> USE DEF EntryInv, EntryTypes
<1>2. ASSUME NEW e \in Effects, Start(e)
      PROVE  (EntryMatches(d) /\ LooksAgain(d) /\ NotBegun(d))'
  <2>1. /\ Quiet /\ phase[e] = "new" /\ phase' = [phase EXCEPT ![e] = "live"]
        /\ telling' = {e} /\ refreshing' = refreshing \cup {e}
        /\ UNCHANGED <<available, shown, settingsEntry, syncing>> /\ phase[d] # "live"
    BY <1>2 DEF Start, Live
  <2> QED BY <2>1 DEF EntryMatches, LooksAgain, NotBegun
<1>3. CASE ListChanges
  BY <1>3 DEF ListChanges, Quiet, Live, EntryMatches, LooksAgain, NotBegun
<1>4. ASSUME NEW e \in Effects, Refreshed(e)
      PROVE  (EntryMatches(d) /\ LooksAgain(d) /\ NotBegun(d))'
  BY <1>4 DEF Refreshed, Quiet, EntryMatches, LooksAgain, NotBegun
<1>5. ASSUME NEW e \in Effects, Synced(e)
      PROVE  (EntryMatches(d) /\ LooksAgain(d) /\ NotBegun(d))'
  <2>1. /\ telling = {} /\ syncing[e] # "no"
        /\ UNCHANGED <<available, shown, telling, phase, refreshing>>
    BY <1>5 DEF Synced
  <2>2. CASE d = e
    <3>1. syncing'[d] = "no" /\ settingsEntry'[d] = (syncing[d] = "insert")
      BY <1>5, <2>2 DEF Synced
    <3> QED BY <2>1, <2>2, <3>1 DEF EntryMatches, LooksAgain, NotBegun
  <2>3. CASE d # e
    <3>1. syncing'[d] = syncing[d] /\ settingsEntry'[d] = settingsEntry[d]
      BY <1>5, <2>3 DEF Synced
    <3> QED BY <2>1, <3>1 DEF EntryMatches, LooksAgain, NotBegun
  <2> QED BY <2>2, <2>3
<1>6. ASSUME NEW e \in Effects, CleanUp(e)
      PROVE  (EntryMatches(d) /\ LooksAgain(d) /\ NotBegun(d))'
  BY <1>6 DEF CleanUp, Quiet, EntryMatches, LooksAgain, NotBegun
<1>7. CASE UNCHANGED entryVars
  BY <1>7 DEF entryVars, EntryMatches, LooksAgain, NotBegun
<1> QED BY <1>1, <1>2, <1>3, <1>4, <1>5, <1>6, <1>7, SyncKeeps DEF EntryNext

\* However the list's changes meet the changes they lead to (syncSettingsEntry of index.ts),
\* a run shows one entry at most; when the Host is done telling, a live run shows one
\* exactly while the provider is not listed.
THEOREM OneEntryStandsIn == EntrySpec => []EntryStandsIn
<1>1. EntryInit => EntryInv
  BY DEF EntryInit, EntryInv, EntryTypes, EntryMatches, LooksAgain, NotBegun
<1>2. EntryInv => EntryStandsIn
  <2> SUFFICES ASSUME EntryInv, NEW e \in Effects
               PROVE  /\ shown[e] <= 1
                      /\ Quiet /\ e \in Live
                           => shown[e] = IF available THEN 0 ELSE 1
    BY DEF EntryStandsIn
  <2>1. EntryMatches(e) /\ LooksAgain(e) /\ EntryTypes
    BY DEF EntryInv
  <2>2. syncing[e] \in {"no", "insert", "dispose"} /\ shown[e] \in Nat
        /\ settingsEntry[e] \in BOOLEAN /\ available \in BOOLEAN
    BY <2>1 DEF EntryTypes
  <2>3. shown[e] <= 1
    BY <2>1, <2>2 DEF EntryMatches
  <2>4. ASSUME Quiet, e \in Live
        PROVE  shown[e] = IF available THEN 0 ELSE 1
    <3>1. settingsEntry[e] = ~available /\ syncing[e] = "no" /\ phase[e] = "live"
      BY <2>1, <2>4 DEF Quiet, Live, LooksAgain
    <3> QED BY <2>1, <2>2, <3>1 DEF EntryMatches
  <2> QED BY <2>3, <2>4
<1>3. QED
  BY <1>1, <1>2, NextEntry, PTL DEF EntrySpec
=============================================================================
