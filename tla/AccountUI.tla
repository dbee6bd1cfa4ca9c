------------------------------ MODULE AccountUI -----------------------------
(***************************************************************************)
(* managedServiceUI (src/src/service/gateway-ui.ts): what the pages of the *)
(* Host may ask of the managed gateway's accounts.  Every operation awaits *)
(* the managed service, and some then await a refresh of the gateway's     *)
(* models, so several of them overlap; one action is the code from one     *)
(* await to the next.  invoke() holds its lease only within a call that is *)
(* "asked" or "served", and releases it whatever happens.                  *)
(*                                                                         *)
(* An account list is the set of accounts that are disabled; its revision, *)
(* a hash of it, is the list itself.  The extension is created while a     *)
(* gateway is active; without one, every operation answers unavailable.    *)
(* The numbers that label answers, and readCatalog(), which changes        *)
(* nothing else, are left out.                                             *)
(***************************************************************************)
EXTENDS Integers, FiniteSets

CONSTANTS
  Callers,     \* pages; each makes one call at a time
  Accounts,
  Sessions,    \* OAuth sessions the managed service may open
  None,        \* undefined
  MaxCalls     \* bound of the model on the calls made

ASSUME ConstantsAssumption ==
  /\ None \notin Sessions
  /\ \A list \in SUBSET Accounts : None # list
  /\ Accounts \cap Sessions = {}
  /\ MaxCalls \in Nat

VARIABLES
  revision,       \* accountsRevision
  sessions,
  calls,          \* what each caller awaits
  aborted,        \* signal.aborted, of the pages and of the gateway
  begun,          \* calls made so far
  view,           \* callers: the account list each was last given
  open,           \* callers: sessions reported started and not yet ended
  disabled,       \* service: the accounts
  login,          \* service: the state of each session
  serving,        \* gateway: an activation is in force
  unread,         \* gateway: what changed since its models were last read
  overdue,        \* of these, what this code was told of
  refreshFailed   \* gateway: a refresh was tried and failed

program == <<revision, sessions, calls>>
pages == <<view, open>>
service == <<disabled, login>>
gateway == <<serving, unread, overdue, refreshFailed>>
vars == <<program, aborted, begun, pages, service, gateway>>

Idle == [pc |-> "idle"]

Init ==
  /\ revision = None
  /\ sessions = {}
  /\ calls = [c \in Callers |-> Idle]
  /\ aborted = FALSE
  /\ begun = 0
  /\ view = [c \in Callers |-> None]
  /\ open = {}
  /\ disabled \in SUBSET Accounts
  /\ login = [s \in Sessions |-> "unused"]
  /\ serving \in BOOLEAN
  /\ unread = {}
  /\ overdue = {}
  /\ refreshFailed = FALSE

-----------------------------------------------------------------------------
(* The callers                                                             *)

\* The caller c awaits the answer of the managed service to op.
Ask(c, op, on) ==
  /\ calls[c] = Idle
  /\ begun < MaxCalls
  /\ begun' = begun + 1
  /\ calls' = [calls EXCEPT ![c] = [pc |-> "asked", op |-> op, on |-> on, value |-> None]]
  /\ UNCHANGED <<revision, sessions, aborted, pages, service, gateway>>

\* A request carries the revision of the list its caller was given.  Only that of the
\* list read last passes; any other, or another binding, is denied and changes nothing.
Fenced(c) == view[c] # None /\ view[c] = revision

ReadAccounts(c) == ~aborted /\ Ask(c, "accounts", None)

ToggleAccount(c) ==
  \E account \in Accounts, disable \in BOOLEAN :
    Fenced(c) /\ Ask(c, "toggle", [account |-> account, disable |-> disable])

StartOAuth(c) == Fenced(c) /\ Ask(c, "start", None)

\* A session that is not known is answered without a call, and changes nothing.
PollOAuth(c) == \E s \in sessions : Ask(c, "poll", s)

CancelOAuth(c) == \E s \in sessions : Fenced(c) /\ Ask(c, "cancel", s)

-----------------------------------------------------------------------------
(* The managed service and the gateway                                     *)

At(c, pc, op) == calls[c] # Idle /\ calls[c].pc = pc /\ calls[c].op = op

\* The service answers the call of c with `value`.
Answer(c, value) ==
  /\ calls' = [calls EXCEPT ![c].pc = "served", ![c].value = value]
  /\ UNCHANGED <<revision, sessions, aborted, begun, pages, serving, overdue,
                 refreshFailed>>

\* The call of c is refused its lease, or its request is not accepted, which the
\* service may also say of what it has done.
Refuse(c) ==
  /\ calls[c].pc \in {"asked", "served"}
  /\ Answer(c, None)
  /\ UNCHANGED <<service, unread>>

ServeAccounts(c) == At(c, "asked", "accounts") /\ Answer(c, disabled)
                      /\ UNCHANGED <<service, unread>>

ServeToggle(c) ==
  /\ At(c, "asked", "toggle")
  /\ LET account == calls[c].on.account IN
       /\ disabled' = IF calls[c].on.disable THEN disabled \cup {account}
                      ELSE disabled \ {account}
       /\ unread' = IF disabled' = disabled THEN unread ELSE unread \cup {account}
  /\ Answer(c, TRUE)
  /\ UNCHANGED login

ServeStart(c) ==
  /\ At(c, "asked", "start")
  /\ \E s \in Sessions :
       /\ login[s] = "unused"
       /\ login' = [login EXCEPT ![s] = "wait"]
       /\ Answer(c, s)
  /\ UNCHANGED <<disabled, unread>>

ServePoll(c) == At(c, "asked", "poll") /\ Answer(c, login[calls[c].on])
                  /\ UNCHANGED <<service, unread>>

\* Only a login that waits can be cancelled; the answer says whether it was.
ServeCancel(c) ==
  /\ At(c, "asked", "cancel")
  /\ LET s == calls[c].on
         waits == login[s] = "wait"
     IN  /\ login' = IF waits THEN [login EXCEPT ![s] = "gone"] ELSE login
         /\ Answer(c, waits)
  /\ UNCHANGED <<disabled, unread>>

\* The user logs in, or fails to, at the provider: a new account brings its models.
LogIn(s) ==
  /\ login[s] = "wait"
  /\ \/ login' = [login EXCEPT ![s] = "ok"] /\ unread' = unread \cup {s}
     \/ login' = [login EXCEPT ![s] = "error"] /\ UNCHANGED unread
  /\ UNCHANGED <<program, aborted, begun, pages, disabled, serving, overdue, refreshFailed>>

\* The service forgets a session that timed out or ended.
Forget(s) ==
  /\ login[s] \in {"wait", "ok", "error"}
  /\ login' = [login EXCEPT ![s] = "gone"]
  /\ UNCHANGED <<program, aborted, begun, pages, disabled, gateway>>

\* The gateway drops its activation, or puts one in force and reads its models.
GatewayChanges ==
  /\ serving' = ~serving
  /\ unread' = IF serving' THEN {} ELSE unread
  /\ overdue' = IF serving' THEN {} ELSE overdue
  /\ UNCHANGED <<program, aborted, begun, pages, service, refreshFailed>>

Abort ==
  /\ ~aborted
  /\ aborted' = TRUE
  /\ UNCHANGED <<program, begun, pages, service, gateway>>

-----------------------------------------------------------------------------
(* The code, when an answer arrives                                        *)

End(c) == calls' = [calls EXCEPT ![c] = Idle]

\* Mutant: a call shares the refresh another one has asked for.
AwaitRefreshShared(c, x) ==
  /\ calls' = [calls EXCEPT ![c].pc =
                 IF \E d \in Callers : calls[d].pc \in {"refresh", "refreshed"}
                   THEN "refreshed" ELSE "refresh"]
  /\ overdue' = IF x \in unread THEN overdue \cup {x} ELSE overdue

\* The call of c goes on to refresh the gateway's models, because of x.
AwaitRefresh(c, x) ==
  /\ calls' = [calls EXCEPT ![c].pc = "refresh"]
  /\ overdue' = IF x \in unread THEN overdue \cup {x} ELSE overdue

\* The answer is lost or the await throws: the caller sees an exception.
Throw(c) ==
  /\ calls[c].pc \in {"asked", "served"}
  /\ End(c)
  /\ UNCHANGED <<revision, sessions, aborted, begun, pages, service, gateway>>

AccountsRead(c) ==
  /\ At(c, "served", "accounts")
  /\ End(c)
  /\ IF calls[c].value = None
       THEN UNCHANGED <<revision, view>>
       ELSE revision' = calls[c].value /\ view' = [view EXCEPT ![c] = revision']
  /\ UNCHANGED <<sessions, aborted, begun, open, service, gateway>>

Toggled(c) ==
  /\ At(c, "served", "toggle")
  /\ IF calls[c].value # None /\ ~aborted
       THEN AwaitRefresh(c, calls[c].on.account)
       ELSE End(c) /\ UNCHANGED overdue
  /\ UNCHANGED <<revision, sessions, aborted, begun, pages, service, serving, unread,
                 refreshFailed>>

OAuthStarted(c) ==
  /\ At(c, "served", "start")
  /\ End(c)
  /\ LET started == IF calls[c].value = None THEN {} ELSE {calls[c].value} IN
       sessions' = sessions \cup started /\ open' = open \cup started
  /\ UNCHANGED <<revision, aborted, begun, view, service, gateway>>

\* Mutant: whatever is not `wait` ends a session.
CompletedUnlessWaiting(value) == value # "wait"

\* The answers of a poll that end a session.
Completed(value) == value \in {"ok", "error"}

\* A poll forgets the session with its outcome; a successful one refreshes the models
\* before its caller is told.
OAuthPolled(c) ==
  /\ At(c, "served", "poll")
  /\ LET s == calls[c].on
         value == calls[c].value
     IN  /\ sessions' = IF Completed(value) THEN sessions \ {s} ELSE sessions
         /\ IF value = "ok" /\ ~aborted
              THEN AwaitRefresh(c, s) /\ UNCHANGED open
              ELSE /\ End(c)
                   /\ open' = IF value \in {"ok", "error"} THEN open \ {s} ELSE open
                   /\ UNCHANGED overdue
  /\ UNCHANGED <<revision, aborted, begun, view, service, serving, unread, refreshFailed>>

OAuthCancelled(c) ==
  /\ At(c, "served", "cancel")
  /\ End(c)
  /\ LET cancelled == IF calls[c].value = TRUE THEN {calls[c].on} ELSE {} IN
       sessions' = sessions \ cancelled /\ open' = open \ cancelled
  /\ UNCHANGED <<revision, aborted, begun, view, service, gateway>>

\* refreshGatewayModels() comes to its turn: it reads the models the service has now
\* and publishes them, fails, or finds no activation and leaves it to the next one.
Refresh(c) ==
  /\ calls[c].pc = "refresh"
  /\ calls' = [calls EXCEPT ![c].pc = "refreshed"]
  /\ \/ /\ aborted \/ ~serving
        /\ UNCHANGED <<unread, overdue, refreshFailed>>
     \/ /\ serving /\ ~aborted
        /\ unread' = {} /\ overdue' = {} /\ UNCHANGED refreshFailed
     \/ /\ serving /\ ~aborted
        /\ refreshFailed' = TRUE /\ UNCHANGED <<unread, overdue>>
  /\ UNCHANGED <<revision, sessions, aborted, begun, pages, service, serving>>

\* The refresh has ended, well or not, and the caller of c is told.
TellAfterRefresh(c) ==
  /\ calls[c].pc = "refreshed"
  /\ End(c)
  /\ open' = IF calls[c].op = "poll" THEN open \ {calls[c].on} ELSE open
  /\ UNCHANGED <<revision, sessions, aborted, begun, view, service, gateway>>

-----------------------------------------------------------------------------

Call(c) ==
  \/ ReadAccounts(c) \/ ToggleAccount(c) \/ StartOAuth(c)
  \/ PollOAuth(c) \/ CancelOAuth(c)

Served(c) ==
  \/ Refuse(c) \/ ServeAccounts(c) \/ ServeToggle(c) \/ ServeStart(c)
  \/ ServePoll(c) \/ ServeCancel(c)

Resume(c) ==
  \/ Throw(c) \/ AccountsRead(c) \/ Toggled(c) \/ OAuthStarted(c)
  \/ OAuthPolled(c) \/ OAuthCancelled(c) \/ Refresh(c) \/ TellAfterRefresh(c)

Next ==
  \/ \E c \in Callers : Call(c) \/ Served(c) \/ Resume(c)
  \/ \E s \in Sessions : LogIn(s) \/ Forget(s)
  \/ GatewayChanges
  \/ Abort

Spec == Init /\ [][Next]_vars

-----------------------------------------------------------------------------
(* Properties                                                              *)

\* A change of the accounts this code was told of (an accepted toggle, a completed
\* login) reaches the models the gateway publishes: until it has, a call that will
\* refresh them is still under way, unless the gateway is not serving, a refresh
\* failed or everything was aborted.
ChangesReachModels ==
  serving /\ ~aborted /\ ~refreshFailed /\ overdue # {}
    => \E c \in Callers : calls[c].pc = "refresh"

\* A login that a caller was told is started stays open to polls until its outcome is
\* told, whatever answers are refused or lost and whichever polls and cancellations
\* of it overlap.
OutcomesAreTold ==
  \A s \in open \ sessions :
    \E c \in Callers : /\ calls[c].pc \in {"refresh", "refreshed"}
                       /\ calls[c].op = "poll"
                       /\ calls[c].on = s
=============================================================================
