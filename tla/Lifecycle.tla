------------------------------ MODULE Lifecycle -----------------------------
(***************************************************************************)
(* LifecycleProjection (src/src/service/lifecycle.ts) behind the adapter's *)
(* retirement check (adapter.ts): the broker's events become lifecycle     *)
(* events for the Host's listeners, and the Host's decisions on approvals  *)
(* become answers to the broker.  receive() runs to its end before the     *)
(* next event; decide() awaits the broker between reading the approval and *)
(* forgetting it, so decisions, events, withdrawals and the retirement of  *)
(* the provider interleave there.                                          *)
(*                                                                         *)
(* An approval stands for its key (thread, turn, approval id), a turn for  *)
(* (thread, turn).  Of a message's text the model keeps how much of it has *)
(* arrived.                                                                *)
(***************************************************************************)
EXTENDS Integers, FiniteSets

CONSTANTS
  Approvals, Events,    \* approval keys, and the broker's event ids
  Turns, Items,         \* turns, and the agent messages of a turn
  Listeners, Deciders,  \* subscriptions, and concurrent calls of decide()
  MaxItems,             \* messages kept per turn
  None

Wire == [approved |-> "accept", denied |-> "decline", cancelled |-> "cancel"]
Decisions == DOMAIN Wire

ASSUME ConstantsAssumption ==
  /\ MaxItems \in Nat
  /\ None \notin Events \cup Approvals
  /\ None \notin {"required", "partial", "full", "accepted", "lost", "refused"}
  /\ None \notin Decisions \cup {Wire[d] : d \in Decisions}
  /\ None \notin [approval : Approvals, event : Events, decision : Decisions,
                 result : {None, "accepted", "lost", "refused"}]
  /\ None \notin [failed : BOOLEAN, items : [Items -> {None, "partial", "full"}]]

VARIABLES
  approvals,    \* the event each pending approval came with
  assistantText,
  listeners,
  disposed, aborted,
  call,         \* the calls of decide() under way, and what they keep over await
  request,      \* broker: the approval an event asks about
  answer,       \* broker: what an event was answered with
  said,         \* broker: how far each message of a turn has been sent
  shown,        \* Host: what a listener was last told about an approval
  granted,      \* Host: the decisions reported as taken, with their events
  output,       \* Host: the messages turn.completed carried
  late          \* Host: listeners that subscribed after dispose()

broker == <<request, answer, said>>
vars == <<approvals, assistantText, listeners, disposed, aborted, call, broker, shown,
          granted, output, late>>

Nothing == [i \in Items |-> None]

Init ==
  /\ approvals = [k \in Approvals |-> None]
  /\ assistantText = [t \in Turns |-> Nothing]
  /\ listeners = {}
  /\ disposed = FALSE /\ aborted = FALSE
  /\ call = [d \in Deciders |-> None]
  /\ request = [e \in Events |-> None]
  /\ answer = [e \in Events |-> None]
  /\ said = [t \in Turns |-> Nothing]
  /\ shown = [l \in Listeners |-> [k \in Approvals |-> None]]
  /\ granted = {}
  /\ output = [t \in Turns |-> None]
  /\ late = {}

\* publish: every listener is called, also when another one throws.
Publish(k, state) ==
  shown' = [l \in Listeners |-> IF l \in listeners THEN [shown[l] EXCEPT ![k] = state]
                                                   ELSE shown[l]]

-----------------------------------------------------------------------------
(* Approvals                                                               *)

\* The broker asks for an approval, perhaps not for the first time; a key that is
\* pending is not asked about again.
Ask(e, k) ==
  /\ ~disposed
  /\ request[e] \in {None, k}
  /\ answer[e] = None
  /\ request' = [request EXCEPT ![e] = k]
  /\ \/ approvals[k] # None /\ UNCHANGED <<approvals, shown>>
     \/ /\ approvals[k] = None
        /\ approvals' = [approvals EXCEPT ![k] = e]
        /\ Publish(k, "required")
  /\ UNCHANGED <<assistantText, listeners, disposed, aborted, call, answer, said, granted,
                 output, late>>

\* The broker no longer waits for an answer.
Withdraw(e) ==
  /\ request[e] # None /\ answer[e] = None
  /\ answer' = [answer EXCEPT ![e] = "withdrawn"]
  /\ UNCHANGED <<approvals, assistantText, listeners, disposed, aborted, call, request,
                 said, shown, granted, output, late>>

\* Mutant: the approval is forgotten before the broker has accepted the answer.
DecideForgetting(d, k, decision) ==
  /\ call[d] = None
  /\ ~disposed /\ ~aborted
  /\ approvals[k] # None
  /\ call' = [call EXCEPT ![d] = [approval |-> k, event |-> approvals[k],
                                  decision |-> decision, result |-> None]]
  /\ approvals' = [approvals EXCEPT ![k] = None]
  /\ UNCHANGED <<assistantText, listeners, disposed, aborted, broker, shown,
                 granted, output, late>>

\* decide, up to `await this.broker.respond(response)`.
Decide(d, k, decision) ==
  /\ call[d] = None
  /\ ~disposed /\ ~aborted
  /\ approvals[k] # None
  /\ call' = [call EXCEPT ![d] = [approval |-> k, event |-> approvals[k],
                                  decision |-> decision, result |-> None]]
  /\ UNCHANGED <<approvals, assistantText, listeners, disposed, aborted, broker, shown,
                 granted, output, late>>

\* The broker takes one answer per event, and refuses the others; an answer it took
\* may be lost on its way back.
Respond(d) ==
  /\ call[d] # None /\ call[d].result = None
  /\ \/ /\ answer[call[d].event] = None
        /\ answer' = [answer EXCEPT ![call[d].event] = Wire[call[d].decision]]
        /\ \E result \in {"accepted", "lost"} : call' = [call EXCEPT ![d].result = result]
     \/ /\ call' = [call EXCEPT ![d].result = "refused"]
        /\ UNCHANGED answer
  /\ UNCHANGED <<approvals, assistantText, listeners, disposed, aborted, request, said,
                 shown, granted, output, late>>

\* Mutant: what the broker said of the answer is not looked at.
DecidedAnyway(d) ==
  /\ call[d] # None /\ call[d].result # None
  /\ call' = [call EXCEPT ![d] = None]
  /\ LET k == call[d].approval
     IN  /\ approvals' = [approvals EXCEPT ![k] = None]
         /\ Publish(k, call[d].decision)
         /\ granted' = granted \cup
              {[event |-> call[d].event, decision |-> call[d].decision]}
  /\ UNCHANGED <<assistantText, listeners, disposed, aborted, broker, output, late>>

\* decide, from the broker's answer on.
Decided(d) ==
  /\ call[d] # None /\ call[d].result # None
  /\ call' = [call EXCEPT ![d] = None]
  /\ \/ /\ call[d].result = "accepted"
        /\ approvals' = [approvals EXCEPT ![call[d].approval] = None]
        /\ Publish(call[d].approval, call[d].decision)
        /\ granted' = granted \cup
             {[event |-> call[d].event, decision |-> call[d].decision]}
     \/ /\ call[d].result # "accepted"
        /\ UNCHANGED <<approvals, shown, granted>>
  /\ UNCHANGED <<assistantText, listeners, disposed, aborted, broker, output, late>>

-----------------------------------------------------------------------------
(* The text of a turn                                                      *)

\* Mutant: a full turn takes nothing more, not even for a message it has.
RoomForAll(t, i) == Cardinality({j \in Items : assistantText[t][j] # None}) < MaxItems

\* A message is kept when it is known or there is room for one more.
Room(t, i) ==
  \/ assistantText[t][i] # None
  \/ Cardinality({j \in Items : assistantText[t][j] # None}) < MaxItems

\* item/agentMessage/delta, then item/completed with the whole text.  The broker
\* sends nothing of a message after its completion, nor of a turn after its end.
Say(t, i) ==
  /\ ~disposed
  /\ output[t] = None
  /\ said[t][i] # "full"
  /\ \E text \in {"partial", "full"} :
       /\ said' = [said EXCEPT ![t][i] = text]
       /\ assistantText' = IF Room(t, i) THEN [assistantText EXCEPT ![t][i] = text]
                                         ELSE assistantText
  /\ UNCHANGED <<approvals, listeners, disposed, aborted, call, request, answer, shown,
                 granted, output, late>>

\* turn/completed and turn/failed: the first carries the text, both forget it.
EndTurn(t) ==
  /\ ~disposed
  /\ output[t] = None
  /\ \E failed \in BOOLEAN : output' = [output EXCEPT ![t] =
       [failed |-> failed, items |-> IF failed THEN Nothing ELSE assistantText[t]]]
  /\ assistantText' = [assistantText EXCEPT ![t] = Nothing]
  /\ UNCHANGED <<approvals, listeners, disposed, aborted, call, broker, shown, granted,
                 late>>

-----------------------------------------------------------------------------
(* Subscriptions and retirement                                            *)

\* Nothing keeps a listener from subscribing to a retired provider.
Subscribe(l) ==
  /\ l \notin listeners
  /\ listeners' = listeners \cup {l}
  /\ shown' = [shown EXCEPT ![l] = [k \in Approvals |-> None]]
  /\ late' = IF disposed THEN late \cup {l} ELSE late
  /\ UNCHANGED <<approvals, assistantText, disposed, aborted, call, broker, granted, output>>

Unsubscribe(l) ==
  /\ l \in listeners
  /\ listeners' = listeners \ {l}
  /\ UNCHANGED <<approvals, assistantText, disposed, aborted, call, broker, shown, granted,
                 output, late>>

Abort ==
  /\ ~aborted
  /\ aborted' = TRUE
  /\ UNCHANGED <<approvals, assistantText, listeners, disposed, call, broker, shown,
                 granted, output, late>>

\* Mutant: the listeners are left to unsubscribe themselves.
DisposeKeepingListeners ==
  /\ ~disposed
  /\ disposed' = TRUE
  /\ approvals' = [k \in Approvals |-> None]
  /\ assistantText' = [t \in Turns |-> Nothing]
  /\ UNCHANGED <<listeners, aborted, call, broker, shown, granted, output, late>>

\* dispose: the broker's subscription, the listeners and all that is kept go.
Dispose ==
  /\ ~disposed
  /\ disposed' = TRUE
  /\ listeners' = {}
  /\ approvals' = [k \in Approvals |-> None]
  /\ assistantText' = [t \in Turns |-> Nothing]
  /\ UNCHANGED <<aborted, call, broker, shown, granted, output, late>>

Next ==
  \/ \E e \in Events : Withdraw(e) \/ \E k \in Approvals : Ask(e, k)
  \/ \E d \in Deciders :
       \/ \E k \in Approvals, decision \in Decisions : Decide(d, k, decision)
       \/ Respond(d)
       \/ Decided(d)
  \/ \E t \in Turns : EndTurn(t) \/ \E i \in Items : Say(t, i)
  \/ \E l \in Listeners : Subscribe(l) \/ Unsubscribe(l)
  \/ Abort
  \/ Dispose

Spec == Init /\ [][Next]_vars

-----------------------------------------------------------------------------
(* Properties                                                              *)

\* Whoever decides at the same time, the Host is told of one outcome per request,
\* and it is the one the broker acts on: as the result of a decision and as what
\* approval.resolved says.
AnnouncedIsAnswered ==
  /\ \A g \in granted : answer[g.event] = Wire[g.decision]
  /\ \A l \in Listeners, k \in Approvals : shown[l][k] \in Decisions =>
       \E e \in Events : request[e] = k /\ answer[e] = Wire[shown[l][k]]

\* An approval a listener was told is required, and not that it is resolved, can be
\* decided: no answer that was refused, lost or is still under way has removed it.
PendingIsDecidable ==
  \A l \in listeners, k \in Approvals : shown[l][k] = "required" => approvals[k] # None

\* A decision that is under way when the provider is retired tells no listener of
\* that provider about its outcome any more.
DisposedIsSilent ==
  [][disposed => \A l \in Listeners \ late' : shown'[l] = shown[l]]_vars

\* The output of a completed turn holds the whole of every message the broker
\* completed, as long as there were no more than the projection keeps, and exactly
\* as many as it keeps when there were more.
OutputIsComplete ==
  \A t \in Turns : output[t] # None /\ ~output[t].failed =>
    LET sent == {i \in Items : said[t][i] # None}
        kept == {i \in Items : output[t].items[i] # None}
    IN  /\ kept \subseteq sent
        /\ Cardinality(kept) = IF Cardinality(sent) < MaxItems
                                 THEN Cardinality(sent) ELSE MaxItems
        /\ \A i \in kept : output[t].items[i] = said[t][i]
=============================================================================
