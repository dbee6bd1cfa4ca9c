--------------------------- MODULE LifecycleProofs ---------------------------
(***************************************************************************)
(* Proofs about Lifecycle, for all approvals, events, turns, messages and  *)
(* listeners and any number of decisions at a time.  The argument is that  *)
(* an event asks about one approval and takes one answer for good, so what *)
(* a decision keeps over its await stays true however late it goes on; and *)
(* that the text kept of a turn is a full part of what was sent of it.     *)
(***************************************************************************)
EXTENDS Lifecycle, FiniteSetTheorems, TLAPS

USE ConstantsAssumption

-----------------------------------------------------------------------------
(* The inductive invariant                                                 *)

Texts == [Items -> {None, "partial", "full"}]

Calls == [approval : Approvals, event : Events, decision : Decisions,
          result : {None, "accepted", "lost", "refused"}]

Outputs == [failed : BOOLEAN, items : Texts]

TypeOK ==
  /\ approvals \in [Approvals -> Events \cup {None}]
  /\ assistantText \in [Turns -> Texts]
  /\ listeners \in SUBSET Listeners
  /\ disposed \in BOOLEAN
  /\ call \in [Deciders -> Calls \cup {None}]
  /\ request \in [Events -> Approvals \cup {None}]
  /\ answer \in [Events -> {None, "withdrawn"} \cup {Wire[d] : d \in Decisions}]
  /\ said \in [Turns -> Texts]
  /\ shown \in [Listeners -> [Approvals -> {None, "required"} \cup Decisions]]
  /\ output \in [Turns -> Outputs \cup {None}]
  /\ granted \in SUBSET [event : Events, decision : Decisions]

\* What is pending, and what is being decided, is what its event asked about.
AskedFor ==
  /\ \A k \in Approvals : approvals[k] # None => request[approvals[k]] = k
  /\ \A d \in Deciders : call[d] # None => request[call[d].event] = call[d].approval

\* The broker acts on every decision it accepted, also when its acceptance is lost.
AcceptedIsAnswered ==
  \A d \in Deciders : call[d] # None /\ call[d].result \in {"accepted", "lost"} =>
    answer[call[d].event] = Wire[call[d].decision]

\* After dispose() only those still listen that subscribed after it.
ListenersAreLate == disposed => listeners \subseteq late

Kept(items) == {i \in Items : items[i] # None}

\* items is what a projection with room for MaxItems keeps of sent.
Keeps(sent, items) ==
  /\ IsFiniteSet(Kept(sent))
  /\ Kept(items) \subseteq Kept(sent)
  /\ Cardinality(Kept(items)) = IF Cardinality(Kept(sent)) < MaxItems
                                  THEN Cardinality(Kept(sent)) ELSE MaxItems
  /\ \A i \in Kept(items) : items[i] = sent[i]

\* So it is with the text of a turn while it runs, and with the output it had.
TextIsKept ==
  \A t \in Turns :
    /\ output[t] = None /\ ~disposed => Keeps(said[t], assistantText[t])
    /\ output[t] # None /\ ~output[t].failed => Keeps(said[t], output[t].items)

IInv ==
  /\ TypeOK
  /\ AskedFor
  /\ AcceptedIsAnswered
  /\ AnnouncedIsAnswered
  /\ PendingIsDecidable
  /\ ListenersAreLate
  /\ TextIsKept

-----------------------------------------------------------------------------
(* Lemmas                                                                  *)

\* A decision is not the state of an approval that is required, and what the broker
\* is answered is an answer.
LEMMA DecisionValues ==
  /\ "required" \notin Decisions
  /\ None \notin Decisions
  /\ \A d \in Decisions : Wire[d] # None
<1>1. Decisions = {"approved", "denied", "cancelled"}
  BY DEF Decisions, Wire
<1>2. QED
  BY <1>1

\* Publishing tells those who listen, and no others.
LEMMA Published ==
  ASSUME shown \in [Listeners -> [Approvals -> {None, "required"} \cup Decisions]],
         NEW k \in Approvals, NEW state \in {"required"} \cup Decisions, Publish(k, state)
  PROVE  /\ shown' \in [Listeners -> [Approvals -> {None, "required"} \cup Decisions]]
         /\ \A l \in Listeners \ listeners : shown'[l] = shown[l]
         /\ \A l \in Listeners, j \in Approvals :
              shown'[l][j] = IF l \in listeners /\ j = k THEN state ELSE shown[l][j]
<1>1. \A l \in Listeners : shown'[l] = IF l \in listeners THEN [shown[l] EXCEPT ![k] = state]
                                                           ELSE shown[l]
  BY DEF Publish
<1>2. QED
  BY <1>1 DEF Publish

\* Of nothing, nothing is kept.
LEMMA KeepsNothing == Keeps(Nothing, Nothing)
<1>1. Kept(Nothing) = {}
  BY DEF Kept, Nothing
<1>2. QED
  BY <1>1, FS_EmptySet DEF Keeps

\* A message that is known, or for which there is room, is kept as it is now; one
\* more that was not sent before takes one more place, and the others stay.
LEMMA KeepsMore ==
  ASSUME NEW sent \in Texts, NEW items \in Texts, Keeps(sent, items),
         NEW i \in Items, NEW text \in {"partial", "full"}, NEW room \in BOOLEAN,
         room <=> items[i] # None \/ Cardinality(Kept(items)) < MaxItems
  PROVE  Keeps([sent EXCEPT ![i] = text], IF room THEN [items EXCEPT ![i] = text] ELSE items)
<1> DEFINE sent2 == [sent EXCEPT ![i] = text]
           items2 == IF room THEN [items EXCEPT ![i] = text] ELSE items
<1>1. /\ IsFiniteSet(Kept(sent)) /\ IsFiniteSet(Kept(items))
      /\ Cardinality(Kept(sent)) \in Nat /\ Cardinality(Kept(items)) \in Nat
      /\ Kept(items) \subseteq Kept(sent)
  BY FS_Subset, FS_CardinalityType DEF Keeps
<1>2. /\ Kept(sent2) = Kept(sent) \cup {i}
      /\ Kept(items2) = IF room THEN Kept(items) \cup {i} ELSE Kept(items)
  BY DEF Kept, Texts
<1> HIDE DEF sent2, items2
<1>3. IsFiniteSet(Kept(sent2))
  <2>1. IsFiniteSet(Kept(sent) \cup {i})
    BY <1>1, FS_AddElement
  <2>2. QED
    BY <1>2, <2>1
<1>4. Kept(items2) \subseteq Kept(sent2)
  BY <1>1, <1>2
<1>5. \A j \in Kept(items2) : items2[j] = sent2[j]
  <2>1. CASE room
    BY <1>2, <2>1 DEF Keeps, Kept, Texts, sent2, items2
  <2>2. CASE ~room
    BY <1>2, <2>2 DEF Keeps, Kept, Texts, sent2, items2
  <2>3. QED
    BY <2>1, <2>2
<1>6. Cardinality(Kept(items2)) = IF Cardinality(Kept(sent2)) < MaxItems
                                    THEN Cardinality(Kept(sent2)) ELSE MaxItems
  <2>1. CASE i \in Kept(items)
    <3>1. room /\ Kept(sent2) = Kept(sent) /\ Kept(items2) = Kept(items)
      BY <1>1, <1>2, <2>1 DEF Kept
    <3>2. QED
      BY <3>1 DEF Keeps
  <2>2. CASE i \notin Kept(items) /\ i \in Kept(sent)
    <3>1. Cardinality(Kept(items)) # Cardinality(Kept(sent))
      BY <1>1, <2>2, FS_Subset
    <3>2. ~room
      BY <1>1, <2>2, <3>1 DEF Keeps, Kept
    <3>3. Kept(sent2) = Kept(sent) /\ Kept(items2) = Kept(items)
      BY <1>2, <2>2, <3>2
    <3>4. QED
      BY <3>3 DEF Keeps
  <2>3. CASE i \notin Kept(sent)
    <3>1. i \notin Kept(items) /\ items[i] = None
      BY <1>1, <2>3 DEF Kept
    <3>2. /\ Cardinality(Kept(sent2)) = Cardinality(Kept(sent)) + 1
          /\ Cardinality(Kept(items) \cup {i}) = Cardinality(Kept(items)) + 1
      <4>1. /\ Cardinality(Kept(sent) \cup {i}) = Cardinality(Kept(sent)) + 1
            /\ Cardinality(Kept(items) \cup {i}) = Cardinality(Kept(items)) + 1
        BY <1>1, <2>3, <3>1, FS_AddElement
      <4>2. QED
        BY <1>2, <4>1
    <3>3. QED
      BY <1>1, <1>2, <3>1, <3>2 DEF Keeps
  <2>4. QED
    BY <1>1, <2>1, <2>2, <2>3
<1>7. QED
  BY <1>3, <1>4, <1>5, <1>6 DEF Keeps, sent2, items2

-----------------------------------------------------------------------------
(* The invariant holds initially and in every step                         *)

\* A projection begins with nothing asked, announced or said.
LEMMA InitIInv == Init => IInv
<1> SUFFICES ASSUME Init PROVE IInv
  OBVIOUS
<1>1. Nothing \in Texts
  BY DEF Nothing, Texts
<1>2. TypeOK
  BY <1>1 DEF Init, TypeOK
<1>3. AskedFor /\ AcceptedIsAnswered /\ PendingIsDecidable /\ ListenersAreLate
  BY DEF Init, AskedFor, AcceptedIsAnswered, PendingIsDecidable, ListenersAreLate
<1>4. AnnouncedIsAnswered
  BY DecisionValues DEF Init, AnnouncedIsAnswered
<1>5. TextIsKept
  BY KeepsNothing DEF Init, TextIsKept
<1>6. QED
  BY <1>2, <1>3, <1>4, <1>5 DEF IInv

\* What concerns approvals, and what concerns texts, is changed by different steps.
ApprovalsUnchanged == UNCHANGED <<approvals, listeners, call, request, answer, shown, granted>>

TextsUnchanged == UNCHANGED <<assistantText, said, output, disposed>>

\* The approvals' part of the invariant speaks of these variables only.
LEMMA ApprovalsFrame ==
  ASSUME IInv, ApprovalsUnchanged
  PROVE  AskedFor' /\ AcceptedIsAnswered' /\ AnnouncedIsAnswered' /\ PendingIsDecidable'
  BY DEF ApprovalsUnchanged, IInv, AskedFor, AcceptedIsAnswered, AnnouncedIsAnswered,
         PendingIsDecidable

\* The texts' part of the invariant speaks of these variables only.
LEMMA TextsFrame ==
  ASSUME IInv, TextsUnchanged
  PROVE  TextIsKept'
  BY DEF TextsUnchanged, IInv, TextIsKept

\* An event may be asked about again, but never about another approval.
LEMMA AskIInv ==
  ASSUME IInv, NEW e \in Events, NEW k \in Approvals, Ask(e, k)
  PROVE  IInv'
<1>1. /\ ~disposed /\ request[e] \in {None, k} /\ answer[e] = None
      /\ request' = [request EXCEPT ![e] = k]
      /\ UNCHANGED <<assistantText, listeners, disposed, aborted, call, answer, said, granted,
                     output, late>>
  BY DEF Ask
<1>2. \/ approvals' = approvals /\ shown' = shown
      \/ approvals' = [approvals EXCEPT ![k] = e] /\ Publish(k, "required")
  BY DEF Ask
<1>3. /\ request \in [Events -> Approvals \cup {None}]
      /\ request' \in [Events -> Approvals \cup {None}]
      /\ request'[e] = k
      /\ \A f \in Events : request[f] # None => request'[f] = request[f]
  BY <1>1 DEF IInv, TypeOK
<1>4. /\ shown' \in [Listeners -> [Approvals -> {None, "required"} \cup Decisions]]
      /\ \A l \in Listeners, j \in Approvals :
           \/ shown'[l][j] = shown[l][j]
           \/ shown'[l][j] = "required" /\ j = k /\ approvals'[k] = e
  BY <1>2, Published DEF IInv, TypeOK
<1>5. /\ approvals' \in [Approvals -> Events \cup {None}]
      /\ \A j \in Approvals : approvals'[j] = approvals[j] \/ (j = k /\ approvals'[j] = e)
  BY <1>2 DEF IInv, TypeOK
<1>6. TypeOK'
  BY <1>1, <1>3, <1>4, <1>5 DEF IInv, TypeOK
<1>7. AskedFor'
  <2>1. ASSUME NEW j \in Approvals, approvals'[j] # None
        PROVE  request'[approvals'[j]] = j
    BY <1>3, <1>5, <2>1 DEF IInv, TypeOK, AskedFor
  <2>2. ASSUME NEW d \in Deciders, call'[d] # None
        PROVE  request'[call'[d].event] = call'[d].approval
    BY <1>1, <1>3, <2>2 DEF IInv, TypeOK, Calls, AskedFor
  <2>3. QED
    BY <2>1, <2>2 DEF AskedFor
<1>8. AcceptedIsAnswered'
  BY <1>1 DEF IInv, AcceptedIsAnswered
<1>9. AnnouncedIsAnswered'
  <2>1. ASSUME NEW l \in Listeners, NEW j \in Approvals, shown'[l][j] \in Decisions
        PROVE  \E f \in Events : request'[f] = j /\ answer'[f] = Wire[shown'[l][j]]
    <3>1. shown'[l][j] = shown[l][j]
      BY <1>4, <2>1, DecisionValues
    <3>2. PICK f \in Events : request[f] = j /\ answer[f] = Wire[shown[l][j]]
      BY <2>1, <3>1 DEF IInv, AnnouncedIsAnswered
    <3>3. request'[f] = j
      BY <1>3, <3>2
    <3>4. QED
      BY <1>1, <3>1, <3>2, <3>3
  <2>2. QED
    BY <1>1, <2>1 DEF IInv, AnnouncedIsAnswered
<1>10. PendingIsDecidable'
  <2>1. ASSUME NEW l \in listeners, NEW j \in Approvals, shown'[l][j] = "required"
        PROVE  approvals'[j] # None
    BY <1>1, <1>2, <1>4, <1>5, <2>1 DEF IInv, TypeOK, PendingIsDecidable
  <2>2. QED
    BY <1>1, <2>1 DEF PendingIsDecidable
<1>11. ListenersAreLate'
  BY <1>1 DEF ListenersAreLate
<1>12. TextIsKept'
  BY <1>1, TextsFrame DEF TextsUnchanged
<1>13. QED
  BY <1>6, <1>7, <1>8, <1>9, <1>10, <1>11, <1>12 DEF IInv

\* What an event was answered with stays; so does everything that rests on it.
LEMMA AnswerKeeps ==
  ASSUME IInv, UNCHANGED <<approvals, listeners, request, shown, granted>>,
         \A f \in Events : answer[f] # None => answer'[f] = answer[f]
  PROVE  AnnouncedIsAnswered' /\ PendingIsDecidable'
<1>1. ASSUME NEW g \in granted
      PROVE  answer'[g.event] = Wire[g.decision]
  <2>1. g.event \in Events /\ g.decision \in Decisions /\ answer[g.event] = Wire[g.decision]
    BY DEF IInv, TypeOK, AnnouncedIsAnswered
  <2>2. QED
    BY <2>1, DecisionValues
<1>2. ASSUME NEW l \in Listeners, NEW j \in Approvals, shown[l][j] \in Decisions
      PROVE  \E f \in Events : request[f] = j /\ answer'[f] = Wire[shown[l][j]]
  <2>1. PICK f \in Events : request[f] = j /\ answer[f] = Wire[shown[l][j]]
    BY <1>2 DEF IInv, AnnouncedIsAnswered
  <2>2. answer'[f] = answer[f]
    BY <1>2, <2>1, DecisionValues
  <2>3. QED
    BY <2>1, <2>2
<1>3. AnnouncedIsAnswered'
  BY <1>1, <1>2 DEF AnnouncedIsAnswered
<1>4. PendingIsDecidable'
  BY DEF IInv, PendingIsDecidable
<1>5. QED
  BY <1>3, <1>4

\* The broker withdraws a request: it is answered from then on.
LEMMA WithdrawIInv ==
  ASSUME IInv, NEW e \in Events, Withdraw(e)
  PROVE  IInv'
<1>1. /\ answer[e] = None /\ answer' = [answer EXCEPT ![e] = "withdrawn"]
      /\ UNCHANGED <<approvals, assistantText, listeners, disposed, call, request, said, shown,
                     granted, output, late>>
  BY DEF Withdraw
<1>2. /\ answer' \in [Events -> {None, "withdrawn"} \cup {Wire[d] : d \in Decisions}]
      /\ \A f \in Events : answer[f] # None => answer'[f] = answer[f]
  BY <1>1 DEF IInv, TypeOK
<1>3. TypeOK'
  BY <1>1, <1>2 DEF IInv, TypeOK
<1>4. AskedFor' /\ ListenersAreLate' /\ TextIsKept'
  BY <1>1 DEF IInv, AskedFor, ListenersAreLate, TextIsKept
<1>5. AcceptedIsAnswered'
  BY <1>1, <1>2, DecisionValues DEF IInv, TypeOK, Calls, AcceptedIsAnswered
<1>6. QED
  BY <1>1, <1>2, <1>3, <1>4, <1>5, AnswerKeeps DEF IInv

\* A decision starts from what is pending.
LEMMA DecideIInv ==
  ASSUME IInv, NEW d \in Deciders, NEW k \in Approvals, NEW decision \in Decisions,
         Decide(d, k, decision)
  PROVE  IInv'
<1> DEFINE new == [approval |-> k, event |-> approvals[k], decision |-> decision,
                   result |-> None]
<1>1. /\ approvals[k] # None /\ call' = [call EXCEPT ![d] = new]
      /\ UNCHANGED <<approvals, assistantText, listeners, disposed, request, answer, said,
                     shown, granted, output, late>>
  BY DEF Decide, broker
<1>2. new \in Calls /\ new.event = approvals[k] /\ new.approval = k /\ new.result = None
  BY <1>1 DEF IInv, TypeOK, Calls
<1> HIDE DEF new
<1>3. /\ call' \in [Deciders -> Calls \cup {None}]
      /\ \A c \in Deciders : call'[c] = IF c = d THEN new ELSE call[c]
  BY <1>1, <1>2 DEF IInv, TypeOK
<1>4. TypeOK'
  BY <1>1, <1>3 DEF IInv, TypeOK
<1>5. AskedFor'
  BY <1>1, <1>2, <1>3 DEF IInv, AskedFor
<1>6. AcceptedIsAnswered'
  BY <1>1, <1>2, <1>3 DEF IInv, AcceptedIsAnswered
<1>7. AnnouncedIsAnswered' /\ PendingIsDecidable' /\ ListenersAreLate' /\ TextIsKept'
  BY <1>1 DEF IInv, AnnouncedIsAnswered, PendingIsDecidable, ListenersAreLate, TextIsKept
<1>8. QED
  BY <1>4, <1>5, <1>6, <1>7 DEF IInv

\* The broker accepts the one answer it acts on.
LEMMA RespondIInv ==
  ASSUME IInv, NEW d \in Deciders, Respond(d)
  PROVE  IInv'
<1>1. /\ call[d] # None /\ call[d].result = None /\ call[d] \in Calls
      /\ UNCHANGED <<approvals, assistantText, listeners, disposed, request, said, shown,
                     granted, output, late>>
  BY DEF Respond, IInv, TypeOK
<1>2. PICK result \in {"accepted", "lost", "refused"} :
        /\ call' = [call EXCEPT ![d].result = result]
        /\ IF result = "refused"
             THEN answer' = answer
             ELSE /\ answer[call[d].event] = None
                  /\ answer' = [answer EXCEPT ![call[d].event] = Wire[call[d].decision]]
  BY Zenon DEF Respond
<1>3. /\ call[d].event \in Events /\ call[d].decision \in Decisions
      /\ answer \in [Events -> {None, "withdrawn"} \cup {Wire[c] : c \in Decisions}]
  BY <1>1 DEF Calls, IInv, TypeOK
<1>4. /\ answer' \in [Events -> {None, "withdrawn"} \cup {Wire[c] : c \in Decisions}]
      /\ \A f \in Events : answer[f] # None => answer'[f] = answer[f]
      /\ result # "refused" => answer'[call[d].event] = Wire[call[d].decision]
  BY <1>2, <1>3
<1>5. /\ call' \in [Deciders -> Calls \cup {None}]
      /\ \A c \in Deciders \ {d} : call'[c] = call[c]
      /\ call'[d].approval = call[d].approval /\ call'[d].event = call[d].event
      /\ call'[d].decision = call[d].decision /\ call'[d].result = result
  <2>1. /\ call'[d] = [call[d] EXCEPT !.result = result]
        /\ \A c \in Deciders \ {d} : call'[c] = call[c]
    BY <1>2 DEF IInv, TypeOK
  <2>2. [call[d] EXCEPT !.result = result] \in Calls
    BY <1>1 DEF Calls
  <2>3. call' \in [Deciders -> Calls \cup {None}]
    BY <1>2, <2>1, <2>2 DEF IInv, TypeOK
  <2>4. QED
    BY <1>1, <2>1, <2>3 DEF Calls
<1>6. TypeOK'
  BY <1>1, <1>4, <1>5 DEF IInv, TypeOK
<1>7. AskedFor'
  BY <1>1, <1>5 DEF IInv, AskedFor
<1>8. AcceptedIsAnswered'
  <2>1. ASSUME NEW c \in Deciders, call'[c] # None, call'[c].result \in {"accepted", "lost"}
        PROVE  answer'[call'[c].event] = Wire[call'[c].decision]
    <3>1. CASE c = d
      BY <1>4, <1>5, <2>1, <3>1
    <3>2. CASE c # d
      <4>1. call'[c] = call[c] /\ call[c] \in Calls
        BY <1>5, <2>1, <3>2 DEF IInv, TypeOK
      <4>2. call[c].event \in Events /\ call[c].decision \in Decisions
        BY <4>1 DEF Calls
      <4>3. answer[call[c].event] = Wire[call[c].decision]
        BY <2>1, <4>1 DEF IInv, AcceptedIsAnswered
      <4>4. QED
        BY <1>4, <4>1, <4>2, <4>3, DecisionValues
    <3>3. QED
      BY <3>1, <3>2
  <2>2. QED
    BY <2>1 DEF AcceptedIsAnswered
<1>9. ListenersAreLate' /\ TextIsKept'
  BY <1>1 DEF IInv, ListenersAreLate, TextIsKept
<1>10. QED
  BY <1>1, <1>4, <1>6, <1>7, <1>8, <1>9, AnswerKeeps DEF IInv

\* A decision the broker accepted is announced to those who listen, and its approval
\* is forgotten; any other changes nothing.
LEMMA DecidedIInv ==
  ASSUME IInv, NEW d \in Deciders, Decided(d)
  PROVE  IInv'
<1> DEFINE k == call[d].approval
           e == call[d].event
           decision == call[d].decision
<1>1. /\ call[d] # None /\ call[d] \in Calls /\ call' = [call EXCEPT ![d] = None]
      /\ UNCHANGED <<assistantText, listeners, disposed, request, answer, said, output, late>>
  BY DEF Decided, broker, IInv, TypeOK
<1>2. k \in Approvals /\ e \in Events /\ decision \in Decisions
  BY <1>1 DEF Calls
<1>3. /\ call' \in [Deciders -> Calls \cup {None}]
      /\ \A c \in Deciders : call'[c] # None => call'[c] = call[c]
  BY <1>1 DEF IInv, TypeOK
<1>5. AcceptedIsAnswered'
  BY <1>1, <1>3 DEF IInv, AcceptedIsAnswered
<1>6. ListenersAreLate' /\ TextIsKept'
  BY <1>1 DEF IInv, ListenersAreLate, TextIsKept
<1>7. CASE call[d].result # "accepted" /\ UNCHANGED <<approvals, shown, granted>>
  <2>1. TypeOK' /\ AskedFor' /\ AnnouncedIsAnswered' /\ PendingIsDecidable'
    BY <1>1, <1>3, <1>7 DEF IInv, TypeOK, AskedFor, AnnouncedIsAnswered, PendingIsDecidable
  <2>2. QED
    BY <1>5, <1>6, <2>1 DEF IInv
<1>8. CASE /\ call[d].result = "accepted"
           /\ approvals' = [approvals EXCEPT ![k] = None]
           /\ Publish(k, decision)
           /\ granted' = granted \cup {[event |-> e, decision |-> decision]}
  <2>1. answer[e] = Wire[decision] /\ request[e] = k
    BY <1>1, <1>8 DEF IInv, AcceptedIsAnswered, AskedFor
  <2> HIDE DEF k, e, decision
  <2>2. /\ shown' \in [Listeners -> [Approvals -> {None, "required"} \cup Decisions]]
        /\ \A l \in Listeners, j \in Approvals :
             shown'[l][j] = IF l \in listeners /\ j = k THEN decision ELSE shown[l][j]
    BY <1>2, <1>8, Published DEF IInv, TypeOK
  <2>3. /\ approvals' \in [Approvals -> Events \cup {None}]
        /\ \A j \in Approvals : approvals'[j] = IF j = k THEN None ELSE approvals[j]
    BY <1>2, <1>8 DEF IInv, TypeOK
  <2>4. granted' \in SUBSET [event : Events, decision : Decisions]
    BY <1>2, <1>8 DEF IInv, TypeOK
  <2>5. TypeOK'
    BY <1>1, <1>3, <2>2, <2>3, <2>4 DEF IInv, TypeOK
  <2>6. AskedFor'
    BY <1>1, <1>3, <2>3 DEF IInv, AskedFor
  <2>7. AnnouncedIsAnswered'
    <3>1. \A g \in granted' : answer[g.event] = Wire[g.decision]
      BY <1>8, <2>1 DEF IInv, AnnouncedIsAnswered
    <3>2. ASSUME NEW l \in Listeners, NEW j \in Approvals, shown'[l][j] \in Decisions
          PROVE  \E f \in Events : request[f] = j /\ answer[f] = Wire[shown'[l][j]]
      <4>1. CASE l \in listeners /\ j = k
        BY <1>2, <2>1, <2>2, <4>1
      <4>2. CASE ~(l \in listeners /\ j = k)
        BY <2>2, <3>2, <4>2 DEF IInv, AnnouncedIsAnswered
      <4>3. QED
        BY <4>1, <4>2
    <3>3. QED
      BY <1>1, <3>1, <3>2 DEF AnnouncedIsAnswered
  <2>8. PendingIsDecidable'
    BY <1>1, <1>2, <2>2, <2>3, DecisionValues DEF IInv, TypeOK, PendingIsDecidable
  <2>9. QED
    BY <1>5, <1>6, <2>5, <2>6, <2>7, <2>8 DEF IInv
<1>9. QED
  BY <1>7, <1>8 DEF Decided

-----------------------------------------------------------------------------
(* The text of a turn                                                      *)

\* What arrives of a message is kept as far as there is room.
LEMMA SayIInv ==
  ASSUME IInv, NEW t \in Turns, NEW i \in Items, Say(t, i)
  PROVE  IInv'
<1>1. PICK text \in {"partial", "full"} :
        /\ said' = [said EXCEPT ![t][i] = text]
        /\ assistantText' = IF Room(t, i) THEN [assistantText EXCEPT ![t][i] = text]
                                          ELSE assistantText
  BY Zenon DEF Say
<1>2. /\ ~disposed /\ output[t] = None
      /\ UNCHANGED <<approvals, listeners, disposed, call, request, answer, shown, granted,
                     output, late>>
  BY DEF Say
<1> DEFINE room == assistantText[t][i] # None \/ Cardinality(Kept(assistantText[t])) < MaxItems
<1>3. Room(t, i) <=> room
  BY DEF Room, Kept
<1>4. said[t] \in Texts /\ assistantText[t] \in Texts /\ room \in BOOLEAN
  BY DEF IInv, TypeOK
<1> DEFINE said2 == [said[t] EXCEPT ![i] = text]
           text2 == IF room THEN [assistantText[t] EXCEPT ![i] = text] ELSE assistantText[t]
<1>5. Keeps(said2, text2)
  <2>1. Keeps(said[t], assistantText[t])
    BY <1>2 DEF IInv, TextIsKept
  <2>2. QED
    BY <1>4, <2>1, KeepsMore DEF Kept
<1>6. said2 \in Texts /\ text2 \in Texts
  BY <1>4 DEF Texts
<1>7. /\ said'[t] = said2
      /\ \A u \in Turns \ {t} : said'[u] = said[u]
      /\ said' \in [Turns -> Texts]
  BY <1>1, <1>6 DEF IInv, TypeOK
<1>8. /\ assistantText'[t] = text2
      /\ \A u \in Turns \ {t} : assistantText'[u] = assistantText[u]
      /\ assistantText' \in [Turns -> Texts]
  <2>1. CASE room
    BY <1>1, <1>3, <1>6, <2>1 DEF IInv, TypeOK
  <2>2. CASE ~room
    BY <1>1, <1>3, <2>2 DEF IInv, TypeOK
  <2>3. QED
    BY <2>1, <2>2
<1> HIDE DEF room, said2, text2
<1>9. TypeOK'
  BY <1>2, <1>7, <1>8 DEF IInv, TypeOK
<1>10. TextIsKept'
  BY <1>2, <1>5, <1>7, <1>8 DEF IInv, TextIsKept
<1>11. ListenersAreLate'
  BY <1>2 DEF IInv, ListenersAreLate
<1>12. QED
  BY <1>2, <1>9, <1>10, <1>11, ApprovalsFrame DEF ApprovalsUnchanged, IInv

\* A turn that completes carries what was kept of it.
LEMMA EndTurnIInv ==
  ASSUME IInv, NEW t \in Turns, EndTurn(t)
  PROVE  IInv'
<1>1. PICK failed \in BOOLEAN : output' = [output EXCEPT ![t] =
        [failed |-> failed, items |-> IF failed THEN Nothing ELSE assistantText[t]]]
  BY Zenon DEF EndTurn
<1>2. /\ ~disposed /\ output[t] = None
      /\ assistantText' = [assistantText EXCEPT ![t] = Nothing]
      /\ UNCHANGED <<approvals, listeners, disposed, call, request, answer, said, shown,
                     granted, late>>
  BY DEF EndTurn, broker
<1> DEFINE ended == [failed |-> failed, items |-> IF failed THEN Nothing ELSE assistantText[t]]
<1>3. /\ Nothing \in Texts /\ assistantText[t] \in Texts
      /\ Keeps(said[t], assistantText[t])
  BY <1>2 DEF Nothing, Texts, IInv, TypeOK, TextIsKept
<1>4. /\ ended \in Outputs /\ ended # None
      /\ ended.failed = failed
      /\ ~failed => ended.items = assistantText[t]
  BY <1>3 DEF Outputs, Texts
<1> HIDE DEF ended
<1>5. /\ output' \in [Turns -> Outputs \cup {None}]
      /\ output'[t] = ended
      /\ \A u \in Turns \ {t} : output'[u] = output[u]
  BY <1>1, <1>4 DEF IInv, TypeOK, ended
<1>6. /\ assistantText' \in [Turns -> Texts]
      /\ \A u \in Turns \ {t} : assistantText'[u] = assistantText[u]
  BY <1>2, <1>3 DEF IInv, TypeOK
<1>7. TypeOK'
  BY <1>2, <1>5, <1>6 DEF IInv, TypeOK
<1>8. TextIsKept'
  BY <1>2, <1>3, <1>4, <1>5, <1>6 DEF IInv, TextIsKept
<1>9. ListenersAreLate'
  BY <1>2 DEF IInv, ListenersAreLate
<1>10. QED
  BY <1>2, <1>7, <1>8, <1>9, ApprovalsFrame DEF ApprovalsUnchanged, IInv

-----------------------------------------------------------------------------
(* Subscriptions and retirement                                            *)

\* A new listener was told nothing yet, and one that subscribes after dispose() is
\* late.
LEMMA SubscribeIInv ==
  ASSUME IInv, NEW l \in Listeners, Subscribe(l)
  PROVE  IInv'
<1>1. /\ listeners' = listeners \cup {l}
      /\ shown' = [shown EXCEPT ![l] = [k \in Approvals |-> None]]
      /\ late' = IF disposed THEN late \cup {l} ELSE late
      /\ UNCHANGED <<approvals, assistantText, disposed, call, request, answer, said, granted,
                     output>>
  BY DEF Subscribe, broker
<1>2. /\ shown' \in [Listeners -> [Approvals -> {None, "required"} \cup Decisions]]
      /\ \A m \in Listeners, k \in Approvals :
           shown'[m][k] = IF m = l THEN None ELSE shown[m][k]
  BY <1>1 DEF IInv, TypeOK
<1>3. TypeOK' /\ ListenersAreLate'
  BY <1>1, <1>2 DEF IInv, TypeOK, ListenersAreLate
<1>4. AskedFor' /\ AcceptedIsAnswered' /\ TextIsKept'
  BY <1>1 DEF IInv, AskedFor, AcceptedIsAnswered, TextIsKept
<1>5. AnnouncedIsAnswered'
  BY <1>1, <1>2, DecisionValues DEF IInv, AnnouncedIsAnswered
<1>6. PendingIsDecidable'
  BY <1>1, <1>2 DEF IInv, TypeOK, PendingIsDecidable
<1>7. QED
  BY <1>3, <1>4, <1>5, <1>6 DEF IInv

\* Nobody listens any more when dispose() forgets what is pending.
LEMMA DisposeIInv ==
  ASSUME IInv, Dispose
  PROVE  IInv'
<1>1. /\ disposed' = TRUE /\ listeners' = {}
      /\ approvals' = [k \in Approvals |-> None]
      /\ assistantText' = [t \in Turns |-> Nothing]
      /\ UNCHANGED <<call, request, answer, said, shown, granted, output, late>>
  BY DEF Dispose, broker
<1>2. Nothing \in Texts
  BY DEF Nothing, Texts
<1>3. TypeOK'
  BY <1>1, <1>2 DEF IInv, TypeOK
<1>4. AskedFor' /\ AcceptedIsAnswered' /\ AnnouncedIsAnswered' /\ PendingIsDecidable'
        /\ ListenersAreLate' /\ TextIsKept'
  BY <1>1 DEF IInv, AskedFor, AcceptedIsAnswered, AnnouncedIsAnswered, PendingIsDecidable,
              ListenersAreLate, TextIsKept
<1>5. QED
  BY <1>3, <1>4 DEF IInv

\* The remaining steps take a listener away, set the signal, or stutter.
LEMMA QuietIInv ==
  ASSUME IInv, Abort \/ UNCHANGED vars \/ \E l \in Listeners : Unsubscribe(l)
  PROVE  IInv'
<1>1. /\ UNCHANGED <<approvals, assistantText, disposed, call, request, answer, said, shown,
                     granted, output, late>>
      /\ listeners' \in SUBSET listeners
  BY DEF Abort, vars, Unsubscribe, broker
<1>2. TypeOK'
  BY <1>1 DEF IInv, TypeOK
<1>3. AskedFor' /\ AcceptedIsAnswered' /\ AnnouncedIsAnswered' /\ PendingIsDecidable'
        /\ ListenersAreLate' /\ TextIsKept'
  BY <1>1 DEF IInv, AskedFor, AcceptedIsAnswered, AnnouncedIsAnswered, PendingIsDecidable,
              ListenersAreLate, TextIsKept
<1>4. QED
  BY <1>2, <1>3 DEF IInv

\* Every step of the projection keeps the invariant.
LEMMA NextIInv ==
  ASSUME IInv, [Next]_vars
  PROVE  IInv'
  BY AskIInv, WithdrawIInv, DecideIInv, RespondIInv, DecidedIInv, SayIInv, EndTurnIInv,
     SubscribeIInv, DisposeIInv, QuietIInv
  DEF Next

-----------------------------------------------------------------------------
(* What the runs check, for every instance                                 *)

\* The inductive invariant holds in every state the projection reaches.
THEOREM Inductive == Spec => []IInv
  BY InitIInv, NextIInv, PTL DEF Spec

\* The Host is told of one outcome per request, the one the broker acts on, whoever
\* decides at the same time.
THEOREM AnnouncementsAreTrue == Spec => []AnnouncedIsAnswered
<1>1. IInv => AnnouncedIsAnswered
  BY DEF IInv
<1>2. QED
  BY <1>1, Inductive, PTL

\* What a listener was told is required can be decided.
THEOREM RequiredCanBeDecided == Spec => []PendingIsDecidable
<1>1. IInv => PendingIsDecidable
  BY DEF IInv
<1>2. QED
  BY <1>1, Inductive, PTL

\* The output of a completed turn holds the whole of every message it kept, and it
\* kept as many as it may.
THEOREM OutputsAreComplete == Spec => []OutputIsComplete
<1>1. IInv => OutputIsComplete
  BY DEF IInv, TextIsKept, OutputIsComplete, Keeps, Kept
<1>2. QED
  BY <1>1, Inductive, PTL

\* A decision under way when the provider is retired tells none of its listeners.
THEOREM RetirementIsSilent == Spec => DisposedIsSilent
<1>1. ASSUME IInv, Next, disposed, NEW l \in Listeners \ late'
      PROVE  shown'[l] = shown[l]
  <2>1. ASSUME NEW d \in Deciders, Decided(d)
        PROVE  shown'[l] = shown[l]
    <3>1. l \notin listeners
      BY <1>1, <2>1 DEF Decided, IInv, ListenersAreLate
    <3>2. call[d].approval \in Approvals /\ call[d].decision \in Decisions
      BY <1>1, <2>1 DEF Decided, IInv, TypeOK, Calls
    <3>3. CASE Publish(call[d].approval, call[d].decision)
      BY <1>1, <3>1, <3>2, <3>3, Published DEF IInv, TypeOK
    <3>4. CASE UNCHANGED shown
      BY <3>4
    <3>5. QED
      BY <2>1, <3>3, <3>4 DEF Decided
  <2>2. ASSUME NEW m \in Listeners, Subscribe(m)
        PROVE  shown'[l] = shown[l]
    BY <1>1, <2>2 DEF Subscribe, IInv, TypeOK
  <2>3. ASSUME NEW d \in Deciders, Respond(d)
        PROVE  shown'[l] = shown[l]
    BY <2>3 DEF Respond
  <2>4. ASSUME NEW d \in Deciders, NEW k \in Approvals, NEW decision \in Decisions,
               Decide(d, k, decision)
        PROVE  shown'[l] = shown[l]
    BY <1>1, <2>4 DEF Decide
  <2>5. ASSUME NEW e \in Events, Withdraw(e)
        PROVE  shown'[l] = shown[l]
    BY <2>5 DEF Withdraw
  <2>6. ASSUME Dispose \/ Abort \/ \E m \in Listeners : Unsubscribe(m)
        PROVE  shown'[l] = shown[l]
    BY <2>6 DEF Dispose, Abort, Unsubscribe
  <2>7. QED
    BY <1>1, <2>1, <2>2, <2>3, <2>4, <2>5, <2>6 DEF Next, Ask, EndTurn, Say
<1>2. IInv /\ [Next]_vars =>
        [disposed => \A l \in Listeners \ late' : shown'[l] = shown[l]]_vars
  BY <1>1
<1>3. QED
  BY <1>2, Inductive, PTL DEF Spec, DisposedIsSilent
=============================================================================
