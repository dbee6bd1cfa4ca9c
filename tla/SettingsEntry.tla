---------------------------- MODULE SettingsEntry ---------------------------
(***************************************************************************)
(* The settings entry of the plugin (index.ts, the effect of apply()): it  *)
(* stands in the Host's list of model providers while the gateway's own    *)
(* provider is not listed.  The Host tells its listeners of a change while *)
(* it makes it, so that inserting or removing the entry calls back the     *)
(* function that is doing it.  One action is the code up to the next call  *)
(* of the Host that emits; JavaScript's stack is kept by Quiet.            *)
(*                                                                         *)
(* The plugin may be restarted: each run of the effect has its own entry,  *)
(* and its first refresh of the list may settle after its clean-up.        *)
(***************************************************************************)
EXTENDS Naturals

CONSTANT Effects     \* the runs of the effect, each once

VARIABLES
  available,     \* Host: the provider cli-proxy-api is listed
  shown,         \* Host: how many settings entries of each run it shows
  telling,       \* Host: the runs whose syncSettingsEntry is still to be called
  phase,         \* of each run: "new", "live" (subscribed) or "over"
  settingsEntry, \* of each run: the variable is set
  syncing,       \* syncingSettingsEntry: "no", or the call of the Host it is in
  refreshing     \* the runs whose first refresh has not settled

entryVars == <<available, shown, telling, phase, settingsEntry, syncing, refreshing>>

EntryInit ==
  /\ available \in BOOLEAN
  /\ shown = [e \in Effects |-> 0]
  /\ telling = {}
  /\ phase = [e \in Effects |-> "new"]
  /\ settingsEntry = [e \in Effects |-> FALSE]
  /\ syncing = [e \in Effects |-> "no"]
  /\ refreshing = {}

Live == {e \in Effects : phase[e] = "live"}

Quiet == telling = {} /\ \A e \in Effects : syncing[e] = "no"

\* The effect runs: it subscribes, synchronises, and refreshes the list.
Start(e) ==
  /\ Quiet /\ Live = {} /\ phase[e] = "new"
  /\ phase' = [phase EXCEPT ![e] = "live"]
  /\ telling' = {e}
  /\ refreshing' = refreshing \cup {e}
  /\ UNCHANGED <<available, shown, settingsEntry, syncing>>

\* The provider comes or goes, and the Host tells its listeners.
ListChanges ==
  /\ Quiet
  /\ available' = ~available
  /\ telling' = Live
  /\ UNCHANGED <<shown, phase, settingsEntry, syncing, refreshing>>

\* The first refresh of e settles: fulfilled, it synchronises e, subscribed or not.
Refreshed(e) ==
  /\ Quiet /\ e \in refreshing
  /\ refreshing' = refreshing \ {e}
  /\ telling' \in {{}, {e}}
  /\ UNCHANGED <<available, shown, phase, settingsEntry, syncing>>

\* Mutant: a call from within is not turned away.
SyncUnguarded(e) ==
  /\ e \in telling
  /\ \/ available = settingsEntry[e]
        /\ shown' = [shown EXCEPT ![e] = IF available THEN 0 ELSE @ + 1]
        /\ syncing' = [syncing EXCEPT ![e] = IF available THEN "dispose" ELSE "insert"]
        /\ telling' = (telling \ {e}) \cup Live
     \/ available # settingsEntry[e]
        /\ telling' = telling \ {e}
        /\ UNCHANGED <<shown, syncing>>
  /\ UNCHANGED <<available, phase, settingsEntry, refreshing>>

\* syncSettingsEntry of e: a call from within is turned away; else an entry that has to go
\* or to come makes the Host tell the listeners again.
Sync(e) ==
  /\ e \in telling
  /\ \/ /\ syncing[e] = "no" /\ available = settingsEntry[e]
        /\ shown' = [shown EXCEPT ![e] = IF available THEN 0 ELSE @ + 1]
        /\ syncing' = [syncing EXCEPT ![e] = IF available THEN "dispose" ELSE "insert"]
        /\ telling' = (telling \ {e}) \cup Live
     \/ /\ syncing[e] # "no" \/ available # settingsEntry[e]
        /\ telling' = telling \ {e}
        /\ UNCHANGED <<shown, syncing>>
  /\ UNCHANGED <<available, phase, settingsEntry, refreshing>>

\* The Host's insert or dispose returns.
Synced(e) ==
  /\ telling = {} /\ syncing[e] # "no"
  /\ settingsEntry' = [settingsEntry EXCEPT ![e] = syncing[e] = "insert"]
  /\ syncing' = [syncing EXCEPT ![e] = "no"]
  /\ UNCHANGED <<available, shown, telling, phase, refreshing>>

\* The clean-up removes the entry and leaves its variable set.
CleanUp(e) ==
  /\ Quiet /\ phase[e] = "live"
  /\ phase' = [phase EXCEPT ![e] = "over"]
  /\ shown' = [shown EXCEPT ![e] = IF settingsEntry[e] THEN 0 ELSE @]
  /\ UNCHANGED <<available, telling, settingsEntry, syncing, refreshing>>

EntryNext ==
  \/ \E e \in Effects : Start(e) \/ Refreshed(e) \/ Sync(e) \/ Synced(e) \/ CleanUp(e)
  \/ ListChanges

EntrySpec == EntryInit /\ [][EntryNext]_entryVars

-----------------------------------------------------------------------------
(* Properties                                                              *)

\* However a change of the list meets the changes it leads to, a run shows one entry at
\* most, and once the Host is done telling, a live run shows one exactly while the provider
\* is not listed.
EntryStandsIn ==
  \A e \in Effects :
    /\ shown[e] <= 1
    /\ Quiet /\ e \in Live => shown[e] = IF available THEN 0 ELSE 1
=============================================================================
