---------------------------- MODULE PropertyMap ----------------------------
(***************************************************************************)
(* What the properties of an object of the plugin promise to those who     *)
(* read them: a map from selectors to values.  The plugin puts values, the *)
(* camera application writes them where it may, and a read returns the     *)
(* value that was put or written last.                                     *)
(***************************************************************************)
CONSTANTS
    Keys,       \* the selectors
    Locked,     \* those only the plugin changes
    Absent,     \* in place of the value of a selector that was never put
    Values

VARIABLES
    store,      \* the value of each selector
    reply       \* of the last call: <<>>, <<"accepted">> or <<"read", k, v>>

mapVars == <<store, reply>>

MapInit == store = [k \in Keys |-> Absent] /\ reply = <<>>

Put(k) ==
    /\ \E v \in Values : store' = [store EXCEPT ![k] = v]
    /\ UNCHANGED reply

Write(k) ==
    /\ store[k] # Absent /\ k \notin Locked
    /\ \E v \in Values : store' = [store EXCEPT ![k] = v]
    /\ reply' = <<"accepted">>

\* a write that is accepted and dropped
Ignore(k) == store[k] # Absent /\ k \notin Locked /\ reply' = <<"accepted">> /\ UNCHANGED store

Read(k) == store[k] # Absent /\ reply' = <<"read", k, store[k]>> /\ UNCHANGED store

\* a call that fails, or returns something else than the value
Other == reply' = <<>> /\ UNCHANGED store

MapNext == Other \/ \E k \in Keys : Put(k) \/ Write(k) \/ Ignore(k) \/ Read(k)

MapSpec == MapInit /\ [][MapNext]_mapVars
=============================================================================
