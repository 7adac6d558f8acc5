------------------------------ MODULE Broadcast ------------------------------
(***************************************************************************)
(* What the assistant promises as a relay of frames.  A frame is offered   *)
(* to the members one at a time, and to no other; only one that listens    *)
(* can take it, and the upload is answered when every member that listened *)
(* at its beginning and has not left has been offered the frame, with true *)
(* if nobody refused it.  A member that does not listen yet may be passed  *)
(* over, or asked to no effect, and the answer may be true all the same.   *)
(* A member that leaves in its own turn releases the relay from its        *)
(* promise for that frame.  A relay that fails forgets members and frame;  *)
(* what it had sent may still arrive, in order.  Module Relay implements   *)
(* it.                                                                     *)
(***************************************************************************)
EXTENDS Naturals

CONSTANTS Apps, None

VARIABLES
    members,   \* those that are offered frames
    listeners, \* those that can take one, members or not
    number,    \* of the last frame
    phase,     \* of its upload: "idle", "asked", "relaying"
    answer,    \* to the last upload
    turn,      \* the member the frame is offered to, or None
    due,       \* members that are still to be asked
    whole,     \* nobody has refused the frame
    loose,     \* the relay has lost its place
    shown      \* the last frame a member took

relayVars == <<phase, turn, due, whole, loose>>
vars      == <<members, listeners, number, relayVars, answer, shown>>

Init ==
    /\ members = {} /\ listeners = {} /\ number = 0 /\ phase = "idle" /\ answer = "none"
    /\ turn = None /\ due = {} /\ whole = TRUE /\ loose = FALSE
    /\ shown = [a \in Apps |-> 0]

Join(a) ==
    /\ members' = members \cup {a}
    /\ UNCHANGED <<listeners, number, relayVars, answer, shown>>

\* Whether a member listens is its own affair.
Listen(a) ==
    /\ listeners' = listeners \cup {a}
    /\ UNCHANGED <<members, number, relayVars, answer, shown>>

Deafen(a) ==
    /\ listeners' = listeners \ {a}
    /\ UNCHANGED <<members, number, relayVars, answer, shown>>

Leave(a) ==
    /\ members' = members \ {a}
    /\ loose' = (loose \/ turn = a)
    /\ due' = IF loose' THEN {} ELSE due \ {a}
    /\ UNCHANGED <<listeners, number, phase, turn, whole, answer, shown>>

\* The frame reaches the relay, or cannot be sent.
Upload ==
    /\ phase = "idle"
    /\ number' = number + 1
    /\ \/ phase' = "asked" /\ answer' = "none"
       \/ phase' = "idle" /\ answer' = "false"
    /\ UNCHANGED <<members, listeners, turn, due, whole, loose, shown>>

Begin ==
    /\ phase = "asked" /\ phase' = "relaying"
    /\ due' = members \cap listeners
    /\ turn' \in members \cup {None}
    /\ UNCHANGED <<members, listeners, number, whole, loose, answer, shown>>

Take(a) ==
    /\ turn = a /\ a \in members \cap listeners
    /\ shown' = [shown EXCEPT ![a] = number]
    /\ due' = due \ {a}
    /\ UNCHANGED <<members, listeners, number, phase, turn, whole, loose, answer>>

\* The member has no use for the frame or is gone.
Refuse ==
    /\ turn # None
    /\ whole' = FALSE
    /\ due' = due \ {turn}
    /\ UNCHANGED <<members, listeners, number, phase, turn, loose, answer, shown>>

Proceed ==
    /\ turn \notin due \cup {None}
    /\ turn' \in members \cup {None}
    /\ UNCHANGED <<members, listeners, number, phase, due, whole, loose, answer, shown>>

Answer ==
    /\ phase = "relaying" /\ turn = None /\ due = {}
    /\ answer' = IF whole THEN "true" ELSE "false"
    /\ phase' = "idle" /\ whole' = TRUE /\ loose' = FALSE
    /\ UNCHANGED <<members, listeners, number, turn, due, shown>>

Fail ==
    /\ members' = {} /\ due' = {} /\ turn' = None
    /\ answer' = IF phase = "idle" THEN answer ELSE "false"
    /\ phase' = "idle" /\ whole' = TRUE /\ loose' = FALSE
    /\ UNCHANGED <<listeners, number, shown>>

\* A frame from before a failure.
Late(a) ==
    /\ a \in listeners \ members
    /\ \E n \in shown[a] .. number : shown' = [shown EXCEPT ![a] = n]
    /\ UNCHANGED <<members, listeners, number, relayVars, answer>>

Next ==
    \/ \E a \in Apps : Join(a) \/ Leave(a) \/ Listen(a) \/ Deafen(a) \/ Take(a) \/ Late(a)
    \/ Upload \/ Begin \/ Refuse \/ Proceed \/ Answer \/ Fail

Spec == Init /\ [][Next]_vars
=============================================================================
