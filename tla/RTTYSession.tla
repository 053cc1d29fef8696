----------------------------- MODULE RTTYSession -----------------------------
(***************************************************************************)
(* What the session table promises for each session id, as the endpoint    *)
(* state machine of the remote-terminal tunnel states it: an id is created *)
(* once, waits for its device and client, joins at most once, and the      *)
(* login handshake is sent exactly at the join; a session may be reaped    *)
(* while waiting or joined, and a reaped id never comes back.              *)
(* RTTYServer implements this specification (RTTYServer!SessionSpec).      *)
(***************************************************************************)
EXTENDS Naturals

CONSTANT Ids

VARIABLES
    session,     \* id -> "free", "waiting", "joined" or "reaped"
    handshakes   \* id -> login handshakes sent for the live session

vars == <<session, handshakes>>

Phases == {"free", "waiting", "joined", "reaped"}

Init ==
    /\ session = [i \in Ids |-> "free"]
    /\ handshakes = [i \in Ids |-> 0]

\* A client asks for a session id: the endpoint is created, no side attached.
Create(i) ==
    /\ session[i] = "free"
    /\ session' = [session EXCEPT ![i] = "waiting"]
    /\ UNCHANGED handshakes

\* The side that attaches second joins the session and the login handshake
\* is sent.
Join(i) ==
    /\ session[i] = "waiting"
    /\ session' = [session EXCEPT ![i] = "joined"]
    /\ handshakes' = [handshakes EXCEPT ![i] = 1]

\* The reaper removes a set of stale sessions at once; their records go.
Reap(S) ==
    /\ S # {}
    /\ \A i \in S : session[i] \in {"waiting", "joined"}
    /\ session' = [i \in Ids |-> IF i \in S THEN "reaped" ELSE session[i]]
    /\ handshakes' = [i \in Ids |-> IF i \in S THEN 0 ELSE handshakes[i]]

Next ==
    \/ \E i \in Ids : Create(i) \/ Join(i)
    \/ \E S \in SUBSET Ids : Reap(S)

Spec == Init /\ [][Next]_vars
=============================================================================
