---------------------------- MODULE MC_RTTYServer ----------------------------
(***************************************************************************)
(* RTTYServer for TLC: one session id, two devices, and one or two        *)
(* clients.  Devices and clients are model values and interchangeable, so *)
(* the permutations of each set are a sound symmetry.                     *)
(***************************************************************************)
EXTENDS RTTYServer, TLC

CONSTANTS i1, d1, d2, c1, c2

MCIds == {i1}
MCDevices == {d1, d2}
MCClients == {c1, c2}

\* One client: the safety run, where the device side races for the join.
MCOneClient == {c1}

Symm == Permutations(MCDevices) \cup Permutations(MCClients)
=============================================================================
