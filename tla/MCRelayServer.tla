--------------------------- MODULE MCRelayServer ---------------------------
(***************************************************************************)
(* Model-checking instance of RelayServer: constants are model values      *)
(* fixed in the .cfg files; connections, peer ids and session codes are    *)
(* interchangeable, so safety runs may use their symmetry.                 *)
(***************************************************************************)
EXTENDS RelayServer

\* Connections, peer ids and session codes only ever compare for equality.
Symmetry == Permutations(Conns) \cup Permutations(Ids) \cup Permutations(Sessions)

\* The state without `sent`, the frames of the last step: no guard reads it,
\* and the action properties read only sent', so states that differ in it
\* alone have the same successors and the same verdicts.
SafetyView == <<pc, handlerId, pending, peers, sessions, jpc, jstale>>

=============================================================================
