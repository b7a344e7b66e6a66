------------------------------ MODULE Registry ------------------------------
(***************************************************************************)
(* What the peer registry promises (spec.md section 4.3): a table of peer  *)
(* records and a session index over it, changed only by atomic            *)
(* serialized operations.                                                  *)
(*                                                                         *)
(*   register(id, s, handle): a record already held under id leaves its    *)
(*     session first; the new record is fresh and joins session s.         *)
(*   remove(id): the record leaves the table and its session; a session    *)
(*     left empty disappears from the index.                               *)
(*   touch_heartbeat(id): the record becomes fresh.                        *)
(* Time passing makes a record stale.                                      *)
(*                                                                         *)
(* The index is the set-valued view session -> ids that lookups read       *)
(* (sessions.get(s, set())); an empty set and a missing key read alike.    *)
(***************************************************************************)
EXTENDS Functions, TLC

CONSTANTS Ids, Sessions, Handles

VARIABLES table, index

Record == [session : Sessions, conn : Handles, stale : BOOLEAN]

\* The index with id taken out of every session, empty sessions dropped.
Leave(ix, id) ==
    [s \in {t \in DOMAIN ix : ix[t] \ {id} # {}} |-> ix[s] \ {id}]

\* The index with id added to session s.
Join(ix, s, id) ==
    (s :> ((IF s \in DOMAIN ix THEN ix[s] ELSE {}) \cup {id})) @@ ix

Init == table = <<>> /\ index = <<>>

Register(id, s, h) ==
    /\ table' = (id :> [session |-> s, conn |-> h, stale |-> FALSE]) @@ table
    /\ index' = Join(Leave(index, id), s, id)

Remove(id) ==
    /\ id \in DOMAIN table
    /\ table' = Restrict(table, DOMAIN table \ {id})
    /\ index' = Leave(index, id)

Touch(id) ==
    /\ id \in DOMAIN table
    /\ table' = [table EXCEPT ![id].stale = FALSE]
    /\ UNCHANGED index

Expire(id) ==
    /\ id \in DOMAIN table
    /\ table' = [table EXCEPT ![id].stale = TRUE]
    /\ UNCHANGED index

Next ==
    \E id \in Ids :
        \/ \E s \in Sessions, h \in Handles : Register(id, s, h)
        \/ Remove(id)
        \/ Touch(id)
        \/ Expire(id)

Spec == Init /\ [][Next]_<<table, index>>
=============================================================================
