------------------------------ MODULE TenantStore ------------------------------
(***************************************************************************)
(* What the Postgres tier promises of its records, without sessions,       *)
(* policies or triggers: an entry belongs to one tenant for good, a step   *)
(* of one tenant touches nothing of another, and a sealed entry (an audit  *)
(* event) stays.                                                           *)
(***************************************************************************)
CONSTANTS Tenants, Ids

VARIABLES
    owned,      \* the entries: <<tenant, id>>
    sealed      \* the entries that are audit events

Init == owned = {} /\ sealed = {}

\* An id another tenant uses is refused.
Put(t, i) ==
    /\ \A u \in Tenants \ {t} : <<u, i>> \notin owned
    /\ <<t, i>> \notin sealed
    /\ owned' = owned \cup {<<t, i>>}
    /\ sealed' \in {sealed, sealed \cup {<<t, i>>}}

Erase(t, i) ==
    /\ <<t, i>> \notin sealed
    /\ owned' = owned \ {<<t, i>>}
    /\ UNCHANGED sealed

Next == \E t \in Tenants, i \in Ids : Put(t, i) \/ Erase(t, i)

Spec == Init /\ [][Next]_<<owned, sealed>>
=============================================================================
