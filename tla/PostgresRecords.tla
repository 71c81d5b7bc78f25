---------------------------- MODULE PostgresRecords ----------------------------
(***************************************************************************)
(* The records and vectors of the Postgres tier                            *)
(* (backend/postgres/relational.rs, vector.rs) under calls on the pooled   *)
(* connections of one or more serving replicas.  PostgresBoot shows that a *)
(* serving replica has its tables, policies and triggers; here they are    *)
(* there.                                                                  *)
(*                                                                         *)
(* A call is one transaction: it sets the tenant, runs one statement and   *)
(* commits.  The tenant is a setting of the transaction (is_local), so a   *)
(* transaction that ended leaves its session without one.  The policies    *)
(* of the tables compare the tenant of a row with that setting; a          *)
(* superuser is not subject to them, and then only the WHERE clauses of    *)
(* the statements keep tenants apart.                                      *)
(*                                                                         *)
(* A record is its tenant, its id and its kind; an embedding is left out.  *)
(***************************************************************************)
CONSTANTS
    Sessions,       \* pooled connections, of one replica or of several
    Tenants,
    Ids,
    Minted,         \* the tenant for whose store an id was generated
    Nobody          \* no tenant, and no call

ASSUME MintedAssumption == Minted \in [Ids -> Tenants]

Kinds == {"memory", "audit_event"}

\* A read is any statement that returns rows: get, list and search.
Calls ==
    [op : {"put"}, tenant : Tenants, id : Ids, kind : Kinds]
        \cup [op : {"delete", "upsert", "unindex"}, tenant : Tenants, id : Ids]
        \cup [op : {"read"}, tenant : Tenants]

ASSUME NobodyAssumption == Nobody \notin Tenants /\ Nobody \notin Calls

VARIABLES
    superuser,      \* the role of the replicas bypasses the policies
    records,        \* rows of the table records: <<tenant, id, kind>>
    vectors,        \* rows of the table vectors: <<tenant, id>>
    ctx,            \* app.current_tenant_id of each session
    call            \* the call each session runs

recordVars == <<superuser, records, vectors, ctx, call>>

RecordsTypeOK ==
    /\ superuser \in BOOLEAN
    /\ records \subseteq Tenants \X Ids \X Kinds
    /\ vectors \subseteq Tenants \X Ids
    /\ ctx \in [Sessions -> Tenants \cup {Nobody}]
    /\ call \in [Sessions -> Calls \cup {Nobody}]

RecordsInit ==
    /\ superuser \in BOOLEAN
    /\ records = {} /\ vectors = {}
    /\ ctx = [s \in Sessions |-> Nobody]
    /\ call = [s \in Sessions |-> Nobody]

-----------------------------------------------------------------------------
\* The USING and WITH CHECK of both policies.
Sees(s, owner) == superuser \/ owner = ctx[s]

\* tenant_scoped_tx.  A caller may name any id it likes, as the tests of the
\* backend do; where no policy guards the rows, it writes only ids generated
\* for it, as the engine's verbs do.
Begin(s, c) ==
    /\ call[s] = Nobody
    /\ superuser /\ c.op = "put" => Minted[c.id] = c.tenant
    /\ ctx'  = [ctx EXCEPT ![s] = c.tenant]
    /\ call' = [call EXCEPT ![s] = c]
    /\ UNCHANGED <<superuser, records, vectors>>

\* A wrong form: the setting is the session's (is_local = false).
EndKeepsTenant(s) ==
    /\ call' = [call EXCEPT ![s] = Nobody]
    /\ UNCHANGED <<superuser, ctx>>

\* Commit or rollback: the tenant setting ends with the transaction.
End(s) ==
    /\ ctx'  = [ctx EXCEPT ![s] = Nobody]
    /\ call' = [call EXCEPT ![s] = Nobody]
    /\ UNCHANGED superuser

Running(s, op) == call[s] # Nobody /\ call[s].op = op

\* A wrong form: the row of whatever tenant has the id is taken over.
PutUnguarded(s) ==
    LET c   == call[s]
        old == {r \in records : r[2] = c.id}
    IN  /\ Running(s, "put")
        /\ \A r \in old : r[3] # "audit_event"
        /\ records' = (records \ old) \cup {<<c.tenant, c.id, c.kind>>}
        /\ End(s)
        /\ UNCHANGED vectors

\* INSERT ... ON CONFLICT (id) DO UPDATE: the row in the way must pass the
\* policy, and the trigger refuses to update an audit event.
Put(s) ==
    LET c   == call[s]
        old == {r \in records : r[2] = c.id}
    IN  /\ Running(s, "put")
        /\ Sees(s, c.tenant)
        /\ \A r \in old : Sees(s, r[1]) /\ r[3] # "audit_event"
        /\ records' = (records \ old) \cup {<<c.tenant, c.id, c.kind>>}
        /\ End(s)
        /\ UNCHANGED vectors

\* The rows a get or a delete finds.
Matching(s) ==
    {r \in records : r[2] = call[s].id /\ r[1] = call[s].tenant /\ Sees(s, r[1])}

Read(s) ==
    /\ Running(s, "read")
    /\ End(s)
    /\ UNCHANGED <<records, vectors>>

\* A wrong form: the trigger fires on UPDATE only.
DeleteUntriggered(s) ==
    /\ Running(s, "delete")
    /\ records' = records \ Matching(s)
    /\ End(s)
    /\ UNCHANGED vectors

\* The trigger refuses to delete an audit event.
Delete(s) ==
    /\ Running(s, "delete")
    /\ \A r \in Matching(s) : r[3] # "audit_event"
    /\ records' = records \ Matching(s)
    /\ End(s)
    /\ UNCHANGED vectors

\* The calls of the vector backend; its key is the tenant and the id.
Upsert(s) ==
    /\ Running(s, "upsert")
    /\ Sees(s, call[s].tenant)
    /\ vectors' = vectors \cup {<<call[s].tenant, call[s].id>>}
    /\ End(s)
    /\ UNCHANGED records

Unindex(s) ==
    /\ Running(s, "unindex")
    /\ vectors' = {v \in vectors : ~(v = <<call[s].tenant, call[s].id>> /\ Sees(s, v[1]))}
    /\ End(s)
    /\ UNCHANGED records

\* The statement is refused or fails, or the future is dropped: what it did is
\* rolled back before the connection is used again.
Rollback(s) ==
    /\ call[s] # Nobody
    /\ End(s)
    /\ UNCHANGED <<records, vectors>>

RecordsNext ==
    \E s \in Sessions :
        \/ \E c \in Calls : Begin(s, c)
        \/ Put(s) \/ Read(s) \/ Delete(s)
        \/ Upsert(s) \/ Unindex(s)
        \/ Rollback(s)

RecordsSpec == RecordsInit /\ [][RecordsNext]_recordVars

-----------------------------------------------------------------------------
(* Properties *)

\* "Postgres itself enforces tenant isolation even if a query below ever forgot
\* its own WHERE": on a session that calls of any tenants used before, committed,
\* failed or dropped, the policies show a call its tenant's rows, no fewer and no
\* others, and between calls they show nothing ("fail-closed").
PolicyIsExact ==
    ~superuser => \A s \in Sessions :
        \A r \in records \cup vectors :
            Sees(s, r[1]) <=> call[s] # Nobody /\ r[1] = call[s].tenant

\* A session between two calls has no tenant ("fail-closed"), and in a call it
\* has the caller's; and one id has one row.
ContextInv ==
    /\ \A s \in Sessions :
          ctx[s] = IF call[s] = Nobody THEN Nobody ELSE call[s].tenant
    /\ \A r, w \in records : r[2] = w[2] => r = w
    /\ superuser => \A r \in records : Minted[r[2]] = r[1]
    /\ superuser => \A s \in Sessions :
          Running(s, "put") => Minted[call[s].id] = call[s].tenant

\* The records implement TenantStore: a tenant's call changes no other tenant's
\* records, and what is an audit event stays one.
Store == INSTANCE TenantStore WITH
    owned  <- {<<r[1], r[2]>> : r \in records},
    sealed <- {<<r[1], r[2]>> : r \in {w \in records : w[3] = "audit_event"}}

StoreSpec == Store!Spec
=============================================================================
