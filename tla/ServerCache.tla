------------------------------ MODULE ServerCache ------------------------------
(***************************************************************************)
(* The two cache backends of the server (cache/sqlite.rs and               *)
(* cache/redis_backend.rs) behind their common interface: sessions, keys   *)
(* and budgets are its entries.                                            *)
(*                                                                         *)
(* SQLite counts whole seconds of the wall clock, rounds a ttl down and    *)
(* evicts an expired row when it is read; the eviction may fail, and then  *)
(* only the comparison hides the row.  A failed read is taken for an       *)
(* absent entry.  Redis expires by itself (external), rounds a ttl down to *)
(* no less than a second, and reports every error.  The clock may be set   *)
(* back.  Time is in half seconds.                                         *)
(***************************************************************************)
EXTENDS Integers

CONSTANTS
    Keys, Values,
    Ttls,           \* half seconds
    NoTtl, Absent, Failed,
    MaxClock        \* bound of the clock

ASSUME TtlsAssumption == Ttls \subseteq Nat /\ NoTtl \notin Int
ASSUME MaxClockAssumption == MaxClock \in Nat

VARIABLES
    kind,           \* the backend configured
    clock,
    up,             \* the backend can be read and written
    table,          \* [val, expires_at, due], or Absent
    answer          \* what the last get answered

cacheVars == <<kind, clock, up, table, answer>>

Row == [val : Values, expires_at : Int \cup {NoTtl}, due : Int \cup {NoTtl}]

ASSUME AbsentAssumption ==
    /\ {Absent, Failed} \cap Values = {}
    /\ Absent \notin Row /\ Absent \notin [val : Values, due : Int \cup {NoTtl}]

CacheTypeOK ==
    /\ kind \in {"sqlite", "redis"}
    /\ clock \in 0 .. MaxClock
    /\ up \in BOOLEAN
    /\ table \in [Keys -> Row \cup {Absent}]
    /\ answer \in Values \cup {Absent, Failed}

CacheInit ==
    /\ kind \in {"sqlite", "redis"}
    /\ clock = 0
    /\ up = TRUE
    /\ table = [k \in Keys |-> Absent]
    /\ answer = Absent

-----------------------------------------------------------------------------
Longest(t, u) == IF t < u THEN u ELSE t

WholeSeconds(t) == 2 * (t \div 2)

\* The backend's own clock: now_secs, or the clock of Redis.
Now == IF kind = "sqlite" THEN WholeSeconds(clock) ELSE clock

Kept(ttl) ==
    IF kind = "sqlite" THEN WholeSeconds(ttl) ELSE Longest(WholeSeconds(ttl), 2)

\* due is history: when the caller may expect the entry to be gone.
NewRow(v, ttl) ==
    IF ttl = NoTtl THEN [val |-> v, expires_at |-> NoTtl, due |-> NoTtl]
    ELSE [val |-> v, expires_at |-> Now + Kept(ttl), due |-> clock + Longest(ttl, 2)]

\* A wrong form: an entry is served in the second in which it expires.
ExpiredLate(k) == table[k].expires_at # NoTtl /\ table[k].expires_at < Now

Expired(k) == table[k].expires_at # NoTtl /\ table[k].expires_at <= Now

Drop(k) == table' = [table EXCEPT ![k] = Absent]

-----------------------------------------------------------------------------
CacheGet(k) ==
    /\ up
    /\ IF table[k] # Absent /\ ~Expired(k)
       THEN answer' = table[k].val /\ UNCHANGED table
       ELSE answer' = Absent /\ (Drop(k) \/ UNCHANGED table)
    /\ UNCHANGED <<kind, clock, up>>

\* The .ok() of the SQLite read; Redis passes its error on.
CacheGetFails(k) ==
    /\ ~up
    /\ answer' = IF kind = "sqlite" THEN Absent ELSE Failed
    /\ UNCHANGED <<kind, clock, up, table>>

\* A command to Redis whose reply is lost may have been carried out.
Executes == up \/ kind = "redis"

CacheSet(k, v, ttl) ==
    /\ Executes
    /\ table' = [table EXCEPT ![k] = NewRow(v, ttl)]
    /\ UNCHANGED <<kind, clock, up, answer>>

CacheDelete(k) ==
    /\ Executes
    /\ Drop(k)
    /\ UNCHANGED <<kind, clock, up, answer>>

\* Redis removes what has expired (external).
RedisExpires(k) ==
    /\ kind = "redis"
    /\ table[k] # Absent /\ Expired(k)
    /\ Drop(k)
    /\ UNCHANGED <<kind, clock, up, answer>>

\* Time passes, or the clock is set back; the backend fails and recovers.
ClockMoves ==
    /\ clock' \in {t \in 0 .. MaxClock : t <= clock + 1} \ {clock}
    /\ UNCHANGED <<kind, up, table, answer>>

CacheOutage ==
    /\ up' = ~up
    /\ UNCHANGED <<kind, clock, table, answer>>

CacheNext ==
    \/ \E k \in Keys :
          \/ CacheGet(k) \/ CacheGetFails(k) \/ CacheDelete(k) \/ RedisExpires(k)
          \/ \E v \in Values, ttl \in Ttls \cup {NoTtl} : CacheSet(k, v, ttl)
    \/ ClockMoves \/ CacheOutage

CacheSpec == CacheInit /\ [][CacheNext]_cacheVars

-----------------------------------------------------------------------------
(* Properties *)

\* Both backends implement the promise of the interface ("never return stale
\* data"): nothing is answered after its time, nothing goes much before it, and
\* nothing without a ttl goes at all, whatever the clock does.
Promise == INSTANCE TtlMap WITH
    entries <- [k \in Keys |-> IF table[k] = Absent THEN Absent
                               ELSE [val |-> table[k].val, due |-> table[k].due]]

PromiseSpec == Promise!Spec
=============================================================================
