-------------------------------- MODULE TtlMap --------------------------------
(***************************************************************************)
(* What CacheBackend (cache/mod.rs) promises, whichever backend is         *)
(* configured: a value is answered until its time is up and never after,   *)
(* and one without a ttl until it is deleted.  Time is in half seconds.    *)
(*                                                                         *)
(* The promise is rounded as both backends round it: a ttl counts whole    *)
(* seconds, so an entry may go up to two seconds early, and a ttl below    *)
(* one second may be served for one.                                       *)
(***************************************************************************)
EXTENDS Integers

CONSTANTS Keys, Values, Ttls,
          NoTtl,        \* no expiry
          Absent,       \* Ok(None)
          Failed        \* an error

VARIABLES
    clock,      \* the wall clock
    up,         \* the backend can be read and written
    entries,    \* [val, due], or Absent
    answer      \* what the last get answered

Init ==
    /\ clock \in Int /\ up = TRUE
    /\ entries = [k \in Keys |-> Absent]
    /\ answer = Absent

Longer(t, u) == IF t < u THEN u ELSE t

Entry(v, ttl) ==
    [val |-> v, due |-> IF ttl = NoTtl THEN NoTtl ELSE clock + Longer(ttl, 2)]

MayBeThere(k) ==
    entries[k] # Absent /\ (entries[k].due = NoTtl \/ clock < entries[k].due)

MayBeGone(k) ==
    entries[k] # Absent => entries[k].due # NoTtl /\ entries[k].due < clock + 4

Without(k) == [entries EXCEPT ![k] = Absent]

Get(k) ==
    /\ UNCHANGED <<clock, up>>
    /\ \/ MayBeThere(k) /\ answer' = entries[k].val /\ UNCHANGED entries
       \/ MayBeGone(k) /\ answer' = Absent /\ entries' \in {entries, Without(k)}
       \/ ~up /\ answer' \in {Absent, Failed} /\ UNCHANGED entries

Set(k, v, ttl) ==
    /\ entries' = [entries EXCEPT ![k] = Entry(v, ttl)]
    /\ UNCHANGED <<clock, up, answer>>

Delete(k) == entries' = Without(k) /\ UNCHANGED <<clock, up, answer>>

Environment == UNCHANGED <<entries, answer>>

Next ==
    \/ Environment
    \/ \E k \in Keys :
          \/ Get(k) \/ Delete(k)
          \/ \E v \in Values, ttl \in Ttls \cup {NoTtl} : Set(k, v, ttl)

Spec == Init /\ [][Next]_<<clock, up, entries, answer>>
=============================================================================
