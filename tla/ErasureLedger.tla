--------------------------- MODULE ErasureLedger ---------------------------
(***************************************************************************)
(* What z3rno promises about erasure: `forget` returns a proof of erasure, *)
(* and a forgotten memory never comes back.  This is the abstract          *)
(* specification the concurrent engine (MemoryEngine) is shown to          *)
(* implement; it has one atomic step where the engine has a dozen.         *)
(***************************************************************************)
CONSTANT Owned      \* memories, each with its tenant

VARIABLES
    live,           \* memories that are stored
    erased,         \* memories that were stored and are gone
    certs,          \* certificates on record: <<memory, number>>
    told            \* certificates some caller was handed

ledgerVars == <<live, erased, certs, told>>

Init == live = {} /\ erased = {} /\ certs = {} /\ told = {}

Remember(i) ==
    /\ i \notin live \cup erased
    /\ live' = live \cup {i}
    /\ UNCHANGED <<erased, certs, told>>

Erase(i) ==
    /\ i \in live
    /\ live' = live \ {i}
    /\ erased' = erased \cup {i}
    /\ UNCHANGED <<certs, told>>

\* A memory gets one certificate, with a number no other certificate has.
\* The answer to the caller that erased the memory may be lost.
Certify(i) ==
    /\ i \in erased
    /\ \A cert \in certs : cert[1] # i
    /\ \E new \in certs' :
          /\ new[1] = i
          /\ \A cert \in certs : cert[2] # new[2]
          /\ certs' = certs \cup {new}
          /\ told' \in {told, told \cup {new}}
    /\ UNCHANGED <<live, erased>>

Next == \E i \in Owned : Remember(i) \/ Erase(i) \/ Certify(i)

Spec == Init /\ [][Next]_ledgerVars
=============================================================================
