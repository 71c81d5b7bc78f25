------------------------------ MODULE ServerHealth ------------------------------
(***************************************************************************)
(* /v1/health and /v1/health/detailed (server/src/routes/health.rs): two   *)
(* checks, each a task of its own, and one answer when both are done,      *)
(* while the components they look at come and go.                          *)
(*                                                                         *)
(* A check gives up after HEALTH_CHECK_TIMEOUT, but only where it waits    *)
(* for the network: over SQLite the call blocks its thread, the timer is   *)
(* not polled, and the probe hangs as long as the file does.               *)
(***************************************************************************)
CONSTANTS Probes            \* health requests in progress

Components == {"engine", "cache"}
Conditions == {"answers", "fails", "hangs", "panics"}
Gifts      == {"answer", "miss", "nothing"}

VARIABLES
    remote,         \* the components reached over the network
    condition,
    probing,        \* the requests in progress
    status,         \* what the checks of a request found, "unknown" before
    seen            \* history: what the components gave during the request

healthVars == <<remote, condition, probing, status, seen>>

Statuses == {"healthy", "unhealthy"}

HealthTypeOK ==
    /\ remote \subseteq Components
    /\ condition \in [Components -> Conditions]
    /\ probing \subseteq Probes
    /\ status \in [Probes -> [Components -> Statuses \cup {"unknown"}]]
    /\ seen \in [Probes -> [Components -> SUBSET Gifts]]

HealthInit ==
    /\ remote \in SUBSET Components
    /\ condition = [c \in Components |-> "answers"]
    /\ probing = {}
    /\ status = [p \in Probes |-> [c \in Components |-> "unknown"]]
    /\ seen = [p \in Probes |-> [c \in Components |-> {}]]

-----------------------------------------------------------------------------
(* The checks *)

\* A read of the SQLite cache has no error to report: .ok() makes it a miss.
\* A panic (a poisoned mutex) is one over either cache.
Gives(c, how) ==
    IF how = "answers" THEN "answer"
    ELSE IF how = "fails" /\ c = "cache" /\ c \notin remote THEN "miss" ELSE "nothing"

StartProbe(p) ==
    /\ p \notin probing
    /\ probing' = probing \cup {p}
    /\ seen' = [seen EXCEPT ![p] = [c \in Components |-> {Gives(c, condition[c])}]]
    /\ UNCHANGED <<remote, condition, status>>

\* A wrong form: the elapsed timer is not an error.
FindingTimeoutOk(c) ==
    IF condition[c] = "hangs" \/ Gives(c, condition[c]) # "nothing"
    THEN "healthy" ELSE "unhealthy"

\* An error, an elapsed timer and a panic of the task are all unhealthy.
Finding(c) == IF Gives(c, condition[c]) = "nothing" THEN "unhealthy" ELSE "healthy"

Check(p, c) ==
    /\ p \in probing
    /\ status[p][c] = "unknown"
    /\ condition[c] = "hangs" => c \in remote
    /\ status' = [status EXCEPT ![p][c] = Finding(c)]
    /\ UNCHANGED <<remote, condition, probing, seen>>

Done(p) == p \in probing /\ \A c \in Components : status[p][c] # "unknown"

Overall(p) ==
    IF \A c \in Components : status[p][c] = "healthy" THEN "healthy" ELSE "unhealthy"

\* Overall(p) is answered, and the request ends.
Report(p) ==
    /\ Done(p)
    /\ probing' = probing \ {p}
    /\ status' = [status EXCEPT ![p] = [c \in Components |-> "unknown"]]
    /\ seen' = [seen EXCEPT ![p] = [c \in Components |-> {}]]
    /\ UNCHANGED <<remote, condition>>

Change(c, to) ==
    /\ condition[c] # to
    /\ condition' = [condition EXCEPT ![c] = to]
    /\ seen' = [p \in Probes |->
                  IF p \in probing THEN [seen[p] EXCEPT ![c] = @ \cup {Gives(c, to)}]
                  ELSE seen[p]]
    /\ UNCHANGED <<remote, probing, status>>

HealthNext ==
    \/ \E p \in Probes :
          \/ StartProbe(p) \/ Report(p)
          \/ \E c \in Components : Check(p, c)
    \/ \E c \in Components, to \in Conditions : Change(c, to)

HealthSpec == HealthInit /\ [][HealthNext]_healthVars

-----------------------------------------------------------------------------
(* Properties *)

\* What the module's docs say: "healthy" means that the engine and the cache
\* each gave a real answer while the request ran; an error or a timeout is not
\* one.  Not so of the SQLite cache, whose errors come back as a miss.
HealthyMeansAnswered ==
    \A p \in Probes :
        Done(p) /\ Overall(p) = "healthy" => \A c \in Components : "answer" \in seen[p][c]

\* "Healthy" means that the engine, and a cache that is Redis, each answered
\* while the request ran, and that the SQLite cache answered or failed to read:
\* that it did not hang or panic is all it says of it.  "Unhealthy" means that
\* one of the two gave nothing, although the checks look at different moments
\* and requests overlap.
HealthHonest ==
    \A p \in Probes : Done(p) =>
        IF Overall(p) = "healthy"
        THEN \A c \in Components :
                \/ "answer" \in seen[p][c]
                \/ c = "cache" /\ c \notin remote /\ "miss" \in seen[p][c]
        ELSE \E c \in Components : "nothing" \in seen[p][c]
=============================================================================
