------------------------------- MODULE MCSurfaces -------------------------------
(***************************************************************************)
(* What stands in front of the engine, for TLC: server, cache, health      *)
(* checks, graph page, front doors and eval metrics.  They share no state  *)
(* (Server uses the cache as TtlMap promises, and that promise is checked  *)
(* of ServerCache here), so each is explored by itself: `part` says which, *)
(* and the others rest in one initial state.                               *)
(***************************************************************************)
EXTENDS ServerCache, Server, ServerHealth, GraphPage, FrontDoors, EvalMetrics, TLC

CONSTANTS a, b, x, y

VARIABLE part

Parts == {"cache", "server", "health", "page", "doors", "metrics"}

MCClaims == {<<a, "write">>, <<a, "superadmin">>, <<b, "admin">>, <<b, "audit">>}
MCOwner  == x :> a @@ y :> a

\* Nothing set; the server's url; and everything else at once.
MCEnvironments ==
    {Unset, [Unset EXCEPT !.database = "set"],
     [sqlite |-> "elsewhere", database |-> "empty", tenant |-> "acme"]}

Symmetry ==
    Permutations(Requests) \cup Permutations(Probes) \cup
    Permutations(Fetches) \cup Permutations(Users)

SurfacesInit ==
    /\ part \in Parts
    /\ CacheInit /\ ServerInit /\ HealthInit /\ PageInit /\ DoorsInit /\ MetricsInit
    /\ part # "cache" => kind = "redis"
    /\ part # "server" => redis
    /\ part # "health" => remote = {}
    /\ part # "page" => token = a
    /\ part # "doors" => env = Unset

Rest(parts) ==
    /\ UNCHANGED part
    /\ "cache" \in parts => UNCHANGED cacheVars
    /\ "server" \in parts => UNCHANGED serverVars
    /\ "health" \in parts => UNCHANGED healthVars
    /\ "page" \in parts => UNCHANGED pageVars
    /\ "doors" \in parts => UNCHANGED doorVars
    /\ "metrics" \in parts => UNCHANGED metricVars

SurfacesNext ==
    \/ part = "cache" /\ CacheNext /\ Rest(Parts \ {"cache"})
    \/ part = "server" /\ ServerNext /\ Rest(Parts \ {"server"})
    \/ part = "health" /\ HealthNext /\ Rest(Parts \ {"health"})
    \/ part = "page" /\ PageNext /\ Rest(Parts \ {"page"})
    \/ part = "doors" /\ DoorsNext /\ Rest(Parts \ {"doors"})
    \/ part = "metrics" /\ MetricsNext /\ Rest(Parts \ {"metrics"})

SurfacesSpec ==
    SurfacesInit /\
    [][SurfacesNext]_<<part, cacheVars, serverVars, healthVars, pageVars, doorVars, metricVars>>

\* The state of every part has its type.
SurfacesTypeOK ==
    /\ CacheTypeOK /\ ServerTypeOK /\ HealthTypeOK
    /\ PageTypeOK /\ DoorsTypeOK /\ MetricsTypeOK
=============================================================================
