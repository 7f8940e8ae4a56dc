------------------------------ MODULE Fallback ------------------------------
(***************************************************************************)
(* The health classification of src/app/ops.go (refreshFallbackStatus), on *)
(* which the janitor and the GC worker both base their decision to skip.   *)
(***************************************************************************)

States == {"normal", "maintenance", "mirror-degraded", "upstream-degraded",
           "storage-emergency", "storage-pressure"}

\* The switch of refreshFallbackStatus: the first case that holds decides, so
\* "maintenance" hides a degraded mirror and both hide a degraded upstream.
\* storage is the level aggregateStorage computed.
FallbackState(maintenanceMode, gcRunning, mirrorsUp, upstreamsUp, storage) ==
    IF maintenanceMode \/ gcRunning THEN "maintenance"
    ELSE IF ~mirrorsUp THEN "mirror-degraded"
    ELSE IF ~upstreamsUp THEN "upstream-degraded"
    ELSE IF storage = "emergency" THEN "storage-emergency"
    ELSE IF storage = "pressure" THEN "storage-pressure"
    ELSE "normal"
=============================================================================
