------------------------------ MODULE GCHandOff ------------------------------
(***************************************************************************)
(* What the GC hand-off promises, whatever files, polls and crashes it is  *)
(* made of: one cache is collected at a time, a cache that nobody asked    *)
(* for is collected only by a forced run, and an asked-for collection is   *)
(* forgotten only after it was carried out or by an operator's clear.      *)
(***************************************************************************)
CONSTANT Targets        \* the caches

VARIABLES
    wanted,     \* caches whose collection is asked for
    running,    \* the cache being collected, if any: a set of one or none
    served,     \* the cache whose collection succeeded just now, if any
    forced,     \* the worker goes through all caches, asked for or not
    clearing    \* an operator withdraws requests

handOffVars == <<wanted, running, served, forced, clearing>>

HandOffInit ==
    /\ wanted = {} /\ running = {} /\ served = {}
    /\ forced = FALSE /\ clearing = FALSE

Ask(t) ==
    /\ wanted' = wanted \cup {t}
    /\ UNCHANGED <<running, served, forced, clearing>>

\* An operator begins or ends to clear, or control dies.
Operator ==
    /\ clearing' \in BOOLEAN
    /\ UNCHANGED <<wanted, running, served, forced>>

Withdraw(t) ==
    /\ clearing
    /\ wanted' = wanted \ {t}
    /\ clearing' \in BOOLEAN
    /\ UNCHANGED <<running, served, forced>>

\* Between two collections a run may begin or end.
Decide ==
    /\ running = {} /\ served = {}
    /\ forced' \in BOOLEAN
    /\ UNCHANGED <<wanted, running, served, clearing>>

Begin(t) ==
    /\ running = {} /\ served = {}
    /\ t \in wanted \/ forced
    /\ running' = {t}
    /\ UNCHANGED <<wanted, served, forced, clearing>>

Succeed ==
    /\ running # {}
    /\ served' = running /\ running' = {}
    /\ UNCHANGED <<wanted, forced, clearing>>

\* The command fails, or the worker dies during it or before the request is
\* removed: the request stays.
Stop ==
    /\ running' = {} /\ served' = {} /\ forced' = FALSE
    /\ UNCHANGED <<wanted, clearing>>

Retire ==
    /\ wanted' = wanted \ served /\ served' = {}
    /\ UNCHANGED <<running, forced, clearing>>

HandOffNext ==
    \/ \E t \in Targets : Ask(t) \/ Withdraw(t) \/ Begin(t)
    \/ Operator \/ Decide \/ Succeed \/ Stop \/ Retire

HandOffSpec == HandOffInit /\ [][HandOffNext]_handOffVars
=============================================================================
