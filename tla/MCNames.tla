------------------------------- MODULE MCNames -------------------------------
(* Docker Hub and a second registry; one repository has a path that looks     *)
(* like a name at the second registry.                                        *)
EXTENDS Names, TLC

CONSTANTS hub, ghcr, GHCR, lib, app, d1, d2

LowerOf == [s \in {hub, ghcr, GHCR, lib, app} |-> IF s = GHCR THEN ghcr ELSE s]
Configured == <<[host |-> hub, default |-> FALSE], [host |-> GHCR, default |-> FALSE]>>
RepoNames == {<<app>>, <<ghcr, app>>}
Earlier == {<< <<app>>, d1>>, << <<lib, app>>, d1>>}
=============================================================================
