-------------------------- MODULE MCConfigService ---------------------------
EXTENDS ConfigService, TLC

CONSTANTS p1, p2, v1, v2

NoDefaults == [s \in {"website", "store"} |-> None]
Plain == [def |-> None, child |-> NoDefaults, perm |-> {}]
WithDefault == [Plain EXCEPT !.def = v1]
Restricted == [Plain EXCEPT !.def = v1, !.child["website"] = v2, !.perm = {"default", "website"}]

(* A route without meta, one with a default value for every scope, and one  *)
(* with a website's own default that stores may not write and nobody        *)
(* observes yet.                                                            *)
MCSetups == {[meta |-> Plain, obs |-> Events], [meta |-> WithDefault, obs |-> Events],
             [meta |-> Restricted, obs |-> {}]}

Symmetry == Permutations(Procs)
=============================================================================
