--------------------------- MODULE MCRequestFlow ---------------------------
(* Model-checking instances of RequestFlow: a plugin with an instance for   *)
(* one workspace before the governance plugin, which may only then learn    *)
(* the workspace of the request.                                            *)
EXTENDS RequestFlow

CONSTANTS c1, gov, tagged, w1, p1, p2

MCFallbacks == [c \in Calls |-> 2]
MCNameOf == [p \in Plugins |-> p]
MCTagOf == [p \in Plugins |-> IF p = tagged THEN w1 ELSE None]
MCInitial == {<<tagged, gov>>, <<gov>>}
=============================================================================
