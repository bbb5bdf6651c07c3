------------------------ MODULE MCIsolationRecovery ------------------------
EXTENDS IsolationRecovery, TLC
CONSTANTS src, dest

(* Two neighbours, each of which can also be reached through the other. *)
MCSpeaksOf == (src :> {dest}) @@ (dest :> {src})

MCFlows == {<<src, dest>>}
=============================================================================
