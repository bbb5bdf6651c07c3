------------------------- MODULE MCIsolatedNetwork -------------------------
(* Three nodes in a line, the middle one suspected. *)
EXTENDS IsolatedNetwork

CONSTANTS a, b, c

Line == {<<a, b>>, <<b, a>>, <<b, c>>, <<c, b>>}

=============================================================================
