--------------------------- MODULE MCAodvNetwork ---------------------------
(* Three nodes for TLC, in a line or all in range of each other. *)
EXTENDS AodvNetwork

CONSTANTS a, b, c

Both(L) == L \cup {<<l[2], l[1]>> : l \in L}

Line == Both({<<a, b>>, <<b, c>>})
Triangle == Both({<<a, b>>, <<b, c>>, <<a, c>>})

=============================================================================
