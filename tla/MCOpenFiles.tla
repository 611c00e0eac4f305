---------------------------- MODULE MCOpenFiles ----------------------------
(* Small instances of OpenFiles.tla.  The last path's directory does not exist. *)
EXTENDS OpenFiles

MCSubDirs == <<"usr/">>
MCPaths == {<<"usr/", "a">>, <<"b">>, <<"no/", "a">>}
MCSeeks == {-1, 0, 1}

\* The smallest int as a length and an offset: from 0 to it and, as the sum wraps,
\* back to 0.
MCSmallest == {-IntMax - 1}
MCWraps == {-IntMax - 1, 0}
=============================================================================
