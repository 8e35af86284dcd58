--------------------------- MODULE MCWatchTable -----------------------------
(* Model-checking instances of WatchTable: addresses 1 and 2, in the order *)
(* lessIP gives them.                                                      *)
EXTENDS WatchTable

None == {}
One == {1}
Two == {2}
Both == {1, 2}
=============================================================================
