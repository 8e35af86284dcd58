---------------------------- MODULE LanDiscovery ----------------------------
(***************************************************************************)
(* What LAN discovery promises the scan that waits for it: it runs beside  *)
(* the port phase, and when it is done it has heard some of the addresses  *)
(* of the targets, and nobody else.  ScanRun waits for it through this     *)
(* contract; Discovery shows that the goroutines and sockets keep it.      *)
(***************************************************************************)
CONSTANT Discoverable    \* addresses of the targets that may answer

VARIABLES heard, discovery

Init == heard = {} /\ discovery = "running"

(* discoveryWg.Done(): from here on nothing more is heard.                 *)
End ==
    /\ discovery = "running"
    /\ heard' \in SUBSET Discoverable
    /\ discovery' = "done"

Next == End
Spec == Init /\ [][Next]_<<heard, discovery>>

TypeOK == heard \subseteq Discoverable /\ discovery \in {"running", "done"}
=============================================================================
