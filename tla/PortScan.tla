------------------------------ MODULE PortScan ------------------------------
(***************************************************************************)
(* What the port-scanning phase of scanNetwork (src/main.go) promises the  *)
(* code after it, with the channels and goroutines left out: every         *)
(* (address, port) job is probed once, every probe that found an open port *)
(* is handed to the collector once, and the phase ends only when nothing   *)
(* is left to probe or to hand over.  Ctrl-C never loses a result: it only *)
(* makes the probes that start after it fail.                              *)
(***************************************************************************)
EXTENDS FiniteSets

CONSTANT Jobs            \* the (address, port) pairs of the scan

VARIABLES
    probed,              \* jobs whose scanPort call has returned
    found,               \* jobs whose scanPort call returned ok = true
    reported,            \* jobs the collector has filed under byIP
    cancelled,           \* ctx is done (Ctrl-C)
    done                 \* the collector's range over results has ended

scanVars == <<probed, found, reported, cancelled, done>>

TypeOK ==
    /\ probed \in SUBSET Jobs
    /\ found \in SUBSET probed
    /\ reported \in SUBSET found
    /\ cancelled \in BOOLEAN
    /\ done \in BOOLEAN

Init ==
    /\ probed = {} /\ found = {} /\ reported = {}
    /\ cancelled = FALSE
    /\ done = FALSE

(* scanPort(j) returns ok: impossible once the context is cancelled.       *)
ProbeOpen(j) ==
    /\ j \in Jobs \ probed
    /\ ~cancelled
    /\ probed' = probed \cup {j}
    /\ found' = found \cup {j}
    /\ UNCHANGED <<reported, cancelled, done>>

ProbeClosed(j) ==
    /\ j \in Jobs \ probed
    /\ probed' = probed \cup {j}
    /\ UNCHANGED <<found, reported, cancelled, done>>

Report(j) ==
    /\ j \in found \ reported
    /\ reported' = reported \cup {j}
    /\ UNCHANGED <<probed, found, cancelled, done>>

Finish ==
    /\ ~done
    /\ probed = Jobs
    /\ reported = found
    /\ done' = TRUE
    /\ UNCHANGED <<probed, found, reported, cancelled>>

Cancel ==
    /\ ~cancelled
    /\ cancelled' = TRUE
    /\ UNCHANGED <<probed, found, reported, done>>

Next ==
    \/ \E j \in Jobs : ProbeOpen(j) \/ ProbeClosed(j) \/ Report(j)
    \/ Finish
    \/ Cancel

Spec == Init /\ [][Next]_scanVars
=============================================================================
