------------------------------ MODULE PageInfo -------------------------------
(***************************************************************************)
(* The HTTP page information of the TUI's rows (src/tui.go: HTTPRefresh,   *)
(* exportResults; src/main.go: runDeepHTTPProbe).  Each scan leaves a      *)
(* second pass in the background that outlives it and may outlive the next *)
(* scan, and all of them write into the OpenPorts slices of the rows.  A   *)
(* copied row shares its slice with the original: the table, the report    *)
(* that Finish and applyRescanResults install and the snapshot an export   *)
(* writes out, without the lock, all hold references.  So slices are       *)
(* objects here, and rows name them.                                       *)
(*                                                                         *)
(* An entry of a slice is the scan whose response filled it, or NoPage.    *)
(* The run is not interrupted: Ctrl-C ends the process from the watch      *)
(* phase, and ScanRun has what it does to a first scan.                    *)
(***************************************************************************)
EXTENDS Integers, FiniteSets

CONSTANTS
    Hosts,               \* the scanned addresses
    Ports,               \* their web ports; the others take no part in this
    ProbeWorkers,        \* httpProbeConcurrency
    MaxScans,            \* bound on scans, the first one included
    MaxExports           \* bound on exports

ASSUME PageAssumption ==
    /\ IsFiniteSet(Hosts) /\ IsFiniteSet(Ports)
    /\ ProbeWorkers \in Nat \ {0} /\ MaxScans \in Nat \ {0} /\ MaxExports \in Nat

NoPage == -1
Watch == 0               \* the "scan" of a host discovered in the watch phase
Page == {NoPage} \cup Watch..MaxScans
Slices == (Watch..MaxScans) \X Hosts
NoRow == <<-1, 0>>
NoPorts == <<-2, 0>>     \* a row whose OpenPorts is nil
Contents == UNION {[ports -> Page] : ports \in SUBSET Ports}
Jobs == (1..MaxScans) \X Hosts \X Ports

VARIABLES
    slice,               \* the contents of each slice allocated so far
    table,               \* t.hosts: the slice each address's row names
    phase,               \* t.phase, "scanning" for "enriching" too
    scan,                \* number and stage of the scan, what is left to enrich
    report,              \* `hosts` of that scan: the slice of each address in it
    job,                 \* stage of each probe of each scan's second pass
    discovery,           \* stage of each address's discoverHostAsync goroutine
    overtaken,           \* slices of a scan's report whose row discovery wrote meanwhile
    export               \* the export being written, and how many were begun

vars == <<slice, table, phase, scan, report, job, discovery, overtaken, export>>

Nothing == [x \in {} |-> NoPage]
NoExport(n) == [pc |-> "idle", rows |-> Nothing, was |-> Nothing, out |-> Nothing, count |-> n]
NewScan(n, ips) == [number |-> n, pc |-> "enriching", left |-> ips]

(* The first scan has its open ports and enriches its hosts.               *)
Init ==
    /\ slice = Nothing
    /\ \E ips \in SUBSET Hosts :
         /\ table = [ip \in Hosts |-> IF ip \in ips THEN NoPorts ELSE NoRow]
         /\ scan = NewScan(1, ips)
    /\ phase = "scanning"
    /\ report = [ip \in Hosts |-> NoRow]
    /\ job = [j \in Jobs |-> "none"]
    /\ discovery = [ip \in Hosts |-> "idle"]
    /\ overtaken = {}
    /\ export = NoExport(0)

-----------------------------------------------------------------------------
(* Scans.                                                                  *)

(* Seeded fault: the row is set and its ports are forgotten.               *)
FaultyAllocate(s, contents) == UNCHANGED slice

Allocate(s, contents) == slice' = [x \in DOMAIN slice \cup {s} |->
                                     IF x = s THEN contents ELSE slice[x]]

(* triggerRescan, and the port phase up to EnrichStart: addresses without  *)
(* a row get a placeholder, the others keep theirs.                        *)
TriggerRescan ==
    /\ phase = "watch"
    /\ scan.number < MaxScans
    /\ phase' = "scanning"
    /\ \E ips \in SUBSET Hosts :
         /\ scan' = NewScan(scan.number + 1, ips)
         /\ table' = [ip \in Hosts |-> IF ip \in ips /\ table[ip] = NoRow
                                       THEN NoPorts ELSE table[ip]]
    /\ report' = [ip \in Hosts |-> NoRow]
    /\ UNCHANGED <<slice, job, discovery, overtaken, export>>

(* A host goroutine of the scan: hosts = append(hosts, host), HostReady;   *)
(* the report and the row name the same slice.                             *)
(* Ports that answered HTTP in the connect timeout have their page.        *)
HostReady(ip) ==
    /\ scan.pc = "enriching" /\ ip \in scan.left
    /\ \E contents \in Contents :
         /\ \A p \in DOMAIN contents : contents[p] \in {NoPage, scan.number}
         /\ Allocate(<<scan.number, ip>>, contents)
    /\ report' = [report EXCEPT ![ip] = <<scan.number, ip>>]
    /\ table' = [table EXCEPT ![ip] = <<scan.number, ip>>]
    /\ scan' = [scan EXCEPT !.left = @ \ {ip}]
    /\ UNCHANGED <<phase, job, discovery, overtaken, export>>

Pending(n) == {<<n, ip, p>> : ip \in Hosts, p \in Ports}

(* runDeepHTTPProbe: a probe for each port of the report without a page by *)
(* now (an older pass may have filled it), then `go work()`.               *)
ScheduleSecondPass ==
    /\ scan.pc = "enriching" /\ scan.left = {}
    /\ scan' = [scan EXCEPT !.pc = "applying"]
    /\ job' = [j \in Jobs |->
                 IF /\ j \in Pending(scan.number)
                    /\ report[j[2]] \in DOMAIN slice
                    /\ j[3] \in DOMAIN slice[report[j[2]]]
                    /\ slice[report[j[2]]][j[3]] = NoPage
                 THEN "queued" ELSE job[j]]
    /\ UNCHANGED <<slice, table, phase, report, discovery, overtaken, export>>

(* Finish, or applyRescanResults: rows of the report come from the report, *)
(* a row the scan missed stays as it is, shown dead.                       *)
InstallReport ==
    /\ scan.pc = "applying"
    /\ scan' = [scan EXCEPT !.pc = "idle"]
    /\ phase' = "watch"
    /\ table' = [ip \in Hosts |-> IF report[ip] # NoRow THEN report[ip] ELSE table[ip]]
    /\ UNCHANGED <<slice, report, job, discovery, overtaken, export>>

-----------------------------------------------------------------------------
(* The second passes, one for each scan, each with its own semaphore.      *)

(* Seeded fault: a slot is given back only by a probe that got a page.     *)
FaultyBusy(n) == Cardinality({j \in Pending(n) : job[j] \in {"running", "failed"}})

(* The slots of the pass's `sem` in use.                                   *)
Busy(n) == Cardinality({j \in Pending(n) : job[j] = "running"})

Spawn(j) ==
    /\ job[j] = "queued"
    /\ Busy(j[1]) < ProbeWorkers
    /\ job' = [job EXCEPT ![j] = "running"]
    /\ UNCHANGED <<slice, table, phase, scan, report, discovery, overtaken, export>>

(* Seeded faults: the last response wins; responses count in the watch     *)
(* phase only.                                                             *)
FaultyFills(contents, p) == p \in DOMAIN contents
FaultyFillsLater(contents, p) ==
    phase = "watch" /\ p \in DOMAIN contents /\ contents[p] = NoPage

(* HTTPRefresh fills a port the row still has, and that has no page.       *)
Fills(contents, p) == p \in DOMAIN contents /\ contents[p] = NoPage

(* The response, then HTTPRefresh into whatever slice the row names.       *)
HTTPRefresh(j) ==
    /\ job[j] = "running"
    /\ job' = [job EXCEPT ![j] = "answered"]
    /\ LET s == table[j[2]] IN
         slice' = IF s \in DOMAIN slice /\ Fills(slice[s], j[3])
                  THEN [slice EXCEPT ![s][j[3]] = j[1]] ELSE slice
    /\ UNCHANGED <<table, phase, scan, report, discovery, overtaken, export>>

ProbeFails(j) ==
    /\ job[j] = "running"
    /\ job' = [job EXCEPT ![j] = "failed"]
    /\ UNCHANGED <<slice, table, phase, scan, report, discovery, overtaken, export>>

-----------------------------------------------------------------------------
(* Watch-phase discovery of an address: no second pass follows it.         *)

(* A sweep of the watch phase meets an address without a row, perhaps when *)
(* a rescan has begun meanwhile: the list was made without looking at      *)
(* `rescanning` again.  Bounded to one discovery of each address.          *)
DiscoverStart(ip) ==
    /\ phase = "watch" \/ scan.number > 1
    /\ table[ip] = NoRow
    /\ discovery[ip] = "idle"
    /\ discovery' = [discovery EXCEPT ![ip] = "scanning"]
    /\ table' = [table EXCEPT ![ip] = NoPorts]
    /\ UNCHANGED <<slice, phase, scan, report, job, overtaken, export>>

(* upsertHost, perhaps in the middle of a rescan that has its own row.     *)
UpsertHost(ip) ==
    /\ discovery[ip] = "scanning"
    /\ \E contents \in Contents :
         /\ \A p \in DOMAIN contents : contents[p] \in {NoPage, Watch}
         /\ Allocate(<<Watch, ip>>, contents)
    /\ table' = [table EXCEPT ![ip] = <<Watch, ip>>]
    /\ overtaken' = overtaken \cup
         (IF phase = "scanning" /\ report[ip] # NoRow THEN {report[ip]} ELSE {})
    /\ discovery' = [discovery EXCEPT ![ip] = "done"]
    /\ UNCHANGED <<phase, scan, report, job, export>>

HasNoPorts(s) == s = NoPorts \/ (s \in DOMAIN slice /\ DOMAIN slice[s] = {})

(* removeHost: the row goes if it has neither ports nor (not modelled, so  *)
(* either way) a MAC.                                                      *)
RemoveHost(ip) ==
    /\ discovery[ip] = "scanning"
    /\ discovery' = [discovery EXCEPT ![ip] = "done"]
    /\ table' \in {table} \cup (IF HasNoPorts(table[ip])
                                THEN {[table EXCEPT ![ip] = NoRow]} ELSE {})
    /\ UNCHANGED <<slice, phase, scan, report, job, overtaken, export>>

-----------------------------------------------------------------------------
(* An export: a copy of the rows under the lock, then row after row is     *)
(* written from the slices they name.                                      *)

Rows == {ip \in Hosts : table[ip] # NoRow}
Read(s) == IF s \in DOMAIN slice THEN slice[s] ELSE Nothing

BeginExport ==
    /\ export.pc = "idle" /\ export.count < MaxExports
    /\ phase = "watch"       \* "export only available once scanning completes"
    /\ export' = [pc |-> "writing",
                  rows |-> [ip \in Rows |-> table[ip]],
                  was |-> [ip \in Rows |-> Read(table[ip])],
                  out |-> Nothing, count |-> export.count + 1]
    /\ UNCHANGED <<slice, table, phase, scan, report, job, discovery, overtaken>>

(* Seeded fault: the row is looked up again, in the table.                 *)
FaultySource(ip) == table[ip]

Source(ip) == export.rows[ip]

WriteRow(ip) ==
    /\ export.pc = "writing"
    /\ ip \in DOMAIN export.rows \ DOMAIN export.out
    /\ export' = [export EXCEPT !.out = [h \in DOMAIN @ \cup {ip} |->
                                           IF h = ip THEN Read(Source(ip)) ELSE @[h]]]
    /\ UNCHANGED <<slice, table, phase, scan, report, job, discovery, overtaken>>

EndExport ==
    /\ export.pc = "writing"
    /\ DOMAIN export.out = DOMAIN export.rows
    /\ export' = NoExport(export.count)
    /\ UNCHANGED <<slice, table, phase, scan, report, job, discovery, overtaken>>

-----------------------------------------------------------------------------

Scan == (\E ip \in Hosts : HostReady(ip)) \/ ScheduleSecondPass \/ InstallReport
Pass(n) == \E j \in Pending(n) : Spawn(j) \/ HTTPRefresh(j) \/ ProbeFails(j)
Discover(ip) == UpsertHost(ip) \/ RemoveHost(ip)
Export == BeginExport \/ EndExport \/ \E ip \in Hosts : WriteRow(ip)

(* Every goroutine has ended but the loops that wait for keys and ticks.   *)
Waiting ==
    /\ scan.pc = "idle" /\ export.pc = "idle"
    /\ \A j \in Jobs : job[j] \notin {"queued", "running"}
    /\ UNCHANGED vars

Next ==
    \/ Waiting
    \/ Scan \/ TriggerRescan \/ Export
    \/ \E n \in 1..MaxScans : Pass(n)
    \/ \E ip \in Hosts : DiscoverStart(ip) \/ Discover(ip)

Spec == Init /\ [][Next]_vars

(* Probes end by http-timeout, and their goroutines and the scan's run;    *)
(* nobody has to rescan or export.                                         *)
FairSpec == Spec /\ WF_vars(Scan) /\ \A n \in 1..MaxScans : WF_vars(Pass(n))

-----------------------------------------------------------------------------
(* Properties.                                                             *)

Named == Slices \cup {NoRow, NoPorts}
Copies(values) == UNION {[ips -> values] : ips \in SUBSET Hosts}

TypeOK ==
    /\ DOMAIN slice \subseteq Slices /\ slice \in [DOMAIN slice -> Contents]
    /\ table \in [Hosts -> Named] /\ report \in [Hosts -> Named]
    /\ \A ip \in Hosts : {table[ip], report[ip]} \subseteq DOMAIN slice \cup {NoRow, NoPorts}
    /\ phase \in {"scanning", "watch"}
    /\ scan \in [number : 1..MaxScans, pc : {"enriching", "applying", "idle"}, left : SUBSET Hosts]
    /\ job \in [Jobs -> {"none", "queued", "running", "answered", "failed"}]
    /\ discovery \in [Hosts -> {"idle", "scanning", "done"}]
    /\ overtaken \subseteq Slices
    /\ export \in [pc : {"idle", "writing"}, rows : Copies(Named), was : Copies(Contents),
                   out : Copies(Contents), count : 0..MaxExports]

(* HTTPRefresh: "a stale probe from a prior scan generation can never      *)
(* clobber a port a newer scan has already populated": what a row shows of *)
(* a port changes only when a scan or discovery gives the row a new slice, *)
(* and that is never an older scan's.                                      *)
NeverClobbered ==
    [][\A ip \in Hosts : table[ip] \in DOMAIN slice =>
          /\ \A p \in DOMAIN slice[table[ip]] :
                slice[table[ip]][p] # NoPage => slice'[table[ip]][p] = slice[table[ip]][p]
          /\ table'[ip][1] \notin 1..(table[ip][1] - 1)]_vars

(* A page the second pass of a scan has retrieved is shown for as long as  *)
(* the row is that scan's, although the response may arrive before Finish  *)
(* or applyRescanResults replaces every row -- unless discovery wrote the  *)
(* row in between, and the response went to the slice of discovery.        *)
PageKept ==
    \A j \in Jobs :
        (job[j] = "answered" /\ table[j[2]] = <<j[1], j[2]>> /\ table[j[2]] \notin overtaken)
            => slice[table[j[2]]][j[3]] # NoPage

(* A file being exported has the rows and the ports of the moment it was   *)
(* begun, and of their pages at least those: rescans and second passes go  *)
(* on while it is written.                                                 *)
Gains(was, is) ==
    /\ DOMAIN is = DOMAIN was
    /\ \A p \in DOMAIN was : was[p] # NoPage => is[p] = was[p]

ExportOnlyGains == \A ip \in DOMAIN export.out : Gains(export.was[ip], export.out[ip])

(* The parts of the inductive invariant.  Every slice is allocated once:   *)
(* a scan and a discovery come to an address once.                         *)
AllocatedOnce ==
    /\ \A s \in DOMAIN slice : s[1] <= scan.number
    /\ \A ip \in scan.left : <<scan.number, ip>> \notin DOMAIN slice
    /\ \A ip \in Hosts : <<Watch, ip>> \in DOMAIN slice => discovery[ip] = "done"

(* While a scan is on, a row of its report is in the table, unless         *)
(* discovery has written the row or, finding no port in it, removed it     *)
(* (and listed it again).                                                  *)
ReportShown ==
    /\ phase = "watch" <=> scan.pc = "idle"
    /\ \A ip \in Hosts : report[ip] # NoRow =>
          /\ report[ip] = <<scan.number, ip>> /\ report[ip] \in DOMAIN slice
          /\ phase = "scanning" /\ report[ip] \notin overtaken =>
                \/ table[ip] = report[ip]
                \/ table[ip] \in {NoRow, NoPorts} /\ DOMAIN slice[report[ip]] = {}

(* A probe belongs to a port of its scan's report.                         *)
JobsHavePorts ==
    \A j \in Jobs : job[j] # "none" =>
        /\ j[1] <= scan.number /\ (j[1] = scan.number => scan.pc # "enriching")
        /\ <<j[1], j[2]>> \in DOMAIN slice /\ j[3] \in DOMAIN slice[<<j[1], j[2]>>]

(* What an export has still to read has not lost anything either.          *)
ExportInStep ==
    /\ DOMAIN export.was = DOMAIN export.rows /\ DOMAIN export.out \subseteq DOMAIN export.rows
    /\ \A ip \in DOMAIN export.rows :
          /\ export.rows[ip] \in DOMAIN slice \cup {NoPorts}
          /\ Gains(export.was[ip], Read(export.rows[ip]))

PageInv ==
    /\ TypeOK /\ AllocatedOnce /\ ReportShown /\ JobsHavePorts
    /\ PageKept /\ ExportInStep /\ ExportOnlyGains

(* Every probe a scan has scheduled ends, with two passes at work at once. *)
SecondPassEnds == \A j \in Jobs : job[j] = "queued" ~> job[j] \in {"answered", "failed"}
=============================================================================
