----------------------------- MODULE WatchTable -----------------------------
(***************************************************************************)
(* The live host table of the TUI's watch phase (src/tui.go, scanTUI) and  *)
(* the goroutines that write it after Finish: the 5s sweep (watchLoop),    *)
(* the 1s probe of suspect hosts (fastLoop), the goroutine of each newly   *)
(* seen address (discoverHostAsync), a rescan (triggerRescan, scanNetwork  *)
(* and its monitor callbacks, applyRescanResults) and the keys.            *)
(*                                                                         *)
(* t.mu makes each critical section atomic, so each is one action; the     *)
(* pings, port scans and enrichments between two sections of one goroutine *)
(* are the gaps the actions of the others fall into.  Addresses are small  *)
(* integers ordered as lessIP orders them.  A latency is -1 (none), 0 (a   *)
(* reply within the same millisecond) or 1 (any longer one).  The change   *)
(* highlights, the statistics other than misses and the drawing are left   *)
(* out: no decision of the code reads them.                                *)
(***************************************************************************)
EXTENDS Integers, Sequences, FiniteSets, SequencesExt

CONSTANTS
    Hosts,               \* watch.ips: the addresses of the scanned network
    CanOpen,             \* those that may have open ports
    ARPHosts,            \* those with a valid entry in the ARP cache
    MACHosts,            \* those whose MAC enrichHost can resolve
    Discoverable,        \* those that may answer LAN discovery
    CanLeave,            \* those that may leave the network for good
    CanMiss,             \* those whose replies may be lost, or who may be away for a while
    Near,                \* those that may answer within the same millisecond
    UserKeys,            \* the keys pressed: some of "r", "p", "s", "a"
    DeadAfter,           \* tuiDeadAfterMisses
    DiscoverWorkers,     \* tuiWatchDiscoverWorkers
    ARPDead,             \* the -a option: enrichConfig.arpCache at start
    MaxRescans           \* bound on the rescans of one behaviour

ASSUME WatchAssumption ==
    /\ Hosts \subseteq Nat /\ IsFiniteSet(Hosts)
    /\ CanOpen \cup ARPHosts \cup MACHosts \cup Discoverable \subseteq Hosts
    /\ CanLeave \cup CanMiss \cup Near \subseteq Hosts
    /\ ARPHosts \subseteq MACHosts
    /\ DeadAfter \in Nat /\ DeadAfter >= 2
    /\ DiscoverWorkers \in Nat \ {0}
    /\ ARPDead \in BOOLEAN
    /\ MaxRescans \in Nat

Latency == {-1, 0, 1}
Status == {"", "live", "dead", "arp", "discovery"}
Row == [ip : Hosts, status : Status, ports : BOOLEAN, lat : Latency, mac : BOOLEAN]
NoStats == -1            \* no entry in pingStats

VARIABLES
    table,               \* t.hosts, in display order
    misses,              \* misses of pingStats[ip], or NoStats
    phase,               \* t.phase
    rescanning,          \* t.rescanning
    autoPing, autoScan,  \* the `p` and `s` toggles
    autoARP,             \* the `a` toggle as displayed
    enrichARP,           \* t.watch.enrich.arpCache, what the loops copy
    scanHosts,           \* t.scanHosts: best latency of a responsive address, or -1
    sweep,               \* watchLoop: its stage and its copies of the state
    fast,                \* fastLoop: its stage and its suspects
    disc,                \* discoverHostAsync: one goroutine per pending address
    scan,                \* the rescan goroutine: its stage, copies and results
    gone                 \* environment: hosts that have left the network for good

(* NewRow is the row of an address of which only a latency is known.       *)
NewRow(ip, status, lat) ==
    [ip |-> ip, status |-> status, ports |-> FALSE, lat |-> lat, mac |-> FALSE]

toggles == <<autoPing, autoScan, autoARP, enrichARP>>
vars == <<table, misses, phase, rescanning, toggles, scanHosts, sweep, fast, disc, scan, gone>>

-----------------------------------------------------------------------------
(* The table and the statistics.                                           *)

(* The k-th member of a set of numbers in ascending order; the addresses   *)
(* of a set sorted with lessIP; the rows of a table at some of its places. *)
Nth(S, k) == CHOOSE i \in S : Cardinality({j \in S : j <= i}) = k
InOrder(ips) == [k \in 1..Cardinality(ips) |-> Nth(ips, k)]
Select(tab, places) == [k \in 1..Cardinality(places) |-> tab[Nth(places, k)]]

HasRow(ip) == \E i \in DOMAIN table : table[i].ip = ip
(* indexOfLocked, for an address that has a row.                           *)
IndexOf(ip) == CHOOSE i \in DOMAIN table :
                  table[i].ip = ip /\ \A k \in 1..(i - 1) : table[k].ip # ip
RowOf(ip) == table[IndexOf(ip)]

(* Seeded faults: the row is appended, or leaves its place for the bottom. *)
FaultyUpsert(row) == Append(table, row)
FaultyUpsertBelow(row) ==
    Append(Select(table, {i \in DOMAIN table : table[i].ip # row.ip}), row)

(* HostReady and upsertHost: replace the row of the address or append one. *)
Upsert(row) ==
    IF HasRow(row.ip) THEN [table EXCEPT ![IndexOf(row.ip)] = row]
                      ELSE Append(table, row)

(* upsertPlaceholderLocked for some addresses in order: a row that exists  *)
(* stays, at the lower latency; the others are appended.                   *)
Placeholders(ips, best) ==
    LET fresh == InOrder({ip \in ips : ~HasRow(ip)})
        Lower(row, lat) == IF lat >= 0 /\ (row.lat < 0 \/ lat < row.lat) THEN lat ELSE row.lat
    IN [i \in DOMAIN table |->
          IF table[i].ip \in ips
          THEN [table[i] EXCEPT !.lat = Lower(table[i], best[table[i].ip])] ELSE table[i]]
       \o [k \in DOMAIN fresh |-> NewRow(fresh[k], "", best[fresh[k]])]

(* recordPingLocked: a latency below 0 is not a sample.                    *)
RecordPing(stats, ip, lat) == IF lat >= 0 THEN [stats EXCEPT ![ip] = 0] ELSE stats

(* recordMissLocked, creating the entry if needed.                         *)
Missed(n) == IF n = NoStats THEN 1 ELSE n + 1

(* Seeded fault: the sweep counts every miss, fastLoop's too.              *)
FaultySweepCounts(n) == TRUE

(* The sweep leaves an address with a miss to fastLoop.                    *)
SweepCounts(n) == n \in {NoStats, 0}

(* Seeded faults: the row goes and its statistics stay; the late verdict   *)
(* is not checked against the row.                                         *)
FaultyForget(stats, ip) == stats
FaultyRemovable(row) == TRUE

(* removeHost.                                                             *)
Forget(stats, ip) == [stats EXCEPT ![ip] = NoStats]
Removable(row) == ~row.mac /\ ~row.ports

(* Seeded fault: only the status changes.                                  *)
FaultyMarkDead(row) == [row EXCEPT !.status = "dead"]

MarkDead(row) == [row EXCEPT !.status = "dead", !.lat = -1]

hostWasLive(row) == row.status \in {"dead", "live", "arp"} \/ row.ports \/ row.lat > 0

(* A reply brings a dead row back, as "live" when it has open ports.       *)
Answered(row, lat) ==
    [row EXCEPT !.lat = lat,
                !.status = IF @ # "dead" THEN @ ELSE IF row.ports THEN "live" ELSE ""]

-----------------------------------------------------------------------------
(* The state Finish leaves behind: the first scan's report, and the three  *)
(* loops about to start.                                                   *)

(* discoveryHostStatus.                                                    *)
HostStatus(ports, arp, arpDead, hit) ==
    IF arp /\ ports THEN "live"
    ELSE IF arp /\ arpDead THEN "arp"
    ELSE IF hit /\ ~ports THEN "discovery" ELSE ""

(* enrichHost, for an address of a scan: the ports found, the ARP cache    *)
(* option, whether LAN discovery heard it and what a ping returned.        *)
Enriched(ip, ports, arp, hit, lat) ==
    [ip |-> ip, ports |-> ports, lat |-> lat, mac |-> ip \in MACHosts,
     status |-> HostStatus(ports, arp, ip \in ARPHosts /\ ~ports /\ ~hit, hit)]

ReplyTimes(ip) == IF ip \in Near THEN {0, 1} ELSE {1}
PingResult(ip) ==
    IF ip \in gone THEN {-1}
    ELSE ReplyTimes(ip) \cup (IF ip \in CanMiss THEN {-1} ELSE {})
OpenResult(ip) == IF ip \in CanOpen \ gone THEN BOOLEAN ELSE {FALSE}

(* The rows a scan can report for an address (none when it is not part of  *)
(* byIP: no port, no discovery hit, no ARP entry to list).                 *)
ScanRows(ip, arp) ==
    {Enriched(ip, ports, arp, hit, lat) :
        ports \in OpenResult(ip),
        hit \in {h \in BOOLEAN : h => ip \in Discoverable},
        lat \in PingResult(ip)}

Reportable(ip, row, arp) ==
    row.ports \/ row.status = "discovery" \/ (arp /\ ip \in ARPHosts)

Idle == "idle"
NoSweep == [pc |-> Idle, known |-> {}, arp |-> FALSE, todo |-> {}]
NoFast == [pc |-> Idle, suspects |-> {}]
NoDiscover == [pc |-> Idle, lat |-> -1, arp |-> FALSE, ports |-> FALSE]
NoScan(n) == [pc |-> Idle, arp |-> FALSE, hits |-> {}, ips |-> {}, results |-> {}, count |-> n]

Init ==
    /\ gone = {}
    /\ \E present \in SUBSET Hosts :
         /\ table \in {t \in [1..Cardinality(present) -> UNION {ScanRows(ip, ARPDead) : ip \in present}] :
                         \A i \in DOMAIN t :
                            /\ t[i].ip = InOrder(present)[i]
                            /\ Reportable(t[i].ip, t[i], ARPDead)}
    /\ misses = [ip \in Hosts |->
                   IF \E i \in DOMAIN table : table[i].ip = ip /\ table[i].lat >= 0
                   THEN 0 ELSE NoStats]
    /\ phase = "watch" /\ rescanning = FALSE
    /\ autoPing = TRUE /\ autoScan = FALSE
    /\ autoARP = ARPDead /\ enrichARP = ARPDead
    /\ scanHosts = [ip \in Hosts |-> -1]
    /\ sweep = NoSweep /\ fast = NoFast
    /\ disc = [ip \in Hosts |-> NoDiscover]
    /\ scan = NoScan(0)

-----------------------------------------------------------------------------
(* watchLoop: maybeRunPingTick and the first section of runPingTick.  The  *)
(* batch is every address (a network of one chunk).                        *)

SweepStart ==
    /\ sweep.pc = Idle
    /\ autoPing
    /\ ~rescanning
    /\ sweep' = [pc |-> "pinging", known |-> {table[i].ip : i \in DOMAIN table},
                 arp |-> enrichARP, todo |-> {}]
    /\ UNCHANGED <<table, misses, phase, rescanning, toggles, scanHosts, fast, disc, scan, gone>>

(* The second section: ARP details, then the replies and the first misses, *)
(* and the list of answering or cached addresses that had no row at the    *)
(* start of the tick.  `rescanning` is not looked at again.                *)
SweepApply ==
    /\ sweep.pc = "pinging"
    /\ \E pings \in {p \in [Hosts -> Latency] : \A ip \in Hosts : p[ip] \in PingResult(ip)} :
         /\ table' = [i \in DOMAIN table |->
                        LET row == [table[i] EXCEPT !.mac = @ \/ table[i].ip \in ARPHosts]
                        IN IF pings[row.ip] >= 0 THEN Answered(row, pings[row.ip]) ELSE row]
         /\ misses' = [ip \in Hosts |->
                        IF ~HasRow(ip) THEN misses[ip]
                        ELSE IF pings[ip] >= 0 THEN 0
                        ELSE IF hostWasLive(RowOf(ip)) /\ SweepCounts(misses[ip])
                        THEN Missed(misses[ip])
                        ELSE misses[ip]]
         /\ sweep' = [sweep EXCEPT
                        !.pc = "discovering",
                        !.todo = {<<ip, pings[ip]>> : ip \in {h \in Hosts : pings[h] >= 0} \ sweep.known}
                                 \cup (IF sweep.arp THEN (ARPHosts \ sweep.known) \X {-1} ELSE {})]
    /\ UNCHANGED <<phase, rescanning, toggles, scanHosts, fast, disc, scan, gone>>

(* discoverHostAsync up to its go statement: pendingDiscover.LoadOrStore,  *)
(* then addDiscoverPlaceholder.                                            *)
SweepDiscover ==
    /\ sweep.pc = "discovering"
    /\ \E d \in sweep.todo :
         LET ip == d[1]  lat == d[2] IN
         /\ lat >= 0 \/ \A e \in sweep.todo : e[2] < 0   \* the range over pings is first
         /\ sweep' = [sweep EXCEPT !.todo = @ \ {d}]
         /\ IF disc[ip].pc # Idle
            THEN UNCHANGED <<table, misses, disc>>
            ELSE /\ disc' = [disc EXCEPT ![ip] =
                               [NoDiscover EXCEPT !.pc = "queued", !.lat = lat, !.arp = sweep.arp]]
                 /\ IF HasRow(ip)
                    THEN UNCHANGED <<table, misses>>
                    ELSE /\ table' = Append(table,
                              NewRow(ip, IF lat >= 0 THEN "live" ELSE "", lat))
                         /\ misses' = RecordPing(misses, ip, lat)
    /\ UNCHANGED <<phase, rescanning, toggles, scanHosts, fast, scan, gone>>

SweepEnd ==
    /\ sweep.pc = "discovering"
    /\ sweep.todo = {}
    /\ sweep' = NoSweep
    /\ UNCHANGED <<table, misses, phase, rescanning, toggles, scanHosts, fast, disc, scan, gone>>

-----------------------------------------------------------------------------
(* fastLoop: the two sections of runFastProbe.                             *)

(* Seeded fault: off by one.                                               *)
FaultySuspects == {ip \in Hosts : misses[ip] \in 1..(DeadAfter - 2)}

Suspects == {ip \in Hosts : misses[ip] \in 1..(DeadAfter - 1)}

FastStart ==
    /\ fast.pc = Idle
    /\ ~rescanning
    /\ autoPing
    /\ Suspects # {}
    /\ fast' = [pc |-> "pinging", suspects |-> Suspects]
    /\ UNCHANGED <<table, misses, phase, rescanning, toggles, scanHosts, sweep, disc, scan, gone>>

(* Replies clear the count, misses add to it; the rows that die move to    *)
(* the bottom, in the order of the suspects (a map iteration: any order).  *)
FastApply ==
    /\ fast.pc = "pinging"
    /\ \E pings \in {p \in [fast.suspects -> Latency] :
                       \A ip \in fast.suspects : p[ip] \in PingResult(ip)} :
         LET probed == {ip \in fast.suspects : HasRow(ip)}
             count(ip) == IF pings[ip] >= 0 THEN 0 ELSE Missed(misses[ip])
             dying == {ip \in probed : count(ip) >= DeadAfter /\ RowOf(ip).status # "dead"}
             updated == [i \in DOMAIN table |->
                           LET row == table[i] IN
                           IF row.ip \in dying THEN MarkDead(row)
                           ELSE IF row.ip \in probed /\ pings[row.ip] >= 0
                           THEN Answered(row, pings[row.ip]) ELSE row]
         IN /\ misses' = [ip \in Hosts |-> IF ip \in probed THEN count(ip) ELSE misses[ip]]
            /\ \E order \in SetToSeqs(dying) :
                 table' = Select(updated, {i \in DOMAIN table : table[i].ip \notin dying})
                          \o [k \in DOMAIN order |-> updated[IndexOf(order[k])]]
    /\ fast' = NoFast
    /\ UNCHANGED <<phase, rescanning, toggles, scanHosts, sweep, disc, scan, gone>>

-----------------------------------------------------------------------------
(* The goroutine of discoverHostAsync.  What it has learnt is forgotten    *)
(* when it is leaving: nobody reads it any more.                           *)

(* t.discoverSem <- struct{}{}.                                            *)
DiscoverAcquire(ip) ==
    /\ disc[ip].pc = "queued"
    /\ Cardinality({h \in Hosts : disc[h].pc \in {"scanning", "enriching", "leaving"}}) < DiscoverWorkers
    /\ disc' = [disc EXCEPT ![ip].pc = "scanning"]
    /\ UNCHANGED <<table, misses, phase, rescanning, toggles, scanHosts, sweep, fast, scan, gone>>

(* shouldIncludeHost says no: removeHost drops the row unless it has a MAC *)
(* or ports by now.                                                        *)
DiscoverReject(ip) ==
    /\ disc[ip].pc = "scanning"
    /\ ~(disc[ip].arp /\ ip \in ARPHosts)
    /\ IF HasRow(ip) /\ Removable(RowOf(ip))
       THEN /\ table' = Select(table, DOMAIN table \ {IndexOf(ip)})
            /\ misses' = Forget(misses, ip)
       ELSE UNCHANGED <<table, misses>>
    /\ disc' = [disc EXCEPT ![ip] = [NoDiscover EXCEPT !.pc = "leaving"]]
    /\ UNCHANGED <<phase, rescanning, toggles, scanHosts, sweep, fast, scan, gone>>

(* scanIPPorts and shouldIncludeHost keep the address: enrichHost follows. *)
DiscoverKeep(ip) ==
    /\ disc[ip].pc = "scanning"
    /\ \E ports \in OpenResult(ip) :
         /\ ports \/ (disc[ip].arp /\ ip \in ARPHosts)
         /\ disc' = [disc EXCEPT ![ip].pc = "enriching", ![ip].ports = ports]
    /\ UNCHANGED <<table, misses, phase, rescanning, toggles, scanHosts, sweep, fast, scan, gone>>

(* enrichHost (no discovery hits here; it pings only when the tick had no  *)
(* latency) and upsertHost.                                                *)
DiscoverAccept(ip) ==
    /\ disc[ip].pc = "enriching"
    /\ \E lat \in IF disc[ip].lat >= 0 THEN {disc[ip].lat} ELSE PingResult(ip) :
         /\ table' = Upsert(Enriched(ip, disc[ip].ports, disc[ip].arp, FALSE, lat))
         /\ misses' = RecordPing(misses, ip, lat)
    /\ disc' = [disc EXCEPT ![ip] = [NoDiscover EXCEPT !.pc = "leaving"]]
    /\ UNCHANGED <<phase, rescanning, toggles, scanHosts, sweep, fast, scan, gone>>

(* Seeded fault: a path that returns before the deferred release.          *)
FaultyDiscoverLeave(ip) == FALSE

(* The deferred release of discoverSem and pendingDiscover.Delete.         *)
DiscoverLeave(ip) ==
    /\ disc[ip].pc = "leaving"
    /\ disc' = [disc EXCEPT ![ip] = NoDiscover]
    /\ UNCHANGED <<table, misses, phase, rescanning, toggles, scanHosts, sweep, fast, scan, gone>>

-----------------------------------------------------------------------------
(* A rescan: triggerRescan by key or timer, scanNetwork's calls on its     *)
(* monitor, applyRescanResults.                                            *)

(* triggerRescan's section; `watch := t.watch` copies the ARP option.      *)
TriggerRescan ==
    /\ ~rescanning
    /\ phase \notin {"scanning", "enriching"}
    /\ phase = "watch"
    /\ scan.count < MaxRescans
    /\ rescanning' = TRUE
    /\ phase' = "scanning"
    /\ scanHosts' = [ip \in Hosts |-> -1]
    /\ scan' = [NoScan(scan.count + 1) EXCEPT !.pc = "scanning", !.arp = enrichARP]
    /\ UNCHANGED <<table, misses, toggles, sweep, fast, disc, gone>>

KeyRescan == "r" \in UserKeys /\ TriggerRescan
TimerRescan == autoScan /\ TriggerRescan    \* watchScanLoop, every 3 minutes

(* scanTUI.PortOpen.                                                       *)
PortOpen(ip) ==
    /\ scan.pc = "scanning"
    /\ ip \in CanOpen \ gone
    /\ \E lat \in ReplyTimes(ip) :
         LET best == IF scanHosts[ip] < 0 \/ lat < scanHosts[ip] THEN lat ELSE scanHosts[ip]
         IN /\ scanHosts' = [scanHosts EXCEPT ![ip] = best]
            /\ table' = Placeholders({ip}, scanHosts')
    /\ UNCHANGED <<misses, phase, rescanning, toggles, sweep, fast, disc, scan, gone>>

(* The end of the port phase: the discovery hits and the ARP cache join    *)
(* byIP, and scanTUI.EnrichStart lists a row for each address.             *)
EnrichStart ==
    /\ scan.pc = "scanning"
    /\ \E hits \in SUBSET (Discoverable \ gone) :
         LET ips == {ip \in Hosts : scanHosts[ip] >= 0} \cup hits
                    \cup (IF scan.arp THEN ARPHosts ELSE {})
         IN /\ scan' = [scan EXCEPT !.pc = "enriching", !.hits = hits, !.ips = ips]
            /\ table' = Placeholders(ips, scanHosts)
    /\ phase' = "enriching"
    /\ enrichARP' = scan.arp
    /\ UNCHANGED <<misses, rescanning, autoPing, autoScan, autoARP, scanHosts, sweep, fast, disc, gone>>

(* One host goroutine: enrichHost, hosts = append(hosts, host), then       *)
(* scanTUI.HostReady.                                                      *)
HostReady(ip) ==
    /\ scan.pc = "enriching"
    /\ ip \in scan.ips
    /\ \E lat \in PingResult(ip) :
         LET row == Enriched(ip, scanHosts[ip] >= 0, scan.arp, ip \in scan.hits, lat)
         IN /\ scan' = [scan EXCEPT !.ips = @ \ {ip}, !.results = @ \cup {row}]
            /\ table' = Upsert(row)
            /\ misses' = RecordPing(misses, ip, lat)
    /\ UNCHANGED <<phase, rescanning, toggles, scanHosts, sweep, fast, disc, gone>>

ResultFor(ip) == CHOOSE row \in scan.results : row.ip = ip
ResultIPs == {row.ip : row \in scan.results}

(* reconcileRescanHostsLocked: rows of the report keep their place, the    *)
(* others follow as dead, addresses without a row come last.               *)
Reconciled ==
    LET reported == {i \in DOMAIN table : table[i].ip \in ResultIPs}
        shown == [i \in DOMAIN table |-> IF i \in reported THEN ResultFor(table[i].ip)
                                                           ELSE MarkDead(table[i])]
        fresh == InOrder({ip \in ResultIPs : ~HasRow(ip)})
    IN Select(shown, reported) \o Select(shown, DOMAIN table \ reported)
       \o [k \in DOMAIN fresh |-> ResultFor(fresh[k])]

(* Seeded fault: the flag survives the rescan.                             *)
FaultyReturnToWatch == phase' = "watch" /\ UNCHANGED rescanning

ReturnToWatch == rescanning' = FALSE /\ phase' = "watch"

ApplyRescan ==
    /\ scan.pc = "enriching"
    /\ scan.ips = {}
    /\ ReturnToWatch
    /\ table' = Reconciled
    /\ misses' = [ip \in Hosts |->
                    IF ip \in ResultIPs /\ ResultFor(ip).lat >= 0 THEN 0 ELSE misses[ip]]
    /\ scan' = NoScan(scan.count)
    /\ UNCHANGED <<toggles, scanHosts, sweep, fast, disc, gone>>

-----------------------------------------------------------------------------
(* Keys of WaitExit that change this state.                                *)

ToggleAutoPing ==
    /\ "p" \in UserKeys
    /\ autoPing' = ~autoPing
    /\ UNCHANGED <<table, misses, phase, rescanning, autoScan, autoARP, enrichARP,
                   scanHosts, sweep, fast, disc, scan, gone>>

ToggleAutoScan ==
    /\ "s" \in UserKeys
    /\ autoScan' = ~autoScan
    /\ UNCHANGED <<table, misses, phase, rescanning, autoPing, autoARP, enrichARP,
                   scanHosts, sweep, fast, disc, scan, gone>>

ToggleARP ==
    /\ "a" \in UserKeys
    /\ autoARP' = ~autoARP
    /\ enrichARP' = ~autoARP
    /\ UNCHANGED <<table, misses, phase, rescanning, autoPing, autoScan,
                   scanHosts, sweep, fast, disc, scan, gone>>

-----------------------------------------------------------------------------

Sweep == SweepStart \/ SweepApply \/ SweepDiscover \/ SweepEnd
Fast == FastStart \/ FastApply
Discover(ip) ==
    \/ DiscoverAcquire(ip) \/ DiscoverReject(ip) \/ DiscoverKeep(ip)
    \/ DiscoverAccept(ip) \/ DiscoverLeave(ip)
Rescan ==
    \/ \E ip \in Hosts : PortOpen(ip) \/ HostReady(ip)
    \/ EnrichStart \/ ApplyRescan
Keys == KeyRescan \/ TimerRescan \/ ToggleAutoPing \/ ToggleAutoScan \/ ToggleARP

(* Environment: a host leaves the network and answers nothing any more.    *)
HostGone(ip) ==
    /\ ip \in CanLeave \ gone
    /\ gone' = gone \cup {ip}
    /\ UNCHANGED <<table, misses, phase, rescanning, toggles, scanHosts, sweep, fast, disc, scan>>

Next ==
    \/ Sweep \/ Fast \/ Rescan \/ Keys
    \/ \E ip \in Hosts : Discover(ip) \/ HostGone(ip)

Spec == Init /\ [][Next]_vars

(* The tickers fire for ever and every ping, scan and enrichment ends by   *)
(* its timeout; nobody has to press a key and no host has to leave.  A     *)
(* channel serves its senders in the order they came, so the goroutines    *)
(* waiting for discoverSem do not starve one another.                      *)
Fairness ==
    /\ WF_vars(Sweep) /\ WF_vars(Fast)
    /\ WF_vars(EnrichStart \/ ApplyRescan \/ \E ip \in Hosts : HostReady(ip))
    /\ \A ip \in Hosts : WF_vars(Discover(ip)) /\ SF_vars(DiscoverAcquire(ip))

FairSpec == Spec /\ Fairness

-----------------------------------------------------------------------------
(* Properties.                                                             *)

TypeOK ==
    /\ table \in Seq(Row)
    /\ misses \in [Hosts -> Nat \cup {NoStats}]
    /\ phase \in {"watch", "scanning", "enriching"}
    /\ {rescanning, autoPing, autoScan, autoARP, enrichARP} \subseteq BOOLEAN
    /\ scanHosts \in [Hosts -> Latency]
    /\ sweep \in [pc : {Idle, "pinging", "discovering"}, known : SUBSET Hosts,
                  arp : BOOLEAN, todo : SUBSET (Hosts \X Latency)]
    /\ fast \in [pc : {Idle, "pinging"}, suspects : SUBSET Hosts]
    /\ disc \in [Hosts -> [pc : {Idle, "queued", "scanning", "enriching", "leaving"},
                           lat : Latency, arp : BOOLEAN, ports : BOOLEAN]]
    /\ scan \in [pc : {Idle, "scanning", "enriching"}, arp : BOOLEAN, hits : SUBSET Hosts,
                 ips : SUBSET Hosts, results : SUBSET Row, count : 0..MaxRescans]
    /\ gone \in SUBSET Hosts

(* No address is listed twice, although six critical sections add rows     *)
(* (PortOpen, EnrichStart, HostReady, addDiscoverPlaceholder, upsertHost,  *)
(* reconcileRescanHostsLocked) and none sees what the others are about to  *)
(* add.                                                                    *)
OneRowPerHost ==
    \A i, k \in DOMAIN table : table[i].ip = table[k].ip => i = k

(* Miss counts never pass tuiDeadAfterMisses: the sweep only counts the    *)
(* first miss and leaves the rest to fastLoop, whose suspects were below   *)
(* the limit when it started (runPingTick: "so the 5s sweep can't          *)
(* double-count their misses").                                            *)
MissesBounded == \A ip \in Hosts : misses[ip] <= DeadAfter

(* Ping statistics exist only for listed addresses: removeHost forgets     *)
(* both, and no probe that outlives the row brings the statistics back.    *)
StatsHaveRows == \A ip \in Hosts : misses[ip] # NoStats => HasRow(ip)

(* Between rescans a dead row never shows a latency, whichever of the      *)
(* sweep, fastLoop, discovery and rescan wrote its status or its latency   *)
(* last.                                                                   *)
DeadShowsNoLatency ==
    phase = "watch" => \A i \in DOMAIN table : table[i].status = "dead" => table[i].lat = -1

(* What makes the invariants above inductive.  A suspect that fastLoop is  *)
(* pinging stays below the limit whatever the sweep counts meanwhile; the  *)
(* phase and the rescan go together; a scan reports no dead row.           *)
SuspectsBelowLimit ==
    fast.pc = "pinging" => \A ip \in fast.suspects : misses[ip] < DeadAfter

PhaseInStep ==
    /\ rescanning = (phase # "watch")
    /\ phase = IF scan.pc = Idle THEN "watch" ELSE scan.pc

ResultsAreAlive == \A row \in scan.results : row.status # "dead"

(* The inductive invariant of the proofs.                                  *)
WatchInv ==
    /\ TypeOK
    /\ OneRowPerHost
    /\ MissesBounded
    /\ StatsHaveRows
    /\ DeadShowsNoLatency
    /\ SuspectsBelowLimit
    /\ PhaseInStep
    /\ ResultsAreAlive

(* A row with open ports or a MAC is never taken off the table: a late     *)
(* discovery verdict ("nothing here") does not delete what a rescan or the *)
(* ARP cache has learnt meanwhile, and a rescan keeps what it missed.      *)
EvidenceStays ==
    [][\A ip \in Hosts :
          HasRow(ip) /\ (RowOf(ip).ports \/ RowOf(ip).mac) => HasRow(ip)']_vars

Above(a, b) == HasRow(a) /\ HasRow(b) /\ IndexOf(a) < IndexOf(b)

(* Rows keep their order on the screen: one sinks below another only by    *)
(* dying or by missing from a rescan's report.                             *)
RowsKeepTheirOrder ==
    [][\A a, b \in Hosts : Above(a, b) /\ Above(b, a)' => RowOf(a)'.status = "dead"]_vars

(* A rescan always ends and gives the table back to the watch phase.       *)
RescanEnds == []<>(~rescanning /\ phase = "watch")

(* Every address sent to discovery gets its verdict and can be sent there  *)
(* again, however many wait for the semaphore while sweeps add to them.    *)
VerdictsCome == \A ip \in Hosts : []<>(disc[ip].pc = Idle)

ShownAsAlive(ip) == HasRow(ip) /\ RowOf(ip).status # "dead"
Tracked(ip) == HasRow(ip) /\ hostWasLive(RowOf(ip))

(* Whenever a host has left the network, hostWasLive counts its row as     *)
(* live and its misses are below the limit, the row comes to be shown dead *)
(* or removed, or a rescan is under way, after which the claim is made     *)
(* anew: neither the latency of its last reply (0 ms too), a tick or probe *)
(* under way, its discovery goroutine, an earlier rescan nor a key keeps   *)
(* it on the screen as alive.  Auto-ping must stay on in the end.          *)
GoneHostGoesDead ==
    <>[]autoPing =>
        \A ip \in CanLeave :
            (ip \in gone /\ Tracked(ip) /\ misses[ip] < DeadAfter)
                ~> (~ShownAsAlive(ip) \/ rescanning)

-----------------------------------------------------------------------------
(* What comments and tests say of the program, and the code does not do.   *)

(* tui.go, hostPingStats: a suspect is probed "until it either replies     *)
(* (misses reset to 0) or reaches tuiDeadAfterMisses and is marked dead".  *)
EscalationEndsDead ==
    \A ip \in Hosts : phase = "watch" /\ HasRow(ip) /\ misses[ip] >= DeadAfter
                      => RowOf(ip).status = "dead"

(* tui_test.go, TestToggleARP: what the `a` key shows is what the loops    *)
(* and the next rescan use.                                                *)
ARPToggleTakesEffect == autoARP = enrichARP
=============================================================================
