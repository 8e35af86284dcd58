------------------------------ MODULE ScanRun -------------------------------
(***************************************************************************)
(* One run of the program from Start to exit (src/main.go: run,            *)
(* scanNetwork, runDeepHTTPProbe, writeArtifacts, the monitors; also       *)
(* src/stream_json.go): what happens around the port pipeline, whose       *)
(* contract PortScan this module composes with, as it does with            *)
(* LanDiscovery, the contract of Discovery.                                *)
(*                                                                         *)
(* Beside the main goroutine run the progress ticker, LAN discovery, one   *)
(* goroutine per host to enrich, and the second HTTP pass.  The events the *)
(* monitors emit are kept in order, with the fields properties are about;  *)
(* of scan_progress, the latest figure of each monitor.                    *)
(***************************************************************************)
EXTENDS Integers, Sequences, FiniteSets

CONSTANTS
    Hosts, Ports,        \* the addresses and the port numbers to scan
    WebPorts,            \* ports the catalog marks http: they get a second pass
    CanOpen,             \* the jobs whose port may turn out to be open
    Discoverable,        \* addresses that may answer LAN discovery
    ARPHosts,            \* addresses of the target with a valid ARP entry
    CommandLines,        \* the option records a run may be started with
    ProbeWorkers,        \* httpProbeConcurrency
    PostEvery,           \* the 5 of `readyHosts%5`
    MaxTicks             \* bound on the ticks of the progress ticker

ASSUME RunAssumption ==
    /\ IsFiniteSet(Hosts) /\ IsFiniteSet(Ports)
    /\ WebPorts \subseteq Ports
    /\ CanOpen \subseteq Hosts \X Ports
    /\ Discoverable \cup ARPHosts \subseteq Hosts
    /\ \A o \in CommandLines :
         /\ {o.arpDead, o.tui, o.progressURL, o.streamJSON} \subseteq BOOLEAN
         /\ o.outputs \subseteq {"json", "csv", "webhook"}
         /\ o.tui => ~o.progressURL /\ ~o.streamJSON /\ o.outputs = {}   \* hasOutputPath
    /\ {ProbeWorkers, PostEvery} \subseteq Nat \ {0}
    /\ MaxTicks \in Nat

Jobs == Hosts \X Ports
Total == Cardinality(Jobs)
VARIABLES
    options,             \* the command line: the monitors and the outputs of this run
    probed, found, reported, cancelled, done,   \* the port phase, as in PortScan
    main,                \* where run/scanNetwork is
    meta,                \* web ports whose entry in the report has HTTP metadata
    heard, discovery,    \* LAN discovery: addresses heard, "running" or "done"
    enriching,           \* stage of each host goroutine
    readyAt,             \* the readyHosts value each host goroutine saw
    hosts,               \* the report: rows [ip, ports], in order of completion
    ready,               \* webhookProgressMonitor.readyHosts
    total,               \* webhookProgressMonitor.totalHosts
    deep,                \* stage of each second-pass probe
    answered,            \* web ports whose second pass got an HTTP response
    tick, ticks, ticker, \* the value a tick has read (-1: none), their number, the goroutine
    tui,                 \* the TUI's phase and progress figure
    progress,            \* the figure last posted to the webhook (-1: none)
    posts, lines,        \* progress webhook events and NDJSON lines, in order
    written, failed      \* artifacts written, and whether one could not be

portVars   == <<probed, found, reported, cancelled, done>>
enrichVars == <<enriching, readyAt, hosts, ready, total>>
deepVars   == <<deep, answered>>
tickVars   == <<tick, ticks, ticker>>
discVars   == <<heard, discovery>>
showVars   == <<tui, progress>>
outVars    == <<written, failed>>
vars == <<options, portVars, main, meta, discVars, enrichVars, deepVars, tickVars, showVars, posts, lines, outVars>>

Port == INSTANCE PortScan
Lan == INSTANCE LanDiscovery

TUI == options.tui
ProgressURL == options.progressURL
StreamJSON == options.streamJSON
Outputs == options.outputs
ARPDead == options.arpDead
Monitored == TUI \/ ProgressURL \/ StreamJSON

(* Seeded fault: the monitor is wrapped even when it is the only one.      *)
FaultyHearsPortFound == FALSE

(* The type assertion `monitor.(interface{ PortFound(...) })`: the stream  *)
(* monitor has the method; multiScanMonitor, which wraps the webhook's and *)
(* the stream's, has not.                                                  *)
HearsPortFound == StreamJSON /\ ~ProgressURL

Event(name, ip) == [event |-> name, ip |-> ip]
NoIP == 0
(* The NDJSON lines of streamJSONMonitor.HostReady: one for each port, or  *)
(* one for a host without any.                                             *)
Updated(ip, ports) == [event |-> "target_updated", ip |-> ip, ports |-> ports]
Post(e) == posts' = IF ProgressURL THEN Append(posts, e) ELSE posts
Emit(e) == lines' = IF StreamJSON THEN Append(lines, e) ELSE lines

(* PortProgress(n, total) of the monitors: the TUI and the stream show     *)
(* every figure, the webhook may skip one below the total when it posted   *)
(* another less than five seconds ago.                                     *)
PortProgress(n) ==
    /\ tui' = [tui EXCEPT !.scanned = n]
    /\ \/ ProgressURL /\ progress' = n
       \/ ProgressURL /\ n < Total /\ progress >= 0 /\ UNCHANGED progress
       \/ ~ProgressURL /\ UNCHANGED progress

IPs(jobs) == {j[1] : j \in jobs}

(* Seeded faults: every open port is announced; the last host is not.      *)
FaultyNewToWebhook(ip) == TRUE
FaultyShouldPost(n) == n = 1 \/ n % PostEvery = 0

(* webhookProgressMonitor.openHosts has not seen the address.              *)
NewToWebhook(ip) == ip \notin IPs(reported)

(* shouldPost of the webhook's HostReady.                                  *)
ShouldPost(n) == n \in {1, total} \/ n % PostEvery = 0

PortsOf(ip) == {j[2] : j \in {k \in reported : k[1] = ip}}

Init ==
    /\ options \in CommandLines
    /\ Port!Init
    /\ main = "scanning"
    /\ meta = {}
    /\ Lan!Init
    /\ enriching = [ip \in Hosts |-> "none"]
    /\ readyAt = [ip \in Hosts |-> 0]
    /\ hosts = <<>> /\ ready = 0 /\ total = 0
    /\ deep = [j \in Jobs |-> "none"] /\ answered = {}
    /\ tick = -1 /\ ticks = 0 /\ ticker = "running"
    /\ tui = [phase |-> "scanning", scanned |-> 0]
    /\ progress = -1
    /\ posts = IF ProgressURL THEN <<Event("scan_started", NoIP)>> ELSE <<>>
    /\ lines = IF StreamJSON THEN <<Event("scan_started", NoIP)>> ELSE <<>>
    /\ written = {} /\ failed = FALSE

-----------------------------------------------------------------------------
(* The port phase.                                                         *)

(* scanPort ends; an open web port may or may not have answered HTTP in    *)
(* the short connect timeout.                                              *)
Probe(j) ==
    /\ \/ /\ j \in CanOpen /\ Port!ProbeOpen(j)
          /\ meta' \in {meta} \cup (IF j[2] \in WebPorts THEN {meta \cup {j}} ELSE {})
       \/ Port!ProbeClosed(j) /\ meta' = meta
    /\ UNCHANGED <<options, main, discVars, enrichVars, deepVars, tickVars, showVars, posts, lines, outVars>>

(* One turn of the collector's loop: byIP, PortOpen, PortFound.            *)
Collect(j) ==
    /\ main = "scanning"
    /\ Port!Report(j)
    /\ IF NewToWebhook(j[1]) THEN Post(Event("host_discovered", j[1]))
                             ELSE posts' = posts
    /\ IF HearsPortFound THEN Emit([event |-> "target_found", ip |-> j[1], port |-> j[2]])
                         ELSE lines' = lines
    /\ UNCHANGED <<options, main, meta, discVars, enrichVars, deepVars, tickVars, showVars, outVars>>

(* The loop ends: close(stopProgress), PortProgress(total, total).         *)
EndScan ==
    /\ main = "scanning"
    /\ Port!Finish
    /\ main' = "discovery"
    /\ ticker' = "stopping"
    /\ IF Monitored /\ Total > 0
       THEN PortProgress(Total)
       ELSE UNCHANGED showVars
    /\ UNCHANGED <<options, meta, discVars, enrichVars, deepVars, tick, ticks, posts, lines, outVars>>

(* The ticker goroutine: it reads `scanned` and hands the value to the     *)
(* monitors later; closing stopProgress does not wait for it.  Until the   *)
(* phase is done the counter trails the probes by the busy workers.        *)
TickRead ==
    /\ Monitored /\ Total > 0
    /\ ticker # "stopped" /\ tick = -1 /\ ticks < MaxTicks
    /\ tick' \in IF done THEN {Total} ELSE 0..Cardinality(probed)
    /\ ticks' = ticks + 1
    /\ UNCHANGED <<options, portVars, main, meta, discVars, enrichVars, deepVars, ticker, showVars,
                   posts, lines, outVars>>

TickDeliver ==
    /\ tick >= 0
    /\ PortProgress(tick)
    /\ tick' = -1
    /\ UNCHANGED <<options, portVars, main, meta, discVars, enrichVars, deepVars, ticks, ticker,
                   posts, lines, outVars>>

TickStop ==
    /\ ticker = "stopping" /\ tick = -1
    /\ ticker' = "stopped"
    /\ UNCHANGED <<options, portVars, main, meta, discVars, enrichVars, deepVars, tick, ticks, showVars,
                   posts, lines, outVars>>

(* The discovery goroutine ends, by its own deadlines or by Ctrl-C.        *)
DiscoveryEnds ==
    /\ Lan!End
    /\ UNCHANGED <<options, portVars, main, meta, enrichVars, deepVars, tickVars, showVars, posts, lines, outVars>>

-----------------------------------------------------------------------------
(* Enrichment.                                                             *)

(* Seeded faults: discovery is not merged; only hosts with ports count.    *)
FaultyToEnrich == IPs(reported) \cup (IF ARPDead THEN ARPHosts ELSE {})
FaultyHostTotal == Cardinality(IPs(reported))

(* byIP once discovery (and, on request, the ARP cache) has been merged.   *)
ToEnrich == IPs(reported) \cup heard \cup (IF ARPDead THEN ARPHosts ELSE {})

(* len(ips), as EnrichStart hands it to the monitors.                      *)
HostTotal == Cardinality(ToEnrich)

(* discoveryWg.Wait, the merges, EnrichStart and the go statements.        *)
StartEnrich ==
    /\ main = "discovery"
    /\ discovery = "done"
    /\ main' = "enriching"
    /\ enriching' = [ip \in Hosts |-> IF ip \in ToEnrich THEN "running" ELSE "none"]
    /\ total' = HostTotal
    /\ ready' = 0
    /\ tui' = [tui EXCEPT !.phase = "enriching"]
    /\ Post(Event("enrichment_started", NoIP))
    /\ Emit(Event("enriching", NoIP))
    /\ UNCHANGED <<options, portVars, meta, discVars, readyAt, hosts, deepVars, tickVars, progress,
                   outVars>>

(* enrichHost returns: hosts = append(hosts, host), and the critical       *)
(* section at the start of the webhook's HostReady.                        *)
HostEnriched(ip) ==
    /\ enriching[ip] = "running"
    /\ hosts' = Append(hosts, [ip |-> ip, ports |-> PortsOf(ip)])
    /\ ready' = ready + 1
    /\ readyAt' = [readyAt EXCEPT ![ip] = ready + 1]
    /\ enriching' = [enriching EXCEPT ![ip] = "announcing"]
    /\ UNCHANGED <<options, portVars, main, meta, discVars, total, deepVars, tickVars, showVars,
                   posts, lines, outVars>>

(* The rest of HostReady (the first, every fifth and the last host are     *)
(* posted), then the deferred hostWorkers.Done().                          *)
HostAnnounced(ip) ==
    /\ enriching[ip] = "announcing"
    /\ IF ShouldPost(readyAt[ip])
       THEN Post([event |-> "enrichment_progress", ip |-> ip, ready |-> readyAt[ip]])
       ELSE posts' = posts
    /\ Emit(Updated(ip, PortsOf(ip)))
    /\ enriching' = [enriching EXCEPT ![ip] = "done"]
    /\ UNCHANGED <<options, portVars, main, meta, discVars, readyAt, hosts, ready, total, deepVars,
                   tickVars, showVars, outVars>>

-----------------------------------------------------------------------------
(* The second HTTP pass.                                                   *)

NeedsProbe == {j \in reported : j[2] \in WebPorts /\ j \notin meta}

(* Seeded faults: no slot is given back; work() always runs beside run().  *)
FaultySpawned == {j \in Jobs : deep[j] \in {"running", "done"}}
FaultySynchronous == FALSE

(* The slots of `sem` in use.                                              *)
Spawned == {j \in Jobs : deep[j] = "running"}

(* work() is called, not started with `go`.                                *)
Synchronous == ~Monitored

(* hostWorkers.Wait, the sort and runDeepHTTPProbe up to its choice: `go   *)
(* work()` with a monitor, work() without.                                 *)
StartDeep ==
    /\ main = "enriching"
    /\ \A ip \in Hosts : enriching[ip] \in {"none", "done"}
    /\ IF cancelled \/ NeedsProbe = {}
       THEN main' = "finishTUI" /\ UNCHANGED deep
       ELSE /\ main' = IF Synchronous THEN "deep" ELSE "finishTUI"
            /\ deep' = [j \in Jobs |-> IF j \in NeedsProbe THEN "queued" ELSE "none"]
    /\ UNCHANGED <<options, portVars, meta, discVars, enrichVars, answered, tickVars, showVars,
                   posts, lines, outVars>>

(* sem <- struct{}{} and the go statement.                                 *)
DeepSpawn(j) ==
    /\ deep[j] = "queued"
    /\ ~cancelled
    /\ Cardinality(Spawned) < ProbeWorkers
    /\ deep' = [deep EXCEPT ![j] = "running"]
    /\ UNCHANGED <<options, portVars, main, meta, discVars, enrichVars, answered, tickVars, showVars,
                   posts, lines, outVars>>

(* The loop breaks when the context is cancelled (a job that waits for a   *)
(* slot at that moment is still started, and fails at once).               *)
DeepBreak ==
    /\ cancelled
    /\ \E j \in Jobs : deep[j] = "queued"
    /\ deep' = [j \in Jobs |-> IF deep[j] = "queued" THEN "none" ELSE deep[j]]
    /\ UNCHANGED <<options, portVars, main, meta, discVars, enrichVars, answered, tickVars, showVars,
                   posts, lines, outVars>>

(* A response: HTTPRefresh to the monitors, or the report is filled in.    *)
DeepAnswer(j) ==
    /\ deep[j] = "running"
    /\ answered' = answered \cup {j}
    /\ IF Monitored
       THEN /\ Post(Event("http_probe_complete", j[1]))
            /\ Emit(Updated(j[1], {j[2]}))
            /\ meta' = meta
       ELSE /\ meta' = meta \cup {j}
            /\ UNCHANGED <<posts, lines>>
    /\ deep' = [deep EXCEPT ![j] = "done"]
    /\ UNCHANGED <<options, portVars, main, discVars, enrichVars, tickVars, showVars, outVars>>

DeepFail(j) ==
    /\ deep[j] = "running"
    /\ deep' = [deep EXCEPT ![j] = "done"]
    /\ UNCHANGED <<options, portVars, main, meta, discVars, enrichVars, answered, tickVars, showVars,
                   posts, lines, outVars>>

(* wg.Wait() of a synchronous second pass.                                 *)
EndDeep ==
    /\ main = "deep"
    /\ \A j \in Jobs : deep[j] \in {"none", "done"}
    /\ main' = "finishTUI"
    /\ UNCHANGED <<options, portVars, meta, discVars, enrichVars, deepVars, tickVars, showVars,
                   posts, lines, outVars>>

-----------------------------------------------------------------------------
(* The end of run: the monitors' Finish, then the artifacts in order.      *)

FinishTUI ==
    /\ main = "finishTUI"
    /\ main' = "finishWebhook"
    /\ tui' = IF TUI THEN [tui EXCEPT !.phase = "watch"] ELSE tui
    /\ UNCHANGED <<options, portVars, meta, discVars, enrichVars, deepVars, tickVars, progress,
                   posts, lines, outVars>>

FinishWebhook ==
    /\ main = "finishWebhook"
    /\ main' = "finishStream"
    /\ Post(Event(IF cancelled THEN "scan_cancelled" ELSE "scan_completed", NoIP))
    /\ UNCHANGED <<options, portVars, meta, discVars, enrichVars, deepVars, tickVars, showVars, lines, outVars>>

FinishStream ==
    /\ main = "finishStream"
    /\ main' = "json"
    /\ Emit(Event(IF cancelled THEN "scan_failed" ELSE "scan_completed", NoIP))
    /\ UNCHANGED <<options, portVars, meta, discVars, enrichVars, deepVars, tickVars, showVars, posts, outVars>>

After(output) == CASE output = "json" -> "csv" [] output = "csv" -> "webhook"
                   [] output = "webhook" -> IF TUI THEN "waitExit" ELSE "exit"

(* writeArtifacts: each requested output in turn; an error ends the run.   *)
WriteArtifact ==
    /\ main \in {"json", "csv", "webhook"}
    /\ \/ /\ main \notin Outputs
          /\ main' = After(main)
          /\ UNCHANGED outVars
       \/ /\ main \in Outputs
          /\ main' = After(main)
          /\ written' = written \cup {main}
          /\ UNCHANGED failed
       \/ /\ main \in Outputs
          /\ main' = "exit"
          /\ failed' = TRUE
          /\ UNCHANGED written
    /\ UNCHANGED <<options, portVars, meta, discVars, enrichVars, deepVars, tickVars, showVars, posts, lines>>

(* Ctrl-C.                                                                 *)
Cancel ==
    /\ Port!Cancel
    /\ UNCHANGED <<options, main, meta, discVars, enrichVars, deepVars, tickVars, showVars, posts, lines, outVars>>

(* The process has ended, or the TUI waits for its user.                   *)
Ended == main \in {"exit", "waitExit"} /\ UNCHANGED vars

Main ==
    \/ (\E j \in Jobs : Collect(j)) \/ EndScan \/ StartEnrich \/ StartDeep \/ EndDeep
    \/ FinishTUI \/ FinishWebhook \/ FinishStream \/ WriteArtifact
Ticker == TickRead \/ TickDeliver \/ TickStop
Host(ip) == HostEnriched(ip) \/ HostAnnounced(ip)
Deep == DeepBreak \/ \E j \in Jobs : DeepSpawn(j) \/ DeepAnswer(j) \/ DeepFail(j)

(* When main returns the process ends, and the other goroutines with it.   *)
Next ==
    \/ /\ main # "exit"
       /\ \/ Main \/ Ticker \/ Deep \/ DiscoveryEnds \/ Cancel
          \/ \E j \in Jobs : Probe(j)
          \/ \E ip \in Hosts : Host(ip)
    \/ Ended

Spec == Init /\ [][Next]_vars

(* Every goroutine runs, and every dial, query, POST and discovery ends by *)
(* a timeout.                                                              *)
Fairness ==
    /\ WF_vars(Main) /\ WF_vars(Deep /\ main # "exit") /\ WF_vars(DiscoveryEnds)
    /\ \A j \in Jobs : WF_vars(Probe(j))
    /\ \A ip \in Hosts : WF_vars(Host(ip))

FairSpec == Spec /\ Fairness

-----------------------------------------------------------------------------
(* Properties.                                                             *)

Stages == {"scanning", "discovery", "enriching", "deep", "finishTUI", "finishWebhook",
           "finishStream", "json", "csv", "webhook", "waitExit", "exit"}

PlainEvents == {"scan_started", "host_discovered", "enrichment_started", "http_probe_complete",
                "enriching", "scan_completed", "scan_cancelled", "scan_failed"}
PostEvents ==
    [event : PlainEvents, ip : Hosts \cup {NoIP}] \cup
    [event : {"enrichment_progress"}, ip : Hosts, ready : Nat]
LineEvents ==
    [event : PlainEvents, ip : Hosts \cup {NoIP}] \cup
    [event : {"target_found"}, ip : Hosts, port : Ports] \cup
    [event : {"target_updated"}, ip : Hosts, ports : SUBSET Ports]

TypeOK ==
    /\ Port!TypeOK
    /\ options \in CommandLines
    /\ main \in Stages
    /\ meta \subseteq found /\ answered \subseteq found
    /\ Lan!TypeOK
    /\ enriching \in [Hosts -> {"none", "running", "announcing", "done"}]
    /\ ready \in 0..total /\ total \in 0..Cardinality(Hosts)
    /\ readyAt \in [Hosts -> 0..total]
    /\ hosts \in Seq([ip : Hosts, ports : SUBSET Ports])
    /\ deep \in [Jobs -> {"none", "queued", "running", "done"}]
    /\ tick \in -1..Total /\ ticks \in 0..MaxTicks
    /\ ticker \in {"running", "stopping", "stopped"}
    /\ tui \in [phase : {"scanning", "enriching", "watch"}, scanned : 0..Total]
    /\ progress \in -1..Total
    /\ posts \in Seq(PostEvents) /\ lines \in Seq(LineEvents)
    /\ written \subseteq Outputs /\ failed \in BOOLEAN

Enriched == main \notin {"scanning", "discovery", "enriching"}

(* The report has one row for every address with an open port, heard by    *)
(* discovery or (on request) in the ARP cache, with all its ports.         *)
RowsComplete ==
    Enriched =>
        /\ {hosts[i].ip : i \in DOMAIN hosts} =
               IPs(found) \cup heard \cup (IF ARPDead THEN ARPHosts ELSE {})
        /\ \A i, k \in DOMAIN hosts : hosts[i].ip = hosts[k].ip => i = k
        /\ \A i \in DOMAIN hosts : hosts[i].ports = {j[2] : j \in {k \in found : k[1] = hosts[i].ip}}

AtOutput == main \in {"json", "csv", "webhook", "exit"}
SecondPassIn == answered \subseteq meta /\ \A j \in Jobs : deep[j] \in {"none", "done"}

(* Once the host goroutines have ended the report has every row and port   *)
(* found, whatever was cancelled ("partial artifacts are still written");  *)
(* without a monitor what is written also has the metadata of every        *)
(* second-pass response, and no probe is still out to change it meanwhile. *)
ReportComplete == RowsComplete /\ (~Monitored /\ AtOutput => SecondPassIn)

Posted(name) == {i \in DOMAIN posts : posts[i].event = name}

(* The progress webhook hears of each responsive address exactly once,     *)
(* before enrichment starts, however many of its ports are open.           *)
HostDiscoveredOnce ==
    ProgressURL =>
        \A started \in Posted("enrichment_started") :
            \A ip \in Hosts :
                Cardinality({i \in Posted("host_discovered") : posts[i].ip = ip /\ i < started})
                    = IF ip \in IPs(found) THEN 1 ELSE 0

(* The figures the webhook posts, and the posts of them before another.    *)
Figures == {n \in 1..total : ShouldPost(n)} \cup ({total} \ {0})
FiguresBefore(last) == {i \in Posted("enrichment_progress") : i < last}

(* When the terminal event is posted the webhook has had each figure it    *)
(* posts exactly once, "total of total" last to be counted and not lost,   *)
(* although the host goroutines count under the lock and post outside it.  *)
EnrichmentCountsUp ==
    \A last \in Posted("scan_completed") \cup Posted("scan_cancelled") :
        /\ {posts[i].ready : i \in FiguresBefore(last)} = Figures
        /\ Cardinality(FiguresBefore(last)) = Cardinality(Figures)

(* The reader of --stream-json learns of every open port and of every host *)
(* of the report before the terminal line, completed or failed.  With a    *)
(* progress webhook beside it the line of each single port is missing,     *)
(* those of the hosts are not.                                             *)
StreamCoversReport ==
    \A last \in DOMAIN lines :
        lines[last].event \in {"scan_completed", "scan_failed"} =>
            /\ ~ProgressURL => \A j \in found : \E i \in 1..last :
                   lines[i] = [event |-> "target_found", ip |-> j[1], port |-> j[2]]
            /\ \A k \in DOMAIN hosts : \E i \in 1..last :
                   lines[i] = Updated(hosts[k].ip, hosts[k].ports)

(* The parts of the inductive invariant.  The port phase is over when the  *)
(* collector has left its loop; nothing opens or is reported after it.     *)
PortPhaseOver == main # "scanning" => done /\ probed = Jobs /\ reported = found

(* The host goroutines are those of ToEnrich, which does not change any    *)
(* more, and have ended when hostWorkers.Wait has returned.                *)
HostsInStep ==
    /\ main \in {"scanning", "discovery"} => total = 0 /\ \A ip \in Hosts : enriching[ip] = "none"
    /\ main \notin {"scanning", "discovery"} =>
          /\ discovery = "done" /\ total = HostTotal
          /\ \A ip \in Hosts : enriching[ip] # "none" <=> ip \in ToEnrich
    /\ Enriched => \A ip \in Hosts : enriching[ip] \in {"none", "done"}

Counted == {ip \in Hosts : enriching[ip] \in {"announcing", "done"}}

(* The figures the host goroutines saw are 1, 2, ..., ready, once each.    *)
ReadyCounts ==
    /\ ready = Cardinality(Counted)
    /\ \A ip \in Counted : readyAt[ip] \in 1..ready
    /\ \A ip, jp \in Counted : readyAt[ip] = readyAt[jp] => ip = jp
    /\ \A n \in 1..ready : \E ip \in Counted : readyAt[ip] = n

(* One row for each host that was counted, with the ports reported.        *)
RowsAreCounted ==
    /\ {hosts[i].ip : i \in DOMAIN hosts} = Counted
    /\ \A i, k \in DOMAIN hosts : hosts[i].ip = hosts[k].ip => i = k
    /\ \A i \in DOMAIN hosts : hosts[i].ports = PortsOf(hosts[i].ip)

SecondPassInStep ==
    /\ \A j \in Jobs : deep[j] # "none" => j \in found
    /\ ~Monitored => /\ answered \subseteq meta
                     /\ main # "deep" => \A j \in Jobs : deep[j] \in {"none", "done"}

(* The events that open and close a phase come in their turn.              *)
PostsInOrder ==
    /\ Posted("enrichment_started") # {} => main \notin {"scanning", "discovery"}
    /\ Posted("scan_completed") \cup Posted("scan_cancelled") # {} =>
          main \in {"finishStream", "json", "csv", "webhook", "waitExit", "exit"}

DiscoveredPosted ==
    ProgressURL =>
        /\ {posts[i].ip : i \in Posted("host_discovered")} = IPs(reported)
        /\ \A i, k \in Posted("host_discovered") : posts[i].ip = posts[k].ip => i = k
        /\ \A s \in Posted("enrichment_started"), i \in Posted("host_discovered") : i < s

FiguresPosted ==
    /\ \A i \in Posted("enrichment_progress") :
          /\ posts[i].ip \in Hosts /\ enriching[posts[i].ip] = "done"
          /\ posts[i].ready = readyAt[posts[i].ip] /\ ShouldPost(posts[i].ready)
    /\ \A i, k \in Posted("enrichment_progress") : posts[i].ip = posts[k].ip => i = k
    /\ ProgressURL =>
          \A ip \in Hosts : enriching[ip] = "done" /\ ShouldPost(readyAt[ip]) =>
             \E i \in Posted("enrichment_progress") : posts[i].ip = ip

LinesInOrder ==
    /\ \A i \in DOMAIN lines : lines[i].event \in {"scan_completed", "scan_failed"} =>
          main \in {"json", "csv", "webhook", "waitExit", "exit"}
    /\ HearsPortFound => \A j \in reported : \E i \in DOMAIN lines :
          lines[i] = [event |-> "target_found", ip |-> j[1], port |-> j[2]]
    /\ StreamJSON => \A k \in DOMAIN hosts : enriching[hosts[k].ip] = "done" =>
          \E i \in DOMAIN lines : lines[i] = Updated(hosts[k].ip, hosts[k].ports)

(* What the monitors say of the run's end.                                 *)
TerminalPosts == Posted("scan_completed") \cup Posted("scan_cancelled")
LinesOf(name) == {i \in DOMAIN lines : lines[i].event = name}
TerminalLines == LinesOf("scan_completed") \cup LinesOf("scan_failed")

(* Each monitor is told once, at its Finish, how the run ended, and told   *)
(* of an interruption only after one.  The two ask ctx.Err() one after the *)
(* other, so a Ctrl-C in between makes the webhook hear of a completed run *)
(* and the stream of a failed one, never the other way round.              *)
VerdictsAgree ==
    /\ \A i, k \in TerminalPosts : i = k
    /\ \A i, k \in TerminalLines : i = k
    /\ ProgressURL =>
          (TerminalPosts # {} <=>
              main \in {"finishStream", "json", "csv", "webhook", "waitExit", "exit"})
    /\ StreamJSON =>
          (TerminalLines # {} <=> main \in {"json", "csv", "webhook", "waitExit", "exit"})
    /\ Posted("scan_cancelled") # {} \/ LinesOf("scan_failed") # {} => cancelled
    /\ Posted("scan_cancelled") # {} => LinesOf("scan_completed") = {}

(* sem: no more second-pass probes are out at a time than it has slots.    *)
SlotsRespected == Cardinality(Spawned) <= ProbeWorkers

(* The phase that sends an event, for the webhook and for the stream, and  *)
(* the phase the run has come to.                                          *)
PostPhase == [scan_started |-> 0, host_discovered |-> 1, enrichment_started |-> 2,
              enrichment_progress |-> 3, http_probe_complete |-> 4,
              scan_completed |-> 4, scan_cancelled |-> 4]
LinePhase == [scan_started |-> 0, target_found |-> 1, enriching |-> 2, target_updated |-> 3,
              scan_completed |-> 3, scan_failed |-> 3]
PhaseNow == IF main \in {"scanning", "discovery"} THEN 1 ELSE IF main = "enriching" THEN 3 ELSE 4

InTurn(events, phase) ==
    /\ \A i \in DOMAIN events : events[i].event \in DOMAIN phase
    /\ \A i, k \in DOMAIN events : i < k => phase[events[i].event] <= phase[events[k].event]

(* A consumer of either monitor never hears of an earlier phase again:     *)
(* addresses, then the start of the enrichment, then its figures or hosts, *)
(* then the second pass, which alone may go on after the terminal event.   *)
EventsInPhases ==
    /\ InTurn(posts, PostPhase) /\ InTurn(lines, LinePhase)
    /\ \A i \in DOMAIN posts : PostPhase[posts[i].event] <= PhaseNow
    /\ \A i \in DOMAIN lines : LinePhase[lines[i].event] <= PhaseNow
    /\ \A j \in Jobs : deep[j] # "none" => Enriched

RunInv ==
    /\ TypeOK /\ PortPhaseOver /\ HostsInStep /\ ReadyCounts /\ RowsAreCounted
    /\ SecondPassInStep /\ PostsInOrder /\ DiscoveredPosted /\ FiguresPosted
    /\ EnrichmentCountsUp /\ LinesInOrder /\ StreamCoversReport
    /\ VerdictsAgree /\ SlotsRespected /\ EventsInPhases

(* Every run ends, interrupted or not: by an error of an output, or with   *)
(* every output asked for.                                                 *)
RunEnds == <>(main \in {"exit", "waitExit"} /\ (failed \/ written = Outputs))

(* runDeepHTTPProbe's call in scanNetwork: "Synchronous when there is no   *)
(* TUI so console/JSON/CSV/webhook output carries the richer metadata".    *)
(* The code decides by the monitor, and a progress webhook is one too.     *)
SecondPassInReport == ~TUI /\ AtOutput => SecondPassIn
=============================================================================
