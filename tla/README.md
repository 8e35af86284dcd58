# Verification of ipscry

ipscry (Go, package `main` under `src/`) scans IPv4 networks for open TCP ports,
enriches the hosts it finds, reports them, and in its TUI goes on watching them.
This directory holds TLA+ models of the parts of it that are concurrent or have
awkward limits, the TLC runs that check them, and proofs of every safety property
that a passing run checks, for all values of the constants.

Check a run with `tlc -config <cfg> <module>`, the proofs of a module with `tlapm
<module>Proofs.tla`. `PROJECT.json` lists components, runs, seeded faults,
findings, hazards and theorems, and maps every definition to its source lines.

## 1. The system

| Component | State | Operations | Talks to |
|---|---|---|---|
| Port pipeline: feeder, worker pool, collector in `scanNetwork` (main.go:961-1049) | channels `jobs`, `results`; `scanned`; `byIP` | send, receive, `scanPort`, close, collect, Ctrl-C | monitors (`PortOpen`, `PortFound`, `PortProgress`) |
| Scan run: `run`, rest of `scanNetwork`, `runDeepHTTPProbe`, `writeArtifacts` | `hosts`, the ticker, the discovery WaitGroup, one goroutine per host, the second pass's semaphore | discover, enrich, second pass, `Finish`, outputs in order | all the others |
| Progress webhook (main.go:2164-2338) | `openHosts`, `readyHosts`, `totalHosts` | one method per event | HTTP POST |
| Stream monitor (stream_json.go) | the output's lock | one NDJSON line per event | stdout |
| `multiScanMonitor` (main.go:2114) | the monitors it wraps | fan-out | monitors |
| TUI table (tui.go, `scanTUI`) | `hosts`, `pingStats`, `phase`, `rescanning`, toggles, `pendingDiscover`, all under `t.mu` | 5 s sweep, 1 s fast probe, discovery goroutines, rescans, keys | pings, ARP, `scanNetwork`, `enrichHost` |
| Page information (`HTTPRefresh`, `exportResults`) | the `OpenPorts` slices rows, reports and snapshots share | second-pass responses, exports | files |
| Command line, ports, targets | `scanConfig`, `ips`, `ipChunks`, `pingChunk` | parse, confirm, expand, take turns | stdin |
| Keys, scrolling, drawing (`WaitExit`, `readKey`, `lineCommand`, `scroll`, `draw`) | the channel `keys`, `scrollOff`, terminal modes | decode, dispatch, clamp, cut the window out of the rows | terminal, TUI table |
| LAN discovery (discovery, ssdp, mdns, llmnr, wsd) | a map of hits per protocol, one per target, one per scan | query, collect until a deadline, merge, fetch UPnP descriptions | UDP, HTTP |
| Enrichment (NBNS, SMB, SNMP, DNS, vendor, guess) | none | queries with timeouts | network |
| Ping, ARP, MAC | none | platform calls | operating system |
| Outputs and formats | none | JSON, CSV, tables | files, HTTP |
| Port catalog | a table read at start | lookup | embedded data |

What is hard in it:

* **The pipeline.** Two bounded channels in a ring, closed by a goroutine that is
  neither the senders nor the receiver of one of them.
* **Long gaps.** Sweep, fast probe, discovery goroutine and rescan copy state
  under the lock, ping or scan for seconds without it, then write what they
  concluded about a table the others have changed.
* **Passes that outlive their scan.** With a monitor the second HTTP pass runs in
  the background, beside `Finish`, the outputs and the next scan.
* **Shared slices.** Copies of rows share their `OpenPorts`.
* **Readers nobody waits for.** Each discovery protocol has a reader that goes on with
  the datagram it holds after the socket is closed and its map is being merged;
  datagrams come from anybody and name anybody.
* **Keys of several bytes**, each of which the reader may have to wait for, and a scroll
  offset that outlives the rows and the lines it was computed from.
* **Ctrl-C** in every phase, with everything found so far still to be reported.
* **Limits.** Networks of one and two addresses, the end of the address space,
  a shorter last chunk, a latency of 0 ms, counters at `tuiDeadAfterMisses`.

Correctness, component by component: the pipeline loses and duplicates nothing,
does not panic and ends; the run's report and streams are complete whatever was
interrupted, and it ends; the table has one row per address, keeps what it has
evidence for, counts misses within their limit, and shows hosts that left as dead;
pages are neither lost nor replaced by older ones; the scan covers what was asked
for, once, and so do the sweeps, in turn; discovery ends by its deadlines, keeps what
it heard in time and adds nobody outside the targets; each key is one command, quitting
works, and the window stays within the rows and moves by what the key says.

## 2. The modules

| Module | Of | Composition |
|---|---|---|
| `PortScan` | what the port phase promises | abstract specification |
| `ScanPipeline` | the goroutines and channels that do it | refines `PortScan` (`Contract`) |
| `LanDiscovery` | what LAN discovery promises the scan that waits for it | abstract specification |
| `Discovery`, `MCDiscovery` | its goroutines, readers, maps and deadlines | refines `LanDiscovery` (`ImplementsLAN`) |
| `ScanRun`, `MCScanRun` | everything from `Start` to the exit | instance of `PortScan` (`Port`) and of `LanDiscovery` (`Lan`) |
| `WatchTable`, `MCWatchTable` | the TUI table after `Finish` | on its own |
| `PageInfo` | the shared slices | on its own |
| `Viewer`, `MCViewer` | keyboard, channel, scroll window after `Finish` | on its own; the keys' effects on the table are in `WatchTable` |
| `Targets`, `MCTargets` | addresses, ports, chunks | on its own; establishes that jobs are distinct, which `PortScan` assumes |
| `ScanPipelineProofs`, `DiscoveryProofs`, `ScanRunProofs`, `WatchTableProofs`, `PageInfoProofs`, `ViewerProofs`, `TargetsProofs` | the theorems of section 4 | each extends the module of its name |

The chain is: `Targets` shows the job list has no repetition; `ScanPipeline` shows
such a list goes through the channels as `PortScan` says; `Discovery` shows that the
sockets and readers end with addresses of the targets only, as `LanDiscovery` says;
`ScanRun` uses only the two contracts and adds what surrounds them.

**ScanPipeline.** `feeder` is the goroutine at main.go:988, `wpc[w]` the place of a
worker in its loop (`idle` at the receive, `dialing` in `scanPort`, `holding` at the
send, `counting` before `scanned.Add`), `results` the channel. The jobs channel has
one sender and is FIFO, so it is the interval `taken+1..fed`. Its capacity is twice
the workers, that of `results` their number, as in the code.

**ScanRun.** `main` is the program counter of `run` and `scanNetwork`. Beside it are the
ticker (read, then deliver: closing `stopProgress` does not wait for a tick under way),
the discovery goroutine, `enriching[ip]` for each host goroutine (the count under the
lock and the post outside it are separate steps), and `deep[j]` for each probe of the
second pass. `posts` and `lines` are the events emitted, `progress` and `tui.scanned` the
latest progress figure of the webhook, which may skip one within five seconds of another,
and of the TUI and the stream. Which ports may be open is a constant (`CanOpen`). When `main` is `exit` the
other goroutines stop with the process. The allowed option combinations (a TUI excludes
outputs) are the assumption on `CommandLines`.

**Discovery.** `main` and `target` are the goroutine of `scanNetwork` that calls
`runLANDiscovery` for each target; `proto[c]` is the goroutine of one protocol for one
target (`starting` at the listen, `listening` until the deadline, `returned` with its map,
`merged`), `reader[c]` its reader, `got[c]` the map they share. An insertion has a
beginning and an end: a merge between them finds any part of the entry, or the runtime
stops the process (`crashed`), which is what Go leaves open. `expired` is the end of
`dctx`; `fetch[ip]` are the goroutines of `fetchUPnPDescriptions`. A hit is a set of facts
(address, protocol, whether it gave more than the address), so merging is a union. `noted`
is history: what the handlers had stored while their socket was open.

**Viewer.** What is typed is a sequence of bytes, or of lines on unix, where
`enableRawMode` does nothing. `reader` is the place of the reader goroutine in `readKey`
and `parseEscape`, or at the send; `keys` the channel; `TopRow` and `Shown` the slice of the
rows that `draw` shows. Rows and lines of the terminal change at any moment. `pressed`,
`starts`, `read`, `handled` and `settled` are history: the keys, where in the input each
begins, how far it has been read, what has come out. A keyboard is a set of keys, each with
its bytes and the commands it stands for in raw and in line mode; `KeyboardAssumption` says
which bytes and commands: a plain character; Esc alone; a character sent with an Esc before it;
`ESC [` or `ESC O` with a final byte, or with a digit and what follows up to `~` or a letter.
In raw mode the reader takes the byte after Esc alone for the rest of a sequence, as the code
does, so from there on `OneCommandPerKey` promises nothing; `QuitAnswered` still does, for a
quit key that does not directly follow Esc.

**WatchTable.** One action per critical section. `sweep`, `fast`, `disc[ip]` and `scan`
are the goroutines with the copies they work from; between two sections of one of them
all the others may act. `misses[ip]` is `pingStats[ip].misses`. A rescan's monitor
callbacks (`PortOpen`, `EnrichStart`, `HostReady`) are actions of their own, because the
sweep that started before the rescan still applies its results between them. What pings,
port scans and enrichment return is chosen freely within the sets a constant allows
(`CanOpen`, `ARPHosts`, `MACHosts`, `Discoverable`; `CanMiss` for pings without a reply, `Near`
for replies in 0 ms); a host in `gone`, which only those of `CanLeave` enter, returns nothing.

**PageInfo.** Slices are objects named by the scan and address that allocated them; rows,
reports and exports hold names. An entry is the scan whose response filled it. The export
copies the rows under the lock and reads the slices one row at a time without it. A sweep
under way when a rescan begins may start the discovery of an address during it.

**Targets.** The arithmetic of `expandCIDR`, `incIP`, `ipInTarget`, `splitIPChunks` on
addresses of `Bits` bits with wrap-around, `parsePorts` on parsed parts, the TUI's size
check with its question, and the turns of `runPingTick`. The loops of `parsePorts` and of
`run` are taken turn by turn: `pc`, `k`, `part` and `at` say where they are. The prefix
limits and the chunk size are constants, and so is the table `Sizes` of network sizes,
which its assumption determines (half the size for each more bit of the prefix). The empty list of parts stands for input that has only separators
(an empty argument means the default ports and does not reach the loop).

## 3. The runs

| Run | Instance | Shows |
|---|---|---|
| `ScanPipeline` | 7 jobs, 2 workers | refinement of `PortScan`, no send on a closed channel, exact counter, no duplicate, never everybody waiting, no step for nothing, termination |
| `WatchTable_safety` | 2 hosts, 1 rescan, keys `r`, `a` | one row per host, misses bounded, no statistics without a row, dead rows without latency, evidence kept, order kept |
| `WatchTable_liveness` | 2 hosts of which one may leave, 1 rescan, 1 discovery slot, keys `r`, `s`, `p` | rescans end, discoveries end, gone hosts go dead |
| `ScanRun_report` | 2 hosts, 2 web ports, five kinds of command line | report (with its second pass) and stream complete, webhook events exactly once and counting up, monitors told in the order of the phases and alike of the end, slots of the second pass respected, the run ends |
| `Discovery` | 3 targets, 2 protocols, 3 addresses | refinement of `LanDiscovery`, nothing heard in time is lost, discovery and its readers end |
| `Viewer` | 3 keys of 6 kinds, up to 3 rows, 8 or 9 lines | a command per key until Esc alone is pressed, quitting answered, the window within the rows and moved by what the key says |
| `PageInfo` | 2 hosts, 2 scans, 1 export | pages kept, never clobbered, exports consistent, probes end |
| `Targets` | 5-bit addresses, 72 target lists, 5 port lists | the right addresses once and, in the TUI, confirmed when large, LAN additions within the scan, fair turns |
| `WatchTable_escalation`, `WatchTable_arptoggle`, `ScanRun_background`, `Discovery_upnp` | the smallest that shows it | each refutes one statement of the repository (section 5) |

Each run of a module with proofs has the inductive invariant of the proofs (section 4)
among its invariants, in place of the type invariant, which is its first part: `PipelineInv`,
`DiscoveryInv`, `RunInv`, `WatchInv`, `PageInv`, `ViewInv`, `TargetsInv`. Properties that are
conjuncts of one of them (`NeverAllWaiting`, `VerdictsAgree`, `EventsInPhases`,
`SlotsRespected`, `DeadShowsNoLatency`) are checked with it.

Why these bounds are enough:

* `ScanPipeline`: the channels have capacities 4 and 2, and each is filled and drained. Seven
  jobs are the least that make the feeder block while both workers are busy. That it blocks
  while both wait to send as well takes nine (two results in the channel, one held by each
  worker, four jobs queued and one in hand); the run ends without error with nine too, but
  needs most of five minutes. A third worker adds no new kind of wait. The theorems,
  `NeverAllWaiting` among them, need no bound.
* `WatchTable`: every property is about one row or a pair of rows. In the safety run host 1 can
  have ports, host 2 is known by ARP and discovery only, so each kind of row meets each goroutine.
  `DeadAfter = 2` is the smallest limit with a suspect state below it. Only host 1 misses
  pings, so only it goes suspect and dead; the theorems cover any number that do. In the liveness
  run it may also leave, and reply in 0 ms, and its entry in the ARP cache makes every rescan
  and every discovery show it alive again (open ports would do the same, in three times as
  many states); host 2 is there to be discovered, rejected and removed, and to compete for
  the slot: one discovery worker makes goroutines queue. `MaxRescans = 1` bounds the only action a user can
  repeat for ever with new results; sweeps and probes are not bounded.
* `ScanRun`: one probe slot makes the second pass queue on the two web ports of host 1;
  host 2 is known by discovery only, host 1 by ARP when its ports are closed, so each way into
  the report is taken. Every order in which the two get ready is there, and with one or
  two hosts a first and a last webhook figure (`PostEvery = 3` keeps the every-n-th from
  covering for them). One tick suffices to be late. The command lines are the TUI, the
  plain console with all outputs, each monitor by itself, and both (`multiScanMonitor`).
* `Discovery`: a target, one on another segment, which is skipped, and half of the first
  once more, so that a later target meets what an earlier one found. One fetch slot and two
  devices make a fetch queue. Device 3 is outside every target and named by others. Each
  call gets at most two different datagrams, received any number of times. LLMNR and
  WS-Discovery differ from the two protocols of this run in their handlers only; they are
  enabled in `Discovery_upnp`.
* `Viewer`: three keys show each kind of sequence followed by each, and Esc alone, the key it
  damages and a quit key after that; a channel of one place
  makes the reader block at the send, in both modes. With 8 and 9 lines one or two rows
  fit (`tuiMaxHostRows`), and three rows leave an offset to clamp in both.
* `PageInfo`: two scans are the least whose passes overlap; three would only repeat it.
* `Targets`: the networks are of every length from one address to all of them, at the start and at the end
  of the address space (where `incIP` wraps), alone, equal and nested; three
  addresses to a chunk gives one, many, full and short last chunks.

Deadlock is checked in every run; the places where the program may stop are stutter
actions with a guard (`Terminated`, `Ended`, `Waiting`).

### Fairness

Weak fairness per goroutine: a goroutine that can run is scheduled in the end. Probes,
pings, queries and POSTs end because each has a timeout (`DialTimeout`, `http-timeout`,
`discovery-timeout`, contexts); the tickers of the watch phase fire for ever. Nothing is
assumed of the user, of Ctrl-C or of hosts. Channel sends need only weak fairness because
nobody can disable a blocked sender once there is room; the semaphore of the discovery
goroutines has many senders, which Go serves in the order they came, so acquiring it
(`DiscoverAcquire`) is strongly fair. `GoneHostGoesDead` assumes that auto-ping
stays on in the end (`<>[]autoPing`), and each wait of it ends with the row dead or removed, or with a
rescan: one that comes later can break it, as `EscalationEndsDead` shows. Rescans
that have ended are not excluded, and the wait starts anew after each. `Discovery` assumes its goroutines and
the timer of `dctx`; `Viewer` only its reader and main goroutines. `Targets` and
the runs that expect a violation assume nothing: each refutes an invariant.

### Seeded faults

Each property of a passing run has an operator named `Faulty...` beside the definition
it would replace: a plausible bug (a missing wait before a close, a map entry not
deleted, an off-by-one in a turn) with which TLC finds the property violated. `mutants`
in `PROJECT.json` pairs them.

## 4. What is proved

Every invariant and action property that a passing run checks, and the safety part of both
refinements, is a theorem for every value of the constants that satisfies the named
assumption of its module. `theorems` in `PROJECT.json` lists them with the property each
states. None of the properties but the smallest is inductive: each module has one inductive
invariant, a conjunction of named parts, from which its theorems follow. A proof module has
lemmas about the operators first, then one lemma for each kind of step, then the theorems.

**`ScanPipelineProofs`**, for every `N \in Nat` and every finite non-empty set `Workers`.
`PipelineInvariant`; `TypeCorrect`, `NoSendOnClosed`, `ProgressExact`, `NoDuplicates`;
`PipelineNeverStuck` and the action property `PipelineRunsOut`; `PipelineImplementsContract`
(refinement of `PortScan`). That no worker holds a job after
`close(results)` needs to know that a worker leaves its loop only when `jobs` is closed
*and* drained (`ClosedInOrder`); that no result is duplicated needs to know that jobs in
flight lie at or below `taken` (`JobsAreHandedOut`), so that the next one is new, and that
what is still being dialled is not in the channel either (`NoDuplicateJob`); the counter is
exact because it trails `taken` by the number of busy workers, which each step of a worker
changes by at most one. `PipelineInv` is `PipelineCore`, which is inductive, and
`NeverAllWaiting`, which follows from it: were feeder, collector and all workers
waiting, the results would be drained and no worker would hold one; an idle worker waits only
while `jobs` is open and empty, and then the feeder has room and does not wait. `StepsRunOut`
gives each job a weight for the place it is at, each goroutine one for having to leave, and Ctrl-C
one: every step, of whomever, uses up at least one, and there are never less than none. The
two together are the part of termination that can be proved: while
the phase is not over somebody can go on, and only finitely often. The refinement maps a dial that ends to `ProbeOpen` or
`ProbeClosed`, a receive from `results` to `Report`, the end of the range loop to `Finish`,
and all else to a stutter.

**`DiscoveryProofs`**, for any targets, scopes, protocols, datagrams and fetch slots.
`DiscoveryInvariant`; `HeardReported` (`HeardIsReported`); `DiscoveryImplementsLAN`. What is
noted travels from the map of a call over `hits` to `found`, so `HeardIsKept` says where it
is for each stage of its call; `InTurn` says that calls of earlier targets are merged and
those of later ones not begun, which is what makes the replacement of a later target's hit
lose facts but no address; `HitsAreInScope` gives the refinement its addresses.

**`ScanRunProofs`**, for any hosts, ports, open ports, command lines, slots and reporting
interval. `RunInvariant`; `ReportIsComplete`, `StreamIsComplete`, `DiscoveredOnce`,
`FiguresCountUp`, `MonitorsAgree`, `PhasesInOrder`, `SlotsAreRespected`; `RunKeepsContracts`.
The report is complete because its rows are exactly the hosts that have
been counted (`RowsAreCounted`) and the host goroutines are exactly those of a set that no
longer changes (`HostsInStep`, `PortPhaseOver`). That each figure is posted once although
counting and posting are separate steps rests on `ReadyCounts` (the figures seen are 1 to
`ready`, each by one goroutine) and `FiguresPosted` (a goroutine that has ended has posted
its own), with `PostsInOrder` for "before the terminal event". `VerdictsAgree` holds because
`cancelled` is never taken back and the two `Finish` calls read it in turn: a Ctrl-C between
them makes the webhook say completed and the stream failed, and nothing else can make them
differ. `EventsInPhases` bounds the phase of every event sent by the phase `main` has come to, and
needs to know that no second-pass goroutine lives before the hosts are done.
`RunKeepsContracts` says that the run, seen at the port phase and at discovery, is one of
`PortScan` and of `LanDiscovery`, whatever else it interleaves.

**`WatchTableProofs`**, for any finite set of hosts, any abilities of theirs, `DeadAfter >= 2`,
any number of rescans and of discovery workers. `WatchInvariant`; `NoDuplicateRow`,
`MissesStayBounded`, `StatsFollowRows`, `DeadRowsShowNoLatency`, and the action properties
`EvidenceIsKept`, `OrderOnScreen`. The four invariants hold across the gaps between critical
sections only together with what the loops carry over them: while the fast loop
pings the suspects it copied, none of them is at the limit (`SuspectsBelowLimit`), a
rescan is on exactly when its goroutine and the phase say so (`PhaseInStep`), and what a
rescan will install is alive (`ResultsAreAlive`). Most of the module is lemmas about the
table as a sequence: what replacing, appending, removing and stable sorting do to its rows,
to the order of any two and to their being distinct.

**`PageInfoProofs`**, for any finite sets of hosts and ports, any number of scans, exports
and slots. `PageInvariant`; `PagesAreKept`, `ExportsOnlyGain`, and the action property
`PagesNeverClobbered`. A slice is allocated once (`AllocatedOnce`), so a name never comes to
mean something else; the row of a scan's host names the slice of the report while the scan is
on unless discovery wrote it (`ReportShown`), so a response goes where the report will look;
entries only ever gain, so an export has at least its snapshot (`ExportInStep`).

**`ViewerProofs`**, for any keyboard under `KeyboardAssumption`, any number of keys, rows and
lines, and any capacity of the channel. `ViewInvariant`; `EachKeyItsCommand`, and the action
property `KeysMoveTheWindow`. That each key is one command, its own, needs to know at which
byte of which key the reader is in each of its states (`ReaderInStep`), which refers to the
input through the places where keys begin (`InputInStep`); that a key moves the window by its
distance needs the offset to lie within the rows unless rows or lines have changed since the last key
(`OffsetInRows`). Once Esc alone has been pressed in raw mode the reader may be out of step:
what is kept then are types, the window and the bytes of the input (`EscStays`,
`StepAfterEsc`).

**`TargetsProofs`**, for any width of addresses, prefix limits, chunk size, port limit, lists
of targets and of ports. `TargetsInvariant`; `NothingTwice`, `AllAndOnlyWhatWasAsked`,
`AddedWasScanned`, `NoChunkStarves`. The parts of `TargetsInv` say what each loop has done so
far. The lemmas beneath: a network is an interval of the address space (`NetworkIs`), the loop
of `expandCIDR` runs through it and stops right after it, also where `incIP` wraps to 0
(`TurnsAre`), what it lists is what a network has room for (`UsableIs`), a list without
repetitions can be sorted (`SortExists`), chunks hold every address (`ChunksHoldAll`). They use
induction over the naturals, stated for a set (`Upward`) and derived from the
well-foundedness of inclusion among finite sets.

Together with section 2's chain: `NothingTwice` is what `PortScan` assumes of its jobs;
`PipelineImplementsContract` and `DiscoveryImplementsLAN` say that the code of the two phases
keeps the contracts, `RunKeepsContracts` that `ScanRun` uses the phases by nothing
but these contracts, and the other theorems of `ScanRun` are about the whole run.

### Only model-checked

* Every liveness property: `ScanEnds`, `RunEnds`, `DiscoveryEnds`, `RescanEnds`,
  `VerdictsCome`, `GoneHostGoesDead`, `SecondPassEnds`, `QuitAnswered`, and the fairness part of a refinement.
  Fairness is stated with `ENABLED`, which the prover cannot expand. For `ScanEnds` what it rests on is
  proved (`PipelineNeverStuck`, `PipelineRunsOut`); that somebody who can go on does is left.
* The violations of section 5, which are counterexamples.

What the assumptions leave to the reader: a keyboard with other keys is not covered (section 5
names two that the decoder takes for Home), and sizes come from the table `Sizes` because the
prover knows no exponentiation; TLC gives it the powers of two.

## 5. Where the code and its documents disagree

Each has a run whose one property states the document's claim:

1. `EscalationEndsDead`: a suspect is said to be probed until it replies or is dead
   (tui.go:39-43). A rescan that finds the port of a host at the limit open without a ping
   reply shows it alive and leaves the count at the limit, where no loop looks any more.
2. `ARPToggleTakesEffect`: `EnrichStart` (tui.go:211) writes back the copy taken when the
   rescan began, so an `a` pressed since is undone while the footer still shows it.
3. `SecondPassInReport`: the second pass is said to be synchronous when there is no TUI
   (main.go:1125-1129). It is decided by the monitor, and the webhook and the stream are
   monitors.
4. `DescriptionsArrive`: discovery metadata with UPnP fields is promised (CHANGELOG.md:46-47).
   `fetchUPnPDescriptions` gets `dctx` (discovery.go:148), which expires before the deadline that
   every protocol has waited for (discovery.go:99-101), so each fetch fails at once.

Met while reading, without a run of their own:

* README.md:84 says Enter exits after the scan; `lineCommand("")` is no key. The word `scan` of the
  examples (README.md:65, 71) is not stripped: it is taken for a target and refused.
* The size question of the TUI is asked before it is known that there is a terminal.
* `ipInTarget` excludes the addresses of /31 and /32 networks that `expandCIDR` scans
  (the converse inclusion, `OnlyScannedAreAdded`, holds).
* A late tick overwrites the final progress figure (`TickDeliver` after `EndScan`).
* A host without ports that answers pings is added and removed again by every sweep.
* An older scan's response may fill a newer row's empty entry, and the newer scan's own response
  is then dropped. A response is lost to the screen when discovery has replaced the row
  in between (`overtaken` in `PageKept`). An export may hold pages younger than its
  snapshot, and reads entries without the lock `HTTPRefresh` writes them under.
* `hostWasLive` (main.go:2602) wants a latency above 0: a host known by discovery only
  that answers within a millisecond is never suspected when it leaves.
* With `--progress-webhook` and `--stream-json` together the stream lacks `target_found`,
  because `multiScanMonitor` has no `PortFound` (main.go:1043); `StreamCoversReport` asks for
  those lines only without the webhook, and for the lines of the hosts always.
* Discovery: a query is sent from a socket that is closed at once (multicast.go:18-31), so
  unicast replies to it are lost, and LLMNR sends none. An SSDP NOTIFY whose fields are not parsed
  still makes a hit. mDNS service records that precede the first A record of a packet are
  dropped (mdns.go:45-55). A later target's hit for an address replaces the earlier
  target's (main.go:1033). The readers nobody waits for may write a map that `merge` reads
  (`crashed`), and `fetchUPnPDescriptions` (ssdp.go:129-149) ranges over the map its
  goroutines write, which no fetch does while they all fail (item 4).
* Keys: in raw mode Esc alone takes the next byte for the rest of a sequence (tui.go:1054-1061),
  where the comment (tui.go:1047-1052) calls blocking for it harmless: Esc then `q` does not quit, Esc then Up
  is `A`, the ARP toggle, and after Esc and `[` or `O` one byte more or several are lost. F5 (`ESC[15~`)
  and Ctrl-Up (`ESC[1;5A`) are taken for Home, by their first digit. The scroll keys
  (README.md:90) do nothing in line mode.
* The window: `tuiMaxHostRows` keeps 7 lines (tui.go:1132) where a frame has 8 or more
  besides the rows. After rows or lines have gone, the first scroll key starts from the old offset
  and may show nothing; during a rescan scrolling moves an offset nobody sees.
* NDJSON lines of a background pass may follow the stream's terminal line.

## 6. Not modelled

* Wire formats, dataset, layout of frames, formats of outputs, the port catalog and its
  generator: they change no state.
* The drawing goroutine: `Viewer` says what a frame shows, not when; a frame written after
  `Close` has switched the screen back is not in it.
* Platform calls of ping, ARP and terminal: modelled by what their callers can observe.
* In `WatchTable`: the process's exit, change highlights and statistics other than misses
  (nothing decides by them), chunked sweeps (in `Targets`), pages (in `PageInfo`).
* In `PageInfo`: Ctrl-C, file names and write errors of exports.
* In `ScanRun`: all but the latest figure of `scan_progress`, failed POSTs of the progress
  webhook (only logged).
* In `Discovery`: the queries sent (nothing depends on them), the text of names and services.
* In `Viewer`: what keys other than quit, rescan and scroll do (`WatchTable`, `PageInfo`), and keys
  whose number has more than the digit that the decoder looks at (F5, Ctrl-Up; section 5).
* In `Targets`: flag syntax, named profiles, the local adapters.

## 7. Plan

Done, in this order: pipeline and its contract; its proofs; the watch table; the run
around the pipeline; page information; targets and turns; discovery and its contract;
keys and scrolling; the proofs of every safety property, module by module; the
pipeline's freedom from deadlock and its bounded number of steps; the run's contracts, the
order of its monitors' events and what they say of its end.

Next:

1. A measure of what is left, as `StepsRunOut`, for a run, a rescan and a second pass.
2. Lemmas for readers: what `Merge` and `Replace` keep of a hit, how far `TickDeliver` can set
   a figure back.
3. The drawing goroutine, for frames written after `Close`.
