---------------------------- MODULE ScanRunProofs ----------------------------
(***************************************************************************)
(* Machine-checked proofs about ScanRun, for all addresses, ports, command *)
(* lines and limits: the report, the progress webhook and the stream are   *)
(* complete whatever is interrupted, and in whatever order the goroutines  *)
(* of a run get to them.                                                   *)
(***************************************************************************)
EXTENDS ScanRun, FiniteSetTheorems, TLAPS

(* A step of a run that has not ended.                                     *)
Step ==
    \/ Main \/ Ticker \/ Deep \/ DiscoveryEnds \/ Cancel
    \/ \E j \in Jobs : Probe(j)
    \/ \E ip \in Hosts : Host(ip)

LEMMA NextIsStep == [Next]_vars => (main # "exit" /\ Step) \/ UNCHANGED vars
BY DEF Next, Step, Ended

LEMMA FiniteRun ==
    /\ IsFiniteSet(Hosts) /\ IsFiniteSet(Jobs)
    /\ Total \in Nat /\ Cardinality(Hosts) \in Nat
<1>1. IsFiniteSet(Jobs)
  BY RunAssumption, FS_Product DEF Jobs
<1> QED BY <1>1, RunAssumption, FS_CardinalityType DEF Total

LEMMA CommandLineFacts ==
    ASSUME options \in CommandLines
    PROVE  /\ TUI \in BOOLEAN /\ ProgressURL \in BOOLEAN /\ StreamJSON \in BOOLEAN
           /\ Outputs \subseteq {"json", "csv", "webhook"}
BY RunAssumption DEF TUI, ProgressURL, StreamJSON, Outputs

-----------------------------------------------------------------------------
(* Events appended to a sequence keep their places.                        *)

LEMMA AppendFacts ==
    ASSUME NEW S, NEW s \in Seq(S), NEW e \in S
    PROVE  /\ Append(s, e) \in Seq(S)
           /\ Len(s) \in Nat
           /\ DOMAIN s = 1..Len(s)
           /\ DOMAIN Append(s, e) = DOMAIN s \cup {Len(s) + 1}
           /\ \A i \in DOMAIN s : i \in Nat /\ i < Len(s) + 1 /\ Append(s, e)[i] = s[i]
           /\ Append(s, e)[Len(s) + 1] = e
<1>1. Append(s, e) \in Seq(S) /\ Len(s) \in Nat /\ Len(Append(s, e)) = Len(s) + 1
  OBVIOUS
<1>2. DOMAIN s = 1..Len(s) /\ DOMAIN Append(s, e) = 1..(Len(s) + 1)
  BY <1>1
<1>3. DOMAIN Append(s, e) = DOMAIN s \cup {Len(s) + 1}
  BY <1>1, <1>2
<1>4. \A i \in DOMAIN s : i \in Nat /\ i < Len(s) + 1 /\ Append(s, e)[i] = s[i]
  BY <1>1, <1>2
<1>5. Append(s, e)[Len(s) + 1] = e
  BY <1>1
<1> QED BY <1>1, <1>2, <1>3, <1>4, <1>5

(* One more post: the posts with another name are the same.                *)
LEMMA PostFacts ==
    ASSUME posts \in Seq(PostEvents), NEW e \in PostEvents, posts' = Append(posts, e)
    PROVE  /\ posts' \in Seq(PostEvents)
           /\ Len(posts) \in Nat
           /\ DOMAIN posts' = DOMAIN posts \cup {Len(posts) + 1}
           /\ \A i \in DOMAIN posts : i \in Nat /\ i < Len(posts) + 1 /\ posts'[i] = posts[i]
           /\ posts'[Len(posts) + 1] = e
           /\ \A name : Posted(name) \subseteq DOMAIN posts
           /\ \A name : e.event # name => Posted(name)' = Posted(name)
           /\ Posted(e.event)' = Posted(e.event) \cup {Len(posts) + 1}
<1>1. /\ posts' \in Seq(PostEvents)
      /\ Len(posts) \in Nat
      /\ DOMAIN posts' = DOMAIN posts \cup {Len(posts) + 1}
      /\ \A i \in DOMAIN posts : i \in Nat /\ i < Len(posts) + 1 /\ posts'[i] = posts[i]
      /\ posts'[Len(posts) + 1] = e
  BY AppendFacts
<1>2. \A name : e.event # name => Posted(name)' = Posted(name)
  BY <1>1 DEF Posted
<1>3. Posted(e.event)' = Posted(e.event) \cup {Len(posts) + 1}
  BY <1>1 DEF Posted
<1>4. \A name : Posted(name) \subseteq DOMAIN posts
  BY DEF Posted
<1> QED BY <1>1, <1>2, <1>3, <1>4

LEMMA LineFacts ==
    ASSUME lines \in Seq(LineEvents), NEW e \in LineEvents, lines' = Append(lines, e)
    PROVE  /\ lines' \in Seq(LineEvents)
           /\ Len(lines) \in Nat
           /\ DOMAIN lines = 1..Len(lines)
           /\ DOMAIN lines' = DOMAIN lines \cup {Len(lines) + 1}
           /\ \A i \in DOMAIN lines : i \in Nat /\ i < Len(lines) + 1 /\ lines'[i] = lines[i]
           /\ lines'[Len(lines) + 1] = e
BY AppendFacts

(* The events the code emits have their fields.                            *)
LEMMA EventTypes ==
    ASSUME NEW name \in PlainEvents, NEW ip \in Hosts \cup {NoIP}
    PROVE  /\ Event(name, ip) \in PostEvents
           /\ Event(name, ip) \in LineEvents
           /\ Event(name, ip).event = name /\ Event(name, ip).ip = ip
BY DEF Event, PostEvents, LineEvents

LEMMA PortLineTypes ==
    ASSUME NEW j \in Jobs
    PROVE  /\ [event |-> "target_found", ip |-> j[1], port |-> j[2]] \in LineEvents
           /\ j[1] \in Hosts /\ j[2] \in Ports
BY DEF LineEvents, Jobs

LEMMA HostLineTypes ==
    ASSUME NEW ip \in Hosts, NEW ps \in SUBSET Ports
    PROVE  Updated(ip, ps) \in LineEvents /\ Updated(ip, ps).event = "target_updated"
BY DEF Updated, LineEvents

LEMMA FigureTypes ==
    ASSUME NEW ip \in Hosts, NEW n \in Nat
    PROVE  [event |-> "enrichment_progress", ip |-> ip, ready |-> n] \in PostEvents
BY DEF PostEvents

LEMMA RowTypes ==
    ASSUME TypeOK, NEW k \in DOMAIN hosts
    PROVE  hosts[k].ip \in Hosts
<1> DEFINE Rows == [ip : Hosts, ports : SUBSET Ports]
<1>1. hosts \in Seq(Rows)
  BY DEF TypeOK
<1>2. hosts[k] \in Rows
  <2> HIDE DEF Rows
  <2> QED BY <1>1
<1> QED BY <1>2

LEMMA PortsOfType ==
    ASSUME TypeOK, NEW ip
    PROVE  PortsOf(ip) \in SUBSET Ports
<1>1. reported \subseteq Jobs
  BY DEF TypeOK, Port!TypeOK
<1>2. \A j \in reported : j[2] \in Ports
  BY <1>1, PortLineTypes
<1> QED BY <1>2 DEF PortsOf

-----------------------------------------------------------------------------
(* Types.                                                                  *)

LEMMA InitTypeOK == Init => TypeOK
<1> SUFFICES ASSUME Init PROVE TypeOK
  OBVIOUS
<1> USE DEF Init
<1>1. Port!TypeOK /\ Lan!TypeOK
  BY DEF Port!Init, Port!TypeOK, Lan!Init, Lan!TypeOK
<1>2. posts \in Seq(PostEvents) /\ lines \in Seq(LineEvents)
  <2>1. Event("scan_started", NoIP) \in PostEvents /\ Event("scan_started", NoIP) \in LineEvents
    BY EventTypes DEF PlainEvents
  <2> QED BY <2>1
<1>3. /\ 0 \in 0..total /\ 0 \in 0..Cardinality(Hosts) /\ 0 \in 0..Total
      /\ -1 \in -1..Total /\ 0 \in 0..MaxTicks
  BY FiniteRun, RunAssumption
<1>4. tui \in [phase : {"scanning", "enriching", "watch"}, scanned : 0..Total]
  BY <1>3
<1>5. main \in Stages
  BY DEF Stages
<1>6. hosts \in Seq([ip : Hosts, ports : SUBSET Ports])
  OBVIOUS
<1>7. written \subseteq Outputs /\ failed \in BOOLEAN
  OBVIOUS
<1> QED BY <1>1, <1>2, <1>3, <1>4, <1>5, <1>6, <1>7 DEF TypeOK

LEMMA PostTypes ==
    ASSUME posts \in Seq(PostEvents), NEW e \in PostEvents, Post(e)
    PROVE  posts' \in Seq(PostEvents)
BY DEF Post

LEMMA EmitTypes ==
    ASSUME lines \in Seq(LineEvents), NEW e \in LineEvents, Emit(e)
    PROVE  lines' \in Seq(LineEvents)
BY DEF Emit

LEMMA PortProgressTypes ==
    ASSUME TypeOK, NEW n \in 0..Total, PortProgress(n)
    PROVE  /\ tui' \in [phase : {"scanning", "enriching", "watch"}, scanned : 0..Total]
           /\ progress' \in -1..Total
<1>1. progress \in -1..Total /\ n \in -1..Total
  BY FiniteRun DEF TypeOK
<1> QED BY <1>1 DEF TypeOK, PortProgress

(* The port phase, the ticker and discovery.                               *)
LEMMA PortTypeOK ==
    ASSUME TypeOK, PortPhaseOver,
           \/ \E j \in Jobs : Probe(j) \/ Collect(j)
           \/ EndScan \/ Ticker \/ DiscoveryEnds \/ Cancel
    PROVE  TypeOK'
<1> USE DEF TypeOK, portVars, discVars, enrichVars, deepVars, tickVars, showVars, outVars,
            TUI, ProgressURL, StreamJSON, Outputs
<1>1. ASSUME NEW j \in Jobs, Probe(j)
      PROVE  TypeOK'
  <2>1. Port!TypeOK' /\ found \subseteq found' /\ meta' \subseteq found'
    BY <1>1 DEF Probe, Port!TypeOK, Port!ProbeOpen, Port!ProbeClosed
  <2> QED BY <1>1, <2>1 DEF Probe, Lan!TypeOK
<1>2. ASSUME NEW j \in Jobs, Collect(j)
      PROVE  TypeOK'
  <2>1. Port!TypeOK' /\ found' = found
    BY <1>2 DEF Collect, Port!TypeOK, Port!Report
  <2>2. posts' \in Seq(PostEvents)
    <3>1. Event("host_discovered", j[1]) \in PostEvents
      BY EventTypes, PortLineTypes DEF PlainEvents
    <3> QED BY <1>2, <3>1, PostTypes DEF Collect
  <2>3. lines' \in Seq(LineEvents)
    BY <1>2, EmitTypes, PortLineTypes DEF Collect
  <2> QED BY <1>2, <2>1, <2>2, <2>3 DEF Collect, Lan!TypeOK
<1>3. CASE EndScan
  <2>1. Port!TypeOK' /\ found' = found
    BY <1>3 DEF EndScan, Port!TypeOK, Port!Finish
  <2>2. /\ tui' \in [phase : {"scanning", "enriching", "watch"}, scanned : 0..Total]
        /\ progress' \in -1..Total
    <3>1. Total \in 0..Total
      BY FiniteRun
    <3> QED BY <1>3, <3>1, PortProgressTypes DEF EndScan
  <2>3. main' \in Stages /\ ticker' \in {"running", "stopping", "stopped"}
    BY <1>3 DEF EndScan, Stages
  <2> QED BY <1>3, <2>1, <2>2, <2>3 DEF EndScan, Lan!TypeOK
<1>4. CASE TickRead
  <2>1. 0..Cardinality(probed) \subseteq -1..Total /\ Total \in -1..Total
    <3>1. Cardinality(probed) <= Total /\ Cardinality(probed) \in Nat
      BY FiniteRun, FS_Subset, FS_CardinalityType DEF Port!TypeOK, Total
    <3> QED BY <3>1, FiniteRun
  <2>2. tick' \in -1..Total
    BY <1>4, <2>1 DEF TickRead
  <2>3. ticks' \in 0..MaxTicks
    BY <1>4, RunAssumption DEF TickRead
  <2> QED BY <1>4, <2>2, <2>3 DEF TickRead, Port!TypeOK, Lan!TypeOK
<1>5. CASE TickDeliver
  <2>1. tick \in 0..Total /\ -1 \in -1..Total
    BY <1>5, FiniteRun DEF TickDeliver
  <2>2. /\ tui' \in [phase : {"scanning", "enriching", "watch"}, scanned : 0..Total]
        /\ progress' \in -1..Total
    BY <1>5, <2>1, PortProgressTypes DEF TickDeliver
  <2> QED BY <1>5, <2>1, <2>2 DEF TickDeliver, Port!TypeOK, Lan!TypeOK
<1>6. CASE TickStop
  BY <1>6 DEF TickStop, Port!TypeOK, Lan!TypeOK
<1>7. CASE DiscoveryEnds
  BY <1>7 DEF DiscoveryEnds, Lan!End, Port!TypeOK, Lan!TypeOK
<1>8. CASE Cancel
  BY <1>8 DEF Cancel, Port!Cancel, Port!TypeOK, Lan!TypeOK
<1> QED BY <1>1, <1>2, <1>3, <1>4, <1>5, <1>6, <1>7, <1>8 DEF Ticker

LEMMA ToEnrichFacts ==
    ASSUME TypeOK
    PROVE  /\ ToEnrich \subseteq Hosts /\ IsFiniteSet(ToEnrich)
           /\ HostTotal \in Nat /\ HostTotal <= Cardinality(Hosts)
<1>1. \A j \in reported : j[1] \in Hosts
  BY PortLineTypes DEF TypeOK, Port!TypeOK
<1>2. IPs(reported) \subseteq Hosts
  BY <1>1 DEF IPs
<1>3. ToEnrich \subseteq Hosts
  BY <1>2, RunAssumption DEF ToEnrich, TypeOK, Lan!TypeOK
<1> QED BY <1>3, FiniteRun, FS_Subset, FS_CardinalityType DEF HostTotal

(* Counting a host: the figure it sees is the next, and at most the total. *)
LEMMA OneMoreCounted ==
    ASSUME TypeOK, HostsInStep, ReadyCounts, NEW ip \in Hosts, HostEnriched(ip)
    PROVE  /\ Counted' = Counted \cup {ip} /\ ip \notin Counted
           /\ Cardinality(Counted') = Cardinality(Counted) + 1
           /\ ready \in Nat /\ ready + 1 \in 1..total /\ ready + 1 \in 0..total
           /\ main = "enriching"
<1>1. enriching \in [Hosts -> {"none", "running", "announcing", "done"}]
      /\ enriching[ip] = "running"
  BY DEF TypeOK, HostEnriched
<1>2. Counted' = Counted \cup {ip} /\ ip \notin Counted
  BY <1>1 DEF Counted, HostEnriched
<1>3. main \notin {"scanning", "discovery"} /\ ~Enriched
  BY <1>1 DEF HostsInStep
<1>4. main = "enriching"
  BY <1>3 DEF Enriched
<1>5. Counted' \subseteq ToEnrich
  <2>1. \A jp \in Hosts : enriching[jp] # "none" => jp \in ToEnrich
    BY <1>3 DEF HostsInStep
  <2> QED BY <1>1, <1>2, <2>1 DEF Counted
<1>6. IsFiniteSet(Counted) /\ IsFiniteSet(ToEnrich)
  <2>1. Counted \subseteq Hosts
    BY DEF Counted
  <2> QED BY <2>1, FiniteRun, FS_Subset, ToEnrichFacts
<1>7. Cardinality(Counted') = Cardinality(Counted) + 1 /\ Cardinality(Counted) \in Nat
  BY <1>2, <1>6, FS_AddElement, FS_CardinalityType
<1>8. Cardinality(Counted') <= total /\ total \in Nat
  <2>1. Cardinality(Counted') <= Cardinality(ToEnrich) /\ Cardinality(ToEnrich) \in Nat
    BY <1>5, <1>6, FS_Subset, FS_CardinalityType
  <2> QED BY <1>3, <2>1 DEF HostsInStep, HostTotal
<1>9. ready = Cardinality(Counted)
  BY DEF ReadyCounts
<1> QED BY <1>2, <1>4, <1>7, <1>8, <1>9

LEMMA EnrichTypeOK ==
    ASSUME TypeOK, HostsInStep, ReadyCounts,
           StartEnrich \/ \E ip \in Hosts : Host(ip)
    PROVE  TypeOK'
<1> USE DEF TypeOK, portVars, discVars, enrichVars, deepVars, tickVars, showVars, outVars,
            TUI, ProgressURL, StreamJSON, Outputs
<1>1. CASE StartEnrich
  <2>1. HostTotal \in 0..Cardinality(Hosts) /\ HostTotal \in Nat
    BY ToEnrichFacts, FiniteRun
  <2>2. ready' \in 0..total' /\ total' \in 0..Cardinality(Hosts)
    BY <1>1, <2>1 DEF StartEnrich
  <2>3. readyAt' \in [Hosts -> 0..total']
    <3>1. total = 0
      BY <1>1 DEF StartEnrich, HostsInStep
    <3> QED BY <1>1, <2>1, <3>1 DEF StartEnrich
  <2>4. tui' \in [phase : {"scanning", "enriching", "watch"}, scanned : 0..Total]
    BY <1>1 DEF StartEnrich
  <2>5. posts' \in Seq(PostEvents) /\ lines' \in Seq(LineEvents)
    <3>1. Event("enrichment_started", NoIP) \in PostEvents /\ Event("enriching", NoIP) \in LineEvents
      BY EventTypes DEF PlainEvents
    <3> QED BY <1>1, <3>1, PostTypes, EmitTypes DEF StartEnrich
  <2>6. /\ main' \in Stages
        /\ enriching' \in [Hosts -> {"none", "running", "announcing", "done"}]
    BY <1>1 DEF StartEnrich, Stages
  <2> QED BY <1>1, <2>2, <2>3, <2>4, <2>5, <2>6 DEF StartEnrich, Port!TypeOK, Lan!TypeOK
<1>2. ASSUME NEW ip \in Hosts, HostEnriched(ip)
      PROVE  TypeOK'
  <2>1. ready + 1 \in 0..total
    BY <1>2, OneMoreCounted DEF HostEnriched
  <2>2. hosts' \in Seq([ip : Hosts, ports : SUBSET Ports])
    BY <1>2, PortsOfType DEF HostEnriched
  <2>3. enriching' \in [Hosts -> {"none", "running", "announcing", "done"}]
        /\ readyAt' \in [Hosts -> 0..total]
    BY <1>2, <2>1 DEF HostEnriched
  <2> QED BY <1>2, <2>1, <2>2, <2>3 DEF HostEnriched, Port!TypeOK, Lan!TypeOK
<1>3. ASSUME NEW ip \in Hosts, HostAnnounced(ip)
      PROVE  TypeOK'
  <2>1. readyAt[ip] \in Nat
    BY FiniteRun
  <2>2. posts' \in Seq(PostEvents)
    BY <1>3, <2>1, FigureTypes, PostTypes DEF HostAnnounced
  <2>3. lines' \in Seq(LineEvents)
    BY <1>3, PortsOfType, HostLineTypes, EmitTypes DEF HostAnnounced
  <2>4. enriching' \in [Hosts -> {"none", "running", "announcing", "done"}]
    BY <1>3 DEF HostAnnounced
  <2> QED BY <1>3, <2>2, <2>3, <2>4 DEF HostAnnounced, Port!TypeOK, Lan!TypeOK
<1> QED BY <1>1, <1>2, <1>3 DEF Host

(* The second pass, and the end of the run.                                *)
LEMMA EndTypeOK ==
    ASSUME TypeOK, SecondPassInStep,
           \/ StartDeep \/ Deep \/ EndDeep
           \/ FinishTUI \/ FinishWebhook \/ FinishStream \/ WriteArtifact
    PROVE  TypeOK'
<1> USE DEF TypeOK, portVars, discVars, enrichVars, deepVars, tickVars, showVars, outVars,
            TUI, ProgressURL, StreamJSON, Outputs, Stages
<1>1. CASE StartDeep
  <2>1. deep' \in [Jobs -> {"none", "queued", "running", "done"}]
    BY <1>1 DEF StartDeep
  <2>2. main' \in {"deep", "finishTUI"}
    BY <1>1 DEF StartDeep
  <2> QED BY <1>1, <2>1, <2>2 DEF StartDeep, Port!TypeOK, Lan!TypeOK
<1>2. CASE DeepBreak
  BY <1>2 DEF DeepBreak, Port!TypeOK, Lan!TypeOK
<1>3. ASSUME NEW j \in Jobs, DeepSpawn(j) \/ DeepFail(j)
      PROVE  TypeOK'
  <2>1. deep' \in [Jobs -> {"none", "queued", "running", "done"}]
    BY <1>3 DEF DeepSpawn, DeepFail
  <2>2. CASE DeepSpawn(j)
    BY <2>1, <2>2 DEF DeepSpawn, Port!TypeOK, Lan!TypeOK
  <2>3. CASE DeepFail(j)
    BY <2>1, <2>3 DEF DeepFail, Port!TypeOK, Lan!TypeOK
  <2> QED BY <1>3, <2>2, <2>3
<1>4. ASSUME NEW j \in Jobs, DeepAnswer(j)
      PROVE  TypeOK'
  <2>1. j \in found
    BY <1>4 DEF DeepAnswer, SecondPassInStep
  <2>2. deep' \in [Jobs -> {"none", "queued", "running", "done"}]
    BY <1>4 DEF DeepAnswer
  <2>3. posts' \in Seq(PostEvents)
    <3>1. Event("http_probe_complete", j[1]) \in PostEvents
      BY EventTypes, PortLineTypes DEF PlainEvents
    <3> QED BY <1>4, <3>1, PostTypes DEF DeepAnswer
  <2>4. lines' \in Seq(LineEvents)
    <3>1. Updated(j[1], {j[2]}) \in LineEvents
      BY HostLineTypes, PortLineTypes
    <3> QED BY <1>4, <3>1, EmitTypes DEF DeepAnswer
  <2>5. meta' \subseteq found /\ answered' \subseteq found
    BY <1>4, <2>1 DEF DeepAnswer
  <2> QED BY <1>4, <2>2, <2>3, <2>4, <2>5 DEF DeepAnswer, Port!TypeOK, Lan!TypeOK
<1>5. CASE EndDeep
  BY <1>5 DEF EndDeep, Port!TypeOK, Lan!TypeOK
<1>6. CASE FinishTUI
  <2>1. tui' \in [phase : {"scanning", "enriching", "watch"}, scanned : 0..Total]
    BY <1>6 DEF FinishTUI
  <2> QED BY <1>6, <2>1 DEF FinishTUI, Port!TypeOK, Lan!TypeOK
<1>7. CASE FinishWebhook
  <2>1. Event(IF cancelled THEN "scan_cancelled" ELSE "scan_completed", NoIP) \in PostEvents
    BY EventTypes DEF PlainEvents
  <2> QED BY <1>7, <2>1, PostTypes DEF FinishWebhook, Port!TypeOK, Lan!TypeOK
<1>8. CASE FinishStream
  <2>1. Event(IF cancelled THEN "scan_failed" ELSE "scan_completed", NoIP) \in LineEvents
    BY EventTypes DEF PlainEvents
  <2> QED BY <1>8, <2>1, EmitTypes DEF FinishStream, Port!TypeOK, Lan!TypeOK
<1>9. CASE WriteArtifact
  <2>1. main' \in Stages
    BY <1>9 DEF WriteArtifact, After
  <2>2. written' \subseteq Outputs /\ failed' \in BOOLEAN
    BY <1>9 DEF WriteArtifact
  <2> QED BY <1>9, <2>1, <2>2 DEF WriteArtifact, Port!TypeOK, Lan!TypeOK
<1> QED BY <1>1, <1>2, <1>3, <1>4, <1>5, <1>6, <1>7, <1>8, <1>9 DEF Deep

LEMMA TypeOKPreserved ==
    ASSUME TypeOK, PortPhaseOver, HostsInStep, ReadyCounts, SecondPassInStep, Step
    PROVE  TypeOK'
BY PortTypeOK, EnrichTypeOK, EndTypeOK DEF Step, Main, Ticker

-----------------------------------------------------------------------------
(* The phases.                                                             *)

(* After its phase nothing about the ports changes any more.               *)
LEMMA PortPhaseKept ==
    ASSUME TypeOK, PortPhaseOver, Step
    PROVE  /\ PortPhaseOver'
           /\ main # "scanning" => main' # "scanning" /\ UNCHANGED <<probed, found, reported, done>>
<1> USE DEF PortPhaseOver, portVars
<1>1. ASSUME NEW j \in Jobs, Probe(j)
      PROVE  main = "scanning" /\ main' = main
  <2>1. j \notin probed /\ main' = main
    BY <1>1 DEF Probe, Port!ProbeOpen, Port!ProbeClosed
  <2> QED BY <2>1
<1>2. ASSUME NEW j \in Jobs, Collect(j)
      PROVE  main = "scanning" /\ main' = main
  BY <1>2 DEF Collect
<1>3. CASE EndScan
  BY <1>3 DEF EndScan, Port!Finish
<1>4. CASE Ticker \/ DiscoveryEnds
  BY <1>4 DEF Ticker, TickRead, TickDeliver, TickStop, DiscoveryEnds
<1>5. CASE Cancel
  BY <1>5 DEF Cancel, Port!Cancel
<1>6. CASE StartEnrich \/ \E ip \in Hosts : Host(ip)
  BY <1>6 DEF StartEnrich, Host, HostEnriched, HostAnnounced
<1>7. CASE StartDeep \/ Deep \/ EndDeep
  BY <1>7 DEF StartDeep, Deep, DeepBreak, DeepSpawn, DeepAnswer, DeepFail, EndDeep
<1>8. CASE FinishTUI \/ FinishWebhook \/ FinishStream \/ WriteArtifact
  BY <1>8 DEF FinishTUI, FinishWebhook, FinishStream, WriteArtifact, After
<1> QED BY <1>1, <1>2, <1>3, <1>4, <1>5, <1>6, <1>7, <1>8 DEF Step, Main

(* What StartEnrich reads stays as it was.                                 *)
LEMMA ToEnrichKept ==
    ASSUME TypeOK, PortPhaseOver, HostsInStep, Step, main \notin {"scanning", "discovery"}
    PROVE  ToEnrich' = ToEnrich /\ discovery' = discovery /\ UNCHANGED options
<1>1. reported' = reported
  BY PortPhaseKept
<1>2. heard' = heard /\ discovery' = discovery
  <2>1. ~DiscoveryEnds
    BY DEF DiscoveryEnds, Lan!End, HostsInStep
  <2> QED BY <2>1 DEF discVars, Step, Main, Collect, EndScan, StartEnrich, StartDeep, EndDeep, FinishTUI,
          FinishWebhook, FinishStream, WriteArtifact, Ticker, TickRead, TickDeliver, TickStop,
          Deep, DeepBreak, DeepSpawn, DeepAnswer, DeepFail, Cancel, Probe, Host, HostEnriched,
          HostAnnounced
<1>3. options' = options
  BY DEF Step, Main, Collect, EndScan, StartEnrich, StartDeep, EndDeep, FinishTUI,
         FinishWebhook, FinishStream, WriteArtifact, Ticker, TickRead, TickDeliver, TickStop,
         Deep, DeepBreak, DeepSpawn, DeepAnswer, DeepFail, DiscoveryEnds, Cancel, Probe, Host,
         HostEnriched, HostAnnounced
<1> QED BY <1>1, <1>2, <1>3 DEF ToEnrich, ARPDead

(* The steps that are none of the host goroutines' business.               *)
LEMMA OtherSteps ==
    ASSUME TypeOK, Step, ~StartEnrich, ~StartDeep, \A ip \in Hosts : ~Host(ip)
    PROVE  /\ UNCHANGED enrichVars
           /\ main \in {"scanning", "discovery"} <=> main' \in {"scanning", "discovery"}
           /\ Enriched' <=> Enriched
<1> USE DEF Enriched, enrichVars
<1>1. CASE (\E j \in Jobs : Probe(j) \/ Collect(j)) \/ EndScan \/ Ticker \/ DiscoveryEnds \/ Cancel
  BY <1>1 DEF Probe, Collect, EndScan, Ticker, TickRead, TickDeliver, TickStop, DiscoveryEnds, Cancel
<1>2. CASE Deep \/ EndDeep
  BY <1>2 DEF Deep, DeepBreak, DeepSpawn, DeepAnswer, DeepFail, EndDeep
<1>3. CASE FinishTUI \/ FinishWebhook \/ FinishStream
  BY <1>3 DEF FinishTUI, FinishWebhook, FinishStream
<1>4. CASE WriteArtifact
  BY <1>4 DEF WriteArtifact, After
<1> QED BY <1>1, <1>2, <1>3, <1>4 DEF Step, Main

(* The host goroutines, the figures they saw and the rows they appended.   *)
LEMMA HostsPreserved ==
    ASSUME TypeOK, PortPhaseOver, HostsInStep, ReadyCounts, RowsAreCounted, Step
    PROVE  HostsInStep' /\ ReadyCounts' /\ RowsAreCounted'
<1>1. CASE StartEnrich
  <2>1. /\ main = "discovery" /\ main' = "enriching" /\ discovery = "done"
        /\ enriching' = [ip \in Hosts |-> IF ip \in ToEnrich THEN "running" ELSE "none"]
        /\ total' = HostTotal /\ ready' = 0 /\ UNCHANGED <<hosts, readyAt, reported, heard, discovery, options>>
    BY <1>1 DEF StartEnrich, portVars, discVars
  <2>2. ToEnrich' = ToEnrich /\ HostTotal' = HostTotal
    BY <2>1 DEF ToEnrich, HostTotal, ARPDead
  <2>3. HostsInStep'
    BY <2>1, <2>2 DEF HostsInStep, Enriched
  <2>4. Counted = {} /\ Counted' = {}
    BY <2>1 DEF Counted, HostsInStep
  <2>5. ReadyCounts'
    BY <2>1, <2>4, FS_EmptySet DEF ReadyCounts
  <2>6. DOMAIN hosts = {}
    BY <2>4 DEF RowsAreCounted
  <2> QED BY <2>1, <2>3, <2>4, <2>5, <2>6 DEF RowsAreCounted
<1>2. ASSUME NEW ip \in Hosts, HostEnriched(ip)
      PROVE  HostsInStep' /\ ReadyCounts' /\ RowsAreCounted'
  <2>1. /\ Counted' = Counted \cup {ip} /\ ip \notin Counted
        /\ Cardinality(Counted') = Cardinality(Counted) + 1
        /\ ready \in Nat /\ main = "enriching"
    BY <1>2, OneMoreCounted
  <2>2. /\ enriching[ip] = "running" /\ ready' = ready + 1 /\ main' = main /\ total' = total
        /\ enriching' = [enriching EXCEPT ![ip] = "announcing"]
        /\ readyAt' = [readyAt EXCEPT ![ip] = ready + 1]
        /\ hosts' = Append(hosts, [ip |-> ip, ports |-> PortsOf(ip)])
        /\ UNCHANGED <<discovery, reported>>
    BY <1>2 DEF HostEnriched, portVars, discVars
  <2>3. ToEnrich' = ToEnrich
    BY <2>1, ToEnrichKept
  <2>4. HostsInStep'
    BY <2>1, <2>2, <2>3 DEF HostsInStep, Enriched, HostTotal, TypeOK
  <2>5. ReadyCounts'
    <3>0. /\ readyAt \in [Hosts -> Nat] /\ Counted \subseteq Hosts
          /\ \A jp \in Counted : readyAt[jp] \in 1..ready
      BY DEF ReadyCounts, TypeOK, Counted
    <3>6. readyAt'[ip] = ready + 1 /\ \A jp \in Hosts \ {ip} : readyAt'[jp] = readyAt[jp]
      BY <2>2, <3>0
    <3>1. readyAt'[ip] = ready + 1 /\ \A jp \in Counted : readyAt'[jp] = readyAt[jp] /\ readyAt[jp] \in 1..ready
      BY <2>1, <3>0, <3>6
    <3>2. ready' = Cardinality(Counted')
      BY <2>1, <2>2 DEF ReadyCounts
    <3>3. \A jp \in Counted' : readyAt'[jp] \in 1..ready'
      BY <2>1, <2>2, <3>1
    <3>4. \A jp, kp \in Counted' : readyAt'[jp] = readyAt'[kp] => jp = kp
      BY <2>1, <2>2, <3>1 DEF ReadyCounts
    <3>5. \A n \in 1..ready' : \E jp \in Counted' : readyAt'[jp] = n
      <4>1. 1..ready' = (1..ready) \cup {ready + 1}
        BY <2>1, <2>2
      <4> QED BY <2>1, <3>1, <4>1 DEF ReadyCounts
    <3> QED BY <3>2, <3>3, <3>4, <3>5 DEF ReadyCounts
  <2>6. RowsAreCounted'
    <3> DEFINE row == [ip |-> ip, ports |-> PortsOf(ip)]
               HostRows == [ip : Hosts, ports : SUBSET Ports]
    <3>1. row \in HostRows /\ row.ip = ip /\ row.ports = PortsOf(ip)
      BY PortsOfType
    <3>0. hosts \in Seq(HostRows) /\ hosts' = Append(hosts, row)
      BY <2>2 DEF TypeOK
    <3> HIDE DEF row, HostRows
    <3>2. /\ DOMAIN hosts' = DOMAIN hosts \cup {Len(hosts) + 1}
          /\ \A i \in DOMAIN hosts : hosts'[i] = hosts[i]
          /\ hosts'[Len(hosts) + 1] = row
      BY <3>0, <3>1, AppendFacts
    <3>3. \A i \in DOMAIN hosts : hosts[i].ip # ip
      BY <2>1 DEF RowsAreCounted
    <3>4. \A jp : PortsOf(jp)' = PortsOf(jp)
      BY <2>2 DEF PortsOf
    <3>5. {hosts'[i].ip : i \in DOMAIN hosts'} = Counted'
      BY <2>1, <3>1, <3>2 DEF RowsAreCounted
    <3>6. \A i, k \in DOMAIN hosts' : hosts'[i].ip = hosts'[k].ip => i = k
      BY <3>1, <3>2, <3>3 DEF RowsAreCounted
    <3>7. \A i \in DOMAIN hosts' : hosts'[i].ports = PortsOf(hosts'[i].ip)
      BY <3>1, <3>2 DEF RowsAreCounted
    <3> QED BY <3>4, <3>5, <3>6, <3>7 DEF RowsAreCounted
  <2> QED BY <2>4, <2>5, <2>6
<1>3. ASSUME NEW ip \in Hosts, HostAnnounced(ip)
      PROVE  HostsInStep' /\ ReadyCounts' /\ RowsAreCounted'
  <2>1. /\ enriching[ip] = "announcing" /\ main' = main
        /\ enriching' = [enriching EXCEPT ![ip] = "done"]
        /\ UNCHANGED <<readyAt, hosts, ready, total, reported, discovery>>
    BY <1>3 DEF HostAnnounced, portVars, discVars
  <2>2. Counted' = Counted
    BY <2>1 DEF Counted, TypeOK
  <2>3. main \notin {"scanning", "discovery"}
    BY <2>1 DEF HostsInStep
  <2>4. ToEnrich' = ToEnrich
    BY <2>3, ToEnrichKept
  <2>5. HostsInStep'
    BY <2>1, <2>3, <2>4 DEF HostsInStep, Enriched, HostTotal, TypeOK
  <2> QED BY <2>1, <2>2, <2>5 DEF ReadyCounts, RowsAreCounted, PortsOf
<1>4. CASE StartDeep
  <2>1. /\ main = "enriching" /\ main' \in {"deep", "finishTUI"}
        /\ \A ip \in Hosts : enriching[ip] \in {"none", "done"}
        /\ UNCHANGED <<enriching, readyAt, hosts, ready, total, reported>>
    BY <1>4 DEF StartDeep, enrichVars, portVars
  <2>2. ToEnrich' = ToEnrich /\ discovery' = discovery
    BY <2>1, ToEnrichKept
  <2> QED BY <2>1, <2>2 DEF HostsInStep, HostTotal, ReadyCounts, RowsAreCounted, Counted, PortsOf
<1>5. CASE ~StartEnrich /\ ~StartDeep /\ \A ip \in Hosts : ~Host(ip)
  <2>1. /\ UNCHANGED <<enriching, readyAt, hosts, ready, total, Counted>>
        /\ main \in {"scanning", "discovery"} <=> main' \in {"scanning", "discovery"}
        /\ Enriched' <=> Enriched
    BY <1>5, OtherSteps DEF enrichVars, Counted
  <2>2. HostsInStep'
    <3>1. CASE main \in {"scanning", "discovery"}
      BY <2>1, <3>1 DEF HostsInStep, Enriched
    <3>2. CASE main \notin {"scanning", "discovery"}
      BY <2>1, <3>2, ToEnrichKept DEF HostsInStep, HostTotal
    <3> QED BY <3>1, <3>2
  <2>3. ReadyCounts'
    BY <2>1 DEF ReadyCounts
  <2>4. RowsAreCounted'
    <3>1. CASE main = "scanning"
      <4>1. Counted = {}
        BY <3>1 DEF HostsInStep, Counted
      <4>2. DOMAIN hosts = {}
        BY <4>1 DEF RowsAreCounted
      <4> QED BY <2>1, <4>1, <4>2 DEF RowsAreCounted
    <3>2. CASE main # "scanning"
      <4>1. reported' = reported
        BY <3>2, PortPhaseKept
      <4> QED BY <2>1, <4>1 DEF RowsAreCounted, PortsOf
    <3> QED BY <3>1, <3>2
  <2> QED BY <2>2, <2>3, <2>4
<1> QED BY <1>1, <1>2, <1>3, <1>4, <1>5 DEF Host

(* The second pass: only with a monitor does a probe outlive `deep`.       *)
LEMMA SecondPassPreserved ==
    ASSUME TypeOK, PortPhaseOver, SecondPassInStep, Step
    PROVE  SecondPassInStep'
<1> USE DEF TypeOK, Monitored, TUI, ProgressURL, StreamJSON
<1>1. CASE (\E j \in Jobs : Probe(j))
  <2>1. /\ found \subseteq found' /\ meta \subseteq meta'
        /\ UNCHANGED <<options, main, deep, answered>>
    BY <1>1 DEF Probe, Port!ProbeOpen, Port!ProbeClosed, deepVars
  <2> QED BY <2>1 DEF SecondPassInStep
<1>2. CASE \/ \E j \in Jobs : Collect(j)
           \/ EndScan \/ Ticker \/ DiscoveryEnds \/ Cancel
           \/ StartEnrich \/ \E ip \in Hosts : Host(ip)
  <2>1. UNCHANGED <<found, meta, options, deep, answered>>
    BY <1>2 DEF Collect, EndScan, Ticker, TickRead, TickDeliver, TickStop, DiscoveryEnds, Cancel,
       StartEnrich, Host, HostEnriched, HostAnnounced, Port!Report, Port!Finish, Port!Cancel,
       deepVars, portVars
  <2>2. main' # "deep" => main # "deep"
    BY <1>2 DEF Collect, EndScan, Ticker, TickRead, TickDeliver, TickStop, DiscoveryEnds, Cancel,
       StartEnrich, Host, HostEnriched, HostAnnounced
  <2> QED BY <2>1, <2>2 DEF SecondPassInStep
<1>3. CASE StartDeep
  <2>1. UNCHANGED <<found, reported, meta, options, answered>> /\ reported \subseteq found
        /\ main = "enriching"
    BY <1>3 DEF StartDeep, portVars, Port!TypeOK
  <2>2. CASE UNCHANGED deep
    BY <2>1, <2>2 DEF SecondPassInStep
  <2>3. CASE /\ main' = IF Synchronous THEN "deep" ELSE "finishTUI"
             /\ deep' = [j \in Jobs |-> IF j \in NeedsProbe THEN "queued" ELSE "none"]
    BY <2>1, <2>3 DEF SecondPassInStep, NeedsProbe, Synchronous
  <2> QED BY <1>3, <2>2, <2>3 DEF StartDeep
<1>4. CASE Deep
  <2>1. /\ UNCHANGED <<found, options, main>> /\ meta \subseteq meta'
        /\ \A j \in Jobs : deep[j] = "none" => deep'[j] = "none"
    BY <1>4 DEF Deep, DeepBreak, DeepSpawn, DeepAnswer, DeepFail, portVars
  <2>2. ~Monitored => answered' \subseteq meta'
    BY <1>4 DEF Deep, DeepBreak, DeepSpawn, DeepAnswer, DeepFail, SecondPassInStep
  <2>3. ~Monitored /\ main # "deep" => \A j \in Jobs : deep'[j] \in {"none", "done"}
    BY <1>4 DEF Deep, DeepBreak, DeepSpawn, DeepAnswer, DeepFail, SecondPassInStep
  <2> QED BY <2>1, <2>2, <2>3 DEF SecondPassInStep
<1>5. CASE EndDeep
  BY <1>5 DEF EndDeep, SecondPassInStep, portVars, deepVars
<1>6. CASE FinishTUI \/ FinishWebhook \/ FinishStream \/ WriteArtifact
  BY <1>6 DEF FinishTUI, FinishWebhook, FinishStream, WriteArtifact, SecondPassInStep,
     portVars, deepVars
<1> QED BY <1>1, <1>2, <1>3, <1>4, <1>5, <1>6 DEF Step, Main

-----------------------------------------------------------------------------
(* The progress webhook.                                                   *)

(* What the properties of the posts are about: their number by name, the   *)
(* terminal events, and the state they are compared with.                  *)
PostParts == PostsInOrder /\ DiscoveredPosted /\ FiguresPosted /\ EnrichmentCountsUp

Webhook == {"finishStream", "json", "csv", "webhook", "waitExit", "exit"}

LEMMA SameFigures ==
    ASSUME EnrichmentCountsUp, UNCHANGED <<posts, total>>
    PROVE  EnrichmentCountsUp'
<1>1. \A name : Posted(name)' = Posted(name)
  BY DEF Posted
<1>2. Figures' = Figures
  BY DEF Figures, ShouldPost
<1>3. \A last : FiguresBefore(last)' = FiguresBefore(last)
  BY <1>1 DEF FiguresBefore
<1> QED BY <1>1, <1>2, <1>3 DEF EnrichmentCountsUp

(* A step that posts nothing, starts nothing and ends no host goroutine.   *)
LEMMA QuietPosts ==
    ASSUME PostParts, UNCHANGED <<posts, options, reported, enriching, readyAt, total>>,
           main \notin {"scanning", "discovery"} => main' \notin {"scanning", "discovery"},
           main \in Webhook => main' \in Webhook
    PROVE  PostParts'
<1>1. \A name : Posted(name)' = Posted(name)
  BY DEF Posted
<1>2. PostsInOrder'
  BY <1>1 DEF PostParts, PostsInOrder, Webhook
<1>3. DiscoveredPosted'
  BY <1>1 DEF PostParts, DiscoveredPosted, ProgressURL
<1>4. FiguresPosted'
  BY <1>1 DEF PostParts, FiguresPosted, ShouldPost, ProgressURL
<1>5. EnrichmentCountsUp'
  BY SameFigures DEF PostParts
<1> QED BY <1>2, <1>3, <1>4, <1>5 DEF PostParts

(* A post after the terminal one does not count for it.                    *)
LEMMA LaterPost ==
    ASSUME TypeOK, EnrichmentCountsUp, UNCHANGED total,
           NEW e \in PostEvents, posts' = Append(posts, e),
           e.event \notin {"scan_completed", "scan_cancelled"}
    PROVE  EnrichmentCountsUp'
<1>1. Figures' = Figures
  BY DEF Figures, ShouldPost
<1>2. posts \in Seq(PostEvents)
  BY DEF TypeOK
<1>3. ASSUME NEW last \in DOMAIN posts
      PROVE  FiguresBefore(last)' = FiguresBefore(last)
  <2>1. \A i \in DOMAIN posts' : i < last => i \in DOMAIN posts
    BY <1>2, <1>3, PostFacts
  <2> QED BY <1>2, <2>1, PostFacts DEF FiguresBefore, Posted
<1>4. \A last \in DOMAIN posts : \A i \in FiguresBefore(last) : posts'[i] = posts[i]
  BY <1>2, PostFacts DEF FiguresBefore
<1>5. /\ Posted("scan_completed")' = Posted("scan_completed")
      /\ Posted("scan_cancelled")' = Posted("scan_cancelled")
      /\ Posted("scan_completed") \cup Posted("scan_cancelled") \subseteq DOMAIN posts
  BY <1>2, PostFacts
<1>6. ASSUME NEW last \in Posted("scan_completed")' \cup Posted("scan_cancelled")'
      PROVE  /\ {posts'[i].ready : i \in FiguresBefore(last)'} = Figures'
             /\ Cardinality(FiguresBefore(last)') = Cardinality(Figures')
  <2>1. last \in DOMAIN posts /\ FiguresBefore(last)' = FiguresBefore(last)
    BY <1>3, <1>5
  <2>2. {posts'[i].ready : i \in FiguresBefore(last)} = {posts[i].ready : i \in FiguresBefore(last)}
    BY <1>4, <2>1
  <2> QED BY <1>1, <1>5, <2>1, <2>2 DEF EnrichmentCountsUp
<1> QED BY <1>6 DEF EnrichmentCountsUp

(* An address is announced when its first port is collected.               *)
LEMMA CollectPosts ==
    ASSUME TypeOK, PostParts, NEW j \in Jobs, Collect(j)
    PROVE  PostParts'
<1> DEFINE e == Event("host_discovered", j[1])
<1>1. /\ main = "scanning" /\ main' = main
      /\ reported' = reported \cup {j}
      /\ UNCHANGED <<options, enriching, readyAt, total>>
      /\ IF NewToWebhook(j[1]) THEN Post(e) ELSE posts' = posts
  BY DEF Collect, Port!Report, enrichVars
<1>2. IPs(reported') = IPs(reported) \cup {j[1]}
  BY <1>1 DEF IPs
<1>3. CASE UNCHANGED posts
  <2>1. \A name : Posted(name)' = Posted(name)
    BY <1>3 DEF Posted
  <2>2. PostsInOrder' /\ FiguresPosted'
    BY <1>1, <1>3, <2>1 DEF PostParts, PostsInOrder, FiguresPosted, ShouldPost, ProgressURL
  <2>3. DiscoveredPosted'
    <3>1. CASE ~ProgressURL
      BY <1>1, <3>1 DEF DiscoveredPosted, ProgressURL
    <3>2. CASE ProgressURL /\ j[1] \in IPs(reported)
      <4>1. IPs(reported') = IPs(reported)
        BY <1>2, <3>2
      <4> QED BY <1>1, <1>3, <2>1, <3>2, <4>1 DEF PostParts, DiscoveredPosted
    <3>3. CASE ProgressURL /\ j[1] \notin IPs(reported)
      <4>1. posts' = Append(posts, e)
        BY <1>1, <3>3 DEF NewToWebhook, Post
      <4>2. posts \in Seq(PostEvents) /\ e \in PostEvents
        BY EventTypes, PortLineTypes DEF TypeOK, PlainEvents
      <4>3. Len(posts') = Len(posts) + 1 /\ Len(posts) \in Nat
        BY <4>1, <4>2
      <4> QED BY <1>3, <4>3
    <3> QED BY <3>1, <3>2, <3>3
  <2>4. EnrichmentCountsUp'
    BY <1>1, <1>3, SameFigures DEF PostParts
  <2> QED BY <2>2, <2>3, <2>4 DEF PostParts
<1>4. CASE NewToWebhook(j[1]) /\ posts' = Append(posts, e)
  <2>1. posts \in Seq(PostEvents) /\ e \in PostEvents /\ e.event = "host_discovered" /\ e.ip = j[1]
    <3>1. posts \in Seq(PostEvents)
      BY DEF TypeOK
    <3>2. "host_discovered" \in PlainEvents /\ j[1] \in Hosts
      BY PortLineTypes DEF PlainEvents
    <3>3. e \in PostEvents /\ e.event = "host_discovered" /\ e.ip = j[1]
      BY <3>2, EventTypes
    <3> QED  BY <3>1, <3>3
  <2>2. /\ \A name : name # "host_discovered" => Posted(name)' = Posted(name)
        /\ Posted("host_discovered")' = Posted("host_discovered") \cup {Len(posts) + 1}
        /\ \A i \in DOMAIN posts : i \in Nat /\ i < Len(posts) + 1 /\ posts'[i] = posts[i]
        /\ \A name : Posted(name) \subseteq DOMAIN posts
        /\ posts'[Len(posts) + 1] = e
    BY <1>4, <2>1, PostFacts
  <2>3. PostsInOrder'
    BY <1>1, <2>2 DEF PostParts, PostsInOrder
  <2>4. DiscoveredPosted'
    <3>1. Posted("enrichment_started") = {}
      BY <1>1 DEF PostParts, PostsInOrder
    <3>2. ProgressURL => {posts'[i].ip : i \in Posted("host_discovered")'} = IPs(reported')
      BY <1>2, <2>1, <2>2 DEF PostParts, DiscoveredPosted
    <3>3. ProgressURL => \A i \in Posted("host_discovered") : posts[i].ip # j[1]
      BY <1>4 DEF PostParts, DiscoveredPosted, NewToWebhook
    <3>4. ProgressURL => \A i, k \in Posted("host_discovered")' : posts'[i].ip = posts'[k].ip => i = k
      BY <2>1, <2>2, <3>3 DEF PostParts, DiscoveredPosted
    <3>5. Posted("enrichment_started")' = {}
      BY <2>2, <3>1
    <3>6. ProgressURL' = ProgressURL
      BY <1>1 DEF ProgressURL
    <3> QED BY <3>2, <3>4, <3>5, <3>6 DEF DiscoveredPosted
  <2>5. FiguresPosted'
    BY <1>1, <2>2 DEF PostParts, FiguresPosted, ShouldPost, ProgressURL
  <2>6. EnrichmentCountsUp'
    BY <1>1, <1>4, <2>1, LaterPost DEF PostParts
  <2> QED BY <2>3, <2>4, <2>5, <2>6 DEF PostParts
<1> QED BY <1>1, <1>3, <1>4 DEF Post

(* Enrichment starts: no figure has been posted yet.                       *)
LEMMA StartPosts ==
    ASSUME TypeOK, HostsInStep, PostParts, StartEnrich
    PROVE  PostParts'
<1> DEFINE e == Event("enrichment_started", NoIP)
<1>1. /\ main = "discovery" /\ main' = "enriching"
      /\ UNCHANGED <<options, reported>>
      /\ enriching' \in [Hosts -> {"none", "running"}]
      /\ Post(e)
  BY DEF StartEnrich, portVars
<1>2. /\ Posted("enrichment_progress") = {}
      /\ Posted("enrichment_started") = {}
      /\ Posted("scan_completed") = {} /\ Posted("scan_cancelled") = {}
  BY <1>1 DEF PostParts, PostsInOrder, FiguresPosted, HostsInStep
<1>3. CASE UNCHANGED posts /\ ~ProgressURL
  <2>1. \A name : Posted(name)' = Posted(name)
    BY <1>3 DEF Posted
  <2> QED BY <1>1, <1>2, <1>3, <2>1
      DEF PostParts, PostsInOrder, DiscoveredPosted, FiguresPosted, EnrichmentCountsUp, ProgressURL
<1>4. CASE posts' = Append(posts, e)
  <2>1. posts \in Seq(PostEvents) /\ e \in PostEvents /\ e.event = "enrichment_started"
    BY EventTypes DEF TypeOK, PlainEvents
  <2>2. /\ \A name : name # "enrichment_started" => Posted(name)' = Posted(name)
        /\ Posted("enrichment_started")' = {Len(posts) + 1}
        /\ \A i \in DOMAIN posts : i \in Nat /\ i < Len(posts) + 1 /\ posts'[i] = posts[i]
        /\ \A name : Posted(name) \subseteq DOMAIN posts
    BY <1>2, <1>4, <2>1, PostFacts
  <2>3. PostsInOrder' /\ EnrichmentCountsUp'
    BY <1>1, <1>2, <2>2 DEF PostsInOrder, EnrichmentCountsUp
  <2>4. DiscoveredPosted'
    BY <1>1, <2>2 DEF PostParts, DiscoveredPosted, ProgressURL
  <2>5. FiguresPosted'
    BY <1>1, <1>2, <2>2 DEF FiguresPosted
  <2> QED BY <2>3, <2>4, <2>5 DEF PostParts
<1> QED BY <1>1, <1>3, <1>4, CommandLineFacts DEF Post, TypeOK

(* A host is announced: with its own figure, which nobody else has.        *)
LEMMA AnnouncePosts ==
    ASSUME TypeOK, PostParts, NEW ip \in Hosts, HostAnnounced(ip)
    PROVE  PostParts'
<1> DEFINE e == [event |-> "enrichment_progress", ip |-> ip, ready |-> readyAt[ip]]
<1>1. /\ enriching[ip] = "announcing"
      /\ enriching' = [enriching EXCEPT ![ip] = "done"]
      /\ enriching \in [Hosts -> {"none", "running", "announcing", "done"}]
      /\ UNCHANGED <<options, reported, main, readyAt, total>>
      /\ IF ShouldPost(readyAt[ip]) THEN Post(e) ELSE posts' = posts
  BY DEF HostAnnounced, portVars, TypeOK
<1>2. /\ enriching'[ip] = "done"
      /\ \A jp \in Hosts \ {ip} : enriching'[jp] = enriching[jp]
      /\ \A n : ShouldPost(n)' <=> ShouldPost(n)
  BY <1>1 DEF ShouldPost
<1>3. CASE UNCHANGED posts /\ (ProgressURL => ~ShouldPost(readyAt[ip]))
  <2>1. \A name : Posted(name)' = Posted(name)
    BY <1>3 DEF Posted
  <2>2. PostsInOrder' /\ DiscoveredPosted'
    BY <1>1, <1>3, <2>1 DEF PostParts, PostsInOrder, DiscoveredPosted, ProgressURL
  <2>3. FiguresPosted'
    BY <1>1, <1>2, <1>3, <2>1 DEF PostParts, FiguresPosted, ProgressURL
  <2>4. EnrichmentCountsUp'
    BY <1>1, <1>3, SameFigures DEF PostParts
  <2> QED BY <2>2, <2>3, <2>4 DEF PostParts
<1>4. CASE posts' = Append(posts, e) /\ ShouldPost(readyAt[ip])
  <2>1. /\ posts \in Seq(PostEvents) /\ e \in PostEvents
        /\ e.event = "enrichment_progress" /\ e.ip = ip /\ e.ready = readyAt[ip]
    BY FigureTypes DEF TypeOK
  <2>2. /\ \A name : name # "enrichment_progress" => Posted(name)' = Posted(name)
        /\ Posted("enrichment_progress")' = Posted("enrichment_progress") \cup {Len(posts) + 1}
        /\ \A i \in DOMAIN posts : i \in Nat /\ i < Len(posts) + 1 /\ posts'[i] = posts[i]
        /\ \A name : Posted(name) \subseteq DOMAIN posts
        /\ posts'[Len(posts) + 1] = e
    BY <1>4, <2>1, PostFacts
  <2>3. PostsInOrder' /\ DiscoveredPosted'
    BY <1>1, <2>2 DEF PostParts, PostsInOrder, DiscoveredPosted, ProgressURL
  <2>4. FiguresPosted'
    <3>1. \A i \in Posted("enrichment_progress") : posts[i].ip # ip /\ posts[i].ip \in Hosts
      BY <1>1 DEF PostParts, FiguresPosted
    <3>2. \A i \in Posted("enrichment_progress")' :
            /\ posts'[i].ip \in Hosts /\ enriching'[posts'[i].ip] = "done"
            /\ posts'[i].ready = readyAt[posts'[i].ip] /\ ShouldPost(posts'[i].ready)
      BY <1>2, <1>4, <2>1, <2>2, <3>1 DEF PostParts, FiguresPosted
    <3>3. \A i, k \in Posted("enrichment_progress")' : posts'[i].ip = posts'[k].ip => i = k
      BY <2>1, <2>2, <3>1 DEF PostParts, FiguresPosted
    <3>4. ASSUME NEW jp \in Hosts, ProgressURL, enriching'[jp] = "done", ShouldPost(readyAt[jp])
          PROVE  \E i \in Posted("enrichment_progress")' : posts'[i].ip = jp
      <4>1. CASE jp = ip
        BY <2>1, <2>2, <4>1
      <4>2. CASE jp # ip
        BY <1>2, <2>2, <3>4, <4>2 DEF PostParts, FiguresPosted
      <4> QED BY <4>1, <4>2
    <3> QED BY <1>1, <1>2, <3>2, <3>3, <3>4 DEF FiguresPosted, ProgressURL
  <2>5. EnrichmentCountsUp'
    BY <1>1, <1>4, <2>1, LaterPost DEF PostParts
  <2> QED BY <2>3, <2>4, <2>5 DEF PostParts
<1> QED BY <1>1, <1>3, <1>4, CommandLineFacts DEF Post, TypeOK

(* A post of the second pass is none of the properties' events.            *)
LEMMA AnswerPosts ==
    ASSUME TypeOK, PostParts, NEW j \in Jobs, DeepAnswer(j)
    PROVE  PostParts'
<1> DEFINE e == Event("http_probe_complete", j[1])
<1>1. /\ UNCHANGED <<options, reported, main, enriching, readyAt, total>>
      /\ posts' = posts \/ posts' = Append(posts, e)
  BY DEF DeepAnswer, portVars, enrichVars, Post
<1>2. CASE posts' = posts
  BY <1>1, <1>2, QuietPosts
<1>3. CASE posts' = Append(posts, e)
  <2>1. posts \in Seq(PostEvents) /\ e \in PostEvents /\ e.event = "http_probe_complete"
    BY EventTypes, PortLineTypes DEF TypeOK, PlainEvents
  <2>2. /\ \A name : name # "http_probe_complete" => Posted(name)' = Posted(name)
        /\ \A i \in DOMAIN posts : posts'[i] = posts[i]
        /\ \A name : Posted(name) \subseteq DOMAIN posts
    BY <1>3, <2>1, PostFacts
  <2>3. PostsInOrder' /\ DiscoveredPosted'
    BY <1>1, <2>2 DEF PostParts, PostsInOrder, DiscoveredPosted, ProgressURL
  <2>4. FiguresPosted'
    BY <1>1, <2>2 DEF PostParts, FiguresPosted, ShouldPost, ProgressURL
  <2>5. EnrichmentCountsUp'
    BY <1>1, <1>3, <2>1, LaterPost DEF PostParts
  <2> QED BY <2>3, <2>4, <2>5 DEF PostParts
<1> QED BY <1>1, <1>2, <1>3

(* When all hosts are done, each figure has been posted, and once.         *)
LEMMA FiguresComplete ==
    ASSUME TypeOK, HostsInStep, ReadyCounts, FiguresPosted, Enriched, ProgressURL
    PROVE  /\ {posts[i].ready : i \in Posted("enrichment_progress")} = Figures
           /\ Cardinality(Posted("enrichment_progress")) = Cardinality(Figures)
<1> DEFINE P == Posted("enrichment_progress")
           f == [i \in P |-> posts[i].ready]
<1>1. \A ip \in Hosts : enriching[ip] \in {"none", "done"}
  BY DEF HostsInStep
<1>2. main \notin {"scanning", "discovery"} /\ Counted = ToEnrich
  <2>1. main \notin {"scanning", "discovery"}
    BY DEF Enriched
  <2> QED BY <1>1, <2>1, ToEnrichFacts DEF HostsInStep, Counted
<1>3. ready = total /\ total \in Nat
  BY <1>2, ToEnrichFacts DEF HostsInStep, ReadyCounts, HostTotal
<1>4. Figures = {n \in 1..total : ShouldPost(n)}
  BY <1>3 DEF Figures, ShouldPost
<1>5. \A ip \in Counted : enriching[ip] = "done" /\ ip \in Hosts
  BY <1>1 DEF Counted
<1>6. \A i \in P : posts[i].ip \in Counted
  BY DEF FiguresPosted, Counted
<1>7. \A i \in P : posts[i].ready \in Figures
  BY <1>3, <1>4, <1>6 DEF FiguresPosted, ReadyCounts
<1>8. ASSUME NEW n \in Figures
      PROVE  \E i \in P : posts[i].ready = n
  <2>1. PICK ip \in Counted : readyAt[ip] = n
    BY <1>3, <1>4 DEF ReadyCounts
  <2>2. PICK i \in P : posts[i].ip = ip
    BY <1>4, <1>5, <2>1 DEF FiguresPosted
  <2> QED BY <2>1, <2>2 DEF FiguresPosted
<1>9. \A i, k \in P : posts[i].ready = posts[k].ready => i = k
  BY <1>6 DEF FiguresPosted, ReadyCounts
<1>10. f \in Bijection(P, Figures)
  <2>1. f \in [P -> Figures]
    BY <1>7
  <2>2. \A i, k \in P : f[i] = f[k] => i = k
    BY <1>9
  <2>3. \A n \in Figures : \E i \in P : f[i] = n
    BY <1>8
  <2> QED BY <2>1, <2>2, <2>3 DEF Bijection, Injection, Surjection, IsInjective
<1>11. IsFiniteSet(P)
  <2>1. posts \in Seq(PostEvents) /\ Len(posts) \in Nat /\ DOMAIN posts = 1..Len(posts)
    BY DEF TypeOK
  <2>2. P \subseteq 1..Len(posts)
    BY <2>1 DEF Posted
  <2>3. IsFiniteSet(1..Len(posts))
    BY <2>1, FS_Interval
  <2> QED BY <2>2, <2>3, FS_Subset
<1>12. Cardinality(P) = Cardinality(Figures)
  BY <1>10, <1>11, FS_Bijection DEF ExistsBijection
<1> QED BY <1>7, <1>8, <1>12

(* The terminal post: every figure is before it.                           *)
LEMMA FinishPosts ==
    ASSUME TypeOK, HostsInStep, ReadyCounts, PostParts, FinishWebhook
    PROVE  PostParts'
<1>0. PICK name \in {"scan_cancelled", "scan_completed"} : Post(Event(name, NoIP))
  BY DEF FinishWebhook
<1> DEFINE e == Event(name, NoIP)
<1>1. /\ UNCHANGED <<options, reported, enriching, readyAt, total>>
      /\ main = "finishWebhook" /\ main' = "finishStream"
      /\ Post(e)
  BY <1>0 DEF FinishWebhook, portVars, enrichVars
<1>2. CASE posts' = posts
  BY <1>1, <1>2, QuietPosts DEF Webhook
<1>3. CASE posts' = Append(posts, e) /\ ProgressURL
  <2>0. PICK last : last = Len(posts) + 1
    OBVIOUS
  <2>1. posts \in Seq(PostEvents) /\ e \in PostEvents /\ e.event = name
    BY EventTypes DEF TypeOK, PlainEvents
  <2>2. /\ \A other : other # name => Posted(other)' = Posted(other)
        /\ Posted(name)' = Posted(name) \cup {last}
        /\ \A i \in DOMAIN posts : i \in Nat /\ i < last /\ posts'[i] = posts[i]
        /\ \A other : Posted(other) \subseteq DOMAIN posts
    BY <1>3, <2>0, <2>1, PostFacts
  <2>3. PostsInOrder'
    BY <1>1, <2>1, <2>2 DEF PostParts, PostsInOrder
  <2>4. DiscoveredPosted' /\ FiguresPosted'
    BY <1>1, <2>1, <2>2 DEF PostParts, DiscoveredPosted, FiguresPosted, ShouldPost, ProgressURL
  <2>5. EnrichmentCountsUp'
    <3>1. Posted("scan_completed") = {} /\ Posted("scan_cancelled") = {}
      BY <1>1 DEF PostParts, PostsInOrder
    <3>2. Posted("scan_completed")' \cup Posted("scan_cancelled")' = {last}
      BY <2>1, <2>2, <3>1
    <3>3. FiguresBefore(last)' = Posted("enrichment_progress")
      BY <2>1, <2>2 DEF FiguresBefore
    <3>4. Figures' = Figures
      BY <1>1 DEF Figures, ShouldPost
    <3>5. Enriched
      BY <1>1 DEF Enriched
    <3>6. {posts'[i].ready : i \in Posted("enrichment_progress")}
            = {posts[i].ready : i \in Posted("enrichment_progress")}
      BY <2>2
    <3>7. /\ {posts[i].ready : i \in Posted("enrichment_progress")} = Figures
          /\ Cardinality(Posted("enrichment_progress")) = Cardinality(Figures)
      BY <1>3, <3>5, FiguresComplete DEF PostParts
    <3>8. \A other \in Posted("scan_completed")' \cup Posted("scan_cancelled")' : other = last
      BY <3>2
    <3> QED BY <3>3, <3>4, <3>6, <3>7, <3>8 DEF EnrichmentCountsUp
  <2> QED BY <2>3, <2>4, <2>5 DEF PostParts
<1> QED BY <1>1, <1>2, <1>3 DEF Post

LEMMA PostsPreserved ==
    ASSUME TypeOK, PortPhaseOver, HostsInStep, ReadyCounts, PostParts, Step
    PROVE  PostParts'
<1>1. CASE \E j \in Jobs : Collect(j) \/ DeepAnswer(j)
  BY <1>1, CollectPosts, AnswerPosts
<1>2. CASE StartEnrich \/ FinishWebhook
  BY <1>2, StartPosts, FinishPosts
<1>3. ASSUME NEW ip \in Hosts, HostAnnounced(ip)
      PROVE  PostParts'
  BY <1>3, AnnouncePosts
<1>4. CASE \/ \E j \in Jobs : Probe(j)
           \/ EndScan \/ Ticker \/ DiscoveryEnds \/ Cancel
  <2>1. UNCHANGED <<posts, options, reported, enriching, readyAt, total>>
    BY <1>4 DEF Probe, EndScan, Ticker, TickRead, TickDeliver, TickStop, DiscoveryEnds, Cancel,
       Port!ProbeOpen, Port!ProbeClosed, Port!Finish, Port!Cancel, portVars, enrichVars
  <2>2. main' = main \/ (main = "scanning" /\ main' = "discovery")
    BY <1>4 DEF Probe, EndScan, Ticker, TickRead, TickDeliver, TickStop, DiscoveryEnds, Cancel
  <2> QED BY <2>1, <2>2, QuietPosts DEF Webhook
<1>5. CASE \E j \in Jobs : DeepSpawn(j) \/ DeepFail(j)
  BY <1>5, QuietPosts DEF DeepSpawn, DeepFail, portVars, enrichVars
<1>6. CASE StartDeep \/ DeepBreak \/ EndDeep
  <2>1. UNCHANGED <<posts, options, reported, enriching, readyAt, total>>
    BY <1>6 DEF StartDeep, DeepBreak, EndDeep, portVars, enrichVars
  <2>2. main' = main \/ (main \in {"enriching", "deep"} /\ main' \in {"deep", "finishTUI"})
    BY <1>6 DEF StartDeep, DeepBreak, EndDeep
  <2> QED BY <2>1, <2>2, QuietPosts DEF Webhook
<1>7. CASE FinishTUI \/ FinishStream \/ WriteArtifact
  <2>1. UNCHANGED <<posts, options, reported, enriching, readyAt, total>>
    BY <1>7 DEF FinishTUI, FinishStream, WriteArtifact, portVars, enrichVars
  <2>2. /\ main' \notin {"scanning", "discovery"}
        /\ main \in Webhook => main' \in Webhook
    BY <1>7 DEF FinishTUI, FinishStream, WriteArtifact, After, Webhook
  <2> QED BY <2>1, <2>2, QuietPosts
<1>8. ASSUME NEW ip \in Hosts, HostEnriched(ip)
      PROVE  PostParts'
  <2>1. /\ UNCHANGED <<posts, options, reported, main, total>>
        /\ enriching[ip] = "running" /\ ip \notin Counted
        /\ enriching' = [enriching EXCEPT ![ip] = "announcing"]
        /\ readyAt' = [readyAt EXCEPT ![ip] = ready + 1]
    BY <1>8 DEF HostEnriched, portVars, Counted
  <2>2. \A name : Posted(name)' = Posted(name)
    BY <2>1 DEF Posted
  <2>3. \A jp \in Hosts : /\ enriching'[jp] = "done" <=> enriching[jp] = "done"
                          /\ enriching[jp] = "done" => readyAt'[jp] = readyAt[jp]
    BY <2>1 DEF TypeOK
  <2>4. PostsInOrder' /\ DiscoveredPosted'
    BY <2>1, <2>2 DEF PostParts, PostsInOrder, DiscoveredPosted, ProgressURL
  <2>5. FiguresPosted'
    BY <2>1, <2>2, <2>3 DEF PostParts, FiguresPosted, ShouldPost, ProgressURL
  <2>6. EnrichmentCountsUp'
    BY <2>1, SameFigures DEF PostParts
  <2> QED BY <2>4, <2>5, <2>6 DEF PostParts
<1> QED BY <1>1, <1>2, <1>3, <1>4, <1>5, <1>6, <1>7, <1>8 DEF Step, Main, Deep, Host

-----------------------------------------------------------------------------
(* The stream.                                                             *)

LineParts == LinesInOrder /\ StreamCoversReport

Terminal == {"scan_completed", "scan_failed"}
Written == {"json", "csv", "webhook", "waitExit", "exit"}
PortLine(j) == [event |-> "target_found", ip |-> j[1], port |-> j[2]]
RowLine(row) == Updated(row.ip, row.ports)

(* A step that keeps the lines and the report, ends nothing, and gives     *)
(* every port and host it completes a line.                                *)
LEMMA LinesStep ==
    ASSUME TypeOK, PortPhaseOver, Step, LineParts, UNCHANGED <<options, hosts>>,
           \A i \in DOMAIN lines : i \in DOMAIN lines' /\ lines'[i] = lines[i],
           \A i \in DOMAIN lines' : i \in DOMAIN lines \/ lines'[i].event \notin Terminal,
           main \in Written => main' \in Written,
           HearsPortFound => \A j \in reported' \ reported : \E i \in DOMAIN lines' : lines'[i] = PortLine(j),
           StreamJSON => \A k \in DOMAIN hosts :
               enriching'[hosts[k].ip] = "done" =>
                   \/ enriching[hosts[k].ip] = "done"
                   \/ \E i \in DOMAIN lines' : lines'[i] = RowLine(hosts[k])
    PROVE  LineParts'
<1>1. LinesInOrder'
  <2>1. \A i \in DOMAIN lines' : lines'[i].event \in Terminal => main' \in Written
    BY DEF LineParts, LinesInOrder, Terminal, Written
  <2>2. HearsPortFound => \A j \in reported' : \E i \in DOMAIN lines' : lines'[i] = PortLine(j)
    BY DEF LineParts, LinesInOrder, PortLine
  <2>3. StreamJSON => \A k \in DOMAIN hosts : enriching'[hosts[k].ip] = "done" =>
            \E i \in DOMAIN lines' : lines'[i] = RowLine(hosts[k])
    BY DEF LineParts, LinesInOrder, RowLine
  <2>4. (HearsPortFound' <=> HearsPortFound) /\ (StreamJSON' <=> StreamJSON)
    BY DEF HearsPortFound, StreamJSON, ProgressURL
  <2> QED BY <2>1, <2>2, <2>3, <2>4 DEF LinesInOrder, Terminal, Written, PortLine, RowLine
<1>2. StreamCoversReport'
  <2> SUFFICES ASSUME NEW last \in DOMAIN lines', lines'[last].event \in Terminal
               PROVE  /\ ~ProgressURL => \A j \in found' : \E i \in 1..last : lines'[i] = PortLine(j)
                      /\ \A k \in DOMAIN hosts : \E i \in 1..last : lines'[i] = RowLine(hosts[k])
    BY DEF StreamCoversReport, Terminal, ProgressURL, PortLine, RowLine
  <2>1. last \in DOMAIN lines /\ lines[last].event \in Terminal
    OBVIOUS
  <2>2. found' = found
    <3>1. main # "scanning"
      BY <2>1 DEF LineParts, LinesInOrder, Terminal
    <3> QED BY <3>1, PortPhaseKept
  <2>3. \A i \in 1..last : lines'[i] = lines[i]
    <3>1. lines \in Seq(LineEvents)
      BY DEF TypeOK
    <3>2. 1..last \subseteq DOMAIN lines
      BY <2>1, <3>1
    <3> QED BY <3>2
  <2>4. /\ ~ProgressURL => \A j \in found : \E i \in 1..last : lines[i] = PortLine(j)
        /\ \A k \in DOMAIN hosts : \E i \in 1..last : lines[i] = RowLine(hosts[k])
    BY <2>1 DEF LineParts, StreamCoversReport, Terminal, PortLine, RowLine
  <2> QED BY <2>2, <2>3, <2>4
<1> QED BY <1>1, <1>2 DEF LineParts

(* What Emit does to the lines.                                            *)
LEMMA EmitFacts ==
    ASSUME TypeOK, NEW e \in LineEvents, Emit(e)
    PROVE  /\ \A i \in DOMAIN lines : i \in DOMAIN lines' /\ lines'[i] = lines[i]
           /\ \A i \in DOMAIN lines' : i \in DOMAIN lines \/ lines'[i] = e
           /\ StreamJSON => \E i \in DOMAIN lines' : lines'[i] = e
<1>1. CASE StreamJSON
  <2>1. lines \in Seq(LineEvents) /\ lines' = Append(lines, e)
    BY <1>1 DEF TypeOK, Emit
  <2> QED BY <2>1, LineFacts
<1>2. CASE ~StreamJSON
  BY <1>2 DEF Emit
<1> QED BY <1>1, <1>2

(* The steps that emit.                                                    *)
LEMMA CollectLines ==
    ASSUME TypeOK, PortPhaseOver, LineParts, NEW j \in Jobs, Collect(j)
    PROVE  LineParts'
<1>1. /\ UNCHANGED <<options, hosts, enriching, main>>
      /\ reported' = reported \cup {j}
      /\ IF HearsPortFound THEN Emit(PortLine(j)) ELSE lines' = lines
  BY DEF Collect, Port!Report, enrichVars, PortLine
<1>2. Step
  BY DEF Step, Main
<1>3. CASE HearsPortFound
  <2>1. PortLine(j) \in LineEvents /\ PortLine(j).event \notin Terminal /\ StreamJSON
    BY <1>3, PortLineTypes DEF PortLine, Terminal, HearsPortFound
  <2> QED BY <1>1, <1>2, <1>3, <2>1, EmitFacts, LinesStep
<1>4. CASE ~HearsPortFound
  BY <1>1, <1>2, <1>4, LinesStep
<1> QED BY <1>3, <1>4

LEMMA AnnounceLines ==
    ASSUME TypeOK, PortPhaseOver, RowsAreCounted, LineParts, NEW ip \in Hosts, HostAnnounced(ip)
    PROVE  LineParts'
<1> DEFINE e == Updated(ip, PortsOf(ip))
<1>1. /\ UNCHANGED <<options, hosts, reported, main>>
      /\ enriching' = [enriching EXCEPT ![ip] = "done"]
      /\ enriching \in [Hosts -> {"none", "running", "announcing", "done"}]
      /\ Emit(e)
  BY DEF HostAnnounced, portVars, TypeOK
<1>2. Step
  BY DEF Step, Host
<1>3. e \in LineEvents /\ e.event \notin Terminal
  BY PortsOfType, HostLineTypes DEF Terminal
<1>4. ASSUME StreamJSON, NEW k \in DOMAIN hosts,
             enriching'[hosts[k].ip] = "done", enriching[hosts[k].ip] # "done"
      PROVE  \E i \in DOMAIN lines' : lines'[i] = RowLine(hosts[k])
  <2>1. hosts[k].ip \in Hosts
    BY DEF RowsAreCounted, Counted
  <2>2. hosts[k].ip = ip
    BY <1>1, <1>4, <2>1
  <2>3. RowLine(hosts[k]) = e
    BY <2>2 DEF RowLine, RowsAreCounted
  <2> QED BY <1>1, <1>3, <1>4, <2>3, EmitFacts
<1>5. /\ \A i \in DOMAIN lines : i \in DOMAIN lines' /\ lines'[i] = lines[i]
      /\ \A i \in DOMAIN lines' : i \in DOMAIN lines \/ lines'[i].event \notin Terminal
  BY <1>1, <1>3, EmitFacts
<1> QED BY <1>1, <1>2, <1>4, <1>5, LinesStep

LEMMA AnswerLines ==
    ASSUME TypeOK, PortPhaseOver, LineParts, NEW j \in Jobs, DeepAnswer(j)
    PROVE  LineParts'
<1> DEFINE e == Updated(j[1], {j[2]})
<1>1. UNCHANGED <<options, hosts, reported, main, enriching>> /\ (lines' = lines \/ Emit(e))
  BY DEF DeepAnswer, portVars, enrichVars
<1>2. Step
  BY DEF Step, Deep
<1>3. e \in LineEvents /\ e.event \notin Terminal
  BY PortLineTypes, HostLineTypes DEF Terminal
<1>4. /\ \A i \in DOMAIN lines : i \in DOMAIN lines' /\ lines'[i] = lines[i]
      /\ \A i \in DOMAIN lines' : i \in DOMAIN lines \/ lines'[i].event \notin Terminal
  BY <1>1, <1>3, EmitFacts
<1> QED BY <1>1, <1>2, <1>4, LinesStep

LEMMA StartLines ==
    ASSUME TypeOK, PortPhaseOver, LineParts, StartEnrich
    PROVE  LineParts'
<1> DEFINE e == Event("enriching", NoIP)
<1>1. /\ UNCHANGED <<options, hosts, reported>> /\ main = "discovery"
      /\ enriching' = [ip \in Hosts |-> IF ip \in ToEnrich THEN "running" ELSE "none"]
      /\ Emit(e)
  BY DEF StartEnrich, portVars
<1>2. Step
  BY DEF Step, Main
<1>3. e \in LineEvents /\ e.event \notin Terminal
  BY EventTypes DEF Terminal, PlainEvents
<1>4. /\ \A i \in DOMAIN lines : i \in DOMAIN lines' /\ lines'[i] = lines[i]
      /\ \A i \in DOMAIN lines' : i \in DOMAIN lines \/ lines'[i].event \notin Terminal
  BY <1>1, <1>3, EmitFacts
<1>5. \A k \in DOMAIN hosts : hosts[k].ip \in Hosts
  BY RowTypes
<1>6. \A k \in DOMAIN hosts : enriching'[hosts[k].ip] # "done"
  BY <1>1, <1>5
<1> QED BY <1>1, <1>2, <1>4, <1>6, LinesStep DEF Written

(* A row is appended before its line: the host is not done yet.            *)
LEMMA EnrichedLines ==
    ASSUME TypeOK, PortPhaseOver, HostsInStep, ReadyCounts, LineParts,
           NEW ip \in Hosts, HostEnriched(ip)
    PROVE  LineParts'
<1>1. /\ UNCHANGED <<options, reported, lines, main>>
      /\ enriching' = [enriching EXCEPT ![ip] = "announcing"]
      /\ hosts' = Append(hosts, [ip |-> ip, ports |-> PortsOf(ip)])
      /\ main = "enriching"
  BY OneMoreCounted DEF HostEnriched, portVars
<1>2. /\ DOMAIN hosts' = DOMAIN hosts \cup {Len(hosts) + 1}
      /\ \A i \in DOMAIN hosts : hosts'[i] = hosts[i]
      /\ hosts'[Len(hosts) + 1].ip = ip
  <2>1. /\ [ip |-> ip, ports |-> PortsOf(ip)] \in [ip : Hosts, ports : SUBSET Ports]
        /\ hosts \in Seq([ip : Hosts, ports : SUBSET Ports])
    BY PortsOfType DEF TypeOK
  <2> QED BY <1>1, <2>1, AppendFacts
<1>3. \A i \in DOMAIN lines : lines[i].event \notin Terminal
  BY <1>1 DEF LineParts, LinesInOrder, Terminal
<1>4. StreamCoversReport'
  BY <1>1, <1>3 DEF StreamCoversReport, Terminal
<1>5. \A k \in DOMAIN hosts' : enriching'[hosts'[k].ip] = "done" =>
          k \in DOMAIN hosts /\ hosts'[k] = hosts[k] /\ enriching[hosts[k].ip] = "done"
  <2>1. \A k \in DOMAIN hosts : hosts[k].ip \in Hosts
    BY RowTypes
  <2>2. enriching \in [Hosts -> {"none", "running", "announcing", "done"}]
    BY DEF TypeOK
  <2>3. enriching'[ip] # "done" /\ \A h \in Hosts \ {ip} : enriching'[h] = enriching[h]
    BY <1>1, <2>2
  <2>4. ASSUME NEW k \in DOMAIN hosts', enriching'[hosts'[k].ip] = "done"
        PROVE  k \in DOMAIN hosts /\ hosts'[k] = hosts[k] /\ enriching[hosts[k].ip] = "done"
    <3>1. k \in DOMAIN hosts /\ hosts'[k] = hosts[k]
      BY <1>2, <2>3, <2>4
    <3> QED BY <2>1, <2>3, <2>4, <3>1
  <2> QED BY <2>4
<1>6. LinesInOrder'
  BY <1>1, <1>5 DEF LineParts, LinesInOrder, HearsPortFound, StreamJSON, ProgressURL
<1> QED BY <1>4, <1>6 DEF LineParts

(* The terminal line: every port and every row has its line before it.     *)
LEMMA FinishLines ==
    ASSUME TypeOK, PortPhaseOver, HostsInStep, RowsAreCounted, LineParts, FinishStream
    PROVE  LineParts'
<1>1. PICK name \in Terminal : Emit(Event(name, NoIP))
  BY DEF FinishStream, Terminal
<1> DEFINE e == Event(name, NoIP)
<1>2. /\ UNCHANGED <<options, reported, found, enriching, hosts>>
      /\ main = "finishStream" /\ main' = "json"
  BY DEF FinishStream, portVars, enrichVars
<1>3. CASE ~StreamJSON
  <2>1. lines' = lines /\ Step
    BY <1>1, <1>3 DEF Emit, Step, Main
  <2> QED BY <1>2, <2>1, LinesStep DEF Written
<1>4. CASE StreamJSON
  <2>0. PICK last : last = Len(lines) + 1
    OBVIOUS
  <2>1. lines \in Seq(LineEvents) /\ e \in LineEvents /\ lines' = Append(lines, e)
    BY <1>1, <1>4, EventTypes DEF TypeOK, Emit, Terminal, PlainEvents
  <2>2. /\ DOMAIN lines = 1..Len(lines) /\ Len(lines) \in Nat
        /\ DOMAIN lines' = DOMAIN lines \cup {last}
        /\ \A i \in DOMAIN lines : lines'[i] = lines[i]
    BY <2>0, <2>1, LineFacts
  <2>3. \A i \in DOMAIN lines : lines[i].event \notin Terminal
    BY <1>2 DEF LineParts, LinesInOrder, Terminal
  <2>4. DOMAIN lines \subseteq 1..last
    BY <2>0, <2>2
  <2>5. ~ProgressURL => \A j \in found : \E i \in DOMAIN lines : lines[i] = PortLine(j)
    <3>1. reported = found
      BY <1>2 DEF PortPhaseOver
    <3> QED BY <1>4, <3>1 DEF LineParts, LinesInOrder, HearsPortFound, PortLine
  <2>6. \A k \in DOMAIN hosts : \E i \in DOMAIN lines : lines[i] = RowLine(hosts[k])
    <3>1. \A k \in DOMAIN hosts : hosts[k].ip \in Counted
      BY DEF RowsAreCounted
    <3>2. \A ip \in Counted : enriching[ip] = "done"
      BY <1>2 DEF HostsInStep, Enriched, Counted
    <3> QED BY <1>4, <3>1, <3>2 DEF LineParts, LinesInOrder, RowLine
  <2>7. StreamCoversReport'
    <3>1. \A other \in DOMAIN lines' : lines'[other].event \in Terminal => other = last
      BY <2>2, <2>3
    <3>2. /\ ~ProgressURL => \A j \in found : \E i \in 1..last : lines'[i] = PortLine(j)
          /\ \A k \in DOMAIN hosts : \E i \in 1..last : lines'[i] = RowLine(hosts[k])
      BY <2>2, <2>4, <2>5, <2>6
    <3> QED BY <1>2, <3>1, <3>2 DEF StreamCoversReport, Terminal, PortLine, RowLine, ProgressURL
  <2>8. LinesInOrder'
    <3>1. HearsPortFound => \A j \in reported : \E i \in DOMAIN lines' : lines'[i] = PortLine(j)
      BY <2>2 DEF LineParts, LinesInOrder, PortLine
    <3>2. \A k \in DOMAIN hosts : \E i \in DOMAIN lines' : lines'[i] = RowLine(hosts[k])
      BY <2>2, <2>6
    <3> QED BY <1>2, <3>1, <3>2 DEF LinesInOrder, PortLine, RowLine, HearsPortFound, StreamJSON, ProgressURL
  <2> QED BY <2>7, <2>8 DEF LineParts
<1> QED BY <1>3, <1>4

LEMMA LinesPreserved ==
    ASSUME TypeOK, PortPhaseOver, HostsInStep, ReadyCounts, RowsAreCounted, LineParts, Step
    PROVE  LineParts'
<1>1. CASE \E j \in Jobs : Collect(j) \/ DeepAnswer(j)
  BY <1>1, CollectLines, AnswerLines
<1>2. CASE StartEnrich \/ FinishStream
  BY <1>2, StartLines, FinishLines
<1>3. CASE \E ip \in Hosts : Host(ip)
  BY <1>3, EnrichedLines, AnnounceLines DEF Host
<1>4. CASE \/ \E j \in Jobs : Probe(j)
           \/ EndScan \/ Ticker \/ DiscoveryEnds \/ Cancel
  <2>1. UNCHANGED <<lines, options, reported, hosts, enriching>>
    BY <1>4 DEF Probe, EndScan, Ticker, TickRead, TickDeliver, TickStop, DiscoveryEnds, Cancel,
       Port!ProbeOpen, Port!ProbeClosed, Port!Finish, Port!Cancel, portVars, enrichVars
  <2>2. main \in Written => main' \in Written
    BY <1>4 DEF Probe, EndScan, Ticker, TickRead, TickDeliver, TickStop, DiscoveryEnds, Cancel, Written
  <2> QED BY <2>1, <2>2, LinesStep
<1>5. CASE StartDeep \/ EndDeep \/ DeepBreak \/ \E j \in Jobs : DeepSpawn(j) \/ DeepFail(j)
  <2>1. UNCHANGED <<lines, options, reported, hosts, enriching>>
    BY <1>5 DEF StartDeep, EndDeep, DeepBreak, DeepSpawn, DeepFail, portVars, enrichVars
  <2>2. main \in Written => main' \in Written
    BY <1>5 DEF StartDeep, EndDeep, DeepBreak, DeepSpawn, DeepFail, Written
  <2> QED BY <2>1, <2>2, LinesStep
<1>6. CASE FinishTUI \/ FinishWebhook \/ WriteArtifact
  <2>1. UNCHANGED <<lines, options, reported, hosts, enriching>>
    BY <1>6 DEF FinishTUI, FinishWebhook, WriteArtifact, portVars, enrichVars
  <2>2. main \in Written => main' \in Written
    BY <1>6 DEF FinishTUI, FinishWebhook, WriteArtifact, After, Written
  <2> QED BY <2>1, <2>2, LinesStep
<1> QED BY <1>1, <1>2, <1>3, <1>4, <1>5, <1>6 DEF Step, Main, Deep

-----------------------------------------------------------------------------
(* What the monitors say of the end.                                       *)

(* A step that says nothing of the end, and is not the end.                *)
LEMMA VerdictsKept ==
    ASSUME VerdictsAgree, options' = options, cancelled => cancelled',
           Posted("scan_completed")' = Posted("scan_completed"),
           Posted("scan_cancelled")' = Posted("scan_cancelled"),
           LinesOf("scan_completed")' = LinesOf("scan_completed"),
           LinesOf("scan_failed")' = LinesOf("scan_failed"),
           main' \in Webhook <=> main \in Webhook, main' \in Written <=> main \in Written
    PROVE  VerdictsAgree'
<1>1. TerminalPosts' = TerminalPosts /\ TerminalLines' = TerminalLines
  BY DEF TerminalPosts, TerminalLines
<1>2. (ProgressURL' <=> ProgressURL) /\ (StreamJSON' <=> StreamJSON)
  BY DEF ProgressURL, StreamJSON
<1> QED BY <1>1, <1>2 DEF VerdictsAgree, Webhook, Written

(* Any other event leaves the verdicts as they are.                        *)
LEMMA OtherPost ==
    ASSUME TypeOK, NEW e \in PostEvents, Post(e),
           e.event \notin {"scan_completed", "scan_cancelled"}
    PROVE  /\ Posted("scan_completed")' = Posted("scan_completed")
           /\ Posted("scan_cancelled")' = Posted("scan_cancelled")
<1>1. CASE posts' = posts
  BY <1>1 DEF Posted
<1>2. CASE posts' = Append(posts, e)
  BY <1>2, PostFacts DEF TypeOK
<1> QED BY <1>1, <1>2 DEF Post

LEMMA OneMoreLine ==
    ASSUME TypeOK, NEW e \in LineEvents, lines' = Append(lines, e)
    PROVE  /\ \A name : e.event # name => LinesOf(name)' = LinesOf(name)
           /\ LinesOf(e.event)' = LinesOf(e.event) \cup {Len(lines) + 1}
<1>1. /\ DOMAIN lines' = DOMAIN lines \cup {Len(lines) + 1}
      /\ \A i \in DOMAIN lines : lines'[i] = lines[i]
      /\ lines'[Len(lines) + 1] = e
  BY LineFacts DEF TypeOK
<1>2. \A name : e.event # name => LinesOf(name)' = LinesOf(name)
  BY <1>1 DEF LinesOf
<1>3. LinesOf(e.event)' = LinesOf(e.event) \cup {Len(lines) + 1}
  BY <1>1 DEF LinesOf
<1> QED BY <1>2, <1>3

LEMMA OtherLine ==
    ASSUME TypeOK, NEW e \in LineEvents, Emit(e), e.event \notin Terminal
    PROVE  /\ LinesOf("scan_completed")' = LinesOf("scan_completed")
           /\ LinesOf("scan_failed")' = LinesOf("scan_failed")
<1>1. CASE lines' = lines
  BY <1>1 DEF LinesOf
<1>2. CASE lines' = Append(lines, e)
  BY <1>2, OneMoreLine DEF Terminal
<1> QED BY <1>1, <1>2 DEF Emit

(* The webhook's Finish: the first verdict, by what the context says now.  *)
LEMMA FinishWebhookVerdict ==
    ASSUME TypeOK, VerdictsAgree, LinesInOrder, FinishWebhook
    PROVE  VerdictsAgree'
<1>1. PICK name \in {"scan_cancelled", "scan_completed"} :
           Post(Event(name, NoIP)) /\ (name = "scan_cancelled" => cancelled)
  BY DEF FinishWebhook
<1> DEFINE e == Event(name, NoIP)
<1>2. /\ main = "finishWebhook" /\ main' = "finishStream"
      /\ UNCHANGED <<options, cancelled, lines>>
  BY DEF FinishWebhook, portVars
<1>3. /\ LinesOf("scan_completed")' = LinesOf("scan_completed")
      /\ LinesOf("scan_failed")' = LinesOf("scan_failed")
      /\ TerminalLines' = TerminalLines
  BY <1>2 DEF LinesOf, TerminalLines
<1>4. (ProgressURL' <=> ProgressURL) /\ (StreamJSON' <=> StreamJSON)
  BY <1>2 DEF ProgressURL, StreamJSON
<1>5. CASE ~ProgressURL
  <2>1. posts' = posts
    BY <1>1, <1>5 DEF Post
  <2>2. /\ Posted("scan_completed")' = Posted("scan_completed")
        /\ Posted("scan_cancelled")' = Posted("scan_cancelled")
        /\ TerminalPosts' = TerminalPosts
    BY <2>1 DEF Posted, TerminalPosts
  <2> QED BY <1>2, <1>3, <1>4, <1>5, <2>2 DEF VerdictsAgree
<1>6. CASE ProgressURL
  <2>1. /\ e \in PostEvents /\ e.event = name /\ posts \in Seq(PostEvents)
        /\ posts' = Append(posts, e)
    BY <1>1, <1>6, EventTypes DEF Post, PlainEvents, TypeOK
  <2>2. TerminalPosts = {} /\ Posted("scan_cancelled") = {} /\ Posted("scan_completed") = {}
    BY <1>2, <1>6 DEF VerdictsAgree, TerminalPosts
  <2>3. /\ Posted(name)' = {Len(posts) + 1}
        /\ \A other \in {"scan_cancelled", "scan_completed"} :
              other # name => Posted(other)' = {}
    BY <2>1, <2>2, PostFacts
  <2>4. TerminalPosts' = {Len(posts) + 1}
    BY <2>3 DEF TerminalPosts
  <2>5. Posted("scan_cancelled")' # {} => cancelled
    BY <1>1, <2>3
  <2>6. LinesOf("scan_completed") = {}
    BY <1>2 DEF LinesInOrder, LinesOf
  <2> QED BY <1>2, <1>3, <1>4, <2>4, <2>5, <2>6 DEF VerdictsAgree
<1> QED BY <1>5, <1>6

(* The stream's Finish: by then the context may be done, never the other   *)
(* way round.                                                              *)
LEMMA FinishStreamVerdict ==
    ASSUME TypeOK, VerdictsAgree, LinesInOrder, FinishStream
    PROVE  VerdictsAgree'
<1>1. PICK name \in Terminal :
           /\ Emit(Event(name, NoIP))
           /\ name = IF cancelled THEN "scan_failed" ELSE "scan_completed"
  BY DEF FinishStream, Terminal
<1> DEFINE e == Event(name, NoIP)
<1>2. /\ main = "finishStream" /\ main' = "json"
      /\ UNCHANGED <<options, cancelled, posts>>
  BY DEF FinishStream, portVars
<1>3. /\ Posted("scan_completed")' = Posted("scan_completed")
      /\ Posted("scan_cancelled")' = Posted("scan_cancelled")
      /\ TerminalPosts' = TerminalPosts
  BY <1>2 DEF Posted, TerminalPosts
<1>4. (ProgressURL' <=> ProgressURL) /\ (StreamJSON' <=> StreamJSON)
  BY <1>2 DEF ProgressURL, StreamJSON
<1>5. LinesOf("scan_completed") = {} /\ LinesOf("scan_failed") = {}
  BY <1>2 DEF LinesInOrder, LinesOf
<1>6. CASE ~StreamJSON
  <2>1. lines' = lines
    BY <1>1, <1>6 DEF Emit
  <2>2. /\ LinesOf("scan_completed")' = {} /\ LinesOf("scan_failed")' = {}
        /\ TerminalLines' = {}
    BY <1>5, <2>1 DEF LinesOf, TerminalLines
  <2> QED BY <1>2, <1>3, <1>4, <1>6, <2>2 DEF VerdictsAgree
<1>7. CASE StreamJSON
  <2>1. e \in LineEvents /\ e.event = name /\ lines' = Append(lines, e)
    BY <1>1, <1>7, EventTypes DEF Emit, PlainEvents, Terminal
  <2>2. /\ LinesOf(name)' = {Len(lines) + 1}
        /\ \A other \in Terminal : other # name => LinesOf(other)' = {}
    BY <1>5, <2>1, OneMoreLine DEF Terminal
  <2>3. TerminalLines' = {Len(lines) + 1}
    BY <2>2 DEF TerminalLines, Terminal
  <2>4. LinesOf("scan_failed")' # {} => cancelled
    BY <1>1, <2>2 DEF Terminal
  <2>5. Posted("scan_cancelled") # {} => LinesOf("scan_completed")' = {}
    BY <1>1, <2>2 DEF VerdictsAgree, Terminal
  <2> QED BY <1>2, <1>3, <1>4, <2>3, <2>4, <2>5 DEF VerdictsAgree
<1> QED BY <1>6, <1>7

LEMMA VerdictsPreserved ==
    ASSUME TypeOK, LinesInOrder, VerdictsAgree, Step
    PROVE  VerdictsAgree'
<1>0. ASSUME UNCHANGED <<posts, lines, options>>, cancelled => cancelled',
             main' \in Webhook <=> main \in Webhook, main' \in Written <=> main \in Written
      PROVE  VerdictsAgree'
  <2>1. /\ \A name : Posted(name)' = Posted(name)
        /\ \A name : LinesOf(name)' = LinesOf(name)
    BY <1>0 DEF Posted, LinesOf
  <2> QED BY <1>0, <2>1, VerdictsKept
<1>1. CASE \/ \E j \in Jobs : Probe(j)
           \/ EndScan \/ Ticker \/ DiscoveryEnds \/ Cancel \/ (\E ip \in Hosts : HostEnriched(ip))
  <2>1. UNCHANGED <<posts, lines, options>>
    BY <1>1 DEF Probe, EndScan, Ticker, TickRead, TickDeliver, TickStop, DiscoveryEnds, Cancel,
       HostEnriched
  <2>3. cancelled => cancelled'
    <3>1. CASE \E j \in Jobs : Probe(j)
      BY <3>1 DEF Probe, Port!ProbeOpen, Port!ProbeClosed
    <3>2. CASE EndScan
      BY <3>2 DEF EndScan, Port!Finish
    <3>3. CASE Cancel
      BY <3>3 DEF Cancel, Port!Cancel
    <3>4. CASE Ticker \/ DiscoveryEnds \/ (\E ip \in Hosts : HostEnriched(ip))
      BY <3>4 DEF Ticker, TickRead, TickDeliver, TickStop, DiscoveryEnds, HostEnriched, portVars
    <3> QED BY <1>1, <3>1, <3>2, <3>3, <3>4
  <2>2. (main' \in Webhook <=> main \in Webhook) /\ (main' \in Written <=> main \in Written)
    BY <1>1 DEF Probe, EndScan, Ticker, TickRead, TickDeliver, TickStop, DiscoveryEnds, Cancel,
       HostEnriched, Webhook, Written
  <2> QED BY <1>0, <2>1, <2>2, <2>3
<1>7. CASE \/ \E j \in Jobs : DeepSpawn(j) \/ DeepFail(j)
           \/ StartDeep \/ DeepBreak \/ EndDeep \/ FinishTUI \/ WriteArtifact
  <2>1. UNCHANGED <<posts, lines, options, cancelled>>
    BY <1>7 DEF DeepSpawn, DeepFail, StartDeep, DeepBreak, EndDeep, FinishTUI, WriteArtifact,
       portVars
  <2>2. (main' \in Webhook <=> main \in Webhook) /\ (main' \in Written <=> main \in Written)
    BY <1>7 DEF DeepSpawn, DeepFail, StartDeep, DeepBreak, EndDeep, FinishTUI, WriteArtifact,
       After, Webhook, Written
  <2> QED BY <1>0, <2>1, <2>2
<1>2. ASSUME NEW j \in Jobs, Collect(j)
      PROVE  VerdictsAgree'
  <2> DEFINE p == Event("host_discovered", j[1])
             l == [event |-> "target_found", ip |-> j[1], port |-> j[2]]
  <2>1. /\ UNCHANGED <<options, main, cancelled>>
        /\ posts' = posts \/ Post(p)
        /\ lines' = lines \/ Emit(l)
    BY <1>2 DEF Collect, Port!Report
  <2>2. /\ p \in PostEvents /\ p.event \notin {"scan_completed", "scan_cancelled"}
        /\ l \in LineEvents /\ l.event \notin Terminal
    BY PortLineTypes, EventTypes DEF PlainEvents, Terminal
  <2>3. /\ Posted("scan_completed")' = Posted("scan_completed")
        /\ Posted("scan_cancelled")' = Posted("scan_cancelled")
    BY <2>1, <2>2, OtherPost DEF Posted
  <2>4. /\ LinesOf("scan_completed")' = LinesOf("scan_completed")
        /\ LinesOf("scan_failed")' = LinesOf("scan_failed")
    BY <2>1, <2>2, OtherLine DEF LinesOf
  <2> QED BY <2>1, <2>3, <2>4, VerdictsKept
<1>3. CASE StartEnrich
  <2> DEFINE p == Event("enrichment_started", NoIP)
             l == Event("enriching", NoIP)
  <2>1. /\ UNCHANGED <<options, cancelled>> /\ main = "discovery" /\ main' = "enriching"
        /\ Post(p) /\ Emit(l)
    BY <1>3 DEF StartEnrich, portVars
  <2>2. /\ p \in PostEvents /\ p.event \notin {"scan_completed", "scan_cancelled"}
        /\ l \in LineEvents /\ l.event \notin Terminal
    BY EventTypes DEF PlainEvents, Terminal
  <2>3. (main' \in Webhook <=> main \in Webhook) /\ (main' \in Written <=> main \in Written)
    BY <2>1 DEF Webhook, Written
  <2> QED BY <2>1, <2>2, <2>3, OtherPost, OtherLine, VerdictsKept
<1>4. ASSUME NEW ip \in Hosts, HostAnnounced(ip)
      PROVE  VerdictsAgree'
  <2> DEFINE p == [event |-> "enrichment_progress", ip |-> ip, ready |-> readyAt[ip]]
             l == Updated(ip, PortsOf(ip))
  <2>1. /\ UNCHANGED <<options, main, cancelled>>
        /\ posts' = posts \/ Post(p)
        /\ Emit(l)
    BY <1>4 DEF HostAnnounced, portVars
  <2>2. /\ p \in PostEvents /\ p.event \notin {"scan_completed", "scan_cancelled"}
        /\ l \in LineEvents /\ l.event \notin Terminal
    BY FigureTypes, HostLineTypes, PortsOfType DEF Terminal, TypeOK
  <2>3. /\ Posted("scan_completed")' = Posted("scan_completed")
        /\ Posted("scan_cancelled")' = Posted("scan_cancelled")
    BY <2>1, <2>2, OtherPost DEF Posted
  <2> QED BY <2>1, <2>2, <2>3, OtherLine, VerdictsKept
<1>5. ASSUME NEW j \in Jobs, DeepAnswer(j)
      PROVE  VerdictsAgree'
  <2> DEFINE p == Event("http_probe_complete", j[1])
             l == Updated(j[1], {j[2]})
  <2>1. /\ UNCHANGED <<options, main, cancelled>>
        /\ posts' = posts \/ Post(p)
        /\ lines' = lines \/ Emit(l)
    BY <1>5 DEF DeepAnswer, portVars
  <2>2. /\ p \in PostEvents /\ p.event \notin {"scan_completed", "scan_cancelled"}
    BY PortLineTypes, EventTypes DEF PlainEvents
  <2>5. l \in LineEvents /\ l.event \notin Terminal
    <3>1. j[1] \in Hosts /\ {j[2]} \in SUBSET Ports
      BY PortLineTypes
    <3> QED BY <3>1, HostLineTypes DEF Terminal
  <2>3. /\ Posted("scan_completed")' = Posted("scan_completed")
        /\ Posted("scan_cancelled")' = Posted("scan_cancelled")
    BY <2>1, <2>2, OtherPost DEF Posted
  <2>4. /\ LinesOf("scan_completed")' = LinesOf("scan_completed")
        /\ LinesOf("scan_failed")' = LinesOf("scan_failed")
    BY <2>1, <2>5, OtherLine DEF LinesOf
  <2> QED BY <2>1, <2>3, <2>4, VerdictsKept
<1>6. CASE FinishWebhook \/ FinishStream
  BY <1>6, FinishWebhookVerdict, FinishStreamVerdict
<1> QED BY <1>1, <1>2, <1>3, <1>4, <1>5, <1>6, <1>7 DEF Step, Main, Deep, Host

-----------------------------------------------------------------------------
(* The slots of the second pass.                                           *)

LEMMA SlotsPreserved ==
    ASSUME TypeOK, SlotsRespected, Step
    PROVE  SlotsRespected'
<1>1. IsFiniteSet(Spawned) /\ Cardinality(Spawned) \in Nat
  <2>1. Spawned \subseteq Jobs
    BY DEF Spawned
  <2> QED BY <2>1, FiniteRun, FS_Subset, FS_CardinalityType
<1>2. ProbeWorkers \in Nat
  BY RunAssumption
<1>3. ASSUME NEW j \in Jobs, DeepSpawn(j)
      PROVE  SlotsRespected'
  <2>1. Spawned' = Spawned \cup {j} /\ j \notin Spawned /\ Cardinality(Spawned) < ProbeWorkers
    BY <1>3 DEF DeepSpawn, Spawned, TypeOK
  <2>2. Cardinality(Spawned') = Cardinality(Spawned) + 1
    BY <1>1, <2>1, FS_AddElement
  <2> QED BY <1>1, <1>2, <2>1, <2>2 DEF SlotsRespected
<1>4. CASE Spawned' \subseteq Spawned
  <2>1. Cardinality(Spawned') \in Nat /\ Cardinality(Spawned') <= Cardinality(Spawned)
    BY <1>1, <1>4, FS_Subset, FS_CardinalityType
  <2> QED BY <1>1, <1>2, <2>1 DEF SlotsRespected
<1>5. ASSUME \A j \in Jobs : ~DeepSpawn(j)
      PROVE  Spawned' \subseteq Spawned
  <2>1. CASE StartDeep \/ Deep
    <3>1. \A j \in Jobs : deep'[j] = "running" => deep[j] = "running"
      <4>1. CASE StartDeep
        BY <4>1 DEF StartDeep
      <4>2. CASE DeepBreak
        BY <4>2 DEF DeepBreak
      <4>3. ASSUME NEW j \in Jobs, DeepAnswer(j) \/ DeepFail(j)
            PROVE  deep' = [deep EXCEPT ![j] = "done"]
        BY <4>3 DEF DeepAnswer, DeepFail
      <4> QED BY <1>5, <2>1, <4>1, <4>2, <4>3 DEF Deep, TypeOK
    <3> QED BY <3>1 DEF Spawned
  <2>2. CASE ~StartDeep /\ ~Deep
    <3>1. deep' = deep
      BY <2>2 DEF Step, Main, Collect, EndScan, StartEnrich, EndDeep, FinishTUI, FinishWebhook,
         FinishStream, WriteArtifact, Ticker, TickRead, TickDeliver, TickStop, DiscoveryEnds,
         Cancel, Probe, Host, HostEnriched, HostAnnounced, deepVars
    <3> QED BY <3>1 DEF Spawned
  <2> QED BY <2>1, <2>2
<1> QED BY <1>3, <1>4, <1>5

-----------------------------------------------------------------------------
(* The events of a monitor come phase by phase.                            *)

LEMMA PhaseValues ==
    /\ \A name \in DOMAIN PostPhase : PostPhase[name] \in Nat
    /\ \A name \in DOMAIN LinePhase : LinePhase[name] \in Nat /\ LinePhase[name] <= 3
    /\ {"host_discovered", "enrichment_started", "enrichment_progress", "http_probe_complete",
        "scan_completed", "scan_cancelled"} \subseteq DOMAIN PostPhase
    /\ {"target_found", "enriching", "target_updated", "scan_completed", "scan_failed"}
           \subseteq DOMAIN LinePhase
    /\ PostPhase["host_discovered"] = 1 /\ PostPhase["enrichment_started"] = 2
    /\ PostPhase["enrichment_progress"] = 3 /\ PostPhase["http_probe_complete"] = 4
    /\ PostPhase["scan_completed"] = 4 /\ PostPhase["scan_cancelled"] = 4
    /\ LinePhase["target_found"] = 1 /\ LinePhase["enriching"] = 2
    /\ LinePhase["target_updated"] = 3 /\ LinePhase["scan_completed"] = 3
    /\ LinePhase["scan_failed"] = 3
BY DEF PostPhase, LinePhase

(* An event may follow those of its own phase and of earlier ones.         *)
LEMMA OneMoreInTurn ==
    ASSUME NEW E, NEW s \in Seq(E), NEW e \in E, NEW phase, NEW top \in Nat,
           \A name \in DOMAIN phase : phase[name] \in Nat,
           InTurn(s, phase), e.event \in DOMAIN phase, phase[e.event] <= top,
           \A i \in DOMAIN s : phase[s[i].event] <= phase[e.event]
    PROVE  /\ InTurn(Append(s, e), phase)
           /\ \A i \in DOMAIN Append(s, e) : phase[Append(s, e)[i].event] <= top
<1> DEFINE t == Append(s, e)
           n == Len(s) + 1
<1>1. /\ n \in Nat /\ DOMAIN t = DOMAIN s \cup {n} /\ t[n] = e
      /\ \A i \in DOMAIN s : i \in Nat /\ i < n /\ t[i] = s[i]
  BY AppendFacts
<1> HIDE DEF t, n
<1>2. \A i \in DOMAIN t : /\ t[i].event \in DOMAIN phase
                         /\ phase[t[i].event] \in Nat /\ phase[t[i].event] <= phase[e.event]
  BY <1>1 DEF InTurn
<1>3. ASSUME NEW i \in DOMAIN t, NEW k \in DOMAIN t, i < k
      PROVE  phase[t[i].event] <= phase[t[k].event]
  <2>1. CASE k = n
    BY <1>1, <1>2, <2>1
  <2>2. CASE k # n
    <3>1. k \in DOMAIN s /\ i # n
      BY <1>1, <1>3, <2>2
    <3>2. i \in DOMAIN s
      BY <1>1, <3>1
    <3> QED BY <1>1, <1>3, <3>1, <3>2 DEF InTurn
  <2> QED BY <2>1, <2>2
<1>4. \A i \in DOMAIN t : phase[t[i].event] <= top
  BY <1>2
<1>5. InTurn(t, phase)
  BY <1>2, <1>3 DEF InTurn
<1> QED BY <1>4, <1>5 DEF t

(* What a monitor has sent is below every figure above its last event.     *)
LEMMA StaysBelow ==
    ASSUME NEW s, NEW phase, NEW low \in Nat, NEW top \in Nat, low <= top,
           \A name \in DOMAIN phase : phase[name] \in Nat, InTurn(s, phase),
           \A i \in DOMAIN s : phase[s[i].event] <= low
    PROVE  \A i \in DOMAIN s : phase[s[i].event] <= top
BY DEF InTurn

LEMMA PostInTurn ==
    ASSUME TypeOK, EventsInPhases, NEW e \in PostEvents, posts' = posts \/ Post(e),
           e.event \in DOMAIN PostPhase, NEW top \in Nat, PostPhase[e.event] <= top,
           PhaseNow <= PostPhase[e.event]
    PROVE  /\ InTurn(posts', PostPhase)
           /\ \A i \in DOMAIN posts' : PostPhase[posts'[i].event] <= top
<1>1. PhaseNow \in Nat /\ PostPhase[e.event] \in Nat
  BY PhaseValues DEF PhaseNow
<1>2. /\ posts \in Seq(PostEvents) /\ InTurn(posts, PostPhase)
      /\ \A i \in DOMAIN posts : PostPhase[posts[i].event] <= PhaseNow
  BY DEF TypeOK, EventsInPhases
<1>3. \A i \in DOMAIN posts : PostPhase[posts[i].event] <= PostPhase[e.event]
  BY <1>1, <1>2, PhaseValues, StaysBelow
<1>4. CASE posts' = posts
  <2>1. \A i \in DOMAIN posts : PostPhase[posts[i].event] <= top
    BY <1>1, <1>2, <1>3, PhaseValues, StaysBelow
  <2> QED BY <1>2, <1>4, <2>1
<1>5. CASE posts' = Append(posts, e)
  <2>1. /\ InTurn(Append(posts, e), PostPhase)
        /\ \A i \in DOMAIN Append(posts, e) : PostPhase[Append(posts, e)[i].event] <= top
    BY <1>2, <1>3, PhaseValues, OneMoreInTurn
  <2> QED BY <1>5, <2>1
<1> QED BY <1>4, <1>5 DEF Post

LEMMA LineInTurn ==
    ASSUME TypeOK, EventsInPhases, NEW e \in LineEvents, lines' = lines \/ Emit(e),
           e.event \in DOMAIN LinePhase, NEW top \in Nat, LinePhase[e.event] <= top,
           \/ PhaseNow <= LinePhase[e.event] \/ LinePhase[e.event] = 3
    PROVE  /\ InTurn(lines', LinePhase)
           /\ \A i \in DOMAIN lines' : LinePhase[lines'[i].event] <= top
<1>1. PhaseNow \in Nat /\ LinePhase[e.event] \in Nat
  BY PhaseValues DEF PhaseNow
<1>2. /\ lines \in Seq(LineEvents) /\ InTurn(lines, LinePhase)
      /\ \A i \in DOMAIN lines : LinePhase[lines[i].event] <= PhaseNow
  BY DEF TypeOK, EventsInPhases
<1>3. \A i \in DOMAIN lines : LinePhase[lines[i].event] <= LinePhase[e.event]
  <2>1. CASE PhaseNow <= LinePhase[e.event]
    BY <1>1, <1>2, <2>1, PhaseValues, StaysBelow
  <2>2. CASE LinePhase[e.event] = 3
    BY <1>2, <2>2, PhaseValues DEF InTurn
  <2> QED BY <2>1, <2>2
<1>4. CASE lines' = lines
  <2>1. \A i \in DOMAIN lines : LinePhase[lines[i].event] <= top
    BY <1>1, <1>2, <1>3, PhaseValues, StaysBelow
  <2> QED BY <1>2, <1>4, <2>1
<1>5. CASE lines' = Append(lines, e)
  <2>1. /\ InTurn(Append(lines, e), LinePhase)
        /\ \A i \in DOMAIN Append(lines, e) : LinePhase[Append(lines, e)[i].event] <= top
    BY <1>2, <1>3, PhaseValues, OneMoreInTurn
  <2> QED BY <1>5, <2>1
<1> QED BY <1>4, <1>5 DEF Emit

(* A step that sends nothing, and does not go back to an earlier phase.    *)
LEMMA QuietPhases ==
    ASSUME EventsInPhases, UNCHANGED <<posts, lines>>, NEW top \in Nat, PhaseNow <= top,
           PhaseNow' = top, \A j \in Jobs : deep'[j] # "none" => Enriched'
    PROVE  EventsInPhases'
<1>1. PhaseNow \in Nat
  BY DEF PhaseNow
<1>2. /\ \A i \in DOMAIN posts : PostPhase[posts[i].event] <= top
      /\ \A i \in DOMAIN lines : LinePhase[lines[i].event] <= top
  BY <1>1, PhaseValues, StaysBelow DEF EventsInPhases
<1>3. /\ \A i \in DOMAIN posts' : PostPhase[posts'[i].event] <= PhaseNow'
      /\ \A i \in DOMAIN lines' : LinePhase[lines'[i].event] <= PhaseNow'
      /\ InTurn(posts', PostPhase) /\ InTurn(lines', LinePhase)
  BY <1>2 DEF EventsInPhases
<1> QED BY <1>3 DEF EventsInPhases

LEMMA EventsPreserved ==
    ASSUME TypeOK, HostsInStep, EventsInPhases, Step
    PROVE  EventsInPhases'
<1>0. ASSUME NEW p \in PostEvents, NEW l \in LineEvents, posts' = posts \/ Post(p),
             lines' = lines \/ Emit(l),
             p.event \in DOMAIN PostPhase, l.event \in DOMAIN LinePhase, NEW top \in Nat,
             PostPhase[p.event] <= top, LinePhase[l.event] <= top, PhaseNow <= PostPhase[p.event],
             PhaseNow <= LinePhase[l.event] \/ LinePhase[l.event] = 3,
             PhaseNow' = top, \A j \in Jobs : deep'[j] # "none" => Enriched'
      PROVE  EventsInPhases'
  <2>1. /\ InTurn(posts', PostPhase) /\ InTurn(lines', LinePhase)
        /\ \A i \in DOMAIN posts' : PostPhase[posts'[i].event] <= top
        /\ \A i \in DOMAIN lines' : LinePhase[lines'[i].event] <= top
    BY <1>0, PostInTurn, LineInTurn
  <2>2. /\ \A i \in DOMAIN posts' : PostPhase[posts'[i].event] <= PhaseNow'
        /\ \A i \in DOMAIN lines' : LinePhase[lines'[i].event] <= PhaseNow'
    BY <1>0, <2>1
  <2> QED BY <1>0, <2>1, <2>2 DEF EventsInPhases
<1>1. ASSUME NEW j \in Jobs, Collect(j)
      PROVE  EventsInPhases'
  <2> DEFINE p == Event("host_discovered", j[1])
             l == [event |-> "target_found", ip |-> j[1], port |-> j[2]]
  <2>1. /\ main = "scanning" /\ main' = main /\ deep' = deep
        /\ posts' = posts \/ Post(p)
        /\ lines' = lines \/ Emit(l)
    BY <1>1 DEF Collect, deepVars
  <2>2. p \in PostEvents /\ p.event = "host_discovered" /\ l \in LineEvents /\ l.event = "target_found"
    BY PortLineTypes, EventTypes DEF PlainEvents
  <2>3. PhaseNow = 1 /\ PhaseNow' = 1
    BY <2>1 DEF PhaseNow
  <2>4. \A jp \in Jobs : deep'[jp] # "none" => Enriched'
    BY <2>1 DEF EventsInPhases, Enriched
  <2> HIDE DEF p, l
  <2> QED BY <1>0, <2>1, <2>2, <2>3, <2>4, PhaseValues
<1>2. CASE StartEnrich
  <2> DEFINE p == Event("enrichment_started", NoIP)
             l == Event("enriching", NoIP)
  <2>1. main = "discovery" /\ main' = "enriching" /\ deep' = deep /\ Post(p) /\ Emit(l)
    BY <1>2 DEF StartEnrich, deepVars
  <2>2. p \in PostEvents /\ p.event = "enrichment_started" /\ l \in LineEvents /\ l.event = "enriching"
    BY EventTypes DEF PlainEvents
  <2>3. PhaseNow = 1 /\ PhaseNow' = 3
    BY <2>1 DEF PhaseNow
  <2>4. \A j \in Jobs : deep'[j] # "none" => Enriched'
    BY <2>1 DEF EventsInPhases, Enriched
  <2> HIDE DEF p, l
  <2> QED BY <1>0, <2>1, <2>2, <2>3, <2>4, PhaseValues
<1>3. ASSUME NEW ip \in Hosts, HostAnnounced(ip)
      PROVE  EventsInPhases'
  <2> DEFINE p == [event |-> "enrichment_progress", ip |-> ip, ready |-> readyAt[ip]]
             l == Updated(ip, PortsOf(ip))
  <2>1. /\ main = "enriching" /\ main' = main /\ deep' = deep
        /\ posts' = posts \/ Post(p)
        /\ Emit(l)
    BY <1>3 DEF HostAnnounced, HostsInStep, Enriched, deepVars
  <2>2. /\ p \in PostEvents /\ p.event = "enrichment_progress"
        /\ l \in LineEvents /\ l.event = "target_updated"
    BY FigureTypes, HostLineTypes, PortsOfType DEF TypeOK
  <2>3. PhaseNow = 3 /\ PhaseNow' = 3
    BY <2>1 DEF PhaseNow
  <2>4. \A jp \in Jobs : deep'[jp] # "none" => Enriched'
    BY <2>1 DEF EventsInPhases, Enriched
  <2> HIDE DEF p, l
  <2> QED BY <1>0, <2>1, <2>2, <2>3, <2>4, PhaseValues
<1>4. ASSUME NEW j \in Jobs, DeepAnswer(j)
      PROVE  EventsInPhases'
  <2> DEFINE p == Event("http_probe_complete", j[1])
             l == Updated(j[1], {j[2]})
  <2>1. /\ deep[j] # "none" /\ main' = main
        /\ deep' = [deep EXCEPT ![j] = "done"]
        /\ posts' = posts \/ Post(p)
        /\ lines' = lines \/ Emit(l)
    BY <1>4 DEF DeepAnswer
  <2>2. /\ p \in PostEvents /\ p.event = "http_probe_complete"
        /\ l \in LineEvents /\ l.event = "target_updated"
    <3>1. j[1] \in Hosts /\ {j[2]} \in SUBSET Ports
      BY PortLineTypes
    <3> QED BY <3>1, EventTypes, HostLineTypes DEF PlainEvents
  <2>3. Enriched /\ Enriched'
    BY <2>1 DEF EventsInPhases, Enriched
  <2>4. PhaseNow = 4 /\ PhaseNow' = 4
    BY <2>1, <2>3 DEF PhaseNow, Enriched
  <2> HIDE DEF p, l
  <2> QED BY <1>0, <2>1, <2>2, <2>3, <2>4, PhaseValues
<1>5. CASE FinishWebhook
  <2>1. PICK name \in {"scan_completed", "scan_cancelled"} : Post(Event(name, NoIP))
    BY <1>5 DEF FinishWebhook
  <2> DEFINE p == Event(name, NoIP)
             l == Event("scan_completed", NoIP)
  <2>2. /\ main = "finishWebhook" /\ main' = "finishStream" /\ deep' = deep
        /\ Post(p) /\ lines' = lines
    BY <1>5, <2>1 DEF FinishWebhook, deepVars
  <2>3. /\ p \in PostEvents /\ p.event \in {"scan_completed", "scan_cancelled"}
        /\ l \in LineEvents /\ l.event = "scan_completed"
    BY EventTypes DEF PlainEvents
  <2>4. PhaseNow = 4 /\ PhaseNow' = 4 /\ Enriched'
    BY <2>2 DEF PhaseNow, Enriched
  <2> HIDE DEF p, l
  <2> QED BY <1>0, <2>2, <2>3, <2>4, PhaseValues
<1>6. CASE FinishStream
  <2>1. PICK name \in {"scan_completed", "scan_failed"} : Emit(Event(name, NoIP))
    BY <1>6 DEF FinishStream
  <2> DEFINE p == Event("scan_completed", NoIP)
             l == Event(name, NoIP)
  <2>2. /\ main = "finishStream" /\ main' = "json" /\ deep' = deep
        /\ posts' = posts /\ Emit(l)
    BY <1>6, <2>1 DEF FinishStream, deepVars
  <2>3. /\ p \in PostEvents /\ p.event = "scan_completed"
        /\ l \in LineEvents /\ l.event \in {"scan_completed", "scan_failed"}
    BY EventTypes DEF PlainEvents
  <2>4. PhaseNow = 4 /\ PhaseNow' = 4 /\ Enriched'
    BY <2>2 DEF PhaseNow, Enriched
  <2> HIDE DEF p, l
  <2> QED BY <1>0, <2>2, <2>3, <2>4, PhaseValues
<1>7. CASE \/ (\E j \in Jobs : Probe(j)) \/ Ticker \/ DiscoveryEnds \/ Cancel
           \/ (\E ip \in Hosts : HostEnriched(ip))
  <2>1. UNCHANGED <<posts, lines, main, deep>>
    BY <1>7 DEF Probe, Ticker, TickRead, TickDeliver, TickStop, DiscoveryEnds, Cancel,
       HostEnriched, deepVars
  <2>2. PhaseNow' = PhaseNow /\ PhaseNow \in Nat /\ PhaseNow <= PhaseNow
    BY <2>1 DEF PhaseNow
  <2>3. \A j \in Jobs : deep'[j] # "none" => Enriched'
    BY <2>1 DEF EventsInPhases, Enriched
  <2> QED BY <2>1, <2>2, <2>3, QuietPhases
<1>8. CASE EndScan
  <2>1. /\ UNCHANGED <<posts, lines, deep>> /\ main = "scanning" /\ main' = "discovery"
    BY <1>8 DEF EndScan, deepVars
  <2>2. PhaseNow' = 1 /\ PhaseNow <= 1
    BY <2>1 DEF PhaseNow
  <2>3. \A j \in Jobs : deep'[j] # "none" => Enriched'
    BY <2>1 DEF EventsInPhases, Enriched
  <2> QED BY <2>1, <2>2, <2>3, QuietPhases
<1>9. CASE \/ \E j \in Jobs : DeepSpawn(j) \/ DeepFail(j)
           \/ StartDeep \/ DeepBreak \/ EndDeep \/ FinishTUI \/ WriteArtifact
  <2>1. UNCHANGED <<posts, lines>>
    BY <1>9 DEF DeepSpawn, DeepFail, StartDeep, DeepBreak, EndDeep, FinishTUI, WriteArtifact
  <2>2. main' \notin {"scanning", "discovery", "enriching"}
    <3>1. CASE StartDeep \/ EndDeep \/ FinishTUI \/ WriteArtifact
      BY <3>1 DEF StartDeep, EndDeep, FinishTUI, WriteArtifact, After
    <3>2. CASE DeepBreak \/ \E j \in Jobs : DeepSpawn(j) \/ DeepFail(j)
      <4>1. main' = main /\ \E j \in Jobs : deep[j] # "none"
        BY <3>2 DEF DeepBreak, DeepSpawn, DeepFail
      <4> QED BY <4>1 DEF EventsInPhases, Enriched
    <3> QED BY <1>9, <3>1, <3>2
  <2>3. PhaseNow' = 4 /\ PhaseNow <= 4 /\ Enriched'
    BY <2>2 DEF PhaseNow, Enriched
  <2> QED BY <2>1, <2>3, QuietPhases
<1> QED BY <1>1, <1>2, <1>3, <1>4, <1>5, <1>6, <1>7, <1>8, <1>9 DEF Step, Main, Deep, Host

-----------------------------------------------------------------------------
(* The inductive invariant, and the theorems.                              *)

LEMMA InitRunInv == Init => RunInv
<1> SUFFICES ASSUME Init PROVE RunInv
  OBVIOUS
<1>1. TypeOK
  BY InitTypeOK
<1>2. /\ main = "scanning" /\ hosts = <<>> /\ ready = 0 /\ total = 0
      /\ \A ip \in Hosts : enriching[ip] = "none"
      /\ reported = {} /\ answered = {}
      /\ \A j \in Jobs : deep[j] = "none"
  BY DEF Init, Port!Init
<1>3. Counted = {}
  BY <1>2 DEF Counted
<1>4. PortPhaseOver /\ HostsInStep
  BY <1>2 DEF PortPhaseOver, HostsInStep, Enriched
<1>5. ReadyCounts /\ RowsAreCounted
  BY <1>2, <1>3, FS_EmptySet DEF ReadyCounts, RowsAreCounted
<1>6. SecondPassInStep
  BY <1>2 DEF SecondPassInStep
<1>7. \A i \in DOMAIN posts : posts[i] = Event("scan_started", NoIP)
  BY DEF Init
<1>8. Posted("host_discovered") = {} /\ Posted("enrichment_started") = {}
      /\ Posted("enrichment_progress") = {} /\ Posted("scan_completed") = {}
      /\ Posted("scan_cancelled") = {}
  BY <1>7 DEF Posted, Event
<1>9. PostsInOrder /\ EnrichmentCountsUp
  BY <1>8 DEF PostsInOrder, EnrichmentCountsUp
<1>10. DiscoveredPosted /\ FiguresPosted
  BY <1>2, <1>8 DEF DiscoveredPosted, FiguresPosted, IPs
<1>11. \A i \in DOMAIN lines : lines[i] = Event("scan_started", NoIP)
  BY DEF Init
<1>12. LinesInOrder /\ StreamCoversReport
  BY <1>2, <1>11 DEF LinesInOrder, StreamCoversReport, Event
<1>13. VerdictsAgree
  <2>1. LinesOf("scan_completed") = {} /\ LinesOf("scan_failed") = {}
    BY <1>11 DEF LinesOf, Event
  <2>2. TerminalPosts = {} /\ TerminalLines = {}
    BY <1>8, <2>1 DEF TerminalPosts, TerminalLines
  <2> QED BY <1>2, <1>8, <2>1, <2>2 DEF VerdictsAgree
<1>14. SlotsRespected
  <2>1. Spawned = {}
    BY <1>2 DEF Spawned
  <2> QED BY <2>1, FS_EmptySet, RunAssumption DEF SlotsRespected
<1>15. EventsInPhases
  <2>1. /\ \A i \in DOMAIN posts : posts[i].event = "scan_started"
        /\ \A i \in DOMAIN lines : lines[i].event = "scan_started"
    BY <1>7, <1>11 DEF Event
  <2>2. /\ "scan_started" \in DOMAIN PostPhase /\ "scan_started" \in DOMAIN LinePhase
        /\ PostPhase["scan_started"] = 0 /\ LinePhase["scan_started"] = 0
    BY DEF PostPhase, LinePhase
  <2>3. PhaseNow = 1
    BY <1>2 DEF PhaseNow
  <2> QED BY <1>2, <2>1, <2>2, <2>3 DEF EventsInPhases, InTurn
<1> QED BY <1>1, <1>4, <1>5, <1>6, <1>9, <1>10, <1>12, <1>13, <1>14, <1>15 DEF RunInv

LEMMA RunInvPreserved == RunInv /\ [Next]_vars => RunInv'
<1> SUFFICES ASSUME RunInv, [Next]_vars PROVE RunInv'
  OBVIOUS
<1>1. CASE Step
  <2>1. TypeOK' /\ PortPhaseOver'
    BY <1>1, TypeOKPreserved, PortPhaseKept DEF RunInv
  <2>2. HostsInStep' /\ ReadyCounts' /\ RowsAreCounted'
    BY <1>1, HostsPreserved DEF RunInv
  <2>3. SecondPassInStep'
    BY <1>1, SecondPassPreserved DEF RunInv
  <2>4. PostsInOrder' /\ DiscoveredPosted' /\ FiguresPosted' /\ EnrichmentCountsUp'
    BY <1>1, PostsPreserved DEF RunInv, PostParts
  <2>5. LinesInOrder' /\ StreamCoversReport'
    BY <1>1, LinesPreserved DEF RunInv, LineParts
  <2>6. VerdictsAgree' /\ SlotsRespected'
    BY <1>1, VerdictsPreserved, SlotsPreserved DEF RunInv
  <2>7. EventsInPhases'
    BY <1>1, EventsPreserved DEF RunInv
  <2> QED BY <2>1, <2>2, <2>3, <2>4, <2>5, <2>6, <2>7 DEF RunInv
<1>2. CASE UNCHANGED vars
  <2> USE <1>2 DEF vars, portVars, discVars, enrichVars, deepVars, tickVars, showVars, outVars, RunInv
  <2>1. TypeOK'
    BY DEF TypeOK, Port!TypeOK, Lan!TypeOK, Outputs
  <2>2. PortPhaseOver'
    BY DEF PortPhaseOver
  <2>3. HostsInStep'
    BY DEF HostsInStep, HostTotal, ToEnrich, ARPDead, Enriched
  <2>4. Counted' = Counted
    BY DEF Counted
  <2>5. ReadyCounts' /\ RowsAreCounted'
    BY <2>4 DEF ReadyCounts, RowsAreCounted, PortsOf
  <2>6. SecondPassInStep'
    BY DEF SecondPassInStep, Monitored, TUI, ProgressURL, StreamJSON
  <2>7. PostsInOrder' /\ DiscoveredPosted' /\ FiguresPosted' /\ EnrichmentCountsUp'
    BY QuietPosts DEF PostParts
  <2>8. LinesInOrder' /\ StreamCoversReport'
    BY DEF LinesInOrder, StreamCoversReport, HearsPortFound, StreamJSON, ProgressURL
  <2>9. VerdictsAgree'
    <3>1. /\ \A name : Posted(name)' = Posted(name)
          /\ \A name : LinesOf(name)' = LinesOf(name)
      BY DEF Posted, LinesOf
    <3> QED BY <3>1, VerdictsKept
  <2>10. SlotsRespected'
    BY DEF SlotsRespected, Spawned
  <2>11. EventsInPhases'
    <3>1. PhaseNow' = PhaseNow /\ PhaseNow \in Nat /\ PhaseNow <= PhaseNow
      BY DEF PhaseNow
    <3>2. UNCHANGED <<posts, lines>> /\ \A j \in Jobs : deep'[j] # "none" => Enriched'
      BY DEF EventsInPhases, Enriched
    <3> QED BY <3>1, <3>2, QuietPhases
  <2> QED BY <2>1, <2>2, <2>3, <2>5, <2>6, <2>7, <2>8, <2>9, <2>10, <2>11
<1> QED BY <1>1, <1>2, NextIsStep

(* In every run, whatever is scanned, interrupted or overtaken: each phase *)
(* finds the one before it complete, each host goroutine counts once, and  *)
(* what the monitors have sent is in step with the report.                 *)
THEOREM RunInvariant == Spec => []RunInv
<1>1. Init => RunInv
  BY InitRunInv
<1>2. RunInv /\ [Next]_vars => RunInv'
  BY RunInvPreserved
<1> QED BY <1>1, <1>2, PTL DEF Spec

(* The report has one row for every responsive address and all its ports   *)
(* as soon as the host goroutines have ended (hostWorkers.Wait), although  *)
(* they append in any order and Ctrl-C may come at any moment; without a   *)
(* monitor it also has the second pass when an artifact is written.        *)
THEOREM ReportIsComplete == Spec => []ReportComplete
<1>1. RunInv => ReportComplete
  <2> SUFFICES ASSUME RunInv PROVE ReportComplete
    OBVIOUS
  <2> USE DEF RunInv
  <2>1. ASSUME Enriched
        PROVE  /\ Counted = IPs(found) \cup heard \cup (IF ARPDead THEN ARPHosts ELSE {})
               /\ reported = found
    <3>1. main \notin {"scanning", "discovery"}
      BY <2>1 DEF Enriched
    <3>2. reported = found
      BY <3>1 DEF PortPhaseOver
    <3>3. Counted = ToEnrich
      BY <2>1, <3>1, ToEnrichFacts DEF HostsInStep, Counted
    <3> QED BY <3>2, <3>3 DEF ToEnrich
  <2>2. RowsComplete
    BY <2>1 DEF RowsComplete, RowsAreCounted, PortsOf
  <2>3. ~Monitored /\ AtOutput => SecondPassIn
    BY DEF AtOutput, SecondPassIn, SecondPassInStep
  <2> QED BY <2>2, <2>3 DEF ReportComplete
<1> QED BY <1>1, RunInvariant, PTL

(* The webhook monitor announces each responsive address once, before      *)
(* enrichment_started, however many ports the collector reports for it.    *)
THEOREM DiscoveredOnce == Spec => []HostDiscoveredOnce
<1>1. RunInv => HostDiscoveredOnce
  <2> SUFFICES ASSUME RunInv, ProgressURL,
                      NEW started \in Posted("enrichment_started"), NEW ip \in Hosts
               PROVE  Cardinality({i \in Posted("host_discovered") : posts[i].ip = ip /\ i < started})
                          = IF ip \in IPs(found) THEN 1 ELSE 0
    BY DEF HostDiscoveredOnce
  <2> USE DEF RunInv
  <2> DEFINE S == {i \in Posted("host_discovered") : posts[i].ip = ip /\ i < started}
  <2>1. reported = found
    BY DEF PostsInOrder, PortPhaseOver
  <2>2. CASE ip \in IPs(found)
    <3>1. PICK k \in Posted("host_discovered") : posts[k].ip = ip
      BY <2>1, <2>2 DEF DiscoveredPosted
    <3>2. S = {k}
      BY <3>1 DEF DiscoveredPosted
    <3> QED BY <2>2, <3>2, FS_Singleton
  <2>3. CASE ip \notin IPs(found)
    <3>1. S = {}
      BY <2>1, <2>3 DEF DiscoveredPosted
    <3> QED BY <2>3, <3>1, FS_EmptySet
  <2> QED BY <2>2, <2>3
<1> QED BY <1>1, RunInvariant, PTL

(* The figures of the webhook are counted under its lock and posted        *)
(* outside it: they may overtake each other, and still each one is posted  *)
(* once before the terminal event, the last host's among them.             *)
THEOREM FiguresCountUp == Spec => []EnrichmentCountsUp
<1>1. RunInv => EnrichmentCountsUp
  BY DEF RunInv
<1> QED BY <1>1, RunInvariant, PTL

(* The stream's terminal line comes after the line of every open port (the *)
(* monitor being the only one) and of every row, cancelled or not.         *)
THEOREM StreamIsComplete == Spec => []StreamCoversReport
<1>1. RunInv => StreamCoversReport
  BY DEF RunInv
<1> QED BY <1>1, RunInvariant, PTL

(* Each monitor learns once how the run ended; a Ctrl-C between the two    *)
(* Finish calls can make them differ in one direction only.                *)
THEOREM MonitorsAgree == Spec => []VerdictsAgree
<1>1. RunInv => VerdictsAgree
  BY DEF RunInv
<1> QED BY <1>1, RunInvariant, PTL

(* No more probes of the second pass are out than httpProbeConcurrency.    *)
THEOREM SlotsAreRespected == Spec => []SlotsRespected
<1>1. RunInv => SlotsRespected
  BY DEF RunInv
<1> QED BY <1>1, RunInvariant, PTL

(* A monitor's consumer never hears of an earlier phase again: nothing of  *)
(* enrichment after the second pass has begun, and after the terminal      *)
(* event only what a second pass in the background still finds.            *)
THEOREM PhasesInOrder == Spec => []EventsInPhases
<1>1. RunInv => EventsInPhases
  BY DEF RunInv
<1> QED BY <1>1, RunInvariant, PTL

-----------------------------------------------------------------------------
(* The contracts the run is built on.                                      *)

(* A step of a run is a step of the port phase's contract, or none of its  *)
(* business.                                                               *)
LEMMA PortContractStep == [Next]_vars => [Port!Next]_(Port!scanVars)
<1> SUFFICES ASSUME [Next]_vars PROVE [Port!Next]_(Port!scanVars)
  OBVIOUS
<1>1. ASSUME NEW j \in Jobs, Probe(j) \/ Collect(j)
      PROVE  Port!Next
  BY <1>1 DEF Probe, Collect, Port!Next
<1>2. CASE EndScan \/ Cancel
  BY <1>2 DEF EndScan, Cancel, Port!Next
<1>3. CASE \/ UNCHANGED vars \/ Ticker \/ DiscoveryEnds \/ (\E ip \in Hosts : Host(ip))
           \/ StartEnrich \/ StartDeep \/ Deep \/ EndDeep \/ FinishTUI \/ FinishWebhook
           \/ FinishStream \/ WriteArtifact
  <2>1. UNCHANGED portVars
    BY <1>3 DEF vars, Ticker, TickRead, TickDeliver, TickStop, DiscoveryEnds, Host, HostEnriched,
       HostAnnounced, StartEnrich, StartDeep, Deep, DeepBreak, DeepSpawn, DeepAnswer, DeepFail,
       EndDeep, FinishTUI, FinishWebhook, FinishStream, WriteArtifact
  <2> QED BY <2>1 DEF portVars, Port!scanVars
<1> QED BY <1>1, <1>2, <1>3, NextIsStep DEF Step, Main

LEMMA LanContractStep == [Next]_vars => [Lan!Next]_<<heard, discovery>>
<1> SUFFICES ASSUME [Next]_vars PROVE [Lan!Next]_<<heard, discovery>>
  OBVIOUS
<1>1. CASE DiscoveryEnds
  BY <1>1 DEF DiscoveryEnds, Lan!Next
<1>2. CASE ~DiscoveryEnds
  <2>1. UNCHANGED discVars
    BY <1>2, NextIsStep DEF vars, Step, Main, Collect, EndScan, StartEnrich, StartDeep, EndDeep,
       FinishTUI, FinishWebhook, FinishStream, WriteArtifact, Ticker, TickRead, TickDeliver,
       TickStop, Deep, DeepBreak, DeepSpawn, DeepAnswer, DeepFail, Cancel, Probe, Host,
       HostEnriched, HostAnnounced
  <2> QED BY <2>1 DEF discVars
<1> QED BY <1>1, <1>2

(* The run keeps both contracts it waits on: whatever it interleaves, the  *)
(* port phase is one of PortScan, which ScanPipeline implements, and the   *)
(* discovery one of LanDiscovery, which Discovery implements.              *)
THEOREM RunKeepsContracts == Spec => Port!Spec /\ Lan!Spec
<1>1. Init => Port!Init /\ Lan!Init
  BY DEF Init
<1> QED BY <1>1, PortContractStep, LanContractStep, PTL DEF Spec, Port!Spec, Lan!Spec
=============================================================================
