------------------------------- MODULE Targets -------------------------------
(***************************************************************************)
(* What is scanned and swept: from the ports and the CIDRs of the command  *)
(* line to the addresses (src/main.go: parsePorts, checkTUINetworkSize,    *)
(* expandCIDR, ipInTarget, splitIPChunks, run) and the turns the sweeps of *)
(* the watch phase take over them (src/tui.go: Finish, runPingTick).       *)
(*                                                                         *)
(* Addresses are Bits wide instead of 32, and wrap as incIP does; every    *)
(* prefix length and size the code names is a constant, so that small      *)
(* networks meet all its limits.  A loop of the code is an action that     *)
(* takes one turn of it.                                                   *)
(***************************************************************************)
EXTENDS Integers, Sequences, FiniteSets, SequencesExt

CONSTANTS
    Bits,                \* width of an address
    Sizes,               \* addresses in a network, by the length of its prefix
    MinPrefix,           \* the 16 of expandCIDR
    tuiMaxPrefix, tuiWarnPrefix,   \* largest network for the TUI, and without a question
    ChunkSize,           \* tuiWatchChunkSize
    MaxPort,             \* 65535
    TargetLists,         \* command lines: sequences of [ip, len]
    PortSpecs            \* sequences of [lo, hi]; a single port is lo = hi

Space == Sizes[0]
Addresses == 0..(Space - 1)
CIDR == [ip : Addresses, len : 0..Bits]

ASSUME TargetsAssumption ==
    /\ Bits \in Nat
    /\ Sizes \in [0..Bits -> Nat] /\ Sizes[Bits] = 1            \* 2^(Bits - len)
    /\ \A len \in 1..Bits : Sizes[len - 1] = 2 * Sizes[len]
    /\ {MinPrefix, tuiMaxPrefix, tuiWarnPrefix, ChunkSize, MaxPort} \subseteq Nat \ {0}
    /\ MinPrefix <= tuiMaxPrefix /\ tuiMaxPrefix <= tuiWarnPrefix /\ tuiWarnPrefix <= Bits
    /\ TargetLists \subseteq Seq(CIDR) \ {<<>>}
    /\ PortSpecs \subseteq Seq([lo : 0..(MaxPort + 1), hi : 0..(MaxPort + 1)])

VARIABLES
    targets, spec, tui,  \* the command line
    pc,                  \* where run is; "refused" when it returned an error
    k,                   \* the part of the list of ports, or the target, a loop is at
    part, at,            \* what its inner loop ranges over, and where it is
    ports, ips,          \* cfg.Ports and run's ips, in order
    confirmed,           \* the targets the user said yes to
    chunks, pingChunk,   \* t.ipChunks, t.pingChunk
    paused,              \* auto-ping is off, or a rescan is going on
    batch,               \* what the last sweep pinged
    skipped              \* history: sweeps since an address was last pinged, up to
                         \* the number of chunks

loops == <<chunks, pingChunk, paused, batch, skipped>>
vars == <<targets, spec, tui, pc, k, part, at, ports, ips, confirmed, loops>>

-----------------------------------------------------------------------------
(* Networks.                                                               *)

Size(c) == Sizes[c.len]
(* The first and the last address of the network: ipNet.IP and the         *)
(* broadcast address ipInTarget puts together from the mask.               *)
Network(c) == (c.ip \div Size(c)) * Size(c)
Broadcast(c) == Network(c) + Size(c) - 1
InNetwork(c, a) == a \div Size(c) = c.ip \div Size(c)

(* incIP, n times.                                                         *)
incIP(a, n) == (a + n) % Space

(* Seeded fault: the last address is kept.                                 *)
FaultyExpandCIDR(c) ==
    IF Size(c) > 2 THEN [i \in 1..(Size(c) - 1) |-> Network(c) + i] ELSE <<Network(c)>>

(* From the network address up while the network contains the address;     *)
(* then the first and the last go, if more than two are there.             *)
expandCIDR(c) ==
    LET turns == CHOOSE n \in 1..Space : /\ ~InNetwork(c, incIP(Network(c), n))
                                          /\ \A m \in 1..(n - 1) : InNetwork(c, incIP(Network(c), m))
        all == [i \in 1..turns |-> incIP(Network(c), i - 1)]
    IN IF Len(all) > 2 THEN SubSeq(all, 2, Len(all) - 1) ELSE all

(* Seeded fault: the broadcast address is in.                              *)
FaultyIpInTarget(a, c) == InNetwork(c, a) /\ a # Network(c)

(* The addresses the ARP cache and LAN discovery may add to a scan.        *)
ipInTarget(a, c) == InNetwork(c, a) /\ a # Network(c) /\ a # Broadcast(c)

(* splitIPChunks: whole chunks and a shorter last one.                     *)
splitIPChunks(s) ==
    IF Len(s) <= ChunkSize THEN <<s>>
    ELSE [i \in 1..((Len(s) + ChunkSize - 1) \div ChunkSize) |->
            SubSeq(s, (i - 1) * ChunkSize + 1,
                   IF i * ChunkSize > Len(s) THEN Len(s) ELSE i * ChunkSize)]

(* Seeded fault: a value already there is appended again.                  *)
FaultyAdd(s, x) == Append(s, x)

(* `if !seen[x] { seen[x] = true; append }`, for ports and for addresses.  *)
Add(s, x) == IF \E i \in DOMAIN s : s[i] = x THEN s ELSE Append(s, x)

-----------------------------------------------------------------------------
(* The command line.                                                       *)

Init ==
    /\ targets \in TargetLists /\ spec \in PortSpecs /\ tui \in BOOLEAN
    /\ pc = "ports" /\ k = 1 /\ part = <<>> /\ at = 1
    /\ ports = <<>> /\ ips = <<>> /\ confirmed = {}
    /\ chunks = <<>> /\ pingChunk = 0 /\ paused = FALSE
    /\ batch = {} /\ skipped = [a \in Addresses |-> 0]

Valid(range) == range.lo >= 1 /\ range.hi <= MaxPort /\ range.lo <= range.hi
Expanded(range) == [i \in 1..(range.hi - range.lo + 1) |-> range.lo + i - 1]

(* sort.Ints, of ports that are all different.                             *)
Sorted(s) == CHOOSE t \in [DOMAIN s -> ToSet(s)] :
                /\ ToSet(t) = ToSet(s)
                /\ \A i, j \in DOMAIN s : i < j => t[i] < t[j]

(* A loop over part has been begun, and takes its next turn; after the     *)
(* last one the outer loop goes on.                                        *)
Begin(loop, list) == pc' = loop /\ part' = list /\ at' = 1
Turn(outer) == IF at < Len(part) THEN at' = at + 1 /\ UNCHANGED <<pc, k>>
               ELSE pc' = outer /\ k' = k + 1 /\ UNCHANGED at

(* parsePorts, in parseScanArgs: one bad part refuses the list.            *)
ReadPart ==
    /\ pc = "ports" /\ k <= Len(spec)
    /\ IF Valid(spec[k]) THEN Begin("adding", Expanded(spec[k]))
       ELSE pc' = "refused" /\ UNCHANGED <<part, at>>
    /\ UNCHANGED <<targets, spec, tui, k, ports, ips, confirmed, loops>>

AddPort ==
    /\ pc = "adding"
    /\ ports' = Add(ports, part[at])
    /\ Turn("ports")
    /\ UNCHANGED <<targets, spec, tui, part, ips, confirmed, loops>>

SortPorts ==
    /\ pc = "ports" /\ k > Len(spec)
    /\ IF ports = <<>> THEN pc' = "refused" /\ UNCHANGED <<k, ports>>
       ELSE /\ ports' = Sorted(ports)
            /\ pc' = IF tui THEN "checking" ELSE "expanding"
            /\ k' = 1
    /\ UNCHANGED <<targets, spec, tui, part, at, ips, confirmed, loops>>

SmallEnough(c) == c.len > tuiWarnPrefix

(* checkTUINetworkSize, target after target.                               *)
CheckTarget ==
    /\ pc = "checking"
    /\ k <= Len(targets)
    /\ IF SmallEnough(targets[k]) THEN k' = k + 1 /\ UNCHANGED pc
       ELSE /\ pc' = IF targets[k].len < tuiMaxPrefix THEN "refused" ELSE "asking"
            /\ UNCHANGED k
    /\ UNCHANGED <<targets, spec, tui, part, at, ports, ips, confirmed, loops>>

(* confirmPrompt: y or yes; anything else, or no terminal, ends the run.   *)
Confirm ==
    /\ pc = "asking"
    /\ pc' = "checking" /\ k' = k + 1
    /\ confirmed' = confirmed \cup {k}
    /\ UNCHANGED <<targets, spec, tui, part, at, ports, ips, loops>>

Decline ==
    /\ pc = "asking"
    /\ pc' = "refused"
    /\ UNCHANGED <<targets, spec, tui, k, part, at, ports, ips, confirmed, loops>>

EndChecks ==
    /\ pc = "checking"
    /\ k > Len(targets)
    /\ pc' = "expanding" /\ k' = 1
    /\ UNCHANGED <<targets, spec, tui, part, at, ports, ips, confirmed, loops>>

(* The loop of run over the targets: addresses already listed are skipped. *)
ExpandTarget ==
    /\ pc = "expanding" /\ k <= Len(targets)
    /\ IF targets[k].len < MinPrefix THEN pc' = "refused" /\ UNCHANGED <<part, at>>
       ELSE Begin("listing", expandCIDR(targets[k]))
    /\ UNCHANGED <<targets, spec, tui, k, ports, ips, confirmed, loops>>

ListAddress ==
    /\ pc = "listing"
    /\ ips' = Add(ips, part[at])
    /\ Turn("expanding")
    /\ UNCHANGED <<targets, spec, tui, part, ports, confirmed, loops>>

-----------------------------------------------------------------------------
(* The watch phase.                                                        *)

(* The scan of ips by ports; Finish, if newScanTUI found a terminal.       *)
Scan ==
    /\ pc = "expanding"
    /\ k > Len(targets)
    /\ \/ tui /\ pc' = "watching" /\ chunks' = splitIPChunks(ips)
       \/ pc' = "done" /\ UNCHANGED chunks
    /\ pingChunk' = 0
    /\ UNCHANGED <<targets, spec, tui, k, part, at, ports, ips, confirmed, paused, batch, skipped>>

(* Seeded faults: the last chunk is never reached; the turn goes past it.  *)
FaultyNextChunk(n) == (n + 1) % (IF Len(chunks) > 1 THEN Len(chunks) - 1 ELSE 1)

FaultyPastEnd(n) == (n + 1) % (Len(chunks) + 1)

NextChunk(n) == (n + 1) % Len(chunks)

smallNet == Len(ips) <= ChunkSize

(* runPingTick: the whole network, or the chunk whose turn it is.          *)
RunPingTick ==
    /\ pc = "watching"
    /\ ~paused
    /\ LET pinged == ToSet(IF smallNet THEN ips ELSE chunks[pingChunk + 1])
       IN /\ batch' = pinged
          /\ skipped' = [a \in Addresses |->
                           IF a \in pinged \/ a \notin ToSet(ips) THEN 0 
                           ELSE IF skipped[a] < Len(chunks) THEN skipped[a] + 1 ELSE skipped[a]]
    /\ pingChunk' = IF smallNet THEN pingChunk ELSE NextChunk(pingChunk)
    /\ UNCHANGED <<targets, spec, tui, pc, k, part, at, ports, ips, confirmed, chunks, paused>>

(* The `p` key, or a rescan that begins or ends: ticks do nothing while    *)
(* either pauses them, and the turn is not lost.                           *)
Pause ==
    /\ pc = "watching"
    /\ paused' = ~paused
    /\ UNCHANGED <<targets, spec, tui, pc, k, part, at, ports, ips, confirmed,
                   chunks, pingChunk, batch, skipped>>

Ended == pc \in {"refused", "done"} /\ UNCHANGED vars

Next ==
    \/ ReadPart \/ AddPort \/ SortPorts
    \/ CheckTarget \/ Confirm \/ Decline \/ EndChecks \/ ExpandTarget \/ ListAddress
    \/ Scan \/ RunPingTick \/ Pause \/ Ended

Spec == Init /\ [][Next]_vars

-----------------------------------------------------------------------------
(* Properties.                                                             *)

Scanning == pc \in {"watching", "done"}

TypeOK ==
    /\ targets \in TargetLists /\ spec \in PortSpecs /\ tui \in BOOLEAN
    /\ pc \in {"ports", "adding", "checking", "asking", "expanding", "listing",
              "watching", "done", "refused"}
    /\ k \in Nat \ {0} /\ at \in Nat \ {0} /\ part \in Seq(Nat)
    /\ ports \in Seq(1..MaxPort) /\ ips \in Seq(Addresses)
    /\ confirmed \subseteq Nat
    /\ chunks \in Seq(Seq(Addresses)) /\ pingChunk \in Nat
    /\ pc = "watching" => pingChunk \in 0..(Len(chunks) - 1)    \* t.ipChunks[t.pingChunk]
    /\ batch \subseteq Addresses /\ skipped \in [Addresses -> Nat]

Distinct(s) == \A i, j \in DOMAIN s : s[i] = s[j] => i = j

(* No port of an address is probed twice, however the CIDRs and the port   *)
(* ranges overlap: the assumption PortScan makes of its jobs.              *)
JobsDistinct == Distinct(ips) /\ Distinct(ports)

(* The addresses of a network that a host may have.                        *)
Usable(c) ==
    LET net == {a \in Addresses : InNetwork(c, a)}
    IN  IF Cardinality(net) <= 2 THEN net
        ELSE {a \in net : (\E b \in net : b < a) /\ \E b \in net : a < b}

(* What is scanned is what was asked for: of each network every address,   *)
(* without the network and the broadcast address when it has room for      *)
(* both, and every port of every range; and in the TUI no network is       *)
(* larger than README.md allows, or as large as it says to ask about,      *)
(* without a yes to that very network.                                     *)
ScansWhatWasAsked ==
    Scanning =>
        /\ ToSet(ips) = UNION {Usable(c) : c \in ToSet(targets)}
        /\ ToSet(ports) = {p \in 1..MaxPort : \E r \in ToSet(spec) : r.lo <= p /\ p <= r.hi}
        /\ pc = "watching" => \A i \in DOMAIN targets :
              /\ Size(targets[i]) <= Sizes[tuiMaxPrefix]
              /\ Size(targets[i]) >= Sizes[tuiWarnPrefix] => i \in confirmed

(* Whatever the ARP cache and LAN discovery may add to the report is an    *)
(* address that was scanned: ipInTarget and expandCIDR, written apart,     *)
(* agree where the first says yes.                                         *)
OnlyScannedAreAdded ==
    Scanning => \A c \in ToSet(targets), a \in Addresses : ipInTarget(a, c) => a \in ToSet(ips)

(* Sweeps take turns: an address is left out by at most as many sweeps in  *)
(* a row as there are other chunks, whatever pauses come between.          *)
TurnsAreFair == pc = "watching" => \A a \in Addresses : skipped[a] < Len(chunks)

-----------------------------------------------------------------------------
(* The inductive invariant of the proofs: what each loop has done so far.  *)

PortsOf(n) == UNION {ToSet(Expanded(spec[i])) : i \in 1..n}
AddressesOf(n) == UNION {ToSet(expandCIDR(targets[i])) : i \in 1..n}
DoneOf == {part[i] : i \in 1..(at - 1)}

PortsSoFar ==
    /\ pc = "ports" => /\ k <= Len(spec) + 1 /\ \A i \in 1..(k - 1) : Valid(spec[i])
                       /\ ToSet(ports) = PortsOf(k - 1)
    /\ pc = "adding" => /\ k <= Len(spec) /\ \A i \in 1..k : Valid(spec[i])
                        /\ part = Expanded(spec[k]) /\ at <= Len(part)
                        /\ ToSet(ports) = PortsOf(k - 1) \cup DoneOf
    /\ pc \notin {"ports", "adding", "refused"} =>
          ToSet(ports) = PortsOf(Len(spec)) /\ \A i \in DOMAIN spec : Valid(spec[i])

Agreed(i) == /\ targets[i].len >= tuiMaxPrefix
             /\ targets[i].len <= tuiWarnPrefix => i \in confirmed

ChecksSoFar ==
    /\ pc \in {"checking", "asking"} => /\ tui /\ k <= Len(targets) + 1
                                        /\ \A i \in 1..(k - 1) : Agreed(i)
    /\ pc = "asking" => k <= Len(targets) /\ targets[k].len >= tuiMaxPrefix
    /\ tui /\ pc \in {"expanding", "listing", "watching"} => \A i \in DOMAIN targets : Agreed(i)

AddressesSoFar ==
    /\ pc \in {"ports", "adding", "checking", "asking"} => ips = <<>>
    /\ pc = "expanding" => /\ k <= Len(targets) + 1
                           /\ \A i \in 1..(k - 1) : targets[i].len >= MinPrefix
                           /\ ToSet(ips) = AddressesOf(k - 1)
    /\ pc = "listing" => /\ k <= Len(targets) /\ \A i \in 1..k : targets[i].len >= MinPrefix
                         /\ part = expandCIDR(targets[k]) /\ at <= Len(part)
                         /\ ToSet(ips) = AddressesOf(k - 1) \cup DoneOf
    /\ Scanning => /\ ToSet(ips) = AddressesOf(Len(targets))
                   /\ \A i \in DOMAIN targets : targets[i].len >= MinPrefix

(* An address has been left out since its chunk's last turn, at most.      *)
SinceTurn(j) == IF j <= pingChunk THEN pingChunk - j ELSE pingChunk - j + Len(chunks)

TurnsSoFar ==
    /\ pc # "watching" => skipped = [a \in Addresses |-> 0]
    /\ pc = "watching" =>
          /\ tui /\ chunks = splitIPChunks(ips)
          /\ \A a \in Addresses : a \notin ToSet(ips) => skipped[a] = 0
          /\ \A j \in DOMAIN chunks : \A a \in ToSet(chunks[j]) : skipped[a] <= SinceTurn(j)

TargetsInv ==
    TypeOK /\ JobsDistinct /\ PortsSoFar /\ ChecksSoFar /\ AddressesSoFar /\ TurnsSoFar
=============================================================================
