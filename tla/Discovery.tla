----------------------------- MODULE Discovery ------------------------------
(***************************************************************************)
(* LAN discovery (src/discovery.go: runLANDiscovery; the goroutine of      *)
(* scanNetwork that calls it for each target; discoverSSDP, discoverMDNS,  *)
(* discoverLLMNR, discoverWSD and fetchUPnPDescriptions).                  *)
(*                                                                         *)
(* For each target in turn one goroutine per protocol opens a socket,      *)
(* starts a reader of its own and waits for the deadline; what the reader  *)
(* has put into the protocol's map is then merged under a lock.  Nobody    *)
(* waits for the readers: a packet taken before the socket is closed may   *)
(* still be written into a map that is being merged, which Go leaves       *)
(* undefined (the process may crash, the entry may count or not).          *)
(*                                                                         *)
(* Of a hit are kept the protocols that gave it and whether they gave more *)
(* than the address ("detail": names, services, types; for SSDP the        *)
(* location of the UPnP description).                                      *)
(***************************************************************************)
EXTENDS Integers, FiniteSets

CONSTANTS
    Addresses,           \* everybody who may send or be named in a datagram
    Enabled,             \* the protocols of --discovery
    Scope,               \* Scope[t]: the addresses ipInTarget accepts for target t
    Eligible,            \* targets on a local segment of at most 256 addresses
    Datagrams,           \* Datagrams[c]: what may reach the socket of call c
    Describes,           \* devices that serve their UPnP description
    FetchSlots           \* capacity of fetchUPnPDescriptions' semaphore (8)

Targets == DOMAIN Scope
Last == Cardinality(Targets)
Calls == Targets \X Enabled      \* one call of discoverX for each

ASSUME DiscoveryAssumption ==
    /\ Last \in Nat /\ Targets = 1..Last
    /\ \A t \in Targets : Scope[t] \subseteq Addresses
    /\ Eligible \subseteq Targets /\ IsFiniteSet(Enabled)
    /\ Enabled \subseteq {"ssdp", "mdns", "llmnr", "wsd"}
    /\ \A c \in Calls : Datagrams[c] \subseteq
                            [from : Addresses, named : SUBSET Addresses, detail : BOOLEAN]
    /\ Describes \subseteq Addresses
    /\ FetchSlots \in Nat \ {0}

VARIABLES
    target, main,        \* the discovery goroutine: its target and its place
    cancelled, expired,  \* Ctrl-C; the deadline of the current dctx has passed
    proto,               \* the goroutine of each call
    reader,              \* its reader: its place, and the facts of its datagram
    got,                 \* the map of each call
    hits,                \* the map of runLANDiscovery
    fetch,               \* the goroutines of fetchUPnPDescriptions
    found,               \* discoveryHits
    crashed,             \* the runtime has stopped the process at a map access
    noted                \* history: what was in the maps before the sockets were closed:
                         \* the facts of this target, the addresses of those before

calls == <<proto, reader, got>>
vars == <<target, main, cancelled, expired, calls, hits, fetch, found, crashed, noted>>

(* What a hit knows: its address, a protocol, and what that one said.      *)
Facts == [ip : Addresses, proto : Enabled \cup {"upnp"}, what : {"heard", "detail"}]

Fact(ip, p, w) == [ip |-> ip, proto |-> p, what |-> w]
IPsOf(facts) == {f.ip : f \in facts}

Told(ips, p, detail) == [ip : ips, proto : {p}, what : IF detail THEN {"heard", "detail"} ELSE {"heard"}]

(* The handlers: SSDP and WS-Discovery file what they can parse under the  *)
(* sender, whatever it sent; mDNS and LLMNR under the addresses the A      *)
(* records name, of which LLMNR wants a name for each.                     *)
SSDP(d)  == Told({d.from}, "ssdp", d.detail)
WSD(d)   == Told({d.from}, "wsd", d.detail)
MDNS(d)  == Told(d.named, "mdns", d.detail)
LLMNR(d) == IF d.detail THEN Told(d.named, "llmnr", TRUE) ELSE {}

Learnt(p, d) == CASE p = "ssdp" -> SSDP(d) [] p = "mdns" -> MDNS(d)
                  [] p = "llmnr" -> LLMNR(d) [] p = "wsd" -> WSD(d)

(* Seeded fault: merge takes every address.                                *)
FaultyInScope(facts, t) == facts

(* ipInTarget, in merge.                                                   *)
InScope(facts, t) == {f \in facts : f.ip \in Scope[t]}

(* Seeded fault: what another protocol has merged before is replaced.      *)
FaultyMerge(known, partial) == {f \in known : f.ip \notin IPsOf(partial)} \cup partial

(* mergeDiscoveryHit: the sources and the fields of both.                  *)
Merge(known, partial) == known \cup partial

(* `discoveryHits[ip] = hit`: the hit of a later target replaces.          *)
Replace(known, new) == {f \in known : f.ip \notin IPsOf(new)} \cup new

(* Seeded fault: the slot is taken by the goroutine, not before it starts. *)
FaultyFetching == {}

(* The slots of fetchUPnPDescriptions in use.                              *)
Fetching == {ip \in Addresses : fetch[ip] = "running"}

(* dctx is done, by its own deadline or with ctx; for the reader of a call *)
(* that has returned, for good.                                            *)
Over == expired \/ cancelled

OverFor(c) == Over \/ proto[c] \in {"returned", "merged"}

(* Seeded fault: the reader asks only whether the scan was cancelled.      *)
FaultyNextRead(c) == IF cancelled THEN "off" ELSE "reading"

(* The tests of ctx and of the deadline at the head of the reader's loop.  *)
NextRead(c) == IF OverFor(c) THEN "off" ELSE "reading"

Idle == [pc |-> "off", facts |-> {}]

Init ==
    /\ target = 1 /\ main = "next"
    /\ cancelled = FALSE /\ expired = FALSE
    /\ proto = [c \in Calls |-> "none"]
    /\ reader = [c \in Calls |-> Idle]
    /\ got = [c \in Calls |-> {}]
    /\ hits = {} /\ fetch = [ip \in Addresses |-> "none"]
    /\ found = {} /\ crashed = FALSE
    /\ noted = [now |-> {}, before |-> {}]

-----------------------------------------------------------------------------
(* The discovery goroutine.                                                *)

(* runLANDiscovery up to the go statements; a target on another segment is *)
(* skipped.                                                                *)
StartTarget ==
    /\ main = "next" /\ target <= Last
    /\ IF target \in Eligible
       THEN /\ main' = "listening"
            /\ proto' = [c \in Calls |-> IF c[1] = target THEN "starting" ELSE proto[c]]
            /\ expired' = FALSE
            /\ UNCHANGED target
       ELSE /\ target' = target + 1
            /\ UNCHANGED <<main, proto, expired>>
    /\ UNCHANGED <<cancelled, reader, got, hits, fetch, found, crashed, noted>>

(* wg.Wait() returns; with SSDP, the descriptions are fetched next.        *)
AllMerged ==
    /\ main = "listening"
    /\ \A p \in Enabled : proto[<<target, p>>] = "merged"
    /\ main' = "fetching"
    /\ fetch' = [ip \in Addresses |->
                   IF Fact(ip, "ssdp", "detail") \in hits THEN "queued" ELSE "none"]
    /\ UNCHANGED <<target, cancelled, expired, calls, hits, found, crashed, noted>>

(* `sem <- struct{}{}` and the go statement.                               *)
FetchSpawn(ip) ==
    /\ fetch[ip] = "queued"
    /\ Cardinality(Fetching) < FetchSlots
    /\ fetch' = [fetch EXCEPT ![ip] = "running"]
    /\ UNCHANGED <<target, main, cancelled, expired, calls, hits, found, crashed, noted>>

(* fetchUPnPDescription: the request carries dctx.                         *)
FetchEnds(ip) ==
    /\ fetch[ip] = "running"
    /\ fetch' = [fetch EXCEPT ![ip] = "done"]
    /\ hits' = hits \cup (IF ip \in Describes /\ ~Over THEN {Fact(ip, "upnp", "detail")} ELSE {})
    /\ UNCHANGED <<target, main, cancelled, expired, calls, found, crashed, noted>>

(* wg.Wait() of the fetches, the return, and the range over its result.    *)
TakeHits ==
    /\ main = "fetching"
    /\ \A ip \in Addresses : fetch[ip] \in {"none", "done"}
    /\ found' = Replace(found, hits)
    /\ hits' = {}
    /\ fetch' = [ip \in Addresses |-> "none"]
    /\ target' = target + 1
    /\ main' = "next"
    /\ noted' = [now |-> {}, before |-> noted.before \cup IPsOf(InScope(noted.now, target))]
    /\ UNCHANGED <<cancelled, expired, calls, crashed>>

(* discoveryWg.Done().                                                     *)
Finish ==
    /\ main = "next" /\ target > Last
    /\ main' = "done"
    /\ UNCHANGED <<target, cancelled, expired, calls, hits, fetch, found, crashed, noted>>

-----------------------------------------------------------------------------
(* discoverSSDP, discoverMDNS, discoverLLMNR, discoverWSD.                 *)

(* listenMulticastUDP and the go statement, or an empty map when the port  *)
(* is taken.                                                               *)
Listen(c) ==
    /\ proto[c] = "starting"
    /\ \/ /\ proto' = [proto EXCEPT ![c] = "listening"]
          /\ reader' = [reader EXCEPT ![c].pc = NextRead(c)]
       \/ /\ proto' = [proto EXCEPT ![c] = "returned"]
          /\ UNCHANGED reader
    /\ UNCHANGED <<target, main, cancelled, expired, got, hits, fetch, found, crashed, noted>>

(* waitUntil returns, the socket is closed (which ends a reader that waits *)
(* for a datagram), the map goes to merge.                                 *)
Return(c) ==
    /\ proto[c] = "listening"
    /\ Over
    /\ proto' = [proto EXCEPT ![c] = "returned"]
    /\ reader' = [reader EXCEPT ![c].pc = IF @ = "reading" THEN "off" ELSE @]
    /\ UNCHANGED <<target, main, cancelled, expired, got, hits, fetch, found, crashed, noted>>

(* merge, under a lock the reader does not take.  When it meets the reader *)
(* in the middle of an assignment the runtime stops the process, or any    *)
(* part of the entry counts.  Nobody looks at the map after that.          *)
MergeCall(c) ==
    /\ proto[c] = "returned"
    /\ LET torn == IF reader[c].pc = "writing" THEN reader[c].facts ELSE {}
       IN  \/ /\ \E late \in SUBSET torn :
                     hits' = Merge(hits, InScope(got[c] \cup late, c[1]))
              /\ proto' = [proto EXCEPT ![c] = "merged"]
              /\ got' = [got EXCEPT ![c] = {}]
              /\ UNCHANGED crashed
           \/ /\ torn # {}
              /\ crashed' = TRUE
              /\ UNCHANGED <<hits, proto, got>>
    /\ UNCHANGED <<target, main, cancelled, expired, reader, fetch, found, noted>>

-----------------------------------------------------------------------------
(* readPacketsUntil and the handlers, in the reader's goroutine.           *)

(* ReadFrom: a datagram; one that teaches nothing is forgotten.            *)
Receive(c) ==
    /\ reader[c].pc = "reading"
    /\ proto[c] = "listening"
    /\ \E d \in {e \in Datagrams[c] : Learnt(c[2], e) # {}} :
         reader' = [reader EXCEPT ![c] = [pc |-> "handling", facts |-> Learnt(c[2], d)]]
    /\ UNCHANGED <<target, main, cancelled, expired, proto, got, hits, fetch, found, crashed, noted>>

(* The handler's assignment to its map begins ...                          *)
InsertBegins(c) ==
    /\ reader[c].pc = "handling"
    /\ reader' = [reader EXCEPT ![c].pc = "writing"]
    /\ UNCHANGED <<target, main, cancelled, expired, proto, got, hits, fetch, found, crashed, noted>>

(* ... and ends.                                                           *)
InsertEnds(c) ==
    /\ reader[c].pc = "writing"
    /\ got' = IF proto[c] = "merged" THEN got ELSE [got EXCEPT ![c] = @ \cup reader[c].facts]
    /\ reader' = [reader EXCEPT ![c] = [pc |-> NextRead(c), facts |-> {}]]
    /\ noted' = IF proto[c] = "listening"
                THEN [noted EXCEPT !.now = @ \cup reader[c].facts] ELSE noted
    /\ UNCHANGED <<target, main, cancelled, expired, proto, hits, fetch, found, crashed>>

-----------------------------------------------------------------------------
(* The timer of dctx, which was started before the deadline was computed:  *)
(* it goes off whatever the goroutines do.                                 *)
Deadline ==
    /\ main \in {"listening", "fetching"} /\ ~Over
    /\ expired' = TRUE
    /\ UNCHANGED <<target, main, cancelled, calls, hits, fetch, found, crashed, noted>>

(* Ctrl-C.                                                                 *)
Cancel ==
    /\ main # "done" /\ ~cancelled
    /\ cancelled' = TRUE
    /\ UNCHANGED <<target, main, expired, calls, hits, fetch, found, crashed, noted>>

Main == StartTarget \/ AllMerged \/ TakeHits \/ Finish
Fetch(ip) == FetchSpawn(ip) \/ FetchEnds(ip)
Call(c) == Listen(c) \/ Return(c) \/ MergeCall(c)
Reader(c) == Receive(c) \/ InsertBegins(c) \/ InsertEnds(c)

Next ==
    \/ /\ ~crashed
       /\ \/ Main \/ Deadline \/ Cancel
          \/ \E ip \in Addresses : Fetch(ip)
          \/ \E c \in Calls : Call(c) \/ Reader(c)
    \/ (crashed \/ main = "done") /\ UNCHANGED vars

Spec == Init /\ [][Next]_vars

(* The goroutines run; the deadline and the timeouts of the reads and of   *)
(* the HTTP client come.                                                   *)
Fairness ==
    /\ WF_vars(Main /\ ~crashed) /\ WF_vars(Deadline /\ ~crashed)
    /\ \A ip \in Addresses : WF_vars(Fetch(ip) /\ ~crashed)
    /\ \A c \in Calls : WF_vars(Call(c) /\ ~crashed) /\ WF_vars(Reader(c) /\ ~crashed)

FairSpec == Spec /\ Fairness

-----------------------------------------------------------------------------
(* Properties.                                                             *)

TypeOK ==
    /\ target \in 1..(Last + 1)
    /\ main \in {"next", "listening", "fetching", "done"}
    /\ {cancelled, expired, crashed} \subseteq BOOLEAN
    /\ proto \in [Calls -> {"none", "starting", "listening", "returned", "merged"}]
    /\ reader \in [Calls -> [pc : {"off", "reading", "handling", "writing"}, facts : SUBSET Facts]]
    /\ got \in [Calls -> SUBSET Facts]
    /\ hits \cup found \subseteq Facts
    /\ fetch \in [Addresses -> {"none", "queued", "running", "done"}]
    /\ noted \in [now : SUBSET Facts, before : SUBSET Addresses]
    /\ Cardinality({ip \in Addresses : fetch[ip] = "running"}) <= FetchSlots

(* What a handler has stored while its socket was open is not lost, by     *)
(* whichever protocol and beside whichever other goroutine: all of it is   *)
(* in the hits of the target once wg.Wait() has returned, and the address  *)
(* in the result, for all the targets that come after.                     *)
HeardIsReported ==
    /\ main = "fetching" => InScope(noted.now, target) \subseteq hits
    /\ noted.before \subseteq IPsOf(found)

(* The parts of the inductive invariant that HeardIsReported and            *)
(* ImplementsLAN need.  Protocols are at work for the current target only, *)
(* one on a local segment, while main waits for them.                      *)
InTurn ==
    /\ main \in {"listening", "fetching"} => target \in Eligible
    /\ \A c \in Calls : proto[c] \in {"starting", "listening", "returned"} =>
          main = "listening" /\ c[1] = target

(* What was heard in time is in the hits or still in a map to be merged.   *)
HeardIsKept ==
    /\ main \in {"next", "done"} => hits = {} /\ noted.now = {}
    /\ main = "listening" =>
          \A f \in InScope(noted.now, target) :
             f \in hits \/ \E c \in Calls : proto[c] \in {"listening", "returned"} /\ f \in got[c]

(* Hits are addresses of their target, and only hits are fetched.          *)
HitsAreInScope ==
    /\ main \in {"listening", "fetching"} => IPsOf(hits) \subseteq Scope[target]
    /\ IPsOf(found) \subseteq UNION {Scope[t] : t \in Eligible}
    /\ \A ip \in Addresses : fetch[ip] # "none" => ip \in IPsOf(hits)

DiscoveryInv == TypeOK /\ InTurn /\ HeardIsKept /\ HeardIsReported /\ HitsAreInScope

(* The scan that waits for discovery sees it end once, with addresses of   *)
(* eligible targets only, whatever datagrams name and the readers do.      *)
Lan == INSTANCE LanDiscovery WITH
           Discoverable <- UNION {Scope[t] : t \in Eligible},
           heard <- IF main = "done" THEN IPsOf(found) ELSE {},
           discovery <- IF main = "done" THEN "done" ELSE "running"

ImplementsLAN == Lan!Spec

(* Discovery ends by its deadlines, and leaves no reader behind, although  *)
(* nobody waits for them.                                                  *)
DiscoveryEnds == <>(crashed \/ (main = "done" /\ \A c \in Calls : reader[c].pc = "off"))

(* When the fetches of a run nobody interrupted are over, the hits have    *)
(* the description of every device that gave its location and serves one:  *)
(* the upnp_friendly and upnp_model fields of the report.  The code        *)
(* fetches with dctx, whose deadline every protocol has just waited for.   *)
DescriptionsArrive ==
    main = "fetching" /\ ~cancelled /\ (\A ip \in Addresses : fetch[ip] \in {"none", "done"}) =>
        \A ip \in Describes :
            Fact(ip, "ssdp", "detail") \in noted.now => Fact(ip, "upnp", "detail") \in hits
=============================================================================
