--------------------------- MODULE DiscoveryProofs ---------------------------
(***************************************************************************)
(* Machine-checked proofs about Discovery, for all targets, protocols,     *)
(* addresses and datagrams: what is heard in time is reported, whatever    *)
(* the readers do that nobody waits for, and the scan that waits for       *)
(* discovery gets what LanDiscovery promises it.                           *)
(***************************************************************************)
EXTENDS Discovery, FiniteSetTheorems, TLAPS

(* A step of the system while the process has not crashed.                 *)
Step ==
    \/ Main \/ Deadline \/ Cancel
    \/ \E ip \in Addresses : Fetch(ip)
    \/ \E c \in Calls : Call(c) \/ Reader(c)

LEMMA NextIsStep == [Next]_vars => Step \/ UNCHANGED vars
BY DEF Next, Step

-----------------------------------------------------------------------------
(* The operators on facts.                                                 *)

LEMMA ScopeSubset ==
    ASSUME NEW facts, NEW t
    PROVE  InScope(facts, t) \subseteq facts /\ IPsOf(InScope(facts, t)) \subseteq Scope[t]
BY DEF InScope, IPsOf

(* The addresses of hits merged or taken over are those of either side.    *)
LEMMA MergeFacts ==
    ASSUME NEW known, NEW partial
    PROVE  /\ known \subseteq Merge(known, partial)
           /\ partial \subseteq Merge(known, partial)
           /\ IPsOf(Merge(known, partial)) = IPsOf(known) \cup IPsOf(partial)
BY DEF Merge, IPsOf

(* A later target may replace hits, but never an address.                  *)
LEMMA ReplaceFacts ==
    ASSUME NEW known, NEW new
    PROVE  /\ IPsOf(Replace(known, new)) = IPsOf(known) \cup IPsOf(new)
           /\ Replace(known, new) \subseteq known \cup new
<1>1. Replace(known, new) \subseteq known \cup new
  BY DEF Replace
<1>2. IPsOf(Replace(known, new)) \subseteq IPsOf(known) \cup IPsOf(new)
  BY <1>1 DEF IPsOf
<1>3. IPsOf(new) \subseteq IPsOf(Replace(known, new))
  BY DEF Replace, IPsOf
<1>4. ASSUME NEW f \in known
      PROVE  f.ip \in IPsOf(Replace(known, new))
  <2>1. CASE f.ip \in IPsOf(new)
    BY <2>1, <1>3
  <2>2. CASE f.ip \notin IPsOf(new)
    BY <2>2 DEF Replace, IPsOf
  <2> QED BY <2>1, <2>2
<1>5. IPsOf(known) \subseteq IPsOf(Replace(known, new))
  BY <1>4 DEF IPsOf
<1> QED BY <1>1, <1>2, <1>3, <1>5

LEMMA FactFacts ==
    ASSUME NEW ip \in Addresses, NEW p \in Enabled \cup {"upnp"}
    PROVE  /\ Fact(ip, p, "detail") \in Facts
           /\ Fact(ip, p, "detail").ip = ip
BY DEF Fact, Facts

(* What a handler learns from a datagram are facts.                        *)
LEMMA LearntFacts ==
    ASSUME NEW c \in Calls, NEW d \in Datagrams[c]
    PROVE  Learnt(c[2], d) \subseteq Facts
<1>1. /\ d \in [from : Addresses, named : SUBSET Addresses, detail : BOOLEAN]
      /\ c[2] \in Enabled /\ c[2] \in {"ssdp", "mdns", "llmnr", "wsd"}
  BY DiscoveryAssumption DEF Calls
<1>2. ASSUME NEW ips \in SUBSET Addresses
      PROVE  Told(ips, c[2], d.detail) \subseteq Facts
  BY <1>1 DEF Told, Facts
<1>3. d.named \in SUBSET Addresses /\ {d.from} \in SUBSET Addresses /\ d.detail \in BOOLEAN
  BY <1>1
<1>4. Told(d.named, c[2], TRUE) \subseteq Facts
  BY <1>1, <1>3 DEF Told, Facts
<1> QED BY <1>1, <1>2, <1>3, <1>4 DEF Learnt, SSDP, MDNS, LLMNR, WSD

-----------------------------------------------------------------------------
(* Types.                                                                  *)

(* The slots in use are finitely many, although addresses may not be.      *)
FetchersFinite == IsFiniteSet(Fetching)

LEMMA InitTypeOK == Init => TypeOK /\ FetchersFinite
<1> SUFFICES ASSUME Init PROVE TypeOK /\ FetchersFinite
  OBVIOUS
<1> USE DEF Init
<1>1. Fetching = {}
  BY DEF Fetching
<1>2. FetchersFinite /\ Cardinality(Fetching) = 0
  BY <1>1, FS_EmptySet DEF FetchersFinite
<1>3. target \in 1..(Last + 1) /\ Cardinality(Fetching) <= FetchSlots
  BY <1>2, DiscoveryAssumption
<1>4. reader \in [Calls -> [pc : {"off", "reading", "handling", "writing"}, facts : SUBSET Facts]]
  BY DEF Idle
<1>5. noted \in [now : SUBSET Facts, before : SUBSET Addresses]
  OBVIOUS
<1> QED BY <1>2, <1>3, <1>4, <1>5 DEF TypeOK, Fetching, FetchersFinite

(* The places of a call.                                                   *)
LEMMA ReaderTypeOK ==
    ASSUME TypeOK, NEW c \in Calls, Call(c) \/ Reader(c)
    PROVE  TypeOK'
<1> USE DEF TypeOK
<1>1. CASE Listen(c)
  <2>1. NextRead(c) \in {"off", "reading"}
    BY DEF NextRead
  <2>2. reader' \in [Calls -> [pc : {"off", "reading", "handling", "writing"}, facts : SUBSET Facts]]
    BY <1>1, <2>1 DEF Listen
  <2>3. proto' \in [Calls -> {"none", "starting", "listening", "returned", "merged"}]
    BY <1>1 DEF Listen
  <2> QED BY <1>1, <2>2, <2>3 DEF Listen
<1>2. CASE Return(c)
  BY <1>2 DEF Return
<1>3. CASE MergeCall(c)
  <2>1. reader[c].facts \subseteq Facts /\ got[c] \subseteq Facts
    OBVIOUS
  <2>2. hits' \subseteq Facts
    BY <1>3, <2>1 DEF MergeCall, Merge, InScope
  <2>3. got' \in [Calls -> SUBSET Facts]
    BY <1>3 DEF MergeCall
  <2>4. proto' \in [Calls -> {"none", "starting", "listening", "returned", "merged"}]
        /\ crashed' \in BOOLEAN
    BY <1>3 DEF MergeCall
  <2> QED BY <1>3, <2>2, <2>3, <2>4 DEF MergeCall
<1>4. CASE Receive(c)
  <2> PICK d \in Datagrams[c] :
         reader' = [reader EXCEPT ![c] = [pc |-> "handling", facts |-> Learnt(c[2], d)]]
    BY <1>4 DEF Receive
  <2>1. [pc |-> "handling", facts |-> Learnt(c[2], d)]
          \in [pc : {"off", "reading", "handling", "writing"}, facts : SUBSET Facts]
    BY LearntFacts
  <2> QED BY <1>4, <2>1 DEF Receive
<1>5. CASE InsertBegins(c)
  BY <1>5 DEF InsertBegins
<1>6. CASE InsertEnds(c)
  <2>1. reader[c].facts \subseteq Facts /\ got[c] \subseteq Facts
    OBVIOUS
  <2>2. got' \in [Calls -> SUBSET Facts]
    BY <1>6, <2>1 DEF InsertEnds
  <2>3. reader' \in [Calls -> [pc : {"off", "reading", "handling", "writing"}, facts : SUBSET Facts]]
    BY <1>6 DEF InsertEnds, NextRead
  <2>4. noted' \in [now : SUBSET Facts, before : SUBSET Addresses]
    BY <1>6, <2>1 DEF InsertEnds
  <2> QED BY <1>6, <2>2, <2>3, <2>4 DEF InsertEnds
<1> QED BY <1>1, <1>2, <1>3, <1>4, <1>5, <1>6 DEF Call, Reader

(* What leaves `fetch` alone leaves the slots alone.                       *)
LEMMA SameFetchers ==
    ASSUME FetchersFinite, fetch' = fetch
    PROVE  FetchersFinite' /\ Fetching' = Fetching
BY DEF FetchersFinite, Fetching

(* The discovery goroutine, the deadline and Ctrl-C.                       *)
LEMMA MainTypeOK ==
    ASSUME TypeOK, FetchersFinite, InTurn, Main \/ Deadline \/ Cancel
    PROVE  TypeOK' /\ FetchersFinite'
<1> USE DEF TypeOK
<1>1. target \in Int /\ Last \in Nat
  BY DiscoveryAssumption
<1>2. CASE StartTarget
  <2>1. proto' \in [Calls -> {"none", "starting", "listening", "returned", "merged"}]
    BY <1>2 DEF StartTarget
  <2>2. target' \in 1..(Last + 1)
    BY <1>1, <1>2 DEF StartTarget
  <2>3. main' \in {"next", "listening"} /\ expired' \in BOOLEAN
    BY <1>2 DEF StartTarget
  <2> QED BY <1>2, <2>1, <2>2, <2>3, SameFetchers DEF StartTarget
<1>3. CASE AllMerged
  <2>1. fetch' \in [Addresses -> {"none", "queued", "running", "done"}]
    BY <1>3 DEF AllMerged
  <2>2. Fetching' = {}
    BY <1>3 DEF AllMerged, Fetching
  <2>3. IsFiniteSet(Fetching') /\ Cardinality(Fetching') <= FetchSlots
    BY <2>2, FS_EmptySet, DiscoveryAssumption
  <2> QED BY <1>3, <2>1, <2>3 DEF AllMerged, Fetching, FetchersFinite, calls
<1>4. CASE TakeHits
  <2>1. found' \subseteq Facts
    BY <1>4, ReplaceFacts DEF TakeHits
  <2>2. Fetching' = {}
    BY <1>4 DEF TakeHits, Fetching
  <2>3. IsFiniteSet(Fetching') /\ Cardinality(Fetching') <= FetchSlots
    BY <2>2, FS_EmptySet, DiscoveryAssumption
  <2>4. target' \in 1..(Last + 1)
    <3>1. target \in 1..Last
      BY <1>4, DiscoveryAssumption DEF TakeHits, InTurn
    <3> QED BY <1>4, <1>1, <3>1 DEF TakeHits
  <2>5. IPsOf(InScope(noted.now, target)) \subseteq Addresses
    BY DEF IPsOf, InScope, Facts
  <2>6. noted' \in [now : SUBSET Facts, before : SUBSET Addresses]
    BY <1>4, <2>5 DEF TakeHits
  <2>7. fetch' \in [Addresses -> {"none", "queued", "running", "done"}]
    BY <1>4 DEF TakeHits
  <2> QED BY <1>4, <2>1, <2>3, <2>4, <2>6, <2>7 DEF TakeHits, Fetching, FetchersFinite, calls
<1>5. CASE Finish
  BY <1>5, SameFetchers DEF Finish, calls
<1>6. CASE Deadline
  BY <1>6, SameFetchers DEF Deadline, calls
<1>7. CASE Cancel
  BY <1>7, SameFetchers DEF Cancel, calls
<1> QED BY <1>2, <1>3, <1>4, <1>5, <1>6, <1>7 DEF Main

(* The goroutines that fetch descriptions.                                 *)
LEMMA FetchTypeOK ==
    ASSUME TypeOK, FetchersFinite, InTurn, HitsAreInScope, NEW ip \in Addresses, Fetch(ip)
    PROVE  TypeOK' /\ FetchersFinite'
<1> USE DEF TypeOK
<1>1. CASE FetchSpawn(ip)
  <2>1. Fetching' = Fetching \cup {ip} /\ ip \notin Fetching
    BY <1>1 DEF FetchSpawn, Fetching
  <2>2. /\ IsFiniteSet(Fetching')
        /\ Cardinality(Fetching') = Cardinality(Fetching) + 1
        /\ Cardinality(Fetching) \in Nat
    BY <2>1, FS_AddElement, FS_CardinalityType DEF FetchersFinite
  <2>3. Cardinality(Fetching') <= FetchSlots
    BY <1>1, <2>2, DiscoveryAssumption DEF FetchSpawn
  <2>4. fetch' \in [Addresses -> {"none", "queued", "running", "done"}]
    BY <1>1 DEF FetchSpawn
  <2> QED BY <1>1, <2>2, <2>3, <2>4 DEF FetchSpawn, Fetching, FetchersFinite, calls
<1>2. CASE FetchEnds(ip)
  <2>1. Fetching' = Fetching \ {ip} /\ ip \in Fetching
    BY <1>2 DEF FetchEnds, Fetching
  <2>2. /\ IsFiniteSet(Fetching')
        /\ Cardinality(Fetching') = Cardinality(Fetching) - 1
        /\ Cardinality(Fetching) \in Nat
    BY <2>1, FS_RemoveElement, FS_CardinalityType DEF FetchersFinite
  <2>3. Cardinality(Fetching') <= FetchSlots
    BY <2>2, DiscoveryAssumption DEF Fetching
  <2>4. fetch' \in [Addresses -> {"none", "queued", "running", "done"}]
    BY <1>2 DEF FetchEnds
  <2>5. hits' \subseteq Facts
    BY <1>2, FactFacts DEF FetchEnds
  <2> QED BY <1>2, <2>2, <2>3, <2>4, <2>5 DEF FetchEnds, Fetching, FetchersFinite, calls
<1> QED BY <1>1, <1>2 DEF Fetch

-----------------------------------------------------------------------------
(* The invariant.                                                          *)

LEMMA InitInv == Init => DiscoveryInv /\ FetchersFinite
<1> SUFFICES ASSUME Init PROVE DiscoveryInv /\ FetchersFinite
  OBVIOUS
<1>1. TypeOK /\ FetchersFinite
  BY InitTypeOK
<1>2. InTurn
  BY DEF Init, InTurn
<1>3. HeardIsKept /\ HeardIsReported
  BY DEF Init, HeardIsKept, HeardIsReported, InScope, IPsOf
<1>4. HitsAreInScope
  BY DEF Init, HitsAreInScope, IPsOf
<1> QED BY <1>1, <1>2, <1>3, <1>4 DEF DiscoveryInv

(* The steps of main and of the fetches.                                   *)
LEMMA MainPreserves ==
    ASSUME DiscoveryInv, FetchersFinite, Main \/ Deadline \/ Cancel
    PROVE  DiscoveryInv' /\ FetchersFinite'
<1> USE DEF DiscoveryInv
<1>1. TypeOK' /\ FetchersFinite'
  BY MainTypeOK
<1>2. InTurn'
  <2>1. CASE StartTarget
    BY <2>1, DiscoveryAssumption DEF StartTarget, InTurn, TypeOK
  <2>2. CASE AllMerged
    <3>1. ASSUME NEW c \in Calls, proto[c] \in {"starting", "listening", "returned"}
          PROVE  FALSE
      <4>1. c = <<target, c[2]>> /\ c[2] \in Enabled
        BY <3>1 DEF InTurn, Calls
      <4> QED BY <2>2, <3>1, <4>1 DEF AllMerged
    <3> QED BY <2>2, <3>1 DEF AllMerged, InTurn, calls
  <2>3. CASE TakeHits \/ Finish \/ Deadline \/ Cancel
    BY <2>3 DEF TakeHits, Finish, Deadline, Cancel, InTurn, calls
  <2> QED BY <2>1, <2>2, <2>3 DEF Main
<1>3. HeardIsKept' /\ HeardIsReported'
  <2>1. CASE StartTarget
    BY <2>1 DEF StartTarget, HeardIsKept, HeardIsReported, InScope
  <2>2. CASE AllMerged
    <3>1. ASSUME NEW f \in InScope(noted.now, target)
          PROVE  f \in hits
      <4>1. SUFFICES ASSUME NEW c \in Calls, proto[c] \in {"listening", "returned"}
                     PROVE  FALSE
        BY <2>2, <3>1 DEF AllMerged, HeardIsKept
      <4>2. c = <<target, c[2]>> /\ c[2] \in Enabled
        BY <4>1 DEF InTurn, Calls
      <4> QED BY <2>2, <4>1, <4>2 DEF AllMerged
    <3> QED BY <2>2, <3>1 DEF AllMerged, HeardIsKept, HeardIsReported, InScope, calls
  <2>3. CASE TakeHits
    <3>1. IPsOf(InScope(noted.now, target)) \subseteq IPsOf(hits)
      BY <2>3 DEF TakeHits, HeardIsReported, IPsOf
    <3>2. IPsOf(found') = IPsOf(found) \cup IPsOf(hits)
      BY <2>3, ReplaceFacts DEF TakeHits
    <3> QED BY <2>3, <3>1, <3>2 DEF TakeHits, HeardIsKept, HeardIsReported
  <2>4. CASE Finish \/ Deadline \/ Cancel
    BY <2>4 DEF Finish, Deadline, Cancel, HeardIsKept, HeardIsReported, InScope, calls
  <2> QED BY <2>1, <2>2, <2>3, <2>4 DEF Main
<1>4. HitsAreInScope'
  <2>1. CASE StartTarget
    BY <2>1 DEF StartTarget, HitsAreInScope, HeardIsKept, IPsOf
  <2>2. CASE AllMerged
    <3>1. ASSUME NEW ip \in Addresses, fetch'[ip] # "none"
          PROVE  ip \in IPsOf(hits)
      BY <2>2, <3>1 DEF AllMerged, Fact, IPsOf
    <3> QED BY <2>2, <3>1 DEF AllMerged, HitsAreInScope, calls
  <2>3. CASE TakeHits
    <3>1. IPsOf(found') = IPsOf(found) \cup IPsOf(hits)
      BY <2>3, ReplaceFacts DEF TakeHits
    <3>2. IPsOf(hits) \subseteq UNION {Scope[t] : t \in Eligible}
      BY <2>3 DEF TakeHits, HitsAreInScope, InTurn
    <3> QED BY <2>3, <3>1, <3>2 DEF TakeHits, HitsAreInScope
  <2>4. CASE Finish \/ Deadline \/ Cancel
    BY <2>4 DEF Finish, Deadline, Cancel, HitsAreInScope, calls
  <2> QED BY <2>1, <2>2, <2>3, <2>4 DEF Main
<1> QED BY <1>1, <1>2, <1>3, <1>4

LEMMA FetchPreserves ==
    ASSUME DiscoveryInv, FetchersFinite, NEW ip \in Addresses, Fetch(ip)
    PROVE  DiscoveryInv' /\ FetchersFinite'
<1> USE DEF DiscoveryInv
<1>1. TypeOK' /\ FetchersFinite'
  BY FetchTypeOK
<1>2. /\ UNCHANGED <<target, main, calls, found, noted>>
      /\ hits \subseteq hits' /\ fetch[ip] # "none"
  BY DEF Fetch, FetchSpawn, FetchEnds
<1>3. IPsOf(hits') = IPsOf(hits)
  <2>1. ip \in IPsOf(hits)
    BY <1>2 DEF HitsAreInScope
  <2>2. \A f \in hits' : f \in hits \/ f.ip = ip
    BY FactFacts DEF Fetch, FetchSpawn, FetchEnds
  <2> QED BY <1>2, <2>1, <2>2 DEF IPsOf
<1>4. main \in {"listening", "fetching"}
  BY <1>2, <1>3 DEF HitsAreInScope, HeardIsKept, IPsOf, TypeOK
<1>5. InTurn'
  BY <1>2 DEF InTurn, calls
<1>6. HeardIsKept' /\ HeardIsReported'
  BY <1>2, <1>4 DEF HeardIsKept, HeardIsReported, InScope, calls
<1>7. HitsAreInScope'
  <2>1. \A a \in Addresses : fetch'[a] # "none" => fetch[a] # "none"
    BY <1>2 DEF Fetch, FetchSpawn, FetchEnds, TypeOK
  <2> QED BY <1>2, <1>3, <2>1 DEF HitsAreInScope
<1> QED BY <1>1, <1>5, <1>6, <1>7

(* The steps of a protocol's goroutine and of its reader.                  *)
LEMMA CallPreserves ==
    ASSUME DiscoveryInv, FetchersFinite, NEW c \in Calls, Call(c)
    PROVE  DiscoveryInv' /\ FetchersFinite'
<1> USE DEF DiscoveryInv
<1>1. TypeOK' /\ FetchersFinite'
  <2>1. fetch' = fetch
    BY DEF Call, Listen, Return, MergeCall
  <2> QED BY <2>1, ReaderTypeOK, SameFetchers
<1>2. /\ proto[c] \in {"starting", "listening", "returned"}
      /\ main = "listening" /\ c[1] = target
      /\ UNCHANGED <<target, main, found, fetch, noted>>
  BY DEF Call, Listen, Return, MergeCall, InTurn
<1>3. InTurn'
  BY <1>2 DEF InTurn, Call, Listen, Return, MergeCall, TypeOK
<1>4. hits \subseteq hits' /\ IPsOf(hits') \subseteq Scope[target]
  <2>1. CASE MergeCall(c)
    <3>1. CASE crashed' = TRUE /\ UNCHANGED hits
      BY <1>2, <3>1 DEF HitsAreInScope
    <3>2. CASE \E late : hits' = Merge(hits, InScope(got[c] \cup late, c[1]))
      BY <1>2, <3>2, MergeFacts, ScopeSubset DEF HitsAreInScope
    <3> QED BY <2>1, <3>1, <3>2 DEF MergeCall
  <2>2. CASE Listen(c) \/ Return(c)
    BY <1>2, <2>2 DEF Listen, Return, HitsAreInScope
  <2> QED BY <2>1, <2>2 DEF Call
<1>5. HitsAreInScope'
  BY <1>2, <1>4 DEF HitsAreInScope, IPsOf
<1>6. HeardIsReported'
  BY <1>2 DEF HeardIsReported
<1>7. ASSUME NEW f \in InScope(noted.now, target), f \notin hits'
      PROVE  \E b \in Calls : proto'[b] \in {"listening", "returned"} /\ f \in got'[b]
  <2>1. PICK b \in Calls : proto[b] \in {"listening", "returned"} /\ f \in got[b]
    BY <1>2, <1>4, <1>7 DEF HeardIsKept
  <2>2. CASE Listen(c) \/ Return(c)
    BY <2>1, <2>2 DEF Listen, Return, TypeOK
  <2>3. CASE MergeCall(c) /\ b # c
    BY <2>1, <2>3 DEF MergeCall, TypeOK
  <2>4. CASE MergeCall(c) /\ b = c
    <3>1. ASSUME NEW late, hits' = Merge(hits, InScope(got[c] \cup late, c[1]))
          PROVE  FALSE
      <4>1. f \in InScope(got[c] \cup late, c[1])
        BY <1>2, <2>1, <2>4 DEF InScope
      <4> QED BY <1>7, <3>1, <4>1, MergeFacts
    <3>2. UNCHANGED <<proto, got>>
      BY <2>4, <3>1 DEF MergeCall
    <3> QED BY <2>1, <3>2
  <2> QED BY <2>2, <2>3, <2>4 DEF Call
<1>8. HeardIsKept'
  BY <1>2, <1>7 DEF HeardIsKept
<1> QED BY <1>1, <1>3, <1>5, <1>6, <1>8

(* A reader that nobody waits for may write what it likes into its map:    *)
(* only what it stores while its socket is open is promised to be kept,    *)
(* and then the map has not been merged.                                   *)
LEMMA ReaderPreserves ==
    ASSUME DiscoveryInv, FetchersFinite, NEW c \in Calls, Reader(c)
    PROVE  DiscoveryInv' /\ FetchersFinite'
<1> USE DEF DiscoveryInv
<1>1. UNCHANGED <<target, main, proto, hits, found, fetch>>
  BY DEF Reader, Receive, InsertBegins, InsertEnds
<1>2. TypeOK' /\ FetchersFinite'
  BY <1>1, ReaderTypeOK, SameFetchers
<1>3. InTurn' /\ HitsAreInScope'
  BY <1>1 DEF InTurn, HitsAreInScope
<1>4. HeardIsKept' /\ HeardIsReported'
  <2>1. CASE UNCHANGED <<noted, got>>
    BY <1>1, <2>1 DEF HeardIsKept, HeardIsReported
  <2>2. CASE InsertEnds(c) /\ proto[c] = "listening"
    <3>1. main = "listening"
      BY <2>2 DEF InTurn
    <3>2. /\ got' = [got EXCEPT ![c] = @ \cup reader[c].facts]
          /\ noted'.now = noted.now \cup reader[c].facts /\ noted'.before = noted.before
      BY <2>2 DEF InsertEnds, TypeOK
    <3>3. HeardIsReported'
      BY <1>1, <3>1, <3>2 DEF HeardIsReported
    <3>4. ASSUME NEW f \in InScope(noted'.now, target), f \notin hits
          PROVE  \E b \in Calls : proto[b] \in {"listening", "returned"} /\ f \in got'[b]
      <4>1. CASE f \in reader[c].facts
        BY <2>2, <3>2, <4>1 DEF TypeOK
      <4>2. CASE f \in InScope(noted.now, target)
        <5>1. PICK b \in Calls : proto[b] \in {"listening", "returned"} /\ f \in got[b]
          BY <3>1, <3>4, <4>2 DEF HeardIsKept
        <5> QED BY <3>2, <5>1 DEF TypeOK
      <4> QED BY <3>2, <3>4, <4>1, <4>2 DEF InScope
    <3> QED BY <1>1, <3>1, <3>3, <3>4 DEF HeardIsKept
  <2>3. CASE InsertEnds(c) /\ proto[c] # "listening"
    <3>1. noted' = noted /\ \A b \in Calls : got[b] \subseteq got'[b]
      BY <2>3 DEF InsertEnds, TypeOK
    <3> QED BY <1>1, <3>1 DEF HeardIsKept, HeardIsReported
  <2> QED BY <2>1, <2>2, <2>3 DEF Reader, Receive, InsertBegins
<1> QED BY <1>2, <1>3, <1>4

LEMMA StepPreserves ==
    ASSUME DiscoveryInv, FetchersFinite, [Next]_vars
    PROVE  DiscoveryInv' /\ FetchersFinite'
<1>1. CASE UNCHANGED vars
  BY <1>1 DEF vars, calls, DiscoveryInv, FetchersFinite, Fetching, TypeOK, InTurn,
     HeardIsKept, HeardIsReported, HitsAreInScope
<1>2. CASE Step
  BY <1>2, MainPreserves, FetchPreserves, CallPreserves, ReaderPreserves DEF Step
<1> QED BY <1>1, <1>2, NextIsStep

-----------------------------------------------------------------------------
(* The theorems.                                                           *)

(* DiscoveryInv holds in every reachable state.                            *)
THEOREM DiscoveryInvariant == Spec => []DiscoveryInv
<1>1. DiscoveryInv /\ FetchersFinite /\ [Next]_vars => DiscoveryInv' /\ FetchersFinite'
  BY StepPreserves
<1> QED BY <1>1, InitInv, PTL DEF Spec

(* What a handler stored before its socket was closed (src/discovery.go,   *)
(* merge) is in the hits of its target, and the address in the result for  *)
(* all later targets.                                                      *)
THEOREM HeardReported == Spec => []HeardIsReported
BY DiscoveryInvariant, PTL DEF DiscoveryInv

(* Discovery implements the contract by which scanNetwork waits for it:    *)
(* discoveryWg.Done() comes once, with addresses of the local targets      *)
(* only, whoever sends datagrams and whatever they name.                   *)
THEOREM DiscoveryImplementsLAN == Spec => ImplementsLAN
<1>1. Init => Lan!Init
  BY DEF Init, Lan!Init
<1>2. DiscoveryInv /\ DiscoveryInv' /\ [Next]_vars =>
        [Lan!Next]_<<IF main = "done" THEN IPsOf(found) ELSE {},
                     IF main = "done" THEN "done" ELSE "running">>
  <2> SUFFICES ASSUME DiscoveryInv, DiscoveryInv', [Next]_vars
               PROVE  [Lan!Next]_<<IF main = "done" THEN IPsOf(found) ELSE {},
                                   IF main = "done" THEN "done" ELSE "running">>
    OBVIOUS
  <2>1. CASE UNCHANGED <<main, found>>
    BY <2>1
  <2>2. CASE Finish
    <3>1. IPsOf(found)' \in SUBSET UNION {Scope[t] : t \in Eligible}
      BY DEF DiscoveryInv, HitsAreInScope
    <3> QED BY <2>2, <3>1 DEF Finish, Lan!Next, Lan!End
  <2>3. CASE main # "done" /\ main' # "done"
    BY <2>3
  <2>4. Finish \/ UNCHANGED <<main, found>> \/ (main # "done" /\ main' # "done")
    BY NextIsStep DEF Step, Main, StartTarget, AllMerged, TakeHits, Deadline, Cancel, Fetch, FetchSpawn,
       FetchEnds, Call, Listen, Return, MergeCall, Reader, Receive, InsertBegins, InsertEnds, vars
  <2> QED BY <2>1, <2>2, <2>3, <2>4
<1> QED BY <1>1, <1>2, DiscoveryInvariant, PTL DEF Spec, ImplementsLAN, Lan!Spec

=============================================================================
