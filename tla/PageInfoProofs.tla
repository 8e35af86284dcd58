--------------------------- MODULE PageInfoProofs ---------------------------
(***************************************************************************)
(* Machine-checked proofs about PageInfo, for all addresses, ports and     *)
(* numbers of scans, passes and exports.  Everything rests on one fact:    *)
(* slices only gain pages, because each is allocated once and HTTPRefresh  *)
(* fills what is empty.                                                    *)
(***************************************************************************)
EXTENDS PageInfo, TLAPS

(* The slices of s have the ports and at least the pages they had.         *)
SlicesGain == \A s \in DOMAIN slice : s \in DOMAIN slice' /\ Gains(slice[s], slice'[s])

LEMMA SliceNames ==
    /\ NoRow \notin Slices /\ NoPorts \notin Slices /\ NoRow # NoPorts
    /\ NoPorts[1] = -2 /\ NoRow[1] = -1
    /\ \A s \in Slices : s[1] \in Nat /\ s[1] <= MaxScans /\ s[2] \in Hosts /\ s = <<s[1], s[2]>>
    /\ \A ip \in Hosts : <<Watch, ip>> \in Slices
    /\ \A n \in 1..MaxScans, ip \in Hosts : <<n, ip>> \in Slices /\ <<n, ip>> # <<Watch, ip>>
BY PageAssumption DEF NoRow, NoPorts, Slices, Watch

LEMMA ContentsType ==
    ASSUME NEW c \in Contents
    PROVE  DOMAIN c \subseteq Ports /\ c \in [DOMAIN c -> Page]
BY DEF Contents

LEMMA JobFields ==
    ASSUME NEW j \in Jobs
    PROVE  j[1] \in 1..MaxScans /\ j[2] \in Hosts /\ j[3] \in Ports /\ j = <<j[1], j[2], j[3]>>
BY DEF Jobs

-----------------------------------------------------------------------------
(* Slices.                                                                 *)

LEMMA AllocateGains ==
    ASSUME slice \in [DOMAIN slice -> Contents], NEW s \in Slices, s \notin DOMAIN slice,
           DOMAIN slice \subseteq Slices, NEW contents \in Contents, Allocate(s, contents)
    PROVE  /\ SlicesGain
           /\ DOMAIN slice' = DOMAIN slice \cup {s}
           /\ slice' \in [DOMAIN slice' -> Contents] /\ DOMAIN slice' \subseteq Slices
           /\ \A x \in DOMAIN slice : slice'[x] = slice[x]
<1>1. slice' = [x \in DOMAIN slice \cup {s} |-> IF x = s THEN contents ELSE slice[x]]
  BY DEF Allocate
<1>2. DOMAIN slice' = DOMAIN slice \cup {s} /\ \A x \in DOMAIN slice : slice'[x] = slice[x]
  BY <1>1
<1>3. slice' \in [DOMAIN slice' -> Contents]
  BY <1>1, <1>2
<1>4. SlicesGain
  BY <1>2 DEF SlicesGain, Gains
<1> QED BY <1>2, <1>3, <1>4

LEMMA RefreshGains ==
    ASSUME TypeOK, NEW j \in Jobs, HTTPRefresh(j)
    PROVE  /\ SlicesGain
           /\ DOMAIN slice' = DOMAIN slice /\ slice' \in [DOMAIN slice' -> Contents]
           /\ \A s \in DOMAIN slice : DOMAIN slice'[s] = DOMAIN slice[s]
           /\ table[j[2]] \in DOMAIN slice /\ j[3] \in DOMAIN slice[table[j[2]]]
                => slice'[table[j[2]]][j[3]] # NoPage
<1> DEFINE s == table[j[2]]
<1>1. slice \in [DOMAIN slice -> Contents] /\ j[1] \in 1..MaxScans
  BY JobFields DEF TypeOK
<1>2. slice' = IF s \in DOMAIN slice /\ Fills(slice[s], j[3])
               THEN [slice EXCEPT ![s][j[3]] = j[1]] ELSE slice
  BY DEF HTTPRefresh
<1>3. CASE s \in DOMAIN slice /\ Fills(slice[s], j[3])
  <2> DEFINE c == [slice[s] EXCEPT ![j[3]] = j[1]]
  <2>1. slice[s] \in Contents /\ slice[s] \in [DOMAIN slice[s] -> Page]
        /\ DOMAIN slice[s] \subseteq Ports
    BY <1>1, <1>3, ContentsType
  <2>2. slice' = [slice EXCEPT ![s] = c]
    BY <1>2, <1>3
  <2>3. /\ DOMAIN c = DOMAIN slice[s] /\ c \in [DOMAIN slice[s] -> Page]
        /\ c[j[3]] = j[1] /\ \A p \in DOMAIN slice[s] : p # j[3] => c[p] = slice[s][p]
    BY <1>1, <1>3, <2>1 DEF Fills, Page, Watch
  <2>4. c \in Contents
    BY <2>1, <2>3 DEF Contents
  <2>5. Gains(slice[s], c) /\ c[j[3]] # NoPage
    BY <1>1, <1>3, <2>3 DEF Gains, Fills, NoPage
  <2> HIDE DEF c
  <2>6. DOMAIN slice' = DOMAIN slice /\ slice'[s] = c
        /\ \A x \in DOMAIN slice : x # s => slice'[x] = slice[x]
    BY <1>1, <1>3, <2>2
  <2>7. slice' \in [DOMAIN slice' -> Contents]
    BY <1>1, <2>2, <2>4, <2>6
  <2>8. SlicesGain
    BY <2>5, <2>6 DEF SlicesGain, Gains
  <2>9. \A x \in DOMAIN slice : DOMAIN slice'[x] = DOMAIN slice[x]
    BY <2>8 DEF SlicesGain, Gains
  <2> QED BY <2>5, <2>6, <2>7, <2>8, <2>9
<1>4. CASE ~(s \in DOMAIN slice /\ Fills(slice[s], j[3]))
  BY <1>1, <1>2, <1>4 DEF SlicesGain, Gains, Fills
<1> QED BY <1>3, <1>4

LEMMA NothingIsContents ==
    Nothing \in Contents /\ DOMAIN Nothing = {}
<1>1. Nothing \in [{} -> Page] /\ {} \in SUBSET Ports
  BY DEF Nothing
<1> QED BY <1>1 DEF Contents, Nothing

LEMMA ReadType ==
    ASSUME TypeOK, NEW s
    PROVE  Read(s) \in Contents
BY NothingIsContents DEF Read, TypeOK

(* A host goroutine and a discovery allocate a slice nobody has.           *)
LEMMA FreshSlices ==
    ASSUME TypeOK, AllocatedOnce, NEW ip \in Hosts
    PROVE  /\ HostReady(ip) => <<scan.number, ip>> \in Slices \ DOMAIN slice
           /\ UpsertHost(ip) => <<Watch, ip>> \in Slices \ DOMAIN slice
<1>1. scan.number \in 1..MaxScans
  BY DEF TypeOK
<1>2. HostReady(ip) => <<scan.number, ip>> \in Slices \ DOMAIN slice
  BY <1>1, SliceNames DEF HostReady, AllocatedOnce
<1>3. UpsertHost(ip) => <<Watch, ip>> \in Slices \ DOMAIN slice
  BY SliceNames DEF UpsertHost, AllocatedOnce
<1> QED BY <1>2, <1>3

LEMMA StepSlices ==
    ASSUME TypeOK, AllocatedOnce, [Next]_vars
    PROVE  /\ SlicesGain
           /\ DOMAIN slice' \subseteq Slices /\ slice' \in [DOMAIN slice' -> Contents]
<1>0. slice \in [DOMAIN slice -> Contents] /\ DOMAIN slice \subseteq Slices
  BY DEF TypeOK
<1>1. ASSUME NEW ip \in Hosts, HostReady(ip)
      PROVE  /\ SlicesGain
             /\ DOMAIN slice' \subseteq Slices /\ slice' \in [DOMAIN slice' -> Contents]
  <2>1. PICK contents \in Contents : Allocate(<<scan.number, ip>>, contents)
    BY <1>1 DEF HostReady
  <2> QED BY <1>0, <1>1, <2>1, FreshSlices, AllocateGains
<1>2. ASSUME NEW ip \in Hosts, UpsertHost(ip)
      PROVE  /\ SlicesGain
             /\ DOMAIN slice' \subseteq Slices /\ slice' \in [DOMAIN slice' -> Contents]
  <2>1. PICK contents \in Contents : Allocate(<<Watch, ip>>, contents)
    BY <1>2 DEF UpsertHost
  <2> QED BY <1>0, <1>2, <2>1, FreshSlices, AllocateGains
<1>3. ASSUME NEW j \in Jobs, HTTPRefresh(j)
      PROVE  /\ SlicesGain
             /\ DOMAIN slice' \subseteq Slices /\ slice' \in [DOMAIN slice' -> Contents]
  BY <1>0, <1>3, RefreshGains
<1>4. CASE UNCHANGED slice
  BY <1>0, <1>4 DEF SlicesGain, Gains
<1>5. \A n \in 1..MaxScans : Pending(n) \subseteq Jobs
  BY DEF Pending, Jobs
<1>6. \/ UNCHANGED slice
      \/ \E ip \in Hosts : HostReady(ip) \/ UpsertHost(ip)
      \/ \E j \in Jobs : HTTPRefresh(j)
  BY <1>5 DEF Next, vars, Scan, ScheduleSecondPass, InstallReport, TriggerRescan, Export, BeginExport,
         EndExport, WriteRow, Pass, Spawn, ProbeFails, DiscoverStart, Discover, RemoveHost, Waiting
<1> QED BY <1>1, <1>2, <1>3, <1>4, <1>6

-----------------------------------------------------------------------------
(* Types.                                                                  *)

LEMMA InitTypeOK == Init => TypeOK
<1> SUFFICES ASSUME Init PROVE TypeOK
  OBVIOUS
<1> USE DEF Init
<1>1. PICK ips \in SUBSET Hosts :
        /\ table = [ip \in Hosts |-> IF ip \in ips THEN NoPorts ELSE NoRow]
        /\ scan = NewScan(1, ips)
  OBVIOUS
<1>2. slice \in [DOMAIN slice -> Contents] /\ DOMAIN slice \subseteq Slices
  BY DEF Nothing
<1>3. table \in [Hosts -> Named] /\ report \in [Hosts -> Named]
  BY <1>1 DEF Named
<1>4. \A ip \in Hosts : {table[ip], report[ip]} \subseteq DOMAIN slice \cup {NoRow, NoPorts}
  BY <1>1
<1>5. scan \in [number : 1..MaxScans, pc : {"enriching", "applying", "idle"}, left : SUBSET Hosts]
  BY <1>1, PageAssumption DEF NewScan
<1>6. export \in [pc : {"idle", "writing"}, rows : Copies(Named), was : Copies(Contents),
                  out : Copies(Contents), count : 0..MaxExports]
  <2>1. Nothing \in Copies(Named) /\ Nothing \in Copies(Contents)
    <3>1. {} \in SUBSET Hosts /\ Nothing \in [{} -> Named] /\ Nothing \in [{} -> Contents]
      BY DEF Nothing
    <3> QED BY <3>1 DEF Copies
  <2> QED BY <2>1, PageAssumption DEF NoExport
<1>7. /\ phase \in {"scanning", "watch"} /\ overtaken \subseteq Slices
      /\ job \in [Jobs -> {"none", "queued", "running", "answered", "failed"}]
      /\ discovery \in [Hosts -> {"idle", "scanning", "done"}]
  OBVIOUS
<1> QED BY <1>2, <1>3, <1>4, <1>5, <1>6, <1>7 DEF TypeOK

(* A table whose rows name slices that exist.                              *)
TableType(rows) ==
    /\ rows \in [Hosts -> Named]
    /\ \A ip \in Hosts : rows[ip] \in DOMAIN slice \cup {NoRow, NoPorts}

LEMMA TableTypes ==
    ASSUME TypeOK, AllocatedOnce, ReportShown, [Next]_vars
    PROVE  TableType(table)' /\ TableType(report)'
<1>1. DOMAIN slice' \subseteq Slices /\ DOMAIN slice \subseteq DOMAIN slice'
  BY StepSlices DEF SlicesGain
<1>2. TableType(table) /\ TableType(report)
  BY DEF TypeOK, TableType
<1>3. (UNCHANGED table => TableType(table)') /\ (UNCHANGED report => TableType(report)')
  BY <1>1, <1>2 DEF TableType
<1>4. ASSUME NEW ip \in Hosts, HostReady(ip)
      PROVE  TableType(table)' /\ TableType(report)'
  <2>1. <<scan.number, ip>> \in Slices /\ <<scan.number, ip>> \in DOMAIN slice'
    BY <1>4, FreshSlices DEF HostReady, Allocate
  <2>2. /\ report' = [report EXCEPT ![ip] = <<scan.number, ip>>]
        /\ table' = [table EXCEPT ![ip] = <<scan.number, ip>>]
    BY <1>4 DEF HostReady
  <2> QED BY <1>1, <1>2, <2>1, <2>2 DEF TableType, Named
<1>5. ASSUME NEW ip \in Hosts, UpsertHost(ip)
      PROVE  TableType(table)' /\ TableType(report)'
  <2>1. <<Watch, ip>> \in Slices /\ <<Watch, ip>> \in DOMAIN slice'
    BY <1>5, FreshSlices DEF UpsertHost, Allocate
  <2>2. report' = report /\ table' = [table EXCEPT ![ip] = <<Watch, ip>>]
    BY <1>5 DEF UpsertHost
  <2> QED BY <1>1, <1>2, <2>1, <2>2 DEF TableType, Named
<1>6. CASE InstallReport
  BY <1>1, <1>2, <1>3, <1>6 DEF InstallReport, TableType, Named
<1>7. CASE TriggerRescan
  BY <1>1, <1>2, <1>7 DEF TriggerRescan, TableType, Named
<1>8. ASSUME NEW ip \in Hosts, DiscoverStart(ip) \/ RemoveHost(ip)
      PROVE  TableType(table)' /\ TableType(report)'
  <2>1. report' = report /\ \/ table' = table
                            \/ table' = [table EXCEPT ![ip] = NoPorts]
                            \/ table' = [table EXCEPT ![ip] = NoRow]
    BY <1>8 DEF DiscoverStart, RemoveHost
  <2> QED BY <1>1, <1>2, <1>3, <2>1 DEF TableType, Named
<1>9. CASE UNCHANGED <<table, report>>
  BY <1>3, <1>9
<1>10. \/ UNCHANGED <<table, report>> \/ InstallReport \/ TriggerRescan
       \/ \E ip \in Hosts : HostReady(ip) \/ UpsertHost(ip) \/ DiscoverStart(ip) \/ RemoveHost(ip)
  BY DEF Next, vars, Scan, ScheduleSecondPass, Export, BeginExport, EndExport, WriteRow,
         Pass, Spawn, HTTPRefresh, ProbeFails, Discover, Waiting
<1> QED BY <1>4, <1>5, <1>6, <1>7, <1>8, <1>9, <1>10

LEMMA ScanTypes ==
    ASSUME TypeOK, ReportShown, [Next]_vars
    PROVE  /\ phase' \in {"scanning", "watch"} /\ overtaken' \subseteq Slices
           /\ scan' \in [number : 1..MaxScans, pc : {"enriching", "applying", "idle"}, left : SUBSET Hosts]
           /\ discovery' \in [Hosts -> {"idle", "scanning", "done"}]
<1> USE DEF TypeOK
<1>1. CASE TriggerRescan
  <2>1. PICK ips \in SUBSET Hosts : scan' = NewScan(scan.number + 1, ips)
    BY <1>1 DEF TriggerRescan
  <2>2. scan.number + 1 \in 1..MaxScans
    BY <1>1, PageAssumption DEF TriggerRescan
  <2> QED BY <1>1, <2>1, <2>2 DEF TriggerRescan, NewScan
<1>2. CASE (\E ip \in Hosts : HostReady(ip)) \/ ScheduleSecondPass \/ InstallReport
  <2>1. \/ \E ip \in Hosts : scan' = [scan EXCEPT !.left = @ \ {ip}]
        \/ \E pc \in {"applying", "idle"} : scan' = [scan EXCEPT !.pc = pc]
    BY <1>2 DEF HostReady, ScheduleSecondPass, InstallReport
  <2>2. scan' \in [number : 1..MaxScans, pc : {"enriching", "applying", "idle"}, left : SUBSET Hosts]
    BY <2>1
  <2> QED BY <1>2, <2>2 DEF HostReady, ScheduleSecondPass, InstallReport
<1>3. ASSUME NEW ip \in Hosts, UpsertHost(ip)
      PROVE  /\ overtaken' \subseteq Slices
             /\ discovery' \in [Hosts -> {"idle", "scanning", "done"}]
             /\ UNCHANGED <<phase, scan>>
  <2>1. report[ip] # NoRow => report[ip] \in Slices
    BY DEF ReportShown
  <2> QED BY <1>3, <2>1 DEF UpsertHost
<1>4. CASE \E ip \in Hosts : DiscoverStart(ip) \/ RemoveHost(ip)
  BY <1>4 DEF DiscoverStart, RemoveHost
<1>5. CASE UNCHANGED <<phase, scan, overtaken, discovery>>
  BY <1>5
<1>6. \/ UNCHANGED <<phase, scan, overtaken, discovery>> \/ TriggerRescan
      \/ (\E ip \in Hosts : HostReady(ip)) \/ ScheduleSecondPass \/ InstallReport
      \/ \E ip \in Hosts : UpsertHost(ip) \/ DiscoverStart(ip) \/ RemoveHost(ip)
  BY DEF Next, vars, Scan, Export, BeginExport, EndExport, WriteRow,
         Pass, Spawn, HTTPRefresh, ProbeFails, Discover, Waiting
<1> QED BY <1>1, <1>2, <1>3, <1>4, <1>5, <1>6

LEMMA JobTypes ==
    ASSUME TypeOK, [Next]_vars
    PROVE  job' \in [Jobs -> {"none", "queued", "running", "answered", "failed"}]
<1> USE DEF TypeOK
<1>1. CASE ScheduleSecondPass
  BY <1>1 DEF ScheduleSecondPass
<1>2. CASE \E j \in Jobs : Spawn(j) \/ HTTPRefresh(j) \/ ProbeFails(j)
  BY <1>2 DEF Spawn, HTTPRefresh, ProbeFails
<1>3. CASE UNCHANGED job
  BY <1>3
<1>4. \A n \in 1..MaxScans : Pending(n) \subseteq Jobs
  BY DEF Pending, Jobs
<1>5. UNCHANGED job \/ ScheduleSecondPass \/ \E j \in Jobs : Spawn(j) \/ HTTPRefresh(j) \/ ProbeFails(j)
  BY <1>4 DEF Next, vars, Scan, HostReady, InstallReport, TriggerRescan, Export, BeginExport, EndExport,
     WriteRow, Pass, DiscoverStart, Discover, UpsertHost, RemoveHost, Waiting
<1> QED BY <1>1, <1>2, <1>3, <1>5

ExportType == [pc : {"idle", "writing"}, rows : Copies(Named), was : Copies(Contents),
               out : Copies(Contents), count : 0..MaxExports]

LEMMA NothingIsCopied ==
    Nothing \in Copies(Named) /\ Nothing \in Copies(Contents)
<1>1. {} \in SUBSET Hosts /\ Nothing \in [{} -> Named] /\ Nothing \in [{} -> Contents]
  BY DEF Nothing
<1> QED BY <1>1 DEF Copies

(* What the three steps of an export do to its record.                     *)
LEMMA ExportSteps ==
    ASSUME TypeOK, [Next]_vars
    PROVE  \/ UNCHANGED export
           \/ BeginExport
           \/ export' = NoExport(export.count)
           \/ \E ip \in DOMAIN export.rows : WriteRow(ip)
BY DEF Next, vars, Scan, HostReady, ScheduleSecondPass, InstallReport, TriggerRescan, Export,
   EndExport, WriteRow, Pass, Spawn, HTTPRefresh, ProbeFails, DiscoverStart, Discover, UpsertHost,
   RemoveHost, Waiting

LEMMA WriteRowFacts ==
    ASSUME TypeOK, NEW ip \in DOMAIN export.rows, WriteRow(ip)
    PROVE  /\ export' \in ExportType /\ ip \in Hosts
           /\ export'.rows = export.rows /\ export'.was = export.was
           /\ DOMAIN export'.out = DOMAIN export.out \cup {ip}
           /\ export'.out[ip] = Read(export.rows[ip])
           /\ \A h \in DOMAIN export.out : h # ip => export'.out[h] = export.out[h]
<1> DEFINE out == [h \in DOMAIN export.out \cup {ip} |->
                      IF h = ip THEN Read(export.rows[ip]) ELSE export.out[h]]
<1>1. export' = [export EXCEPT !.out = out] /\ export \in ExportType
  BY DEF WriteRow, Source, TypeOK, ExportType
<1>2. PICK ips \in SUBSET Hosts : export.out \in [ips -> Contents]
  BY <1>1 DEF ExportType, Copies
<1>3. ip \in Hosts
  BY <1>1 DEF ExportType, Copies
<1>4. out \in [ips \cup {ip} -> Contents] /\ ips \cup {ip} \in SUBSET Hosts
  BY <1>2, <1>3, ReadType
<1>5. out \in Copies(Contents)
  BY <1>4 DEF Copies
<1>6. /\ DOMAIN out = DOMAIN export.out \cup {ip}
      /\ out[ip] = Read(export.rows[ip])
      /\ \A h \in DOMAIN export.out : h # ip => out[h] = export.out[h]
  OBVIOUS
<1> HIDE DEF out
<1>7. export' \in ExportType /\ export'.rows = export.rows /\ export'.was = export.was /\ export'.out = out
  BY <1>1, <1>5 DEF ExportType
<1> QED BY <1>3, <1>6, <1>7

LEMMA BeginExportFacts ==
    ASSUME TypeOK, BeginExport
    PROVE  /\ export' \in ExportType
           /\ DOMAIN export'.rows = Rows /\ DOMAIN export'.was = Rows /\ DOMAIN export'.out = {}
           /\ \A ip \in Rows : /\ export'.rows[ip] = table[ip]
                               /\ export'.was[ip] = Read(table[ip])
<1> DEFINE rows == [ip \in Rows |-> table[ip]]
           was == [ip \in Rows |-> Read(table[ip])]
<1>1. export' = [pc |-> "writing", rows |-> rows, was |-> was, out |-> Nothing, count |-> export.count + 1]
  BY DEF BeginExport
<1>2. Rows \in SUBSET Hosts
  BY DEF Rows
<1>3. rows \in [Rows -> Named] /\ was \in [Rows -> Contents]
  BY <1>2, ReadType DEF TypeOK
<1>4. rows \in Copies(Named) /\ was \in Copies(Contents)
  BY <1>2, <1>3 DEF Copies
<1>5. export.count + 1 \in 0..MaxExports
  BY PageAssumption DEF BeginExport, TypeOK
<1>6. /\ DOMAIN rows = Rows /\ DOMAIN was = Rows
      /\ \A ip \in Rows : rows[ip] = table[ip] /\ was[ip] = Read(table[ip])
  OBVIOUS
<1> HIDE DEF rows, was
<1> QED BY <1>1, <1>4, <1>5, <1>6, NothingIsCopied, NothingIsContents DEF ExportType

LEMMA ExportTypes ==
    ASSUME TypeOK, [Next]_vars
    PROVE  export' \in ExportType
<1>1. export \in ExportType
  BY DEF TypeOK, ExportType
<1>2. CASE export' = NoExport(export.count)
  BY <1>1, <1>2, NothingIsCopied DEF ExportType, NoExport
<1> QED BY <1>1, <1>2, ExportSteps, BeginExportFacts, WriteRowFacts

LEMMA TypeOKPreserved ==
    ASSUME TypeOK, AllocatedOnce, ReportShown, [Next]_vars
    PROVE  TypeOK'
BY StepSlices, TableTypes, ScanTypes, JobTypes, ExportTypes DEF TypeOK, TableType, ExportType

-----------------------------------------------------------------------------
(* Slices, reports and probes.                                             *)

LEMMA AllocatedPreserved ==
    ASSUME TypeOK, AllocatedOnce, [Next]_vars
    PROVE  AllocatedOnce'
<1>0. scan.number \in 1..MaxScans /\ scan.number \in Nat /\ Watch # scan.number
  BY DEF TypeOK, Watch
<1>1. ASSUME NEW ip \in Hosts, HostReady(ip)
      PROVE  AllocatedOnce'
  <2>1. DOMAIN slice' = DOMAIN slice \cup {<<scan.number, ip>>}
    BY <1>1 DEF HostReady, Allocate
  <2>2. scan'.number = scan.number /\ scan'.left = scan.left \ {ip} /\ discovery' = discovery
    BY <1>1 DEF HostReady, TypeOK
  <2> QED BY <1>0, <2>1, <2>2 DEF AllocatedOnce
<1>2. ASSUME NEW ip \in Hosts, UpsertHost(ip)
      PROVE  AllocatedOnce'
  <2>1. DOMAIN slice' = DOMAIN slice \cup {<<Watch, ip>>}
    BY <1>2 DEF UpsertHost, Allocate
  <2>2. scan' = scan /\ discovery' = [discovery EXCEPT ![ip] = "done"]
    BY <1>2 DEF UpsertHost
  <2>3. Watch <= scan.number
    BY <1>0 DEF Watch
  <2> QED BY <1>0, <2>1, <2>2, <2>3 DEF AllocatedOnce, TypeOK
<1>3. CASE TriggerRescan
  <2>1. scan'.number = scan.number + 1 /\ UNCHANGED <<slice, discovery>>
    BY <1>3 DEF TriggerRescan, NewScan
  <2>2. \A s \in DOMAIN slice : s[1] \in Nat /\ s[1] <= scan.number
    BY SliceNames DEF TypeOK, AllocatedOnce
  <2> QED BY <1>0, <2>1, <2>2 DEF AllocatedOnce
<1>4. CASE ScheduleSecondPass \/ InstallReport
  <2>1. scan'.number = scan.number /\ scan'.left = scan.left /\ UNCHANGED <<slice, discovery>>
    BY <1>4 DEF ScheduleSecondPass, InstallReport, TypeOK
  <2> QED BY <2>1 DEF AllocatedOnce
<1>5. ASSUME NEW ip \in Hosts, DiscoverStart(ip) \/ RemoveHost(ip)
      PROVE  AllocatedOnce'
  <2>1. UNCHANGED <<slice, scan>> /\ discovery[ip] # "done"
    BY <1>5 DEF DiscoverStart, RemoveHost
  <2>2. \A h \in Hosts : discovery[h] = "done" => discovery'[h] = "done"
    BY <1>5, <2>1 DEF DiscoverStart, RemoveHost, TypeOK
  <2> QED BY <2>1, <2>2 DEF AllocatedOnce
<1>6. ASSUME NEW j \in Jobs, HTTPRefresh(j)
      PROVE  AllocatedOnce'
  BY <1>6, RefreshGains DEF HTTPRefresh, AllocatedOnce
<1>7. CASE UNCHANGED <<slice, scan, discovery>>
  BY <1>7 DEF AllocatedOnce
<1>8. \A n \in 1..MaxScans : Pending(n) \subseteq Jobs
  BY DEF Pending, Jobs
<1>9. \/ UNCHANGED <<slice, scan, discovery>> \/ TriggerRescan \/ ScheduleSecondPass \/ InstallReport
      \/ \E ip \in Hosts : HostReady(ip) \/ UpsertHost(ip) \/ DiscoverStart(ip) \/ RemoveHost(ip)
      \/ \E j \in Jobs : HTTPRefresh(j)
  BY <1>8 DEF Next, vars, Scan, Export, BeginExport, EndExport, WriteRow,
     Pass, Spawn, ProbeFails, Discover, Waiting
<1> QED BY <1>1, <1>2, <1>3, <1>4, <1>5, <1>6, <1>7, <1>9

(* Slices that lose nothing, a scan and a report that stay, and rows that  *)
(* stay where the report has one.                                          *)
LEMMA ReportKept ==
    ASSUME TypeOK, ReportShown, SlicesGain, UNCHANGED <<scan, phase, report>>,
           overtaken \subseteq overtaken',
           \A ip \in Hosts : phase = "scanning" /\ report[ip] # NoRow /\ report[ip] \notin overtaken'
               => table'[ip] = table[ip]
    PROVE  ReportShown'
<1>1. \A s \in DOMAIN slice : s \in DOMAIN slice' /\ DOMAIN slice'[s] = DOMAIN slice[s]
  BY DEF SlicesGain, Gains
<1> QED BY <1>1 DEF ReportShown

LEMMA ReportPreserved ==
    ASSUME TypeOK, AllocatedOnce, ReportShown, [Next]_vars
    PROVE  ReportShown'
<1>0. SlicesGain
  BY StepSlices
<1>1. ASSUME NEW ip \in Hosts, HostReady(ip)
      PROVE  ReportShown'
  <2> DEFINE s == <<scan.number, ip>>
  <2>1. /\ scan.pc = "enriching" /\ scan'.pc = "enriching" /\ scan'.number = scan.number
        /\ UNCHANGED <<phase, overtaken>>
        /\ report' = [report EXCEPT ![ip] = s] /\ table' = [table EXCEPT ![ip] = s]
        /\ s \in DOMAIN slice'
    BY <1>1 DEF HostReady, Allocate, TypeOK
  <2>2. report'[ip] = s /\ table'[ip] = s
    BY <2>1 DEF TypeOK
  <2>3. \A h \in Hosts \ {ip} : report'[h] = report[h] /\ table'[h] = table[h]
    BY <2>1 DEF TypeOK
  <2>4. ASSUME NEW h \in Hosts, report'[h] # NoRow
        PROVE  /\ report'[h] = <<scan.number, h>> /\ report'[h] \in DOMAIN slice'
               /\ phase = "scanning" /\ report'[h] \notin overtaken =>
                     \/ table'[h] = report'[h]
                     \/ table'[h] \in {NoRow, NoPorts} /\ DOMAIN slice'[report'[h]] = {}
    <3>1. CASE h = ip
      BY <2>1, <2>2, <3>1
    <3>2. CASE h # ip
      BY <1>0, <2>3, <2>4, <3>2 DEF ReportShown, SlicesGain, Gains
    <3> QED BY <3>1, <3>2
  <2> QED BY <2>1, <2>4 DEF ReportShown
<1>2. ASSUME NEW ip \in Hosts, UpsertHost(ip)
      PROVE  ReportShown'
  <2>1. /\ UNCHANGED <<scan, phase, report>> /\ overtaken \subseteq overtaken'
        /\ table' = [table EXCEPT ![ip] = <<Watch, ip>>]
        /\ phase = "scanning" /\ report[ip] # NoRow => report[ip] \in overtaken'
    BY <1>2 DEF UpsertHost
  <2> QED BY <1>0, <2>1, ReportKept DEF TypeOK
<1>3. ASSUME NEW ip \in Hosts, RemoveHost(ip)
      PROVE  ReportShown'
  <2>1. /\ UNCHANGED <<scan, phase, report, overtaken, slice>>
        /\ table' = table \/ (HasNoPorts(table[ip]) /\ table' = [table EXCEPT ![ip] = NoRow])
    BY <1>3 DEF RemoveHost
  <2>2. CASE table' = table
    BY <1>0, <2>1, <2>2, ReportKept
  <2>3. CASE HasNoPorts(table[ip]) /\ table' = [table EXCEPT ![ip] = NoRow]
    <3>1. table'[ip] = NoRow /\ \A h \in Hosts \ {ip} : table'[h] = table[h]
      BY <2>3 DEF TypeOK
    <3>2. table[ip] \in DOMAIN slice => DOMAIN slice[table[ip]] = {}
      BY <2>3, SliceNames DEF HasNoPorts, TypeOK
    <3>3. ASSUME NEW h \in Hosts, report[h] # NoRow, phase = "scanning", report[h] \notin overtaken
          PROVE  table'[h] = report[h] \/ (table'[h] \in {NoRow, NoPorts} /\ DOMAIN slice[report[h]] = {})
      BY <3>1, <3>2, <3>3 DEF ReportShown
    <3> QED BY <2>1, <3>3 DEF ReportShown
  <2> QED BY <2>1, <2>2, <2>3
<1>4. ASSUME NEW ip \in Hosts, DiscoverStart(ip)
      PROVE  ReportShown'
  <2>1. /\ table[ip] = NoRow /\ table' = [table EXCEPT ![ip] = NoPorts]
        /\ UNCHANGED <<slice, scan, phase, report, overtaken>>
    BY <1>4 DEF DiscoverStart
  <2>2. table'[ip] = NoPorts /\ \A h \in Hosts \ {ip} : table'[h] = table[h]
    BY <2>1 DEF TypeOK
  <2>3. ASSUME NEW h \in Hosts, report[h] # NoRow, phase = "scanning", report[h] \notin overtaken
        PROVE  table'[h] = report[h] \/ (table'[h] \in {NoRow, NoPorts} /\ DOMAIN slice[report[h]] = {})
    BY <2>1, <2>2, <2>3 DEF ReportShown
  <2> QED BY <2>1, <2>3 DEF ReportShown
<1>5. CASE TriggerRescan
  <2>1. scan'.pc = "enriching" /\ phase' = "scanning" /\ \A ip \in Hosts : report'[ip] = NoRow
    BY <1>5 DEF TriggerRescan, NewScan
  <2> QED BY <2>1 DEF ReportShown
<1>6. CASE ScheduleSecondPass
  <2>1. /\ scan.pc = "enriching" /\ scan'.pc = "applying" /\ scan'.number = scan.number
        /\ UNCHANGED <<slice, table, phase, report, overtaken>>
    BY <1>6 DEF ScheduleSecondPass, TypeOK
  <2> QED BY <2>1 DEF ReportShown
<1>7. CASE InstallReport
  <2>1. /\ scan'.pc = "idle" /\ scan'.number = scan.number /\ phase' = "watch"
        /\ UNCHANGED <<slice, report>>
    BY <1>7 DEF InstallReport, TypeOK
  <2> QED BY <2>1 DEF ReportShown
<1>8. CASE UNCHANGED <<scan, phase, report, overtaken, table>>
  BY <1>0, <1>8, ReportKept
<1>9. \/ UNCHANGED <<scan, phase, report, overtaken, table>>
      \/ TriggerRescan \/ ScheduleSecondPass \/ InstallReport
      \/ \E ip \in Hosts : HostReady(ip) \/ UpsertHost(ip) \/ DiscoverStart(ip) \/ RemoveHost(ip)
  BY DEF Next, vars, Scan, Export, BeginExport, EndExport, WriteRow,
     Pass, Spawn, HTTPRefresh, ProbeFails, Discover, Waiting
<1> QED BY <1>1, <1>2, <1>3, <1>4, <1>5, <1>6, <1>7, <1>8, <1>9

LEMMA JobsPreserved ==
    ASSUME TypeOK, AllocatedOnce, ReportShown, JobsHavePorts, [Next]_vars
    PROVE  JobsHavePorts'
<1>0. \A s \in DOMAIN slice : s \in DOMAIN slice' /\ DOMAIN slice'[s] = DOMAIN slice[s]
  BY StepSlices DEF SlicesGain, Gains
<1>1. scan.number \in Nat
  BY DEF TypeOK
<1>2. CASE ScheduleSecondPass
  <2>1. scan'.number = scan.number /\ scan'.pc = "applying" /\ slice' = slice
    BY <1>2 DEF ScheduleSecondPass, TypeOK
  <2>2. \A j \in Jobs : job'[j] # job[j] =>
           /\ j[1] = scan.number /\ report[j[2]] \in DOMAIN slice
           /\ j[3] \in DOMAIN slice[report[j[2]]]
    BY <1>2 DEF ScheduleSecondPass, Pending
  <2>3. \A ip \in Hosts : report[ip] \in DOMAIN slice => report[ip] = <<scan.number, ip>>
    BY SliceNames DEF ReportShown, TypeOK
  <2>4. ASSUME NEW j \in Jobs, job'[j] # "none"
        PROVE  /\ j[1] <= scan.number
               /\ <<j[1], j[2]>> \in DOMAIN slice /\ j[3] \in DOMAIN slice[<<j[1], j[2]>>]
    <3>1. CASE job'[j] = job[j]
      BY <2>4, <3>1 DEF JobsHavePorts
    <3>2. CASE job'[j] # job[j]
      BY <1>1, <2>2, <2>3, <3>2, JobFields
    <3> QED BY <3>1, <3>2
  <2> QED BY <2>1, <2>4 DEF JobsHavePorts
<1>3. CASE TriggerRescan
  <2>1. scan'.number = scan.number + 1 /\ UNCHANGED <<slice, job>>
    BY <1>3 DEF TriggerRescan, NewScan
  <2>2. \A j \in Jobs : j[1] \in Nat
    BY JobFields
  <2> QED BY <1>1, <2>1, <2>2 DEF JobsHavePorts
<1>4. ASSUME scan'.number = scan.number, scan'.pc = "enriching" => scan.pc = "enriching",
             \A j \in Jobs : job'[j] # "none" => job[j] # "none"
      PROVE  JobsHavePorts'
  BY <1>0, <1>4 DEF JobsHavePorts
<1>5. CASE (\E ip \in Hosts : HostReady(ip)) \/ InstallReport
  <2>1. scan'.number = scan.number /\ (scan'.pc = "enriching" => scan.pc = "enriching") /\ job' = job
    BY <1>5 DEF HostReady, InstallReport, TypeOK
  <2> QED BY <1>4, <2>1
<1>6. CASE \E j \in Jobs : Spawn(j) \/ HTTPRefresh(j) \/ ProbeFails(j)
  <2>1. scan' = scan /\ \A j \in Jobs : job'[j] # "none" => job[j] # "none"
    BY <1>6 DEF Spawn, HTTPRefresh, ProbeFails, TypeOK
  <2> QED BY <1>4, <2>1
<1>7. CASE UNCHANGED <<scan, job>>
  BY <1>4, <1>7
<1>8. \A n \in 1..MaxScans : Pending(n) \subseteq Jobs
  BY DEF Pending, Jobs
<1>9. \/ UNCHANGED <<scan, job>> \/ TriggerRescan \/ ScheduleSecondPass \/ InstallReport
      \/ \E ip \in Hosts : HostReady(ip)
      \/ \E j \in Jobs : Spawn(j) \/ HTTPRefresh(j) \/ ProbeFails(j)
  BY <1>8 DEF Next, vars, Scan, Export, BeginExport, EndExport, WriteRow,
     Pass, DiscoverStart, Discover, UpsertHost, RemoveHost, Waiting
<1> QED BY <1>2, <1>3, <1>5, <1>6, <1>7, <1>9

(* A row gets the slice of an answered probe's scan only from its report,  *)
(* and then it had it before.                                              *)
LEMMA AnsweredRows ==
    ASSUME TypeOK, AllocatedOnce, ReportShown, JobsHavePorts, [Next]_vars,
           NEW j \in Jobs, job[j] = "answered", table'[j[2]] = <<j[1], j[2]>>,
           <<j[1], j[2]>> \notin overtaken
    PROVE  table[j[2]] = <<j[1], j[2]>>
<1> DEFINE ip == j[2]
           s == <<j[1], j[2]>>
<1>0. j[1] \in 1..MaxScans /\ ip \in Hosts /\ s \in Slices /\ s # <<Watch, ip>> /\ s # NoRow /\ s # NoPorts
  BY JobFields, SliceNames
<1>1. j[3] \in DOMAIN slice[s] /\ (j[1] = scan.number => scan.pc # "enriching")
  BY DEF JobsHavePorts
<1>2. ASSUME NEW h \in Hosts, HostReady(h)
      PROVE  table[ip] = s
  <2>1. scan.pc = "enriching" /\ table' = [table EXCEPT ![h] = <<scan.number, h>>]
    BY <1>2 DEF HostReady
  <2> QED BY <1>0, <1>1, <2>1 DEF TypeOK
<1>3. ASSUME NEW h \in Hosts, UpsertHost(h) \/ DiscoverStart(h) \/ RemoveHost(h)
      PROVE  table[ip] = s
  <2>1. \/ table' = table
        \/ \E new \in {<<Watch, h>>, NoPorts, NoRow} : table' = [table EXCEPT ![h] = new]
    BY <1>3 DEF UpsertHost, DiscoverStart, RemoveHost
  <2> QED BY <1>0, <2>1 DEF TypeOK
<1>4. CASE InstallReport
  <2>1. scan.pc = "applying" /\ table'[ip] = IF report[ip] # NoRow THEN report[ip] ELSE table[ip]
    BY <1>0, <1>4 DEF InstallReport
  <2>2. phase = "scanning"
    BY <2>1 DEF ReportShown, TypeOK
  <2> QED BY <1>0, <1>1, <2>1, <2>2 DEF ReportShown
<1>5. CASE TriggerRescan
  BY <1>0, <1>5 DEF TriggerRescan
<1>6. CASE UNCHANGED table
  BY <1>6
<1>7. \/ UNCHANGED table \/ TriggerRescan \/ InstallReport
      \/ \E h \in Hosts : HostReady(h) \/ UpsertHost(h) \/ DiscoverStart(h) \/ RemoveHost(h)
  BY DEF Next, vars, Scan, ScheduleSecondPass, Export, BeginExport, EndExport, WriteRow,
     Pass, Spawn, HTTPRefresh, ProbeFails, Discover, Waiting
<1> QED BY <1>2, <1>3, <1>4, <1>5, <1>6, <1>7

LEMMA OvertakenGrows ==
    ASSUME [Next]_vars
    PROVE  overtaken \subseteq overtaken'
BY DEF Next, vars, Scan, HostReady, ScheduleSecondPass, InstallReport, TriggerRescan, Export,
   BeginExport, EndExport, WriteRow, Pass, Spawn, HTTPRefresh, ProbeFails, DiscoverStart, Discover,
   UpsertHost, RemoveHost, Waiting

LEMMA AnsweredNow ==
    ASSUME TypeOK, [Next]_vars, NEW j \in Jobs, job'[j] = "answered", job[j] # "answered"
    PROVE  HTTPRefresh(j)
<1>1. \A n \in 1..MaxScans : Pending(n) \subseteq Jobs
  BY DEF Pending, Jobs
<1>2. \/ UNCHANGED job \/ ScheduleSecondPass \/ \E k \in Jobs : Spawn(k) \/ HTTPRefresh(k) \/ ProbeFails(k)
  BY <1>1 DEF Next, vars, Scan, HostReady, InstallReport, TriggerRescan, Export, BeginExport, EndExport,
     WriteRow, Pass, DiscoverStart, Discover, UpsertHost, RemoveHost, Waiting
<1>3. ~ScheduleSecondPass
  BY DEF ScheduleSecondPass
<1>4. ASSUME NEW k \in Jobs, Spawn(k) \/ ProbeFails(k)
      PROVE  FALSE
  BY <1>4 DEF Spawn, ProbeFails, TypeOK
<1>5. ASSUME NEW k \in Jobs, HTTPRefresh(k)
      PROVE  k = j
  BY <1>5 DEF HTTPRefresh, TypeOK
<1> QED BY <1>2, <1>3, <1>4, <1>5

LEMMA PagesPreserved ==
    ASSUME TypeOK, AllocatedOnce, ReportShown, JobsHavePorts, PageKept, [Next]_vars
    PROVE  PageKept'
<1> SUFFICES ASSUME NEW j \in Jobs, job'[j] = "answered",
                    table'[j[2]] = <<j[1], j[2]>>, table'[j[2]] \notin overtaken'
             PROVE  slice'[table'[j[2]]][j[3]] # NoPage
  BY DEF PageKept
<1> DEFINE s == <<j[1], j[2]>>
<1>1. CASE job[j] = "answered"
  <2>1. table[j[2]] = s /\ s \notin overtaken
    BY <1>1, AnsweredRows, OvertakenGrows
  <2>2. slice[s][j[3]] # NoPage
    BY <1>1, <2>1 DEF PageKept
  <2>3. s \in DOMAIN slice /\ j[3] \in DOMAIN slice[s]
    BY <1>1 DEF JobsHavePorts
  <2>4. slice'[s][j[3]] = slice[s][j[3]]
    BY <2>2, <2>3, StepSlices DEF SlicesGain, Gains
  <2> QED BY <2>2, <2>4
<1>2. CASE job[j] # "answered"
  <2>1. HTTPRefresh(j)
    BY <1>2, AnsweredNow
  <2>2. table' = table /\ job[j] = "running"
    BY <2>1 DEF HTTPRefresh
  <2>3. s \in DOMAIN slice /\ j[3] \in DOMAIN slice[s]
    BY <2>2 DEF JobsHavePorts
  <2> QED BY <2>1, <2>2, <2>3, RefreshGains
<1> QED BY <1>1, <1>2

-----------------------------------------------------------------------------
(* Exports.                                                                *)

LEMMA GainsFacts ==
    /\ \A a : Gains(a, a)
    /\ \A a, b, c : Gains(a, b) /\ Gains(b, c) => Gains(a, c)
BY DEF Gains

LEMMA ReadGains ==
    ASSUME TypeOK, AllocatedOnce, [Next]_vars, NEW s \in DOMAIN slice \cup {NoPorts}
    PROVE  Gains(Read(s), Read(s)')  /\ s \in DOMAIN slice' \cup {NoPorts}
<1>1. SlicesGain /\ DOMAIN slice \subseteq Slices /\ DOMAIN slice' \subseteq Slices
  BY StepSlices DEF TypeOK
<1>2. CASE s \in DOMAIN slice
  BY <1>1, <1>2 DEF SlicesGain, Read
<1>3. CASE s = NoPorts
  BY <1>1, <1>3, SliceNames, GainsFacts DEF Read
<1> QED BY <1>2, <1>3

LEMMA ExportsPreserved ==
    ASSUME TypeOK, AllocatedOnce, ExportInStep, ExportOnlyGains, [Next]_vars
    PROVE  ExportInStep' /\ ExportOnlyGains'
<1>1. CASE UNCHANGED export
  <2>1. ASSUME NEW ip \in DOMAIN export.rows
        PROVE  /\ export.rows[ip] \in DOMAIN slice' \cup {NoPorts}
               /\ Gains(export.was[ip], Read(export.rows[ip])')
    <3>1. PICK s : s = export.rows[ip]
      OBVIOUS
    <3>2. s \in DOMAIN slice \cup {NoPorts} /\ Gains(export.was[ip], Read(s))
      BY <3>1 DEF ExportInStep
    <3>3. Gains(export.was[ip], Read(s)') /\ s \in DOMAIN slice' \cup {NoPorts}
      BY <3>2, ReadGains, GainsFacts
    <3>4. Read(s)' = Read(export.rows[ip])'
      BY <1>1, <3>1 DEF Read
    <3> QED BY <3>1, <3>3, <3>4
  <2>2. ExportInStep'
    BY <1>1, <2>1 DEF ExportInStep
  <2> QED BY <1>1, <2>2 DEF ExportOnlyGains
<1>2. CASE BeginExport
  <2>1. /\ DOMAIN export'.rows = Rows /\ DOMAIN export'.was = Rows /\ DOMAIN export'.out = {}
        /\ slice' = slice
        /\ \A ip \in Rows : export'.rows[ip] = table[ip] /\ export'.was[ip] = Read(table[ip])
    BY <1>2, BeginExportFacts DEF BeginExport
  <2>2. ExportOnlyGains'
    BY <2>1 DEF ExportOnlyGains
  <2>3. \A ip \in Rows : table[ip] \in DOMAIN slice \cup {NoPorts}
    BY DEF Rows, TypeOK
  <2>4. \A s : Read(s)' = Read(s)
    BY <2>1 DEF Read
  <2>5. \A ip \in Rows : Gains(export'.was[ip], Read(table[ip]))
    BY <2>1, GainsFacts
  <2>6. ExportInStep'
    BY <2>1, <2>3, <2>4, <2>5 DEF ExportInStep, Read
  <2> QED BY <2>2, <2>6
<1>3. CASE export' = NoExport(export.count)
  BY <1>3, NothingIsContents DEF NoExport, ExportInStep, ExportOnlyGains
<1>4. ASSUME NEW ip \in DOMAIN export.rows, WriteRow(ip)
      PROVE  ExportInStep' /\ ExportOnlyGains'
  <2>1. /\ export'.rows = export.rows /\ export'.was = export.was
        /\ DOMAIN export'.out = DOMAIN export.out \cup {ip}
        /\ export'.out[ip] = Read(export.rows[ip])
        /\ \A h \in DOMAIN export.out : h # ip => export'.out[h] = export.out[h]
        /\ slice' = slice
    BY <1>4, WriteRowFacts DEF WriteRow
  <2>2. ExportInStep'
    BY <2>1 DEF ExportInStep, Read
  <2>3. ExportOnlyGains'
    BY <2>1 DEF ExportOnlyGains, ExportInStep
  <2> QED BY <2>2, <2>3
<1> QED BY <1>1, <1>2, <1>3, <1>4, ExportSteps

-----------------------------------------------------------------------------
(* The inductive invariant, and the theorems.                              *)

LEMMA InitPageInv == Init => PageInv
<1> SUFFICES ASSUME Init PROVE PageInv
  OBVIOUS
<1>1. TypeOK
  BY InitTypeOK
<1>2. DOMAIN slice = {} /\ \A j \in Jobs : job[j] = "none"
  BY NothingIsContents DEF Init
<1>3. AllocatedOnce
  BY <1>2 DEF AllocatedOnce
<1>4. ReportShown
  BY DEF Init, NewScan, ReportShown
<1>5. JobsHavePorts /\ PageKept
  BY <1>2 DEF JobsHavePorts, PageKept
<1>6. ExportInStep /\ ExportOnlyGains
  BY NothingIsContents DEF Init, NoExport, ExportInStep, ExportOnlyGains
<1> QED BY <1>1, <1>3, <1>4, <1>5, <1>6 DEF PageInv

LEMMA PageInvPreserved == PageInv /\ [Next]_vars => PageInv'
BY TypeOKPreserved, AllocatedPreserved, ReportPreserved, JobsPreserved, PagesPreserved,
   ExportsPreserved DEF PageInv

(* In every interleaving of scans, second passes, discoveries and exports  *)
(* a slice is allocated once, the report of a scan is what the table shows *)
(* while it is on, and probes and exports refer to slices that exist.      *)
THEOREM PageInvariant == Spec => []PageInv
BY InitPageInv, PageInvPreserved, PTL DEF Spec

(* HTTPRefresh: a page stays on the row that shows it, however many scans' *)
(* responses are still out, and no row goes back to an older scan's.       *)
THEOREM PagesNeverClobbered == Spec => NeverClobbered
<1> DEFINE Stay ==
      \A ip \in Hosts : table[ip] \in DOMAIN slice =>
          /\ \A p \in DOMAIN slice[table[ip]] :
                slice[table[ip]][p] # NoPage => slice'[table[ip]][p] = slice[table[ip]][p]
          /\ table'[ip][1] \notin 1..(table[ip][1] - 1)
<1>1. PageInv /\ [Next]_vars => Stay
  <2> SUFFICES ASSUME PageInv, [Next]_vars, NEW ip \in Hosts, table[ip] \in DOMAIN slice
               PROVE  /\ \A p \in DOMAIN slice[table[ip]] :
                           slice[table[ip]][p] # NoPage => slice'[table[ip]][p] = slice[table[ip]][p]
                      /\ table'[ip][1] \notin 1..(table[ip][1] - 1)
    OBVIOUS
  <2> USE DEF PageInv
  <2>1. \A p \in DOMAIN slice[table[ip]] :
            slice[table[ip]][p] # NoPage => slice'[table[ip]][p] = slice[table[ip]][p]
    BY StepSlices DEF SlicesGain, Gains
  <2>2. table[ip][1] \in Nat /\ table[ip][1] <= scan.number /\ scan.number \in Nat
    BY SliceNames DEF TypeOK, AllocatedOnce
  <2>3. \/ table'[ip] = table[ip]
        \/ table'[ip] \in {<<scan.number, ip>>, <<Watch, ip>>, NoRow, NoPorts}
    <3>1. ASSUME NEW h \in Hosts,
                 HostReady(h) \/ UpsertHost(h) \/ DiscoverStart(h) \/ RemoveHost(h)
          PROVE  \/ table'[ip] = table[ip]
                 \/ table'[ip] \in {<<scan.number, ip>>, <<Watch, ip>>, NoRow, NoPorts}
      <4>1. \/ table' = table
            \/ \E new \in {<<scan.number, h>>, <<Watch, h>>, NoRow, NoPorts} :
                  table' = [table EXCEPT ![h] = new]
        BY <3>1 DEF HostReady, UpsertHost, DiscoverStart, RemoveHost
      <4> QED BY <4>1 DEF TypeOK
    <3>2. CASE InstallReport \/ TriggerRescan
      BY <3>2 DEF InstallReport, TriggerRescan, ReportShown
    <3>3. \/ UNCHANGED table \/ TriggerRescan \/ InstallReport
          \/ \E h \in Hosts : HostReady(h) \/ UpsertHost(h) \/ DiscoverStart(h) \/ RemoveHost(h)
      BY DEF Next, vars, Scan, ScheduleSecondPass, Export, BeginExport, EndExport, WriteRow,
         Pass, Spawn, HTTPRefresh, ProbeFails, Discover, Waiting
    <3> QED BY <3>1, <3>2, <3>3
  <2>4. table'[ip][1] \notin 1..(table[ip][1] - 1)
    BY <2>2, <2>3 DEF NoRow, NoPorts, Watch
  <2> QED BY <2>1, <2>4
<1>2. Spec => [][Stay]_vars
  BY <1>1, PageInvariant, PTL DEF Spec
<1> QED BY <1>2 DEF NeverClobbered

(* The page a second pass has retrieved is shown while the row is its      *)
(* scan's, although the response races Finish and applyRescanResults,      *)
(* which replace every row.                                                *)
THEOREM PagesAreKept == Spec => []PageKept
<1>1. PageInv => PageKept
  BY DEF PageInv
<1> QED BY <1>1, PageInvariant, PTL

(* exportResults writes without the lock, while passes fill the slices and *)
(* rescans replace the rows: the file has what the rows had when it was    *)
(* begun, and of their pages perhaps more.                                 *)
THEOREM ExportsOnlyGain == Spec => []ExportOnlyGains
<1>1. PageInv => ExportOnlyGains
  BY DEF PageInv
<1> QED BY <1>1, PageInvariant, PTL
=============================================================================
