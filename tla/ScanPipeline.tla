---------------------------- MODULE ScanPipeline ----------------------------
(***************************************************************************)
(* The goroutine pipeline of scanNetwork (src/main.go): one feeder, a pool *)
(* of `concurrency` workers, the collector (scanNetwork's own goroutine),  *)
(* and the two bounded channels `jobs` and `results` between them.         *)
(*                                                                         *)
(* Jobs are numbered 1..N in the order the feeder sends them (address      *)
(* major, port minor).  Only the feeder sends on `jobs`, so the FIFO       *)
(* channel always holds the interval taken+1 .. fed and needs no sequence. *)
(***************************************************************************)
EXTENDS Integers, Sequences, FiniteSets

CONSTANTS
    N,                   \* len(ips) * len(ports)
    Workers              \* the `concurrency` worker goroutines

ASSUME NAssumption == N \in Nat
ASSUME WorkersAssumption == IsFiniteSet(Workers) /\ Workers # {}

Jobs == 1..N
Concurrency == Cardinality(Workers)
JobsCap == 2 * Concurrency
ResultsCap == Concurrency

VARIABLES
    feeder,              \* "feeding", "waiting" (jobs closed), "done" (results closed)
    fed,                 \* number of jobs sent on the jobs channel
    taken,               \* number of jobs received from it
    wpc,                 \* where each worker is in its range-jobs loop
    wjob,                \* the job each worker received last
    results,             \* contents of the results channel
    scanned,             \* the atomic progress counter
    reported,            \* jobs whose result is filed under byIP
    collector,           \* "ranging" over results, or "done"
    cancelled            \* ctx is done

feederVars    == <<feeder, fed>>
workerVars    == <<taken, wpc, wjob, scanned>>
collectorVars == <<reported, collector>>
vars == <<feederVars, workerVars, results, collectorVars, cancelled>>

WorkerStates == {"idle", "dialing", "holding", "counting", "exited"}

(* Seeded fault: a worker leaves when the channel is empty, closed or not. *)
FaultyJobsClosed == TRUE

jobsClosed    == feeder # "feeding"
resultsClosed == feeder = "done"

TypeOK ==
    /\ feeder \in {"feeding", "waiting", "done"}
    /\ fed \in 0..N
    /\ taken \in 0..fed
    /\ wpc \in [Workers -> WorkerStates]
    /\ wjob \in [Workers -> 0..N]
    /\ results \in Seq(Jobs)
    /\ scanned \in Nat
    /\ reported \in SUBSET Jobs
    /\ collector \in {"ranging", "done"}
    /\ cancelled \in BOOLEAN

Init ==
    /\ feeder = "feeding" /\ fed = 0 /\ taken = 0
    /\ wpc = [w \in Workers |-> "idle"]
    /\ wjob = [w \in Workers |-> 0]
    /\ results = <<>>
    /\ scanned = 0
    /\ reported = {} /\ collector = "ranging"
    /\ cancelled = FALSE

-----------------------------------------------------------------------------
(* The feeder goroutine.                                                   *)

(* jobs <- job{...}; blocks while the buffer is full.                      *)
FeedJob ==
    /\ feeder = "feeding"
    /\ fed < N
    /\ fed - taken < JobsCap
    /\ fed' = fed + 1
    /\ UNCHANGED <<feeder, workerVars, results, collectorVars, cancelled>>

CloseJobs ==
    /\ feeder = "feeding"
    /\ fed = N
    /\ feeder' = "waiting"
    /\ UNCHANGED <<fed, workerVars, results, collectorVars, cancelled>>

(* Seeded fault: close(results) without workers.Wait().                    *)
FaultyCloseResults ==
    /\ feeder = "waiting"
    /\ feeder' = "done"
    /\ UNCHANGED <<fed, workerVars, results, collectorVars, cancelled>>

(* workers.Wait() returns, then close(results).                            *)
CloseResults ==
    /\ feeder = "waiting"
    /\ \A w \in Workers : wpc[w] = "exited"
    /\ feeder' = "done"
    /\ UNCHANGED <<fed, workerVars, results, collectorVars, cancelled>>

-----------------------------------------------------------------------------
(* The worker goroutines.                                                  *)

TakeJob(w) ==
    /\ wpc[w] = "idle"
    /\ taken < fed
    /\ taken' = taken + 1
    /\ wjob' = [wjob EXCEPT ![w] = taken + 1]
    /\ wpc' = [wpc EXCEPT ![w] = "dialing"]
    /\ UNCHANGED <<feederVars, scanned, results, collectorVars, cancelled>>

ExitWorker(w) ==
    /\ wpc[w] = "idle"
    /\ jobsClosed
    /\ taken = fed
    /\ wpc' = [wpc EXCEPT ![w] = "exited"]
    /\ UNCHANGED <<feederVars, taken, wjob, scanned, results, collectorVars, cancelled>>

(* scanPort returns ok.  All of its dials carry ctx, so none connects      *)
(* after the cancellation; the call is placed at its successful dial.      *)
ScanPortOpen(w) ==
    /\ wpc[w] = "dialing"
    /\ ~cancelled
    /\ wpc' = [wpc EXCEPT ![w] = "holding"]
    /\ UNCHANGED <<feederVars, taken, wjob, scanned, results, collectorVars, cancelled>>

(* Seeded fault: `continue` on a closed port skips the counter.            *)
FaultyScanPortClosed(w) ==
    /\ wpc[w] = "dialing"
    /\ wpc' = [wpc EXCEPT ![w] = "idle"]
    /\ UNCHANGED <<feederVars, taken, wjob, scanned, results, collectorVars, cancelled>>

(* scanPort returns false: refused, timed out or cancelled.                *)
ScanPortClosed(w) ==
    /\ wpc[w] = "dialing"
    /\ wpc' = [wpc EXCEPT ![w] = "counting"]
    /\ UNCHANGED <<feederVars, taken, wjob, scanned, results, collectorVars, cancelled>>

(* Seeded fault: the send may be retried.                                  *)
FaultySendResult(w) ==
    /\ wpc[w] = "holding"
    /\ Len(results) < ResultsCap
    /\ results' = Append(results, wjob[w])
    /\ wpc' \in {wpc, [wpc EXCEPT ![w] = "counting"]}
    /\ UNCHANGED <<feederVars, taken, wjob, scanned, collectorVars, cancelled>>

(* results <- result; blocks while the buffer is full.                     *)
SendResult(w) ==
    /\ wpc[w] = "holding"
    /\ Len(results) < ResultsCap
    /\ results' = Append(results, wjob[w])
    /\ wpc' = [wpc EXCEPT ![w] = "counting"]
    /\ UNCHANGED <<feederVars, taken, wjob, scanned, collectorVars, cancelled>>

CountJob(w) ==
    /\ wpc[w] = "counting"
    /\ scanned' = scanned + 1
    /\ wpc' = [wpc EXCEPT ![w] = "idle"]
    /\ UNCHANGED <<feederVars, taken, wjob, results, collectorVars, cancelled>>

-----------------------------------------------------------------------------
(* The collector: for result := range results { ... }.                     *)

(* Seeded fault: the results are read after all workers have ended.        *)
FaultyCollect ==
    /\ collector = "ranging"
    /\ resultsClosed
    /\ results # <<>>
    /\ reported' = reported \cup {Head(results)}
    /\ results' = Tail(results)
    /\ UNCHANGED <<feederVars, workerVars, collector, cancelled>>

Collect ==
    /\ collector = "ranging"
    /\ results # <<>>
    /\ reported' = reported \cup {Head(results)}
    /\ results' = Tail(results)
    /\ UNCHANGED <<feederVars, workerVars, collector, cancelled>>

(* Seeded fault: the close ends the loop with results still buffered.      *)
FaultyStopCollecting ==
    /\ collector = "ranging"
    /\ resultsClosed
    /\ collector' = "done"
    /\ UNCHANGED <<feederVars, workerVars, results, reported, cancelled>>

StopCollecting ==
    /\ collector = "ranging"
    /\ resultsClosed
    /\ results = <<>>
    /\ collector' = "done"
    /\ UNCHANGED <<feederVars, workerVars, results, reported, cancelled>>

(* Ctrl-C at any time; nothing in the pipeline but the dials looks at ctx. *)
Cancel ==
    /\ ~cancelled
    /\ cancelled' = TRUE
    /\ UNCHANGED <<feederVars, workerVars, results, collectorVars>>

(* The collector has left its loop: the phase is over.                     *)
Terminated ==
    /\ collector = "done"
    /\ UNCHANGED vars

Feed == FeedJob \/ CloseJobs \/ CloseResults

Work(w) ==
    \/ TakeJob(w) \/ ExitWorker(w)
    \/ ScanPortOpen(w) \/ ScanPortClosed(w)
    \/ SendResult(w) \/ CountJob(w)

Gather == Collect \/ StopCollecting

Next ==
    \/ Feed
    \/ \E w \in Workers : Work(w)
    \/ Gather
    \/ Cancel
    \/ Terminated

Spec == Init /\ [][Next]_vars

(* Each goroutine that can run is scheduled eventually; a scanPort call    *)
(* ends because every dial, read and HTTP request it makes has a timeout.  *)
Fairness ==
    /\ WF_vars(Feed)
    /\ \A w \in Workers : WF_vars(Work(w))
    /\ WF_vars(Gather)

FairSpec == Spec /\ Fairness

-----------------------------------------------------------------------------
(* Properties.                                                             *)

Busy == {w \in Workers : wpc[w] \in {"dialing", "holding", "counting"}}
Dialing == {w \in Workers : wpc[w] = "dialing"}
Holding == {w \in Workers : wpc[w] = "holding"}
InFlight == {results[i] : i \in DOMAIN results}

(* close(results) never races a send: once the feeder has closed a         *)
(* channel, no worker is between receiving a job and finishing with it, so *)
(* `results <- result` cannot panic (the order close(jobs), workers.Wait,  *)
(* close(results) in scanNetwork's feeder goroutine).                      *)
NoSendOnClosedChannel ==
    resultsClosed => Busy = {} /\ taken = N

(* The progress counter is exact when the results channel is closed: the   *)
(* final PortProgress(total, total) that scanNetwork sends without reading *)
(* `scanned` tells the truth, and no tick before it ever shows more than   *)
(* the jobs handed out.                                                    *)
ProgressIsExact ==
    /\ scanned + Cardinality(Busy) = taken
    /\ collector = "done" => scanned = N

(* One result per open port: a job is never at two places of the pipeline  *)
(* at once (two workers, a worker and a buffer, the buffer twice, or the   *)
(* buffer and byIP), so byIP lists no port twice.                          *)
NoDuplicateResult ==
    /\ \A v, w \in Busy : wjob[v] = wjob[w] => v = w
    /\ \A i, j \in DOMAIN results : results[i] = results[j] => i = j
    /\ InFlight \cap reported = {}
    /\ \A w \in Holding : wjob[w] \notin InFlight \cup reported

(* The abstract contract of the phase, with the jobs that are past their   *)
(* scanPort call and those on their way to the collector as its state.     *)
Contract == INSTANCE PortScan WITH
    Jobs      <- Jobs,
    probed    <- (1..taken) \ {wjob[w] : w \in Dialing},
    found     <- reported \cup InFlight \cup {wjob[w] : w \in Holding},
    reported  <- reported,
    cancelled <- cancelled,
    done      <- collector = "done"

(* The pipeline keeps the contract: no open port is lost or reported twice *)
(* on its way through the channels, and the collector's range loop ends    *)
(* only after all jobs have been probed and all results collected.         *)
ImplementsContract == Contract!Spec

(* The scan phase ends whatever the ports answer, cancelled or not: the    *)
(* bounded channels, the WaitGroup and the closes never leave every        *)
(* goroutine waiting on another.                                           *)
ScanEnds == <>(collector = "done")

(* Where each goroutine waits: the feeder for room in `jobs` or in         *)
(* workers.Wait, a worker for a job or for room in `results`, the          *)
(* collector for a result.  One that has returned is waiting too.          *)
FeederWaits ==
    \/ feeder = "feeding" /\ fed < N /\ fed - taken >= JobsCap
    \/ feeder = "waiting" /\ \E w \in Workers : wpc[w] # "exited"
    \/ feeder = "done"

WorkerWaits(w) ==
    \/ wpc[w] = "idle" /\ taken = fed /\ ~jobsClosed
    \/ wpc[w] = "holding" /\ Len(results) >= ResultsCap
    \/ wpc[w] = "exited"

CollectorWaits ==
    \/ collector = "ranging" /\ results = <<>> /\ ~resultsClosed
    \/ collector = "done"

(* "All goroutines are asleep" never happens before the phase is over,     *)
(* although the feeder waits for the workers, the workers for the          *)
(* collector and the collector for both, over two bounded channels.        *)
NeverAllWaiting ==
    FeederWaits /\ CollectorWaits /\ (\A w \in Workers : WorkerWaits(w))
        => collector = "done"

(* What is left to do, job by job a weight for where it is: the steps of   *)
(* the feeder, of the workers, of the collector, and of Ctrl-C.            *)
Running == {w \in Workers : wpc[w] # "exited"}
Counting == {w \in Workers : wpc[w] = "counting"}

FeederLeft ==
    (N - fed) + (CASE feeder = "feeding" -> 2 [] feeder = "waiting" -> 1 [] feeder = "done" -> 0)
WorkersLeft ==
    5 * (N - taken) + 4 * Cardinality(Dialing) + 3 * Cardinality(Holding)
    + Cardinality(Counting) + Cardinality(Running)
CollectorLeft == Len(results) + (IF collector = "ranging" THEN 1 ELSE 0)
CancelLeft == IF cancelled THEN 0 ELSE 1
WorkLeft == FeederLeft + WorkersLeft + CollectorLeft + CancelLeft

(* Every step of every goroutine brings the end nearer: no goroutine can   *)
(* spin and no job goes round, so the phase takes a bounded number of      *)
(* steps, whatever the interleaving and whatever the ports answer.         *)
StepsRunOut == [][WorkLeft' \in Nat /\ WorkLeft' < WorkLeft]_vars

(* The inductive strengthening of the invariants above: where the job      *)
(* numbers can be, and which goroutine states go with a closed channel.    *)
JobsAreHandedOut ==
    /\ \A w \in Busy : wjob[w] \in 1..taken
    /\ InFlight \cup reported \subseteq 1..taken

NoDuplicateJob ==
    /\ NoDuplicateResult
    /\ \A w \in Dialing : wjob[w] \notin InFlight \cup reported

ClosedInOrder ==
    /\ jobsClosed => fed = N
    /\ \A w \in Workers : wpc[w] = "exited" => jobsClosed /\ taken = N
    /\ resultsClosed => \A w \in Workers : wpc[w] = "exited"
    /\ collector = "done" => resultsClosed /\ results = <<>>

(* What every step of the pipeline preserves: no job is in two places, the *)
(* channels close in order, and the counter trails the jobs handed out by  *)
(* exactly the busy workers.                                               *)
PipelineCore ==
    /\ TypeOK
    /\ JobsAreHandedOut
    /\ NoDuplicateJob
    /\ ClosedInOrder
    /\ scanned + Cardinality(Busy) = taken

(* The invariant the runs check: from what every step preserves it follows *)
(* that somebody can always go on.                                         *)
PipelineInv == PipelineCore /\ NeverAllWaiting
=============================================================================
