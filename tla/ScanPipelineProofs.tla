------------------------- MODULE ScanPipelineProofs -------------------------
(***************************************************************************)
(* Machine-checked proofs about ScanPipeline, for every number of jobs and *)
(* every finite, non-empty pool of workers.                                *)
(***************************************************************************)
EXTENDS ScanPipeline, FiniteSetTheorems, TLAPS

(* A pool of workers has a natural, positive size, and so have the buffers *)
(* of the two channels.                                                    *)
LEMMA ConcurrencyPositive == Concurrency \in Nat /\ Concurrency > 0
<1>1. Concurrency \in Nat
  BY WorkersAssumption, FS_CardinalityType DEF Concurrency
<1>2. Concurrency # 0
  BY WorkersAssumption, FS_EmptySet DEF Concurrency
<1> QED BY <1>1, <1>2

(* The busy workers are a finite set, so counting them is meaningful.      *)
LEMMA BusyFinite == IsFiniteSet(Busy) /\ Cardinality(Busy) \in Nat
<1>1. Busy \subseteq Workers
  BY DEF Busy
<1> QED BY <1>1, WorkersAssumption, FS_Subset, FS_CardinalityType

(* A worker that leaves `idle` for its loop body makes one more busy.      *)
LEMMA OneMoreBusy ==
    ASSUME NEW w \in Workers, wpc[w] = "idle", wpc \in [Workers -> WorkerStates],
           wpc' = [wpc EXCEPT ![w] = "dialing"]
    PROVE  Busy' = Busy \cup {w} /\ Cardinality(Busy') = Cardinality(Busy) + 1
<1>1. Busy' = Busy \cup {w}
  BY DEF Busy
<1>2. w \notin Busy
  BY DEF Busy
<1> QED BY <1>1, <1>2, BusyFinite, FS_AddElement

(* A worker that counts its job makes one less busy.                       *)
LEMMA OneLessBusy ==
    ASSUME NEW w \in Workers, wpc[w] = "counting", wpc \in [Workers -> WorkerStates],
           wpc' = [wpc EXCEPT ![w] = "idle"]
    PROVE  Busy' = Busy \ {w} /\ Cardinality(Busy') = Cardinality(Busy) - 1
<1>1. Busy' = Busy \ {w}
  BY DEF Busy
<1>2. w \in Busy
  BY DEF Busy
<1> QED BY <1>1, <1>2, BusyFinite, FS_RemoveElement

-----------------------------------------------------------------------------
(* The channel of results as a sequence.                                   *)

(* Sending appends one job to what is in flight, at the last index.        *)
LEMMA SendFacts ==
    ASSUME results \in Seq(Jobs), NEW j \in Jobs, results' = Append(results, j)
    PROVE  /\ results' \in Seq(Jobs)
           /\ InFlight' = InFlight \cup {j}
           /\ DOMAIN results' = DOMAIN results \cup {Len(results) + 1}
           /\ Len(results) + 1 \notin DOMAIN results
           /\ results'[Len(results) + 1] = j
           /\ \A i \in DOMAIN results : results'[i] = results[i]
<1>1. results' \in Seq(Jobs) /\ Len(results') = Len(results) + 1 /\ Len(results) \in Nat
  OBVIOUS
<1>2. DOMAIN results = 1..Len(results) /\ DOMAIN results' = 1..(Len(results) + 1)
  BY <1>1
<1>3. DOMAIN results' = DOMAIN results \cup {Len(results) + 1}
      /\ Len(results) + 1 \notin DOMAIN results
  BY <1>1, <1>2
<1>4. results'[Len(results) + 1] = j /\ \A i \in DOMAIN results : results'[i] = results[i]
  BY <1>1, <1>2
<1>5. InFlight' = InFlight \cup {j}
  BY <1>3, <1>4 DEF InFlight
<1> QED BY <1>1, <1>3, <1>4, <1>5

(* Receiving takes the head away and moves every other entry down by one.  *)
LEMMA ReceiveFacts ==
    ASSUME results \in Seq(Jobs), results # <<>>, results' = Tail(results)
    PROVE  /\ Head(results) \in Jobs
           /\ results' \in Seq(Jobs)
           /\ Head(results) = results[1]
           /\ 1 \in DOMAIN results
           /\ \A i \in DOMAIN results' : /\ i \in Nat /\ i > 0
                                         /\ i + 1 \in DOMAIN results
                                         /\ results'[i] = results[i + 1]
           /\ InFlight = InFlight' \cup {Head(results)}
<1>1. Len(results) \in Nat /\ Len(results) > 0 /\ DOMAIN results = 1..Len(results)
  OBVIOUS
<1>2. Head(results) = results[1] /\ 1 \in DOMAIN results /\ Head(results) \in Jobs
  BY <1>1
<1>3. results' \in Seq(Jobs) /\ Len(results') = Len(results) - 1
      /\ DOMAIN results' = 1..(Len(results) - 1)
  BY <1>1
<1>4. \A i \in DOMAIN results' : /\ i \in Nat /\ i > 0
                                 /\ i + 1 \in DOMAIN results
                                 /\ results'[i] = results[i + 1]
  BY <1>1, <1>3
<1>5. InFlight \subseteq InFlight' \cup {Head(results)}
  <2> SUFFICES ASSUME NEW k \in DOMAIN results, k # 1
               PROVE  results[k] \in InFlight'
    BY <1>2 DEF InFlight
  <2>1. k - 1 \in DOMAIN results' /\ (k - 1) + 1 = k
    BY <1>1, <1>3
  <2> QED BY <2>1, <1>4 DEF InFlight
<1>6. InFlight' \subseteq InFlight /\ Head(results) \in InFlight
  BY <1>2, <1>4 DEF InFlight
<1> QED BY <1>2, <1>3, <1>4, <1>5, <1>6

-----------------------------------------------------------------------------
(* The inductive invariant.                                                *)

(* The invariant holds before any goroutine has run.                       *)
LEMMA InitInv == Init => PipelineCore
<1> SUFFICES ASSUME Init PROVE PipelineCore
  OBVIOUS
<1> USE DEF Init
<1>1. Busy = {} /\ Dialing = {} /\ Holding = {} /\ InFlight = {}
  BY DEF Busy, Dialing, Holding, InFlight
<1>2. TypeOK
  <2>1. results \in Seq(Jobs)
    OBVIOUS
  <2>2. wpc \in [Workers -> WorkerStates] /\ wjob \in [Workers -> 0..N]
    BY NAssumption DEF WorkerStates
  <2>3. fed \in 0..N /\ taken \in 0..fed /\ scanned \in Nat
    BY NAssumption
  <2>4. reported \in SUBSET Jobs /\ cancelled \in BOOLEAN
    OBVIOUS
  <2>5. feeder \in {"feeding", "waiting", "done"} /\ collector \in {"ranging", "done"}
    OBVIOUS
  <2> HIDE DEF Init
  <2> QED BY <2>1, <2>2, <2>3, <2>4, <2>5 DEF TypeOK
<1>3. JobsAreHandedOut /\ NoDuplicateJob
  BY <1>1 DEF JobsAreHandedOut, NoDuplicateJob, NoDuplicateResult
<1>4. ClosedInOrder
  BY DEF ClosedInOrder, jobsClosed, resultsClosed
<1>5. scanned + Cardinality(Busy) = taken
  BY <1>1, FS_EmptySet
<1> QED BY <1>2, <1>3, <1>4, <1>5 DEF PipelineCore

(* Steps of the feeder and Ctrl-C leave the jobs where they are.           *)
LEMMA FeedPreserves ==
    ASSUME PipelineCore, Feed \/ Cancel
    PROVE  PipelineCore'
<1> USE DEF PipelineCore
<1>1. TypeOK'
  <2>1. CASE FeedJob
    BY <2>1, NAssumption DEF TypeOK, FeedJob, workerVars, collectorVars
  <2>2. CASE CloseJobs
    BY <2>2 DEF TypeOK, CloseJobs, workerVars, collectorVars
  <2>3. CASE CloseResults
    BY <2>3 DEF TypeOK, CloseResults, workerVars, collectorVars
  <2>4. CASE Cancel
    BY <2>4 DEF TypeOK, Cancel, workerVars, collectorVars, feederVars
  <2> QED BY <2>1, <2>2, <2>3, <2>4 DEF Feed
<1>2. UNCHANGED <<workerVars, results, collectorVars>>
  BY DEF Feed, FeedJob, CloseJobs, CloseResults, Cancel
<1>3. UNCHANGED <<Busy, Dialing, Holding, InFlight>>
  BY <1>2 DEF workerVars, Busy, Dialing, Holding, InFlight
<1>4. JobsAreHandedOut' /\ NoDuplicateJob'
  BY <1>2, <1>3 DEF workerVars, collectorVars, JobsAreHandedOut, NoDuplicateJob,
     NoDuplicateResult
<1>5. ClosedInOrder'
  <2>1. CASE FeedJob
    BY <2>1 DEF FeedJob, ClosedInOrder, jobsClosed, resultsClosed, workerVars,
       collectorVars
  <2>2. CASE CloseJobs
    BY <2>2 DEF CloseJobs, ClosedInOrder, jobsClosed, resultsClosed, workerVars,
       collectorVars
  <2>3. CASE CloseResults
    BY <2>3 DEF CloseResults, ClosedInOrder, jobsClosed, resultsClosed, workerVars,
       collectorVars
  <2>4. CASE Cancel
    BY <2>4 DEF Cancel, ClosedInOrder, jobsClosed, resultsClosed, workerVars,
       collectorVars, feederVars
  <2> QED BY <2>1, <2>2, <2>3, <2>4 DEF Feed
<1>6. (scanned + Cardinality(Busy) = taken)'
  BY <1>2, <1>3 DEF workerVars
<1> QED BY <1>1, <1>4, <1>5, <1>6

(* Receiving a job: the job is new, so it is nowhere else.                 *)
LEMMA TakePreserves ==
    ASSUME PipelineCore, NEW w \in Workers, TakeJob(w)
    PROVE  PipelineCore'
<1> USE DEF PipelineCore, TakeJob
<1> DEFINE j == taken + 1
<1>1. /\ wpc \in [Workers -> WorkerStates] /\ wjob \in [Workers -> 0..N]
      /\ taken \in Nat /\ j \in 1..fed /\ fed \in 0..N /\ taken' = j
      /\ wjob' = [wjob EXCEPT ![w] = j]
  BY NAssumption DEF TypeOK
<1>2. TypeOK'
  BY <1>1, NAssumption DEF TypeOK, WorkerStates, feederVars, collectorVars
<1>3. /\ Busy' = Busy \cup {w} /\ w \notin Busy
      /\ Cardinality(Busy') = Cardinality(Busy) + 1
  BY <1>1, OneMoreBusy DEF Busy
<1>4. Dialing' = Dialing \cup {w} /\ Holding' = Holding /\ Holding \subseteq Busy
      /\ Dialing \subseteq Busy
  BY <1>1 DEF Dialing, Holding, Busy
<1>5. InFlight' = InFlight /\ UNCHANGED <<results, reported>>
  BY DEF InFlight, collectorVars
<1>6. j \notin InFlight \cup reported /\ \A v \in Busy : wjob[v] # j
  BY <1>1 DEF JobsAreHandedOut
<1>7. \A v \in Busy : wjob'[v] = wjob[v] /\ wjob[v] \in 1..taken
  BY <1>1, <1>3 DEF JobsAreHandedOut, Busy
<1>8. wjob'[w] = j
  BY <1>1
<1>9. JobsAreHandedOut'
  BY <1>1, <1>3, <1>5, <1>7, <1>8 DEF JobsAreHandedOut
<1>10. NoDuplicateJob'
  BY <1>3, <1>4, <1>5, <1>6, <1>7, <1>8 DEF NoDuplicateJob, NoDuplicateResult
<1>11. ClosedInOrder'
  BY <1>1 DEF ClosedInOrder, jobsClosed, resultsClosed, feederVars, collectorVars
<1>12. (scanned + Cardinality(Busy) = taken)'
  BY <1>1, <1>3, BusyFinite DEF TypeOK
<1> QED BY <1>2, <1>9, <1>10, <1>11, <1>12

(* The worker steps that neither take a job nor finish one.                *)
LEMMA ProbePreserves ==
    ASSUME PipelineCore, NEW w \in Workers,
           ExitWorker(w) \/ ScanPortOpen(w) \/ ScanPortClosed(w)
    PROVE  PipelineCore'
<1> USE DEF PipelineCore, ExitWorker, ScanPortOpen, ScanPortClosed
<1>1. wpc \in [Workers -> WorkerStates]
  BY DEF TypeOK
<1>2. TypeOK'
  BY DEF TypeOK, WorkerStates, feederVars, collectorVars
<1>3. /\ UNCHANGED <<feederVars, taken, wjob, scanned, results, collectorVars>>
      /\ InFlight' = InFlight
  BY DEF InFlight
<1>4. Busy' = Busy
  BY <1>1 DEF Busy
<1>5. Dialing' \subseteq Dialing /\ Holding' \subseteq Holding \cup Dialing
  BY <1>1 DEF Dialing, Holding
<1>6. JobsAreHandedOut'
  BY <1>3, <1>4 DEF JobsAreHandedOut, collectorVars
<1>7. NoDuplicateJob'
  BY <1>3, <1>4, <1>5 DEF NoDuplicateJob, NoDuplicateResult, collectorVars
<1>8. ClosedInOrder'
  BY <1>1, <1>3 DEF ClosedInOrder, jobsClosed, resultsClosed, feederVars, collectorVars,
     TypeOK
<1>9. (scanned + Cardinality(Busy) = taken)'
  BY <1>3, <1>4
<1> QED BY <1>2, <1>6, <1>7, <1>8, <1>9

(* Sending a result moves one job from a worker to the channel.            *)
LEMMA SendPreserves ==
    ASSUME PipelineCore, NEW w \in Workers, SendResult(w)
    PROVE  PipelineCore'
<1> USE DEF PipelineCore
<1> DEFINE j == wjob[w]
<1>1. /\ wpc \in [Workers -> WorkerStates] /\ results \in Seq(Jobs)
      /\ wpc' = [wpc EXCEPT ![w] = "counting"] /\ results' = Append(results, j)
      /\ UNCHANGED <<feederVars, taken, wjob, scanned, collectorVars, cancelled>>
  BY DEF TypeOK, SendResult
<1>2. w \in Busy /\ w \in Holding
  BY DEF SendResult, Busy, Holding
<1>3. j \in 1..taken /\ j \in Jobs
  BY <1>2, NAssumption DEF JobsAreHandedOut, TypeOK, Jobs
<1>4. /\ results' \in Seq(Jobs)
      /\ InFlight' = InFlight \cup {j}
      /\ DOMAIN results' = DOMAIN results \cup {Len(results) + 1}
      /\ Len(results) + 1 \notin DOMAIN results
      /\ results'[Len(results) + 1] = j
      /\ \A i \in DOMAIN results : results'[i] = results[i]
  BY <1>1, <1>3, SendFacts
<1>5. TypeOK'
  BY <1>1, <1>4 DEF TypeOK, WorkerStates, feederVars, collectorVars
<1>6. Busy' = Busy /\ Dialing' = Dialing /\ Holding' = Holding \ {w}
  BY <1>1, <1>2 DEF Busy, Dialing, Holding
<1>7. Dialing \subseteq Busy \ {w} /\ Holding \subseteq Busy
  BY <1>2 DEF Dialing, Holding, Busy
<1>8. JobsAreHandedOut'
  BY <1>1, <1>3, <1>4, <1>6 DEF JobsAreHandedOut, collectorVars
<1>9. NoDuplicateJob'
  <2>1. j \notin InFlight \cup reported
    BY <1>2 DEF NoDuplicateJob, NoDuplicateResult
  <2>2. \A i \in DOMAIN results : results[i] # j
    BY <2>1 DEF InFlight
  <2>3. \A i, k \in DOMAIN results' : results'[i] = results'[k] => i = k
    BY <1>4, <2>2 DEF NoDuplicateJob, NoDuplicateResult
  <2>4. \A v \in Dialing \cup Holding' : wjob[v] # j
    BY <1>2, <1>6, <1>7 DEF NoDuplicateJob, NoDuplicateResult
  <2> QED BY <1>1, <1>4, <1>6, <2>1, <2>3, <2>4
      DEF NoDuplicateJob, NoDuplicateResult, collectorVars
<1>10. ClosedInOrder'
  <2>1. wpc[w] = "holding" /\ feeder # "done" /\ collector # "done"
    BY DEF SendResult, ClosedInOrder, resultsClosed
  <2> QED BY <1>1, <2>1 DEF ClosedInOrder, jobsClosed, resultsClosed, feederVars,
      collectorVars, TypeOK
<1>11. (scanned + Cardinality(Busy) = taken)'
  BY <1>1, <1>6
<1> QED BY <1>5, <1>8, <1>9, <1>10, <1>11

(* Counting a job: the worker no longer has it, the counter does.          *)
LEMMA CountPreserves ==
    ASSUME PipelineCore, NEW w \in Workers, CountJob(w)
    PROVE  PipelineCore'
<1> USE DEF PipelineCore
<1>1. /\ wpc \in [Workers -> WorkerStates] /\ wpc[w] = "counting"
      /\ wpc' = [wpc EXCEPT ![w] = "idle"] /\ scanned' = scanned + 1
      /\ UNCHANGED <<feederVars, taken, wjob, results, collectorVars, cancelled>>
      /\ scanned \in Nat /\ taken \in Nat
  BY NAssumption DEF TypeOK, CountJob
<1>2. TypeOK'
  BY <1>1 DEF TypeOK, WorkerStates, feederVars, collectorVars
<1>3. Busy' = Busy \ {w} /\ Cardinality(Busy') = Cardinality(Busy) - 1
  BY <1>1, OneLessBusy
<1>4. Dialing' = Dialing /\ Holding' = Holding /\ InFlight' = InFlight
  BY <1>1 DEF Dialing, Holding, InFlight
<1>5. JobsAreHandedOut'
  BY <1>1, <1>3, <1>4 DEF JobsAreHandedOut, collectorVars
<1>6. NoDuplicateJob'
  BY <1>1, <1>3, <1>4 DEF NoDuplicateJob, NoDuplicateResult, collectorVars
<1>7. ClosedInOrder'
  <2>1. feeder # "done"
    BY <1>1 DEF ClosedInOrder, resultsClosed
  <2> QED BY <1>1, <2>1 DEF ClosedInOrder, jobsClosed, resultsClosed, feederVars,
      collectorVars, TypeOK
<1>8. (scanned + Cardinality(Busy) = taken)'
  BY <1>1, <1>3, BusyFinite
<1> QED BY <1>2, <1>5, <1>6, <1>7, <1>8

(* Collecting moves the head of the channel to byIP.                       *)
LEMMA CollectPreserves ==
    ASSUME PipelineCore, Collect
    PROVE  PipelineCore'
<1> USE DEF PipelineCore
<1> DEFINE j == Head(results)
<1>1. /\ results \in Seq(Jobs) /\ results # <<>> /\ results' = Tail(results)
      /\ reported' = reported \cup {j} /\ collector = "ranging"
      /\ UNCHANGED <<feederVars, workerVars, collector, cancelled>>
  BY DEF TypeOK, Collect
<1>2. /\ j \in Jobs /\ results' \in Seq(Jobs) /\ j = results[1] /\ 1 \in DOMAIN results
      /\ \A i \in DOMAIN results' : /\ i \in Nat /\ i > 0
                                    /\ i + 1 \in DOMAIN results
                                    /\ results'[i] = results[i + 1]
      /\ InFlight = InFlight' \cup {j}
  BY <1>1, ReceiveFacts
<1>3. TypeOK'
  BY <1>1, <1>2 DEF TypeOK, workerVars, feederVars
<1>4. Busy' = Busy /\ Dialing' = Dialing /\ Holding' = Holding
  BY <1>1 DEF workerVars, Busy, Dialing, Holding
<1>5. InFlight' \cup reported' = InFlight \cup reported
  BY <1>1, <1>2
<1>6. j \notin InFlight'
  <2> SUFFICES ASSUME NEW i \in DOMAIN results', results'[i] = j PROVE FALSE
    BY DEF InFlight
  <2>1. i + 1 \in DOMAIN results /\ results[i + 1] = results[1] /\ i \in Nat /\ i > 0
    BY <1>2
  <2>2. i + 1 = 1
    BY <1>2, <2>1 DEF NoDuplicateJob, NoDuplicateResult
  <2> QED BY <2>1, <2>2
<1>7. \A i, k \in DOMAIN results' : results'[i] = results'[k] => i = k
  <2> SUFFICES ASSUME NEW i \in DOMAIN results', NEW k \in DOMAIN results',
                      results'[i] = results'[k]
               PROVE  i = k
    OBVIOUS
  <2>1. i + 1 = k + 1
    BY <1>2 DEF NoDuplicateJob, NoDuplicateResult
  <2> QED BY <1>2, <2>1
<1>8. JobsAreHandedOut'
  BY <1>1, <1>4, <1>5 DEF JobsAreHandedOut, workerVars
<1>9. NoDuplicateJob'
  BY <1>1, <1>2, <1>4, <1>5, <1>6, <1>7 DEF NoDuplicateJob, NoDuplicateResult, workerVars
<1>10. ClosedInOrder'
  BY <1>1 DEF ClosedInOrder, jobsClosed, resultsClosed, feederVars, workerVars
<1>11. (scanned + Cardinality(Busy) = taken)'
  BY <1>1, <1>4 DEF workerVars
<1> QED BY <1>3, <1>8, <1>9, <1>10, <1>11

(* The end of the range loop, and stuttering.                              *)
LEMMA IdlePreserves ==
    ASSUME PipelineCore, StopCollecting \/ UNCHANGED vars
    PROVE  PipelineCore'
<1> USE DEF PipelineCore, StopCollecting, vars
<1>1. UNCHANGED <<feederVars, workerVars, results, reported, cancelled>>
  BY DEF collectorVars
<1>2. TypeOK'
  BY <1>1 DEF TypeOK, workerVars, feederVars, collectorVars
<1>3. Busy' = Busy /\ Dialing' = Dialing /\ Holding' = Holding /\ InFlight' = InFlight
  BY <1>1 DEF workerVars, Busy, Dialing, Holding, InFlight
<1>4. JobsAreHandedOut' /\ NoDuplicateJob'
  BY <1>1, <1>3 DEF JobsAreHandedOut, NoDuplicateJob, NoDuplicateResult, workerVars
<1>5. ClosedInOrder'
  BY <1>1 DEF ClosedInOrder, jobsClosed, resultsClosed, workerVars, feederVars,
     collectorVars
<1>6. (scanned + Cardinality(Busy) = taken)'
  BY <1>1, <1>3 DEF workerVars
<1> QED BY <1>2, <1>4, <1>5, <1>6

(* Every step of the pipeline preserves the invariant.                     *)
LEMMA StepPreserves == PipelineCore /\ [Next]_vars => PipelineCore'
<1> SUFFICES ASSUME PipelineCore, [Next]_vars PROVE PipelineCore'
  OBVIOUS
<1>1. CASE Feed \/ Cancel
  BY <1>1, FeedPreserves
<1>2. ASSUME NEW w \in Workers, Work(w) PROVE PipelineCore'
  <2>1. CASE TakeJob(w)
    BY <2>1, TakePreserves
  <2>2. CASE ExitWorker(w) \/ ScanPortOpen(w) \/ ScanPortClosed(w)
    BY <2>2, ProbePreserves
  <2>3. CASE SendResult(w)
    BY <2>3, SendPreserves
  <2>4. CASE CountJob(w)
    BY <2>4, CountPreserves
  <2> QED BY <1>2, <2>1, <2>2, <2>3, <2>4 DEF Work
<1>3. CASE Collect
  BY <1>3, CollectPreserves
<1>4. CASE StopCollecting \/ UNCHANGED vars
  BY <1>4, IdlePreserves
<1> QED BY <1>1, <1>2, <1>3, <1>4 DEF Next, Gather, Terminated

(* The inductive part of the invariant holds in every reachable state.     *)
LEMMA CoreInvariant == Spec => []PipelineCore
<1>1. Init => PipelineCore
  BY InitInv
<1>2. PipelineCore /\ [Next]_vars => PipelineCore'
  BY StepPreserves
<1> QED BY <1>1, <1>2, PTL DEF Spec

-----------------------------------------------------------------------------
(* Freedom from deadlock.                                                  *)

(* While the collector ranges, a goroutine that waits for another is never *)
(* the last one awake: an empty `results` leaves room for the workers'     *)
(* sends, so the workers wait for jobs, and the feeder can then send one.  *)
LEMMA SomebodyGoesOn == PipelineCore => NeverAllWaiting
<1> SUFFICES ASSUME PipelineCore, FeederWaits, CollectorWaits,
                    \A w \in Workers : WorkerWaits(w), collector # "done"
             PROVE  FALSE
  BY DEF NeverAllWaiting
<1>1. /\ fed \in 0..N /\ taken \in 0..fed /\ N \in Nat
      /\ feeder \in {"feeding", "waiting", "done"}
  BY NAssumption DEF PipelineCore, TypeOK
<1>2. results = <<>> /\ feeder # "done"
  BY DEF CollectorWaits, resultsClosed
<1>3. \A w \in Workers : wpc[w] = "exited" \/ (wpc[w] = "idle" /\ taken = fed /\ ~jobsClosed)
  BY <1>2, ConcurrencyPositive DEF WorkerWaits, ResultsCap
<1>4. CASE feeder = "feeding"
  <2>1. PICK w \in Workers : TRUE
    BY WorkersAssumption
  <2>2. wpc[w] # "exited"
    BY <1>4 DEF PipelineCore, ClosedInOrder, jobsClosed
  <2>3. taken = fed
    BY <1>3, <2>1, <2>2
  <2>4. fed - taken >= JobsCap
    BY <1>4 DEF FeederWaits
  <2> QED BY <1>1, <2>3, <2>4, ConcurrencyPositive DEF JobsCap
<1>5. CASE feeder = "waiting"
  <2>1. \A w \in Workers : wpc[w] = "exited"
    BY <1>3, <1>5 DEF jobsClosed
  <2> QED BY <1>5, <2>1 DEF FeederWaits
<1> QED BY <1>1, <1>2, <1>4, <1>5

(* The invariant the run checks, whatever the number of jobs and workers.  *)
THEOREM PipelineInvariant == Spec => []PipelineInv
<1>1. PipelineCore => PipelineInv
  BY SomebodyGoesOn DEF PipelineInv
<1> QED BY <1>1, CoreInvariant, PTL

(* The goroutines of the phase are never all asleep before it is over.     *)
THEOREM PipelineNeverStuck == Spec => []NeverAllWaiting
<1> QED BY SomebodyGoesOn, CoreInvariant, PTL

-----------------------------------------------------------------------------
(* The phase takes a bounded number of steps.                              *)

(* A set of workers is finite, so it can be weighed by its size.           *)
LEMMA WorkersFinite ==
    \A S \in SUBSET Workers : IsFiniteSet(S) /\ Cardinality(S) \in Nat
BY WorkersAssumption, FS_Subset, FS_CardinalityType

(* One worker more, or one less, in a set of workers.                      *)
LEMMA OneMore ==
    ASSUME NEW S \in SUBSET Workers, NEW w \in Workers \ S
    PROVE  Cardinality(S \cup {w}) = Cardinality(S) + 1
BY WorkersFinite, FS_AddElement

LEMMA OneLess ==
    ASSUME NEW S \in SUBSET Workers, NEW w \in S
    PROVE  Cardinality(S \ {w}) = Cardinality(S) - 1
BY WorkersFinite, FS_RemoveElement

(* The weights are natural numbers.                                        *)
LEMMA WeightsAreNatural ==
    PipelineCore => /\ FeederLeft \in Nat /\ WorkersLeft \in Nat
                    /\ CollectorLeft \in Nat /\ CancelLeft \in Nat
<1> SUFFICES ASSUME PipelineCore
             PROVE  /\ FeederLeft \in Nat /\ WorkersLeft \in Nat
                    /\ CollectorLeft \in Nat /\ CancelLeft \in Nat
  OBVIOUS
<1>1. /\ fed \in 0..N /\ taken \in 0..fed /\ N \in Nat /\ results \in Seq(Jobs)
      /\ feeder \in {"feeding", "waiting", "done"}
  BY NAssumption DEF PipelineCore, TypeOK
<1>2. FeederLeft \in Nat
  BY <1>1 DEF FeederLeft
<1>3. CollectorLeft \in Nat /\ CancelLeft \in Nat
  BY <1>1 DEF CollectorLeft, CancelLeft
<1>4. WorkersLeft \in Nat
  <2>1. {Dialing, Holding, Counting, Running} \subseteq SUBSET Workers
    BY DEF Dialing, Holding, Counting, Running
  <2>2. /\ Cardinality(Dialing) \in Nat /\ Cardinality(Holding) \in Nat
        /\ Cardinality(Counting) \in Nat /\ Cardinality(Running) \in Nat
    BY <2>1, WorkersFinite
  <2>3. N - taken \in Nat
    BY <1>1
  <2> QED BY <2>2, <2>3 DEF WorkersLeft
<1> QED BY <1>2, <1>3, <1>4

(* How the sets of workers change when one of them moves.                  *)
LEMMA WorkerMoves ==
    ASSUME wpc \in [Workers -> WorkerStates], NEW w \in Workers,
           NEW s \in WorkerStates, s # wpc[w], wpc' = [wpc EXCEPT ![w] = s]
    PROVE  /\ Dialing' = IF s = "dialing" THEN Dialing \cup {w}
                         ELSE IF wpc[w] = "dialing" THEN Dialing \ {w} ELSE Dialing
           /\ Holding' = IF s = "holding" THEN Holding \cup {w}
                         ELSE IF wpc[w] = "holding" THEN Holding \ {w} ELSE Holding
           /\ Counting' = IF s = "counting" THEN Counting \cup {w}
                          ELSE IF wpc[w] = "counting" THEN Counting \ {w} ELSE Counting
           /\ wpc[w] # "exited" =>
                 Running' = IF s = "exited" THEN Running \ {w} ELSE Running
           /\ w \in Dialing <=> wpc[w] = "dialing"
           /\ w \in Holding <=> wpc[w] = "holding"
           /\ w \in Counting <=> wpc[w] = "counting"
           /\ w \in Running <=> wpc[w] # "exited"
           /\ Dialing \subseteq Workers /\ Holding \subseteq Workers
           /\ Counting \subseteq Workers /\ Running \subseteq Workers
BY DEF Dialing, Holding, Counting, Running, WorkerStates

(* Each step of a worker takes more from its weight than it adds to the    *)
(* collector's.                                                            *)
LEMMA WorkLightens ==
    ASSUME PipelineCore, NEW w \in Workers, Work(w)
    PROVE  /\ FeederLeft' = FeederLeft /\ CancelLeft' = CancelLeft
           /\ WorkersLeft' + CollectorLeft' < WorkersLeft + CollectorLeft
<1> DEFINE d == Cardinality(Dialing)
           h == Cardinality(Holding)
           c == Cardinality(Counting)
           r == Cardinality(Running)
           e == IF collector = "ranging" THEN 1 ELSE 0
<1>1. /\ fed \in Nat /\ taken \in Nat /\ N \in Nat /\ results \in Seq(Jobs)
      /\ Len(results) \in Nat /\ wpc \in [Workers -> WorkerStates]
  BY NAssumption DEF PipelineCore, TypeOK
<1>2. d \in Nat /\ h \in Nat /\ c \in Nat /\ r \in Nat
  <2>1. {Dialing, Holding, Counting, Running} \subseteq SUBSET Workers
    BY DEF Dialing, Holding, Counting, Running
  <2> QED BY <2>1, WorkersFinite
<1>3. UNCHANGED <<feeder, fed, collector, cancelled>>
  BY DEF Work, TakeJob, ExitWorker, ScanPortOpen, ScanPortClosed, SendResult, CountJob,
     feederVars, collectorVars
<1>4. FeederLeft' = FeederLeft /\ CancelLeft' = CancelLeft
  BY <1>3 DEF FeederLeft, CancelLeft
<1>5. /\ WorkersLeft = 5 * (N - taken) + 4 * d + 3 * h + c + r
      /\ WorkersLeft' = 5 * (N - taken') + 4 * d' + 3 * h' + c' + r'
  BY DEF WorkersLeft
<1>6. /\ CollectorLeft = Len(results) + e /\ CollectorLeft' = Len(results') + e
      /\ e \in Nat
  BY <1>3 DEF CollectorLeft
<1> HIDE DEF e
<1>7. CASE TakeJob(w)
  <2>1. /\ Dialing' = Dialing \cup {w} /\ w \notin Dialing /\ Dialing \subseteq Workers
        /\ UNCHANGED <<Holding, Counting, Running, results>> /\ taken' = taken + 1
    BY <1>1, <1>7, WorkerMoves DEF TakeJob, WorkerStates
  <2>2. d' = d + 1 /\ h' = h /\ c' = c /\ r' = r
    BY <2>1, OneMore
  <2> HIDE DEF d, h, c, r
  <2> QED BY <1>1, <1>2, <1>4, <1>5, <1>6, <2>1, <2>2
<1>8. CASE ExitWorker(w)
  <2>1. /\ Running' = Running \ {w} /\ w \in Running /\ Running \subseteq Workers
        /\ UNCHANGED <<Dialing, Holding, Counting, results, taken>>
    BY <1>1, <1>8, WorkerMoves DEF ExitWorker, WorkerStates
  <2>2. r' = r - 1 /\ d' = d /\ h' = h /\ c' = c
    BY <2>1, OneLess
  <2> HIDE DEF d, h, c, r
  <2> QED BY <1>1, <1>2, <1>4, <1>5, <1>6, <2>1, <2>2
<1>9. CASE ScanPortOpen(w)
  <2>1. /\ Dialing' = Dialing \ {w} /\ w \in Dialing /\ Dialing \subseteq Workers
        /\ Holding' = Holding \cup {w} /\ w \notin Holding /\ Holding \subseteq Workers
        /\ UNCHANGED <<Counting, Running, results, taken>>
    BY <1>1, <1>9, WorkerMoves DEF ScanPortOpen, WorkerStates
  <2>2. d' = d - 1 /\ h' = h + 1 /\ c' = c /\ r' = r
    BY <2>1, OneLess, OneMore
  <2> HIDE DEF d, h, c, r
  <2> QED BY <1>1, <1>2, <1>4, <1>5, <1>6, <2>1, <2>2
<1>10. CASE ScanPortClosed(w)
  <2>1. /\ Dialing' = Dialing \ {w} /\ w \in Dialing /\ Dialing \subseteq Workers
        /\ Counting' = Counting \cup {w} /\ w \notin Counting /\ Counting \subseteq Workers
        /\ UNCHANGED <<Holding, Running, results, taken>>
    BY <1>1, <1>10, WorkerMoves DEF ScanPortClosed, WorkerStates
  <2>2. d' = d - 1 /\ c' = c + 1 /\ h' = h /\ r' = r
    BY <2>1, OneLess, OneMore
  <2> HIDE DEF d, h, c, r
  <2> QED BY <1>1, <1>2, <1>4, <1>5, <1>6, <2>1, <2>2
<1>11. CASE SendResult(w)
  <2>1. /\ Holding' = Holding \ {w} /\ w \in Holding /\ Holding \subseteq Workers
        /\ Counting' = Counting \cup {w} /\ w \notin Counting /\ Counting \subseteq Workers
        /\ UNCHANGED <<Dialing, Running, taken>> /\ results' = Append(results, wjob[w])
    BY <1>1, <1>11, WorkerMoves DEF SendResult, WorkerStates
  <2>2. h' = h - 1 /\ c' = c + 1 /\ d' = d /\ r' = r
    BY <2>1, OneLess, OneMore
  <2>3. Len(results') = Len(results) + 1
    BY <1>1, <2>1
  <2> HIDE DEF d, h, c, r
  <2> QED BY <1>1, <1>2, <1>4, <1>5, <1>6, <2>1, <2>2, <2>3
<1>12. CASE CountJob(w)
  <2>1. /\ Counting' = Counting \ {w} /\ w \in Counting /\ Counting \subseteq Workers
        /\ UNCHANGED <<Dialing, Holding, Running, results, taken>>
    BY <1>1, <1>12, WorkerMoves DEF CountJob, WorkerStates
  <2>2. c' = c - 1 /\ d' = d /\ h' = h /\ r' = r
    BY <2>1, OneLess
  <2> HIDE DEF d, h, c, r
  <2> QED BY <1>1, <1>2, <1>4, <1>5, <1>6, <2>1, <2>2
<1> QED BY <1>7, <1>8, <1>9, <1>10, <1>11, <1>12 DEF Work

(* A step of the feeder, of the collector or of Ctrl-C takes from its own. *)
LEMMA OthersLighten ==
    ASSUME PipelineCore, Feed \/ Gather \/ Cancel
    PROVE  /\ WorkersLeft' = WorkersLeft
           /\ \/ FeederLeft' < FeederLeft /\ CollectorLeft' = CollectorLeft /\ CancelLeft' = CancelLeft
              \/ CollectorLeft' < CollectorLeft /\ FeederLeft' = FeederLeft /\ CancelLeft' = CancelLeft
              \/ CancelLeft' < CancelLeft /\ FeederLeft' = FeederLeft /\ CollectorLeft' = CollectorLeft
<1>1. /\ fed \in Nat /\ taken \in Nat /\ N \in Nat /\ results \in Seq(Jobs)
      /\ Len(results) \in Nat
  BY NAssumption DEF PipelineCore, TypeOK
<1>2. wpc' = wpc /\ taken' = taken
  BY DEF Feed, FeedJob, CloseJobs, CloseResults, Gather, Collect, StopCollecting, Cancel,
     workerVars
<1>3. WorkersLeft' = WorkersLeft
  BY <1>2 DEF WorkersLeft, Dialing, Holding, Counting, Running
<1>4. CASE Feed
  <2>1. CollectorLeft' = CollectorLeft /\ CancelLeft' = CancelLeft
    BY <1>4 DEF Feed, FeedJob, CloseJobs, CloseResults, collectorVars, CollectorLeft,
       CancelLeft
  <2>2. FeederLeft' < FeederLeft
    BY <1>1, <1>4 DEF Feed, FeedJob, CloseJobs, CloseResults, FeederLeft
  <2> QED BY <1>3, <2>1, <2>2
<1>5. CASE Gather
  <2>1. FeederLeft' = FeederLeft /\ CancelLeft' = CancelLeft
    <3>1. UNCHANGED <<feeder, fed, cancelled>>
      BY <1>5 DEF Gather, Collect, StopCollecting, feederVars
    <3> QED BY <3>1 DEF FeederLeft, CancelLeft
  <2>2. CASE Collect
    <3>1. Len(results') = Len(results) - 1 /\ collector' = collector
      BY <1>1, <2>2 DEF Collect
    <3> QED BY <1>1, <1>3, <2>1, <3>1 DEF CollectorLeft
  <2>3. CASE StopCollecting
    BY <1>1, <1>3, <2>1, <2>3 DEF StopCollecting, CollectorLeft
  <2> QED BY <1>5, <2>2, <2>3 DEF Gather
<1>6. CASE Cancel
  <2>1. FeederLeft' = FeederLeft /\ CollectorLeft' = CollectorLeft
    BY <1>6 DEF Cancel, feederVars, collectorVars, FeederLeft, CollectorLeft
  <2>2. CancelLeft' < CancelLeft
    BY <1>6 DEF Cancel, CancelLeft
  <2> QED BY <1>3, <2>1, <2>2
<1> QED BY <1>4, <1>5, <1>6

(* A sum of weights lightens with any of them, or with two together.       *)
LEMMA SumLightens ==
    \A f, w, c, x, f1, w1, c1, x1 \in Nat :
        \/ f1 = f /\ x1 = x /\ w1 + c1 < w + c
        \/ w1 = w /\ f1 < f /\ c1 = c /\ x1 = x
        \/ w1 = w /\ c1 < c /\ f1 = f /\ x1 = x
        \/ w1 = w /\ x1 < x /\ f1 = f /\ c1 = c
        => f1 + w1 + c1 + x1 < f + w + c + x
OBVIOUS

LEMMA SumIsNatural ==
    ASSUME NEW f \in Nat, NEW w \in Nat, NEW c \in Nat, NEW x \in Nat
    PROVE  f + w + c + x \in Nat
OBVIOUS

(* The phase cannot go on for ever: every step that changes anything uses  *)
(* up some of the work, for every number of jobs and of workers.           *)
THEOREM PipelineRunsOut == Spec => StepsRunOut
<1> DEFINE Natural == /\ FeederLeft \in Nat /\ WorkersLeft \in Nat
                      /\ CollectorLeft \in Nat /\ CancelLeft \in Nat
<1>1. PipelineCore => Natural
  BY WeightsAreNatural
<1>2. PipelineCore /\ Natural /\ Natural' /\ [Next]_vars
        => [WorkLeft' \in Nat /\ WorkLeft' < WorkLeft]_vars
  <2> SUFFICES ASSUME PipelineCore, Natural, Natural', Next, vars' # vars
               PROVE  WorkLeft' \in Nat /\ WorkLeft' < WorkLeft
    OBVIOUS
  <2>1. \/ /\ FeederLeft' = FeederLeft /\ CancelLeft' = CancelLeft
           /\ WorkersLeft' + CollectorLeft' < WorkersLeft + CollectorLeft
        \/ /\ WorkersLeft' = WorkersLeft /\ FeederLeft' < FeederLeft
           /\ CollectorLeft' = CollectorLeft /\ CancelLeft' = CancelLeft
        \/ /\ WorkersLeft' = WorkersLeft /\ CollectorLeft' < CollectorLeft
           /\ FeederLeft' = FeederLeft /\ CancelLeft' = CancelLeft
        \/ /\ WorkersLeft' = WorkersLeft /\ CancelLeft' < CancelLeft
           /\ FeederLeft' = FeederLeft /\ CollectorLeft' = CollectorLeft
    <3>1. CASE Feed \/ Gather \/ Cancel
      BY <3>1, OthersLighten
    <3>2. CASE \E w \in Workers : Work(w)
      BY <3>2, WorkLightens
    <3> QED BY <3>1, <3>2 DEF Next, Terminated
  <2>2. WorkLeft' \in Nat /\ WorkLeft' < WorkLeft
    <3>1. /\ FeederLeft \in Nat /\ FeederLeft' \in Nat
          /\ WorkersLeft \in Nat /\ WorkersLeft' \in Nat
          /\ CollectorLeft \in Nat /\ CollectorLeft' \in Nat
          /\ CancelLeft \in Nat /\ CancelLeft' \in Nat
      OBVIOUS
    <3> HIDE DEF Natural
    <3>2. FeederLeft' + WorkersLeft' + CollectorLeft' + CancelLeft' \in Nat
      BY <3>1, SumIsNatural, Zenon
    <3>3. FeederLeft' + WorkersLeft' + CollectorLeft' + CancelLeft'
            < FeederLeft + WorkersLeft + CollectorLeft + CancelLeft
      BY <2>1, <3>1, SumLightens, ZenonT(60)
    <3> QED BY <3>2, <3>3, Zenon DEF WorkLeft
  <2> QED BY <2>2
<1> HIDE DEF Natural
<1> QED BY <1>1, <1>2, CoreInvariant, PTL DEF Spec, StepsRunOut

-----------------------------------------------------------------------------
(* The safety properties.                                                  *)

(* The variables keep their types.                                         *)
THEOREM TypeCorrect == Spec => []TypeOK
<1>1. PipelineCore => TypeOK
  BY DEF PipelineCore
<1> QED BY <1>1, CoreInvariant, PTL

(* No worker can send on a channel the feeder has closed.                  *)
THEOREM NoSendOnClosed == Spec => []NoSendOnClosedChannel
<1>1. PipelineCore => NoSendOnClosedChannel
  <2> SUFFICES ASSUME PipelineCore, resultsClosed
               PROVE  Busy = {} /\ taken = N
    BY DEF NoSendOnClosedChannel
  <2>1. \A w \in Workers : wpc[w] = "exited" /\ taken = N
    BY DEF PipelineCore, ClosedInOrder
  <2>2. Busy = {}
    BY <2>1 DEF Busy
  <2> QED BY <2>1, <2>2, WorkersAssumption
<1> QED BY <1>1, CoreInvariant, PTL

(* The progress counter is exact, and final when the phase ends.           *)
THEOREM ProgressExact == Spec => []ProgressIsExact
<1>1. PipelineCore => ProgressIsExact
  <2> SUFFICES ASSUME PipelineCore, collector = "done" PROVE scanned = N
    BY DEF PipelineCore, ProgressIsExact
  <2>1. \A w \in Workers : wpc[w] = "exited" /\ taken = N
    BY DEF PipelineCore, ClosedInOrder
  <2>2. Busy = {} /\ taken = N
    BY <2>1, WorkersAssumption DEF Busy
  <2>3. scanned + 0 = N /\ scanned \in Nat
    BY <2>2, FS_EmptySet DEF PipelineCore, TypeOK
  <2> QED BY <2>3
<1> QED BY <1>1, CoreInvariant, PTL

(* No job is ever at two places of the pipeline.                           *)
THEOREM NoDuplicates == Spec => []NoDuplicateResult
<1>1. PipelineCore => NoDuplicateResult
  BY DEF PipelineCore, NoDuplicateJob
<1> QED BY <1>1, CoreInvariant, PTL

-----------------------------------------------------------------------------
(* Refinement: the pipeline implements the contract of PortScan.           *)

Probed == (1..taken) \ {wjob[w] : w \in Dialing}
Found  == reported \cup InFlight \cup {wjob[w] : w \in Holding}

(* Initially nothing is probed, found or reported.                         *)
LEMMA ContractInit == Init => Contract!Init
<1> SUFFICES ASSUME Init PROVE Contract!Init
  OBVIOUS
<1>1. Probed = {} /\ Found = {}
  BY DEF Init, Probed, Found, Dialing, Holding, InFlight
<1> QED BY <1>1 DEF Init, Contract!Init, Probed, Found

(* Steps that change neither what is probed nor what is found are          *)
(* stuttering steps of the contract.                                       *)
LEMMA ContractStutter ==
    ASSUME Probed' = Probed, Found' = Found,
           UNCHANGED <<reported, cancelled>>, (collector = "done")' = (collector = "done")
    PROVE  UNCHANGED Contract!scanVars
BY DEF Contract!scanVars, Probed, Found

(* Every step of the pipeline is a step of the contract or a stutter.      *)
LEMMA ContractStep == PipelineCore /\ [Next]_vars => [Contract!Next]_(Contract!scanVars)
<1> SUFFICES ASSUME PipelineCore, [Next]_vars PROVE [Contract!Next]_(Contract!scanVars)
  OBVIOUS
<1> USE DEF PipelineCore
<1>1. CASE Feed \/ UNCHANGED vars
  <2>1. UNCHANGED <<workerVars, results, collectorVars, cancelled>>
    BY <1>1 DEF Feed, FeedJob, CloseJobs, CloseResults, vars
  <2>2. Probed' = Probed /\ Found' = Found
    BY <2>1 DEF workerVars, collectorVars, Probed, Found, Dialing, Holding, InFlight
  <2> QED BY <2>1, <2>2, ContractStutter DEF collectorVars
<1>2. CASE Cancel
  <2>1. UNCHANGED <<workerVars, results, collectorVars>> /\ ~cancelled /\ cancelled' = TRUE
    BY <1>2 DEF Cancel
  <2>2. Probed' = Probed /\ Found' = Found
    BY <2>1 DEF workerVars, collectorVars, Probed, Found, Dialing, Holding, InFlight
  <2>3. Contract!Cancel
    BY <2>1, <2>2 DEF Contract!Cancel, Probed, Found, collectorVars
  <2> QED BY <2>3 DEF Contract!Next
<1>3. ASSUME NEW w \in Workers, Work(w)
      PROVE  [Contract!Next]_(Contract!scanVars)
  <2> DEFINE j == wjob[w]
  <2>0. /\ wpc \in [Workers -> WorkerStates] /\ wjob \in [Workers -> 0..N]
        /\ taken \in Nat /\ N \in Nat /\ taken \in 0..N /\ results \in Seq(Jobs)
    BY NAssumption DEF TypeOK
  <2>1. CASE TakeJob(w)
    <3>1. /\ taken' = taken + 1 /\ wjob' = [wjob EXCEPT ![w] = taken + 1]
          /\ wpc' = [wpc EXCEPT ![w] = "dialing"] /\ wpc[w] = "idle"
          /\ UNCHANGED <<results, collectorVars, cancelled>>
      BY <2>1 DEF TakeJob
    <3>2. /\ Dialing' = Dialing \cup {w} /\ w \notin Dialing
          /\ Holding' = Holding /\ w \notin Holding
          /\ Dialing \subseteq Workers /\ Holding \subseteq Workers
      BY <2>0, <3>1 DEF Dialing, Holding
    <3>3. wjob'[w] = taken + 1 /\ \A v \in Dialing \cup Holding : wjob'[v] = wjob[v]
      BY <2>0, <3>1, <3>2
    <3>4. \A v \in Dialing : wjob[v] # taken + 1
      BY <2>0, <3>2 DEF JobsAreHandedOut, Dialing, Busy
    <3>5. {wjob'[v] : v \in Dialing'} = {wjob[v] : v \in Dialing} \cup {taken + 1}
      BY <3>2, <3>3
    <3>6. 1..taken' = (1..taken) \cup {taken + 1} /\ taken + 1 \notin 1..taken
      BY <2>0, <3>1
    <3>7. Probed' = Probed
      BY <3>4, <3>5, <3>6 DEF Probed
    <3>8. Found' = Found
      BY <3>1, <3>2, <3>3 DEF Found, InFlight, collectorVars
    <3> QED BY <3>1, <3>7, <3>8, ContractStutter DEF collectorVars
  <2>2. CASE ExitWorker(w) \/ CountJob(w)
    <3>1. UNCHANGED <<taken, wjob, results, collectorVars, cancelled>>
      BY <2>2 DEF ExitWorker, CountJob
    <3>2. Dialing' = Dialing /\ Holding' = Holding
      BY <2>0, <2>2 DEF ExitWorker, CountJob, Dialing, Holding
    <3>3. Probed' = Probed /\ Found' = Found
      BY <3>1, <3>2 DEF Probed, Found, InFlight, collectorVars
    <3> QED BY <3>1, <3>3, ContractStutter DEF collectorVars
  <2>3. CASE ScanPortOpen(w) \/ ScanPortClosed(w)
    <3>1. wpc[w] = "dialing" /\ UNCHANGED <<taken, wjob, results, collectorVars, cancelled>>
      BY <2>3 DEF ScanPortOpen, ScanPortClosed
    <3>2. w \in Dialing /\ w \in Busy /\ Dialing \subseteq Busy /\ Dialing' = Dialing \ {w}
      BY <2>0, <2>3, <3>1 DEF ScanPortOpen, ScanPortClosed, Dialing, Busy
    <3>3. j \in 1..taken /\ \A v \in Dialing' : wjob[v] # j
      BY <3>2 DEF JobsAreHandedOut, NoDuplicateJob, NoDuplicateResult
    <3>4. {wjob[v] : v \in Dialing} = {wjob[v] : v \in Dialing'} \cup {j}
      BY <3>2
    <3>5. j \in Jobs
      BY <2>0, <3>3 DEF Jobs
    <3>6. j \notin Probed
      BY <3>4 DEF Probed
    <3>7. Probed' = Probed \cup {j}
      <4>1. {wjob[v] : v \in Dialing}' = {wjob[v] : v \in Dialing'} /\ taken' = taken
        BY <3>1
      <4>2. j \notin {wjob[v] : v \in Dialing'}
        BY <3>3
      <4> QED BY <3>3, <3>4, <4>1, <4>2 DEF Probed
    <3>k. PICK k \in Jobs : k = j
      BY <3>5
    <3>8. CASE ScanPortOpen(w)
      <4>1. Holding' = Holding \cup {w} /\ ~cancelled
        BY <2>0, <3>8 DEF ScanPortOpen, Holding
      <4>2. Found' = Found \cup {j}
        BY <3>1, <4>1 DEF Found, InFlight, collectorVars
      <4>3. Contract!ProbeOpen(k)
        BY <3>1, <3>6, <3>7, <3>k, <4>1, <4>2
        DEF Contract!ProbeOpen, Probed, Found, collectorVars
      <4>4. Contract!Next
        BY <4>3 DEF Contract!Next
      <4> QED BY <4>4
    <3>9. CASE ScanPortClosed(w)
      <4>1. Holding' = Holding
        BY <2>0, <3>1, <3>9 DEF ScanPortClosed, Holding
      <4>2. Found' = Found
        BY <3>1, <4>1 DEF Found, InFlight, collectorVars
      <4>3. Contract!ProbeClosed(k)
        BY <3>1, <3>6, <3>7, <3>k, <4>2
        DEF Contract!ProbeClosed, Probed, Found, collectorVars
      <4>4. Contract!Next
        BY <4>3 DEF Contract!Next
      <4> QED BY <4>4
    <3> QED BY <2>3, <3>8, <3>9
  <2>4. CASE SendResult(w)
    <3>1. /\ results' = Append(results, j) /\ wpc[w] = "holding"
          /\ UNCHANGED <<taken, wjob, collectorVars, cancelled>>
      BY <2>4 DEF SendResult
    <3>2. w \in Busy /\ w \in Holding /\ Dialing' = Dialing /\ Holding' = Holding \ {w}
      BY <2>0, <2>4, <3>1 DEF SendResult, Dialing, Holding, Busy
    <3>3. j \in Jobs
      BY <2>0, <3>2 DEF JobsAreHandedOut, Jobs
    <3>4. InFlight' = InFlight \cup {j}
      BY <2>0, <3>1, <3>3, SendFacts
    <3>5. {wjob[v] : v \in Holding} = {wjob[v] : v \in Holding'} \cup {j}
      BY <3>2
    <3>6. Probed' = Probed /\ Found' = Found
      BY <3>1, <3>2, <3>4, <3>5 DEF Probed, Found, collectorVars
    <3> QED BY <3>1, <3>6, ContractStutter DEF collectorVars
  <2> QED BY <1>3, <2>1, <2>2, <2>3, <2>4 DEF Work
<1>4. CASE Collect
  <2> DEFINE j == Head(results)
  <2>1. /\ results \in Seq(Jobs) /\ results # <<>> /\ results' = Tail(results)
        /\ reported' = reported \cup {j}
        /\ UNCHANGED <<workerVars, collector, cancelled>>
    BY <1>4 DEF Collect, TypeOK
  <2>2. j \in Jobs /\ InFlight = InFlight' \cup {j}
    BY <2>1, ReceiveFacts
  <2>3. Probed' = Probed /\ Holding' = Holding /\ wjob' = wjob
    BY <2>1 DEF workerVars, Probed, Dialing, Holding
  <2>4. Found' = Found
    BY <2>1, <2>2, <2>3 DEF Found
  <2>5. j \in Found \ reported
    BY <2>2 DEF Found, NoDuplicateJob, NoDuplicateResult
  <2>6. Contract!Report(j)
    BY <2>1, <2>3, <2>4, <2>5 DEF Contract!Report, Probed, Found
  <2> QED BY <2>2, <2>6 DEF Contract!Next
<1>5. CASE StopCollecting
  <2>1. /\ collector = "ranging" /\ collector' = "done" /\ resultsClosed /\ results = <<>>
        /\ UNCHANGED <<workerVars, results, reported, cancelled>>
    BY <1>5 DEF StopCollecting
  <2>2. \A w \in Workers : wpc[w] = "exited" /\ taken = N
    BY <2>1 DEF ClosedInOrder
  <2>3. Dialing = {} /\ Holding = {} /\ InFlight = {} /\ taken = N
    BY <2>1, <2>2, WorkersAssumption DEF Dialing, Holding, InFlight
  <2>4. Probed = Jobs /\ Found = reported
    BY <2>3 DEF Probed, Found, Jobs
  <2>5. Probed' = Probed /\ Found' = Found
    BY <2>1 DEF workerVars, Probed, Found, Dialing, Holding, InFlight
  <2>6. Contract!Finish
    BY <2>1, <2>4, <2>5 DEF Contract!Finish, Probed, Found
  <2> QED BY <2>6 DEF Contract!Next
<1> QED BY <1>1, <1>2, <1>3, <1>4, <1>5 DEF Next, Gather, Terminated

(* The pipeline implements the contract of the scan phase: every open port *)
(* found is collected exactly once before the phase ends, for every number *)
(* of jobs and of workers, and whenever Ctrl-C arrives.                    *)
THEOREM PipelineImplementsContract == Spec => ImplementsContract
<1>1. Init => Contract!Init
  BY ContractInit
<1>2. PipelineCore /\ [Next]_vars => [Contract!Next]_(Contract!scanVars)
  BY ContractStep
<1> QED BY <1>1, <1>2, CoreInvariant, PTL
    DEF Spec, ImplementsContract, Contract!Spec
=============================================================================
