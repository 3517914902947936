--------------------------- MODULE DistributedHeat ---------------------------
(***************************************************************************)
(* The heat transfer simulation of project2.2: process 0 hands the jobs of *)
(* the file out to the others, a block to each, and collects a line for    *)
(* each job; it serves one worker after the other.  A worker's simulation  *)
(* of a plate is that of module HeatSimulation, here in one step.          *)
(***************************************************************************)
EXTENDS MessagePassing, Integers, FiniteSets, FiniteSetsExt, Functions, SequencesExt

CONSTANTS ProcessCounts, Plates, NoPlate, JobFiles, DblMin, MaxStates

VARIABLES program, pc, shared, private

vars == <<program, pc, shared, private>>

Heat == INSTANCE HeatSimulation WITH NumThreads <- 1

Workers == 1..(shared.process_count - 1)
Processes == 0..(shared.process_count - 1)

TypeOK ==
  /\ shared.process_count \in ProcessCounts /\ shared.eager \in BOOLEAN
  /\ pc \in [Processes -> {"start", "send_count", "send_jobs", "collect", "report",
                           "receive_count", "receive_job", "simulate", "send_line",
                           "finalize", "done", "crashed"}]
  /\ \A p \in Workers : private.jobs[p] <= Len(shared.info)
  /\ Len(shared.results) <= Len(shared.info)

\* Job files whose plates are all balanced at some time.
Init ==
  /\ program = "heatsim_mpi"
  /\ \E process_count \in ProcessCounts, eager \in BOOLEAN, info \in JobFiles :
       /\ \A i \in DOMAIN info : info[i].epsilon >= DblMin
       /\ shared = [process_count |-> process_count, eager |-> eager, info |-> info,
                    channels |-> NoMessages, results |-> <<>>, report |-> <<>>,
                    binaries |-> {}]
       /\ pc = [p \in 0..(process_count - 1) |->
                  IF p = 0 THEN "start" ELSE "receive_count"]
       /\ private = [worker |-> 1, next |-> 0, received |-> 0,
                     jobs |-> [p \in 1..(process_count - 1) |-> 0],
                     job |-> [p \in 1..(process_count - 1) |-> <<>>]]

Go(p, at) == pc' = [pc EXCEPT ![p] = at]

\* An exception that nobody catches in one process takes the others with it.
Crash ==
  /\ pc' = [p \in Processes |-> "crashed"]
  /\ UNCHANGED <<shared, private>>

-----------------------------------------------------------------------------
(* Process 0                                                               *)

\* Mutant: the jobs left over are not dealt.
InicioWithoutRest(process_number, data_count, process_count) ==
  process_number * (data_count \div process_count)

inicio(process_number, data_count, process_count) ==
  process_number * (data_count \div process_count)
    + (IF process_number < data_count % process_count
       THEN process_number ELSE data_count % process_count)

final(process_number, data_count, process_count) ==
  inicio(process_number + 1, data_count, process_count)

\* The first and the last job of a worker.
CargaInicio(p) == 1 + inicio(p - 1, Len(shared.info), shared.process_count - 1)
CargaFinal(p) == final(p - 1, Len(shared.info), shared.process_count - 1)
Load(p) == CargaFinal(p) - CargaInicio(p) + 1

AnalyzeArguments ==
  /\ pc[0] = "start"
  /\ \/ Go(0, "send_count") /\ UNCHANGED <<shared, private>>
     \/ Crash

\* Mutant: a worker without jobs is not told so.
SendCountBusy ==
  /\ pc[0] = "send_count"
  /\ IF private.worker \in Workers
     THEN /\ shared' = IF Load(private.worker) = 0 THEN shared
                       ELSE [shared EXCEPT !.channels =
                               Sent(@, 0, private.worker, Load(private.worker))]
          /\ private' = [private EXCEPT !.next = CargaInicio(private.worker)]
          /\ Go(0, "send_jobs")
     ELSE Go(0, "report") /\ UNCHANGED <<shared, private>>

\* The number of jobs of the next worker; after the last worker the report.
SendCount ==
  /\ pc[0] = "send_count"
  /\ IF private.worker \in Workers
     THEN /\ shared' = [shared EXCEPT !.channels =
               Sent(@, 0, private.worker, Load(private.worker))]
          /\ private' = [private EXCEPT !.next = CargaInicio(private.worker)]
          /\ Go(0, "send_jobs")
     ELSE Go(0, "report") /\ UNCHANGED <<shared, private>>

SendJob ==
  /\ pc[0] = "send_jobs"
  /\ IF private.next <= CargaFinal(private.worker)
     THEN /\ shared' = [shared EXCEPT !.channels =
               Sent(@, 0, private.worker, shared.info[private.next])]
          /\ private' = [private EXCEPT !.next = @ + 1]
          /\ UNCHANGED pc
     ELSE /\ private' = [private EXCEPT !.received = 0]
          /\ Go(0, "collect")
          /\ UNCHANGED shared

\* Mutant: a line of whichever worker has one.
CollectAny ==
  /\ pc[0] = "collect"
  /\ IF private.received < Load(private.worker)
     THEN /\ \E p \in Workers :
               /\ Waiting(shared.channels, p, 0)
               /\ shared' = [shared EXCEPT
                    !.results = <<Received(shared.channels, p, 0)>> \o @,
                    !.channels = Taken(@, p, 0)]
          /\ private' = [private EXCEPT !.received = @ + 1]
          /\ UNCHANGED pc
     ELSE /\ private' = [private EXCEPT !.worker = @ + 1]
          /\ Go(0, "send_count")
          /\ UNCHANGED shared

\* As many lines as jobs, of this worker; then the next worker has its turn.
Collect ==
  /\ pc[0] = "collect"
  /\ IF private.received < Load(private.worker)
     THEN /\ Waiting(shared.channels, private.worker, 0)
          /\ shared' = [shared EXCEPT
               !.results = Append(@, Received(shared.channels, private.worker, 0)),
               !.channels = Taken(@, private.worker, 0)]
          /\ private' = [private EXCEPT !.received = @ + 1]
          /\ UNCHANGED pc
     ELSE /\ private' = [private EXCEPT !.worker = @ + 1]
          /\ Go(0, "send_count")
          /\ UNCHANGED shared

WriteReport ==
  /\ pc[0] = "report"
  /\ \/ /\ shared' = [shared EXCEPT !.report = shared.results]
        /\ Go(0, "finalize")
        /\ UNCHANGED private
     \/ Crash

-----------------------------------------------------------------------------
(* The workers                                                             *)

ReceiveCount(p) ==
  /\ pc[p] = "receive_count" /\ Waiting(shared.channels, 0, p)
  /\ private' = [private EXCEPT !.jobs[p] = Received(shared.channels, 0, p)]
  /\ shared' = [shared EXCEPT !.channels = Taken(@, 0, p)]
  /\ Go(p, "receive_job")

\* jobs counts down what is left to do.
ReceiveJob(p) ==
  /\ pc[p] = "receive_job"
  /\ IF private.jobs[p] > 0
     THEN /\ Waiting(shared.channels, 0, p)
          /\ private' = [private EXCEPT !.job[p] = Received(shared.channels, 0, p),
                                        !.jobs[p] = @ - 1]
          /\ shared' = [shared EXCEPT !.channels = Taken(@, 0, p)]
          /\ Go(p, "simulate")
     ELSE Go(p, "finalize") /\ UNCHANGED <<shared, private>>

\* The states of a plate until the changes are small.
TransferHeat(job) == CHOOSE k \in 1..MaxStates : Heat!Balanced(job, k)

\* fill_matrix(), transfer_heat() and write_binary_matrix(): the plate is read,
\* brought to its balance and written to its file; one of the files may fail.
Simulate(p) ==
  /\ pc[p] = "simulate"
  /\ \/ /\ Plates[private.job[p].plate_name] # NoPlate
        /\ shared' = [shared EXCEPT !.binaries = @ \cup
             {<<private.job[p].plate_name, TransferHeat(private.job[p])>>}]
        /\ Go(p, "send_line")
        /\ UNCHANGED private
     \/ Crash

ReportLine(job) ==
  [plate_name |-> job.plate_name, k |-> TransferHeat(job),
   time |-> job.delta_time * TransferHeat(job)]

SendLine(p) ==
  /\ pc[p] = "send_line"
  /\ shared' = [shared EXCEPT !.channels = Sent(@, p, 0, ReportLine(private.job[p]))]
  /\ Go(p, "receive_job")
  /\ UNCHANGED private

Finalize(p) ==
  /\ pc[p] = "finalize"
  /\ Go(p, "done")
  /\ UNCHANGED <<shared, private>>

Manager == AnalyzeArguments \/ SendCount \/ SendJob \/ Collect \/ WriteReport
Worker(p) == ReceiveCount(p) \/ ReceiveJob(p) \/ Simulate(p) \/ SendLine(p)

Next ==
  \E p \in Processes :
    /\ Returned(shared.channels, shared.eager, p)
    /\ \/ p = 0 /\ Manager
       \/ p # 0 /\ Worker(p)
       \/ Finalize(p)

-----------------------------------------------------------------------------

\* The lines arrive in the order of the job file, each of a job whose plate has
\* been written, and the report has all of them.  Of the report of a single
\* process nothing is stated: the readme (lines 31 to 40) has it simulate the
\* job, and the code, which has no worker then, writes the report empty.
LinesInOrder ==
  /\ \A i \in DOMAIN shared.results : shared.results[i] = ReportLine(shared.info[i])
  /\ Workers # {} /\ pc[0] \in {"finalize", "done"} =>
       Len(shared.report) = Len(shared.info)
  /\ \A i \in DOMAIN shared.results :
       <<shared.results[i].plate_name, shared.results[i].k>> \in shared.binaries

\* Where sends wait for their receiver, a worker with two jobs or more blocks
\* with its first line while process 0 still sends it the second job.
Jammed ==
  /\ ~shared.eager
  /\ private.worker \in Workers /\ Load(private.worker) >= 2
  /\ Waiting(shared.channels, 0, private.worker)
  /\ Waiting(shared.channels, private.worker, 0)

Halted ==
  \/ \A p \in Processes : pc[p] = "done"
  \/ \A p \in Processes : pc[p] = "crashed"
  \/ Jammed

=============================================================================
