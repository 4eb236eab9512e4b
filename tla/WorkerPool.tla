----------------------------- MODULE WorkerPool -----------------------------
(***************************************************************************)
(* A batch of the autotest runner (src/autotest/atrunner/at_runner.cpp) on *)
(* its worker threads (testfileworker.cpp). Every block under wait_mtx is  *)
(* one step; cond.wait tests its condition, sleeps and tests again after a *)
(* notification, which only a sleeping worker receives.                    *)
(***************************************************************************)
EXTENDS Integers, Sequences, FiniteSetsExt

CONSTANTS Workers,     (* the workers when used_worker_count > 1          *)
          MaxFiles,    (* bound: files of a batch                          *)
          Results      (* the numbers of errors a test file may have       *)

ASSUME WorkerPoolAssumption ==
  Workers # {} /\ MaxFiles \in Nat /\ Results \subseteq Nat

VARIABLES main,        (* the distributor: where it is and its locals      *)
          worker,      (* worker[w]: an OTestFileWorker                    *)
          file         (* file[i]: an OTestFile                            *)

poolVars == <<main, worker, file>>

None == 0              (* testfile = nullptr                               *)

NewWorker(place) == [at |-> place, busy |-> FALSE, run_requested |-> FALSE,
                     terminate_requested |-> FALSE, testfile |-> None, ltestfile |-> None]

PoolInit ==
  /\ main = [at |-> "start", cur |-> "none", fileidx |-> 1, todo |-> {}, allbusy |-> TRUE, total |-> 0, exit |-> -1]
  /\ worker = [w \in Workers |-> NewWorker("none")]
  /\ file = <<>>

-----------------------------------------------------------------------------
(* Notification: whoever sleeps in cond.wait tests its condition again.    *)
Notified(v) == IF v.at = "asleep" THEN [v EXCEPT !.at = "test"] ELSE v

IdleNotBusy(w) == ~worker[w].busy  (* as it would be without the request *)
Idle(w) == ~worker[w].busy /\ ~worker[w].run_requested /\ worker[w].testfile = None

(* RunBatch until the files are known: the result of each file is          *)
(* whatever its tests will find.                                           *)
CollectTestFiles(parallel, n, result) ==
  /\ main.at = "start"
  /\ file' = [i \in 1..n |-> [errors |-> result[i], processed |-> FALSE, times |-> 0]]
  /\ main' = [main EXCEPT !.at = IF parallel THEN "distribute" ELSE "sequential", !.todo = Workers]
  /\ worker' = IF parallel THEN [w \in Workers |-> NewWorker("test")] ELSE worker

ProcessBatchFilesSequential ==
  /\ main.at = "sequential"
  /\ IF main.fileidx > Len(file)
     THEN main' = [main EXCEPT !.at = "results"] /\ file' = file
     ELSE /\ file' = [file EXCEPT ![main.fileidx].processed = TRUE, ![main.fileidx].times = @ + 1]
          /\ main' = [main EXCEPT !.fileidx = @ + 1]
  /\ UNCHANGED worker

(* One turn of the inner loop: IsIdle and, in a block of its own,          *)
(* ProcessFile. The distributor sleeps 2 ms after a round without an idle  *)
(* worker.                                                                 *)
NextWorker(w) ==
  /\ main.at = "distribute" /\ w \in main.todo /\ main.fileidx <= Len(file)
  /\ main' = IF Idle(w) THEN [main EXCEPT !.at = "give", !.cur = w]
                        ELSE [main EXCEPT !.todo = @ \ {w}]
  /\ UNCHANGED <<worker, file>>

ProcessFile(w) ==
  /\ main.at = "give" /\ main.cur = w
  /\ IF Idle(w)
     THEN /\ worker' = [worker EXCEPT ![w] = Notified([@ EXCEPT !.testfile = main.fileidx, !.run_requested = TRUE])]
          /\ main' = [main EXCEPT !.at = "distribute", !.todo = @ \ {w}, !.fileidx = @ + 1]
     ELSE worker' = worker /\ main' = [main EXCEPT !.at = "distribute", !.todo = @ \ {w}]
  /\ UNCHANGED file

NextRound ==
  /\ main.at = "distribute"
  /\ main.todo = {} \/ main.fileidx > Len(file)
  /\ main' = [main EXCEPT !.at = IF main.fileidx > Len(file) THEN "wait" ELSE "distribute",
                          !.todo = Workers, !.allbusy = TRUE]
  /\ UNCHANGED <<worker, file>>

(* The wait for the last completions: a round over the workers.            *)
WaitIdle(w) ==
  /\ main.at = "wait" /\ w \in main.todo
  /\ main' = [main EXCEPT !.todo = @ \ {w}, !.allbusy = @ /\ Idle(w)]
  /\ UNCHANGED <<worker, file>>

WaitRound ==
  /\ main.at = "wait" /\ main.todo = {}
  /\ main' = [main EXCEPT !.at = IF main.allbusy THEN "stop" ELSE "wait", !.todo = Workers, !.allbusy = TRUE]
  /\ UNCHANGED <<worker, file>>

(* StopWorkers: one worker after the other, Stop requests the end and      *)
(* joins the thread.                                                       *)
Stop(w) ==
  /\ main.at = "stop" /\ w \in main.todo
  /\ worker' = [worker EXCEPT ![w] = Notified([@ EXCEPT !.terminate_requested = TRUE])]
  /\ main' = [main EXCEPT !.at = "join", !.cur = w]
  /\ UNCHANGED file

Join(w) ==
  /\ main.at = "join" /\ main.cur = w /\ worker[w].at = "ended"
  /\ main' = [main EXCEPT !.at = IF main.todo = {w} THEN "results" ELSE "stop", !.todo = @ \ {w}]
  /\ UNCHANGED <<worker, file>>

(* ProcessResults adds the errors up and RunBatch returns the sum, of      *)
(* which the exit status of the process keeps eight bits.                  *)
ProcessResults ==
  /\ main.at = "results"
  /\ LET sum == MapThenSumSet(LAMBDA i : file[i].errors, {i \in DOMAIN file : file[i].processed})
     IN  main' = [main EXCEPT !.at = "done", !.total = sum, !.exit = sum % 256]
  /\ UNCHANGED <<worker, file>>
-----------------------------------------------------------------------------
(* OTestFileWorker::ThreadFunc                                             *)
Take(w) ==
  /\ worker[w].at = "test"
  /\ LET v == worker[w]
     IN  worker' = [worker EXCEPT ![w] =
           IF v.run_requested
           THEN [v EXCEPT !.at = "work", !.busy = TRUE, !.run_requested = FALSE, !.ltestfile = v.testfile]
           ELSE [v EXCEPT !.at = IF v.terminate_requested THEN "ended" ELSE "asleep"]]
  /\ UNCHANGED <<main, file>>

Work(w) ==
  /\ worker[w].at = "work"
  /\ worker' = [worker EXCEPT ![w].at = "finish"]
  /\ LET f == worker[w].ltestfile
     IN  file' = IF f = None \/ file[f].processed THEN file
                 ELSE [file EXCEPT ![f].processed = TRUE, ![f].times = @ + 1]
  /\ UNCHANGED main

FinishFile(w) ==
  /\ worker[w].at = "finish"
  /\ worker' = [worker EXCEPT ![w].at = "test", ![w].testfile = None, ![w].busy = FALSE]
  /\ UNCHANGED <<main, file>>

MainStep ==
  \/ ProcessBatchFilesSequential \/ NextRound \/ WaitRound \/ ProcessResults
  \/ \E w \in Workers : NextWorker(w) \/ ProcessFile(w) \/ WaitIdle(w) \/ Stop(w) \/ Join(w)

WorkerStep(w) == Take(w) \/ Work(w) \/ FinishFile(w)

PoolNext ==
  \/ \E n \in 0..MaxFiles : \E result \in [1..n -> Results], parallel \in BOOLEAN : CollectTestFiles(parallel, n, result)
  \/ MainStep
  \/ \E w \in Workers : WorkerStep(w)

(* Every thread is scheduled and every test file has a process timeout;    *)
(* nobody is obliged to start a batch.                                     *)
PoolLive == WF_poolVars(MainStep) /\ \A w \in Workers : WF_poolVars(WorkerStep(w))

PoolSpec == PoolInit /\ [][PoolNext]_poolVars /\ PoolLive
-----------------------------------------------------------------------------
(* The types of the pool.                                                  *)
PoolTypeOK ==
  /\ main.at \in {"start", "sequential", "distribute", "give", "wait", "stop", "join", "results", "done"}
  /\ main.todo \subseteq Workers /\ main.fileidx \in 1..(MaxFiles + 1)
  /\ \A w \in Workers : /\ worker[w].at \in {"none", "test", "asleep", "work", "finish", "ended"}
                        /\ {worker[w].testfile, worker[w].ltestfile} \subseteq 0..MaxFiles

(* When the results are read every file was processed exactly once, no     *)
(* matter which worker was free when, and no worker can still write to a   *)
(* test file (ProcessBatchFilesParallel, Stop).                            *)
ResultsComplete ==
  main.at \in {"results", "done"} =>
     /\ \A i \in DOMAIN file : file[i].times = 1
     /\ \A w \in Workers : worker[w].at \in {"none", "ended"}

(* No two workers have the same file, and a file given to a worker is not  *)
(* replaced before the worker has taken it.                                *)
OneWorkerPerFile ==
  \A w \in Workers :
     /\ worker[w].run_requested => worker[w].testfile # None
     /\ worker[w].at = "work" => \A v \in Workers \ {w} :
           worker[v].at = "work" => worker[v].ltestfile # worker[w].ltestfile

(* A batch that has collected its files ends with a status: no             *)
(* notification is lost and no join waits for a worker that sleeps.        *)
BatchEnds == main.at # "start" ~> main.at = "done"
=============================================================================
