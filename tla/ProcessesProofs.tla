--------------------------- MODULE ProcessesProofs ---------------------------
(***************************************************************************)
(* What the run over the four components that work with other processes    *)
(* checks, for every value of their constants.                             *)
(*                                                                         *)
(* The worker pool: every test file of a batch is processed exactly once,  *)
(* for any number of workers and files.  The files before fileidx are      *)
(* those given away, each is processed or is the testfile of one worker,   *)
(* and a worker's testfile is processed exactly while the worker is about  *)
(* to forget it; when every worker is idle nothing is left but processed   *)
(* files, and an idle worker stays idle once no file is given any more.    *)
(*                                                                         *)
(* The language server: the tables are written only by an analysis, an     *)
(* analysis looks at every open document, and whatever changes a document  *)
(* is followed by one in the same step; before the client has said it is   *)
(* initialized there are no documents to be wrong about.                   *)
(*                                                                         *)
(* The composition: a behaviour takes the steps of one component only, and *)
(* keeps its inductive invariant.                                          *)
(***************************************************************************)
EXTENDS MCProcesses, RunnerProofs, SequenceTheorems, FiniteSetTheorems

TestFiles == [errors : Nat, processed : BOOLEAN, times : Nat]

MainRecords(total, exit) ==
  [at : {"start", "sequential", "distribute", "give", "wait", "stop", "join", "results", "done"},
   cur : Workers \cup {"none"}, fileidx : Nat, todo : SUBSET Workers, allbusy : BOOLEAN,
   total : {total}, exit : {exit}]

MainType == main \in MainRecords(main.total, main.exit)

WorkerRecords ==
  [at : {"none", "test", "asleep", "work", "finish", "ended"},
   busy : BOOLEAN, run_requested : BOOLEAN, terminate_requested : BOOLEAN,
   testfile : 0 .. MaxFiles, ltestfile : 0 .. MaxFiles]

WorkerType == worker \in [Workers -> WorkerRecords]

FileType ==
  /\ file \in Seq(TestFiles) /\ Len(file) <= MaxFiles
  /\ main.fileidx \in 1 .. Len(file) + 1

(* A worker has a file from the request until it has finished with it.     *)
WorkerOK(w) ==
  /\ worker[w].busy <=> worker[w].at \in {"work", "finish"}
  /\ worker[w].busy => worker[w].ltestfile = worker[w].testfile /\ ~worker[w].run_requested
  /\ worker[w].testfile # None <=> worker[w].run_requested \/ worker[w].busy
  /\ worker[w].testfile # None => /\ worker[w].testfile < main.fileidx
                                  /\ file[worker[w].testfile].processed <=> worker[w].at = "finish"

Distinct ==
  \A v, w \in Workers : v # w /\ worker[v].testfile = worker[w].testfile => worker[v].testfile = None

FileOK(i) ==
  /\ file[i].times = IF file[i].processed THEN 1 ELSE 0
  /\ i >= main.fileidx => ~file[i].processed
  /\ i < main.fileidx => file[i].processed \/ \E w \in Workers : worker[w].testfile = i

Stopped(w) == Idle(w) /\ worker[w].at \in {"none", "ended"}

(* What the distributor knows at each place.                               *)
Phases ==
  /\ main.at \in {"start", "sequential"} => \A w \in Workers : worker[w] = NewWorker("none")
  /\ main.at = "start" => file = <<>> /\ main.fileidx = 1
  /\ main.at = "give" => main.cur \in Workers /\ main.fileidx <= Len(file)
  /\ main.at \in {"wait", "stop", "join", "results", "done"} => main.fileidx > Len(file)
  /\ main.at = "wait" /\ main.allbusy => \A w \in Workers \ main.todo : Idle(w)
  /\ main.at \in {"stop", "join"} => \A w \in Workers : Idle(w) /\ (w \notin main.todo => Stopped(w))
  /\ main.at = "join" => main.cur \in main.todo
  /\ main.at \in {"results", "done"} => \A w \in Workers : Stopped(w)

PoolIInv ==
  /\ MainType /\ WorkerType /\ FileType
  /\ \A w \in Workers : WorkerOK(w)
  /\ Distinct
  /\ \A i \in 1 .. Len(file) : FileOK(i)
  /\ Phases

HIDE ProcessRunnerAssumption
USE WorkerPoolAssumption DEF None, NewWorker, Idle, Stopped, Notified

LEMMA FunctionIsSeq ==
  ASSUME NEW S, NEW n \in Nat, NEW s \in [1 .. n -> S]
  PROVE  s \in Seq(S) /\ Len(s) = n
  <1>1. s \in Seq(S)
    BY SeqDef
  <1>2. DOMAIN s = 1 .. n /\ DOMAIN s = 1 .. Len(s) /\ Len(s) \in Nat
    BY <1>1, LenProperties
  <1>3. QED
    BY <1>1, <1>2

LEMMA PoolInitIInv == PoolInit => PoolIInv
  <1> SUFFICES ASSUME PoolInit PROVE PoolIInv
    OBVIOUS
  <1> USE DEF PoolInit
  <1>1. MainType /\ WorkerType
    BY DEF MainType, MainRecords, WorkerType, WorkerRecords
  <1>2. file \in Seq(TestFiles) /\ Len(file) = 0
    OBVIOUS
  <1>3. FileType /\ \A i \in 1 .. Len(file) : FileOK(i)
    BY <1>2 DEF FileType
  <1>4. Distinct /\ Phases /\ \A w \in Workers : WorkerOK(w)
    BY DEF Distinct, Phases, WorkerOK
  <1>5. QED
    BY <1>1, <1>3, <1>4 DEF PoolIInv
-----------------------------------------------------------------------------
LEMMA CollectIInv ==
  ASSUME PoolIInv, NEW n \in 0 .. MaxFiles, NEW result \in [1 .. n -> Results], NEW parallel \in BOOLEAN,
         CollectTestFiles(parallel, n, result)
  PROVE  PoolIInv'
  <1> USE DEF CollectTestFiles
  <1>1. MainType' /\ WorkerType'
    <2>1. MainType'
      BY DEF PoolIInv, MainType, MainRecords
    <2>2. WorkerType'
      BY DEF PoolIInv, WorkerType, WorkerRecords
    <2>3. QED
      BY <2>1, <2>2
  <1>2. file' \in Seq(TestFiles) /\ Len(file') = n
    <2>1. \A i \in 1 .. n : [errors |-> result[i], processed |-> FALSE, times |-> 0] \in TestFiles
      BY DEF TestFiles
    <2>2. n \in Nat
      OBVIOUS
    <2>3. QED
      BY <2>1, <2>2, FunctionIsSeq, file' \in [1 .. n -> TestFiles]
  <1>3. \A i \in 1 .. n : file'[i].times = 0 /\ ~file'[i].processed
    OBVIOUS
  <1>4. main'.fileidx = 1 /\ main'.at \in {"sequential", "distribute"}
    BY DEF PoolIInv, MainType, MainRecords, Phases
  <1>5. FileType' /\ \A i \in 1 .. Len(file') : FileOK(i)'
    BY <1>2, <1>3, <1>4 DEF FileType, FileOK
  <1>6. \A w \in Workers : worker'[w].testfile = None /\ ~worker'[w].busy /\ ~worker'[w].run_requested
                           /\ worker'[w].at \in {"none", "test"}
    BY DEF PoolIInv, Phases
  <1>7. Distinct' /\ \A w \in Workers : WorkerOK(w)'
    BY <1>6 DEF Distinct, WorkerOK
  <1>8. Phases'
    <2>1. main'.at = "sequential" => worker' = worker
      BY DEF PoolIInv, MainType, MainRecords
    <2>2. QED
      BY <1>4, <2>1 DEF Phases, PoolIInv
  <1>9. QED
    BY <1>1, <1>5, <1>7, <1>8 DEF PoolIInv
-----------------------------------------------------------------------------
(* The steps of the distributor that touch no worker and no file.          *)
LEMMA MainOnly ==
  ASSUME PoolIInv, UNCHANGED <<worker, file>>, main'.fileidx = main.fileidx, MainType', Phases'
  PROVE  PoolIInv'
  BY DEF PoolIInv, WorkerType, FileType, WorkerOK, Distinct, FileOK

LEMMA LooksIInv ==
  ASSUME PoolIInv, NEW w \in Workers,
         NextWorker(w) \/ NextRound \/ WaitIdle(w) \/ WaitRound \/ Join(w) \/ ProcessResults
  PROVE  PoolIInv'
  <1>1. MainType
    BY DEF PoolIInv
  <1>2. CASE NextWorker(w)
    <2>1. MainType'
      BY <1>1, <1>2 DEF NextWorker, MainType, MainRecords
    <2>2. Phases'
      BY <1>1, <1>2 DEF NextWorker, PoolIInv, MainType, MainRecords, Phases
    <2>3. QED
      BY <1>1, <1>2, <2>1, <2>2, MainOnly DEF NextWorker, MainType, MainRecords
  <1>3. CASE NextRound
    <2>1. MainType'
      BY <1>1, <1>3 DEF NextRound, MainType, MainRecords
    <2>2. Phases'
      BY <1>1, <1>3 DEF NextRound, PoolIInv, MainType, MainRecords, FileType, Phases
    <2>3. QED
      BY <1>1, <1>3, <2>1, <2>2, MainOnly DEF NextRound, MainType, MainRecords
  <1>4. CASE WaitIdle(w)
    <2>1. MainType'
      BY <1>1, <1>4 DEF WaitIdle, MainType, MainRecords
    <2>2. Phases'
      BY <1>1, <1>4 DEF WaitIdle, PoolIInv, MainType, MainRecords, Phases
    <2>3. QED
      BY <1>1, <1>4, <2>1, <2>2, MainOnly DEF WaitIdle, MainType, MainRecords
  <1>5. CASE WaitRound
    <2>1. MainType'
      BY <1>1, <1>5 DEF WaitRound, MainType, MainRecords
    <2>2. Phases'
      BY <1>1, <1>5 DEF WaitRound, PoolIInv, MainType, MainRecords, Phases
    <2>3. QED
      BY <1>1, <1>5, <2>1, <2>2, MainOnly DEF WaitRound, MainType, MainRecords
  <1>6. CASE Join(w)
    <2>1. MainType'
      BY <1>1, <1>6 DEF Join, MainType, MainRecords
    <2>2. Phases'
      BY <1>1, <1>6 DEF Join, PoolIInv, MainType, MainRecords, Phases
    <2>3. QED
      BY <1>1, <1>6, <2>1, <2>2, MainOnly DEF Join, MainType, MainRecords
  <1>7. CASE ProcessResults
    <2>1. PICK sum : main' = [main EXCEPT !.at = "done", !.total = sum, !.exit = sum % 256]
      BY <1>7 DEF ProcessResults
    <2>2. MainType'
      BY <1>1, <2>1, ZenonT(60) DEF MainType, MainRecords
    <2>3. Phases'
      BY <1>1, <1>7, <2>1 DEF ProcessResults, PoolIInv, MainType, MainRecords, Phases
    <2>4. QED
      BY <1>1, <1>7, <2>1, <2>2, <2>3, MainOnly DEF ProcessResults, MainType, MainRecords
  <1>8. QED
    BY <1>2, <1>3, <1>4, <1>5, <1>6, <1>7
-----------------------------------------------------------------------------
(* The record file[i] once its tests were run.                             *)
Processed(i) == [file EXCEPT ![i].processed = TRUE, ![i].times = @ + 1]

LEMMA ProcessedRecord ==
  ASSUME NEW r \in TestFiles, NEW n \in Nat
  PROVE  [r EXCEPT !.processed = TRUE, !.times = n] \in TestFiles
  BY Zenon DEF TestFiles

LEMMA ProcessedFile ==
  ASSUME FileType, NEW i \in 1 .. Len(file), file' = Processed(i)
  PROVE  /\ file' \in Seq(TestFiles) /\ Len(file') = Len(file)
         /\ \A j \in 1 .. Len(file) :
               /\ file'[j].processed <=> j = i \/ file[j].processed
               /\ file'[j].times = IF j = i THEN file[i].times + 1 ELSE file[j].times
  <1> DEFINE e == [file[i] EXCEPT !.processed = TRUE, !.times = file[i].times + 1]
  <1>1. /\ file \in [1 .. Len(file) -> TestFiles] /\ Len(file) \in Nat
    BY LenProperties DEF FileType
  <1>2. file[i] \in TestFiles /\ file[i].times \in Nat
    BY <1>1 DEF TestFiles
  <1>3. e \in TestFiles /\ file' = [file EXCEPT ![i] = e]
    <2>1. e \in TestFiles
      BY <1>2, file[i].times + 1 \in Nat, ProcessedRecord
    <2>2. file' = [file EXCEPT ![i] = e]
      BY DEF Processed
    <2>3. QED
      BY <2>1, <2>2
  <1>4. file' \in [1 .. Len(file) -> TestFiles]
    BY <1>1, <1>3
  <1>5. file' \in Seq(TestFiles) /\ Len(file') = Len(file)
    BY <1>1, <1>4, FunctionIsSeq
  <1>6. ASSUME NEW j \in 1 .. Len(file)
        PROVE  /\ file'[j].processed <=> j = i \/ file[j].processed
               /\ file'[j].times = IF j = i THEN file[i].times + 1 ELSE file[j].times
    <2>1. CASE j = i
      <3>1. file'[j] = e
        BY <1>1, <1>3, <2>1
      <3>2. QED
        BY <1>2, <2>1, <3>1 DEF TestFiles
    <2>2. CASE j # i
      BY <1>1, <1>3, <2>2
    <2>3. QED
      BY <2>1, <2>2
  <1>7. QED
    BY <1>5, <1>6

LEMMA SequentialIInv ==
  ASSUME PoolIInv, ProcessBatchFilesSequential
  PROVE  PoolIInv'
  <1> USE DEF ProcessBatchFilesSequential
  <1>1. MainType /\ FileType /\ Len(file) \in Nat
    BY LenProperties DEF PoolIInv, FileType
  <1>2. MainType'
    BY <1>1 DEF MainType, MainRecords
  <1>3. \A w \in Workers : worker[w] = NewWorker("none")
    BY DEF PoolIInv, Phases
  <1>4. CASE main.fileidx > Len(file)
    <2>1. Phases'
      BY <1>1, <1>3, <1>4 DEF PoolIInv, MainType, MainRecords, Phases
    <2>2. QED
      BY <1>1, <1>2, <1>4, <2>1, MainOnly DEF MainType, MainRecords
  <1>5. CASE main.fileidx <= Len(file)
    <2>1. main.fileidx \in 1 .. Len(file) /\ file' = Processed(main.fileidx)
      BY <1>1, <1>5 DEF FileType, Processed
    <2>2. main'.fileidx = main.fileidx + 1 /\ main'.at = "sequential"
      BY <1>1, <1>5 DEF MainType, MainRecords
    <2>3. FileType'
      BY <1>1, <2>1, <2>2, ProcessedFile DEF FileType
    <2>4. ASSUME NEW i \in 1 .. Len(file') PROVE FileOK(i)'
      <3>1. i \in 1 .. Len(file) /\ FileOK(i)
        BY <1>1, <2>1, ProcessedFile DEF PoolIInv
      <3>2. QED
        BY <1>1, <2>1, <2>2, <3>1, ProcessedFile DEF FileOK
    <2>5. Phases'
      BY <1>3, <2>2 DEF Phases
    <2>6. WorkerType' /\ Distinct' /\ \A w \in Workers : WorkerOK(w)'
      BY <1>3 DEF PoolIInv, WorkerType, Distinct, WorkerOK
    <2>7. QED
      BY <1>2, <2>3, <2>4, <2>5, <2>6 DEF PoolIInv
  <1>6. QED
    BY <1>1, <1>4, <1>5 DEF FileType
-----------------------------------------------------------------------------
(* The distributor gives a file to a worker it found idle.                 *)
LEMMA ProcessFileIInv ==
  ASSUME PoolIInv, NEW w \in Workers, ProcessFile(w)
  PROVE  PoolIInv'
  <1> USE DEF ProcessFile
  <1>1. MainType /\ WorkerType /\ FileType /\ Len(file) \in Nat
    BY LenProperties DEF PoolIInv, FileType
  <1>2. MainType'
    <2>1. main.fileidx + 1 \in Nat /\ main.todo \ {w} \in SUBSET Workers
      BY <1>1 DEF MainType, MainRecords
    <2>2. CASE Idle(w)
      <3>1. main' = [main EXCEPT !.at = "distribute", !.todo = main.todo \ {w}, !.fileidx = main.fileidx + 1]
        BY <2>2
      <3>2. main'.total = main.total /\ main'.exit = main.exit
        BY <1>1, <3>1 DEF MainType, MainRecords
      <3>3. main' \in MainRecords(main.total, main.exit)
        BY <1>1, <2>1, <3>1, Zenon DEF MainType, MainRecords
      <3>4. QED
        BY <3>2, <3>3 DEF MainType
    <2>3. CASE ~Idle(w)
      <3>1. main' = [main EXCEPT !.at = "distribute", !.todo = main.todo \ {w}]
        BY <2>3
      <3>2. main'.total = main.total /\ main'.exit = main.exit
        BY <1>1, <3>1 DEF MainType, MainRecords
      <3>3. main' \in MainRecords(main.total, main.exit)
        BY <1>1, <2>1, <3>1, Zenon DEF MainType, MainRecords
      <3>4. QED
        BY <3>2, <3>3 DEF MainType
    <2>4. QED
      BY <2>2, <2>3
  <1>3. CASE ~Idle(w)
    <2>1. Phases'
      BY <1>1, <1>3 DEF PoolIInv, MainType, MainRecords, Phases
    <2>2. QED
      BY <1>1, <1>2, <1>3, <2>1, MainOnly DEF MainType, MainRecords
  <1>4. CASE Idle(w)
    <2> DEFINE f == main.fileidx
    <2>1. f \in 1 .. Len(file) /\ f \in 1 .. MaxFiles
      BY <1>1 DEF PoolIInv, Phases, FileType
    <2>2. main'.fileidx = f + 1 /\ main'.at = "distribute"
      BY <1>1, <1>4 DEF MainType, MainRecords
    <2> DEFINE given == [worker[w] EXCEPT !.testfile = f, !.run_requested = TRUE]
    <2>13. worker' = [worker EXCEPT ![w] = IF given.at = "asleep" THEN [given EXCEPT !.at = "test"] ELSE given]
      BY <1>4
    <2>14. worker[w].at \notin {"work", "finish"}
      BY <1>4 DEF PoolIInv, WorkerOK
    <2>3. WorkerType'
      <3>1. worker[w] \in WorkerRecords /\ f \in 0 .. MaxFiles
        BY <1>1, <2>1 DEF WorkerType
      <3>2. given \in WorkerRecords
        BY <3>1, Zenon DEF WorkerRecords
      <3>3. Notified(given) \in WorkerRecords
        BY <3>2 DEF WorkerRecords
      <3>4. QED
        BY <1>1, <2>13, <3>3 DEF WorkerType
    <2>4. /\ worker'[w].testfile = f /\ worker'[w].run_requested
          /\ worker'[w].busy = worker[w].busy
          /\ worker'[w].at \notin {"work", "finish"}
      BY <1>1, <2>13, <2>14 DEF WorkerType, WorkerRecords
    <2>5. \A v \in Workers \ {w} : worker'[v] = worker[v]
      BY <1>1, <1>4 DEF WorkerType
    <2>6. ~file[f].processed
      BY <2>1 DEF PoolIInv, FileOK
    <2>7. ASSUME NEW v \in Workers PROVE WorkerOK(v)'
      <3>1. CASE v = w
        BY <1>4, <2>1, <2>2, <2>4, <2>6, <3>1 DEF WorkerOK
      <3>2. CASE v # w
        <4>1. WorkerOK(v) /\ worker[v].testfile \in 0 .. MaxFiles
          BY <1>1 DEF PoolIInv, WorkerType, WorkerRecords
        <4>2. QED
          BY <2>1, <2>2, <2>5, <3>2, <4>1 DEF WorkerOK
      <3>3. QED
        BY <3>1, <3>2
    <2>8. Distinct'
      <3>1. \A v \in Workers \ {w} : worker[v].testfile # f
        BY <1>1, <2>1 DEF PoolIInv, WorkerOK, WorkerType
      <3>2. QED
        BY <2>4, <2>5, <3>1 DEF PoolIInv, Distinct
    <2>9. FileType'
      BY <1>1, <2>1, <2>2 DEF FileType
    <2>10. ASSUME NEW i \in 1 .. Len(file') PROVE FileOK(i)'
      <3>1. FileOK(i)
        BY DEF PoolIInv
      <3>2. i < f => file[i].processed \/ \E v \in Workers \ {w} : worker[v].testfile = i
        BY <1>4, <3>1 DEF FileOK
      <3>3. QED
        BY <2>1, <2>2, <2>4, <2>5, <3>1, <3>2 DEF FileOK
    <2>11. Phases'
      BY <2>2 DEF Phases
    <2>12. QED
      BY <1>2, <2>3, <2>7, <2>8, <2>9, <2>10, <2>11 DEF PoolIInv
  <1>5. QED
    BY <1>3, <1>4
-----------------------------------------------------------------------------
(* A worker that changes its place keeps everything else.                  *)
LEMMA OtherPlace ==
  ASSUME NEW r \in WorkerRecords, NEW place, NEW s, s = [r EXCEPT !.at = place]
  PROVE  /\ s.testfile = r.testfile /\ s.ltestfile = r.ltestfile /\ s.at = place
         /\ s.busy = r.busy /\ s.run_requested = r.run_requested
  BY DEF WorkerRecords

LEMMA StopIInv ==
  ASSUME PoolIInv, NEW w \in Workers, Stop(w)
  PROVE  PoolIInv'
  <1> USE DEF Stop
  <1> DEFINE v == [worker[w] EXCEPT !.terminate_requested = TRUE]
  <1>1. MainType /\ WorkerType /\ FileType /\ worker[w] \in WorkerRecords /\ v \in WorkerRecords
    <2>1. worker[w] \in WorkerRecords
      BY DEF PoolIInv, WorkerType
    <2>2. v \in WorkerRecords
      BY <2>1, Zenon DEF WorkerRecords
    <2>3. QED
      BY <2>1, <2>2 DEF PoolIInv
  <1>2. MainType'
    BY <1>1 DEF MainType, MainRecords
  <1>3. worker' = [worker EXCEPT ![w] = Notified(v)] /\ Notified(v) \in WorkerRecords
    BY <1>1 DEF WorkerRecords
  <1>4. WorkerType'
    BY <1>1, <1>3 DEF WorkerType
  <1>5. /\ \A u \in Workers \ {w} : worker'[u] = worker[u]
        /\ worker'[w].testfile = worker[w].testfile /\ worker'[w].ltestfile = worker[w].ltestfile
        /\ worker'[w].busy = worker[w].busy /\ worker'[w].run_requested = worker[w].run_requested
        /\ worker'[w].at = IF worker[w].at = "asleep" THEN "test" ELSE worker[w].at
    <2>1. worker'[w] = Notified(v) /\ \A u \in Workers \ {w} : worker'[u] = worker[u]
      BY <1>1, <1>3 DEF WorkerType
    <2>2. /\ v.testfile = worker[w].testfile /\ v.ltestfile = worker[w].ltestfile /\ v.at = worker[w].at
          /\ v.busy = worker[w].busy /\ v.run_requested = worker[w].run_requested
      BY <1>1 DEF WorkerRecords
    <2>3. CASE v.at = "asleep"
      <3> HIDE DEF v, Stop
      <3>1. worker'[w] = [v EXCEPT !.at = "test"]
        BY <2>1, <2>3
      <3>2. /\ worker'[w].testfile = v.testfile /\ worker'[w].ltestfile = v.ltestfile /\ worker'[w].at = "test"
            /\ worker'[w].busy = v.busy /\ worker'[w].run_requested = v.run_requested
        <4>1. v \in WorkerRecords
          BY <1>1
        <4>2. QED
          BY <3>1, <4>1, OtherPlace
      <3>3. QED
        BY <2>1, <2>2, <2>3, <3>2
    <2>4. CASE v.at # "asleep"
      <3>1. worker'[w] = v
        BY <2>1, <2>4
      <3>2. QED
        BY <2>1, <2>2, <2>4, <3>1
    <2>5. QED
      BY <2>3, <2>4
  <1>6. main'.fileidx = main.fileidx /\ main'.at = "join" /\ main'.cur = w /\ main'.todo = main.todo
    BY <1>1 DEF MainType, MainRecords
  <1>7. ASSUME NEW u \in Workers PROVE WorkerOK(u)'
    <2>1. WorkerOK(u)
      BY DEF PoolIInv
    <2>2. QED
      BY <1>5, <1>6, <2>1 DEF WorkerOK
  <1>8. Distinct' /\ FileType' /\ \A i \in 1 .. Len(file') : FileOK(i)'
    BY <1>5, <1>6 DEF PoolIInv, Distinct, FileType, FileOK
  <1>9. Phases'
    <2>1. main.fileidx > Len(file) /\ \A u \in Workers : Idle(u) /\ (u \notin main.todo => Stopped(u))
      BY DEF PoolIInv, Phases
    <2>2. QED
      BY <1>5, <1>6, <2>1 DEF Phases
  <1>10. QED
    BY <1>2, <1>4, <1>7, <1>8, <1>9 DEF PoolIInv
-----------------------------------------------------------------------------
(* The steps of a worker change main nowhere; no worker that is stopped    *)
(* takes one, and an idle worker can only go to sleep or end.              *)
LEMMA WorkerPhases ==
  ASSUME PoolIInv, NEW w \in Workers, worker[w].at \notin {"none", "ended"}, main' = main, Len(file') = Len(file),
         \A u \in Workers \ {w} : worker'[u] = worker[u], Idle(w) => Idle(w)'
  PROVE  Phases'
  <1>1. main.at \notin {"start", "sequential", "results", "done"}
    BY DEF PoolIInv, Phases
  <1>2. main.at = "wait" /\ main.allbusy => \A u \in Workers \ main.todo : Idle(u)'
    BY DEF PoolIInv, Phases
  <1>3. main.at \in {"stop", "join"} => \A u \in Workers : Idle(u)' /\ (u \notin main.todo => Stopped(u)')
    BY DEF PoolIInv, Phases
  <1>4. QED
    BY <1>1, <1>2, <1>3 DEF PoolIInv, Phases

LEMMA TakeIInv ==
  ASSUME PoolIInv, NEW w \in Workers, Take(w)
  PROVE  PoolIInv'
  <1> USE DEF Take
  <1> DEFINE v == worker[w]
  <1>1. MainType /\ WorkerType /\ FileType /\ v \in WorkerRecords /\ WorkerOK(w)
    BY DEF PoolIInv, WorkerType
  <1>2. MainType' /\ FileType'
    BY <1>1 DEF MainType, FileType
  <1>3. CASE v.run_requested
    <2> DEFINE u == [v EXCEPT !.at = "work", !.busy = TRUE, !.run_requested = FALSE, !.ltestfile = v.testfile]
    <2>1. worker' = [worker EXCEPT ![w] = u]
      BY <1>3
    <2>2. v.testfile \in 0 .. MaxFiles
      BY <1>1 DEF WorkerRecords
    <2>3. u \in WorkerRecords
      BY <1>1, <2>2, Zenon DEF WorkerRecords
    <2>4. WorkerType'
      BY <1>1, <2>1, <2>3 DEF WorkerType
    <2>5. worker'[w] = u /\ \A x \in Workers \ {w} : worker'[x] = worker[x]
      BY <1>1, <2>1 DEF WorkerType
    <2>6. /\ u.at = "work" /\ u.busy /\ ~u.run_requested
          /\ u.testfile = v.testfile /\ u.ltestfile = v.testfile
      BY <1>1 DEF WorkerRecords
    <2>7. ASSUME NEW x \in Workers PROVE WorkerOK(x)'
      <3>1. WorkerOK(x)
        BY DEF PoolIInv
      <3>2. QED
        BY <1>1, <1>3, <2>5, <2>6, <3>1 DEF WorkerOK
    <2>8. Distinct' /\ \A i \in 1 .. Len(file') : FileOK(i)'
      BY <2>5, <2>6 DEF PoolIInv, Distinct, FileOK
    <2>9. Phases'
      BY <1>3, <2>5, WorkerPhases
    <2>10. QED
      BY <1>2, <2>4, <2>7, <2>8, <2>9 DEF PoolIInv
  <1>4. CASE ~v.run_requested
    <2> DEFINE u == [v EXCEPT !.at = IF v.terminate_requested THEN "ended" ELSE "asleep"]
    <2>1. worker' = [worker EXCEPT ![w] = u]
      BY <1>4
    <2>2. u \in WorkerRecords
      BY <1>1 DEF WorkerRecords
    <2>3. WorkerType'
      BY <1>1, <2>1, <2>2 DEF WorkerType
    <2>4. worker'[w] = u /\ \A x \in Workers \ {w} : worker'[x] = worker[x]
      BY <1>1, <2>1 DEF WorkerType
    <2>5. /\ u.at \in {"ended", "asleep"} /\ u.busy = v.busy /\ u.run_requested = v.run_requested
          /\ u.testfile = v.testfile /\ u.ltestfile = v.ltestfile
      BY <1>1 DEF WorkerRecords
    <2>6. ASSUME NEW x \in Workers PROVE WorkerOK(x)'
      <3>1. WorkerOK(x)
        BY DEF PoolIInv
      <3>2. QED
        BY <1>1, <1>4, <2>4, <2>5, <3>1 DEF WorkerOK
    <2>7. Distinct' /\ \A i \in 1 .. Len(file') : FileOK(i)'
      BY <2>4, <2>5 DEF PoolIInv, Distinct, FileOK
    <2>8. Phases'
      BY <2>4, <2>5, WorkerPhases
    <2>9. QED
      BY <1>2, <2>3, <2>6, <2>7, <2>8 DEF PoolIInv
  <1>5. QED
    BY <1>3, <1>4
-----------------------------------------------------------------------------
(* The worker runs the tests of its file.                                  *)
LEMMA WorkIInv ==
  ASSUME PoolIInv, NEW w \in Workers, Work(w)
  PROVE  PoolIInv'
  <1> USE DEF Work
  <1> DEFINE f == worker[w].testfile
             v == [worker[w] EXCEPT !.at = "finish"]
  <1>1. MainType /\ WorkerType /\ FileType /\ Len(file) \in Nat /\ worker[w] \in WorkerRecords
    BY LenProperties DEF PoolIInv, WorkerType, FileType
  <1>2. worker' = [worker EXCEPT ![w] = v] /\ v \in WorkerRecords
    BY <1>1 DEF WorkerRecords
  <1>3. WorkerType'
    BY <1>1, <1>2 DEF WorkerType
  <1>4. worker'[w] = v /\ \A u \in Workers \ {w} : worker'[u] = worker[u]
    BY <1>1, <1>2 DEF WorkerType
  <1>5. /\ v.at = "finish" /\ v.busy = worker[w].busy /\ v.run_requested = worker[w].run_requested
        /\ v.testfile = f /\ v.ltestfile = worker[w].ltestfile
    BY <1>1 DEF WorkerRecords
  <1>6. /\ worker[w].busy /\ ~worker[w].run_requested /\ worker[w].ltestfile = f /\ f # None
        /\ f < main.fileidx /\ ~file[f].processed /\ f \in 1 .. Len(file)
    <2>1. WorkerOK(w) /\ f \in Nat
      BY <1>1 DEF PoolIInv, WorkerRecords
    <2>2. QED
      BY <1>1, <2>1 DEF WorkerOK, FileType
  <1>7. file' = Processed(f)
    BY <1>6 DEF Processed
  <1>8. FileType' /\ Len(file') = Len(file) /\ MainType'
    BY <1>1, <1>6, <1>7, ProcessedFile DEF FileType, MainType
  <1>8a. \A j \in 1 .. Len(file) :
           /\ file'[j].processed <=> j = f \/ file[j].processed
           /\ file'[j].times = IF j = f THEN file[f].times + 1 ELSE file[j].times
    BY <1>1, <1>6, <1>7, ProcessedFile
  <1>9. ASSUME NEW u \in Workers PROVE WorkerOK(u)'
    <2>1. CASE u = w
      <3>1. /\ worker'[w].at = "finish" /\ worker'[w].busy /\ ~worker'[w].run_requested
            /\ worker'[w].testfile = f /\ worker'[w].ltestfile = f
        BY <1>4, <1>5, <1>6
      <3>2. file'[f].processed /\ f < main'.fileidx
        BY <1>1, <1>6, <1>7, ProcessedFile
      <3>3. QED
        BY <1>6, <2>1, <3>1, <3>2 DEF WorkerOK
    <2>2. CASE u # w
      <3>1. WorkerOK(u) /\ worker[u].testfile \in Nat /\ (worker[u].testfile # None => worker[u].testfile # f)
        BY <1>1, <2>2 DEF PoolIInv, Distinct, WorkerType, WorkerRecords
      <3>2. worker[u].testfile # None =>
               worker[u].testfile \in 1 .. Len(file)
               /\ (file'[worker[u].testfile].processed <=> file[worker[u].testfile].processed)
        <4> DEFINE g == worker[u].testfile
        <4>1. ASSUME g # None PROVE g \in 1 .. Len(file)
          BY <1>1, <3>1, <4>1 DEF WorkerOK, FileType, None
        <4>2. g # None => g # f
          BY <3>1
        <4> HIDE DEF f, g
        <4>3. QED
          BY <1>8a, <4>1, <4>2 DEF g
      <3>3. worker'[u] = worker[u] /\ main'.fileidx = main.fileidx
        BY <1>4, <2>2
      <3>4. CASE worker[u].testfile = None
        BY <3>1, <3>3, <3>4 DEF WorkerOK
      <3>5. CASE worker[u].testfile # None
        <4> DEFINE g == worker[u].testfile
        <4> HIDE DEF Work
        <4>1. /\ worker[u].busy <=> worker[u].at \in {"work", "finish"}
              /\ worker[u].busy => worker[u].ltestfile = g /\ ~worker[u].run_requested
              /\ worker[u].run_requested \/ worker[u].busy
              /\ g < main.fileidx /\ (file'[g].processed <=> worker[u].at = "finish")
          BY <3>1, <3>2, <3>5 DEF WorkerOK
        <4>2. QED
          BY <3>3, <3>5, <4>1 DEF WorkerOK
      <3>6. QED
        BY <3>4, <3>5
    <2>3. QED
      BY <2>1, <2>2
  <1>10. Distinct'
    BY <1>4, <1>5 DEF PoolIInv, Distinct
  <1>11. ASSUME NEW i \in 1 .. Len(file') PROVE FileOK(i)'
    <2>1. FileOK(i) /\ i \in 1 .. Len(file)
      BY <1>8 DEF PoolIInv
    <2>2. main.fileidx \in Nat
      BY <1>1 DEF FileType
    <2>3. CASE i = f
      <3>1. file'[i].processed /\ file'[i].times = 1
        <4>1. file[i].times = 0
          BY <1>6, <2>1, <2>3 DEF FileOK
        <4>2. file'[i].processed /\ file'[i].times = file[i].times + 1
          BY <1>8a, <2>1, <2>3
        <4>3. QED
          BY <4>1, <4>2
      <3>2. ~(i >= main'.fileidx)
        BY <1>1, <1>6, <2>2, <2>3
      <3>3. QED
        BY <3>1, <3>2 DEF FileOK
    <2>4. CASE i # f
      <3>1. (file'[i].processed <=> file[i].processed) /\ file'[i].times = file[i].times
        BY <1>8a, <2>1, <2>4
      <3>2. \A u \in Workers : worker[u].testfile = i => worker'[u].testfile = i
        BY <1>4, <1>5
      <3>3. main'.fileidx = main.fileidx
        BY <1>1
      <3>4. QED
        BY <2>1, <3>1, <3>2, <3>3 DEF FileOK
    <2>5. QED
      BY <2>3, <2>4
  <1>12. Phases'
    BY <1>4, <1>5, <1>8, WorkerPhases
  <1>13. QED
    BY <1>3, <1>8, <1>9, <1>10, <1>11, <1>12 DEF PoolIInv

LEMMA FinishFileIInv ==
  ASSUME PoolIInv, NEW w \in Workers, FinishFile(w)
  PROVE  PoolIInv'
  <1> USE DEF FinishFile
  <1> DEFINE f == worker[w].testfile
             v == [worker[w] EXCEPT !.at = "test", !.testfile = None, !.busy = FALSE]
  <1>1. MainType /\ WorkerType /\ FileType /\ worker[w] \in WorkerRecords /\ WorkerOK(w)
    BY DEF PoolIInv, WorkerType
  <1>2. worker' = [worker EXCEPT ![w] = v] /\ v \in WorkerRecords
    <2>1. 0 \in 0 .. MaxFiles
      OBVIOUS
    <2>2. v \in WorkerRecords
      BY <1>1, <2>1, Zenon DEF WorkerRecords
    <2>3. worker' = [worker EXCEPT ![w] = v]
      OBVIOUS
    <2>4. QED
      BY <2>2, <2>3
  <1>3. WorkerType'
    BY <1>1, <1>2 DEF WorkerType
  <1>4. worker'[w] = v /\ \A u \in Workers \ {w} : worker'[u] = worker[u]
    BY <1>1, <1>2 DEF WorkerType
  <1>5. v.at = "test" /\ ~v.busy /\ v.run_requested = worker[w].run_requested /\ v.testfile = None
    BY <1>1 DEF WorkerRecords
  <1>6. worker[w].busy /\ ~worker[w].run_requested /\ file[f].processed
    BY <1>1 DEF WorkerOK
  <1>7. MainType' /\ FileType'
    BY <1>1 DEF MainType, FileType
  <1>8. ASSUME NEW u \in Workers PROVE WorkerOK(u)'
    <2>1. WorkerOK(u)
      BY DEF PoolIInv
    <2>2. QED
      BY <1>4, <1>5, <1>6, <2>1, ZenonT(60) DEF WorkerOK
  <1>9. Distinct'
    <2>1. worker'[w].testfile = None
      BY <1>4, <1>5
    <2>2. ASSUME NEW x \in Workers, NEW y \in Workers, x # y, worker'[x].testfile = worker'[y].testfile
          PROVE  worker'[x].testfile = None
      BY <1>4, <2>1, <2>2, ZenonT(60) DEF PoolIInv, Distinct
    <2>3. QED
      BY <2>2 DEF Distinct
  <1>10. ASSUME NEW i \in 1 .. Len(file') PROVE FileOK(i)'
    <2>1. FileOK(i)
      BY DEF PoolIInv
    <2>2. QED
      BY <1>4, <1>6, <2>1 DEF FileOK
  <1>11. Phases'
    BY <1>4, <1>6, WorkerPhases
  <1>12. QED
    BY <1>3, <1>7, <1>8, <1>9, <1>10, <1>11 DEF PoolIInv
-----------------------------------------------------------------------------
LEMMA PoolStepIInv == PoolIInv /\ [PoolNext]_poolVars => PoolIInv'
  <1> SUFFICES ASSUME PoolIInv, [PoolNext]_poolVars PROVE PoolIInv'
    OBVIOUS
  <1>1. CASE UNCHANGED poolVars
    BY <1>1 DEF poolVars, PoolIInv, MainType, WorkerType, FileType, WorkerOK, Distinct, FileOK, Phases
  <1>2. ASSUME NEW n \in 0 .. MaxFiles, NEW result \in [1 .. n -> Results], NEW parallel \in BOOLEAN,
               CollectTestFiles(parallel, n, result)
        PROVE  PoolIInv'
    BY <1>2, CollectIInv
  <1>3. CASE MainStep
    BY <1>3, WorkerPoolAssumption, LooksIInv, SequentialIInv, ProcessFileIInv, StopIInv DEF MainStep
  <1>4. ASSUME NEW w \in Workers, WorkerStep(w) PROVE PoolIInv'
    BY <1>4, TakeIInv, WorkIInv, FinishFileIInv DEF WorkerStep
  <1>5. QED
    BY <1>1, <1>2, <1>3, <1>4 DEF PoolNext

LEMMA PoolIInvHolds == PoolSpec => []PoolIInv
  BY PoolInitIInv, PoolStepIInv, PTL DEF PoolSpec

(* What the invariant says of the properties.                             *)
LEMMA PoolIInvTypes == PoolIInv => PoolTypeOK
  BY DEF PoolIInv, PoolTypeOK, MainType, MainRecords, WorkerType, WorkerRecords, FileType

LEMMA PoolIInvResults == PoolIInv => ResultsComplete
  <1> SUFFICES ASSUME PoolIInv, main.at \in {"results", "done"} PROVE ResultsComplete
    BY DEF ResultsComplete
  <1>1. main.fileidx > Len(file) /\ \A w \in Workers : Stopped(w)
    BY DEF PoolIInv, Phases
  <1>2. DOMAIN file = 1 .. Len(file) /\ Len(file) \in Nat
    BY LenProperties DEF PoolIInv, FileType
  <1>3. ASSUME NEW i \in 1 .. Len(file) PROVE file[i].times = 1
    <2>1. i < main.fileidx /\ FileOK(i)
      BY <1>1, <1>2 DEF PoolIInv, FileType
    <2>2. QED
      BY <1>1, <2>1 DEF FileOK
  <1>4. QED
    BY <1>1, <1>2, <1>3 DEF ResultsComplete

LEMMA PoolIInvOneWorker == PoolIInv => OneWorkerPerFile
  BY DEF PoolIInv, OneWorkerPerFile, WorkerOK, Distinct

(* The variables of the pool have the types of the program's: the index of *)
(* the next file stays within the batch (ProcessBatchFilesParallel).       *)
THEOREM PoolTypeCorrect == PoolSpec => []PoolTypeOK
  BY PoolIInvTypes, PoolIInvHolds, PTL

(* When the results are added up (ProcessResults) every file was processed *)
(* exactly once and no worker can still change one: the round over the     *)
(* workers before StopWorkers saw each of them idle after the last file    *)
(* was given away.                                                         *)
THEOREM ResultsCorrect == PoolSpec => []ResultsComplete
  BY PoolIInvResults, PoolIInvHolds, PTL

(* A file is tested by one worker, and the request for it is not replaced  *)
(* before the worker has taken it (OTestFileWorker::ProcessFile, Take).    *)
THEOREM OneWorkerCorrect == PoolSpec => []OneWorkerPerFile
  BY PoolIInvOneWorker, PoolIInvHolds, PTL
-----------------------------------------------------------------------------
(* The language server. *)
Flags == [initialize_received : BOOLEAN, initialized : BOOLEAN, shutdown_requested : BOOLEAN,
          should_exit : BOOLEAN, exit_status : {0, 1}]

OpenDocuments(docs) ==
  /\ DOMAIN docs \subseteq Uris
  /\ \A u \in DOMAIN docs : docs[u] \in [version : 1 .. MaxVersion, text : Texts]

Diagnostics == [Uris -> [version : Int, errors : SUBSET Texts]]
NothingShown(docs, shown) == \A u \in Uris \ DOMAIN docs : shown[u].errors = {}

TablesOK ==
  /\ published \in Diagnostics
  /\ DOMAIN document_symbols \subseteq Uris
  /\ IsFiniteSet(DOMAIN namespaces)

ServerIInv ==
  /\ server \in Flags
  /\ server.initialized => server.initialize_received
  /\ OpenDocuments(documents) /\ TablesOK /\ reply \in {"none", "result", "error"}
  /\ ~Ready => DOMAIN documents = {} /\ NothingShown(documents, published)
  /\ FreshDiagnostics /\ SymbolsAreCurrent /\ RequestsAnswered
-----------------------------------------------------------------------------
(* An analysis of the documents docs makes what is shown and known about   *)
(* them current, whichever compilers fail, and keeps quiet about others.   *)
Shown(docs) ==
  \A u \in Uris :
    IF u \in DOMAIN docs
    THEN /\ published'[u].version = docs[u].version
         /\ published'[u].errors = IF docs[u].text \in Broken /\ u \in Sources \ failed'
                                   THEN {docs[u].text} ELSE {}
    ELSE published'[u].errors = {}

Known(docs) ==
  \A u \in DOMAIN docs \cap (Sources \ failed') :
    DOMAIN Symbols[docs[u].text] # {} =>
      u \in DOMAIN document_symbols' /\ document_symbols'[u] = Symbols[docs[u].text]

LEMMA WorkerResult ==
  ASSUME NEW docs, OpenDocuments(docs), NEW u \in Uris, NEW lost
  PROVE  /\ IsFiniteSet(DOMAIN RunWorker(docs, u, lost).symbols)
         /\ RunWorker(docs, u, lost).errors \in SUBSET Texts
  <1>1. TextOf(docs, u) \in Texts
    BY LanguageServerAssumption DEF TextOf, OpenDocuments
  <1>2. IsFiniteSet(DOMAIN EmptyMap)
    BY FS_EmptySet DEF EmptyMap
  <1>3. QED
    BY <1>1, <1>2, LanguageServerAssumption DEF RunWorker

LEMMA AnalysedAreFiles ==
  ASSUME NEW docs, OpenDocuments(docs)
  PROVE  Analysed(docs) \subseteq Uris /\ DOMAIN docs \cap Sources \subseteq Analysed(docs)
  BY LanguageServerAssumption DEF Analysed, OpenDocuments

LEMMA ReanalyzeIsCurrent ==
  ASSUME NEW docs, OpenDocuments(docs),
         NEW base \in Diagnostics, NothingShown(docs, base),
         NEW staged \in BOOLEAN, NEW lost \in SUBSET Analysed(docs),
         Reanalyze(docs, base, staged, lost)
  PROVE  TablesOK' /\ Shown(docs) /\ Known(docs)
  <1> DEFINE analysed == IF staged THEN Analysed(docs) ELSE {}
             results  == [u \in analysed |-> RunWorker(docs, u, lost)]
             named    == UNION {DOMAIN results[u].symbols : u \in DOMAIN results}
  <1>1. analysed \subseteq Uris /\ (staged => DOMAIN docs \cap Sources \subseteq analysed)
    BY AnalysedAreFiles
  <1>2. \A u \in analysed : /\ results[u] = RunWorker(docs, u, lost)
                            /\ IsFiniteSet(DOMAIN results[u].symbols)
                            /\ results[u].errors \in SUBSET Texts
    BY <1>1, WorkerResult
  <1>3. /\ document_symbols' = [u \in {v \in analysed : DOMAIN results[v].symbols # {}} |-> results[u].symbols]
        /\ DOMAIN namespaces' = named
        /\ published' = Published(docs, base, results)
        /\ failed' = IF staged THEN lost ELSE Uris
    BY DEF Reanalyze
  <1>4. \A u \in DOMAIN docs \cap (Sources \ failed') :
          /\ u \in analysed
          /\ results[u].symbols = Symbols[docs[u].text]
          /\ results[u].errors = IF docs[u].text \in Broken THEN {docs[u].text} ELSE {}
    <2> SUFFICES ASSUME NEW u \in DOMAIN docs \cap (Sources \ failed')
                 PROVE  /\ u \in analysed
                        /\ results[u].symbols = Symbols[docs[u].text]
                        /\ results[u].errors = IF docs[u].text \in Broken THEN {docs[u].text} ELSE {}
      OBVIOUS
    <2>1. staged /\ u \in analysed /\ u \notin lost
      BY <1>1, <1>3 DEF OpenDocuments
    <2>2. TextOf(docs, u) = docs[u].text
      BY DEF TextOf
    <2>3. QED
      BY <2>1, <2>2 DEF RunWorker
  <1>5. \A u \in (DOMAIN docs \cap analysed) \ (Sources \ failed') : results[u].errors = {}
    BY <1>1, <1>2, <1>3 DEF RunWorker, Analysed
  <1>10. DOMAIN results = analysed
    OBVIOUS
  <1> HIDE DEF results, analysed
  <1>6. Known(docs)
    BY <1>3, <1>4 DEF Known
  <1>7. Shown(docs)
    <2> SUFFICES ASSUME NEW u \in Uris
                 PROVE  IF u \in DOMAIN docs
                        THEN /\ published'[u].version = docs[u].version
                             /\ published'[u].errors = IF docs[u].text \in Broken /\ u \in Sources \ failed'
                                                       THEN {docs[u].text} ELSE {}
                        ELSE published'[u].errors = {}
      BY DEF Shown
    <2>1. CASE u \notin DOMAIN docs
      BY <2>1, <1>3 DEF Published, NothingShown
    <2>2. CASE u \in DOMAIN docs
      <3>1. published'[u] = [version |-> docs[u].version,
                             errors  |-> IF u \in analysed THEN results[u].errors ELSE {}]
        BY <2>2, <1>3, <1>10 DEF Published
      <3>2. published'[u].version = docs[u].version
        BY <3>1
      <3>3. CASE u \in Sources \ failed'
        BY <2>2, <3>1, <3>3, <1>4
      <3>4. CASE u \notin Sources \ failed'
        BY <2>2, <3>1, <3>4, <1>5
      <3>5. QED
        BY <2>2, <3>2, <3>3, <3>4
    <2>3. QED
      BY <2>1, <2>2
  <1>8. TablesOK'
    <2>1. \A u \in DOMAIN docs : docs[u].version \in Int
      BY LanguageServerAssumption DEF OpenDocuments
    <2>2. published' \in Diagnostics
      BY <1>2, <1>3, <1>10, <2>1 DEF Published, Diagnostics
    <2>3. IsFiniteSet(analysed)
      BY <1>1, FS_Subset, LanguageServerAssumption
    <2>4. IsFiniteSet({DOMAIN results[u].symbols : u \in analysed})
      <3> DEFINE domains == [u \in analysed |-> DOMAIN results[u].symbols]
      <3>1. domains \in Surjection(analysed, {domains[u] : u \in analysed})
        BY DEF Surjection
      <3> HIDE DEF domains
      <3>4. IsFiniteSet({domains[u] : u \in analysed})
        BY <2>3, <3>1, FS_Surjection DEF ExistsSurjection
      <3>2. {domains[u] : u \in analysed} = {DOMAIN results[u].symbols : u \in analysed}
        BY DEF domains
      <3>3. QED
        BY <3>4, <3>2
    <2>5. IsFiniteSet(named)
      BY <1>2, <1>10, <2>4, FS_UNION
    <2>6. QED
      BY <1>1, <1>3, <2>2, <2>5 DEF TablesOK
  <1>9. QED
    BY <1>6, <1>7, <1>8

LEMMA AnalysisIsCurrent ==
  ASSUME NEW docs, OpenDocuments(docs),
         NEW base \in Diagnostics, NothingShown(docs, base), Analysis(docs, base)
  PROVE  TablesOK' /\ Shown(docs) /\ Known(docs)
  BY ReanalyzeIsCurrent DEF Analysis

(* What an analysis restores is what the invariant says of the documents.  *)
LEMMA CurrentIsFresh ==
  ASSUME server' \in Flags, Shown(documents'), Known(documents')
  PROVE  FreshDiagnostics' /\ SymbolsAreCurrent' /\ NothingShown(documents', published')
  BY DEF Shown, Known, FreshDiagnostics, SymbolsAreCurrent, NothingShown
-----------------------------------------------------------------------------
LEMMA ServerInitIInv == ServerInit => ServerIInv
  <1> SUFFICES ASSUME ServerInit PROVE ServerIInv
    OBVIOUS
  <1> USE DEF ServerInit, EmptyMap, Never, NoMessage
  <1>1. server \in Flags /\ ~server.initialized
    BY DEF Flags
  <1>2. DOMAIN documents = {} /\ DOMAIN document_symbols = {} /\ DOMAIN namespaces = {}
    OBVIOUS
  <1>3. published \in Diagnostics /\ \A u \in Uris : published[u].errors = {}
    BY DEF Diagnostics
  <1>4. TablesOK /\ OpenDocuments(documents)
    BY <1>2, <1>3, FS_EmptySet DEF TablesOK, OpenDocuments
  <1>5. ~Ready
    BY <1>1 DEF Ready
  <1>6. RequestsAnswered /\ reply \in {"none", "result", "error"}
    BY DEF RequestsAnswered, Queries
  <1>7. QED
    BY <1>1, <1>2, <1>3, <1>4, <1>5, <1>6 DEF ServerIInv, FreshDiagnostics, SymbolsAreCurrent, NothingShown

(* Steps that change no document and look at none.                         *)
LEMMA QuietStep ==
  ASSUME ServerIInv, server' \in Flags, server'.initialized = server.initialized,
         server'.initialize_received \/ ~server.initialize_received,
         UNCHANGED <<documents, tables>>, RequestsAnswered', reply' \in {"none", "result", "error"}
  PROVE  ServerIInv'
  <1> USE DEF ServerIInv, tables, Ready
  <1>1. TablesOK' /\ OpenDocuments(documents')
    BY DEF TablesOK, OpenDocuments
  <1>2. Ready' = Ready
    BY DEF Flags
  <1>3. FreshDiagnostics' /\ SymbolsAreCurrent'
    BY <1>2 DEF FreshDiagnostics, SymbolsAreCurrent
  <1>4. ~Ready' => DOMAIN documents' = {} /\ NothingShown(documents', published')
    BY <1>2 DEF NothingShown
  <1>5. server'.initialized => server'.initialize_received
    BY DEF Flags
  <1>6. QED
    BY <1>1, <1>2, <1>3, <1>4, <1>5

(* Steps that analyse the documents as they are after the step.            *)
LEMMA AnalysingStep ==
  ASSUME ServerIInv, server' \in Flags, server'.initialized, server'.initialize_received,
         OpenDocuments(documents'), NEW base \in Diagnostics, NothingShown(documents', base),
         Analysis(documents', base), RequestsAnswered', reply' \in {"none", "result", "error"}
  PROVE  ServerIInv'
  <1>1. TablesOK' /\ Shown(documents') /\ Known(documents')
    BY AnalysisIsCurrent
  <1>2. QED
    BY <1>1, CurrentIsFresh DEF ServerIInv, Ready

(* Whatever the server answers, the rule about answers is kept.            *)
LEMMA StepAnswers ==
  ASSUME NEW m \in Messages, Handle(m)
  PROVE  RequestsAnswered' /\ reply' \in {"none", "result", "error"}
  <1> USE DEF Receive, RequestsAnswered, Queries, Lifecycle, Changes
  <1>1. CASE InvalidRequest(m) \/ Initialize(m)
    BY <1>1 DEF InvalidRequest, Initialize
  <1>2. CASE Initialized(m) \/ Shutdown(m) \/ ExitServer(m) \/ Ignore(m)
    BY <1>2 DEF Initialized, Shutdown, ExitServer, Ignore
  <1>3. CASE Refuse(m)
    BY <1>3 DEF Refuse
  <1>4. CASE Dropped(m)
    BY <1>4 DEF Dropped, Messages
  <1>5. CASE Answer(m)
    BY <1>5 DEF Answer, Usable
  <1>6. CASE DidSave(m) \/ DidClose(m) \/ DidOpenOrChange(m)
    BY <1>6 DEF DidSave, DidClose, DidOpenOrChange, Usable, Messages
  <1>7. QED
    BY <1>1, <1>2, <1>3, <1>4, <1>5, <1>6 DEF Handle

LEMMA ServerStepIInv ==
  ASSUME ServerIInv, NEW m \in Messages, Handle(m)
  PROVE  ServerIInv'
  <1>1. RequestsAnswered' /\ reply' \in {"none", "result", "error"}
    BY StepAnswers
  <1>2. server \in Flags /\ OpenDocuments(documents) /\ published \in Diagnostics
    BY DEF ServerIInv, TablesOK
  <1>3. CASE \/ InvalidRequest(m) \/ Initialize(m) \/ Shutdown(m) \/ ExitServer(m) \/ Ignore(m)
             \/ Refuse(m) \/ Dropped(m) \/ Answer(m)
    <2>1. /\ UNCHANGED <<documents, tables>> /\ server' \in Flags
          /\ server'.initialized = server.initialized
          /\ server'.initialize_received \/ ~server.initialize_received
      BY <1>2, <1>3 DEF InvalidRequest, Initialize, Shutdown, ExitServer, Ignore, Refuse, Dropped, Answer, Flags
    <2>2. QED
      BY <2>1, <1>1, QuietStep
  <1>4. CASE Initialized(m)
    <2>1. CASE server.initialize_received /\ ~server.shutdown_requested
      <3>1. server' \in Flags /\ server'.initialized /\ server'.initialize_received
        BY <1>2, <1>4, <2>1 DEF Initialized, Flags
      <3>2. documents' = documents /\ Analysis(documents', published)
        BY <1>4, <2>1 DEF Initialized
      <3>3. NothingShown(documents', published)
        BY <3>2 DEF ServerIInv, FreshDiagnostics, NothingShown
      <3>4. QED
        BY <1>1, <1>2, <3>1, <3>2, <3>3, AnalysingStep
    <2>2. CASE ~(server.initialize_received /\ ~server.shutdown_requested)
      <3>1. UNCHANGED <<server, documents, tables>>
        BY <1>4, <2>2 DEF Initialized
      <3>2. QED
        BY <1>1, <1>2, <3>1, QuietStep DEF Flags
    <2>3. QED
      BY <2>1, <2>2
  <1>5. CASE DidSave(m) \/ DidClose(m) \/ DidOpenOrChange(m)
    <2>1. Ready /\ server' = server /\ m.method \in Changes
      BY <1>5 DEF DidSave, DidClose, DidOpenOrChange, Usable, Refused, Changes, Lifecycle
    <2>2. NothingShown(documents, published)
      BY <2>1 DEF ServerIInv, FreshDiagnostics, NothingShown
    <2>3. CASE UNCHANGED <<documents, tables>>
      BY <1>1, <1>2, <2>1, <2>3, QuietStep
    <2>4. CASE DidSave(m) /\ m.uri \in DOMAIN documents
      <3>1. documents' = documents /\ Analysis(documents', published)
        BY <2>4 DEF DidSave
      <3>2. QED
        BY <1>1, <1>2, <2>1, <2>2, <3>1, AnalysingStep DEF Ready
    <2>5. CASE DidClose(m)
      <3> DEFINE base == IF m.uri \in DOMAIN documents THEN [published EXCEPT ![m.uri].errors = {}] ELSE published
      <3>1. documents' = [u \in DOMAIN documents \ {m.uri} |-> documents[u]] /\ Analysis(documents', base)
        BY <2>5 DEF DidClose
      <3>2. OpenDocuments(documents') /\ DOMAIN documents' = DOMAIN documents \ {m.uri}
        BY <1>2, <3>1 DEF OpenDocuments
      <3>3. base \in Diagnostics
        BY <1>2 DEF Diagnostics
      <3>4. NothingShown(documents', base)
        BY <1>2, <2>2, <3>2 DEF NothingShown, Diagnostics
      <3>5. QED
        BY <1>1, <1>2, <2>1, <3>1, <3>2, <3>3, <3>4, AnalysingStep DEF Ready
    <2>6. CASE DidOpenOrChange(m) /\ m.text # "none"
      <3>1. /\ documents' = [u \in DOMAIN documents \cup {m.uri} |->
                               IF u # m.uri THEN documents[u]
                               ELSE [version |-> NextVersion(u), text |-> m.text]]
            /\ documents'[m.uri].version <= MaxVersion
            /\ Analysis(documents', published)
        BY <2>6 DEF DidOpenOrChange
      <3>2. m.uri \in Uris /\ m.text \in Texts
        BY <2>6 DEF DidOpenOrChange, Usable, Messages
      <3>3. NextVersion(m.uri) \in Nat \ {0}
        BY <1>2, LanguageServerAssumption DEF NextVersion, OpenDocuments
      <3>4. OpenDocuments(documents') /\ DOMAIN documents' = DOMAIN documents \cup {m.uri}
        BY <1>2, <3>1, <3>2, <3>3, LanguageServerAssumption DEF OpenDocuments
      <3>5. NothingShown(documents', published)
        BY <2>2, <3>4 DEF NothingShown
      <3>6. QED
        BY <1>1, <1>2, <2>1, <3>1, <3>4, <3>5, AnalysingStep DEF Ready
    <2>7. QED
      BY <1>5, <2>3, <2>4, <2>5, <2>6 DEF DidSave, DidOpenOrChange
  <1>6. QED
    BY <1>3, <1>4, <1>5 DEF Handle

LEMMA ServerStutters == ServerIInv /\ UNCHANGED serverVars => ServerIInv'
  BY DEF serverVars, tables, ServerIInv, Ready, OpenDocuments, TablesOK, NothingShown,
         FreshDiagnostics, SymbolsAreCurrent, RequestsAnswered

LEMMA ServerIInvHolds == ServerSpec => []ServerIInv
  <1>1. ServerIInv /\ [ServerNext]_serverVars => ServerIInv'
    <2> SUFFICES ASSUME ServerIInv, [ServerNext]_serverVars PROVE ServerIInv'
      OBVIOUS
    <2>1. CASE ServerNext
      BY <2>1, ServerStepIInv DEF ServerNext
    <2>2. QED
      BY <2>1, ServerStutters
  <1>2. QED
    BY <1>1, ServerInitIInv, PTL DEF ServerSpec
-----------------------------------------------------------------------------
LEMMA OnlyOneElement ==
  ASSUME NEW S, IsFiniteSet(S)
  PROVE  /\ OnlyOne(S) = {} \/ \E x \in S : OnlyOne(S) = {x}
         /\ OnlyOne(S) \subseteq S
  <1>1. CASE Cardinality(S) = 1
    <2>1. PICK x : S = {x}
      BY <1>1, FS_Singleton
    <2>2. QED
      BY <1>1, <2>1 DEF OnlyOne
  <1>2. CASE Cardinality(S) # 1
    BY <1>2 DEF OnlyOne
  <1>3. QED
    BY <1>1, <1>2

LEMMA CertainDefinitions == ServerIInv => DefinitionIsCertain
  <1> SUFFICES ASSUME ServerIInv,
                      NEW u \in DOMAIN documents, NEW n \in AllNames,
                      NEW scope \in {"own", "plain", "member"}, NEW type \in AllNames
               PROVE  LET found == Definition(u, n, scope, type)
                      IN  /\ Cardinality(found) <= 1
                          /\ \A v \in found : \/ n \in DOMAIN document_symbols[v]
                                              \/ \E c \in DOMAIN document_symbols[v] : n \in document_symbols[v][c]
                          /\ DeclaredIn(u, n, scope, type) => found = {u}
    BY DEF DefinitionIsCertain
  <1> DEFINE found == Definition(u, n, scope, type)
             Names(v) == \/ n \in DOMAIN document_symbols[v]
                         \/ \E c \in DOMAIN document_symbols[v] : n \in document_symbols[v][c]
  <1>1. IsFiniteSet(DOMAIN document_symbols)
    BY LanguageServerAssumption, FS_Subset DEF ServerIInv, TablesOK
  <1>2. IsFiniteSet(Roots(n)) /\ \A v \in Roots(n) : Names(v)
    BY <1>1, FS_Subset DEF Roots
  <1>3. IsFiniteSet(Members(n)) /\ \A x \in Members(n) : Names(x[1])
    <2>1. IsFiniteSet((DOMAIN document_symbols) \X (DOMAIN namespaces))
      BY <1>1, FS_Product DEF ServerIInv, TablesOK
    <2>2. QED
      BY <2>1, FS_Subset DEF Members
  <1>4. DeclaredIn(u, n, scope, type) => u \in DOMAIN document_symbols /\ Names(u)
    BY DEF DeclaredIn, Roots, Members
  <1>5. /\ found = {} \/ (\E v : found = {v} /\ Names(v))
        /\ DeclaredIn(u, n, scope, type) => found = {u}
    <2>1. CASE u \notin DOMAIN document_symbols
      BY <2>1, <1>4 DEF Definition
    <2>2. CASE u \in DOMAIN document_symbols /\ DeclaredIn(u, n, scope, type)
      BY <2>2, <1>4 DEF Definition
    <2>3. CASE u \in DOMAIN document_symbols /\ ~DeclaredIn(u, n, scope, type)
      <3>1. \/ found = {}
            \/ found = {m[1] : m \in OnlyOne(Members(n))}
            \/ found = OnlyOne(Roots(n))
        BY <2>3 DEF Definition
      <3>2. CASE found = {m[1] : m \in OnlyOne(Members(n))}
        BY <2>3, <3>2, <1>3, OnlyOneElement
      <3>3. CASE found = OnlyOne(Roots(n))
        BY <2>3, <3>3, <1>2, OnlyOneElement
      <3>4. QED
        BY <2>3, <3>1, <3>2, <3>3
    <2>4. QED
      BY <2>1, <2>2, <2>3
  <1> HIDE DEF found
  <1>6. Cardinality(found) <= 1
    <2>1. CASE found = {}
      BY <2>1, FS_EmptySet
    <2>2. CASE \E v : found = {v}
      <3>1. PICK v : found = {v}
        BY <2>2
      <3>2. Cardinality({v}) = 1
        BY FS_Singleton, Zenon
      <3>3. QED
        BY <3>1, <3>2
    <2>3. QED
      BY <1>5, <2>1, <2>2
  <1>7. QED
    BY <1>5, <1>6 DEF found

(* What the invariant says of the other properties.                       *)
LEMMA ServerIInvImplies ==
  ServerIInv => ServerTypeOK /\ FreshDiagnostics /\ SymbolsAreCurrent /\ RequestsAnswered
  BY DEF ServerIInv, ServerTypeOK, OpenDocuments, TablesOK

(* An open document shows the diagnostics of its newest version and a      *)
(* closed one shows none, in whatever order documents are opened, changed, *)
(* saved and closed and whichever compilers fail (Reanalyze).              *)
THEOREM DiagnosticsCorrect == ServerSpec => []FreshDiagnostics
  BY ServerIInvImplies, ServerIInvHolds, PTL

(* Queries are answered from the newest texts (StageDocuments, Reanalyze). *)
THEOREM SymbolsCorrect == ServerSpec => []SymbolsAreCurrent
  BY ServerIInvImplies, ServerIInvHolds, PTL

(* A definition is given only where it is the only one (DefinitionJson).   *)
THEOREM DefinitionsCorrect == ServerSpec => []DefinitionIsCertain
  BY CertainDefinitions, ServerIInvHolds, PTL

(* Requests are answered and notifications are not, in every phase of the  *)
(* life cycle (Handle).                                                    *)
THEOREM AnswersCorrect == ServerSpec => []RequestsAnswered
  BY ServerIInvImplies, ServerIInvHolds, PTL

(* The documents, the symbols and the replies keep to their types: only    *)
(* what a client can name is open or known (DidOpenOrChange, Reanalyze).   *)
THEOREM ServerTypeCorrect == ServerSpec => []ServerTypeOK
  BY ServerIInvImplies, ServerIInvHolds, PTL

-----------------------------------------------------------------------------
PartIInv ==
  /\ part = "shell"  => ShellIInv
  /\ part = "runner" => RunnerIInv
  /\ part = "pool"   => PoolIInv
  /\ part = "server" => ServerIInv

LEMMA PartStep == PartIInv /\ [MCNext]_mcVars => PartIInv'
  <1> SUFFICES ASSUME PartIInv, [MCNext]_mcVars PROVE PartIInv'
    OBVIOUS
  <1>1. part' = part
    BY DEF MCNext, mcVars
  <1>2. ASSUME part = "shell" PROVE ShellIInv'
    <2>1. [ShellNext]_shellVars
      BY <1>2 DEF MCNext, mcVars
    <2>2. QED
      BY <1>2, <2>1, ShellStepIInv DEF PartIInv
  <1>3. ASSUME part = "runner" PROVE RunnerIInv'
    <2>1. [RunnerNext]_runnerVars
      BY <1>3 DEF MCNext, mcVars
    <2>2. QED
      BY <1>3, <2>1, RunnerStepIInv DEF PartIInv
  <1>4. ASSUME part = "pool" PROVE PoolIInv'
    <2>1. [PoolNext]_poolVars
      BY <1>4 DEF MCNext, mcVars
    <2>2. QED
      BY <1>4, <2>1, PoolStepIInv DEF PartIInv
  <1>5. ASSUME part = "server" PROVE ServerIInv'
    <2>1. CASE \E m \in MCMessages : Handle(m)
      <3>1. PICK m \in MCMessages : Handle(m)
        BY <2>1
      <3>2. m \in Messages /\ ServerIInv
        BY <1>5 DEF MCMessages, PartIInv
      <3>3. QED
        BY <3>1, <3>2, ServerStepIInv
    <2>2. CASE UNCHANGED serverVars
      BY <1>5, <2>2, ServerStutters DEF PartIInv
    <2>3. QED
      BY <1>5, <2>1, <2>2 DEF MCNext, mcVars
  <1>6. QED
    BY <1>1, <1>2, <1>3, <1>4, <1>5 DEF PartIInv

LEMMA PartIInvHolds == MCSpec => []PartIInv
  <1>1. MCInit => PartIInv
    BY ShellInitIInv, RunnerInitIInv, PoolInitIInv, ServerInitIInv DEF MCInit, PartIInv
  <1>2. QED
    BY <1>1, PartStep, PTL DEF MCSpec

(* Wherever the start of a command fails, however it is killed and         *)
(* whichever calls of its monitor fail, a finished OShellRunner has closed *)
(* every descriptor; it has reaped the child unless waitpid failed, has    *)
(* read all output unless poll or read failed, and can be used again when  *)
(* it is joined: with any number of runners in the program, whose forks    *)
(* copy each other's pipes.                                                *)
THEOREM CommandsCorrect == MCSpec => []CommandsLeaveNothing
  <1>1. PartIInv => CommandsLeaveNothing
    BY ShellIInvNothingLeft, ShellIInvEcho, ShellIInvJoined DEF PartIInv, CommandsLeaveNothing, ShellIInv
  <1>2. QED
    BY <1>1, PartIInvHolds, PTL

(* Whatever call of OProcessRunner::Run fails, no descriptor stays open,   *)
(* and a child is left unreaped only by a failed waitpid, which is         *)
(* reported; true is said only of a child that was executed and reaped     *)
(* and, unless a read failed, ended by itself and was read to its end.     *)
THEOREM RunsCorrect == MCSpec => []RunsAreComplete
  <1>1. PartIInv => RunsAreComplete
    BY RunnerIInvImplies DEF PartIInv, RunsAreComplete
  <1>2. QED
    BY <1>1, PartIInvHolds, PTL

(* Every file of a batch is tested once and by one worker, for any number  *)
(* of workers and files (OAutoTestRunner::ProcessBatchFilesParallel).      *)
THEOREM BatchesCorrect == MCSpec => []BatchesAreComplete
  <1>1. PartIInv => BatchesAreComplete
    BY PoolIInvTypes, PoolIInvResults, PoolIInvOneWorker DEF PartIInv, BatchesAreComplete
  <1>2. QED
    BY <1>1, PartIInvHolds, PTL

(* What the editor shows and is answered comes from the newest texts, for  *)
(* any documents, names and order of messages (OLangServer::Handle).       *)
THEOREM EditorCorrect == MCSpec => []EditorIsCurrent
  <1>1. PartIInv => EditorIsCurrent
    BY ServerIInvImplies, CertainDefinitions DEF PartIInv, EditorIsCurrent
  <1>2. QED
    BY <1>1, PartIInvHolds, PTL
==============================================================================
