------------------------------ MODULE Conversion ------------------------------
(***************************************************************************)
(* Conversion jobs (internal/convert): a job's workers take the files of a *)
(* request from a channel; each conversion is a session of EnginePool.tla  *)
(* that matches the configurations of ColumnStore.tla.                     *)
(*                                                                         *)
(* A task is one index of one request: one call of convertFile.  A request *)
(* may name a file twice, and two requests the same file.  What a worker   *)
(* does under Job.mu is one step.                                          *)
(***************************************************************************)
EXTENDS EnginePool, ColumnStore

CONSTANTS ConvJobs,
          TasksOf,     \* the files of each request, a sequence of sessions
          FileIn,      \* the file each of them names
          Files,
          Deletes,     \* the jobs with delete_original
          Workers,     \* workers per job: 4, or the size of the pool if smaller
          MaxRequests  \* bound: what others than the conversion jobs do

Tasks(j) == Range(TasksOf[j])

AllTasks == UNION {Tasks(j) : j \in ConvJobs}

ASSUME ConversionAssumption ==
    /\ \A j \in ConvJobs : TasksOf[j] \in Seq(Sessions) \ {<<>>} /\ IsInjective(TasksOf[j])
    /\ \A i, j \in ConvJobs : i # j => Tasks(i) \cap Tasks(j) = {}
    /\ AllTasks = {s \in Sessions : KindOf[s] = "convert"}
    /\ FileIn \in [AllTasks -> Files]
    /\ Deletes \subseteq ConvJobs
    /\ Workers \in 1..Cardinality(Connections)
    /\ MaxRequests \in Nat

VARIABLES jobStatus,   \* Job.Status, "none" before Start
          taken,       \* how many files the workers have taken from the channel
          result,      \* Results[i].Status of each task
          completed,   \* Job.Completed
          jobsKept,    \* the keys of JobStore.jobs
          originals,   \* the objects in the bucket: the files ...
          parquets,    \* ... and which of them have a .parquet beside
          readBy       \* how a task reads its file: a configuration, "format" or "none"

jobVars == <<jobStatus, taken, result, completed, jobsKept>>
objectVars == <<originals, parquets, readBy>>
vars == <<poolVars, columnVars, jobVars, objectVars>>

Init ==
    /\ PoolInit
    /\ ColumnInit
    /\ jobStatus = [j \in ConvJobs |-> "none"]
    /\ taken = [j \in ConvJobs |-> 0]
    /\ result = [t \in AllTasks |-> "pending"]
    /\ completed = [j \in ConvJobs |-> 0]
    /\ jobsKept = {}
    /\ originals = Files
    /\ parquets = {}
    /\ readBy = [t \in AllTasks |-> "none"]

SetResult(t, r) == result' = [result EXCEPT ![t] = r]

With(j, r) == {t \in Tasks(j) : result[t] = r}

-------------------------------------------------------------------------------

\* Start
StartJob(j) ==
    /\ jobStatus[j] = "none"
    /\ jobStatus' = [jobStatus EXCEPT ![j] = "running"]
    /\ jobsKept' = jobsKept \cup {j}
    /\ UNCHANGED <<poolVars, columnVars, objectVars, taken, result, completed>>

\* A worker takes the next index and calls convertFile.
TakeFile(j) ==
    /\ jobStatus[j] = "running"
    /\ taken[j] < Len(TasksOf[j])
    /\ Cardinality(With(j, "running")) < Workers
    /\ taken' = [taken EXCEPT ![j] = @ + 1]
    /\ LET t == TasksOf[j][taken[j] + 1] IN SetResult(t, "running") /\ Enter(t)
    /\ UNCHANGED <<columnVars, objectVars, jobStatus, completed, jobsKept>>

\* convertFile asks for the configuration of its file.  A fixed-width one
\* without columns ends it before the COPY.
MatchConfig(t) ==
    /\ place[t] = "executing" /\ readBy[t] = "none"
    /\ \/ /\ Match(FileIn[t]) = {}
          /\ readBy' = [readBy EXCEPT ![t] = "format"]
          /\ UNCHANGED poolVars
       \/ \E v \in Match(FileIn[t]) :
            /\ readBy' = [readBy EXCEPT ![t] = v]
            /\ IF Config[v].usable THEN UNCHANGED poolVars ELSE Execute(t, "error")
    /\ UNCHANGED <<columnVars, jobVars, originals, parquets>>

\* The COPY.  Without the file, or when reading or writing fails, it leaves the
\* bucket as it is.
CopyFile(t) ==
    /\ readBy[t] # "none"
    /\ \/ /\ FileIn[t] \in originals
          /\ Execute(t, "ok")
          /\ parquets' = parquets \cup {FileIn[t]}
       \/ Execute(t, "error") /\ UNCHANGED parquets
    /\ UNCHANGED <<columnVars, jobVars, originals, readBy>>

\* Fault: the original is deleted whatever the conversion returned.
DeleteAlways(j, t) ==
    IF j \in Deletes
    THEN originals' = originals \ {FileIn[t]} \/ UNCHANGED originals
    ELSE UNCHANGED originals

\* deleteOriginal; its failure does not change the status.
DeleteOriginal(j, t) ==
    IF j \in Deletes /\ outcome[t] = "ok"
    THEN originals' = originals \ {FileIn[t]} \/ UNCHANGED originals
    ELSE UNCHANGED originals

\* Fault: every result counts.
CountAll(j, t) == completed' = [completed EXCEPT ![j] = @ + 1]

CountDone(j, t) ==
    completed' = [completed EXCEPT ![j] = IF outcome[t] = "ok" THEN @ + 1 ELSE @]

\* Back in the worker, under Job.mu.
RecordResult(j, t) ==
    /\ t \in Tasks(j) /\ result[t] = "running" /\ place[t] = "over"
    /\ SetResult(t, IF outcome[t] = "ok" THEN "done" ELSE "error")
    /\ CountDone(j, t)
    /\ DeleteOriginal(j, t)
    /\ UNCHANGED <<poolVars, columnVars, jobStatus, taken, jobsKept, parquets, readBy>>

\* What run waits for.
WorkersDone(j) == taken[j] = Len(TasksOf[j]) /\ With(j, "running") = {}

\* The end of run: the status of the job is made of its results.
EndJob(j) ==
    /\ jobStatus[j] = "running"
    /\ WorkersDone(j)
    /\ jobStatus' = [jobStatus EXCEPT ![j] = IF With(j, "error") # {} THEN "error" ELSE "done"]
    /\ UNCHANGED <<poolVars, columnVars, objectVars, taken, result, completed, jobsKept>>

TaskStep(t) == MatchConfig(t) \/ CopyFile(t)

\* The statement of any other session, the statistics of an analysis, the readers
\* an inference tries one after the other: the client is told what came of it.
RunStatement(s) == s \notin AllTasks /\ \E o \in {"ok", "error"} : Execute(s, o)

PoolStep(s) ==
    /\ RunStatement(s) \/ SessionStep(s)
    /\ UNCHANGED <<columnVars, jobVars, objectVars>>

\* The calls, saves and clean-ups of the others so far.
OthersBegun == {s \in Sessions \ AllTasks : place[s] # "new"} \cup
               {v \in Savers : saving[v] # "idle"} \cup
               {j \in ConvJobs \ jobsKept : jobStatus[j] # "none"}

RoomForMore == Cardinality(OthersBegun) < MaxRequests

Call(s) ==
    /\ s \notin AllTasks /\ RoomForMore
    /\ Enter(s)
    /\ UNCHANGED <<columnVars, jobVars, objectVars>>

BeginColumnRequest ==
    /\ RoomForMore
    /\ (\E v \in Savers : BeginSave(v)) \/ (\E p \in Patterns : DeleteConfig(p))
    /\ UNCHANGED <<poolVars, jobVars, objectVars>>

\* Cleanup, for a job older than 30 minutes: also for one that is running.
ForgetJob(j) ==
    /\ j \in jobsKept /\ RoomForMore
    /\ jobsKept' = jobsKept \ {j}
    /\ UNCHANGED <<poolVars, columnVars, objectVars, jobStatus, taken, result, completed>>

JobStep(j) == TakeFile(j) \/ EndJob(j) \/ (\E t \in Tasks(j) : RecordResult(j, t))

Next ==
    \/ \E s \in Sessions : Call(s) \/ PoolStep(s)
    \/ \E t \in AllTasks : TaskStep(t)
    \/ \E j \in ConvJobs : StartJob(j) \/ JobStep(j) \/ ForgetJob(j)
    \/ BeginColumnRequest
    \/ SaveStep /\ UNCHANGED <<poolVars, jobVars, objectVars>>

Spec == Init /\ [][Next]_vars

\* Requests and jobs that have begun go on: while one of them can take a step,
\* some step of them is taken.  Nobody need call anything.
Progress ==
    \/ \E s \in Sessions : PoolStep(s)
    \/ \E t \in AllTasks : TaskStep(t)
    \/ \E j \in ConvJobs : JobStep(j)

FairSpec == Spec /\ WF_vars(Progress)

-------------------------------------------------------------------------------
(* Properties                                                               *)

ConversionTypeOK ==
    /\ PoolTypeOK
    /\ ColumnTypeOK
    /\ jobStatus \in [ConvJobs -> {"none", "running", "done", "error"}]
    /\ \A j \in ConvJobs : taken[j] \in 0..Len(TasksOf[j]) /\ completed[j] \in 0..taken[j]
    /\ result \in [AllTasks -> {"pending", "running", "done", "error"}]
    /\ jobsKept \subseteq ConvJobs
    /\ originals \subseteq Files
    /\ parquets \subseteq Files
    /\ readBy \in [AllTasks -> Savers \cup {"format", "none"}]

\* What a client reads of a job agrees with itself at every moment: Completed
\* counts the done results, a status other than running comes after the last
\* result and says whether one failed.
JobAgrees ==
    \A j \in ConvJobs :
        /\ completed[j] = Cardinality(With(j, "done"))
        /\ jobStatus[j] \in {"done", "error"} =>
             /\ With(j, "done") \cup With(j, "error") = Tasks(j)
             /\ jobStatus[j] = "error" <=> With(j, "error") # {}

\* delete_original loses no data: an original is deleted only when its parquet
\* is there, also if a request or several of them name the file more than once,
\* and a result is done only when its file has been converted.
NothingLost ==
    /\ Files \ originals \subseteq parquets
    /\ \A t \in AllTasks : result[t] = "done" => FileIn[t] \in parquets

\* Nobody waits for ever for a connection, whatever fails on the way: there are
\* finitely many requests, and in the end every one that was made has returned,
\* its connection is back, and every conversion job has ended.
EveryRequestEnds ==
    <>[](/\ \A s \in Sessions : place[s] \in {"new", "over"}
         /\ \A j \in ConvJobs : jobStatus[j] # "running")
===============================================================================
