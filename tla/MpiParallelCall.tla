--------------------------- MODULE MpiParallelCall --------------------------
(***************************************************************************)
(* prim/functor/mpi_parallel_call.hpp: one map_rect evaluated by a         *)
(* cluster.  The root sends a command; then root and workers run the same  *)
(* list of collectives, each on its own, and each decides for itself which *)
(* ones to leave out: data, sizes and shapes are sent once and cached on   *)
(* every process for good.  If two processes ever decide differently, one  *)
(* waits for ever or takes one message for another.                        *)
(*                                                                         *)
(* One call_id is modelled with several Kinds of calls (the template       *)
(* instances for data and parameters that are var or double): they share   *)
(* the caches, and each has its own num_outputs_per_job_.  A job is its    *)
(* number; what it returns is a number of columns of one row, or it        *)
(* throws, or it calls map_rect itself, for one column.                    *)
(*                                                                         *)
(* Messages that always go together (a size and the data, the dimensions   *)
(* of an array and its chunks) are one message.  Job parameters have a row *)
(* at least: without one their scatter would be left out by everyone.      *)
(***************************************************************************)
EXTENDS MpiCluster, FiniteSetsExt, SequencesExt

CONSTANTS
  Kinds,        \* template instances with the same call_id
  JobCounts,    \* numbers of jobs the program may pass
  OutputSizes,  \* numbers of outputs a job may return
  SharedSizes,  \* sizes of the vector of shared parameters
  MayThrow,     \* whether jobs may throw
  MayNest       \* whether jobs may call map_rect themselves

ASSUME CallAssumption ==
  /\ "stop" \notin Kinds
  /\ JobCounts \subseteq Nat \ {0}
  /\ OutputSizes \subseteq Nat /\ OutputSizes # {}
  /\ SharedSizes \subseteq Nat
  /\ MayThrow \in BOOLEAN /\ MayNest \in BOOLEAN

VARIABLES
  request,               \* the call under way, or NoRequest
  answer,                \* what the last call gave its caller
  cache,                 \* per process: the valid mpi_parallel_call_caches
  num_outputs_per_job_,  \* per process and kind, -1 at first
  local                  \* per process: members and locals of its call object

clusterVars == <<at, listening, in_use, down, up>>
vars == <<clusterVars, request, answer, cache, num_outputs_per_job_, local>>

Throws == -1
Nested == -2
Outcomes == OutputSizes \cup (IF MayThrow THEN {Throws} ELSE {})
                        \cup (IF MayNest THEN {Nested} ELSE {})

NoRequest == [kind |-> "none", shared |-> 0, outcome |-> <<>>]

Chunks == INSTANCE MpiMapChunks
  WITH MaxJobs <- 0, MaxWorld <- 0, MaxChunkSize <- 0, num_jobs <- 0,
       world_size <- WorldSize, chunk_size <- 1, chunks <- <<>>, r <- 0

\* mpi_map_chunks with the remainder always from rank 1 on.
mpi_map_chunks_RootLast(n) ==
  [p \in Rank |->
     (n \div WorldSize)
       + (IF 1 <= p /\ p <= n % WorldSize THEN 1 ELSE 0)]

mpi_map_chunks(n) == Chunks!MapChunks(n, WorldSize, 1)

\* std::accumulate: the number of jobs of the ranks before p.
FirstJob(chunks, p) ==
  MapThenSumSet(LAMBDA q : chunks[q], {q \in Rank : q < p})

\* The jobs of process p out of n.
Slice(n, p) ==
  [i \in 1..mpi_map_chunks(n)[p] |-> FirstJob(mpi_map_chunks(n), p) + i]

NoLocals == [kind |-> "none", shared |-> "none", job_params |-> <<>>,
             f_out |-> <<>>, ok |-> TRUE, all_ok |-> TRUE, result |-> <<>>]

Init ==
  /\ ClusterInit
  /\ request = NoRequest
  /\ answer = [is |-> "none", columns |-> <<>>]
  /\ cache = [p \in Rank |-> <<>>]
  /\ num_outputs_per_job_ = [p \in Rank |-> [k \in Kinds |-> -1]]
  /\ local = [p \in Rank |-> NoLocals]

(***************************************************************************)
(* The list of collectives, and which of them a process leaves out.        *)
(***************************************************************************)

SetupSteps ==
  <<"chunks", "shared_size", "shared", "dims", "params", "x_r", "x_i">>

CachedSteps == {"chunks", "shared_size", "dims", "x_r", "x_i"}

IsCached(p, member) == member \in DOMAIN cache[p]

\* The first collective of setup_call from the i-th on that process p takes
\* part in.
SetupFrom(p, i) ==
  LET todo == {j \in i..Len(SetupSteps) : ~IsCached(p, SetupSteps[j])}
  IN  IF todo = {} THEN "evaluate" ELSE SetupSteps[Min(todo)]

AfterSetup(p, step) ==
  SetupFrom(p, 1 + CHOOSE i \in 1..Len(SetupSteps) : SetupSteps[i] = step)

Stored(p, member, data) ==
  [m \in DOMAIN cache[p] \cup {member} |->
     IF m = member THEN data ELSE cache[p][m]]

Store(p, member, data) == cache' = [cache EXCEPT ![p] = Stored(p, member, data)]

FirstEvaluation(p) == num_outputs_per_job_[p][local[p].kind] = -1

(***************************************************************************)
(* Starting a call.                                                        *)
(***************************************************************************)

Requests ==
  UNION {[kind : Kinds, shared : SharedSizes, outcome : [1..n -> Outcomes]] :
           n \in JobCounts}

Error   == [is |-> "error",   columns |-> <<>>]
Refused == [is |-> "refused", columns |-> <<>>]
Answer(columns) == [is |-> "columns", columns |-> columns]

ColumnsOf(j, size) == [k \in 1..size |-> <<j, k>>]

\* What jobs do on the root alone, where a nested map_rect ends up there too.
OnRootAlone(outcome) ==
  [j \in DOMAIN outcome |-> IF outcome[j] = Nested THEN 1 ELSE outcome[j]]

\* map_rect_concurrent on the root.
SerialAnswer(outcome) ==
  IF \E j \in DOMAIN outcome : outcome[j] = Throws THEN Error
  ELSE Answer(FlattenSeq([j \in DOMAIN outcome |->
                            ColumnsOf(j, OnRootAlone(outcome)[j])]))

\* The number of jobs is not compared with that of earlier calls.
OtherJobCount_Unchecked(jobs) == FALSE

\* The number of jobs is fixed by the first call that got as far as this.
OtherJobCount(jobs) ==
  /\ IsCached(Root, "chunks")
  /\ jobs # SumFunction(cache[Root]["chunks"])

CallerIsFree == at[Root] \in {"outside", "ready", "held"}

\* The constructor of mpi_parallel_call up to the lock.
Start(r) ==
  /\ at[Root] = "ready"
  /\ ~OtherJobCount(Len(r.outcome))
  /\ CommandRefused(Root) = "no"
  /\ in_use' = TRUE
  /\ at' = [at EXCEPT ![Root] = "command"]
  /\ local' = [local EXCEPT ![Root].kind = r.kind]
  /\ request' = r
  /\ answer' = [is |-> "none", columns |-> <<>>]
  /\ UNCHANGED <<listening, down, up, cache, num_outputs_per_job_>>

\* It throws: invalid_argument, or runtime_error when no one listens.
StartThrows(r) ==
  /\ CallerIsFree
  /\ \/ OtherJobCount(Len(r.outcome))
     \/ CommandRefused(Root) = "not listening"
  /\ answer' = Refused
  /\ UNCHANGED <<clusterVars, request, cache, num_outputs_per_job_, local>>

\* map_rect_mpi catches mpi_is_in_use, here while an earlier call object lives.
FallBack(r) ==
  /\ CallerIsFree
  /\ ~OtherJobCount(Len(r.outcome))
  /\ CommandRefused(Root) = "in use"
  /\ answer' = SerialAnswer(r.outcome)
  /\ UNCHANGED <<clusterVars, request, cache, num_outputs_per_job_, local>>

\* boost::mpi::broadcast of the command, which every worker runs.
SendCommand ==
  /\ at[Root] = "command"
  /\ SendDown("command", Everyone(request.kind))
  /\ at' = [at EXCEPT ![Root] = SetupFrom(Root, 1)]
  /\ UNCHANGED <<listening, in_use, up, request, answer, cache,
                 num_outputs_per_job_, local>>

RunCommand(w) ==
  /\ at[w] = "command"
  /\ Arrived(w, "command") /\ Delivered(w) # "stop"
  /\ TakeDown(w)
  /\ local' = [local EXCEPT ![w].kind = Delivered(w)]
  /\ at' = [at EXCEPT ![w] = SetupFrom(w, 1)]
  /\ UNCHANGED <<listening, in_use, up, request, answer, cache,
                 num_outputs_per_job_>>

(***************************************************************************)
(* setup_call.                                                             *)
(***************************************************************************)

\* resize() to another size than its own leaves a vector undefined.
SharedParams ==
  IF request.shared = cache[Root]["shared_size"] THEN "given" ELSE "undefined"

Jobs == Len(request.outcome)

\* The root's side of a setup step: what process p gets.  The job parameters
\* are cut up by the dimensions of the first call; a column past those of
\* this call is no job.
Share(step, p) ==
  CASE step = "chunks"      -> mpi_map_chunks(Jobs)
    [] step = "shared_size" -> request.shared
    [] step = "shared"      -> SharedParams
    [] step = "dims"        -> Jobs
    [] step = "params"      -> [i \in DOMAIN Slice(cache[Root]["dims"], p) |->
                                  LET j == Slice(cache[Root]["dims"], p)[i]
                                  IN  IF j <= Jobs THEN j ELSE 0]
    [] step \in {"x_r", "x_i"} -> Slice(Jobs, p)

\* What process p does with it.
Take(p, step, data) ==
  /\ IF step \in CachedSteps THEN Store(p, step, data) ELSE UNCHANGED cache
  /\ local' = CASE step = "shared" -> [local EXCEPT ![p].shared = data]
              [] step = "params" -> [local EXCEPT ![p].job_params = data]
              [] OTHER           -> local
  /\ at' = [at EXCEPT ![p] = AfterSetup(p, step)]
  /\ UNCHANGED <<listening, in_use, request, answer, num_outputs_per_job_>>

SetupSend(step) ==
  /\ at[Root] = step
  /\ SendDown(step, [w \in Workers |-> Share(step, w)])
  /\ Take(Root, step, Share(step, Root))
  /\ UNCHANGED up

SetupReceive(w, step) ==
  /\ at[w] = step
  /\ Arrived(w, step)
  /\ Take(w, step, Delivered(w))
  /\ TakeDown(w)
  /\ UNCHANGED up

(***************************************************************************)
(* reduce_combine.                                                         *)
(***************************************************************************)

MyJobs(p) == local[p].job_params

\* What becomes of a job on process p: a nested map_rect is refused, and only
\* mpi_is_in_use makes it fall back to the process's own threads.
ResultOf(p, j) ==
  IF j = 0 THEN Min(OutputSizes)
  ELSE IF request.outcome[j] # Nested THEN request.outcome[j]
  ELSE IF CommandRefused(p) \in {"in use", "no"} THEN 1
  ELSE Throws

\* How many of its jobs process p evaluates before one throws.
Evaluated(p) ==
  LET thrown == {i \in DOMAIN MyJobs(p) : ResultOf(p, MyJobs(p)[i]) = Throws}
  IN  IF thrown = {} THEN Len(MyJobs(p)) ELSE Min(thrown) - 1

\* A nested map_rect that is not refused sends its own command.
SendNestedCommands(p) ==
  IF /\ CommandRefused(p) = "no"
     /\ \E i \in 1..Evaluated(p) : /\ MyJobs(p)[i] # 0
                                 /\ request.outcome[MyJobs(p)[i]] = Nested
  THEN SendDown("command", Everyone(local[p].kind))
  ELSE UNCHANGED down

\* The loop over the jobs: an exception is noted and stays here, so that the
\* process goes on to the collectives.
Evaluate(p) ==
  /\ at[p] = "evaluate"
  /\ local' = [local EXCEPT
       ![p].f_out = [i \in DOMAIN MyJobs(p) |->
                       IF i <= Evaluated(p) THEN ResultOf(p, MyJobs(p)[i])
                       ELSE -1],
       ![p].ok = (Evaluated(p) = Len(MyJobs(p)))]
  /\ at' = [at EXCEPT ![p] = IF FirstEvaluation(p) THEN "ok" ELSE "results"]
  /\ SendNestedCommands(p)
  /\ UNCHANGED <<listening, in_use, up, request, answer, cache,
                 num_outputs_per_job_>>

\* reduce(local_ok) in a first evaluation.
SendOk(w) ==
  /\ at[w] = "ok"
  /\ SendUp(w, "ok", local[w].ok)
  /\ at' = [at EXCEPT ![w] = "all_ok"]
  /\ UNCHANGED <<listening, in_use, down, request, answer, cache,
                 num_outputs_per_job_, local>>

\* cluster_status == world_size_
AllOk(ok) == ok /\ \A w \in Workers : Collected(w)

CollectOk ==
  /\ at[Root] = "ok"
  /\ AllArrived("ok")
  /\ TakeUp
  /\ local' = [local EXCEPT ![Root].all_ok = AllOk(local[Root].ok)]
  /\ at' = [at EXCEPT ![Root] = "all_ok"]
  /\ UNCHANGED <<listening, in_use, down, request, answer, cache,
                 num_outputs_per_job_>>

\* The root is done; its call object, and with it the lock, live on.
Return(a) ==
  /\ answer' = a
  /\ request' = NoRequest

\* broadcast(all_ok); an error on the root if it is false.
SendAllOk ==
  /\ at[Root] = "all_ok"
  /\ SendDown("all_ok", Everyone(local[Root].all_ok))
  /\ IF local[Root].all_ok
     THEN /\ at' = [at EXCEPT ![Root] = "outputs_per_job"]
          /\ UNCHANGED <<answer, request, local>>
     ELSE /\ at' = [at EXCEPT ![Root] = "held"]
          /\ local' = [local EXCEPT ![Root] = NoLocals]
          /\ Return(Error)
  /\ UNCHANGED <<listening, in_use, up, cache, num_outputs_per_job_>>

\* A worker goes on although another process failed.
ReceiveAllOk_GoesOn(w) ==
  /\ at[w] = "all_ok"
  /\ Arrived(w, "all_ok")
  /\ TakeDown(w)
  /\ at' = [at EXCEPT ![w] = "outputs_per_job"]
  /\ UNCHANGED <<listening, in_use, up, request, answer, cache,
                 num_outputs_per_job_, local>>

ReceiveAllOk(w) ==
  /\ at[w] = "all_ok"
  /\ Arrived(w, "all_ok")
  /\ TakeDown(w)
  /\ IF Delivered(w)
     THEN /\ at' = [at EXCEPT ![w] = "outputs_per_job"]
          /\ UNCHANGED local
     ELSE /\ at' = [at EXCEPT ![w] = "command"]
          /\ local' = [local EXCEPT ![w] = NoLocals]
  /\ UNCHANGED <<listening, in_use, up, request, answer, cache,
                 num_outputs_per_job_>>

AfterOutputsPerJob(p) == IF IsCached(p, "f_out") THEN "results" ELSE "f_out"

LearnOutputsPerJob(p, rows) ==
  /\ num_outputs_per_job_' =
       [num_outputs_per_job_ EXCEPT ![p][local[p].kind] = rows]
  /\ at' = [at EXCEPT ![p] = AfterOutputsPerJob(p)]
  /\ UNCHANGED <<listening, in_use, up, request, answer, cache, local>>

\* What the root found in its own jobs; without any it found nothing.
LocalOutputsPerJob == IF MyJobs(Root) = <<>> THEN 0 ELSE 1

SendOutputsPerJob ==
  /\ at[Root] = "outputs_per_job"
  /\ SendDown("outputs_per_job", Everyone(LocalOutputsPerJob))
  /\ LearnOutputsPerJob(Root, LocalOutputsPerJob)

ReceiveOutputsPerJob(w) ==
  /\ at[w] = "outputs_per_job"
  /\ Arrived(w, "outputs_per_job")
  /\ TakeDown(w)
  /\ LearnOutputsPerJob(w, Delivered(w))

\* The worker's own sizes are not copied into the vector it caches.
WithOwnSizes_NotCopied(w) ==
  [j \in 1..SumFunction(cache[w]["chunks"]) |-> 0]

\* A worker knows the sizes of its own jobs only.
WithOwnSizes(w) ==
  LET first == FirstJob(cache[w]["chunks"], w)
      own == first + 1 .. first + Len(local[w].f_out)
  IN  [j \in 1..SumFunction(cache[w]["chunks"]) |->
         IF j \in own THEN local[w].f_out[j - first] ELSE 0]

\* gatherv(local_f_out), then the sizes are cached for good.
SendSizes(w) ==
  /\ at[w] = "f_out"
  /\ SendUp(w, "f_out", local[w].f_out)
  /\ Store(w, "f_out", WithOwnSizes(w))
  /\ at' = [at EXCEPT ![w] = "results"]
  /\ UNCHANGED <<listening, in_use, down, request, answer,
                 num_outputs_per_job_, local>>

\* Chunks of all processes in the order of ranks.
Gathered(own) ==
  own \o FlattenSeq([w \in 1..(WorldSize - 1) |-> Collected(w)])

CollectSizes ==
  /\ at[Root] = "f_out"
  /\ AllArrived("f_out")
  /\ TakeUp
  /\ Store(Root, "f_out", Gathered(local[Root].f_out))
  /\ at' = [at EXCEPT ![Root] = "results"]
  /\ UNCHANGED <<listening, in_use, down, request, answer,
                 num_outputs_per_job_, local>>

\* The sizes of the outputs of process q's jobs, as process p has them cached.
SizesOf(p, q) ==
  LET first == FirstJob(cache[p]["chunks"], q)
  IN  SubSeq(cache[p]["f_out"], first + 1, first + cache[p]["chunks"][q])

\* chunks_result[q] on process p.
ChunkResult(p, q) ==
  SumFunction(SizesOf(p, q)) * num_outputs_per_job_[p][local[p].kind]

\* An output of no job the caller knows: made from the parameters of one and
\* the data of another, or from memory nobody wrote.
Junk == <<0, 0>>

OutputOf(p, i, k) ==
  IF /\ local[p].shared = "given"
     /\ i \in DOMAIN cache[p]["x_r"] /\ i \in DOMAIN cache[p]["x_i"]
     /\ MyJobs(p)[i] = cache[p]["x_r"][i]
     /\ MyJobs(p)[i] = cache[p]["x_i"][i]
  THEN <<MyJobs(p)[i], k>> ELSE Junk

LocalOutput(p) ==
  FlattenSeq([i \in DOMAIN local[p].f_out |->
                IF local[p].f_out[i] = -1 THEN <<>>
                ELSE [k \in 1..local[p].f_out[i] |-> OutputOf(p, i, k)]])

\* The first n columns of local_output, which has them whatever failed.
LocalResult(p) ==
  [n \in 1..ChunkResult(p, p) |->
     IF n <= Len(LocalOutput(p)) THEN LocalOutput(p)[n] ELSE Junk]

\* Sizes that differ from the cached ones are an error as well.
StillOk(p) == local[p].ok /\ local[p].f_out = SizesOf(p, p)

\* gatherv(local_output)
SendResults(w) ==
  /\ at[w] = "results"
  /\ SendUp(w, "results", LocalResult(w))
  /\ local' = [local EXCEPT ![w].ok = StillOk(w)]
  /\ at' = [at EXCEPT ![w] = "status"]
  /\ UNCHANGED <<listening, in_use, down, request, answer, cache,
                 num_outputs_per_job_>>

CollectResults ==
  /\ at[Root] = "results"
  /\ AllArrived("results")
  /\ TakeUp
  /\ local' = [local EXCEPT ![Root].ok = StillOk(Root),
                            ![Root].result = Gathered(LocalResult(Root))]
  /\ at' = [at EXCEPT ![Root] = "status"]
  /\ UNCHANGED <<listening, in_use, down, request, answer, cache,
                 num_outputs_per_job_>>

\* reduce(local_ok), the last collective.
SendStatus(w) ==
  /\ at[w] = "status"
  /\ SendUp(w, "status", local[w].ok)
  /\ local' = [local EXCEPT ![w] = NoLocals]
  /\ at' = [at EXCEPT ![w] = "command"]
  /\ UNCHANGED <<listening, in_use, down, request, answer, cache,
                 num_outputs_per_job_>>

\* combine_, or an error.
CollectStatus ==
  /\ at[Root] = "status"
  /\ AllArrived("status")
  /\ TakeUp
  /\ Return(IF AllOk(local[Root].ok) THEN Answer(local[Root].result) ELSE Error)
  /\ local' = [local EXCEPT ![Root] = NoLocals]
  /\ at' = [at EXCEPT ![Root] = "held"]
  /\ UNCHANGED <<listening, in_use, down, cache, num_outputs_per_job_>>

\* The call object is destroyed.
Release ==
  /\ at[Root] = "held"
  /\ in_use' = FALSE
  /\ at' = [at EXCEPT ![Root] = "ready"]
  /\ UNCHANGED <<listening, down, up, request, answer, cache,
                 num_outputs_per_job_, local>>

(***************************************************************************)
(* The program: the root calls map_rect and stops the cluster as it likes. *)
(***************************************************************************)

RootStep ==
  \/ SendCommand
  \/ \E step \in Range(SetupSteps) : SetupSend(step)
  \/ Evaluate(Root)
  \/ CollectOk \/ SendAllOk
  \/ SendOutputsPerJob \/ CollectSizes
  \/ CollectResults \/ CollectStatus

WorkerStep(w) ==
  \/ RunCommand(w)
  \/ \E step \in Range(SetupSteps) : SetupReceive(w, step)
  \/ Evaluate(w)
  \/ SendOk(w) \/ ReceiveAllOk(w)
  \/ ReceiveOutputsPerJob(w) \/ SendSizes(w)
  \/ SendResults(w) \/ SendStatus(w)

callVars == <<request, answer, cache, num_outputs_per_job_, local>>

ClusterRoot == (ListenRoot \/ StopListen) /\ UNCHANGED callVars

ClusterWorker(w) == (ListenWorker(w) \/ StopWorker(w)) /\ UNCHANGED callVars

Next ==
  \/ \E r \in Requests : Start(r) \/ StartThrows(r) \/ FallBack(r)
  \/ RootStep
  \/ Release
  \/ ClusterRoot
  \/ \E w \in Workers : WorkerStep(w) \/ ClusterWorker(w)

Spec == Init /\ [][Next]_vars

\* Each process is run by its operating system: what it can go on with, it
\* does.  Nothing makes the program start another call, release a call object
\* or stop the cluster.
Fairness ==
  /\ WF_vars(RootStep)
  /\ \A w \in Workers : WF_vars(WorkerStep(w) \/ ClusterWorker(w))

FairSpec == Spec /\ Fairness

-----------------------------------------------------------------------------
(***************************************************************************)
(* Properties.                                                             *)
(***************************************************************************)

DownSteps ==
  Range(SetupSteps) \cup {"command", "all_ok", "outputs_per_job"}
UpSteps == {"ok", "f_out", "results", "status"}

\* The number of rows is the root's: it always has a job to find it out from.
TypeOK ==
  /\ at \in [Rank -> DownSteps \cup UpSteps
                       \cup {"outside", "ready", "held", "evaluate"}]
  /\ listening \in BOOLEAN /\ in_use \in BOOLEAN
  /\ \A w \in Workers : Len(down[w]) <= Capacity /\ Len(up[w]) <= Capacity
  /\ request \in Requests \cup {NoRequest}
  /\ answer.is \in {"none", "refused", "error", "columns"}
  /\ \A p \in Rank : DOMAIN cache[p] \subseteq CachedSteps \cup {"f_out"}
  /\ num_outputs_per_job_ \in [Rank -> [Kinds -> {-1, 1}]]
  /\ \A p \in Rank : local[p].kind \in Kinds \cup {"none"}

\* In a scatterv or gatherv root and worker have computed the same count, each
\* from its own caches: otherwise MPI truncates or reads past a buffer.
CountsAgree ==
  \A w \in Workers :
    /\ at[w] = "params" /\ Arrived(w, "params") =>
         Len(Delivered(w)) = Len(Slice(cache[w]["dims"], w))
    /\ at[Root] = "f_out" /\ AllArrived("f_out") =>
         Len(Collected(w)) = cache[Root]["chunks"][w]
    /\ at[Root] = "results" /\ AllArrived("results") =>
         Len(Collected(w)) = ChunkResult(Root, w)

\* Note 1 of mpi_parallel_call: everything is synchronous.  The collective a
\* process takes part in is the one that the message it is given was sent by,
\* whatever was cached, whoever failed, and however far the others are; and in
\* a scatterv or gatherv both have computed the same count.
CollectivesMatch ==
  /\ CountsAgree
  /\ \A w \in Workers :
       /\ down[w] # <<>> /\ at[w] \in DownSteps => Head(down[w]).step = at[w]
       /\ up[w] # <<>> /\ at[Root] \in UpSteps => Head(up[w]).step = at[Root]

\* When no call is under way and a worker has caught up, the two have cached
\* the same things, and the worker's sizes are the root's for its jobs: what
\* the next call relies on, after any number of failed ones.
CachesAgree ==
  \A w \in Workers :
    CallerIsFree /\ at[w] \in {"command", "outside"} /\ down[w] = <<>> =>
      /\ DOMAIN cache[w] = DOMAIN cache[Root]
      /\ \A m \in DOMAIN cache[w] \cap {"chunks", "shared_size", "dims"} :
           cache[w][m] = cache[Root][m]
      /\ IsCached(w, "f_out") => SizesOf(w, w) = SizesOf(Root, w)
      /\ num_outputs_per_job_[w] = num_outputs_per_job_[Root]

\* What becomes of job j in the call under way.
Owner(j) == CHOOSE p \in Rank : j \in Range(Slice(Jobs, p))
Results == [j \in 1..Jobs |-> ResultOf(Owner(j), j)]

\* The calls the root may have to make alone.
SerialOutcomes == {OnRootAlone(r.outcome) : r \in Requests}

\* The cluster of processes does what the caller is promised, whatever the
\* interleaving: all outputs in the order of the jobs, an error if and only if
\* a job threw or changed its size, and always an answer.  A job that calls
\* map_rect counts as what becomes of it.
MR == INSTANCE MapReduce
  WITH Evaluations <- SerialOutcomes,
       known <- IF IsCached(Root, "f_out") THEN cache[Root]["f_out"] ELSE <<>>,
       request <- IF request = NoRequest THEN NoRequest
                  ELSE [request EXCEPT !.outcome = Results]

ImplementsMapReduce == MR!Spec

\* The destructor of mpi_cluster "will ensure that the childs are being
\* shutdown" (line 134): once the root has stopped, every worker leaves
\* listen(), unless the root listens again.
ShutdownCompletes ==
  ~listening ~> (listening \/ \A w \in Workers : at[w] = "outside")

\* After a call, failed or not, every worker gets back to waiting for commands
\* or is outside: none is left behind in a collective.
WorkersComeBack ==
  \A w \in Workers :
    at[w] \notin {"command", "outside"} ~> at[w] \in {"command", "outside"}

\* "whenever the cluster is already busy with some command we fall back to
\* serial execution (possible if map_rect calls are nested ...)"
\* (map_rect_mpi.hpp:33): a call is an error only if a job threw or the sizes
\* of the outputs changed, not because a job calls map_rect.
NestedFallsBack ==
  [][answer' = Error /\ request # NoRequest =>
       \/ \E j \in 1..Jobs : request.outcome[j] = Throws
       \/ /\ IsCached(Root, "f_out")
          /\ \E j \in 1..Jobs :
               request.outcome[j] \notin {Nested, cache[Root]["f_out"][j]}]_vars
=============================================================================
