----------------------- MODULE MpiParallelCall_proofs -----------------------
(***************************************************************************)
(* Proofs about one map_rect on a cluster, for every number of processes,  *)
(* every capacity of the channels, and all sets of kinds, numbers of jobs  *)
(* and sizes, whichever jobs throw or call map_rect themselves.            *)
(***************************************************************************)
EXTENDS MpiParallelCall, InductionLemmas, SequenceTheorems, FiniteSetTheorems,
        TLAPS

-----------------------------------------------------------------------------
(***************************************************************************)
(* Where a process is.                                                     *)
(***************************************************************************)

Setup == {"chunks", "shared_size", "shared", "dims", "params", "x_r", "x_i"}
Idle == {"outside", "ready", "held"}

\* The process has finished the setup of a first call.
Warm(p) == CachedSteps \subseteq DOMAIN cache[p]
Sized(p) == "f_out" \in DOMAIN cache[p]

\* The collective a process comes to next when it goes on without waiting: the
\* evaluation is no collective, nor is what lies between two calls.
Goal(p) == IF FirstEvaluation(p) THEN "ok" ELSE "results"
Place(p) ==
  IF at[p] \in Idle THEN "command"
  ELSE IF at[p] = "evaluate" THEN Goal(p)
  ELSE at[p]

\* The place of a process after it took part in a collective of the root's.
After(step, load, warm, sized, goal) ==
  CASE step = "command" ->
         IF load = "stop" THEN "command" ELSE IF warm THEN "shared" ELSE "chunks"
    [] step = "chunks"      -> "shared_size"
    [] step = "shared_size" -> "shared"
    [] step = "shared"      -> IF warm THEN "params" ELSE "dims"
    [] step = "dims"        -> "params"
    [] step = "params"      -> IF warm THEN goal ELSE "x_r"
    [] step = "x_r"         -> "x_i"
    [] step = "x_i"         -> goal
    [] step = "all_ok"      -> IF load THEN "outputs_per_job" ELSE "command"
    [] step = "outputs_per_job" -> IF sized THEN "results" ELSE "f_out"

\* And after one of the workers'.
UpAfter(step) ==
  CASE step = "ok"      -> "all_ok"
    [] step = "f_out"   -> "results"
    [] step = "results" -> "status"
    [] step = "status"  -> "command"

\* The messages of queue q lead a process from the place here to the place there.
Leads(q, here, there, warm, sized, goal) ==
  IF q = <<>> THEN here = there
  ELSE /\ q[1].step = here
       /\ \A i \in 1 .. Len(q) - 1 :
            q[i + 1].step = After(q[i].step, q[i].load, warm, sized, goal)
       /\ there = After(q[Len(q)].step, q[Len(q)].load, warm, sized, goal)

LeadsUp(q, here, there) ==
  IF q = <<>> THEN here = there
  ELSE /\ q[1].step = here
       /\ \A i \in 1 .. Len(q) - 1 : q[i + 1].step = UpAfter(q[i].step)
       /\ there = UpAfter(q[Len(q)].step)

\* A message with which a call begins, or one of its setup.
Begins(m) == m.step \in Setup \/ (m.step = "command" /\ m.load # "stop")

\* Nothing but its setup follows the beginning of a call.
Together(q) ==
  \A i, j \in 1 .. Len(q) : i < j /\ Begins(q[i]) => q[j].step \in Setup

-----------------------------------------------------------------------------
(***************************************************************************)
(* The invariant.                                                          *)
(***************************************************************************)

IsQueue(q, steps) == q \in Seq(Range(q)) /\ \A i \in 1 .. Len(q) : q[i].step \in steps

LocalFields ==
  {"kind", "shared", "job_params", "f_out", "ok", "all_ok", "result"}
RootPlaces == DownSteps \cup UpSteps \cup Idle \cup {"evaluate"}
WorkerPlaces == DownSteps \cup UpSteps \cup {"outside", "evaluate"}

Shapes ==
  /\ at \in [Rank -> RootPlaces]
  /\ num_outputs_per_job_ \in [Rank -> [Kinds -> {-1, 0, 1}]]
  /\ DOMAIN cache = Rank /\ DOMAIN local = Rank
  /\ DOMAIN down = Workers /\ DOMAIN up = Workers

ProcessTyped(p) ==
  /\ DOMAIN cache[p] \subseteq CachedSteps \cup {"f_out"}
  /\ DOMAIN local[p] = LocalFields
  /\ local[p].kind \in Kinds \cup {"none"}

QueuesTyped(w) ==
  /\ at[w] \in WorkerPlaces
  /\ Len(down[w]) <= Capacity /\ IsQueue(down[w], DownSteps)
  /\ Len(up[w]) <= Capacity /\ IsQueue(up[w], UpSteps)

Typed ==
  /\ Shapes
  /\ listening \in BOOLEAN /\ in_use \in BOOLEAN
  /\ request \in Requests \cup {NoRequest}
  /\ answer.is \in {"none", "refused", "error", "columns"}
  /\ \A p \in Rank : ProcessTyped(p)
  /\ \A w \in Workers : QueuesTyped(w)

RootOK ==
  /\ listening <=> at[Root] # "outside"
  /\ in_use <=> at[Root] \notin {"outside", "ready"}
  /\ request # NoRequest <=> at[Root] \notin Idle
  /\ request # NoRequest => local[Root].kind = request.kind

\* What is cached when, on every process.
Earlier(step) ==
  CASE step = "shared_size"          -> {"chunks"}
    [] step \in {"shared", "dims"}   -> {"chunks", "shared_size"}
    [] step \in {"params", "x_r"}    -> {"chunks", "shared_size", "dims"}
    [] step = "x_i"                  -> {"chunks", "shared_size", "dims", "x_r"}
    [] OTHER                         -> {}

CacheOK(p) ==
  /\ ~Warm(p) => /\ DOMAIN cache[p] = Earlier(at[p])
                 /\ at[p] \in Setup \cup {"command", "outside", "ready"}
  /\ Warm(p) /\ at[p] \in Setup => at[p] \in {"shared", "params"}
  /\ at[p] = "f_out" => ~Sized(p)
  /\ at[p] \in {"results", "status"} => Sized(p)
  /\ \A k \in Kinds :
       num_outputs_per_job_[p][k] # -1 => Sized(p) \/ at[p] = "f_out"
  /\ at[p] \in Setup \cup UpSteps \cup {"evaluate", "all_ok", "outputs_per_job"} =>
       local[p].kind \in Kinds
  /\ at[p] = "ok" => FirstEvaluation(p)
  /\ at[p] \in {"all_ok", "outputs_per_job"} => FirstEvaluation(p)
  /\ at[p] \in {"f_out", "results", "status"} => ~FirstEvaluation(p)

\* What a worker has yet to take part in leads it to where the root is, or what
\* the root has yet to take part in leads the root to where the worker is.
InStep(w) ==
  /\ down[w] = <<>> \/ up[w] = <<>>
  /\ up[w] = <<>> =>
       Leads(down[w], Place(w), Place(Root), Warm(w), Sized(w), Goal(Root))
  /\ down[w] = <<>> => LeadsUp(up[w], Place(Root), Place(w))
  /\ Together(down[w])

InTheCall(w) ==
  \/ at[w] \in Setup \cup UpSteps \cup {"evaluate", "outputs_per_job"}
  \/ at[w] = "all_ok" /\ (down[w] = <<>> \/ down[w][1].load)

\* Worker and root make the same decisions.
SameKind(w) ==
  /\ InTheCall(w) => local[w].kind = local[Root].kind
  /\ \A i \in 1 .. Len(down[w]) :
       down[w][i].step = "command" /\ down[w][i].load # "stop" =>
         down[w][i].load = local[Root].kind

SameCaches(w) ==
  /\ Warm(w) => Warm(Root)
  /\ Warm(Root) /\ ~Warm(w) => at[Root] \in {"evaluate", "ok", "results"}
  /\ Sized(w) <=> Sized(Root) \/ (up[w] # <<>> /\ up[w][1].step = "f_out")
  /\ up[w] # <<>> => Warm(w)

SameRows(w) ==
  /\ \A i \in 1 .. Len(down[w]) :
       down[w][i].step = "outputs_per_job" =>
         /\ down[w][i].load \in {0, 1}
         /\ \A k \in Kinds :
              num_outputs_per_job_[Root][k] =
                IF k = local[Root].kind THEN down[w][i].load
                ELSE num_outputs_per_job_[w][k]
  /\ (\A i \in 1 .. Len(down[w]) : down[w][i].step # "outputs_per_job") =>
         \A k \in Kinds :
           num_outputs_per_job_[Root][k] = num_outputs_per_job_[w][k]

Follows(w) ==
  CacheOK(w) /\ InStep(w) /\ SameKind(w) /\ SameCaches(w) /\ SameRows(w)

Control == RootOK /\ CacheOK(Root) /\ \A w \in Workers : Follows(w)

CInv == Typed /\ Control

-----------------------------------------------------------------------------
(***************************************************************************)
(* What the messages and the caches say.                                   *)
(***************************************************************************)

\* The root always has a job, so it finds out the number of rows.
RootRows ==
  /\ "dims" \in DOMAIN cache[Root] => cache[Root]["dims"] \in JobCounts
  /\ at[Root] \in {"x_r", "x_i", "evaluate", "ok", "all_ok", "outputs_per_job"} =>
       local[Root].job_params # <<>>

RowsKnown ==
  /\ \A p \in Rank : \A k \in Kinds : num_outputs_per_job_[p][k] # 0
  /\ \A w \in Workers : \A i \in 1 .. Len(down[w]) :
       down[w][i].step = "outputs_per_job" => down[w][i].load # 0

Rows == RootRows /\ RowsKnown

\* all_ok, as it is gathered and spread.
OkKnown(w) ==
  /\ \A i \in 1 .. Len(up[w]) :
       up[w][i].step = "ok" => (up[w][i].load => local[w].ok)
  /\ \A i \in 1 .. Len(down[w]) :
       down[w][i].step = "all_ok" => (down[w][i].load => local[w].ok)
  /\ at[Root] = "all_ok" => (local[Root].all_ok => local[w].ok)
  /\ at[w] \in {"outputs_per_job", "f_out"} => local[w].ok

OksAgree ==
  /\ at[Root] = "all_ok" => (local[Root].all_ok => local[Root].ok)
  /\ at[Root] \in {"outputs_per_job", "f_out"} => local[Root].ok
  /\ \A w \in Workers : OkKnown(w)

\* The number of jobs that everything is cut up by.
Total == IF "dims" \in DOMAIN cache[Root] THEN cache[Root]["dims"] ELSE Jobs
JobsOf(p) == mpi_map_chunks(Total)[p]

ChunksKnown ==
  "chunks" \in DOMAIN cache[Root] =>
    /\ Total \in JobCounts /\ cache[Root]["chunks"] = mpi_map_chunks(Total)

\* What a process has of its own jobs.
IsShare(params, p) == params \in Seq(0 .. Jobs) /\ Len(params) = JobsOf(p)

JobsKnown(p) ==
  /\ at[p] \in {"x_r", "x_i", "evaluate"} => IsShare(local[p].job_params, p)
  /\ at[p] \in {"ok", "all_ok", "outputs_per_job", "f_out"} =>
       /\ Len(local[p].f_out) = JobsOf(p)
       /\ local[p].ok => local[p].f_out \in Seq(Nat)

Known == {"chunks", "shared_size", "dims"}

MessagesKnown(w) ==
  \A i \in 1 .. Len(down[w]) :
    /\ down[w][i].step \in Known =>
         /\ down[w][i].step \in DOMAIN cache[Root]
         /\ down[w][i].load = cache[Root][down[w][i].step]
    /\ down[w][i].step = "params" =>
         "chunks" \in DOMAIN cache[Root] /\ IsShare(down[w][i].load, w)

CachesKnown(w) ==
  \A m \in Known \cap DOMAIN cache[w] :
    m \in DOMAIN cache[Root] /\ cache[w][m] = cache[Root][m]

Shares ==
  /\ ChunksKnown
  /\ \A p \in Rank : JobsKnown(p)
  /\ \A w \in Workers : MessagesKnown(w) /\ CachesKnown(w)

\* The sizes of the outputs of a worker's jobs.
IsSizes(sizes, p) == sizes \in Seq(Nat) /\ Len(sizes) = JobsOf(p)

SizesKnown(w) ==
  /\ Sized(w) => IsSizes(SizesOf(w, w), w)
  /\ Sized(w) /\ Sized(Root) => SizesOf(Root, w) = SizesOf(w, w)
  /\ \A i \in 1 .. Len(up[w]) :
       /\ up[w][i].step = "f_out" => up[w][i].load = SizesOf(w, w)
       /\ up[w][i].step = "results" =>
            Len(up[w][i].load) =
              SumFunction(SizesOf(w, w)) * num_outputs_per_job_[w][local[Root].kind]

Sizes == \A w \in Workers : SizesKnown(w)

IInv == CInv /\ Rows /\ OksAgree /\ Shares /\ Sizes

(***************************************************************************)
(* Queues.                                                                 *)
(***************************************************************************)

LEMMA SeqOfItsRange ==
  ASSUME NEW S, NEW q \in Seq(S)
  PROVE  q \in Seq(Range(q))
  <1>1. Len(q) \in Nat /\ q \in [1 .. Len(q) -> Range(q)]
    BY LenProperties DEF Range
  <1> QED
    BY <1>1, SeqOfFunction

LEMMA QueueFacts ==
  ASSUME NEW steps, NEW q, IsQueue(q, steps)
  PROVE  /\ Len(q) \in Nat
         /\ q = <<>> <=> Len(q) = 0
         /\ q # <<>> => 1 \in 1 .. Len(q) /\ Len(q) \in 1 .. Len(q)
                        /\ Head(q) = q[1]
  <1>1. q \in Seq(Range(q))
    BY DEF IsQueue
  <1> QED
    BY <1>1, LenProperties, EmptySeq

LEMMA QueueEmpty ==
  ASSUME NEW steps
  PROVE  IsQueue(<< >>, steps) /\ Len(<< >>) = 0
  BY DEF IsQueue, Range

LEMMA QueueAppend ==
  ASSUME NEW steps, NEW q, IsQueue(q, steps), NEW m, m.step \in steps
  PROVE  /\ IsQueue(Append(q, m), steps)
         /\ Append(q, m) # <<>>
         /\ Len(Append(q, m)) = Len(q) + 1
         /\ \A i \in 1 .. Len(q) : Append(q, m)[i] = q[i]
         /\ Append(q, m)[Len(q) + 1] = m
  <1> DEFINE S == Range(q) \cup {m}
             r == Append(q, m)
  <1>1. q \in Seq(S) /\ m \in S
    <2>1. q \in Seq(Range(q))
      BY DEF IsQueue
    <2> QED
      BY <2>1, SeqMonotonic
  <1>2. /\ r \in Seq(S) /\ r # <<>> /\ Len(r) = Len(q) + 1
        /\ \A i \in 1 .. Len(q) : r[i] = q[i]
        /\ r[Len(q) + 1] = m
        /\ Len(q) \in Nat
    BY <1>1, AppendProperties, LenProperties
  <1>3. r \in Seq(Range(r))
    BY <1>2, SeqOfItsRange
  <1>4. \A i \in 1 .. Len(r) : r[i].step \in steps
    <2>1. \A i \in 1 .. Len(r) : i \in 1 .. Len(q) \/ i = Len(q) + 1
      BY <1>2
    <2> QED
      BY <1>2, <2>1 DEF IsQueue
  <1> QED
    BY <1>2, <1>3, <1>4 DEF IsQueue

LEMMA QueueTail ==
  ASSUME NEW steps, NEW q, IsQueue(q, steps), q # <<>>
  PROVE  /\ IsQueue(Tail(q), steps)
         /\ Len(Tail(q)) = Len(q) - 1
         /\ \A i \in 1 .. Len(q) - 1 : Tail(q)[i] = q[i + 1]
  <1> DEFINE r == Tail(q)
  <1>1. q \in Seq(Range(q)) /\ Len(q) \in Nat \ {0}
    BY QueueFacts DEF IsQueue
  <1>2. /\ r \in Seq(Range(q)) /\ Len(r) = Len(q) - 1
        /\ \A i \in 1 .. Len(r) : r[i] = q[i + 1]
    BY <1>1, HeadTailProperties
  <1>3. r \in Seq(Range(r))
    BY <1>2, SeqOfItsRange
  <1>4. \A i \in 1 .. Len(r) : r[i].step \in steps
    BY <1>1, <1>2 DEF IsQueue
  <1> QED
    BY <1>2, <1>3, <1>4 DEF IsQueue

(***************************************************************************)
(* Where queues lead.                                                      *)
(***************************************************************************)

LEMMA SetupIs == Range(SetupSteps) = Setup
  BY DEF SetupSteps, Setup, Range

LEMMA DownStepsAre ==
  DownSteps = Setup \cup {"command", "all_ok", "outputs_per_job"}
  BY SetupIs DEF DownSteps

Goals == {"ok", "results"}

(* Where a message leads, by its step.                                       *)
LEMMA AfterStep ==
  ASSUME NEW step \in DownSteps, NEW load, NEW warm, NEW sized, NEW goal \in Goals,
         NEW next, next = After(step, load, warm, sized, goal)
  PROVE  /\ next \in Setup \cup UpSteps \cup {"command", "outputs_per_job"}
         /\ step = "command" => next \in {"command", "shared", "chunks"}
         /\ step = "command" /\ load # "stop" => next \in {"shared", "chunks"}
         /\ step \in Setup => next \in Setup \cup Goals
         /\ step = "all_ok" => next = IF load THEN "outputs_per_job" ELSE "command"
         /\ step = "outputs_per_job" => next \in {"results", "f_out"}
         /\ next = "outputs_per_job" => step = "all_ok"
         /\ next \in Goals => step \in {"params", "x_i", "outputs_per_job"}
         /\ next = "command" => step \in {"command", "all_ok"}
         /\ step = "x_i" => next = goal
  BY DownStepsAre DEF After, Setup, Goals, UpSteps

(* The goal matters to the last message of a setup only.                     *)
LEMMA AfterOtherGoal ==
  ASSUME NEW step \in DownSteps, NEW load, NEW warm, NEW sized,
         NEW goal \in Goals, NEW goal2 \in Goals,
         After(step, load, warm, sized, goal) # goal
  PROVE  After(step, load, warm, sized, goal2) = After(step, load, warm, sized, goal)
  BY DownStepsAre DEF After, Setup, Goals

LEMMA DownIsNotUp ==
  /\ DownSteps \cap UpSteps = {} /\ Goals \subseteq UpSteps
  /\ Setup \subseteq DownSteps
  BY DownStepsAre DEF Setup, UpSteps, Goals

LEMMA LeadsAppend ==
  ASSUME NEW q, IsQueue(q, DownSteps), NEW m, m.step \in DownSteps,
         NEW here, NEW warm, NEW sized, NEW goal,
         Leads(q, here, m.step, warm, sized, goal)
  PROVE  Leads(Append(q, m), here, After(m.step, m.load, warm, sized, goal),
               warm, sized, goal)
  <1> DEFINE r == Append(q, m)
  <1>1. /\ r # <<>> /\ Len(r) = Len(q) + 1 /\ Len(q) \in Nat
        /\ \A i \in 1 .. Len(q) : r[i] = q[i]
        /\ r[Len(q) + 1] = m
    BY QueueAppend, QueueFacts
  <1> HIDE DEF r
  <1>2. CASE q = <<>>
    <2>1. Len(q) = 0 /\ here = m.step
      BY <1>2, QueueFacts DEF Leads
    <2> QED
      BY <1>1, <2>1 DEF Leads, r
  <1>3. CASE q # <<>>
    <2>1. Len(q) \in 1 .. Len(q) /\ 1 \in 1 .. Len(q)
      BY <1>3, QueueFacts
    <2>2. \A i \in 1 .. Len(r) - 1 : i \in 1 .. Len(q) - 1 \/ i = Len(q)
      BY <1>1
    <2>3. \A i \in 1 .. Len(q) - 1 : i \in 1 .. Len(q) /\ i + 1 \in 1 .. Len(q)
      BY <1>1
    <2>4. \A i \in 1 .. Len(r) - 1 :
            r[i + 1].step = After(r[i].step, r[i].load, warm, sized, goal)
      BY <1>1, <1>3, <2>1, <2>2, <2>3 DEF Leads
    <2> QED
      BY <1>1, <1>3, <2>1, <2>4 DEF Leads, r
  <1> QED
    BY <1>2, <1>3

LEMMA LeadsTail ==
  ASSUME NEW q, IsQueue(q, DownSteps), q # <<>>,
         NEW here, NEW there, NEW warm, NEW sized, NEW goal,
         Leads(q, here, there, warm, sized, goal)
  PROVE  /\ Leads(Tail(q), After(q[1].step, q[1].load, warm, sized, goal), there,
                  warm, sized, goal)
         /\ q[1].step = here /\ here \in DownSteps
  <1> DEFINE r == Tail(q)
  <1>1. /\ IsQueue(r, DownSteps) /\ Len(r) = Len(q) - 1 /\ Len(q) \in Nat \ {0}
        /\ \A i \in 1 .. Len(q) - 1 : r[i] = q[i + 1]
        /\ 1 \in 1 .. Len(q)
    BY QueueTail, QueueFacts
  <1>2. /\ q[1].step = here
        /\ \A i \in 1 .. Len(q) - 1 :
             q[i + 1].step = After(q[i].step, q[i].load, warm, sized, goal)
        /\ there = After(q[Len(q)].step, q[Len(q)].load, warm, sized, goal)
    BY DEF Leads
  <1> HIDE DEF r
  <1>3. CASE r = <<>>
    <2>1. Len(q) = 1
      BY <1>1, <1>3, QueueFacts
    <2> QED
      BY <1>1, <1>2, <1>3, <2>1 DEF Leads, IsQueue, r
  <1>4. CASE r # <<>>
    <2>1. Len(r) >= 1
      BY <1>1, <1>4, QueueFacts
    <2>2. r[1] = q[2] /\ r[Len(r)] = q[Len(q)] /\ 1 \in 1 .. Len(q) - 1
      BY <1>1, <2>1
    <2>3. \A i \in 1 .. Len(r) - 1 :
            r[i + 1].step = After(r[i].step, r[i].load, warm, sized, goal)
      <3> TAKE i \in 1 .. Len(r) - 1
      <3>1. i \in 1 .. Len(q) - 1 /\ i + 1 \in 1 .. Len(q) - 1
        BY <1>1, <2>1
      <3> QED
        BY <1>1, <1>2, <3>1
    <2>4. r[1].step = After(q[1].step, q[1].load, warm, sized, goal)
      BY <1>2, <2>2
    <2> QED
      BY <1>1, <1>2, <1>4, <2>2, <2>3, <2>4 DEF Leads, IsQueue, r
  <1> QED
    BY <1>3, <1>4

LEMMA LeadsOtherGoal ==
  ASSUME NEW q, IsQueue(q, DownSteps), NEW here, NEW there, there \notin Goals,
         NEW warm, NEW sized, NEW goal \in Goals, NEW goal2 \in Goals,
         Leads(q, here, there, warm, sized, goal)
  PROVE  Leads(q, here, there, warm, sized, goal2)
  <1>1. CASE q = <<>>
    BY <1>1 DEF Leads
  <1>2. CASE q # <<>>
    <2>1. Len(q) \in Nat /\ Len(q) \in 1 .. Len(q)
      BY <1>2, QueueFacts
    <2>2. \A i \in 1 .. Len(q) : q[i].step \in DownSteps
      BY DEF IsQueue
    <2>3. \A i \in 1 .. Len(q) - 1 :
            q[i + 1].step = After(q[i].step, q[i].load, warm, sized, goal2)
      <3> TAKE i \in 1 .. Len(q) - 1
      <3>1. i \in 1 .. Len(q) /\ i + 1 \in 1 .. Len(q)
        BY <2>1
      <3>2. q[i + 1].step = After(q[i].step, q[i].load, warm, sized, goal)
        BY <1>2 DEF Leads
      <3>3. q[i + 1].step # goal
        BY <2>2, <3>1, DownIsNotUp
      <3> QED
        BY <2>2, <3>1, <3>2, <3>3, AfterOtherGoal
    <2>4. there = After(q[Len(q)].step, q[Len(q)].load, warm, sized, goal)
      BY <1>2 DEF Leads
    <2>5. there = After(q[Len(q)].step, q[Len(q)].load, warm, sized, goal2)
      BY <2>1, <2>2, <2>4, AfterOtherGoal
    <2> QED
      BY <1>2, <2>3, <2>5 DEF Leads
  <1> QED
    BY <1>1, <1>2

(* The places of some messages in a queue.                                   *)
LEMMA LeadsShape ==
  ASSUME NEW q, IsQueue(q, DownSteps), q # <<>>,
         NEW here, NEW there, NEW warm, NEW sized, NEW goal \in Goals,
         Leads(q, here, there, warm, sized, goal)
  PROVE  /\ \A i \in 1 .. Len(q) :
              /\ q[i].step = "all_ok" => i = 1
              /\ q[i].step = "outputs_per_job" =>
                   i = Len(q) /\ there \in {"results", "f_out"}
              /\ q[i].step = "x_i" => i = Len(q)
         /\ there \in Setup \cup UpSteps \cup {"command", "outputs_per_job"}
         /\ there = "outputs_per_job" =>
              Len(q) = 1 /\ q[1].step = "all_ok" /\ q[1].load
         /\ here \in DownSteps
  <1>1. Len(q) \in Nat /\ Len(q) \in 1 .. Len(q) /\ 1 \in 1 .. Len(q)
    BY QueueFacts
  <1>2. \A i \in 1 .. Len(q) : q[i].step \in DownSteps
    BY DEF IsQueue
  <1>3. /\ q[1].step = here
        /\ \A i \in 1 .. Len(q) - 1 :
             q[i + 1].step = After(q[i].step, q[i].load, warm, sized, goal)
        /\ there = After(q[Len(q)].step, q[Len(q)].load, warm, sized, goal)
    BY DEF Leads
  <1>4. \A i \in 1 .. Len(q) - 1 : i \in 1 .. Len(q) /\ i + 1 \in 1 .. Len(q)
    BY <1>1
  <1>5. \A i \in 1 .. Len(q) - 1 :
          q[i].step \notin {"outputs_per_job", "x_i"} /\ q[i + 1].step # "all_ok"
    <2> TAKE i \in 1 .. Len(q) - 1
    <2>1. PICK step, next : step = q[i].step /\ next = q[i + 1].step
      OBVIOUS
    <2>2. /\ step \in DownSteps /\ next \in DownSteps
          /\ next = After(step, q[i].load, warm, sized, goal)
      BY <1>2, <1>3, <1>4, <2>1
    <2>3. /\ next \in Setup \cup UpSteps \cup {"command", "outputs_per_job"}
          /\ step = "outputs_per_job" => next \in {"results", "f_out"}
          /\ step = "x_i" => next = goal
      BY <2>2, AfterStep
    <2>4. next # "all_ok"
      BY <2>3 DEF UpSteps, Setup
    <2>5. step \notin {"outputs_per_job", "x_i"}
      BY <2>2, <2>3, DownIsNotUp DEF UpSteps, Goals
    <2> QED
      BY <2>1, <2>4, <2>5
  <1>6. \A i \in 1 .. Len(q) : i = Len(q) \/ i \in 1 .. Len(q) - 1
    BY <1>1
  <1>7. \A i \in 1 .. Len(q) : i # 1 => i - 1 \in 1 .. Len(q) - 1 /\ i = (i - 1) + 1
    BY <1>1
  <1>8. \A i \in 1 .. Len(q) : q[i].step = "all_ok" => i = 1
    BY <1>5, <1>7
  <1>9. /\ there \in Setup \cup UpSteps \cup {"command", "outputs_per_job"}
        /\ q[Len(q)].step = "outputs_per_job" => there \in {"results", "f_out"}
        /\ there = "outputs_per_job" => q[Len(q)].step = "all_ok" /\ q[Len(q)].load
    BY <1>1, <1>2, <1>3, AfterStep
  <1> QED
    BY <1>1, <1>2, <1>3, <1>5, <1>6, <1>8, <1>9

(* When the beginning of a call is on its way the root is in its setup or at *)
(* the first collective after it.                                            *)
LEMMA BeginsLeads ==
  ASSUME NEW q, IsQueue(q, DownSteps), Together(q),
         NEW here, NEW there, NEW warm, NEW sized, NEW goal \in Goals,
         Leads(q, here, there, warm, sized, goal),
         NEW i \in 1 .. Len(q), Begins(q[i])
  PROVE  there \in Setup \cup Goals
  <1>1. q # <<>> /\ Len(q) \in 1 .. Len(q) /\ Len(q) \in Nat
    BY QueueFacts
  <1>2. Begins(q[Len(q)])
    BY <1>1 DEF Together, Begins
  <1>3. /\ q[Len(q)].step \in DownSteps
        /\ there = After(q[Len(q)].step, q[Len(q)].load, warm, sized, goal)
    BY <1>1 DEF IsQueue, Leads
  <1> QED
    BY <1>2, <1>3, AfterStep DEF Begins, Setup

LEMMA TogetherAppend ==
  ASSUME NEW q, IsQueue(q, DownSteps), Together(q),
         NEW here, NEW warm, NEW sized, NEW goal \in Goals, NEW m,
         m.step \in DownSteps, Leads(q, here, m.step, warm, sized, goal)
  PROVE  Together(Append(q, m))
  <1> DEFINE r == Append(q, m)
  <1>1. /\ Len(r) = Len(q) + 1 /\ Len(q) \in Nat
        /\ \A i \in 1 .. Len(q) : r[i] = q[i]
        /\ r[Len(q) + 1] = m
    BY QueueAppend, QueueFacts
  <1> HIDE DEF r
  <1>2. SUFFICES ASSUME NEW i \in 1 .. Len(r), NEW j \in 1 .. Len(r), i < j,
                        Begins(r[i])
                 PROVE  r[j].step \in Setup
    BY DEF Together, r
  <1>3. i \in 1 .. Len(q) /\ (j \in 1 .. Len(q) \/ j = Len(q) + 1)
    BY <1>1, <1>2
  <1>4. CASE j \in 1 .. Len(q)
    BY <1>1, <1>2, <1>3, <1>4 DEF Together
  <1>5. CASE j = Len(q) + 1
    <2>1. m.step \in Setup \cup Goals
      BY <1>1, <1>2, <1>3, BeginsLeads
    <2> QED
      BY <1>1, <1>5, <2>1, DownIsNotUp
  <1> QED
    BY <1>3, <1>4, <1>5

LEMMA TogetherTail ==
  ASSUME NEW q, IsQueue(q, DownSteps), q # <<>>, Together(q)
  PROVE  Together(Tail(q))
  <1>1. /\ Len(Tail(q)) = Len(q) - 1 /\ Len(q) \in Nat
        /\ \A i \in 1 .. Len(q) - 1 : Tail(q)[i] = q[i + 1]
    BY QueueTail, QueueFacts
  <1>2. \A i \in 1 .. Len(q) - 1 : i + 1 \in 1 .. Len(q)
    BY <1>1
  <1> QED
    BY <1>1, <1>2 DEF Together

(* The queues of a worker.                                                   *)
LEMMA UpAfterStep ==
  ASSUME NEW step \in UpSteps
  PROVE  /\ UpAfter(step) \in {"all_ok", "results", "status", "command"}
         /\ UpAfter(step) = "all_ok" <=> step = "ok"
         /\ UpAfter(step) = "results" <=> step = "f_out"
         /\ UpAfter(step) = "status" <=> step = "results"
         /\ UpAfter(step) = "command" <=> step = "status"
  BY DEF UpAfter, UpSteps

LEMMA LeadsUpAppend ==
  ASSUME NEW q, IsQueue(q, UpSteps), NEW m, m.step \in UpSteps, NEW here,
         LeadsUp(q, here, m.step)
  PROVE  LeadsUp(Append(q, m), here, UpAfter(m.step))
  <1> DEFINE r == Append(q, m)
  <1>1. /\ r # <<>> /\ Len(r) = Len(q) + 1 /\ Len(q) \in Nat
        /\ \A i \in 1 .. Len(q) : r[i] = q[i]
        /\ r[Len(q) + 1] = m
    BY QueueAppend, QueueFacts
  <1> HIDE DEF r
  <1>2. CASE q = <<>>
    <2>1. Len(q) = 0 /\ here = m.step
      BY <1>2, QueueFacts DEF LeadsUp
    <2> QED
      BY <1>1, <2>1 DEF LeadsUp, r
  <1>3. CASE q # <<>>
    <2>1. Len(q) \in 1 .. Len(q) /\ 1 \in 1 .. Len(q)
      BY <1>3, QueueFacts
    <2>2. \A i \in 1 .. Len(r) - 1 : i \in 1 .. Len(q) - 1 \/ i = Len(q)
      BY <1>1
    <2>3. \A i \in 1 .. Len(q) - 1 : i \in 1 .. Len(q) /\ i + 1 \in 1 .. Len(q)
      BY <1>1
    <2>4. \A i \in 1 .. Len(r) - 1 : r[i + 1].step = UpAfter(r[i].step)
      BY <1>1, <1>3, <2>1, <2>2, <2>3 DEF LeadsUp
    <2> QED
      BY <1>1, <1>3, <2>1, <2>4 DEF LeadsUp, r
  <1> QED
    BY <1>2, <1>3

LEMMA LeadsUpTail ==
  ASSUME NEW q, IsQueue(q, UpSteps), q # <<>>, NEW here, NEW there,
         LeadsUp(q, here, there)
  PROVE  /\ LeadsUp(Tail(q), UpAfter(here), there)
         /\ q[1].step = here /\ here \in UpSteps
  <1> DEFINE r == Tail(q)
  <1>1. /\ IsQueue(r, UpSteps) /\ Len(r) = Len(q) - 1 /\ Len(q) \in Nat \ {0}
        /\ \A i \in 1 .. Len(q) - 1 : r[i] = q[i + 1]
        /\ 1 \in 1 .. Len(q)
    BY QueueTail, QueueFacts
  <1>2. /\ q[1].step = here
        /\ \A i \in 1 .. Len(q) - 1 : q[i + 1].step = UpAfter(q[i].step)
        /\ there = UpAfter(q[Len(q)].step)
    BY DEF LeadsUp
  <1> HIDE DEF r
  <1>3. CASE r = <<>>
    <2>1. Len(q) = 1
      BY <1>1, <1>3, QueueFacts
    <2> QED
      BY <1>1, <1>2, <1>3, <2>1 DEF LeadsUp, IsQueue, r
  <1>4. CASE r # <<>>
    <2>1. Len(r) >= 1
      BY <1>1, <1>4, QueueFacts
    <2>2. r[1] = q[2] /\ r[Len(r)] = q[Len(q)] /\ 1 \in 1 .. Len(q) - 1
      BY <1>1, <2>1
    <2>3. \A i \in 1 .. Len(r) - 1 : r[i + 1].step = UpAfter(r[i].step)
      <3> TAKE i \in 1 .. Len(r) - 1
      <3>1. i \in 1 .. Len(q) - 1 /\ i + 1 \in 1 .. Len(q) - 1
        BY <1>1, <2>1
      <3> QED
        BY <1>1, <1>2, <3>1
    <2>4. r[1].step = UpAfter(q[1].step)
      BY <1>2, <2>2
    <2> QED
      BY <1>1, <1>2, <1>4, <2>2, <2>3, <2>4 DEF LeadsUp, IsQueue, r
  <1> QED
    BY <1>3, <1>4

(* The places of a queue's messages: "ok" is alone, "f_out" is first.        *)
LEMMA LeadsUpShape ==
  ASSUME NEW q, IsQueue(q, UpSteps), q # <<>>, NEW here, NEW there,
         LeadsUp(q, here, there)
  PROVE  /\ \A i \in 1 .. Len(q) :
              /\ q[i].step \in {"ok", "f_out"} => i = 1
              /\ q[i].step = "ok" => Len(q) = 1
              /\ q[i].step = "status" => i = Len(q)
         /\ there \in {"all_ok", "results", "status", "command"}
         /\ there = "all_ok" => Len(q) = 1 /\ here = "ok"
         /\ there = "results" => Len(q) = 1 /\ here = "f_out"
         /\ here = "ok" => there = "all_ok"
         /\ here = "status" => Len(q) = 1 /\ there = "command"
         /\ here \in UpSteps
  <1>1. Len(q) \in Nat /\ Len(q) \in 1 .. Len(q) /\ 1 \in 1 .. Len(q)
    BY QueueFacts
  <1>2. /\ q[1].step = here
        /\ \A i \in 1 .. Len(q) - 1 : q[i + 1].step = UpAfter(q[i].step)
        /\ there = UpAfter(q[Len(q)].step)
        /\ \A i \in 1 .. Len(q) : q[i].step \in UpSteps
    BY DEF LeadsUp, IsQueue
  <1>3. \A i \in 1 .. Len(q) - 1 : i \in 1 .. Len(q) /\ i + 1 \in 1 .. Len(q)
    BY <1>1
  <1>4. \A i \in 1 .. Len(q) - 1 :
          q[i + 1].step \notin {"ok", "f_out"} /\ q[i].step \notin {"ok", "status"}
    <2> TAKE i \in 1 .. Len(q) - 1
    <2>1. q[i + 1].step = UpAfter(q[i].step) /\ q[i + 1].step \in UpSteps
          /\ q[i].step \in UpSteps
      BY <1>2, <1>3
    <2> QED
      BY <2>1, UpAfterStep DEF UpSteps
  <1>5. \A i \in 1 .. Len(q) : i = Len(q) \/ i \in 1 .. Len(q) - 1
    BY <1>1
  <1>6. \A i \in 1 .. Len(q) : i # 1 => i - 1 \in 1 .. Len(q) - 1 /\ i = (i - 1) + 1
    BY <1>1
  <1>7. \A i \in 1 .. Len(q) :
          /\ q[i].step \in {"ok", "f_out"} => i = 1
          /\ q[i].step \in {"ok", "status"} => i = Len(q)
    BY <1>4, <1>5, <1>6
  <1>8. /\ there \in {"all_ok", "results", "status", "command"}
        /\ there = "all_ok" => q[Len(q)].step = "ok"
        /\ there = "results" => q[Len(q)].step = "f_out"
        /\ q[Len(q)].step = "ok" => there = "all_ok"
        /\ q[Len(q)].step = "status" => there = "command"
    BY <1>1, <1>2, UpAfterStep
  <1> QED
    BY <1>1, <1>2, <1>7, <1>8

(***************************************************************************)
(* setup_call.                                                             *)
(***************************************************************************)

LEMMA MinIs ==
  ASSUME NEW S \in SUBSET Int, NEW m \in S, \A k \in S : m <= k
  PROVE  Min(S) = m
  <1>1. Min(S) \in S /\ \A y \in S : Min(S) <= y
    BY DEF Min
  <1>2. m \in Int /\ Min(S) \in Int /\ m <= Min(S) /\ Min(S) <= m
    BY <1>1
  <1> QED
    BY <1>2

LEMMA SetupStepsAre ==
  /\ Len(SetupSteps) = 7
  /\ SetupSteps[1] = "chunks" /\ SetupSteps[2] = "shared_size"
  /\ SetupSteps[3] = "shared" /\ SetupSteps[4] = "dims" /\ SetupSteps[5] = "params"
  /\ SetupSteps[6] = "x_r" /\ SetupSteps[7] = "x_i"
  BY DEF SetupSteps

(* The first collective that is not left out.                                *)
LEMMA SetupFromNext ==
  ASSUME NEW p, NEW i \in 1 .. 7, SetupSteps[i] \notin DOMAIN cache[p]
  PROVE  SetupFrom(p, i) = SetupSteps[i]
  <1> DEFINE todo == {j \in i .. Len(SetupSteps) : ~IsCached(p, SetupSteps[j])}
  <1>1. todo \in SUBSET Int /\ i \in todo /\ \A k \in todo : i <= k
    BY SetupStepsAre DEF IsCached
  <1>2. Min(todo) = i
    BY <1>1, MinIs
  <1> QED
    BY <1>1, <1>2 DEF SetupFrom

LEMMA SetupFromWarm ==
  ASSUME NEW p, Warm(p), DOMAIN cache[p] \subseteq CachedSteps \cup {"f_out"}
  PROVE  /\ \A i \in 1 .. 3 : SetupFrom(p, i) = "shared"
         /\ \A i \in 4 .. 5 : SetupFrom(p, i) = "params"
         /\ \A i \in 6 .. 8 : SetupFrom(p, i) = "evaluate"
  <1>1. \A j \in 1 .. 7 : ~IsCached(p, SetupSteps[j]) <=> j \in {3, 5}
    <2>1. \A j \in 1 .. 7 : j \in {1, 2, 3, 4, 5, 6, 7}
      OBVIOUS
    <2>2. SetupSteps[3] \notin DOMAIN cache[p] /\ SetupSteps[5] \notin DOMAIN cache[p]
      BY SetupStepsAre DEF CachedSteps
    <2>3. \A j \in {1, 2, 4, 6, 7} : SetupSteps[j] \in DOMAIN cache[p]
      BY SetupStepsAre DEF Warm, CachedSteps
    <2> QED
      BY <2>1, <2>2, <2>3 DEF IsCached
  <1>2. ASSUME NEW i \in 1 .. 3
        PROVE  SetupFrom(p, i) = "shared"
    <2> DEFINE todo == {j \in i .. Len(SetupSteps) : ~IsCached(p, SetupSteps[j])}
    <2>1. todo = {3, 5}
      BY <1>1, SetupStepsAre
    <2> HIDE DEF todo
    <2>2. Min(todo) = 3
      BY <2>1, MinIs
    <2> QED
      BY <2>1, <2>2, SetupStepsAre DEF SetupFrom, todo
  <1>3. ASSUME NEW i \in 4 .. 5
        PROVE  SetupFrom(p, i) = "params"
    <2> DEFINE todo == {j \in i .. Len(SetupSteps) : ~IsCached(p, SetupSteps[j])}
    <2>1. todo = {5}
      BY <1>1, SetupStepsAre
    <2> HIDE DEF todo
    <2>2. Min(todo) = 5
      BY <2>1, MinIs
    <2> QED
      BY <2>1, <2>2, SetupStepsAre DEF SetupFrom, todo
  <1>4. ASSUME NEW i \in 6 .. 8
        PROVE  SetupFrom(p, i) = "evaluate"
    <2> DEFINE todo == {j \in i .. Len(SetupSteps) : ~IsCached(p, SetupSteps[j])}
    <2>1. todo = {}
      BY <1>1, SetupStepsAre
    <2> QED
      BY <2>1 DEF SetupFrom
  <1> QED
    BY <1>2, <1>3, <1>4

LEMMA SetupFromEnd ==
  ASSUME NEW p
  PROVE  SetupFrom(p, 8) = "evaluate"
  <1>1. {j \in 8 .. Len(SetupSteps) : ~IsCached(p, SetupSteps[j])} = {}
    BY SetupStepsAre
  <1> QED
    BY <1>1 DEF SetupFrom

LEMMA AfterSetupIs ==
  ASSUME NEW p, NEW i \in 1 .. 7
  PROVE  AfterSetup(p, SetupSteps[i]) = SetupFrom(p, i + 1)
  <1>1. \A j \in 1 .. 7 : SetupSteps[j] = SetupSteps[i] => j = i
    <2>1. \A j \in 1 .. 7 : j \in {1, 2, 3, 4, 5, 6, 7}
      OBVIOUS
    <2> QED
      BY <2>1, SetupStepsAre
  <1>2. (CHOOSE j \in 1 .. Len(SetupSteps) : SetupSteps[j] = SetupSteps[i]) = i
    BY <1>1, SetupStepsAre
  <1>3. 1 + i = i + 1
    OBVIOUS
  <1> QED
    BY <1>2, <1>3 DEF AfterSetup

(* Where a process starts with the setup, and how it goes on.                *)
LEMMA SetupStart ==
  ASSUME NEW p, CacheOK(p), DOMAIN cache[p] \subseteq CachedSteps \cup {"f_out"},
         at[p] = "command"
  PROVE  SetupFrom(p, 1) = IF Warm(p) THEN "shared" ELSE "chunks"
  <1>1. CASE Warm(p)
    BY <1>1, SetupFromWarm
  <1>2. CASE ~Warm(p)
    <2>1. "chunks" \notin DOMAIN cache[p]
      BY <1>2 DEF CacheOK, Earlier
    <2> QED
      BY <1>2, <2>1, SetupFromNext, SetupStepsAre
  <1> QED
    BY <1>1, <1>2

LEMMA SetupNext ==
  ASSUME NEW p, CacheOK(p), DOMAIN cache[p] \subseteq CachedSteps \cup {"f_out"},
         NEW step \in Setup, at[p] = step,
         NEW load, NEW sized
  PROVE  AfterSetup(p, step) = After(step, load, Warm(p), sized, "evaluate")
  <1>1. CASE Warm(p)
    <2>1. step \in {"shared", "params"}
      BY <1>1 DEF CacheOK, Setup
    <2>2. SetupFrom(p, 4) = "params" /\ SetupFrom(p, 6) = "evaluate"
      BY <1>1, SetupFromWarm
    <2>3. AfterSetup(p, SetupSteps[3]) = SetupFrom(p, 4)
      BY AfterSetupIs
    <2>4. AfterSetup(p, SetupSteps[5]) = SetupFrom(p, 6)
      BY AfterSetupIs
    <2> QED
      BY <1>1, <2>1, <2>2, <2>3, <2>4, SetupStepsAre DEF After
  <1>2. CASE ~Warm(p)
    <2>1. DOMAIN cache[p] = Earlier(step)
      BY <1>2 DEF CacheOK
    <2>2. PICK i \in 1 .. 7 : SetupSteps[i] = step
      BY SetupStepsAre DEF Setup
    <2>3. AfterSetup(p, step) = SetupFrom(p, i + 1)
      BY <2>2, AfterSetupIs
    <2>4. i \in {1, 2, 3, 4, 5, 6, 7}
      BY <2>2
    <2>5. i # 7 => SetupSteps[i + 1] \notin DOMAIN cache[p]
      BY <2>1, <2>2, <2>4, SetupStepsAre DEF Earlier
    <2>6. i # 7 => i + 1 \in 1 .. 7 /\ SetupFrom(p, i + 1) = SetupSteps[i + 1]
      BY <2>4, <2>5, SetupFromNext
    <2>7. After(step, load, Warm(p), sized, "evaluate") =
            IF i = 7 THEN "evaluate" ELSE SetupSteps[i + 1]
      BY <1>2, <2>2, <2>4, SetupStepsAre DEF After
    <2>8. i = 7 => SetupFrom(p, i + 1) = "evaluate"
      BY SetupFromEnd
    <2> QED
      BY <2>3, <2>6, <2>7, <2>8
  <1> QED
    BY <1>1, <1>2

(* What one process's part of a setup step does to its own state.            *)
LEMMA StoreEffect ==
  ASSUME DOMAIN cache = Rank, NEW p \in Rank, NEW member, NEW data,
         Store(p, member, data)
  PROVE  /\ DOMAIN cache' = Rank
         /\ \A q \in Rank \ {p} : cache'[q] = cache[q]
         /\ DOMAIN cache'[p] = DOMAIN cache[p] \cup {member}
         /\ cache'[p][member] = data
         /\ \A m \in DOMAIN cache[p] \ {member} : cache'[p][m] = cache[p][m]
  <1>1. PICK f : f = Stored(p, member, data)
    OBVIOUS
  <1>2. /\ DOMAIN f = DOMAIN cache[p] \cup {member} /\ f[member] = data
        /\ \A m \in DOMAIN cache[p] \ {member} : f[m] = cache[p][m]
    BY <1>1 DEF Stored
  <1>3. cache' = [cache EXCEPT ![p] = f]
    BY <1>1 DEF Store
  <1> QED
    BY <1>2, <1>3

LEMMA TakeEffect ==
  ASSUME Typed, NEW p \in Rank, NEW step \in Setup, CacheOK(p), at[p] = step,
         NEW data, Take(p, step, data)
  PROVE  /\ DOMAIN cache' = Rank /\ DOMAIN local' = Rank
         /\ \A q \in Rank \ {p} : /\ at'[q] = at[q] /\ cache'[q] = cache[q]
                                  /\ local'[q] = local[q]
         /\ UNCHANGED <<listening, in_use, request, answer, num_outputs_per_job_>>
         /\ DOMAIN cache'[p] = DOMAIN cache[p] \cup ({step} \cap CachedSteps)
         /\ step \in CachedSteps => cache'[p][step] = data
         /\ \A m \in DOMAIN cache[p] \ {step} : cache'[p][m] = cache[p][m]
         /\ DOMAIN local'[p] = LocalFields /\ local'[p].kind = local[p].kind
         /\ local'[p].job_params = IF step = "params" THEN data ELSE local[p].job_params
         /\ \A f \in {"f_out", "ok", "all_ok"} : local'[p][f] = local[p][f]
         /\ at' \in [Rank -> RootPlaces]
         /\ \A load, sized : at'[p] = After(step, load, Warm(p), sized, "evaluate")
  <1>1. DOMAIN cache = Rank /\ DOMAIN local = Rank /\ DOMAIN local[p] = LocalFields
        /\ DOMAIN cache[p] \subseteq CachedSteps \cup {"f_out"}
        /\ at \in [Rank -> RootPlaces]
    BY DEF Typed, Shapes, ProcessTyped
  <1>2. /\ DOMAIN cache' = Rank
        /\ \A q \in Rank \ {p} : cache'[q] = cache[q]
        /\ DOMAIN cache'[p] = DOMAIN cache[p] \cup ({step} \cap CachedSteps)
        /\ step \in CachedSteps => cache'[p][step] = data
        /\ \A m \in DOMAIN cache[p] \ {step} : cache'[p][m] = cache[p][m]
    <2>1. CASE step \in CachedSteps
      <3>1. Store(p, step, data)
        BY <2>1 DEF Take
      <3> QED
        BY <1>1, <2>1, <3>1, StoreEffect
    <2>2. CASE step \notin CachedSteps
      BY <1>1, <2>2 DEF Take
    <2> QED
      BY <2>1, <2>2
  <1>3. /\ DOMAIN local' = Rank
        /\ \A q \in Rank \ {p} : local'[q] = local[q]
        /\ DOMAIN local'[p] = LocalFields /\ local'[p].kind = local[p].kind
        /\ local'[p].job_params = IF step = "params" THEN data ELSE local[p].job_params
        /\ \A f \in {"f_out", "ok", "all_ok"} : local'[p][f] = local[p][f]
    <2>1. CASE step = "shared"
      <3>1. local' = [local EXCEPT ![p].shared = data]
        BY <2>1 DEF Take
      <3> QED
        BY <1>1, <2>1, <3>1 DEF LocalFields
    <2>2. CASE step = "params"
      <3>1. local' = [local EXCEPT ![p].job_params = data]
        BY <2>2 DEF Take
      <3> QED
        BY <1>1, <2>2, <3>1 DEF LocalFields
    <2>3. CASE step \notin {"shared", "params"}
      <3>1. local' = local
        BY <2>3 DEF Take
      <3> QED
        BY <1>1, <2>3, <3>1
    <2> QED
      BY <2>1, <2>2, <2>3
  <1>4. PICK next : next = AfterSetup(p, step)
    OBVIOUS
  <1>5. \A load, sized : next = After(step, load, Warm(p), sized, "evaluate")
    BY <1>1, <1>4, SetupNext
  <1>6. next \in RootPlaces
    BY <1>5, SetupIs DEF After, Setup, RootPlaces, DownSteps
  <1>7. at' = [at EXCEPT ![p] = next]
    BY <1>4 DEF Take
  <1>8. UNCHANGED <<listening, in_use, request, answer, num_outputs_per_job_>>
    BY DEF Take
  <1> QED
    BY <1>1, <1>2, <1>3, <1>5, <1>6, <1>7, <1>8

LEMMA TakeKeepsCacheOK ==
  ASSUME Typed, NEW p \in Rank, NEW step \in Setup, CacheOK(p), at[p] = step,
         NEW data, Take(p, step, data)
  PROVE  /\ CacheOK(p)'
         /\ Warm(p)' <=> Warm(p) \/ step = "x_i"
         /\ Sized(p)' <=> Sized(p)
         /\ Goal(p)' = Goal(p) /\ Goal(p) \in Goals
         /\ \A load, sized : Place(p)' = After(step, load, Warm(p), sized, Goal(p))
         /\ at'[p] \in Setup \cup {"evaluate"}
  <1>1. PICK next, D, E :
          /\ next = at'[p] /\ D = DOMAIN cache[p] /\ E = DOMAIN cache'[p]
    OBVIOUS
  <1>2. /\ E = D \cup ({step} \cap CachedSteps)
        /\ \A load, sized : next = After(step, load, Warm(p), sized, "evaluate")
        /\ num_outputs_per_job_' = num_outputs_per_job_
        /\ local'[p].kind = local[p].kind
    <2>1. DOMAIN cache'[p] = DOMAIN cache[p] \cup ({step} \cap CachedSteps)
          /\ UNCHANGED num_outputs_per_job_
          /\ local'[p].kind = local[p].kind
      BY TakeEffect
    <2>2. \A load, sized : at'[p] = After(step, load, Warm(p), sized, "evaluate")
      BY TakeEffect
    <2> QED
      BY <1>1, <2>1, <2>2
  <1>3. Sized(p)' <=> Sized(p)
    BY <1>1, <1>2 DEF Sized, CachedSteps
  <1>4. Goal(p)' = Goal(p) /\ Goal(p) \in Goals
        /\ (FirstEvaluation(p)' <=> FirstEvaluation(p))
    BY <1>2 DEF Goal, FirstEvaluation, Goals
  <1>5. /\ Warm(p)' <=> Warm(p) \/ step = "x_i"
        /\ ~Warm(p)' => E = Earlier(next) /\ next \in Setup
        /\ Warm(p)' /\ next \in Setup => next \in {"shared", "params"}
        /\ next \in Setup \cup {"evaluate"}
    <2>1. CASE Warm(p)
      <3>1. step \in {"shared", "params"} /\ Warm(p)'
        BY <1>1, <1>2, <2>1 DEF CacheOK, Setup, Warm
      <3> QED
        BY <1>2, <2>1, <3>1 DEF After, Setup
    <2>2. CASE ~Warm(p)
      <3>1. D = Earlier(step)
        BY <1>1, <2>2 DEF CacheOK
      <3>2. Warm(p)' <=> CachedSteps \subseteq E
        BY <1>1 DEF Warm
      <3>3. CASE step = "x_i"
        BY <1>2, <2>2, <3>1, <3>2, <3>3 DEF After, Earlier, CachedSteps, Setup
      <3>4. CASE step # "x_i"
        <4>1. "x_i" \notin E /\ "x_i" \in CachedSteps
          BY <1>2, <3>1, <3>4 DEF Earlier, CachedSteps
        <4>2. E = Earlier(next) /\ next \in Setup
          BY <1>2, <2>2, <3>1, <3>4 DEF After, Earlier, CachedSteps, Setup
        <4> QED
          BY <2>2, <3>2, <3>4, <4>1, <4>2
      <3> QED
        BY <3>3, <3>4
    <2> QED
      BY <2>1, <2>2
  <1>6. \A load, sized : Place(p)' = After(step, load, Warm(p), sized, Goal(p))
    <2> TAKE load, sized
    <2>1. CASE next = "evaluate"
      <3>1. After(step, load, Warm(p), sized, Goal(p)) = Goal(p)
        BY <1>2, <2>1 DEF After, Setup
      <3> QED
        BY <1>1, <1>4, <2>1, <3>1 DEF Place, Idle
    <2>2. CASE next # "evaluate"
      <3>1. After(step, load, Warm(p), sized, Goal(p)) = next
        BY <1>2, <2>2 DEF After, Setup
      <3> QED
        BY <1>1, <1>5, <2>2, <3>1 DEF Place, Idle, Setup
    <2> QED
      BY <2>1, <2>2
  <1>7. CacheOK(p)'
    <2>1. \A k \in Kinds : num_outputs_per_job_[p][k] # -1 => Sized(p)
      BY DEF CacheOK, Setup
    <2>2. local[p].kind \in Kinds
      BY DEF CacheOK
    <2> QED
      BY <1>1, <1>2, <1>3, <1>5, <2>1, <2>2 DEF CacheOK, Setup, UpSteps
  <1> QED
    BY <1>1, <1>3, <1>4, <1>5, <1>6, <1>7

(***************************************************************************)
(* What the invariant says of a worker.                                    *)
(***************************************************************************)

LEMMA RootIsNoWorker ==
  /\ Root \in Rank /\ Root \notin Workers /\ Workers \subseteq Rank
  /\ Workers = Rank \ {Root}
  BY ClusterAssumption DEF Root, Rank, Workers

LEMMA DownPlace ==
  ASSUME NEW w \in Workers, Typed, InStep(w), down[w] # <<>>
  PROVE  /\ up[w] = <<>>
         /\ Leads(down[w], Place(w), Place(Root), Warm(w), Sized(w), Goal(Root))
         /\ Place(w) \in DownSteps /\ down[w][1].step = Place(w)
         /\ IsQueue(down[w], DownSteps) /\ Goal(Root) \in Goals
         /\ Len(down[w]) \in Nat /\ 1 \in 1 .. Len(down[w])
         /\ Head(down[w]) = down[w][1]
  <1>1. up[w] = <<>> /\ IsQueue(down[w], DownSteps)
    BY DEF InStep, Typed, QueuesTyped
  <1>2. Leads(down[w], Place(w), Place(Root), Warm(w), Sized(w), Goal(Root))
    BY <1>1 DEF InStep
  <1>3. Goal(Root) \in Goals
    BY DEF Goal, Goals
  <1>4. Place(w) \in DownSteps /\ down[w][1].step = Place(w)
    BY <1>1, <1>2, LeadsTail
  <1> QED
    BY <1>1, <1>2, <1>3, <1>4, QueueFacts

LEMMA UpPlace ==
  ASSUME NEW w \in Workers, Typed, InStep(w), up[w] # <<>>
  PROVE  /\ down[w] = <<>>
         /\ LeadsUp(up[w], Place(Root), Place(w))
         /\ Place(Root) \in UpSteps /\ up[w][1].step = Place(Root)
         /\ Place(w) \in {"all_ok", "results", "status", "command"}
         /\ IsQueue(up[w], UpSteps)
         /\ Len(up[w]) \in Nat /\ 1 \in 1 .. Len(up[w])
         /\ Head(up[w]) = up[w][1]
  <1>1. down[w] = <<>> /\ IsQueue(up[w], UpSteps)
    BY DEF InStep, Typed, QueuesTyped
  <1>2. LeadsUp(up[w], Place(Root), Place(w))
    BY <1>1 DEF InStep
  <1>3. Place(Root) \in UpSteps /\ up[w][1].step = Place(Root)
    BY <1>1, <1>2, LeadsUpTail
  <1>4. Place(w) \in {"all_ok", "results", "status", "command"}
    BY <1>1, <1>2, LeadsUpShape
  <1> QED
    BY <1>1, <1>2, <1>3, <1>4, QueueFacts

LEMMA SamePlace ==
  ASSUME NEW w \in Workers, Typed, InStep(w), down[w] = <<>>, up[w] = <<>>
  PROVE  Place(w) = Place(Root)
  BY DEF InStep, LeadsUp

LEMMA PlaceOfGoal ==
  ASSUME NEW p \in Rank, Typed
  PROVE  /\ Goal(p) \in Goals /\ Place(p) \in DownSteps \cup UpSteps
         /\ at[p] \in DownSteps \cup UpSteps => Place(p) = at[p]
         /\ Place(p) \in Setup => at[p] = Place(p)
         /\ Place(p) \in Goals => at[p] \in {"evaluate", Place(p)}
         /\ Place(p) \in (DownSteps \cup UpSteps) \ ({"command"} \cup Goals)
              => at[p] = Place(p)
         /\ Place(p) = "command" => at[p] \in Idle \cup {"command"}
  <1>1. at[p] \in DownSteps \cup UpSteps \cup Idle \cup {"evaluate"}
    BY DEF Typed, Shapes, RootPlaces
  <1>2. Goal(p) \in Goals
    BY DEF Goal, Goals
  <1> QED
    BY <1>1, <1>2, DownStepsAre DEF Place, Idle, Goals, UpSteps, Setup

(* The other processes do not notice what a worker does.                     *)
WorkerFrame(w) ==
  /\ \A p \in Rank \ {w} :
       /\ at'[p] = at[p] /\ cache'[p] = cache[p] /\ local'[p] = local[p]
       /\ num_outputs_per_job_'[p] = num_outputs_per_job_[p]
  /\ \A v \in Workers \ {w} : down'[v] = down[v] /\ up'[v] = up[v]
  /\ UNCHANGED <<listening, in_use, request>>

LEMMA OthersUndisturbed ==
  ASSUME NEW w \in Workers, Control, WorkerFrame(w), Follows(w)'
  PROVE  Control'
  <1>1. RootOK'
    BY RootIsNoWorker DEF Control, WorkerFrame, RootOK
  <1>2. ASSUME NEW p \in Rank \ {w}
        PROVE  /\ CacheOK(p)' <=> CacheOK(p)
               /\ Place(p)' = Place(p) /\ Goal(p)' = Goal(p)
               /\ Warm(p)' <=> Warm(p)
               /\ Sized(p)' <=> Sized(p)
    <2>1. /\ at'[p] = at[p] /\ cache'[p] = cache[p] /\ local'[p] = local[p]
          /\ num_outputs_per_job_'[p] = num_outputs_per_job_[p]
      BY DEF WorkerFrame
    <2> QED
      BY <2>1 DEF CacheOK, Place, Goal, Warm, Sized, FirstEvaluation
  <1>3. CacheOK(Root)'
    BY <1>2, RootIsNoWorker DEF Control
  <1>4. ASSUME NEW v \in Workers \ {w}
        PROVE  Follows(v)'
    <2>1. /\ Follows(v) /\ v \in Rank \ {w} /\ Root \in Rank \ {w}
          /\ down'[v] = down[v] /\ up'[v] = up[v]
      BY RootIsNoWorker DEF Control, WorkerFrame
    <2>2. /\ at'[v] = at[v] /\ local'[v] = local[v] /\ local'[Root] = local[Root]
          /\ num_outputs_per_job_'[v] = num_outputs_per_job_[v]
          /\ num_outputs_per_job_'[Root] = num_outputs_per_job_[Root]
          /\ at'[Root] = at[Root]
      BY <2>1 DEF WorkerFrame
    <2>3. CacheOK(v)'
      BY <1>2, <2>1 DEF Follows
    <2>4. InStep(v)'
      <3>1. /\ Place(v)' = Place(v) /\ Place(Root)' = Place(Root)
            /\ Goal(Root)' = Goal(Root)
            /\ Warm(v)' = Warm(v) /\ Sized(v)' = Sized(v)
        BY <1>2, <2>1 DEF Warm, Sized
      <3> QED
        BY <2>1, <3>1 DEF Follows, InStep
    <2>5. SameKind(v)'
      BY <2>1, <2>2 DEF Follows, SameKind, InTheCall
    <2>6. SameCaches(v)'
      BY <1>2, <2>1, <2>2 DEF Follows, SameCaches
    <2>7. SameRows(v)'
      BY <2>1, <2>2 DEF Follows, SameRows
    <2> QED
      BY <2>3, <2>4, <2>5, <2>6, <2>7 DEF Follows
  <1> QED
    BY <1>1, <1>3, <1>4 DEF Control

(* A worker's part of a broadcast or scatter.                                *)
LEMMA ReceiveKeepsInStep ==
  ASSUME NEW w \in Workers, Typed, InStep(w), NEW step \in DownSteps,
         at[w] = step, Arrived(w, step), TakeDown(w), up' = up,
         Place(w)' = After(step, Delivered(w), Warm(w), Sized(w), Goal(Root)),
         Place(Root)' = Place(Root), Goal(Root)' = Goal(Root),
         (Warm(w)' <=> Warm(w)) \/ Len(down[w]) = 1,
         Sized(w)' <=> Sized(w)
  PROVE  /\ InStep(w)'
         /\ \A v \in Workers \ {w} : down'[v] = down[v]
         /\ DOMAIN down' = Workers
         /\ IsQueue(down'[w], DownSteps) /\ Len(down'[w]) <= Capacity
         /\ Len(down'[w]) = Len(down[w]) - 1 /\ Len(down[w]) \in Nat
         /\ \A i \in 1 .. Len(down'[w]) :
              i + 1 \in 1 .. Len(down[w]) /\ down'[w][i] = down[w][i + 1]
  <1>1. /\ down[w] # <<>> /\ Delivered(w) = down[w][1].load /\ up[w] = <<>>
        /\ IsQueue(down[w], DownSteps) /\ down[w][1].step = step
        /\ Len(down[w]) \in Nat /\ 1 \in 1 .. Len(down[w])
        /\ Leads(down[w], Place(w), Place(Root), Warm(w), Sized(w), Goal(Root))
    BY DownPlace DEF Arrived, Delivered
  <1>2. PICK q : q = Tail(down[w])
    OBVIOUS
  <1>3. /\ DOMAIN down' = Workers /\ down'[w] = q
        /\ \A v \in Workers \ {w} : down'[v] = down[v]
        /\ Len(down[w]) <= Capacity /\ Capacity \in Nat
    BY <1>2, ClusterAssumption DEF TakeDown, Typed, Shapes, QueuesTyped
  <1>4. /\ IsQueue(q, DownSteps) /\ Len(q) = Len(down[w]) - 1
        /\ \A i \in 1 .. Len(down[w]) - 1 : q[i] = down[w][i + 1]
    BY <1>1, <1>2, QueueTail
  <1>5. Leads(q, Place(w)', Place(Root)', Warm(w), Sized(w), Goal(Root)')
    BY <1>1, <1>2, LeadsTail
  <1>6. Leads(q, Place(w)', Place(Root)', Warm(w)', Sized(w)', Goal(Root)')
    <2>1. Sized(w)' = Sized(w)
      BY DEF Sized
    <2>2. CASE Warm(w)' <=> Warm(w)
      <3>1. Warm(w)' = Warm(w)
        BY <2>2 DEF Warm
      <3> QED
        BY <1>5, <2>1, <3>1
    <2>3. CASE Len(down[w]) = 1
      <3>1. q = <<>>
        BY <1>4, <2>3, QueueFacts
      <3> QED
        BY <1>5, <3>1 DEF Leads
    <2> QED
      BY <2>2, <2>3
  <1>7. Together(q)
    BY <1>1, <1>2, TogetherTail DEF InStep
  <1>8. q = <<>> => LeadsUp(up'[w], Place(Root)', Place(w)')
    BY <1>1, <1>6 DEF Leads, LeadsUp
  <1>9. InStep(w)'
    BY <1>1, <1>3, <1>6, <1>7, <1>8 DEF InStep
  <1>10. \A i \in 1 .. Len(q) :
              i + 1 \in 1 .. Len(down[w]) /\ q[i] = down[w][i + 1]
    BY <1>1, <1>4
  <1> QED
    BY <1>1, <1>3, <1>4, <1>9, <1>10

(* A worker's part of a reduce or gather.                                    *)
LEMMA SendKeepsInStep ==
  ASSUME NEW w \in Workers, Typed, InStep(w), NEW step \in UpSteps,
         at[w] = step, NEW load, SendUp(w, step, load), down' = down,
         Place(w)' = UpAfter(step), Place(Root)' = Place(Root)
  PROVE  /\ InStep(w)' /\ down[w] = <<>>
         /\ \A v \in Workers \ {w} : up'[v] = up[v]
         /\ DOMAIN up' = Workers
         /\ IsQueue(up'[w], UpSteps) /\ Len(up'[w]) <= Capacity
         /\ Len(up'[w]) = Len(up[w]) + 1 /\ Len(up[w]) \in Nat
         /\ \A i \in 1 .. Len(up[w]) : up'[w][i] = up[w][i]
         /\ up'[w][Len(up[w]) + 1].step = step
         /\ up'[w][Len(up[w]) + 1].load = load
         /\ up'[w] # <<>>
         /\ up'[w][1].step = IF up[w] = <<>> THEN step ELSE up[w][1].step
  <1>1. Place(w) = step /\ down[w] = <<>> /\ Len(down[w]) = 0
    <2>1. Place(w) = step
      BY DEF Place, UpSteps, Idle
    <2>2. down[w] = <<>>
      BY <2>1, DownPlace, DownIsNotUp
    <2> QED
      BY <2>1, <2>2, EmptySeq
  <1>2. LeadsUp(up[w], Place(Root), step)
    BY <1>1 DEF InStep
  <1>3. PICK m, r : m = [step |-> step, load |-> load] /\ r = Append(up[w], m)
    OBVIOUS
  <1>4. m.step = step /\ m.load = load
    BY <1>3
  <1>5. /\ DOMAIN up' = Workers /\ up'[w] = r
        /\ \A v \in Workers \ {w} : up'[v] = up[v]
        /\ Len(up[w]) < Capacity /\ Capacity \in Nat /\ IsQueue(up[w], UpSteps)
    BY <1>3, ClusterAssumption DEF SendUp, Typed, Shapes, QueuesTyped
  <1>6. /\ IsQueue(r, UpSteps) /\ r # <<>> /\ Len(r) = Len(up[w]) + 1
        /\ \A i \in 1 .. Len(up[w]) : r[i] = up[w][i]
        /\ r[Len(up[w]) + 1] = m
    BY <1>3, <1>4, <1>5, QueueAppend
  <1>7. LeadsUp(r, Place(Root), UpAfter(step))
    BY <1>2, <1>3, <1>4, <1>5, LeadsUpAppend
  <1>8. InStep(w)'
    BY <1>1, <1>5, <1>6, <1>7 DEF InStep, Together
  <1>9. r[1].step = IF up[w] = <<>> THEN step ELSE up[w][1].step
    BY <1>4, <1>5, <1>6, QueueFacts
  <1>10. Len(up[w]) \in Nat
    BY <1>5, QueueFacts
  <1> QED
    BY <1>1, <1>4, <1>5, <1>6, <1>8, <1>9, <1>10

LEMMA WorkerTyped ==
  ASSUME NEW w \in Workers, Typed, WorkerFrame(w), answer' = answer,
         Shapes', ProcessTyped(w)', QueuesTyped(w)'
  PROVE  Typed'
  <1>1. ASSUME NEW p \in Rank \ {w}
        PROVE  ProcessTyped(p)'
    BY DEF Typed, WorkerFrame, ProcessTyped
  <1>2. ASSUME NEW v \in Workers \ {w}
        PROVE  QueuesTyped(v)'
    BY RootIsNoWorker DEF Typed, WorkerFrame, QueuesTyped
  <1>3. listening' \in BOOLEAN /\ in_use' \in BOOLEAN
        /\ request' \in Requests \cup {NoRequest}
        /\ answer'.is \in {"none", "refused", "error", "columns"}
    BY DEF Typed, WorkerFrame
  <1> QED
    BY <1>1, <1>2, <1>3 DEF Typed

(* What every worker's step starts from.                                     *)
LEMMA WorkerFacts ==
  ASSUME CInv, NEW w \in Workers
  PROVE  /\ Typed /\ Control /\ Follows(w) /\ CacheOK(w) /\ InStep(w)
         /\ SameKind(w) /\ SameCaches(w) /\ SameRows(w)
         /\ CacheOK(Root) /\ RootOK
         /\ w \in Rank /\ w # Root /\ Root \in Rank
         /\ Shapes /\ ProcessTyped(w) /\ QueuesTyped(w) /\ ProcessTyped(Root)
  BY RootIsNoWorker DEF CInv, Control, Follows, Typed

LEMMA NoLocalsFields ==
  DOMAIN NoLocals = LocalFields /\ NoLocals.kind = "none"
  BY DEF NoLocals, LocalFields

(* A worker enters listen().                                                 *)
LEMMA ListenWorkerKeepsCInv ==
  ASSUME CInv, NEW w \in Workers, ListenWorker(w), UNCHANGED callVars
  PROVE  CInv'
  <1>1. /\ at[w] = "outside" /\ at' = [at EXCEPT ![w] = "command"]
        /\ UNCHANGED <<listening, in_use, down, up>>
        /\ UNCHANGED <<request, answer, cache, num_outputs_per_job_, local>>
    BY DEF ListenWorker, callVars
  <1>2. WorkerFrame(w)
    BY <1>1, WorkerFacts DEF WorkerFrame, Shapes
  <1>3. at' \in [Rank -> RootPlaces] /\ at'[w] = "command" /\ at'[Root] = at[Root]
    BY <1>1, WorkerFacts DEF Shapes, RootPlaces, DownSteps
  <1>4. Typed'
    <2>1. Shapes' /\ ProcessTyped(w)' /\ QueuesTyped(w)'
      BY <1>1, <1>3, WorkerFacts
         DEF Shapes, ProcessTyped, QueuesTyped, WorkerPlaces, DownSteps
    <2> QED
      BY <1>1, <1>2, <2>1, WorkerFacts, WorkerTyped
  <1>5. /\ Place(w)' = Place(w) /\ Place(Root)' = Place(Root)
        /\ Goal(Root)' = Goal(Root) /\ Warm(w)' = Warm(w) /\ Sized(w)' = Sized(w)
    BY <1>1, <1>3 DEF Place, Goal, Warm, Sized, FirstEvaluation, Idle
  <1>6. CacheOK(w)'
    BY <1>1, <1>3, WorkerFacts
       DEF CacheOK, Warm, Sized, Earlier, Setup, UpSteps, FirstEvaluation
  <1>7. InStep(w)'
    BY <1>1, <1>5, WorkerFacts DEF InStep
  <1>8. SameKind(w)'
    BY <1>1, <1>3, WorkerFacts DEF Follows, SameKind, InTheCall, Setup, UpSteps
  <1>9. SameCaches(w)' /\ SameRows(w)'
    BY <1>1, <1>3, WorkerFacts DEF Follows, SameCaches, SameRows, Warm, Sized
  <1> QED
    BY <1>2, <1>4, <1>6, <1>7, <1>8, <1>9, OthersUndisturbed DEF Follows, CInv

(* Messages that stay in a worker's queue say what they said.                *)
LEMMA TailKeepsMessages ==
  ASSUME NEW w \in Workers, SameKind(w), SameRows(w),
         Len(down[w]) \in Nat, Len(down'[w]) = Len(down[w]) - 1,
         \A i \in 1 .. Len(down'[w]) :
           i + 1 \in 1 .. Len(down[w]) /\ down'[w][i] = down[w][i + 1],
         down[w][1].step # "outputs_per_job",
         UNCHANGED num_outputs_per_job_, local'[Root] = local[Root],
         InTheCall(w)' => local'[w].kind = local[Root].kind
  PROVE  SameKind(w)' /\ SameRows(w)'
  <1>1. \A i \in 1 .. Len(down[w]) :
          i = 1 \/ \E j \in 1 .. Len(down'[w]) : down[w][i] = down'[w][j]
    <2> TAKE i \in 1 .. Len(down[w])
    <2>1. i # 1 => i - 1 \in 1 .. Len(down'[w]) /\ (i - 1) + 1 = i
      OBVIOUS
    <2> QED
      BY <2>1
  <1>2. SameKind(w)'
    BY DEF SameKind
  <1>3. PICK d, e, n, k : d = down[w] /\ e = down'[w] /\ n = num_outputs_per_job_
                          /\ k = local[Root].kind
    OBVIOUS
  <1>4. num_outputs_per_job_' = n /\ local'[Root].kind = k
    BY <1>3
  <1>5. \A i \in 1 .. Len(e) :
          e[i].step = "outputs_per_job" =>
            /\ e[i].load \in {0, 1}
            /\ \A x \in Kinds :
                 n[Root][x] = IF x = k THEN e[i].load ELSE n[w][x]
    <2> TAKE i \in 1 .. Len(e)
    <2>1. i + 1 \in 1 .. Len(d) /\ e[i] = d[i + 1]
      BY <1>3
    <2> QED
      BY <1>3, <2>1 DEF SameRows
  <1>6. (\A i \in 1 .. Len(e) : e[i].step # "outputs_per_job") =>
          \A x \in Kinds : n[Root][x] = n[w][x]
    <2> HAVE \A i \in 1 .. Len(e) : e[i].step # "outputs_per_job"
    <2>1. ASSUME NEW i \in 1 .. Len(d)
          PROVE  d[i].step # "outputs_per_job"
      <3>1. i = 1 \/ \E j \in 1 .. Len(e) : d[i] = e[j]
        BY <1>1, <1>3
      <3>2. d[1].step # "outputs_per_job"
        BY <1>3
      <3> QED
        BY <3>1, <3>2
    <2> QED
      BY <1>3, <2>1 DEF SameRows
  <1>7. SameRows(w)'
    BY <1>3, <1>4, <1>5, <1>6 DEF SameRows
  <1> QED
    BY <1>2, <1>7

(* A worker is told to stop.                                                 *)
LEMMA StopWorkerKeepsCInv ==
  ASSUME CInv, NEW w \in Workers, StopWorker(w), UNCHANGED callVars
  PROVE  CInv'
  <1>1. /\ at[w] = "command" /\ at' = [at EXCEPT ![w] = "outside"]
        /\ Arrived(w, "command") /\ Delivered(w) = "stop" /\ TakeDown(w)
        /\ UNCHANGED <<listening, in_use, up>>
        /\ UNCHANGED <<request, answer, cache, num_outputs_per_job_, local>>
    BY DEF StopWorker, callVars
  <1>2. at' \in [Rank -> RootPlaces] /\ at'[w] = "outside" /\ at'[Root] = at[Root]
    BY <1>1, WorkerFacts DEF Shapes, RootPlaces, Idle
  <1>3. /\ Place(w)' = "command" /\ Place(Root)' = Place(Root)
        /\ Goal(Root)' = Goal(Root) /\ Warm(w)' = Warm(w) /\ Sized(w)' = Sized(w)
    BY <1>1, <1>2 DEF Place, Goal, Warm, Sized, FirstEvaluation, Idle
  <1>4. After("command", "stop", Warm(w), Sized(w), Goal(Root)) = "command"
    BY DEF After
  <1>5. /\ InStep(w)'
        /\ \A v \in Workers \ {w} : down'[v] = down[v]
        /\ DOMAIN down' = Workers
        /\ IsQueue(down'[w], DownSteps) /\ Len(down'[w]) <= Capacity
        /\ Len(down'[w]) = Len(down[w]) - 1 /\ Len(down[w]) \in Nat
        /\ \A i \in 1 .. Len(down'[w]) :
             i + 1 \in 1 .. Len(down[w]) /\ down'[w][i] = down[w][i + 1]
    BY <1>1, <1>3, <1>4, WorkerFacts, ReceiveKeepsInStep, DownStepsAre
  <1>6. WorkerFrame(w)
    BY <1>1, <1>5, WorkerFacts DEF WorkerFrame, Shapes
  <1>7. Typed'
    <2>1. Shapes' /\ ProcessTyped(w)' /\ QueuesTyped(w)'
      BY <1>1, <1>2, <1>5, WorkerFacts
         DEF Shapes, ProcessTyped, QueuesTyped, WorkerPlaces
    <2> QED
      BY <1>1, <1>6, <2>1, WorkerFacts, WorkerTyped
  <1>8. CacheOK(w)'
    BY <1>1, <1>2, WorkerFacts
       DEF CacheOK, Warm, Sized, Earlier, Setup, UpSteps, FirstEvaluation
  <1>9. SameKind(w)' /\ SameRows(w)'
    <2>1. down[w][1].step = "command"
      BY <1>1, WorkerFacts, DownPlace DEF Arrived
    <2>2. ~InTheCall(w)'
      BY <1>2 DEF InTheCall, Setup, UpSteps
    <2> QED
      BY <1>1, <1>5, <2>1, <2>2, WorkerFacts, TailKeepsMessages
  <1>10. SameCaches(w)'
    BY <1>1, <1>2, WorkerFacts DEF SameCaches, Warm, Sized
  <1> QED
    BY <1>5, <1>6, <1>7, <1>8, <1>9, <1>10, WorkerFacts, OthersUndisturbed
       DEF Follows, CInv

(* A worker is told to run a call.                                           *)
LEMMA RunCommandKeepsCInv ==
  ASSUME CInv, NEW w \in Workers, RunCommand(w)
  PROVE  CInv'
  <1>1. PICK next : next = SetupFrom(w, 1)
    OBVIOUS
  <1>2. /\ at[w] = "command" /\ at' = [at EXCEPT ![w] = next]
        /\ Arrived(w, "command") /\ Delivered(w) # "stop" /\ TakeDown(w)
        /\ local' = [local EXCEPT ![w].kind = Delivered(w)]
        /\ UNCHANGED <<listening, in_use, up>>
        /\ UNCHANGED <<request, answer, cache, num_outputs_per_job_>>
    BY <1>1 DEF RunCommand
  <1>3. next = IF Warm(w) THEN "shared" ELSE "chunks"
    BY <1>1, <1>2, WorkerFacts, SetupStart DEF ProcessTyped
  <1>4. /\ at' \in [Rank -> RootPlaces] /\ at'[w] = next /\ at'[Root] = at[Root]
        /\ next \in Setup /\ next \in DownSteps
    BY <1>2, <1>3, WorkerFacts, DownStepsAre DEF Shapes, RootPlaces, Setup
  <1>5. /\ down[w] # <<>> /\ down[w][1].step = "command"
        /\ down[w][1].load = Delivered(w) /\ Begins(down[w][1])
        /\ 1 \in 1 .. Len(down[w])
    BY <1>2, WorkerFacts, DownPlace DEF Arrived, Delivered, Begins
  <1>6. Delivered(w) = local[Root].kind /\ local[Root].kind \in Kinds
    <2>1. Delivered(w) = local[Root].kind
      BY <1>2, <1>5, WorkerFacts DEF SameKind
    <2>2. Place(Root) \in Setup \cup Goals
      BY <1>5, WorkerFacts, DownPlace, BeginsLeads DEF InStep
    <2>3. at[Root] \in Setup \cup {"evaluate"} \cup Goals
      BY <2>2, WorkerFacts, PlaceOfGoal
    <2> QED
      BY <2>1, <2>3, WorkerFacts DEF CacheOK, Goals, UpSteps
  <1>7. /\ DOMAIN local' = Rank /\ local'[Root] = local[Root]
        /\ DOMAIN local'[w] = LocalFields /\ local'[w].kind = local[Root].kind
        /\ \A p \in Rank \ {w} : local'[p] = local[p]
    BY <1>2, <1>6, WorkerFacts DEF Shapes, ProcessTyped, LocalFields
  <1>8. /\ Place(w)' = next /\ Place(Root)' = Place(Root)
        /\ Goal(Root)' = Goal(Root) /\ Warm(w)' = Warm(w) /\ Sized(w)' = Sized(w)
    BY <1>2, <1>4, <1>7
       DEF Place, Goal, Warm, Sized, FirstEvaluation, Idle, Setup
  <1>9. Place(w)' = After("command", Delivered(w), Warm(w), Sized(w), Goal(Root))
    BY <1>2, <1>3, <1>8 DEF After
  <1>10. /\ InStep(w)'
         /\ \A v \in Workers \ {w} : down'[v] = down[v]
         /\ DOMAIN down' = Workers
         /\ IsQueue(down'[w], DownSteps) /\ Len(down'[w]) <= Capacity
         /\ Len(down'[w]) = Len(down[w]) - 1 /\ Len(down[w]) \in Nat
         /\ \A i \in 1 .. Len(down'[w]) :
              i + 1 \in 1 .. Len(down[w]) /\ down'[w][i] = down[w][i + 1]
    BY <1>2, <1>8, <1>9, WorkerFacts, ReceiveKeepsInStep, DownStepsAre
  <1>11. WorkerFrame(w)
    BY <1>2, <1>7, <1>10, WorkerFacts DEF WorkerFrame, Shapes
  <1>12. Typed'
    <2>1. Shapes' /\ ProcessTyped(w)' /\ QueuesTyped(w)'
      BY <1>2, <1>4, <1>6, <1>7, <1>10, WorkerFacts
         DEF Shapes, ProcessTyped, QueuesTyped, WorkerPlaces
    <2> QED
      BY <1>2, <1>11, <2>1, WorkerFacts, WorkerTyped
  <1>13. CacheOK(w)'
    BY <1>2, <1>3, <1>4, <1>6, <1>7, <1>8, WorkerFacts
       DEF CacheOK, Warm, Sized, Earlier, Setup, UpSteps
  <1>14. SameKind(w)' /\ SameRows(w)'
    BY <1>2, <1>5, <1>7, <1>10, WorkerFacts, TailKeepsMessages
  <1>15. SameCaches(w)'
    BY <1>2, <1>4, WorkerFacts DEF SameCaches, Warm, Sized
  <1> QED
    BY <1>10, <1>11, <1>12, <1>13, <1>14, <1>15, WorkerFacts, OthersUndisturbed
       DEF Follows, CInv

LEMMA WarmAfterSetup ==
  ASSUME NEW p, CacheOK(p), at[p] \notin Setup \cup {"command", "outside", "ready"}
  PROVE  Warm(p)
  BY DEF CacheOK

(* During the setup a worker knows which evaluation is its first.            *)
LEMMA SetupGoal ==
  ASSUME CInv, NEW w \in Workers, down[w] # <<>>, at[w] \in Setup
  PROVE  Goal(w) = Goal(Root)
  <1>1. /\ Len(down[w]) \in Nat /\ 1 \in 1 .. Len(down[w])
        /\ down[w][1].step = Place(w) /\ Together(down[w])
        /\ IsQueue(down[w], DownSteps)
    BY WorkerFacts, DownPlace DEF InStep
  <1>2. down[w][1].step \in Setup
    BY <1>1 DEF Place, Setup, Idle
  <1>3. \A i \in 1 .. Len(down[w]) : down[w][i].step \in Setup
    <2>1. \A i \in 1 .. Len(down[w]) : i = 1 \/ 1 < i
      BY <1>1
    <2> QED
      BY <1>1, <1>2, <2>1 DEF Together, Begins
  <1>4. local[w].kind = local[Root].kind /\ local[w].kind \in Kinds
    BY WorkerFacts DEF SameKind, InTheCall, CacheOK
  <1>5. \A i \in 1 .. Len(down[w]) : down[w][i].step # "outputs_per_job"
    BY <1>3 DEF Setup
  <1>6. num_outputs_per_job_[Root][local[w].kind] = num_outputs_per_job_[w][local[w].kind]
    BY <1>4, <1>5, WorkerFacts DEF SameRows
  <1> QED
    BY <1>4, <1>6 DEF Goal, FirstEvaluation

(* A worker takes part in a broadcast or scatter of the setup.               *)
LEMMA SetupReceiveKeepsCInv ==
  ASSUME CInv, NEW w \in Workers, NEW step \in Setup, SetupReceive(w, step)
  PROVE  CInv'
  <1>1. /\ at[w] = step /\ Arrived(w, step) /\ Take(w, step, Delivered(w))
        /\ TakeDown(w) /\ up' = up /\ step \in DownSteps
    BY DownIsNotUp DEF SetupReceive
  <1>2. /\ DOMAIN cache' = Rank /\ DOMAIN local' = Rank
        /\ \A q \in Rank \ {w} : /\ at'[q] = at[q] /\ cache'[q] = cache[q]
                                 /\ local'[q] = local[q]
        /\ UNCHANGED <<listening, in_use, request, answer, num_outputs_per_job_>>
        /\ DOMAIN cache'[w] = DOMAIN cache[w] \cup ({step} \cap CachedSteps)
        /\ DOMAIN local'[w] = LocalFields /\ local'[w].kind = local[w].kind
        /\ at' \in [Rank -> RootPlaces]
    BY <1>1, WorkerFacts, TakeEffect
  <1>3. /\ CacheOK(w)'
        /\ Warm(w)' <=> Warm(w) \/ step = "x_i"
        /\ Sized(w)' <=> Sized(w)
        /\ \A load, sized : Place(w)' = After(step, load, Warm(w), sized, Goal(w))
        /\ at'[w] \in Setup \cup {"evaluate"}
    BY <1>1, WorkerFacts, TakeKeepsCacheOK
  <1>4. /\ down[w] # <<>> /\ down[w][1].step = step /\ up[w] = <<>>
        /\ Leads(down[w], Place(w), Place(Root), Warm(w), Sized(w), Goal(Root))
        /\ Goal(Root) \in Goals /\ IsQueue(down[w], DownSteps)
        /\ Len(down[w]) \in Nat /\ 1 \in 1 .. Len(down[w])
    <2>1. down[w] # <<>>
      BY <1>1 DEF Arrived
    <2> QED
      BY <1>1, <2>1, WorkerFacts, DownPlace DEF Arrived
  <1>5. Goal(w) = Goal(Root)
    BY <1>1, <1>4, SetupGoal
  <1>6. Place(w)' = After(step, Delivered(w), Warm(w), Sized(w), Goal(Root))
    BY <1>3, <1>5
  <1>7. /\ at'[Root] = at[Root] /\ cache'[Root] = cache[Root]
        /\ local'[Root] = local[Root]
        /\ Place(Root)' = Place(Root) /\ Goal(Root)' = Goal(Root)
    BY <1>2, WorkerFacts DEF Place, Goal, FirstEvaluation
  <1>8. step = "x_i" => Len(down[w]) = 1
    BY <1>4, LeadsShape
  <1>9. /\ InStep(w)'
        /\ \A v \in Workers \ {w} : down'[v] = down[v]
        /\ DOMAIN down' = Workers
        /\ IsQueue(down'[w], DownSteps) /\ Len(down'[w]) <= Capacity
        /\ Len(down'[w]) = Len(down[w]) - 1 /\ Len(down[w]) \in Nat
        /\ \A i \in 1 .. Len(down'[w]) :
             i + 1 \in 1 .. Len(down[w]) /\ down'[w][i] = down[w][i + 1]
    BY <1>1, <1>3, <1>6, <1>7, <1>8, WorkerFacts, ReceiveKeepsInStep
  <1>10. WorkerFrame(w)
    BY <1>1, <1>2, <1>9, WorkerFacts DEF WorkerFrame
  <1>11. Typed'
    <2>1. ProcessTyped(w)'
      BY <1>2, WorkerFacts DEF ProcessTyped
    <2>2. Shapes' /\ QueuesTyped(w)'
      BY <1>1, <1>2, <1>3, <1>9, WorkerFacts, DownStepsAre
         DEF Shapes, QueuesTyped, WorkerPlaces
    <2> QED
      BY <1>2, <1>10, <2>1, <2>2, WorkerFacts, WorkerTyped
  <1>12. SameKind(w)' /\ SameRows(w)'
    <2>1. local'[w].kind = local[Root].kind
      BY <1>1, <1>2, WorkerFacts DEF SameKind, InTheCall
    <2>2. down[w][1].step # "outputs_per_job"
      BY <1>4 DEF Setup
    <2> QED
      BY <1>2, <1>7, <1>9, <2>1, <2>2, WorkerFacts, TailKeepsMessages
  <1>13. SameCaches(w)'
    <2>1. (Warm(Root)' <=> Warm(Root)) /\ (Sized(Root)' <=> Sized(Root))
      BY <1>7 DEF Warm, Sized
    <2>2. step = "x_i" => Warm(Root)
      <3> HAVE step = "x_i"
      <3>1. Place(Root) = Goal(Root)
        BY <1>4, <1>8 DEF Leads, After
      <3>2. at[Root] \in {"evaluate"} \cup Goals
        BY <1>4, <3>1, WorkerFacts, PlaceOfGoal
      <3> QED
        BY <3>2, WorkerFacts DEF CacheOK, Goals, Setup
    <2> QED
      BY <1>1, <1>3, <1>7, <2>1, <2>2, WorkerFacts DEF SameCaches
  <1> QED
    BY <1>3, <1>9, <1>10, <1>11, <1>12, <1>13, WorkerFacts, OthersUndisturbed
       DEF Follows, CInv

(* A worker evaluates its jobs.                                              *)
LEMMA EvaluateWorkerKeepsCInv ==
  ASSUME CInv, NEW w \in Workers, Evaluate(w)
  PROVE  CInv'
  <1>1. PICK next : next = IF FirstEvaluation(w) THEN "ok" ELSE "results"
    OBVIOUS
  <1>2. PICK f, g : local' = [local EXCEPT ![w].f_out = f, ![w].ok = g]
    BY DEF Evaluate
  <1>3. /\ at[w] = "evaluate" /\ at' = [at EXCEPT ![w] = next]
        /\ UNCHANGED <<listening, in_use, down, up>>
        /\ UNCHANGED <<request, answer, cache, num_outputs_per_job_>>
    <2>1. CommandRefused(w) # "no"
      BY WorkerFacts DEF CommandRefused
    <2> QED
      BY <1>1, <2>1 DEF Evaluate, SendNestedCommands
  <1>4. /\ DOMAIN local' = Rank
        /\ DOMAIN local'[w] = LocalFields /\ local'[w].kind = local[w].kind
        /\ \A p \in Rank \ {w} : local'[p] = local[p]
    BY <1>2, WorkerFacts DEF Shapes, ProcessTyped, LocalFields
  <1>5. /\ at' \in [Rank -> RootPlaces] /\ at'[w] = next /\ at'[Root] = at[Root]
        /\ next \in UpSteps /\ next = Goal(w)
    BY <1>1, <1>3, WorkerFacts DEF Shapes, RootPlaces, UpSteps, Goal
  <1>6. WorkerFrame(w)
    BY <1>3, <1>4, WorkerFacts DEF WorkerFrame, Shapes
  <1>7. Typed'
    <2>1. Shapes' /\ ProcessTyped(w)' /\ QueuesTyped(w)'
      BY <1>3, <1>4, <1>5, WorkerFacts
         DEF Shapes, ProcessTyped, QueuesTyped, WorkerPlaces
    <2> QED
      BY <1>3, <1>6, <2>1, WorkerFacts, WorkerTyped
  <1>8. /\ Place(w)' = Place(w) /\ Place(Root)' = Place(Root)
        /\ Goal(Root)' = Goal(Root) /\ Warm(w)' = Warm(w) /\ Sized(w)' = Sized(w)
        /\ FirstEvaluation(w)' = FirstEvaluation(w)
    BY <1>3, <1>4, <1>5, WorkerFacts
       DEF Place, Goal, Warm, Sized, FirstEvaluation, Idle, UpSteps
  <1>9. CacheOK(w)'
    <2>1. PICK k, n, D : /\ k = local[w].kind /\ n = num_outputs_per_job_[w]
                         /\ D = DOMAIN cache[w]
      OBVIOUS
    <2>2. /\ CachedSteps \subseteq D /\ k \in Kinds
          /\ \A x \in Kinds : n[x] # -1 => "f_out" \in D
      <3>1. Warm(w)
        BY <1>3, WorkerFacts, WarmAfterSetup DEF Setup
      <3>2. local[w].kind \in Kinds
        BY <1>3, WorkerFacts DEF CacheOK
      <3>3. \A x \in Kinds : num_outputs_per_job_[w][x] # -1 => Sized(w)
        BY <1>3, WorkerFacts DEF CacheOK
      <3> QED
        BY <2>1, <3>1, <3>2, <3>3 DEF Warm, Sized
    <2>3. (next = "ok" /\ n[k] = -1) \/ (next = "results" /\ n[k] # -1)
      BY <1>1, <2>1 DEF FirstEvaluation
    <2>4. /\ at'[w] = next /\ DOMAIN cache'[w] = D /\ local'[w].kind = k
          /\ num_outputs_per_job_'[w] = n
      BY <1>3, <1>4, <1>5, <2>1
    <2>5. Warm(w)' /\ (Sized(w)' <=> "f_out" \in D)
          /\ (FirstEvaluation(w)' <=> n[k] = -1)
      BY <2>2, <2>4 DEF Warm, Sized, FirstEvaluation
    <2>6. next = "results" => "f_out" \in D
      BY <2>2, <2>3
    <2>7. next \notin Setup \cup {"f_out", "status", "all_ok", "outputs_per_job"}
      BY <2>3 DEF Setup
    <2> QED
      BY <2>2, <2>3, <2>4, <2>5, <2>6, <2>7 DEF CacheOK
  <1>10. InStep(w)'
    BY <1>3, <1>8, WorkerFacts DEF InStep
  <1>11. SameKind(w)'
    BY <1>3, <1>4, <1>5, WorkerFacts DEF SameKind, InTheCall
  <1>12. SameCaches(w)' /\ SameRows(w)'
    BY <1>3, <1>4, <1>5, WorkerFacts DEF SameCaches, SameRows, Warm, Sized
  <1> QED
    BY <1>6, <1>7, <1>9, <1>10, <1>11, <1>12, WorkerFacts, OthersUndisturbed
       DEF Follows, CInv

(* A worker sends its part of a reduce or gather, and remembers no more than *)
(* its sizes.                                                                *)
LEMMA SendUpKeepsCInv ==
  ASSUME CInv, NEW w \in Workers, NEW step \in UpSteps, NEW load, at[w] = step,
         SendUp(w, step, load), at' = [at EXCEPT ![w] = UpAfter(step)],
         UNCHANGED <<listening, in_use, down, request, answer,
                     num_outputs_per_job_>>,
         DOMAIN cache' = Rank, \A p \in Rank \ {w} : cache'[p] = cache[p],
         DOMAIN cache'[w] = DOMAIN cache[w] \cup ({step} \cap {"f_out"}),
         DOMAIN local' = Rank, \A p \in Rank \ {w} : local'[p] = local[p],
         DOMAIN local'[w] = LocalFields,
         local'[w].kind = IF step = "status" THEN "none" ELSE local[w].kind
  PROVE  CInv'
  <1>1. PICK next : next = UpAfter(step)
    OBVIOUS
  <1>2. /\ next \in {"all_ok", "results", "status", "command"}
        /\ next = "all_ok" <=> step = "ok"
        /\ next = "results" <=> step = "f_out"
        /\ next = "status" <=> step = "results"
        /\ next = "command" <=> step = "status"
    BY <1>1, UpAfterStep
  <1>3. /\ at' \in [Rank -> RootPlaces] /\ at'[w] = next /\ at'[Root] = at[Root]
        /\ \A p \in Rank \ {w} : at'[p] = at[p]
    BY <1>1, <1>2, WorkerFacts, DownStepsAre DEF Shapes, RootPlaces, UpSteps
  <1>4. /\ cache'[Root] = cache[Root] /\ local'[Root] = local[Root]
        /\ Place(Root)' = Place(Root) /\ Goal(Root)' = Goal(Root)
        /\ Warm(Root)' = Warm(Root) /\ Sized(Root)' = Sized(Root)
    BY <1>3, WorkerFacts DEF Place, Goal, Warm, Sized, FirstEvaluation
  <1>5. Place(w)' = UpAfter(step)
    BY <1>1, <1>2, <1>3 DEF Place, Idle
  <1>6. /\ InStep(w)' /\ down[w] = <<>>
        /\ \A v \in Workers \ {w} : up'[v] = up[v]
        /\ DOMAIN up' = Workers
        /\ IsQueue(up'[w], UpSteps) /\ Len(up'[w]) <= Capacity
        /\ up'[w] # <<>>
        /\ up'[w][1].step = IF up[w] = <<>> THEN step ELSE up[w][1].step
    <2>1. Typed /\ InStep(w) /\ down' = down /\ Place(Root)' = Place(Root)
      BY <1>4, WorkerFacts
    <2>2. /\ InStep(w)' /\ down[w] = <<>>
          /\ \A v \in Workers \ {w} : up'[v] = up[v]
          /\ DOMAIN up' = Workers
          /\ IsQueue(up'[w], UpSteps) /\ Len(up'[w]) <= Capacity
      BY <1>5, <2>1, SendKeepsInStep
    <2>3. /\ up'[w] # <<>>
          /\ up'[w][1].step = IF up[w] = <<>> THEN step ELSE up[w][1].step
      BY <1>5, <2>1, SendKeepsInStep, ZenonT(30)
    <2> QED
      BY <2>2, <2>3
  <1>7. WorkerFrame(w)
    BY <1>3, <1>6, WorkerFacts DEF WorkerFrame
  <1>8. Typed'
    <2>1. ProcessTyped(w)'
      BY <1>4, WorkerFacts DEF ProcessTyped
    <2>2. Shapes'
      BY <1>3, <1>6, WorkerFacts DEF Shapes
    <2>3. QueuesTyped(w)'
      BY <1>2, <1>3, <1>6, WorkerFacts, DownStepsAre
         DEF QueuesTyped, WorkerPlaces, UpSteps
    <2> QED
      BY <1>7, <2>1, <2>2, <2>3, WorkerFacts, WorkerTyped
  <1>9. CacheOK(w)'
    <2>1. PICK k, n, D : /\ k = local[w].kind /\ n = num_outputs_per_job_[w]
                         /\ D = DOMAIN cache[w]
      OBVIOUS
    <2>2. /\ CachedSteps \subseteq D /\ k \in Kinds
          /\ \A x \in Kinds : n[x] # -1 => "f_out" \in D \/ step = "f_out"
          /\ step \in {"results", "status"} => "f_out" \in D
          /\ step = "ok" => n[k] = -1
          /\ step \in {"f_out", "results", "status"} => n[k] # -1
      <3>1. Warm(w)
        BY WorkerFacts, WarmAfterSetup DEF UpSteps, Setup
      <3>2. local[w].kind \in Kinds
        BY WorkerFacts DEF CacheOK
      <3>3. \A x \in Kinds :
              num_outputs_per_job_[w][x] # -1 => Sized(w) \/ step = "f_out"
        BY WorkerFacts DEF CacheOK
      <3>4. step \in {"results", "status"} => Sized(w)
        BY WorkerFacts DEF CacheOK
      <3>5. /\ step = "ok" => FirstEvaluation(w)
            /\ step \in {"f_out", "results", "status"} => ~FirstEvaluation(w)
        BY WorkerFacts DEF CacheOK
      <3> QED
        BY <2>1, <3>1, <3>2, <3>3, <3>4, <3>5 DEF Warm, Sized, FirstEvaluation
    <2>3. /\ at'[w] = next /\ DOMAIN cache'[w] = D \cup ({step} \cap {"f_out"})
          /\ local'[w].kind = IF step = "status" THEN "none" ELSE k
          /\ num_outputs_per_job_'[w] = n
      BY <1>3, <2>1
    <2>4. /\ Warm(w)' /\ (Sized(w)' <=> "f_out" \in D \/ step = "f_out")
          /\ step # "status" => (FirstEvaluation(w)' <=> n[k] = -1)
      BY <2>2, <2>3 DEF Warm, Sized, FirstEvaluation
    <2>5. next \notin Setup \cup {"f_out", "ok", "outputs_per_job", "evaluate"}
      BY <1>2 DEF Setup
    <2>6. CASE step = "status"
      <3>1. next \notin Setup \cup UpSteps \cup
                         {"evaluate", "all_ok", "outputs_per_job"}
        BY <1>2, <2>6 DEF Setup, UpSteps
      <3> QED
        BY <2>2, <2>3, <2>4, <2>6, <3>1 DEF CacheOK, UpSteps
    <2>7. CASE step # "status"
      BY <1>2, <2>2, <2>3, <2>4, <2>5, <2>7 DEF CacheOK
    <2> QED
      BY <2>6, <2>7
  <1>10. SameKind(w)'
    <2>1. local[w].kind = local[Root].kind
      BY WorkerFacts DEF SameKind, InTheCall
    <2>2. InTheCall(w)' => step # "status"
      BY <1>2, <1>3 DEF InTheCall, Setup, UpSteps
    <2>3. down'[w] = <<>> /\ Len(down'[w]) = 0
      BY <1>6, EmptySeq
    <2> QED
      BY <1>4, <2>1, <2>2, <2>3 DEF SameKind
  <1>11. SameCaches(w)'
    <2>1. /\ Warm(w)' <=> Warm(w)
          /\ Sized(w)' <=> Sized(w) \/ step = "f_out"
      BY DEF Warm, Sized, CachedSteps
    <2>2. step = "f_out" => up[w] = <<>> /\ ~Sized(w)
      <3> HAVE step = "f_out"
      <3>1. Place(w) = "f_out"
        BY DEF Place, Idle
      <3> QED
        BY <3>1, WorkerFacts, UpPlace DEF CacheOK
    <2>3. /\ Warm(w) => Warm(Root)
          /\ Warm(Root) /\ ~Warm(w) => at[Root] \in {"evaluate", "ok", "results"}
          /\ Sized(w) <=> Sized(Root) \/ (up[w] # <<>> /\ up[w][1].step = "f_out")
      BY WorkerFacts DEF SameCaches
    <2>4. Sized(w)' <=> Sized(Root) \/ (up'[w] # <<>> /\ up'[w][1].step = "f_out")
      BY <1>6, <2>1, <2>2, <2>3
    <2>5. Warm(w)
      BY WorkerFacts, WarmAfterSetup DEF UpSteps, Setup
    <2> QED
      BY <1>3, <1>4, <2>1, <2>3, <2>4, <2>5 DEF SameCaches, Warm, Sized
  <1>12. SameRows(w)'
    BY <1>4, WorkerFacts DEF SameRows
  <1> QED
    BY <1>6, <1>7, <1>8, <1>9, <1>10, <1>11, <1>12, WorkerFacts, OthersUndisturbed
       DEF Follows, CInv

LEMMA UpStepsAre ==
  /\ UpAfter("ok") = "all_ok" /\ UpAfter("f_out") = "results"
  /\ UpAfter("results") = "status" /\ UpAfter("status") = "command"
  /\ {"ok", "f_out", "results", "status"} \subseteq UpSteps
  BY DEF UpAfter, UpSteps

LEMMA WorkerSendsKeepCInv ==
  ASSUME CInv, NEW w \in Workers,
         SendOk(w) \/ SendSizes(w) \/ SendResults(w) \/ SendStatus(w)
  PROVE  CInv'
  <1>1. /\ DOMAIN cache = Rank /\ DOMAIN local = Rank /\ w \in Rank
        /\ DOMAIN local[w] = LocalFields
    BY WorkerFacts DEF Shapes, ProcessTyped
  <1>2. CASE SendOk(w)
    <2>1. /\ at[w] = "ok" /\ SendUp(w, "ok", local[w].ok)
          /\ at' = [at EXCEPT ![w] = UpAfter("ok")]
          /\ UNCHANGED <<listening, in_use, down, request, answer,
                         num_outputs_per_job_>>
          /\ cache' = cache /\ local' = local
      BY <1>2, UpStepsAre DEF SendOk
    <2>2. DOMAIN cache'[w] = DOMAIN cache[w] \cup ({"ok"} \cap {"f_out"})
      BY <2>1
    <2> QED
      BY <1>1, <2>1, <2>2, UpStepsAre, SendUpKeepsCInv
  <1>3. CASE SendSizes(w)
    <2>1. /\ at[w] = "f_out" /\ SendUp(w, "f_out", local[w].f_out)
          /\ at' = [at EXCEPT ![w] = UpAfter("f_out")]
          /\ UNCHANGED <<listening, in_use, down, request, answer,
                         num_outputs_per_job_>>
          /\ Store(w, "f_out", WithOwnSizes(w)) /\ local' = local
      BY <1>3, UpStepsAre DEF SendSizes
    <2>2. /\ DOMAIN cache' = Rank /\ \A p \in Rank \ {w} : cache'[p] = cache[p]
          /\ DOMAIN cache'[w] = DOMAIN cache[w] \cup ({"f_out"} \cap {"f_out"})
      BY <1>1, <2>1, StoreEffect
    <2> QED
      BY <1>1, <2>1, <2>2, UpStepsAre, SendUpKeepsCInv
  <1>4. CASE SendResults(w)
    <2>1. /\ at[w] = "results" /\ SendUp(w, "results", LocalResult(w))
          /\ at' = [at EXCEPT ![w] = UpAfter("results")]
          /\ UNCHANGED <<listening, in_use, down, request, answer,
                         num_outputs_per_job_>>
          /\ cache' = cache /\ local' = [local EXCEPT ![w].ok = StillOk(w)]
      BY <1>4, UpStepsAre DEF SendResults
    <2>2. DOMAIN cache'[w] = DOMAIN cache[w] \cup ({"results"} \cap {"f_out"})
      BY <2>1
    <2>3. /\ DOMAIN local' = Rank /\ \A p \in Rank \ {w} : local'[p] = local[p]
          /\ DOMAIN local'[w] = LocalFields /\ local'[w].kind = local[w].kind
      BY <1>1, <2>1 DEF LocalFields
    <2> QED
      BY <1>1, <2>1, <2>2, <2>3, UpStepsAre, SendUpKeepsCInv
  <1>5. CASE SendStatus(w)
    <2>1. /\ at[w] = "status" /\ SendUp(w, "status", local[w].ok)
          /\ at' = [at EXCEPT ![w] = UpAfter("status")]
          /\ UNCHANGED <<listening, in_use, down, request, answer,
                         num_outputs_per_job_>>
          /\ cache' = cache /\ local' = [local EXCEPT ![w] = NoLocals]
      BY <1>5, UpStepsAre DEF SendStatus
    <2>2. DOMAIN cache'[w] = DOMAIN cache[w] \cup ({"status"} \cap {"f_out"})
      BY <2>1
    <2>3. /\ DOMAIN local' = Rank /\ \A p \in Rank \ {w} : local'[p] = local[p]
          /\ DOMAIN local'[w] = LocalFields /\ local'[w].kind = "none"
      BY <1>1, <2>1, NoLocalsFields
    <2> QED
      BY <1>1, <2>1, <2>2, <2>3, UpStepsAre, SendUpKeepsCInv
  <1> QED
    BY <1>2, <1>3, <1>4, <1>5

(* A worker learns whether the first evaluation went well everywhere.        *)
LEMMA ReceiveAllOkKeepsCInv ==
  ASSUME CInv, NEW w \in Workers, ReceiveAllOk(w)
  PROVE  CInv'
  <1>1. PICK next : next = IF Delivered(w) THEN "outputs_per_job" ELSE "command"
    OBVIOUS
  <1>2. /\ at[w] = "all_ok" /\ Arrived(w, "all_ok") /\ TakeDown(w)
        /\ at' = [at EXCEPT ![w] = next]
        /\ local' = local \/ local' = [local EXCEPT ![w] = NoLocals]
        /\ Delivered(w) => local' = local
        /\ UNCHANGED <<listening, in_use, up, request, answer, cache>>
        /\ UNCHANGED num_outputs_per_job_
    BY <1>1 DEF ReceiveAllOk
  <1>3. /\ at' \in [Rank -> RootPlaces] /\ at'[w] = next /\ at'[Root] = at[Root]
        /\ next \in {"outputs_per_job", "command"}
        /\ \A p \in Rank \ {w} : at'[p] = at[p]
    BY <1>1, <1>2, WorkerFacts, DownStepsAre DEF Shapes, RootPlaces
  <1>4. /\ down[w] # <<>> /\ down[w][1].step = "all_ok"
        /\ down[w][1].load = Delivered(w)
        /\ 1 \in 1 .. Len(down[w])
    BY <1>2, WorkerFacts, DownPlace DEF Arrived, Delivered
  <1>5. /\ DOMAIN local' = Rank /\ local'[Root] = local[Root]
        /\ DOMAIN local'[w] = LocalFields /\ local'[w].kind \in {local[w].kind, "none"}
        /\ next = "outputs_per_job" => local'[w].kind = local[w].kind
        /\ \A p \in Rank \ {w} : local'[p] = local[p]
    BY <1>1, <1>2, WorkerFacts, NoLocalsFields DEF Shapes, ProcessTyped
  <1>6. /\ Place(w)' = next /\ Place(Root)' = Place(Root)
        /\ Goal(Root)' = Goal(Root) /\ Warm(w)' = Warm(w) /\ Sized(w)' = Sized(w)
    BY <1>2, <1>3, <1>5 DEF Place, Goal, Warm, Sized, FirstEvaluation, Idle
  <1>7. Place(w)' = After("all_ok", Delivered(w), Warm(w), Sized(w), Goal(Root))
    BY <1>1, <1>6 DEF After
  <1>8. /\ InStep(w)'
        /\ \A v \in Workers \ {w} : down'[v] = down[v]
        /\ DOMAIN down' = Workers
        /\ IsQueue(down'[w], DownSteps) /\ Len(down'[w]) <= Capacity
        /\ Len(down'[w]) = Len(down[w]) - 1 /\ Len(down[w]) \in Nat
        /\ \A i \in 1 .. Len(down'[w]) :
             i + 1 \in 1 .. Len(down[w]) /\ down'[w][i] = down[w][i + 1]
    BY <1>2, <1>6, <1>7, WorkerFacts, ReceiveKeepsInStep, DownStepsAre
  <1>9. WorkerFrame(w)
    BY <1>2, <1>3, <1>5, <1>8, WorkerFacts DEF WorkerFrame
  <1>10. Typed'
    <2>1. ProcessTyped(w)'
      BY <1>2, <1>5, WorkerFacts DEF ProcessTyped
    <2>2. Shapes' /\ QueuesTyped(w)'
      BY <1>2, <1>3, <1>5, <1>8, WorkerFacts, DownStepsAre
         DEF Shapes, QueuesTyped, WorkerPlaces
    <2> QED
      BY <1>2, <1>9, <2>1, <2>2, WorkerFacts, WorkerTyped
  <1>11. CacheOK(w)'
    <2>1. Warm(w) /\ Warm(w)'
      BY <1>2, WorkerFacts, WarmAfterSetup DEF Setup, Warm
    <2>2. /\ \A k \in Kinds : num_outputs_per_job_[w][k] # -1 => Sized(w)
          /\ local[w].kind \in Kinds /\ FirstEvaluation(w)
      BY <1>2, WorkerFacts DEF CacheOK
    <2>3. next = "outputs_per_job" => FirstEvaluation(w)'
      BY <1>2, <1>5, <2>2 DEF FirstEvaluation
    <2>4. \A k \in Kinds : num_outputs_per_job_'[w][k] # -1 => Sized(w)'
      BY <1>2, <2>2 DEF Sized
    <2>5. next = "outputs_per_job" => local'[w].kind \in Kinds
      BY <1>5, <2>2
    <2>6. next \notin Setup \cup UpSteps \cup {"evaluate", "all_ok"}
      BY <1>3 DEF Setup, UpSteps
    <2> QED
      BY <1>3, <2>1, <2>3, <2>4, <2>5, <2>6 DEF CacheOK, UpSteps
  <1>12. SameKind(w)' /\ SameRows(w)'
    <2>1. InTheCall(w)' => next = "outputs_per_job"
      BY <1>3 DEF InTheCall, Setup, UpSteps
    <2>2. next = "outputs_per_job" => local[w].kind = local[Root].kind
      BY <1>1, <1>2, <1>4, WorkerFacts DEF SameKind, InTheCall
    <2>3. InTheCall(w)' => local'[w].kind = local[Root].kind
      BY <1>5, <2>1, <2>2
    <2>4. down[w][1].step # "outputs_per_job"
      BY <1>4
    <2> QED
      BY <1>2, <1>5, <1>8, <2>3, <2>4, WorkerFacts, TailKeepsMessages
  <1>13. SameCaches(w)'
    BY <1>2, <1>3, WorkerFacts DEF SameCaches, Warm, Sized
  <1> QED
    BY <1>8, <1>9, <1>10, <1>11, <1>12, <1>13, WorkerFacts, OthersUndisturbed
       DEF Follows, CInv

(* What a process does when it learns the number of rows.                    *)
LEMMA LearnEffect ==
  ASSUME Typed, NEW p \in Rank, NEW rows \in {0, 1}, CacheOK(p),
         at[p] = "outputs_per_job", LearnOutputsPerJob(p, rows)
  PROVE  /\ at' \in [Rank -> RootPlaces]
         /\ at'[p] = IF Sized(p) THEN "results" ELSE "f_out"
         /\ \A q \in Rank \ {p} :
              at'[q] = at[q] /\ num_outputs_per_job_'[q] = num_outputs_per_job_[q]
         /\ num_outputs_per_job_' \in [Rank -> [Kinds -> {-1, 0, 1}]]
         /\ \A k \in Kinds :
              num_outputs_per_job_'[p][k] =
                IF k = local[p].kind THEN rows ELSE num_outputs_per_job_[p][k]
         /\ UNCHANGED <<listening, in_use, up, request, answer, cache, local>>
         /\ CacheOK(p)' /\ Place(p)' = at'[p]
  <1>1. PICK next, k, n, D :
          /\ next = AfterOutputsPerJob(p) /\ k = local[p].kind
          /\ n = num_outputs_per_job_[p] /\ D = DOMAIN cache[p]
    OBVIOUS
  <1>2. next = IF Sized(p) THEN "results" ELSE "f_out"
    BY <1>1 DEF AfterOutputsPerJob, IsCached, Sized
  <1>3. /\ at' = [at EXCEPT ![p] = next]
        /\ num_outputs_per_job_' = [num_outputs_per_job_ EXCEPT ![p][k] = rows]
        /\ UNCHANGED <<listening, in_use, up, request, answer, cache, local>>
    BY <1>1 DEF LearnOutputsPerJob
  <1>4. /\ at \in [Rank -> RootPlaces] /\ k \in Kinds
        /\ num_outputs_per_job_ \in [Rank -> [Kinds -> {-1, 0, 1}]]
    BY <1>1 DEF Typed, Shapes, CacheOK
  <1>5. /\ at' \in [Rank -> RootPlaces] /\ at'[p] = next
        /\ \A q \in Rank \ {p} : at'[q] = at[q]
    BY <1>2, <1>3, <1>4, DownStepsAre DEF RootPlaces, UpSteps
  <1>6. PICK g : g = [n EXCEPT ![k] = rows]
    OBVIOUS
  <1>7. /\ g \in [Kinds -> {-1, 0, 1}] /\ g[k] = rows
        /\ \A x \in Kinds : g[x] = IF x = k THEN rows ELSE n[x]
    BY <1>1, <1>4, <1>6
  <1>8. /\ num_outputs_per_job_' = [num_outputs_per_job_ EXCEPT ![p] = g]
        /\ num_outputs_per_job_' \in [Rank -> [Kinds -> {-1, 0, 1}]]
        /\ num_outputs_per_job_'[p] = g
        /\ \A q \in Rank \ {p} : num_outputs_per_job_'[q] = num_outputs_per_job_[q]
    <2>1. num_outputs_per_job_' = [num_outputs_per_job_ EXCEPT ![p] = g]
      BY <1>1, <1>3, <1>6
    <2> QED
      BY <1>4, <1>7, <2>1
  <1>9. CacheOK(p)'
    <2>1. Warm(p) /\ Warm(p)'
      BY <1>3, WarmAfterSetup DEF Setup, Warm
    <2>2. (Sized(p)' <=> Sized(p)) /\ ~FirstEvaluation(p)'
      BY <1>1, <1>3, <1>7, <1>8 DEF Sized, FirstEvaluation
    <2>3. next \notin Setup \cup {"ok", "status", "evaluate", "all_ok", "outputs_per_job"}
      BY <1>2 DEF Setup
    <2>4. local'[p].kind \in Kinds
      BY <1>1, <1>3, <1>4
    <2> QED
      BY <1>2, <1>5, <2>1, <2>2, <2>3, <2>4 DEF CacheOK
  <1>10. Place(p)' = at'[p]
    BY <1>2, <1>5 DEF Place, Idle
  <1> QED
    BY <1>1, <1>2, <1>3, <1>5, <1>7, <1>8, <1>9, <1>10

LEMMA ReceiveOutputsPerJobKeepsCInv ==
  ASSUME CInv, NEW w \in Workers, ReceiveOutputsPerJob(w)
  PROVE  CInv'
  <1>1. /\ at[w] = "outputs_per_job" /\ Arrived(w, "outputs_per_job")
        /\ TakeDown(w) /\ LearnOutputsPerJob(w, Delivered(w))
    BY DEF ReceiveOutputsPerJob
  <1>2. /\ down[w] # <<>> /\ down[w][1].step = "outputs_per_job"
        /\ down[w][1].load = Delivered(w) /\ IsQueue(down[w], DownSteps)
        /\ Goal(Root) \in Goals
        /\ Leads(down[w], Place(w), Place(Root), Warm(w), Sized(w), Goal(Root))
        /\ 1 \in 1 .. Len(down[w]) /\ Len(down[w]) \in Nat
    BY <1>1, WorkerFacts, DownPlace DEF Arrived, Delivered
  <1>3. Len(down[w]) = 1
    BY <1>2, LeadsShape
  <1>4. PICK rows \in {0, 1} :
          /\ rows = Delivered(w)
          /\ \A k \in Kinds :
               num_outputs_per_job_[Root][k] =
                 IF k = local[Root].kind THEN rows ELSE num_outputs_per_job_[w][k]
    BY <1>2, WorkerFacts DEF SameRows
  <1>5. local[w].kind = local[Root].kind
    BY <1>1, WorkerFacts DEF SameKind, InTheCall
  <1>6. /\ at' \in [Rank -> RootPlaces]
        /\ at'[w] = IF Sized(w) THEN "results" ELSE "f_out"
        /\ \A q \in Rank \ {w} :
             at'[q] = at[q] /\ num_outputs_per_job_'[q] = num_outputs_per_job_[q]
        /\ num_outputs_per_job_' \in [Rank -> [Kinds -> {-1, 0, 1}]]
        /\ \A k \in Kinds :
             num_outputs_per_job_'[w][k] =
               IF k = local[w].kind THEN rows ELSE num_outputs_per_job_[w][k]
        /\ UNCHANGED <<listening, in_use, up, request, answer, cache, local>>
        /\ CacheOK(w)' /\ Place(w)' = at'[w]
    <2>1. LearnOutputsPerJob(w, rows)
      BY <1>1, <1>4
    <2> QED
      BY <1>1, <2>1, WorkerFacts, LearnEffect
  <1>7. /\ at'[Root] = at[Root] /\ num_outputs_per_job_'[Root] = num_outputs_per_job_[Root]
        /\ local'[Root] = local[Root]
        /\ Place(Root)' = Place(Root) /\ Goal(Root)' = Goal(Root)
        /\ Warm(w)' = Warm(w) /\ Sized(w)' = Sized(w)
    BY <1>6, WorkerFacts DEF Place, Goal, FirstEvaluation, Warm, Sized
  <1>8. Place(w)' = After("outputs_per_job", Delivered(w), Warm(w), Sized(w), Goal(Root))
    BY <1>6 DEF After
  <1>9. /\ InStep(w)'
        /\ \A v \in Workers \ {w} : down'[v] = down[v]
        /\ DOMAIN down' = Workers
        /\ IsQueue(down'[w], DownSteps) /\ Len(down'[w]) <= Capacity
        /\ Len(down'[w]) = Len(down[w]) - 1 /\ Len(down[w]) \in Nat
    BY <1>1, <1>6, <1>7, <1>8, WorkerFacts, ReceiveKeepsInStep, DownStepsAre
  <1>10. WorkerFrame(w)
    BY <1>6, <1>9, WorkerFacts DEF WorkerFrame
  <1>11. Typed'
    <2>1. ProcessTyped(w)'
      BY <1>6, WorkerFacts DEF ProcessTyped
    <2>2. Shapes'
      BY <1>6, <1>9, WorkerFacts DEF Shapes
    <2>3. QueuesTyped(w)'
      BY <1>6, <1>9, WorkerFacts DEF QueuesTyped, WorkerPlaces, UpSteps
    <2> QED
      BY <1>6, <1>10, <2>1, <2>2, <2>3, WorkerFacts, WorkerTyped
  <1>12. SameKind(w)'
    BY <1>3, <1>5, <1>6, <1>7, <1>9 DEF SameKind
  <1>13. SameRows(w)'
    <2>1. \A k \in Kinds :
            num_outputs_per_job_'[Root][k] = num_outputs_per_job_'[w][k]
      BY <1>4, <1>5, <1>6, <1>7
    <2> QED
      BY <1>3, <1>9, <2>1 DEF SameRows
  <1>14. SameCaches(w)'
    BY <1>6, <1>7, WorkerFacts DEF SameCaches, Warm, Sized
  <1> QED
    BY <1>6, <1>9, <1>10, <1>11, <1>12, <1>13, <1>14, WorkerFacts,
       OthersUndisturbed DEF Follows, CInv

LEMMA WorkerStepKeepsCInv ==
  ASSUME CInv, NEW w \in Workers, WorkerStep(w) \/ ClusterWorker(w)
  PROVE  CInv'
  BY SetupIs, RunCommandKeepsCInv, SetupReceiveKeepsCInv, EvaluateWorkerKeepsCInv,
     ReceiveAllOkKeepsCInv, ReceiveOutputsPerJobKeepsCInv, WorkerSendsKeepCInv,
     ListenWorkerKeepsCInv, StopWorkerKeepsCInv
     DEF WorkerStep, ClusterWorker

(***************************************************************************)
(* The root's steps.                                                       *)
(***************************************************************************)

LEMMA RootFacts ==
  ASSUME CInv
  PROVE  /\ Typed /\ Control /\ RootOK /\ CacheOK(Root) /\ Root \in Rank
         /\ Shapes /\ ProcessTyped(Root) /\ Workers = Rank \ {Root}
         /\ request \in Requests \cup {NoRequest}
         /\ answer.is \in {"none", "refused", "error", "columns"}
         /\ listening \in BOOLEAN /\ in_use \in BOOLEAN
         /\ at[Root] \in RootPlaces
  BY RootIsNoWorker DEF CInv, Control, Typed, Shapes

(* The workers do not notice what the root does, but for its messages.       *)
RootFrame ==
  \A w \in Workers :
    /\ at'[w] = at[w] /\ cache'[w] = cache[w] /\ local'[w] = local[w]
    /\ num_outputs_per_job_'[w] = num_outputs_per_job_[w]

LEMMA RootTyped ==
  ASSUME Typed, RootFrame, Shapes', ProcessTyped(Root)',
         \A w \in Workers : QueuesTyped(w)',
         listening' \in BOOLEAN, in_use' \in BOOLEAN,
         request' \in Requests \cup {NoRequest},
         answer'.is \in {"none", "refused", "error", "columns"}
  PROVE  Typed'
  <1>1. ASSUME NEW w \in Workers
        PROVE  ProcessTyped(w)'
    BY RootIsNoWorker DEF Typed, RootFrame, ProcessTyped
  <1>2. \A p \in Rank : ProcessTyped(p)'
    BY <1>1, RootIsNoWorker
  <1> QED
    BY <1>2 DEF Typed

LEMMA RootKeepsWorkers ==
  ASSUME RootFrame, NEW w \in Workers
  PROVE  /\ CacheOK(w)' <=> CacheOK(w)
         /\ Place(w)' = Place(w) /\ Warm(w)' = Warm(w) /\ Sized(w)' = Sized(w)
  <1>1. /\ at'[w] = at[w] /\ cache'[w] = cache[w] /\ local'[w] = local[w]
        /\ num_outputs_per_job_'[w] = num_outputs_per_job_[w]
    BY DEF RootFrame
  <1> QED
    BY <1>1 DEF CacheOK, Place, Goal, Warm, Sized, FirstEvaluation

(* Without a message nothing changes for a worker.                           *)
LEMMA QuietTyped ==
  ASSUME Typed, RootFrame, down' = down, up' = up, NEW w \in Workers
  PROVE  QueuesTyped(w)'
  BY DEF Typed, RootFrame, QueuesTyped

(* The root sends a message to every worker.                                 *)
LEMMA SendDownEffect ==
  ASSUME Typed, RootFrame, up' = up, NEW step \in DownSteps, NEW load,
         SendDown(step, load), NEW w \in Workers
  PROVE  /\ DOMAIN down' = Workers /\ QueuesTyped(w)'
         /\ Len(down'[w]) = Len(down[w]) + 1 /\ Len(down[w]) \in Nat
         /\ \A i \in 1 .. Len(down[w]) : down'[w][i] = down[w][i]
         /\ down'[w][Len(down[w]) + 1].step = step
         /\ down'[w][Len(down[w]) + 1].load = load[w]
         /\ down'[w] # <<>>
  <1>1. PICK m, r : m = [step |-> step, load |-> load[w]] /\ r = Append(down[w], m)
    OBVIOUS
  <1>2. m.step = step /\ m.load = load[w]
    BY <1>1
  <1>3. /\ DOMAIN down' = Workers /\ down'[w] = r /\ Len(down[w]) < Capacity
        /\ IsQueue(down[w], DownSteps) /\ Capacity \in Nat
    BY <1>1, ClusterAssumption DEF SendDown, Typed, QueuesTyped
  <1>4. /\ IsQueue(r, DownSteps) /\ r # <<>> /\ Len(r) = Len(down[w]) + 1
        /\ \A i \in 1 .. Len(down[w]) : r[i] = down[w][i]
        /\ r[Len(down[w]) + 1] = m
    <2>1. PICK q : q = down[w]
      OBVIOUS
    <2>2. IsQueue(q, DownSteps) /\ m.step \in DownSteps /\ r = Append(q, m)
      BY <1>1, <1>2, <1>3, <2>1
    <2> QED
      BY <2>1, <2>2, QueueAppend
  <1>5. Len(down[w]) \in Nat
    BY <1>3, QueueFacts
  <1>6. QueuesTyped(w)'
    <2>1. QueuesTyped(w) /\ at'[w] = at[w] /\ up'[w] = up[w]
      BY DEF Typed, RootFrame
    <2>2. Len(r) <= Capacity
      BY <1>3, <1>4, <1>5
    <2> QED
      BY <1>3, <1>4, <2>1, <2>2 DEF QueuesTyped
  <1>7. r[Len(down[w]) + 1].step = step /\ r[Len(down[w]) + 1].load = load[w]
    BY <1>2, <1>4
  <1> QED
    BY <1>3, <1>4, <1>5, <1>6, <1>7, Zenon

LEMMA SendDownKeepsInStep ==
  ASSUME Typed, RootFrame, up' = up, NEW step \in DownSteps, NEW load,
         SendDown(step, load), NEW w \in Workers, InStep(w), Place(Root) = step,
         Place(Root)' = After(step, load[w], Warm(w), Sized(w), Goal(Root)')
  PROVE  InStep(w)' /\ up[w] = <<>>
  <1>1. up[w] = <<>>
    BY UpPlace, DownIsNotUp
  <1>2. Goal(Root) \in Goals /\ Goal(Root)' \in Goals /\ step \notin Goals
    BY DownIsNotUp DEF Goal, Goals
  <1>3. PICK g : g = Goal(Root)'
    OBVIOUS
  <1>4. IsQueue(down[w], DownSteps) /\ Together(down[w])
    BY DEF Typed, QueuesTyped, InStep
  <1>5. Leads(down[w], Place(w), step, Warm(w), Sized(w), g)
    <2>1. Leads(down[w], Place(w), step, Warm(w), Sized(w), Goal(Root))
      BY <1>1 DEF InStep
    <2> QED
      BY <1>2, <1>3, <1>4, <2>1, LeadsOtherGoal
  <1>6. PICK m, r : m = [step |-> step, load |-> load[w]] /\ r = Append(down[w], m)
    OBVIOUS
  <1>7. m.step = step /\ m.load = load[w] /\ down'[w] = r /\ r # <<>>
    <2>1. m.step = step /\ m.load = load[w] /\ down'[w] = r
      BY <1>6 DEF SendDown
    <2> QED
      BY <1>4, <1>6, <2>1, QueueAppend
  <1>8. Leads(r, Place(w), After(step, load[w], Warm(w), Sized(w), g),
              Warm(w), Sized(w), g)
    BY <1>4, <1>5, <1>6, <1>7, LeadsAppend
  <1>9. Together(r)
    BY <1>2, <1>3, <1>4, <1>5, <1>6, <1>7, TogetherAppend
  <1>10. Place(w)' = Place(w) /\ Warm(w)' = Warm(w) /\ Sized(w)' = Sized(w)
    BY RootKeepsWorkers
  <1> QED
    BY <1>1, <1>3, <1>7, <1>8, <1>9, <1>10 DEF InStep

(* The root has collected what every worker sent.                            *)
LEMMA TakeUpEffect ==
  ASSUME Typed, RootFrame, down' = down, NEW step \in UpSteps,
         AllArrived(step), TakeUp, NEW w \in Workers, InStep(w), at[Root] = step,
         Place(Root)' = UpAfter(step)
  PROVE  /\ DOMAIN up' = Workers /\ QueuesTyped(w)' /\ InStep(w)'
         /\ down[w] = <<>> /\ up[w] # <<>> /\ up[w][1].step = step
         /\ up'[w] # <<>> => up'[w][1].step # "f_out"
         /\ step = "status" => Place(w) = "command" /\ up'[w] = <<>>
         /\ step = "ok" => Place(w) = "all_ok" /\ up'[w] = <<>>
         /\ Len(up'[w]) = Len(up[w]) - 1 /\ Len(up[w]) \in Nat
         /\ \A i \in 1 .. Len(up'[w]) :
              i + 1 \in 1 .. Len(up[w]) /\ up'[w][i] = up[w][i + 1]
  <1>1. /\ up[w] # <<>> /\ down[w] = <<>> /\ IsQueue(up[w], UpSteps)
        /\ LeadsUp(up[w], step, Place(w)) /\ up[w][1].step = step
        /\ Len(up[w]) \in Nat
    <2>1. up[w] # <<>>
      BY DEF AllArrived
    <2>2. Place(Root) = step
      BY DEF Place, UpSteps, Idle
    <2> QED
      BY <2>1, <2>2, UpPlace
  <1>2. PICK q : q = Tail(up[w])
    OBVIOUS
  <1>3. DOMAIN up' = Workers /\ up'[w] = q /\ Len(up[w]) <= Capacity
    BY <1>2 DEF TakeUp, Typed, QueuesTyped
  <1>4. /\ IsQueue(q, UpSteps) /\ Len(q) = Len(up[w]) - 1
        /\ \A i \in 1 .. Len(up[w]) - 1 : q[i] = up[w][i + 1]
    BY <1>1, <1>2, QueueTail
  <1>5. \A i \in 1 .. Len(q) : i + 1 \in 1 .. Len(up[w]) /\ q[i] = up[w][i + 1]
    BY <1>1, <1>4
  <1>6. LeadsUp(q, UpAfter(step), Place(w))
    BY <1>1, <1>2, LeadsUpTail
  <1>7. Place(w)' = Place(w)
    BY RootKeepsWorkers
  <1>8. InStep(w)'
    <2>1. q = <<>> => Leads(down'[w], Place(w)', Place(Root)',
                            Warm(w)', Sized(w)', Goal(Root)')
      BY <1>1, <1>6, <1>7 DEF LeadsUp, Leads
    <2>2. Together(down'[w])
      BY DEF InStep
    <2> QED
      BY <1>1, <1>3, <1>6, <1>7, <2>1, <2>2 DEF InStep
  <1>9. QueuesTyped(w)'
    <2>1. QueuesTyped(w) /\ at'[w] = at[w] /\ Capacity \in Nat
      BY ClusterAssumption DEF Typed, RootFrame
    <2>2. Len(q) <= Capacity
      BY <1>1, <1>3, <1>4, <2>1
    <2> QED
      BY <1>3, <1>4, <2>1, <2>2 DEF QueuesTyped
  <1>10. q # <<>> => q[1].step # "f_out"
    <2> HAVE q # <<>>
    <2>1. 1 \in 1 .. Len(q)
      BY <1>4, QueueFacts
    <2>2. 2 \in 1 .. Len(up[w]) /\ q[1] = up[w][2]
      BY <1>5, <2>1
    <2>3. up[w][2].step # "f_out"
      BY <1>1, <2>2, LeadsUpShape
    <2> QED
      BY <2>2, <2>3
  <1>11. /\ step = "status" => Place(w) = "command" /\ Len(up[w]) = 1
         /\ step = "ok" => Place(w) = "all_ok" /\ Len(up[w]) = 1
    BY <1>1, LeadsUpShape
  <1>12. Len(up[w]) = 1 => q = <<>>
    BY <1>4, QueueFacts
  <1> QED
    BY <1>1, <1>3, <1>4, <1>5, <1>8, <1>9, <1>10, <1>11, <1>12

(* Between two calls no worker is in a call.                                 *)
LEMMA NobodyInTheCall ==
  ASSUME CInv, NEW w \in Workers, Place(Root) = "command"
  PROVE  /\ ~InTheCall(w)
         /\ \A i \in 1 .. Len(down[w]) :
              ~Begins(down[w][i]) /\ down[w][i].step # "outputs_per_job"
  <1>1. up[w] = <<>>
    BY WorkerFacts, UpPlace DEF UpSteps
  <1>2. CASE down[w] = <<>>
    <2>1. Place(w) = "command"
      BY <1>1, <1>2, WorkerFacts, SamePlace
    <2>2. at[w] \in Idle \cup {"command"}
      BY <2>1, WorkerFacts, PlaceOfGoal
    <2> QED
      BY <1>2, <2>2, EmptySeq DEF InTheCall, Idle, Setup, UpSteps
  <1>3. CASE down[w] # <<>>
    <2>1. PICK q, here : q = down[w] /\ here = Place(w)
      OBVIOUS
    <2>2. /\ IsQueue(q, DownSteps) /\ q # <<>> /\ Together(q) /\ Goal(Root) \in Goals
          /\ Leads(q, here, "command", Warm(w), Sized(w), Goal(Root))
          /\ here \in DownSteps /\ q[1].step = here
          /\ Len(q) \in Nat /\ 1 \in 1 .. Len(q)
      BY <1>3, <2>1, WorkerFacts, DownPlace DEF InStep
    <2>3. "command" \notin Setup \cup Goals
      BY DEF Setup, Goals
    <2>4. \A i \in 1 .. Len(q) : ~Begins(q[i])
      BY <2>2, <2>3, BeginsLeads
    <2>5. \A i \in 1 .. Len(q) : q[i].step # "outputs_per_job"
      BY <2>2, LeadsShape
    <2>6. here \notin Setup \cup {"outputs_per_job"}
      BY <2>2, <2>4, <2>5 DEF Begins
    <2>7. here = "all_ok" => ~q[1].load
      <3> SUFFICES ASSUME here = "all_ok", q[1].load
                   PROVE  FALSE
        OBVIOUS
      <3>1. After(q[1].step, q[1].load, Warm(w), Sized(w), Goal(Root)) = "outputs_per_job"
        BY <2>2 DEF After
      <3>2. Len(q) # 1
        BY <2>2, <3>1 DEF Leads
      <3>3. 1 \in 1 .. Len(q) - 1 /\ 1 + 1 \in 1 .. Len(q)
        <4>1. PICK n : n = Len(q)
          OBVIOUS
        <4>2. n \in Nat /\ 1 \in 1 .. n /\ n # 1
          BY <2>2, <3>2, <4>1
        <4>3. 1 \in 1 .. n - 1 /\ 1 + 1 \in 1 .. n
          BY <4>2
        <4> QED
          BY <4>1, <4>3
      <3>4. \A i \in 1 .. Len(q) - 1 :
              q[i + 1].step = After(q[i].step, q[i].load, Warm(w), Sized(w), Goal(Root))
        BY <2>2 DEF Leads
      <3>5. q[1 + 1].step = "outputs_per_job"
        BY <3>1, <3>3, <3>4
      <3> QED
        BY <2>5, <3>3, <3>5
    <2>8. here = "command" => at[w] \in Idle \cup {"command"}
      BY <2>1, WorkerFacts, PlaceOfGoal
    <2>9. here # "command" => here = "all_ok" /\ at[w] = "all_ok"
      <3>1. here \in Setup \cup {"command", "all_ok", "outputs_per_job"}
        BY <2>2, DownStepsAre
      <3>2. here = "all_ok" => at[w] = "all_ok"
        BY <2>1, <2>2, WorkerFacts, PlaceOfGoal DEF Goals
      <3> QED
        BY <2>6, <3>1, <3>2
    <2>10. ~InTheCall(w)
      BY <1>3, <2>1, <2>7, <2>8, <2>9 DEF InTheCall, Idle, Setup, UpSteps
    <2> QED
      BY <2>1, <2>4, <2>5, <2>10
  <1> QED
    BY <1>2, <1>3

(* A step of the root's without a message.                                   *)
LEMMA QuietKeepsFollows ==
  ASSUME CInv, RootFrame, down' = down, up' = up, Place(Root)' = Place(Root),
         DOMAIN cache'[Root] = DOMAIN cache[Root],
         num_outputs_per_job_'[Root] = num_outputs_per_job_[Root],
         local'[Root].kind = local[Root].kind \/ Place(Root) = "command",
         Goal(Root)' = Goal(Root) \/ Place(Root) = "command",
         at[Root] \in {"evaluate", "ok", "results"} =>
           at'[Root] \in {"evaluate", "ok", "results"},
         NEW w \in Workers
  PROVE  Follows(w)'
  <1>1. /\ CacheOK(w)' /\ Place(w)' = Place(w)
        /\ Warm(w)' = Warm(w) /\ Sized(w)' = Sized(w)
        /\ Warm(Root)' = Warm(Root) /\ Sized(Root)' = Sized(Root)
    BY WorkerFacts, RootKeepsWorkers DEF Warm, Sized
  <1>2. /\ at'[w] = at[w] /\ local'[w] = local[w]
        /\ num_outputs_per_job_'[w] = num_outputs_per_job_[w]
    BY DEF RootFrame
  <1>3. InStep(w)'
    <2>1. CASE Goal(Root)' = Goal(Root)
      BY <1>1, <2>1, WorkerFacts DEF InStep
    <2>2. CASE Place(Root) = "command"
      <3>1. /\ Goal(Root) \in Goals /\ Goal(Root)' \in Goals
            /\ Place(Root) \notin Goals
            /\ IsQueue(down[w], DownSteps)
        BY <2>2, WorkerFacts DEF Goal, Goals, QueuesTyped
      <3>2. PICK g : g = Goal(Root)'
        OBVIOUS
      <3>3. up[w] = <<>> =>
              Leads(down[w], Place(w), Place(Root), Warm(w), Sized(w), g)
        <4> HAVE up[w] = <<>>
        <4>1. Leads(down[w], Place(w), Place(Root), Warm(w), Sized(w), Goal(Root))
          BY WorkerFacts DEF InStep
        <4> QED
          BY <3>1, <3>2, <4>1, LeadsOtherGoal
      <3> QED
        BY <1>1, <3>2, <3>3, WorkerFacts DEF InStep
    <2> QED
      BY <2>1, <2>2
  <1>4. SameKind(w)' /\ SameRows(w)'
    <2>1. CASE local'[Root].kind = local[Root].kind
      BY <1>2, <2>1, WorkerFacts DEF SameKind, SameRows, InTheCall
    <2>2. CASE Place(Root) = "command"
      <3>1. /\ ~InTheCall(w)
            /\ \A i \in 1 .. Len(down[w]) :
                 ~Begins(down[w][i]) /\ down[w][i].step # "outputs_per_job"
        BY <2>2, NobodyInTheCall
      <3>2. ~InTheCall(w)'
        BY <1>2, <3>1 DEF InTheCall
      <3>3. \A k \in Kinds :
              num_outputs_per_job_[Root][k] = num_outputs_per_job_[w][k]
        BY <3>1, WorkerFacts DEF SameRows
      <3> QED
        BY <1>2, <3>1, <3>2, <3>3 DEF SameKind, SameRows, Begins
    <2> QED
      BY <2>1, <2>2
  <1>5. SameCaches(w)'
    BY <1>1, WorkerFacts DEF SameCaches
  <1> QED
    BY <1>1, <1>3, <1>4, <1>5 DEF Follows

(* A collective in which the root sends.                                     *)
LEMMA SendKeepsFollows ==
  ASSUME CInv, RootFrame, up' = up, NEW step \in DownSteps, NEW load,
         SendDown(step, load), Place(Root) = step, NEW w \in Workers,
         Place(Root)' = After(step, load[w], Warm(w), Sized(w), Goal(Root)'),
         \/ local'[Root].kind = local[Root].kind
         \/ step = "all_ok" /\ ~load[w],
         step = "command" /\ load[w] # "stop" => load[w] = local[Root].kind,
         Warm(Root)' <=> Warm(Root) \/ step = "x_i",
         step = "x_i" => at'[Root] = "evaluate",
         Sized(Root)' <=> Sized(Root),
         step = "outputs_per_job" => load[w] \in {0, 1},
         \A k \in Kinds :
           num_outputs_per_job_'[Root][k] =
             IF step = "outputs_per_job" /\ k = local[Root].kind THEN load[w]
             ELSE num_outputs_per_job_[Root][k]
  PROVE  Follows(w)'
  <1>1. /\ CacheOK(w)' /\ Place(w)' = Place(w)
        /\ Warm(w)' = Warm(w) /\ Sized(w)' = Sized(w)
    BY WorkerFacts, RootKeepsWorkers
  <1>2. /\ at'[w] = at[w] /\ local'[w] = local[w]
        /\ num_outputs_per_job_'[w] = num_outputs_per_job_[w]
    BY DEF RootFrame
  <1>3. InStep(w)' /\ up[w] = <<>>
    BY WorkerFacts, SendDownKeepsInStep
  <1>4. PICK d, e, n : d = down[w] /\ e = down'[w] /\ n = Len(down[w])
    OBVIOUS
  <1>5. /\ Len(e) = n + 1 /\ Len(d) = n /\ n \in Nat
        /\ \A i \in 1 .. n : e[i] = d[i]
        /\ e[n + 1].step = step /\ e[n + 1].load = load[w]
        /\ e # <<>>
    BY <1>4, WorkerFacts, SendDownEffect
  <1>6. \A i \in 1 .. Len(e) : i \in 1 .. n \/ i = n + 1
    BY <1>5
  <1>7. /\ IsQueue(d, DownSteps)
        /\ Leads(d, Place(w), step, Warm(w), Sized(w), Goal(Root))
        /\ Goal(Root) \in Goals
    BY <1>3, <1>4, WorkerFacts DEF InStep, QueuesTyped, Goal, Goals
  <1>8. at[Root] \notin {"evaluate", "ok", "results"}
    <2>1. Place(Root) \notin UpSteps
      BY DownIsNotUp
    <2> QED
      BY <2>1 DEF Place, Goal, UpSteps, Idle
  <1>9. SameKind(w)'
    <2>1. CASE step = "all_ok"
      <3>1. d = <<>>
        <4>1. step \notin Setup \cup UpSteps \cup {"command", "outputs_per_job"}
          BY <2>1 DEF Setup, UpSteps
        <4> QED
          BY <1>7, <4>1, LeadsShape
      <3>2. Place(w) = "all_ok" /\ n = 0
        BY <1>4, <1>7, <2>1, <3>1, EmptySeq DEF Leads
      <3>3. at[w] = "all_ok"
        BY <3>2, WorkerFacts, PlaceOfGoal, DownStepsAre DEF Goals
      <3>4. InTheCall(w)
        BY <1>4, <3>1, <3>3 DEF InTheCall
      <3>5. InTheCall(w)' => load[w]
        BY <1>2, <1>4, <1>5, <3>2, <3>3 DEF InTheCall, Setup, UpSteps
      <3>6. InTheCall(w)' => local'[w].kind = local'[Root].kind
        BY <1>2, <2>1, <3>4, <3>5, WorkerFacts DEF SameKind
      <3>7. \A i \in 1 .. Len(e) : e[i].step # "command"
        BY <1>5, <2>1, <3>2
      <3> QED
        BY <1>4, <3>6, <3>7 DEF SameKind
    <2>2. CASE step # "all_ok"
      <3>1. local'[Root].kind = local[Root].kind
        BY <2>2
      <3>2. InTheCall(w)' => InTheCall(w)
        <4>1. d # <<>> => e[1] = d[1]
          BY <1>5, <1>7, QueueFacts
        <4> QED
          BY <1>2, <1>4, <1>5, <4>1 DEF InTheCall
      <3>3. ASSUME NEW i \in 1 .. Len(e), e[i].step = "command", e[i].load # "stop"
            PROVE  e[i].load = local[Root].kind
        <4>1. CASE i \in 1 .. n
          BY <1>4, <1>5, <3>3, <4>1, WorkerFacts DEF SameKind
        <4>2. CASE i = n + 1
          BY <1>5, <3>3, <4>2
        <4> QED
          BY <1>6, <4>1, <4>2
      <3> QED
        BY <1>2, <1>4, <3>1, <3>2, <3>3, WorkerFacts DEF SameKind
    <2> QED
      BY <2>1, <2>2
  <1>10. SameRows(w)'
    <2>1. PICK a, b, c : /\ a = num_outputs_per_job_[Root]
                         /\ b = num_outputs_per_job_[w] /\ c = local[Root].kind
      OBVIOUS
    <2>2. PICK a2, c2 : a2 = num_outputs_per_job_'[Root] /\ c2 = local'[Root].kind
      OBVIOUS
    <2>3. \A k \in Kinds :
            a2[k] = IF step = "outputs_per_job" /\ k = c THEN load[w] ELSE a[k]
      BY <2>1, <2>2
    <2>4. /\ \A i \in 1 .. n : d[i].step = "outputs_per_job" =>
               /\ d[i].load \in {0, 1}
               /\ \A k \in Kinds : a[k] = IF k = c THEN d[i].load ELSE b[k]
          /\ (\A i \in 1 .. n : d[i].step # "outputs_per_job") =>
               \A k \in Kinds : a[k] = b[k]
      BY <1>4, <1>5, <2>1, WorkerFacts DEF SameRows
    <2>5. (\E i \in 1 .. n : d[i].step = "outputs_per_job") =>
            step \notin {"outputs_per_job", "all_ok"}
      <3>1. \A i \in 1 .. n : d[i].step = "outputs_per_job" =>
              d # <<>> /\ step \in {"results", "f_out"}
        <4>1. n # 0 => d # <<>>
          BY <1>5, <1>7, QueueFacts
        <4>2. d # <<>> => \A i \in 1 .. n : d[i].step = "outputs_per_job" =>
                step \in {"results", "f_out"}
          BY <1>5, <1>7, LeadsShape
        <4> QED
          BY <1>5, <4>1, <4>2
      <3> QED
        BY <3>1
    <2>6. step # "all_ok" => c2 = c
      BY <2>1, <2>2
    <2>7. CASE \E i \in 1 .. n : d[i].step = "outputs_per_job"
      <3>1. /\ step \notin {"outputs_per_job", "all_ok"} /\ c2 = c
            /\ \A k \in Kinds : a2[k] = a[k]
        BY <2>3, <2>5, <2>6, <2>7
      <3>2. \A i \in 1 .. Len(e) : e[i].step = "outputs_per_job" =>
               /\ e[i].load \in {0, 1}
               /\ \A k \in Kinds : a2[k] = IF k = c2 THEN e[i].load ELSE b[k]
        <4> TAKE i \in 1 .. Len(e)
        <4>1. CASE i \in 1 .. n
          BY <1>5, <2>4, <3>1, <4>1
        <4>2. CASE i = n + 1
          BY <1>5, <3>1, <4>2
        <4> QED
          BY <1>6, <4>1, <4>2
      <3>3. \E i \in 1 .. Len(e) : e[i].step = "outputs_per_job"
        <4>1. PICK i \in 1 .. n : d[i].step = "outputs_per_job"
          BY <2>7
        <4>2. i \in 1 .. Len(e) /\ e[i] = d[i]
          BY <1>5
        <4> QED
          BY <4>1, <4>2
      <3> QED
        BY <1>2, <1>4, <2>1, <2>2, <3>2, <3>3 DEF SameRows
    <2>8. CASE \A i \in 1 .. n : d[i].step # "outputs_per_job"
      <3>1. \A k \in Kinds : a[k] = b[k]
        BY <2>4, <2>8
      <3>2. \A i \in 1 .. Len(e) : e[i].step = "outputs_per_job" =>
               /\ e[i].load \in {0, 1}
               /\ \A k \in Kinds : a2[k] = IF k = c2 THEN e[i].load ELSE b[k]
        <4> TAKE i \in 1 .. Len(e)
        <4>1. CASE i \in 1 .. n
          BY <1>5, <2>8, <4>1
        <4>2. CASE i = n + 1
          BY <1>5, <2>3, <2>6, <3>1, <4>2
        <4> QED
          BY <1>6, <4>1, <4>2
      <3>3. step # "outputs_per_job" => \A k \in Kinds : a2[k] = b[k]
        BY <2>3, <3>1
      <3>4. n + 1 \in 1 .. Len(e)
        BY <1>5
      <3> QED
        BY <1>2, <1>4, <1>5, <2>1, <2>2, <3>2, <3>3, <3>4 DEF SameRows
    <2> QED
      BY <2>7, <2>8
  <1>11. SameCaches(w)'
    <2>1. /\ Warm(w) <=> Warm(Root)
          /\ Sized(w) <=> Sized(Root)
      BY <1>3, <1>8, WorkerFacts DEF SameCaches
    <2>2. /\ Warm(w)' => Warm(Root)'
          /\ Warm(Root)' /\ ~Warm(w)' => at'[Root] = "evaluate"
          /\ Sized(w)' <=> Sized(Root)'
      BY <1>1, <2>1
    <2> QED
      BY <1>3, <2>2 DEF SameCaches
  <1> QED
    BY <1>1, <1>3, <1>9, <1>10, <1>11 DEF Follows

(* A collective in which the root collects.                                  *)
LEMMA CollectKeepsFollows ==
  ASSUME CInv, RootFrame, down' = down, NEW step \in UpSteps,
         AllArrived(step), TakeUp, at[Root] = step, NEW w \in Workers,
         Place(Root)' = UpAfter(step),
         DOMAIN cache'[Root] = DOMAIN cache[Root] \cup ({step} \cap {"f_out"}),
         num_outputs_per_job_'[Root] = num_outputs_per_job_[Root],
         local'[Root].kind = local[Root].kind \/ step = "status"
  PROVE  Follows(w)' /\ QueuesTyped(w)' /\ DOMAIN up' = Workers
  <1>1. /\ CacheOK(w)' /\ Place(w)' = Place(w)
        /\ Warm(w)' = Warm(w) /\ Sized(w)' = Sized(w)
    BY WorkerFacts, RootKeepsWorkers
  <1>2. /\ at'[w] = at[w] /\ local'[w] = local[w]
        /\ num_outputs_per_job_'[w] = num_outputs_per_job_[w]
    BY DEF RootFrame
  <1>3. Typed /\ InStep(w) /\ down' = down
    BY WorkerFacts
  <1>4. /\ DOMAIN up' = Workers /\ QueuesTyped(w)' /\ InStep(w)'
        /\ down[w] = <<>> /\ up[w] # <<>> /\ up[w][1].step = step
        /\ up'[w] # <<>> => up'[w][1].step # "f_out"
        /\ step = "status" => Place(w) = "command"
    BY <1>3, TakeUpEffect
  <1>5. Len(down[w]) = 0
    BY <1>4, EmptySeq
  <1>6. SameKind(w)'
    <2>1. CASE step = "status"
      <3>1. at[w] \in Idle \cup {"command"}
        BY <1>4, <2>1, WorkerFacts, PlaceOfGoal
      <3>2. ~InTheCall(w)'
        BY <1>2, <3>1 DEF InTheCall, Idle, Setup, UpSteps
      <3> QED
        BY <1>5, <3>2 DEF SameKind
    <2>2. CASE step # "status"
      BY <1>2, <1>5, <2>2, WorkerFacts DEF SameKind, InTheCall
    <2> QED
      BY <2>1, <2>2
  <1>7. SameRows(w)'
    BY <1>2, <1>5, WorkerFacts DEF SameRows
  <1>8. SameCaches(w)'
    <2>1. Warm(w) /\ Warm(Root) /\ (Sized(w) <=> Sized(Root) \/ step = "f_out")
      BY <1>4, WorkerFacts DEF SameCaches
    <2>2. Warm(Root)' /\ (Sized(Root)' <=> Sized(Root) \/ step = "f_out")
      BY <2>1 DEF Warm, Sized
    <2> QED
      BY <1>1, <1>4, <2>1, <2>2 DEF SameCaches
  <1> QED
    BY <1>1, <1>4, <1>6, <1>7, <1>8 DEF Follows

(* The root starts to listen, or releases a call object.                     *)
LEMMA QuietRootKeepsCInv ==
  ASSUME CInv,
         \/ ListenRoot /\ UNCHANGED callVars
         \/ Release
  PROVE  CInv'
  <1>1. PICK next :
          /\ at' = [at EXCEPT ![Root] = next]
          /\ \/ at[Root] = "outside" /\ next = "ready"
                /\ listening' = TRUE /\ in_use' = in_use
             \/ at[Root] = "held" /\ next = "ready"
                /\ in_use' = FALSE /\ listening' = listening
          /\ UNCHANGED <<down, up>>
          /\ UNCHANGED <<request, answer, cache, num_outputs_per_job_, local>>
    BY DEF ListenRoot, Release, callVars
  <1>2. /\ at' \in [Rank -> RootPlaces] /\ at'[Root] = "ready" /\ at[Root] \in Idle
        /\ at[Root] \in {"outside", "held"}
        /\ \A p \in Rank \ {Root} : at'[p] = at[p]
        /\ listening' \in BOOLEAN /\ in_use' \in BOOLEAN
    BY <1>1, RootFacts DEF Shapes, RootPlaces, Idle
  <1>3. RootFrame
    BY <1>1, <1>2, RootFacts DEF RootFrame
  <1>4. Typed'
    <2>1. Shapes' /\ ProcessTyped(Root)'
      BY <1>1, <1>2, RootFacts DEF Shapes, ProcessTyped
    <2>2. \A w \in Workers : QueuesTyped(w)'
      BY <1>1, <1>3, RootFacts, QuietTyped
    <2> QED
      BY <1>1, <1>2, <1>3, <2>1, <2>2, RootFacts, RootTyped
  <1>5. RootOK'
    BY <1>1, <1>2, RootFacts DEF RootOK, Idle
  <1>6. CacheOK(Root)'
    <2>1. ~Warm(Root) => DOMAIN cache[Root] = {}
      BY <1>2, RootFacts DEF CacheOK, Earlier, Idle, Setup
    <2>2. \A k \in Kinds : num_outputs_per_job_[Root][k] # -1 => Sized(Root)
      BY <1>2, RootFacts DEF CacheOK
    <2>3. (Warm(Root)' <=> Warm(Root)) /\ (Sized(Root)' <=> Sized(Root))
      BY <1>1 DEF Warm, Sized
    <2> QED
      BY <1>1, <1>2, <2>1, <2>2, <2>3 DEF CacheOK, Earlier, Setup, UpSteps
  <1>7. ASSUME NEW w \in Workers
        PROVE  Follows(w)'
    <2>1. Place(Root)' = Place(Root) /\ Goal(Root)' = Goal(Root)
      BY <1>1, <1>2 DEF Place, Goal, FirstEvaluation, Idle
    <2>2. at[Root] \notin {"evaluate", "ok", "results"}
      BY <1>2
    <2> QED
      BY <1>1, <1>3, <2>1, <2>2, QuietKeepsFollows
  <1> QED
    BY <1>4, <1>5, <1>6, <1>7 DEF CInv, Control

(* The root starts a call.                                                   *)
LEMMA StartKeepsCInv ==
  ASSUME CInv, NEW r \in Requests, Start(r)
  PROVE  CInv'
  <1>1. PICK k : k = r.kind
    OBVIOUS
  <1>2. /\ at[Root] = "ready" /\ at' = [at EXCEPT ![Root] = "command"]
        /\ CommandRefused(Root) = "no"
        /\ in_use' = TRUE /\ local' = [local EXCEPT ![Root].kind = k]
        /\ request' = r /\ answer'.is = "none"
        /\ UNCHANGED <<listening, down, up, cache, num_outputs_per_job_>>
    BY <1>1 DEF Start
  <1>3. k \in Kinds /\ r # NoRequest
    <2>1. PICK n \in JobCounts :
            r \in [kind : Kinds, shared : SharedSizes, outcome : [1 .. n -> Outcomes]]
      BY DEF Requests
    <2>2. n \in Nat \ {0} /\ DOMAIN r.outcome = 1 .. n
      BY <2>1, CallAssumption
    <2>3. DOMAIN NoRequest.outcome = {}
      BY DEF NoRequest
    <2>4. 1 \in DOMAIN r.outcome
      BY <2>2
    <2> QED
      BY <1>1, <2>1, <2>3, <2>4
  <1>4. /\ at' \in [Rank -> RootPlaces] /\ at'[Root] = "command"
        /\ \A p \in Rank \ {Root} : at'[p] = at[p]
    BY <1>2, RootFacts, DownStepsAre DEF Shapes, RootPlaces
  <1>5. /\ DOMAIN local' = Rank /\ DOMAIN local'[Root] = LocalFields
        /\ local'[Root].kind = k /\ \A p \in Rank \ {Root} : local'[p] = local[p]
    BY <1>2, RootFacts DEF Shapes, ProcessTyped, LocalFields
  <1>6. RootFrame
    BY <1>2, <1>4, <1>5, RootFacts DEF RootFrame
  <1>7. Typed'
    <2>1. ProcessTyped(Root)'
      BY <1>2, <1>3, <1>5, RootFacts DEF ProcessTyped
    <2>2. Shapes'
      BY <1>2, <1>4, <1>5, RootFacts DEF Shapes
    <2>3. \A w \in Workers : QueuesTyped(w)'
      BY <1>2, <1>6, RootFacts, QuietTyped
    <2>4. /\ listening' \in BOOLEAN /\ in_use' \in BOOLEAN
          /\ request' \in Requests \cup {NoRequest}
          /\ answer'.is \in {"none", "refused", "error", "columns"}
      BY <1>2, RootFacts
    <2> QED
      BY <1>6, <2>1, <2>2, <2>3, <2>4, RootFacts, RootTyped
  <1>8. RootOK'
    <2>1. listening
      BY <1>2 DEF CommandRefused
    <2> QED
      BY <1>1, <1>2, <1>3, <1>4, <1>5, <2>1 DEF RootOK, Idle
  <1>9. CacheOK(Root)'
    <2>1. ~Warm(Root) => DOMAIN cache[Root] = {}
      BY <1>2, RootFacts DEF CacheOK, Earlier
    <2>2. \A x \in Kinds : num_outputs_per_job_[Root][x] # -1 => Sized(Root)
      BY <1>2, RootFacts DEF CacheOK
    <2>3. (Warm(Root)' <=> Warm(Root)) /\ (Sized(Root)' <=> Sized(Root))
      BY <1>2 DEF Warm, Sized
    <2> QED
      BY <1>2, <1>4, <2>1, <2>2, <2>3 DEF CacheOK, Earlier, Setup, UpSteps
  <1>10. ASSUME NEW w \in Workers
         PROVE  Follows(w)'
    <2>1. Place(Root) = "command" /\ Place(Root)' = "command"
      BY <1>2, <1>4 DEF Place, Idle
    <2> QED
      BY <1>2, <1>6, <2>1, QuietKeepsFollows
  <1> QED
    BY <1>7, <1>8, <1>9, <1>10 DEF CInv, Control

(* A call that does not get that far.                                        *)
LEMMA RefusedKeepsCInv ==
  ASSUME CInv, NEW r \in Requests, StartThrows(r) \/ FallBack(r)
  PROVE  CInv'
  <1>1. /\ UNCHANGED <<at, listening, in_use, down, up>>
        /\ UNCHANGED <<request, cache, num_outputs_per_job_, local>>
        /\ answer' \in {Refused, SerialAnswer(r.outcome)}
    BY Zenon DEF StartThrows, FallBack, clusterVars
  <1>2. answer'.is \in {"none", "refused", "error", "columns"}
    <2>1. SerialAnswer(r.outcome).is \in {"error", "columns"}
      BY DEF SerialAnswer, Error, Answer
    <2> QED
      BY <1>1, <2>1 DEF Refused
  <1>3. RootFrame
    BY <1>1 DEF RootFrame
  <1>4. Typed'
    <2>1. Shapes' /\ ProcessTyped(Root)'
      BY <1>1, RootFacts DEF Shapes, ProcessTyped
    <2>2. \A w \in Workers : QueuesTyped(w)'
      BY <1>1, <1>3, RootFacts, QuietTyped
    <2> QED
      BY <1>1, <1>2, <1>3, <2>1, <2>2, RootFacts, RootTyped
  <1>5. RootOK'
    BY <1>1, RootFacts DEF RootOK
  <1>6. CacheOK(Root)' /\ Place(Root)' = Place(Root) /\ Goal(Root)' = Goal(Root)
    BY <1>1, RootFacts DEF CacheOK, Warm, Sized, FirstEvaluation, Place, Goal
  <1>7. ASSUME NEW w \in Workers
        PROVE  Follows(w)'
    BY <1>1, <1>3, <1>6, QuietKeepsFollows
  <1> QED
    BY <1>4, <1>5, <1>6, <1>7 DEF CInv, Control

RootShapes ==
  /\ at \in [Rank -> RootPlaces]
  /\ num_outputs_per_job_ \in [Rank -> [Kinds -> {-1, 0, 1}]]
  /\ DOMAIN cache = Rank /\ DOMAIN local = Rank
  /\ ProcessTyped(Root)
  /\ listening \in BOOLEAN /\ in_use \in BOOLEAN
  /\ request \in Requests \cup {NoRequest}
  /\ answer.is \in {"none", "refused", "error", "columns"}

LEMMA SendTyped ==
  ASSUME Typed, RootFrame, up' = up, NEW step \in DownSteps, NEW load,
         SendDown(step, load), RootShapes'
  PROVE  Typed'
  <1>1. \A w \in Workers : QueuesTyped(w)'
    BY SendDownEffect
  <1>2. DOMAIN down' = Workers /\ DOMAIN up' = Workers
    BY DEF SendDown, Typed, Shapes
  <1>3. Shapes'
    BY <1>2 DEF RootShapes, Shapes
  <1> QED
    BY <1>1, <1>3, RootTyped DEF RootShapes

LEMMA CollectTyped ==
  ASSUME Typed, RootFrame, down' = down, TakeUp, RootShapes',
         \A w \in Workers : QueuesTyped(w)'
  PROVE  Typed'
  <1>1. DOMAIN down' = Workers /\ DOMAIN up' = Workers
    BY DEF TakeUp, Typed, Shapes
  <1>2. Shapes'
    BY <1>1 DEF RootShapes, Shapes
  <1> QED
    BY <1>2, RootTyped DEF RootShapes

LEMMA RootShapesNow ==
  ASSUME CInv
  PROVE  RootShapes
  BY RootFacts DEF RootShapes, Shapes

(* While the root sends, all have cached the same.                           *)
LEMMA SameWhenRootSends ==
  ASSUME CInv, NEW w \in Workers, Place(Root) \in DownSteps
  PROVE  /\ Warm(w) = Warm(Root) /\ Sized(w) = Sized(Root) /\ up[w] = <<>>
         /\ at[Root] \notin {"evaluate", "ok", "results"}
  <1>1. up[w] = <<>>
    BY WorkerFacts, UpPlace, DownIsNotUp
  <1>2. at[Root] \notin {"evaluate", "ok", "results"}
    <2>1. Place(Root) \notin UpSteps
      BY DownIsNotUp
    <2> QED
      BY <2>1 DEF Place, Goal, UpSteps, Idle
  <1> QED
    BY <1>1, <1>2, WorkerFacts DEF SameCaches, Warm, Sized

(* The root stops listening.                                                 *)
LEMMA StopListenKeepsCInv ==
  ASSUME CInv, StopListen, UNCHANGED callVars
  PROVE  CInv'
  <1>1. /\ at[Root] = "ready" /\ at' = [at EXCEPT ![Root] = "outside"]
        /\ CommandRefused(Root) = "no" /\ SendDown("command", Everyone("stop"))
        /\ listening' = FALSE /\ UNCHANGED <<in_use, up>>
        /\ UNCHANGED <<request, answer, cache, num_outputs_per_job_, local>>
    BY DEF StopListen, callVars
  <1>2. /\ at' \in [Rank -> RootPlaces] /\ at'[Root] = "outside"
        /\ \A p \in Rank \ {Root} : at'[p] = at[p]
    BY <1>1, RootFacts DEF Shapes, RootPlaces, Idle
  <1>3. RootFrame
    BY <1>1, <1>2, RootFacts DEF RootFrame
  <1>4. Typed'
    <2>1. RootShapes'
      BY <1>1, <1>2, RootShapesNow DEF RootShapes, ProcessTyped
    <2> QED
      BY <1>1, <1>3, <2>1, RootFacts, SendTyped, DownStepsAre
  <1>5. RootOK'
    <2>1. ~in_use /\ at[Root] = "ready" /\ at'[Root] = "outside" /\ listening' = FALSE
          /\ in_use' = in_use /\ request' = request /\ local' = local
      BY <1>1, <1>2 DEF CommandRefused
    <2>2. request = NoRequest
      BY <2>1, RootFacts DEF RootOK, Idle
    <2> QED
      BY <2>1, <2>2 DEF RootOK, Idle
  <1>6. CacheOK(Root)'
    <2>1. ~Warm(Root) => DOMAIN cache[Root] = {}
      BY <1>1, RootFacts DEF CacheOK, Earlier
    <2>2. \A x \in Kinds : num_outputs_per_job_[Root][x] # -1 => Sized(Root)
      BY <1>1, RootFacts DEF CacheOK
    <2>3. (Warm(Root)' <=> Warm(Root)) /\ (Sized(Root)' <=> Sized(Root))
      BY <1>1 DEF Warm, Sized
    <2> QED
      BY <1>1, <1>2, <2>1, <2>2, <2>3 DEF CacheOK, Earlier, Setup, UpSteps
  <1>7. ASSUME NEW w \in Workers
        PROVE  Follows(w)'
    <2>1. /\ Place(Root) = "command" /\ "command" \in DownSteps
          /\ Everyone("stop")[w] = "stop"
          /\ Place(Root)' = After("command", "stop", Warm(w), Sized(w), Goal(Root)')
      BY <1>1, <1>2, DownStepsAre DEF Place, Idle, After, Everyone
    <2>2. /\ local'[Root].kind = local[Root].kind
          /\ (Warm(Root)' <=> Warm(Root)) /\ (Sized(Root)' <=> Sized(Root))
          /\ \A k \in Kinds :
               num_outputs_per_job_'[Root][k] = num_outputs_per_job_[Root][k]
      BY <1>1 DEF Warm, Sized
    <2> QED
      BY <1>1, <1>3, <2>1, <2>2, SendKeepsFollows
  <1> QED
    BY <1>4, <1>5, <1>6, <1>7 DEF CInv, Control

(* The root broadcasts the command.                                          *)
LEMMA SendCommandKeepsCInv ==
  ASSUME CInv, SendCommand
  PROVE  CInv'
  <1>1. PICK next, k : next = SetupFrom(Root, 1) /\ k = request.kind
    OBVIOUS
  <1>2. /\ at[Root] = "command" /\ at' = [at EXCEPT ![Root] = next]
        /\ SendDown("command", Everyone(k))
        /\ UNCHANGED <<listening, in_use, up, request, answer, cache>>
        /\ UNCHANGED <<num_outputs_per_job_, local>>
    BY <1>1 DEF SendCommand
  <1>3. next = IF Warm(Root) THEN "shared" ELSE "chunks"
    BY <1>1, <1>2, RootFacts, SetupStart DEF ProcessTyped
  <1>4. /\ at' \in [Rank -> RootPlaces] /\ at'[Root] = next /\ next \in Setup
        /\ \A p \in Rank \ {Root} : at'[p] = at[p]
    BY <1>2, <1>3, RootFacts, DownStepsAre DEF Shapes, RootPlaces, Setup
  <1>5. RootFrame
    BY <1>2, <1>4, RootFacts DEF RootFrame
  <1>6. request # NoRequest /\ local[Root].kind = k /\ k \in Kinds /\ k # "stop"
    <2>1. request # NoRequest /\ local[Root].kind = k
      BY <1>1, <1>2, RootFacts DEF RootOK, Idle
    <2>2. request \in Requests
      BY <2>1, RootFacts
    <2> QED
      BY <1>1, <2>1, <2>2, CallAssumption DEF Requests
  <1>7. Typed'
    <2>1. RootShapes'
      BY <1>2, <1>4, RootShapesNow DEF RootShapes, ProcessTyped
    <2> QED
      BY <1>2, <1>5, <2>1, RootFacts, SendTyped, DownStepsAre
  <1>8. RootOK'
    BY <1>2, <1>4, RootFacts DEF RootOK, Idle, Setup
  <1>9. CacheOK(Root)'
    <2>1. ~Warm(Root) => DOMAIN cache[Root] = {}
      BY <1>2, RootFacts DEF CacheOK, Earlier
    <2>2. \A x \in Kinds : num_outputs_per_job_[Root][x] # -1 => Sized(Root)
      BY <1>2, RootFacts DEF CacheOK
    <2>3. (Warm(Root)' <=> Warm(Root)) /\ (Sized(Root)' <=> Sized(Root))
      BY <1>2 DEF Warm, Sized
    <2> QED
      BY <1>2, <1>3, <1>4, <1>6, <2>1, <2>2, <2>3 DEF CacheOK, Earlier, Setup, UpSteps
  <1>10. ASSUME NEW w \in Workers
         PROVE  Follows(w)'
    <2>1. /\ Place(Root) = "command" /\ "command" \in DownSteps
          /\ Everyone(k)[w] = k /\ Place(Root)' = next
      BY <1>2, <1>4, DownStepsAre DEF Place, Idle, Everyone, Setup
    <2>2. Place(Root)' = After("command", k, Warm(w), Sized(w), Goal(Root)')
      <3>1. Warm(w) = Warm(Root)
        BY <2>1, SameWhenRootSends
      <3> QED
        BY <1>3, <1>6, <2>1, <3>1 DEF After
    <2>3. /\ local'[Root].kind = local[Root].kind
          /\ (Warm(Root)' <=> Warm(Root)) /\ (Sized(Root)' <=> Sized(Root))
          /\ \A x \in Kinds :
               num_outputs_per_job_'[Root][x] = num_outputs_per_job_[Root][x]
      BY <1>2 DEF Warm, Sized
    <2> QED
      BY <1>2, <1>5, <1>6, <2>1, <2>2, <2>3, SendKeepsFollows
  <1> QED
    BY <1>7, <1>8, <1>9, <1>10 DEF CInv, Control

(* The root takes part in a collective of the setup.                         *)
LEMMA SetupSendKeepsCInv ==
  ASSUME CInv, NEW step \in Setup, SetupSend(step)
  PROVE  CInv'
  <1>1. PICK load, data : /\ load = [w \in Workers |-> Share(step, w)]
                          /\ data = Share(step, Root)
    OBVIOUS
  <1>2. /\ at[Root] = step /\ SendDown(step, load) /\ Take(Root, step, data)
        /\ up' = up /\ step \in DownSteps
    BY <1>1, DownIsNotUp DEF SetupSend
  <1>3. /\ DOMAIN cache' = Rank /\ DOMAIN local' = Rank
        /\ \A q \in Rank \ {Root} : /\ at'[q] = at[q] /\ cache'[q] = cache[q]
                                    /\ local'[q] = local[q]
        /\ UNCHANGED <<listening, in_use, request, answer, num_outputs_per_job_>>
        /\ DOMAIN cache'[Root] = DOMAIN cache[Root] \cup ({step} \cap CachedSteps)
        /\ DOMAIN local'[Root] = LocalFields /\ local'[Root].kind = local[Root].kind
        /\ at' \in [Rank -> RootPlaces]
    BY <1>2, RootFacts, TakeEffect
  <1>4. /\ CacheOK(Root)'
        /\ Warm(Root)' <=> Warm(Root) \/ step = "x_i"
        /\ Sized(Root)' <=> Sized(Root)
        /\ Goal(Root)' = Goal(Root)
        /\ \A l, sized : Place(Root)' = After(step, l, Warm(Root), sized, Goal(Root))
        /\ at'[Root] \in Setup \cup {"evaluate"}
    BY <1>2, RootFacts, TakeKeepsCacheOK
  <1>5. step = "x_i" => at'[Root] = "evaluate"
    <2>1. \A l, sized : at'[Root] = After(step, l, Warm(Root), sized, "evaluate")
      BY <1>2, RootFacts, TakeEffect
    <2> QED
      BY <2>1 DEF After
  <1>6. RootFrame
    BY <1>3, RootFacts DEF RootFrame
  <1>7. Typed'
    <2>1. ProcessTyped(Root)'
      BY <1>3, RootFacts DEF ProcessTyped
    <2>2. RootShapes'
      BY <1>3, <2>1, RootShapesNow DEF RootShapes
    <2> QED
      BY <1>2, <1>6, <2>2, RootFacts, SendTyped
  <1>8. RootOK'
    BY <1>2, <1>3, <1>4, RootFacts DEF RootOK, Idle, Setup
  <1>9. ASSUME NEW w \in Workers
        PROVE  Follows(w)'
    <2>1. Place(Root) = step
      BY <1>2 DEF Place, Idle, Setup
    <2>2. Place(Root)' = After(step, load[w], Warm(w), Sized(w), Goal(Root)')
      <3>1. Warm(w) = Warm(Root)
        BY <1>2, <2>1, SameWhenRootSends
      <3> QED
        BY <1>4, <3>1
    <2>3. /\ local'[Root].kind = local[Root].kind
          /\ step \notin {"outputs_per_job", "command"}
          /\ \A x \in Kinds :
               num_outputs_per_job_'[Root][x] = num_outputs_per_job_[Root][x]
      BY <1>3 DEF Setup
    <2> QED
      BY <1>2, <1>4, <1>5, <1>6, <2>1, <2>2, <2>3, SendKeepsFollows
  <1> QED
    BY <1>4, <1>7, <1>8, <1>9, RootFacts DEF CInv, Control

(* The root evaluates its jobs.                                              *)
LEMMA EvaluateRootKeepsCInv ==
  ASSUME CInv, Evaluate(Root)
  PROVE  CInv'
  <1>1. PICK next : next = IF FirstEvaluation(Root) THEN "ok" ELSE "results"
    OBVIOUS
  <1>2. PICK f, g : local' = [local EXCEPT ![Root].f_out = f, ![Root].ok = g]
    BY DEF Evaluate
  <1>3. /\ at[Root] = "evaluate" /\ at' = [at EXCEPT ![Root] = next]
        /\ UNCHANGED <<listening, in_use, down, up>>
        /\ UNCHANGED <<request, answer, cache, num_outputs_per_job_>>
    <2>1. at[Root] = "evaluate"
      BY DEF Evaluate
    <2>2. CommandRefused(Root) # "no"
      BY <2>1, RootFacts DEF RootOK, CommandRefused
    <2> QED
      BY <1>1, <2>2 DEF Evaluate, SendNestedCommands
  <1>4. /\ DOMAIN local' = Rank
        /\ DOMAIN local'[Root] = LocalFields /\ local'[Root].kind = local[Root].kind
        /\ \A p \in Rank \ {Root} : local'[p] = local[p]
    BY <1>2, RootFacts DEF Shapes, ProcessTyped, LocalFields
  <1>5. /\ at' \in [Rank -> RootPlaces] /\ at'[Root] = next /\ next = Goal(Root)
        /\ \A p \in Rank \ {Root} : at'[p] = at[p]
        /\ next \in UpSteps /\ next \in {"ok", "results"}
    BY <1>1, <1>3, RootFacts DEF Shapes, RootPlaces, UpSteps, Goal
  <1>6. RootFrame
    BY <1>3, <1>4, <1>5, RootFacts DEF RootFrame
  <1>7. Typed'
    <2>1. Shapes' /\ ProcessTyped(Root)'
      BY <1>3, <1>4, <1>5, RootFacts DEF Shapes, ProcessTyped
    <2>2. \A w \in Workers : QueuesTyped(w)'
      BY <1>3, <1>6, RootFacts, QuietTyped
    <2> QED
      BY <1>3, <1>6, <2>1, <2>2, RootFacts, RootTyped
  <1>8. RootOK'
    BY <1>3, <1>4, <1>5, RootFacts DEF RootOK, Idle
  <1>9. CacheOK(Root)'
    <2>1. PICK k, n, D : /\ k = local[Root].kind /\ n = num_outputs_per_job_[Root]
                         /\ D = DOMAIN cache[Root]
      OBVIOUS
    <2>2. /\ CachedSteps \subseteq D /\ k \in Kinds
          /\ \A x \in Kinds : n[x] # -1 => "f_out" \in D
      <3>1. Warm(Root)
        BY <1>3, RootFacts, WarmAfterSetup DEF Setup
      <3>2. local[Root].kind \in Kinds
        BY <1>3, RootFacts DEF CacheOK
      <3>3. \A x \in Kinds : num_outputs_per_job_[Root][x] # -1 => Sized(Root)
        BY <1>3, RootFacts DEF CacheOK
      <3> QED
        BY <2>1, <3>1, <3>2, <3>3 DEF Warm, Sized
    <2>3. (next = "ok" /\ n[k] = -1) \/ (next = "results" /\ n[k] # -1)
      BY <1>1, <2>1 DEF FirstEvaluation
    <2>4. /\ at'[Root] = next /\ DOMAIN cache'[Root] = D /\ local'[Root].kind = k
          /\ num_outputs_per_job_'[Root] = n
      BY <1>3, <1>4, <1>5, <2>1
    <2>5. Warm(Root)' /\ (Sized(Root)' <=> "f_out" \in D)
          /\ (FirstEvaluation(Root)' <=> n[k] = -1)
      BY <2>2, <2>4 DEF Warm, Sized, FirstEvaluation
    <2>6. next = "results" => "f_out" \in D
      BY <2>2, <2>3
    <2>7. next \notin Setup \cup {"f_out", "status", "all_ok", "outputs_per_job"}
      BY <2>3 DEF Setup
    <2> QED
      BY <2>2, <2>3, <2>4, <2>5, <2>6, <2>7 DEF CacheOK
  <1>10. ASSUME NEW w \in Workers
         PROVE  Follows(w)'
    <2>1. Goal(Root)' = Goal(Root) /\ Place(Root)' = Place(Root)
      BY <1>3, <1>4, <1>5 DEF Place, Goal, FirstEvaluation, Idle, UpSteps
    <2> QED
      BY <1>3, <1>4, <1>5, <1>6, <2>1, QuietKeepsFollows
  <1> QED
    BY <1>7, <1>8, <1>9, <1>10 DEF CInv, Control

(* The root takes part in a reduce or gather.                                *)
LEMMA CollectKeepsCInv ==
  ASSUME CInv, NEW step \in UpSteps, at[Root] = step, AllArrived(step), TakeUp,
         NEW next, at' = [at EXCEPT ![Root] = next],
         next = IF step = "status" THEN "held" ELSE UpAfter(step),
         UNCHANGED <<listening, in_use, down, num_outputs_per_job_>>,
         DOMAIN cache' = Rank, \A p \in Rank \ {Root} : cache'[p] = cache[p],
         DOMAIN cache'[Root] = DOMAIN cache[Root] \cup ({step} \cap {"f_out"}),
         DOMAIN local' = Rank, \A p \in Rank \ {Root} : local'[p] = local[p],
         DOMAIN local'[Root] = LocalFields,
         local'[Root].kind = IF step = "status" THEN "none" ELSE local[Root].kind,
         request' = IF step = "status" THEN NoRequest ELSE request,
         answer'.is \in {"none", "refused", "error", "columns"}
  PROVE  CInv'
  <1>1. /\ next \in {"all_ok", "results", "status", "held"}
        /\ next = "all_ok" <=> step = "ok"
        /\ next = "results" <=> step = "f_out"
        /\ next = "status" <=> step = "results"
        /\ next = "held" <=> step = "status"
    BY UpAfterStep
  <1>2. /\ at' \in [Rank -> RootPlaces] /\ at'[Root] = next
        /\ \A p \in Rank \ {Root} : at'[p] = at[p]
    BY <1>1, RootFacts, DownStepsAre DEF Shapes, RootPlaces, UpSteps, Idle
  <1>3. RootFrame
    BY <1>2, RootFacts DEF RootFrame
  <1>4. Place(Root)' = UpAfter(step)
    BY <1>1, <1>2, UpStepsAre DEF Place, Idle
  <1>5. ASSUME NEW w \in Workers
        PROVE  Follows(w)' /\ QueuesTyped(w)'
    <2>1. /\ down' = down
          /\ num_outputs_per_job_'[Root] = num_outputs_per_job_[Root]
          /\ local'[Root].kind = local[Root].kind \/ step = "status"
      OBVIOUS
    <2> QED
      BY <1>3, <1>4, <2>1, CollectKeepsFollows
  <1>6. Typed'
    <2>1. ProcessTyped(Root)'
      BY RootFacts DEF ProcessTyped
    <2>2. RootShapes'
      BY <1>2, <2>1, RootShapesNow DEF RootShapes
    <2> QED
      BY <1>3, <1>5, <2>2, RootFacts, CollectTyped
  <1>7. RootOK'
    BY <1>1, <1>2, RootFacts DEF RootOK, Idle, UpSteps
  <1>8. CacheOK(Root)'
    <2>1. PICK k, n, D : /\ k = local[Root].kind /\ n = num_outputs_per_job_[Root]
                         /\ D = DOMAIN cache[Root]
      OBVIOUS
    <2>2. /\ CachedSteps \subseteq D /\ k \in Kinds
          /\ \A x \in Kinds : n[x] # -1 => "f_out" \in D \/ step = "f_out"
          /\ step \in {"results", "status"} => "f_out" \in D
          /\ step = "ok" => n[k] = -1
          /\ step \in {"f_out", "results", "status"} => n[k] # -1
      <3>1. Warm(Root)
        BY RootFacts, WarmAfterSetup DEF UpSteps, Setup
      <3>2. local[Root].kind \in Kinds
        BY RootFacts DEF CacheOK
      <3>3. \A x \in Kinds :
              num_outputs_per_job_[Root][x] # -1 => Sized(Root) \/ step = "f_out"
        BY RootFacts DEF CacheOK
      <3>4. step \in {"results", "status"} => Sized(Root)
        BY RootFacts DEF CacheOK
      <3>5. /\ step = "ok" => FirstEvaluation(Root)
            /\ step \in {"f_out", "results", "status"} => ~FirstEvaluation(Root)
        BY RootFacts DEF CacheOK
      <3> QED
        BY <2>1, <3>1, <3>2, <3>3, <3>4, <3>5 DEF Warm, Sized, FirstEvaluation
    <2>3. /\ at'[Root] = next /\ DOMAIN cache'[Root] = D \cup ({step} \cap {"f_out"})
          /\ local'[Root].kind = IF step = "status" THEN "none" ELSE k
          /\ num_outputs_per_job_'[Root] = n
      BY <1>2, <2>1
    <2>4. /\ Warm(Root)' /\ (Sized(Root)' <=> "f_out" \in D \/ step = "f_out")
          /\ step # "status" => (FirstEvaluation(Root)' <=> n[k] = -1)
      BY <2>2, <2>3 DEF Warm, Sized, FirstEvaluation
    <2>5. next \notin Setup \cup {"f_out", "ok", "outputs_per_job", "evaluate"}
      BY <1>1 DEF Setup
    <2>6. CASE step = "status"
      <3>1. next \notin Setup \cup UpSteps \cup
                         {"evaluate", "all_ok", "outputs_per_job"}
        BY <1>1, <2>6 DEF Setup, UpSteps
      <3> QED
        BY <2>2, <2>3, <2>4, <2>6, <3>1 DEF CacheOK, UpSteps
    <2>7. CASE step # "status"
      BY <1>1, <2>2, <2>3, <2>4, <2>5, <2>7 DEF CacheOK
    <2> QED
      BY <2>6, <2>7
  <1> QED
    BY <1>5, <1>6, <1>7, <1>8 DEF CInv, Control

LEMMA RootCollectsKeepCInv ==
  ASSUME CInv, CollectOk \/ CollectSizes \/ CollectResults \/ CollectStatus
  PROVE  CInv'
  <1>1. /\ DOMAIN cache = Rank /\ DOMAIN local = Rank /\ Root \in Rank
        /\ DOMAIN local[Root] = LocalFields
        /\ answer.is \in {"none", "refused", "error", "columns"}
    BY RootFacts DEF Shapes, ProcessTyped
  <1>2. CASE CollectOk
    <2>1. /\ at[Root] = "ok" /\ AllArrived("ok") /\ TakeUp
          /\ at' = [at EXCEPT ![Root] = UpAfter("ok")]
          /\ UNCHANGED <<listening, in_use, down, num_outputs_per_job_>>
          /\ UNCHANGED <<request, answer>> /\ cache' = cache
          /\ local' = [local EXCEPT ![Root].all_ok = AllOk(local[Root].ok)]
      BY <1>2, UpStepsAre DEF CollectOk
    <2>2. DOMAIN cache'[Root] = DOMAIN cache[Root] \cup ({"ok"} \cap {"f_out"})
      BY <2>1
    <2>3. /\ DOMAIN local' = Rank /\ \A p \in Rank \ {Root} : local'[p] = local[p]
          /\ DOMAIN local'[Root] = LocalFields /\ local'[Root].kind = local[Root].kind
      BY <1>1, <2>1 DEF LocalFields
    <2> QED
      BY <1>1, <2>1, <2>2, <2>3, UpStepsAre, CollectKeepsCInv
  <1>3. CASE CollectSizes
    <2>1. /\ at[Root] = "f_out" /\ AllArrived("f_out") /\ TakeUp
          /\ at' = [at EXCEPT ![Root] = UpAfter("f_out")]
          /\ UNCHANGED <<listening, in_use, down, num_outputs_per_job_>>
          /\ UNCHANGED <<request, answer>> /\ local' = local
          /\ Store(Root, "f_out", Gathered(local[Root].f_out))
      BY <1>3, UpStepsAre DEF CollectSizes
    <2>2. /\ DOMAIN cache' = Rank /\ \A p \in Rank \ {Root} : cache'[p] = cache[p]
          /\ DOMAIN cache'[Root] = DOMAIN cache[Root] \cup ({"f_out"} \cap {"f_out"})
      BY <1>1, <2>1, StoreEffect
    <2> QED
      BY <1>1, <2>1, <2>2, UpStepsAre, CollectKeepsCInv
  <1>4. CASE CollectResults
    <2>1. PICK f, g : local' = [local EXCEPT ![Root].ok = f, ![Root].result = g]
      BY <1>4 DEF CollectResults
    <2>2. /\ at[Root] = "results" /\ AllArrived("results") /\ TakeUp
          /\ at' = [at EXCEPT ![Root] = UpAfter("results")]
          /\ UNCHANGED <<listening, in_use, down, num_outputs_per_job_>>
          /\ UNCHANGED <<request, answer>> /\ cache' = cache
      BY <1>4, UpStepsAre DEF CollectResults
    <2>3. DOMAIN cache'[Root] = DOMAIN cache[Root] \cup ({"results"} \cap {"f_out"})
      BY <2>2
    <2>4. /\ DOMAIN local' = Rank /\ \A p \in Rank \ {Root} : local'[p] = local[p]
          /\ DOMAIN local'[Root] = LocalFields /\ local'[Root].kind = local[Root].kind
      BY <1>1, <2>1 DEF LocalFields
    <2> QED
      BY <1>1, <2>2, <2>3, <2>4, UpStepsAre, CollectKeepsCInv
  <1>5. CASE CollectStatus
    <2>1. PICK a : answer' = a /\ a \in {Answer(local[Root].result), Error}
      BY <1>5 DEF CollectStatus, Return
    <2>2. answer'.is \in {"none", "refused", "error", "columns"}
      BY <2>1 DEF Answer, Error
    <2>3. /\ at[Root] = "status" /\ AllArrived("status") /\ TakeUp
          /\ at' = [at EXCEPT ![Root] = "held"]
          /\ UNCHANGED <<listening, in_use, down, num_outputs_per_job_>>
          /\ request' = NoRequest /\ cache' = cache
          /\ local' = [local EXCEPT ![Root] = NoLocals]
      BY <1>5 DEF CollectStatus, Return
    <2>4. DOMAIN cache'[Root] = DOMAIN cache[Root] \cup ({"status"} \cap {"f_out"})
      BY <2>3
    <2>5. /\ DOMAIN local' = Rank /\ \A p \in Rank \ {Root} : local'[p] = local[p]
          /\ DOMAIN local'[Root] = LocalFields /\ local'[Root].kind = "none"
      BY <1>1, <2>3, NoLocalsFields
    <2> QED
      BY <1>1, <2>2, <2>3, <2>4, <2>5, UpStepsAre, CollectKeepsCInv
  <1> QED
    BY <1>2, <1>3, <1>4, <1>5

(* The root broadcasts whether the first evaluation went well everywhere.    *)
LEMMA SendAllOkKeepsCInv ==
  ASSUME CInv, SendAllOk
  PROVE  CInv'
  <1>1. PICK ok, next : /\ ok = local[Root].all_ok
                        /\ next = IF ok THEN "outputs_per_job" ELSE "held"
    OBVIOUS
  <1>2. /\ at[Root] = "all_ok" /\ at' = [at EXCEPT ![Root] = next]
        /\ SendDown("all_ok", Everyone(ok))
        /\ UNCHANGED <<listening, in_use, up, cache, num_outputs_per_job_>>
        /\ ok => UNCHANGED <<answer, request, local>>
        /\ ~ok => /\ local' = [local EXCEPT ![Root] = NoLocals]
                  /\ request' = NoRequest /\ answer'.is = "error"
    BY <1>1 DEF SendAllOk, Return, Error
  <1>3. /\ at' \in [Rank -> RootPlaces] /\ at'[Root] = next
        /\ \A p \in Rank \ {Root} : at'[p] = at[p]
    BY <1>1, <1>2, RootFacts, DownStepsAre DEF Shapes, RootPlaces, Idle
  <1>4. /\ DOMAIN local' = Rank /\ DOMAIN local'[Root] = LocalFields
        /\ local'[Root].kind \in Kinds \cup {"none"}
        /\ ok => local'[Root].kind = local[Root].kind
        /\ \A p \in Rank \ {Root} : local'[p] = local[p]
    BY <1>2, RootFacts, NoLocalsFields DEF Shapes, ProcessTyped
  <1>5. RootFrame
    BY <1>2, <1>3, <1>4, RootFacts DEF RootFrame
  <1>6. Typed'
    <2>1. ProcessTyped(Root)'
      BY <1>2, <1>4, RootFacts DEF ProcessTyped
    <2>2. /\ answer'.is \in {"none", "refused", "error", "columns"}
          /\ request' \in Requests \cup {NoRequest}
      BY <1>2, RootFacts
    <2>3. RootShapes'
      BY <1>2, <1>3, <1>4, <2>1, <2>2, RootShapesNow DEF RootShapes
    <2> QED
      BY <1>2, <1>5, <2>3, RootFacts, SendTyped, DownStepsAre
  <1>7. RootOK'
    <2>1. /\ listening /\ in_use /\ request # NoRequest
          /\ local[Root].kind = request.kind
      BY <1>2, RootFacts DEF RootOK, Idle
    <2>2. CASE ok
      BY <1>1, <1>2, <1>3, <2>1, <2>2 DEF RootOK, Idle
    <2>3. CASE ~ok
      BY <1>1, <1>2, <1>3, <2>1, <2>3 DEF RootOK, Idle
    <2> QED
      BY <2>2, <2>3
  <1>8. CacheOK(Root)'
    <2>1. Warm(Root) /\ Warm(Root)'
      BY <1>2, RootFacts, WarmAfterSetup DEF Setup, Warm
    <2>2. /\ \A k \in Kinds : num_outputs_per_job_[Root][k] # -1 => Sized(Root)
          /\ local[Root].kind \in Kinds /\ FirstEvaluation(Root)
      BY <1>2, RootFacts DEF CacheOK
    <2>3. next = "outputs_per_job" => FirstEvaluation(Root)'
      BY <1>1, <1>2, <1>4, <2>2 DEF FirstEvaluation
    <2>4. \A k \in Kinds : num_outputs_per_job_'[Root][k] # -1 => Sized(Root)'
      BY <1>2, <2>2 DEF Sized
    <2>5. next = "outputs_per_job" => local'[Root].kind \in Kinds
      BY <1>1, <1>4, <2>2
    <2>6. next \notin Setup \cup UpSteps \cup {"evaluate", "all_ok"}
      BY <1>1 DEF Setup, UpSteps
    <2> QED
      BY <1>3, <2>1, <2>3, <2>4, <2>5, <2>6 DEF CacheOK, UpSteps
  <1>9. ASSUME NEW w \in Workers
        PROVE  Follows(w)'
    <2>1. /\ Place(Root) = "all_ok" /\ "all_ok" \in DownSteps
          /\ Everyone(ok)[w] = ok
          /\ Place(Root)' = After("all_ok", ok, Warm(w), Sized(w), Goal(Root)')
      BY <1>1, <1>2, <1>3, DownStepsAre DEF Place, Idle, After, Everyone
    <2>2. /\ local'[Root].kind = local[Root].kind \/ ~ok
          /\ (Warm(Root)' <=> Warm(Root)) /\ (Sized(Root)' <=> Sized(Root))
          /\ \A k \in Kinds :
               num_outputs_per_job_'[Root][k] = num_outputs_per_job_[Root][k]
      BY <1>2, <1>4 DEF Warm, Sized
    <2> QED
      BY <1>2, <1>5, <2>1, <2>2, SendKeepsFollows
  <1> QED
    BY <1>6, <1>7, <1>8, <1>9 DEF CInv, Control

(* The root broadcasts the number of rows.                                   *)
LEMMA SendOutputsPerJobKeepsCInv ==
  ASSUME CInv, SendOutputsPerJob
  PROVE  CInv'
  <1>1. PICK rows \in {0, 1} : rows = LocalOutputsPerJob
    BY DEF LocalOutputsPerJob
  <1>2. /\ at[Root] = "outputs_per_job"
        /\ SendDown("outputs_per_job", Everyone(rows))
        /\ LearnOutputsPerJob(Root, rows)
    BY <1>1 DEF SendOutputsPerJob
  <1>3. /\ at' \in [Rank -> RootPlaces]
        /\ at'[Root] = IF Sized(Root) THEN "results" ELSE "f_out"
        /\ \A q \in Rank \ {Root} :
             at'[q] = at[q] /\ num_outputs_per_job_'[q] = num_outputs_per_job_[q]
        /\ num_outputs_per_job_' \in [Rank -> [Kinds -> {-1, 0, 1}]]
        /\ \A k \in Kinds :
             num_outputs_per_job_'[Root][k] =
               IF k = local[Root].kind THEN rows ELSE num_outputs_per_job_[Root][k]
        /\ UNCHANGED <<listening, in_use, up, request, answer, cache, local>>
        /\ CacheOK(Root)' /\ Place(Root)' = at'[Root]
    BY <1>2, RootFacts, LearnEffect
  <1>4. RootFrame
    BY <1>3, RootFacts DEF RootFrame
  <1>5. Typed'
    <2>1. ProcessTyped(Root)'
      BY <1>3, RootFacts DEF ProcessTyped
    <2>2. RootShapes'
      BY <1>3, <2>1, RootShapesNow DEF RootShapes
    <2> QED
      BY <1>2, <1>3, <1>4, <2>2, RootFacts, SendTyped, DownStepsAre
  <1>6. RootOK'
    BY <1>2, <1>3, RootFacts DEF RootOK, Idle
  <1>7. ASSUME NEW w \in Workers
        PROVE  Follows(w)'
    <2>1. /\ Place(Root) = "outputs_per_job" /\ "outputs_per_job" \in DownSteps
          /\ Everyone(rows)[w] = rows
      BY <1>2, DownStepsAre DEF Place, Idle, Everyone
    <2>2. Place(Root)' = After("outputs_per_job", rows, Warm(w), Sized(w), Goal(Root)')
      <3>1. Sized(w) = Sized(Root)
        BY <2>1, SameWhenRootSends
      <3> QED
        BY <1>3, <3>1 DEF After
    <2>3. /\ local'[Root].kind = local[Root].kind
          /\ (Warm(Root)' <=> Warm(Root)) /\ (Sized(Root)' <=> Sized(Root))
      BY <1>3 DEF Warm, Sized
    <2>4. up' = up
      BY <1>3
    <2> QED
      BY <1>2, <1>3, <1>4, <2>1, <2>2, <2>3, <2>4, SendKeepsFollows
  <1> QED
    BY <1>3, <1>5, <1>6, <1>7 DEF CInv, Control

LEMMA RootStepKeepsCInv ==
  ASSUME CInv, RootStep \/ Release \/ ClusterRoot
  PROVE  CInv'
  BY SetupIs, SendCommandKeepsCInv, SetupSendKeepsCInv, EvaluateRootKeepsCInv,
     RootCollectsKeepCInv, SendAllOkKeepsCInv, SendOutputsPerJobKeepsCInv,
     QuietRootKeepsCInv, StopListenKeepsCInv
     DEF RootStep, ClusterRoot

LEMMA CInvInit ==
  ASSUME Init
  PROVE  CInv
  <1>1. /\ at = [p \in Rank |-> "outside"] /\ listening = FALSE /\ in_use = FALSE
        /\ down = [w \in Workers |-> <<>>] /\ up = [w \in Workers |-> <<>>]
        /\ request = NoRequest /\ answer.is = "none"
        /\ cache = [p \in Rank |-> <<>>]
        /\ num_outputs_per_job_ = [p \in Rank |-> [k \in Kinds |-> -1]]
        /\ local = [p \in Rank |-> NoLocals]
    BY DEF Init, ClusterInit
  <1>2. DOMAIN << >> = {} /\ Len(<< >>) = 0
    BY EmptySeq
  <1>3. /\ \A p \in Rank : /\ at[p] = "outside" /\ cache[p] = << >>
                           /\ DOMAIN cache[p] = {} /\ local[p] = NoLocals
                           /\ \A k \in Kinds : num_outputs_per_job_[p][k] = -1
        /\ \A w \in Workers : down[w] = << >> /\ up[w] = << >>
        /\ Root \in Rank /\ Workers \subseteq Rank
    BY <1>1, <1>2, RootIsNoWorker
  <1>4. Typed
    <2>1. \A p \in Rank : ProcessTyped(p)
      BY <1>3, NoLocalsFields DEF ProcessTyped
    <2>2. \A w \in Workers : QueuesTyped(w)
      BY <1>2, <1>3, QueueEmpty, ClusterAssumption DEF QueuesTyped, WorkerPlaces
    <2>3. Shapes
      BY <1>1 DEF Shapes, RootPlaces, Idle
    <2> QED
      BY <1>1, <2>1, <2>2, <2>3 DEF Typed
  <1>5. RootOK
    BY <1>1, <1>3 DEF RootOK, Idle
  <1>6. ASSUME NEW p \in Rank
        PROVE  CacheOK(p)
    BY <1>3 DEF CacheOK, Earlier, Setup, UpSteps, Warm, CachedSteps
  <1>7. ASSUME NEW w \in Workers
        PROVE  Follows(w)
    <2>1. /\ down[w] = << >> /\ up[w] = << >> /\ Len(down[w]) = 0
          /\ at[w] = "outside" /\ at[Root] = "outside" /\ w \in Rank
          /\ DOMAIN cache[w] = {} /\ DOMAIN cache[Root] = {}
      BY <1>2, <1>3
    <2>2. Place(w) = "command" /\ Place(Root) = "command"
      BY <2>1 DEF Place, Idle
    <2>3. InStep(w)
      BY <2>1, <2>2 DEF InStep, Leads, LeadsUp, Together
    <2>4. SameKind(w) /\ SameRows(w)
      BY <1>3, <2>1 DEF SameKind, SameRows, InTheCall, Setup, UpSteps
    <2>5. SameCaches(w)
      BY <2>1 DEF SameCaches, Warm, Sized, CachedSteps
    <2> QED
      BY <1>6, <2>1, <2>3, <2>4, <2>5 DEF Follows
  <1> QED
    BY <1>3, <1>4, <1>5, <1>6, <1>7 DEF CInv, Control

LEMMA CInvNext ==
  ASSUME CInv, [Next]_vars
  PROVE  CInv'
  <1>1. CASE UNCHANGED vars
    <2>1. /\ UNCHANGED <<at, listening, in_use, down, up>>
          /\ UNCHANGED <<request, answer, cache, num_outputs_per_job_, local>>
      BY <1>1 DEF vars, clusterVars
    <2>2. RootFrame
      BY <2>1 DEF RootFrame
    <2>3. Typed'
      <3>1. Shapes' /\ ProcessTyped(Root)'
        BY <2>1, RootFacts DEF Shapes, ProcessTyped
      <3>2. \A w \in Workers : QueuesTyped(w)'
        BY <2>1, <2>2, RootFacts, QuietTyped
      <3> QED
        BY <2>1, <2>2, <3>1, <3>2, RootFacts, RootTyped
    <2>4. RootOK'
      BY <2>1, RootFacts DEF RootOK
    <2>5. CacheOK(Root)' /\ Place(Root)' = Place(Root) /\ Goal(Root)' = Goal(Root)
      BY <2>1, RootFacts DEF CacheOK, Warm, Sized, FirstEvaluation, Place, Goal
    <2>6. ASSUME NEW w \in Workers
          PROVE  Follows(w)'
      BY <2>1, <2>2, <2>5, QuietKeepsFollows
    <2> QED
      BY <2>3, <2>4, <2>5, <2>6 DEF CInv, Control
  <1>2. CASE Next
    BY <1>2, RootStepKeepsCInv, StartKeepsCInv, RefusedKeepsCInv, WorkerStepKeepsCInv
       DEF Next
  <1> QED
    BY <1>1, <1>2

(* The invariant that keeps all processes at the same list of collectives.   *)
THEOREM ControlInvariance == Spec => []CInv
  <1>1. Init => CInv
    BY CInvInit
  <1>2. CInv /\ [Next]_vars => CInv'
    BY CInvNext
  <1> QED
    BY <1>1, <1>2, PTL DEF Spec

-----------------------------------------------------------------------------
(***************************************************************************)
(* Where the jobs of a rank begin: a sum over the ranks before it.         *)
(***************************************************************************)
Before(p) == {q \in Rank : q < p}

LEMMA FirstJobIsSum ==
  ASSUME NEW c, NEW p
  PROVE  FirstJob(c, p) = SumOver(c, Before(p))
  BY DEF FirstJob, MapThenSumSet, MapThenFoldSet, Iter, SumOver, Before

LEMMA FirstJobIs ==
  ASSUME NEW c \in [Rank -> Nat]
  PROVE  /\ \A p \in 0 .. WorldSize : FirstJob(c, p) \in Nat
         /\ \A p \in Rank : FirstJob(c, p + 1) = FirstJob(c, p) + c[p]
         /\ FirstJob(c, 0) = 0
         /\ SumFunction(c) = FirstJob(c, WorldSize)
  <1>1. Rank = 0 .. WorldSize - 1 /\ WorldSize \in Nat \ {0}
    BY ClusterAssumption DEF Rank
  <1>2. IsFiniteSet(Rank)
    BY <1>1, FS_Interval
  <1>3. ASSUME NEW p \in 0 .. WorldSize
        PROVE  /\ IsFiniteSet(Before(p)) /\ NaturalOn(c, Before(p))
               /\ FirstJob(c, p) \in Nat
    <2>1. Before(p) \in SUBSET Rank
      BY DEF Before
    <2>2. IsFiniteSet(Before(p)) /\ NaturalOn(c, Before(p))
      BY <1>2, <2>1, FS_Subset DEF NaturalOn
    <2> QED
      BY <2>2, FirstJobIsSum, SumOverIs
  <1>4. ASSUME NEW p \in Rank
        PROVE  FirstJob(c, p + 1) = FirstJob(c, p) + c[p]
    <2>1. p \in 0 .. WorldSize /\ p + 1 \in 0 .. WorldSize
      BY <1>1
    <2>2. p \in Before(p + 1) /\ Before(p + 1) \ {p} = Before(p)
      BY <1>1 DEF Before
    <2>3. SumOver(c, Before(p + 1)) = c[p] + SumOver(c, Before(p + 1) \ {p})
      BY <1>3, <2>1, <2>2, SumOverIs
    <2>4. FirstJob(c, p + 1) = c[p] + FirstJob(c, p)
      BY <2>2, <2>3, FirstJobIsSum
    <2>5. PICK a, b : a = c[p] /\ b = FirstJob(c, p)
      OBVIOUS
    <2>6. a \in Nat /\ b \in Nat
      BY <1>3, <2>1, <2>5
    <2> QED
      BY <2>4, <2>5, <2>6
  <1>5. FirstJob(c, 0) = 0
    <2>1. Before(0) = {} /\ 0 \in 0 .. WorldSize
      BY <1>1 DEF Before
    <2> QED
      BY <1>3, <2>1, FirstJobIsSum, SumOverIs
  <1>6. SumFunction(c) = FirstJob(c, WorldSize)
    <2>1. SumFunction(c) = SumOver(c, DOMAIN c)
      BY DEF SumFunction, SumFunctionOnSet, FoldFunctionOnSet, MapThenFoldSet, Iter, SumOver
    <2>2. Before(WorldSize) = Rank
      BY <1>1 DEF Before
    <2> QED
      BY <2>1, <2>2, FirstJobIsSum
  <1> QED
    BY <1>3, <1>4, <1>5, <1>6

(* Every process's jobs are among all jobs.                                  *)
LEMMA FirstJobBound ==
  ASSUME NEW c \in [Rank -> Nat], NEW p \in Rank
  PROVE  /\ FirstJob(c, p) \in Nat /\ SumFunction(c) \in Nat
         /\ FirstJob(c, p) + c[p] <= SumFunction(c)
  <1>1. /\ Rank = 0 .. WorldSize - 1 /\ WorldSize \in Nat \ {0} /\ p \in Nat
        /\ p + 1 \in 0 .. WorldSize /\ p \in 0 .. WorldSize
        /\ WorldSize \in 0 .. WorldSize
    BY ClusterAssumption DEF Rank
  <1>2. PICK F : F = [q \in 0 .. WorldSize |-> FirstJob(c, q)]
    OBVIOUS
  <1>3. /\ \A q \in 0 .. WorldSize : F[q] \in Nat /\ F[q] = FirstJob(c, q)
        /\ \A q \in Rank : F[q + 1] = F[q] + c[q]
        /\ SumFunction(c) = F[WorldSize]
    <2>1. \A q \in 0 .. WorldSize : F[q] \in Nat /\ F[q] = FirstJob(c, q)
      BY <1>2, FirstJobIs
    <2>2. ASSUME NEW q \in Rank
          PROVE  F[q + 1] = F[q] + c[q]
      <3>1. q \in 0 .. WorldSize /\ q + 1 \in 0 .. WorldSize
        BY <1>1
      <3> QED
        BY <2>1, <3>1, FirstJobIs
    <2>3. SumFunction(c) = F[WorldSize]
      BY <1>1, <2>1, FirstJobIs
    <2> QED
      BY <2>1, <2>2, <2>3
  <1> DEFINE T == {n \in Nat : p + 1 + n <= WorldSize => F[p + 1] <= F[p + 1 + n]}
  <1>4. 0 \in T
    BY <1>1, <1>3
  <1>5. ASSUME NEW n \in T
        PROVE  n + 1 \in T
    <2>1. SUFFICES ASSUME p + 1 + (n + 1) <= WorldSize
                   PROVE  F[p + 1] <= F[p + 1 + (n + 1)]
      OBVIOUS
    <2>2. PICK q : q = p + 1 + n
      OBVIOUS
    <2>3. q \in Rank /\ q \in 0 .. WorldSize /\ q + 1 = p + 1 + (n + 1)
      BY <1>1, <2>1, <2>2
    <2>4. F[q + 1] = F[q] + c[q] /\ c[q] \in Nat
          /\ F[q] \in Nat /\ F[p + 1] \in Nat
      BY <1>1, <1>3, <2>3
    <2>6. F[p + 1] <= F[q]
      BY <1>1, <2>1, <2>2
    <2>5. F[p + 1] <= F[q + 1]
      BY <2>4, <2>6
    <2> QED
      BY <2>3, <2>5
  <1>6. T = Nat
    <2> HIDE DEF T
    <2>1. T \in SUBSET Nat
      BY DEF T
    <2> QED
      BY <1>4, <1>5, <2>1, InductionOnNat
  <1>7. PICK n : n = WorldSize - (p + 1)
    OBVIOUS
  <1>8. n \in Nat /\ p + 1 + n = WorldSize
    BY <1>1, <1>7
  <1>9. F[p + 1] <= F[WorldSize]
    <2>1. n \in T
      BY <1>6, <1>8
    <2>2. F[p + 1] <= F[p + 1 + n]
      BY <1>1, <1>8, <2>1
    <2> QED
      BY <1>8, <2>2
  <1> QED
    BY <1>1, <1>3, <1>9

LEMMA Division ==
  ASSUME NEW n \in Nat, NEW w \in Nat \ {0}
  PROVE  /\ n \div w \in Nat /\ n % w \in 0 .. w - 1
         /\ n = w * (n \div w) + (n % w)
  OBVIOUS

(* How the jobs are shared out; the root always has one.                     *)
LEMMA ChunksAre ==
  ASSUME NEW n \in Nat
  PROVE  /\ mpi_map_chunks(n) \in [Rank -> Nat]
         /\ n # 0 => mpi_map_chunks(n)[Root] # 0
  <1>1. PICK d, m : d = n \div WorldSize /\ m = n % WorldSize
    OBVIOUS
  <1>2. /\ d \in Nat /\ m \in Nat /\ n = WorldSize * d + m
        /\ WorldSize \in Nat \ {0}
    BY <1>1, Division, ClusterAssumption
  <1>3. \A p \in Rank : (d + (IF Chunks!HasExtra(n, WorldSize, p) THEN 1 ELSE 0)) * 1 \in Nat
    BY <1>2
  <1>4. mpi_map_chunks(n) =
          [p \in Rank |-> (d + (IF Chunks!HasExtra(n, WorldSize, p) THEN 1 ELSE 0)) * 1]
    BY <1>1 DEF mpi_map_chunks, Chunks!MapChunks, Rank
  <1>5. mpi_map_chunks(n) \in [Rank -> Nat]
    BY <1>3, <1>4
  <1>6. ASSUME n # 0
        PROVE  mpi_map_chunks(n)[Root] # 0
    <2>1. mpi_map_chunks(n)[0] =
            (d + (IF Chunks!HasExtra(n, WorldSize, 0) THEN 1 ELSE 0)) * 1
      BY <1>4, RootIsNoWorker DEF Root
    <2>2. d = 0 => m # 0
      BY <1>2, <1>6
    <2>3. d = 0 => Chunks!HasExtra(n, WorldSize, 0)
      BY <1>1, <1>2, <2>2 DEF Chunks!HasExtra, Chunks!FirstWithExtra
    <2> QED
      BY <1>2, <2>1, <2>3 DEF Root
  <1> QED
    BY <1>5, <1>6

LEMMA SliceIs ==
  ASSUME NEW n \in Nat, NEW p \in Rank
  PROVE  /\ DOMAIN Slice(n, p) = 1 .. mpi_map_chunks(n)[p]
         /\ mpi_map_chunks(n)[p] \in Nat
         /\ \A i \in DOMAIN Slice(n, p) : Slice(n, p)[i] \in Nat \ {0}
  <1>1. mpi_map_chunks(n) \in [Rank -> Nat]
    BY ChunksAre
  <1>2. FirstJob(mpi_map_chunks(n), p) \in Nat /\ mpi_map_chunks(n)[p] \in Nat
    BY <1>1, FirstJobBound
  <1> QED
    BY <1>2 DEF Slice

(* What the scatter of the job parameters gives a process.                   *)
LEMMA ShareIs ==
  ASSUME NEW p \in Rank, cache[Root]["dims"] \in Nat, Jobs \in Nat
  PROVE  /\ Share("params", p) \in Seq(0 .. Jobs)
         /\ Len(Share("params", p)) = mpi_map_chunks(cache[Root]["dims"])[p]
         /\ mpi_map_chunks(cache[Root]["dims"])[p] \in Nat
  <1>1. PICK s, n : s = Slice(cache[Root]["dims"], p)
                    /\ n = mpi_map_chunks(cache[Root]["dims"])[p]
    OBVIOUS
  <1>2. DOMAIN s = 1 .. n /\ n \in Nat /\ \A i \in 1 .. n : s[i] \in Nat \ {0}
    BY <1>1, SliceIs
  <1>3. Share("params", p) =
          [i \in 1 .. n |-> IF s[i] <= Jobs THEN s[i] ELSE 0]
    BY <1>1, <1>2 DEF Share
  <1>4. [i \in 1 .. n |-> IF s[i] <= Jobs THEN s[i] ELSE 0] \in [1 .. n -> 0 .. Jobs]
    <2>1. PICK J : J = Jobs
      OBVIOUS
    <2>2. \A i \in 1 .. n : (IF s[i] <= J THEN s[i] ELSE 0) \in 0 .. J
      BY <1>2, <2>1
    <2>3. [i \in 1 .. n |-> IF s[i] <= J THEN s[i] ELSE 0] \in [1 .. n -> 0 .. J]
      BY <2>2
    <2> QED
      BY <2>1, <2>3
  <1>5. PICK f : f = Share("params", p)
    OBVIOUS
  <1>6. f \in Seq(0 .. Jobs) /\ Len(f) = n
    BY <1>2, <1>3, <1>4, <1>5, SeqOfFunction
  <1> QED
    BY <1>1, <1>2, <1>5, <1>6

(***************************************************************************)
(* Chunks in the order of ranks.                                           *)
(***************************************************************************)

(* h is the chunks q of the processes up to i.                               *)
IsGathered(h, c, q, i) ==
  /\ h \in Seq(Nat) /\ Len(h) = FirstJob(c, i + 1)
  /\ \A p \in 0 .. i :
       /\ FirstJob(c, p) + c[p] <= Len(h)
       /\ \A k \in 1 .. c[p] : h[FirstJob(c, p) + k] = q[p][k]

IsConcat(g, h, r) ==
  /\ g \in Seq(Nat) /\ Len(g) = Len(h) + Len(r)
  /\ \A j \in 1 .. Len(h) + Len(r) :
       g[j] = IF j <= Len(h) THEN h[j] ELSE r[j - Len(h)]

LEMMA ConcatIs ==
  ASSUME NEW h \in Seq(Nat), NEW r \in Seq(Nat)
  PROVE  IsConcat(h \o r, h, r)
  BY ConcatProperties DEF IsConcat

LEMMA ConcatOfThree ==
  ASSUME NEW a \in Seq(Nat), NEW b \in Seq(Nat), NEW d \in Seq(Nat),
         NEW x, IsConcat(x, b, d), NEW y, IsConcat(y, a, x), NEW z, IsConcat(z, a, b)
  PROVE  IsConcat(y, z, d)
  <1>1. PICK l, m, n : l = Len(a) /\ m = Len(b) /\ n = Len(d)
    OBVIOUS
  <1>2. l \in Nat /\ m \in Nat /\ n \in Nat
    BY <1>1, LenProperties
  <1>3. Len(x) = m + n /\ Len(z) = l + m /\ Len(y) = l + (m + n) /\ y \in Seq(Nat)
    BY <1>1 DEF IsConcat
  <1>4. /\ \A j \in 1 .. m + n : x[j] = IF j <= m THEN b[j] ELSE d[j - m]
        /\ \A j \in 1 .. l + m : z[j] = IF j <= l THEN a[j] ELSE b[j - l]
        /\ \A j \in 1 .. l + (m + n) : y[j] = IF j <= l THEN a[j] ELSE x[j - l]
    BY <1>1, <1>3 DEF IsConcat
  <1>5. ASSUME NEW j \in 1 .. (l + m) + n
        PROVE  y[j] = IF j <= l + m THEN z[j] ELSE d[j - (l + m)]
    <2>1. j \in 1 .. l + (m + n)
      BY <1>2
    <2>2. CASE j <= l
      <3>1. j \in 1 .. l + m
        BY <1>2, <2>2
      <3> QED
        BY <1>4, <2>1, <2>2, <3>1
    <2>3. CASE ~ (j <= l) /\ j <= l + m
      <3>1. j \in 1 .. l + m /\ j - l \in 1 .. m + n /\ j - l <= m
        BY <1>2, <2>3
      <3> QED
        BY <1>4, <2>1, <2>3, <3>1
    <2>4. CASE ~ (j <= l + m)
      <3>1. /\ ~ (j <= l) /\ j - l \in 1 .. m + n /\ ~ (j - l <= m)
            /\ (j - l) - m = j - (l + m)
        BY <1>2, <2>4
      <3> QED
        BY <1>4, <2>1, <2>4, <3>1
    <2> QED
      BY <2>2, <2>3, <2>4
  <1>6. l + (m + n) = (l + m) + n
    BY <1>2
  <1> QED
    BY <1>1, <1>3, <1>5, <1>6 DEF IsConcat

IsChunks(q, c) == \A p \in Rank : q[p] \in Seq(Nat) /\ Len(q[p]) = c[p]

LEMMA GatheredFirst ==
  ASSUME NEW c \in [Rank -> Nat], NEW q, IsChunks(q, c)
  PROVE  IsGathered(q[0], c, q, 0)
  <1>1. /\ 0 \in Rank /\ q[0] \in Seq(Nat) /\ Len(q[0]) = c[0] /\ c[0] \in Nat
        /\ FirstJob(c, 0) = 0 /\ FirstJob(c, 0 + 1) = FirstJob(c, 0) + c[0]
    BY RootIsNoWorker, FirstJobIs DEF Root, IsChunks
  <1>2. \A k \in 1 .. c[0] : q[0][0 + k] = q[0][k]
    OBVIOUS
  <1>3. \A p \in 0 .. 0 : p = 0
    OBVIOUS
  <1>4. Len(q[0]) = FirstJob(c, 0 + 1) /\ FirstJob(c, 0) + c[0] <= Len(q[0])
    BY <1>1
  <1>5. \A k \in 1 .. c[0] : q[0][FirstJob(c, 0) + k] = q[0][k]
    BY <1>1, <1>2
  <1> QED
    BY <1>1, <1>3, <1>4, <1>5 DEF IsGathered

LEMMA GatheredNext ==
  ASSUME NEW c \in [Rank -> Nat], NEW q, IsChunks(q, c), NEW i \in Nat, i + 1 \in Rank,
         NEW h, IsGathered(h, c, q, i), NEW g, IsConcat(g, h, q[i + 1])
  PROVE  IsGathered(g, c, q, i + 1)
  <1>1. PICK r, a, b : r = q[i + 1] /\ a = Len(h) /\ b = c[i + 1]
    OBVIOUS
  <1>2. /\ r \in Seq(Nat) /\ Len(r) = b /\ b \in Nat
        /\ h \in Seq(Nat) /\ a = FirstJob(c, i + 1)
        /\ FirstJob(c, i + 1 + 1) = a + b
    BY <1>1, FirstJobIs DEF IsChunks, IsGathered
  <1>3. a \in Nat /\ b \in Nat
    BY <1>1, <1>2, LenProperties
  <1>5. /\ g \in Seq(Nat) /\ Len(g) = a + b
        /\ \A j \in 1 .. a + b : g[j] = IF j <= a THEN h[j] ELSE r[j - a]
    BY <1>1, <1>2 DEF IsConcat
  <1>6. ASSUME NEW p \in 0 .. i
        PROVE  /\ FirstJob(c, p) + c[p] <= a + b
               /\ \A k \in 1 .. c[p] : g[FirstJob(c, p) + k] = q[p][k]
    <2>1. PICK f, m : f = FirstJob(c, p) /\ m = c[p]
      OBVIOUS
    <2>2. p \in Rank /\ p \in 0 .. WorldSize
      BY ClusterAssumption DEF Rank
    <2>3. f \in Nat /\ m \in Nat
      BY <2>1, <2>2, FirstJobIs
    <2>4. f + m <= a /\ \A k \in 1 .. m : h[f + k] = q[p][k]
      BY <1>1, <2>1 DEF IsGathered
    <2>5. ASSUME NEW k \in 1 .. m
          PROVE  g[f + k] = q[p][k]
      <3>1. f + k \in 1 .. a + b /\ f + k <= a
        BY <1>2, <1>3, <2>3, <2>4
      <3> QED
        BY <1>5, <2>4, <3>1
    <2>7. f + m <= a
      BY <2>4
    <2>6. f + m <= a + b
      BY <1>3, <2>3, <2>7
    <2> QED
      BY <2>1, <2>5, <2>6
  <1>7. \A k \in 1 .. b : g[a + k] = r[k]
    <2> TAKE k \in 1 .. b
    <2>1. a + k \in 1 .. a + b /\ ~ (a + k <= a) /\ (a + k) - a = k
      BY <1>2, <1>3
    <2> QED
      BY <1>5, <2>1
  <1>8. \A p \in 0 .. i + 1 : p \in 0 .. i \/ p = i + 1
    OBVIOUS
  <1>9. /\ Len(g) = FirstJob(c, i + 1 + 1)
        /\ FirstJob(c, i + 1) + c[i + 1] <= Len(g)
        /\ \A k \in 1 .. c[i + 1] : g[FirstJob(c, i + 1) + k] = q[i + 1][k]
    BY <1>1, <1>2, <1>3, <1>5, <1>7
  <1>10. \A p \in 0 .. i + 1 :
           /\ FirstJob(c, p) + c[p] <= Len(g)
           /\ \A k \in 1 .. c[p] : g[FirstJob(c, p) + k] = q[p][k]
    BY <1>5, <1>6, <1>8, <1>9
  <1> QED
    BY <1>5, <1>9, <1>10 DEF IsGathered

(* A part of a sequence.                                                     *)
LEMMA SliceOfSequence ==
  ASSUME NEW h, NEW f \in Nat, NEW r \in Seq(Nat), NEW m, m = Len(r),
         \A k \in 1 .. m : h[f + k] = r[k]
  PROVE  SubSeq(h, f + 1, f + m) = r
  <1>1. m \in Nat /\ \A k \in 1 .. m : r[k] \in Nat
    BY LenProperties, ElementOfSeq
  <1>2. PICK a, b : a = f + 1 /\ b = f + m
    OBVIOUS
  <1>3. /\ a \in Int /\ b \in Int /\ b - a + 1 = m
        /\ a <= b <=> m # 0
    BY <1>1, <1>2
  <1>4. \A i \in a .. b : h[i] \in Nat
    <2> TAKE i \in a .. b
    <2>1. PICK k : k = i - f
      OBVIOUS
    <2>2. k \in 1 .. m /\ i = f + k
      BY <1>1, <1>2, <2>1
    <2>3. h[f + k] = r[k] /\ r[k] \in Nat
      BY <1>1, <2>2
    <2> QED
      BY <2>2, <2>3
  <1>5. /\ SubSeq(h, a, b) \in Seq(Nat)
        /\ Len(SubSeq(h, a, b)) = IF a <= b THEN b - a + 1 ELSE 0
        /\ \A i \in 1 .. b - a + 1 : SubSeq(h, a, b)[i] = h[a + i - 1]
    BY <1>3, <1>4, SubSeqProperties
  <1>6. PICK u : u = SubSeq(h, a, b)
    OBVIOUS
  <1>7. /\ u \in Seq(Nat) /\ Len(u) = m
        /\ \A i \in 1 .. m : u[i] = h[a + i - 1]
    BY <1>1, <1>3, <1>5, <1>6
  <1>8. \A i \in 1 .. m : u[i] = r[i]
    <2> TAKE i \in 1 .. m
    <2>1. a + i - 1 = f + i
      BY <1>1, <1>2
    <2>2. u[i] = h[a + i - 1]
      BY <1>7
    <2> QED
      BY <2>1, <2>2
  <1> QED
    BY <1>2, <1>6, <1>7, <1>8, SeqEqual

(* What the root gathers is the processes' chunks one after the other.       *)
LEMMA GatheredChunks ==
  ASSUME NEW c \in [Rank -> Nat], NEW q, IsChunks(q, c), NEW w \in Workers
  PROVE  /\ SubSeq(q[0] \o FlattenSeq([v \in 1 .. (WorldSize - 1) |-> q[v]]),
                   FirstJob(c, w) + 1, FirstJob(c, w) + c[w]) = q[w]
         /\ q[w] \in Seq(Nat) /\ Len(q[w]) = c[w]
  <1>1. PICK n, s : n = WorldSize - 1 /\ s = [v \in 1 .. n |-> q[v]]
    OBVIOUS
  <1>2. /\ n \in Nat \ {0} /\ Rank = 0 .. n /\ w \in 1 .. n /\ WorldSize = n + 1
        /\ w \in Rank
    BY <1>1, ClusterAssumption DEF Workers, Root, Rank
  <1>3. \A p \in Rank : q[p] \in Seq(Nat) /\ Len(q[p]) = c[p]
    BY DEF IsChunks
  <1>4. Len(s) = n /\ \A v \in 1 .. n : s[v] = q[v]
    <2>1. s \in [1 .. n -> Seq(Nat)]
      BY <1>1, <1>2, <1>3
    <2> QED
      BY <1>1, <1>2, <2>1, SeqOfFunction
  <1>5. PICK g : IsFlatten(g, s, n) /\ FlattenSeq(s) = g[n]
    BY <1>2, <1>4, FlattenIs
  <1>6. \A i \in 1 .. n : g[i] = IF i = 1 THEN q[i] ELSE g[i - 1] \o q[i]
    <2>1. PICK e : e = [i \in 1 .. n |-> IF i = 1 THEN s[i] ELSE g[i - 1] \o s[i]]
      OBVIOUS
    <2>2. e = g
      BY <1>5, <2>1 DEF IsFlatten
    <2> QED
      BY <1>4, <2>1, <2>2
  <1> DEFINE T == {j \in Nat : j + 1 <= n => /\ g[j + 1] \in Seq(Nat)
                                             /\ IsGathered(q[0] \o g[j + 1], c, q, j + 1)}
  <1>7. 0 \in T
    <2>1. g[1] = q[1] /\ q[1] \in Seq(Nat)
      BY <1>2, <1>3, <1>6
    <2>3. q[0] \in Seq(Nat) /\ q[0 + 1] \in Seq(Nat) /\ 0 + 1 \in Rank
      BY <1>2, <1>3
    <2>2. IsGathered(q[0] \o q[0 + 1], c, q, 0 + 1)
      BY <2>3, ConcatIs, GatheredFirst, GatheredNext
    <2> QED
      BY <2>1, <2>2
  <1>8. ASSUME NEW j \in T
        PROVE  j + 1 \in T
    <2>1. PICK i : i = j + 1
      OBVIOUS
    <2>2. SUFFICES ASSUME i + 1 <= n
                   PROVE  /\ g[i + 1] \in Seq(Nat)
                          /\ IsGathered(q[0] \o g[i + 1], c, q, i + 1)
      BY <2>1
    <2>3. /\ i \in Nat /\ i + 1 \in Rank /\ i + 1 \in 1 .. n /\ i + 1 # 1
          /\ (i + 1) - 1 = i /\ i <= n /\ 0 \in Rank
      BY <1>2, <2>1, <2>2
    <2>4. g[i] \in Seq(Nat) /\ IsGathered(q[0] \o g[i], c, q, i)
      BY <2>1, <2>3
    <2>5. g[i + 1] = g[i] \o q[i + 1]
      BY <1>6, <2>3
    <2>6. q[0] \in Seq(Nat) /\ q[i + 1] \in Seq(Nat)
      BY <1>3, <2>3
    <2>7. PICK a, b, d, x, y, z : /\ a = q[0] /\ b = g[i] /\ d = q[i + 1]
                                 /\ x = b \o d /\ z = a \o b /\ y = a \o x
      OBVIOUS
    <2>8. /\ a \in Seq(Nat) /\ b \in Seq(Nat) /\ d \in Seq(Nat)
      BY <2>4, <2>6, <2>7
    <2>9. IsConcat(x, b, d) /\ IsConcat(z, a, b)
      BY <2>7, <2>8, ConcatIs
    <2>10. x \in Seq(Nat)
      BY <2>9 DEF IsConcat
    <2>11. IsConcat(y, a, x)
      BY <2>7, <2>8, <2>10, ConcatIs
    <2>12. IsConcat(y, z, d)
      BY <2>8, <2>9, <2>11, ConcatOfThree
    <2>13. IsGathered(z, c, q, i)
      BY <2>4, <2>7
    <2>14. IsGathered(y, c, q, i + 1)
      BY <2>3, <2>7, <2>12, <2>13, GatheredNext
    <2> QED
      BY <2>5, <2>7, <2>10, <2>14
  <1>9. T = Nat
    <2> HIDE DEF T
    <2>1. T \in SUBSET Nat
      BY DEF T
    <2> QED
      BY <1>7, <1>8, <2>1, InductionOnNat
  <1>10. IsGathered(q[0] \o g[n], c, q, n)
    <2>1. PICK j : j = n - 1
      OBVIOUS
    <2>2. j \in Nat /\ j + 1 = n /\ n <= n
      BY <1>2, <2>1
    <2>3. j \in T
      BY <1>9, <2>2
    <2> QED
      BY <2>2, <2>3
  <1>11. PICK h, f, m : /\ h = q[0] \o g[n] /\ f = FirstJob(c, w) /\ m = c[w]
    OBVIOUS
  <1>12. /\ h \in Seq(Nat) /\ Len(h) \in Nat /\ f \in Nat /\ m \in Nat
         /\ f + m <= Len(h)
         /\ \A k \in 1 .. m : h[f + k] = q[w][k]
    <2>1. w \in 0 .. n /\ w \in 0 .. WorldSize
      BY <1>2
    <2>2. f \in Nat /\ m \in Nat
      BY <1>2, <1>11, <2>1, FirstJobIs
    <2>3. /\ h \in Seq(Nat) /\ f + m <= Len(h)
          /\ \A k \in 1 .. m : h[f + k] = q[w][k]
      BY <1>10, <1>11, <2>1 DEF IsGathered
    <2> QED
      BY <2>2, <2>3, LenProperties
  <1>13. SubSeq(h, f + 1, f + m) = q[w]
    <2>1. q[w] \in Seq(Nat) /\ m = Len(q[w])
      BY <1>2, <1>3, <1>11
    <2> QED
      BY <1>12, <2>1, SliceOfSequence
  <1> QED
    BY <1>1, <1>2, <1>3, <1>5, <1>11, <1>13

(* A worker finds its own sizes in the vector it caches.                     *)
LEMMA OwnSizes ==
  ASSUME NEW w \in Rank, cache[w]["chunks"] \in [Rank -> Nat],
         local[w].f_out \in Seq(Nat),
         Len(local[w].f_out) = cache[w]["chunks"][w]
  PROVE  SubSeq(WithOwnSizes(w), FirstJob(cache[w]["chunks"], w) + 1,
                FirstJob(cache[w]["chunks"], w) + cache[w]["chunks"][w])
           = local[w].f_out
  <1>1. PICK c, r, f, m, t : /\ c = cache[w]["chunks"] /\ r = local[w].f_out
                             /\ f = FirstJob(c, w) /\ m = c[w] /\ t = SumFunction(c)
    OBVIOUS
  <1>2. /\ f \in Nat /\ m \in Nat /\ t \in Nat /\ f + m <= t
        /\ r \in Seq(Nat) /\ Len(r) = m
    BY <1>1, FirstJobBound
  <1>3. PICK h : h = WithOwnSizes(w)
    OBVIOUS
  <1>4. h = [j \in 1 .. t |-> IF j \in f + 1 .. f + m THEN r[j - f] ELSE 0]
    <2>1. h = [j \in 1 .. t |-> IF j \in f + 1 .. f + Len(r) THEN r[j - f] ELSE 0]
      BY <1>1, <1>3 DEF WithOwnSizes
    <2> QED
      BY <1>2, <2>1
  <1>5. \A k \in 1 .. m : h[f + k] = r[k]
    <2> TAKE k \in 1 .. m
    <2>1. f + k \in 1 .. t /\ f + k \in f + 1 .. f + m /\ (f + k) - f = k
      BY <1>2
    <2> QED
      BY <1>4, <2>1
  <1>6. SubSeq(h, f + 1, f + m) = r
    BY <1>2, <1>5, SliceOfSequence
  <1> QED
    BY <1>1, <1>3, <1>6

(***************************************************************************)
(* The evaluation.                                                         *)
(***************************************************************************)

LEMMA SmallestIn ==
  ASSUME NEW T \in SUBSET Nat, T # {}
  PROVE  Min(T) \in T
  <1>1. \E m \in T : \A k \in T : m <= k
    BY LeastNumber
  <1> QED
    BY <1>1 DEF Min

LEMMA EvaluateIs ==
  ASSUME NEW p \in Rank, local[p].job_params \in Seq(0 .. Jobs), Jobs \in Nat,
         \A j \in 1 .. Jobs : request.outcome[j] \in Outcomes,
         NEW e, e = Evaluated(p),
         NEW f, f = [i \in DOMAIN MyJobs(p) |->
                       IF i <= e THEN ResultOf(p, MyJobs(p)[i]) ELSE -1]
  PROVE  /\ Len(f) = Len(local[p].job_params)
         /\ e = Len(MyJobs(p)) => f \in Seq(Nat)
  <1>1. PICK q, n : q = MyJobs(p) /\ n = Len(q)
    OBVIOUS
  <1>2. q \in Seq(0 .. Jobs) /\ n \in Nat /\ DOMAIN q = 1 .. n
    BY <1>1, LenProperties DEF MyJobs
  <1>3. \A i \in 1 .. n : q[i] \in 0 .. Jobs
    BY <1>1, <1>2, ElementOfSeq
  <1> DEFINE thrown == {i \in 1 .. n : ResultOf(p, q[i]) = Throws}
  <1>4. e = IF thrown = {} THEN n ELSE Min(thrown) - 1
    BY <1>1, <1>2 DEF Evaluated
  <1>5. e = n => thrown = {}
    <2> SUFFICES ASSUME e = n, thrown # {}
                 PROVE  FALSE
      OBVIOUS
    <2>1. PICK m : m = Min(thrown)
      OBVIOUS
    <2>2. m \in thrown
      <3>1. thrown \in SUBSET Nat
        OBVIOUS
      <3> QED
        BY <2>1, <3>1, SmallestIn
    <2>3. m \in 1 .. n /\ n = m - 1
      BY <1>4, <2>1, <2>2
    <2> QED
      BY <1>2, <2>3
  <1>6. f = [i \in 1 .. n |-> IF i <= e THEN ResultOf(p, q[i]) ELSE -1]
    BY <1>1, <1>2
  <1>7. Len(f) = n
    <2>1. PICK S : S = {f[i] : i \in 1 .. n}
      OBVIOUS
    <2>2. f \in [1 .. n -> S]
      BY <1>6, <2>1
    <2> QED
      BY <1>2, <2>2, SeqOfFunction
  <1>8. ASSUME e = n
        PROVE  f \in Seq(Nat)
    <2>1. ASSUME NEW i \in 1 .. n
          PROVE  ResultOf(p, q[i]) \in Nat
      <3>1. ResultOf(p, q[i]) # Throws
        BY <1>5, <1>8
      <3>2. PICK j : j = q[i]
        OBVIOUS
      <3>3. j \in 0 .. Jobs
        BY <1>3, <3>2
      <3>4. CASE j = 0
        <4>1. Min(OutputSizes) \in OutputSizes /\ OutputSizes \subseteq Nat
          BY CallAssumption, SmallestIn
        <4> QED
          BY <3>2, <3>4, <4>1 DEF ResultOf
      <3>5. CASE j # 0
        <4>1. j \in 1 .. Jobs
          BY <3>3, <3>5
        <4>2. request.outcome[j] \in OutputSizes \cup {Throws, Nested}
          BY <4>1 DEF Outcomes
        <4>3. ResultOf(p, j) \in {request.outcome[j], 1, Throws}
              /\ (request.outcome[j] = Nested => ResultOf(p, j) \in {1, Throws})
          BY <3>5, Zenon DEF ResultOf
        <4>4. OutputSizes \subseteq Nat
          BY CallAssumption
        <4>5. PICK v, o : v = ResultOf(p, j) /\ o = request.outcome[j]
          OBVIOUS
        <4>6. v = 1 \/ v \in OutputSizes
          BY <3>1, <3>2, <4>2, <4>3, <4>5
        <4>7. v \in OutputSizes => v \in Nat
          BY <4>4, Zenon
        <4>8. v = 1 => v \in Nat
          OBVIOUS
        <4> QED
          BY <3>2, <4>5, <4>6, <4>7, <4>8, Zenon
      <3> QED
        BY <3>4, <3>5
    <2>2. \A i \in 1 .. n : i <= e
      BY <1>2, <1>8
    <2>3. f \in [1 .. n -> Nat]
      BY <1>6, <2>1, <2>2
    <2> QED
      BY <1>2, <2>3, SeqOfFunction
  <1> QED
    BY <1>1, <1>7, <1>8 DEF MyJobs

(* A call under way has a number of jobs, and outcomes for them.             *)
LEMMA RequestIs ==
  ASSUME request \in Requests
  PROVE  /\ Jobs \in JobCounts /\ Jobs \in Nat \ {0}
         /\ \A j \in 1 .. Jobs : request.outcome[j] \in Outcomes
         /\ request.kind \in Kinds
  <1>1. PICK n \in JobCounts :
          request \in [kind : Kinds, shared : SharedSizes, outcome : [1 .. n -> Outcomes]]
    BY DEF Requests
  <1>2. n \in Nat \ {0} /\ request.outcome \in [1 .. n -> Outcomes] /\ request.kind \in Kinds
    BY <1>1, CallAssumption
  <1>3. PICK o : o = request.outcome
    OBVIOUS
  <1>4. Len(o) = n
    BY <1>2, <1>3, SeqOfFunction
  <1> QED
    BY <1>1, <1>2, <1>3, <1>4 DEF Jobs

(***************************************************************************)
(* The messages that a step leaves behind.                                 *)
(***************************************************************************)

\* A message of queue q.
In(m, q) == \E j \in 1 .. Len(q) : m = q[j]

\* The message m is sent to worker w, with what the root knows.
Sent(m, w) ==
  \/ m.step = "command"
  \/ m.step \in Setup /\ SetupSend(m.step) /\ m.load = Share(m.step, w)
  \/ m.step = "all_ok" /\ SendAllOk /\ m.load = local[Root].all_ok
  \/ m.step = "outputs_per_job" /\ SendOutputsPerJob /\ m.load = LocalOutputsPerJob

\* The message m is sent by worker w.
Given(m, w) ==
  \/ m.step = "ok" /\ SendOk(w) /\ m.load = local[w].ok
  \/ m.step = "f_out" /\ SendSizes(w) /\ m.load = local[w].f_out
  \/ m.step = "results" /\ SendResults(w) /\ m.load = LocalResult(w)
  \/ m.step = "status" /\ SendStatus(w) /\ m.load = local[w].ok

LEMMA TailIsOld ==
  ASSUME NEW steps, NEW q, IsQueue(q, steps), q # <<>>,
         NEW i \in 1 .. Len(Tail(q))
  PROVE  In(Tail(q)[i], q)
  <1>1. /\ Len(Tail(q)) = Len(q) - 1 /\ Len(q) \in Nat
        /\ \A k \in 1 .. Len(q) - 1 : Tail(q)[k] = q[k + 1]
    BY QueueTail, QueueFacts
  <1>2. i \in 1 .. Len(q) - 1 /\ i + 1 \in 1 .. Len(q)
    BY <1>1
  <1> QED
    BY <1>1, <1>2 DEF In

LEMMA TakenDown ==
  ASSUME CInv, NEW v \in Workers, down[v] # <<>>, TakeDown(v),
         NEW w \in Workers, NEW i \in 1 .. Len(down'[w])
  PROVE  In(down'[w][i], down[w])
  <1>1. DOMAIN down = Workers /\ IsQueue(down[w], DownSteps)
    BY WorkerFacts DEF Shapes, QueuesTyped
  <1>2. CASE v # w
    <2>1. down'[w] = down[w]
      BY <1>1, <1>2 DEF TakeDown
    <2> QED
      BY <2>1 DEF In
  <1>3. CASE v = w
    <2>1. down'[w] = Tail(down[w])
      BY <1>1, <1>3 DEF TakeDown
    <2> QED
      BY <1>1, <1>3, <2>1, TailIsOld
  <1> QED
    BY <1>2, <1>3

LEMMA TakenUp ==
  ASSUME CInv, NEW step, AllArrived(step), TakeUp,
         NEW w \in Workers, NEW i \in 1 .. Len(up'[w])
  PROVE  In(up'[w][i], up[w])
  <1>1. IsQueue(up[w], UpSteps) /\ up[w] # <<>>
    BY WorkerFacts DEF QueuesTyped, AllArrived
  <1>2. up'[w] = Tail(up[w])
    BY DEF TakeUp
  <1> QED
    BY <1>1, <1>2, TailIsOld

LEMMA AppendedDown ==
  ASSUME CInv, NEW step \in DownSteps, NEW load, SendDown(step, load),
         NEW w \in Workers, NEW i \in 1 .. Len(down'[w])
  PROVE  \/ In(down'[w][i], down[w])
         \/ down'[w][i].step = step /\ down'[w][i].load = load[w]
  <1>1. PICK m, q : m = [step |-> step, load |-> load[w]] /\ q = down[w]
    OBVIOUS
  <1>2. m.step = step /\ m.load = load[w] /\ down'[w] = Append(q, m)
    BY <1>1 DEF SendDown
  <1>3. IsQueue(q, DownSteps)
    BY <1>1, WorkerFacts DEF QueuesTyped
  <1>4. /\ Len(Append(q, m)) = Len(q) + 1 /\ Len(q) \in Nat
        /\ \A j \in 1 .. Len(q) : Append(q, m)[j] = q[j]
        /\ Append(q, m)[Len(q) + 1] = m
    BY <1>2, <1>3, QueueAppend, QueueFacts
  <1>5. i \in 1 .. Len(q) \/ i = Len(q) + 1
    BY <1>2, <1>4
  <1> QED
    BY <1>1, <1>2, <1>4, <1>5 DEF In

LEMMA AppendedUp ==
  ASSUME CInv, NEW v \in Workers, NEW step \in UpSteps, NEW load, SendUp(v, step, load),
         NEW w \in Workers, NEW i \in 1 .. Len(up'[w])
  PROVE  \/ In(up'[w][i], up[w])
         \/ v = w /\ up'[w][i].step = step /\ up'[w][i].load = load
  <1>1. PICK m, q : m = [step |-> step, load |-> load] /\ q = up[w]
    OBVIOUS
  <1>2. DOMAIN up = Workers /\ IsQueue(q, UpSteps) /\ m.step = step /\ m.load = load
    BY <1>1, WorkerFacts DEF Shapes, QueuesTyped
  <1>3. CASE v # w
    <2>1. up'[w] = up[w]
      BY <1>2, <1>3 DEF SendUp
    <2> QED
      BY <2>1 DEF In
  <1>4. CASE v = w
    <2>1. up'[w] = Append(q, m)
      BY <1>1, <1>2, <1>4 DEF SendUp
    <2>2. /\ Len(Append(q, m)) = Len(q) + 1 /\ Len(q) \in Nat
          /\ \A j \in 1 .. Len(q) : Append(q, m)[j] = q[j]
          /\ Append(q, m)[Len(q) + 1] = m
      BY <1>2, QueueAppend, QueueFacts
    <2>3. i \in 1 .. Len(q) \/ i = Len(q) + 1
      BY <2>1, <2>2
    <2> QED
      BY <1>1, <1>2, <1>4, <2>1, <2>2, <2>3 DEF In
  <1> QED
    BY <1>3, <1>4

\* Evaluations of nested calls send nothing: their commands are refused.
LEMMA NestedIsRefused ==
  ASSUME CInv, NEW p \in Rank, Evaluate(p)
  PROVE  down' = down
  <1>1. CommandRefused(p) # "no"
    <2>1. CASE p = Root
      <3>1. in_use
        BY <2>1, RootFacts DEF Evaluate, RootOK
      <3> QED
        BY <2>1, <3>1 DEF CommandRefused
    <2>2. CASE p # Root
      BY <2>2 DEF CommandRefused
    <2> QED
      BY <2>1, <2>2
  <1> QED
    BY <1>1 DEF Evaluate, SendNestedCommands

(***************************************************************************)
(* What a step does to the messages.                                       *)
(***************************************************************************)

DownIsKnown ==
  \A w \in Workers : \A i \in 1 .. Len(down'[w]) :
    In(down'[w][i], down[w]) \/ Sent(down'[w][i], w)

UpIsKnown ==
  \A w \in Workers : \A i \in 1 .. Len(up'[w]) :
    In(up'[w][i], up[w]) \/ Given(up'[w][i], w)

LEMMA UnchangedIsKnown ==
  /\ down' = down => DownIsKnown
  /\ up' = up => UpIsKnown
  BY DEF DownIsKnown, UpIsKnown, In

LEMMA WorkerDownIsKnown ==
  ASSUME CInv, NEW v \in Workers, WorkerStep(v) \/ ClusterWorker(v)
  PROVE  DownIsKnown
  <1>1. CASE Evaluate(v)
    <2>1. down' = down
      BY <1>1, NestedIsRefused, WorkerFacts
    <2> QED
      BY <2>1, UnchangedIsKnown
  <1>2. CASE SendOk(v) \/ SendSizes(v) \/ SendResults(v) \/ SendStatus(v) \/ ListenWorker(v)
    <2>1. down' = down
      BY <1>2 DEF SendOk, SendSizes, SendResults, SendStatus, ListenWorker
    <2> QED
      BY <2>1, UnchangedIsKnown
  <1>3. CASE \/ RunCommand(v) \/ ReceiveAllOk(v) \/ ReceiveOutputsPerJob(v) \/ StopWorker(v)
             \/ \E step \in Range(SetupSteps) : SetupReceive(v, step)
    <2>1. down[v] # <<>> /\ TakeDown(v)
      BY <1>3 DEF RunCommand, ReceiveAllOk, ReceiveOutputsPerJob, StopWorker,
                  SetupReceive, Arrived
    <2> QED
      BY <2>1, TakenDown DEF DownIsKnown
  <1> QED
    BY <1>1, <1>2, <1>3 DEF WorkerStep, ClusterWorker

LEMMA WorkerUpIsKnown ==
  ASSUME CInv, NEW v \in Workers, WorkerStep(v) \/ ClusterWorker(v)
  PROVE  UpIsKnown
  <1>1. CASE SendOk(v)
    <2>1. PICK load : load = local[v].ok
      OBVIOUS
    <2>2. SendUp(v, "ok", load) /\ "ok" \in UpSteps
      BY <1>1, <2>1, UpStepsAre DEF SendOk
    <2>3. ASSUME NEW w \in Workers, NEW i \in 1 .. Len(up'[w])
          PROVE  In(up'[w][i], up[w]) \/ Given(up'[w][i], w)
      <3>1. \/ In(up'[w][i], up[w])
            \/ v = w /\ up'[w][i].step = "ok" /\ up'[w][i].load = load
        BY <2>2, AppendedUp
      <3> QED
        BY <1>1, <2>1, <3>1 DEF Given
    <2> QED
      BY <2>3 DEF UpIsKnown
  <1>2. CASE SendSizes(v)
    <2>1. PICK load : load = local[v].f_out
      OBVIOUS
    <2>2. SendUp(v, "f_out", load) /\ "f_out" \in UpSteps
      BY <1>2, <2>1, UpStepsAre DEF SendSizes
    <2>3. ASSUME NEW w \in Workers, NEW i \in 1 .. Len(up'[w])
          PROVE  In(up'[w][i], up[w]) \/ Given(up'[w][i], w)
      <3>1. \/ In(up'[w][i], up[w])
            \/ v = w /\ up'[w][i].step = "f_out" /\ up'[w][i].load = load
        BY <2>2, AppendedUp
      <3> QED
        BY <1>2, <2>1, <3>1 DEF Given
    <2> QED
      BY <2>3 DEF UpIsKnown
  <1>3. CASE SendResults(v)
    <2>1. PICK load : load = LocalResult(v)
      OBVIOUS
    <2>2. SendUp(v, "results", load) /\ "results" \in UpSteps
      BY <1>3, <2>1, UpStepsAre DEF SendResults
    <2>3. ASSUME NEW w \in Workers, NEW i \in 1 .. Len(up'[w])
          PROVE  In(up'[w][i], up[w]) \/ Given(up'[w][i], w)
      <3>1. \/ In(up'[w][i], up[w])
            \/ v = w /\ up'[w][i].step = "results" /\ up'[w][i].load = load
        BY <2>2, AppendedUp
      <3> QED
        BY <1>3, <2>1, <3>1 DEF Given
    <2> QED
      BY <2>3 DEF UpIsKnown
  <1>4. CASE SendStatus(v)
    <2>1. PICK load : load = local[v].ok
      OBVIOUS
    <2>2. SendUp(v, "status", load) /\ "status" \in UpSteps
      BY <1>4, <2>1, UpStepsAre DEF SendStatus
    <2>3. ASSUME NEW w \in Workers, NEW i \in 1 .. Len(up'[w])
          PROVE  In(up'[w][i], up[w]) \/ Given(up'[w][i], w)
      <3>1. \/ In(up'[w][i], up[w])
            \/ v = w /\ up'[w][i].step = "status" /\ up'[w][i].load = load
        BY <2>2, AppendedUp
      <3> QED
        BY <1>4, <2>1, <3>1 DEF Given
    <2> QED
      BY <2>3 DEF UpIsKnown
  <1>5. CASE \/ RunCommand(v) \/ ReceiveAllOk(v) \/ ReceiveOutputsPerJob(v)
             \/ StopWorker(v) \/ ListenWorker(v) \/ Evaluate(v)
             \/ \E step \in Range(SetupSteps) : SetupReceive(v, step)
    <2>1. up' = up
      BY <1>5 DEF RunCommand, ReceiveAllOk, ReceiveOutputsPerJob, StopWorker,
                  SetupReceive, ListenWorker, Evaluate, LearnOutputsPerJob
    <2> QED
      BY <2>1, UnchangedIsKnown
  <1> QED
    BY <1>1, <1>2, <1>3, <1>4, <1>5 DEF WorkerStep, ClusterWorker

LEMMA RootDownIsKnown ==
  ASSUME CInv, RootStep \/ Release \/ ClusterRoot
  PROVE  DownIsKnown
  <1>1. CASE SendCommand
    <2>1. PICK load : SendDown("command", load)
      BY <1>1 DEF SendCommand
    <2> QED
      BY <2>1, AppendedDown, DownStepsAre DEF DownIsKnown, Sent
  <1>2. ASSUME NEW step \in Setup, SetupSend(step)
        PROVE  DownIsKnown
    <2>1. PICK load : load = [w \in Workers |-> Share(step, w)]
      OBVIOUS
    <2>2. SendDown(step, load) /\ \A w \in Workers : load[w] = Share(step, w)
      BY <1>2, <2>1 DEF SetupSend
    <2>3. ASSUME NEW w \in Workers, NEW i \in 1 .. Len(down'[w])
          PROVE  In(down'[w][i], down[w]) \/ Sent(down'[w][i], w)
      <3>1. \/ In(down'[w][i], down[w])
            \/ down'[w][i].step = step /\ down'[w][i].load = Share(step, w)
        BY <2>2, AppendedDown, DownIsNotUp
      <3> QED
        BY <1>2, <3>1 DEF Sent
    <2> QED
      BY <2>3 DEF DownIsKnown
  <1>3. CASE SendAllOk
    <2>1. PICK load : load = Everyone(local[Root].all_ok)
      OBVIOUS
    <2>2. SendDown("all_ok", load) /\ \A w \in Workers : load[w] = local[Root].all_ok
      BY <1>3, <2>1 DEF SendAllOk, Everyone
    <2>3. ASSUME NEW w \in Workers, NEW i \in 1 .. Len(down'[w])
          PROVE  In(down'[w][i], down[w]) \/ Sent(down'[w][i], w)
      <3>1. \/ In(down'[w][i], down[w])
            \/ down'[w][i].step = "all_ok" /\ down'[w][i].load = local[Root].all_ok
        BY <2>2, AppendedDown, DownStepsAre
      <3> QED
        BY <1>3, <3>1 DEF Sent
    <2> QED
      BY <2>3 DEF DownIsKnown
  <1>4. CASE SendOutputsPerJob
    <2>1. PICK load : load = Everyone(LocalOutputsPerJob)
      OBVIOUS
    <2>2. /\ SendDown("outputs_per_job", load)
          /\ \A w \in Workers : load[w] = LocalOutputsPerJob
      BY <1>4, <2>1 DEF SendOutputsPerJob, Everyone
    <2>3. ASSUME NEW w \in Workers, NEW i \in 1 .. Len(down'[w])
          PROVE  In(down'[w][i], down[w]) \/ Sent(down'[w][i], w)
      <3>1. \/ In(down'[w][i], down[w])
            \/ down'[w][i].step = "outputs_per_job" /\ down'[w][i].load = LocalOutputsPerJob
        BY <2>2, AppendedDown, DownStepsAre
      <3> QED
        BY <1>4, <3>1 DEF Sent
    <2> QED
      BY <2>3 DEF DownIsKnown
  <1>5. CASE StopListen
    <2>1. PICK load : SendDown("command", load)
      BY <1>5 DEF StopListen
    <2> QED
      BY <2>1, AppendedDown, DownStepsAre DEF DownIsKnown, Sent
  <1>6. CASE Evaluate(Root)
    <2>1. down' = down
      BY <1>6, NestedIsRefused, RootFacts
    <2> QED
      BY <2>1, UnchangedIsKnown
  <1>7. CASE CollectOk \/ CollectSizes \/ CollectResults \/ CollectStatus \/ Release
             \/ ListenRoot
    <2>1. down' = down
      BY <1>7 DEF CollectOk, CollectSizes, CollectResults, CollectStatus, Release,
                  ListenRoot
    <2> QED
      BY <2>1, UnchangedIsKnown
  <1> QED
    BY <1>1, <1>2, <1>3, <1>4, <1>5, <1>6, <1>7, SetupIs DEF RootStep, ClusterRoot

LEMMA RootUpIsKnown ==
  ASSUME CInv, RootStep \/ Release \/ ClusterRoot
  PROVE  UpIsKnown
  <1>1. CASE CollectOk \/ CollectSizes \/ CollectResults \/ CollectStatus
    <2>1. PICK step : AllArrived(step) /\ TakeUp
      BY <1>1 DEF CollectOk, CollectSizes, CollectResults, CollectStatus
    <2> QED
      BY <2>1, TakenUp DEF UpIsKnown
  <1>2. CASE \/ SendCommand \/ SendAllOk \/ SendOutputsPerJob \/ StopListen \/ ListenRoot
             \/ Release \/ Evaluate(Root) \/ \E step \in Range(SetupSteps) : SetupSend(step)
    <2>1. up' = up
      BY <1>2 DEF SendCommand, SendAllOk, SendOutputsPerJob, StopListen, ListenRoot,
                  Release, Evaluate, SetupSend, LearnOutputsPerJob
    <2> QED
      BY <2>1, UnchangedIsKnown
  <1> QED
    BY <1>1, <1>2 DEF RootStep, ClusterRoot

\* Whatever step is taken, a message was there before or is sent by it.
LEMMA MessagesAreKnown ==
  ASSUME CInv, [Next]_vars
  PROVE  DownIsKnown /\ UpIsKnown
  <1>1. CASE UNCHANGED vars
    <2>1. down' = down /\ up' = up
      BY <1>1 DEF vars, clusterVars
    <2> QED
      BY <2>1, UnchangedIsKnown
  <1>2. ASSUME NEW r \in Requests, Start(r) \/ StartThrows(r) \/ FallBack(r)
        PROVE  DownIsKnown /\ UpIsKnown
    <2>1. down' = down /\ up' = up
      BY <1>2, Zenon DEF Start, StartThrows, FallBack, clusterVars
    <2> QED
      BY <2>1, UnchangedIsKnown
  <1>3. CASE RootStep \/ Release \/ ClusterRoot
    BY <1>3, RootDownIsKnown, RootUpIsKnown
  <1>4. ASSUME NEW v \in Workers, WorkerStep(v) \/ ClusterWorker(v)
        PROVE  DownIsKnown /\ UpIsKnown
    BY <1>4, WorkerDownIsKnown, WorkerUpIsKnown
  <1> QED
    BY <1>1, <1>2, <1>3, <1>4 DEF Next

(***************************************************************************)
(* What a step does to a process.                                          *)
(***************************************************************************)

SameCache(p) ==
  /\ cache'[p] = cache[p] /\ num_outputs_per_job_'[p] = num_outputs_per_job_[p]

Rests(p) == at'[p] = at[p] /\ SameCache(p) /\ local'[p] = local[p]

\* It goes on, with what it has.
Goes(p) ==
  /\ SameCache(p)
  /\ \A f \in {"shared", "job_params", "f_out", "ok"} : local'[p][f] = local[p][f]
  /\ \/ /\ at[p] \in Idle \cup {"command"}
        /\ at'[p] \in Idle \cup {"command", "chunks", "shared"}
     \/ at[p] = "ok" /\ at'[p] = "all_ok" /\ (p = Root => CollectOk)
     \/ /\ at[p] = "all_ok" /\ at'[p] = "outputs_per_job" /\ local'[p] = local[p]
        /\ p = Root => local[Root].all_ok
        /\ p # Root => Arrived(p, "all_ok") /\ Delivered(p)

\* Its call ends.
Ends(p) ==
  SameCache(p) /\ local'[p] = NoLocals /\ at'[p] \in {"held", "command"}

Takes(p) ==
  \E step, data :
    /\ step \in Setup
    /\ at[p] = step /\ Take(p, step, data)
    /\ p = Root => SetupSend(step) /\ data = Share(step, Root)
    /\ p # Root => Arrived(p, step) /\ data = Delivered(p)

Learns(p) ==
  \E rows :
    /\ at[p] = "outputs_per_job" /\ LearnOutputsPerJob(p, rows)
    /\ p = Root => rows = LocalOutputsPerJob
    /\ p # Root => Arrived(p, "outputs_per_job") /\ rows = Delivered(p)

KeepsSizes(p) ==
  /\ at[p] = "f_out" /\ at'[p] = "results"
  /\ num_outputs_per_job_'[p] = num_outputs_per_job_[p] /\ local'[p] = local[p]
  /\ p = Root => CollectSizes
  /\ p # Root => SendSizes(p)

\* It takes part in the collection of the results.
Answers(p) ==
  /\ at[p] = "results" /\ at'[p] = "status" /\ SameCache(p)
  /\ p = Root => CollectResults
  /\ p # Root => SendResults(p)

Steps(p) ==
  Rests(p) \/ Goes(p) \/ Ends(p) \/ Takes(p) \/ Evaluate(p) \/ Learns(p)
    \/ KeepsSizes(p) \/ Answers(p)

LEMMA CommandBegins ==
  ASSUME CInv, NEW p \in Rank, at[p] = "command"
  PROVE  SetupFrom(p, 1) \in {"chunks", "shared"}
  <1>1. CacheOK(p) /\ ProcessTyped(p)
    BY RootFacts, WorkerFacts
  <1> QED
    BY <1>1, SetupStart DEF ProcessTyped

LEMMA WorkerSteps ==
  ASSUME CInv, NEW v \in Workers, WorkerStep(v) \/ ClusterWorker(v)
  PROVE  Steps(v)
  <1>1. /\ v \in Rank /\ v # Root /\ DOMAIN at = Rank /\ DOMAIN local = Rank
        /\ DOMAIN local[v] = LocalFields
    BY WorkerFacts DEF Shapes, ProcessTyped
  <1>2. CASE RunCommand(v)
    <2>1. PICK k, next : local' = [local EXCEPT ![v].kind = k]
                         /\ at' = [at EXCEPT ![v] = next] /\ next \in {"chunks", "shared"}
      BY <1>1, <1>2, CommandBegins DEF RunCommand
    <2>2. at[v] = "command" /\ SameCache(v)
      BY <1>2 DEF RunCommand, SameCache
    <2>3. \A f \in {"shared", "job_params", "f_out", "ok"} : local'[v][f] = local[v][f]
      BY <1>1, <2>1 DEF LocalFields
    <2>4. at'[v] \in {"chunks", "shared"}
      BY <1>1, <2>1
    <2> QED
      BY <2>2, <2>3, <2>4 DEF Steps, Goes
  <1>3. ASSUME NEW step \in Setup, SetupReceive(v, step)
        PROVE  Steps(v)
    BY <1>1, <1>3 DEF SetupReceive, Takes, Steps
  <1>4. CASE Evaluate(v)
    BY <1>4 DEF Steps
  <1>5. CASE SendOk(v)
    <2>1. /\ at[v] = "ok" /\ at' = [at EXCEPT ![v] = "all_ok"]
          /\ local' = local /\ SameCache(v)
      BY <1>5 DEF SendOk, SameCache
    <2>2. at'[v] = "all_ok"
      BY <1>1, <2>1
    <2> QED
      BY <1>1, <2>1, <2>2 DEF Steps, Goes
  <1>6. CASE ReceiveAllOk(v)
    <2>1. at[v] = "all_ok" /\ Arrived(v, "all_ok") /\ SameCache(v)
      BY <1>6 DEF ReceiveAllOk, SameCache
    <2>2. CASE Delivered(v)
      <3>1. at'[v] = "outputs_per_job" /\ local' = local
        BY <1>1, <1>6, <2>2 DEF ReceiveAllOk
      <3> QED
        BY <1>1, <2>1, <2>2, <3>1 DEF Steps, Goes
    <2>3. CASE ~Delivered(v)
      <3>1. at'[v] = "command" /\ local'[v] = NoLocals
        BY <1>1, <1>6, <2>3 DEF ReceiveAllOk
      <3> QED
        BY <2>1, <3>1 DEF Steps, Ends
    <2> QED
      BY <2>2, <2>3
  <1>7. CASE ReceiveOutputsPerJob(v)
    BY <1>1, <1>7 DEF ReceiveOutputsPerJob, Learns, Steps
  <1>8. CASE SendSizes(v)
    <2>1. /\ at[v] = "f_out" /\ at'[v] = "results" /\ local' = local
          /\ UNCHANGED num_outputs_per_job_
      BY <1>1, <1>8 DEF SendSizes
    <2> QED
      BY <1>1, <1>8, <2>1 DEF Steps, KeepsSizes
  <1>9. CASE SendResults(v)
    BY <1>1, <1>9 DEF SendResults, Steps, Answers, SameCache
  <1>10. CASE SendStatus(v)
    BY <1>1, <1>10 DEF SendStatus, Steps, Ends, SameCache
  <1>11. CASE (ListenWorker(v) \/ StopWorker(v)) /\ UNCHANGED callVars
    <2>1. /\ at[v] \in {"outside", "command"} /\ at'[v] \in {"outside", "command"}
      BY <1>1, <1>11 DEF ListenWorker, StopWorker
    <2>2. SameCache(v) /\ local' = local
      BY <1>11 DEF callVars, SameCache
    <2> QED
      BY <2>1, <2>2 DEF Steps, Goes, Idle
  <1> QED
    BY <1>2, <1>3, <1>4, <1>5, <1>6, <1>7, <1>8, <1>9, <1>10, <1>11, SetupIs
       DEF WorkerStep, ClusterWorker

LEMMA RootSteps ==
  ASSUME CInv, RootStep \/ Release \/ ClusterRoot
  PROVE  Steps(Root)
  <1>1. /\ Root \in Rank /\ DOMAIN at = Rank /\ DOMAIN local = Rank
        /\ DOMAIN local[Root] = LocalFields
    BY RootFacts DEF Shapes, ProcessTyped
  <1>2. CASE SendCommand
    <2>1. /\ at[Root] = "command" /\ at'[Root] \in {"chunks", "shared"}
          /\ SameCache(Root) /\ local' = local
      BY <1>1, <1>2, CommandBegins DEF SendCommand, SameCache
    <2> QED
      BY <2>1 DEF Steps, Goes
  <1>3. ASSUME NEW step \in Setup, SetupSend(step)
        PROVE  Steps(Root)
    BY <1>3 DEF SetupSend, Takes, Steps
  <1>4. CASE Evaluate(Root)
    BY <1>4 DEF Steps
  <1>5. CASE CollectOk
    <2>1. PICK ok : local' = [local EXCEPT ![Root].all_ok = ok]
      BY <1>5 DEF CollectOk
    <2>2. at[Root] = "ok" /\ at' = [at EXCEPT ![Root] = "all_ok"] /\ SameCache(Root)
      BY <1>5 DEF CollectOk, SameCache
    <2>3. \A f \in {"shared", "job_params", "f_out", "ok"} : local'[Root][f] = local[Root][f]
      BY <1>1, <2>1 DEF LocalFields
    <2>4. at'[Root] = "all_ok"
      BY <1>1, <2>2
    <2> QED
      BY <1>5, <2>2, <2>3, <2>4 DEF Steps, Goes
  <1>6. CASE SendAllOk
    <2>1. at[Root] = "all_ok" /\ SameCache(Root)
      BY <1>6 DEF SendAllOk, SameCache
    <2>2. CASE local[Root].all_ok
      <3>1. at'[Root] = "outputs_per_job" /\ local' = local
        BY <1>1, <1>6, <2>2 DEF SendAllOk
      <3> QED
        BY <2>1, <2>2, <3>1 DEF Steps, Goes
    <2>3. CASE ~local[Root].all_ok
      <3>1. at'[Root] = "held" /\ local'[Root] = NoLocals
        BY <1>1, <1>6, <2>3 DEF SendAllOk
      <3> QED
        BY <2>1, <3>1 DEF Steps, Ends
    <2> QED
      BY <2>2, <2>3
  <1>7. CASE SendOutputsPerJob
    BY <1>7 DEF SendOutputsPerJob, Learns, Steps
  <1>8. CASE CollectSizes
    <2>1. /\ at[Root] = "f_out" /\ at'[Root] = "results" /\ local' = local
          /\ UNCHANGED num_outputs_per_job_
      BY <1>1, <1>8 DEF CollectSizes
    <2> QED
      BY <1>8, <2>1 DEF Steps, KeepsSizes
  <1>9. CASE CollectResults
    BY <1>1, <1>9 DEF CollectResults, Steps, Answers, SameCache
  <1>10. CASE CollectStatus
    BY <1>1, <1>10 DEF CollectStatus, Steps, Ends, SameCache
  <1>11. CASE (ListenRoot \/ StopListen) /\ UNCHANGED callVars
    <2>1. at[Root] \in {"outside", "ready"} /\ at'[Root] \in {"outside", "ready"}
      BY <1>1, <1>11 DEF ListenRoot, StopListen
    <2>2. SameCache(Root) /\ local' = local
      BY <1>11 DEF callVars, SameCache
    <2> QED
      BY <2>1, <2>2 DEF Steps, Goes, Idle
  <1>12. CASE Release
    <2>1. /\ at[Root] = "held" /\ at'[Root] = "ready"
          /\ SameCache(Root) /\ local' = local
      BY <1>1, <1>12 DEF Release, SameCache
    <2> QED
      BY <2>1 DEF Steps, Goes, Idle
  <1> QED
    BY <1>2, <1>3, <1>4, <1>5, <1>6, <1>7, <1>8, <1>9, <1>10, <1>11, <1>12, SetupIs
       DEF RootStep, ClusterRoot

(* A step is one process's own.                                              *)
LEMMA Alone ==
  ASSUME CInv, NEW p \in Rank, NEW q \in Rank \ {p},
         NEW next, at' = [at EXCEPT ![p] = next],
         \/ cache' = cache
         \/ \E member, data : Store(p, member, data),
         \/ num_outputs_per_job_' = num_outputs_per_job_
         \/ \E k, rows : num_outputs_per_job_' = [num_outputs_per_job_ EXCEPT ![p][k] = rows],
         DOMAIN local' = Rank, local'[q] = local[q]
  PROVE  Rests(q)
  <1>1. DOMAIN at = Rank /\ DOMAIN num_outputs_per_job_ = Rank /\ DOMAIN cache = Rank
    BY RootFacts DEF Shapes
  <1>2. at'[q] = at[q]
    BY <1>1
  <1>3. cache'[q] = cache[q]
    BY <1>1, StoreEffect
  <1>4. num_outputs_per_job_'[q] = num_outputs_per_job_[q]
    BY <1>1
  <1> QED
    BY <1>2, <1>3, <1>4 DEF Rests, SameCache

LEMMA TakeAlone ==
  ASSUME CInv, NEW p \in Rank, NEW q \in Rank \ {p}, NEW step, NEW data,
         Take(p, step, data)
  PROVE  Rests(q) /\ request' = request
  <1>1. DOMAIN local = Rank
    BY RootFacts DEF Shapes
  <1>2. /\ cache' = cache \/ \E member, x : Store(p, member, x)
        /\ num_outputs_per_job_' = num_outputs_per_job_ /\ request' = request
    BY DEF Take
  <1>3. PICK next : at' = [at EXCEPT ![p] = next]
    BY DEF Take
  <1>4. \/ local' = local \/ \E x : local' = [local EXCEPT ![p].shared = x]
        \/ \E x : local' = [local EXCEPT ![p].job_params = x]
    <2>1. CASE step = "shared"
      BY <2>1 DEF Take
    <2>2. CASE step = "params"
      BY <2>2 DEF Take
    <2>3. CASE step \notin {"shared", "params"}
      BY <2>3 DEF Take
    <2> QED
      BY <2>1, <2>2, <2>3
  <1>5. DOMAIN local' = Rank /\ local'[q] = local[q]
    BY <1>1, <1>4
  <1> QED
    BY <1>2, <1>3, <1>5, Alone

LEMMA EvaluateAlone ==
  ASSUME CInv, NEW p \in Rank, NEW q \in Rank \ {p}, Evaluate(p)
  PROVE  Rests(q) /\ request' = request
  <1>1. DOMAIN local = Rank
    BY RootFacts DEF Shapes
  <1>2. PICK f, ok : local' = [local EXCEPT ![p].f_out = f, ![p].ok = ok]
    BY DEF Evaluate
  <1>3. DOMAIN local' = Rank /\ local'[q] = local[q]
    BY <1>1, <1>2
  <1>4. PICK next : at' = [at EXCEPT ![p] = next]
    BY DEF Evaluate
  <1>5. /\ cache' = cache /\ num_outputs_per_job_' = num_outputs_per_job_
        /\ request' = request
    BY DEF Evaluate
  <1> QED
    BY <1>3, <1>4, <1>5, Alone

LEMMA LearnAlone ==
  ASSUME CInv, NEW p \in Rank, NEW q \in Rank \ {p}, NEW rows, LearnOutputsPerJob(p, rows)
  PROVE  Rests(q) /\ request' = request
  <1>1. DOMAIN local = Rank
    BY RootFacts DEF Shapes
  <1>2. PICK next, k :
          /\ at' = [at EXCEPT ![p] = next]
          /\ num_outputs_per_job_' = [num_outputs_per_job_ EXCEPT ![p][k] = rows]
    BY DEF LearnOutputsPerJob
  <1>3. /\ cache' = cache /\ local' = local /\ request' = request
    BY DEF LearnOutputsPerJob
  <1> QED
    BY <1>1, <1>2, <1>3, Alone

LEMMA WorkerAlone ==
  ASSUME CInv, NEW v \in Workers, NEW q \in Rank \ {v}, WorkerStep(v) \/ ClusterWorker(v)
  PROVE  Rests(q) /\ request' = request
  <1>1. v \in Rank /\ DOMAIN local = Rank
    BY WorkerFacts DEF Shapes
  <1>2. ASSUME NEW step \in Range(SetupSteps), SetupReceive(v, step)
        PROVE  Rests(q) /\ request' = request
    BY <1>1, <1>2, TakeAlone DEF SetupReceive
  <1>3. CASE Evaluate(v)
    BY <1>1, <1>3, EvaluateAlone
  <1>4. CASE ReceiveOutputsPerJob(v)
    BY <1>1, <1>4, LearnAlone DEF ReceiveOutputsPerJob
  <1>5. CASE SendSizes(v)
    <2>1. PICK next, data : at' = [at EXCEPT ![v] = next] /\ Store(v, "f_out", data)
      BY <1>5 DEF SendSizes
    <2>2. local' = local /\ UNCHANGED num_outputs_per_job_ /\ request' = request
      BY <1>5 DEF SendSizes
    <2> QED
      BY <1>1, <2>1, <2>2, Alone
  <1>6. CASE \/ RunCommand(v) \/ SendOk(v) \/ ReceiveAllOk(v) \/ SendResults(v)
             \/ SendStatus(v) \/ ClusterWorker(v)
    <2>1. /\ UNCHANGED cache /\ UNCHANGED num_outputs_per_job_ /\ request' = request
      BY <1>6 DEF RunCommand, SendOk, ReceiveAllOk, SendResults, SendStatus,
                  ClusterWorker, callVars
    <2>2. \E next : at' = [at EXCEPT ![v] = next]
      BY <1>6 DEF RunCommand, SendOk, ReceiveAllOk, SendResults, SendStatus,
                  ClusterWorker, ListenWorker, StopWorker
    <2>3. \/ local' = local \/ \E k : local' = [local EXCEPT ![v].kind = k]
          \/ local' = [local EXCEPT ![v] = NoLocals]
          \/ \E ok : local' = [local EXCEPT ![v].ok = ok]
      BY <1>6 DEF RunCommand, SendOk, ReceiveAllOk, SendResults, SendStatus,
                  ClusterWorker, callVars
    <2>4. DOMAIN local' = Rank /\ local'[q] = local[q]
      BY <1>1, <2>3
    <2> QED
      BY <1>1, <2>1, <2>2, <2>4, Alone
  <1> QED
    BY <1>2, <1>3, <1>4, <1>5, <1>6 DEF WorkerStep

\* When the request changes, no worker is in a call.
RequestChanges ==
  \/ request' = request
  \/ at[Root] = "ready" /\ at'[Root] = "command" /\ SameCache(Root)
  \/ at[Root] \in {"all_ok", "status"} /\ Ends(Root)

LEMMA RootAlone ==
  ASSUME CInv, NEW q \in Workers, RootStep \/ Release \/ ClusterRoot
  PROVE  Rests(q)
  <1>1. Root \in Rank /\ q \in Rank \ {Root} /\ DOMAIN local = Rank /\ DOMAIN at = Rank
    BY WorkerFacts DEF Shapes
  <1>2. ASSUME NEW step \in Range(SetupSteps), SetupSend(step)
        PROVE  Rests(q)
    BY <1>1, <1>2, TakeAlone DEF SetupSend
  <1>3. CASE Evaluate(Root)
    BY <1>1, <1>3, EvaluateAlone
  <1>4. CASE SendOutputsPerJob
    BY <1>1, <1>4, LearnAlone DEF SendOutputsPerJob
  <1>5. CASE CollectSizes
    <2>1. PICK next, data : at' = [at EXCEPT ![Root] = next] /\ Store(Root, "f_out", data)
      BY <1>5 DEF CollectSizes
    <2>2. local' = local /\ UNCHANGED num_outputs_per_job_ /\ request' = request
      BY <1>5 DEF CollectSizes
    <2> QED
      BY <1>1, <2>1, <2>2, Alone
  <1>6. CASE \/ SendCommand \/ CollectOk \/ SendAllOk \/ CollectResults
             \/ CollectStatus \/ ClusterRoot \/ Release
    <2>1. /\ UNCHANGED cache /\ UNCHANGED num_outputs_per_job_
      BY <1>6 DEF SendCommand, CollectOk, SendAllOk, CollectResults, CollectStatus,
                  ClusterRoot, callVars, Release
    <2>2. \E next : at' = [at EXCEPT ![Root] = next]
      BY <1>6 DEF SendCommand, CollectOk, SendAllOk, CollectResults, CollectStatus,
                  ClusterRoot, ListenRoot, StopListen, Release
    <2>3. \/ local' = local \/ local' = [local EXCEPT ![Root] = NoLocals]
          \/ \E ok : local' = [local EXCEPT ![Root].all_ok = ok]
          \/ \E ok, r : local' = [local EXCEPT ![Root].ok = ok, ![Root].result = r]
      BY <1>6 DEF SendCommand, CollectOk, SendAllOk, CollectResults, CollectStatus,
                  ClusterRoot, callVars, Release
    <2>4. DOMAIN local' = Rank /\ local'[q] = local[q]
      BY <1>1, <2>3
    <2>5. Rests(q)
      BY <1>1, <2>1, <2>2, <2>4, Alone
    <2> QED
      BY <2>5
  <1> QED
    BY <1>2, <1>3, <1>4, <1>5, <1>6 DEF RootStep

LEMMA RootRequestChanges ==
  ASSUME CInv, RootStep \/ Release \/ ClusterRoot
  PROVE  RequestChanges
  <1>1. Root \in Rank /\ DOMAIN local = Rank /\ DOMAIN at = Rank
    BY RootFacts DEF Shapes
  <1>2. CASE SendAllOk
    <2>1. CASE local[Root].all_ok
      BY <1>2, <2>1 DEF SendAllOk, RequestChanges
    <2>2. CASE ~local[Root].all_ok
      BY <1>1, <1>2, <2>2 DEF SendAllOk, RequestChanges, Ends, SameCache
    <2> QED
      BY <2>1, <2>2
  <1>3. CASE CollectStatus
    BY <1>1, <1>3 DEF CollectStatus, RequestChanges, Ends, SameCache
  <1>4. CASE \/ \E step \in Range(SetupSteps) : SetupSend(step)
             \/ Evaluate(Root) \/ SendOutputsPerJob
    <2>1. request' = request
      BY <1>4 DEF SetupSend, Take, Evaluate, SendOutputsPerJob, LearnOutputsPerJob
    <2> QED
      BY <2>1 DEF RequestChanges
  <1>5. CASE \/ SendCommand \/ CollectOk \/ CollectSizes \/ CollectResults
             \/ ClusterRoot \/ Release
    <2>1. request' = request
      BY <1>5 DEF SendCommand, CollectOk, CollectSizes, CollectResults, ClusterRoot,
                  callVars, Release
    <2> QED
      BY <2>1 DEF RequestChanges
  <1> QED
    BY <1>2, <1>3, <1>4, <1>5 DEF RootStep

LEMMA StartSteps ==
  ASSUME CInv, NEW r \in Requests, Start(r) \/ StartThrows(r) \/ FallBack(r)
  PROVE  /\ \A p \in Rank : Steps(p)
         /\ \A q \in Workers : Rests(q)
         /\ RequestChanges
  <1>1. /\ Root \in Rank /\ DOMAIN at = Rank /\ DOMAIN local = Rank
        /\ DOMAIN local[Root] = LocalFields /\ Workers = Rank \ {Root}
    BY RootFacts DEF Shapes, ProcessTyped
  <1>2. CASE Start(r)
    <2>1. PICK k : local' = [local EXCEPT ![Root].kind = k]
      BY <1>2 DEF Start
    <2>2. /\ at[Root] = "ready" /\ at' = [at EXCEPT ![Root] = "command"]
          /\ UNCHANGED <<cache, num_outputs_per_job_>>
      BY <1>2 DEF Start
    <2>3. /\ at'[Root] = "command" /\ \A p \in Rank : SameCache(p)
          /\ \A q \in Workers : at'[q] = at[q]
      BY <1>1, <2>2 DEF SameCache
    <2>4. /\ \A f \in {"shared", "job_params", "f_out", "ok"} : local'[Root][f] = local[Root][f]
          /\ \A q \in Workers : local'[q] = local[q]
      BY <1>1, <2>1 DEF LocalFields
    <2>5. RequestChanges
      BY <1>1, <2>2, <2>3 DEF RequestChanges
    <2>6. Steps(Root)
      BY <1>1, <2>2, <2>3, <2>4 DEF Steps, Goes, Idle
    <2>7. \A q \in Workers : Rests(q)
      BY <1>1, <2>3, <2>4 DEF Rests
    <2> QED
      BY <1>1, <2>5, <2>6, <2>7 DEF Steps
  <1>3. CASE StartThrows(r) \/ FallBack(r)
    <2>1. UNCHANGED <<at, request, cache, num_outputs_per_job_, local>>
      BY <1>3, Zenon DEF StartThrows, FallBack, clusterVars
    <2>2. \A p \in Rank : Rests(p)
      BY <2>1 DEF Rests, SameCache
    <2> QED
      BY <1>1, <2>1, <2>2 DEF Steps, RequestChanges
  <1> QED
    BY <1>2, <1>3

(* What a step does to the processes.                                        *)
LEMMA EveryoneSteps ==
  ASSUME CInv, [Next]_vars
  PROVE  /\ \A p \in Rank : Steps(p)
         /\ RequestChanges
         /\ (\A w \in Workers : Rests(w)) \/ (Rests(Root) /\ request' = request)
  <1>1. Workers = Rank \ {Root} /\ Root \in Rank
    BY RootFacts
  <1>2. CASE UNCHANGED vars
    <2>1. UNCHANGED <<at, request, cache, num_outputs_per_job_, local>>
      BY <1>2 DEF vars, clusterVars
    <2>2. \A p \in Rank : Rests(p)
      BY <2>1 DEF Rests, SameCache
    <2> QED
      BY <1>1, <2>1, <2>2 DEF Steps, RequestChanges
  <1>3. ASSUME NEW r \in Requests, Start(r) \/ StartThrows(r) \/ FallBack(r)
        PROVE  /\ \A p \in Rank : Steps(p)
               /\ \A q \in Workers : Rests(q)
               /\ RequestChanges
    BY <1>3, StartSteps
  <1>4. CASE RootStep \/ Release \/ ClusterRoot
    <2>1. Steps(Root)
      BY <1>4, RootSteps
    <2>2. \A q \in Workers : Rests(q)
      BY <1>4, RootAlone
    <2>3. RequestChanges
      BY <1>4, RootRequestChanges
    <2> QED
      BY <1>1, <2>1, <2>2, <2>3 DEF Steps
  <1>5. ASSUME NEW v \in Workers, WorkerStep(v) \/ ClusterWorker(v)
        PROVE  /\ \A p \in Rank : Steps(p)
               /\ RequestChanges /\ Rests(Root) /\ request' = request
    <2>1. Steps(v)
      BY <1>5, WorkerSteps
    <2>2. \A q \in Rank \ {v} : Rests(q) /\ request' = request
      BY <1>5, WorkerAlone
    <2> QED
      BY <1>1, <2>1, <2>2 DEF Steps, RequestChanges
  <1> QED
    BY <1>2, <1>3, <1>4, <1>5 DEF Next

LEMMA ProcessFacts ==
  ASSUME CInv, NEW p \in Rank
  PROVE  /\ Typed /\ Shapes /\ CacheOK(p) /\ ProcessTyped(p)
         /\ DOMAIN at = Rank /\ DOMAIN local = Rank /\ DOMAIN cache = Rank
         /\ DOMAIN local[p] = LocalFields
         /\ DOMAIN cache[p] \subseteq CachedSteps \cup {"f_out"}
         /\ at[p] \in RootPlaces
         /\ num_outputs_per_job_ \in [Rank -> [Kinds -> {-1, 0, 1}]]
  BY RootFacts, WorkerFacts DEF Shapes, ProcessTyped

\* What is taken part in was not cached before.
LEMMA TakesNew ==
  ASSUME CInv, NEW p \in Rank, NEW step \in Setup, at[p] = step
  PROVE  step \notin DOMAIN cache[p]
  <1>1. CacheOK(p) /\ DOMAIN cache[p] \subseteq CachedSteps \cup {"f_out"}
    BY ProcessFacts
  <1>2. CASE Warm(p)
    <2>1. step \in {"shared", "params"}
      BY <1>1, <1>2 DEF CacheOK
    <2> QED
      BY <1>1, <2>1 DEF CachedSteps
  <1>3. CASE ~Warm(p)
    <2>1. DOMAIN cache[p] = Earlier(step)
      BY <1>1, <1>3 DEF CacheOK
    <2> QED
      BY <2>1 DEF Earlier, Setup
  <1> QED
    BY <1>2, <1>3

LEMMA StoresSizes ==
  ASSUME CInv, NEW p \in Rank, KeepsSizes(p)
  PROVE  /\ \E data : Store(p, "f_out", data)
         /\ "f_out" \notin DOMAIN cache[p]
         /\ DOMAIN cache'[p] = DOMAIN cache[p] \cup {"f_out"}
         /\ \A m \in DOMAIN cache[p] : cache'[p][m] = cache[p][m]
  <1>1. \E data : Store(p, "f_out", data)
    <2>1. CASE p = Root
      BY <2>1 DEF KeepsSizes, CollectSizes
    <2>2. CASE p # Root
      BY <2>2 DEF KeepsSizes, SendSizes
    <2> QED
      BY <2>1, <2>2
  <1>2. "f_out" \notin DOMAIN cache[p]
    BY ProcessFacts DEF CacheOK, Sized, KeepsSizes
  <1> QED
    BY <1>1, <1>2, StoreEffect, ProcessFacts

\* What is cached is cached for good.
LEMMA CacheKept ==
  ASSUME CInv, NEW p \in Rank, Steps(p), NEW m \in DOMAIN cache[p]
  PROVE  m \in DOMAIN cache'[p] /\ cache'[p][m] = cache[p][m]
  <1>1. CASE Rests(p) \/ Goes(p) \/ Ends(p) \/ Answers(p)
    BY <1>1 DEF Rests, Goes, Ends, Answers, SameCache
  <1>2. CASE Evaluate(p) \/ Learns(p)
    BY <1>2 DEF Evaluate, Learns, LearnOutputsPerJob
  <1>3. CASE Takes(p)
    <2>1. PICK step, data : step \in Setup /\ at[p] = step /\ Take(p, step, data)
      BY <1>3 DEF Takes
    <2>2. m # step
      BY <2>1, TakesNew
    <2>3. Typed /\ CacheOK(p)
      BY ProcessFacts
    <2>4. /\ DOMAIN cache'[p] = DOMAIN cache[p] \cup ({step} \cap CachedSteps)
          /\ \A x \in DOMAIN cache[p] \ {step} : cache'[p][x] = cache[p][x]
      BY <2>1, <2>3, TakeEffect
    <2> QED
      BY <2>2, <2>4
  <1>4. CASE KeepsSizes(p)
    BY <1>4, StoresSizes
  <1> QED
    BY <1>1, <1>2, <1>3, <1>4 DEF Steps

\* And what is new comes from the collective.
LEMMA CacheNew ==
  ASSUME CInv, NEW p \in Rank, Steps(p),
         NEW m \in DOMAIN cache'[p], m \notin DOMAIN cache[p]
  PROVE  \/ m = "f_out" /\ KeepsSizes(p)
         \/ /\ m \in CachedSteps /\ at[p] = m
            /\ p = Root => SetupSend(m) /\ cache'[p][m] = Share(m, Root)
            /\ p # Root => Arrived(p, m) /\ cache'[p][m] = Delivered(p)
  <1>1. CASE Rests(p) \/ Goes(p) \/ Ends(p) \/ Answers(p)
    BY <1>1 DEF Rests, Goes, Ends, Answers, SameCache
  <1>2. CASE Evaluate(p) \/ Learns(p)
    BY <1>2 DEF Evaluate, Learns, LearnOutputsPerJob
  <1>3. CASE Takes(p)
    <2>1. PICK step, data :
            /\ step \in Setup
            /\ at[p] = step /\ Take(p, step, data)
            /\ p = Root => SetupSend(step) /\ data = Share(step, Root)
            /\ p # Root => Arrived(p, step) /\ data = Delivered(p)
      BY <1>3 DEF Takes
    <2>4. Typed /\ CacheOK(p)
      BY ProcessFacts
    <2>8. step \in Setup /\ at[p] = step /\ Take(p, step, data)
      BY <2>1
    <2>9. DOMAIN cache'[p] = DOMAIN cache[p] \cup ({step} \cap CachedSteps)
      BY <2>8, <2>4, TakeEffect
    <2>10. ASSUME step \in CachedSteps PROVE cache'[p][step] = data
      BY <2>8, <2>4, <2>10, StoreEffect, ProcessFacts DEF Take
    <2>2. /\ DOMAIN cache'[p] = DOMAIN cache[p] \cup ({step} \cap CachedSteps)
          /\ step \in CachedSteps => cache'[p][step] = data
      BY <2>9, <2>10
    <2>3. m = step /\ m \in CachedSteps
      BY <2>2
    <2>5. cache'[p][m] = data
      BY <2>2, <2>3
    <2>6. CASE p = Root
      <3>1. SetupSend(m) /\ data = Share(m, Root)
        BY <2>1, <2>3, <2>6
      <3> QED
        BY <2>1, <2>3, <2>5, <2>6, <3>1
    <2>7. CASE p # Root
      <3>1. Arrived(p, m) /\ data = Delivered(p)
        BY <2>1, <2>3, <2>7
      <3> QED
        BY <2>1, <2>3, <2>5, <2>7, <3>1
    <2> QED
      BY <2>6, <2>7
  <1>4. CASE KeepsSizes(p)
    <2>1. m = "f_out"
      BY <1>4, StoresSizes
    <2> QED
      BY <1>4, <2>1
  <1> QED
    BY <1>1, <1>2, <1>3, <1>4 DEF Steps

LEMMA EvaluateEffect ==
  ASSUME CInv, NEW p \in Rank, Evaluate(p)
  PROVE  /\ at[p] = "evaluate" /\ at'[p] \in {"ok", "results"}
         /\ SameCache(p) /\ local'[p].job_params = local[p].job_params
         /\ local'[p].shared = local[p].shared
         /\ local'[p].all_ok = local[p].all_ok
         /\ local'[p].ok = (Evaluated(p) = Len(MyJobs(p)))
         /\ local'[p].f_out = [i \in DOMAIN MyJobs(p) |->
                       IF i <= Evaluated(p) THEN ResultOf(p, MyJobs(p)[i])
                       ELSE -1]
  <1>1. PICK f, e : /\ f = [i \in DOMAIN MyJobs(p) |->
                           IF i <= Evaluated(p) THEN ResultOf(p, MyJobs(p)[i])
                           ELSE -1]
                    /\ e = (Evaluated(p) = Len(MyJobs(p)))
    OBVIOUS
  <1>2. local' = [local EXCEPT ![p].f_out = f, ![p].ok = e]
    BY <1>1 DEF Evaluate
  <1>3. /\ local'[p].job_params = local[p].job_params
        /\ local'[p].shared = local[p].shared
        /\ local'[p].all_ok = local[p].all_ok
        /\ local'[p].ok = e /\ local'[p].f_out = f
    BY <1>2, ProcessFacts DEF LocalFields
  <1>4. at[p] = "evaluate" /\ SameCache(p)
    BY DEF Evaluate, SameCache
  <1>5. at'[p] \in {"ok", "results"}
    BY ProcessFacts DEF Evaluate
  <1> QED
    BY <1>1, <1>3, <1>4, <1>5

LEMMA TakesEffect ==
  ASSUME CInv, NEW p \in Rank, NEW step \in Setup, NEW data,
         at[p] = step, Take(p, step, data)
  PROVE  /\ at'[p] \in Setup \cup {"evaluate"}
         /\ at'[p] \in {"x_r", "x_i", "evaluate"} => step \in {"params", "x_r", "x_i"}
         /\ local'[p].job_params = IF step = "params" THEN data ELSE local[p].job_params
         /\ local'[p].shared = IF step = "shared" THEN data ELSE local[p].shared
         /\ local'[p].f_out = local[p].f_out /\ local'[p].ok = local[p].ok
         /\ local'[p].all_ok = local[p].all_ok
         /\ num_outputs_per_job_' = num_outputs_per_job_ /\ request' = request
  <1>1. Typed /\ CacheOK(p)
    BY ProcessFacts
  <1>2. at'[p] \in Setup \cup {"evaluate"}
    BY <1>1, TakeKeepsCacheOK
  <1>3. \A load, sized : at'[p] = After(step, load, Warm(p), sized, "evaluate")
    BY <1>1, TakeEffect
  <1>4. at'[p] \in {"x_r", "x_i", "evaluate"} => step \in {"params", "x_r", "x_i"}
    BY <1>3 DEF After, Setup
  <1>5. /\ local'[p].job_params = IF step = "params" THEN data ELSE local[p].job_params
        /\ \A f \in {"f_out", "ok", "all_ok"} : local'[p][f] = local[p][f]
    BY <1>1, TakeEffect
  <1>7. local'[p].shared = IF step = "shared" THEN data ELSE local[p].shared
    <2>1. DOMAIN local = Rank /\ DOMAIN local[p] = LocalFields
      BY ProcessFacts
    <2>2. CASE step = "shared"
      <3>1. local' = [local EXCEPT ![p].shared = data]
        BY <2>2 DEF Take
      <3> QED
        BY <2>1, <2>2, <3>1 DEF LocalFields
    <2>3. CASE step = "params"
      <3>1. local' = [local EXCEPT ![p].job_params = data]
        BY <2>3 DEF Take
      <3> QED
        BY <2>1, <2>3, <3>1 DEF LocalFields
    <2>4. CASE step \notin {"shared", "params"}
      <3>1. local' = local
        BY <2>4 DEF Take
      <3> QED
        BY <2>4, <3>1
    <2> QED
      BY <2>2, <2>3, <2>4
  <1>6. num_outputs_per_job_' = num_outputs_per_job_ /\ request' = request
    BY DEF Take
  <1> QED
    BY <1>2, <1>4, <1>5, <1>6, <1>7

LEMMA RootRequest ==
  ASSUME CInv, at[Root] \notin Idle
  PROVE  request \in Requests
  BY RootFacts DEF RootOK

LEMMA WarmOrEarlier ==
  ASSUME CInv, NEW p \in Rank, at[p] \in {"params", "x_r", "x_i"}
  PROVE  {"chunks", "shared_size", "dims"} \subseteq DOMAIN cache[p]
  <1>1. CacheOK(p)
    BY ProcessFacts
  <1> QED
    BY <1>1 DEF CacheOK, Warm, CachedSteps, Earlier

(***************************************************************************)
(* The number of rows.                                                     *)
(***************************************************************************)

LEMMA RootShareIsThere ==
  ASSUME CInv, RootRows, at[Root] = "params"
  PROVE  Share("params", Root) # <<>>
  <1>1. Jobs \in Nat
    BY RootRequest, RequestIs DEF Idle
  <1>2. cache[Root]["dims"] \in Nat \ {0}
    <2>1. "dims" \in DOMAIN cache[Root]
      BY WarmOrEarlier, RootFacts
    <2> QED
      BY <2>1, CallAssumption DEF RootRows
  <1>3. Len(Share("params", Root)) # 0
    BY <1>1, <1>2, ShareIs, ChunksAre, RootFacts
  <1> QED
    BY <1>3

LEMMA RootRowsKept ==
  ASSUME CInv, RootRows, [Next]_vars
  PROVE  RootRows'
  <1>1. Root \in Rank /\ Steps(Root)
    BY EveryoneSteps, RootFacts
  <1>2. ("dims" \in DOMAIN cache[Root] => cache[Root]["dims"] \in JobCounts)'
    <2>1. CASE "dims" \in DOMAIN cache[Root]
      BY <1>1, <2>1, CacheKept DEF RootRows
    <2>2. CASE "dims" \in DOMAIN cache'[Root] /\ "dims" \notin DOMAIN cache[Root]
      <3>1. at[Root] = "dims" /\ cache'[Root]["dims"] = Share("dims", Root)
        BY <1>1, <2>2, CacheNew
      <3>2. Share("dims", Root) = Jobs
        BY DEF Share
      <3> QED
        BY <3>1, <3>2, RootRequest, RequestIs DEF Idle
    <2> QED
      BY <2>1, <2>2
  <1>3. (at[Root] \in {"x_r", "x_i", "evaluate", "ok", "all_ok", "outputs_per_job"} =>
          local[Root].job_params # <<>>)'
    <2>1. CASE Rests(Root)
      BY <2>1 DEF Rests, RootRows
    <2>2. CASE Goes(Root)
      BY <2>2 DEF Goes, RootRows, Idle
    <2>3. CASE Ends(Root) \/ KeepsSizes(Root) \/ Answers(Root)
      BY <2>3 DEF Ends, KeepsSizes, Answers
    <2>4. CASE Takes(Root)
      <3>1. PICK step, data :
              /\ step \in Setup
              /\ at[Root] = step /\ Take(Root, step, data) /\ data = Share(step, Root)
        BY <2>4 DEF Takes
      <3>2. /\ at'[Root] \in Setup \cup {"evaluate"}
            /\ at'[Root] \in {"x_r", "x_i", "evaluate"} => step \in {"params", "x_r", "x_i"}
            /\ local'[Root].job_params =
                 IF step = "params" THEN data ELSE local[Root].job_params
        BY <1>1, <3>1, TakesEffect
      <3>3. CASE step = "params"
        BY <3>1, <3>2, <3>3, RootShareIsThere
      <3>4. CASE step \in {"x_r", "x_i"}
        BY <3>1, <3>2, <3>4 DEF RootRows
      <3>5. CASE step \notin {"params", "x_r", "x_i"}
        BY <3>2, <3>5 DEF Setup
      <3> QED
        BY <3>3, <3>4, <3>5
    <2>5. CASE Evaluate(Root)
      BY <1>1, <2>5, EvaluateEffect DEF RootRows
    <2>6. CASE Learns(Root)
      <3>1. at'[Root] \in {"results", "f_out"}
        BY <2>6, ProcessFacts, <1>1 DEF Learns, LearnOutputsPerJob, AfterOutputsPerJob
      <3> QED
        BY <3>1
    <2> QED
      BY <1>1, <2>1, <2>2, <2>3, <2>4, <2>5, <2>6 DEF Steps
  <1> QED
    BY <1>2, <1>3 DEF RootRows

LEMMA RowsKnownKept ==
  ASSUME CInv, Rows, [Next]_vars
  PROVE  RowsKnown'
  <1>1. SendOutputsPerJob => LocalOutputsPerJob = 1
    BY DEF SendOutputsPerJob, LocalOutputsPerJob, MyJobs, Rows, RootRows
  <1>2. ASSUME NEW p \in Rank, NEW k \in Kinds
        PROVE  num_outputs_per_job_'[p][k] # 0
    <2>1. Steps(p) /\ num_outputs_per_job_[p][k] # 0
      BY EveryoneSteps DEF Rows, RowsKnown
    <2>2. CASE Learns(p)
      <3>1. PICK rows :
              /\ at[p] = "outputs_per_job" /\ LearnOutputsPerJob(p, rows)
              /\ p = Root => rows = LocalOutputsPerJob
              /\ p # Root => Arrived(p, "outputs_per_job") /\ rows = Delivered(p)
        BY <2>2 DEF Learns
      <3>2. rows # 0
        <4>1. CASE p = Root
          BY <3>1, <4>1 DEF LocalOutputsPerJob, MyJobs, Rows, RootRows
        <4>2. CASE p # Root
          <5>1. p \in Workers
            BY <4>2, RootFacts
          <5>2. /\ down[p][1].step = "outputs_per_job" /\ down[p][1].load = rows
                /\ 1 \in 1 .. Len(down[p])
            BY <3>1, <4>2, <5>1, WorkerFacts, DownPlace DEF Arrived, Delivered
          <5> QED
            BY <5>1, <5>2 DEF Rows, RowsKnown
        <4> QED
          BY <4>1, <4>2
      <3>3. num_outputs_per_job_' = [num_outputs_per_job_ EXCEPT ![p][local[p].kind] = rows]
        BY <3>1 DEF LearnOutputsPerJob
      <3> QED
        BY <2>1, <3>2, <3>3, ProcessFacts
    <2>3. CASE Rests(p) \/ Goes(p) \/ Ends(p) \/ Answers(p) \/ KeepsSizes(p)
      BY <2>1, <2>3 DEF Rests, Goes, Ends, Answers, KeepsSizes, SameCache
    <2>4. CASE Takes(p) \/ Evaluate(p)
      BY <2>1, <2>4 DEF Takes, Take, Evaluate
    <2> QED
      BY <2>1, <2>2, <2>3, <2>4 DEF Steps
  <1>3. ASSUME NEW w \in Workers, NEW i \in 1 .. Len(down'[w]),
               down'[w][i].step = "outputs_per_job"
        PROVE  down'[w][i].load # 0
    <2>1. In(down'[w][i], down[w]) \/ Sent(down'[w][i], w)
      BY MessagesAreKnown DEF DownIsKnown
    <2>2. CASE In(down'[w][i], down[w])
      BY <1>3, <2>2 DEF In, Rows, RowsKnown
    <2>3. CASE Sent(down'[w][i], w)
      <3>1. SendOutputsPerJob /\ down'[w][i].load = LocalOutputsPerJob
        BY <1>3, <2>3 DEF Sent, Setup
      <3> QED
        BY <1>1, <3>1
    <2> QED
      BY <2>1, <2>2, <2>3
  <1> QED
    BY <1>2, <1>3 DEF RowsKnown

LEMMA RowsInvariant ==
  ASSUME CInv, [Next]_vars, Rows
  PROVE  Rows'
  BY RootRowsKept, RowsKnownKept DEF Rows

LEMMA RowsInit ==
  ASSUME Init
  PROVE  Rows
  <1>1. /\ at = [p \in Rank |-> "outside"] /\ cache = [p \in Rank |-> <<>>]
        /\ num_outputs_per_job_ = [p \in Rank |-> [k \in Kinds |-> -1]]
        /\ down = [w \in Workers |-> <<>>]
    BY DEF Init, ClusterInit
  <1>2. at[Root] = "outside" /\ cache[Root] = <<>>
    BY <1>1, RootIsNoWorker
  <1>3. RootRows
    <2>1. DOMAIN << >> = {}
      OBVIOUS
    <2> QED
      BY <1>2, <2>1 DEF RootRows
  <1>4. RowsKnown
    BY <1>1 DEF RowsKnown
  <1> QED
    BY <1>3, <1>4 DEF Rows

(***************************************************************************)
(* all_ok.                                                                 *)
(***************************************************************************)

LEMMA LearnsEffect ==
  ASSUME CInv, NEW p \in Rank, Learns(p)
  PROVE  /\ at[p] = "outputs_per_job" /\ at'[p] \in {"results", "f_out"}
         /\ local' = local /\ cache' = cache
  BY ProcessFacts DEF Learns, LearnOutputsPerJob, AfterOutputsPerJob

LEMMA OkStays ==
  ASSUME CInv, NEW p \in Rank, Steps(p), local[p].ok, at[p] \notin {"evaluate", "results"}
  PROVE  local'[p].ok
  <1>1. CASE Rests(p) \/ Goes(p)
    BY <1>1 DEF Rests, Goes
  <1>2. CASE Ends(p)
    BY <1>2 DEF Ends, NoLocals
  <1>3. CASE Takes(p)
    BY <1>3, TakesEffect DEF Takes
  <1>4. CASE Evaluate(p) \/ Answers(p)
    BY <1>4 DEF Evaluate, Answers
  <1>5. CASE Learns(p) \/ KeepsSizes(p)
    BY <1>5, LearnsEffect DEF KeepsSizes
  <1> QED
    BY <1>1, <1>2, <1>3, <1>4, <1>5 DEF Steps

LEMMA WaitsForAllOk ==
  ASSUME CInv, NEW w \in Workers,
         \/ at[Root] = "all_ok"
         \/ \E i \in 1 .. Len(up[w]) : up[w][i].step = "ok"
         \/ \E i \in 1 .. Len(down[w]) : down[w][i].step = "all_ok"
  PROVE  at[w] = "all_ok"
  <1>1. Typed /\ InStep(w) /\ w \in Rank /\ Root \in Rank
    BY WorkerFacts
  <1>2. Place(w) = "all_ok"
    <2>1. CASE up[w] # <<>>
      <3>1. /\ LeadsUp(up[w], Place(Root), Place(w)) /\ IsQueue(up[w], UpSteps)
            /\ down[w] = <<>> /\ up[w][1].step = Place(Root)
            /\ Place(Root) \in UpSteps
        BY <1>1, <2>1, UpPlace
      <3>2. at[Root] # "all_ok"
        BY <3>1 DEF Place, Idle, UpSteps
      <3>3. \E i \in 1 .. Len(up[w]) : up[w][i].step = "ok"
        BY <3>1, <3>2
      <3> QED
        BY <2>1, <3>1, <3>3, LeadsUpShape
    <2>2. CASE down[w] # <<>>
      <3>1. /\ Leads(down[w], Place(w), Place(Root), Warm(w), Sized(w), Goal(Root))
            /\ IsQueue(down[w], DownSteps) /\ Goal(Root) \in Goals
            /\ up[w] = <<>> /\ down[w][1].step = Place(w)
        BY <1>1, <2>2, DownPlace
      <3>2. at[Root] # "all_ok"
        <4>1. Place(Root) \in Setup \cup UpSteps \cup {"command", "outputs_per_job"}
          BY <2>2, <3>1, LeadsShape
        <4>2. at[Root] = "all_ok" => Place(Root) = "all_ok"
          BY DEF Place, Idle
        <4> QED
          BY <4>1, <4>2 DEF Setup, UpSteps
      <3>3. \E i \in 1 .. Len(down[w]) : down[w][i].step = "all_ok"
        BY <3>1, <3>2
      <3> QED
        BY <2>2, <3>1, <3>3, LeadsShape
    <2>3. CASE up[w] = <<>> /\ down[w] = <<>>
      <3>1. at[Root] = "all_ok"
        BY <2>3
      <3> QED
        BY <1>1, <2>3, <3>1, SamePlace DEF Place, Idle
    <2> QED
      BY <2>1, <2>2, <2>3
  <1> QED
    BY <1>1, <1>2 DEF Place, Goal

LEMMA OkKnownKept ==
  ASSUME CInv, OksAgree, [Next]_vars, NEW w \in Workers
  PROVE  OkKnown(w)'
  <1>1. OkKnown(w) /\ Steps(w) /\ Steps(Root) /\ w \in Rank /\ w # Root /\ Root \in Rank
    BY EveryoneSteps, WorkerFacts DEF OksAgree
  <1>2. local[w].ok /\ at[w] = "all_ok" => local'[w].ok
    BY <1>1, OkStays
  <1>3. ASSUME NEW i \in 1 .. Len(up'[w]), up'[w][i].step = "ok", up'[w][i].load
        PROVE  local'[w].ok
    <2>1. CASE In(up'[w][i], up[w])
      <3>1. PICK j \in 1 .. Len(up[w]) : up'[w][i] = up[w][j]
        BY <2>1 DEF In
      <3>2. at[w] = "all_ok"
        BY <1>3, <3>1, WaitsForAllOk
      <3> QED
        BY <1>1, <1>2, <1>3, <3>1, <3>2 DEF OkKnown
    <2>2. CASE Given(up'[w][i], w)
      <3>1. SendOk(w) /\ up'[w][i].load = local[w].ok
        BY <1>3, <2>2 DEF Given
      <3> QED
        BY <1>3, <3>1 DEF SendOk
    <2> QED
      BY <2>1, <2>2, MessagesAreKnown DEF UpIsKnown
  <1>4. ASSUME NEW i \in 1 .. Len(down'[w]), down'[w][i].step = "all_ok", down'[w][i].load
        PROVE  local'[w].ok
    <2>1. CASE In(down'[w][i], down[w])
      <3>1. PICK j \in 1 .. Len(down[w]) : down'[w][i] = down[w][j]
        BY <2>1 DEF In
      <3>2. at[w] = "all_ok"
        BY <1>4, <3>1, WaitsForAllOk
      <3> QED
        BY <1>1, <1>2, <1>4, <3>1, <3>2 DEF OkKnown
    <2>2. CASE Sent(down'[w][i], w)
      <3>1. SendAllOk /\ down'[w][i].load = local[Root].all_ok
        BY <1>4, <2>2 DEF Sent, Setup
      <3>2. at[Root] = "all_ok"
        BY <3>1 DEF SendAllOk
      <3>3. at[w] = "all_ok"
        BY <3>2, WaitsForAllOk
      <3>4. local[w].ok
        BY <1>1, <1>4, <3>1, <3>2 DEF OkKnown
      <3> QED
        BY <1>2, <3>3, <3>4
    <2> QED
      BY <2>1, <2>2, MessagesAreKnown DEF DownIsKnown
  <1>5. ASSUME at'[Root] = "all_ok", local'[Root].all_ok
        PROVE  local'[w].ok
    <2>1. CASE Rests(Root)
      <3>1. at[Root] = "all_ok" /\ local[Root].all_ok
        BY <1>5, <2>1 DEF Rests
      <3>2. at[w] = "all_ok" /\ local[w].ok
        BY <1>1, <3>1, WaitsForAllOk DEF OkKnown
      <3> QED
        BY <1>2, <3>2
    <2>2. CASE Goes(Root)
      <3>1. at[Root] = "ok" /\ CollectOk
        BY <1>5, <2>2 DEF Goes, Idle
      <3>2. AllArrived("ok") /\ local' = [local EXCEPT ![Root].all_ok = AllOk(local[Root].ok)]
        BY <3>1 DEF CollectOk
      <3>3. local'[w] = local[w]
        BY <1>1, <3>2, ProcessFacts
      <3>4. local'[Root].all_ok = AllOk(local[Root].ok)
        BY <1>1, <3>2, ProcessFacts DEF LocalFields
      <3>5. AllOk(local[Root].ok)
        BY <1>5, <3>4
      <3>6. Collected(w)
        BY <3>5 DEF AllOk
      <3>7. /\ up[w] # <<>> /\ Head(up[w]).step = "ok" /\ Head(up[w]) = up[w][1]
            /\ 1 \in 1 .. Len(up[w])
        BY <3>2, WorkerFacts, UpPlace DEF AllArrived
      <3>8. local[w].ok
        BY <1>1, <3>6, <3>7 DEF Collected, OkKnown
      <3> QED
        BY <3>3, <3>8
    <2>3. CASE Ends(Root) \/ Answers(Root) \/ KeepsSizes(Root)
      BY <1>5, <2>3 DEF Ends, Answers, KeepsSizes
    <2>4. CASE Takes(Root)
      BY <1>1, <1>5, <2>4, TakesEffect DEF Takes, Setup
    <2>5. CASE Evaluate(Root) \/ Learns(Root)
      BY <1>1, <1>5, <2>5, EvaluateEffect, LearnsEffect
    <2> QED
      BY <1>1, <2>1, <2>2, <2>3, <2>4, <2>5 DEF Steps
  <1>6. ASSUME at'[w] \in {"outputs_per_job", "f_out"}
        PROVE  local'[w].ok
    <2>1. CASE Rests(w)
      BY <1>1, <1>6, <2>1 DEF Rests, OkKnown
    <2>2. CASE Goes(w)
      <3>1. at[w] = "all_ok" /\ local'[w] = local[w] /\ Arrived(w, "all_ok") /\ Delivered(w)
        BY <1>1, <1>6, <2>2 DEF Goes, Idle
      <3>2. /\ down[w][1].step = "all_ok" /\ down[w][1].load /\ 1 \in 1 .. Len(down[w])
        BY <3>1, WorkerFacts, DownPlace DEF Arrived, Delivered
      <3> QED
        BY <1>1, <3>1, <3>2 DEF OkKnown
    <2>3. CASE Ends(w) \/ Answers(w) \/ KeepsSizes(w)
      BY <1>6, <2>3 DEF Ends, Answers, KeepsSizes
    <2>4. CASE Takes(w)
      BY <1>1, <1>6, <2>4, TakesEffect DEF Takes, Setup
    <2>5. CASE Evaluate(w)
      BY <1>1, <1>6, <2>5, EvaluateEffect
    <2>6. CASE Learns(w)
      BY <1>1, <2>6, LearnsEffect DEF OkKnown
    <2> QED
      BY <1>1, <2>1, <2>2, <2>3, <2>4, <2>5, <2>6 DEF Steps
  <1> QED
    BY <1>3, <1>4, <1>5, <1>6 DEF OkKnown

LEMMA OksInvariant ==
  ASSUME CInv, [Next]_vars, OksAgree
  PROVE  OksAgree'
  <1>1. Steps(Root) /\ Root \in Rank
    BY EveryoneSteps, RootFacts
  <1>2. ASSUME at'[Root] = "all_ok", local'[Root].all_ok
        PROVE  local'[Root].ok
    <2>1. CASE Rests(Root)
      BY <1>2, <2>1 DEF Rests, OksAgree
    <2>2. CASE Goes(Root)
      <3>1. at[Root] = "ok" /\ CollectOk /\ local'[Root].ok = local[Root].ok
        BY <1>2, <2>2 DEF Goes, Idle
      <3>2. local' = [local EXCEPT ![Root].all_ok = AllOk(local[Root].ok)]
        BY <3>1 DEF CollectOk
      <3>3. local'[Root].all_ok = AllOk(local[Root].ok)
        BY <1>1, <3>2, ProcessFacts DEF LocalFields
      <3>4. AllOk(local[Root].ok)
        BY <1>2, <3>3
      <3> QED
        BY <3>1, <3>4 DEF AllOk
    <2>3. CASE Ends(Root) \/ Answers(Root) \/ KeepsSizes(Root)
      BY <1>2, <2>3 DEF Ends, Answers, KeepsSizes
    <2>4. CASE Takes(Root)
      BY <1>1, <1>2, <2>4, TakesEffect DEF Takes, Setup
    <2>5. CASE Evaluate(Root) \/ Learns(Root)
      BY <1>1, <1>2, <2>5, EvaluateEffect, LearnsEffect
    <2> QED
      BY <1>1, <2>1, <2>2, <2>3, <2>4, <2>5 DEF Steps
  <1>3. ASSUME at'[Root] \in {"outputs_per_job", "f_out"}
        PROVE  local'[Root].ok
    <2>1. CASE Rests(Root)
      BY <1>3, <2>1 DEF Rests, OksAgree
    <2>2. CASE Goes(Root)
      BY <1>3, <2>2 DEF Goes, Idle, OksAgree
    <2>3. CASE Ends(Root) \/ Answers(Root) \/ KeepsSizes(Root)
      BY <1>3, <2>3 DEF Ends, Answers, KeepsSizes
    <2>4. CASE Takes(Root)
      BY <1>1, <1>3, <2>4, TakesEffect DEF Takes, Setup
    <2>5. CASE Evaluate(Root)
      BY <1>1, <1>3, <2>5, EvaluateEffect
    <2>6. CASE Learns(Root)
      BY <1>1, <2>6, LearnsEffect DEF OksAgree
    <2> QED
      BY <1>1, <2>1, <2>2, <2>3, <2>4, <2>5, <2>6 DEF Steps
  <1> QED
    BY <1>2, <1>3, OkKnownKept DEF OksAgree

LEMMA OksInit ==
  ASSUME Init
  PROVE  OksAgree
  <1>1. /\ at = [p \in Rank |-> "outside"]
        /\ down = [w \in Workers |-> <<>>] /\ up = [w \in Workers |-> <<>>]
    BY DEF Init, ClusterInit
  <1>2. at[Root] = "outside" /\ Workers \subseteq Rank
    BY <1>1, RootIsNoWorker
  <1>3. ASSUME NEW w \in Workers
        PROVE  OkKnown(w)
    <2>1. at[w] = "outside" /\ Len(down[w]) = 0 /\ Len(up[w]) = 0
      BY <1>1, <1>2, QueueEmpty
    <2> QED
      BY <1>2, <2>1 DEF OkKnown
  <1> QED
    BY <1>2, <1>3 DEF OksAgree

(***************************************************************************)
(* The call under way.                                                     *)
(***************************************************************************)

LEMMA NeverStatus ==
  ASSUME NEW q, IsQueue(q, DownSteps), q # <<>>, NEW here, NEW there,
         NEW warm, NEW sized, NEW goal \in Goals,
         Leads(q, here, there, warm, sized, goal)
  PROVE  there \notin {"status", "all_ok"}
  <1>1. Len(q) \in 1 .. Len(q) /\ q[Len(q)].step \in DownSteps
    BY QueueFacts DEF IsQueue
  <1>2. there = After(q[Len(q)].step, q[Len(q)].load, warm, sized, goal)
    BY DEF Leads
  <1> QED
    BY <1>1, <1>2, DownStepsAre DEF After, Setup, Goals

\* Once the root is to hear how a call ended, no worker is at its beginning.
LEMMA CallIsOver ==
  ASSUME CInv, NEW w \in Workers, at[Root] \in {"all_ok", "status"}
  PROVE  at[w] \notin Setup \cup {"evaluate"} /\ down[w] = <<>>
  <1>1. Typed /\ InStep(w) /\ w \in Rank /\ Root \in Rank
    BY WorkerFacts
  <1>2. Place(Root) = at[Root]
    BY DEF Place, Idle
  <1>3. down[w] = <<>>
    <2>1. ASSUME down[w] # <<>> PROVE FALSE
      BY <1>1, <1>2, <2>1, DownPlace, NeverStatus
    <2> QED
      BY <2>1
  <1>4. Place(w) \in {"all_ok", "status", "command"}
    <2>1. CASE up[w] = <<>>
      BY <1>1, <1>2, <1>3, <2>1, SamePlace
    <2>2. CASE up[w] # <<>>
      <3>1. LeadsUp(up[w], Place(Root), Place(w)) /\ IsQueue(up[w], UpSteps)
        BY <1>1, <2>2, UpPlace
      <3>2. Place(Root) # "f_out"
        BY <1>2
      <3> QED
        BY <2>2, <3>1, <3>2, LeadsUpShape
    <2> QED
      BY <2>1, <2>2
  <1>5. at[w] = "evaluate" => Place(w) \in Goals
    BY <1>1, PlaceOfGoal DEF Place, Idle
  <1>6. at[w] \in Setup => Place(w) = at[w]
    BY DEF Place, Idle, Setup
  <1> QED
    BY <1>3, <1>4, <1>5, <1>6 DEF Goals, Setup

LEMMA RequestKept ==
  ASSUME CInv, [Next]_vars, NEW p \in Rank, at[p] \in Setup \cup {"evaluate"}
  PROVE  request' = request
  <1>1. CASE at[Root] = "ready"
    <2>1. p \in Workers /\ Place(Root) = "command"
      BY <1>1, RootFacts DEF Place, Idle, Setup
    <2> QED
      BY <2>1, NobodyInTheCall DEF InTheCall
  <1>2. CASE at[Root] \in {"all_ok", "status"}
    <2>1. p \in Workers
      BY <1>2, RootFacts DEF Setup
    <2> QED
      BY <1>2, <2>1, CallIsOver
  <1> QED
    BY <1>1, <1>2, EveryoneSteps DEF RequestChanges

LEMMA RequestKeptWithMessages ==
  ASSUME CInv, [Next]_vars, NEW w \in Workers, NEW i \in 1 .. Len(down[w]),
         down[w][i].step \in Setup
  PROVE  request' = request
  <1>1. CASE at[Root] = "ready"
    <2>1. Place(Root) = "command"
      BY <1>1 DEF Place, Idle
    <2> QED
      BY <2>1, NobodyInTheCall DEF Begins
  <1>2. CASE at[Root] \in {"all_ok", "status"}
    <2>1. down[w] = <<>> /\ IsQueue(down[w], DownSteps)
      BY <1>2, CallIsOver, WorkerFacts DEF QueuesTyped
    <2> QED
      BY <2>1, QueueFacts
  <1> QED
    BY <1>1, <1>2, EveryoneSteps DEF RequestChanges

LEMMA CallIsOn ==
  ASSUME CInv, NEW p \in Rank, at[p] \in Setup \cup {"evaluate"}
  PROVE  request \in Requests
  <1>1. CASE p = Root
    BY <1>1, RootRequest DEF Idle, Setup
  <1>2. CASE p # Root
    <2>1. p \in Workers
      BY <1>2, RootFacts
    <2>2. at[Root] \notin Idle
      BY <2>1, NobodyInTheCall DEF InTheCall, Place
    <2> QED
      BY <2>2, RootRequest
  <1> QED
    BY <1>1, <1>2

(***************************************************************************)
(* What everything is cut up by.                                           *)
(***************************************************************************)

LEMMA TotalKept ==
  ASSUME CInv, [Next]_vars, "chunks" \in DOMAIN cache[Root]
  PROVE  Total' = Total
  <1>1. Root \in Rank /\ Steps(Root) /\ CacheOK(Root)
    BY EveryoneSteps, RootFacts
  <1>2. CASE "dims" \in DOMAIN cache[Root]
    <2>1. "dims" \in DOMAIN cache'[Root] /\ cache'[Root]["dims"] = cache[Root]["dims"]
      BY <1>1, <1>2, CacheKept
    <2> QED
      BY <1>2, <2>1 DEF Total
  <1>3. CASE "dims" \notin DOMAIN cache[Root]
    <2>1. at[Root] \in {"shared_size", "shared", "dims"}
      <3>1. ~Warm(Root)
        BY <1>3 DEF Warm, CachedSteps
      <3>2. "chunks" \in Earlier(at[Root]) /\ "dims" \notin Earlier(at[Root])
        BY <1>1, <1>3, <3>1 DEF CacheOK
      <3> QED
        BY <3>2 DEF Earlier
    <2>2. request' = request
      BY <1>1, <2>1, RequestKept DEF Setup
    <2>3. Jobs' = Jobs
      BY <2>2 DEF Jobs
    <2>4. "dims" \in DOMAIN cache'[Root] => cache'[Root]["dims"] = Jobs
      <3>1. Share("dims", Root) = Jobs
        BY DEF Share
      <3> QED
        BY <1>1, <1>3, <3>1, CacheNew
    <2> QED
      BY <1>3, <2>3, <2>4 DEF Total
  <1> QED
    BY <1>2, <1>3

LEMMA ChunksKnownKept ==
  ASSUME CInv, Rows, ChunksKnown, [Next]_vars
  PROVE  ChunksKnown'
  <1>1. Root \in Rank /\ Steps(Root) /\ CacheOK(Root)
    BY EveryoneSteps, RootFacts
  <1>2. CASE "chunks" \in DOMAIN cache[Root]
    <2>1. "chunks" \in DOMAIN cache'[Root] /\ cache'[Root]["chunks"] = cache[Root]["chunks"]
      BY <1>1, <1>2, CacheKept
    <2> QED
      BY <1>2, <2>1, TotalKept DEF ChunksKnown
  <1>3. CASE "chunks" \notin DOMAIN cache[Root] /\ "chunks" \in DOMAIN cache'[Root]
    <2>1. /\ at[Root] = "chunks" /\ SetupSend("chunks")
          /\ cache'[Root]["chunks"] = Share("chunks", Root)
      BY <1>1, <1>3, CacheNew
    <2>2. Share("chunks", Root) = mpi_map_chunks(Jobs)
      BY DEF Share
    <2>3. DOMAIN cache'[Root] = {"chunks"}
      <3>1. DOMAIN cache[Root] = {}
        BY <1>1, <1>3, <2>1 DEF CacheOK, Earlier, Warm, CachedSteps
      <3>2. ASSUME NEW m \in DOMAIN cache'[Root]
            PROVE  m = "chunks"
        BY <1>1, <2>1, <3>1, <3>2, CacheNew DEF KeepsSizes
      <3> QED
        BY <1>3, <3>2
    <2>4. request' = request /\ request \in Requests
      BY <1>1, <2>1, RequestKept, CallIsOn DEF Setup
    <2>5. Total' = Jobs /\ Jobs \in JobCounts
      BY <2>3, <2>4, RequestIs DEF Total, Jobs
    <2> QED
      BY <2>1, <2>2, <2>5 DEF ChunksKnown
  <1> QED
    BY <1>2, <1>3 DEF ChunksKnown

\* A process that has got this far has cut up the jobs, and so has the root.
LEMMA ChunksAreCut ==
  ASSUME CInv, Shares, NEW p \in Rank,
         at[p] \in {"params", "x_r", "x_i", "evaluate", "ok", "all_ok",
                    "outputs_per_job", "f_out", "results", "status"}
  PROVE  "chunks" \in DOMAIN cache[p] /\ "chunks" \in DOMAIN cache[Root]
  <1>1. "chunks" \in DOMAIN cache[p]
    <2>1. CASE at[p] \in {"params", "x_r", "x_i"}
      BY <2>1, WarmOrEarlier
    <2>2. CASE at[p] \notin {"params", "x_r", "x_i"}
      <3>1. Warm(p)
        BY <2>2, ProcessFacts, WarmAfterSetup DEF Setup
      <3> QED
        BY <3>1 DEF Warm, CachedSteps
    <2> QED
      BY <2>1, <2>2
  <1>2. CASE p = Root
    BY <1>1, <1>2
  <1>3. CASE p # Root
    <2>1. CachesKnown(p)
      BY <1>3, RootFacts DEF Shares
    <2> QED
      BY <1>1, <2>1 DEF CachesKnown, Known
  <1> QED
    BY <1>2, <1>3

LEMMA RootsShare ==
  ASSUME CInv, Shares, NEW p \in Rank, at[Root] = "params"
  PROVE  IsShare(Share("params", p), p) /\ "chunks" \in DOMAIN cache[Root]
  <1>1. request \in Requests
    BY RootRequest DEF Idle
  <1>2. {"chunks", "dims"} \subseteq DOMAIN cache[Root]
    BY WarmOrEarlier, RootFacts
  <1>3. Total = cache[Root]["dims"] /\ Total \in JobCounts
    BY <1>2 DEF Total, Shares, ChunksKnown
  <1>4. Total \in Nat
    BY <1>3, CallAssumption
  <1>5. Jobs \in Nat
    BY <1>1, RequestIs
  <1> QED
    BY <1>2, <1>3, <1>4, <1>5, ShareIs DEF IsShare, JobsOf

LEMMA DeliveredIsKnown ==
  ASSUME CInv, Shares, NEW w \in Workers, NEW step, Arrived(w, step)
  PROVE  /\ step \in Known =>
              step \in DOMAIN cache[Root] /\ Delivered(w) = cache[Root][step]
         /\ step = "params" => IsShare(Delivered(w), w)
  <1>1. MessagesKnown(w)
    BY DEF Shares
  <1>2. /\ down[w] # <<>> /\ Head(down[w]) = down[w][1] /\ 1 \in 1 .. Len(down[w])
        /\ down[w][1].step = step /\ Delivered(w) = down[w][1].load
    BY WorkerFacts, DownPlace DEF Arrived, Delivered
  <1> QED
    BY <1>1, <1>2 DEF MessagesKnown

\* A share stays one as long as it is wanted.
LEMMA ShareStays ==
  ASSUME NEW x, NEW p, IsShare(x, p), Total' = Total, request' = request
  PROVE  x \in Seq(0 .. Jobs') /\ Len(x) = mpi_map_chunks(Total')[p]
  <1>1. x \in Seq(0 .. Jobs) /\ Len(x) = mpi_map_chunks(Total)[p]
    BY DEF IsShare, JobsOf
  <1>2. Jobs' = Jobs
    BY DEF Jobs
  <1> QED
    BY <1>1, <1>2

LEMMA JobsKnownKept ==
  ASSUME CInv, Shares, [Next]_vars, NEW p \in Rank
  PROVE  JobsKnown(p)'
  <1>1. Steps(p) /\ JobsKnown(p)
    BY EveryoneSteps DEF Shares
  <1>2. ASSUME at'[p] \in {"x_r", "x_i", "evaluate"}
        PROVE  /\ local'[p].job_params \in Seq(0 .. Jobs')
               /\ Len(local'[p].job_params) = mpi_map_chunks(Total')[p]
    <2>1. CASE Rests(p)
      <3>1. /\ at[p] \in {"x_r", "x_i", "evaluate"}
            /\ local'[p].job_params = local[p].job_params
        BY <1>2, <2>1 DEF Rests
      <3>2. Total' = Total /\ request' = request
        BY <3>1, ChunksAreCut, TotalKept, RequestKept DEF Setup
      <3>3. IsShare(local[p].job_params, p)
        BY <1>1, <3>1 DEF JobsKnown
      <3> QED
        BY <3>1, <3>2, <3>3, ShareStays
    <2>2. CASE Takes(p)
      <3>1. PICK step, data :
              /\ step \in Setup
              /\ at[p] = step /\ Take(p, step, data)
              /\ p = Root => SetupSend(step) /\ data = Share(step, Root)
              /\ p # Root => Arrived(p, step) /\ data = Delivered(p)
        BY <2>2 DEF Takes
      <3>2. step \in Setup /\ at[p] = step /\ Take(p, step, data)
        BY <3>1
      <3>3. /\ step \in {"params", "x_r", "x_i"}
            /\ local'[p].job_params = IF step = "params" THEN data ELSE local[p].job_params
        BY <1>2, <3>2, TakesEffect
      <3>4. Total' = Total /\ request' = request
        BY <3>2, <3>3, ChunksAreCut, TotalKept, RequestKept
      <3>5. IsShare(local'[p].job_params, p)
        <4>1. CASE step # "params"
          BY <1>1, <3>2, <3>3, <4>1 DEF JobsKnown
        <4>2. CASE step = "params" /\ p = Root
          <5>1. local'[p].job_params = Share("params", p)
            BY <3>1, <3>3, <4>2
          <5>2. at[Root] = "params"
            BY <3>2, <4>2
          <5> QED
            BY <5>1, <5>2, RootsShare
        <4>3. CASE step = "params" /\ p # Root
          <5>1. p \in Workers
            BY <4>3, RootFacts
          <5>2. local'[p].job_params = Delivered(p) /\ Arrived(p, "params")
            BY <3>1, <3>3, <4>3
          <5> QED
            BY <5>1, <5>2, DeliveredIsKnown
        <4> QED
          BY <4>1, <4>2, <4>3
      <3>6. PICK x : x = local'[p].job_params
        OBVIOUS
      <3> QED
        BY <3>4, <3>5, <3>6, ShareStays
    <2>3. CASE Goes(p) \/ Ends(p) \/ KeepsSizes(p) \/ Answers(p)
      BY <1>2, <2>3 DEF Goes, Ends, KeepsSizes, Answers, Idle
    <2>4. CASE Evaluate(p) \/ Learns(p)
      BY <1>2, <2>4, EvaluateEffect, LearnsEffect
    <2> QED
      BY <1>1, <2>1, <2>2, <2>3, <2>4 DEF Steps
  <1>3. ASSUME at'[p] \in {"ok", "all_ok", "outputs_per_job", "f_out"}
        PROVE  /\ Len(local'[p].f_out) = mpi_map_chunks(Total')[p]
               /\ local'[p].ok => local'[p].f_out \in Seq(Nat)
    <2>1. CASE Rests(p) \/ Goes(p) \/ Learns(p)
      <3>1. /\ at[p] \in {"ok", "all_ok", "outputs_per_job", "f_out"}
            /\ local'[p].f_out = local[p].f_out /\ local'[p].ok = local[p].ok
        <4>1. CASE Rests(p)
          BY <1>3, <4>1 DEF Rests
        <4>2. CASE Goes(p)
          BY <1>3, <4>2 DEF Goes, Idle
        <4>3. CASE Learns(p)
          BY <1>3, <4>3, LearnsEffect
        <4> QED
          BY <2>1, <4>1, <4>2, <4>3
      <3>2. Total' = Total
        BY <3>1, ChunksAreCut, TotalKept
      <3> QED
        BY <1>1, <3>1, <3>2 DEF JobsKnown, JobsOf
    <2>2. CASE Evaluate(p)
      <3>1. /\ at[p] = "evaluate"
            /\ local'[p].ok = (Evaluated(p) = Len(MyJobs(p)))
            /\ local'[p].f_out = [i \in DOMAIN MyJobs(p) |->
                 IF i <= Evaluated(p) THEN ResultOf(p, MyJobs(p)[i])
                 ELSE -1]
        BY <2>2, EvaluateEffect
      <3>2. Total' = Total
        BY <3>1, ChunksAreCut, TotalKept
      <3>3. request \in Requests
        BY <3>1, CallIsOn
      <3>4. /\ local[p].job_params \in Seq(0 .. Jobs)
            /\ Len(local[p].job_params) = mpi_map_chunks(Total)[p]
        BY <1>1, <3>1 DEF JobsKnown, IsShare, JobsOf
      <3>5. Jobs \in Nat /\ \A j \in 1 .. Jobs : request.outcome[j] \in Outcomes
        BY <3>3, RequestIs
      <3>6. PICK e, f : /\ e = Evaluated(p)
                        /\ f = [i \in DOMAIN MyJobs(p) |->
                                 IF i <= e THEN ResultOf(p, MyJobs(p)[i]) ELSE -1]
        OBVIOUS
      <3>7. /\ Len(f) = Len(local[p].job_params)
            /\ e = Len(MyJobs(p)) => f \in Seq(Nat)
        BY <3>4, <3>5, <3>6, EvaluateIs
      <3>8. local'[p].f_out = f /\ (local'[p].ok => e = Len(MyJobs(p)))
        BY <3>1, <3>6
      <3> QED
        BY <3>2, <3>4, <3>7, <3>8
    <2>3. CASE Ends(p) \/ KeepsSizes(p) \/ Answers(p)
      BY <1>3, <2>3 DEF Ends, KeepsSizes, Answers
    <2>4. CASE Takes(p)
      BY <1>3, <2>4, TakesEffect DEF Takes, Setup
    <2> QED
      BY <1>1, <2>1, <2>2, <2>3, <2>4 DEF Steps
  <1> QED
    BY <1>2, <1>3 DEF JobsKnown, IsShare, JobsOf

LEMMA MessagesKnownKept ==
  ASSUME CInv, Shares, [Next]_vars, NEW w \in Workers
  PROVE  MessagesKnown(w)'
  <1>1. Root \in Rank /\ Steps(Root) /\ w \in Rank /\ MessagesKnown(w)
    BY EveryoneSteps, WorkerFacts DEF Shares
  <1>2. ASSUME NEW i \in 1 .. Len(down'[w]), down'[w][i].step \in Known
        PROVE  /\ down'[w][i].step \in DOMAIN cache'[Root]
               /\ down'[w][i].load = cache'[Root][down'[w][i].step]
    <2>1. CASE In(down'[w][i], down[w])
      <3>1. PICK j \in 1 .. Len(down[w]) : down'[w][i] = down[w][j]
        BY <2>1 DEF In
      <3>2. /\ down'[w][i].step \in DOMAIN cache[Root]
            /\ down'[w][i].load = cache[Root][down'[w][i].step]
        BY <1>1, <1>2, <3>1 DEF MessagesKnown
      <3> QED
        BY <1>1, <3>2, CacheKept
    <2>2. CASE Sent(down'[w][i], w)
      <3>1. PICK step : step = down'[w][i].step
        OBVIOUS
      <3>2. SetupSend(step) /\ down'[w][i].load = Share(step, w)
        BY <1>2, <2>2, <3>1 DEF Sent, Known
      <3>3. step \in Setup /\ step \in CachedSteps
        BY <1>2, <3>1 DEF Known, Setup, CachedSteps
      <3>4. Store(Root, step, Share(step, Root))
        BY <3>2, <3>3 DEF SetupSend, Take
      <3>5. /\ DOMAIN cache'[Root] = DOMAIN cache[Root] \cup {step}
            /\ cache'[Root][step] = Share(step, Root)
        BY <1>1, <3>4, StoreEffect, ProcessFacts
      <3>6. Share(step, Root) = Share(step, w)
        BY <1>2, <3>1 DEF Share, Known
      <3> QED
        BY <3>1, <3>2, <3>5, <3>6
    <2> QED
      BY <2>1, <2>2, MessagesAreKnown DEF DownIsKnown
  <1>3. ASSUME NEW i \in 1 .. Len(down'[w]), down'[w][i].step = "params"
        PROVE  /\ "chunks" \in DOMAIN cache'[Root]
               /\ down'[w][i].load \in Seq(0 .. Jobs')
               /\ Len(down'[w][i].load) = mpi_map_chunks(Total')[w]
    <2>1. /\ "chunks" \in DOMAIN cache[Root] /\ IsShare(down'[w][i].load, w)
          /\ request' = request
      <3>1. CASE In(down'[w][i], down[w])
        <4>1. PICK j \in 1 .. Len(down[w]) : down'[w][i] = down[w][j]
          BY <3>1 DEF In
        <4>2. down[w][j].step \in Setup
          BY <1>3, <4>1 DEF Setup
        <4> QED
          BY <1>1, <1>3, <4>1, <4>2, RequestKeptWithMessages DEF MessagesKnown
      <3>2. CASE Sent(down'[w][i], w)
        <4>1. SetupSend("params") /\ down'[w][i].load = Share("params", w)
          BY <1>3, <3>2 DEF Sent
        <4>2. at[Root] = "params"
          BY <4>1 DEF SetupSend
        <4> QED
          BY <1>1, <4>1, <4>2, RootsShare, RequestKept DEF Setup
      <3> QED
        BY <3>1, <3>2, MessagesAreKnown DEF DownIsKnown
    <2>2. PICK x : x = down'[w][i].load
      OBVIOUS
    <2>3. Total' = Total /\ "chunks" \in DOMAIN cache'[Root]
      BY <1>1, <2>1, TotalKept, CacheKept
    <2> QED
      BY <2>1, <2>2, <2>3, ShareStays
  <1> QED
    BY <1>2, <1>3 DEF MessagesKnown, IsShare, JobsOf

LEMMA CachesKnownKept ==
  ASSUME CInv, Shares, [Next]_vars, NEW w \in Workers
  PROVE  CachesKnown(w)'
  <1>1. /\ Root \in Rank /\ w \in Rank /\ w # Root
        /\ Steps(Root) /\ Steps(w) /\ CachesKnown(w)
    BY EveryoneSteps, WorkerFacts DEF Shares
  <1>2. ASSUME NEW m \in Known, m \in DOMAIN cache'[w]
        PROVE  m \in DOMAIN cache'[Root] /\ cache'[w][m] = cache'[Root][m]
    <2>1. m \in DOMAIN cache[Root] /\ cache'[w][m] = cache[Root][m]
      <3>1. CASE m \in DOMAIN cache[w]
        <4>1. cache'[w][m] = cache[w][m]
          BY <1>1, <3>1, CacheKept
        <4> QED
          BY <1>1, <1>2, <3>1, <4>1 DEF CachesKnown
      <3>2. CASE m \notin DOMAIN cache[w]
        <4>1. Arrived(w, m) /\ cache'[w][m] = Delivered(w)
          BY <1>1, <1>2, <3>2, CacheNew DEF Known
        <4> QED
          BY <1>2, <4>1, DeliveredIsKnown
      <3> QED
        BY <3>1, <3>2
    <2> QED
      BY <1>1, <2>1, CacheKept
  <1> QED
    BY <1>2 DEF CachesKnown

LEMMA SharesInvariant ==
  ASSUME CInv, Rows, [Next]_vars, Shares
  PROVE  Shares'
  <1>1. ChunksKnown'
    BY ChunksKnownKept DEF Shares
  <1>2. \A p \in Rank : JobsKnown(p)'
    BY JobsKnownKept
  <1>3. \A w \in Workers : MessagesKnown(w)' /\ CachesKnown(w)'
    BY MessagesKnownKept, CachesKnownKept
  <1> QED
    BY <1>1, <1>2, <1>3 DEF Shares

LEMMA SharesInit ==
  ASSUME Init
  PROVE  Shares
  <1>1. /\ at = [p \in Rank |-> "outside"] /\ cache = [p \in Rank |-> <<>>]
        /\ down = [w \in Workers |-> <<>>]
    BY DEF Init, ClusterInit
  <1>2. DOMAIN << >> = {} /\ Len(<< >>) = 0
    BY QueueEmpty
  <1>3. \A p \in Rank : at[p] = "outside" /\ DOMAIN cache[p] = {}
    BY <1>1, <1>2
  <1>4. Root \in Rank /\ Workers \subseteq Rank
    BY RootIsNoWorker
  <1>5. ChunksKnown /\ \A p \in Rank : JobsKnown(p)
    BY <1>3, <1>4 DEF ChunksKnown, JobsKnown
  <1>6. \A w \in Workers : MessagesKnown(w) /\ CachesKnown(w)
    <2>1. \A w \in Workers : Len(down[w]) = 0
      BY <1>1, <1>2
    <2> QED
      BY <1>3, <1>4, <2>1 DEF MessagesKnown, CachesKnown
  <1> QED
    BY <1>5, <1>6 DEF Shares

(***************************************************************************)
(* The sizes of the outputs.                                               *)
(***************************************************************************)

LEMMA SizedIsWarm ==
  ASSUME CInv, NEW p \in Rank, Sized(p)
  PROVE  {"chunks", "f_out"} \subseteq DOMAIN cache[p]
  <1>1. CacheOK(p)
    BY ProcessFacts
  <1>2. Warm(p)
    BY <1>1 DEF CacheOK, Sized, Earlier
  <1> QED
    BY <1>2 DEF Warm, CachedSteps, Sized

LEMMA SizesStay ==
  ASSUME CInv, [Next]_vars, NEW p \in Rank, NEW q, Sized(p)
  PROVE  SizesOf(p, q)' = SizesOf(p, q) /\ Sized(p)'
  <1>1. Steps(p) /\ {"chunks", "f_out"} \subseteq DOMAIN cache[p]
    BY EveryoneSteps, SizedIsWarm
  <1>2. /\ cache'[p]["chunks"] = cache[p]["chunks"] /\ cache'[p]["f_out"] = cache[p]["f_out"]
        /\ "f_out" \in DOMAIN cache'[p]
    BY <1>1, CacheKept
  <1> QED
    BY <1>2 DEF SizesOf, Sized

\* Where chunks are cached, they are those of the number of jobs.
LEMMA ChunksOf ==
  ASSUME CInv, Shares, NEW p \in Rank, "chunks" \in DOMAIN cache[p]
  PROVE  /\ "chunks" \in DOMAIN cache[Root]
         /\ cache[p]["chunks"] = mpi_map_chunks(Total)
         /\ cache[p]["chunks"] \in [Rank -> Nat]
  <1>1. "chunks" \in DOMAIN cache[Root] /\ cache[p]["chunks"] = cache[Root]["chunks"]
    <2>1. CASE p = Root
      BY <2>1
    <2>2. CASE p # Root
      <3>1. CachesKnown(p)
        BY <2>2, RootFacts DEF Shares
      <3> QED
        BY <3>1 DEF CachesKnown, Known
    <2> QED
      BY <2>1, <2>2
  <1>2. cache[Root]["chunks"] = mpi_map_chunks(Total) /\ Total \in JobCounts
    BY <1>1 DEF Shares, ChunksKnown
  <1>3. Total \in Nat
    BY <1>2, CallAssumption
  <1> QED
    BY <1>1, <1>2, <1>3, ChunksAre

LEMMA OwnSizesAre ==
  ASSUME CInv, Shares, OksAgree, NEW p \in Rank, at[p] = "f_out"
  PROVE  /\ "chunks" \in DOMAIN cache[p]
         /\ local[p].f_out \in Seq(Nat)
         /\ Len(local[p].f_out) = cache[p]["chunks"][p]
         /\ Len(local[p].f_out) = JobsOf(p)
  <1>1. "chunks" \in DOMAIN cache[p]
    BY ChunksAreCut
  <1>2. local[p].ok
    <2>1. CASE p = Root
      BY <2>1 DEF OksAgree
    <2>2. CASE p # Root
      <3>1. OkKnown(p)
        BY <2>2, RootFacts DEF OksAgree
      <3> QED
        BY <3>1 DEF OkKnown
    <2> QED
      BY <2>1, <2>2
  <1>3. Len(local[p].f_out) = JobsOf(p) /\ local[p].f_out \in Seq(Nat)
    BY <1>2 DEF Shares, JobsKnown
  <1>4. cache[p]["chunks"][p] = JobsOf(p)
    BY <1>1, ChunksOf DEF JobsOf
  <1> QED
    BY <1>1, <1>3, <1>4

LEMMA SendSizesIs ==
  ASSUME CInv, Shares, OksAgree, NEW w \in Workers, SendSizes(w)
  PROVE  /\ SizesOf(w, w)' = local[w].f_out /\ IsSizes(local[w].f_out, w)
         /\ "chunks" \in DOMAIN cache[w]
  <1>1. at[w] = "f_out" /\ Store(w, "f_out", WithOwnSizes(w)) /\ w \in Rank
    BY WorkerFacts DEF SendSizes
  <1>2. /\ "chunks" \in DOMAIN cache[w] /\ local[w].f_out \in Seq(Nat)
        /\ Len(local[w].f_out) = cache[w]["chunks"][w]
        /\ Len(local[w].f_out) = JobsOf(w)
    BY <1>1, OwnSizesAre
  <1>3. /\ cache'[w]["f_out"] = WithOwnSizes(w)
        /\ \A m \in DOMAIN cache[w] \ {"f_out"} : cache'[w][m] = cache[w][m]
    BY <1>1, ProcessFacts, StoreEffect
  <1>4. cache'[w]["chunks"] = cache[w]["chunks"]
    BY <1>2, <1>3
  <1>5. SubSeq(WithOwnSizes(w), FirstJob(cache[w]["chunks"], w) + 1,
               FirstJob(cache[w]["chunks"], w) + cache[w]["chunks"][w])
          = local[w].f_out
    BY <1>1, <1>2, ChunksOf, OwnSizes
  <1>6. SizesOf(w, w)' = local[w].f_out
    BY <1>3, <1>4, <1>5 DEF SizesOf
  <1> QED
    BY <1>2, <1>6 DEF IsSizes

LEMMA SizesTyped ==
  ASSUME CInv, Shares, OksAgree, Sizes, [Next]_vars, NEW w \in Workers, Sized(w)'
  PROVE  /\ SizesOf(w, w)' \in Seq(Nat)
         /\ Len(SizesOf(w, w)') = mpi_map_chunks(Total')[w]
  <1>1. w \in Rank /\ Steps(w) /\ w # Root
    BY EveryoneSteps, WorkerFacts
  <1>2. CASE Sized(w)
    <2>1. IsSizes(SizesOf(w, w), w)
      BY <1>2 DEF Sizes, SizesKnown
    <2>2. "chunks" \in DOMAIN cache[w]
      BY <1>1, <1>2, SizedIsWarm
    <2>3. Total' = Total
      BY <1>1, <2>2, ChunksOf, TotalKept
    <2>4. SizesOf(w, w)' = SizesOf(w, w)
      BY <1>1, <1>2, SizesStay
    <2> QED
      BY <2>1, <2>3, <2>4 DEF IsSizes, JobsOf
  <1>3. CASE ~Sized(w)
    <2>1. KeepsSizes(w)
      BY <1>1, <1>3, CacheNew DEF Sized, CachedSteps
    <2>2. SendSizes(w)
      BY <1>1, <2>1 DEF KeepsSizes
    <2>3. SizesOf(w, w)' = local[w].f_out /\ IsSizes(local[w].f_out, w)
      BY <2>2, SendSizesIs
    <2>4. Total' = Total
      BY <1>1, <2>2, SendSizesIs, ChunksOf, TotalKept
    <2> QED
      BY <2>3, <2>4 DEF IsSizes, JobsOf
  <1> QED
    BY <1>2, <1>3

LEMMA CollectedIs ==
  ASSUME CInv, Sizes, NEW w \in Workers, AllArrived("f_out")
  PROVE  Sized(w) /\ Collected(w) = SizesOf(w, w) /\ IsSizes(Collected(w), w)
  <1>1. /\ up[w] # <<>> /\ up[w][1].step = "f_out" /\ Collected(w) = up[w][1].load
        /\ 1 \in 1 .. Len(up[w])
    BY WorkerFacts, UpPlace DEF AllArrived, Collected
  <1>2. Sized(w)
    BY <1>1, WorkerFacts DEF SameCaches
  <1> QED
    BY <1>1, <1>2 DEF Sizes, SizesKnown

LEMMA CollectSizesIs ==
  ASSUME CInv, Shares, OksAgree, Sizes, CollectSizes, NEW w \in Workers
  PROVE  SizesOf(Root, w)' = SizesOf(w, w) /\ Sized(w)
  <1>1. /\ at[Root] = "f_out" /\ AllArrived("f_out") /\ Root \in Rank /\ Root = 0
        /\ Store(Root, "f_out", Gathered(local[Root].f_out))
    BY RootFacts DEF CollectSizes, Root
  <1>2. /\ "chunks" \in DOMAIN cache[Root] /\ local[Root].f_out \in Seq(Nat)
        /\ Len(local[Root].f_out) = cache[Root]["chunks"][Root]
    BY <1>1, OwnSizesAre
  <1>3. PICK c : c = cache[Root]["chunks"]
    OBVIOUS
  <1>4. c \in [Rank -> Nat] /\ \A p \in Rank : c[p] = JobsOf(p)
    BY <1>1, <1>2, <1>3, ChunksOf DEF JobsOf
  <1>5. PICK q : q = [p \in Rank |-> IF p = 0 THEN local[Root].f_out ELSE Collected(p)]
    OBVIOUS
  <1>6. /\ q[0] = local[Root].f_out
        /\ \A p \in Workers : p \in Rank /\ q[p] = Collected(p)
    BY <1>1, <1>5, RootFacts
  <1>7. IsChunks(q, c)
    <2>1. ASSUME NEW p \in Rank
          PROVE  q[p] \in Seq(Nat) /\ Len(q[p]) = c[p]
      <3>1. CASE p = 0
        BY <1>1, <1>2, <1>3, <1>6, <3>1
      <3>2. CASE p # 0
        <4>1. p \in Workers
          BY <1>1, <3>2, RootFacts
        <4>2. IsSizes(Collected(p), p)
          BY <1>1, <4>1, CollectedIs
        <4> QED
          BY <1>4, <1>6, <4>1, <4>2 DEF IsSizes
      <3> QED
        BY <3>1, <3>2
    <2> QED
      BY <2>1 DEF IsChunks
  <1>8. Gathered(local[Root].f_out) = q[0] \o FlattenSeq([v \in 1 .. (WorldSize - 1) |-> q[v]])
    <2>1. \A v \in 1 .. (WorldSize - 1) : v \in Workers
      BY ClusterAssumption DEF Workers, Rank, Root
    <2>2. [v \in 1 .. (WorldSize - 1) |-> Collected(v)] = [v \in 1 .. (WorldSize - 1) |-> q[v]]
      BY <1>6, <2>1, Zenon
    <2> QED
      BY <1>6, <2>2, Zenon DEF Gathered
  <1>9. SubSeq(q[0] \o FlattenSeq([v \in 1 .. (WorldSize - 1) |-> q[v]]),
               FirstJob(c, w) + 1, FirstJob(c, w) + c[w]) = q[w]
    BY <1>4, <1>7, GatheredChunks
  <1>10. /\ cache'[Root]["f_out"] = Gathered(local[Root].f_out)
         /\ \A m \in DOMAIN cache[Root] \ {"f_out"} : cache'[Root][m] = cache[Root][m]
    BY <1>1, ProcessFacts, StoreEffect
  <1>11. cache'[Root]["chunks"] = c
    BY <1>2, <1>3, <1>10
  <1>12. SizesOf(Root, w)' = q[w]
    BY <1>8, <1>9, <1>10, <1>11 DEF SizesOf
  <1> QED
    BY <1>1, <1>6, <1>12, CollectedIs

LEMMA SameSizesKept ==
  ASSUME CInv, Shares, OksAgree, Sizes, [Next]_vars, NEW w \in Workers,
         Sized(w)', Sized(Root)'
  PROVE  SizesOf(Root, w)' = SizesOf(w, w)'
  <1>1. w \in Rank /\ Root \in Rank /\ Steps(Root)
    BY EveryoneSteps, WorkerFacts
  <1>2. CASE Sized(Root)
    <2>1. Sized(w)
      BY <1>2, WorkerFacts DEF SameCaches
    <2>2. SizesOf(Root, w) = SizesOf(w, w)
      BY <1>2, <2>1 DEF Sizes, SizesKnown
    <2>3. SizesOf(Root, w)' = SizesOf(Root, w) /\ SizesOf(w, w)' = SizesOf(w, w)
      BY <1>1, <1>2, <2>1, SizesStay
    <2> QED
      BY <2>2, <2>3
  <1>3. CASE ~Sized(Root)
    <2>1. KeepsSizes(Root)
      BY <1>1, <1>3, CacheNew DEF Sized, CachedSteps
    <2>2. CollectSizes
      BY <2>1 DEF KeepsSizes
    <2>3. SizesOf(Root, w)' = SizesOf(w, w) /\ Sized(w)
      BY <2>2, CollectSizesIs
    <2>4. SizesOf(w, w)' = SizesOf(w, w)
      BY <1>1, <2>3, SizesStay
    <2> QED
      BY <2>3, <2>4
  <1> QED
    BY <1>2, <1>3

LEMMA GatheredSizesKept ==
  ASSUME CInv, Shares, OksAgree, Sizes, [Next]_vars, NEW w \in Workers,
         NEW i \in 1 .. Len(up'[w]), up'[w][i].step = "f_out"
  PROVE  up'[w][i].load = SizesOf(w, w)'
  <1>1. CASE In(up'[w][i], up[w])
    <2>1. PICK j \in 1 .. Len(up[w]) : up'[w][i] = up[w][j]
      BY <1>1 DEF In
    <2>2. up[w] # <<>> /\ InStep(w) /\ Typed /\ IsQueue(up[w], UpSteps)
      <3>1. IsQueue(up[w], UpSteps) /\ InStep(w) /\ Typed
        BY WorkerFacts DEF QueuesTyped
      <3> QED
        BY <3>1, QueueFacts
    <2>3. LeadsUp(up[w], Place(Root), Place(w))
      BY <2>2, UpPlace
    <2>4. up[w][1].step = "f_out"
      BY <2>1, <2>2, <2>3, LeadsUpShape
    <2>5. Sized(w)
      BY <2>2, <2>4, WorkerFacts DEF SameCaches
    <2>6. SizesOf(w, w)' = SizesOf(w, w)
      BY <2>5, SizesStay, WorkerFacts
    <2>7. up[w][j].load = SizesOf(w, w)
      BY <2>1 DEF Sizes, SizesKnown
    <2> QED
      BY <2>1, <2>6, <2>7
  <1>2. CASE Given(up'[w][i], w)
    <2>1. SendSizes(w) /\ up'[w][i].load = local[w].f_out
      BY <1>2 DEF Given
    <2> QED
      BY <2>1, SendSizesIs
  <1> QED
    BY <1>1, <1>2, MessagesAreKnown DEF UpIsKnown

\* The kind of a call stays while messages of it are on their way up.
LEMMA KindKept ==
  ASSUME CInv, CInv', [Next]_vars, NEW w \in Workers,
         NEW j \in 1 .. Len(up[w]), up[w][j].step = "results"
  PROVE  local'[Root].kind = local[Root].kind
  <1>1. IsQueue(up[w], UpSteps) /\ InStep(w) /\ Typed
    BY WorkerFacts DEF QueuesTyped
  <1>2. up[w] # <<>>
    BY <1>1, QueueFacts
  <1>3. LeadsUp(up[w], Place(Root), Place(w)) /\ Place(Root) \in UpSteps
    BY <1>1, <1>2, UpPlace
  <1>4. at[Root] \notin Idle \cup {"all_ok"}
    BY <1>3 DEF Place, Idle, UpSteps
  <1>5. at[Root] # "status"
    <2>1. ASSUME at[Root] = "status" PROVE FALSE
      <3>1. Place(Root) = "status"
        BY <2>1 DEF Place, Idle
      <3>2. Len(up[w]) = 1 /\ up[w][1].step = "status"
        <4>1. Len(up[w]) = 1
          BY <1>1, <1>2, <1>3, <3>1, LeadsUpShape
        <4>2. up[w][1].step = "status"
          BY <1>1, <1>2, <3>1, UpPlace
        <4> QED
          BY <4>1, <4>2
      <3> QED
        BY <3>2
    <2> QED
      BY <2>1
  <1>6. request' = request
    BY <1>4, <1>5, EveryoneSteps DEF RequestChanges, Idle
  <1>7. request # NoRequest /\ local[Root].kind = request.kind
    BY <1>4, RootFacts DEF RootOK
  <1>8. RootOK'
    BY DEF CInv, Control
  <1> QED
    BY <1>6, <1>7, <1>8 DEF RootOK

LEMMA QuietCache ==
  ASSUME CInv, NEW p \in Rank, Steps(p), at[p] \notin Setup \cup {"f_out", "outputs_per_job"}
  PROVE  SameCache(p)
  <1>1. CASE Rests(p) \/ Goes(p) \/ Ends(p) \/ Answers(p)
    BY <1>1 DEF Rests, Goes, Ends, Answers
  <1>2. CASE Evaluate(p)
    BY <1>2, EvaluateEffect
  <1>3. ~Takes(p) /\ ~Learns(p) /\ ~KeepsSizes(p)
    BY DEF Takes, Learns, KeepsSizes
  <1> QED
    BY <1>1, <1>2, <1>3 DEF Steps

LEMMA ResultLength ==
  ASSUME CInv, Shares, Sizes, NEW w \in Workers, at[w] = "results"
  PROVE  Len(LocalResult(w)) =
           SumFunction(SizesOf(w, w)) * num_outputs_per_job_[w][local[Root].kind]
  <1>1. /\ w \in Rank /\ CacheOK(w) /\ SameKind(w)
        /\ num_outputs_per_job_ \in [Rank -> [Kinds -> {-1, 0, 1}]]
    BY WorkerFacts DEF Shapes
  <1>2. Sized(w) /\ local[w].kind \in Kinds /\ ~FirstEvaluation(w)
    BY <1>1 DEF CacheOK, UpSteps
  <1>3. local[w].kind = local[Root].kind
    BY <1>1 DEF SameKind, InTheCall, UpSteps
  <1>4. SizesOf(w, w) \in Seq(Nat)
    BY <1>2 DEF Sizes, SizesKnown, IsSizes
  <1>5. SumFunction(SizesOf(w, w)) \in Nat
    BY <1>4, SumOfSequence
  <1>6. num_outputs_per_job_[w][local[w].kind] \in {0, 1}
    BY <1>1, <1>2 DEF FirstEvaluation
  <1>7. PICK n : n = ChunkResult(w, w)
    OBVIOUS
  <1>8. n = SumFunction(SizesOf(w, w)) * num_outputs_per_job_[w][local[w].kind]
    BY <1>7 DEF ChunkResult
  <1>9. n \in Nat
    BY <1>5, <1>6, <1>8
  <1>10. Len(LocalResult(w)) = n
    <2>1. PICK f : f = LocalResult(w)
      OBVIOUS
    <2>2. f = [k \in 1 .. n |->
                 IF k <= Len(LocalOutput(w)) THEN LocalOutput(w)[k] ELSE Junk]
      BY <1>7, <2>1 DEF LocalResult
    <2>3. DOMAIN f = 1 .. n
      BY <2>2
    <2>4. f \in [1 .. n -> {f[k] : k \in 1 .. n}]
      BY <2>2, <2>3
    <2> QED
      BY <1>9, <2>1, <2>4, SeqOfFunction
  <1> QED
    BY <1>3, <1>8, <1>10

LEMMA ResultsKept ==
  ASSUME CInv, CInv', Shares, Sizes, [Next]_vars, NEW w \in Workers,
         NEW i \in 1 .. Len(up'[w]), up'[w][i].step = "results"
  PROVE  Len(up'[w][i].load) =
           SumFunction(SizesOf(w, w)') * num_outputs_per_job_'[w][local'[Root].kind]
  <1>1. w \in Rank /\ w # Root /\ Steps(w) /\ Typed /\ InStep(w)
    BY EveryoneSteps, WorkerFacts
  <1>2. CASE In(up'[w][i], up[w])
    <2>1. PICK j \in 1 .. Len(up[w]) : up'[w][i] = up[w][j]
      BY <1>2 DEF In
    <2>2. local'[Root].kind = local[Root].kind
      BY <2>1, KindKept
    <2>3. up[w] # <<>>
      <3>1. IsQueue(up[w], UpSteps)
        BY WorkerFacts DEF QueuesTyped
      <3> QED
        BY <3>1, QueueFacts
    <2>4. Place(w) \in {"all_ok", "results", "status", "command"}
      BY <1>1, <2>3, UpPlace
    <2>5. at[w] \notin Setup \cup {"f_out", "outputs_per_job"}
      BY <2>4 DEF Place, Idle, Setup
    <2>6. SameCache(w)
      BY <1>1, <2>5, QuietCache
    <2>7. SizesOf(w, w)' = SizesOf(w, w)
      BY <2>6 DEF SameCache, SizesOf
    <2>8. Len(up[w][j].load) =
            SumFunction(SizesOf(w, w)) * num_outputs_per_job_[w][local[Root].kind]
      BY <1>2, <2>1 DEF Sizes, SizesKnown
    <2> QED
      BY <2>1, <2>2, <2>6, <2>7, <2>8 DEF SameCache
  <1>3. CASE Given(up'[w][i], w)
    <2>1. SendResults(w) /\ up'[w][i].load = LocalResult(w)
      BY <1>3 DEF Given
    <2>2. /\ at[w] = "results" /\ UNCHANGED <<cache, num_outputs_per_job_>>
          /\ local' = [local EXCEPT ![w].ok = StillOk(w)]
      BY <2>1 DEF SendResults
    <2>3. local'[Root].kind = local[Root].kind
      BY <1>1, <2>2, ProcessFacts, RootFacts
    <2>4. SizesOf(w, w)' = SizesOf(w, w)
      BY <2>2 DEF SizesOf
    <2> QED
      BY <2>1, <2>2, <2>3, <2>4, ResultLength
  <1> QED
    BY <1>2, <1>3, MessagesAreKnown DEF UpIsKnown

LEMMA SizesInvariant ==
  ASSUME CInv, CInv', Shares, OksAgree, [Next]_vars, Sizes
  PROVE  Sizes'
  <1>1. ASSUME NEW w \in Workers
        PROVE  SizesKnown(w)'
    <2>1. Sized(w)' => IsSizes(SizesOf(w, w), w)'
      BY SizesTyped DEF IsSizes, JobsOf
    <2>2. (Sized(w) /\ Sized(Root) => SizesOf(Root, w) = SizesOf(w, w))'
      BY SameSizesKept
    <2>3. \A i \in 1 .. Len(up'[w]) :
            /\ up'[w][i].step = "f_out" => up'[w][i].load = SizesOf(w, w)'
            /\ up'[w][i].step = "results" =>
                 Len(up'[w][i].load) = SumFunction(SizesOf(w, w)')
                   * num_outputs_per_job_'[w][local'[Root].kind]
      BY GatheredSizesKept, ResultsKept
    <2> QED
      BY <2>1, <2>2, <2>3 DEF SizesKnown
  <1> QED
    BY <1>1 DEF Sizes

LEMMA SizesInit ==
  ASSUME Init
  PROVE  Sizes
  <1>1. cache = [p \in Rank |-> <<>>] /\ up = [w \in Workers |-> <<>>]
    BY DEF Init, ClusterInit
  <1>2. DOMAIN << >> = {} /\ Len(<< >>) = 0 /\ Workers \subseteq Rank
    BY QueueEmpty, RootIsNoWorker
  <1>3. \A w \in Workers : ~Sized(w) /\ Len(up[w]) = 0
    BY <1>1, <1>2 DEF Sized
  <1> QED
    BY <1>3 DEF Sizes, SizesKnown

-----------------------------------------------------------------------------
(***************************************************************************)
(* The theorems.                                                           *)
(***************************************************************************)

(* The inductive invariant.                                                  *)
THEOREM Invariance == Spec => []IInv
  <1>1. Init => IInv
    BY CInvInit, RowsInit, OksInit, SharesInit, SizesInit DEF IInv
  <1>2. ASSUME IInv, [Next]_vars
        PROVE  IInv'
    <2>1. CInv /\ Rows /\ OksAgree /\ Shares /\ Sizes
      BY <1>2 DEF IInv
    <2>2. CInv'
      BY <1>2, <2>1, CInvNext
    <2>3. Rows'
      BY <1>2, <2>1, RowsInvariant
    <2>4. OksAgree'
      BY <1>2, <2>1, OksInvariant
    <2>5. Shares'
      BY <1>2, <2>1, SharesInvariant
    <2>6. Sizes'
      BY <1>2, <2>1, <2>2, SizesInvariant
    <2> QED
      BY <2>2, <2>3, <2>4, <2>5, <2>6 DEF IInv
  <1> QED
    BY <1>1, <1>2, PTL DEF Spec

LEMMA InvariantIsTyped ==
  ASSUME IInv
  PROVE  TypeOK
  <1>1. CInv /\ Rows /\ Typed /\ Shapes
    BY DEF IInv, CInv, Typed
  <1>2. at \in [Rank -> DownSteps \cup UpSteps
                          \cup {"outside", "ready", "held", "evaluate"}]
    BY <1>1 DEF Shapes, RootPlaces, Idle
  <1>3. \A w \in Workers : Len(down[w]) <= Capacity /\ Len(up[w]) <= Capacity
    BY <1>1 DEF Typed, QueuesTyped
  <1>4. \A p \in Rank : /\ DOMAIN cache[p] \subseteq CachedSteps \cup {"f_out"}
                        /\ local[p].kind \in Kinds \cup {"none"}
    BY <1>1 DEF Typed, ProcessTyped
  <1>5. num_outputs_per_job_ \in [Rank -> [Kinds -> {-1, 1}]]
    <2>1. /\ num_outputs_per_job_ \in [Rank -> [Kinds -> {-1, 0, 1}]]
          /\ \A p \in Rank : \A k \in Kinds : num_outputs_per_job_[p][k] # 0
      BY <1>1 DEF Shapes, Rows, RowsKnown
    <2>2. \A p \in Rank : num_outputs_per_job_[p] \in [Kinds -> {-1, 1}]
      BY <2>1
    <2> QED
      BY <2>1, <2>2
  <1> QED
    BY <1>1, <1>2, <1>3, <1>4, <1>5 DEF TypeOK, Typed

(* What every variable holds; the number of rows is found out before it is   *)
(* broadcast, since the root always has a job.                               *)
THEOREM TypeCorrect == Spec => []TypeOK
  <1>1. IInv => TypeOK
    BY InvariantIsTyped
  <1> QED
    BY <1>1, Invariance, PTL

LEMMA LengthOfSlice ==
  ASSUME NEW n \in Nat, NEW p \in Rank
  PROVE  Len(Slice(n, p)) = mpi_map_chunks(n)[p]
  <1>1. PICK f, m : f = Slice(n, p) /\ m = mpi_map_chunks(n)[p]
    OBVIOUS
  <1>2. m \in Nat /\ DOMAIN f = 1 .. m
    BY <1>1, SliceIs
  <1>3. f = [i \in 1 .. m |-> FirstJob(mpi_map_chunks(n), p) + i]
    BY <1>1 DEF Slice
  <1>4. f \in [1 .. m -> {f[i] : i \in 1 .. m}]
    BY <1>2, <1>3
  <1> QED
    BY <1>1, <1>2, <1>4, SeqOfFunction

LEMMA ScatterCounts ==
  ASSUME IInv, NEW w \in Workers, at[w] = "params", Arrived(w, "params")
  PROVE  Len(Delivered(w)) = Len(Slice(cache[w]["dims"], w))
  <1>1. CInv /\ Shares /\ w \in Rank
    BY WorkerFacts DEF IInv
  <1>2. IsShare(Delivered(w), w)
    BY <1>1, DeliveredIsKnown
  <1>3. {"chunks", "dims"} \subseteq DOMAIN cache[w]
    BY <1>1, WarmOrEarlier
  <1>4. /\ {"chunks", "dims"} \subseteq DOMAIN cache[Root]
        /\ cache[w]["dims"] = cache[Root]["dims"]
    <2>1. CachesKnown(w)
      BY <1>1 DEF Shares
    <2> QED
      BY <1>3, <2>1 DEF CachesKnown, Known
  <1>5. Total = cache[w]["dims"] /\ Total \in Nat
    <2>1. Total = cache[Root]["dims"] /\ Total \in JobCounts
      BY <1>1, <1>4 DEF Total, Shares, ChunksKnown
    <2> QED
      BY <1>4, <2>1, CallAssumption
  <1> QED
    BY <1>1, <1>2, <1>5, LengthOfSlice DEF IsShare, JobsOf

LEMMA GatherCounts ==
  ASSUME IInv, NEW w \in Workers, at[Root] = "f_out", AllArrived("f_out")
  PROVE  Len(Collected(w)) = cache[Root]["chunks"][w]
  <1>1. CInv /\ Shares /\ OksAgree /\ Sizes /\ Root \in Rank
    BY RootFacts DEF IInv
  <1>2. IsSizes(Collected(w), w)
    BY <1>1, CollectedIs
  <1>3. "chunks" \in DOMAIN cache[Root]
    BY <1>1, OwnSizesAre
  <1>4. cache[Root]["chunks"] = mpi_map_chunks(Total)
    BY <1>1, <1>3, ChunksOf
  <1> QED
    BY <1>2, <1>4 DEF IsSizes, JobsOf

LEMMA ResultCounts ==
  ASSUME IInv, NEW w \in Workers, at[Root] = "results", AllArrived("results")
  PROVE  Len(Collected(w)) = ChunkResult(Root, w)
  <1>1. CInv /\ Sizes /\ Typed /\ InStep(w)
    BY WorkerFacts DEF IInv
  <1>2. /\ up[w] # <<>> /\ up[w][1].step = "results" /\ Collected(w) = up[w][1].load
        /\ 1 \in 1 .. Len(up[w]) /\ down[w] = <<>>
    BY <1>1, UpPlace DEF AllArrived, Collected
  <1>3. Len(Collected(w)) =
          SumFunction(SizesOf(w, w)) * num_outputs_per_job_[w][local[Root].kind]
    BY <1>1, <1>2 DEF Sizes, SizesKnown
  <1>4. Sized(Root) /\ local[Root].kind \in Kinds
    BY <1>1, RootFacts DEF CacheOK, UpSteps
  <1>5. Sized(w)
    BY <1>1, <1>4, WorkerFacts DEF SameCaches
  <1>6. SizesOf(Root, w) = SizesOf(w, w)
    BY <1>1, <1>4, <1>5 DEF Sizes, SizesKnown
  <1>7. num_outputs_per_job_[Root][local[Root].kind]
          = num_outputs_per_job_[w][local[Root].kind]
    BY <1>1, <1>2, <1>4, WorkerFacts, QueueEmpty DEF SameRows
  <1> QED
    BY <1>3, <1>6, <1>7 DEF ChunkResult

(* Everything is synchronous: each process takes part in the collective that *)
(* the others take part in, and with the count that they computed.           *)
THEOREM Synchronous == Spec => []CollectivesMatch
  <1>1. ASSUME IInv
        PROVE  CollectivesMatch
    <2>1. CountsAgree
      BY <1>1, ScatterCounts, GatherCounts, ResultCounts DEF CountsAgree
    <2>2. ASSUME NEW w \in Workers
          PROVE  /\ down[w] # <<>> /\ at[w] \in DownSteps => Head(down[w]).step = at[w]
                 /\ up[w] # <<>> /\ at[Root] \in UpSteps => Head(up[w]).step = at[Root]
      <3>1. Typed /\ InStep(w) /\ w \in Rank /\ Root \in Rank
        BY <1>1, WorkerFacts DEF IInv
      <3>2. ASSUME down[w] # <<>>, at[w] \in DownSteps
            PROVE  Head(down[w]).step = at[w]
        BY <3>1, <3>2, DownPlace, PlaceOfGoal
      <3>3. ASSUME up[w] # <<>>, at[Root] \in UpSteps
            PROVE  Head(up[w]).step = at[Root]
        BY <3>1, <3>3, UpPlace, PlaceOfGoal
      <3> QED
        BY <3>2, <3>3
    <2> QED
      BY <2>1, <2>2 DEF CollectivesMatch
  <1> QED
    BY <1>1, Invariance, PTL

LEMMA SameDomains ==
  ASSUME IInv, NEW w \in Workers, CallerIsFree, at[w] \in {"command", "outside"},
         up[w] = <<>>
  PROVE  DOMAIN cache[w] = DOMAIN cache[Root] /\ (Sized(w) <=> Sized(Root))
  <1>1. CInv /\ CacheOK(w) /\ CacheOK(Root) /\ SameCaches(w) /\ w \in Rank /\ Root \in Rank
    BY WorkerFacts DEF IInv
  <1>2. Warm(w) <=> Warm(Root)
    BY <1>1 DEF SameCaches, CallerIsFree
  <1>3. Sized(w) <=> Sized(Root)
    BY <1>1 DEF SameCaches
  <1>4. CASE Warm(w)
    <2>1. /\ DOMAIN cache[w] \subseteq CachedSteps \cup {"f_out"}
          /\ DOMAIN cache[Root] \subseteq CachedSteps \cup {"f_out"}
          /\ CachedSteps \subseteq DOMAIN cache[w]
          /\ CachedSteps \subseteq DOMAIN cache[Root]
      BY <1>1, <1>2, <1>4, ProcessFacts DEF Warm
    <2> QED
      BY <1>3, <2>1 DEF Sized
  <1>5. CASE ~Warm(w)
    <2>1. DOMAIN cache[w] = Earlier(at[w]) /\ DOMAIN cache[Root] = Earlier(at[Root])
      BY <1>1, <1>2, <1>5 DEF CacheOK
    <2>2. Earlier(at[w]) = {} /\ Earlier(at[Root]) = {}
      BY DEF Earlier, CallerIsFree
    <2> QED
      BY <1>3, <2>1, <2>2
  <1> QED
    BY <1>3, <1>4, <1>5

(* Between two calls root and worker have cached the same, whatever calls    *)
(* there were and however they ended.                                        *)
THEOREM SameBetweenCalls == Spec => []CachesAgree
  <1>1. ASSUME IInv, NEW w \in Workers,
               CallerIsFree, at[w] \in {"command", "outside"}, down[w] = <<>>
        PROVE  /\ DOMAIN cache[w] = DOMAIN cache[Root]
               /\ \A m \in DOMAIN cache[w] \cap {"chunks", "shared_size", "dims"} :
                    cache[w][m] = cache[Root][m]
               /\ IsCached(w, "f_out") => SizesOf(w, w) = SizesOf(Root, w)
               /\ num_outputs_per_job_[w] = num_outputs_per_job_[Root]
    <2>1. CInv /\ Shares /\ Sizes /\ Typed /\ InStep(w) /\ w \in Rank /\ Root \in Rank
      BY <1>1, WorkerFacts DEF IInv
    <2>2. up[w] = <<>>
      <3>1. Place(Root) = "command"
        BY <1>1 DEF CallerIsFree, Place, Idle
      <3> QED
        BY <2>1, <3>1, UpPlace DEF UpSteps
    <2>3. DOMAIN cache[w] = DOMAIN cache[Root] /\ (Sized(w) <=> Sized(Root))
      BY <1>1, <2>2, SameDomains
    <2>4. \A m \in DOMAIN cache[w] \cap {"chunks", "shared_size", "dims"} :
            cache[w][m] = cache[Root][m]
      <3>1. CachesKnown(w)
        BY <2>1 DEF Shares
      <3> QED
        BY <3>1 DEF CachesKnown, Known
    <2>5. IsCached(w, "f_out") => SizesOf(w, w) = SizesOf(Root, w)
      BY <2>1, <2>3 DEF Sizes, SizesKnown, Sized, IsCached
    <2>6. num_outputs_per_job_[w] = num_outputs_per_job_[Root]
      <3>1. \A k \in Kinds : num_outputs_per_job_[Root][k] = num_outputs_per_job_[w][k]
        BY <1>1, <2>1, WorkerFacts, QueueEmpty DEF SameRows
      <3>2. num_outputs_per_job_ \in [Rank -> [Kinds -> {-1, 0, 1}]]
        BY <2>1, ProcessFacts
      <3> QED
        BY <2>1, <3>1, <3>2
    <2> QED
      BY <2>3, <2>4, <2>5, <2>6
  <1>2. IInv => CachesAgree
    BY <1>1 DEF CachesAgree
  <1> QED
    BY <1>2, Invariance, PTL
-----------------------------------------------------------------------------
(***************************************************************************)
(* Every job is one process's.                                             *)
(***************************************************************************)

\* What induction over ranks shows.
LEMMA RankInduction ==
  ASSUME NEW T \in SUBSET Nat, 0 \in T, \A n \in T : n \in Rank => n + 1 \in T
  PROVE  \A n \in 0 .. WorldSize : n \in T
  <1> DEFINE U == {n \in Nat : n <= WorldSize => n \in T}
  <1>1. 0 \in U
    OBVIOUS
  <1>2. ASSUME NEW n \in U
        PROVE  n + 1 \in U
    <2>1. n + 1 <= WorldSize => n <= WorldSize /\ n \in Rank
      BY ClusterAssumption DEF Rank
    <2> QED
      BY <2>1
  <1>3. U = Nat
    <2> HIDE DEF U
    <2>1. U \in SUBSET Nat
      BY DEF U
    <2> QED
      BY <1>1, <1>2, <2>1, InductionOnNat
  <1> QED
    BY <1>3, ClusterAssumption

\* The jobs of the ranks before p.
LEMMA RanksInOrder ==
  ASSUME NEW c \in [Rank -> Nat], NEW p \in Rank, NEW q \in Rank, p < q
  PROVE  FirstJob(c, p) + c[p] <= FirstJob(c, q)
  <1>1. PICK F : F = [r \in 0 .. WorldSize |-> FirstJob(c, r)]
    OBVIOUS
  <1>2. /\ \A r \in Rank : r \in Nat /\ r \in 0 .. WorldSize /\ r + 1 \in 0 .. WorldSize
        /\ p + 1 <= q
    BY ClusterAssumption DEF Rank
  <1>3. /\ \A r \in 0 .. WorldSize : F[r] \in Nat /\ F[r] = FirstJob(c, r)
        /\ \A r \in Rank : F[r + 1] = F[r] + c[r]
    <2>1. \A r \in 0 .. WorldSize : F[r] \in Nat /\ F[r] = FirstJob(c, r)
      BY <1>1, FirstJobIs
    <2>2. ASSUME NEW r \in Rank
          PROVE  F[r + 1] = F[r] + c[r]
      <3>1. r \in 0 .. WorldSize /\ r + 1 \in 0 .. WorldSize
        BY <1>2
      <3> QED
        BY <2>1, <3>1, FirstJobIs
    <2> QED
      BY <2>1, <2>2
  <1> DEFINE T == {n \in Nat : p + 1 <= n => F[p + 1] <= F[n]}
  <1>4. 0 \in T
    BY <1>2
  <1>5. ASSUME NEW n \in T, n \in Rank
        PROVE  n + 1 \in T
    <2>1. F[n + 1] = F[n] + c[n] /\ c[n] \in Nat /\ F[n] \in Nat /\ F[p + 1] \in Nat
          /\ p \in Nat /\ n \in Nat
      BY <1>2, <1>3, <1>5
    <2>2. CASE p + 1 <= n
      BY <2>1, <2>2
    <2>3. CASE ~ (p + 1 <= n)
      <3>1. p + 1 <= n + 1 => p + 1 = n + 1
        BY <2>1, <2>3
      <3> QED
        BY <2>1, <3>1
    <2> QED
      BY <2>2, <2>3
  <1>6. \A n \in 0 .. WorldSize : n \in T
    <2> HIDE DEF T
    <2>1. T \in SUBSET Nat
      BY DEF T
    <2> QED
      BY <1>4, <1>5, <2>1, RankInduction
  <1>7. F[p + 1] <= F[q]
    <2>1. q \in T
      BY <1>2, <1>6
    <2> QED
      BY <1>2, <2>1
  <1> QED
    BY <1>2, <1>3, <1>7

\* The jobs are all shared out.
LEMMA ChunksSum ==
  ASSUME NEW n \in Nat
  PROVE  SumFunction(mpi_map_chunks(n)) = n
  <1>1. PICK c, d, m, a, w : /\ c = mpi_map_chunks(n)
                          /\ d = n \div WorldSize /\ m = n % WorldSize
                          /\ a = Chunks!FirstWithExtra(n, WorldSize)
                          /\ w = WorldSize
    OBVIOUS
  <1>2. /\ d \in Nat /\ m \in 0 .. w - 1 /\ n = w * d + m /\ w \in Nat \ {0}
        /\ c \in [Rank -> Nat] /\ a \in {0, 1}
    BY <1>1, Division, ClusterAssumption, ChunksAre DEF Chunks!FirstWithExtra
  <1>3. \A p \in Rank : c[p] = d + (IF a <= p /\ p < a + m THEN 1 ELSE 0)
    <2>1. \A p \in Rank : c[p] = (d + (IF a <= p /\ p < a + m THEN 1 ELSE 0)) * 1
      BY <1>1 DEF mpi_map_chunks, Chunks!MapChunks, Chunks!HasExtra, Rank
    <2> QED
      BY <1>2, <2>1
  <1> DEFINE Extras(p) == IF p <= a THEN 0 ELSE IF p <= a + m THEN p - a ELSE m
             T == {p \in Nat : FirstJob(c, p) = p * d + Extras(p)}
  <1>4. 0 \in T
    BY <1>2, FirstJobIs
  <1>5. ASSUME NEW p \in T, p \in Rank
        PROVE  p + 1 \in T
    <2>1. FirstJob(c, p + 1) = FirstJob(c, p) + c[p]
      BY <1>2, <1>5, FirstJobIs
    <2>2. FirstJob(c, p) = p * d + Extras(p) /\ p \in Nat
      OBVIOUS
    <2>3. Extras(p + 1) = Extras(p) + (IF a <= p /\ p < a + m THEN 1 ELSE 0)
      BY <1>2, <2>2
    <2>4. PICK k, e, x : k = p * d /\ e = Extras(p)
                         /\ x = IF a <= p /\ p < a + m THEN 1 ELSE 0
      OBVIOUS
    <2>5. k \in Nat /\ e \in Nat /\ x \in Nat /\ (p + 1) * d = k + d
      <3>1. p \in Nat /\ d \in Nat /\ m \in Nat /\ a \in Nat
        BY <1>2, <2>2
      <3>2. Extras(p) \in Nat
        BY <3>1
      <3>3. p * d \in Nat /\ (p + 1) * d = p * d + d
        BY <3>1
      <3> HIDE DEF Extras
      <3> QED
        BY <2>4, <3>2, <3>3
    <2>6. c[p] = d + x
      BY <1>3, <1>5, <2>4
    <2>7. FirstJob(c, p + 1) = (k + e) + (d + x)
      BY <2>1, <2>2, <2>4, <2>6
    <2>8. FirstJob(c, p + 1) = (p + 1) * d + Extras(p + 1)
      <3>1. Extras(p + 1) = e + x
        BY <2>3, <2>4
      <3>2. (k + e) + (d + x) = (k + d) + (e + x)
        BY <1>2, <2>5
      <3> HIDE DEF Extras
      <3> QED
        BY <2>5, <2>7, <3>1, <3>2
    <2> QED
      BY <2>2, <2>8
  <1>6. \A p \in 0 .. WorldSize : p \in T
    <2> HIDE DEF T
    <2>1. T \in SUBSET Nat
      BY DEF T
    <2> QED
      BY <1>4, <1>5, <2>1, RankInduction
  <1>7. FirstJob(c, w) = w * d + Extras(w)
    <2>1. w \in T
      BY <1>1, <1>2, <1>6
    <2> HIDE DEF Extras
    <2> QED
      BY <2>1
  <1>8. Extras(w) = m
    <2>1. w <= a => m = 0
      BY <1>2
    <2>2. w <= a + m => w = a + m \/ w <= a
      BY <1>2
    <2> QED
      BY <1>2, <2>1, <2>2
  <1> QED
    BY <1>1, <1>2, <1>7, <1>8, FirstJobIs

\* Job j is the i-th of process p.
IsJob(n, p, i, j) ==
  /\ p \in Rank /\ i \in 1 .. mpi_map_chunks(n)[p]
  /\ j = FirstJob(mpi_map_chunks(n), p) + i

LEMMA JobIs ==
  ASSUME NEW n \in Nat, NEW p, NEW i, NEW j, IsJob(n, p, i, j)
  PROVE  /\ j \in 1 .. n /\ i \in DOMAIN Slice(n, p) /\ Slice(n, p)[i] = j
         /\ DOMAIN Slice(n, p) = 1 .. mpi_map_chunks(n)[p]
  <1>1. PICK c, f, m : /\ c = mpi_map_chunks(n)
                       /\ f = FirstJob(c, p) /\ m = c[p]
    OBVIOUS
  <1>2. c \in [Rank -> Nat] /\ p \in Rank /\ SumFunction(c) = n /\ m \in Nat
    BY <1>1, ChunksAre, ChunksSum DEF IsJob
  <1>3. f \in Nat /\ f + m <= n
    BY <1>1, <1>2, FirstJobBound
  <1>4. i \in 1 .. m /\ j = f + i
    BY <1>1 DEF IsJob
  <1>5. Slice(n, p) = [k \in 1 .. m |-> f + k]
    BY <1>1 DEF Slice
  <1>6. j \in 1 .. n
    BY <1>2, <1>3, <1>4
  <1>7. DOMAIN Slice(n, p) = 1 .. mpi_map_chunks(n)[p]
    BY <1>1, <1>5
  <1> QED
    BY <1>4, <1>5, <1>6, <1>7

LEMMA JobHasOwner ==
  ASSUME NEW n \in Nat, NEW j \in 1 .. n
  PROVE  \E p, i : IsJob(n, p, i, j)
  <1>1. PICK c : c = mpi_map_chunks(n)
    OBVIOUS
  <1>2. c \in [Rank -> Nat] /\ SumFunction(c) = n
    BY <1>1, ChunksAre, ChunksSum
  <1> DEFINE T == {q \in Nat : j <= FirstJob(c, q) => \E p, i : IsJob(n, p, i, j)}
  <1>3. 0 \in T
    BY <1>2, FirstJobIs
  <1>4. ASSUME NEW q \in T, q \in Rank
        PROVE  q + 1 \in T
    <2>1. PICK f, m : f = FirstJob(c, q) /\ m = c[q]
      OBVIOUS
    <2>2. /\ FirstJob(c, q + 1) = f + m /\ f \in Nat /\ m \in Nat
      BY <1>2, <1>4, <2>1, FirstJobIs, FirstJobBound
    <2>3. CASE j <= f
      BY <2>1, <2>3
    <2>4. CASE ~ (j <= f) /\ j <= f + m
      <3>1. PICK i : i = j - f
        OBVIOUS
      <3>2. i \in 1 .. m /\ j = f + i
        BY <2>2, <2>4, <3>1
      <3>3. IsJob(n, q, i, j)
        BY <1>1, <1>4, <2>1, <3>2 DEF IsJob
      <3> QED
        BY <3>3
    <2> QED
      BY <2>2, <2>3, <2>4
  <1>5. \A q \in 0 .. WorldSize : q \in T
    <2> HIDE DEF T
    <2>1. T \in SUBSET Nat
      BY DEF T
    <2> QED
      BY <1>3, <1>4, <2>1, RankInduction
  <1>6. j <= FirstJob(c, WorldSize)
    BY <1>2, FirstJobIs
  <1>7. WorldSize \in 0 .. WorldSize
    BY ClusterAssumption
  <1> QED
    BY <1>5, <1>6, <1>7

\* And no other.
LEMMA JobHasOneOwner ==
  ASSUME NEW n \in Nat, NEW p, NEW i, NEW q, NEW k, NEW j,
         IsJob(n, p, i, j), IsJob(n, q, k, j)
  PROVE  p = q
  <1>1. PICK c, f, g : /\ c = mpi_map_chunks(n)
                       /\ f = FirstJob(c, p) /\ g = FirstJob(c, q)
    OBVIOUS
  <1>2. /\ c \in [Rank -> Nat] /\ p \in Rank /\ q \in Rank
        /\ i \in 1 .. c[p] /\ k \in 1 .. c[q] /\ j = f + i /\ j = g + k
    BY <1>1, ChunksAre DEF IsJob
  <1>3. f \in Nat /\ g \in Nat /\ c[p] \in Nat /\ c[q] \in Nat
    BY <1>1, <1>2, FirstJobBound
  <1>4. p < q => f + c[p] <= g
    BY <1>1, <1>2, RanksInOrder
  <1>5. q < p => g + c[q] <= f
    BY <1>1, <1>2, RanksInOrder
  <1>6. p \in Int /\ q \in Int
    BY <1>2, ClusterAssumption DEF Rank
  <1> QED
    BY <1>2, <1>3, <1>4, <1>5, <1>6
-----------------------------------------------------------------------------
(***************************************************************************)
(* What all processes have, one after the other.                           *)
(***************************************************************************)

\* The length of sequences that are flattened.
LEMMA FlatLength ==
  ASSUME NEW S, NEW f \in Seq(Nat), NEW s,
         \A i \in 1 .. Len(f) : s[i] \in Seq(S) /\ Len(s[i]) = f[i]
  PROVE  Len(Flat(s, Len(f))) = SumFunction(f) /\ Flat(s, Len(f)) \in Seq(S)
  <1>1. PICK n : n = Len(f)
    OBVIOUS
  <1>2. n \in Nat /\ DOMAIN f = 1 .. n
    BY <1>1, LenProperties
  <1>3. \A i \in 1 .. n : f[i] \in Nat /\ s[i] \in Seq(S) /\ Len(s[i]) = f[i]
    BY <1>1, ElementOfSeq
  <1>4. \A i \in 0 .. n : Flat(s, i) \in Seq(S)
    BY <1>2, <1>3, FlatTyped
  <1>5. \A i \in 0 .. n : IsFiniteSet(1 .. i) /\ NaturalOn(f, 1 .. i)
    <2> TAKE i \in 0 .. n
    <2>1. IsFiniteSet(1 .. i)
      BY FS_Interval
    <2>2. \A k \in 1 .. i : k \in 1 .. n
      BY <1>2
    <2> QED
      BY <1>3, <2>1, <2>2 DEF NaturalOn
  <1> DEFINE T == {i \in Nat : i <= n => Len(Flat(s, i)) = SumOver(f, 1 .. i)}
  <1>6. 0 \in T
    <2>1. 1 .. 0 = {} /\ 0 \in 0 .. n
      BY <1>2
    <2>2. SumOver(f, 1 .. 0) = 0
      BY <1>5, <2>1, SumOverIs
    <2>3. Flat(s, 0) = <<>> /\ Len(<< >>) = 0
      BY FlatEmpty, QueueEmpty
    <2> QED
      BY <2>2, <2>3
  <1>7. ASSUME NEW i \in T
        PROVE  i + 1 \in T
    <2>1. SUFFICES ASSUME i + 1 <= n PROVE Len(Flat(s, i + 1)) = SumOver(f, 1 .. i + 1)
      OBVIOUS
    <2>0. i \in Nat /\ (i <= n => Len(Flat(s, i)) = SumOver(f, 1 .. i))
      OBVIOUS
    <2>2. /\ i \in Nat /\ i \in 0 .. n /\ i + 1 \in 0 .. n /\ i + 1 \in 1 .. n
          /\ Len(Flat(s, i)) = SumOver(f, 1 .. i)
      <3> HIDE DEF T
      <3>1. i \in Nat /\ i <= n
        BY <1>2, <2>0, <2>1
      <3>2. Len(Flat(s, i)) = SumOver(f, 1 .. i)
        BY <2>0, <3>1
      <3> QED
        BY <1>2, <2>1, <3>1, <3>2
    <2>3. PICK a, b : a = Flat(s, i) /\ b = s[i + 1]
      OBVIOUS
    <2>4. a \in Seq(S) /\ b \in Seq(S) /\ Len(b) = f[i + 1] /\ f[i + 1] \in Nat
      BY <1>3, <1>4, <2>2, <2>3
    <2>5. Flat(s, i + 1) = a \o b
      BY <2>2, <2>3, <2>4, FlatNext
    <2>6. Len(a \o b) = Len(a) + Len(b) /\ Len(a) \in Nat
      <3> HIDE DEF T
      <3> QED
        BY <2>4, ConcatProperties, LenProperties
    <2>7. i + 1 \in 1 .. i + 1 /\ (1 .. i + 1) \ {i + 1} = 1 .. i
      BY <2>2
    <2>8. PICK m : m = i + 1
      OBVIOUS
    <2>9. SumOver(f, 1 .. m) = f[m] + SumOver(f, (1 .. m) \ {m})
      <3>1. IsFiniteSet(1 .. m) /\ NaturalOn(f, 1 .. m) /\ m \in 1 .. m
        BY <1>5, <2>2, <2>7, <2>8
      <3> QED
        BY <3>1, SumOverIs
    <2>10. SumOver(f, 1 .. m) = f[m] + SumOver(f, 1 .. i)
      BY <2>7, <2>8, <2>9
    <2>11. Len(Flat(s, m)) = SumOver(f, 1 .. i) + f[m] /\ SumOver(f, 1 .. i) \in Nat
           /\ f[m] \in Nat
      <3> HIDE DEF T
      <3> QED
        BY <2>2, <2>3, <2>4, <2>5, <2>6, <2>8
    <2>12. PICK u, v : u = SumOver(f, 1 .. i) /\ v = f[m]
      OBVIOUS
    <2>13. u + v = v + u
      <3> HIDE DEF T
      <3> QED
        BY <2>11, <2>12
    <2> QED
      <3> HIDE DEF T
      <3> QED
        BY <2>8, <2>10, <2>11, <2>12, <2>13
  <1>8. T = Nat
    <2> HIDE DEF T
    <2>1. T \in SUBSET Nat
      BY DEF T
    <2> QED
      BY <1>6, <1>7, <2>1, InductionOnNat
  <1>9. Len(Flat(s, n)) = SumOver(f, 1 .. n)
    <2>1. n \in T
      <3> HIDE DEF T
      <3> QED
        BY <1>2, <1>8
    <2> QED
      BY <1>2, <2>1
  <1>10. SumFunction(f) = SumOver(f, DOMAIN f)
    BY DEF SumFunction, SumFunctionOnSet, FoldFunctionOnSet, MapThenFoldSet, Iter, SumOver
  <1>11. n \in 0 .. n
    BY <1>2
  <1> QED
    BY <1>1, <1>2, <1>4, <1>9, <1>10, <1>11

\* Each rank p has sequence o[p + 1].
RanksHave(o, S) == \A p \in Rank : o[p + 1] \in Seq(S)

\* Which is made of sequences x[p], its part of b.
RanksShare(o, x, b, c) ==
  \A p \in Rank : /\ o[p + 1] = Flat(x[p], c[p])
                  /\ \A i \in 1 .. c[p] : x[p][i] = b[FirstJob(c, p) + i]

\* What the ranks have of b, one after the other, is b.
LEMMA FlatRanks ==
  ASSUME NEW S, NEW c \in [Rank -> Nat], NEW n, n = SumFunction(c),
         NEW b, AreSeqs(b, n, S), NEW x, NEW o, RanksShare(o, x, b, c)
  PROVE  Flat(o, WorldSize) = Flat(b, n) /\ RanksHave(o, S)
  <1>0. /\ \A j \in 1 .. n : b[j] \in Seq(S)
        /\ \A p \in Rank : /\ o[p + 1] = Flat(x[p], c[p])
                           /\ \A i \in 1 .. c[p] : x[p][i] = b[FirstJob(c, p) + i]
    BY DEF AreSeqs, RanksShare
  <1>1. /\ \A p \in Rank : p \in Nat /\ p \in 0 .. WorldSize /\ p + 1 \in 0 .. WorldSize
        /\ WorldSize \in 0 .. WorldSize /\ WorldSize \in Nat
    BY ClusterAssumption DEF Rank
  <1>2. \A p \in 0 .. WorldSize : FirstJob(c, p) \in Nat
    BY FirstJobIs
  <1>3. ASSUME NEW p \in Rank, NEW i \in 1 .. FirstJob(c, p) + c[p]
        PROVE  i \in 1 .. n
    <2>1. /\ FirstJob(c, p) \in Nat /\ SumFunction(c) \in Nat /\ c[p] \in Nat
          /\ FirstJob(c, p) + c[p] <= SumFunction(c)
      BY FirstJobBound
    <2> QED
      BY <2>1
  <1>4. ASSUME NEW p \in Rank
        PROVE  o[p + 1] \in Seq(S)
    <2>1. PICK m, y, f : m = c[p] /\ y = x[p] /\ f = FirstJob(c, p)
      OBVIOUS
    <2>2. m \in Nat /\ f \in Nat
      BY <1>1, <1>2, <2>1
    <2>3. ASSUME NEW i \in 1 .. m
          PROVE  y[i] \in Seq(S)
      <3>1. f + i \in 1 .. f + m
        BY <2>2
      <3>2. f + i \in 1 .. n
        BY <1>3, <2>1, <3>1
      <3> QED
        BY <1>0, <2>1, <3>2
    <2>4. m \in 0 .. m
      BY <2>2
    <2>5. Flat(y, m) \in Seq(S)
      BY <2>2, <2>3, <2>4, FlatTyped
    <2> QED
      BY <1>0, <2>1, <2>5
  <1> DEFINE T == {p \in Nat : p <= WorldSize => Flat(o, p) = Flat(b, FirstJob(c, p))}
  <1>5. 0 \in T
    <2>1. FirstJob(c, 0) = 0
      BY FirstJobIs
    <2> QED
      BY <2>1, FlatEmpty
  <1>6. ASSUME NEW p \in T, p \in Rank
        PROVE  p + 1 \in T
    <2>1. PICK m, y, f : m = c[p] /\ y = x[p] /\ f = FirstJob(c, p)
      OBVIOUS
    <2>2. m \in Nat /\ f \in Nat /\ p \in Nat /\ p <= WorldSize
      BY <1>1, <1>2, <1>6, <2>1
    <2>3. Flat(o, p) = Flat(b, f)
      BY <2>1, <2>2
    <2>4. o[p + 1] = Flat(y, m) /\ \A i \in 1 .. m : y[i] = b[f + i]
      BY <1>0, <1>6, <2>1
    <2>5. \A i \in 1 .. f + m : b[i] \in Seq(S)
      <3> HIDE DEF T
      <3> TAKE i \in 1 .. f + m
      <3>1. i \in 1 .. n
        BY <1>3, <1>6, <2>1
      <3> QED
        BY <1>0, <3>1
    <2>6. Flat(b, f + m) = Flat(b, f) \o Flat(y, m)
      <3> HIDE DEF T
      <3>1. AreSeqs(b, f + m, S)
        BY <2>5 DEF AreSeqs
      <3>3. PICK k : k = f + m
        OBVIOUS
      <3>4. IsPart(y, b, f, m, k) /\ AreSeqs(b, k, S)
        BY <2>4, <3>1, <3>3 DEF IsPart
      <3>5. Flat(b, k) = Flat(b, f) \o Flat(y, m)
        <4>1. IsJoined(b, k, f, y, m)
          BY <2>2, <3>4, FlatParts
        <4> QED
          BY <4>1 DEF IsJoined
      <3> QED
        BY <3>3, <3>5
    <2>7. Flat(o, p + 1) = Flat(o, p) \o o[p + 1]
      BY <1>4, <1>6, <2>2, FlatNext
    <2>8. FirstJob(c, p + 1) = f + m
      BY <1>6, <2>1, FirstJobIs
    <2> QED
      <3>1. Flat(o, p + 1) = Flat(b, f + m)
        <4> HIDE DEF T
        <4> QED
          BY <2>3, <2>4, <2>6, <2>7
      <3> QED
        BY <2>2, <2>8, <3>1
  <1>7. \A p \in 0 .. WorldSize : p \in T
    <2> HIDE DEF T
    <2>1. T \in SUBSET Nat
      BY DEF T
    <2> QED
      BY <1>5, <1>6, <2>1, RankInduction
  <1>8. Flat(o, WorldSize) = Flat(b, FirstJob(c, WorldSize))
    <2>1. WorldSize \in T
      <3> HIDE DEF T
      <3> QED
        BY <1>1, <1>7
    <2> QED
      BY <1>1, <2>1
  <1> QED
    BY <1>4, <1>8, FirstJobIs DEF RanksHave

RootCollects(o) == \A w \in Workers : Collected(w) = o[w + 1]

\* The root's, then the workers'.
LEMMA GatheredIs ==
  ASSUME NEW S, NEW own, NEW o, o[1] = own, RanksHave(o, S), RootCollects(o)
  PROVE  Gathered(own) = Flat(o, WorldSize)
  <1>0. /\ \A p \in Rank : o[p + 1] \in Seq(S)
        /\ \A w \in Workers : Collected(w) = o[w + 1]
    BY DEF RanksHave, RootCollects
  <1>1. WorldSize \in Nat \ {0} /\ Rank = 0 .. WorldSize - 1
    BY ClusterAssumption DEF Rank
  <1>2. \A i \in 1 .. WorldSize : o[i] \in Seq(S)
    <2> TAKE i \in 1 .. WorldSize
    <2>1. PICK p : p = i - 1
      OBVIOUS
    <2>2. p \in Rank /\ p + 1 = i
      BY <1>1, <2>1
    <2> QED
      BY <1>0, <2>2
  <1>3. PICK m, t : m = WorldSize - 1 /\ t = [w \in 1 .. m |-> Collected(w)]
    OBVIOUS
  <1>4. m \in Nat /\ 1 + m = WorldSize
    BY <1>1, <1>3
  <1>5. \A w \in 1 .. m : t[w] = o[1 + w]
    <2> TAKE w \in 1 .. m
    <2>1. w \in Workers /\ 1 + w = w + 1
      BY <1>1, <1>3 DEF Workers, Root
    <2>2. t[w] = Collected(w)
      BY <1>3
    <2> QED
      BY <1>0, <2>1, <2>2
  <1>6. Flat(o, 1 + m) = Flat(o, 1) \o Flat(t, m)
    <2>1. \A i \in 1 .. 1 + m : o[i] \in Seq(S)
      <3>1. 1 .. 1 + m = 1 .. WorldSize
        BY <1>4
      <3> QED
        BY <1>2, <3>1
    <2>2. PICK k, l : k = 1 /\ l = 1 + m
      OBVIOUS
    <2>3. k \in Nat /\ AreSeqs(o, l, S) /\ IsPart(t, o, k, m, l)
      BY <1>5, <2>1, <2>2 DEF AreSeqs, IsPart
    <2>4. Flat(o, l) = Flat(o, k) \o Flat(t, m)
      <3>1. IsJoined(o, l, k, t, m)
        BY <1>4, <2>3, FlatParts
      <3> QED
        BY <3>1 DEF IsJoined
    <2> QED
      BY <2>2, <2>4
  <1>7. Flat(o, 1) = own
    <2>0. 1 \in Nat \ {0}
      OBVIOUS
    <2> QED
      BY <2>0, FlatIs
  <1>8. Flat(t, m) = FlattenSeq([w \in 1 .. (WorldSize - 1) |-> Collected(w)])
    <2>1. [w \in 1 .. m |-> t[w]] = t
      BY <1>3
    <2> QED
      BY <1>3, <2>1 DEF Flat
  <1>9. PICK e : e = FlattenSeq([w \in 1 .. (WorldSize - 1) |-> Collected(w)])
    BY Zenon
  <1>10. Gathered(own) = own \o e
    BY <1>9, Zenon DEF Gathered
  <1>11. Flat(o, 1 + m) = own \o e
    BY <1>6, <1>7, <1>8, <1>9, Zenon
  <1> QED
    BY <1>4, <1>10, <1>11
-----------------------------------------------------------------------------
(***************************************************************************)
(* What is found out in a call.                                            *)
(***************************************************************************)

OneSharedSize == \A s, t \in SharedSizes : s = t

\* The process has begun with the call under way and has not left it.
InCall(p) == p = Root \/ InTheCall(p)

\* What becomes of job j on process p, and what p makes of its jobs.
Outcome(p, j) ==
  IF request.outcome[j] # Nested THEN request.outcome[j]
  ELSE IF p = Root THEN 1 ELSE Throws
Found(p) == [i \in DOMAIN Slice(Jobs, p) |-> Outcome(p, Slice(Jobs, p)[i])]
Fine(p) == \A i \in DOMAIN Slice(Jobs, p) : Found(p)[i] # Throws
Agrees(p) == Fine(p) /\ Found(p) = SizesOf(p, p)
AllFine == \A p \in Rank : Fine(p)
AllAgree == \A p \in Rank : Agrees(p)
ColumnsAt(p) ==
  [i \in DOMAIN Slice(Jobs, p) |-> ColumnsOf(Slice(Jobs, p)[i], Found(p)[i])]
OutputsOf(p) == Flat(ColumnsAt(p), Len(Found(p)))

\* And all of them together.
Expected == [j \in 1 .. Jobs |-> Outcome(Owner(j), j)]
AllColumns == [j \in 1 .. Jobs |-> ColumnsOf(j, Expected[j])]
AllOutputs == Flat(AllColumns, Jobs)

WithSizes == {"ok", "all_ok", "outputs_per_job", "f_out", "results"}
WithJobs == WithSizes \cup {"x_r", "x_i", "evaluate"}
WithShared == WithJobs \cup {"dims", "params"}

\* Later calls fit the first one.
JobsFit ==
  /\ "shared_size" \in DOMAIN cache[Root] => cache[Root]["shared_size"] \in SharedSizes
  /\ request # NoRequest => Total = Jobs

\* The data of the jobs.
DataKnown(p) ==
  \A m \in {"x_r", "x_i"} \cap DOMAIN cache[p] : cache[p][m] = Slice(Total, p)

\* What a process has in a call.
WorkKnown(p) ==
  InCall(p) =>
    /\ at[p] \in WithShared => local[p].shared = "given"
    /\ at[p] \in WithJobs => local[p].job_params = Slice(Jobs, p)
    /\ at[p] \in WithSizes => /\ local[p].ok <=> Fine(p)
                              /\ Fine(p) => local[p].f_out = Found(p)
    /\ at[p] = "status" => (local[p].ok <=> Agrees(p))

SetupKnown(w) ==
  \A i \in 1 .. Len(down[w]) :
    /\ down[w][i].step = "shared" => down[w][i].load = "given"
    /\ down[w][i].step = "params" => down[w][i].load = Slice(Jobs, w)
    /\ down[w][i].step \in {"x_r", "x_i"} =>
         "chunks" \in DOMAIN cache[Root] /\ down[w][i].load = Slice(Total, w)

AnswersKnown(w) ==
  \A i \in 1 .. Len(up[w]) :
    /\ up[w][i].step = "ok" => (up[w][i].load <=> Fine(w))
    /\ up[w][i].step = "f_out" => Fine(w) /\ up[w][i].load = Found(w)
    /\ up[w][i].step = "results" => (Agrees(w) => up[w][i].load = OutputsOf(w))
    /\ up[w][i].step = "status" => (up[w][i].load <=> Agrees(w))

\* What the root makes of it.
RootKnows ==
  /\ at[Root] = "all_ok" => (local[Root].all_ok <=> AllFine)
  /\ at[Root] \in {"outputs_per_job", "f_out"} => AllFine
  /\ Sized(Root) => /\ cache[Root]["f_out"] \in Seq(Nat)
                    /\ Len(cache[Root]["f_out"]) = Total
  /\ at[Root] = "status" => (AllAgree => local[Root].result = AllOutputs)

Work ==
  /\ JobsFit
  /\ \A p \in Rank : DataKnown(p) /\ WorkKnown(p)
  /\ \A w \in Workers : SetupKnown(w) /\ AnswersKnown(w)
  /\ RootKnows

(***************************************************************************)
(* While a process is in a call, the call stays.                           *)
(***************************************************************************)

LEMMA NobodyEver ==
  CInv /\ at[Root] \in Idle \cup {"command"} => \A w \in Workers : ~InTheCall(w)
  <1> SUFFICES ASSUME CInv, at[Root] \in Idle \cup {"command"}, NEW w \in Workers
               PROVE  ~InTheCall(w)
    OBVIOUS
  <1>1. Place(Root) = "command"
    BY DEF Place, Idle
  <1> QED
    BY <1>1, NobodyInTheCall

LEMMA RequestOfCall ==
  ASSUME CInv, CInv', [Next]_vars, NEW p \in Rank, InCall(p)',
         at'[p] \notin Idle \cup {"command"}
  PROVE  request' = request
  <1>1. ASSUME request' # request
        PROVE  at'[Root] \in Idle \cup {"command"}
    BY <1>1, EveryoneSteps DEF RequestChanges, Ends, Idle
  <1>2. (CInv /\ at[Root] \in Idle \cup {"command"} => \A w \in Workers : ~InTheCall(w))'
    BY NobodyEver, PTL
  <1>3. CASE p = Root
    BY <1>1, <1>3
  <1>4. CASE p # Root
    <2>1. p \in Workers /\ InTheCall(p)'
      BY <1>4, RootFacts DEF InCall
    <2> QED
      BY <1>1, <1>2, <2>1
  <1> QED
    BY <1>3, <1>4

\* A worker that waits to hear how the evaluation went hears what comes first.
LEMMA WaitsStill ==
  ASSUME CInv, [Next]_vars, NEW w \in Workers, down[w] # <<>>,
         at[w] = "all_ok", at'[w] = "all_ok"
  PROVE  down'[w] # <<>> /\ down'[w][1] = down[w][1]
  <1>1. /\ DOMAIN down = Workers /\ IsQueue(down[w], DownSteps) /\ 1 \in 1 .. Len(down[w])
        /\ DOMAIN at = Rank /\ w \in Rank /\ w # Root
    BY WorkerFacts, QueueFacts DEF Shapes, QueuesTyped
  <1>2. CASE down' = down
    BY <1>2
  <1>3. ASSUME NEW step \in DownSteps, NEW load, SendDown(step, load)
        PROVE  down'[w] # <<>> /\ down'[w][1] = down[w][1]
    <2>1. PICK m, q : m = [step |-> step, load |-> load[w]] /\ q = down[w]
      OBVIOUS
    <2>2. down'[w] = Append(q, m) /\ m.step = step
      BY <1>3, <2>1 DEF SendDown
    <2>3. IsQueue(q, DownSteps) /\ m.step \in DownSteps
      BY <1>1, <2>1, <2>2
    <2>4. Append(q, m) # <<>> /\ \A i \in 1 .. Len(q) : Append(q, m)[i] = q[i]
      BY <2>3, QueueAppend
    <2> QED
      BY <1>1, <2>1, <2>2, <2>4
  <1>4. ASSUME NEW v \in Workers, WorkerStep(v) \/ ClusterWorker(v)
        PROVE  down'[w] = down[w]
    <2>1. CASE v # w
      <3>1. CASE Evaluate(v)
        <4>1. v \in Rank
          BY WorkerFacts
        <4> QED
          BY <3>1, <4>1, NestedIsRefused
      <3>2. CASE ~Evaluate(v)
        <4>1. down' = down \/ TakeDown(v)
          BY <1>4, <3>2 DEF WorkerStep, ClusterWorker, RunCommand, SetupReceive, SendOk,
             ReceiveAllOk, ReceiveOutputsPerJob, SendSizes, SendResults, SendStatus,
             ListenWorker, StopWorker
        <4> QED
          BY <1>1, <2>1, <4>1 DEF TakeDown
      <3> QED
        BY <3>1, <3>2
    <2>2. CASE v = w
      <3>1. ReceiveAllOk(w)
        <4>1. ASSUME NEW step \in Setup, SetupReceive(w, step) PROVE FALSE
          BY <4>1 DEF SetupReceive, Setup
        <4> QED
          BY <1>4, <2>2, <4>1, SetupIs DEF WorkerStep, ClusterWorker, RunCommand,
             SendOk, Evaluate, ReceiveOutputsPerJob, SendSizes, SendResults, SendStatus,
             ListenWorker, StopWorker
      <3>2. at'[w] # "all_ok"
        BY <1>1, <3>1 DEF ReceiveAllOk
      <3> QED
        BY <3>2
    <2> QED
      BY <2>1, <2>2
  <1>5. CASE RootStep \/ Release \/ ClusterRoot
    <2>1. CASE Evaluate(Root)
      BY <1>2, <2>1, NestedIsRefused, RootFacts
    <2>2. ASSUME NEW step \in Setup, SetupSend(step)
          PROVE  down'[w] # <<>> /\ down'[w][1] = down[w][1]
      <3>1. \E load : SendDown(step, load)
        BY <2>2 DEF SetupSend
      <3> QED
        BY <1>3, <3>1, DownStepsAre
    <2>3. CASE SendCommand \/ SendAllOk \/ SendOutputsPerJob \/ StopListen
      <3>1. \E step \in {"command", "all_ok", "outputs_per_job"} :
              \E load : SendDown(step, load)
        BY <2>3 DEF SendCommand, SendAllOk, SendOutputsPerJob, StopListen
      <3> QED
        BY <1>3, <3>1, DownStepsAre
    <2>4. CASE CollectOk \/ CollectSizes \/ CollectResults \/ CollectStatus \/ Release
               \/ ListenRoot
      <3>1. down' = down
        BY <2>4 DEF CollectOk, CollectSizes, CollectResults, CollectStatus, Release,
                    ListenRoot
      <3> QED
        BY <1>2, <3>1
    <2> QED
      BY <1>5, <2>1, <2>2, <2>3, <2>4, SetupIs DEF RootStep, ClusterRoot
  <1>6. ASSUME NEW r \in Requests, Start(r) \/ StartThrows(r) \/ FallBack(r)
        PROVE  down' = down
    BY <1>6, Zenon DEF Start, StartThrows, FallBack, clusterVars
  <1>7. CASE UNCHANGED vars
    BY <1>2, <1>7 DEF vars, clusterVars
  <1> QED
    BY <1>2, <1>4, <1>5, <1>6, <1>7 DEF Next

LEMMA InCallKept ==
  ASSUME CInv, CInv', [Next]_vars, NEW p \in Rank, InCall(p)',
         at'[p] \notin Idle \cup {"command"}, at[p] = "all_ok"
  PROVE  InCall(p)
  <1>1. CASE p = Root
    BY <1>1 DEF InCall
  <1>2. CASE p # Root
    <2>1. p \in Workers /\ InTheCall(p)' /\ Steps(p)
      BY <1>2, RootFacts, EveryoneSteps DEF InCall
    <2>2. CASE at'[p] = "all_ok"
      <3>1. down'[p] = <<>> \/ down'[p][1].load
        BY <2>1, <2>2 DEF InTheCall, Setup, UpSteps
      <3> QED
        BY <2>1, <2>2, <3>1, WaitsStill DEF InTheCall, InCall
    <2>3. CASE at'[p] # "all_ok"
      <3>1. ~Takes(p)
        BY DEF Takes, Setup
      <3>2. ~Rests(p) /\ ~Ends(p) /\ ~Evaluate(p) /\ ~Learns(p) /\ ~KeepsSizes(p) /\ ~Answers(p)
        BY <2>3 DEF Rests, Ends, Evaluate, Learns, KeepsSizes, Answers, Idle
      <3>3. Goes(p)
        BY <2>1, <3>1, <3>2 DEF Steps
      <3>4. Arrived(p, "all_ok") /\ Delivered(p)
        BY <1>2, <2>3, <3>3 DEF Goes, Idle
      <3>5. Head(down[p]) = down[p][1]
        BY <2>1, <3>4, WorkerFacts, DownPlace DEF Arrived
      <3> QED
        BY <3>4, <3>5 DEF Delivered, InTheCall, InCall
    <2> QED
      BY <2>2, <2>3
  <1> QED
    BY <1>1, <1>2

(***************************************************************************)
(* Later calls fit the first one.                                          *)
(***************************************************************************)

LEMMA CallHasJobs ==
  ASSUME request \in Requests
  PROVE  /\ request # NoRequest /\ request.shared \in SharedSizes
         /\ Jobs \in Nat \ {0} /\ request.kind \in Kinds
  <1>1. PICK n \in JobCounts :
          request \in [kind : Kinds, shared : SharedSizes, outcome : [1 .. n -> Outcomes]]
    BY DEF Requests
  <1>2. Jobs # 0 /\ Jobs \in Nat \ {0} /\ request.kind \in Kinds
    BY RequestIs
  <1>3. Len(<< >>) = 0
    BY QueueEmpty
  <1>4. Jobs # Len(<< >>)
    BY <1>2, <1>3
  <1>5. request = NoRequest => Jobs = Len(<< >>)
    BY DEF Jobs, NoRequest
  <1> QED
    BY <1>1, <1>2, <1>4, <1>5

LEMMA TotalStays ==
  ASSUME CInv, [Next]_vars, request' = request
  PROVE  Total' = Total
  <1>1. Root \in Rank /\ Steps(Root) /\ Jobs' = Jobs
    BY EveryoneSteps, RootFacts DEF Jobs
  <1>2. CASE "dims" \in DOMAIN cache[Root]
    <2>1. "dims" \in DOMAIN cache'[Root] /\ cache'[Root]["dims"] = cache[Root]["dims"]
      BY <1>1, <1>2, CacheKept
    <2> QED
      BY <1>2, <2>1 DEF Total
  <1>3. CASE "dims" \notin DOMAIN cache[Root]
    <2>1. Share("dims", Root) = Jobs
      BY DEF Share
    <2>2. "dims" \in DOMAIN cache'[Root] => cache'[Root]["dims"] = Jobs
      BY <1>1, <1>3, <2>1, CacheNew
    <2> QED
      BY <1>1, <1>3, <2>2 DEF Total
  <1> QED
    BY <1>2, <1>3

\* A request that is new was let in.
LEMMA RequestStarts ==
  ASSUME CInv, CInv', [Next]_vars, request' # request, request' # NoRequest
  PROVE  /\ at[Root] = "ready" /\ SameCache(Root) /\ request' \in Requests
         /\ ~OtherJobCount(Len(request'.outcome))
  <1>1. RequestChanges
    BY EveryoneSteps
  <1>2. CASE at[Root] \in {"all_ok", "status"} /\ Ends(Root)
    <2>1. at'[Root] \in {"held", "command"}
      BY <1>2 DEF Ends
    <2>2. RootOK' /\ Root \in Rank
      BY RootFacts DEF CInv, Control
    <2>3. at'[Root] = "command"
      BY <1>2, <2>1, <2>2 DEF RootOK, Idle
    <2>4. ~\E r \in Requests : Start(r) \/ StartThrows(r) \/ FallBack(r)
      BY <1>2, Zenon DEF Start, StartThrows, FallBack, CallerIsFree
    <2>5. RootStep
      <3>1. ASSUME NEW v \in Workers, WorkerStep(v) \/ ClusterWorker(v) PROVE FALSE
        BY <3>1, WorkerAlone, RootFacts
      <3>2. ~Release /\ ~ClusterRoot
        BY <1>2 DEF Release, ClusterRoot, ListenRoot, StopListen
      <3> QED
        BY <2>4, <3>1, <3>2 DEF Next, vars
    <2>6. SendAllOk \/ CollectStatus
      <3>1. ASSUME NEW step \in Setup, SetupSend(step) PROVE FALSE
        BY <1>2, <3>1 DEF SetupSend, Setup
      <3> QED
        BY <1>2, <2>5, <3>1, SetupIs DEF RootStep, SendCommand, Evaluate, CollectOk,
           SendOutputsPerJob, CollectSizes, CollectResults
    <2>7. request' = NoRequest
      BY <2>6 DEF SendAllOk, CollectStatus, Return
    <2> QED
      BY <2>7
  <1>3. CASE at[Root] = "ready" /\ at'[Root] = "command" /\ SameCache(Root)
    <2>1. ASSUME NEW v \in Workers, WorkerStep(v) \/ ClusterWorker(v) PROVE FALSE
      BY <2>1, WorkerAlone, RootFacts
    <2>2. ~RootStep
      <3>1. ASSUME NEW step \in Setup, SetupSend(step) PROVE FALSE
        BY <1>3, <3>1 DEF SetupSend, Setup
      <3> QED
        BY <1>3, <3>1, SetupIs DEF RootStep, SendCommand, Evaluate, CollectOk, SendAllOk,
           SendOutputsPerJob, CollectSizes, CollectResults, CollectStatus
    <2>3. ~Release /\ ~ClusterRoot
      BY <1>3 DEF Release, ClusterRoot, ListenRoot, StopListen, callVars
    <2>4. PICK r \in Requests : Start(r) \/ StartThrows(r) \/ FallBack(r)
      BY <2>1, <2>2, <2>3 DEF Next, vars
    <2>5. Start(r)
      BY <2>4, Zenon DEF StartThrows, FallBack
    <2> QED
      BY <1>3, <2>5 DEF Start
  <1> QED
    BY <1>1, <1>2, <1>3 DEF RequestChanges

LEMMA JobsFitKept ==
  ASSUME CInv, CInv', Rows, Shares, JobsFit, [Next]_vars
  PROVE  JobsFit'
  <1>1. Root \in Rank /\ Steps(Root) /\ CacheOK(Root)
    BY EveryoneSteps, RootFacts
  <1>2. ASSUME "shared_size" \in DOMAIN cache'[Root]
        PROVE  cache'[Root]["shared_size"] \in SharedSizes
    <2>1. CASE "shared_size" \in DOMAIN cache[Root]
      BY <1>1, <2>1, CacheKept DEF JobsFit
    <2>2. CASE "shared_size" \notin DOMAIN cache[Root]
      <3>1. at[Root] = "shared_size" /\ cache'[Root]["shared_size"] = Share("shared_size", Root)
        BY <1>1, <1>2, <2>2, CacheNew
      <3>2. Share("shared_size", Root) = request.shared
        BY DEF Share
      <3>3. request \in Requests
        BY <3>1, RootRequest DEF Idle
      <3> QED
        BY <3>1, <3>2, <3>3, CallHasJobs
    <2> QED
      BY <2>1, <2>2
  <1>3. ASSUME request' # NoRequest
        PROVE  Total' = Jobs'
    <2>1. CASE request' = request
      BY <1>3, <2>1, TotalStays DEF JobsFit, Jobs
    <2>2. CASE request' # request
      <3>1. /\ at[Root] = "ready" /\ cache'[Root] = cache[Root]
            /\ ~OtherJobCount(Len(request'.outcome))
        BY <1>3, <2>2, RequestStarts DEF SameCache
      <3>2. CASE "dims" \notin DOMAIN cache[Root]
        BY <3>1, <3>2 DEF Total
      <3>3. CASE "dims" \in DOMAIN cache[Root]
        <4>1. "chunks" \in DOMAIN cache[Root]
          BY <1>1, <3>1, <3>3 DEF CacheOK, Earlier, Warm, CachedSteps
        <4>2. Jobs' = SumFunction(cache[Root]["chunks"])
          BY <3>1, <4>1 DEF OtherJobCount, IsCached, Jobs
        <4>3. cache[Root]["chunks"] = mpi_map_chunks(Total) /\ Total \in Nat
          BY <4>1, CallAssumption DEF Shares, ChunksKnown
        <4>4. SumFunction(mpi_map_chunks(Total)) = Total
          BY <4>3, ChunksSum
        <4>5. Total' = Total
          BY <4>1, TotalKept
        <4> QED
          BY <4>2, <4>3, <4>4, <4>5
      <3> QED
        BY <3>2, <3>3
    <2> QED
      BY <2>1, <2>2
  <1> QED
    BY <1>2, <1>3 DEF JobsFit

(***************************************************************************)
(* The data of the jobs.                                                   *)
(***************************************************************************)

LEMMA DataIsCut ==
  ASSUME CInv, Shares, NEW p \in Rank, NEW m \in {"x_r", "x_i"} \cap DOMAIN cache[p]
  PROVE  "chunks" \in DOMAIN cache[Root]
  <1>1. "chunks" \in DOMAIN cache[p]
    BY ProcessFacts DEF CacheOK, Earlier, Warm, CachedSteps
  <1> QED
    BY <1>1, ChunksOf

LEMMA CallFits ==
  ASSUME CInv, JobsFit, at[Root] \notin Idle
  PROVE  request \in Requests /\ Total = Jobs
  BY RootFacts, RootRequest DEF JobsFit, RootOK

LEMMA SliceBound ==
  ASSUME NEW n \in Nat, NEW p \in Rank
  PROVE  \A i \in DOMAIN Slice(n, p) : Slice(n, p)[i] \in 1 .. n
  <1>1. PICK c, f, m : c = mpi_map_chunks(n) /\ f = FirstJob(c, p) /\ m = c[p]
    OBVIOUS
  <1>2. c \in [Rank -> Nat] /\ SumFunction(c) = n
    BY <1>1, ChunksAre, ChunksSum
  <1>3. f \in Nat /\ m \in Nat /\ f + m <= n
    BY <1>1, <1>2, FirstJobBound
  <1>4. Slice(n, p) = [i \in 1 .. m |-> f + i]
    BY <1>1 DEF Slice
  <1>5. \A i \in 1 .. m : f + i \in 1 .. n
    BY <1>3
  <1> QED
    BY <1>4, <1>5

LEMMA ParamsAreJobs ==
  ASSUME CInv, JobsFit, at[Root] = "params", NEW p \in Rank
  PROVE  Share("params", p) = Slice(Jobs, p)
  <1>1. request \in Requests /\ Total = Jobs
    BY CallFits DEF Idle
  <1>2. "dims" \in DOMAIN cache[Root]
    BY WarmOrEarlier, RootFacts
  <1>3. PICK n, s : n = Jobs /\ s = Slice(n, p)
    OBVIOUS
  <1>4. cache[Root]["dims"] = n /\ n \in Nat
    BY <1>1, <1>2, <1>3, RequestIs DEF Total
  <1>5. \A i \in DOMAIN s : s[i] <= n
    BY <1>3, <1>4, SliceBound
  <1>6. s = [i \in DOMAIN s |-> s[i]]
    BY <1>3 DEF Slice
  <1>7. Share("params", p) = [i \in DOMAIN s |-> IF s[i] <= n THEN s[i] ELSE 0]
    BY <1>3, <1>4 DEF Share
  <1> QED
    BY <1>3, <1>5, <1>6, <1>7

LEMMA SetupKnownKept ==
  ASSUME CInv, Shares, JobsFit, OneSharedSize, [Next]_vars, NEW w \in Workers, SetupKnown(w)
  PROVE  SetupKnown(w)'
  <1>1. Root \in Rank /\ Steps(Root) /\ w \in Rank
    BY EveryoneSteps, WorkerFacts
  <1>2. ASSUME NEW i \in 1 .. Len(down'[w]), down'[w][i].step \in {"shared", "params", "x_r", "x_i"}
        PROVE  /\ request' = request /\ Total' = Total
               /\ down'[w][i].step = "shared" => down'[w][i].load = "given"
               /\ down'[w][i].step = "params" => down'[w][i].load = Slice(Jobs, w)
               /\ down'[w][i].step \in {"x_r", "x_i"} =>
                    "chunks" \in DOMAIN cache[Root] /\ down'[w][i].load = Slice(Total, w)
    <2>1. CASE In(down'[w][i], down[w])
      <3>1. PICK j \in 1 .. Len(down[w]) : down'[w][i] = down[w][j]
        BY <2>1 DEF In
      <3>2. request' = request
        BY <1>2, <3>1, RequestKeptWithMessages DEF Setup
      <3> QED
        BY <3>1, <3>2, TotalStays DEF SetupKnown
    <2>2. CASE Sent(down'[w][i], w)
      <3>1. PICK m : m = down'[w][i]
        OBVIOUS
      <3>2. m.step \in Setup /\ SetupSend(m.step) /\ m.load = Share(m.step, w)
        BY <1>2, <2>2, <3>1 DEF Sent
      <3>3. at[Root] = m.step
        BY <3>2 DEF SetupSend
      <3>4. request' = request /\ request \in Requests /\ Total = Jobs
        BY <1>1, <3>2, <3>3, RequestKept, CallFits DEF Idle, Setup
      <3>5. m.step = "shared" => m.load = "given"
        <4>1. ASSUME m.step = "shared" PROVE "shared_size" \in DOMAIN cache[Root]
          BY <3>3, <4>1, RootFacts DEF CacheOK, Warm, CachedSteps, Earlier
        <4>2. request.shared \in SharedSizes
          BY <3>4, CallHasJobs
        <4> QED
          BY <3>2, <4>1, <4>2 DEF Share, SharedParams, JobsFit, OneSharedSize
      <3>6. m.step = "params" => m.load = Slice(Jobs, w)
        <4>1. ASSUME m.step = "params" PROVE Share("params", w) = Slice(Jobs, w)
          BY <1>1, <3>3, <3>4, <4>1, ParamsAreJobs
        <4> QED
          BY <3>2, <4>1
      <3>7. m.step \in {"x_r", "x_i"} =>
              "chunks" \in DOMAIN cache[Root] /\ m.load = Slice(Total, w)
        <4>1. m.step \in {"x_r", "x_i"} => Share(m.step, w) = Slice(Jobs, w)
          BY DEF Share
        <4>2. m.step \in {"x_r", "x_i"} => "chunks" \in DOMAIN cache[Root]
          BY <1>1, <3>3, WarmOrEarlier
        <4> QED
          BY <3>2, <3>4, <4>1, <4>2
      <3> QED
        BY <3>1, <3>4, <3>5, <3>6, <3>7, TotalStays
    <2> QED
      BY <2>1, <2>2, MessagesAreKnown DEF DownIsKnown
  <1>3. "chunks" \in DOMAIN cache[Root] => "chunks" \in DOMAIN cache'[Root]
    BY <1>1, CacheKept
  <1>4. request' = request => Jobs' = Jobs
    BY DEF Jobs
  <1> QED
    BY <1>2, <1>3, <1>4 DEF SetupKnown

LEMMA SetupDelivered ==
  ASSUME CInv, NEW w \in Workers, SetupKnown(w), NEW step, Arrived(w, step)
  PROVE  /\ step = "shared" => Delivered(w) = "given"
         /\ step = "params" => Delivered(w) = Slice(Jobs, w)
         /\ step \in {"x_r", "x_i"} =>
              "chunks" \in DOMAIN cache[Root] /\ Delivered(w) = Slice(Total, w)
  <1>1. /\ down[w] # <<>> /\ Head(down[w]) = down[w][1] /\ 1 \in 1 .. Len(down[w])
        /\ down[w][1].step = step /\ Delivered(w) = down[w][1].load
    BY WorkerFacts, DownPlace DEF Arrived, Delivered
  <1> QED
    BY <1>1 DEF SetupKnown

LEMMA DataKnownKept ==
  ASSUME CInv, Shares, JobsFit, \A w \in Workers : SetupKnown(w), [Next]_vars,
         NEW p \in Rank, DataKnown(p)
  PROVE  DataKnown(p)'
  <1>1. Steps(p)
    BY EveryoneSteps
  <1>2. ASSUME NEW m \in {"x_r", "x_i"}, m \in DOMAIN cache'[p]
        PROVE  cache'[p][m] = Slice(Total', p)
    <2>1. CASE m \in DOMAIN cache[p]
      <3>1. m \in {"x_r", "x_i"} \cap DOMAIN cache[p]
        BY <1>2, <2>1
      <3>2. "chunks" \in DOMAIN cache[Root]
        BY <3>1, DataIsCut
      <3> QED
        BY <1>1, <2>1, <3>2, CacheKept, TotalKept DEF DataKnown
    <2>2. CASE m \notin DOMAIN cache[p]
      <3>1. /\ at[p] = m
            /\ p = Root => cache'[p][m] = Share(m, Root)
            /\ p # Root => Arrived(p, m) /\ cache'[p][m] = Delivered(p)
        BY <1>1, <1>2, <2>2, CacheNew
      <3>2. CASE p = Root
        <4>1. request' = request /\ Total = Jobs
          BY <1>2, <3>1, <3>2, RequestKept, CallFits DEF Setup, Idle
        <4>2. Share(m, Root) = Slice(Jobs, Root)
          BY <1>2 DEF Share
        <4> QED
          BY <3>1, <3>2, <4>1, <4>2, TotalStays
      <3>3. CASE p # Root
        <4>1. p \in Workers
          BY <3>3, RootFacts
        <4>2. "chunks" \in DOMAIN cache[Root] /\ Delivered(p) = Slice(Total, p)
          BY <1>2, <3>1, <3>3, <4>1, SetupDelivered
        <4> QED
          BY <3>1, <3>3, <4>2, TotalKept
      <3> QED
        BY <3>2, <3>3
    <2> QED
      BY <2>1, <2>2
  <1> QED
    BY <1>2 DEF DataKnown

(***************************************************************************)
(* What is found out.                                                      *)
(***************************************************************************)

LEMMA SameFindings ==
  ASSUME request' = request, NEW p
  PROVE  /\ Jobs' = Jobs /\ Slice(Jobs', p) = Slice(Jobs, p)
         /\ Found(p)' = Found(p) /\ (Fine(p)' <=> Fine(p))
         /\ SizesOf(p, p)' = SizesOf(p, p) => (Agrees(p)' <=> Agrees(p))
  <1>1. Jobs' = Jobs
    BY DEF Jobs
  <1>2. \A j : Outcome(p, j)' = Outcome(p, j)
    BY DEF Outcome
  <1>3. Found(p)' = Found(p)
    BY <1>1 DEF Found, Outcome
  <1>4. Fine(p)' <=> Fine(p)
    BY <1>1, <1>3 DEF Fine
  <1> QED
    BY <1>1, <1>3, <1>4 DEF Agrees

LEMMA WasInCall ==
  ASSUME CInv, CInv', [Next]_vars, NEW p \in Rank, InCall(p)',
         at'[p] \notin Idle \cup {"command"}, at[p] \notin Idle \cup {"command"}
  PROVE  InCall(p)
  <1>1. CASE p = Root \/ at[p] = "all_ok"
    BY <1>1, InCallKept DEF InCall
  <1>2. CASE p # Root /\ at[p] # "all_ok"
    <2>1. at[p] \in DownSteps \cup UpSteps \cup {"evaluate"}
      BY ProcessFacts DEF RootPlaces
    <2> QED
      BY <1>2, <2>1, DownStepsAre DEF InCall, InTheCall
  <1> QED
    BY <1>1, <1>2

LEMMA TakesGo ==
  ASSUME CInv, NEW p \in Rank, NEW step \in Setup, NEW data,
         at[p] = step, Take(p, step, data)
  PROVE  at'[p] \in {"dims", "params"} => step \in {"shared", "dims"}
  <1>1. Typed /\ CacheOK(p)
    BY ProcessFacts
  <1>2. \A load, sized : at'[p] = After(step, load, Warm(p), sized, "evaluate")
    BY <1>1, TakeEffect
  <1> QED
    BY <1>2 DEF After, Setup

\* The jobs of process p, as it evaluates them.
LEMMA ResultIsOutcome ==
  ASSUME CInv, NEW p \in Rank, at[p] = "evaluate", NEW j, j # 0
  PROVE  ResultOf(p, j) = Outcome(p, j)
  <1>1. CASE p = Root
    <2>1. listening /\ in_use
      BY <1>1, RootFacts DEF RootOK
    <2>2. CommandRefused(p) = "in use"
      BY <1>1, <2>1 DEF CommandRefused
    <2> QED
      BY <1>1, <2>2, Zenon DEF ResultOf, Outcome
  <1>2. CASE p # Root
    <2>1. CommandRefused(p) = "only root"
      BY <1>2 DEF CommandRefused
    <2> QED
      BY <1>2, <2>1, Zenon DEF ResultOf, Outcome
  <1> QED
    BY <1>1, <1>2

LEMMA EvaluateFinds ==
  ASSUME CInv, NEW p \in Rank, Evaluate(p), request \in Requests,
         local[p].job_params = Slice(Jobs, p)
  PROVE  /\ local'[p].ok <=> Fine(p)
         /\ Fine(p) => local'[p].f_out = Found(p)
  <1>1. PICK q, n : q = Slice(Jobs, p) /\ n = Len(q)
    OBVIOUS
  <1>2. Jobs \in Nat
    BY RequestIs
  <1>3. n \in Nat /\ DOMAIN q = 1 .. n /\ \A i \in 1 .. n : q[i] # 0
    BY <1>1, <1>2, SliceIs, LengthOfSlice
  <1>4. MyJobs(p) = q
    BY <1>1 DEF MyJobs
  <1>5. /\ at[p] = "evaluate"
        /\ local'[p].ok = (Evaluated(p) = n)
        /\ local'[p].f_out = [i \in 1 .. n |->
             IF i <= Evaluated(p) THEN ResultOf(p, q[i]) ELSE -1]
    BY <1>1, <1>3, <1>4, EvaluateEffect
  <1>6. \A i \in 1 .. n : ResultOf(p, q[i]) = Outcome(p, q[i])
    BY <1>3, <1>5, ResultIsOutcome
  <1>7. Found(p) = [i \in 1 .. n |-> Outcome(p, q[i])]
    BY <1>1, <1>3 DEF Found
  <1>8. Fine(p) <=> \A i \in 1 .. n : ResultOf(p, q[i]) # Throws
    BY <1>1, <1>3, <1>6, <1>7 DEF Fine
  <1> DEFINE thrown == {i \in 1 .. n : ResultOf(p, q[i]) = Throws}
  <1>9. Evaluated(p) = IF thrown = {} THEN n ELSE Min(thrown) - 1
    BY <1>1, <1>3, <1>4 DEF Evaluated
  <1>10. thrown # {} => Evaluated(p) # n
    <2> SUFFICES ASSUME thrown # {} PROVE Evaluated(p) # n
      OBVIOUS
    <2>1. PICK m : m = Min(thrown)
      OBVIOUS
    <2>2. m \in thrown
      <3>1. thrown \in SUBSET Nat
        OBVIOUS
      <3> QED
        BY <2>1, <3>1, SmallestIn
    <2>3. m \in 1 .. n /\ Evaluated(p) = m - 1
      BY <1>9, <2>1, <2>2
    <2> QED
      BY <1>3, <2>3
  <1>11. thrown = {} <=> Fine(p)
    BY <1>8
  <1>12. Evaluated(p) = n <=> Fine(p)
    BY <1>9, <1>10, <1>11
  <1>13. local'[p].ok <=> Fine(p)
    BY <1>5, <1>12
  <1>14. ASSUME Fine(p)
         PROVE  local'[p].f_out = Found(p)
    <2>1. Evaluated(p) = n
      BY <1>12, <1>14
    <2>2. PICK f : f = local'[p].f_out
      OBVIOUS
    <2>3. f = [i \in 1 .. n |-> Outcome(p, q[i])]
      <3>1. f = [i \in 1 .. n |-> IF i <= n THEN ResultOf(p, q[i]) ELSE -1]
        BY <1>5, <2>1, <2>2
      <3>2. \A i \in 1 .. n : i <= n
        BY <1>3
      <3> QED
        BY <1>6, <3>1, <3>2
    <2> QED
      BY <1>7, <2>2, <2>3
  <1> QED
    BY <1>13, <1>14

(* What a process has in the call under way.                                 *)
LEMMA SharedKept ==
  ASSUME CInv, CInv', JobsFit, OneSharedSize, \A w \in Workers : SetupKnown(w),
         [Next]_vars, NEW p \in Rank, WorkKnown(p), InCall(p)', at'[p] \in WithShared
  PROVE  local'[p].shared = "given"
  <1>1. Steps(p) /\ at'[p] \notin Idle \cup {"command"}
    BY EveryoneSteps DEF WithShared, WithJobs, WithSizes, Idle
  <1>2. at[p] \in WithShared => local[p].shared = "given"
    <2>1. at[p] \in WithShared => at[p] \notin Idle \cup {"command"}
      BY DEF WithShared, WithJobs, WithSizes, Idle
    <2> QED
      BY <1>1, <2>1, WasInCall DEF WorkKnown
  <1>3. CASE Rests(p)
    BY <1>2, <1>3 DEF Rests
  <1>4. CASE Goes(p)
    <2>1. at[p] \in {"ok", "all_ok"} /\ local'[p].shared = local[p].shared
      BY <1>1, <1>4 DEF Goes, WithShared, WithJobs, WithSizes, Idle
    <2> QED
      BY <1>2, <2>1 DEF WithShared, WithJobs, WithSizes
  <1>5. CASE Ends(p)
    BY <1>1, <1>5 DEF Ends, Idle
  <1>6. CASE Takes(p)
    <2>1. PICK step, data :
            /\ step \in Setup
            /\ at[p] = step /\ Take(p, step, data)
            /\ p = Root => SetupSend(step) /\ data = Share(step, Root)
            /\ p # Root => Arrived(p, step) /\ data = Delivered(p)
      BY <1>6 DEF Takes
    <2>2. step \in Setup /\ at[p] = step /\ Take(p, step, data)
      BY <2>1
    <2>3. /\ at'[p] \in Setup \cup {"evaluate"}
          /\ at'[p] \in {"x_r", "x_i", "evaluate"} => step \in {"params", "x_r", "x_i"}
          /\ at'[p] \in {"dims", "params"} => step \in {"shared", "dims"}
          /\ local'[p].shared = IF step = "shared" THEN data ELSE local[p].shared
      BY <2>2, TakesEffect, TakesGo
    <2>4. step \in {"shared", "dims", "params", "x_r", "x_i"}
      BY <2>3 DEF WithShared, WithJobs, WithSizes, Setup
    <2>5. CASE step = "shared"
      <3>1. CASE p = Root
        <4>1. "shared_size" \in DOMAIN cache[Root]
          BY <2>2, <2>5, <3>1, RootFacts DEF CacheOK, Warm, CachedSteps, Earlier
        <4>2. request \in Requests
          BY <2>2, <2>5, CallIsOn DEF Setup
        <4>3. request.shared \in SharedSizes
          BY <4>2, CallHasJobs
        <4>4. Share("shared", Root) = "given"
          BY <4>1, <4>3 DEF Share, SharedParams, JobsFit, OneSharedSize
        <4> QED
          BY <2>1, <2>3, <2>5, <3>1, <4>4
      <3>2. CASE p # Root
        <4>1. p \in Workers
          BY <3>2, RootFacts
        <4>2. Delivered(p) = "given"
          BY <2>1, <2>5, <3>2, <4>1, SetupDelivered
        <4> QED
          BY <2>1, <2>3, <2>5, <3>2, <4>2
      <3> QED
        BY <3>1, <3>2
    <2>6. CASE step # "shared"
      BY <1>2, <2>2, <2>3, <2>4, <2>6 DEF WithShared, WithJobs
    <2> QED
      BY <2>5, <2>6
  <1>7. CASE Evaluate(p)
    BY <1>2, <1>7, EvaluateEffect DEF WithShared, WithJobs
  <1>8. CASE Learns(p)
    BY <1>2, <1>8, LearnsEffect DEF WithShared, WithJobs, WithSizes
  <1>9. CASE KeepsSizes(p)
    BY <1>2, <1>9 DEF KeepsSizes, WithShared, WithJobs, WithSizes
  <1>10. CASE Answers(p)
    BY <1>10 DEF Answers, WithShared, WithJobs, WithSizes
  <1> QED
    BY <1>1, <1>3, <1>4, <1>5, <1>6, <1>7, <1>8, <1>9, <1>10 DEF Steps

LEMMA JobsKept ==
  ASSUME CInv, CInv', JobsFit, \A w \in Workers : SetupKnown(w),
         [Next]_vars, NEW p \in Rank, WorkKnown(p), InCall(p)', at'[p] \in WithJobs
  PROVE  local'[p].job_params = Slice(Jobs, p)
  <1>1. Steps(p) /\ at'[p] \notin Idle \cup {"command"}
    BY EveryoneSteps DEF WithJobs, WithSizes, Idle
  <1>2. at[p] \in WithJobs => local[p].job_params = Slice(Jobs, p)
    <2>1. at[p] \in WithJobs => at[p] \notin Idle \cup {"command"}
      BY DEF WithJobs, WithSizes, Idle
    <2> QED
      BY <1>1, <2>1, WasInCall DEF WorkKnown
  <1>3. CASE Rests(p)
    BY <1>2, <1>3 DEF Rests
  <1>4. CASE Goes(p)
    <2>1. at[p] \in {"ok", "all_ok"} /\ local'[p].job_params = local[p].job_params
      BY <1>1, <1>4 DEF Goes, WithJobs, WithSizes, Idle
    <2> QED
      BY <1>2, <2>1 DEF WithJobs, WithSizes
  <1>5. CASE Ends(p)
    BY <1>1, <1>5 DEF Ends, Idle
  <1>6. CASE Takes(p)
    <2>1. PICK step, data :
            /\ step \in Setup
            /\ at[p] = step /\ Take(p, step, data)
            /\ p = Root => SetupSend(step) /\ data = Share(step, Root)
            /\ p # Root => Arrived(p, step) /\ data = Delivered(p)
      BY <1>6 DEF Takes
    <2>2. step \in Setup /\ at[p] = step /\ Take(p, step, data)
      BY <2>1
    <2>3. /\ at'[p] \in Setup \cup {"evaluate"}
          /\ at'[p] \in {"x_r", "x_i", "evaluate"} => step \in {"params", "x_r", "x_i"}
          /\ local'[p].job_params = IF step = "params" THEN data ELSE local[p].job_params
      BY <2>2, TakesEffect
    <2>4. step \in {"params", "x_r", "x_i"}
      BY <2>3 DEF WithJobs, WithSizes, Setup
    <2>5. CASE step = "params"
      <3>1. CASE p = Root
        <4>1. Share("params", Root) = Slice(Jobs, Root)
          BY <2>2, <2>5, <3>1, ParamsAreJobs
        <4> QED
          BY <2>1, <2>3, <2>5, <3>1, <4>1
      <3>2. CASE p # Root
        <4>1. p \in Workers
          BY <3>2, RootFacts
        <4>2. Delivered(p) = Slice(Jobs, p)
          BY <2>1, <2>5, <3>2, <4>1, SetupDelivered
        <4> QED
          BY <2>1, <2>3, <2>5, <3>2, <4>2
      <3> QED
        BY <3>1, <3>2
    <2>6. CASE step # "params"
      BY <1>2, <2>2, <2>3, <2>4, <2>6 DEF WithJobs
    <2> QED
      BY <2>5, <2>6
  <1>7. CASE Evaluate(p)
    BY <1>2, <1>7, EvaluateEffect DEF WithJobs
  <1>8. CASE Learns(p)
    BY <1>2, <1>8, LearnsEffect DEF WithJobs, WithSizes
  <1>9. CASE KeepsSizes(p)
    BY <1>2, <1>9 DEF KeepsSizes, WithJobs, WithSizes
  <1>10. CASE Answers(p)
    BY <1>10 DEF Answers, WithJobs, WithSizes
  <1> QED
    BY <1>1, <1>3, <1>4, <1>5, <1>6, <1>7, <1>8, <1>9, <1>10 DEF Steps

LEMMA SizesKept ==
  ASSUME CInv, CInv', [Next]_vars, NEW p \in Rank, WorkKnown(p), InCall(p)',
         at'[p] \in WithSizes
  PROVE  /\ local'[p].ok <=> Fine(p)
         /\ Fine(p) => local'[p].f_out = Found(p)
  <1>1. Steps(p) /\ at'[p] \notin Idle \cup {"command"}
    BY EveryoneSteps DEF WithSizes, Idle
  <1>2. /\ at[p] \in WithSizes => /\ local[p].ok <=> Fine(p)
                                  /\ Fine(p) => local[p].f_out = Found(p)
        /\ at[p] = "evaluate" => local[p].job_params = Slice(Jobs, p)
    <2>1. at[p] \in WithSizes \cup {"evaluate"} => at[p] \notin Idle \cup {"command"}
      BY DEF WithSizes, Idle
    <2>2. "evaluate" \in WithJobs
      BY DEF WithJobs
    <2> QED
      BY <1>1, <2>1, <2>2, WasInCall DEF WorkKnown
  <1>3. CASE Rests(p)
    BY <1>2, <1>3 DEF Rests
  <1>4. CASE Goes(p)
    <2>1. at[p] \in {"ok", "all_ok"} /\ local'[p].ok = local[p].ok
          /\ local'[p].f_out = local[p].f_out
      BY <1>1, <1>4 DEF Goes, WithSizes, Idle
    <2> QED
      BY <1>2, <2>1 DEF WithSizes
  <1>5. CASE Ends(p)
    BY <1>1, <1>5 DEF Ends, Idle
  <1>6. CASE Takes(p)
    BY <1>6, TakesEffect DEF Takes, Setup, WithSizes
  <1>7. CASE Evaluate(p)
    <2>1. at[p] = "evaluate"
      BY <1>7, EvaluateEffect
    <2>2. request \in Requests
      BY <2>1, CallIsOn
    <2> QED
      BY <1>2, <1>7, <2>1, <2>2, EvaluateFinds
  <1>8. CASE Learns(p)
    BY <1>2, <1>8, LearnsEffect DEF WithSizes
  <1>9. CASE KeepsSizes(p)
    BY <1>2, <1>9 DEF KeepsSizes, WithSizes
  <1>10. CASE Answers(p)
    BY <1>10 DEF Answers, WithSizes
  <1> QED
    BY <1>1, <1>3, <1>4, <1>5, <1>6, <1>7, <1>8, <1>9, <1>10 DEF Steps

LEMMA StatusKept ==
  ASSUME CInv, CInv', [Next]_vars, NEW p \in Rank, WorkKnown(p), InCall(p)',
         at'[p] = "status"
  PROVE  /\ local'[p].ok <=> Agrees(p)
         /\ SizesOf(p, p)' = SizesOf(p, p)
  <1>1. Steps(p)
    BY EveryoneSteps
  <1>2. SameCache(p) => SizesOf(p, p)' = SizesOf(p, p)
    BY DEF SameCache, SizesOf
  <1>3. CASE Rests(p)
    <2>1. at[p] = "status" /\ local'[p].ok = local[p].ok /\ SameCache(p)
      BY <1>3 DEF Rests
    <2>2. InCall(p)
      BY <2>1, WasInCall DEF Idle
    <2> QED
      BY <1>2, <2>1, <2>2 DEF WorkKnown
  <1>4. CASE Answers(p)
    <2>1. at[p] = "results" /\ SameCache(p) /\ local'[p].ok = StillOk(p)
      <3>1. CASE p = Root
        <4>1. PICK ok, r : local' = [local EXCEPT ![Root].ok = ok, ![Root].result = r]
                           /\ ok = StillOk(Root)
          BY <1>4, <3>1 DEF Answers, CollectResults
        <4>2. local'[Root].ok = ok
          BY <4>1, RootFacts, ProcessFacts DEF LocalFields
        <4> QED
          BY <1>4, <3>1, <4>1, <4>2 DEF Answers
      <3>2. CASE p # Root
        <4>1. PICK ok : local' = [local EXCEPT ![p].ok = ok] /\ ok = StillOk(p)
          BY <1>4, <3>2 DEF Answers, SendResults
        <4>2. local'[p].ok = ok
          BY <4>1, ProcessFacts DEF LocalFields
        <4> QED
          BY <1>4, <4>1, <4>2 DEF Answers
      <3> QED
        BY <3>1, <3>2
    <2>2. InCall(p)
      BY <2>1, WasInCall DEF Idle
    <2>3. (local[p].ok <=> Fine(p)) /\ (Fine(p) => local[p].f_out = Found(p))
      BY <2>1, <2>2 DEF WorkKnown, WithSizes
    <2>4. StillOk(p) <=> Agrees(p)
      BY <2>3 DEF StillOk, Agrees
    <2> QED
      BY <1>2, <2>1, <2>4
  <1>5. CASE Goes(p) \/ Ends(p) \/ KeepsSizes(p)
    BY <1>5 DEF Goes, Ends, KeepsSizes, Idle
  <1>6. CASE Takes(p)
    BY <1>6, TakesEffect DEF Takes, Setup
  <1>7. CASE Evaluate(p) \/ Learns(p)
    BY <1>7, EvaluateEffect, LearnsEffect
  <1> QED
    BY <1>1, <1>3, <1>4, <1>5, <1>6, <1>7 DEF Steps

LEMMA WorkKnownKept ==
  ASSUME CInv, CInv', JobsFit, OneSharedSize, \A w \in Workers : SetupKnown(w),
         [Next]_vars, NEW p \in Rank, WorkKnown(p)
  PROVE  WorkKnown(p)'
  <1>1. SUFFICES
          ASSUME InCall(p)'
          PROVE  /\ at'[p] \in WithShared => local'[p].shared = "given"
                 /\ at'[p] \in WithJobs => local'[p].job_params = Slice(Jobs', p)
                 /\ at'[p] \in WithSizes => /\ local'[p].ok <=> Fine(p)'
                                            /\ Fine(p)' => local'[p].f_out = Found(p)'
                 /\ at'[p] = "status" => (local'[p].ok <=> Agrees(p)')
    BY DEF WorkKnown
  <1>2. ASSUME at'[p] \in WithShared \cup {"status"}
        PROVE  request' = request
    <2>1. at'[p] \notin Idle \cup {"command"}
      BY <1>2 DEF WithShared, WithJobs, WithSizes, Idle
    <2> QED
      BY <1>1, <2>1, RequestOfCall
  <1>3. at'[p] \in WithShared => local'[p].shared = "given"
    BY <1>1, SharedKept
  <1>4. ASSUME at'[p] \in WithJobs
        PROVE  local'[p].job_params = Slice(Jobs', p)
    <2>1. request' = request
      BY <1>2, <1>4 DEF WithShared
    <2> QED
      BY <1>1, <1>4, <2>1, JobsKept, SameFindings
  <1>5. ASSUME at'[p] \in WithSizes
        PROVE  /\ local'[p].ok <=> Fine(p)'
               /\ Fine(p)' => local'[p].f_out = Found(p)'
    <2>1. request' = request
      BY <1>2, <1>5 DEF WithShared, WithJobs
    <2>2. Found(p)' = Found(p) /\ (Fine(p)' <=> Fine(p))
      BY <2>1, SameFindings
    <2>3. /\ local'[p].ok <=> Fine(p)
          /\ Fine(p) => local'[p].f_out = Found(p)
      BY <1>1, <1>5, SizesKept
    <2> QED
      BY <2>2, <2>3
  <1>6. ASSUME at'[p] = "status"
        PROVE  local'[p].ok <=> Agrees(p)'
    <2>1. request' = request
      BY <1>2, <1>6
    <2>2. (local'[p].ok <=> Agrees(p)) /\ SizesOf(p, p)' = SizesOf(p, p)
      BY <1>1, <1>6, StatusKept
    <2>3. Agrees(p)' <=> Agrees(p)
      BY <2>1, <2>2, SameFindings
    <2> QED
      BY <2>2, <2>3
  <1> QED
    BY <1>3, <1>4, <1>5, <1>6
-----------------------------------------------------------------------------
(***************************************************************************)
(* What all jobs come to.                                                  *)
(***************************************************************************)

LEMMA FoundIs ==
  ASSUME request \in Requests, NEW p \in Rank, NEW m, m = mpi_map_chunks(Jobs)[p]
  PROVE  /\ m \in Nat /\ DOMAIN Slice(Jobs, p) = 1 .. m
         /\ Len(Found(p)) = m /\ DOMAIN Found(p) = 1 .. m
         /\ Fine(p) => Found(p) \in Seq(Nat)
  <1>1. Jobs \in Nat /\ \A j \in 1 .. Jobs : request.outcome[j] \in Outcomes
    BY RequestIs
  <1>2. PICK s : s = Slice(Jobs, p)
    OBVIOUS
  <1>3. m \in Nat /\ DOMAIN s = 1 .. m /\ \A i \in 1 .. m : s[i] \in 1 .. Jobs
    BY <1>1, <1>2, SliceIs, SliceBound
  <1>4. Found(p) = [i \in 1 .. m |-> Outcome(p, s[i])]
    BY <1>2, <1>3 DEF Found
  <1>5. Len(Found(p)) = m
    <2>1. PICK S : S = {Outcome(p, s[i]) : i \in 1 .. m}
      OBVIOUS
    <2>2. Found(p) \in [1 .. m -> S]
      BY <1>4, <2>1
    <2> QED
      BY <1>3, <2>2, SeqOfFunction
  <1>6. ASSUME Fine(p)
        PROVE  Found(p) \in Seq(Nat)
    <2>1. ASSUME NEW i \in 1 .. m
          PROVE  Outcome(p, s[i]) \in Nat
      <3>1. PICK j : j = s[i]
        OBVIOUS
      <3>2. j \in 1 .. Jobs /\ Found(p)[i] = Outcome(p, j)
        BY <1>3, <1>4, <3>1
      <3>3. Outcome(p, j) # Throws
        BY <1>2, <1>3, <1>6, <3>2 DEF Fine
      <3>4. PICK o : o = request.outcome[j]
        OBVIOUS
      <3>5. o \in OutputSizes \cup {Throws, Nested} /\ OutputSizes \subseteq Nat
        BY <1>1, <3>2, <3>4, CallAssumption DEF Outcomes
      <3>6. Outcome(p, j) = IF o # Nested THEN o ELSE IF p = Root THEN 1 ELSE Throws
        BY <3>4 DEF Outcome
      <3>7. Outcome(p, j) \in OutputSizes \cup {1}
        BY <3>3, <3>5, <3>6
      <3>8. OutputSizes \cup {1} \subseteq Nat
        BY <3>5
      <3>9. Outcome(p, j) \in Nat
        BY <3>7, <3>8
      <3> QED
        BY <3>1, <3>9
    <2>2. Found(p) \in [1 .. m -> Nat]
      BY <1>4, <2>1
    <2> QED
      BY <1>3, <2>2, SeqOfFunction
  <1> QED
    BY <1>2, <1>3, <1>4, <1>5, <1>6

LEMMA OwnerIs ==
  ASSUME Jobs \in Nat, NEW p, NEW i, NEW j, IsJob(Jobs, p, i, j)
  PROVE  Owner(j) = p
  <1>1. p \in Rank /\ j \in Range(Slice(Jobs, p))
    BY JobIs DEF IsJob, Range
  <1>2. ASSUME NEW q \in Rank, j \in Range(Slice(Jobs, q))
        PROVE  q = p
    <2>1. PICK k \in DOMAIN Slice(Jobs, q) : j = Slice(Jobs, q)[k]
      BY <1>2 DEF Range
    <2>2. IsJob(Jobs, q, k, j)
      BY <2>1 DEF IsJob, Slice
    <2> QED
      BY <2>2, JobHasOneOwner
  <1> QED
    BY <1>1, <1>2 DEF Owner

\* The outcome of a job is what its owner finds.
LEMMA ExpectedIs ==
  ASSUME Jobs \in Nat, NEW p, NEW i, NEW j, IsJob(Jobs, p, i, j)
  PROVE  /\ j \in 1 .. Jobs /\ i \in DOMAIN Slice(Jobs, p)
         /\ Expected[j] = Found(p)[i] /\ Slice(Jobs, p)[i] = j
         /\ AllColumns[j] = ColumnsAt(p)[i]
  <1>1. /\ j \in 1 .. Jobs /\ i \in DOMAIN Slice(Jobs, p) /\ Slice(Jobs, p)[i] = j
    BY JobIs
  <1>2. Expected[j] = Outcome(p, j)
    BY <1>1, OwnerIs DEF Expected
  <1>3. Found(p)[i] = Outcome(p, j)
    BY <1>1 DEF Found
  <1>4. AllColumns[j] = ColumnsOf(j, Expected[j])
    BY <1>1 DEF AllColumns
  <1>5. ColumnsAt(p)[i] = ColumnsOf(j, Found(p)[i])
    BY <1>1 DEF ColumnsAt
  <1> QED
    BY <1>1, <1>2, <1>3, <1>4, <1>5

LEMMA JobsInOrder ==
  ASSUME Jobs \in Nat, NEW p \in Rank, NEW i \in 1 .. mpi_map_chunks(Jobs)[p]
  PROVE  \E j : j = FirstJob(mpi_map_chunks(Jobs), p) + i /\ IsJob(Jobs, p, i, j)
  BY DEF IsJob

\* The i-th job of process p.
JobAt(p, i, j) ==
  /\ j = FirstJob(mpi_map_chunks(Jobs), p) + i /\ j \in 1 .. Jobs
  /\ Expected[j] = Found(p)[i] /\ AllColumns[j] = ColumnsAt(p)[i]

LEMMA JobIsThere ==
  ASSUME Jobs \in Nat, NEW p \in Rank, NEW i \in 1 .. mpi_map_chunks(Jobs)[p]
  PROVE  \E j : JobAt(p, i, j)
  <1>1. PICK j : j = FirstJob(mpi_map_chunks(Jobs), p) + i /\ IsJob(Jobs, p, i, j)
    BY JobsInOrder
  <1>2. j \in 1 .. Jobs /\ Expected[j] = Found(p)[i] /\ AllColumns[j] = ColumnsAt(p)[i]
    BY <1>1, ExpectedIs
  <1> QED
    BY <1>1, <1>2 DEF JobAt

\* What the abstract call has of the jobs.
LEMMA ResultsAreExpected ==
  ASSUME CInv, at[Root] \notin Idle
  PROVE  Results = Expected
  <1>1. listening /\ in_use
    BY RootFacts DEF RootOK, Idle
  <1>2. CommandRefused(Root) = "in use"
    BY <1>1 DEF CommandRefused
  <1>3. ASSUME NEW j \in 1 .. Jobs
        PROVE  ResultOf(Owner(j), j) = Outcome(Owner(j), j)
    <2>1. PICK p : p = Owner(j)
      OBVIOUS
    <2>2. p # Root => CommandRefused(p) = "only root"
      BY DEF CommandRefused
    <2>3. j # 0
      BY RootRequest, RequestIs
    <2> QED
      BY <1>2, <2>1, <2>2, <2>3, Zenon DEF ResultOf, Outcome
  <1> QED
    BY <1>3 DEF Results, Expected

LEMMA AllAreFine ==
  ASSUME request \in Requests
  PROVE  /\ AllFine <=> \A j \in 1 .. Jobs : Expected[j] # Throws
         /\ AllFine => Expected \in Seq(Nat)
         /\ Len(Expected) = Jobs
  <1>1. Jobs \in Nat
    BY RequestIs
  <1>2. ASSUME NEW p \in Rank, \A j \in 1 .. Jobs : Expected[j] # Throws
        PROVE  Fine(p)
    <2>1. ASSUME NEW i \in DOMAIN Slice(Jobs, p)
          PROVE  Found(p)[i] # Throws
      <3>1. i \in 1 .. mpi_map_chunks(Jobs)[p]
        BY <1>1, SliceIs
      <3>2. PICK j : IsJob(Jobs, p, i, j)
        BY <1>1, <3>1, JobsInOrder
      <3> QED
        BY <1>1, <1>2, <3>2, ExpectedIs
    <2> QED
      BY <2>1 DEF Fine
  <1>3. ASSUME \A p \in Rank : Fine(p), NEW j \in 1 .. Jobs
        PROVE  Expected[j] # Throws /\ Expected[j] \in Nat
    <2>1. PICK p, i : IsJob(Jobs, p, i, j)
      BY <1>1, JobHasOwner
    <2>2. p \in Rank /\ i \in DOMAIN Slice(Jobs, p) /\ Expected[j] = Found(p)[i]
      BY <1>1, <2>1, ExpectedIs DEF IsJob
    <2>3. Found(p)[i] # Throws
      BY <1>3, <2>2 DEF Fine
    <2>4. PICK m, f : m = mpi_map_chunks(Jobs)[p] /\ f = Found(p)
      OBVIOUS
    <2>5. f \in Seq(Nat) /\ Len(f) = m /\ i \in 1 .. m
      BY <1>3, <2>2, <2>4, FoundIs
    <2>6. f[i] \in Nat
      BY <2>5, ElementOfSeq
    <2> QED
      BY <2>2, <2>3, <2>4, <2>6
  <1>4. Len(Expected) = Jobs
    <2>1. PICK S : S = {Expected[j] : j \in 1 .. Jobs}
      OBVIOUS
    <2>2. Expected \in [1 .. Jobs -> S]
      BY <2>1 DEF Expected
    <2> QED
      BY <1>1, <2>2, SeqOfFunction
  <1>5. ASSUME \A p \in Rank : Fine(p)
        PROVE  Expected \in Seq(Nat)
    <2>1. Expected \in [1 .. Jobs -> Nat]
      BY <1>3, <1>5 DEF Expected
    <2> QED
      BY <1>1, <2>1, SeqOfFunction
  <1> QED
    BY <1>2, <1>3, <1>4, <1>5 DEF AllFine

\* The columns of a job.
LEMMA ColumnsAre ==
  ASSUME NEW j \in Nat, NEW n \in Nat
  PROVE  ColumnsOf(j, n) \in Seq(Nat \X Nat) /\ Len(ColumnsOf(j, n)) = n
  <1>1. PICK f : f = ColumnsOf(j, n)
    OBVIOUS
  <1>2. f \in [1 .. n -> Nat \X Nat]
    BY <1>1 DEF ColumnsOf
  <1> QED
    BY <1>1, <1>2, SeqOfFunction

LEMMA OutputsAre ==
  ASSUME request \in Requests, NEW p \in Rank, Fine(p)
  PROVE  /\ OutputsOf(p) \in Seq(Nat \X Nat)
         /\ Len(OutputsOf(p)) = SumFunction(Found(p))
  <1>1. PICK f, m : f = Found(p) /\ m = mpi_map_chunks(Jobs)[p]
    OBVIOUS
  <1>2. f \in Seq(Nat) /\ Len(f) = m /\ DOMAIN Slice(Jobs, p) = 1 .. m /\ Jobs \in Nat
    BY <1>1, FoundIs, RequestIs
  <1>3. ASSUME NEW i \in 1 .. Len(f)
        PROVE  ColumnsAt(p)[i] \in Seq(Nat \X Nat) /\ Len(ColumnsAt(p)[i]) = f[i]
    <2>1. PICK j : j = Slice(Jobs, p)[i]
      OBVIOUS
    <2>2. j \in Nat /\ f[i] \in Nat
      BY <1>2, <1>3, <2>1, SliceIs, ElementOfSeq
    <2>3. ColumnsAt(p)[i] = ColumnsOf(j, f[i])
      BY <1>1, <1>2, <1>3, <2>1 DEF ColumnsAt
    <2> QED
      BY <2>2, <2>3, ColumnsAre
  <1>4. Len(Flat(ColumnsAt(p), Len(f))) = SumFunction(f)
        /\ Flat(ColumnsAt(p), Len(f)) \in Seq(Nat \X Nat)
    BY <1>2, <1>3, FlatLength
  <1> QED
    BY <1>1, <1>4 DEF OutputsOf

(* Chunks of all processes, one after the other.                             *)
CollectsSizes == \A w \in Workers : Collected(w) = Found(w)
CollectsOutputs == \A w \in Workers : Collected(w) = OutputsOf(w)

LEMMA SizesGathered ==
  ASSUME request \in Requests, AllFine, CollectsSizes
  PROVE  Gathered(Found(Root)) = Expected
  <1>1. PICK c, n : c = mpi_map_chunks(Jobs) /\ n = Jobs
    OBVIOUS
  <1>2. n \in Nat /\ c \in [Rank -> Nat] /\ n = SumFunction(c)
    BY <1>1, RequestIs, ChunksAre, ChunksSum
  <1>3. PICK b : b = [j \in 1 .. n |-> <<Expected[j]>>]
    OBVIOUS
  <1>4. PICK x : x = [p \in Rank |-> [i \in 1 .. c[p] |-> <<Found(p)[i]>>]]
    OBVIOUS
  <1>5. PICK o, own : o = [r \in 1 .. WorldSize |-> Found(r - 1)] /\ own = Found(Root)
    OBVIOUS
  <1>6. Expected \in Seq(Nat) /\ Len(Expected) = n
    BY <1>1, AllAreFine
  <1>7. \A j \in 1 .. n : b[j] = <<Expected[j]>> /\ b[j] \in Seq(Nat)
    <2> TAKE j \in 1 .. n
    <2>1. Expected[j] \in Nat
      BY <1>6, ElementOfSeq
    <2> QED
      BY <1>3, <2>1
  <1>8. \A p \in Rank : o[p + 1] = Found(p)
    <2> TAKE p \in Rank
    <2>1. p + 1 \in 1 .. WorldSize /\ (p + 1) - 1 = p
      BY ClusterAssumption DEF Rank
    <2> QED
      BY <1>5, <2>1
  <1>20. ASSUME NEW p \in Rank
        PROVE  /\ o[p + 1] = Flat(x[p], c[p])
               /\ \A i \in 1 .. c[p] : x[p][i] = b[FirstJob(c, p) + i]
    <2>1. PICK f, y, m : f = Found(p) /\ y = x[p] /\ m = c[p]
      OBVIOUS
    <2>2. f \in Seq(Nat) /\ Len(f) = m /\ \A i \in 1 .. m : y[i] = <<f[i]>>
      BY <1>1, <1>4, <2>1, FoundIs DEF AllFine
    <2>3. Flat(y, m) = f
      BY <2>2, FlatSingles
    <2>4. ASSUME NEW i \in 1 .. m
          PROVE  y[i] = b[FirstJob(c, p) + i]
      <3>0. Jobs \in Nat /\ i \in 1 .. mpi_map_chunks(Jobs)[p]
        BY <1>1, <2>1, RequestIs
      <3>1. PICK j : JobAt(p, i, j)
        BY <3>0, JobIsThere
      <3>2. j = FirstJob(c, p) + i /\ j \in 1 .. n /\ Expected[j] = f[i]
        BY <1>1, <2>1, <3>1 DEF JobAt
      <3>3. b[j] = <<f[i]>>
        BY <1>7, <3>2
      <3> QED
        BY <2>2, <3>2, <3>3
    <2> QED
      BY <1>8, <2>1, <2>3, <2>4
  <1>9. AreSeqs(b, n, Nat) /\ RanksShare(o, x, b, c)
    BY <1>7, <1>20 DEF AreSeqs, RanksShare
  <1>10. Flat(o, WorldSize) = Flat(b, n) /\ RanksHave(o, Nat)
    BY <1>2, <1>9, FlatRanks
  <1>11. Flat(b, n) = Expected
    BY <1>6, <1>7, FlatSingles
  <1>12. o[1] = own /\ RootCollects(o)
    <2>1. 0 \in Rank /\ 0 + 1 = 1 /\ \A w \in Workers : w \in Rank
      BY RootIsNoWorker DEF Root
    <2> QED
      BY <1>5, <1>8, <2>1, Zenon DEF Root, CollectsSizes, RootCollects
  <1>13. Gathered(own) = Flat(o, WorldSize)
    BY <1>10, <1>12, GatheredIs
  <1> QED
    BY <1>5, <1>10, <1>11, <1>13

LEMMA OutputsGathered ==
  ASSUME request \in Requests, AllFine, CollectsOutputs
  PROVE  Gathered(OutputsOf(Root)) = AllOutputs
  <1>1. PICK c, n, S : c = mpi_map_chunks(Jobs) /\ n = Jobs /\ S = Nat \X Nat
    OBVIOUS
  <1>2. n \in Nat /\ c \in [Rank -> Nat] /\ n = SumFunction(c)
    BY <1>1, RequestIs, ChunksAre, ChunksSum
  <1>3. PICK x : x = [p \in Rank |-> ColumnsAt(p)]
    OBVIOUS
  <1>4. PICK o, own : /\ o = [r \in 1 .. WorldSize |-> OutputsOf(r - 1)]
                      /\ own = OutputsOf(Root)
    OBVIOUS
  <1>5. Expected \in Seq(Nat) /\ Len(Expected) = n
    BY <1>1, AllAreFine
  <1>6. \A j \in 1 .. n : AllColumns[j] \in Seq(S)
    <2> TAKE j \in 1 .. n
    <2>1. PICK e : e = Expected[j]
      OBVIOUS
    <2>2. e \in Nat /\ j \in Nat
      BY <1>5, <2>1, ElementOfSeq
    <2>3. AllColumns[j] = ColumnsOf(j, e)
      BY <1>1, <2>1 DEF AllColumns
    <2> QED
      BY <1>1, <2>2, <2>3, ColumnsAre
  <1>7. \A p \in Rank : o[p + 1] = OutputsOf(p)
    <2> TAKE p \in Rank
    <2>1. p + 1 \in 1 .. WorldSize /\ (p + 1) - 1 = p
      BY ClusterAssumption DEF Rank
    <2> QED
      BY <1>4, <2>1
  <1>12. ASSUME NEW p \in Rank
        PROVE  /\ o[p + 1] = Flat(x[p], c[p])
               /\ \A i \in 1 .. c[p] : x[p][i] = AllColumns[FirstJob(c, p) + i]
    <2>1. Len(Found(p)) = c[p]
      BY <1>1, FoundIs
    <2>2. x[p] = ColumnsAt(p)
      BY <1>3
    <2>3. OutputsOf(p) = Flat(x[p], c[p])
      BY <2>1, <2>2 DEF OutputsOf
    <2>4. ASSUME NEW i \in 1 .. c[p]
          PROVE  ColumnsAt(p)[i] = AllColumns[FirstJob(c, p) + i]
      <3>0. Jobs \in Nat /\ i \in 1 .. mpi_map_chunks(Jobs)[p]
        BY <1>1, RequestIs
      <3>1. PICK j : JobAt(p, i, j)
        BY <3>0, JobIsThere
      <3> QED
        BY <1>1, <3>1 DEF JobAt
    <2> QED
      BY <1>7, <2>2, <2>3, <2>4
  <1>8. AreSeqs(AllColumns, n, S) /\ RanksShare(o, x, AllColumns, c)
    BY <1>6, <1>12 DEF AreSeqs, RanksShare
  <1>9. Flat(o, WorldSize) = Flat(AllColumns, n) /\ RanksHave(o, S)
    BY <1>2, <1>8, FlatRanks
  <1>10. o[1] = own /\ RootCollects(o)
    <2>1. 0 \in Rank /\ 0 + 1 = 1 /\ \A w \in Workers : w \in Rank
      BY RootIsNoWorker DEF Root
    <2> QED
      BY <1>4, <1>7, <2>1, Zenon DEF Root, CollectsOutputs, RootCollects
  <1>11. Gathered(own) = Flat(o, WorldSize)
    BY <1>9, <1>10, GatheredIs
  <1> QED
    BY <1>1, <1>4, <1>9, <1>11 DEF AllOutputs

(* The sizes are as they were on every process if and only if they all are.  *)
RootHasSizes ==
  /\ cache[Root]["f_out"] \in Seq(Nat) /\ Len(cache[Root]["f_out"]) = Jobs
  /\ cache[Root]["chunks"] = mpi_map_chunks(Jobs)

LEMMA SizesCompared ==
  ASSUME request \in Requests, AllFine, RootHasSizes
  PROVE  cache[Root]["f_out"] = Expected
           <=> \A p \in Rank : Found(p) = SizesOf(Root, p)
  <1>1. PICK c, n, h : c = mpi_map_chunks(Jobs) /\ n = Jobs /\ h = cache[Root]["f_out"]
            /\ c = cache[Root]["chunks"]
    BY DEF RootHasSizes
  <1>2. n \in Nat /\ c \in [Rank -> Nat] /\ n = SumFunction(c)
    BY <1>1, RequestIs, ChunksAre, ChunksSum
  <1>3. Expected \in Seq(Nat) /\ Len(Expected) = n /\ h \in Seq(Nat) /\ Len(h) = n
    BY <1>1, AllAreFine DEF RootHasSizes
  <1>4. ASSUME h = Expected, NEW p \in Rank
        PROVE  Found(p) = SizesOf(Root, p)
    <2>1. PICK f, m, r : f = FirstJob(c, p) /\ m = c[p] /\ r = Found(p)
      OBVIOUS
    <2>2. f \in Nat /\ r \in Seq(Nat) /\ m = Len(r)
      BY <1>1, <1>2, <2>1, FirstJobBound, FoundIs DEF AllFine
    <2>3. \A k \in 1 .. m : h[f + k] = r[k]
      <3> TAKE k \in 1 .. m
      <3>0. Jobs \in Nat /\ k \in 1 .. mpi_map_chunks(Jobs)[p]
        BY <1>1, <2>1, RequestIs
      <3>1. PICK j : JobAt(p, k, j)
        BY <3>0, JobIsThere
      <3>2. j = f + k /\ Expected[j] = r[k]
        BY <1>1, <2>1, <3>1 DEF JobAt
      <3> QED
        BY <1>4, <3>2
    <2>4. SubSeq(h, f + 1, f + m) = r
      BY <2>2, <2>3, SliceOfSequence
    <2> QED
      BY <1>1, <2>1, <2>4 DEF SizesOf
  <1>5. ASSUME \A p \in Rank : Found(p) = SizesOf(Root, p)
        PROVE  h = Expected
    <2>1. ASSUME NEW j \in 1 .. n
          PROVE  h[j] = Expected[j]
      <3>1. PICK p, i : IsJob(Jobs, p, i, j)
        BY <1>1, <1>2, JobHasOwner
      <3>2. PICK f, m, r : f = FirstJob(c, p) /\ m = c[p] /\ r = Found(p)
        OBVIOUS
      <3>0. p \in Rank /\ i \in 1 .. m /\ j = f + i
        BY <1>1, <3>1, <3>2 DEF IsJob
      <3>8. Expected[j] = r[i]
        BY <3>1, <3>2, RequestIs, ExpectedIs
      <3>9. f \in Nat /\ m \in Nat /\ f + m <= n
        BY <1>2, <3>0, <3>2, FirstJobBound
      <3>3. /\ p \in Rank /\ i \in 1 .. m /\ j = f + i /\ Expected[j] = r[i]
            /\ f \in Nat /\ m \in Nat /\ f + m <= n
        BY <3>0, <3>8, <3>9
      <3>4. r = SubSeq(h, f + 1, f + m)
        BY <1>1, <1>5, <3>2, <3>3 DEF SizesOf
      <3>5. PICK a, b : a = f + 1 /\ b = f + m
        OBVIOUS
      <3>6. /\ a \in Int /\ b \in Int /\ i \in 1 .. b - a + 1 /\ a + i - 1 = j
            /\ \A k \in a .. b : h[k] \in Nat
        <4>1. a \in Int /\ b \in Int /\ i \in 1 .. b - a + 1 /\ a + i - 1 = j
          BY <3>3, <3>5
        <4>2. \A k \in a .. b : k \in 1 .. n
          BY <1>2, <3>3, <3>5
        <4> QED
          BY <1>3, <4>1, <4>2, ElementOfSeq
      <3>7. SubSeq(h, a, b)[i] = h[a + i - 1]
        BY <3>6, SubSeqProperties
      <3> QED
        BY <3>3, <3>4, <3>5, <3>6, <3>7
    <2> QED
      BY <1>3, <2>1, SeqEqual
  <1> QED
    BY <1>1, <1>4, <1>5

-----------------------------------------------------------------------------
(***************************************************************************)
(* What a process hands over.                                              *)
(***************************************************************************)

LEMMA CallOfProcess ==
  ASSUME CInv, NEW p \in Rank, InCall(p), at[p] \notin Idle \cup {"command"}
  PROVE  at[Root] \notin Idle /\ request \in Requests
  <1>1. at[Root] \notin Idle
    <2>1. CASE p = Root
      BY <2>1
    <2>2. CASE p # Root
      BY <2>2, NobodyEver, RootFacts DEF InCall
    <2> QED
      BY <2>1, <2>2
  <1> QED
    BY <1>1, RootRequest

\* At the results a process has what it takes.
ReadyToAnswer(p) ==
  /\ request \in Requests /\ local[p].shared = "given"
  /\ local[p].job_params = Slice(Jobs, p) /\ local[p].f_out = Found(p)
  /\ {"x_r", "x_i"} \subseteq DOMAIN cache[p]
  /\ cache[p]["x_r"] = Slice(Jobs, p) /\ cache[p]["x_i"] = Slice(Jobs, p)
  /\ SizesOf(p, p) = Found(p)
  /\ num_outputs_per_job_[p][local[p].kind] = 1

LEMMA ReadyThen ==
  ASSUME CInv, Rows, JobsFit, NEW p \in Rank, DataKnown(p), WorkKnown(p),
         InCall(p), at[p] = "results", Agrees(p)
  PROVE  ReadyToAnswer(p)
  <1>1. request \in Requests /\ Total = Jobs
    BY CallOfProcess, CallFits DEF Idle
  <1>2. /\ local[p].shared = "given" /\ local[p].job_params = Slice(Jobs, p)
        /\ local[p].f_out = Found(p)
    BY DEF WorkKnown, WithShared, WithJobs, WithSizes, Agrees
  <1>3. CacheOK(p) /\ num_outputs_per_job_ \in [Rank -> [Kinds -> {-1, 0, 1}]]
    BY ProcessFacts
  <1>4. {"x_r", "x_i"} \subseteq DOMAIN cache[p]
    BY <1>3 DEF CacheOK, Warm, CachedSteps, Earlier, Setup
  <1>5. cache[p]["x_r"] = Slice(Jobs, p) /\ cache[p]["x_i"] = Slice(Jobs, p)
    BY <1>1, <1>4 DEF DataKnown
  <1>6. num_outputs_per_job_[p][local[p].kind] = 1
    <2>1. local[p].kind \in Kinds /\ ~FirstEvaluation(p)
      BY <1>3 DEF CacheOK, UpSteps
    <2>2. num_outputs_per_job_[p][local[p].kind] # 0
      BY <2>1 DEF Rows, RowsKnown
    <2> QED
      BY <1>3, <2>1, <2>2 DEF FirstEvaluation
  <1> QED
    BY <1>1, <1>2, <1>4, <1>5, <1>6 DEF ReadyToAnswer, Agrees

LEMMA LocalOutputIs ==
  ASSUME NEW p \in Rank, ReadyToAnswer(p), Fine(p)
  PROVE  LocalOutput(p) = OutputsOf(p)
  <1>1. PICK f, m, s : /\ f = Found(p) /\ m = mpi_map_chunks(Jobs)[p]
                       /\ s = Slice(Jobs, p)
    OBVIOUS
  <1>2. /\ f \in Seq(Nat) /\ Len(f) = m /\ DOMAIN s = 1 .. m /\ DOMAIN f = 1 .. m
        /\ local[p].f_out = f /\ \A i \in 1 .. m : f[i] \in Nat
    <2>1. f \in Seq(Nat) /\ Len(f) = m /\ DOMAIN s = 1 .. m /\ DOMAIN f = 1 .. m
          /\ local[p].f_out = f
      BY <1>1, FoundIs DEF ReadyToAnswer
    <2> QED
      BY <2>1, ElementOfSeq
  <1>3. ASSUME NEW i \in 1 .. m, NEW k
        PROVE  OutputOf(p, i, k) = <<s[i], k>>
    BY <1>1, <1>2 DEF OutputOf, MyJobs, ReadyToAnswer
  <1>4. \A i \in 1 .. m : ColumnsAt(p)[i] = [k \in 1 .. f[i] |-> <<s[i], k>>]
    BY <1>1, <1>2 DEF ColumnsAt, ColumnsOf
  <1>5. PICK t : t = [i \in 1 .. m |-> ColumnsAt(p)[i]]
    OBVIOUS
  <1>6. LocalOutput(p) = FlattenSeq(t)
    <2>1. PICK u : u = [i \in 1 .. m |-> IF f[i] = -1 THEN <<>>
                                        ELSE [k \in 1 .. f[i] |-> OutputOf(p, i, k)]]
      OBVIOUS
    <2>2. LocalOutput(p) = FlattenSeq(u)
      BY <1>2, <2>1 DEF LocalOutput
    <2>3. \A i \in 1 .. m : u[i] = t[i]
      <3> TAKE i \in 1 .. m
      <3>1. f[i] # -1
        BY <1>2
      <3>2. u[i] = [k \in 1 .. f[i] |-> OutputOf(p, i, k)]
        BY <2>1, <3>1
      <3> QED
        BY <1>3, <1>4, <1>5, <3>2
    <2>4. u = t
      BY <1>5, <2>1, <2>3
    <2> QED
      BY <2>2, <2>4
  <1> QED
    BY <1>1, <1>2, <1>5, <1>6 DEF OutputsOf, Flat

LEMMA LocalResultIs ==
  ASSUME NEW p \in Rank, ReadyToAnswer(p), Fine(p)
  PROVE  LocalResult(p) = OutputsOf(p)
  <1>1. PICK n, s : n = ChunkResult(p, p) /\ s = OutputsOf(p)
    OBVIOUS
  <1>2. Found(p) \in Seq(Nat) /\ request \in Requests
    BY FoundIs DEF ReadyToAnswer
  <1>3. SumFunction(Found(p)) \in Nat
    BY <1>2, SumOfSequence
  <1>4. n = SumFunction(Found(p))
    BY <1>1, <1>3 DEF ChunkResult, ReadyToAnswer
  <1>5. s \in Seq(Nat \X Nat) /\ Len(s) = n
    BY <1>1, <1>2, <1>4, OutputsAre
  <1>6. LocalOutput(p) = s
    BY <1>1, LocalOutputIs
  <1>7. LocalResult(p) = [k \in 1 .. n |-> IF k <= n THEN s[k] ELSE Junk]
    BY <1>1, <1>5, <1>6 DEF LocalResult
  <1>8. DOMAIN s = 1 .. n /\ n \in Nat
    BY <1>5, LenProperties
  <1>9. s = [k \in 1 .. n |-> s[k]]
    <2>1. s = [k \in DOMAIN s |-> s[k]]
      BY <1>5
    <2> QED
      BY <1>8, <2>1
  <1> QED
    BY <1>1, <1>7, <1>8, <1>9

LEMMA AnswerIs ==
  ASSUME CInv, Rows, JobsFit, NEW p \in Rank, DataKnown(p), WorkKnown(p),
         InCall(p), at[p] = "results"
  PROVE  Agrees(p) => LocalResult(p) = OutputsOf(p)
  BY ReadyThen, LocalResultIs DEF Agrees
(***************************************************************************)
(* What the workers answer.                                                *)
(***************************************************************************)

AnswersAreAwaited ==
  \A w \in Workers : up[w] # <<>> => at[Root] \notin Idle \cup {"command"}

LEMMA UpEver ==
  CInv => AnswersAreAwaited
  <1> SUFFICES ASSUME CInv, NEW w \in Workers, up[w] # <<>>
               PROVE  at[Root] \notin Idle \cup {"command"}
    BY DEF AnswersAreAwaited
  <1>1. IsQueue(up[w], UpSteps) /\ InStep(w) /\ Typed
    BY WorkerFacts DEF QueuesTyped
  <1>2. Place(Root) \in UpSteps
    BY <1>1, UpPlace
  <1> QED
    BY <1>2 DEF Place, Idle, UpSteps

LEMMA RequestOfAnswers ==
  ASSUME CInv, CInv', [Next]_vars, NEW w \in Workers, up'[w] # <<>>
  PROVE  request' = request
  <1>1. (CInv => AnswersAreAwaited)'
    BY UpEver, PTL
  <1>2. at'[Root] \notin Idle \cup {"command"}
    BY <1>1 DEF AnswersAreAwaited
  <1> QED
    BY <1>2, EveryoneSteps DEF RequestChanges, Ends, Idle

LEMMA SameOutputs ==
  ASSUME request' = request, NEW p
  PROVE  OutputsOf(p)' = OutputsOf(p)
  <1>1. Jobs' = Jobs /\ Found(p)' = Found(p)
    BY SameFindings
  <1> QED
    BY <1>1 DEF OutputsOf, ColumnsAt, Flat

\* What an answer says.
IsAnswer(m, w) ==
  /\ m.step = "ok" => (m.load <=> Fine(w))
  /\ m.step = "f_out" => Fine(w) /\ m.load = Found(w)
  /\ m.step = "results" => (Agrees(w) => m.load = OutputsOf(w))
  /\ m.step = "status" => (m.load <=> Agrees(w))

LEMMA OldAnswer ==
  ASSUME CInv, CInv', [Next]_vars, NEW w \in Workers, NEW m, IsAnswer(m, w),
         In(m, up[w]), up'[w] # <<>>
  PROVE  IsAnswer(m, w)'
  <1>1. w \in Rank /\ w # Root /\ Steps(w) /\ Typed /\ InStep(w) /\ IsQueue(up[w], UpSteps)
    BY EveryoneSteps, WorkerFacts DEF QueuesTyped
  <1>2. up[w] # <<>>
    BY <1>1, QueueFacts DEF In
  <1>3. Place(w) \in {"all_ok", "results", "status", "command"}
    BY <1>1, <1>2, UpPlace
  <1>4. at[w] \notin Setup \cup {"f_out", "outputs_per_job"}
    BY <1>3 DEF Place, Idle, Setup
  <1>5. SameCache(w)
    BY <1>1, <1>4, QuietCache
  <1>6. SizesOf(w, w)' = SizesOf(w, w)
    BY <1>5 DEF SameCache, SizesOf
  <1>7. request' = request
    BY RequestOfAnswers
  <1>8. /\ Fine(w)' <=> Fine(w)
        /\ Found(w)' = Found(w) /\ OutputsOf(w)' = OutputsOf(w)
        /\ Agrees(w)' <=> Agrees(w)
    BY <1>6, <1>7, SameFindings, SameOutputs
  <1> QED
    BY <1>8 DEF IsAnswer

LEMMA NewAnswer ==
  ASSUME CInv, CInv', Rows, OksAgree, Shares, JobsFit, [Next]_vars, NEW w \in Workers,
         DataKnown(w), WorkKnown(w), NEW m, Given(m, w), up'[w] # <<>>
  PROVE  IsAnswer(m, w)'
  <1>1. w \in Rank /\ w # Root /\ OkKnown(w)
    BY WorkerFacts DEF OksAgree
  <1>2. request' = request
    BY RequestOfAnswers
  <1>3. /\ Fine(w)' <=> Fine(w)
        /\ Found(w)' = Found(w) /\ OutputsOf(w)' = OutputsOf(w)
        /\ SizesOf(w, w)' = SizesOf(w, w) => (Agrees(w)' <=> Agrees(w))
    BY <1>2, SameFindings, SameOutputs
  <1>4. CASE m.step = "ok"
    <2>1. at[w] = "ok" /\ m.load = local[w].ok
      BY <1>4 DEF Given, SendOk
    <2>2. InCall(w)
      BY <2>1 DEF InCall, InTheCall, UpSteps
    <2>3. m.load <=> Fine(w)
      BY <2>1, <2>2 DEF WorkKnown, WithSizes
    <2> QED
      BY <1>3, <1>4, <2>3 DEF IsAnswer
  <1>5. CASE m.step = "f_out"
    <2>1. at[w] = "f_out" /\ m.load = local[w].f_out
      BY <1>5 DEF Given, SendSizes
    <2>2. InCall(w)
      BY <2>1 DEF InCall, InTheCall, UpSteps
    <2>3. Fine(w) /\ m.load = Found(w)
      BY <1>1, <2>1, <2>2 DEF WorkKnown, WithSizes, OkKnown
    <2> QED
      BY <1>3, <1>5, <2>3 DEF IsAnswer
  <1>6. CASE m.step = "results"
    <2>1. at[w] = "results" /\ m.load = LocalResult(w) /\ cache' = cache
      BY <1>6 DEF Given, SendResults
    <2>2. InCall(w)
      BY <2>1 DEF InCall, InTheCall, UpSteps
    <2>3. Agrees(w) => m.load = OutputsOf(w)
      BY <1>1, <2>1, <2>2, AnswerIs
    <2>4. SizesOf(w, w)' = SizesOf(w, w)
      BY <2>1 DEF SizesOf
    <2> QED
      BY <1>3, <1>6, <2>3, <2>4 DEF IsAnswer
  <1>7. CASE m.step = "status"
    <2>1. at[w] = "status" /\ m.load = local[w].ok /\ cache' = cache
      BY <1>7 DEF Given, SendStatus
    <2>2. InCall(w)
      BY <2>1 DEF InCall, InTheCall, UpSteps
    <2>3. m.load <=> Agrees(w)
      BY <2>1, <2>2 DEF WorkKnown
    <2>4. SizesOf(w, w)' = SizesOf(w, w)
      BY <2>1 DEF SizesOf
    <2> QED
      BY <1>3, <1>7, <2>3, <2>4 DEF IsAnswer
  <1> QED
    BY <1>4, <1>5, <1>6, <1>7 DEF Given

LEMMA AnswersKnownKept ==
  ASSUME CInv, CInv', Rows, OksAgree, Shares, JobsFit, [Next]_vars, NEW w \in Workers,
         DataKnown(w), WorkKnown(w), AnswersKnown(w)
  PROVE  AnswersKnown(w)'
  <1>1. ASSUME NEW i \in 1 .. Len(up'[w]), up'[w] # <<>>
        PROVE  IsAnswer(up[w][i], w)'
    <2>1. PICK m : m = up'[w][i]
      OBVIOUS
    <2>2. CASE In(m, up[w])
      <3>1. IsAnswer(m, w)
        BY <2>2 DEF In, AnswersKnown, IsAnswer
      <3>2. IsAnswer(m, w)'
        BY <1>1, <2>2, <3>1, OldAnswer
      <3> QED
        BY <2>1, <3>2
    <2>3. CASE Given(m, w)
      <3>1. IsAnswer(m, w)'
        BY <1>1, <2>3, NewAnswer
      <3> QED
        BY <2>1, <3>1
    <2> QED
      BY <2>1, <2>2, <2>3, MessagesAreKnown DEF UpIsKnown
  <1>2. up'[w] = <<>> => Len(up'[w]) = 0
    BY QueueEmpty
  <1>3. \A i \in 1 .. Len(up'[w]) : IsAnswer(up[w][i], w)'
    BY <1>1, <1>2
  <1> QED
    BY <1>3 DEF AnswersKnown, IsAnswer

(***************************************************************************)
(* What the root makes of it.                                              *)
(***************************************************************************)

LEMMA SameExpected ==
  ASSUME request' = request
  PROVE  /\ Expected' = Expected /\ AllOutputs' = AllOutputs /\ (AllFine' <=> AllFine)
  <1>1. Jobs' = Jobs
    BY DEF Jobs
  <1>2. \A p : Fine(p)' <=> Fine(p)
    BY SameFindings
  <1>3. Expected' = Expected
    BY <1>1 DEF Expected, Outcome, Owner
  <1>4. AllOutputs' = AllOutputs
    BY <1>1, <1>3 DEF AllOutputs, AllColumns, Flat
  <1> QED
    BY <1>2, <1>3, <1>4 DEF AllFine

LEMMA RequestOfRoot ==
  ASSUME CInv, [Next]_vars, at'[Root] \notin {"held", "command"}
  PROVE  request' = request
  BY EveryoneSteps DEF RequestChanges, Ends

LEMMA CollectedAnswer ==
  ASSUME CInv, NEW w \in Workers, AnswersKnown(w), NEW step, AllArrived(step)
  PROVE  /\ step = "ok" => (Collected(w) <=> Fine(w))
         /\ step = "f_out" => Fine(w) /\ Collected(w) = Found(w)
         /\ step = "results" => (Agrees(w) => Collected(w) = OutputsOf(w))
         /\ step = "status" => (Collected(w) <=> Agrees(w))
  <1>1. /\ up[w] # <<>> /\ up[w][1].step = step /\ Collected(w) = up[w][1].load
        /\ 1 \in 1 .. Len(up[w])
    BY WorkerFacts, UpPlace DEF AllArrived, Collected
  <1> QED
    BY <1>1 DEF AnswersKnown

\* Whether all jobs went well.
LEMMA AllOkKept ==
  ASSUME CInv, [Next]_vars, WorkKnown(Root), \A w \in Workers : AnswersKnown(w),
         at[Root] = "all_ok" => (local[Root].all_ok <=> AllFine),
         at'[Root] = "all_ok"
  PROVE  local'[Root].all_ok <=> AllFine'
  <1>1. Root \in Rank /\ Steps(Root) /\ Workers = Rank \ {Root}
    BY EveryoneSteps, RootFacts
  <1>2. request' = request
    BY RequestOfRoot
  <1>3. AllFine' <=> AllFine
    BY <1>2, SameExpected
  <1>4. CASE Rests(Root)
    BY <1>3, <1>4 DEF Rests
  <1>5. CASE Goes(Root)
    <2>1. at[Root] = "ok" /\ CollectOk
      BY <1>5 DEF Goes, Idle
    <2>2. PICK ok : ok = AllOk(local[Root].ok) /\ local' = [local EXCEPT ![Root].all_ok = ok]
      BY <2>1 DEF CollectOk
    <2>3. local'[Root].all_ok = ok
      BY <1>1, <2>2, ProcessFacts DEF LocalFields
    <2>4. local[Root].ok <=> Fine(Root)
      BY <2>1 DEF WorkKnown, WithSizes, InCall
    <2>5. \A w \in Workers : Collected(w) <=> Fine(w)
      BY <2>1, CollectedAnswer DEF CollectOk
    <2>6. ok <=> AllFine
      BY <1>1, <2>2, <2>4, <2>5 DEF AllOk, AllFine
    <2> QED
      BY <1>3, <2>3, <2>6
  <1>6. ~Ends(Root) /\ ~KeepsSizes(Root) /\ ~Answers(Root)
    BY DEF Ends, KeepsSizes, Answers
  <1>7. ~Takes(Root)
    BY <1>1, TakesEffect DEF Takes, Setup
  <1>8. ~Evaluate(Root) /\ ~Learns(Root)
    BY <1>1, EvaluateEffect, LearnsEffect
  <1> QED
    BY <1>1, <1>4, <1>5, <1>6, <1>7, <1>8 DEF Steps

LEMMA AllFineKept ==
  ASSUME CInv, [Next]_vars,
         at[Root] = "all_ok" => (local[Root].all_ok <=> AllFine),
         at[Root] \in {"outputs_per_job", "f_out"} => AllFine,
         at'[Root] \in {"outputs_per_job", "f_out"}
  PROVE  AllFine'
  <1>1. Root \in Rank /\ Steps(Root)
    BY EveryoneSteps, RootFacts
  <1>2. request' = request
    BY RequestOfRoot
  <1>3. AllFine' <=> AllFine
    BY <1>2, SameExpected
  <1>4. CASE Rests(Root)
    BY <1>3, <1>4 DEF Rests
  <1>5. CASE Goes(Root)
    BY <1>3, <1>5 DEF Goes, Idle
  <1>6. CASE Learns(Root)
    BY <1>3, <1>6 DEF Learns
  <1>7. ~Ends(Root) /\ ~KeepsSizes(Root) /\ ~Answers(Root)
    BY DEF Ends, KeepsSizes, Answers
  <1>8. ~Takes(Root)
    BY <1>1, TakesEffect DEF Takes, Setup
  <1>9. ~Evaluate(Root)
    BY <1>1, EvaluateEffect
  <1> QED
    BY <1>1, <1>4, <1>5, <1>6, <1>7, <1>8, <1>9 DEF Steps

LEMMA RootStores ==
  ASSUME CInv, NEW all, Store(Root, "f_out", all)
  PROVE  cache'[Root]["f_out"] = all
  <1>1. Root \in Rank /\ DOMAIN cache = Rank
    BY RootFacts, ProcessFacts
  <1> QED
    BY <1>1, StoreEffect

\* The sizes that the root keeps are those of the call.
LEMMA CollectSizesFinds ==
  ASSUME CInv, Shares, JobsFit, WorkKnown(Root), \A w \in Workers : AnswersKnown(w),
         at[Root] = "f_out" => AllFine, CollectSizes
  PROVE  /\ request \in Requests /\ Total = Jobs /\ AllFine
         /\ cache'[Root]["f_out"] = Expected
         /\ Expected \in Seq(Nat) /\ Len(Expected) = Jobs
         /\ "chunks" \in DOMAIN cache[Root]
  <1>1. at[Root] = "f_out" /\ AllArrived("f_out") /\ Root \in Rank
        /\ Store(Root, "f_out", Gathered(local[Root].f_out))
    BY RootFacts DEF CollectSizes
  <1>2. request \in Requests /\ Total = Jobs
    BY <1>1, CallFits DEF Idle
  <1>3. AllFine
    BY <1>1
  <1>4. local[Root].f_out = Found(Root)
    BY <1>1, <1>3 DEF WorkKnown, WithSizes, InCall, AllFine
  <1>5. CollectsSizes
    BY <1>1, CollectedAnswer DEF CollectsSizes
  <1>6. Gathered(Found(Root)) = Expected
    BY <1>2, <1>3, <1>5, SizesGathered
  <1>7. cache'[Root]["f_out"] = Expected
    <2>1. PICK all : all = Gathered(local[Root].f_out)
      OBVIOUS
    <2>2. Store(Root, "f_out", all)
      BY <1>1, <2>1
    <2>3. cache'[Root]["f_out"] = all
      BY <1>1, <2>2, RootStores
    <2> QED
      BY <1>4, <1>6, <2>1, <2>3
  <1>8. "chunks" \in DOMAIN cache[Root]
    BY <1>1, ChunksAreCut
  <1> QED
    BY <1>2, <1>3, <1>7, <1>8, AllAreFine

LEMMA RootSizesKept ==
  ASSUME CInv, Shares, JobsFit, [Next]_vars, WorkKnown(Root),
         \A w \in Workers : AnswersKnown(w), RootKnows, Sized(Root)'
  PROVE  cache'[Root]["f_out"] \in Seq(Nat) /\ Len(cache'[Root]["f_out"]) = Total'
  <1>1. Root \in Rank /\ Steps(Root)
    BY EveryoneSteps, RootFacts
  <1>2. CASE Sized(Root)
    <2>1. {"chunks", "f_out"} \subseteq DOMAIN cache[Root]
      BY <1>1, <1>2, SizedIsWarm
    <2>2. cache'[Root]["f_out"] = cache[Root]["f_out"]
      BY <1>1, <2>1, CacheKept
    <2>3. Total' = Total
      BY <2>1, TotalKept
    <2> QED
      BY <1>2, <2>2, <2>3 DEF RootKnows
  <1>3. CASE ~Sized(Root)
    <2>1. KeepsSizes(Root)
      BY <1>1, <1>3, CacheNew DEF Sized, CachedSteps
    <2>2. CollectSizes
      BY <2>1 DEF KeepsSizes
    <2>3. /\ cache'[Root]["f_out"] = Expected /\ Total = Jobs
          /\ Expected \in Seq(Nat) /\ Len(Expected) = Jobs
          /\ "chunks" \in DOMAIN cache[Root]
      BY <2>2, CollectSizesFinds DEF RootKnows
    <2>4. Total' = Total
      BY <2>3, TotalKept
    <2> QED
      BY <2>3, <2>4
  <1> QED
    BY <1>2, <1>3

\* The outputs that the root has gathered.
LEMMA RootResultKept ==
  ASSUME CInv, Rows, JobsFit, [Next]_vars, DataKnown(Root), WorkKnown(Root),
         \A w \in Workers : AnswersKnown(w),
         at[Root] = "status" => (AllAgree => local[Root].result = AllOutputs),
         at'[Root] = "status", AllAgree'
  PROVE  local'[Root].result = AllOutputs'
  <1>1. Root \in Rank /\ Steps(Root) /\ Workers = Rank \ {Root}
    BY EveryoneSteps, RootFacts
  <1>2. request' = request
    BY RequestOfRoot
  <1>3. AllOutputs' = AllOutputs
    BY <1>2, SameExpected
  <1>4. CASE Rests(Root)
    <2>1. at[Root] = "status" /\ local'[Root] = local[Root]
      BY <1>4 DEF Rests
    <2>2. \A p \in Rank : Agrees(p)
      <3> TAKE p \in Rank
      <3>1. CASE Steps(p) /\ Sized(p)
        <4>1. SizesOf(p, p)' = SizesOf(p, p)
          BY <3>1, SizesStay
        <4> QED
          BY <1>2, <4>1, SameFindings DEF AllAgree
      <3>2. Steps(p) /\ Sized(p)
        <4>1. Sized(Root)
          BY <2>1, RootFacts DEF CacheOK
        <4>2. p # Root => Sized(p)
          BY <1>1, <4>1, WorkerFacts DEF SameCaches
        <4> QED
          BY <4>1, <4>2, EveryoneSteps
      <3> QED
        BY <3>1, <3>2
    <2> QED
      BY <1>3, <2>1, <2>2 DEF AllAgree
  <1>5. CASE Answers(Root)
    <2>1. at[Root] = "results" /\ CollectResults
      BY <1>5 DEF Answers
    <2>2. AllArrived("results") /\ cache' = cache
      BY <2>1 DEF CollectResults
    <2>3. PICK ok, r : /\ local' = [local EXCEPT ![Root].ok = ok, ![Root].result = r]
                       /\ r = Gathered(LocalResult(Root))
      BY <2>1 DEF CollectResults
    <2>4. local'[Root].result = r
      BY <1>1, <2>3, ProcessFacts DEF LocalFields
    <2>5. \A p \in Rank : Agrees(p)
      <3> TAKE p \in Rank
      <3>1. SizesOf(p, p)' = SizesOf(p, p)
        BY <2>2 DEF SizesOf
      <3> QED
        BY <1>2, <3>1, SameFindings DEF AllAgree
    <2>6. LocalResult(Root) = OutputsOf(Root)
      BY <1>1, <2>1, <2>5, AnswerIs DEF InCall
    <2>7. CollectsOutputs
      BY <1>1, <2>2, <2>5, CollectedAnswer DEF CollectsOutputs
    <2>8. AllFine
      BY <2>5 DEF AllFine, Agrees
    <2>9. request \in Requests
      BY <2>1, RootRequest DEF Idle
    <2>10. Gathered(OutputsOf(Root)) = AllOutputs
      BY <2>7, <2>8, <2>9, OutputsGathered
    <2> QED
      BY <1>3, <2>3, <2>4, <2>6, <2>10
  <1>6. ~Ends(Root) /\ ~KeepsSizes(Root) /\ ~Goes(Root)
    BY DEF Ends, KeepsSizes, Goes, Idle
  <1>7. ~Takes(Root)
    BY <1>1, TakesEffect DEF Takes, Setup
  <1>8. ~Evaluate(Root) /\ ~Learns(Root)
    BY <1>1, EvaluateEffect, LearnsEffect
  <1> QED
    BY <1>1, <1>4, <1>5, <1>6, <1>7, <1>8 DEF Steps

LEMMA RootKnowsKept ==
  ASSUME CInv, Rows, Shares, JobsFit, [Next]_vars, DataKnown(Root), WorkKnown(Root),
         \A w \in Workers : AnswersKnown(w), RootKnows
  PROVE  RootKnows'
  <1>1. ASSUME at'[Root] = "all_ok" PROVE local'[Root].all_ok <=> AllFine'
    BY <1>1, AllOkKept DEF RootKnows
  <1>2. ASSUME at'[Root] \in {"outputs_per_job", "f_out"} PROVE AllFine'
    BY <1>2, AllFineKept DEF RootKnows
  <1>3. ASSUME Sized(Root)'
        PROVE  cache'[Root]["f_out"] \in Seq(Nat) /\ Len(cache'[Root]["f_out"]) = Total'
    BY <1>3, RootSizesKept
  <1>4. ASSUME at'[Root] = "status", AllAgree' PROVE local'[Root].result = AllOutputs'
    BY <1>4, RootResultKept DEF RootKnows
  <1> QED
    BY <1>1, <1>2, <1>3, <1>4 DEF RootKnows

(***************************************************************************)
(* What is found out holds throughout a run.                               *)
(***************************************************************************)

LEMMA WorkInit == Init => Work
  <1> SUFFICES ASSUME Init PROVE Work
    OBVIOUS
  <1>1. Root \in Rank /\ Workers \subseteq Rank /\ request = NoRequest
        /\ \A p \in Rank : cache[p] = <<>> /\ at[p] = "outside"
        /\ \A w \in Workers : down[w] = <<>> /\ up[w] = <<>>
    BY RootIsNoWorker DEF Init, ClusterInit
  <1>2. \A p \in Rank : DOMAIN cache[p] = {}
    BY <1>1
  <1>3. JobsFit
    BY <1>1, <1>2 DEF JobsFit
  <1>4. \A p \in Rank : DataKnown(p)
    BY <1>2 DEF DataKnown
  <1>5. \A p \in Rank : WorkKnown(p)
    BY <1>1 DEF WorkKnown, WithShared, WithJobs, WithSizes
  <1>6. \A w \in Workers : Len(down[w]) = 0 /\ Len(up[w]) = 0
    BY <1>1
  <1>7. \A w \in Workers : SetupKnown(w) /\ AnswersKnown(w)
    BY <1>6 DEF SetupKnown, AnswersKnown
  <1>8. RootKnows
    BY <1>1, <1>2 DEF RootKnows, Sized
  <1> QED
    BY <1>3, <1>4, <1>5, <1>7, <1>8 DEF Work

LEMMA WorkNext ==
  ASSUME OneSharedSize, IInv, IInv', Work, [Next]_vars
  PROVE  Work'
  <1>1. CInv /\ CInv' /\ Rows /\ OksAgree /\ Shares
    BY DEF IInv
  <1>2. /\ JobsFit /\ RootKnows
        /\ \A p \in Rank : DataKnown(p) /\ WorkKnown(p)
        /\ \A w \in Workers : SetupKnown(w) /\ AnswersKnown(w)
    BY DEF Work
  <1>3. Root \in Rank /\ Workers \subseteq Rank
    BY RootIsNoWorker
  <1>4. JobsFit'
    BY <1>1, <1>2, JobsFitKept
  <1>5. ASSUME NEW p \in Rank PROVE DataKnown(p)' /\ WorkKnown(p)'
    BY <1>1, <1>2, DataKnownKept, WorkKnownKept
  <1>6. ASSUME NEW w \in Workers PROVE SetupKnown(w)' /\ AnswersKnown(w)'
    BY <1>1, <1>2, <1>3, SetupKnownKept, AnswersKnownKept
  <1>7. RootKnows'
    BY <1>1, <1>2, <1>3, RootKnowsKept
  <1> QED
    BY <1>4, <1>5, <1>6, <1>7 DEF Work

LEMMA WorkInvariance ==
  ASSUME OneSharedSize
  PROVE  Spec => [](IInv /\ Work)
  <1>1. Init => Work
    BY WorkInit
  <1>2. IInv /\ IInv' /\ Work /\ [Next]_vars => Work'
    BY WorkNext
  <1> QED
    BY <1>1, <1>2, Invariance, PTL DEF Spec
-----------------------------------------------------------------------------
(***************************************************************************)
(* The call of the cluster is one step of MapReduce, and another when its  *)
(* first good evaluation fixes the sizes.                                  *)
(***************************************************************************)

\* What the cluster's state is in MapReduce.
FirstSizes == IF IsCached(Root, "f_out") THEN cache[Root]["f_out"] ELSE <<>>
Asked == IF request = NoRequest THEN NoRequest ELSE [request EXCEPT !.outcome = Results]

\* While a call is under way it asks for what becomes of its jobs.
IsAsked ==
  request # NoRequest =>
    /\ Asked # NoRequest /\ Asked.outcome = Expected
    /\ Asked = [request EXCEPT !.outcome = Expected]
    /\ request \in Requests /\ at[Root] \notin Idle

LEMMA CallIsAsked == CInv => IsAsked
  <1> SUFFICES ASSUME CInv, request # NoRequest
               PROVE  /\ Asked # NoRequest /\ Asked.outcome = Expected
                      /\ Asked = [request EXCEPT !.outcome = Expected]
                      /\ request \in Requests /\ at[Root] \notin Idle
    BY DEF IsAsked
  <1>1. request \in Requests /\ at[Root] \notin Idle
    BY RootFacts DEF RootOK
  <1>2. PICK n \in JobCounts :
          request \in [kind : Kinds, shared : SharedSizes, outcome : [1 .. n -> Outcomes]]
    BY <1>1 DEF Requests
  <1>3. Results = Expected
    BY <1>1, ResultsAreExpected
  <1>4. PICK e : e = Expected
    OBVIOUS
  <1>5. Asked = [request EXCEPT !.outcome = e]
    BY <1>3, <1>4 DEF Asked
  <1>6. Asked.outcome = e
    BY <1>2, <1>5
  <1>7. Len(e) = Jobs /\ Jobs # 0
    BY <1>1, <1>4, AllAreFine, CallHasJobs
  <1>8. Asked # NoRequest
    BY <1>6, <1>7 DEF NoRequest
  <1> QED
    BY <1>1, <1>4, <1>5, <1>6, <1>8

LEMMA AskedStays ==
  ASSUME CInv, CInv', request' = request
  PROVE  Asked' = Asked
  <1>1. (CInv => IsAsked)'
    BY CallIsAsked, PTL
  <1>2. IsAsked /\ IsAsked'
    BY <1>1, CallIsAsked
  <1>3. CASE request = NoRequest
    BY <1>3 DEF Asked
  <1>4. CASE request # NoRequest
    <2>1. Expected' = Expected
      BY SameExpected
    <2> QED
      BY <1>2, <1>4, <2>1 DEF IsAsked
  <1> QED
    BY <1>3, <1>4

LEMMA FirstSizesStay ==
  ASSUME CInv, [Next]_vars, ~CollectSizes
  PROVE  FirstSizes' = FirstSizes
  <1>1. Root \in Rank /\ Steps(Root)
    BY EveryoneSteps, RootFacts
  <1>2. CASE "f_out" \in DOMAIN cache[Root]
    BY <1>1, <1>2, CacheKept DEF FirstSizes, IsCached
  <1>3. CASE "f_out" \notin DOMAIN cache[Root]
    <2>1. "f_out" \notin DOMAIN cache'[Root]
      BY <1>1, <1>3, CacheNew DEF KeepsSizes, CachedSteps
    <2> QED
      BY <1>3, <2>1 DEF FirstSizes, IsCached
  <1> QED
    BY <1>2, <1>3

\* The root has its sizes as soon as it has some.
LEMMA FirstSizesAre ==
  ASSUME CInv, Rows, Shares, RootKnows
  PROVE  FirstSizes # <<>> <=> Sized(Root)
  <1>1. CASE Sized(Root)
    <2>1. Root \in Rank
      BY RootFacts
    <2>2. "chunks" \in DOMAIN cache[Root]
      BY <1>1, <2>1, SizedIsWarm
    <2>3. Total \in JobCounts
      BY <2>2 DEF Shares, ChunksKnown
    <2>4. Total # 0
      BY <2>3, CallAssumption
    <2>5. FirstSizes = cache[Root]["f_out"]
      BY <1>1 DEF FirstSizes, IsCached, Sized
    <2>6. Len(FirstSizes) = Total
      BY <1>1, <2>5 DEF RootKnows
    <2> QED
      BY <1>1, <2>4, <2>6
  <1>2. CASE ~Sized(Root)
    BY <1>2 DEF FirstSizes, IsCached, Sized
  <1> QED
    BY <1>1, <1>2

\* What an error and the outputs of all jobs are in MapReduce.
LEMMA PromiseIs ==
  ASSUME CInv, request # NoRequest
  PROVE  /\ MR!Succeeds(Asked.outcome) <=> AllFine
         /\ MR!Outputs(Asked.outcome) = Answer(AllOutputs)
         /\ Error = MR!Error
  <1>1. Asked.outcome = Expected /\ request \in Requests
    BY CallIsAsked DEF IsAsked
  <1>2. PICK e, n : e = Expected /\ n = Jobs
    OBVIOUS
  <1>3. Len(e) = n /\ (AllFine <=> \A j \in 1 .. n : e[j] # Throws)
    BY <1>1, <1>2, AllAreFine
  <1>4. MR!Succeeds(e) <=> AllFine
    BY <1>3 DEF MR!Succeeds
  <1>5. AllOutputs = FlattenSeq([j \in 1 .. n |-> ColumnsOf(j, e[j])])
    <2>1. AllColumns = [j \in 1 .. n |-> ColumnsOf(j, e[j])]
      BY <1>2 DEF AllColumns
    <2>2. [j \in 1 .. n |-> AllColumns[j]] = [j \in 1 .. n |-> ColumnsOf(j, e[j])]
      BY <2>1
    <2> QED
      BY <1>2, <2>2 DEF AllOutputs, Flat
  <1>6. MR!Outputs(e) = Answer(AllOutputs)
    <2>1. PICK s : s = [j \in 1 .. n |-> ColumnsOf(j, e[j])]
      OBVIOUS
    <2>2. [j \in 1 .. Len(e) |-> MR!Columns(j, e[j])] = s
      BY <1>3, <2>1 DEF MR!Columns, ColumnsOf
    <2>3. MR!FlattenSeq(s) = FlattenSeq(s)
      BY DEF FlattenSeq, MR!FlattenSeq
    <2>4. MR!Outputs(e) = [is |-> "columns", columns |-> MR!FlattenSeq(s)]
      BY <2>2 DEF MR!Outputs
    <2> QED
      BY <1>5, <2>1, <2>3, <2>4 DEF Answer
  <1> QED
    BY <1>1, <1>2, <1>4, <1>6 DEF MR!Error, Error

\* The call goes on, and the root answers nothing yet.
LEMMA GoesOn ==
  ASSUME CInv, CInv', [Next]_vars, ~CollectSizes, request' = request, answer' = answer
  PROVE  UNCHANGED MR!vars
  <1>1. Asked' = Asked /\ FirstSizes' = FirstSizes
    BY AskedStays, FirstSizesStay
  <1> QED
    BY <1>1 DEF MR!vars, Asked, FirstSizes

\* What the root answers alone is what the jobs give in MapReduce.
LEMMA FallBackIsSerial ==
  ASSUME NEW r \in Requests
  PROVE  \E o \in SerialOutcomes :
           SerialAnswer(r.outcome)
             = IF MR!Succeeds(o) THEN MR!Outputs(o) ELSE MR!Error
  <1>1. PICK n \in JobCounts : r.outcome \in [1 .. n -> Outcomes]
    BY DEF Requests
  <1>2. n \in Nat
    BY <1>1, CallAssumption
  <1>3. PICK x : x = r.outcome
    OBVIOUS
  <1>4. PICK o : o = OnRootAlone(x)
    OBVIOUS
  <1>5. /\ DOMAIN x = 1 .. n /\ Len(o) = n
        /\ o = [j \in 1 .. n |-> IF x[j] = Nested THEN 1 ELSE x[j]]
    BY <1>1, <1>2, <1>3, <1>4 DEF OnRootAlone
  <1>6. MR!Succeeds(o) <=> ~ \E j \in DOMAIN x : x[j] = Throws
    BY <1>5 DEF MR!Succeeds, Nested, Throws
  <1>7. MR!Outputs(o)
          = Answer(FlattenSeq([j \in DOMAIN x |-> ColumnsOf(j, o[j])]))
    <2>1. PICK s : s = [j \in 1 .. n |-> ColumnsOf(j, o[j])]
      OBVIOUS
    <2>2. [j \in 1 .. Len(o) |-> MR!Columns(j, o[j])] = s
      BY <1>5, <2>1 DEF MR!Columns, ColumnsOf
    <2>3. MR!FlattenSeq(s) = FlattenSeq(s)
      BY DEF FlattenSeq, MR!FlattenSeq
    <2>4. MR!Outputs(o) = [is |-> "columns", columns |-> MR!FlattenSeq(s)]
      BY <2>2 DEF MR!Outputs
    <2> QED
      BY <1>5, <2>1, <2>3, <2>4 DEF Answer
  <1>8. SerialAnswer(x)
          = IF MR!Succeeds(o) THEN MR!Outputs(o) ELSE MR!Error
    BY <1>4, <1>6, <1>7 DEF SerialAnswer, Error, MR!Error
  <1>9. o \in SerialOutcomes
    BY <1>3, <1>4 DEF SerialOutcomes
  <1> QED
    BY <1>3, <1>8, <1>9

\* The call of a program that is free is one of MapReduce as well.
LEMMA CallBegins ==
  ASSUME CInv, CInv', [Next]_vars, NEW r \in Requests,
         Start(r) \/ StartThrows(r) \/ FallBack(r)
  PROVE  MR!Next
  <1>1. request = NoRequest
    BY RootFacts, Zenon DEF RootOK, Idle, Start, StartThrows, FallBack, CallerIsFree
  <1>2. Asked = NoRequest
    BY <1>1 DEF Asked
  <1>3. ~CollectSizes
    BY Zenon DEF CollectSizes, Start, StartThrows, FallBack, CallerIsFree
  <1>4. FirstSizes' = FirstSizes
    BY <1>3, FirstSizesStay
  <1>5. CASE Start(r)
    <2>1. request' # NoRequest /\ answer' = MR!NoAnswer
      <3>1. (CInv => RootOK)'
        BY RootFacts, PTL
      <3>2. at'[Root] = "command" /\ answer' = MR!NoAnswer
        BY <1>5, RootFacts DEF Start, MR!NoAnswer, Shapes
      <3> QED
        BY <3>1, <3>2 DEF RootOK, Idle
    <2>2. (CInv => IsAsked)'
      BY CallIsAsked, PTL
    <2>3. Asked' # NoRequest
      BY <2>1, <2>2 DEF IsAsked
    <2>4. MR!Start
      BY <1>2, <1>4, <2>1, <2>3 DEF MR!Start, Asked, FirstSizes
    <2> QED
      BY <2>4 DEF MR!Next
  <1>6. CASE StartThrows(r)
    <2>1. request' = request /\ answer' = MR!Refused
      BY <1>6, Zenon DEF StartThrows, Refused, MR!Refused
    <2>2. Asked' = Asked
      BY <2>1, AskedStays
    <2>3. MR!Refuse
      BY <1>2, <1>4, <2>1, <2>2 DEF MR!Refuse, Asked, FirstSizes
    <2> QED
      BY <2>3 DEF MR!Next
  <1>7. CASE FallBack(r)
    <2>1. request' = request /\ answer' = SerialAnswer(r.outcome)
      BY <1>7, Zenon DEF FallBack
    <2>2. \E o \in SerialOutcomes :
            answer' = IF MR!Succeeds(o) THEN MR!Outputs(o) ELSE MR!Error
      BY <2>1, FallBackIsSerial
    <2>3. Asked' = Asked
      BY <2>1, AskedStays
    <2>4. MR!Serial
      BY <1>2, <1>4, <2>1, <2>2, <2>3 DEF MR!Serial, Asked, FirstSizes
    <2> QED
      BY <2>4 DEF MR!Next
  <1> QED
    BY <1>5, <1>6, <1>7

\* The root has collected the sizes of the first good evaluation.
LEMMA SizesAreLearnt ==
  ASSUME IInv, IInv', Work, [Next]_vars, CollectSizes
  PROVE  MR!Next
  <1>1. CInv /\ CInv' /\ Rows /\ Shares /\ RootKnows /\ JobsFit
        /\ WorkKnown(Root) /\ \A w \in Workers : AnswersKnown(w)
    BY RootIsNoWorker DEF IInv, Work
  <1>2. at[Root] = "f_out" /\ request' = request /\ answer' = answer
    BY DEF CollectSizes
  <1>3. /\ request \in Requests /\ AllFine
        /\ cache'[Root]["f_out"] = Expected
    BY <1>1, <1>2, CollectSizesFinds DEF RootKnows
  <1>4. ~Sized(Root)
    BY <1>1, <1>2, RootFacts DEF CacheOK
  <1>5. FirstSizes = <<>>
    BY <1>1, <1>4, FirstSizesAre
  <1>6. request # NoRequest
    BY <1>3, CallHasJobs
  <1>7. Asked # NoRequest /\ Asked.outcome = Expected /\ Asked' = Asked
    BY <1>1, <1>2, <1>6, CallIsAsked, AskedStays DEF IsAsked
  <1>8. MR!Succeeds(Asked.outcome)
    BY <1>1, <1>3, <1>6, PromiseIs
  <1>9. FirstSizes' = Expected
    <2>1. "f_out" \in DOMAIN cache'[Root]
      BY <1>1, RootFacts, ProcessFacts, StoreEffect DEF CollectSizes
    <2> QED
      BY <1>3, <2>1 DEF FirstSizes, IsCached
  <1>10. MR!LearnSizes
    BY <1>2, <1>5, <1>7, <1>8, <1>9 DEF MR!LearnSizes, Asked, FirstSizes
  <1> QED
    BY <1>10 DEF MR!Next

\* The sizes of all processes are those of the call if the root's are.
LEMMA AllAgreeIs ==
  ASSUME IInv, Work, at[Root] = "status"
  PROVE  /\ Sized(Root)
         /\ AllAgree <=> AllFine /\ Expected = cache[Root]["f_out"]
  <1>1. CInv /\ Shares /\ Sizes /\ RootKnows /\ JobsFit
    BY DEF IInv, Work
  <1>2. Sized(Root)
    BY <1>1, RootFacts DEF CacheOK
  <1>3. \A p \in Rank : SizesOf(Root, p) = SizesOf(p, p)
    <2> TAKE p \in Rank
    <2>1. CASE p = Root
      BY <2>1
    <2>2. CASE p # Root
      <3>1. p \in Workers
        BY <2>2, RootIsNoWorker
      <3>2. Sized(p)
        BY <1>1, <1>2, <3>1, WorkerFacts DEF SameCaches
      <3> QED
        BY <1>1, <1>2, <3>1, <3>2 DEF Sizes, SizesKnown
    <2> QED
      BY <2>1, <2>2
  <1>4. request \in Requests /\ Total = Jobs
    BY <1>1, CallFits DEF Idle
  <1>5. "chunks" \in DOMAIN cache[Root]
    BY <1>1, <1>2, SizedIsWarm, RootIsNoWorker
  <1>6. RootHasSizes
    BY <1>1, <1>2, <1>4, <1>5 DEF RootHasSizes, RootKnows, Shares, ChunksKnown
  <1>7. AllFine => (cache[Root]["f_out"] = Expected
                      <=> \A p \in Rank : Found(p) = SizesOf(Root, p))
    BY <1>4, <1>6, SizesCompared
  <1>8. AllAgree <=> AllFine /\ \A p \in Rank : Found(p) = SizesOf(p, p)
    BY DEF AllAgree, AllFine, Agrees
  <1> QED
    BY <1>2, <1>3, <1>7, <1>8

\* The root answers its caller.
LEMMA CallEnds ==
  ASSUME IInv, IInv', Work, [Next]_vars,
         CollectStatus \/ (SendAllOk /\ ~local[Root].all_ok)
  PROVE  MR!Next
  <1>1. CInv /\ CInv' /\ Rows /\ Shares /\ RootKnows /\ JobsFit
        /\ WorkKnown(Root) /\ \A w \in Workers : AnswersKnown(w)
    BY RootIsNoWorker DEF IInv, Work
  <1>2. at[Root] \in {"all_ok", "status"} /\ request' = NoRequest
    BY DEF CollectStatus, SendAllOk, Return
  <1>3. request # NoRequest
    BY <1>1, <1>2, RootFacts DEF RootOK, Idle
  <1>4. Asked # NoRequest /\ Asked.outcome = Expected /\ Asked' = NoRequest
    BY <1>1, <1>2, <1>3, CallIsAsked DEF IsAsked, Asked
  <1>5. FirstSizes' = FirstSizes
    BY <1>1, <1>2, FirstSizesStay DEF CollectSizes
  <1>6. CASE SendAllOk /\ ~local[Root].all_ok
    <2>1. at[Root] = "all_ok" /\ answer' = Error
      BY <1>6 DEF SendAllOk, Return
    <2>2. ~MR!Succeeds(Asked.outcome) /\ answer' = MR!Error
      BY <1>1, <1>3, <1>6, <2>1, PromiseIs DEF RootKnows
    <2>3. MR!Finish
      BY <1>2, <1>4, <1>5, <2>2 DEF MR!Finish, Asked, FirstSizes
    <2> QED
      BY <2>3 DEF MR!Next
  <1>7. CASE CollectStatus
    <2>1. /\ at[Root] = "status" /\ AllArrived("status")
          /\ answer' = IF AllOk(local[Root].ok) THEN Answer(local[Root].result) ELSE Error
      BY <1>7 DEF CollectStatus, Return
    <2>2. /\ Sized(Root)
          /\ AllAgree <=> AllFine /\ Expected = cache[Root]["f_out"]
      BY <2>1, AllAgreeIs
    <2>3. FirstSizes # <<>> /\ FirstSizes = cache[Root]["f_out"]
      BY <1>1, <2>2, FirstSizesAre DEF FirstSizes, Sized, IsCached
    <2>4. AllOk(local[Root].ok) <=> AllAgree
      <3>1. local[Root].ok <=> Agrees(Root)
        BY <1>1, <2>1 DEF WorkKnown, InCall
      <3>2. \A w \in Workers : Collected(w) <=> Agrees(w)
        BY <1>1, <2>1, CollectedAnswer
      <3>3. Rank = Workers \cup {Root}
        BY RootIsNoWorker
      <3> QED
        BY <3>1, <3>2, <3>3 DEF AllOk, AllAgree
    <2>5. /\ MR!Succeeds(Asked.outcome) <=> AllFine
          /\ MR!Outputs(Asked.outcome) = Answer(AllOutputs)
          /\ Error = MR!Error
      BY <1>1, <1>3, PromiseIs
    <2>6. AllAgree => local[Root].result = AllOutputs
      BY <1>1, <2>1 DEF RootKnows
    <2>7. answer' = IF MR!Succeeds(Asked.outcome) /\ Asked.outcome = FirstSizes
                    THEN MR!Outputs(Asked.outcome) ELSE MR!Error
      BY <1>4, <2>1, <2>2, <2>3, <2>4, <2>5, <2>6
    <2>8. MR!Finish
      BY <1>2, <1>4, <1>5, <2>3, <2>7 DEF MR!Finish, Asked, FirstSizes
    <2> QED
      BY <2>8 DEF MR!Next
  <1> QED
    BY <1>6, <1>7

LEMMA EveryStepIsAllowed ==
  ASSUME IInv, IInv', Work, [Next]_vars
  PROVE  [MR!Next]_MR!vars
  <1>1. CInv /\ CInv'
    BY DEF IInv
  <1>2. ASSUME ~CollectSizes, request' = request, answer' = answer
        PROVE  UNCHANGED MR!vars
    BY <1>1, <1>2, GoesOn
  <1>3. CASE CollectSizes
    BY <1>3, SizesAreLearnt
  <1>4. CASE ~CollectSizes
    <2>1. ASSUME NEW r \in Requests, Start(r) \/ StartThrows(r) \/ FallBack(r)
          PROVE  MR!Next
      BY <1>1, <2>1, CallBegins
    <2>2. ASSUME RootStep
          PROVE  MR!Next \/ UNCHANGED MR!vars
      <3>1. CASE CollectStatus \/ (SendAllOk /\ ~local[Root].all_ok)
        BY <3>1, CallEnds
      <3>2. CASE SendAllOk /\ local[Root].all_ok
        BY <1>2, <1>4, <3>2 DEF SendAllOk
      <3>3. ASSUME NEW step, SetupSend(step) PROVE request' = request /\ answer' = answer
        BY <3>3 DEF SetupSend, Take
      <3>4. CASE SendCommand \/ Evaluate(Root) \/ CollectOk \/ SendOutputsPerJob \/ CollectResults
        BY <1>2, <1>4, <3>4 DEF SendCommand, Evaluate, CollectOk, SendOutputsPerJob,
                                LearnOutputsPerJob, CollectResults
      <3> QED
        BY <1>2, <1>4, <2>2, <3>1, <3>2, <3>3, <3>4 DEF RootStep
    <2>3. ASSUME Release \/ ClusterRoot PROVE UNCHANGED MR!vars
      BY <1>2, <1>4, <2>3 DEF Release, ClusterRoot, callVars
    <2>4. ASSUME NEW w \in Workers, WorkerStep(w) \/ ClusterWorker(w)
          PROVE  UNCHANGED MR!vars
      <3>1. ASSUME NEW step, SetupReceive(w, step) PROVE request' = request /\ answer' = answer
        BY <3>1 DEF SetupReceive, Take
      <3>2. request' = request /\ answer' = answer
        BY <2>4, <3>1 DEF WorkerStep, ClusterWorker, callVars, RunCommand, Evaluate, SendOk,
           ReceiveAllOk, ReceiveOutputsPerJob, LearnOutputsPerJob, SendSizes, SendResults,
           SendStatus
      <3> QED
        BY <1>2, <1>4, <3>2
    <2>5. ASSUME UNCHANGED vars PROVE UNCHANGED MR!vars
      BY <1>2, <1>4, <2>5 DEF vars
    <2> QED
      BY <2>1, <2>2, <2>3, <2>4, <2>5 DEF Next
  <1> QED
    BY <1>3, <1>4

LEMMA NothingIsAsked == Init => MR!Init
  <1> SUFFICES ASSUME Init PROVE MR!Init
    OBVIOUS
  <1>1. /\ request = NoRequest /\ answer = [is |-> "none", columns |-> <<>>]
        /\ cache[Root] = <<>>
    BY RootIsNoWorker DEF Init
  <1> QED
    BY <1>1 DEF MR!Init, MR!NoAnswer, IsCached

(* Whatever order processes and messages come in, whichever calls failed     *)
(* before, and for any number of processes, jobs and outputs: mpi_parallel_  *)
(* call gives its caller the outputs of all jobs, in the order of the jobs,  *)
(* if none threw and the numbers of outputs are those of the first good      *)
(* evaluation, and an error if not.  That is what ImplementsMapReduce says,  *)
(* but for its fairness.  The vector of shared parameters must have the size *)
(* it had in the first call: the code takes the size from its cache.         *)
THEOREM AnswersAreRight ==
  ASSUME OneSharedSize
  PROVE  Spec => MR!Safety
  <1>1. Init => MR!Init
    BY NothingIsAsked
  <1>2. IInv /\ Work /\ IInv' /\ Work' /\ [Next]_vars => [MR!Next]_MR!vars
    BY EveryStepIsAllowed
  <1>3. Spec => [](IInv /\ Work)
    BY WorkInvariance
  <1> QED
    BY <1>1, <1>2, <1>3, PTL DEF Spec, MR!Safety
=============================================================================
