---------------------------- MODULE MpiMapChunks ----------------------------
(***************************************************************************)
(* prim/functor/mpi_cluster.hpp, mpi_map_chunks: how many of num_jobs      *)
(* jobs each process of the cluster gets.  Everything that is scattered or *)
(* gathered is cut up by this function, on every process for itself.       *)
(*                                                                         *)
(* MapChunks is the result in closed form; the state machine is the code,  *)
(* one iteration of its middle loop at a time, with the vector it indexes. *)
(***************************************************************************)
EXTENDS Integers

CONSTANTS
  MaxJobs,       \* bound on num_jobs
  MaxWorld,      \* bound on the number of processes
  MaxChunkSize   \* bound on chunk_size

ASSUME ChunksAssumption ==
  MaxJobs \in Nat /\ MaxWorld \in Nat /\ MaxChunkSize \in Nat

VARIABLES
  num_jobs, world_size, chunk_size,  \* the arguments
  chunks,                            \* the vector, indexed by rank
  r,                                 \* the variable of the middle loop
  at                                 \* "dealing" or "done"

vars == <<num_jobs, world_size, chunk_size, chunks, r, at>>

(***************************************************************************)
(* The closed form.                                                        *)
(***************************************************************************)

\* With fewer jobs than processes the remainder starts at the root.
FirstWithExtra(n, w) == IF n \div w = 0 THEN 0 ELSE 1

HasExtra(n, w, rank) ==
  FirstWithExtra(n, w) <= rank /\ rank < FirstWithExtra(n, w) + (n % w)

MapChunks(n, w, size) ==
  [rank \in 0..(w - 1) |->
     ((n \div w) + (IF HasExtra(n, w, rank) THEN 1 ELSE 0)) * size]

(***************************************************************************)
(* The code.                                                               *)
(***************************************************************************)

Init ==
  /\ num_jobs \in 0..MaxJobs
  /\ world_size \in 1..MaxWorld
  /\ chunk_size \in 0..MaxChunkSize
  /\ chunks = [rank \in 0..(world_size - 1) |-> num_jobs \div world_size]
  /\ r = 0
  /\ at = "dealing"

\* Always from rank 1 on.
delta_r_Always == 1

delta_r == IF num_jobs \div world_size = 0 THEN 0 ELSE 1

\* The loop runs once more.
DealOne_OneMore ==
  /\ at = "dealing"
  /\ r <= num_jobs % world_size
  /\ chunks' = [chunks EXCEPT ![r + delta_r] = @ + 1]
  /\ r' = r + 1
  /\ UNCHANGED <<num_jobs, world_size, chunk_size, at>>

DealOne ==
  /\ at = "dealing"
  /\ r # num_jobs % world_size
  /\ chunks' = [chunks EXCEPT ![r + delta_r] = @ + 1]
  /\ r' = r + 1
  /\ UNCHANGED <<num_jobs, world_size, chunk_size, at>>

\* The chunk size is applied to the ranks that got an extra job only.
Scale_OnlyDealt ==
  /\ at = "dealing"
  /\ r = num_jobs % world_size
  /\ chunks' = [rank \in 0..(world_size - 1) |->
                  IF rank < r THEN chunks[rank] * chunk_size ELSE chunks[rank]]
  /\ at' = "done"
  /\ UNCHANGED <<num_jobs, world_size, chunk_size, r>>

Scale ==
  /\ at = "dealing"
  /\ r = num_jobs % world_size
  /\ chunks' = [rank \in 0..(world_size - 1) |-> chunks[rank] * chunk_size]
  /\ at' = "done"
  /\ UNCHANGED <<num_jobs, world_size, chunk_size, r>>

Next == DealOne \/ Scale

Spec == Init /\ [][Next]_vars

-----------------------------------------------------------------------------
(***************************************************************************)
(* Properties.                                                             *)
(***************************************************************************)

TypeOK ==
  /\ num_jobs \in Nat /\ world_size \in Nat \ {0} /\ chunk_size \in Nat
  /\ chunks \in [0..(world_size - 1) -> Nat]
  /\ r \in 0..(num_jobs % world_size)
  /\ at \in {"dealing", "done"}

\* The loop writes inside the vector for every number of jobs and processes:
\* starting at rank 1 leaves room, there are fewer left over than processes.
IndexInVector == [][r' # r => r + delta_r \in DOMAIN chunks]_vars

\* The vector ends up as the closed form, which the model of the parallel call
\* uses.
ComputesMapChunks ==
  at = "done" => chunks = MapChunks(num_jobs, world_size, chunk_size)

\* The root has work when there is any, which mpi_parallel_call relies on: the
\* number of outputs per job is what the root found in its own jobs (line 347).
\* Otherwise it has no more than anyone else, and no one has two jobs more than
\* another: the comment before the function.
RootHasLeastButSome ==
  at = "done" =>
    /\ num_jobs > 0 /\ chunk_size > 0 => chunks[0] > 0
    /\ num_jobs >= world_size =>
         \A rank \in 0..(world_size - 1) : chunks[0] <= chunks[rank]
    /\ \A a, b \in 0..(world_size - 1) : chunks[a] - chunks[b] <= chunk_size
=============================================================================
