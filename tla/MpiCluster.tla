----------------------------- MODULE MpiCluster -----------------------------
(***************************************************************************)
(* prim/functor/mpi_cluster.hpp: the processes of an MPI program.  The     *)
(* root (rank 0) runs the program; every other process listens, that is,   *)
(* waits for a command, runs it, and waits again.  A command is sent under *)
(* the lock in_use, which its sender then holds for as long as it uses the *)
(* workers.                                                                *)
(*                                                                         *)
(* The collectives of boost::mpi are external.  Each has the root at one   *)
(* end, and each process takes part in them in the order of its own        *)
(* program, so a pair of queues per worker stands for the communicator:    *)
(* a broadcast or scatter puts a message in every queue down and returns   *)
(* when there is room; a reduce or gather takes one from every queue up.   *)
(* A message names the call that sent it, so that a collective that meets  *)
(* another one, which in MPI is undefined, shows.                          *)
(*                                                                         *)
(* This module has the state and the actions of the cluster; what a        *)
(* command does is in MpiParallelCall.                                     *)
(***************************************************************************)
EXTENDS Integers, Sequences

CONSTANTS
  WorldSize,   \* number of processes
  Capacity     \* messages a queue can hold

ASSUME ClusterAssumption ==
  WorldSize \in Nat \ {0} /\ Capacity \in Nat \ {0}

Rank == 0..(WorldSize - 1)
Root == 0
Workers == Rank \ {Root}

VARIABLES
  at,          \* per process: where its program is, mostly: in which collective
  listening,   \* listening_status() of the root
  in_use,      \* whether the root's mutex is held
  down,        \* per worker: messages from the root
  up           \* per worker: messages to the root

\* On a worker listening_status() is never read, and the mutex is held while it
\* listens; a worker that tries to send a command has been refused before.

(***************************************************************************)
(* Collectives.                                                            *)
(***************************************************************************)

\* broadcast, scatter: load is what each worker gets.
SendDown(step, load) ==
  /\ \A w \in Workers : Len(down[w]) < Capacity
  /\ down' = [w \in Workers |->
                Append(down[w], [step |-> step, load |-> load[w]])]

\* A worker's part of a broadcast or scatter.
Arrived(w, step) == down[w] # <<>> /\ Head(down[w]).step = step
Delivered(w) == Head(down[w]).load
TakeDown(w) == down' = [down EXCEPT ![w] = Tail(@)]

\* A worker's part of a reduce or gather.
SendUp(w, step, load) ==
  /\ Len(up[w]) < Capacity
  /\ up' = [up EXCEPT ![w] = Append(@, [step |-> step, load |-> load])]

\* reduce, gather on the root.
AllArrived(step) == \A w \in Workers : up[w] # <<>> /\ Head(up[w]).step = step
Collected(w) == Head(up[w]).load
TakeUp == up' = [w \in Workers |-> Tail(up[w])]

Everyone(load) == [w \in Workers |-> load]

(***************************************************************************)
(* The cluster.                                                            *)
(***************************************************************************)

ClusterInit ==
  /\ at = [p \in Rank |-> "outside"]
  /\ listening = FALSE
  /\ in_use = FALSE
  /\ down = [w \in Workers |-> <<>>]
  /\ up = [w \in Workers |-> <<>>]

\* The mutex is not asked for.
CommandRefused_NoLock(p) ==
  IF p # Root THEN "only root"
  ELSE IF ~listening THEN "not listening"
  ELSE "no"

\* mpi_broadcast_command: why process p may not send a command now.
CommandRefused(p) ==
  IF p # Root THEN "only root"
  ELSE IF ~listening THEN "not listening"
  ELSE IF in_use THEN "in use"
  ELSE "no"

\* listen().  All processes run the same program: a worker listens once for
\* each time that the root does.
ListenRoot ==
  /\ at[Root] = "outside"
  /\ listening' = TRUE
  /\ at' = [at EXCEPT ![Root] = "ready"]
  /\ UNCHANGED <<in_use, down, up>>

ListenWorker(w) ==
  /\ at[w] = "outside"
  /\ listening \/ down[w] # <<>>
  /\ at' = [at EXCEPT ![w] = "command"]
  /\ UNCHANGED <<listening, in_use, down, up>>

\* The destructor lowers the flag but sends nothing.
StopListen_Silent ==
  /\ at[Root] = "ready"
  /\ CommandRefused(Root) = "no"
  /\ listening' = FALSE
  /\ at' = [at EXCEPT ![Root] = "outside"]
  /\ UNCHANGED <<in_use, down, up>>

\* stop_listen() on the root; the lock is held for the broadcast only.  With a
\* command still running it throws instead and changes nothing.
StopListen ==
  /\ at[Root] = "ready"
  /\ CommandRefused(Root) = "no"
  /\ SendDown("command", Everyone("stop"))
  /\ listening' = FALSE
  /\ at' = [at EXCEPT ![Root] = "outside"]
  /\ UNCHANGED <<in_use, up>>

\* mpi_stop_worker::run throws mpi_stop_listen, which ends listen().
StopWorker(w) ==
  /\ at[w] = "command"
  /\ Arrived(w, "command") /\ Delivered(w) = "stop"
  /\ TakeDown(w)
  /\ at' = [at EXCEPT ![w] = "outside"]
  /\ UNCHANGED <<listening, in_use, up>>
=============================================================================
