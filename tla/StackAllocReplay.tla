------------------------- MODULE StackAllocReplay -------------------------
(***************************************************************************)
(* What "available for further allocations" (recover_all,                  *)
(* memory/stack_alloc.hpp:198) is worth: a program that evaluates the same *)
(* expression again after recovering gets the same memory again, without   *)
(* asking the heap.  The stack allocator with two logs of the calls since  *)
(* the last recovery and before it.                                        *)
(***************************************************************************)
EXTENDS StackAlloc, SequencesExt

CONSTANT MaxLog   \* bound: evaluations of more calls are not compared

VARIABLES
  log,        \* calls of this evaluation with the position each one left
  previous,   \* log of the evaluation before
  heapBlocks  \* blocks_.size() when this evaluation started

rvars == <<vars, log, previous, heapBlocks>>

(* There were more calls than are logged: nothing is said of them.           *)
Overflow == log # <<>> /\ log[1].call = <<"more">>

Logged(call) ==
  /\ log' = IF Overflow \/ Len(log) = MaxLog THEN <<[call |-> <<"more">>]>>
            ELSE Append(log, [call |-> call, at |-> next_loc_'])
  /\ UNCHANGED <<previous, heapBlocks>>

Restart(remembered) ==
  /\ previous' = remembered
  /\ log' = <<>>
  /\ heapBlocks' = Len(blocks_')

RInit == Init /\ log = <<>> /\ previous = <<>> /\ heapBlocks = 1

RNext ==
  \/ \E len \in Lens : Alloc(len) /\ Logged(<<"alloc", len>>)
  \/ \E len \in Lens : AllocThrows(len) /\ Logged(<<"throw", len>>)
  \/ StartNested /\ Logged(<<"start">>)
  \/ RecoverNested /\ Logged(<<"recover">>)
  \/ RecoverAll /\ Restart(IF Overflow THEN <<>> ELSE log)
  \/ FreeAll /\ Restart(<<>>)

RSpec == RInit /\ [][RNext]_rvars

Calls(l) == [i \in DOMAIN l |-> l[i].call]

(* While an evaluation repeats the calls of the one before, every call       *)
(* leaves the allocator at the same place as then and the heap is not asked  *)
(* for a block (alloc, move_to_next_block and recover_nested after           *)
(* recover_all), as long as malloc has never failed.                         *)
ReplayReusesMemory ==
  failures = 0 /\ IsPrefix(Calls(log), Calls(previous)) =>
    IsPrefix(log, previous) /\ Len(blocks_) = heapBlocks
=============================================================================
