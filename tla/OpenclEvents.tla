---------------------------- MODULE OpenclEvents ----------------------------
(***************************************************************************)
(* How matrices on an OpenCL device keep the commands on their buffers in  *)
(* order: matrix_cl (opencl/matrix_cl.hpp) with its lists of events, the   *)
(* kernels (kernel_cl.hpp), assignments of kernel generator expressions    *)
(* (kernel_generator/multi_result_kernel.hpp), reads back to the host      *)
(* (copy.hpp) and matrices that share a buffer (rev/arena_matrix_cl.hpp,   *)
(* rev/to_arena.hpp).                                                      *)
(*                                                                         *)
(* The device is external: its queue is out of order, a command may be     *)
(* done as soon as those it waits for are.  Contents, sizes and views are  *)
(* left out, so are empty matrices and buffers in host memory.  One thread *)
(* of the host runs at a time.  A program does not write a matrix while    *)
(* another shares its buffer: that would change both.  What throws is      *)
(* OpenCL when it is given a command, a buffer or a callback, and a check  *)
(* of sizes; waiting for an event and noting one in a list do not fail.    *)
(***************************************************************************)
EXTENDS Naturals, Sequences, FiniteSets, TLC

CONSTANTS
  Matrices,      \* matrix_cl objects of the program
  Buffers,       \* device memory cl::Buffer can be given
  NoBuffer,
  MaxCommands    \* bound on what is enqueued

ASSUME OpenclEventsAssumption == MaxCommands \in Nat /\ NoBuffer \notin Buffers

VARIABLES
  commands,  \* in the order they were enqueued; an event is an index in it
  mat,       \* buffer_cl_, read_events_ and write_events_ of the matrices
  lost       \* commands on buffers that what threw has left untracked

vars == <<commands, mat, lost>>

Events == 1 .. MaxCommands
Command == [reads : SUBSET Buffers, writes : SUBSET Buffers,
            waits : SUBSET Events, done : BOOLEAN]
Matrix == [buffer : Buffers \cup {NoBuffer},
           reads : SUBSET Events, writes : SUBSET Events]

(* As default constructed, moved from or destroyed.                          *)
Empty == [buffer |-> NoBuffer, reads |-> {}, writes |-> {}]
Fresh(b) == [Empty EXCEPT !.buffer = b]
Has(m) == mat[m].buffer # NoBuffer

Unused == Buffers \ {mat[m].buffer : m \in Matrices}
Shared(m) == \E n \in Matrices \ {m} : mat[n].buffer = mat[m].buffer

(* Seeded bug: the event recorded is that of the command before.             *)
NewEvent_Stale == Len(commands)

(* The event an enqueue returns.                                             *)
NewEvent == Len(commands) + 1

Enqueue(reads, writes, waits) ==
  /\ Len(commands) < MaxCommands
  /\ commands' = Append(commands, [reads |-> reads, writes |-> writes,
                                   waits |-> waits, done |-> FALSE])

Touches(e) == commands[e].reads \cup commands[e].writes
Finished(events) == \A e \in events : commands[e].done
ReadWrite(r) == r.reads \cup r.writes

AddRead(r) == [r EXCEPT !.reads = @ \cup {NewEvent}]
AddWrite(r) == [r EXCEPT !.writes = @ \cup {NewEvent}]
-----------------------------------------------------------------------------
Init ==
  /\ commands = <<>>
  /\ mat = [m \in Matrices |-> Empty]
  /\ lost = {}

(* The device finishes a command.                                            *)
Finish(e) ==
  /\ ~commands[e].done /\ Finished(commands[e].waits)
  /\ commands' = [commands EXCEPT ![e] = [@ EXCEPT !.done = TRUE, !.waits = {}]]
  /\ lost' = {l \in lost : l[1] # e}
  /\ UNCHANGED mat

(* matrix_cl(rows, cols).                                                    *)
Allocate(m) ==
  /\ mat[m] = Empty
  /\ \E b \in Unused : mat' = [mat EXCEPT ![m] = Fresh(b)]
  /\ UNCHANGED <<commands, lost>>

(* Construction from data of the host; the writes of the columns of a vector *)
(* of matrices, which do not overlap, are one.                               *)
FromHost(m) ==
  /\ mat[m] = Empty
  /\ \E b \in Unused : /\ Enqueue({}, {b}, {})
                       /\ mat' = [mat EXCEPT ![m] = AddWrite(Fresh(b))]
  /\ UNCHANGED lost

(* The write is enqueued, in the construction from a vector of matrices the  *)
(* first of them; then the callback cannot be set or the next matrix has     *)
(* another size.  A constructor that throws runs no destructor, which would  *)
(* wait: the buffer is given back.                                           *)
FromHostThrows(m) ==
  /\ mat[m] = Empty
  /\ \E b \in Unused : /\ Enqueue({}, {b}, {})
                       /\ lost' = lost \cup {<<NewEvent, b>>}
  /\ UNCHANGED mat

(* Seeded bug: the source does not know that it is being read.               *)
InitializeBufferCl_NoReadEvent(m, b, a) ==
  /\ Enqueue({mat[a].buffer}, {b}, mat[a].writes)
  /\ mat' = [mat EXCEPT ![m] = AddWrite(Fresh(b))]

(* initialize_buffer_cl: buffer b of m gets a copy of a, whose earlier       *)
(* events, if any, m has waited for.                                         *)
InitializeBufferCl(m, b, a) ==
  /\ Enqueue({mat[a].buffer}, {b}, mat[a].writes)
  /\ mat' = [mat EXCEPT ![m] = AddWrite(Fresh(b)), ![a] = AddRead(@)]

(* The copy is enqueued, then its callback cannot be set: neither matrix     *)
(* gets to know of the copy.                                                 *)
InitializeBufferClThrows(b, a) ==
  /\ Enqueue({mat[a].buffer}, {b}, mat[a].writes)
  /\ lost' = lost \cup ({NewEvent} \X {b, mat[a].buffer})

CopyConstruct(m, a) ==
  /\ mat[m] = Empty /\ Has(a)
  /\ \E b \in Unused : InitializeBufferCl(m, b, a)
  /\ UNCHANGED lost

(* There is no matrix m then, and its buffer is given back.                  *)
CopyConstructThrows(m, a) ==
  /\ mat[m] = Empty /\ Has(a)
  /\ \E b \in Unused : InitializeBufferClThrows(b, a)
  /\ UNCHANGED mat

MoveConstruct(m, a) ==
  /\ mat[m] = Empty /\ Has(a)
  /\ mat' = [mat EXCEPT ![m] = mat[a], ![a] = Empty]
  /\ UNCHANGED <<commands, lost>>

(* Seeded bug: only writers are waited for.                                  *)
MayRelease_AfterWrites(m) == Finished(mat[m].writes)

(* wait_for_read_write_events has returned.                                  *)
MayRelease(m) == Finished(ReadWrite(mat[m]))

(* With another size the matrix gets another buffer.                         *)
BuffersFor(m) ==
  Unused \cup (IF Has(m) /\ ~Shared(m) THEN {mat[m].buffer} ELSE {})

CopyAssign(m, a) ==
  /\ m # a /\ Has(a) /\ MayRelease(m)
  /\ \E b \in BuffersFor(m) : InitializeBufferCl(m, b, a)
  /\ UNCHANGED lost

(* It throws when m has waited for its events, has its buffer as well, or    *)
(* has enqueued the copy as well.                                            *)
CopyAssignThrows(m, a) ==
  /\ m # a /\ Has(a) /\ MayRelease(m)
  /\ \E b \in BuffersFor(m) \cup {mat[m].buffer} :
       /\ mat' = [mat EXCEPT ![m] = Fresh(b)]
       /\ \/ UNCHANGED <<commands, lost>>
          \/ b \in BuffersFor(m) /\ InitializeBufferClThrows(b, a)

MoveAssign(m, a) ==
  /\ m # a /\ Has(m) /\ Has(a) /\ MayRelease(m)
  /\ mat' = [mat EXCEPT ![m] = mat[a], ![a] = Empty]
  /\ UNCHANGED <<commands, lost>>

(* to_arena, and construction or assignment from an arena_matrix_cl: the     *)
(* buffer is shared, the events known so far are copied.                     *)
Share(m, a) ==
  /\ m # a /\ Has(a) /\ MayRelease(m)
  /\ mat' = [mat EXCEPT ![m] = mat[a]]
  /\ UNCHANGED <<commands, lost>>

Destroy(m) ==
  /\ Has(m) /\ MayRelease(m)
  /\ mat' = [mat EXCEPT ![m] = Empty]
  /\ UNCHANGED <<commands, lost>>

SetZero(m) ==
  /\ Has(m) /\ ~Shared(m)
  /\ Enqueue({}, {mat[m].buffer}, ReadWrite(mat[m]))
  /\ mat' = [mat EXCEPT ![m] = AddWrite(@)]
  /\ UNCHANGED lost

(* A kernel with an in_buffer, an out_buffer or an in_out_buffer each:       *)
(* select_events, then assign_events.                                        *)
Kernel(in, out) ==
  /\ in # out /\ Has(in) /\ Has(out) /\ ~Shared(out)
  /\ Enqueue({mat[in].buffer}, {mat[out].buffer},
             mat[in].writes \cup ReadWrite(mat[out]))
  /\ mat' = [mat EXCEPT ![in] = AddRead(@), ![out] = AddWrite(@)]
  /\ UNCHANGED lost

KernelInOut(m) ==
  /\ Has(m) /\ ~Shared(m)
  /\ Enqueue({mat[m].buffer}, {mat[m].buffer}, ReadWrite(mat[m]))
  /\ mat' = [mat EXCEPT ![m] = AddRead(AddWrite(@))]
  /\ UNCHANGED lost

(* m of the right size is assigned an expression that reads a, which may be  *)
(* m: get_clear_events, enqueue, add_event.                                  *)
Assign(m, a) ==
  /\ Has(m) /\ Has(a) /\ ~Shared(m)
  /\ Enqueue({mat[a].buffer}, {mat[m].buffer}, mat[a].writes \cup ReadWrite(mat[m]))
  /\ LET cleared == [mat EXCEPT ![m] = Fresh(@.buffer)]
     IN  mat' = [[cleared EXCEPT ![a] = AddRead(@)] EXCEPT ![m] = AddWrite(@)]
  /\ UNCHANGED lost

(* The enqueue throws: the events of m, not all done, have been cleared.     *)
AssignThrows(m) ==
  /\ Has(m) /\ ~Shared(m)
  /\ mat' = [mat EXCEPT ![m] = Fresh(@.buffer)]
  /\ LET b == mat[m].buffer
     IN  lost' = lost \cup {<<e, b>> : e \in {f \in DOMAIN commands :
                               ~commands[f].done /\ b \in Touches(f)}}
  /\ UNCHANGED commands

(* Seeded bug: the buffer is read at once.                                   *)
ReadsAfter_Nothing(a) == {}

ReadsAfter(a) == mat[a].writes

(* from_matrix_cl: a read that has been waited for.                          *)
FromMatrixCl(a) ==
  /\ Has(a) /\ Finished(ReadsAfter(a))
  /\ Len(commands) < MaxCommands
  /\ commands' = Append(commands, [reads |-> {mat[a].buffer}, writes |-> {},
                                   waits |-> {}, done |-> TRUE])
  /\ mat' = [mat EXCEPT ![a].writes = {}]
  /\ UNCHANGED lost

Next ==
  \/ \E e \in DOMAIN commands : Finish(e)
  \/ \E m \in Matrices :
       \/ Allocate(m) \/ FromHost(m) \/ FromHostThrows(m) \/ Destroy(m)
       \/ SetZero(m) \/ KernelInOut(m) \/ AssignThrows(m) \/ FromMatrixCl(m)
  \/ \E m, a \in Matrices :
       \/ CopyConstruct(m, a) \/ CopyConstructThrows(m, a) \/ MoveConstruct(m, a)
       \/ CopyAssign(m, a) \/ CopyAssignThrows(m, a) \/ MoveAssign(m, a)
       \/ Share(m, a) \/ Kernel(a, m) \/ Assign(m, a)

Spec == Init /\ [][Next]_vars
-----------------------------------------------------------------------------
TypeOK ==
  /\ commands \in Seq(Command) /\ Len(commands) <= MaxCommands
  /\ mat \in [Matrices -> Matrix]
  /\ \A m \in Matrices : ReadWrite(mat[m]) \subseteq DOMAIN commands
  /\ lost \subseteq (DOMAIN commands) \X Buffers

Untracked(e) == {b \in Buffers : <<e, b>> \in lost}

Conflict(e, f) ==
  (commands[e].writes \cap Touches(f)) \cup (commands[f].writes \cap Touches(e))

(* Of two commands on a buffer one of which writes it, the one enqueued      *)
(* first is done first, whichever matrices held the buffer (the wait lists   *)
(* of all operations; "Tracks write jobs", "Tracks reads", matrix_cl.hpp:49) *)
(* - but for a first one that an operation which threw has left untracked on *)
(* the buffer.  What throws orders nothing, and disturbs no other command.   *)
ConflictsInOrder ==
  \A e, f \in DOMAIN commands :
    e < f /\ commands[f].done /\ ~commands[e].done =>
      Conflict(e, f) \subseteq Untracked(e)

(* "to prevent any kernels from writing memory that has already been reused" *)
(* (matrix_cl.hpp:499): what is not done has its buffers held by matrices,   *)
(* but for the buffers on which an operation that threw left it untracked.   *)
FreedMemoryIsIdle ==
  \A e \in DOMAIN commands :
    ~commands[e].done => Touches(e) \cap Unused \subseteq Untracked(e)
-----------------------------------------------------------------------------
Symmetric == Permutations(Matrices) \cup Permutations(Buffers)
=============================================================================
