------------------------------ MODULE AdTape ------------------------------
(***************************************************************************)
(* The reverse-mode tape of one thread (rev/core): the storage behind      *)
(* ChainableStack::instance_, the operations that build varis, open and    *)
(* recover nested scopes and sweep adjoints backwards, and the C++ control *)
(* flow they run under: nested_rev_autodiff objects, grad() loops, chain() *)
(* calls that open scopes of their own, exceptions that unwind all three.  *)
(*                                                                         *)
(* A vari is its address: varis is the arena memory in allocation order    *)
(* (stack_alloc hands out and takes back memory as a stack, see Arena and  *)
(* StackAlloc), so an address is used again once recovered.  Values are    *)
(* left out; a partial derivative is a member of Partials, an adjoint an   *)
(* integer.                                                                *)
(*                                                                         *)
(* The program using the tape is nondeterministic, within the rules its    *)
(* callers in src/ keep: a scope opened inside chain() works on varis of   *)
(* its own, and who catches an exception has left the scope it was thrown  *)
(* in, or recovers the whole tape (CatchInScope drops the second rule).    *)
(***************************************************************************)
EXTENDS Integers, Sequences, FiniteSets, TLC

CONSTANTS
  Partials,       \* values of partial derivatives
  MaxOperands,    \* operands of one vari
  ChainNests,     \* may a vari's chain() open nested scopes?: set of answers
  Throwers,       \* what may throw: constructors of varis and of chainable
                  \* objects, and the client's own code and checks
  CatchInScope,   \* may an exception be caught in the scope it was thrown in?
  ChainableIds,   \* heap addresses of chainable_alloc objects
  MaxVaris,       \* bound: varis in the arena
  MaxDepth,       \* bound: open nested scopes
  MaxAdj          \* bound: a sweep starts only when the adjoints of the varis
                  \* its client may use are at most this

Freed == "freed"   \* on var_alloc_stack_: a pointer to memory that was freed

ASSUME AdTapeAssumption ==
  /\ Freed \notin ChainableIds
  /\ Partials \subseteq Int
  /\ MaxOperands \in Nat
  /\ ChainNests \subseteq BOOLEAN
  /\ Throwers \subseteq {"vari", "chainable", "client"}
  /\ CatchInScope \in BOOLEAN
  /\ MaxVaris \in Nat
  /\ MaxDepth \in Nat
  /\ MaxAdj \in Nat

VARIABLES
  \* AutodiffStackStorage
  var_stack_, var_nochain_stack_, var_alloc_stack_,
  nested_var_stack_sizes_, nested_var_nochain_stack_sizes_,
  nested_var_alloc_stack_starts_,
  \* memalloc_: the varis in it, their adjoints, its own nested marks
  varis, adj, nested_next_locs_,
  \* chainable_alloc objects that exist, and whether one was deleted when not
  heap, badDelete,
  \* the C++ stack: scopes, sweeps and chain() calls; exception in flight
  control, exception

tape == <<var_stack_, var_nochain_stack_, var_alloc_stack_>>
marks == <<nested_var_stack_sizes_, nested_var_nochain_stack_sizes_,
           nested_var_alloc_stack_starts_, nested_next_locs_>>
memory == <<varis, adj>>
objects == <<heap, badDelete>>
vars == <<tape, marks, memory, objects, control, exception>>

LastOf(s) == s[Len(s)]
FrontOf(s) == SubSeq(s, 1, Len(s) - 1)
Truncate(s, n) == SubSeq(s, 1, n)
RangeOf(s) == {s[i] : i \in DOMAIN s}

Live == DOMAIN varis
Operand == [v : Nat \ {0}, d : Partials]
Vari == [from : Nat \ {0},          \* the vari whose adjoint chain() reads
         ops : Seq(Operand),        \* the operands it adds to
         nests : BOOLEAN,           \* chain() runs nested scopes first
         holds : SUBSET ChainableIds, \* chainable objects chain() reads
         built : BOOLEAN]           \* its constructor returned

Top == LastOf(control)
TopIs(kind) == control # <<>> /\ Top.kind = kind
ClientRuns == exception = "none" /\ (control = <<>> \/ TopIs("scope"))
SweepRuns == \E k \in DOMAIN control : control[k].kind = "grad"

empty_nested == nested_var_stack_sizes_ = <<>>
nested_size == Len(var_stack_) - LastOf(nested_var_stack_sizes_)
Depth == Len(nested_var_stack_sizes_)

(* The varis a client at this point has a pointer to and may use: not those  *)
(* of callbacks, nor one whose constructor threw.                            *)
Usable ==
  {a \in Live : /\ varis[a].built /\ varis[a].from = a
                /\ SweepRuns => Depth > 0 /\ a > LastOf(nested_next_locs_)}

OperandLists(addresses) ==
  UNION {[1 .. n -> [v : addresses, d : Partials]] : n \in 1 .. MaxOperands}

(* Seeded bug: assigns the operand's adjoint instead of adding to it.        *)
Chained_Assigns(a) ==
  LET ops == varis[a].ops
      after[k \in 0 .. Len(ops)] ==
        IF k = 0 THEN adj
        ELSE [after[k - 1] EXCEPT ![ops[k].v] = ops[k].d * adj[varis[a].from]]
  IN  after[Len(ops)]

(* adj after chain() of the vari at address a: adj_[from] times each partial *)
(* is added to its operand, one operand after the other.                     *)
Chained(a) ==
  LET ops == varis[a].ops
      after[k \in 0 .. Len(ops)] ==
        IF k = 0 THEN adj
        ELSE [after[k - 1] EXCEPT
                ![ops[k].v] = @ + ops[k].d * adj[varis[a].from]]
  IN  after[Len(ops)]
-----------------------------------------------------------------------------
Init ==
  /\ var_stack_ = <<>> /\ var_nochain_stack_ = <<>> /\ var_alloc_stack_ = <<>>
  /\ nested_var_stack_sizes_ = <<>>
  /\ nested_var_nochain_stack_sizes_ = <<>>
  /\ nested_var_alloc_stack_starts_ = <<>>
  /\ varis = <<>> /\ adj = <<>> /\ nested_next_locs_ = <<>>
  /\ heap = {} /\ badDelete = FALSE
  /\ control = <<>> /\ exception = "none"

(* Seeded bug: the vari keeps the adjoint its memory had, of which there may *)
(* be none.                                                                  *)
Place_Uninitialised(vari) ==
  /\ Len(varis) < MaxVaris
  /\ varis' = Append(varis, vari)
  /\ UNCHANGED adj

(* operator new of vari_base, adj_{0.0}.                                     *)
Place(vari) ==
  /\ Len(varis) < MaxVaris
  /\ varis' = Append(varis, vari)
  /\ adj' = Append(adj, 0)

(* var(x), deep_copy_vars: new vari(x, false).                               *)
NewVar ==
  /\ ClientRuns
  /\ Place([from |-> Len(varis) + 1, ops |-> <<>>, nests |-> FALSE,
            holds |-> {}, built |-> TRUE])
  /\ var_nochain_stack_' = Append(var_nochain_stack_, Len(varis) + 1)
  /\ UNCHANGED <<var_stack_, var_alloc_stack_, marks, objects, control,
                 exception>>

(* A vari with operands, put on var_stack_ by its base constructor.          *)
NewOp ==
  /\ ClientRuns
  /\ \E ops \in OperandLists(Usable), nests \in ChainNests,
        holds \in {{}} \cup {{c} : c \in heap} :
       Place([from |-> Len(varis) + 1, ops |-> ops, nests |-> nests,
              holds |-> holds, built |-> TRUE])
  /\ var_stack_' = Append(var_stack_, Len(varis) + 1)
  /\ UNCHANGED <<var_nochain_stack_, var_alloc_stack_, marks, objects,
                 control, exception>>

(* reverse_pass_callback for the result just made with var(x): a vari whose  *)
(* chain() reads the adjoint of that result.                                 *)
NewCallback ==
  /\ ClientRuns
  /\ var_nochain_stack_ # <<>> /\ LastOf(var_nochain_stack_) = Len(varis)
  /\ Len(varis) \in Usable
  /\ \E ops \in OperandLists(Usable \ {Len(varis)}) :
       Place([from |-> Len(varis), ops |-> ops, nests |-> FALSE,
              holds |-> {}, built |-> TRUE])
  /\ var_stack_' = Append(var_stack_, Len(varis) + 1)
  /\ UNCHANGED <<var_nochain_stack_, var_alloc_stack_, marks, objects,
                 control, exception>>

(* The constructor of a vari class throws after the base class put it on     *)
(* var_stack_; operator delete does nothing.                                 *)
NewVariThrows ==
  /\ "vari" \in Throwers
  /\ ClientRuns
  /\ Place([from |-> Len(varis) + 1, ops |-> <<>>, nests |-> FALSE,
            holds |-> {}, built |-> FALSE])
  /\ var_stack_' = Append(var_stack_, Len(varis) + 1)
  /\ exception' = "raised"
  /\ UNCHANGED <<var_nochain_stack_, var_alloc_stack_, marks, objects, control>>

(* new of a class derived from chainable_alloc; c is what malloc returned.   *)
NewChainable(c) ==
  /\ ClientRuns
  /\ c \notin heap
  /\ var_alloc_stack_' = Append(var_alloc_stack_, c)
  /\ heap' = heap \cup {c}
  /\ UNCHANGED <<var_stack_, var_nochain_stack_, marks, memory, badDelete,
                 control, exception>>

(* The same when the derived constructor throws: the memory is freed, the    *)
(* pointer the base constructor pushed stays.                                *)
NewChainableThrows(c) ==
  /\ "chainable" \in Throwers
  /\ ClientRuns
  /\ c \notin heap
  /\ Freed \notin RangeOf(var_alloc_stack_)   \* bound: one at a time
  /\ var_alloc_stack_' = Append(var_alloc_stack_, Freed)
  /\ exception' = "raised"
  /\ UNCHANGED <<var_stack_, var_nochain_stack_, marks, memory, objects,
                 control>>

(* delete of each object of the list.                                        *)
DeleteAll(list) ==
  /\ heap' = heap \ RangeOf(list)
  /\ badDelete' = \/ badDelete
                  \/ ~(RangeOf(list) \subseteq heap)
                  \/ Cardinality(RangeOf(list)) # Len(list)
-----------------------------------------------------------------------------
(* Seeded bug: marks the size of the wrong stack.                            *)
start_nested_WrongStack ==
  /\ nested_var_stack_sizes_' = Append(nested_var_stack_sizes_, Len(var_stack_))
  /\ nested_var_nochain_stack_sizes_' =
       Append(nested_var_nochain_stack_sizes_, Len(var_stack_))
  /\ nested_var_alloc_stack_starts_' =
       Append(nested_var_alloc_stack_starts_, Len(var_alloc_stack_))
  /\ nested_next_locs_' = Append(nested_next_locs_, Len(varis))

start_nested ==
  /\ nested_var_stack_sizes_' = Append(nested_var_stack_sizes_, Len(var_stack_))
  /\ nested_var_nochain_stack_sizes_' =
       Append(nested_var_nochain_stack_sizes_, Len(var_nochain_stack_))
  /\ nested_var_alloc_stack_starts_' =
       Append(nested_var_alloc_stack_starts_, Len(var_alloc_stack_))
  /\ nested_next_locs_' = Append(nested_next_locs_, Len(varis))

(* Seeded bug: var_nochain_stack_ keeps its nested part.                     *)
RecoverNestedTapes_KeepsNochain ==
  /\ var_stack_' = Truncate(var_stack_, LastOf(nested_var_stack_sizes_))
  /\ nested_var_stack_sizes_' = FrontOf(nested_var_stack_sizes_)
  /\ nested_var_nochain_stack_sizes_' = FrontOf(nested_var_nochain_stack_sizes_)
  /\ UNCHANGED var_nochain_stack_

(* Seeded bug: clear() instead of resize() on var_stack_.                    *)
RecoverNestedTapes_Clears ==
  /\ var_stack_' = <<>>
  /\ nested_var_stack_sizes_' = FrontOf(nested_var_stack_sizes_)
  /\ var_nochain_stack_' =
       Truncate(var_nochain_stack_, LastOf(nested_var_nochain_stack_sizes_))
  /\ nested_var_nochain_stack_sizes_' = FrontOf(nested_var_nochain_stack_sizes_)

RecoverNestedTapes ==
  /\ var_stack_' = Truncate(var_stack_, LastOf(nested_var_stack_sizes_))
  /\ nested_var_stack_sizes_' = FrontOf(nested_var_stack_sizes_)
  /\ var_nochain_stack_' =
       Truncate(var_nochain_stack_, LastOf(nested_var_nochain_stack_sizes_))
  /\ nested_var_nochain_stack_sizes_' = FrontOf(nested_var_nochain_stack_sizes_)

(* Seeded bug: the delete loop starts one object early.                      *)
FirstNestedObject_OneEarly ==
  LET start == LastOf(nested_var_alloc_stack_starts_)
  IN  IF start = 0 THEN 1 ELSE start

(* Where the delete loop starts, counting from 1.                            *)
FirstNestedObject == LastOf(nested_var_alloc_stack_starts_) + 1

(* Seeded bug: resizes to the start before deleting, so nothing is deleted.  *)
RecoverNestedObjects_Leaks ==
  /\ var_alloc_stack_' = Truncate(var_alloc_stack_, FirstNestedObject - 1)
  /\ nested_var_alloc_stack_starts_' = FrontOf(nested_var_alloc_stack_starts_)
  /\ UNCHANGED objects

RecoverNestedObjects ==
  /\ DeleteAll(SubSeq(var_alloc_stack_, FirstNestedObject,
                      Len(var_alloc_stack_)))
  /\ var_alloc_stack_' = Truncate(var_alloc_stack_, FirstNestedObject - 1)
  /\ nested_var_alloc_stack_starts_' = FrontOf(nested_var_alloc_stack_starts_)

(* memalloc_.recover_nested().                                               *)
RecoverNestedArena ==
  /\ varis' = Truncate(varis, LastOf(nested_next_locs_))
  /\ adj' = Truncate(adj, LastOf(nested_next_locs_))
  /\ nested_next_locs_' = FrontOf(nested_next_locs_)

recover_memory_nested ==
  /\ ~empty_nested
  /\ RecoverNestedTapes
  /\ RecoverNestedObjects
  /\ RecoverNestedArena

(* Seeded bug: no check of empty_nested().                                   *)
recover_memory_Unchecked ==
  /\ var_stack_' = <<>> /\ var_nochain_stack_' = <<>>
  /\ DeleteAll(var_alloc_stack_)
  /\ var_alloc_stack_' = <<>>
  /\ varis' = <<>> /\ adj' = <<>>
  /\ UNCHANGED marks

recover_memory ==
  /\ empty_nested
  /\ var_stack_' = <<>> /\ var_nochain_stack_' = <<>>
  /\ DeleteAll(var_alloc_stack_)
  /\ var_alloc_stack_' = <<>>
  /\ varis' = <<>> /\ adj' = <<>>
  /\ UNCHANGED marks

(* A nested_rev_autodiff object is constructed, by a client or in chain().   *)
OpenScope ==
  /\ ClientRuns \/ (exception = "none" /\ TopIs("chain"))
  /\ Depth < MaxDepth
  /\ start_nested
  /\ control' = Append(control, [kind |-> "scope"])
  /\ UNCHANGED <<tape, memory, objects, exception>>

(* It goes out of scope.                                                     *)
CloseScope ==
  /\ ClientRuns
  /\ TopIs("scope")
  /\ recover_memory_nested
  /\ control' = FrontOf(control)
  /\ UNCHANGED exception

RecoverMemory ==
  /\ ClientRuns
  /\ recover_memory
  /\ UNCHANGED <<control, exception>>

(* recover_memory with a scope open, set_zero_all_adjoints_nested without    *)
(* one, or the client's own code throws.                                     *)
Throw ==
  /\ "client" \in Throwers
  /\ ClientRuns \/ (exception = "none" /\ TopIs("chain"))
  /\ exception' = "raised"
  /\ UNCHANGED <<tape, marks, memory, objects, control>>

(* Seeded bug: a scope left by exception is not recovered.                   *)
Unwind_NoDestructor ==
  /\ exception # "none"
  /\ control # <<>>
  /\ control' = FrontOf(control)
  /\ exception' = IF TopIs("scope") THEN "left" ELSE exception
  /\ UNCHANGED <<tape, marks, memory, objects>>

(* The exception leaves the innermost scope, sweep or chain() call.          *)
Unwind ==
  /\ exception # "none"
  /\ control # <<>>
  /\ control' = FrontOf(control)
  /\ \/ /\ TopIs("scope")
        /\ recover_memory_nested
        /\ exception' = "left"
     \/ /\ ~TopIs("scope")
        /\ UNCHANGED <<tape, marks, memory, objects, exception>>

Catch ==
  /\ exception # "none"
  /\ exception' = "none"
  /\ \/ /\ control = <<>>
        /\ recover_memory
     \/ /\ control = <<>> \/ TopIs("scope")
        /\ exception = "left" \/ CatchInScope
        /\ UNCHANGED <<tape, marks, memory, objects>>
  /\ UNCHANGED control
-----------------------------------------------------------------------------
(* Seeded bug: the loop runs back to the start of the tape.                  *)
StartSweep_IgnoresNesting(root) ==
  /\ ClientRuns
  /\ \A a \in Usable : adj[a] <= MaxAdj
  /\ adj' = IF root = 0 THEN adj ELSE [adj EXCEPT ![root] = 1]
  /\ control' = Append(control,
       [kind |-> "grad", i |-> Len(var_stack_), beginning |-> 0,
        start |-> adj'])
  /\ UNCHANGED <<tape, marks, varis, objects, exception>>

(* grad() when root is 0, grad(vi) otherwise: the loop bounds are read once. *)
(* In a scope that chain() opened, the bound on adjoints leaves out those of *)
(* the sweep that is under way.                                              *)
StartSweep(root) ==
  /\ ClientRuns
  /\ \A a \in Usable : adj[a] <= MaxAdj
  /\ adj' = IF root = 0 THEN adj ELSE [adj EXCEPT ![root] = 1]
  /\ control' = Append(control,
       [kind |-> "grad",
        i |-> Len(var_stack_),
        beginning |-> IF empty_nested THEN 0 ELSE Len(var_stack_) - nested_size,
        start |-> adj'])
  /\ UNCHANGED <<tape, marks, varis, objects, exception>>

(* One turn of the loop: chain() of the next vari, which adds to adjoints at *)
(* once or first runs nested scopes.                                         *)
SweepStep ==
  /\ exception = "none"
  /\ TopIs("grad")
  /\ Top.i > Top.beginning
  /\ LET a == var_stack_[Top.i]
         turned == [control EXCEPT ![Len(control)].i = @ - 1]
     IN  /\ varis[a].built
         /\ \/ /\ ~varis[a].nests
               /\ adj' = Chained(a)
               /\ control' = turned
            \/ /\ varis[a].nests
               /\ adj' = adj
               /\ control' = Append(turned, [kind |-> "chain", vari |-> a])
  /\ UNCHANGED <<tape, marks, varis, objects, exception>>

ChainReturns ==
  /\ exception = "none"
  /\ TopIs("chain")
  /\ adj' = Chained(Top.vari)
  /\ control' = FrontOf(control)
  /\ UNCHANGED <<tape, marks, varis, objects, exception>>

EndSweep ==
  /\ exception = "none"
  /\ TopIs("grad")
  /\ Top.i = Top.beginning
  /\ control' = FrontOf(control)
  /\ UNCHANGED <<tape, marks, memory, objects, exception>>

SetZero(addresses) ==
  adj' = [a \in Live |-> IF a \in addresses THEN 0 ELSE adj[a]]

set_zero_all_adjoints ==
  /\ ClientRuns
  /\ ~SweepRuns
  /\ SetZero(RangeOf(var_stack_) \cup RangeOf(var_nochain_stack_))
  /\ UNCHANGED <<tape, marks, varis, objects, control, exception>>

(* Seeded bug: starts at start1 - 1, the last vari of the outer scope.       *)
NestedVaris_OneEarly ==
  {var_stack_[i] : i \in {j \in DOMAIN var_stack_ :
                           j >= LastOf(nested_var_stack_sizes_)}}
  \cup
  {var_nochain_stack_[i] :
     i \in LastOf(nested_var_nochain_stack_sizes_) + 1
           .. Len(var_nochain_stack_)}

(* What the two loops of set_zero_all_adjoints_nested run over.              *)
NestedVaris ==
  {var_stack_[i] : i \in LastOf(nested_var_stack_sizes_) + 1 .. Len(var_stack_)}
  \cup
  {var_nochain_stack_[i] :
     i \in LastOf(nested_var_nochain_stack_sizes_) + 1
           .. Len(var_nochain_stack_)}

set_zero_all_adjoints_nested ==
  /\ ClientRuns
  /\ ~empty_nested
  /\ SetZero(NestedVaris)
  /\ UNCHANGED <<tape, marks, varis, objects, control, exception>>

Build ==
  \/ NewVar
  \/ NewOp
  \/ NewCallback
  \/ NewVariThrows
  \/ \E c \in ChainableIds : NewChainable(c)
  \/ \E c \in ChainableIds : NewChainableThrows(c)

Sweep ==
  \/ \E root \in Usable \cup {0} : StartSweep(root)
  \/ SweepStep
  \/ ChainReturns
  \/ EndSweep
  \/ set_zero_all_adjoints
  \/ set_zero_all_adjoints_nested

Manage ==
  \/ OpenScope
  \/ CloseScope
  \/ RecoverMemory
  \/ Throw
  \/ Unwind
  \/ Catch

Next == Build \/ Sweep \/ Manage

Spec == Init /\ [][Next]_vars
-----------------------------------------------------------------------------
Injective(s) == \A i, j \in DOMAIN s : s[i] = s[j] => i = j

Frame ==
  [kind : {"scope"}]
    \cup [kind : {"chain"}, vari : Nat]
    \cup [kind : {"grad"}, i : Nat, beginning : Nat, start : Seq(Int)]

TypeOK ==
  /\ var_stack_ \in Seq(Nat) /\ var_nochain_stack_ \in Seq(Nat)
  /\ var_alloc_stack_ \in Seq(ChainableIds \cup {Freed})
  /\ nested_var_stack_sizes_ \in Seq(Nat)
  /\ nested_var_nochain_stack_sizes_ \in Seq(Nat)
  /\ nested_var_alloc_stack_starts_ \in Seq(Nat)
  /\ nested_next_locs_ \in Seq(Nat)
  /\ varis \in Seq(Vari)
  /\ adj \in Seq(Int) /\ Len(adj) = Len(varis)
  /\ heap \subseteq ChainableIds /\ badDelete \in BOOLEAN
  /\ control \in Seq(Frame)
  /\ exception \in {"none", "raised", "left"}

(* Every vari in live arena memory is on exactly one of the two stacks, once,*)
(* and the stacks hold nothing else: no sweep or zeroing can reach recovered *)
(* memory, none can miss a vari or visit it twice (start_nested,             *)
(* recover_memory_nested, recover_memory, the vari constructors).            *)
TapeMatchesArena ==
  /\ Injective(var_stack_ \o var_nochain_stack_)
  /\ RangeOf(var_stack_) \cup RangeOf(var_nochain_stack_) = Live

(* There is one mark per open scope in each of the four mark vectors, so the *)
(* destructor of nested_rev_autodiff never throws and memalloc_ is never     *)
(* recovered without a mark; and the marks of one scope cut the stacks and   *)
(* the arena at the same vari.                                               *)
MarksInLockstep ==
  /\ Depth = Cardinality({k \in DOMAIN control : control[k].kind = "scope"})
  /\ Len(nested_var_nochain_stack_sizes_) = Depth
  /\ Len(nested_var_alloc_stack_starts_) = Depth
  /\ Len(nested_next_locs_) = Depth
  /\ \A k \in 1 .. Depth :
       /\ \A i \in DOMAIN var_stack_ :
            i <= nested_var_stack_sizes_[k]
              <=> var_stack_[i] <= nested_next_locs_[k]
       /\ \A i \in DOMAIN var_nochain_stack_ :
            i <= nested_var_nochain_stack_sizes_[k]
              <=> var_nochain_stack_[i] <= nested_next_locs_[k]

(* The chainable_alloc objects that exist are those on var_alloc_stack_,     *)
(* each once: none leaks and none is deleted twice, through nested scopes    *)
(* left by return or by exception (recover_memory_nested, recover_memory).   *)
(* What else is there are pointers left by constructors that threw.          *)
ChainablesTracked ==
  /\ \A i, j \in DOMAIN var_alloc_stack_ :
       var_alloc_stack_[i] # Freed /\ var_alloc_stack_[i] = var_alloc_stack_[j] => i = j
  /\ RangeOf(var_alloc_stack_) \ {Freed} = heap

(* What a vari on the tape needs in its chain() still exists: its operands,  *)
(* the vari whose adjoint it reads and the chainable objects it holds.       *)
ChainReadsLiveMemory ==
  \A i \in DOMAIN var_stack_ :
    LET vari == varis[var_stack_[i]]
    IN  /\ vari.from \in Live
        /\ \A k \in DOMAIN vari.ops : vari.ops[k].v \in Live
        /\ vari.holds \subseteq heap

(* While chain() runs nested scopes of its own, the grad() loop that called  *)
(* it keeps a valid index and the vari under it (grad, nested_rev_autodiff). *)
SweepSurvivesNesting ==
  \A k \in DOMAIN control :
    /\ control[k].kind = "grad" =>
         control[k].beginning <= control[k].i /\ control[k].i <= Len(var_stack_)
    /\ control[k].kind = "chain" =>
         /\ control[k - 1].kind = "grad"
         /\ control[k - 1].i < Len(var_stack_)
         /\ var_stack_[control[k - 1].i + 1] = control[k].vari

(* No sweep comes upon a vari whose constructor threw (grad).                *)
SweptAreBuilt ==
  \A k \in DOMAIN control : control[k].kind = "grad" =>
    \A j \in control[k].beginning + 1 .. control[k].i :
      varis[var_stack_[j]].built

(* set_zero_all_adjoints_nested zeroes the adjoint of every vari of the      *)
(* innermost scope and of no other.                                          *)
NestedZeroingIsLocal ==
  [][set_zero_all_adjoints_nested =>
       \A a \in Live :
         adj'[a] = IF a > LastOf(nested_next_locs_) THEN 0 ELSE adj[a]]_vars

(* The tape uses its allocator only as the abstract arena allows: no vari is *)
(* placed on live memory, nested recovery happens with a mark, full recovery *)
(* without one.                                                              *)
ArenaView == INSTANCE Arena WITH
  Lens <- {1}, BlockIds <- {0}, failed <- FALSE, depth <- Len(nested_next_locs_),
  live <- {[blk |-> 0, off |-> a, len |-> 1,
            lvl |-> Cardinality({k \in DOMAIN nested_next_locs_ :
                                   nested_next_locs_[k] < a})] : a \in Live}

UsesArena == ArenaView!Spec

(* "it is destructed only when the chainable stack memory is recovered"      *)
(* (chainable_object.hpp:49): no chainable object is deleted that is gone.   *)
DeletedOnce == ~badDelete

ChainableSymmetry == Permutations(ChainableIds)
=============================================================================
