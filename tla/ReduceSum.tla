----------------------------- MODULE ReduceSum -----------------------------
(***************************************************************************)
(* Sums and maps evaluated in parallel by tasks of the TBB: reduce_sum for *)
(* var (rev/functor/reduce_sum.hpp), for double (prim/functor/             *)
(* reduce_sum.hpp) and map_rect_concurrent.  Several chains run at once,   *)
(* each on the tape of a thread; the terms of a sum are run in ranges by   *)
(* any threads.                                                            *)
(*                                                                         *)
(* Values are left out: sum_, adjoints and partials count how often they   *)
(* hold the contribution of each term.  A reducer is named by its first    *)
(* term.  The TBB is external: it splits a reducer whose range is not all  *)
(* run, runs its ranges in order, joins neighbours that are done, and lets *)
(* a thread that waits for tasks run others, in an isolated region only    *)
(* those of the region (MayTake).                                          *)
(*                                                                         *)
(* A chain builds its expression on the tape of its thread, calls, then    *)
(* does grad() and recover_memory() (rev/core), outside nested scopes.  A  *)
(* range may call as well (CallInRange), any number of times and ranges    *)
(* deep: its thread then waits inside the nested scope of the range, to    *)
(* which the varis of that call belong.  Both kinds of call have the names *)
(* of Chains.                                                              *)
(***************************************************************************)
EXTENDS Integers, Sequences

CONSTANTS
  Threads,
  Chains,     \* names of chains and of the calls made by ranges
  N,          \* number of terms of a sum, jobs of a map
  Kinds,      \* what chains call: subset of {"reduce_sum", "double", "map_rect"}
  MayThrow    \* whether a term may throw

ASSUME ReduceSumAssumption ==
  /\ N \in Nat \ {0}
  /\ Kinds \subseteq {"reduce_sum", "double", "map_rect"}
  /\ MayThrow \in BOOLEAN

Terms == 1 .. N

VARIABLES
  phase,      \* per chain: what it does
  kind,       \* per chain: what it has called, "none" between calls
  failed,     \* per chain: a term has thrown, the call is being cancelled
  reducers,   \* per chain and first term
  partials,   \* per chain: sliced_partials_, or job_output of map_rect
  stack,      \* per thread: the chains, ranges and their calls it is running
  tape        \* per thread: whose varis are on instance_, outside nested scopes

call == <<kind, failed, reducers, partials>>
vars == <<phase, call, stack, tape>>

Zeros == [i \in Terms |-> 0]
Plus(f, g) == [i \in Terms |-> f[i] + g[i]]
Part(first, last) ==
  [i \in Terms |-> IF first <= i /\ i <= last THEN 1 ELSE 0]
Counts == [Terms -> {0, 1}]   \* no term is ever counted twice
NoVector == <<>>              \* an Eigen vector of size 0

Reducer ==
  [last : 0 .. N,     \* the last term it is to run; 0: no such reducer
   next : 0 .. N + 1, \* the first it has not run yet
   upto : 0 .. N,     \* the end of the range being run, 0 if none
   holder : BOOLEAN,  \* args_tuple_holder_ is set
   copied : Counts,   \* adjoints of the copies of the shared arguments
   sum_ : Counts,
   args_adjoints_ : Counts \cup {NoVector}]

(* The members as both constructors leave them.                              *)
Fresh(first, last) ==
  [last |-> last, next |-> first, upto |-> 0, holder |-> FALSE,
   copied |-> Zeros, sum_ |-> Zeros, args_adjoints_ |-> NoVector]

Absent == Fresh(0, 0)
Exists(c, b) == reducers[c][b].last # 0
HasRun(c, b) == reducers[c][b].next = reducers[c][b].last + 1

(* A frame of the stack: a chain or a call made by the range below it, or    *)
(* with term # 0 a range of that reducer.                                    *)
ChainFrame(c) == [chain |-> c, term |-> 0]
RangeFrame(c, b) == [chain |-> c, term |-> b]
Top(t) == stack[t][Len(stack[t])]
TopIs(t, frame) == stack[t] # <<>> /\ Top(t) = frame
Push(t, frame) == stack' = [stack EXCEPT ![t] = Append(@, frame)]
Pop(t) == stack' = [stack EXCEPT ![t] = SubSeq(@, 1, Len(@) - 1)]

(* The frame at k is that of a call made by a range.                         *)
InRange(t, k) == k > 1 /\ stack[t][k - 1].term # 0

Waits(t, c) == TopIs(t, ChainFrame(c)) /\ phase[c] = "reducing"

(* Seeded bug: no call isolates.                                             *)
Isolates_Never(c) == FALSE

(* this_task_arena::isolate around the wait.                                 *)
Isolates(c) == kind[c] \in {"reduce_sum", "map_rect"}

(* Thread t may take a task from outside the call of any chain, or one of    *)
(* the call of chain c.  (Under a range of an isolated region the TBB gives  *)
(* a wait that does not isolate fewer tasks than this.)                      *)
MayTakeAny(t) ==
  stack[t] = <<>> \/ \E c \in Chains : Waits(t, c) /\ ~Isolates(c)
MayTake(t, c) == MayTakeAny(t) \/ Waits(t, c)
-----------------------------------------------------------------------------
Init ==
  /\ phase = [c \in Chains |-> "idle"]
  /\ kind = [c \in Chains |-> "none"]
  /\ failed = [c \in Chains |-> FALSE]
  /\ reducers = [c \in Chains |-> [b \in Terms |-> Absent]]
  /\ partials = [c \in Chains |-> Zeros]
  /\ stack = [t \in Threads |-> <<>>]
  /\ tape = [t \in Threads |-> <<>>]

(* A thread starts on an iteration of chain c.                               *)
BeginChain(t, c) ==
  /\ phase[c] = "idle"
  /\ MayTakeAny(t)
  /\ phase' = [phase EXCEPT ![c] = "building"]
  /\ Push(t, ChainFrame(c))
  /\ tape' = [tape EXCEPT ![t] = Append(@, c)]
  /\ UNCHANGED call

(* The call; the first reducer has the whole range.                          *)
Reduces(c, k) ==
  /\ phase' = [phase EXCEPT ![c] = "reducing"]
  /\ kind' = [kind EXCEPT ![c] = k]
  /\ reducers' = [reducers EXCEPT
       ![c] = [b \in Terms |-> IF b = 1 THEN Fresh(1, N) ELSE Absent]]
  /\ UNCHANGED <<failed, partials, tape>>

Call(t, c, k) ==
  /\ phase[c] = "building"
  /\ TopIs(t, ChainFrame(c))
  /\ Reduces(c, k)
  /\ UNCHANGED stack

(* The user's function calls from within the range thread t runs.            *)
CallInRange(t, c, k) ==
  /\ phase[c] = "idle"
  /\ stack[t] # <<>> /\ Top(t).term # 0
  /\ Reduces(c, k)
  /\ Push(t, ChainFrame(c))

(* Seeded bug: a copy of the shared arguments is used again as it is.        *)
SharedAdjoints_Kept(r) == IF r.holder THEN r.copied ELSE Zeros

(* The adjoints a range starts with: those of a deep copy, or of one made    *)
(* for an earlier range after set_zero_all_adjoints.                         *)
SharedAdjoints(r) == Zeros

(* reducer::operator() up to the call of the user's function.                *)
Prepared(k, r, upto) ==
  IF k # "reduce_sum" THEN [r EXCEPT !.upto = upto]
  ELSE [r EXCEPT !.upto = upto, !.holder = TRUE, !.copied = SharedAdjoints(r),
                 !.args_adjoints_ = IF @ = NoVector THEN Zeros ELSE @]

(* The rest of it: grad() adds to the adjoints of the copies, these are      *)
(* added to args_adjoints_, the value to sum_.                               *)
Ran(k, r) ==
  LET terms == Part(r.next, r.upto)
      adjoints == Plus(r.copied, terms)
      done == [r EXCEPT !.next = r.upto + 1, !.upto = 0]
  IN  CASE k = "map_rect" -> done
        [] k = "double" -> [done EXCEPT !.sum_ = Plus(@, terms)]
        [] k = "reduce_sum" ->
             [done EXCEPT !.sum_ = Plus(@, terms), !.copied = adjoints,
                          !.args_adjoints_ = Plus(@, adjoints)]

StartRange(t, c, b, upto) ==
  /\ phase[c] = "reducing" /\ ~failed[c] /\ MayTake(t, c)
  /\ Exists(c, b) /\ reducers[c][b].upto = 0
  /\ reducers[c][b].next <= upto /\ upto <= reducers[c][b].last
  /\ reducers' = [reducers EXCEPT ![c][b] = Prepared(kind[c], @, upto)]
  /\ Push(t, RangeFrame(c, b))
  /\ UNCHANGED <<phase, kind, failed, partials, tape>>

EndRange(t, c, b) ==
  /\ TopIs(t, RangeFrame(c, b))
  /\ reducers' = [reducers EXCEPT ![c][b] = Ran(kind[c], @)]
  /\ partials' = IF kind[c] = "double" THEN partials
                 ELSE [partials EXCEPT ![c] =
                         Plus(@, Part(reducers[c][b].next, reducers[c][b].upto))]
  /\ Pop(t)
  /\ UNCHANGED <<phase, kind, failed, tape>>

(* Seeded bug: the range is put back to be run again.                        *)
RangeThrows_Retries(t, c, b) ==
  /\ MayThrow
  /\ TopIs(t, RangeFrame(c, b))
  /\ reducers' = [reducers EXCEPT ![c][b].upto = 0]
  /\ Pop(t)
  /\ UNCHANGED <<phase, kind, failed, partials, tape>>

(* A term throws: the nested scope is recovered, no more ranges are started. *)
RangeThrows(t, c, b) ==
  /\ MayThrow
  /\ TopIs(t, RangeFrame(c, b))
  /\ failed' = [failed EXCEPT ![c] = TRUE]
  /\ Pop(t)
  /\ UNCHANGED <<phase, kind, reducers, partials, tape>>

(* The split constructor: terms from m on go to a new reducer.               *)
Split(c, b, m) ==
  /\ phase[c] = "reducing" /\ ~failed[c] /\ Exists(c, b)
  /\ reducers[c][b].next < m /\ reducers[c][b].upto < m
  /\ m <= reducers[c][b].last
  /\ reducers' = [reducers EXCEPT ![c][b].last = m - 1,
                                  ![c][m] = Fresh(m, reducers[c][b].last)]
  /\ UNCHANGED <<phase, kind, failed, partials, stack, tape>>

JoinedAdjoints(l, r) ==
  IF l # NoVector /\ r # NoVector THEN Plus(l, r)
  ELSE IF l = NoVector THEN r ELSE l

(* join(rhs), rhs having run the terms that follow.                          *)
Joined(l, r) ==
  [l EXCEPT !.last = r.last, !.next = r.next, !.sum_ = Plus(@, r.sum_),
            !.args_adjoints_ = JoinedAdjoints(@, r.args_adjoints_)]

Join(c, b, m) ==
  /\ phase[c] = "reducing" /\ ~failed[c]
  /\ Exists(c, b) /\ Exists(c, m) /\ m = reducers[c][b].last + 1
  /\ HasRun(c, b) /\ HasRun(c, m)
  /\ reducers' = [reducers EXCEPT
       ![c][b] = Joined(@, reducers[c][m]), ![c][m] = Absent]
  /\ UNCHANGED <<phase, kind, failed, partials, stack, tape>>

(* The call returns to the chain, or to the range.                           *)
Return(t, c) ==
  /\ Waits(t, c) /\ ~failed[c]
  /\ reducers[c][1].last = N /\ HasRun(c, 1)
  /\ phase' = [phase EXCEPT ![c] = "reduced"]
  /\ UNCHANGED <<call, stack, tape>>

(* It rethrows once the ranges under way have ended.                         *)
Rethrow(t, c) ==
  /\ Waits(t, c) /\ failed[c]
  /\ \A u \in Threads : \A k \in DOMAIN stack[u], b \in Terms :
       stack[u][k] # RangeFrame(c, b)
  /\ phase' = [phase EXCEPT ![c] = "failed"]
  /\ UNCHANGED <<call, stack, tape>>

(* The reducers are gone.                                                    *)
Forgets(c) ==
  /\ phase' = [phase EXCEPT ![c] = "idle"]
  /\ kind' = [kind EXCEPT ![c] = "none"]
  /\ failed' = [failed EXCEPT ![c] = FALSE]
  /\ reducers' = [reducers EXCEPT ![c] = [b \in Terms |-> Absent]]
  /\ partials' = [partials EXCEPT ![c] = Zeros]

Ends(t, c) ==
  /\ TopIs(t, ChainFrame(c)) /\ phase[c] \in {"reduced", "failed"}
  /\ Forgets(c)
  /\ Pop(t)

(* grad() unless an exception was caught, and recover_memory().              *)
EndChain(t, c) ==
  /\ ~InRange(t, Len(stack[t]))
  /\ Ends(t, c)
  /\ tape' = [tape EXCEPT ![t] = <<>>]

(* The range goes on with the value, or with the exception: what it does not *)
(* catch it throws on.                                                       *)
EndCall(t, c) ==
  /\ InRange(t, Len(stack[t]))
  /\ Ends(t, c)
  /\ UNCHANGED tape

LeaveRange(t, c) == \E b \in Terms : EndRange(t, c, b) \/ RangeThrows(t, c, b)

Work(t, c) ==
  \/ \E b, upto \in Terms : StartRange(t, c, b, upto)
  \/ LeaveRange(t, c)
  \/ Return(t, c)
  \/ Rethrow(t, c)
  \/ EndCall(t, c)

Next ==
  \/ \E t \in Threads, c \in Chains :
       \/ BeginChain(t, c)
       \/ \E k \in Kinds : Call(t, c, k) \/ CallInRange(t, c, k)
       \/ Work(t, c)
       \/ EndChain(t, c)
  \/ \E c \in Chains, b, m \in Terms : Split(c, b, m) \/ Join(c, b, m)

Spec == Init /\ [][Next]_vars

(* A thread that has work in the arena does it, and what is done is joined;  *)
(* nothing makes a program begin a chain.  A range does not call for ever:   *)
(* one that can end again and again does.                                    *)
FairSpec ==
  /\ Spec
  /\ \A t \in Threads, c \in Chains : WF_vars(Work(t, c))
  /\ \A c \in Chains : /\ WF_vars(\E b, m \in Terms : Join(c, b, m))
                       /\ SF_vars(\E t \in Threads : LeaveRange(t, c))
-----------------------------------------------------------------------------
TypeOK ==
  /\ phase \in [Chains -> {"idle", "building", "reducing", "reduced", "failed"}]
  /\ kind \in [Chains -> Kinds \cup {"none"}]
  /\ failed \in [Chains -> BOOLEAN]
  /\ reducers \in [Chains -> [Terms -> Reducer]]
  /\ partials \in [Chains -> Counts]
  /\ stack \in [Threads -> Seq([chain : Chains, term : 0 .. N])]
  /\ tape \in [Threads -> Seq(Chains)]

Once == [i \in Terms |-> 1]

(* However the range was split, run and joined, a call that returns has      *)
(* every term in its value, in the adjoints of the shared arguments and in   *)
(* those of the sliced ones exactly once (reducer::operator(), the split     *)
(* constructor, join, execute_chunk).                                        *)
ReducesToTheSum ==
  \A c \in Chains : phase[c] = "reduced" =>
    /\ kind[c] # "map_rect" => reducers[c][1].sum_ = Once
    /\ kind[c] # "double" => partials[c] = Once
    /\ kind[c] = "reduce_sum" => reducers[c][1].args_adjoints_ = Once

(* "to ensure that the thread local AD tape ressource is not being modified  *)
(* from a different task" (reduce_sum.hpp:254): while a chain runs, its      *)
(* thread's tape holds its own varis and no others, so that its grad() and   *)
(* recover_memory() touch no other chain.                                    *)
TapeServesOneChain ==
  \A t \in Threads, c \in Chains : \A k \in DOMAIN stack[t] :
    stack[t][k] = ChainFrame(c) /\ ~InRange(t, k) => tape[t] = <<c>>

(* A call that has begun ends: whatever the other threads do, one that waits *)
(* can run what it waits for, on however many levels of calls.               *)
EveryCallReturns ==
  \A c \in Chains : phase[c] = "reducing" ~> phase[c] # "reducing"
=============================================================================
