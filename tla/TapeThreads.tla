---------------------------- MODULE TapeThreads ----------------------------
(***************************************************************************)
(* Which autodiff tape a thread works on when built with STAN_THREADS:     *)
(* AutodiffStackSingleton (rev/core/autodiffstackstorage.hpp), whose       *)
(* thread-local instance_ is what all autodiff code uses; ad_tape_observer *)
(* (init_chainablestack.hpp), which gives threads of the TBB their tape;   *)
(* and ScopedChainableStack (scoped_chainablestack.hpp).                   *)
(*                                                                         *)
(* The TBB is external: it tells every observer of a worker before the     *)
(* worker's first task, of another thread at any time after it first used  *)
(* the TBB, and of both when the thread ends.  A thread that is not the    *)
(* TBB's runs jobs: each, as autodiffstackstorage.hpp:64 asks, constructs  *)
(* a ChainableStack before it uses autodiff.  A thread that has ended is   *)
(* followed by a new one of the same id.  The end of the program is left   *)
(* out.                                                                    *)
(***************************************************************************)
EXTENDS Naturals, Sequences, FiniteSets, TLC

CONSTANTS
  Main, Workers, Users,  \* the threads: the first, the TBB's, the program's
  Observers,             \* ad_tape_observer: one per translation unit
  Tapes,                 \* addresses for new AutodiffStackStorage
  Scopes,                \* ScopedChainableStack instances: their local_stack_
  MaxFrames,             \* bound on the objects on a thread's C++ stack
  Null

ASSUME TapeThreadsAssumption ==
  /\ Main \notin Workers \cup Users /\ Workers \cap Users = {}
  /\ Tapes \cap Scopes = {} /\ Null \notin Tapes \cup Scopes

Threads == {Main} \cup Workers \cup Users
Storages == Tapes \cup Scopes

VARIABLES
  instance_,       \* per thread: the tape in use
  is_initialized,  \* per thread: the flag of init()
  heap,            \* the storages init() has allocated and nobody deleted
  entry,           \* per observer and thread: thread_tape_map_, an entry being
                   \* a nullptr or a ChainableStack, "owner" if own_instance_
  frames,          \* per thread: ChainableStack and activate_scope objects
  locked,          \* the scopes whose local_stack_mutex_ is held
  leaving          \* the threads the TBB is taking leave of

vars == <<instance_, is_initialized, heap, entry, frames, locked, leaving>>

Local(own) == [scope |-> Null, own |-> own, parent |-> Null]
ActiveScope(s, parent) == [scope |-> s, own |-> FALSE, parent |-> parent]
Frame == [scope : Scopes \cup {Null}, own : BOOLEAN, parent : Storages \cup {Null}]
TopFrame(t) == frames[t][Len(frames[t])]
Push(t, f) ==
  Len(frames[t]) < MaxFrames /\ frames' = [frames EXCEPT ![t] = Append(@, f)]
Pop(t) == frames' = [frames EXCEPT ![t] = SubSeq(@, 1, Len(@) - 1)]

(* A thread in the middle of autodiff work: the first one, a worker that     *)
(* every observer was told of, another one in a job.                         *)
Works(t) ==
  /\ t \notin leaving
  /\ t \in Workers => \A o \in Observers : entry[o][t] # "none"
  /\ t \in Users => frames[t] # <<>>

(* Seeded bug: a thread that has had a tape is never given another.          *)
Owns_OnlyOnce(t) == ~is_initialized[t]

(* The result of init() on thread t.                                         *)
Owns(t) == ~is_initialized[t] \/ instance_[t] = Null

Construct(t) ==
  /\ is_initialized' = [is_initialized EXCEPT ![t] = TRUE]
  /\ IF Owns(t)
     THEN \E a \in Tapes \ heap : /\ instance_' = [instance_ EXCEPT ![t] = a]
                                  /\ heap' = heap \cup {a}
     ELSE UNCHANGED <<instance_, heap>>

(* The constructor throws: for want of memory for the object itself, or for  *)
(* that of the tape, when init() has already set its flag.                   *)
ConstructThrows(t) ==
  /\ \/ UNCHANGED is_initialized
     \/ Owns(t) /\ is_initialized' = [is_initialized EXCEPT ![t] = TRUE]
  /\ UNCHANGED <<instance_, heap>>

(* Seeded bug: any instance deletes the tape.                                *)
Destruct_Any(t, own) ==
  /\ heap' = heap \ {instance_[t]}
  /\ instance_' = [instance_ EXCEPT ![t] = Null]
  /\ UNCHANGED is_initialized

(* ~AutodiffStackSingleton on thread t.                                      *)
Destruct(t, own) ==
  /\ IF own THEN /\ heap' = heap \ {instance_[t]}
                 /\ instance_' = [instance_ EXCEPT ![t] = Null]
            ELSE UNCHANGED <<heap, instance_>>
  /\ UNCHANGED is_initialized
-----------------------------------------------------------------------------
(* The observers were constructed on the first thread: the first one's entry *)
(* owns its tape, the tape of address a.                                     *)
Init ==
  \E a \in Tapes, first \in Observers :
    /\ instance_ = [t \in Threads |-> IF t = Main THEN a ELSE Null]
    /\ is_initialized = [t \in Threads |-> t = Main]
    /\ heap = {a}
    /\ entry = [o \in Observers |-> [t \in Threads |->
         IF t # Main THEN "none" ELSE IF o = first THEN "owner" ELSE "plain"]]
    /\ frames = [t \in Threads |-> <<>>]
    /\ locked = {}
    /\ leaving = {}

(* Seeded bugs: the result of try_lock is ignored; unlock is left out.       *)
TryLock_Ignored(s) == TRUE
Unlocked_Never(s) == locked

TryLock(s) == s \notin locked

Unlocked(s) == locked \ {s}

(* A ChainableStack object: the start of a job, or another one within it.    *)
ConstructLocal(t) ==
  /\ Works(t) \/ t \in Users \ leaving
  /\ Construct(t)
  /\ Push(t, Local(Owns(t)))
  /\ UNCHANGED <<entry, locked, leaving>>

(* The same when it throws: the job does not start.                          *)
ConstructLocalThrows(t) ==
  /\ Works(t) \/ t \in Users \ leaving
  /\ ConstructThrows(t)
  /\ UNCHANGED <<entry, frames, locked, leaving>>

DestructLocal(t) ==
  /\ frames[t] # <<>> /\ TopFrame(t).scope = Null
  /\ Destruct(t, TopFrame(t).own)
  /\ Pop(t)
  /\ UNCHANGED <<entry, locked, leaving>>

(* execute(): activate_scope; when the mutex is held it throws instead and   *)
(* nothing has changed.                                                      *)
Execute(t, s) ==
  /\ Works(t)
  /\ TryLock(s)
  /\ locked' = locked \cup {s}
  /\ instance_' = [instance_ EXCEPT ![t] = s]
  /\ Push(t, ActiveScope(s, instance_[t]))
  /\ UNCHANGED <<is_initialized, heap, entry, leaving>>

(* ~activate_scope, on return from f and when f throws.                      *)
EndExecute(t) ==
  /\ frames[t] # <<>> /\ TopFrame(t).scope # Null
  /\ instance_' = [instance_ EXCEPT ![t] = TopFrame(t).parent]
  /\ locked' = Unlocked(TopFrame(t).scope)
  /\ Pop(t)
  /\ UNCHANGED <<is_initialized, heap, entry, leaving>>

(* on_scheduler_entry.                                                       *)
OnSchedulerEntry(o, t) ==
  /\ t \in Workers \cup Users /\ t \notin leaving
  /\ entry[o][t] = "none"
  /\ entry' = [entry EXCEPT ![o][t] = IF Owns(t) THEN "owner" ELSE "plain"]
  /\ Construct(t)
  /\ UNCHANGED <<frames, locked, leaving>>

(* It throws from make_unique, on a thread of the program (on a worker the   *)
(* program ends): the nullptr stays.                                         *)
OnSchedulerEntryThrows(o, t) ==
  /\ t \in Users \ leaving
  /\ entry[o][t] = "none"
  /\ entry' = [entry EXCEPT ![o][t] = "nullptr"]
  /\ ConstructThrows(t)
  /\ UNCHANGED <<frames, locked, leaving>>

(* The thread ends, its last job over: the TBB starts to tell the observers. *)
Leave(t) ==
  /\ t \in Workers \cup Users /\ t \notin leaving
  /\ frames[t] = <<>>
  /\ leaving' = leaving \cup {t}
  /\ UNCHANGED <<instance_, is_initialized, heap, entry, frames, locked>>

(* on_scheduler_exit.                                                        *)
OnSchedulerExit(o, t) ==
  /\ t \in leaving /\ entry[o][t] # "none"
  /\ entry' = [entry EXCEPT ![o][t] = "none"]
  /\ Destruct(t, entry[o][t] = "owner")
  /\ UNCHANGED <<frames, locked, leaving>>

(* The thread is gone and its thread-local variables; a new one has its id.  *)
EndThread(t) ==
  /\ t \in leaving
  /\ \A o \in Observers : entry[o][t] = "none"
  /\ leaving' = leaving \ {t}
  /\ instance_' = [instance_ EXCEPT ![t] = Null]
  /\ is_initialized' = [is_initialized EXCEPT ![t] = FALSE]
  /\ UNCHANGED <<heap, entry, frames, locked>>

Next ==
  \E t \in Threads :
    \/ ConstructLocal(t) \/ ConstructLocalThrows(t) \/ DestructLocal(t)
    \/ \E s \in Scopes : Execute(t, s)
    \/ EndExecute(t)
    \/ \E o \in Observers : \/ OnSchedulerEntry(o, t)
                            \/ OnSchedulerEntryThrows(o, t)
                            \/ OnSchedulerExit(o, t)
    \/ Leave(t)
    \/ EndThread(t)

Spec == Init /\ [][Next]_vars
-----------------------------------------------------------------------------
(* The storages thread t can reach, now or when a scope ends.                *)
Reachable(t) ==
  ({instance_[t]} \cup {frames[t][k].parent : k \in DOMAIN frames[t]}) \ {Null}

(* The scopes thread t is executing, and where they are on its stack.        *)
ScopeFrames(t) == {k \in DOMAIN frames[t] : frames[t][k].scope # Null}
Executing(t) == {frames[t][k].scope : k \in ScopeFrames(t)}

(* A mutex is held exactly while a thread executes its scope.                *)
TypeOK ==
  /\ instance_ \in [Threads -> Storages \cup {Null}]
  /\ is_initialized \in [Threads -> BOOLEAN]
  /\ heap \subseteq Tapes
  /\ entry \in [Observers -> [Threads -> {"none", "nullptr", "plain", "owner"}]]
  /\ frames \in [Threads -> Seq(Frame)]
  /\ leaving \subseteq Threads \ {Main}
  /\ locked = UNION {Executing(t) : t \in Threads}

(* "Whenever STAN_THREADS is defined then all created child threads must     *)
(* instantiate a AutodiffStackSingleton" (autodiffstackstorage.hpp:64): a    *)
(* thread at work has a tape, what it can reach was not deleted, and no      *)
(* other thread can reach it, in whatever order observers, jobs and scopes   *)
(* begin and end.                                                            *)
TapesServeTheirThread ==
  \A t \in Threads :
    /\ Works(t) => instance_[t] # Null
    /\ Reachable(t) \subseteq heap \cup Executing(t)
    /\ \A u \in Threads \ {t} : Reachable(t) \cap Reachable(u) = {}

Owners(t) ==
  {o \in Observers : entry[o][t] = "owner"}
  \cup {k \in DOMAIN frames[t] : frames[t][k].own}

(* "it is the only one instance with the private member own_instance_ being  *)
(* true" (autodiffstackstorage.hpp:57): the tape a thread was given has one  *)
(* owner on it and is not lost while the owner lives.                        *)
OneOwnerPerTape ==
  /\ \A t \in Threads : Cardinality(Owners(t)) = Cardinality(Reachable(t) \cap heap)
  /\ \A a \in heap : \E t \in Threads : a \in Reachable(t)

(* The tape under the scopes of thread t.                                    *)
Base(t) ==
  IF ScopeFrames(t) = {} THEN instance_[t]
  ELSE frames[t][CHOOSE k \in ScopeFrames(t) :
                   \A j \in ScopeFrames(t) : k <= j].parent

(* No callback, inner ChainableStack or scope, returned from or thrown out   *)
(* of, changes the tape of the work a thread is in the middle of.            *)
WorkKeepsItsTape ==
  [][\A t \in Threads : Works(t) /\ Works(t)' => Base(t)' = Base(t)]_vars
-----------------------------------------------------------------------------
Symmetric ==
  Permutations(Users) \cup Permutations(Workers) \cup Permutations(Observers)
  \cup Permutations(Tapes) \cup Permutations(Scopes)
=============================================================================
