------------------------- MODULE TapeThreads_proofs -------------------------
(***************************************************************************)
(* Proofs about the tapes of threads, for any number of threads, observers, *)
(* scopes and frames.                                                      *)
(***************************************************************************)
EXTENDS TapeThreads, SequenceTheorems, FiniteSetTheorems, TLAPS

(* The scopes of thread t nest: each was entered from the one below it, the  *)
(* lowest from a tape, and the thread works on the storage of the highest.   *)
Nested(t) ==
  /\ \A k \in DOMAIN frames[t] :
       frames[t][k].scope = Null => frames[t][k].parent = Null
  /\ \A k \in ScopeFrames(t) :
       \/ /\ frames[t][k].parent \in Tapes
          /\ \A j \in ScopeFrames(t) : k <= j
       \/ \E j \in ScopeFrames(t) :
            j < k /\ frames[t][k].parent = frames[t][j].scope
  /\ \A j, k \in ScopeFrames(t) :
       j < k /\ (\A i \in ScopeFrames(t) : i <= j \/ k <= i) =>
         frames[t][k].parent = frames[t][j].scope
  /\ \A k \in ScopeFrames(t) :
       (\A j \in ScopeFrames(t) : j <= k) => instance_[t] = frames[t][k].scope
  /\ \A j, k \in ScopeFrames(t) : frames[t][j].scope = frames[t][k].scope => j = k
  /\ ScopeFrames(t) # {} =>
       /\ instance_[t] \in Executing(t)
       /\ \E k \in ScopeFrames(t) : frames[t][k].parent \in Tapes
  /\ ScopeFrames(t) = {} => instance_[t] \in Tapes \cup {Null}

(* Thread t has no tape and nothing that owns one; or it has one, and either *)
(* one entry owns it or the lowest frame, a job, does.                       *)
Owned(t) ==
  /\ \A o1, o2 \in Observers :
       entry[o1][t] = "owner" /\ entry[o2][t] = "owner" => o1 = o2
  /\ \A k \in DOMAIN frames[t] : frames[t][k].own =>
       /\ k = 1 /\ frames[t][1].scope = Null /\ t \in Users
       /\ \A o \in Observers : entry[o][t] # "owner"
  /\ instance_[t] = Null =>
       frames[t] = <<>> /\ \A o \in Observers : entry[o][t] # "owner"
  /\ instance_[t] # Null =>
       \/ \E o \in Observers : entry[o][t] = "owner"
       \/ frames[t] # <<>> /\ frames[t][1].own

(* What has happened to thread t, of its kind.                               *)
Life(t) ==
  /\ ~is_initialized[t] => instance_[t] = Null
  /\ t = Main => instance_[t] # Null
  /\ t \in leaving => frames[t] = <<>>
  /\ t \in Workers /\ t \notin leaving =>
       \A o \in Observers :
         entry[o][t] # "none" => entry[o][t] # "nullptr" /\ instance_[t] # Null

Typed ==
  /\ instance_ \in [Threads -> Storages \cup {Null}]
  /\ is_initialized \in [Threads -> BOOLEAN]
  /\ heap \subseteq Tapes
  /\ entry \in [Observers -> [Threads -> {"none", "nullptr", "plain", "owner"}]]
  /\ frames \in [Threads -> Seq(Frame)]
  /\ leaving \subseteq Threads \ {Main}

(* Two threads share nothing, and the heap and the mutexes are what the      *)
(* threads reach and execute.                                                *)
Apart(t, u) == Reachable(t) \cap Reachable(u) = {} /\ Executing(t) \cap Executing(u) = {}

Shared ==
  /\ \A t, u \in Threads : t # u => Apart(t, u)
  /\ heap = UNION {Reachable(t) \cap Tapes : t \in Threads}
  /\ locked = UNION {Executing(t) : t \in Threads}

Good(t) == Nested(t) /\ Owned(t) /\ Life(t)

IInv == Typed /\ (\A t \in Threads : Good(t)) /\ Shared
-----------------------------------------------------------------------------
(* The frames of a thread, and what is pushed and popped.                    *)
LEMMA FrameProperties ==
  ASSUME Typed, NEW t \in Threads
  PROVE  /\ frames[t] \in Seq(Frame) /\ Len(frames[t]) \in Nat
         /\ DOMAIN frames[t] = 1 .. Len(frames[t])
         /\ \A k \in DOMAIN frames[t] : frames[t][k] \in Frame
         /\ ScopeFrames(t) \subseteq 1 .. Len(frames[t])
         /\ \A k \in ScopeFrames(t) : frames[t][k].scope \in Scopes
         /\ frames[t] # <<>> => Len(frames[t]) \in DOMAIN frames[t]
         /\ frames[t] = <<>> => ScopeFrames(t) = {}
  <1>1. frames[t] \in Seq(Frame)
    BY DEF Typed
  <1>2. Len(frames[t]) \in Nat /\ DOMAIN frames[t] = 1 .. Len(frames[t])
    BY <1>1
  <1>3. \A k \in DOMAIN frames[t] : frames[t][k] \in Frame
    BY <1>1
  <1>4. frames[t] # <<>> => Len(frames[t]) \in DOMAIN frames[t]
    BY <1>1, <1>2, EmptySeq
  <1> QED
    BY <1>1, <1>2, <1>3, <1>4 DEF ScopeFrames, Frame

(* Thread u is not concerned by a step.                                      *)
Untouched(u) ==
  /\ instance_'[u] = instance_[u]
  /\ is_initialized'[u] = is_initialized[u]
  /\ frames'[u] = frames[u]
  /\ \A o \in Observers : entry'[o][u] = entry[o][u]
  /\ u \in leaving' <=> u \in leaving

LEMMA UntouchedKeeps ==
  ASSUME NEW u \in Threads, Untouched(u)
  PROVE  /\ Good(u) => Good(u)'
         /\ Reachable(u)' = Reachable(u)
         /\ Executing(u)' = Executing(u)
         /\ ScopeFrames(u)' = ScopeFrames(u)
  <1>1. ScopeFrames(u)' = ScopeFrames(u)
    BY DEF Untouched, ScopeFrames
  <1>2. Reachable(u)' = Reachable(u) /\ Executing(u)' = Executing(u)
    BY <1>1 DEF Untouched, Reachable, Executing
  <1>3. Nested(u) => Nested(u)'
    BY <1>1, <1>2 DEF Untouched, Nested
  <1>4. Owned(u) => Owned(u)'
    BY DEF Untouched, Owned
  <1>5. Life(u) => Life(u)'
    BY DEF Untouched, Life
  <1> QED
    BY <1>1, <1>2, <1>3, <1>4, <1>5 DEF Good

(* A step of thread t alone, after which it shares nothing with the others,  *)
(* and that takes to and from heap and mutexes what it takes and leaves.     *)
LEMMA SharedAfterStep ==
  ASSUME Shared, NEW t \in Threads,
         \A u \in Threads \ {t} : Untouched(u),
         \A u \in Threads \ {t} : Apart(t, u)',
         heap' = (heap \ Reachable(t)) \cup (Reachable(t)' \cap Tapes),
         locked' = (locked \ Executing(t)) \cup Executing(t)'
  PROVE  Shared'
  <1>1. ASSUME NEW u \in Threads \ {t}
        PROVE  Reachable(u)' = Reachable(u) /\ Executing(u)' = Executing(u)
    BY <1>1, UntouchedKeeps
  <1>2. ASSUME NEW u \in Threads, NEW v \in Threads, u # v
        PROVE  Apart(u, v)'
    <2>1. CASE u # t /\ v # t
      BY <1>1, <1>2, <2>1 DEF Shared, Apart
    <2>2. CASE u = t
      BY <1>2, <2>2
    <2>3. CASE v = t
      <3>1. Apart(t, u)'
        BY <1>2, <2>3
      <3> QED
        BY <3>1, <2>3 DEF Apart
    <2> QED
      BY <2>1, <2>2, <2>3
  <1>3. heap' = UNION {Reachable(u)' \cap Tapes : u \in Threads}
    <2>1. \A a : a \in heap <=> \E u \in Threads : a \in Reachable(u) /\ a \in Tapes
      BY DEF Shared
    <2>2. \A u \in Threads \ {t} : Reachable(t) \cap Reachable(u) = {}
      BY DEF Shared, Apart
    <2>3. \A a : a \in heap' <=> \E u \in Threads : a \in Reachable(u)' /\ a \in Tapes
      BY <1>1, <2>1, <2>2
    <2> QED
      BY <2>3
  <1>4. locked' = UNION {Executing(u)' : u \in Threads}
    <2>1. \A s : s \in locked <=> \E u \in Threads : s \in Executing(u)
      BY DEF Shared
    <2>2. \A u \in Threads \ {t} : Executing(t) \cap Executing(u) = {}
      BY DEF Shared, Apart
    <2>3. \A s : s \in locked' <=> \E u \in Threads : s \in Executing(u)'
      BY <1>1, <2>1, <2>2
    <2> QED
      BY <2>3
  <1> QED
    BY <1>2, <1>3, <1>4 DEF Shared

LEMMA InitIInv == Init => IInv
  <1> SUFFICES ASSUME Init PROVE IInv
    OBVIOUS
  <1>1. PICK a \in Tapes, first \in Observers :
          /\ instance_ = [t \in Threads |-> IF t = Main THEN a ELSE Null]
          /\ is_initialized = [t \in Threads |-> t = Main]
          /\ heap = {a}
          /\ entry = [o \in Observers |-> [t \in Threads |->
               IF t # Main THEN "none" ELSE IF o = first THEN "owner" ELSE "plain"]]
          /\ frames = [t \in Threads |-> <<>>]
          /\ locked = {} /\ leaving = {}
    BY DEF Init
  <1>2. Main \in Threads /\ a # Null /\ Main \notin Workers
    BY TapeThreadsAssumption DEF Threads
  <1>3. Typed
    BY <1>1 DEF Typed, Storages
  <1>4. ASSUME NEW t \in Threads
        PROVE  /\ DOMAIN frames[t] = {} /\ ScopeFrames(t) = {} /\ Executing(t) = {}
               /\ Reachable(t) = IF t = Main THEN {a} ELSE {}
    <2>1. DOMAIN frames[t] = {} /\ ScopeFrames(t) = {}
      BY <1>1 DEF ScopeFrames
    <2> QED
      BY <1>1, <1>2, <2>1 DEF Executing, Reachable
  <1>5. ASSUME NEW t \in Threads
        PROVE  Good(t)
    <2>1. Nested(t)
      BY <1>1, <1>4 DEF Nested
    <2>2. Owned(t)
      BY <1>1, <1>2, <1>4 DEF Owned
    <2>3. Life(t)
      BY <1>1, <1>2 DEF Life
    <2> QED
      BY <2>1, <2>2, <2>3 DEF Good
  <1>6. Shared
    <2>1. \A t, u \in Threads : t # u => Apart(t, u)
      BY <1>4 DEF Apart
    <2> QED
      BY <1>1, <1>2, <1>4, <2>1 DEF Shared
  <1> QED
    BY <1>3, <1>5, <1>6 DEF IInv
-----------------------------------------------------------------------------
(* What a push and a pop leave of the frames of thread t.                    *)
LEMMA Pushed ==
  ASSUME Typed, NEW t \in Threads, NEW f \in Frame, Push(t, f),
         NEW n \in Nat, n = Len(frames[t])
  PROVE  /\ frames' \in [Threads -> Seq(Frame)]
         /\ \A u \in Threads \ {t} : frames'[u] = frames[u]
         /\ frames'[t] # <<>>
         /\ DOMAIN frames[t] = 1 .. n /\ DOMAIN frames'[t] = 1 .. n + 1
         /\ \A k \in 1 .. n : frames'[t][k] = frames[t][k]
         /\ frames'[t][n + 1] = f
         /\ f.scope = Null => ScopeFrames(t)' = ScopeFrames(t)
         /\ f.scope # Null => ScopeFrames(t)' = ScopeFrames(t) \cup {n + 1}
  <1>1. frames[t] \in Seq(Frame) /\ frames \in [Threads -> Seq(Frame)]
    BY DEF Typed
  <1>2. /\ frames' = [frames EXCEPT ![t] = Append(frames[t], f)]
        /\ frames'[t] = Append(frames[t], f)
    BY <1>1 DEF Push
  <1>3. /\ DOMAIN frames[t] = 1 .. n /\ DOMAIN frames'[t] = 1 .. n + 1
        /\ \A k \in 1 .. n : frames'[t][k] = frames[t][k]
        /\ frames'[t][n + 1] = f
        /\ frames'[t] \in Seq(Frame) /\ frames'[t] # <<>>
    BY <1>1, <1>2, AppendProperties
  <1>4. \A k \in 1 .. n + 1 : k \in 1 .. n \/ k = n + 1
    OBVIOUS
  <1>5. n + 1 \in 1 .. n + 1 /\ n + 1 \notin 1 .. n /\ 1 .. n \subseteq 1 .. n + 1
    OBVIOUS
  <1>6. /\ f.scope = Null => ScopeFrames(t)' = ScopeFrames(t)
        /\ f.scope # Null => ScopeFrames(t)' = ScopeFrames(t) \cup {n + 1}
    BY <1>3, <1>4, <1>5 DEF ScopeFrames
  <1> QED
    BY <1>1, <1>2, <1>3, <1>6

LEMMA Popped ==
  ASSUME Typed, NEW t \in Threads, frames[t] # <<>>, Pop(t),
         NEW n \in Nat, n = Len(frames[t])
  PROVE  /\ frames' \in [Threads -> Seq(Frame)]
         /\ \A u \in Threads \ {t} : frames'[u] = frames[u]
         /\ n >= 1 /\ TopFrame(t) = frames[t][n]
         /\ DOMAIN frames[t] = 1 .. n /\ DOMAIN frames'[t] = 1 .. n - 1
         /\ \A k \in 1 .. n - 1 : frames'[t][k] = frames[t][k]
         /\ n = 1 <=> frames'[t] = <<>>
         /\ ScopeFrames(t)' = ScopeFrames(t) \ {n}
  <1>1. frames[t] \in Seq(Frame) /\ frames \in [Threads -> Seq(Frame)]
    BY DEF Typed
  <1>2. n >= 1 /\ DOMAIN frames[t] = 1 .. n
    BY <1>1, EmptySeq
  <1>3. /\ frames' = [frames EXCEPT ![t] = SubSeq(frames[t], 1, n - 1)]
        /\ frames'[t] = SubSeq(frames[t], 1, n - 1)
    BY <1>1 DEF Pop
  <1>4. /\ frames'[t] \in Seq(Frame) /\ Len(frames'[t]) = n - 1
        /\ \A k \in 1 .. n - 1 : frames'[t][k] = frames[t][k]
    BY <1>1, <1>2, <1>3, SubSeqProperties
  <1>5. DOMAIN frames'[t] = 1 .. n - 1 /\ (n = 1 <=> frames'[t] = <<>>)
    <2>1. PICK s \in Seq(Frame) : s = frames'[t]
      BY <1>4
    <2>2. DOMAIN s = 1 .. Len(s) /\ (Len(s) = 0 <=> s = <<>>)
      BY EmptySeq
    <2>3. Len(s) = n - 1
      BY <1>4, <2>1
    <2>4. DOMAIN s = 1 .. n - 1 /\ (n = 1 <=> s = <<>>)
      BY <1>2, <2>2, <2>3
    <2> QED
      BY <2>1, <2>4
  <1>6. \A k \in 1 .. n : k \in 1 .. n - 1 <=> k # n
    BY <1>2
  <1>7. 1 .. n - 1 \subseteq 1 .. n
    BY <1>2
  <1>8. ScopeFrames(t)' = ScopeFrames(t) \ {n}
    BY <1>2, <1>4, <1>5, <1>6, <1>7 DEF ScopeFrames
  <1> QED
    BY <1>1, <1>2, <1>3, <1>4, <1>5, <1>8 DEF TopFrame
-----------------------------------------------------------------------------
(* What thread t reaches: what it works on and what its scopes return to.    *)
LEMMA ReachableIs ==
  ASSUME Typed, NEW t \in Threads, Nested(t)
  PROVE  \A x : x \in Reachable(t) <=>
           x # Null /\ (x = instance_[t]
                         \/ \E k \in ScopeFrames(t) : x = frames[t][k].parent)
  <1>1. \A k \in DOMAIN frames[t] :
          frames[t][k].parent # Null => k \in ScopeFrames(t)
    BY DEF Nested, ScopeFrames
  <1>2. ScopeFrames(t) \subseteq DOMAIN frames[t]
    BY DEF ScopeFrames
  <1> QED
    BY <1>1, <1>2 DEF Reachable

(* A thread with a tape reaches no other tape: the one under its scopes.     *)
LEMMA OneTape ==
  ASSUME Typed, NEW t \in Threads, Good(t)
  PROVE  /\ instance_[t] = Null =>
              frames[t] = <<>> /\ ScopeFrames(t) = {} /\ Reachable(t) = {}
         /\ instance_[t] # Null =>
              Base(t) \in Tapes /\ Reachable(t) \cap Tapes = {Base(t)}
         /\ Reachable(t) \subseteq (Reachable(t) \cap Tapes) \cup Executing(t)
         /\ Executing(t) \subseteq Scopes
         /\ \A k \in ScopeFrames(t) : (\A j \in ScopeFrames(t) : k <= j) =>
              Base(t) = frames[t][k].parent
  <1> USE TapeThreadsAssumption
  <1>0. Nested(t) /\ Owned(t)
    BY DEF Good
  <1>1. \A x : x \in Reachable(t) <=>
           x # Null /\ (x = instance_[t]
                         \/ \E k \in ScopeFrames(t) : x = frames[t][k].parent)
    BY <1>0, ReachableIs
  <1>2. /\ ScopeFrames(t) \subseteq Nat
        /\ Executing(t) \subseteq Scopes
        /\ \A k \in ScopeFrames(t) : frames[t][k].scope \in Executing(t)
    BY FrameProperties DEF Executing
  <1>3. ASSUME instance_[t] = Null
        PROVE  frames[t] = <<>> /\ ScopeFrames(t) = {} /\ Reachable(t) = {}
    <2>1. frames[t] = <<>> /\ ScopeFrames(t) = {}
      BY <1>0, <1>3, FrameProperties DEF Owned
    <2> QED
      BY <1>1, <1>3, <2>1
  <1>4. ASSUME NEW k \in ScopeFrames(t), \A j \in ScopeFrames(t) : k <= j
        PROVE  Base(t) = frames[t][k].parent
    <2>1. PICK m : m = CHOOSE i \in ScopeFrames(t) : \A j \in ScopeFrames(t) : i <= j
      OBVIOUS
    <2>2. m \in ScopeFrames(t) /\ \A j \in ScopeFrames(t) : m <= j
      BY <1>4, <2>1
    <2>3. m = k
      BY <1>2, <1>4, <2>2
    <2> QED
      BY <1>4, <2>1, <2>3 DEF Base
  <1>5. ASSUME instance_[t] # Null
        PROVE  Base(t) \in Tapes /\ Reachable(t) \cap Tapes = {Base(t)}
    <2>1. CASE ScopeFrames(t) = {}
      <3>1. instance_[t] \in Tapes /\ Base(t) = instance_[t]
        BY <1>0, <1>5, <2>1 DEF Nested, Base
      <3> QED
        BY <1>1, <1>5, <2>1, <3>1
    <2>2. CASE ScopeFrames(t) # {}
      <3>1. PICK k \in ScopeFrames(t) : frames[t][k].parent \in Tapes
        BY <1>0, <2>2 DEF Nested
      <3>2. instance_[t] \in Scopes /\ \A j \in ScopeFrames(t) : frames[t][j].scope \in Scopes
        BY <1>0, <1>2, <2>2 DEF Nested
      <3>3. \A i \in ScopeFrames(t) : frames[t][i].parent \in Tapes =>
              \A j \in ScopeFrames(t) : i <= j
        BY <1>0, <3>2 DEF Nested
      <3>4. \A i \in ScopeFrames(t) : frames[t][i].parent \in Tapes => i = k
        BY <1>2, <3>1, <3>3
      <3>5. Base(t) = frames[t][k].parent
        BY <1>4, <3>1, <3>3
      <3> QED
        BY <1>1, <3>1, <3>2, <3>4, <3>5
    <2> QED
      BY <2>1, <2>2
  <1>6. Reachable(t) \subseteq (Reachable(t) \cap Tapes) \cup Executing(t)
    <2>1. instance_[t] \in Tapes \cup {Null} \cup Executing(t)
      BY <1>0 DEF Nested
    <2>2. \A k \in ScopeFrames(t) : frames[t][k].parent \in Tapes \cup Executing(t)
      BY <1>0, <1>2 DEF Nested
    <2> QED
      BY <1>1, <2>1, <2>2
  <1> QED
    BY <1>2, <1>3, <1>4, <1>5, <1>6

(* Threads share nothing when neither their tapes nor their scopes meet.     *)
LEMMA ApartIf ==
  ASSUME Typed, NEW t \in Threads, NEW u \in Threads, Good(t), Good(u),
         Executing(t) \cap Executing(u) = {},
         Reachable(t) \cap Reachable(u) \cap Tapes = {}
  PROVE  Apart(t, u)
  BY OneTape, TapeThreadsAssumption DEF Apart

(* A step of thread t that takes nothing but what was free, and takes to and *)
(* from heap and mutexes what thread t takes and leaves.                     *)
LEMMA StepKeepsShared ==
  ASSUME IInv, NEW t \in Threads, NEW X \in SUBSET Storages,
         \A u \in Threads \ {t} : Untouched(u),
         X \cap (heap \cup locked) = {},
         Reachable(t)' \subseteq Reachable(t) \cup X,
         Executing(t)' \subseteq Executing(t) \cup X,
         heap' = (heap \ Reachable(t)) \cup (Reachable(t)' \cap Tapes),
         locked' = (locked \ Executing(t)) \cup Executing(t)'
  PROVE  Shared'
  <1> USE DEF IInv
  <1>1. ASSUME NEW u \in Threads \ {t}
        PROVE  Apart(t, u)'
    <2>1. /\ Reachable(u) \subseteq (Reachable(u) \cap Tapes) \cup Executing(u)
          /\ Executing(u) \subseteq Scopes
      BY OneTape
    <2>2. Reachable(u) \cap Tapes \subseteq heap /\ Executing(u) \subseteq locked
      BY DEF Shared
    <2>3. X \cap Reachable(u) = {} /\ X \cap Executing(u) = {}
      BY <2>1, <2>2
    <2>4. Reachable(t) \cap Reachable(u) = {} /\ Executing(t) \cap Executing(u) = {}
      BY DEF Shared, Apart
    <2>5. Reachable(u)' = Reachable(u) /\ Executing(u)' = Executing(u)
      BY UntouchedKeeps
    <2> QED
      BY <2>3, <2>4, <2>5 DEF Apart
  <1> QED
    BY <1>1, SharedAfterStep

LEMMA StepKeepsTapes ==
  ASSUME IInv, NEW t \in Threads, NEW X \in SUBSET Scopes,
         \A u \in Threads \ {t} : Untouched(u),
         X \cap locked = {},
         Reachable(t)' \subseteq Reachable(t) \cup X,
         Reachable(t)' \cap Tapes = Reachable(t) \cap Tapes,
         Executing(t)' \subseteq Executing(t) \cup X,
         heap' = heap,
         locked' = (locked \ Executing(t)) \cup Executing(t)'
  PROVE  Shared'
  <1>1. X \subseteq Storages /\ X \cap (heap \cup locked) = {}
    BY TapeThreadsAssumption DEF Storages, IInv, Typed
  <1>2. heap' = (heap \ Reachable(t)) \cup (Reachable(t)' \cap Tapes)
    BY DEF IInv, Shared
  <1> QED
    BY <1>1, <1>2, StepKeepsShared

(* A thread in the middle of autodiff work has a tape: a worker was told by  *)
(* some observer, at least by the one that has the tape of the first thread. *)
LEMMA WorkHasTape ==
  ASSUME IInv, NEW t \in Threads, Works(t)
  PROVE  instance_[t] # Null /\ is_initialized[t] /\ ~Owns(t)
  <1> USE TapeThreadsAssumption DEF IInv, Good
  <1>1. CASE t = Main
    BY <1>1 DEF Life, Owns
  <1>2. CASE t \in Users
    BY <1>2 DEF Works, Owned, Life, Owns
  <1>3. CASE t \in Workers
    <2>1. Main \in Threads /\ instance_[Main] # Null
      BY DEF Life, Threads
    <2>2. Main \notin Users
      OBVIOUS
    <2>3. \E o \in Observers : entry[o][Main] = "owner"
      <3>1. CASE frames[Main] # <<>> /\ frames[Main][1].own
        <4>1. 1 \in DOMAIN frames[Main]
          BY <2>1, <3>1, FrameProperties
        <4> QED
          BY <2>1, <2>2, <3>1, <4>1 DEF Owned
      <3> QED
        BY <2>1, <3>1 DEF Owned
    <2>4. PICK o \in Observers : entry[o][t] # "none"
      BY <1>3, <2>3 DEF Works
    <2> QED
      BY <1>3, <2>4 DEF Works, Life, Owns
  <1> QED
    BY <1>1, <1>2, <1>3 DEF Threads
(* Objects of jobs come and go without a change of the scopes.               *)
LEMMA SameScopes ==
  ASSUME Typed, NEW t \in Threads, Nested(t),
         instance_'[t] = instance_[t],
         ScopeFrames(t)' = ScopeFrames(t),
         \A k \in ScopeFrames(t) : frames'[t][k] = frames[t][k],
         \A k \in DOMAIN frames'[t] :
           frames'[t][k].scope = Null => frames'[t][k].parent = Null
  PROVE  /\ Nested(t)' /\ Executing(t)' = Executing(t)
         /\ Reachable(t)' = Reachable(t) /\ Base(t)' = Base(t)
  <1>1. Executing(t)' = Executing(t)
    BY DEF Executing
  <1>2. PICK S : S = ScopeFrames(t) /\ S = ScopeFrames(t)'
    OBVIOUS
  <1>3. Nested(t)'
    BY <1>1, <1>2 DEF Nested
  <1>4. \A x : x \in Reachable(t) <=>
           x # Null /\ (x = instance_[t] \/ \E k \in S : x = frames[t][k].parent)
    BY <1>2, ReachableIs
  <1>5. /\ \A k \in DOMAIN frames'[t] : frames'[t][k].parent # Null => k \in S
        /\ S \subseteq DOMAIN frames'[t]
    BY <1>2 DEF ScopeFrames
  <1>6. \A x : x \in Reachable(t)' <=>
           x # Null /\ (x = instance_'[t] \/ \E k \in S : x = frames'[t][k].parent)
    BY <1>5 DEF Reachable
  <1>7. \A k \in S : frames'[t][k].parent = frames[t][k].parent
    BY <1>2
  <1>8. \A x : x \in Reachable(t)' <=> x \in Reachable(t)
    BY <1>4, <1>6, <1>7
  <1>9. Base(t)' = Base(t)
    <2>1. CASE S = {}
      BY <1>2, <2>1 DEF Base
    <2>2. CASE S # {}
      <3>1. PICK k \in S : frames[t][k].parent \in Tapes /\ \A j \in S : k <= j
        <4>1. Executing(t) \subseteq Scopes /\ Tapes \cap Scopes = {}
          BY FrameProperties, TapeThreadsAssumption DEF Executing
        <4> QED
          BY <1>2, <2>2, <4>1 DEF Nested, Executing
      <3>2. PICK m : m = CHOOSE i \in S : \A j \in S : i <= j
        OBVIOUS
      <3>3. m \in S
        BY <3>1, <3>2
      <3> QED
        BY <1>2, <1>7, <2>2, <3>2, <3>3 DEF Base
    <2> QED
      BY <2>1, <2>2
  <1> QED
    BY <1>1, <1>3, <1>8, <1>9
-----------------------------------------------------------------------------
(* What thread t may do.                                                     *)
StepOf(t) ==
  \/ ConstructLocal(t) \/ ConstructLocalThrows(t) \/ DestructLocal(t)
  \/ \E s \in Scopes : Execute(t, s)
  \/ EndExecute(t)
  \/ \E o \in Observers : \/ OnSchedulerEntry(o, t)
                          \/ OnSchedulerEntryThrows(o, t)
                          \/ OnSchedulerExit(o, t)
  \/ Leave(t)
  \/ EndThread(t)

(* A step of one thread leaves the others alone.                             *)
LEMMA OthersUntouched ==
  ASSUME Typed, NEW t \in Threads, NEW u \in Threads \ {t}, StepOf(t)
  PROVE  Untouched(u)
  <1>1. frames'[u] = frames[u]
    BY DEF StepOf, Typed, ConstructLocal, ConstructLocalThrows, DestructLocal, Execute, EndExecute,
           OnSchedulerEntry, OnSchedulerEntryThrows, OnSchedulerExit, Leave,
           EndThread, Push, Pop
  <1>2. instance_'[u] = instance_[u] /\ is_initialized'[u] = is_initialized[u]
    BY DEF StepOf, Typed, ConstructLocal, ConstructLocalThrows, DestructLocal, Execute, EndExecute,
           OnSchedulerEntry, OnSchedulerEntryThrows, OnSchedulerExit, Leave,
           EndThread, Construct, ConstructThrows, Destruct
  <1>3. \A o \in Observers : entry'[o][u] = entry[o][u]
    BY DEF StepOf, Typed, ConstructLocal, ConstructLocalThrows, DestructLocal, Execute, EndExecute,
           OnSchedulerEntry, OnSchedulerEntryThrows, OnSchedulerExit, Leave,
           EndThread
  <1>4. u \in leaving' <=> u \in leaving
    BY DEF StepOf, Typed, ConstructLocal, ConstructLocalThrows, DestructLocal, Execute, EndExecute,
           OnSchedulerEntry, OnSchedulerEntryThrows, OnSchedulerExit, Leave,
           EndThread
  <1> QED
    BY <1>1, <1>2, <1>3, <1>4 DEF Untouched

(* A job, or an object within one: the first one of a thread with no tape    *)
(* owns the new one.                                                         *)
LEMMA ConstructLocalKeepsIInv ==
  ASSUME IInv, NEW t \in Threads, ConstructLocal(t)
  PROVE  IInv' /\ (Works(t) => Base(t)' = Base(t))
  <1> USE TapeThreadsAssumption
  <1>0. /\ Typed /\ Good(t) /\ Nested(t) /\ Owned(t) /\ Life(t)
        /\ UNCHANGED <<entry, locked, leaving>>
        /\ Construct(t)
    BY DEF IInv, Good, ConstructLocal
  <1>1. PICK f : f = Local(Owns(t))
    OBVIOUS
  <1>2. f.scope = Null /\ f.parent = Null /\ f.own = Owns(t)
    BY <1>1 DEF Local
  <1>3. f \in Frame /\ Push(t, f)
    BY <1>1 DEF Local, Frame, Owns, ConstructLocal
  <1>4. PICK n \in Nat : n = Len(frames[t])
    BY <1>0, FrameProperties
  <1>5. /\ frames' \in [Threads -> Seq(Frame)]
        /\ \A u \in Threads \ {t} : frames'[u] = frames[u]
        /\ frames'[t] # <<>>
        /\ DOMAIN frames[t] = 1 .. n /\ DOMAIN frames'[t] = 1 .. n + 1
        /\ \A k \in 1 .. n : frames'[t][k] = frames[t][k]
        /\ frames'[t][n + 1] = f
        /\ ScopeFrames(t)' = ScopeFrames(t)
    BY <1>0, <1>2, <1>3, <1>4, Pushed
  <1>6. \A k \in 1 .. n + 1 : k \in 1 .. n \/ k = n + 1
    OBVIOUS
  <1>7. /\ ScopeFrames(t) \subseteq 1 .. n
        /\ Executing(t)' = Executing(t)
    BY <1>0, <1>4, <1>5, FrameProperties DEF Executing
  <1>8. ASSUME NEW u \in Threads \ {t}
        PROVE  Untouched(u)
    BY <1>0, OthersUntouched DEF StepOf
  <1>9. CASE Owns(t)
    <2>1. PICK a \in Tapes \ heap :
            instance_' = [instance_ EXCEPT ![t] = a] /\ heap' = heap \cup {a}
      BY <1>0, <1>9 DEF Construct
    <2>2. instance_[t] = Null /\ t \in Users /\ t \notin leaving
      BY <1>0, <1>9, WorkHasTape DEF Owns, Life, ConstructLocal
    <2>3. frames[t] = <<>> /\ ScopeFrames(t) = {} /\ Reachable(t) = {} /\ n = 0
      BY <1>0, <1>4, <2>2, OneTape
    <2>4. instance_'[t] = a /\ is_initialized'[t] /\ a # Null /\ f.own
      BY <1>0, <1>2, <1>9, <2>1 DEF Construct, Typed
    <2>5. Typed'
      BY <1>0, <1>5, <2>1 DEF Typed, Construct, Storages
    <2>6. ScopeFrames(t)' = {} /\ DOMAIN frames'[t] = {1} /\ frames'[t][1] = f
      BY <1>5, <2>3
    <2>7. Reachable(t)' = {a}
      BY <1>2, <2>4, <2>6 DEF Reachable
    <2>8. Nested(t)'
      BY <1>2, <2>4, <2>6 DEF Nested
    <2>9. Owned(t)'
      <3>1. \A o \in Observers : entry'[o][t] # "owner"
        BY <1>0, <2>2 DEF Owned
      <3> QED
        BY <1>2, <1>5, <2>2, <2>4, <2>6, <3>1 DEF Owned
    <2>10. Life(t)'
      BY <1>0, <2>2, <2>4 DEF Life
    <2>11. Shared'
      <3>1. {a} \subseteq Storages /\ {a} \cap (heap \cup locked) = {}
        BY <2>1, OneTape DEF IInv, Shared, Storages
      <3>2. Executing(t)' = {} /\ Executing(t) = {}
        BY <2>3, <2>6 DEF Executing
      <3> QED
        BY <1>0, <1>8, <2>1, <2>3, <2>7, <3>1, <3>2, StepKeepsShared
    <2> QED
      BY <1>8, <1>9, <2>5, <2>8, <2>9, <2>10, <2>11, UntouchedKeeps, WorkHasTape DEF IInv, Good
  <1>10. CASE ~Owns(t)
    <2>1. /\ UNCHANGED <<instance_, heap>>
          /\ instance_[t] # Null /\ is_initialized[t] /\ is_initialized'[t] /\ ~f.own
      BY <1>0, <1>2, <1>10 DEF Construct, Owns, Typed
    <2>2. Typed'
      BY <1>0, <1>5, <2>1 DEF Typed, Construct
    <2>3. Nested(t)' /\ Reachable(t)' = Reachable(t) /\ Base(t)' = Base(t)
      <3>1. \A k \in 1 .. n + 1 :
              frames'[t][k].scope = Null => frames'[t][k].parent = Null
        <4>1. \A k \in 1 .. n :
                frames[t][k].scope = Null => frames[t][k].parent = Null
          BY <1>0, <1>5 DEF Nested
        <4>2. frames'[t][n + 1].parent = Null
          BY <1>2, <1>5
        <4> QED
          BY <1>5, <1>6, <4>1, <4>2
      <3>2. instance_'[t] = instance_[t]
        BY <2>1
      <3>3. \A k \in ScopeFrames(t) : frames'[t][k] = frames[t][k]
        BY <1>5, <1>7
      <3> QED
        BY <1>0, <1>5, <3>1, <3>2, <3>3, SameScopes
    <2>4. Owned(t)'
      <3>1. frames[t] # <<>> => 1 \in 1 .. n
        BY <1>0, <1>4, <1>5, FrameProperties
      <3>2. \A k \in 1 .. n + 1 : frames'[t][k].own => k \in 1 .. n /\ 1 \in 1 .. n
        BY <1>5, <1>6, <2>1
      <3> QED
        BY <1>0, <1>5, <2>1, <3>1, <3>2 DEF Owned
    <2>5. Life(t)'
      <3>1. t \notin leaving
        BY DEF ConstructLocal, Works
      <3> QED
        BY <1>0, <2>1, <3>1 DEF Life
    <2>6. Shared'
      <3>1. locked' = (locked \ Executing(t)) \cup Executing(t)'
        BY <1>0, <1>7 DEF IInv, Shared
      <3> QED
        BY <1>7, <1>8, <2>1, <2>3, <3>1, StepKeepsTapes
    <2> QED
      BY <1>8, <2>2, <2>3, <2>4, <2>5, <2>6, UntouchedKeeps DEF IInv, Good
  <1> QED
    BY <1>9, <1>10

(* The end of such an object: the owner, the lowest frame, deletes the tape. *)
LEMMA DestructLocalKeepsIInv ==
  ASSUME IInv, NEW t \in Threads, DestructLocal(t)
  PROVE  IInv' /\ (Works(t)' => Base(t)' = Base(t))
  <1> USE TapeThreadsAssumption
  <1>0. /\ Typed /\ Good(t) /\ Nested(t) /\ Owned(t) /\ Life(t)
        /\ UNCHANGED <<entry, locked, leaving, is_initialized>>
        /\ frames[t] # <<>> /\ TopFrame(t).scope = Null /\ Pop(t)
        /\ Destruct(t, TopFrame(t).own)
    BY DEF IInv, Good, DestructLocal, Destruct
  <1>1. PICK n \in Nat : n = Len(frames[t])
    BY <1>0, FrameProperties
  <1>2. /\ frames' \in [Threads -> Seq(Frame)]
        /\ \A u \in Threads \ {t} : frames'[u] = frames[u]
        /\ n >= 1 /\ TopFrame(t) = frames[t][n]
        /\ DOMAIN frames[t] = 1 .. n /\ DOMAIN frames'[t] = 1 .. n - 1
        /\ \A k \in 1 .. n - 1 : frames'[t][k] = frames[t][k]
        /\ n = 1 <=> frames'[t] = <<>>
        /\ ScopeFrames(t)' = ScopeFrames(t) \ {n}
    BY <1>0, <1>1, Popped
  <1>3. 1 .. n - 1 \subseteq 1 .. n /\ n \in 1 .. n /\ 1 \in 1 .. n
        /\ (n # 1 => 1 \in 1 .. n - 1) /\ (\A k \in 1 .. n : k # n => k \in 1 .. n - 1)
    BY <1>2
  <1>4. ScopeFrames(t)' = ScopeFrames(t) /\ ScopeFrames(t) \subseteq 1 .. n - 1
    BY <1>0, <1>2, <1>3 DEF ScopeFrames
  <1>5. Executing(t)' = Executing(t)
    BY <1>2, <1>4 DEF Executing
  <1>6. instance_[t] # Null
    BY <1>0, OneTape
  <1>7. ASSUME NEW u \in Threads \ {t}
        PROVE  Untouched(u)
    BY <1>0, OthersUntouched DEF StepOf
  <1>8. CASE TopFrame(t).own
    <2>1. n = 1 /\ t \in Users /\ \A o \in Observers : entry[o][t] # "owner"
      BY <1>0, <1>2, <1>3, <1>8 DEF Owned
    <2>2. ScopeFrames(t) = {} /\ ScopeFrames(t)' = {} /\ frames'[t] = <<>>
      BY <1>2, <1>4, <2>1
    <2>3. heap' = heap \ {instance_[t]} /\ instance_' = [instance_ EXCEPT ![t] = Null]
          /\ instance_'[t] = Null
      BY <1>0, <1>8 DEF Destruct, Typed
    <2>4. Reachable(t) = {instance_[t]} /\ Reachable(t)' = {}
      <3>1. \A x : x \in Reachable(t) <=> x # Null /\ x = instance_[t]
        BY <1>0, <2>2, ReachableIs
      <3>2. DOMAIN frames'[t] = {}
        BY <1>2, <2>1
      <3> QED
        BY <1>6, <2>3, <3>1, <3>2 DEF Reachable
    <2>5. Typed'
      BY <1>0, <1>2, <2>3 DEF Typed
    <2>6. Nested(t)' /\ Owned(t)'
      <3>1. DOMAIN frames'[t] = {} /\ \A o \in Observers : entry'[o][t] # "owner"
        BY <1>0, <1>2, <2>1
      <3> QED
        BY <2>2, <2>3, <3>1 DEF Nested, Owned
    <2>7. Life(t)'
      BY <1>0, <2>1, <2>2, <2>3 DEF Life
    <2>8. Shared'
      <3>1. {} \subseteq Storages /\ locked' = (locked \ Executing(t)) \cup Executing(t)'
        BY <1>0, <1>5 DEF IInv, Shared
      <3> QED
        BY <1>5, <1>7, <2>3, <2>4, <3>1, StepKeepsShared
    <2>9. ~Works(t)'
      BY <2>1, <2>2 DEF Works
    <2> QED
      BY <1>7, <2>5, <2>6, <2>7, <2>8, <2>9, UntouchedKeeps DEF IInv, Good
  <1>9. CASE ~TopFrame(t).own
    <2>1. UNCHANGED <<instance_, heap>> /\ instance_'[t] = instance_[t]
      BY <1>0, <1>9 DEF Destruct
    <2>2. Typed'
      BY <1>0, <1>2, <2>1 DEF Typed
    <2>3. Nested(t)' /\ Reachable(t)' = Reachable(t) /\ Base(t)' = Base(t)
      <3>1. \A k \in 1 .. n - 1 :
              frames'[t][k].scope = Null => frames'[t][k].parent = Null
        BY <1>0, <1>2, <1>3 DEF Nested
      <3> QED
        BY <1>0, <1>2, <1>4, <2>1, <3>1, SameScopes
    <2>4. Owned(t)'
      <3>1. frames[t][1].own => frames'[t] # <<>> /\ frames'[t][1].own
        BY <1>2, <1>3, <1>9
      <3> QED
        BY <1>0, <1>2, <1>3, <1>6, <2>1, <3>1 DEF Owned
    <2>5. Life(t)'
      BY <1>0, <2>1 DEF Life
    <2>6. Shared'
      <3>1. {} \subseteq Scopes /\ locked' = (locked \ Executing(t)) \cup Executing(t)'
        BY <1>0, <1>5 DEF IInv, Shared
      <3> QED
        BY <1>5, <1>7, <2>1, <2>3, <3>1, StepKeepsTapes
    <2> QED
      BY <1>7, <2>2, <2>3, <2>4, <2>5, <2>6, UntouchedKeeps DEF IInv, Good
  <1> QED
    BY <1>8, <1>9

(* A scope is entered from what the thread works on.                         *)
LEMMA ExecuteKeepsIInv ==
  ASSUME IInv, NEW t \in Threads, NEW s \in Scopes, Execute(t, s)
  PROVE  IInv' /\ Reachable(t)' \cap Tapes = Reachable(t) \cap Tapes
  <1> USE TapeThreadsAssumption
  <1>0. /\ Typed /\ Good(t) /\ Nested(t) /\ Owned(t) /\ Life(t)
        /\ Works(t) /\ s \notin locked
        /\ UNCHANGED <<is_initialized, heap, entry, leaving>>
        /\ locked' = locked \cup {s}
        /\ instance_' = [instance_ EXCEPT ![t] = s] /\ instance_'[t] = s
    BY DEF IInv, Good, Execute, TryLock, Typed
  <1>1. PICK f : f = ActiveScope(s, instance_[t])
    OBVIOUS
  <1>2. f.scope = s /\ f.parent = instance_[t] /\ f.own = FALSE /\ s # Null
    BY <1>1 DEF ActiveScope
  <1>3. f \in Frame /\ Push(t, f)
    BY <1>0, <1>1 DEF ActiveScope, Frame, Typed, Execute
  <1>4. PICK n \in Nat : n = Len(frames[t])
    BY <1>0, FrameProperties
  <1>5. /\ frames' \in [Threads -> Seq(Frame)]
        /\ \A u \in Threads \ {t} : frames'[u] = frames[u]
        /\ frames'[t] # <<>>
        /\ DOMAIN frames[t] = 1 .. n /\ DOMAIN frames'[t] = 1 .. n + 1
        /\ \A k \in 1 .. n : frames'[t][k] = frames[t][k]
        /\ frames'[t][n + 1] = f
        /\ ScopeFrames(t)' = ScopeFrames(t) \cup {n + 1}
    BY <1>0, <1>2, <1>3, <1>4, Pushed
  <1>6. /\ \A k \in 1 .. n + 1 : k \in 1 .. n \/ k = n + 1
        /\ \A k \in 1 .. n : k < n + 1 /\ k # n + 1
    OBVIOUS
  <1>7. ScopeFrames(t) \subseteq 1 .. n /\ instance_[t] # Null
    BY <1>0, <1>4, <1>5, FrameProperties, WorkHasTape
  <1>8. PICK S : S = ScopeFrames(t) /\ S \cup {n + 1} = ScopeFrames(t)' /\ S \subseteq 1 .. n
    BY <1>5, <1>7
  <1>9. Executing(t)' = Executing(t) \cup {s}
    <2>1. \A x : x \in Executing(t)' <=> x = s \/ \E k \in S : x = frames[t][k].scope
      BY <1>2, <1>5, <1>8 DEF Executing
    <2>2. \A x : x \in Executing(t) <=> \E k \in S : x = frames[t][k].scope
      BY <1>8 DEF Executing
    <2>3. \A x : x \in Executing(t)' <=> x \in Executing(t) \/ x = s
      BY <2>1, <2>2
    <2> QED
      BY <2>3
  <1>10. /\ \A k \in S : frames'[t][k] = frames[t][k]
         /\ \A k \in S : frames[t][k].scope # s
         /\ \A k \in S : k < n + 1 /\ k # n + 1
    <2>1. s \notin Executing(t)
      BY <1>0 DEF IInv, Shared
    <2> QED
      BY <1>5, <1>6, <1>8, <2>1 DEF Executing
  <1>11. Reachable(t)' = Reachable(t) \cup {s}
    <2>1. \A x : x \in Reachable(t) <=>
            x # Null /\ (x = instance_[t] \/ \E k \in 1 .. n : x = frames[t][k].parent)
      BY <1>5 DEF Reachable
    <2>2. \A x : x \in Reachable(t)' <=>
            x # Null /\ (x = s \/ \E k \in 1 .. n + 1 : x = frames'[t][k].parent)
      BY <1>0, <1>5 DEF Reachable
    <2>3. \A x : (\E k \in 1 .. n + 1 : x = frames'[t][k].parent) <=>
            (x = instance_[t] \/ \E k \in 1 .. n : x = frames[t][k].parent)
      BY <1>2, <1>5, <1>6
    <2>4. \A x : x \in Reachable(t)' <=> x \in Reachable(t) \/ x = s
      BY <1>2, <2>1, <2>2, <2>3
    <2> QED
      BY <2>4
  <1>12. ASSUME NEW u \in Threads \ {t}
        PROVE  Untouched(u)
    BY <1>0, OthersUntouched DEF StepOf
  <1>13. Typed'
    BY <1>0, <1>5 DEF Typed, Storages
  <1>14. Nested(t)'
    <2>1. \A k \in 1 .. n + 1 : frames'[t][k].scope = Null => frames'[t][k].parent = Null
      <3>1. \A k \in 1 .. n : frames[t][k].scope = Null => frames[t][k].parent = Null
        BY <1>0, <1>5 DEF Nested
      <3> QED
        BY <1>2, <1>5, <1>6, <3>1
    <2>2. \A k \in S \cup {n + 1} :
            \/ /\ frames'[t][k].parent \in Tapes
               /\ \A j \in S \cup {n + 1} : k <= j
            \/ \E j \in S \cup {n + 1} :
                 j < k /\ frames'[t][k].parent = frames'[t][j].scope
      <3>1. ASSUME NEW k \in S
            PROVE  \/ /\ frames'[t][k].parent \in Tapes
                      /\ \A j \in S \cup {n + 1} : k <= j
                   \/ \E j \in S \cup {n + 1} :
                        j < k /\ frames'[t][k].parent = frames'[t][j].scope
        <4>1. \/ /\ frames[t][k].parent \in Tapes
                 /\ \A j \in S : k <= j
              \/ \E j \in S : j < k /\ frames[t][k].parent = frames[t][j].scope
          BY <1>0, <1>8 DEF Nested
        <4>2. k <= n + 1
          BY <1>8
        <4> QED
          BY <1>10, <4>1, <4>2
      <3>2. CASE S = {}
        <4>1. instance_[t] \in Tapes
          BY <1>0, <1>7, <1>8, <3>2 DEF Nested
        <4> QED
          BY <1>2, <1>5, <3>2, <4>1
      <3>3. CASE S # {}
        <4>1. \E j \in S : instance_[t] = frames[t][j].scope
          BY <1>0, <1>8, <3>3 DEF Nested, Executing
        <4>2. \E j \in S : j < n + 1 /\ frames'[t][n + 1].parent = frames'[t][j].scope
          BY <1>2, <1>5, <1>10, <4>1
        <4> QED
          BY <3>1, <4>2
      <3> QED
        BY <3>2, <3>3
    <2>3. \A j, k \in S \cup {n + 1} :
            j < k /\ (\A i \in S \cup {n + 1} : i <= j \/ k <= i) =>
              frames'[t][k].parent = frames'[t][j].scope
      <3> SUFFICES ASSUME NEW j \in S \cup {n + 1}, NEW k \in S \cup {n + 1}, j < k,
                          \A i \in S \cup {n + 1} : i <= j \/ k <= i
                   PROVE  frames'[t][k].parent = frames'[t][j].scope
        OBVIOUS
      <3>1. j \in S
        BY <1>8
      <3>2. CASE k \in S
        BY <1>0, <1>8, <1>10, <3>1, <3>2 DEF Nested
      <3>3. CASE k = n + 1
        <4>1. \A i \in S : i <= j
          BY <1>8, <3>3
        <4>2. instance_[t] = frames[t][j].scope
          BY <1>0, <1>8, <3>1, <4>1 DEF Nested
        <4> QED
          BY <1>2, <1>5, <1>10, <3>1, <3>3, <4>2
      <3> QED
        BY <3>2, <3>3
    <2>4. \A k \in S \cup {n + 1} :
            (\A j \in S \cup {n + 1} : j <= k) => instance_'[t] = frames'[t][k].scope
      <3>1. \A k \in S \cup {n + 1} : (\A j \in S \cup {n + 1} : j <= k) => k = n + 1
        BY <1>8
      <3> QED
        BY <1>0, <1>2, <1>5, <3>1
    <2>5. \A j, k \in S \cup {n + 1} : frames'[t][j].scope = frames'[t][k].scope => j = k
      <3>1. \A j, k \in S : frames[t][j].scope = frames[t][k].scope => j = k
        BY <1>0, <1>8 DEF Nested
      <3>2. frames'[t][n + 1].scope = s
        BY <1>2, <1>5
      <3> QED
        BY <1>10, <3>1, <3>2
    <2>6. \E k \in S \cup {n + 1} : frames'[t][k].parent \in Tapes
      <3>1. CASE S = {}
        BY <1>0, <1>2, <1>5, <1>7, <1>8, <3>1 DEF Nested
      <3>2. CASE S # {}
        BY <1>0, <1>8, <1>10, <3>2 DEF Nested
      <3> QED
        BY <3>1, <3>2
    <2>7. instance_'[t] \in Executing(t)'
      BY <1>0, <1>9
    <2>8. DOMAIN frames'[t] = 1 .. n + 1 /\ ScopeFrames(t)' # {}
      BY <1>5
    <2>9. PICK T : T = S \cup {n + 1} /\ T = ScopeFrames(t)'
      BY <1>8
    <2> QED
      BY <2>1, <2>2, <2>3, <2>4, <2>5, <2>6, <2>7, <2>8, <2>9, Zenon DEF Nested
  <1>15. Owned(t)'
    <2>1. frames[t] # <<>> => 1 \in 1 .. n
      BY <1>0, <1>4, <1>5, FrameProperties
    <2>2. \A k \in 1 .. n + 1 : frames'[t][k].own => k \in 1 .. n /\ 1 \in 1 .. n
      BY <1>2, <1>5, <1>6
    <2> QED
      BY <1>0, <1>2, <1>5, <1>7, <2>1, <2>2 DEF Owned
  <1>16. Life(t)'
    <2>1. is_initialized[t] /\ t \notin leaving
      BY <1>0, WorkHasTape DEF Works
    <2> QED
      BY <1>0, <1>2, <2>1 DEF Life
  <1>17. Reachable(t)' \cap Tapes = Reachable(t) \cap Tapes
    BY <1>11
  <1>18. Shared'
    <2>1. {s} \subseteq Scopes /\ {s} \cap locked = {}
      BY <1>0
    <2>2. locked' = (locked \ Executing(t)) \cup Executing(t)'
      BY <1>0, <1>9 DEF IInv, Shared
    <2> QED
      BY <1>0, <1>9, <1>11, <1>12, <1>17, <2>1, <2>2, StepKeepsTapes
  <1> QED
    BY <1>12, <1>13, <1>14, <1>15, <1>16, <1>17, <1>18, UntouchedKeeps DEF IInv, Good

(* A scope ends: the thread is back at what it was entered from.             *)
LEMMA EndExecuteKeepsIInv ==
  ASSUME IInv, NEW t \in Threads, EndExecute(t)
  PROVE  IInv' /\ Reachable(t)' \cap Tapes = Reachable(t) \cap Tapes
  <1> USE TapeThreadsAssumption
  <1>0. /\ Typed /\ Good(t) /\ Nested(t) /\ Owned(t) /\ Life(t)
        /\ UNCHANGED <<is_initialized, heap, entry, leaving>>
        /\ frames[t] # <<>> /\ TopFrame(t).scope # Null /\ Pop(t)
        /\ instance_' = [instance_ EXCEPT ![t] = TopFrame(t).parent]
        /\ instance_'[t] = TopFrame(t).parent
        /\ locked' = locked \ {TopFrame(t).scope}
    BY DEF IInv, Good, EndExecute, Unlocked, Typed
  <1>1. PICK n \in Nat : n = Len(frames[t])
    BY <1>0, FrameProperties
  <1>2. /\ frames' \in [Threads -> Seq(Frame)]
        /\ \A u \in Threads \ {t} : frames'[u] = frames[u]
        /\ n >= 1 /\ TopFrame(t) = frames[t][n]
        /\ DOMAIN frames[t] = 1 .. n /\ DOMAIN frames'[t] = 1 .. n - 1
        /\ \A k \in 1 .. n - 1 : frames'[t][k] = frames[t][k]
        /\ n = 1 <=> frames'[t] = <<>>
        /\ ScopeFrames(t)' = ScopeFrames(t) \ {n}
    BY <1>0, <1>1, Popped
  <1>3. 1 .. n - 1 \subseteq 1 .. n /\ n \in 1 .. n /\ 1 \in 1 .. n
        /\ (n # 1 => 1 \in 1 .. n - 1) /\ (\A k \in 1 .. n : k # n => k \in 1 .. n - 1)
        /\ (\A k \in 1 .. n : k <= n) /\ (\A k \in 1 .. n : k # n => k < n)
    BY <1>2
  <1>4. PICK S, T : S = ScopeFrames(t) /\ T = ScopeFrames(t)' /\ T = S \ {n}
    BY <1>2
  <1>5. S \subseteq 1 .. n /\ n \in S /\ T \subseteq 1 .. n - 1
    BY <1>0, <1>1, <1>2, <1>3, <1>4, FrameProperties DEF ScopeFrames
  <1>6. \A k \in T : frames'[t][k] = frames[t][k] /\ k \in S /\ k < n
    BY <1>2, <1>3, <1>4, <1>5
  <1>7. PICK s, p : s = frames[t][n].scope /\ p = frames[t][n].parent
    OBVIOUS
  <1>8. instance_'[t] = p /\ locked' = locked \ {s} /\ s # Null
    BY <1>0, <1>2, <1>7
  <1>9. \A x : x \in Executing(t)' <=> x \in Executing(t) /\ x # s
    <2>1. \A k \in T : frames[t][k].scope # s
      BY <1>0, <1>4, <1>5, <1>6, <1>7 DEF Nested
    <2>2. \A x : x \in Executing(t)' <=> \E k \in T : x = frames[t][k].scope
      BY <1>4, <1>6 DEF Executing
    <2>3. \A x : x \in Executing(t) <=> \E k \in S : x = frames[t][k].scope
      BY <1>4 DEF Executing
    <2> QED
      BY <1>4, <1>7, <2>1, <2>2, <2>3
  <1>10. instance_[t] = s
    BY <1>0, <1>3, <1>4, <1>5, <1>7 DEF Nested
  <1>11. /\ T = {} => p \in Tapes
         /\ T # {} => \E j \in T : p = frames'[t][j].scope
    <2>1. \/ p \in Tapes /\ \A j \in S : n <= j
          \/ \E j \in S : j < n /\ p = frames[t][j].scope
      BY <1>0, <1>4, <1>5, <1>7 DEF Nested
    <2>2. \A j \in S : n <= j => j = n
      BY <1>5
    <2>3. \A j \in S : j < n => j \in T
      BY <1>4, <1>5
    <2> QED
      BY <1>4, <1>6, <2>1, <2>2, <2>3
  <1>12. /\ Reachable(t)' \subseteq Reachable(t)
         /\ Reachable(t)' \cap Tapes = Reachable(t) \cap Tapes
    <2>1. \A x : x \in Reachable(t) <=>
            x # Null /\ (x = s \/ \E k \in S : x = frames[t][k].parent)
      BY <1>0, <1>4, <1>10, ReachableIs
    <2>2. \A k \in DOMAIN frames'[t] : frames'[t][k].parent # Null => k \in T
      <3>1. \A k \in 1 .. n : frames[t][k].parent # Null => k \in S
        BY <1>0, <1>2, <1>4 DEF Nested, ScopeFrames
      <3>2. \A k \in 1 .. n - 1 : k \in 1 .. n /\ k # n
        BY <1>2
      <3> QED
        BY <1>2, <1>4, <3>1, <3>2
    <2>3. T \subseteq DOMAIN frames'[t]
      BY <1>2, <1>5
    <2>4. \A x : x \in Reachable(t)' <=>
            x # Null /\ (x = p \/ \E k \in T : x = frames'[t][k].parent)
      BY <1>8, <2>2, <2>3 DEF Reachable
    <2>5. \A x : x \in Reachable(t)' <=>
            x # Null /\ (x = p \/ \E k \in T : x = frames[t][k].parent)
      BY <1>6, <2>4
    <2>6. \A x : x \in Reachable(t) /\ x # s => x \in Reachable(t)'
      BY <1>4, <1>7, <2>1, <2>5
    <2>7. Reachable(t)' \subseteq Reachable(t)
      BY <1>5, <1>6, <1>7, <2>1, <2>5
    <2>8. s \notin Tapes
      BY <1>0, <1>4, <1>5, <1>7, FrameProperties
    <2> QED
      BY <2>6, <2>7, <2>8
  <1>13. ASSUME NEW u \in Threads \ {t}
        PROVE  Untouched(u)
    BY <1>0, OthersUntouched DEF StepOf
  <1>14. Typed'
    <2>1. TopFrame(t).parent \in Storages \cup {Null}
      BY <1>0, <1>2, <1>3, FrameProperties DEF Frame
    <2> QED
      BY <1>0, <1>2, <2>1 DEF Typed
  <1>15. Nested(t)'
    <2>1. \A k \in 1 .. n - 1 : frames'[t][k].scope = Null => frames'[t][k].parent = Null
      <3>1. \A k \in 1 .. n : frames[t][k].scope = Null => frames[t][k].parent = Null
        BY <1>0, <1>2 DEF Nested
      <3> QED
        BY <1>2, <1>3, <3>1
    <2>2. \A k \in T :
            \/ frames'[t][k].parent \in Tapes /\ \A j \in T : k <= j
            \/ \E j \in T : j < k /\ frames'[t][k].parent = frames'[t][j].scope
      <3> SUFFICES ASSUME NEW k \in T
                   PROVE  \/ frames'[t][k].parent \in Tapes /\ \A j \in T : k <= j
                          \/ \E j \in T :
                               j < k /\ frames'[t][k].parent = frames'[t][j].scope
        OBVIOUS
      <3>1. k \in S /\ k < n /\ frames'[t][k] = frames[t][k]
        BY <1>6
      <3>2. \/ frames[t][k].parent \in Tapes /\ \A j \in S : k <= j
            \/ \E j \in S : j < k /\ frames[t][k].parent = frames[t][j].scope
        BY <1>0, <1>4, <3>1 DEF Nested
      <3>3. \A j \in S : j < k => j \in T
        BY <1>4, <1>5, <3>1
      <3> QED
        BY <1>4, <1>6, <3>1, <3>2, <3>3
    <2>3. \A j, k \in T : j < k /\ (\A i \in T : i <= j \/ k <= i) =>
            frames'[t][k].parent = frames'[t][j].scope
      <3> SUFFICES ASSUME NEW j \in T, NEW k \in T, j < k,
                          \A i \in T : i <= j \/ k <= i
                   PROVE  frames'[t][k].parent = frames'[t][j].scope
        OBVIOUS
      <3>1. k <= n
        BY <1>5
      <3>2. \A i \in S : i <= j \/ k <= i
        BY <1>4, <3>1
      <3>3. frames[t][k].parent = frames[t][j].scope
        BY <1>0, <1>4, <3>2 DEF Nested
      <3> QED
        BY <1>6, <3>3
    <2>4. ASSUME NEW k \in T, \A j \in T : j <= k
          PROVE  p = frames'[t][k].scope
      <3>1. \A i \in S : i <= k \/ n <= i
        BY <1>4, <1>5, <2>4
      <3>2. k \in S /\ k < n
        BY <1>6
      <3>3. frames[t][n].parent = frames[t][k].scope
        BY <1>0, <1>4, <1>5, <3>1, <3>2 DEF Nested
      <3> QED
        BY <1>6, <1>7, <3>3
    <2>5. \A j, k \in T : frames'[t][j].scope = frames'[t][k].scope => j = k
      BY <1>0, <1>4, <1>6 DEF Nested
    <2>6. T # {} => \E k \in T : frames'[t][k].parent \in Tapes
      <3> SUFFICES ASSUME T # {} PROVE \E k \in T : frames'[t][k].parent \in Tapes
        OBVIOUS
      <3>1. PICK k \in S : frames[t][k].parent \in Tapes
        BY <1>0, <1>4, <1>5 DEF Nested
      <3>2. p \notin Tapes
        BY <1>0, <1>4, <1>6, <1>11, FrameProperties
      <3> QED
        BY <1>4, <1>6, <1>7, <3>1, <3>2
    <2>7. T # {} => instance_'[t] \in Executing(t)'
      BY <1>4, <1>8, <1>11 DEF Executing
    <2>8. T = {} => instance_'[t] \in Tapes \cup {Null}
      BY <1>8, <1>11
    <2>9. DOMAIN frames'[t] = 1 .. n - 1 /\ T = ScopeFrames(t)' /\ instance_'[t] = p
      BY <1>2, <1>4, <1>8
    <2> QED
      BY <2>1, <2>2, <2>3, <2>4, <2>5, <2>6, <2>7, <2>8, <2>9, Zenon DEF Nested
  <1>16. p # Null
    BY <1>0, <1>4, <1>6, <1>11, FrameProperties
  <1>17. Owned(t)'
    <2>1. instance_[t] # Null
      BY <1>0, OneTape
    <2>2. frames[t][1].own => frames'[t] # <<>> /\ frames'[t][1].own
      <3>1. frames[t][1].own => n # 1
        BY <1>0, <1>2, <1>3 DEF Owned
      <3> QED
        BY <1>2, <1>3, <3>1
    <2> QED
      BY <1>0, <1>2, <1>3, <1>8, <1>16, <2>1, <2>2 DEF Owned
  <1>18. Life(t)'
    BY <1>0, <1>8, <1>16, OneTape DEF Life
  <1>19. Shared'
    <2>1. {} \subseteq Scopes /\ Executing(t)' \subseteq Executing(t)
      BY <1>9
    <2>2. locked' = (locked \ Executing(t)) \cup Executing(t)'
      <3>1. Executing(t) \subseteq locked /\ s \in Executing(t)
        BY <1>4, <1>5, <1>7 DEF IInv, Shared, Executing
      <3> QED
        BY <1>8, <1>9, <3>1
    <2> QED
      BY <1>0, <1>12, <1>13, <2>1, <2>2, StepKeepsTapes
  <1> QED
    BY <1>12, <1>13, <1>14, <1>15, <1>17, <1>18, <1>19, UntouchedKeeps DEF IInv, Good

(* What an observer or the end of a thread does to a thread's tape: its      *)
(* frames, and with them its scopes, stay as they are.                       *)
LEMMA SameFrames ==
  ASSUME Typed, NEW t \in Threads, frames' = frames
  PROVE  ScopeFrames(t)' = ScopeFrames(t) /\ Executing(t)' = Executing(t)
  BY DEF ScopeFrames, Executing

(* The thread keeps its frames and its tape.                                 *)
LEMMA SameTape ==
  ASSUME IInv, NEW t \in Threads, frames' = frames, heap' = heap, locked' = locked,
         instance_'[t] = instance_[t], Typed', Owned(t)', Life(t)',
         \A u \in Threads \ {t} : Untouched(u)
  PROVE  IInv'
  <1>1. ScopeFrames(t)' = ScopeFrames(t) /\ Executing(t)' = Executing(t)
    BY SameFrames DEF IInv
  <1>2. Reachable(t)' = Reachable(t)
    BY DEF Reachable
  <1>3. Nested(t)'
    BY <1>1 DEF IInv, Good, Nested
  <1>4. Shared'
    <2>1. locked' = (locked \ Executing(t)) \cup Executing(t)'
      BY <1>1 DEF IInv, Shared
    <2>2. PICK X \in SUBSET Scopes : X = {}
      OBVIOUS
    <2> QED
      BY <1>1, <1>2, <2>1, <2>2, StepKeepsTapes
  <1> QED
    BY <1>3, <1>4, UntouchedKeeps DEF IInv, Good

(* An observer is told of a thread: its entry owns the tape if the thread    *)
(* had none.                                                                 *)
LEMMA OnSchedulerEntryKeepsIInv ==
  ASSUME IInv, NEW t \in Threads, NEW o \in Observers, OnSchedulerEntry(o, t)
  PROVE  IInv'
  <1> USE TapeThreadsAssumption
  <1>0. /\ Typed /\ Good(t) /\ Nested(t) /\ Owned(t) /\ Life(t)
        /\ UNCHANGED <<frames, locked, leaving>>
        /\ Construct(t) /\ t # Main /\ t \notin leaving /\ entry[o][t] = "none"
    BY DEF IInv, Good, OnSchedulerEntry
  <1>1. PICK e : e = IF Owns(t) THEN "owner" ELSE "plain"
    OBVIOUS
  <1>2. /\ entry' = [entry EXCEPT ![o][t] = e] /\ entry'[o][t] = e
        /\ \A q \in Observers, u \in Threads : q # o \/ u # t => entry'[q][u] = entry[q][u]
        /\ entry' \in [Observers -> [Threads -> {"none", "nullptr", "plain", "owner"}]]
    BY <1>0, <1>1 DEF OnSchedulerEntry, Typed
  <1>3. ASSUME NEW u \in Threads \ {t}
        PROVE  Untouched(u)
    BY <1>0, OthersUntouched DEF StepOf
  <1>4. CASE Owns(t)
    <2>1. PICK a \in Tapes \ heap :
            instance_' = [instance_ EXCEPT ![t] = a] /\ heap' = heap \cup {a}
      BY <1>0, <1>4 DEF Construct
    <2>2. instance_[t] = Null /\ e = "owner"
      BY <1>0, <1>1, <1>4 DEF Owns, Life
    <2>3. frames[t] = <<>> /\ ScopeFrames(t) = {} /\ Reachable(t) = {}
      BY <1>0, <2>2, OneTape
    <2>4. instance_'[t] = a /\ is_initialized'[t] /\ a # Null
      BY <1>0, <2>1 DEF Construct, Typed
    <2>5. Typed'
      BY <1>0, <1>2, <2>1 DEF Typed, Construct, Storages
    <2>6. DOMAIN frames'[t] = {} /\ ScopeFrames(t)' = {} /\ frames'[t] = <<>>
      BY <1>0, <2>3, SameFrames
    <2>7. Reachable(t)' = {a}
      BY <2>4, <2>6 DEF Reachable
    <2>8. Nested(t)'
      BY <2>4, <2>6 DEF Nested
    <2>9. Owned(t)'
      <3>1. \A q \in Observers : q # o => entry'[q][t] # "owner"
        BY <1>0, <1>2, <2>2 DEF Owned
      <3> QED
        BY <1>2, <2>2, <2>4, <2>6, <3>1 DEF Owned
    <2>10. Life(t)'
      BY <1>0, <1>2, <2>2, <2>4, <2>6 DEF Life
    <2>11. Shared'
      <3>1. {a} \subseteq Storages /\ {a} \cap (heap \cup locked) = {}
        BY <2>1, OneTape DEF IInv, Shared, Storages
      <3>2. Executing(t)' = {} /\ Executing(t) = {}
            /\ locked' = (locked \ Executing(t)) \cup Executing(t)'
        BY <1>0, <2>3, <2>6 DEF Executing
      <3>3. heap' = (heap \ Reachable(t)) \cup (Reachable(t)' \cap Tapes)
        BY <2>1, <2>3, <2>7
      <3>4. PICK X \in SUBSET Storages : X = {a}
        BY <3>1
      <3> QED
        BY <1>3, <2>3, <2>7, <3>1, <3>2, <3>3, <3>4, StepKeepsShared
    <2> QED
      BY <1>3, <2>5, <2>8, <2>9, <2>10, <2>11, UntouchedKeeps DEF IInv, Good
  <1>5. CASE ~Owns(t)
    <2>1. /\ UNCHANGED <<instance_, heap>> /\ e = "plain"
          /\ instance_[t] # Null /\ is_initialized[t] /\ is_initialized'[t]
      BY <1>0, <1>1, <1>5 DEF Construct, Owns, Typed
    <2>2. Typed'
      BY <1>0, <1>2, <2>1 DEF Typed, Construct
    <2>3. Owned(t)'
      <3>1. \A q \in Observers : entry'[q][t] = "owner" <=> entry[q][t] = "owner"
        BY <1>0, <1>2, <2>1
      <3> QED
        BY <1>0, <2>1, <3>1 DEF Owned
    <2>4. Life(t)'
      BY <1>0, <1>2, <2>1 DEF Life
    <2> QED
      BY <1>0, <1>3, <2>1, <2>2, <2>3, <2>4, SameTape
  <1> QED
    BY <1>4, <1>5

(* It throws on a thread of the program.                                     *)
LEMMA OnSchedulerEntryThrowsKeepsIInv ==
  ASSUME IInv, NEW t \in Threads, NEW o \in Observers, OnSchedulerEntryThrows(o, t)
  PROVE  IInv'
  <1> USE TapeThreadsAssumption
  <1>0. /\ Typed /\ Good(t) /\ Owned(t) /\ Life(t)
        /\ UNCHANGED <<instance_, heap, frames, locked, leaving>>
        /\ t \notin Workers /\ entry[o][t] = "none"
        /\ is_initialized' \in [Threads -> BOOLEAN]
        /\ ~is_initialized'[t] => ~is_initialized[t]
    BY DEF IInv, Good, OnSchedulerEntryThrows, ConstructThrows, Typed
  <1>1. /\ entry'[o][t] = "nullptr"
        /\ \A q \in Observers, u \in Threads : q # o \/ u # t => entry'[q][u] = entry[q][u]
        /\ entry' \in [Observers -> [Threads -> {"none", "nullptr", "plain", "owner"}]]
    BY <1>0 DEF OnSchedulerEntryThrows, Typed
  <1>2. \A u \in Threads \ {t} : Untouched(u)
    BY <1>0, OthersUntouched DEF StepOf
  <1>3. Typed'
    BY <1>0, <1>1 DEF Typed
  <1>4. Owned(t)'
    <2>1. \A q \in Observers : entry'[q][t] = "owner" <=> entry[q][t] = "owner"
      BY <1>0, <1>1
    <2> QED
      BY <1>0, <2>1 DEF Owned
  <1>5. Life(t)'
    BY <1>0 DEF Life
  <1> QED
    BY <1>0, <1>2, <1>3, <1>4, <1>5, SameTape

(* A job does not start.                                                     *)
LEMMA ConstructLocalThrowsKeepsIInv ==
  ASSUME IInv, NEW t \in Threads, ConstructLocalThrows(t)
  PROVE  IInv'
  <1>0. /\ Typed /\ Owned(t) /\ Life(t)
        /\ UNCHANGED <<instance_, heap, entry, frames, locked, leaving>>
        /\ is_initialized' \in [Threads -> BOOLEAN]
        /\ ~is_initialized'[t] => ~is_initialized[t]
    BY DEF IInv, Good, ConstructLocalThrows, ConstructThrows, Typed
  <1>1. \A u \in Threads \ {t} : Untouched(u)
    BY <1>0, OthersUntouched DEF StepOf
  <1>2. Typed'
    BY <1>0 DEF Typed
  <1>3. Owned(t)' /\ Life(t)'
    BY <1>0 DEF Owned, Life
  <1> QED
    BY <1>0, <1>1, <1>2, <1>3, SameTape

(* An observer is told that a thread leaves: the owner deletes the tape.     *)
LEMMA OnSchedulerExitKeepsIInv ==
  ASSUME IInv, NEW t \in Threads, NEW o \in Observers, OnSchedulerExit(o, t)
  PROVE  IInv'
  <1> USE TapeThreadsAssumption
  <1>0. /\ Typed /\ Good(t) /\ Nested(t) /\ Owned(t) /\ Life(t)
        /\ UNCHANGED <<is_initialized, frames, locked, leaving>>
        /\ Destruct(t, entry[o][t] = "owner") /\ t \in leaving /\ t # Main
    BY DEF IInv, Good, OnSchedulerExit, Destruct, Typed
  <1>1. /\ entry'[o][t] = "none"
        /\ \A q \in Observers, u \in Threads : q # o \/ u # t => entry'[q][u] = entry[q][u]
        /\ entry' \in [Observers -> [Threads -> {"none", "nullptr", "plain", "owner"}]]
    BY <1>0 DEF OnSchedulerExit, Typed
  <1>2. ASSUME NEW u \in Threads \ {t}
        PROVE  Untouched(u)
    BY <1>0, OthersUntouched DEF StepOf
  <1>3. frames[t] = <<>> /\ ScopeFrames(t) = {} /\ DOMAIN frames[t] = {}
    BY <1>0, FrameProperties DEF Life
  <1>4. frames'[t] = <<>> /\ ScopeFrames(t)' = {} /\ DOMAIN frames'[t] = {}
    BY <1>0, <1>3, SameFrames
  <1>5. CASE entry[o][t] = "owner"
    <2>1. heap' = heap \ {instance_[t]} /\ instance_' = [instance_ EXCEPT ![t] = Null]
          /\ instance_'[t] = Null
      BY <1>0, <1>5 DEF Destruct, Typed
    <2>2. instance_[t] # Null /\ \A q \in Observers : q # o => entry[q][t] # "owner"
      BY <1>0, <1>5 DEF Owned
    <2>3. Reachable(t) = {instance_[t]} /\ Reachable(t)' = {}
      <3>1. \A x : x \in Reachable(t) <=> x # Null /\ x = instance_[t]
        BY <1>0, <1>3, ReachableIs
      <3> QED
        BY <1>4, <2>1, <2>2, <3>1 DEF Reachable
    <2>4. Typed'
      BY <1>0, <1>1, <2>1 DEF Typed
    <2>5. Nested(t)' /\ Owned(t)'
      <3>1. \A q \in Observers : entry'[q][t] # "owner"
        BY <1>1, <2>2
      <3> QED
        BY <1>4, <2>1, <3>1 DEF Nested, Owned
    <2>6. Life(t)'
      BY <1>0, <1>4, <2>1 DEF Life
    <2>7. Shared'
      <3>1. {} \subseteq Storages /\ Executing(t)' = Executing(t)
            /\ locked' = (locked \ Executing(t)) \cup Executing(t)'
        BY <1>0, SameFrames DEF IInv, Shared
      <3> QED
        BY <1>2, <2>1, <2>3, <3>1, StepKeepsShared
    <2> QED
      BY <1>2, <2>4, <2>5, <2>6, <2>7, UntouchedKeeps DEF IInv, Good
  <1>6. CASE entry[o][t] # "owner"
    <2>1. UNCHANGED <<instance_, heap>>
      BY <1>0, <1>6 DEF Destruct
    <2>2. Typed'
      BY <1>0, <1>1, <2>1 DEF Typed
    <2>3. Owned(t)'
      <3>1. \A q \in Observers : entry'[q][t] = "owner" <=> entry[q][t] = "owner"
        BY <1>0, <1>1, <1>6
      <3> QED
        BY <1>0, <2>1, <3>1 DEF Owned
    <2>4. Life(t)'
      BY <1>0, <2>1 DEF Life
    <2> QED
      BY <1>0, <1>2, <2>1, <2>2, <2>3, <2>4, SameTape
  <1> QED
    BY <1>5, <1>6

LEMMA LeaveKeepsIInv ==
  ASSUME IInv, NEW t \in Threads, Leave(t)
  PROVE  IInv'
  <1> USE TapeThreadsAssumption
  <1>0. /\ Typed /\ Owned(t) /\ Life(t) /\ frames[t] = <<>> /\ t # Main
        /\ UNCHANGED <<instance_, is_initialized, heap, entry, frames, locked>>
        /\ leaving' = leaving \cup {t}
    BY DEF IInv, Good, Leave
  <1>1. \A u \in Threads \ {t} : Untouched(u)
    BY <1>0, OthersUntouched DEF StepOf
  <1>2. Typed'
    BY <1>0 DEF Typed
  <1>3. Owned(t)' /\ Life(t)'
    BY <1>0 DEF Owned, Life
  <1> QED
    BY <1>0, <1>1, <1>2, <1>3, SameTape

(* No entry is left: the tape of the thread was deleted before it is gone.   *)
LEMMA EndThreadKeepsIInv ==
  ASSUME IInv, NEW t \in Threads, EndThread(t)
  PROVE  IInv'
  <1> USE TapeThreadsAssumption
  <1>0. /\ Typed /\ Good(t) /\ Owned(t) /\ Life(t) /\ t \in leaving /\ t # Main
        /\ UNCHANGED <<heap, entry, frames, locked>>
        /\ leaving' = leaving \ {t}
        /\ \A o \in Observers : entry[o][t] = "none"
        /\ instance_' = [instance_ EXCEPT ![t] = Null] /\ instance_'[t] = Null
        /\ is_initialized' = [is_initialized EXCEPT ![t] = FALSE]
    BY DEF IInv, Good, EndThread, Typed
  <1>1. \A u \in Threads \ {t} : Untouched(u)
    BY <1>0, OthersUntouched DEF StepOf
  <1>2. frames[t] = <<>> /\ instance_[t] = Null
    BY <1>0 DEF Owned, Life
  <1>3. Typed'
    BY <1>0 DEF Typed
  <1>4. Owned(t)' /\ Life(t)'
    BY <1>0, <1>2 DEF Owned, Life
  <1> QED
    BY <1>0, <1>1, <1>2, <1>3, <1>4, SameTape
-----------------------------------------------------------------------------
LEMMA NextIInv == IInv /\ [Next]_vars => IInv'
  <1> SUFFICES ASSUME IInv, [Next]_vars PROVE IInv'
    OBVIOUS
  <1>1. CASE UNCHANGED vars
    <2>1. Typed'
      BY <1>1 DEF vars, IInv, Typed
    <2>2. \A t \in Threads : Untouched(t)
      BY <1>1 DEF vars, Untouched
    <2>3. \A t \in Threads : /\ Good(t)'
                           /\ Reachable(t)' = Reachable(t)
                           /\ Executing(t)' = Executing(t)
      BY <2>2, UntouchedKeeps DEF IInv
    <2>4. Shared'
      BY <1>1, <2>3 DEF vars, IInv, Shared, Apart
    <2> QED
      BY <2>1, <2>3, <2>4 DEF IInv
  <1>2. CASE Next
    <2> SUFFICES ASSUME NEW t \in Threads, StepOf(t) PROVE IInv'
      BY <1>2 DEF Next, StepOf
    <2>1. CASE ConstructLocal(t)
      BY <2>1, ConstructLocalKeepsIInv
    <2>10. CASE ConstructLocalThrows(t)
      BY <2>10, ConstructLocalThrowsKeepsIInv
    <2>2. CASE DestructLocal(t)
      BY <2>2, DestructLocalKeepsIInv
    <2>3. CASE \E s \in Scopes : Execute(t, s)
      BY <2>3, ExecuteKeepsIInv
    <2>4. CASE EndExecute(t)
      BY <2>4, EndExecuteKeepsIInv
    <2>5. ASSUME NEW o \in Observers, OnSchedulerEntry(o, t)
          PROVE  IInv'
      BY <2>5, OnSchedulerEntryKeepsIInv
    <2>6. ASSUME NEW o \in Observers, OnSchedulerEntryThrows(o, t)
          PROVE  IInv'
      BY <2>6, OnSchedulerEntryThrowsKeepsIInv
    <2>7. ASSUME NEW o \in Observers, OnSchedulerExit(o, t)
          PROVE  IInv'
      BY <2>7, OnSchedulerExitKeepsIInv
    <2>8. CASE Leave(t)
      BY <2>8, LeaveKeepsIInv
    <2>9. CASE EndThread(t)
      BY <2>9, EndThreadKeepsIInv
    <2> QED
      BY <2>1, <2>2, <2>3, <2>4, <2>5, <2>6, <2>7, <2>8, <2>9, <2>10 DEF StepOf
  <1> QED
    BY <1>1, <1>2

(* In every state the threads nest their scopes, own their tapes and share   *)
(* nothing.                                                                  *)
THEOREM Invariance == Spec => []IInv
  <1> QED
    BY InitIInv, NextIInv, PTL DEF Spec

(* The types, and a scope's mutex is held exactly while a thread executes    *)
(* the scope, for any number of threads, observers and scopes.               *)
THEOREM TypeCorrect == Spec => []TypeOK
  <1>1. IInv => TypeOK
    BY DEF IInv, Typed, Shared, TypeOK
  <1> QED
    BY <1>1, Invariance, PTL

(* A thread in the middle of autodiff work has a tape; no thread reaches a   *)
(* deleted tape, a scope it has left, or what another thread reaches.        *)
THEOREM ThreadsAreServed == Spec => []TapesServeTheirThread
  <1>1. IInv => TapesServeTheirThread
    <2> SUFFICES ASSUME IInv, NEW t \in Threads
                 PROVE  /\ Works(t) => instance_[t] # Null
                        /\ Reachable(t) \subseteq heap \cup Executing(t)
                        /\ \A u \in Threads \ {t} : Reachable(t) \cap Reachable(u) = {}
      BY DEF TapesServeTheirThread
    <2>1. Reachable(t) \subseteq (Reachable(t) \cap Tapes) \cup Executing(t)
      BY OneTape DEF IInv
    <2>2. Reachable(t) \cap Tapes \subseteq heap
      BY DEF IInv, Shared
    <2>3. \A u \in Threads \ {t} : Reachable(t) \cap Reachable(u) = {}
      BY DEF IInv, Shared, Apart
    <2> QED
      BY <2>1, <2>2, <2>3, WorkHasTape
  <1> QED
    BY <1>1, Invariance, PTL

(* Every tape on the heap is in use by a thread, and a thread with a tape    *)
(* has exactly one owner of it, among the entries of the observers and the   *)
(* jobs: it is deleted once, by that owner.                                  *)
THEOREM TapesAreOwned == Spec => []OneOwnerPerTape
  <1>1. ASSUME IInv, NEW t \in Threads
        PROVE  Cardinality(Owners(t)) = Cardinality(Reachable(t) \cap heap)
    <2>0. Typed /\ Good(t) /\ Owned(t) /\ Reachable(t) \cap Tapes \subseteq heap
      BY <1>1 DEF IInv, Good, Shared
    <2>1. CASE instance_[t] = Null
      <3>1. DOMAIN frames[t] = {} /\ \A o \in Observers : entry[o][t] # "owner"
        BY <2>0, <2>1 DEF Owned
      <3>2. Owners(t) = {} /\ Reachable(t) \cap heap = {}
        BY <2>0, <2>1, <3>1, OneTape DEF Owners
      <3> QED
        BY <3>2
    <2>2. CASE instance_[t] # Null
      <3>1. PICK a : Reachable(t) \cap heap = {a}
        BY <2>0, <2>2, OneTape DEF Typed
      <3>2. \E x : Owners(t) = {x}
        <4>1. ASSUME NEW o \in Observers, entry[o][t] = "owner"
              PROVE  Owners(t) = {o}
          BY <2>0, <4>1 DEF Owned, Owners
        <4>2. CASE frames[t] # <<>> /\ frames[t][1].own
          <5>1. 1 \in DOMAIN frames[t]
            BY <2>0, <4>2, FrameProperties
          <5>2. Owners(t) = {1}
            BY <2>0, <4>2, <5>1 DEF Owned, Owners
          <5> QED
            BY <5>2
        <4> QED
          BY <2>0, <2>2, <4>1, <4>2 DEF Owned
      <3>3. PICK x : Owners(t) = {x}
        BY <3>2
      <3> QED
        BY <3>1, <3>3, FS_Singleton
    <2> QED
      BY <2>1, <2>2
  <1>2. IInv => \A a \in heap : \E t \in Threads : a \in Reachable(t)
    BY DEF IInv, Shared
  <1>3. IInv => OneOwnerPerTape
    BY <1>1, <1>2 DEF OneOwnerPerTape
  <1> QED
    BY <1>3, Invariance, PTL
-----------------------------------------------------------------------------
LEMMA TheTape ==
  IInv => \A t \in Threads :
    instance_[t] # Null => Reachable(t) \cap Tapes = {Base(t)}
  BY OneTape DEF IInv

LEMMA TheTapeNext ==
  IInv' => \A t \in Threads :
    instance_'[t] # Null => Reachable(t)' \cap Tapes = {Base(t)'}
  <1>1. (IInv => \A t \in Threads :
           instance_[t] # Null => Reachable(t) \cap Tapes = {Base(t)})'
    BY TheTape, PTL
  <1> QED
    BY <1>1

LEMMA WorkHasTapeNext ==
  IInv' => \A t \in Threads : Works(t)' => instance_'[t] # Null
  <1>1. IInv => \A t \in Threads : Works(t) => instance_[t] # Null
    BY WorkHasTape
  <1>2. (IInv => \A t \in Threads : Works(t) => instance_[t] # Null)'
    BY <1>1, PTL
  <1> QED
    BY <1>2

(* The tape of a thread that works before and after a step stays.            *)
LEMMA StepKeepsBase ==
  ASSUME IInv, IInv', NEW t \in Threads, Works(t), Works(t)',
         Reachable(t)' \cap Tapes = Reachable(t) \cap Tapes
  PROVE  Base(t)' = Base(t)
  <1>1. instance_[t] # Null /\ instance_'[t] # Null
    BY WorkHasTape, WorkHasTapeNext
  <1> QED
    BY <1>1, TheTape, TheTapeNext

(* No observer that is told of a thread, no inner job and no scope, whoever  *)
(* throws, changes the tape under the work a thread is in the middle of.     *)
THEOREM WorkIsNotDisturbed == Spec => WorkKeepsItsTape
  <1>1. ASSUME IInv, IInv', NEW u \in Threads, Works(u), Works(u)',
               Untouched(u) \/ StepOf(u)
        PROVE  Base(u)' = Base(u)
    <2> USE TapeThreadsAssumption
    <2>1. CASE Untouched(u)
      BY <1>1, <2>1, UntouchedKeeps, StepKeepsBase
    <2>2. ASSUME NEW s \in Scopes, Execute(u, s)
          PROVE  Base(u)' = Base(u)
      BY <1>1, <2>2, ExecuteKeepsIInv, StepKeepsBase
    <2>3. CASE EndExecute(u)
      BY <1>1, <2>3, EndExecuteKeepsIInv, StepKeepsBase
    <2>4. CASE ConstructLocal(u)
      BY <1>1, <2>4, ConstructLocalKeepsIInv
    <2>5. CASE DestructLocal(u)
      BY <1>1, <2>5, DestructLocalKeepsIInv
    <2>6. ASSUME NEW o \in Observers,
                 OnSchedulerEntry(o, u) \/ OnSchedulerEntryThrows(o, u)
          PROVE  Base(u)' = Base(u)
      <3>1. instance_' = instance_ /\ frames' = frames
        BY <1>1, <2>6, WorkHasTape
           DEF OnSchedulerEntry, OnSchedulerEntryThrows, Construct, ConstructThrows
      <3> QED
        BY <3>1 DEF Base, ScopeFrames
    <2>8. CASE ConstructLocalThrows(u)
      BY <2>8 DEF ConstructLocalThrows, ConstructThrows, Base, ScopeFrames
    <2>7. ~Leave(u) /\ ~EndThread(u) /\ \A o \in Observers : ~OnSchedulerExit(o, u)
      BY <1>1 DEF Leave, EndThread, OnSchedulerExit, Works
    <2> QED
      BY <1>1, <2>1, <2>2, <2>3, <2>4, <2>5, <2>6, <2>7, <2>8 DEF StepOf
  <1>2. IInv /\ [Next]_vars => \A u \in Threads : Untouched(u) \/ StepOf(u)
    <2>1. CASE UNCHANGED vars
      BY <2>1 DEF vars, Untouched
    <2>2. ASSUME IInv, NEW t \in Threads, StepOf(t)
          PROVE  \A u \in Threads : Untouched(u) \/ StepOf(u)
      BY <2>2, OthersUntouched DEF IInv
    <2> QED
      BY <2>1, <2>2 DEF Next, StepOf
  <1>3. IInv /\ IInv' /\ [Next]_vars =>
          [\A t \in Threads : Works(t) /\ Works(t)' => Base(t)' = Base(t)]_vars
    BY <1>1, <1>2
  <1> QED
    BY <1>3, Invariance, PTL DEF Spec, WorkKeepsItsTape
=============================================================================
