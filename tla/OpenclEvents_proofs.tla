------------------------ MODULE OpenclEvents_proofs ------------------------
(***************************************************************************)
(* Proofs about matrices on a device, for any numbers of matrices, buffers *)
(* and commands.                                                           *)
(***************************************************************************)
EXTENDS OpenclEvents, SequenceTheorems, TLAPS

(* The commands that are not done.                                           *)
Open == {e \in DOMAIN commands : ~commands[e].done}

(* Command e is done when f is, at the latest: it is in every set that holds *)
(* f and what the commands in it still wait for.                             *)
Before(e, f) ==
  \A S \in SUBSET Events :
    (f \in S /\ \A g \in S \cap Open : commands[g].waits \cap Open \subseteq S) => e \in S

Follows(e, events) == \E f \in events : Before(e, f)

(* A matrix whose buffer it touches knows of each command that is not done,  *)
(* itself or of a later one ...                                              *)
TouchesKnown ==
  \A e \in Open : \A b \in Touches(e) \ Untracked(e) :
    \E m \in Matrices : mat[m].buffer = b /\ Follows(e, ReadWrite(mat[m]))

(* ... and every matrix with that buffer knows of those that write it.       *)
WritesKnown ==
  \A e \in Open : \A b \in commands[e].writes \ Untracked(e) : \A m \in Matrices :
    mat[m].buffer = b => Follows(e, mat[m].writes)

(* Conflicting commands wait for each other in the order of the queue.       *)
ConflictsWait ==
  \A e, f \in Open : e < f /\ ~(Conflict(e, f) \subseteq Untracked(e)) => Before(e, f)

WaitsKnown == \A e \in DOMAIN commands : commands[e].waits \subseteq DOMAIN commands

IInv ==
  /\ TypeOK
  /\ WaitsKnown
  /\ TouchesKnown
  /\ WritesKnown
  /\ ConflictsWait
  /\ ConflictsInOrder
-----------------------------------------------------------------------------
LEMMA Indices ==
  ASSUME TypeOK
  PROVE  /\ Len(commands) \in Nat /\ DOMAIN commands = 1 .. Len(commands)
         /\ NewEvent \notin DOMAIN commands
         /\ \A e \in DOMAIN commands : e \in Events /\ e < NewEvent
         /\ \A e \in DOMAIN commands : commands[e] \in Command
  <1>1. Len(commands) \in Nat /\ DOMAIN commands = 1 .. Len(commands)
    BY LenProperties DEF TypeOK
  <1>2. \A e \in DOMAIN commands : commands[e] \in Command
    BY <1>1, ElementOfSeq DEF TypeOK
  <1> QED
    BY <1>1, <1>2, OpenclEventsAssumption DEF TypeOK, NewEvent, Events

LEMMA BeforeItself == \A e : Before(e, e)
  BY DEF Before

LEMMA BeforeTransitive ==
  ASSUME NEW e, NEW f, NEW g, Before(e, f), Before(f, g)
  PROVE  Before(e, g)
  BY DEF Before

LEMMA BeforeWaiting ==
  ASSUME NEW e \in Open, NEW f \in Open, e \in commands[f].waits
  PROVE  Before(e, f)
  BY DEF Before

(* Nothing that is not done comes before what is, or waits for no more.      *)
LEMMA BeforeDone ==
  ASSUME TypeOK, NEW f \in DOMAIN commands, NEW e, Before(e, f),
         f \notin Open \/ commands[f].waits \cap Open = {}
  PROVE  e = f
  <1>1. f \in Events
    BY Indices
  <1>2. {f} \in SUBSET Events
    BY <1>1
  <1>3. \A g \in {f} \cap Open : commands[g].waits \cap Open \subseteq {f}
    OBVIOUS
  <1>4. e \in {f}
    BY <1>2, <1>3 DEF Before
  <1> QED
    BY <1>4

LEMMA FollowsOpen ==
  ASSUME TypeOK, NEW e \in Open, NEW events \in SUBSET DOMAIN commands,
         Follows(e, events)
  PROVE  \E f \in events \cap Open : Before(e, f)
  BY BeforeDone DEF Follows

(* What a new command leaves alone.                                          *)
LEMMA Appended ==
  ASSUME TypeOK, NEW c \in Command, commands' = Append(commands, c),
         Len(commands) < MaxCommands
  PROVE  /\ commands' \in Seq(Command) /\ Len(commands') <= MaxCommands
         /\ DOMAIN commands' = DOMAIN commands \cup {NewEvent}
         /\ commands'[NewEvent] = c
         /\ \A e \in DOMAIN commands : commands'[e] = commands[e]
         /\ Open' = Open \cup (IF c.done THEN {} ELSE {NewEvent})
         /\ \A e, f : Before(e, f) => Before(e, f)'
  <1>1. /\ commands' \in Seq(Command) /\ Len(commands') = Len(commands) + 1
        /\ \A i \in 1 .. Len(commands) : commands'[i] = commands[i]
        /\ commands'[Len(commands) + 1] = c
    BY AppendProperties DEF TypeOK
  <1>2. DOMAIN commands' = 1 .. Len(commands')
    BY <1>1, LenProperties
  <1>3. /\ Len(commands') <= MaxCommands
        /\ DOMAIN commands' = DOMAIN commands \cup {NewEvent}
        /\ commands'[NewEvent] = c
        /\ \A e \in DOMAIN commands : commands'[e] = commands[e]
    BY <1>1, <1>2, Indices, OpenclEventsAssumption DEF NewEvent
  <1>4. Open' = Open \cup (IF c.done THEN {} ELSE {NewEvent})
    BY <1>3, Indices DEF Open
  <1>5. \A g \in Open : g \in Open' /\ commands'[g].waits = commands[g].waits
    BY <1>3, <1>4 DEF Open
  <1>6. ASSUME NEW e, NEW f, Before(e, f) PROVE Before(e, f)'
    <2> SUFFICES ASSUME NEW S \in SUBSET Events, f \in S,
                        \A g \in S \cap Open' : commands'[g].waits \cap Open' \subseteq S
                 PROVE  e \in S
      BY DEF Before
    <2>1. \A g \in S \cap Open : commands[g].waits \cap Open \subseteq S
      BY <1>5
    <2> QED
      BY <1>6, <2>1 DEF Before
  <1> QED
    BY <1>1, <1>3, <1>4, <1>6

(* A buffer nothing that is not done touches, or writes, and that is tracked.*)
Idle(b) == \A e \in Open : b \in Touches(e) => b \in Untracked(e)
Unwritten(b) == \A e \in Open : b \in commands[e].writes => b \in Untracked(e)

(* The events matrix m had are still there, or new command n, which waits    *)
(* for them, is.                                                             *)
Hands(m, waits, n) ==
  /\ mat'[m].buffer = mat[m].buffer
  /\ \A f \in mat[m].writes \cap Open :
       f \in mat'[m].writes \/ (f \in waits /\ n \in mat'[m].writes)
  /\ \A f \in ReadWrite(mat[m]) \cap Open :
       f \in ReadWrite(mat'[m]) \/ (f \in waits /\ n \in mat'[m].writes)

(* Matrix m has no events to lose and gets an idle buffer.                   *)
Starts(m) == ReadWrite(mat[m]) \cap Open = {} /\ Idle(mat'[m].buffer)

(* Command c, the n-th, waits for what conflicts with it, and the matrices   *)
(* get to know of it, except on the buffers in U.                            *)
Accounted(c, n, U) ==
  /\ \A e \in Open :
       ~((commands[e].writes \cap (c.reads \cup c.writes))
           \cup (c.writes \cap Touches(e)) \subseteq Untracked(e)) => Follows(e, c.waits)
  /\ \A m \in Matrices : Hands(m, c.waits, n) \/ Starts(m)
  /\ ~c.done =>
       /\ \A b \in (c.reads \cup c.writes) \ U :
            \E m \in Matrices : mat'[m].buffer = b /\ n \in ReadWrite(mat'[m])
       /\ \A b \in c.writes \ U, m \in Matrices :
            mat'[m].buffer = b => n \in mat'[m].writes

(* A command may be enqueued if it waits for what conflicts with it and the  *)
(* matrices get to know of it, except on buffers where it is left untracked. *)
LEMMA UntrackedCommandOK ==
  ASSUME IInv, NEW c \in Command, NEW n, n = NewEvent,
         commands' = Append(commands, c),
         Len(commands) < MaxCommands,
         NEW U \in SUBSET Buffers, lost' = lost \cup ({n} \X U),
         c.waits \subseteq DOMAIN commands, c.done => c.waits = {},
         mat' \in [Matrices -> Matrix],
         \A m \in Matrices : ReadWrite(mat'[m]) \subseteq DOMAIN commands \cup {n},
         Accounted(c, n, U)
  PROVE  IInv'
  <1> USE DEF Accounted
  <1>1. /\ TypeOK /\ n \notin DOMAIN commands
        /\ \A e \in DOMAIN commands : e < n /\ commands[e] \in Command /\ ~(n < e)
    BY Indices DEF IInv, NewEvent
  <1>2. /\ commands' \in Seq(Command) /\ Len(commands') <= MaxCommands
        /\ DOMAIN commands' = DOMAIN commands \cup {n}
        /\ commands'[n] = c
        /\ \A e \in DOMAIN commands : commands'[e] = commands[e]
        /\ Open' = Open \cup (IF c.done THEN {} ELSE {n})
        /\ \A e, f : Before(e, f) => Before(e, f)'
    BY <1>1, Appended
  <1>3. /\ \A e \in Open : e \in DOMAIN commands /\ e # n
        /\ \A e \in DOMAIN commands : Touches(e)' = Touches(e)
        /\ \A e, f \in DOMAIN commands : Conflict(e, f)' = Conflict(e, f)
        /\ Touches(n)' = c.reads \cup c.writes
    BY <1>1, <1>2 DEF Open, Touches, Conflict
  <1>12. /\ \A e \in DOMAIN commands : Untracked(e)' = Untracked(e)
         /\ U \subseteq Untracked(n)'
    BY <1>1 DEF Untracked
  <1>4. ASSUME NEW e \in Open, NEW f \in c.waits \cap Open, Before(e, f)
        PROVE  ~c.done /\ Before(e, n)'
    <2>1. ~c.done /\ f \in Open' /\ n \in Open' /\ f \in commands'[n].waits
      BY <1>2
    <2>2. Before(f, n)'
      BY <2>1 DEF Before
    <2>3. Before(e, f)'
      BY <1>2, <1>4
    <2> QED
      BY <2>1, <2>2, <2>3 DEF Before
  <1>5. TypeOK'
    <2>1. lost' \subseteq (DOMAIN commands') \X Buffers
      BY <1>1, <1>2 DEF TypeOK
    <2> QED
      BY <1>1, <1>2, <2>1 DEF TypeOK
  <1>6. WaitsKnown'
    BY <1>2 DEF IInv, WaitsKnown
  <1>7. TouchesKnown'
    <2> SUFFICES ASSUME NEW e \in Open', NEW b \in Touches(e)' \ Untracked(e)'
                 PROVE  \E m \in Matrices : mat'[m].buffer = b /\ Follows(e, ReadWrite(mat[m]))'
      BY DEF TouchesKnown
    <2>1. CASE e = n
      <3>1. b \in (c.reads \cup c.writes) \ U /\ ~c.done
        BY <1>2, <1>3, <1>12, <2>1
      <3>2. PICK m \in Matrices : mat'[m].buffer = b /\ n \in ReadWrite(mat'[m])
        BY <3>1
      <3>3. Before(n, n)'
        BY DEF Before
      <3> QED
        BY <2>1, <3>2, <3>3 DEF Follows, ReadWrite
    <2>2. CASE e # n
      <3>1. e \in Open /\ b \in Touches(e) \ Untracked(e)
        BY <1>2, <1>3, <1>12, <2>2
      <3>2. PICK m \in Matrices : mat[m].buffer = b /\ Follows(e, ReadWrite(mat[m]))
        BY <3>1 DEF IInv, TouchesKnown
      <3>3. PICK f \in ReadWrite(mat[m]) \cap Open : Before(e, f)
        BY <1>1, <3>1, <3>2, FollowsOpen DEF TypeOK
      <3>4. Hands(m, c.waits, n)
        BY <3>3 DEF Starts
      <3>5. CASE f \in ReadWrite(mat'[m])
        BY <1>2, <3>2, <3>3, <3>4, <3>5 DEF Hands, Follows, ReadWrite
      <3>6. CASE f \in c.waits /\ n \in mat'[m].writes
        BY <1>4, <3>1, <3>2, <3>3, <3>4, <3>6 DEF Hands, Follows, ReadWrite
      <3> QED
        BY <3>3, <3>4, <3>5, <3>6 DEF Hands
    <2> QED
      BY <2>1, <2>2
  <1>8. WritesKnown'
    <2> SUFFICES ASSUME NEW e \in Open', NEW b \in commands'[e].writes \ Untracked(e)',
                        NEW m \in Matrices, mat'[m].buffer = b
                 PROVE  Follows(e, mat[m].writes)'
      BY DEF WritesKnown
    <2>1. CASE e = n
      <3>1. n \in mat'[m].writes
        BY <1>2, <1>12, <2>1 DEF Open
      <3>2. Before(n, n)'
        BY DEF Before
      <3> QED
        BY <2>1, <3>1, <3>2 DEF Follows
    <2>2. CASE e # n
      <3>1. /\ e \in Open /\ b \in commands[e].writes \ Untracked(e)
            /\ b \in Touches(e)
        BY <1>2, <1>3, <1>12, <2>2 DEF Touches
      <3>2. Hands(m, c.waits, n)
        BY <3>1 DEF Starts, Idle
      <3>3. Follows(e, mat[m].writes) /\ mat[m].writes \subseteq DOMAIN commands
        BY <1>1, <3>1, <3>2 DEF IInv, WritesKnown, Hands, TypeOK, ReadWrite
      <3>4. PICK f \in mat[m].writes \cap Open : Before(e, f)
        BY <1>1, <3>1, <3>3, FollowsOpen
      <3>5. CASE f \in mat'[m].writes
        BY <1>2, <3>4, <3>5 DEF Follows
      <3>6. CASE f \in c.waits /\ n \in mat'[m].writes
        BY <1>4, <3>1, <3>4, <3>6 DEF Follows
      <3> QED
        BY <3>2, <3>4, <3>5, <3>6 DEF Hands
    <2> QED
      BY <2>1, <2>2
  <1>9. ASSUME NEW e \in Open, ~(Conflict(e, n)' \subseteq Untracked(e)')
        PROVE  ~c.done /\ Before(e, n)'
    <2>1. Conflict(e, n)' = (commands[e].writes \cap (c.reads \cup c.writes))
                              \cup (c.writes \cap Touches(e))
      BY <1>2, <1>3 DEF Conflict
    <2>2. Follows(e, c.waits)
      BY <1>3, <1>9, <1>12, <2>1
    <2>3. PICK f \in c.waits \cap Open : Before(e, f)
      BY <1>1, <2>2, FollowsOpen
    <2> QED
      BY <1>4, <2>3
  <1>10. ConflictsWait'
    <2> SUFFICES ASSUME NEW e \in Open', NEW f \in Open', e < f,
                        ~(Conflict(e, f)' \subseteq Untracked(e)')
                 PROVE  Before(e, f)'
      BY DEF ConflictsWait
    <2>1. e \in Open
      BY <1>1, <1>2, <1>3
    <2>2. CASE f = n
      BY <1>9, <2>1, <2>2
    <2>3. CASE f # n
      BY <1>2, <1>3, <1>12, <2>1, <2>3 DEF IInv, ConflictsWait
    <2> QED
      BY <2>2, <2>3
  <1>11. ConflictsInOrder'
    <2> SUFFICES ASSUME NEW e \in DOMAIN commands', NEW f \in DOMAIN commands', e < f,
                        commands'[f].done, ~commands'[e].done,
                        ~(Conflict(e, f)' \subseteq Untracked(e)')
                 PROVE  FALSE
      BY DEF ConflictsInOrder
    <2>1. e \in Open
      BY <1>1, <1>2 DEF Open
    <2>2. CASE f = n
      BY <1>2, <1>9, <2>1, <2>2
    <2>3. CASE f # n
      BY <1>2, <1>3, <1>12, <2>1, <2>3 DEF IInv, ConflictsInOrder
    <2> QED
      BY <2>2, <2>3
  <1> QED
    BY <1>5, <1>6, <1>7, <1>8, <1>10, <1>11 DEF IInv

(* All operations that do not throw track their commands on all buffers.     *)
LEMMA CommandOK ==
  ASSUME IInv, NEW c \in Command, NEW n, n = NewEvent,
         commands' = Append(commands, c),
         Len(commands) < MaxCommands, lost' = lost,
         c.waits \subseteq DOMAIN commands, c.done => c.waits = {},
         \A e \in Open :
           ~((commands[e].writes \cap (c.reads \cup c.writes))
               \cup (c.writes \cap Touches(e)) \subseteq Untracked(e)) => Follows(e, c.waits),
         mat' \in [Matrices -> Matrix],
         \A m \in Matrices : ReadWrite(mat'[m]) \subseteq DOMAIN commands \cup {n},
         \A m \in Matrices : Hands(m, c.waits, n) \/ Starts(m),
         ~c.done =>
           /\ \A b \in c.reads \cup c.writes :
                \E m \in Matrices : mat'[m].buffer = b /\ n \in ReadWrite(mat'[m])
           /\ \A b \in c.writes, m \in Matrices :
                mat'[m].buffer = b => n \in mat'[m].writes
  PROVE  IInv'
  <1>1. PICK U : U = {}
    OBVIOUS
  <1>2. /\ U \in SUBSET Buffers /\ lost' = lost \cup ({n} \X U)
        /\ \A S : S \ U = S
    BY <1>1
  <1>3. Accounted(c, n, U)
    BY <1>2 DEF Accounted
  <1> QED
    BY <1>2, <1>3, UntrackedCommandOK

(* The matrices may be changed as long as no event of a command that is not  *)
(* done is dropped and they get unwritten buffers or those of each other.    *)
LEMMA MatricesOK ==
  ASSUME IInv, commands' = commands, lost' = lost, mat' \in [Matrices -> Matrix],
         \A m \in Matrices : \/ \E w \in Matrices : mat'[w] = mat[m]
                             \/ ReadWrite(mat[m]) \cap Open = {},
         \A m \in Matrices : \/ \E w \in Matrices : mat'[m] = mat[w]
                             \/ ReadWrite(mat'[m]) = {} /\ Unwritten(mat'[m].buffer)
  PROVE  IInv'
  <1>1. /\ Open' = Open
        /\ \A e : Touches(e)' = Touches(e) /\ Untracked(e)' = Untracked(e)
        /\ \A e, f : Conflict(e, f)' = Conflict(e, f) /\ (Before(e, f)' <=> Before(e, f))
    BY DEF Open, Touches, Untracked, Conflict, Before
  <1>2. TypeOK'
    BY DEF IInv, TypeOK, ReadWrite
  <1>3. WaitsKnown' /\ ConflictsWait' /\ ConflictsInOrder'
    BY <1>1 DEF IInv, WaitsKnown, ConflictsWait, ConflictsInOrder
  <1>4. TouchesKnown'
    <2> SUFFICES ASSUME NEW e \in Open, NEW b \in Touches(e) \ Untracked(e)
                 PROVE  \E m \in Matrices : mat'[m].buffer = b /\ Follows(e, ReadWrite(mat[m]))'
      BY <1>1 DEF TouchesKnown
    <2>1. PICK m \in Matrices : mat[m].buffer = b /\ Follows(e, ReadWrite(mat[m]))
      BY DEF IInv, TouchesKnown
    <2>2. PICK f \in ReadWrite(mat[m]) \cap Open : Before(e, f)
      BY <2>1, FollowsOpen DEF IInv, TypeOK
    <2>3. PICK w \in Matrices : mat'[w] = mat[m]
      BY <2>2
    <2> QED
      BY <1>1, <2>1, <2>2, <2>3 DEF Follows, ReadWrite
  <1>5. WritesKnown'
    <2> SUFFICES ASSUME NEW e \in Open, NEW b \in commands[e].writes \ Untracked(e),
                        NEW m \in Matrices, mat'[m].buffer = b
                 PROVE  Follows(e, mat[m].writes)'
      BY <1>1 DEF WritesKnown
    <2>1. PICK w \in Matrices : mat'[m] = mat[w]
      BY DEF Unwritten
    <2>2. Follows(e, mat[w].writes)
      BY <2>1 DEF IInv, WritesKnown
    <2> QED
      BY <1>1, <2>1, <2>2 DEF Follows
  <1> QED
    BY <1>2, <1>3, <1>4, <1>5 DEF IInv

(* The buffers an operation may take are idle.                               *)
LEMMA IdleBuffers ==
  ASSUME IInv
  PROVE  /\ \A b \in Unused : Idle(b)
         /\ Idle(NoBuffer)
         /\ \A m \in Matrices : ~Shared(m) /\ MayRelease(m) => Idle(mat[m].buffer)
         /\ \A m \in Matrices : MayRelease(m) =>
              ReadWrite(mat[m]) \cap Open = {} /\ Unwritten(mat[m].buffer)
         /\ \A b : Idle(b) => Unwritten(b)
  <1>1. \A b \in Unused : Idle(b)
    BY DEF IInv, TouchesKnown, Unused, Idle
  <1>2. Idle(NoBuffer)
    BY Indices, OpenclEventsAssumption DEF IInv, Idle, Touches, Command, Open
  <1>3. \A m \in Matrices : MayRelease(m) => ReadWrite(mat[m]) \cap Open = {}
    BY DEF MayRelease, Finished, Open
  <1>4. ASSUME NEW m \in Matrices, ~Shared(m), MayRelease(m),
               NEW e \in Open, mat[m].buffer \in Touches(e), mat[m].buffer \notin Untracked(e)
        PROVE  FALSE
    <2>1. PICK w \in Matrices : mat[w].buffer = mat[m].buffer
                                /\ Follows(e, ReadWrite(mat[w]))
      BY <1>4 DEF IInv, TouchesKnown
    <2>2. w = m
      BY <1>4, <2>1 DEF Shared
    <2>3. \E f \in ReadWrite(mat[m]) \cap Open : Before(e, f)
      BY <2>1, <2>2, FollowsOpen DEF IInv, TypeOK
    <2> QED
      BY <1>3, <1>4, <2>3
  <1>5. ASSUME NEW m \in Matrices, MayRelease(m), NEW e \in Open,
               mat[m].buffer \in commands[e].writes, mat[m].buffer \notin Untracked(e)
        PROVE  FALSE
    <2>1. Follows(e, mat[m].writes)
      BY <1>5 DEF IInv, WritesKnown
    <2>2. \E f \in mat[m].writes \cap Open : Before(e, f)
      BY <2>1, FollowsOpen DEF IInv, TypeOK, ReadWrite
    <2> QED
      BY <1>3, <1>5, <2>2 DEF ReadWrite
  <1>6. \A b : Idle(b) => Unwritten(b)
    BY DEF Idle, Unwritten, Touches
  <1>7. \A m \in Matrices : ~Shared(m) /\ MayRelease(m) => Idle(mat[m].buffer)
    BY <1>4 DEF Idle
  <1>8. \A m \in Matrices : MayRelease(m) => Unwritten(mat[m].buffer)
    BY <1>5 DEF Unwritten
  <1> QED
    BY <1>1, <1>2, <1>3, <1>6, <1>7, <1>8

LEMMA EmptyMatrix ==
  /\ Empty \in Matrix /\ ReadWrite(Empty) = {} /\ Empty.buffer = NoBuffer
  /\ \A b \in Buffers :
       /\ Fresh(b) \in Matrix /\ ReadWrite(Fresh(b)) = {} /\ Fresh(b).buffer = b
       /\ Fresh(b).reads = {} /\ Fresh(b).writes = {}
  BY DEF Empty, Fresh, Matrix, ReadWrite

LEMMA AllocateOK ==
  ASSUME IInv, NEW m \in Matrices, Allocate(m)
  PROVE  IInv'
  <1>1. PICK b \in Unused : mat' = [mat EXCEPT ![m] = Fresh(b)]
    BY DEF Allocate
  <1>2. b \in Buffers /\ mat \in [Matrices -> Matrix] /\ mat[m] = Empty
    BY <1>1 DEF Unused, IInv, TypeOK, Allocate
  <1> QED
    BY <1>1, <1>2, IdleBuffers, EmptyMatrix, MatricesOK DEF Allocate

LEMMA DestroyOK ==
  ASSUME IInv, NEW m \in Matrices, Destroy(m)
  PROVE  IInv'
  BY IdleBuffers, EmptyMatrix, MatricesOK DEF Destroy, IInv, TypeOK

LEMMA ShareOK ==
  ASSUME IInv, NEW m \in Matrices, NEW a \in Matrices, Share(m, a)
  PROVE  IInv'
  BY IdleBuffers, MatricesOK DEF Share, IInv, TypeOK

(* A move takes what a has, when m has nothing to lose.                      *)
LEMMA MoveOK ==
  ASSUME IInv, NEW m \in Matrices, NEW a \in Matrices,
         MoveConstruct(m, a) \/ MoveAssign(m, a)
  PROVE  IInv'
  <1>1. /\ m # a /\ mat \in [Matrices -> Matrix]
        /\ mat' = [mat EXCEPT ![m] = mat[a], ![a] = Empty]
        /\ commands' = commands /\ lost' = lost
    BY OpenclEventsAssumption, EmptyMatrix
    DEF MoveConstruct, MoveAssign, Has, IInv, TypeOK
  <1>2. ReadWrite(mat[m]) \cap Open = {}
    BY IdleBuffers, EmptyMatrix DEF MoveConstruct, MoveAssign
  <1>3. /\ mat' \in [Matrices -> Matrix] /\ mat'[m] = mat[a] /\ mat'[a] = Empty
        /\ \A w \in Matrices \ {m, a} : mat'[w] = mat[w]
    BY <1>1, EmptyMatrix
  <1> QED
    BY <1>1, <1>2, <1>3, IdleBuffers, EmptyMatrix, MatricesOK

LEMMA AssignThrowsOK ==
  ASSUME IInv, NEW m \in Matrices, AssignThrows(m)
  PROVE  IInv'
  <1> DEFINE b == mat[m].buffer
  <1>1. /\ commands' = commands /\ mat' = [mat EXCEPT ![m] = Fresh(b)]
        /\ b \in Buffers
        /\ lost' = lost \cup {<<e, b>> : e \in {f \in DOMAIN commands :
                                 ~commands[f].done /\ b \in Touches(f)}}
    BY DEF AssignThrows, Has, IInv, TypeOK, Matrix
  <1>2. /\ mat' \in [Matrices -> Matrix] /\ mat'[m] = Fresh(b)
        /\ \A w \in Matrices \ {m} : mat'[w] = mat[w]
        /\ Fresh(b).buffer = b /\ ReadWrite(Fresh(b)) = {}
    BY <1>1, EmptyMatrix DEF IInv, TypeOK
  <1>3. /\ Open' = Open /\ \A e : Touches(e)' = Touches(e)
        /\ \A e, f : Conflict(e, f)' = Conflict(e, f) /\ (Before(e, f)' <=> Before(e, f))
    BY <1>1 DEF Open, Touches, Conflict, Before
  <1> HIDE DEF b
  <1>8. \A e \in Open : /\ Untracked(e) \subseteq Untracked(e)'
                        /\ b \in Touches(e) => b \in Untracked(e)'
    BY <1>1 DEF Untracked, Open
  <1>4. TypeOK'
    <2>1. lost' \subseteq (DOMAIN commands) \X Buffers
      BY <1>1 DEF IInv, TypeOK
    <2> QED
      BY <1>1, <1>2, <2>1 DEF IInv, TypeOK, ReadWrite
  <1>5. WaitsKnown' /\ ConflictsWait' /\ ConflictsInOrder'
    <2>1. WaitsKnown'
      BY <1>1 DEF IInv, WaitsKnown
    <2>2. ConflictsWait'
      BY <1>3, <1>8 DEF IInv, ConflictsWait
    <2>3. ConflictsInOrder'
      BY <1>1, <1>3, <1>8 DEF IInv, ConflictsInOrder, Open
    <2> QED
      BY <2>1, <2>2, <2>3
  <1>6. TouchesKnown'
    <2> SUFFICES ASSUME NEW e \in Open, NEW d \in Touches(e) \ Untracked(e), d # b
                 PROVE  \E w \in Matrices : mat'[w].buffer = d /\ Follows(e, ReadWrite(mat[w]))'
      BY <1>3, <1>8 DEF TouchesKnown
    <2>1. PICK w \in Matrices : mat[w].buffer = d /\ Follows(e, ReadWrite(mat[w]))
      BY DEF IInv, TouchesKnown
    <2>2. mat'[w] = mat[w]
      BY <1>2, <2>1 DEF b
    <2> QED
      BY <1>3, <2>1, <2>2 DEF Follows, ReadWrite
  <1>7. WritesKnown'
    <2> SUFFICES ASSUME NEW e \in Open, NEW d \in commands[e].writes \ Untracked(e), d # b,
                        NEW w \in Matrices, mat'[w].buffer = d
                 PROVE  Follows(e, mat[w].writes)'
      BY <1>1, <1>3, <1>8 DEF WritesKnown, Touches
    <2>1. mat'[w] = mat[w]
      BY <1>2
    <2> QED
      BY <1>3, <2>1 DEF IInv, WritesKnown, Follows
  <1> QED
    BY <1>4, <1>5, <1>6, <1>7 DEF IInv

(* A command that is done was the first of those it conflicts with.          *)
LEMMA FinishOK ==
  ASSUME IInv, NEW g \in DOMAIN commands, Finish(g)
  PROVE  IInv'
  <1> DEFINE c == [commands[g] EXCEPT !.done = TRUE, !.waits = {}]
  <1>1. /\ commands' = [commands EXCEPT ![g] = c] /\ commands \in Seq(Command)
        /\ c \in Command /\ c.reads = commands[g].reads /\ c.writes = commands[g].writes
        /\ c.waits = {} /\ c.done /\ mat' = mat
        /\ lost' = {l \in lost : l[1] # g}
    BY Indices DEF Finish, IInv, TypeOK, Command
  <1> HIDE DEF c
  <1>2. /\ commands' \in Seq(Command) /\ Len(commands') = Len(commands)
        /\ DOMAIN commands' = DOMAIN commands /\ commands'[g] = c
        /\ \A e \in DOMAIN commands \ {g} : commands'[e] = commands[e]
    BY <1>1, ExceptSeq
  <1>3. /\ Open' = Open \ {g} /\ g \in Open /\ commands[g].waits \cap Open = {}
        /\ \A e \in DOMAIN commands : Touches(e)' = Touches(e)
        /\ \A e, f \in DOMAIN commands : Conflict(e, f)' = Conflict(e, f)
    BY <1>1, <1>2 DEF Open, Finish, Finished, Touches, Conflict
  <1>10. \A e \in DOMAIN commands \ {g} : Untracked(e)' = Untracked(e)
    BY <1>1 DEF Untracked
  <1>4. ASSUME NEW e, NEW f, e # g, Before(e, f) PROVE Before(e, f)'
    <2> SUFFICES ASSUME NEW S \in SUBSET Events, f \in S,
                        \A h \in S \cap Open' : commands'[h].waits \cap Open' \subseteq S
                 PROVE  e \in S
      BY DEF Before
    <2>1. S \cup {g} \in SUBSET Events
      BY Indices DEF IInv
    <2>2. \A h \in (S \cup {g}) \cap Open : commands[h].waits \cap Open \subseteq S \cup {g}
      BY <1>2, <1>3 DEF Open
    <2>3. e \in S \cup {g}
      BY <1>4, <2>1, <2>2 DEF Before
    <2> QED
      BY <1>4, <2>3
  <1>5. TypeOK' /\ WaitsKnown'
    BY <1>1, <1>2 DEF IInv, TypeOK, WaitsKnown, ReadWrite
  <1>6. TouchesKnown'
    BY <1>1, <1>3, <1>4, <1>10 DEF IInv, TouchesKnown, Follows, Open
  <1>7. WritesKnown'
    BY <1>1, <1>2, <1>3, <1>4, <1>10 DEF IInv, WritesKnown, Follows, Open
  <1>8. ConflictsWait'
    BY <1>3, <1>4, <1>10 DEF IInv, ConflictsWait, Open
  <1>9. ConflictsInOrder'
    <2> SUFFICES ASSUME NEW e \in DOMAIN commands, NEW f \in DOMAIN commands, e < f,
                        commands'[f].done, ~commands'[e].done,
                        ~(Conflict(e, f) \subseteq Untracked(e))
                 PROVE  FALSE
      BY <1>1, <1>2, <1>3, <1>10 DEF ConflictsInOrder
    <2>1. e \in Open /\ e # g
      BY <1>1, <1>2 DEF Open
    <2>2. CASE f = g
      <3>1. Before(e, g)
        BY <1>3, <2>1, <2>2 DEF IInv, ConflictsWait
      <3> QED
        BY <1>3, <2>1, <3>1, BeforeDone DEF IInv
    <2>3. CASE f # g
      BY <1>2, <2>1, <2>3 DEF IInv, ConflictsInOrder, Open
    <2> QED
      BY <2>2, <2>3
  <1> QED
    BY <1>5, <1>6, <1>7, <1>8, <1>9 DEF IInv

(* What is not done and conflicts with reading the buffer of a and writing   *)
(* buffer b comes before what has to be waited for.                          *)
LEMMA Covered ==
  ASSUME IInv, NEW c, NEW b, c.writes = {b},
         \A d \in c.reads :
           \E a \in Matrices : mat[a].buffer = d /\ mat[a].writes \subseteq c.waits,
         \/ Idle(b)
         \/ \E m \in Matrices :
              ~Shared(m) /\ mat[m].buffer = b /\ ReadWrite(mat[m]) \subseteq c.waits,
         NEW e \in Open,
         ~((commands[e].writes \cap (c.reads \cup c.writes))
             \cup (c.writes \cap Touches(e)) \subseteq Untracked(e))
  PROVE  Follows(e, c.waits)
  <1>1. CASE \E d \in c.reads : d \in commands[e].writes \ Untracked(e)
    <2>1. PICK d \in c.reads : d \in commands[e].writes \ Untracked(e)
      BY <1>1
    <2>2. PICK a \in Matrices : mat[a].buffer = d /\ mat[a].writes \subseteq c.waits
      BY <2>1
    <2>3. Follows(e, mat[a].writes)
      BY <2>1, <2>2 DEF IInv, WritesKnown
    <2> QED
      BY <2>2, <2>3 DEF Follows
  <1>2. CASE b \in Touches(e) \ Untracked(e)
    <2>1. PICK m \in Matrices :
            ~Shared(m) /\ mat[m].buffer = b /\ ReadWrite(mat[m]) \subseteq c.waits
      BY <1>2 DEF Idle
    <2>2. PICK w \in Matrices : mat[w].buffer = b /\ Follows(e, ReadWrite(mat[w]))
      BY <1>2 DEF IInv, TouchesKnown
    <2>3. w = m
      BY <2>1, <2>2 DEF Shared
    <2> QED
      BY <2>1, <2>2, <2>3 DEF Follows
  <1> QED
    BY <1>1, <1>2 DEF Touches

LEMMA Recorded ==
  ASSUME NEW r \in Matrix
  PROVE  /\ AddRead(r).buffer = r.buffer /\ AddRead(r).writes = r.writes
         /\ AddRead(r).reads = r.reads \cup {NewEvent}
         /\ AddWrite(r).buffer = r.buffer /\ AddWrite(r).reads = r.reads
         /\ AddWrite(r).writes = r.writes \cup {NewEvent}
         /\ NewEvent \in Events =>
              AddRead(r) \in Matrix /\ AddWrite(r) \in Matrix
  BY DEF AddRead, AddWrite, Matrix

LEMMA FromHostOK ==
  ASSUME IInv, NEW m \in Matrices, FromHost(m)
  PROVE  IInv'
  <1>1. PICK b \in Unused : /\ Enqueue({}, {b}, {})
                            /\ mat' = [mat EXCEPT ![m] = AddWrite(Fresh(b))]
    BY DEF FromHost
  <1>2. PICK n : n = NewEvent
    OBVIOUS
  <1> DEFINE c == [reads |-> {}, writes |-> {b}, waits |-> {}, done |-> FALSE]
  <1>3. /\ commands' = Append(commands, c) /\ Len(commands) < MaxCommands
        /\ lost' = lost /\ c \in Command /\ b \in Buffers /\ mat[m] = Empty
    BY <1>1 DEF Enqueue, FromHost, Command, Unused
  <1>4. n \in Events
    BY <1>2, <1>3, Indices, OpenclEventsAssumption DEF NewEvent, Events, IInv
  <1>5. /\ mat' \in [Matrices -> Matrix] /\ mat'[m].buffer = b
        /\ mat'[m].reads = {} /\ mat'[m].writes = {n}
        /\ \A w \in Matrices \ {m} : mat'[w] = mat[w] /\ mat[w].buffer # b
    BY <1>1, <1>2, <1>3, <1>4, EmptyMatrix, Recorded DEF IInv, TypeOK, Unused
  <1>6. Idle(b) /\ ReadWrite(mat[m]) = {}
    BY <1>3, EmptyMatrix, IdleBuffers
  <1>7. /\ c.reads = {} /\ c.writes = {b} /\ c.waits = {} /\ ~c.done
    OBVIOUS
  <1> HIDE DEF c
  <1>8. \A w \in Matrices : ReadWrite(mat'[w]) \subseteq DOMAIN commands \cup {n}
    BY <1>5 DEF IInv, TypeOK, ReadWrite
  <1>9. \A w \in Matrices : Hands(w, c.waits, n) \/ Starts(w)
    BY <1>5, <1>6 DEF Hands, Starts
  <1>10. ASSUME NEW e \in Open,
                ~((commands[e].writes \cap (c.reads \cup c.writes))
                    \cup (c.writes \cap Touches(e)) \subseteq Untracked(e))
         PROVE  Follows(e, c.waits)
    BY <1>6, <1>7, <1>10, Covered
  <1>11. /\ \A d \in c.reads \cup c.writes :
              \E w \in Matrices : mat'[w].buffer = d /\ n \in ReadWrite(mat'[w])
         /\ \A d \in c.writes, w \in Matrices :
              mat'[w].buffer = d => n \in mat'[w].writes
    BY <1>5, <1>7 DEF ReadWrite
  <1>12. c.waits \subseteq DOMAIN commands /\ (c.done => c.waits = {})
    BY <1>7
  <1> QED
    BY <1>2, <1>3, <1>5, <1>8, <1>9, <1>10, <1>11, <1>12, CommandOK

(* The write nobody gets to know of is on a buffer that was idle.            *)
LEMMA FromHostThrowsOK ==
  ASSUME IInv, NEW m \in Matrices, FromHostThrows(m)
  PROVE  IInv'
  <1>1. PICK b \in Unused : /\ Enqueue({}, {b}, {})
                            /\ lost' = lost \cup {<<NewEvent, b>>}
    BY DEF FromHostThrows
  <1>2. PICK n, U : n = NewEvent /\ U = {b}
    OBVIOUS
  <1> DEFINE c == [reads |-> {}, writes |-> {b}, waits |-> {}, done |-> FALSE]
  <1>3. /\ commands' = Append(commands, c) /\ Len(commands) < MaxCommands
        /\ c \in Command /\ b \in Buffers /\ mat' = mat
        /\ U \in SUBSET Buffers /\ lost' = lost \cup ({n} \X U)
    BY <1>1, <1>2 DEF Enqueue, FromHostThrows, Command, Unused
  <1>4. /\ c.reads = {} /\ c.writes = {b} /\ c.waits = {} /\ ~c.done
    OBVIOUS
  <1> HIDE DEF c
  <1>5. Idle(b)
    BY IdleBuffers
  <1>6. \A e \in Open :
          ~((commands[e].writes \cap (c.reads \cup c.writes))
              \cup (c.writes \cap Touches(e)) \subseteq Untracked(e)) => Follows(e, c.waits)
    BY <1>4, <1>5, Covered
  <1>7. /\ mat' \in [Matrices -> Matrix]
        /\ \A w \in Matrices : ReadWrite(mat'[w]) \subseteq DOMAIN commands \cup {n}
    BY <1>3 DEF IInv, TypeOK
  <1>8. \A w \in Matrices : Hands(w, c.waits, n)
    BY <1>3 DEF Hands
  <1>9. (c.reads \cup c.writes) \ U = {} /\ c.writes \ U = {}
    BY <1>2, <1>4
  <1>10. c.waits \subseteq DOMAIN commands /\ (c.done => c.waits = {})
    BY <1>4
  <1>11. Accounted(c, n, U)
    BY <1>6, <1>8, <1>9 DEF Accounted
  <1> QED
    BY <1>2, <1>3, <1>7, <1>10, <1>11, UntrackedCommandOK

(* Nor does anybody get to know of a copy that throws; matrices that change  *)
(* had nothing to lose.                                                      *)
LEMMA InitializeBufferClThrowsOK ==
  ASSUME IInv, NEW a \in Matrices, NEW b \in Buffers, Has(a), Idle(b),
         InitializeBufferClThrows(b, a), mat' \in [Matrices -> Matrix],
         \A w \in Matrices :
           \/ mat'[w] = mat[w]
           \/ Starts(w) /\ ReadWrite(mat'[w]) = {}
  PROVE  IInv'
  <1>1. PICK n, U : n = NewEvent /\ U = {b, mat[a].buffer}
    OBVIOUS
  <1> DEFINE c == [reads |-> {mat[a].buffer}, writes |-> {b},
                   waits |-> mat[a].writes, done |-> FALSE]
  <1>2. mat[a] \in Matrix /\ mat[a].buffer \in Buffers
    BY DEF IInv, TypeOK, Has, Matrix
  <1>3. /\ commands' = Append(commands, c) /\ Len(commands) < MaxCommands
        /\ U \in SUBSET Buffers /\ lost' = lost \cup ({n} \X U)
    BY <1>1, <1>2 DEF InitializeBufferClThrows, Enqueue
  <1>4. /\ c.reads = {mat[a].buffer} /\ c.writes = {b}
        /\ c.waits = mat[a].writes /\ ~c.done /\ c.waits \subseteq DOMAIN commands
        /\ c \in Command
    BY <1>2, Indices DEF IInv, TypeOK, ReadWrite, Command
  <1> HIDE DEF c
  <1>5. \A e \in Open :
          ~((commands[e].writes \cap (c.reads \cup c.writes))
              \cup (c.writes \cap Touches(e)) \subseteq Untracked(e)) => Follows(e, c.waits)
    BY <1>4, Covered
  <1>6. \A w \in Matrices : ReadWrite(mat'[w]) \subseteq DOMAIN commands \cup {n}
    BY DEF IInv, TypeOK
  <1>7. \A w \in Matrices : Hands(w, c.waits, n) \/ Starts(w)
    BY DEF Hands
  <1>8. (c.reads \cup c.writes) \ U = {} /\ c.writes \ U = {}
    BY <1>1, <1>4
  <1>9. (c.done => c.waits = {}) /\ c \in Command /\ c.waits \subseteq DOMAIN commands
        /\ n = NewEvent
    BY <1>1, <1>4
  <1>10. Accounted(c, n, U)
    BY <1>5, <1>7, <1>8 DEF Accounted
  <1> QED
    BY <1>3, <1>6, <1>9, <1>10, UntrackedCommandOK

(* The copy waits for the writers of the source and nobody else.             *)
LEMMA InitializeBufferClOK ==
  ASSUME IInv, NEW m \in Matrices, NEW a \in Matrices, NEW b \in Buffers,
         m # a, Has(a), ReadWrite(mat[m]) \cap Open = {}, Idle(b),
         \A w \in Matrices \ {m} : mat[w].buffer # b,
         InitializeBufferCl(m, b, a), UNCHANGED lost
  PROVE  IInv'
  <1>1. PICK n : n = NewEvent
    OBVIOUS
  <1> DEFINE c == [reads |-> {mat[a].buffer}, writes |-> {b},
                   waits |-> mat[a].writes, done |-> FALSE]
  <1>2. mat[a] \in Matrix /\ mat[a].buffer \in Buffers
    BY DEF IInv, TypeOK, Has, Matrix
  <1>3. commands' = Append(commands, c) /\ Len(commands) < MaxCommands /\ lost' = lost
    BY DEF InitializeBufferCl, Enqueue
  <1>4. n \in Events
    BY <1>1, <1>3, Indices, OpenclEventsAssumption DEF NewEvent, Events, IInv
  <1>5. /\ mat' \in [Matrices -> Matrix]
        /\ mat'[m].buffer = b /\ mat'[m].reads = {} /\ mat'[m].writes = {n}
        /\ mat'[a].buffer = mat[a].buffer /\ mat'[a].writes = mat[a].writes
        /\ mat'[a].reads = mat[a].reads \cup {n}
        /\ \A w \in Matrices \ {m, a} : mat'[w] = mat[w]
    BY <1>1, <1>2, <1>4, EmptyMatrix, Recorded DEF IInv, TypeOK, InitializeBufferCl
  <1>6. /\ c.reads = {mat[a].buffer} /\ c.writes = {b}
        /\ c.waits = mat[a].writes /\ ~c.done /\ c.waits \subseteq DOMAIN commands
        /\ c \in Command
    BY <1>2, Indices DEF IInv, TypeOK, ReadWrite, Command
  <1> HIDE DEF c
  <1>7. \A w \in Matrices : ReadWrite(mat'[w]) \subseteq DOMAIN commands \cup {n}
    BY <1>5 DEF IInv, TypeOK, ReadWrite
  <1>8. \A w \in Matrices : Hands(w, c.waits, n) \/ Starts(w)
    BY <1>5 DEF Hands, Starts, ReadWrite
  <1>9. ASSUME NEW e \in Open,
               ~((commands[e].writes \cap (c.reads \cup c.writes))
                   \cup (c.writes \cap Touches(e)) \subseteq Untracked(e))
        PROVE  Follows(e, c.waits)
    BY <1>6, <1>9, Covered
  <1>10. /\ \A d \in c.reads \cup c.writes :
              \E w \in Matrices : mat'[w].buffer = d /\ n \in ReadWrite(mat'[w])
         /\ \A d \in c.writes, w \in Matrices :
              mat'[w].buffer = d => n \in mat'[w].writes
    BY <1>5, <1>6 DEF ReadWrite
  <1> QED
    BY <1>1, <1>3, <1>5, <1>6, <1>7, <1>8, <1>9, <1>10, CommandOK

LEMMA CopyConstructOK ==
  ASSUME IInv, NEW m \in Matrices, NEW a \in Matrices, CopyConstruct(m, a)
  PROVE  IInv'
  <1>1. PICK b \in Unused : InitializeBufferCl(m, b, a)
    BY DEF CopyConstruct
  <1>2. m # a /\ ReadWrite(mat[m]) \cap Open = {} /\ Idle(b)
    BY EmptyMatrix, IdleBuffers DEF CopyConstruct, Has
  <1>3. b \in Buffers /\ \A w \in Matrices : mat[w].buffer # b
    BY DEF Unused
  <1> QED
    BY <1>1, <1>2, <1>3, InitializeBufferClOK DEF CopyConstruct

LEMMA CopyAssignOK ==
  ASSUME IInv, NEW m \in Matrices, NEW a \in Matrices, CopyAssign(m, a)
  PROVE  IInv'
  <1>1. PICK b \in BuffersFor(m) : InitializeBufferCl(m, b, a)
    BY DEF CopyAssign
  <1>2. m # a /\ Has(a) /\ ReadWrite(mat[m]) \cap Open = {} /\ Idle(b) /\ lost' = lost
    BY IdleBuffers DEF CopyAssign, BuffersFor
  <1>3. b \in Buffers /\ \A w \in Matrices \ {m} : mat[w].buffer # b
    BY DEF BuffersFor, Unused, Shared, Has, IInv, TypeOK, Matrix
  <1> QED
    BY <1>1, <1>2, <1>3, InitializeBufferClOK

LEMMA CopyConstructThrowsOK ==
  ASSUME IInv, NEW m \in Matrices, NEW a \in Matrices, CopyConstructThrows(m, a)
  PROVE  IInv'
  <1>1. PICK b \in Unused : InitializeBufferClThrows(b, a)
    BY DEF CopyConstructThrows
  <1>2. Has(a) /\ b \in Buffers /\ mat' = mat /\ mat \in [Matrices -> Matrix]
    BY DEF CopyConstructThrows, Unused, IInv, TypeOK
  <1> QED
    BY <1>1, <1>2, IdleBuffers, InitializeBufferClThrowsOK

LEMMA CopyAssignThrowsOK ==
  ASSUME IInv, NEW m \in Matrices, NEW a \in Matrices, CopyAssignThrows(m, a)
  PROVE  IInv'
  <1>1. PICK b \in BuffersFor(m) \cup {mat[m].buffer} :
          /\ mat' = [mat EXCEPT ![m] = Fresh(b)]
          /\ \/ UNCHANGED <<commands, lost>>
             \/ b \in BuffersFor(m) /\ InitializeBufferClThrows(b, a)
    BY DEF CopyAssignThrows
  <1>2. /\ m # a /\ Has(a) /\ ReadWrite(mat[m]) \cap Open = {}
        /\ mat \in [Matrices -> Matrix] /\ b \in Buffers \cup {NoBuffer}
        /\ Unwritten(b) /\ (b \in BuffersFor(m) => b \in Buffers /\ Idle(b))
    BY IdleBuffers DEF CopyAssignThrows, BuffersFor, Has, Unused, IInv, TypeOK, Matrix
  <1>3. Fresh(b) \in Matrix /\ ReadWrite(Fresh(b)) = {} /\ Fresh(b).buffer = b
    BY <1>2 DEF Fresh, Empty, Matrix, ReadWrite
  <1>4. /\ mat' \in [Matrices -> Matrix] /\ mat'[m] = Fresh(b)
        /\ \A w \in Matrices \ {m} : mat'[w] = mat[w]
    BY <1>1, <1>2, <1>3
  <1>5. CASE UNCHANGED <<commands, lost>>
    BY <1>2, <1>3, <1>4, <1>5, MatricesOK
  <1>6. CASE b \in BuffersFor(m) /\ InitializeBufferClThrows(b, a)
    <2>1. Starts(m) /\ ReadWrite(mat'[m]) = {}
      BY <1>2, <1>3, <1>4, <1>6 DEF Starts
    <2> QED
      BY <1>2, <1>4, <1>6, <2>1, InitializeBufferClThrowsOK
  <1> QED
    BY <1>1, <1>5, <1>6

LEMMA SetZeroOK ==
  ASSUME IInv, NEW m \in Matrices, SetZero(m)
  PROVE  IInv'
  <1>1. PICK n : n = NewEvent
    OBVIOUS
  <1> DEFINE b == mat[m].buffer
             c == [reads |-> {}, writes |-> {b},
                   waits |-> ReadWrite(mat[m]), done |-> FALSE]
  <1>2. mat[m] \in Matrix /\ b \in Buffers /\ ~Shared(m)
    BY DEF IInv, TypeOK, SetZero, Has, Matrix
  <1>3. commands' = Append(commands, c) /\ Len(commands) < MaxCommands /\ lost' = lost
    BY DEF SetZero, Enqueue
  <1>4. n \in Events
    BY <1>1, <1>3, Indices, OpenclEventsAssumption DEF NewEvent, Events, IInv
  <1>5. /\ mat' \in [Matrices -> Matrix]
        /\ mat'[m].buffer = b /\ mat'[m].reads = mat[m].reads
        /\ mat'[m].writes = mat[m].writes \cup {n}
        /\ \A w \in Matrices \ {m} : mat'[w] = mat[w] /\ mat[w].buffer # b
    BY <1>1, <1>2, <1>4, Recorded DEF IInv, TypeOK, SetZero, Shared
  <1>6. /\ c.reads = {} /\ c.writes = {b} /\ c.waits = ReadWrite(mat[m])
        /\ ~c.done /\ c.waits \subseteq DOMAIN commands /\ c \in Command
    BY <1>2, Indices DEF IInv, TypeOK, Command
  <1> HIDE DEF c
  <1>7. \A w \in Matrices : ReadWrite(mat'[w]) \subseteq DOMAIN commands \cup {n}
    BY <1>5 DEF IInv, TypeOK, ReadWrite
  <1>8. \A w \in Matrices : Hands(w, c.waits, n)
    BY <1>5 DEF Hands, ReadWrite
  <1>9. ASSUME NEW e \in Open,
               ~((commands[e].writes \cap (c.reads \cup c.writes))
                   \cup (c.writes \cap Touches(e)) \subseteq Untracked(e))
        PROVE  Follows(e, c.waits)
    <2>1. /\ ~Shared(m) /\ mat[m].buffer = b /\ ReadWrite(mat[m]) \subseteq c.waits
          /\ c.writes = {b} /\ c.reads = {}
      BY <1>2, <1>6
    <2> HIDE DEF b
    <2> QED
      BY <1>9, <2>1, Covered
  <1>10. /\ \A d \in c.reads \cup c.writes :
              \E w \in Matrices : mat'[w].buffer = d /\ n \in ReadWrite(mat'[w])
         /\ \A d \in c.writes, w \in Matrices :
              mat'[w].buffer = d => n \in mat'[w].writes
    BY <1>5, <1>6 DEF ReadWrite
  <1> QED
    BY <1>1, <1>3, <1>5, <1>6, <1>7, <1>8, <1>9, <1>10, CommandOK

(* A command that reads a, which may be m, and writes m waits for the        *)
(* writers of a and all users of m; then it stands for those of m.           *)
LEMMA ReadThenWriteOK ==
  ASSUME IInv, NEW m \in Matrices, NEW a \in Matrices,
         Has(m), Has(a), ~Shared(m), NEW n, n = NewEvent,
         Enqueue({mat[a].buffer}, {mat[m].buffer}, mat[a].writes \cup ReadWrite(mat[m])),
         lost' = lost, mat' \in [Matrices -> Matrix],
         mat'[m].buffer = mat[m].buffer, n \in mat'[m].writes,
         ReadWrite(mat'[m]) \subseteq DOMAIN commands \cup {n},
         m # a => /\ mat'[a].buffer = mat[a].buffer /\ mat'[a].writes = mat[a].writes
                  /\ mat'[a].reads = mat[a].reads \cup {n},
         \A w \in Matrices \ {m, a} : mat'[w] = mat[w]
  PROVE  IInv'
  <1> DEFINE b == mat[m].buffer
             c == [reads |-> {mat[a].buffer}, writes |-> {b},
                   waits |-> mat[a].writes \cup ReadWrite(mat[m]), done |-> FALSE]
  <1>1. commands' = Append(commands, c) /\ Len(commands) < MaxCommands
    BY DEF Enqueue
  <1>2. /\ c.reads = {mat[a].buffer} /\ c.writes = {b} /\ ~c.done
        /\ c.waits = mat[a].writes \cup ReadWrite(mat[m])
        /\ c.waits \subseteq DOMAIN commands
    BY DEF IInv, TypeOK, ReadWrite
  <1>3. b \in Buffers /\ mat[a].buffer \in Buffers
    BY DEF Has, IInv, TypeOK, Matrix
  <1>4. c \in Command
    BY <1>2, <1>3, Indices DEF IInv, Command
  <1> HIDE DEF c
  <1>5. \A w \in Matrices : ReadWrite(mat'[w]) \subseteq DOMAIN commands \cup {n}
    BY DEF IInv, TypeOK, ReadWrite
  <1>6. \A w \in Matrices : Hands(w, c.waits, n)
    BY <1>2 DEF Hands, ReadWrite
  <1>7. ASSUME NEW e \in Open,
               ~((commands[e].writes \cap (c.reads \cup c.writes))
                   \cup (c.writes \cap Touches(e)) \subseteq Untracked(e))
        PROVE  Follows(e, c.waits)
    <2>1. /\ ~Shared(m) /\ mat[m].buffer = b /\ ReadWrite(mat[m]) \subseteq c.waits
          /\ c.writes = {b} /\ c.reads = {mat[a].buffer} /\ mat[a].writes \subseteq c.waits
      BY <1>2
    <2> HIDE DEF b
    <2> QED
      BY <1>7, <2>1, Covered
  <1>8. \A d \in c.reads \cup c.writes :
          \E w \in Matrices : mat'[w].buffer = d /\ n \in ReadWrite(mat'[w])
    BY <1>2 DEF ReadWrite
  <1>9. \A d \in c.writes, w \in Matrices : mat'[w].buffer = d => n \in mat'[w].writes
    BY <1>2 DEF Shared
  <1> HIDE DEF b
  <1> QED
    BY <1>1, <1>2, <1>4, <1>5, <1>6, <1>7, <1>8, <1>9, CommandOK

LEMMA KernelOK ==
  ASSUME IInv, NEW m \in Matrices, NEW a \in Matrices, Kernel(a, m)
  PROVE  IInv'
  <1>1. PICK n : n = NewEvent
    OBVIOUS
  <1>2. /\ m # a /\ Has(m) /\ Has(a) /\ ~Shared(m) /\ lost' = lost
        /\ Enqueue({mat[a].buffer}, {mat[m].buffer}, mat[a].writes \cup ReadWrite(mat[m]))
    BY DEF Kernel
  <1>3. n \in Events
    BY <1>1, <1>2, Indices, OpenclEventsAssumption DEF NewEvent, Events, IInv, Enqueue
  <1>4. /\ mat' \in [Matrices -> Matrix]
        /\ mat'[m].buffer = mat[m].buffer /\ mat'[m].reads = mat[m].reads
        /\ mat'[m].writes = mat[m].writes \cup {n}
        /\ mat'[a].buffer = mat[a].buffer /\ mat'[a].writes = mat[a].writes
        /\ mat'[a].reads = mat[a].reads \cup {n}
        /\ \A w \in Matrices \ {m, a} : mat'[w] = mat[w]
    BY <1>1, <1>2, <1>3, Recorded DEF IInv, TypeOK, Kernel
  <1>5. ReadWrite(mat'[m]) \subseteq DOMAIN commands \cup {n}
    BY <1>4 DEF IInv, TypeOK, ReadWrite
  <1> QED
    BY <1>1, <1>2, <1>4, <1>5, ReadThenWriteOK

LEMMA KernelInOutOK ==
  ASSUME IInv, NEW m \in Matrices, KernelInOut(m)
  PROVE  IInv'
  <1>1. PICK n : n = NewEvent
    OBVIOUS
  <1>2. mat[m].writes \cup ReadWrite(mat[m]) = ReadWrite(mat[m])
    BY DEF ReadWrite
  <1>3. /\ Has(m) /\ ~Shared(m) /\ lost' = lost
        /\ Enqueue({mat[m].buffer}, {mat[m].buffer}, mat[m].writes \cup ReadWrite(mat[m]))
    BY <1>2 DEF KernelInOut
  <1>4. n \in Events
    BY <1>1, <1>3, Indices, OpenclEventsAssumption DEF NewEvent, Events, IInv, Enqueue
  <1>5. /\ mat' \in [Matrices -> Matrix]
        /\ mat'[m].buffer = mat[m].buffer
        /\ mat'[m].reads = mat[m].reads \cup {n}
        /\ mat'[m].writes = mat[m].writes \cup {n}
        /\ \A w \in Matrices \ {m} : mat'[w] = mat[w]
    BY <1>1, <1>4, Recorded DEF IInv, TypeOK, KernelInOut
  <1>6. ReadWrite(mat'[m]) \subseteq DOMAIN commands \cup {n}
    BY <1>5 DEF IInv, TypeOK, ReadWrite
  <1> QED
    BY <1>1, <1>3, <1>5, <1>6, ReadThenWriteOK

(* The events an assignment clears are those it waits for.                   *)
LEMMA AssignOK ==
  ASSUME IInv, NEW m \in Matrices, NEW a \in Matrices, Assign(m, a)
  PROVE  IInv'
  <1>1. PICK n : n = NewEvent
    OBVIOUS
  <1>2. /\ Has(m) /\ Has(a) /\ ~Shared(m) /\ lost' = lost
        /\ Enqueue({mat[a].buffer}, {mat[m].buffer}, mat[a].writes \cup ReadWrite(mat[m]))
    BY DEF Assign
  <1>3. n \in Events
    BY <1>1, <1>2, Indices, OpenclEventsAssumption DEF NewEvent, Events, IInv, Enqueue
  <1> DEFINE cleared == [mat EXCEPT ![m] = Fresh(mat[m].buffer)]
             read == [cleared EXCEPT ![a] = AddRead(cleared[a])]
  <1>4. /\ cleared \in [Matrices -> Matrix]
        /\ cleared[m].buffer = mat[m].buffer /\ ReadWrite(cleared[m]) = {}
        /\ \A w \in Matrices \ {m} : cleared[w] = mat[w]
    BY <1>2, EmptyMatrix DEF IInv, TypeOK, Has, Matrix
  <1>5. mat' = [read EXCEPT ![m] = AddWrite(read[m])]
    BY DEF Assign
  <1> HIDE DEF cleared
  <1>6. /\ read \in [Matrices -> Matrix]
        /\ read[m].buffer = mat[m].buffer /\ ReadWrite(read[m]) \subseteq {n}
        /\ m # a => /\ read[a].buffer = mat[a].buffer /\ read[a].writes = mat[a].writes
                    /\ read[a].reads = mat[a].reads \cup {n}
        /\ \A w \in Matrices \ {m, a} : read[w] = mat[w]
    BY <1>1, <1>3, <1>4, Recorded DEF ReadWrite
  <1> HIDE DEF read
  <1>7. /\ mat' \in [Matrices -> Matrix]
        /\ mat'[m].buffer = mat[m].buffer /\ n \in mat'[m].writes
        /\ ReadWrite(mat'[m]) \subseteq {n}
        /\ \A w \in Matrices \ {m} : mat'[w] = read[w]
    BY <1>1, <1>3, <1>5, <1>6, Recorded DEF ReadWrite
  <1> QED
    BY <1>1, <1>2, <1>6, <1>7, ReadThenWriteOK

(* What has been read back has no open writer to be waited for.              *)
LEMMA FromMatrixClOK ==
  ASSUME IInv, NEW a \in Matrices, FromMatrixCl(a)
  PROVE  IInv'
  <1>1. PICK n : n = NewEvent
    OBVIOUS
  <1> DEFINE c == [reads |-> {mat[a].buffer}, writes |-> {}, waits |-> {}, done |-> TRUE]
  <1>2. /\ commands' = Append(commands, c) /\ Len(commands) < MaxCommands
        /\ lost' = lost /\ mat[a].writes \cap Open = {}
    BY DEF FromMatrixCl, ReadsAfter, Finished, Open
  <1>3. c \in Command
    BY DEF FromMatrixCl, Has, IInv, TypeOK, Matrix, Command
  <1>4. c.reads = {mat[a].buffer} /\ c.writes = {} /\ c.waits = {} /\ c.done
    OBVIOUS
  <1> HIDE DEF c
  <1>5. /\ mat' \in [Matrices -> Matrix]
        /\ mat'[a].buffer = mat[a].buffer
        /\ mat'[a].reads = mat[a].reads /\ mat'[a].writes = {}
        /\ \A w \in Matrices \ {a} : mat'[w] = mat[w]
    BY DEF IInv, TypeOK, FromMatrixCl, Matrix
  <1>6. \A w \in Matrices : ReadWrite(mat'[w]) \subseteq DOMAIN commands \cup {n}
    BY <1>5 DEF IInv, TypeOK, ReadWrite
  <1>7. \A w \in Matrices : Hands(w, c.waits, n)
    BY <1>2, <1>5 DEF Hands, ReadWrite
  <1>8. ASSUME NEW e \in Open, mat[a].buffer \in commands[e].writes \ Untracked(e)
        PROVE  FALSE
    <2>1. Follows(e, mat[a].writes)
      BY <1>8 DEF IInv, WritesKnown
    <2> QED
      BY <1>2, <2>1, FollowsOpen DEF IInv, TypeOK, ReadWrite
  <1>9. \A e \in Open :
          ~((commands[e].writes \cap (c.reads \cup c.writes))
              \cup (c.writes \cap Touches(e)) \subseteq Untracked(e)) => Follows(e, c.waits)
    BY <1>4, <1>8
  <1> QED
    BY <1>1, <1>2, <1>3, <1>4, <1>5, <1>6, <1>7, <1>9, CommandOK
-----------------------------------------------------------------------------
LEMMA InitOK == Init => IInv
  <1> SUFFICES ASSUME Init PROVE IInv
    OBVIOUS
  <1>1. commands = <<>> /\ commands \in Seq(Command) /\ Len(commands) = 0
    BY DEF Init
  <1>2. DOMAIN commands = {} /\ Open = {}
    BY <1>1 DEF Open
  <1>3. mat \in [Matrices -> Matrix] /\ \A m \in Matrices : ReadWrite(mat[m]) = {}
    BY EmptyMatrix DEF Init
  <1> QED
    BY <1>1, <1>2, <1>3, OpenclEventsAssumption
    DEF Init, IInv, TypeOK, WaitsKnown, TouchesKnown, WritesKnown, ConflictsWait,
        ConflictsInOrder

LEMMA Inductive == IInv /\ [Next]_vars => IInv'
  <1> SUFFICES ASSUME IInv, [Next]_vars PROVE IInv'
    OBVIOUS
  <1>1. CASE \E e \in DOMAIN commands : Finish(e)
    BY <1>1, FinishOK
  <1>2. CASE \E m \in Matrices :
               \/ Allocate(m) \/ FromHost(m) \/ FromHostThrows(m) \/ Destroy(m)
               \/ SetZero(m) \/ KernelInOut(m) \/ AssignThrows(m) \/ FromMatrixCl(m)
    BY <1>2, AllocateOK, FromHostOK, FromHostThrowsOK, DestroyOK, SetZeroOK, KernelInOutOK,
       AssignThrowsOK, FromMatrixClOK
  <1>3. CASE \E m, a \in Matrices :
               \/ CopyConstruct(m, a) \/ CopyConstructThrows(m, a) \/ MoveConstruct(m, a)
               \/ CopyAssign(m, a) \/ CopyAssignThrows(m, a) \/ MoveAssign(m, a)
               \/ Share(m, a) \/ Kernel(a, m) \/ Assign(m, a)
    BY <1>3, CopyConstructOK, CopyConstructThrowsOK, MoveOK, CopyAssignOK,
       CopyAssignThrowsOK, ShareOK, KernelOK, AssignOK
  <1>4. CASE UNCHANGED vars
    <2>1. commands' = commands /\ mat' = mat /\ lost' = lost
      BY <1>4 DEF vars
    <2> QED
      BY <2>1, MatricesOK DEF IInv, TypeOK
  <1> QED
    BY <1>1, <1>2, <1>3, <1>4 DEF Next

(* Matrices, commands and lists of events keep their shapes, and the lists   *)
(* name commands that have been enqueued.                                    *)
THEOREM TypeCorrect == Spec => []TypeOK
  <1>1. IInv => TypeOK
    BY DEF IInv
  <1> QED
    BY InitOK, Inductive, <1>1, PTL DEF Spec

(* Of two commands on a buffer one of which writes it, the first enqueued is *)
(* done first, in whatever order the device takes them and whichever         *)
(* matrices held the buffer (the wait lists of kernel_cl.hpp, matrix_cl.hpp, *)
(* multi_result_kernel.hpp and copy.hpp) - but for a first one that an       *)
(* operation which threw has left untracked on the buffer.                   *)
THEOREM CommandsInOrder == Spec => []ConflictsInOrder
  <1>1. IInv => ConflictsInOrder
    BY DEF IInv
  <1> QED
    BY InitOK, Inductive, <1>1, PTL DEF Spec

(* No command that is not done touches a buffer no matrix has, but for those *)
(* that an operation which threw has left untracked on it: "to prevent any   *)
(* kernels from writing memory that has already been reused"                 *)
(* (matrix_cl.hpp:499).                                                      *)
THEOREM FreedIsIdle == Spec => []FreedMemoryIsIdle
  <1>1. IInv => FreedMemoryIsIdle
    BY IdleBuffers DEF FreedMemoryIsIdle, Idle, Open
  <1> QED
    BY InitOK, Inductive, <1>1, PTL DEF Spec
=============================================================================
