------------------------ MODULE MpiMapChunks_proofs -------------------------
(***************************************************************************)
(* The loops of mpi_map_chunks compute MapChunks, inside their vector, for *)
(* every number of jobs and processes.                                     *)
(***************************************************************************)
EXTENDS MpiMapChunks, TLAPS

\* What the loop has done after r iterations.
Dealt ==
  [rank \in 0..(world_size - 1) |->
     (num_jobs \div world_size)
       + (IF delta_r <= rank /\ rank < delta_r + r THEN 1 ELSE 0)]

IInv ==
  /\ TypeOK
  /\ at = "dealing" => chunks = Dealt
  /\ ComputesMapChunks

\* Division by a positive number: what the remainder and the quotient are.
LEMMA Division ==
  ASSUME NEW n \in Nat, NEW w \in Nat \ {0}
  PROVE  /\ n \div w \in Nat
         /\ n % w \in 0..(w - 1)
         /\ n = w * (n \div w) + (n % w)
  OBVIOUS

\* The remainder leaves a rank free: an index that starts at delta_r stays in
\* the vector.
LEMMA RoomForRemainder ==
  ASSUME TypeOK, r # num_jobs % world_size
  PROVE  r + delta_r \in 0..(world_size - 1)
  <1>1. /\ num_jobs % world_size \in 0..(world_size - 1)
        /\ r \in 0..(num_jobs % world_size)
        /\ world_size \in Nat \ {0}
    BY Division DEF TypeOK
  <1>2. delta_r \in {0, 1}
    BY DEF delta_r
  <1>. QED
    BY <1>1, <1>2, r # num_jobs % world_size

LEMMA InitInvariant == Init => IInv
  <1>. SUFFICES ASSUME Init PROVE IInv
    OBVIOUS
  <1>1. /\ num_jobs \in Nat /\ chunk_size \in Nat
        /\ world_size \in Nat \ {0}
    BY ChunksAssumption DEF Init
  <1>2. /\ num_jobs \div world_size \in Nat
        /\ num_jobs % world_size \in Nat
    BY <1>1, Division
  <1>3. TypeOK
    BY <1>1, <1>2 DEF Init, TypeOK
  <1>4. chunks = Dealt
    BY <1>2 DEF Init, Dealt, delta_r
  <1>. QED
    BY <1>3, <1>4 DEF Init, IInv, ComputesMapChunks

LEMMA StepInvariant == IInv /\ [Next]_vars => IInv'
  <1>. SUFFICES ASSUME IInv, [Next]_vars PROVE IInv'
    OBVIOUS
  <1>. USE DEF TypeOK
  <1>0. num_jobs \in Nat /\ world_size \in Nat \ {0}
    BY DEF IInv
  <1>1. /\ num_jobs \div world_size \in Nat
        /\ num_jobs % world_size \in Nat
    BY <1>0, Division
  <1>2. CASE DealOne
    <2>1. r + delta_r \in 0..(world_size - 1)
      BY <1>2, RoomForRemainder DEF IInv, DealOne
    <2>2. TypeOK'
      BY <1>2, <1>1, <2>1 DEF IInv, DealOne
    <2>3. chunks' = Dealt'
      <3>1. chunks = Dealt /\ delta_r' = delta_r /\ delta_r \in {0, 1}
        BY <1>2 DEF IInv, DealOne, delta_r
      <3>2. ASSUME NEW rank \in 0..(world_size - 1)
            PROVE  chunks'[rank] = Dealt'[rank]
        <4>1. CASE rank = r + delta_r
          BY <1>2, <1>1, <2>1, <3>1, <4>1 DEF IInv, DealOne, Dealt
        <4>2. CASE rank # r + delta_r
          BY <1>2, <1>1, <2>1, <3>1, <4>2 DEF IInv, DealOne, Dealt
        <4>. QED
          BY <4>1, <4>2
      <3>. QED
        BY <1>2, <3>2 DEF IInv, DealOne, Dealt
    <2>. QED
      BY <1>2, <2>2, <2>3 DEF IInv, DealOne, ComputesMapChunks
  <1>3. CASE Scale
    <2>1. TypeOK'
      BY <1>3 DEF IInv, Scale
    <2>2. chunks' = MapChunks(num_jobs, world_size, chunk_size)
      BY <1>3 DEF IInv, Scale, Dealt, MapChunks, HasExtra, FirstWithExtra,
                  delta_r
    <2>. QED
      BY <1>3, <2>1, <2>2 DEF IInv, Scale, ComputesMapChunks
  <1>4. CASE UNCHANGED vars
    BY <1>4 DEF IInv, vars, Dealt, delta_r, ComputesMapChunks
  <1>. QED
    BY <1>2, <1>3, <1>4 DEF Next

\* The loops compute the closed form that the model of the parallel call cuts
\* its data with.
THEOREM LoopsComputeMapChunks == Spec => []ComputesMapChunks
  <1>1. IInv => ComputesMapChunks
    BY DEF IInv
  <1>. QED
    BY InitInvariant, StepInvariant, <1>1, PTL DEF Spec

\* ++chunks[r + delta_r] never writes past the end of the vector.
THEOREM LoopStaysInVector == Spec => IndexInVector
  <1>1. IInv /\ [Next]_vars => [r' # r => r + delta_r \in DOMAIN chunks]_vars
    <2>. SUFFICES ASSUME IInv, Next, r' # r
                  PROVE  r + delta_r \in DOMAIN chunks
      OBVIOUS
    <2>1. DealOne
      BY DEF Next, Scale
    <2>. QED
      BY <2>1, RoomForRemainder DEF IInv, DealOne, TypeOK
  <1>. QED
    BY InitInvariant, StepInvariant, <1>1, PTL DEF Spec, IndexInVector

\* A share of one job more is one chunk_size more.
LEMMA OneMoreChunk ==
  ASSUME NEW q \in Nat, NEW size \in Nat
  PROVE  /\ (q + 0) * size = q * size
         /\ (q + 1) * size = q * size + size
         /\ q * size \in Nat
         /\ q > 0 /\ size > 0 => q * size > 0
  OBVIOUS

\* The root has work when there is any, and no process has more than one job
\* more than another.
THEOREM RootHasWork == Spec => []RootHasLeastButSome
  <1>1. IInv => RootHasLeastButSome
    <2>. SUFFICES ASSUME IInv, at = "done" PROVE RootHasLeastButSome
      BY DEF RootHasLeastButSome
    <2>. DEFINE q == num_jobs \div world_size
                rem == num_jobs % world_size
                Share(rank) == IF HasExtra(num_jobs, world_size, rank)
                               THEN q * chunk_size + chunk_size
                               ELSE q * chunk_size
    <2>1. /\ num_jobs \in Nat /\ chunk_size \in Nat
          /\ world_size \in Nat \ {0}
      BY DEF IInv, TypeOK
    <2>2. /\ q \in Nat /\ rem \in 0..(world_size - 1)
          /\ num_jobs = world_size * q + rem
      BY <2>1, Division
    <2>3. q * chunk_size \in Nat
      BY <2>1, <2>2, OneMoreChunk
    <2>4. \A rank \in 0..(world_size - 1) : chunks[rank] = Share(rank)
      <3>1. \A rank \in 0..(world_size - 1) :
              chunks[rank] = (q + (IF HasExtra(num_jobs, world_size, rank)
                                   THEN 1 ELSE 0)) * chunk_size
        BY DEF IInv, ComputesMapChunks, MapChunks
      <3>2. /\ (q + 0) * chunk_size = q * chunk_size
            /\ (q + 1) * chunk_size = q * chunk_size + chunk_size
        BY <2>1, <2>2, OneMoreChunk
      <3>. QED
        BY <3>1, <3>2
    <2>5. ASSUME num_jobs > 0, chunk_size > 0 PROVE chunks[0] > 0
      <3>1. CASE q = 0
        <4>1. HasExtra(num_jobs, world_size, 0)
          BY <2>2, <2>5, <2>1, <3>1 DEF HasExtra, FirstWithExtra
        <4>. QED
          BY <2>1, <2>3, <2>4, <2>5, <4>1
      <3>2. CASE q # 0
        <4>1. q * chunk_size > 0
          BY <2>1, <2>2, <2>5, <3>2, OneMoreChunk
        <4>. QED
          BY <2>1, <2>3, <2>4, <4>1
      <3>. QED
        BY <3>1, <3>2
    <2>6. ASSUME num_jobs >= world_size, NEW rank \in 0..(world_size - 1)
          PROVE  chunks[0] <= chunks[rank]
      <3>1. q # 0
        BY <2>1, <2>2, <2>6
      <3>2. ~HasExtra(num_jobs, world_size, 0)
        BY <2>1, <3>1 DEF HasExtra, FirstWithExtra
      <3>. QED
        BY <2>1, <2>3, <2>4, <3>2
    <2>7. ASSUME NEW a \in 0..(world_size - 1), NEW b \in 0..(world_size - 1)
          PROVE  chunks[a] - chunks[b] <= chunk_size
      BY <2>1, <2>3, <2>4
    <2>. QED
      BY <2>5, <2>6, <2>7 DEF RootHasLeastButSome
  <1>. QED
    BY InitInvariant, StepInvariant, <1>1, PTL DEF Spec
=============================================================================
