------------------------- MODULE StackAlloc_proofs -------------------------
(***************************************************************************)
(* Proofs about the stack allocator, for every initial size, every set of  *)
(* request sizes and every bound.                                          *)
(***************************************************************************)
EXTENDS StackAllocReplay, InductionLemmas, SequenceTheorems, TLAPS

(* r lies before the position p: in an earlier block, or in the same block   *)
(* and not beyond the offset.                                                *)
Below(r, p) ==
  \/ r.blk < p.blk
  \/ r.blk = p.blk /\ r.off + r.len <= p.off

(* The current position is past every region in use and past no later block; *)
(* each mark is a position like it, past every region handed out before its  *)
(* scope started.                                                            *)
Ordered ==
  /\ next_loc_.blk <= cur_block_
  /\ \A r \in live : Below(r, next_loc_) /\ r.lvl <= Depth
  /\ \A i \in 1 .. Depth :
       /\ nested_cur_blocks_[i] < Len(blocks_)
       /\ nested_next_locs_[i].blk <= nested_cur_blocks_[i]
       /\ \A r \in live : r.lvl < i => Below(r, nested_next_locs_[i])

(* r and s are in different blocks, or one ends before the other starts.     *)
Clear(r, s) ==
  \/ r.blk # s.blk
  \/ r.off + r.len <= s.off
  \/ s.off + s.len <= r.off

(* Regions in use do not meet within a block.  This holds of the offsets     *)
(* after a failed malloc too, but means little then: a region may end beyond *)
(* its block.                                                                *)
Apart == \A r, s \in live : r # s => Clear(r, s)

IInv == TypeOK /\ Ordered /\ Apart
-----------------------------------------------------------------------------
(* The padding of alloc is less than eight bytes and makes every length a    *)
(* multiple of eight.                                                        *)
LEMMA PadRoundsUp ==
  ASSUME NEW len \in Nat
  PROVE  Pad(len) \in 0 .. 7 /\ (len + Pad(len)) % 8 = 0
  BY SMT DEF Pad

(* resize(n) on a vector with at least n entries.                           *)
LEMMA Resize ==
  ASSUME NEW S, NEW s \in Seq(S), NEW n \in 0 .. Len(s)
  PROVE  /\ SubSeq(s, 1, n) \in Seq(S)
         /\ Len(SubSeq(s, 1, n)) = n
         /\ \A i \in 1 .. n : SubSeq(s, 1, n)[i] = s[i]
  <1>1. \A i \in 1 .. n : s[i] \in S
    BY ElementOfSeq
  <1> QED
    BY <1>1

(* push_back.                                                                *)
LEMMA PushBack ==
  ASSUME NEW S, NEW s \in Seq(S), NEW x \in S
  PROVE  /\ Append(s, x) \in Seq(S) /\ Append(s, x) # <<>>
         /\ Len(Append(s, x)) = Len(s) + 1
         /\ \A i \in 1 .. Len(s) : Append(s, x)[i] = s[i]
         /\ Append(s, x)[Len(s) + 1] = x
  BY AppendProperties

(* pop_back and back on a vector that is not empty.                          *)
LEMMA PopBack ==
  ASSUME NEW S, NEW s \in Seq(S), s # <<>>
  PROVE  /\ FrontOf(s) \in Seq(S)
         /\ Len(FrontOf(s)) = Len(s) - 1
         /\ \A i \in 1 .. Len(s) - 1 : FrontOf(s)[i] = s[i]
         /\ LastOf(s) \in S
         /\ LastOf(s) = s[Len(s)]
  <1>1. Len(s) \in Nat \ {0}
    BY EmptySeq
  <1>2. Len(s) - 1 \in 0 .. Len(s)
    BY <1>1
  <1>3. LastOf(s) \in S
    BY <1>1, ElementOfSeq DEF LastOf
  <1> QED
    BY <1>2, <1>3, Resize, Zenon DEF FrontOf, LastOf

(* resize(1) on a vector that is not empty.                                  *)
LEMMA ResizeToOne ==
  ASSUME NEW S, NEW s \in Seq(S), s # <<>>
  PROVE  /\ SubSeq(s, 1, 1) \in Seq(S) /\ SubSeq(s, 1, 1) # <<>>
         /\ Len(SubSeq(s, 1, 1)) = 1
         /\ SubSeq(s, 1, 1)[1] = s[1]
         /\ s[1] \in S
  <1>1. Len(s) \in Nat \ {0} /\ s[1] \in S
    BY EmptySeq, ElementOfSeq
  <1>2. 1 \in 0 .. Len(s) /\ 1 \in 1 .. 1
    BY <1>1
  <1>3. /\ SubSeq(s, 1, 1) \in Seq(S) /\ Len(SubSeq(s, 1, 1)) = 1
        /\ SubSeq(s, 1, 1)[1] = s[1]
    BY <1>2, Resize, Zenon
  <1>4. SubSeq(s, 1, 1) # <<>>
    <2> SUFFICES ASSUME SubSeq(s, 1, 1) = <<>> PROVE Len(<<>>) = 1
      BY EmptySeq
    <2> QED
      BY <1>3
  <1> QED
    BY <1>1, <1>3, <1>4

LEMMA InitIInv == Init => IInv
  <1> SUFFICES ASSUME Init PROVE IInv
    OBVIOUS
  <1> USE StackAllocAssumption DEF Init
  <1>1. TypeOK
    BY DEF TypeOK, Pointer, Depth
  <1>2. Ordered /\ Apart
    BY DEF Ordered, Apart, Depth
  <1> QED
    BY <1>1, <1>2 DEF IInv

(* Memory handed out at the current position or in a later block, with the   *)
(* position moved past it, keeps the order and the disjointness.             *)
LEMMA HandOutKeepsOrder ==
  ASSUME IInv, NEW p \in Pointer, NEW len \in Lens,
         p = next_loc_ \/ p.blk > cur_block_,
         HandOut(p, len),
         next_loc_' \in Pointer, next_loc_'.blk = p.blk,
         next_loc_'.off >= p.off + len,
         cur_block_' \in Nat, p.blk <= cur_block_',
         UNCHANGED marks,
         Len(blocks_') \in Nat, Len(blocks_') >= Len(blocks_)
  PROVE  live' \subseteq Region /\ Ordered' /\ Apart'
  <1> DEFINE new == [blk |-> p.blk, off |-> p.off, len |-> len, lvl |-> Depth]
  <1> USE StackAllocAssumption
  <1>1. Depth \in Nat /\ Depth' = Depth
    BY LenProperties DEF IInv, TypeOK, Depth, marks
  <1>2. new \in Region /\ live' = live \cup {new} /\ live \subseteq Region
    BY <1>1 DEF HandOut, Region, Pointer, IInv, TypeOK
  <1>3. next_loc_ \in Pointer /\ cur_block_ \in Nat /\ Len(blocks_) \in Nat
    BY LenProperties DEF IInv, TypeOK
  <1>4. \A r \in live : Below(r, p)
    <2>1. \A r \in live : Below(r, next_loc_)
      BY DEF IInv, Ordered
    <2>2. next_loc_.blk <= cur_block_ /\ next_loc_.blk \in Nat /\ p.blk \in Nat
      BY <1>3 DEF IInv, Ordered, Pointer
    <2>3. ASSUME NEW r \in live
          PROVE  Below(r, p)
      <3>1. r.blk \in Nat /\ Below(r, next_loc_)
        BY <1>2, <2>1 DEF Region
      <3> QED
        BY <1>3, <2>2, <3>1 DEF Below
    <2> QED
      BY <2>3
  <1>5. Apart'
    <2>1. \A r \in live : Clear(r, new) /\ Clear(new, r)
      BY <1>2, <1>4 DEF Below, Clear, Region, Pointer
    <2> QED
      BY <1>2, <2>1 DEF Apart, IInv, Clear
  <1>6. \A r \in live' : Below(r, next_loc_') /\ r.lvl <= Depth'
    <2>1. Below(new, next_loc_') /\ new.lvl <= Depth
      BY <1>1 DEF Below, Pointer
    <2>2. ASSUME NEW r \in live
          PROVE  Below(r, next_loc_') /\ r.lvl <= Depth
      <3>1. Below(r, p) /\ r \in Region /\ len \in Nat
        BY <1>2, <1>4
      <3>2. r.lvl <= Depth
        BY DEF IInv, Ordered
      <3>3. /\ r.off \in Nat /\ r.len \in Nat /\ r.blk \in Nat
            /\ p.off \in Nat /\ p.blk \in Nat /\ next_loc_'.off \in Nat
        BY <3>1 DEF Pointer, Region
      <3>4. Below(r, next_loc_')
        BY <3>1, <3>3 DEF Below
      <3> QED
        BY <3>2, <3>4
    <2> QED
      BY <1>1, <1>2, <2>1, <2>2
  <1>7. \A i \in 1 .. Depth' :
          /\ nested_cur_blocks_'[i] < Len(blocks_')
          /\ nested_next_locs_'[i].blk <= nested_cur_blocks_'[i]
          /\ \A r \in live' : r.lvl < i => Below(r, nested_next_locs_'[i])
    <2> SUFFICES ASSUME NEW i \in 1 .. Depth
                 PROVE  /\ nested_cur_blocks_[i] < Len(blocks_')
                        /\ nested_next_locs_[i].blk <= nested_cur_blocks_[i]
                        /\ \A r \in live' : r.lvl < i =>
                             Below(r, nested_next_locs_[i])
      BY <1>1 DEF marks
    <2>1. nested_cur_blocks_[i] \in Nat
      BY ElementOfSeq DEF IInv, TypeOK, Depth
    <2>2. ~(new.lvl < i)
      BY <1>1
    <2> QED
      BY <1>2, <1>3, <2>1, <2>2 DEF IInv, Ordered
  <1> QED
    BY <1>2, <1>5, <1>6, <1>7 DEF Ordered, Pointer

(* What the position is after malloc failed: moved within its block.         *)
LEMMA BumpedIsPast ==
  ASSUME IInv, NEW len \in Lens
  PROVE  /\ Bumped(len) \in Pointer
         /\ Bumped(len).blk = next_loc_.blk
         /\ Bumped(len).off >= next_loc_.off + len
  <1>1. len \in Nat /\ Pad(len) \in 0 .. 7 /\ next_loc_ \in Pointer
    BY StackAllocAssumption, PadRoundsUp DEF IInv, TypeOK
  <1> QED
    BY <1>1 DEF Bumped, Pointer

LEMMA NewSizeFits ==
  ASSUME TypeOK, NEW len \in Lens
  PROVE  NewSize(len) \in Nat /\ NewSize(len) >= len
  <1>1. len \in Nat /\ LastOf(sizes_) \in Nat
    BY StackAllocAssumption, PopBack DEF TypeOK
  <1> QED
    BY <1>1 DEF NewSize

(* recover_all, whatever became of the blocks behind the first one.          *)
LEMMA RewindKeepsIInv ==
  ASSUME IInv, Depth = 0, RewindToFirstBlock, UNCHANGED <<marks, failures>>,
         blocks_' \in Seq(BOOLEAN), blocks_' # <<>>,
         sizes_' \in Seq(Nat), sizes_' # <<>>
  PROVE  IInv'
  <1>1. Len(blocks_') \in Nat \ {0}
    BY EmptySeq
  <1>2. /\ next_loc_' \in Pointer /\ next_loc_'.blk = 0
        /\ cur_block_end_' \in Pointer
        /\ cur_block_' = 0 /\ live' = {}
    <2>1. sizes_[1] \in Nat
      BY ResizeToOne DEF IInv, TypeOK
    <2> QED
      BY <2>1 DEF RewindToFirstBlock, Pointer
  <1>3. Depth' = 0
    BY DEF marks, Depth
  <1>4. TypeOK'
    BY <1>1, <1>2 DEF IInv, TypeOK, marks, Depth
  <1>5. Ordered' /\ Apart'
    BY <1>2, <1>3 DEF Ordered, Apart
  <1> QED
    BY <1>4, <1>5 DEF IInv

LEMMA NextIInv == IInv /\ [Next]_vars => IInv'
  <1> SUFFICES ASSUME IInv, [Next]_vars PROVE IInv'
    OBVIOUS
  <1> USE StackAllocAssumption
  <1> TypeOK
    BY DEF IInv
  <1>0. Depth \in Nat /\ Len(blocks_) \in Nat \ {0} /\ Len(sizes_) \in Nat \ {0}
    BY LenProperties, EmptySeq DEF TypeOK, Depth
  <1>1. ASSUME NEW len \in Lens, AllocInBlock(len)
        PROVE  IInv'
    <2>1. /\ HandOut(next_loc_, len) /\ next_loc_' = Bumped(len)
          /\ UNCHANGED <<blocks_, sizes_, cur_block_, cur_block_end_, marks,
                         failures>>
      BY <1>1 DEF AllocInBlock, storage
    <2>2. next_loc_ \in Pointer /\ cur_block_ \in Nat
          /\ next_loc_.blk <= cur_block_
      BY <1>0 DEF TypeOK, IInv, Ordered
    <2>3. live' \subseteq Region /\ Ordered' /\ Apart'
      BY <1>0, <2>1, <2>2, BumpedIsPast, HandOutKeepsOrder
    <2>4. TypeOK'
      BY <2>1, <2>3, BumpedIsPast DEF TypeOK, marks, Depth
    <2> QED
      BY <2>3, <2>4 DEF IInv
  <1>2. ASSUME NEW len \in Lens, AllocReusesBlock(len)
        PROVE  IInv'
    <2>1. PICK junk \in JunkSizes, b \in 0 .. Len(blocks_) - 1 :
            /\ b > cur_block_
            /\ SizeAt(b, junk) >= len
            /\ EnterBlock(b, SizeAt(b, junk), len)
      BY <1>0, <1>2 DEF AllocReusesBlock, SearchStopsAt
    <2>2. UNCHANGED <<blocks_, sizes_, marks, failures>>
      BY <1>2 DEF AllocReusesBlock, storage
    <2>3. SizeAt(b, junk) \in Nat
      BY <1>0, ElementOfSeq DEF SizeAt, TypeOK
    <2> DEFINE p == [blk |-> b, off |-> 0]
    <2>4. /\ p \in Pointer /\ HandOut(p, len)
          /\ cur_block_' = b /\ next_loc_' = [blk |-> b, off |-> len]
          /\ cur_block_end_' = [blk |-> b, off |-> SizeAt(b, junk)]
      BY <2>1 DEF EnterBlock, Pointer
    <2>5. next_loc_' \in Pointer /\ cur_block_end_' \in Pointer
      BY <2>3, <2>4 DEF Pointer
    <2>6. live' \subseteq Region /\ Ordered' /\ Apart'
      <3>1. /\ p.blk > cur_block_ /\ next_loc_'.blk = p.blk
            /\ next_loc_'.off >= p.off + len
            /\ cur_block_' \in Nat /\ p.blk <= cur_block_'
            /\ Len(blocks_') \in Nat /\ Len(blocks_') >= Len(blocks_)
        BY <1>0, <2>1, <2>2, <2>4
      <3> HIDE DEF p
      <3> QED
        BY <2>2, <2>4, <2>5, <3>1, HandOutKeepsOrder
    <2>7. TypeOK'
      BY <2>2, <2>4, <2>5, <2>6 DEF TypeOK, marks, Depth
    <2> QED
      BY <2>6, <2>7 DEF IInv
  <1>3. ASSUME NEW len \in Lens, AllocNewBlock(len)
        PROVE  IInv'
    <2>1. PICK junk \in JunkSizes :
            /\ Len(blocks_) > cur_block_
            /\ EnterBlock(Len(blocks_),
                          IF Len(blocks_) < Len(sizes_')
                          THEN sizes_'[Len(blocks_) + 1] ELSE junk, len)
      BY <1>0, <1>3 DEF AllocNewBlock, SearchStopsAt
    <2>2. /\ blocks_' = Append(blocks_, TRUE)
          /\ sizes_' = Append(sizes_, NewSize(len))
          /\ UNCHANGED <<marks, failures>>
      BY <1>3 DEF AllocNewBlock
    <2>3. /\ blocks_' \in Seq(BOOLEAN) /\ blocks_' # <<>>
          /\ Len(blocks_') = Len(blocks_) + 1
          /\ sizes_' \in Seq(Nat) /\ sizes_' # <<>>
          /\ Len(sizes_') = Len(sizes_) + 1
      <3>1. blocks_ \in Seq(BOOLEAN) /\ TRUE \in BOOLEAN /\ sizes_ \in Seq(Nat)
        BY DEF TypeOK
      <3>2. NewSize(len) \in Nat
        BY NewSizeFits
      <3>3. /\ blocks_' \in Seq(BOOLEAN) /\ blocks_' # <<>>
            /\ Len(blocks_') = Len(blocks_) + 1
        BY <2>2, <3>1, PushBack, Zenon
      <3>4. /\ sizes_' \in Seq(Nat) /\ sizes_' # <<>>
            /\ Len(sizes_') = Len(sizes_) + 1
        <4> DEFINE n == NewSize(len)
        <4>1. sizes_' = Append(sizes_, n) /\ n \in Nat
          BY <2>2, <3>2
        <4> HIDE DEF n
        <4> QED
          BY <3>1, <4>1, AppendProperties
      <3> QED
        BY <3>3, <3>4
    <2> DEFINE p == [blk |-> Len(blocks_), off |-> 0]
    <2> DEFINE size == IF Len(blocks_) < Len(sizes_')
                       THEN sizes_'[Len(blocks_) + 1] ELSE junk
    <2>4. /\ p \in Pointer /\ HandOut(p, len)
          /\ cur_block_' = Len(blocks_)
          /\ next_loc_' = [blk |-> Len(blocks_), off |-> len]
          /\ cur_block_end_' = [blk |-> Len(blocks_), off |-> size]
      BY <1>0, <2>1 DEF EnterBlock, Pointer
    <2>5. next_loc_' \in Pointer /\ cur_block_end_' \in Pointer
      <3>1. size \in Nat
        BY <1>0, <2>3, ElementOfSeq
      <3> QED
        BY <1>0, <2>4, <3>1 DEF Pointer
    <2>6. live' \subseteq Region /\ Ordered' /\ Apart'
      <3>1. /\ p.blk > cur_block_ /\ next_loc_'.blk = p.blk
            /\ next_loc_'.off >= p.off + len
            /\ cur_block_' \in Nat /\ p.blk <= cur_block_'
            /\ Len(blocks_') \in Nat /\ Len(blocks_') >= Len(blocks_)
        BY <1>0, <2>1, <2>3, <2>4
      <3> HIDE DEF p
      <3> QED
        BY <2>2, <2>4, <2>5, <3>1, HandOutKeepsOrder
    <2>7. TypeOK'
      <3>1. cur_block_' \in 0 .. Len(blocks_') - 1
        BY <1>0, <2>3, <2>4
      <3> QED
        BY <2>2, <2>3, <2>5, <2>6, <3>1 DEF TypeOK, marks, Depth
    <2> QED
      BY <2>6, <2>7 DEF IInv
  <1>4. ASSUME NEW len \in Lens, AllocThrows(len)
        PROVE  IInv'
    <2>1. /\ blocks_' = Append(blocks_, FALSE)
          /\ cur_block_' = Len(blocks_)
          /\ next_loc_' = Bumped(len)
          /\ failures' = failures + 1
          /\ UNCHANGED <<sizes_, cur_block_end_, marks, live>>
      BY <1>4 DEF AllocThrows
    <2>2. /\ blocks_' \in Seq(BOOLEAN) /\ blocks_' # <<>>
          /\ Len(blocks_') = Len(blocks_) + 1
      <3>1. blocks_ \in Seq(BOOLEAN) /\ FALSE \in BOOLEAN
        BY DEF TypeOK
      <3> QED
        BY <2>1, <3>1, PushBack, Zenon
    <2>3. cur_block_' \in 0 .. Len(blocks_') - 1
      BY <1>0, <2>1, <2>2
    <2> DEFINE q == Bumped(len)
    <2>q. /\ q \in Pointer /\ q.blk = next_loc_.blk
          /\ q.off >= next_loc_.off + len
      BY BumpedIsPast
    <2> HIDE DEF q
    <2>n. next_loc_' = q
      BY <2>1 DEF q
    <2>4. TypeOK'
      <3>1. failures' \in Nat
        BY <2>1 DEF TypeOK
      <3>2. Depth' = Depth
        BY <2>1 DEF Depth, marks
      <3> QED
        BY <2>1, <2>2, <2>3, <2>q, <2>n, <3>1, <3>2 DEF TypeOK, marks
    <2>5. next_loc_'.blk <= cur_block_'
      <3>1. next_loc_.blk <= cur_block_ /\ next_loc_.blk \in Nat
            /\ cur_block_ \in Nat /\ cur_block_ < Len(blocks_)
        BY <1>0 DEF IInv, Ordered, TypeOK, Pointer
      <3> QED
        BY <1>0, <2>1, <2>q, <2>n, <3>1
    <2>6. \A r \in live' : Below(r, next_loc_') /\ r.lvl <= Depth'
      <3> SUFFICES ASSUME NEW r \in live
                   PROVE  Below(r, q) /\ r.lvl <= Depth
        BY <2>1, <2>n DEF marks, Depth
      <3>1. Below(r, next_loc_) /\ r.lvl <= Depth /\ r \in Region
        BY DEF IInv, Ordered, TypeOK
      <3>2. /\ r.blk \in Nat /\ r.off \in Nat /\ r.len \in Nat /\ len \in Nat
            /\ next_loc_.blk \in Nat /\ next_loc_.off \in Nat /\ q.off \in Nat
        BY <2>q, <3>1 DEF TypeOK, Pointer, Region
      <3> QED
        BY <2>q, <3>1, <3>2 DEF Below
    <2>7. \A i \in 1 .. Depth :
            nested_cur_blocks_[i] \in Nat /\ nested_cur_blocks_[i] < Len(blocks_')
      BY <1>0, <2>2, ElementOfSeq DEF IInv, Ordered, TypeOK, Depth
    <2>8. Ordered'
      BY <2>1, <2>5, <2>6, <2>7 DEF IInv, Ordered, marks, Depth
    <2>9. Apart'
      BY <2>1 DEF IInv, Apart
    <2> QED
      BY <2>4, <2>8, <2>9 DEF IInv
  <1>5. CASE StartNested
    <2>1. /\ nested_cur_blocks_' = Append(nested_cur_blocks_, cur_block_)
          /\ nested_next_locs_' = Append(nested_next_locs_, next_loc_)
          /\ nested_cur_block_ends_' =
               Append(nested_cur_block_ends_, cur_block_end_)
          /\ UNCHANGED <<blocks_, sizes_, cur_block_, cur_block_end_, next_loc_,
                         live, failures>>
      BY <1>5 DEF StartNested, storage, positions
    <2>2. cur_block_ \in Nat /\ cur_block_ < Len(blocks_)
      BY <1>0 DEF TypeOK
    <2>3. /\ nested_cur_blocks_' \in Seq(Nat)
          /\ Depth' = Depth + 1
          /\ \A i \in 1 .. Depth : nested_cur_blocks_'[i] = nested_cur_blocks_[i]
          /\ nested_cur_blocks_'[Depth + 1] = cur_block_
      BY <2>1, <2>2, AppendProperties DEF TypeOK, Depth
    <2>4. /\ nested_next_locs_' \in Seq(Pointer)
          /\ Len(nested_next_locs_') = Depth + 1
          /\ \A i \in 1 .. Depth : nested_next_locs_'[i] = nested_next_locs_[i]
          /\ nested_next_locs_'[Depth + 1] = next_loc_
      <3>1. /\ nested_next_locs_ \in Seq(Pointer)
            /\ Len(nested_next_locs_) = Depth /\ next_loc_ \in Pointer
        BY DEF TypeOK
      <3> QED
        BY <2>1, <3>1, PushBack
    <2>5. /\ nested_cur_block_ends_' \in Seq(Pointer)
          /\ Len(nested_cur_block_ends_') = Depth + 1
      <3>1. /\ nested_cur_block_ends_ \in Seq(Pointer)
            /\ Len(nested_cur_block_ends_) = Depth /\ cur_block_end_ \in Pointer
        BY DEF TypeOK
      <3> QED
        BY <2>1, <3>1, PushBack
    <2>6. TypeOK'
      BY <2>1, <2>3, <2>4, <2>5 DEF TypeOK
    <2>7. \A r \in live : r.lvl \in Nat /\ r.lvl <= Depth
      BY DEF IInv, Ordered, TypeOK, Region
    <2>8. Ordered'
      <3>1. \A r \in live' : Below(r, next_loc_') /\ r.lvl <= Depth'
        BY <1>0, <2>1, <2>3, <2>7 DEF IInv, Ordered
      <3>2. ASSUME NEW i \in 1 .. Depth'
            PROVE  /\ nested_cur_blocks_'[i] < Len(blocks_')
                   /\ nested_next_locs_'[i].blk <= nested_cur_blocks_'[i]
                   /\ \A r \in live' : r.lvl < i =>
                        Below(r, nested_next_locs_'[i])
        <4>1. CASE i \in 1 .. Depth
          BY <2>1, <2>3, <2>4, <4>1 DEF IInv, Ordered
        <4>2. CASE i = Depth + 1
          BY <2>1, <2>2, <2>3, <2>4, <4>2 DEF IInv, Ordered
        <4> QED
          BY <1>0, <2>3, <4>1, <4>2
      <3> QED
        BY <2>1, <3>1, <3>2 DEF IInv, Ordered
    <2>9. Apart'
      BY <2>1 DEF IInv, Apart
    <2> QED
      BY <2>6, <2>8, <2>9 DEF IInv
  <1>6. CASE RecoverNested
    <2>1. /\ Depth > 0
          /\ cur_block_' = LastOf(nested_cur_blocks_)
          /\ nested_cur_blocks_' = FrontOf(nested_cur_blocks_)
          /\ next_loc_' = LastOf(nested_next_locs_)
          /\ nested_next_locs_' = FrontOf(nested_next_locs_)
          /\ cur_block_end_' = LastOf(nested_cur_block_ends_)
          /\ nested_cur_block_ends_' = FrontOf(nested_cur_block_ends_)
          /\ live' = {r \in live : r.lvl < Depth}
          /\ UNCHANGED <<blocks_, sizes_, failures>>
      BY <1>6 DEF RecoverNested, storage
    <2>2. /\ nested_cur_blocks_ # <<>> /\ nested_next_locs_ # <<>>
          /\ nested_cur_block_ends_ # <<>>
      BY <2>1, EmptySeq DEF TypeOK, Depth
    <2>3. /\ nested_cur_blocks_' \in Seq(Nat) /\ Depth' = Depth - 1
          /\ \A i \in 1 .. Depth - 1 :
               nested_cur_blocks_'[i] = nested_cur_blocks_[i]
          /\ cur_block_' \in Nat /\ cur_block_' = nested_cur_blocks_[Depth]
      BY <2>1, <2>2, PopBack DEF TypeOK, Depth
    <2>4. /\ nested_next_locs_' \in Seq(Pointer)
          /\ Len(nested_next_locs_') = Depth - 1
          /\ \A i \in 1 .. Depth - 1 :
               nested_next_locs_'[i] = nested_next_locs_[i]
          /\ next_loc_' \in Pointer /\ next_loc_' = nested_next_locs_[Depth]
      BY <2>1, <2>2, PopBack DEF TypeOK
    <2>5. /\ nested_cur_block_ends_' \in Seq(Pointer)
          /\ Len(nested_cur_block_ends_') = Depth - 1
          /\ cur_block_end_' \in Pointer
      BY <2>1, <2>2, PopBack DEF TypeOK
    <2>6. Depth \in 1 .. Depth
      BY <1>0, <2>1
    <2>7. TypeOK'
      <3>1. cur_block_' \in 0 .. Len(blocks_') - 1
        BY <1>0, <2>1, <2>3, <2>6 DEF IInv, Ordered
      <3> QED
        BY <2>1, <2>3, <2>4, <2>5, <3>1 DEF TypeOK
    <2>8. Ordered'
      <3>1. next_loc_'.blk <= cur_block_'
        BY <2>3, <2>4, <2>6 DEF IInv, Ordered
      <3>2. \A r \in live' : Below(r, next_loc_') /\ r.lvl <= Depth'
        <4> SUFFICES ASSUME NEW r \in live, r.lvl < Depth
                     PROVE  Below(r, next_loc_') /\ r.lvl <= Depth - 1
          BY <2>1, <2>3
        <4>1. r.lvl \in Nat
          BY DEF TypeOK, Region
        <4> QED
          BY <1>0, <2>4, <2>6, <4>1 DEF IInv, Ordered
      <3>3. \A i \in 1 .. Depth' :
              /\ nested_cur_blocks_'[i] < Len(blocks_')
              /\ nested_next_locs_'[i].blk <= nested_cur_blocks_'[i]
              /\ \A r \in live' : r.lvl < i => Below(r, nested_next_locs_'[i])
        <4> SUFFICES ASSUME NEW i \in 1 .. Depth - 1
                     PROVE  /\ nested_cur_blocks_[i] < Len(blocks_)
                            /\ nested_next_locs_[i].blk <= nested_cur_blocks_[i]
                            /\ \A r \in live : r.lvl < i =>
                                 Below(r, nested_next_locs_[i])
          BY <2>1, <2>3, <2>4
        <4>1. i \in 1 .. Depth
          BY <1>0
        <4> QED
          BY <4>1 DEF IInv, Ordered
      <3> QED
        BY <3>1, <3>2, <3>3 DEF Ordered
    <2>9. Apart'
      BY <2>1 DEF IInv, Apart
    <2> QED
      BY <2>7, <2>8, <2>9 DEF IInv
  <1>7. CASE RecoverAll
    <2>1. /\ Depth = 0 /\ RewindToFirstBlock
          /\ UNCHANGED <<blocks_, sizes_, marks, failures>>
      BY <1>7 DEF RecoverAll, storage
    <2> QED
      BY <1>0, <2>1, RewindKeepsIInv DEF TypeOK
  <1>8. CASE FreeAll
    <2>1. /\ Depth = 0 /\ RewindToFirstBlock
          /\ sizes_' = SubSeq(sizes_, 1, 1) /\ blocks_' = SubSeq(blocks_, 1, 1)
          /\ UNCHANGED <<marks, failures>>
      BY <1>8 DEF FreeAll
    <2>2. /\ blocks_' \in Seq(BOOLEAN) /\ blocks_' # <<>>
          /\ sizes_' \in Seq(Nat) /\ sizes_' # <<>>
      BY <2>1, ResizeToOne, Zenon DEF TypeOK
    <2> QED
      BY <2>1, <2>2, RewindKeepsIInv
  <1>9. CASE UNCHANGED vars
    BY <1>9 DEF IInv, TypeOK, Ordered, Apart, Depth, vars, storage,
                positions, marks
  <1> QED
    BY <1>1, <1>2, <1>3, <1>4, <1>5, <1>6, <1>7, <1>8, <1>9 DEF Next, Alloc

(* The types hold.                                                           *)
THEOREM TypeCorrect == Spec => []TypeOK
  <1>1. IInv => TypeOK
    BY DEF IInv
  <1> QED
    BY <1>1, InitIInv, NextIInv, PTL DEF Spec
-----------------------------------------------------------------------------
(* A position that is no multiple of eight is so because of the region at    *)
(* the start of its block, in L and of a scope no deeper than lvl.           *)
Explained(L, blk, off, lvl) ==
  \/ off % 8 = 0
  \/ \E s \in L : /\ s.blk = blk /\ s.off = 0
                   /\ s.len % 8 = off % 8 /\ s.lvl <= lvl

(* The current position, the marks and all regions in use are explained.     *)
Aligned ==
  /\ Explained(live, next_loc_.blk, next_loc_.off, Depth)
  /\ \A i \in 1 .. Depth :
       Explained(live, nested_next_locs_[i].blk, nested_next_locs_[i].off, i - 1)
  /\ \A r \in live : Explained(live, r.blk, r.off, r.lvl)

AInv == IInv /\ Aligned

LEMMA InitAInv == Init => AInv
  <1>1. Init => Aligned
    BY DEF Init, Aligned, Explained, Depth
  <1> QED
    BY <1>1, InitIInv DEF AInv

(* Explanations stay as long as no region is recovered.                      *)
LEMMA ExplainedStays ==
  ASSUME NEW L, NEW M, L \subseteq M
  PROVE  \A blk, off, lvl : Explained(L, blk, off, lvl) => Explained(M, blk, off, lvl)
  BY DEF Explained

(* Adding a multiple of eight changes nothing modulo eight.                  *)
LEMMA AddingMultipleOfEight ==
  ASSUME NEW a \in Nat, NEW b \in Nat, b % 8 = 0
  PROVE  (a + b) % 8 = a % 8
  OBVIOUS

(* alloc moves the position by a multiple of eight within a block.           *)
LEMMA BumpedStaysExplained ==
  ASSUME TypeOK, NEW len \in Lens,
         Explained(live, next_loc_.blk, next_loc_.off, Depth)
  PROVE  Explained(live, Bumped(len).blk, Bumped(len).off, Depth)
  <1>1. PICK o \in Nat, n \in Nat, d \in 0 .. 7 :
          o = next_loc_.off /\ n = len /\ d = Pad(len)
    BY PadRoundsUp, StackAllocAssumption DEF TypeOK, Pointer
  <1>2. (n + d) % 8 = 0
    BY <1>1, PadRoundsUp
  <1>3. Bumped(len).blk = next_loc_.blk /\ Bumped(len).off = o + n + d
    BY <1>1 DEF Bumped, TypeOK, Pointer
  <1>4. o + n + d = o + (n + d) /\ n + d \in Nat
    BY <1>1
  <1>5. (o + (n + d)) % 8 = o % 8
    BY <1>1, <1>2, <1>4, AddingMultipleOfEight
  <1> QED
    BY <1>1, <1>3, <1>4, <1>5 DEF Explained

(* Memory handed out where the position is explained.                        *)
LEMMA HandOutStaysAligned ==
  ASSUME AInv, NEW p \in Pointer, NEW len \in Lens, HandOut(p, len),
         UNCHANGED marks,
         Explained(live, p.blk, p.off, Depth),
         Explained(live', next_loc_'.blk, next_loc_'.off, Depth')
  PROVE  Aligned'
  <1>1. Depth' = Depth /\ Depth \in Nat
    BY LenProperties DEF Depth, marks, AInv, IInv, TypeOK
  <1>2. PICK new : new = [blk |-> p.blk, off |-> p.off, len |-> len, lvl |-> Depth]
    OBVIOUS
  <1>3. live' = live \cup {new}
        /\ new.blk = p.blk /\ new.off = p.off /\ new.lvl = Depth
    BY <1>2 DEF HandOut
  <1>4. \A blk, off, lvl : Explained(live, blk, off, lvl) => Explained(live', blk, off, lvl)
    BY <1>3, ExplainedStays
  <1>5. \A r \in live' : Explained(live', r.blk, r.off, r.lvl)
    BY <1>3, <1>4 DEF AInv, Aligned
  <1>6. \A i \in 1 .. Depth' :
          Explained(live', nested_next_locs_'[i].blk, nested_next_locs_'[i].off, i - 1)
    BY <1>1, <1>4 DEF AInv, Aligned, marks
  <1> QED
    BY <1>1, <1>5, <1>6 DEF Aligned

LEMMA NextAInv == AInv /\ [Next]_vars => AInv'
  <1> SUFFICES ASSUME AInv, [Next]_vars PROVE Aligned'
    BY NextIInv DEF AInv
  <1> USE StackAllocAssumption
  <1>0. /\ IInv /\ TypeOK /\ next_loc_ \in Pointer /\ Depth \in Nat
        /\ Explained(live, next_loc_.blk, next_loc_.off, Depth)
    BY LenProperties DEF AInv, IInv, TypeOK, Aligned, Depth
  <1>1. ASSUME NEW len \in Lens, AllocInBlock(len)
        PROVE  Aligned'
    <2>1. /\ HandOut(next_loc_, len) /\ UNCHANGED marks /\ next_loc_' = Bumped(len)
          /\ Depth' = Depth /\ live \subseteq live'
      BY <1>1 DEF AllocInBlock, HandOut, marks, Depth
    <2>2. Explained(live, Bumped(len).blk, Bumped(len).off, Depth)
      BY <1>0, BumpedStaysExplained
    <2>3. Explained(live', next_loc_'.blk, next_loc_'.off, Depth')
      BY <2>1, <2>2, ExplainedStays
    <2> QED
      BY <1>0, <2>1, <2>3, HandOutStaysAligned
  <1>2. ASSUME NEW len \in Lens, NEW b \in Nat, NEW size, EnterBlock(b, size, len),
               UNCHANGED marks
        PROVE  Aligned'
    <2>1. PICK p \in Pointer : p = [blk |-> b, off |-> 0]
      BY DEF Pointer
    <2>2. HandOut(p, len) /\ Explained(live, p.blk, p.off, Depth) /\ p.blk = b /\ p.off = 0
      BY <1>2, <2>1 DEF EnterBlock, Explained
    <2>3. \E s \in live' : s.blk = b /\ s.off = 0 /\ s.len = len /\ s.lvl = Depth
      <3>1. PICK s : s = [blk |-> p.blk, off |-> p.off, len |-> len, lvl |-> Depth]
        OBVIOUS
      <3>2. s \in live' /\ s.blk = b /\ s.off = 0 /\ s.len = len /\ s.lvl = Depth
        BY <2>2, <3>1 DEF HandOut
      <3> QED
        BY <3>2
    <2>4. Explained(live', next_loc_'.blk, next_loc_'.off, Depth')
      <3>1. next_loc_'.blk = b /\ next_loc_'.off = len /\ Depth' = Depth
        BY <1>2 DEF EnterBlock, marks, Depth
      <3> QED
        BY <1>0, <2>3, <3>1 DEF Explained
    <2> QED
      BY <1>2, <2>2, <2>4, HandOutStaysAligned
  <1>3. ASSUME NEW len \in Lens, AllocReusesBlock(len)
        PROVE  Aligned'
    <2>1. Len(blocks_) \in Nat
      BY <1>0, LenProperties DEF TypeOK
    <2>2. PICK junk \in JunkSizes, b \in Nat : EnterBlock(b, SizeAt(b, junk), len)
      BY <1>3, <2>1 DEF AllocReusesBlock
    <2> QED
      BY <1>2, <1>3, <2>2 DEF AllocReusesBlock
  <1>4. ASSUME NEW len \in Lens, AllocNewBlock(len)
        PROVE  Aligned'
    <2>1. Len(blocks_) \in Nat
      BY <1>0, LenProperties DEF TypeOK
    <2>2. PICK size : EnterBlock(Len(blocks_), size, len)
      BY <1>4 DEF AllocNewBlock
    <2> QED
      BY <1>2, <1>4, <2>1, <2>2 DEF AllocNewBlock
  <1>5. ASSUME NEW len \in Lens, AllocThrows(len)
        PROVE  Aligned'
    <2>1. /\ next_loc_' = Bumped(len) /\ live' = live /\ UNCHANGED marks
          /\ Depth' = Depth
      BY <1>5 DEF AllocThrows, marks, Depth
    <2>2. Explained(live, Bumped(len).blk, Bumped(len).off, Depth)
      BY <1>0, BumpedStaysExplained
    <2> QED
      BY <2>1, <2>2 DEF AInv, Aligned, Explained, marks
  <1>6. CASE StartNested
    <2>1. /\ nested_next_locs_' = Append(nested_next_locs_, next_loc_)
          /\ nested_next_locs_ \in Seq(Pointer) /\ Len(nested_next_locs_) = Depth
          /\ UNCHANGED <<next_loc_, live>> /\ Depth' = Depth + 1
      BY <1>0, <1>6, AppendProperties DEF StartNested, TypeOK, positions, Depth
    <2>2. /\ \A i \in 1 .. Depth : nested_next_locs_'[i] = nested_next_locs_[i]
          /\ nested_next_locs_'[Depth + 1] = next_loc_
      BY <1>0, <2>1, AppendProperties
    <2>3. \A i \in 1 .. Depth + 1 : i \in 1 .. Depth \/ i = Depth + 1
      BY <1>0
    <2>4. \A blk, off, lvl : Explained(live, blk, off, lvl) => Explained(live', blk, off, lvl)
      BY <2>1, ExplainedStays
    <2>5. Explained(live, next_loc_.blk, next_loc_.off, Depth + 1)
      <3>1. \A s \in live : s.lvl \in Nat
        BY <1>0 DEF TypeOK, Region
      <3> QED
        BY <1>0, <3>1 DEF Explained
    <2>6. \A i \in 1 .. Depth + 1 :
            Explained(live, nested_next_locs_'[i].blk, nested_next_locs_'[i].off, i - 1)
      BY <1>0, <2>2, <2>3 DEF AInv, Aligned
    <2> QED
      BY <2>1, <2>4, <2>5, <2>6 DEF AInv, Aligned
  <1>7. CASE RecoverNested
    <2>1. /\ next_loc_' = nested_next_locs_[Depth] /\ Depth > 0
          /\ live' = {r \in live : r.lvl < Depth}
          /\ Depth' = Depth - 1
          /\ \A i \in 1 .. Depth - 1 : nested_next_locs_'[i] = nested_next_locs_[i]
      <3>1. Len(nested_next_locs_) = Depth /\ nested_next_locs_ # <<>>
            /\ nested_next_locs_ \in Seq(Pointer) /\ nested_cur_blocks_ \in Seq(Nat)
        BY <1>0, <1>7, EmptySeq DEF TypeOK, RecoverNested
      <3> QED
        BY <1>0, <1>7, <3>1, PopBack DEF RecoverNested, LastOf, FrontOf, Depth
    <2>2. ASSUME NEW blk, NEW off, NEW lvl \in Int, lvl < Depth,
                 Explained(live, blk, off, lvl)
          PROVE  Explained(live', blk, off, lvl)
      <3>1. \A s \in live : s.lvl \in Nat
        BY <1>0 DEF TypeOK, Region
      <3> QED
        BY <1>0, <2>1, <2>2, <3>1 DEF Explained
    <2>3. Explained(live', next_loc_'.blk, next_loc_'.off, Depth - 1)
      BY <1>0, <2>1, <2>2 DEF AInv, Aligned
    <2>4. \A i \in 1 .. Depth - 1 :
            Explained(live', nested_next_locs_'[i].blk, nested_next_locs_'[i].off, i - 1)
      BY <1>0, <2>1, <2>2 DEF AInv, Aligned
    <2>5. \A r \in live' : Explained(live', r.blk, r.off, r.lvl)
      BY <1>0, <2>1, <2>2 DEF AInv, Aligned, TypeOK, Region
    <2> QED
      BY <2>1, <2>3, <2>4, <2>5 DEF Aligned
  <1>8. ASSUME Depth = 0, RewindToFirstBlock, UNCHANGED marks
        PROVE  Aligned'
    BY <1>8 DEF RewindToFirstBlock, Aligned, Explained, marks, Depth
  <1>9. CASE UNCHANGED vars
    BY <1>9 DEF AInv, Aligned, Explained, vars, positions, marks, Depth
  <1> QED
    BY <1>1, <1>3, <1>4, <1>5, <1>6, <1>7, <1>8, <1>9
       DEF Next, Alloc, RecoverAll, FreeAll

(* A region is misaligned only if the one at the start of its block has a    *)
(* length that is no multiple of eight, and by the same amount: also after   *)
(* any nesting, recovery and failed malloc.                                  *)
THEOREM MisalignedByBlockStart == Spec => []OnlyBlockStartMisaligns
  <1>1. AInv => OnlyBlockStartMisaligns
    BY DEF AInv, Aligned, Explained, OnlyBlockStartMisaligns
  <1> QED
    BY <1>1, InitAInv, NextAInv, PTL DEF Spec
-----------------------------------------------------------------------------
(***************************************************************************)
(* As long as malloc has not failed, memory in use lies inside the blocks  *)
(* the heap gave.                                                          *)
(***************************************************************************)
(* A position: block b, next byte p, end of the block e.                     *)
GoodPosition(b, p, e) ==
  /\ b \in 0 .. Len(blocks_) - 1
  /\ p.blk = b
  /\ e = [blk |-> b, off |-> sizes_[b + 1]]
  /\ p.off <= e.off

EndsInBlock(r) ==
  /\ r.blk < Len(blocks_)
  /\ r.off + r.len <= sizes_[r.blk + 1]

(* Without a failed malloc the two vectors of blocks agree, and the current  *)
(* position and every mark know the true end of their block.                 *)
Sound ==
  /\ Len(sizes_) = Len(blocks_)
  /\ \A i \in 1 .. Len(blocks_) : blocks_[i] = TRUE
  /\ GoodPosition(cur_block_, next_loc_, cur_block_end_)
  /\ \A i \in 1 .. Depth :
       GoodPosition(nested_cur_blocks_[i], nested_next_locs_[i],
                    nested_cur_block_ends_[i])
  /\ \A r \in live : EndsInBlock(r)

BInv == IInv /\ (failures = 0 => Sound)
-----------------------------------------------------------------------------
LEMMA InitBInv == Init => BInv
  <1> SUFFICES ASSUME Init PROVE Sound
    BY InitIInv DEF BInv
  <1>1. /\ Len(blocks_) = 1 /\ blocks_[1] = TRUE /\ Len(sizes_) = 1
        /\ sizes_[1] = InitialBytes /\ live = {}
    BY DEF Init
  <1>2. GoodPosition(cur_block_, next_loc_, cur_block_end_)
    <2>1. 0 \in 0 .. Len(blocks_) - 1 /\ InitialBytes \in Nat
      BY <1>1, StackAllocAssumption
    <2> QED
      BY <1>1, <2>1 DEF Init, GoodPosition
  <1>3. \A i \in 1 .. Len(blocks_) : blocks_[i] = TRUE
    BY <1>1
  <1>4. Depth = 0
    BY DEF Init, Depth
  <1> QED
    BY <1>1, <1>2, <1>3, <1>4 DEF Sound

(* Positions and regions stay good when blocks are added behind them.        *)
LEMMA MoreBlocks ==
  ASSUME IInv, Sound,
         Len(blocks_') \in Nat, Len(blocks_') >= Len(blocks_),
         \A i \in 1 .. Len(blocks_) : sizes_'[i] = sizes_[i]
  PROVE  /\ \A b, p, e : GoodPosition(b, p, e) => GoodPosition(b, p, e)'
         /\ \A r \in live : EndsInBlock(r)'
  <1>1. Len(blocks_) \in Nat
    BY LenProperties DEF IInv, TypeOK
  <1>2. ASSUME NEW b \in Nat, b < Len(blocks_)
        PROVE  sizes_'[b + 1] = sizes_[b + 1] /\ b < Len(blocks_')
    BY <1>1, <1>2
  <1>3. \A r \in live : EndsInBlock(r) /\ r.blk \in Nat
    BY DEF Sound, IInv, TypeOK, Region
  <1>4. \A r \in live : EndsInBlock(r)'
    BY <1>2, <1>3 DEF EndsInBlock
  <1>5. ASSUME NEW b, NEW p, NEW e, GoodPosition(b, p, e)
        PROVE  GoodPosition(b, p, e)'
    <2>1. b \in Nat /\ b < Len(blocks_)
      BY <1>1, <1>5 DEF GoodPosition
    <2>2. sizes_'[b + 1] = sizes_[b + 1] /\ b \in 0 .. Len(blocks_') - 1
      BY <1>2, <2>1
    <2> QED
      BY <1>5, <2>2 DEF GoodPosition
  <1> QED
    BY <1>4, <1>5

(* len bytes handed out at p, a byte of a block with room for them, and the  *)
(* position moved within that block.                                         *)
LEMMA HandOutEndsInBlock ==
  ASSUME IInv, Sound, NEW p \in Pointer, NEW len \in Lens, HandOut(p, len),
         \A r \in live : EndsInBlock(r)',
         p.blk < Len(blocks_'), p.off + len <= sizes_'[p.blk + 1]
  PROVE  \A r \in live' : EndsInBlock(r)'
  <1> SUFFICES ASSUME NEW r \in live', r \notin live PROVE EndsInBlock(r)'
    OBVIOUS
  <1>1. r.blk = p.blk /\ r.off = p.off /\ r.len = len
    BY DEF HandOut
  <1> QED
    BY <1>1 DEF EndsInBlock

LEMMA NextBInv == BInv /\ [Next]_vars => BInv'
  <1> SUFFICES ASSUME BInv, [Next]_vars, failures' = 0 PROVE Sound'
    BY NextIInv DEF BInv
  <1> USE StackAllocAssumption
  <1> IInv /\ TypeOK
    BY DEF BInv, IInv
  <1>0. /\ Depth \in Nat /\ Len(blocks_) \in Nat \ {0} /\ failures \in Nat
        /\ next_loc_ \in Pointer /\ cur_block_end_ \in Pointer
        /\ cur_block_ \in Nat /\ cur_block_ < Len(blocks_)
    BY LenProperties, EmptySeq DEF TypeOK, Depth
  <1>1. ASSUME NEW len \in Lens, AllocInBlock(len)
        PROVE  Sound'
    <2>1. /\ HandOut(next_loc_, len) /\ next_loc_' = Bumped(len)
          /\ Bumped(len).off < cur_block_end_.off
          /\ UNCHANGED <<blocks_, sizes_, cur_block_, cur_block_end_, marks,
                         failures>>
      BY <1>1 DEF AllocInBlock, FitsCurrent, storage
    <2>2. Sound
      BY <2>1 DEF BInv
    <2>3. GoodPosition(cur_block_, next_loc_, cur_block_end_)
      BY <2>2 DEF Sound
    <2> DEFINE q == Bumped(len)
    <2>4. /\ q \in Pointer /\ q.blk = next_loc_.blk
          /\ q.off >= next_loc_.off + len /\ q.off < cur_block_end_.off
      BY <2>1, BumpedIsPast
    <2>5. next_loc_' = q
      BY <2>1
    <2> HIDE DEF q
    <2>6. GoodPosition(cur_block_, next_loc_, cur_block_end_)'
      <3>1. q.off \in Nat /\ cur_block_end_.off \in Nat
        BY <1>0, <2>4 DEF Pointer
      <3> QED
        BY <2>1, <2>3, <2>4, <2>5, <3>1 DEF GoodPosition
    <2>7. \A r \in live' : EndsInBlock(r)'
      <3>1. \A r \in live : EndsInBlock(r)'
        BY <2>1, <2>2 DEF Sound, EndsInBlock
      <3>2. /\ next_loc_.off \in Nat /\ len \in Nat /\ q.off \in Nat
            /\ cur_block_end_.off \in Nat
        BY <1>0, <2>4 DEF Pointer
      <3>3. /\ next_loc_.blk < Len(blocks_')
            /\ cur_block_end_.off = sizes_'[next_loc_.blk + 1]
        BY <1>0, <2>1, <2>3 DEF GoodPosition
      <3>4. next_loc_.off + len <= sizes_'[next_loc_.blk + 1]
        BY <2>4, <3>2, <3>3
      <3> QED
        BY <1>0, <2>1, <2>2, <3>1, <3>3, <3>4, HandOutEndsInBlock
    <2> QED
      BY <2>1, <2>2, <2>6, <2>7 DEF Sound, GoodPosition, Depth, marks
  <1>2. ASSUME NEW len \in Lens, AllocReusesBlock(len)
        PROVE  Sound'
    <2>1. PICK junk \in JunkSizes, b \in 0 .. Len(blocks_) - 1 :
            /\ SizeAt(b, junk) >= len
            /\ EnterBlock(b, SizeAt(b, junk), len)
      BY <1>0, <1>2 DEF AllocReusesBlock, SearchStopsAt
    <2>2. UNCHANGED <<blocks_, sizes_, marks, failures>>
      BY <1>2 DEF AllocReusesBlock, storage
    <2>3. Sound
      BY <2>2 DEF BInv
    <2>4. SizeAt(b, junk) = sizes_[b + 1] /\ b < Len(blocks_)
      BY <1>0, <2>3 DEF SizeAt, Sound
    <2>5. /\ HandOut([blk |-> b, off |-> 0], len)
          /\ cur_block_' = b /\ next_loc_' = [blk |-> b, off |-> len]
          /\ cur_block_end_' = [blk |-> b, off |-> sizes_[b + 1]]
          /\ sizes_[b + 1] >= len
      BY <2>1, <2>4 DEF EnterBlock
    <2>6. GoodPosition(cur_block_, next_loc_, cur_block_end_)'
      BY <2>2, <2>5 DEF GoodPosition
    <2>7. \A r \in live' : EndsInBlock(r)'
      <3> DEFINE p == [blk |-> b, off |-> 0]
      <3>1. \A r \in live : EndsInBlock(r)'
        BY <2>2, <2>3 DEF Sound, EndsInBlock
      <3>2. /\ p \in Pointer /\ HandOut(p, len) /\ p.blk < Len(blocks_')
            /\ p.off + len <= sizes_'[p.blk + 1]
        BY <1>0, <2>2, <2>4, <2>5 DEF Pointer
      <3> HIDE DEF p
      <3> QED
        BY <2>3, <3>1, <3>2, HandOutEndsInBlock
    <2> QED
      BY <2>2, <2>3, <2>6, <2>7 DEF Sound, GoodPosition, Depth, marks
  <1>3. ASSUME NEW len \in Lens, AllocNewBlock(len)
        PROVE  Sound'
    <2> DEFINE b == Len(blocks_)
    <2> DEFINE n == NewSize(len)
    <2>1. PICK junk \in JunkSizes :
            EnterBlock(b, IF b < Len(sizes_') THEN sizes_'[b + 1] ELSE junk, len)
      BY <1>3 DEF AllocNewBlock
    <2>2. /\ blocks_' = Append(blocks_, TRUE) /\ sizes_' = Append(sizes_, n)
          /\ UNCHANGED <<marks, failures>>
      BY <1>3 DEF AllocNewBlock
    <2>3. Sound
      BY <2>2 DEF BInv
    <2>4. n \in Nat /\ n >= len
      BY NewSizeFits
    <2> HIDE DEF n
    <2>5. /\ Len(blocks_') = b + 1
          /\ \A i \in 1 .. b : blocks_'[i] = blocks_[i]
          /\ blocks_'[b + 1] = TRUE
      <3>1. PICK x \in BOOLEAN, s \in Seq(BOOLEAN) : x = TRUE /\ s = blocks_
        BY DEF TypeOK
      <3>2. /\ Len(Append(s, x)) = Len(s) + 1
            /\ \A i \in 1 .. Len(s) : Append(s, x)[i] = s[i]
            /\ Append(s, x)[Len(s) + 1] = x
        BY PushBack
      <3> QED
        BY <2>2, <3>1, <3>2
    <2>6. /\ Len(sizes_') = b + 1
          /\ \A i \in 1 .. b : sizes_'[i] = sizes_[i]
          /\ sizes_'[b + 1] = n
      <3>1. sizes_ \in Seq(Nat) /\ Len(sizes_) = b
        BY <2>3 DEF TypeOK, Sound
      <3> QED
        BY <2>2, <2>4, <3>1, PushBack
    <2>7. b \in Nat /\ b < b + 1 /\ b \in 0 .. b
      BY <1>0
    <2>8. /\ HandOut([blk |-> b, off |-> 0], len)
          /\ cur_block_' = b /\ next_loc_' = [blk |-> b, off |-> len]
          /\ cur_block_end_' = [blk |-> b, off |-> n]
      BY <2>1, <2>6, <2>7 DEF EnterBlock
    <2>9. GoodPosition(cur_block_, next_loc_, cur_block_end_)'
      <3>1. b \in 0 .. Len(blocks_') - 1
        BY <2>5, <2>7
      <3> QED
        BY <2>4, <2>6, <2>8, <3>1 DEF GoodPosition
    <2> HIDE DEF b
    <2>10. /\ \A x, p, e : GoodPosition(x, p, e) => GoodPosition(x, p, e)'
           /\ \A r \in live : EndsInBlock(r)'
      BY <2>3, <2>5, <2>6, <2>7, MoreBlocks DEF b
    <2>11. \A r \in live' : EndsInBlock(r)'
      <3> DEFINE p == [blk |-> b, off |-> 0]
      <3>1. /\ p \in Pointer /\ HandOut(p, len) /\ p.blk < Len(blocks_')
            /\ p.off + len <= sizes_'[p.blk + 1]
        BY <2>4, <2>5, <2>6, <2>7, <2>8 DEF Pointer
      <3> HIDE DEF p
      <3> QED
        BY <2>3, <2>10, <3>1, HandOutEndsInBlock
    <2>12. \A i \in 1 .. Len(blocks_') : blocks_'[i] = TRUE
      <3>1. \A i \in 1 .. b : blocks_[i] = TRUE
        BY <2>3 DEF Sound, b
      <3> SUFFICES ASSUME NEW i \in 1 .. b + 1 PROVE blocks_'[i] = TRUE
        BY <2>5
      <3>2. i \in 1 .. b \/ i = b + 1
        BY <2>7
      <3> QED
        BY <2>5, <3>1, <3>2
    <2>13. \A i \in 1 .. Depth' :
             GoodPosition(nested_cur_blocks_[i], nested_next_locs_[i],
                          nested_cur_block_ends_[i])'
      BY <2>2, <2>3, <2>10 DEF Sound, Depth, marks
    <2> QED
      BY <2>5, <2>6, <2>9, <2>11, <2>12, <2>13 DEF Sound
  <1>4. ASSUME NEW len \in Lens, AllocThrows(len)
        PROVE  FALSE
    BY <1>0, <1>4 DEF AllocThrows
  <1>5. CASE StartNested
    <2>1. /\ nested_cur_blocks_' = Append(nested_cur_blocks_, cur_block_)
          /\ nested_next_locs_' = Append(nested_next_locs_, next_loc_)
          /\ nested_cur_block_ends_' =
               Append(nested_cur_block_ends_, cur_block_end_)
          /\ UNCHANGED <<blocks_, sizes_, cur_block_, cur_block_end_, next_loc_,
                         live, failures>>
      BY <1>5 DEF StartNested, storage, positions
    <2>2. Sound
      BY <2>1 DEF BInv
    <2>3. /\ Depth' = Depth + 1
          /\ \A i \in 1 .. Depth : nested_cur_blocks_'[i] = nested_cur_blocks_[i]
          /\ nested_cur_blocks_'[Depth + 1] = cur_block_
      BY <1>0, <2>1, PushBack DEF TypeOK, Depth
    <2>4. /\ \A i \in 1 .. Depth : nested_next_locs_'[i] = nested_next_locs_[i]
          /\ nested_next_locs_'[Depth + 1] = next_loc_
      <3>1. nested_next_locs_ \in Seq(Pointer) /\ Len(nested_next_locs_) = Depth
        BY DEF TypeOK
      <3> QED
        BY <1>0, <2>1, <3>1, PushBack
    <2>5. /\ \A i \in 1 .. Depth :
               nested_cur_block_ends_'[i] = nested_cur_block_ends_[i]
          /\ nested_cur_block_ends_'[Depth + 1] = cur_block_end_
      <3>1. /\ nested_cur_block_ends_ \in Seq(Pointer)
            /\ Len(nested_cur_block_ends_) = Depth
        BY DEF TypeOK
      <3> QED
        BY <1>0, <2>1, <3>1, PushBack
    <2>6. ASSUME NEW i \in 1 .. Depth'
          PROVE  GoodPosition(nested_cur_blocks_[i], nested_next_locs_[i],
                              nested_cur_block_ends_[i])'
      <3>1. CASE i \in 1 .. Depth
        <4>1. GoodPosition(nested_cur_blocks_[i], nested_next_locs_[i],
                           nested_cur_block_ends_[i])
          BY <2>2, <3>1 DEF Sound
        <4>2. /\ nested_cur_blocks_'[i] = nested_cur_blocks_[i]
              /\ nested_next_locs_'[i] = nested_next_locs_[i]
              /\ nested_cur_block_ends_'[i] = nested_cur_block_ends_[i]
          BY <2>3, <2>4, <2>5, <3>1
        <4> QED
          BY <2>1, <4>1, <4>2 DEF GoodPosition
      <3>2. CASE i = Depth + 1
        BY <2>1, <2>2, <2>3, <2>4, <2>5, <3>2 DEF Sound, GoodPosition
      <3> QED
        BY <1>0, <2>3, <3>1, <3>2
    <2> QED
      BY <2>1, <2>2, <2>6 DEF Sound, GoodPosition, EndsInBlock
  <1>6. CASE RecoverNested
    <2>1. /\ Depth > 0
          /\ cur_block_' = LastOf(nested_cur_blocks_)
          /\ nested_cur_blocks_' = FrontOf(nested_cur_blocks_)
          /\ next_loc_' = LastOf(nested_next_locs_)
          /\ nested_next_locs_' = FrontOf(nested_next_locs_)
          /\ cur_block_end_' = LastOf(nested_cur_block_ends_)
          /\ nested_cur_block_ends_' = FrontOf(nested_cur_block_ends_)
          /\ live' \subseteq live
          /\ UNCHANGED <<blocks_, sizes_, failures>>
      BY <1>6 DEF RecoverNested, storage
    <2>2. Sound
      BY <2>1 DEF BInv
    <2>3. /\ nested_cur_blocks_ # <<>> /\ nested_next_locs_ # <<>>
          /\ nested_cur_block_ends_ # <<>>
      BY <2>1, EmptySeq DEF TypeOK, Depth
    <2>4. /\ Depth' = Depth - 1
          /\ \A i \in 1 .. Depth - 1 :
               nested_cur_blocks_'[i] = nested_cur_blocks_[i]
          /\ cur_block_' = nested_cur_blocks_[Depth]
      BY <2>1, <2>3, PopBack DEF TypeOK, Depth
    <2>5. /\ \A i \in 1 .. Depth - 1 :
               nested_next_locs_'[i] = nested_next_locs_[i]
          /\ next_loc_' = nested_next_locs_[Depth]
      BY <2>1, <2>3, PopBack DEF TypeOK
    <2>6. /\ \A i \in 1 .. Depth - 1 :
               nested_cur_block_ends_'[i] = nested_cur_block_ends_[i]
          /\ cur_block_end_' = nested_cur_block_ends_[Depth]
      BY <2>1, <2>3, PopBack DEF TypeOK
    <2>7. \A i \in 1 .. Depth :
            GoodPosition(nested_cur_blocks_[i], nested_next_locs_[i],
                         nested_cur_block_ends_[i])
      BY <2>2 DEF Sound
    <2>8. GoodPosition(cur_block_, next_loc_, cur_block_end_)'
      <3>1. Depth \in 1 .. Depth
        BY <1>0, <2>1
      <3> QED
        BY <2>1, <2>4, <2>5, <2>6, <2>7, <3>1 DEF GoodPosition
    <2>9. \A i \in 1 .. Depth' :
            GoodPosition(nested_cur_blocks_[i], nested_next_locs_[i],
                         nested_cur_block_ends_[i])'
      <3> SUFFICES ASSUME NEW i \in 1 .. Depth - 1
                   PROVE  GoodPosition(nested_cur_blocks_[i],
                                       nested_next_locs_[i],
                                       nested_cur_block_ends_[i])'
        BY <2>4
      <3>1. i \in 1 .. Depth
        BY <1>0
      <3> QED
        BY <2>1, <2>4, <2>5, <2>6, <2>7, <3>1 DEF GoodPosition
    <2> QED
      BY <2>1, <2>2, <2>8, <2>9 DEF Sound, EndsInBlock
  <1>7. CASE RecoverAll
    <2>1. /\ Depth = 0 /\ RewindToFirstBlock
          /\ UNCHANGED <<blocks_, sizes_, marks, failures>>
      BY <1>7 DEF RecoverAll, storage
    <2>2. Sound /\ Depth' = 0 /\ sizes_[1] \in Nat
      BY <2>1, ResizeToOne DEF BInv, TypeOK, Depth, marks
    <2> QED
      BY <1>0, <2>1, <2>2 DEF Sound, GoodPosition, RewindToFirstBlock
  <1>8. CASE FreeAll
    <2>1. /\ Depth = 0 /\ RewindToFirstBlock
          /\ sizes_' = SubSeq(sizes_, 1, 1) /\ blocks_' = SubSeq(blocks_, 1, 1)
          /\ UNCHANGED <<marks, failures>>
      BY <1>8 DEF FreeAll
    <2>2. Sound /\ Depth' = 0
      BY <2>1 DEF BInv, Depth, marks
    <2>3. /\ Len(blocks_') = 1 /\ blocks_'[1] = blocks_[1]
          /\ Len(sizes_') = 1 /\ sizes_'[1] = sizes_[1] /\ sizes_[1] \in Nat
      BY <2>1, ResizeToOne, Zenon DEF TypeOK
    <2>4. blocks_[1] = TRUE
      BY <1>0, <2>2 DEF Sound
    <2>5. \A i \in 1 .. Len(blocks_') : blocks_'[i] = TRUE
      BY <2>3, <2>4
    <2>6. GoodPosition(cur_block_, next_loc_, cur_block_end_)'
      BY <2>1, <2>3 DEF GoodPosition, RewindToFirstBlock
    <2> QED
      BY <2>1, <2>2, <2>3, <2>5, <2>6 DEF Sound, RewindToFirstBlock
  <1>9. CASE UNCHANGED vars
    BY <1>9 DEF BInv, Sound, GoodPosition, EndsInBlock, Depth, vars, storage,
                positions, marks
  <1> QED
    BY <1>1, <1>2, <1>3, <1>4, <1>5, <1>6, <1>7, <1>8, <1>9 DEF Next, Alloc

LEMMA SoundIsInside == BInv => InBounds
  <1> SUFFICES ASSUME BInv, failures = 0, NEW r \in live
               PROVE  Inside(r)
    BY DEF InBounds
  <1>1. Sound /\ r \in Region /\ Len(blocks_) \in Nat
    BY LenProperties DEF BInv, IInv, TypeOK
  <1>2. EndsInBlock(r) /\ r.blk \in Nat
    BY <1>1 DEF Sound, Region
  <1>3. r.blk + 1 \in 1 .. Len(blocks_)
    BY <1>1, <1>2 DEF EndsInBlock
  <1> QED
    BY <1>1, <1>2, <1>3 DEF Sound, EndsInBlock, Inside

(* As long as malloc has not failed, every region in use lies in a block the *)
(* heap gave and ends before that block does (alloc, move_to_next_block,     *)
(* recover_nested of memory/stack_alloc.hpp).                                *)
THEOREM RegionsInBounds == Spec => []InBounds
  <1> QED
    BY SoundIsInside, InitBInv, NextBInv, PTL DEF Spec

(* As long as malloc has not failed, no two regions in use share a byte of   *)
(* memory: within a block they lie apart, and each stays within its block    *)
(* (alloc, move_to_next_block, recover_nested of memory/stack_alloc.hpp).    *)
THEOREM RegionsDisjoint == Spec => []NoOverlap
  <1>1. BInv => NoOverlap
    <2> SUFFICES ASSUME BInv, failures = 0,
                        NEW r \in live, NEW s \in live, r # s
                 PROVE  Disjoint(r, s)
      BY DEF NoOverlap
    <2>1. Inside(r) /\ Inside(s)
      BY SoundIsInside DEF InBounds
    <2>2. Clear(r, s)
      BY DEF BInv, IInv, Apart
    <2> QED
      BY <2>1, <2>2 DEF Clear, Disjoint
  <1> QED
    BY <1>1, InitBInv, NextBInv, PTL DEF Spec
-----------------------------------------------------------------------------
(***************************************************************************)
(* What in_stack says follows lifetimes, as long as malloc has not failed. *)
(***************************************************************************)
(* r begins at the position p or later.                                      *)
AtOrAfter(r, p) == r.blk > p.blk \/ (r.blk = p.blk /\ r.off >= p.off)

(* The marks lie one after the other and before the current position, and a  *)
(* region handed out in a scope begins at the scope's mark or later.         *)
Upward ==
  \A i \in 1 .. Depth :
    /\ AtOrAfter(next_loc_, nested_next_locs_[i])
    /\ \A j \in i .. Depth : AtOrAfter(nested_next_locs_[j], nested_next_locs_[i])
    /\ \A r \in live : r.lvl >= i => AtOrAfter(r, nested_next_locs_[i])

LInv == BInv /\ Upward
-----------------------------------------------------------------------------
LEMMA InitLInv == Init => LInv
  <1>1. Init => Depth = 0
    BY DEF Init, Depth
  <1> QED
    BY <1>1, InitBInv DEF LInv, Upward

LEMMA AtOrAfterTransitive ==
  ASSUME NEW a, NEW b, NEW c,
         a.blk \in Nat, b.blk \in Nat, c.blk \in Nat,
         a.off \in Nat, b.off \in Nat, c.off \in Nat,
         AtOrAfter(a, b), AtOrAfter(b, c)
  PROVE  AtOrAfter(a, c)
  BY DEF AtOrAfter

(* Memory handed out at the current position or in a later block.            *)
LEMMA HandOutStaysUpward ==
  ASSUME IInv, Upward, NEW p \in Pointer, NEW len \in Lens, HandOut(p, len),
         UNCHANGED marks, next_loc_' \in Pointer,
         AtOrAfter(p, next_loc_), AtOrAfter(next_loc_', p)
  PROVE  Upward'
  <1>1. /\ next_loc_ \in Pointer /\ nested_next_locs_ \in Seq(Pointer)
        /\ Len(nested_next_locs_) = Depth /\ Depth \in Nat
        /\ Depth' = Depth /\ nested_next_locs_' = nested_next_locs_
    BY LenProperties DEF IInv, TypeOK, marks, Depth
  <1> SUFFICES ASSUME NEW i \in 1 .. Depth
               PROVE  /\ AtOrAfter(next_loc_', nested_next_locs_[i])
                      /\ \A r \in live' :
                           r.lvl >= i => AtOrAfter(r, nested_next_locs_[i])
    BY <1>1 DEF Upward
  <1>2. PICK q \in Pointer : q = nested_next_locs_[i]
    BY <1>1, ElementOfSeq
  <1>3. AtOrAfter(next_loc_, q)
    BY <1>2 DEF Upward
  <1>4. AtOrAfter(p, q) /\ AtOrAfter(next_loc_', q)
    BY <1>1, <1>3, AtOrAfterTransitive DEF Pointer
  <1>5. ASSUME NEW r \in live', r.lvl >= i
        PROVE  AtOrAfter(r, q)
    <2>1. r \in live \/ (r.blk = p.blk /\ r.off = p.off)
      BY DEF HandOut
    <2> QED
      BY <1>2, <1>4, <1>5, <2>1 DEF Upward, AtOrAfter
  <1> QED
    BY <1>2, <1>4, <1>5

LEMMA NextLInv == LInv /\ [Next]_vars => LInv'
  <1> SUFFICES ASSUME LInv, [Next]_vars PROVE Upward'
    BY NextBInv DEF LInv
  <1> USE StackAllocAssumption
  <1>0. /\ IInv /\ TypeOK /\ Ordered /\ Upward /\ live \subseteq Region
        /\ next_loc_ \in Pointer /\ next_loc_.blk \in Nat /\ next_loc_.off \in Nat
        /\ cur_block_ \in Nat /\ next_loc_.blk <= cur_block_
        /\ Len(blocks_) \in Nat /\ cur_block_ < Len(blocks_)
        /\ nested_next_locs_ \in Seq(Pointer)
        /\ Len(nested_next_locs_) = Depth /\ Depth \in Nat
    BY LenProperties DEF LInv, BInv, IInv, TypeOK, Ordered, Pointer, Depth
  <1>1. ASSUME NEW len \in Lens, AllocInBlock(len)
        PROVE  Upward'
    <2>1. /\ HandOut(next_loc_, len) /\ UNCHANGED marks /\ next_loc_' = Bumped(len)
      BY <1>1 DEF AllocInBlock
    <2>2. /\ Bumped(len) \in Pointer /\ Bumped(len).blk = next_loc_.blk
          /\ Bumped(len).off >= next_loc_.off + len
      BY <1>0, BumpedIsPast
    <2>3. AtOrAfter(next_loc_, next_loc_) /\ AtOrAfter(next_loc_', next_loc_)
      BY <1>0, <2>1, <2>2 DEF AtOrAfter, Pointer
    <2> QED
      BY <1>0, <2>1, <2>2, <2>3, HandOutStaysUpward
  <1>2. ASSUME NEW len \in Lens, NEW b \in Nat, NEW size, EnterBlock(b, size, len),
               b > cur_block_, UNCHANGED marks
        PROVE  Upward'
    <2>1. PICK p \in Pointer : p = [blk |-> b, off |-> 0]
      BY DEF Pointer
    <2>2. /\ HandOut(p, len) /\ next_loc_' \in Pointer
          /\ p.blk = b /\ next_loc_'.blk = b /\ p.off = 0 /\ next_loc_'.off = len
      BY <1>2, <2>1 DEF EnterBlock, Pointer
    <2>3. AtOrAfter(p, next_loc_) /\ AtOrAfter(next_loc_', p)
      BY <1>0, <1>2, <2>2 DEF AtOrAfter
    <2> QED
      BY <1>0, <1>2, <2>2, <2>3, HandOutStaysUpward
  <1>3. ASSUME NEW len \in Lens, AllocReusesBlock(len)
        PROVE  Upward'
    <2>1. PICK junk \in JunkSizes, b \in Nat :
            b > cur_block_ /\ EnterBlock(b, SizeAt(b, junk), len)
      BY <1>0, <1>3 DEF AllocReusesBlock, SearchStopsAt
    <2> QED
      BY <1>2, <1>3, <2>1 DEF AllocReusesBlock
  <1>4. ASSUME NEW len \in Lens, AllocNewBlock(len)
        PROVE  Upward'
    <2>1. PICK size : EnterBlock(Len(blocks_), size, len)
      BY <1>4 DEF AllocNewBlock
    <2> QED
      BY <1>0, <1>2, <1>4, <2>1 DEF AllocNewBlock
  <1>5. ASSUME NEW len \in Lens, AllocThrows(len)
        PROVE  Upward'
    <2>1. /\ next_loc_' = Bumped(len) /\ live' = live
          /\ nested_next_locs_' = nested_next_locs_ /\ Depth' = Depth
      BY <1>5 DEF AllocThrows, marks, Depth
    <2>2. /\ Bumped(len) \in Pointer /\ Bumped(len).blk = next_loc_.blk
          /\ Bumped(len).off >= next_loc_.off + len /\ len \in Nat
      BY <1>0, BumpedIsPast
    <2>3. AtOrAfter(next_loc_', next_loc_)
      BY <1>0, <2>1, <2>2 DEF AtOrAfter, Pointer
    <2>4. ASSUME NEW i \in 1 .. Depth
          PROVE  AtOrAfter(next_loc_', nested_next_locs_[i])
      <3>1. nested_next_locs_[i] \in Pointer
        BY <1>0, ElementOfSeq
      <3>2. AtOrAfter(next_loc_, nested_next_locs_[i])
        BY <1>0 DEF Upward
      <3> QED
        BY <1>0, <2>1, <2>2, <2>3, <3>1, <3>2, AtOrAfterTransitive DEF Pointer
    <2> QED
      BY <1>0, <2>1, <2>4 DEF Upward
  <1>6. CASE StartNested
    <2>1. /\ nested_next_locs_' = Append(nested_next_locs_, next_loc_)
          /\ nested_cur_blocks_' = Append(nested_cur_blocks_, cur_block_)
          /\ next_loc_' = next_loc_ /\ live' = live
      BY <1>6 DEF StartNested, positions
    <2>2. /\ Depth' = Depth + 1
          /\ \A i \in 1 .. Depth : nested_next_locs_'[i] = nested_next_locs_[i]
          /\ nested_next_locs_'[Depth + 1] = next_loc_
      BY <1>0, <2>1, PushBack DEF TypeOK, Depth
    <2>3. AtOrAfter(next_loc_, next_loc_)
      BY <1>0 DEF AtOrAfter
    <2>4. ASSUME NEW r \in live
          PROVE  ~(r.lvl >= Depth + 1)
      BY <1>0 DEF Ordered, Region
    <2> SUFFICES ASSUME NEW i \in 1 .. Depth + 1
                 PROVE  /\ AtOrAfter(next_loc_, nested_next_locs_'[i])
                        /\ \A j \in i .. Depth + 1 :
                             AtOrAfter(nested_next_locs_'[j], nested_next_locs_'[i])
                        /\ \A r \in live :
                             r.lvl >= i => AtOrAfter(r, nested_next_locs_'[i])
      BY <2>1, <2>2 DEF Upward
    <2>5. CASE i = Depth + 1
      <3>1. \A j \in i .. Depth + 1 : j = Depth + 1
        BY <1>0, <2>5
      <3> QED
        BY <2>2, <2>3, <2>4, <2>5, <3>1
    <2>6. CASE i \in 1 .. Depth
      <3>1. \A j \in i .. Depth + 1 : j = Depth + 1 \/ (j \in i .. Depth /\ j \in 1 .. Depth)
        BY <1>0, <2>6
      <3> QED
        BY <1>0, <2>2, <2>6, <3>1 DEF Upward
    <2> QED
      BY <1>0, <2>5, <2>6
  <1>7. CASE RecoverNested
    <2>1. /\ next_loc_' = nested_next_locs_[Depth] /\ Depth > 0
          /\ live' \subseteq live
          /\ Depth' = Depth - 1
          /\ \A i \in 1 .. Depth - 1 : nested_next_locs_'[i] = nested_next_locs_[i]
      <3>1. Len(nested_next_locs_) = Depth /\ nested_next_locs_ # <<>>
            /\ nested_next_locs_ \in Seq(Pointer) /\ nested_cur_blocks_ \in Seq(Nat)
        BY <1>0, <1>7, EmptySeq DEF TypeOK, RecoverNested
      <3> QED
        BY <1>0, <1>7, <3>1, PopBack DEF RecoverNested, LastOf, FrontOf, Depth
    <2> SUFFICES ASSUME NEW i \in 1 .. Depth - 1
                 PROVE  /\ AtOrAfter(next_loc_', nested_next_locs_'[i])
                        /\ \A j \in i .. Depth - 1 :
                             AtOrAfter(nested_next_locs_'[j], nested_next_locs_'[i])
                        /\ \A r \in live' :
                             r.lvl >= i => AtOrAfter(r, nested_next_locs_'[i])
      BY <2>1 DEF Upward
    <2>2. i \in 1 .. Depth /\ Depth \in i .. Depth
      BY <1>0, <2>1
    <2>3. \A j \in i .. Depth - 1 : j \in i .. Depth /\ j \in 1 .. Depth - 1
      BY <1>0, <2>1
    <2> QED
      BY <1>0, <2>1, <2>2, <2>3 DEF Upward
  <1>8. ASSUME Depth = 0, UNCHANGED marks
        PROVE  Upward'
    <2>1. Depth' = 0
      BY <1>8 DEF Depth, marks
    <2> QED
      BY <2>1 DEF Upward
  <1>9. CASE UNCHANGED vars
    BY <1>0, <1>9 DEF Upward, vars, positions, marks, Depth
  <1> QED
    BY <1>1, <1>3, <1>4, <1>5, <1>6, <1>7, <1>8, <1>9
       DEF Next, Alloc, RecoverAll, FreeAll

LEMMA LInvTypes ==
  ASSUME LInv
  PROVE  /\ IInv /\ TypeOK /\ Upward /\ live \subseteq Region
         /\ next_loc_ \in Pointer /\ next_loc_.blk \in Nat /\ next_loc_.off \in Nat
         /\ cur_block_ \in Nat /\ Len(blocks_) \in Nat /\ cur_block_ < Len(blocks_)
         /\ Depth \in Nat /\ failures \in Nat /\ (failures = 0 => Sound)
  BY LenProperties DEF LInv, BInv, IInv, TypeOK, Pointer, Depth

(* A step of the allocator in whose course malloc has not failed.            *)
LEMMA StepFollowsLifetimes ==
  ASSUME LInv, LInv', [Next]_vars, failures' = 0
  PROVE  /\ \A r \in live' \ live : \A o \in r.off .. r.off + r.len - 1 :
              ~InStack(r.blk, o) /\ InStack(r.blk, o)'
         /\ \A r \in live \ live' : \A o \in r.off .. r.off + r.len - 1 :
              ~InStack(r.blk, o)'
  <1> DEFINE Starts(r) == \A o \in r.off .. r.off + r.len - 1 :
                            ~InStack(r.blk, o) /\ InStack(r.blk, o)'
             Ends(r) == \A o \in r.off .. r.off + r.len - 1 : ~InStack(r.blk, o)'
  <1> SUFFICES (\A r \in live' \ live : Starts(r)) /\ (\A r \in live \ live' : Ends(r))
    OBVIOUS
  <1> USE StackAllocAssumption
  <1>0. /\ IInv /\ TypeOK /\ Upward /\ live \subseteq Region
        /\ next_loc_ \in Pointer /\ next_loc_.blk \in Nat /\ next_loc_.off \in Nat
        /\ cur_block_ \in Nat /\ Len(blocks_) \in Nat /\ cur_block_ < Len(blocks_)
        /\ Depth \in Nat /\ failures \in Nat /\ (failures = 0 => Sound)
    BY LInvTypes
  <1>1. Sound'
    BY DEF LInv, BInv
  <1>2. ASSUME NEW len \in Lens
        PROVE  /\ AllocInBlock(len) \/ AllocReusesBlock(len) \/ AllocNewBlock(len)
                    => failures' = failures
               /\ ~AllocThrows(len)
    <2>1. AllocThrows(len) => failures' = failures + 1
      BY DEF AllocThrows
    <2>2. AllocInBlock(len) => failures' = failures
      BY DEF AllocInBlock
    <2>3. AllocReusesBlock(len) => failures' = failures
      BY DEF AllocReusesBlock
    <2>4. AllocNewBlock(len) => failures' = failures
      BY DEF AllocNewBlock
    <2> QED
      BY <1>0, <2>1, <2>2, <2>3, <2>4
  <1>3. failures = 0 /\ Sound
    <2>1. StartNested \/ RecoverNested \/ RecoverAll \/ FreeAll => failures' = failures
      BY DEF StartNested, RecoverNested, RecoverAll, FreeAll
    <2>2. UNCHANGED vars => failures' = failures
      BY DEF vars
    <2>3. failures' = failures
      BY <1>2, <2>1, <2>2 DEF Next, Alloc
    <2> QED
      BY <1>0, <2>3
  <1>4. next_loc_.blk = cur_block_ /\ next_loc_'.blk = cur_block_'
    BY <1>1, <1>3 DEF Sound, GoodPosition
  <1>5. ASSUME NEW len \in Lens, AllocInBlock(len)
        PROVE  (\A r \in live' \ live : Starts(r)) /\ live \subseteq live'
    <2>1. /\ HandOut(next_loc_, len) /\ next_loc_' = Bumped(len)
          /\ cur_block_' = cur_block_
      BY <1>5 DEF AllocInBlock
    <2>2. /\ Bumped(len).blk = next_loc_.blk /\ Bumped(len).off \in Nat
          /\ Bumped(len).off >= next_loc_.off + len
      <3>1. Bumped(len) \in Pointer
        BY <1>0, BumpedIsPast
      <3> QED
        BY <1>0, <3>1, BumpedIsPast DEF Pointer
    <2>3. PICK b \in Nat, first \in Nat : b = next_loc_.blk /\ first = next_loc_.off
      BY <1>0
    <2>4. /\ \A r \in live' \ live : r.blk = b /\ r.off = first /\ r.len = len
          /\ \A o \in first .. first + len - 1 : ~InStack(b, o) /\ InStack(b, o)'
      <3>1. \A r \in live' \ live : r.blk = b /\ r.off = first /\ r.len = len
        BY <2>1, <2>3 DEF HandOut
      <3>2. ASSUME NEW o \in first .. first + len - 1
            PROVE  ~InStack(b, o) /\ InStack(b, o)'
        BY <1>0, <1>4, <2>1, <2>2, <2>3 DEF InStack
      <3> QED
        BY <3>1, <3>2
    <2>5. live \subseteq live'
      BY <2>1 DEF HandOut
    <2> QED
      BY <2>4, <2>5
  <1>6. ASSUME NEW len \in Lens, NEW b \in Nat, NEW size, EnterBlock(b, size, len),
               b > cur_block_
        PROVE  (\A r \in live' \ live : Starts(r)) /\ live \subseteq live'
    <2>1. /\ HandOut([blk |-> b, off |-> 0], len) /\ cur_block_' = b
          /\ next_loc_'.blk = b /\ next_loc_'.off = len
      BY <1>6 DEF EnterBlock
    <2>2. ASSUME NEW r \in live' \ live
          PROVE  r.blk = b /\ r.off = 0 /\ r.len = len
      BY <2>1 DEF HandOut
    <2>3. ASSUME NEW o \in 0 .. 0 + len - 1
          PROVE  ~InStack(b, o) /\ InStack(b, o)'
      BY <1>0, <1>6, <2>1 DEF InStack
    <2> QED
      BY <2>1, <2>2, <2>3 DEF HandOut
  <1>7. ASSUME NEW len \in Lens, AllocReusesBlock(len)
        PROVE  (\A r \in live' \ live : Starts(r)) /\ live \subseteq live'
    <2>1. PICK junk \in JunkSizes, b \in Nat :
            b > cur_block_ /\ EnterBlock(b, SizeAt(b, junk), len)
      BY <1>0, <1>7 DEF AllocReusesBlock, SearchStopsAt
    <2> QED
      BY <1>6, <2>1
  <1>8. ASSUME NEW len \in Lens, AllocNewBlock(len)
        PROVE  (\A r \in live' \ live : Starts(r)) /\ live \subseteq live'
    <2>1. PICK size : EnterBlock(Len(blocks_), size, len)
      BY <1>8 DEF AllocNewBlock
    <2> QED
      BY <1>0, <1>6, <2>1
  <1>10. CASE RecoverNested
    <2>1. /\ Depth > 0 /\ cur_block_' = LastOf(nested_cur_blocks_)
          /\ next_loc_' = nested_next_locs_[Depth]
          /\ live' = {r \in live : r.lvl < Depth}
      BY <1>10 DEF RecoverNested, LastOf, TypeOK, LInv, BInv, IInv
    <2>2. next_loc_'.blk \in Nat /\ next_loc_'.off \in Nat
      BY DEF LInv, BInv, IInv, TypeOK, Pointer
    <2>3. ASSUME NEW r \in live \ live'
          PROVE  AtOrAfter(r, next_loc_') /\ r.blk \in Nat /\ r.off \in Nat /\ r.len \in Nat
      <3>1. r \in live /\ r \in Region /\ r.lvl >= Depth /\ Depth \in 1 .. Depth
        BY <1>0, <2>1 DEF Region
      <3> QED
        BY <1>0, <2>1, <3>1 DEF Upward, Region
    <2>4. \A r \in live \ live' : Ends(r)
      BY <1>4, <2>2, <2>3 DEF AtOrAfter, InStack
    <2> QED
      BY <2>1, <2>4
  <1>11. CASE RecoverAll \/ FreeAll
    <2>1. /\ cur_block_' = 0 /\ next_loc_'.blk = 0 /\ next_loc_'.off = 0 /\ live' = {}
      BY <1>11 DEF RecoverAll, FreeAll, RewindToFirstBlock
    <2>2. ASSUME NEW r \in live
          PROVE  Ends(r)
      <3>1. r.blk \in Nat /\ r.off \in Nat /\ r.len \in Nat
        BY <1>0 DEF Region
      <3> QED
        BY <2>1, <3>1 DEF InStack
    <2> QED
      BY <2>1, <2>2
  <1>12. CASE StartNested \/ UNCHANGED vars
    BY <1>12 DEF StartNested, vars
  <1> HIDE DEF Starts, Ends
  <1> QED
    BY <1>2, <1>5, <1>7, <1>8, <1>10, <1>11, <1>12 DEF Next, Alloc

(* in_stack does not claim a byte before alloc hands it out, claims it after *)
(* and no longer once it is recovered, as long as malloc has not failed.     *)
THEOREM InStackKnowsLifetimes == Spec => InStackFollowsLifetimes
  <1>1. LInv /\ LInv' /\ [Next]_vars =>
          [failures' = 0 =>
             /\ \A r \in live' \ live : \A o \in r.off .. r.off + r.len - 1 :
                  ~InStack(r.blk, o) /\ InStack(r.blk, o)'
             /\ \A r \in live \ live' : \A o \in r.off .. r.off + r.len - 1 :
                  ~InStack(r.blk, o)']_vars
    BY StepFollowsLifetimes
  <1> QED
    BY <1>1, InitLInv, NextLInv, PTL DEF Spec, InStackFollowsLifetimes
-----------------------------------------------------------------------------
(***************************************************************************)
(* The stack allocator implements the abstract arena.                      *)
(***************************************************************************)
(* Memory handed out at the current position or in a later block shares no   *)
(* byte with memory in use.                                                  *)
LEMMA HandOutIsAlloc ==
  ASSUME IInv, NEW p \in Pointer, NEW len \in Lens,
         p = next_loc_ \/ p.blk > cur_block_,
         HandOut(p, len),
         UNCHANGED <<marks, failures>>
  PROVE  ArenaView!Alloc
  <1> DEFINE new == [blk |-> p.blk, off |-> p.off, len |-> len, lvl |-> Depth]
  <1> USE StackAllocAssumption
  <1>1. Depth \in Nat /\ Depth' = Depth
    BY LenProperties DEF IInv, TypeOK, Depth, marks
  <1>2. new \in Region /\ live' = live \cup {new} /\ live \subseteq Region
    BY <1>1 DEF HandOut, Region, Pointer, IInv, TypeOK
  <1>3. next_loc_ \in Pointer /\ cur_block_ \in Nat
    BY LenProperties DEF IInv, TypeOK
  <1>4. \A r \in live : Below(r, p)
    <2>1. \A r \in live : Below(r, next_loc_)
      BY DEF IInv, Ordered
    <2>2. next_loc_.blk <= cur_block_ /\ next_loc_.blk \in Nat /\ p.blk \in Nat
      BY <1>3 DEF IInv, Ordered, Pointer
    <2>3. ASSUME NEW r \in live
          PROVE  Below(r, p)
      <3>1. r.blk \in Nat /\ Below(r, next_loc_)
        BY <1>2, <2>1 DEF Region
      <3> QED
        BY <1>3, <2>2, <3>1 DEF Below
    <2> QED
      BY <2>3
  <1>5. \A r \in live : ArenaView!Disjoint(new, r)
    BY <1>2, <1>4 DEF Below, ArenaView!Disjoint, Region, Pointer
  <1>6. new \in ArenaView!Region /\ new.lvl = Depth /\ new \in live'
    BY <1>2 DEF Region, ArenaView!Region
  <1> HIDE DEF new
  <1> QED
    BY <1>1, <1>2, <1>5, <1>6 DEF ArenaView!Alloc

(* Every step of the allocator is a step of the arena: a failed malloc is a  *)
(* request that is not met.                                                  *)
LEMMA StepRefines ==
  IInv /\ [Next]_vars => [ArenaView!Next]_(ArenaView!vars)
  <1> SUFFICES ASSUME IInv, [Next]_vars
               PROVE  ArenaView!Next \/ UNCHANGED <<live, Depth, failures>>
    BY DEF ArenaView!vars
  <1> USE StackAllocAssumption
  <1>0. /\ next_loc_ \in Pointer /\ cur_block_ \in Nat
        /\ Len(blocks_) \in Nat /\ cur_block_ < Len(blocks_)
        /\ nested_cur_blocks_ \in Seq(Nat) /\ Depth \in Nat
    BY LenProperties DEF IInv, TypeOK, Depth
  <1>1. ASSUME NEW len \in Lens, AllocInBlock(len)
        PROVE  ArenaView!Next
    <2>1. HandOut(next_loc_, len) /\ UNCHANGED <<marks, failures>>
      BY <1>1 DEF AllocInBlock
    <2> QED
      BY <1>0, <2>1, HandOutIsAlloc DEF ArenaView!Next
  <1>2. ASSUME NEW len \in Lens, AllocReusesBlock(len)
        PROVE  ArenaView!Next
    <2>1. PICK b \in 0 .. Len(blocks_) - 1 :
            b > cur_block_ /\ HandOut([blk |-> b, off |-> 0], len)
      BY <1>2 DEF AllocReusesBlock, SearchStopsAt, EnterBlock
    <2>2. [blk |-> b, off |-> 0] \in Pointer /\ UNCHANGED <<marks, failures>>
      BY <1>0, <1>2 DEF AllocReusesBlock, Pointer
    <2> DEFINE p == [blk |-> b, off |-> 0]
    <2>3. p \in Pointer /\ p.blk > cur_block_ /\ HandOut(p, len)
      BY <2>1, <2>2
    <2> HIDE DEF p
    <2> QED
      BY <2>2, <2>3, HandOutIsAlloc DEF ArenaView!Next
  <1>3. ASSUME NEW len \in Lens, AllocNewBlock(len)
        PROVE  ArenaView!Next
    <2> DEFINE p == [blk |-> Len(blocks_), off |-> 0]
    <2>1. HandOut(p, len) /\ UNCHANGED <<marks, failures>>
      BY <1>3 DEF AllocNewBlock, EnterBlock
    <2>2. p \in Pointer /\ p.blk > cur_block_
      BY <1>0 DEF Pointer
    <2> HIDE DEF p
    <2> QED
      BY <2>1, <2>2, HandOutIsAlloc DEF ArenaView!Next
  <1>4. ASSUME NEW len \in Lens, AllocThrows(len)
        PROVE  ArenaView!Next
    <2>1. failures' # 0 /\ UNCHANGED <<live, Depth>>
      BY <1>4 DEF AllocThrows, marks, Depth, IInv, TypeOK
    <2> QED
      BY <2>1 DEF ArenaView!Next, ArenaView!Fail
  <1>5. CASE StartNested
    <2>1. nested_cur_blocks_' = Append(nested_cur_blocks_, cur_block_)
          /\ live' = live /\ failures' = failures
      BY <1>5 DEF StartNested
    <2>2. Depth' = Depth + 1
      BY <1>0, <2>1, PushBack DEF Depth
    <2> QED
      BY <2>1, <2>2 DEF ArenaView!Next, ArenaView!StartNested
  <1>6. CASE RecoverNested
    <2>1. /\ Depth > 0 /\ nested_cur_blocks_' = FrontOf(nested_cur_blocks_)
          /\ live' = {r \in live : r.lvl < Depth} /\ failures' = failures
      BY <1>6 DEF RecoverNested
    <2>2. nested_cur_blocks_ # <<>>
      BY <2>1, EmptySeq DEF Depth
    <2>3. Depth' = Depth - 1
      BY <1>0, <2>1, <2>2, PopBack DEF Depth
    <2> QED
      BY <2>1, <2>3 DEF ArenaView!Next, ArenaView!RecoverNested
  <1>7. CASE RecoverAll \/ FreeAll
    <2>1. Depth = 0 /\ live' = {} /\ UNCHANGED <<Depth, failures>>
      BY <1>7 DEF RecoverAll, FreeAll, RewindToFirstBlock, marks, Depth
    <2> QED
      BY <2>1 DEF ArenaView!Next, ArenaView!RecoverAll
  <1>8. CASE UNCHANGED vars
    BY <1>8 DEF vars, marks, Depth
  <1> QED
    BY <1>1, <1>2, <1>3, <1>4, <1>5, <1>6, <1>7, <1>8 DEF Next, Alloc

(* The allocator is an arena: until malloc fails, what it hands out is apart *)
(* from what is in use; and a recovery ends exactly the lifetimes that began *)
(* in the scope, then and later (alloc, recover_nested, recover_all,         *)
(* free_all of memory/stack_alloc.hpp).                                      *)
THEOREM AllocatorImplementsArena == Spec => ImplementsArena
  <1>1. Init => ArenaView!Init
    BY DEF Init, ArenaView!Init, Depth
  <1>2. QED
    BY <1>1, InitIInv, NextIInv, StepRefines, PTL
       DEF Spec, ImplementsArena, ArenaView!Spec
-----------------------------------------------------------------------------
(***************************************************************************)
(* The same calls get the same memory, as long as malloc has not failed.   *)
(* Then the end of a block is the one in sizes_, so what the next call     *)
(* does depends on the position and the marks alone, and on the blocks.    *)
(***************************************************************************)
Call == {<<"alloc", len>> : len \in Lens} \cup {<<"start">>, <<"recover">>}
Entry == [call : Call, at : Pointer]
More == [call |-> <<"more">>]

Place == [at : Pointer, marks : Seq(Pointer)]
Current == [at |-> next_loc_, marks |-> nested_next_locs_]
Start == [at |-> [blk |-> 0, off |-> 0], marks |-> <<>>]

Past(p, len) == [blk |-> p.blk, off |-> p.off + len + Pad(len)]

(* The first block after cur with len bytes.                                 *)
FirstFitting(b, cur, len, sizes) ==
  /\ b \in cur + 1 .. Len(sizes) - 1
  /\ sizes[b + 1] >= len
  /\ \A i \in cur + 1 .. b - 1 : sizes[i + 1] < len

InBlock(p, len, q, sizes) ==
  Past(p, len).off < sizes[p.blk + 1] /\ q = Past(p, len)

NextBlock(p, len, q, sizes) ==
  /\ ~(Past(p, len).off < sizes[p.blk + 1])
  /\ \E b \in Nat : FirstFitting(b, p.blk, len, sizes) /\ q = [blk |-> b, off |-> len]

(* What a call makes of place s when there are blocks of these sizes and     *)
(* none is asked for.                                                        *)
Allocates(len, s, t, sizes) ==
  /\ s.at.blk < Len(sizes)
  /\ InBlock(s.at, len, t.at, sizes) \/ NextBlock(s.at, len, t.at, sizes)
  /\ t.marks = s.marks

Starts(s, t) == t.at = s.at /\ t.marks = Append(s.marks, s.at)
Recovers(s, t) == t.at = LastOf(s.marks) /\ t.marks = FrontOf(s.marks)

Moves(call, s, t, sizes) ==
  \/ \E len \in Lens : call = <<"alloc", len>> /\ Allocates(len, s, t, sizes)
  \/ call = <<"start">> /\ Starts(s, t)
  \/ call = <<"recover">> /\ Recovers(s, t)

(* The calls of log l go from place to place through st.                     *)
Simulates(l, st, sizes) ==
  /\ st \in [0 .. Len(l) -> Place]
  /\ st[0] = Start
  /\ \A i \in 1 .. Len(l) :
       Moves(l[i].call, st[i - 1], st[i], sizes) /\ l[i].at = st[i].at

(* They go to place s.                                                       *)
Reaches(l, s, sizes) == \E st : Simulates(l, st, sizes) /\ st[Len(l)] = s

OneMore(l, call, at) == Append(l, [call |-> call, at |-> at])

(* The calls of l so far are those of m.                                     *)
SameSoFar(l, m) == Len(l) <= Len(m) /\ \A i \in 1 .. Len(l) : l[i].call = m[i].call

Longer(more, sizes) ==
  /\ more \in Seq(Nat) /\ Len(sizes) <= Len(more)
  /\ \A i \in 1 .. Len(sizes) : more[i] = sizes[i]
-----------------------------------------------------------------------------
LEMMA FirstIsOne ==
  ASSUME NEW sizes \in Seq(Nat), NEW cur \in Nat, NEW len \in Nat,
         NEW b \in Nat, FirstFitting(b, cur, len, sizes),
         NEW c \in Nat, FirstFitting(c, cur, len, sizes)
  PROVE  b = c
  <1>1. Len(sizes) \in Nat /\ \A i \in 1 .. Len(sizes) : sizes[i] \in Nat
    BY ElementOfSeq, LenProperties
  <1>2. \A x, y \in Nat : FirstFitting(x, cur, len, sizes) /\ FirstFitting(y, cur, len, sizes)
                            => ~(x < y)
    <2> SUFFICES ASSUME NEW x \in Nat, NEW y \in Nat, FirstFitting(x, cur, len, sizes),
                        FirstFitting(y, cur, len, sizes), x < y
                 PROVE  FALSE
      OBVIOUS
    <2>1. x \in cur + 1 .. y - 1 /\ x + 1 \in 1 .. Len(sizes)
      BY <1>1 DEF FirstFitting
    <2>2. sizes[x + 1] < len /\ sizes[x + 1] >= len
      BY <2>1 DEF FirstFitting
    <2> QED
      BY <1>1, <2>1, <2>2
  <1>3. ~(b < c) /\ ~(c < b)
    BY <1>2
  <1> QED
    BY <1>3

(* A call has one outcome.                                                   *)
LEMMA MovesOneWay ==
  ASSUME NEW sizes \in Seq(Nat), NEW call, NEW s \in Place, NEW t \in Place,
         NEW u \in Place, Moves(call, s, t, sizes), Moves(call, s, u, sizes)
  PROVE  t = u
  <1>1. SUFFICES t.at = u.at /\ t.marks = u.marks
    BY DEF Place
  <1>2. \A len : <<"alloc", len>> # <<"start">> /\ <<"alloc", len>> # <<"recover">>
    OBVIOUS
  <1>3. <<"start">> # <<"recover">> /\ \A l, m : <<"alloc", l>> = <<"alloc", m>> => l = m
    OBVIOUS
  <1>4. CASE call = <<"start">>
    BY <1>2, <1>3, <1>4 DEF Moves, Starts
  <1>5. CASE call = <<"recover">>
    BY <1>2, <1>3, <1>5 DEF Moves, Recovers
  <1>6. ASSUME NEW len \in Lens, call = <<"alloc", len>>
        PROVE  t.at = u.at /\ t.marks = u.marks
    <2>1. Allocates(len, s, t, sizes) /\ Allocates(len, s, u, sizes)
      BY <1>2, <1>3, <1>6 DEF Moves
    <2>2. t.marks = u.marks
      BY <2>1 DEF Allocates
    <2>3. CASE InBlock(s.at, len, t.at, sizes)
      BY <2>1, <2>2, <2>3 DEF Allocates, InBlock, NextBlock
    <2>4. CASE NextBlock(s.at, len, t.at, sizes)
      <3>1. NextBlock(s.at, len, u.at, sizes)
        BY <2>1, <2>4 DEF Allocates, InBlock, NextBlock
      <3>2. PICK b \in Nat : FirstFitting(b, s.at.blk, len, sizes)
                             /\ t.at = [blk |-> b, off |-> len]
        BY <2>4 DEF NextBlock
      <3>3. PICK c \in Nat : FirstFitting(c, s.at.blk, len, sizes)
                             /\ u.at = [blk |-> c, off |-> len]
        BY <3>1 DEF NextBlock
      <3>4. s.at.blk \in Nat /\ len \in Nat
        BY StackAllocAssumption DEF Place, Pointer
      <3>5. b = c
        BY <3>2, <3>3, <3>4, FirstIsOne
      <3> QED
        BY <2>2, <3>2, <3>3, <3>5
    <2> QED
      BY <2>1, <2>3, <2>4 DEF Allocates
  <1> QED
    BY <1>4, <1>5, <1>6 DEF Moves

(* More blocks behind the others change nothing.                             *)
LEMMA MovesStay ==
  ASSUME NEW sizes \in Seq(Nat), NEW more, Longer(more, sizes),
         NEW call, NEW s \in Place, NEW t \in Place, Moves(call, s, t, sizes)
  PROVE  Moves(call, s, t, more)
  <1>1. Len(sizes) \in Nat /\ Len(more) \in Nat
    BY LenProperties DEF Longer
  <1>2. ASSUME NEW len \in Lens, Allocates(len, s, t, sizes)
        PROVE  Allocates(len, s, t, more)
    <2>1. PICK p, q : p = s.at /\ q = t.at
      OBVIOUS
    <2>2. p.blk \in Nat /\ p.blk < Len(sizes)
      BY <1>2, <2>1 DEF Place, Pointer, Allocates
    <2>3. more[p.blk + 1] = sizes[p.blk + 1]
      <3>1. p.blk + 1 \in 1 .. Len(sizes)
        BY <1>1, <2>2
      <3> QED
        BY <3>1 DEF Longer
    <2>4. InBlock(p, len, q, sizes) => InBlock(p, len, q, more)
      BY <2>3 DEF InBlock
    <2>5. ASSUME NEW b \in Nat, FirstFitting(b, p.blk, len, sizes)
          PROVE  FirstFitting(b, p.blk, len, more)
      <3>1. b \in p.blk + 1 .. Len(sizes) - 1 /\ Len(sizes) <= Len(more)
        BY <2>5 DEF FirstFitting, Longer
      <3>2. \A i \in p.blk + 1 .. b : more[i + 1] = sizes[i + 1]
        <4> SUFFICES ASSUME NEW i \in p.blk + 1 .. b PROVE more[i + 1] = sizes[i + 1]
          OBVIOUS
        <4>1. i + 1 \in 1 .. Len(sizes)
          BY <1>1, <2>2, <3>1
        <4> QED
          BY <4>1 DEF Longer
      <3>3. b \in p.blk + 1 .. b /\ b \in p.blk + 1 .. Len(more) - 1
            /\ \A i \in p.blk + 1 .. b - 1 : i \in p.blk + 1 .. b
        BY <1>1, <2>2, <3>1
      <3> QED
        BY <2>5, <3>2, <3>3 DEF FirstFitting
    <2>6. NextBlock(p, len, q, sizes) => NextBlock(p, len, q, more)
      BY <2>3, <2>5 DEF NextBlock
    <2>7. p.blk < Len(more)
      BY <1>1, <2>2 DEF Longer
    <2> QED
      BY <1>2, <2>1, <2>4, <2>6, <2>7 DEF Allocates
  <1> QED
    BY <1>2 DEF Moves

LEMMA SimulatesStay ==
  ASSUME NEW sizes \in Seq(Nat), NEW more, Longer(more, sizes),
         NEW l, Len(l) \in Nat, NEW st, Simulates(l, st, sizes)
  PROVE  Simulates(l, st, more)
  <1>1. ASSUME NEW i \in 1 .. Len(l)
        PROVE  Moves(l[i].call, st[i - 1], st[i], more)
    <2>1. st[i - 1] \in Place /\ st[i] \in Place
      <3>1. i - 1 \in 0 .. Len(l) /\ i \in 0 .. Len(l)
        OBVIOUS
      <3> QED
        BY <3>1 DEF Simulates
    <2>2. Moves(l[i].call, st[i - 1], st[i], sizes)
      BY DEF Simulates
    <2> QED
      BY <2>1, <2>2, MovesStay
  <1> QED
    BY <1>1 DEF Simulates

(* The same calls go through the same places.                                *)
LEMMA SimulatesOneWay ==
  ASSUME NEW sizes \in Seq(Nat), NEW l, NEW m, Len(l) \in Nat, Len(m) \in Nat,
         SameSoFar(l, m),
         NEW st, Simulates(l, st, sizes), NEW su, Simulates(m, su, sizes)
  PROVE  \A i \in 0 .. Len(l) : st[i] = su[i]
  <1>0. Len(l) <= Len(m) /\ \A i \in 1 .. Len(l) : l[i].call = m[i].call
    BY DEF SameSoFar
  <1> DEFINE T == {i \in Nat : i <= Len(l) => st[i] = su[i]}
  <1>1. 0 \in T
    BY DEF Simulates
  <1>2. ASSUME NEW i \in T
        PROVE  i + 1 \in T
    <2>1. i \in Nat /\ (i <= Len(l) => st[i] = su[i])
      OBVIOUS
    <2> HIDE DEF T
    <2> SUFFICES ASSUME i + 1 <= Len(l) PROVE st[i + 1] = su[i + 1]
      BY <2>1 DEF T
    <2>2. PICK j : j = i + 1
      OBVIOUS
    <2>3. j \in 1 .. Len(l) /\ j \in 1 .. Len(m) /\ j - 1 = i /\ i <= Len(l)
      BY <1>0, <2>1, <2>2
    <2>4. /\ i \in 0 .. Len(l) /\ j \in 0 .. Len(l)
          /\ i \in 0 .. Len(m) /\ j \in 0 .. Len(m)
      BY <1>0, <2>1, <2>3
    <2>5. st[i] \in Place /\ st[j] \in Place /\ su[j] \in Place
      BY <2>4 DEF Simulates
    <2>6. Moves(l[j].call, st[j - 1], st[j], sizes)
      BY <2>3 DEF Simulates
    <2>7. Moves(m[j].call, su[j - 1], su[j], sizes)
      BY <2>3 DEF Simulates
    <2>8. Moves(l[j].call, st[i], st[j], sizes) /\ Moves(l[j].call, st[i], su[j], sizes)
      BY <1>0, <2>1, <2>3, <2>6, <2>7
    <2>9. st[j] = su[j]
      BY <2>5, <2>8, MovesOneWay
    <2> QED
      BY <2>2, <2>9
  <1>3. T = Nat
    <2> HIDE DEF T
    <2>1. T \in SUBSET Nat
      BY DEF T
    <2> QED
      BY <1>1, <1>2, <2>1, InductionOnNat
  <1> SUFFICES ASSUME NEW i \in 0 .. Len(l) PROVE st[i] = su[i]
    OBVIOUS
  <1>4. i \in Nat /\ i <= Len(l)
    OBVIOUS
  <1>5. i \in T
    <2> HIDE DEF T
    <2> QED
      BY <1>3, <1>4
  <1> QED
    BY <1>4, <1>5

(* One call more.                                                            *)
LEMMA ReachesMore ==
  ASSUME NEW sizes \in Seq(Nat), NEW l \in Seq(Entry), NEW s, Reaches(l, s, sizes),
         NEW call \in Call, NEW t \in Place, Moves(call, s, t, sizes)
  PROVE  /\ OneMore(l, call, t.at) \in Seq(Entry)
         /\ Reaches(OneMore(l, call, t.at), t, sizes)
  <1>0. PICK st : Simulates(l, st, sizes) /\ st[Len(l)] = s
    BY DEF Reaches
  <1>1. PICK e, more : /\ e = [call |-> call, at |-> t.at] /\ more = Append(l, e)
                       /\ more = OneMore(l, call, t.at)
    BY DEF OneMore
  <1>2. e \in Entry /\ e.call = call /\ e.at = t.at
    BY <1>1 DEF Entry, Place
  <1>3. PICK n : n = Len(l)
    OBVIOUS
  <1>4. /\ n \in Nat /\ more \in Seq(Entry) /\ Len(more) = n + 1
        /\ \A i \in 1 .. n : more[i] = l[i]
        /\ more[n + 1] = e
    BY <1>1, <1>2, <1>3, PushBack, LenProperties
  <1>5. PICK su : su = [i \in 0 .. n + 1 |-> IF i <= n THEN st[i] ELSE t]
    OBVIOUS
  <1>6. /\ \A i \in 0 .. n : su[i] = st[i]
        /\ su[n + 1] = t
    BY <1>4, <1>5
  <1>7. su \in [0 .. n + 1 -> Place]
    <2>1. \A i \in 0 .. n + 1 : i <= n => i \in 0 .. n
      BY <1>4
    <2>2. \A i \in 0 .. n : st[i] \in Place
      BY <1>0, <1>3 DEF Simulates
    <2> QED
      BY <1>5, <2>1, <2>2
  <1>8. su[0] = Start
    BY <1>0, <1>4, <1>6 DEF Simulates
  <1>9. ASSUME NEW i \in 1 .. n + 1
        PROVE  Moves(more[i].call, su[i - 1], su[i], sizes) /\ more[i].at = su[i].at
    <2>1. CASE i = n + 1
      <3>1. i - 1 = n /\ n \in 0 .. n
        BY <1>4, <2>1
      <3>2. more[i].call = call /\ more[i].at = t.at /\ su[i] = t /\ su[i - 1] = st[n]
        BY <1>2, <1>4, <1>6, <2>1, <3>1
      <3> QED
        BY <1>0, <1>3, <3>2
    <2>2. CASE i # n + 1
      <3>1. i \in 1 .. n /\ i \in 0 .. n /\ i - 1 \in 0 .. n
        BY <1>4, <2>2
      <3>2. more[i] = l[i] /\ su[i] = st[i] /\ su[i - 1] = st[i - 1]
        BY <1>4, <1>6, <3>1
      <3>3. Moves(l[i].call, st[i - 1], st[i], sizes) /\ l[i].at = st[i].at
        BY <1>0, <1>3, <3>1 DEF Simulates
      <3> QED
        BY <3>2, <3>3
    <2> QED
      BY <2>1, <2>2
  <1>10. Simulates(more, su, sizes)
    BY <1>4, <1>7, <1>8, <1>9 DEF Simulates
  <1> QED
    BY <1>1, <1>4, <1>6, <1>10 DEF Reaches

LEMMA NothingSimulated ==
  ASSUME NEW sizes
  PROVE  Reaches(<<>>, Start, sizes)
  <1>1. PICK st : st = [i \in 0 .. 0 |-> Start]
    OBVIOUS
  <1>2. Start \in Place
    BY EmptySeq DEF Start, Place, Pointer
  <1>3. st \in [0 .. 0 -> Place] /\ st[0] = Start
    BY <1>1, <1>2
  <1>4. Len(<<>>) = 0 /\ 1 .. 0 = {}
    BY EmptySeq
  <1> QED
    BY <1>3, <1>4 DEF Simulates, Reaches

(* The calls of l are the first calls of m.                                  *)
LEMMA CallsOf ==
  ASSUME NEW S, NEW l \in Seq(S)
  PROVE  /\ Len(Calls(l)) = Len(l) /\ Len(l) \in Nat
         /\ \A i \in 1 .. Len(l) : Calls(l)[i] = l[i].call
         /\ \E C : Calls(l) \in Seq(C)
  <1>1. PICK n \in Nat : n = Len(l) /\ DOMAIN l = 1 .. n
    BY LenProperties
  <1>2. PICK c : c = Calls(l)
    OBVIOUS
  <1>3. c = [i \in 1 .. n |-> l[i].call]
    BY <1>1, <1>2 DEF Calls
  <1>4. PICK C : C = {l[i].call : i \in 1 .. n}
    OBVIOUS
  <1>5. c \in [1 .. n -> C]
    BY <1>3, <1>4
  <1>6. c \in Seq(C)
    BY <1>1, <1>5, SeqDef
  <1>7. Len(c) = n
    BY <1>1, <1>5, <1>6, LenProperties
  <1> QED
    BY <1>1, <1>2, <1>3, <1>6, <1>7

LEMMA PrefixAgrees ==
  ASSUME NEW S, NEW T, NEW s \in Seq(S), NEW t \in Seq(T), IsPrefix(s, t)
  PROVE  Len(s) <= Len(t) /\ \A i \in 1 .. Len(s) : s[i] = t[i]
  <1>1. PICK n \in Nat, m \in Nat : n = Len(s) /\ m = Len(t)
    BY LenProperties
  <1>2. n <= m /\ SubSeq(s, 1, n) = SubSeq(t, 1, n)
    BY <1>1 DEF IsPrefix
  <1>3. n \in 0 .. n /\ n \in 0 .. m
    BY <1>1, <1>2
  <1>4. \A i \in 1 .. n : SubSeq(s, 1, n)[i] = s[i]
    BY <1>1, <1>3, Resize
  <1>5. \A i \in 1 .. n : SubSeq(t, 1, n)[i] = t[i]
    BY <1>1, <1>3, Resize
  <1> QED
    BY <1>1, <1>2, <1>4, <1>5

LEMMA AgreesIsPrefix ==
  ASSUME NEW S, NEW s \in Seq(S), NEW t \in Seq(S), Len(s) <= Len(t),
         \A i \in 1 .. Len(s) : s[i] = t[i]
  PROVE  IsPrefix(s, t)
  <1>1. PICK n \in Nat, m \in Nat : n = Len(s) /\ m = Len(t)
    BY LenProperties
  <1>2. n \in 0 .. n /\ n \in 0 .. m
    BY <1>1
  <1>3. PICK a, b : a = SubSeq(s, 1, n) /\ b = SubSeq(t, 1, n)
    OBVIOUS
  <1>4. a \in Seq(S) /\ Len(a) = n /\ \A i \in 1 .. n : a[i] = s[i]
    BY <1>1, <1>2, <1>3, Resize
  <1>5. b \in Seq(S) /\ Len(b) = n /\ \A i \in 1 .. n : b[i] = t[i]
    BY <1>1, <1>2, <1>3, Resize
  <1>6. \A i \in 1 .. n : a[i] = b[i]
    BY <1>1, <1>4, <1>5
  <1>7. a = b
    BY <1>4, <1>5, <1>6, SeqEqual
  <1> QED
    BY <1>1, <1>3, <1>7 DEF IsPrefix

LEMMA PrefixIsSameSoFar ==
  ASSUME NEW S, NEW T, NEW l \in Seq(S), NEW m \in Seq(T), IsPrefix(Calls(l), Calls(m))
  PROVE  SameSoFar(l, m)
  <1>1. PICK C : Calls(l) \in Seq(C)
    BY CallsOf
  <1>2. PICK D : Calls(m) \in Seq(D)
    BY CallsOf
  <1>3. /\ Len(Calls(l)) <= Len(Calls(m))
        /\ \A i \in 1 .. Len(Calls(l)) : Calls(l)[i] = Calls(m)[i]
    BY <1>1, <1>2, PrefixAgrees
  <1>4. /\ Len(Calls(l)) = Len(l) /\ Len(Calls(m)) = Len(m)
        /\ Len(l) \in Nat /\ Len(m) \in Nat
    BY CallsOf
  <1>5. \A i \in 1 .. Len(l) : Calls(l)[i] = l[i].call
    BY CallsOf
  <1>6. \A i \in 1 .. Len(m) : Calls(m)[i] = m[i].call
    BY CallsOf
  <1>7. \A i \in 1 .. Len(l) : i \in 1 .. Len(m)
    BY <1>3, <1>4
  <1> QED
    BY <1>3, <1>4, <1>5, <1>6, <1>7 DEF SameSoFar

(* More calls than are logged repeat nothing.                                *)
LEMMA MoreIsNew ==
  ASSUME NEW m \in Seq(Entry)
  PROVE  /\ <<More>> \in Seq({More}) /\ ~SameSoFar(<<More>>, m)
         /\ <<More>> # <<>> /\ <<More>>[1].call = <<"more">>
  <1>1. PICK l : l = <<More>>
    OBVIOUS
  <1>2. l \in Seq({More}) /\ Len(l) = 1 /\ l[1] = More /\ l # <<>>
    BY <1>1
  <1>3. ASSUME SameSoFar(l, m)
        PROVE  FALSE
    <2>1. Len(m) \in Nat /\ 1 <= Len(m) /\ m[1].call = <<"more">>
      BY <1>2, <1>3, LenProperties DEF SameSoFar, More
    <2>2. m[1] \in Entry
      BY <2>1, ElementOfSeq
    <2>3. m[1].call \in Call
      BY <2>2 DEF Entry
    <2> QED
      BY <2>1, <2>3 DEF Call
  <1> QED
    BY <1>1, <1>2, <1>3 DEF More

Replays ==
  /\ previous \in Seq(Entry)
  /\ \/ log = <<More>>
     \/ log \in Seq(Entry) /\ Reaches(log, Current, sizes_)
  /\ \E st : Simulates(previous, st, sizes_)
  /\ SameSoFar(log, previous) => Len(blocks_) = heapBlocks

(* A call that goes on from the current place, and asks the heap only when   *)
(* there is no block to go to.                                               *)
LEMMA LoggedKeepsReplays ==
  ASSUME sizes_ \in Seq(Nat), Replays, NEW call \in Call, Logged(call),
         Longer(sizes_', sizes_), Current' \in Place,
         Moves(call, Current, Current', sizes_'),
         Len(blocks_') = Len(blocks_) \/ \A t \in Place : ~Moves(call, Current, t, sizes_)
  PROVE  Replays'
  <1>1. /\ previous \in Seq(Entry) /\ previous' = previous /\ heapBlocks' = heapBlocks
        /\ sizes_' \in Seq(Nat) /\ Len(previous) \in Nat
    BY LenProperties DEF Replays, Logged, Longer
  <1>2. PICK sp : Simulates(previous, sp, sizes_)
    BY DEF Replays
  <1>3. Simulates(previous, sp, sizes_')
    BY <1>1, <1>2, SimulatesStay
  <1>4. CASE log' = <<More>>
    <2>1. ~SameSoFar(<<More>>, previous)
      BY <1>1, MoreIsNew
    <2> QED
      BY <1>1, <1>3, <1>4, <2>1, Zenon DEF Replays
  <1>5. CASE log' # <<More>>
    <2>1. log' = OneMore(log, call, next_loc_') /\ log # <<More>>
      BY <1>1, <1>5, MoreIsNew DEF Logged, More, Overflow, OneMore
    <2>2. log \in Seq(Entry) /\ Len(log) \in Nat
      BY <2>1, LenProperties DEF Replays
    <2>3. PICK st : Simulates(log, st, sizes_) /\ st[Len(log)] = Current
      BY <2>1 DEF Replays, Reaches
    <2>4. Reaches(log, Current, sizes_')
      BY <2>2, <2>3, SimulatesStay DEF Reaches
    <2>5. PICK t \in Place : t = Current' /\ t.at = next_loc_'
      BY DEF Current
    <2>6. PICK e, n : e = [call |-> call, at |-> t.at] /\ n = Len(log)
      OBVIOUS
    <2>7. log' = Append(log, e) /\ e.call = call
      BY <2>1, <2>5, <2>6 DEF OneMore
    <2>8. Moves(call, Current, t, sizes_') /\ log' = OneMore(log, call, t.at)
      BY <2>1, <2>5
    <2>9. log' \in Seq(Entry) /\ Reaches(log', t, sizes_')
      BY <1>1, <2>2, <2>4, <2>5, <2>8, ReachesMore
    <2>10. e \in Entry
      BY <2>5, <2>6 DEF Entry, Place
    <2>11. /\ Len(log') = n + 1 /\ n \in Nat /\ log'[n + 1] = e
           /\ \A i \in 1 .. n : log'[i] = log[i]
      BY <2>2, <2>6, <2>7, <2>10, PushBack
    <2>12. ASSUME SameSoFar(log', previous)
           PROVE  Len(blocks_') = heapBlocks
      <3>1. n + 1 <= Len(previous) /\ \A i \in 1 .. n + 1 : log'[i].call = previous[i].call
        BY <2>11, <2>12 DEF SameSoFar
      <3>2. /\ n <= Len(previous) /\ n + 1 \in 1 .. n + 1 /\ n + 1 \in 1 .. Len(previous)
            /\ n \in 0 .. n /\ (n + 1) - 1 = n
            /\ \A i \in 1 .. n : i \in 1 .. n + 1
        BY <1>1, <2>11, <3>1
      <3>3. \A i \in 1 .. n : log[i].call = previous[i].call
        BY <2>11, <3>1, <3>2
      <3>4. Len(blocks_) = heapBlocks
        BY <2>6, <3>2, <3>3 DEF Replays, SameSoFar
      <3>5. st[n] = sp[n]
        <4>1. SameSoFar(log, previous)
          BY <2>6, <3>2, <3>3 DEF SameSoFar
        <4>2. Simulates(log, st, sizes_) /\ Len(log) \in Nat
          BY <2>2, <2>3
        <4>3. \A i \in 0 .. Len(log) : st[i] = sp[i]
          BY <1>1, <1>2, <4>1, <4>2, SimulatesOneWay
        <4> QED
          BY <2>6, <3>2, <4>3
      <3>6. Moves(previous[n + 1].call, sp[n], sp[n + 1], sizes_)
        BY <1>2, <3>2 DEF Simulates
      <3>7. sp[n + 1] \in Place
        <4>1. n + 1 \in 0 .. Len(previous)
          BY <3>2
        <4> QED
          BY <1>2, <4>1 DEF Simulates
      <3>8. previous[n + 1].call = call
        BY <2>7, <2>11, <3>1, <3>2
      <3>9. Moves(call, Current, sp[n + 1], sizes_)
        BY <2>3, <2>6, <3>5, <3>6, <3>8
      <3> QED
        BY <3>4, <3>7, <3>9
    <2> QED
      BY <1>1, <1>3, <2>5, <2>9, <2>12 DEF Replays
  <1> QED
    BY <1>4, <1>5

LEMMA SoundPlace ==
  ASSUME IInv, Sound
  PROVE  /\ sizes_ \in Seq(Nat) /\ Len(sizes_) \in Nat /\ Len(sizes_) = Len(blocks_)
         /\ next_loc_ \in Pointer /\ nested_next_locs_ \in Seq(Pointer)
         /\ Current \in Place
         /\ cur_block_ \in Nat /\ next_loc_.blk = cur_block_ /\ cur_block_ < Len(sizes_)
         /\ cur_block_end_.off = sizes_[cur_block_ + 1]
         /\ Longer(sizes_, sizes_)
         /\ Len(nested_next_locs_) = Depth
  <1>1. TypeOK
    BY DEF IInv
  <1>2. /\ sizes_ \in Seq(Nat) /\ next_loc_ \in Pointer /\ nested_next_locs_ \in Seq(Pointer)
        /\ Len(nested_next_locs_) = Depth
    BY <1>1 DEF TypeOK
  <1>3. Len(sizes_) \in Nat /\ Len(sizes_) = Len(blocks_)
    BY <1>2, LenProperties DEF Sound
  <1>4. GoodPosition(cur_block_, next_loc_, cur_block_end_)
    BY DEF Sound
  <1>5. /\ cur_block_ \in Nat /\ next_loc_.blk = cur_block_ /\ cur_block_ < Len(sizes_)
        /\ cur_block_end_.off = sizes_[cur_block_ + 1]
    BY <1>3, <1>4 DEF GoodPosition
  <1> QED
    BY <1>2, <1>3, <1>5 DEF Current, Place, Longer

(* A call of alloc that finds room goes on from the current place.           *)
LEMMA AllocMoves ==
  ASSUME IInv, Sound, NEW len \in Lens, AllocInBlock(len) \/ AllocReusesBlock(len)
  PROVE  /\ Moves(<<"alloc", len>>, Current, Current', sizes_)
         /\ UNCHANGED <<blocks_, sizes_>>
  <1>0. /\ sizes_ \in Seq(Nat) /\ Len(sizes_) \in Nat /\ Len(sizes_) = Len(blocks_)
        /\ next_loc_ \in Pointer
        /\ cur_block_ \in Nat /\ next_loc_.blk = cur_block_ /\ cur_block_ < Len(sizes_)
        /\ cur_block_end_.off = sizes_[cur_block_ + 1]
    BY SoundPlace
  <1>1. UNCHANGED <<blocks_, sizes_, nested_next_locs_>>
    BY DEF AllocInBlock, AllocReusesBlock, storage, marks
  <1>2. PICK p, q, past : p \in Pointer /\ p = next_loc_ /\ q = next_loc_' /\ past = Past(p, len)
    BY <1>0
  <1>3. past = Bumped(len)
    BY <1>2 DEF Past, Bumped, Pointer
  <1>4. FitsCurrent(len) <=> past.off < sizes_[p.blk + 1]
    BY <1>0, <1>2, <1>3 DEF FitsCurrent
  <1>5. InBlock(p, len, q, sizes_) \/ NextBlock(p, len, q, sizes_)
    <2>1. CASE AllocInBlock(len)
      BY <1>2, <1>3, <1>4, <2>1 DEF AllocInBlock, InBlock
    <2>2. CASE AllocReusesBlock(len)
      <3>1. PICK junk \in JunkSizes, b \in 0 .. Len(blocks_) - 1 :
              SearchStopsAt(b, len, junk) /\ EnterBlock(b, SizeAt(b, junk), len)
        BY <2>2 DEF AllocReusesBlock
      <3>2. b \in Nat /\ b > cur_block_ /\ b < Len(sizes_)
        BY <1>0, <3>1 DEF SearchStopsAt
      <3>3. \A i \in cur_block_ + 1 .. b : i < Len(sizes_)
        BY <1>0, <3>2
      <3>4. \A i \in cur_block_ + 1 .. b : SizeAt(i, junk) = sizes_[i + 1]
        BY <3>3 DEF SizeAt
      <3>5. b \in cur_block_ + 1 .. b
            /\ \A i \in cur_block_ + 1 .. b - 1 : i \in cur_block_ + 1 .. b
        BY <1>0, <3>2
      <3>6. sizes_[b + 1] >= len /\ \A i \in cur_block_ + 1 .. b - 1 : sizes_[i + 1] < len
        <4>1. /\ \A i \in cur_block_ + 1 .. b - 1 : SizeAt(i, junk) < len
              /\ SizeAt(b, junk) >= len
          BY <1>0, <3>1, <3>2 DEF SearchStopsAt
        <4> QED
          BY <3>4, <3>5, <4>1
      <3>7. FirstFitting(b, p.blk, len, sizes_)
        BY <1>0, <1>2, <3>2, <3>6 DEF FirstFitting
      <3>8. q = [blk |-> b, off |-> len]
        BY <1>2, <3>1 DEF EnterBlock
      <3>9. ~(Past(p, len).off < sizes_[p.blk + 1])
        BY <1>2, <1>4, <2>2 DEF AllocReusesBlock
      <3> QED
        BY <3>2, <3>7, <3>8, <3>9 DEF NextBlock
    <2> QED
      BY <2>1, <2>2
  <1>6. Allocates(len, Current, Current', sizes_)
    BY <1>0, <1>1, <1>2, <1>5 DEF Allocates, Current
  <1> QED
    BY <1>1, <1>6 DEF Moves

(* A call of alloc that asks the heap goes where it would go, had the block  *)
(* been there, and it would go nowhere without.                              *)
LEMMA NewBlockMoves ==
  ASSUME IInv, Sound, NEW len \in Lens, AllocNewBlock(len)
  PROVE  /\ Longer(sizes_', sizes_)
         /\ Moves(<<"alloc", len>>, Current, Current', sizes_')
         /\ \A t \in Place : ~Moves(<<"alloc", len>>, Current, t, sizes_)
  <1>0. /\ sizes_ \in Seq(Nat) /\ Len(sizes_) \in Nat /\ Len(sizes_) = Len(blocks_)
        /\ next_loc_ \in Pointer
        /\ cur_block_ \in Nat /\ next_loc_.blk = cur_block_ /\ cur_block_ < Len(sizes_)
        /\ cur_block_end_.off = sizes_[cur_block_ + 1]
    BY SoundPlace
  <1>1. PICK p, b, n : /\ p \in Pointer /\ b \in Nat
                     /\ p = next_loc_ /\ b = Len(sizes_) /\ n = NewSize(len)
    BY <1>0
  <1>2. n \in Nat /\ n >= len
    BY <1>1, NewSizeFits DEF IInv
  <1>3. PICK junk \in JunkSizes :
          SearchStopsAt(Len(blocks_), len, junk) /\ next_loc_' = [blk |-> b, off |-> len]
    BY <1>0, <1>1 DEF AllocNewBlock, EnterBlock
  <1>4. sizes_' = Append(sizes_, n) /\ nested_next_locs_' = nested_next_locs_
    BY <1>1 DEF AllocNewBlock, marks
  <1>5. /\ sizes_' \in Seq(Nat) /\ Len(sizes_') = b + 1 /\ sizes_'[b + 1] = n
        /\ \A i \in 1 .. b : sizes_'[i] = sizes_[i]
    BY <1>0, <1>1, <1>2, <1>4, PushBack
  <1>6. Longer(sizes_', sizes_)
    BY <1>1, <1>5 DEF Longer
  <1>7. ~(Past(p, len).off < sizes_[p.blk + 1])
    <2>1. Past(p, len) = Bumped(len)
      BY <1>1 DEF Past, Bumped, Pointer
    <2> QED
      BY <1>0, <1>1, <2>1 DEF AllocNewBlock, FitsCurrent
  <1>8. \A i \in p.blk + 1 .. b - 1 : sizes_[i + 1] < len
    <2>1. \A i \in p.blk + 1 .. b - 1 : SizeAt(i, junk) < len
      BY <1>0, <1>1, <1>3 DEF SearchStopsAt
    <2>2. \A i \in p.blk + 1 .. b - 1 : i < Len(sizes_)
      BY <1>0, <1>1
    <2> QED
      BY <2>1, <2>2 DEF SizeAt
  <1>9. b \in Nat /\ p.blk \in Nat /\ p.blk < b /\ p.blk + 1 \in 1 .. b
    BY <1>0, <1>1
  <1>10. NextBlock(p, len, next_loc_', sizes_')
    <2>1. \A i \in p.blk + 1 .. b - 1 : i + 1 \in 1 .. b
      BY <1>9
    <2>2. \A i \in p.blk + 1 .. b - 1 : sizes_'[i + 1] < len
      BY <1>5, <1>8, <2>1
    <2>3. b \in p.blk + 1 .. Len(sizes_') - 1
      BY <1>5, <1>9
    <2>4. FirstFitting(b, p.blk, len, sizes_')
      BY <1>2, <1>5, <2>2, <2>3 DEF FirstFitting
    <2>5. ~(Past(p, len).off < sizes_'[p.blk + 1])
      BY <1>5, <1>7, <1>9
    <2> QED
      BY <1>3, <1>9, <2>4, <2>5 DEF NextBlock
  <1>11. Allocates(len, Current, Current', sizes_')
    BY <1>1, <1>4, <1>5, <1>9, <1>10 DEF Allocates, Current
  <1>12. ASSUME NEW t \in Place, Moves(<<"alloc", len>>, Current, t, sizes_)
         PROVE  FALSE
    <2>1. Allocates(len, Current, t, sizes_)
      BY <1>12 DEF Moves
    <2>2. InBlock(p, len, t.at, sizes_) \/ NextBlock(p, len, t.at, sizes_)
      BY <1>1, <2>1 DEF Allocates, Current
    <2>3. PICK c \in Nat : FirstFitting(c, p.blk, len, sizes_)
      BY <1>7, <2>2 DEF InBlock, NextBlock
    <2>4. c \in p.blk + 1 .. b - 1 /\ sizes_[c + 1] >= len
      BY <1>1, <2>3 DEF FirstFitting
    <2>5. sizes_[c + 1] \in Nat /\ len \in Nat
      <3>1. c + 1 \in 1 .. Len(sizes_)
        BY <1>1, <1>9, <2>4
      <3> QED
        BY <1>0, <3>1, ElementOfSeq, StackAllocAssumption
    <2> QED
      BY <1>8, <2>4, <2>5
  <1> QED
    BY <1>6, <1>11, <1>12 DEF Moves

RInv == BInv /\ (failures = 0 => Replays)

LEMMA StartReplays ==
  ASSUME log = <<>>, next_loc_ = [blk |-> 0, off |-> 0], nested_next_locs_ = <<>>,
         heapBlocks = Len(blocks_),
         previous \in Seq(Entry), \E st : Simulates(previous, st, sizes_)
  PROVE  Replays
  <1>1. Current = Start
    BY DEF Current, Start
  <1>2. Reaches(<<>>, Start, sizes_)
    BY NothingSimulated
  <1>3. <<>> \in Seq(Entry)
    BY EmptySeq
  <1> QED
    BY <1>1, <1>2, <1>3, Zenon DEF Replays

LEMMA InitRInv == RInit => RInv
  <1> SUFFICES ASSUME RInit PROVE Replays
    BY InitBInv DEF RInit, RInv
  <1>1. /\ log = <<>> /\ next_loc_ = [blk |-> 0, off |-> 0] /\ nested_next_locs_ = <<>>
        /\ heapBlocks = Len(blocks_) /\ previous = <<>>
    BY DEF RInit, Init
  <1>2. previous \in Seq(Entry) /\ \E st : Simulates(previous, st, sizes_)
    BY <1>1, EmptySeq, NothingSimulated DEF Reaches
  <1> QED
    BY <1>1, <1>2, StartReplays

(* recover_all and free_all, after which the next evaluation starts.         *)
LEMMA RestartReplays ==
  ASSUME TypeOK, Depth = 0, RewindToFirstBlock, UNCHANGED marks,
         NEW remembered, Restart(remembered),
         remembered \in Seq(Entry), \E st : Simulates(remembered, st, sizes_')
  PROVE  Replays'
  <1>1. /\ log' = <<>> /\ previous' = remembered /\ heapBlocks' = Len(blocks_')
    BY DEF Restart
  <1>2. next_loc_' = [blk |-> 0, off |-> 0]
    BY DEF RewindToFirstBlock
  <1>3. nested_next_locs_' = <<>>
    <2>1. nested_next_locs_ \in Seq(Pointer) /\ Len(nested_next_locs_) = 0
      BY DEF TypeOK
    <2> QED
      BY <2>1, EmptySeq DEF marks
  <1>4. Current' = Start
    BY <1>2, <1>3 DEF Current, Start
  <1>5. Reaches(<<>>, Start, sizes_')
    BY NothingSimulated
  <1>6. <<>> \in Seq(Entry)
    BY EmptySeq
  <1> QED
    BY <1>1, <1>4, <1>5, <1>6, Zenon DEF Replays

LEMMA NextRInv == RInv /\ [RNext]_rvars => RInv'
  <1> SUFFICES ASSUME RInv, [RNext]_rvars, failures' = 0 PROVE Replays'
    <2>1. [RNext]_rvars => [Next]_vars
      BY DEF RNext, rvars, Next
    <2> QED
      BY <2>1, NextBInv DEF RInv
  <1>1. BInv' /\ IInv' /\ TypeOK' /\ IInv /\ TypeOK
    <2>1. [RNext]_rvars => [Next]_vars
      BY DEF RNext, rvars, Next
    <2> QED
      BY <2>1, NextBInv DEF RInv, BInv, IInv
  <1>2. Current' \in Place
    BY <1>1 DEF TypeOK, Current, Place
  <1>3. ASSUME failures = 0
        PROVE  /\ Replays /\ Sound /\ Longer(sizes_, sizes_) /\ Current \in Place
               /\ sizes_ \in Seq(Nat)
    BY <1>1, <1>3, SoundPlace DEF RInv, BInv
  <1>4. ASSUME NEW len \in Lens, Alloc(len), Logged(<<"alloc", len>>)
        PROVE  Replays'
    <2>1. failures = 0
      BY <1>4 DEF Alloc, AllocInBlock, AllocReusesBlock, AllocNewBlock
    <2>2. <<"alloc", len>> \in Call
      BY DEF Call
    <2>3. CASE AllocInBlock(len) \/ AllocReusesBlock(len)
      <3>1. Moves(<<"alloc", len>>, Current, Current', sizes_) /\ UNCHANGED <<blocks_, sizes_>>
        BY <1>1, <1>3, <2>1, <2>3, AllocMoves
      <3> QED
        BY <1>2, <1>3, <1>4, <2>1, <2>2, <3>1, LoggedKeepsReplays
    <2>4. CASE AllocNewBlock(len)
      <3>1. /\ Longer(sizes_', sizes_)
            /\ Moves(<<"alloc", len>>, Current, Current', sizes_')
            /\ \A t \in Place : ~Moves(<<"alloc", len>>, Current, t, sizes_)
        BY <1>1, <1>3, <2>1, <2>4, NewBlockMoves
      <3> QED
        BY <1>2, <1>3, <1>4, <2>1, <2>2, <3>1, LoggedKeepsReplays
    <2> QED
      BY <1>4, <2>3, <2>4 DEF Alloc
  <1>5. ASSUME NEW len \in Lens, AllocThrows(len)
        PROVE  FALSE
    BY <1>1, <1>5 DEF AllocThrows, TypeOK
  <1>6. ASSUME StartNested, Logged(<<"start">>)
        PROVE  Replays'
    <2>1. /\ failures = 0 /\ UNCHANGED <<blocks_, sizes_, next_loc_>>
          /\ nested_next_locs_' = Append(nested_next_locs_, next_loc_)
      BY <1>6 DEF StartNested, storage, positions
    <2>2. Moves(<<"start">>, Current, Current', sizes_')
      BY <2>1 DEF Moves, Starts, Current
    <2>3. <<"start">> \in Call
      BY DEF Call
    <2> QED
      BY <1>2, <1>3, <1>6, <2>1, <2>2, <2>3, LoggedKeepsReplays
  <1>7. ASSUME RecoverNested, Logged(<<"recover">>)
        PROVE  Replays'
    <2>1. /\ failures = 0 /\ UNCHANGED <<blocks_, sizes_>>
          /\ next_loc_' = LastOf(nested_next_locs_)
          /\ nested_next_locs_' = FrontOf(nested_next_locs_)
      BY <1>7 DEF RecoverNested, storage
    <2>2. Moves(<<"recover">>, Current, Current', sizes_')
      BY <2>1, Zenon DEF Moves, Recovers, Current
    <2>3. <<"recover">> \in Call
      BY DEF Call
    <2> QED
      BY <1>2, <1>3, <1>7, <2>1, <2>2, <2>3, LoggedKeepsReplays
  <1>8. ASSUME RecoverAll, Restart(IF Overflow THEN <<>> ELSE log)
        PROVE  Replays'
    <2>1. failures = 0 /\ sizes_' = sizes_ /\ Depth = 0 /\ RewindToFirstBlock /\ UNCHANGED marks
      BY <1>8 DEF RecoverAll, storage
    <2>2. PICK remembered : remembered = IF Overflow THEN <<>> ELSE log
      OBVIOUS
    <2>3. remembered \in Seq(Entry) /\ \E st : Simulates(remembered, st, sizes_')
      <3>1. CASE Overflow
        BY <2>2, <3>1, EmptySeq, NothingSimulated DEF Reaches
      <3>2. CASE ~Overflow
        <4>1. log # <<More>>
          BY <3>2, EmptySeq, MoreIsNew DEF Overflow
        <4>2. log \in Seq(Entry) /\ Reaches(log, Current, sizes_)
          BY <1>3, <2>1, <4>1 DEF Replays
        <4> QED
          BY <2>1, <2>2, <3>2, <4>2 DEF Reaches
      <3> QED
        BY <3>1, <3>2
    <2> QED
      BY <1>1, <1>8, <2>1, <2>2, <2>3, RestartReplays
  <1>9. ASSUME FreeAll, Restart(<<>>)
        PROVE  Replays'
    <2>1. Depth = 0 /\ RewindToFirstBlock /\ UNCHANGED marks
      BY <1>9 DEF FreeAll
    <2>2. <<>> \in Seq(Entry) /\ \E st : Simulates(<<>>, st, sizes_')
      BY EmptySeq, NothingSimulated DEF Reaches
    <2> QED
      BY <1>1, <1>9, <2>1, <2>2, RestartReplays
  <1>10. CASE UNCHANGED rvars
    <2>1. UNCHANGED <<blocks_, sizes_, next_loc_, nested_next_locs_, failures, log,
                      previous, heapBlocks>>
      BY <1>10 DEF rvars, vars, storage, positions, marks
    <2>2. Current' = Current /\ Replays
      BY <1>3, <2>1 DEF Current
    <2> QED
      BY <2>1, <2>2 DEF Replays
  <1> QED
    BY <1>4, <1>5, <1>6, <1>7, <1>8, <1>9, <1>10 DEF RNext

(* An evaluation that repeats the calls of the one before is handed the same *)
(* memory, and the heap is not asked for a block, for any number of calls,   *)
(* scopes and blocks, as long as malloc has not failed (recover_all,         *)
(* move_to_next_block, recover_nested of memory/stack_alloc.hpp).            *)
THEOREM SameCallsSameMemory == RSpec => []ReplayReusesMemory
  <1>1. ASSUME RInv PROVE ReplayReusesMemory
    <2> SUFFICES ASSUME failures = 0, IsPrefix(Calls(log), Calls(previous))
                 PROVE  IsPrefix(log, previous) /\ Len(blocks_) = heapBlocks
      BY DEF ReplayReusesMemory
    <2>1. Replays /\ Sound /\ previous \in Seq(Entry)
      BY <1>1 DEF RInv, BInv, Replays
    <2>2. log # <<More>>
      BY <2>1, PrefixIsSameSoFar, MoreIsNew
    <2>3. log \in Seq(Entry) /\ Reaches(log, Current, sizes_)
      BY <2>1, <2>2 DEF Replays
    <2>4. SameSoFar(log, previous)
      BY <2>1, <2>3, PrefixIsSameSoFar
    <2>5. PICK st : Simulates(log, st, sizes_)
      BY <2>3 DEF Reaches
    <2>6. PICK sp : Simulates(previous, sp, sizes_)
      BY <2>1 DEF Replays
    <2>7. sizes_ \in Seq(Nat) /\ Len(log) \in Nat /\ Len(previous) \in Nat
      BY <1>1, <2>1, <2>3, LenProperties DEF RInv, BInv, IInv, TypeOK
    <2>8. \A i \in 0 .. Len(log) : st[i] = sp[i]
      BY <2>4, <2>5, <2>6, <2>7, SimulatesOneWay
    <2>9. ASSUME NEW i \in 1 .. Len(log)
          PROVE  log[i] = previous[i]
      <3>1. i \in 0 .. Len(log) /\ i \in 1 .. Len(previous)
        BY <2>4, <2>7 DEF SameSoFar
      <3>2. log[i].at = st[i].at /\ previous[i].at = sp[i].at /\ st[i] = sp[i]
        BY <2>5, <2>6, <2>8, <3>1 DEF Simulates
      <3>3. log[i].call = previous[i].call
        BY <2>4 DEF SameSoFar
      <3>4. log[i] \in Entry /\ previous[i] \in Entry
        BY <2>1, <2>3, <3>1, ElementOfSeq
      <3> QED
        BY <3>2, <3>3, <3>4 DEF Entry
    <2>10. IsPrefix(log, previous)
      BY <2>1, <2>3, <2>4, <2>9, AgreesIsPrefix DEF SameSoFar
    <2> QED
      BY <2>1, <2>4, <2>10 DEF Replays
  <1> QED
    BY <1>1, InitRInv, NextRInv, PTL DEF RSpec
=============================================================================
