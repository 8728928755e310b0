---------------------------- MODULE StackAlloc ----------------------------
(***************************************************************************)
(* stan::math::stack_alloc (memory/stack_alloc.hpp): the bump allocator    *)
(* under every reverse-mode expression, a stack of heap blocks with marks  *)
(* for nested scopes.                                                      *)
(*                                                                         *)
(* A pointer is [blk, off]: byte off of the memory blocks_[blk] points to, *)
(* with the indices of the code (from 0).  The heap is external: malloc    *)
(* returns memory disjoint from every other block, or a null pointer, at   *)
(* most MaxFailures times.  Reading sizes_ at or beyond its size is        *)
(* undefined, so it yields any value of JunkSizes: after a null pointer    *)
(* was pushed without a size, blocks may be entered with a size that is    *)
(* not theirs, and what is handed out may lie outside its block.           *)
(*                                                                         *)
(* recover_all and free_all are modelled where the library calls the       *)
(* former: outside every nested scope (recover_memory throws otherwise),   *)
(* and recover_nested with a scope open (recover_memory_nested throws      *)
(* otherwise).                                                             *)
(***************************************************************************)
EXTENDS Integers, Sequences, FiniteSets

CONSTANTS
  InitialBytes,   \* constructor argument
  Lens,           \* request sizes in bytes
  JunkSizes,      \* what a read past the end of sizes_ may yield
  MaxFailures,    \* bound: how often malloc may return null
  MaxBlocks,      \* bound: entries of blocks_
  MaxDepth,       \* bound: open nested scopes
  MaxLive         \* bound: live regions

ASSUME StackAllocAssumption ==
  /\ InitialBytes \in Nat
  /\ Lens \subseteq Nat
  /\ JunkSizes \subseteq Nat
  /\ MaxFailures \in Nat
  /\ MaxBlocks \in Nat
  /\ MaxDepth \in Nat
  /\ MaxLive \in Nat

VARIABLES
  blocks_,                  \* per block: TRUE, or FALSE for a null pointer
  sizes_,
  cur_block_,
  cur_block_end_,
  next_loc_,
  nested_cur_blocks_,
  nested_next_locs_,
  nested_cur_block_ends_,
  live,                     \* history: the regions handed out and not recovered
  failures                  \* history: how often malloc returned null

positions == <<cur_block_, cur_block_end_, next_loc_>>
marks == <<nested_cur_blocks_, nested_next_locs_, nested_cur_block_ends_>>
storage == <<blocks_, sizes_>>
vars == <<storage, positions, marks, live, failures>>

Pointer == [blk : Nat, off : Nat]
Region == [blk : Nat, off : Nat, len : Lens, lvl : Nat]

Depth == Len(nested_cur_blocks_)
LastOf(s) == s[Len(s)]
FrontOf(s) == SubSeq(s, 1, Len(s) - 1)

(* Seeded bug: pads to multiples of four.                                    *)
Pad_ToFour(len) == IF len % 4 = 0 THEN 0 ELSE 4 - (len % 4)

(* pad of alloc: what brings a length up to a multiple of eight.             *)
Pad(len) == IF len % 8 = 0 THEN 0 ELSE 8 - (len % 8)

(* Seeded bug: rounds the length down instead of up.                         *)
Bumped_RoundsDown(len) == [next_loc_ EXCEPT !.off = @ + len - (len % 8)]

(* next_loc_ after the increment at the top of alloc, kept on both paths of  *)
(* alloc, the throwing one too.                                              *)
Bumped(len) == [next_loc_ EXCEPT !.off = @ + len + Pad(len)]

FitsCurrent(len) == Bumped(len).off < cur_block_end_.off

SizeAt(i, junk) == IF i < Len(sizes_) THEN sizes_[i + 1] ELSE junk

(* Seeded bug: move_to_next_block without ++cur_block_.                      *)
SearchStopsAt_StaysPut(b, len, junk) ==
  /\ b >= cur_block_
  /\ \A i \in cur_block_ .. b - 1 : SizeAt(i, junk) < len
  /\ \/ b = Len(blocks_)
     \/ b < Len(blocks_) /\ SizeAt(b, junk) >= len

(* Seeded bug: never looks at the blocks recovered earlier.                  *)
SearchStopsAt_OnlyNew(b, len, junk) == b = Len(blocks_)

(* The block the search of move_to_next_block stops at: the first one after  *)
(* cur_block_ with len bytes, or blocks_.size() when there is none.          *)
SearchStopsAt(b, len, junk) ==
  /\ b > cur_block_
  /\ \A i \in cur_block_ + 1 .. b - 1 : SizeAt(i, junk) < len
  /\ \/ b = Len(blocks_)
     \/ b < Len(blocks_) /\ SizeAt(b, junk) >= len

NewSize(len) ==
  IF 2 * LastOf(sizes_) < len THEN len ELSE 2 * LastOf(sizes_)

(* Hand out len bytes at pointer p: history only.                            *)
HandOut(p, len) ==
  live' = live \cup {[blk |-> p.blk, off |-> p.off, len |-> len, lvl |-> Depth]}
-----------------------------------------------------------------------------
Init ==
  /\ blocks_ = <<TRUE>>
  /\ sizes_ = <<InitialBytes>>
  /\ cur_block_ = 0
  /\ cur_block_end_ = [blk |-> 0, off |-> InitialBytes]
  /\ next_loc_ = [blk |-> 0, off |-> 0]
  /\ nested_cur_blocks_ = <<>>
  /\ nested_next_locs_ = <<>>
  /\ nested_cur_block_ends_ = <<>>
  /\ live = {}
  /\ failures = 0

(* alloc(len) inside the current block.                                      *)
AllocInBlock(len) ==
  /\ FitsCurrent(len)
  /\ next_loc_' = Bumped(len)
  /\ HandOut(next_loc_, len)
  /\ UNCHANGED <<storage, cur_block_, cur_block_end_, marks, failures>>

(* The last lines of move_to_next_block: start block b with len bytes.       *)
EnterBlock(b, size, len) ==
  /\ cur_block_' = b
  /\ next_loc_' = [blk |-> b, off |-> len]
  /\ cur_block_end_' = [blk |-> b, off |-> size]
  /\ HandOut([blk |-> b, off |-> 0], len)

(* alloc(len) that moves on to a block allocated earlier and recovered.      *)
AllocReusesBlock(len) ==
  /\ ~FitsCurrent(len)
  /\ \E junk \in JunkSizes, b \in 0 .. Len(blocks_) - 1 :
       /\ SearchStopsAt(b, len, junk)
       /\ EnterBlock(b, SizeAt(b, junk), len)
  /\ UNCHANGED <<storage, marks, failures>>

(* alloc(len) that has to ask the heap for a block: the result of malloc is  *)
(* pushed before it is tested, its size after; sizes_ is read last.          *)
AllocNewBlock(len) ==
  /\ ~FitsCurrent(len)
  /\ Len(blocks_) < MaxBlocks
  /\ \E junk \in JunkSizes :
       /\ SearchStopsAt(Len(blocks_), len, junk)
       /\ blocks_' = Append(blocks_, TRUE)
       /\ sizes_' = Append(sizes_, NewSize(len))
       /\ EnterBlock(Len(blocks_),
                     IF Len(blocks_) < Len(sizes_')
                     THEN sizes_'[Len(blocks_) + 1] ELSE junk, len)
  /\ UNCHANGED <<marks, failures>>

(* The same request when malloc returns null: std::bad_alloc leaves alloc    *)
(* with the null pointer pushed, cur_block_ and next_loc_ moved.             *)
AllocThrows(len) ==
  /\ ~FitsCurrent(len)
  /\ Len(blocks_) < MaxBlocks
  /\ failures < MaxFailures
  /\ \E junk \in JunkSizes : SearchStopsAt(Len(blocks_), len, junk)
  /\ blocks_' = Append(blocks_, FALSE)
  /\ cur_block_' = Len(blocks_)
  /\ next_loc_' = Bumped(len)
  /\ failures' = failures + 1
  /\ UNCHANGED <<sizes_, cur_block_end_, marks, live>>

Alloc(len) ==
  /\ Cardinality(live) < MaxLive
  /\ \/ AllocInBlock(len)
     \/ AllocReusesBlock(len)
     \/ AllocNewBlock(len)

(* Seeded bug: the end of the current block is not marked.                   *)
StartNested_ForgetsEnd ==
  /\ Depth < MaxDepth
  /\ nested_cur_blocks_' = Append(nested_cur_blocks_, cur_block_)
  /\ nested_next_locs_' = Append(nested_next_locs_, next_loc_)
  /\ UNCHANGED <<storage, positions, nested_cur_block_ends_, live, failures>>

StartNested ==
  /\ Depth < MaxDepth
  /\ nested_cur_blocks_' = Append(nested_cur_blocks_, cur_block_)
  /\ nested_next_locs_' = Append(nested_next_locs_, next_loc_)
  /\ nested_cur_block_ends_' = Append(nested_cur_block_ends_, cur_block_end_)
  /\ UNCHANGED <<storage, positions, live, failures>>

(* Seeded bug: cur_block_end_ stays where the nested scope left it.          *)
RecoverNested_KeepsEnd ==
  /\ Depth > 0
  /\ cur_block_' = LastOf(nested_cur_blocks_)
  /\ nested_cur_blocks_' = FrontOf(nested_cur_blocks_)
  /\ next_loc_' = LastOf(nested_next_locs_)
  /\ nested_next_locs_' = FrontOf(nested_next_locs_)
  /\ nested_cur_block_ends_' = FrontOf(nested_cur_block_ends_)
  /\ live' = {r \in live : r.lvl < Depth}
  /\ UNCHANGED <<cur_block_end_, storage, failures>>

RecoverNested ==
  /\ Depth > 0
  /\ cur_block_' = LastOf(nested_cur_blocks_)
  /\ nested_cur_blocks_' = FrontOf(nested_cur_blocks_)
  /\ next_loc_' = LastOf(nested_next_locs_)
  /\ nested_next_locs_' = FrontOf(nested_next_locs_)
  /\ cur_block_end_' = LastOf(nested_cur_block_ends_)
  /\ nested_cur_block_ends_' = FrontOf(nested_cur_block_ends_)
  /\ live' = {r \in live : r.lvl < Depth}
  /\ UNCHANGED <<storage, failures>>

(* The three assignments of recover_all.                                     *)
RewindToFirstBlock ==
  /\ cur_block_' = 0
  /\ next_loc_' = [blk |-> 0, off |-> 0]
  /\ cur_block_end_' = [blk |-> 0, off |-> sizes_[1]]
  /\ live' = {}

RecoverAll ==
  /\ Depth = 0
  /\ RewindToFirstBlock
  /\ UNCHANGED <<storage, marks, failures>>

FreeAll ==
  /\ Depth = 0
  /\ sizes_' = SubSeq(sizes_, 1, 1)
  /\ blocks_' = SubSeq(blocks_, 1, 1)
  /\ RewindToFirstBlock
  /\ UNCHANGED <<marks, failures>>

Next ==
  \/ \E len \in Lens : Alloc(len)
  \/ \E len \in Lens : AllocThrows(len)
  \/ StartNested
  \/ RecoverNested
  \/ RecoverAll
  \/ FreeAll

Spec == Init /\ [][Next]_vars
-----------------------------------------------------------------------------
(* Seeded bug: claims the whole current block.                               *)
InStack_WholeBlock(blk, off) == blk <= cur_block_ /\ off < sizes_[blk + 1]

(* in_stack for the pointer [blk, off].                                      *)
InStack(blk, off) ==
  \/ blk < cur_block_ /\ off < sizes_[blk + 1]
  \/ blk = cur_block_ /\ blk = next_loc_.blk /\ off < next_loc_.off

TypeOK ==
  /\ blocks_ \in Seq(BOOLEAN) /\ blocks_ # <<>>
  /\ sizes_ \in Seq(Nat) /\ sizes_ # <<>>
  /\ cur_block_ \in 0 .. Len(blocks_) - 1
  /\ cur_block_end_ \in Pointer
  /\ next_loc_ \in Pointer
  /\ nested_cur_blocks_ \in Seq(Nat)
  /\ nested_next_locs_ \in Seq(Pointer)
  /\ nested_cur_block_ends_ \in Seq(Pointer)
  /\ Len(nested_next_locs_) = Depth
  /\ Len(nested_cur_block_ends_) = Depth
  /\ live \subseteq Region
  /\ failures \in Nat

(* r lies in memory the heap gave: within a block malloc returned.           *)
Inside(r) ==
  /\ r.blk < Len(blocks_)
  /\ blocks_[r.blk + 1]
  /\ r.off + r.len <= sizes_[r.blk + 1]

(* r and s share no byte.  Blocks are apart as long as a region stays within *)
(* its own: one that runs past the end of its block, or that lies at a null  *)
(* pointer, may meet any other.                                              *)
Disjoint(r, s) ==
  \/ r.blk # s.blk /\ Inside(r) /\ Inside(s)
  \/ r.blk = s.blk /\ (r.off + r.len <= s.off \/ s.off + s.len <= r.off)

(* As long as malloc never failed, no two regions in use share a byte,       *)
(* whatever mix of allocations, nested scopes and recoveries came before     *)
(* (alloc, move_to_next_block, recover_nested).                              *)
NoOverlap ==
  failures = 0 => \A r, s \in live : r # s => Disjoint(r, s)

(* As long as malloc never failed, every region in use lies inside memory    *)
(* the heap gave: cur_block_end_ is the real end of the block next_loc_ is   *)
(* in, also after a mark brought both back (move_to_next_block,              *)
(* recover_nested).                                                          *)
InBounds == failures = 0 => \A r \in live : Inside(r)

(* The only source of a misaligned region is a length that is no multiple of *)
(* eight placed at the start of a block by move_to_next_block, and all       *)
(* regions after it in that block are off by the same amount.                *)
OnlyBlockStartMisaligns ==
  \A r \in live : r.off % 8 # 0 =>
    \E s \in live : /\ s.blk = r.blk /\ s.off = 0
                    /\ s.len % 8 = r.off % 8

(* in_stack follows lifetimes exactly: no byte alloc hands out was claimed   *)
(* before the call, all of them are after it, and none is once the region is *)
(* recovered (in_stack against alloc, recover_nested and recover_all).       *)
InStackFollowsLifetimes ==
  [][failures' = 0 =>
       /\ \A r \in live' \ live : \A o \in r.off .. r.off + r.len - 1 :
            ~InStack(r.blk, o) /\ InStack(r.blk, o)'
       /\ \A r \in live \ live' : \A o \in r.off .. r.off + r.len - 1 :
            ~InStack(r.blk, o)']_vars

(* The allocator implements the abstract arena: where it hands out memory    *)
(* until malloc fails, and which lifetimes a recovery ends throughout        *)
(* (alloc, start_nested, recover_nested, recover_all).                       *)
ArenaView == INSTANCE Arena WITH
  BlockIds <- Nat, depth <- Depth, failed <- failures # 0

ImplementsArena == ArenaView!Spec
=============================================================================
