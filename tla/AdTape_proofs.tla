--------------------------- MODULE AdTape_proofs ---------------------------
(***************************************************************************)
(* Proofs about the tape of one thread, for any numbers of varis, scopes,  *)
(* operands and chainable objects, with chain() opening scopes or not and  *)
(* constructors throwing or not.                                           *)
(***************************************************************************)
EXTENDS AdTapeGradient, InductionLemmas, SequenceTheorems, FiniteSetTheorems, TLAPS

(* Marks, taken one after the other, of a vector that has len elements now.  *)
Cuts(marked, len) ==
  /\ marked \in Seq(Nat)
  /\ \A k \in 1 .. Len(marked) : marked[k] \in 0 .. len
  /\ \A j, k \in 1 .. Len(marked) : j <= k => marked[j] <= marked[k]

(* A stack of varis, in the order of their addresses 1 .. n, and its marks,  *)
(* which cut it where locs cut the addresses.                                *)
StackOK(s, sizes, locs, n) ==
  /\ s \in Seq(Nat)
  /\ \A i, j \in 1 .. Len(s) : i < j => s[i] < s[j]
  /\ \A i \in 1 .. Len(s) : s[i] \in 1 .. n
  /\ Cuts(sizes, Len(s)) /\ Len(sizes) = Len(locs)
  /\ \A k \in 1 .. Len(sizes), i \in 1 .. Len(s) : i <= sizes[k] <=> s[i] <= locs[k]

(* Each vari is on one of the two stacks.                                    *)
Partition(s, t, n) ==
  RangeOf(s) \cap RangeOf(t) = {} /\ RangeOf(s) \cup RangeOf(t) = 1 .. n

TapeOK ==
  /\ varis \in Seq(Vari)
  /\ var_alloc_stack_ \in Seq(ChainableIds \cup {Freed})
  /\ StackOK(var_stack_, nested_var_stack_sizes_, nested_next_locs_, Len(varis))
  /\ StackOK(var_nochain_stack_, nested_var_nochain_stack_sizes_, nested_next_locs_,
             Len(varis))
  /\ Partition(var_stack_, var_nochain_stack_, Len(varis))
  /\ Cuts(nested_var_alloc_stack_starts_, Len(var_alloc_stack_))
  /\ Len(nested_var_alloc_stack_starts_) = Len(nested_next_locs_)
  /\ Cuts(nested_next_locs_, Len(varis))

(* The scopes on the C++ stack are at pos.                                   *)
ScopesAt(pos) ==
  /\ pos \in Seq(Nat) /\ Len(pos) = Depth
  /\ \A d, e \in 1 .. Len(pos) : d < e => pos[d] < pos[e]
  /\ \A d \in 1 .. Len(pos) : pos[d] \in DOMAIN control /\ control[pos[d]].kind = "scope"
  /\ \A k \in DOMAIN control :
       control[k].kind = "scope" => \E d \in 1 .. Len(pos) : pos[d] = k

(* The first n varis of var_stack_ are there, and are not part of a scope    *)
(* opened after frame k.                                                     *)
Keeps(pos, k, n) ==
  /\ n <= Len(var_stack_)
  /\ \A d \in 1 .. Len(pos) : k < pos[d] => n <= nested_var_stack_sizes_[d]

SweepOK(pos, k, f) ==
  /\ f = [kind |-> "grad", i |-> f.i, beginning |-> f.beginning, start |-> f.start]
  /\ f.i \in Nat /\ f.beginning \in Nat /\ f.beginning <= f.i
  /\ Keeps(pos, k, f.i)

ChainOK(pos, k, g, f) ==
  /\ g.kind = "grad" /\ Keeps(pos, k, g.i + 1)
  /\ var_stack_[g.i + 1] = f.vari

FramesAt(pos) ==
  \A k \in DOMAIN control :
    /\ control[k].kind = "grad" => SweepOK(pos, k, control[k])
    /\ control[k].kind = "chain" =>
         k - 1 \in DOMAIN control /\ ChainOK(pos, k, control[k - 1], control[k])

Frames == \E S : control \in Seq(S)

IInv ==
  /\ TapeOK
  /\ Frames
  /\ \E pos : ScopesAt(pos) /\ FramesAt(pos)
-----------------------------------------------------------------------------
(* push_back, resize to n, and pop_back with back.                           *)
LEMMA PushBack ==
  ASSUME NEW S, NEW s \in Seq(S), NEW x \in S
  PROVE  /\ Append(s, x) \in Seq(S) /\ Len(Append(s, x)) = Len(s) + 1
         /\ Len(s) \in Nat /\ DOMAIN s = 1 .. Len(s)
         /\ DOMAIN Append(s, x) = 1 .. Len(s) + 1
         /\ \A i \in 1 .. Len(s) : Append(s, x)[i] = s[i]
         /\ Append(s, x)[Len(s) + 1] = x
  BY AppendProperties, LenProperties

LEMMA Resize ==
  ASSUME NEW S, NEW s \in Seq(S), NEW n \in 0 .. Len(s)
  PROVE  /\ Truncate(s, n) \in Seq(S) /\ Len(Truncate(s, n)) = n
         /\ DOMAIN Truncate(s, n) = 1 .. n
         /\ \A i \in 1 .. n : Truncate(s, n)[i] = s[i]
  <1>1. /\ \A i \in 1 .. n : s[i] \in S
        /\ Len(s) \in Nat /\ n \in Int
    BY ElementOfSeq, LenProperties
  <1> QED
    BY <1>1, SubSeqProperties, LenProperties DEF Truncate

LEMMA PopBack ==
  ASSUME NEW S, NEW s \in Seq(S), s # <<>>
  PROVE  /\ Len(s) \in Nat \ {0}
         /\ FrontOf(s) \in Seq(S) /\ Len(FrontOf(s)) = Len(s) - 1
         /\ DOMAIN FrontOf(s) = 1 .. Len(s) - 1
         /\ \A i \in 1 .. Len(s) - 1 : FrontOf(s)[i] = s[i]
         /\ LastOf(s) = s[Len(s)] /\ LastOf(s) \in S
  <1>1. Len(s) \in Nat \ {0}
    BY EmptySeq
  <1>2. Len(s) - 1 \in 0 .. Len(s) /\ LastOf(s) \in S
    BY <1>1, ElementOfSeq DEF LastOf
  <1>3. FrontOf(s) = Truncate(s, Len(s) - 1)
    BY DEF FrontOf, Truncate
  <1> QED
    <2>1. PICK n : n = Len(s) - 1
      OBVIOUS
    <2>2. n \in 0 .. Len(s) /\ FrontOf(s) = Truncate(s, n)
      BY <1>2, <1>3, <2>1
    <2>3. /\ FrontOf(s) \in Seq(S) /\ Len(FrontOf(s)) = n /\ DOMAIN FrontOf(s) = 1 .. n
          /\ \A i \in 1 .. n : FrontOf(s)[i] = s[i]
      BY <2>2, Resize
    <2> QED
      BY <1>1, <1>2, <2>1, <2>3 DEF LastOf

(* Marks survive growth, one more mark, and a recovery to the last of them.  *)
LEMMA CutsGrow ==
  ASSUME NEW marked, NEW len \in Nat, Cuts(marked, len)
  PROVE  Cuts(marked, len + 1)
  BY DEF Cuts

LEMMA CutsMark ==
  ASSUME NEW marked, NEW len \in Nat, Cuts(marked, len)
  PROVE  Cuts(Append(marked, len), len) /\ Len(Append(marked, len)) = Len(marked) + 1
  BY PushBack DEF Cuts

LEMMA CutsBack ==
  ASSUME NEW marked, NEW len \in Nat, Cuts(marked, len), marked # <<>>
  PROVE  /\ LastOf(marked) \in 0 .. len
         /\ Cuts(FrontOf(marked), LastOf(marked))
         /\ Len(FrontOf(marked)) = Len(marked) - 1
  <1> DEFINE d == Len(marked)
             front == FrontOf(marked)
  <1>1. /\ d \in Nat \ {0} /\ front \in Seq(Nat) /\ Len(front) = d - 1
        /\ \A i \in 1 .. d - 1 : front[i] = marked[i]
        /\ LastOf(marked) = marked[d]
    BY PopBack DEF Cuts
  <1> HIDE DEF front, d
  <1>2. d \in 1 .. d /\ \A i \in 1 .. d - 1 : i \in 1 .. d /\ i <= d
    BY <1>1
  <1>3. marked[d] \in 0 .. len
    BY <1>2 DEF Cuts, d
  <1>4. \A i \in 1 .. d - 1 : marked[i] \in 0 .. len /\ marked[i] <= marked[d]
    BY <1>2 DEF Cuts, d
  <1>5. \A i \in 1 .. d - 1 : marked[i] \in 0 .. marked[d]
    BY <1>3, <1>4
  <1>6. \A j, k \in 1 .. d - 1 : j <= k => marked[j] <= marked[k]
    BY <1>2 DEF Cuts, d
  <1>7. Cuts(front, marked[d])
    BY <1>1, <1>5, <1>6 DEF Cuts
  <1> QED
    BY <1>1, <1>3, <1>7 DEF front, d

(* A vari that is placed is the last of its stack and in no scope before     *)
(* the innermost.                                                            *)
LEMMA StackKept ==
  ASSUME NEW s, NEW sizes, NEW locs, NEW n \in Nat, StackOK(s, sizes, locs, n)
  PROVE  StackOK(s, sizes, locs, n + 1)
  BY DEF StackOK

LEMMA StackPush ==
  ASSUME NEW s, NEW sizes, NEW locs, NEW n \in Nat, StackOK(s, sizes, locs, n),
         Cuts(locs, n)
  PROVE  /\ StackOK(Append(s, n + 1), sizes, locs, n + 1)
         /\ RangeOf(Append(s, n + 1)) = RangeOf(s) \cup {n + 1}
  <1> DEFINE t == Append(s, n + 1)
  <1>1. /\ t \in Seq(Nat) /\ Len(t) = Len(s) + 1 /\ Len(s) \in Nat
        /\ \A i \in 1 .. Len(s) : t[i] = s[i]
        /\ t[Len(s) + 1] = n + 1 /\ DOMAIN s = 1 .. Len(s) /\ DOMAIN t = 1 .. Len(t)
    BY PushBack DEF StackOK
  <1> HIDE DEF t
  <1>2. \A k \in 1 .. Len(sizes) : sizes[k] \in 0 .. Len(s) /\ locs[k] \in 0 .. n
    BY DEF StackOK, Cuts
  <1>3. Cuts(sizes, Len(t))
    BY <1>1, CutsGrow DEF StackOK
  <1>4. ASSUME NEW i \in 1 .. Len(t) PROVE t[i] \in 1 .. n + 1 /\ (t[i] = n + 1 <=> i = Len(t))
    <2>1. CASE i = Len(s) + 1
      BY <1>1, <2>1
    <2>2. CASE i \in 1 .. Len(s)
      <3>1. t[i] \in 1 .. n
        BY <1>1, <2>2 DEF StackOK
      <3> QED
        BY <1>1, <2>2, <3>1
    <2> QED
      BY <1>1, <2>1, <2>2
  <1>5. ASSUME NEW i \in 1 .. Len(t), NEW j \in 1 .. Len(t), i < j PROVE t[i] < t[j]
    <2>0. i \in 1 .. Len(s) /\ i # Len(t)
      BY <1>1, <1>5
    <2>1. i \in 1 .. Len(s) /\ t[i] \in 1 .. n
      BY <1>4, <2>0
    <2>2. CASE j = Len(t)
      BY <1>4, <2>1, <2>2
    <2>3. CASE j # Len(t)
      <3>1. j \in 1 .. Len(s)
        BY <1>1, <2>3
      <3> QED
        BY <1>1, <1>5, <2>1, <3>1 DEF StackOK
    <2> QED
      BY <2>2, <2>3
  <1>6. ASSUME NEW k \in 1 .. Len(sizes), NEW i \in 1 .. Len(t)
        PROVE  i <= sizes[k] <=> t[i] <= locs[k]
    <2>1. CASE i \in 1 .. Len(s)
      BY <1>1, <2>1 DEF StackOK
    <2>2. CASE i = Len(s) + 1
      <3>1. sizes[k] \in 0 .. Len(s) /\ locs[k] \in 0 .. n /\ t[i] = n + 1
        BY <1>1, <1>2, <2>2
      <3> QED
        BY <1>1, <2>2, <3>1
    <2> QED
      BY <1>1, <2>1, <2>2
  <1>7. RangeOf(t) = RangeOf(s) \cup {n + 1}
    BY <1>1 DEF RangeOf
  <1> QED
    BY <1>1, <1>3, <1>4, <1>5, <1>6, <1>7 DEF StackOK, t

(* start_nested.                                                             *)
LEMMA StackMark ==
  ASSUME NEW s, NEW sizes, NEW locs, NEW n \in Nat, StackOK(s, sizes, locs, n),
         Cuts(locs, n)
  PROVE  StackOK(s, Append(sizes, Len(s)), Append(locs, n), n)
  <1>1. Len(s) \in Nat /\ \A i \in 1 .. Len(s) : s[i] \in 1 .. n
    BY LenProperties DEF StackOK
  <1>2. /\ Cuts(Append(sizes, Len(s)), Len(s))
        /\ Len(Append(sizes, Len(s))) = Len(sizes) + 1
        /\ Len(Append(locs, n)) = Len(sizes) + 1
    BY <1>1, CutsMark DEF StackOK
  <1>3. /\ Len(sizes) \in Nat
        /\ \A k \in 1 .. Len(sizes) :
             Append(sizes, Len(s))[k] = sizes[k] /\ Append(locs, n)[k] = locs[k]
        /\ Append(sizes, Len(s))[Len(sizes) + 1] = Len(s)
        /\ Append(locs, n)[Len(sizes) + 1] = n
    BY <1>1, PushBack DEF StackOK, Cuts
  <1>4. ASSUME NEW k \in 1 .. Len(sizes) + 1, NEW i \in 1 .. Len(s)
        PROVE  i <= Append(sizes, Len(s))[k] <=> s[i] <= Append(locs, n)[k]
    <2>1. CASE k \in 1 .. Len(sizes)
      BY <1>3, <2>1 DEF StackOK
    <2>2. CASE k = Len(sizes) + 1
      <3>1. Append(sizes, Len(s))[k] = Len(s) /\ Append(locs, n)[k] = n
        BY <1>3, <2>2
      <3>2. i <= Len(s) /\ s[i] <= n
        BY <1>1
      <3> QED
        BY <3>1, <3>2
    <2>3. k \in 1 .. Len(sizes) \/ k = Len(sizes) + 1
      BY <1>3
    <2> QED
      BY <2>1, <2>2, <2>3
  <1> QED
    BY <1>2, <1>4 DEF StackOK

(* recover_nested: what remains of the stack are the varis that remain.      *)
LEMMA StackCut ==
  ASSUME NEW s, NEW sizes, NEW locs, NEW n \in Nat, StackOK(s, sizes, locs, n),
         Cuts(locs, n), locs # <<>>
  PROVE  /\ StackOK(Truncate(s, LastOf(sizes)), FrontOf(sizes), FrontOf(locs),
                    LastOf(locs))
         /\ RangeOf(Truncate(s, LastOf(sizes))) = RangeOf(s) \cap 1 .. LastOf(locs)
  <1> DEFINE m == LastOf(sizes)
             t == Truncate(s, m)
             d == Len(sizes)
  <1>1. /\ sizes # <<>> /\ d \in Nat \ {0} /\ m = sizes[d] /\ LastOf(locs) = locs[d]
        /\ LastOf(locs) \in 0 .. n
    BY EmptySeq, PopBack, CutsBack DEF StackOK, Cuts
  <1>2. /\ Len(s) \in Nat /\ m \in 0 .. Len(s) /\ Cuts(FrontOf(sizes), m)
        /\ Len(FrontOf(sizes)) = d - 1 /\ Len(FrontOf(locs)) = d - 1
        /\ DOMAIN s = 1 .. Len(s)
    BY <1>1, CutsBack, LenProperties DEF StackOK
  <1>3. /\ \A k \in 1 .. d - 1 : FrontOf(sizes)[k] = sizes[k] /\ FrontOf(locs)[k] = locs[k]
    BY <1>1, PopBack DEF StackOK, Cuts
  <1>4. /\ t \in Seq(Nat) /\ Len(t) = m /\ DOMAIN t = 1 .. m
        /\ \A i \in 1 .. m : t[i] = s[i]
    <2>1. PICK c : c = m
      OBVIOUS
    <2>2. c \in 0 .. Len(s) /\ s \in Seq(Nat)
      BY <1>2, <2>1 DEF StackOK
    <2>3. /\ Truncate(s, c) \in Seq(Nat) /\ Len(Truncate(s, c)) = c
          /\ DOMAIN Truncate(s, c) = 1 .. c
          /\ \A i \in 1 .. c : Truncate(s, c)[i] = s[i]
      BY <2>2, Resize
    <2> QED
      BY <2>1, <2>3
  <1>5. \A i \in 1 .. Len(s) : i <= m <=> s[i] <= LastOf(locs)
    BY <1>1 DEF StackOK
  <1> HIDE DEF t, m, d
  <1>6. \A i \in 1 .. m : i \in 1 .. Len(s) /\ s[i] \in 1 .. LastOf(locs)
    BY <1>1, <1>2, <1>5 DEF StackOK
  <1>7. \A k \in 1 .. d - 1, i \in 1 .. m : i <= sizes[k] <=> s[i] <= locs[k]
    BY <1>1, <1>6 DEF StackOK, d
  <1>8. RangeOf(t) = RangeOf(s) \cap 1 .. LastOf(locs)
    <2>1. \A i \in 1 .. Len(s) : s[i] \in 1 .. LastOf(locs) => i \in 1 .. m
      BY <1>1, <1>2, <1>5
    <2> QED
      BY <1>2, <1>4, <1>6, <2>1 DEF RangeOf
  <1>9. \A i, j \in 1 .. m : i < j => s[i] < s[j]
    BY <1>6 DEF StackOK
  <1>10. StackOK(t, FrontOf(sizes), FrontOf(locs), LastOf(locs))
    BY <1>2, <1>3, <1>4, <1>6, <1>7, <1>9 DEF StackOK
  <1> QED
    BY <1>8, <1>10 DEF t, m

LEMMA Lengths ==
  ASSUME TapeOK
  PROVE  /\ Len(varis) \in Nat /\ Live = 1 .. Len(varis)
         /\ Len(var_stack_) \in Nat /\ DOMAIN var_stack_ = 1 .. Len(var_stack_)
         /\ Len(var_nochain_stack_) \in Nat
         /\ DOMAIN var_nochain_stack_ = 1 .. Len(var_nochain_stack_)
         /\ Len(var_alloc_stack_) \in Nat
         /\ DOMAIN var_alloc_stack_ = 1 .. Len(var_alloc_stack_)
         /\ Depth \in Nat /\ Depth = Len(nested_next_locs_)
         /\ empty_nested <=> Depth = 0
  <1>1. /\ Len(varis) \in Nat /\ Live = 1 .. Len(varis)
        /\ Len(var_stack_) \in Nat /\ DOMAIN var_stack_ = 1 .. Len(var_stack_)
        /\ Len(var_nochain_stack_) \in Nat
        /\ DOMAIN var_nochain_stack_ = 1 .. Len(var_nochain_stack_)
        /\ Len(var_alloc_stack_) \in Nat
        /\ DOMAIN var_alloc_stack_ = 1 .. Len(var_alloc_stack_)
    BY LenProperties DEF TapeOK, StackOK, Live
  <1>2. nested_var_stack_sizes_ \in Seq(Nat) /\ Len(nested_var_stack_sizes_) = Len(nested_next_locs_)
    BY DEF TapeOK, StackOK, Cuts
  <1>3. Depth \in Nat /\ (empty_nested <=> Depth = 0)
    BY <1>2, EmptySeq, LenProperties DEF Depth, empty_nested
  <1> QED
    BY <1>1, <1>2, <1>3 DEF Depth

(* Place, with the vari on one of the stacks.                                *)
LEMMA PlaceOK ==
  ASSUME TapeOK, NEW vari \in Vari, varis' = Append(varis, vari), UNCHANGED marks,
         var_alloc_stack_' = var_alloc_stack_,
         \/ /\ var_stack_' = Append(var_stack_, Len(varis) + 1)
            /\ var_nochain_stack_' = var_nochain_stack_
         \/ /\ var_nochain_stack_' = Append(var_nochain_stack_, Len(varis) + 1)
            /\ var_stack_' = var_stack_
  PROVE  TapeOK'
  <1> DEFINE n == Len(varis)
  <1>1. /\ nested_var_stack_sizes_' = nested_var_stack_sizes_
        /\ nested_var_nochain_stack_sizes_' = nested_var_nochain_stack_sizes_
        /\ nested_var_alloc_stack_starts_' = nested_var_alloc_stack_starts_
        /\ nested_next_locs_' = nested_next_locs_
    BY DEF marks
  <1>2. varis' \in Seq(Vari) /\ Len(varis') = n + 1 /\ n \in Nat
    BY PushBack DEF TapeOK
  <1> HIDE DEF n
  <1>3. /\ StackOK(var_stack_, nested_var_stack_sizes_, nested_next_locs_, n)
        /\ StackOK(var_nochain_stack_, nested_var_nochain_stack_sizes_, nested_next_locs_, n)
        /\ Cuts(nested_next_locs_, n)
    BY DEF TapeOK, n
  <1> DEFINE Sound(t, u) ==
        /\ StackOK(t, nested_var_stack_sizes_, nested_next_locs_, n + 1)
        /\ StackOK(u, nested_var_nochain_stack_sizes_, nested_next_locs_, n + 1)
        /\ Partition(t, u, n + 1)
  <1>4. Sound(var_stack_', var_nochain_stack_')
    <2>1. /\ RangeOf(var_stack_) \cap RangeOf(var_nochain_stack_) = {}
          /\ RangeOf(var_stack_) \cup RangeOf(var_nochain_stack_) = 1 .. n
      BY DEF TapeOK, Partition, n
    <2>2. 1 .. n + 1 = 1 .. n \cup {n + 1} /\ n + 1 \notin 1 .. n
      BY <1>2
    <2>3. Sound(Append(var_stack_, n + 1), var_nochain_stack_)
      <3>1. /\ StackOK(Append(var_stack_, n + 1), nested_var_stack_sizes_, nested_next_locs_,
                       n + 1)
            /\ RangeOf(Append(var_stack_, n + 1)) = RangeOf(var_stack_) \cup {n + 1}
        BY <1>2, <1>3, StackPush
      <3>2. StackOK(var_nochain_stack_, nested_var_nochain_stack_sizes_, nested_next_locs_, n + 1)
        BY <1>2, <1>3, StackKept
      <3> QED
        BY <2>1, <2>2, <3>1, <3>2 DEF Partition
    <2>4. Sound(var_stack_, Append(var_nochain_stack_, n + 1))
      <3>1. /\ StackOK(Append(var_nochain_stack_, n + 1), nested_var_nochain_stack_sizes_,
                       nested_next_locs_, n + 1)
            /\ RangeOf(Append(var_nochain_stack_, n + 1)) = RangeOf(var_nochain_stack_) \cup {n + 1}
        BY <1>2, <1>3, StackPush
      <3>2. StackOK(var_stack_, nested_var_stack_sizes_, nested_next_locs_, n + 1)
        BY <1>2, <1>3, StackKept
      <3> QED
        BY <2>1, <2>2, <3>1, <3>2 DEF Partition
    <2> HIDE DEF Sound
    <2> QED
      BY <2>3, <2>4 DEF n
  <1>5. Cuts(nested_next_locs_, n + 1)
    BY <1>2, <1>3, CutsGrow
  <1> QED
    BY <1>1, <1>2, <1>4, <1>5 DEF TapeOK

LEMMA StartNestedOK ==
  ASSUME TapeOK, start_nested, UNCHANGED <<tape, varis>>
  PROVE  /\ TapeOK'
         /\ nested_var_stack_sizes_' = Append(nested_var_stack_sizes_, Len(var_stack_))
         /\ nested_var_stack_sizes_ \in Seq(Nat)
  <1>1. /\ var_stack_' = var_stack_ /\ var_nochain_stack_' = var_nochain_stack_
        /\ var_alloc_stack_' = var_alloc_stack_ /\ varis' = varis
    BY DEF tape
  <1>2. /\ Len(varis) \in Nat /\ Len(var_alloc_stack_) \in Nat
        /\ Cuts(nested_next_locs_, Len(varis))
        /\ Cuts(nested_var_alloc_stack_starts_, Len(var_alloc_stack_))
        /\ Len(nested_var_alloc_stack_starts_) = Len(nested_next_locs_)
    BY Lengths DEF TapeOK
  <1>3. /\ StackOK(var_stack_, nested_var_stack_sizes_', nested_next_locs_', Len(varis))
        /\ StackOK(var_nochain_stack_, nested_var_nochain_stack_sizes_', nested_next_locs_',
                   Len(varis))
    BY <1>2, StackMark DEF TapeOK, start_nested
  <1>4. /\ Cuts(nested_var_alloc_stack_starts_', Len(var_alloc_stack_))
        /\ Cuts(nested_next_locs_', Len(varis))
        /\ Len(nested_var_alloc_stack_starts_') = Len(nested_next_locs_')
    BY <1>2, CutsMark DEF start_nested
  <1> QED
    BY <1>1, <1>3, <1>4 DEF TapeOK, StackOK, Cuts, start_nested

LEMMA RecoverNestedOK ==
  ASSUME TapeOK, recover_memory_nested
  PROVE  /\ TapeOK' /\ Depth > 0
         /\ LastOf(nested_next_locs_) \in 0 .. Len(varis)
         /\ LastOf(nested_var_alloc_stack_starts_) \in 0 .. Len(var_alloc_stack_)
         /\ LastOf(nested_var_stack_sizes_) \in 0 .. Len(var_stack_)
  <1>1. /\ Depth > 0 /\ Depth = Len(nested_next_locs_) /\ Depth \in Nat
        /\ Len(varis) \in Nat /\ Len(var_alloc_stack_) \in Nat /\ Len(var_stack_) \in Nat
    BY Lengths DEF recover_memory_nested
  <1>2. /\ nested_next_locs_ # <<>> /\ nested_var_alloc_stack_starts_ # <<>>
        /\ nested_var_stack_sizes_ # <<>>
    BY <1>1, EmptySeq DEF TapeOK, StackOK
  <1>3. /\ LastOf(nested_next_locs_) \in 0 .. Len(varis)
        /\ LastOf(nested_var_alloc_stack_starts_) \in 0 .. Len(var_alloc_stack_)
        /\ LastOf(nested_var_stack_sizes_) \in 0 .. Len(var_stack_)
        /\ Cuts(FrontOf(nested_next_locs_), LastOf(nested_next_locs_))
        /\ Cuts(FrontOf(nested_var_alloc_stack_starts_), LastOf(nested_var_alloc_stack_starts_))
        /\ Len(FrontOf(nested_var_alloc_stack_starts_)) = Len(FrontOf(nested_next_locs_))
    BY <1>1, <1>2, CutsBack DEF TapeOK, StackOK
  <1>4. /\ varis' \in Seq(Vari) /\ Len(varis') = LastOf(nested_next_locs_)
    BY <1>3, Resize DEF TapeOK, recover_memory_nested, RecoverNestedArena
  <1>5. /\ var_alloc_stack_' \in Seq(ChainableIds \cup {Freed})
        /\ Len(var_alloc_stack_') = LastOf(nested_var_alloc_stack_starts_)
    <2>1. FirstNestedObject - 1 = LastOf(nested_var_alloc_stack_starts_)
      BY <1>3 DEF FirstNestedObject
    <2>2. var_alloc_stack_' = Truncate(var_alloc_stack_, LastOf(nested_var_alloc_stack_starts_))
      BY <2>1 DEF recover_memory_nested, RecoverNestedObjects
    <2> QED
      BY <1>3, <2>2, Resize DEF TapeOK
  <1>6. /\ StackOK(var_stack_', nested_var_stack_sizes_', nested_next_locs_',
                   LastOf(nested_next_locs_))
        /\ RangeOf(var_stack_') = RangeOf(var_stack_) \cap 1 .. LastOf(nested_next_locs_)
    BY <1>1, <1>2, StackCut
    DEF TapeOK, recover_memory_nested, RecoverNestedTapes, RecoverNestedArena
  <1>7. /\ StackOK(var_nochain_stack_', nested_var_nochain_stack_sizes_', nested_next_locs_',
                   LastOf(nested_next_locs_))
        /\ RangeOf(var_nochain_stack_')
             = RangeOf(var_nochain_stack_) \cap 1 .. LastOf(nested_next_locs_)
    BY <1>1, <1>2, StackCut
    DEF TapeOK, recover_memory_nested, RecoverNestedTapes, RecoverNestedArena
  <1>8. Partition(var_stack_', var_nochain_stack_', LastOf(nested_next_locs_))
    <2>1. 1 .. LastOf(nested_next_locs_) \subseteq 1 .. Len(varis)
      BY <1>1, <1>3
    <2> QED
      BY <1>6, <1>7, <2>1 DEF TapeOK, Partition
  <1>9. /\ nested_next_locs_' = FrontOf(nested_next_locs_)
        /\ nested_var_alloc_stack_starts_' = FrontOf(nested_var_alloc_stack_starts_)
    BY DEF recover_memory_nested, RecoverNestedArena, RecoverNestedObjects
  <1> QED
    BY <1>1, <1>3, <1>4, <1>5, <1>6, <1>7, <1>8, <1>9 DEF TapeOK

LEMMA RecoverOK ==
  ASSUME TapeOK, recover_memory
  PROVE  TapeOK' /\ Depth = 0
  <1>1. /\ UNCHANGED <<nested_var_stack_sizes_, nested_var_nochain_stack_sizes_,
                       nested_var_alloc_stack_starts_, nested_next_locs_>>
        /\ var_stack_' = <<>> /\ var_nochain_stack_' = <<>> /\ var_alloc_stack_' = <<>>
        /\ varis' = <<>> /\ empty_nested
    BY DEF recover_memory, marks
  <1>2. /\ Depth = 0 /\ Len(nested_var_stack_sizes_) = 0 /\ Len(nested_next_locs_) = 0
        /\ Len(nested_var_nochain_stack_sizes_) = 0
        /\ Len(nested_var_alloc_stack_starts_) = 0
    BY <1>1, Lengths DEF TapeOK, StackOK, Depth
  <1>3. /\ Len(varis') = 0 /\ varis' \in Seq(Vari) /\ Len(var_alloc_stack_') = 0
        /\ var_alloc_stack_' \in Seq(ChainableIds \cup {Freed})
        /\ Len(var_stack_') = 0 /\ Len(var_nochain_stack_') = 0
        /\ RangeOf(var_stack_') = {} /\ RangeOf(var_nochain_stack_') = {}
    BY <1>1 DEF RangeOf
  <1> QED
    BY <1>1, <1>2, <1>3 DEF TapeOK, StackOK, Cuts, Partition
-----------------------------------------------------------------------------
LEMMA FramesPush ==
  ASSUME Frames, NEW f, control' = Append(control, f)
  PROVE  /\ Frames' /\ Len(control) \in Nat /\ Len(control') = Len(control) + 1
         /\ DOMAIN control = 1 .. Len(control) /\ DOMAIN control' = 1 .. Len(control) + 1
         /\ \A k \in DOMAIN control : control'[k] = control[k]
         /\ control'[Len(control) + 1] = f
  <1>1. PICK S : control \in Seq(S)
    BY DEF Frames
  <1>2. control \in Seq(S \cup {f}) /\ f \in S \cup {f}
    BY <1>1, SeqMonotonic
  <1>3. /\ Append(control, f) \in Seq(S \cup {f}) /\ Len(control) \in Nat
        /\ Len(Append(control, f)) = Len(control) + 1
        /\ DOMAIN control = 1 .. Len(control)
        /\ DOMAIN Append(control, f) = 1 .. Len(control) + 1
        /\ \A k \in 1 .. Len(control) : Append(control, f)[k] = control[k]
        /\ Append(control, f)[Len(control) + 1] = f
    BY <1>2, PushBack
  <1>4. Frames'
    BY <1>3, Zenon DEF Frames
  <1> QED
    BY <1>3, <1>4

LEMMA FramesPop ==
  ASSUME Frames, control # <<>>, control' = FrontOf(control)
  PROVE  /\ Frames' /\ Len(control) \in Nat \ {0} /\ Top = control[Len(control)]
         /\ DOMAIN control = 1 .. Len(control) /\ DOMAIN control' = 1 .. Len(control) - 1
         /\ \A k \in DOMAIN control' : control'[k] = control[k]
  <1>1. PICK S : control \in Seq(S)
    BY DEF Frames
  <1>2. /\ FrontOf(control) \in Seq(S) /\ Len(control) \in Nat \ {0}
        /\ DOMAIN FrontOf(control) = 1 .. Len(control) - 1
        /\ \A k \in 1 .. Len(control) - 1 : FrontOf(control)[k] = control[k]
        /\ LastOf(control) = control[Len(control)]
    BY <1>1, PopBack
  <1>3. Frames'
    BY <1>2, Zenon DEF Frames
  <1>4. DOMAIN control = 1 .. Len(control) /\ Top = control[Len(control)]
    BY <1>1, <1>2, LenProperties DEF Top
  <1> QED
    BY <1>2, <1>3, <1>4, Zenon

(* control with its top frame replaced, as i moves on in the loop of grad(). *)
Turned(f) == [control EXCEPT ![Len(control)] = f]

LEMMA FramesTurn ==
  ASSUME Frames, control # <<>>, NEW f
  PROVE  /\ \E S : Turned(f) \in Seq(S)
         /\ Len(control) \in Nat \ {0} /\ Len(Turned(f)) = Len(control)
         /\ DOMAIN control = 1 .. Len(control)
         /\ \A k \in 1 .. Len(control) - 1 : Turned(f)[k] = control[k]
         /\ Turned(f)[Len(control)] = f
  <1>1. PICK S : control \in Seq(S)
    BY DEF Frames
  <1>2. /\ control \in Seq(S \cup {f}) /\ f \in S \cup {f} /\ Len(control) \in Nat \ {0}
    BY <1>1, SeqMonotonic, EmptySeq
  <1>3. PICK m, t : m = Len(control) /\ t = Turned(f)
    OBVIOUS
  <1>4. /\ m \in 1 .. m /\ \A k \in 1 .. m - 1 : k \in 1 .. m /\ k # m
    BY <1>2, <1>3
  <1>5. t = [control EXCEPT ![m] = f]
    BY <1>3 DEF Turned
  <1>6. /\ t \in Seq(S \cup {f}) /\ Len(t) = m
        /\ \A k \in 1 .. m : t[k] = IF k = m THEN f ELSE control[k]
    BY <1>2, <1>3, <1>4, <1>5, ExceptSeq
  <1>7. \E R : t \in Seq(R)
    BY <1>6, Zenon
  <1>8. DOMAIN control = 1 .. m
    BY <1>2, <1>3, LenProperties
  <1>9. (\A k \in 1 .. m - 1 : t[k] = control[k]) /\ t[m] = f
    BY <1>4, <1>6
  <1> QED
    BY <1>2, <1>3, <1>6, <1>7, <1>8, <1>9, Zenon

(* A frame stays sound when what it keeps stays.                             *)
LEMMA FrameKept ==
  ASSUME NEW pos, NEW q, FramesAt(pos), NEW k \in DOMAIN control, control'[k] = control[k],
         k - 1 \in DOMAIN control =>
           k - 1 \in DOMAIN control' /\ control'[k - 1] = control[k - 1],
         \A n \in Nat : Keeps(pos, k, n) => Keeps(q, k, n)',
         \A n \in Nat \ {0} :
           Keeps(pos, k, n) => var_stack_'[n] = var_stack_[n]
  PROVE  /\ control'[k].kind = "grad" => SweepOK(q, k, control[k])'
         /\ control'[k].kind = "chain" =>
              k - 1 \in DOMAIN control' /\ ChainOK(q, k, control[k - 1], control[k])'
  <1>1. ASSUME NEW f, SweepOK(pos, k, f) PROVE SweepOK(q, k, f)'
    BY <1>1 DEF SweepOK
  <1>2. ASSUME NEW g, NEW f, g.i \in Nat, ChainOK(pos, k, g, f) PROVE ChainOK(q, k, g, f)'
    <2>1. g.i + 1 \in Nat \ {0}
      BY <1>2
    <2> QED
      BY <1>2, <2>1 DEF ChainOK
  <1>3. CASE control[k].kind = "grad"
    BY <1>1, <1>3 DEF FramesAt
  <1>4. CASE control[k].kind = "chain"
    <2>1. k - 1 \in DOMAIN control /\ ChainOK(pos, k, control[k - 1], control[k])
      BY <1>4 DEF FramesAt
    <2>2. control[k - 1].i \in Nat
      BY <2>1 DEF FramesAt, ChainOK, SweepOK
    <2> QED
      BY <1>2, <1>4, <2>1, <2>2
  <1> QED
    BY <1>3, <1>4

(* The frames do not mind varis that are pushed.                             *)
LEMMA FramesKept ==
  ASSUME IInv, TapeOK', UNCHANGED <<control, nested_var_stack_sizes_>>,
         Len(var_stack_') >= Len(var_stack_),
         \A i \in 1 .. Len(var_stack_) : var_stack_'[i] = var_stack_[i]
  PROVE  IInv'
  <1>1. PICK pos : ScopesAt(pos) /\ FramesAt(pos)
    BY DEF IInv
  <1>2. ScopesAt(pos)'
    BY <1>1 DEF ScopesAt, Depth
  <1>3. Len(var_stack_) \in Nat /\ Len(var_stack_') \in Nat
    BY LenProperties DEF IInv, TapeOK, StackOK
  <1>4. \A k, n : n \in Nat /\ Keeps(pos, k, n) => Keeps(pos, k, n)'
    BY <1>3 DEF Keeps
  <1>5. \A k, n : n \in Nat \ {0} /\ Keeps(pos, k, n) => var_stack_'[n] = var_stack_[n]
    BY <1>3 DEF Keeps
  <1>6. FramesAt(pos)'
    BY <1>1, <1>4, <1>5, FrameKept DEF FramesAt
  <1> QED
    BY <1>2, <1>6 DEF IInv, Frames

(* A scope opened now ends before the frames below go on.                    *)
LEMMA FramesOpen ==
  ASSUME IInv, TapeOK', var_stack_' = var_stack_,
         nested_var_stack_sizes_' = Append(nested_var_stack_sizes_, Len(var_stack_)),
         control' = Append(control, [kind |-> "scope"])
  PROVE  IInv'
  <1>1. PICK pos : ScopesAt(pos) /\ FramesAt(pos)
    BY DEF IInv
  <1> DEFINE m == Len(control)
  <1>2. /\ Frames' /\ m \in Nat /\ DOMAIN control = 1 .. m /\ DOMAIN control' = 1 .. m + 1
        /\ \A k \in DOMAIN control : control'[k] = control[k]
        /\ control'[m + 1] = [kind |-> "scope"]
    BY FramesPush DEF IInv
  <1> HIDE DEF m
  <1>3. PICK q : q = Append(pos, m + 1)
    OBVIOUS
  <1>4. /\ q \in Seq(Nat) /\ Len(pos) \in Nat /\ Len(q) = Len(pos) + 1
        /\ \A d \in 1 .. Len(pos) : q[d] = pos[d]
        /\ q[Len(pos) + 1] = m + 1
    BY <1>1, <1>2, <1>3, PushBack DEF ScopesAt
  <1>4a. \A d \in 1 .. Len(q) : d \in 1 .. Len(pos) \/ d = Len(pos) + 1
    BY <1>4
  <1>5. /\ Len(var_stack_) \in Nat /\ nested_var_stack_sizes_ \in Seq(Nat)
        /\ Len(pos) = Len(nested_var_stack_sizes_)
    BY <1>1, LenProperties DEF IInv, TapeOK, StackOK, Cuts, ScopesAt, Depth
  <1>6. /\ Len(nested_var_stack_sizes_') = Len(q)
        /\ \A d \in 1 .. Len(pos) : nested_var_stack_sizes_'[d] = nested_var_stack_sizes_[d]
        /\ nested_var_stack_sizes_'[Len(pos) + 1] = Len(var_stack_)
    BY <1>4, <1>5, PushBack
  <1>7. ScopesAt(q)'
    <2>1. \A d \in 1 .. Len(pos) : pos[d] \in 1 .. m /\ control[pos[d]].kind = "scope"
      BY <1>1, <1>2 DEF ScopesAt
    <2>2. ASSUME NEW d \in 1 .. Len(q)
          PROVE  q[d] \in 1 .. m + 1 /\ control'[q[d]].kind = "scope"
      <3>1. CASE d \in 1 .. Len(pos)
        <4>1. q[d] = pos[d] /\ pos[d] \in 1 .. m /\ control[pos[d]].kind = "scope"
          BY <1>4, <2>1, <3>1
        <4> QED
          BY <1>2, <4>1
      <3>2. CASE d = Len(pos) + 1
        BY <1>2, <1>4, <3>2
      <3> QED
        BY <1>4a, <3>1, <3>2
    <2>3. ASSUME NEW d \in 1 .. Len(q), NEW e \in 1 .. Len(q), d < e PROVE q[d] < q[e]
      <3>1. d \in 1 .. Len(pos)
        BY <1>4, <2>3
      <3>2. CASE e \in 1 .. Len(pos)
        BY <1>1, <1>4, <2>3, <3>1, <3>2 DEF ScopesAt
      <3>3. CASE e = Len(pos) + 1
        BY <1>2, <1>4, <2>1, <3>1, <3>3
      <3> QED
        BY <1>4a, <3>2, <3>3
    <2>4. ASSUME NEW k \in 1 .. m + 1, control'[k].kind = "scope"
          PROVE  \E d \in 1 .. Len(q) : q[d] = k
      <3>1. CASE k = m + 1
        BY <1>4, <3>1
      <3>2. CASE k \in 1 .. m
        <4>1. PICK d \in 1 .. Len(pos) : pos[d] = k
          BY <1>1, <1>2, <2>4, <3>2 DEF ScopesAt
        <4>2. d \in 1 .. Len(q) /\ q[d] = k
          BY <1>4, <4>1
        <4> QED
          BY <4>2
      <3> QED
        BY <1>2, <3>1, <3>2
    <2> QED
      BY <1>2, <1>4, <1>6, <2>2, <2>3, <2>4 DEF ScopesAt, Depth
  <1>8. ASSUME NEW k \in 1 .. m, NEW n \in Nat, Keeps(pos, k, n) PROVE Keeps(q, k, n)'
    <2>1. ASSUME NEW d \in 1 .. Len(q), k < q[d] PROVE n <= nested_var_stack_sizes_'[d]
      <3>1. CASE d \in 1 .. Len(pos)
        BY <1>4, <1>6, <1>8, <2>1, <3>1 DEF Keeps
      <3>2. CASE d = Len(pos) + 1
        BY <1>6, <1>8, <3>2 DEF Keeps
      <3> QED
        BY <1>4a, <3>1, <3>2
    <2> QED
      BY <1>8, <2>1 DEF Keeps
  <1>9. FramesAt(q)'
    <2> SUFFICES ASSUME NEW k \in 1 .. m + 1
                 PROVE  /\ control'[k].kind = "grad" => SweepOK(q, k, control[k])'
                        /\ control'[k].kind = "chain" =>
                             /\ k - 1 \in DOMAIN control'
                             /\ ChainOK(q, k, control[k - 1], control[k])'
      BY <1>2 DEF FramesAt
    <2>1. CASE k \in 1 .. m
      <3>1. \A j \in DOMAIN control : j \in DOMAIN control'
        BY <1>2
      <3> QED
        BY <1>1, <1>2, <1>8, <2>1, <3>1, FrameKept
    <2>2. CASE k = m + 1
      BY <1>2, <2>2
    <2> QED
      BY <1>2, <2>1, <2>2
  <1> QED
    BY <1>2, <1>7, <1>9 DEF IInv

(* So do sweeps that begin at the top.                                       *)
LEMMA FramesSweep ==
  ASSUME IInv, TapeOK', UNCHANGED <<var_stack_, nested_var_stack_sizes_>>,
         NEW b \in 0 .. Len(var_stack_), NEW x,
         control' = Append(control, [kind |-> "grad", i |-> Len(var_stack_),
                                     beginning |-> b, start |-> x])
  PROVE  IInv'
  <1>1. PICK pos : ScopesAt(pos) /\ FramesAt(pos)
    BY DEF IInv
  <1>0. PICK m, f :
          /\ m = Len(control)
          /\ f = [kind |-> "grad", i |-> Len(var_stack_), beginning |-> b, start |-> x]
    OBVIOUS
  <1>2. /\ Frames' /\ m \in Nat /\ DOMAIN control = 1 .. m /\ DOMAIN control' = 1 .. m + 1
        /\ \A k \in DOMAIN control : control'[k] = control[k]
        /\ control'[m + 1] = f
    BY <1>0, FramesPush DEF IInv
  <1>3. /\ Len(var_stack_) \in Nat /\ f.kind = "grad" /\ f.i = Len(var_stack_)
        /\ f.beginning = b /\ f.start = x
    BY <1>0, LenProperties DEF IInv, TapeOK, StackOK
  <1>4. f = [kind |-> "grad", i |-> f.i, beginning |-> f.beginning, start |-> f.start]
    BY <1>0, <1>3
  <1>5. \A d \in 1 .. Len(pos) : pos[d] \in 1 .. m /\ ~(m + 1 < pos[d])
    <2>1. \A d \in 1 .. Len(pos) : pos[d] \in 1 .. m
      BY <1>1, <1>2 DEF ScopesAt
    <2>2. \A e \in 1 .. m : ~(m + 1 < e)
      BY <1>2
    <2> QED
      BY <2>1, <2>2
  <1>6. ScopesAt(pos)'
    BY <1>1, <1>2, <1>3, <1>5 DEF ScopesAt, Depth
  <1>7. SweepOK(pos, m + 1, f)'
    BY <1>3, <1>4, <1>5 DEF SweepOK, Keeps
  <1>8. \A k, n : Keeps(pos, k, n) => Keeps(pos, k, n)'
    BY DEF Keeps
  <1>9. FramesAt(pos)'
    <2> SUFFICES ASSUME NEW k \in 1 .. m + 1
                 PROVE  /\ control'[k].kind = "grad" => SweepOK(pos, k, control[k])'
                        /\ control'[k].kind = "chain" =>
                             /\ k - 1 \in DOMAIN control'
                             /\ ChainOK(pos, k, control[k - 1], control[k])'
      BY <1>2 DEF FramesAt
    <2>1. CASE k \in 1 .. m
      <3>1. \A j \in DOMAIN control : j \in DOMAIN control'
        BY <1>2
      <3> QED
        BY <1>1, <1>2, <1>8, <2>1, <3>1, FrameKept
    <2>2. CASE k = m + 1
      BY <1>2, <1>3, <1>7, <2>2
    <2> QED
      BY <1>2, <2>1, <2>2
  <1> QED
    BY <1>2, <1>6, <1>9 DEF IInv

(* A turn of the sweep's loop, and the chain() it may call.                  *)
LEMMA FramesStep ==
  ASSUME IInv, TapeOK', Frames', UNCHANGED <<var_stack_, nested_var_stack_sizes_>>,
         NEW m \in Nat \ {0}, NEW n \in {m, m + 1}, NEW f, NEW g, NEW c,
         DOMAIN control = 1 .. m, DOMAIN control' = 1 .. n,
         control[m] = f, f.kind = "grad", f.i > f.beginning,
         g = [f EXCEPT !.i = @ - 1],
         c = [kind |-> "chain", vari |-> var_stack_[f.i]],
         control'[m] = g, n = m + 1 => control'[n] = c,
         \A k \in 1 .. m - 1 : control'[k] = control[k]
  PROVE  IInv'
  <1>1. PICK pos : ScopesAt(pos) /\ FramesAt(pos)
    BY DEF IInv
  <1>2. SweepOK(pos, m, f)
    BY <1>1 DEF FramesAt
  <1>3. /\ f.i \in Nat /\ f.beginning \in Nat /\ g.kind = "grad" /\ g.i = f.i - 1
        /\ g.beginning = f.beginning /\ g.start = f.start
        /\ g = [kind |-> "grad", i |-> g.i, beginning |-> g.beginning, start |-> g.start]
    BY <1>2 DEF SweepOK
  <1>4. \A d \in 1 .. Len(pos) : pos[d] \in 1 .. m - 1 /\ control[pos[d]].kind = "scope"
    <2>1. \A d \in 1 .. Len(pos) : pos[d] \in 1 .. m /\ control[pos[d]].kind = "scope"
      BY <1>1 DEF ScopesAt
    <2>2. \A k \in 1 .. m : k = m \/ k \in 1 .. m - 1
      OBVIOUS
    <2>3. \A d \in 1 .. Len(pos) : pos[d] # m
      BY <2>1
    <2> QED
      BY <2>1, <2>2, <2>3
  <1>5. \A k \in 1 .. n : k \in 1 .. m - 1 \/ k = m \/ (k = m + 1 /\ n = m + 1)
    OBVIOUS
  <1>6. ScopesAt(pos)'
    <2>1. \A d \in 1 .. Len(pos) : pos[d] \in 1 .. n /\ control'[pos[d]].kind = "scope"
      BY <1>4
    <2>2. ASSUME NEW k \in 1 .. n, control'[k].kind = "scope"
          PROVE  \E d \in 1 .. Len(pos) : pos[d] = k
      <3>1. k \in 1 .. m - 1
        BY <1>3, <1>5, <2>2
      <3>2. k \in 1 .. m
        BY <3>1
      <3> QED
        BY <1>1, <2>2, <3>1, <3>2 DEF ScopesAt
    <2> QED
      BY <1>1, <2>1, <2>2 DEF ScopesAt, Depth
  <1>7. \A k, h : Keeps(pos, k, h) => Keeps(pos, k, h)'
    BY DEF Keeps
  <1>8. /\ \A d \in 1 .. Len(pos) : ~(m < pos[d]) /\ ~(m + 1 < pos[d])
        /\ Len(var_stack_) \in Nat
    <2>1. Len(var_stack_) \in Nat
      BY Lengths DEF IInv
    <2> QED
      BY <1>4, <2>1
  <1>9. SweepOK(pos, m, g)'
    BY <1>2, <1>3, <1>8 DEF SweepOK, Keeps
  <1>10. ChainOK(pos, m + 1, g, c)'
    BY <1>2, <1>3, <1>8 DEF SweepOK, ChainOK, Keeps
  <1>11. FramesAt(pos)'
    <2> SUFFICES ASSUME NEW k \in 1 .. n
                 PROVE  /\ control'[k].kind = "grad" => SweepOK(pos, k, control[k])'
                        /\ control'[k].kind = "chain" =>
                             /\ k - 1 \in DOMAIN control'
                             /\ ChainOK(pos, k, control[k - 1], control[k])'
      BY DEF FramesAt
    <2>1. CASE k \in 1 .. m - 1
      <3>1. /\ k \in DOMAIN control
            /\ k - 1 \in DOMAIN control =>
                 k - 1 \in DOMAIN control' /\ control'[k - 1] = control[k - 1]
        BY <2>1
      <3> QED
        BY <1>1, <1>7, <2>1, <3>1, FrameKept
    <2>2. CASE k = m
      BY <1>3, <1>9, <2>2
    <2>3. CASE k = m + 1 /\ n = m + 1
      <3>1. k - 1 = m /\ k - 1 \in DOMAIN control' /\ c.kind = "chain" /\ control'[k] = c
        BY <2>3
      <3> QED
        BY <1>10, <2>3, <3>1
    <2> QED
      BY <1>5, <2>1, <2>2, <2>3
  <1> QED
    BY <1>6, <1>11 DEF IInv

(* A sweep or chain() ends.                                                  *)
LEMMA FramesReturn ==
  ASSUME IInv, TapeOK', UNCHANGED <<var_stack_, nested_var_stack_sizes_>>,
         control # <<>>, Top.kind # "scope", control' = FrontOf(control)
  PROVE  IInv'
  <1>1. PICK pos : ScopesAt(pos) /\ FramesAt(pos)
    BY DEF IInv
  <1> DEFINE m == Len(control)
  <1>2. /\ Frames' /\ m \in Nat \ {0} /\ Top = control[m]
        /\ DOMAIN control = 1 .. m /\ DOMAIN control' = 1 .. m - 1
        /\ \A k \in DOMAIN control' : control'[k] = control[k]
    BY FramesPop DEF IInv
  <1> HIDE DEF m
  <1>3. \A k \in 1 .. m : k = m \/ k \in 1 .. m - 1
    BY <1>2
  <1>4. \A d \in 1 .. Len(pos) : pos[d] \in 1 .. m - 1 /\ control[pos[d]].kind = "scope"
    BY <1>1, <1>2, <1>3 DEF ScopesAt
  <1>5. \A k \in 1 .. m - 1 : k \in 1 .. m
    BY <1>2
  <1>6. ScopesAt(pos)'
    <2>1. \A d \in 1 .. Len(pos) : control'[pos[d]].kind = "scope"
      BY <1>2, <1>4
    <2>2. \A k \in 1 .. m - 1 :
            control'[k].kind = "scope" => \E d \in 1 .. Len(pos) : pos[d] = k
      BY <1>1, <1>2, <1>5 DEF ScopesAt
    <2> QED
      BY <1>1, <1>2, <1>4, <2>1, <2>2 DEF ScopesAt, Depth
  <1>7. \A k, h : Keeps(pos, k, h) => Keeps(pos, k, h)'
    BY DEF Keeps
  <1>8. FramesAt(pos)'
    <2> SUFFICES ASSUME NEW k \in 1 .. m - 1
                 PROVE  /\ control'[k].kind = "grad" => SweepOK(pos, k, control[k])'
                        /\ control'[k].kind = "chain" =>
                             /\ k - 1 \in DOMAIN control'
                             /\ ChainOK(pos, k, control[k - 1], control[k])'
      BY <1>2 DEF FramesAt
    <2>1. k - 1 \in 1 .. m => k - 1 \in 1 .. m - 1
      BY <1>2
    <2> QED
      BY <1>1, <1>2, <1>5, <1>7, <2>1, FrameKept
  <1> QED
    BY <1>2, <1>6, <1>8 DEF IInv

(* A scope ends: the frames below it keep what they had when it was opened.  *)
LEMMA FramesClose ==
  ASSUME IInv, TapeOK', Depth > 0, control # <<>>, Top.kind = "scope",
         control' = FrontOf(control),
         LastOf(nested_var_stack_sizes_) \in 0 .. Len(var_stack_),
         var_stack_' = Truncate(var_stack_, LastOf(nested_var_stack_sizes_)),
         nested_var_stack_sizes_' = FrontOf(nested_var_stack_sizes_)
  PROVE  IInv'
  <1>1. PICK pos : ScopesAt(pos) /\ FramesAt(pos)
    BY DEF IInv
  <1> DEFINE m == Len(control)
             n == Len(pos)
  <1>2. /\ Frames' /\ m \in Nat \ {0} /\ Top = control[m]
        /\ DOMAIN control = 1 .. m /\ DOMAIN control' = 1 .. m - 1
        /\ \A k \in DOMAIN control' : control'[k] = control[k]
    BY FramesPop DEF IInv
  <1>3. PICK q : q = FrontOf(pos)
    OBVIOUS
  <1>4. /\ n \in Nat \ {0} /\ n = Depth /\ q \in Seq(Nat) /\ Len(q) = n - 1
        /\ \A d \in 1 .. n - 1 : q[d] = pos[d]
    <2>1. pos \in Seq(Nat) /\ Len(pos) = Depth /\ pos # <<>>
      BY <1>1, EmptySeq DEF ScopesAt
    <2> QED
      BY <1>3, <2>1, PopBack
  <1>5. /\ nested_var_stack_sizes_ \in Seq(Nat) /\ nested_var_stack_sizes_ # <<>>
        /\ n = Len(nested_var_stack_sizes_)
    BY <1>4, EmptySeq DEF IInv, TapeOK, StackOK, Cuts, Depth
  <1>6. /\ Len(nested_var_stack_sizes_') = n - 1
        /\ \A d \in 1 .. n - 1 : nested_var_stack_sizes_'[d] = nested_var_stack_sizes_[d]
        /\ LastOf(nested_var_stack_sizes_) = nested_var_stack_sizes_[n]
    BY <1>5, PopBack
  <1>7. /\ Len(var_stack_') = nested_var_stack_sizes_[n]
        /\ \A i \in 1 .. nested_var_stack_sizes_[n] : var_stack_'[i] = var_stack_[i]
        /\ nested_var_stack_sizes_[n] \in 0 .. Len(var_stack_) /\ Len(var_stack_) \in Nat
    <2>1. var_stack_ \in Seq(Nat) /\ Len(var_stack_) \in Nat
      BY LenProperties DEF IInv, TapeOK, StackOK
    <2>2. PICK c : c = nested_var_stack_sizes_[n]
      OBVIOUS
    <2>3. c \in 0 .. Len(var_stack_) /\ var_stack_' = Truncate(var_stack_, c)
      BY <1>6, <2>2
    <2>4. Len(var_stack_') = c /\ \A i \in 1 .. c : var_stack_'[i] = var_stack_[i]
      BY <2>1, <2>3, Resize
    <2> QED
      BY <2>1, <2>2, <2>3, <2>4
  <1> HIDE DEF m, n
  <1>8. \A d \in 1 .. n : pos[d] \in 1 .. m /\ control[pos[d]].kind = "scope"
    BY <1>1, <1>2 DEF ScopesAt, n
  <1>9. n \in 1 .. n /\ \A d \in 1 .. n - 1 : d \in 1 .. n /\ d < n
    BY <1>4
  <1>10. pos[n] = m
    <2>1. PICK d \in 1 .. n : pos[d] = m
      <3>1. m \in DOMAIN control /\ control[m].kind = "scope"
        BY <1>2
      <3> QED
        BY <1>1, <3>1 DEF ScopesAt, n
    <2>2. d # n => pos[d] < pos[n]
      BY <1>1, <1>4, <1>9 DEF ScopesAt, n
    <2>3. pos[n] \in 1 .. m
      BY <1>8, <1>9
    <2> QED
      BY <1>2, <2>1, <2>2, <2>3
  <1>11. \A d \in 1 .. n - 1 : pos[d] \in 1 .. m - 1
    <2> TAKE d \in 1 .. n - 1
    <2>1. pos[d] < pos[n] /\ pos[d] \in 1 .. m
      BY <1>1, <1>8, <1>9 DEF ScopesAt, n
    <2> QED
      BY <1>2, <1>10, <2>1
  <1>12. \A k \in 1 .. m - 1 : k \in 1 .. m /\ k < m
    BY <1>2
  <1>13. ScopesAt(q)'
    <2>1. ASSUME NEW d \in 1 .. n - 1
          PROVE  q[d] \in 1 .. m - 1 /\ control'[q[d]].kind = "scope"
      <3>1. q[d] = pos[d] /\ pos[d] \in 1 .. m - 1 /\ control[pos[d]].kind = "scope"
        BY <1>4, <1>8, <1>9, <1>11
      <3> QED
        BY <1>2, <3>1
    <2>2. \A d, e \in 1 .. n - 1 : d < e => q[d] < q[e]
      BY <1>1, <1>4, <1>9 DEF ScopesAt, n
    <2>3. ASSUME NEW k \in 1 .. m - 1, control'[k].kind = "scope"
          PROVE  \E d \in 1 .. n - 1 : q[d] = k
      <3>1. PICK d \in 1 .. n : pos[d] = k
        BY <1>1, <1>2, <1>12, <2>3 DEF ScopesAt, n
      <3>2. d # n
        BY <1>10, <1>12, <3>1
      <3>3. d \in 1 .. n - 1
        BY <1>4, <3>1, <3>2
      <3> QED
        BY <1>4, <3>1, <3>3
    <2> QED
      BY <1>2, <1>4, <1>6, <2>1, <2>2, <2>3 DEF ScopesAt, Depth
  <1>14. ASSUME NEW k \in 1 .. m - 1, NEW i \in Nat, Keeps(pos, k, i)
         PROVE  Keeps(q, k, i)' /\ (i # 0 => var_stack_'[i] = var_stack_[i])
    <2>1. i <= nested_var_stack_sizes_[n]
      BY <1>9, <1>10, <1>12, <1>14 DEF Keeps, n
    <2>2. \A d \in 1 .. n - 1 : k < q[d] => i <= nested_var_stack_sizes_'[d]
      BY <1>4, <1>6, <1>9, <1>14 DEF Keeps, n
    <2>3. i # 0 => i \in 1 .. nested_var_stack_sizes_[n]
      BY <1>7, <2>1
    <2> QED
      BY <1>4, <1>7, <2>1, <2>2, <2>3 DEF Keeps
  <1>15. FramesAt(q)'
    <2> SUFFICES ASSUME NEW k \in 1 .. m - 1
                 PROVE  /\ control'[k].kind = "grad" => SweepOK(q, k, control[k])'
                        /\ control'[k].kind = "chain" =>
                             /\ k - 1 \in DOMAIN control'
                             /\ ChainOK(q, k, control[k - 1], control[k])'
      BY <1>2 DEF FramesAt
    <2>1. k - 1 \in 1 .. m => k - 1 \in 1 .. m - 1
      BY <1>2
    <2> QED
      BY <1>1, <1>2, <1>12, <1>14, <2>1, FrameKept
  <1> QED
    BY <1>2, <1>13, <1>15 DEF IInv

(* With no frames there is nothing to keep.                                  *)
LEMMA FramesCleared ==
  ASSUME IInv, TapeOK', Depth' = 0, control = <<>>, control' = <<>>
  PROVE  IInv'
  <1>1. PICK pos : pos = <<>>
    OBVIOUS
  <1>2. pos \in Seq(Nat) /\ Len(pos) = 0 /\ DOMAIN control' = {}
    BY <1>1, EmptySeq
  <1>3. ScopesAt(pos)' /\ FramesAt(pos)'
    BY <1>2 DEF ScopesAt, FramesAt
  <1> QED
    BY <1>3 DEF IInv, Frames

(* Without a scope a client runs only at the bottom of the stack.            *)
LEMMA ClientAtBottom ==
  ASSUME IInv, Depth = 0, control = <<>> \/ TopIs("scope")
  PROVE  control = <<>>
  <1>1. PICK pos : ScopesAt(pos)
    BY DEF IInv
  <1> SUFFICES ASSUME control # <<>>, Top.kind = "scope" PROVE FALSE
    BY DEF TopIs
  <1>2. PICK S : control \in Seq(S)
    BY DEF IInv, Frames
  <1>3. Len(control) \in DOMAIN control /\ Top = control[Len(control)]
    BY <1>2, EmptySeq, LenProperties DEF Top, LastOf
  <1> QED
    BY <1>1, <1>3 DEF ScopesAt

LEMMA TapeKept ==
  ASSUME TapeOK, UNCHANGED <<tape, marks, varis>>
  PROVE  TapeOK'
  <1>1. /\ UNCHANGED <<nested_var_stack_sizes_, nested_var_nochain_stack_sizes_,
                       nested_var_alloc_stack_starts_, nested_next_locs_>>
        /\ UNCHANGED <<var_stack_, var_nochain_stack_, var_alloc_stack_, varis>>
    BY DEF tape, marks
  <1> QED
    BY <1>1 DEF TapeOK

LEMMA PlaceKeepsIInv ==
  ASSUME IInv, NEW vari \in Vari, varis' = Append(varis, vari), UNCHANGED <<marks, control>>,
         var_alloc_stack_' = var_alloc_stack_,
         \/ /\ var_stack_' = Append(var_stack_, Len(varis) + 1)
            /\ var_nochain_stack_' = var_nochain_stack_
         \/ /\ var_nochain_stack_' = Append(var_nochain_stack_, Len(varis) + 1)
            /\ var_stack_' = var_stack_
  PROVE  IInv'
  <1>1. TapeOK'
    BY PlaceOK DEF IInv
  <1>2. /\ var_stack_ \in Seq(Nat) /\ Len(var_stack_) \in Nat
        /\ Len(varis) + 1 \in Nat
    BY Lengths DEF IInv, TapeOK, StackOK
  <1>3. /\ Len(var_stack_') >= Len(var_stack_)
        /\ \A i \in 1 .. Len(var_stack_) : var_stack_'[i] = var_stack_[i]
    BY <1>2, PushBack
  <1> QED
    BY <1>1, <1>3, FramesKept DEF marks

(* An object put on var_alloc_stack_.                                        *)
LEMMA ChainableKeepsIInv ==
  ASSUME IInv, NEW c \in ChainableIds \cup {Freed},
         var_alloc_stack_' = Append(var_alloc_stack_, c),
         UNCHANGED <<var_stack_, var_nochain_stack_, marks, varis, control>>
  PROVE  IInv'
  <1>1. /\ Cuts(nested_var_alloc_stack_starts_, Len(var_alloc_stack_))
        /\ Len(var_alloc_stack_) \in Nat
        /\ var_alloc_stack_' \in Seq(ChainableIds \cup {Freed})
        /\ Len(var_alloc_stack_') = Len(var_alloc_stack_) + 1
    BY PushBack DEF IInv, TapeOK
  <1>2. Cuts(nested_var_alloc_stack_starts_, Len(var_alloc_stack_'))
    BY <1>1, CutsGrow
  <1>3. TapeOK'
    <2>1. UNCHANGED <<nested_var_stack_sizes_, nested_var_nochain_stack_sizes_,
                      nested_var_alloc_stack_starts_, nested_next_locs_>>
      BY DEF marks
    <2> QED
      BY <1>1, <1>2, <2>1 DEF IInv, TapeOK
  <1>4. Len(var_stack_) \in Nat
    BY Lengths DEF IInv
  <1> QED
    BY <1>3, <1>4, FramesKept DEF marks

(* The varis that constructors place: their chain() needs only what is there.*)
LEMMA PlacedVaris ==
  ASSUME TapeOK, heap \subseteq ChainableIds, NewVar \/ NewOp \/ NewCallback \/ NewVariThrows
  PROVE  \E vari \in Vari :
           /\ Place(vari)
           /\ vari.from \in 1 .. Len(varis) + 1
           /\ \A k \in DOMAIN vari.ops : vari.ops[k].v \in Live
           /\ vari.holds \subseteq heap
           /\ vari.built \/ NewVariThrows
  <1>1. Len(varis) + 1 \in Nat \ {0} /\ Live = 1 .. Len(varis) /\ Usable \subseteq Live
    BY Lengths DEF Usable
  <1>2. Len(varis) + 1 \in 1 .. Len(varis) + 1
    BY <1>1
  <1>3. ASSUME NEW nests \in BOOLEAN, NEW ops \in Seq(Operand),
               NEW holds \in SUBSET ChainableIds, NEW built \in BOOLEAN, NEW from \in Nat \ {0}
        PROVE  [from |-> from, ops |-> ops, nests |-> nests, holds |-> holds, built |-> built]
                 \in Vari
    BY DEF Vari
  <1>4. \A ops \in OperandLists(Usable) :
          ops \in Seq(Operand) /\ \A k \in DOMAIN ops : ops[k].v \in Live
    <2>0. Usable \subseteq Nat \ {0}
      BY <1>1
    <2>1. [v : Usable, d : Partials] \subseteq Operand
      BY <2>0 DEF Operand
    <2> TAKE ops \in OperandLists(Usable)
    <2>2. PICK n \in 1 .. MaxOperands : ops \in [1 .. n -> [v : Usable, d : Partials]]
      BY DEF OperandLists
    <2>3. n \in Nat /\ ops \in [1 .. n -> Operand]
      BY <2>1, <2>2
    <2>4. \A k \in DOMAIN ops : ops[k].v \in Live
      BY <1>1, <2>2
    <2> QED
      BY <2>3, <2>4, SeqDef
  <1>5. CASE NewVar
    <2> DEFINE vari == [from |-> Len(varis) + 1, ops |-> <<>>, nests |-> FALSE,
                        holds |-> {}, built |-> TRUE]
    <2>1. Place(vari)
      BY <1>5 DEF NewVar
    <2>2. <<>> \in Seq(Operand) /\ DOMAIN <<>> = {}
      OBVIOUS
    <2>3. vari \in Vari
      BY <1>1, <1>3, <2>2
    <2> QED
      BY <1>2, <1>5, <2>1, <2>2, <2>3
  <1>8. CASE NewVariThrows
    <2> DEFINE vari == [from |-> Len(varis) + 1, ops |-> <<>>, nests |-> FALSE,
                        holds |-> {}, built |-> FALSE]
    <2>1. Place(vari)
      BY <1>8 DEF NewVariThrows
    <2>2. <<>> \in Seq(Operand) /\ DOMAIN <<>> = {}
      OBVIOUS
    <2>3. vari \in Vari
      BY <1>1, <1>3, <2>2
    <2> QED
      BY <1>2, <1>8, <2>1, <2>2, <2>3
  <1>6. CASE NewOp
    <2>1. PICK ops \in OperandLists(Usable), nests \in ChainNests,
               holds \in {{}} \cup {{c} : c \in heap} :
            Place([from |-> Len(varis) + 1, ops |-> ops, nests |-> nests,
                   holds |-> holds, built |-> TRUE])
      BY <1>6 DEF NewOp
    <2> DEFINE vari == [from |-> Len(varis) + 1, ops |-> ops, nests |-> nests,
                        holds |-> holds, built |-> TRUE]
    <2>2. /\ ops \in Seq(Operand) /\ nests \in BOOLEAN /\ holds \in SUBSET ChainableIds
          /\ holds \subseteq heap /\ \A k \in DOMAIN ops : ops[k].v \in Live
      BY <1>4, AdTapeAssumption
    <2>3. vari \in Vari
      BY <1>1, <1>3, <2>2
    <2> QED
      BY <1>2, <2>1, <2>2, <2>3
  <1>7. CASE NewCallback
    <2>1. PICK ops \in OperandLists(Usable \ {Len(varis)}) :
            Place([from |-> Len(varis), ops |-> ops, nests |-> FALSE,
                   holds |-> {}, built |-> TRUE])
      BY <1>7 DEF NewCallback
    <2> DEFINE vari == [from |-> Len(varis), ops |-> ops, nests |-> FALSE,
                        holds |-> {}, built |-> TRUE]
    <2>2. ops \in OperandLists(Usable)
      BY DEF OperandLists
    <2>3. /\ ops \in Seq(Operand) /\ \A k \in DOMAIN ops : ops[k].v \in Live
          /\ Len(varis) \in Nat \ {0} /\ Len(varis) \in 1 .. Len(varis) + 1
      BY <1>1, <1>4, <1>7, <2>2 DEF NewCallback
    <2>4. vari \in Vari
      BY <1>3, <2>3
    <2> QED
      BY <2>1, <2>3, <2>4
  <1> QED
    BY <1>5, <1>6, <1>7, <1>8

LEMMA BuildOK ==
  ASSUME IInv, heap \subseteq ChainableIds, Build
  PROVE  IInv'
  <1>1. CASE NewVar \/ NewOp \/ NewCallback \/ NewVariThrows
    <2>1. PICK vari \in Vari : Place(vari)
      BY <1>1, PlacedVaris DEF IInv
    <2>2. /\ varis' = Append(varis, vari) /\ UNCHANGED <<marks, control>>
          /\ var_alloc_stack_' = var_alloc_stack_
          /\ \/ /\ var_stack_' = Append(var_stack_, Len(varis) + 1)
                /\ var_nochain_stack_' = var_nochain_stack_
             \/ /\ var_nochain_stack_' = Append(var_nochain_stack_, Len(varis) + 1)
                /\ var_stack_' = var_stack_
      BY <1>1, <2>1 DEF Place, NewVar, NewOp, NewCallback, NewVariThrows
    <2> QED
      BY <2>2, PlaceKeepsIInv
  <1>2. ASSUME NEW c \in ChainableIds, NewChainable(c) \/ NewChainableThrows(c)
        PROVE  IInv'
    <2>1. CASE NewChainable(c)
      BY <2>1, ChainableKeepsIInv DEF NewChainable, memory
    <2>2. CASE NewChainableThrows(c)
      BY <2>2, ChainableKeepsIInv DEF NewChainableThrows, memory
    <2> QED
      BY <1>2, <2>1, <2>2
  <1> QED
    BY <1>1, <1>2 DEF Build

LEMMA SweepKeepsIInv ==
  ASSUME IInv, Sweep
  PROVE  IInv'
  <1>1. /\ UNCHANGED <<tape, marks, varis>>
        /\ UNCHANGED <<var_stack_, nested_var_stack_sizes_>>
    BY DEF Sweep, StartSweep, SweepStep, ChainReturns, EndSweep, set_zero_all_adjoints,
           set_zero_all_adjoints_nested, memory, tape, marks
  <1>2. TapeOK'
    BY <1>1, TapeKept DEF IInv
  <1>3. Len(var_stack_) \in Nat
    BY Lengths DEF IInv
  <1>4. ASSUME NEW root, StartSweep(root) PROVE IInv'
    <2>1. PICK b : b = IF empty_nested THEN 0 ELSE Len(var_stack_) - nested_size
      OBVIOUS
    <2>2. b \in 0 .. Len(var_stack_)
      <3>1. CASE empty_nested
        BY <1>3, <2>1, <3>1
      <3>2. CASE ~empty_nested
        <4>1. LastOf(nested_var_stack_sizes_) \in 0 .. Len(var_stack_)
          BY <1>3, <3>2, CutsBack DEF IInv, TapeOK, StackOK, empty_nested
        <4> QED
          BY <1>3, <2>1, <3>2, <4>1 DEF nested_size
      <3> QED
        BY <3>1, <3>2
    <2>3. control' = Append(control, [kind |-> "grad", i |-> Len(var_stack_),
                                      beginning |-> b, start |-> adj'])
      BY <1>4, <2>1 DEF StartSweep
    <2> QED
      BY <1>1, <1>2, <2>2, <2>3, FramesSweep
  <1>5. CASE SweepStep
    <2>1. PICK m, f, g, c, t :
            /\ m = Len(control) /\ f = Top /\ g = [f EXCEPT !.i = @ - 1]
            /\ c = [kind |-> "chain", vari |-> var_stack_[f.i]]
            /\ t = Turned(g)
      OBVIOUS
    <2>2. /\ control # <<>> /\ f.kind = "grad" /\ f.i > f.beginning
          /\ control' = t \/ control' = Append(t, c)
      BY <1>5, <2>1 DEF SweepStep, TopIs, Top, LastOf, Turned
    <2>0. Frames
      BY DEF IInv
    <2>0a. /\ \E S : t \in Seq(S)
           /\ Len(control) \in Nat \ {0} /\ Len(t) = Len(control)
           /\ DOMAIN control = 1 .. Len(control)
           /\ \A k \in 1 .. Len(control) - 1 : t[k] = control[k]
           /\ t[Len(control)] = g
      BY <2>0, <2>1, <2>2, FramesTurn, Zenon
    <2>3. /\ \E S : t \in Seq(S)
          /\ m \in Nat \ {0} /\ Len(t) = m /\ DOMAIN control = 1 .. m
          /\ \A k \in 1 .. m - 1 : t[k] = control[k]
          /\ t[m] = g
      BY <2>0a, <2>1
    <2>3a. control[m] = f
      BY <2>1 DEF Top, LastOf
    <2>4. PICK S : t \in Seq(S)
      BY <2>3
    <2>5. CASE control' = t
      <3>1. DOMAIN control' = 1 .. m /\ control'[m] = g
        BY <2>3, <2>4, <2>5, LenProperties
      <3>2. Frames'
        BY <2>3, <2>5, Zenon DEF Frames
      <3>3. \A k \in 1 .. m - 1 : control'[k] = control[k]
        BY <2>3, <2>5
      <3>4. PICK n \in {m, m + 1} : n = m
        OBVIOUS
      <3>5. DOMAIN control' = 1 .. n /\ n # m + 1
        BY <2>3, <3>1, <3>4
      <3> QED
        BY <1>1, <1>2, <2>1, <2>2, <2>3, <2>3a, <3>1, <3>2, <3>3, <3>5, FramesStep
    <2>6. CASE control' = Append(t, c)
      <3>1. t \in Seq(S \cup {c}) /\ c \in S \cup {c}
        BY <2>4, SeqMonotonic
      <3>2. /\ control' \in Seq(S \cup {c}) /\ DOMAIN control' = 1 .. m + 1
            /\ \A k \in 1 .. m : control'[k] = t[k]
            /\ control'[m + 1] = c
        BY <2>3, <2>6, <3>1, PushBack
      <3>3. Frames'
        BY <3>2, Zenon DEF Frames
      <3>4. /\ \A k \in 1 .. m - 1 : control'[k] = control[k]
            /\ control'[m] = g
        BY <2>3, <3>2
      <3> QED
        BY <1>1, <1>2, <2>1, <2>2, <2>3, <2>3a, <3>2, <3>3, <3>4, FramesStep
    <2> QED
      BY <2>2, <2>5, <2>6
  <1>6. CASE ChainReturns \/ EndSweep
    <2>1. control # <<>> /\ Top.kind # "scope" /\ control' = FrontOf(control)
      BY <1>6 DEF ChainReturns, EndSweep, TopIs
    <2> QED
      BY <1>1, <1>2, <2>1, FramesReturn
  <1>7. CASE set_zero_all_adjoints \/ set_zero_all_adjoints_nested
    <2>1. control' = control
      BY <1>7 DEF set_zero_all_adjoints, set_zero_all_adjoints_nested
    <2> QED
      BY <1>1, <1>2, <1>3, <2>1, FramesKept
  <1> QED
    BY <1>4, <1>5, <1>6, <1>7 DEF Sweep

LEMMA ManageOK ==
  ASSUME IInv, Manage
  PROVE  IInv'
  <1>1. ASSUME UNCHANGED <<tape, marks, memory>>
        PROVE  TapeOK' /\ UNCHANGED <<var_stack_, nested_var_stack_sizes_>>
    BY <1>1, TapeKept DEF IInv, memory, tape, marks
  <1>2. ASSUME recover_memory_nested
        PROVE  /\ var_stack_' = Truncate(var_stack_, LastOf(nested_var_stack_sizes_))
               /\ nested_var_stack_sizes_' = FrontOf(nested_var_stack_sizes_)
    BY <1>2 DEF recover_memory_nested, RecoverNestedTapes
  <1>3. CASE OpenScope
    <2>1. /\ start_nested /\ UNCHANGED <<tape, varis>> /\ var_stack_' = var_stack_
          /\ control' = Append(control, [kind |-> "scope"])
      BY <1>3 DEF OpenScope, tape, memory
    <2>2. /\ TapeOK'
          /\ nested_var_stack_sizes_' = Append(nested_var_stack_sizes_, Len(var_stack_))
      BY <2>1, StartNestedOK DEF IInv
    <2> QED
      BY <2>1, <2>2, FramesOpen
  <1>4. CASE CloseScope \/ (Unwind /\ TopIs("scope"))
    <2>1. /\ recover_memory_nested /\ control # <<>> /\ Top.kind = "scope"
          /\ control' = FrontOf(control)
      BY <1>4 DEF CloseScope, Unwind, TopIs
    <2>2. TapeOK' /\ Depth > 0 /\ LastOf(nested_var_stack_sizes_) \in 0 .. Len(var_stack_)
      BY <2>1, RecoverNestedOK DEF IInv
    <2> QED
      BY <1>2, <2>1, <2>2, FramesClose
  <1>5. ASSUME recover_memory, control = <<>> \/ TopIs("scope"), control' = control
        PROVE  IInv'
    <2>1. TapeOK' /\ Depth = 0
      BY <1>5, RecoverOK DEF IInv
    <2>2. Depth' = 0
      BY <1>5, <2>1 DEF recover_memory, marks, Depth
    <2>3. control = <<>>
      BY <1>5, <2>1, ClientAtBottom
    <2> QED
      BY <1>5, <2>1, <2>2, <2>3, FramesCleared
  <1>6. ASSUME UNCHANGED <<tape, marks, memory, control>> PROVE IInv'
    <2>1. Len(var_stack_) \in Nat
      BY Lengths DEF IInv
    <2> QED
      BY <1>1, <1>6, <2>1, FramesKept
  <1>7. CASE RecoverMemory
    BY <1>5, <1>7 DEF RecoverMemory, ClientRuns
  <1>8. CASE Throw
    BY <1>6, <1>8 DEF Throw
  <1>9. CASE Unwind /\ ~TopIs("scope")
    <2>1. /\ UNCHANGED <<tape, marks, memory>> /\ control # <<>> /\ Top.kind # "scope"
          /\ control' = FrontOf(control)
      BY <1>9 DEF Unwind, TopIs
    <2> QED
      BY <1>1, <2>1, FramesReturn
  <1>10. CASE Catch
    BY <1>5, <1>6, <1>10 DEF Catch
  <1> QED
    BY <1>3, <1>4, <1>7, <1>8, <1>9, <1>10 DEF Manage

LEMMA IdleKeepsIInv ==
  ASSUME IInv, UNCHANGED vars
  PROVE  IInv'
  <1>1. TapeOK' /\ Len(var_stack_) \in Nat
    BY TapeKept, Lengths DEF IInv, vars, memory
  <1> QED
    BY <1>1, FramesKept DEF vars, tape, marks

LEMMA InitIInv ==
  ASSUME Init
  PROVE  IInv
  <1>1. /\ var_stack_ = <<>> /\ var_nochain_stack_ = <<>> /\ var_alloc_stack_ = <<>>
        /\ nested_var_stack_sizes_ = <<>> /\ nested_var_nochain_stack_sizes_ = <<>>
        /\ nested_var_alloc_stack_starts_ = <<>> /\ varis = <<>> /\ nested_next_locs_ = <<>>
        /\ control = <<>>
    BY DEF Init
  <1>2. /\ Len(<<>>) = 0 /\ \A S : <<>> \in Seq(S)
        /\ RangeOf(<<>>) = {} /\ 1 .. 0 = {}
    BY DEF RangeOf
  <1>3. Cuts(<<>>, 0)
    BY <1>2 DEF Cuts
  <1>4. TapeOK
    BY <1>1, <1>2, <1>3 DEF TapeOK, StackOK, Partition
  <1>5. Frames
    BY <1>1, <1>2 DEF Frames
  <1>6. ScopesAt(<<>>) /\ FramesAt(<<>>)
    BY <1>1, <1>2 DEF ScopesAt, FramesAt, Depth
  <1> QED
    BY <1>4, <1>5, <1>6 DEF IInv

(* chainable_alloc objects come from the heap.                               *)
HeapOK == heap \subseteq ChainableIds

LEMMA NextKeepsHeap ==
  ASSUME HeapOK, [Next]_vars
  PROVE  HeapOK'
  <1>1. ASSUME NEW list, DeleteAll(list) PROVE HeapOK'
    BY <1>1 DEF DeleteAll, HeapOK
  <1>2. CASE UNCHANGED objects
    BY <1>2 DEF HeapOK, objects
  <1>3. ASSUME recover_memory_nested \/ recover_memory PROVE HeapOK'
    BY <1>1, <1>3 DEF recover_memory_nested, recover_memory, RecoverNestedObjects
  <1>4. ASSUME NEW c \in ChainableIds, NewChainable(c) PROVE HeapOK'
    BY <1>4 DEF NewChainable, HeapOK
  <1>5. ASSUME NEW c, NewChainableThrows(c) PROVE HeapOK'
    BY <1>2, <1>5 DEF NewChainableThrows
  <1>6. CASE Build
    BY <1>2, <1>4, <1>5, <1>6 DEF Build, NewVar, NewOp, NewCallback, NewVariThrows
  <1>7. CASE Sweep
    BY <1>2, <1>7 DEF Sweep, StartSweep, SweepStep, ChainReturns, EndSweep,
       set_zero_all_adjoints, set_zero_all_adjoints_nested
  <1>8. CASE Manage
    BY <1>2, <1>3, <1>8 DEF Manage, OpenScope, CloseScope, RecoverMemory, Throw, Unwind, Catch
  <1>9. CASE UNCHANGED vars
    BY <1>2, <1>9 DEF vars
  <1> QED
    BY <1>6, <1>7, <1>8, <1>9 DEF Next

LEMMA IInvStep ==
  ASSUME IInv, HeapOK, [Next]_vars
  PROVE  IInv'
  <1>1. Build => IInv'
    BY BuildOK DEF HeapOK
  <1>2. Sweep => IInv'
    BY SweepKeepsIInv
  <1>3. Manage => IInv'
    BY ManageOK
  <1>4. UNCHANGED vars => IInv'
    BY IdleKeepsIInv
  <1> QED
    BY <1>1, <1>2, <1>3, <1>4 DEF Next

LEMMA Inductive ==
  Spec => [](IInv /\ HeapOK)
  <1>1. Init => IInv /\ HeapOK
    BY InitIInv DEF Init, HeapOK
  <1>2. IInv /\ HeapOK /\ [Next]_vars => (IInv /\ HeapOK)'
    BY IInvStep, NextKeepsHeap
  <1> QED
    BY <1>1, <1>2, PTL DEF Spec
-----------------------------------------------------------------------------
(* Two stacks in the order of addresses that partition them, one after the   *)
(* other, name each address once.                                            *)
LEMMA OnceOnStacks ==
  ASSUME TapeOK
  PROVE  TapeMatchesArena
  <1> DEFINE s == var_stack_
             t == var_nochain_stack_
  <1>1. /\ s \in Seq(Nat) /\ t \in Seq(Nat)
        /\ Len(s) \in Nat /\ DOMAIN s = 1 .. Len(s) /\ Len(t) \in Nat /\ DOMAIN t = 1 .. Len(t)
        /\ Live = 1 .. Len(varis)
    BY Lengths DEF TapeOK, StackOK
  <1>2. /\ \A i, j \in 1 .. Len(s) : i < j => s[i] < s[j]
        /\ \A i, j \in 1 .. Len(t) : i < j => t[i] < t[j]
        /\ \A i \in 1 .. Len(s) : s[i] \in Nat
        /\ \A i \in 1 .. Len(t) : t[i] \in Nat
    BY <1>1, ElementOfSeq DEF TapeOK, StackOK
  <1>3. RangeOf(s) \cap RangeOf(t) = {} /\ RangeOf(s) \cup RangeOf(t) = 1 .. Len(varis)
    BY DEF TapeOK, Partition
  <1>4. PICK u : u = s \o t
    OBVIOUS
  <1>5. /\ Len(u) = Len(s) + Len(t) /\ DOMAIN u = 1 .. Len(s) + Len(t)
        /\ \A i \in 1 .. Len(s) + Len(t) :
             u[i] = IF i <= Len(s) THEN s[i] ELSE t[i - Len(s)]
    BY <1>1, <1>4, ConcatProperties, LenProperties
  <1> HIDE DEF s, t
  <1>6. \A i \in 1 .. Len(s) + Len(t) : i \in 1 .. Len(s) \/ (~(i <= Len(s)) /\ i - Len(s) \in 1 .. Len(t))
    BY <1>1
  <1>7. /\ \A i, j \in 1 .. Len(s) : s[i] = s[j] => i = j
        /\ \A i, j \in 1 .. Len(t) : t[i] = t[j] => i = j
    <2>1. \A i, j \in 1 .. Len(s) : i < j \/ j < i \/ i = j
      BY <1>1
    <2>2. \A i, j \in 1 .. Len(t) : i < j \/ j < i \/ i = j
      BY <1>1
    <2> QED
      BY <1>2, <2>1, <2>2
  <1>8. \A i \in 1 .. Len(s), j \in 1 .. Len(t) : s[i] # t[j]
    BY <1>1, <1>3 DEF RangeOf
  <1>9. ASSUME NEW i \in 1 .. Len(s) + Len(t), NEW j \in 1 .. Len(s) + Len(t), u[i] = u[j]
        PROVE  i = j
    <2>1. CASE i \in 1 .. Len(s) /\ j \in 1 .. Len(s)
      BY <1>1, <1>5, <1>7, <1>9, <2>1
    <2>2. CASE ~(i <= Len(s)) /\ ~(j <= Len(s))
      <3>1. /\ i - Len(s) \in 1 .. Len(t) /\ j - Len(s) \in 1 .. Len(t)
            /\ t[i - Len(s)] = t[j - Len(s)]
        BY <1>1, <1>5, <1>6, <1>9, <2>2
      <3>2. i - Len(s) = j - Len(s)
        BY <1>7, <3>1
      <3> QED
        BY <1>1, <3>2
    <2>3. CASE i \in 1 .. Len(s) /\ ~(j <= Len(s))
      <3>1. /\ j - Len(s) \in 1 .. Len(t) /\ s[i] = t[j - Len(s)]
        BY <1>1, <1>5, <1>6, <1>9, <2>3
      <3> QED
        BY <1>8, <2>3, <3>1
    <2>4. CASE j \in 1 .. Len(s) /\ ~(i <= Len(s))
      <3>1. /\ i - Len(s) \in 1 .. Len(t) /\ s[j] = t[i - Len(s)]
        BY <1>1, <1>5, <1>6, <1>9, <2>4
      <3> QED
        BY <1>8, <2>4, <3>1
    <2> QED
      BY <1>6, <2>1, <2>2, <2>3, <2>4
  <1>10. Injective(u)
    BY <1>5, <1>9 DEF Injective
  <1> QED
    BY <1>1, <1>3, <1>4, <1>10 DEF TapeMatchesArena, s, t

(* Every vari in live arena memory is on exactly one of the two stacks, once,*)
(* and they hold nothing else, however scopes nest, sweeps run chain() calls *)
(* that open more of them, and exceptions unwind both.                       *)
THEOREM TapeOwnsArena == Spec => []TapeMatchesArena
  <1>1. IInv => TapeMatchesArena
    BY OnceOnStacks DEF IInv
  <1> QED
    BY <1>1, Inductive, PTL

LEMMA ScopesCounted ==
  ASSUME IInv
  PROVE  Depth = Cardinality({k \in DOMAIN control : control[k].kind = "scope"})
  <1>1. PICK pos : ScopesAt(pos)
    BY DEF IInv
  <1>2. PICK scopes : scopes = {k \in DOMAIN control : control[k].kind = "scope"}
    OBVIOUS
  <1>3. PICK n : n = Depth
    OBVIOUS
  <1>4. n \in Nat
    BY <1>3, Lengths DEF IInv
  <1>5. /\ pos \in [1 .. n -> scopes]
        /\ \A k \in scopes : \E d \in 1 .. n : pos[d] = k
    <2>1. pos \in [1 .. n -> Nat] /\ Len(pos) = n
      BY <1>1, <1>3, <1>4, LenProperties DEF ScopesAt
    <2> QED
      BY <1>1, <1>2, <2>1 DEF ScopesAt
  <1>6. \A d, e \in 1 .. n : pos[d] = pos[e] => d = e
    <2>1. \A d, e \in 1 .. n : d < e => pos[d] < pos[e]
      BY <1>1, <1>3 DEF ScopesAt
    <2>2. \A d \in 1 .. n : pos[d] \in Nat
      BY <1>1, <1>3, <1>4, ElementOfSeq DEF ScopesAt
    <2>3. \A d, e \in 1 .. n : d < e \/ e < d \/ d = e
      BY <1>4
    <2> QED
      BY <2>1, <2>2, <2>3
  <1>7. pos \in Bijection(1 .. n, scopes)
    BY <1>5, <1>6 DEF Bijection, Injection, Surjection, IsInjective
  <1>8. ExistsBijection(1 .. n, scopes)
    BY <1>7 DEF ExistsBijection
  <1>9. IsFiniteSet(1 .. n) /\ Cardinality(1 .. n) = n
    BY <1>4, FS_Interval
  <1>10. Cardinality(scopes) = n
    BY <1>8, <1>9, FS_Bijection
  <1> QED
    BY <1>2, <1>3, <1>10

(* There is one mark per scope open on the C++ stack in each of the four     *)
(* mark vectors, and the marks of one scope cut both stacks and the arena at *)
(* the same vari: the destructor of nested_rev_autodiff never throws.        *)
THEOREM MarksAgree == Spec => []MarksInLockstep
  <1>1. ASSUME IInv PROVE MarksInLockstep
    <2>1. /\ DOMAIN var_stack_ = 1 .. Len(var_stack_)
          /\ DOMAIN var_nochain_stack_ = 1 .. Len(var_nochain_stack_)
          /\ Depth = Len(nested_next_locs_)
      BY <1>1, Lengths DEF IInv
    <2>2. /\ StackOK(var_stack_, nested_var_stack_sizes_, nested_next_locs_, Len(varis))
          /\ StackOK(var_nochain_stack_, nested_var_nochain_stack_sizes_, nested_next_locs_,
                     Len(varis))
          /\ Len(nested_var_alloc_stack_starts_) = Len(nested_next_locs_)
      BY <1>1 DEF IInv, TapeOK
    <2> QED
      BY <1>1, <2>1, <2>2, ScopesCounted DEF MarksInLockstep, StackOK, Depth
  <1> QED
    BY <1>1, Inductive, PTL

(* While chain() runs nested scopes, the loop of grad() that called it keeps *)
(* a valid index and the vari under it, however deep the nesting.            *)
THEOREM SweepsKeepTheirVaris == Spec => []SweepSurvivesNesting
  <1>1. ASSUME IInv PROVE SweepSurvivesNesting
    <2>1. PICK pos : FramesAt(pos)
      BY <1>1 DEF IInv
    <2>2. ASSUME NEW k \in DOMAIN control, control[k].kind = "grad"
          PROVE  control[k].beginning <= control[k].i /\ control[k].i <= Len(var_stack_)
      BY <2>1, <2>2 DEF FramesAt, SweepOK, Keeps
    <2>3. ASSUME NEW k \in DOMAIN control, control[k].kind = "chain"
          PROVE  /\ control[k - 1].kind = "grad"
                 /\ control[k - 1].i < Len(var_stack_)
                 /\ var_stack_[control[k - 1].i + 1] = control[k].vari
      <3>1. k - 1 \in DOMAIN control /\ ChainOK(pos, k, control[k - 1], control[k])
        BY <2>1, <2>3 DEF FramesAt
      <3>2. control[k - 1].i \in Nat
        BY <2>1, <3>1 DEF FramesAt, ChainOK, SweepOK
      <3>3. Len(var_stack_) \in Nat
        BY <1>1, Lengths DEF IInv
      <3> QED
        BY <3>1, <3>2, <3>3 DEF ChainOK, Keeps
    <2> QED
      BY <2>2, <2>3 DEF SweepSurvivesNesting
  <1> QED
    BY <1>1, Inductive, PTL

LEMMA ZeroIsLocal ==
  ASSUME IInv, set_zero_all_adjoints_nested, NEW a \in Live
  PROVE  adj'[a] = IF a > LastOf(nested_next_locs_) THEN 0 ELSE adj[a]
  <1>1. PICK n, d, top : n = Len(varis) /\ d = Depth /\ top = LastOf(nested_next_locs_)
    OBVIOUS
  <1>2. /\ n \in Nat /\ Live = 1 .. n /\ d \in Nat /\ d # 0
        /\ Len(var_stack_) \in Nat /\ DOMAIN var_stack_ = 1 .. Len(var_stack_)
        /\ Len(var_nochain_stack_) \in Nat
        /\ DOMAIN var_nochain_stack_ = 1 .. Len(var_nochain_stack_)
        /\ d = Len(nested_next_locs_)
    BY <1>1, Lengths DEF IInv, set_zero_all_adjoints_nested
  <1>3. /\ StackOK(var_stack_, nested_var_stack_sizes_, nested_next_locs_, n)
        /\ StackOK(var_nochain_stack_, nested_var_nochain_stack_sizes_, nested_next_locs_, n)
        /\ Cuts(nested_next_locs_, n)
        /\ Partition(var_stack_, var_nochain_stack_, n)
    BY <1>1 DEF IInv, TapeOK
  <1>4. d \in 1 .. d /\ top = nested_next_locs_[d] /\ top \in 0 .. n
    BY <1>1, <1>2, <1>3 DEF LastOf, Cuts
  <1>5. PICK b, c : /\ b = LastOf(nested_var_stack_sizes_)
                    /\ c = LastOf(nested_var_nochain_stack_sizes_)
    OBVIOUS
  <1>6. /\ b \in 0 .. Len(var_stack_)
        /\ \A i \in 1 .. Len(var_stack_) : i <= b <=> var_stack_[i] <= top
    BY <1>2, <1>3, <1>4, <1>5 DEF StackOK, Cuts, LastOf
  <1>7. /\ c \in 0 .. Len(var_nochain_stack_)
        /\ \A i \in 1 .. Len(var_nochain_stack_) : i <= c <=> var_nochain_stack_[i] <= top
    BY <1>2, <1>3, <1>4, <1>5 DEF StackOK, Cuts, LastOf
  <1>8. /\ \A i \in 1 .. Len(var_stack_) : i \in b + 1 .. Len(var_stack_) <=> ~(i <= b)
        /\ \A i \in b + 1 .. Len(var_stack_) : i \in 1 .. Len(var_stack_)
        /\ \A i \in 1 .. Len(var_nochain_stack_) :
             i \in c + 1 .. Len(var_nochain_stack_) <=> ~(i <= c)
        /\ \A i \in c + 1 .. Len(var_nochain_stack_) : i \in 1 .. Len(var_nochain_stack_)
    BY <1>2, <1>6, <1>7
  <1>9. a \in NestedVaris <=> ~(a <= top)
    <2>1. /\ a \in RangeOf(var_stack_) \/ a \in RangeOf(var_nochain_stack_)
      BY <1>2, <1>3 DEF Partition
    <2>2. NestedVaris = {var_stack_[i] : i \in b + 1 .. Len(var_stack_)}
               \cup {var_nochain_stack_[i] : i \in c + 1 .. Len(var_nochain_stack_)}
      BY <1>5 DEF NestedVaris
    <2>3. ASSUME a \in NestedVaris PROVE ~(a <= top)
      <3>1. CASE \E i \in b + 1 .. Len(var_stack_) : a = var_stack_[i]
        BY <1>6, <1>8, <3>1
      <3>2. CASE \E i \in c + 1 .. Len(var_nochain_stack_) : a = var_nochain_stack_[i]
        BY <1>7, <1>8, <3>2
      <3> QED
        BY <2>2, <2>3, <3>1, <3>2
    <2>4. ASSUME ~(a <= top) PROVE a \in NestedVaris
      <3>1. CASE \E i \in 1 .. Len(var_stack_) : a = var_stack_[i]
        BY <1>6, <1>8, <2>2, <2>4, <3>1
      <3>2. CASE \E i \in 1 .. Len(var_nochain_stack_) : a = var_nochain_stack_[i]
        BY <1>7, <1>8, <2>2, <2>4, <3>2
      <3> QED
        BY <1>2, <2>1, <3>1, <3>2 DEF RangeOf
    <2> QED
      BY <2>3, <2>4
  <1>10. adj'[a] = IF a \in NestedVaris THEN 0 ELSE adj[a]
    BY DEF set_zero_all_adjoints_nested, SetZero
  <1>11. a > top <=> ~(a <= top)
    BY <1>2, <1>4
  <1> QED
    BY <1>1, <1>9, <1>10, <1>11

(* set_zero_all_adjoints_nested zeroes the adjoint of every vari of the      *)
(* innermost scope and of no other.                                          *)
THEOREM NestedZeroingStaysLocal == Spec => NestedZeroingIsLocal
  <1>1. IInv => [set_zero_all_adjoints_nested =>
                   \A a \in Live :
                     adj'[a] = IF a > LastOf(nested_next_locs_) THEN 0 ELSE adj[a]]_vars
    BY ZeroIsLocal
  <1> QED
    BY <1>1, Inductive, PTL DEF NestedZeroingIsLocal
-----------------------------------------------------------------------------
(***************************************************************************)
(* What is on the tape: the varis a sweep may come upon, the               *)
(* chainable_alloc objects, what chain() reads, and the memory the tape    *)
(* asks of its arena.                                                      *)
(***************************************************************************)
(* Where varis go: on top, at the innermost mark and above it, or nowhere.   *)
LEMMA VarisAfter ==
  ASSUME IInv, recover_memory_nested
  PROVE  /\ nested_next_locs_ # <<>> /\ LastOf(nested_next_locs_) \in 0 .. Len(varis)
         /\ Len(varis') = LastOf(nested_next_locs_)
         /\ Live' = 1 .. LastOf(nested_next_locs_)
         /\ \A a \in Live' : a \in Live /\ varis'[a] = varis[a]
  <1>1. LastOf(nested_next_locs_) \in 0 .. Len(varis) /\ Depth > 0
    BY RecoverNestedOK DEF IInv
  <1>2. Len(varis) \in Nat /\ Live = 1 .. Len(varis) /\ nested_next_locs_ # <<>>
    BY <1>1, Lengths, EmptySeq DEF IInv
  <1>3. PICK n : n = LastOf(nested_next_locs_)
    OBVIOUS
  <1>4. varis' = Truncate(varis, n) /\ varis \in Seq(Vari) /\ n \in 0 .. Len(varis)
    BY <1>1, <1>3 DEF recover_memory_nested, RecoverNestedArena, IInv, TapeOK
  <1>5. /\ Len(varis') = n /\ DOMAIN varis' = 1 .. n
        /\ \A a \in 1 .. n : varis'[a] = varis[a]
    BY <1>4, Resize
  <1>6. \A a \in 1 .. n : a \in 1 .. Len(varis)
    BY <1>2, <1>4
  <1> QED
    BY <1>1, <1>2, <1>3, <1>5, <1>6 DEF Live

LEMMA VarisPlaced ==
  ASSUME IInv, NEW vari, Place(vari), vari \in Vari
  PROVE  /\ Len(varis) \in Nat /\ Len(varis') = Len(varis) + 1
         /\ Live = 1 .. Len(varis) /\ Live' = 1 .. Len(varis) + 1
         /\ \A a \in Live : varis'[a] = varis[a]
         /\ varis'[Len(varis) + 1] = vari
  <1>1. varis \in Seq(Vari) /\ varis' = Append(varis, vari)
    BY DEF IInv, TapeOK, Place
  <1> QED
    BY <1>1, PushBack DEF Live
-----------------------------------------------------------------------------
(* A vari whose constructor threw is there only while that exception is      *)
(* still in the innermost scope.                                             *)
BuiltOK ==
  \A a \in Live : ~varis[a].built =>
    /\ exception = "raised"
    /\ control = <<>> \/ TopIs("scope")
    /\ \A d \in 1 .. Len(nested_next_locs_) : nested_next_locs_[d] < a

AllBuilt == \A a \in Live : varis[a].built


LEMMA AllBuiltKept ==
  ASSUME IInv, AllBuilt, HeapOK,
         \/ UNCHANGED varis
         \/ NewVar \/ NewOp \/ NewCallback
         \/ recover_memory_nested
         \/ recover_memory
  PROVE  AllBuilt' \/ NewVariThrows
  <1>1. CASE UNCHANGED varis
    BY <1>1 DEF AllBuilt, Live
  <1>2. CASE NewVar \/ NewOp \/ NewCallback
    <2>1. PICK vari \in Vari : Place(vari) /\ (vari.built \/ NewVariThrows)
      BY <1>2, PlacedVaris DEF IInv, HeapOK
    <2>2. /\ Live = 1 .. Len(varis) /\ Live' = 1 .. Len(varis) + 1 /\ Len(varis) \in Nat
          /\ \A a \in Live : varis'[a] = varis[a]
          /\ varis'[Len(varis) + 1] = vari
      BY <2>1, VarisPlaced
    <2>3. \A a \in Live' : a \in Live \/ a = Len(varis) + 1
      BY <2>2
    <2> QED
      BY <2>1, <2>2, <2>3 DEF AllBuilt
  <1>3. CASE recover_memory_nested
    BY <1>3, VarisAfter DEF AllBuilt
  <1>4. CASE recover_memory
    <2>1. Live' = {}
      BY <1>4 DEF recover_memory, Live
    <2> QED
      BY <2>1 DEF AllBuilt
  <1> QED
    BY <1>1, <1>2, <1>3, <1>4

LEMMA BuiltStep ==
  ASSUME CatchInScope = FALSE, IInv, HeapOK, BuiltOK, [Next]_vars
  PROVE  BuiltOK'
  <1>1. AllBuilt' => BuiltOK'
    BY DEF AllBuilt, BuiltOK
  <1>2. exception # "raised" => AllBuilt
    BY DEF AllBuilt, BuiltOK
  <1>3. CASE exception = "none" /\ ~NewVariThrows /\ Next
    <2>1. \/ UNCHANGED varis
          \/ NewVar \/ NewOp \/ NewCallback
          \/ recover_memory_nested
          \/ recover_memory
      BY <1>3 DEF Next, Build, Sweep, Manage, NewVar, NewOp, NewCallback, NewChainable,
         NewChainableThrows, StartSweep, SweepStep, ChainReturns, EndSweep,
         set_zero_all_adjoints, set_zero_all_adjoints_nested, OpenScope, CloseScope,
         RecoverMemory, Throw, Unwind, Catch, memory
    <2> QED
      BY <1>1, <1>2, <1>3, <2>1, AllBuiltKept
  <1>4. CASE NewVariThrows
    <2>1. /\ exception = "none" /\ exception' = "raised" /\ control' = control
          /\ nested_next_locs_' = nested_next_locs_
          /\ control = <<>> \/ TopIs("scope")
      BY <1>4 DEF NewVariThrows, ClientRuns, marks
    <2>2. PICK vari \in Vari : Place(vari)
      BY <1>4, PlacedVaris DEF IInv, HeapOK
    <2>3. /\ Live = 1 .. Len(varis) /\ Live' = 1 .. Len(varis) + 1 /\ Len(varis) \in Nat
          /\ \A a \in Live : varis'[a] = varis[a]
      BY <2>2, VarisPlaced
    <2>4. \A a \in Live' : a \in Live \/ a = Len(varis) + 1
      BY <2>3
    <2>5. \A a \in Live' : ~varis'[a].built => a = Len(varis) + 1
      BY <1>2, <2>1, <2>3, <2>4 DEF AllBuilt
    <2>6. \A d \in 1 .. Len(nested_next_locs_) : nested_next_locs_[d] < Len(varis) + 1
      BY <2>3 DEF IInv, TapeOK, Cuts
    <2>7. control' = <<>> \/ TopIs("scope")'
      BY <2>1 DEF TopIs, Top
    <2> QED
      BY <2>1, <2>5, <2>6, <2>7 DEF BuiltOK
  <1>5. CASE exception # "none" /\ Unwind
    <2>1. CASE TopIs("scope")
      <3>1. recover_memory_nested
        BY <1>5, <2>1 DEF Unwind
      <3>2. /\ Live' = 1 .. LastOf(nested_next_locs_)
            /\ LastOf(nested_next_locs_) \in 0 .. Len(varis) /\ nested_next_locs_ # <<>>
            /\ \A a \in Live' : a \in Live /\ varis'[a] = varis[a]
        BY <3>1, VarisAfter
      <3>3. /\ Len(nested_next_locs_) \in 1 .. Len(nested_next_locs_)
            /\ LastOf(nested_next_locs_) = nested_next_locs_[Len(nested_next_locs_)]
        BY <3>2, EmptySeq DEF LastOf, IInv, TapeOK, Cuts
      <3>4. \A a \in Live' : ~(LastOf(nested_next_locs_) < a)
        BY <3>2
      <3>5. AllBuilt'
        BY <3>2, <3>3, <3>4 DEF BuiltOK, AllBuilt
      <3> QED
        BY <1>1, <3>5
    <2>2. CASE ~TopIs("scope")
      <3>1. AllBuilt /\ UNCHANGED varis
        BY <1>5, <2>2 DEF Unwind, memory, AllBuilt, BuiltOK
      <3>2. AllBuilt'
        BY <3>1 DEF AllBuilt, Live
      <3> QED
        BY <1>1, <3>2
    <2> QED
      BY <2>1, <2>2
  <1>6. CASE exception # "none" /\ Catch
    <2>1. CASE recover_memory
      <3>1. Live' = {}
        BY <2>1 DEF recover_memory, Live
      <3> QED
        BY <1>1, <3>1 DEF AllBuilt
    <2>2. CASE exception = "left" /\ UNCHANGED varis
      <3>1. AllBuilt'
        BY <1>2, <2>2 DEF AllBuilt, Live
      <3> QED
        BY <1>1, <3>1
    <2> QED
      BY <1>6, <2>1, <2>2 DEF Catch, memory
  <1>7. CASE UNCHANGED vars
    <2>1. UNCHANGED <<varis, exception, control, nested_next_locs_>>
      BY <1>7 DEF vars, memory, marks
    <2> QED
      BY <2>1 DEF BuiltOK, Live, TopIs, Top
  <1>8. Next => exception = "none" \/ Unwind \/ Catch
    BY DEF Next, Build, Sweep, Manage, NewVar, NewOp, NewCallback, NewVariThrows, NewChainable,
       NewChainableThrows, StartSweep, SweepStep, ChainReturns, EndSweep,
       set_zero_all_adjoints, set_zero_all_adjoints_nested, OpenScope, CloseScope,
       RecoverMemory, Throw, ClientRuns
  <1> QED
    BY <1>3, <1>4, <1>5, <1>6, <1>7, <1>8

(* No sweep comes upon a vari whose constructor threw, provided an exception *)
(* is never caught in the scope it was thrown in: by the time a sweep goes   *)
(* on, the scope it was thrown in has been recovered.                        *)
THEOREM SweepsMeetBuiltVaris == CatchInScope = FALSE => (Spec => []SweptAreBuilt)
  <1> SUFFICES ASSUME CatchInScope = FALSE PROVE Spec => []SweptAreBuilt
    OBVIOUS
  <1>1. ASSUME IInv, BuiltOK PROVE SweptAreBuilt
    <2> SUFFICES ASSUME NEW k \in DOMAIN control, control[k].kind = "grad",
                        NEW j \in control[k].beginning + 1 .. control[k].i,
                        ~varis[var_stack_[j]].built
                 PROVE  FALSE
      BY DEF SweptAreBuilt
    <2>1. PICK pos : ScopesAt(pos) /\ FramesAt(pos)
      BY <1>1 DEF IInv
    <2>2. PICK i, beginning, m : /\ i = control[k].i /\ beginning = control[k].beginning
                                 /\ m = Len(control)
      OBVIOUS
    <2>3. i \in Nat /\ beginning \in Nat /\ Keeps(pos, k, i)
      BY <2>1, <2>2 DEF FramesAt, SweepOK
    <2>4. /\ Len(var_stack_) \in Nat /\ Live = 1 .. Len(varis)
          /\ StackOK(var_stack_, nested_var_stack_sizes_, nested_next_locs_, Len(varis))
      BY <1>1, Lengths DEF IInv, TapeOK
    <2>5. j \in 1 .. Len(var_stack_) /\ j <= i
      BY <2>2, <2>3, <2>4 DEF Keeps
    <2>6. PICK a : a = var_stack_[j]
      OBVIOUS
    <2>7. a \in Live
      BY <2>4, <2>5, <2>6 DEF StackOK
    <2>8. /\ control = <<>> \/ TopIs("scope")
          /\ \A d \in 1 .. Len(nested_next_locs_) : nested_next_locs_[d] < a
      BY <1>1, <2>6, <2>7 DEF BuiltOK
    <2>9. PICK S : control \in Seq(S)
      BY <1>1 DEF IInv, Frames
    <2>10. /\ control # <<>> /\ m \in Nat \ {0} /\ k \in 1 .. m /\ m \in DOMAIN control
      BY <2>2, <2>9, LenProperties, EmptySeq
    <2>11. control[m].kind = "scope"
      BY <2>2, <2>8, <2>10 DEF TopIs, Top, LastOf
    <2>12. PICK d \in 1 .. Len(pos) : pos[d] = m
      BY <2>1, <2>10, <2>11 DEF ScopesAt
    <2>13. k < m
      BY <2>10, <2>11
    <2>14. i <= nested_var_stack_sizes_[d]
      BY <2>3, <2>12, <2>13 DEF Keeps
    <2>15. d \in 1 .. Len(nested_var_stack_sizes_) /\ d \in 1 .. Len(nested_next_locs_)
      BY <2>1, <2>4 DEF ScopesAt, Depth, StackOK
    <2>16. nested_var_stack_sizes_[d] \in Nat /\ nested_next_locs_[d] \in Nat
      BY <1>1, <2>15, ElementOfSeq DEF IInv, TapeOK, StackOK, Cuts
    <2>17. j <= nested_var_stack_sizes_[d]
      BY <2>3, <2>5, <2>14, <2>16
    <2>18. a <= nested_next_locs_[d]
      BY <2>4, <2>5, <2>6, <2>15, <2>17 DEF StackOK
    <2>19. a \in Nat
      BY <2>4, <2>7
    <2> QED
      BY <2>8, <2>15, <2>16, <2>18, <2>19
  <1>2. Init => BuiltOK
    BY DEF Init, BuiltOK, Live
  <1>3. IInv /\ HeapOK /\ BuiltOK /\ [Next]_vars => BuiltOK'
    BY BuiltStep
  <1> QED
    BY <1>1, <1>2, <1>3, Inductive, PTL DEF Spec
-----------------------------------------------------------------------------
(* The objects the loop of recover_nested deletes, and those it leaves.      *)
LEMMA ObjectsSplit ==
  ASSUME TapeOK, NEW m \in 0 .. Len(var_alloc_stack_), NEW list,
         list = SubSeq(var_alloc_stack_, m + 1, Len(var_alloc_stack_))
  PROVE  /\ Len(var_alloc_stack_) \in Nat
         /\ DOMAIN var_alloc_stack_ = 1 .. Len(var_alloc_stack_)
         /\ list \in Seq(ChainableIds \cup {Freed})
         /\ Len(list) = Len(var_alloc_stack_) - m
         /\ DOMAIN list = 1 .. Len(var_alloc_stack_) - m
         /\ \A i \in DOMAIN list :
              m + i \in DOMAIN var_alloc_stack_ /\ list[i] = var_alloc_stack_[m + i]
         /\ RangeOf(list) =
              {var_alloc_stack_[p] : p \in m + 1 .. Len(var_alloc_stack_)}
  <1>1. PICK s, n : s = var_alloc_stack_ /\ n = Len(var_alloc_stack_)
    OBVIOUS
  <1>2. /\ s \in Seq(ChainableIds \cup {Freed}) /\ n = Len(s) /\ n \in Nat
        /\ DOMAIN s = 1 .. n /\ m \in 0 .. n /\ list = SubSeq(s, m + 1, n)
    BY <1>1, LenProperties DEF TapeOK
  <1>4. /\ list \in Seq(ChainableIds \cup {Freed})
        /\ Len(list) = n - m
        /\ \A i \in 1 .. n - m : list[i] = s[m + i]
    <2>1. PICK a, T : a = m + 1 /\ T = ChainableIds \cup {Freed}
      OBVIOUS
    <2>2. a \in Int /\ n \in Int /\ \A i \in a .. n : i \in 1 .. Len(s)
      BY <1>2, <2>1
    <2>3. \A i \in a .. n : s[i] \in T
      BY <1>2, <2>1, <2>2, ElementOfSeq
    <2>5. /\ SubSeq(s, a, n) \in Seq(T)
          /\ Len(SubSeq(s, a, n)) = IF a <= n THEN n - a + 1 ELSE 0
          /\ \A i \in 1 .. n - a + 1 : SubSeq(s, a, n)[i] = s[a + i - 1]
      BY <2>2, <2>3, SubSeqProperties
    <2>6. list = SubSeq(s, a, n)
      BY <1>2, <2>1
    <2>7. /\ list \in Seq(T)
          /\ Len(list) = IF a <= n THEN n - a + 1 ELSE 0
          /\ \A i \in 1 .. n - a + 1 : list[i] = s[a + i - 1]
      BY <2>5, <2>6, Zenon
    <2>4. /\ n - a + 1 = n - m /\ (IF a <= n THEN n - a + 1 ELSE 0) = n - m
          /\ \A i \in 1 .. n - m : a + i - 1 = m + i
      BY <1>2, <2>1
    <2> QED
      BY <2>1, <2>4, <2>7
  <1>5. /\ \A i \in 1 .. n - m : m + i \in 1 .. n /\ m + i \in m + 1 .. n
        /\ \A p \in m + 1 .. n : p - m \in 1 .. n - m /\ m + (p - m) = p
    BY <1>2
  <1>6. DOMAIN list = 1 .. n - m
    BY <1>4, LenProperties
  <1>7. RangeOf(list) = {s[p] : p \in m + 1 .. n}
    <2>1. ASSUME NEW p \in m + 1 .. n PROVE \E i \in 1 .. n - m : s[p] = list[i]
      <3>1. PICK i \in 1 .. n - m : m + i = p
        BY <1>5
      <3> QED
        BY <1>4, <3>1
    <2>2. ASSUME NEW i \in 1 .. n - m PROVE \E p \in m + 1 .. n : list[i] = s[p]
      <3>1. m + i \in m + 1 .. n /\ list[i] = s[m + i]
        BY <1>4, <1>5
      <3> QED
        BY <3>1, Zenon
    <2>3. RangeOf(list) = {list[i] : i \in 1 .. n - m}
      BY <1>6 DEF RangeOf
    <2>4. ASSUME NEW x \in RangeOf(list) PROVE x \in {s[p] : p \in m + 1 .. n}
      <3>1. PICK i \in 1 .. n - m : x = list[i]
        BY <2>3, <2>4
      <3> QED
        BY <2>2, <3>1
    <2>5. ASSUME NEW x \in {s[p] : p \in m + 1 .. n} PROVE x \in RangeOf(list)
      <3>1. PICK p \in m + 1 .. n : x = s[p]
        BY <2>5
      <3> QED
        BY <2>1, <2>3, <3>1
    <2> QED
      BY <2>4, <2>5
  <1> QED
    BY <1>1, <1>2, <1>4, <1>5, <1>6, <1>7

LEMMA ObjectsAfter ==
  ASSUME IInv, recover_memory_nested
  PROVE  \E m \in 0 .. Len(var_alloc_stack_) :
           /\ m = LastOf(nested_var_alloc_stack_starts_)
           /\ DeleteAll(SubSeq(var_alloc_stack_, m + 1, Len(var_alloc_stack_)))
           /\ DOMAIN var_alloc_stack_' = 1 .. m
           /\ \A p \in 1 .. m : var_alloc_stack_'[p] = var_alloc_stack_[p]
  <1>1. PICK m : m = LastOf(nested_var_alloc_stack_starts_)
    OBVIOUS
  <1>2. m \in 0 .. Len(var_alloc_stack_) /\ Len(var_alloc_stack_) \in Nat
    BY <1>1, RecoverNestedOK, Lengths DEF IInv
  <1>3. FirstNestedObject = m + 1 /\ FirstNestedObject - 1 = m
    BY <1>1, <1>2 DEF FirstNestedObject
  <1>4. /\ DeleteAll(SubSeq(var_alloc_stack_, m + 1, Len(var_alloc_stack_)))
        /\ var_alloc_stack_' = Truncate(var_alloc_stack_, m)
    BY <1>3 DEF recover_memory_nested, RecoverNestedObjects
  <1>5. /\ DOMAIN var_alloc_stack_' = 1 .. m
        /\ \A p \in 1 .. m : var_alloc_stack_'[p] = var_alloc_stack_[p]
    BY <1>2, <1>4, Resize DEF IInv, TapeOK
  <1> QED
    BY <1>1, <1>2, <1>4, <1>5

LEMMA TrackedStep ==
  ASSUME IInv, HeapOK, ChainablesTracked, [Next]_vars
  PROVE  ChainablesTracked'
  <1>1. /\ var_alloc_stack_ \in Seq(ChainableIds \cup {Freed})
        /\ Len(var_alloc_stack_) \in Nat /\ DOMAIN var_alloc_stack_ = 1 .. Len(var_alloc_stack_)
    BY Lengths DEF IInv, TapeOK
  <1>2. CASE UNCHANGED <<var_alloc_stack_, heap>>
    BY <1>2 DEF ChainablesTracked
  <1>3. ASSUME NEW c \in ChainableIds, NewChainable(c) PROVE ChainablesTracked'
    <2>1. /\ DOMAIN var_alloc_stack_' = 1 .. Len(var_alloc_stack_) + 1
          /\ \A i \in 1 .. Len(var_alloc_stack_) : var_alloc_stack_'[i] = var_alloc_stack_[i]
          /\ var_alloc_stack_'[Len(var_alloc_stack_) + 1] = c
      BY <1>1, <1>3, PushBack DEF NewChainable
    <2>2. heap' = heap \cup {c} /\ c \notin heap /\ c # Freed
      BY <1>3, AdTapeAssumption DEF NewChainable
    <2>3. \A i \in 1 .. Len(var_alloc_stack_) + 1 :
            i \in 1 .. Len(var_alloc_stack_) \/ i = Len(var_alloc_stack_) + 1
      BY <1>1
    <2>4. \A i \in 1 .. Len(var_alloc_stack_) : var_alloc_stack_[i] # c
      BY <1>1, <2>2 DEF ChainablesTracked, RangeOf
    <2>5. Len(var_alloc_stack_) + 1 \in 1 .. Len(var_alloc_stack_) + 1
          /\ \A i \in 1 .. Len(var_alloc_stack_) : i \in 1 .. Len(var_alloc_stack_) + 1
      BY <1>1
    <2>6. RangeOf(var_alloc_stack_)' = RangeOf(var_alloc_stack_) \cup {c}
      BY <1>1, <2>1, <2>3, <2>5 DEF RangeOf
    <2>7. (RangeOf(var_alloc_stack_) \ {Freed})' = heap'
      BY <2>2, <2>6 DEF ChainablesTracked, Freed
    <2> QED
      BY <1>1, <2>1, <2>2, <2>3, <2>4, <2>7 DEF ChainablesTracked, Freed
  <1>4. ASSUME NEW c, NewChainableThrows(c) PROVE ChainablesTracked'
    <2>1. Freed \in ChainableIds \cup {Freed} /\ UNCHANGED heap
      BY <1>4 DEF NewChainableThrows, objects
    <2>2. /\ DOMAIN var_alloc_stack_' = 1 .. Len(var_alloc_stack_) + 1
          /\ \A i \in 1 .. Len(var_alloc_stack_) : var_alloc_stack_'[i] = var_alloc_stack_[i]
          /\ var_alloc_stack_'[Len(var_alloc_stack_) + 1] = Freed
      BY <1>1, <1>4, <2>1, PushBack DEF NewChainableThrows
    <2>3. \A i \in 1 .. Len(var_alloc_stack_) + 1 :
            i \in 1 .. Len(var_alloc_stack_) \/ i = Len(var_alloc_stack_) + 1
      BY <1>1
    <2>4. Len(var_alloc_stack_) + 1 \in 1 .. Len(var_alloc_stack_) + 1
          /\ \A i \in 1 .. Len(var_alloc_stack_) : i \in 1 .. Len(var_alloc_stack_) + 1
      BY <1>1
    <2>5. RangeOf(var_alloc_stack_)' = RangeOf(var_alloc_stack_) \cup {Freed}
      BY <1>1, <2>2, <2>3, <2>4 DEF RangeOf
    <2>6. (RangeOf(var_alloc_stack_) \ {Freed})' = heap'
      BY <2>1, <2>5 DEF ChainablesTracked, Freed
    <2> QED
      BY <1>1, <2>2, <2>3, <2>6 DEF ChainablesTracked, Freed
  <1>5. CASE recover_memory_nested
    <2>1. PICK m \in 0 .. Len(var_alloc_stack_) :
            /\ DeleteAll(SubSeq(var_alloc_stack_, m + 1, Len(var_alloc_stack_)))
            /\ DOMAIN var_alloc_stack_' = 1 .. m
            /\ \A p \in 1 .. m : var_alloc_stack_'[p] = var_alloc_stack_[p]
      BY <1>5, ObjectsAfter
    <2>2. PICK list : list = SubSeq(var_alloc_stack_, m + 1, Len(var_alloc_stack_))
      OBVIOUS
    <2>3. /\ heap' = heap \ RangeOf(list)
          /\ RangeOf(list) = {var_alloc_stack_[p] : p \in m + 1 .. Len(var_alloc_stack_)}
      BY <2>1, <2>2, ObjectsSplit DEF DeleteAll, IInv
    <2>4. /\ \A p \in 1 .. Len(var_alloc_stack_) :
               p \in 1 .. m \/ p \in m + 1 .. Len(var_alloc_stack_)
          /\ \A p \in 1 .. m : p \in 1 .. Len(var_alloc_stack_)
          /\ \A p \in m + 1 .. Len(var_alloc_stack_) :
               p \in 1 .. Len(var_alloc_stack_) /\ p \notin 1 .. m
      BY <1>1
    <2>5. \A p \in 1 .. m, q \in m + 1 .. Len(var_alloc_stack_) :
            var_alloc_stack_[p] # Freed => var_alloc_stack_[p] # var_alloc_stack_[q]
      BY <1>1, <2>4 DEF ChainablesTracked
    <2>6. RangeOf(var_alloc_stack_)' = {var_alloc_stack_[p] : p \in 1 .. m}
      BY <2>1 DEF RangeOf
    <2>7. RangeOf(var_alloc_stack_) =
            {var_alloc_stack_[p] : p \in 1 .. m} \cup RangeOf(list)
      BY <1>1, <2>3, <2>4 DEF RangeOf
    <2>8. \A c \in {var_alloc_stack_[p] : p \in 1 .. m} : c # Freed => c \notin RangeOf(list)
      BY <2>3, <2>5
    <2>9. (RangeOf(var_alloc_stack_) \ {Freed})' = heap'
      BY <2>3, <2>6, <2>7, <2>8 DEF ChainablesTracked, Freed
    <2> QED
      BY <1>1, <2>1, <2>4, <2>9 DEF ChainablesTracked, Freed
  <1>6. CASE recover_memory
    <2>1. /\ heap' = heap \ RangeOf(var_alloc_stack_) /\ DOMAIN var_alloc_stack_' = {}
          /\ RangeOf(var_alloc_stack_)' = {}
      BY <1>6 DEF recover_memory, DeleteAll, RangeOf
    <2> QED
      BY <2>1 DEF ChainablesTracked
  <1>7. Next => \/ UNCHANGED <<var_alloc_stack_, heap>>
                \/ \E c \in ChainableIds : NewChainable(c) \/ NewChainableThrows(c)
                \/ recover_memory_nested
                \/ recover_memory
    BY DEF Next, Build, Sweep, Manage, NewVar, NewOp, NewCallback, NewVariThrows,
       StartSweep, SweepStep, ChainReturns, EndSweep, set_zero_all_adjoints,
       set_zero_all_adjoints_nested, OpenScope, CloseScope, RecoverMemory, Throw, Unwind,
       Catch, tape, objects
  <1>8. UNCHANGED vars => UNCHANGED <<var_alloc_stack_, heap>>
    BY DEF vars, tape, objects
  <1> QED
    BY <1>2, <1>3, <1>4, <1>5, <1>6, <1>7, <1>8

(* The chainable_alloc objects that exist are those on var_alloc_stack_,     *)
(* each once, through nested scopes left by return or by exception: none     *)
(* leaks (what else is there are pointers left by constructors that threw).  *)
THEOREM ObjectsTracked == Spec => []ChainablesTracked
  <1>1. Init => ChainablesTracked
    BY DEF Init, ChainablesTracked, RangeOf
  <1>2. IInv /\ HeapOK /\ ChainablesTracked /\ [Next]_vars => ChainablesTracked'
    BY TrackedStep
  <1> QED
    BY <1>1, <1>2, Inductive, PTL DEF Spec

NoneFreed == Freed \notin RangeOf(var_alloc_stack_) /\ ~badDelete

(* A list of distinct objects is deleted without a double delete.            *)
LEMMA DeleteDistinct ==
  ASSUME NEW S, NEW list \in Seq(S), DeleteAll(list), RangeOf(list) \subseteq heap, ~badDelete,
         \A i, j \in DOMAIN list : list[i] = list[j] => i = j
  PROVE  ~badDelete'
  <1>1. PICK n, range : n = Len(list) /\ range = RangeOf(list)
    OBVIOUS
  <1>2. n \in Nat /\ DOMAIN list = 1 .. n /\ list \in [1 .. n -> S]
    BY <1>1, LenProperties
  <1>3. list \in [1 .. n -> range] /\ \A x \in range : \E i \in 1 .. n : list[i] = x
    BY <1>1, <1>2 DEF RangeOf
  <1>4. list \in Bijection(1 .. n, range)
    BY <1>2, <1>3 DEF Bijection, Injection, Surjection, IsInjective
  <1>5. ExistsBijection(1 .. n, range)
    BY <1>4 DEF ExistsBijection
  <1>6. IsFiniteSet(1 .. n) /\ Cardinality(1 .. n) = n
    BY <1>2, FS_Interval
  <1>7. Cardinality(range) = n
    BY <1>5, <1>6, FS_Bijection
  <1>8. Cardinality(RangeOf(list)) = Len(list)
    BY <1>1, <1>7
  <1> QED
    BY <1>8 DEF DeleteAll

LEMMA NoneFreedStep ==
  ASSUME "chainable" \notin Throwers, IInv, ChainablesTracked, NoneFreed, [Next]_vars
  PROVE  NoneFreed'
  <1>1. /\ var_alloc_stack_ \in Seq(ChainableIds \cup {Freed})
        /\ Len(var_alloc_stack_) \in Nat /\ DOMAIN var_alloc_stack_ = 1 .. Len(var_alloc_stack_)
    BY Lengths DEF IInv, TapeOK
  <1>2. /\ RangeOf(var_alloc_stack_) = heap
        /\ \A i, j \in DOMAIN var_alloc_stack_ :
             var_alloc_stack_[i] = var_alloc_stack_[j] => i = j
    BY DEF NoneFreed, ChainablesTracked, RangeOf
  <1>3. CASE UNCHANGED <<var_alloc_stack_, badDelete>>
    BY <1>3 DEF NoneFreed
  <1>4. ASSUME NEW c \in ChainableIds, NewChainable(c) PROVE NoneFreed'
    <2>1. /\ DOMAIN var_alloc_stack_' = 1 .. Len(var_alloc_stack_) + 1
          /\ \A i \in 1 .. Len(var_alloc_stack_) : var_alloc_stack_'[i] = var_alloc_stack_[i]
          /\ var_alloc_stack_'[Len(var_alloc_stack_) + 1] = c
      BY <1>1, <1>4, PushBack DEF NewChainable
    <2>2. c # Freed
      BY AdTapeAssumption
    <2>3. \A i \in 1 .. Len(var_alloc_stack_) + 1 :
            i \in 1 .. Len(var_alloc_stack_) \/ i = Len(var_alloc_stack_) + 1
      BY <1>1
    <2>4. \A i \in 1 .. Len(var_alloc_stack_) + 1 : var_alloc_stack_'[i] # Freed
      BY <1>1, <2>1, <2>2, <2>3 DEF NoneFreed, RangeOf, Freed
    <2>5. ~badDelete'
      BY <1>4 DEF NewChainable, NoneFreed
    <2> QED
      BY <2>1, <2>4, <2>5 DEF NoneFreed, RangeOf, Freed
  <1>5. CASE recover_memory_nested
    <2>1. PICK m \in 0 .. Len(var_alloc_stack_) :
            /\ DeleteAll(SubSeq(var_alloc_stack_, m + 1, Len(var_alloc_stack_)))
            /\ DOMAIN var_alloc_stack_' = 1 .. m
            /\ \A p \in 1 .. m : var_alloc_stack_'[p] = var_alloc_stack_[p]
      BY <1>5, ObjectsAfter
    <2>2. PICK list : list = SubSeq(var_alloc_stack_, m + 1, Len(var_alloc_stack_))
      OBVIOUS
    <2>3. /\ list \in Seq(ChainableIds \cup {Freed})
          /\ DOMAIN list = 1 .. Len(var_alloc_stack_) - m
          /\ \A i \in DOMAIN list :
               m + i \in DOMAIN var_alloc_stack_ /\ list[i] = var_alloc_stack_[m + i]
      BY <2>2, ObjectsSplit DEF IInv
    <2>4. RangeOf(list) \subseteq heap
      BY <1>2, <2>3 DEF RangeOf
    <2>5. ASSUME NEW i \in DOMAIN list, NEW j \in DOMAIN list, list[i] = list[j] PROVE i = j
      <3>1. m + i = m + j
        BY <1>2, <2>3, <2>5
      <3>2. i \in Int /\ j \in Int
        BY <2>3
      <3> QED
        BY <3>1, <3>2
    <2>6. ~badDelete'
      BY <2>1, <2>2, <2>3, <2>4, <2>5, DeleteDistinct DEF NoneFreed
    <2>7. \A p \in 1 .. m : p \in 1 .. Len(var_alloc_stack_)
      BY <1>1
    <2>8. \A p \in 1 .. m : var_alloc_stack_'[p] # Freed
      BY <1>1, <2>1, <2>7 DEF NoneFreed, RangeOf, Freed
    <2> QED
      BY <2>1, <2>6, <2>8 DEF NoneFreed, RangeOf, Freed
  <1>6. CASE recover_memory
    <2>1. DeleteAll(var_alloc_stack_) /\ RangeOf(var_alloc_stack_)' = {}
      BY <1>6 DEF recover_memory, RangeOf
    <2>2. ~badDelete'
      BY <1>1, <1>2, <2>1, DeleteDistinct DEF NoneFreed
    <2> QED
      BY <2>1, <2>2 DEF NoneFreed
  <1>7. Next => \/ UNCHANGED <<var_alloc_stack_, badDelete>>
                \/ \E c \in ChainableIds : NewChainable(c)
                \/ recover_memory_nested
                \/ recover_memory
    BY DEF Next, Build, Sweep, Manage, NewVar, NewOp, NewCallback, NewVariThrows,
       NewChainableThrows, StartSweep, SweepStep, ChainReturns, EndSweep,
       set_zero_all_adjoints, set_zero_all_adjoints_nested, OpenScope, CloseScope,
       RecoverMemory, Throw, Unwind, Catch, tape, objects
  <1>8. UNCHANGED vars => UNCHANGED <<var_alloc_stack_, badDelete>>
    BY DEF vars, tape, objects
  <1> QED
    BY <1>3, <1>4, <1>5, <1>6, <1>7, <1>8

(* No chainable object is deleted that is gone, provided no constructor of   *)
(* a class derived from chainable_alloc throws: recover_memory and           *)
(* recover_memory_nested delete each object once.  When one throws, TLC      *)
(* finds the double delete.                                                  *)
THEOREM ObjectsDeletedOnce == "chainable" \notin Throwers => (Spec => []DeletedOnce)
  <1> SUFFICES ASSUME "chainable" \notin Throwers PROVE Spec => []DeletedOnce
    OBVIOUS
  <1>1. Init => NoneFreed
    BY DEF Init, NoneFreed, RangeOf
  <1>2. IInv /\ ChainablesTracked /\ NoneFreed /\ [Next]_vars => NoneFreed'
    BY NoneFreedStep
  <1>3. NoneFreed => DeletedOnce
    BY DEF NoneFreed, DeletedOnce
  <1> QED
    BY <1>1, <1>2, <1>3, Inductive, ObjectsTracked, PTL DEF Spec
-----------------------------------------------------------------------------
(* What the vari at a reads in chain() is no younger than itself: it will    *)
(* not be recovered first.                                                   *)
Older(a, vari) ==
  /\ vari.from \in 1 .. a
  /\ \A k \in DOMAIN vari.ops : vari.ops[k].v \in 1 .. a
  /\ \A c \in vari.holds : \E p \in DOMAIN var_alloc_stack_ :
       /\ var_alloc_stack_[p] = c
       /\ \A d \in 1 .. Len(nested_next_locs_) :
            a <= nested_next_locs_[d] => p <= nested_var_alloc_stack_starts_[d]

ReadsOK == \A a \in Live : Older(a, varis[a])

LEMMA MarkCounts ==
  ASSUME IInv
  PROVE  /\ nested_next_locs_ \in Seq(Nat) /\ nested_var_alloc_stack_starts_ \in Seq(Nat)
         /\ Len(nested_next_locs_) \in Nat
         /\ Len(nested_var_alloc_stack_starts_) = Len(nested_next_locs_)
         /\ Len(varis) \in Nat /\ Live = 1 .. Len(varis)
         /\ Len(var_alloc_stack_) \in Nat
         /\ DOMAIN var_alloc_stack_ = 1 .. Len(var_alloc_stack_)
         /\ \A d \in 1 .. Len(nested_next_locs_) :
              /\ nested_next_locs_[d] \in 0 .. Len(varis)
              /\ nested_var_alloc_stack_starts_[d] \in 0 .. Len(var_alloc_stack_)
  <1>1. /\ Cuts(nested_next_locs_, Len(varis))
        /\ Cuts(nested_var_alloc_stack_starts_, Len(var_alloc_stack_))
        /\ Len(nested_var_alloc_stack_starts_) = Len(nested_next_locs_)
    BY DEF IInv, TapeOK
  <1> QED
    BY <1>1, Lengths, LenProperties DEF Cuts, IInv

(* Objects that are pushed do not matter to the varis that are there.        *)
LEMMA OlderPushed ==
  ASSUME IInv, NEW c \in ChainableIds \cup {Freed},
         var_alloc_stack_' = Append(var_alloc_stack_, c), UNCHANGED marks,
         NEW a, NEW vari, Older(a, vari)
  PROVE  Older(a, vari)'
  <1>1. UNCHANGED <<nested_next_locs_, nested_var_alloc_stack_starts_>>
    BY DEF marks
  <1>2. /\ DOMAIN var_alloc_stack_' = 1 .. Len(var_alloc_stack_) + 1
        /\ \A p \in 1 .. Len(var_alloc_stack_) : var_alloc_stack_'[p] = var_alloc_stack_[p]
        /\ DOMAIN var_alloc_stack_ = 1 .. Len(var_alloc_stack_)
        /\ Len(var_alloc_stack_) \in Nat
    BY PushBack DEF IInv, TapeOK
  <1>3. \A p \in DOMAIN var_alloc_stack_ :
          p \in DOMAIN var_alloc_stack_' /\ var_alloc_stack_'[p] = var_alloc_stack_[p]
    BY <1>2
  <1> QED
    BY <1>1, <1>3 DEF Older

LEMMA OlderMarked ==
  ASSUME IInv, start_nested, UNCHANGED <<var_alloc_stack_, varis>>,
         NEW a \in Live, NEW vari, Older(a, vari)
  PROVE  Older(a, vari)'
  <1>1. PICK m : m = Len(nested_next_locs_)
    OBVIOUS
  <1>2. /\ m \in Nat /\ Len(nested_next_locs_') = m + 1
        /\ \A d \in 1 .. m : /\ nested_next_locs_'[d] = nested_next_locs_[d]
                             /\ nested_var_alloc_stack_starts_'[d]
                                  = nested_var_alloc_stack_starts_[d]
        /\ nested_var_alloc_stack_starts_'[m + 1] = Len(var_alloc_stack_)
    BY <1>1, MarkCounts, PushBack DEF start_nested
  <1>3. /\ \A d \in 1 .. m + 1 : d \in 1 .. m \/ d = m + 1
        /\ \A p \in DOMAIN var_alloc_stack_ : p <= Len(var_alloc_stack_)
    BY <1>2, MarkCounts
  <1>4. \A p \in DOMAIN var_alloc_stack_ :
          (\A d \in 1 .. m : a <= nested_next_locs_[d] => p <= nested_var_alloc_stack_starts_[d])
            => \A d \in 1 .. m + 1 :
                 a <= nested_next_locs_'[d] => p <= nested_var_alloc_stack_starts_'[d]
    BY <1>2, <1>3
  <1> QED
    BY <1>1, <1>2, <1>4 DEF Older

(* A recovery leaves what is needed by the varis it leaves.                  *)
LEMMA OlderRecovered ==
  ASSUME IInv, recover_memory_nested,
         NEW a \in Live', NEW vari, Older(a, vari)
  PROVE  Older(a, vari)'
  <1>1. PICK m \in 0 .. Len(var_alloc_stack_) :
          /\ m = LastOf(nested_var_alloc_stack_starts_)
          /\ DOMAIN var_alloc_stack_' = 1 .. m
          /\ \A p \in 1 .. m : var_alloc_stack_'[p] = var_alloc_stack_[p]
    BY ObjectsAfter
  <1>2. PICK n : n = Len(nested_next_locs_)
    OBVIOUS
  <1>3. /\ nested_next_locs_ # <<>> /\ a <= LastOf(nested_next_locs_)
    BY VarisAfter
  <1>4. /\ n \in Nat \ {0} /\ n = Len(nested_var_alloc_stack_starts_)
        /\ nested_var_alloc_stack_starts_ # <<>>
    BY <1>2, <1>3, MarkCounts, EmptySeq
  <1>5. /\ Len(nested_next_locs_') = n - 1
        /\ \A d \in 1 .. n - 1 : nested_next_locs_'[d] = nested_next_locs_[d]
        /\ LastOf(nested_next_locs_) = nested_next_locs_[n]
    BY <1>2, <1>3, MarkCounts, PopBack DEF recover_memory_nested, RecoverNestedArena
  <1>6. /\ \A d \in 1 .. n - 1 : nested_var_alloc_stack_starts_'[d]
                                   = nested_var_alloc_stack_starts_[d]
        /\ m = nested_var_alloc_stack_starts_[n]
    BY <1>1, <1>4, MarkCounts, PopBack DEF recover_memory_nested, RecoverNestedObjects
  <1>7. n \in 1 .. n /\ \A d \in 1 .. n - 1 : d \in 1 .. n
    BY <1>4
  <1>8. \A p \in DOMAIN var_alloc_stack_ : p <= m => p \in 1 .. m
    BY <1>1, MarkCounts
  <1>9. ASSUME NEW p \in DOMAIN var_alloc_stack_,
               \A d \in 1 .. n :
                 a <= nested_next_locs_[d] => p <= nested_var_alloc_stack_starts_[d]
        PROVE  /\ p \in DOMAIN var_alloc_stack_' /\ var_alloc_stack_'[p] = var_alloc_stack_[p]
               /\ \A d \in 1 .. n - 1 :
                    a <= nested_next_locs_'[d] => p <= nested_var_alloc_stack_starts_'[d]
    <2>1. p <= m
      BY <1>3, <1>5, <1>6, <1>7, <1>9
    <2> QED
      BY <1>1, <1>5, <1>6, <1>7, <1>8, <1>9, <2>1
  <1> QED
    BY <1>2, <1>5, <1>9 DEF Older

LEMMA ReadsStep ==
  ASSUME IInv, HeapOK, ChainablesTracked, ReadsOK, [Next]_vars
  PROVE  ReadsOK'
  <1>1. CASE UNCHANGED <<varis, var_alloc_stack_, marks>>
    <2>1. UNCHANGED <<nested_next_locs_, nested_var_alloc_stack_starts_>>
      BY <1>1 DEF marks
    <2> QED
      BY <1>1, <2>1 DEF ReadsOK, Older, Live
  <1>2. CASE NewVar \/ NewOp \/ NewCallback \/ NewVariThrows
    <2>1. PICK vari \in Vari :
            /\ Place(vari)
            /\ vari.from \in 1 .. Len(varis) + 1
            /\ \A k \in DOMAIN vari.ops : vari.ops[k].v \in Live
            /\ vari.holds \subseteq heap
      BY <1>2, PlacedVaris DEF IInv, HeapOK
    <2>2. /\ Len(varis) \in Nat /\ Live = 1 .. Len(varis) /\ Live' = 1 .. Len(varis) + 1
          /\ \A a \in Live : varis'[a] = varis[a]
          /\ varis'[Len(varis) + 1] = vari
      BY <2>1, VarisPlaced
    <2>3. UNCHANGED <<var_alloc_stack_, nested_next_locs_, nested_var_alloc_stack_starts_>>
      BY <1>2 DEF NewVar, NewOp, NewCallback, NewVariThrows, marks
    <2>4. \A x \in 1 .. Len(varis) : x \in 1 .. Len(varis) + 1
      BY <2>2
    <2>5. \A c \in vari.holds : \E p \in DOMAIN var_alloc_stack_ : var_alloc_stack_[p] = c
      BY <2>1 DEF ChainablesTracked, RangeOf
    <2>6. \A d \in 1 .. Len(nested_next_locs_) : ~(Len(varis) + 1 <= nested_next_locs_[d])
      BY <2>2, MarkCounts
    <2>7. Older(Len(varis) + 1, vari)
      BY <2>1, <2>2, <2>4, <2>5, <2>6 DEF Older
    <2>8. \A a \in Live' : a \in Live \/ a = Len(varis) + 1
      BY <2>2
    <2>9. \A a \in Live' : Older(a, varis'[a])
      BY <2>2, <2>7, <2>8 DEF ReadsOK
    <2> QED
      BY <2>3, <2>9 DEF ReadsOK, Older
  <1>3. ASSUME NEW c \in ChainableIds, NewChainable(c) \/ NewChainableThrows(c)
        PROVE  ReadsOK'
    <2>1. PICK x \in ChainableIds \cup {Freed} :
            var_alloc_stack_' = Append(var_alloc_stack_, x)
      BY <1>3 DEF NewChainable, NewChainableThrows
    <2>2. UNCHANGED <<marks, varis>>
      BY <1>3 DEF NewChainable, NewChainableThrows, memory
    <2>3. Live' = Live
      BY <2>2 DEF Live
    <2>4. \A a \in Live : Older(a, varis[a])'
      BY <2>1, <2>2, OlderPushed DEF ReadsOK
    <2> QED
      BY <2>3, <2>4 DEF ReadsOK
  <1>4. CASE OpenScope
    <2>1. start_nested /\ UNCHANGED <<var_alloc_stack_, varis>>
      BY <1>4 DEF OpenScope, tape, memory
    <2>2. Live' = Live
      BY <2>1 DEF Live
    <2>3. \A a \in Live : Older(a, varis[a])'
      BY <2>1, OlderMarked DEF ReadsOK
    <2> QED
      BY <2>2, <2>3 DEF ReadsOK
  <1>5. CASE recover_memory_nested
    <2>1. \A a \in Live' : a \in Live /\ varis'[a] = varis[a]
      BY <1>5, VarisAfter
    <2> SUFFICES ASSUME NEW a \in Live' PROVE Older(a, varis[a])'
      BY DEF ReadsOK
    <2>2. PICK vari : vari = varis[a]
      OBVIOUS
    <2>3. Older(a, vari)'
      BY <1>5, <2>1, <2>2, OlderRecovered DEF ReadsOK
    <2> QED
      BY <2>1, <2>2, <2>3
  <1>6. CASE recover_memory
    <2>1. Live' = {}
      BY <1>6 DEF recover_memory, Live
    <2> QED
      BY <2>1 DEF ReadsOK
  <1>7. Next => \/ UNCHANGED <<varis, var_alloc_stack_, marks>>
                \/ NewVar \/ NewOp \/ NewCallback \/ NewVariThrows
                \/ \E c \in ChainableIds : NewChainable(c) \/ NewChainableThrows(c)
                \/ OpenScope
                \/ recover_memory_nested
                \/ recover_memory
    BY DEF Next, Build, Sweep, Manage, StartSweep, SweepStep, ChainReturns, EndSweep,
       set_zero_all_adjoints, set_zero_all_adjoints_nested, CloseScope, RecoverMemory,
       Throw, Unwind, Catch, tape, memory
  <1>8. UNCHANGED vars => UNCHANGED <<varis, var_alloc_stack_, marks>>
    BY DEF vars, tape, memory
  <1> QED
    BY <1>1, <1>2, <1>3, <1>4, <1>5, <1>6, <1>7, <1>8

(* What a vari on the tape needs in its chain() still exists: its operands,  *)
(* the vari whose adjoint it reads and the chainable objects it holds.       *)
THEOREM ChainsReadLive == Spec => []ChainReadsLiveMemory
  <1>1. ASSUME IInv, ChainablesTracked, ReadsOK PROVE ChainReadsLiveMemory
    <2> SUFFICES ASSUME NEW i \in DOMAIN var_stack_, NEW vari, vari = varis[var_stack_[i]]
                 PROVE  /\ vari.from \in Live
                        /\ \A k \in DOMAIN vari.ops : vari.ops[k].v \in Live
                        /\ vari.holds \subseteq heap
      BY DEF ChainReadsLiveMemory
    <2>1. PICK a : a = var_stack_[i]
      OBVIOUS
    <2>2. a \in Live /\ Live = 1 .. Len(varis) /\ Len(varis) \in Nat
      BY <1>1, <2>1, Lengths DEF IInv, TapeOK, StackOK
    <2>3. Older(a, vari)
      BY <1>1, <2>1, <2>2 DEF ReadsOK
    <2>4. \A x \in 1 .. a : x \in Live
      BY <2>2
    <2>5. vari.holds \subseteq ChainableIds
      <3>1. vari \in Vari
        BY <1>1, <2>1, <2>2, ElementOfSeq DEF IInv, TapeOK
      <3> QED
        BY <3>1 DEF Vari
    <2>6. \A c \in vari.holds : c \in RangeOf(var_alloc_stack_) /\ c # Freed
      BY <2>3, <2>5, AdTapeAssumption DEF Older, RangeOf
    <2> QED
      BY <1>1, <2>3, <2>4, <2>6 DEF Older, ChainablesTracked
  <1>2. Init => ReadsOK
    BY DEF Init, ReadsOK, Live
  <1>3. IInv /\ HeapOK /\ ChainablesTracked /\ ReadsOK /\ [Next]_vars => ReadsOK'
    BY ReadsStep
  <1> QED
    BY <1>1, <1>2, <1>3, Inductive, ObjectsTracked, PTL DEF Spec
-----------------------------------------------------------------------------
(***************************************************************************)
(* Types.  What is left to show is that adjoints stay numbers, whatever    *)
(* the operands chain() adds to, and frames stay frames.                   *)
(***************************************************************************)
(* g[k] is adj after x times the partial has been added to the first k       *)
(* operands.                                                                 *)
IsChained(g, ops, x, n) ==
  g = [k \in 0 .. n |->
         IF k = 0 THEN adj
         ELSE [g[k - 1] EXCEPT ![ops[k].v] = @ + ops[k].d * x]]

LEMMA ChainedExists ==
  ASSUME NEW ops, NEW x, NEW n \in Nat
  PROVE  \E g : IsChained(g, ops, x, n)
  <1> DEFINE T == {m \in Nat : \E g : IsChained(g, ops, x, m)}
  <1>1. 0 \in T
    <2>1. IsChained([k \in 0 .. 0 |-> adj], ops, x, 0)
      BY DEF IsChained
    <2> QED
      BY <2>1
  <1>2. ASSUME NEW m \in T
        PROVE  m + 1 \in T
    <2>1. PICK g : IsChained(g, ops, x, m)
      OBVIOUS
    <2> DEFINE Turn(k) == IF k = 0 THEN adj
                          ELSE [g[k - 1] EXCEPT ![ops[k].v] = @ + ops[k].d * x]
    <2>2. \A k \in 0 .. m : g[k] = Turn(k)
      <3>1. PICK e : e = [k \in 0 .. m |-> Turn(k)]
        OBVIOUS
      <3>2. e = g
        BY <2>1, <3>1 DEF IsChained
      <3> HIDE DEF Turn
      <3> QED
        BY <3>1, <3>2
    <2>3. PICK h : h = [k \in 0 .. m + 1 |-> Turn(k)]
      OBVIOUS
    <2>4. \A k \in 0 .. m : h[k] = g[k]
      <3>1. \A k \in 0 .. m : k \in 0 .. m + 1
        OBVIOUS
      <3> HIDE DEF Turn
      <3> QED
        BY <2>2, <2>3, <3>1
    <2>5. \A k \in 0 .. m + 1 : k # 0 => h[k - 1] = g[k - 1]
      <3>1. \A k \in 0 .. m + 1 : k # 0 => k - 1 \in 0 .. m
        OBVIOUS
      <3> QED
        BY <2>4, <3>1
    <2>6. IsChained(h, ops, x, m + 1)
      BY <2>3, <2>5 DEF IsChained
    <2> QED
      BY <2>6
  <1>3. T = Nat
    <2> HIDE DEF T
    <2>1. T \in SUBSET Nat
      BY DEF T
    <2> QED
      BY <1>1, <1>2, <2>1, InductionOnNat
  <1> QED
    BY <1>3

LEMMA ChainedIs ==
  ASSUME NEW a, Len(varis[a].ops) \in Nat
  PROVE  \E g : /\ IsChained(g, varis[a].ops, adj[varis[a].from], Len(varis[a].ops))
                /\ Chained(a) = g[Len(varis[a].ops)]
  <1>1. \E g : IsChained(g, varis[a].ops, adj[varis[a].from], Len(varis[a].ops))
    BY ChainedExists
  <1>2. PICK g : g = CHOOSE h : IsChained(h, varis[a].ops, adj[varis[a].from],
                                          Len(varis[a].ops))
    OBVIOUS
  <1>3. IsChained(g, varis[a].ops, adj[varis[a].from], Len(varis[a].ops))
    BY <1>1, <1>2
  <1>4. Chained(a) = g[Len(varis[a].ops)]
    BY <1>2 DEF Chained, IsChained
  <1> QED
    BY <1>3, <1>4

(* An array of numbers is a sequence of them, also after one is added to.    *)
LEMMA Array ==
  ASSUME NEW l \in Nat, NEW f \in [1 .. l -> Int]
  PROVE  f \in Seq(Int) /\ Len(f) = l
  <1>1. f \in Seq(Int)
    BY SeqDef
  <1>2. Len(f) = l
    BY <1>1, LenProperties
  <1> QED
    BY <1>1, <1>2

LEMMA ArrayAdd ==
  ASSUME NEW l \in Nat, NEW f \in [1 .. l -> Int], NEW v, NEW y \in Int
  PROVE  [f EXCEPT ![v] = @ + y] \in [1 .. l -> Int]
  <1>1. CASE v \in 1 .. l
    <2>1. PICK z \in Int : z = f[v] + y
      BY <1>1
    <2>2. [f EXCEPT ![v] = z] \in [1 .. l -> Int]
      BY <1>1
    <2> QED
      BY <2>1, <2>2
  <1>2. CASE v \notin 1 .. l
    <2>1. [f EXCEPT ![v] = @ + y] = f
      BY <1>2
    <2> QED
      BY <2>1
  <1> QED
    BY <1>1, <1>2

Turns(g, ops, x, n) ==
  /\ g[0] = adj
  /\ \A k \in 1 .. n : g[k] = [g[k - 1] EXCEPT ![ops[k].v] = @ + ops[k].d * x]

LEMMA ChainedTurns ==
  ASSUME NEW g, NEW ops, NEW x, NEW n \in Nat, IsChained(g, ops, x, n)
  PROVE  Turns(g, ops, x, n)
  <1> DEFINE After(k) == [g[k - 1] EXCEPT ![ops[k].v] = @ + ops[k].d * x]
             Turn(k) == IF k = 0 THEN adj ELSE After(k)
  <1>1. PICK e : e = [k \in 0 .. n |-> Turn(k)]
    OBVIOUS
  <1>2. e = g
    BY <1>1 DEF IsChained
  <1> HIDE DEF After
  <1>3. \A k \in 0 .. n : g[k] = Turn(k)
    <2> HIDE DEF Turn
    <2> QED
      BY <1>1, <1>2
  <1>4. 0 \in 0 .. n /\ \A k \in 1 .. n : k \in 0 .. n /\ k # 0
    OBVIOUS
  <1>5. g[0] = adj /\ \A k \in 1 .. n : g[k] = After(k)
    BY <1>3, <1>4
  <1> QED
    BY <1>5, Zenon DEF After, Turns

(* chain() of a vari that reads an adjoint leaves an adjoint for every vari. *)
LEMMA ChainedTyped ==
  ASSUME adj \in Seq(Int), NEW a, varis[a].ops \in Seq(Operand),
         adj[varis[a].from] \in Int
  PROVE  Chained(a) \in Seq(Int) /\ Len(Chained(a)) = Len(adj)
  <1>1. PICK ops \in Seq(Operand), x \in Int, n \in Nat, l \in Nat :
          /\ ops = varis[a].ops /\ x = adj[varis[a].from]
          /\ n = Len(ops) /\ l = Len(adj)
    BY LenProperties
  <1>2. PICK g : IsChained(g, ops, x, n) /\ Chained(a) = g[n]
    BY <1>1, ChainedIs
  <1>3. Turns(g, ops, x, n)
    BY <1>1, <1>2, ChainedTurns
  <1> DEFINE T == {k \in Nat : k <= n => g[k] \in [1 .. l -> Int]}
  <1>4. 0 \in T
    <2>1. adj \in [1 .. l -> Int]
      BY <1>1, LenProperties
    <2>2. g[0] = adj
      BY <1>3 DEF Turns
    <2> QED
      BY <2>1, <2>2
  <1>5. ASSUME NEW k \in T
        PROVE  k + 1 \in T
    <2>0. k \in Nat /\ (k <= n => g[k] \in [1 .. l -> Int])
      OBVIOUS
    <2> HIDE DEF T
    <2> SUFFICES ASSUME k + 1 <= n PROVE g[k + 1] \in [1 .. l -> Int]
      BY <2>0 DEF T
    <2>1. PICK j \in 1 .. n : j = k + 1 /\ j - 1 = k /\ k <= n
      BY <2>0
    <2>2. g[j - 1] \in [1 .. l -> Int]
      BY <2>0, <2>1
    <2>3. ops[j] \in Operand
      BY <1>1, <2>1, ElementOfSeq
    <2>4. PICK d \in Int : d = ops[j].d
      BY <2>3, AdTapeAssumption DEF Operand
    <2>5. ops[j].d * x \in Int
      BY <1>1, <2>4
    <2>6. [g[j - 1] EXCEPT ![ops[j].v] = @ + ops[j].d * x] \in [1 .. l -> Int]
      BY <1>1, <2>2, <2>5, ArrayAdd, Zenon
    <2>7. g[j] = [g[j - 1] EXCEPT ![ops[j].v] = @ + ops[j].d * x]
      BY <1>3, <2>1, Zenon DEF Turns
    <2> QED
      BY <2>1, <2>6, <2>7, Zenon
  <1>6. g[n] \in [1 .. l -> Int]
    <2>1. T = Nat
      <3> HIDE DEF T
      <3>1. T \in SUBSET Nat
        BY DEF T
      <3> QED
        BY <1>4, <1>5, <3>1, InductionOnNat
    <2>2. n \in T => (n <= n => g[n] \in [1 .. l -> Int])
      OBVIOUS
    <2>3. n \in T /\ n <= n
      <3> HIDE DEF T
      <3> QED
        BY <1>1, <2>1
    <2> QED
      BY <2>2, <2>3, Zenon
  <1>7. g[n] \in Seq(Int) /\ Len(g[n]) = l
    BY <1>1, <1>6, Array
  <1> QED
    BY <1>1, <1>2, <1>7

AdjTyped == adj \in Seq(Int) /\ Len(adj) = Len(varis)
FramesTyped == control \in Seq(Frame)
FlagsTyped == badDelete \in BOOLEAN /\ exception \in {"none", "raised", "left"}

(* The vari a sweep comes to next, and the vari in whose chain() it is.      *)
LEMMA SweptIsLive ==
  ASSUME IInv, control # <<>>
  PROVE  /\ Top.kind = "grad" =>
              /\ Top.i \in Nat /\ Top.beginning \in Nat
              /\ Top.i > Top.beginning => var_stack_[Top.i] \in Live
         /\ Top.kind = "chain" => Top.vari \in Live
  <1>1. PICK S : control \in Seq(S)
    BY DEF IInv, Frames
  <1>2. PICK m : m = Len(control)
    OBVIOUS
  <1>3. m \in DOMAIN control /\ Top = control[m]
    BY <1>1, <1>2, LenProperties, EmptySeq DEF Top, LastOf
  <1>4. PICK pos : FramesAt(pos)
    BY DEF IInv
  <1>5. /\ Live = 1 .. Len(varis) /\ Len(var_stack_) \in Nat
        /\ \A i \in 1 .. Len(var_stack_) : var_stack_[i] \in Live
    BY Lengths DEF IInv, TapeOK, StackOK
  <1>6. ASSUME Top.kind = "grad"
        PROVE  /\ Top.i \in Nat /\ Top.beginning \in Nat
               /\ Top.i > Top.beginning => var_stack_[Top.i] \in Live
    <2>1. SweepOK(pos, m, Top)
      BY <1>3, <1>4, <1>6 DEF FramesAt
    <2>2. Top.i \in Nat /\ Top.beginning \in Nat /\ Top.i <= Len(var_stack_)
      BY <2>1 DEF SweepOK, Keeps
    <2> QED
      BY <1>5, <2>2
  <1>7. ASSUME Top.kind = "chain"
        PROVE  Top.vari \in Live
    <2>1. m - 1 \in DOMAIN control /\ ChainOK(pos, m, control[m - 1], Top)
      BY <1>3, <1>4, <1>7 DEF FramesAt
    <2>2. PICK g : g = control[m - 1]
      OBVIOUS
    <2>3. g.kind = "grad" /\ g.i + 1 <= Len(var_stack_) /\ var_stack_[g.i + 1] = Top.vari
      BY <2>1, <2>2 DEF ChainOK, Keeps
    <2>4. g.i \in Nat
      BY <1>4, <2>1, <2>2, <2>3 DEF FramesAt, SweepOK
    <2> QED
      BY <1>5, <2>3, <2>4
  <1> QED
    BY <1>6, <1>7

LEMMA ChainKeepsAdjTyped ==
  ASSUME IInv, ReadsOK, AdjTyped, NEW a \in Live, adj' = Chained(a), varis' = varis
  PROVE  AdjTyped'
  <1>1. Live = 1 .. Len(varis) /\ Len(varis) \in Nat /\ varis \in Seq(Vari)
    BY Lengths DEF IInv, TapeOK
  <1>2. varis[a] \in Vari /\ varis[a].from \in 1 .. a
    BY <1>1, ElementOfSeq DEF ReadsOK, Older
  <1>3. varis[a].from \in 1 .. Len(adj) /\ varis[a].ops \in Seq(Operand)
    BY <1>1, <1>2 DEF AdjTyped, Vari
  <1>4. adj[varis[a].from] \in Int
    BY <1>3, ElementOfSeq DEF AdjTyped
  <1> QED
    BY <1>3, <1>4, ChainedTyped DEF AdjTyped

LEMMA AdjStep ==
  ASSUME IInv, HeapOK, ReadsOK, AdjTyped, [Next]_vars
  PROVE  AdjTyped'
  <1>0. /\ Live = 1 .. Len(varis) /\ Len(varis) \in Nat /\ varis \in Seq(Vari)
        /\ adj \in Seq(Int) /\ Len(adj) = Len(varis)
    BY Lengths DEF IInv, TapeOK, AdjTyped
  <1>1. CASE UNCHANGED memory
    BY <1>1 DEF memory, AdjTyped
  <1>2. CASE NewVar \/ NewOp \/ NewCallback \/ NewVariThrows
    <2>1. PICK vari \in Vari : Place(vari)
      BY <1>2, PlacedVaris DEF IInv, HeapOK
    <2>2. Len(varis') = Len(varis) + 1
      BY <1>0, <2>1, PushBack DEF Place
    <2>3. adj' \in Seq(Int) /\ Len(adj') = Len(adj) + 1
      BY <1>0, <2>1, PushBack DEF Place
    <2> QED
      BY <1>0, <2>2, <2>3 DEF AdjTyped
  <1>3. CASE recover_memory_nested
    <2>1. PICK n \in 0 .. Len(varis) : n = LastOf(nested_next_locs_)
      <3>1. Cuts(nested_next_locs_, Len(varis)) /\ nested_next_locs_ # <<>>
        BY <1>3, VarisAfter DEF IInv, TapeOK
      <3> QED
        BY <1>0, <3>1, CutsBack
    <2>2. varis' = Truncate(varis, n) /\ adj' = Truncate(adj, n)
      BY <1>3, <2>1 DEF recover_memory_nested, RecoverNestedArena
    <2>3. Len(varis') = n
      BY <1>0, <2>2, Resize
    <2>4. adj' \in Seq(Int) /\ Len(adj') = n
      BY <1>0, <2>2, Resize
    <2> QED
      BY <2>3, <2>4 DEF AdjTyped
  <1>4. CASE recover_memory
    <2>1. adj' = <<>> /\ varis' = <<>>
      BY <1>4 DEF recover_memory
    <2> QED
      BY <2>1 DEF AdjTyped
  <1>5. ASSUME NEW root \in Usable \cup {0}, StartSweep(root)
        PROVE  AdjTyped'
    <2>1. varis' = varis /\ adj' = IF root = 0 THEN adj ELSE [adj EXCEPT ![root] = 1]
      BY <1>5 DEF StartSweep
    <2>2. root # 0 => root \in 1 .. Len(adj)
      BY <1>0, <1>5 DEF Usable
    <2>3. root # 0 => /\ [adj EXCEPT ![root] = 1] \in Seq(Int)
                      /\ Len([adj EXCEPT ![root] = 1]) = Len(adj)
      BY <1>0, <2>2, ExceptSeq
    <2> QED
      BY <1>0, <2>1, <2>3 DEF AdjTyped
  <1>6. CASE SweepStep
    <2>1. /\ control # <<>> /\ Top.kind = "grad" /\ Top.i > Top.beginning
          /\ varis' = varis
          /\ adj' = adj \/ adj' = Chained(var_stack_[Top.i])
      BY <1>6 DEF SweepStep, TopIs
    <2>2. var_stack_[Top.i] \in Live
      BY <2>1, SweptIsLive
    <2> QED
      BY <2>1, <2>2, ChainKeepsAdjTyped DEF AdjTyped
  <1>7. CASE ChainReturns
    <2>1. /\ control # <<>> /\ Top.kind = "chain" /\ varis' = varis
          /\ adj' = Chained(Top.vari)
      BY <1>7 DEF ChainReturns, TopIs
    <2>2. Top.vari \in Live
      BY <2>1, SweptIsLive
    <2> QED
      BY <2>1, <2>2, ChainKeepsAdjTyped
  <1>8. ASSUME NEW addresses, SetZero(addresses), varis' = varis
        PROVE  AdjTyped'
    <2>1. \A a \in Live : adj[a] \in Int
      BY <1>0, ElementOfSeq
    <2>2. PICK l : l = Len(varis)
      OBVIOUS
    <2>3. l \in Nat /\ adj' \in [1 .. l -> Int]
      BY <1>0, <1>8, <2>1, <2>2 DEF SetZero
    <2>4. adj' \in Seq(Int)
      BY <2>3, SeqDef
    <2>5. Len(adj') = l
      BY <2>3, <2>4, LenProperties
    <2> QED
      BY <1>8, <2>2, <2>4, <2>5 DEF AdjTyped
  <1>9. CASE Build
    BY <1>1, <1>2, <1>9 DEF Build, NewChainable, NewChainableThrows
  <1>10. CASE Sweep
    BY <1>1, <1>5, <1>6, <1>7, <1>8, <1>10
       DEF Sweep, EndSweep, set_zero_all_adjoints, set_zero_all_adjoints_nested
  <1>11. CASE Manage
    BY <1>1, <1>3, <1>4, <1>11
       DEF Manage, OpenScope, CloseScope, RecoverMemory, Throw, Unwind, Catch
  <1>12. CASE UNCHANGED vars
    BY <1>1, <1>12 DEF vars
  <1> QED
    BY <1>9, <1>10, <1>11, <1>12 DEF Next

LEMMA FramesStayTyped ==
  ASSUME IInv, IInv', AdjTyped', FramesTyped, [Next]_vars
  PROVE  FramesTyped'
  <1>0. control \in Seq(Frame)
    BY DEF FramesTyped
  <1>1. CASE control' = control
    BY <1>0, <1>1 DEF FramesTyped
  <1>2. ASSUME NEW f \in Frame, control' = Append(control, f)
        PROVE  FramesTyped'
    BY <1>0, <1>2, PushBack DEF FramesTyped
  <1>3. ASSUME control # <<>>, control' = FrontOf(control)
        PROVE  FramesTyped'
    BY <1>0, <1>3, PopBack DEF FramesTyped
  <1>4. CASE OpenScope
    <2>1. [kind |-> "scope"] \in Frame
      BY DEF Frame
    <2> QED
      BY <1>2, <1>4, <2>1 DEF OpenScope
  <1>5. ASSUME NEW root, StartSweep(root)
        PROVE  FramesTyped'
    <2>1. PICK f : /\ control' = Append(control, f) /\ f.kind = "grad" /\ f.start = adj'
                   /\ f = [kind |-> "grad", i |-> f.i, beginning |-> f.beginning,
                           start |-> f.start]
      BY <1>5 DEF StartSweep
    <2>2. control' # <<>> /\ LastOf(control') = f
      <3>1. Frames
        BY DEF IInv
      <3>2. PICK m \in Nat : m = Len(control)
        BY <1>0, LenProperties
      <3>3. Len(control') = m + 1 /\ control'[m + 1] = f
        BY <2>1, <3>1, <3>2, FramesPush
      <3>4. m + 1 # 0
        BY <3>2
      <3> QED
        BY <3>3, <3>4 DEF LastOf
    <2>3. f.i \in Nat /\ f.beginning \in Nat
      <3>1. Top' = f
        BY <2>2 DEF Top
      <3>2. PICK S : control' \in Seq(S)
        BY DEF IInv, Frames
      <3>3. PICK pos : FramesAt(pos)'
        BY DEF IInv
      <3>4. Len(control') \in DOMAIN control' /\ control'[Len(control')] = f
        BY <2>2, <3>2, LenProperties, EmptySeq DEF LastOf
      <3> QED
        BY <2>1, <3>3, <3>4 DEF FramesAt, SweepOK
    <2>4. f \in Frame
      BY <2>1, <2>3 DEF Frame, AdjTyped
    <2> QED
      BY <1>2, <2>1, <2>4
  <1>6. CASE SweepStep
    <2>1. PICK m, f, g, c, t :
            /\ m = Len(control) /\ f = Top /\ g = [f EXCEPT !.i = @ - 1]
            /\ c = [kind |-> "chain", vari |-> var_stack_[f.i]]
            /\ t = Turned(g)
      OBVIOUS
    <2>2. /\ control # <<>> /\ f.kind = "grad" /\ f.i > f.beginning
          /\ control' = t \/ control' = Append(t, c)
      BY <1>6, <2>1 DEF SweepStep, TopIs, Top, LastOf, Turned
    <2>3. f.i \in Nat /\ f.beginning \in Nat /\ var_stack_[f.i] \in Live
      BY <2>1, <2>2, SweptIsLive
    <2>4. m \in 1 .. m /\ f = control[m]
      BY <1>0, <2>1, <2>2, LenProperties, EmptySeq DEF Top, LastOf
    <2>5. f \in Frame
      BY <1>0, <2>1, <2>4, ElementOfSeq
    <2>6. f \in [kind : {"grad"}, i : Nat, beginning : Nat, start : Seq(Int)]
      BY <2>2, <2>5 DEF Frame
    <2>7. g \in Frame
      BY <2>1, <2>2, <2>3, <2>6 DEF Frame
    <2>8. t \in Seq(Frame)
      BY <1>0, <2>1, <2>4, <2>7, ExceptSeq DEF Turned
    <2>9. c \in Frame
      <3>1. var_stack_[f.i] \in Nat
        BY <2>3, Lengths DEF IInv
      <3> QED
        BY <2>1, <3>1 DEF Frame
    <2> QED
      BY <2>2, <2>8, <2>9, PushBack DEF FramesTyped
  <1>7. CASE Build
    BY <1>1, <1>7 DEF Build, NewVar, NewOp, NewCallback, NewVariThrows, NewChainable,
       NewChainableThrows
  <1>8. CASE Sweep
    BY <1>1, <1>3, <1>5, <1>6, <1>8
       DEF Sweep, ChainReturns, EndSweep, TopIs, set_zero_all_adjoints,
           set_zero_all_adjoints_nested
  <1>9. CASE Manage
    BY <1>1, <1>3, <1>4, <1>9
       DEF Manage, CloseScope, TopIs, RecoverMemory, Throw, Unwind, Catch
  <1>10. CASE UNCHANGED vars
    BY <1>1, <1>10 DEF vars
  <1> QED
    BY <1>7, <1>8, <1>9, <1>10 DEF Next

LEMMA FlagsStep ==
  ASSUME FlagsTyped, [Next]_vars
  PROVE  FlagsTyped'
  <1>1. badDelete' \in BOOLEAN
    <2>1. CASE UNCHANGED objects
      BY <2>1 DEF objects, FlagsTyped
    <2>2. ASSUME NEW list, DeleteAll(list)
          PROVE  badDelete' \in BOOLEAN
      <3> DEFINE bad == \/ badDelete
                        \/ ~(RangeOf(list) \subseteq heap)
                        \/ Cardinality(RangeOf(list)) # Len(list)
      <3>1. badDelete' = bad
        BY <2>2, Zenon DEF DeleteAll
      <3>2. bad \in BOOLEAN
        BY Zenon
      <3> HIDE DEF bad
      <3> QED
        BY <3>1, <3>2
    <2>3. CASE Build
      <3>1. CASE \E c \in ChainableIds : NewChainable(c) \/ NewChainableThrows(c)
        BY <3>1 DEF NewChainable, NewChainableThrows, FlagsTyped, objects
      <3> QED
        BY <2>1, <2>3, <3>1 DEF Build, NewVar, NewOp, NewCallback, NewVariThrows, objects
    <2>4. CASE Sweep
      BY <2>1, <2>4 DEF Sweep, StartSweep, SweepStep, ChainReturns, EndSweep,
         set_zero_all_adjoints, set_zero_all_adjoints_nested
    <2>5. CASE Manage
      BY <2>1, <2>2, <2>5 DEF Manage, OpenScope, CloseScope, RecoverMemory, Throw, Unwind,
         Catch, recover_memory_nested, recover_memory, RecoverNestedObjects
    <2>6. CASE UNCHANGED vars
      BY <2>1, <2>6 DEF vars
    <2> QED
      BY <2>3, <2>4, <2>5, <2>6 DEF Next
  <1>2. exception' \in {"none", "raised", "left"}
    <2>1. CASE Build
      BY <2>1 DEF FlagsTyped, Build, NewVar, NewOp, NewCallback, NewVariThrows,
         NewChainable, NewChainableThrows
    <2>2. CASE Sweep
      BY <2>2 DEF FlagsTyped, Sweep, StartSweep, SweepStep, ChainReturns, EndSweep,
         set_zero_all_adjoints, set_zero_all_adjoints_nested
    <2>3. CASE Manage
      BY <2>3 DEF FlagsTyped, Manage, OpenScope, CloseScope, RecoverMemory, Throw, Unwind,
         Catch
    <2>4. CASE UNCHANGED vars
      BY <2>4 DEF FlagsTyped, vars
    <2> QED
      BY <2>1, <2>2, <2>3, <2>4 DEF Next
  <1> QED
    BY <1>1, <1>2 DEF FlagsTyped

(* What every variable of the tape holds; in particular there is one adjoint *)
(* for each vari and it stays a number, whatever operands and partials       *)
(* chain() goes through.                                                     *)
THEOREM TypeCorrect == Spec => []TypeOK
  <1> DEFINE Typed == ReadsOK /\ AdjTyped /\ FramesTyped /\ FlagsTyped
  <1>1. Init => Typed
    <2>1. <<>> \in Seq(Int) /\ <<>> \in Seq(Frame) /\ Len(<<>>) = 0
      BY EmptySeq
    <2>2. Init => ReadsOK
      BY DEF Init, ReadsOK, Live
    <2>3. Init => AdjTyped /\ FramesTyped
      BY <2>1, Zenon DEF Init, AdjTyped, FramesTyped
    <2>4. Init => FlagsTyped
      BY DEF Init, FlagsTyped
    <2> QED
      BY <2>2, <2>3, <2>4
  <1>2. /\ IInv /\ HeapOK /\ (IInv /\ HeapOK)' /\ ChainablesTracked /\ Typed
        /\ [Next]_vars
        => Typed'
    BY ReadsStep, AdjStep, FramesStayTyped, FlagsStep
  <1>3. IInv /\ HeapOK /\ Typed => TypeOK
    BY DEF IInv, TapeOK, StackOK, Cuts, HeapOK, AdjTyped, FramesTyped, FlagsTyped, TypeOK
  <1> HIDE DEF Typed
  <1> QED
    BY <1>1, <1>2, <1>3, Inductive, ObjectsTracked, PTL DEF Spec
-----------------------------------------------------------------------------
(* The scopes that were open when the vari at a was placed.                  *)
Below(locs, a) == {d \in DOMAIN locs : locs[d] < a}

LEMMA BelowCounted ==
  ASSUME NEW locs \in Seq(Nat), NEW a \in Nat
  PROVE  /\ Len(locs) \in Nat /\ DOMAIN locs = 1 .. Len(locs)
         /\ Cardinality(Below(locs, a)) \in Nat
         /\ (\A d \in DOMAIN locs : locs[d] < a) => Cardinality(Below(locs, a)) = Len(locs)
         /\ locs # <<>> /\ ~(LastOf(locs) < a) => Cardinality(Below(locs, a)) < Len(locs)
  <1>1. PICK n, below : n = Len(locs) /\ below = Below(locs, a)
    OBVIOUS
  <1>0. n \in Nat /\ DOMAIN locs = 1 .. n /\ below \subseteq 1 .. n
    BY <1>1, LenProperties DEF Below
  <1>2. /\ n \in Nat /\ DOMAIN locs = 1 .. n /\ IsFiniteSet(1 .. n)
        /\ Cardinality(1 .. n) = n /\ below \subseteq 1 .. n
    BY <1>0, FS_Interval
  <1>3. IsFiniteSet(below)
    BY <1>2, FS_Subset
  <1>4. Cardinality(below) \in Nat
    BY <1>3, FS_CardinalityType
  <1>5. ASSUME \A d \in DOMAIN locs : locs[d] < a PROVE Cardinality(below) = n
    <2>1. below = 1 .. n
      BY <1>1, <1>2, <1>5 DEF Below
    <2> QED
      BY <1>2, <2>1
  <1>6. ASSUME locs # <<>>, ~(LastOf(locs) < a) PROVE Cardinality(below) < n
    <2>1. n # 0 /\ n - 1 \in Int /\ n \notin below
      BY <1>1, <1>2, <1>6, EmptySeq DEF LastOf, Below
    <2>2. below \subseteq 1 .. n - 1
      BY <1>2, <2>1
    <2>3. IsFiniteSet(1 .. n - 1) /\ Cardinality(1 .. n - 1) = n - 1
      BY <1>2, <2>1, FS_Interval
    <2>4. below \in SUBSET (1 .. n - 1)
      BY <2>2
    <2>5. Cardinality(below) <= Cardinality(1 .. n - 1)
      BY <2>3, <2>4, FS_Subset, Zenon
    <2> QED
      BY <1>2, <1>4, <2>3, <2>5
  <1> QED
    BY <1>1, <1>2, <1>4, <1>5, <1>6

(* The region of the vari at a.                                              *)
Placed(locs, a) ==
  [blk |-> 0, off |-> a, len |-> 1, lvl |-> Cardinality(Below(locs, a))]

LiveRegions == {Placed(nested_next_locs_, a) : a \in Live}

ArenaStep ==
  \/ /\ \E r \in LiveRegions' : /\ r \in [blk : {0}, off : Nat, len : {1}, lvl : Nat]
                                /\ r.lvl = Len(nested_next_locs_)
                                /\ \A s \in LiveRegions : s.off + s.len <= r.off
                                /\ LiveRegions' = LiveRegions \cup {r}
     /\ UNCHANGED Len(nested_next_locs_)
  \/ /\ Len(nested_next_locs_') = Len(nested_next_locs_) + 1
     /\ UNCHANGED LiveRegions
  \/ /\ Len(nested_next_locs_) > 0
     /\ Len(nested_next_locs_') = Len(nested_next_locs_) - 1
     /\ LiveRegions' = {r \in LiveRegions : r.lvl < Len(nested_next_locs_)}
  \/ /\ Len(nested_next_locs_) = 0
     /\ LiveRegions' = {}
     /\ UNCHANGED Len(nested_next_locs_)
  \/ UNCHANGED <<LiveRegions, Len(nested_next_locs_)>>

LEMMA PlaceIsAlloc ==
  ASSUME IInv, NEW vari \in Vari, Place(vari), UNCHANGED nested_next_locs_
  PROVE  ArenaStep
  <1>1. /\ Len(varis) \in Nat /\ Live = 1 .. Len(varis) /\ Live' = 1 .. Len(varis) + 1
    BY VarisPlaced
  <1>2. PICK locs, n, r : /\ locs = nested_next_locs_ /\ n = Len(varis)
                          /\ r = Placed(locs, n + 1)
    OBVIOUS
  <1>3. /\ locs \in Seq(Nat) /\ DOMAIN locs = 1 .. Len(locs)
        /\ \A d \in 1 .. Len(locs) : locs[d] \in 0 .. n
    BY <1>2, MarkCounts, LenProperties
  <1>4. Cardinality(Below(locs, n + 1)) = Len(locs) /\ Len(locs) \in Nat /\ n + 1 \in Nat
    <2>1. PICK b : b = n + 1
      OBVIOUS
    <2>2. b \in Nat /\ \A d \in DOMAIN locs : locs[d] < b
      BY <1>1, <1>2, <1>3, <2>1
    <2>3. Cardinality(Below(locs, b)) = Len(locs) /\ Len(locs) \in Nat
      BY <1>3, <2>2, BelowCounted
    <2> QED
      BY <2>1, <2>2, <2>3
  <1>5. r \in [blk : {0}, off : Nat, len : {1}, lvl : Nat] /\ r.lvl = Len(locs) /\ r.off = n + 1
    BY <1>2, <1>4 DEF Placed
  <1>6. LiveRegions = {Placed(locs, a) : a \in 1 .. n}
    BY <1>1, <1>2 DEF LiveRegions
  <1>7. LiveRegions' = {Placed(locs, a) : a \in 1 .. n + 1}
    BY <1>1, <1>2 DEF LiveRegions
  <1>8. /\ \A a \in 1 .. n + 1 : a \in 1 .. n \/ a = n + 1
        /\ \A a \in 1 .. n : a \in 1 .. n + 1
        /\ n + 1 \in 1 .. n + 1
    BY <1>1, <1>2
  <1>9. LiveRegions' = LiveRegions \cup {r}
    BY <1>2, <1>6, <1>7, <1>8
  <1>10. ASSUME NEW s \in LiveRegions PROVE s.off + s.len <= r.off
    <2>1. PICK a \in 1 .. n : s = Placed(locs, a)
      BY <1>6
    <2>2. s.off = a /\ s.len = 1
      BY <2>1 DEF Placed
    <2> QED
      BY <1>1, <1>2, <1>5, <2>1, <2>2
  <1> QED
    BY <1>2, <1>5, <1>9, <1>10 DEF ArenaStep

LEMMA MarkIsStart ==
  ASSUME IInv, start_nested, UNCHANGED varis
  PROVE  ArenaStep
  <1>1. PICK locs, n, m : /\ locs = nested_next_locs_ /\ n = Len(varis) /\ m = Len(locs)
    OBVIOUS
  <1>2. /\ n \in Nat /\ Live = 1 .. n /\ Live' = 1 .. n /\ locs \in Seq(Nat)
        /\ nested_next_locs_' = Append(locs, n)
    BY <1>1, MarkCounts DEF start_nested, Live
  <1>3. /\ m \in Nat /\ DOMAIN locs = 1 .. m /\ Len(Append(locs, n)) = m + 1
        /\ DOMAIN Append(locs, n) = 1 .. m + 1
        /\ \A d \in 1 .. m : Append(locs, n)[d] = locs[d]
        /\ Append(locs, n)[m + 1] = n
    BY <1>1, <1>2, PushBack
  <1>4. ASSUME NEW a \in 1 .. n PROVE Placed(Append(locs, n), a) = Placed(locs, a)
    <2>1. /\ \A d \in 1 .. m + 1 : d \in 1 .. m \/ d = m + 1
          /\ \A d \in 1 .. m : d \in 1 .. m + 1
          /\ ~(n < a)
      BY <1>2, <1>3
    <2>2. Below(Append(locs, n), a) = Below(locs, a)
      BY <1>3, <2>1 DEF Below
    <2> QED
      BY <2>2 DEF Placed
  <1>5. UNCHANGED LiveRegions
    <2>1. LiveRegions = {Placed(locs, a) : a \in 1 .. n}
      BY <1>1, <1>2 DEF LiveRegions
    <2>2. LiveRegions' = {Placed(Append(locs, n), a) : a \in 1 .. n}
      BY <1>2 DEF LiveRegions
    <2> QED
      BY <1>4, <2>1, <2>2
  <1> QED
    BY <1>1, <1>2, <1>3, <1>5 DEF ArenaStep

LEMMA RecoverNestedIsRecover ==
  ASSUME IInv, recover_memory_nested
  PROVE  ArenaStep
  <1>1. PICK locs, n, m, top : /\ locs = nested_next_locs_ /\ n = Len(varis) /\ m = Len(locs)
                               /\ top = LastOf(locs)
    OBVIOUS
  <1>2. /\ n \in Nat /\ Live = 1 .. n /\ locs \in Seq(Nat) /\ locs # <<>>
        /\ top \in 0 .. n /\ Live' = 1 .. top
        /\ nested_next_locs_' = FrontOf(locs)
    BY <1>1, MarkCounts, VarisAfter DEF recover_memory_nested, RecoverNestedArena
  <1>3. /\ m \in Nat \ {0} /\ DOMAIN locs = 1 .. m /\ Len(FrontOf(locs)) = m - 1
        /\ DOMAIN FrontOf(locs) = 1 .. m - 1
        /\ \A d \in 1 .. m - 1 : FrontOf(locs)[d] = locs[d]
        /\ top = locs[m]
    BY <1>1, <1>2, PopBack, LenProperties
  <1>4. \A d \in 1 .. m : locs[d] <= top
    <2>1. m \in 1 .. m /\ \A d \in 1 .. m : d <= m
      BY <1>3
    <2> QED
      BY <1>1, <1>3, <2>1 DEF IInv, TapeOK, Cuts
  <1>5. ASSUME NEW a \in 1 .. n
        PROVE  Placed(locs, a).lvl < m <=> a \in 1 .. top
    <2>1. Placed(locs, a).lvl = Cardinality(Below(locs, a))
      BY DEF Placed
    <2>2. CASE a \in 1 .. top
      <3>1. ~(LastOf(locs) < a) /\ a \in Nat
        BY <1>1, <1>2, <2>2
      <3>2. Cardinality(Below(locs, a)) < m
        BY <1>1, <1>2, <3>1, BelowCounted
      <3> QED
        BY <2>1, <2>2, <3>2
    <2>3. CASE a \notin 1 .. top
      <3>1. top < a /\ a \in Nat
        BY <1>2, <2>3
      <3>2. \A d \in DOMAIN locs : locs[d] < a
        <4>1. \A d \in 1 .. m : locs[d] \in Nat
          BY <1>1, <1>2, ElementOfSeq
        <4> QED
          BY <1>2, <1>3, <1>4, <3>1, <4>1
      <3>3. Cardinality(Below(locs, a)) = m
        BY <1>1, <1>2, <3>1, <3>2, BelowCounted
      <3> QED
        BY <1>3, <2>1, <2>3, <3>3
    <2> QED
      BY <2>2, <2>3
  <1>6. ASSUME NEW a \in 1 .. top PROVE Placed(FrontOf(locs), a) = Placed(locs, a)
    <2>1. /\ \A d \in 1 .. m : d \in 1 .. m - 1 \/ d = m
          /\ \A d \in 1 .. m - 1 : d \in 1 .. m
          /\ ~(top < a)
      BY <1>2, <1>3
    <2>2. Below(FrontOf(locs), a) = Below(locs, a)
      BY <1>3, <2>1 DEF Below
    <2> QED
      BY <2>2 DEF Placed
  <1>7. LiveRegions' = {r \in LiveRegions : r.lvl < m}
    <2>1. LiveRegions = {Placed(locs, a) : a \in 1 .. n}
      BY <1>1, <1>2 DEF LiveRegions
    <2>2. LiveRegions' = {Placed(FrontOf(locs), a) : a \in 1 .. top}
      BY <1>2 DEF LiveRegions
    <2>3. \A a \in 1 .. top : a \in 1 .. n
      BY <1>2
    <2>4. ASSUME NEW r \in LiveRegions' PROVE r \in LiveRegions /\ r.lvl < m
      <3>1. PICK a \in 1 .. top : r = Placed(locs, a)
        BY <1>6, <2>2, <2>4
      <3> QED
        BY <1>5, <2>1, <2>3, <3>1
    <2>5. ASSUME NEW r \in LiveRegions, r.lvl < m PROVE r \in LiveRegions'
      <3>1. PICK a \in 1 .. n : r = Placed(locs, a)
        BY <2>1
      <3>2. a \in 1 .. top
        BY <1>5, <2>5, <3>1
      <3> QED
        BY <1>6, <2>2, <3>1, <3>2
    <2> QED
      BY <2>4, <2>5
  <1> QED
    BY <1>1, <1>2, <1>3, <1>7 DEF ArenaStep

LEMMA StepIsArenaStep ==
  ASSUME IInv, HeapOK, [Next]_vars
  PROVE  ArenaStep
  <1>1. CASE UNCHANGED <<varis, nested_next_locs_>>
    BY <1>1 DEF ArenaStep, LiveRegions, Live
  <1>2. CASE NewVar \/ NewOp \/ NewCallback \/ NewVariThrows
    <2>1. PICK vari \in Vari : Place(vari)
      BY <1>2, PlacedVaris DEF IInv, HeapOK
    <2>2. UNCHANGED nested_next_locs_
      BY <1>2 DEF NewVar, NewOp, NewCallback, NewVariThrows, marks
    <2> QED
      BY <2>1, <2>2, PlaceIsAlloc
  <1>3. CASE OpenScope
    BY <1>3, MarkIsStart DEF OpenScope, memory
  <1>4. CASE recover_memory_nested
    BY <1>4, RecoverNestedIsRecover
  <1>5. CASE recover_memory
    <2>1. LiveRegions' = {}
      BY <1>5 DEF recover_memory, LiveRegions, Live
    <2>2. Len(nested_next_locs_) = 0
      BY <1>5, Lengths DEF recover_memory, IInv
    <2>3. UNCHANGED nested_next_locs_
      BY <1>5 DEF recover_memory, marks
    <2> QED
      BY <2>1, <2>2, <2>3 DEF ArenaStep
  <1>6. Next => \/ UNCHANGED <<varis, nested_next_locs_>>
                \/ NewVar \/ NewOp \/ NewCallback \/ NewVariThrows
                \/ OpenScope
                \/ recover_memory_nested
                \/ recover_memory
    BY DEF Next, Build, Sweep, Manage, NewChainable, NewChainableThrows, StartSweep, SweepStep,
       ChainReturns, EndSweep, set_zero_all_adjoints, set_zero_all_adjoints_nested,
       CloseScope, RecoverMemory, Throw, Unwind, Catch, marks, memory
  <1>7. UNCHANGED vars => UNCHANGED <<varis, nested_next_locs_>>
    BY DEF vars, marks, memory
  <1> QED
    BY <1>1, <1>2, <1>3, <1>4, <1>5, <1>6, <1>7

(* The tape uses its allocator only as the abstract arena allows: a vari is  *)
(* placed beside live memory, recover_memory_nested recovers exactly what    *)
(* was placed since its start_nested, recover_memory recovers everything and *)
(* only when no scope is open.                                               *)
THEOREM TapeImplementsArena == Spec => UsesArena
  <1>1. Init => ArenaView!Init
    BY DEF Init, ArenaView!Init, Live
  <1>2. ASSUME ArenaStep PROVE [ArenaView!Next]_(ArenaView!vars)
    BY <1>2 DEF ArenaStep, LiveRegions, Placed, Below, ArenaView!Next, ArenaView!vars,
       ArenaView!Alloc, ArenaView!StartNested, ArenaView!RecoverNested, ArenaView!RecoverAll,
       ArenaView!Region, ArenaView!Disjoint
  <1>3. IInv /\ HeapOK /\ [Next]_vars => [ArenaView!Next]_(ArenaView!vars)
    BY <1>2, StepIsArenaStep
  <1> QED
    BY <1>1, <1>3, Inductive, PTL DEF Spec, UsesArena, ArenaView!Spec
-----------------------------------------------------------------------------
(***************************************************************************)
(* What a sweep computes.  The derivative of an expression is a sum over   *)
(* the varis that read its adjoint; the sum of all adjoints, each weighted *)
(* with the derivatives of its vari along the varis still ahead of the     *)
(* sweep, stays what it was at the start.                                  *)
(***************************************************************************)
(* What an adjoint counts for when chain() has passed it on to operands that *)
(* count for D.                                                              *)
Terms(ops, D) == [k \in DOMAIN ops |-> ops[k].d * D[ops[k].v]]
Through(ops, D) == SumFunction(Terms(ops, D))

(* The varis whose chain() reads the adjoint of y, and all they pass on.     *)
Into(vs, swept, y) == {c \in swept : vs[c].from = y}
Flows(vs, D, swept, y) == [c \in Into(vs, swept, y) |-> Through(vs[c].ops, D)]
Flow(vs, D, swept, y) == SumFunction(Flows(vs, D, swept, y))

IsDerivative(vs, D, n, swept, x) ==
  D = [y \in 1 .. n |-> IF y = x THEN 1 ELSE Flow(vs, D, swept, y)]

(* A vari reads its own adjoint or that of the vari before it, and adds to   *)
(* those of older ones.                                                      *)
Descends(c, vari) ==
  /\ vari.ops \in Seq(Operand)
  /\ vari.from \in Nat \ {0} /\ vari.from <= c /\ c <= vari.from + 1
  /\ \A k \in DOMAIN vari.ops : vari.ops[k].v \in 1 .. vari.from - 1

Descending(vs, n, swept) == swept \subseteq 1 .. n /\ \A c \in swept : Descends(c, vs[c])

NumbersTo(D, y) == \A v \in 1 .. y - 1 : D[v] \in Int
SameTo(D, E, y) == \A v \in 1 .. y - 1 : D[v] = E[v]
ZeroTo(D, y) == \A v \in 1 .. y - 1 : D[v] = 0

LEMMA TermsOf ==
  ASSUME NEW c, NEW vari, Descends(c, vari), NEW D
  PROVE  LET ops == vari.ops
             y == vari.from
         IN  /\ IsFiniteSet(DOMAIN ops) /\ Through(ops, D) = SumOver(Terms(ops, D), DOMAIN ops)
             /\ \A k \in DOMAIN ops : /\ ops[k].d \in Int /\ ops[k].v \in 1 .. y - 1
                                      /\ Terms(ops, D)[k] = ops[k].d * D[ops[k].v]
  <1>1. PICK ops, y : ops = vari.ops /\ y = vari.from
    OBVIOUS
  <1>2. ops \in Seq(Operand) /\ \A k \in DOMAIN ops : ops[k].v \in 1 .. y - 1
    BY <1>1 DEF Descends
  <1>3. Len(ops) \in Nat /\ DOMAIN ops = 1 .. Len(ops)
    BY <1>2, LenProperties
  <1>4. \A k \in DOMAIN ops : ops[k].d \in Int
    <2> TAKE k \in DOMAIN ops
    <2>1. ops[k] \in Operand
      BY <1>2, <1>3, ElementOfSeq
    <2> QED
      BY <2>1, AdTapeAssumption DEF Operand
  <1>5. IsFiniteSet(DOMAIN ops)
    BY <1>3, FS_Interval
  <1>6. \A k \in DOMAIN ops : Terms(ops, D)[k] = ops[k].d * D[ops[k].v]
    BY DEF Terms
  <1>7. DOMAIN Terms(ops, D) = DOMAIN ops
    BY DEF Terms
  <1>8. Through(ops, D) = SumOver(Terms(ops, D), DOMAIN ops)
    BY <1>7, SumFunctionIs DEF Through
  <1> QED
    BY <1>1, <1>2, <1>4, <1>5, <1>6, <1>8

LEMMA ThroughTyped ==
  ASSUME NEW c, NEW vari, Descends(c, vari), NEW D, NumbersTo(D, vari.from)
  PROVE  Through(vari.ops, D) \in Int
  <1>1. PICK ops, t : ops = vari.ops /\ t = Terms(ops, D)
    OBVIOUS
  <1>2. \A k \in DOMAIN ops : t[k] \in Int
    <2> TAKE k \in DOMAIN ops
    <2>1. PICK d, e : d = ops[k].d /\ e = D[ops[k].v]
      OBVIOUS
    <2>2. d \in Int /\ e \in Int /\ t[k] = d * e
      BY <1>1, <2>1, TermsOf DEF NumbersTo
    <2> QED
      BY <2>2
  <1>3. NumberOn(t, DOMAIN ops)
    BY <1>2 DEF NumberOn
  <1>4. IsFiniteSet(DOMAIN ops) /\ Through(ops, D) = SumOver(t, DOMAIN ops)
    BY <1>1, TermsOf
  <1>5. SumOver(t, DOMAIN ops) \in Int
    BY <1>3, <1>4, SumOverNumbers
  <1> QED
    BY <1>1, <1>4, <1>5

LEMMA ThroughSame ==
  ASSUME NEW c, NEW vari, Descends(c, vari), NEW D, NEW E, SameTo(D, E, vari.from)
  PROVE  Through(vari.ops, D) = Through(vari.ops, E)
  <1>1. \A k \in DOMAIN vari.ops : D[vari.ops[k].v] = E[vari.ops[k].v]
    BY DEF Descends, SameTo
  <1>2. Terms(vari.ops, D) = Terms(vari.ops, E)
    BY <1>1 DEF Terms
  <1> QED
    BY <1>2 DEF Through

LEMMA ThroughZero ==
  ASSUME NEW c, NEW vari, Descends(c, vari), NEW D, ZeroTo(D, vari.from)
  PROVE  Through(vari.ops, D) = 0
  <1>1. PICK ops, t : ops = vari.ops /\ t = Terms(ops, D)
    OBVIOUS
  <1>2. \A k \in DOMAIN ops : t[k] = 0
    <2> TAKE k \in DOMAIN ops
    <2>1. PICK d, e : d = ops[k].d /\ e = D[ops[k].v]
      OBVIOUS
    <2>2. d \in Int /\ e = 0 /\ t[k] = d * e
      BY <1>1, <2>1, TermsOf DEF ZeroTo
    <2> QED
      BY <2>2
  <1>3. ZeroOn(t, DOMAIN ops)
    BY <1>2 DEF ZeroOn
  <1>4. IsFiniteSet(DOMAIN ops) /\ Through(ops, D) = SumOver(t, DOMAIN ops)
    BY <1>1, TermsOf
  <1> QED
    BY <1>1, <1>3, <1>4, SumOfZeros

LEMMA FlowIs ==
  ASSUME NEW vs, NEW D, NEW n \in Nat, NEW swept, Descending(vs, n, swept), NEW y
  PROVE  LET S == Into(vs, swept, y)
             f == Flows(vs, D, swept, y)
         IN  /\ IsFiniteSet(S) /\ Flow(vs, D, swept, y) = SumOver(f, S)
             /\ \A c \in S : /\ c \in swept /\ vs[c].from = y /\ Descends(c, vs[c])
                              /\ f[c] = Through(vs[c].ops, D)
  <1>1. IsFiniteSet(1 .. n)
    BY FS_Interval
  <1>2. Into(vs, swept, y) \in SUBSET (1 .. n)
    BY DEF Into, Descending
  <1>3. IsFiniteSet(Into(vs, swept, y))
    BY <1>1, <1>2, FS_Subset
  <1>4. DOMAIN Flows(vs, D, swept, y) = Into(vs, swept, y)
    BY DEF Flows
  <1>5. Flow(vs, D, swept, y) = SumOver(Flows(vs, D, swept, y), Into(vs, swept, y))
    BY <1>4, SumFunctionIs DEF Flow
  <1>6. \A c \in Into(vs, swept, y) : Flows(vs, D, swept, y)[c] = Through(vs[c].ops, D)
    BY DEF Flows
  <1>7. \A c \in Into(vs, swept, y) : c \in swept /\ vs[c].from = y /\ Descends(c, vs[c])
    BY DEF Into, Descending
  <1> QED
    BY <1>3, <1>5, <1>6, <1>7

LEMMA FlowTyped ==
  ASSUME NEW vs, NEW D, NEW n \in Nat, NEW swept, Descending(vs, n, swept), NEW y,
         NumbersTo(D, y)
  PROVE  Flow(vs, D, swept, y) \in Int
  <1>1. PICK f, S : f = Flows(vs, D, swept, y) /\ S = Into(vs, swept, y)
    OBVIOUS
  <1>2. /\ IsFiniteSet(S) /\ Flow(vs, D, swept, y) = SumOver(f, S)
        /\ \A c \in S : /\ vs[c].from = y /\ Descends(c, vs[c])
                         /\ f[c] = Through(vs[c].ops, D)
    BY <1>1, FlowIs
  <1>3. \A c \in S : f[c] \in Int
    BY <1>2, ThroughTyped
  <1>4. NumberOn(f, S)
    BY <1>3 DEF NumberOn
  <1>5. SumOver(f, S) \in Int
    BY <1>2, <1>4, SumOverNumbers
  <1>6. Flow(vs, D, swept, y) = SumOver(f, S)
    BY <1>2
  <1> QED
    BY <1>5, <1>6

LEMMA FlowSame ==
  ASSUME NEW vs, NEW D, NEW E, NEW n \in Nat, NEW swept, Descending(vs, n, swept), NEW y,
         SameTo(D, E, y)
  PROVE  Flow(vs, D, swept, y) = Flow(vs, E, swept, y)
  <1>1. \A c \in Into(vs, swept, y) : vs[c].from = y /\ Descends(c, vs[c])
    BY DEF Into, Descending
  <1>2. \A c \in Into(vs, swept, y) : Through(vs[c].ops, D) = Through(vs[c].ops, E)
    BY <1>1, ThroughSame
  <1>3. Flows(vs, D, swept, y) = Flows(vs, E, swept, y)
    BY <1>2 DEF Flows
  <1> QED
    BY <1>3 DEF Flow

LEMMA FlowZero ==
  ASSUME NEW vs, NEW D, NEW n \in Nat, NEW swept, Descending(vs, n, swept), NEW y,
         ZeroTo(D, y)
  PROVE  Flow(vs, D, swept, y) = 0
  <1>1. PICK f, S : f = Flows(vs, D, swept, y) /\ S = Into(vs, swept, y)
    OBVIOUS
  <1>2. /\ IsFiniteSet(S) /\ Flow(vs, D, swept, y) = SumOver(f, S)
        /\ \A c \in S : /\ vs[c].from = y /\ Descends(c, vs[c])
                         /\ f[c] = Through(vs[c].ops, D)
    BY <1>1, FlowIs
  <1>3. \A c \in S : f[c] = 0
    BY <1>2, ThroughZero
  <1>4. ZeroOn(f, S)
    BY <1>3 DEF ZeroOn
  <1> QED
    BY <1>2, <1>4, SumOfZeros

LEMMA DerivativeAt ==
  ASSUME NEW vs, NEW D, NEW n, NEW swept, NEW x, IsDerivative(vs, D, n, swept, x)
  PROVE  /\ DOMAIN D = 1 .. n
         /\ \A y \in 1 .. n : D[y] = IF y = x THEN 1 ELSE Flow(vs, D, swept, y)
  <1>1. PICK G : G = [y \in 1 .. n |-> IF y = x THEN 1 ELSE Flow(vs, D, swept, y)]
    OBVIOUS
  <1>2. D = G
    BY <1>1 DEF IsDerivative
  <1> QED
    BY <1>1, <1>2

(* Derivatives are numbers, there is one only, and a vari does not depend on *)
(* younger ones.                                                             *)
LEMMA DerivativeTyped ==
  ASSUME NEW vs, NEW D, NEW n \in Nat, NEW swept, Descending(vs, n, swept), NEW x,
         IsDerivative(vs, D, n, swept, x)
  PROVE  D \in [1 .. n -> Int]
  <1> DEFINE Bad == {y \in 1 .. n : D[y] \notin Int}
  <1>1. /\ DOMAIN D = 1 .. n
        /\ \A y \in 1 .. n : D[y] = IF y = x THEN 1 ELSE Flow(vs, D, swept, y)
    BY DerivativeAt
  <1>2. SUFFICES ASSUME Bad # {} PROVE FALSE
    <2>1. D = [y \in 1 .. n |-> D[y]]
      BY <1>1 DEF IsDerivative
    <2> QED
      BY <1>1, <2>1
  <1>3. PICK y \in Bad : \A z \in Bad : y <= z
    <2>1. Bad \in SUBSET Nat
      OBVIOUS
    <2> HIDE DEF Bad
    <2> QED
      BY <1>2, <2>1, LeastNumber
  <1>4. NumbersTo(D, y)
    BY <1>3 DEF NumbersTo
  <1>5. Flow(vs, D, swept, y) \in Int
    BY <1>4, FlowTyped
  <1> QED
    BY <1>1, <1>3, <1>5

LEMMA DerivativeUnique ==
  ASSUME NEW vs, NEW D, NEW E, NEW n \in Nat, NEW swept, Descending(vs, n, swept), NEW x,
         IsDerivative(vs, D, n, swept, x), IsDerivative(vs, E, n, swept, x)
  PROVE  D = E
  <1> DEFINE Bad == {y \in 1 .. n : D[y] # E[y]}
  <1>0. ASSUME Bad = {}
        PROVE  D = E
    <2>1. D \in [1 .. n -> Int] /\ E \in [1 .. n -> Int]
      BY DerivativeTyped
    <2>2. \A y \in 1 .. n : D[y] = E[y]
      BY <1>0
    <2> HIDE DEF Bad
    <2> QED
      BY <2>1, <2>2
  <1>1. /\ \A y \in 1 .. n : D[y] = IF y = x THEN 1 ELSE Flow(vs, D, swept, y)
        /\ \A y \in 1 .. n : E[y] = IF y = x THEN 1 ELSE Flow(vs, E, swept, y)
    BY DerivativeAt
  <1>2. SUFFICES ASSUME Bad # {} PROVE FALSE
    BY <1>0
  <1>3. PICK y \in Bad : \A z \in Bad : y <= z
    <2>1. Bad \in SUBSET Nat
      OBVIOUS
    <2> HIDE DEF Bad
    <2> QED
      BY <1>2, <2>1, LeastNumber
  <1>4. SameTo(D, E, y)
    BY <1>3 DEF SameTo
  <1>5. Flow(vs, D, swept, y) = Flow(vs, E, swept, y)
    BY <1>4, FlowSame
  <1> QED
    BY <1>1, <1>3, <1>5

LEMMA DerivativeZero ==
  ASSUME NEW vs, NEW D, NEW n \in Nat, NEW swept, Descending(vs, n, swept),
         NEW x \in 1 .. n, IsDerivative(vs, D, n, swept, x)
  PROVE  ZeroTo(D, x)
  <1> DEFINE Bad == {y \in 1 .. x - 1 : D[y] # 0}
  <1>1. \A y \in 1 .. n : D[y] = IF y = x THEN 1 ELSE Flow(vs, D, swept, y)
    BY DerivativeAt
  <1>2. SUFFICES ASSUME Bad # {} PROVE FALSE
    BY DEF ZeroTo
  <1>3. PICK y \in Bad : \A z \in Bad : y <= z
    <2>1. Bad \in SUBSET Nat
      OBVIOUS
    <2> HIDE DEF Bad
    <2> QED
      BY <1>2, <2>1, LeastNumber
  <1>4. ZeroTo(D, y)
    BY <1>3 DEF ZeroTo
  <1>5. Flow(vs, D, swept, y) = 0
    BY <1>4, FlowZero
  <1> QED
    BY <1>1, <1>3, <1>5

(* One vari more, the youngest: its operands count for what its partials say *)
(* of them, through the adjoint it reads.                                    *)
Further(D, f, e) == [D EXCEPT ![f] = @ + e]
IsYoungest(a, swept) == a \in swept /\ \A c \in swept : c <= a

LEMMA YoungestReads ==
  ASSUME NEW vs, NEW n \in Nat, NEW swept, Descending(vs, n, swept), NEW a, IsYoungest(a, swept)
  PROVE  /\ vs[a].from \in 1 .. n /\ Descends(a, vs[a]) /\ a \in 1 .. n
         /\ \A c \in swept : vs[c].from \in 1 .. vs[a].from /\ Descends(c, vs[c])
         /\ Descending(vs, n, swept \ {a})
  <1>1. a \in swept /\ \A c \in swept : c <= a /\ c \in 1 .. n /\ Descends(c, vs[c])
    BY DEF IsYoungest, Descending
  <1>2. PICK f : f = vs[a].from
    OBVIOUS
  <1>3. f \in Nat \ {0} /\ f <= a /\ a <= f + 1
    BY <1>1, <1>2 DEF Descends
  <1>4. ASSUME NEW c \in swept
        PROVE  vs[c].from \in 1 .. f
    <2>1. PICK h : h = vs[c].from
      OBVIOUS
    <2>2. h \in Nat \ {0} /\ h <= c /\ c <= h + 1
      BY <1>1, <2>1 DEF Descends
    <2>3. CASE c = a
      BY <1>2, <1>3, <2>1, <2>3
    <2>4. CASE c # a
      BY <1>1, <1>3, <2>1, <2>2, <2>4
    <2> QED
      BY <2>3, <2>4
  <1>5. Descending(vs, n, swept \ {a})
    BY DEF Descending
  <1> QED
    BY <1>1, <1>2, <1>3, <1>4, <1>5

LEMMA FlowFurther ==
  ASSUME NEW vs, NEW D, NEW n \in Nat, NEW swept, Descending(vs, n, swept), NEW a,
         IsYoungest(a, swept), NEW e, NEW y \in 1 .. n
  PROVE  Flow(vs, Further(D, vs[a].from, e), swept, y) = Flow(vs, D, swept, y)
  <1>1. PICK f : f = vs[a].from
    OBVIOUS
  <1>2. f \in 1 .. n /\ \A c \in swept : vs[c].from \in 1 .. f
    BY <1>1, YoungestReads
  <1>3. CASE y <= f
    <2>1. SameTo(Further(D, f, e), D, y)
      BY <1>2, <1>3 DEF SameTo, Further
    <2> QED
      BY <1>1, <2>1, FlowSame
  <1>4. CASE ~(y <= f)
    <2>1. Into(vs, swept, y) = {}
      BY <1>2, <1>4 DEF Into
    <2>2. Flows(vs, Further(D, f, e), swept, y) = Flows(vs, D, swept, y)
      BY <2>1 DEF Flows
    <2> QED
      BY <1>1, <2>2 DEF Flow
  <1> QED
    BY <1>3, <1>4

SumsFlow(vs, D, swept, y, f, S) ==
  /\ IsFiniteSet(S) /\ Flow(vs, D, swept, y) = SumOver(f, S)
  /\ \A c \in S : /\ vs[c].from = y /\ Descends(c, vs[c])
                   /\ f[c] = Through(vs[c].ops, D)

LEMMA FlowSummed ==
  ASSUME NEW vs, NEW D, NEW n \in Nat, NEW swept, Descending(vs, n, swept), NEW y
  PROVE  SumsFlow(vs, D, swept, y, Flows(vs, D, swept, y), Into(vs, swept, y))
  BY FlowIs DEF SumsFlow

FlowSplits(vs, D, swept, a) ==
  Flow(vs, D, swept, vs[a].from)
    = Flow(vs, D, swept \ {a}, vs[a].from) + Through(vs[a].ops, D)

LEMMA FlowOfYoungest ==
  ASSUME NEW vs, NEW D, NEW n \in Nat, NEW swept, Descending(vs, n, swept), NEW a,
         IsYoungest(a, swept), NumbersTo(D, vs[a].from)
  PROVE  FlowSplits(vs, D, swept, a)
  <1>0. PICK y : y = vs[a].from
    OBVIOUS
  <1>1. PICK g, S : g = Flows(vs, D, swept, y) /\ S = Into(vs, swept, y)
    OBVIOUS
  <1>2. PICK fewer : fewer = swept \ {a}
    OBVIOUS
  <1>3. PICK h, R : h = Flows(vs, D, fewer, y) /\ R = Into(vs, fewer, y)
    OBVIOUS
  <1>4. /\ IsFiniteSet(S) /\ Flow(vs, D, swept, y) = SumOver(g, S)
        /\ \A c \in S : /\ vs[c].from = y /\ Descends(c, vs[c])
                         /\ g[c] = Through(vs[c].ops, D)
    <2>1. SumsFlow(vs, D, swept, y, g, S)
      BY <1>1, FlowSummed
    <2> QED
      BY <2>1 DEF SumsFlow
  <1>5. /\ IsFiniteSet(R) /\ Flow(vs, D, fewer, y) = SumOver(h, R)
        /\ \A c \in R : h[c] = Through(vs[c].ops, D)
    <2>1. Descending(vs, n, fewer)
      BY <1>2, YoungestReads
    <2>2. SumsFlow(vs, D, fewer, y, h, R)
      BY <1>3, <2>1, FlowSummed
    <2> QED
      BY <2>2 DEF SumsFlow
  <1>6. a \in S /\ R = S \ {a}
    BY <1>0, <1>1, <1>2, <1>3 DEF Into, IsYoungest
  <1>7. \A c \in S : g[c] \in Int
    BY <1>0, <1>4, ThroughTyped
  <1>8. NumberOn(g, S)
    BY <1>7 DEF NumberOn
  <1>9. SumOver(g, S) = g[a] + SumOver(g, R)
    BY <1>4, <1>6, <1>8, SumOverNumbers
  <1>10. AgreeOn(g, h, R) /\ NumberOn(g, R)
    BY <1>4, <1>5, <1>6, <1>8 DEF AgreeOn, NumberOn
  <1>11. SumOver(h, R) = SumOver(g, R) /\ SumOver(g, R) \in Int
    BY <1>5, <1>10, SumAgrees, SumOverNumbers
  <1>12. g[a] = Through(vs[a].ops, D) /\ g[a] \in Int
    BY <1>4, <1>6, <1>7
  <1> QED
    BY <1>0, <1>2, <1>4, <1>5, <1>9, <1>11, <1>12 DEF FlowSplits

LEMMA DerivativeExtends ==
  ASSUME NEW vs, NEW D, NEW n \in Nat, NEW swept, Descending(vs, n, swept), NEW a,
         IsYoungest(a, swept), NEW x \in 1 .. n, IsDerivative(vs, D, n, swept \ {a}, x)
  PROVE  IsDerivative(vs, Further(D, vs[a].from, Through(vs[a].ops, D)), n, swept, x)
  <1>0. PICK f, e, G : f = vs[a].from /\ e = Through(vs[a].ops, D) /\ G = Further(D, f, e)
    OBVIOUS
  <1>1. f \in 1 .. n /\ Descends(a, vs[a]) /\ Descending(vs, n, swept \ {a})
    BY <1>0, YoungestReads
  <1>2. D \in [1 .. n -> Int]
    BY <1>1, DerivativeTyped
  <1>3. NumbersTo(D, f)
    BY <1>1, <1>2 DEF NumbersTo
  <1>4. /\ DOMAIN G = 1 .. n /\ G[f] = D[f] + e /\ \A y \in 1 .. n : y # f => G[y] = D[y]
    BY <1>0, <1>1, <1>2 DEF Further
  <1>5. \A y \in 1 .. n : D[y] = IF y = x THEN 1 ELSE Flow(vs, D, swept \ {a}, y)
    BY DerivativeAt
  <1>6. \A y \in 1 .. n : Flow(vs, G, swept, y) = Flow(vs, D, swept, y)
    BY <1>0, FlowFurther
  <1>7. G[f] = IF f = x THEN 1 ELSE Flow(vs, G, swept, f)
    <2>1. CASE f = x
      <3>1. ZeroTo(D, x)
        BY <1>1, DerivativeZero
      <3>2. e = 0
        BY <1>0, <1>1, <2>1, <3>1, ThroughZero
      <3> QED
        BY <1>1, <1>4, <1>5, <2>1, <3>2
    <2>2. CASE f # x
      <3>1. Flow(vs, D, swept, f) = Flow(vs, D, swept \ {a}, f) + e
        <4>1. NumbersTo(D, vs[a].from)
          BY <1>0, <1>3, Zenon
        <4>2. FlowSplits(vs, D, swept, a)
          BY <4>1, FlowOfYoungest
        <4> QED
          BY <1>0, <4>2 DEF FlowSplits
      <3> QED
        BY <1>1, <1>4, <1>5, <1>6, <2>2, <3>1
    <2> QED
      BY <2>1, <2>2
  <1>8. ASSUME NEW y \in 1 .. n, y # f
        PROVE  G[y] = IF y = x THEN 1 ELSE Flow(vs, G, swept, y)
    <2>1. Into(vs, swept, y) = Into(vs, swept \ {a}, y)
      BY <1>0, <1>8 DEF Into
    <2>2. Flow(vs, D, swept, y) = Flow(vs, D, swept \ {a}, y)
      BY <2>1 DEF Flow, Flows
    <2> QED
      BY <1>4, <1>5, <1>6, <1>8, <2>2
  <1>9. G = [y \in 1 .. n |-> G[y]]
    <2>1. IsDerivative(vs, D, n, swept \ {a}, x) => D = [y \in 1 .. n |-> D[y]]
      BY <1>2
    <2> QED
      BY <1>0, <1>2, <1>4, <2>1 DEF Further
  <1>10. \A y \in 1 .. n : G[y] = IF y = x THEN 1 ELSE Flow(vs, G, swept, y)
    BY <1>7, <1>8
  <1>11. IsDerivative(vs, G, n, swept, x)
    BY <1>9, <1>10, Zenon DEF IsDerivative
  <1> QED
    BY <1>0, <1>11

LEMMA DerivativeExists ==
  ASSUME NEW vs, NEW n \in Nat, NEW swept, Descending(vs, n, swept), NEW x \in 1 .. n
  PROVE  \E D : IsDerivative(vs, D, n, swept, x)
  <1> DEFINE Upto(m) == {c \in swept : c <= m}
             T == {m \in Nat : \E D : IsDerivative(vs, D, n, Upto(m), x)}
  <1>00. \A c \in swept : c \in 1 .. n
    BY DEF Descending
  <1>0. \A m \in Nat : Descending(vs, n, Upto(m))
    BY DEF Descending
  <1>1. 0 \in T
    <2>1. PICK D : D = [y \in 1 .. n |-> IF y = x THEN 1 ELSE Flow(vs, <<>>, {}, y)]
      OBVIOUS
    <2>2. Upto(0) = {}
      BY <1>00
    <2>3. \A y : Flow(vs, D, {}, y) = Flow(vs, <<>>, {}, y)
      <3> TAKE y
      <3>1. Into(vs, {}, y) = {}
        BY DEF Into
      <3>2. Flows(vs, D, {}, y) = Flows(vs, <<>>, {}, y)
        BY <3>1 DEF Flows
      <3> QED
        BY <3>2 DEF Flow
    <2>4. IsDerivative(vs, D, n, {}, x)
      BY <2>1, <2>3, Zenon DEF IsDerivative
    <2> QED
      BY <2>2, <2>4
  <1>2. ASSUME NEW m \in T
        PROVE  m + 1 \in T
    <2>0. PICK a : a = m + 1
      OBVIOUS
    <2>1. m \in Nat /\ a \in Nat
      BY <2>0
    <2>2. PICK D : IsDerivative(vs, D, n, Upto(m), x)
      OBVIOUS
    <2>3. CASE a \in swept
      <3>1. IsYoungest(a, Upto(a))
        BY <2>0, <2>1, <2>3 DEF IsYoungest
      <3>2. Upto(m) = Upto(a) \ {a}
        BY <1>00, <2>0, <2>1
      <3>3. Descending(vs, n, Upto(a))
        BY <1>0, <2>1
      <3>4. \E E : IsDerivative(vs, E, n, Upto(a), x)
        <4> HIDE DEF Upto
        <4> QED
          BY <2>2, <3>1, <3>2, <3>3, DerivativeExtends
      <3> QED
        BY <2>0, <2>1, <3>4
    <2>4. CASE a \notin swept
      <3>1. Upto(m) = Upto(a)
        BY <1>00, <2>0, <2>1, <2>4
      <3> QED
        BY <2>0, <2>1, <2>2, <3>1
    <2> QED
      BY <2>3, <2>4
  <1>3. T = Nat
    <2> HIDE DEF T
    <2>1. T \in SUBSET Nat
      BY DEF T
    <2> QED
      BY <1>1, <1>2, <2>1, InductionOnNat
  <1>4. PICK D : IsDerivative(vs, D, n, Upto(n), x)
    BY <1>3
  <1>5. Upto(n) = swept
    BY <1>00
  <1> QED
    BY <1>4, <1>5

(* Adjoints, each counted for what it is worth.                              *)
Weighted(g, D, n) == [y \in 1 .. n |-> g[y] * D[y]]
Dot(g, D, n) == SumFunction(Weighted(g, D, n))

LEMMA DotIs ==
  ASSUME NEW g, NEW D, NEW n \in Nat, NumberOn(g, 1 .. n), NumberOn(D, 1 .. n)
  PROVE  /\ IsFiniteSet(1 .. n) /\ Dot(g, D, n) = SumOver(Weighted(g, D, n), 1 .. n)
         /\ NumberOn(Weighted(g, D, n), 1 .. n) /\ Dot(g, D, n) \in Int
  <1>1. IsFiniteSet(1 .. n)
    BY FS_Interval
  <1>2. Dot(g, D, n) = SumOver(Weighted(g, D, n), 1 .. n)
    BY SumFunctionIs DEF Dot, Weighted
  <1>3. NumberOn(Weighted(g, D, n), 1 .. n)
    <2>1. ASSUME NEW y \in 1 .. n PROVE Weighted(g, D, n)[y] \in Int
      <3>1. PICK b \in Int, c \in Int : b = g[y] /\ c = D[y]
        BY DEF NumberOn
      <3>2. Weighted(g, D, n)[y] = b * c
        BY <3>1 DEF Weighted
      <3> QED
        BY <3>2
    <2> QED
      BY <2>1 DEF NumberOn
  <1>4. SumOver(Weighted(g, D, n), 1 .. n) \in Int
    BY <1>1, <1>3, SumOverNumbers
  <1> QED
    BY <1>1, <1>2, <1>3, <1>4

LEMMA DotTurned ==
  ASSUME NEW g, NEW D, NEW n \in Nat, NumberOn(g, 1 .. n), NumberOn(D, 1 .. n)
  PROVE  Dot(g, D, n) = Dot(D, g, n)
  <1>1. ASSUME NEW y \in 1 .. n PROVE g[y] * D[y] = D[y] * g[y]
    <2>1. PICK b \in Int, c \in Int : b = g[y] /\ c = D[y]
      BY DEF NumberOn
    <2> QED
      BY <2>1
  <1>2. Weighted(g, D, n) = Weighted(D, g, n)
    BY <1>1 DEF Weighted
  <1> QED
    BY <1>2 DEF Dot

(* What is added to one of them.                                             *)
ChangesAt(v, w, S, f, e) ==
  /\ IsFiniteSet(S) /\ NumberOn(v, S) /\ f \in S /\ AgreeOn(v, w, S \ {f})
  /\ w[f] = v[f] + e /\ e \in Int

LEMMA SumChanged ==
  ASSUME NEW v, NEW w, NEW S, NEW f, NEW e, ChangesAt(v, w, S, f, e)
  PROVE  SumOver(w, S) = SumOver(v, S) + e
  <1>1. /\ IsFiniteSet(S) /\ NumberOn(v, S) /\ f \in S /\ AgreeOn(v, w, S \ {f})
        /\ w[f] = v[f] + e /\ e \in Int
    BY DEF ChangesAt
  <1> QED
    BY <1>1, SumChanges

Weighable(g, D, n) ==
  n \in Nat /\ NumberOn(g, 1 .. n) /\ NumberOn(D, 1 .. n) /\ 1 .. n \subseteq DOMAIN D

LEMMA DotAdds ==
  ASSUME NEW g, NEW D, NEW n, Weighable(g, D, n), NEW f \in 1 .. n, NEW e \in Int
  PROVE  /\ Dot(g, Further(D, f, e), n) = Dot(g, D, n) + g[f] * e
         /\ NumberOn(Further(D, f, e), 1 .. n)
  <1>0. /\ n \in Nat /\ NumberOn(g, 1 .. n) /\ NumberOn(D, 1 .. n)
        /\ 1 .. n \subseteq DOMAIN D
    BY DEF Weighable
  <1>1. PICK E : E = Further(D, f, e)
    OBVIOUS
  <1>2. PICK b \in Int, c \in Int : b = g[f] /\ c = D[f]
    BY <1>0 DEF NumberOn
  <1>3. E[f] = c + e /\ \A y \in 1 .. n : y # f => E[y] = D[y]
    BY <1>0, <1>1, <1>2 DEF Further
  <1>4. NumberOn(E, 1 .. n)
    BY <1>0, <1>2, <1>3 DEF NumberOn
  <1>5. PICK v, w : v = Weighted(g, D, n) /\ w = Weighted(g, E, n)
    OBVIOUS
  <1>6. PICK p \in Int : p = b * e
    BY <1>2
  <1>7. w[f] = v[f] + p
    <2>1. w[f] = b * (c + e) /\ v[f] = b * c
      BY <1>2, <1>3, <1>5 DEF Weighted
    <2> QED
      BY <1>2, <1>6, <2>1
  <1>8. AgreeOn(v, w, 1 .. n \ {f})
    BY <1>3, <1>5 DEF AgreeOn, Weighted
  <1>9. /\ IsFiniteSet(1 .. n) /\ NumberOn(v, 1 .. n) /\ Dot(g, D, n) = SumOver(v, 1 .. n)
        /\ Dot(g, E, n) = SumOver(w, 1 .. n)
    BY <1>0, <1>4, <1>5, DotIs
  <1>10. SumOver(w, 1 .. n) = SumOver(v, 1 .. n) + p
    <2>1. ChangesAt(v, w, 1 .. n, f, p)
      BY <1>7, <1>8, <1>9 DEF ChangesAt
    <2> QED
      BY <2>1, SumChanged
  <1> QED
    BY <1>1, <1>2, <1>4, <1>6, <1>9, <1>10

LEMMA Distributes ==
  ASSUME NEW x \in Int, NEW s \in Int, NEW d \in Int, NEW v \in Int
  PROVE  x * (d * v + s) = x * s + v * (d * x)
  OBVIOUS

(* h is adj with the terms up to the k-th passed on.                         *)
Passed(h, D, n, r, x, t, k) ==
  h \in [1 .. n -> Int] /\ Dot(h, D, n) = r + x * SumOver(t, 1 .. k)

LEMMA SumOfNext ==
  ASSUME NEW t, NEW k \in Nat, NumberOn(t, 1 .. k + 1)
  PROVE  /\ SumOver(t, 1 .. k) \in Int
         /\ SumOver(t, 1 .. k + 1) = t[k + 1] + SumOver(t, 1 .. k)
  <1>1. PICK j : j = k + 1
    OBVIOUS
  <1>2. 1 .. j \ {j} = 1 .. k /\ j \in 1 .. j
    BY <1>1
  <1>5. IsFiniteSet(1 .. j) /\ IsFiniteSet(1 .. k)
    BY <1>1, FS_Interval
  <1>3. NumberOn(t, 1 .. k) /\ NumberOn(t, 1 .. j)
    BY <1>1 DEF NumberOn
  <1>4. SumOver(t, 1 .. j) = t[j] + SumOver(t, 1 .. j \ {j})
    BY <1>2, <1>3, <1>5, SumOverNumbers
  <1> QED
    BY <1>1, <1>2, <1>3, <1>4, <1>5, SumOverNumbers

LEMMA PassedNext ==
  ASSUME NEW n \in Nat, NEW D \in [1 .. n -> Int], NEW r \in Int, NEW x \in Int, NEW t,
         NEW k \in Nat, NEW h, Passed(h, D, n, r, x, t, k), NumberOn(t, 1 .. k + 1),
         NEW v \in 1 .. n, NEW d \in Int, t[k + 1] = d * D[v]
  PROVE  Passed(Further(h, v, d * x), D, n, r, x, t, k + 1)
  <1>1. PICK u \in Int, e \in Int : u = D[v] /\ e = d * x
    OBVIOUS
  <1>2. h \in [1 .. n -> Int]
    BY DEF Passed
  <1>3. Further(h, v, e) \in [1 .. n -> Int]
    BY <1>1, <1>2, ArrayAdd DEF Further
  <1>4. NumberOn(h, 1 .. n) /\ NumberOn(D, 1 .. n) /\ 1 .. n \subseteq DOMAIN h
    BY <1>2 DEF NumberOn
  <1>5. /\ Dot(D, Further(h, v, e), n) = Dot(D, h, n) + u * e
        /\ NumberOn(Further(h, v, e), 1 .. n)
    <2>1. Weighable(D, h, n)
      BY <1>4 DEF Weighable
    <2>2. /\ Dot(D, Further(h, v, e), n) = Dot(D, h, n) + D[v] * e
          /\ NumberOn(Further(h, v, e), 1 .. n)
      BY <2>1, DotAdds
    <2> QED
      BY <1>1, <2>2
  <1>6. Dot(Further(h, v, e), D, n) = Dot(h, D, n) + u * e
    BY <1>4, <1>5, DotTurned
  <1>7. PICK s \in Int : s = SumOver(t, 1 .. k)
    BY SumOfNext
  <1>8. SumOver(t, 1 .. k + 1) = d * u + s
    BY <1>1, <1>7, SumOfNext
  <1>9. x * (d * u + s) = x * s + u * e
    BY <1>1, <1>7, Distributes
  <1>10. PICK p \in Int, q \in Int : p = x * s /\ q = u * e
    BY <1>1, <1>7
  <1>11. Dot(h, D, n) = r + p
    BY <1>7, <1>10 DEF Passed
  <1>12. x * SumOver(t, 1 .. k + 1) = p + q
    BY <1>8, <1>9, <1>10
  <1>13. Dot(Further(h, v, e), D, n) = r + x * SumOver(t, 1 .. k + 1)
    BY <1>6, <1>10, <1>11, <1>12
  <1> QED
    BY <1>1, <1>3, <1>13 DEF Passed

(* What chain() adds is what the terms it passes on are worth.               *)
OperandsIn(ops, D, n, t) ==
  \A k \in DOMAIN ops : /\ ops[k].d \in Int /\ ops[k].v \in 1 .. n
                        /\ t[k] = ops[k].d * D[ops[k].v]

LEMMA PassedOn ==
  ASSUME NEW n \in Nat, adj \in [1 .. n -> Int], NEW D \in [1 .. n -> Int], NEW x \in Int,
         NEW ops \in Seq(Operand), NEW t, OperandsIn(ops, D, n, t), NEW g,
         Turns(g, ops, x, Len(ops))
  PROVE  Passed(g[Len(ops)], D, n, Dot(adj, D, n), x, t, Len(ops))
  <1>1. PICK m \in Nat : m = Len(ops) /\ DOMAIN ops = 1 .. m
    BY LenProperties
  <1>2. PICK r \in Int : r = Dot(adj, D, n)
    <2>1. NumberOn(adj, 1 .. n) /\ NumberOn(D, 1 .. n)
      BY DEF NumberOn
    <2> QED
      BY <2>1, DotIs
  <1>3. \A k \in 1 .. m : t[k] \in Int
    <2> TAKE k \in 1 .. m
    <2>1. PICK d \in Int, v \in 1 .. n : d = ops[k].d /\ v = ops[k].v
      BY <1>1 DEF OperandsIn
    <2>2. PICK u \in Int : u = D[v]
      OBVIOUS
    <2>3. t[k] = d * u
      BY <1>1, <2>1, <2>2 DEF OperandsIn
    <2> QED
      BY <2>3
  <1> DEFINE T == {k \in Nat : k <= m => Passed(g[k], D, n, r, x, t, k)}
  <1>4. 0 \in T
    <2>1. g[0] = adj
      BY DEF Turns
    <2>2. SumOver(t, 1 .. 0) = 0
      <3>1. 1 .. 0 = {} /\ IsFiniteSet({}) /\ NumberOn(t, {})
        BY FS_EmptySet DEF NumberOn
      <3> QED
        BY <3>1, SumOverNumbers
    <2>3. Dot(adj, D, n) = r + x * SumOver(t, 1 .. 0)
      BY <1>2, <2>2
    <2> QED
      BY <2>1, <2>3 DEF Passed
  <1>5. ASSUME NEW k \in T
        PROVE  k + 1 \in T
    <2>0. k \in Nat /\ (k <= m => Passed(g[k], D, n, r, x, t, k))
      OBVIOUS
    <2> HIDE DEF T
    <2> SUFFICES ASSUME k + 1 <= m PROVE Passed(g[k + 1], D, n, r, x, t, k + 1)
      BY <2>0 DEF T
    <2>1. PICK j \in 1 .. m : j = k + 1 /\ j - 1 = k /\ k <= m
      BY <2>0
    <2>2. PICK v \in 1 .. n, d \in Int : v = ops[j].v /\ d = ops[j].d
      BY <1>1, <2>1 DEF OperandsIn
    <2>3. t[j] = d * D[v]
      BY <1>1, <2>1, <2>2 DEF OperandsIn
    <2>4. g[j] = Further(g[k], v, d * x)
      BY <1>1, <2>1, <2>2, Zenon DEF Turns, Further
    <2>5. NumberOn(t, 1 .. j)
      BY <1>3 DEF NumberOn
    <2>6. Passed(Further(g[k], v, d * x), D, n, r, x, t, k + 1)
      BY <2>0, <2>1, <2>3, <2>5, PassedNext
    <2> QED
      BY <2>1, <2>4, <2>6
  <1>6. T = Nat
    <2> HIDE DEF T
    <2>1. T \in SUBSET Nat
      BY DEF T
    <2> QED
      BY <1>4, <1>5, <2>1, InductionOnNat
  <1>7. Passed(g[m], D, n, r, x, t, m)
    BY <1>1, <1>6
  <1> QED
    BY <1>1, <1>2, <1>7

(* chain() spreads the adjoint it reads over the operands.                   *)
LEMMA DotChained ==
  ASSUME adj \in Seq(Int), NEW n, n = Len(adj), NEW a, Descends(a, varis[a]),
         varis[a].from \in 1 .. n, NEW D \in [1 .. n -> Int]
  PROVE  /\ Dot(Chained(a), D, n)
              = Dot(adj, D, n) + adj[varis[a].from] * Through(varis[a].ops, D)
         /\ Chained(a) \in [1 .. n -> Int]
  <1>1. n \in Nat /\ adj \in [1 .. n -> Int]
    BY LenProperties
  <1>2. PICK ops, y, x, t : /\ ops = varis[a].ops /\ y = varis[a].from
                            /\ x = adj[y] /\ t = Terms(ops, D)
    OBVIOUS
  <1>3. ops \in Seq(Operand) /\ Len(ops) \in Nat /\ x \in Int /\ y \in 1 .. n
    BY <1>1, <1>2, LenProperties DEF Descends
  <1>4. Through(ops, D) = SumOver(t, DOMAIN ops)
    BY <1>2, TermsOf
  <1>5. OperandsIn(ops, D, n, t)
    <2> SUFFICES ASSUME NEW k \in DOMAIN ops
                 PROVE  /\ ops[k].d \in Int /\ ops[k].v \in 1 .. n
                        /\ t[k] = ops[k].d * D[ops[k].v]
      BY Zenon DEF OperandsIn
    <2>1. ops[k].d \in Int /\ ops[k].v \in 1 .. y - 1
      BY <1>2, TermsOf
    <2>2. t[k] = ops[k].d * D[ops[k].v]
      BY <1>2 DEF Terms
    <2>3. ops[k].v \in 1 .. n
      BY <1>1, <1>3, <2>1
    <2> QED
      BY <2>1, <2>2, <2>3
  <1>6. PICK g : IsChained(g, ops, x, Len(ops)) /\ Chained(a) = g[Len(ops)]
    BY <1>2, <1>3, ChainedIs
  <1>7. Turns(g, ops, x, Len(ops))
    BY <1>3, <1>6, ChainedTurns
  <1>8. Passed(Chained(a), D, n, Dot(adj, D, n), x, t, Len(ops))
    BY <1>1, <1>3, <1>5, <1>6, <1>7, PassedOn
  <1>9. DOMAIN ops = 1 .. Len(ops)
    BY <1>3, LenProperties
  <1> QED
    BY <1>2, <1>4, <1>8, <1>9 DEF Passed

(* What is left to sweep still has to turn the adjoints g into what start is *)
(* worth when all is swept.                                                  *)
Carried(vs, g, n, left, all, start) ==
  \A x \in 1 .. n : \A D, E :
    IsDerivative(vs, D, n, left, x) /\ IsDerivative(vs, E, n, all, x) =>
      Dot(g, D, n) = Dot(start, E, n)

LEMMA CarriedAtFirst ==
  ASSUME NEW vs, NEW n \in Nat, NEW all, Descending(vs, n, all), NEW g
  PROVE  Carried(vs, g, n, all, all, g)
  <1> SUFFICES ASSUME NEW x \in 1 .. n, NEW D, NEW E, IsDerivative(vs, D, n, all, x),
                      IsDerivative(vs, E, n, all, x)
               PROVE  Dot(g, D, n) = Dot(g, E, n)
    BY DEF Carried
  <1>1. D = E
    BY DerivativeUnique
  <1> QED
    BY <1>1

LEMMA DotOfTurn ==
  ASSUME adj \in Seq(Int), NEW n, n = Len(adj), NEW a, Descends(a, varis[a]),
         varis[a].from \in 1 .. n, NEW D \in [1 .. n -> Int]
  PROVE  Dot(Chained(a), D, n)
           = Dot(adj, Further(D, varis[a].from, Through(varis[a].ops, D)), n)
  <1>1. n \in Nat /\ NumberOn(adj, 1 .. n)
    BY LenProperties, ElementOfSeq DEF NumberOn
  <1>2. PICK f, ops, e : f = varis[a].from /\ ops = varis[a].ops /\ e = Through(ops, D)
    OBVIOUS
  <1>3. NumbersTo(D, f) /\ NumberOn(D, 1 .. n) /\ 1 .. n \subseteq DOMAIN D
    <2>1. \A v \in 1 .. n : D[v] \in Int
      OBVIOUS
    <2>2. f \in 1 .. n
      BY <1>2
    <2>3. \A v \in 1 .. f - 1 : v \in 1 .. n
      BY <1>1, <2>2
    <2>4. NumbersTo(D, f)
      BY <2>1, <2>3 DEF NumbersTo
    <2> QED
      BY <2>1, <2>4 DEF NumberOn
  <1>4. Through(varis[a].ops, D) \in Int
    <2>1. NumbersTo(D, varis[a].from)
      BY <1>2, <1>3, Zenon
    <2> QED
      BY <2>1, ThroughTyped
  <1>5. Dot(adj, Further(D, f, e), n) = Dot(adj, D, n) + adj[f] * e
    <2>1. e \in Int /\ f \in 1 .. n
      BY <1>2, <1>4
    <2>2. Weighable(adj, D, n)
      BY <1>1, <1>3 DEF Weighable
    <2> QED
      BY <2>1, <2>2, DotAdds
  <1>6. Dot(Chained(a), D, n) = Dot(adj, D, n) + adj[varis[a].from] * Through(varis[a].ops, D)
    BY DotChained
  <1> QED
    BY <1>2, <1>5, <1>6, Zenon

(* A turn of the loop keeps it so, if it chains the youngest of what is left.*)
LEMMA TurnKeeps ==
  ASSUME adj \in Seq(Int), NEW n, n = Len(adj), NEW left, Descending(varis, n, left),
         NEW a, IsYoungest(a, left), NEW all, NEW start,
         Carried(varis, adj, n, left, all, start)
  PROVE  Carried(varis, Chained(a), n, left \ {a}, all, start)
  <1>0. n \in Nat
    BY LenProperties
  <1>1. SUFFICES ASSUME NEW x \in 1 .. n, NEW D, NEW E,
                        IsDerivative(varis, D, n, left \ {a}, x),
                        IsDerivative(varis, E, n, all, x)
                 PROVE  Dot(Chained(a), D, n) = Dot(start, E, n)
    BY DEF Carried
  <1>2. PICK G : G = Further(D, varis[a].from, Through(varis[a].ops, D))
    OBVIOUS
  <1>3. /\ varis[a].from \in 1 .. n /\ Descends(a, varis[a])
        /\ Descending(varis, n, left \ {a})
    BY <1>0, YoungestReads
  <1>4. D \in [1 .. n -> Int]
    BY <1>0, <1>1, <1>3, DerivativeTyped
  <1>5. IsDerivative(varis, G, n, left, x)
    BY <1>0, <1>1, <1>2, DerivativeExtends
  <1>6. Dot(adj, G, n) = Dot(start, E, n)
    BY <1>1, <1>5 DEF Carried
  <1>7. Dot(Chained(a), D, n) = Dot(adj, G, n)
    BY <1>2, <1>3, <1>4, DotOfTurn
  <1> QED
    BY <1>6, <1>7

(* It is about the first n varis and their adjoints only.                    *)
LEMMA DerivativeKept ==
  ASSUME NEW vs, NEW ws, NEW swept, \A c \in swept : ws[c] = vs[c], NEW D, NEW n, NEW x,
         IsDerivative(ws, D, n, swept, x)
  PROVE  IsDerivative(vs, D, n, swept, x)
  <1>1. ASSUME NEW y
        PROVE  Flow(ws, D, swept, y) = Flow(vs, D, swept, y)
    <2>1. Into(ws, swept, y) = Into(vs, swept, y)
      BY DEF Into
    <2>2. \A c \in Into(vs, swept, y) : ws[c] = vs[c]
      BY DEF Into
    <2>3. Flows(ws, D, swept, y) = Flows(vs, D, swept, y)
      BY <2>1, <2>2 DEF Flows
    <2> QED
      BY <2>3 DEF Flow
  <1> QED
    BY <1>1 DEF IsDerivative

LEMMA CarriedKept ==
  ASSUME NEW vs, NEW g, NEW n, NEW left, NEW all, NEW start, Carried(vs, g, n, left, all, start),
         NEW ws, NEW h, \A c \in left \cup all : ws[c] = vs[c], AgreeOn(g, h, 1 .. n)
  PROVE  Carried(ws, h, n, left, all, start)
  <1> SUFFICES ASSUME NEW x \in 1 .. n, NEW D, NEW E, IsDerivative(ws, D, n, left, x),
                      IsDerivative(ws, E, n, all, x)
               PROVE  Dot(h, D, n) = Dot(start, E, n)
    BY DEF Carried
  <1>1. IsDerivative(vs, D, n, left, x)
    <2>1. \A c \in left : ws[c] = vs[c]
      OBVIOUS
    <2> QED
      BY <2>1, DerivativeKept
  <1>2. IsDerivative(vs, E, n, all, x)
    <2>1. \A c \in all : ws[c] = vs[c]
      OBVIOUS
    <2> QED
      BY <2>1, DerivativeKept
  <1>3. Dot(g, D, n) = Dot(start, E, n)
    BY <1>1, <1>2 DEF Carried
  <1>4. Dot(h, D, n) = Dot(g, D, n)
    <2>1. Weighted(h, D, n) = Weighted(g, D, n)
      BY DEF Weighted, AgreeOn
    <2> QED
      BY <2>1 DEF Dot
  <1> QED
    BY <1>3, <1>4

(* When nothing is left the adjoints are what start is worth.                *)
LEMMA CarriedAtLast ==
  ASSUME NEW vs, NEW g, NEW n \in Nat, NumberOn(g, 1 .. n), NEW all, NEW start,
         Carried(vs, g, n, {}, all, start), NEW x \in 1 .. n, NEW E,
         IsDerivative(vs, E, n, all, x)
  PROVE  g[x] = Dot(start, E, n)
  <1>1. PICK D : D = [y \in 1 .. n |-> IF y = x THEN 1 ELSE Flow(vs, <<>>, {}, y)]
    OBVIOUS
  <1>2. \A y, F : Flow(vs, F, {}, y) = 0
    <2> TAKE y, F
    <2>1. Into(vs, {}, y) = {}
      BY DEF Into
    <2>2. DOMAIN Flows(vs, F, {}, y) = {}
      BY <2>1 DEF Flows
    <2>3. Flow(vs, F, {}, y) = SumOver(Flows(vs, F, {}, y), {})
      BY <2>2, SumFunctionIs DEF Flow
    <2>4. IsFiniteSet({}) /\ NumberOn(Flows(vs, F, {}, y), {})
      BY FS_EmptySet DEF NumberOn
    <2> QED
      BY <2>3, <2>4, SumOverNumbers
  <1>3. IsDerivative(vs, D, n, {}, x)
    <2>1. \A y : Flow(vs, D, {}, y) = Flow(vs, <<>>, {}, y)
      BY <1>2
    <2> QED
      BY <1>1, <2>1, Zenon DEF IsDerivative
  <1>4. \A y \in 1 .. n : D[y] = IF y = x THEN 1 ELSE 0
    BY <1>1, <1>2
  <1>5. Dot(g, D, n) = Dot(start, E, n)
    BY <1>3 DEF Carried
  <1>6. NumberOn(D, 1 .. n)
    BY <1>4 DEF NumberOn
  <1>7. PICK w : w = Weighted(g, D, n)
    OBVIOUS
  <1>8. IsFiniteSet(1 .. n) /\ Dot(g, D, n) = SumOver(w, 1 .. n) /\ NumberOn(w, 1 .. n)
    BY <1>6, <1>7, DotIs
  <1>9. w[x] = g[x] /\ ZeroOn(w, 1 .. n \ {x})
    <2>1. ASSUME NEW y \in 1 .. n
          PROVE  w[y] = IF y = x THEN g[y] ELSE 0
      <3>1. PICK b \in Int : b = g[y]
        BY DEF NumberOn
      <3>2. w[y] = b * D[y]
        BY <1>7, <3>1 DEF Weighted
      <3> QED
        BY <1>4, <3>1, <3>2
    <2> QED
      BY <2>1 DEF ZeroOn
  <1>10. SumOver(w, 1 .. n) = w[x]
    BY <1>8, <1>9, SumOfOne
  <1> QED
    BY <1>5, <1>8, <1>9, <1>10
-----------------------------------------------------------------------------
(***************************************************************************)
(* Where a sweep stands among the scopes.                                  *)
(***************************************************************************)
(* The place a frame has among the scopes on the C++ stack c.                *)
ScopesIn(c) == {j \in DOMAIN c : c[j].kind = "scope"}
ScopesBelow(c, k) == {j \in ScopesIn(c) : j < k}
LevelIn(c, k) == Cardinality(ScopesBelow(c, k)) + 1

(* How many varis there were when the scope of that place was opened, or are *)
(* there, and where the part of var_stack_ begins that the scope before it   *)
(* has for itself.                                                           *)
Extent(l) == IF l <= Depth THEN nested_next_locs_[l] ELSE Len(varis)
Floor(l) == IF l = 1 THEN 0 ELSE nested_var_stack_sizes_[l - 1]

(* grad() goes on to a chain() only, and that to a scope only.               *)
Nests(c) ==
  \A k \in DOMAIN c : k + 1 \in DOMAIN c =>
    /\ c[k].kind = "grad" => c[k + 1].kind = "chain"
    /\ c[k].kind = "chain" => c[k + 1].kind = "scope"

Nesting == Nests(control)

(* A sweep has started with the varis it can see and runs down to the scope  *)
(* it is in.                                                                 *)
SeenOK ==
  \A k \in DOMAIN control : control[k].kind = "grad" =>
    /\ Len(control[k].start) = Extent(LevelIn(control, k))
    /\ control[k].beginning = Floor(LevelIn(control, k))

LEMMA LevelOf ==
  ASSUME NEW S, NEW c \in Seq(S), NEW k
  PROVE  LET d == Cardinality(ScopesIn(c))
             l == LevelIn(c, k)
         IN  /\ d \in Nat /\ l \in 1 .. d + 1
             /\ \A j \in ScopesIn(c) : ~(j < k) => l <= d
             /\ (\A j \in ScopesIn(c) : j < k) => l = d + 1
  <1>1. IsFiniteSet(DOMAIN c)
    BY LenProperties, FS_Interval
  <1>2. ScopesIn(c) \in SUBSET DOMAIN c
    BY DEF ScopesIn
  <1>3. IsFiniteSet(ScopesIn(c))
    BY <1>1, <1>2, FS_Subset
  <1>4. ScopesBelow(c, k) \in SUBSET ScopesIn(c)
    BY DEF ScopesBelow
  <1>5. /\ IsFiniteSet(ScopesBelow(c, k))
        /\ Cardinality(ScopesBelow(c, k)) <= Cardinality(ScopesIn(c))
        /\ Cardinality(ScopesIn(c)) = Cardinality(ScopesBelow(c, k))
             => ScopesIn(c) = ScopesBelow(c, k)
    BY <1>3, <1>4, FS_Subset
  <1>6. PICK d \in Nat, b \in Nat :
          d = Cardinality(ScopesIn(c)) /\ b = Cardinality(ScopesBelow(c, k))
    BY <1>3, <1>5, FS_CardinalityType
  <1>7. b <= d /\ (d = b => ScopesIn(c) = ScopesBelow(c, k)) /\ LevelIn(c, k) = b + 1
    BY <1>5, <1>6 DEF LevelIn
  <1>8. ASSUME NEW j \in ScopesIn(c), ~(j < k) PROVE b + 1 <= d
    <2>1. j \notin ScopesBelow(c, k)
      BY <1>8 DEF ScopesBelow
    <2>2. d # b
      BY <1>7, <1>8, <2>1
    <2> QED
      BY <1>6, <1>7, <2>2
  <1>9. (\A j \in ScopesIn(c) : j < k) => b = d
    <2>1. (\A j \in ScopesIn(c) : j < k) => ScopesBelow(c, k) = ScopesIn(c)
      BY DEF ScopesBelow
    <2> QED
      BY <1>6, <2>1
  <1> QED
    BY <1>6, <1>7, <1>8, <1>9

(* The same among the scopes that are open.                                  *)
LEMMA Levels ==
  ASSUME IInv, NEW k
  PROVE  LET l == LevelIn(control, k)
         IN  /\ Depth \in Nat /\ l \in 1 .. Depth + 1
             /\ \A j \in ScopesIn(control) : ~(j < k) => l <= Depth
             /\ (\A j \in ScopesIn(control) : j < k) => l = Depth + 1
  <1>1. PICK S : control \in Seq(S)
    BY DEF IInv, Frames
  <1>2. Depth = Cardinality(ScopesIn(control))
    BY ScopesCounted DEF ScopesIn
  <1> QED
    BY <1>1, <1>2, LevelOf

(* The frames below the k-th are the same kind on both stacks.               *)
SameKinds(c, e, k) ==
  \A j \in Nat \ {0} : j < k =>
    /\ j \in DOMAIN c <=> j \in DOMAIN e
    /\ j \in DOMAIN c => c[j].kind = e[j].kind

LEMMA SameLevel ==
  ASSUME NEW S, NEW T, NEW c \in Seq(S), NEW e \in Seq(T), NEW k, SameKinds(c, e, k)
  PROVE  LevelIn(e, k) = LevelIn(c, k)
  <1>1. DOMAIN c \subseteq Nat \ {0} /\ DOMAIN e \subseteq Nat \ {0}
    BY LenProperties
  <1>2. ScopesBelow(e, k) = ScopesBelow(c, k)
    BY <1>1 DEF ScopesBelow, ScopesIn, SameKinds
  <1> QED
    BY <1>2 DEF LevelIn

(* A turn of the loop of the sweep f, on top of m frames, at the vari a.     *)
Turning(m, f, a) ==
  /\ m = Len(control) /\ m \in Nat \ {0} /\ DOMAIN control = 1 .. m
  /\ control[m] = f /\ f = Top
  /\ f = [kind |-> "grad", i |-> f.i, beginning |-> f.beginning, start |-> f.start]
  /\ f.i \in Nat /\ f.beginning \in Nat /\ f.i > f.beginning
  /\ a = var_stack_[f.i] /\ a \in Live
  /\ \A k \in 1 .. m - 1 : control'[k] = control[k]
  /\ control'[m] = [f EXCEPT !.i = @ - 1]
  /\ \/ DOMAIN control' = 1 .. m /\ adj' = Chained(a)
     \/ DOMAIN control' = 1 .. m + 1 /\ adj' = adj /\ control'[m + 1].kind = "chain"

LEMMA SweepStepTurns ==
  ASSUME IInv, SweepStep
  PROVE  \E m, f, a : Turning(m, f, a)
  <1>1. PICK m, f, g, c, t, a :
          /\ m = Len(control) /\ f = Top /\ g = [f EXCEPT !.i = @ - 1]
          /\ a = var_stack_[f.i] /\ c = [kind |-> "chain", vari |-> a]
          /\ t = Turned(g)
    OBVIOUS
  <1>2. /\ control # <<>> /\ f.kind = "grad" /\ f.i > f.beginning
        /\ \/ control' = t /\ adj' = Chained(a)
           \/ control' = Append(t, c) /\ adj' = adj
    BY <1>1 DEF SweepStep, TopIs, Top, LastOf, Turned
  <1>3. Frames
    BY DEF IInv
  <1>4. /\ \E S : t \in Seq(S)
        /\ Len(control) \in Nat \ {0} /\ Len(t) = Len(control)
        /\ DOMAIN control = 1 .. Len(control)
        /\ \A k \in 1 .. Len(control) - 1 : t[k] = control[k]
        /\ t[Len(control)] = g
    BY <1>1, <1>2, <1>3, FramesTurn, Zenon
  <1>5. /\ m \in Nat \ {0} /\ Len(t) = m /\ DOMAIN control = 1 .. m
        /\ \A k \in 1 .. m - 1 : t[k] = control[k]
        /\ t[m] = g /\ control[m] = f
    BY <1>1, <1>4 DEF Top, LastOf
  <1>6. PICK S : t \in Seq(S)
    BY <1>4
  <1>7. /\ f.i \in Nat /\ f.beginning \in Nat /\ a \in Live
    BY <1>1, <1>2, SweptIsLive
  <1>8. f = [kind |-> "grad", i |-> f.i, beginning |-> f.beginning, start |-> f.start]
    <2>1. PICK pos : FramesAt(pos)
      BY DEF IInv
    <2>2. m \in DOMAIN control
      BY <1>5
    <2>3. SweepOK(pos, m, f)
      BY <1>2, <1>5, <2>1, <2>2 DEF FramesAt
    <2> QED
      BY <2>3 DEF SweepOK
  <1>9. CASE control' = t /\ adj' = Chained(a)
    <2>1. DOMAIN control' = 1 .. m
      BY <1>5, <1>6, <1>9, LenProperties
    <2>2. (\A k \in 1 .. m - 1 : control'[k] = control[k]) /\ control'[m] = [f EXCEPT !.i = @ - 1]
      BY <1>1, <1>5, <1>9, Zenon
    <2>3. Turning(m, f, a)
      BY <1>1, <1>2, <1>5, <1>7, <1>8, <1>9, <2>1, <2>2, Zenon DEF Turning
    <2> QED
      BY <2>3
  <1>10. CASE control' = Append(t, c) /\ adj' = adj
    <2>1. t \in Seq(S \cup {c}) /\ c \in S \cup {c}
      BY <1>6, SeqMonotonic
    <2>2. /\ DOMAIN control' = 1 .. m + 1 /\ control'[m + 1] = c
          /\ \A k \in 1 .. m : control'[k] = t[k]
      BY <1>5, <1>10, <2>1, PushBack
    <2>3. (\A k \in 1 .. m - 1 : control'[k] = control[k]) /\ control'[m] = [f EXCEPT !.i = @ - 1]
      BY <1>1, <1>5, <2>2
    <2>4. control'[m + 1].kind = "chain"
      BY <1>1, <2>2
    <2>5. Turning(m, f, a)
      BY <1>1, <1>2, <1>5, <1>7, <1>8, <1>10, <2>2, <2>3, <2>4, Zenon DEF Turning
    <2> QED
      BY <2>5
  <1> QED
    BY <1>2, <1>9, <1>10

(* What a step does to the C++ stack.                                        *)
Pushes(f) ==
  /\ control' = Append(control, f)
  /\ \/ OpenScope /\ f = [kind |-> "scope"]
     \/ \E root \in Usable \cup {0} :
          /\ StartSweep(root)
          /\ f = [kind |-> "grad", i |-> Len(var_stack_),
                  beginning |-> IF empty_nested THEN 0 ELSE Len(var_stack_) - nested_size,
                  start |-> adj']

ControlMoves ==
  \/ control' = control
  \/ \E f : Pushes(f)
  \/ control # <<>> /\ control' = FrontOf(control)
  \/ SweepStep

LEMMA StepMovesControl ==
  ASSUME [Next]_vars
  PROVE  ControlMoves
  <1>1. CASE Build
    BY <1>1 DEF Build, NewVar, NewOp, NewCallback, NewVariThrows, NewChainable,
       NewChainableThrows, ControlMoves
  <1>2. ASSUME NEW root \in Usable \cup {0}, StartSweep(root)
        PROVE  ControlMoves
    <2>1. PICK f : f = [kind |-> "grad", i |-> Len(var_stack_),
                  beginning |-> IF empty_nested THEN 0 ELSE Len(var_stack_) - nested_size,
                  start |-> adj']
      OBVIOUS
    <2>2. Pushes(f)
      BY <1>2, <2>1, Zenon DEF Pushes, StartSweep
    <2> QED
      BY <2>2 DEF ControlMoves
  <1>3. CASE SweepStep
    BY <1>3 DEF ControlMoves
  <1>4. CASE ChainReturns \/ EndSweep
    BY <1>4 DEF ChainReturns, EndSweep, TopIs, ControlMoves
  <1>5. CASE set_zero_all_adjoints \/ set_zero_all_adjoints_nested
    BY <1>5 DEF set_zero_all_adjoints, set_zero_all_adjoints_nested, ControlMoves
  <1>6. CASE OpenScope
    <2>1. Pushes([kind |-> "scope"])
      BY <1>6 DEF OpenScope, Pushes
    <2> QED
      BY <2>1 DEF ControlMoves
  <1>7. CASE CloseScope \/ RecoverMemory \/ Throw \/ Unwind \/ Catch
    BY <1>7 DEF CloseScope, TopIs, RecoverMemory, Throw, Unwind, Catch, ControlMoves
  <1>8. CASE UNCHANGED vars
    BY <1>8 DEF vars, ControlMoves
  <1> QED
    BY <1>1, <1>2, <1>3, <1>4, <1>5, <1>6, <1>7, <1>8 DEF Next, Sweep, Manage

(* Frames that stay keep their place, and but for its index the top one too. *)
FrameStays(k) ==
  /\ SameKinds(control, control', k) /\ control'[k].kind = control[k].kind
  /\ control[k].kind = "grad" =>
       /\ control'[k].start = control[k].start
       /\ control'[k].beginning = control[k].beginning
  /\ k < Len(control) => control'[k] = control[k]

LEMMA FrameStaysWhen ==
  ASSUME NEW m \in Nat, NEW n \in Nat, DOMAIN control = 1 .. m, DOMAIN control' = 1 .. n,
         Len(control) = m, NEW k \in 1 .. m, k <= n,
         \A j \in 1 .. k : control'[j] = control[j]
  PROVE  FrameStays(k)
  <1>1. \A j \in Nat \ {0} : j < k => j \in 1 .. m /\ j \in 1 .. n /\ j \in 1 .. k
    OBVIOUS
  <1>2. k \in 1 .. k
    OBVIOUS
  <1>3. SameKinds(control, control', k)
    BY <1>1 DEF SameKinds
  <1> QED
    BY <1>2, <1>3 DEF FrameStays

LEMMA FramesStay ==
  ASSUME IInv, [Next]_vars, NEW k \in DOMAIN control, k \in DOMAIN control'
  PROVE  FrameStays(k)
  <1>0. Frames
    BY DEF IInv
  <1>1. PICK m \in Nat : m = Len(control) /\ DOMAIN control = 1 .. m
    BY <1>0, LenProperties DEF Frames
  <1>2. CASE control' = control
    <2>1. DOMAIN control' = 1 .. m /\ k \in 1 .. m /\ k <= m
      BY <1>1, <1>2
    <2> QED
      BY <1>1, <1>2, <2>1, FrameStaysWhen
  <1>3. ASSUME NEW f, Pushes(f)
        PROVE  FrameStays(k)
    <2>1. control' = Append(control, f)
      BY <1>3 DEF Pushes
    <2>2. DOMAIN control' = 1 .. m + 1 /\ \A j \in 1 .. m : control'[j] = control[j]
      BY <1>0, <1>1, <2>1, FramesPush
    <2>3. k \in 1 .. m /\ k <= m + 1 /\ \A j \in 1 .. k : j \in 1 .. m
      BY <1>1
    <2> QED
      BY <1>1, <2>2, <2>3, FrameStaysWhen
  <1>4. CASE control # <<>> /\ control' = FrontOf(control)
    <2>1. /\ m \in Nat \ {0} /\ DOMAIN control' = 1 .. m - 1
          /\ \A j \in 1 .. m - 1 : control'[j] = control[j]
      BY <1>0, <1>1, <1>4, FramesPop
    <2>2. /\ k \in 1 .. m /\ k <= m - 1 /\ m - 1 \in Nat
          /\ \A j \in 1 .. k : j \in 1 .. m - 1
      BY <1>1, <2>1
    <2> QED
      BY <1>1, <2>1, <2>2, FrameStaysWhen
  <1>5. CASE SweepStep
    <2>1. PICK h, f, a : Turning(h, f, a)
      BY <1>5, SweepStepTurns
    <2>2. h = m
      BY <1>1, <2>1 DEF Turning
    <2>3. PICK n \in {m, m + 1} : DOMAIN control' = 1 .. n
      BY <2>1, <2>2 DEF Turning
    <2>4. \A j \in 1 .. m - 1 : control'[j] = control[j]
      BY <2>1, <2>2 DEF Turning
    <2>5. CASE k # m
      <3>1. k \in 1 .. m /\ k <= n /\ n \in Nat /\ \A j \in 1 .. k : j \in 1 .. m - 1
        BY <1>1, <2>3, <2>5
      <3> QED
        BY <1>1, <2>3, <2>4, <3>1, FrameStaysWhen
    <2>6. CASE k = m
      <3>1. /\ control[m] = f /\ control'[m] = [f EXCEPT !.i = @ - 1]
            /\ f = [kind |-> "grad", i |-> f.i, beginning |-> f.beginning, start |-> f.start]
        BY <2>1, <2>2 DEF Turning
      <3>2. /\ control'[m].kind = f.kind /\ control'[m].start = f.start
            /\ control'[m].beginning = f.beginning
        BY <3>1
      <3>3. \A j \in Nat \ {0} : j < k => j \in 1 .. m - 1 /\ j \in 1 .. m /\ j \in 1 .. n
        BY <1>1, <2>3, <2>6
      <3>4. SameKinds(control, control', k)
        BY <1>1, <2>3, <2>4, <3>3 DEF SameKinds
      <3>5. ~(k < Len(control))
        BY <1>1, <2>6
      <3> QED
        BY <2>6, <3>1, <3>2, <3>4, <3>5 DEF FrameStays
    <2> QED
      BY <2>5, <2>6
  <1> QED
    BY <1>2, <1>3, <1>4, <1>5, StepMovesControl DEF ControlMoves

(* A sweep that was not there begins where var_stack_ ends.                  *)
LEMMA NewSweep ==
  ASSUME IInv, [Next]_vars, NEW k \in DOMAIN control', k \notin DOMAIN control,
         control'[k].kind = "grad"
  PROVE  /\ k = Len(control) + 1 /\ Len(control) \in Nat
         /\ \E root \in Usable \cup {0} :
              /\ StartSweep(root)
              /\ control'[k] =
                   [kind |-> "grad", i |-> Len(var_stack_),
                    beginning |-> IF empty_nested THEN 0 ELSE Len(var_stack_) - nested_size,
                    start |-> adj']
  <1>0. Frames
    BY DEF IInv
  <1>1. PICK m \in Nat : m = Len(control) /\ DOMAIN control = 1 .. m
    BY <1>0, LenProperties DEF Frames
  <1>2. CASE control' = control
    BY <1>2
  <1>3. ASSUME NEW f, Pushes(f)
        PROVE  /\ k = m + 1
               /\ \E root \in Usable \cup {0} :
                    /\ StartSweep(root)
                    /\ control'[k] =
                         [kind |-> "grad", i |-> Len(var_stack_),
                          beginning |-> IF empty_nested THEN 0
                                        ELSE Len(var_stack_) - nested_size,
                          start |-> adj']
    <2>1. control' = Append(control, f)
      BY <1>3 DEF Pushes
    <2>2. DOMAIN control' = 1 .. m + 1 /\ control'[m + 1] = f
      BY <1>0, <1>1, <2>1, FramesPush
    <2>3. k = m + 1 /\ control'[k] = f /\ f.kind # "scope"
      BY <1>1, <2>2
    <2>4. f # [kind |-> "scope"]
      BY <2>3
    <2> QED
      BY <1>3, <2>3, <2>4, Zenon DEF Pushes
  <1>4. CASE control # <<>> /\ control' = FrontOf(control)
    BY <1>0, <1>1, <1>4, FramesPop
  <1>5. CASE SweepStep
    <2>1. PICK h, f, a : Turning(h, f, a)
      BY <1>5, SweepStepTurns
    <2>2. h = m
      BY <1>1, <2>1 DEF Turning
    <2>3. k = m + 1 /\ control'[m + 1].kind = "chain"
      BY <1>1, <2>1, <2>2 DEF Turning
    <2> QED
      BY <2>3
  <1> QED
    BY <1>1, <1>2, <1>3, <1>4, <1>5, StepMovesControl DEF ControlMoves

LEMMA NestingStep ==
  ASSUME IInv, IInv', Nesting, [Next]_vars
  PROVE  Nesting'
  <1>0. Frames /\ Frames'
    BY DEF IInv
  <1>1. PICK m \in Nat, n \in Nat :
          m = Len(control) /\ DOMAIN control = 1 .. m /\ DOMAIN control' = 1 .. n
    <2>1. (\E S : control \in Seq(S)) /\ \E S : control' \in Seq(S)
      BY <1>0 DEF Frames
    <2> QED
      BY <2>1, LenProperties
  <1> SUFFICES ASSUME NEW k \in 1 .. n, k + 1 \in 1 .. n
               PROVE  /\ control'[k].kind = "grad" => control'[k + 1].kind = "chain"
                      /\ control'[k].kind = "chain" => control'[k + 1].kind = "scope"
    BY <1>1 DEF Nesting, Nests
  <1>2. CASE k + 1 \in 1 .. m
    <2>1. k \in 1 .. m
      BY <1>1, <1>2
    <2>2. control'[k].kind = control[k].kind
      BY <1>1, <2>1, FramesStay DEF FrameStays
    <2>3. control'[k + 1].kind = control[k + 1].kind
      BY <1>1, <1>2, FramesStay DEF FrameStays
    <2> QED
      BY <1>1, <1>2, <2>1, <2>2, <2>3 DEF Nesting, Nests
  <1>3. CASE k + 1 \notin 1 .. m
    <2>1. CASE control' = control
      BY <1>1, <1>3, <2>1
    <2>2. ASSUME NEW f, Pushes(f)
          PROVE  /\ control'[k].kind = "grad" => control'[k + 1].kind = "chain"
                 /\ control'[k].kind = "chain" => control'[k + 1].kind = "scope"
      <3>1. control' = Append(control, f)
        BY <2>2 DEF Pushes
      <3>2. /\ DOMAIN control' = 1 .. m + 1 /\ control'[m + 1] = f
            /\ \A j \in 1 .. m : control'[j] = control[j]
        BY <1>0, <1>1, <3>1, FramesPush
      <3>3. k = m /\ k \in 1 .. m
        BY <1>1, <1>3, <3>2
      <3>4. control # <<>> /\ Top = control[m]
        BY <1>1, <3>3, EmptySeq DEF Top, LastOf
      <3>5. Top.kind = "scope" \/ (Top.kind = "chain" /\ f.kind = "scope")
        BY <2>2, <3>4 DEF Pushes, OpenScope, StartSweep, ClientRuns, TopIs
      <3> QED
        BY <3>2, <3>3, <3>4, <3>5
    <2>3. CASE control # <<>> /\ control' = FrontOf(control)
      <3>1. DOMAIN control' = 1 .. m - 1
        BY <1>0, <1>1, <2>3, FramesPop
      <3>2. k + 1 \in 1 .. m - 1
        BY <1>1, <3>1, Zenon
      <3> QED
        BY <1>1, <1>3, <3>2
    <2>4. CASE SweepStep
      <3>1. PICK h, f, a : Turning(h, f, a)
        BY <2>4, SweepStepTurns
      <3>2. h = m
        BY <1>1, <3>1 DEF Turning
      <3>3. f.kind = "grad" /\ control[m] = f /\ m \in 1 .. m
        BY <3>1, <3>2 DEF Turning
      <3>4. \/ 1 .. n = 1 .. m
            \/ 1 .. n = 1 .. m + 1 /\ control'[m + 1].kind = "chain"
        BY <1>1, <3>1, <3>2 DEF Turning
      <3>5. n = m + 1 /\ control'[m + 1].kind = "chain" /\ k = m
        BY <1>1, <1>3, <3>4
      <3>6. control'[m].kind = "grad"
        BY <1>1, <3>3, <3>5, FramesStay DEF FrameStays
      <3> QED
        BY <3>5, <3>6
    <2> QED
      BY <2>1, <2>2, <2>3, <2>4, StepMovesControl DEF ControlMoves
  <1> QED
    BY <1>2, <1>3

(* What a step does to the varis and the marks.                              *)
MarksMove ==
  \/ UNCHANGED <<varis, nested_next_locs_, nested_var_stack_sizes_>>
  \/ NewVar \/ NewOp \/ NewCallback \/ NewVariThrows
  \/ OpenScope
  \/ recover_memory_nested /\ TopIs("scope") /\ control' = FrontOf(control)
  \/ control = <<>> /\ control' = <<>> /\ recover_memory

LEMMA StepMovesMarks ==
  ASSUME IInv, [Next]_vars
  PROVE  MarksMove
  <1>1. CASE UNCHANGED <<varis, marks>>
    BY <1>1 DEF MarksMove, marks
  <1>2. ASSUME recover_memory, control = <<>> \/ TopIs("scope"), control' = control
        PROVE  MarksMove
    <2>1. control = <<>>
      BY <1>2, RecoverOK, ClientAtBottom DEF IInv
    <2> QED
      BY <1>2, <2>1 DEF MarksMove
  <1>3. CASE Build
    BY <1>1, <1>3 DEF Build, NewChainable, NewChainableThrows, MarksMove, memory
  <1>4. CASE Sweep
    BY <1>1, <1>4 DEF Sweep, StartSweep, SweepStep, ChainReturns, EndSweep,
       set_zero_all_adjoints, set_zero_all_adjoints_nested, memory
  <1>5. CASE Manage
    BY <1>1, <1>2, <1>5 DEF Manage, OpenScope, CloseScope, RecoverMemory, Throw, Unwind, Catch,
       ClientRuns, MarksMove, memory
  <1>6. CASE UNCHANGED vars
    BY <1>1, <1>6 DEF vars, memory
  <1> QED
    BY <1>3, <1>4, <1>5, <1>6 DEF Next

(* When a client runs in a scope, all sweeps are under it.                   *)
LEMMA UnderScope ==
  ASSUME IInv, TopIs("scope"), NEW k \in DOMAIN control
  PROVE  LevelIn(control, k) \in 1 .. Depth /\ Depth \in Nat
  <1>1. PICK S : control \in Seq(S)
    BY DEF IInv, Frames
  <1>2. PICK m \in Nat : m = Len(control) /\ DOMAIN control = 1 .. m
    BY <1>1, LenProperties
  <1>3. m \in ScopesIn(control) /\ ~(m < k)
    BY <1>2 DEF TopIs, Top, LastOf, ScopesIn
  <1>4. /\ Depth \in Nat /\ LevelIn(control, k) \in 1 .. Depth + 1
        /\ LevelIn(control, k) <= Depth
    BY <1>3, Levels
  <1> QED
    BY <1>4

MarksAfter(l) == Extent(l)' = Extent(l) /\ Floor(l)' = Floor(l)

LEMMA OpenScopeMarks ==
  ASSUME IInv, OpenScope, NEW l \in 1 .. Depth + 1
  PROVE  MarksAfter(l)
  <1>1. PICK d, n, s : d = Depth /\ n = Len(varis) /\ s = Len(var_stack_)
    OBVIOUS
  <1>2. d \in Nat /\ n \in Nat /\ s \in Nat /\ d = Len(nested_next_locs_)
    BY <1>1, Lengths DEF IInv
  <1>3. nested_var_stack_sizes_ \in Seq(Nat) /\ nested_next_locs_ \in Seq(Nat)
    BY DEF IInv, TapeOK, StackOK, Cuts
  <1>4. /\ nested_var_stack_sizes_' = Append(nested_var_stack_sizes_, s)
        /\ nested_next_locs_' = Append(nested_next_locs_, n)
        /\ varis' = varis
    BY <1>1 DEF OpenScope, start_nested, memory
  <1>5. /\ Depth' = d + 1
        /\ \A i \in 1 .. d : nested_var_stack_sizes_'[i] = nested_var_stack_sizes_[i]
    <2>1. PICK z \in Seq(Nat) : z = nested_var_stack_sizes_ /\ Len(z) = d
      BY <1>1, <1>3 DEF Depth
    <2>2. Len(Append(z, s)) = d + 1 /\ \A i \in 1 .. d : Append(z, s)[i] = z[i]
      BY <1>2, <2>1, PushBack
    <2> QED
      BY <1>4, <2>1, <2>2 DEF Depth
  <1>6. /\ nested_next_locs_'[d + 1] = n
        /\ \A i \in 1 .. d : nested_next_locs_'[i] = nested_next_locs_[i]
    BY <1>2, <1>3, <1>4, PushBack
  <1>7. l \in 1 .. d + 1
    BY <1>1
  <1>8. nested_next_locs_'[l] = IF l <= d THEN nested_next_locs_[l] ELSE n
    BY <1>2, <1>6, <1>7
  <1>9. Extent(l)' = Extent(l)
    BY <1>1, <1>2, <1>5, <1>7, <1>8 DEF Extent
  <1>10. l # 1 => l - 1 \in 1 .. d
    BY <1>2, <1>7
  <1>11. Floor(l)' = Floor(l)
    BY <1>5, <1>10 DEF Floor
  <1> QED
    BY <1>9, <1>11 DEF MarksAfter

LEMMA RecoverNestedMarks ==
  ASSUME IInv, recover_memory_nested, NEW l \in 1 .. Depth
  PROVE  MarksAfter(l)
  <1>1. PICK d, n : d = Depth /\ n = LastOf(nested_next_locs_)
    OBVIOUS
  <1>2. d \in Nat /\ d = Len(nested_next_locs_) /\ l \in 1 .. d
    BY <1>1, Lengths DEF IInv
  <1>3. /\ nested_var_stack_sizes_ \in Seq(Nat) /\ nested_next_locs_ \in Seq(Nat)
        /\ Len(nested_var_stack_sizes_) = d
    BY <1>1 DEF IInv, TapeOK, StackOK, Cuts, Depth
  <1>4. nested_var_stack_sizes_ # <<>> /\ nested_next_locs_ # <<>>
    BY <1>2, <1>3, EmptySeq
  <1>5. /\ nested_var_stack_sizes_' = FrontOf(nested_var_stack_sizes_)
        /\ nested_next_locs_' = FrontOf(nested_next_locs_)
    BY DEF recover_memory_nested, RecoverNestedTapes, RecoverNestedArena
  <1>6. /\ Depth' = d - 1
        /\ \A i \in 1 .. d - 1 : nested_var_stack_sizes_'[i] = nested_var_stack_sizes_[i]
    BY <1>3, <1>4, <1>5, PopBack DEF Depth
  <1>7. /\ n = nested_next_locs_[d]
        /\ \A i \in 1 .. d - 1 : nested_next_locs_'[i] = nested_next_locs_[i]
    BY <1>1, <1>2, <1>3, <1>4, <1>5, PopBack
  <1>8. Len(varis') = n
    BY <1>1, VarisAfter
  <1>9. Extent(l)' = Extent(l)
    <2>1. CASE l = d
      <3>1. Extent(l)' = Len(varis') /\ Extent(l) = nested_next_locs_[l]
        BY <1>1, <1>2, <1>6, <2>1 DEF Extent
      <3> QED
        BY <1>7, <1>8, <2>1, <3>1
    <2>2. CASE l # d
      <3>1. l \in 1 .. d - 1 /\ l <= d /\ l <= d - 1
        BY <1>2, <2>2
      <3> QED
        BY <1>1, <1>6, <1>7, <3>1 DEF Extent
    <2> QED
      BY <2>1, <2>2
  <1>10. l # 1 => l - 1 \in 1 .. d - 1
    BY <1>2
  <1>11. Floor(l)' = Floor(l)
    BY <1>6, <1>10 DEF Floor
  <1> QED
    BY <1>9, <1>11 DEF MarksAfter

LEMMA SweepsKeepMarks ==
  ASSUME IInv, [Next]_vars, NEW k \in DOMAIN control, NEW l, l = LevelIn(control, k)
  PROVE  MarksAfter(l)
  <1>1. CASE UNCHANGED <<varis, nested_next_locs_, nested_var_stack_sizes_>>
    BY <1>1 DEF MarksAfter, Extent, Floor, Depth
  <1>2. control # <<>>
    OBVIOUS
  <1>3. CASE NewVar \/ NewOp \/ NewCallback \/ NewVariThrows
    <2>1. TopIs("scope") /\ UNCHANGED <<nested_next_locs_, nested_var_stack_sizes_>>
      BY <1>2, <1>3 DEF NewVar, NewOp, NewCallback, NewVariThrows, ClientRuns, marks
    <2>2. l <= Depth
      BY <2>1, UnderScope
    <2> QED
      BY <2>1, <2>2 DEF MarksAfter, Extent, Floor, Depth
  <1>4. CASE OpenScope
    <2>1. l \in 1 .. Depth + 1
      BY Levels
    <2> QED
      BY <1>4, <2>1, OpenScopeMarks
  <1>5. CASE recover_memory_nested /\ TopIs("scope")
    <2>1. l \in 1 .. Depth
      BY <1>5, UnderScope
    <2> QED
      BY <1>5, <2>1, RecoverNestedMarks
  <1> QED
    BY <1>1, <1>2, <1>3, <1>4, <1>5, StepMovesMarks DEF MarksMove

LEMMA SeenStep ==
  ASSUME IInv, IInv', AdjTyped', SeenOK, [Next]_vars
  PROVE  SeenOK'
  <1>0. PICK S, T : control \in Seq(S) /\ control' \in Seq(T)
    BY DEF IInv, Frames
  <1> SUFFICES ASSUME NEW k \in DOMAIN control', control'[k].kind = "grad"
               PROVE  \E l : /\ l = LevelIn(control', k)
                             /\ Len(control'[k].start) = Extent(l)'
                             /\ control'[k].beginning = Floor(l)'
    BY DEF SeenOK
  <1>1. CASE k \in DOMAIN control
    <2>1. FrameStays(k)
      BY <1>1, FramesStay
    <2>2. PICK l : l = LevelIn(control, k)
      OBVIOUS
    <2>3. LevelIn(control', k) = l
      BY <1>0, <2>1, <2>2, SameLevel DEF FrameStays
    <2>4. /\ control[k].kind = "grad" /\ control'[k].start = control[k].start
          /\ control'[k].beginning = control[k].beginning
      BY <2>1 DEF FrameStays
    <2>5. Len(control[k].start) = Extent(l) /\ control[k].beginning = Floor(l)
      BY <1>1, <2>2, <2>4 DEF SeenOK
    <2>6. MarksAfter(l)
      BY <1>1, <2>2, SweepsKeepMarks
    <2> QED
      BY <2>3, <2>4, <2>5, <2>6 DEF MarksAfter
  <1>2. CASE k \notin DOMAIN control
    <2>1. PICK root, b :
            /\ root \in Usable \cup {0} /\ StartSweep(root)
            /\ b = IF empty_nested THEN 0 ELSE Len(var_stack_) - nested_size
            /\ control'[k] = [kind |-> "grad", i |-> Len(var_stack_), beginning |-> b,
                              start |-> adj']
      BY <1>2, NewSweep
    <2>2. PICK m \in Nat : m = Len(control) /\ DOMAIN control = 1 .. m
      BY <1>0, LenProperties
    <2>3. /\ k = m + 1 /\ DOMAIN control' = 1 .. m + 1
          /\ \A j \in 1 .. m : control'[j] = control[j]
      <3>1. k = m + 1
        BY <1>2, <2>2, NewSweep
      <3>2. PICK f : control' = Append(control, f)
        BY <2>1 DEF StartSweep
      <3> QED
        BY <2>2, <3>1, <3>2, FramesPush DEF IInv
    <2>4. SameKinds(control, control', k)
      <3>1. \A j \in Nat \ {0} : j < k => j \in 1 .. m /\ j \in 1 .. m + 1
        BY <2>2, <2>3
      <3> QED
        BY <2>2, <2>3, <3>1 DEF SameKinds
    <2>5. PICK l : l = LevelIn(control', k)
      OBVIOUS
    <2>6. l = LevelIn(control, k)
      BY <1>0, <2>4, <2>5, SameLevel
    <2>7. \A j \in ScopesIn(control) : j < k
      BY <2>2, <2>3 DEF ScopesIn
    <2>8. PICK d \in Nat : d = Depth /\ l = d + 1
      BY <2>6, <2>7, Levels
    <2>9. UNCHANGED <<varis, nested_var_stack_sizes_>>
      BY <2>1 DEF StartSweep, marks
    <2>10. Depth' = d
      BY <2>8, <2>9 DEF Depth
    <2>11. Extent(l)' = Len(varis')
      BY <2>8, <2>10 DEF Extent
    <2>12. Len(control'[k].start) = Len(varis') /\ control'[k].beginning = b
      BY <2>1 DEF AdjTyped
    <2>13. Floor(l)' = b
      <3>1. CASE d = 0
        <4>1. empty_nested
          BY <2>8, <3>1, Lengths DEF IInv
        <4> QED
          BY <2>1, <2>8, <3>1, <4>1 DEF Floor
      <3>2. CASE d # 0
        <4>1. ~empty_nested /\ Len(var_stack_) \in Nat
          BY <2>8, <3>2, Lengths DEF IInv
        <4>2. LastOf(nested_var_stack_sizes_) = nested_var_stack_sizes_[d]
          BY <2>8 DEF LastOf, Depth
        <4>3. nested_var_stack_sizes_[d] \in Nat
          <5>1. nested_var_stack_sizes_ \in Seq(Nat)
            BY DEF IInv, TapeOK, StackOK, Cuts
          <5>2. d \in 1 .. Len(nested_var_stack_sizes_)
            BY <2>8, <3>2 DEF Depth
          <5> QED
            BY <5>1, <5>2, ElementOfSeq
        <4>4. b = nested_var_stack_sizes_[d]
          BY <2>1, <4>1, <4>2, <4>3 DEF nested_size
        <4>5. l # 1 /\ l - 1 = d
          BY <2>8, <3>2
        <4> QED
          BY <2>9, <4>4, <4>5 DEF Floor
      <3> QED
        BY <3>1, <3>2
    <2> QED
      BY <2>5, <2>11, <2>12, <2>13
  <1> QED
    BY <1>1, <1>2
-----------------------------------------------------------------------------
(* What chain() adds to is older than what it reads, and no client under a   *)
(* sweep builds on what the sweep has seen.                                  *)
Downward == \A c \in Live : Descends(c, varis[c])

OnlyAbove(vari, n) == \A k \in DOMAIN vari.ops : vari.ops[k].v > n

Apart ==
  \A k \in DOMAIN control : control[k].kind = "grad" =>
    \A c \in Live : c > Len(control[k].start) => OnlyAbove(varis[c], Len(control[k].start))

LEMMA ListedOperands ==
  ASSUME NEW A \in SUBSET (Nat \ {0}), NEW ops \in OperandLists(A)
  PROVE  ops \in Seq(Operand) /\ \A k \in DOMAIN ops : ops[k].v \in A
  <1>1. [v : A, d : Partials] \subseteq Operand
    BY DEF Operand
  <1>2. PICK n \in 1 .. MaxOperands : ops \in [1 .. n -> [v : A, d : Partials]]
    BY DEF OperandLists
  <1>3. n \in Nat /\ ops \in [1 .. n -> Operand]
    BY <1>1, <1>2
  <1>4. \A k \in DOMAIN ops : ops[k].v \in A
    BY <1>2
  <1> QED
    BY <1>3, <1>4, SeqDef

LEMMA PlacedReads ==
  ASSUME IInv, NewVar \/ NewOp \/ NewCallback \/ NewVariThrows
  PROVE  \E vari : /\ Place(vari) /\ Descends(Len(varis) + 1, vari)
                   /\ \A k \in DOMAIN vari.ops : vari.ops[k].v \in Usable
  <1>1. PICK n \in Nat : n = Len(varis) /\ Live = 1 .. n
    BY Lengths DEF IInv
  <1>2. Usable \in SUBSET (Nat \ {0}) /\ \A v \in Usable : v \in 1 .. n
    BY <1>1 DEF Usable
  <1>3. CASE NewVar \/ NewVariThrows
    <2>1. PICK b : Place([from |-> Len(varis) + 1, ops |-> <<>>, nests |-> FALSE,
                          holds |-> {}, built |-> b])
      BY <1>3 DEF NewVar, NewVariThrows
    <2>2. PICK vari : vari = [from |-> Len(varis) + 1, ops |-> <<>>, nests |-> FALSE,
                              holds |-> {}, built |-> b]
      OBVIOUS
    <2>3. <<>> \in Seq(Operand) /\ DOMAIN <<>> = {}
      OBVIOUS
    <2>4. vari.from = n + 1 /\ vari.ops = <<>>
      BY <1>1, <2>2
    <2>5. Descends(n + 1, vari)
      BY <2>3, <2>4 DEF Descends
    <2>6. \A k \in DOMAIN vari.ops : vari.ops[k].v \in Usable
      BY <2>3, <2>4
    <2> QED
      BY <1>1, <2>1, <2>2, <2>5, <2>6
  <1>4. CASE NewOp
    <2>1. PICK ops, nests, holds :
            /\ ops \in OperandLists(Usable)
            /\ Place([from |-> Len(varis) + 1, ops |-> ops, nests |-> nests,
                      holds |-> holds, built |-> TRUE])
      BY <1>4 DEF NewOp
    <2>2. PICK vari : vari = [from |-> Len(varis) + 1, ops |-> ops, nests |-> nests,
                              holds |-> holds, built |-> TRUE]
      OBVIOUS
    <2>3. ops \in Seq(Operand) /\ \A k \in DOMAIN ops : ops[k].v \in Usable
      BY <1>2, <2>1, ListedOperands
    <2>4. vari.from = n + 1 /\ vari.ops = ops
      BY <1>1, <2>2
    <2>5. \A k \in DOMAIN ops : ops[k].v \in 1 .. n
      BY <1>2, <2>3
    <2>6. Descends(n + 1, vari)
      BY <2>3, <2>4, <2>5 DEF Descends
    <2> QED
      BY <1>1, <2>1, <2>2, <2>3, <2>4, <2>6
  <1>5. CASE NewCallback
    <2>1. PICK ops \in OperandLists(Usable \ {Len(varis)}) :
            Place([from |-> Len(varis), ops |-> ops, nests |-> FALSE,
                   holds |-> {}, built |-> TRUE])
      BY <1>5 DEF NewCallback
    <2>2. PICK vari : vari = [from |-> Len(varis), ops |-> ops, nests |-> FALSE,
                              holds |-> {}, built |-> TRUE]
      OBVIOUS
    <2>3. n \in Usable
      BY <1>1, <1>5 DEF NewCallback
    <2>4. ops \in Seq(Operand) /\ \A k \in DOMAIN ops : ops[k].v \in Usable \ {n}
      BY <1>1, <1>2, <2>1, ListedOperands
    <2>5. vari.from = n /\ vari.ops = ops
      BY <1>1, <2>2
    <2>6. n \in Nat \ {0} /\ \A v \in Usable \ {n} : v \in 1 .. n - 1
      BY <1>1, <1>2, <2>3
    <2>7. \A k \in DOMAIN ops : ops[k].v \in 1 .. n - 1
      BY <2>4, <2>6
    <2>8. Descends(n + 1, vari)
      BY <2>4, <2>5, <2>6, <2>7 DEF Descends
    <2> QED
      BY <1>1, <2>1, <2>2, <2>4, <2>5, <2>8
  <1> QED
    BY <1>3, <1>4, <1>5

\* The vari that is placed, and those that were there.
LEMMA PlacedIs ==
  ASSUME IInv, HeapOK, NewVar \/ NewOp \/ NewCallback \/ NewVariThrows
  PROVE  \E n \in Nat : /\ n = Len(varis) /\ Live = 1 .. n /\ Live' = 1 .. n + 1
                        /\ \A c \in Live : varis'[c] = varis[c]
                        /\ Descends(n + 1, varis'[n + 1])
                        /\ \A k \in DOMAIN varis'[n + 1].ops : varis'[n + 1].ops[k].v \in Usable
  <1>1. PICK w \in Vari : Place(w)
    BY PlacedVaris DEF IInv, HeapOK
  <1>2. PICK n \in Nat : /\ n = Len(varis) /\ Live = 1 .. n /\ Live' = 1 .. n + 1
                         /\ \A c \in Live : varis'[c] = varis[c]
                         /\ varis'[n + 1] = w
    BY <1>1, VarisPlaced
  <1>3. PICK vari : /\ Place(vari) /\ Descends(n + 1, vari)
                    /\ \A k \in DOMAIN vari.ops : vari.ops[k].v \in Usable
    BY <1>2, PlacedReads
  <1>4. varis'[n + 1] = vari
    <2>1. varis \in Seq(Vari \cup {vari}) /\ vari \in Vari \cup {vari}
      BY SeqMonotonic DEF IInv, TapeOK
    <2>2. varis' = Append(varis, vari)
      BY <1>3 DEF Place
    <2> QED
      BY <1>2, <2>1, <2>2, PushBack
  <1> QED
    BY <1>2, <1>3, <1>4

LEMMA DownwardStep ==
  ASSUME IInv, HeapOK, Downward, [Next]_vars
  PROVE  Downward'
  <1>1. CASE UNCHANGED varis
    BY <1>1 DEF Downward, Live
  <1>2. CASE NewVar \/ NewOp \/ NewCallback \/ NewVariThrows
    <2>1. PICK n \in Nat : /\ Live = 1 .. n /\ Live' = 1 .. n + 1
                           /\ \A c \in Live : varis'[c] = varis[c]
                           /\ Descends(n + 1, varis'[n + 1])
      BY <1>2, PlacedIs
    <2>2. \A c \in Live' : c \in Live \/ c = n + 1
      BY <2>1
    <2> QED
      BY <2>1, <2>2 DEF Downward
  <1>3. CASE recover_memory_nested
    BY <1>3, VarisAfter DEF Downward
  <1>4. CASE recover_memory
    <2>1. Live' = {}
      BY <1>4 DEF recover_memory, Live
    <2> QED
      BY <2>1 DEF Downward
  <1>5. CASE OpenScope
    BY <1>1, <1>5 DEF OpenScope, memory
  <1> QED
    BY <1>1, <1>2, <1>3, <1>4, <1>5, StepMovesMarks DEF MarksMove

LEMMA ExtentBelow ==
  ASSUME IInv, NEW l \in 1 .. Depth
  PROVE  /\ Extent(l) \in Nat /\ LastOf(nested_next_locs_) \in 0 .. Len(varis)
         /\ Len(varis) \in Nat /\ Extent(l) <= LastOf(nested_next_locs_)
         /\ nested_next_locs_ # <<>>
  <1>1. /\ Depth \in Nat /\ Depth = Len(nested_next_locs_) /\ Len(varis) \in Nat
    BY Lengths DEF IInv
  <1>2. Cuts(nested_next_locs_, Len(varis))
    BY DEF IInv, TapeOK
  <1>3. PICK d \in Nat : d = Depth /\ l \in 1 .. d /\ d \in 1 .. d /\ l <= d
    BY <1>1
  <1>4. /\ nested_next_locs_[l] \in 0 .. Len(varis) /\ nested_next_locs_[d] \in 0 .. Len(varis)
        /\ nested_next_locs_[l] <= nested_next_locs_[d]
    BY <1>1, <1>2, <1>3 DEF Cuts
  <1>5. Extent(l) = nested_next_locs_[l] /\ LastOf(nested_next_locs_) = nested_next_locs_[d]
    BY <1>1, <1>3 DEF Extent, LastOf
  <1>6. nested_next_locs_ # <<>>
    BY <1>1, <1>3, EmptySeq
  <1> QED
    BY <1>1, <1>4, <1>5, <1>6

LEMMA ApartStep ==
  ASSUME IInv, HeapOK, AdjTyped', SeenOK, Apart, [Next]_vars
  PROVE  Apart'
  <1> SUFFICES ASSUME NEW k \in DOMAIN control', control'[k].kind = "grad", NEW c \in Live',
                      c > Len(control'[k].start)
               PROVE  OnlyAbove(varis'[c], Len(control'[k].start))
    BY DEF Apart, OnlyAbove
  <1>1. CASE k \in DOMAIN control
    <2>1. control[k].kind = "grad" /\ control'[k].start = control[k].start
      BY <1>1, FramesStay DEF FrameStays
    <2>2. PICK n : n = Len(control[k].start) /\ n = Len(control'[k].start)
      BY <2>1
    <2>3. ASSUME c \in Live, varis'[c] = varis[c]
          PROVE  OnlyAbove(varis'[c], n)
      BY <1>1, <2>1, <2>2, <2>3 DEF Apart
    <2>4. CASE UNCHANGED varis
      BY <2>2, <2>3, <2>4 DEF Live
    <2>5. CASE NewVar \/ NewOp \/ NewCallback \/ NewVariThrows
      <3>1. PICK N \in Nat :
              /\ Live = 1 .. N /\ Live' = 1 .. N + 1
              /\ \A a \in Live : varis'[a] = varis[a]
              /\ \A j \in DOMAIN varis'[N + 1].ops : varis'[N + 1].ops[j].v \in Usable
        BY <2>5, PlacedIs
      <3>2. TopIs("scope")
        BY <1>1, <2>5 DEF NewVar, NewOp, NewCallback, NewVariThrows, ClientRuns
      <3>3. PICK l : l = LevelIn(control, k) /\ l \in 1 .. Depth /\ n = Extent(l)
        BY <1>1, <2>1, <2>2, <3>2, UnderScope DEF SeenOK
      <3>4. PICK top : top = LastOf(nested_next_locs_)
        OBVIOUS
      <3>5. n \in Nat /\ top \in Nat /\ n <= top
        BY <3>3, <3>4, ExtentBelow
      <3>6. \A v \in Usable : v \in Live /\ v > top
        BY <1>1, <2>1, <3>4 DEF Usable, SweepRuns
      <3>7. \A v \in Usable : v > n
        BY <3>1, <3>5, <3>6
      <3>8. CASE c = N + 1
        BY <2>2, <3>1, <3>7, <3>8 DEF OnlyAbove
      <3>9. CASE c # N + 1
        <4>1. c \in Live
          BY <3>1, <3>9
        <4> QED
          BY <2>2, <2>3, <3>1, <4>1
      <3> QED
        BY <3>8, <3>9
    <2>6. CASE recover_memory_nested
      BY <2>2, <2>3, <2>6, VarisAfter
    <2>7. CASE OpenScope
      BY <2>4, <2>7 DEF OpenScope, memory
    <2> QED
      BY <1>1, <2>4, <2>5, <2>6, <2>7, StepMovesMarks DEF MarksMove
  <1>2. CASE k \notin DOMAIN control
    <2>1. control'[k].start = adj'
      BY <1>2, NewSweep
    <2>2. Len(control'[k].start) = Len(varis') /\ varis' \in Seq(Vari)
      BY <2>1, IInvStep DEF AdjTyped, IInv, TapeOK
    <2>3. Live' = 1 .. Len(varis') /\ Len(varis') \in Nat
      BY <2>2, LenProperties DEF Live
    <2> QED
      BY <2>2, <2>3
  <1> QED
    BY <1>1, <1>2
-----------------------------------------------------------------------------
(***************************************************************************)
(* What a sweep has still to pass on, with the sweeps that chain() starts  *)
(* in scopes of its own going on above it.                                 *)
(***************************************************************************)
(* The part of var_stack_ that holds the first n varis; what a sweep from    *)
(* there down to beginning visits, and what it has yet to visit at i.        *)
Slots(n) == {k \in DOMAIN var_stack_ : var_stack_[k] <= n}
Seen(beginning, n) == {var_stack_[k] : k \in {j \in Slots(n) : beginning < j}}
Ahead(beginning, i, n) == {var_stack_[k] : k \in {j \in Slots(n) : beginning < j /\ j <= i}}

(* A sweep over the varis there were at its start has come to i.             *)
Holds(start, beginning, i) ==
  Carried(varis, adj, Len(start), Ahead(beginning, i, Len(start)), Seen(beginning, Len(start)),
          start)

(* While it is in a chain() it has not passed on what that is to pass on.    *)
Pending(k) == IF k + 1 \in DOMAIN control THEN control[k].i + 1 ELSE control[k].i

Carries ==
  \A k \in DOMAIN control :
    control[k].kind = "grad" /\ (k = Len(control) => exception = "none") =>
      Holds(control[k].start, control[k].beginning, Pending(k))

(* Nothing about the first n varis changes.                                  *)
Untouched(n) ==
  /\ Slots(n)' = Slots(n)
  /\ \A k \in Slots(n) : var_stack_'[k] = var_stack_[k]
  /\ \A c \in Live : c <= n => varis'[c] = varis[c]
  /\ \A v \in 1 .. n : adj'[v] = adj[v]

LEMMA SlotsAreLive ==
  ASSUME IInv
  PROVE  /\ Len(varis) \in Nat /\ Live = 1 .. Len(varis)
         /\ \A k \in DOMAIN var_stack_ : var_stack_[k] \in Live /\ k \in Nat \ {0}
  <1>1. /\ Len(varis) \in Nat /\ Live = 1 .. Len(varis)
        /\ DOMAIN var_stack_ = 1 .. Len(var_stack_)
    BY Lengths DEF IInv
  <1>2. \A k \in 1 .. Len(var_stack_) : var_stack_[k] \in 1 .. Len(varis)
    BY DEF IInv, TapeOK, StackOK
  <1> QED
    BY <1>1, <1>2

LEMMA UntouchedHolds ==
  ASSUME IInv, NEW start, NEW beginning, NEW i, NEW n, n = Len(start), Untouched(n),
         Holds(start, beginning, i)
  PROVE  Holds(start, beginning, i)'
  <1>1. PICK left, all : left = Ahead(beginning, i, n) /\ all = Seen(beginning, n)
    OBVIOUS
  <1>2. Ahead(beginning, i, n)' = left
    BY <1>1 DEF Ahead, Untouched
  <1>3. Seen(beginning, n)' = all
    BY <1>1 DEF Seen, Untouched
  <1>4. \A c \in left \cup all : c \in Live /\ c <= n
    BY <1>1, SlotsAreLive DEF Ahead, Seen, Slots
  <1>5. \A c \in left \cup all : varis'[c] = varis[c]
    BY <1>4 DEF Untouched
  <1>6. AgreeOn(adj, adj', 1 .. n)
    BY DEF AgreeOn, Untouched
  <1>7. Carried(varis, adj, n, left, all, start)
    BY <1>1 DEF Holds
  <1>8. PICK vs, ws, g, h : vs = varis /\ ws = varis' /\ g = adj /\ h = adj'
    OBVIOUS
  <1>9. Carried(ws, h, n, left, all, start)
    BY <1>5, <1>6, <1>7, <1>8, CarriedKept
  <1> QED
    BY <1>2, <1>3, <1>8, <1>9 DEF Holds

(* What a step does to the tape.                                             *)
TapeMoves ==
  \/ UNCHANGED <<var_stack_, varis, adj>>
  \/ NewVar \/ NewOp \/ NewCallback \/ NewVariThrows
  \/ recover_memory_nested
  \/ recover_memory
  \/ \E root \in Usable \cup {0} : StartSweep(root)
  \/ SweepStep
  \/ ChainReturns
  \/ set_zero_all_adjoints
  \/ set_zero_all_adjoints_nested

LEMMA StepMovesTape ==
  ASSUME [Next]_vars
  PROVE  TapeMoves
  <1>1. CASE UNCHANGED <<var_stack_, memory>>
    BY <1>1 DEF TapeMoves, memory
  <1>2. CASE Build
    BY <1>1, <1>2 DEF Build, NewChainable, NewChainableThrows, TapeMoves
  <1>3. CASE Sweep
    BY <1>1, <1>3 DEF Sweep, EndSweep, TapeMoves, tape
  <1>4. CASE Manage
    BY <1>1, <1>4 DEF Manage, OpenScope, CloseScope, RecoverMemory, Throw, Unwind, Catch,
       TapeMoves, tape
  <1>5. CASE UNCHANGED vars
    BY <1>1, <1>5 DEF vars, tape
  <1> QED
    BY <1>2, <1>3, <1>4, <1>5 DEF Next

(* chain() adds to nothing below its operands.                               *)
SameBelow(h, n) == 1 .. n \subseteq DOMAIN h /\ \A v \in 1 .. n : h[v] = adj[v]

LEMMA AddedAbove ==
  ASSUME NEW n \in Nat, NEW h, SameBelow(h, n), NEW w, w > n, NEW e, w \in Nat
  PROVE  SameBelow([h EXCEPT ![w] = e], n)
  BY DEF SameBelow

LEMMA ChainedAbove ==
  ASSUME NEW n \in Nat, SameBelow(adj, n), NEW a, Descends(a, varis[a]), OnlyAbove(varis[a], n)
  PROVE  \A v \in 1 .. n : Chained(a)[v] = adj[v]
  <1>1. PICK ops, x, m : ops = varis[a].ops /\ x = adj[varis[a].from] /\ m = Len(ops)
    OBVIOUS
  <1>2. m \in Nat /\ DOMAIN ops = 1 .. m
    BY <1>1, LenProperties DEF Descends
  <1>3. \A k \in 1 .. m : ops[k].v \in Nat /\ ops[k].v > n
    <2>1. \A k \in DOMAIN ops : ops[k].v \in 1 .. varis[a].from - 1
      BY <1>1 DEF Descends
    <2> QED
      BY <1>1, <1>2, <2>1 DEF OnlyAbove
  <1>4. PICK g : IsChained(g, ops, x, m) /\ Chained(a) = g[m]
    BY <1>1, <1>2, ChainedIs
  <1>5. Turns(g, ops, x, m)
    BY <1>2, <1>4, ChainedTurns
  <1> DEFINE T == {k \in Nat : k <= m => SameBelow(g[k], n)}
  <1>6. 0 \in T
    BY <1>5 DEF Turns
  <1>7. ASSUME NEW k \in T
        PROVE  k + 1 \in T
    <2> SUFFICES ASSUME k + 1 <= m PROVE SameBelow(g[k + 1], n)
      OBVIOUS
    <2>1. k \in Nat /\ k <= m /\ k + 1 \in 1 .. m /\ SameBelow(g[k], n)
      BY <1>2
    <2>2. PICK w, e : /\ w = ops[k + 1].v /\ w \in Nat /\ w > n
                      /\ e = g[k][w] + ops[k + 1].d * x
      BY <1>3, <2>1
    <2>3. g[k + 1] = [g[k] EXCEPT ![w] = e]
      <3>1. g[k + 1] = [g[k] EXCEPT ![ops[k + 1].v] = @ + ops[k + 1].d * x]
        <4>1. PICK j : j = k + 1
          OBVIOUS
        <4>2. j \in 1 .. m /\ j - 1 = k
          BY <2>1, <4>1
        <4>3. g[j] = [g[j - 1] EXCEPT ![ops[j].v] = @ + ops[j].d * x]
          BY <1>5, <4>2, Zenon DEF Turns
        <4> QED
          BY <4>1, <4>2, <4>3, Zenon
      <3> QED
        BY <2>2, <3>1, Zenon
    <2> QED
      BY <2>1, <2>2, <2>3, AddedAbove
  <1>8. T = Nat
    <2> HIDE DEF T
    <2>1. T \in SUBSET Nat
      BY DEF T
    <2> QED
      BY <1>6, <1>7, <2>1, InductionOnNat
  <1>9. SameBelow(g[m], n)
    BY <1>2, <1>8
  <1> QED
    BY <1>4, <1>9 DEF SameBelow

(* Which parts of the tape stay as they are, and when.                       *)
LEMMA PlaceUntouched ==
  ASSUME IInv, HeapOK, AdjTyped, NewVar \/ NewOp \/ NewCallback \/ NewVariThrows,
         NEW n \in Nat, n <= Len(varis)
  PROVE  Untouched(n)
  <1>1. PICK N \in Nat : N = Len(varis) /\ Live = 1 .. N /\ \A c \in Live : varis'[c] = varis[c]
    BY PlacedIs
  <1>2. adj' = Append(adj, 0) /\ adj \in Seq(Int) /\ Len(adj) = N
    BY <1>1 DEF NewVar, NewOp, NewCallback, NewVariThrows, Place, AdjTyped
  <1>3. \A v \in 1 .. n : adj'[v] = adj[v]
    <2>1. \A v \in 1 .. N : Append(adj, 0)[v] = adj[v]
      BY <1>2, PushBack
    <2> QED
      BY <1>1, <1>2, <2>1
  <1>4. PICK s, L : /\ s = var_stack_ /\ s \in Seq(Nat)
                   /\ L = Len(s) /\ L \in Nat /\ DOMAIN s = 1 .. L
    BY LenProperties DEF IInv, TapeOK, StackOK
  <1>5. Slots(n)' = Slots(n) /\ \A k \in Slots(n) : var_stack_'[k] = var_stack_[k]
    <2>1. CASE var_stack_' = var_stack_
      BY <2>1 DEF Slots
    <2>2. CASE var_stack_' = Append(var_stack_, N + 1)
      <3>1. /\ DOMAIN var_stack_' = 1 .. L + 1 /\ var_stack_'[L + 1] = N + 1
            /\ \A k \in 1 .. L : var_stack_'[k] = s[k]
        <4>1. N + 1 \in Nat /\ var_stack_' = Append(s, N + 1)
          BY <1>4, <2>2
        <4> QED
          BY <1>4, <4>1, PushBack
      <3>2. ASSUME NEW k \in DOMAIN var_stack_', var_stack_'[k] <= n
            PROVE  k \in DOMAIN var_stack_ /\ var_stack_[k] <= n
        <4>1. k # L + 1
          BY <1>1, <3>1, <3>2
        <4>2. k \in 1 .. L
          BY <1>4, <3>1, <4>1
        <4> QED
          BY <1>4, <3>1, <3>2, <4>2
      <3>3. ASSUME NEW k \in DOMAIN var_stack_
            PROVE  k \in DOMAIN var_stack_' /\ var_stack_'[k] = var_stack_[k]
        BY <1>4, <3>1
      <3> QED
        BY <3>2, <3>3 DEF Slots
    <2> QED
      BY <1>1, <2>1, <2>2 DEF NewVar, NewOp, NewCallback, NewVariThrows
  <1> QED
    BY <1>1, <1>3, <1>5 DEF Untouched

LEMMA RecoverUntouched ==
  ASSUME IInv, AdjTyped, recover_memory_nested, NEW n \in Nat, n <= LastOf(nested_next_locs_)
  PROVE  Untouched(n)
  <1>1. PICK top, bottom : /\ top = LastOf(nested_next_locs_)
                           /\ bottom = LastOf(nested_var_stack_sizes_)
    OBVIOUS
  <1>2. /\ top \in 0 .. Len(varis) /\ Len(varis) \in Nat /\ nested_next_locs_ # <<>>
        /\ Live = 1 .. Len(varis)
        /\ Live' = 1 .. top /\ \A a \in Live' : varis'[a] = varis[a]
    BY <1>1, VarisAfter, Lengths DEF IInv
  <1>3. \A c \in Live : c <= n => varis'[c] = varis[c]
    <2>1. \A c \in Live : c <= n => c \in 1 .. top
      BY <1>1, <1>2
    <2> QED
      BY <1>2, <2>1
  <1>4. adj' = Truncate(adj, top) /\ var_stack_' = Truncate(var_stack_, bottom)
    BY <1>1 DEF recover_memory_nested, RecoverNestedArena, RecoverNestedTapes
  <1>5. \A v \in 1 .. n : adj'[v] = adj[v]
    <2>1. adj \in Seq(Int) /\ top \in 0 .. Len(adj)
      BY <1>2 DEF AdjTyped
    <2>2. \A v \in 1 .. top : Truncate(adj, top)[v] = adj[v]
      BY <2>1, Resize
    <2>3. \A v \in 1 .. n : v \in 1 .. top
      BY <1>1, <1>2
    <2> QED
      BY <1>4, <2>2, <2>3
  <1>6. StackOK(var_stack_, nested_var_stack_sizes_, nested_next_locs_, Len(varis))
    BY DEF IInv, TapeOK
  <1>7. PICK d : d = Len(nested_next_locs_)
    OBVIOUS
  <1>8. d \in Nat \ {0} /\ d = Len(nested_var_stack_sizes_) /\ d = Depth
    BY <1>2, <1>6, <1>7, EmptySeq, Lengths DEF IInv, StackOK, Depth
  <1>9. d \in 1 .. d /\ top = nested_next_locs_[d] /\ bottom = nested_var_stack_sizes_[d]
    BY <1>1, <1>7, <1>8 DEF LastOf
  <1>10. /\ bottom \in 0 .. Len(var_stack_) /\ Len(var_stack_) \in Nat
         /\ DOMAIN var_stack_ = 1 .. Len(var_stack_) /\ var_stack_ \in Seq(Nat)
         /\ \A i \in 1 .. Len(var_stack_) : i <= bottom <=> var_stack_[i] <= top
    <2>1. Len(var_stack_) \in Nat /\ DOMAIN var_stack_ = 1 .. Len(var_stack_)
      BY Lengths DEF IInv
    <2>2. Cuts(nested_var_stack_sizes_, Len(var_stack_)) /\ var_stack_ \in Seq(Nat)
      BY <1>6 DEF StackOK
    <2>3. bottom \in 0 .. Len(var_stack_)
      BY <1>8, <1>9, <2>2 DEF Cuts
    <2>4. \A i \in 1 .. Len(var_stack_) : i <= bottom <=> var_stack_[i] <= top
      BY <1>6, <1>8, <1>9 DEF StackOK
    <2> QED
      BY <2>1, <2>2, <2>3, <2>4
  <1>11. /\ DOMAIN var_stack_' = 1 .. bottom
         /\ \A k \in 1 .. bottom : var_stack_'[k] = var_stack_[k]
    BY <1>4, <1>10, Resize
  <1>12. Slots(n)' = Slots(n)
    <2>1. ASSUME NEW k \in DOMAIN var_stack_', var_stack_'[k] <= n
          PROVE  k \in DOMAIN var_stack_ /\ var_stack_[k] <= n
      BY <1>10, <1>11, <2>1
    <2>2. ASSUME NEW k \in DOMAIN var_stack_, var_stack_[k] <= n
          PROVE  k \in DOMAIN var_stack_' /\ var_stack_'[k] <= n
      <3>1. var_stack_[k] \in Nat /\ k \in 1 .. Len(var_stack_)
        BY <1>10, <2>2, ElementOfSeq
      <3>2. var_stack_[k] <= top
        BY <1>1, <1>2, <2>2, <3>1
      <3>3. k \in 1 .. bottom
        BY <1>10, <3>1, <3>2
      <3> QED
        BY <1>11, <2>2, <3>3
    <2> QED
      BY <2>1, <2>2 DEF Slots
  <1>13. \A k \in Slots(n) : var_stack_'[k] = var_stack_[k]
    <2>1. \A k \in Slots(n) : k \in DOMAIN var_stack_'
      BY <1>12 DEF Slots
    <2> QED
      BY <1>11, <2>1
  <1> QED
    BY <1>3, <1>5, <1>12, <1>13 DEF Untouched

LEMMA RootUntouched ==
  ASSUME IInv, AdjTyped, NEW root \in Usable \cup {0}, StartSweep(root), SweepRuns,
         NEW n \in Nat, n <= LastOf(nested_next_locs_), LastOf(nested_next_locs_) \in 0 .. Len(varis)
  PROVE  Untouched(n)
  <1>1. UNCHANGED <<varis, var_stack_>>
    BY DEF StartSweep, tape
  <1>2. root = 0 \/ root > LastOf(nested_next_locs_)
    BY DEF Usable
  <1>3. adj' = IF root = 0 THEN adj ELSE [adj EXCEPT ![root] = 1]
    BY DEF StartSweep
  <1>4. \A v \in 1 .. n : adj'[v] = adj[v]
    <2>1. CASE root = 0
      BY <1>3, <2>1
    <2>2. CASE root # 0
      <3>1. root > LastOf(nested_next_locs_) /\ adj' = [adj EXCEPT ![root] = 1]
        BY <1>2, <1>3, <2>2
      <3>2. DOMAIN adj = 1 .. Len(varis) /\ Len(varis) \in Nat
        BY LenProperties DEF AdjTyped
      <3>3. root \in Nat
        BY <2>2, Lengths DEF IInv, Usable
      <3>4. \A v \in 1 .. n : v # root /\ v \in DOMAIN adj
        BY <3>1, <3>2, <3>3
      <3> QED
        BY <3>1, <3>4
    <2> QED
      BY <2>1, <2>2
  <1> QED
    BY <1>1, <1>4 DEF Untouched, Slots

LEMMA ZeroUntouched ==
  ASSUME IInv, set_zero_all_adjoints_nested, NEW n \in Nat, n <= LastOf(nested_next_locs_),
         LastOf(nested_next_locs_) \in 0 .. Len(varis)
  PROVE  Untouched(n)
  <1>1. UNCHANGED <<varis, var_stack_>>
    BY DEF set_zero_all_adjoints_nested, tape
  <1>2. \A v \in 1 .. n : v \in Live /\ ~(v > LastOf(nested_next_locs_))
    BY Lengths DEF IInv
  <1>3. \A v \in 1 .. n : adj'[v] = adj[v]
    BY <1>2, ZeroIsLocal
  <1> QED
    BY <1>1, <1>3 DEF Untouched, Slots

(* A sweep with no scope above it runs over the varis of the innermost one.  *)
LEMMA NoneAbove ==
  ASSUME IInv, SeenOK, NEW k \in DOMAIN control, control[k].kind = "grad",
         \A j \in ScopesIn(control) : j < k
  PROVE  /\ Len(control[k].start) = Len(varis)
         /\ control[k].beginning = IF Depth = 0 THEN 0 ELSE LastOf(nested_var_stack_sizes_)
         /\ \A i \in DOMAIN var_stack_ : i > control[k].beginning <=>
              Depth = 0 \/ var_stack_[i] > LastOf(nested_next_locs_)
  <1>1. PICK d \in Nat : d = Depth /\ LevelIn(control, k) = d + 1
    BY Levels
  <1>2. Extent(d + 1) = Len(varis)
    BY <1>1 DEF Extent
  <1>3. Floor(d + 1) = IF d = 0 THEN 0 ELSE nested_var_stack_sizes_[d]
    BY <1>1 DEF Floor
  <1>4. Len(control[k].start) = Extent(d + 1) /\ control[k].beginning = Floor(d + 1)
    BY <1>1 DEF SeenOK
  <1>5. LastOf(nested_var_stack_sizes_) = nested_var_stack_sizes_[d]
    BY <1>1 DEF LastOf, Depth
  <1>6. DOMAIN var_stack_ = 1 .. Len(var_stack_) /\ d = Len(nested_next_locs_)
    BY <1>1, Lengths DEF IInv
  <1>7. CASE d = 0
    BY <1>1, <1>2, <1>3, <1>4, <1>6, <1>7
  <1>8. CASE d # 0
    <2>1. PICK b, top : b = nested_var_stack_sizes_[d] /\ top = nested_next_locs_[d]
      OBVIOUS
    <2>2. top = LastOf(nested_next_locs_)
      BY <1>6, <2>1 DEF LastOf
    <2>3. d \in 1 .. d /\ d = Len(nested_var_stack_sizes_)
      BY <1>1, <1>8 DEF Depth
    <2>4. /\ Cuts(nested_var_stack_sizes_, Len(var_stack_)) /\ Cuts(nested_next_locs_, Len(varis))
          /\ \A i \in 1 .. Len(var_stack_) : i <= b <=> var_stack_[i] <= top
          /\ \A i \in 1 .. Len(var_stack_) : var_stack_[i] \in 1 .. Len(varis)
      BY <2>1, <2>3 DEF IInv, TapeOK, StackOK
    <2>5. b \in Nat /\ top \in Nat
      BY <1>6, <2>1, <2>3, <2>4 DEF Cuts
    <2>6. \A i \in 1 .. Len(var_stack_) : i > b <=> var_stack_[i] > top
      BY <2>4, <2>5
    <2> QED
      BY <1>1, <1>2, <1>3, <1>4, <1>5, <1>6, <1>8, <2>1, <2>2, <2>6
  <1> QED
    BY <1>7, <1>8

LEMMA AtTop ==
  ASSUME IInv, NEW k \in DOMAIN control, control[k].kind = "grad"
  PROVE  /\ k \in Nat \ {0} /\ control[k].i \in Nat /\ control[k].beginning \in Nat
         /\ control[k].beginning <= control[k].i /\ control[k].i <= Len(var_stack_)
         /\ k = Len(control) => \A j \in ScopesIn(control) : j < k
         /\ k + 1 = Len(control) /\ control[k + 1].kind = "chain" =>
              /\ k + 1 \in DOMAIN control
              /\ control[k].i + 1 \in DOMAIN var_stack_
              /\ var_stack_[control[k].i + 1] = control[k + 1].vari
              /\ \A j \in ScopesIn(control) : j < k
  <1>1. PICK m \in Nat : m = Len(control) /\ DOMAIN control = 1 .. m
    BY LenProperties DEF IInv, Frames
  <1>2. PICK pos : FramesAt(pos)
    BY DEF IInv
  <1>3. PICK f : f = control[k]
    OBVIOUS
  <1>4. SweepOK(pos, k, f)
    BY <1>2, <1>3 DEF FramesAt
  <1>5. /\ f.i \in Nat /\ f.beginning \in Nat /\ f.beginning <= f.i /\ f.i <= Len(var_stack_)
    BY <1>4 DEF SweepOK, Keeps
  <1>6. k \notin ScopesIn(control) /\ \A j \in ScopesIn(control) : j \in 1 .. m
    BY <1>1 DEF ScopesIn
  <1>7. k = m => \A j \in ScopesIn(control) : j < k
    BY <1>1, <1>6
  <1>8. ASSUME k + 1 = m, control[m].kind = "chain"
        PROVE  /\ m \in DOMAIN control
               /\ f.i + 1 \in DOMAIN var_stack_
               /\ var_stack_[f.i + 1] = control[m].vari
               /\ \A j \in ScopesIn(control) : j < k
    <2>1. m \in DOMAIN control /\ m - 1 = k
      BY <1>1, <1>8
    <2>2. ChainOK(pos, m, f, control[m])
      BY <1>2, <1>3, <1>8, <2>1 DEF FramesAt
    <2>3. f.i + 1 <= Len(var_stack_) /\ var_stack_[f.i + 1] = control[m].vari
      BY <2>2 DEF ChainOK, Keeps
    <2>4. f.i + 1 \in DOMAIN var_stack_
      BY <1>5, <2>3, Lengths DEF IInv
    <2>5. m \notin ScopesIn(control)
      BY <1>8 DEF ScopesIn
    <2>6. \A j \in ScopesIn(control) : j < k
      BY <1>1, <1>6, <1>8, <2>5
    <2> QED
      BY <2>1, <2>3, <2>4, <2>6
  <1> QED
    BY <1>1, <1>3, <1>5, <1>7, <1>8

(* A turn of the top sweep is for the youngest vari it has ahead, and in a   *)
(* scope adds to nothing older than the scope.                               *)
LEMMA TurnUntouched ==
  ASSUME IInv, AdjTyped, SeenOK, Apart, Downward, NEW k \in DOMAIN control,
         control[k].kind = "grad", \A j \in ScopesIn(control) : j < k, Depth # 0,
         NEW i \in DOMAIN var_stack_, i > control[k].beginning, NEW a, a = var_stack_[i],
         UNCHANGED <<varis, var_stack_>>, adj' = Chained(a),
         NEW e \in DOMAIN control, control[e].kind = "grad",
         NEW n \in Nat, n = Len(control[e].start), n <= LastOf(nested_next_locs_),
         LastOf(nested_next_locs_) \in 0 .. Len(varis)
  PROVE  Untouched(n)
  <1>1. a \in Live /\ Live = 1 .. Len(varis) /\ Len(varis) \in Nat
    BY SlotsAreLive
  <1>2. a > LastOf(nested_next_locs_)
    BY NoneAbove
  <1>3. a > n
    BY <1>1, <1>2
  <1>4. Descends(a, varis[a]) /\ OnlyAbove(varis[a], n)
    BY <1>1, <1>3 DEF Apart, Downward
  <1>5. SameBelow(adj, n)
    <2>1. DOMAIN adj = 1 .. Len(varis)
      BY LenProperties DEF AdjTyped
    <2> QED
      BY <1>1, <2>1 DEF SameBelow
  <1>6. \A v \in 1 .. n : adj'[v] = adj[v]
    BY <1>4, <1>5, ChainedAbove
  <1> QED
    BY <1>6 DEF Untouched, Slots

(* While a sweep is under a scope nothing changes that it has to do with.    *)
LEMMA TapeUntouched ==
  ASSUME IInv, HeapOK, AdjTyped, Nesting, SeenOK, Apart, Downward, [Next]_vars,
         NEW k \in DOMAIN control, control[k].kind = "grad", LevelIn(control, k) <= Depth
  PROVE  \E n : n = Len(control[k].start) /\ Untouched(n)
  <1>1. PICK n, top : n = Len(control[k].start) /\ top = LastOf(nested_next_locs_)
    OBVIOUS
  <1> SUFFICES Untouched(n)
    BY <1>1
  <1>2. LevelIn(control, k) \in 1 .. Depth
    BY Levels
  <1>3. /\ n \in Nat /\ top \in 0 .. Len(varis) /\ Len(varis) \in Nat /\ n <= top
        /\ n <= Len(varis) /\ nested_next_locs_ # <<>>
    BY <1>1, <1>2, ExtentBelow DEF SeenOK
  <1>4. Depth # 0 /\ ~empty_nested /\ SweepRuns
    BY <1>2, Lengths DEF IInv, SweepRuns
  <1>5. CASE UNCHANGED <<var_stack_, varis, adj>>
    BY <1>5 DEF Untouched, Slots
  <1>6. CASE NewVar \/ NewOp \/ NewCallback \/ NewVariThrows
    BY <1>1, <1>3, <1>6, PlaceUntouched
  <1>7. CASE recover_memory_nested
    BY <1>1, <1>3, <1>7, RecoverUntouched
  <1>8. ASSUME NEW root \in Usable \cup {0}, StartSweep(root)
        PROVE  Untouched(n)
    BY <1>1, <1>3, <1>4, <1>8, RootUntouched
  <1>9. CASE set_zero_all_adjoints_nested
    BY <1>1, <1>3, <1>9, ZeroUntouched
  <1>10. ~recover_memory /\ ~set_zero_all_adjoints
    BY <1>4 DEF recover_memory, set_zero_all_adjoints
  <1>11. CASE SweepStep
    <2>1. PICK m, f, a : Turning(m, f, a)
      BY <1>11, SweepStepTurns
    <2>2. UNCHANGED <<var_stack_, varis>>
      BY <1>11 DEF SweepStep, tape
    <2>3. /\ m \in DOMAIN control /\ m = Len(control) /\ control[m] = f /\ f.kind = "grad"
          /\ a = var_stack_[f.i] /\ f.i > f.beginning
          /\ adj' = adj \/ adj' = Chained(a)
      BY <2>1 DEF Turning
    <2>4. /\ f.i \in Nat /\ f.beginning \in Nat /\ f.i <= Len(var_stack_)
          /\ \A j \in ScopesIn(control) : j < m
      BY <2>3, AtTop
    <2>5. f.i \in DOMAIN var_stack_
      BY <2>3, <2>4, Lengths DEF IInv
    <2>6. CASE adj' = adj
      BY <1>5, <2>2, <2>6
    <2>7. CASE adj' = Chained(a)
      BY <1>1, <1>3, <1>4, <2>2, <2>3, <2>4, <2>5, <2>7, TurnUntouched
    <2> QED
      BY <2>3, <2>6, <2>7
  <1>12. CASE ChainReturns
    <2>1. PICK m \in Nat : m = Len(control) /\ DOMAIN control = 1 .. m
      BY LenProperties DEF IInv, Frames
    <2>2. /\ control # <<>> /\ control[m].kind = "chain" /\ adj' = Chained(control[m].vari)
          /\ UNCHANGED <<var_stack_, varis>>
      BY <1>12, <2>1 DEF ChainReturns, TopIs, Top, LastOf, tape
    <2>3. PICK g : g = m - 1
      OBVIOUS
    <2>4. g \in DOMAIN control /\ control[g].kind = "grad" /\ g + 1 = m
      <3>1. m \in DOMAIN control
        BY <2>1
      <3>2. PICK pos : FramesAt(pos)
        BY DEF IInv
      <3> QED
        BY <2>1, <2>2, <2>3, <3>1, <3>2 DEF FramesAt, ChainOK
    <2>5. PICK i : i = control[g].i + 1
      OBVIOUS
    <2>6. /\ i \in DOMAIN var_stack_ /\ var_stack_[i] = control[m].vari
          /\ control[g].i \in Nat /\ control[g].beginning \in Nat
          /\ control[g].beginning <= control[g].i
          /\ \A j \in ScopesIn(control) : j < g
      BY <2>1, <2>2, <2>4, <2>5, AtTop
    <2>7. i > control[g].beginning
      BY <2>5, <2>6
    <2> QED
      BY <1>1, <1>3, <1>4, <2>2, <2>4, <2>6, <2>7, TurnUntouched
  <1> QED
    BY <1>1, <1>5, <1>6, <1>7, <1>8, <1>9, <1>10, <1>11, <1>12, StepMovesTape DEF TapeMoves

LEMMA YoungestAhead ==
  ASSUME IInv, NEW i \in DOMAIN var_stack_, NEW b \in Nat, i > b, NEW n, n = Len(varis)
  PROVE  /\ IsYoungest(var_stack_[i], Ahead(b, i, n))
         /\ Ahead(b, i, n) \ {var_stack_[i]} = Ahead(b, i - 1, n)
         /\ Ahead(b, i, n) \subseteq Live
  <1>1. PICK L \in Nat : L = Len(var_stack_) /\ DOMAIN var_stack_ = 1 .. L /\ i \in 1 .. L
    BY Lengths, Zenon DEF IInv
  <1>2. /\ \A j \in 1 .. L : var_stack_[j] \in 1 .. n
        /\ \A j, k \in 1 .. L : j < k => var_stack_[j] < var_stack_[k]
    BY <1>1 DEF IInv, TapeOK, StackOK
  <1>3. n \in Nat /\ Live = 1 .. n
    BY Lengths DEF IInv
  <1>4. Slots(n) = 1 .. L
    BY <1>1, <1>2, <1>3 DEF Slots
  <1>5. Ahead(b, i, n) = {var_stack_[k] : k \in b + 1 .. i}
    <2>1. {j \in 1 .. L : b < j /\ j <= i} = b + 1 .. i
      BY <1>1
    <2> QED
      BY <1>4, <2>1 DEF Ahead
  <1>6. Ahead(b, i - 1, n) = {var_stack_[k] : k \in b + 1 .. i - 1}
    <2>1. {j \in 1 .. L : b < j /\ j <= i - 1} = b + 1 .. i - 1
      BY <1>1
    <2> QED
      BY <1>4, <2>1 DEF Ahead
  <1>7. /\ i \in b + 1 .. i /\ \A k \in b + 1 .. i : k = i \/ k \in b + 1 .. i - 1
        /\ \A k \in b + 1 .. i - 1 : k \in b + 1 .. i /\ k \in 1 .. L /\ k < i
    BY <1>1
  <1>8. \A k \in b + 1 .. i - 1 : var_stack_[k] < var_stack_[i] /\ var_stack_[k] \in 1 .. n
    BY <1>1, <1>2, <1>7
  <1>9. var_stack_[i] \in 1 .. n
    BY <1>1, <1>2
  <1>10. \A k \in b + 1 .. i : var_stack_[k] \in 1 .. n /\ var_stack_[k] <= var_stack_[i]
    BY <1>3, <1>7, <1>8, <1>9
  <1>11. \A k \in b + 1 .. i - 1 : var_stack_[k] # var_stack_[i]
    BY <1>8, <1>9
  <1>12. IsYoungest(var_stack_[i], Ahead(b, i, n))
    BY <1>5, <1>7, <1>10 DEF IsYoungest
  <1>13. Ahead(b, i, n) \ {var_stack_[i]} = Ahead(b, i - 1, n)
    BY <1>5, <1>6, <1>7, <1>11
  <1>14. Ahead(b, i, n) \subseteq Live
    BY <1>3, <1>5, <1>10
  <1> QED
    BY <1>12, <1>13, <1>14

(* chain() of the vari at i, with the sweep on top or the chain() itself.    *)
LEMMA TurnHolds ==
  ASSUME IInv, AdjTyped, SeenOK, Downward, NEW k \in DOMAIN control,
         control[k].kind = "grad", \A j \in ScopesIn(control) : j < k,
         NEW i \in DOMAIN var_stack_, i > control[k].beginning,
         UNCHANGED <<varis, var_stack_>>, adj' = Chained(var_stack_[i]),
         Holds(control[k].start, control[k].beginning, i)
  PROVE  \E start, beginning : /\ start = control[k].start /\ beginning = control[k].beginning
                               /\ Holds(start, beginning, i - 1)'
  <1>1. PICK start, b, n : /\ start = control[k].start /\ b = control[k].beginning
                           /\ n = Len(start)
    OBVIOUS
  <1>2. n = Len(varis) /\ n = Len(adj) /\ adj \in Seq(Int)
    BY <1>1, NoneAbove DEF AdjTyped
  <1>3. b \in Nat /\ i > b
    BY <1>1, AtTop
  <1>4. PICK a, left, all : /\ a = var_stack_[i] /\ left = Ahead(b, i, n) /\ all = Seen(b, n)
    OBVIOUS
  <1>5. /\ IsYoungest(a, left) /\ left \ {a} = Ahead(b, i - 1, n) /\ left \subseteq Live
    BY <1>2, <1>3, <1>4, YoungestAhead
  <1>6. Descending(varis, n, left)
    BY <1>2, <1>5, Lengths DEF Downward, Descending, IInv
  <1>7. Carried(varis, adj, n, left, all, start)
    BY <1>1, <1>4 DEF Holds
  <1>8. Carried(varis, Chained(a), n, left \ {a}, all, start)
    BY <1>2, <1>5, <1>6, <1>7, TurnKeeps
  <1>9. Ahead(b, i - 1, n)' = left \ {a} /\ Seen(b, n)' = all
    BY <1>4, <1>5 DEF Ahead, Seen, Slots
  <1>10. PICK vs, h : vs = varis /\ h = Chained(a)
    OBVIOUS
  <1>11. varis' = vs /\ adj' = h /\ Carried(vs, h, n, left \ {a}, all, start)
    BY <1>4, <1>8, <1>10
  <1>12. Holds(start, b, i - 1)'
    BY <1>1, <1>9, <1>11 DEF Holds
  <1> QED
    BY <1>1, <1>12

(* What may happen when a sweep is on top, or a chain() it called.           *)
LEMMA StepAtGrad ==
  ASSUME [Next]_vars, control # <<>>, Top.kind = "grad"
  PROVE  \/ SweepStep
         \/ control' = FrontOf(control)
         \/ UNCHANGED <<var_stack_, varis, adj, control, exception>>
  <1>1. ~ClientRuns /\ ~TopIs("chain") /\ ~TopIs("scope")
    BY DEF ClientRuns, TopIs
  <1>2. ~Build
    BY <1>1 DEF Build, NewVar, NewOp, NewCallback, NewVariThrows, NewChainable,
       NewChainableThrows
  <1>3. Sweep => SweepStep \/ control' = FrontOf(control)
    BY <1>1 DEF Sweep, StartSweep, ChainReturns, EndSweep, set_zero_all_adjoints,
       set_zero_all_adjoints_nested
  <1>4. Manage => control' = FrontOf(control)
    BY <1>1 DEF Manage, OpenScope, CloseScope, RecoverMemory, Throw, Unwind, Catch
  <1>5. CASE UNCHANGED vars
    BY <1>5 DEF vars, tape, memory
  <1> QED
    BY <1>2, <1>3, <1>4, <1>5 DEF Next

LEMMA StepAtChain ==
  ASSUME [Next]_vars, control # <<>>, Top.kind = "chain"
  PROVE  \/ ChainReturns
         \/ control' = FrontOf(control) /\ exception' # "none"
         \/ /\ UNCHANGED <<var_stack_, varis, adj>>
            /\ control' = control \/ control' = Append(control, [kind |-> "scope"])
  <1>1. ~ClientRuns /\ ~TopIs("grad") /\ ~TopIs("scope")
    BY DEF ClientRuns, TopIs
  <1>2. ~Build
    BY <1>1 DEF Build, NewVar, NewOp, NewCallback, NewVariThrows, NewChainable,
       NewChainableThrows
  <1>3. Sweep => ChainReturns
    BY <1>1 DEF Sweep, StartSweep, SweepStep, EndSweep, set_zero_all_adjoints,
       set_zero_all_adjoints_nested
  <1>4. ~CloseScope /\ ~RecoverMemory /\ ~Catch
    BY <1>1 DEF CloseScope, RecoverMemory, Catch
  <1>5. CASE OpenScope
    BY <1>5 DEF OpenScope, tape, memory
  <1>6. CASE Throw
    BY <1>6 DEF Throw, tape, memory
  <1>7. CASE Unwind
    BY <1>1, <1>7 DEF Unwind
  <1>8. CASE UNCHANGED vars
    BY <1>8 DEF vars, tape, memory
  <1> QED
    BY <1>2, <1>3, <1>4, <1>5, <1>6, <1>7, <1>8 DEF Next, Manage

(* Only the top frame goes.                                                  *)
LEMMA FramesBelowStay ==
  ASSUME IInv, [Next]_vars, NEW k \in DOMAIN control, k < Len(control)
  PROVE  k \in DOMAIN control'
  <1>0. Frames
    BY DEF IInv
  <1>1. PICK m \in Nat : m = Len(control) /\ DOMAIN control = 1 .. m
    BY <1>0, LenProperties DEF Frames
  <1>2. k \in 1 .. m /\ k \in 1 .. m - 1 /\ k \in 1 .. m + 1
    BY <1>1
  <1>3. ASSUME NEW f, Pushes(f)
        PROVE  k \in DOMAIN control'
    BY <1>0, <1>1, <1>2, <1>3, FramesPush DEF Pushes
  <1>4. CASE control # <<>> /\ control' = FrontOf(control)
    BY <1>0, <1>1, <1>2, <1>4, FramesPop
  <1>5. CASE SweepStep
    <2>1. PICK h, f, a : Turning(h, f, a)
      BY <1>5, SweepStepTurns
    <2>2. h = m
      BY <1>1, <2>1 DEF Turning
    <2> QED
      BY <1>2, <2>1, <2>2 DEF Turning
  <1> QED
    BY <1>3, <1>4, <1>5, StepMovesControl DEF ControlMoves

LEMMA CarriesStep ==
  ASSUME IInv, IInv', HeapOK, AdjTyped, AdjTyped', Nesting, SeenOK, Apart, Downward, Downward',
         Carries, [Next]_vars
  PROVE  Carries'
  <1> SUFFICES ASSUME NEW k \in DOMAIN control', control'[k].kind = "grad",
                      k = Len(control') => exception' = "none"
               PROVE  \E start, b, i : /\ start = control'[k].start
                                       /\ b = control'[k].beginning
                                       /\ i = Pending(k)' /\ Holds(start, b, i)'
    BY DEF Carries
  <1>1. PICK m \in Nat, m2 \in Nat : /\ m = Len(control) /\ DOMAIN control = 1 .. m
                                     /\ m2 = Len(control') /\ DOMAIN control' = 1 .. m2
    <2>1. (\E S : control \in Seq(S)) /\ \E S : control' \in Seq(S)
      BY DEF IInv, Frames
    <2> QED
      BY <2>1, LenProperties
  <1>2. CASE k \notin DOMAIN control
    <2>1. PICK root, b, start, i :
            /\ root \in Usable \cup {0} /\ StartSweep(root)
            /\ i = Len(var_stack_) /\ start = adj'
            /\ control'[k] = [kind |-> "grad", i |-> i, beginning |-> b, start |-> start]
      BY <1>2, NewSweep
    <2>2. k = m + 1 /\ Frames
      BY <1>1, <1>2, NewSweep DEF IInv
    <2>3. PICK f : control' = Append(control, f)
      BY <2>1 DEF StartSweep
    <2>4. DOMAIN control' = 1 .. m + 1
      BY <1>1, <2>2, <2>3, FramesPush
    <2>5. k + 1 \notin DOMAIN control'
      BY <2>2, <2>4
    <2>6. Pending(k)' = i
      BY <2>1, <2>5 DEF Pending
    <2>7. PICK n : n = Len(start)
      OBVIOUS
    <2>8. PICK s \in Seq(Nat) : s = var_stack_ /\ i = Len(s) /\ DOMAIN s = 1 .. i /\ i \in Nat
      BY <2>1, LenProperties DEF IInv, TapeOK, StackOK
    <2>9. var_stack_' = s
      BY <2>1, <2>8 DEF StartSweep, tape
    <2>10. Ahead(b, i, n)' = Seen(b, n)'
      <3>1. \A j \in Slots(n)' : j <= i
        BY <2>8, <2>9 DEF Slots
      <3> QED
        BY <3>1 DEF Ahead, Seen
    <2>11. PICK all : all = Seen(b, n)'
      OBVIOUS
    <2>12. n = Len(varis') /\ n \in Nat /\ Live' = 1 .. n
      <3>1. PICK z : z = varis' /\ z \in Seq(Vari) /\ n = Len(z)
        BY <2>1, <2>7 DEF AdjTyped, IInv, TapeOK
      <3> QED
        BY <3>1, LenProperties DEF Live
    <2>13. all \subseteq Live'
      <3>1. \A j \in 1 .. Len(var_stack_') : var_stack_'[j] \in 1 .. Len(varis')
        BY DEF IInv, TapeOK, StackOK
      <3>2. \A j \in DOMAIN var_stack_' : var_stack_'[j] \in Live'
        BY <2>8, <2>9, <2>12, <3>1
      <3> QED
        BY <2>11, <3>2 DEF Seen, Slots
    <2>14. PICK vs : vs = varis'
      OBVIOUS
    <2>15. Descending(vs, n, all)
      BY <2>12, <2>13, <2>14 DEF Downward, Descending
    <2>16. Carried(vs, start, n, all, all, start)
      BY <2>12, <2>15, CarriedAtFirst
    <2>17. Holds(start, b, i)'
      BY <2>1, <2>7, <2>10, <2>11, <2>14, <2>16 DEF Holds
    <2> QED
      BY <2>1, <2>6, <2>17
  <1>3. CASE k \in DOMAIN control
    <2>1. PICK start, b, p : start = control[k].start /\ b = control[k].beginning /\ p = Pending(k)
      OBVIOUS
    <2>2. /\ control[k].kind = "grad" /\ control'[k].start = start /\ control'[k].beginning = b
          /\ k < m => control'[k] = control[k]
      BY <1>1, <1>3, <2>1, FramesStay DEF FrameStays
    <2>3. (k = m => exception = "none") => Holds(start, b, p)
      BY <1>1, <1>3, <2>1, <2>2 DEF Carries
    <2>4. k \in 1 .. m /\ k \in 1 .. m2
      BY <1>1, <1>3
    <2>5. control # <<>> /\ Top = control[m]
      BY <1>1, <2>4 DEF Top, LastOf
    <2>6. SUFFICES \E i : i = Pending(k)' /\ Holds(start, b, i)'
      BY <2>2
    <2>7. CASE k + 2 <= m
      <3>1. k + 1 \in DOMAIN control /\ k + 2 \in DOMAIN control /\ k + 1 + 1 = k + 2
        BY <1>1, <2>4, <2>7
      <3>2. control[k + 1].kind = "chain"
        BY <1>3, <2>2, <3>1 DEF Nesting, Nests
      <3>3. control[k + 2].kind = "scope"
        BY <3>1, <3>2 DEF Nesting, Nests
      <3>4. k + 2 \in ScopesIn(control) /\ ~(k + 2 < k)
        BY <2>4, <3>1, <3>3 DEF ScopesIn
      <3>5. LevelIn(control, k) <= Depth
        BY <3>4, Levels
      <3>6. PICK n : n = Len(start) /\ Untouched(n)
        BY <1>3, <2>1, <2>2, <3>5, TapeUntouched
      <3>7. Holds(start, b, p)
        BY <2>3, <2>4, <2>7
      <3>8. Holds(start, b, p)'
        BY <3>6, <3>7, UntouchedHolds
      <3>9. k + 1 \in DOMAIN control'
        <4>1. k + 1 < Len(control)
          BY <1>1, <2>4, <2>7
        <4> QED
          BY <3>1, <4>1, FramesBelowStay
      <3>10. control'[k] = control[k]
        BY <2>2, <2>4, <2>7
      <3>11. Pending(k)' = p
        BY <2>1, <3>1, <3>9, <3>10 DEF Pending
      <3> QED
        BY <3>8, <3>11
    <2>8. CASE k + 1 = m
      <3>1. k + 1 \in DOMAIN control /\ k < m
        BY <1>1, <2>4, <2>8
      <3>2. control[m].kind = "chain"
        BY <1>3, <2>2, <2>8, <3>1 DEF Nesting, Nests
      <3>3. PICK i : i = control[k].i /\ p = i + 1
        BY <2>1, <3>1 DEF Pending
      <3>4. /\ p \in DOMAIN var_stack_ /\ var_stack_[p] = Top.vari /\ i \in Nat /\ b \in Nat
            /\ b <= i /\ \A j \in ScopesIn(control) : j < k
        BY <1>1, <1>3, <2>1, <2>2, <2>5, <2>8, <3>2, <3>3, AtTop
      <3>5. Holds(start, b, p)
        BY <2>3, <3>1, <2>4, <2>8
      <3>6. control'[k] = control[k]
        BY <2>2, <3>1
      <3>7. CASE ChainReturns
        <4>1. control' = FrontOf(control) /\ adj' = Chained(Top.vari)
              /\ UNCHANGED <<varis, var_stack_>>
          BY <3>7 DEF ChainReturns, tape
        <4>2. DOMAIN control' = 1 .. m - 1
          BY <1>1, <2>5, <4>1, FramesPop DEF IInv
        <4>3. k + 1 \notin DOMAIN control'
          BY <1>1, <2>8, <4>2
        <4>4. Pending(k)' = i
          BY <3>3, <3>6, <4>3 DEF Pending
        <4>5. p > b /\ p - 1 = i
          BY <3>3, <3>4
        <4>6. Holds(start, b, p - 1)'
          BY <1>3, <2>1, <2>2, <3>4, <3>5, <4>1, <4>5, TurnHolds
        <4> QED
          BY <4>4, <4>5, <4>6
      <3>8. CASE control' = FrontOf(control) /\ exception' # "none"
        <4>1. DOMAIN control' = 1 .. m - 1
          BY <1>1, <2>5, <3>8, FramesPop DEF IInv
        <4>2. m2 = m - 1
          <5>1. m - 1 \in Nat
            BY <1>1, <2>4, <2>8
          <5> QED
            BY <1>1, <4>1, <5>1
        <4>3. k = Len(control')
          BY <1>1, <2>4, <2>8, <4>2
        <4> QED
          BY <3>8, <4>3
      <3>9. CASE /\ UNCHANGED <<var_stack_, varis, adj>>
                 /\ control' = control \/ control' = Append(control, [kind |-> "scope"])
        <4>1. k + 1 \in DOMAIN control'
          <5>1. CASE control' = control
            BY <3>1, <5>1
          <5>2. CASE control' = Append(control, [kind |-> "scope"])
            <6>1. DOMAIN control' = 1 .. m + 1
              BY <1>1, <5>2, FramesPush DEF IInv
            <6> QED
              BY <1>1, <3>1, <6>1
          <5> QED
            BY <3>9, <5>1, <5>2
        <4>2. Pending(k)' = p
          BY <3>3, <3>6, <4>1 DEF Pending
        <4>3. Holds(start, b, p)'
          BY <3>5, <3>9 DEF Holds, Ahead, Seen, Slots
        <4> QED
          BY <4>2, <4>3
      <3> QED
        BY <2>5, <3>2, <3>7, <3>8, <3>9, StepAtChain
    <2>9. CASE k = m
      <3>1. Top.kind = "grad" /\ k + 1 \notin DOMAIN control
        BY <1>1, <2>2, <2>5, <2>9
      <3>2. PICK i : i = control[k].i /\ p = i
        BY <2>1, <3>1 DEF Pending
      <3>3. CASE SweepStep
        <4>1. PICK h, f, a : Turning(h, f, a)
          BY <3>3, SweepStepTurns
        <4>2. h = m /\ f = control[k] /\ a = var_stack_[i] /\ i > b
          BY <1>1, <2>1, <2>9, <3>2, <4>1 DEF Turning
        <4>3. exception = "none" /\ UNCHANGED <<varis, var_stack_>>
          BY <3>3 DEF SweepStep, tape
        <4>4. Holds(start, b, i)
          BY <2>3, <3>2, <4>3
        <4>5. /\ i \in Nat /\ i <= Len(var_stack_) /\ b \in Nat
              /\ \A j \in ScopesIn(control) : j < k
          BY <1>1, <1>3, <2>1, <2>2, <2>9, <3>2, AtTop
        <4>6. i \in DOMAIN var_stack_
          BY <4>2, <4>5, Lengths DEF IInv
        <4>7. control'[k].i = i - 1
          BY <2>9, <3>2, <4>1, <4>2 DEF Turning
        <4>8. CASE DOMAIN control' = 1 .. m /\ adj' = Chained(a)
          <5>1. k + 1 \notin DOMAIN control'
            BY <1>1, <2>9, <4>8
          <5>2. Pending(k)' = i - 1
            BY <4>7, <5>1 DEF Pending
          <5>3. Holds(start, b, i - 1)'
            BY <1>3, <2>1, <2>2, <4>2, <4>3, <4>4, <4>5, <4>6, <4>8, TurnHolds
          <5> QED
            BY <5>2, <5>3
        <4>9. CASE DOMAIN control' = 1 .. m + 1 /\ adj' = adj
          <5>1. k + 1 \in DOMAIN control'
            BY <1>1, <2>9, <4>9
          <5>2. Pending(k)' = i - 1 + 1
            BY <4>7, <5>1 DEF Pending
          <5>3. Pending(k)' = i
            BY <4>5, <5>2
          <5>4. Holds(start, b, i)'
            BY <4>3, <4>4, <4>9 DEF Holds, Ahead, Seen, Slots
          <5> QED
            BY <5>3, <5>4
        <4> QED
          BY <4>1, <4>2, <4>8, <4>9 DEF Turning
      <3>4. CASE control' = FrontOf(control)
        <4>1. DOMAIN control' = 1 .. m - 1
          BY <1>1, <2>5, <3>4, FramesPop DEF IInv
        <4> QED
          BY <1>1, <2>4, <2>9, <4>1
      <3>5. CASE UNCHANGED <<var_stack_, varis, adj, control, exception>>
        <4>1. exception = "none"
          BY <1>1, <2>9, <3>5
        <4>2. Holds(start, b, p)'
          BY <2>3, <3>5, <4>1 DEF Holds, Ahead, Seen, Slots
        <4>3. Pending(k)' = p
          BY <2>1, <3>5 DEF Pending
        <4> QED
          BY <4>2, <4>3
      <3> QED
        BY <2>5, <3>1, <3>3, <3>4, <3>5, StepAtGrad
    <2> QED
      BY <1>1, <2>4, <2>7, <2>8, <2>9
  <1> QED
    BY <1>2, <1>3

LEMMA DerivativeIs ==
  ASSUME NEW n \in Nat, Live = 1 .. n, NEW swept, Descending(varis, n, swept), NEW x \in Live
  PROVE  IsDerivative(varis, Derivative(swept, x), n, swept, x)
  <1>1. PICK g : g = CHOOSE h : h = [y \in Live |-> IF y = x THEN 1 ELSE Flow(varis, h, swept, y)]
    OBVIOUS
  <1>2. Derivative(swept, x) = g
    BY <1>1, Zenon DEF Derivative, Flow, Flows, Into, Through, Terms
  <1>3. \E h : IsDerivative(varis, h, n, swept, x)
    BY DerivativeExists
  <1>4. \E h : h = [y \in Live |-> IF y = x THEN 1 ELSE Flow(varis, h, swept, y)]
    BY <1>3, Zenon DEF IsDerivative
  <1>5. g = [y \in Live |-> IF y = x THEN 1 ELSE Flow(varis, g, swept, y)]
    BY <1>1, <1>4, Zenon
  <1> QED
    BY <1>2, <1>5, Zenon DEF IsDerivative

(* At the end of a sweep nothing is ahead.                                   *)
LEMMA CarriedToTheEnd ==
  ASSUME IInv, AdjTyped, SeenOK, Downward, Carries
  PROVE  SweepIsTransposedJacobian
  <1>1. SUFFICES ASSUME exception = "none", TopIs("grad"), Top.i = Top.beginning,
                        NEW swept, swept = {a \in RangeOf(var_stack_) :
                                              Depth = 0 \/ a > LastOf(nested_next_locs_)},
                        NEW x \in Live
                 PROVE  adj[x] = SumFunction([y \in Live |-> Top.start[y] * Derivative(swept, x)[y]])
    BY DEF SweepIsTransposedJacobian
  <1>2. PICK k \in Nat : k = Len(control) /\ DOMAIN control = 1 .. k
    BY LenProperties DEF IInv, Frames
  <1>3. control # <<>> /\ Top = control[k] /\ Top.kind = "grad"
    BY <1>1, <1>2 DEF TopIs, Top, LastOf
  <1>4. k \in DOMAIN control /\ k + 1 \notin DOMAIN control
    <2>1. k # 0
      BY <1>2, <1>3, EmptySeq DEF IInv, Frames
    <2> QED
      BY <1>2, <2>1
  <1>5. PICK start, b, n : start = Top.start /\ b = Top.beginning /\ n = Len(start)
    OBVIOUS
  <1>6. b \in Nat /\ \A j \in ScopesIn(control) : j < k
    BY <1>2, <1>3, <1>4, <1>5, AtTop
  <1>7. /\ n = Len(varis)
        /\ \A i \in DOMAIN var_stack_ : i > b <=>
             Depth = 0 \/ var_stack_[i] > LastOf(nested_next_locs_)
    BY <1>3, <1>4, <1>5, <1>6, NoneAbove
  <1>8. Live = 1 .. n /\ n \in Nat /\ x \in 1 .. n
    BY <1>7, Lengths DEF IInv
  <1>9. Holds(start, b, b)
    BY <1>1, <1>3, <1>4, <1>5 DEF Carries, Pending
  <1>10. /\ \A i \in DOMAIN var_stack_ : i \in Nat /\ var_stack_[i] \in 1 .. n
         /\ Slots(n) = DOMAIN var_stack_
    <2>1. \A i \in DOMAIN var_stack_ : var_stack_[i] \in 1 .. n /\ i \in Nat
      BY <1>8, SlotsAreLive
    <2>2. \A i \in DOMAIN var_stack_ : var_stack_[i] <= n
      BY <1>8, <2>1
    <2> QED
      BY <2>1, <2>2 DEF Slots
  <1>11. Ahead(b, b, n) = {}
    BY <1>6, <1>10 DEF Ahead
  <1>12. Seen(b, n) = swept /\ swept \subseteq 1 .. n
    <2>1. \A i \in DOMAIN var_stack_ : b < i <=>
            Depth = 0 \/ var_stack_[i] > LastOf(nested_next_locs_)
      BY <1>6, <1>7, <1>10
    <2> QED
      BY <1>1, <1>10, <2>1 DEF Seen, RangeOf
  <1>13. Carried(varis, adj, n, {}, swept, start)
    BY <1>5, <1>9, <1>11, <1>12 DEF Holds
  <1>14. Descending(varis, n, swept)
    BY <1>8, <1>12 DEF Descending, Downward
  <1>15. PICK E : E = Derivative(swept, x) /\ IsDerivative(varis, E, n, swept, x)
    BY <1>8, <1>14, DerivativeIs
  <1>16. NumberOn(adj, 1 .. n)
    BY <1>7, <1>8, ElementOfSeq DEF AdjTyped, NumberOn
  <1>17. adj[x] = Dot(start, E, n)
    BY <1>8, <1>13, <1>15, <1>16, CarriedAtLast
  <1>18. Dot(start, E, n) = SumFunction([y \in Live |-> start[y] * E[y]])
    BY <1>8 DEF Dot, Weighted
  <1> QED
    BY <1>5, <1>15, <1>17, <1>18

SweepInv == Downward /\ Nesting /\ SeenOK /\ Apart /\ Carries

(* A sweep that has run to its end has added to every adjoint what the chain *)
(* rule says, summed over all paths: each vari it can see is chained once,   *)
(* after all that it passes on to it, whatever the sweeps do that chain()    *)
(* starts in scopes of its own, and whatever exceptions unwind them (grad,   *)
(* vari::chain, nested_rev_autodiff, set_zero_all_adjoints_nested).          *)
THEOREM SweepsAreTheChainRule == Spec => []SweepIsTransposedJacobian
  <1>1. Init => SweepInv
    <2> SUFFICES ASSUME Init PROVE SweepInv
      OBVIOUS
    <2>1. DOMAIN control = {} /\ Live = {}
      BY DEF Init, Live
    <2> QED
      BY <2>1 DEF SweepInv, Downward, Nesting, Nests, SeenOK, Apart, Carries
  <1>2. /\ IInv /\ HeapOK /\ (IInv /\ HeapOK)' /\ TypeOK /\ TypeOK' /\ SweepInv /\ [Next]_vars
        => SweepInv'
    <2> SUFFICES ASSUME IInv, HeapOK, IInv', TypeOK, TypeOK', SweepInv, [Next]_vars
                 PROVE  SweepInv'
      OBVIOUS
    <2>1. AdjTyped /\ AdjTyped'
      BY DEF TypeOK, AdjTyped
    <2>2. Downward /\ Nesting /\ SeenOK /\ Apart /\ Carries
      BY DEF SweepInv
    <2>3. Downward'
      BY <2>2, DownwardStep
    <2>4. Nesting'
      BY <2>2, NestingStep
    <2>5. SeenOK'
      BY <2>1, <2>2, SeenStep
    <2>6. Apart'
      BY <2>1, <2>2, ApartStep
    <2>7. Carries'
      BY <2>1, <2>2, <2>3, CarriesStep
    <2> QED
      BY <2>3, <2>4, <2>5, <2>6, <2>7 DEF SweepInv
  <1>3. IInv /\ TypeOK /\ SweepInv => SweepIsTransposedJacobian
    BY CarriedToTheEnd DEF TypeOK, AdjTyped, SweepInv
  <1> QED
    BY <1>1, <1>2, <1>3, Inductive, TypeCorrect, PTL DEF Spec
=============================================================================
