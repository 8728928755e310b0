------------------------- MODULE ReduceSum_proofs -------------------------
(***************************************************************************)
(* Proofs about the parallel calls, for any threads, chains, numbers of    *)
(* terms, sequences of calls and depths of calls from within ranges, with  *)
(* terms that throw or not.                                                *)
(***************************************************************************)
EXTENDS ReduceSum, SequenceTheorems, TLAPS

Frame == [chain : Chains, term : 0 .. N]

(* What a reducer that begins at term b holds, in a call of kind k.          *)
ReducerOK(k, b, r) ==
  r.last # 0 =>
    /\ b <= r.last /\ b <= r.next /\ r.next <= r.last + 1
    /\ r.upto # 0 => r.next <= r.upto /\ r.upto <= r.last
    /\ r.sum_ = IF k = "map_rect" THEN Zeros ELSE Part(b, r.next - 1)
    /\ IF k = "reduce_sum"
       THEN /\ \/ r.args_adjoints_ = Part(b, r.next - 1)
               \/ r.args_adjoints_ = NoVector /\ r.next = b /\ r.upto = 0
            /\ r.upto # 0 => r.copied = Zeros
       ELSE r.args_adjoints_ = NoVector

(* The reducers of a call share out the terms ...                            *)
Apart(rs) ==
  \A b, m \in Terms : b < m /\ rs[b].last # 0 /\ rs[m].last # 0 => rs[b].last < m

(* ... and term i has been run by one of them.                               *)
RunIn(rs, i) == \E b \in Terms : rs[b].last # 0 /\ b <= i /\ i < rs[b].next

ChainOK(c) ==
  /\ \A b \in Terms : ReducerOK(kind[c], b, reducers[c][b])
  /\ Apart(reducers[c])
  /\ \A i \in Terms :
       partials[c][i] = IF kind[c] # "double" /\ RunIn(reducers[c], i) THEN 1 ELSE 0
  /\ phase[c] \in {"idle", "building"} => \A b \in Terms : ~Exists(c, b)
  /\ phase[c] = "reducing" => kind[c] \in Kinds
  /\ phase[c] = "reduced" => reducers[c][1].last = N /\ HasRun(c, 1)

(* Thread t runs a range of reducer b of c, at k of its stack ...            *)
Runs(t, k, c, b) == k \in DOMAIN stack[t] /\ stack[t][k] = RangeFrame(c, b)

(* ... only one the reducer is running ...                                   *)
UnderWay ==
  \A t \in Threads, k \in Nat, c \in Chains, b \in Terms :
    Runs(t, k, c, b) =>
      phase[c] = "reducing" /\ Exists(c, b) /\ reducers[c][b].upto # 0

(* ... and it is run nowhere else.                                           *)
OnePlaceEach ==
  \A t, u \in Threads, k, j \in Nat, c \in Chains, b \in Terms :
    Runs(t, k, c, b) /\ Runs(u, j, c, b) => t = u /\ k = j

FramesOK == UnderWay /\ OnePlaceEach

IInv == TypeOK /\ FramesOK /\ \A c \in Chains : ChainOK(c)

(* With isolation only the lowest frame of a stack can be a chain, and then  *)
(* the tape is its own; higher up there are ranges and their calls.          *)
Shape(s, v) ==
  /\ v = IF s # <<>> /\ s[1].term = 0 THEN <<s[1].chain>> ELSE <<>>
  /\ \A k \in 2 .. Len(s) : s[k].term = 0 => s[k - 1].term # 0

Shapes == \A t \in Threads : Shape(stack[t], tape[t])
-----------------------------------------------------------------------------
(* A vector of counts is not the vector of size 0.                           *)
LEMMA NotEmpty ==
  ASSUME NEW S, NEW f \in [Terms -> S]
  PROVE  f # NoVector
  <1>1. 1 \in DOMAIN f
    BY ReduceSumAssumption DEF Terms
  <1>2. DOMAIN NoVector = 1 .. 0
    BY EmptySeq, LenProperties DEF NoVector
  <1> QED
    BY <1>1, <1>2

(* Neighbouring parts add up to the part from the first to the last.         *)
LEMMA PartsAdd ==
  ASSUME NEW b \in Int, NEW m \in Int, NEW n \in Int, b <= m, m <= n + 1
  PROVE  /\ Plus(Part(b, m - 1), Part(m, n)) = Part(b, n)
         /\ Plus(Zeros, Part(m, n)) = Part(m, n)
         /\ Plus(Part(b, m - 1), Zeros) = Part(b, m - 1)
         /\ Plus(Zeros, Zeros) = Zeros
         /\ Part(b, b - 1) = Zeros
         /\ Part(b, n) \in Counts /\ Zeros \in Counts
  BY ReduceSumAssumption DEF Plus, Part, Zeros, Counts, Terms

LEMMA FreshOK ==
  ASSUME NEW k, NEW b \in Terms, NEW n \in Terms, b <= n
  PROVE  /\ Fresh(b, n) \in Reducer /\ ReducerOK(k, b, Fresh(b, n))
         /\ Absent \in Reducer /\ ReducerOK(k, b, Absent)
  <1>1. Zeros \in Counts /\ Part(b, b - 1) = Zeros
    BY PartsAdd, ReduceSumAssumption DEF Terms
  <1> QED
    BY <1>1, ReduceSumAssumption DEF Fresh, Absent, Reducer, ReducerOK, Terms

(* operator() up to the user's function, for terms up to n.                  *)
LEMMA PreparedOK ==
  ASSUME NEW k, NEW b \in Terms, NEW r \in Reducer, ReducerOK(k, b, r),
         NEW n \in Terms, r.last # 0, r.upto = 0, r.next <= n, n <= r.last
  PROVE  /\ Prepared(k, r, n) \in Reducer /\ ReducerOK(k, b, Prepared(k, r, n))
         /\ Prepared(k, r, n).last = r.last /\ Prepared(k, r, n).next = r.next
         /\ Prepared(k, r, n).upto = n
  <1> DEFINE p == Prepared(k, r, n)
  <1>1. /\ Part(b, r.next - 1) \in Counts /\ Zeros \in Counts
        /\ Part(b, b - 1) = Zeros
    BY PartsAdd, ReduceSumAssumption DEF Terms, Reducer, ReducerOK
  <1>2. Part(b, r.next - 1) # NoVector
    BY <1>1, NotEmpty DEF Counts
  <1>3. CASE k # "reduce_sum"
    <2>1. p = [r EXCEPT !.upto = n]
      BY <1>3 DEF Prepared
    <2> QED
      BY <2>1, <1>3, ReduceSumAssumption DEF Reducer, ReducerOK, Terms
  <1>4. CASE k = "reduce_sum"
    <2>1. p = [r EXCEPT !.upto = n, !.holder = TRUE, !.copied = Zeros,
                 !.args_adjoints_ = IF @ = NoVector THEN Zeros ELSE @]
      BY <1>4 DEF Prepared, SharedAdjoints
    <2>2. p.args_adjoints_ = Part(b, r.next - 1)
      BY <2>1, <1>1, <1>2, <1>4 DEF ReducerOK, Reducer
    <2>3. p \in Reducer
      <3>1. /\ (IF r.args_adjoints_ = NoVector THEN Zeros ELSE r.args_adjoints_)
                 \in Counts \cup {NoVector}
            /\ n \in 0 .. N
        BY <1>1, ReduceSumAssumption DEF Reducer, Terms
      <3> QED
        BY <2>1, <1>1, <3>1, Zenon DEF Reducer
    <2> QED
      BY <2>1, <2>2, <2>3, <1>4, ReduceSumAssumption DEF Reducer, ReducerOK, Terms
  <1> QED
    BY <1>3, <1>4

(* The rest of operator(): its terms are held once more than before.         *)
LEMMA RanOK ==
  ASSUME NEW k \in {"reduce_sum", "double", "map_rect"}, NEW b \in Terms,
         NEW r \in Reducer, ReducerOK(k, b, r), r.last # 0, r.upto # 0
  PROVE  /\ Ran(k, r) \in Reducer /\ ReducerOK(k, b, Ran(k, r))
         /\ Ran(k, r).last = r.last /\ Ran(k, r).next = r.upto + 1
         /\ Ran(k, r).upto = 0
  <1> DEFINE terms == Part(r.next, r.upto)
  <1>1. /\ Plus(Part(b, r.next - 1), terms) = Part(b, r.upto)
        /\ Plus(Zeros, terms) = terms
        /\ terms \in Counts /\ Part(b, r.upto) \in Counts
    BY PartsAdd DEF Terms, Reducer, ReducerOK
  <1>2. r.upto = r.upto + 1 - 1 /\ r.upto + 1 \in 0 .. N + 1 /\ r.upto \in Nat
        /\ 0 \in 0 .. N
    BY ReduceSumAssumption DEF Reducer
  <1>3. CASE k = "map_rect"
    <2>1. Ran(k, r) = [r EXCEPT !.next = r.upto + 1, !.upto = 0]
      BY <1>3 DEF Ran
    <2>2. Ran(k, r) \in Reducer
      BY <2>1, <1>2, Zenon DEF Reducer
    <2> QED
      BY <2>1, <2>2, <1>2, <1>3 DEF Reducer, ReducerOK, Terms
  <1>4. CASE k = "double"
    <2>1. Ran(k, r) = [r EXCEPT !.next = r.upto + 1, !.upto = 0,
                                !.sum_ = Plus(@, terms)]
      BY <1>4 DEF Ran, Reducer
    <2>2. Ran(k, r).sum_ = Part(b, r.upto)
      BY <2>1, <1>1, <1>4 DEF Reducer, ReducerOK
    <2>3. Ran(k, r) \in Reducer
      <3>1. Plus(r.sum_, terms) \in Counts
        BY <2>1, <2>2, <1>1 DEF Reducer
      <3> QED
        BY <2>1, <3>1, <1>2, Zenon DEF Reducer
    <2> QED
      BY <2>1, <2>2, <2>3, <1>2, <1>4 DEF Reducer, ReducerOK, Terms
  <1>5. CASE k = "reduce_sum"
    <2>1. r.copied = Zeros /\ r.args_adjoints_ = Part(b, r.next - 1)
      BY <1>5 DEF ReducerOK
    <2>2. Ran(k, r) = [r EXCEPT !.next = r.upto + 1, !.upto = 0,
                                !.sum_ = Plus(@, terms), !.copied = terms,
                                !.args_adjoints_ = Plus(@, terms)]
      BY <2>1, <1>1, <1>5 DEF Ran, Reducer
    <2>3. /\ Ran(k, r).sum_ = Part(b, r.upto)
          /\ Ran(k, r).args_adjoints_ = Part(b, r.upto)
      BY <2>1, <2>2, <1>1, <1>5 DEF Reducer, ReducerOK
    <2>4. Ran(k, r) \in Reducer
      <3>1. /\ Plus(r.sum_, terms) \in Counts
            /\ Plus(r.args_adjoints_, terms) \in Counts
        BY <2>2, <2>3, <1>1 DEF Reducer
      <3> QED
        BY <2>2, <3>1, <1>1, <1>2, Zenon DEF Reducer
    <2> QED
      BY <2>2, <2>3, <2>4, <1>2, <1>5 DEF Reducer, ReducerOK, Terms
  <1> QED
    BY <1>3, <1>4, <1>5

(* The first reducer once it has run everything.                             *)
LEMMA AllRun ==
  ASSUME NEW k, NEW r \in Reducer, ReducerOK(k, 1, r), r.last = N, r.next = N + 1
  PROVE  /\ k # "map_rect" => r.sum_ = Part(1, N)
         /\ k = "reduce_sum" => r.args_adjoints_ = Part(1, N)
  <1>1. r.next - 1 = N /\ r.last # 0 /\ r.next # 1
    BY ReduceSumAssumption
  <1>2. Part(1, r.next - 1) = Part(1, N)
    BY <1>1
  <1> QED
    BY <1>1, <1>2, Zenon DEF ReducerOK

(* The two reducers a split leaves.                                          *)
LEMMA SplitOK ==
  ASSUME NEW k, NEW b \in Terms, NEW r \in Reducer, ReducerOK(k, b, r),
         NEW m \in Terms, r.next < m, r.upto < m, m <= r.last
  PROVE  LET l == [r EXCEPT !.last = m - 1]
         IN  /\ l \in Reducer /\ ReducerOK(k, b, l)
             /\ b < m /\ m - 1 # 0 /\ r.last \in Terms
             /\ Fresh(m, r.last) \in Reducer /\ ReducerOK(k, m, Fresh(m, r.last))
  <1>1. r.last \in Terms /\ b < m /\ m - 1 \in 1 .. N
    BY ReduceSumAssumption DEF Terms, Reducer, ReducerOK
  <1>2. Fresh(m, r.last) \in Reducer /\ ReducerOK(k, m, Fresh(m, r.last))
    BY <1>1, FreshOK
  <1> QED
    BY <1>1, <1>2, ReduceSumAssumption DEF Reducer, ReducerOK, Terms

(* The reducer a join leaves.                                                *)
LEMMA JoinOK ==
  ASSUME NEW k, NEW b \in Terms, NEW l \in Reducer, ReducerOK(k, b, l),
         NEW m \in Terms, NEW r \in Reducer, ReducerOK(k, m, r),
         l.last # 0, r.last # 0, m = l.last + 1,
         l.next = l.last + 1, r.next = r.last + 1
  PROVE  /\ Joined(l, r) \in Reducer /\ ReducerOK(k, b, Joined(l, r)) /\ b < m
         /\ Joined(l, r).last = r.last /\ Joined(l, r).next = r.next
         /\ l.upto = 0 /\ r.upto = 0
  <1> DEFINE sum_ == Plus(l.sum_, r.sum_)
             args_adjoints_ == JoinedAdjoints(l.args_adjoints_, r.args_adjoints_)
  <1>1. /\ b < m /\ l.upto = 0 /\ r.upto = 0 /\ m <= r.last
        /\ r.last \in 1 .. N /\ r.next \in 1 .. N + 1 /\ l.next = m
    BY ReduceSumAssumption DEF Terms, Reducer, ReducerOK
  <1>2. /\ Plus(Part(b, m - 1), Part(m, r.last)) = Part(b, r.last)
        /\ Plus(Zeros, Zeros) = Zeros /\ Zeros \in Counts
        /\ Part(b, m - 1) \in Counts /\ Part(m, r.last) \in Counts
        /\ Part(b, r.last) \in Counts
    BY <1>1, PartsAdd DEF Terms
  <1>3. sum_ = IF k = "map_rect" THEN Zeros ELSE Part(b, r.last)
    BY <1>1, <1>2 DEF ReducerOK, Reducer
  <1>4. args_adjoints_ = IF k = "reduce_sum" THEN Part(b, r.last) ELSE NoVector
    <2>1. CASE k = "reduce_sum"
      <3>1. l.args_adjoints_ = Part(b, m - 1) /\ r.args_adjoints_ = Part(m, r.last)
        BY <2>1, <1>1 DEF ReducerOK, Reducer, Terms
      <3>2. Part(b, m - 1) # NoVector /\ Part(m, r.last) # NoVector
        BY <1>2, NotEmpty DEF Counts
      <3> QED
        BY <2>1, <3>1, <3>2, <1>2 DEF JoinedAdjoints
    <2>2. CASE k # "reduce_sum"
      BY <2>2 DEF JoinedAdjoints, ReducerOK
    <2> QED
      BY <2>1, <2>2
  <1> HIDE DEF sum_, args_adjoints_
  <1>5. sum_ \in Counts /\ args_adjoints_ \in Counts \cup {NoVector}
    BY <1>2, <1>3, <1>4
  <1> DEFINE j == Joined(l, r)
  <1>6. /\ j = [l EXCEPT !.last = r.last, !.next = r.next, !.sum_ = sum_,
                         !.args_adjoints_ = args_adjoints_]
    BY DEF Joined, sum_, args_adjoints_, Reducer
  <1>7. /\ j \in Reducer
        /\ j.last = r.last /\ j.next = r.last + 1 /\ j.upto = 0
        /\ j.sum_ = sum_ /\ j.args_adjoints_ = args_adjoints_
    BY <1>1, <1>5, <1>6 DEF Reducer
  <1>8. ReducerOK(k, b, j)
    BY <1>1, <1>3, <1>4, <1>7, ReduceSumAssumption DEF ReducerOK, Terms
  <1> QED
    BY <1>1, <1>7, <1>8
-----------------------------------------------------------------------------
LEMMA Popped ==
  ASSUME NEW q \in Seq(Frame), q # <<>>
  PROVE  /\ SubSeq(q, 1, Len(q) - 1) \in Seq(Frame)
         /\ Len(SubSeq(q, 1, Len(q) - 1)) = Len(q) - 1
         /\ DOMAIN SubSeq(q, 1, Len(q) - 1) = 1 .. Len(q) - 1
         /\ \A k \in 1 .. Len(q) - 1 : SubSeq(q, 1, Len(q) - 1)[k] = q[k]
  <1> DEFINE n == Len(q) - 1
             s == SubSeq(q, 1, n)
  <1>1. Len(q) \in Nat \ {0}
    BY EmptySeq, LenProperties
  <1>2. n \in Nat /\ \A k \in 1 .. n : q[k] \in Frame
    BY <1>1, ElementOfSeq
  <1> HIDE DEF n
  <1>3. /\ s \in Seq(Frame)
        /\ Len(s) = IF 1 <= n THEN n - 1 + 1 ELSE 0
        /\ \A k \in 1 .. n - 1 + 1 : s[k] = q[1 + k - 1]
    BY <1>2, SubSeqProperties
  <1> HIDE DEF s
  <1>4. Len(s) = n /\ \A k \in 1 .. n : s[k] = q[k]
    BY <1>2, <1>3
  <1>5. DOMAIN s = 1 .. n
    BY <1>3, <1>4, LenProperties
  <1> QED
    BY <1>3, <1>4, <1>5 DEF n, s

LEMMA PushTop ==
  ASSUME stack \in [Threads -> Seq(Frame)],
         NEW t \in Threads, NEW f \in Frame, Push(t, f)
  PROVE  /\ stack' \in [Threads -> Seq(Frame)]
         /\ \A u \in Threads, k \in Nat, c \in Chains, b \in Terms :
              Runs(u, k, c, b)' => \/ Runs(u, k, c, b)
                                  \/ /\ u = t /\ k = Len(stack[t]) + 1
                                     /\ f = RangeFrame(c, b)
  <1> DEFINE s == Append(stack[t], f)
  <1>1. stack' = [stack EXCEPT ![t] = s]
    BY DEF Push
  <1>2. /\ s \in Seq(Frame) /\ Len(s) = Len(stack[t]) + 1 /\ s[Len(s)] = f
        /\ \A k \in 1 .. Len(stack[t]) : s[k] = stack[t][k]
        /\ Len(stack[t]) \in Nat /\ DOMAIN stack[t] = 1 .. Len(stack[t])
        /\ DOMAIN s = 1 .. Len(s)
    BY AppendProperties, LenProperties
  <1> HIDE DEF s
  <1>3. /\ stack' \in [Threads -> Seq(Frame)] /\ stack'[t] = s
        /\ \A u \in Threads \ {t} : stack'[u] = stack[u]
    BY <1>1, <1>2
  <1>4. ASSUME NEW k \in DOMAIN s
        PROVE  \/ k \in DOMAIN stack[t] /\ s[k] = stack[t][k]
               \/ k = Len(stack[t]) + 1 /\ s[k] = f
    BY <1>2
  <1> QED
    BY <1>3, <1>4 DEF Runs

LEMMA PopTop ==
  ASSUME stack \in [Threads -> Seq(Frame)],
         NEW t \in Threads, stack[t] # <<>>, Pop(t)
  PROVE  /\ stack' \in [Threads -> Seq(Frame)]
         /\ \A u \in Threads, k \in Nat, c \in Chains, b \in Terms :
              Runs(u, k, c, b)' =>
                Runs(u, k, c, b) /\ ~(u = t /\ k = Len(stack[t]))
  <1> DEFINE s == SubSeq(stack[t], 1, Len(stack[t]) - 1)
  <1>1. stack' = [stack EXCEPT ![t] = s]
    BY DEF Pop
  <1>2. Len(stack[t]) \in Nat \ {0} /\ DOMAIN stack[t] = 1 .. Len(stack[t])
    BY EmptySeq, LenProperties
  <1>3. /\ s \in Seq(Frame) /\ DOMAIN s = 1 .. Len(stack[t]) - 1
        /\ \A k \in DOMAIN s : s[k] = stack[t][k]
    BY Popped
  <1> HIDE DEF s
  <1>4. /\ stack' \in [Threads -> Seq(Frame)] /\ stack'[t] = s
        /\ \A u \in Threads \ {t} : stack'[u] = stack[u]
    BY <1>1, <1>3
  <1>5. ASSUME NEW k \in DOMAIN s
        PROVE  k \in DOMAIN stack[t] /\ k # Len(stack[t])
    BY <1>2, <1>3
  <1> QED
    BY <1>3, <1>4, <1>5 DEF Runs

(* The range a thread is at is the last of its stack.                        *)
LEMMA TopRuns ==
  ASSUME stack \in [Threads -> Seq(Frame)],
         NEW t \in Threads, NEW f, TopIs(t, f)
  PROVE  /\ Len(stack[t]) \in Nat \ {0} /\ stack[t] # <<>>
         /\ Len(stack[t]) \in DOMAIN stack[t] /\ stack[t][Len(stack[t])] = f
  BY EmptySeq, LenProperties DEF TopIs, Top

LEMMA FrameTypes ==
  ASSUME NEW c \in Chains, NEW b \in Terms
  PROVE  /\ ChainFrame(c) \in Frame /\ RangeFrame(c, b) \in Frame
         /\ ChainFrame(c).term = 0 /\ RangeFrame(c, b).term = b /\ b # 0
         /\ \A d \in Chains, m \in Terms :
              RangeFrame(c, b) = RangeFrame(d, m) => c = d /\ b = m
  BY ReduceSumAssumption DEF ChainFrame, RangeFrame, Frame, Terms

(* A chain nothing happens to.                                               *)
LEMMA SameChain ==
  ASSUME NEW d \in Chains, ChainOK(d),
         phase'[d] = phase[d], kind'[d] = kind[d],
         reducers'[d] = reducers[d], partials'[d] = partials[d]
  PROVE  ChainOK(d)'
  BY DEF ChainOK, Exists, HasRun

(* No range more is under way, and those that are their reducers run.        *)
LEMMA FramesKept ==
  ASSUME FramesOK,
         \A t \in Threads, k \in Nat, c \in Chains, b \in Terms :
           Runs(t, k, c, b)' =>
             /\ Runs(t, k, c, b)
             /\ phase'[c] = "reducing" /\ Exists(c, b)' /\ reducers'[c][b].upto # 0
  PROVE  FramesOK'
  BY DEF FramesOK, UnderWay, OnePlaceEach

(* Frames where the ranges under way are those of before.                    *)
LEMMA SameFrames ==
  ASSUME FramesOK, stack' = stack,
         \A c \in Chains, b \in Terms :
           phase[c] = "reducing" /\ Exists(c, b) /\ reducers[c][b].upto # 0 =>
             \/ \A t \in Threads, k \in Nat : ~Runs(t, k, c, b)
             \/ /\ phase'[c] = "reducing"
                /\ Exists(c, b)' /\ reducers'[c][b].upto # 0
  PROVE  FramesOK'
  <1>1. ASSUME NEW t \in Threads, NEW k \in Nat, NEW c \in Chains, NEW b \in Terms,
               Runs(t, k, c, b)'
        PROVE  /\ Runs(t, k, c, b)
               /\ phase'[c] = "reducing" /\ Exists(c, b)' /\ reducers'[c][b].upto # 0
    <2>1. Runs(t, k, c, b)
      BY <1>1 DEF Runs
    <2> QED
      BY <2>1 DEF FramesOK, UnderWay
  <1> QED
    BY <1>1, FramesKept

-----------------------------------------------------------------------------
(* What the reducers of a chain have run, when they change.                  *)
LEMMA RunInAfterRange ==
  ASSUME NEW k, NEW rs \in [Terms -> Reducer], NEW ss \in [Terms -> Reducer],
         \A m \in Terms : ReducerOK(k, m, rs[m]), Apart(rs),
         NEW b \in Terms, rs[b].last # 0, rs[b].upto # 0,
         \A m \in Terms \ {b} : ss[m] = rs[m],
         ss[b].last = rs[b].last, ss[b].next = rs[b].upto + 1,
         NEW i \in Terms
  PROVE  /\ Apart(ss)
         /\ Part(rs[b].next, rs[b].upto)[i] = 1 => ~RunIn(rs, i) /\ RunIn(ss, i)
         /\ Part(rs[b].next, rs[b].upto)[i] # 1 =>
              /\ Part(rs[b].next, rs[b].upto)[i] = 0
              /\ RunIn(ss, i) <=> RunIn(rs, i)
  <1>1. \A m \in Terms : /\ rs[m].last \in Int /\ rs[m].next \in Int
                         /\ rs[m].upto \in Int
    BY ReduceSumAssumption DEF Reducer
  <1>2. /\ b <= rs[b].next /\ rs[b].next <= rs[b].upto /\ rs[b].upto <= rs[b].last
        /\ \A m \in Terms : rs[m].last # 0 => rs[m].next <= rs[m].last + 1
    BY DEF ReducerOK
  <1>3. Apart(ss)
    BY DEF Apart
  <1>4. CASE rs[b].next <= i /\ i <= rs[b].upto
    <2>1. Part(rs[b].next, rs[b].upto)[i] = 1
      BY <1>4 DEF Part
    <2>2. RunIn(ss, i)
      BY <1>1, <1>2, <1>4 DEF RunIn, Terms
    <2>3. ~RunIn(rs, i)
      <3> SUFFICES ASSUME NEW m \in Terms, rs[m].last # 0, m <= i, i < rs[m].next
                   PROVE  FALSE
        BY DEF RunIn
      <3>1. m # b
        BY <1>1, <1>4 DEF Terms
      <3>2. ~(m < b)
        BY <1>1, <1>2, <1>4 DEF Apart, Terms
      <3>3. ~(b < m)
        BY <1>1, <1>2, <1>4 DEF Apart, Terms
      <3> QED
        BY <3>1, <3>2, <3>3 DEF Terms
    <2> QED
      BY <1>3, <2>1, <2>2, <2>3
  <1>5. CASE ~(rs[b].next <= i /\ i <= rs[b].upto)
    <2>1. Part(rs[b].next, rs[b].upto)[i] = 0
      BY <1>5 DEF Part
    <2>2. RunIn(ss, i) <=> RunIn(rs, i)
      BY <1>1, <1>2, <1>5 DEF RunIn, Terms
    <2> QED
      BY <1>3, <2>1, <2>2
  <1> QED
    BY <1>4, <1>5

LEMMA RunInAfterSplit ==
  ASSUME NEW rs \in [Terms -> Reducer], NEW ss \in [Terms -> Reducer], Apart(rs),
         NEW b \in Terms, NEW m \in Terms, b < m, rs[b].last # 0, m <= rs[b].last,
         \A a \in Terms \ {b, m} : ss[a] = rs[a],
         ss[b].last = m - 1, ss[b].next = rs[b].next,
         ss[m].last = rs[b].last, ss[m].next = m
  PROVE  Apart(ss) /\ rs[m].last = 0 /\ \A i \in Terms : RunIn(ss, i) <=> RunIn(rs, i)
  <1>1. \A a \in Terms : rs[a].last \in Int /\ rs[a].next \in Int
    BY ReduceSumAssumption DEF Reducer
  <1>2. rs[m].last = 0
    BY <1>1 DEF Apart, Terms
  <1>3. Apart(ss)
    <2> SUFFICES ASSUME NEW a \in Terms, NEW d \in Terms, a < d,
                        ss[a].last # 0, ss[d].last # 0
                 PROVE  ss[a].last < d
      BY DEF Apart
    <2>1. CASE a = b
      BY <1>1, <2>1 DEF Apart, Terms
    <2>2. CASE a = m
      BY <1>1, <2>2 DEF Apart, Terms
    <2>3. CASE a \notin {b, m}
      BY <1>1, <1>2, <2>3 DEF Apart, Terms
    <2> QED
      BY <2>1, <2>2, <2>3
  <1>4. ASSUME NEW i \in Terms PROVE RunIn(ss, i) <=> RunIn(rs, i)
    <2>1. ASSUME NEW a \in Terms, ss[a].last # 0, a <= i, i < ss[a].next
          PROVE  RunIn(rs, i)
      <3>1. a # m
        BY <2>1 DEF Terms
      <3>2. CASE a = b
        BY <1>1, <2>1, <3>2 DEF RunIn, Terms
      <3>3. CASE a \notin {b, m}
        BY <2>1, <3>3 DEF RunIn
      <3> QED
        BY <3>1, <3>2, <3>3
    <2>2. ASSUME NEW a \in Terms, rs[a].last # 0, a <= i, i < rs[a].next
          PROVE  RunIn(ss, i)
      <3>1. a # m
        BY <1>2, <2>2
      <3>2. CASE a = b
        <4>1. m - 1 # 0
          BY DEF Terms
        <4> QED
          BY <2>2, <3>2, <4>1 DEF RunIn
      <3>3. CASE a \notin {b, m}
        BY <2>2, <3>3 DEF RunIn
      <3> QED
        BY <3>1, <3>2, <3>3
    <2> QED
      BY <2>1, <2>2 DEF RunIn
  <1> QED
    BY <1>2, <1>3, <1>4

LEMMA RunInAfterJoin ==
  ASSUME NEW rs \in [Terms -> Reducer], NEW ss \in [Terms -> Reducer], Apart(rs),
         NEW b \in Terms, NEW m \in Terms, b < m,
         rs[b].last # 0, rs[m].last # 0, m = rs[b].last + 1, m <= rs[m].last,
         rs[b].next = m, rs[m].next = rs[m].last + 1,
         \A a \in Terms \ {b, m} : ss[a] = rs[a],
         ss[b].last = rs[m].last, ss[b].next = rs[m].next, ss[m].last = 0
  PROVE  Apart(ss) /\ \A i \in Terms : RunIn(ss, i) <=> RunIn(rs, i)
  <1>1. \A a \in Terms : rs[a].last \in Int /\ rs[a].next \in Int
    BY ReduceSumAssumption DEF Reducer
  <1>2. Apart(ss)
    <2> SUFFICES ASSUME NEW a \in Terms, NEW d \in Terms, a < d,
                        ss[a].last # 0, ss[d].last # 0
                 PROVE  ss[a].last < d
      BY DEF Apart
    <2>1. a # m /\ d # m
      OBVIOUS
    <2>2. CASE a = b
      BY <1>1, <2>1, <2>2 DEF Apart, Terms
    <2>3. CASE d = b
      BY <1>1, <2>1, <2>3 DEF Apart, Terms
    <2>4. CASE a # b /\ d # b
      BY <1>1, <2>1, <2>4 DEF Apart, Terms
    <2> QED
      BY <2>2, <2>3, <2>4
  <1>3. ASSUME NEW i \in Terms PROVE RunIn(ss, i) <=> RunIn(rs, i)
    <2>1. ASSUME NEW a \in Terms, ss[a].last # 0, a <= i, i < ss[a].next
          PROVE  RunIn(rs, i)
      <3>1. CASE a = b /\ i < m
        BY <1>1, <2>1, <3>1 DEF RunIn, Terms
      <3>2. CASE a = b /\ m <= i
        BY <1>1, <2>1, <3>2 DEF RunIn, Terms
      <3>3. CASE a # b
        BY <1>1, <2>1, <3>3 DEF RunIn, Terms
      <3> QED
        BY <3>1, <3>2, <3>3 DEF Terms
    <2>2. ASSUME NEW a \in Terms, rs[a].last # 0, a <= i, i < rs[a].next
          PROVE  RunIn(ss, i)
      <3>1. CASE a \in {b, m}
        <4>1. b <= i /\ i < ss[b].next /\ ss[b].last # 0
          BY <1>1, <2>2, <3>1 DEF Terms
        <4> QED
          BY <4>1 DEF RunIn
      <3>2. CASE a \notin {b, m}
        BY <2>2, <3>2 DEF RunIn
      <3> QED
        BY <3>1, <3>2
    <2> QED
      BY <2>1, <2>2 DEF RunIn
  <1> QED
    BY <1>2, <1>3
-----------------------------------------------------------------------------
LEMMA InitOK == Init => IInv
  <1> SUFFICES ASSUME Init PROVE IInv
    OBVIOUS
  <1>1. \A b \in Terms : \A k : Absent \in Reducer /\ ReducerOK(k, b, Absent)
    <2> TAKE b \in Terms
    <2> TAKE k
    <2> b <= b
      BY DEF Terms
    <2> QED
      BY FreshOK
  <1>2. Zeros \in Counts /\ Absent.last = 0
    BY DEF Zeros, Counts, Absent, Fresh
  <1>3. TypeOK
    BY <1>1, <1>2, EmptySeq DEF Init, TypeOK
  <1>4. FramesOK
    BY EmptySeq DEF Init, FramesOK, UnderWay, OnePlaceEach, Runs
  <1>5. ASSUME NEW c \in Chains PROVE ChainOK(c)
    BY <1>1, <1>2 DEF Init, ChainOK, Apart, RunIn, Exists, Zeros
  <1> QED
    BY <1>3, <1>4, <1>5 DEF IInv

(* A chain or a call on top of a stack runs no range yet.                    *)
LEMMA ChainPushed ==
  ASSUME IInv, NEW t \in Threads, NEW c \in Chains, Push(t, ChainFrame(c))
  PROVE  /\ stack' \in [Threads -> Seq(Frame)]
         /\ \A u \in Threads, k \in Nat, d \in Chains, b \in Terms :
              Runs(u, k, d, b)' => Runs(u, k, d, b)
  <1>1. stack \in [Threads -> Seq(Frame)]
    BY DEF IInv, TypeOK, Frame
  <1>2. /\ ChainFrame(c) \in Frame
        /\ \A d \in Chains, b \in Terms : ChainFrame(c) # RangeFrame(d, b)
    BY FrameTypes, ReduceSumAssumption DEF ChainFrame, Frame
  <1> QED
    BY <1>1, <1>2, PushTop

LEMMA BeginChainOK ==
  ASSUME IInv, NEW t \in Threads, NEW c \in Chains, BeginChain(t, c)
  PROVE  IInv'
  <1> USE DEF IInv
  <1>1. /\ stack' \in [Threads -> Seq(Frame)]
        /\ \A u \in Threads, k \in Nat, d \in Chains, b \in Terms :
             Runs(u, k, d, b)' => Runs(u, k, d, b)
    BY ChainPushed DEF BeginChain
  <1>2. tape' \in [Threads -> Seq(Chains)]
    BY AppendProperties DEF BeginChain, TypeOK
  <1>3. TypeOK'
    BY <1>1, <1>2 DEF BeginChain, TypeOK, Frame, call
  <1>4. FramesOK'
    <2>1. ASSUME NEW u \in Threads, NEW k \in Nat, NEW d \in Chains, NEW b \in Terms,
                 Runs(u, k, d, b)'
          PROVE  /\ Runs(u, k, d, b)
                 /\ phase'[d] = "reducing" /\ Exists(d, b)' /\ reducers'[d][b].upto # 0
      <3>1. /\ Runs(u, k, d, b)
            /\ phase[d] = "reducing" /\ Exists(d, b) /\ reducers[d][b].upto # 0
        BY <1>1, <2>1 DEF FramesOK, UnderWay
      <3>2. d # c
        BY <3>1 DEF BeginChain
      <3> QED
        BY <3>1, <3>2 DEF BeginChain, TypeOK, call, Exists
    <2> QED
      BY <2>1, FramesKept
  <1>5. ASSUME NEW d \in Chains PROVE ChainOK(d)'
    <2>1. CASE d = c
      BY <2>1 DEF BeginChain, ChainOK, TypeOK, Exists, call
    <2>2. CASE d # c
      BY <2>2, SameChain DEF BeginChain, TypeOK, call
    <2> QED
      BY <2>1, <2>2
  <1> QED
    BY <1>3, <1>4, <1>5

(* What a call does, of a chain or of a range.                               *)
LEMMA ReducesOK ==
  ASSUME IInv, NEW c \in Chains, NEW k \in Kinds, phase[c] \in {"idle", "building"},
         Reduces(c, k), stack' \in [Threads -> Seq(Frame)],
         \A u \in Threads, j \in Nat, d \in Chains, b \in Terms :
           Runs(u, j, d, b)' => Runs(u, j, d, b)
  PROVE  IInv'
  <1> USE DEF IInv
  <1>1. /\ 1 \in Terms /\ N \in Terms
        /\ reducers' = [reducers EXCEPT
             ![c] = [b \in Terms |-> IF b = 1 THEN Fresh(1, N) ELSE Absent]]
    BY ReduceSumAssumption DEF Reduces, Terms
  <1>2. \A b \in Terms : /\ reducers'[c][b] \in Reducer
                         /\ ReducerOK(k, b, reducers'[c][b])
    <2>1. /\ Fresh(1, N) \in Reducer /\ ReducerOK(k, 1, Fresh(1, N))
          /\ \A b \in Terms : Absent \in Reducer /\ ReducerOK(k, b, Absent)
      <3>1. 1 <= N /\ \A b \in Terms : b <= b
        BY ReduceSumAssumption DEF Terms
      <3>2. Fresh(1, N) \in Reducer /\ ReducerOK(k, 1, Fresh(1, N))
        BY <1>1, <3>1, FreshOK
      <3>3. \A b \in Terms : Absent \in Reducer /\ ReducerOK(k, b, Absent)
        BY <3>1, FreshOK
      <3> QED
        BY <3>2, <3>3
    <2>2. reducers'[c] = [b \in Terms |-> IF b = 1 THEN Fresh(1, N) ELSE Absent]
      BY <1>1 DEF TypeOK
    <2> QED
      BY <2>1, <2>2
  <1>3. TypeOK'
    <2>1. reducers' \in [Chains -> [Terms -> Reducer]]
      BY <1>1, <1>2 DEF TypeOK
    <2> QED
      BY <2>1 DEF Reduces, TypeOK, Frame
  <1>4. FramesOK'
    <2>1. ASSUME NEW u \in Threads, NEW j \in Nat, NEW d \in Chains, NEW b \in Terms,
                 Runs(u, j, d, b)'
          PROVE  /\ Runs(u, j, d, b)
                 /\ phase'[d] = "reducing" /\ Exists(d, b)' /\ reducers'[d][b].upto # 0
      <3>1. /\ Runs(u, j, d, b)
            /\ phase[d] = "reducing" /\ Exists(d, b) /\ reducers[d][b].upto # 0
        BY <2>1 DEF FramesOK, UnderWay
      <3>2. d # c
        BY <3>1
      <3> QED
        BY <3>1, <3>2 DEF Reduces, TypeOK, Exists
    <2> QED
      BY <2>1, FramesKept
  <1>5. ASSUME NEW d \in Chains PROVE ChainOK(d)'
    <2>1. CASE d = c
      <3>1. \A b \in Terms : /\ b # 1 => reducers'[c][b].last = 0
                             /\ b = 1 => reducers'[c][b].next = 1
        BY <1>1 DEF TypeOK, Absent, Fresh
      <3>2. Apart(reducers'[c]) /\ \A i \in Terms : ~RunIn(reducers'[c], i)
        BY <3>1 DEF Apart, RunIn, Terms
      <3>3. \A i \in Terms : partials'[c][i] = 0
        <4>1. \A i \in Terms : ~RunIn(reducers[c], i)
          BY DEF ChainOK, RunIn, Exists
        <4> QED
          BY <4>1 DEF Reduces, ChainOK
      <3> QED
        BY <1>2, <2>1, <3>2, <3>3 DEF Reduces, ChainOK, TypeOK
    <2>2. CASE d # c
      BY <2>2, SameChain DEF Reduces, TypeOK
    <2> QED
      BY <2>1, <2>2
  <1> QED
    BY <1>3, <1>4, <1>5

LEMMA CallOK ==
  ASSUME IInv, NEW t \in Threads, NEW c \in Chains, NEW k \in Kinds, Call(t, c, k)
  PROVE  IInv'
  <1>1. /\ stack' = stack /\ stack \in [Threads -> Seq(Frame)]
        /\ phase[c] \in {"idle", "building"} /\ Reduces(c, k)
    BY DEF Call, IInv, TypeOK, Frame
  <1>2. \A u \in Threads, j \in Nat, d \in Chains, b \in Terms :
          Runs(u, j, d, b)' => Runs(u, j, d, b)
    BY <1>1 DEF Runs
  <1> QED
    BY <1>1, <1>2, ReducesOK

LEMMA CallInRangeOK ==
  ASSUME IInv, NEW t \in Threads, NEW c \in Chains, NEW k \in Kinds,
         CallInRange(t, c, k)
  PROVE  IInv'
  <1>1. phase[c] \in {"idle", "building"} /\ Reduces(c, k) /\ Push(t, ChainFrame(c))
    BY DEF CallInRange
  <1> QED
    BY <1>1, ChainPushed, ReducesOK

LEMMA StartRangeOK ==
  ASSUME IInv, NEW t \in Threads, NEW c \in Chains, NEW b \in Terms,
         NEW upto \in Terms, StartRange(t, c, b, upto)
  PROVE  IInv'
  <1> USE DEF IInv
  <1> DEFINE r == reducers[c][b]
             p == Prepared(kind[c], r, upto)
  <1>1. /\ p \in Reducer /\ ReducerOK(kind[c], b, p)
        /\ p.last = r.last /\ p.next = r.next /\ p.upto = upto
        /\ r.last # 0 /\ upto # 0
    <2>1. /\ r \in Reducer /\ ReducerOK(kind[c], b, r)
          /\ r.last # 0 /\ r.upto = 0 /\ r.next <= upto /\ upto <= r.last
      BY DEF StartRange, TypeOK, ChainOK, Exists
    <2>2. upto # 0
      BY DEF Terms
    <2> DEFINE k == kind[c]
    <2> HIDE DEF r, k
    <2>3. /\ Prepared(k, r, upto) \in Reducer /\ ReducerOK(k, b, Prepared(k, r, upto))
          /\ Prepared(k, r, upto).last = r.last
          /\ Prepared(k, r, upto).next = r.next
          /\ Prepared(k, r, upto).upto = upto
      <3>1. ReducerOK(k, b, r)
        BY <2>1 DEF k
      <3> QED
        BY <2>1, <3>1, PreparedOK
    <2> QED
      BY <2>1, <2>2, <2>3 DEF k
  <1> HIDE DEF p
  <1>2. /\ reducers' = [reducers EXCEPT ![c][b] = p]
        /\ reducers' \in [Chains -> [Terms -> Reducer]]
        /\ reducers'[c][b] = p
        /\ \A m \in Terms \ {b} : reducers'[c][m] = reducers[c][m]
        /\ \A d \in Chains \ {c} : reducers'[d] = reducers[d]
    BY <1>1 DEF StartRange, TypeOK, p
  <1>3. /\ stack' \in [Threads -> Seq(Frame)]
        /\ \A u \in Threads, k \in Nat, d \in Chains, m \in Terms :
             Runs(u, k, d, m)' =>
               \/ Runs(u, k, d, m)
               \/ u = t /\ k = Len(stack[t]) + 1 /\ d = c /\ m = b
    <2>1. stack \in [Threads -> Seq(Frame)] /\ Push(t, RangeFrame(c, b))
      BY DEF StartRange, TypeOK, Frame
    <2>2. /\ RangeFrame(c, b) \in Frame
          /\ \A d \in Chains, m \in Terms :
               RangeFrame(c, b) = RangeFrame(d, m) => d = c /\ m = b
      BY FrameTypes
    <2> QED
      BY <2>1, <2>2, PushTop
  <1>4. TypeOK'
    BY <1>2, <1>3 DEF StartRange, TypeOK, Frame
  <1>5. FramesOK'
    <2>1. \A u \in Threads, k \in Nat : ~Runs(u, k, c, b)
      BY DEF StartRange, FramesOK, UnderWay
    <2>2. UnderWay'
      <3> SUFFICES ASSUME NEW u \in Threads, NEW k \in Nat, NEW d \in Chains,
                          NEW m \in Terms, Runs(u, k, d, m)'
                   PROVE  /\ phase'[d] = "reducing" /\ Exists(d, m)'
                          /\ reducers'[d][m].upto # 0
        BY DEF UnderWay
      <3>1. phase' = phase /\ phase[c] = "reducing"
        BY DEF StartRange
      <3>2. CASE d = c /\ m = b
        BY <1>1, <1>2, <3>1, <3>2 DEF Exists
      <3>3. CASE ~(d = c /\ m = b)
        <4>1. phase[d] = "reducing" /\ Exists(d, m) /\ reducers[d][m].upto # 0
          BY <1>3, <3>3 DEF FramesOK, UnderWay
        <4>2. reducers'[d][m] = reducers[d][m]
          BY <1>2, <3>3
        <4> QED
          BY <3>1, <4>1, <4>2 DEF Exists
      <3> QED
        BY <3>2, <3>3
    <2>3. OnePlaceEach'
      <3> SUFFICES ASSUME NEW u \in Threads, NEW w \in Threads, NEW k \in Nat,
                          NEW j \in Nat, NEW d \in Chains, NEW m \in Terms,
                          Runs(u, k, d, m)', Runs(w, j, d, m)'
                   PROVE  u = w /\ k = j
        BY DEF OnePlaceEach
      <3>1. CASE d = c /\ m = b
        BY <1>3, <2>1, <3>1
      <3>2. CASE ~(d = c /\ m = b)
        BY <1>3, <3>2 DEF FramesOK, OnePlaceEach
      <3> QED
        BY <3>1, <3>2
    <2> QED
      BY <2>2, <2>3 DEF FramesOK
  <1>6. ASSUME NEW d \in Chains PROVE ChainOK(d)'
    <2>1. CASE d = c
      <3>1. /\ Apart(reducers'[c])
            /\ \A i \in Terms : RunIn(reducers'[c], i) <=> RunIn(reducers[c], i)
        BY <1>1, <1>2 DEF ChainOK, Apart, RunIn
      <3> QED
        BY <1>1, <1>2, <2>1, <3>1 DEF StartRange, ChainOK
    <2>2. CASE d # c
      BY <1>2, <2>2, SameChain DEF StartRange
    <2> QED
      BY <2>1, <2>2
  <1> QED
    BY <1>4, <1>5, <1>6

(* The end of a range, returned from or thrown out of, on the stacks.        *)
LEMMA RangePops ==
  ASSUME IInv, NEW t \in Threads, NEW c \in Chains, NEW b \in Terms,
         TopIs(t, RangeFrame(c, b)), Pop(t)
  PROVE  /\ stack' \in [Threads -> Seq(Frame)]
         /\ phase[c] = "reducing" /\ Exists(c, b) /\ reducers[c][b].upto # 0
         /\ \A u \in Threads, k \in Nat, d \in Chains, m \in Terms :
              Runs(u, k, d, m)' => Runs(u, k, d, m) /\ ~(d = c /\ m = b)
  <1> USE DEF IInv
  <1> DEFINE n == Len(stack[t])
  <1>1. stack \in [Threads -> Seq(Frame)]
    BY DEF TypeOK, Frame
  <1>2. n \in Nat /\ stack[t] # <<>> /\ Runs(t, n, c, b)
    BY <1>1, TopRuns DEF Runs
  <1>3. /\ stack' \in [Threads -> Seq(Frame)]
        /\ \A u \in Threads, k \in Nat, d \in Chains, m \in Terms :
             Runs(u, k, d, m)' => Runs(u, k, d, m) /\ ~(u = t /\ k = n)
    BY <1>1, <1>2, PopTop
  <1> HIDE DEF n
  <1>4. phase[c] = "reducing" /\ Exists(c, b) /\ reducers[c][b].upto # 0
    BY <1>2 DEF FramesOK, UnderWay
  <1>5. \A u \in Threads, k \in Nat : Runs(u, k, c, b) => u = t /\ k = n
    BY <1>2 DEF FramesOK, OnePlaceEach
  <1> QED
    BY <1>3, <1>4, <1>5

LEMMA EndRangeOK ==
  ASSUME IInv, NEW t \in Threads, NEW c \in Chains, NEW b \in Terms,
         EndRange(t, c, b)
  PROVE  IInv'
  <1> USE DEF IInv
  <1> DEFINE r == reducers[c][b]
             p == Ran(kind[c], r)
  <1>1. /\ stack' \in [Threads -> Seq(Frame)]
        /\ phase[c] = "reducing" /\ Exists(c, b) /\ r.upto # 0
        /\ \A u \in Threads, k \in Nat, d \in Chains, m \in Terms :
             Runs(u, k, d, m)' => Runs(u, k, d, m) /\ ~(d = c /\ m = b)
    BY RangePops DEF EndRange
  <1>2. /\ p \in Reducer /\ ReducerOK(kind[c], b, p)
        /\ p.last = r.last /\ p.next = r.upto + 1 /\ p.upto = 0
    <2>1. /\ kind[c] \in {"reduce_sum", "double", "map_rect"}
          /\ r \in Reducer /\ ReducerOK(kind[c], b, r) /\ r.last # 0
      <3>1. kind[c] \in {"reduce_sum", "double", "map_rect"}
        BY <1>1, ReduceSumAssumption DEF ChainOK
      <3>2. r \in Reducer /\ ReducerOK(kind[c], b, r)
        BY DEF TypeOK, ChainOK
      <3> QED
        BY <1>1, <3>1, <3>2 DEF Exists
    <2> DEFINE k == kind[c]
    <2> HIDE DEF r, k
    <2>2. /\ Ran(k, r) \in Reducer /\ ReducerOK(k, b, Ran(k, r))
          /\ Ran(k, r).last = r.last /\ Ran(k, r).next = r.upto + 1
          /\ Ran(k, r).upto = 0
      <3>1. /\ k \in {"reduce_sum", "double", "map_rect"} /\ ReducerOK(k, b, r)
            /\ r.upto # 0
        BY <1>1, <2>1 DEF k
      <3> QED
        BY <2>1, <3>1, RanOK
    <2> QED
      BY <2>2 DEF k
  <1> HIDE DEF p
  <1>3. /\ reducers' \in [Chains -> [Terms -> Reducer]]
        /\ reducers'[c][b] = p
        /\ \A m \in Terms \ {b} : reducers'[c][m] = reducers[c][m]
        /\ \A d \in Chains \ {c} : reducers'[d] = reducers[d]
    BY <1>2 DEF EndRange, TypeOK, p
  <1>4. /\ Apart(reducers'[c])
        /\ \A i \in Terms :
             /\ Part(r.next, r.upto)[i] = 1 =>
                  ~RunIn(reducers[c], i) /\ RunIn(reducers'[c], i)
             /\ Part(r.next, r.upto)[i] # 1 =>
                  /\ Part(r.next, r.upto)[i] = 0
                  /\ RunIn(reducers'[c], i) <=> RunIn(reducers[c], i)
    <2>1. /\ reducers[c] \in [Terms -> Reducer] /\ reducers'[c] \in [Terms -> Reducer]
          /\ \A m \in Terms : ReducerOK(kind[c], m, reducers[c][m])
          /\ Apart(reducers[c]) /\ r.last # 0
      BY <1>1, <1>3 DEF TypeOK, ChainOK, Exists
    <2>2. reducers'[c][b].last = r.last /\ reducers'[c][b].next = r.upto + 1
      BY <1>2, <1>3
    <2>3. Apart(reducers'[c])
      BY <1>3, <2>1, <2>2 DEF Apart
    <2>4. ASSUME NEW rs, rs = reducers[c], NEW ss, ss = reducers'[c],
                 NEW i \in Terms
          PROVE  /\ Part(r.next, r.upto)[i] = 1 => ~RunIn(rs, i) /\ RunIn(ss, i)
                 /\ Part(r.next, r.upto)[i] # 1 =>
                      /\ Part(r.next, r.upto)[i] = 0
                      /\ RunIn(ss, i) <=> RunIn(rs, i)
      <3>1. /\ rs \in [Terms -> Reducer] /\ ss \in [Terms -> Reducer]
            /\ \A m \in Terms : ReducerOK(kind[c], m, rs[m])
            /\ Apart(rs) /\ rs[b] = r
        BY <2>1, <2>4
      <3>2. /\ ss[b].last = rs[b].last /\ ss[b].next = rs[b].upto + 1
            /\ \A m \in Terms \ {b} : ss[m] = rs[m]
            /\ rs[b].last # 0 /\ rs[b].upto # 0
        BY <1>1, <1>3, <2>1, <2>2, <2>4
      <3> HIDE <2>4
      <3> HIDE DEF r
      <3> QED
        BY <3>1, <3>2, RunInAfterRange
    <2> QED
      BY <2>3, <2>4
  <1>5. /\ \A i \in Terms : partials'[c][i] =
               IF kind[c] # "double" /\ RunIn(reducers'[c], i) THEN 1 ELSE 0
        /\ partials' \in [Chains -> Counts]
        /\ \A d \in Chains \ {c} : partials'[d] = partials[d]
    <2>1. CASE kind[c] = "double"
      BY <2>1 DEF EndRange, TypeOK, ChainOK
    <2>2. CASE kind[c] # "double"
      <3> DEFINE sum == Plus(partials[c], Part(r.next, r.upto))
      <3>1. partials' = [partials EXCEPT ![c] = sum]
        BY <2>2 DEF EndRange, TypeOK
      <3>2. /\ \A i \in Terms :
                 sum[i] = IF RunIn(reducers'[c], i) THEN 1 ELSE 0
            /\ sum = [i \in Terms |-> sum[i]]
        BY <1>4, <2>2 DEF ChainOK, Plus
      <3> HIDE DEF sum
      <3>3. sum \in Counts
        BY <3>2 DEF Counts
      <3> QED
        BY <2>2, <3>1, <3>2, <3>3 DEF TypeOK
    <2> QED
      BY <2>1, <2>2
  <1>6. TypeOK'
    BY <1>1, <1>3, <1>5 DEF EndRange, TypeOK, Frame
  <1>7. FramesOK'
    <2>1. ASSUME NEW u \in Threads, NEW k \in Nat, NEW d \in Chains, NEW m \in Terms,
                 Runs(u, k, d, m)'
          PROVE  /\ Runs(u, k, d, m)
                 /\ phase'[d] = "reducing" /\ Exists(d, m)' /\ reducers'[d][m].upto # 0
      <3>1. /\ Runs(u, k, d, m) /\ ~(d = c /\ m = b)
            /\ phase[d] = "reducing" /\ Exists(d, m) /\ reducers[d][m].upto # 0
        BY <1>1, <2>1 DEF FramesOK, UnderWay
      <3>2. phase' = phase /\ reducers'[d][m] = reducers[d][m]
        BY <1>3, <3>1 DEF EndRange
      <3> QED
        BY <3>1, <3>2 DEF Exists
    <2> QED
      BY <2>1, FramesKept
  <1>8. ASSUME NEW d \in Chains PROVE ChainOK(d)'
    <2>1. CASE d = c
      <3>1. /\ kind'[c] = kind[c] /\ phase'[c] = "reducing" /\ kind[c] \in Kinds
        BY <1>1 DEF EndRange, ChainOK
      <3>2. \A m \in Terms : ReducerOK(kind[c], m, reducers'[c][m])
        BY <1>2, <1>3 DEF ChainOK
      <3> QED
        BY <1>4, <1>5, <2>1, <3>1, <3>2 DEF ChainOK
    <2>2. CASE d # c
      BY <1>3, <1>5, <2>2, SameChain DEF EndRange
    <2> QED
      BY <2>1, <2>2
  <1> QED
    BY <1>6, <1>7, <1>8

LEMMA RangeThrowsOK ==
  ASSUME IInv, NEW t \in Threads, NEW c \in Chains, NEW b \in Terms,
         RangeThrows(t, c, b)
  PROVE  IInv'
  <1> USE DEF IInv
  <1>1. /\ stack' \in [Threads -> Seq(Frame)]
        /\ \A u \in Threads, k \in Nat, d \in Chains, m \in Terms :
             Runs(u, k, d, m)' => Runs(u, k, d, m)
    BY RangePops DEF RangeThrows
  <1>2. TypeOK'
    BY <1>1 DEF RangeThrows, TypeOK, Frame
  <1>3. FramesOK'
    <2>1. phase' = phase /\ reducers' = reducers
      BY DEF RangeThrows
    <2>2. ASSUME NEW u \in Threads, NEW k \in Nat, NEW d \in Chains, NEW m \in Terms,
                 Runs(u, k, d, m)'
          PROVE  /\ Runs(u, k, d, m)
                 /\ phase'[d] = "reducing" /\ Exists(d, m)' /\ reducers'[d][m].upto # 0
      BY <1>1, <2>1, <2>2 DEF FramesOK, UnderWay, Exists
    <2> QED
      BY <2>2, FramesKept
  <1>4. \A d \in Chains : ChainOK(d)'
    BY SameChain DEF RangeThrows
  <1> QED
    BY <1>2, <1>3, <1>4

LEMMA SplitStepOK ==
  ASSUME IInv, NEW c \in Chains, NEW b \in Terms, NEW m \in Terms, Split(c, b, m)
  PROVE  IInv'
  <1> USE DEF IInv
  <1> DEFINE r == reducers[c][b]
             l == [r EXCEPT !.last = m - 1]
             f == Fresh(m, r.last)
  <1>1. /\ r \in Reducer /\ ReducerOK(kind[c], b, r)
        /\ r.last # 0 /\ r.next < m /\ r.upto < m /\ m <= r.last
    BY DEF Split, TypeOK, ChainOK, Exists
  <1>2. /\ l \in Reducer /\ ReducerOK(kind[c], b, l) /\ b < m /\ m - 1 # 0
        /\ f \in Reducer /\ ReducerOK(kind[c], m, f)
    BY <1>1, SplitOK
  <1>3. /\ l.last = m - 1 /\ l.next = r.next /\ l.upto = r.upto
        /\ f.last = r.last /\ f.next = m
    BY <1>1 DEF Reducer, Fresh
  <1>4. /\ reducers' \in [Chains -> [Terms -> Reducer]]
        /\ reducers'[c][b] = l /\ reducers'[c][m] = f
        /\ \A a \in Terms \ {b, m} : reducers'[c][a] = reducers[c][a]
        /\ \A d \in Chains \ {c} : reducers'[d] = reducers[d]
    <2>1. reducers' = [reducers EXCEPT ![c] = [@ EXCEPT ![b] = l, ![m] = f]]
      BY <1>2 DEF Split, TypeOK, Terms
    <2> DEFINE rs == reducers[c]
               ss == [rs EXCEPT ![b] = l, ![m] = f]
    <2>2. rs \in [Terms -> Reducer] /\ b # m
      BY <1>2 DEF TypeOK, Terms
    <2> HIDE DEF l, f, rs
    <2>3. /\ ss \in [Terms -> Reducer] /\ ss[b] = l /\ ss[m] = f
          /\ \A a \in Terms \ {b, m} : ss[a] = rs[a]
      BY <1>2, <2>2
    <2>4. reducers' = [reducers EXCEPT ![c] = ss]
      BY <2>1 DEF rs, TypeOK
    <2> HIDE DEF ss
    <2> QED
      BY <2>3, <2>4 DEF TypeOK, rs
  <1> HIDE DEF l, f
  <1>5. /\ Apart(reducers'[c]) /\ reducers[c][m].last = 0
        /\ \A i \in Terms : RunIn(reducers'[c], i) <=> RunIn(reducers[c], i)
    <2>1. /\ reducers[c] \in [Terms -> Reducer] /\ reducers'[c] \in [Terms -> Reducer]
          /\ Apart(reducers[c])
      BY <1>4 DEF TypeOK, ChainOK
    <2> DEFINE rs == reducers[c]
               ss == reducers'[c]
    <2>2. /\ rs[b].last # 0 /\ m <= rs[b].last /\ b < m
          /\ \A a \in Terms \ {b, m} : ss[a] = rs[a]
          /\ ss[b].last = m - 1 /\ ss[b].next = rs[b].next
          /\ ss[m].last = rs[b].last /\ ss[m].next = m
      BY <1>1, <1>2, <1>3, <1>4
    <2>3. rs \in [Terms -> Reducer] /\ ss \in [Terms -> Reducer] /\ Apart(rs)
      BY <2>1
    <2> HIDE DEF rs, ss
    <2>4. Apart(ss) /\ rs[m].last = 0 /\ \A i \in Terms : RunIn(ss, i) <=> RunIn(rs, i)
      BY <2>2, <2>3, RunInAfterSplit
    <2> QED
      BY <2>4 DEF rs, ss
  <1>6. TypeOK'
    BY <1>4 DEF Split, TypeOK
  <1>7. FramesOK'
    <2>1. ASSUME NEW d \in Chains, NEW a \in Terms, phase[d] = "reducing",
                 Exists(d, a), reducers[d][a].upto # 0
          PROVE  phase'[d] = "reducing" /\ Exists(d, a)' /\ reducers'[d][a].upto # 0
      <3>1. ~(d = c /\ a = m)
        BY <1>5, <2>1 DEF Exists
      <3>2. CASE d = c /\ a = b
        <4>1. phase' = phase /\ r.upto # 0
          BY <2>1, <3>2 DEF Split
        <4> QED
          BY <1>2, <1>3, <1>4, <2>1, <3>2, <4>1 DEF Exists
      <3>3. CASE ~(d = c /\ a = b)
        BY <1>4, <2>1, <3>1, <3>3 DEF Split, Exists
      <3> QED
        BY <3>2, <3>3
    <2>2. FramesOK /\ stack' = stack
      BY DEF Split
    <2> HIDE DEF IInv, r
    <2> QED
      BY <2>1, <2>2, SameFrames
  <1>8. ASSUME NEW d \in Chains PROVE ChainOK(d)'
    <2>1. CASE d = c
      <3>1. /\ kind'[c] = kind[c] /\ phase'[c] = "reducing" /\ kind[c] \in Kinds
            /\ partials' = partials
        BY DEF Split, ChainOK
      <3>2. \A a \in Terms : ReducerOK(kind[c], a, reducers'[c][a])
        BY <1>2, <1>4 DEF ChainOK
      <3> QED
        BY <1>5, <2>1, <3>1, <3>2 DEF ChainOK
    <2>2. CASE d # c
      BY <1>4, <2>2, SameChain DEF Split
    <2> QED
      BY <2>1, <2>2
  <1> QED
    BY <1>6, <1>7, <1>8

LEMMA JoinStepOK ==
  ASSUME IInv, NEW c \in Chains, NEW b \in Terms, NEW m \in Terms, Join(c, b, m)
  PROVE  IInv'
  <1> USE DEF IInv
  <1> DEFINE rs == reducers[c]
             l == rs[b]
             r == rs[m]
             j == Joined(l, r)
             ss == [rs EXCEPT ![b] = j, ![m] = Absent]
  <1>1. /\ rs \in [Terms -> Reducer] /\ l \in Reducer /\ r \in Reducer
        /\ ReducerOK(kind[c], b, l) /\ ReducerOK(kind[c], m, r)
        /\ l.last # 0 /\ r.last # 0 /\ m = l.last + 1
        /\ l.next = l.last + 1 /\ r.next = r.last + 1
        /\ m <= r.last
    BY DEF Join, TypeOK, ChainOK, Exists, HasRun, ReducerOK
  <1>2. /\ j \in Reducer /\ ReducerOK(kind[c], b, j) /\ b < m
        /\ l.upto = 0 /\ r.upto = 0
        /\ j.last = r.last /\ j.next = r.next
    <2> DEFINE k == kind[c]
    <2>1. ReducerOK(k, b, l) /\ ReducerOK(k, m, r)
      BY <1>1
    <2> HIDE DEF rs, l, r, k
    <2>2. /\ Joined(l, r) \in Reducer /\ ReducerOK(k, b, Joined(l, r)) /\ b < m
          /\ l.upto = 0 /\ r.upto = 0
          /\ Joined(l, r).last = r.last /\ Joined(l, r).next = r.next
      BY <1>1, <2>1, JoinOK
    <2> QED
      BY <2>2 DEF k
  <1>4. /\ Absent \in Reducer /\ ReducerOK(kind[c], m, Absent) /\ Absent.last = 0
    <2>1. m <= m
      BY DEF Terms
    <2> QED
      BY <2>1, FreshOK DEF Absent, Fresh
  <1>5. reducers' = [reducers EXCEPT ![c] = ss]
    BY <1>2 DEF Join, TypeOK, Terms
  <1> HIDE DEF l, r, j
  <1>6. /\ ss \in [Terms -> Reducer] /\ ss[b] = j /\ ss[m] = Absent
        /\ \A a \in Terms \ {b, m} : ss[a] = rs[a]
    <2>1. b # m
      BY <1>2 DEF Terms
    <2> QED
      BY <1>1, <1>2, <1>4, <2>1
  <1> HIDE DEF ss
  <1>7. Apart(ss) /\ \A i \in Terms : RunIn(ss, i) <=> RunIn(rs, i)
    <2>1. /\ Apart(rs) /\ rs[b].last # 0 /\ rs[m].last # 0 /\ m = rs[b].last + 1
          /\ m <= rs[m].last /\ rs[b].next = m /\ rs[m].next = rs[m].last + 1
      BY <1>1 DEF ChainOK, l, r
    <2>2. ss[b].last = rs[m].last /\ ss[b].next = rs[m].next /\ ss[m].last = 0
      BY <1>2, <1>4, <1>6 DEF r
    <2> HIDE DEF rs
    <2> QED
      BY <1>1, <1>2, <1>6, <2>1, <2>2, RunInAfterJoin
  <1>8. /\ reducers' \in [Chains -> [Terms -> Reducer]] /\ reducers'[c] = ss
        /\ \A d \in Chains \ {c} : reducers'[d] = reducers[d]
    BY <1>5, <1>6 DEF TypeOK
  <1>9. TypeOK'
    BY <1>8 DEF Join, TypeOK
  <1>10. FramesOK'
    <2>1. ASSUME NEW d \in Chains, NEW a \in Terms, phase[d] = "reducing",
                 Exists(d, a), reducers[d][a].upto # 0
          PROVE  phase'[d] = "reducing" /\ Exists(d, a)' /\ reducers'[d][a].upto # 0
      <3>1. ~(d = c /\ a \in {b, m})
        BY <1>2, <2>1 DEF l, r
      <3>2. reducers'[d][a] = reducers[d][a]
        BY <1>6, <1>8, <3>1
      <3>3. phase' = phase
        BY DEF Join
      <3> QED
        BY <2>1, <3>2, <3>3 DEF Exists
    <2> QED
      BY <2>1, SameFrames DEF Join
  <1>11. ASSUME NEW d \in Chains PROVE ChainOK(d)'
    <2>1. CASE d = c
      <3>1. /\ kind'[c] = kind[c] /\ phase'[c] = "reducing" /\ kind[c] \in Kinds
            /\ partials' = partials
        BY DEF Join, ChainOK
      <3>2. \A a \in Terms : ReducerOK(kind[c], a, reducers'[c][a])
        BY <1>2, <1>4, <1>6, <1>8 DEF ChainOK
      <3>3. \A i \in Terms : RunIn(reducers'[c], i) <=> RunIn(reducers[c], i)
        BY <1>7, <1>8
      <3> QED
        BY <1>7, <1>8, <2>1, <3>1, <3>2, <3>3 DEF ChainOK
    <2>2. CASE d # c
      BY <1>8, <2>2, SameChain DEF Join
    <2> QED
      BY <2>1, <2>2
  <1> QED
    BY <1>9, <1>10, <1>11

(* When the first reducer has run all terms no range is under way.           *)
LEMMA ReturnOK ==
  ASSUME IInv, NEW t \in Threads, NEW c \in Chains, Return(t, c)
  PROVE  IInv'
  <1> USE DEF IInv
  <1>1. TypeOK'
    BY DEF Return, TypeOK, call
  <1>2. FramesOK'
    <2>1. ASSUME NEW b \in Terms, Exists(c, b) PROVE reducers[c][b].upto = 0
      <3>1. /\ reducers[c][1].last = N /\ reducers[c][1].next = N + 1 /\ N # 0
            /\ 1 \in Terms /\ reducers[c][b].last \in 0 .. N
            /\ reducers[c][b].next \in Int /\ reducers[c][b].upto \in Int
        <4>1. reducers[c][1].last = N /\ reducers[c][1].next = N + 1
          BY DEF Return, HasRun
        <4>2. N # 0 /\ 1 \in Terms
          BY ReduceSumAssumption DEF Terms
        <4>3. reducers[c][b] \in Reducer
          BY DEF TypeOK
        <4> QED
          BY <4>1, <4>2, <4>3, ReduceSumAssumption DEF Reducer
      <3>2. b = 1
        BY <2>1, <3>1, ReduceSumAssumption DEF ChainOK, Apart, Exists, Terms
      <3> QED
        BY <2>1, <3>1, <3>2, ReduceSumAssumption DEF ChainOK, ReducerOK, Exists
    <2> QED
      BY <2>1, SameFrames DEF Return, TypeOK, Exists, call
  <1>3. ASSUME NEW d \in Chains PROVE ChainOK(d)'
    <2>1. CASE d = c
      BY <2>1 DEF Return, Waits, ChainOK, TypeOK, Exists, HasRun, call
    <2>2. CASE d # c
      BY <2>2, SameChain DEF Return, TypeOK, call
    <2> QED
      BY <2>1, <2>2
  <1> QED
    BY <1>1, <1>2, <1>3

LEMMA RethrowOK ==
  ASSUME IInv, NEW t \in Threads, NEW c \in Chains, Rethrow(t, c)
  PROVE  IInv'
  <1> USE DEF IInv
  <1>1. TypeOK'
    BY DEF Rethrow, TypeOK, call
  <1>2. FramesOK'
    <2>1. \A u \in Threads, k \in Nat, b \in Terms : ~Runs(u, k, c, b)
      BY DEF Rethrow, Runs
    <2>2. \A d \in Chains \ {c} : phase'[d] = phase[d]
      BY DEF Rethrow, TypeOK
    <2> QED
      BY <2>1, <2>2, SameFrames DEF Rethrow, Exists, call
  <1>3. ASSUME NEW d \in Chains PROVE ChainOK(d)'
    <2>1. CASE d = c
      BY <2>1 DEF Rethrow, ChainOK, TypeOK, Exists, HasRun, call
    <2>2. CASE d # c
      BY <2>2, SameChain DEF Rethrow, TypeOK, call
    <2> QED
      BY <2>1, <2>2
  <1> QED
    BY <1>1, <1>2, <1>3

(* The end of a chain, or of a call of a range.                              *)
LEMMA EndsOK ==
  ASSUME IInv, NEW t \in Threads, NEW c \in Chains, Ends(t, c),
         tape' \in [Threads -> Seq(Chains)]
  PROVE  IInv'
  <1> USE DEF IInv
  <1>1. /\ stack' \in [Threads -> Seq(Frame)]
        /\ \A u \in Threads, k \in Nat, d \in Chains, b \in Terms :
             Runs(u, k, d, b)' => Runs(u, k, d, b)
    <2>1. stack \in [Threads -> Seq(Frame)] /\ stack[t] # <<>> /\ Pop(t)
      BY DEF Ends, TypeOK, Frame, TopIs
    <2> QED
      BY <2>1, PopTop
  <1>2. /\ \A b \in Terms : \A k : Absent \in Reducer /\ ReducerOK(k, b, Absent)
        /\ Absent.last = 0 /\ Zeros \in Counts
    <2>1. ASSUME NEW b \in Terms, NEW k PROVE Absent \in Reducer /\ ReducerOK(k, b, Absent)
      <3> b <= b
        BY DEF Terms
      <3> QED
        BY FreshOK
    <2> QED
      BY <2>1 DEF Absent, Fresh, Zeros, Counts
  <1>3. TypeOK'
    <2>1. reducers' \in [Chains -> [Terms -> Reducer]]
      BY <1>2 DEF Ends, Forgets, TypeOK
    <2> QED
      BY <1>1, <1>2, <2>1 DEF Ends, Forgets, TypeOK, Frame
  <1>4. FramesOK'
    <2>1. ASSUME NEW u \in Threads, NEW k \in Nat, NEW d \in Chains, NEW b \in Terms,
                 Runs(u, k, d, b)'
          PROVE  /\ Runs(u, k, d, b)
                 /\ phase'[d] = "reducing" /\ Exists(d, b)' /\ reducers'[d][b].upto # 0
      <3>1. /\ Runs(u, k, d, b)
            /\ phase[d] = "reducing" /\ Exists(d, b) /\ reducers[d][b].upto # 0
        BY <1>1, <2>1 DEF FramesOK, UnderWay
      <3>2. d # c
        BY <3>1 DEF Ends
      <3>3. phase'[d] = phase[d] /\ reducers'[d] = reducers[d]
        BY <3>2 DEF Ends, Forgets, TypeOK
      <3> QED
        BY <3>1, <3>3 DEF Exists
    <2> QED
      BY <2>1, FramesKept
  <1>5. ASSUME NEW d \in Chains PROVE ChainOK(d)'
    <2>1. CASE d = c
      <3>1. /\ phase'[c] = "idle" /\ kind'[c] = "none"
            /\ reducers'[c] = [b \in Terms |-> Absent]
            /\ partials'[c] = Zeros
        BY DEF Ends, Forgets, TypeOK
      <3> QED
        BY <1>2, <2>1, <3>1 DEF ChainOK, Apart, RunIn, Exists, Zeros
    <2>2. CASE d # c
      BY <2>2, SameChain DEF Ends, Forgets, TypeOK
    <2> QED
      BY <2>1, <2>2
  <1> QED
    BY <1>3, <1>4, <1>5

LEMMA EndChainOK ==
  ASSUME IInv, NEW t \in Threads, NEW c \in Chains, EndChain(t, c) \/ EndCall(t, c)
  PROVE  IInv'
  <1>1. tape' \in [Threads -> Seq(Chains)]
    BY EmptySeq DEF EndChain, EndCall, IInv, TypeOK
  <1>2. Ends(t, c)
    BY DEF EndChain, EndCall
  <1> QED
    BY <1>1, <1>2, EndsOK

LEMMA Stutters == IInv /\ UNCHANGED vars => IInv'
  <1> SUFFICES ASSUME IInv, UNCHANGED vars PROVE IInv'
    OBVIOUS
  <1>1. TypeOK'
    BY DEF IInv, vars, call, TypeOK
  <1>2. FramesOK'
    BY SameFrames DEF IInv, vars, call, Exists
  <1>3. \A c \in Chains : ChainOK(c)'
    BY SameChain DEF IInv, vars, call
  <1> QED
    BY <1>1, <1>2, <1>3 DEF IInv

LEMMA Inductive == IInv /\ [Next]_vars => IInv'
  <1> SUFFICES ASSUME IInv, Next PROVE IInv'
    BY Stutters
  <1>1. ASSUME NEW t \in Threads, NEW c \in Chains,
               \/ BeginChain(t, c)
               \/ \E k \in Kinds : Call(t, c, k) \/ CallInRange(t, c, k)
               \/ Work(t, c) \/ EndChain(t, c)
        PROVE  IInv'
    BY <1>1, BeginChainOK, CallOK, CallInRangeOK, StartRangeOK, EndRangeOK,
       RangeThrowsOK, ReturnOK, RethrowOK, EndChainOK DEF Work, LeaveRange
  <1>2. ASSUME NEW c \in Chains, NEW b \in Terms, NEW m \in Terms,
               Split(c, b, m) \/ Join(c, b, m)
        PROVE  IInv'
    BY <1>2, SplitStepOK, JoinStepOK
  <1> QED
    BY <1>1, <1>2 DEF Next
-----------------------------------------------------------------------------
(* Every reachable state is well typed; in particular no term is ever        *)
(* counted twice, in a sum, an adjoint or a partial, by any reducer.         *)
THEOREM TypeCorrect == Spec => []TypeOK
  <1>1. IInv => TypeOK
    BY DEF IInv
  <1> QED
    BY <1>1, InitOK, Inductive, PTL DEF Spec

(* A call that returns holds every term once, for any number of terms,       *)
(* threads and chains, whatever was split, run, joined or thrown elsewhere.  *)
THEOREM SumIsComplete == Spec => []ReducesToTheSum
  <1>1. IInv => ReducesToTheSum
    <2> SUFFICES ASSUME IInv, NEW c \in Chains, phase[c] = "reduced"
                 PROVE  /\ kind[c] # "map_rect" => reducers[c][1].sum_ = Once
                        /\ kind[c] # "double" => partials[c] = Once
                        /\ kind[c] = "reduce_sum" => reducers[c][1].args_adjoints_ = Once
      BY DEF ReducesToTheSum
    <2> DEFINE r == reducers[c][1]
    <2>1. /\ r.last = N /\ r.next = N + 1 /\ N # 0 /\ 1 \in Terms
          /\ r \in Reducer /\ ReducerOK(kind[c], 1, r)
      BY ReduceSumAssumption DEF IInv, TypeOK, ChainOK, HasRun, Terms
    <2>2. Part(1, N) = Once
      BY ReduceSumAssumption DEF Part, Once, Terms
    <2>3. ASSUME kind[c] # "double" PROVE partials[c] = Once
      <3>1. \A i \in Terms : RunIn(reducers[c], i)
        BY <2>1, ReduceSumAssumption DEF RunIn, Terms
      <3>2. \A i \in Terms : partials[c][i] = 1
        BY <2>3, <3>1 DEF IInv, ChainOK
      <3> QED
        BY <3>2 DEF IInv, TypeOK, Counts, Once
    <2>4. /\ kind[c] # "map_rect" => r.sum_ = Part(1, N)
          /\ kind[c] = "reduce_sum" => r.args_adjoints_ = Part(1, N)
      BY <2>1, AllRun
    <2> QED
      BY <2>2, <2>3, <2>4
  <1> QED
    BY <1>1, InitOK, Inductive, PTL DEF Spec
-----------------------------------------------------------------------------
LEMMA ShapeOfNone == Shape(<<>>, <<>>)
  <1>1. Len(<<>>) = 0
    OBVIOUS
  <1> QED
    BY <1>1 DEF Shape

LEMMA ShapeOfOne ==
  ASSUME NEW f
  PROVE  /\ f.term = 0 => Shape(Append(<<>>, f), <<f.chain>>)
         /\ f.term # 0 => Shape(Append(<<>>, f), <<>>)
  <1>1. Append(<<>>, f) = <<f>> /\ <<f>> # <<>> /\ <<f>>[1] = f /\ Len(<<f>>) = 1
    OBVIOUS
  <1> QED
    BY <1>1 DEF Shape

(* A range may be put on anything, a call on a range.                        *)
LEMMA ShapePushed ==
  ASSUME NEW s \in Seq(Frame), s # <<>>, NEW v, Shape(s, v), NEW f \in Frame,
         f.term = 0 => s[Len(s)].term # 0
  PROVE  Shape(Append(s, f), v)
  <1> DEFINE q == Append(s, f)
  <1>1. /\ q \in Seq(Frame) /\ Len(q) = Len(s) + 1 /\ q[Len(q)] = f
        /\ \A k \in 1 .. Len(s) : q[k] = s[k]
        /\ Len(s) \in Nat \ {0}
    BY AppendProperties, EmptySeq, LenProperties
  <1>2. q # <<>>
    BY <1>1, EmptySeq
  <1> HIDE DEF q
  <1>3. q[1] = s[1]
    BY <1>1
  <1>4. ASSUME NEW k \in 2 .. Len(q), q[k].term = 0 PROVE q[k - 1].term # 0
    <2>1. CASE k = Len(q)
      BY <1>1, <1>4, <2>1
    <2>2. CASE k # Len(q)
      <3>1. k \in 2 .. Len(s) /\ q[k] = s[k] /\ q[k - 1] = s[k - 1]
        BY <1>1, <2>2
      <3> QED
        BY <1>4, <3>1 DEF Shape
    <2> QED
      BY <2>1, <2>2
  <1>5. v = IF s[1].term = 0 THEN <<s[1].chain>> ELSE <<>>
    BY DEF Shape
  <1>6. Shape(q, v)
    BY <1>2, <1>3, <1>4, <1>5 DEF Shape
  <1> QED
    BY <1>6 DEF q

LEMMA ShapePopped ==
  ASSUME NEW s \in Seq(Frame), s # <<>>, NEW v, Shape(s, v)
  PROVE  LET q == SubSeq(s, 1, Len(s) - 1)
         IN  /\ Len(s) = 1 => q = <<>>
             /\ Len(s) # 1 => Shape(q, v)
  <1> DEFINE q == SubSeq(s, 1, Len(s) - 1)
  <1>1. /\ q \in Seq(Frame) /\ Len(q) = Len(s) - 1 /\ Len(s) \in Nat \ {0}
        /\ \A k \in 1 .. Len(s) - 1 : q[k] = s[k]
    BY Popped, EmptySeq, LenProperties
  <1> HIDE DEF q
  <1>2. Len(s) = 1 => q = <<>>
    BY <1>1, EmptySeq
  <1>3. ASSUME Len(s) # 1 PROVE Shape(q, v)
    <2>1. q # <<>> /\ q[1] = s[1]
      BY <1>1, <1>3, EmptySeq
    <2>2. \A k \in 2 .. Len(q) : q[k].term = 0 => q[k - 1].term # 0
      <3>1. \A k \in 2 .. Len(q) :
              k \in 2 .. Len(s) /\ q[k] = s[k] /\ q[k - 1] = s[k - 1]
        BY <1>1
      <3> QED
        BY <3>1 DEF Shape
    <2>3. v = IF s[1].term = 0 THEN <<s[1].chain>> ELSE <<>>
      BY DEF Shape
    <2> QED
      BY <2>1, <2>2, <2>3 DEF Shape
  <1> QED
    BY <1>2, <1>3 DEF q

(* With isolation a thread takes a task when it has nothing to do, or one of *)
(* the call it waits for.                                                    *)
LEMMA Takes ==
  ASSUME Kinds \subseteq {"reduce_sum", "map_rect"}, IInv, NEW t \in Threads,
         MayTakeAny(t)
  PROVE  stack[t] = <<>>
  <1>1. \A d \in Chains : Waits(t, d) => Isolates(d)
    BY DEF IInv, ChainOK, Waits, Isolates
  <1> QED
    BY <1>1 DEF MayTakeAny

LEMMA ShapesKept ==
  ASSUME Kinds \subseteq {"reduce_sum", "map_rect"}, IInv, Shapes, [Next]_vars
  PROVE  Shapes'
  <1> USE DEF Shapes
  <1>0. /\ stack \in [Threads -> Seq(Frame)] /\ tape \in [Threads -> Seq(Chains)]
        /\ \A t \in Threads : Shape(stack[t], tape[t])
        /\ \A t \in Threads : stack[t] = <<>> => tape[t] = <<>>
    BY DEF IInv, TypeOK, Frame, Shape
  <1>1. ASSUME NEW t \in Threads, NEW s, NEW v, Shape(s, v),
               stack' = [stack EXCEPT ![t] = s], tape' = [tape EXCEPT ![t] = v]
        PROVE  Shapes'
    BY <1>0, <1>1
  <1>2. ASSUME NEW t \in Threads, NEW s, Shape(s, tape[t]),
               stack' = [stack EXCEPT ![t] = s], tape' = tape
        PROVE  Shapes'
    BY <1>0, <1>2
  <1>3. CASE UNCHANGED <<stack, tape>>
    BY <1>3
  <1>4. ASSUME NEW t \in Threads, NEW c \in Chains, BeginChain(t, c) PROVE Shapes'
    <2>1. stack[t] = <<>> /\ tape[t] = <<>>
      BY <1>0, <1>4, Takes DEF BeginChain
    <2>2. /\ stack' = [stack EXCEPT ![t] = Append(<<>>, ChainFrame(c))]
          /\ tape' = [tape EXCEPT ![t] = Append(<<>>, c)]
      BY <1>0, <1>4, <2>1 DEF BeginChain, Push
    <2>3. ChainFrame(c).term = 0 /\ ChainFrame(c).chain = c /\ Append(<<>>, c) = <<c>>
      BY DEF ChainFrame
    <2>4. Shape(Append(<<>>, ChainFrame(c)), <<c>>)
      BY <2>3, ShapeOfOne
    <2> QED
      BY <1>1, <2>2, <2>3, <2>4
  <1>5. ASSUME NEW t \in Threads, NEW c \in Chains, NEW b \in Terms,
               NEW upto \in Terms, StartRange(t, c, b, upto)
        PROVE  Shapes'
    <2>1. /\ stack' = [stack EXCEPT ![t] = Append(stack[t], RangeFrame(c, b))]
          /\ tape' = tape
      BY <1>5 DEF StartRange, Push
    <2>2. RangeFrame(c, b) \in Frame /\ RangeFrame(c, b).term # 0
      BY FrameTypes
    <2>3. Shape(Append(stack[t], RangeFrame(c, b)), tape[t])
      <3>1. CASE stack[t] = <<>>
        BY <1>0, <2>2, <3>1, ShapeOfOne
      <3>2. CASE stack[t] # <<>>
        BY <1>0, <2>2, <3>2, ShapePushed
      <3> QED
        BY <3>1, <3>2
    <2> QED
      BY <1>2, <2>1, <2>3
  <1>6. ASSUME NEW t \in Threads, NEW c \in Chains, NEW k \in Kinds, CallInRange(t, c, k)
        PROVE  Shapes'
    <2>1. /\ stack' = [stack EXCEPT ![t] = Append(stack[t], ChainFrame(c))]
          /\ tape' = tape
          /\ stack[t] # <<>> /\ stack[t][Len(stack[t])].term # 0
      BY <1>6 DEF CallInRange, Reduces, Push, Top
    <2>2. ChainFrame(c) \in Frame
      BY ReduceSumAssumption DEF ChainFrame, Frame
    <2>3. Shape(Append(stack[t], ChainFrame(c)), tape[t])
      BY <1>0, <2>1, <2>2, ShapePushed
    <2> QED
      BY <1>2, <2>1, <2>3
  <1>7. ASSUME NEW t \in Threads, NEW f, TopIs(t, f), Pop(t),
               tape' = tape, Len(stack[t]) = 1 => f.term # 0
        PROVE  Shapes'
    <2>1. stack' = [stack EXCEPT ![t] = SubSeq(stack[t], 1, Len(stack[t]) - 1)]
      BY <1>7 DEF Pop
    <2>2. stack[t] # <<>> /\ stack[t][Len(stack[t])] = f
      BY <1>7 DEF TopIs, Top
    <2>3. CASE Len(stack[t]) = 1
      <3>1. SubSeq(stack[t], 1, Len(stack[t]) - 1) = <<>>
        BY <1>0, <2>2, <2>3, ShapePopped
      <3>2. tape[t] = <<>>
        BY <1>0, <1>7, <2>2, <2>3 DEF Shape
      <3> QED
        BY <1>2, <1>7, <2>1, <3>1, <3>2, ShapeOfNone
    <2>4. CASE Len(stack[t]) # 1
      <3>1. Shape(SubSeq(stack[t], 1, Len(stack[t]) - 1), tape[t])
        BY <1>0, <2>2, <2>4, ShapePopped
      <3> QED
        BY <1>2, <1>7, <2>1, <3>1
    <2> QED
      BY <2>3, <2>4
  <1>8. ASSUME NEW t \in Threads, NEW c \in Chains, EndChain(t, c) PROVE Shapes'
    <2>1. /\ stack' = [stack EXCEPT ![t] = SubSeq(stack[t], 1, Len(stack[t]) - 1)]
          /\ tape' = [tape EXCEPT ![t] = <<>>]
          /\ stack[t] # <<>> /\ stack[t][Len(stack[t])].term = 0
          /\ ~InRange(t, Len(stack[t]))
      BY <1>8 DEF EndChain, Ends, Pop, TopIs, Top, ChainFrame
    <2>2. Len(stack[t]) = 1
      <3>1. Len(stack[t]) \in Nat \ {0}
        BY <1>0, <2>1, EmptySeq, LenProperties
      <3> QED
        BY <1>0, <2>1, <3>1 DEF Shape, InRange
    <2>3. SubSeq(stack[t], 1, Len(stack[t]) - 1) = <<>>
      BY <1>0, <2>1, <2>2, ShapePopped
    <2> QED
      BY <1>1, <2>1, <2>3, ShapeOfNone
  <1>9. ASSUME NEW t \in Threads, NEW c \in Chains, EndCall(t, c) PROVE Shapes'
    <2>1. TopIs(t, ChainFrame(c)) /\ Pop(t) /\ tape' = tape /\ Len(stack[t]) > 1
      BY <1>9 DEF EndCall, Ends, InRange
    <2>2. Len(stack[t]) = 1 => ChainFrame(c).term # 0
      BY <2>1
    <2> QED
      BY <1>7, <2>1, <2>2
  <1>10. ASSUME NEW t \in Threads, NEW c \in Chains, LeaveRange(t, c) PROVE Shapes'
    <2>1. PICK b \in Terms : EndRange(t, c, b) \/ RangeThrows(t, c, b)
      BY <1>10 DEF LeaveRange
    <2>2. TopIs(t, RangeFrame(c, b)) /\ Pop(t) /\ tape' = tape
      BY <2>1 DEF EndRange, RangeThrows
    <2> QED
      BY <1>7, <2>2, FrameTypes
  <1> QED
    <2>1. ASSUME NEW t \in Threads, NEW c \in Chains, Work(t, c) PROVE Shapes'
      <3>1. CASE Return(t, c) \/ Rethrow(t, c)
        BY <1>3, <3>1 DEF Return, Rethrow
      <3> QED
        BY <1>5, <1>9, <1>10, <2>1, <3>1 DEF Work
    <2>2. ASSUME NEW t \in Threads, NEW c \in Chains, NEW k \in Kinds, Call(t, c, k)
          PROVE  Shapes'
      BY <1>3, <2>2 DEF Call, Reduces
    <2>3. ASSUME NEW c \in Chains, NEW b \in Terms, NEW m \in Terms,
                 Split(c, b, m) \/ Join(c, b, m)
          PROVE  Shapes'
      BY <1>3, <2>3 DEF Split, Join
    <2>4. UNCHANGED vars => Shapes'
      BY <1>3 DEF vars
    <2> HIDE DEF Shapes
    <2> QED
      BY <1>4, <1>6, <1>8, <2>1, <2>2, <2>3, <2>4 DEF Next

(* When every parallel call isolates its wait, as those for var and map_rect *)
(* do, no chain's varis ever meet another chain's on a tape: for any number  *)
(* of threads and chains, on however many levels ranges call, and whatever   *)
(* the scheduler hands out.                                                  *)
THEOREM TapeIsOneChains ==
  ASSUME Kinds \subseteq {"reduce_sum", "map_rect"}
  PROVE  Spec => []TapeServesOneChain
  <1>1. Init => Shapes
    <2> SUFFICES ASSUME Init, NEW t \in Threads PROVE Shape(stack[t], tape[t])
      BY DEF Shapes
    <2>1. stack[t] = <<>> /\ tape[t] = <<>>
      BY DEF Init
    <2> QED
      BY <2>1, ShapeOfNone
  <1>2. IInv /\ Shapes /\ [Next]_vars => Shapes'
    BY ShapesKept
  <1>3. IInv /\ Shapes => TapeServesOneChain
    <2> SUFFICES ASSUME IInv, Shapes, NEW t \in Threads, NEW c \in Chains,
                        NEW k \in DOMAIN stack[t], stack[t][k] = ChainFrame(c),
                        ~InRange(t, k)
                 PROVE  tape[t] = <<c>>
      BY DEF TapeServesOneChain
    <2>1. /\ Shape(stack[t], tape[t]) /\ stack[t] \in Seq(Frame)
          /\ Len(stack[t]) \in Nat /\ k \in 1 .. Len(stack[t]) /\ stack[t] # <<>>
      <3>1. Shape(stack[t], tape[t]) /\ stack[t] \in Seq(Frame)
        BY DEF Shapes, IInv, TypeOK, Frame
      <3>2. Len(stack[t]) \in Nat /\ k \in 1 .. Len(stack[t])
        BY <3>1, LenProperties
      <3>3. Len(stack[t]) # 0
        BY <3>2
      <3> QED
        BY <3>1, <3>2, <3>3, EmptySeq
    <2>2. stack[t][k].term = 0 /\ stack[t][k].chain = c
      BY DEF ChainFrame
    <2>3. k = 1
      BY <2>1, <2>2 DEF Shape, InRange
    <2> QED
      BY <2>1, <2>2, <2>3 DEF Shape
  <1> QED
    BY <1>1, <1>2, <1>3, InitOK, Inductive, PTL DEF Spec
=============================================================================
