------------------------------ MODULE MapReduce -----------------------------
(***************************************************************************)
(* What a distributed map_rect promises its caller, with no processes, no  *)
(* messages and no caches: the outputs of all jobs in the order of the     *)
(* jobs, or an error if a job threw or returned another number of outputs  *)
(* than in the first evaluation that went well; and an answer, always.     *)
(***************************************************************************)
EXTENDS Integers, Sequences, SequencesExt

CONSTANTS
  Throws,     \* the outcome of a job that throws, not a natural number
  Evaluations, \* the lists of jobs the program may pass, as their outcomes in
               \* the caller's own process
  NoRequest   \* no evaluation is under way

VARIABLES
  request,    \* the evaluation under way: a record with "outcome", one per job
  answer,     \* what the last call gave
  known       \* sizes of the outputs of the first good evaluation, <<>> before

vars == <<request, answer, known>>

NoAnswer == [is |-> "none",    columns |-> <<>>]
Error    == [is |-> "error",   columns |-> <<>>]
Refused  == [is |-> "refused", columns |-> <<>>]

\* The columns job j contributes: one per output.
Columns(j, size) == [k \in 1..size |-> <<j, k>>]

Outputs(outcome) ==
  [is |-> "columns",
   columns |-> FlattenSeq([j \in 1..Len(outcome) |-> Columns(j, outcome[j])])]

Succeeds(outcome) == \A j \in 1..Len(outcome) : outcome[j] # Throws

Init == request = NoRequest /\ answer = NoAnswer /\ known = <<>>

\* The caller hands over jobs.
Start ==
  /\ request = NoRequest
  /\ request' # NoRequest
  /\ answer' = NoAnswer
  /\ UNCHANGED known

\* A call that is not distributed: the caller's own process evaluates all jobs,
\* and compares no sizes.
Serial ==
  /\ request = NoRequest
  /\ UNCHANGED <<request, known>>
  /\ \E outcome \in Evaluations :
       answer' = IF Succeeds(outcome) THEN Outputs(outcome) ELSE Error

\* A call that is not allowed, such as one with another number of jobs.
Refuse ==
  /\ request = NoRequest
  /\ answer' = Refused
  /\ UNCHANGED <<request, known>>

\* The first evaluation in which no job throws fixes the sizes.
LearnSizes ==
  /\ request # NoRequest
  /\ known = <<>>
  /\ Succeeds(request.outcome)
  /\ known' = request.outcome
  /\ UNCHANGED <<request, answer>>

Finish ==
  /\ request # NoRequest
  /\ Succeeds(request.outcome) => known # <<>>
  /\ answer' = IF Succeeds(request.outcome) /\ request.outcome = known
               THEN Outputs(request.outcome)
               ELSE Error
  /\ request' = NoRequest
  /\ UNCHANGED known

Next == Start \/ Serial \/ Refuse \/ LearnSizes \/ Finish

\* No answer is wrong.  Spec says as well that there is one.
Safety == Init /\ [][Next]_vars

Spec == Safety /\ WF_vars(LearnSizes \/ Finish)
=============================================================================
