------------------------------- MODULE Arena -------------------------------
(***************************************************************************)
(* What an arena with nested recovery promises to the reverse-mode tape,   *)
(* with no word on sizes or pointers: memory handed out is disjoint from   *)
(* all memory still live; recovering the innermost scope ends the lifetime *)
(* of exactly what was handed out since that scope started; recovering     *)
(* everything ends every lifetime.  A request may fail; from then on the   *)
(* scopes still end the lifetimes they should, but nothing is promised of  *)
(* where the memory handed out lies.                                       *)
(***************************************************************************)
EXTENDS Integers

CONSTANTS
  Lens,       \* the request sizes, in bytes
  BlockIds    \* names of the pieces of memory that addresses lie in

VARIABLES
  live,       \* regions handed out and not yet recovered
  depth,      \* number of open nested scopes
  failed      \* whether a request has failed

vars == <<live, depth, failed>>

(* A region is [blk, off, len, lvl]: len bytes from byte off of block blk,  *)
(* handed out when lvl nested scopes were open.                             *)
Region == [blk : BlockIds, off : Nat, len : Lens, lvl : Nat]

Disjoint(r, s) ==
  \/ r.blk # s.blk
  \/ r.off + r.len <= s.off
  \/ s.off + s.len <= r.off

Init == live = {} /\ depth = 0 /\ failed = FALSE

(* Memory for one request, anywhere it disturbs nothing in use; anywhere at  *)
(* all after a request has failed.                                           *)
Alloc ==
  /\ \E r \in live' : /\ r \in Region
                      /\ r.lvl = depth
                      /\ failed \/ \A s \in live : Disjoint(r, s)
                      /\ live' = live \cup {r}
  /\ UNCHANGED <<depth, failed>>

(* A request that is not met.                                                *)
Fail == failed' = TRUE /\ UNCHANGED <<live, depth>>

StartNested == depth' = depth + 1 /\ UNCHANGED <<live, failed>>

RecoverNested ==
  /\ depth > 0
  /\ depth' = depth - 1
  /\ live' = {r \in live : r.lvl < depth}
  /\ UNCHANGED failed

RecoverAll ==
  /\ depth = 0
  /\ live' = {}
  /\ UNCHANGED <<depth, failed>>

Next ==
  \/ Alloc
  \/ Fail
  \/ StartNested
  \/ RecoverNested
  \/ RecoverAll

Spec == Init /\ [][Next]_vars
=============================================================================
