----------------------------- MODULE AtomicFile ------------------------------
(***************************************************************************)
(* What cmk.utils.store promises to those who load a file with lock=True,  *)
(* change what they have read, and save it: their updates are atomic.      *)
(* The value is the number of updates that have been made.                 *)
(***************************************************************************)
EXTENDS Naturals

CONSTANT Proc
VARIABLES value,   \* the content of the file
          owners   \* the processes that may replace it

Init == value = 0 /\ owners = {}

Take(p) == owners = {} /\ owners' = {p} /\ UNCHANGED value
Put(p) == owners = {p} /\ owners' = {} /\ value' = value + 1
Drop(p) == owners = {p} /\ owners' = {} /\ UNCHANGED value

Next == \E p \in Proc : Take(p) \/ Put(p) \/ Drop(p)

Spec == Init /\ [][Next]_<<value, owners>>
=============================================================================
