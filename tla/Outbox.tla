-------------------------------- MODULE Outbox --------------------------------
(***************************************************************************)
(* What a batching sink promises of the entries it is handed: each is      *)
(* settled once, in the order it was handed in, in batches off the front   *)
(* of what waits; a batch is delivered or given up as a whole.             *)
(***************************************************************************)
EXTENDS Naturals, Sequences

CONSTANTS Entries   \* what can be handed in

VARIABLES
    waiting,        \* handed in and not settled, oldest first
    settled         \* settled, in the order they were

vars == <<waiting, settled>>

Init == waiting = <<>> /\ settled = <<>>

HandIn == \E e \in Entries : waiting' = Append(waiting, e) /\ UNCHANGED settled

Settle == \E n \in 1 .. Len(waiting) :
    /\ settled' = settled \o SubSeq(waiting, 1, n)
    /\ waiting' = SubSeq(waiting, n + 1, Len(waiting))

Next == HandIn \/ Settle
Spec == Init /\ [][Next]_vars
=============================================================================
