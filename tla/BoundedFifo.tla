---------------------------- MODULE BoundedFifo ----------------------------
(***************************************************************************)
(* What the Modbus frame queue promises, without indices: a first-in       *)
(* first-out queue of bounded capacity that refuses, and counts, what does *)
(* not fit.  taken is the item most recently handed to the consumer.       *)
(***************************************************************************)
EXTENDS Naturals, Sequences

CONSTANTS Capacity, Items, DropModulus

VARIABLES queue, taken, dropped

fifoVars == <<queue, taken, dropped>>

Init == /\ queue = << >>
        /\ taken = << >>
        /\ dropped = 0

Put(item) == /\ Len(queue) < Capacity
             /\ queue' = Append(queue, item)
             /\ UNCHANGED <<taken, dropped>>

Refuse == /\ Len(queue) = Capacity
          /\ dropped' = (dropped + 1) % DropModulus
          /\ UNCHANGED <<queue, taken>>

Take == /\ queue # << >>
        /\ taken' = Head(queue)
        /\ queue' = Tail(queue)
        /\ UNCHANGED dropped

Discard == /\ queue # << >>
           /\ queue' = Tail(queue)
           /\ UNCHANGED <<taken, dropped>>

Clear == /\ queue' = << >>
         /\ dropped' = 0
         /\ UNCHANGED taken

Next == \/ \E item \in Items : Put(item)
        \/ Refuse
        \/ Take
        \/ Discard
        \/ Clear

Spec == Init /\ [][Next]_fifoVars
=============================================================================
