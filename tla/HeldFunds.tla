------------------------------ MODULE HeldFunds ------------------------------
(***************************************************************************)
(* What holding money promises: an amount is held once, and then either    *)
(* paid out or given back, never both and never twice; what the platform   *)
(* keeps in suspense is exactly what is held.                              *)
(***************************************************************************)
EXTENDS Integers

CONSTANTS Items, Amounts

VARIABLES item,       \* item -> [state, amount]
          suspense    \* what the suspense account holds

vars == <<item, suspense>>

None == [state |-> "none", amount |-> 0]

Init ==
    /\ item = [i \in Items |-> None]
    /\ suspense = 0

Becomes(i, state) == item' = [item EXCEPT ![i].state = state]

Hold(i, n) ==
    /\ item[i] = None
    /\ item' = [item EXCEPT ![i] = [state |-> "held", amount |-> n]]
    /\ suspense' = suspense + n

PayOut(i) ==
    /\ item[i].state = "held"
    /\ Becomes(i, "paid")
    /\ suspense' = suspense - item[i].amount

GiveBack(i) ==
    /\ item[i].state = "held"
    /\ Becomes(i, "returned")
    /\ suspense' = suspense - item[i].amount

Next ==
    \E i \in Items : PayOut(i) \/ GiveBack(i) \/ \E n \in Amounts : Hold(i, n)

Spec == Init /\ [][Next]_vars
=============================================================================
