----------------------------- MODULE EscrowSale -----------------------------
(***************************************************************************)
(* What the P2P marketplace promises, with every sale as one atomic step:  *)
(* a listed amount is reserved by at most one open sale at a time, and a   *)
(* sale ends exactly once, either paid out to the buyer or called off with *)
(* its reservation given back.  There are no handlers, no statuses a sale  *)
(* passes through and no failures; P2P implements this (P2P!Sale).         *)
(***************************************************************************)
EXTENDS Integers

CONSTANTS Offers, Orders,
          Amounts       \* amounts listed and sold, all positive

VARIABLES available,    \* offer -> what it can still sell; NotListed before
          listed,       \* offers that accept new sales
          sale          \* order -> [state, offer, amount]; NoSale before

saleVars == <<available, listed, sale>>

NotListed == -1
NoSale == [state |-> "none"]

Init ==
    /\ available = [f \in Offers |-> NotListed]
    /\ listed = {}
    /\ sale = [o \in Orders |-> NoSale]

List(f, amount) ==
    /\ available[f] = NotListed
    /\ available' = [available EXCEPT ![f] = amount]
    /\ listed' = listed \cup {f}
    /\ UNCHANGED sale

Delist(f) ==
    /\ f \in listed
    /\ listed' = listed \ {f}
    /\ UNCHANGED <<available, sale>>

Open(o, f, amount) ==
    /\ f \in listed
    /\ sale[o] = NoSale
    /\ amount <= available[f]
    /\ available' = [available EXCEPT ![f] = @ - amount]
    /\ sale' = [sale EXCEPT ![o] = [state |-> "open", offer |-> f, amount |-> amount]]
    /\ UNCHANGED listed

PayOut(o) ==
    /\ sale[o].state = "open"
    /\ sale' = [sale EXCEPT ![o].state = "paid"]
    /\ UNCHANGED <<available, listed>>

CallOff(o) ==
    /\ sale[o].state = "open"
    /\ sale' = [sale EXCEPT ![o].state = "called_off"]
    /\ available' = [available EXCEPT ![sale[o].offer] = @ + sale[o].amount]
    /\ UNCHANGED listed

Next ==
    \/ \E f \in Offers : Delist(f) \/ \E amount \in Amounts : List(f, amount)
    \/ \E o \in Orders : \/ PayOut(o) \/ CallOff(o)
                         \/ \E f \in Offers, amount \in Amounts : Open(o, f, amount)

Spec == Init /\ [][Next]_saleVars
=============================================================================
