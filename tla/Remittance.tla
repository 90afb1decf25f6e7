----------------------------- MODULE Remittance -----------------------------
(***************************************************************************)
(* What a transfer promises its sender, whatever crashes, retries, double  *)
(* clicks and failures are behind it: the wallet is charged once, by what  *)
(* was quoted when the transfer was requested; the amount to pay out is    *)
(* booked once, after the charge; only a booked transfer is settled or     *)
(* refunded, each at most once; and a refund gives back what was charged.  *)
(* That a transfer is not both settled and refunded is not promised here:  *)
(* see TransferSaga.                                                       *)
(***************************************************************************)
EXTENDS Integers

CONSTANTS Transfers, Wallets, Requests  \* a request is [wallet, charge]

VARIABLES wallet,       \* what each wallet holds
          remittance    \* transfer -> where it stands

vars == <<wallet, remittance>>

None == [stage |-> "none"]

Is(t, stage) == remittance[t].stage = stage
Sets(t, stage) == remittance' = [remittance EXCEPT ![t].stage = stage]

Init ==
    /\ wallet \in [Wallets -> Nat]
    /\ remittance = [t \in Transfers |-> None]

Request(t, r) ==
    /\ remittance[t] = None
    /\ remittance' = [remittance EXCEPT ![t] =
          [stage |-> "requested", request |-> r, settled |-> FALSE, refund |-> "no"]]
    /\ UNCHANGED wallet

Charge(t) ==
    /\ Is(t, "requested")
    /\ LET r == remittance[t].request
       IN /\ wallet[r.wallet] >= r.charge
          /\ wallet' = [wallet EXCEPT ![r.wallet] = @ - r.charge]
    /\ Sets(t, "charged")

Book(t) ==
    /\ Is(t, "charged")
    /\ Sets(t, "booked")
    /\ UNCHANGED wallet

Settle(t) ==
    /\ Is(t, "booked")
    /\ ~remittance[t].settled
    /\ remittance' = [remittance EXCEPT ![t].settled = TRUE]
    /\ UNCHANGED wallet

\* The reversal takes the amount out of the payout account first ...
StartRefund(t) ==
    /\ Is(t, "booked")
    /\ remittance[t].refund = "no"
    /\ remittance' = [remittance EXCEPT ![t].refund = "started"]
    /\ UNCHANGED wallet

\* ... and then gives the sender everything back, the fee included.
Refund(t) ==
    /\ Is(t, "booked")
    /\ remittance[t].refund = "started"
    /\ remittance' = [remittance EXCEPT ![t].refund = "done"]
    /\ LET r == remittance[t].request
       IN wallet' = [wallet EXCEPT ![r.wallet] = @ + r.charge]

Next ==
    \E t \in Transfers :
        \/ \E r \in Requests : Request(t, r)
        \/ Charge(t) \/ Book(t) \/ Settle(t) \/ StartRefund(t) \/ Refund(t)

Spec == Init /\ [][Next]_vars
=============================================================================
