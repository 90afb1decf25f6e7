--------------------------- MODULE WalletServices ---------------------------
(***************************************************************************)
(* The services around the wallet side by side on one ledger: withdrawals, *)
(* cash-outs, airtime, deposits and referrals, as the API server runs them *)
(* in one process.  They share the accounts of their customers and the     *)
(* platform and nothing else, and a restart of the process ends whatever   *)
(* each of them is doing.                                                  *)
(***************************************************************************)
EXTENDS Withdrawals, Cashouts, Airtime, Deposits, Referrals

CONSTANTS InitialBalances,   \* balances the services start on, with nothing held
          MaxCrashes         \* bound on restarts

ASSUME WalletServicesAssumption ==
    /\ MaxCrashes \in Nat
    /\ \A b \in InitialBalances :
          /\ b \in [Accounts -> Int]
          /\ \A a \in Accounts : a.kind \in NonNegativeKinds => b[a] >= 0
          /\ b[systemAccount("withdrawal_suspense", Asset)] = 0

VARIABLE crashes

vars == <<balance, journal, calls, env, crashes, withdrawals, cashouts,
          margin, sent, charges, intents, events, codes, shared, referrals, bonus>>

Init ==
    /\ balance \in InitialBalances
    /\ journal = [key \in Keys |-> NoJournal]
    /\ calls = [c \in Calls |-> Idle]
    /\ env \in Environments
    /\ crashes = 0
    /\ WithdrawalInit /\ CashoutInit /\ AirtimeInit /\ DepositInit /\ ReferralInit

Withdrawing == UNCHANGED <<env, crashes, cashouts, airtimeVars, depositVars, referralVars>>
CashingOut == UNCHANGED <<env, crashes, withdrawals, airtimeVars, depositVars, referralVars>>
ToppingUp == UNCHANGED <<env, crashes, withdrawals, cashouts, depositVars, referralVars>>
Depositing == UNCHANGED <<env, crashes, withdrawals, cashouts, airtimeVars, referralVars>>
Referring == UNCHANGED <<env, crashes, withdrawals, cashouts, airtimeVars, depositVars>>

\* A handler that has been started goes on.
Proceeds(c) ==
    \/ WithdrawalProceeds(c) /\ Withdrawing
    \/ CashoutProceeds(c) /\ CashingOut
    \/ AirtimeProceeds(c) /\ ToppingUp
    \/ DepositProceeds(c) /\ Depositing
    \/ ReferralProceeds(c) /\ Referring

\* Requests, webhooks and what happens outside.
Arrivals ==
    \/ (\E c \in Calls : WithdrawalStarts(c)) /\ Withdrawing
    \/ CashoutSteps /\ CashingOut
    \/ AirtimeSteps /\ ToppingUp
    \/ DepositSteps /\ Depositing
    \/ (\E c \in Calls : ReferralStarts(c)) /\ Referring

\* The process restarts; what was in flight is gone.
Crash ==
    /\ MayHappen("crash")
    /\ crashes < MaxCrashes
    /\ crashes' = crashes + 1
    /\ calls' = [c \in Calls |-> Idle]
    /\ UNCHANGED <<balance, journal, env, withdrawals, cashouts, airtimeVars,
                   depositVars, referralVars>>

Next == Arrivals \/ Crash \/ \E c \in Calls : Proceeds(c)

Spec == Init /\ [][Next]_vars

\* A webhook's handler does not stop by itself, and a provider delivers a settlement
\* again and again until it is acknowledged.
Fairness ==
    /\ \A c \in Calls : WF_calls(Depositing /\ DepositProceeds(c))
    /\ \A d \in Charges : SF_calls(Depositing /\ Redelivered(d))

FairSpec == Spec /\ Fairness

-----------------------------------------------------------------------------
(* Properties *)

TypeOK ==
    /\ balance \in [Accounts -> Int]
    /\ journal \in [Keys -> Seq(Posting)]
    /\ calls \in [Calls -> {Idle} \cup WithdrawalCalls \cup CashoutCalls
                               \cup AirtimeCalls \cup DepositCalls \cup ReferralCalls]
    /\ env \in Environments
    /\ crashes \in 0..MaxCrashes
    /\ WithdrawalTypeOK /\ CashoutTypeOK /\ AirtimeTypeOK
    /\ DepositTypeOK /\ ReferralTypeOK
=============================================================================
