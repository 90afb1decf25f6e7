------------------------ MODULE WalletServicesProofs ------------------------
(***************************************************************************)
(* Theorems about the services around the wallet, side by side on one      *)
(* ledger, for every number of handlers, of withdrawals, cash-outs,        *)
(* top-ups, charges and users, and for every environment.                  *)
(*                                                                         *)
(* A step of one service moves its own handlers and posts under its own    *)
(* keys (Owned), so each service's invariant is shown once for its own     *)
(* steps, and the steps of the others leave it alone (Untouched).          *)
(***************************************************************************)
EXTENDS WalletServices, LedgerStoreProofs

-----------------------------------------------------------------------------
(* Whose handlers and keys are whose *)

WithdrawalPcs == {"wd.create", "wd.compensate", "wd.claim", "wd.post", "wd.revert"}
CashoutPcs == {"co.expire", "co.claim", "co.post", "co.revert"}
AirtimePcs == {"air.debit", "air.send", "air.reverse"}
DepositPcs == {"dep.intent", "hook.intent", "hook.fund", "hook.paid", "hook.record"}
ReferralPcs == {"ref.create", "ref.again", "ref.record", "ref.bonus", "ref.second",
                "ref.reward", "ref.mark", "bonus.currency"}

WithdrawalKeys == {"wd_hold", "wd_settle", "wd_refund"} \X Withdrawals
CashoutKeys == {"cashout"} \X Cashouts
TopupKeys == {"air", "air_reverse"} \X Topups
FundKeys == {FundKey(d) : d \in Charges}
RewardKeys == {"referral"} \X Users

CallTypes == {Idle} \cup WithdrawalCalls \cup CashoutCalls \cup AirtimeCalls
                    \cup DepositCalls \cup ReferralCalls

\* A step of a service: handlers that are its own or idle go on, start or end, and
\* what it posts is a journal under one of its keys.
Owned(pcs, own, keys) ==
    /\ calls' \in [Calls -> CallTypes]
    /\ \A c \in Calls : \/ calls'[c] = calls[c]
                        \/ calls[c].pc \in pcs \cup {"idle"} /\ calls'[c] \in own \cup {Idle}
    /\ UNCHANGED ledgerVars \/ \E k \in keys, s \in Seq(Posting) : Post(k, s)

\* What such a step is to the other services.
Untouched(pcs, keys) ==
    /\ \A c \in Calls : \/ calls'[c] = calls[c]
                        \/ calls[c].pc \notin pcs /\ calls'[c].pc \notin pcs
    /\ \A k \in keys : journal'[k] = journal[k]

-----------------------------------------------------------------------------
(* Handlers in flight *)

LEMMA OwnPcs ==
    /\ \A x \in WithdrawalCalls : x.pc \in WithdrawalPcs
    /\ \A x \in CashoutCalls : x.pc \in CashoutPcs
    /\ \A x \in AirtimeCalls : x.pc \in AirtimePcs
    /\ \A x \in DepositCalls : x.pc \in DepositPcs
    /\ \A x \in ReferralCalls : x.pc \in ReferralPcs
<1>1. \A x \in WithdrawalCalls : x.pc \in WithdrawalPcs
    BY DEF WithdrawalCalls, WithdrawalPcs
<1>2. \A x \in CashoutCalls : x.pc \in CashoutPcs
    BY DEF CashoutCalls, CashoutPcs
<1>3. \A x \in AirtimeCalls : x.pc \in AirtimePcs
    BY DEF AirtimeCalls, AirtimePcs
<1>4. \A x \in DepositCalls : x.pc \in DepositPcs
    BY DEF DepositCalls, DepositPcs
<1>5. \A x \in ReferralCalls : x.pc \in ReferralPcs
    BY DEF ReferralCalls, ReferralPcs
<1> QED
    BY <1>1, <1>2, <1>3, <1>4, <1>5

\* The pc of a handler tells whose it is.
LEMMA PcTells ==
    ASSUME NEW x \in CallTypes
    PROVE  /\ x.pc = "idle" => x = Idle
           /\ x.pc \in WithdrawalPcs => x \in WithdrawalCalls
           /\ x.pc \in CashoutPcs => x \in CashoutCalls
           /\ x.pc \in AirtimePcs => x \in AirtimeCalls
           /\ x.pc \in DepositPcs => x \in DepositCalls
           /\ x.pc \in ReferralPcs => x \in ReferralCalls
<1>1. \/ x = Idle /\ x.pc = "idle"
      \/ x \in WithdrawalCalls /\ x.pc \in WithdrawalPcs
      \/ x \in CashoutCalls /\ x.pc \in CashoutPcs
      \/ x \in AirtimeCalls /\ x.pc \in AirtimePcs
      \/ x \in DepositCalls /\ x.pc \in DepositPcs
      \/ x \in ReferralCalls /\ x.pc \in ReferralPcs
    BY OwnPcs DEF CallTypes, Idle
<1> QED
    BY <1>1 DEF WithdrawalPcs, CashoutPcs, AirtimePcs, DepositPcs, ReferralPcs

\* The fields of a handler in flight.
LEMMA WithdrawalFields ==
    ASSUME NEW x \in CallTypes
    PROVE  /\ x.pc \in {"wd.create", "wd.compensate"} =>
                 x \in [pc : {"wd.create", "wd.compensate"}, withdrawal : Withdrawals,
                        customer : Customers, amount : Nat]
           /\ x.pc \in {"wd.claim", "wd.post", "wd.revert"} =>
                 x \in [pc : {"wd.claim", "wd.post", "wd.revert"},
                        withdrawal : Withdrawals, to : {"completed", "rejected"}]
<1>1. x.pc \in WithdrawalPcs => x \in WithdrawalCalls
    BY PcTells
<1> QED
    BY <1>1 DEF WithdrawalPcs, WithdrawalCalls

LEMMA CashoutFields ==
    ASSUME NEW x \in CallTypes, x.pc \in CashoutPcs
    PROVE  x \in [pc : CashoutPcs, cashout : Cashouts]
BY PcTells DEF CashoutPcs, CashoutCalls

LEMMA AirtimeFields ==
    ASSUME NEW x \in CallTypes, x.pc \in AirtimePcs
    PROVE  x \in [pc : AirtimePcs, topup : Topups, margin : Nat]
BY PcTells DEF AirtimePcs, AirtimeCalls

LEMMA DepositFields ==
    ASSUME NEW x \in CallTypes
    PROVE  /\ x.pc = "dep.intent" =>
                 x \in [pc : {"dep.intent"}, charge : Charges, amount : Nat]
           /\ x.pc \in {"hook.intent", "hook.fund", "hook.paid", "hook.record"} =>
                 x \in [pc : {"hook.intent", "hook.fund", "hook.paid", "hook.record"},
                        charge : Charges, event : EventKinds]
<1>1. x.pc \in DepositPcs => x \in DepositCalls
    BY PcTells
<1> QED
    BY <1>1 DEF DepositPcs, DepositCalls

LEMMA ReferralFields ==
    ASSUME NEW x \in CallTypes
    PROVE  /\ x.pc \in {"ref.create", "ref.again"} =>
                 x \in [pc : {"ref.create", "ref.again"}, owner : Users,
                        attempts : 0..CodeAttempts]
           /\ x.pc = "ref.record" =>
                 x \in [pc : {"ref.record"}, referred : Users, referrer : Users]
           /\ x.pc = "ref.bonus" =>
                 x \in [pc : {"ref.bonus"}, referred : Users, referrer : Users]
           /\ x.pc \in {"ref.second", "ref.reward", "ref.mark"} =>
                 x \in [pc : {"ref.second", "ref.reward", "ref.mark"}, referred : Users,
                        referrer : Users, read : [minor : Nat, currency : Currencies]]
           /\ x.pc = "bonus.currency" =>
                 x \in [pc : {"bonus.currency"},
                        bonus : [minor : Nat, currency : Currencies]]
<1>1. x.pc \in ReferralPcs => x \in ReferralCalls
    BY PcTells
<1> QED
    BY <1>1 DEF ReferralPcs, ReferralCalls

\* Returning and going on are ways to become another record.
LEMMA Becomes ==
    ASSUME NEW c \in Calls
    PROVE  /\ Returns(c) => Starts(c, Idle)
           /\ \A pc : GoesTo(c, pc) => Starts(c, [calls[c] EXCEPT !.pc = pc])
BY DEF Returns, Starts, GoesTo

\* What happens to the handler that moves, and to the others.
LEMMA CallAfter ==
    ASSUME calls \in [Calls -> CallTypes], NEW c \in Calls, NEW x, Starts(c, x)
    PROVE  calls'[c] = x /\ \A d \in Calls \ {c} : calls'[d] = calls[d]
BY DEF Starts

\* One handler moves: to another await of its own, or it starts or ends.
LEMMA OneCallMoves ==
    ASSUME calls \in [Calls -> CallTypes], NEW c \in Calls,
           NEW pcs, NEW own \in SUBSET CallTypes,
           calls[c].pc \in pcs \cup {"idle"},
           UNCHANGED calls \/ \E x \in own \cup {Idle} : Starts(c, x)
    PROVE  /\ calls' \in [Calls -> CallTypes]
           /\ \A d \in Calls :
                 \/ calls'[d] = calls[d]
                 \/ calls[d].pc \in pcs \cup {"idle"} /\ calls'[d] \in own \cup {Idle}
<1>1. Idle \in CallTypes
    BY DEF CallTypes
<1>2. CASE UNCHANGED calls
    BY <1>2
<1>3. ASSUME NEW x \in own \cup {Idle}, Starts(c, x)
      PROVE  calls' \in [Calls -> CallTypes]
    BY <1>1, <1>3 DEF Starts
<1>4. ASSUME NEW x \in own \cup {Idle}, Starts(c, x), NEW d \in Calls
      PROVE  \/ calls'[d] = calls[d]
             \/ calls[d].pc \in pcs \cup {"idle"} /\ calls'[d] \in own \cup {Idle}
    BY <1>4, CallAfter
<1> QED
    BY <1>2, <1>3, <1>4

-----------------------------------------------------------------------------
(* Keys and journals *)

LEMMA KeysExist ==
    /\ WithdrawalKeys \subseteq Keys /\ CashoutKeys \subseteq Keys
    /\ TopupKeys \subseteq Keys /\ FundKeys \subseteq Keys /\ RewardKeys \subseteq Keys
BY WithdrawalsAssumption, CashoutsAssumption, AirtimeAssumption, DepositsAssumption,
   ReferralsAssumption
   DEF WithdrawalKeys, CashoutKeys, TopupKeys, FundKeys, RewardKeys

LEMMA OwnKeys ==
    /\ \A w \in Withdrawals : /\ HoldKey(w) \in WithdrawalKeys
                              /\ SettleKey(w) \in WithdrawalKeys
                              /\ RefundKey(w) \in WithdrawalKeys
    /\ \A r \in Cashouts : CashoutKey(r) \in CashoutKeys
    /\ \A k \in Topups : TopupKey(k) \in TopupKeys /\ ReversalKey(k) \in TopupKeys
    /\ \A d \in Charges : FundKey(d) \in FundKeys
    /\ \A u \in Users : RewardKey(u) \in RewardKeys
BY DEF WithdrawalKeys, CashoutKeys, TopupKeys, FundKeys, RewardKeys, HoldKey, SettleKey,
       RefundKey, CashoutKey, TopupKey, ReversalKey, RewardKey

LEMMA KeysAreDisjoint ==
    /\ WithdrawalKeys \cap CashoutKeys = {} /\ WithdrawalKeys \cap TopupKeys = {}
    /\ WithdrawalKeys \cap FundKeys = {} /\ WithdrawalKeys \cap RewardKeys = {}
    /\ CashoutKeys \cap TopupKeys = {} /\ CashoutKeys \cap FundKeys = {}
    /\ CashoutKeys \cap RewardKeys = {}
    /\ TopupKeys \cap FundKeys = {} /\ TopupKeys \cap RewardKeys = {}
    /\ FundKeys \cap RewardKeys = {}
<1>1. \A d \in Charges : Gateway[d] \in {"lytex", "nowpayments"}
    BY DepositsAssumption
<1> QED
    BY <1>1 DEF WithdrawalKeys, CashoutKeys, TopupKeys, FundKeys, RewardKeys, FundKey

LEMMA WithdrawalsPost ==
    ASSUME NEW w \in Withdrawals, NEW p \in Customers, NEW n \in Int, NEW fee \in Int
    PROVE  /\ usdtWithdrawHold(p, Asset, n) \in Seq(Posting)
           /\ usdtWithdrawRefund(p, Asset, n) \in Seq(Posting)
           /\ usdtWithdrawSettle(Asset, n, fee) \in Seq(Posting)
<1>1. Asset \in Currencies
    BY WithdrawalsAssumption
<1> QED
    BY <1>1, MovesAreJournals, SplitsAreJournals

-----------------------------------------------------------------------------
(* Typing: a service's rows, and the rows its handlers refer to *)

StoreIsTyped == StoreTypeOK /\ calls \in [Calls -> CallTypes]

\* A resolution in flight is of a withdrawal that is recorded.
WithdrawalsTyped ==
    /\ WithdrawalTypeOK
    /\ \A c \in Calls : calls[c].pc \in {"wd.claim", "wd.post", "wd.revert"} =>
          withdrawals[calls[c].withdrawal] \in Withdrawal

-----------------------------------------------------------------------------
(* Withdrawals: every step is their own, and keeps the types *)

WithdrawalOwned == Owned(WithdrawalPcs, WithdrawalCalls, WithdrawalKeys)

LEMMA WithdrawalRows ==
    ASSUME WithdrawalsTyped, NEW w \in Withdrawals
    PROVE  /\ withdrawals[w].status \in WithdrawalStatus => withdrawals[w] \in Withdrawal
           /\ withdrawals[w] # NoWithdrawal => withdrawals[w] \in Withdrawal
           /\ withdrawals[w].status = "none" <=> withdrawals[w] = NoWithdrawal
BY DEF WithdrawalsTyped, WithdrawalTypeOK, NoWithdrawal, Withdrawal, WithdrawalStatus

\* The status of a recorded withdrawal changes.
LEMMA WithdrawalStatusChanges ==
    ASSUME WithdrawalsTyped, NEW w \in Withdrawals, NEW status \in WithdrawalStatus,
           withdrawals[w] \in Withdrawal,
           withdrawals' = [withdrawals EXCEPT ![w].status = status]
    PROVE  /\ WithdrawalTypeOK'
           /\ withdrawals'[w] = [withdrawals[w] EXCEPT !.status = status]
           /\ withdrawals'[w] \in Withdrawal
           /\ \A v \in Withdrawals \ {w} : withdrawals'[v] = withdrawals[v]
<1>1. [withdrawals[w] EXCEPT !.status = status] \in Withdrawal
    BY DEF Withdrawal
<1> QED
    BY <1>1 DEF WithdrawalsTyped, WithdrawalTypeOK

\* A withdrawal's handler that goes on stays one.
LEMMA WithdrawalGoesOn ==
    ASSUME StoreIsTyped, NEW c \in Calls, NEW pc, GoesTo(c, pc),
           \/ calls[c].pc = "wd.create" /\ pc = "wd.compensate"
           \/ calls[c].pc = "wd.claim" /\ pc = "wd.post"
           \/ calls[c].pc = "wd.post" /\ pc = "wd.revert"
    PROVE  \E x \in WithdrawalCalls :
              /\ Starts(c, x) /\ x.pc = pc /\ x.withdrawal = calls[c].withdrawal
              /\ pc = "wd.compensate" =>
                    x.customer = calls[c].customer /\ x.amount = calls[c].amount
              /\ pc \in {"wd.post", "wd.revert"} => x.to = calls[c].to
<1> DEFINE x == [calls[c] EXCEPT !.pc = pc]
<1>1. calls[c] \in CallTypes
    BY DEF StoreIsTyped
<1>2. CASE calls[c].pc = "wd.create" /\ pc = "wd.compensate"
    <2>1. x \in WithdrawalCalls /\ x.pc = pc /\ x.withdrawal = calls[c].withdrawal
          /\ x.customer = calls[c].customer /\ x.amount = calls[c].amount
        BY <1>1, <1>2, WithdrawalFields DEF WithdrawalCalls
    <2>2. Starts(c, x)
        BY Becomes
    <2> HIDE DEF x
    <2> QED
        BY <1>2, <2>1, <2>2
<1>3. CASE \/ calls[c].pc = "wd.claim" /\ pc = "wd.post"
           \/ calls[c].pc = "wd.post" /\ pc = "wd.revert"
    <2>1. x \in WithdrawalCalls /\ x.pc = pc /\ x.withdrawal = calls[c].withdrawal
          /\ x.to = calls[c].to
        BY <1>1, <1>3, WithdrawalFields DEF WithdrawalCalls
    <2>2. Starts(c, x)
        BY Becomes
    <2> HIDE DEF x
    <2> QED
        BY <1>3, <2>1, <2>2
<1> QED
    BY <1>2, <1>3

LEMMA RequestWithdrawalIsOwned ==
    ASSUME StoreIsTyped, WithdrawalsTyped, NEW c \in Calls, NEW w \in Withdrawals,
           NEW p \in Customers, NEW n \in WithdrawalAmounts, RequestWithdrawal(c, w, p, n)
    PROVE  WithdrawalOwned /\ WithdrawalsTyped'
<1> DEFINE state == [pc |-> "wd.create", withdrawal |-> w, customer |-> p, amount |-> n]
<1>1. n \in Nat
    BY WithdrawalsAssumption
<1>2. state \in WithdrawalCalls /\ state.pc = "wd.create"
    BY <1>1 DEF WithdrawalCalls
<1>3. UNCHANGED calls \/ Starts(c, state)
    BY DEF RequestWithdrawal, AwaitsPost
<1>4. calls[c].pc = "idle" /\ UNCHANGED withdrawals
    BY DEF RequestWithdrawal, Receives, Idle
<1>5. UNCHANGED ledgerVars \/ Post(HoldKey(w), usdtWithdrawHold(p, Asset, n))
    BY DEF RequestWithdrawal, AwaitsPost, Refuse
<1>6. usdtWithdrawHold(p, Asset, n) \in Seq(Posting)
    BY <1>1, WithdrawalsPost
<1>7. WithdrawalCalls \in SUBSET CallTypes
    BY DEF CallTypes
<1> HIDE DEF state
<1>8. WithdrawalsTyped'
    BY <1>2, <1>3, <1>4, CallAfter DEF WithdrawalsTyped, WithdrawalTypeOK, StoreIsTyped
<1> QED
    BY <1>2, <1>3, <1>4, <1>5, <1>6, <1>7, <1>8, OneCallMoves, OwnKeys
       DEF WithdrawalOwned, Owned, StoreIsTyped

LEMMA ResolveWithdrawalIsOwned ==
    ASSUME StoreIsTyped, WithdrawalsTyped, NEW c \in Calls, NEW w \in Withdrawals,
           NEW to \in {"completed", "rejected"}, ResolveWithdrawal(c, w, to)
    PROVE  WithdrawalOwned /\ WithdrawalsTyped'
<1> DEFINE state == [pc |-> "wd.claim", withdrawal |-> w, to |-> to]
<1>1. /\ state \in WithdrawalCalls /\ state.withdrawal = w
      /\ WithdrawalCalls \in SUBSET CallTypes
    BY DEF WithdrawalCalls, CallTypes
<1>2. Starts(c, state) /\ calls[c].pc = "idle" /\ UNCHANGED ledgerVars /\ UNCHANGED withdrawals
    BY DEF ResolveWithdrawal, Receives, Idle, ledgerVars
<1>3. withdrawals[w] \in Withdrawal
    BY WithdrawalRows DEF ResolveWithdrawal, WithdrawalStatus
<1> HIDE DEF state
<1>4. WithdrawalsTyped'
    BY <1>1, <1>2, <1>3, CallAfter DEF WithdrawalsTyped, WithdrawalTypeOK, StoreIsTyped
<1> QED
    BY <1>1, <1>2, <1>4, OneCallMoves DEF WithdrawalOwned, Owned, StoreIsTyped

LEMMA CreateWithdrawalIsOwned ==
    ASSUME StoreIsTyped, WithdrawalsTyped, NEW c \in Calls,
           CreateWithdrawal(c) \/ CompensateWithdrawal(c)
    PROVE  WithdrawalOwned /\ WithdrawalsTyped'
<1> DEFINE w == calls[c].withdrawal
           row == [status |-> "pending", customer |-> calls[c].customer,
                   amount |-> calls[c].amount, fee |-> WithdrawalFee]
           postings == usdtWithdrawRefund(calls[c].customer, Asset, calls[c].amount)
<1>1. /\ calls[c].pc \in {"wd.create", "wd.compensate"}
      /\ w \in Withdrawals /\ calls[c].customer \in Customers /\ calls[c].amount \in Nat
    BY WithdrawalFields DEF CreateWithdrawal, CompensateWithdrawal, At, StoreIsTyped
<1>2. calls[c].pc \in WithdrawalPcs /\ WithdrawalCalls \in SUBSET CallTypes
    BY <1>1 DEF WithdrawalPcs, CallTypes
<1>3. \E x \in WithdrawalCalls \cup {Idle} :
          Starts(c, x) /\ x.pc \notin {"wd.claim", "wd.post", "wd.revert"}
    <2>1. Returns(c) \/ (calls[c].pc = "wd.create" /\ GoesTo(c, "wd.compensate"))
        BY DEF CreateWithdrawal, CompensateWithdrawal, At, AwaitsPost, AwaitsWrite
    <2> QED
        BY <2>1, Becomes, WithdrawalGoesOn DEF Idle
<1>4. UNCHANGED ledgerVars \/ Post(RefundKey(w), postings)
    BY DEF CreateWithdrawal, CompensateWithdrawal, AwaitsPost, Refuse
<1>5. UNCHANGED withdrawals \/ withdrawals' = [withdrawals EXCEPT ![w] = row]
    BY DEF CreateWithdrawal, CompensateWithdrawal, AwaitsWrite
<1>6. row \in Withdrawal /\ postings \in Seq(Posting) /\ RefundKey(w) \in WithdrawalKeys
    <2>1. row \in Withdrawal
        BY <1>1, WithdrawalsAssumption DEF Withdrawal, WithdrawalStatus
    <2>2. postings \in Seq(Posting)
        BY <1>1, WithdrawalsPost
    <2>3. RefundKey(w) \in WithdrawalKeys
        BY <1>1, OwnKeys
    <2> QED
        BY <2>1, <2>2, <2>3
<1> HIDE DEF row, w, postings
<1>7. /\ WithdrawalTypeOK'
      /\ \A v \in Withdrawals : withdrawals[v] \in Withdrawal => withdrawals'[v] \in Withdrawal
    BY <1>1, <1>5, <1>6 DEF WithdrawalsTyped, WithdrawalTypeOK
<1>8. \A d \in Calls : calls'[d].pc \in {"wd.claim", "wd.post", "wd.revert"} =>
          /\ calls'[d] = calls[d]
          /\ calls[d].withdrawal \in Withdrawals
    BY <1>3, CallAfter, WithdrawalFields DEF StoreIsTyped
<1>9. WithdrawalsTyped'
    BY <1>7, <1>8 DEF WithdrawalsTyped
<1> QED
    BY <1>2, <1>3, <1>4, <1>6, <1>9, OneCallMoves DEF WithdrawalOwned, Owned, StoreIsTyped

\* The steps of complete and reject: the status changes, or nothing does.
LEMMA ResolutionStepIsOwned ==
    ASSUME StoreIsTyped, WithdrawalsTyped, NEW c \in Calls,
           ClaimWithdrawal(c) \/ PostResolution(c) \/ RevertWithdrawal(c)
    PROVE  WithdrawalOwned /\ WithdrawalsTyped'
<1> DEFINE w == calls[c].withdrawal
           row == withdrawals[w]
<1>1. /\ calls[c].pc \in {"wd.claim", "wd.post", "wd.revert"}
      /\ w \in Withdrawals /\ calls[c].to \in {"completed", "rejected"}
      /\ row \in Withdrawal
    BY WithdrawalFields
       DEF ClaimWithdrawal, PostResolution, RevertWithdrawal, At, StoreIsTyped, WithdrawalsTyped
<1>2. calls[c].pc \in WithdrawalPcs /\ WithdrawalCalls \in SUBSET CallTypes
    BY <1>1 DEF WithdrawalPcs, CallTypes
<1>3. \E x \in WithdrawalCalls \cup {Idle} : Starts(c, x) /\ (x = Idle \/ x.withdrawal = w)
    <2>1. \/ Returns(c)
          \/ calls[c].pc = "wd.claim" /\ GoesTo(c, "wd.post")
          \/ calls[c].pc = "wd.post" /\ GoesTo(c, "wd.revert")
        BY DEF ClaimWithdrawal, PostResolution, RevertWithdrawal, At, AwaitsPost, AwaitsWrite
    <2> QED
        BY <2>1, Becomes, WithdrawalGoesOn
<1>4. \/ UNCHANGED ledgerVars
      \/ \E k \in WithdrawalKeys, s \in Seq(Posting) : Post(k, s)
    <2>1. row.amount \in Int /\ row.fee \in Int /\ row.customer \in Customers
        BY <1>1 DEF Withdrawal
    <2>2. /\ SettledPostings(row) \in Seq(Posting)
          /\ usdtWithdrawRefund(row.customer, Asset, row.amount) \in Seq(Posting)
        BY <1>1, <2>1, WithdrawalsPost DEF SettledPostings
    <2>3. \/ UNCHANGED ledgerVars
          \/ Post(SettleKey(w), SettledPostings(row))
          \/ Post(RefundKey(w), usdtWithdrawRefund(row.customer, Asset, row.amount))
        BY DEF ClaimWithdrawal, PostResolution, RevertWithdrawal, AwaitsPost, Refuse
    <2> QED
        BY <1>1, <2>2, <2>3, OwnKeys
<1>5. \/ UNCHANGED withdrawals
      \/ \E status \in WithdrawalStatus :
            withdrawals' = [withdrawals EXCEPT ![w].status = status]
    BY <1>1 DEF ClaimWithdrawal, PostResolution, RevertWithdrawal, AwaitsWrite, WithdrawalStatus
<1> HIDE DEF w, row
<1>6. /\ WithdrawalTypeOK'
      /\ \A v \in Withdrawals : withdrawals[v] \in Withdrawal => withdrawals'[v] \in Withdrawal
    BY <1>1, <1>5, WithdrawalStatusChanges DEF WithdrawalsTyped, WithdrawalTypeOK, row
<1>7. \A d \in Calls : calls'[d].pc \in {"wd.claim", "wd.post", "wd.revert"} =>
          withdrawals[calls'[d].withdrawal] \in Withdrawal /\ calls'[d].withdrawal \in Withdrawals
    BY <1>1, <1>3, CallAfter, WithdrawalFields DEF Idle, StoreIsTyped, WithdrawalsTyped, row
<1>8. WithdrawalsTyped'
    BY <1>6, <1>7 DEF WithdrawalsTyped
<1> QED
    BY <1>1, <1>2, <1>3, <1>4, <1>8, OneCallMoves DEF WithdrawalOwned, Owned, StoreIsTyped

LEMMA WithdrawalStepsAreOwned ==
    ASSUME StoreIsTyped, WithdrawalsTyped, NEW c \in Calls,
           WithdrawalStarts(c) \/ WithdrawalProceeds(c)
    PROVE  WithdrawalOwned /\ WithdrawalsTyped'
BY RequestWithdrawalIsOwned, ResolveWithdrawalIsOwned, CreateWithdrawalIsOwned,
   ResolutionStepIsOwned DEF WithdrawalStarts, WithdrawalProceeds

-----------------------------------------------------------------------------
(* Cash-outs: every step is their own, and keeps the types *)

CashoutOwned == Owned(CashoutPcs, CashoutCalls, CashoutKeys)

\* An approval in flight is of a request that is recorded.
CashoutsTyped ==
    /\ CashoutTypeOK
    /\ \A c \in Calls : calls[c].pc \in CashoutPcs =>
          cashouts[calls[c].cashout] \in Cashout

\* The row of a recorded request changes.
LEMMA CashoutRowChanges ==
    ASSUME CashoutsTyped, NEW r \in Cashouts, NEW row \in Cashout,
           cashouts' = [cashouts EXCEPT ![r] = row]
    PROVE  /\ CashoutTypeOK'
           /\ \A q \in Cashouts : cashouts[q] \in Cashout => cashouts'[q] \in Cashout
BY DEF CashoutsTyped, CashoutTypeOK

LEMMA CashoutRows ==
    ASSUME CashoutsTyped, NEW r \in Cashouts, cashouts[r].status \in CashoutStatus
    PROVE  /\ cashouts[r] \in Cashout
           /\ \A to \in CashoutStatus : [cashouts[r] EXCEPT !.status = to] \in Cashout
           /\ [cashouts[r] EXCEPT !.late = TRUE] \in Cashout
<1>1. cashouts[r] \in Cashout
    BY DEF CashoutsTyped, CashoutTypeOK, NoCashout, CashoutStatus
<1> QED
    BY <1>1 DEF Cashout

\* A cash-out's handler that goes on stays one.
LEMMA CashoutGoesOn ==
    ASSUME StoreIsTyped, NEW c \in Calls, NEW pc \in CashoutPcs, GoesTo(c, pc),
           calls[c].pc \in CashoutPcs
    PROVE  \E x \in CashoutCalls :
              Starts(c, x) /\ x.pc = pc /\ x.cashout = calls[c].cashout
<1> DEFINE x == [calls[c] EXCEPT !.pc = pc]
<1>1. calls[c] \in CallTypes
    BY DEF StoreIsTyped
<1>2. x \in CashoutCalls /\ x.pc = pc /\ x.cashout = calls[c].cashout
    BY <1>1, CashoutFields DEF CashoutCalls, CashoutPcs
<1>3. Starts(c, x)
    BY Becomes
<1> HIDE DEF x
<1> QED
    BY <1>2, <1>3

\* The steps outside the handlers: a request, its end without a debit, and its expiry.
LEMMA CashoutWritesAreOwned ==
    ASSUME StoreIsTyped, CashoutsTyped, NEW r \in Cashouts,
           \/ \E g \in Agents, p \in Customers, n \in CashoutAmounts, m \in Commissions :
                 RequestCashout(r, g, p, n, m)
           \/ RejectCashout(r) \/ CancelCashout(r) \/ CashoutExpires(r)
    PROVE  CashoutOwned /\ CashoutsTyped'
<1>1. UNCHANGED calls /\ UNCHANGED ledgerVars
    BY DEF RequestCashout, RejectCashout, CancelCashout, CashoutExpires, ledgerVars
<1>2. \E row \in Cashout : cashouts' = [cashouts EXCEPT ![r] = row]
    <2>1. ASSUME NEW g \in Agents, NEW p \in Customers, NEW n \in CashoutAmounts,
                 NEW m \in Commissions, RequestCashout(r, g, p, n, m)
          PROVE  \E row \in Cashout : cashouts' = [cashouts EXCEPT ![r] = row]
        <3> DEFINE row == [status |-> "pending", agent |-> g, customer |-> p,
                           amount |-> n, commission |-> m, late |-> FALSE]
        <3>1. row \in Cashout
            BY CashoutsAssumption DEF Cashout, CashoutStatus
        <3>2. cashouts' = [cashouts EXCEPT ![r] = row]
            BY <2>1 DEF RequestCashout
        <3> HIDE DEF row
        <3> QED
            BY <3>1, <3>2
    <2>2. ASSUME NEW to \in CashoutStatus, cashouts[r].status = "pending",
                 cashouts' = [cashouts EXCEPT ![r].status = to]
          PROVE  \E row \in Cashout : cashouts' = [cashouts EXCEPT ![r] = row]
        BY <2>2, CashoutRows DEF CashoutStatus
    <2>3. CASE RejectCashout(r) \/ CancelCashout(r)
        BY <2>2, <2>3 DEF RejectCashout, CancelCashout, claims, CashoutStatus
    <2>4. CASE CashoutExpires(r)
        BY <2>4, CashoutRows DEF CashoutExpires, CashoutStatus
    <2> QED
        BY <2>1, <2>3, <2>4
<1>3. \A d \in Calls : calls[d].pc \in CashoutPcs => calls[d].cashout \in Cashouts
    BY CashoutFields DEF StoreIsTyped
<1>4. /\ CashoutTypeOK'
      /\ \A q \in Cashouts : cashouts[q] \in Cashout => cashouts'[q] \in Cashout
    BY <1>2, CashoutRowChanges
<1>5. CashoutsTyped'
    BY <1>1, <1>3, <1>4 DEF CashoutsTyped
<1> QED
    BY <1>1, <1>5 DEF CashoutOwned, Owned, StoreIsTyped

LEMMA ApproveCashoutIsOwned ==
    ASSUME StoreIsTyped, CashoutsTyped, NEW c \in Calls, NEW r \in Cashouts,
           ApproveCashout(c, r)
    PROVE  CashoutOwned /\ CashoutsTyped'
<1> DEFINE state == [pc |-> IF cashouts[r].late THEN "co.expire" ELSE "co.claim",
                     cashout |-> r]
<1>1. state \in CashoutCalls /\ state.cashout = r /\ CashoutCalls \in SUBSET CallTypes
    BY DEF CashoutCalls, CallTypes
<1>2. Starts(c, state) /\ calls[c].pc = "idle" /\ UNCHANGED ledgerVars /\ UNCHANGED cashouts
    BY DEF ApproveCashout, Receives, Idle, ledgerVars
<1>3. cashouts[r] \in Cashout
    BY CashoutRows DEF ApproveCashout, CashoutStatus
<1> HIDE DEF state
<1>4. CashoutsTyped'
    BY <1>1, <1>2, <1>3, CallAfter DEF CashoutsTyped, CashoutTypeOK, StoreIsTyped
<1> QED
    BY <1>1, <1>2, <1>4, OneCallMoves DEF CashoutOwned, Owned, StoreIsTyped

LEMMA CashoutHandlerIsOwned ==
    ASSUME StoreIsTyped, CashoutsTyped, NEW c \in Calls, CashoutProceeds(c)
    PROVE  CashoutOwned /\ CashoutsTyped'
<1> DEFINE r == calls[c].cashout
           row == cashouts[r]
           postings == agentCashOut(row.agent, row.customer, CashCurrency,
                                    row.amount, row.commission)
<1>1. /\ calls[c].pc \in CashoutPcs /\ r \in Cashouts /\ row \in Cashout
      /\ CashoutCalls \in SUBSET CallTypes
    BY CashoutFields
       DEF CashoutProceeds, ExpireCashout, ClaimCashout, DebitCashout, RevertCashout, At,
           CashoutPcs, StoreIsTyped, CashoutsTyped, CallTypes
<1>2. \E x \in CashoutCalls \cup {Idle} : Starts(c, x) /\ (x = Idle \/ x.cashout = r)
    <2>1. Returns(c) \/ \E pc \in CashoutPcs : GoesTo(c, pc)
        BY DEF CashoutProceeds, ExpireCashout, ClaimCashout, DebitCashout, RevertCashout,
               ClaimsCashout, AwaitsPost, AwaitsWrite, CashoutPcs
    <2> QED
        BY <1>1, <2>1, Becomes, CashoutGoesOn
<1>3. UNCHANGED ledgerVars \/ Post(CashoutKey(r), postings)
    BY DEF CashoutProceeds, ExpireCashout, ClaimCashout, DebitCashout, RevertCashout,
           AwaitsPost, Refuse
<1>4. postings \in Seq(Posting) /\ CashoutKey(r) \in CashoutKeys
    <2>1. /\ row.agent \in Agents /\ row.customer \in Customers
          /\ row.amount \in Int /\ row.commission \in Int /\ CashCurrency \in Currencies
        BY <1>1, CashoutsAssumption DEF Cashout
    <2> QED
        BY <1>1, <2>1, AgentOperationsAreJournals, OwnKeys
<1>5. \/ UNCHANGED cashouts
      \/ \E to \in CashoutStatus :
            /\ row.status \in CashoutStatus
            /\ cashouts' = [cashouts EXCEPT ![r].status = to]
    BY DEF CashoutProceeds, ExpireCashout, ClaimCashout, DebitCashout, RevertCashout,
           ClaimsCashout, claims, AwaitsWrite, CashoutStatus
<1>6. UNCHANGED cashouts \/ \E new \in Cashout : cashouts' = [cashouts EXCEPT ![r] = new]
    BY <1>1, <1>5, CashoutRows
<1> HIDE DEF r, row, postings
<1>7. /\ CashoutTypeOK'
      /\ \A q \in Cashouts : cashouts[q] \in Cashout => cashouts'[q] \in Cashout
    BY <1>1, <1>6, CashoutRowChanges DEF CashoutsTyped, CashoutTypeOK
<1>8. \A d \in Calls : calls'[d].pc \in CashoutPcs =>
          cashouts[calls'[d].cashout] \in Cashout /\ calls'[d].cashout \in Cashouts
    BY <1>1, <1>2, CallAfter, CashoutFields
       DEF Idle, CashoutPcs, StoreIsTyped, CashoutsTyped, row
<1>9. CashoutsTyped'
    BY <1>7, <1>8 DEF CashoutsTyped
<1> QED
    BY <1>1, <1>2, <1>3, <1>4, <1>9, OneCallMoves DEF CashoutOwned, Owned, StoreIsTyped

LEMMA CashoutStepsAreOwned ==
    ASSUME StoreIsTyped, CashoutsTyped, CashoutSteps \/ \E c \in Calls : CashoutProceeds(c)
    PROVE  CashoutOwned /\ CashoutsTyped'
BY CashoutWritesAreOwned, ApproveCashoutIsOwned, CashoutHandlerIsOwned DEF CashoutSteps

-----------------------------------------------------------------------------
(* Airtime: every step is its own, and keeps the types *)

AirtimeOwned == Owned(AirtimePcs, AirtimeCalls, TopupKeys)

\* applyBps of an amount and basis points is an amount.
LEMMA ApplyBpsIsNat ==
    ASSUME NEW n \in Nat, NEW bps \in Nat
    PROVE  Money!applyBps(n, bps) \in Nat
<1> DEFINE x == n * bps
<1>1. x \in Nat
    OBVIOUS
<1>2. Money!applyBps(n, bps) = IF (x % 10000) * 2 >= 10000 THEN (x \div 10000) + 1
                                                           ELSE x \div 10000
    BY DEF Money!applyBps, Money!roundHalfUpDiv
<1> HIDE DEF x
<1>3. x \div 10000 \in Nat
    BY <1>1
<1> QED
    BY <1>2, <1>3

\* A top-up's handler that goes on stays one.
LEMMA AirtimeGoesOn ==
    ASSUME StoreIsTyped, NEW c \in Calls, NEW pc \in AirtimePcs, GoesTo(c, pc),
           calls[c].pc \in AirtimePcs
    PROVE  \E x \in AirtimeCalls :
              /\ Starts(c, x) /\ x.pc = pc
              /\ x.topup = calls[c].topup /\ x.margin = calls[c].margin
<1> DEFINE x == [calls[c] EXCEPT !.pc = pc]
<1>1. calls[c] \in CallTypes
    BY DEF StoreIsTyped
<1>2. /\ x \in AirtimeCalls /\ x.pc = pc
      /\ x.topup = calls[c].topup /\ x.margin = calls[c].margin
    BY <1>1, AirtimeFields DEF AirtimeCalls, AirtimePcs
<1>3. Starts(c, x)
    BY Becomes
<1> HIDE DEF x
<1> QED
    BY <1>2, <1>3

LEMMA AirtimeArrivalsAreOwned ==
    ASSUME StoreIsTyped, AirtimeTypeOK, AirtimeSteps
    PROVE  AirtimeOwned /\ AirtimeTypeOK'
<1>1. ASSUME NEW bps \in Margins, SetMargin(bps)
      PROVE  AirtimeOwned /\ AirtimeTypeOK'
    BY <1>1, AirtimeAssumption
       DEF SetMargin, AirtimeOwned, Owned, StoreIsTyped, AirtimeTypeOK, ledgerVars
<1>2. ASSUME NEW c \in Calls, NEW k \in Topups, Topup(c, k)
      PROVE  AirtimeOwned /\ AirtimeTypeOK'
    <2> DEFINE m == Money!applyBps(TopupCost, margin)
               state == [pc |-> "air.debit", topup |-> k, margin |-> m]
    <2>1. m \in Nat
        BY ApplyBpsIsNat, AirtimeAssumption DEF AirtimeTypeOK
    <2>2. /\ Starts(c, state) /\ calls[c].pc = "idle"
          /\ UNCHANGED ledgerVars /\ UNCHANGED airtimeVars
        BY <1>2 DEF Topup, Receives, Idle, ledgerVars
    <2> HIDE DEF m
    <2>3. state \in AirtimeCalls /\ AirtimeCalls \in SUBSET CallTypes
        BY <2>1 DEF AirtimeCalls, CallTypes
    <2> HIDE DEF state
    <2> QED
        BY <2>2, <2>3, OneCallMoves
           DEF AirtimeOwned, Owned, StoreIsTyped, AirtimeTypeOK, airtimeVars
<1> QED
    BY <1>1, <1>2 DEF AirtimeSteps

LEMMA AirtimeHandlerIsOwned ==
    ASSUME StoreIsTyped, AirtimeTypeOK, NEW c \in Calls, AirtimeProceeds(c)
    PROVE  AirtimeOwned /\ AirtimeTypeOK'
<1> DEFINE k == calls[c].topup
           m == calls[c].margin
           there == airtimeTopup(Payer[k], TopupCurrency, TopupCost, m)
           back == reverseAirtime(Payer[k], TopupCurrency, TopupCost, m)
<1>1. /\ calls[c].pc \in AirtimePcs /\ k \in Topups /\ m \in Nat
      /\ AirtimeCalls \in SUBSET CallTypes
    BY AirtimeFields
       DEF AirtimeProceeds, DebitTopup, SendTopup, ReverseTopup, At, AirtimePcs,
           StoreIsTyped, CallTypes
<1>2. \E x \in AirtimeCalls \cup {Idle} : Starts(c, x)
    <2>1. Returns(c) \/ \E pc \in AirtimePcs : GoesTo(c, pc)
        BY DEF AirtimeProceeds, DebitTopup, SendTopup, ReverseTopup, AwaitsPost, AirtimePcs
    <2> QED
        BY <1>1, <2>1, Becomes, AirtimeGoesOn
<1>3. UNCHANGED ledgerVars \/ Post(TopupKey(k), there) \/ Post(ReversalKey(k), back)
    BY DEF AirtimeProceeds, DebitTopup, SendTopup, ReverseTopup, ReversalPostings,
           AwaitsPost, Refuse, ledgerVars
<1>4. /\ there \in Seq(Posting) /\ back \in Seq(Posting)
      /\ TopupKey(k) \in TopupKeys /\ ReversalKey(k) \in TopupKeys
    <2>1. Payer[k] \in Customers /\ TopupCurrency \in Currencies /\ TopupCost \in Int
        BY <1>1, AirtimeAssumption
    <2> QED
        BY <1>1, <2>1, AirtimeIsJournal, OwnKeys
<1>5. /\ UNCHANGED margin
      /\ \/ UNCHANGED sent
         \/ sent[k] < MaxSends /\ sent' = [sent EXCEPT ![k] = @ + 1]
    BY DEF AirtimeProceeds, DebitTopup, SendTopup, ReverseTopup, airtimeVars
<1> HIDE DEF k, m, there, back
<1>6. AirtimeTypeOK'
    BY <1>1, <1>5, AirtimeAssumption DEF AirtimeTypeOK
<1> QED
    BY <1>1, <1>2, <1>3, <1>4, <1>6, OneCallMoves DEF AirtimeOwned, Owned, StoreIsTyped

LEMMA AirtimeStepsAreOwned ==
    ASSUME StoreIsTyped, AirtimeTypeOK, AirtimeSteps \/ \E c \in Calls : AirtimeProceeds(c)
    PROVE  AirtimeOwned /\ AirtimeTypeOK'
BY AirtimeArrivalsAreOwned, AirtimeHandlerIsOwned

-----------------------------------------------------------------------------
(* Deposits: every step is their own, and keeps the types *)

DepositOwned == Owned(DepositPcs, DepositCalls, FundKeys)

HookPcs == {"hook.intent", "hook.fund", "hook.paid", "hook.record"}

\* A charge that has been shown has an intent, and what is reported of a paid one
\* comes from its provider.
ChargesAreRecorded ==
    \A d \in Charges :
        /\ charges[d].state \in {"shown", "paid"} => intents[d] # NoIntent
        /\ charges[d].state = "paid" => charges[d].report \in Reports[Gateway[d]]

\* An intent is written for the charge that was just opened; a settlement is
\* handled once the charge is paid.
DepositCallOK(x) ==
    /\ x.pc = "dep.intent" => charges[x.charge] = [state |-> "open"]
    /\ x.pc \in HookPcs \ {"hook.record"} => x.event = "settled"
    /\ x.pc \in HookPcs /\ x.event = "settled" => charges[x.charge].state = "paid"

OpenedOnce ==
    \A c, e \in Calls :
        /\ calls[c].pc = "dep.intent" /\ calls[e].pc = "dep.intent"
        /\ calls[c].charge = calls[e].charge
        => c = e

DepositsTyped ==
    /\ DepositTypeOK
    /\ ChargesAreRecorded
    /\ \A c \in Calls : DepositCallOK(calls[c])
    /\ OpenedOnce

LEMMA DepositRows ==
    ASSUME DepositsTyped, NEW d \in Charges
    PROVE  /\ charges[d] \in Charge \/ charges[d] = NoCharge
           /\ charges[d] = NoCharge => charges[d].state = "none"
           /\ charges[d].state = "shown" => charges[d] = [state |-> "shown"]
           /\ charges[d].state = "paid" => intents[d] \in Intent
           /\ intents[d] # NoIntent => intents[d] \in Intent
           /\ intents[d] = NoIntent => intents[d].status = "none"
<1>1. charges[d] \in Charge \/ charges[d] = NoCharge
    BY DEF DepositsTyped, DepositTypeOK
<1>2. charges[d].state = "shown" => charges[d] = [state |-> "shown"]
    BY <1>1 DEF Charge, NoCharge
<1>3. intents[d] # NoIntent => intents[d] \in Intent
    BY DEF DepositsTyped, DepositTypeOK
<1> QED
    BY <1>1, <1>2, <1>3 DEF DepositsTyped, ChargesAreRecorded, NoCharge, NoIntent

\* What a webhook credits is a number.
LEMMA CreditMinorIsInt ==
    ASSUME DepositsTyped, NEW d \in Charges, charges[d].state = "paid"
    PROVE  CreditMinor(d) \in Int
<1> DEFINE report == charges[d].report
<1>1. report \in Reports[Gateway[d]] /\ intents[d].amount \in Int
    BY DepositRows DEF DepositsTyped, ChargesAreRecorded, Intent
<1>2. /\ Money!usdtMinorOrNull(report.net) \in Int
      /\ Money!usdtMinorOrNull(report.gross) \in Int
    BY <1>1, DepositsAssumption
<1> QED
    BY <1>1, <1>2 DEF CreditMinor

LEMMA OpenDepositIsOwned ==
    ASSUME StoreIsTyped, DepositsTyped, NEW c \in Calls, NEW d \in Charges,
           NEW n \in DepositAmounts, OpenDeposit(c, d, n)
    PROVE  DepositOwned /\ DepositsTyped'
<1> DEFINE state == [pc |-> "dep.intent", charge |-> d, amount |-> n]
<1>1. /\ state \in DepositCalls /\ state.pc = "dep.intent" /\ state.charge = d
      /\ DepositCalls \in SUBSET CallTypes
    BY DepositsAssumption DEF DepositCalls, CallTypes
<1>2. UNCHANGED calls \/ Starts(c, state)
    BY DEF OpenDeposit
<1>3. /\ calls[c].pc = "idle" /\ charges[d] = NoCharge
      /\ charges' = [charges EXCEPT ![d] = [state |-> "open"]]
      /\ UNCHANGED ledgerVars /\ UNCHANGED <<intents, events>>
    BY DEF OpenDeposit, Receives, Idle, ledgerVars
<1> HIDE DEF state
<1>4. /\ charges'[d] = [state |-> "open"]
      /\ \A e \in Charges \ {d} : charges'[e] = charges[e]
    BY <1>3 DEF DepositsTyped, DepositTypeOK
<1>5. DepositTypeOK'
    BY <1>3 DEF DepositsTyped, DepositTypeOK, Charge
<1>6. ChargesAreRecorded'
    BY <1>3, <1>4 DEF DepositsTyped, ChargesAreRecorded
<1>7. \A e \in Calls : /\ calls[e].pc \in DepositPcs => calls[e].charge \in Charges
                       /\ calls[e].pc = "dep.intent" => calls[e].charge # d
    BY <1>3, DepositFields
       DEF DepositsTyped, DepositCallOK, StoreIsTyped, NoCharge, DepositPcs, HookPcs
<1>8. \A e \in Calls : DepositCallOK(calls[e])'
    <2>1. DepositCallOK(state)'
        BY <1>1, <1>4 DEF DepositCallOK, HookPcs
    <2>2. ASSUME NEW e \in Calls, calls'[e] = calls[e]
          PROVE  DepositCallOK(calls[e])'
        BY <1>3, <1>4, <1>7, <2>2
           DEF DepositsTyped, DepositCallOK, NoCharge, HookPcs, DepositPcs
    <2> QED
        BY <1>2, <2>1, <2>2, CallAfter DEF StoreIsTyped
<1>9. OpenedOnce'
    BY <1>1, <1>2, <1>7, CallAfter DEF DepositsTyped, OpenedOnce, StoreIsTyped
<1> QED
    BY <1>1, <1>2, <1>3, <1>5, <1>6, <1>8, <1>9, OneCallMoves
       DEF DepositOwned, Owned, StoreIsTyped, DepositsTyped

LEMMA RecordIntentIsOwned ==
    ASSUME StoreIsTyped, DepositsTyped, NEW c \in Calls, RecordIntent(c)
    PROVE  DepositOwned /\ DepositsTyped'
<1> DEFINE d == calls[c].charge
           row == [status |-> "pending", customer |-> Depositor[d],
                   amount |-> calls[c].amount]
<1>1. /\ calls[c].pc = "dep.intent" /\ calls[c].pc \in DepositPcs
      /\ d \in Charges /\ row \in Intent /\ charges[d] = [state |-> "open"]
    BY DepositFields, DepositsAssumption
       DEF RecordIntent, At, StoreIsTyped, DepositPcs, Intent, DepositsTyped, DepositCallOK
<1>2. /\ Starts(c, Idle) /\ UNCHANGED ledgerVars /\ UNCHANGED events
      /\ \/ UNCHANGED intents /\ UNCHANGED charges
         \/ /\ intents' = [intents EXCEPT ![d] = row]
            /\ \/ charges' = [charges EXCEPT ![d].state = "shown"]
               \/ UNCHANGED charges
    BY Becomes DEF RecordIntent, AwaitsWrite, ledgerVars
<1> HIDE DEF d, row
<1>3. /\ \A e \in Charges : charges[e] # charges'[e] =>
             e = d /\ charges'[d] = [state |-> "shown"] /\ intents' = [intents EXCEPT ![d] = row]
      /\ charges' \in [Charges -> Charge \cup {NoCharge}]
    <2>1. CASE UNCHANGED charges
        BY <2>1 DEF DepositsTyped, DepositTypeOK
    <2>2. CASE charges' = [charges EXCEPT ![d].state = "shown"]
        <3>1. [charges[d] EXCEPT !.state = "shown"] = [state |-> "shown"]
            BY <1>1
        <3>2. charges' = [charges EXCEPT ![d] = [state |-> "shown"]]
            BY <2>2, <3>1
        <3>3. intents' = [intents EXCEPT ![d] = row] \/ UNCHANGED charges
            BY <1>2
        <3> QED
            BY <1>1, <3>2, <3>3 DEF DepositsTyped, DepositTypeOK, Charge
    <2> QED
        BY <1>2, <2>1, <2>2
<1>4. \A e \in Charges : intents[e] # NoIntent => intents'[e] # NoIntent
    BY <1>1, <1>2 DEF DepositsTyped, DepositTypeOK, Intent, NoIntent
<1>5. DepositTypeOK'
    BY <1>1, <1>2, <1>3 DEF DepositsTyped, DepositTypeOK
<1>6. ChargesAreRecorded'
    <2> SUFFICES ASSUME NEW e \in Charges
                 PROVE  /\ charges'[e].state \in {"shown", "paid"} => intents'[e] # NoIntent
                        /\ charges'[e].state = "paid" => charges'[e].report \in Reports[Gateway[e]]
        BY DEF ChargesAreRecorded
    <2>1. CASE charges[e] = charges'[e]
        BY <1>4, <2>1 DEF DepositsTyped, ChargesAreRecorded
    <2>2. CASE charges[e] # charges'[e]
        <3>1. charges'[e] = [state |-> "shown"] /\ intents'[e] = row
            BY <1>1, <1>3, <2>2 DEF DepositsTyped, DepositTypeOK
        <3> QED
            BY <1>1, <3>1 DEF Intent, NoIntent
    <2> QED
        BY <2>1, <2>2
<1>7. \A e \in Calls : /\ calls[e].pc \in DepositPcs => calls[e].charge \in Charges
                       /\ calls[e].pc = "dep.intent" /\ e # c => calls[e].charge # d
    BY <1>1, DepositFields DEF DepositsTyped, OpenedOnce, StoreIsTyped, DepositPcs, d
<1>8. \A e \in Calls : calls'[e] = IF e = c THEN Idle ELSE calls[e]
    BY <1>2, CallAfter DEF StoreIsTyped
<1>9. \A e \in Calls : DepositCallOK(calls[e])'
    <2> SUFFICES ASSUME NEW e \in Calls
                 PROVE  DepositCallOK(calls[e])'
        OBVIOUS
    <2>1. CASE e = c
        BY <1>8, <2>1 DEF DepositCallOK, Idle, HookPcs
    <2>2. CASE e # c
        BY <1>1, <1>3, <1>7, <1>8, <2>2
           DEF DepositsTyped, DepositCallOK, HookPcs, DepositPcs
    <2> QED
        BY <2>1, <2>2
<1>10. OpenedOnce'
    BY <1>8 DEF DepositsTyped, OpenedOnce, Idle
<1>11. DepositCalls \in SUBSET CallTypes
    BY DEF CallTypes
<1> QED
    BY <1>1, <1>2, <1>5, <1>6, <1>9, <1>10, <1>11, OneCallMoves
       DEF DepositOwned, Owned, StoreIsTyped, DepositsTyped

LEMMA PayIsOwned ==
    ASSUME StoreIsTyped, DepositsTyped, NEW d \in Charges,
           NEW report \in Reports[Gateway[d]], Pay(d, report)
    PROVE  DepositOwned /\ DepositsTyped'
<1> DEFINE row == [state |-> "paid", report |-> report]
<1>1. /\ charges[d].state = "shown" /\ charges' = [charges EXCEPT ![d] = row]
      /\ UNCHANGED calls /\ UNCHANGED ledgerVars /\ UNCHANGED <<intents, events>>
    BY DEF Pay, ledgerVars
<1>2. row \in Charge /\ row.state = "paid" /\ row.report = report
    BY DEF Charge
<1> HIDE DEF row
<1>3. charges'[d] = row /\ \A e \in Charges \ {d} : charges'[e] = charges[e]
    BY <1>1 DEF DepositsTyped, DepositTypeOK
<1>4. DepositTypeOK'
    BY <1>1, <1>2 DEF DepositsTyped, DepositTypeOK
<1>5. ChargesAreRecorded'
    BY <1>1, <1>2, <1>3 DEF DepositsTyped, ChargesAreRecorded
<1>6. \A e \in Calls : calls[e].pc \in DepositPcs => calls[e].charge \in Charges
    BY DepositFields DEF StoreIsTyped, DepositPcs
<1>7. \A e \in Calls : DepositCallOK(calls[e])'
    BY <1>1, <1>2, <1>3, <1>6 DEF DepositsTyped, DepositCallOK, HookPcs, DepositPcs
<1>8. OpenedOnce'
    BY <1>1 DEF DepositsTyped, OpenedOnce
<1> QED
    BY <1>1, <1>4, <1>5, <1>7, <1>8 DEF DepositOwned, Owned, StoreIsTyped, DepositsTyped

\* A handler of a webhook moves, and the charges stay as they are.
LEMMA HookMovesAreOwned ==
    ASSUME StoreIsTyped, DepositsTyped, NEW c \in Calls,
           calls[c].pc \in HookPcs \cup {"idle"},
           NEW x \in DepositCalls \cup {Idle}, Starts(c, x),
           x.pc # "dep.intent", DepositCallOK(x), UNCHANGED charges,
           \A d \in Charges : intents[d] # NoIntent => intents'[d] # NoIntent,
           DepositTypeOK',
           UNCHANGED ledgerVars \/ \E k \in FundKeys, s \in Seq(Posting) : Post(k, s)
    PROVE  DepositOwned /\ DepositsTyped'
<1>1. calls[c].pc \in DepositPcs \cup {"idle"} /\ DepositCalls \in SUBSET CallTypes
    BY DEF CallTypes, HookPcs, DepositPcs
<1>2. calls'[c] = x /\ \A e \in Calls \ {c} : calls'[e] = calls[e]
    BY CallAfter DEF StoreIsTyped
<1>3. ChargesAreRecorded'
    BY DEF DepositsTyped, ChargesAreRecorded
<1>4. \A e \in Calls : DepositCallOK(calls[e])'
    BY <1>2 DEF DepositsTyped, DepositCallOK
<1>5. OpenedOnce'
    BY <1>2 DEF DepositsTyped, OpenedOnce
<1> QED
    BY <1>1, <1>3, <1>4, <1>5, OneCallMoves DEF DepositOwned, Owned, StoreIsTyped, DepositsTyped

LEMMA DeliverIsOwned ==
    ASSUME StoreIsTyped, DepositsTyped, NEW c \in Calls, NEW d \in Charges,
           NEW event \in EventKinds, Deliver(c, d, event)
    PROVE  DepositOwned /\ DepositsTyped'
<1> DEFINE x == [pc |-> IF event = "settled" THEN "hook.intent" ELSE "hook.record",
                 charge |-> d, event |-> event]
<1>1. x \in DepositCalls /\ x.pc # "dep.intent"
    BY DEF DepositCalls
<1>2. DepositCallOK(x)
    BY DEF DepositCallOK, Deliver, Happened, HookPcs
<1>3. /\ Starts(c, x) /\ calls[c].pc = "idle" /\ UNCHANGED ledgerVars
      /\ UNCHANGED <<charges, intents, events>>
    BY DEF Deliver, Receives, Idle, ledgerVars, depositVars
<1> HIDE DEF x
<1> QED
    BY <1>1, <1>2, <1>3, HookMovesAreOwned DEF DepositsTyped, DepositTypeOK

\* A webhook's handler that goes on stays one.
LEMMA HookGoesOn ==
    ASSUME StoreIsTyped, NEW c \in Calls, NEW pc \in HookPcs, GoesTo(c, pc),
           calls[c].pc \in HookPcs
    PROVE  \E x \in DepositCalls :
              /\ Starts(c, x) /\ x.pc = pc
              /\ x.charge = calls[c].charge /\ x.event = calls[c].event
<1> DEFINE x == [calls[c] EXCEPT !.pc = pc]
<1>1. calls[c] \in CallTypes
    BY DEF StoreIsTyped
<1>2. /\ x \in DepositCalls /\ x.pc = pc
      /\ x.charge = calls[c].charge /\ x.event = calls[c].event
    BY <1>1, DepositFields DEF DepositCalls, HookPcs
<1>3. Starts(c, x)
    BY Becomes
<1> HIDE DEF x
<1> QED
    BY <1>2, <1>3

LEMMA HookIsOwned ==
    ASSUME StoreIsTyped, DepositsTyped, NEW c \in Calls,
           HookIntent(c) \/ HookFund(c) \/ HookMarkPaid(c) \/ HookRecord(c)
    PROVE  DepositOwned /\ DepositsTyped'
<1> DEFINE d == calls[c].charge
           event == calls[c].event
           postings == fundWallet(intents[d].customer, DepositCurrency[Gateway[d]],
                                  CreditMinor(d))
<1>1. calls[c].pc \in HookPcs /\ d \in Charges /\ event \in EventKinds
    BY DepositFields
       DEF HookIntent, HookFund, HookMarkPaid, HookRecord, At, HookPcs, StoreIsTyped
<1>2. \E x \in DepositCalls \cup {Idle} :
          Starts(c, x) /\ x.pc # "dep.intent" /\ DepositCallOK(x)
    <2>1. \/ Starts(c, Idle)
          \/ \E pc \in HookPcs : /\ GoesTo(c, pc)
                                 /\ calls[c].pc # "hook.record"
        BY Becomes DEF HookIntent, HookFund, HookMarkPaid, HookRecord, AwaitsPost,
                       AwaitsWrite, HookPcs, At
    <2>2. Idle.pc # "dep.intent" /\ DepositCallOK(Idle)
        BY DEF Idle, DepositCallOK, HookPcs
    <2>3. ASSUME NEW pc \in HookPcs, GoesTo(c, pc), calls[c].pc # "hook.record",
                 NEW x \in DepositCalls, x.pc = pc, x.charge = d, x.event = event
          PROVE  x.pc # "dep.intent" /\ DepositCallOK(x)
        BY <1>1, <2>3 DEF DepositsTyped, DepositCallOK, HookPcs
    <2> QED
        BY <1>1, <2>1, <2>2, <2>3, HookGoesOn
<1>3. /\ UNCHANGED charges
      /\ UNCHANGED intents \/ /\ calls[c].pc = "hook.paid"
                              /\ intents' = [intents EXCEPT ![d].status = "paid"]
      /\ UNCHANGED events \/ events' = events \cup {<<d, event>>}
    BY DEF HookIntent, HookFund, HookMarkPaid, HookRecord, AwaitsWrite, depositVars, At
<1>4. UNCHANGED ledgerVars \/ (calls[c].pc = "hook.fund" /\ Post(FundKey(d), postings))
    BY DEF HookIntent, HookFund, HookMarkPaid, HookRecord, AwaitsPost, Refuse, ledgerVars, At
<1>5. calls[c].pc # "hook.record" => charges[d].state = "paid" /\ intents[d] \in Intent
    BY <1>1, DepositRows DEF DepositsTyped, DepositCallOK, HookPcs
<1>6. UNCHANGED ledgerVars \/ \E k \in FundKeys, s \in Seq(Posting) : Post(k, s)
    <2>1. CASE calls[c].pc = "hook.fund" /\ Post(FundKey(d), postings)
        <3>1. CreditMinor(d) \in Int /\ intents[d].customer \in Customers
            BY <1>1, <1>5, <2>1, CreditMinorIsInt DEF Intent
        <3>2. DepositCurrency[Gateway[d]] \in Currencies
            BY <1>1, DepositsAssumption
        <3>3. postings \in Seq(Posting) /\ FundKey(d) \in FundKeys
            BY <1>1, <3>1, <3>2, MovesAreJournals, OwnKeys
        <3> HIDE DEF postings
        <3> QED
            BY <2>1, <3>3
    <2> QED
        BY <1>4, <2>1
<1> HIDE DEF d, event, postings
<1>7. /\ DepositTypeOK'
      /\ \A e \in Charges : intents[e] # NoIntent => intents'[e] # NoIntent
    <2>1. events' \subseteq Charges \X EventKinds
        BY <1>1, <1>3 DEF DepositsTyped, DepositTypeOK
    <2>2. /\ intents' \in [Charges -> Intent \cup {NoIntent}]
          /\ \A e \in Charges : intents[e] # NoIntent => intents'[e] # NoIntent
        <3>1. CASE UNCHANGED intents
            BY <3>1 DEF DepositsTyped, DepositTypeOK
        <3>2. CASE calls[c].pc = "hook.paid" /\ intents' = [intents EXCEPT ![d].status = "paid"]
            <4> DEFINE new == [intents[d] EXCEPT !.status = "paid"]
            <4>1. new \in Intent /\ new # NoIntent
                BY <1>5, <3>2 DEF Intent, NoIntent
            <4>2. intents' = [intents EXCEPT ![d] = new]
                BY <3>2
            <4> HIDE DEF new
            <4> QED
                BY <1>1, <4>1, <4>2 DEF DepositsTyped, DepositTypeOK
        <3> QED
            BY <1>3, <3>1, <3>2
    <2> QED
        BY <1>3, <2>1, <2>2 DEF DepositsTyped, DepositTypeOK
<1> QED
    BY <1>1, <1>2, <1>3, <1>6, <1>7, HookMovesAreOwned

LEMMA DepositStepsAreOwned ==
    ASSUME StoreIsTyped, DepositsTyped, DepositSteps \/ \E c \in Calls : DepositProceeds(c)
    PROVE  DepositOwned /\ DepositsTyped'
BY OpenDepositIsOwned, PayIsOwned, DeliverIsOwned, RecordIntentIsOwned, HookIsOwned
   DEF DepositSteps, DepositProceeds

-----------------------------------------------------------------------------
(* Referrals: every step is their own, and keeps the types *)

ReferralOwned == Owned(ReferralPcs, ReferralCalls, RewardKeys)

\* A search for a code that goes on has attempts left.
ReferralCallOK(x) == x.pc \in {"ref.create", "ref.again"} => x.attempts > 0

ReferralsTyped ==
    /\ ReferralTypeOK
    /\ \A c \in Calls : ReferralCallOK(calls[c])

BonusType == [minor : Nat, currency : Currencies]

\* The calls a referral's handler may be, with their fields.
LEMMA ReferralCallsExist ==
    /\ Idle \in CallTypes /\ ReferralCallOK(Idle)
    /\ ReferralCalls \in SUBSET CallTypes
    /\ \A pc \in {"ref.create", "ref.again"}, u \in Users, n \in 0..CodeAttempts :
          [pc |-> pc, owner |-> u, attempts |-> n] \in ReferralCalls
    /\ \A pc \in {"ref.record", "ref.bonus"}, u \in Users, v \in Users :
          [pc |-> pc, referred |-> u, referrer |-> v] \in ReferralCalls
    /\ \A pc \in {"ref.second", "ref.reward", "ref.mark"}, u \in Users, v \in Users,
          b \in BonusType :
          [pc |-> pc, referred |-> u, referrer |-> v, read |-> b] \in ReferralCalls
    /\ \A b \in BonusType : [pc |-> "bonus.currency", bonus |-> b] \in ReferralCalls
BY DEF CallTypes, ReferralCalls, BonusType, ReferralCallOK, Idle

\* A handler moves, or none does.
LEMMA ReferralMovesAreOwned ==
    ASSUME StoreIsTyped, ReferralsTyped, NEW c \in Calls,
           calls[c].pc \in ReferralPcs \cup {"idle"},
           \/ UNCHANGED calls
           \/ \E x \in ReferralCalls \cup {Idle} : Starts(c, x) /\ ReferralCallOK(x),
           ReferralTypeOK',
           UNCHANGED ledgerVars \/ \E k \in RewardKeys, s \in Seq(Posting) : Post(k, s)
    PROVE  ReferralOwned /\ ReferralsTyped'
<1>1. ReferralCalls \in SUBSET CallTypes
    BY ReferralCallsExist
<1>2. \A e \in Calls : ReferralCallOK(calls'[e])
    BY CallAfter DEF StoreIsTyped, ReferralsTyped
<1>3. \A e \in Calls : ReferralCallOK(calls[e])'
    BY <1>2 DEF ReferralCallOK
<1> QED
    BY <1>1, <1>3, OneCallMoves DEF ReferralOwned, Owned, StoreIsTyped, ReferralsTyped

LEMMA CodeStepsAreOwned ==
    ASSUME StoreIsTyped, ReferralsTyped, NEW c \in Calls,
           \/ \E u \in Users : CodeFor(c, u)
           \/ ReadCodeAgain(c)
           \/ \E code \in ReferralCodes : CreateCode(c, code)
    PROVE  ReferralOwned /\ ReferralsTyped'
<1>1. UNCHANGED ledgerVars /\ UNCHANGED <<referrals, bonus>>
    BY DEF CodeFor, ReadCodeAgain, CreateCode, ledgerVars
<1>2. ASSUME NEW u \in Users, CodeFor(c, u)
      PROVE  ReferralOwned /\ ReferralsTyped'
    <2> DEFINE x == [pc |-> "ref.create", owner |-> u, attempts |-> CodeAttempts]
    <2>1. x \in ReferralCalls /\ ReferralCallOK(x)
        BY ReferralCallsExist, ReferralsAssumption DEF ReferralCallOK
    <2>2. calls[c].pc = "idle" /\ (UNCHANGED calls \/ Starts(c, x)) /\ UNCHANGED codes
        BY <1>2 DEF CodeFor, Receives, Idle
    <2>3. shared' \in [Users -> SUBSET ReferralCodes]
        BY <1>2 DEF CodeFor, Shows, ReferralsTyped, ReferralTypeOK
    <2> HIDE DEF x
    <2> QED
        BY <1>1, <2>1, <2>2, <2>3, ReferralMovesAreOwned DEF ReferralsTyped, ReferralTypeOK
<1>3. ASSUME ReadCodeAgain(c)
      PROVE  ReferralOwned /\ ReferralsTyped'
    <2> DEFINE u == calls[c].owner
               left == calls[c].attempts - 1
               x == [pc |-> "ref.create", owner |-> u, attempts |-> left]
    <2>1. /\ calls[c].pc = "ref.again" /\ calls[c].pc \in ReferralPcs
          /\ u \in Users /\ calls[c].attempts \in 0..CodeAttempts /\ calls[c].attempts > 0
        BY <1>3, ReferralFields
           DEF ReadCodeAgain, At, ReferralPcs, StoreIsTyped, ReferralsTyped, ReferralCallOK
    <2>2. left # 0 => left \in 0..CodeAttempts /\ left > 0
        BY <2>1, ReferralsAssumption
    <2>3. left # 0 => x \in ReferralCalls /\ ReferralCallOK(x)
        BY <2>1, <2>2, ReferralCallsExist DEF ReferralCallOK
    <2>4. Starts(c, Idle) \/ (left # 0 /\ Starts(c, x))
        BY <1>3, Becomes DEF ReadCodeAgain
    <2>5. shared' \in [Users -> SUBSET ReferralCodes] /\ UNCHANGED codes
        BY <1>3, <2>1 DEF ReadCodeAgain, Shows, ReferralsTyped, ReferralTypeOK
    <2> HIDE DEF x, left
    <2> QED
        BY <1>1, <2>1, <2>3, <2>4, <2>5, ReferralMovesAreOwned, ReferralCallsExist
           DEF ReferralsTyped, ReferralTypeOK
<1>4. ASSUME NEW code \in ReferralCodes, CreateCode(c, code)
      PROVE  ReferralOwned /\ ReferralsTyped'
    <2> DEFINE u == calls[c].owner
               x == [calls[c] EXCEPT !.pc = "ref.again"]
    <2>1. /\ calls[c].pc = "ref.create" /\ calls[c].pc \in ReferralPcs /\ u \in Users
        BY <1>4, ReferralFields DEF CreateCode, At, ReferralPcs, StoreIsTyped
    <2>2. x \in ReferralCalls /\ ReferralCallOK(x)
        BY <2>1, ReferralFields
           DEF StoreIsTyped, ReferralsTyped, ReferralCallOK, ReferralCalls
    <2>3. Starts(c, Idle) \/ Starts(c, x)
        BY <1>4, Becomes DEF CreateCode, AwaitsWrite
    <2>4. /\ shared' \in [Users -> SUBSET ReferralCodes]
          /\ codes' \in [Users -> ReferralCodes \cup {NoCode}]
        BY <1>4, <2>1 DEF CreateCode, Shows, AwaitsWrite, ReferralsTyped, ReferralTypeOK
    <2> HIDE DEF x
    <2> QED
        BY <1>1, <2>1, <2>2, <2>3, <2>4, ReferralMovesAreOwned, ReferralCallsExist
           DEF ReferralsTyped, ReferralTypeOK
<1> QED
    BY <1>2, <1>3, <1>4

LEMMA SignUpIsOwned ==
    ASSUME StoreIsTyped, ReferralsTyped, NEW c \in Calls,
           \/ \E u \in Users, code \in ReferralCodes : SignUp(c, u, code)
           \/ RecordReferral(c)
    PROVE  ReferralOwned /\ ReferralsTyped'
<1>1. UNCHANGED ledgerVars /\ UNCHANGED <<codes, shared, bonus>>
    BY DEF SignUp, RecordReferral, ledgerVars, referralVars
<1>2. ASSUME NEW u \in Users, NEW code \in ReferralCodes, SignUp(c, u, code)
      PROVE  ReferralOwned /\ ReferralsTyped'
    <2>1. PICK v \in Users :
              Starts(c, [pc |-> "ref.record", referred |-> u, referrer |-> v])
        BY <1>2 DEF SignUp
    <2> DEFINE x == [pc |-> "ref.record", referred |-> u, referrer |-> v]
    <2>2. x \in ReferralCalls /\ ReferralCallOK(x) /\ Starts(c, x)
        BY <2>1, ReferralCallsExist DEF ReferralCallOK
    <2>3. calls[c].pc = "idle" /\ UNCHANGED referrals
        BY <1>2 DEF SignUp, Receives, Idle, referralVars
    <2> HIDE DEF x
    <2> QED
        BY <1>1, <2>2, <2>3, ReferralMovesAreOwned DEF ReferralsTyped, ReferralTypeOK
<1>3. ASSUME RecordReferral(c)
      PROVE  ReferralOwned /\ ReferralsTyped'
    <2> DEFINE row == [status |-> "pending", referrer |-> calls[c].referrer]
    <2>1. /\ calls[c].pc = "ref.record" /\ calls[c].pc \in ReferralPcs
          /\ calls[c].referred \in Users /\ row \in Referral
        BY <1>3, ReferralFields DEF RecordReferral, At, ReferralPcs, StoreIsTyped, Referral
    <2>2. /\ Starts(c, Idle)
          /\ UNCHANGED referrals \/ referrals' = [referrals EXCEPT ![calls[c].referred] = row]
        BY <1>3, Becomes DEF RecordReferral, AwaitsWrite
    <2> HIDE DEF row
    <2>3. ReferralTypeOK'
        BY <1>1, <2>1, <2>2 DEF ReferralsTyped, ReferralTypeOK
    <2> QED
        BY <1>1, <2>1, <2>2, <2>3, ReferralMovesAreOwned, ReferralCallsExist
<1> QED
    BY <1>2, <1>3

LEMMA TransactedIsOwned ==
    ASSUME StoreIsTyped, ReferralsTyped, NEW c \in Calls,
           \/ \E u \in Users : Transacted(c, u)
           \/ ReadBonus(c)
           \/ \E setting \in {"minor", "currency"} : ReadBonusAgain(c, setting)
    PROVE  ReferralOwned /\ ReferralsTyped'
<1>1. UNCHANGED ledgerVars /\ ReferralTypeOK'
    BY DEF Transacted, ReadBonus, ReadBonusAgain, ledgerVars, referralVars,
           ReferralsTyped, ReferralTypeOK
<1>2. ASSUME NEW u \in Users, Transacted(c, u)
      PROVE  ReferralOwned /\ ReferralsTyped'
    <2> DEFINE x == [pc |-> "ref.bonus", referred |-> u, referrer |-> referrals[u].referrer]
    <2>1. referrals[u].referrer \in Users
        BY <1>2 DEF Transacted, ReferralsTyped, ReferralTypeOK, Referral, NoReferral
    <2>2. x \in ReferralCalls /\ ReferralCallOK(x)
        BY <2>1, ReferralCallsExist DEF ReferralCallOK
    <2>3. calls[c].pc = "idle" /\ Starts(c, x)
        BY <1>2 DEF Transacted, Receives, Idle
    <2> HIDE DEF x
    <2> QED
        BY <1>1, <2>2, <2>3, ReferralMovesAreOwned
<1>3. ASSUME ReadBonus(c)
      PROVE  ReferralOwned /\ ReferralsTyped'
    <2> DEFINE x == [pc |-> "ref.second", referred |-> calls[c].referred,
                     referrer |-> calls[c].referrer, read |-> bonus]
    <2>1. /\ calls[c].pc = "ref.bonus" /\ calls[c].pc \in ReferralPcs
          /\ calls[c].referred \in Users /\ calls[c].referrer \in Users
        BY <1>3, ReferralFields DEF ReadBonus, At, ReferralPcs, StoreIsTyped
    <2>2. bonus \in BonusType
        BY DEF BonusType, ReferralsTyped, ReferralTypeOK
    <2>3. x \in ReferralCalls /\ ReferralCallOK(x) /\ Starts(c, x)
        BY <1>3, <2>1, <2>2, ReferralCallsExist DEF ReferralCallOK, ReadBonus
    <2> HIDE DEF x
    <2> QED
        BY <1>1, <2>1, <2>3, ReferralMovesAreOwned
<1>4. ASSUME NEW setting \in {"minor", "currency"}, ReadBonusAgain(c, setting)
      PROVE  ReferralOwned /\ ReferralsTyped'
    <2> DEFINE read == [calls[c].read EXCEPT ![setting] = bonus[setting]]
               x == [calls[c] EXCEPT !.pc = "ref.reward", !.read = read]
    <2>1. /\ calls[c].pc = "ref.second" /\ calls[c].pc \in ReferralPcs
          /\ calls[c] \in [pc : {"ref.second", "ref.reward", "ref.mark"}, referred : Users,
                           referrer : Users, read : BonusType]
        BY <1>4, ReferralFields DEF ReadBonusAgain, At, ReferralPcs, StoreIsTyped, BonusType
    <2>2. read \in BonusType
        <3>1. bonus \in BonusType /\ calls[c].read \in BonusType
            BY <2>1 DEF BonusType, ReferralsTyped, ReferralTypeOK
        <3>2. CASE setting = "minor"
            BY <3>1, <3>2 DEF BonusType
        <3>3. CASE setting = "currency"
            BY <3>1, <3>3 DEF BonusType
        <3> QED
            BY <3>2, <3>3
    <2>3. Starts(c, Idle) \/ Starts(c, x)
        BY <1>4, Becomes DEF ReadBonusAgain, Starts
    <2> HIDE DEF read
    <2>4. x \in ReferralCalls /\ ReferralCallOK(x)
        BY <2>1, <2>2 DEF ReferralCallOK, ReferralCalls, BonusType
    <2> HIDE DEF x
    <2> QED
        BY <1>1, <2>1, <2>3, <2>4, ReferralMovesAreOwned, ReferralCallsExist
<1> QED
    BY <1>2, <1>3, <1>4

LEMMA RewardIsOwned ==
    ASSUME StoreIsTyped, ReferralsTyped, NEW c \in Calls, PayReward(c) \/ MarkRewarded(c)
    PROVE  ReferralOwned /\ ReferralsTyped'
<1> DEFINE u == calls[c].referred
           postings == referralReward(calls[c].referrer, calls[c].read.currency,
                                      calls[c].read.minor)
           row == [status |-> "rewarded", referrer |-> referrals[u].referrer,
                   reward |-> calls[c].read]
<1>1. /\ calls[c].pc \in ReferralPcs /\ u \in Users /\ calls[c].referrer \in Users
      /\ calls[c].read \in BonusType /\ calls[c].pc \in {"ref.reward", "ref.mark"}
      /\ calls[c] \in [pc : {"ref.second", "ref.reward", "ref.mark"}, referred : Users,
                       referrer : Users, read : BonusType]
    BY ReferralFields DEF PayReward, MarkRewarded, At, ReferralPcs, StoreIsTyped, BonusType
<1>2. \E x \in ReferralCalls \cup {Idle} : Starts(c, x) /\ ReferralCallOK(x)
    <2> DEFINE x == [calls[c] EXCEPT !.pc = "ref.mark"]
    <2>1. x \in ReferralCalls /\ ReferralCallOK(x)
        BY <1>1 DEF ReferralCallOK, ReferralCalls, BonusType
    <2>2. Starts(c, Idle) \/ Starts(c, x)
        BY Becomes DEF PayReward, MarkRewarded, AwaitsPost, AwaitsWrite
    <2> HIDE DEF x
    <2> QED
        BY <2>1, <2>2, ReferralCallsExist
<1>3. UNCHANGED ledgerVars \/ \E k \in RewardKeys, s \in Seq(Posting) : Post(k, s)
    <2>1. UNCHANGED ledgerVars \/ Post(RewardKey(u), postings)
        BY DEF PayReward, MarkRewarded, AwaitsPost, Refuse, ledgerVars
    <2>2. postings \in Seq(Posting) /\ RewardKey(u) \in RewardKeys
        <3>1. /\ calls[c].referrer \in Customers /\ calls[c].read.currency \in Currencies
              /\ calls[c].read.minor \in Int
            BY <1>1, ReferralsAssumption DEF BonusType
        <3> QED
            BY <1>1, <3>1, MovesAreJournals, OwnKeys
    <2> HIDE DEF postings
    <2> QED
        BY <2>1, <2>2
<1>4. ReferralTypeOK'
    <2>1. UNCHANGED <<codes, shared, bonus>>
        BY DEF PayReward, MarkRewarded, referralVars
    <2>2. referrals[u].status = "pending" => row \in Referral
        BY <1>1 DEF ReferralsTyped, ReferralTypeOK, Referral, NoReferral, BonusType
    <2>3. \/ UNCHANGED referrals
          \/ referrals[u].status = "pending" /\ referrals' = [referrals EXCEPT ![u] = row]
        BY DEF PayReward, MarkRewarded, AwaitsWrite, referralVars
    <2> HIDE DEF row
    <2> QED
        BY <1>1, <2>1, <2>2, <2>3 DEF ReferralsTyped, ReferralTypeOK
<1> HIDE DEF u, postings, row
<1> QED
    BY <1>1, <1>2, <1>3, <1>4, ReferralMovesAreOwned

LEMMA SetBonusIsOwned ==
    ASSUME StoreIsTyped, ReferralsTyped, NEW c \in Calls,
           (\E b \in Bonuses : SetBonusMinor(c, b)) \/ SetBonusCurrency(c)
    PROVE  ReferralOwned /\ ReferralsTyped'
<1>1. UNCHANGED ledgerVars /\ UNCHANGED <<codes, shared, referrals>>
    BY DEF SetBonusMinor, SetBonusCurrency, ledgerVars
<1>2. ASSUME NEW b \in Bonuses, SetBonusMinor(c, b)
      PROVE  ReferralOwned /\ ReferralsTyped'
    <2> DEFINE x == [pc |-> "bonus.currency", bonus |-> b]
    <2>1. b \in BonusType
        BY ReferralsAssumption DEF BonusType
    <2>2. x \in ReferralCalls /\ ReferralCallOK(x)
        BY <2>1, ReferralCallsExist DEF ReferralCallOK
    <2>3. calls[c].pc = "idle" /\ (UNCHANGED calls \/ Starts(c, x))
        BY <1>2 DEF SetBonusMinor, Receives, Idle, AwaitsWrite
    <2>4. ReferralTypeOK'
        BY <1>1, <1>2, <2>1
           DEF SetBonusMinor, AwaitsWrite, ReferralsTyped, ReferralTypeOK, BonusType
    <2> HIDE DEF x
    <2> QED
        BY <1>1, <2>2, <2>3, <2>4, ReferralMovesAreOwned
<1>3. ASSUME SetBonusCurrency(c)
      PROVE  ReferralOwned /\ ReferralsTyped'
    <2>1. calls[c].pc = "bonus.currency" /\ calls[c].bonus \in BonusType
        BY <1>3, ReferralFields DEF SetBonusCurrency, At, StoreIsTyped, BonusType
    <2>2. Starts(c, Idle) /\ calls[c].pc \in ReferralPcs
        BY <1>3, <2>1, Becomes DEF SetBonusCurrency, AwaitsWrite, ReferralPcs
    <2>3. ReferralTypeOK'
        BY <1>1, <1>3, <2>1
           DEF SetBonusCurrency, AwaitsWrite, ReferralsTyped, ReferralTypeOK, BonusType
    <2> QED
        BY <1>1, <2>2, <2>3, ReferralMovesAreOwned, ReferralCallsExist
<1> QED
    BY <1>2, <1>3

LEMMA ReferralStepsAreOwned ==
    ASSUME StoreIsTyped, ReferralsTyped, NEW c \in Calls,
           ReferralStarts(c) \/ ReferralProceeds(c)
    PROVE  ReferralOwned /\ ReferralsTyped'
BY CodeStepsAreOwned, SignUpIsOwned, TransactedIsOwned, RewardIsOwned, SetBonusIsOwned
   DEF ReferralStarts, ReferralProceeds

-----------------------------------------------------------------------------
(* What a step of one service is to the others *)

LEMMA OwnedIsUntouched ==
    ASSUME StoreIsTyped, NEW pcs, NEW own, NEW keys \in SUBSET Keys,
           Owned(pcs, own, keys), \A x \in own : x.pc \in pcs,
           NEW others, "idle" \notin others, others \cap pcs = {},
           NEW otherKeys \in SUBSET Keys, keys \cap otherKeys = {}
    PROVE  Untouched(others, otherKeys)
<1>1. \A c \in Calls : \/ calls'[c] = calls[c]
                       \/ calls[c].pc \notin others /\ calls'[c].pc \notin others
    BY DEF Owned, Idle
<1>2. \A k \in otherKeys : journal'[k] = journal[k]
    BY PostAppends DEF Owned, ledgerVars, StoreIsTyped
<1> QED
    BY <1>1, <1>2 DEF Untouched

LEMMA OwnedKeepsStore ==
    ASSUME StoreIsTyped, NEW pcs, NEW own, NEW keys \in SUBSET Keys,
           Owned(pcs, own, keys)
    PROVE  /\ StoreIsTyped'
           /\ StoreNonNegative => StoreNonNegative'
           /\ \A k \in Keys : Posted(k) => journal'[k] = journal[k]
<1>1. StoreTypeOK /\ calls' \in [Calls -> CallTypes]
    BY DEF StoreIsTyped, Owned
<1>2. CASE UNCHANGED ledgerVars
    BY <1>1, <1>2 DEF ledgerVars, StoreIsTyped, StoreTypeOK, StoreNonNegative
<1>3. ASSUME NEW k \in keys, NEW s \in Seq(Posting), Post(k, s)
      PROVE  /\ StoreTypeOK'
             /\ StoreNonNegative => StoreNonNegative'
             /\ \A j \in Keys : Posted(j) => journal'[j] = journal[j]
    BY <1>1, <1>3, PostKeepsType, PostKeepsNonNegative, PostAppends
<1> QED
    BY <1>1, <1>2, <1>3 DEF StoreIsTyped, Owned, CallTypes

LEMMA PcsAreDisjoint ==
    /\ WithdrawalPcs \cap CashoutPcs = {} /\ WithdrawalPcs \cap AirtimePcs = {}
    /\ WithdrawalPcs \cap DepositPcs = {} /\ WithdrawalPcs \cap ReferralPcs = {}
    /\ CashoutPcs \cap AirtimePcs = {} /\ CashoutPcs \cap DepositPcs = {}
    /\ CashoutPcs \cap ReferralPcs = {} /\ AirtimePcs \cap DepositPcs = {}
    /\ AirtimePcs \cap ReferralPcs = {} /\ DepositPcs \cap ReferralPcs = {}
    /\ "idle" \notin WithdrawalPcs /\ "idle" \notin CashoutPcs /\ "idle" \notin AirtimePcs
    /\ "idle" \notin DepositPcs /\ "idle" \notin ReferralPcs
BY DEF WithdrawalPcs, CashoutPcs, AirtimePcs, DepositPcs, ReferralPcs

WithdrawalsUntouched == Untouched(WithdrawalPcs, WithdrawalKeys) /\ UNCHANGED withdrawals
CashoutsUntouched == Untouched(CashoutPcs, CashoutKeys) /\ UNCHANGED cashouts
AirtimeUntouched == Untouched(AirtimePcs, TopupKeys) /\ UNCHANGED airtimeVars
DepositsUntouched == Untouched(DepositPcs, FundKeys) /\ UNCHANGED depositVars
ReferralsUntouched == Untouched(ReferralPcs, RewardKeys) /\ UNCHANGED referralVars

LEMMA WithdrawalStepsAreAlone ==
    ASSUME StoreIsTyped, WithdrawalOwned, Withdrawing
    PROVE  /\ CashoutsUntouched /\ AirtimeUntouched
           /\ DepositsUntouched /\ ReferralsUntouched
BY OwnedIsUntouched, KeysExist, KeysAreDisjoint, PcsAreDisjoint, OwnPcs
   DEF WithdrawalOwned, Withdrawing, CashoutsUntouched, AirtimeUntouched,
       DepositsUntouched, ReferralsUntouched

LEMMA CashoutStepsAreAlone ==
    ASSUME StoreIsTyped, CashoutOwned, CashingOut
    PROVE  /\ WithdrawalsUntouched /\ AirtimeUntouched
           /\ DepositsUntouched /\ ReferralsUntouched
BY OwnedIsUntouched, KeysExist, KeysAreDisjoint, PcsAreDisjoint, OwnPcs
   DEF CashoutOwned, CashingOut, WithdrawalsUntouched, AirtimeUntouched,
       DepositsUntouched, ReferralsUntouched

LEMMA AirtimeStepsAreAlone ==
    ASSUME StoreIsTyped, AirtimeOwned, ToppingUp
    PROVE  /\ WithdrawalsUntouched /\ CashoutsUntouched
           /\ DepositsUntouched /\ ReferralsUntouched
BY OwnedIsUntouched, KeysExist, KeysAreDisjoint, PcsAreDisjoint, OwnPcs
   DEF AirtimeOwned, ToppingUp, WithdrawalsUntouched, CashoutsUntouched,
       DepositsUntouched, ReferralsUntouched

LEMMA DepositStepsAreAlone ==
    ASSUME StoreIsTyped, DepositOwned, Depositing
    PROVE  /\ WithdrawalsUntouched /\ CashoutsUntouched
           /\ AirtimeUntouched /\ ReferralsUntouched
BY OwnedIsUntouched, KeysExist, KeysAreDisjoint, PcsAreDisjoint, OwnPcs
   DEF DepositOwned, Depositing, WithdrawalsUntouched, CashoutsUntouched,
       AirtimeUntouched, ReferralsUntouched

LEMMA ReferralStepsAreAlone ==
    ASSUME StoreIsTyped, ReferralOwned, Referring
    PROVE  /\ WithdrawalsUntouched /\ CashoutsUntouched
           /\ AirtimeUntouched /\ DepositsUntouched
BY OwnedIsUntouched, KeysExist, KeysAreDisjoint, PcsAreDisjoint, OwnPcs
   DEF ReferralOwned, Referring, WithdrawalsUntouched, CashoutsUntouched,
       AirtimeUntouched, DepositsUntouched

-----------------------------------------------------------------------------
(* Restarts, and types *)

\* Handlers of a service may be gone, and nothing else has happened to it.
Spared(pcs, keys) ==
    /\ \A c \in Calls : calls'[c] = calls[c] \/ calls'[c].pc \notin pcs
    /\ \A k \in keys : journal'[k] = journal[k]

WithdrawalsSpared == Spared(WithdrawalPcs, WithdrawalKeys) /\ UNCHANGED withdrawals
CashoutsSpared == Spared(CashoutPcs, CashoutKeys) /\ UNCHANGED cashouts
AirtimeSpared == Spared(AirtimePcs, TopupKeys) /\ UNCHANGED airtimeVars
DepositsSpared == Spared(DepositPcs, FundKeys) /\ UNCHANGED depositVars
ReferralsSpared == Spared(ReferralPcs, RewardKeys) /\ UNCHANGED referralVars

LEMMA UntouchedIsSpared ==
    /\ WithdrawalsUntouched => WithdrawalsSpared
    /\ CashoutsUntouched => CashoutsSpared
    /\ AirtimeUntouched => AirtimeSpared
    /\ DepositsUntouched => DepositsSpared
    /\ ReferralsUntouched => ReferralsSpared
BY DEF WithdrawalsUntouched, WithdrawalsSpared, CashoutsUntouched, CashoutsSpared,
       AirtimeUntouched, AirtimeSpared, DepositsUntouched, DepositsSpared,
       ReferralsUntouched, ReferralsSpared, Untouched, Spared

AllSpared ==
    WithdrawalsSpared /\ CashoutsSpared /\ AirtimeSpared /\ DepositsSpared /\ ReferralsSpared

LEMMA CrashSparesAll ==
    ASSUME Crash \/ UNCHANGED vars
    PROVE  AllSpared /\ UNCHANGED <<balance, journal, env>>
<1>1. /\ \A c \in Calls : calls'[c] = calls[c] \/ calls'[c].pc = "idle"
      /\ UNCHANGED <<balance, journal, env, withdrawals, cashouts>>
      /\ UNCHANGED airtimeVars /\ UNCHANGED depositVars /\ UNCHANGED referralVars
    BY DEF Crash, vars, Idle, airtimeVars, depositVars, referralVars
<1> QED
    BY <1>1, PcsAreDisjoint
       DEF AllSpared, Spared, WithdrawalsSpared, CashoutsSpared, AirtimeSpared,
           DepositsSpared, ReferralsSpared

LEMMA SparedStaysTyped ==
    /\ WithdrawalsTyped /\ WithdrawalsSpared => WithdrawalsTyped'
    /\ CashoutsTyped /\ CashoutsSpared => CashoutsTyped'
    /\ AirtimeTypeOK /\ AirtimeSpared => AirtimeTypeOK'
    /\ DepositsTyped /\ DepositsSpared => DepositsTyped'
    /\ ReferralsTyped /\ ReferralsSpared => ReferralsTyped'
<1>1. WithdrawalsTyped /\ WithdrawalsSpared => WithdrawalsTyped'
    BY DEF WithdrawalsTyped, WithdrawalTypeOK, WithdrawalsSpared, Spared, WithdrawalPcs
<1>2. CashoutsTyped /\ CashoutsSpared => CashoutsTyped'
    BY DEF CashoutsTyped, CashoutTypeOK, CashoutsSpared, Spared, CashoutPcs
<1>3. AirtimeTypeOK /\ AirtimeSpared => AirtimeTypeOK'
    BY DEF AirtimeTypeOK, AirtimeSpared, airtimeVars
<1>4. ASSUME DepositsTyped, DepositsSpared
      PROVE  DepositsTyped'
    <2>1. DepositTypeOK' /\ ChargesAreRecorded'
        BY <1>4 DEF DepositsTyped, DepositTypeOK, ChargesAreRecorded, DepositsSpared, depositVars
    <2>2. \A c \in Calls : DepositCallOK(calls[c])'
        BY <1>4 DEF DepositsTyped, DepositCallOK, DepositsSpared, Spared, depositVars,
                    DepositPcs, HookPcs
    <2>3. OpenedOnce'
        BY <1>4 DEF DepositsTyped, OpenedOnce, DepositsSpared, Spared, DepositPcs
    <2> QED
        BY <2>1, <2>2, <2>3 DEF DepositsTyped
<1>5. ASSUME ReferralsTyped, ReferralsSpared
      PROVE  ReferralsTyped'
    <2>1. ReferralTypeOK'
        BY <1>5 DEF ReferralsTyped, ReferralTypeOK, ReferralsSpared, referralVars
    <2>2. \A c \in Calls : ReferralCallOK(calls[c])'
        BY <1>5 DEF ReferralsTyped, ReferralCallOK, ReferralsSpared, Spared, ReferralPcs
    <2> QED
        BY <2>1, <2>2 DEF ReferralsTyped
<1> QED
    BY <1>1, <1>2, <1>3, <1>4, <1>5

\* The inductive invariant behind the types: the rows in-flight handlers refer to exist,
\* and no customer's, agent's or escrow account is overdrawn.
Typed ==
    /\ StoreIsTyped /\ StoreNonNegative
    /\ env \in Environments
    /\ crashes \in 0..MaxCrashes
    /\ WithdrawalsTyped /\ CashoutsTyped /\ AirtimeTypeOK /\ DepositsTyped /\ ReferralsTyped

\* Whose step a step is, what it keeps, and what it leaves alone.
WithdrawalStep ==
    /\ \E c \in Calls : WithdrawalStarts(c) \/ WithdrawalProceeds(c)
    /\ WithdrawalOwned /\ WithdrawalsTyped'
    /\ CashoutsUntouched /\ AirtimeUntouched /\ DepositsUntouched /\ ReferralsUntouched
CashoutStep ==
    /\ CashoutSteps \/ \E c \in Calls : CashoutProceeds(c)
    /\ CashoutOwned /\ CashoutsTyped'
    /\ WithdrawalsUntouched /\ AirtimeUntouched /\ DepositsUntouched /\ ReferralsUntouched
AirtimeStep ==
    /\ AirtimeSteps \/ \E c \in Calls : AirtimeProceeds(c)
    /\ AirtimeOwned /\ AirtimeTypeOK'
    /\ WithdrawalsUntouched /\ CashoutsUntouched /\ DepositsUntouched /\ ReferralsUntouched
DepositStep ==
    /\ DepositSteps \/ \E c \in Calls : DepositProceeds(c)
    /\ DepositOwned /\ DepositsTyped'
    /\ WithdrawalsUntouched /\ CashoutsUntouched /\ AirtimeUntouched /\ ReferralsUntouched
ReferralStep ==
    /\ \E c \in Calls : ReferralStarts(c) \/ ReferralProceeds(c)
    /\ ReferralOwned /\ ReferralsTyped'
    /\ WithdrawalsUntouched /\ CashoutsUntouched /\ AirtimeUntouched /\ DepositsUntouched

LEMMA StepsByService ==
    ASSUME Typed, [Next]_vars
    PROVE  /\ UNCHANGED env
           /\ \/ UNCHANGED crashes /\ WithdrawalStep
              \/ UNCHANGED crashes /\ CashoutStep
              \/ UNCHANGED crashes /\ AirtimeStep
              \/ UNCHANGED crashes /\ DepositStep
              \/ UNCHANGED crashes /\ ReferralStep
              \/ Crash
              \/ UNCHANGED vars
<1>1. CASE (\E c \in Calls : WithdrawalStarts(c) \/ WithdrawalProceeds(c)) /\ Withdrawing
    BY <1>1, WithdrawalStepsAreOwned, WithdrawalStepsAreAlone
       DEF Typed, Withdrawing, WithdrawalStep
<1>2. CASE (CashoutSteps \/ \E c \in Calls : CashoutProceeds(c)) /\ CashingOut
    BY <1>2, CashoutStepsAreOwned, CashoutStepsAreAlone DEF Typed, CashingOut, CashoutStep
<1>3. CASE (AirtimeSteps \/ \E c \in Calls : AirtimeProceeds(c)) /\ ToppingUp
    BY <1>3, AirtimeStepsAreOwned, AirtimeStepsAreAlone DEF Typed, ToppingUp, AirtimeStep
<1>4. CASE (DepositSteps \/ \E c \in Calls : DepositProceeds(c)) /\ Depositing
    BY <1>4, DepositStepsAreOwned, DepositStepsAreAlone DEF Typed, Depositing, DepositStep
<1>5. CASE (\E c \in Calls : ReferralStarts(c) \/ ReferralProceeds(c)) /\ Referring
    BY <1>5, ReferralStepsAreOwned, ReferralStepsAreAlone DEF Typed, Referring, ReferralStep
<1>6. CASE Crash
    BY <1>6, CrashSparesAll
<1>7. CASE UNCHANGED vars
    BY <1>7 DEF vars
<1> QED
    BY <1>1, <1>2, <1>3, <1>4, <1>5, <1>6, <1>7 DEF Next, Arrivals, Proceeds

LEMMA TypedInit == Init => Typed
<1> SUFFICES ASSUME Init
             PROVE  Typed
    OBVIOUS
<1>1. StoreIsTyped /\ StoreNonNegative
    <2>1. NoJournal \in Seq(Posting)
        BY DEF NoJournal
    <2> QED
        BY <2>1, WalletServicesAssumption
           DEF Init, StoreIsTyped, StoreTypeOK, StoreNonNegative, CallTypes
<1>2. WithdrawalsTyped /\ CashoutsTyped /\ AirtimeTypeOK
    BY AirtimeAssumption
       DEF Init, WithdrawalInit, WithdrawalsTyped, WithdrawalTypeOK, CashoutInit,
           CashoutsTyped, CashoutTypeOK, AirtimeInit, AirtimeTypeOK, Idle, CashoutPcs
<1>3. DepositsTyped
    BY DEF Init, DepositInit, DepositsTyped, DepositTypeOK, ChargesAreRecorded, OpenedOnce,
           DepositCallOK, HookPcs, Idle, NoCharge
<1>4. ReferralsTyped
    BY ReferralsAssumption
       DEF Init, ReferralInit, ReferralsTyped, ReferralTypeOK, ReferralCallOK, Idle
<1> QED
    BY <1>1, <1>2, <1>3, <1>4, WalletServicesAssumption DEF Init, Typed

LEMMA TypedNext ==
    ASSUME Typed, [Next]_vars
    PROVE  Typed'
<1>1. CASE UNCHANGED crashes /\ WithdrawalStep
    BY <1>1, StepsByService, OwnedKeepsStore, KeysExist, UntouchedIsSpared, SparedStaysTyped
       DEF Typed, WithdrawalStep, WithdrawalOwned
<1>2. CASE UNCHANGED crashes /\ CashoutStep
    BY <1>2, StepsByService, OwnedKeepsStore, KeysExist, UntouchedIsSpared, SparedStaysTyped
       DEF Typed, CashoutStep, CashoutOwned
<1>3. CASE UNCHANGED crashes /\ AirtimeStep
    BY <1>3, StepsByService, OwnedKeepsStore, KeysExist, UntouchedIsSpared, SparedStaysTyped
       DEF Typed, AirtimeStep, AirtimeOwned
<1>4. CASE UNCHANGED crashes /\ DepositStep
    BY <1>4, StepsByService, OwnedKeepsStore, KeysExist, UntouchedIsSpared, SparedStaysTyped
       DEF Typed, DepositStep, DepositOwned
<1>5. CASE UNCHANGED crashes /\ ReferralStep
    BY <1>5, StepsByService, OwnedKeepsStore, KeysExist, UntouchedIsSpared, SparedStaysTyped
       DEF Typed, ReferralStep, ReferralOwned
<1>6. CASE Crash \/ UNCHANGED vars
    <2>1. /\ crashes' \in 0..MaxCrashes
          /\ calls' \in [Calls -> CallTypes]
        BY <1>6, WalletServicesAssumption DEF Crash, vars, Typed, StoreIsTyped, CallTypes
    <2>2. StoreIsTyped' /\ StoreNonNegative'
        BY <1>6, <2>1, CrashSparesAll
           DEF Typed, StoreIsTyped, StoreTypeOK, StoreNonNegative, CallTypes
    <2> QED
        BY <1>6, <2>1, <2>2, CrashSparesAll, SparedStaysTyped DEF Typed, AllSpared
<1> QED
    BY <1>1, <1>2, <1>3, <1>4, <1>5, <1>6, StepsByService

\* Every row, handler and balance keeps its exact type, each handler the shape of the
\* await it is at, and no account of a customer or an agent is below zero.
THEOREM TypedAlways == Spec => []Typed
BY TypedInit, TypedNext, PTL DEF Spec

\* Whatever requests, webhooks and restarts race, every variable keeps its type: a
\* handler never refers to a row that is not there, and no amount is computed from one.
THEOREM TypeCorrect == Spec => []TypeOK
<1>1. Typed => TypeOK
    BY DEF Typed, TypeOK, StoreIsTyped, StoreTypeOK, CallTypes, WithdrawalsTyped,
           CashoutsTyped, DepositsTyped, ReferralsTyped
<1> QED
    BY <1>1, TypedAlways, PTL

\* No service takes a customer's or an agent's account below zero.
THEOREM NobodyOverdrawn == Spec => []StoreNonNegative
<1>1. Typed => StoreNonNegative
    BY DEF Typed
<1> QED
    BY <1>1, TypedAlways, PTL

-----------------------------------------------------------------------------
(* Cash-outs: a debit stands on an approval *)

Debiting == {"co.post", "co.revert"}

\* The inductive invariant.  A handler that debits, or takes an approval back, is the
\* only one on its request, which is approved and not debited yet.
DebitIsHeld ==
    \A c \in Calls : calls[c].pc \in Debiting =>
        /\ cashouts[calls[c].cashout].status = "approved"
        /\ ~Posted(CashoutKey(calls[c].cashout))
        /\ \A e \in Calls : calls[e].pc \in Debiting /\ calls[e].cashout = calls[c].cashout
                                => e = c

CashoutInv ==
    /\ AcksReliably => DebitIsHeld
    /\ DebitedStaysApproved
    /\ ApprovedIsDebitedOrHeld

LEMMA CashoutKeysDiffer ==
    ASSUME NEW r \in Cashouts, NEW q \in Cashouts
    PROVE  /\ CashoutKey(r) \in Keys
           /\ CashoutKey(r) = CashoutKey(q) => r = q
BY KeysExist, OwnKeys DEF CashoutKey

\* Faults within the ledger's lose no acknowledgement.
LEMMA LedgerErrorsOnly ==
    ASSUME env.faults \subseteq {"ledger_error"}
    PROVE  AcksReliably /\ ~MayHappen("store_error") /\ ~MayHappen("crash")
BY DEF AcksReliably, MayHappen

LEMMA CashoutsSparedKeepInv ==
    ASSUME Typed, CashoutInv, UNCHANGED env, CashoutsSpared,
           MayHappen("crash") \/ CashoutsUntouched
    PROVE  CashoutInv'
<1>1. \A r \in Cashouts : journal'[CashoutKey(r)] = journal[CashoutKey(r)]
    BY OwnKeys DEF CashoutsSpared, Spared
<1>2. /\ UNCHANGED cashouts
      /\ \A c \in Calls : calls'[c].pc \in Debiting => calls'[c] = calls[c]
    BY DEF CashoutsSpared, Spared, CashoutPcs, Debiting
<1>3. \A c \in Calls : calls[c].pc \in Debiting => calls[c].cashout \in Cashouts
    BY CashoutFields DEF Typed, StoreIsTyped, CashoutPcs, Debiting
<1>4. AcksReliably' => DebitIsHeld'
    BY <1>1, <1>2, <1>3 DEF CashoutInv, DebitIsHeld, Posted, AcksReliably, MayHappen
<1>5. DebitedStaysApproved'
    BY <1>1, <1>2 DEF CashoutInv, DebitedStaysApproved, Posted, AcksReliably, MayHappen
<1>6. ApprovedIsDebitedOrHeld'
    <2> SUFFICES ASSUME env.faults \subseteq {"ledger_error"}, NEW r \in Cashouts,
                        cashouts[r].status = "approved"
                 PROVE  \/ Posted(CashoutKey(r))'
                        \/ \E c \in Calls : /\ calls'[c].pc \in Debiting
                                            /\ calls'[c].cashout = r
        BY <1>2 DEF ApprovedIsDebitedOrHeld, Debiting
    <2>1. CashoutsUntouched
        BY LedgerErrorsOnly
    <2>2. \A c \in Calls : calls[c].pc \in Debiting => calls'[c] = calls[c]
        BY <2>1 DEF CashoutsUntouched, Untouched, CashoutPcs, Debiting
    <2> QED
        BY <1>1, <2>2 DEF CashoutInv, ApprovedIsDebitedOrHeld, Posted, Debiting
<1> QED
    BY <1>4, <1>5, <1>6 DEF CashoutInv

\* A step that neither approves, nor takes an approval back, nor debits.
LEMMA QuietCashoutKeepsInv ==
    ASSUME Typed, CashoutInv, UNCHANGED env, UNCHANGED ledgerVars,
           \A c \in Calls : \/ calls'[c] = calls[c]
                            \/ calls[c].pc \notin Debiting /\ calls'[c].pc \notin Debiting,
           \A r \in Cashouts : cashouts'[r].status = "approved" <=> cashouts[r].status = "approved"
    PROVE  CashoutInv'
<1>1. UNCHANGED journal
    BY DEF ledgerVars
<1>2. \A c \in Calls : calls[c].pc \in Debiting => calls[c].cashout \in Cashouts
    BY CashoutFields DEF Typed, StoreIsTyped, CashoutPcs, Debiting
<1>3. AcksReliably' => DebitIsHeld'
    BY <1>1, <1>2 DEF CashoutInv, DebitIsHeld, Posted, AcksReliably, MayHappen
<1>4. DebitedStaysApproved'
    BY <1>1 DEF CashoutInv, DebitedStaysApproved, Posted, AcksReliably, MayHappen
<1>5. ApprovedIsDebitedOrHeld'
    BY <1>1 DEF CashoutInv, ApprovedIsDebitedOrHeld, Posted, Debiting
<1> QED
    BY <1>3, <1>4, <1>5 DEF CashoutInv

LEMMA CashoutArrivalsKeepInv ==
    ASSUME Typed, CashoutInv, UNCHANGED env, CashoutSteps
    PROVE  CashoutInv'
<1> PICK r \in Cashouts :
        \/ \E g \in Agents, p \in Customers, n \in CashoutAmounts, m \in Commissions :
              RequestCashout(r, g, p, n, m)
        \/ RejectCashout(r) \/ CancelCashout(r) \/ CashoutExpires(r)
        \/ \E c \in Calls : ApproveCashout(c, r)
    BY DEF CashoutSteps
<1>1. UNCHANGED ledgerVars
    BY DEF RequestCashout, RejectCashout, CancelCashout, CashoutExpires, ApproveCashout,
           ledgerVars
<1>2. \A e \in Calls : \/ calls'[e] = calls[e]
                       \/ calls[e].pc \notin Debiting /\ calls'[e].pc \notin Debiting
    <2>1. ASSUME NEW c \in Calls, ApproveCashout(c, r)
          PROVE  \A e \in Calls :
                    \/ calls'[e] = calls[e]
                    \/ calls[e].pc \notin Debiting /\ calls'[e].pc \notin Debiting
        BY <2>1, CallAfter DEF ApproveCashout, Receives, Idle, Debiting, Typed, StoreIsTyped
    <2>2. (\E c \in Calls : ApproveCashout(c, r)) \/ UNCHANGED calls
        BY DEF RequestCashout, RejectCashout, CancelCashout, CashoutExpires
    <2> QED
        BY <2>1, <2>2
<1>3. \A q \in Cashouts : cashouts'[q].status = "approved" <=> cashouts[q].status = "approved"
    BY DEF RequestCashout, RejectCashout, CancelCashout, CashoutExpires, ApproveCashout,
           claims, NoCashout, Typed, CashoutsTyped, CashoutTypeOK, Cashout
<1> QED
    BY <1>1, <1>2, <1>3, QuietCashoutKeepsInv

\* A status changes, of one request.
LEMMA StatusAfter ==
    ASSUME Typed, NEW r \in Cashouts, NEW to,
           cashouts' = [cashouts EXCEPT ![r].status = to], cashouts[r] \in Cashout
    PROVE  /\ cashouts'[r].status = to
           /\ \A q \in Cashouts \ {r} : cashouts'[q] = cashouts[q]
BY DEF Typed, CashoutsTyped, CashoutTypeOK, Cashout

LEMMA CashoutHandlerKeepsInv ==
    ASSUME Typed, CashoutInv, UNCHANGED env, NEW c \in Calls, CashoutProceeds(c)
    PROVE  CashoutInv'
<1> PICK r \in Cashouts : r = calls[c].cashout /\ cashouts[r] \in Cashout
    BY CashoutFields
       DEF CashoutProceeds, ExpireCashout, ClaimCashout, DebitCashout, RevertCashout, At,
           CashoutPcs, Typed, StoreIsTyped, CashoutsTyped
<1>1. cashouts[r] \in Cashout /\ CashoutKey(r) \in Keys
    BY CashoutKeysDiffer
<1>2. StoreIsTyped /\ calls \in [Calls -> CallTypes] /\ journal \in [Keys -> Seq(Posting)]
    BY DEF Typed, StoreIsTyped, StoreTypeOK
<1>3. \A e \in Calls : calls[e].pc \in Debiting => calls[e].cashout \in Cashouts
    BY <1>2, CashoutFields DEF CashoutPcs, Debiting
<1>4. CASE ExpireCashout(c)
    <2>1. Starts(c, Idle) /\ UNCHANGED ledgerVars /\ calls[c].pc = "co.expire"
        BY <1>4, Becomes DEF ExpireCashout, ClaimsCashout, AwaitsWrite, At
    <2>2. \A q \in Cashouts : cashouts'[q].status = "approved" <=> cashouts[q].status = "approved"
        BY <1>1, <1>4, StatusAfter DEF ExpireCashout, ClaimsCashout, AwaitsWrite, claims
    <2> QED
        BY <1>2, <2>1, <2>2, CallAfter, QuietCashoutKeepsInv DEF Idle, Debiting
<1>5. CASE ClaimCashout(c)
    <2>1. calls[c].pc = "co.claim" /\ UNCHANGED ledgerVars /\ UNCHANGED journal
        BY <1>5 DEF ClaimCashout, At, ledgerVars
    <2>2. CASE UNCHANGED cashouts /\ Returns(c)
        BY <1>2, <2>1, <2>2, Becomes, CallAfter, QuietCashoutKeepsInv DEF Idle, Debiting
    <2>3. CASE claims(r, "approved") /\ MayHappen("lost_ack") /\ Returns(c)
        <3>1. ~AcksReliably /\ ~AcksReliably' /\ ~(env.faults \subseteq {"ledger_error"})
            BY <2>3, LedgerErrorsOnly DEF AcksReliably, MayHappen
        <3> QED
            BY <3>1 DEF CashoutInv, DebitedStaysApproved, ApprovedIsDebitedOrHeld
    <2>4. CASE claims(r, "approved") /\ GoesTo(c, "co.post")
        <3>1. /\ cashouts[r].status = "pending" /\ cashouts'[r].status = "approved"
              /\ \A q \in Cashouts \ {r} : cashouts'[q] = cashouts[q]
            BY <1>1, <2>4, StatusAfter DEF claims
        <3>2. /\ calls'[c].pc = "co.post" /\ calls'[c].cashout = r
              /\ \A e \in Calls \ {c} : calls'[e] = calls[e]
            BY <1>2, <2>1, <2>4, CashoutGoesOn, CallAfter DEF CashoutPcs
        <3>3. AcksReliably' => DebitIsHeld'
            <4> SUFFICES ASSUME AcksReliably
                         PROVE  DebitIsHeld'
                BY DEF AcksReliably, MayHappen
            <4>1. ~Posted(CashoutKey(r)) /\ DebitIsHeld
                BY <1>1, <3>1 DEF CashoutInv, DebitedStaysApproved
            <4>2. \A e \in Calls : calls[e].pc \in Debiting => calls[e].cashout # r
                BY <3>1, <4>1 DEF DebitIsHeld
            <4> QED
                BY <1>1, <1>3, <2>1, <3>1, <3>2, <4>1, <4>2 DEF DebitIsHeld, Posted, Debiting
        <3>4. DebitedStaysApproved'
            BY <2>1, <3>1 DEF CashoutInv, DebitedStaysApproved, AcksReliably, MayHappen, Posted
        <3>5. ApprovedIsDebitedOrHeld'
            BY <2>1, <3>1, <3>2 DEF CashoutInv, ApprovedIsDebitedOrHeld, Posted
        <3> QED
            BY <3>3, <3>4, <3>5 DEF CashoutInv
    <2> QED
        BY <1>5, <2>2, <2>3, <2>4 DEF ClaimCashout, ClaimsCashout, AwaitsWrite
<1>6. CASE DebitCashout(c)
    <2> DEFINE row == cashouts[r]
               postings == agentCashOut(row.agent, row.customer, CashCurrency,
                                        row.amount, row.commission)
    <2>1. calls[c].pc = "co.post" /\ UNCHANGED cashouts
        BY <1>6 DEF DebitCashout, At
    <2>2. postings \in Seq(Posting)
        <3>1. /\ row.agent \in Agents /\ row.customer \in Customers
              /\ row.amount \in Int /\ row.commission \in Int /\ CashCurrency \in Currencies
            BY <1>1, CashoutsAssumption DEF Cashout
        <3> QED
            BY <3>1, AgentOperationsAreJournals
    <2>3. \/ Post(CashoutKey(r), postings) /\ Returns(c)
          \/ MayHappen("lost_ack") /\ Post(CashoutKey(r), postings) /\ GoesTo(c, "co.revert")
          \/ UNCHANGED ledgerVars /\ GoesTo(c, "co.revert")
        BY <1>6 DEF DebitCashout, AwaitsPost, Refuse
    <2> HIDE DEF row, postings
    <2>4. CASE MayHappen("lost_ack")
        <3>1. ~AcksReliably /\ ~AcksReliably' /\ ~(env.faults \subseteq {"ledger_error"})
            BY <2>4, LedgerErrorsOnly DEF AcksReliably, MayHappen
        <3> QED
            BY <3>1 DEF CashoutInv, DebitedStaysApproved, ApprovedIsDebitedOrHeld
    <2>5. CASE ~MayHappen("lost_ack") /\ Post(CashoutKey(r), postings) /\ Returns(c)
        <3>1. calls'[c] = Idle /\ \A e \in Calls \ {c} : calls'[e] = calls[e]
            BY <1>2, <2>5, Becomes, CallAfter
        <3>2. /\ Posted(CashoutKey(r))'
              /\ \A q \in Cashouts : q # r => journal'[CashoutKey(q)] = journal[CashoutKey(q)]
            BY <1>1, <1>2, <2>2, <2>5, PostAppends, CashoutKeysDiffer DEF StoreIsTyped
        <3>3. AcksReliably /\ DebitIsHeld
            BY <2>5 DEF AcksReliably, CashoutInv
        <3>4. \A e \in Calls \ {c} : calls[e].pc \in Debiting => calls[e].cashout # r
            BY <2>1, <3>3 DEF DebitIsHeld, Debiting
        <3>5. DebitIsHeld'
            BY <1>3, <2>1, <3>1, <3>2, <3>3, <3>4 DEF DebitIsHeld, Debiting, Idle, Posted
        <3>6. cashouts[r].status = "approved"
            BY <2>1, <3>3 DEF DebitIsHeld, Debiting
        <3>7. DebitedStaysApproved'
            BY <2>1, <3>2, <3>3, <3>6 DEF CashoutInv, DebitedStaysApproved, Posted
        <3>8. ApprovedIsDebitedOrHeld'
            BY <2>1, <3>1, <3>2 DEF CashoutInv, ApprovedIsDebitedOrHeld, Posted
        <3> QED
            BY <3>5, <3>7, <3>8 DEF CashoutInv
    <2>6. CASE UNCHANGED ledgerVars /\ GoesTo(c, "co.revert")
        <3>1. /\ calls'[c].pc = "co.revert" /\ calls'[c].cashout = r
              /\ \A e \in Calls \ {c} : calls'[e] = calls[e]
            BY <1>2, <2>1, <2>6, CashoutGoesOn, CallAfter DEF CashoutPcs
        <3>2. UNCHANGED journal
            BY <2>6 DEF ledgerVars
        <3>3. AcksReliably' => DebitIsHeld'
            BY <1>3, <2>1, <3>1, <3>2
               DEF CashoutInv, DebitIsHeld, Debiting, Posted, AcksReliably, MayHappen
        <3>4. DebitedStaysApproved'
            BY <2>1, <3>2 DEF CashoutInv, DebitedStaysApproved, AcksReliably, MayHappen, Posted
        <3>5. ApprovedIsDebitedOrHeld'
            BY <2>1, <3>1, <3>2 DEF CashoutInv, ApprovedIsDebitedOrHeld, Posted
        <3> QED
            BY <3>3, <3>4, <3>5 DEF CashoutInv
    <2> QED
        BY <2>3, <2>4, <2>5, <2>6
<1>7. CASE RevertCashout(c)
    <2>1. /\ calls[c].pc = "co.revert" /\ UNCHANGED journal
          /\ calls'[c] = Idle /\ \A e \in Calls \ {c} : calls'[e] = calls[e]
        BY <1>2, <1>7, Becomes, CallAfter DEF RevertCashout, At, AwaitsWrite, ledgerVars
    <2>2. /\ \A q \in Cashouts \ {r} : cashouts'[q] = cashouts[q]
          /\ \/ cashouts'[r].status # "approved"
             \/ UNCHANGED cashouts /\ MayHappen("store_error")
        BY <1>1, <1>7, StatusAfter DEF RevertCashout, AwaitsWrite
    <2>3. AcksReliably =>
             /\ DebitIsHeld /\ ~Posted(CashoutKey(r))
             /\ \A e \in Calls \ {c} : calls[e].pc \in Debiting => calls[e].cashout # r
        BY <2>1 DEF CashoutInv, DebitIsHeld, Debiting
    <2>4. AcksReliably' => DebitIsHeld'
        BY <1>3, <2>1, <2>2, <2>3 DEF DebitIsHeld, Debiting, Idle, Posted, AcksReliably, MayHappen
    <2>5. DebitedStaysApproved'
        BY <2>1, <2>2, <2>3
           DEF CashoutInv, DebitedStaysApproved, AcksReliably, MayHappen, Posted
    <2>6. ApprovedIsDebitedOrHeld'
        BY <2>1, <2>2, LedgerErrorsOnly DEF CashoutInv, ApprovedIsDebitedOrHeld, Posted
    <2> QED
        BY <2>4, <2>5, <2>6 DEF CashoutInv
<1> QED
    BY <1>4, <1>5, <1>6, <1>7 DEF CashoutProceeds

LEMMA CashoutInvNext ==
    ASSUME Typed, CashoutInv, [Next]_vars
    PROVE  CashoutInv'
<1>1. CASE CashoutStep
    BY <1>1, StepsByService, CashoutArrivalsKeepInv, CashoutHandlerKeepsInv DEF CashoutStep
<1>2. CASE CashoutsUntouched
    BY <1>2, StepsByService, UntouchedIsSpared, CashoutsSparedKeepInv
<1>3. CASE Crash
    BY <1>3, CrashSparesAll, CashoutsSparedKeepInv, StepsByService DEF AllSpared, Crash
<1>4. CASE UNCHANGED vars
    <2>1. CashoutsUntouched
        BY <1>4 DEF vars, CashoutsUntouched, Untouched
    <2> QED
        BY <1>2, <2>1
<1> QED
    BY <1>1, <1>2, <1>3, <1>4, StepsByService
       DEF WithdrawalStep, AirtimeStep, DepositStep, ReferralStep

LEMMA CashoutInvInit ==
    ASSUME Init
    PROVE  CashoutInv
BY CashoutKeysDiffer
   DEF Init, CashoutInit, CashoutInv, DebitIsHeld, DebitedStaysApproved,
       ApprovedIsDebitedOrHeld, Debiting, Idle, NoCashout, Posted

\* A customer is debited only by an approval that stands, and an approval that stands
\* debits, whatever rejects, cancels, expiries, second approvals and failures race.
THEOREM CashoutsAreDebited == Spec => []CashoutsMatchLedger
<1>1. CashoutInv => CashoutsMatchLedger
    BY DEF CashoutInv, CashoutsMatchLedger
<1> QED
    BY <1>1, TypedAlways, CashoutInvInit, CashoutInvNext, PTL DEF Spec

-----------------------------------------------------------------------------
(* Airtime: paid before it is sent, and refunded whole *)

\* What a top-up costs its customer, and what a refund gives back, as long as the
\* margin is the default one.
DefaultMarginMinor == Money!applyBps(TopupCost, DefaultMargin)
Paid(k) == airtimeTopup(Payer[k], TopupCurrency, TopupCost, DefaultMarginMinor)
GivenBack(k) == reverseAirtime(Payer[k], TopupCurrency, TopupCost, DefaultMarginMinor)

\* The inductive invariant: a handler past the debit has been paid; and unless the
\* margin changes every handler has the default one, and so has every journal.
SendersArePaid ==
    \A c \in Calls : calls[c].pc \in {"air.send", "air.reverse"} =>
        Posted(TopupKey(calls[c].topup))

OneMargin ==
    "margin_change" \notin env.services =>
        /\ margin = DefaultMargin
        /\ \A c \in Calls : calls[c].pc \in AirtimePcs => calls[c].margin = DefaultMarginMinor
        /\ \A k \in Topups : /\ journal[TopupKey(k)] \in {NoJournal, Paid(k)}
                             /\ journal[ReversalKey(k)] \in {NoJournal, GivenBack(k)}

AirtimeInv == SendersArePaid /\ SentOnlyIfCharged /\ OneMargin

LEMMA TopupKeysDiffer ==
    ASSUME NEW k \in Topups, NEW l \in Topups
    PROVE  /\ TopupKey(k) \in Keys /\ ReversalKey(k) \in Keys
           /\ TopupKey(k) = TopupKey(l) => k = l
           /\ ReversalKey(k) = ReversalKey(l) => k = l
           /\ TopupKey(k) # ReversalKey(l)
BY KeysExist, OwnKeys DEF TopupKey, ReversalKey

\* A top-up and its refund cancel out, on every account.
LEMMA RefundCancels ==
    ASSUME NEW p \in Customers, NEW n \in Nat, NEW m \in Nat, NEW a \in Accounts
    PROVE  Delta(airtimeTopup(p, TopupCurrency, n, m), a)
               + Delta(reverseAirtime(p, TopupCurrency, n, m), a) = 0
<1> DEFINE wallet == customerWallet(p, TopupCurrency)
           settlement == systemAccount("settlement", TopupCurrency)
           revenue == systemAccount("fee_revenue", TopupCurrency)
           total == n + m
<1>1. wallet \in Accounts /\ settlement \in Accounts /\ revenue \in Accounts
    BY AccountsExist, SystemKindsExist, AirtimeAssumption
<1>2. total \in Int /\ n \in Int /\ m \in Int
    OBVIOUS
<1>3. /\ debit(wallet, total) \in Posting /\ credit(settlement, n) \in Posting
      /\ credit(revenue, m) \in Posting /\ debit(settlement, n) \in Posting
      /\ credit(wallet, total) \in Posting /\ debit(revenue, m) \in Posting
    BY <1>1, <1>2, PostingsExist
<1>4. CASE m > 0
    <2>1. /\ airtimeTopup(p, TopupCurrency, n, m)
               = <<debit(wallet, total), credit(settlement, n), credit(revenue, m)>>
          /\ reverseAirtime(p, TopupCurrency, n, m)
               = <<debit(settlement, n), credit(wallet, total), debit(revenue, m)>>
        BY <1>3, <1>4, Concat21 DEF airtimeTopup, reverseAirtime, IfPositive
    <2> HIDE DEF wallet, settlement, revenue, total
    <2> QED
        BY <1>2, <2>1, TripleDelta DEF Signed, debit, credit
<1>5. CASE ~(m > 0)
    <2>1. /\ airtimeTopup(p, TopupCurrency, n, m)
               = <<debit(wallet, total), credit(settlement, n)>> \o <<>>
          /\ reverseAirtime(p, TopupCurrency, n, m)
               = <<debit(settlement, n), credit(wallet, total)>> \o <<>>
        BY <1>5 DEF airtimeTopup, reverseAirtime, IfPositive
    <2>2. /\ airtimeTopup(p, TopupCurrency, n, m)
               = <<debit(wallet, total), credit(settlement, n)>>
          /\ reverseAirtime(p, TopupCurrency, n, m)
               = <<debit(settlement, n), credit(wallet, total)>>
        BY <1>3, <2>1
    <2>3. total = n
        BY <1>5
    <2> HIDE DEF wallet, settlement, revenue, total
    <2> QED
        BY <1>2, <2>2, <2>3, PairDelta DEF Signed, debit, credit
<1> QED
    BY <1>4, <1>5

LEMMA AirtimeSparedKeepsInv ==
    ASSUME Typed, AirtimeInv, UNCHANGED env, AirtimeSpared
    PROVE  AirtimeInv'
<1>1. /\ \A k \in Topups : /\ journal'[TopupKey(k)] = journal[TopupKey(k)]
                           /\ journal'[ReversalKey(k)] = journal[ReversalKey(k)]
      /\ \A c \in Calls : calls'[c].pc \in AirtimePcs => calls'[c] = calls[c]
      /\ UNCHANGED margin /\ UNCHANGED sent
    BY OwnKeys DEF AirtimeSpared, Spared, airtimeVars
<1>2. \A c \in Calls : calls[c].pc \in AirtimePcs => calls[c].topup \in Topups
    BY AirtimeFields DEF Typed, StoreIsTyped
<1>3. SendersArePaid'
    BY <1>1, <1>2 DEF AirtimeInv, SendersArePaid, Posted, AirtimePcs
<1>4. SentOnlyIfCharged'
    BY <1>1 DEF AirtimeInv, SentOnlyIfCharged, Posted
<1>5. OneMargin'
    BY <1>1 DEF AirtimeInv, OneMargin, Paid, GivenBack
<1> QED
    BY <1>3, <1>4, <1>5 DEF AirtimeInv

LEMMA AirtimeArrivalsKeepInv ==
    ASSUME Typed, AirtimeInv, UNCHANGED env, AirtimeSteps
    PROVE  AirtimeInv'
<1>1. ASSUME NEW bps \in Margins, SetMargin(bps)
      PROVE  AirtimeInv'
    BY <1>1 DEF SetMargin, AirtimeInv, SendersArePaid, SentOnlyIfCharged, OneMargin, Posted
<1>2. ASSUME NEW c \in Calls, NEW k \in Topups, Topup(c, k)
      PROVE  AirtimeInv'
    <2> DEFINE state == [pc |-> "air.debit", topup |-> k,
                         margin |-> Money!applyBps(TopupCost, margin)]
    <2>1. /\ calls'[c] = state /\ \A e \in Calls \ {c} : calls'[e] = calls[e]
          /\ UNCHANGED <<balance, journal, margin, sent>>
        BY <1>2, CallAfter DEF Topup, airtimeVars, Typed, StoreIsTyped
    <2>2. state.pc = "air.debit" /\ state.margin = Money!applyBps(TopupCost, margin)
        OBVIOUS
    <2> HIDE DEF state
    <2>3. SendersArePaid' /\ SentOnlyIfCharged'
        BY <2>1, <2>2 DEF AirtimeInv, SendersArePaid, SentOnlyIfCharged, Posted
    <2>4. OneMargin'
        BY <2>1, <2>2 DEF AirtimeInv, OneMargin, DefaultMarginMinor, Paid, GivenBack
    <2> QED
        BY <2>3, <2>4 DEF AirtimeInv
<1> QED
    BY <1>1, <1>2 DEF AirtimeSteps

LEMMA AirtimeHandlerKeepsInv ==
    ASSUME Typed, AirtimeInv, UNCHANGED env, NEW c \in Calls, AirtimeProceeds(c)
    PROVE  AirtimeInv'
<1> DEFINE m == calls[c].margin
<1> PICK k \in Topups : k = calls[c].topup
    BY AirtimeFields
       DEF AirtimeProceeds, DebitTopup, SendTopup, ReverseTopup, At, AirtimePcs, Typed,
           StoreIsTyped
<1>1. /\ StoreIsTyped /\ StoreTypeOK /\ calls \in [Calls -> CallTypes]
      /\ UNCHANGED margin
    BY DEF Typed, StoreIsTyped, AirtimeProceeds, DebitTopup, SendTopup, ReverseTopup,
           airtimeVars
<1>2. \A e \in Calls : calls[e].pc \in AirtimePcs => calls[e].topup \in Topups
    BY <1>1, AirtimeFields
<1>3. /\ calls[c].pc \in AirtimePcs
      /\ "margin_change" \notin env.services =>
            /\ airtimeTopup(Payer[k], TopupCurrency, TopupCost, m) = Paid(k)
            /\ reverseAirtime(Payer[k], TopupCurrency, TopupCost, m) = GivenBack(k)
    BY DEF AirtimeProceeds, DebitTopup, SendTopup, ReverseTopup, At, AirtimePcs,
           AirtimeInv, OneMargin, Paid, GivenBack
<1>4. ASSUME NEW pc \in AirtimePcs, GoesTo(c, pc)
      PROVE  /\ calls'[c].pc = pc /\ calls'[c].topup = k /\ calls'[c].margin = m
             /\ \A e \in Calls \ {c} : calls'[e] = calls[e]
    BY <1>1, <1>3, <1>4, AirtimeGoesOn, CallAfter
<1>5. Returns(c) => calls'[c] = Idle /\ \A e \in Calls \ {c} : calls'[e] = calls[e]
    BY <1>1, Becomes, CallAfter
<1>6. "idle" \notin AirtimePcs /\ Idle.pc = "idle"
    BY DEF AirtimePcs, Idle
<1>7. CASE DebitTopup(c)
    <2> DEFINE postings == airtimeTopup(Payer[k], TopupCurrency, TopupCost, m)
    <2>1. /\ UNCHANGED sent
          /\ \/ Post(TopupKey(k), postings) /\ (GoesTo(c, "air.send") \/ Returns(c))
             \/ UNCHANGED journal /\ Returns(c)
        BY <1>7 DEF DebitTopup, AwaitsPost, Refuse, ledgerVars, airtimeVars
    <2>2. /\ \A j \in Keys : Posted(j) => journal'[j] = journal[j]
          /\ \A j \in Keys \ {TopupKey(k)} : journal'[j] = journal[j]
          /\ journal'[TopupKey(k)] \in {journal[TopupKey(k)], postings}
          /\ GoesTo(c, "air.send") => journal'[TopupKey(k)] # NoJournal
        <3>1. CASE UNCHANGED journal /\ Returns(c)
            <4>1. ~GoesTo(c, "air.send")
                BY <1>4, <1>5, <1>6, <3>1 DEF AirtimePcs
            <4> QED
                BY <3>1, <4>1
        <3>2. CASE Post(TopupKey(k), postings)
            <4>1. postings \in Seq(Posting)
                <5>1. /\ Payer[k] \in Customers /\ TopupCurrency \in Currencies
                      /\ TopupCost \in Int /\ m \in Int
                    BY <1>1, <1>3, AirtimeFields, AirtimeAssumption
                <5> QED
                    BY <5>1, AirtimeIsJournal
            <4> HIDE DEF postings
            <4>2. Posted(TopupKey(k))'
                BY <1>1, <3>2, <4>1, PostAppends, TopupKeysDiffer
            <4> QED
                BY <1>1, <3>2, <4>1, <4>2, PostAppends, PostStores, TopupKeysDiffer
                   DEF ledgerVars, Posted
        <3> QED
            BY <2>1, <3>1, <3>2
    <2> HIDE DEF postings
    <2>3. SendersArePaid'
        BY <1>1, <1>2, <1>4, <1>5, <1>6, <2>1, <2>2, TopupKeysDiffer
           DEF AirtimeInv, SendersArePaid, Posted, AirtimePcs
    <2>4. SentOnlyIfCharged'
        BY <2>1, <2>2, TopupKeysDiffer DEF AirtimeInv, SentOnlyIfCharged, Posted
    <2>5. OneMargin'
        BY <1>1, <1>3, <1>4, <1>5, <1>6, <2>1, <2>2, TopupKeysDiffer
           DEF AirtimeInv, OneMargin, postings, Paid, GivenBack, AirtimePcs
    <2> QED
        BY <2>3, <2>4, <2>5 DEF AirtimeInv
<1>8. CASE SendTopup(c)
    <2>1. /\ calls[c].pc = "air.send" /\ UNCHANGED journal
          /\ \A l \in Topups \ {k} : sent'[l] = sent[l]
          /\ GoesTo(c, "air.reverse") \/ Returns(c)
        BY <1>8 DEF SendTopup, At, Typed, AirtimeTypeOK
    <2>2. Posted(TopupKey(k))
        BY <2>1 DEF AirtimeInv, SendersArePaid
    <2>3. SendersArePaid'
        BY <1>2, <1>4, <1>5, <1>6, <2>1, <2>2
           DEF AirtimeInv, SendersArePaid, Posted, AirtimePcs
    <2>4. SentOnlyIfCharged'
        BY <2>1, <2>2 DEF AirtimeInv, SentOnlyIfCharged, Posted
    <2>5. OneMargin'
        BY <1>1, <1>3, <1>4, <1>5, <1>6, <2>1
           DEF AirtimeInv, OneMargin, Paid, GivenBack, AirtimePcs
    <2> QED
        BY <2>3, <2>4, <2>5 DEF AirtimeInv
<1>9. CASE ReverseTopup(c)
    <2> DEFINE postings == reverseAirtime(Payer[k], TopupCurrency, TopupCost, m)
    <2>1. /\ UNCHANGED sent /\ calls[c].pc = "air.reverse" /\ Returns(c)
          /\ Post(ReversalKey(k), postings) \/ UNCHANGED journal
        BY <1>9 DEF ReverseTopup, ReversalPostings, AwaitsPost, Refuse, ledgerVars,
                    airtimeVars, At
    <2>2. /\ \A j \in Keys \ {ReversalKey(k)} : journal'[j] = journal[j]
          /\ journal'[ReversalKey(k)] \in {journal[ReversalKey(k)], postings}
        <3>1. CASE Post(ReversalKey(k), postings)
            <4>1. postings \in Seq(Posting)
                <5>1. /\ Payer[k] \in Customers /\ TopupCurrency \in Currencies
                      /\ TopupCost \in Int /\ m \in Int
                    BY <1>1, <1>3, AirtimeFields, AirtimeAssumption
                <5> QED
                    BY <5>1, AirtimeIsJournal
            <4> HIDE DEF postings
            <4> QED
                BY <1>1, <3>1, <4>1, PostAppends, PostStores, TopupKeysDiffer DEF ledgerVars
        <3> QED
            BY <2>1, <3>1
    <2> HIDE DEF postings
    <2>3. Posted(TopupKey(k))
        BY <2>1 DEF AirtimeInv, SendersArePaid
    <2>4. SendersArePaid'
        BY <1>1, <1>2, <1>5, <1>6, <2>1, <2>2, TopupKeysDiffer
           DEF AirtimeInv, SendersArePaid, Posted, AirtimePcs
    <2>5. SentOnlyIfCharged'
        BY <2>1, <2>2, <2>3, TopupKeysDiffer DEF AirtimeInv, SentOnlyIfCharged, Posted
    <2>6. OneMargin'
        BY <1>1, <1>3, <1>5, <1>6, <2>1, <2>2, TopupKeysDiffer
           DEF AirtimeInv, OneMargin, postings, Paid, GivenBack
    <2> QED
        BY <2>4, <2>5, <2>6 DEF AirtimeInv
<1> QED
    BY <1>7, <1>8, <1>9 DEF AirtimeProceeds

LEMMA AirtimeInvNext ==
    ASSUME Typed, AirtimeInv, [Next]_vars
    PROVE  AirtimeInv'
<1>1. CASE AirtimeStep
    BY <1>1, StepsByService, AirtimeArrivalsKeepInv, AirtimeHandlerKeepsInv DEF AirtimeStep
<1>2. CASE AirtimeUntouched
    BY <1>2, StepsByService, UntouchedIsSpared, AirtimeSparedKeepsInv
<1>3. CASE Crash \/ UNCHANGED vars
    BY <1>3, CrashSparesAll, AirtimeSparedKeepsInv DEF AllSpared
<1> QED
    BY <1>1, <1>2, <1>3, StepsByService
       DEF WithdrawalStep, CashoutStep, DepositStep, ReferralStep

LEMMA AirtimeInvInit ==
    ASSUME Init
    PROVE  AirtimeInv
BY TopupKeysDiffer
   DEF Init, AirtimeInit, AirtimeInv, SendersArePaid, SentOnlyIfCharged, OneMargin, Idle,
       AirtimePcs, Posted

\* No airtime leaves before the wallet has paid for it, and what is refunded leaves
\* every account as it was, however often a top-up is retried and whatever
\* acknowledgement or answer is lost.
THEOREM TopupsArePaid == Spec => []TopupsMatchLedger
<1>1. ASSUME AirtimeInv
      PROVE  RefundUnwindsCharge
    <2> SUFFICES ASSUME "margin_change" \notin env.services, NEW k \in Topups,
                        Posted(ReversalKey(k)), NEW a \in Accounts
                 PROVE  Delta(journal[TopupKey(k)], a) + Delta(journal[ReversalKey(k)], a) = 0
        BY DEF RefundUnwindsCharge
    <2>1. journal[TopupKey(k)] = Paid(k) /\ journal[ReversalKey(k)] = GivenBack(k)
        BY <1>1 DEF AirtimeInv, SentOnlyIfCharged, OneMargin, Posted
    <2>2. DefaultMarginMinor \in Nat /\ Payer[k] \in Customers /\ TopupCost \in Nat
        BY ApplyBpsIsNat, AirtimeAssumption DEF DefaultMarginMinor
    <2> QED
        BY <2>1, <2>2, RefundCancels DEF Paid, GivenBack
<1>2. AirtimeInv => TopupsMatchLedger
    BY <1>1 DEF AirtimeInv, TopupsMatchLedger
<1> QED
    BY <1>2, TypedAlways, AirtimeInvInit, AirtimeInvNext, PTL DEF Spec

-----------------------------------------------------------------------------
(* Deposits: acknowledged only when credited, credited only what was received *)

\* The journal of a charge that is credited.
Credit(d) == fundWallet(intents[d].customer, DepositCurrency[Gateway[d]], CreditMinor(d))

\* The inductive invariant: a webhook's handler that is about to mark or to record a
\* settlement has seen the credit, and a credit is of a paid charge, as its intent and
\* the provider's report say.
AcknowledgingIsCredited ==
    \A c \in Calls :
        calls[c].pc = "hook.paid" \/ (calls[c].pc = "hook.record" /\ calls[c].event = "settled")
            => Posted(FundKey(calls[c].charge))

CreditsAreDue ==
    \A d \in Charges : Posted(FundKey(d)) =>
        charges[d].state = "paid" /\ journal[FundKey(d)] = Credit(d)

DepositInv == AcknowledgingIsCredited /\ HandledIsCredited /\ CreditsAreDue

LEMMA FundKeysDiffer ==
    ASSUME NEW d \in Charges, NEW e \in Charges
    PROVE  FundKey(d) \in Keys /\ (FundKey(d) = FundKey(e) => d = e)
BY KeysExist, OwnKeys DEF FundKey

\* Nothing is credited and no charge or intent of a credited deposit changes.
LEMMA QuietDepositKeepsInv ==
    ASSUME Typed, DepositInv, UNCHANGED events,
           \A d \in Charges : journal'[FundKey(d)] = journal[FundKey(d)],
           \A d \in Charges :
               \/ charges'[d] = charges[d] /\ intents'[d] = intents[d]
               \/ charges[d].state # "paid" /\ intents'[d].status # "paid",
           \A c \in Calls :
               \/ calls'[c] = calls[c]
               \/ /\ calls'[c].pc # "hook.paid"
                  /\ ~(calls'[c].pc = "hook.record" /\ calls'[c].event = "settled")
    PROVE  DepositInv'
<1>1. \A c \in Calls : calls[c].pc \in HookPcs => calls[c].charge \in Charges
    BY DepositFields DEF Typed, StoreIsTyped, HookPcs
<1>2. \A d \in Charges : Posted(FundKey(d))' <=> Posted(FundKey(d))
    BY DEF Posted
<1>3. AcknowledgingIsCredited'
    BY <1>1 DEF DepositInv, AcknowledgingIsCredited, HookPcs, Posted
<1>4. HandledIsCredited'
    BY DEF DepositInv, HandledIsCredited, Posted
<1>5. ASSUME NEW d \in Charges, Posted(FundKey(d))'
      PROVE  charges'[d].state = "paid" /\ journal'[FundKey(d)] = Credit(d)'
    BY <1>2, <1>5 DEF DepositInv, CreditsAreDue, Credit, CreditMinor
<1>6. CreditsAreDue'
    BY <1>5 DEF CreditsAreDue
<1> QED
    BY <1>3, <1>4, <1>6 DEF DepositInv

LEMMA DepositsSparedKeepInv ==
    ASSUME Typed, DepositInv, DepositsSpared
    PROVE  DepositInv'
<1>1. /\ \A d \in Charges : journal'[FundKey(d)] = journal[FundKey(d)]
      /\ \A c \in Calls : calls'[c] = calls[c] \/ calls'[c].pc \notin DepositPcs
      /\ UNCHANGED charges /\ UNCHANGED intents /\ UNCHANGED events
    BY OwnKeys DEF DepositsSpared, Spared, depositVars
<1> QED
    BY <1>1, QuietDepositKeepsInv DEF DepositPcs

LEMMA DepositArrivalsKeepInv ==
    ASSUME Typed, DepositInv, DepositSteps
    PROVE  DepositInv'
<1> USE DEF Typed
<1>1. ASSUME NEW d \in Charges, NEW c \in Calls, NEW n \in DepositAmounts, OpenDeposit(c, d, n)
      PROVE  DepositInv'
    <2> DEFINE state == [pc |-> "dep.intent", charge |-> d, amount |-> n]
    <2>1. /\ UNCHANGED journal /\ UNCHANGED intents /\ UNCHANGED events
          /\ charges[d] = NoCharge /\ \A e \in Charges \ {d} : charges'[e] = charges[e]
          /\ UNCHANGED calls \/ Starts(c, state)
        BY <1>1 DEF OpenDeposit, DepositsTyped, DepositTypeOK
    <2>2. charges[d].state # "paid" /\ intents[d].status # "paid"
        <3>1. ~Posted(FundKey(d)) /\ charges[d].state # "paid"
            BY <2>1 DEF DepositInv, CreditsAreDue, NoCharge
        <3> QED
            BY <3>1 DEF DepositInv, HandledIsCredited
    <2>3. state.pc = "dep.intent"
        OBVIOUS
    <2> HIDE DEF state
    <2>4. \A e \in Calls : calls'[e] = calls[e] \/ calls'[e].pc = "dep.intent"
        BY <2>1, <2>3, CallAfter DEF StoreIsTyped
    <2> QED
        BY <2>1, <2>2, <2>4, QuietDepositKeepsInv
<1>2. ASSUME NEW d \in Charges, NEW report \in Reports[Gateway[d]], Pay(d, report)
      PROVE  DepositInv'
    <2>1. /\ UNCHANGED journal /\ UNCHANGED intents /\ UNCHANGED events /\ UNCHANGED calls
          /\ charges[d].state = "shown" /\ \A e \in Charges \ {d} : charges'[e] = charges[e]
        BY <1>2 DEF Pay, DepositsTyped, DepositTypeOK
    <2>2. intents[d].status # "paid"
        BY <2>1 DEF DepositInv, CreditsAreDue, HandledIsCredited
    <2> QED
        BY <2>1, <2>2, QuietDepositKeepsInv
<1>3. ASSUME NEW d \in Charges, NEW c \in Calls, NEW event \in EventKinds, Deliver(c, d, event)
      PROVE  DepositInv'
    <2> DEFINE x == [pc |-> IF event = "settled" THEN "hook.intent" ELSE "hook.record",
                     charge |-> d, event |-> event]
    <2>1. /\ UNCHANGED journal /\ UNCHANGED intents /\ UNCHANGED events /\ UNCHANGED charges
          /\ Starts(c, x)
        BY <1>3 DEF Deliver, depositVars
    <2>2. x.pc # "hook.paid" /\ ~(x.pc = "hook.record" /\ x.event = "settled")
        OBVIOUS
    <2> HIDE DEF x
    <2>3. \A e \in Calls : calls'[e] = calls[e] \/ calls'[e] = x
        BY <2>1, CallAfter DEF StoreIsTyped
    <2> QED
        BY <2>1, <2>2, <2>3, QuietDepositKeepsInv
<1> QED
    BY <1>1, <1>2, <1>3 DEF DepositSteps

LEMMA RecordIntentKeepsInv ==
    ASSUME Typed, DepositInv, NEW c \in Calls, RecordIntent(c)
    PROVE  DepositInv'
<1> DEFINE row == [status |-> "pending", customer |-> Depositor[calls[c].charge],
                   amount |-> calls[c].amount]
<1> PICK d \in Charges : d = calls[c].charge
    BY DepositFields DEF RecordIntent, At, Typed, StoreIsTyped
<1>1. charges[d].state # "paid" /\ ~Posted(FundKey(d)) /\ intents[d].status # "paid"
    <2>1. charges[d] = [state |-> "open"]
        BY DEF Typed, DepositsTyped, DepositCallOK, RecordIntent, At
    <2>2. charges[d].state # "paid"
        BY <2>1
    <2> QED
        BY <2>2 DEF DepositInv, CreditsAreDue, HandledIsCredited
<1>2. /\ Starts(c, Idle) /\ UNCHANGED journal /\ UNCHANGED events
      /\ UNCHANGED intents \/ intents' = [intents EXCEPT ![d] = row]
      /\ UNCHANGED charges \/ charges' = [charges EXCEPT ![d].state = "shown"]
    BY Becomes DEF RecordIntent, AwaitsWrite
<1>3. row.status = "pending"
    OBVIOUS
<1> HIDE DEF row
<1>4. /\ \A e \in Charges \ {d} : charges'[e] = charges[e] /\ intents'[e] = intents[e]
      /\ intents'[d].status # "paid"
    BY <1>1, <1>2, <1>3 DEF Typed, DepositsTyped, DepositTypeOK
<1>5. \A e \in Calls : calls'[e] = calls[e] \/ calls'[e].pc = "idle"
    BY <1>2, CallAfter DEF Typed, StoreIsTyped, Idle
<1> QED
    BY <1>1, <1>2, <1>4, <1>5, QuietDepositKeepsInv

\* The webhooks' handlers.
LEMMA HookKeepsInv ==
    ASSUME Typed, DepositInv, NEW c \in Calls,
           HookIntent(c) \/ HookFund(c) \/ HookMarkPaid(c) \/ HookRecord(c)
    PROVE  DepositInv'
<1> DEFINE event == calls[c].event
<1> PICK d \in Charges : d = calls[c].charge
    BY DepositFields
       DEF HookIntent, HookFund, HookMarkPaid, HookRecord, At, HookPcs, Typed, StoreIsTyped
<1>1. /\ StoreIsTyped /\ StoreTypeOK /\ calls \in [Calls -> CallTypes] /\ calls[c].pc \in HookPcs
      /\ UNCHANGED charges
    BY DEF Typed, StoreIsTyped, HookIntent, HookFund, HookMarkPaid, HookRecord, At, HookPcs,
           depositVars
<1>2. calls[c].pc # "hook.record" => charges[d].state = "paid" /\ intents[d] \in Intent
    BY <1>1, DepositRows DEF Typed, DepositsTyped, DepositCallOK, HookPcs
<1>3. ASSUME NEW pc \in HookPcs, GoesTo(c, pc)
      PROVE  /\ calls'[c].pc = pc /\ calls'[c].charge = d /\ calls'[c].event = event
             /\ \A e \in Calls \ {c} : calls'[e] = calls[e]
    BY <1>1, <1>3, HookGoesOn, CallAfter
<1>4. Returns(c) => calls'[c] = Idle /\ \A e \in Calls \ {c} : calls'[e] = calls[e]
    BY <1>1, Becomes, CallAfter
<1>5. \A e \in Calls : calls[e].pc \in HookPcs => calls[e].charge \in Charges
    BY <1>1, DepositFields DEF HookPcs
<1>6. CASE HookIntent(c)
    <2>1. /\ calls[c].pc = "hook.intent" /\ UNCHANGED journal
          /\ UNCHANGED intents /\ UNCHANGED events
          /\ GoesTo(c, IF \/ intents[d] = NoIntent
                          \/ Gateway[d] = "nowpayments" /\ intents[d].status = "paid"
                       THEN "hook.record" ELSE "hook.fund")
        BY <1>6 DEF HookIntent, At, depositVars
    <2>2. intents[d] # NoIntent
        BY <1>2, <2>1 DEF Intent, NoIntent
    <2>3. \/ GoesTo(c, "hook.record") /\ Posted(FundKey(d))
          \/ GoesTo(c, "hook.fund")
        BY <2>1, <2>2 DEF DepositInv, HandledIsCredited
    <2>4. AcknowledgingIsCredited'
        BY <1>3, <1>5, <2>1, <2>3
           DEF DepositInv, AcknowledgingIsCredited, Posted, HookPcs
    <2>5. HandledIsCredited' /\ CreditsAreDue'
        BY <1>1, <2>1
           DEF DepositInv, HandledIsCredited, CreditsAreDue, Credit, CreditMinor, Posted
    <2> QED
        BY <2>4, <2>5 DEF DepositInv
<1>7. CASE HookFund(c)
    <2> DEFINE postings == fundWallet(intents[d].customer, DepositCurrency[Gateway[d]],
                                      CreditMinor(d))
    <2>1. /\ calls[c].pc = "hook.fund" /\ UNCHANGED intents /\ UNCHANGED events
          /\ \/ Post(FundKey(d), postings) /\ (GoesTo(c, "hook.paid") \/ Returns(c))
             \/ UNCHANGED journal /\ Returns(c)
        BY <1>7 DEF HookFund, At, AwaitsPost, Refuse, ledgerVars, depositVars
    <2>2. postings \in Seq(Posting)
        <3>1. CreditMinor(d) \in Int /\ intents[d].customer \in Customers
            BY <1>2, <2>1, CreditMinorIsInt DEF Intent, Typed
        <3>2. DepositCurrency[Gateway[d]] \in Currencies
            BY DepositsAssumption
        <3> QED
            BY <3>1, <3>2, MovesAreJournals
    <2> HIDE DEF postings
    <2>3. /\ \A e \in Charges \ {d} : journal'[FundKey(e)] = journal[FundKey(e)]
          /\ journal'[FundKey(d)] = journal[FundKey(d)]
                \/ (journal[FundKey(d)] = NoJournal /\ journal'[FundKey(d)] = postings)
          /\ Posted(FundKey(d)) => journal'[FundKey(d)] = journal[FundKey(d)]
          /\ GoesTo(c, "hook.paid") => journal'[FundKey(d)] # NoJournal
        <3>1. CASE UNCHANGED journal /\ Returns(c)
            <4>1. ~GoesTo(c, "hook.paid")
                BY <1>3, <1>4, <3>1 DEF HookPcs, Idle
            <4> QED
                BY <3>1, <4>1
        <3>2. CASE Post(FundKey(d), postings)
            <4>1. Posted(FundKey(d))'
                BY <1>1, <2>2, <3>2, PostAppends, FundKeysDiffer
            <4> QED
                BY <1>1, <2>2, <3>2, <4>1, PostAppends, PostStores, FundKeysDiffer
                   DEF ledgerVars, Posted
        <3> QED
            BY <2>1, <3>1, <3>2
    <2>4. \A e \in Charges : Posted(FundKey(e)) => journal'[FundKey(e)] # NoJournal
        BY <2>3 DEF Posted
    <2>5. AcknowledgingIsCredited'
        BY <1>3, <1>4, <1>5, <2>1, <2>3, <2>4
           DEF DepositInv, AcknowledgingIsCredited, Posted, HookPcs, Idle
    <2>6. HandledIsCredited'
        BY <2>1, <2>4 DEF DepositInv, HandledIsCredited, Posted
    <2>7. CreditsAreDue'
        <3>1. \A e \in Charges : Credit(e)' = Credit(e)
            BY <1>1, <2>1 DEF Credit, CreditMinor
        <3> QED
            BY <1>1, <1>2, <2>1, <2>3, <3>1
               DEF DepositInv, CreditsAreDue, Posted, postings, Credit
    <2> QED
        BY <2>5, <2>6, <2>7 DEF DepositInv
<1>8. CASE HookMarkPaid(c)
    <2>1. /\ calls[c].pc = "hook.paid" /\ UNCHANGED journal /\ UNCHANGED events
          /\ UNCHANGED intents \/ intents' = [intents EXCEPT ![d].status = "paid"]
          /\ GoesTo(c, "hook.record") \/ Returns(c)
        BY <1>8 DEF HookMarkPaid, At, AwaitsWrite
    <2>2. Posted(FundKey(d))
        BY <2>1 DEF DepositInv, AcknowledgingIsCredited
    <2>3. \A e \in Charges : /\ e # d => intents'[e] = intents[e]
                             /\ intents'[d].customer = intents[d].customer
                             /\ intents'[d].amount = intents[d].amount
        <3>1. intents[d] \in Intent
            BY <1>2, <2>1
        <3> QED
            BY <2>1, <3>1 DEF Typed, DepositsTyped, DepositTypeOK, Intent
    <2>4. AcknowledgingIsCredited'
        BY <1>3, <1>4, <1>5, <2>1, <2>2
           DEF DepositInv, AcknowledgingIsCredited, Posted, HookPcs, Idle
    <2>5. HandledIsCredited'
        BY <2>1, <2>2, <2>3 DEF DepositInv, HandledIsCredited, Posted
    <2>6. CreditsAreDue'
        <3>1. \A e \in Charges : Credit(e)' = Credit(e)
            BY <1>1, <2>3 DEF Credit, CreditMinor
        <3> QED
            BY <1>1, <2>1, <3>1 DEF DepositInv, CreditsAreDue, Posted
    <2> QED
        BY <2>4, <2>5, <2>6 DEF DepositInv
<1>9. CASE HookRecord(c)
    <2>1. /\ calls[c].pc = "hook.record" /\ UNCHANGED journal /\ UNCHANGED intents
          /\ UNCHANGED events \/ events' = events \cup {<<d, event>>}
          /\ Returns(c)
        BY <1>9 DEF HookRecord, At, AwaitsWrite
    <2>2. event = "settled" => Posted(FundKey(d))
        BY <2>1 DEF DepositInv, AcknowledgingIsCredited
    <2>3. AcknowledgingIsCredited'
        BY <1>4, <1>5, <2>1 DEF DepositInv, AcknowledgingIsCredited, Posted, HookPcs, Idle
    <2>4. HandledIsCredited'
        BY <2>1, <2>2 DEF DepositInv, HandledIsCredited, Posted
    <2>5. CreditsAreDue'
        BY <1>1, <2>1 DEF DepositInv, CreditsAreDue, Credit, CreditMinor, Posted
    <2> QED
        BY <2>3, <2>4, <2>5 DEF DepositInv
<1> QED
    BY <1>6, <1>7, <1>8, <1>9

LEMMA DepositInvNext ==
    ASSUME Typed, DepositInv, [Next]_vars
    PROVE  DepositInv'
<1>1. CASE DepositStep
    BY <1>1, DepositArrivalsKeepInv, RecordIntentKeepsInv, HookKeepsInv
       DEF DepositStep, DepositProceeds
<1>2. CASE DepositsUntouched
    BY <1>2, UntouchedIsSpared, DepositsSparedKeepInv
<1>3. CASE Crash \/ UNCHANGED vars
    BY <1>3, CrashSparesAll, DepositsSparedKeepInv DEF AllSpared
<1> QED
    BY <1>1, <1>2, <1>3, StepsByService
       DEF WithdrawalStep, CashoutStep, AirtimeStep, ReferralStep

LEMMA DepositInvInit ==
    ASSUME Init
    PROVE  DepositInv
BY FundKeysDiffer
   DEF Init, DepositInit, DepositInv, AcknowledgingIsCredited, HandledIsCredited,
       CreditsAreDue, Idle, NoIntent, Posted

\* A settlement is acknowledged only once the wallet is credited, and a customer is
\* credited only for a charge that was paid, and not more than the platform received.
THEOREM DepositsAreCredited == Spec => []DepositsMatchLedger
<1>1. ASSUME Typed, DepositInv
      PROVE  CreditNeverExceedsFunds
    <2> SUFFICES ASSUME NEW d \in Charges, Posted(FundKey(d))
                 PROVE  LET gain == Delta(journal[FundKey(d)],
                                          customerWallet(intents[d].customer,
                                                         DepositCurrency[Gateway[d]]))
                            net == Money!usdtMinorOrNull(charges[d].report.net)
                        IN /\ charges[d].state = "paid"
                           /\ Gateway[d] = "lytex" => gain = intents[d].amount
                           /\ Gateway[d] = "nowpayments" /\ net # Money!NoAmount
                                  => gain <= net
        BY DEF CreditNeverExceedsFunds
    <2> DEFINE wallet == customerWallet(intents[d].customer, DepositCurrency[Gateway[d]])
               settlement == systemAccount("settlement", DepositCurrency[Gateway[d]])
    <2>1. charges[d].state = "paid" /\ journal[FundKey(d)] = Credit(d)
        BY <1>1 DEF DepositInv, CreditsAreDue
    <2>2. /\ CreditMinor(d) \in Int /\ intents[d].customer \in Customers
          /\ DepositCurrency[Gateway[d]] \in Currencies
        BY <1>1, <2>1, CreditMinorIsInt, DepositRows, DepositsAssumption DEF Typed, Intent
    <2>3. /\ wallet \in Accounts /\ settlement \in Accounts /\ wallet # settlement
        BY <2>2, AccountsExist, SystemKindsExist, AccountsDiffer
    <2>4. Delta(journal[FundKey(d)], wallet) = CreditMinor(d)
        <3> HIDE DEF wallet, settlement
        <3>1. journal[FundKey(d)] = Move(settlement, wallet, CreditMinor(d))
            BY <2>1 DEF Credit, fundWallet, wallet, settlement
        <3> QED
            BY <2>2, <2>3, <3>1, MoveDelta
    <2>5. Gateway[d] = "lytex" => CreditMinor(d) = intents[d].amount
        BY DEF CreditMinor
    <2>6. Gateway[d] = "nowpayments" /\ Money!usdtMinorOrNull(charges[d].report.net) # Money!NoAmount
              => CreditMinor(d) = Money!usdtMinorOrNull(charges[d].report.net)
        BY DEF CreditMinor
    <2> QED
        BY <2>1, <2>2, <2>4, <2>5, <2>6
<1>2. Typed /\ DepositInv => DepositsMatchLedger
    BY <1>1 DEF DepositInv, DepositsMatchLedger
<1> QED
    BY <1>2, TypedAlways, DepositInvInit, DepositInvNext, PTL DEF Spec

-----------------------------------------------------------------------------
(* Referrals: a code is its owner's, and a reward that is shown was paid *)

Rewarding == {"ref.bonus", "ref.second", "ref.reward", "ref.mark"}
BonusRead == {"ref.second", "ref.reward", "ref.mark"}
OneBonusOnly == "bonus_change" \notin env.services

\* The inductive invariant.  No two owners have one code, and what is shared is one's own.
CodesAreOnes ==
    /\ \A u, v \in Users : codes[u] = codes[v] /\ codes[u] # NoCode => u = v
    /\ \A u \in Users : shared[u] \subseteq {codes[u]}

\* A handler records a referral where there is none, pays the referrer that is
\* recorded, and marks what is paid.
ReferralCallTrue(x) ==
    /\ x.pc = "ref.record" => referrals[x.referred] = NoReferral
    /\ x.pc \in Rewarding => /\ referrals[x.referred] # NoReferral
                             /\ referrals[x.referred].referrer = x.referrer
    /\ x.pc = "ref.mark" => Posted(RewardKey(x.referred))
    /\ OneBonusOnly => /\ x.pc \in BonusRead => x.read = DefaultBonus
                       /\ x.pc # "bonus.currency"

RecordedOnce ==
    \A c, e \in Calls :
        /\ calls[c].pc = "ref.record" /\ calls[e].pc = "ref.record"
        /\ calls[c].referred = calls[e].referred
        => c = e

\* A reward in the books is of a recorded referral, to its referrer, of a bonus that
\* was set; a referral that reads rewarded is in the books.
BookedAs(u, b) ==
    /\ b.minor > 0
    /\ journal[RewardKey(u)] = referralReward(referrals[u].referrer, b.currency, b.minor)
    /\ OneBonusOnly => b = DefaultBonus

RewardsAreBooked ==
    \A u \in Users :
        /\ Posted(RewardKey(u)) =>
              referrals[u] # NoReferral /\ \E b \in BonusType : BookedAs(u, b)
        /\ referrals[u].status = "rewarded" =>
              Posted(RewardKey(u)) /\ (OneBonusOnly => referrals[u].reward = DefaultBonus)

ReferralInv ==
    /\ CodesAreOnes
    /\ \A c \in Calls : ReferralCallTrue(calls[c])
    /\ RecordedOnce
    /\ RewardsAreBooked
    /\ OneBonusOnly => bonus = DefaultBonus

LEMMA RewardKeysDiffer ==
    ASSUME NEW u \in Users, NEW v \in Users
    PROVE  RewardKey(u) \in Keys /\ (RewardKey(u) = RewardKey(v) => u = v)
BY KeysExist, OwnKeys DEF RewardKey

LEMMA ReferredExist ==
    ASSUME Typed, NEW c \in Calls, calls[c].pc \in Rewarding \cup {"ref.record"}
    PROVE  calls[c].referred \in Users
BY ReferralFields DEF Typed, StoreIsTyped, Rewarding

\* Referrals and their rewards stay, and so do the codes' owners.
LEMMA QuietReferralKeepsInv ==
    ASSUME Typed, ReferralInv, UNCHANGED env, UNCHANGED referrals,
           \A u \in Users : journal'[RewardKey(u)] = journal[RewardKey(u)],
           CodesAreOnes',
           OneBonusOnly => UNCHANGED bonus,
           \A e \in Calls :
               calls'[e] = calls[e] \/ /\ ReferralCallTrue(calls'[e])
                                       /\ calls'[e].pc # "ref.record"
                                       /\ calls'[e].pc = "ref.mark" => calls'[e].referred \in Users
    PROVE  ReferralInv'
<1>1. OneBonusOnly' = OneBonusOnly /\ \A u \in Users : Posted(RewardKey(u))' = Posted(RewardKey(u))
    BY DEF OneBonusOnly, Posted
<1>2. \A e \in Calls : calls'[e].pc = "ref.mark" => calls'[e].referred \in Users
    BY ReferredExist DEF Rewarding
<1>3. \A e \in Calls : ReferralCallTrue(calls'[e])
    BY DEF ReferralInv
<1>4. \A e \in Calls : ReferralCallTrue(calls[e])'
    <2> SUFFICES ASSUME NEW e \in Calls
                 PROVE  ReferralCallTrue(calls[e])'
        OBVIOUS
    <2>1. calls'[e].pc = "ref.mark" =>
              journal'[RewardKey(calls'[e].referred)] = journal[RewardKey(calls'[e].referred)]
        BY <1>2
    <2>2. ReferralCallTrue(calls'[e])
        BY <1>3
    <2> QED
        BY <1>1, <2>1, <2>2 DEF ReferralCallTrue, Posted
<1>5. RecordedOnce'
    BY DEF ReferralInv, RecordedOnce
<1>6. RewardsAreBooked'
    BY <1>1 DEF ReferralInv, RewardsAreBooked, BookedAs
<1> QED
    BY <1>1, <1>4, <1>5, <1>6 DEF ReferralInv

LEMMA ReferralsSparedKeepInv ==
    ASSUME Typed, ReferralInv, UNCHANGED env, ReferralsSpared
    PROVE  ReferralInv'
<1>1. /\ \A u \in Users : journal'[RewardKey(u)] = journal[RewardKey(u)]
      /\ \A c \in Calls : calls'[c] = calls[c] \/ calls'[c].pc \notin ReferralPcs
      /\ UNCHANGED codes /\ UNCHANGED shared /\ UNCHANGED referrals /\ UNCHANGED bonus
    BY OwnKeys DEF ReferralsSpared, Spared, referralVars
<1>2. CodesAreOnes'
    BY <1>1 DEF ReferralInv, CodesAreOnes
<1>3. \A x : x.pc \notin ReferralPcs => /\ ReferralCallTrue(x) /\ x.pc # "ref.record"
                                        /\ x.pc # "ref.mark"
    BY DEF ReferralCallTrue, ReferralPcs, Rewarding, BonusRead
<1> QED
    BY <1>1, <1>2, <1>3, QuietReferralKeepsInv

LEMMA CodeStepsKeepInv ==
    ASSUME Typed, ReferralInv, UNCHANGED env, NEW c \in Calls,
           \/ \E u \in Users : CodeFor(c, u)
           \/ ReadCodeAgain(c)
           \/ \E code \in ReferralCodes : CreateCode(c, code)
    PROVE  ReferralInv'
<1>1. StoreIsTyped /\ calls \in [Calls -> CallTypes] /\ ReferralTypeOK
    BY DEF Typed, StoreIsTyped, ReferralsTyped
<1>2. UNCHANGED journal /\ UNCHANGED referrals /\ UNCHANGED bonus
    BY DEF CodeFor, ReadCodeAgain, CreateCode
<1>3. \A e \in Calls : calls'[e] = calls[e] \/ calls'[e].pc \in {"idle", "ref.create", "ref.again"}
    <2>1. \/ UNCHANGED calls \/ Starts(c, Idle)
          \/ \E u, n : Starts(c, [pc |-> "ref.create", owner |-> u, attempts |-> n])
          \/ GoesTo(c, "ref.again") /\ calls[c].pc = "ref.create"
        BY Becomes DEF CodeFor, ReadCodeAgain, CreateCode, AwaitsWrite, At
    <2>2. CASE GoesTo(c, "ref.again") /\ calls[c].pc = "ref.create"
        <3>1. calls[c] \in [pc : {"ref.create", "ref.again"}, owner : Users,
                            attempts : 0..CodeAttempts]
            BY <1>1, <2>2, ReferralFields
        <3>2. [calls[c] EXCEPT !.pc = "ref.again"].pc = "ref.again"
            BY <3>1
        <3> QED
            BY <1>1, <2>2, <3>2, Becomes, CallAfter
    <2>3. ASSUME NEW u, NEW n, Starts(c, [pc |-> "ref.create", owner |-> u, attempts |-> n])
          PROVE  \A e \in Calls : calls'[e] = calls[e] \/ calls'[e].pc = "ref.create"
        <3>1. [pc |-> "ref.create", owner |-> u, attempts |-> n].pc = "ref.create"
            OBVIOUS
        <3> QED
            BY <1>1, <2>3, <3>1, CallAfter
    <2>4. CASE Starts(c, Idle)
        BY <1>1, <2>4, CallAfter DEF Idle
    <2> QED
        BY <2>1, <2>2, <2>3, <2>4
<1>4. \A x : x.pc \in {"idle", "ref.create", "ref.again"} =>
          ReferralCallTrue(x) /\ x.pc # "ref.record" /\ x.pc # "ref.mark"
    BY DEF ReferralCallTrue, Rewarding, BonusRead
<1>5. PICK u \in Users, code \in ReferralCodes \cup {NoCode} :
          \/ /\ UNCHANGED codes
             /\ UNCHANGED shared \/ (codes[u] = code /\ Shows(u, code))
          \/ /\ Creatable(u, code) /\ code \in ReferralCodes
             /\ \/ UNCHANGED codes /\ UNCHANGED shared
                \/ codes' = [codes EXCEPT ![u] = code] /\ (Shows(u, code) \/ UNCHANGED shared)
    <2>1. ASSUME NEW u \in Users, CodeFor(c, u)
          PROVE  UNCHANGED codes /\ (UNCHANGED shared \/ Shows(u, codes[u]))
        BY <2>1 DEF CodeFor
    <2>2. ASSUME ReadCodeAgain(c)
          PROVE  /\ calls[c].owner \in Users /\ UNCHANGED codes
                 /\ UNCHANGED shared \/ Shows(calls[c].owner, codes[calls[c].owner])
        BY <1>1, <2>2, ReferralFields DEF ReadCodeAgain, At
    <2>3. ASSUME NEW code \in ReferralCodes, CreateCode(c, code)
          PROVE  /\ calls[c].owner \in Users
                 /\ \/ UNCHANGED codes /\ UNCHANGED shared
                    \/ /\ Creatable(calls[c].owner, code)
                       /\ \/ UNCHANGED codes /\ UNCHANGED shared
                          \/ /\ codes' = [codes EXCEPT ![calls[c].owner] = code]
                             /\ Shows(calls[c].owner, code) \/ UNCHANGED shared
        BY <1>1, <2>3, ReferralFields DEF CreateCode, At, AwaitsWrite
    <2>4. \A v \in Users : codes[v] \in ReferralCodes \cup {NoCode}
        BY <1>1 DEF ReferralTypeOK
    <2> QED
        BY <2>1, <2>2, <2>3, <2>4
<1>6. CodesAreOnes'
    <2>1. CodesAreOnes /\ codes \in [Users -> ReferralCodes \cup {NoCode}]
          /\ shared \in [Users -> SUBSET ReferralCodes]
        BY <1>1 DEF ReferralInv, ReferralTypeOK
    <2>2. CASE UNCHANGED codes /\ UNCHANGED shared
        BY <2>1, <2>2 DEF CodesAreOnes
    <2>3. CASE UNCHANGED codes /\ codes[u] = code /\ Shows(u, code)
        BY <2>1, <2>3 DEF CodesAreOnes, Shows
    <2>4. CASE /\ Creatable(u, code) /\ code \in ReferralCodes
               /\ codes' = [codes EXCEPT ![u] = code]
               /\ Shows(u, code) \/ UNCHANGED shared
        <3>1. shared[u] = {}
            BY <2>1, <2>4, ReferralsAssumption DEF CodesAreOnes, Creatable
        <3>2. codes'[u] = code /\ \A v \in Users \ {u} : codes'[v] = codes[v] /\ codes[v] # code
            BY <2>1, <2>4 DEF Creatable
        <3>3. shared'[u] \subseteq {code} /\ \A v \in Users \ {u} : shared'[v] = shared[v]
            BY <2>1, <2>4, <3>1 DEF Shows
        <3> QED
            BY <2>1, <3>2, <3>3 DEF CodesAreOnes
    <2> QED
        BY <1>5, <2>2, <2>3, <2>4
<1> QED
    BY <1>2, <1>3, <1>4, <1>6, QuietReferralKeepsInv

LEMMA SignUpKeepsInv ==
    ASSUME Typed, ReferralInv, UNCHANGED env, NEW c \in Calls, NEW u \in Users,
           NEW code \in ReferralCodes, SignUp(c, u, code)
    PROVE  ReferralInv'
<1>1. /\ referrals[u] = NoReferral
      /\ \A e \in Calls : calls[e].pc = "ref.record" => calls[e].referred # u
      /\ UNCHANGED journal /\ UNCHANGED <<codes, shared, referrals, bonus>>
    BY DEF SignUp, referralVars
<1>2. PICK v \in Users : Starts(c, [pc |-> "ref.record", referred |-> u, referrer |-> v])
    BY DEF SignUp
<1> DEFINE x == [pc |-> "ref.record", referred |-> u, referrer |-> v]
<1>3. x.pc = "ref.record" /\ x.referred = u
    OBVIOUS
<1>4. calls'[c] = x /\ \A e \in Calls \ {c} : calls'[e] = calls[e]
    BY <1>2, CallAfter DEF Typed, StoreIsTyped
<1> HIDE DEF x
<1>5. \A e \in Calls : ReferralCallTrue(calls[e])'
    BY <1>1, <1>3, <1>4
       DEF ReferralInv, ReferralCallTrue, Posted, Rewarding, BonusRead, OneBonusOnly
<1>6. RecordedOnce'
    BY <1>1, <1>3, <1>4 DEF ReferralInv, RecordedOnce
<1>7. RewardsAreBooked' /\ CodesAreOnes' /\ (OneBonusOnly' => bonus' = DefaultBonus)
    BY <1>1 DEF ReferralInv, RewardsAreBooked, BookedAs, Posted, OneBonusOnly, CodesAreOnes
<1> QED
    BY <1>5, <1>6, <1>7 DEF ReferralInv

LEMMA RecordReferralKeepsInv ==
    ASSUME Typed, ReferralInv, UNCHANGED env, NEW c \in Calls, RecordReferral(c)
    PROVE  ReferralInv'
<1> DEFINE row == [status |-> "pending", referrer |-> calls[c].referrer]
<1> PICK u \in Users : u = calls[c].referred
    BY ReferredExist DEF RecordReferral, At
<1>1. /\ calls[c].pc = "ref.record" /\ Starts(c, Idle) /\ UNCHANGED journal
      /\ UNCHANGED <<codes, shared, bonus>>
      /\ UNCHANGED referrals \/ referrals' = [referrals EXCEPT ![u] = row]
    BY Becomes DEF RecordReferral, At, AwaitsWrite
<1>2. referrals[u] = NoReferral /\ ~Posted(RewardKey(u)) /\ referrals \in [Users -> Referral \cup {NoReferral}]
    BY <1>1 DEF ReferralInv, ReferralCallTrue, RewardsAreBooked, Typed, ReferralsTyped, ReferralTypeOK
<1>3. calls'[c] = Idle /\ \A e \in Calls \ {c} : calls'[e] = calls[e]
    BY <1>1, CallAfter DEF Typed, StoreIsTyped
<1>4. \A e \in Calls \ {c} :
          calls[e].pc \in Rewarding \cup {"ref.record"} => calls[e].referred \in Users \ {u}
    BY <1>1, <1>2, ReferredExist DEF ReferralInv, ReferralCallTrue, RecordedOnce, Rewarding
<1>5. \A v \in Users \ {u} : referrals'[v] = referrals[v]
    BY <1>1, <1>2
<1>6. \A e \in Calls : ReferralCallTrue(calls[e])'
    <2> SUFFICES ASSUME NEW e \in Calls
                 PROVE  ReferralCallTrue(calls[e])'
        OBVIOUS
    <2>1. CASE e = c
        BY <1>3, <2>1 DEF ReferralCallTrue, Rewarding, BonusRead, Idle
    <2>2. CASE e # c
        <3>1. ReferralCallTrue(calls[e]) /\ calls'[e] = calls[e]
            BY <1>3, <2>2 DEF ReferralInv
        <3> QED
            BY <1>1, <1>4, <1>5, <2>2, <3>1
               DEF ReferralCallTrue, Posted, Rewarding, OneBonusOnly
    <2> QED
        BY <2>1, <2>2
<1>7. RecordedOnce'
    BY <1>3 DEF ReferralInv, RecordedOnce, Idle
<1>8. RewardsAreBooked'
    <2>1. UNCHANGED journal /\ (Posted(RewardKey(u))' <=> Posted(RewardKey(u)))
        BY <1>1 DEF Posted
    <2>2. referrals'[u] = row \/ referrals'[u] = NoReferral
        BY <1>1, <1>2
    <2>3. referrals'[u].status # "rewarded"
        BY <2>2 DEF NoReferral
    <2> HIDE DEF row
    <2> QED
        BY <1>2, <1>5, <2>1, <2>3
           DEF ReferralInv, RewardsAreBooked, BookedAs, Posted, OneBonusOnly
<1>9. CodesAreOnes' /\ (OneBonusOnly' => bonus' = DefaultBonus)
    BY <1>1 DEF ReferralInv, CodesAreOnes, OneBonusOnly
<1> QED
    BY <1>6, <1>7, <1>8, <1>9 DEF ReferralInv

LEMMA TransactedKeepsInv ==
    ASSUME Typed, ReferralInv, UNCHANGED env, NEW c \in Calls,
           \/ \E u \in Users : Transacted(c, u)
           \/ ReadBonus(c)
           \/ \E setting \in {"minor", "currency"} : ReadBonusAgain(c, setting)
    PROVE  ReferralInv'
<1>1. /\ calls \in [Calls -> CallTypes] /\ referrals \in [Users -> Referral \cup {NoReferral}]
      /\ UNCHANGED journal /\ UNCHANGED <<codes, shared, referrals, bonus>>
    BY DEF Typed, StoreIsTyped, ReferralsTyped, ReferralTypeOK, Transacted, ReadBonus,
           ReadBonusAgain, referralVars
<1>2. CodesAreOnes'
    BY <1>1 DEF ReferralInv, CodesAreOnes
<1>3. PICK x : Starts(c, x) /\ ReferralCallTrue(x) /\ x.pc \notin {"ref.record", "ref.mark"}
    <2>1. ASSUME NEW u \in Users, Transacted(c, u)
          PROVE  \E x : Starts(c, x) /\ ReferralCallTrue(x) /\ x.pc \notin {"ref.record", "ref.mark"}
        <3> DEFINE x == [pc |-> "ref.bonus", referred |-> u, referrer |-> referrals[u].referrer]
        <3>1. Starts(c, x) /\ referrals[u] # NoReferral
            BY <2>1 DEF Transacted, NoReferral
        <3>2. x.pc = "ref.bonus" /\ x.referred = u /\ x.referrer = referrals[u].referrer
            OBVIOUS
        <3> HIDE DEF x
        <3>3. ReferralCallTrue(x)
            BY <3>1, <3>2 DEF ReferralCallTrue, Rewarding, BonusRead
        <3> QED
            BY <3>1, <3>2, <3>3
    <2>2. ASSUME ReadBonus(c)
          PROVE  \E x : Starts(c, x) /\ ReferralCallTrue(x) /\ x.pc \notin {"ref.record", "ref.mark"}
        <3> DEFINE x == [pc |-> "ref.second", referred |-> calls[c].referred,
                         referrer |-> calls[c].referrer, read |-> bonus]
        <3>1. Starts(c, x) /\ ReferralCallTrue(calls[c]) /\ calls[c].pc = "ref.bonus"
              /\ (OneBonusOnly => bonus = DefaultBonus)
            BY <2>2 DEF ReadBonus, At, ReferralInv
        <3>2. /\ x.pc = "ref.second" /\ x.referred = calls[c].referred
              /\ x.referrer = calls[c].referrer /\ x.read = bonus
            OBVIOUS
        <3> HIDE DEF x
        <3>3. ReferralCallTrue(x)
            BY <3>1, <3>2 DEF ReferralCallTrue, Rewarding, BonusRead
        <3> QED
            BY <3>1, <3>2, <3>3
    <2>3. ASSUME NEW setting \in {"minor", "currency"}, ReadBonusAgain(c, setting)
          PROVE  \E x : Starts(c, x) /\ ReferralCallTrue(x) /\ x.pc \notin {"ref.record", "ref.mark"}
        <3> DEFINE read == [calls[c].read EXCEPT ![setting] = bonus[setting]]
                   x == [calls[c] EXCEPT !.pc = "ref.reward", !.read = read]
        <3>1. /\ Starts(c, Idle) \/ Starts(c, x)
              /\ ReferralCallTrue(calls[c]) /\ calls[c].pc = "ref.second"
              /\ (OneBonusOnly => bonus = DefaultBonus)
            BY <2>3, Becomes DEF ReadBonusAgain, At, ReferralInv, Starts
        <3>2. calls[c] \in [pc : {"ref.second", "ref.reward", "ref.mark"}, referred : Users,
                            referrer : Users, read : [minor : Nat, currency : Currencies]]
            BY <1>1, <3>1, ReferralFields
        <3>3. calls[c].read = DefaultBonus /\ bonus = DefaultBonus => read = DefaultBonus
            BY <3>2, ReferralsAssumption
        <3> HIDE DEF read
        <3>4. /\ x.pc = "ref.reward" /\ x.referred = calls[c].referred
              /\ x.referrer = calls[c].referrer /\ x.read = read
            BY <3>2
        <3> HIDE DEF x
        <3>5. ReferralCallTrue(x)
            BY <3>1, <3>3, <3>4 DEF ReferralCallTrue, Rewarding, BonusRead
        <3>6. ReferralCallTrue(Idle) /\ Idle.pc \notin {"ref.record", "ref.mark"}
            BY DEF ReferralCallTrue, Rewarding, BonusRead, Idle
        <3> QED
            BY <3>1, <3>4, <3>5, <3>6
    <2> QED
        BY <2>1, <2>2, <2>3
<1>4. \A e \in Calls :
          calls'[e] = calls[e] \/ /\ ReferralCallTrue(calls'[e])
                                  /\ calls'[e].pc \notin {"ref.record", "ref.mark"}
    BY <1>1, <1>3, CallAfter
<1> QED
    BY <1>1, <1>2, <1>4, QuietReferralKeepsInv

LEMMA PayRewardKeepsInv ==
    ASSUME Typed, ReferralInv, UNCHANGED env, NEW c \in Calls, PayReward(c)
    PROVE  ReferralInv'
<1>1. /\ StoreTypeOK /\ calls \in [Calls -> CallTypes] /\ calls[c].pc = "ref.reward"
      /\ ReferralCallTrue(calls[c]) /\ UNCHANGED <<codes, shared, referrals, bonus>>
    BY DEF Typed, StoreIsTyped, PayReward, At, ReferralInv, referralVars
<1>2. /\ calls[c] \in [pc : {"ref.second", "ref.reward", "ref.mark"}, referred : Users,
                       referrer : Users, read : BonusType]
    BY <1>1, ReferralFields DEF BonusType
<1> PICK u \in Users, v \in Users, b \in BonusType :
        u = calls[c].referred /\ v = calls[c].referrer /\ b = calls[c].read
    BY <1>2
<1>3. /\ referrals[u] # NoReferral /\ referrals[u].referrer = v
      /\ OneBonusOnly => b = DefaultBonus
    BY <1>1 DEF ReferralCallTrue, Rewarding, BonusRead
<1> DEFINE postings == referralReward(v, b.currency, b.minor)
           x == [calls[c] EXCEPT !.pc = "ref.mark"]
<1>4. \/ UNCHANGED journal /\ Starts(c, Idle)
      \/ Post(RewardKey(u), postings) /\ (Starts(c, x) \/ Starts(c, Idle))
    BY Becomes DEF PayReward, AwaitsPost, Refuse, ledgerVars
<1>5. x.pc = "ref.mark" /\ x.referred = u /\ x.referrer = v /\ x.read = b
    BY <1>2
<1> HIDE DEF x
<1>6. v \in Customers /\ b.currency \in Currencies /\ b.minor \in Nat
    BY ReferralsAssumption DEF BonusType
<1>7. postings \in Seq(Posting)
    BY <1>6, MovesAreJournals
<1>8. WellFormed(postings) => b.minor > 0
    BY <1>6 DEF WellFormed, PositiveMagnitudes, referralReward, Move, debit
<1> HIDE DEF postings
<1>9. \A w \in Users : RewardKey(w) \in Keys /\ (RewardKey(w) = RewardKey(u) => w = u)
    BY RewardKeysDiffer
<1>10. /\ \A w \in Users : Posted(RewardKey(w)) => journal'[RewardKey(w)] = journal[RewardKey(w)]
       /\ \A w \in Users \ {u} : journal'[RewardKey(w)] = journal[RewardKey(w)]
       /\ Starts(c, x) => Posted(RewardKey(u))' \/ Starts(c, Idle)
       /\ ~Posted(RewardKey(u)) => \/ journal'[RewardKey(u)] = journal[RewardKey(u)]
                                   \/ journal'[RewardKey(u)] = postings /\ b.minor > 0
    <2>1. CASE UNCHANGED journal /\ Starts(c, Idle)
        BY <2>1
    <2>2. CASE Post(RewardKey(u), postings)
        BY <1>1, <1>7, <1>8, <1>9, <2>2, PostAppends, PostStores
    <2> QED
        BY <1>4, <2>1, <2>2
<1>11. /\ calls'[c] = Idle \/ (calls'[c] = x /\ Posted(RewardKey(u))')
       /\ \A e \in Calls \ {c} : calls'[e] = calls[e]
    BY <1>1, <1>4, <1>10, CallAfter
<1>12. \A e \in Calls : ReferralCallTrue(calls[e])'
    <2> SUFFICES ASSUME NEW e \in Calls
                 PROVE  ReferralCallTrue(calls[e])'
        OBVIOUS
    <2>1. CASE calls'[e] = Idle
        BY <2>1 DEF ReferralCallTrue, Rewarding, BonusRead, Idle
    <2>2. CASE e = c /\ calls'[c] = x /\ Posted(RewardKey(u))'
        BY <1>1, <1>3, <1>5, <2>2 DEF ReferralCallTrue, Rewarding, BonusRead, OneBonusOnly
    <2>3. CASE e # c
        <3>1. ReferralCallTrue(calls[e]) /\ calls'[e] = calls[e]
            BY <1>11, <2>3 DEF ReferralInv
        <3>2. calls[e].pc = "ref.mark" => calls[e].referred \in Users
            BY ReferredExist DEF Rewarding
        <3> QED
            BY <1>1, <1>10, <3>1, <3>2 DEF ReferralCallTrue, Posted, OneBonusOnly
    <2> QED
        BY <1>11, <2>1, <2>2, <2>3
<1>13. RecordedOnce'
    BY <1>5, <1>11 DEF ReferralInv, RecordedOnce, Idle
<1>14. RewardsAreBooked'
    <2> SUFFICES ASSUME NEW w \in Users
                 PROVE  /\ Posted(RewardKey(w))' =>
                              referrals'[w] # NoReferral /\ \E d \in BonusType : BookedAs(w, d)'
                        /\ referrals'[w].status = "rewarded" =>
                              /\ Posted(RewardKey(w))'
                              /\ OneBonusOnly' => referrals'[w].reward = DefaultBonus
        BY DEF RewardsAreBooked
    <2>1. CASE journal'[RewardKey(w)] = journal[RewardKey(w)]
        BY <1>1, <2>1 DEF ReferralInv, RewardsAreBooked, BookedAs, Posted, OneBonusOnly
    <2>2. CASE journal'[RewardKey(w)] # journal[RewardKey(w)]
        <3>1. w = u /\ journal'[RewardKey(u)] = postings /\ b.minor > 0 /\ ~Posted(RewardKey(u))
            BY <1>10, <2>2
        <3>2. BookedAs(u, b)'
            BY <1>1, <1>3, <3>1 DEF BookedAs, postings, OneBonusOnly
        <3>3. referrals[u].status # "rewarded"
            BY <3>1 DEF ReferralInv, RewardsAreBooked
        <3> QED
            BY <1>1, <1>3, <3>1, <3>2, <3>3
    <2> QED
        BY <2>1, <2>2
<1>15. CodesAreOnes' /\ (OneBonusOnly' => bonus' = DefaultBonus)
    BY <1>1 DEF ReferralInv, CodesAreOnes, OneBonusOnly
<1> QED
    BY <1>12, <1>13, <1>14, <1>15 DEF ReferralInv

LEMMA MarkRewardedKeepsInv ==
    ASSUME Typed, ReferralInv, UNCHANGED env, NEW c \in Calls, MarkRewarded(c)
    PROVE  ReferralInv'
<1> DEFINE row == [status |-> "rewarded", referrer |-> referrals[calls[c].referred].referrer,
                   reward |-> calls[c].read]
<1> PICK u \in Users : u = calls[c].referred
    BY ReferredExist DEF MarkRewarded, At, Rewarding
<1>1. /\ calls \in [Calls -> CallTypes] /\ calls[c].pc = "ref.mark" /\ Starts(c, Idle)
      /\ ReferralCallTrue(calls[c]) /\ UNCHANGED journal
      /\ UNCHANGED <<codes, shared, bonus>>
      /\ UNCHANGED referrals \/ referrals' = [referrals EXCEPT ![u] = row]
    BY Becomes DEF Typed, StoreIsTyped, MarkRewarded, At, ReferralInv, AwaitsWrite
<1>2. /\ referrals[u] # NoReferral /\ Posted(RewardKey(u))
      /\ OneBonusOnly => calls[c].read = DefaultBonus
    BY <1>1 DEF ReferralCallTrue, Rewarding, BonusRead
<1>3. /\ row.referrer = referrals[u].referrer /\ row.reward = calls[c].read
      /\ row.status = "rewarded" /\ row # NoReferral
    BY DEF NoReferral
<1> HIDE DEF row
<1>4. /\ \A w \in Users \ {u} : referrals'[w] = referrals[w]
      /\ referrals'[u] = referrals[u] \/ referrals'[u] = row
    BY <1>1 DEF Typed, ReferralsTyped, ReferralTypeOK
<1>5. \A w \in Users : /\ referrals'[w] # NoReferral <=> referrals[w] # NoReferral
                       /\ referrals'[w].referrer = referrals[w].referrer
    BY <1>2, <1>3, <1>4
<1>6. calls'[c] = Idle /\ \A e \in Calls \ {c} : calls'[e] = calls[e]
    BY <1>1, CallAfter
<1>7. \A e \in Calls : ReferralCallTrue(calls[e])'
    <2> SUFFICES ASSUME NEW e \in Calls
                 PROVE  ReferralCallTrue(calls[e])'
        OBVIOUS
    <2>1. CASE e = c
        BY <1>6, <2>1 DEF ReferralCallTrue, Rewarding, BonusRead, Idle
    <2>2. CASE e # c
        <3>1. ReferralCallTrue(calls[e]) /\ calls'[e] = calls[e]
            BY <1>6, <2>2 DEF ReferralInv
        <3>2. calls[e].pc \in Rewarding \cup {"ref.record"} => calls[e].referred \in Users
            BY ReferredExist
        <3> QED
            BY <1>1, <1>5, <3>1, <3>2 DEF ReferralCallTrue, Posted, OneBonusOnly, Rewarding
    <2> QED
        BY <2>1, <2>2
<1>8. RecordedOnce'
    BY <1>6 DEF ReferralInv, RecordedOnce, Idle
<1>9. RewardsAreBooked'
    BY <1>1, <1>2, <1>3, <1>4, <1>5
       DEF ReferralInv, RewardsAreBooked, BookedAs, Posted, OneBonusOnly
<1>10. CodesAreOnes' /\ (OneBonusOnly' => bonus' = DefaultBonus)
    BY <1>1 DEF ReferralInv, CodesAreOnes, OneBonusOnly
<1> QED
    BY <1>7, <1>8, <1>9, <1>10 DEF ReferralInv

LEMMA SetBonusKeepsInv ==
    ASSUME Typed, ReferralInv, UNCHANGED env, NEW c \in Calls,
           (\E b \in Bonuses : SetBonusMinor(c, b)) \/ SetBonusCurrency(c)
    PROVE  ReferralInv'
<1>1. /\ calls \in [Calls -> CallTypes] /\ UNCHANGED journal
      /\ UNCHANGED <<codes, shared, referrals>>
    BY DEF Typed, StoreIsTyped, SetBonusMinor, SetBonusCurrency
<1>2. CodesAreOnes'
    BY <1>1 DEF ReferralInv, CodesAreOnes
<1>3. ~OneBonusOnly
    BY DEF SetBonusMinor, SetBonusCurrency, Receives, At, OneBonusOnly, ReferralInv,
           ReferralCallTrue
<1>4. \A e \in Calls : calls'[e] = calls[e] \/ calls'[e].pc \in {"idle", "bonus.currency"}
    <2>1. ASSUME NEW b, Starts(c, [pc |-> "bonus.currency", bonus |-> b])
          PROVE  \A e \in Calls : calls'[e] = calls[e] \/ calls'[e].pc = "bonus.currency"
        <3>1. [pc |-> "bonus.currency", bonus |-> b].pc = "bonus.currency"
            OBVIOUS
        <3> QED
            BY <1>1, <2>1, <3>1, CallAfter
    <2>2. \/ UNCHANGED calls \/ Starts(c, Idle)
          \/ \E b : Starts(c, [pc |-> "bonus.currency", bonus |-> b])
        BY Becomes DEF SetBonusMinor, SetBonusCurrency, AwaitsWrite
    <2>3. CASE Starts(c, Idle)
        BY <1>1, <2>3, CallAfter DEF Idle
    <2> QED
        BY <2>1, <2>2, <2>3
<1>5. \A x : x.pc \in {"idle", "bonus.currency"} =>
          ReferralCallTrue(x) /\ x.pc # "ref.record" /\ x.pc # "ref.mark"
    BY <1>3 DEF ReferralCallTrue, Rewarding, BonusRead
<1> QED
    BY <1>1, <1>2, <1>3, <1>4, <1>5, QuietReferralKeepsInv

LEMMA ReferralInvNext ==
    ASSUME Typed, ReferralInv, [Next]_vars
    PROVE  ReferralInv'
<1>1. CASE ReferralStep
    <2>1. UNCHANGED env
        BY StepsByService
    <2> QED
        BY <1>1, <2>1, CodeStepsKeepInv, SignUpKeepsInv, RecordReferralKeepsInv,
           TransactedKeepsInv, PayRewardKeepsInv, MarkRewardedKeepsInv, SetBonusKeepsInv
           DEF ReferralStep, ReferralStarts, ReferralProceeds
<1>2. CASE ReferralsUntouched
    BY <1>2, StepsByService, UntouchedIsSpared, ReferralsSparedKeepInv
<1>3. CASE Crash \/ UNCHANGED vars
    BY <1>3, StepsByService, CrashSparesAll, ReferralsSparedKeepInv DEF AllSpared
<1> QED
    BY <1>1, <1>2, <1>3, StepsByService
       DEF WithdrawalStep, CashoutStep, AirtimeStep, DepositStep

LEMMA ReferralInvInit ==
    ASSUME Init
    PROVE  ReferralInv
<1>1. \A u \in Users : codes[u] = NoCode /\ shared[u] = {} /\ referrals[u] = NoReferral
                       /\ ~Posted(RewardKey(u))
    BY RewardKeysDiffer DEF Init, ReferralInit, Posted
<1>2. \A c \in Calls : calls[c].pc = "idle"
    BY DEF Init, Idle
<1> QED
    BY <1>1, <1>2
       DEF Init, ReferralInit, ReferralInv, CodesAreOnes, ReferralCallTrue, RecordedOnce,
           RewardsAreBooked, NoReferral, Rewarding, BonusRead

\* A code that was handed out leads to its owner and to nobody else, and a referral that
\* reads rewarded was paid, to the referrer it names, with the reward it shows: whichever
\* panels, transactions and changes of the bonus race, and whatever call fails.
THEOREM PanelsAreTrueAlways == Spec => []PanelsAreTrue
<1>1. ASSUME Typed, ReferralInv
      PROVE  SharedCodesAreTheirs
    <2>1. \A u \in Users : shared[u] \subseteq ReferralCodes
        BY <1>1 DEF Typed, ReferralsTyped, ReferralTypeOK
    <2> QED
        BY <1>1, <2>1, ReferralsAssumption DEF ReferralInv, CodesAreOnes, SharedCodesAreTheirs
<1>2. ASSUME Typed, ReferralInv
      PROVE  RewardIsPosted
    <2> SUFFICES ASSUME NEW u \in Users, referrals[u].status = "rewarded"
                 PROVE  /\ \E currency \in Currencies :
                              Delta(journal[RewardKey(u)],
                                    customerWallet(referrals[u].referrer, currency)) > 0
                        /\ "bonus_change" \notin env.services =>
                              Delta(journal[RewardKey(u)],
                                    customerWallet(referrals[u].referrer,
                                                   referrals[u].reward.currency))
                              = referrals[u].reward.minor
        BY DEF RewardIsPosted
    <2>1. PICK b \in BonusType : BookedAs(u, b)
        BY <1>2 DEF ReferralInv, RewardsAreBooked
    <2>2. /\ b.minor \in Nat /\ b.currency \in Currencies /\ b.minor > 0
          /\ referrals[u].referrer \in Customers
        BY <1>2, <2>1, ReferralsAssumption
           DEF BookedAs, BonusType, Typed, ReferralsTyped, ReferralTypeOK, Referral, NoReferral
    <2> DEFINE wallet == customerWallet(referrals[u].referrer, b.currency)
               promo == systemAccount("promo_expense", b.currency)
    <2>3. wallet \in Accounts /\ promo \in Accounts /\ wallet # promo
        BY <2>2, AccountsExist, SystemKindsExist, AccountsDiffer
    <2>4. journal[RewardKey(u)] = Move(promo, wallet, b.minor)
        BY <2>1 DEF BookedAs, referralReward
    <2>5. Delta(journal[RewardKey(u)], wallet) = b.minor
        <3> HIDE DEF wallet, promo
        <3> QED
            BY <2>2, <2>3, <2>4, MoveDelta
    <2>6. OneBonusOnly => referrals[u].reward = b
        BY <1>2, <2>1 DEF ReferralInv, RewardsAreBooked, BookedAs
    <2> QED
        BY <2>2, <2>5, <2>6 DEF OneBonusOnly
<1>3. Typed /\ ReferralInv => PanelsAreTrue
    BY <1>1, <1>2 DEF PanelsAreTrue
<1> QED
    BY <1>3, TypedAlways, ReferralInvInit, ReferralInvNext, PTL DEF Spec

-----------------------------------------------------------------------------
(* Withdrawals: a hold ends once, and not without its row *)

Recording == {"wd.create", "wd.compensate"}
Resolving == {"wd.post", "wd.revert"}
Settling == Recording \cup Resolving
StoreErrorsOnly == env.faults \subseteq {"store_error"}

\* The hold of w took n of p.
HeldFor(w, p, n) ==
    /\ journal[HoldKey(w)] = usdtWithdrawHold(p, Asset, n)
    /\ p \in Customers /\ n \in Nat /\ n > WithdrawalFee

Unresolved(w) == ~Posted(SettleKey(w)) /\ ~Posted(RefundKey(w))

\* The inductive invariant.  A handler that records a request, or gives its hold back,
\* is of a hold without a row; one that settles, or takes its claim back, has the row's
\* claim; and neither outcome is in the books yet.
WithdrawalCallTrue(x) ==
    /\ x.pc \in Recording => /\ withdrawals[x.withdrawal] = NoWithdrawal
                             /\ HeldFor(x.withdrawal, x.customer, x.amount)
                             /\ Unresolved(x.withdrawal)
    /\ x.pc \in Resolving => /\ withdrawals[x.withdrawal].status = x.to
                             /\ Unresolved(x.withdrawal)

OneHandlerEach ==
    \A c, e \in Calls :
        /\ calls[c].pc \in Settling /\ calls[e].pc \in Settling
        /\ calls[c].withdrawal = calls[e].withdrawal
        => c = e

WithdrawalTrue(w) ==
    /\ withdrawals[w] # NoWithdrawal =>
          /\ HeldFor(w, withdrawals[w].customer, withdrawals[w].amount)
          /\ withdrawals[w].fee = WithdrawalFee
    /\ Posted(SettleKey(w)) => withdrawals[w].status = "completed"
    /\ Posted(RefundKey(w)) => withdrawals[w].status \in {"rejected", "none"}
    /\ Posted(SettleKey(w)) \/ Posted(RefundKey(w)) => Posted(HoldKey(w))

NotStranded(w) ==
    Posted(HoldKey(w)) /\ withdrawals[w] = NoWithdrawal =>
        \/ Posted(RefundKey(w))
        \/ \E c \in Calls : calls[c].pc \in Recording /\ calls[c].withdrawal = w

HoldsEndOnce ==
    /\ \A c \in Calls : WithdrawalCallTrue(calls[c])
    /\ OneHandlerEach
    /\ \A w \in Withdrawals : WithdrawalTrue(w)
    /\ StoreErrorsOnly => \A w \in Withdrawals : NotStranded(w)

WithdrawalInv == AcksReliably => HoldsEndOnce

LEMMA WithdrawalKeysDiffer ==
    ASSUME NEW w \in Withdrawals, NEW v \in Withdrawals
    PROVE  /\ HoldKey(w) \in Keys /\ SettleKey(w) \in Keys /\ RefundKey(w) \in Keys
           /\ HoldKey(w) # SettleKey(v) /\ HoldKey(w) # RefundKey(v)
           /\ SettleKey(w) # RefundKey(v)
           /\ HoldKey(w) = HoldKey(v) => w = v
           /\ SettleKey(w) = SettleKey(v) => w = v
           /\ RefundKey(w) = RefundKey(v) => w = v
BY KeysExist, OwnKeys DEF HoldKey, SettleKey, RefundKey

LEMMA SettlingExist ==
    ASSUME Typed, NEW c \in Calls, calls[c].pc \in Settling
    PROVE  calls[c].withdrawal \in Withdrawals
BY WithdrawalFields DEF Typed, StoreIsTyped, Settling, Recording, Resolving

LEMMA StoreErrorsAreAcked == StoreErrorsOnly => AcksReliably /\ ~MayHappen("crash")
                                                /\ ~MayHappen("ledger_error")
BY DEF StoreErrorsOnly, AcksReliably, MayHappen

\* A hold that was posted is in the books.
LEMMA HeldIsPosted ==
    ASSUME NEW w, NEW p, NEW n, HeldFor(w, p, n)
    PROVE  Posted(HoldKey(w))
BY DEF HeldFor, Posted, usdtWithdrawHold, Move, NoJournal

SameJournals(w) ==
    /\ journal'[HoldKey(w)] = journal[HoldKey(w)]
    /\ journal'[SettleKey(w)] = journal[SettleKey(w)]
    /\ journal'[RefundKey(w)] = journal[RefundKey(w)]

\* Nothing about one withdrawal changes.
LEMMA WithdrawalUnchanged ==
    ASSUME NEW w, SameJournals(w), withdrawals'[w] = withdrawals[w]
    PROVE  /\ WithdrawalTrue(w)' <=> WithdrawalTrue(w)
           /\ Posted(HoldKey(w))' <=> Posted(HoldKey(w))
           /\ Posted(RefundKey(w))' <=> Posted(RefundKey(w))
           /\ Unresolved(w)' <=> Unresolved(w)
           /\ \A p, n : HeldFor(w, p, n)' <=> HeldFor(w, p, n)
BY DEF SameJournals, WithdrawalTrue, HeldFor, Unresolved, Posted

\* The books and the rows stay, and no handler takes up a withdrawal.
LEMMA QuietWithdrawalKeepsInv ==
    ASSUME Typed, WithdrawalInv, UNCHANGED env,
           \A w \in Withdrawals : SameJournals(w) /\ withdrawals'[w] = withdrawals[w],
           \A e \in Calls : calls'[e] = calls[e] \/ calls'[e].pc \notin Settling,
           MayHappen("crash")
               \/ \A e \in Calls : calls'[e] = calls[e] \/ calls[e].pc \notin Recording
    PROVE  WithdrawalInv'
<1> SUFFICES ASSUME AcksReliably
             PROVE  HoldsEndOnce'
    BY DEF WithdrawalInv, AcksReliably, MayHappen
<1>1. HoldsEndOnce
    BY DEF WithdrawalInv
<1>2. \A c \in Calls : WithdrawalCallTrue(calls[c])'
    <2> SUFFICES ASSUME NEW c \in Calls
                 PROVE  WithdrawalCallTrue(calls[c])'
        OBVIOUS
    <2>1. CASE calls'[c].pc \notin Settling
        BY <2>1 DEF WithdrawalCallTrue, Settling
    <2>2. CASE calls'[c] = calls[c] /\ calls[c].pc \in Settling
        <3> PICK w \in Withdrawals : w = calls[c].withdrawal
            BY <2>2, SettlingExist
        <3>1. WithdrawalCallTrue(calls[c])
            BY <1>1 DEF HoldsEndOnce
        <3> QED
            BY <2>2, <3>1 DEF WithdrawalCallTrue, SameJournals, HeldFor, Unresolved, Posted
    <2> QED
        BY <2>1, <2>2
<1>3. OneHandlerEach'
    BY <1>1 DEF HoldsEndOnce, OneHandlerEach
<1>4. \A w \in Withdrawals : WithdrawalTrue(w)'
    BY <1>1, WithdrawalUnchanged DEF HoldsEndOnce
<1>5. ASSUME StoreErrorsOnly, NEW w \in Withdrawals
      PROVE  NotStranded(w)'
    <2>1. \A e \in Calls : calls[e].pc \in Recording => calls'[e] = calls[e]
        BY <1>5, StoreErrorsAreAcked
    <2>2. NotStranded(w)
        BY <1>1, <1>5 DEF HoldsEndOnce
    <2> QED
        BY <2>1, <2>2 DEF NotStranded, SameJournals, Posted
<1> QED
    BY <1>2, <1>3, <1>4, <1>5 DEF HoldsEndOnce, StoreErrorsOnly

\* The only handler of a withdrawal moves on, and what it leaves is in order.
LEMMA OneWithdrawalKeepsInv ==
    ASSUME Typed, HoldsEndOnce, AcksReliably, UNCHANGED env,
           NEW c \in Calls, NEW w \in Withdrawals, NEW x, Starts(c, x),
           calls[c].pc \in Settling => calls[c].withdrawal = w,
           x.pc \in Settling => x.withdrawal = w,
           \A e \in Calls \ {c} : calls[e].pc \in Settling => calls[e].withdrawal # w,
           \A v \in Withdrawals \ {w} : SameJournals(v) /\ withdrawals'[v] = withdrawals[v],
           WithdrawalCallTrue(x)',
           WithdrawalTrue(w)',
           StoreErrorsOnly /\ Posted(HoldKey(w))' /\ withdrawals'[w] = NoWithdrawal =>
               Posted(RefundKey(w))' \/ (x.pc \in Recording /\ x.withdrawal = w)
    PROVE  WithdrawalInv'
<1>1. calls'[c] = x /\ \A e \in Calls \ {c} : calls'[e] = calls[e]
    BY CallAfter DEF Typed, StoreIsTyped
<1>2. \A e \in Calls : WithdrawalCallTrue(calls[e])'
    <2> SUFFICES ASSUME NEW e \in Calls
                 PROVE  WithdrawalCallTrue(calls[e])'
        OBVIOUS
    <2>1. CASE e = c
        BY <1>1, <2>1 DEF WithdrawalCallTrue, HeldFor, Unresolved, Posted
    <2>2. CASE e # c /\ calls[e].pc \notin Settling
        BY <1>1, <2>2 DEF WithdrawalCallTrue, Settling
    <2>3. CASE e # c /\ calls[e].pc \in Settling
        <3> PICK v \in Withdrawals : v = calls[e].withdrawal
            BY <2>3, SettlingExist
        <3>1. WithdrawalCallTrue(calls[e]) /\ calls'[e] = calls[e] /\ v # w
            BY <1>1, <2>3 DEF HoldsEndOnce
        <3> QED
            BY <3>1 DEF WithdrawalCallTrue, SameJournals, HeldFor, Unresolved, Posted
    <2> QED
        BY <2>1, <2>2, <2>3
<1>3. OneHandlerEach'
    BY <1>1 DEF HoldsEndOnce, OneHandlerEach
<1>4. \A v \in Withdrawals : WithdrawalTrue(v)'
    BY WithdrawalUnchanged DEF HoldsEndOnce
<1>5. ASSUME StoreErrorsOnly, NEW v \in Withdrawals
      PROVE  NotStranded(v)'
    <2>1. CASE v = w
        BY <1>1, <1>5, <2>1 DEF NotStranded
    <2>2. CASE v # w
        <3>1. NotStranded(v)
            BY <1>5 DEF HoldsEndOnce
        <3>2. \A e \in Calls : calls[e].pc \in Recording /\ calls[e].withdrawal = v
                                   => calls'[e] = calls[e]
            BY <1>1, <2>2 DEF Settling
        <3> QED
            BY <2>2, <3>1, <3>2 DEF NotStranded, SameJournals, Posted
    <2> QED
        BY <2>1, <2>2
<1> QED
    BY <1>2, <1>3, <1>4, <1>5 DEF WithdrawalInv, HoldsEndOnce, StoreErrorsOnly

LEMMA WithdrawalsSparedKeepInv ==
    ASSUME Typed, WithdrawalInv, UNCHANGED env, WithdrawalsSpared,
           MayHappen("crash") \/ WithdrawalsUntouched
    PROVE  WithdrawalInv'
<1>1. \A w \in Withdrawals : SameJournals(w) /\ withdrawals'[w] = withdrawals[w]
    BY OwnKeys DEF WithdrawalsSpared, Spared, SameJournals
<1>2. \A e \in Calls : calls'[e] = calls[e] \/ calls'[e].pc \notin Settling
    BY DEF WithdrawalsSpared, Spared, WithdrawalPcs, Settling, Recording, Resolving
<1>3. WithdrawalsUntouched =>
          \A e \in Calls : calls'[e] = calls[e] \/ calls[e].pc \notin Recording
    BY DEF WithdrawalsUntouched, Untouched, WithdrawalPcs, Recording
<1> QED
    BY <1>1, <1>2, <1>3, QuietWithdrawalKeepsInv

\* A hold is always given back when it is asked for: nobody's account gets into the red.
LEMMA RefundIsAccepted ==
    ASSUME Typed, NEW k \in Keys, NEW p \in Customers, NEW n \in Nat, n > 0
    PROVE  Accepts(k, usdtWithdrawRefund(p, Asset, n))
<1> DEFINE wallet == customerWallet(p, Asset)
           suspense == systemAccount("withdrawal_suspense", Asset)
<1>1. WellFormed(usdtWithdrawRefund(p, Asset, n))
    BY MovesBalance, WithdrawalsAssumption
<1>2. /\ wallet \in Accounts /\ suspense \in Accounts /\ suspense # wallet
      /\ suspense.kind \notin NonNegativeKinds
    BY AccountsExist, SystemKindsExist, AccountsDiffer, WithdrawalsAssumption
       DEF systemAccount, Account, NonNegativeKinds
<1>3. \A a \in Accounts : a.kind \in NonNegativeKinds => balance[a] \in Int /\ balance[a] >= 0
    BY DEF Typed, StoreIsTyped, StoreTypeOK, StoreNonNegative
<1> HIDE DEF wallet, suspense
<1>4. usdtWithdrawRefund(p, Asset, n) = Move(suspense, wallet, n)
    BY DEF usdtWithdrawRefund, wallet, suspense
<1>5. \A a \in Accounts : a.kind \in NonNegativeKinds =>
          Delta(usdtWithdrawRefund(p, Asset, n), a) \in {0, n}
    BY <1>2, <1>4, MoveDelta
<1>6. ~Overdraws(usdtWithdrawRefund(p, Asset, n))
    BY <1>3, <1>5 DEF Overdraws
<1> QED
    BY <1>1, <1>6 DEF Accepts

LEMMA RequestKeepsInv ==
    ASSUME Typed, WithdrawalInv, AcksReliably, UNCHANGED env, NEW c \in Calls,
           NEW w \in Withdrawals, NEW p \in Customers, NEW n \in WithdrawalAmounts,
           RequestWithdrawal(c, w, p, n)
    PROVE  WithdrawalInv'
<1> DEFINE x == [pc |-> "wd.create", withdrawal |-> w, customer |-> p, amount |-> n]
           postings == usdtWithdrawHold(p, Asset, n)
<1>1. /\ HoldsEndOnce /\ StoreTypeOK /\ calls[c] = Idle /\ UNCHANGED withdrawals
      /\ n > WithdrawalFee /\ withdrawals[w] = NoWithdrawal /\ ~Posted(HoldKey(w))
    BY DEF WithdrawalInv, RequestWithdrawal, Receives, FreshWithdrawal, Typed, StoreIsTyped
<1>2. \/ UNCHANGED ledgerVars /\ UNCHANGED calls
      \/ Post(HoldKey(w), postings) /\ Starts(c, x)
    BY DEF RequestWithdrawal, AwaitsPost, Refuse, AcksReliably
<1>3. n \in Nat /\ postings \in Seq(Posting)
    BY WithdrawalsAssumption, MovesAreJournals
<1>4. CASE UNCHANGED ledgerVars /\ UNCHANGED calls
    BY <1>1, <1>4, QuietWithdrawalKeepsInv DEF ledgerVars, SameJournals
<1>5. CASE Post(HoldKey(w), postings) /\ Starts(c, x)
    <2>1. /\ x.pc = "wd.create" /\ x.withdrawal = w /\ x.customer = p /\ x.amount = n
          /\ Unresolved(w)
        BY <1>1 DEF HoldsEndOnce, WithdrawalTrue, Unresolved
    <2> HIDE DEF x
    <2>2. /\ journal'[HoldKey(w)] = postings
          /\ \A v \in Withdrawals : /\ v # w => SameJournals(v)
                                    /\ journal'[SettleKey(v)] = journal[SettleKey(v)]
                                    /\ journal'[RefundKey(v)] = journal[RefundKey(v)]
        <3> HIDE DEF postings
        <3> QED
            BY <1>1, <1>3, <1>5, PostStores, PostAppends, WithdrawalKeysDiffer DEF SameJournals
    <2>3. HeldFor(w, p, n)' /\ Unresolved(w)' /\ withdrawals'[w] = NoWithdrawal
        BY <1>1, <1>3, <2>1, <2>2 DEF HeldFor, Unresolved, Posted
    <2>4. WithdrawalCallTrue(x)'
        BY <2>1, <2>3 DEF WithdrawalCallTrue, Recording, Resolving, HeldFor, Unresolved, Posted
    <2>5. WithdrawalTrue(w)'
        BY <2>3 DEF WithdrawalTrue, Unresolved
    <2>6. \A e \in Calls \ {c} : calls[e].pc \in Settling => calls[e].withdrawal # w
        <3> SUFFICES ASSUME NEW e \in Calls \ {c}, calls[e].pc \in Settling,
                            calls[e].withdrawal = w
                     PROVE  FALSE
            OBVIOUS
        <3>1. WithdrawalCallTrue(calls[e])
            BY <1>1 DEF HoldsEndOnce
        <3>2. CASE calls[e].pc \in Recording
            BY <1>1, <3>1, <3>2, HeldIsPosted DEF WithdrawalCallTrue
        <3>3. CASE calls[e].pc \in Resolving
            <4>1. calls[e].to \in {"completed", "rejected"}
                BY <3>3, WithdrawalFields DEF Resolving, Typed, StoreIsTyped
            <4> QED
                BY <1>1, <3>1, <3>3, <4>1 DEF WithdrawalCallTrue, NoWithdrawal
        <3> QED
            BY <3>2, <3>3 DEF Settling
    <2> QED
        BY <1>1, <1>5, <2>1, <2>2, <2>4, <2>5, <2>6, OneWithdrawalKeepsInv
           DEF Idle, Settling, Recording, Resolving
<1> QED
    BY <1>2, <1>4, <1>5

LEMMA ResolveKeepsInv ==
    ASSUME Typed, WithdrawalInv, UNCHANGED env, NEW c \in Calls,
           NEW w \in Withdrawals, NEW to, ResolveWithdrawal(c, w, to)
    PROVE  WithdrawalInv'
<1> DEFINE x == [pc |-> "wd.claim", withdrawal |-> w, to |-> to]
<1>1. /\ calls[c] = Idle /\ Starts(c, x) /\ UNCHANGED withdrawals /\ UNCHANGED journal
      /\ calls \in [Calls -> CallTypes]
    BY DEF ResolveWithdrawal, Receives, Typed, StoreIsTyped
<1>2. x.pc = "wd.claim"
    OBVIOUS
<1> HIDE DEF x
<1>3. \A e \in Calls : \/ calls'[e] = calls[e]
                       \/ calls[e].pc \notin Recording /\ calls'[e].pc \notin Settling
    BY <1>1, <1>2, CallAfter DEF Idle, Settling, Recording, Resolving
<1> QED
    BY <1>1, <1>3, QuietWithdrawalKeepsInv DEF SameJournals

\* What the only handler that settles a withdrawal knows of it.
LEMMA SettlingIsAlone ==
    ASSUME Typed, HoldsEndOnce, NEW c \in Calls, calls[c].pc \in Settling
    PROVE  /\ WithdrawalCallTrue(calls[c])
           /\ WithdrawalTrue(calls[c].withdrawal)
           /\ \A e \in Calls \ {c} :
                 calls[e].pc \in Settling => calls[e].withdrawal # calls[c].withdrawal
BY SettlingExist DEF HoldsEndOnce, OneHandlerEach

LEMMA CreateKeepsInv ==
    ASSUME Typed, WithdrawalInv, AcksReliably, UNCHANGED env, NEW c \in Calls,
           CreateWithdrawal(c)
    PROVE  WithdrawalInv'
<1>1. /\ HoldsEndOnce /\ calls[c].pc = "wd.create" /\ calls[c].pc \in Settling
      /\ UNCHANGED journal
    BY DEF WithdrawalInv, CreateWithdrawal, At, Settling, Recording, ledgerVars
<1>2. calls[c] \in [pc : {"wd.create", "wd.compensate"}, withdrawal : Withdrawals,
                    customer : Customers, amount : Nat]
    BY <1>1, WithdrawalFields DEF Typed, StoreIsTyped
<1> PICK w \in Withdrawals, p \in Customers, n \in Nat :
        w = calls[c].withdrawal /\ p = calls[c].customer /\ n = calls[c].amount
    BY <1>2
<1>3. /\ withdrawals[w] = NoWithdrawal /\ HeldFor(w, p, n) /\ Unresolved(w)
      /\ \A e \in Calls \ {c} : calls[e].pc \in Settling => calls[e].withdrawal # w
    BY <1>1, SettlingIsAlone DEF WithdrawalCallTrue, Recording
<1> DEFINE row == [status |-> "pending", customer |-> p, amount |-> n, fee |-> WithdrawalFee]
<1>4. \A v \in Withdrawals : SameJournals(v)
    BY <1>1 DEF SameJournals
<1>5. HeldFor(w, p, n)' /\ Unresolved(w)'
    BY <1>3, <1>4, WithdrawalUnchanged DEF HeldFor, Unresolved, Posted, SameJournals
<1>6. CASE withdrawals' = [withdrawals EXCEPT ![w] = row] /\ Starts(c, Idle)
    <2>1. /\ row.status = "pending" /\ row.customer = p /\ row.amount = n
          /\ row.fee = WithdrawalFee
        OBVIOUS
    <2>2. row # NoWithdrawal
        BY <2>1 DEF NoWithdrawal
    <2> HIDE DEF row
    <2>3. /\ withdrawals'[w] = row
          /\ \A v \in Withdrawals \ {w} : withdrawals'[v] = withdrawals[v]
        BY <1>6 DEF Typed, WithdrawalsTyped, WithdrawalTypeOK
    <2>4. WithdrawalTrue(w)'
        BY <1>5, <2>1, <2>3 DEF WithdrawalTrue, Unresolved, HeldFor
    <2>5. WithdrawalCallTrue(Idle)' /\ Idle.pc \notin Settling
        BY DEF WithdrawalCallTrue, Idle, Settling, Recording, Resolving
    <2> QED
        BY <1>1, <1>3, <1>4, <1>6, <2>2, <2>3, <2>4, <2>5, OneWithdrawalKeepsInv
<1>7. CASE UNCHANGED withdrawals /\ GoesTo(c, "wd.compensate")
    <2>1. PICK x \in WithdrawalCalls :
              /\ Starts(c, x) /\ x.pc = "wd.compensate" /\ x.withdrawal = w
              /\ x.customer = p /\ x.amount = n
        BY <1>1, <1>7, WithdrawalGoesOn DEF Typed
    <2>2. WithdrawalCallTrue(x)'
        BY <1>3, <1>5, <1>7, <2>1 DEF WithdrawalCallTrue, Resolving
    <2>3. WithdrawalTrue(w)'
        BY <1>1, <1>4, <1>7, WithdrawalUnchanged DEF HoldsEndOnce
    <2> QED
        BY <1>1, <1>3, <1>4, <1>7, <2>1, <2>2, <2>3, OneWithdrawalKeepsInv
           DEF Recording
<1>8. \/ withdrawals' = [withdrawals EXCEPT ![w] = row] /\ Starts(c, Idle)
      \/ UNCHANGED withdrawals /\ GoesTo(c, "wd.compensate")
    BY Becomes DEF CreateWithdrawal, AwaitsWrite, AcksReliably
<1> QED
    BY <1>6, <1>7, <1>8

LEMMA CompensateKeepsInv ==
    ASSUME Typed, WithdrawalInv, AcksReliably, UNCHANGED env, NEW c \in Calls,
           CompensateWithdrawal(c)
    PROVE  WithdrawalInv'
<1>1. /\ HoldsEndOnce /\ calls[c].pc = "wd.compensate" /\ calls[c].pc \in Settling
      /\ UNCHANGED withdrawals /\ StoreTypeOK
    BY DEF WithdrawalInv, CompensateWithdrawal, At, Settling, Recording, Typed, StoreIsTyped
<1>2. calls[c] \in [pc : {"wd.create", "wd.compensate"}, withdrawal : Withdrawals,
                    customer : Customers, amount : Nat]
    BY <1>1, WithdrawalFields DEF Typed, StoreIsTyped
<1> PICK w \in Withdrawals, p \in Customers, n \in Nat :
        w = calls[c].withdrawal /\ p = calls[c].customer /\ n = calls[c].amount
    BY <1>2
<1> DEFINE postings == usdtWithdrawRefund(p, Asset, n)
<1>3. /\ withdrawals[w] = NoWithdrawal /\ HeldFor(w, p, n) /\ Unresolved(w)
      /\ \A e \in Calls \ {c} : calls[e].pc \in Settling => calls[e].withdrawal # w
    BY <1>1, SettlingIsAlone DEF WithdrawalCallTrue, Recording
<1>4. n > 0 /\ postings \in Seq(Posting)
    <2>1. n > 0
        BY <1>3, WithdrawalsAssumption DEF HeldFor
    <2> QED
        BY <2>1, MovesAreJournals, WithdrawalsAssumption
<1>5. /\ Starts(c, Idle)
      /\ \/ Post(RefundKey(w), postings)
         \/ UNCHANGED ledgerVars /\ ~StoreErrorsOnly
    <2>1. Accepts(RefundKey(w), postings)
        BY <1>4, RefundIsAccepted, WithdrawalKeysDiffer
    <2> QED
        BY <2>1, Becomes, StoreErrorsAreAcked DEF CompensateWithdrawal, AwaitsPost, Refuse
<1> HIDE DEF postings
<1>6. /\ \A v \in Withdrawals : /\ v # w => SameJournals(v)
                                /\ journal'[HoldKey(v)] = journal[HoldKey(v)]
                                /\ journal'[SettleKey(v)] = journal[SettleKey(v)]
      /\ StoreErrorsOnly => Posted(RefundKey(w))'
    <2>1. CASE Post(RefundKey(w), postings)
        BY <1>1, <1>4, <2>1, PostAppends, WithdrawalKeysDiffer DEF SameJournals
    <2>2. CASE UNCHANGED ledgerVars /\ ~StoreErrorsOnly
        BY <2>2 DEF SameJournals, ledgerVars
    <2> QED
        BY <1>5, <2>1, <2>2
<1>7. WithdrawalTrue(w)'
    <2>1. Posted(HoldKey(w))
        BY <1>3, HeldIsPosted
    <2>2. Posted(HoldKey(w))' /\ ~Posted(SettleKey(w))' /\ withdrawals'[w] = NoWithdrawal
        BY <1>1, <1>3, <1>6, <2>1 DEF Unresolved, Posted
    <2> QED
        BY <2>2 DEF WithdrawalTrue, NoWithdrawal
<1>8. WithdrawalCallTrue(Idle)' /\ Idle.pc \notin Settling
    BY DEF WithdrawalCallTrue, Idle, Settling, Recording, Resolving
<1> QED
    BY <1>1, <1>3, <1>5, <1>6, <1>7, <1>8, OneWithdrawalKeepsInv

LEMMA ClaimKeepsInv ==
    ASSUME Typed, WithdrawalInv, AcksReliably, UNCHANGED env, NEW c \in Calls,
           ClaimWithdrawal(c)
    PROVE  WithdrawalInv'
<1>1. /\ HoldsEndOnce /\ calls[c].pc = "wd.claim" /\ calls \in [Calls -> CallTypes]
      /\ UNCHANGED journal
    BY DEF WithdrawalInv, ClaimWithdrawal, At, Typed, StoreIsTyped, ledgerVars
<1>2. calls[c].withdrawal \in Withdrawals /\ calls[c].to \in {"completed", "rejected"}
    BY <1>1, WithdrawalFields
<1> PICK w \in Withdrawals, to \in {"completed", "rejected"} :
        w = calls[c].withdrawal /\ to = calls[c].to
    BY <1>2
<1>3. \A v \in Withdrawals : SameJournals(v)
    BY <1>1 DEF SameJournals
<1>4. CASE UNCHANGED withdrawals /\ Starts(c, Idle)
    <2>1. \A e \in Calls : \/ calls'[e] = calls[e]
                           \/ calls[e].pc \notin Recording /\ calls'[e].pc \notin Settling
        BY <1>1, <1>4, CallAfter DEF Idle, Settling, Recording, Resolving
    <2> QED
        BY <1>3, <1>4, <2>1, QuietWithdrawalKeepsInv
<1>5. CASE /\ withdrawals[w].status = "pending"
           /\ withdrawals' = [withdrawals EXCEPT ![w].status = to]
           /\ GoesTo(c, "wd.post")
    <2>1. PICK x \in WithdrawalCalls :
              Starts(c, x) /\ x.pc = "wd.post" /\ x.withdrawal = w /\ x.to = to
        BY <1>1, <1>5, WithdrawalGoesOn DEF Typed
    <2>2. withdrawals[w] \in Withdrawal /\ WithdrawalTrue(w) /\ withdrawals[w] # NoWithdrawal
        BY <1>1, <1>5, WithdrawalRows DEF HoldsEndOnce, Typed, WithdrawalStatus, NoWithdrawal
    <2>3. /\ withdrawals'[w] = [withdrawals[w] EXCEPT !.status = to]
          /\ withdrawals'[w] \in Withdrawal
          /\ \A v \in Withdrawals \ {w} : withdrawals'[v] = withdrawals[v]
        BY <1>5, <2>2, WithdrawalStatusChanges DEF Typed, WithdrawalStatus
    <2>4. /\ withdrawals'[w].status = to /\ withdrawals'[w].fee = withdrawals[w].fee
          /\ withdrawals'[w].customer = withdrawals[w].customer
          /\ withdrawals'[w].amount = withdrawals[w].amount
          /\ withdrawals'[w] # NoWithdrawal
        BY <2>2, <2>3 DEF Withdrawal, NoWithdrawal, WithdrawalStatus
    <2>5. Unresolved(w) /\ Unresolved(w)'
        BY <1>1, <1>5, <2>2 DEF WithdrawalTrue, Unresolved, Posted
    <2>6. WithdrawalCallTrue(x)'
        BY <2>1, <2>4, <2>5 DEF WithdrawalCallTrue, Recording
    <2>7. WithdrawalTrue(w)'
        BY <1>1, <2>2, <2>4, <2>5 DEF WithdrawalTrue, Unresolved, HeldFor
    <2>8. \A e \in Calls \ {c} : calls[e].pc \in Settling => calls[e].withdrawal # w
        <3> SUFFICES ASSUME NEW e \in Calls \ {c}, calls[e].pc \in Settling,
                            calls[e].withdrawal = w
                     PROVE  FALSE
            OBVIOUS
        <3>1. WithdrawalCallTrue(calls[e])
            BY <1>1 DEF HoldsEndOnce
        <3>2. calls[e].pc \in Resolving => calls[e].to \in {"completed", "rejected"}
            BY <1>1, WithdrawalFields DEF Resolving
        <3> QED
            BY <1>5, <2>2, <3>1, <3>2 DEF WithdrawalCallTrue, Settling
    <2>9. calls[c].pc \notin Settling
        BY <1>1 DEF Settling, Recording, Resolving
    <2> QED
        BY <1>1, <1>3, <2>1, <2>3, <2>4, <2>6, <2>7, <2>8, <2>9, OneWithdrawalKeepsInv
<1>6. \/ UNCHANGED withdrawals /\ Starts(c, Idle)
      \/ /\ withdrawals[w].status = "pending"
         /\ withdrawals' = [withdrawals EXCEPT ![w].status = to]
         /\ GoesTo(c, "wd.post")
    BY Becomes DEF ClaimWithdrawal, AwaitsWrite, AcksReliably
<1> QED
    BY <1>4, <1>5, <1>6

LEMMA PostResolutionKeepsInv ==
    ASSUME Typed, WithdrawalInv, AcksReliably, UNCHANGED env, NEW c \in Calls,
           PostResolution(c)
    PROVE  WithdrawalInv'
<1>1. /\ HoldsEndOnce /\ calls[c].pc = "wd.post" /\ calls[c].pc \in Settling
      /\ UNCHANGED withdrawals /\ StoreTypeOK
    BY DEF WithdrawalInv, PostResolution, At, Settling, Resolving, Typed, StoreIsTyped
<1>2. calls[c].withdrawal \in Withdrawals /\ calls[c].to \in {"completed", "rejected"}
      /\ withdrawals[calls[c].withdrawal] \in Withdrawal
    BY <1>1, WithdrawalFields DEF Typed, StoreIsTyped, WithdrawalsTyped
<1> PICK w \in Withdrawals, to \in {"completed", "rejected"}, row \in Withdrawal :
        w = calls[c].withdrawal /\ to = calls[c].to /\ row = withdrawals[w]
    BY <1>2
<1>3. /\ row.status = to /\ Unresolved(w) /\ WithdrawalTrue(w)
      /\ HeldFor(w, row.customer, row.amount)
      /\ \A e \in Calls \ {c} : calls[e].pc \in Settling => calls[e].withdrawal # w
    BY <1>1, SettlingIsAlone
       DEF WithdrawalCallTrue, Resolving, WithdrawalTrue, NoWithdrawal, Withdrawal,
           WithdrawalStatus
<1> DEFINE key == IF to = "completed" THEN SettleKey(w) ELSE RefundKey(w)
           postings == IF to = "completed" THEN SettledPostings(row)
                       ELSE usdtWithdrawRefund(row.customer, Asset, row.amount)
<1>4. key \in Keys /\ postings \in Seq(Posting)
    <2>1. row.amount \in Int /\ row.fee \in Int /\ row.customer \in Customers
        BY DEF Withdrawal
    <2> QED
        BY <2>1, WithdrawalsPost, WithdrawalKeysDiffer DEF SettledPostings
<1>5. \/ Post(key, postings) /\ Starts(c, Idle)
      \/ UNCHANGED ledgerVars /\ GoesTo(c, "wd.revert")
    BY Becomes DEF PostResolution, AwaitsPost, Refuse, AcksReliably
<1>6. CASE Post(key, postings) /\ Starts(c, Idle)
    <2> HIDE DEF postings
    <2>1. /\ \A k \in Keys \ {key} : journal'[k] = journal[k]
        BY <1>1, <1>4, <1>6, PostAppends
    <2>2. /\ \A v \in Withdrawals : /\ v # w => SameJournals(v)
                                    /\ journal'[HoldKey(v)] = journal[HoldKey(v)]
          /\ to = "completed" => journal'[RefundKey(w)] = journal[RefundKey(w)]
          /\ to = "rejected" => journal'[SettleKey(w)] = journal[SettleKey(w)]
        BY <2>1, WithdrawalKeysDiffer DEF SameJournals
    <2>3. HeldFor(w, row.customer, row.amount)' /\ Posted(HoldKey(w))'
        <3>1. Posted(HoldKey(w))
            BY <1>3, HeldIsPosted
        <3> QED
            BY <1>3, <2>2, <3>1 DEF HeldFor, Posted
    <2>4. /\ Posted(SettleKey(w))' => to = "completed"
          /\ Posted(RefundKey(w))' => to = "rejected"
        BY <1>3, <2>2 DEF Unresolved, Posted
    <2>5. WithdrawalTrue(w)'
        BY <1>1, <1>3, <2>3, <2>4 DEF WithdrawalTrue, HeldFor
    <2>6. WithdrawalCallTrue(Idle)' /\ Idle.pc \notin Settling
        BY DEF WithdrawalCallTrue, Idle, Settling, Recording, Resolving
    <2>7. withdrawals'[w] # NoWithdrawal
        BY <1>1 DEF Withdrawal, WithdrawalStatus, NoWithdrawal
    <2> QED
        BY <1>1, <1>3, <1>6, <2>2, <2>5, <2>6, <2>7, OneWithdrawalKeepsInv
<1>7. CASE UNCHANGED ledgerVars /\ GoesTo(c, "wd.revert")
    <2>1. \A v \in Withdrawals : SameJournals(v)
        BY <1>7 DEF SameJournals, ledgerVars
    <2>2. PICK x \in WithdrawalCalls :
              Starts(c, x) /\ x.pc = "wd.revert" /\ x.withdrawal = w /\ x.to = to
        BY <1>1, <1>7, WithdrawalGoesOn DEF Typed
    <2>3. WithdrawalTrue(w)' /\ Unresolved(w)'
        BY <1>1, <1>3, <2>1, WithdrawalUnchanged
    <2>4. WithdrawalCallTrue(x)'
        BY <1>1, <1>3, <2>2, <2>3 DEF WithdrawalCallTrue, Recording
    <2>5. withdrawals'[w] # NoWithdrawal
        BY <1>1 DEF Withdrawal, WithdrawalStatus, NoWithdrawal
    <2> QED
        BY <1>1, <1>3, <2>1, <2>2, <2>3, <2>4, <2>5, OneWithdrawalKeepsInv
<1> QED
    BY <1>5, <1>6, <1>7

LEMMA RevertKeepsInv ==
    ASSUME Typed, WithdrawalInv, AcksReliably, UNCHANGED env, NEW c \in Calls,
           RevertWithdrawal(c)
    PROVE  WithdrawalInv'
<1>1. /\ HoldsEndOnce /\ calls[c].pc = "wd.revert" /\ calls[c].pc \in Settling
      /\ UNCHANGED journal /\ calls \in [Calls -> CallTypes] /\ Starts(c, Idle)
    BY Becomes
       DEF WithdrawalInv, RevertWithdrawal, At, Settling, Resolving, Typed, StoreIsTyped,
           ledgerVars, AwaitsWrite
<1>2. calls[c].withdrawal \in Withdrawals /\ withdrawals[calls[c].withdrawal] \in Withdrawal
    BY <1>1, WithdrawalFields DEF Typed, WithdrawalsTyped
<1> PICK w \in Withdrawals : w = calls[c].withdrawal
    BY <1>2
<1>3. \A v \in Withdrawals : SameJournals(v)
    BY <1>1 DEF SameJournals
<1>4. CASE UNCHANGED withdrawals
    <2>1. \A e \in Calls : \/ calls'[e] = calls[e]
                           \/ calls[e].pc \notin Recording /\ calls'[e].pc \notin Settling
        BY <1>1, CallAfter DEF Idle, Settling, Recording, Resolving
    <2> QED
        BY <1>3, <1>4, <2>1, QuietWithdrawalKeepsInv
<1>5. CASE withdrawals' = [withdrawals EXCEPT ![w].status = "pending"]
    <2>1. /\ Unresolved(w) /\ WithdrawalTrue(w) /\ withdrawals[w] # NoWithdrawal
          /\ \A e \in Calls \ {c} : calls[e].pc \in Settling => calls[e].withdrawal # w
        BY <1>1, <1>2, SettlingIsAlone
           DEF WithdrawalCallTrue, Resolving, Withdrawal, WithdrawalStatus, NoWithdrawal
    <2>2. /\ withdrawals'[w] = [withdrawals[w] EXCEPT !.status = "pending"]
          /\ withdrawals'[w] \in Withdrawal
          /\ \A v \in Withdrawals \ {w} : withdrawals'[v] = withdrawals[v]
        BY <1>2, <1>5, WithdrawalStatusChanges DEF Typed, WithdrawalStatus
    <2>3. /\ withdrawals'[w].fee = withdrawals[w].fee
          /\ withdrawals'[w].customer = withdrawals[w].customer
          /\ withdrawals'[w].amount = withdrawals[w].amount
          /\ withdrawals'[w] # NoWithdrawal
        BY <1>2, <2>2 DEF Withdrawal, NoWithdrawal, WithdrawalStatus
    <2>4. WithdrawalTrue(w)'
        BY <1>1, <2>1, <2>3 DEF WithdrawalTrue, Unresolved, HeldFor, Posted
    <2>5. WithdrawalCallTrue(Idle)' /\ Idle.pc \notin Settling
        BY DEF WithdrawalCallTrue, Idle, Settling, Recording, Resolving
    <2> QED
        BY <1>1, <1>3, <2>1, <2>2, <2>3, <2>4, <2>5, OneWithdrawalKeepsInv
<1> QED
    BY <1>4, <1>5 DEF RevertWithdrawal, AwaitsWrite

LEMMA WithdrawalInvNext ==
    ASSUME Typed, WithdrawalInv, [Next]_vars
    PROVE  WithdrawalInv'
<1>1. UNCHANGED env
    BY StepsByService
<1>2. CASE WithdrawalStep
    <2> SUFFICES ASSUME AcksReliably
                 PROVE  WithdrawalInv'
        BY <1>1 DEF WithdrawalInv, AcksReliably, MayHappen
    <2> QED
        BY <1>1, <1>2, RequestKeepsInv, ResolveKeepsInv, CreateKeepsInv, CompensateKeepsInv,
           ClaimKeepsInv, PostResolutionKeepsInv, RevertKeepsInv
           DEF WithdrawalStep, WithdrawalStarts, WithdrawalProceeds
<1>3. CASE WithdrawalsUntouched
    BY <1>1, <1>3, UntouchedIsSpared, WithdrawalsSparedKeepInv
<1>4. CASE Crash
    BY <1>1, <1>4, CrashSparesAll, WithdrawalsSparedKeepInv DEF AllSpared, Crash
<1>5. CASE UNCHANGED vars
    <2>1. WithdrawalsUntouched
        BY <1>5 DEF vars, WithdrawalsUntouched, Untouched
    <2> QED
        BY <1>3, <2>1
<1> QED
    BY <1>2, <1>3, <1>4, <1>5, StepsByService
       DEF CashoutStep, AirtimeStep, DepositStep, ReferralStep

LEMMA WithdrawalInvInit ==
    ASSUME Init
    PROVE  WithdrawalInv
<1>1. /\ \A c \in Calls : calls[c].pc = "idle"
      /\ \A w \in Withdrawals : /\ withdrawals[w] = NoWithdrawal /\ Unresolved(w)
                                /\ ~Posted(HoldKey(w))
    BY WithdrawalKeysDiffer DEF Init, WithdrawalInit, Idle, Unresolved, Posted
<1> QED
    BY <1>1
       DEF WithdrawalInv, HoldsEndOnce, WithdrawalCallTrue, OneHandlerEach, WithdrawalTrue,
           NotStranded, Unresolved, Settling, Recording, Resolving

\* A withdrawal never both settles and refunds, whatever handlers race, posts fail and
\* processes restart, and a failed insert never leaves a customer's money held for good.
THEOREM WithdrawalsMatchTheBooks == Spec => []WithdrawalsMatchLedger
<1>1. ASSUME Typed, WithdrawalInv
      PROVE  WithdrawalStatusIsBacked
    BY <1>1 DEF WithdrawalInv, HoldsEndOnce, WithdrawalTrue, WithdrawalStatusIsBacked
<1>2. ASSUME Typed, WithdrawalInv
      PROVE  HoldIsNeverStranded
    BY <1>2, StoreErrorsAreAcked
       DEF WithdrawalInv, HoldsEndOnce, NotStranded, HoldIsNeverStranded, StoreErrorsOnly,
           Recording
<1>3. Typed /\ WithdrawalInv => WithdrawalsMatchLedger
    BY <1>1, <1>2 DEF WithdrawalsMatchLedger
<1> QED
    BY <1>3, TypedAlways, WithdrawalInvInit, WithdrawalInvNext, PTL DEF Spec

-----------------------------------------------------------------------------
(* Withdrawals: the suspense account, and what holding money promises *)

Suspense == systemAccount("withdrawal_suspense", Asset)

LEMMA SuspenseExists ==
    /\ Suspense \in Accounts /\ Asset \in Currencies
    /\ \A p, c : customerWallet(p, c) # Suspense
    /\ \A kind \in SystemKinds \ {"withdrawal_suspense"} : \A c : systemAccount(kind, c) # Suspense
    /\ \A g, c : agentFloat(g, c) # Suspense /\ agentCommission(g, c) # Suspense
BY AccountsExist, SystemKindsExist, AccountsDiffer, WithdrawalsAssumption
   DEF Suspense, systemAccount, agentFloat, agentCommission, Account

\* A journal with no posting on an account leaves it alone.
LEMMA DeltaElsewhere ==
    ASSUME NEW s, NEW a, \A i \in 1..Len(s) : s[i].account # a
    PROVE  Delta(s, a) = 0
BY DEF Delta, NetOn, AmountIn

LEMMA PairElsewhere ==
    ASSUME NEW a, NEW p, NEW q, p.account # a, q.account # a
    PROVE  Delta(<<p, q>>, a) = 0
BY PairDelta

LEMMA TripleElsewhere ==
    ASSUME NEW a, NEW p, NEW q, NEW r, p.account # a, q.account # a, r.account # a
    PROVE  Delta(<<p, q, r>>, a) = 0
BY TripleDelta

LEMMA MoveElsewhere ==
    ASSUME NEW a, NEW x, NEW y, NEW n, x # a, y # a
    PROVE  Delta(Move(x, y, n), a) = 0
BY DeltaElsewhere DEF Move, debit, credit

\* No journal of another service has a posting on the suspense account.
LEMMA OthersLeaveSuspense ==
    ASSUME NEW p \in Customers, NEW c \in Currencies, NEW n \in Int, NEW m \in Int
    PROVE  /\ Delta(fundWallet(p, c, n), Suspense) = 0
           /\ Delta(referralReward(p, c, n), Suspense) = 0
           /\ \A g \in Agents : Delta(agentCashOut(g, p, c, n, m), Suspense) = 0
           /\ Delta(airtimeTopup(p, c, n, m), Suspense) = 0
           /\ Delta(reverseAirtime(p, c, n, m), Suspense) = 0
<1> DEFINE wallet == customerWallet(p, c)
           settlement == systemAccount("settlement", c)
           revenue == systemAccount("fee_revenue", c)
           promo == systemAccount("promo_expense", c)
<1>1. /\ wallet \in Accounts /\ settlement \in Accounts /\ revenue \in Accounts
      /\ wallet # Suspense /\ settlement # Suspense /\ revenue # Suspense /\ promo # Suspense
    BY SuspenseExists, AccountsExist, SystemKindsExist
<1>2. /\ fundWallet(p, c, n) = Move(settlement, wallet, n)
      /\ referralReward(p, c, n) = Move(promo, wallet, n)
    BY DEF fundWallet, referralReward
<1>3. ASSUME NEW g \in Agents
      PROVE  Delta(agentCashOut(g, p, c, n, m), Suspense) = 0
    <2> DEFINE fl == agentFloat(g, c)
               commission == agentCommission(g, c)
    <2>1. fl \in Accounts /\ fl # Suspense /\ commission # Suspense
        BY SuspenseExists, AccountsExist
    <2>2. agentCashOut(g, p, c, n, m) = Move(wallet, fl, n) \o CommissionLegs(g, c, m)
        BY DEF agentCashOut, cashOut
    <2>3. CASE m > 0
        <3>1. agentCashOut(g, p, c, n, m)
                  = <<debit(wallet, n), credit(fl, n), debit(revenue, m), credit(commission, m)>>
            BY <1>1, <2>1, <2>2, <2>3, CommissionShape
        <3> HIDE DEF wallet, revenue, fl, commission
        <3> QED
            BY <1>1, <2>1, <3>1, DeltaElsewhere DEF debit, credit
    <2>4. CASE ~(m > 0)
        <3>1. agentCashOut(g, p, c, n, m) = Move(wallet, fl, n)
            BY <1>1, <2>1, <2>2, <2>4, CommissionShape
        <3> QED
            BY <1>1, <2>1, <3>1, MoveElsewhere
    <2> QED
        BY <2>3, <2>4
<1>4. /\ Delta(airtimeTopup(p, c, n, m), Suspense) = 0
      /\ Delta(reverseAirtime(p, c, n, m), Suspense) = 0
    <2> DEFINE total == n + m
    <2>1. /\ debit(wallet, total) \in Posting /\ credit(settlement, n) \in Posting
          /\ credit(revenue, m) \in Posting /\ debit(settlement, n) \in Posting
          /\ credit(wallet, total) \in Posting /\ debit(revenue, m) \in Posting
        BY <1>1, PostingsExist
    <2>2. /\ airtimeTopup(p, c, n, m)
               = <<debit(wallet, total), credit(settlement, n)>>
                   \o IfPositive(m, credit(revenue, m))
          /\ reverseAirtime(p, c, n, m)
               = <<debit(settlement, n), credit(wallet, total)>>
                   \o IfPositive(m, debit(revenue, m))
        BY DEF airtimeTopup, reverseAirtime
    <2> HIDE DEF wallet, settlement, revenue, total
    <2>5. \A x : \A k : debit(x, k).account = x /\ credit(x, k).account = x
        BY DEF debit, credit
    <2>3. CASE m > 0
        <3>1. /\ airtimeTopup(p, c, n, m)
                   = <<debit(wallet, total), credit(settlement, n), credit(revenue, m)>>
              /\ reverseAirtime(p, c, n, m)
                   = <<debit(settlement, n), credit(wallet, total), debit(revenue, m)>>
            BY <2>1, <2>2, <2>3, Concat21 DEF IfPositive
        <3> QED
            BY <1>1, <2>5, <3>1, TripleElsewhere
    <2>4. CASE ~(m > 0)
        <3>1. /\ airtimeTopup(p, c, n, m) = <<debit(wallet, total), credit(settlement, n)>>
              /\ reverseAirtime(p, c, n, m) = <<debit(settlement, n), credit(wallet, total)>>
            BY <2>1, <2>2, <2>4 DEF IfPositive
        <3> QED
            BY <1>1, <2>5, <3>1, PairElsewhere
    <2> QED
        BY <2>3, <2>4
<1> QED
    BY <1>1, <1>2, <1>3, <1>4, MoveElsewhere

LEMMA PostMoves ==
    ASSUME StoreTypeOK, NEW k \in Keys, NEW s, Post(k, s), NEW a \in Accounts
    PROVE  balance'[a] = IF Posted(k) THEN balance[a] ELSE balance[a] + Delta(s, a)
BY DEF Post, Commit, Applied, ledgerVars

LEMMA SuspenseStays ==
    ASSUME Typed, UNCHANGED ledgerVars \/ \E k \in Keys : \E s : Post(k, s) /\ Delta(s, Suspense) = 0
    PROVE  balance'[Suspense] = balance[Suspense]
<1>1. CASE UNCHANGED ledgerVars
    BY <1>1 DEF ledgerVars
<1>2. ASSUME NEW k \in Keys, NEW s, Post(k, s), Delta(s, Suspense) = 0
      PROVE  balance'[Suspense] = balance[Suspense]
    <2>1. balance[Suspense] \in Int
        BY SuspenseExists DEF Typed, StoreIsTyped, StoreTypeOK
    <2> QED
        BY <1>2, <2>1, PostMoves, SuspenseExists DEF Typed, StoreIsTyped
<1> QED
    BY <1>1, <1>2

LEMMA CashoutsLeaveSuspense ==
    ASSUME Typed, CashoutStep
    PROVE  balance'[Suspense] = balance[Suspense]
<1>1. UNCHANGED ledgerVars \/ \E c \in Calls : DebitCashout(c)
    BY DEF CashoutStep, CashoutSteps, CashoutProceeds, RequestCashout, RejectCashout,
           CancelCashout, CashoutExpires, ApproveCashout, ExpireCashout, ClaimCashout,
           RevertCashout, ledgerVars
<1>2. ASSUME NEW c \in Calls, DebitCashout(c)
      PROVE  UNCHANGED ledgerVars \/ \E k \in Keys : \E s : Post(k, s) /\ Delta(s, Suspense) = 0
    <2> DEFINE r == calls[c].cashout
               row == cashouts[r]
               postings == agentCashOut(row.agent, row.customer, CashCurrency,
                                        row.amount, row.commission)
    <2>1. r \in Cashouts /\ row \in Cashout
        BY <1>2, CashoutFields
           DEF DebitCashout, At, CashoutPcs, Typed, StoreIsTyped, CashoutsTyped
    <2>2. UNCHANGED ledgerVars \/ Post(CashoutKey(r), postings)
        BY <1>2 DEF DebitCashout, AwaitsPost, Refuse
    <2>3. /\ row.agent \in Agents /\ row.customer \in Customers
          /\ row.amount \in Int /\ row.commission \in Int /\ CashCurrency \in Currencies
        BY <2>1, CashoutsAssumption DEF Cashout
    <2>4. CashoutKey(r) \in Keys
        BY <2>1, CashoutKeysDiffer
    <2> HIDE DEF row
    <2>5. Delta(postings, Suspense) = 0
        BY <2>3, OthersLeaveSuspense
    <2> QED
        BY <2>2, <2>4, <2>5
<1> QED
    BY <1>1, <1>2, SuspenseStays

LEMMA AirtimeLeavesSuspense ==
    ASSUME Typed, AirtimeStep
    PROVE  balance'[Suspense] = balance[Suspense]
<1>1. UNCHANGED ledgerVars \/ \E c \in Calls : DebitTopup(c) \/ ReverseTopup(c)
    BY DEF AirtimeStep, AirtimeSteps, AirtimeProceeds, SetMargin, Topup, SendTopup, ledgerVars
<1>2. ASSUME NEW c \in Calls, DebitTopup(c) \/ ReverseTopup(c)
      PROVE  UNCHANGED ledgerVars \/ \E k \in Keys : \E s : Post(k, s) /\ Delta(s, Suspense) = 0
    <2> DEFINE k == calls[c].topup
               m == calls[c].margin
               there == airtimeTopup(Payer[k], TopupCurrency, TopupCost, m)
               back == reverseAirtime(Payer[k], TopupCurrency, TopupCost, m)
    <2>1. k \in Topups /\ m \in Nat
        BY <1>2, AirtimeFields
           DEF DebitTopup, ReverseTopup, At, AirtimePcs, Typed, StoreIsTyped
    <2>2. UNCHANGED ledgerVars \/ Post(TopupKey(k), there) \/ Post(ReversalKey(k), back)
        BY <1>2 DEF DebitTopup, ReverseTopup, ReversalPostings, AwaitsPost, Refuse
    <2>3. Payer[k] \in Customers /\ TopupCurrency \in Currencies /\ TopupCost \in Int
        BY <2>1, AirtimeAssumption
    <2>4. /\ Delta(there, Suspense) = 0 /\ Delta(back, Suspense) = 0
          /\ TopupKey(k) \in Keys /\ ReversalKey(k) \in Keys
        BY <2>1, <2>3, OthersLeaveSuspense, TopupKeysDiffer
    <2> QED
        BY <2>2, <2>4
<1> QED
    BY <1>1, <1>2, SuspenseStays

LEMMA DepositsLeaveSuspense ==
    ASSUME Typed, DepositStep
    PROVE  balance'[Suspense] = balance[Suspense]
<1>1. UNCHANGED ledgerVars \/ \E c \in Calls : HookFund(c)
    BY DEF DepositStep, DepositSteps, DepositProceeds, OpenDeposit, Pay, Deliver,
           RecordIntent, HookIntent, HookMarkPaid, HookRecord, ledgerVars
<1>2. ASSUME NEW c \in Calls, HookFund(c)
      PROVE  UNCHANGED ledgerVars \/ \E k \in Keys : \E s : Post(k, s) /\ Delta(s, Suspense) = 0
    <2> DEFINE d == calls[c].charge
               postings == fundWallet(intents[d].customer, DepositCurrency[Gateway[d]],
                                      CreditMinor(d))
    <2>1. d \in Charges /\ calls[c].pc = "hook.fund"
        BY <1>2, DepositFields DEF HookFund, At, Typed, StoreIsTyped
    <2>2. charges[d].state = "paid" /\ intents[d] \in Intent
        BY <2>1, DepositRows DEF Typed, DepositsTyped, DepositCallOK, HookPcs
    <2>3. UNCHANGED ledgerVars \/ Post(FundKey(d), postings)
        BY <1>2 DEF HookFund, AwaitsPost, Refuse
    <2>4. /\ CreditMinor(d) \in Int /\ intents[d].customer \in Customers
          /\ DepositCurrency[Gateway[d]] \in Currencies
        BY <2>1, <2>2, CreditMinorIsInt, DepositsAssumption DEF Intent, Typed
    <2>5. Delta(postings, Suspense) = 0 /\ FundKey(d) \in Keys
        BY <2>1, <2>4, OthersLeaveSuspense, FundKeysDiffer
    <2> QED
        BY <2>3, <2>5
<1> QED
    BY <1>1, <1>2, SuspenseStays

LEMMA ReferralsLeaveSuspense ==
    ASSUME Typed, ReferralStep
    PROVE  balance'[Suspense] = balance[Suspense]
<1>1. UNCHANGED ledgerVars \/ \E c \in Calls : PayReward(c)
    BY DEF ReferralStep, ReferralStarts, ReferralProceeds, CodeFor, Transacted, SignUp,
           SetBonusMinor, ReadCodeAgain, CreateCode, RecordReferral, ReadBonus,
           ReadBonusAgain, MarkRewarded, SetBonusCurrency, ledgerVars
<1>2. ASSUME NEW c \in Calls, PayReward(c)
      PROVE  UNCHANGED ledgerVars \/ \E k \in Keys : \E s : Post(k, s) /\ Delta(s, Suspense) = 0
    <2> DEFINE u == calls[c].referred
               postings == referralReward(calls[c].referrer, calls[c].read.currency,
                                          calls[c].read.minor)
    <2>1. calls[c] \in [pc : {"ref.second", "ref.reward", "ref.mark"}, referred : Users,
                        referrer : Users, read : [minor : Nat, currency : Currencies]]
        BY <1>2, ReferralFields DEF PayReward, At, Typed, StoreIsTyped
    <2>2. UNCHANGED ledgerVars \/ Post(RewardKey(u), postings)
        BY <1>2 DEF PayReward, AwaitsPost, Refuse
    <2>3. /\ calls[c].referrer \in Customers /\ calls[c].read.currency \in Currencies
          /\ calls[c].read.minor \in Int /\ u \in Users
        BY <2>1, ReferralsAssumption
    <2>4. Delta(postings, Suspense) = 0 /\ RewardKey(u) \in Keys
        BY <2>3, OthersLeaveSuspense, RewardKeysDiffer
    <2> QED
        BY <2>2, <2>4
<1> QED
    BY <1>1, <1>2, SuspenseStays

\* What a step of a withdrawal posts: a first hold, or the end of one.
Holds(w, n) ==
    /\ ~Posted(HoldKey(w)) /\ Unresolved(w) /\ n \in WithdrawalAmounts
    /\ \E p \in Customers : Post(HoldKey(w), usdtWithdrawHold(p, Asset, n))

Ends(w, p, n) ==
    /\ HeldFor(w, p, n) /\ Unresolved(w)
    /\ \/ Post(RefundKey(w), usdtWithdrawRefund(p, Asset, n))
       \/ Post(SettleKey(w), usdtWithdrawSettle(Asset, n, WithdrawalFee))

LEMMA WithdrawalsHoldAndEnd ==
    ASSUME Typed, HoldsEndOnce, WithdrawalStep
    PROVE  \/ UNCHANGED ledgerVars
           \/ \E w \in Withdrawals, n \in WithdrawalAmounts : Holds(w, n)
           \/ \E w \in Withdrawals, p \in Customers, n \in Nat : Ends(w, p, n)
<1>1. \/ UNCHANGED ledgerVars
      \/ \E c \in Calls, w \in Withdrawals, p \in Customers, n \in WithdrawalAmounts :
            RequestWithdrawal(c, w, p, n)
      \/ \E c \in Calls : CompensateWithdrawal(c) \/ PostResolution(c)
    BY DEF WithdrawalStep, WithdrawalStarts, WithdrawalProceeds, ResolveWithdrawal,
           CreateWithdrawal, ClaimWithdrawal, RevertWithdrawal, ledgerVars
<1>2. ASSUME NEW c \in Calls, NEW w \in Withdrawals, NEW p \in Customers,
             NEW n \in WithdrawalAmounts, RequestWithdrawal(c, w, p, n)
      PROVE  UNCHANGED ledgerVars \/ Holds(w, n)
    <2>1. ~Posted(HoldKey(w)) /\ Unresolved(w)
        BY <1>2 DEF RequestWithdrawal, FreshWithdrawal, HoldsEndOnce, WithdrawalTrue, Unresolved
    <2>2. UNCHANGED ledgerVars \/ Post(HoldKey(w), usdtWithdrawHold(p, Asset, n))
        BY <1>2 DEF RequestWithdrawal, AwaitsPost, Refuse
    <2> QED
        BY <2>1, <2>2 DEF Holds
<1>3. ASSUME NEW c \in Calls, CompensateWithdrawal(c)
      PROVE  \/ UNCHANGED ledgerVars
             \/ \E w \in Withdrawals, p \in Customers, n \in Nat : Ends(w, p, n)
    <2>1. calls[c].pc = "wd.compensate"
        BY <1>3 DEF CompensateWithdrawal, At
    <2>2. calls[c] \in [pc : {"wd.create", "wd.compensate"}, withdrawal : Withdrawals,
                        customer : Customers, amount : Nat]
        BY <2>1, WithdrawalFields DEF Typed, StoreIsTyped
    <2>3. /\ HeldFor(calls[c].withdrawal, calls[c].customer, calls[c].amount)
          /\ Unresolved(calls[c].withdrawal)
        BY <2>1 DEF HoldsEndOnce, WithdrawalCallTrue, Recording
    <2>4. \/ UNCHANGED ledgerVars
          \/ Post(RefundKey(calls[c].withdrawal),
                  usdtWithdrawRefund(calls[c].customer, Asset, calls[c].amount))
        BY <1>3 DEF CompensateWithdrawal, AwaitsPost, Refuse
    <2> QED
        BY <2>2, <2>3, <2>4 DEF Ends
<1>4. ASSUME NEW c \in Calls, PostResolution(c)
      PROVE  \/ UNCHANGED ledgerVars
             \/ \E w \in Withdrawals, p \in Customers, n \in Nat : Ends(w, p, n)
    <2> DEFINE w == calls[c].withdrawal
               row == withdrawals[w]
    <2>1. calls[c].pc = "wd.post"
        BY <1>4 DEF PostResolution, At
    <2>2. w \in Withdrawals /\ row \in Withdrawal
        BY <2>1, WithdrawalFields DEF Typed, StoreIsTyped, WithdrawalsTyped
    <2>3. Unresolved(w) /\ HeldFor(w, row.customer, row.amount) /\ row.fee = WithdrawalFee
        BY <2>1, <2>2
           DEF HoldsEndOnce, WithdrawalCallTrue, WithdrawalTrue, Resolving, NoWithdrawal,
               Withdrawal, WithdrawalStatus
    <2>4. \/ UNCHANGED ledgerVars
          \/ Post(SettleKey(w), usdtWithdrawSettle(Asset, row.amount, row.fee))
          \/ Post(RefundKey(w), usdtWithdrawRefund(row.customer, Asset, row.amount))
        BY <1>4 DEF PostResolution, AwaitsPost, Refuse, SettledPostings
    <2>5. row.customer \in Customers /\ row.amount \in Nat
        BY <2>2 DEF Withdrawal
    <2> HIDE DEF w, row
    <2> QED
        BY <2>2, <2>3, <2>4, <2>5 DEF Ends
<1> QED
    BY <1>1, <1>2, <1>3, <1>4

\* What a hold, a settlement and a refund do to the suspense account.
LEMMA SuspenseMoves ==
    ASSUME NEW p \in Customers, NEW n \in Nat
    PROVE  /\ Delta(usdtWithdrawHold(p, Asset, n), Suspense) = n
           /\ Delta(usdtWithdrawRefund(p, Asset, n), Suspense) = -n
           /\ n > WithdrawalFee =>
                 Delta(usdtWithdrawSettle(Asset, n, WithdrawalFee), Suspense) = -n
<1> DEFINE wallet == customerWallet(p, Asset)
           settlement == systemAccount("settlement", Asset)
           revenue == systemAccount("fee_revenue", Asset)
<1>1. /\ Suspense \in Accounts /\ wallet \in Accounts /\ settlement \in Accounts
      /\ revenue \in Accounts /\ wallet # Suspense
    BY SuspenseExists, AccountsExist, SystemKindsExist
<1>2. Suspense # settlement /\ Suspense # revenue /\ settlement # revenue
    BY DEF Suspense, systemAccount, Account
<1>3. /\ usdtWithdrawHold(p, Asset, n) = Move(wallet, Suspense, n)
      /\ usdtWithdrawRefund(p, Asset, n) = Move(Suspense, wallet, n)
      /\ usdtWithdrawSettle(Asset, n, WithdrawalFee)
             = Split(Suspense, settlement, revenue, n, WithdrawalFee)
    BY DEF usdtWithdrawHold, usdtWithdrawRefund, usdtWithdrawSettle, Suspense
<1> HIDE DEF wallet, settlement, revenue
<1>4. ASSUME n > WithdrawalFee
      PROVE  Delta(Split(Suspense, settlement, revenue, n, WithdrawalFee), Suspense) = -n
    <2>1. n > 0 /\ FeeInRange(WithdrawalFee, n) /\ WithdrawalFee \in Int
        BY <1>4, WithdrawalsAssumption DEF FeeInRange
    <2> QED
        BY <1>1, <1>2, <2>1, SplitDelta
<1> QED
    BY <1>1, <1>3, <1>4, MoveDelta

\* The promise's view of a withdrawal whose journals stay.
LEMMA SameView ==
    ASSUME NEW w, SameJournals(w)
    PROVE  HeldState(w)' = HeldState(w)
BY DEF SameJournals, HeldState, Posted

\* A hold that was posted, seen by the promise.
LEMMA HeldView ==
    ASSUME NEW w, NEW p, NEW n, HeldFor(w, p, n)
    PROVE  /\ Posted(HoldKey(w)) /\ journal[HoldKey(w)][2].magnitude = n
           /\ HeldState(w) =
                 [amount |-> n,
                  state |-> IF Posted(SettleKey(w)) THEN "paid"
                            ELSE IF Posted(RefundKey(w)) THEN "returned" ELSE "held"]
<1>1. Posted(HoldKey(w))
    BY HeldIsPosted
<1>2. journal[HoldKey(w)][2].magnitude = n
    BY DEF HeldFor, usdtWithdrawHold, Move, credit
<1> QED
    BY <1>1, <1>2 DEF HeldState

LEMMA HoldingIsHold ==
    ASSUME Typed, NEW w \in Withdrawals, NEW n \in WithdrawalAmounts, Holds(w, n)
    PROVE  Held!Hold(w, n)
<1> DEFINE view == [v \in Withdrawals |-> HeldState(v)]
<1> PICK p \in Customers : Post(HoldKey(w), usdtWithdrawHold(p, Asset, n))
    BY DEF Holds
<1> DEFINE postings == usdtWithdrawHold(p, Asset, n)
<1>1. StoreTypeOK /\ ~Posted(HoldKey(w)) /\ Unresolved(w) /\ n \in Nat
    BY WithdrawalsAssumption DEF Typed, StoreIsTyped, Holds
<1>2. /\ postings \in Seq(Posting) /\ postings # NoJournal /\ postings[2].magnitude = n
    BY <1>1, MovesAreJournals, WithdrawalsAssumption
       DEF usdtWithdrawHold, Move, credit, NoJournal
<1>3. Post(HoldKey(w), postings)
    OBVIOUS
<1>4. Delta(postings, Suspense) = n
    BY <1>1, SuspenseMoves
<1> HIDE DEF postings
<1>5. /\ journal'[HoldKey(w)] = postings
      /\ \A v \in Withdrawals : /\ v # w => SameJournals(v)
                                /\ journal'[SettleKey(v)] = journal[SettleKey(v)]
                                /\ journal'[RefundKey(v)] = journal[RefundKey(v)]
    BY <1>1, <1>2, <1>3, PostStores, PostAppends, WithdrawalKeysDiffer DEF SameJournals
<1>6. HeldState(w) = [state |-> "none", amount |-> 0]
    BY <1>1 DEF HeldState
<1>7. HeldState(w)' = [state |-> "held", amount |-> n]
    BY <1>1, <1>2, <1>5 DEF HeldState, Posted, Unresolved
<1>8. \A v \in Withdrawals \ {w} : HeldState(v)' = HeldState(v)
    BY <1>5, SameView
<1>9. view' = [view EXCEPT ![w] = [state |-> "held", amount |-> n]]
    BY <1>7, <1>8
<1>10. balance'[Suspense] = balance[Suspense] + n
    BY <1>1, <1>3, <1>4, PostMoves, SuspenseExists, WithdrawalKeysDiffer
<1> QED
    BY <1>6, <1>9, <1>10 DEF Held!Hold, Held!None, Suspense

LEMMA EndingIsPayOutOrGiveBack ==
    ASSUME Typed, NEW w \in Withdrawals, NEW p \in Customers, NEW n \in Nat, Ends(w, p, n)
    PROVE  Held!PayOut(w) \/ Held!GiveBack(w)
<1> DEFINE view == [v \in Withdrawals |-> HeldState(v)]
           back == usdtWithdrawRefund(p, Asset, n)
           out == usdtWithdrawSettle(Asset, n, WithdrawalFee)
<1>1. StoreTypeOK /\ HeldFor(w, p, n) /\ Unresolved(w) /\ n > WithdrawalFee
    BY DEF Typed, StoreIsTyped, Ends, HeldFor
<1>2. /\ back \in Seq(Posting) /\ out \in Seq(Posting)
      /\ Delta(back, Suspense) = -n /\ Delta(out, Suspense) = -n
    BY <1>1, WithdrawalsPost, SuspenseMoves, WithdrawalsAssumption
<1>3. Post(RefundKey(w), back) \/ Post(SettleKey(w), out)
    BY DEF Ends
<1> HIDE DEF back, out
<1>4. /\ Posted(HoldKey(w)) /\ journal[HoldKey(w)][2].magnitude = n
      /\ HeldState(w) = [amount |-> n, state |-> "held"]
    BY <1>1, HeldView DEF Unresolved
<1>5. balance'[Suspense] = balance[Suspense] - n
    <2>1. balance[Suspense] \in Int
        BY <1>1, SuspenseExists DEF StoreTypeOK
    <2> QED
        BY <1>1, <1>2, <1>3, <2>1, PostMoves, SuspenseExists, WithdrawalKeysDiffer DEF Unresolved
<1>6. CASE Post(RefundKey(w), back)
    <2>1. /\ \A v \in Withdrawals : /\ v # w => SameJournals(v)
                                    /\ journal'[HoldKey(v)] = journal[HoldKey(v)]
                                    /\ journal'[SettleKey(v)] = journal[SettleKey(v)]
          /\ Posted(RefundKey(w))'
        BY <1>1, <1>2, <1>6, PostAppends, WithdrawalKeysDiffer DEF SameJournals
    <2>3. HeldState(w)' = [amount |-> n, state |-> "returned"]
        BY <1>1, <1>4, <2>1 DEF HeldState, Unresolved, Posted
    <2>4. \A v \in Withdrawals \ {w} : HeldState(v)' = HeldState(v)
        BY <2>1, SameView
    <2>5. view' = [view EXCEPT ![w].state = "returned"]
        <3>1. view[w] = [amount |-> n, state |-> "held"]
            BY <1>4
        <3>2. [view[w] EXCEPT !.state = "returned"] = [amount |-> n, state |-> "returned"]
            BY <3>1
        <3>3. view' = [view EXCEPT ![w] = [amount |-> n, state |-> "returned"]]
            BY <2>3, <2>4
        <3> HIDE DEF view
        <3> QED
            BY <3>2, <3>3
    <2> QED
        BY <1>4, <1>5, <2>5 DEF Held!GiveBack, Held!Becomes, Suspense
<1>7. CASE Post(SettleKey(w), out)
    <2>1. /\ \A v \in Withdrawals : /\ v # w => SameJournals(v)
                                    /\ journal'[HoldKey(v)] = journal[HoldKey(v)]
          /\ Posted(SettleKey(w))'
        BY <1>1, <1>2, <1>7, PostAppends, WithdrawalKeysDiffer DEF SameJournals
    <2>3. HeldState(w)' = [amount |-> n, state |-> "paid"]
        BY <1>1, <1>4, <2>1 DEF HeldState, Posted
    <2>4. \A v \in Withdrawals \ {w} : HeldState(v)' = HeldState(v)
        BY <2>1, SameView
    <2>5. view' = [view EXCEPT ![w].state = "paid"]
        <3>1. view[w] = [amount |-> n, state |-> "held"]
            BY <1>4
        <3>2. [view[w] EXCEPT !.state = "paid"] = [amount |-> n, state |-> "paid"]
            BY <3>1
        <3>3. view' = [view EXCEPT ![w] = [amount |-> n, state |-> "paid"]]
            BY <2>3, <2>4
        <3> HIDE DEF view
        <3> QED
            BY <3>2, <3>3
    <2> QED
        BY <1>4, <1>5, <2>5 DEF Held!PayOut, Held!Becomes, Suspense
<1> QED
    BY <1>3, <1>6, <1>7

LEMMA ViewsStay ==
    ASSUME \A w \in Withdrawals : SameJournals(w), balance'[Suspense] = balance[Suspense]
    PROVE  UNCHANGED Held!vars
BY SameView DEF Held!vars, Suspense

LEMMA StepsKeepThePromise ==
    ASSUME Typed, WithdrawalInv, [Next]_vars
    PROVE  [AcksReliably => Held!Next]_(Held!vars)
<1> SUFFICES ASSUME AcksReliably
             PROVE  Held!Next \/ UNCHANGED Held!vars
    OBVIOUS
<1>1. CASE WithdrawalStep
    <2>1. CASE UNCHANGED ledgerVars
        BY <2>1, ViewsStay DEF ledgerVars, SameJournals
    <2>2. ASSUME NEW w \in Withdrawals, NEW n \in WithdrawalAmounts, Holds(w, n)
          PROVE  Held!Next
        BY <2>2, HoldingIsHold DEF Held!Next
    <2>3. ASSUME NEW w \in Withdrawals, NEW p \in Customers, NEW n \in Nat, Ends(w, p, n)
          PROVE  Held!Next
        BY <2>3, EndingIsPayOutOrGiveBack DEF Held!Next
    <2> QED
        BY <1>1, <2>1, <2>2, <2>3, WithdrawalsHoldAndEnd DEF WithdrawalInv
<1>2. CASE WithdrawalsUntouched /\ balance'[Suspense] = balance[Suspense]
    <2>1. \A w \in Withdrawals : SameJournals(w)
        BY <1>2, OwnKeys DEF WithdrawalsUntouched, Untouched, SameJournals
    <2> QED
        BY <1>2, <2>1, ViewsStay
<1>3. CASE Crash \/ UNCHANGED vars
    BY <1>3, CrashSparesAll, ViewsStay DEF SameJournals
<1> QED
    BY <1>1, <1>2, <1>3, StepsByService, CashoutsLeaveSuspense, AirtimeLeavesSuspense,
       DepositsLeaveSuspense, ReferralsLeaveSuspense
       DEF CashoutStep, AirtimeStep, DepositStep, ReferralStep

\* The withdrawals hold, pay out and give back in single steps, each amount once, and
\* what the platform keeps in suspense is exactly what is held: no other service, no
\* race and no restart moves it, as long as no acknowledgement is lost.
THEOREM WithdrawalsHoldFunds == Spec => HeldFundsSpec
<1>1. Init => Held!Init
    <2> SUFFICES ASSUME Init PROVE Held!Init
        OBVIOUS
    <2>1. \A w \in Withdrawals : HeldState(w) = [state |-> "none", amount |-> 0]
        BY WithdrawalKeysDiffer DEF Init, HeldState, Posted
    <2>2. balance[systemAccount("withdrawal_suspense", Asset)] = 0
        BY WalletServicesAssumption DEF Init
    <2> QED
        BY <2>1, <2>2 DEF Held!Init, Held!None
<1> QED
    BY <1>1, TypedAlways, WithdrawalInvInit, WithdrawalInvNext, StepsKeepThePromise, PTL
       DEF Spec, HeldFundsSpec
=============================================================================
