---------------------------- MODULE LedgerProofs ----------------------------
(***************************************************************************)
(* Theorems about Ledger, for every set of customers, agents, currencies,  *)
(* keys, amounts, fees and quotes.  Every action is a post() of a journal  *)
(* of postings, so type correctness, the overdraft guard and the append-   *)
(* only journal follow from the lemmas of LedgerStoreProofs, the direction *)
(* of an inflow from the postings of its journal, and the closed books     *)
(* from the lemmas on sums.                                                *)
(***************************************************************************)
EXTENDS Ledger, LedgerStoreProofs

-----------------------------------------------------------------------------
(* Every step is a post() of a journal *)

LEMMA QuotesAreQuotes == Quotes \subseteq Quote
BY ArgumentsAssumption DEF Quote

LEMMA NextPosts ==
    ASSUME Next
    PROVE  \E k \in Keys, s \in Seq(Posting) : Post(k, s)
<1> PICK k \in Keys :
        \/ FundWallet(k) \/ ReferralReward(k)
        \/ CashIn(k) \/ CashOut(k) \/ AgentCashIn(k) \/ AgentCashOut(k) \/ FloatTopup(k)
        \/ PostTransferDebit(k) \/ PostTransferFx(k)
        \/ ReverseTransferFx(k) \/ ReverseTransferDebit(k)
        \/ AirtimeTopup(k) \/ ReverseAirtime(k) \/ SettlePayout(k)
        \/ P2pLock(k) \/ P2pRelease(k) \/ P2pUnlock(k)
        \/ UsdtWithdrawHold(k) \/ UsdtWithdrawSettle(k) \/ UsdtWithdrawRefund(k)
    BY DEF Next
<1> USE ArgumentsAssumption
<1>1. CASE FundWallet(k)
    BY <1>1, MovesAreJournals DEF FundWallet
<1>2. CASE ReferralReward(k)
    BY <1>2, MovesAreJournals DEF ReferralReward
<1>3. CASE CashIn(k)
    BY <1>3, AgentOperationsAreJournals DEF CashIn
<1>4. CASE CashOut(k)
    BY <1>4, AgentOperationsAreJournals DEF CashOut
<1>5. CASE AgentCashIn(k)
    BY <1>5, AgentOperationsAreJournals DEF AgentCashIn
<1>6. CASE AgentCashOut(k)
    BY <1>6, AgentOperationsAreJournals DEF AgentCashOut
<1>7. CASE FloatTopup(k)
    BY <1>7, AccountsExist, SystemKindsExist, MoveIsJournal
       DEF FloatTopup, floatTopup
<1>8. CASE PostTransferDebit(k)
    BY <1>8, TransfersAreJournals, QuotesAreQuotes DEF PostTransferDebit
<1>9. CASE PostTransferFx(k)
    BY <1>9, AccountsExist, SystemKindsExist, MoveIsJournal, QuotesAreQuotes
       DEF PostTransferFx, transferFxJournal, Quote
<1>10. CASE ReverseTransferFx(k)
    BY <1>10, AccountsExist, SystemKindsExist, MoveIsJournal, QuotesAreQuotes
       DEF ReverseTransferFx, reverseTransferFx, Quote
<1>11. CASE ReverseTransferDebit(k)
    BY <1>11, TransfersAreJournals, QuotesAreQuotes DEF ReverseTransferDebit
<1>12. CASE AirtimeTopup(k)
    BY <1>12, AirtimeIsJournal DEF AirtimeTopup
<1>13. CASE ReverseAirtime(k)
    BY <1>13, AirtimeIsJournal DEF ReverseAirtime
<1>14. CASE SettlePayout(k)
    BY <1>14, AccountsExist, SystemKindsExist, SplitIsJournal
       DEF SettlePayout, settlePayout
<1>15. CASE P2pLock(k)
    BY <1>15, MovesAreJournals DEF P2pLock
<1>16. CASE P2pRelease(k)
    BY <1>16, SplitsAreJournals DEF P2pRelease
<1>17. CASE P2pUnlock(k)
    BY <1>17, MovesAreJournals DEF P2pUnlock
<1>18. CASE UsdtWithdrawHold(k)
    BY <1>18, MovesAreJournals DEF UsdtWithdrawHold
<1>19. CASE UsdtWithdrawSettle(k)
    BY <1>19, AccountsExist, SystemKindsExist, SplitIsJournal
       DEF UsdtWithdrawSettle, usdtWithdrawSettle
<1>20. CASE UsdtWithdrawRefund(k)
    BY <1>20, MovesAreJournals DEF UsdtWithdrawRefund
<1> QED
    BY <1>1, <1>2, <1>3, <1>4, <1>5, <1>6, <1>7, <1>8, <1>9, <1>10, <1>11, <1>12, <1>13, <1>14, <1>15, <1>16, <1>17, <1>18, <1>19, <1>20

-----------------------------------------------------------------------------
(* The properties of the runs, for every instance *)

LEMMA InitHolds == Init => TypeOK /\ NonNegative
<1> SUFFICES ASSUME Init PROVE TypeOK /\ NonNegative
    OBVIOUS
<1>1. journal \in [Keys -> Seq(Posting)]
    BY DEF Init, NoJournal
<1>2. balance \in [Accounts -> Int] /\ \A a \in Accounts : balance[a] = 0
    BY DEF Init
<1> QED
    BY <1>1, <1>2 DEF TypeOK, NonNegative

LEMMA NextKeepsType ==
    ASSUME TypeOK, [Next]_ledgerVars
    PROVE  TypeOK'
<1>1. CASE Next
    BY <1>1, NextPosts, PostKeepsType DEF TypeOK, StoreTypeOK
<1>2. CASE UNCHANGED ledgerVars
    BY <1>2 DEF TypeOK, ledgerVars
<1> QED
    BY <1>1, <1>2

\* Balances stay integers and the journal table holds sequences of postings,
\* whatever amounts the callers pass.
THEOREM TypeCorrect == Spec => []TypeOK
<1>1. Init => TypeOK
    BY InitHolds
<1>2. TypeOK /\ [Next]_ledgerVars => TypeOK'
    BY NextKeepsType
<1> QED
    BY <1>1, <1>2, PTL DEF Spec

\* No sequence of calls overdraws a wallet, an agent's accounts or an escrow.
THEOREM NeverOverdrawn == Spec => []NonNegative
<1>1. Init => TypeOK /\ NonNegative
    BY InitHolds
<1>2. TypeOK /\ NonNegative /\ [Next]_ledgerVars => TypeOK' /\ NonNegative'
    <2> SUFFICES ASSUME TypeOK, NonNegative, [Next]_ledgerVars
                 PROVE  TypeOK' /\ NonNegative'
        OBVIOUS
    <2>1. CASE Next
        BY <2>1, NextKeepsType, NextPosts, PostKeepsNonNegative
           DEF TypeOK, NonNegative, StoreTypeOK, StoreNonNegative
    <2>2. CASE UNCHANGED ledgerVars
        BY <2>2, NextKeepsType DEF NonNegative, ledgerVars
    <2> QED
        BY <2>1, <2>2
<1> QED
    BY <1>1, <1>2, PTL DEF Spec

\* The journal is append-only and every post is idempotent.
THEOREM JournalIsAppendOnly == Spec => AppendOnly
<1> DEFINE Appends == /\ \A k \in Keys : Posted(k) => journal'[k] = journal[k]
                      /\ journal' = journal => balance' = balance
<1>1. TypeOK /\ [Next]_ledgerVars => [Appends]_ledgerVars
    <2> SUFFICES ASSUME TypeOK, Next PROVE Appends
        OBVIOUS
    <2> QED
        BY NextPosts, PostAppends DEF TypeOK, StoreTypeOK
<1>2. AppendOnly <=> [][Appends]_ledgerVars
    BY DEF AppendOnly
<1> QED
    BY <1>1, <1>2, TypeCorrect, PTL DEF Spec

-----------------------------------------------------------------------------
(* Inflows credit wallets *)

\* The postings an inflow is made of: none of them debits a wallet.
Inpayment == {posting \in Posting : posting.account.kind = "wallet" => posting.side = "credit"}

LEMMA InpaymentsExist ==
    /\ \A a \in Accounts, n \in Int : credit(a, n) \in Inpayment
    /\ \A a \in Accounts, n \in Int : a.kind # "wallet" => debit(a, n) \in Inpayment
BY PostingsExist DEF Inpayment, credit, debit

LEMMA AccountKinds ==
    /\ \A p, c : p2pEscrow(p, c).kind # "wallet" /\ agentFloat(p, c).kind # "wallet"
    /\ \A kind \in SystemKinds : \A c : systemAccount(kind, c).kind # "wallet"
BY DEF p2pEscrow, agentFloat, systemAccount, Account, SystemKinds

LEMMA IfPositiveIsInpayment ==
    ASSUME NEW n \in Int, NEW posting \in Inpayment
    PROVE  IfPositive(n, posting) \in Seq(Inpayment)
BY DEF IfPositive

LEMMA MoveIsInpayment ==
    ASSUME NEW from \in Accounts, NEW to \in Accounts, NEW n \in Int, from.kind # "wallet"
    PROVE  Move(from, to, n) \in Seq(Inpayment)
BY InpaymentsExist DEF Move

LEMMA JoinedInpayments ==
    ASSUME NEW s \in Seq(Inpayment), NEW t \in Seq(Inpayment)
    PROVE  s \o t \in Seq(Inpayment)
OBVIOUS

\* A journal of inpayments with positive magnitudes takes nothing from a wallet.
LEMMA InpaymentsNeverDrain ==
    ASSUME NEW s \in Seq(Inpayment), PositiveMagnitudes(s), NEW a \in Accounts,
           a.kind = "wallet"
    PROVE  Delta(s, a) >= 0
<1>1. ASSUME NEW i \in 1..4
      PROVE  AmountIn(s, i, {a}) \in Int /\ AmountIn(s, i, {a}) >= 0
    <2>1. CASE i \in 1..Len(s) /\ s[i].account = a
        <3>1. s[i] \in Inpayment /\ s[i].magnitude > 0
            BY <2>1 DEF PositiveMagnitudes
        <3>2. s[i].side = "credit" /\ s[i].magnitude \in Int
            BY <2>1, <3>1 DEF Inpayment, Posting
        <3> QED
            BY <2>1, <3>1, <3>2 DEF AmountIn, Signed
    <2>2. CASE ~(i \in 1..Len(s) /\ s[i].account = a)
        BY <2>2 DEF AmountIn
    <2> QED
        BY <2>1, <2>2
<1> QED
    BY <1>1 DEF Delta, NetOn

LEMMA PostedInpayments ==
    ASSUME TypeOK, NEW k \in Keys, NEW s \in Seq(Inpayment), Post(k, s)
    PROVE  \A a \in Accounts : a.kind = "wallet" => ~(balance'[a] < balance[a])
<1>0. s \in Seq(Posting)
    BY DEF Inpayment
<1> SUFFICES ASSUME NEW a \in Accounts, a.kind = "wallet"
             PROVE  ~(balance'[a] < balance[a])
    OBVIOUS
<1>1. balance[a] \in Int
    BY DEF TypeOK
<1>2. CASE UNCHANGED ledgerVars
    BY <1>1, <1>2 DEF ledgerVars
<1>3. CASE ~UNCHANGED ledgerVars
    <2>1. PositiveMagnitudes(s) /\ balance'[a] = balance[a] + Delta(s, a)
        BY <1>3 DEF Post, Accepts, WellFormed, Commit, Applied
    <2>2. Delta(s, a) \in Int /\ Delta(s, a) >= 0
        BY <1>0, <2>1, DeltaIsInt, InpaymentsNeverDrain
    <2> QED
        BY <1>1, <2>1, <2>2
<1> QED
    BY <1>2, <1>3

LEMMA InflowsAreInpayments ==
    ASSUME NEW k \in Keys, Inflow(k)
    PROVE  \E s \in Seq(Inpayment) : Post(k, s)
<1> USE ArgumentsAssumption, AccountsExist, SystemKindsExist, AccountKinds
<1>1. CASE FundWallet(k)
    BY <1>1, MoveIsInpayment DEF FundWallet, fundWallet
<1>2. CASE ReferralReward(k)
    BY <1>2, MoveIsInpayment DEF ReferralReward, referralReward
<1>3. CASE CashIn(k)
    BY <1>3, MoveIsInpayment DEF CashIn, cashIn
<1>4. CASE AgentCashIn(k)
    <2>1. PICK g \in Agents, p \in Customers, c \in Currencies, n \in Amounts, f \in Fees :
             Post(k, agentCashIn(g, p, c, n, f))
        BY <1>4 DEF AgentCashIn
    <2>2. n \in Int /\ f \in Int
        OBVIOUS
    <2>3. /\ debit(systemAccount("fee_revenue", c), f) \in Inpayment
          /\ credit(agentCommission(g, c), f) \in Inpayment
        BY <2>2, InpaymentsExist
    <2>4. CommissionLegs(g, c, f) \in Seq(Inpayment)
        BY <2>2, <2>3, IfPositiveIsInpayment, JoinedInpayments DEF CommissionLegs
    <2>5. cashIn(g, p, c, n) \in Seq(Inpayment)
        BY <2>2, MoveIsInpayment DEF cashIn
    <2>6. agentCashIn(g, p, c, n, f) \in Seq(Inpayment)
        BY <2>4, <2>5, JoinedInpayments DEF agentCashIn
    <2> QED
        BY <2>1, <2>6
<1>5. CASE ReverseTransferDebit(k)
    <2>1. PICK p \in Customers, q \in Quotes : Post(k, reverseTransferDebit(p, q))
        BY <1>5 DEF ReverseTransferDebit
    <2>2. q.from \in Currencies /\ q.send \in Int /\ q.fee \in Int
        OBVIOUS
    <2> DEFINE x == debit(systemAccount("fx_position", q.from), q.send)
               y == debit(systemAccount("fee_revenue", q.from), q.fee)
               z == credit(customerWallet(p, q.from), q.send + q.fee)
    <2>3. x \in Inpayment /\ y \in Inpayment /\ z \in Inpayment
        BY <2>2, InpaymentsExist
    <2>4. reverseTransferDebit(p, q) = <<x>> \o IfPositive(q.fee, y) \o <<z>>
        BY DEF reverseTransferDebit
    <2> HIDE DEF x, y, z
    <2>5. IfPositive(q.fee, y) \in Seq(Inpayment)
        BY <2>2, <2>3, IfPositiveIsInpayment
    <2>6. <<x>> \in Seq(Inpayment) /\ <<z>> \in Seq(Inpayment)
        BY <2>3
    <2>7. reverseTransferDebit(p, q) \in Seq(Inpayment)
        BY <2>4, <2>5, <2>6, JoinedInpayments
    <2> QED
        BY <2>1, <2>7
<1>6. CASE ReverseAirtime(k)
    <2>1. PICK p \in Customers, c \in Currencies, n \in Amounts, f \in Fees :
             Post(k, reverseAirtime(p, c, n, f))
        BY <1>6 DEF ReverseAirtime
    <2>2. n \in Int /\ f \in Int
        OBVIOUS
    <2> DEFINE x == debit(systemAccount("settlement", c), n)
               y == credit(customerWallet(p, c), n + f)
               z == debit(systemAccount("fee_revenue", c), f)
    <2>3. x \in Inpayment /\ y \in Inpayment /\ z \in Inpayment
        BY <2>2, InpaymentsExist
    <2>4. reverseAirtime(p, c, n, f) = <<x, y>> \o IfPositive(f, z)
        BY DEF reverseAirtime
    <2> HIDE DEF x, y, z
    <2>5. IfPositive(f, z) \in Seq(Inpayment) /\ <<x, y>> \in Seq(Inpayment)
        BY <2>2, <2>3, IfPositiveIsInpayment
    <2>6. reverseAirtime(p, c, n, f) \in Seq(Inpayment)
        BY <2>4, <2>5, JoinedInpayments
    <2> QED
        BY <2>1, <2>6
<1>7. CASE UsdtWithdrawRefund(k)
    BY <1>7, MoveIsInpayment DEF UsdtWithdrawRefund, usdtWithdrawRefund
<1>8. CASE P2pUnlock(k)
    BY <1>8, MoveIsInpayment DEF P2pUnlock, p2pUnlock
<1> QED
    BY <1>1, <1>2, <1>3, <1>4, <1>5, <1>6, <1>7, <1>8 DEF Inflow

\* Money paid in to a user lowers no wallet, whatever amounts the callers pass, in
\* every state the calls reach.
THEOREM InflowsOnlyCredit == Spec => InflowsNeverDrain
<1> DEFINE Drains == \E a \in Accounts : a.kind = "wallet" /\ balance'[a] < balance[a]
           Keeps == Drains => ~\E k \in Keys : Inflow(k)
<1>1. TypeOK /\ [Next]_ledgerVars => [Keeps]_ledgerVars
    <2> SUFFICES ASSUME TypeOK, NEW k \in Keys, Inflow(k) PROVE ~Drains
        OBVIOUS
    <2> QED
        BY InflowsAreInpayments, PostedInpayments
<1>2. InflowsNeverDrain <=> [][Keeps]_ledgerVars
    BY DEF InflowsNeverDrain
<1> QED
    BY <1>1, <1>2, TypeCorrect, PTL DEF Spec

-----------------------------------------------------------------------------
(* The books close *)

\* Finitely many kinds, currencies and owners make finitely many accounts.
LEMMA FiniteRecords ==
    ASSUME NEW K, NEW C, NEW O, IsFiniteSet(K), IsFiniteSet(C), IsFiniteSet(O)
    PROVE  IsFiniteSet([kind : K, currency : C, owner : O])
<1> DEFINE D == (K \X C) \X O
           T == [kind : K, currency : C, owner : O]
           f == [d \in D |-> [kind |-> d[1][1], currency |-> d[1][2], owner |-> d[2]]]
<1>1. IsFiniteSet(D)
    BY FS_Product
<1>2. f \in [D -> T]
    OBVIOUS
<1>3. ASSUME NEW t \in T PROVE \E d \in D : f[d] = t
    <2>1. <<<<t.kind, t.currency>>, t.owner>> \in D
        OBVIOUS
    <2>2. f[<<<<t.kind, t.currency>>, t.owner>>] = t
        BY <2>1
    <2> QED
        BY <2>1, <2>2
<1> HIDE DEF D, f, T
<1>4. f \in Surjection(D, T)
    BY <1>2, <1>3 DEF Surjection
<1>5. IsFiniteSet(T)
    BY <1>1, <1>4, FS_Surjection
<1> QED
    BY <1>5 DEF T

LEMMA FiniteAccounts == IsFiniteSet(Accounts)
<1>1. /\ IsFiniteSet({"wallet", "p2p_escrow"}) /\ IsFiniteSet({"agent_float", "agent_commission"})
      /\ IsFiniteSet(SystemKinds) /\ IsFiniteSet({NoOwner})
    <2>1. IsFiniteSet({"wallet"} \cup {"p2p_escrow"})
        BY FS_Singleton, FS_AddElement
    <2>2. IsFiniteSet({"agent_float"} \cup {"agent_commission"})
        BY FS_Singleton, FS_AddElement
    <2>3. IsFiniteSet({"settlement"} \cup {"fee_revenue"} \cup {"fx_position"}
              \cup {"payout_suspense"} \cup {"provider_fee"} \cup {"withdrawal_suspense"}
              \cup {"promo_expense"})
        <3> DEFINE three == {"settlement"} \cup {"fee_revenue"} \cup {"fx_position"}
                   five == three \cup {"payout_suspense"} \cup {"provider_fee"}
        <3>1. IsFiniteSet({"settlement"} \cup {"fee_revenue"})
            BY FS_Singleton, FS_AddElement
        <3>2. IsFiniteSet(three)
            BY <3>1, FS_AddElement
        <3>3. IsFiniteSet(three \cup {"payout_suspense"})
            BY <3>2, FS_AddElement
        <3>4. IsFiniteSet(five)
            BY <3>3, FS_AddElement
        <3>5. IsFiniteSet(five \cup {"withdrawal_suspense"})
            BY <3>4, FS_AddElement
        <3>6. IsFiniteSet((five \cup {"withdrawal_suspense"}) \cup {"promo_expense"})
            BY <3>5, FS_AddElement
        <3> QED
            BY <3>6
    <2>4. SystemKinds = {"settlement"} \cup {"fee_revenue"} \cup {"fx_position"}
              \cup {"payout_suspense"} \cup {"provider_fee"} \cup {"withdrawal_suspense"}
              \cup {"promo_expense"}
        BY DEF SystemKinds
    <2>5. {"wallet", "p2p_escrow"} = {"wallet"} \cup {"p2p_escrow"}
        OBVIOUS
    <2>6. {"agent_float", "agent_commission"} = {"agent_float"} \cup {"agent_commission"}
        OBVIOUS
    <2>7. IsFiniteSet(SystemKinds)
        BY <2>3, <2>4
    <2>8. IsFiniteSet({NoOwner})
        BY FS_Singleton
    <2> QED
        BY <2>1, <2>2, <2>5, <2>6, <2>7, <2>8
<1> DEFINE A == [kind : {"wallet", "p2p_escrow"}, currency : Currencies, owner : Customers]
           B == [kind : {"agent_float", "agent_commission"}, currency : Currencies,
                 owner : Agents]
           C == [kind : SystemKinds, currency : Currencies, owner : {NoOwner}]
<1>2. IsFiniteSet(A) /\ IsFiniteSet(B) /\ IsFiniteSet(C)
    BY <1>1, FiniteTablesAssumption, FiniteRecords
<1>3. Accounts = A \cup B \cup C
    BY DEF Accounts
<1> HIDE DEF A, B, C
<1>4. IsFiniteSet(A \cup B)
    BY <1>2, FS_Union
<1>5. IsFiniteSet((A \cup B) \cup C)
    BY <1>2, <1>4, FS_Union
<1> QED
    BY <1>3, <1>5

\* What one posting gives the accounts of a set, account by account.
LEMMA PostingIsShared ==
    ASSUME NEW s \in Seq(Posting), NEW i \in 1..4, NEW A, IsFiniteSet(A)
    PROVE  SumFunctionOnSet([a \in A |-> AmountIn(s, i, {a})], A) = AmountIn(s, i, A)
<1> DEFINE f == [a \in A |-> AmountIn(s, i, {a})]
           zero == [a \in A |-> 0]
<1>1. \A a \in A : f[a] \in Int /\ zero[a] = 0 /\ zero[a] \in Int
    BY AmountInIsInt
<1>2. CASE i \in 1..Len(s) /\ s[i].account \in A
    <2> DEFINE y == s[i].account
    <2>1. f[y] = Signed(s[i]) /\ AmountIn(s, i, A) = Signed(s[i])
        BY <1>2 DEF AmountIn
    <2>2. \A a \in A \ {y} : f[a] = zero[a]
        BY DEF AmountIn
    <2>3. y \in A
        BY <1>2
    <2> HIDE DEF f, zero, y
    <2>4. SumFunctionOnSet(f, A) = SumFunctionOnSet(zero, A) + f[y] - zero[y]
        BY <1>1, <2>2, <2>3, SumUpdate
    <2>5. SumFunctionOnSet(zero, A) = 0
        BY <1>1, SumZero
    <2>6. f[y] \in Int /\ zero[y] = 0
        BY <1>1, <2>3
    <2>7. SumFunctionOnSet(f, A) = AmountIn(s, i, A)
        BY <2>1, <2>4, <2>5, <2>6
    <2> QED
        BY <2>7 DEF f
<1>3. CASE ~(i \in 1..Len(s) /\ s[i].account \in A)
    <2>1. \A a \in A : f[a] = 0
        BY <1>3 DEF AmountIn
    <2>2. AmountIn(s, i, A) = 0
        BY <1>3 DEF AmountIn
    <2> HIDE DEF f
    <2>3. SumFunctionOnSet(f, A) = 0
        BY <2>1, SumZero
    <2> QED
        BY <2>2, <2>3 DEF f
<1> QED
    BY <1>2, <1>3

\* What a journal gives the accounts of a set, account by account.
LEMMA JournalIsShared ==
    ASSUME NEW s \in Seq(Posting), NEW A, IsFiniteSet(A)
    PROVE  SumFunctionOnSet([a \in A |-> Delta(s, a)], A) = NetOn(s, A)
<1> DEFINE f1 == [a \in A |-> AmountIn(s, 1, {a})]
           f2 == [a \in A |-> AmountIn(s, 2, {a})]
           f3 == [a \in A |-> AmountIn(s, 3, {a})]
           f4 == [a \in A |-> AmountIn(s, 4, {a})]
           g2 == [a \in A |-> f1[a] + f2[a]]
           g3 == [a \in A |-> g2[a] + f3[a]]
           g4 == [a \in A |-> Delta(s, a)]
<1>1. \A a \in A : f1[a] \in Int /\ f2[a] \in Int /\ f3[a] \in Int /\ f4[a] \in Int
    BY AmountInIsInt
<1>2. \A a \in A : g2[a] = f1[a] + f2[a] /\ g3[a] = g2[a] + f3[a] /\ g4[a] = g3[a] + f4[a]
    BY DEF Delta, NetOn
<1>3. /\ SumFunctionOnSet(f1, A) = AmountIn(s, 1, A)
      /\ SumFunctionOnSet(f2, A) = AmountIn(s, 2, A)
      /\ SumFunctionOnSet(f3, A) = AmountIn(s, 3, A)
      /\ SumFunctionOnSet(f4, A) = AmountIn(s, 4, A)
    <2>1. \A i \in 1..4 :
              SumFunctionOnSet([a \in A |-> AmountIn(s, i, {a})], A) = AmountIn(s, i, A)
        BY PostingIsShared
    <2>2. SumFunctionOnSet(f1, A) = AmountIn(s, 1, A)
        BY <2>1
    <2>3. SumFunctionOnSet(f2, A) = AmountIn(s, 2, A)
        BY <2>1
    <2>4. SumFunctionOnSet(f3, A) = AmountIn(s, 3, A)
        BY <2>1
    <2>5. SumFunctionOnSet(f4, A) = AmountIn(s, 4, A)
        BY <2>1
    <2> QED
        BY <2>2, <2>3, <2>4, <2>5
<1> HIDE DEF f1, f2, f3, f4, g2, g3, g4
<1>4. \A a \in A : g2[a] \in Int /\ g3[a] \in Int
    BY <1>1, <1>2
<1>5. SumFunctionOnSet(g2, A) = SumFunctionOnSet(f1, A) + SumFunctionOnSet(f2, A)
    BY <1>1, <1>2, SumPlus
<1>6. SumFunctionOnSet(g3, A) = SumFunctionOnSet(g2, A) + SumFunctionOnSet(f3, A)
    BY <1>1, <1>2, <1>4, SumPlus
<1>7. SumFunctionOnSet(g4, A) = SumFunctionOnSet(g3, A) + SumFunctionOnSet(f4, A)
    BY <1>1, <1>2, <1>4, SumPlus
<1>8. SumFunctionOnSet(g4, A) = NetOn(s, A)
    BY <1>3, <1>5, <1>6, <1>7 DEF NetOn
<1> QED
    BY <1>8 DEF g4

\* A post() of a new journal leaves the sum of a currency's balances alone.
LEMMA PostKeepsBooksClosed ==
    ASSUME TypeOK, ClosedBooks, NEW k \in Keys, NEW s \in Seq(Posting), Post(k, s)
    PROVE  ClosedBooks'
<1>1. CASE UNCHANGED ledgerVars
    BY <1>1 DEF ClosedBooks, ledgerVars
<1>2. CASE ~UNCHANGED ledgerVars
    <2>1. WellFormed(s) /\ balance' = Applied(s)
        BY <1>2 DEF Post, Accepts, Commit
    <2> SUFFICES ASSUME NEW c \in Currencies
                 PROVE  SumFunctionOnSet(balance', {a \in Accounts : a.currency = c}) = 0
        BY DEF ClosedBooks
    <2> DEFINE A == {a \in Accounts : a.currency = c}
               d == [a \in A |-> Delta(s, a)]
    <2>2. IsFiniteSet(A) /\ A \subseteq Accounts
        BY FiniteAccounts, FS_Subset
    <2>3. SumFunctionOnSet(d, A) = 0
        BY <2>1, <2>2, JournalIsShared DEF WellFormed, Balanced, NetIn
    <2>4. \A a \in A : balance[a] \in Int /\ d[a] \in Int /\ balance'[a] = balance[a] + d[a]
        BY <2>1, <2>2, DeltaIsInt DEF TypeOK, Applied
    <2>5. SumFunctionOnSet(balance, A) = 0
        BY DEF ClosedBooks
    <2> HIDE DEF A, d
    <2>6. SumFunctionOnSet(balance', A) = SumFunctionOnSet(balance, A) + SumFunctionOnSet(d, A)
        BY <2>2, <2>4, SumPlus
    <2>7. SumFunctionOnSet(balance', A) = 0
        BY <2>3, <2>5, <2>6
    <2> QED
        BY <2>7 DEF A
<1> QED
    BY <1>1, <1>2

\* A post() of a new journal moves an account's balance by what its postings say.
LEMMA PostKeepsCache ==
    ASSUME TypeOK, CacheMatchesPostings, NEW k \in Keys, NEW s \in Seq(Posting), Post(k, s)
    PROVE  CacheMatchesPostings'
<1>1. CASE UNCHANGED ledgerVars
    BY <1>1 DEF CacheMatchesPostings, ledgerVars
<1>2. CASE ~UNCHANGED ledgerVars
    <2>1. ~Posted(k) /\ balance' = Applied(s) /\ journal' = [journal EXCEPT ![k] = s]
        BY <1>2 DEF Post, Commit
    <2> SUFFICES ASSUME NEW a \in Accounts
                 PROVE  balance'[a] = SumFunction([j \in Keys |-> Delta(journal'[j], a)])
        BY DEF CacheMatchesPostings
    <2> DEFINE f == [j \in Keys |-> Delta(journal[j], a)]
               h == [j \in Keys |-> Delta(journal'[j], a)]
    <2>2. /\ balance[a] = SumFunctionOnSet(f, Keys)
          /\ SumFunction(h) = SumFunctionOnSet(h, Keys)
        BY DEF CacheMatchesPostings, SumFunction
    <2>3. balance'[a] = balance[a] + Delta(s, a)
        BY <2>1 DEF Applied
    <2>4. \A j \in Keys : journal[j] \in Seq(Posting) /\ journal'[j] \in Seq(Posting)
        BY <2>1 DEF TypeOK
    <2>5. \A j \in Keys : f[j] \in Int /\ h[j] \in Int
        BY <2>4, DeltaIsInt
    <2>6. \A j \in Keys \ {k} : h[j] = f[j]
        BY <2>1 DEF TypeOK
    <2>7. h[k] = Delta(s, a)
        BY <2>1 DEF TypeOK
    <2>8. f[k] = 0
        <3>1. Len(<<>>) = 0
            OBVIOUS
        <3> QED
            BY <2>1, <3>1 DEF Posted, NoJournal, Delta, NetOn, AmountIn
    <2>9. balance[a] \in Int /\ Delta(s, a) \in Int /\ IsFiniteSet(Keys)
        BY DeltaIsInt, FiniteTablesAssumption DEF TypeOK
    <2> HIDE DEF f, h
    <2>10. SumFunctionOnSet(h, Keys) = SumFunctionOnSet(f, Keys) + h[k] - f[k]
        BY <2>5, <2>6, <2>9, SumUpdate
    <2>11. balance'[a] = SumFunction(h)
        BY <2>2, <2>3, <2>7, <2>8, <2>9, <2>10
    <2> QED
        BY <2>11 DEF h
<1> QED
    BY <1>1, <1>2

LEMMA InitReconciles == Init => Reconciles
<1> SUFFICES ASSUME Init PROVE Reconciles
    OBVIOUS
<1>1. ClosedBooks
    <2> SUFFICES ASSUME NEW c \in Currencies
                 PROVE  SumFunctionOnSet(balance, {a \in Accounts : a.currency = c}) = 0
        BY DEF ClosedBooks
    <2> DEFINE A == {a \in Accounts : a.currency = c}
    <2>1. IsFiniteSet(A)
        BY FiniteAccounts, FS_Subset
    <2>2. \A a \in A : balance[a] = 0
        BY DEF Init
    <2> HIDE DEF A
    <2>3. SumFunctionOnSet(balance, A) = 0
        BY <2>1, <2>2, SumZero
    <2> QED
        BY <2>3 DEF A
<1>2. CacheMatchesPostings
    <2> SUFFICES ASSUME NEW a \in Accounts
                 PROVE  balance[a] = SumFunction([k \in Keys |-> Delta(journal[k], a)])
        BY DEF CacheMatchesPostings
    <2> DEFINE f == [k \in Keys |-> Delta(journal[k], a)]
    <2>1. \A k \in Keys : f[k] = 0
        <3>1. Len(<<>>) = 0
            OBVIOUS
        <3> QED
            BY <3>1 DEF Init, NoJournal, Delta, NetOn, AmountIn
    <2>2. SumFunction(f) = SumFunctionOnSet(f, Keys)
        BY DEF SumFunction
    <2>3. balance[a] = 0
        BY DEF Init
    <2> HIDE DEF f
    <2>4. SumFunction(f) = 0
        BY <2>1, <2>2, SumZero, FiniteTablesAssumption
    <2> QED
        BY <2>3, <2>4 DEF f
<1> QED
    BY <1>1, <1>2 DEF Reconciles

\* reconcile() finds nothing, after any sequence of calls: in every currency the
\* balances sum to zero, and every cached balance is the sum of the postings
\* stored on its account.
THEOREM BooksReconcile == Spec => []Reconciles
<1>1. Init => TypeOK /\ Reconciles
    BY InitHolds, InitReconciles
<1>2. TypeOK /\ Reconciles /\ [Next]_ledgerVars => TypeOK' /\ Reconciles'
    <2> SUFFICES ASSUME TypeOK, Reconciles, [Next]_ledgerVars
                 PROVE  TypeOK' /\ Reconciles'
        OBVIOUS
    <2>1. CASE Next
        <3>1. PICK k \in Keys, s \in Seq(Posting) : Post(k, s)
            BY <2>1, NextPosts
        <3>2. ClosedBooks' /\ CacheMatchesPostings'
            BY <3>1, PostKeepsBooksClosed, PostKeepsCache DEF Reconciles
        <3> QED
            BY <3>2, NextKeepsType DEF Reconciles
    <2>2. CASE UNCHANGED ledgerVars
        BY <2>2, NextKeepsType DEF Reconciles, ClosedBooks, CacheMatchesPostings, ledgerVars
    <2> QED
        BY <2>1, <2>2
<1> QED
    BY <1>1, <1>2, PTL DEF Spec
=============================================================================
