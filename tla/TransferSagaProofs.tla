------------------------- MODULE TransferSagaProofs -------------------------
(***************************************************************************)
(* Theorems about TransferSaga, for every set of transfers, handlers,      *)
(* quotes, rails and fees.  They hold under every fault; those about what  *)
(* the provider decided say under which conditions (ProviderIsAsked,       *)
(* OneHandlerEach).                                                        *)
(*                                                                         *)
(* A handler goes on from what it did or read earlier, so the inductive    *)
(* invariant says what the step it has reached rests on (Backed), what     *)
(* each journal rests on (MayPost), and that a journal is still the one    *)
(* its rows would build (Built), because rows keep what they lock.         *)
(* WordInv adds the answer of the provider that a handler on its way to    *)
(* settle or to reverse acts on, and OneInv the payment that this answer   *)
(* was about; LastInv says that a row refers to the last payment of its    *)
(* transfer.  SumsInv says what the two platform accounts hold: a sum      *)
(* over the transfers, of which a step changes one summand.                *)
(***************************************************************************)
EXTENDS TransferSaga, LedgerStoreProofs

-----------------------------------------------------------------------------
(* The inductive invariant *)

Kinds == {"debit", "fx", "settle", "reversal_fx", "reversal_debit"}

\* The postings of a transfer's journals.
Built(kind, t) ==
    LET s == transfers[t].sender
        q == transfers[t].quote
    IN CASE kind = "debit" -> transferDebitJournal(s, q)
         [] kind = "fx" -> transferFxJournal(q)
         [] kind = "settle" -> settlePayout(q.to, q.receive, payouts[t].providerFee)
         [] kind = "reversal_fx" -> reverseTransferFx(q)
         [] kind = "reversal_debit" -> reverseTransferDebit(s, q)

\* What has happened before a journal is posted.
MayPost(kind, t) ==
    /\ transfers[t] # NoTransfer
    /\ kind = "fx" => Posted(DebitKey(t))
    /\ kind \in {"settle", "reversal_fx", "reversal_debit"} => Exists(t)
    /\ kind = "settle" => FeeInRange(payouts[t].providerFee, transfers[t].quote.receive)
    /\ kind = "reversal_debit" => Posted(ReversalFxKey(t))

JournalsAreBuilt ==
    \A kind \in Kinds, t \in Transfers :
        Posted(<<kind, t>>) => /\ MayPost(kind, t)
                               /\ journal[<<kind, t>>] = Built(kind, t)

\* A payout is its transfer's, and its amount has been booked.
PayoutsAreBooked ==
    \A t \in Transfers : Exists(t) =>
        /\ transfers[t] # NoTransfer
        /\ payouts[t].sender = transfers[t].sender
        /\ payouts[t].quote = transfers[t].quote
        /\ Posted(FxKey(t))

PaymentsAreOfPayouts ==
    \A t \in Transfers, n \in 1..MaxSends : payments[t][n] # "none" => Exists(t)

\* What has happened before a handler reaches a step.
Backed(pc, t) ==
    /\ transfers[t] # NoTransfer
    /\ pc \notin {"load", "debit"} => Posted(DebitKey(t))
    /\ pc \notin {"load", "debit", "markDebited", "fx"} => Posted(FxKey(t))
    /\ pc \in PayoutPcs \cup {"auto", "markCompleted"} => Exists(t)
    /\ pc = "markSettled" => Posted(SettleKey(t))
    /\ pc \in {"reverseDebit", "markReversed"} => Posted(ReversalFxKey(t))
    /\ pc = "markReversed" => Posted(ReversalDebitKey(t))

CallsAreBacked ==
    \A c \in Calls : calls[c] # Idle => Backed(calls[c].pc, calls[c].transfer)

\* What the boot recovery has listed was there.
RecoveryIsKnown == \A t \in recovery : transfers[t] # NoTransfer

\* A transfer locks a quote that was on offer.
QuotesWereOffered ==
    \A t \in Transfers : transfers[t] # NoTransfer => transfers[t].quote \in Quotes

IInv ==
    /\ TypeOK
    /\ JournalsAreBuilt
    /\ PayoutsAreBooked
    /\ PaymentsAreOfPayouts
    /\ StatusIsBacked
    /\ CallsAreBacked
    /\ RecoveryIsKnown
    /\ QuotesWereOffered

-----------------------------------------------------------------------------
(* Typing *)

Pcs == SagaPcs \cup PayoutPcs

LEMMA CallFields ==
    ASSUME TypeOK, NEW c \in Calls
    PROVE  /\ calls[c] # Idle => /\ calls[c].pc \in Pcs
                                 /\ calls[c].transfer \in Transfers
                                 /\ calls[c].saga \in BOOLEAN
                                 /\ calls[c].ref \in Refs
           /\ calls[c].pc \in Pcs => calls[c] # Idle
BY DEF TypeOK, CallState, Idle, Pcs, SagaPcs, PayoutPcs

LEMMA TransferRows ==
    ASSUME TypeOK, NEW t \in Transfers
    PROVE  /\ transfers[t] # NoTransfer =>
                 /\ transfers[t] \in Transfer
                 /\ transfers[t].sender \in Customers
                 /\ transfers[t].quote \in Quote
                 /\ transfers[t].status \in TransferStatus
           /\ transfers[t].status \in TransferStatus => transfers[t] # NoTransfer
BY DEF TypeOK, NoTransfer, Transfer, TransferStatus

LEMMA PayoutRows ==
    ASSUME TypeOK, NEW t \in Transfers
    PROVE  /\ Exists(t) => /\ payouts[t] \in Payout
                           /\ payouts[t].providerFee \in Int
                           /\ payouts[t].status \in PayoutStatus
           /\ payouts[t].status \in PayoutStatus => Exists(t)
BY DEF TypeOK, NoPayout, Payout, PayoutStatus, Exists

LEMMA KeysExist ==
    /\ \A kind \in Kinds, t \in Transfers : <<kind, t>> \in Keys
    /\ \A t \in Transfers :
          /\ DebitKey(t) \in Keys /\ FxKey(t) \in Keys /\ SettleKey(t) \in Keys
          /\ ReversalFxKey(t) \in Keys /\ ReversalDebitKey(t) \in Keys
BY PayoutsAssumption
   DEF Kinds, DebitKey, FxKey, SettleKey, ReversalFxKey, ReversalDebitKey

\* Every journal of a transfer is a sequence of postings.
LEMMA BuiltIsJournal ==
    ASSUME TypeOK, NEW kind \in Kinds, NEW t \in Transfers, MayPost(kind, t)
    PROVE  Built(kind, t) \in Seq(Posting)
<1>1. transfers[t].sender \in Customers /\ transfers[t].quote \in Quote
    BY TransferRows DEF MayPost
<1>2. /\ transfers[t].quote.from \in Currencies /\ transfers[t].quote.to \in Currencies
      /\ transfers[t].quote.send \in Int /\ transfers[t].quote.fee \in Int
      /\ transfers[t].quote.receive \in Int
    BY <1>1 DEF Quote
<1>3. kind = "settle" => payouts[t].providerFee \in Int
    BY PayoutRows DEF MayPost
<1>4. CASE kind = "debit"
    BY <1>1, <1>2, <1>4, TransfersAreJournals DEF Built, Quote
<1>5. CASE kind = "fx"
    BY <1>1, <1>2, <1>5, TransfersAreJournals DEF Built, Quote
<1>6. CASE kind = "settle"
    BY <1>1, <1>2, <1>3, <1>6, SplitsAreJournals DEF Built
<1>7. CASE kind = "reversal_fx"
    BY <1>1, <1>2, <1>7, TransfersAreJournals DEF Built, Quote
<1>8. CASE kind = "reversal_debit"
    BY <1>1, <1>2, <1>8, TransfersAreJournals DEF Built, Quote
<1> QED
    BY <1>4, <1>5, <1>6, <1>7, <1>8 DEF Kinds

-----------------------------------------------------------------------------
(* What a step does *)

\* It posts one journal of a transfer, built from its rows, or none.
LedgerMoves ==
    \/ UNCHANGED ledgerVars
    \/ \E kind \in Kinds, t \in Transfers :
          MayPost(kind, t) /\ Post(<<kind, t>>, Built(kind, t))

\* The ledger has what a transfer's status says.
StatusMayBe(t, status) ==
    /\ transfers[t] # NoTransfer
    /\ status \in TransferStatus \ {"pending"}
    /\ Posted(DebitKey(t))
    /\ status \in {"fx_booked", "completed"} => Posted(FxKey(t))
    /\ status = "completed" => Exists(t)

NewTransfer(t, row) ==
    /\ transfers[t] = NoTransfer
    /\ row \in Transfer /\ row.status = "pending" /\ row.quote \in Quotes
    /\ transfers' = [transfers EXCEPT ![t] = row]
    /\ UNCHANGED ledgerVars

TransfersMove ==
    \/ UNCHANGED transfers
    \/ \E t \in Transfers, row \in Transfer : NewTransfer(t, row)
    \/ \E t \in Transfers, status \in TransferStatus :
          /\ StatusMayBe(t, status)
          /\ transfers' = [transfers EXCEPT ![t].status = status]

PayoutMayBe(t, status) ==
    /\ Exists(t)
    /\ status \in PayoutStatus
    /\ status = "settled" => Posted(SettleKey(t)) \/ payouts[t].status = status
    /\ status = "reversed" =>
          \/ Posted(ReversalFxKey(t)) /\ Posted(ReversalDebitKey(t))
          \/ payouts[t].status = status

NewPayout(t, row) ==
    /\ ~Exists(t)
    /\ transfers[t] # NoTransfer
    /\ Posted(FxKey(t))
    /\ row \in Payout
    /\ row.status = "created"
    /\ row.sender = transfers[t].sender
    /\ row.quote = transfers[t].quote
    /\ payouts' = [payouts EXCEPT ![t] = row]

SamePayout(t, row) ==
    /\ PayoutMayBe(t, row.status)
    /\ row \in Payout
    /\ row.sender = payouts[t].sender
    /\ row.quote = payouts[t].quote
    /\ row.providerFee = payouts[t].providerFee
    /\ payouts' = [payouts EXCEPT ![t] = row]

PayoutsMove ==
    \/ UNCHANGED payouts
    \/ \E t \in Transfers, row \in Payout : NewPayout(t, row)
    \/ \E t \in Transfers, row \in Payout : SamePayout(t, row)

PaymentsMove ==
    \/ UNCHANGED payments
    \/ \E t \in Transfers, n \in 1..MaxSends, state \in PaymentState :
          Exists(t) /\ payments' = [payments EXCEPT ![t][n] = state]

CallsMove ==
    /\ calls' \in [Calls -> CallState]
    /\ \A c \in Calls :
          \/ calls'[c] = calls[c]
          \/ calls'[c] = Idle
          \/ \E pc \in Pcs, t \in Transfers :
                calls'[c].pc = pc /\ calls'[c].transfer = t /\ Backed(pc, t)'

RestMoves ==
    /\ auto' \subseteq Rails
    /\ serving' \in BOOLEAN
    /\ recovery' \subseteq Transfers
    /\ crashes' \in Nat
    /\ \A t \in recovery' : transfers'[t] # NoTransfer

Moves ==
    LedgerMoves /\ TransfersMove /\ PayoutsMove /\ PaymentsMove /\ CallsMove /\ RestMoves

\* The journals it leaves, and where a new one comes from.
LEMMA LedgerMovesAppend ==
    ASSUME TypeOK, LedgerMoves
    PROVE  /\ StoreTypeOK'
           /\ \A k \in Keys : Posted(k) => journal'[k] = journal[k] /\ Posted(k)'
           /\ \A kind \in Kinds, t \in Transfers :
                 Posted(<<kind, t>>)' =>
                    \/ Posted(<<kind, t>>)
                    \/ MayPost(kind, t) /\ journal'[<<kind, t>>] = Built(kind, t)
<1>1. StoreTypeOK
    BY DEF TypeOK, StoreTypeOK
<1>2. CASE UNCHANGED ledgerVars
    BY <1>1, <1>2 DEF ledgerVars, StoreTypeOK, Posted
<1>3. ASSUME NEW kind \in Kinds, NEW t \in Transfers,
             MayPost(kind, t), Post(<<kind, t>>, Built(kind, t))
      PROVE  /\ StoreTypeOK'
             /\ \A k \in Keys : Posted(k) => journal'[k] = journal[k] /\ Posted(k)'
             /\ \A kd \in Kinds, u \in Transfers :
                   Posted(<<kd, u>>)' =>
                      \/ Posted(<<kd, u>>)
                      \/ MayPost(kd, u) /\ journal'[<<kd, u>>] = Built(kd, u)
    <2>1. <<kind, t>> \in Keys
        BY KeysExist
    <2>2. Built(kind, t) \in Seq(Posting)
        BY <1>3, BuiltIsJournal
    <2>3. StoreTypeOK'
        BY <1>1, <1>3, <2>1, <2>2, PostKeepsType
    <2>4. /\ \A k \in Keys : Posted(k) => journal'[k] = journal[k]
          /\ \A k \in Keys \ {<<kind, t>>} : journal'[k] = journal[k]
        BY <1>1, <1>3, <2>1, <2>2, PostAppends
    <2>5. ~Posted(<<kind, t>>) => journal'[<<kind, t>>] = Built(kind, t)
        BY <1>1, <1>3, <2>1 DEF Post, Commit, StoreTypeOK
    <2>6. ASSUME NEW kd \in Kinds, NEW u \in Transfers, Posted(<<kd, u>>)'
          PROVE  \/ Posted(<<kd, u>>)
                 \/ MayPost(kd, u) /\ journal'[<<kd, u>>] = Built(kd, u)
        <3>1. <<kd, u>> \in Keys
            BY KeysExist
        <3>2. CASE <<kd, u>> = <<kind, t>>
            <4>1. kd = kind /\ u = t
                BY <3>2
            <4> QED
                BY <1>3, <2>5, <4>1
        <3>3. CASE <<kd, u>> # <<kind, t>>
            BY <2>4, <2>6, <3>1, <3>3 DEF Posted
        <3> QED
            BY <3>2, <3>3
    <2>7. \A k \in Keys : Posted(k) => Posted(k)'
        BY <2>4 DEF Posted
    <2> QED
        BY <2>3, <2>4, <2>6, <2>7
<1> QED
    BY <1>2, <1>3 DEF LedgerMoves

\* Rows keep what they lock.
TransferKeeps(t) ==
    transfers[t] # NoTransfer => /\ transfers'[t] # NoTransfer
                                 /\ transfers'[t].sender = transfers[t].sender
                                 /\ transfers'[t].quote = transfers[t].quote

PayoutKeeps(t) ==
    Exists(t) => /\ Exists(t)'
                 /\ payouts'[t].sender = payouts[t].sender
                 /\ payouts'[t].quote = payouts[t].quote
                 /\ payouts'[t].providerFee = payouts[t].providerFee

LEMMA TransfersMoveTyped ==
    ASSUME TypeOK, TransfersMove
    PROVE  /\ transfers' \in [Transfers -> Transfer \cup {NoTransfer}]
           /\ \A t \in Transfers : TransferKeeps(t)
           /\ \A t \in Transfers :
                 \/ transfers'[t].status \notin TransferStatus \ {"pending"}
                 \/ transfers'[t].status = transfers[t].status
                 \/ StatusMayBe(t, transfers'[t].status)
<1>1. CASE UNCHANGED transfers
    BY <1>1 DEF TypeOK, TransferKeeps
<1>2. ASSUME NEW u \in Transfers, NEW row \in Transfer, NewTransfer(u, row)
      PROVE  /\ transfers' \in [Transfers -> Transfer \cup {NoTransfer}]
             /\ \A t \in Transfers : TransferKeeps(t)
             /\ \A t \in Transfers :
                   \/ transfers'[t].status \notin TransferStatus \ {"pending"}
                   \/ transfers'[t].status = transfers[t].status
                   \/ StatusMayBe(t, transfers'[t].status)
    <2>1. \A t \in Transfers : transfers'[t] = IF t = u THEN row ELSE transfers[t]
        BY <1>2 DEF NewTransfer, TypeOK
    <2>2. transfers' \in [Transfers -> Transfer \cup {NoTransfer}]
        BY <1>2 DEF NewTransfer, TypeOK
    <2>3. transfers[u] = NoTransfer /\ row.status = "pending"
        BY <1>2 DEF NewTransfer
    <2> QED
        BY <2>1, <2>2, <2>3 DEF TransferKeeps
<1>3. ASSUME NEW u \in Transfers, NEW status \in TransferStatus, StatusMayBe(u, status),
             transfers' = [transfers EXCEPT ![u].status = status]
      PROVE  /\ transfers' \in [Transfers -> Transfer \cup {NoTransfer}]
             /\ \A t \in Transfers : TransferKeeps(t)
             /\ \A t \in Transfers :
                   \/ transfers'[t].status \notin TransferStatus \ {"pending"}
                   \/ transfers'[t].status = transfers[t].status
                   \/ StatusMayBe(t, transfers'[t].status)
    <2>1. transfers[u] \in Transfer
        BY <1>3, TransferRows DEF StatusMayBe
    <2>2. \A t \in Transfers :
             transfers'[t] = IF t = u THEN [transfers[u] EXCEPT !.status = status]
                                      ELSE transfers[t]
        BY <1>3 DEF TypeOK
    <2>3. /\ [transfers[u] EXCEPT !.status = status] \in Transfer
          /\ [transfers[u] EXCEPT !.status = status].sender = transfers[u].sender
          /\ [transfers[u] EXCEPT !.status = status].quote = transfers[u].quote
          /\ [transfers[u] EXCEPT !.status = status].status = status
        BY <2>1 DEF Transfer
    <2>4. [transfers[u] EXCEPT !.status = status] # NoTransfer
        BY <2>3 DEF TransferStatus, NoTransfer
    <2>5. transfers' \in [Transfers -> Transfer \cup {NoTransfer}]
        BY <1>3, <2>2, <2>3 DEF TypeOK
    <2> HIDE DEF NoTransfer
    <2> QED
        BY <1>3, <2>2, <2>3, <2>4, <2>5 DEF TransferKeeps
<1> QED
    BY <1>1, <1>2, <1>3 DEF TransfersMove

LEMMA PayoutsMoveTyped ==
    ASSUME TypeOK, PayoutsMove
    PROVE  /\ payouts' \in [Transfers -> Payout \cup {NoPayout}]
           /\ \A t \in Transfers : PayoutKeeps(t)
           /\ \A t \in Transfers :
                 \/ ~Exists(t)'
                 \/ Exists(t) /\ PayoutMayBe(t, payouts'[t].status)
                 \/ /\ ~Exists(t) /\ transfers[t] # NoTransfer /\ Posted(FxKey(t))
                    /\ payouts'[t].sender = transfers[t].sender
                    /\ payouts'[t].quote = transfers[t].quote
                    /\ payouts'[t].status = "created"
<1>1. CASE UNCHANGED payouts
    BY <1>1, PayoutRows DEF TypeOK, PayoutKeeps, Exists, PayoutMayBe
<1>2. ASSUME NEW u \in Transfers, NEW row \in Payout, NewPayout(u, row)
      PROVE  /\ payouts' \in [Transfers -> Payout \cup {NoPayout}]
             /\ \A t \in Transfers : PayoutKeeps(t)
             /\ \A t \in Transfers :
                   \/ ~Exists(t)'
                   \/ Exists(t) /\ PayoutMayBe(t, payouts'[t].status)
                   \/ /\ ~Exists(t) /\ transfers[t] # NoTransfer /\ Posted(FxKey(t))
                      /\ payouts'[t].sender = transfers[t].sender
                      /\ payouts'[t].quote = transfers[t].quote
                      /\ payouts'[t].status = "created"
    <2>1. \A t \in Transfers : payouts'[t] = IF t = u THEN row ELSE payouts[t]
        BY <1>2 DEF NewPayout, TypeOK
    <2>2. payouts' \in [Transfers -> Payout \cup {NoPayout}]
        BY <1>2 DEF NewPayout, TypeOK
    <2>3. /\ ~Exists(u) /\ transfers[u] # NoTransfer /\ Posted(FxKey(u))
          /\ row.sender = transfers[u].sender
          /\ row.quote = transfers[u].quote /\ row.status = "created"
        BY <1>2 DEF NewPayout
    <2>4. \A t \in Transfers : PayoutKeeps(t)
        BY <2>1, <2>3 DEF PayoutKeeps, Exists
    <2>5. \A t \in Transfers : t # u /\ Exists(t) => PayoutMayBe(t, payouts'[t].status)
        BY <2>1, PayoutRows DEF PayoutMayBe
    <2> QED
        BY <2>1, <2>2, <2>3, <2>4, <2>5 DEF Exists
<1>3. ASSUME NEW u \in Transfers, NEW row \in Payout, SamePayout(u, row)
      PROVE  /\ payouts' \in [Transfers -> Payout \cup {NoPayout}]
             /\ \A t \in Transfers : PayoutKeeps(t)
             /\ \A t \in Transfers :
                   ~Exists(t)' \/ (Exists(t) /\ PayoutMayBe(t, payouts'[t].status))
    <2>1. /\ payouts' = [payouts EXCEPT ![u] = row]
          /\ row.sender = payouts[u].sender /\ row.quote = payouts[u].quote
          /\ row.providerFee = payouts[u].providerFee
          /\ PayoutMayBe(u, row.status)
        BY <1>3 DEF SamePayout
    <2>2. \A t \in Transfers : payouts'[t] = IF t = u THEN row ELSE payouts[t]
        BY <2>1 DEF TypeOK
    <2>3. row # NoPayout
        BY DEF Payout, PayoutStatus, NoPayout
    <2>4. payouts' \in [Transfers -> Payout \cup {NoPayout}]
        BY <2>1 DEF TypeOK
    <2>5. \A t \in Transfers : PayoutKeeps(t)
        BY <2>1, <2>2, <2>3 DEF PayoutKeeps, Exists
    <2>6. \A t \in Transfers : t # u /\ Exists(t) => PayoutMayBe(t, payouts'[t].status)
        BY <2>2, PayoutRows DEF PayoutMayBe
    <2>7. \A t \in Transfers : ~Exists(t)' \/ (Exists(t) /\ PayoutMayBe(t, payouts'[t].status))
        BY <2>1, <2>2, <2>6 DEF Exists, PayoutMayBe
    <2> QED
        BY <2>4, <2>5, <2>7
<1> QED
    BY <1>1, <1>2, <1>3 DEF PayoutsMove

LEMMA PaymentsMoveTyped ==
    ASSUME TypeOK, PaymentsMove
    PROVE  /\ payments' \in [Transfers -> [1..MaxSends -> PaymentState]]
           /\ \A t \in Transfers, n \in 1..MaxSends :
                 payments'[t][n] # payments[t][n] => Exists(t)
<1>1. CASE UNCHANGED payments
    BY <1>1 DEF TypeOK
<1>2. ASSUME NEW u \in Transfers, NEW m \in 1..MaxSends, NEW state \in PaymentState,
             Exists(u), payments' = [payments EXCEPT ![u][m] = state]
      PROVE  /\ payments' \in [Transfers -> [1..MaxSends -> PaymentState]]
             /\ \A t \in Transfers, n \in 1..MaxSends :
                   payments'[t][n] # payments[t][n] => Exists(t)
    <2>1. payments[u] \in [1..MaxSends -> PaymentState]
        BY DEF TypeOK
    <2>2. [payments[u] EXCEPT ![m] = state] \in [1..MaxSends -> PaymentState]
        BY <2>1
    <2>3. payments' = [payments EXCEPT ![u] = [payments[u] EXCEPT ![m] = state]]
        BY <1>2
    <2>4. \A t \in Transfers : t # u => payments'[t] = payments[t]
        BY <2>3 DEF TypeOK
    <2>5. payments' \in [Transfers -> [1..MaxSends -> PaymentState]]
        BY <2>2, <2>3 DEF TypeOK
    <2> QED
        BY <1>2, <2>4, <2>5
<1> QED
    BY <1>1, <1>2 DEF PaymentsMove

-----------------------------------------------------------------------------
(* A step of that kind keeps the invariant *)

\* What a step or a journal rests on stays.
LEMMA BackingStays ==
    ASSUME TypeOK, LedgerMoves, NEW t \in Transfers, TransferKeeps(t), PayoutKeeps(t)
    PROVE  /\ \A pc \in Pcs : Backed(pc, t) => Backed(pc, t)'
           /\ \A kind \in Kinds :
                 MayPost(kind, t) => MayPost(kind, t)' /\ Built(kind, t)' = Built(kind, t)
<1>1. /\ Posted(DebitKey(t)) => Posted(DebitKey(t))'
      /\ Posted(FxKey(t)) => Posted(FxKey(t))'
      /\ Posted(SettleKey(t)) => Posted(SettleKey(t))'
      /\ Posted(ReversalFxKey(t)) => Posted(ReversalFxKey(t))'
      /\ Posted(ReversalDebitKey(t)) => Posted(ReversalDebitKey(t))'
    BY LedgerMovesAppend, KeysExist
       DEF Posted, DebitKey, FxKey, SettleKey, ReversalFxKey, ReversalDebitKey
<1>2. ASSUME NEW pc \in Pcs, Backed(pc, t) PROVE Backed(pc, t)'
    BY <1>1, <1>2 DEF Backed, TransferKeeps, PayoutKeeps
<1>3. ASSUME NEW kind \in Kinds, MayPost(kind, t) PROVE MayPost(kind, t)'
    BY <1>1, <1>3 DEF MayPost, TransferKeeps, PayoutKeeps
<1>4. ASSUME NEW kind \in Kinds, MayPost(kind, t) PROVE Built(kind, t)' = Built(kind, t)
    <2>1. /\ transfers'[t].sender = transfers[t].sender
          /\ transfers'[t].quote = transfers[t].quote
        BY <1>4 DEF MayPost, TransferKeeps
    <2>2. kind = "settle" => payouts'[t].providerFee = payouts[t].providerFee
        BY <1>4 DEF MayPost, PayoutKeeps
    <2> QED
        BY <2>1, <2>2 DEF Built, Kinds
<1> QED
    BY <1>2, <1>3, <1>4

LEMMA MovesKeepIInv ==
    ASSUME IInv, Moves
    PROVE  IInv'
<1>1. /\ TypeOK /\ JournalsAreBuilt /\ PayoutsAreBooked /\ PaymentsAreOfPayouts
      /\ StatusIsBacked /\ CallsAreBacked /\ RecoveryIsKnown
    BY DEF IInv
<1>2. /\ LedgerMoves /\ TransfersMove /\ PayoutsMove /\ PaymentsMove
      /\ CallsMove /\ RestMoves
    BY DEF Moves
<1>3. \A t \in Transfers : TransferKeeps(t) /\ PayoutKeeps(t)
    BY <1>1, <1>2, TransfersMoveTyped, PayoutsMoveTyped
<1>4. ASSUME NEW t \in Transfers
      PROVE  /\ Posted(DebitKey(t)) => Posted(DebitKey(t))'
             /\ Posted(FxKey(t)) => Posted(FxKey(t))'
             /\ Posted(SettleKey(t)) => Posted(SettleKey(t))'
             /\ Posted(ReversalFxKey(t)) => Posted(ReversalFxKey(t))'
             /\ Posted(ReversalDebitKey(t)) => Posted(ReversalDebitKey(t))'
    BY <1>1, <1>2, LedgerMovesAppend, KeysExist
       DEF Posted, DebitKey, FxKey, SettleKey, ReversalFxKey, ReversalDebitKey
<1>5. TypeOK'
    <2>1. StoreTypeOK'
        BY <1>1, <1>2, LedgerMovesAppend
    <2>2. transfers' \in [Transfers -> Transfer \cup {NoTransfer}]
        BY <1>1, <1>2, TransfersMoveTyped
    <2>3. payouts' \in [Transfers -> Payout \cup {NoPayout}]
        BY <1>1, <1>2, PayoutsMoveTyped
    <2>4. payments' \in [Transfers -> [1..MaxSends -> PaymentState]]
        BY <1>1, <1>2, PaymentsMoveTyped
    <2>5. calls' \in [Calls -> CallState]
        BY <1>2 DEF CallsMove
    <2>6. /\ auto' \subseteq Rails /\ serving' \in BOOLEAN
          /\ recovery' \subseteq Transfers /\ crashes' \in Nat
        BY <1>2 DEF RestMoves
    <2> QED
        BY <2>1, <2>2, <2>3, <2>4, <2>5, <2>6 DEF TypeOK, StoreTypeOK
<1>6. JournalsAreBuilt'
    <2> SUFFICES ASSUME NEW kind \in Kinds, NEW t \in Transfers, Posted(<<kind, t>>)'
                 PROVE  MayPost(kind, t)' /\ (journal[<<kind, t>>] = Built(kind, t))'
        BY DEF JournalsAreBuilt
    <2>1. MayPost(kind, t) /\ journal'[<<kind, t>>] = Built(kind, t)
        <3>1. CASE Posted(<<kind, t>>)
            <4>1. MayPost(kind, t) /\ journal[<<kind, t>>] = Built(kind, t)
                BY <1>1, <3>1 DEF JournalsAreBuilt
            <4>2. journal'[<<kind, t>>] = journal[<<kind, t>>]
                BY <1>1, <1>2, <3>1, LedgerMovesAppend, KeysExist
            <4> QED
                BY <4>1, <4>2
        <3>2. CASE ~Posted(<<kind, t>>)
            BY <1>1, <1>2, <3>2, LedgerMovesAppend
        <3> QED
            BY <3>1, <3>2
    <2>2. MayPost(kind, t)' /\ Built(kind, t)' = Built(kind, t)
        BY <1>1, <1>2, <1>3, <2>1, BackingStays
    <2> QED
        BY <2>1, <2>2
<1>7. PayoutsAreBooked'
    <2> SUFFICES ASSUME NEW t \in Transfers, Exists(t)'
                 PROVE  /\ transfers'[t] # NoTransfer
                        /\ payouts'[t].sender = transfers'[t].sender
                        /\ payouts'[t].quote = transfers'[t].quote
                        /\ Posted(FxKey(t))'
        BY DEF PayoutsAreBooked
    <2>1. CASE Exists(t)
        BY <1>1, <1>3, <1>4, <2>1 DEF PayoutsAreBooked, TransferKeeps, PayoutKeeps
    <2>2. CASE ~Exists(t)
        <3>1. /\ transfers[t] # NoTransfer /\ Posted(FxKey(t))
              /\ payouts'[t].sender = transfers[t].sender
              /\ payouts'[t].quote = transfers[t].quote
            BY <1>1, <1>2, <2>2, PayoutsMoveTyped
        <3> QED
            BY <1>3, <1>4, <3>1 DEF TransferKeeps
    <2> QED
        BY <2>1, <2>2
<1>8. PaymentsAreOfPayouts'
    <2> SUFFICES ASSUME NEW t \in Transfers, NEW n \in 1..MaxSends,
                        payments'[t][n] # "none"
                 PROVE  Exists(t)'
        BY DEF PaymentsAreOfPayouts
    <2>1. Exists(t)
        BY <1>1, <1>2, PaymentsMoveTyped DEF PaymentsAreOfPayouts
    <2> QED
        BY <1>3, <2>1 DEF PayoutKeeps
<1>9. StatusIsBacked'
    <2> SUFFICES ASSUME NEW t \in Transfers
                 PROVE  /\ transfers'[t].status \in {"debited", "fx_booked", "completed"}
                              => Posted(DebitKey(t))'
                        /\ transfers'[t].status \in {"fx_booked", "completed"}
                              => Posted(FxKey(t))'
                        /\ transfers'[t].status = "completed" => Exists(t)'
                        /\ payouts'[t].status = "settled" => Posted(SettleKey(t))'
                        /\ payouts'[t].status = "reversed" =>
                              Posted(ReversalFxKey(t))' /\ Posted(ReversalDebitKey(t))'
        BY DEF StatusIsBacked
    <2>1. /\ transfers[t].status \in {"debited", "fx_booked", "completed"}
                => Posted(DebitKey(t))
          /\ transfers[t].status \in {"fx_booked", "completed"} => Posted(FxKey(t))
          /\ transfers[t].status = "completed" => Exists(t)
          /\ payouts[t].status = "settled" => Posted(SettleKey(t))
          /\ payouts[t].status = "reversed" =>
                Posted(ReversalFxKey(t)) /\ Posted(ReversalDebitKey(t))
        BY <1>1 DEF StatusIsBacked
    <2>2. \/ transfers'[t].status \notin TransferStatus \ {"pending"}
          \/ transfers'[t].status = transfers[t].status
          \/ StatusMayBe(t, transfers'[t].status)
        BY <1>1, <1>2, TransfersMoveTyped
    <2>3. /\ transfers'[t].status \in {"debited", "fx_booked", "completed"}
                => Posted(DebitKey(t))
          /\ transfers'[t].status \in {"fx_booked", "completed"} => Posted(FxKey(t))
          /\ transfers'[t].status = "completed" => Exists(t)
        BY <2>1, <2>2 DEF StatusMayBe, TransferStatus
    <2>4. ~Exists(t)' => payouts'[t].status = "none"
        BY DEF Exists, NoPayout
    <2>5. /\ payouts'[t].status = "settled" => Posted(SettleKey(t))
          /\ payouts'[t].status = "reversed" =>
                Posted(ReversalFxKey(t)) /\ Posted(ReversalDebitKey(t))
        BY <1>1, <1>2, <2>1, <2>4, PayoutsMoveTyped DEF PayoutMayBe
    <2> QED
        BY <1>3, <1>4, <2>3, <2>5 DEF PayoutKeeps
<1>10. CallsAreBacked'
    <2> SUFFICES ASSUME NEW c \in Calls, calls'[c] # Idle
                 PROVE  \E pc \in Pcs, t \in Transfers :
                           calls'[c].pc = pc /\ calls'[c].transfer = t /\ Backed(pc, t)'
        BY DEF CallsAreBacked
    <2>1. CASE calls'[c] = calls[c]
        <3>1. calls[c].pc \in Pcs /\ calls[c].transfer \in Transfers
            BY <1>1, <2>1, CallFields
        <3>2. Backed(calls[c].pc, calls[c].transfer)
            BY <1>1, <2>1 DEF CallsAreBacked
        <3>3. PICK pc \in Pcs, t \in Transfers : pc = calls[c].pc /\ t = calls[c].transfer
            BY <3>1
        <3>4. Backed(pc, t)'
            BY <1>1, <1>2, <1>3, <3>2, <3>3, BackingStays
        <3> QED
            BY <2>1, <3>3, <3>4
    <2>2. CASE calls'[c] # calls[c]
        BY <1>2, <2>2 DEF CallsMove
    <2> QED
        BY <2>1, <2>2
<1>11. RecoveryIsKnown'
    BY <1>2 DEF RestMoves, RecoveryIsKnown
<1>12. QuotesWereOffered'
    <2>1. QuotesWereOffered
        BY DEF IInv
    <2>2. CASE UNCHANGED transfers
        BY <2>1, <2>2 DEF QuotesWereOffered
    <2>3. ASSUME NEW t \in Transfers, NEW row \in Transfer, NewTransfer(t, row)
          PROVE  QuotesWereOffered'
        <3>1. \A u \in Transfers : transfers'[u] = IF u = t THEN row ELSE transfers[u]
            BY <1>1, <2>3 DEF NewTransfer, TypeOK
        <3> QED
            BY <2>1, <2>3, <3>1 DEF QuotesWereOffered, NewTransfer
    <2>4. ASSUME NEW t \in Transfers, NEW status \in TransferStatus, StatusMayBe(t, status),
                 transfers' = [transfers EXCEPT ![t].status = status]
          PROVE  QuotesWereOffered'
        <3>1. \A u \in Transfers : u # t => transfers'[u] = transfers[u]
            BY <1>1, <2>4 DEF TypeOK
        <3>2. transfers[t] # NoTransfer /\ transfers'[t].quote = transfers[t].quote
            BY <1>3, <2>4 DEF StatusMayBe, TransferKeeps
        <3> QED
            BY <2>1, <3>1, <3>2 DEF QuotesWereOffered
    <2> QED
        BY <1>2, <2>2, <2>3, <2>4 DEF TransfersMove
<1> QED
    BY <1>5, <1>6, <1>7, <1>8, <1>9, <1>10, <1>11, <1>12 DEF IInv

-----------------------------------------------------------------------------
(* How handlers go on *)

\* What a step does to the rows and the ledger.
DataMoves == LedgerMoves /\ TransfersMove /\ PayoutsMove

LEMMA DataKeepsBacking ==
    ASSUME IInv, DataMoves, NEW t \in Transfers, NEW pc \in Pcs, Backed(pc, t)
    PROVE  Backed(pc, t)'
<1>1. TransferKeeps(t) /\ PayoutKeeps(t)
    BY TransfersMoveTyped, PayoutsMoveTyped DEF IInv, DataMoves
<1> QED
    BY <1>1, BackingStays DEF IInv, DataMoves

LEMMA OneCallMoves ==
    ASSUME TypeOK, NEW c \in Calls, NEW call \in CallState,
           calls' = [calls EXCEPT ![c] = call],
           \/ call = Idle
           \/ \E pc \in Pcs, t \in Transfers :
                 call.pc = pc /\ call.transfer = t /\ Backed(pc, t)'
    PROVE  CallsMove
<1>1. calls' \in [Calls -> CallState]
    BY DEF TypeOK
<1>2. \A d \in Calls : calls'[d] = IF d = c THEN call ELSE calls[d]
    BY DEF TypeOK
<1> QED
    BY <1>1, <1>2 DEF CallsMove

LEMMA CallReturns ==
    ASSUME TypeOK, NEW c \in Calls, Returns(c)
    PROVE  CallsMove
BY OneCallMoves DEF Returns, CallState

\* Every call in flight is typed, and EXCEPT keeps its other fields.
LEMMA CallWith ==
    ASSUME TypeOK, NEW c \in Calls, calls[c] # Idle, NEW pc \in Pcs
    PROVE  /\ [calls[c] EXCEPT !.pc = pc] \in CallState
           /\ [calls[c] EXCEPT !.pc = pc].pc = pc
           /\ [calls[c] EXCEPT !.pc = pc].transfer = calls[c].transfer
<1>1. calls[c] \in [pc : SagaPcs \cup PayoutPcs, transfer : Transfers,
                    saga : BOOLEAN, ref : Refs]
    BY DEF TypeOK, CallState
<1> QED
    BY <1>1 DEF CallState, Pcs

LEMMA CallGoes ==
    ASSUME TypeOK, NEW c \in Calls, calls[c] # Idle, NEW pc \in Pcs, GoesTo(c, pc),
           NEW t \in Transfers, calls[c].transfer = t, Backed(pc, t)'
    PROVE  CallsMove
<1> DEFINE call == [calls[c] EXCEPT !.pc = pc]
<1>1. call \in CallState /\ call.pc = pc /\ call.transfer = t
    BY CallWith DEF Refs
<1>2. calls' = [calls EXCEPT ![c] = call]
    BY DEF GoesTo
<1> HIDE DEF call
<1> QED
    BY <1>1, <1>2, OneCallMoves

LEMMA CallGoesWith ==
    ASSUME TypeOK, NEW c \in Calls, calls[c] # Idle, NEW pc \in Pcs, NEW ref \in Refs,
           calls' = [calls EXCEPT ![c].pc = pc, ![c].ref = ref],
           NEW t \in Transfers, calls[c].transfer = t, Backed(pc, t)'
    PROVE  CallsMove
<1> DEFINE call == [calls[c] EXCEPT !.pc = pc, !.ref = ref]
<1>0. calls[c] \in [pc : SagaPcs \cup PayoutPcs, transfer : Transfers,
                    saga : BOOLEAN, ref : Refs]
    BY DEF TypeOK, CallState
<1>1. call \in CallState /\ call.pc = pc /\ call.transfer = t
    BY <1>0 DEF CallState, Pcs
<1>2. calls' = [calls EXCEPT ![c] = call]
    BY DEF TypeOK
<1> HIDE DEF call
<1> QED
    BY <1>1, <1>2, OneCallMoves

LEMMA CallBegins ==
    ASSUME TypeOK, NEW c \in Calls, NEW t \in Transfers, NEW pc \in Pcs,
           NEW saga \in BOOLEAN, Starts(c, pc, t, saga), Backed(pc, t)'
    PROVE  CallsMove
<1> DEFINE call == [pc |-> pc, transfer |-> t, saga |-> saga, ref |-> NoRef]
<1>1. call \in CallState /\ call.pc = pc /\ call.transfer = t
    BY DEF CallState, Pcs, Refs
<1>2. calls' = [calls EXCEPT ![c] = call]
    BY DEF Starts
<1> HIDE DEF call
<1> QED
    BY <1>1, <1>2, OneCallMoves

\* A payout handler at any step has a payout, and a run goes on to its last step.
LEMMA PayoutCallEnds ==
    ASSUME IInv, DataMoves, NEW c \in Calls, calls[c].pc \in PayoutPcs, PayoutEnds(c)
    PROVE  CallsMove
<1>1. TypeOK /\ CallsAreBacked
    BY DEF IInv
<1>2. calls[c] # Idle /\ calls[c].transfer \in Transfers
    BY <1>1, CallFields DEF Pcs
<1>3. Backed(calls[c].pc, calls[c].transfer)
    BY <1>1, <1>2 DEF CallsAreBacked
<1>4. PICK t \in Transfers : t = calls[c].transfer
    BY <1>2
<1>5. Backed("markCompleted", t)
    BY <1>3, <1>4 DEF Backed, PayoutPcs
<1>6. "markCompleted" \in Pcs
    BY DEF Pcs, SagaPcs
<1>7. Backed("markCompleted", t)'
    BY <1>5, <1>6, DataKeepsBacking
<1> QED
    BY <1>1, <1>2, <1>4, <1>6, <1>7, CallReturns, CallGoes DEF PayoutEnds

LEMMA RestStays ==
    ASSUME IInv, TransfersMove, UNCHANGED <<auto, serving, recovery, crashes>>
    PROVE  RestMoves
<1>1. \A t \in Transfers : TransferKeeps(t)
    BY TransfersMoveTyped DEF IInv
<1> QED
    BY <1>1 DEF IInv, TypeOK, RecoveryIsKnown, RestMoves, TransferKeeps

\* A journal of the transfer a handler works for.
LEMMA PostMoves ==
    ASSUME IInv, NEW kind \in Kinds, NEW t \in Transfers,
           MayPost(kind, t), Post(<<kind, t>>, Built(kind, t))
    PROVE  LedgerMoves /\ Posted(<<kind, t>>)'
<1>1. StoreTypeOK /\ <<kind, t>> \in Keys /\ Built(kind, t) \in Seq(Posting)
    BY KeysExist, BuiltIsJournal DEF IInv, TypeOK, StoreTypeOK
<1>2. Posted(<<kind, t>>)'
    BY <1>1, PostAppends
<1> QED
    BY <1>2 DEF LedgerMoves

LEMMA NothingMoves ==
    ASSUME UNCHANGED <<balance, journal, payouts, payments>>
    PROVE  LedgerMoves /\ PayoutsMove /\ PaymentsMove
BY DEF LedgerMoves, ledgerVars, PayoutsMove, PaymentsMove

\* A step that moves only handlers.
LEMMA QuietMoves ==
    ASSUME IInv, UNCHANGED <<balance, journal, payouts, payments>>, UNCHANGED sagaVars,
           CallsMove
    PROVE  Moves
BY NothingMoves, RestStays DEF Moves, TransfersMove, sagaVars

LEMMA QuietIsData ==
    ASSUME UNCHANGED <<balance, journal, payouts, payments>>, UNCHANGED transfers
    PROVE  DataMoves
BY NothingMoves DEF DataMoves, TransfersMove

\* What every action on a handler in flight starts from.
LEMMA InFlight ==
    ASSUME IInv, NEW c \in Calls, calls[c].pc \in Pcs
    PROVE  /\ TypeOK
           /\ calls[c] # Idle
           /\ calls[c].transfer \in Transfers
           /\ calls[c].ref \in Refs
           /\ Backed(calls[c].pc, calls[c].transfer)
BY CallFields DEF IInv, CallsAreBacked

-----------------------------------------------------------------------------
(* Actions of the saga *)

LEMMA DataStepMoves ==
    ASSUME IInv, DataMoves, PaymentsMove, CallsMove,
           UNCHANGED <<auto, serving, recovery, crashes>>
    PROVE  Moves
BY RestStays DEF Moves, DataMoves

LEMMA InitiateMoves ==
    ASSUME IInv, NEW c \in Calls, NEW t \in Transfers, NEW sender \in Customers,
           NEW quote \in Quotes, NEW rail \in Rails \cup {"none"},
           Initiate(c, t, sender, quote, rail)
    PROVE  Moves
<1> DEFINE row == [status |-> "pending", sender |-> sender, quote |-> quote, rail |-> rail]
<1>1. TypeOK
    BY DEF IInv
<1>2. row \in Transfer /\ row.status = "pending" /\ row.quote \in Quotes
    BY TransferSagaAssumption DEF Transfer, TransferStatus
<1>3. transferCreate(t, row) /\ UNCHANGED <<balance, journal, payouts, payments>>
    BY DEF Initiate
<1> HIDE DEF row
<1>4. TransfersMove
    BY <1>2, <1>3 DEF transferCreate, TransfersMove, NewTransfer, ledgerVars
<1>5. transfers'[t] # NoTransfer
    BY <1>1, <1>2, <1>3 DEF transferCreate, TypeOK, NoTransfer
<1>6. "load" \in Pcs /\ Backed("load", t)'
    BY <1>5 DEF Pcs, SagaPcs, PayoutPcs, Backed
<1>7. CallsMove
    <2>1. CASE Starts(c, "load", t, TRUE)
        BY <1>1, <1>6, <2>1, CallBegins
    <2>2. CASE UNCHANGED calls
        BY <1>1, <2>2 DEF CallsMove, TypeOK
    <2> QED
        BY <2>1, <2>2 DEF Initiate
<1> QED
    BY <1>3, <1>4, <1>7, NothingMoves, DataStepMoves DEF DataMoves, Initiate

LEMMA LoadMoves ==
    ASSUME IInv, NEW c \in Calls, Load(c)
    PROVE  Moves
<1>1. calls[c].pc = "load" /\ "load" \in Pcs
    BY DEF Load, At, Pcs, SagaPcs
<1>2. /\ TypeOK /\ calls[c] # Idle /\ calls[c].transfer \in Transfers
      /\ Backed("load", calls[c].transfer) /\ StatusIsBacked
    BY <1>1, InFlight DEF IInv
<1>3. UNCHANGED <<balance, journal, payouts, payments>> /\ UNCHANGED sagaVars
    BY DEF Load
<1>4. PICK t \in Transfers : t = calls[c].transfer
    BY <1>2
<1>5. transfers[t].status \in TransferStatus
    BY <1>2, <1>4, TransferRows DEF Backed
<1>6. ASSUME transfers[t].status # "completed" PROVE CallsMove
    <2>1. GoesTo(c, FirstStep[transfers[t].status])
        BY <1>4, <1>6 DEF Load
    <2>2. PICK pc \in Pcs : pc = FirstStep[transfers[t].status] /\ Backed(pc, t)
        BY <1>2, <1>4, <1>5, <1>6
           DEF FirstStep, TransferStatus, Backed, StatusIsBacked, Pcs, SagaPcs, PayoutPcs
    <2>3. Backed(pc, t)'
        BY <1>3, <2>2, QuietIsData, DataKeepsBacking DEF sagaVars
    <2> QED
        BY <1>2, <1>4, <2>1, <2>2, <2>3, CallGoes
<1>7. ASSUME transfers[t].status = "completed" PROVE CallsMove
    BY <1>2, <1>4, <1>7, CallReturns DEF Load
<1> QED
    BY <1>3, <1>6, <1>7, QuietMoves

LEMMA DebitMoves ==
    ASSUME IInv, NEW c \in Calls, Debit(c)
    PROVE  Moves
<1>1. calls[c].pc = "debit" /\ "debit" \in Pcs /\ "markDebited" \in Pcs
    BY DEF Debit, At, Pcs, SagaPcs, PayoutPcs
<1>2. /\ TypeOK /\ calls[c] # Idle /\ calls[c].transfer \in Transfers
      /\ Backed("debit", calls[c].transfer)
    BY <1>1, InFlight
<1>3. PICK t \in Transfers : t = calls[c].transfer
    BY <1>2
<1>4. UNCHANGED <<payouts, payments>> /\ UNCHANGED sagaVars
    BY DEF Debit
<1>5. PaymentsMove /\ TransfersMove /\ PayoutsMove
    BY <1>4 DEF PaymentsMove, TransfersMove, PayoutsMove, sagaVars
<1>6. MayPost("debit", t) /\ "debit" \in Kinds
    BY <1>2, <1>3 DEF MayPost, Backed, Kinds, PayoutPcs
<1>7. DebitKey(t) = <<"debit", t>>
      /\ Built("debit", t) = transferDebitJournal(transfers[t].sender, transfers[t].quote)
    BY DEF DebitKey, Built
<1>8. \/ Post(DebitKey(t), Built("debit", t)) /\ GoesTo(c, "markDebited")
      \/ Post(DebitKey(t), Built("debit", t)) /\ Returns(c)
      \/ UNCHANGED ledgerVars /\ Returns(c)
    BY <1>3, <1>7 DEF Debit, Posts, Refuse
<1>9. LedgerMoves /\ CallsMove
    <2>1. CASE Returns(c)
        BY <1>2, <1>6, <1>7, <1>8, <2>1, CallReturns, PostMoves DEF LedgerMoves
    <2>2. CASE Post(DebitKey(t), Built("debit", t)) /\ GoesTo(c, "markDebited")
        <3>1. LedgerMoves /\ Posted(DebitKey(t))'
            BY <1>6, <1>7, <2>2, PostMoves
        <3>2. Backed("debit", t)'
            BY <1>1, <1>2, <1>3, <1>5, <3>1, DataKeepsBacking DEF DataMoves
        <3>3. Backed("markDebited", t)'
            BY <3>1, <3>2 DEF Backed, PayoutPcs
        <3> QED
            BY <1>1, <1>2, <1>3, <2>2, <3>1, <3>3, CallGoes
    <2> QED
        BY <1>8, <2>1, <2>2
<1> QED
    BY <1>4, <1>5, <1>9, DataStepMoves DEF DataMoves, sagaVars

LEMMA FxMoves ==
    ASSUME IInv, NEW c \in Calls, Fx(c)
    PROVE  Moves
<1>1. calls[c].pc = "fx" /\ "fx" \in Pcs /\ "markBooked" \in Pcs
    BY DEF Fx, At, Pcs, SagaPcs, PayoutPcs
<1>2. /\ TypeOK /\ calls[c] # Idle /\ calls[c].transfer \in Transfers
      /\ Backed("fx", calls[c].transfer)
    BY <1>1, InFlight
<1>3. PICK t \in Transfers : t = calls[c].transfer
    BY <1>2
<1>4. UNCHANGED <<payouts, payments>> /\ UNCHANGED sagaVars
    BY DEF Fx
<1>5. PaymentsMove /\ TransfersMove /\ PayoutsMove
    BY <1>4 DEF PaymentsMove, TransfersMove, PayoutsMove, sagaVars
<1>6. MayPost("fx", t) /\ "fx" \in Kinds
    BY <1>2, <1>3 DEF MayPost, Backed, Kinds, PayoutPcs
<1>7. FxKey(t) = <<"fx", t>>
      /\ Built("fx", t) = transferFxJournal(transfers[t].quote)
    BY DEF FxKey, Built
<1>8. \/ Post(FxKey(t), Built("fx", t)) /\ GoesTo(c, "markBooked")
      \/ Post(FxKey(t), Built("fx", t)) /\ Returns(c)
      \/ UNCHANGED ledgerVars /\ Returns(c)
    BY <1>3, <1>7 DEF Fx, Posts, Refuse
<1>9. LedgerMoves /\ CallsMove
    <2>1. CASE Returns(c)
        BY <1>2, <1>6, <1>7, <1>8, <2>1, CallReturns, PostMoves DEF LedgerMoves
    <2>2. CASE Post(FxKey(t), Built("fx", t)) /\ GoesTo(c, "markBooked")
        <3>1. LedgerMoves /\ Posted(FxKey(t))'
            BY <1>6, <1>7, <2>2, PostMoves
        <3>2. Backed("fx", t)'
            BY <1>1, <1>2, <1>3, <1>5, <3>1, DataKeepsBacking DEF DataMoves
        <3>3. Backed("markBooked", t)'
            BY <3>1, <3>2 DEF Backed, PayoutPcs
        <3> QED
            BY <1>1, <1>2, <1>3, <2>2, <3>1, <3>3, CallGoes
    <2> QED
        BY <1>8, <2>1, <2>2
<1> QED
    BY <1>4, <1>5, <1>9, DataStepMoves DEF DataMoves, sagaVars

LEMMA MarkDebitedMoves ==
    ASSUME IInv, NEW c \in Calls, MarkDebited(c)
    PROVE  Moves
<1>1. calls[c].pc = "markDebited" /\ "markDebited" \in Pcs
    BY DEF MarkDebited, At, Pcs, SagaPcs
<1>2. /\ TypeOK /\ calls[c] # Idle /\ calls[c].transfer \in Transfers
      /\ Backed("markDebited", calls[c].transfer)
    BY <1>1, InFlight
<1>3. PICK t \in Transfers : t = calls[c].transfer
    BY <1>2
<1>4. StatusMayBe(t, "debited") /\ "debited" \in TransferStatus
    BY <1>2, <1>3 DEF StatusMayBe, Backed, TransferStatus
<1>5. /\ transfers' = [transfers EXCEPT ![t].status = "debited"]
      /\ GoesTo(c, "fx") \/ Returns(c)
      /\ UNCHANGED <<balance, journal, payouts, payments>>
      /\ UNCHANGED <<auto, serving, recovery, crashes>>
    BY <1>3 DEF MarkDebited, RunMarks
<1>6. DataMoves /\ PaymentsMove
    BY <1>4, <1>5, NothingMoves DEF DataMoves, TransfersMove
<1>7. CallsMove
    <2>1. CASE Returns(c)
        BY <1>2, <2>1, CallReturns
    <2>2. CASE GoesTo(c, "fx")
        <3>1. "fx" \in Pcs /\ Backed("fx", t)
            BY <1>2, <1>3 DEF Backed, Pcs, SagaPcs, PayoutPcs
        <3>2. Backed("fx", t)'
            BY <1>6, <3>1, DataKeepsBacking
        <3> QED
            BY <1>2, <1>3, <2>2, <3>1, <3>2, CallGoes
    <2> QED
        BY <1>5, <2>1, <2>2
<1> QED
    BY <1>5, <1>6, <1>7, DataStepMoves

LEMMA MarkBookedMoves ==
    ASSUME IInv, NEW c \in Calls, MarkBooked(c)
    PROVE  Moves
<1>1. calls[c].pc = "markBooked" /\ "markBooked" \in Pcs
    BY DEF MarkBooked, At, Pcs, SagaPcs
<1>2. /\ TypeOK /\ calls[c] # Idle /\ calls[c].transfer \in Transfers
      /\ Backed("markBooked", calls[c].transfer)
    BY <1>1, InFlight
<1>3. PICK t \in Transfers : t = calls[c].transfer
    BY <1>2
<1>4. StatusMayBe(t, "fx_booked") /\ "fx_booked" \in TransferStatus
    BY <1>2, <1>3 DEF StatusMayBe, Backed, TransferStatus
<1>5. /\ transfers' = [transfers EXCEPT ![t].status = "fx_booked"]
      /\ GoesTo(c, "payout") \/ Returns(c)
      /\ UNCHANGED <<balance, journal, payouts, payments>>
      /\ UNCHANGED <<auto, serving, recovery, crashes>>
    BY <1>3 DEF MarkBooked, RunMarks
<1>6. DataMoves /\ PaymentsMove
    BY <1>4, <1>5, NothingMoves DEF DataMoves, TransfersMove
<1>7. CallsMove
    <2>1. CASE Returns(c)
        BY <1>2, <2>1, CallReturns
    <2>2. CASE GoesTo(c, "payout")
        <3>1. "payout" \in Pcs /\ Backed("payout", t)
            BY <1>2, <1>3 DEF Backed, Pcs, SagaPcs, PayoutPcs
        <3>2. Backed("payout", t)'
            BY <1>6, <3>1, DataKeepsBacking
        <3> QED
            BY <1>2, <1>3, <2>2, <3>1, <3>2, CallGoes
    <2> QED
        BY <1>5, <2>1, <2>2
<1> QED
    BY <1>5, <1>6, <1>7, DataStepMoves

LEMMA MarkCompletedMoves ==
    ASSUME IInv, NEW c \in Calls, MarkCompleted(c)
    PROVE  Moves
<1>1. calls[c].pc = "markCompleted" /\ "markCompleted" \in Pcs
    BY DEF MarkCompleted, At, Pcs, SagaPcs
<1>2. /\ TypeOK /\ calls[c] # Idle /\ calls[c].transfer \in Transfers
      /\ Backed("markCompleted", calls[c].transfer)
    BY <1>1, InFlight
<1>3. PICK t \in Transfers : t = calls[c].transfer
    BY <1>2
<1>4. StatusMayBe(t, "completed") /\ "completed" \in TransferStatus
    BY <1>2, <1>3 DEF StatusMayBe, Backed, TransferStatus
<1>5. /\ transfers' = [transfers EXCEPT ![t].status = "completed"]
      /\ Returns(c) \/ Returns(c)
      /\ UNCHANGED <<balance, journal, payouts, payments>>
      /\ UNCHANGED <<auto, serving, recovery, crashes>>
    BY <1>3 DEF MarkCompleted, RunMarks
<1>6. DataMoves /\ PaymentsMove
    BY <1>4, <1>5, NothingMoves DEF DataMoves, TransfersMove
<1>7. CallsMove
    BY <1>2, <1>5, CallReturns
<1> QED
    BY <1>5, <1>6, <1>7, DataStepMoves

LEMMA CreatePayoutMoves ==
    ASSUME IInv, NEW c \in Calls, NEW fee \in ProviderFees, CreatePayout(c, fee)
    PROVE  Moves
<1>1. calls[c].pc = "payout" /\ "payout" \in Pcs /\ "auto" \in Pcs
    BY DEF CreatePayout, At, Pcs, SagaPcs
<1>2. /\ TypeOK /\ calls[c] # Idle /\ calls[c].transfer \in Transfers
      /\ Backed("payout", calls[c].transfer)
    BY <1>1, InFlight
<1>3. PICK t \in Transfers : t = calls[c].transfer
    BY <1>2
<1> DEFINE row == [status |-> "created", sender |-> transfers[t].sender,
                   quote |-> transfers[t].quote, providerFee |-> fee, ref |-> NoRef]
<1>4. transfers[t] # NoTransfer /\ Posted(FxKey(t))
    BY <1>2, <1>3 DEF Backed, PayoutPcs
<1>5. /\ row \in Payout /\ row.status = "created"
      /\ row.sender = transfers[t].sender /\ row.quote = transfers[t].quote
    <2>1. transfers[t].sender \in Customers /\ transfers[t].quote \in Quote
        BY <1>2, <1>4, TransferRows
    <2>2. fee \in Int
        BY TransferSagaAssumption
    <2> QED
        BY <2>1, <2>2 DEF Payout, PayoutStatus, Refs
<1>6. payoutCreate(t, row)
    BY <1>3 DEF CreatePayout
<1> HIDE DEF row
<1>7. PayoutsMove
    BY <1>4, <1>5, <1>6 DEF payoutCreate, PayoutsMove, NewPayout, Exists
<1>8. /\ UNCHANGED <<balance, journal, payments>> /\ UNCHANGED sagaVars
      /\ GoesTo(c, "auto") \/ Returns(c)
    BY DEF CreatePayout
<1>9. LedgerMoves /\ TransfersMove /\ PaymentsMove
    BY <1>8 DEF LedgerMoves, ledgerVars, TransfersMove, PaymentsMove, sagaVars
<1>10. row # NoPayout
    BY <1>5 DEF NoPayout
<1>11. Exists(t)'
    BY <1>2, <1>6, <1>10 DEF payoutCreate, Exists, TypeOK
<1>12. CallsMove
    <2>1. CASE Returns(c)
        BY <1>2, <2>1, CallReturns
    <2>2. CASE GoesTo(c, "auto")
        <3>1. Backed("payout", t)'
            BY <1>1, <1>2, <1>3, <1>7, <1>9, DataKeepsBacking DEF DataMoves
        <3>2. Backed("auto", t)'
            BY <1>11, <3>1 DEF Backed, PayoutPcs
        <3> QED
            BY <1>1, <1>2, <1>3, <2>2, <3>2, CallGoes
    <2> QED
        BY <1>8, <2>1, <2>2
<1> QED
    BY <1>7, <1>8, <1>9, <1>12, DataStepMoves DEF DataMoves, sagaVars

LEMMA AutoDisburseMoves ==
    ASSUME IInv, NEW c \in Calls, AutoDisburse(c)
    PROVE  Moves
<1>1. /\ calls[c].pc = "auto" /\ "auto" \in Pcs
      /\ "submit" \in Pcs /\ "markCompleted" \in Pcs
    BY DEF AutoDisburse, At, Pcs, SagaPcs, PayoutPcs
<1>2. /\ TypeOK /\ calls[c] # Idle /\ calls[c].transfer \in Transfers
      /\ Backed("auto", calls[c].transfer)
    BY <1>1, InFlight
<1>3. PICK t \in Transfers : t = calls[c].transfer
    BY <1>2
<1>4. /\ UNCHANGED <<balance, journal, payouts, payments>> /\ UNCHANGED sagaVars
      /\ GoesTo(c, "submit") \/ GoesTo(c, "markCompleted")
    BY DEF AutoDisburse
<1>5. Backed("submit", t) /\ Backed("markCompleted", t)
    BY <1>2, <1>3 DEF Backed, PayoutPcs
<1>6. Backed("submit", t)' /\ Backed("markCompleted", t)'
    BY <1>1, <1>4, <1>5, QuietIsData, DataKeepsBacking DEF sagaVars
<1>7. CallsMove
    BY <1>1, <1>2, <1>3, <1>4, <1>6, CallGoes
<1> QED
    BY <1>4, <1>7, QuietMoves

LEMMA RunFailsMoves ==
    ASSUME IInv, NEW c \in Calls, RunFails(c)
    PROVE  Moves
BY CallReturns, QuietMoves DEF RunFails, IInv

LEMMA RecoverMoves ==
    ASSUME IInv, NEW c \in Calls, NEW t \in Transfers, Recover(c, t)
    PROVE  Moves
<1>1. /\ UNCHANGED <<balance, journal, payouts, payments>>
      /\ UNCHANGED <<transfers, auto, serving, crashes>>
      /\ Starts(c, "load", t, TRUE) /\ t \in recovery /\ recovery' = recovery \ {t}
    BY DEF Recover
<1>2. Backed("load", t) /\ "load" \in Pcs
    BY <1>1 DEF IInv, RecoveryIsKnown, Backed, Pcs, SagaPcs, PayoutPcs
<1>3. Backed("load", t)'
    BY <1>1, <1>2, QuietIsData, DataKeepsBacking
<1>4. CallsMove
    BY <1>1, <1>2, <1>3, CallBegins DEF IInv
<1>5. RestMoves
    BY <1>1 DEF IInv, TypeOK, RecoveryIsKnown, RestMoves
<1> QED
    BY <1>1, <1>4, <1>5, NothingMoves DEF Moves, TransfersMove

LEMMA CrashMoves ==
    ASSUME IInv, Crash
    PROVE  Moves
<1>1. /\ UNCHANGED <<balance, journal, payouts, payments>>
      /\ UNCHANGED <<transfers, auto>>
      /\ calls' = [c \in Calls |-> Idle] /\ recovery' = listIncomplete
      /\ serving' = FALSE /\ crashes' = crashes + 1
    BY DEF Crash
<1>2. CallsMove
    BY <1>1 DEF CallsMove, CallState
<1>3. \A t \in listIncomplete : t \in Transfers /\ transfers[t] # NoTransfer
    <2>1. ASSUME NEW t \in listIncomplete
          PROVE  t \in Transfers /\ transfers[t].status \in TransferStatus
        BY DEF listIncomplete
    <2> QED
        BY <2>1, TransferRows DEF IInv
<1>4. RestMoves
    <2>1. auto \subseteq Rails /\ crashes \in Nat
        BY DEF IInv, TypeOK
    <2>2. auto' \subseteq Rails /\ crashes' \in Nat
        BY <1>1, <2>1
    <2>3. recovery' \subseteq Transfers /\ \A t \in recovery' : transfers'[t] # NoTransfer
        BY <1>1, <1>3
    <2>4. serving' \in BOOLEAN
        BY <1>1
    <2> QED
        BY <2>2, <2>3, <2>4 DEF RestMoves
<1>5. LedgerMoves /\ PayoutsMove /\ PaymentsMove /\ TransfersMove
    BY <1>1, NothingMoves DEF TransfersMove
<1> QED
    BY <1>2, <1>4, <1>5 DEF Moves

LEMMA SettingsMove ==
    ASSUME IInv, Listen \/ \E rails \in SUBSET Rails : SetAuto(rails)
    PROVE  Moves
<1>1. /\ UNCHANGED <<balance, journal, payouts, payments, calls>>
      /\ UNCHANGED <<transfers, recovery, crashes>>
      /\ auto' \subseteq Rails /\ serving' \in BOOLEAN
    BY DEF Listen, SetAuto, IInv, TypeOK
<1>2. CallsMove
    BY <1>1 DEF CallsMove, IInv, TypeOK
<1>3. RestMoves
    BY <1>1 DEF IInv, TypeOK, RecoveryIsKnown, RestMoves
<1> QED
    BY <1>1, <1>2, <1>3, NothingMoves DEF Moves, TransfersMove

-----------------------------------------------------------------------------
(* Actions of the payout service; here a step leaves the saga's rows alone *)

\* A step that only moves a payout handler on, to a step that rests on no more.
LEMMA PayoutQuietMoves ==
    ASSUME IInv, NEW c \in Calls, calls[c].pc \in PayoutPcs,
           UNCHANGED <<balance, journal, payouts, payments>>, UNCHANGED sagaVars,
           NEW pc \in PayoutPcs \ {"markSettled", "reverseDebit", "markReversed"},
           \/ PayoutEnds(c)
           \/ GoesTo(c, pc)
           \/ \E ref \in Refs : calls' = [calls EXCEPT ![c].pc = pc, ![c].ref = ref]
    PROVE  Moves
<1>1. /\ TypeOK /\ calls[c] # Idle /\ calls[c].transfer \in Transfers
      /\ Backed(calls[c].pc, calls[c].transfer)
    BY InFlight DEF Pcs
<1>2. PICK t \in Transfers : t = calls[c].transfer
    BY <1>1
<1>3. Backed(pc, t) /\ pc \in Pcs
    BY <1>1, <1>2 DEF Backed, PayoutPcs, Pcs
<1>4. DataMoves
    BY QuietIsData DEF sagaVars
<1>5. Backed(pc, t)'
    BY <1>3, <1>4, DataKeepsBacking
<1>6. CallsMove
    <2>1. CASE PayoutEnds(c)
        BY <1>4, <2>1, PayoutCallEnds
    <2>2. CASE GoesTo(c, pc)
        BY <1>1, <1>2, <1>3, <1>5, <2>2, CallGoes
    <2>3. ASSUME NEW ref \in Refs, calls' = [calls EXCEPT ![c].pc = pc, ![c].ref = ref]
          PROVE  CallsMove
        BY <1>1, <1>2, <1>3, <1>5, <2>3, CallGoesWith
    <2> QED
        BY <2>1, <2>2, <2>3
<1> QED
    BY <1>6, QuietMoves

LEMMA LookupsMove ==
    ASSUME IInv, NEW c \in Calls, UNCHANGED sagaVars,
           Submit(c) \/ NoteError(c) \/ Sync(c) \/ Poll(c) \/ PayoutCallFails(c)
    PROVE  Moves
<1>1. UNCHANGED <<balance, journal, payouts, payments>> /\ calls[c].pc \in PayoutPcs
    BY DEF Submit, NoteError, Sync, Poll, PayoutCallFails, At, PayoutPcs
<1> DEFINE Plain == PayoutPcs \ {"markSettled", "reverseDebit", "markReversed"}
<1>2. /\ "send" \in Plain /\ "sync" \in Plain /\ "poll" \in Plain
      /\ "settle" \in Plain /\ "reverseFx" \in Plain
    BY DEF PayoutPcs
<1>9. ASSUME PayoutEnds(c) PROVE Moves
    BY <1>1, <1>2, <1>9, PayoutQuietMoves
<1>10. ASSUME NEW pc \in Plain, GoesTo(c, pc) PROVE Moves
    BY <1>1, <1>10, PayoutQuietMoves
<1> HIDE DEF Plain
<1>3. CASE Submit(c)
    <2>1. PayoutEnds(c) \/ GoesTo(c, "send") \/ GoesTo(c, "sync")
        BY <1>3 DEF Submit, AfterSubmit
    <2> QED
        BY <1>2, <1>9, <1>10, <2>1
<1>4. CASE NoteError(c)
    <2>1. PayoutEnds(c) \/ GoesTo(c, "sync")
        BY <1>4 DEF NoteError, AfterSubmit
    <2> QED
        BY <1>2, <1>9, <1>10, <2>1
<1>5. CASE Sync(c)
    <2> DEFINE row == payouts[calls[c].transfer]
    <2>1. \/ PayoutEnds(c)
          \/ /\ row.status = "submitted"
             /\ calls' = [calls EXCEPT ![c].pc = "poll", ![c].ref = row.ref]
        BY <1>5 DEF Sync
    <2>2. CASE PayoutEnds(c)
        BY <1>9, <2>2
    <2>3. CASE row.status = "submitted" /\ calls' = [calls EXCEPT ![c].pc = "poll", ![c].ref = row.ref]
        <3>1. TypeOK /\ calls[c].transfer \in Transfers
            BY <1>1, InFlight DEF Pcs
        <3>2. row \in Payout
            BY <2>3, <3>1, PayoutRows DEF PayoutStatus
        <3>3. row.ref \in Refs
            BY <3>2 DEF Payout
        <3> HIDE DEF row
        <3> QED
            BY <1>1, <1>2, <2>3, <3>3, PayoutQuietMoves DEF Plain
    <2> QED
        BY <2>1, <2>2, <2>3
<1>6. CASE Poll(c)
    <2>1. PayoutEnds(c) \/ GoesTo(c, "settle") \/ GoesTo(c, "reverseFx")
        BY <1>6 DEF Poll
    <2> QED
        BY <1>2, <1>9, <1>10, <2>1
<1>7. CASE PayoutCallFails(c)
    BY <1>7, <1>9 DEF PayoutCallFails
<1> QED
    BY <1>3, <1>4, <1>5, <1>6, <1>7

LEMMA SendMoves ==
    ASSUME IInv, NEW c \in Calls, Send(c), UNCHANGED sagaVars
    PROVE  Moves
<1>1. /\ calls[c].pc = "send" /\ "send" \in Pcs
      /\ "markSubmitted" \in Pcs /\ "noteError" \in Pcs
    BY DEF Send, At, Pcs, SagaPcs, PayoutPcs
<1>2. /\ TypeOK /\ calls[c] # Idle /\ calls[c].transfer \in Transfers
      /\ Backed("send", calls[c].transfer)
    BY <1>1, InFlight
<1>3. PICK t \in Transfers : t = calls[c].transfer
    BY <1>2
<1>4. Exists(t) /\ Backed("markSubmitted", t) /\ Backed("noteError", t)
    BY <1>2, <1>3 DEF Backed, PayoutPcs
<1>5. UNCHANGED <<balance, journal, payouts>>
    BY DEF Send
<1>6. DataMoves
    BY <1>5 DEF DataMoves, LedgerMoves, ledgerVars, TransfersMove, PayoutsMove, sagaVars
<1>7. Backed("markSubmitted", t)' /\ Backed("noteError", t)'
    BY <1>1, <1>4, <1>6, DataKeepsBacking
<1>8. PaymentsMove
    <2>1. \/ UNCHANGED payments
          \/ \E n \in 1..MaxSends, state \in {"paid", "pending", "failed"} :
                payments' = [payments EXCEPT ![t][n] = state]
        BY <1>3 DEF Send
    <2> QED
        BY <1>4, <2>1 DEF PaymentsMove, PaymentState
<1>9. CallsMove
    <2>1. \/ GoesTo(c, "noteError")
          \/ \E n \in 1..MaxSends :
                calls' = [calls EXCEPT ![c].pc = "markSubmitted", ![c].ref = n]
        BY DEF Send
    <2>2. CASE GoesTo(c, "noteError")
        BY <1>1, <1>2, <1>3, <1>7, <2>2, CallGoes
    <2>3. ASSUME NEW n \in 1..MaxSends,
                 calls' = [calls EXCEPT ![c].pc = "markSubmitted", ![c].ref = n]
          PROVE  CallsMove
        <3>1. n \in Refs
            BY DEF Refs
        <3> QED
            BY <1>1, <1>2, <1>3, <1>7, <2>3, <3>1, CallGoesWith
    <2> QED
        BY <2>1, <2>2, <2>3
<1> QED
    BY <1>6, <1>8, <1>9, DataStepMoves DEF sagaVars

\* A step that writes a payout's status or reference.
LEMMA PayoutDataMoves ==
    ASSUME IInv, NEW t \in Transfers, NEW status, NEW ref \in Refs, PayoutMayBe(t, status),
           \/ payouts' = [payouts EXCEPT ![t].status = status]
           \/ payouts' = [payouts EXCEPT ![t].status = status, ![t].ref = ref],
           UNCHANGED <<balance, journal, payments>>, UNCHANGED sagaVars
    PROVE  DataMoves /\ PaymentsMove
<1>1. payouts[t] \in Payout /\ status \in PayoutStatus
    BY PayoutRows DEF PayoutMayBe, IInv
<1>2. ASSUME payouts' = [payouts EXCEPT ![t].status = status]
      PROVE  PayoutsMove
    <2> DEFINE row == [payouts[t] EXCEPT !.status = status]
    <2>1. /\ row \in Payout /\ row.status = status
          /\ row.sender = payouts[t].sender /\ row.quote = payouts[t].quote
          /\ row.providerFee = payouts[t].providerFee
        BY <1>1 DEF Payout
    <2>2. payouts' = [payouts EXCEPT ![t] = row]
        BY <1>2
    <2> HIDE DEF row
    <2> QED
        BY <2>1, <2>2 DEF PayoutsMove, SamePayout
<1>3. ASSUME payouts' = [payouts EXCEPT ![t].status = status, ![t].ref = ref]
      PROVE  PayoutsMove
    <2> DEFINE row == [payouts[t] EXCEPT !.status = status, !.ref = ref]
    <2>1. /\ row \in Payout /\ row.status = status
          /\ row.sender = payouts[t].sender /\ row.quote = payouts[t].quote
          /\ row.providerFee = payouts[t].providerFee
        BY <1>1 DEF Payout
    <2>2. payouts' = [payouts EXCEPT ![t] = row]
        BY <1>3 DEF IInv, TypeOK
    <2> HIDE DEF row
    <2> QED
        BY <2>1, <2>2 DEF PayoutsMove, SamePayout
<1>4. LedgerMoves /\ TransfersMove /\ PaymentsMove
    BY DEF LedgerMoves, ledgerVars, TransfersMove, PaymentsMove, sagaVars
<1> QED
    BY <1>2, <1>3, <1>4 DEF DataMoves

LEMMA MarkSubmittedMoves ==
    ASSUME IInv, NEW c \in Calls, MarkSubmitted(c), UNCHANGED sagaVars
    PROVE  Moves
<1>1. /\ calls[c].pc = "markSubmitted" /\ "markSubmitted" \in PayoutPcs
      /\ "markSubmitted" \in Pcs /\ "sync" \in Pcs
    BY DEF MarkSubmitted, At, Pcs, PayoutPcs
<1>2. /\ TypeOK /\ calls[c] # Idle /\ calls[c].transfer \in Transfers
      /\ calls[c].ref \in Refs /\ Backed("markSubmitted", calls[c].transfer)
    BY <1>1, InFlight
<1>3. PICK t \in Transfers : t = calls[c].transfer
    BY <1>2
<1>4. PayoutMayBe(t, "submitted") /\ Backed("sync", t)
    BY <1>2, <1>3 DEF PayoutMayBe, PayoutStatus, Backed, PayoutPcs
<1>5. /\ payouts' = [payouts EXCEPT ![t].status = "submitted", ![t].ref = calls[c].ref]
      /\ UNCHANGED <<balance, journal, payments>>
      /\ GoesTo(c, "sync") \/ PayoutEnds(c)
    BY <1>3 DEF MarkSubmitted, AfterSubmit
<1>6. DataMoves /\ PaymentsMove
    BY <1>2, <1>4, <1>5, PayoutDataMoves
<1>7. Backed("sync", t)'
    BY <1>1, <1>4, <1>6, DataKeepsBacking
<1>8. CallsMove
    BY <1>1, <1>2, <1>3, <1>5, <1>6, <1>7, CallGoes, PayoutCallEnds
<1> QED
    BY <1>6, <1>8, DataStepMoves DEF sagaVars

LEMMA NoteRefMoves ==
    ASSUME IInv, NEW c \in Calls, NoteRef(c), UNCHANGED sagaVars
    PROVE  Moves
<1>1. /\ calls[c].pc = "noteRef" /\ "noteRef" \in PayoutPcs
      /\ "noteRef" \in Pcs /\ "settle" \in Pcs
    BY DEF NoteRef, At, Pcs, PayoutPcs
<1>2. /\ TypeOK /\ calls[c] # Idle /\ calls[c].transfer \in Transfers
      /\ Backed("noteRef", calls[c].transfer)
    BY <1>1, InFlight
<1>3. PICK t \in Transfers : t = calls[c].transfer
    BY <1>2
<1>4. Exists(t) /\ Backed("settle", t)
    BY <1>2, <1>3 DEF Backed, PayoutPcs
<1>5. /\ payouts' = [payouts EXCEPT ![t].ref = OperatorRef]
      /\ UNCHANGED <<balance, journal, payments>>
      /\ GoesTo(c, "settle") \/ PayoutEnds(c)
    BY <1>3 DEF NoteRef
<1>6. PayoutsMove
    <2> DEFINE row == [payouts[t] EXCEPT !.ref = OperatorRef]
    <2>1. payouts[t] \in Payout /\ payouts[t].status \in PayoutStatus
        BY <1>2, <1>4, PayoutRows
    <2>2. /\ row \in Payout /\ row.status = payouts[t].status
          /\ row.sender = payouts[t].sender /\ row.quote = payouts[t].quote
          /\ row.providerFee = payouts[t].providerFee
        BY <2>1 DEF Payout, Refs
    <2>3. payouts' = [payouts EXCEPT ![t] = row]
        BY <1>5
    <2> HIDE DEF row
    <2> QED
        BY <1>4, <2>1, <2>2, <2>3 DEF PayoutsMove, SamePayout, PayoutMayBe
<1>7. DataMoves /\ PaymentsMove
    BY <1>5, <1>6
       DEF DataMoves, LedgerMoves, ledgerVars, TransfersMove, PaymentsMove, sagaVars
<1>8. Backed("settle", t)'
    BY <1>1, <1>4, <1>7, DataKeepsBacking
<1>9. CallsMove
    BY <1>1, <1>2, <1>3, <1>5, <1>7, <1>8, CallGoes, PayoutCallEnds
<1> QED
    BY <1>7, <1>9, DataStepMoves DEF sagaVars

LEMMA MarkSettledMoves ==
    ASSUME IInv, NEW c \in Calls, MarkSettled(c), UNCHANGED sagaVars
    PROVE  Moves
<1>1. calls[c].pc = "markSettled" /\ "markSettled" \in PayoutPcs /\ "markSettled" \in Pcs
    BY DEF MarkSettled, At, Pcs, PayoutPcs
<1>2. /\ TypeOK /\ calls[c].transfer \in Transfers /\ calls[c].ref \in Refs
      /\ Backed("markSettled", calls[c].transfer)
    BY <1>1, InFlight
<1>3. PICK t \in Transfers : t = calls[c].transfer
    BY <1>2
<1>4. PayoutMayBe(t, "settled")
    BY <1>2, <1>3 DEF PayoutMayBe, PayoutStatus, Backed, PayoutPcs
<1>5. /\ payouts' = [payouts EXCEPT ![t].status = "settled"]
      /\ UNCHANGED <<balance, journal, payments>> /\ PayoutEnds(c)
    BY <1>3 DEF MarkSettled, Marks
<1>6. DataMoves /\ PaymentsMove
    BY <1>2, <1>4, <1>5, PayoutDataMoves
<1>7. CallsMove
    BY <1>1, <1>5, <1>6, PayoutCallEnds
<1> QED
    BY <1>6, <1>7, DataStepMoves DEF sagaVars

LEMMA MarkReversedMoves ==
    ASSUME IInv, NEW c \in Calls, MarkReversed(c), UNCHANGED sagaVars
    PROVE  Moves
<1>1. calls[c].pc = "markReversed" /\ "markReversed" \in PayoutPcs /\ "markReversed" \in Pcs
    BY DEF MarkReversed, At, Pcs, PayoutPcs
<1>2. /\ TypeOK /\ calls[c].transfer \in Transfers /\ calls[c].ref \in Refs
      /\ Backed("markReversed", calls[c].transfer)
    BY <1>1, InFlight
<1>3. PICK t \in Transfers : t = calls[c].transfer
    BY <1>2
<1>4. PayoutMayBe(t, "reversed")
    BY <1>2, <1>3 DEF PayoutMayBe, PayoutStatus, Backed, PayoutPcs
<1>5. /\ payouts' = [payouts EXCEPT ![t].status = "reversed"]
      /\ UNCHANGED <<balance, journal, payments>> /\ PayoutEnds(c)
    BY <1>3 DEF MarkReversed, Marks
<1>6. DataMoves /\ PaymentsMove
    BY <1>2, <1>4, <1>5, PayoutDataMoves
<1>7. CallsMove
    BY <1>1, <1>5, <1>6, PayoutCallEnds
<1> QED
    BY <1>6, <1>7, DataStepMoves DEF sagaVars

LEMMA SettleMoves ==
    ASSUME IInv, NEW c \in Calls, Settle(c), UNCHANGED sagaVars
    PROVE  Moves
<1>1. /\ calls[c].pc = "settle" /\ "settle" \in PayoutPcs
      /\ "settle" \in Pcs /\ "markSettled" \in Pcs
    BY DEF Settle, At, Pcs, PayoutPcs
<1>2. /\ TypeOK /\ calls[c] # Idle /\ calls[c].transfer \in Transfers
      /\ Backed("settle", calls[c].transfer)
    BY <1>1, InFlight
<1>3. PICK t \in Transfers : t = calls[c].transfer
    BY <1>2
<1>4. /\ Exists(t) /\ transfers[t] # NoTransfer
      /\ payouts[t].sender = transfers[t].sender /\ payouts[t].quote = transfers[t].quote
    BY <1>2, <1>3 DEF Backed, PayoutPcs, IInv, PayoutsAreBooked
<1>5. PaymentsMove /\ TransfersMove /\ PayoutsMove
    BY DEF Settle, PaymentsMove, TransfersMove, PayoutsMove, sagaVars
<1>6. /\ SettleKey(t) = <<"settle", t>>
      /\ Built("settle", t) = settlePayout(transfers[t].quote.to, transfers[t].quote.receive, payouts[t].providerFee)
    BY DEF SettleKey, Built
<1>7. \/ /\ MayPost("settle", t)
         /\ Post(SettleKey(t), Built("settle", t))
         /\ GoesTo(c, "markSettled") \/ PayoutEnds(c)
      \/ UNCHANGED ledgerVars /\ PayoutEnds(c)
    BY <1>2, <1>3, <1>4, <1>6 DEF Settle, Posts, Refuse, MayPost, Backed
<1>8. CASE UNCHANGED ledgerVars /\ PayoutEnds(c)
    <2>1. DataMoves
        BY <1>5, <1>8 DEF DataMoves, LedgerMoves
    <2>2. CallsMove
        BY <1>1, <1>8, <2>1, PayoutCallEnds
    <2> QED
        BY <1>5, <2>1, <2>2, DataStepMoves DEF sagaVars
<1>9. CASE /\ MayPost("settle", t)
           /\ Post(SettleKey(t), Built("settle", t))
           /\ GoesTo(c, "markSettled") \/ PayoutEnds(c)
    <2>1. LedgerMoves /\ Posted(SettleKey(t))'
        BY <1>6, <1>9, PostMoves DEF Kinds
    <2>2. DataMoves
        BY <1>5, <2>1 DEF DataMoves
    <2>3. Backed("settle", t)'
        BY <1>1, <1>2, <1>3, <2>2, DataKeepsBacking
    <2>4. Backed("markSettled", t)'
        BY <2>1, <2>3 DEF Backed, PayoutPcs
    <2>5. CallsMove
        BY <1>1, <1>2, <1>3, <1>9, <2>2, <2>4, CallGoes, PayoutCallEnds
    <2> QED
        BY <1>5, <2>2, <2>5, DataStepMoves DEF sagaVars
<1> QED
    BY <1>7, <1>8, <1>9

LEMMA ReverseFxMoves ==
    ASSUME IInv, NEW c \in Calls, ReverseFx(c), UNCHANGED sagaVars
    PROVE  Moves
<1>1. /\ calls[c].pc = "reverseFx" /\ "reverseFx" \in PayoutPcs
      /\ "reverseFx" \in Pcs /\ "reverseDebit" \in Pcs
    BY DEF ReverseFx, At, Pcs, PayoutPcs
<1>2. /\ TypeOK /\ calls[c] # Idle /\ calls[c].transfer \in Transfers
      /\ Backed("reverseFx", calls[c].transfer)
    BY <1>1, InFlight
<1>3. PICK t \in Transfers : t = calls[c].transfer
    BY <1>2
<1>4. /\ Exists(t) /\ transfers[t] # NoTransfer
      /\ payouts[t].sender = transfers[t].sender /\ payouts[t].quote = transfers[t].quote
    BY <1>2, <1>3 DEF Backed, PayoutPcs, IInv, PayoutsAreBooked
<1>5. PaymentsMove /\ TransfersMove /\ PayoutsMove
    BY DEF ReverseFx, PaymentsMove, TransfersMove, PayoutsMove, sagaVars
<1>6. /\ ReversalFxKey(t) = <<"reversal_fx", t>>
      /\ Built("reversal_fx", t) = reverseTransferFx(transfers[t].quote)
    BY DEF ReversalFxKey, Built
<1>7. \/ /\ MayPost("reversal_fx", t)
         /\ Post(ReversalFxKey(t), Built("reversal_fx", t))
         /\ GoesTo(c, "reverseDebit") \/ PayoutEnds(c)
      \/ UNCHANGED ledgerVars /\ PayoutEnds(c)
    BY <1>2, <1>3, <1>4, <1>6 DEF ReverseFx, Posts, Refuse, MayPost, Backed
<1>8. CASE UNCHANGED ledgerVars /\ PayoutEnds(c)
    <2>1. DataMoves
        BY <1>5, <1>8 DEF DataMoves, LedgerMoves
    <2>2. CallsMove
        BY <1>1, <1>8, <2>1, PayoutCallEnds
    <2> QED
        BY <1>5, <2>1, <2>2, DataStepMoves DEF sagaVars
<1>9. CASE /\ MayPost("reversal_fx", t)
           /\ Post(ReversalFxKey(t), Built("reversal_fx", t))
           /\ GoesTo(c, "reverseDebit") \/ PayoutEnds(c)
    <2>1. LedgerMoves /\ Posted(ReversalFxKey(t))'
        BY <1>6, <1>9, PostMoves DEF Kinds
    <2>2. DataMoves
        BY <1>5, <2>1 DEF DataMoves
    <2>3. Backed("reverseFx", t)'
        BY <1>1, <1>2, <1>3, <2>2, DataKeepsBacking
    <2>4. Backed("reverseDebit", t)'
        BY <2>1, <2>3 DEF Backed, PayoutPcs
    <2>5. CallsMove
        BY <1>1, <1>2, <1>3, <1>9, <2>2, <2>4, CallGoes, PayoutCallEnds
    <2> QED
        BY <1>5, <2>2, <2>5, DataStepMoves DEF sagaVars
<1> QED
    BY <1>7, <1>8, <1>9

LEMMA ReverseDebitMoves ==
    ASSUME IInv, NEW c \in Calls, ReverseDebit(c), UNCHANGED sagaVars
    PROVE  Moves
<1>1. /\ calls[c].pc = "reverseDebit" /\ "reverseDebit" \in PayoutPcs
      /\ "reverseDebit" \in Pcs /\ "markReversed" \in Pcs
    BY DEF ReverseDebit, At, Pcs, PayoutPcs
<1>2. /\ TypeOK /\ calls[c] # Idle /\ calls[c].transfer \in Transfers
      /\ Backed("reverseDebit", calls[c].transfer)
    BY <1>1, InFlight
<1>3. PICK t \in Transfers : t = calls[c].transfer
    BY <1>2
<1>4. /\ Exists(t) /\ transfers[t] # NoTransfer
      /\ payouts[t].sender = transfers[t].sender /\ payouts[t].quote = transfers[t].quote
    BY <1>2, <1>3 DEF Backed, PayoutPcs, IInv, PayoutsAreBooked
<1>5. PaymentsMove /\ TransfersMove /\ PayoutsMove
    BY DEF ReverseDebit, PaymentsMove, TransfersMove, PayoutsMove, sagaVars
<1>6. /\ ReversalDebitKey(t) = <<"reversal_debit", t>>
      /\ Built("reversal_debit", t) = reverseTransferDebit(transfers[t].sender, transfers[t].quote)
    BY DEF ReversalDebitKey, Built
<1>7. \/ /\ MayPost("reversal_debit", t)
         /\ Post(ReversalDebitKey(t), Built("reversal_debit", t))
         /\ GoesTo(c, "markReversed") \/ PayoutEnds(c)
      \/ UNCHANGED ledgerVars /\ PayoutEnds(c)
    BY <1>2, <1>3, <1>4, <1>6 DEF ReverseDebit, Posts, Refuse, MayPost, Backed
<1>8. CASE UNCHANGED ledgerVars /\ PayoutEnds(c)
    <2>1. DataMoves
        BY <1>5, <1>8 DEF DataMoves, LedgerMoves
    <2>2. CallsMove
        BY <1>1, <1>8, <2>1, PayoutCallEnds
    <2> QED
        BY <1>5, <2>1, <2>2, DataStepMoves DEF sagaVars
<1>9. CASE /\ MayPost("reversal_debit", t)
           /\ Post(ReversalDebitKey(t), Built("reversal_debit", t))
           /\ GoesTo(c, "markReversed") \/ PayoutEnds(c)
    <2>1. LedgerMoves /\ Posted(ReversalDebitKey(t))'
        BY <1>6, <1>9, PostMoves DEF Kinds
    <2>2. DataMoves
        BY <1>5, <2>1 DEF DataMoves
    <2>3. Backed("reverseDebit", t)'
        BY <1>1, <1>2, <1>3, <2>2, DataKeepsBacking
    <2>4. Backed("markReversed", t)'
        BY <2>1, <2>3 DEF Backed, PayoutPcs
    <2>5. CallsMove
        BY <1>1, <1>2, <1>3, <1>9, <2>2, <2>4, CallGoes, PayoutCallEnds
    <2> QED
        BY <1>5, <2>2, <2>5, DataStepMoves DEF sagaVars
<1> QED
    BY <1>7, <1>8, <1>9

LEMMA AdminStartsMoves ==
    ASSUME IInv, NEW c \in Calls, NEW t \in Transfers, AdminStarts(c, t),
           UNCHANGED sagaVars
    PROVE  Moves
<1>1. /\ Exists(t)
      /\ \E pc \in {"submit", "sync", "settle", "noteRef", "reverseFx"} :
            Starts(c, pc, t, FALSE)
    BY PayoutRows DEF AdminStarts, AdminSubmit, AdminSync, ReleaseManually, FailManually,
                      PayoutStatus, IInv
<1>2. PICK pc \in {"submit", "sync", "settle", "noteRef", "reverseFx"} :
         Starts(c, pc, t, FALSE)
    BY <1>1
<1>3. transfers[t] # NoTransfer /\ Posted(FxKey(t)) /\ Posted(DebitKey(t))
    <2>1. transfers[t] # NoTransfer /\ Posted(FxKey(t))
        BY <1>1 DEF IInv, PayoutsAreBooked
    <2>2. MayPost("fx", t)
        BY <2>1 DEF IInv, JournalsAreBuilt, FxKey, Kinds
    <2> QED
        BY <2>1, <2>2 DEF MayPost
<1>4. Backed(pc, t) /\ pc \in Pcs
    BY <1>1, <1>3 DEF Backed, Pcs, PayoutPcs
<1>5. UNCHANGED <<balance, journal, payouts, payments>>
    BY DEF AdminStarts
<1>6. Backed(pc, t)'
    BY <1>4, <1>5, QuietIsData, DataKeepsBacking DEF sagaVars
<1>7. CallsMove
    BY <1>2, <1>4, <1>6, CallBegins DEF IInv
<1> QED
    BY <1>5, <1>7, QuietMoves

LEMMA ProviderDecidesMoves ==
    ASSUME IInv, NEW t \in Transfers, NEW n \in 1..MaxSends, ProviderDecides(t, n),
           UNCHANGED sagaVars
    PROVE  Moves
<1>1. Exists(t)
    BY DEF ProviderDecides, IInv, PaymentsAreOfPayouts
<1>2. PaymentsMove
    BY <1>1 DEF ProviderDecides, PaymentsMove, PaymentState
<1>3. DataMoves /\ UNCHANGED calls
    BY DEF ProviderDecides, DataMoves, LedgerMoves, ledgerVars, TransfersMove,
           PayoutsMove, sagaVars
<1>4. CallsMove
    BY <1>3 DEF CallsMove, IInv, TypeOK
<1> QED
    BY <1>2, <1>3, <1>4, DataStepMoves DEF sagaVars

-----------------------------------------------------------------------------
(* Every step of the specification *)

LEMMA NextMoves ==
    ASSUME IInv, Next
    PROVE  Moves
<1>1. CASE \E c \in Calls, t \in Transfers :
              \/ \E sender \in Customers, quote \in Quotes, rail \in Rails \cup {"none"} :
                    Initiate(c, t, sender, quote, rail)
              \/ Recover(c, t)
    BY <1>1, InitiateMoves, RecoverMoves
<1>2. ASSUME NEW c \in Calls, RunProceeds(c) \/ RunFails(c) PROVE Moves
    <2>1. CASE Load(c) \/ AutoDisburse(c)
        BY <2>1, LoadMoves, AutoDisburseMoves
    <2>2. CASE Debit(c) \/ Fx(c)
        BY <2>2, DebitMoves, FxMoves
    <2>3. CASE MarkDebited(c) \/ MarkBooked(c) \/ MarkCompleted(c)
        BY <2>3, MarkDebitedMoves, MarkBookedMoves, MarkCompletedMoves
    <2>4. ASSUME NEW fee \in ProviderFees, CreatePayout(c, fee) PROVE Moves
        BY <2>4, CreatePayoutMoves
    <2>5. CASE RunFails(c)
        BY <2>5, RunFailsMoves
    <2> QED
        BY <1>2, <2>1, <2>2, <2>3, <2>4, <2>5 DEF RunProceeds
<1>3. CASE PayoutNext
    <2>1. UNCHANGED sagaVars
        BY <1>3 DEF PayoutNext
    <2>2. ASSUME NEW c \in Calls, PayoutProceeds(c) PROVE Moves
        BY <2>1, <2>2, LookupsMove, SendMoves, MarkSubmittedMoves, SettleMoves,
           MarkSettledMoves, ReverseFxMoves, ReverseDebitMoves, MarkReversedMoves,
           NoteRefMoves DEF PayoutProceeds
    <2>3. ASSUME NEW c \in Calls, PayoutCallFails(c) PROVE Moves
        BY <2>1, <2>3, LookupsMove
    <2>4. ASSUME NEW c \in Calls, NEW t \in Transfers, AdminStarts(c, t) PROVE Moves
        BY <2>1, <2>4, AdminStartsMoves
    <2>5. ASSUME NEW t \in Transfers, NEW n \in 1..MaxSends, ProviderDecides(t, n)
          PROVE  Moves
        BY <2>1, <2>5, ProviderDecidesMoves
    <2> QED
        BY <1>3, <2>2, <2>3, <2>4, <2>5 DEF PayoutNext
<1>4. CASE Listen \/ \E rails \in SUBSET Rails : SetAuto(rails)
    BY <1>4, SettingsMove
<1>5. CASE Crash
    BY <1>5, CrashMoves
<1> QED
    BY <1>1, <1>2, <1>3, <1>4, <1>5 DEF Next

\* Every step, a stutter included, is one of those.
LEMMA StepsMove ==
    ASSUME IInv, [Next]_vars
    PROVE  Moves
<1>1. CASE Next
    BY <1>1, NextMoves
<1>2. CASE UNCHANGED vars
    <2>1. /\ UNCHANGED <<balance, journal, payouts, payments>>
          /\ UNCHANGED sagaVars /\ UNCHANGED calls
        BY <1>2 DEF vars, sagaVars
    <2>2. CallsMove
        BY <2>1 DEF CallsMove, IInv, TypeOK
    <2> QED
        BY <2>1, <2>2, QuietMoves
<1> QED
    BY <1>1, <1>2

LEMMA InitEstablishesIInv ==
    ASSUME Init
    PROVE  IInv
<1>1. TypeOK
    BY TransferSagaAssumption
       DEF Init, TypeOK, NoJournal, CallState, PaymentState
<1>2. \A k \in Keys : ~Posted(k)
    BY DEF Init, Posted
<1>3. \A t \in Transfers : ~Exists(t)
    BY DEF Init, Exists
<1>4. JournalsAreBuilt
    BY <1>2, KeysExist DEF JournalsAreBuilt
<1>5. PayoutsAreBooked /\ PaymentsAreOfPayouts
    BY <1>3 DEF Init, PayoutsAreBooked, PaymentsAreOfPayouts
<1>6. StatusIsBacked
    BY DEF Init, StatusIsBacked, NoTransfer, NoPayout
<1>7. CallsAreBacked /\ RecoveryIsKnown /\ QuotesWereOffered
    BY DEF Init, CallsAreBacked, RecoveryIsKnown, QuotesWereOffered
<1> QED
    BY <1>1, <1>4, <1>5, <1>6, <1>7 DEF IInv

LEMMA StepsKeepIInv == IInv /\ [Next]_vars => IInv'
BY StepsMove, MovesKeepIInv

-----------------------------------------------------------------------------
(* The theorems *)

\* Rows, journals, payments and handlers are well typed in every reachable state.
THEOREM TypeCorrect == Spec => []TypeOK
<1>1. IInv => TypeOK
    BY DEF IInv
<1> QED
    BY <1>1, InitEstablishesIInv, StepsKeepIInv, PTL DEF Spec

\* No status column runs ahead of the ledger, whatever runs, administrators,
\* failures and restarts interleave.
THEOREM StatusesAreBacked == Spec => []StatusIsBacked
<1>1. IInv => StatusIsBacked
    BY DEF IInv
<1> QED
    BY <1>1, InitEstablishesIInv, StepsKeepIInv, PTL DEF Spec

\* No provider is asked to pay before the wallet is charged and the payout booked.
THEOREM PaymentsAreFunded == Spec => []PaidOnlyIfFunded
<1>1. IInv => PaidOnlyIfFunded
    <2> SUFFICES ASSUME IInv, NEW t \in Transfers, NEW n \in 1..MaxSends,
                        payments[t][n] # "none"
                 PROVE  Posted(DebitKey(t)) /\ Posted(FxKey(t))
        BY DEF PaidOnlyIfFunded
    <2>1. Posted(FxKey(t))
        BY DEF IInv, PaymentsAreOfPayouts, PayoutsAreBooked
    <2>2. MayPost("fx", t)
        BY <2>1 DEF IInv, JournalsAreBuilt, FxKey, Kinds
    <2> QED
        BY <2>1, <2>2 DEF MayPost
<1> QED
    BY <1>1, InitEstablishesIInv, StepsKeepIInv, PTL DEF Spec

\* A settlement takes from payout_suspense what the first request locked and books
\* the fee locked on the payout, for every quote, fee and interleaving.
THEOREM SettlementsAreAsLocked == Spec => []SettledAsLocked
<1>1. IInv => SettledAsLocked
    <2> SUFFICES ASSUME IInv, NEW t \in Transfers, Posted(SettleKey(t))
                 PROVE  LET q == transfers[t].quote
                            moved(kind) == Delta(journal[SettleKey(t)],
                                                 systemAccount(kind, q.to))
                        IN /\ moved("payout_suspense") = -q.receive
                           /\ moved("provider_fee") = payouts[t].providerFee
        BY DEF SettledAsLocked
    <2> DEFINE q == transfers[t].quote
               fee == payouts[t].providerFee
    <2>1. /\ MayPost("settle", t)
          /\ journal[SettleKey(t)] = settlePayout(q.to, q.receive, fee)
        BY DEF IInv, JournalsAreBuilt, SettleKey, Kinds, Built
    <2>2. q \in Quotes /\ Exists(t) /\ FeeInRange(fee, q.receive)
        BY <2>1 DEF MayPost, IInv, QuotesWereOffered
    <2>3. q.to \in Currencies /\ q.receive \in Int /\ q.receive > 0
        BY <2>2, TransferSagaAssumption DEF Quote
    <2>4. fee \in Int
        BY <2>2, PayoutRows DEF IInv
    <2> HIDE DEF q, fee
    <2>5. /\ Delta(journal[SettleKey(t)], systemAccount("payout_suspense", q.to)) = -q.receive
          /\ Delta(journal[SettleKey(t)], systemAccount("provider_fee", q.to)) = fee
        BY <2>1, <2>2, <2>3, <2>4, SettlePayoutDelta
    <2> QED
        BY <2>5 DEF q, fee
<1> QED
    BY <1>1, InitEstablishesIInv, StepsKeepIInv, PTL DEF Spec

-----------------------------------------------------------------------------
(* The saga implements Remittance *)

RInv == IInv /\ StoreNonNegative

\* Which journals a transfer has, told by the ones it has before.
LEMMA JournalsAreOrdered ==
    ASSUME IInv, NEW t \in Transfers
    PROVE  /\ Posted(DebitKey(t)) => transfers[t] # NoTransfer
           /\ Posted(FxKey(t)) => Posted(DebitKey(t))
           /\ Posted(SettleKey(t)) => Posted(FxKey(t))
           /\ Posted(ReversalFxKey(t)) => Posted(FxKey(t))
           /\ Posted(ReversalDebitKey(t)) => Posted(ReversalFxKey(t))
<1>1. /\ Posted(DebitKey(t)) => MayPost("debit", t)
      /\ Posted(FxKey(t)) => MayPost("fx", t)
      /\ Posted(SettleKey(t)) => MayPost("settle", t)
      /\ Posted(ReversalFxKey(t)) => MayPost("reversal_fx", t)
      /\ Posted(ReversalDebitKey(t)) => MayPost("reversal_debit", t)
    BY DEF IInv, JournalsAreBuilt, Kinds, DebitKey, FxKey, SettleKey, ReversalFxKey,
           ReversalDebitKey
<1>2. Exists(t) => Posted(FxKey(t))
    BY DEF IInv, PayoutsAreBooked
<1> QED
    BY <1>1, <1>2 DEF MayPost

LEMMA NothingRemitted ==
    ASSUME \A t \in Transfers : (RemittanceOf(t))' = RemittanceOf(t),
           \A w \in SenderWallets : balance'[w] = balance[w]
    PROVE  UNCHANGED Promise!vars
BY DEF Promise!vars

\* One transfer moves on.
LEMMA OneRemitted ==
    ASSUME NEW t \in Transfers, NEW new, (RemittanceOf(t))' = new,
           \A u \in Transfers \ {t} : (RemittanceOf(u))' = RemittanceOf(u)
    PROVE  [u \in Transfers |-> RemittanceOf(u)]'
             = [[u \in Transfers |-> RemittanceOf(u)] EXCEPT ![t] = new]
OBVIOUS

LEMMA WalletsStay ==
    ASSUME \A w \in SenderWallets : balance'[w] = balance[w]
    PROVE  UNCHANGED [w \in SenderWallets |-> balance[w]]
OBVIOUS

\* The ledger stays: at most a transfer is requested.
LEMMA QuietStepsRequest ==
    ASSUME IInv, Moves, UNCHANGED ledgerVars
    PROVE  Promise!Next \/ UNCHANGED Promise!vars
<1>1. \A k \in Keys : Posted(k)' <=> Posted(k)
    BY DEF ledgerVars, Posted
<1>2. \A w \in SenderWallets : balance'[w] = balance[w]
    BY DEF ledgerVars
<1>3. ASSUME NEW t \in Transfers
      PROVE  /\ (Stage(t))' = Stage(t) /\ (Refunded(t))' = Refunded(t)
             /\ (Posted(SettleKey(t)))' = Posted(SettleKey(t))
    BY DEF ledgerVars, Stage, Refunded, Posted, DebitKey, FxKey, SettleKey,
           ReversalFxKey, ReversalDebitKey
<1>4. ASSUME NEW t \in Transfers, transfers[t] # NoTransfer, TransferKeeps(t)
      PROVE  (RemittanceOf(t))' = RemittanceOf(t)
    BY <1>3, <1>4 DEF RemittanceOf, TransferKeeps
<1>5. ASSUME NEW t \in Transfers, transfers'[t] = transfers[t]
      PROVE  (RemittanceOf(t))' = RemittanceOf(t)
    BY <1>3, <1>5 DEF RemittanceOf
<1>6. \A t \in Transfers : TransferKeeps(t)
    BY TransfersMoveTyped DEF IInv, Moves
<1>7. CASE UNCHANGED transfers
    BY <1>2, <1>5, <1>7, NothingRemitted
<1>8. ASSUME NEW t \in Transfers, NEW status \in TransferStatus, StatusMayBe(t, status),
             transfers' = [transfers EXCEPT ![t].status = status]
      PROVE  UNCHANGED Promise!vars
    <2>1. transfers[t] # NoTransfer /\ \A u \in Transfers \ {t} : transfers'[u] = transfers[u]
        BY <1>8 DEF StatusMayBe, IInv, TypeOK
    <2>2. \A u \in Transfers : (RemittanceOf(u))' = RemittanceOf(u)
        BY <1>4, <1>5, <1>6, <2>1
    <2> QED
        BY <1>2, <2>2, NothingRemitted
<1>9. ASSUME NEW t \in Transfers, NEW row \in Transfer, NewTransfer(t, row)
      PROVE  Promise!Next
    <2>1. /\ transfers[t] = NoTransfer /\ row.quote \in Quotes /\ row.sender \in Customers
          /\ row # NoTransfer
        BY <1>9 DEF NewTransfer, Transfer, TransferStatus, NoTransfer
    <2>2. transfers'[t] = row /\ \A u \in Transfers \ {t} : transfers'[u] = transfers[u]
        BY <1>9 DEF NewTransfer, IInv, TypeOK
    <2>3. \A u \in Transfers \ {t} : (RemittanceOf(u))' = RemittanceOf(u)
        BY <1>5, <2>2
    <2>4. RemittanceOf(t) = [stage |-> "none"]
        BY <2>1 DEF RemittanceOf
    <2>5. /\ ~Posted(DebitKey(t)) /\ ~Posted(FxKey(t)) /\ ~Posted(SettleKey(t))
          /\ ~Posted(ReversalFxKey(t)) /\ ~Posted(ReversalDebitKey(t))
        BY <2>1, JournalsAreOrdered
    <2>6. Stage(t) = "requested" /\ Refunded(t) = "no" /\ Posted(SettleKey(t)) = FALSE
        BY <2>5 DEF Stage, Refunded
    <2>7. (RemittanceOf(t))' = [stage |-> "requested",
                                request |-> RequestOf(row.sender, row.quote),
                                settled |-> FALSE, refund |-> "no"]
        BY <1>3, <2>1, <2>2, <2>6 DEF RemittanceOf
    <2>8. PICK r \in {RequestOf(s, q) : s \in Customers, q \in Quotes} :
             r = RequestOf(row.sender, row.quote)
        BY <2>1
    <2>9. Promise!Request(t, r)
        <3>1. (RemittanceOf(t))' = [stage |-> "requested", request |-> r,
                                    settled |-> FALSE, refund |-> "no"]
            BY <2>7, <2>8
        <3>2. [u \in Transfers |-> RemittanceOf(u)]'
                = [[u \in Transfers |-> RemittanceOf(u)] EXCEPT
                      ![t] = [stage |-> "requested", request |-> r,
                              settled |-> FALSE, refund |-> "no"]]
            <4> DEFINE new == [stage |-> "requested", request |-> r,
                               settled |-> FALSE, refund |-> "no"]
            <4>1. (RemittanceOf(t))' = new
                BY <3>1
            <4> HIDE DEF new
            <4>2. [u \in Transfers |-> RemittanceOf(u)]'
                    = [[u \in Transfers |-> RemittanceOf(u)] EXCEPT ![t] = new]
                BY <2>3, <4>1, OneRemitted
            <4> QED
                BY <4>2 DEF new
        <3>3. UNCHANGED [w \in SenderWallets |-> balance[w]]
            BY <1>2, WalletsStay
        <3>4. [u \in Transfers |-> RemittanceOf(u)][t] = [stage |-> "none"]
            BY <2>4
        <3> QED
            BY <3>2, <3>3, <3>4 DEF Promise!Request, Promise!None
    <2> QED
        BY <2>9 DEF Promise!Next
<1> QED
    BY <1>7, <1>8, <1>9 DEF Moves, TransfersMove

\* One field of a transfer's record changes.
LEMMA FieldRemitted ==
    ASSUME NEW t \in Transfers,
           \A u \in Transfers \ {t} : (RemittanceOf(u))' = RemittanceOf(u), NEW x
    PROVE  /\ (RemittanceOf(t))' = [RemittanceOf(t) EXCEPT !.stage = x]
                => [u \in Transfers |-> RemittanceOf(u)]'
                     = [[u \in Transfers |-> RemittanceOf(u)] EXCEPT ![t].stage = x]
           /\ (RemittanceOf(t))' = [RemittanceOf(t) EXCEPT !.settled = x]
                => [u \in Transfers |-> RemittanceOf(u)]'
                     = [[u \in Transfers |-> RemittanceOf(u)] EXCEPT ![t].settled = x]
           /\ (RemittanceOf(t))' = [RemittanceOf(t) EXCEPT !.refund = x]
                => [u \in Transfers |-> RemittanceOf(u)]'
                     = [[u \in Transfers |-> RemittanceOf(u)] EXCEPT ![t].refund = x]
OBVIOUS

\* A new journal of a transfer: what else stays.
LEMMA PostChanges ==
    ASSUME RInv, Moves, NEW kind \in Kinds, NEW t \in Transfers,
           MayPost(kind, t), Post(<<kind, t>>, Built(kind, t)), ~Posted(<<kind, t>>)
    PROVE  /\ Posted(<<kind, t>>)'
           /\ \A kd \in Kinds, u \in Transfers :
                 kd # kind \/ u # t => (Posted(<<kd, u>>)' <=> Posted(<<kd, u>>))
           /\ \A u \in Transfers :
                 /\ TransferKeeps(u)
                 /\ transfers[u] = NoTransfer => transfers'[u] = NoTransfer
           /\ \A a \in Accounts : balance'[a] = balance[a] + Delta(Built(kind, t), a)
           /\ ~Overdraws(Built(kind, t))
           /\ \A a \in Accounts : Delta(Built(kind, t), a) \in Int
<1>1. /\ TypeOK /\ <<kind, t>> \in Keys /\ Built(kind, t) \in Seq(Posting)
      /\ StoreTypeOK
    BY KeysExist, BuiltIsJournal DEF RInv, IInv, TypeOK, StoreTypeOK
<1>2. /\ Posted(<<kind, t>>)'
      /\ \A k \in Keys \ {<<kind, t>>} : journal'[k] = journal[k]
    BY <1>1, PostAppends
<1>3. ASSUME NEW kd \in Kinds, NEW u \in Transfers, kd # kind \/ u # t
      PROVE  Posted(<<kd, u>>)' <=> Posted(<<kd, u>>)
    <2>1. <<kd, u>> \in Keys \ {<<kind, t>>}
        BY <1>3, KeysExist
    <2> QED
        BY <1>2, <2>1 DEF Posted
<1>4. \A u \in Transfers : TransferKeeps(u)
    BY <1>1, TransfersMoveTyped DEF Moves
<1>5. journal' # journal
    BY <1>2 DEF Posted
<1>6. \A u \in Transfers : transfers[u] = NoTransfer => transfers'[u] = NoTransfer
    <2>1. CASE UNCHANGED transfers
        BY <2>1
    <2>2. ASSUME NEW v \in Transfers, NEW row \in Transfer, NewTransfer(v, row)
          PROVE  FALSE
        BY <1>5, <2>2 DEF NewTransfer, ledgerVars
    <2>3. ASSUME NEW v \in Transfers, NEW status \in TransferStatus, StatusMayBe(v, status),
                 transfers' = [transfers EXCEPT ![v].status = status]
          PROVE  \A u \in Transfers : transfers[u] = NoTransfer => transfers'[u] = NoTransfer
        <3>1. \A u \in Transfers : u # v => transfers'[u] = transfers[u]
            BY <1>1, <2>3 DEF TypeOK
        <3>2. transfers[v] # NoTransfer
            BY <2>3 DEF StatusMayBe
        <3> QED
            BY <3>1, <3>2
    <2> QED
        BY <2>1, <2>2, <2>3 DEF Moves, TransfersMove
<1>7. balance' = Applied(Built(kind, t)) /\ ~Overdraws(Built(kind, t))
    BY DEF Post, Accepts, Commit
<1>8. \A a \in Accounts : balance'[a] = balance[a] + Delta(Built(kind, t), a)
    BY <1>7 DEF Applied
<1>9. \A a \in Accounts : Delta(Built(kind, t), a) \in Int
    BY <1>1, DeltaIsInt
<1> QED
    BY <1>2, <1>3, <1>4, <1>6, <1>7, <1>8, <1>9

\* The other transfers stay where they are.
LEMMA OthersStay ==
    ASSUME RInv, Moves, NEW kind \in Kinds, NEW t \in Transfers,
           MayPost(kind, t), Post(<<kind, t>>, Built(kind, t)), ~Posted(<<kind, t>>)
    PROVE  \A u \in Transfers \ {t} : (RemittanceOf(u))' = RemittanceOf(u)
<1> SUFFICES ASSUME NEW u \in Transfers \ {t} PROVE (RemittanceOf(u))' = RemittanceOf(u)
    OBVIOUS
<1>1. /\ TransferKeeps(u)
      /\ transfers[u] = NoTransfer => transfers'[u] = NoTransfer
      /\ \A kd \in Kinds : Posted(<<kd, u>>)' <=> Posted(<<kd, u>>)
    BY PostChanges
<1>2. /\ Posted(DebitKey(u))' <=> Posted(DebitKey(u))
      /\ Posted(FxKey(u))' <=> Posted(FxKey(u))
      /\ Posted(SettleKey(u))' <=> Posted(SettleKey(u))
      /\ Posted(ReversalFxKey(u))' <=> Posted(ReversalFxKey(u))
      /\ Posted(ReversalDebitKey(u))' <=> Posted(ReversalDebitKey(u))
    BY <1>1 DEF Kinds, DebitKey, FxKey, SettleKey, ReversalFxKey, ReversalDebitKey
<1>3. (Stage(u))' = Stage(u) /\ (Refunded(u))' = Refunded(u)
    BY <1>2 DEF Stage, Refunded
<1>4. (Posted(SettleKey(u)))' = Posted(SettleKey(u))
    BY <1>2 DEF Posted
<1>5. CASE transfers[u] = NoTransfer
    BY <1>1, <1>5 DEF RemittanceOf
<1>6. CASE transfers[u] # NoTransfer
    BY <1>1, <1>3, <1>4, <1>6 DEF RemittanceOf, TransferKeeps
<1> QED
    BY <1>5, <1>6

\* What a transfer with a new journal looks like before and after.
LEMMA ThisMoves ==
    ASSUME RInv, Moves, NEW kind \in Kinds, NEW t \in Transfers,
           MayPost(kind, t), Post(<<kind, t>>, Built(kind, t)), ~Posted(<<kind, t>>)
    PROVE  LET rec(stage, settled, refund) ==
                  [stage |-> stage,
                   request |-> RequestOf(transfers[t].sender, transfers[t].quote),
                   settled |-> settled, refund |-> refund]
           IN /\ RemittanceOf(t) = rec(Stage(t), Posted(SettleKey(t)), Refunded(t))
              /\ (RemittanceOf(t))' = rec((Stage(t))', (Posted(SettleKey(t)))', (Refunded(t))')
<1>1. transfers[t] # NoTransfer /\ TransferKeeps(t)
    BY PostChanges DEF MayPost
<1>2. transfers'[t] # NoTransfer /\ transfers'[t].sender = transfers[t].sender
      /\ transfers'[t].quote = transfers[t].quote
    BY <1>1 DEF TransferKeeps
<1> QED
    BY <1>1, <1>2 DEF RemittanceOf

LEMMA ThisPosted ==
    ASSUME RInv, Moves, NEW kind \in Kinds, NEW t \in Transfers,
           MayPost(kind, t), Post(<<kind, t>>, Built(kind, t)), ~Posted(<<kind, t>>)
    PROVE  /\ (Posted(DebitKey(t)))' <=> (kind = "debit" \/ Posted(DebitKey(t)))
           /\ (Posted(FxKey(t)))' <=> (kind = "fx" \/ Posted(FxKey(t)))
           /\ (Posted(SettleKey(t)))' <=> (kind = "settle" \/ Posted(SettleKey(t)))
           /\ (Posted(ReversalFxKey(t)))' <=> (kind = "reversal_fx" \/ Posted(ReversalFxKey(t)))
           /\ (Posted(ReversalDebitKey(t)))'
                <=> (kind = "reversal_debit" \/ Posted(ReversalDebitKey(t)))
<1>1. /\ Posted(<<kind, t>>)'
      /\ \A kd \in Kinds : kd # kind => (Posted(<<kd, t>>)' <=> Posted(<<kd, t>>))
    BY PostChanges
<1> QED
    BY <1>1 DEF Kinds, DebitKey, FxKey, SettleKey, ReversalFxKey, ReversalDebitKey

\* What a journal of a transfer does to customers' wallets.
LEMMA WalletDeltas ==
    ASSUME IInv, NEW kind \in Kinds, NEW t \in Transfers, MayPost(kind, t),
           NEW w \in SenderWallets
    PROVE  LET q == transfers[t].quote
               own == customerWallet(transfers[t].sender, q.from)
           IN /\ w \in Accounts /\ own \in SenderWallets
              /\ q.send + q.fee \in Int /\ q.send + q.fee > 0
              /\ Delta(Built(kind, t), w) =
                    CASE kind = "debit" /\ w = own -> -(q.send + q.fee)
                      [] kind = "reversal_debit" /\ w = own -> q.send + q.fee
                      [] OTHER -> 0
<1> DEFINE q == transfers[t].quote
           s == transfers[t].sender
           own == customerWallet(s, q.from)
           charge == q.send + q.fee
<1>1. transfers[t] # NoTransfer
    BY DEF MayPost
<1>2. s \in Customers /\ q \in Quote /\ q \in Quotes
    BY <1>1, TransferRows DEF IInv, QuotesWereOffered
<1>3. /\ q.from \in Currencies /\ q.to \in Currencies
      /\ q.send \in Int /\ q.fee \in Int /\ q.receive \in Int
      /\ q.send > 0 /\ q.fee >= 0 /\ q.receive > 0
    BY <1>2, TransferSagaAssumption DEF Quote
<1>4. PICK p \in Customers, d \in Currencies : w = customerWallet(p, d)
    BY DEF SenderWallets
<1>5. w = own <=> p = s /\ d = q.from
    BY <1>4 DEF customerWallet, Account
<1>6. w \in Accounts /\ own \in SenderWallets
    BY <1>2, <1>3, <1>4, AccountsExist DEF SenderWallets
<1>7. charge \in Int /\ charge > 0
    BY <1>3
<1>8. CASE kind = "debit"
    <2>1. Built(kind, t) = transferDebitJournal(s, q)
        BY <1>8 DEF Built
    <2> HIDE DEF q, s, own
    <2>2. Delta(Built(kind, t), w) = IF p = s /\ d = q.from THEN -(q.send + q.fee) ELSE 0
        BY <1>2, <1>3, <1>4, <2>1, TransferDebitDelta
    <2> QED
        BY <1>5, <1>6, <1>7, <1>8, <2>2 DEF q, s, own
<1>9. CASE kind = "reversal_debit"
    <2>1. Built(kind, t) = reverseTransferDebit(s, q)
        BY <1>9 DEF Built
    <2> HIDE DEF q, s, own
    <2>2. Delta(Built(kind, t), w) = IF p = s /\ d = q.from THEN q.send + q.fee ELSE 0
        BY <1>2, <1>3, <1>4, <2>1, TransferDebitDelta
    <2> QED
        BY <1>5, <1>6, <1>7, <1>9, <2>2 DEF q, s, own
<1>10. CASE kind = "fx" \/ kind = "reversal_fx"
    <2>1. Built(kind, t) = transferFxJournal(q) \/ Built(kind, t) = reverseTransferFx(q)
        BY <1>10 DEF Built
    <2> HIDE DEF q, s, own
    <2>2. Delta(Built(kind, t), w) = 0
        BY <1>2, <1>4, <2>1, TransferFxDelta
    <2> QED
        BY <1>6, <1>7, <1>10, <2>2 DEF q, s, own
<1>11. CASE kind = "settle"
    <2> DEFINE fee == payouts[t].providerFee
    <2>1. Built(kind, t) = settlePayout(q.to, q.receive, fee)
        BY <1>11 DEF Built
    <2>2. Exists(t) /\ FeeInRange(fee, q.receive)
        BY <1>11 DEF MayPost
    <2>3. fee \in Int
        BY <2>2, PayoutRows DEF IInv
    <2> HIDE DEF q, s, own, fee
    <2>4. Delta(Built(kind, t), w) = 0
        BY <1>3, <1>4, <2>1, <2>2, <2>3, SettlePayoutDelta
    <2> QED
        BY <1>6, <1>7, <1>11, <2>4 DEF q, s, own
<1> QED
    BY <1>8, <1>9, <1>10, <1>11 DEF Kinds

\* The FX journal books the payout of a charged transfer.
LEMMA FxBooks ==
    ASSUME RInv, Moves, NEW t \in Transfers,
           MayPost("fx", t), Post(<<"fx", t>>, Built("fx", t)), ~Posted(<<"fx", t>>)
    PROVE  Promise!Next
<1>1. "fx" \in Kinds
    BY DEF Kinds
<1>2. \A u \in Transfers \ {t} : (RemittanceOf(u))' = RemittanceOf(u)
    BY <1>1, OthersStay
<1>3. /\ (Posted(DebitKey(t)))' <=> ("fx" = "debit" \/ Posted(DebitKey(t)))
      /\ (Posted(FxKey(t)))' <=> ("fx" = "fx" \/ Posted(FxKey(t)))
      /\ (Posted(SettleKey(t)))' <=> ("fx" = "settle" \/ Posted(SettleKey(t)))
      /\ (Posted(ReversalFxKey(t)))' <=> ("fx" = "reversal_fx" \/ Posted(ReversalFxKey(t)))
      /\ (Posted(ReversalDebitKey(t)))'
           <=> ("fx" = "reversal_debit" \/ Posted(ReversalDebitKey(t)))
    BY <1>1, ThisPosted
<1>4. /\ Posted(FxKey(t)) => Posted(DebitKey(t))
      /\ Posted(SettleKey(t)) => Posted(FxKey(t))
      /\ Posted(ReversalFxKey(t)) => Posted(FxKey(t))
      /\ Posted(ReversalDebitKey(t)) => Posted(ReversalFxKey(t))
    BY JournalsAreOrdered DEF RInv
<1>5. Posted(DebitKey(t)) /\ ~Posted(FxKey(t))
    BY DEF MayPost, FxKey
<1>6. Stage(t) = "charged" /\ (Stage(t))' = "booked" /\ (Refunded(t))' = Refunded(t)
    BY <1>3, <1>4, <1>5 DEF Stage, Refunded
<1>7. (Posted(SettleKey(t)))' = Posted(SettleKey(t))
    BY <1>3 DEF Posted
<1>8. (RemittanceOf(t))' = [RemittanceOf(t) EXCEPT !.stage = "booked"]
    BY <1>1, <1>6, <1>7, ThisMoves
<1>9. [u \in Transfers |-> RemittanceOf(u)]'
        = [[u \in Transfers |-> RemittanceOf(u)] EXCEPT ![t].stage = "booked"]
    BY <1>2, <1>8, FieldRemitted
<1>10. \A w \in SenderWallets : balance'[w] = balance[w]
    <2>1. ASSUME NEW w \in SenderWallets PROVE balance'[w] = balance[w]
        <3>1. w \in Accounts /\ Delta(Built("fx", t), w) = 0
            BY <1>1, WalletDeltas DEF RInv
        <3>2. balance'[w] = balance[w] + Delta(Built("fx", t), w)
            BY <1>1, <3>1, PostChanges
        <3>3. balance[w] \in Int
            BY <3>1 DEF RInv, StoreNonNegative, IInv, TypeOK
        <3> QED
            BY <3>1, <3>2, <3>3
    <2> QED
        BY <2>1
<1>11. UNCHANGED [w \in SenderWallets |-> balance[w]]
    BY <1>10, WalletsStay
<1>12. RemittanceOf(t).stage = "charged"
    BY <1>1, <1>6, ThisMoves
<1>13. Promise!Book(t)
    BY <1>9, <1>11, <1>12 DEF Promise!Book, Promise!Is, Promise!Sets
<1> QED
    BY <1>13 DEF Promise!Next

\* A settlement settles a booked transfer that was not settled.
LEMMA SettlementSettles ==
    ASSUME RInv, Moves, NEW t \in Transfers,
           MayPost("settle", t), Post(<<"settle", t>>, Built("settle", t)), ~Posted(<<"settle", t>>)
    PROVE  Promise!Next
<1>1. "settle" \in Kinds
    BY DEF Kinds
<1>2. \A u \in Transfers \ {t} : (RemittanceOf(u))' = RemittanceOf(u)
    BY <1>1, OthersStay
<1>3. /\ (Posted(DebitKey(t)))' <=> ("settle" = "debit" \/ Posted(DebitKey(t)))
      /\ (Posted(FxKey(t)))' <=> ("settle" = "fx" \/ Posted(FxKey(t)))
      /\ (Posted(SettleKey(t)))' <=> ("settle" = "settle" \/ Posted(SettleKey(t)))
      /\ (Posted(ReversalFxKey(t)))' <=> ("settle" = "reversal_fx" \/ Posted(ReversalFxKey(t)))
      /\ (Posted(ReversalDebitKey(t)))'
           <=> ("settle" = "reversal_debit" \/ Posted(ReversalDebitKey(t)))
    BY <1>1, ThisPosted
<1>4. /\ Posted(FxKey(t)) => Posted(DebitKey(t))
      /\ Posted(SettleKey(t)) => Posted(FxKey(t))
      /\ Posted(ReversalFxKey(t)) => Posted(FxKey(t))
      /\ Posted(ReversalDebitKey(t)) => Posted(ReversalFxKey(t))
    BY JournalsAreOrdered DEF RInv
<1>5. Posted(FxKey(t)) /\ ~Posted(SettleKey(t))
    BY DEF MayPost, SettleKey, RInv, IInv, PayoutsAreBooked
<1>6. /\ Stage(t) = "booked" /\ (Stage(t))' = Stage(t)
      /\ (Refunded(t))' = Refunded(t)
    BY <1>3, <1>4, <1>5 DEF Stage, Refunded
<1>7. Posted(SettleKey(t)) = FALSE /\ (Posted(SettleKey(t)))' = TRUE
    BY <1>3, <1>5 DEF Posted
<1>8. (RemittanceOf(t))' = [RemittanceOf(t) EXCEPT !.settled = TRUE]
    BY <1>1, <1>6, <1>7, ThisMoves
<1>9. [u \in Transfers |-> RemittanceOf(u)]'
        = [[u \in Transfers |-> RemittanceOf(u)] EXCEPT ![t].settled = TRUE]
    BY <1>2, <1>8, FieldRemitted
<1>10. \A w \in SenderWallets : balance'[w] = balance[w]
    <2>1. ASSUME NEW w \in SenderWallets PROVE balance'[w] = balance[w]
        <3>1. w \in Accounts /\ Delta(Built("settle", t), w) = 0
            BY <1>1, WalletDeltas DEF RInv
        <3>2. balance'[w] = balance[w] + Delta(Built("settle", t), w)
            BY <1>1, <3>1, PostChanges
        <3>3. balance[w] \in Int
            BY <3>1 DEF RInv, StoreNonNegative, IInv, TypeOK
        <3> QED
            BY <3>1, <3>2, <3>3
    <2> QED
        BY <2>1
<1>11. UNCHANGED [w \in SenderWallets |-> balance[w]]
    BY <1>10, WalletsStay
<1>12. RemittanceOf(t).stage = "booked" /\ RemittanceOf(t).settled = FALSE
    BY <1>1, <1>6, <1>7, ThisMoves
<1>13. Promise!Settle(t)
    BY <1>9, <1>11, <1>12 DEF Promise!Settle, Promise!Is
<1> QED
    BY <1>13 DEF Promise!Next

\* The first reversal journal starts the refund of a booked transfer.
LEMMA ReversalStarts ==
    ASSUME RInv, Moves, NEW t \in Transfers,
           MayPost("reversal_fx", t), Post(<<"reversal_fx", t>>, Built("reversal_fx", t)), ~Posted(<<"reversal_fx", t>>)
    PROVE  Promise!Next
<1>1. "reversal_fx" \in Kinds
    BY DEF Kinds
<1>2. \A u \in Transfers \ {t} : (RemittanceOf(u))' = RemittanceOf(u)
    BY <1>1, OthersStay
<1>3. /\ (Posted(DebitKey(t)))' <=> ("reversal_fx" = "debit" \/ Posted(DebitKey(t)))
      /\ (Posted(FxKey(t)))' <=> ("reversal_fx" = "fx" \/ Posted(FxKey(t)))
      /\ (Posted(SettleKey(t)))' <=> ("reversal_fx" = "settle" \/ Posted(SettleKey(t)))
      /\ (Posted(ReversalFxKey(t)))' <=> ("reversal_fx" = "reversal_fx" \/ Posted(ReversalFxKey(t)))
      /\ (Posted(ReversalDebitKey(t)))'
           <=> ("reversal_fx" = "reversal_debit" \/ Posted(ReversalDebitKey(t)))
    BY <1>1, ThisPosted
<1>4. /\ Posted(FxKey(t)) => Posted(DebitKey(t))
      /\ Posted(SettleKey(t)) => Posted(FxKey(t))
      /\ Posted(ReversalFxKey(t)) => Posted(FxKey(t))
      /\ Posted(ReversalDebitKey(t)) => Posted(ReversalFxKey(t))
    BY JournalsAreOrdered DEF RInv
<1>5. Posted(FxKey(t)) /\ ~Posted(ReversalFxKey(t))
    BY DEF MayPost, ReversalFxKey, RInv, IInv, PayoutsAreBooked
<1>6. /\ Stage(t) = "booked" /\ (Stage(t))' = Stage(t)
      /\ Refunded(t) = "no" /\ (Refunded(t))' = "started"
    BY <1>3, <1>4, <1>5 DEF Stage, Refunded
<1>7. (Posted(SettleKey(t)))' = Posted(SettleKey(t))
    BY <1>3, <1>5 DEF Posted
<1>8. (RemittanceOf(t))' = [RemittanceOf(t) EXCEPT !.refund = "started"]
    BY <1>1, <1>6, <1>7, ThisMoves
<1>9. [u \in Transfers |-> RemittanceOf(u)]'
        = [[u \in Transfers |-> RemittanceOf(u)] EXCEPT ![t].refund = "started"]
    BY <1>2, <1>8, FieldRemitted
<1>10. \A w \in SenderWallets : balance'[w] = balance[w]
    <2>1. ASSUME NEW w \in SenderWallets PROVE balance'[w] = balance[w]
        <3>1. w \in Accounts /\ Delta(Built("reversal_fx", t), w) = 0
            BY <1>1, WalletDeltas DEF RInv
        <3>2. balance'[w] = balance[w] + Delta(Built("reversal_fx", t), w)
            BY <1>1, <3>1, PostChanges
        <3>3. balance[w] \in Int
            BY <3>1 DEF RInv, StoreNonNegative, IInv, TypeOK
        <3> QED
            BY <3>1, <3>2, <3>3
    <2> QED
        BY <2>1
<1>11. UNCHANGED [w \in SenderWallets |-> balance[w]]
    BY <1>10, WalletsStay
<1>12. RemittanceOf(t).stage = "booked" /\ RemittanceOf(t).refund = "no"
    BY <1>1, <1>6, ThisMoves
<1>13. Promise!StartRefund(t)
    BY <1>9, <1>11, <1>12 DEF Promise!StartRefund, Promise!Is
<1> QED
    BY <1>13 DEF Promise!Next

\* The debit charges a requested transfer's wallet, which holds enough.
LEMMA DebitCharges ==
    ASSUME RInv, Moves, NEW t \in Transfers,
           MayPost("debit", t), Post(<<"debit", t>>, Built("debit", t)), ~Posted(<<"debit", t>>)
    PROVE  Promise!Next
<1>1. "debit" \in Kinds
    BY DEF Kinds
<1>2. \A u \in Transfers \ {t} : (RemittanceOf(u))' = RemittanceOf(u)
    BY <1>1, OthersStay
<1>3. /\ (Posted(DebitKey(t)))' <=> ("debit" = "debit" \/ Posted(DebitKey(t)))
      /\ (Posted(FxKey(t)))' <=> ("debit" = "fx" \/ Posted(FxKey(t)))
      /\ (Posted(SettleKey(t)))' <=> ("debit" = "settle" \/ Posted(SettleKey(t)))
      /\ (Posted(ReversalFxKey(t)))' <=> ("debit" = "reversal_fx" \/ Posted(ReversalFxKey(t)))
      /\ (Posted(ReversalDebitKey(t)))'
           <=> ("debit" = "reversal_debit" \/ Posted(ReversalDebitKey(t)))
    BY <1>1, ThisPosted
<1>4. /\ Posted(FxKey(t)) => Posted(DebitKey(t))
      /\ Posted(SettleKey(t)) => Posted(FxKey(t))
      /\ Posted(ReversalFxKey(t)) => Posted(FxKey(t))
      /\ Posted(ReversalDebitKey(t)) => Posted(ReversalFxKey(t))
    BY JournalsAreOrdered DEF RInv
<1>5. ~Posted(DebitKey(t))
    BY DEF DebitKey
<1>6. /\ Stage(t) = "requested" /\ (Stage(t))' = "charged"
      /\ (Refunded(t))' = Refunded(t)
    BY <1>3, <1>4, <1>5 DEF Stage, Refunded
<1>7. (Posted(SettleKey(t)))' = Posted(SettleKey(t))
    BY <1>3, <1>5 DEF Posted
<1>8. (RemittanceOf(t))' = [RemittanceOf(t) EXCEPT !.stage = "charged"]
    BY <1>1, <1>6, <1>7, ThisMoves
<1>9. [u \in Transfers |-> RemittanceOf(u)]'
        = [[u \in Transfers |-> RemittanceOf(u)] EXCEPT ![t].stage = "charged"]
    BY <1>2, <1>8, FieldRemitted
<1>10. /\ RemittanceOf(t).request = RequestOf(transfers[t].sender, transfers[t].quote)
       /\ RemittanceOf(t).stage = "requested"
    BY <1>1, <1>6, ThisMoves
<1> DEFINE own == customerWallet(transfers[t].sender, transfers[t].quote.from)
           charge == transfers[t].quote.send + transfers[t].quote.fee
<1>11. RemittanceOf(t).request.wallet = own /\ RemittanceOf(t).request.charge = charge
    BY <1>10 DEF RequestOf
<1>12. ASSUME NEW w \in SenderWallets
       PROVE  /\ own \in SenderWallets /\ w \in Accounts
              /\ charge \in Int /\ charge > 0
              /\ balance[w] \in Int
              /\ Delta(Built("debit", t), w) = IF w = own THEN -charge ELSE 0
              /\ balance'[w] = IF w = own THEN balance[w] - charge ELSE balance[w]
    <2>1. /\ own \in SenderWallets /\ w \in Accounts
          /\ charge \in Int /\ charge > 0
          /\ Delta(Built("debit", t), w) = IF w = own THEN -charge ELSE 0
        BY <1>1, WalletDeltas DEF RInv
    <2>2. balance'[w] = balance[w] + Delta(Built("debit", t), w)
        BY <1>1, <2>1, PostChanges
    <2>3. balance[w] \in Int
        BY <2>1 DEF RInv, IInv, TypeOK
    <2> QED
        BY <2>1, <2>2, <2>3
<1>13. own \in SenderWallets
    BY TransferRows DEF MayPost, RInv, IInv, SenderWallets, Quote
<1> HIDE DEF own, charge
<1>14. [w \in SenderWallets |-> balance[w]]'
         = [[w \in SenderWallets |-> balance[w]] EXCEPT ![own] = @ - charge]
    BY <1>12, <1>13
<1>15. balance[own] >= charge
    <2>1. /\ own \in Accounts /\ own.kind \in NonNegativeKinds
          /\ Delta(Built("debit", t), own) = -charge /\ charge \in Int /\ charge > 0
          /\ balance[own] \in Int
        BY <1>12, <1>13 DEF own, customerWallet, Account, NonNegativeKinds
    <2>2. ~(Delta(Built("debit", t), own) # 0 /\ balance[own] + Delta(Built("debit", t), own) < 0)
        BY <1>1, <2>1, PostChanges DEF Overdraws
    <2> QED
        BY <2>1, <2>2
<1>16. Promise!Charge(t)
    BY <1>9, <1>10, <1>11, <1>13, <1>14, <1>15
       DEF Promise!Charge, Promise!Is, Promise!Sets
<1> QED
    BY <1>16 DEF Promise!Next

\* The second reversal journal gives the sender back what was charged.
LEMMA ReversalRefunds ==
    ASSUME RInv, Moves, NEW t \in Transfers,
           MayPost("reversal_debit", t), Post(<<"reversal_debit", t>>, Built("reversal_debit", t)), ~Posted(<<"reversal_debit", t>>)
    PROVE  Promise!Next
<1>1. "reversal_debit" \in Kinds
    BY DEF Kinds
<1>2. \A u \in Transfers \ {t} : (RemittanceOf(u))' = RemittanceOf(u)
    BY <1>1, OthersStay
<1>3. /\ (Posted(DebitKey(t)))' <=> ("reversal_debit" = "debit" \/ Posted(DebitKey(t)))
      /\ (Posted(FxKey(t)))' <=> ("reversal_debit" = "fx" \/ Posted(FxKey(t)))
      /\ (Posted(SettleKey(t)))' <=> ("reversal_debit" = "settle" \/ Posted(SettleKey(t)))
      /\ (Posted(ReversalFxKey(t)))' <=> ("reversal_debit" = "reversal_fx" \/ Posted(ReversalFxKey(t)))
      /\ (Posted(ReversalDebitKey(t)))'
           <=> ("reversal_debit" = "reversal_debit" \/ Posted(ReversalDebitKey(t)))
    BY <1>1, ThisPosted
<1>4. /\ Posted(FxKey(t)) => Posted(DebitKey(t))
      /\ Posted(SettleKey(t)) => Posted(FxKey(t))
      /\ Posted(ReversalFxKey(t)) => Posted(FxKey(t))
      /\ Posted(ReversalDebitKey(t)) => Posted(ReversalFxKey(t))
    BY JournalsAreOrdered DEF RInv
<1>5. Posted(ReversalFxKey(t)) /\ ~Posted(ReversalDebitKey(t))
    BY DEF MayPost, ReversalDebitKey
<1>6. /\ Stage(t) = "booked" /\ (Stage(t))' = Stage(t)
      /\ Refunded(t) = "started" /\ (Refunded(t))' = "done"
    BY <1>3, <1>4, <1>5 DEF Stage, Refunded
<1>7. (Posted(SettleKey(t)))' = Posted(SettleKey(t))
    BY <1>3, <1>5 DEF Posted
<1>8. (RemittanceOf(t))' = [RemittanceOf(t) EXCEPT !.refund = "done"]
    BY <1>1, <1>6, <1>7, ThisMoves
<1>9. [u \in Transfers |-> RemittanceOf(u)]'
        = [[u \in Transfers |-> RemittanceOf(u)] EXCEPT ![t].refund = "done"]
    BY <1>2, <1>8, FieldRemitted
<1>10. /\ RemittanceOf(t).request = RequestOf(transfers[t].sender, transfers[t].quote)
       /\ RemittanceOf(t).stage = "booked" /\ RemittanceOf(t).refund = "started"
    BY <1>1, <1>6, ThisMoves
<1> DEFINE own == customerWallet(transfers[t].sender, transfers[t].quote.from)
           charge == transfers[t].quote.send + transfers[t].quote.fee
<1>11. RemittanceOf(t).request.wallet = own /\ RemittanceOf(t).request.charge = charge
    BY <1>10 DEF RequestOf
<1>12. ASSUME NEW w \in SenderWallets
       PROVE  /\ own \in SenderWallets /\ w \in Accounts
              /\ charge \in Int /\ charge > 0
              /\ balance[w] \in Int
              /\ Delta(Built("reversal_debit", t), w) = IF w = own THEN charge ELSE 0
              /\ balance'[w] = IF w = own THEN balance[w] + charge ELSE balance[w]
    <2>1. /\ own \in SenderWallets /\ w \in Accounts
          /\ charge \in Int /\ charge > 0
          /\ Delta(Built("reversal_debit", t), w) = IF w = own THEN charge ELSE 0
        BY <1>1, WalletDeltas DEF RInv
    <2>2. balance'[w] = balance[w] + Delta(Built("reversal_debit", t), w)
        BY <1>1, <2>1, PostChanges
    <2>3. balance[w] \in Int
        BY <2>1 DEF RInv, IInv, TypeOK
    <2> QED
        BY <2>1, <2>2, <2>3
<1>13. own \in SenderWallets
    BY TransferRows DEF MayPost, RInv, IInv, SenderWallets, Quote
<1> HIDE DEF own, charge
<1>14. [w \in SenderWallets |-> balance[w]]'
         = [[w \in SenderWallets |-> balance[w]] EXCEPT ![own] = @ + charge]
    BY <1>12, <1>13
<1>15. Promise!Refund(t)
    BY <1>9, <1>10, <1>11, <1>13, <1>14 DEF Promise!Refund, Promise!Is
<1> QED
    BY <1>15 DEF Promise!Next

\* Every step of the saga is a step of Remittance or changes nothing of it.
LEMMA StepsRemit ==
    ASSUME RInv, Moves
    PROVE  Promise!Next \/ UNCHANGED Promise!vars
<1>1. CASE UNCHANGED ledgerVars
    BY <1>1, QuietStepsRequest DEF RInv
<1>2. ASSUME NEW kind \in Kinds, NEW t \in Transfers,
             MayPost(kind, t), Post(<<kind, t>>, Built(kind, t))
      PROVE  Promise!Next \/ UNCHANGED Promise!vars
    <2>1. CASE Posted(<<kind, t>>)
        <3>1. UNCHANGED ledgerVars
            BY <1>2, <2>1 DEF Post
        <3> QED
            BY <3>1, QuietStepsRequest DEF RInv
    <2>2. CASE ~Posted(<<kind, t>>)
        <3>1. CASE kind = "debit"
            BY <1>2, <2>2, <3>1, DebitCharges
        <3>2. CASE kind = "fx"
            BY <1>2, <2>2, <3>2, FxBooks
        <3>3. CASE kind = "settle"
            BY <1>2, <2>2, <3>3, SettlementSettles
        <3>4. CASE kind = "reversal_fx"
            BY <1>2, <2>2, <3>4, ReversalStarts
        <3>5. CASE kind = "reversal_debit"
            BY <1>2, <2>2, <3>5, ReversalRefunds
        <3> QED
            BY <3>1, <3>2, <3>3, <3>4, <3>5 DEF Kinds
    <2> QED
        BY <2>1, <2>2
<1> QED
    BY <1>1, <1>2 DEF Moves, LedgerMoves

LEMMA MovesKeepRInv ==
    ASSUME RInv, Moves
    PROVE  RInv'
<1>1. IInv' /\ StoreTypeOK /\ StoreNonNegative
    BY MovesKeepIInv DEF RInv, IInv, TypeOK, StoreTypeOK
<1>2. CASE UNCHANGED ledgerVars
    BY <1>1, <1>2 DEF RInv, ledgerVars, StoreNonNegative
<1>3. ASSUME NEW kind \in Kinds, NEW t \in Transfers,
             MayPost(kind, t), Post(<<kind, t>>, Built(kind, t))
      PROVE  RInv'
    <2>1. <<kind, t>> \in Keys /\ Built(kind, t) \in Seq(Posting)
        BY <1>3, KeysExist, BuiltIsJournal DEF RInv, IInv
    <2> QED
        BY <1>1, <1>3, <2>1, PostKeepsNonNegative DEF RInv
<1> QED
    BY <1>2, <1>3 DEF Moves, LedgerMoves

LEMMA InitPromises ==
    ASSUME Init
    PROVE  RInv /\ Promise!Init
<1>1. IInv
    BY InitEstablishesIInv
<1>2. balance \in [Accounts -> Int] /\ StoreNonNegative
    BY TransferSagaAssumption DEF Init, StoreNonNegative
<1>3. ASSUME NEW w \in SenderWallets PROVE balance[w] \in Nat
    <2>1. w \in Accounts
        BY AccountsExist DEF SenderWallets
    <2>2. w.kind \in NonNegativeKinds
        BY DEF SenderWallets, customerWallet, Account, NonNegativeKinds
    <2> QED
        BY <1>2, <2>1, <2>2 DEF StoreNonNegative
<1>4. [w \in SenderWallets |-> balance[w]] \in [SenderWallets -> Nat]
    BY <1>3
<1>5. \A t \in Transfers : RemittanceOf(t) = [stage |-> "none"]
    BY DEF Init, RemittanceOf
<1>6. [t \in Transfers |-> RemittanceOf(t)] = [t \in Transfers |-> [stage |-> "none"]]
    BY <1>5
<1> QED
    BY <1>1, <1>2, <1>4, <1>6 DEF RInv, Promise!Init, Promise!None

\* Runs, double clicks, payouts, administrators, failures, lost acknowledgements
\* and restarts together do to a sender's wallet what Remittance allows: one
\* charge of what was quoted, a booking after it, and a refund of the charge at
\* most once, for every number of transfers and handlers.
THEOREM SagaImplementsRemittance == Spec => RemittanceSpec
<1>1. Init => RInv /\ Promise!Init
    BY InitPromises
<1>2. RInv /\ [Next]_vars => RInv' /\ [Promise!Next]_(Promise!vars)
    <2> SUFFICES ASSUME RInv, [Next]_vars
                 PROVE  RInv' /\ [Promise!Next]_(Promise!vars)
        OBVIOUS
    <2>1. Moves
        BY StepsMove DEF RInv
    <2> QED
        BY <2>1, MovesKeepRInv, StepsRemit
<1> QED
    BY <1>1, <1>2, PTL DEF Spec, RemittanceSpec, Promise!Spec

-----------------------------------------------------------------------------
(* The provider's word *)

\* What the provider has said of one of its payments.
Word(t, n, answer) == n \in 1..MaxSends /\ payments[t][n] = answer
Answers == {"paid", "failed"}

SettlePcs == {"settle", "markSettled"}
ReversePcs == {"reverseFx", "reverseDebit", "markReversed"}

\* A handler that moves money out of payout_suspense was told to.
HandlersHaveWord ==
    \A c \in Calls :
        /\ calls[c].pc # "noteRef"
        /\ calls[c].pc \in SettlePcs => Word(calls[c].transfer, calls[c].ref, "paid")
        /\ calls[c].pc \in ReversePcs => Word(calls[c].transfer, calls[c].ref, "failed")

WordInv == HandlersHaveWord /\ ResolutionFollowsProvider

\* A payout is resolved as the payment it refers to was decided ...
ResolvedAsReferred ==
    \A t \in Transfers :
        /\ Posted(SettleKey(t)) =>
              payouts[t].status # "created" /\ Word(t, payouts[t].ref, "paid")
        /\ Posted(ReversalFxKey(t)) =>
              payouts[t].status # "created" /\ Word(t, payouts[t].ref, "failed")

\* ... because it is submitted once: its handler sends while it is created and
\* polls for the payment it refers to.
HandlersRefer ==
    \A c \in Calls :
        LET row == payouts[calls[c].transfer]
        IN /\ calls[c].pc \in {"send", "markSubmitted"} => row.status = "created"
           /\ calls[c].pc \in {"poll"} \cup SettlePcs \cup ReversePcs =>
                 row.status # "created" /\ row.ref = calls[c].ref

\* Runs and administrators do not work on one transfer at the same time.
OneHandlerEach ==
    \A c, d \in Calls :
        c # d /\ calls[c] # Idle /\ calls[d] # Idle => calls[c].transfer # calls[d].transfer

OneInv == WordInv /\ ResolvedAsReferred /\ HandlersRefer

-----------------------------------------------------------------------------
(* What a step does to payments *)

\* A payment is accepted on a request, or decided while it is pending.
PaymentsChange ==
    \/ UNCHANGED payments
    \/ \E t \in Transfers, n \in 1..MaxSends, state \in {"pending", "paid", "failed"} :
          /\ \/ MayAccept(t, n) /\ \E c \in Calls : Send(c)
             \/ payments[t][n] = "pending"
          /\ payments' = [payments EXCEPT ![t][n] = state]

LEMMA PaymentsOnlyChange ==
    ASSUME IInv, [Next]_vars
    PROVE  PaymentsChange
<1>1. CASE UNCHANGED vars
    BY <1>1 DEF vars, PaymentsChange
<1>2. CASE \E c \in Calls, t \in Transfers :
              \/ \E sender \in Customers, quote \in Quotes, rail \in Rails \cup {"none"} :
                    Initiate(c, t, sender, quote, rail)
              \/ Recover(c, t)
    BY <1>2 DEF PaymentsChange, Initiate, Recover
<1>3. ASSUME NEW c \in Calls, RunProceeds(c) \/ RunFails(c) PROVE PaymentsChange
    BY <1>3 DEF PaymentsChange, RunProceeds, RunFails, Load, Debit, MarkDebited, Fx,
        MarkBooked, RunMarks, CreatePayout, AutoDisburse, MarkCompleted
<1>4. CASE PayoutNext
    <2>1. ASSUME NEW c \in Calls, Send(c) PROVE PaymentsChange
        <3>1. calls[c].transfer \in Transfers
            BY <2>1, InFlight DEF Send, At, Pcs, PayoutPcs
        <3> DEFINE t == calls[c].transfer
        <3>2. \/ UNCHANGED payments
              \/ \E n \in 1..MaxSends, state \in {"paid", "pending", "failed"} :
                    MayAccept(t, n) /\ payments' = [payments EXCEPT ![t][n] = state]
            BY <2>1 DEF Send
        <3> QED
            BY <2>1, <3>1, <3>2 DEF PaymentsChange
    <2>2. ASSUME NEW c \in Calls, PayoutProceeds(c) \/ PayoutCallFails(c), ~Send(c)
          PROVE  PaymentsChange
        BY <2>2 DEF PaymentsChange, PayoutProceeds, PayoutCallFails, Submit, MarkSubmitted,
            NoteError, Sync, Poll, Settle, MarkSettled, ReverseFx, ReverseDebit,
            MarkReversed, NoteRef, Marks
    <2>3. ASSUME NEW c \in Calls, NEW t \in Transfers, AdminStarts(c, t)
          PROVE  PaymentsChange
        BY <2>3 DEF PaymentsChange, AdminStarts
    <2>4. ASSUME NEW t \in Transfers, NEW n \in 1..MaxSends, ProviderDecides(t, n)
          PROVE  PaymentsChange
        BY <2>4 DEF PaymentsChange, ProviderDecides
    <2> QED
        BY <1>4, <2>1, <2>2, <2>3, <2>4 DEF PayoutNext
<1>5. CASE Listen \/ Crash \/ \E rails \in SUBSET Rails : SetAuto(rails)
    BY <1>5 DEF PaymentsChange, Listen, Crash, SetAuto
<1> QED
    BY <1>1, <1>2, <1>3, <1>4, <1>5 DEF Next

\* An answer is for good.
AnswersStay ==
    \A t \in Transfers : \A n : \A answer \in Answers :
        Word(t, n, answer) => (Word(t, n, answer))'

LEMMA AnswersOnlyStay ==
    ASSUME IInv, [Next]_vars
    PROVE  AnswersStay
<1>1. CASE UNCHANGED payments
    BY <1>1 DEF AnswersStay, Word
<1>2. ASSUME NEW u \in Transfers, NEW m \in 1..MaxSends,
             NEW state \in {"pending", "paid", "failed"},
             MayAccept(u, m) \/ payments[u][m] = "pending",
             payments' = [payments EXCEPT ![u][m] = state]
      PROVE  AnswersStay
    <2>1. payments[u][m] \notin Answers
        BY <1>2 DEF MayAccept, Answers
    <2>2. \A t \in Transfers, n \in 1..MaxSends :
             payments'[t][n] = IF t = u /\ n = m THEN state ELSE payments[t][n]
        BY <1>2 DEF IInv, TypeOK
    <2> QED
        BY <2>1, <2>2 DEF AnswersStay, Word
<1> QED
    BY <1>1, <1>2, PaymentsOnlyChange DEF PaymentsChange

-----------------------------------------------------------------------------
(* What a step does to payouts and to the handlers that resolve them *)

Watched == {"send", "markSubmitted", "poll", "noteRef"} \cup SettlePcs \cup ReversePcs

OthersStand(c) == \A d \in Calls \ {c} : calls'[d] = calls[d]
Leaves(c) == OthersStand(c) /\ calls'[c].pc \notin Watched
Reaches(c, pc, ref) ==
    /\ OthersStand(c)
    /\ calls'[c].pc = pc
    /\ calls'[c].transfer = calls[c].transfer
    /\ calls'[c].ref = ref

OnlyPosts(key) == \A k \in Keys \ {key} : Posted(k)' => Posted(k)

\* Handlers stand or leave the watched steps, and nothing is resolved.
Unwatched ==
    /\ \A c \in Calls : calls'[c] = calls[c] \/ calls'[c].pc \notin Watched
    /\ \A t \in Transfers :
          /\ \/ payouts'[t] = payouts[t]
             \/ ~Exists(t) /\ payouts'[t].status = "created" /\ payouts'[t].ref = NoRef
          /\ Posted(SettleKey(t))' => Posted(SettleKey(t))
          /\ Posted(ReversalFxKey(t))' => Posted(ReversalFxKey(t))

\* A handler looks at its payout, or asks the provider.
Looks(c, t) ==
    /\ \/ At(c, "submit") /\ payouts[t].status = "created" /\ Reaches(c, "send", calls[c].ref)
       \/ At(c, "send") /\ Send(c) /\ \E n \in 1..MaxSends : Reaches(c, "markSubmitted", n)
       \/ At(c, "sync") /\ payouts[t].status = "submitted" /\ Reaches(c, "poll", payouts[t].ref)
       \/ At(c, "poll") /\ Word(t, calls[c].ref, "paid") /\ Reaches(c, "settle", calls[c].ref)
       \/ At(c, "poll") /\ Word(t, calls[c].ref, "failed") /\ Reaches(c, "reverseFx", calls[c].ref)
    /\ UNCHANGED <<journal, payouts>>

\* A handler posts.
Resolves(c, t) ==
    /\ \/ /\ At(c, "settle") /\ OnlyPosts(SettleKey(t))
          /\ Reaches(c, "markSettled", calls[c].ref) \/ Leaves(c)
       \/ /\ At(c, "reverseFx") /\ OnlyPosts(ReversalFxKey(t))
          /\ Reaches(c, "reverseDebit", calls[c].ref) \/ Leaves(c)
       \/ /\ At(c, "reverseDebit") /\ OnlyPosts(ReversalDebitKey(t))
          /\ Reaches(c, "markReversed", calls[c].ref) \/ Leaves(c)
    /\ UNCHANGED payouts

\* A handler writes the row.
Writes(c, t) ==
    /\ \/ At(c, "markSubmitted") /\ payouts'[t].ref = calls[c].ref
       \/ calls[c].pc \in {"markSettled", "markReversed"} /\ payouts'[t].ref = payouts[t].ref
    /\ payouts'[t].status # "created"
    /\ \A u \in Transfers \ {t} : payouts'[u] = payouts[u]
    /\ Leaves(c)
    /\ UNCHANGED journal

Resolution ==
    \/ Unwatched
    \/ \E c \in Calls, t \in Transfers :
          /\ calls[c] # Idle /\ calls[c].transfer = t
          /\ Looks(c, t) \/ Resolves(c, t) \/ Writes(c, t)

LEMMA KeysDiffer ==
    /\ \A t, u \in Transfers :
          /\ SettleKey(t) # DebitKey(u) /\ SettleKey(t) # FxKey(u)
          /\ SettleKey(t) # ReversalFxKey(u) /\ SettleKey(t) # ReversalDebitKey(u)
          /\ ReversalFxKey(t) # DebitKey(u) /\ ReversalFxKey(t) # FxKey(u)
          /\ ReversalFxKey(t) # ReversalDebitKey(u)
          /\ t # u => SettleKey(t) # SettleKey(u) /\ ReversalFxKey(t) # ReversalFxKey(u)
BY DEF DebitKey, FxKey, SettleKey, ReversalFxKey, ReversalDebitKey

\* How a handler moves.
LEMMA ReturnsLeave ==
    ASSUME TypeOK, NEW c \in Calls, Returns(c)
    PROVE  Leaves(c)
BY DEF Returns, TypeOK, Leaves, OthersStand, Idle, Watched, SettlePcs, ReversePcs

LEMMA GoesReach ==
    ASSUME TypeOK, NEW c \in Calls, calls[c] # Idle, NEW pc, GoesTo(c, pc)
    PROVE  Reaches(c, pc, calls[c].ref)
<1>1. calls[c] \in [pc : SagaPcs \cup PayoutPcs, transfer : Transfers,
                    saga : BOOLEAN, ref : Refs]
    BY DEF TypeOK, CallState
<1> DEFINE call == [calls[c] EXCEPT !.pc = pc]
<1>2. call.pc = pc /\ call.transfer = calls[c].transfer /\ call.ref = calls[c].ref
    BY <1>1
<1>3. calls' = [calls EXCEPT ![c] = call]
    BY DEF GoesTo
<1> HIDE DEF call
<1> QED
    BY <1>2, <1>3 DEF TypeOK, Reaches, OthersStand

LEMMA GoesReachWith ==
    ASSUME TypeOK, NEW c \in Calls, calls[c] # Idle, NEW pc, NEW ref,
           calls' = [calls EXCEPT ![c].pc = pc, ![c].ref = ref]
    PROVE  Reaches(c, pc, ref)
<1>1. calls[c] \in [pc : SagaPcs \cup PayoutPcs, transfer : Transfers,
                    saga : BOOLEAN, ref : Refs]
    BY DEF TypeOK, CallState
<1> DEFINE call == [calls[c] EXCEPT !.pc = pc, !.ref = ref]
<1>2. call.pc = pc /\ call.transfer = calls[c].transfer /\ call.ref = ref
    BY <1>1
<1>3. calls' = [calls EXCEPT ![c] = call]
    BY DEF TypeOK
<1> HIDE DEF call
<1> QED
    BY <1>2, <1>3 DEF TypeOK, Reaches, OthersStand

LEMMA ReachesLeave ==
    ASSUME NEW c, NEW pc, NEW ref, Reaches(c, pc, ref), pc \notin Watched
    PROVE  Leaves(c)
BY DEF Reaches, Leaves

LEMMA EndsLeave ==
    ASSUME TypeOK, NEW c \in Calls, calls[c] # Idle, PayoutEnds(c)
    PROVE  Leaves(c)
BY ReturnsLeave, GoesReach, ReachesLeave DEF PayoutEnds, Watched, SettlePcs, ReversePcs

LEMMA BeginningsLeave ==
    ASSUME TypeOK, NEW c \in Calls, NEW pc, NEW t, NEW saga, Starts(c, pc, t, saga),
           pc \notin Watched
    PROVE  Leaves(c)
BY DEF Starts, TypeOK, Leaves, OthersStand

LEMMA PostsOnce ==
    ASSUME TypeOK, NEW key \in Keys, NEW postings,
           \/ Post(key, postings)
           \/ Refuse(key, postings)
           \/ UNCHANGED ledgerVars
    PROVE  OnlyPosts(key)
BY DEF Post, Commit, Refuse, ledgerVars, OnlyPosts, Posted, TypeOK

-----------------------------------------------------------------------------
(* Every step *)

\* Handlers stand or leave, and rows and journals are as they were.
LEMMA LeavingIsUnwatched ==
    ASSUME NEW c \in Calls, Leaves(c), UNCHANGED <<journal, payouts>>
    PROVE  Resolution
BY DEF Leaves, OthersStand, Unwatched, Resolution, Posted

LEMMA RunsResolve ==
    ASSUME IInv, NEW c \in Calls, RunProceeds(c) \/ RunFails(c)
    PROVE  Resolution
<1>1. calls[c].pc \in SagaPcs
    BY DEF RunProceeds, RunFails, Load, Debit, MarkDebited, Fx, MarkBooked, CreatePayout,
           AutoDisburse, MarkCompleted, At, SagaPcs
<1>2. TypeOK /\ calls[c] # Idle /\ calls[c].transfer \in Transfers
    BY <1>1, InFlight DEF Pcs
<1>3. PICK t \in Transfers : t = calls[c].transfer
    BY <1>2
<1>4. ASSUME NEW pc, GoesTo(c, pc), pc \notin Watched PROVE Leaves(c)
    BY <1>2, <1>4, GoesReach, ReachesLeave
<1>5. \A pc \in SagaPcs \cup {"submit", "sync"} : pc \notin Watched
    BY DEF SagaPcs, Watched, SettlePcs, ReversePcs
<1>6. CASE Load(c)
    <2>1. Backed("load", t)
        BY <1>3, <1>6, InFlight DEF Load, At, Pcs, SagaPcs
    <2>2. transfers[t].status \in TransferStatus
        BY <1>2, <2>1, TransferRows DEF Backed
    <2>3. Returns(c) \/ \E pc \in {"debit", "fx", "payout"} : GoesTo(c, pc)
        BY <1>3, <1>6, <2>2 DEF Load, FirstStep, TransferStatus
    <2>4. Leaves(c)
        BY <1>2, <1>4, <1>5, <2>3, ReturnsLeave DEF SagaPcs
    <2> QED
        BY <1>6, <2>4, LeavingIsUnwatched DEF Load
<1>7. CASE Debit(c) \/ Fx(c)
    <2>1. /\ UNCHANGED payouts
          /\ \E pc \in {"markDebited", "markBooked"} : GoesTo(c, pc) \/ Returns(c)
          /\ OnlyPosts(DebitKey(t)) \/ OnlyPosts(FxKey(t))
        BY <1>2, <1>3, <1>7, PostsOnce, KeysExist DEF Debit, Fx, Posts
    <2>2. Leaves(c)
        BY <1>2, <1>4, <1>5, <2>1, ReturnsLeave DEF SagaPcs
    <2> QED
        BY <2>1, <2>2, KeysExist, KeysDiffer
           DEF Leaves, OthersStand, OnlyPosts, Unwatched, Resolution
<1>8. CASE MarkDebited(c) \/ MarkBooked(c) \/ MarkCompleted(c)
    <2>1. /\ UNCHANGED <<journal, payouts>>
          /\ Returns(c) \/ \E pc \in {"fx", "payout"} : GoesTo(c, pc)
        BY <1>8 DEF MarkDebited, MarkBooked, MarkCompleted, RunMarks
    <2>2. Leaves(c)
        BY <1>2, <1>4, <1>5, <2>1, ReturnsLeave DEF SagaPcs
    <2> QED
        BY <2>1, <2>2, LeavingIsUnwatched
<1>9. ASSUME NEW fee \in ProviderFees, CreatePayout(c, fee) PROVE Resolution
    <2>1. GoesTo(c, "auto") \/ Returns(c)
        BY <1>9 DEF CreatePayout
    <2>2. Leaves(c)
        BY <1>2, <1>4, <1>5, <2>1, ReturnsLeave DEF SagaPcs
    <2>3. /\ UNCHANGED journal
          /\ \A u \in Transfers :
                \/ payouts'[u] = payouts[u]
                \/ ~Exists(u) /\ payouts'[u].status = "created" /\ payouts'[u].ref = NoRef
        BY <1>2, <1>9 DEF CreatePayout, payoutCreate, Exists, TypeOK
    <2> QED
        BY <2>2, <2>3 DEF Leaves, OthersStand, Unwatched, Resolution, Posted
<1>10. CASE AutoDisburse(c)
    <2>1. GoesTo(c, "submit") \/ GoesTo(c, "markCompleted")
        BY <1>10 DEF AutoDisburse
    <2>2. Leaves(c)
        BY <1>4, <1>5, <2>1 DEF SagaPcs
    <2> QED
        BY <1>10, <2>2, LeavingIsUnwatched DEF AutoDisburse
<1>11. CASE RunFails(c)
    BY <1>2, <1>11, ReturnsLeave, LeavingIsUnwatched DEF RunFails
<1> QED
    BY <1>6, <1>7, <1>8, <1>9, <1>10, <1>11 DEF RunProceeds

LEMMA StartsResolve ==
    ASSUME IInv, NEW c \in Calls, NEW t \in Transfers,
           \/ \E sender \in Customers, quote \in Quotes, rail \in Rails \cup {"none"} :
                 Initiate(c, t, sender, quote, rail)
           \/ Recover(c, t)
           \/ AdminStarts(c, t) /\ ManualOps = {}
    PROVE  Resolution
<1>1. /\ UNCHANGED <<journal, payouts>>
      /\ \/ UNCHANGED calls
         \/ \E pc \in {"load", "submit", "sync"}, saga \in BOOLEAN : Starts(c, pc, t, saga)
    BY DEF Initiate, Recover, AdminStarts, AdminSubmit, AdminSync, ReleaseManually,
           FailManually
<1>2. CASE UNCHANGED calls
    BY <1>1, <1>2 DEF Unwatched, Resolution, Posted
<1>3. ASSUME NEW pc \in {"load", "submit", "sync"}, NEW saga \in BOOLEAN,
             Starts(c, pc, t, saga)
      PROVE  Resolution
    <2>1. pc \notin Watched
        BY DEF Watched, SettlePcs, ReversePcs
    <2> QED
        BY <1>1, <1>3, <2>1, BeginningsLeave, LeavingIsUnwatched DEF IInv
<1> QED
    BY <1>1, <1>2, <1>3

LEMMA LooksResolve ==
    ASSUME IInv, Provider # "natcash", NEW c \in Calls,
           Submit(c) \/ Send(c) \/ NoteError(c) \/ Sync(c) \/ Poll(c) \/ PayoutCallFails(c)
    PROVE  Resolution
<1>1. calls[c].pc \in PayoutPcs /\ UNCHANGED <<journal, payouts>>
    BY DEF Submit, Send, NoteError, Sync, Poll, PayoutCallFails, At, PayoutPcs
<1>2. TypeOK /\ calls[c] # Idle /\ calls[c].transfer \in Transfers
    BY <1>1, InFlight DEF Pcs
<1>3. PICK t \in Transfers : t = calls[c].transfer
    BY <1>2
<1>4. ASSUME Looks(c, t) PROVE Resolution
    BY <1>2, <1>3, <1>4 DEF Resolution
<1>5. ASSUME Leaves(c) PROVE Resolution
    BY <1>1, <1>5, LeavingIsUnwatched
<1>6. ASSUME PayoutEnds(c) PROVE Resolution
    BY <1>2, <1>5, <1>6, EndsLeave
<1>7. ASSUME NEW pc \in {"sync", "noteError"}, GoesTo(c, pc) PROVE Resolution
    <2>1. pc \notin Watched
        BY DEF Watched, SettlePcs, ReversePcs
    <2> QED
        BY <1>2, <1>5, <1>7, <2>1, GoesReach, ReachesLeave
<1>8. CASE Submit(c)
    <2>1. \/ GoesTo(c, "sync") \/ PayoutEnds(c)
          \/ payouts[t].status = "created" /\ GoesTo(c, "send")
        BY <1>3, <1>8 DEF Submit, AfterSubmit
    <2>2. CASE payouts[t].status = "created" /\ GoesTo(c, "send")
        <3>1. Reaches(c, "send", calls[c].ref)
            BY <1>2, <2>2, GoesReach
        <3> QED
            BY <1>1, <1>4, <1>8, <2>2, <3>1 DEF Looks, Submit
    <2> QED
        BY <1>6, <1>7, <2>1, <2>2
<1>9. CASE Send(c)
    <2>1. \/ GoesTo(c, "noteError")
          \/ \E n \in 1..MaxSends :
                calls' = [calls EXCEPT ![c].pc = "markSubmitted", ![c].ref = n]
        BY <1>9 DEF Send
    <2>2. ASSUME NEW n \in 1..MaxSends,
                 calls' = [calls EXCEPT ![c].pc = "markSubmitted", ![c].ref = n]
          PROVE  Resolution
        <3>1. Reaches(c, "markSubmitted", n)
            BY <1>2, <2>2, GoesReachWith
        <3> QED
            BY <1>1, <1>4, <1>9, <3>1 DEF Looks, Send
    <2> QED
        BY <1>7, <2>1, <2>2
<1>10. CASE NoteError(c)
    BY <1>6, <1>7, <1>10 DEF NoteError, AfterSubmit
<1>11. CASE Sync(c)
    <2>1. \/ PayoutEnds(c)
          \/ /\ payouts[t].status = "submitted"
             /\ calls' = [calls EXCEPT ![c].pc = "poll", ![c].ref = payouts[t].ref]
        BY <1>3, <1>11 DEF Sync
    <2>2. CASE /\ payouts[t].status = "submitted"
               /\ calls' = [calls EXCEPT ![c].pc = "poll", ![c].ref = payouts[t].ref]
        <3>1. Reaches(c, "poll", payouts[t].ref)
            BY <1>2, <2>2, GoesReachWith
        <3> QED
            BY <1>1, <1>4, <1>11, <2>2, <3>1 DEF Looks, Sync
    <2> QED
        BY <1>6, <2>1, <2>2
<1>12. CASE Poll(c)
    <2>1. \/ PayoutEnds(c)
          \/ Word(t, calls[c].ref, "paid") /\ GoesTo(c, "settle")
          \/ Word(t, calls[c].ref, "failed") /\ GoesTo(c, "reverseFx")
        BY <1>3, <1>12 DEF Poll, Reports, Word
    <2>2. CASE Word(t, calls[c].ref, "paid") /\ GoesTo(c, "settle")
        <3>1. Reaches(c, "settle", calls[c].ref)
            BY <1>2, <2>2, GoesReach
        <3> QED
            BY <1>1, <1>4, <1>12, <2>2, <3>1 DEF Looks, Poll
    <2>3. CASE Word(t, calls[c].ref, "failed") /\ GoesTo(c, "reverseFx")
        <3>1. Reaches(c, "reverseFx", calls[c].ref)
            BY <1>2, <2>3, GoesReach
        <3> QED
            BY <1>1, <1>4, <1>12, <2>3, <3>1 DEF Looks, Poll
    <2> QED
        BY <1>6, <2>1, <2>2, <2>3
<1>13. CASE PayoutCallFails(c)
    BY <1>6, <1>13 DEF PayoutCallFails
<1> QED
    BY <1>8, <1>9, <1>10, <1>11, <1>12, <1>13

LEMMA PostsResolve ==
    ASSUME IInv, NEW c \in Calls, Settle(c) \/ ReverseFx(c) \/ ReverseDebit(c)
    PROVE  Resolution
<1>1. calls[c].pc \in PayoutPcs /\ UNCHANGED payouts
    BY DEF Settle, ReverseFx, ReverseDebit, At, PayoutPcs
<1>2. TypeOK /\ calls[c] # Idle /\ calls[c].transfer \in Transfers
    BY <1>1, InFlight DEF Pcs
<1>3. PICK t \in Transfers : t = calls[c].transfer
    BY <1>2
<1>4. ASSUME Resolves(c, t) PROVE Resolution
    BY <1>2, <1>3, <1>4 DEF Resolution
<1>5. ASSUME PayoutEnds(c) PROVE Leaves(c)
    BY <1>2, <1>5, EndsLeave
<1>6. ASSUME NEW pc, GoesTo(c, pc) PROVE Reaches(c, pc, calls[c].ref)
    BY <1>2, <1>6, GoesReach
<1>7. CASE Settle(c)
    <2>1. OnlyPosts(SettleKey(t))
        BY <1>2, <1>3, <1>7, PostsOnce, KeysExist DEF Settle, Posts
    <2>2. GoesTo(c, "markSettled") \/ PayoutEnds(c)
        BY <1>7 DEF Settle, Posts
    <2> QED
        BY <1>1, <1>4, <1>5, <1>6, <1>7, <2>1, <2>2 DEF Resolves, Settle
<1>8. CASE ReverseFx(c)
    <2>1. OnlyPosts(ReversalFxKey(t))
        BY <1>2, <1>3, <1>8, PostsOnce, KeysExist DEF ReverseFx, Posts
    <2>2. GoesTo(c, "reverseDebit") \/ PayoutEnds(c)
        BY <1>8 DEF ReverseFx, Posts
    <2> QED
        BY <1>1, <1>4, <1>5, <1>6, <1>8, <2>1, <2>2 DEF Resolves, ReverseFx
<1>9. CASE ReverseDebit(c)
    <2>1. OnlyPosts(ReversalDebitKey(t))
        BY <1>2, <1>3, <1>9, PostsOnce, KeysExist DEF ReverseDebit, Posts
    <2>2. GoesTo(c, "markReversed") \/ PayoutEnds(c)
        BY <1>9 DEF ReverseDebit, Posts
    <2> QED
        BY <1>1, <1>4, <1>5, <1>6, <1>9, <2>1, <2>2 DEF Resolves, ReverseDebit
<1> QED
    BY <1>7, <1>8, <1>9

LEMMA WritesResolve ==
    ASSUME IInv, NEW c \in Calls, MarkSubmitted(c) \/ MarkSettled(c) \/ MarkReversed(c)
    PROVE  Resolution
<1>1. calls[c].pc \in PayoutPcs /\ UNCHANGED journal
    BY DEF MarkSubmitted, MarkSettled, MarkReversed, Marks, At, PayoutPcs
<1>2. /\ TypeOK /\ calls[c] # Idle /\ calls[c].transfer \in Transfers
      /\ Backed(calls[c].pc, calls[c].transfer)
    BY <1>1, InFlight DEF Pcs
<1>3. PICK t \in Transfers : t = calls[c].transfer
    BY <1>2
<1>4. payouts[t] \in Payout
    BY <1>1, <1>2, <1>3, PayoutRows DEF Backed
<1>5. Leaves(c)
    <2>1. GoesTo(c, "sync") \/ PayoutEnds(c)
        BY DEF MarkSubmitted, MarkSettled, MarkReversed, Marks, AfterSubmit
    <2>2. "sync" \notin Watched
        BY DEF Watched, SettlePcs, ReversePcs
    <2> QED
        BY <1>2, <2>1, <2>2, EndsLeave, GoesReach, ReachesLeave
<1>6. CASE MarkSubmitted(c)
    <2> DEFINE row == [payouts[t] EXCEPT !.status = "submitted", !.ref = calls[c].ref]
    <2>1. row.status = "submitted" /\ row.ref = calls[c].ref
        BY <1>4 DEF Payout
    <2>2. payouts' = [payouts EXCEPT ![t] = row]
        BY <1>2, <1>3, <1>6 DEF MarkSubmitted, TypeOK
    <2> HIDE DEF row
    <2>3. /\ payouts'[t].status # "created" /\ payouts'[t].ref = calls[c].ref
          /\ \A u \in Transfers \ {t} : payouts'[u] = payouts[u]
        BY <1>2, <2>1, <2>2 DEF TypeOK
    <2> QED
        BY <1>1, <1>2, <1>3, <1>5, <1>6, <2>3 DEF Writes, Resolution, MarkSubmitted
<1>7. CASE MarkSettled(c) \/ MarkReversed(c)
    <2>1. PICK status \in {"settled", "reversed"} :
             payouts' = [payouts EXCEPT ![t].status = status]
        BY <1>3, <1>7 DEF MarkSettled, MarkReversed, Marks
    <2> DEFINE row == [payouts[t] EXCEPT !.status = status]
    <2>2. row.status = status /\ row.ref = payouts[t].ref
        BY <1>4 DEF Payout
    <2>3. payouts' = [payouts EXCEPT ![t] = row]
        BY <2>1
    <2> HIDE DEF row
    <2>4. /\ payouts'[t].status # "created" /\ payouts'[t].ref = payouts[t].ref
          /\ \A u \in Transfers \ {t} : payouts'[u] = payouts[u]
        BY <1>2, <2>2, <2>3 DEF TypeOK
    <2>5. calls[c].pc \in {"markSettled", "markReversed"}
        BY <1>7 DEF MarkSettled, MarkReversed, At
    <2> QED
        BY <1>1, <1>2, <1>3, <1>5, <2>4, <2>5 DEF Writes, Resolution
<1> QED
    BY <1>6, <1>7

LEMMA StepsResolve ==
    ASSUME IInv, HandlersHaveWord, Provider # "natcash", ManualOps = {}, [Next]_vars
    PROVE  Resolution
<1>1. CASE UNCHANGED vars
    BY <1>1 DEF vars, Unwatched, Resolution, Posted
<1>2. CASE \E c \in Calls, t \in Transfers :
              \/ \E sender \in Customers, quote \in Quotes, rail \in Rails \cup {"none"} :
                    Initiate(c, t, sender, quote, rail)
              \/ Recover(c, t)
    BY <1>2, StartsResolve
<1>3. ASSUME NEW c \in Calls, RunProceeds(c) \/ RunFails(c) PROVE Resolution
    BY <1>3, RunsResolve
<1>4. CASE PayoutNext
    <2>1. ASSUME NEW c \in Calls, PayoutProceeds(c) \/ PayoutCallFails(c) PROVE Resolution
        <3>1. ~NoteRef(c)
            BY DEF NoteRef, At, HandlersHaveWord
        <3> QED
            BY <2>1, <3>1, LooksResolve, PostsResolve, WritesResolve DEF PayoutProceeds
    <2>2. ASSUME NEW c \in Calls, NEW t \in Transfers, AdminStarts(c, t) PROVE Resolution
        BY <2>2, StartsResolve
    <2>3. ASSUME NEW t \in Transfers, NEW n \in 1..MaxSends, ProviderDecides(t, n)
          PROVE  Resolution
        BY <2>3 DEF ProviderDecides, Unwatched, Resolution, Posted
    <2> QED
        BY <1>4, <2>1, <2>2, <2>3 DEF PayoutNext
<1>5. CASE Listen \/ \E rails \in SUBSET Rails : SetAuto(rails)
    BY <1>5 DEF Listen, SetAuto, Unwatched, Resolution, Posted
<1>6. CASE Crash
    <2>1. \A c \in Calls : calls'[c].pc \notin Watched
        BY <1>6 DEF Crash, Idle, Watched, SettlePcs, ReversePcs
    <2> QED
        BY <1>6, <2>1 DEF Crash, Unwatched, Resolution, Posted
<1> QED
    BY <1>1, <1>2, <1>3, <1>4, <1>5, <1>6 DEF Next

-----------------------------------------------------------------------------
(* The provider's word is followed *)

\* A handler that is at a watched step stood there, or moved there with its payment.
LEMMA WordIsKept ==
    ASSUME IInv, WordInv, AnswersStay, Resolution
    PROVE  WordInv'
<1>1. \A c \in Calls : calls[c].pc \in Watched => calls[c].transfer \in Transfers
    BY CallFields DEF IInv, Pcs, PayoutPcs, Watched, SettlePcs, ReversePcs
<1>2. \A t \in Transfers : \A n :
         /\ Word(t, n, "paid") => (Word(t, n, "paid"))'
         /\ Word(t, n, "failed") => (Word(t, n, "failed"))'
    BY DEF AnswersStay, Answers
<1>3. ASSUME NEW c \in Calls, calls'[c] = calls[c] \/ calls'[c].pc \notin Watched
      PROVE  /\ calls'[c].pc # "noteRef"
             /\ calls'[c].pc \in SettlePcs =>
                   (Word(calls[c].transfer, calls[c].ref, "paid"))'
             /\ calls'[c].pc \in ReversePcs =>
                   (Word(calls[c].transfer, calls[c].ref, "failed"))'
    <2>1. CASE calls'[c].pc \notin Watched
        BY <2>1 DEF Watched
    <2>2. CASE calls'[c] = calls[c] /\ calls[c].pc \in Watched
        <3>1. calls[c].transfer \in Transfers
            BY <1>1, <2>2
        <3>2. /\ calls[c].pc # "noteRef"
              /\ calls[c].pc \in SettlePcs => Word(calls[c].transfer, calls[c].ref, "paid")
              /\ calls[c].pc \in ReversePcs => Word(calls[c].transfer, calls[c].ref, "failed")
            BY DEF WordInv, HandlersHaveWord
        <3>3. PICK t, n : t = calls[c].transfer /\ n = calls[c].ref
            OBVIOUS
        <3>4. calls'[c].transfer = t /\ calls'[c].ref = n
            BY <2>2, <3>3
        <3> QED
            BY <1>2, <2>2, <3>1, <3>2, <3>3, <3>4
    <2> QED
        BY <1>3, <2>1, <2>2
<1>4. ASSUME \A t \in Transfers :
                /\ Posted(SettleKey(t))' /\ ~Posted(SettleKey(t)) =>
                      \E n : Word(t, n, "paid")
                /\ Posted(ReversalFxKey(t))' /\ ~Posted(ReversalFxKey(t)) =>
                      \E n : Word(t, n, "failed")
      PROVE  ResolutionFollowsProvider'
    <2> SUFFICES ASSUME NEW t \in Transfers
                 PROVE  /\ Posted(SettleKey(t))' =>
                              \E n \in 1..MaxSends : payments'[t][n] = "paid"
                        /\ Posted(ReversalFxKey(t))' =>
                              \E n \in 1..MaxSends : payments'[t][n] = "failed"
        BY DEF ResolutionFollowsProvider
    <2>1. Posted(SettleKey(t))' => \E n : Word(t, n, "paid")
        BY <1>4 DEF WordInv, ResolutionFollowsProvider, Word
    <2>2. Posted(ReversalFxKey(t))' => \E n : Word(t, n, "failed")
        BY <1>4 DEF WordInv, ResolutionFollowsProvider, Word
    <2> QED
        BY <1>2, <2>1, <2>2 DEF Word
<1>5. CASE Unwatched
    <2>1. HandlersHaveWord'
        BY <1>3, <1>5 DEF Unwatched, HandlersHaveWord
    <2>2. ResolutionFollowsProvider'
        BY <1>4, <1>5 DEF Unwatched
    <2> QED
        BY <2>1, <2>2 DEF WordInv
<1>6. ASSUME NEW c \in Calls, NEW t \in Transfers,
             calls[c] # Idle, calls[c].transfer = t,
             Looks(c, t) \/ Resolves(c, t) \/ Writes(c, t)
      PROVE  WordInv'
    <2>1. PICK n : n = calls[c].ref
        OBVIOUS
    <2>2. /\ calls[c].pc \in SettlePcs => Word(t, n, "paid")
          /\ calls[c].pc \in ReversePcs => Word(t, n, "failed")
        BY <1>6, <2>1 DEF WordInv, HandlersHaveWord
    <2>3. OthersStand(c)
        BY <1>6 DEF Looks, Resolves, Writes, Reaches, Leaves
    <2>4. \/ calls'[c].pc \notin Watched
          \/ calls'[c].pc \in {"send", "markSubmitted", "poll"}
          \/ /\ calls'[c].pc \in SettlePcs
             /\ calls'[c].transfer = t /\ calls'[c].ref = n /\ Word(t, n, "paid")
          \/ /\ calls'[c].pc \in ReversePcs
             /\ calls'[c].transfer = t /\ calls'[c].ref = n /\ Word(t, n, "failed")
        <3>1. CASE Looks(c, t)
            BY <1>6, <2>1, <3>1 DEF Looks, Reaches, SettlePcs, ReversePcs
        <3>2. CASE Resolves(c, t)
            BY <1>6, <2>1, <2>2, <3>2 DEF Resolves, Reaches, Leaves, At, SettlePcs, ReversePcs
        <3>3. CASE Writes(c, t)
            BY <3>3 DEF Writes, Leaves
        <3> QED
            BY <1>6, <3>1, <3>2, <3>3
    <2>5. /\ calls'[c].pc # "noteRef"
          /\ calls'[c].pc \in SettlePcs => (Word(calls[c].transfer, calls[c].ref, "paid"))'
          /\ calls'[c].pc \in ReversePcs => (Word(calls[c].transfer, calls[c].ref, "failed"))'
        BY <1>2, <2>4 DEF Watched, SettlePcs, ReversePcs
    <2>6. HandlersHaveWord'
        BY <1>3, <2>3, <2>5 DEF OthersStand, HandlersHaveWord
    <2>7. ResolutionFollowsProvider'
        <3> SUFFICES ASSUME NEW u \in Transfers
                     PROVE  /\ Posted(SettleKey(u))' /\ ~Posted(SettleKey(u)) =>
                                  \E m : Word(u, m, "paid")
                            /\ Posted(ReversalFxKey(u))' /\ ~Posted(ReversalFxKey(u)) =>
                                  \E m : Word(u, m, "failed")
            BY <1>4
        <3>1. CASE UNCHANGED journal
            BY <3>1 DEF Posted
        <3>2. CASE Resolves(c, t)
            <4>1. /\ SettleKey(u) \in Keys /\ ReversalFxKey(u) \in Keys
                BY KeysExist
            <4>2. CASE At(c, "settle") /\ OnlyPosts(SettleKey(t))
                <5>1. Word(t, n, "paid")
                    BY <2>2, <4>2 DEF At, SettlePcs
                <5> QED
                    BY <4>1, <4>2, <5>1, KeysDiffer DEF OnlyPosts
            <4>3. CASE At(c, "reverseFx") /\ OnlyPosts(ReversalFxKey(t))
                <5>1. Word(t, n, "failed")
                    BY <2>2, <4>3 DEF At, ReversePcs
                <5> QED
                    BY <4>1, <4>3, <5>1, KeysDiffer DEF OnlyPosts
            <4>4. CASE OnlyPosts(ReversalDebitKey(t))
                BY <4>1, <4>4, KeysDiffer DEF OnlyPosts
            <4> QED
                BY <3>2, <4>2, <4>3, <4>4 DEF Resolves
        <3> QED
            BY <1>6, <3>1, <3>2 DEF Looks, Writes
    <2> QED
        BY <2>6, <2>7 DEF WordInv
<1> QED
    BY <1>5, <1>6 DEF Resolution

-----------------------------------------------------------------------------
(* One handler at a time *)

\* Row t refers to the same payment and is not created again.
ReferenceStays(t) ==
    payouts[t].status # "created" =>
        payouts'[t].status # "created" /\ payouts'[t].ref = payouts[t].ref

\* Only the handler of a row changes what it refers to.
LEMMA RowsChangeByTheirHandler ==
    ASSUME IInv, HandlersRefer, Resolution, NEW t \in Transfers, Exists(t)
    PROVE  /\ ReferenceStays(t)
           /\ \/ payouts'[t] = payouts[t]
              \/ \E c \in Calls : /\ calls[c] # Idle /\ calls[c].transfer = t
                                  /\ calls'[c].pc \notin Watched
<1>1. CASE Unwatched
    BY <1>1 DEF Unwatched, ReferenceStays
<1>2. ASSUME NEW c \in Calls, NEW u \in Transfers,
             calls[c] # Idle, calls[c].transfer = u,
             Looks(c, u) \/ Resolves(c, u) \/ Writes(c, u)
      PROVE  /\ ReferenceStays(t)
             /\ \/ payouts'[t] = payouts[t]
                \/ /\ calls[c].transfer = t /\ calls'[c].pc \notin Watched
    <2>1. CASE UNCHANGED payouts
        BY <2>1 DEF ReferenceStays
    <2>2. CASE Writes(c, u) /\ t # u
        BY <2>2 DEF Writes, ReferenceStays
    <2>3. CASE Writes(c, u) /\ t = u
        <3>1. calls[c].pc = "markSubmitted" => payouts[t].status = "created"
            BY <1>2, <2>3 DEF HandlersRefer
        <3> QED
            BY <1>2, <2>3, <3>1 DEF Writes, At, Leaves, ReferenceStays
    <2> QED
        BY <1>2, <2>1, <2>2, <2>3 DEF Looks, Resolves
<1> QED
    BY <1>1, <1>2 DEF Resolution

LEMMA ReferencesAreKept ==
    ASSUME IInv, HandlersRefer, OneHandlerEach, Resolution
    PROVE  HandlersRefer'
<1>1. \A c \in Calls : calls[c].pc \in Watched =>
         /\ calls[c] # Idle /\ calls[c].transfer \in Transfers
         /\ Exists(calls[c].transfer)
    BY CallFields DEF IInv, CallsAreBacked, Backed, Pcs, PayoutPcs, Watched, SettlePcs,
                      ReversePcs
<1> DEFINE Refers(c) ==
       /\ calls[c].pc \in {"send", "markSubmitted"} =>
             payouts[calls[c].transfer].status = "created"
       /\ calls[c].pc \in {"poll"} \cup SettlePcs \cup ReversePcs =>
             /\ payouts[calls[c].transfer].status # "created"
             /\ payouts[calls[c].transfer].ref = calls[c].ref
<1>2. \A c \in Calls : Refers(c)
    BY DEF HandlersRefer
<1>3. ASSUME NEW c \in Calls, calls'[c].pc \notin Watched PROVE (Refers(c))'
    BY <1>3 DEF Watched
<1>4. ASSUME NEW c \in Calls, calls'[c] = calls[c], calls[c].pc \in Watched
      PROVE  (Refers(c))'
    <2>1. PICK t \in Transfers : t = calls[c].transfer
        BY <1>1, <1>4
    <2>2. calls[c] # Idle /\ Exists(t)
        BY <1>1, <1>4, <2>1
    <2>3. payouts'[t] = payouts[t]
        <3> SUFFICES ASSUME NEW d \in Calls, calls[d] # Idle, calls[d].transfer = t,
                            calls'[d].pc \notin Watched
                     PROVE  FALSE
            BY <2>2, RowsChangeByTheirHandler
        <3>1. d # c
            BY <1>4
        <3> QED
            BY <2>1, <2>2, <3>1 DEF OneHandlerEach
    <2>4. calls'[c].transfer = t /\ calls'[c].ref = calls[c].ref /\ calls'[c].pc = calls[c].pc
        BY <1>4, <2>1
    <2> QED
        BY <1>2, <2>1, <2>3, <2>4
<1>5. CASE Unwatched
    <2> HIDE DEF Refers
    <2>1. \A c \in Calls : (Refers(c))'
        BY <1>3, <1>4, <1>5 DEF Unwatched
    <2> QED
        BY <2>1 DEF Refers, HandlersRefer
<1>6. ASSUME NEW c \in Calls, NEW t \in Transfers,
             calls[c] # Idle, calls[c].transfer = t,
             Looks(c, t) \/ Resolves(c, t) \/ Writes(c, t)
      PROVE  HandlersRefer'
    <2>1. OthersStand(c)
        BY <1>6 DEF Looks, Resolves, Writes, Reaches, Leaves
    <2>2. (Refers(c))'
        <3>1. CASE Leaves(c)
            BY <1>3, <3>1 DEF Leaves
        <3>2. CASE Looks(c, t)
            <4>1. UNCHANGED payouts /\ calls'[c].transfer = t
                BY <1>6, <3>2 DEF Looks, Reaches
            <4>2. \/ calls'[c].pc = "send" /\ payouts[t].status = "created"
                  \/ At(c, "send") /\ calls'[c].pc = "markSubmitted"
                  \/ /\ calls'[c].pc = "poll" /\ payouts[t].status # "created"
                     /\ calls'[c].ref = payouts[t].ref
                  \/ /\ At(c, "poll") /\ calls'[c].ref = calls[c].ref
                     /\ calls'[c].pc \in {"settle", "reverseFx"}
                BY <1>6, <3>2 DEF Looks, Reaches
            <4> QED
                BY <1>2, <1>6, <4>1, <4>2 DEF At, SettlePcs, ReversePcs
        <3>3. CASE Resolves(c, t) /\ ~Leaves(c)
            <4>1. UNCHANGED payouts /\ calls'[c].transfer = t /\ calls'[c].ref = calls[c].ref
                BY <1>6, <3>3 DEF Resolves, Reaches
            <4>2. /\ calls[c].pc \in SettlePcs \cup ReversePcs
                  /\ calls'[c].pc \in {"markSettled", "reverseDebit", "markReversed"}
                BY <3>3 DEF Resolves, Reaches, At, SettlePcs, ReversePcs
            <4> QED
                BY <1>2, <1>6, <4>1, <4>2
        <3> QED
            BY <1>6, <3>1, <3>2, <3>3 DEF Writes
    <2> HIDE DEF Refers
    <2>3. \A d \in Calls : (Refers(d))'
        BY <1>3, <1>4, <2>1, <2>2 DEF OthersStand
    <2> QED
        BY <2>3 DEF Refers, HandlersRefer
<1> QED
    BY <1>5, <1>6 DEF Resolution

LEMMA ResolutionIsKept ==
    ASSUME IInv, IInv', OneInv, AnswersStay, Resolution
    PROVE  ResolvedAsReferred'
<1> SUFFICES ASSUME NEW t \in Transfers
             PROVE  /\ Posted(SettleKey(t))' =>
                          /\ payouts'[t].status # "created"
                          /\ (Word(t, payouts[t].ref, "paid"))'
                    /\ Posted(ReversalFxKey(t))' =>
                          /\ payouts'[t].status # "created"
                          /\ (Word(t, payouts[t].ref, "failed"))'
    BY DEF ResolvedAsReferred
<1>1. ASSUME NEW answer \in Answers, Exists(t), payouts[t].status # "created",
             Word(t, payouts[t].ref, answer)
      PROVE  payouts'[t].status # "created" /\ (Word(t, payouts[t].ref, answer))'
    <2>1. PICK n : n = payouts[t].ref
        OBVIOUS
    <2>2. payouts'[t].status # "created" /\ payouts'[t].ref = n
        BY <1>1, <2>1, RowsChangeByTheirHandler DEF OneInv, ReferenceStays
    <2>3. (Word(t, n, answer))'
        BY <1>1, <2>1 DEF AnswersStay
    <2> QED
        BY <2>2, <2>3
<1>2. ASSUME Posted(SettleKey(t))'
      PROVE  /\ Exists(t) /\ payouts[t].status # "created"
             /\ Word(t, payouts[t].ref, "paid")
    <2>1. CASE Posted(SettleKey(t))
        BY <2>1 DEF OneInv, ResolvedAsReferred, IInv, JournalsAreBuilt, MayPost, Kinds, SettleKey
    <2>2. CASE ~Posted(SettleKey(t))
        <3>1. SettleKey(t) \in Keys
            BY KeysExist
        <3>2. PICK c \in Calls, u \in Transfers :
                 calls[c] # Idle /\ calls[c].transfer = u /\ Resolves(c, u)
            BY <1>2, <2>2 DEF Resolution, Unwatched, Looks, Writes, Posted
        <3>3. At(c, "settle") /\ OnlyPosts(SettleKey(u))
            BY <1>2, <2>2, <3>1, <3>2, KeysDiffer DEF Resolves, OnlyPosts
        <3>4. u = t
            BY <1>2, <2>2, <3>1, <3>3, KeysDiffer DEF OnlyPosts
        <3>5. Backed("settle", t)
            BY <3>2, <3>3, <3>4 DEF At, IInv, CallsAreBacked
        <3> QED
            BY <3>2, <3>3, <3>4, <3>5
               DEF At, OneInv, WordInv, HandlersHaveWord, HandlersRefer, SettlePcs, Backed, PayoutPcs
    <2> QED
        BY <2>1, <2>2
<1>3. ASSUME Posted(ReversalFxKey(t))'
      PROVE  /\ Exists(t) /\ payouts[t].status # "created"
             /\ Word(t, payouts[t].ref, "failed")
    <2>1. CASE Posted(ReversalFxKey(t))
        BY <2>1 DEF OneInv, ResolvedAsReferred, IInv, JournalsAreBuilt, MayPost, Kinds,
                    ReversalFxKey
    <2>2. CASE ~Posted(ReversalFxKey(t))
        <3>1. ReversalFxKey(t) \in Keys
            BY KeysExist
        <3>2. PICK c \in Calls, u \in Transfers :
                 calls[c] # Idle /\ calls[c].transfer = u /\ Resolves(c, u)
            BY <1>3, <2>2 DEF Resolution, Unwatched, Looks, Writes, Posted
        <3>3. At(c, "reverseFx") /\ OnlyPosts(ReversalFxKey(u))
            BY <1>3, <2>2, <3>1, <3>2, KeysDiffer DEF Resolves, OnlyPosts
        <3>4. u = t
            BY <1>3, <2>2, <3>1, <3>3, KeysDiffer DEF OnlyPosts
        <3>5. Backed("reverseFx", t)
            BY <3>2, <3>3, <3>4 DEF At, IInv, CallsAreBacked
        <3> QED
            BY <3>2, <3>3, <3>4, <3>5
               DEF At, OneInv, WordInv, HandlersHaveWord, HandlersRefer, ReversePcs, Backed, PayoutPcs
    <2> QED
        BY <2>1, <2>2
<1> QED
    BY <1>1, <1>2, <1>3 DEF Answers

-----------------------------------------------------------------------------

\* Payouts are resolved by what a status request answers: Natcash has none, and an
\* operator needs none.
ProviderIsAsked == Provider # "natcash" /\ ManualOps = {}

LEMMA InitIsOneInv == Init => OneInv
<1>1. \A k \in Keys : Init => ~Posted(k)
    BY DEF Init, Posted
<1> QED
    BY <1>1, KeysExist DEF Init, OneInv, WordInv, HandlersHaveWord, HandlersRefer,
       ResolvedAsReferred, ResolutionFollowsProvider, Idle, SettlePcs, ReversePcs

\* Money leaves payout_suspense on the provider's word only, however runs, requests,
\* failures and restarts interleave, as long as the port answers status requests and
\* the operator does not resolve payouts by hand (poll, getStatus).
THEOREM ResolutionsFollowTheProvider == ProviderIsAsked /\ Spec => []ResolutionFollowsProvider
<1>1. ProviderIsAsked => (IInv /\ WordInv /\ [Next]_vars => WordInv')
    BY WordIsKept, AnswersOnlyStay, StepsResolve DEF ProviderIsAsked, WordInv
<1>2. WordInv => ResolutionFollowsProvider
    BY DEF WordInv
<1>3. Init => WordInv
    BY InitIsOneInv DEF OneInv
<1>4. CASE ProviderIsAsked
    BY <1>1, <1>2, <1>3, <1>4, InitEstablishesIInv, StepsKeepIInv, PTL DEF Spec
<1> QED
    BY <1>4

\* A payout is resolved once, and as the payment it refers to was decided, as long as
\* besides no two handlers work on one transfer at a time (submit, sync).
THEOREM PayoutsAreResolvedOnce ==
    ProviderIsAsked /\ Spec /\ []OneHandlerEach => []ResolvedOnceOnItsWord
<1>1. ProviderIsAsked => (IInv /\ IInv' /\ OneInv /\ OneHandlerEach /\ [Next]_vars => OneInv')
    <2> SUFFICES ASSUME ProviderIsAsked, IInv, IInv', OneInv, OneHandlerEach, [Next]_vars
                 PROVE  OneInv'
        OBVIOUS
    <2>1. AnswersStay /\ Resolution
        BY AnswersOnlyStay, StepsResolve DEF ProviderIsAsked, OneInv, WordInv
    <2> QED
        BY <2>1, WordIsKept, ReferencesAreKept, ResolutionIsKept DEF OneInv
<1>2. OneInv => ResolvedOnceOnItsWord
    BY DEF OneInv, WordInv, ResolvedAsReferred, Word, ResolvedOnceOnItsWord,
           NeverSettledAndReversed
<1>3. CASE ProviderIsAsked
    BY <1>1, <1>2, <1>3, InitIsOneInv, InitEstablishesIInv, StepsKeepIInv, PTL DEF Spec
<1> QED
    BY <1>3

-----------------------------------------------------------------------------
(* The payment that is recorded is the last *)

OnlyUpTo(t, n) == \A m \in 1..MaxSends : m > n => payments[t][m] = "none"

\* A provider numbers the payments of a transfer as it accepts them; a row refers to
\* none before it is submitted and to the last one afterwards, and so does the handler
\* that is about to write it.
LastInv ==
    /\ \A t \in Transfers, n \in 1..MaxSends :
          payments[t][n] # "none" => \A m \in 1..(n - 1) : payments[t][m] # "none"
    /\ \A t \in Transfers : Exists(t) =>
          /\ payouts[t].status = "created" => payouts[t].ref = NoRef
          /\ payouts[t].ref # NoRef => OnlyUpTo(t, payouts[t].ref)
    /\ \A c \in Calls : At(c, "markSubmitted") => OnlyUpTo(calls[c].transfer, calls[c].ref)

LEMMA InitIsLastInv == Init => LastInv
BY DEF Init, LastInv, Exists, At, Idle

\* What asking the provider does to its records.
LEMMA SendAccepts ==
    ASSUME IInv, LastInv, Provider # "natcash", NEW c \in Calls, Send(c)
    PROVE  /\ UNCHANGED payouts /\ OthersStand(c)
           /\ calls[c] # Idle /\ calls[c].transfer \in Transfers
           /\ \/ UNCHANGED payments /\ calls'[c].pc = "noteError"
              \/ \E n \in 1..MaxSends :
                    /\ payments' = [payments EXCEPT ![calls[c].transfer][n] = "pending"]
                    /\ MayAccept(calls[c].transfer, n)
                    /\ OnlyUpTo(calls[c].transfer, n)
                    /\ \/ calls'[c].pc = "noteError"
                       \/ /\ calls'[c].pc = "markSubmitted"
                          /\ calls'[c].transfer = calls[c].transfer /\ calls'[c].ref = n
<1>1. TypeOK /\ calls[c] # Idle /\ calls[c].transfer \in Transfers
    BY InFlight DEF Send, At, Pcs, PayoutPcs
<1>2. PICK t \in Transfers : t = calls[c].transfer
    BY <1>1
<1>3. UNCHANGED payouts /\ At(c, "send")
    BY DEF Send
<1>4. ASSUME GoesTo(c, "noteError") PROVE OthersStand(c) /\ calls'[c].pc = "noteError"
    BY <1>1, <1>4, GoesReach DEF Reaches
<1>5. \/ UNCHANGED payments /\ GoesTo(c, "noteError")
      \/ \E n \in 1..MaxSends :
            /\ payments' = [payments EXCEPT ![t][n] = "pending"] /\ MayAccept(t, n)
            /\ \/ calls' = [calls EXCEPT ![c].pc = "markSubmitted", ![c].ref = n]
               \/ GoesTo(c, "noteError")
    BY <1>2 DEF Send
<1>6. CASE UNCHANGED payments /\ GoesTo(c, "noteError")
    BY <1>1, <1>3, <1>4, <1>6
<1>7. ASSUME NEW n \in 1..MaxSends,
             payments' = [payments EXCEPT ![t][n] = "pending"], MayAccept(t, n),
             \/ calls' = [calls EXCEPT ![c].pc = "markSubmitted", ![c].ref = n]
             \/ GoesTo(c, "noteError")
      PROVE  /\ OthersStand(c) /\ OnlyUpTo(t, n)
             /\ \/ calls'[c].pc = "noteError"
                \/ calls'[c].pc = "markSubmitted" /\ calls'[c].transfer = t /\ calls'[c].ref = n
    <2>1. OnlyUpTo(t, n)
        <3> SUFFICES ASSUME NEW m \in 1..MaxSends, m > n, payments[t][m] # "none" PROVE FALSE
            BY DEF OnlyUpTo
        <3>1. n \in 1..(m - 1) /\ payments[t][n] = "none"
            BY <1>7 DEF MayAccept
        <3> QED
            BY <3>1 DEF LastInv
    <2>2. CASE calls' = [calls EXCEPT ![c].pc = "markSubmitted", ![c].ref = n]
        <3>1. Reaches(c, "markSubmitted", n)
            BY <1>1, <2>2, GoesReachWith
        <3> QED
            BY <1>2, <2>1, <3>1 DEF Reaches
    <2> QED
        BY <1>4, <1>7, <2>1, <2>2
<1> QED
    BY <1>1, <1>2, <1>3, <1>5, <1>6, <1>7

\* Without a request the provider only decides.
LEMMA OthersDecide ==
    ASSUME IInv, [Next]_vars, \A c \in Calls : ~Send(c)
    PROVE  \A t \in Transfers, n \in 1..MaxSends :
              payments'[t][n] = "none" <=> payments[t][n] = "none"
<1>1. CASE UNCHANGED payments
    BY <1>1
<1>2. ASSUME NEW u \in Transfers, NEW m \in 1..MaxSends,
             NEW state \in {"pending", "paid", "failed"}, payments[u][m] = "pending",
             payments' = [payments EXCEPT ![u][m] = state]
      PROVE  \A t \in Transfers, n \in 1..MaxSends :
                payments'[t][n] = "none" <=> payments[t][n] = "none"
    BY <1>2 DEF IInv, TypeOK
<1> QED
    BY <1>1, <1>2, PaymentsOnlyChange DEF PaymentsChange

LEMMA SendsKeepLast ==
    ASSUME ProviderIsAsked, IInv, OneInv, OneHandlerEach, LastInv, NEW c \in Calls, Send(c)
    PROVE  LastInv'
<1>1. PICK t \in Transfers : t = calls[c].transfer
    BY SendAccepts DEF ProviderIsAsked
<1>2. /\ UNCHANGED payouts /\ OthersStand(c) /\ calls[c] # Idle
      /\ \/ UNCHANGED payments /\ calls'[c].pc = "noteError"
         \/ \E n \in 1..MaxSends :
               /\ payments' = [payments EXCEPT ![t][n] = "pending"]
               /\ MayAccept(t, n) /\ OnlyUpTo(t, n)
               /\ \/ calls'[c].pc = "noteError"
                  \/ calls'[c].pc = "markSubmitted" /\ calls'[c].transfer = t /\ calls'[c].ref = n
    BY <1>1, SendAccepts DEF ProviderIsAsked
<1>3. \A d \in Calls : calls[d].pc = "markSubmitted" =>
         calls[d] # Idle /\ calls[d].transfer \in Transfers
    BY CallFields DEF IInv, Pcs, PayoutPcs
<1>4. payouts[t].status = "created"
    BY <1>1 DEF Send, At, OneInv, HandlersRefer
<1>5. CASE UNCHANGED payments /\ calls'[c].pc = "noteError"
    BY <1>2, <1>5 DEF LastInv, OnlyUpTo, OthersStand, At, Exists
<1>6. ASSUME NEW n \in 1..MaxSends,
             payments' = [payments EXCEPT ![t][n] = "pending"], MayAccept(t, n), OnlyUpTo(t, n),
             \/ calls'[c].pc = "noteError"
             \/ calls'[c].pc = "markSubmitted" /\ calls'[c].transfer = t /\ calls'[c].ref = n
      PROVE  LastInv'
    <2>1. \A u \in Transfers, m \in 1..MaxSends :
             payments'[u][m] = IF u = t /\ m = n THEN "pending" ELSE payments[u][m]
        BY <1>6 DEF IInv, TypeOK
    <2>2. ASSUME NEW u \in Transfers, NEW k \in 1..MaxSends, payments'[u][k] # "none",
                 NEW m \in 1..(k - 1)
          PROVE  payments'[u][m] # "none"
        <3>1. m \in 1..MaxSends
            BY PayoutsAssumption
        <3>2. CASE u = t /\ k = n
            BY <1>6, <2>1, <3>1, <3>2 DEF MayAccept
        <3>3. CASE ~(u = t /\ k = n)
            <4>1. payments[u][k] # "none"
                BY <2>1, <2>2, <3>3
            <4>2. payments[u][m] # "none"
                BY <4>1 DEF LastInv
            <4> QED
                BY <2>1, <3>1, <4>2
        <3> QED
            BY <3>2, <3>3
    <2>3. ASSUME NEW u \in Transfers, u # t, NEW k, OnlyUpTo(u, k) PROVE (OnlyUpTo(u, k))'
        BY <2>1, <2>3 DEF OnlyUpTo
    <2>4. ASSUME NEW u \in Transfers, (Exists(u))'
          PROVE  /\ payouts'[u].status = "created" => payouts'[u].ref = NoRef
                 /\ payouts'[u].ref # NoRef => (OnlyUpTo(u, payouts[u].ref))'
        <3>1. Exists(u) /\ payouts'[u] = payouts[u]
            BY <1>2, <2>4 DEF Exists
        <3>2. PICK k : k = payouts[u].ref
            OBVIOUS
        <3>3. CASE u = t
            BY <1>4, <3>1, <3>3 DEF LastInv
        <3>4. CASE u # t
            <4>1. k # NoRef => (OnlyUpTo(u, k))'
                BY <2>3, <3>1, <3>2, <3>4 DEF LastInv
            <4> QED
                BY <3>1, <3>2, <4>1 DEF LastInv, OnlyUpTo
        <3> QED
            BY <3>3, <3>4
    <2>5. ASSUME NEW d \in Calls, calls'[d].pc = "markSubmitted"
          PROVE  (OnlyUpTo(calls[d].transfer, calls[d].ref))'
        <3>1. CASE d = c
            <4>1. (OnlyUpTo(t, n))'
                BY <1>6, <2>1 DEF OnlyUpTo
            <4>2. calls'[d].transfer = t /\ calls'[d].ref = n
                BY <1>6, <2>5, <3>1
            <4> QED
                BY <4>1, <4>2 DEF OnlyUpTo
        <3>2. CASE d # c
            <4>1. calls'[d] = calls[d] /\ calls[d].pc = "markSubmitted"
                BY <1>2, <2>5, <3>2 DEF OthersStand
            <4>2. PICK u, k : u = calls[d].transfer /\ k = calls[d].ref /\ u \in Transfers
                BY <1>3, <4>1
            <4>3. u # t
                BY <1>1, <1>2, <1>3, <3>2, <4>1, <4>2 DEF OneHandlerEach
            <4>4. (OnlyUpTo(u, k))'
                BY <2>3, <4>1, <4>2, <4>3 DEF LastInv, At
            <4> QED
                BY <4>1, <4>2, <4>4 DEF OnlyUpTo
        <3> QED
            BY <3>1, <3>2
    <2> QED
        BY <2>2, <2>4, <2>5 DEF LastInv, At
<1> QED
    BY <1>2, <1>5, <1>6

LEMMA StepsKeepLast ==
    ASSUME ProviderIsAsked, IInv, OneInv, OneHandlerEach, LastInv, Resolution, [Next]_vars
    PROVE  LastInv'
<1>1. CASE \E c \in Calls : Send(c)
    BY <1>1, SendsKeepLast
<1>2. CASE \A c \in Calls : ~Send(c)
    <2>1. \A t \in Transfers, n \in 1..MaxSends :
             payments'[t][n] = "none" <=> payments[t][n] = "none"
        BY <1>2, OthersDecide
    <2>2. \A t \in Transfers : \A n : OnlyUpTo(t, n) => (OnlyUpTo(t, n))'
        BY <2>1 DEF OnlyUpTo
    <2>3. ASSUME NEW t \in Transfers, NEW k \in 1..MaxSends, payments'[t][k] # "none",
                 NEW m \in 1..(k - 1)
          PROVE  payments'[t][m] # "none"
        <3>1. m \in 1..MaxSends
            BY PayoutsAssumption
        <3>2. payments[t][m] # "none"
            BY <2>1, <2>3 DEF LastInv
        <3> QED
            BY <2>1, <3>1, <3>2
    <2>4. \A c \in Calls : calls'[c].pc = "markSubmitted" => calls'[c] = calls[c]
        BY <1>2 DEF Resolution, Unwatched, Looks, Resolves, Writes, Reaches, Leaves,
                    OthersStand, Watched
    <2>5. \A c \in Calls : calls[c].pc = "markSubmitted" =>
             calls[c].transfer \in Transfers /\ Exists(calls[c].transfer)
        BY CallFields DEF IInv, CallsAreBacked, Backed, Pcs, PayoutPcs
    <2>6. ASSUME NEW c \in Calls, calls'[c].pc = "markSubmitted"
          PROVE  (OnlyUpTo(calls[c].transfer, calls[c].ref))'
        <3>1. calls'[c] = calls[c] /\ calls[c].pc = "markSubmitted"
            BY <2>4, <2>6
        <3>2. PICK t, k : t = calls[c].transfer /\ k = calls[c].ref /\ t \in Transfers
            BY <2>5, <3>1
        <3>3. (OnlyUpTo(t, k))'
            BY <2>2, <3>1, <3>2 DEF LastInv, At
        <3> QED
            BY <3>1, <3>2, <3>3 DEF OnlyUpTo
    <2>7. ASSUME NEW t \in Transfers, (Exists(t))'
          PROVE  /\ payouts'[t].status = "created" => payouts'[t].ref = NoRef
                 /\ payouts'[t].ref # NoRef => (OnlyUpTo(t, payouts[t].ref))'
        <3>1. PICK k : k = payouts'[t].ref
            OBVIOUS
        <3>2. SUFFICES /\ payouts'[t].status = "created" => k = NoRef
                       /\ k # NoRef => OnlyUpTo(t, k)
            BY <2>2, <3>1 DEF OnlyUpTo
        <3>3. CASE payouts'[t] = payouts[t]
            <4>1. Exists(t)
                BY <2>7, <3>3 DEF Exists
            <4> QED
                BY <3>1, <3>3, <4>1 DEF LastInv
        <3>4. CASE payouts'[t].status = "created" /\ payouts'[t].ref = NoRef
            BY <3>1, <3>4
        <3>5. ASSUME NEW c \in Calls, calls[c].transfer = t, Writes(c, t)
              PROVE  /\ payouts'[t].status = "created" => k = NoRef
                     /\ k # NoRef => OnlyUpTo(t, k)
            <4>1. CASE At(c, "markSubmitted") /\ payouts'[t].ref = calls[c].ref
                BY <3>1, <3>5, <4>1 DEF LastInv, Writes
            <4>2. CASE /\ calls[c].pc \in {"markSettled", "markReversed"}
                       /\ payouts'[t].ref = payouts[t].ref
                <5>1. Exists(t)
                    BY <3>5, <4>2, CallFields DEF IInv, CallsAreBacked, Backed, Pcs, PayoutPcs
                <5> QED
                    BY <3>1, <3>5, <4>2, <5>1 DEF LastInv, Writes
            <4> QED
                BY <3>5, <4>1, <4>2 DEF Writes
        <3> QED
            BY <3>3, <3>4, <3>5 DEF Resolution, Unwatched, Looks, Resolves, Writes
    <2> QED
        BY <2>3, <2>6, <2>7 DEF LastInv, At
<1> QED
    BY <1>1, <1>2

\* Under the same conditions the provider is not asked again once its answer is
\* recorded, and the payment it was recorded for is the one a payout is resolved on;
\* every restart, recovery and repeated request included (submit, sync).
THEOREM RecordedPaymentsAreLast ==
    ProviderIsAsked /\ Spec /\ []OneHandlerEach => []RecordedPaymentIsTheLast
<1>1. ProviderIsAsked =>
         (IInv /\ IInv' /\ OneInv /\ LastInv /\ OneHandlerEach /\ [Next]_vars
             => OneInv' /\ LastInv')
    <2> SUFFICES ASSUME ProviderIsAsked, IInv, IInv', OneInv, LastInv, OneHandlerEach,
                        [Next]_vars
                 PROVE  OneInv' /\ LastInv'
        OBVIOUS
    <2>1. AnswersStay /\ Resolution
        BY AnswersOnlyStay, StepsResolve DEF ProviderIsAsked, OneInv, WordInv
    <2> QED
        BY <2>1, WordIsKept, ReferencesAreKept, ResolutionIsKept, StepsKeepLast DEF OneInv
<1>2. OneInv /\ LastInv => RecordedPaymentIsTheLast
    BY DEF OneInv, ResolvedAsReferred, Word, LastInv, OnlyUpTo, RecordedPaymentIsTheLast
<1>3. CASE ProviderIsAsked
    BY <1>1, <1>2, <1>3, InitIsOneInv, InitIsLastInv, InitEstablishesIInv, StepsKeepIInv,
       PTL DEF Spec
<1> QED
    BY <1>3

-----------------------------------------------------------------------------
(* The platform's accounts *)

\* What the journals of a transfer have left in payout_suspense.
Booked(k, t) ==
    LET r == transfers[t].quote.receive
    IN IF Posted(FxKey(t)) /\ transfers[t].quote.to = k
       THEN r - (IF Posted(SettleKey(t)) THEN r ELSE 0)
              - (IF Posted(ReversalFxKey(t)) THEN r ELSE 0)
       ELSE 0

\* What they have left in provider_fee.
Accrued(k, t) ==
    IF Posted(SettleKey(t)) /\ transfers[t].quote.to = k THEN payouts[t].providerFee ELSE 0

\* Both accounts hold what the journals of all transfers have left in them, whether
\* or not a payout is ever settled and reversed.
SumsInv ==
    \A k \in Currencies :
        /\ balance[systemAccount("payout_suspense", k)]
              = SumFunction([t \in Transfers |-> Booked(k, t)])
        /\ balance[systemAccount("provider_fee", k)]
              = SumFunction([t \in Transfers |-> Accrued(k, t)])

LEMMA PlatformAccounts ==
    ASSUME NEW k \in Currencies
    PROVE  /\ systemAccount("payout_suspense", k) \in Accounts
           /\ systemAccount("provider_fee", k) \in Accounts
BY AccountsExist, SystemKindsExist

LEMMA QuotesArePositive ==
    ASSUME IInv, NEW t \in Transfers, transfers[t] # NoTransfer
    PROVE  /\ transfers[t].sender \in Customers
           /\ transfers[t].quote \in Quote
           /\ transfers[t].quote.from \in Currencies /\ transfers[t].quote.to \in Currencies
           /\ transfers[t].quote.send \in Int /\ transfers[t].quote.send > 0
           /\ transfers[t].quote.fee \in Int /\ transfers[t].quote.fee >= 0
           /\ transfers[t].quote.receive \in Int /\ transfers[t].quote.receive > 0
<1>1. transfers[t].sender \in Customers /\ transfers[t].quote \in Quotes
    BY TransferRows DEF IInv, QuotesWereOffered
<1> QED
    BY <1>1, TransferSagaAssumption DEF Quote

LEMMA SummandsAreInts ==
    ASSUME IInv, NEW k \in Currencies, NEW t \in Transfers
    PROVE  Booked(k, t) \in Int /\ Accrued(k, t) \in Int
<1>1. Posted(FxKey(t)) => transfers[t].quote.receive \in Int
    BY JournalsAreOrdered, QuotesArePositive
<1>2. Posted(SettleKey(t)) => payouts[t].providerFee \in Int
    <2>1. Posted(SettleKey(t)) => MayPost("settle", t)
        BY DEF IInv, JournalsAreBuilt, Kinds, SettleKey
    <2> QED
        BY <2>1, PayoutRows DEF MayPost, IInv
<1> QED
    BY <1>1, <1>2 DEF Booked, Accrued

\* What a journal of a transfer does to the two accounts.
LEMMA PlatformDeltas ==
    ASSUME IInv, NEW kind \in Kinds, NEW t \in Transfers, MayPost(kind, t),
           NEW k \in Currencies
    PROVE  LET q == transfers[t].quote
               moved(account) == Delta(Built(kind, t), systemAccount(account, k))
           IN /\ moved("payout_suspense") =
                    IF q.to # k THEN 0
                    ELSE CASE kind = "fx" -> q.receive
                           [] kind \in {"settle", "reversal_fx"} -> -q.receive
                           [] OTHER -> 0
              /\ moved("provider_fee") =
                    IF kind = "settle" /\ q.to = k THEN payouts[t].providerFee ELSE 0
<1> DEFINE q == transfers[t].quote
           s == transfers[t].sender
           u == systemAccount("payout_suspense", k)
           v == systemAccount("provider_fee", k)
<1>1. /\ s \in Customers /\ q \in Quote /\ q.from \in Currencies /\ q.to \in Currencies
      /\ q.fee \in Int /\ q.fee >= 0 /\ q.receive \in Int /\ q.receive > 0
    BY QuotesArePositive DEF MayPost
<1>2. u \in Accounts /\ v \in Accounts
    BY PlatformAccounts
<1>3. CASE kind \in {"debit", "reversal_debit"}
    <2>1. Built(kind, t) \in {transferDebitJournal(s, q), reverseTransferDebit(s, q)}
        BY <1>3 DEF Built
    <2>2. /\ {u, v} \cap {customerWallet(s, q.from), systemAccount("fx_position", q.from),
                          systemAccount("fee_revenue", q.from)} = {}
        BY DEF customerWallet, systemAccount, Account
    <2> HIDE DEF q, s, u, v
    <2>3. \A a \in Accounts \ {customerWallet(s, q.from), systemAccount("fx_position", q.from),
                              systemAccount("fee_revenue", q.from)} :
              /\ Delta(transferDebitJournal(s, q), a) = 0
              /\ Delta(reverseTransferDebit(s, q), a) = 0
        BY <1>1, TransferDebitMoves
    <2>4. Delta(Built(kind, t), u) = 0 /\ Delta(Built(kind, t), v) = 0
        BY <1>2, <2>1, <2>2, <2>3
    <2> QED
        BY <1>3, <2>4 DEF q, u, v
<1>4. CASE kind \in {"fx", "reversal_fx"}
    <2> DEFINE x == systemAccount("fx_position", q.to)
               y == systemAccount("payout_suspense", q.to)
    <2>1. /\ kind = "fx" => Built(kind, t) = Move(x, y, q.receive)
          /\ kind = "reversal_fx" => Built(kind, t) = Move(y, x, q.receive)
        BY DEF Built, transferFxJournal, reverseTransferFx
    <2>2. x \in Accounts /\ y \in Accounts /\ x # y
        BY <1>1, AccountsExist, SystemKindsExist DEF systemAccount, Account
    <2>3. v \notin {x, y} /\ u # x /\ (u = y <=> q.to = k)
        BY DEF systemAccount, Account
    <2> HIDE DEF q, u, v, x, y
    <2>4. /\ Delta(Move(x, y, q.receive), y) = q.receive
          /\ \A a \in Accounts \ {x, y} : Delta(Move(x, y, q.receive), a) = 0
        BY <1>1, <2>2, MoveDelta
    <2>5. /\ Delta(Move(y, x, q.receive), y) = -q.receive
          /\ \A a \in Accounts \ {x, y} : Delta(Move(y, x, q.receive), a) = 0
        BY <1>1, <2>2, MoveDelta
    <2>6. Delta(Built(kind, t), v) = 0
        BY <1>2, <1>4, <2>1, <2>3, <2>4, <2>5
    <2>7. Delta(Built(kind, t), u) = IF q.to # k THEN 0
                                     ELSE IF kind = "fx" THEN q.receive ELSE -q.receive
        BY <1>2, <1>4, <2>1, <2>3, <2>4, <2>5
    <2> QED
        BY <1>4, <2>6, <2>7 DEF q, u, v
<1>5. CASE kind = "settle"
    <2> DEFINE fee == payouts[t].providerFee
               x == systemAccount("payout_suspense", q.to)
               y == systemAccount("settlement", q.to)
               z == systemAccount("provider_fee", q.to)
    <2>1. Built(kind, t) = Split(x, y, z, q.receive, fee)
        BY <1>5 DEF Built, settlePayout
    <2>2. fee \in Int /\ FeeInRange(fee, q.receive)
        BY <1>5, PayoutRows DEF MayPost, IInv
    <2>3. x \in Accounts /\ y \in Accounts /\ z \in Accounts
        BY <1>1, AccountsExist, SystemKindsExist
    <2>4. /\ x # y /\ x # z /\ y # z
          /\ u \notin {y, z} /\ v \notin {x, y}
          /\ u = x <=> q.to = k
          /\ v = z <=> q.to = k
        BY DEF systemAccount, Account
    <2> HIDE DEF q, u, v, x, y, z, fee
    <2>5. /\ Delta(Built(kind, t), x) = -q.receive
          /\ Delta(Built(kind, t), z) = fee
          /\ \A a \in Accounts \ {x, y, z} : Delta(Built(kind, t), a) = 0
        BY <1>1, <2>1, <2>2, <2>3, <2>4, SplitDelta
    <2>6. Delta(Built(kind, t), u) = IF q.to # k THEN 0 ELSE -q.receive
        BY <1>2, <2>4, <2>5
    <2>7. Delta(Built(kind, t), v) = IF q.to = k THEN fee ELSE 0
        BY <1>2, <2>4, <2>5
    <2> QED
        BY <1>5, <2>6, <2>7 DEF q, u, v, fee
<1> QED
    BY <1>3, <1>4, <1>5 DEF Kinds

\* The summands of a transfer without a new journal stay.
LEMMA SummandsStay ==
    ASSUME IInv, Moves, NEW t \in Transfers, NEW k,
           \A kind \in Kinds : Posted(<<kind, t>>)' <=> Posted(<<kind, t>>)
    PROVE  (Booked(k, t))' = Booked(k, t) /\ (Accrued(k, t))' = Accrued(k, t)
<1>1. TransferKeeps(t) /\ PayoutKeeps(t)
    BY TransfersMoveTyped, PayoutsMoveTyped DEF Moves, IInv
<1>2. /\ Posted(FxKey(t))' <=> Posted(FxKey(t))
      /\ Posted(SettleKey(t))' <=> Posted(SettleKey(t))
      /\ Posted(ReversalFxKey(t))' <=> Posted(ReversalFxKey(t))
    BY DEF Kinds, FxKey, SettleKey, ReversalFxKey
<1>3. /\ Posted(FxKey(t)) => transfers[t] # NoTransfer
      /\ Posted(SettleKey(t)) => Posted(FxKey(t)) /\ Exists(t)
    <2>1. Posted(SettleKey(t)) => MayPost("settle", t)
        BY DEF IInv, JournalsAreBuilt, Kinds, SettleKey
    <2> QED
        BY <2>1, JournalsAreOrdered DEF MayPost
<1>4. Posted(FxKey(t)) => transfers'[t].quote = transfers[t].quote
    BY <1>1, <1>3 DEF TransferKeeps
<1>5. Posted(SettleKey(t)) => payouts'[t].providerFee = payouts[t].providerFee
    BY <1>1, <1>3 DEF PayoutKeeps
<1>6. (Booked(k, t))' = Booked(k, t)
    BY <1>2, <1>4 DEF Booked
<1>7. (Accrued(k, t))' = Accrued(k, t)
    BY <1>2, <1>3, <1>4, <1>5 DEF Accrued
<1> QED
    BY <1>6, <1>7

\* A new journal of a transfer changes its summands by what it moves.
LEMMA SummandsMove ==
    ASSUME RInv, Moves, NEW kind \in Kinds, NEW t \in Transfers, NEW k \in Currencies,
           MayPost(kind, t), Post(<<kind, t>>, Built(kind, t)), ~Posted(<<kind, t>>)
    PROVE  LET moved(account) == Delta(Built(kind, t), systemAccount(account, k))
           IN /\ (Booked(k, t))' = Booked(k, t) + moved("payout_suspense")
              /\ (Accrued(k, t))' = Accrued(k, t) + moved("provider_fee")
<1> DEFINE q == transfers[t].quote
           fee == payouts[t].providerFee
           moved(account) == Delta(Built(kind, t), systemAccount(account, k))
<1>1. TransferKeeps(t) /\ PayoutKeeps(t)
    BY TransfersMoveTyped, PayoutsMoveTyped DEF Moves, RInv, IInv
<1>2. /\ (Posted(FxKey(t)))' <=> (kind = "fx" \/ Posted(FxKey(t)))
      /\ (Posted(SettleKey(t)))' <=> (kind = "settle" \/ Posted(SettleKey(t)))
      /\ (Posted(ReversalFxKey(t)))' <=> (kind = "reversal_fx" \/ Posted(ReversalFxKey(t)))
    BY ThisPosted
<1>3. transfers'[t].quote = q /\ q.receive \in Int
    BY <1>1, QuotesArePositive DEF TransferKeeps, MayPost, RInv
<1>4. /\ moved("payout_suspense") =
            IF q.to # k THEN 0
            ELSE CASE kind = "fx" -> q.receive
                   [] kind \in {"settle", "reversal_fx"} -> -q.receive
                   [] OTHER -> 0
      /\ moved("provider_fee") = IF kind = "settle" /\ q.to = k THEN fee ELSE 0
    BY PlatformDeltas DEF RInv
<1>5. /\ Posted(SettleKey(t)) => Posted(FxKey(t)) /\ Exists(t)
      /\ Posted(ReversalFxKey(t)) => Posted(FxKey(t))
      /\ kind \in {"settle", "reversal_fx"} => Posted(FxKey(t)) /\ Exists(t)
    <2>1. Posted(SettleKey(t)) => MayPost("settle", t)
        BY DEF RInv, IInv, JournalsAreBuilt, Kinds, SettleKey
    <2>2. kind \in {"settle", "reversal_fx"} => Exists(t)
        BY DEF MayPost
    <2>3. Exists(t) => Posted(FxKey(t))
        BY DEF RInv, IInv, PayoutsAreBooked
    <2> QED
        BY <2>1, <2>2, <2>3, JournalsAreOrdered DEF MayPost, RInv
<1>6. Exists(t) => payouts'[t].providerFee = fee /\ fee \in Int
    BY <1>1, PayoutRows DEF PayoutKeeps, RInv, IInv
<1>7. /\ kind = "fx" => ~Posted(FxKey(t))
      /\ kind = "settle" => ~Posted(SettleKey(t))
      /\ kind = "reversal_fx" => ~Posted(ReversalFxKey(t))
    BY DEF FxKey, SettleKey, ReversalFxKey
<1>8. /\ (Booked(k, t))' = IF (Posted(FxKey(t)))' /\ q.to = k
                           THEN q.receive - (IF (Posted(SettleKey(t)))' THEN q.receive ELSE 0)
                                  - (IF (Posted(ReversalFxKey(t)))' THEN q.receive ELSE 0)
                           ELSE 0
      /\ (Accrued(k, t))' = IF (Posted(SettleKey(t)))' /\ q.to = k
                            THEN payouts'[t].providerFee ELSE 0
    BY <1>3 DEF Booked, Accrued
<1>9. /\ Booked(k, t) = IF Posted(FxKey(t)) /\ q.to = k
                        THEN q.receive - (IF Posted(SettleKey(t)) THEN q.receive ELSE 0)
                               - (IF Posted(ReversalFxKey(t)) THEN q.receive ELSE 0)
                        ELSE 0
      /\ Accrued(k, t) = IF Posted(SettleKey(t)) /\ q.to = k THEN fee ELSE 0
    BY DEF Booked, Accrued
<1> HIDE DEF q, fee, moved
<1>10. (Booked(k, t))' = Booked(k, t) + moved("payout_suspense")
    BY <1>2, <1>3, <1>4, <1>5, <1>7, <1>8, <1>9 DEF Kinds
<1>11. (Accrued(k, t))' = Accrued(k, t) + moved("provider_fee")
    BY <1>2, <1>4, <1>5, <1>6, <1>7, <1>8, <1>9 DEF Kinds
<1> QED
    BY <1>10, <1>11 DEF moved

\* The two sums are kept by every step.
LEMMA MovesKeepSums ==
    ASSUME RInv, Moves, SumsInv
    PROVE  SumsInv'
<1>1. CASE UNCHANGED ledgerVars
    <2>1. ASSUME NEW k \in Currencies
          PROVE  /\ [t \in Transfers |-> Booked(k, t)]' = [t \in Transfers |-> Booked(k, t)]
                 /\ [t \in Transfers |-> Accrued(k, t)]' = [t \in Transfers |-> Accrued(k, t)]
        <3>1. \A key : Posted(key)' <=> Posted(key)
            BY <1>1 DEF ledgerVars, Posted
        <3>2. \A t \in Transfers :
                 (Booked(k, t))' = Booked(k, t) /\ (Accrued(k, t))' = Accrued(k, t)
            BY <3>1, SummandsStay DEF RInv
        <3> QED
            BY <3>2
    <2> QED
        BY <1>1, <2>1 DEF SumsInv, ledgerVars
<1>2. ASSUME NEW kind \in Kinds, NEW t \in Transfers, MayPost(kind, t),
             Post(<<kind, t>>, Built(kind, t)), ~Posted(<<kind, t>>), NEW k \in Currencies
      PROVE  /\ balance'[systemAccount("payout_suspense", k)]
                   = SumFunction([u \in Transfers |-> (Booked(k, u))'])
             /\ balance'[systemAccount("provider_fee", k)]
                   = SumFunction([u \in Transfers |-> (Accrued(k, u))'])
    <2> DEFINE x == systemAccount("payout_suspense", k)
               y == systemAccount("provider_fee", k)
               f == [u \in Transfers |-> Booked(k, u)]
               h == [u \in Transfers |-> (Booked(k, u))']
               g == [u \in Transfers |-> Accrued(k, u)]
               j == [u \in Transfers |-> (Accrued(k, u))']
               m == Delta(Built(kind, t), x)
               n == Delta(Built(kind, t), y)
    <2>1. x \in Accounts /\ y \in Accounts
        BY PlatformAccounts
    <2>2. /\ balance[x] \in Int /\ balance[y] \in Int
          /\ m \in Int /\ n \in Int
          /\ balance'[x] = balance[x] + m /\ balance'[y] = balance[y] + n
        BY <1>2, <2>1, PostChanges DEF RInv, IInv, TypeOK
    <2>3. /\ balance[x] = SumFunctionOnSet(f, Transfers)
          /\ balance[y] = SumFunctionOnSet(g, Transfers)
          /\ SumFunction(h) = SumFunctionOnSet(h, Transfers)
          /\ SumFunction(j) = SumFunctionOnSet(j, Transfers)
        BY DEF SumsInv, SumFunction
    <2>4. \A u \in Transfers : f[u] \in Int /\ g[u] \in Int
        BY SummandsAreInts DEF RInv
    <2>5. h[t] = f[t] + m /\ j[t] = g[t] + n
        BY <1>2, SummandsMove
    <2>6. \A u \in Transfers \ {t} : h[u] = f[u] /\ j[u] = g[u]
        <3> SUFFICES ASSUME NEW u \in Transfers \ {t}
                     PROVE  (Booked(k, u))' = Booked(k, u) /\ (Accrued(k, u))' = Accrued(k, u)
            OBVIOUS
        <3>1. \A kd \in Kinds : Posted(<<kd, u>>)' <=> Posted(<<kd, u>>)
            BY <1>2, PostChanges
        <3> QED
            BY <3>1, SummandsStay DEF RInv
    <2> HIDE DEF x, y, f, g, h, j, m, n
    <2>7. \A u \in Transfers : h[u] \in Int /\ j[u] \in Int
        BY <2>2, <2>4, <2>5, <2>6
    <2>8. IsFiniteSet(Transfers)
        BY NothingBookedAssumption
    <2>9. SumFunctionOnSet(h, Transfers) = SumFunctionOnSet(f, Transfers) + h[t] - f[t]
        BY <2>4, <2>6, <2>7, <2>8, SumUpdate
    <2>10. SumFunctionOnSet(j, Transfers) = SumFunctionOnSet(g, Transfers) + j[t] - g[t]
        BY <2>4, <2>6, <2>7, <2>8, SumUpdate
    <2>11. balance'[x] = SumFunction(h) /\ balance'[y] = SumFunction(j)
        BY <2>2, <2>3, <2>4, <2>5, <2>9, <2>10
    <2> QED
        BY <2>11 DEF x, y, h, j
<1>3. ASSUME NEW kind \in Kinds, NEW t \in Transfers, MayPost(kind, t),
             Post(<<kind, t>>, Built(kind, t))
      PROVE  SumsInv'
    <2>1. CASE Posted(<<kind, t>>)
        BY <1>1, <1>3, <2>1 DEF Post
    <2>2. CASE ~Posted(<<kind, t>>)
        BY <1>2, <1>3, <2>2 DEF SumsInv
    <2> QED
        BY <2>1, <2>2
<1> QED
    BY <1>1, <1>3 DEF Moves, LedgerMoves

LEMMA InitEstablishesSums == Init => SumsInv
<1> SUFFICES ASSUME Init, NEW k \in Currencies
             PROVE  /\ balance[systemAccount("payout_suspense", k)]
                          = SumFunction([t \in Transfers |-> Booked(k, t)])
                    /\ balance[systemAccount("provider_fee", k)]
                          = SumFunction([t \in Transfers |-> Accrued(k, t)])
    BY DEF SumsInv
<1> DEFINE f == [t \in Transfers |-> Booked(k, t)]
           g == [t \in Transfers |-> Accrued(k, t)]
<1>1. \A key \in Keys : ~Posted(key)
    BY DEF Init, Posted
<1>2. \A t \in Transfers : f[t] = 0 /\ g[t] = 0
    BY <1>1, KeysExist DEF Booked, Accrued
<1>3. /\ balance[systemAccount("payout_suspense", k)] = 0
      /\ balance[systemAccount("provider_fee", k)] = 0
    BY NothingBookedAssumption DEF Init
<1>4. /\ SumFunction(f) = SumFunctionOnSet(f, Transfers)
      /\ SumFunction(g) = SumFunctionOnSet(g, Transfers)
    BY DEF SumFunction
<1> HIDE DEF f, g
<1>5. SumFunctionOnSet(f, Transfers) = 0
    BY <1>2, NothingBookedAssumption, SumZero
<1>6. SumFunctionOnSet(g, Transfers) = 0
    BY <1>2, NothingBookedAssumption, SumZero
<1>7. /\ balance[systemAccount("payout_suspense", k)] = SumFunction(f)
      /\ balance[systemAccount("provider_fee", k)] = SumFunction(g)
    BY <1>3, <1>4, <1>5, <1>6
<1> QED
    BY <1>7 DEF f, g

LEMMA StepsKeepSums == RInv /\ SumsInv /\ [Next]_vars => SumsInv'
<1> SUFFICES ASSUME RInv, SumsInv, [Next]_vars PROVE SumsInv'
    OBVIOUS
<1>1. Moves
    BY StepsMove DEF RInv
<1> QED
    BY <1>1, MovesKeepSums

\* The report adds up: once every posted settlement is marked, provider_fee holds
\* the sum of the fees locked on the settled payouts.
LEMMA SumsMakeReport ==
    ASSUME IInv, SumsInv
    PROVE  ReportIsConsistent
<1> SUFFICES ASSUME \A t \in Transfers : Posted(SettleKey(t)) => payouts[t].status = "settled",
                    NEW k \in Currencies
             PROVE  balance[systemAccount("provider_fee", k)] = SettledFees(k)
    BY DEF ReportIsConsistent
<1> DEFINE fee(t) == IF payouts[t].status = "settled" /\ payouts[t].quote.to = k
                     THEN payouts[t].providerFee ELSE 0
<1>1. ASSUME NEW t \in Transfers PROVE Accrued(k, t) = fee(t)
    <2>1. payouts[t].status = "settled" <=> Posted(SettleKey(t))
        BY DEF IInv, StatusIsBacked
    <2>2. Posted(SettleKey(t)) => payouts[t].quote = transfers[t].quote
        <3>1. Posted(SettleKey(t)) => MayPost("settle", t)
            BY DEF IInv, JournalsAreBuilt, Kinds, SettleKey
        <3> QED
            BY <3>1 DEF MayPost, IInv, PayoutsAreBooked
    <2> QED
        BY <2>1, <2>2 DEF Accrued
<1>2. [t \in Transfers |-> Accrued(k, t)] = [t \in Transfers |-> fee(t)]
    BY <1>1
<1> QED
    BY <1>2 DEF SumsInv, SettledFees

\* What is left in payout_suspense is what is owed, once nothing was both paid out
\* and given back.
LEMMA SumsMakeSuspense ==
    ASSUME IInv, SumsInv, NeverSettledAndReversed
    PROVE  SuspenseIsOwed
<1> SUFFICES ASSUME NEW k \in Currencies
             PROVE  balance[systemAccount("payout_suspense", k)]
                        = SumFunction([t \in Transfers |-> Owed(k, t)])
    BY DEF SuspenseIsOwed
<1>1. ASSUME NEW t \in Transfers PROVE Booked(k, t) = Owed(k, t)
    <2>1. Posted(FxKey(t)) => transfers[t].quote.receive \in Int
        BY JournalsAreOrdered, QuotesArePositive
    <2>2. ~(Posted(SettleKey(t)) /\ Posted(ReversalFxKey(t)))
        BY DEF NeverSettledAndReversed
    <2> QED
        BY <2>1, <2>2 DEF Booked, Owed
<1>2. [t \in Transfers |-> Booked(k, t)] = [t \in Transfers |-> Owed(k, t)]
    BY <1>1
<1> QED
    BY <1>2 DEF SumsInv

\* The reconciliation report finds the ledger's provider fees equal to the fees
\* locked on the settled payouts, whatever failed, was retried or restarted, as soon
\* as the posted settlements are marked (reconciliation.ts).
THEOREM ReportsAreConsistent == Spec => []ReportIsConsistent
<1>1. IInv /\ SumsInv => ReportIsConsistent
    BY SumsMakeReport
<1>2. RInv => IInv
    BY DEF RInv
<1>3. Init => RInv
    BY InitPromises
<1>4. RInv /\ [Next]_vars => RInv'
    BY StepsMove, MovesKeepRInv DEF RInv
<1> QED
    BY <1>1, <1>2, <1>3, <1>4, InitEstablishesSums, StepsKeepSums, PTL DEF Spec

\* Besides, payout_suspense is what is still owed, under the conditions under which a
\* payout is resolved once (PayoutsAreResolvedOnce): nobody is paid with other
\* senders' money (settlePayout, reverseTransfer).
THEOREM PlatformAccountsBalance ==
    ProviderIsAsked /\ Spec /\ []OneHandlerEach => []PlatformAccountsAddUp
<1>1. IInv /\ SumsInv /\ ResolvedOnceOnItsWord => PlatformAccountsAddUp
    BY SumsMakeReport, SumsMakeSuspense DEF PlatformAccountsAddUp, ResolvedOnceOnItsWord
<1>2. RInv => IInv
    BY DEF RInv
<1>3. Init => RInv
    BY InitPromises
<1>4. RInv /\ [Next]_vars => RInv'
    BY StepsMove, MovesKeepRInv DEF RInv
<1> QED
    BY <1>1, <1>2, <1>3, <1>4, InitEstablishesSums, StepsKeepSums, PayoutsAreResolvedOnce,
       PTL DEF Spec
=============================================================================
