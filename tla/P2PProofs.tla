----------------------------- MODULE P2PProofs -----------------------------
(***************************************************************************)
(* Theorems about P2P, for every set of offers, orders, handlers, amounts  *)
(* and rates.  TypeCorrect, QuotesArePaid and EscrowLacksNothingElse hold  *)
(* under every fault; ReleasesAreFinal, MarketplaceImplementsSales and     *)
(* EscrowIsCovered need the acknowledgements not to be lost (NoLostAck).   *)
(*                                                                         *)
(* Calls hold ids they read earlier, so the inductive invariants say what  *)
(* those ids still refer to: IInv that the rows exist and the escrow was   *)
(* locked; ReleaseInv that a claim belongs to one handler at a time and    *)
(* that its order is released and not paid; QuoteInv that an order's       *)
(* amounts are those the handler that inserted it was quoted; SaleInv what *)
(* a cancelled or a not yet listed offer means to the handlers that saw    *)
(* it; EscrowInv that a seller's escrow holds what each offer keeps there  *)
(* and what each order is due, given the journals that took some of it     *)
(* out, and what a handler in flight relies on to post another.            *)
(***************************************************************************)
EXTENDS P2P, LedgerStoreProofs

-----------------------------------------------------------------------------
(* The inductive invariants *)

\* The rows that orders and handlers refer to exist.
RowsExist ==
    /\ \A o \in Orders : orders[o] # NoOrder => offers[orders[o].offer] # NoOffer
    /\ \A c \in Calls :
          /\ calls[c].op = "closeOffer" => offers[calls[c].offer] # NoOffer
          /\ calls[c].op = "release" => orders[calls[c].order] # NoOrder

\* createOffer has locked the escrow before it touches the offers.
LockedFirst ==
    /\ \A f \in Offers : offers[f] # NoOffer => Posted(LockKey(f))
    /\ \A c \in Calls : calls[c].op = "createOffer" => Posted(LockKey(calls[c].offer))

IInv == TypeOK /\ RowsExist /\ LockedFirst

\* The handler has claimed its order and not given the claim up.
Holds(c) == calls[c].op = "release" /\ calls[c].pc \in {"post", "revert"}

\* A held claim is on a released and unpaid order ...
HeldIsUnpaid ==
    \A c \in Calls : Holds(c) =>
        /\ orders[calls[c].order].status = "released"
        /\ ~Posted(ReleaseKey(calls[c].order))

\* ... and only one handler holds it.
OneHolder ==
    \A c, d \in Calls : Holds(c) /\ Holds(d) /\ c # d => calls[c].order # calls[d].order

\* A release claims only paid or disputed orders.
ClaimsAreOpen ==
    \A c \in Calls : calls[c].op = "release" =>
        calls[c].from \subseteq {"payment_submitted", "disputed"}

\* The id an openOrder will insert is its own.
InsertsAreFresh ==
    \A c \in Calls : calls[c].op = "openOrder" =>
        /\ orders[calls[c].order] = NoOrder
        /\ \A d \in Calls : calls[d].op = "openOrder" /\ c # d
                               => calls[c].order # calls[d].order

ReleaseInv ==
    /\ ReleaseIsFinal
    /\ HeldIsUnpaid
    /\ OneHolder
    /\ ClaimsAreOpen
    /\ InsertsAreFresh

-----------------------------------------------------------------------------
(* Typing *)

\* What the record sets of CallState say, op by op.
LEMMA CallFields ==
    ASSUME TypeOK, NEW c \in Calls
    PROVE  /\ calls[c].op = "createOffer" =>
                 calls[c] \in [op : {"createOffer"}, pc : {"insert", "compensate"},
                               offer : Offers, merchant : Customers, amount : Nat]
           /\ calls[c].op = "closeOffer" =>
                 calls[c] \in [op : {"closeOffer"}, pc : {"check", "flip", "unlock"},
                               offer : Offers, amount : Nat]
           /\ calls[c].op = "openOrder" =>
                 calls[c] \in [op : {"openOrder"}, offer : Offers, order : Orders,
                               buyer : Customers, amount : Nat, commission : Int]
           /\ calls[c].op = "release" =>
                 calls[c] \in [op : {"release"}, pc : {"claim", "post", "revert"},
                               order : Orders, from : SUBSET OrderStatus,
                               seen : OrderStatus]
           /\ calls[c].op = "cancel" =>
                 calls[c] \in [op : {"cancel"}, by : {"party", "admin"}, order : Orders]
BY DEF TypeOK, CallState, Idle

LEMMA OfferRows ==
    ASSUME TypeOK, NEW f \in Offers
    PROVE  /\ offers[f] # NoOffer => offers[f] \in Offer
           /\ offers[f].status \in {"active", "closed"} => offers[f] # NoOffer
           /\ (offers[f] # NoOffer) = (f \in Existing(offers))
BY DEF TypeOK, NoOffer, Offer, Existing

LEMMA OrderRows ==
    ASSUME TypeOK, NEW o \in Orders
    PROVE  /\ orders[o] # NoOrder => orders[o] \in Order
           /\ orders[o].status \in OrderStatus => orders[o] # NoOrder
           /\ (orders[o] # NoOrder) = (o \in Existing(orders))
BY DEF TypeOK, NoOrder, Order, Existing, OrderStatus

LEMMA KeysExist ==
    /\ \A f \in Offers : LockKey(f) \in Keys /\ UnlockKey(f) \in Keys
    /\ \A o \in Orders : ReleaseKey(o) \in Keys
    /\ \A f \in Offers, o \in Orders :
          LockKey(f) # ReleaseKey(o) /\ UnlockKey(f) # ReleaseKey(o)
    /\ \A f, g \in Offers : LockKey(f) # UnlockKey(g)
BY P2PAssumption DEF LockKey, UnlockKey, ReleaseKey

LEMMA StartsKeepsType ==
    ASSUME TypeOK, NEW c \in Calls, NEW state \in CallState, Starts(c, state)
    PROVE  calls' \in [Calls -> CallState]
BY DEF TypeOK, Starts

LEMMA ReturnsKeepsType ==
    ASSUME TypeOK, NEW c \in Calls, Returns(c)
    PROVE  calls' \in [Calls -> CallState]
BY DEF TypeOK, Returns, CallState

\* The next pc of a handler.
LEMMA GoesToKeepsType ==
    ASSUME TypeOK, NEW c \in Calls, NEW pc, GoesTo(c, pc),
           \/ calls[c].op = "createOffer" /\ pc = "compensate"
           \/ calls[c].op = "closeOffer" /\ pc = "flip"
           \/ calls[c].op = "release" /\ pc \in {"post", "revert"}
    PROVE  calls' \in [Calls -> CallState]
<1>1. [calls[c] EXCEPT !.pc = pc] \in CallState
    <2>1. CASE calls[c].op = "createOffer" /\ pc = "compensate"
        BY <2>1, CallFields DEF CallState
    <2>2. CASE calls[c].op = "closeOffer" /\ pc = "flip"
        BY <2>2, CallFields DEF CallState
    <2>3. CASE calls[c].op = "release" /\ pc \in {"post", "revert"}
        BY <2>3, CallFields DEF CallState
    <2> QED
        BY <2>1, <2>2, <2>3
<1> QED
    BY <1>1 DEF TypeOK, GoesTo

\* The ids a handler holds are ids.
LEMMA CallFieldsNext ==
    ASSUME calls' \in [Calls -> CallState], NEW c \in Calls
    PROVE  /\ calls'[c].op \in {"createOffer", "closeOffer", "openOrder"} =>
                 calls'[c].offer \in Offers
           /\ calls'[c].op \in {"openOrder", "release", "cancel"} =>
                 calls'[c].order \in Orders
BY DEF CallState, Idle

-----------------------------------------------------------------------------
(* How a step may change each part *)

\* The journal table: nothing is posted, or one journal is.
LedgerMoves ==
    \/ UNCHANGED ledgerVars
    \/ \E k \in Keys, s \in Seq(Posting) : Post(k, s)

LEMMA LedgerMovesKeep ==
    ASSUME TypeOK, LedgerMoves
    PROVE  /\ balance' \in [Accounts -> Int]
           /\ journal' \in [Keys -> Seq(Posting)]
           /\ \A k \in Keys : Posted(k) => Posted(k)'
<1>1. CASE UNCHANGED ledgerVars
    BY <1>1 DEF TypeOK, ledgerVars, Posted
<1>2. CASE \E k \in Keys, s \in Seq(Posting) : Post(k, s)
    <2> PICK k \in Keys, s \in Seq(Posting) : Post(k, s)
        BY <1>2
    <2>1. StoreTypeOK
        BY DEF TypeOK, StoreTypeOK
    <2>2. StoreTypeOK'
        BY <2>1, PostKeepsType
    <2>3. /\ \A j \in Keys \ {k} : journal'[j] = journal[j]
          /\ Posted(k)'
        BY <2>1, PostAppends
    <2> QED
        BY <2>2, <2>3 DEF StoreTypeOK, Posted
<1> QED
    BY <1>1, <1>2 DEF LedgerMoves

\* The rows: they stay, a new offer is locked, and an order is one of an offer
\* that exists.
RowsGrow ==
    /\ offers' \in [Offers -> Offer \cup {NoOffer}]
    /\ orders' \in [Orders -> Order \cup {NoOrder}]
    /\ \A f \in Offers :
          /\ offers[f] # NoOffer => offers'[f] # NoOffer
          /\ offers'[f] # NoOffer => offers[f] # NoOffer \/ Posted(LockKey(f))
    /\ \A o \in Orders :
          /\ orders[o] # NoOrder => orders'[o] # NoOrder
          /\ orders'[o] # NoOrder => offers[orders'[o].offer] # NoOffer

\* A handler goes on with the ids it had, or starts with ids that exist.
CallMoves(d) ==
    \/ calls'[d].op = "idle"
    \/ /\ calls'[d].op = calls[d].op
       /\ calls[d].op \in {"createOffer", "closeOffer"} => calls'[d].offer = calls[d].offer
       /\ calls[d].op = "release" => calls'[d].order = calls[d].order
    \/ calls'[d].op \in {"openOrder", "cancel"}
    \/ calls'[d].op = "createOffer" /\ Posted(LockKey(calls[d].offer))'
    \/ calls'[d].op = "closeOffer" /\ offers[calls'[d].offer] # NoOffer
    \/ calls'[d].op = "release" /\ orders[calls'[d].order] # NoOrder

CallsMove ==
    /\ calls' \in [Calls -> CallState]
    /\ \A d \in Calls : CallMoves(d)

RestMoves == commissionBps' \in Nat /\ sweep' \subseteq Orders /\ crashes' \in Nat

\* A step made of such changes keeps the invariant.
LEMMA MovesKeepIInv ==
    ASSUME IInv, LedgerMoves, RowsGrow, CallsMove, RestMoves
    PROVE  IInv'
<1> USE DEF IInv
<1>1. TypeOK'
    BY LedgerMovesKeep DEF TypeOK, RowsGrow, CallsMove, RestMoves
<1>2. \A o \in Orders : orders'[o] # NoOrder =>
          orders'[o].offer \in Offers /\ offers'[orders'[o].offer] # NoOffer
    BY DEF RowsGrow, RowsExist, Order, NoOrder
<1>3. \A d \in Calls : calls'[d].op = "closeOffer" => offers'[calls'[d].offer] # NoOffer
    <2> SUFFICES ASSUME NEW d \in Calls, calls'[d].op = "closeOffer"
                 PROVE  offers'[calls'[d].offer] # NoOffer
        OBVIOUS
    <2>1. calls'[d].offer \in Offers
        BY CallFieldsNext DEF CallsMove
    <2>2. offers[calls'[d].offer] # NoOffer
        BY DEF CallsMove, CallMoves, RowsExist
    <2> QED
        BY <2>1, <2>2 DEF RowsGrow
<1>4. \A d \in Calls : calls'[d].op = "release" => orders'[calls'[d].order] # NoOrder
    <2> SUFFICES ASSUME NEW d \in Calls, calls'[d].op = "release"
                 PROVE  orders'[calls'[d].order] # NoOrder
        OBVIOUS
    <2>1. calls'[d].order \in Orders
        BY CallFieldsNext DEF CallsMove
    <2>2. orders[calls'[d].order] # NoOrder
        BY DEF CallsMove, CallMoves, RowsExist
    <2> QED
        BY <2>1, <2>2 DEF RowsGrow
<1>5. \A f \in Offers : offers'[f] # NoOffer => Posted(LockKey(f))'
    BY LedgerMovesKeep, KeysExist DEF RowsGrow, LockedFirst
<1>6. \A d \in Calls : calls'[d].op = "createOffer" => Posted(LockKey(calls[d].offer))'
    <2> SUFFICES ASSUME NEW d \in Calls, calls'[d].op = "createOffer"
                 PROVE  Posted(LockKey(calls[d].offer))'
        OBVIOUS
    <2>1. calls'[d].offer \in Offers
        BY CallFieldsNext DEF CallsMove
    <2>2. \/ Posted(LockKey(calls'[d].offer))
          \/ Posted(LockKey(calls[d].offer))'
        BY DEF CallsMove, CallMoves, LockedFirst
    <2> QED
        BY <2>1, <2>2, LedgerMovesKeep, KeysExist
<1> QED
    BY <1>1, <1>2, <1>3, <1>4, <1>5, <1>6 DEF RowsExist, LockedFirst

-----------------------------------------------------------------------------
(* Every action is made of such changes *)

Moves == LedgerMoves /\ RowsGrow /\ CallsMove /\ RestMoves

LEMMA RowsStay ==
    ASSUME IInv, UNCHANGED storeVars
    PROVE  RowsGrow
BY DEF IInv, TypeOK, RowsExist, RowsGrow, storeVars

LEMMA CallsStay ==
    ASSUME TypeOK, UNCHANGED calls
    PROVE  CallsMove
BY DEF TypeOK, CallsMove, CallMoves

LEMMA RestStays ==
    ASSUME TypeOK, UNCHANGED <<commissionBps, sweep, crashes>>
    PROVE  RestMoves
BY DEF TypeOK, RestMoves

LEMMA ReturnsMoves ==
    ASSUME TypeOK, NEW c \in Calls, Returns(c)
    PROVE  CallsMove
<1>1. calls' \in [Calls -> CallState]
    BY ReturnsKeepsType
<1>2. \A d \in Calls : calls'[d] = calls[d] \/ calls'[d] = Idle
    BY DEF Returns, TypeOK
<1> QED
    BY <1>1, <1>2 DEF CallsMove, CallMoves, Idle

LEMMA GoesToMoves ==
    ASSUME TypeOK, NEW c \in Calls, NEW pc, GoesTo(c, pc),
           \/ calls[c].op = "createOffer" /\ pc = "compensate"
           \/ calls[c].op = "closeOffer" /\ pc = "flip"
           \/ calls[c].op = "release" /\ pc \in {"post", "revert"}
    PROVE  CallsMove
<1>1. calls' \in [Calls -> CallState]
    BY GoesToKeepsType
<1>2. \A d \in Calls : d # c => calls'[d] = calls[d]
    BY DEF GoesTo, TypeOK
<1>3. calls'[c] = [calls[c] EXCEPT !.pc = pc]
    BY DEF GoesTo, TypeOK
<1>4. /\ calls'[c].op = calls[c].op
      /\ calls[c].op \in {"createOffer", "closeOffer"} => calls'[c].offer = calls[c].offer
      /\ calls[c].op = "release" => calls'[c].order = calls[c].order
    BY <1>3, CallFields
<1> QED
    BY <1>1, <1>2, <1>4 DEF CallsMove, CallMoves

\* A post() that resolves, or one that throws or never ran.
LEMMA LockAndUnlockMove ==
    ASSUME NEW f \in Offers, NEW m \in Customers, NEW n \in Int
    PROVE  /\ Post(LockKey(f), p2pLock(m, Asset, n)) => LedgerMoves
           /\ Post(UnlockKey(f), p2pUnlock(m, Asset, n)) => LedgerMoves
BY P2PAssumption, KeysExist, MovesAreJournals DEF LedgerMoves

LEMMA CreateOfferLockMoves ==
    ASSUME IInv, NEW c \in Calls, NEW f \in Offers, NEW p \in Customers,
           NEW n \in Sizes, CreateOfferLock(c, f, p, n)
    PROVE  Moves
<1> DEFINE state == [op |-> "createOffer", pc |-> "insert", offer |-> f,
                     merchant |-> p, amount |-> n]
<1> USE DEF IInv
<1>1. n \in Nat
    BY P2PAssumption
<1>2. LedgerMoves
    BY <1>1, LockAndUnlockMove DEF CreateOfferLock
<1>3. Posted(LockKey(f))'
    <2>1. StoreTypeOK
        BY DEF TypeOK, StoreTypeOK
    <2> QED
        BY <1>1, <2>1, P2PAssumption, KeysExist, MovesAreJournals, PostAppends
           DEF CreateOfferLock
<1>4. CallsMove
    <2>1. CASE UNCHANGED calls
        BY <2>1, CallsStay
    <2>2. CASE Starts(c, state)
        <3>1. state \in CallState
            BY <1>1 DEF CallState
        <3>2. calls' \in [Calls -> CallState]
            BY <2>2, <3>1, StartsKeepsType
        <3>3. calls'[c] = state /\ \A d \in Calls \ {c} : calls'[d] = calls[d]
            BY <2>2 DEF Starts, TypeOK
        <3>4. CallMoves(c)
            <4>1. calls'[c].op = "createOffer" /\ calls'[c].offer = f
                BY <3>3
            <4>2. Posted(LockKey(calls[c].offer))'
                BY <1>3, <4>1 DEF LockKey, Posted
            <4> QED
                BY <4>1, <4>2 DEF CallMoves
        <3> QED
            BY <3>2, <3>3, <3>4 DEF CallsMove, CallMoves
    <2> QED
        BY <2>1, <2>2 DEF CreateOfferLock
<1>5. RowsGrow /\ RestMoves
    BY RowsStay, RestStays DEF CreateOfferLock, storeVars
<1> QED
    BY <1>2, <1>4, <1>5 DEF Moves

LEMMA CreateOfferInsertMoves ==
    ASSUME IInv, NEW c \in Calls, CreateOfferInsert(c)
    PROVE  Moves
<1> DEFINE row == [status |-> "active", merchant |-> calls[c].merchant,
                   total |-> calls[c].amount, remaining |-> calls[c].amount]
           f == calls[c].offer
<1> USE DEF IInv
<1>1. /\ calls[c].op = "createOffer"
      /\ f \in Offers
      /\ row \in Offer
      /\ Posted(LockKey(f))
    BY CallFields DEF CreateOfferInsert, At, Offer, LockedFirst
<1>2. RowsGrow
    <2>1. CASE UNCHANGED offers
        BY <2>1, RowsStay DEF CreateOfferInsert, storeVars
    <2>2. CASE offers' = [offers EXCEPT ![f] = row]
        <3>1. row # NoOffer
            BY <1>1 DEF NoOffer
        <3>2. /\ offers' \in [Offers -> Offer \cup {NoOffer}]
              /\ offers'[f] # NoOffer
              /\ \A g \in Offers \ {f} : offers'[g] = offers[g]
            BY <1>1, <2>2, <3>1 DEF TypeOK
        <3> QED
            BY <1>1, <3>2 DEF RowsGrow, CreateOfferInsert, TypeOK, RowsExist
    <2> QED
        BY <2>1, <2>2 DEF CreateOfferInsert
<1>3. CallsMove
    BY <1>1, ReturnsMoves, GoesToMoves DEF CreateOfferInsert
<1>4. LedgerMoves /\ RestMoves
    BY RestStays DEF CreateOfferInsert, LedgerMoves, ledgerVars
<1> QED
    BY <1>2, <1>3, <1>4 DEF Moves

LEMMA CreateOfferCompensateMoves ==
    ASSUME IInv, NEW c \in Calls, CreateOfferCompensate(c)
    PROVE  Moves
<1> USE DEF IInv
<1>1. calls[c].offer \in Offers /\ calls[c].merchant \in Customers /\ calls[c].amount \in Int
    BY CallFields DEF CreateOfferCompensate, At
<1>2. LedgerMoves
    BY <1>1, LockAndUnlockMove DEF CreateOfferCompensate, Refuse, LedgerMoves
<1> QED
    BY <1>2, RowsStay, ReturnsMoves, RestStays DEF CreateOfferCompensate, Moves, storeVars

LEMMA CloseOfferMoves ==
    ASSUME IInv, NEW c \in Calls, NEW f \in Offers, CloseOffer(c, f)
    PROVE  Moves
<1> DEFINE state == [op |-> "closeOffer", pc |-> "check", offer |-> f, amount |-> 0]
<1> USE DEF IInv
<1>1. state \in CallState /\ Starts(c, state)
    BY DEF CallState, CloseOffer
<1>2. calls' \in [Calls -> CallState]
    BY <1>1, StartsKeepsType
<1>3. calls'[c] = state /\ \A d \in Calls \ {c} : calls'[d] = calls[d]
    BY <1>1 DEF Starts, TypeOK
<1>4. offers[f] # NoOffer
    BY OfferRows DEF CloseOffer
<1>5. CallsMove
    BY <1>2, <1>3, <1>4 DEF CallsMove, CallMoves
<1> QED
    BY <1>5, RowsStay, RestStays DEF CloseOffer, Moves, storeVars, LedgerMoves, ledgerVars

LEMMA CloseOfferCheckMoves ==
    ASSUME IInv, NEW c \in Calls, CloseOfferCheck(c)
    PROVE  Moves
<1> USE DEF IInv
<1>1. CallsMove
    BY ReturnsMoves, GoesToMoves DEF CloseOfferCheck, At
<1> QED
    BY <1>1, RowsStay, RestStays
       DEF CloseOfferCheck, Moves, storeVars, LedgerMoves, ledgerVars

LEMMA CloseOfferFlipMoves ==
    ASSUME IInv, NEW c \in Calls, CloseOfferFlip(c)
    PROVE  Moves
<1> DEFINE f == calls[c].offer
<1> USE DEF IInv
<1>1. calls[c].op = "closeOffer" /\ f \in Offers /\ offers[f] \in Offer
    BY CallFields, OfferRows DEF CloseOfferFlip, At, RowsExist
<1>2. RowsGrow
    <2>1. CASE UNCHANGED offers
        BY <2>1, RowsStay DEF CloseOfferFlip, storeVars
    <2>2. CASE offers' = [offers EXCEPT ![f].status = "closed"]
        <3>1. [offers[f] EXCEPT !.status = "closed"] \in Offer
            BY <1>1 DEF Offer
        <3>2. /\ offers' \in [Offers -> Offer \cup {NoOffer}]
              /\ offers'[f] \in Offer
              /\ \A g \in Offers \ {f} : offers'[g] = offers[g]
            BY <1>1, <2>2, <3>1 DEF TypeOK
        <3>3. offers'[f] # NoOffer /\ offers[f] # NoOffer
            BY <1>1, <3>2 DEF Offer, NoOffer
        <3> QED
            BY <3>2, <3>3 DEF RowsGrow, CloseOfferFlip, TypeOK, RowsExist
    <2> QED
        BY <2>1, <2>2 DEF CloseOfferFlip
<1>3. CallsMove
    <2>1. CASE Returns(c)
        BY <2>1, ReturnsMoves
    <2>2. CASE calls' = [calls EXCEPT ![c].pc = "unlock",
                                      ![c].amount = offers[f].remaining]
        <3> DEFINE state == [[calls[c] EXCEPT !.pc = "unlock"]
                                EXCEPT !.amount = offers[f].remaining]
        <3>1. /\ calls[c] \in [op : {"closeOffer"}, pc : {"check", "flip", "unlock"},
                               offer : Offers, amount : Nat]
              /\ offers[f].remaining \in Nat
            BY <1>1, CallFields DEF Offer
        <3>2. /\ state \in [op : {"closeOffer"}, pc : {"check", "flip", "unlock"},
                            offer : Offers, amount : Nat]
              /\ state.offer = f
            BY <3>1
        <3>3. state \in CallState
            BY <3>2 DEF CallState
        <3>4. /\ calls' \in [Calls -> CallState]
              /\ calls'[c] = state
              /\ \A d \in Calls \ {c} : calls'[d] = calls[d]
            BY <2>2, <3>3 DEF TypeOK
        <3> QED
            BY <1>1, <3>2, <3>4 DEF CallsMove, CallMoves
    <2> QED
        BY <2>1, <2>2 DEF CloseOfferFlip
<1> QED
    BY <1>2, <1>3, RestStays DEF CloseOfferFlip, Moves, LedgerMoves, ledgerVars

LEMMA CloseOfferUnlockMoves ==
    ASSUME IInv, NEW c \in Calls, CloseOfferUnlock(c)
    PROVE  Moves
<1> DEFINE f == calls[c].offer
<1> USE DEF IInv
<1>1. f \in Offers /\ offers[f].merchant \in Customers /\ calls[c].amount \in Int
    BY CallFields, OfferRows DEF CloseOfferUnlock, At, RowsExist, Offer
<1>2. LedgerMoves
    BY <1>1, LockAndUnlockMove DEF CloseOfferUnlock, Refuse, LedgerMoves
<1> QED
    BY <1>2, RowsStay, ReturnsMoves, RestStays DEF CloseOfferUnlock, Moves, storeVars

\* An order's row changes and nothing else in the tables.
LEMMA OrderRowMoves ==
    ASSUME IInv, NEW o \in Orders, NEW row \in Order,
           orders[o] \in Order, row.offer = orders[o].offer,
           orders' = [orders EXCEPT ![o] = row],
           offers' \in [Offers -> Offer \cup {NoOffer}],
           \A f \in Offers : (offers'[f] # NoOffer) = (offers[f] # NoOffer)
    PROVE  RowsGrow
<1> USE DEF IInv
<1>1. row # NoOrder /\ orders[o] # NoOrder
    BY DEF Order, NoOrder
<1>2. /\ orders' \in [Orders -> Order \cup {NoOrder}]
      /\ orders'[o] = row
      /\ \A p \in Orders \ {o} : orders'[p] = orders[p]
    BY DEF TypeOK
<1>3. \A p \in Orders : orders[p] # NoOrder => offers[orders[p].offer] # NoOffer
    BY DEF RowsExist
<1> QED
    BY <1>1, <1>2, <1>3 DEF RowsGrow

\* The status of an order changes, and perhaps its flags.
LEMMA StatusMoves ==
    ASSUME IInv, NEW o \in Orders, NEW status \in OrderStatus,
           orders[o].status \in OrderStatus, UNCHANGED offers,
           \/ orders' = [orders EXCEPT ![o].status = status]
           \/ orders' = [orders EXCEPT ![o].status = status, ![o].late = FALSE]
    PROVE  RowsGrow
<1> USE DEF IInv
<1>1. orders[o] \in Order
    BY OrderRows
<1>2. \A f \in Offers : (offers'[f] # NoOffer) = (offers[f] # NoOffer)
    OBVIOUS
<1>3. offers' \in [Offers -> Offer \cup {NoOffer}]
    BY DEF TypeOK
<1> DEFINE row1 == [orders[o] EXCEPT !.status = status]
           row2 == [[orders[o] EXCEPT !.status = status] EXCEPT !.late = FALSE]
<1>4. /\ row1 \in Order /\ row1.offer = orders[o].offer
      /\ row2 \in Order /\ row2.offer = orders[o].offer
    BY <1>1 DEF Order
<1>5. \/ orders' = [orders EXCEPT ![o] = row1]
      \/ orders' = [orders EXCEPT ![o] = row2]
    BY DEF TypeOK
<1> HIDE DEF row1, row2
<1> QED
    BY <1>1, <1>2, <1>3, <1>4, <1>5, OrderRowMoves

LEMMA CancelMoves ==
    ASSUME IInv, NEW o \in Orders, storeTryCancel(o)
    PROVE  RowsGrow
<1> USE DEF IInv
<1>1. CASE UNCHANGED storeVars
    BY <1>1, RowsStay
<1>2. CASE storeCancelOrder(o)
    <2> DEFINE f == orders[o].offer
               row == [orders[o] EXCEPT !.status = "cancelled"]
               offer == [offers[f] EXCEPT !.remaining = offers[f].remaining + orders[o].amount]
    <2>1. orders[o] \in Order /\ orders[o] # NoOrder
        BY <1>2, OrderRows DEF storeCancelOrder, CANCELLABLE, OrderStatus
    <2>2. f \in Offers /\ offers[f] \in Offer
        BY <2>1, OfferRows DEF RowsExist, Order
    <2>3. row \in Order /\ row.offer = orders[o].offer
        BY <2>1 DEF Order, OrderStatus
    <2>4. offer \in Offer
        BY <2>1, <2>2 DEF Offer, Order
    <2>5. /\ offers' \in [Offers -> Offer \cup {NoOffer}]
          /\ offers'[f] = offer
          /\ \A g \in Offers \ {f} : offers'[g] = offers[g]
        BY <1>2, <2>2, <2>4 DEF storeCancelOrder, TypeOK
    <2>6. \A g \in Offers : (offers'[g] # NoOffer) = (offers[g] # NoOffer)
        BY <2>2, <2>4, <2>5 DEF Offer, NoOffer
    <2>7. orders' = [orders EXCEPT ![o] = row]
        BY <1>2 DEF storeCancelOrder, TypeOK
    <2> HIDE DEF f, row, offer
    <2> QED
        BY <2>1, <2>3, <2>5, <2>6, <2>7, OrderRowMoves
<1> QED
    BY <1>1, <1>2 DEF storeTryCancel

LEMMA CommissionIsInt ==
    ASSUME NEW n \in Nat, NEW bps \in Nat
    PROVE  applyBps(n, bps) \in Int
<1>1. n * bps \in Nat
    OBVIOUS
<1> QED
    BY <1>1 DEF applyBps

\* A handler starts with an order id it does not have to look up.
LEMMA StartsMoves ==
    ASSUME IInv, NEW c \in Calls, NEW state \in CallState, Starts(c, state),
           \/ state.op \in {"openOrder", "cancel"}
           \/ state.op = "release" /\ orders[state.order] # NoOrder
    PROVE  CallsMove
<1> USE DEF IInv
<1>1. calls' \in [Calls -> CallState]
    BY StartsKeepsType
<1>2. calls'[c] = state /\ \A d \in Calls \ {c} : calls'[d] = calls[d]
    BY DEF Starts, TypeOK
<1> QED
    BY <1>1, <1>2 DEF CallsMove, CallMoves

LEMMA OpenOrderMoves ==
    ASSUME IInv, NEW c \in Calls, NEW f \in Offers, NEW o \in Orders,
           NEW p \in Customers, NEW n \in Sizes, OpenOrder(c, f, o, p, n)
    PROVE  Moves
<1> DEFINE state == [op |-> "openOrder", offer |-> f, order |-> o, buyer |-> p,
                     amount |-> n, commission |-> applyBps(n, commissionBps)]
<1> USE DEF IInv
<1>1. n \in Nat /\ applyBps(n, commissionBps) \in Int
    BY P2PAssumption, CommissionIsInt DEF TypeOK
<1>2. state \in CallState /\ state.op = "openOrder" /\ Starts(c, state)
    BY <1>1 DEF CallState, OpenOrder
<1> HIDE DEF state
<1>3. CallsMove
    BY <1>2, StartsMoves
<1> QED
    BY <1>3, RowsStay, RestStays DEF OpenOrder, Moves, storeVars, LedgerMoves, ledgerVars

LEMMA OpenOrderInsertMoves ==
    ASSUME IInv, NEW c \in Calls, OpenOrderInsert(c)
    PROVE  Moves
<1> DEFINE f == calls[c].offer
           o == calls[c].order
           n == calls[c].amount
           row == [status |-> "created", offer |-> f, merchant |-> offers[f].merchant,
                   buyer |-> calls[c].buyer, amount |-> n,
                   commission |-> calls[c].commission, late |-> FALSE]
           offer == [offers[f] EXCEPT !.remaining = offers[f].remaining - n]
<1> USE DEF IInv
<1>1. /\ f \in Offers /\ o \in Orders /\ n \in Nat
      /\ calls[c].buyer \in Customers /\ calls[c].commission \in Int
    BY CallFields DEF OpenOrderInsert
<1>2. RowsGrow
    <2>1. CASE UNCHANGED storeVars
        BY <2>1, RowsStay
    <2>2. CASE CanReserve(f, n) /\ InsertOrder(c)
        <3>1. offers[f] \in Offer /\ offers[f].remaining >= n
            BY <1>1, <2>2, OfferRows DEF CanReserve
        <3>2. offer \in Offer
            BY <1>1, <3>1 DEF Offer
        <3>3. row \in Order /\ row.offer = f
            BY <1>1, <3>1 DEF Order, Offer, OrderStatus
        <3>4. /\ offers' = [offers EXCEPT ![f] = offer]
              /\ orders' = [orders EXCEPT ![o] = row]
            BY <2>2 DEF InsertOrder, TypeOK
        <3>5. /\ offers' \in [Offers -> Offer \cup {NoOffer}]
              /\ orders' \in [Orders -> Order \cup {NoOrder}]
            BY <3>2, <3>3, <3>4 DEF TypeOK
        <3>6. offers'[f] = offer /\ \A g \in Offers \ {f} : offers'[g] = offers[g]
            BY <1>1, <3>4 DEF TypeOK
        <3>7. offer # NoOffer /\ offers[f] # NoOffer /\ row # NoOrder
            BY <3>1, <3>2, <3>3 DEF Offer, Order, NoOffer, NoOrder
        <3>8. orders'[o] = row /\ \A p \in Orders \ {o} : orders'[p] = orders[p]
            BY <1>1, <3>4 DEF TypeOK
        <3>9. \A p \in Orders : orders[p] # NoOrder => offers[orders[p].offer] # NoOffer
            BY DEF RowsExist
        <3> HIDE DEF row, offer
        <3> QED
            BY <3>3, <3>5, <3>6, <3>7, <3>8, <3>9 DEF RowsGrow
    <2> QED
        BY <2>1, <2>2 DEF OpenOrderInsert
<1>3. CallsMove
    BY ReturnsMoves DEF OpenOrderInsert
<1> QED
    BY <1>2, <1>3, RestStays DEF OpenOrderInsert, Moves, LedgerMoves, ledgerVars

LEMMA SubmitAndDisputeMove ==
    ASSUME IInv, NEW o \in Orders, SubmitPayment(o) \/ DisputeOrder(o)
    PROVE  Moves
<1>1. RowsGrow
    BY StatusMoves DEF SubmitPayment, DisputeOrder, OrderStatus
<1>2. CallsMove /\ RestMoves
    BY CallsStay, RestStays DEF IInv, SubmitPayment, DisputeOrder
<1> QED
    BY <1>1, <1>2 DEF SubmitPayment, DisputeOrder, Moves, LedgerMoves, ledgerVars

LEMMA StartReleaseMoves ==
    ASSUME IInv, NEW c \in Calls, NEW o \in Orders, ReleaseOrder(c, o) \/ AdminRelease(c, o)
    PROVE  Moves
<1> USE DEF IInv
<1>1. orders[o] \in Order /\ orders[o] # NoOrder
    BY OrderRows DEF ReleaseOrder, AdminRelease, OrderStatus
<1>2. CallsMove
    <2> PICK from \in SUBSET OrderStatus : StartRelease(c, o, from)
        BY DEF ReleaseOrder, AdminRelease, OrderStatus
    <2> DEFINE state == [op |-> "release", pc |-> "claim", order |-> o, from |-> from,
                         seen |-> orders[o].status]
    <2>1. /\ state \in CallState /\ state.op = "release" /\ state.order = o
          /\ Starts(c, state)
        BY <1>1 DEF CallState, Order, StartRelease
    <2> HIDE DEF state
    <2> QED
        BY <1>1, <2>1, StartsMoves
<1>3. RowsGrow /\ RestMoves
    BY RowsStay, RestStays DEF ReleaseOrder, AdminRelease, storeVars
<1> QED
    BY <1>2, <1>3 DEF ReleaseOrder, AdminRelease, Moves, LedgerMoves, ledgerVars

\* What a release in flight refers to.
LEMMA ReleaseFields ==
    ASSUME IInv, NEW c \in Calls, calls[c].op = "release"
    PROVE  /\ calls[c].order \in Orders /\ orders[calls[c].order] \in Order
           /\ calls[c].from \subseteq OrderStatus /\ calls[c].seen \in OrderStatus
           /\ calls[c].pc \in {"claim", "post", "revert"}
<1>1. /\ calls[c].order \in Orders
      /\ calls[c].from \subseteq OrderStatus /\ calls[c].seen \in OrderStatus
      /\ calls[c].pc \in {"claim", "post", "revert"}
    BY CallFields DEF IInv
<1> QED
    BY <1>1, OrderRows DEF IInv, RowsExist

LEMMA ReleaseClaimMoves ==
    ASSUME IInv, NEW c \in Calls, ReleaseClaim(c)
    PROVE  Moves
<1> USE DEF IInv
<1>1. calls[c].op = "release"
    BY DEF ReleaseClaim, At
<1>2. RowsGrow
    <2>1. CASE UNCHANGED orders
        BY <2>1, RowsStay DEF ReleaseClaim, storeVars
    <2>2. CASE orders' = [orders EXCEPT ![calls[c].order].status = "released"]
        <3>1. orders[calls[c].order].status \in OrderStatus
            BY <1>1, ReleaseFields DEF Order
        <3> QED
            BY <1>1, <2>2, <3>1, ReleaseFields, StatusMoves DEF ReleaseClaim, OrderStatus
    <2> QED
        BY <2>1, <2>2 DEF ReleaseClaim
<1>3. CallsMove
    BY <1>1, ReturnsMoves, GoesToMoves DEF ReleaseClaim
<1> QED
    BY <1>2, <1>3, RestStays DEF ReleaseClaim, Moves, LedgerMoves, ledgerVars

LEMMA ReleasePostMoves ==
    ASSUME IInv, NEW c \in Calls, ReleasePost(c)
    PROVE  Moves
<1> DEFINE o == calls[c].order
           row == orders[o]
           postings == p2pRelease(row.merchant, row.buyer, Asset, row.amount,
                                  CommissionOf(row))
<1> USE DEF IInv
<1>1. calls[c].op = "release"
    BY DEF ReleasePost, At
<1>2. o \in Orders /\ row \in Order
    BY <1>1, ReleaseFields
<1>3. postings \in Seq(Posting)
    BY <1>2, P2PAssumption, SplitsAreJournals DEF Order, CommissionOf
<1>4. Post(ReleaseKey(o), postings) \/ UNCHANGED ledgerVars
    BY DEF ReleasePost
<1>5. LedgerMoves
    BY <1>2, <1>3, <1>4, KeysExist DEF LedgerMoves
<1>6. CallsMove
    BY <1>1, ReturnsMoves, GoesToMoves DEF ReleasePost
<1> QED
    BY <1>5, <1>6, RowsStay, RestStays DEF ReleasePost, Moves, storeVars

LEMMA ReleaseRevertMoves ==
    ASSUME IInv, NEW c \in Calls, ReleaseRevert(c)
    PROVE  Moves
<1> USE DEF IInv
<1>1. calls[c].op = "release"
    BY DEF ReleaseRevert, At
<1>2. RowsGrow
    <2>1. CASE UNCHANGED orders
        BY <2>1, RowsStay DEF ReleaseRevert, storeVars
    <2>2. CASE /\ orders[calls[c].order].status = "released"
               /\ orders' = [orders EXCEPT ![calls[c].order].status = calls[c].seen]
        BY <1>1, <2>2, ReleaseFields, StatusMoves DEF ReleaseRevert, OrderStatus
    <2> QED
        BY <2>1, <2>2 DEF ReleaseRevert
<1>3. CallsMove
    BY ReturnsMoves DEF ReleaseRevert
<1> QED
    BY <1>2, <1>3, RestStays DEF ReleaseRevert, Moves, LedgerMoves, ledgerVars

LEMMA StartCancelMoves ==
    ASSUME IInv, NEW c \in Calls, NEW o \in Orders, CancelOrder(c, o) \/ AdminCancel(c, o)
    PROVE  Moves
<1> USE DEF IInv
<1>1. PICK by \in {"party", "admin"} : Starts(c, [op |-> "cancel", by |-> by, order |-> o])
    BY DEF CancelOrder, AdminCancel
<1> DEFINE state == [op |-> "cancel", by |-> by, order |-> o]
<1>2. state \in CallState /\ state.op = "cancel" /\ Starts(c, state)
    BY <1>1 DEF CallState
<1> HIDE DEF state
<1>3. CallsMove
    BY <1>2, StartsMoves
<1>4. RowsGrow /\ RestMoves
    BY RowsStay, RestStays DEF CancelOrder, AdminCancel, storeVars
<1> QED
    BY <1>3, <1>4 DEF CancelOrder, AdminCancel, Moves, LedgerMoves, ledgerVars

LEMMA CancelCommitMoves ==
    ASSUME IInv, NEW c \in Calls, CancelCommit(c)
    PROVE  Moves
<1>1. calls[c].order \in Orders
    BY CallFields DEF IInv, CancelCommit
<1> QED
    BY <1>1, CancelMoves, ReturnsMoves, RestStays
       DEF IInv, CancelCommit, Moves, LedgerMoves, ledgerVars

LEMMA PayWindowEndsMoves ==
    ASSUME IInv, NEW o \in Orders, PayWindowEnds(o)
    PROVE  Moves
<1> DEFINE row == [orders[o] EXCEPT !.late = TRUE]
<1> USE DEF IInv
<1>1. orders[o] \in Order
    BY OrderRows DEF PayWindowEnds, OrderStatus
<1>2. row \in Order /\ row.offer = orders[o].offer
    BY <1>1 DEF Order
<1>3. /\ orders' = [orders EXCEPT ![o] = row]
      /\ offers' \in [Offers -> Offer \cup {NoOffer}]
      /\ \A f \in Offers : (offers'[f] # NoOffer) = (offers[f] # NoOffer)
    BY DEF PayWindowEnds, TypeOK
<1> HIDE DEF row
<1>4. RowsGrow
    BY <1>1, <1>2, <1>3, OrderRowMoves
<1> QED
    BY <1>4, CallsStay, RestStays DEF PayWindowEnds, Moves, LedgerMoves, ledgerVars

LEMMA SweepMoves ==
    ASSUME IInv, SweepList \/ \E o \in Orders : SweepCancel(o)
    PROVE  Moves
<1> USE DEF IInv
<1>1. CASE SweepList
    <2>1. sweep' \subseteq Orders
        BY <1>1 DEF SweepList, TypeOK, Existing
    <2> QED
        BY <1>1, <2>1, RowsStay, CallsStay
           DEF SweepList, Moves, TypeOK, RestMoves, storeVars, LedgerMoves, ledgerVars
<1>2. ASSUME NEW o \in Orders, SweepCancel(o) PROVE Moves
    <2>1. RowsGrow
        BY <1>2, CancelMoves, RowsStay DEF SweepCancel
    <2> QED
        BY <1>2, <2>1, CallsStay
           DEF SweepCancel, Moves, TypeOK, RestMoves, LedgerMoves, ledgerVars
<1> QED
    BY <1>1, <1>2

LEMMA CallFailsMoves ==
    ASSUME IInv, NEW c \in Calls, CallFails(c)
    PROVE  Moves
BY RowsStay, ReturnsMoves, RestStays
   DEF IInv, CallFails, Moves, storeVars, LedgerMoves, ledgerVars

LEMMA CrashMoves ==
    ASSUME IInv, Crash
    PROVE  Moves
<1> USE DEF IInv
<1>1. CallsMove
    BY DEF Crash, CallsMove, CallMoves, CallState, Idle
<1> QED
    BY <1>1, RowsStay DEF Crash, Moves, TypeOK, RestMoves, storeVars, LedgerMoves, ledgerVars

LEMMA SetCommissionBpsMoves ==
    ASSUME IInv, NEW bps \in CommissionRates, SetCommissionBps(bps)
    PROVE  Moves
BY RowsStay, CallsStay, P2PAssumption
   DEF IInv, SetCommissionBps, Moves, TypeOK, RestMoves, storeVars, LedgerMoves, ledgerVars

LEMMA NextMoves ==
    ASSUME IInv, Next
    PROVE  Moves
<1>1. ASSUME NEW c \in Calls, CallStarts(c) PROVE Moves
    BY <1>1, CreateOfferLockMoves, OpenOrderMoves, CloseOfferMoves, StartReleaseMoves,
       StartCancelMoves DEF CallStarts
<1>2. ASSUME NEW c \in Calls, CallProceeds(c) PROVE Moves
    BY <1>2, CreateOfferInsertMoves, CreateOfferCompensateMoves, CloseOfferCheckMoves,
       CloseOfferFlipMoves, CloseOfferUnlockMoves, OpenOrderInsertMoves, ReleaseClaimMoves,
       ReleasePostMoves, ReleaseRevertMoves, CancelCommitMoves DEF CallProceeds
<1> QED
    BY <1>1, <1>2, SetCommissionBpsMoves, CallFailsMoves, SubmitAndDisputeMove,
       PayWindowEndsMoves, SweepMoves, CrashMoves DEF Next

-----------------------------------------------------------------------------
(* The theorems that hold under every fault *)

LEMMA InitHolds == Init => IInv
<1> SUFFICES ASSUME Init PROVE IInv
    OBVIOUS
<1>1. balance \in [Accounts -> Int] /\ commissionBps \in Nat
    BY P2PAssumption DEF Init
<1>2. journal \in [Keys -> Seq(Posting)]
    BY DEF Init, NoJournal
<1>3. TypeOK
    BY <1>1, <1>2 DEF Init, TypeOK, CallState
<1>4. RowsExist /\ LockedFirst
    BY DEF Init, RowsExist, LockedFirst, Idle
<1> QED
    BY <1>3, <1>4 DEF IInv

LEMMA NextKeepsIInv ==
    ASSUME IInv, [Next]_vars
    PROVE  IInv'
<1>1. CASE Next
    BY <1>1, NextMoves, MovesKeepIInv DEF Moves
<1>2. CASE UNCHANGED vars
    <2>1. RowsGrow /\ CallsMove /\ RestMoves /\ LedgerMoves
        BY <1>2, RowsStay, CallsStay, RestStays
           DEF IInv, vars, storeVars, LedgerMoves, ledgerVars
    <2> QED
        BY <2>1, MovesKeepIInv
<1> QED
    BY <1>1, <1>2

LEMMA RowsExistAndAreLocked == Spec => []IInv
BY InitHolds, NextKeepsIInv, PTL DEF Spec

\* Rows and handlers in flight stay well formed under every fault: in
\* particular no offer's remaining amount goes below zero, because createOrder
\* checks it again under the offer's row lock.
THEOREM TypeCorrect == Spec => []TypeOK
BY RowsExistAndAreLocked, PTL DEF IInv

-----------------------------------------------------------------------------
(* Steps that claim, pay and revert nothing *)

CallsQuiet ==
    \/ \A d \in Calls :
          \/ calls'[d] = calls[d]
          \/ calls'[d].op \in {"idle", "createOffer", "closeOffer", "cancel"}
    \/ \E c \in Calls :
          /\ \A d \in Calls \ {c} : calls'[d] = calls[d]
          /\ \/ calls'[c].op = "openOrder" /\ FreshOrder(calls'[c].order)
             \/ /\ calls'[c].op = "release" /\ calls'[c].pc = "claim"
                /\ calls'[c].from \subseteq {"payment_submitted", "disputed"}

Quiet ==
    /\ \A o \in Orders :
          /\ orders[o].status = "released" => orders'[o].status = "released"
          /\ orders[o] = NoOrder => orders'[o] = NoOrder
          /\ Posted(ReleaseKey(o))' = Posted(ReleaseKey(o))
    /\ CallsQuiet

LEMMA QuietKeepsInserts ==
    ASSUME IInv, IInv', InsertsAreFresh, Quiet
    PROVE  InsertsAreFresh'
<1>1. \A d \in Calls : calls'[d].op = "openOrder" => calls'[d].order \in Orders
    BY CallFieldsNext DEF IInv, TypeOK
<1>2. CASE \A d \in Calls : calls'[d].op = "openOrder" => calls'[d] = calls[d]
    BY <1>1, <1>2 DEF InsertsAreFresh, Quiet
<1>3. ASSUME NEW c \in Calls, \A d \in Calls \ {c} : calls'[d] = calls[d],
             calls'[c].op = "openOrder", FreshOrder(calls'[c].order)
      PROVE  InsertsAreFresh'
    BY <1>1, <1>3 DEF InsertsAreFresh, Quiet, FreshOrder
<1> QED
    BY <1>2, <1>3 DEF Quiet, CallsQuiet

LEMMA QuietKeepsReleaseInv ==
    ASSUME IInv, IInv', ReleaseInv, Quiet
    PROVE  ReleaseInv'
<1> USE DEF ReleaseInv
<1>1. ReleaseIsFinal'
    BY DEF Quiet, ReleaseIsFinal
<1>2. \A d \in Calls : Holds(d)' => Holds(d) /\ calls'[d] = calls[d]
    BY DEF Quiet, CallsQuiet, Holds
<1>3. \A d \in Calls : Holds(d) => calls[d].order \in Orders
    BY ReleaseFields DEF Holds
<1>4. HeldIsUnpaid'
    BY <1>2, <1>3 DEF HeldIsUnpaid, Quiet, Posted, ReleaseKey
<1>5. OneHolder'
    BY <1>2 DEF OneHolder
<1>6. ClaimsAreOpen'
    BY DEF ClaimsAreOpen, Quiet, CallsQuiet
<1>7. InsertsAreFresh'
    BY QuietKeepsInserts
<1> QED
    BY <1>1, <1>4, <1>5, <1>6, <1>7

\* Locks and unlocks post no release.
LEMMA LockAndUnlockReleaseNothing ==
    ASSUME IInv, NEW f \in Offers, NEW m \in Customers, NEW n \in Int,
           \/ Post(LockKey(f), p2pLock(m, Asset, n))
           \/ Post(UnlockKey(f), p2pUnlock(m, Asset, n))
    PROVE  \A o \in Orders : Posted(ReleaseKey(o))' = Posted(ReleaseKey(o))
<1>1. StoreTypeOK
    BY DEF IInv, TypeOK, StoreTypeOK
<1>2. PICK k \in {LockKey(f), UnlockKey(f)}, s \in Seq(Posting) : Post(k, s)
    BY P2PAssumption, MovesAreJournals
<1>3. k \in Keys /\ \A o \in Orders : ReleaseKey(o) \in Keys \ {k}
    BY <1>2, KeysExist
<1>4. \A j \in Keys \ {k} : journal'[j] = journal[j]
    BY <1>1, <1>2, <1>3, PostAppends
<1> QED
    BY <1>3, <1>4 DEF Posted, ReleaseKey

LEMMA LedgerStaysReleasesNothing ==
    ASSUME UNCHANGED ledgerVars
    PROVE  \A o \in Orders : Posted(ReleaseKey(o))' = Posted(ReleaseKey(o))
BY DEF ledgerVars, Posted, ReleaseKey

\* Handlers other than releases and openOrders come and go.
LEMMA OtherCallsAreQuiet ==
    ASSUME IInv, NEW c \in Calls,
           \/ Returns(c)
           \/ \E pc : GoesTo(c, pc) /\ calls[c].op \in {"createOffer", "closeOffer"}
           \/ \E state : Starts(c, state) /\ state.op \in {"createOffer", "closeOffer", "cancel"}
    PROVE  CallsQuiet
<1>1. \A d \in Calls \ {c} : calls'[d] = calls[d]
    BY DEF IInv, TypeOK, Returns, GoesTo, Starts
<1>2. CASE Returns(c)
    BY <1>1, <1>2 DEF IInv, TypeOK, Returns, Idle, CallsQuiet
<1>3. ASSUME NEW pc, GoesTo(c, pc), calls[c].op \in {"createOffer", "closeOffer"}
      PROVE  CallsQuiet
    <2>1. calls'[c] = [calls[c] EXCEPT !.pc = pc]
        BY <1>3 DEF IInv, TypeOK, GoesTo
    <2>2. calls'[c].op = calls[c].op
        BY <1>3, <2>1, CallFields DEF IInv
    <2> QED
        BY <1>1, <1>3, <2>2 DEF CallsQuiet
<1>4. ASSUME NEW state, Starts(c, state), state.op \in {"createOffer", "closeOffer", "cancel"}
      PROVE  CallsQuiet
    BY <1>1, <1>4 DEF IInv, TypeOK, Starts, CallsQuiet
<1> QED
    BY <1>2, <1>3, <1>4

LEMMA OfferStepsAreQuiet ==
    ASSUME IInv, NEW c \in Calls,
           \/ \E f \in Offers, p \in Customers, n \in Sizes : CreateOfferLock(c, f, p, n)
           \/ CreateOfferInsert(c) \/ CreateOfferCompensate(c)
           \/ \E f \in Offers : CloseOffer(c, f)
           \/ CloseOfferCheck(c) \/ CloseOfferFlip(c) \/ CloseOfferUnlock(c)
    PROVE  Quiet
<1>1. UNCHANGED orders
    BY DEF CreateOfferLock, CreateOfferInsert, CreateOfferCompensate, CloseOffer,
           CloseOfferCheck, CloseOfferFlip, CloseOfferUnlock
<1>2. ASSUME NEW f \in Offers, NEW p \in Customers, NEW n \in Sizes,
             CreateOfferLock(c, f, p, n)
      PROVE  Quiet
    <2>1. n \in Int
        BY P2PAssumption
    <2>2. \A o \in Orders : Posted(ReleaseKey(o))' = Posted(ReleaseKey(o))
        BY <1>2, <2>1, LockAndUnlockReleaseNothing DEF CreateOfferLock
    <2>3. CallsQuiet
        <3>1. CASE UNCHANGED calls
            BY <3>1 DEF CallsQuiet
        <3>2. CASE \E state : Starts(c, state) /\ state.op = "createOffer"
            BY <3>2, OtherCallsAreQuiet
        <3> QED
            BY <1>2, <3>1, <3>2 DEF CreateOfferLock
    <2> QED
        BY <1>1, <2>2, <2>3 DEF Quiet
<1>3. CASE CreateOfferInsert(c) \/ CloseOfferCheck(c)
    <2>1. CallsQuiet
        BY <1>3, OtherCallsAreQuiet DEF CreateOfferInsert, CloseOfferCheck, At
    <2> QED
        BY <1>1, <1>3, <2>1, LedgerStaysReleasesNothing
           DEF Quiet, CreateOfferInsert, CloseOfferCheck, ledgerVars
<1>4. CASE CreateOfferCompensate(c)
    <2>1. calls[c].offer \in Offers /\ calls[c].merchant \in Customers /\ calls[c].amount \in Int
        BY <1>4, CallFields DEF CreateOfferCompensate, At, IInv
    <2>2. \A o \in Orders : Posted(ReleaseKey(o))' = Posted(ReleaseKey(o))
        BY <1>4, <2>1, LockAndUnlockReleaseNothing, LedgerStaysReleasesNothing
           DEF CreateOfferCompensate, Refuse
    <2> QED
        BY <1>1, <1>4, <2>2, OtherCallsAreQuiet DEF Quiet, CreateOfferCompensate
<1>5. CASE \E f \in Offers : CloseOffer(c, f)
    <2>1. CallsQuiet
        BY <1>5, OtherCallsAreQuiet DEF CloseOffer
    <2> QED
        BY <1>1, <1>5, <2>1, LedgerStaysReleasesNothing DEF Quiet, CloseOffer, ledgerVars
<1>6. CASE CloseOfferFlip(c)
    <2>1. CallsQuiet
        <3>1. CASE Returns(c)
            BY <3>1, OtherCallsAreQuiet
        <3>2. CASE calls' = [calls EXCEPT ![c].pc = "unlock",
                                          ![c].amount = offers[calls[c].offer].remaining]
            <4>1. \A d \in Calls \ {c} : calls'[d] = calls[d]
                BY <3>2 DEF IInv, TypeOK
            <4>2. calls'[c].op = "closeOffer"
                BY <1>6, <3>2, CallFields DEF IInv, TypeOK, CloseOfferFlip, At
            <4> QED
                BY <4>1, <4>2 DEF CallsQuiet
        <3> QED
            BY <1>6, <3>1, <3>2 DEF CloseOfferFlip
    <2> QED
        BY <1>1, <1>6, <2>1, LedgerStaysReleasesNothing DEF Quiet, CloseOfferFlip, ledgerVars
<1>7. CASE CloseOfferUnlock(c)
    <2>1. /\ calls[c].offer \in Offers /\ offers[calls[c].offer].merchant \in Customers
          /\ calls[c].amount \in Int
        BY <1>7, CallFields, OfferRows DEF CloseOfferUnlock, At, IInv, RowsExist, Offer
    <2>2. \A o \in Orders : Posted(ReleaseKey(o))' = Posted(ReleaseKey(o))
        BY <1>7, <2>1, LockAndUnlockReleaseNothing, LedgerStaysReleasesNothing
           DEF CloseOfferUnlock, Refuse
    <2> QED
        BY <1>1, <1>7, <2>2, OtherCallsAreQuiet DEF Quiet, CloseOfferUnlock
<1> QED
    BY <1>2, <1>3, <1>4, <1>5, <1>6, <1>7

LEMMA OpenOrderIsQuiet ==
    ASSUME IInv, NEW c \in Calls, NEW f \in Offers, NEW o \in Orders,
           NEW p \in Customers, NEW n \in Sizes, OpenOrder(c, f, o, p, n)
    PROVE  Quiet
<1>1. CallsQuiet
    <2>1. calls'[c].op = "openOrder" /\ calls'[c].order = o
        BY DEF OpenOrder, Starts, IInv, TypeOK
    <2>2. \A d \in Calls \ {c} : calls'[d] = calls[d]
        BY DEF OpenOrder, Starts, IInv, TypeOK
    <2>3. FreshOrder(calls'[c].order)
        BY <2>1 DEF OpenOrder, FreshOrder
    <2> QED
        BY <2>1, <2>2, <2>3 DEF CallsQuiet
<1> QED
    BY <1>1, LedgerStaysReleasesNothing DEF Quiet, OpenOrder, ledgerVars

LEMMA StartReleaseIsQuiet ==
    ASSUME IInv, NEW c \in Calls, NEW o \in Orders, ReleaseOrder(c, o) \/ AdminRelease(c, o)
    PROVE  Quiet
<1>1. PICK from \in SUBSET {"payment_submitted", "disputed"} : StartRelease(c, o, from)
    BY DEF ReleaseOrder, AdminRelease
<1>2. CallsQuiet
    BY <1>1 DEF StartRelease, Starts, IInv, TypeOK, CallsQuiet
<1> QED
    BY <1>2, LedgerStaysReleasesNothing DEF Quiet, ReleaseOrder, AdminRelease, ledgerVars

\* A cancelled order was not released.
LEMMA CancelKeepsReleased ==
    ASSUME IInv, NEW o \in Orders, storeTryCancel(o)
    PROVE  \A p \in Orders :
               /\ orders[p].status = "released" => orders'[p].status = "released"
               /\ orders[p] = NoOrder => orders'[p] = NoOrder
BY DEF IInv, TypeOK, storeTryCancel, storeCancelOrder, storeVars, CANCELLABLE, NoOrder

LEMMA OrderStepsAreQuiet ==
    ASSUME IInv, NEW o \in Orders,
           SubmitPayment(o) \/ DisputeOrder(o) \/ PayWindowEnds(o)
    PROVE  Quiet
<1>1. UNCHANGED ledgerVars /\ UNCHANGED calls
    BY DEF SubmitPayment, DisputeOrder, PayWindowEnds, ledgerVars
<1>2. \A p \in Orders \ {o} : orders'[p] = orders[p]
    BY DEF SubmitPayment, DisputeOrder, PayWindowEnds, IInv, TypeOK
<1>3. orders[o].status # "released" /\ orders[o] # NoOrder
    BY DEF SubmitPayment, DisputeOrder, PayWindowEnds, NoOrder
<1> QED
    BY <1>1, <1>2, <1>3, LedgerStaysReleasesNothing DEF Quiet, CallsQuiet

LEMMA CancelsAreQuiet ==
    ASSUME IInv, (\E o \in Orders : SweepCancel(o)) \/ (\E c \in Calls : CancelCommit(c))
    PROVE  Quiet
<1>1. CASE \E c \in Calls : CancelCommit(c)
    <2> PICK c \in Calls : CancelCommit(c)
        BY <1>1
    <2>1. calls[c].order \in Orders
        BY CallFields DEF CancelCommit, IInv
    <2>2. CallsQuiet
        BY OtherCallsAreQuiet DEF CancelCommit
    <2> QED
        BY <2>1, <2>2, CancelKeepsReleased, LedgerStaysReleasesNothing
           DEF Quiet, CancelCommit, ledgerVars
<1>2. CASE \E o \in Orders : SweepCancel(o)
    <2> PICK o \in Orders : SweepCancel(o)
        BY <1>2
    <2>1. storeTryCancel(o) \/ UNCHANGED orders
        BY DEF SweepCancel, storeVars
    <2>2. \A p \in Orders :
              /\ orders[p].status = "released" => orders'[p].status = "released"
              /\ orders[p] = NoOrder => orders'[p] = NoOrder
        BY <2>1, CancelKeepsReleased
    <2> QED
        BY <2>2, LedgerStaysReleasesNothing DEF Quiet, CallsQuiet, SweepCancel, ledgerVars
<1> QED
    BY <1>1, <1>2

LEMMA OtherStepsAreQuiet ==
    ASSUME IInv,
           \/ \E c \in Calls : \/ CallFails(c)
                               \/ \E o \in Orders : CancelOrder(c, o) \/ AdminCancel(c, o)
           \/ SweepList \/ Crash
           \/ \E bps \in CommissionRates : SetCommissionBps(bps)
    PROVE  Quiet
<1>1. ASSUME NEW c \in Calls, CallFails(c) PROVE Quiet
    BY <1>1, OtherCallsAreQuiet, LedgerStaysReleasesNothing DEF Quiet, CallFails, ledgerVars
<1>2. ASSUME NEW c \in Calls, NEW o \in Orders, CancelOrder(c, o) \/ AdminCancel(c, o)
      PROVE  Quiet
    <2>1. \E state : Starts(c, state) /\ state.op = "cancel"
        BY <1>2 DEF CancelOrder, AdminCancel
    <2>2. CallsQuiet
        BY <2>1, OtherCallsAreQuiet
    <2> QED
        BY <1>2, <2>2, LedgerStaysReleasesNothing DEF Quiet, CancelOrder, AdminCancel, ledgerVars
<1>3. CASE SweepList
    BY <1>3, LedgerStaysReleasesNothing DEF Quiet, CallsQuiet, SweepList, ledgerVars
<1>4. CASE Crash
    <2>1. CallsQuiet
        BY <1>4 DEF Crash, Idle, CallsQuiet
    <2> QED
        BY <1>4, <2>1, LedgerStaysReleasesNothing DEF Quiet, Crash, ledgerVars
<1>5. CASE \E bps \in CommissionRates : SetCommissionBps(bps)
    BY <1>5, LedgerStaysReleasesNothing DEF Quiet, CallsQuiet, SetCommissionBps, ledgerVars
<1> QED
    BY <1>1, <1>2, <1>3, <1>4, <1>5

-----------------------------------------------------------------------------
(* The steps that insert, claim, pay and revert *)

LEMMA OpenOrderInsertKeepsInserts ==
    ASSUME IInv, InsertsAreFresh, NEW c \in Calls, OpenOrderInsert(c)
    PROVE  InsertsAreFresh'
<1> DEFINE o == calls[c].order
<1>1. calls[c].op = "openOrder" /\ o \in Orders
    BY CallFields DEF OpenOrderInsert, IInv
<1>2. \A p \in Orders \ {o} : orders'[p] = orders[p]
    BY DEF OpenOrderInsert, InsertOrder, storeVars, IInv, TypeOK
<1>3. calls'[c] = Idle /\ \A d \in Calls \ {c} : calls'[d] = calls[d]
    BY DEF OpenOrderInsert, Returns, IInv, TypeOK
<1>4. \A d \in Calls \ {c} : calls[d].op = "openOrder" => calls[d].order \in Orders \ {o}
    BY <1>1, CallFields DEF InsertsAreFresh, IInv
<1> QED
    BY <1>2, <1>3, <1>4 DEF InsertsAreFresh, Idle

LEMMA OpenOrderInsertKeepsReleaseInv ==
    ASSUME IInv, IInv', ReleaseInv, NEW c \in Calls, OpenOrderInsert(c)
    PROVE  ReleaseInv'
<1> DEFINE o == calls[c].order
<1> USE DEF ReleaseInv
<1>1. calls[c].op = "openOrder" /\ o \in Orders /\ orders[o] = NoOrder
    BY CallFields DEF OpenOrderInsert, IInv, InsertsAreFresh
<1>2. \A p \in Orders \ {o} : orders'[p] = orders[p]
    BY DEF OpenOrderInsert, InsertOrder, storeVars, IInv, TypeOK
<1>3. calls'[c] = Idle /\ \A d \in Calls \ {c} : calls'[d] = calls[d]
    BY DEF OpenOrderInsert, Returns, IInv, TypeOK
<1>4. \A p \in Orders : orders[p].status = "released" => orders'[p].status = "released"
    BY <1>1, <1>2 DEF NoOrder
<1>5. \A p \in Orders : Posted(ReleaseKey(p))' = Posted(ReleaseKey(p))
    BY LedgerStaysReleasesNothing DEF OpenOrderInsert, ledgerVars
<1>6. \A d \in Calls : Holds(d)' => Holds(d) /\ calls'[d] = calls[d] /\ calls[d].order \in Orders
    BY <1>3, ReleaseFields DEF Holds, Idle
<1>7. ReleaseIsFinal' /\ HeldIsUnpaid' /\ OneHolder'
    BY <1>4, <1>5, <1>6 DEF ReleaseIsFinal, HeldIsUnpaid, OneHolder, Posted, ReleaseKey
<1>8. ClaimsAreOpen'
    BY <1>3 DEF ClaimsAreOpen, Idle
<1>9. InsertsAreFresh'
    BY OpenOrderInsertKeepsInserts
<1> QED
    BY <1>7, <1>8, <1>9

\* A release that goes on keeps its order.
LEMMA ReleaseGoesOn ==
    ASSUME IInv, NEW c \in Calls, calls[c].op = "release", NEW pc, GoesTo(c, pc)
    PROVE  /\ calls'[c].op = "release"
           /\ calls'[c].order = calls[c].order /\ calls'[c].from = calls[c].from
<1>1. calls'[c] = [calls[c] EXCEPT !.pc = pc]
    BY DEF GoesTo, IInv, TypeOK
<1> QED
    BY <1>1, CallFields DEF IInv

\* What a release's steps leave alone: every other handler, and the ids.
LEMMA ReleaseStepsLeaveTheRest ==
    ASSUME IInv, NEW c \in Calls,
           ReleaseClaim(c) \/ ReleasePost(c) \/ ReleaseRevert(c)
    PROVE  /\ calls[c].op = "release"
           /\ \A d \in Calls \ {c} : calls'[d] = calls[d]
           /\ \/ calls'[c] = Idle
              \/ /\ calls'[c].op = "release"
                 /\ calls'[c].order = calls[c].order /\ calls'[c].from = calls[c].from
           /\ \A p \in Orders \ {calls[c].order} : orders'[p] = orders[p]
           /\ (ClaimsAreOpen => ClaimsAreOpen') /\ (InsertsAreFresh => InsertsAreFresh')
<1>1. calls[c].op = "release"
    BY DEF ReleaseClaim, ReleasePost, ReleaseRevert, At
<1>2. Returns(c) \/ \E pc : GoesTo(c, pc)
    BY DEF ReleaseClaim, ReleasePost, ReleaseRevert
<1>3. \A d \in Calls \ {c} : calls'[d] = calls[d]
    BY <1>2 DEF Returns, GoesTo, IInv, TypeOK
<1>4. \/ calls'[c] = Idle
      \/ /\ calls'[c].op = "release"
         /\ calls'[c].order = calls[c].order /\ calls'[c].from = calls[c].from
    <2>1. CASE Returns(c)
        BY <2>1 DEF Returns, IInv, TypeOK
    <2>2. CASE \E pc : GoesTo(c, pc)
        BY <1>1, <2>2, ReleaseGoesOn
    <2> QED
        BY <1>2, <2>1, <2>2
<1>5. \A p \in Orders \ {calls[c].order} : orders'[p] = orders[p]
    BY DEF ReleaseClaim, ReleasePost, ReleaseRevert, IInv, TypeOK
<1>6. ClaimsAreOpen => ClaimsAreOpen'
    BY <1>1, <1>3, <1>4 DEF ClaimsAreOpen, Idle
<1>7. ASSUME InsertsAreFresh PROVE InsertsAreFresh'
    <2>1. orders[calls[c].order] # NoOrder
        BY <1>1 DEF IInv, RowsExist
    <2>2. \A d \in Calls : calls'[d].op = "openOrder" =>
              calls'[d] = calls[d] /\ calls[d].order \in Orders
        BY <1>3, <1>4, CallFields DEF IInv, Idle
    <2> QED
        BY <1>5, <1>7, <2>1, <2>2 DEF InsertsAreFresh
<1> QED
    BY <1>1, <1>3, <1>4, <1>5, <1>6, <1>7

NoLostAck == "lost_ack" \notin Faults

LEMMA ReleaseClaimKeepsReleaseInv ==
    ASSUME IInv, IInv', ReleaseInv, NEW c \in Calls, ReleaseClaim(c)
    PROVE  ReleaseInv'
<1> DEFINE o == calls[c].order
<1> USE DEF ReleaseInv
<1>1. calls[c].op = "release" /\ calls[c].pc = "claim" /\ o \in Orders
    BY ReleaseFields DEF ReleaseClaim, At
<1>2. \A p \in Orders : Posted(ReleaseKey(p))' = Posted(ReleaseKey(p))
    BY LedgerStaysReleasesNothing DEF ReleaseClaim, ledgerVars
<1>3. CASE UNCHANGED orders /\ Returns(c)
    <2>1. CallsQuiet
        BY <1>3, OtherCallsAreQuiet
    <2> QED
        BY <1>2, <1>3, <2>1, QuietKeepsReleaseInv DEF Quiet
<1>4. CASE /\ orders[o].status \in calls[c].from
           /\ orders' = [orders EXCEPT ![o].status = "released"]
    <2>1. orders[o].status # "released" /\ orders[o] # NoOrder
        BY <1>1, <1>4 DEF ClaimsAreOpen, IInv, RowsExist
    <2>2. ~Posted(ReleaseKey(o)) /\ orders'[o].status = "released"
        <3>1. orders[o] \in Order
            BY <1>1, <2>1, OrderRows DEF IInv
        <3>2. orders'[o].status = "released"
            BY <1>1, <1>4, <3>1 DEF Order, IInv, TypeOK
        <3> QED
            BY <1>1, <2>1, <3>2 DEF ReleaseIsFinal
    <2>3. /\ \A d \in Calls \ {c} : calls'[d] = calls[d]
          /\ \A p \in Orders \ {o} : orders'[p] = orders[p]
          /\ ClaimsAreOpen' /\ InsertsAreFresh'
        BY ReleaseStepsLeaveTheRest
    <2>4. \A d \in Calls \ {c} : Holds(d) => calls[d].order \in Orders \ {o}
        BY <2>1, ReleaseFields DEF HeldIsUnpaid, Holds
    <2>5. Holds(c)' => calls'[c].order = o
        BY ReleaseStepsLeaveTheRest DEF Holds, Idle
    <2>6. ReleaseIsFinal'
        BY <1>2, <2>2, <2>3 DEF ReleaseIsFinal
    <2>7. HeldIsUnpaid'
        BY <1>1, <1>2, <2>2, <2>3, <2>4, <2>5 DEF HeldIsUnpaid, Holds, Posted, ReleaseKey
    <2>8. OneHolder'
        BY <2>3, <2>4, <2>5 DEF OneHolder, Holds
    <2> QED
        BY <2>3, <2>6, <2>7, <2>8
<1> QED
    BY <1>3, <1>4 DEF ReleaseClaim

LEMMA ReleasePostKeepsReleaseInv ==
    ASSUME NoLostAck, IInv, IInv', ReleaseInv, NEW c \in Calls, ReleasePost(c)
    PROVE  ReleaseInv'
<1> DEFINE o == calls[c].order
           row == orders[o]
           postings == p2pRelease(row.merchant, row.buyer, Asset, row.amount,
                                  CommissionOf(row))
<1> USE DEF ReleaseInv
<1>1. /\ calls[c].op = "release" /\ calls[c].pc = "post" /\ Holds(c)
      /\ o \in Orders /\ row \in Order /\ row.status = "released"
    BY ReleaseFields DEF ReleasePost, At, Holds, HeldIsUnpaid
<1>2. /\ \A d \in Calls \ {c} : calls'[d] = calls[d]
      /\ ClaimsAreOpen' /\ InsertsAreFresh' /\ UNCHANGED orders
    BY ReleaseStepsLeaveTheRest DEF ReleasePost
<1>3. CASE Post(ReleaseKey(o), postings) /\ Returns(c)
    <2>1. postings \in Seq(Posting)
        BY <1>1, P2PAssumption, SplitsAreJournals DEF Order, CommissionOf
    <2>2. \A p \in Orders \ {o} : ReleaseKey(p) \in Keys \ {ReleaseKey(o)}
        BY <1>1, KeysExist DEF ReleaseKey
    <2>3. \A p \in Orders \ {o} : Posted(ReleaseKey(p))' = Posted(ReleaseKey(p))
        <3>1. StoreTypeOK /\ ReleaseKey(o) \in Keys
            BY <1>1, KeysExist DEF IInv, TypeOK, StoreTypeOK
        <3>2. \A j \in Keys \ {ReleaseKey(o)} : journal'[j] = journal[j]
            BY <1>3, <2>1, <3>1, PostAppends
        <3> QED
            BY <2>2, <3>2 DEF Posted, ReleaseKey
    <2>4. ~Holds(c)'
        BY <1>3 DEF Returns, Idle, Holds, IInv, TypeOK
    <2>5. \A d \in Calls : Holds(d)' => Holds(d) /\ calls'[d] = calls[d]
        BY <1>2, <2>4 DEF Holds
    <2>6. \A d \in Calls : Holds(d)' => calls[d].order \in Orders \ {o}
        BY <1>1, <2>4, <2>5, ReleaseFields DEF OneHolder, Holds
    <2>7. ReleaseIsFinal'
        BY <1>1, <1>2, <2>3 DEF ReleaseIsFinal
    <2>8. HeldIsUnpaid'
        BY <1>2, <2>3, <2>5, <2>6 DEF HeldIsUnpaid, Posted, ReleaseKey
    <2>9. OneHolder'
        BY <2>5 DEF OneHolder
    <2> QED
        BY <1>2, <2>7, <2>8, <2>9
<1>4. CASE UNCHANGED ledgerVars /\ GoesTo(c, "revert")
    <2>1. \A p \in Orders : Posted(ReleaseKey(p))' = Posted(ReleaseKey(p))
        BY <1>4, LedgerStaysReleasesNothing
    <2>2. calls'[c].op = "release" /\ calls'[c].order = o
        BY <1>1, <1>4, CallFields DEF GoesTo, IInv, TypeOK
    <2>3. \A d \in Calls : Holds(d)' => Holds(d) /\ calls'[d].order = calls[d].order
                                              /\ calls[d].order \in Orders
        BY <1>1, <1>2, <2>2, ReleaseFields DEF Holds
    <2>4. ReleaseIsFinal'
        BY <1>2, <2>1 DEF ReleaseIsFinal
    <2>5. HeldIsUnpaid'
        BY <1>2, <2>1, <2>3 DEF HeldIsUnpaid, Posted, ReleaseKey
    <2>6. OneHolder'
        BY <2>3 DEF OneHolder
    <2> QED
        BY <1>2, <2>4, <2>5, <2>6
<1> QED
    BY <1>3, <1>4 DEF ReleasePost, Ackless, NoLostAck

LEMMA ReleaseRevertKeepsReleaseInv ==
    ASSUME IInv, IInv', ReleaseInv, NEW c \in Calls, ReleaseRevert(c)
    PROVE  ReleaseInv'
<1> DEFINE o == calls[c].order
<1> USE DEF ReleaseInv
<1>1. calls[c].op = "release" /\ Holds(c) /\ o \in Orders
    BY ReleaseFields DEF ReleaseRevert, At, Holds
<1>2. ~Posted(ReleaseKey(o))
    BY <1>1 DEF HeldIsUnpaid
<1>3. /\ \A d \in Calls \ {c} : calls'[d] = calls[d]
      /\ \A p \in Orders \ {o} : orders'[p] = orders[p]
      /\ ClaimsAreOpen' /\ InsertsAreFresh'
    BY ReleaseStepsLeaveTheRest
<1>4. \A p \in Orders : Posted(ReleaseKey(p))' = Posted(ReleaseKey(p))
    BY LedgerStaysReleasesNothing DEF ReleaseRevert, ledgerVars
<1>5. ~Holds(c)'
    BY DEF ReleaseRevert, Returns, Idle, Holds, IInv, TypeOK
<1>6. \A d \in Calls : Holds(d)' => /\ Holds(d) /\ calls'[d] = calls[d]
                                    /\ calls[d].order \in Orders \ {o}
    BY <1>1, <1>3, <1>5, ReleaseFields DEF Holds, OneHolder
<1>7. ReleaseIsFinal'
    BY <1>2, <1>3, <1>4 DEF ReleaseIsFinal
<1>8. HeldIsUnpaid'
    BY <1>3, <1>4, <1>6 DEF HeldIsUnpaid, Posted, ReleaseKey
<1>9. OneHolder'
    BY <1>6 DEF OneHolder
<1> QED
    BY <1>3, <1>7, <1>8, <1>9

\* Every step but the insert of an order and a release's own is quiet.
LEMMA StepsAreQuiet ==
    ASSUME IInv, Next
    PROVE  \/ Quiet
           \/ \E c \in Calls : \/ OpenOrderInsert(c) \/ ReleaseClaim(c)
                               \/ ReleasePost(c) \/ ReleaseRevert(c)
<1>1. ASSUME NEW c \in Calls, CallStarts(c) PROVE Quiet
    <2>1. CASE \E o \in Orders : CancelOrder(c, o) \/ AdminCancel(c, o)
        BY <2>1, OtherStepsAreQuiet
    <2>2. CASE \E o \in Orders : ReleaseOrder(c, o) \/ AdminRelease(c, o)
        BY <2>2, StartReleaseIsQuiet
    <2>3. CASE \E f \in Offers, p \in Customers, n \in Sizes : CreateOfferLock(c, f, p, n)
        BY <2>3, OfferStepsAreQuiet
    <2>4. CASE \E f \in Offers : CloseOffer(c, f)
        BY <2>4, OfferStepsAreQuiet
    <2>5. CASE \E f \in Offers, p \in Customers, n \in Sizes, o \in Orders :
                  OpenOrder(c, f, o, p, n)
        BY <2>5, OpenOrderIsQuiet
    <2> QED
        BY <1>1, <2>1, <2>2, <2>3, <2>4, <2>5 DEF CallStarts
<1>2. ASSUME NEW c \in Calls, CallProceeds(c)
      PROVE  \/ Quiet \/ OpenOrderInsert(c)
             \/ ReleaseClaim(c) \/ ReleasePost(c) \/ ReleaseRevert(c)
    BY <1>2, CancelsAreQuiet, OfferStepsAreQuiet DEF CallProceeds
<1>3. CASE \E o \in Orders : SubmitPayment(o) \/ DisputeOrder(o) \/ PayWindowEnds(o)
    BY <1>3, OrderStepsAreQuiet
<1>4. CASE \E o \in Orders : SweepCancel(o)
    BY <1>4, CancelsAreQuiet
<1>5. CASE \/ \E c \in Calls : CallFails(c)
           \/ SweepList \/ Crash
           \/ \E bps \in CommissionRates : SetCommissionBps(bps)
    BY <1>5, OtherStepsAreQuiet
<1> QED
    BY <1>1, <1>2, <1>3, <1>4, <1>5 DEF Next

LEMMA NextKeepsReleaseInv ==
    ASSUME NoLostAck, IInv, ReleaseInv, [Next]_vars
    PROVE  ReleaseInv'
<1>1. IInv'
    BY NextKeepsIInv
<1>2. CASE UNCHANGED vars
    <2>1. Quiet
        BY <1>2, LedgerStaysReleasesNothing DEF vars, Quiet, CallsQuiet, ledgerVars
    <2> QED
        BY <1>1, <2>1, QuietKeepsReleaseInv
<1>3. CASE Quiet
    BY <1>1, <1>3, QuietKeepsReleaseInv
<1>4. ASSUME NEW c \in Calls,
             \/ OpenOrderInsert(c) \/ ReleaseClaim(c)
             \/ ReleasePost(c) \/ ReleaseRevert(c)
      PROVE  ReleaseInv'
    BY <1>1, <1>4, OpenOrderInsertKeepsReleaseInv, ReleaseClaimKeepsReleaseInv,
       ReleasePostKeepsReleaseInv, ReleaseRevertKeepsReleaseInv
<1> QED
    BY <1>2, <1>3, <1>4, StepsAreQuiet

LEMMA InitIsReleaseInv ==
    ASSUME Init
    PROVE  ReleaseInv
<1>1. \A c \in Calls : calls[c].op = "idle"
    BY DEF Init, Idle
<1>2. \A o \in Orders : ~Posted(ReleaseKey(o))
    BY KeysExist DEF Init, Posted, NoJournal
<1> QED
    BY <1>1, <1>2 DEF ReleaseInv, ReleaseIsFinal, HeldIsUnpaid, OneHolder,
                      ClaimsAreOpen, InsertsAreFresh, Holds

\* While no acknowledgement is lost, an order whose escrow has been paid out
\* stays released, whatever handlers, sweeps, refusals and restarts interleave.
THEOREM ReleasesAreFinal == NoLostAck /\ Spec => []ReleaseIsFinal
<1>1. NoLostAck /\ Init => ReleaseInv
    BY InitIsReleaseInv
<1>2. NoLostAck /\ IInv /\ ReleaseInv /\ [Next]_vars => ReleaseInv'
    BY NextKeepsReleaseInv
<1>3. ReleaseInv => ReleaseIsFinal
    BY DEF ReleaseInv
<1>4. CASE NoLostAck
    BY <1>1, <1>2, <1>3, <1>4, RowsExistAndAreLocked, PTL DEF Spec
<1> QED
    BY <1>4

-----------------------------------------------------------------------------
(* What an order was opened for, and what its release pays *)

SameTerms(row, next) ==
    /\ next.offer = row.offer /\ next.merchant = row.merchant /\ next.buyer = row.buyer
    /\ next.amount = row.amount /\ next.commission = row.commission

TermsStay == \A o \in Orders : orders[o] # NoOrder => SameTerms(orders[o], orders'[o])

ReleaseOf(row) == p2pRelease(row.merchant, row.buyer, Asset, row.amount, row.commission)

\* A journal under a release key is the one the order's row asks for.
PaidAsQuoted ==
    \A o \in Orders : Posted(ReleaseKey(o)) =>
        /\ orders[o] # NoOrder
        /\ orders[o].amount > 0 /\ FeeInRange(orders[o].commission, orders[o].amount)
        /\ journal[ReleaseKey(o)] = ReleaseOf(orders[o])

QuoteInv == InsertsAreFresh /\ PaidAsQuoted

\* Nothing rewrites an order's terms but the insert of another order.
LEMMA FieldsKeepTerms ==
    ASSUME IInv, NEW o \in Orders, orders[o] \in Order, NEW status, NEW late,
           \/ orders' = [orders EXCEPT ![o].status = status]
           \/ orders' = [orders EXCEPT ![o].late = late]
           \/ orders' = [orders EXCEPT ![o].status = status, ![o].late = late]
    PROVE  TermsStay
<1>1. \A p \in Orders \ {o} : orders'[p] = orders[p]
    BY DEF IInv, TypeOK
<1>2. \/ orders'[o] = [orders[o] EXCEPT !.status = status]
      \/ orders'[o] = [orders[o] EXCEPT !.late = late]
      \/ orders'[o] = [[orders[o] EXCEPT !.status = status] EXCEPT !.late = late]
    BY DEF IInv, TypeOK
<1>3. SameTerms(orders[o], orders'[o])
    BY <1>2 DEF SameTerms, Order
<1> QED
    BY <1>1, <1>3 DEF TermsStay, SameTerms

LEMMA RowsKeepTerms ==
    ASSUME UNCHANGED orders
    PROVE  TermsStay
BY DEF TermsStay, SameTerms

LEMMA CancelKeepsTerms ==
    ASSUME IInv, NEW o \in Orders, storeTryCancel(o)
    PROVE  TermsStay
<1>1. CASE UNCHANGED storeVars
    BY <1>1, RowsKeepTerms DEF storeVars
<1>2. CASE storeCancelOrder(o)
    <2>1. orders[o] \in Order
        BY <1>2, OrderRows DEF IInv, storeCancelOrder, CANCELLABLE, OrderStatus
    <2> QED
        BY <1>2, <2>1, FieldsKeepTerms DEF storeCancelOrder
<1> QED
    BY <1>1, <1>2 DEF storeTryCancel

LEMMA StepsKeepTerms ==
    ASSUME IInv, InsertsAreFresh, Next
    PROVE  TermsStay
<1>1. ASSUME NEW c \in Calls, CallStarts(c) \/ CallFails(c) PROVE TermsStay
    BY <1>1, RowsKeepTerms
       DEF CallStarts, CallFails, CreateOfferLock, OpenOrder, CloseOffer, ReleaseOrder,
           AdminRelease, CancelOrder, AdminCancel
<1>2. ASSUME NEW c \in Calls, CallProceeds(c) PROVE TermsStay
    <2>1. CASE OpenOrderInsert(c)
        <3>1. CASE UNCHANGED orders
            BY <3>1, RowsKeepTerms
        <3>2. CASE InsertOrder(c)
            <4>1. calls[c].order \in Orders /\ orders[calls[c].order] = NoOrder
                BY <2>1, CallFields DEF OpenOrderInsert, IInv, InsertsAreFresh
            <4>2. \A p \in Orders \ {calls[c].order} : orders'[p] = orders[p]
                BY <3>2 DEF InsertOrder, IInv, TypeOK
            <4> QED
                BY <4>1, <4>2 DEF TermsStay, SameTerms
        <3> QED
            BY <2>1, <3>1, <3>2 DEF OpenOrderInsert, storeVars
    <2>2. CASE ReleaseClaim(c) \/ ReleaseRevert(c)
        <3>1. calls[c].op = "release"
            BY <2>2 DEF ReleaseClaim, ReleaseRevert, At
        <3>2. calls[c].order \in Orders /\ orders[calls[c].order] \in Order
            BY <3>1, ReleaseFields
        <3>3. \/ UNCHANGED orders
              \/ \E s : orders' = [orders EXCEPT ![calls[c].order].status = s]
            BY <2>2 DEF ReleaseClaim, ReleaseRevert
        <3> QED
            BY <3>2, <3>3, RowsKeepTerms, FieldsKeepTerms
    <2>3. CASE CancelCommit(c)
        <3>1. calls[c].order \in Orders
            BY <2>3, CallFields DEF IInv, CancelCommit
        <3> QED
            BY <2>3, <3>1, CancelKeepsTerms DEF CancelCommit
    <2>4. CASE \/ CreateOfferInsert(c) \/ CreateOfferCompensate(c) \/ CloseOfferCheck(c)
               \/ CloseOfferFlip(c) \/ CloseOfferUnlock(c) \/ ReleasePost(c)
        BY <2>4, RowsKeepTerms
           DEF CreateOfferInsert, CreateOfferCompensate, CloseOfferCheck, CloseOfferFlip,
               CloseOfferUnlock, ReleasePost
    <2> QED
        BY <1>2, <2>1, <2>2, <2>3, <2>4 DEF CallProceeds
<1>3. ASSUME NEW o \in Orders, SubmitPayment(o) \/ DisputeOrder(o) \/ PayWindowEnds(o)
      PROVE  TermsStay
    <2>1. orders[o] \in Order
        BY <1>3, OrderRows DEF IInv, SubmitPayment, DisputeOrder, PayWindowEnds, OrderStatus
    <2> QED
        BY <1>3, <2>1, FieldsKeepTerms DEF SubmitPayment, DisputeOrder, PayWindowEnds
<1>4. ASSUME NEW o \in Orders, SweepCancel(o) PROVE TermsStay
    BY <1>4, CancelKeepsTerms, RowsKeepTerms DEF SweepCancel, storeVars
<1>5. CASE SweepList \/ Crash \/ \E bps \in CommissionRates : SetCommissionBps(bps)
    BY <1>5, RowsKeepTerms DEF SweepList, Crash, SetCommissionBps
<1> QED
    BY <1>1, <1>2, <1>3, <1>4, <1>5 DEF Next

\* A step that releases nothing new keeps what was paid as it was quoted.
LEMMA NoReleaseKeepsPaid ==
    ASSUME IInv, PaidAsQuoted, TermsStay, LedgerMoves, RowsGrow,
           \A o \in Orders : Posted(ReleaseKey(o))' = Posted(ReleaseKey(o))
    PROVE  PaidAsQuoted'
<1>1. \A k \in Keys : Posted(k) => journal'[k] = journal[k]
    <2>1. CASE UNCHANGED ledgerVars
        BY <2>1 DEF ledgerVars
    <2>2. CASE \E k \in Keys, s \in Seq(Posting) : Post(k, s)
        BY <2>2, PostAppends DEF IInv, TypeOK, StoreTypeOK
    <2> QED
        BY <2>1, <2>2 DEF LedgerMoves
<1> SUFFICES ASSUME NEW o \in Orders, Posted(ReleaseKey(o))'
             PROVE  /\ orders'[o] # NoOrder
                    /\ orders'[o].amount > 0
                    /\ FeeInRange(orders'[o].commission, orders'[o].amount)
                    /\ journal'[ReleaseKey(o)] = ReleaseOf(orders'[o])
    BY DEF PaidAsQuoted, ReleaseOf, ReleaseKey
<1>2. /\ orders[o] # NoOrder /\ orders[o].amount > 0
      /\ FeeInRange(orders[o].commission, orders[o].amount)
      /\ journal[ReleaseKey(o)] = ReleaseOf(orders[o])
      /\ journal'[ReleaseKey(o)] = journal[ReleaseKey(o)]
    BY <1>1, KeysExist DEF PaidAsQuoted
<1>3. SameTerms(orders[o], orders'[o]) /\ orders'[o] # NoOrder
    BY <1>2 DEF TermsStay, RowsGrow
<1> QED
    BY <1>2, <1>3 DEF SameTerms, ReleaseOf

\* The release posts the terms of the row it has claimed, and only if the commission
\* fits the amount; a key that is taken already keeps its journal.
LEMMA ReleasePostKeepsPaid ==
    ASSUME IInv, PaidAsQuoted, NEW c \in Calls, ReleasePost(c)
    PROVE  PaidAsQuoted'
<1> DEFINE o == calls[c].order
           postings == ReleaseOf(orders[o])
<1>1. o \in Orders /\ orders[o] \in Order /\ orders[o] # NoOrder
    BY ReleaseFields DEF ReleasePost, At, NoOrder, Order
<1>2. UNCHANGED orders
    BY DEF ReleasePost
<1>3. TermsStay /\ RowsGrow /\ LedgerMoves
    BY <1>2, RowsKeepTerms, ReleasePostMoves DEF Moves
<1>4. CASE UNCHANGED ledgerVars
    BY <1>3, <1>4, LedgerStaysReleasesNothing, NoReleaseKeepsPaid
<1>5. CASE FeeInRange(orders[o].commission, orders[o].amount) /\ Post(ReleaseKey(o), postings)
    <2>1. StoreTypeOK /\ ReleaseKey(o) \in Keys /\ orders[o].amount \in Int
          /\ orders[o].commission \in Int
        BY <1>1, KeysExist DEF IInv, TypeOK, StoreTypeOK, Order
    <2>2. postings \in Seq(Posting)
        BY <1>1, P2PAssumption, SplitsAreJournals DEF Order, ReleaseOf
    <2>3. CASE Posted(ReleaseKey(o))
        BY <1>3, <1>5, <2>3, LedgerStaysReleasesNothing, NoReleaseKeepsPaid DEF Post
    <2>4. CASE ~Posted(ReleaseKey(o))
        <3>1. journal'[ReleaseKey(o)] = postings /\ WellFormed(postings)
            BY <1>5, <2>1, <2>4, PostStores
        <3>2. \A p \in Orders \ {o} : journal'[ReleaseKey(p)] = journal[ReleaseKey(p)]
            <4>1. \A p \in Orders \ {o} : ReleaseKey(p) \in Keys \ {ReleaseKey(o)}
                BY KeysExist DEF ReleaseKey
            <4> QED
                BY <1>5, <2>1, <2>2, <4>1, PostAppends
        <3>3. orders[o].amount > 0
            <4> DEFINE x == p2pEscrow(orders[o].merchant, Asset)
                       y == customerWallet(orders[o].buyer, Asset)
                       z == systemAccount("fee_revenue", Asset)
            <4>1. x \in Accounts /\ y \in Accounts /\ z \in Accounts
                BY <1>1, P2PAssumption, AccountsExist, SystemKindsExist DEF Order
            <4>2. postings = Split(x, y, z, orders[o].amount, orders[o].commission)
                BY DEF ReleaseOf, p2pRelease
            <4> HIDE DEF x, y, z, postings
            <4> QED
                BY <2>1, <3>1, <4>1, <4>2, WellFormedSplit
        <3>4. \A p \in Orders \ {o} : Posted(ReleaseKey(p))' => Posted(ReleaseKey(p))
            BY <3>2 DEF Posted, ReleaseKey
        <3> HIDE DEF o
        <3> QED
            BY <1>1, <1>2, <1>5, <3>1, <3>2, <3>3, <3>4 DEF PaidAsQuoted, ReleaseOf, ReleaseKey
    <2> QED
        BY <2>3, <2>4
<1> QED
    BY <1>4, <1>5 DEF ReleasePost, ReleaseOf, CommissionOf

LEMMA StepsKeepQuoteInv ==
    ASSUME IInv, QuoteInv, [Next]_vars
    PROVE  QuoteInv'
<1> USE DEF QuoteInv
<1>1. IInv'
    BY NextKeepsIInv
<1>2. CASE UNCHANGED vars
    BY <1>2 DEF vars, InsertsAreFresh, PaidAsQuoted, Posted, ReleaseKey
<1>3. CASE Quiet /\ Next
    <2>1. InsertsAreFresh'
        BY <1>1, <1>3, QuietKeepsInserts
    <2>2. PaidAsQuoted'
        BY <1>3, NextMoves, StepsKeepTerms, NoReleaseKeepsPaid DEF Quiet, Moves
    <2> QED
        BY <2>1, <2>2
<1>4. ASSUME NEW c \in Calls, OpenOrderInsert(c), Next PROVE QuoteInv'
    <2>1. \A o \in Orders : Posted(ReleaseKey(o))' = Posted(ReleaseKey(o))
        BY <1>4, LedgerStaysReleasesNothing DEF OpenOrderInsert, ledgerVars
    <2>2. PaidAsQuoted'
        BY <1>4, <2>1, NextMoves, StepsKeepTerms, NoReleaseKeepsPaid DEF Moves
    <2> QED
        BY <1>4, <2>2, OpenOrderInsertKeepsInserts
<1>5. ASSUME NEW c \in Calls, ReleaseClaim(c) \/ ReleaseRevert(c), Next PROVE QuoteInv'
    <2>1. \A o \in Orders : Posted(ReleaseKey(o))' = Posted(ReleaseKey(o))
        BY <1>5, LedgerStaysReleasesNothing DEF ReleaseClaim, ReleaseRevert, ledgerVars
    <2>2. PaidAsQuoted'
        BY <2>1, <1>5, NextMoves, StepsKeepTerms, NoReleaseKeepsPaid DEF Moves
    <2> QED
        BY <1>5, <2>2, ReleaseStepsLeaveTheRest
<1>6. ASSUME NEW c \in Calls, ReleasePost(c) PROVE QuoteInv'
    BY <1>6, ReleasePostKeepsPaid, ReleaseStepsLeaveTheRest
<1>7. CASE Next
    BY <1>3, <1>4, <1>5, <1>6, <1>7, StepsAreQuiet
<1> QED
    BY <1>2, <1>7

\* The buyer receives the amount less the commission that was locked when the order was
\* opened, the seller's escrow pays the amount and the platform books the difference,
\* whatever the setting has become and whatever fails, restarts or is acknowledged late.
THEOREM QuotesArePaid == Spec => []ReleasePaysQuote
<1>1. Init => QuoteInv
    BY KeysExist DEF Init, QuoteInv, InsertsAreFresh, PaidAsQuoted, Idle, Posted
<1>2. ASSUME IInv, QuoteInv PROVE ReleasePaysQuote
    <2> SUFFICES ASSUME NEW o \in Existing(orders), Posted(ReleaseKey(o))
                 PROVE  LET row == orders[o]
                            paid(account) == Delta(journal[ReleaseKey(o)], account)
                        IN /\ paid(customerWallet(row.buyer, Asset))
                                = row.amount - row.commission
                           /\ paid(p2pEscrow(row.merchant, Asset)) = -row.amount
                           /\ paid(systemAccount("fee_revenue", Asset)) = row.commission
        BY DEF ReleasePaysQuote
    <2>1. o \in Orders /\ orders[o] \in Order
        BY <1>2, OrderRows DEF Existing, IInv, TypeOK
    <2>2. /\ orders[o].amount > 0 /\ FeeInRange(orders[o].commission, orders[o].amount)
          /\ journal[ReleaseKey(o)] = ReleaseOf(orders[o])
        BY <1>2, <2>1 DEF QuoteInv, PaidAsQuoted
    <2> DEFINE x == p2pEscrow(orders[o].merchant, Asset)
               y == customerWallet(orders[o].buyer, Asset)
               z == systemAccount("fee_revenue", Asset)
    <2>3. /\ orders[o].merchant \in Customers /\ orders[o].buyer \in Customers
          /\ orders[o].amount \in Int /\ orders[o].commission \in Int /\ Asset \in Currencies
        BY <2>1, P2PAssumption DEF Order
    <2>4. x \in Accounts /\ y \in Accounts /\ z \in Accounts
        BY <2>3, AccountsExist, SystemKindsExist
    <2>5. x # y /\ x # z /\ y # z
        BY DEF p2pEscrow, customerWallet, systemAccount, Account
    <2>6. journal[ReleaseKey(o)] = Split(x, y, z, orders[o].amount, orders[o].commission)
        BY <2>2 DEF ReleaseOf, p2pRelease
    <2> HIDE DEF x, y, z
    <2>7. /\ Delta(journal[ReleaseKey(o)], x) = -orders[o].amount
          /\ Delta(journal[ReleaseKey(o)], y) = orders[o].amount - orders[o].commission
          /\ Delta(journal[ReleaseKey(o)], z) = orders[o].commission
        BY <2>2, <2>3, <2>4, <2>5, <2>6, SplitDelta
    <2> QED
        BY <2>7 DEF x, y, z
<1> QED
    BY <1>1, <1>2, StepsKeepQuoteInv, RowsExistAndAreLocked, PTL DEF Spec

-----------------------------------------------------------------------------
(* The marketplace is a sequence of atomic sales *)

Inserts(c) == calls[c].op = "createOffer" /\ calls[c].pc = "insert"

\* A createOffer that has not inserted yet owns an id no offer has.
OffersAreFresh ==
    \A c \in Calls : Inserts(c) =>
        /\ offers[calls[c].offer] = NoOffer
        /\ \A d \in Calls : Inserts(d) /\ c # d => calls[c].offer # calls[d].offer

\* What is listed or ordered was asked for.
AmountsAreAsked ==
    \A c \in Calls :
        calls[c].op \in {"createOffer", "openOrder"} => calls[c].amount \in Sizes \ {0}

\* A release that began with a cancelled order will not revert to that: the order is
\* cancelled still, and can no longer be claimed.
SeenCancelledStays ==
    \A c \in Calls : calls[c].op = "release" /\ calls[c].seen = "cancelled" =>
        orders[calls[c].order].status = "cancelled"

SaleInv == OffersAreFresh /\ AmountsAreAsked /\ SeenCancelledStays

(* How the handlers may move *)

Continues(d) ==
    \/ calls'[d] = calls[d]
    \/ calls'[d].op \notin {"createOffer", "openOrder", "release"}
    \/ /\ calls[d].op = "createOffer" /\ calls'[d].op = "createOffer"
       /\ calls'[d].pc # "insert" /\ calls'[d].amount = calls[d].amount
    \/ /\ calls[d].op = "release" /\ calls'[d].op = "release"
       /\ calls'[d].order = calls[d].order /\ calls'[d].seen = calls[d].seen

Begins(c) ==
    /\ UNCHANGED storeVars
    /\ \/ /\ calls'[c].op = "createOffer" /\ FreshOffer(calls'[c].offer)
          /\ calls'[c].amount \in Sizes \ {0}
       \/ calls'[c].op = "openOrder" /\ calls'[c].amount \in Sizes \ {0}
       \/ calls'[c].op = "release" /\ calls'[c].seen = orders[calls'[c].order].status

CallsSell ==
    \/ \A d \in Calls : Continues(d)
    \/ \E c \in Calls : Begins(c) /\ \A d \in Calls \ {c} : calls'[d] = calls[d]

\* An offer appears when the handler that owns its id inserts it.
OffersAppear ==
    \A f \in Offers : offers[f] = NoOffer /\ offers'[f] # NoOffer =>
        \E c \in Calls : /\ Inserts(c) /\ calls[c].offer = f
                         /\ ~(calls'[c].op = "createOffer" /\ calls'[c].pc = "insert")

CancelledStays ==
    \A o \in Orders : orders[o].status = "cancelled" => orders'[o].status = "cancelled"

LEMMA SalesKeepSaleInv ==
    ASSUME IInv, IInv', SaleInv, CallsSell, OffersAppear, CancelledStays
    PROVE  SaleInv'
<1> USE DEF SaleInv
<1>1. CASE \A d \in Calls : Continues(d)
    <2>1. \A d \in Calls : Inserts(d)' => Inserts(d) /\ calls'[d] = calls[d]
        BY <1>1 DEF Continues, Inserts
    <2>2. \A d \in Calls : Inserts(d)' => offers'[calls[d].offer] = NoOffer
        <3> SUFFICES ASSUME NEW d \in Calls, Inserts(d)', offers'[calls[d].offer] # NoOffer
                     PROVE  FALSE
            OBVIOUS
        <3>1. Inserts(d) /\ calls'[d] = calls[d] /\ calls[d].offer \in Offers
            BY <2>1, CallFields DEF Inserts, IInv
        <3>2. offers[calls[d].offer] = NoOffer
            BY <3>1 DEF OffersAreFresh
        <3>3. PICK c \in Calls : /\ Inserts(c) /\ calls[c].offer = calls[d].offer
                                 /\ ~(calls'[c].op = "createOffer" /\ calls'[c].pc = "insert")
            BY <3>1, <3>2 DEF OffersAppear
        <3>4. c # d
            BY <3>1, <3>3 DEF Inserts
        <3> QED
            BY <3>1, <3>3, <3>4 DEF OffersAreFresh
    <2>3. OffersAreFresh'
        BY <2>1, <2>2 DEF OffersAreFresh
    <2>4. AmountsAreAsked'
        BY <1>1 DEF AmountsAreAsked, Continues
    <2>5. SeenCancelledStays'
        <3> SUFFICES ASSUME NEW d \in Calls, calls'[d].op = "release",
                            calls'[d].seen = "cancelled"
                     PROVE  orders'[calls'[d].order].status = "cancelled"
            BY DEF SeenCancelledStays
        <3>1. calls[d].op = "release" /\ calls[d].seen = "cancelled"
              /\ calls'[d].order = calls[d].order
            BY <1>1 DEF Continues
        <3>2. calls[d].order \in Orders
            BY <3>1, ReleaseFields
        <3> QED
            BY <3>1, <3>2 DEF SeenCancelledStays, CancelledStays
    <2> QED
        BY <2>3, <2>4, <2>5
<1>2. ASSUME NEW c \in Calls, Begins(c), \A d \in Calls \ {c} : calls'[d] = calls[d]
      PROVE  SaleInv'
    <2>1. UNCHANGED offers /\ UNCHANGED orders
        BY <1>2 DEF Begins, storeVars
    <2>2. AmountsAreAsked'
        BY <1>2 DEF AmountsAreAsked, Begins
    <2>3. SeenCancelledStays'
        BY <1>2, <2>1 DEF SeenCancelledStays, Begins
    <2>4. OffersAreFresh'
        <3>1. \A d \in Calls \ {c} : Inserts(d)' => Inserts(d)
            BY <1>2 DEF Inserts
        <3>2. CASE ~Inserts(c)'
            BY <1>2, <2>1, <3>1, <3>2 DEF OffersAreFresh
        <3>3. CASE Inserts(c)'
            <4>1. FreshOffer(calls'[c].offer)
                BY <1>2, <3>3 DEF Begins, Inserts
            <4>2. \A d \in Calls : Inserts(d) => calls[d].offer # calls'[c].offer
                BY <4>1 DEF IInv, LockedFirst, Inserts, FreshOffer, Posted, LockKey
            <4> QED
                BY <1>2, <2>1, <3>1, <4>1, <4>2 DEF OffersAreFresh, FreshOffer
        <3> QED
            BY <3>2, <3>3
    <2> QED
        BY <2>2, <2>3, <2>4
<1> QED
    BY <1>1, <1>2 DEF CallsSell

(* How the tables look as sales *)

Available(f) == IF offers[f] = NoOffer THEN -1 ELSE offers[f].remaining
SaleOf(o) == IF orders[o] = NoOrder THEN [state |-> "none"]
             ELSE [state |-> SaleState(o), offer |-> orders[o].offer,
                   amount |-> orders[o].amount]

AllAvailable == [f \in Offers |-> Available(f)]
AllListed == {f \in Offers : offers[f].status = "active"}
AllSales == [o \in Orders |-> SaleOf(o)]

LEMMA SaleSteps ==
    /\ UNCHANGED <<AllAvailable, AllListed, AllSales>> => UNCHANGED Sale!saleVars
    /\ \A f \in Offers, n \in Sizes \ {0} :
          /\ AllAvailable[f] = -1 /\ AllAvailable' = [AllAvailable EXCEPT ![f] = n]
          /\ AllListed' = AllListed \cup {f} /\ UNCHANGED AllSales
          => Sale!Next
    /\ \A f \in AllListed :
          AllListed' = AllListed \ {f} /\ UNCHANGED <<AllAvailable, AllSales>> => Sale!Next
    /\ \A o \in Orders, f \in AllListed, n \in Sizes \ {0} :
          /\ AllSales[o] = [state |-> "none"] /\ n <= AllAvailable[f]
          /\ AllAvailable' = [AllAvailable EXCEPT ![f] = AllAvailable[f] - n]
          /\ AllSales' = [AllSales EXCEPT ![o] =
                             [state |-> "open", offer |-> f, amount |-> n]]
          /\ UNCHANGED AllListed
          => Sale!Next
    /\ \A o \in Orders :
          /\ AllSales[o].state = "open"
          /\ AllSales' = [AllSales EXCEPT ![o].state = "paid"]
          /\ UNCHANGED <<AllAvailable, AllListed>>
          => Sale!Next
    /\ \A o \in Orders :
          /\ AllSales[o].state = "open"
          /\ AllSales' = [AllSales EXCEPT ![o].state = "called_off"]
          /\ AllAvailable' = [AllAvailable EXCEPT ![AllSales[o].offer] = @ + AllSales[o].amount]
          /\ UNCHANGED AllListed
          => Sale!Next
<1> USE DEF AllAvailable, AllListed, AllSales, Available, SaleOf
<1>1. UNCHANGED <<AllAvailable, AllListed, AllSales>> => UNCHANGED Sale!saleVars
    BY DEF Sale!saleVars
<1>2. \A f \in Offers, n \in Sizes \ {0} :
          /\ AllAvailable[f] = -1 /\ AllAvailable' = [AllAvailable EXCEPT ![f] = n]
          /\ AllListed' = AllListed \cup {f} /\ UNCHANGED AllSales
          => Sale!List(f, n)
    BY DEF Sale!List, Sale!NotListed
<1>3. \A f \in AllListed :
          AllListed' = AllListed \ {f} /\ UNCHANGED <<AllAvailable, AllSales>> => Sale!Delist(f)
    BY DEF Sale!Delist
<1>4. \A o \in Orders, f \in AllListed, n \in Sizes \ {0} :
          /\ AllSales[o] = [state |-> "none"] /\ n <= AllAvailable[f]
          /\ AllAvailable' = [AllAvailable EXCEPT ![f] = AllAvailable[f] - n]
          /\ AllSales' = [AllSales EXCEPT ![o] =
                             [state |-> "open", offer |-> f, amount |-> n]]
          /\ UNCHANGED AllListed
          => Sale!Open(o, f, n)
    BY DEF Sale!Open, Sale!NoSale
<1>5. \A o \in Orders :
          /\ AllSales[o].state = "open"
          /\ AllSales' = [AllSales EXCEPT ![o].state = "paid"]
          /\ UNCHANGED <<AllAvailable, AllListed>>
          => Sale!PayOut(o)
    BY DEF Sale!PayOut
<1>6. \A o \in Orders :
          /\ AllSales[o].state = "open"
          /\ AllSales' = [AllSales EXCEPT ![o].state = "called_off"]
          /\ AllAvailable' = [AllAvailable EXCEPT ![AllSales[o].offer] = @ + AllSales[o].amount]
          /\ UNCHANGED AllListed
          => Sale!CallOff(o)
    BY DEF Sale!CallOff
<1>7. AllListed \subseteq Offers
    OBVIOUS
<1> QED
    BY <1>1, <1>2, <1>3, <1>4, <1>5, <1>6, <1>7 DEF Sale!Next

LEMMA OffersStay ==
    ASSUME UNCHANGED offers
    PROVE  UNCHANGED <<AllAvailable, AllListed>>
BY DEF AllAvailable, AllListed, Available

LEMMA SaleStays ==
    ASSUME NEW o \in Orders, orders[o] # NoOrder, orders'[o] # NoOrder,
           SameTerms(orders[o], orders'[o]),
           Posted(ReleaseKey(o))' = Posted(ReleaseKey(o)),
           (orders'[o].status = "cancelled") = (orders[o].status = "cancelled")
    PROVE  SaleOf(o)' = SaleOf(o)
<1>1. SaleState(o)' = SaleState(o)
    BY DEF SaleState
<1> QED
    BY <1>1 DEF SaleOf, SameTerms

LEMMA SalesStay ==
    ASSUME UNCHANGED orders,
           \A o \in Orders : Posted(ReleaseKey(o))' = Posted(ReleaseKey(o))
    PROVE  UNCHANGED AllSales
<1>1. \A o \in Orders : SaleOf(o)' = SaleOf(o)
    BY DEF SaleOf, SaleState
<1> QED
    BY <1>1 DEF AllSales

LEMMA SaleEnds ==
    ASSUME IInv, NEW o \in Orders, orders[o] \in Order, orders'[o] # NoOrder,
           orders[o].status # "cancelled", ~Posted(ReleaseKey(o)),
           SameTerms(orders[o], orders'[o]),
           Posted(ReleaseKey(o))' => orders'[o].status # "cancelled"
    PROVE  /\ SaleOf(o).state = "open" /\ SaleOf(o).offer = orders[o].offer
           /\ SaleOf(o).amount = orders[o].amount
           /\ Posted(ReleaseKey(o))' => SaleOf(o)' = [SaleOf(o) EXCEPT !.state = "paid"]
           /\ ~Posted(ReleaseKey(o))' /\ orders'[o].status = "cancelled"
                => SaleOf(o)' = [SaleOf(o) EXCEPT !.state = "called_off"]
<1>1. orders[o] # NoOrder
    BY DEF Order, NoOrder
<1>2. SaleOf(o) = [state |-> "open", offer |-> orders[o].offer, amount |-> orders[o].amount]
    BY <1>1 DEF SaleOf, SaleState
<1>3. Posted(ReleaseKey(o))' => SaleState(o)' = "paid"
    BY DEF SaleState
<1>4. ~Posted(ReleaseKey(o))' /\ orders'[o].status = "cancelled" => SaleState(o)' = "called_off"
    BY DEF SaleState
<1>5. SaleOf(o)' = [state |-> SaleState(o)', offer |-> orders[o].offer,
                    amount |-> orders[o].amount]
    BY DEF SaleOf, SameTerms
<1> QED
    BY <1>2, <1>3, <1>4, <1>5

(* Each step is a sale's step or changes none *)

Sells == SaleInv' /\ (Sale!Next \/ UNCHANGED Sale!saleVars)

LEMMA TablesStay ==
    ASSUME IInv, IInv', SaleInv, CallsSell, UNCHANGED storeVars,
           \A o \in Orders : Posted(ReleaseKey(o))' = Posted(ReleaseKey(o))
    PROVE  Sells
<1>1. UNCHANGED offers /\ UNCHANGED orders
    BY DEF storeVars
<1>2. OffersAppear /\ CancelledStays
    BY <1>1 DEF OffersAppear, CancelledStays
<1> QED
    BY <1>1, <1>2, SalesKeepSaleInv, OffersStay, SalesStay, SaleSteps DEF Sells

\* A handler that ends or goes on.
LEMMA CallsGoOn ==
    ASSUME IInv, NEW c \in Calls,
           \/ Returns(c)
           \/ \E pc : GoesTo(c, pc) /\ calls[c].op = "createOffer" /\ pc # "insert"
           \/ \E pc : GoesTo(c, pc) /\ calls[c].op \in {"closeOffer", "release"}
    PROVE  CallsSell
<1>1. \A d \in Calls \ {c} : calls'[d] = calls[d]
    BY DEF Returns, GoesTo, IInv, TypeOK
<1>2. CASE Returns(c)
    <2>1. calls'[c].op = "idle"
        BY <1>2 DEF Returns, Idle, IInv, TypeOK
    <2> QED
        BY <1>1, <2>1 DEF CallsSell, Continues
<1>3. ASSUME NEW pc, GoesTo(c, pc),
             \/ calls[c].op = "createOffer" /\ pc # "insert"
             \/ calls[c].op \in {"closeOffer", "release"}
      PROVE  CallsSell
    <2>1. calls'[c] = [calls[c] EXCEPT !.pc = pc]
        BY <1>3 DEF GoesTo, IInv, TypeOK
    <2>2. Continues(c)
        BY <1>3, <2>1, CallFields DEF Continues, IInv
    <2> QED
        BY <1>1, <2>2 DEF CallsSell, Continues
<1> QED
    BY <1>2, <1>3

LEMMA StartsSell ==
    ASSUME IInv, NEW c \in Calls, NEW state, Starts(c, state), UNCHANGED storeVars,
           \/ state.op \notin {"createOffer", "openOrder", "release"}
           \/ /\ state.op = "createOffer" /\ FreshOffer(state.offer)
              /\ state.amount \in Sizes \ {0}
           \/ state.op = "openOrder" /\ state.amount \in Sizes \ {0}
           \/ state.op = "release" /\ state.seen = orders[state.order].status
    PROVE  CallsSell
<1>1. calls'[c] = state /\ \A d \in Calls \ {c} : calls'[d] = calls[d]
    BY DEF Starts, IInv, TypeOK
<1>2. CASE state.op \notin {"createOffer", "openOrder", "release"}
    BY <1>1, <1>2 DEF CallsSell, Continues
<1>3. CASE Begins(c)
    BY <1>1, <1>3 DEF CallsSell
<1>4. CASE FreshOffer(state.offer)
    <2>1. FreshOffer(calls'[c].offer)
        BY <1>1, <1>4 DEF FreshOffer
    <2> QED
        BY <1>1, <1>2, <1>3, <2>1 DEF Begins
<1> QED
    BY <1>1, <1>2, <1>3, <1>4 DEF Begins

\* Steps that touch neither offers nor orders and release nothing.
LEMMA CallsComeAndGo ==
    ASSUME IInv, IInv', SaleInv, NEW c \in Calls,
           \/ \E f \in Offers, p \in Customers, n \in Sizes :
                 CreateOfferLock(c, f, p, n) \/ \E o \in Orders : OpenOrder(c, f, o, p, n)
           \/ \E f \in Offers : CloseOffer(c, f)
           \/ \E o \in Orders : \/ ReleaseOrder(c, o) \/ AdminRelease(c, o)
                                \/ CancelOrder(c, o) \/ AdminCancel(c, o)
           \/ CreateOfferCompensate(c) \/ CloseOfferCheck(c) \/ CloseOfferUnlock(c)
           \/ CallFails(c)
    PROVE  Sells
<1>1. UNCHANGED storeVars
    BY DEF storeVars, CreateOfferLock, OpenOrder, CloseOffer, ReleaseOrder, AdminRelease,
           CancelOrder, AdminCancel, CreateOfferCompensate, CloseOfferCheck,
           CloseOfferUnlock, CallFails
<1>2. \A o \in Orders : Posted(ReleaseKey(o))' = Posted(ReleaseKey(o))
    BY OfferStepsAreQuiet, OpenOrderIsQuiet, StartReleaseIsQuiet, OtherStepsAreQuiet DEF Quiet
<1>3. CallsSell
    <2>1. ASSUME NEW f \in Offers, NEW p \in Customers, NEW n \in Sizes,
                 CreateOfferLock(c, f, p, n)
          PROVE  CallsSell
        <3>1. n \in Sizes \ {0} /\ FreshOffer(f)
            BY <2>1, P2PAssumption DEF CreateOfferLock
        <3>2. CASE UNCHANGED calls
            BY <3>2 DEF CallsSell, Continues
        <3>3. CASE \E state : /\ Starts(c, state) /\ state.op = "createOffer"
                              /\ state.offer = f /\ state.amount = n
            BY <1>1, <3>1, <3>3, StartsSell
        <3> QED
            BY <2>1, <3>2, <3>3 DEF CreateOfferLock
    <2>2. ASSUME NEW f \in Offers, NEW p \in Customers, NEW n \in Sizes, NEW o \in Orders,
                 OpenOrder(c, f, o, p, n)
          PROVE  CallsSell
        <3>1. \E state : Starts(c, state) /\ state.op = "openOrder" /\ state.amount = n
            BY <2>2 DEF OpenOrder
        <3>2. n \in Sizes \ {0}
            BY <2>2, P2PAssumption DEF OpenOrder
        <3> QED
            BY <1>1, <3>1, <3>2, StartsSell
    <2>3. CASE \/ \E f \in Offers : CloseOffer(c, f)
               \/ \E o \in Orders : CancelOrder(c, o) \/ AdminCancel(c, o)
        <3>1. ASSUME NEW f \in Offers, CloseOffer(c, f)
              PROVE  \E state : Starts(c, state) /\ state.op = "closeOffer"
            BY <3>1 DEF CloseOffer
        <3>2. ASSUME NEW o \in Orders, CancelOrder(c, o) \/ AdminCancel(c, o)
              PROVE  \E state : Starts(c, state) /\ state.op = "cancel"
            BY <3>2 DEF CancelOrder, AdminCancel
        <3> QED
            BY <1>1, <2>3, <3>1, <3>2, StartsSell
    <2>4. CASE \E o \in Orders : ReleaseOrder(c, o) \/ AdminRelease(c, o)
        <3>1. \E state : /\ Starts(c, state) /\ state.op = "release"
                         /\ state.seen = orders[state.order].status
            BY <2>4 DEF ReleaseOrder, AdminRelease, StartRelease
        <3> QED
            BY <1>1, <3>1, StartsSell
    <2>5. CASE \/ CreateOfferCompensate(c) \/ CloseOfferCheck(c) \/ CloseOfferUnlock(c)
               \/ CallFails(c)
        BY <2>5, CallsGoOn
           DEF CreateOfferCompensate, CloseOfferCheck, CloseOfferUnlock, CallFails, At
    <2> QED
        BY <2>1, <2>2, <2>3, <2>4, <2>5
<1> QED
    BY <1>1, <1>2, <1>3, TablesStay

\* createOffer's insert lists what was locked.
LEMMA InsertLists ==
    ASSUME NoLostAck, IInv, IInv', SaleInv, NEW c \in Calls, CreateOfferInsert(c)
    PROVE  Sells
<1>1. UNCHANGED orders /\ \A o \in Orders : Posted(ReleaseKey(o))' = Posted(ReleaseKey(o))
    BY LedgerStaysReleasesNothing DEF CreateOfferInsert, ledgerVars
<1>2. CallsSell
    BY CallsGoOn DEF CreateOfferInsert, At
<1>3. CASE UNCHANGED offers
    BY <1>1, <1>2, <1>3, TablesStay DEF storeVars
<1>4. ASSUME ~UNCHANGED offers PROVE Sells
    <2> PICK f \in Offers, n \in Sizes \ {0} : f = calls[c].offer /\ n = calls[c].amount
        BY CallFields DEF CreateOfferInsert, At, IInv, SaleInv, AmountsAreAsked
    <2> PICK row : /\ row.status = "active" /\ row.remaining = n /\ row # NoOffer
                   /\ offers' = [offers EXCEPT ![f] = row]
        BY <1>4 DEF CreateOfferInsert, NoOffer
    <2>1. Inserts(c) /\ offers[f] = NoOffer /\ calls'[c] = Idle
        BY <1>4 DEF CreateOfferInsert, At, Inserts, SaleInv, OffersAreFresh, Returns, Ackless,
                    NoLostAck, IInv, TypeOK
    <2>2. offers'[f] = row /\ \A g \in Offers \ {f} : offers'[g] = offers[g]
        BY DEF IInv, TypeOK
    <2>3. OffersAppear /\ CancelledStays
        BY <1>1, <2>1, <2>2 DEF OffersAppear, CancelledStays, Idle
    <2>4. AllAvailable[f] = -1 /\ AllAvailable' = [AllAvailable EXCEPT ![f] = n]
        BY <2>1, <2>2 DEF AllAvailable, Available
    <2>5. AllListed' = AllListed \cup {f}
        BY <2>2 DEF AllListed
    <2> QED
        BY <1>1, <1>2, <2>3, <2>4, <2>5, SalesStay, SaleSteps, SalesKeepSaleInv DEF Sells
<1> QED
    BY <1>3, <1>4

\* closeOffer's compare-and-set delists.
LEMMA FlipDelists ==
    ASSUME NoLostAck, IInv, IInv', SaleInv, NEW c \in Calls, CloseOfferFlip(c)
    PROVE  Sells
<1>1. UNCHANGED orders /\ \A o \in Orders : Posted(ReleaseKey(o))' = Posted(ReleaseKey(o))
    BY LedgerStaysReleasesNothing DEF CloseOfferFlip, ledgerVars
<1>2. calls[c].op = "closeOffer" /\ calls[c].offer \in Offers
    BY CallFields DEF CloseOfferFlip, At, IInv
<1>3. CallsSell
    <2>1. CASE Returns(c)
        BY <2>1, CallsGoOn
    <2>2. CASE calls' = [calls EXCEPT ![c].pc = "unlock",
                                      ![c].amount = offers[calls[c].offer].remaining]
        <3>1. calls'[c].op = "closeOffer" /\ \A d \in Calls \ {c} : calls'[d] = calls[d]
            BY <1>2, <2>2, CallFields DEF IInv, TypeOK
        <3> QED
            BY <3>1 DEF CallsSell, Continues
    <2> QED
        BY <2>1, <2>2 DEF CloseOfferFlip
<1>4. CASE UNCHANGED offers
    BY <1>1, <1>3, <1>4, TablesStay DEF storeVars
<1>5. ASSUME NEW f \in Offers, offers[f].status = "active",
             offers' = [offers EXCEPT ![f].status = "closed"]
      PROVE  Sells
    <2>1. offers[f] \in Offer /\ offers[f] # NoOffer
        BY <1>5, OfferRows DEF IInv
    <2>2. /\ offers'[f] = [offers[f] EXCEPT !.status = "closed"]
          /\ \A g \in Offers \ {f} : offers'[g] = offers[g]
        BY <1>5 DEF IInv, TypeOK
    <2>3. /\ offers'[f].status = "closed" /\ offers'[f].remaining = offers[f].remaining
          /\ offers'[f] # NoOffer
        BY <2>1, <2>2 DEF Offer, NoOffer
    <2>4. OffersAppear /\ CancelledStays
        BY <1>1, <2>1, <2>2 DEF OffersAppear, CancelledStays
    <2>5. UNCHANGED AllAvailable
        <3>1. \A g \in Offers : Available(g)' = Available(g)
            BY <2>1, <2>2, <2>3 DEF Available
        <3> QED
            BY <3>1 DEF AllAvailable
    <2>6. f \in AllListed /\ AllListed' = AllListed \ {f}
        BY <1>5, <2>2, <2>3 DEF AllListed
    <2> QED
        BY <1>1, <1>3, <2>4, <2>5, <2>6, SalesStay, SaleSteps, SalesKeepSaleInv DEF Sells
<1> QED
    BY <1>2, <1>4, <1>5 DEF CloseOfferFlip

\* createOrder's insert opens a sale of what the offer still lists.
LEMMA InsertOpens ==
    ASSUME IInv, IInv', ReleaseInv, SaleInv, NEW c \in Calls, OpenOrderInsert(c)
    PROVE  Sells
<1>1. \A o \in Orders : Posted(ReleaseKey(o))' = Posted(ReleaseKey(o))
    BY LedgerStaysReleasesNothing DEF OpenOrderInsert, ledgerVars
<1>2. CallsSell
    BY CallsGoOn DEF OpenOrderInsert
<1>3. CASE UNCHANGED storeVars
    BY <1>1, <1>2, <1>3, TablesStay
<1>4. CASE CanReserve(calls[c].offer, calls[c].amount) /\ InsertOrder(c)
    <2> PICK f \in Offers, o \in Orders, n \in Sizes \ {0} :
            f = calls[c].offer /\ o = calls[c].order /\ n = calls[c].amount
        BY CallFields DEF OpenOrderInsert, IInv, SaleInv, AmountsAreAsked
    <2>1. /\ orders[o] = NoOrder /\ ~Posted(ReleaseKey(o)) /\ n \in Nat
          /\ offers[f].status = "active" /\ offers[f].remaining >= n
        <3>1. orders[o] = NoOrder
            BY DEF OpenOrderInsert, ReleaseInv, InsertsAreFresh
        <3>2. ~Posted(ReleaseKey(o))
            BY <3>1 DEF ReleaseInv, ReleaseIsFinal, NoOrder
        <3>3. n \in Nat
            BY P2PAssumption
        <3> QED
            BY <1>4, <3>1, <3>2, <3>3 DEF CanReserve
    <2>2. offers[f] \in Offer /\ offers[f] # NoOffer
        BY <2>1, OfferRows DEF IInv
    <2> DEFINE new == [status |-> "created", offer |-> f, merchant |-> offers[f].merchant,
                       buyer |-> calls[c].buyer, amount |-> n,
                       commission |-> calls[c].commission, late |-> FALSE]
    <2> PICK row : /\ orders' = [orders EXCEPT ![o] = row] /\ row # NoOrder
                   /\ row.status = "created" /\ row.offer = f /\ row.amount = n
        <3>1. orders' = [orders EXCEPT ![o] = new]
            BY <1>4 DEF InsertOrder
        <3>2. /\ new # NoOrder
              /\ new.status = "created" /\ new.offer = f /\ new.amount = n
            BY DEF NoOrder
        <3> HIDE DEF new
        <3> QED
            BY <3>1, <3>2
    <2> HIDE DEF new
    <2>3. orders'[o] = row /\ \A p \in Orders \ {o} : orders'[p] = orders[p]
        BY DEF IInv, TypeOK
    <2>4. /\ offers'[f] = [offers[f] EXCEPT !.remaining = offers[f].remaining - n]
          /\ \A g \in Offers \ {f} : offers'[g] = offers[g]
        BY <1>4 DEF InsertOrder, IInv, TypeOK
    <2>5. /\ offers'[f].remaining = offers[f].remaining - n /\ offers'[f].status = "active"
          /\ offers'[f] # NoOffer
        BY <2>1, <2>2, <2>4 DEF Offer, NoOffer
    <2>6. OffersAppear /\ CancelledStays
        BY <2>1, <2>2, <2>3, <2>4 DEF OffersAppear, CancelledStays, NoOrder
    <2>7. /\ n <= AllAvailable[f] /\ f \in AllListed
          /\ AllAvailable' = [AllAvailable EXCEPT ![f] = AllAvailable[f] - n]
        <3>1. Available(f) = offers[f].remaining /\ Available(f)' = offers[f].remaining - n
            BY <2>2, <2>5 DEF Available
        <3>2. \A g \in Offers \ {f} : Available(g)' = Available(g)
            BY <2>4 DEF Available
        <3>3. offers[f].remaining \in Int
            BY <2>2 DEF Offer
        <3> QED
            BY <2>1, <3>1, <3>2, <3>3 DEF AllAvailable, AllListed
    <2>8. UNCHANGED AllListed
        BY <2>1, <2>4, <2>5 DEF AllListed
    <2>9. /\ AllSales[o] = [state |-> "none"]
          /\ AllSales' = [AllSales EXCEPT ![o] =
                            [state |-> "open", offer |-> f, amount |-> n]]
        <3>1. SaleOf(o) = [state |-> "none"]
            BY <2>1 DEF SaleOf
        <3>2. SaleState(o)' = "open"
            BY <1>1, <2>1, <2>3 DEF SaleState
        <3>3. SaleOf(o)' = [state |-> "open", offer |-> f, amount |-> n]
            BY <2>3, <3>2 DEF SaleOf
        <3>4. \A p \in Orders \ {o} : SaleOf(p)' = SaleOf(p)
            BY <1>1, <2>3 DEF SaleOf, SaleState
        <3> QED
            BY <3>1, <3>3, <3>4 DEF AllSales
    <2> QED
        BY <1>2, <2>6, <2>7, <2>8, <2>9, SaleSteps, SalesKeepSaleInv DEF Sells
<1> QED
    BY <1>3, <1>4 DEF OpenOrderInsert

\* The statuses a sale passes through are not seen outside.
LEMMA StatusesStay ==
    ASSUME IInv, IInv', SaleInv, CallsSell, TermsStay, UNCHANGED offers, RowsGrow,
           \A o \in Orders : Posted(ReleaseKey(o))' = Posted(ReleaseKey(o)),
           \A o \in Orders : orders[o] = NoOrder => orders'[o] = NoOrder,
           \A o \in Orders :
              orders[o] # NoOrder =>
                 (orders'[o].status = "cancelled") = (orders[o].status = "cancelled")
    PROVE  Sells
<1>1. \A o \in Orders : SaleOf(o)' = SaleOf(o)
    <2> SUFFICES ASSUME NEW o \in Orders PROVE SaleOf(o)' = SaleOf(o)
        OBVIOUS
    <2>1. CASE orders[o] = NoOrder
        BY <2>1 DEF SaleOf
    <2>2. CASE orders[o] # NoOrder
        BY <2>2, SaleStays DEF TermsStay, RowsGrow
    <2> QED
        BY <2>1, <2>2
<1>2. UNCHANGED AllSales
    BY <1>1 DEF AllSales
<1>3. OffersAppear /\ CancelledStays
    BY DEF OffersAppear, CancelledStays, NoOrder
<1> QED
    BY <1>2, <1>3, OffersStay, SaleSteps, SalesKeepSaleInv DEF Sells

LEMMA OrderStepsStay ==
    ASSUME IInv, IInv', ReleaseInv, SaleInv, Next,
           NEW o \in Orders, SubmitPayment(o) \/ DisputeOrder(o) \/ PayWindowEnds(o)
    PROVE  Sells
<1>1. Quiet /\ TermsStay /\ RowsGrow
    BY OrderStepsAreQuiet, StepsKeepTerms, NextMoves DEF ReleaseInv, Moves
<1>2. UNCHANGED offers /\ CallsSell
    BY DEF SubmitPayment, DisputeOrder, PayWindowEnds, CallsSell, Continues
<1>3. \A p \in Orders \ {o} : orders'[p] = orders[p]
    BY DEF SubmitPayment, DisputeOrder, PayWindowEnds, IInv, TypeOK
<1>4. orders[o] \in Order /\ orders[o].status # "cancelled"
    BY OrderRows DEF SubmitPayment, DisputeOrder, PayWindowEnds, IInv, OrderStatus
<1>5. orders'[o].status # "cancelled"
    BY <1>4 DEF SubmitPayment, DisputeOrder, PayWindowEnds, Order, IInv, TypeOK
<1> QED
    BY <1>1, <1>2, <1>3, <1>4, <1>5, StatusesStay DEF Quiet

LEMMA ClaimsAndRevertsStay ==
    ASSUME IInv, IInv', ReleaseInv, SaleInv, Next,
           NEW c \in Calls, ReleaseClaim(c) \/ ReleaseRevert(c)
    PROVE  Sells
<1> PICK o \in Orders : o = calls[c].order
    BY ReleaseFields DEF ReleaseClaim, ReleaseRevert, At
<1>1. calls[c].op = "release" /\ orders[o] \in Order
    BY ReleaseFields DEF ReleaseClaim, ReleaseRevert, At
<1>2. TermsStay /\ RowsGrow
    BY StepsKeepTerms, NextMoves DEF ReleaseInv, Moves
<1>3. UNCHANGED offers /\ \A p \in Orders : Posted(ReleaseKey(p))' = Posted(ReleaseKey(p))
    BY LedgerStaysReleasesNothing DEF ReleaseClaim, ReleaseRevert, ledgerVars
<1>4. CallsSell
    BY <1>1, CallsGoOn DEF ReleaseClaim, ReleaseRevert
<1>5. \A p \in Orders \ {o} : orders'[p] = orders[p]
    BY ReleaseStepsLeaveTheRest
<1>6. orders[o] # NoOrder
    BY <1>1 DEF Order, NoOrder
<1>7. (orders'[o].status = "cancelled") = (orders[o].status = "cancelled")
    <2>1. CASE UNCHANGED orders
        BY <2>1
    <2>2. CASE /\ orders[o].status \in calls[c].from
               /\ orders' = [orders EXCEPT ![o].status = "released"]
        <3>1. orders[o].status # "cancelled"
            BY <1>1, <2>2 DEF ReleaseInv, ClaimsAreOpen
        <3>2. orders'[o].status = "released"
            BY <1>1, <2>2 DEF Order, IInv, TypeOK
        <3> QED
            BY <3>1, <3>2
    <2>3. CASE /\ orders[o].status = "released"
               /\ orders' = [orders EXCEPT ![o].status = calls[c].seen]
        <3>1. calls[c].seen # "cancelled"
            BY <1>1, <2>3 DEF SaleInv, SeenCancelledStays
        <3>2. orders'[o].status = calls[c].seen
            BY <1>1, <2>3 DEF Order, IInv, TypeOK
        <3> QED
            BY <2>3, <3>1, <3>2
    <2> QED
        BY <2>1, <2>2, <2>3 DEF ReleaseClaim, ReleaseRevert
<1> QED
    BY <1>2, <1>3, <1>4, <1>5, <1>6, <1>7, StatusesStay

\* The release's journal pays the sale out.
LEMMA PostPaysOut ==
    ASSUME NoLostAck, IInv, IInv', ReleaseInv, SaleInv, NEW c \in Calls, ReleasePost(c)
    PROVE  Sells
<1> PICK o \in Orders : o = calls[c].order
    BY ReleaseFields DEF ReleasePost, At
<1> DEFINE postings == ReleaseOf(orders[o])
<1>1. calls[c].op = "release" /\ Holds(c) /\ orders[o] \in Order
    BY ReleaseFields DEF ReleasePost, At, Holds
<1>2. ~Posted(ReleaseKey(o)) /\ orders[o].status = "released"
    BY <1>1 DEF ReleaseInv, HeldIsUnpaid
<1>3. UNCHANGED storeVars /\ CallsSell
    BY CallsGoOn DEF ReleasePost, storeVars, At
<1>4. UNCHANGED offers /\ UNCHANGED orders
    BY <1>3 DEF storeVars
<1>5. CASE UNCHANGED ledgerVars
    BY <1>3, <1>5, LedgerStaysReleasesNothing, TablesStay
<1>6. CASE Post(ReleaseKey(o), postings)
    <2>1. StoreTypeOK /\ ReleaseKey(o) \in Keys
        BY KeysExist DEF IInv, TypeOK, StoreTypeOK
    <2>2. postings \in Seq(Posting)
        BY <1>1, P2PAssumption, SplitsAreJournals DEF Order, ReleaseOf
    <2> HIDE DEF postings
    <2>3. \A j \in Keys \ {ReleaseKey(o)} : journal'[j] = journal[j]
        BY <1>6, <2>1, <2>2, PostAppends
    <2>4. Posted(ReleaseKey(o))'
        <3>1. Posted(ReleaseKey(o)) => FALSE
            BY <1>2
        <3> QED
            BY <1>6, <2>1, <2>2, PostAppends DEF Posted, ReleaseKey
    <2>5. \A p \in Orders \ {o} : ReleaseKey(p) \in Keys \ {ReleaseKey(o)}
        BY KeysExist DEF ReleaseKey
    <2>6. \A p \in Orders \ {o} : SaleOf(p)' = SaleOf(p)
        <3>1. \A p \in Orders \ {o} : Posted(ReleaseKey(p))' = Posted(ReleaseKey(p))
            BY <2>3, <2>5 DEF Posted, ReleaseKey
        <3> QED
            BY <1>4, <3>1 DEF SaleOf, SaleState
    <2>7. /\ SaleOf(o).state = "open"
          /\ SaleOf(o)' = [SaleOf(o) EXCEPT !.state = "paid"]
        <3>1. orders'[o] # NoOrder /\ SameTerms(orders[o], orders'[o])
            BY <1>1, <1>4 DEF Order, NoOrder, SameTerms
        <3> QED
            BY <1>1, <1>2, <1>4, <2>4, <3>1, SaleEnds
    <2>8. AllSales[o].state = "open" /\ AllSales' = [AllSales EXCEPT ![o].state = "paid"]
        BY <2>6, <2>7 DEF AllSales
    <2>9. OffersAppear /\ CancelledStays
        BY <1>4 DEF OffersAppear, CancelledStays
    <2> QED
        BY <1>3, <1>4, <2>8, <2>9, OffersStay, SaleSteps, SalesKeepSaleInv DEF Sells
<1> QED
    BY <1>5, <1>6 DEF ReleasePost, ReleaseOf, CommissionOf

\* A cancellation calls the sale off and gives its reservation back.
LEMMA CancelCallsOff ==
    ASSUME IInv, IInv', ReleaseInv, SaleInv, Next, CallsSell, UNCHANGED ledgerVars,
           NEW o \in Orders, storeTryCancel(o)
    PROVE  Sells
<1>1. \A p \in Orders : Posted(ReleaseKey(p))' = Posted(ReleaseKey(p))
    BY LedgerStaysReleasesNothing
<1>2. CASE UNCHANGED storeVars
    BY <1>1, <1>2, TablesStay
<1>3. CASE storeCancelOrder(o)
    <2>1. orders[o] \in Order /\ orders[o] # NoOrder /\ orders[o].status # "cancelled"
        BY <1>3, OrderRows DEF storeCancelOrder, CANCELLABLE, OrderStatus, IInv
    <2>2. ~Posted(ReleaseKey(o))
        BY <1>3 DEF storeCancelOrder, CANCELLABLE, ReleaseInv, ReleaseIsFinal
    <2> PICK f \in Offers, n \in Nat : f = orders[o].offer /\ n = orders[o].amount
        BY <2>1 DEF Order
    <2>3. offers[f] \in Offer /\ offers[f] # NoOffer
        BY <2>1, OfferRows DEF IInv, RowsExist
    <2>4. TermsStay /\ RowsGrow
        BY StepsKeepTerms, NextMoves DEF ReleaseInv, Moves
    <2>5. orders'[o].status = "cancelled" /\ \A p \in Orders \ {o} : orders'[p] = orders[p]
        BY <1>3, <2>1 DEF storeCancelOrder, Order, IInv, TypeOK
    <2>6. /\ offers'[f] = [offers[f] EXCEPT !.remaining = offers[f].remaining + n]
          /\ \A g \in Offers \ {f} : offers'[g] = offers[g]
        BY <1>3 DEF storeCancelOrder, IInv, TypeOK
    <2>7. /\ offers'[f].remaining = offers[f].remaining + n
          /\ offers'[f].status = offers[f].status /\ offers'[f] # NoOffer
        BY <2>3, <2>6 DEF Offer, NoOffer
    <2>8. OffersAppear /\ CancelledStays
        BY <2>3, <2>5, <2>6 DEF OffersAppear, CancelledStays
    <2>9. /\ SaleOf(o).state = "open" /\ SaleOf(o).offer = f /\ SaleOf(o).amount = n
          /\ SaleOf(o)' = [SaleOf(o) EXCEPT !.state = "called_off"]
        <3>1. ~Posted(ReleaseKey(o))'
            BY <1>1, <2>2
        <3>2. orders'[o] # NoOrder /\ SameTerms(orders[o], orders'[o])
            BY <2>1, <2>4 DEF TermsStay, RowsGrow
        <3> QED
            BY <2>1, <2>2, <2>5, <3>1, <3>2, SaleEnds
    <2>10. \A p \in Orders \ {o} : SaleOf(p)' = SaleOf(p)
        BY <1>1, <2>5 DEF SaleOf, SaleState
    <2>11. /\ AllSales[o].state = "open" /\ AllSales[o].offer = f /\ AllSales[o].amount = n
           /\ AllSales' = [AllSales EXCEPT ![o].state = "called_off"]
        BY <2>9, <2>10 DEF AllSales
    <2>12. AllAvailable' = [AllAvailable EXCEPT ![f] = @ + n]
        <3>1. Available(f)' = Available(f) + n
            BY <2>3, <2>7 DEF Available
        <3>2. \A g \in Offers \ {f} : Available(g)' = Available(g)
            BY <2>6 DEF Available
        <3> QED
            BY <3>1, <3>2 DEF AllAvailable
    <2>13. UNCHANGED AllListed
        <3>1. \A g \in Offers : offers'[g].status = offers[g].status
            BY <2>6, <2>7
        <3> QED
            BY <3>1 DEF AllListed
    <2> QED
        BY <2>8, <2>11, <2>12, <2>13, SaleSteps, SalesKeepSaleInv DEF Sells
<1> QED
    BY <1>2, <1>3 DEF storeTryCancel

LEMMA StepsSell ==
    ASSUME NoLostAck, IInv, ReleaseInv, SaleInv, [Next]_vars
    PROVE  Sells
<1>1. IInv'
    BY NextKeepsIInv
<1>2. CASE UNCHANGED vars \/ SweepList \/ Crash
            \/ \E bps \in CommissionRates : SetCommissionBps(bps)
    <2>1. /\ UNCHANGED storeVars
          /\ \A o \in Orders : Posted(ReleaseKey(o))' = Posted(ReleaseKey(o))
        BY <1>2, LedgerStaysReleasesNothing
           DEF vars, SweepList, Crash, SetCommissionBps, storeVars, ledgerVars
    <2>2. CallsSell
        BY <1>2 DEF vars, SweepList, Crash, SetCommissionBps, CallsSell, Continues, Idle
    <2> QED
        BY <1>1, <2>1, <2>2, TablesStay
<1>3. ASSUME Next, NEW c \in Calls, CallStarts(c) \/ CallFails(c) PROVE Sells
    <2>1. CASE CallFails(c)
        BY <1>1, <2>1, CallsComeAndGo
    <2>2. CASE \E f \in Offers, p \in Customers, n \in Sizes :
                  CreateOfferLock(c, f, p, n) \/ \E o \in Orders : OpenOrder(c, f, o, p, n)
        BY <1>1, <2>2, CallsComeAndGo
    <2>3. CASE \/ \E f \in Offers : CloseOffer(c, f)
               \/ \E o \in Orders : \/ ReleaseOrder(c, o) \/ AdminRelease(c, o)
                                    \/ CancelOrder(c, o) \/ AdminCancel(c, o)
        BY <1>1, <2>3, CallsComeAndGo
    <2> QED
        BY <1>3, <2>1, <2>2, <2>3 DEF CallStarts
<1>4. ASSUME Next, NEW c \in Calls, CallProceeds(c) PROVE Sells
    <2>1. CASE CreateOfferInsert(c)
        BY <1>1, <2>1, InsertLists
    <2>2. CASE CloseOfferFlip(c)
        BY <1>1, <2>2, FlipDelists
    <2>3. CASE OpenOrderInsert(c)
        BY <1>1, <2>3, InsertOpens
    <2>4. CASE ReleaseClaim(c) \/ ReleaseRevert(c)
        BY <1>1, <1>4, <2>4, ClaimsAndRevertsStay
    <2>5. CASE ReleasePost(c)
        BY <1>1, <2>5, PostPaysOut
    <2>6. CASE CancelCommit(c)
        <3>1. calls[c].order \in Orders
            BY <2>6, CallFields DEF CancelCommit, IInv
        <3>2. CallsSell /\ UNCHANGED ledgerVars
            BY <2>6, CallsGoOn DEF CancelCommit, ledgerVars
        <3> QED
            BY <1>1, <1>4, <2>6, <3>1, <3>2, CancelCallsOff DEF CancelCommit
    <2>7. CASE CreateOfferCompensate(c) \/ CloseOfferCheck(c) \/ CloseOfferUnlock(c)
        BY <1>1, <2>7, CallsComeAndGo
    <2> QED
        BY <1>4, <2>1, <2>2, <2>3, <2>4, <2>5, <2>6, <2>7 DEF CallProceeds
<1>5. ASSUME Next, NEW o \in Orders, SubmitPayment(o) \/ DisputeOrder(o) \/ PayWindowEnds(o)
      PROVE  Sells
    BY <1>1, <1>5, OrderStepsStay
<1>6. ASSUME Next, NEW o \in Orders, SweepCancel(o) PROVE Sells
    <2>1. CallsSell /\ UNCHANGED ledgerVars
        BY <1>6 DEF SweepCancel, CallsSell, Continues, ledgerVars
    <2>2. CASE storeTryCancel(o)
        BY <1>1, <1>6, <2>1, <2>2, CancelCallsOff
    <2>3. CASE UNCHANGED storeVars
        BY <1>1, <2>1, <2>3, LedgerStaysReleasesNothing, TablesStay
    <2> QED
        BY <1>6, <2>2, <2>3 DEF SweepCancel
<1> QED
    BY <1>2, <1>3, <1>4, <1>5, <1>6 DEF Next

LEMMA InitSells ==
    ASSUME Init
    PROVE  SaleInv /\ Sale!Init
<1>1. SaleInv
    BY DEF Init, SaleInv, OffersAreFresh, AmountsAreAsked, SeenCancelledStays, Inserts, Idle
<1>2. \A f \in Offers : offers[f] = NoOffer /\ offers[f].status # "active"
    BY DEF Init, NoOffer
<1>3. \A o \in Orders : orders[o] = NoOrder
    BY DEF Init
<1> QED
    BY <1>1, <1>2, <1>3 DEF Sale!Init, Sale!NotListed, Sale!NoSale

\* While no acknowledgement is lost, the handlers, the sweep, the other faults and the
\* restarts together do what atomic sales would: each reservation is held by one open
\* sale, which is paid out or called off once, and no step is seen half done.
THEOREM MarketplaceImplementsSales == NoLostAck /\ Spec => SaleSpec
<1>1. NoLostAck /\ Init => ReleaseInv
    BY InitIsReleaseInv
<1>2. NoLostAck /\ IInv /\ ReleaseInv /\ [Next]_vars => ReleaseInv'
    BY NextKeepsReleaseInv
<1>3. NoLostAck /\ IInv /\ ReleaseInv /\ SaleInv /\ [Next]_vars
          => SaleInv' /\ [Sale!Next]_(Sale!saleVars)
    BY StepsSell DEF Sells
<1>4. Init => SaleInv /\ Sale!Init
    BY InitSells
<1>5. CASE NoLostAck
    BY <1>1, <1>2, <1>3, <1>4, <1>5, RowsExistAndAreLocked, PTL DEF Spec, SaleSpec, Sale!Spec
<1> QED
    BY <1>5

-----------------------------------------------------------------------------
(* What a seller's escrow holds and what it lacks *)

\* What the journals of an offer and of an order move in a seller's escrow.
Locked(m, f) == Delta(journal[LockKey(f)], p2pEscrow(m, Asset))
Returned(m, f) == -Delta(journal[UnlockKey(f)], p2pEscrow(m, Asset))
PaidOut(m, o) == -Delta(journal[ReleaseKey(o)], p2pEscrow(m, Asset))

\* What an offer keeps in the escrow: its lock until it is inserted, then what it
\* has not sold, less what was given back.
Held(m, f) ==
    (IF offers[f] = NoOffer THEN Locked(m, f)
     ELSE IF offers[f].merchant = m THEN offers[f].remaining ELSE 0) - Returned(m, f)

\* What an order keeps there: its amount until it is cancelled, less what was paid.
Owed(m, o) ==
    IF orders[o] # NoOrder /\ orders[o].status # "cancelled" /\ orders[o].merchant = m
    THEN orders[o].amount ELSE 0
Due(m, o) == Owed(m, o) - PaidOut(m, o)

HeldBy(m) == [f \in Offers |-> Held(m, f)]
DueTo(m) == [o \in Orders |-> Due(m, o)]

\* The escrow holds all of that, whatever was lost on the way.
Backed(m) ==
    balance[p2pEscrow(m, Asset)] >= SumFunction(HeldBy(m)) + SumFunction(DueTo(m))

\* What was given back of an offer: nothing or less than was locked before it is
\* inserted; then nothing, its whole lock by a compensation that had lost the
\* acknowledgement, or no more than was left when it closed.
BooksTrue(f) ==
    /\ offers[f] = NoOffer => \A m \in Customers :
          0 <= Returned(m, f) /\ Returned(m, f) <= Locked(m, f)
    /\ offers[f] # NoOffer =>
          /\ offers[f].total > 0
          /\ \A m \in Customers :
                \/ Returned(m, f) = 0
                \/ /\ offers[f].merchant = m
                   /\ \/ Ackless /\ Returned(m, f) = offers[f].total
                      \/ offers[f].status = "closed" /\ Returned(m, f) <= offers[f].remaining

\* What a handler in flight relies on.
CreateTrue(s) ==
    /\ s.amount > 0
    /\ \A m \in Customers : Locked(m, s.offer) = IF s.merchant = m THEN s.amount ELSE 0
    /\ s.pc = "insert" => /\ offers[s.offer] = NoOffer
                          /\ \A m \in Customers : Returned(m, s.offer) = 0
    /\ s.pc = "compensate" /\ offers[s.offer] # NoOffer =>
          /\ Ackless
          /\ offers[s.offer].merchant = s.merchant /\ offers[s.offer].total = s.amount
CloseTrue(s) ==
    s.pc = "unlock" => /\ offers[s.offer].status = "closed"
                       /\ s.amount <= offers[s.offer].remaining
ReleaseTrue(s) ==
    /\ s.from \subseteq {"payment_submitted", "disputed"}
    /\ s.seen = "cancelled" => orders[s.order].status = "cancelled"
HandlerTrue(s) ==
    /\ s.op = "createOffer" => CreateTrue(s)
    /\ s.op = "closeOffer" => CloseTrue(s)
    /\ s.op = "release" => ReleaseTrue(s)

\* An offer's id belongs to one createOffer.
OneOwner ==
    \A c, d \in Calls : calls[c].op = "createOffer" /\ calls[d].op = "createOffer" /\ c # d
                           => calls[c].offer # calls[d].offer

\* An order's seller is its offer's.
MerchantsMatch ==
    \A o \in Orders : orders[o] # NoOrder =>
        orders[o].merchant = offers[orders[o].offer].merchant

HandlersTrue == \A c \in Calls : HandlerTrue(calls[c])

EscrowInv ==
    /\ HandlersTrue /\ OneOwner /\ MerchantsMatch
    /\ \A f \in Offers : BooksTrue(f)
    /\ \A m \in Customers : Backed(m)

(* The amounts are integers *)

AmountsOf(m) ==
    /\ balance[p2pEscrow(m, Asset)] \in Int
    /\ \A f \in Offers : Locked(m, f) \in Int /\ Returned(m, f) \in Int /\ Held(m, f) \in Int
    /\ \A o \in Orders : PaidOut(m, o) \in Int /\ Owed(m, o) \in Int /\ Due(m, o) \in Int

AmountsAreInts == \A m \in Customers : AmountsOf(m)

LEMMA SellersAmounts ==
    ASSUME IInv, NEW m \in Customers
    PROVE  AmountsOf(m)
<1>1. \A k \in Keys : Delta(journal[k], p2pEscrow(m, Asset)) \in Int
    BY DeltaIsInt DEF IInv, TypeOK
<1>2. balance[p2pEscrow(m, Asset)] \in Int
    BY AccountsExist, P2PAssumption DEF IInv, TypeOK
<1>3. ASSUME NEW f \in Offers
      PROVE  Locked(m, f) \in Int /\ Returned(m, f) \in Int /\ Held(m, f) \in Int
    <2>1. Locked(m, f) \in Int /\ Returned(m, f) \in Int
        BY <1>1, KeysExist DEF Locked, Returned
    <2>2. offers[f] # NoOffer => offers[f].remaining \in Int
        BY OfferRows DEF IInv, Offer
    <2> QED
        BY <2>1, <2>2 DEF Held
<1>4. ASSUME NEW o \in Orders
      PROVE  PaidOut(m, o) \in Int /\ Owed(m, o) \in Int /\ Due(m, o) \in Int
    <2>1. PaidOut(m, o) \in Int
        BY <1>1, KeysExist DEF PaidOut
    <2>2. orders[o] # NoOrder => orders[o].amount \in Int
        BY OrderRows DEF IInv, Order
    <2> QED
        BY <2>1, <2>2 DEF Owed, Due
<1> QED
    BY <1>2, <1>3, <1>4 DEF AmountsOf

LEMMA AmountsAre == IInv => AmountsAreInts
BY SellersAmounts DEF AmountsAreInts

LEMMA NextAmountsAre == IInv' => AmountsAreInts'
BY AmountsAre, PTL

(* How far a step may raise the two sums *)

\* An offer's row and its two journals stay.
OfferStays(f) ==
    /\ offers'[f] = offers[f]
    /\ journal'[LockKey(f)] = journal[LockKey(f)]
    /\ journal'[UnlockKey(f)] = journal[UnlockKey(f)]

\* An order's journal stays, and so does what its seller owes it.
OrderStays(o) ==
    /\ journal'[ReleaseKey(o)] = journal[ReleaseKey(o)]
    /\ \A m \in Customers : (Owed(m, o))' = Owed(m, o)

LEMMA OffersRaise ==
    ASSUME IInv, NEW m \in Customers, NEW f \in Offers, NEW d \in Int,
           \A g \in Offers \ {f} : OfferStays(g), (Held(m, f))' = Held(m, f) + d
    PROVE  Raises(HeldBy(m), HeldBy(m)', Offers, d)
<1>1. \A g \in Offers \ {f} : (Held(m, g))' = Held(m, g)
    BY DEF Held, Locked, Returned, OfferStays, LockKey, UnlockKey
<1>2. \A g \in Offers : Held(m, g) \in Int
    BY AmountsAre DEF AmountsAreInts, AmountsOf
<1>3. \A g \in Offers : HeldBy(m)[g] = Held(m, g) /\ HeldBy(m)'[g] = (Held(m, g))'
    BY DEF HeldBy
<1> QED
    BY <1>1, <1>2, <1>3 DEF Raises

LEMMA OffersRaiseNothing ==
    ASSUME IInv, NEW m \in Customers, \A g \in Offers : OfferStays(g)
    PROVE  Raises(HeldBy(m), HeldBy(m)', Offers, 0)
<1>1. \A g \in Offers : (Held(m, g))' = Held(m, g)
    BY DEF Held, Locked, Returned, OfferStays, LockKey, UnlockKey
<1>2. \A g \in Offers : Held(m, g) \in Int
    BY AmountsAre DEF AmountsAreInts, AmountsOf
<1>3. \A g \in Offers : HeldBy(m)[g] = Held(m, g) /\ HeldBy(m)'[g] = (Held(m, g))'
    BY DEF HeldBy
<1> QED
    BY <1>1, <1>2, <1>3 DEF Raises

LEMMA OrdersRaise ==
    ASSUME IInv, NEW m \in Customers, NEW o \in Orders, NEW d \in Int,
           \A p \in Orders \ {o} : OrderStays(p), (Due(m, o))' = Due(m, o) + d
    PROVE  Raises(DueTo(m), DueTo(m)', Orders, d)
<1>1. \A p \in Orders \ {o} : (Due(m, p))' = Due(m, p)
    BY DEF Due, PaidOut, OrderStays, ReleaseKey
<1>2. \A p \in Orders : Due(m, p) \in Int
    BY AmountsAre DEF AmountsAreInts, AmountsOf
<1>3. \A p \in Orders : DueTo(m)[p] = Due(m, p) /\ DueTo(m)'[p] = (Due(m, p))'
    BY DEF DueTo
<1> QED
    BY <1>1, <1>2, <1>3 DEF Raises

LEMMA OrdersRaiseNothing ==
    ASSUME IInv, NEW m \in Customers, \A p \in Orders : OrderStays(p)
    PROVE  Raises(DueTo(m), DueTo(m)', Orders, 0)
<1>1. \A p \in Orders : (Due(m, p))' = Due(m, p)
    BY DEF Due, PaidOut, OrderStays, ReleaseKey
<1>2. \A p \in Orders : Due(m, p) \in Int
    BY AmountsAre DEF AmountsAreInts, AmountsOf
<1>3. \A p \in Orders : DueTo(m)[p] = Due(m, p) /\ DueTo(m)'[p] = (Due(m, p))'
    BY DEF DueTo
<1> QED
    BY <1>1, <1>2, <1>3 DEF Raises

\* The two sums grow by no more than the escrow.
LEMMA BalanceStep ==
    ASSUME IInv, IInv', NEW m \in Customers, Backed(m), NEW held \in Int, NEW due \in Int,
           Raises(HeldBy(m), HeldBy(m)', Offers, held),
           Raises(DueTo(m), DueTo(m)', Orders, due),
           balance'[p2pEscrow(m, Asset)] = balance[p2pEscrow(m, Asset)] + held + due
    PROVE  (Backed(m))'
<1> DEFINE f1 == HeldBy(m)  h1 == HeldBy(m)'
           f2 == DueTo(m)   h2 == DueTo(m)'
           e == p2pEscrow(m, Asset)
<1>1. /\ \A f \in Offers : f1[f] \in Int /\ h1[f] \in Int
      /\ \A o \in Orders : f2[o] \in Int /\ h2[o] \in Int
    <2>1. AmountsAreInts /\ AmountsAreInts'
        BY AmountsAre, NextAmountsAre
    <2>2. \A f \in Offers : f1[f] = Held(m, f) /\ h1[f] = (Held(m, f))'
        BY DEF HeldBy
    <2>3. \A o \in Orders : f2[o] = Due(m, o) /\ h2[o] = (Due(m, o))'
        BY DEF DueTo
    <2> HIDE DEF f1, h1, f2, h2
    <2> QED
        BY <2>1, <2>2, <2>3 DEF AmountsAreInts, AmountsOf
<1>2. balance[e] \in Int /\ balance'[e] \in Int
    BY AmountsAre, NextAmountsAre DEF AmountsAreInts, AmountsOf
<1>3. balance[e] >= SumFunctionOnSet(f1, Offers) + SumFunctionOnSet(f2, Orders)
    BY DEF Backed, SumFunction, HeldBy, DueTo
<1>4. /\ SumFunction(h1) = SumFunctionOnSet(h1, Offers)
      /\ SumFunction(h2) = SumFunctionOnSet(h2, Orders)
    BY DEF SumFunction, HeldBy, DueTo
<1>5. /\ Raises(f1, h1, Offers, held) /\ Raises(f2, h2, Orders, due)
      /\ balance'[e] = balance[e] + held + due
    OBVIOUS
<1>6. IsFiniteSet(Offers) /\ IsFiniteSet(Orders)
    BY EscrowAssumption
<1>7. SUFFICES balance'[e] >= SumFunction(h1) + SumFunction(h2)
    BY DEF Backed, HeldBy, DueTo
<1> HIDE DEF f1, h1, f2, h2, e
<1>8. SumFunctionOnSet(h1, Offers) <= SumFunctionOnSet(f1, Offers) + held
    BY <1>1, <1>5, <1>6, SumRaise
<1>9. SumFunctionOnSet(h2, Orders) <= SumFunctionOnSet(f2, Orders) + due
    BY <1>1, <1>5, <1>6, SumRaise
<1>10. /\ SumFunctionOnSet(f1, Offers) \in Int /\ SumFunctionOnSet(f2, Orders) \in Int
       /\ SumFunctionOnSet(h1, Offers) \in Int /\ SumFunctionOnSet(h2, Orders) \in Int
    BY <1>1, <1>6, SumInt
<1> QED
    BY <1>2, <1>3, <1>4, <1>5, <1>8, <1>9, <1>10

\* How much the journals of the marketplace move a seller's escrow.
LEMMA EscrowDeltas ==
    ASSUME NEW m \in Customers, NEW p \in Customers, NEW b \in Customers, NEW n \in Int
    PROVE  /\ Delta(p2pLock(p, Asset, n), p2pEscrow(m, Asset)) = IF p = m THEN n ELSE 0
           /\ Delta(p2pUnlock(p, Asset, n), p2pEscrow(m, Asset)) = IF p = m THEN -n ELSE 0
           /\ \A fee \in Int : n > 0 /\ FeeInRange(fee, n) =>
                 Delta(p2pRelease(p, b, Asset, n, fee), p2pEscrow(m, Asset))
                     = IF p = m THEN -n ELSE 0
<1> DEFINE e == p2pEscrow(m, Asset)
           x == p2pEscrow(p, Asset)
           y == customerWallet(p, Asset)
           v == customerWallet(b, Asset)
           z == systemAccount("fee_revenue", Asset)
<1>1. e \in Accounts /\ x \in Accounts /\ y \in Accounts /\ v \in Accounts /\ z \in Accounts
    BY P2PAssumption, AccountsExist, SystemKindsExist
<1>2. /\ e = x <=> p = m
      /\ e \notin {y, v, z} /\ x # y /\ x # v /\ x # z /\ v # z
    BY DEF p2pEscrow, customerWallet, systemAccount, Account
<1>3. /\ p2pLock(p, Asset, n) = Move(y, x, n) /\ p2pUnlock(p, Asset, n) = Move(x, y, n)
      /\ \A fee : p2pRelease(p, b, Asset, n, fee) = Split(x, v, z, n, fee)
    BY DEF p2pLock, p2pUnlock, p2pRelease
<1> HIDE DEF e, x, y, v, z
<1>4. Delta(Move(y, x, n), e) = IF p = m THEN n ELSE 0
    BY <1>1, <1>2, MoveDelta
<1>5. Delta(Move(x, y, n), e) = IF p = m THEN -n ELSE 0
    BY <1>1, <1>2, MoveDelta
<1>6. ASSUME NEW fee \in Int, n > 0, FeeInRange(fee, n)
      PROVE  Delta(Split(x, v, z, n, fee), e) = IF p = m THEN -n ELSE 0
    <2>1. /\ Delta(Split(x, v, z, n, fee), x) = -n
          /\ \A a \in Accounts \ {x, v, z} : Delta(Split(x, v, z, n, fee), a) = 0
        BY <1>1, <1>2, <1>6, SplitDelta
    <2> QED
        BY <1>1, <1>2, <2>1
<1> QED
    BY <1>3, <1>4, <1>5, <1>6 DEF e

(* What persists *)

\* An offer's row keeps its seller and its total, and what was left when it closed.
OfferKept(f) ==
    /\ offers[f] = NoOffer => offers'[f] = NoOffer
    /\ offers[f] # NoOffer =>
          /\ offers'[f] # NoOffer
          /\ offers'[f].merchant = offers[f].merchant /\ offers'[f].total = offers[f].total
          /\ offers[f].status = "closed" =>
                offers'[f].status = "closed" /\ offers'[f].remaining >= offers[f].remaining

LockKept(f) == \A m \in Customers : (Locked(m, f))' = Locked(m, f)
UnlockKept(f) == \A m \in Customers : (Returned(m, f))' = Returned(m, f)
CancelKept(o) == orders[o].status = "cancelled" => orders'[o].status = "cancelled"

LEMMA StateFields ==
    ASSUME NEW s \in CallState
    PROVE  /\ s.op = "createOffer" => /\ s.offer \in Offers /\ s.merchant \in Customers
                                      /\ s.amount \in Nat
           /\ s.op = "closeOffer" => s.offer \in Offers /\ s.amount \in Nat
           /\ s.op = "release" => s.order \in Orders
BY DEF CallState, Idle

\* A handler that stays where it is can rely on what it relied on.
LEMMA HandlerStays ==
    ASSUME IInv, IInv', NEW s \in CallState, HandlerTrue(s),
           s.op = "createOffer" => /\ OfferKept(s.offer) /\ LockKept(s.offer)
                                   /\ s.pc = "insert" => UnlockKept(s.offer),
           s.op = "closeOffer" => offers[s.offer] # NoOffer /\ OfferKept(s.offer),
           s.op = "release" => CancelKept(s.order)
    PROVE  (HandlerTrue(s))'
<1>1. ASSUME s.op = "createOffer" PROVE (CreateTrue(s))'
    BY <1>1, StateFields
       DEF HandlerTrue, CreateTrue, OfferKept, LockKept, UnlockKept
<1>2. ASSUME s.op = "closeOffer" PROVE (CloseTrue(s))'
    <2>1. s.offer \in Offers /\ s.amount \in Nat /\ (s.pc = "unlock" => CloseTrue(s))
        BY <1>2, StateFields DEF HandlerTrue
    <2>2. offers[s.offer].remaining \in Nat
        BY <1>2, <2>1, OfferRows DEF IInv, Offer
    <2>3. offers'[s.offer] # NoOffer => offers'[s.offer].remaining \in Nat
        BY <2>1 DEF IInv, TypeOK, Offer
    <2> QED
        BY <1>2, <2>1, <2>2, <2>3 DEF CloseTrue, OfferKept
<1>3. ASSUME s.op = "release" PROVE (ReleaseTrue(s))'
    BY <1>3, StateFields DEF HandlerTrue, ReleaseTrue, CancelKept
<1> QED
    BY <1>1, <1>2, <1>3 DEF HandlerTrue

\* What was given back of an offer stays right while the offer and its journals do.
LEMMA BooksStay ==
    ASSUME IInv, IInv', NEW f \in Offers, BooksTrue(f),
           OfferKept(f), LockKept(f), UnlockKept(f)
    PROVE  (BooksTrue(f))'
<1>1. offers[f] # NoOffer => offers[f].remaining \in Nat /\ offers'[f].remaining \in Nat
    BY OfferRows DEF IInv, TypeOK, Offer, OfferKept
<1>2. \A m \in Customers : Returned(m, f) \in Int
    BY AmountsAre DEF AmountsAreInts, AmountsOf
<1>3. CASE offers[f] = NoOffer
    BY <1>3 DEF BooksTrue, OfferKept, LockKept, UnlockKept
<1>4. CASE offers[f] # NoOffer
    <2>1. offers'[f] # NoOffer /\ offers'[f].total > 0
        BY <1>4 DEF BooksTrue, OfferKept
    <2>2. ASSUME NEW m \in Customers
          PROVE  \/ (Returned(m, f))' = 0
                 \/ /\ offers'[f].merchant = m
                    /\ \/ Ackless /\ (Returned(m, f))' = offers'[f].total
                       \/ offers'[f].status = "closed" /\ (Returned(m, f))' <= offers'[f].remaining
        BY <1>1, <1>2, <1>4 DEF BooksTrue, OfferKept, UnlockKept
    <2> QED
        BY <2>1, <2>2 DEF BooksTrue
<1> QED
    BY <1>3, <1>4

\* A handler may go on as it is, move inside its release, or take up what is true.
HandlerKept(d) ==
    \/ calls'[d] = calls[d]
    \/ /\ calls[d].op = "release" /\ calls'[d].op = "release"
       /\ calls'[d].order = calls[d].order
       /\ calls'[d].from = calls[d].from /\ calls'[d].seen = calls[d].seen
    \/ \A s \in CallState : calls'[d] = s => (HandlerTrue(s))'

\* No createOffer begins.
IdKept(d) ==
    calls'[d].op = "createOffer" =>
        calls[d].op = "createOffer" /\ calls'[d].offer = calls[d].offer

LEMMA OwnersStay ==
    ASSUME OneOwner, \A d \in Calls : IdKept(d)
    PROVE  OneOwner'
BY DEF OneOwner, IdKept

\* Steps that leave the offers' journals alone and insert no offer.
LEMMA RowsKeepBooks ==
    ASSUME IInv, IInv', EscrowInv,
           \A f \in Offers : OfferKept(f) /\ LockKept(f) /\ UnlockKept(f),
           \A o \in Orders : CancelKept(o),
           \A d \in Calls : HandlerKept(d) /\ IdKept(d)
    PROVE  HandlersTrue' /\ OneOwner' /\ \A f \in Offers : (BooksTrue(f))'
<1> USE DEF EscrowInv
<1>1. ASSUME NEW d \in Calls, NEW s \in CallState, calls'[d] = s PROVE (HandlerTrue(s))'
    <2>1. CASE calls'[d] = calls[d]
        <3>1. HandlerTrue(s)
            BY <1>1, <2>1 DEF HandlersTrue
        <3>2. s.op = "closeOffer" => offers[s.offer] # NoOffer
            BY <1>1, <2>1 DEF IInv, RowsExist
        <3> QED
            BY <3>1, <3>2, StateFields, HandlerStays
    <2>2. CASE /\ calls[d].op = "release" /\ s.op = "release" /\ s.order = calls[d].order
               /\ s.from = calls[d].from /\ s.seen = calls[d].seen
        <3>1. ReleaseTrue(calls[d]) /\ s.order \in Orders
            BY <2>2, ReleaseFields DEF HandlersTrue, HandlerTrue
        <3> QED
            BY <2>2, <3>1 DEF ReleaseTrue, HandlerTrue, CancelKept
    <2> QED
        BY <1>1, <2>1, <2>2 DEF HandlerKept
<1>2. \A d \in Calls : calls'[d] \in CallState
    BY DEF IInv, TypeOK
<1>3. HandlersTrue'
    BY <1>1, <1>2 DEF HandlersTrue, HandlerTrue, CreateTrue, CloseTrue, ReleaseTrue
<1> QED
    BY <1>3, OwnersStay, BooksStay

\* Nothing rewrites an order's seller or an existing offer's.
LEMMA SellersStay ==
    ASSUME IInv, EscrowInv, TermsStay,
           \A f \in Offers : offers[f] # NoOffer => OfferKept(f),
           \A o \in Orders : orders'[o] # NoOrder =>
               \/ orders[o] # NoOrder
               \/ orders'[o].merchant = offers'[orders'[o].offer].merchant
    PROVE  MerchantsMatch'
<1> SUFFICES ASSUME NEW o \in Orders, orders'[o] # NoOrder, orders[o] # NoOrder
             PROVE  orders'[o].merchant = offers'[orders'[o].offer].merchant
    BY DEF MerchantsMatch
<1>1. orders[o].offer \in Offers /\ offers[orders[o].offer] # NoOffer
    BY OrderRows DEF IInv, RowsExist, Order
<1>2. orders'[o].offer = orders[o].offer /\ orders'[o].merchant = orders[o].merchant
    BY DEF TermsStay, SameTerms
<1> QED
    BY <1>1, <1>2 DEF EscrowInv, MerchantsMatch, OfferKept

(* Steps that leave the escrow and the offers alone *)

\* An order's row stays, or only its status changes and not from or to cancelled.
OrderKept(o) ==
    /\ (orders'[o] = NoOrder) = (orders[o] = NoOrder)
    /\ (orders'[o].status = "cancelled") = (orders[o].status = "cancelled")
    /\ orders[o] # NoOrder => SameTerms(orders[o], orders'[o])

LEMMA UnchangedIsKept ==
    ASSUME IInv
    PROVE  /\ UNCHANGED offers => \A f \in Offers : OfferKept(f)
           /\ UNCHANGED orders => \A o \in Orders : OrderKept(o)
           /\ UNCHANGED calls => \A d \in Calls : HandlerKept(d) /\ IdKept(d)
           /\ \A f \in Offers :
                 /\ journal'[LockKey(f)] = journal[LockKey(f)] => LockKept(f)
                 /\ journal'[UnlockKey(f)] = journal[UnlockKey(f)] => UnlockKept(f)
<1>1. ASSUME UNCHANGED offers, NEW f \in Offers PROVE OfferKept(f)
    <2>1. offers[f] # NoOffer => offers[f].remaining \in Nat
        BY OfferRows DEF IInv, Offer
    <2> QED
        BY <1>1, <2>1 DEF OfferKept
<1>2. UNCHANGED orders => \A o \in Orders : OrderKept(o)
    BY DEF OrderKept, SameTerms
<1>3. UNCHANGED calls => \A d \in Calls : HandlerKept(d) /\ IdKept(d)
    BY DEF HandlerKept, IdKept
<1>4. \A f \in Offers :
          /\ journal'[LockKey(f)] = journal[LockKey(f)] => LockKept(f)
          /\ journal'[UnlockKey(f)] = journal[UnlockKey(f)] => UnlockKept(f)
    BY DEF LockKept, UnlockKept, Locked, Returned, LockKey, UnlockKey
<1> QED
    BY <1>1, <1>2, <1>3, <1>4

LEMMA KeptOrdersStay ==
    ASSUME \A o \in Orders : OrderKept(o)
    PROVE  /\ TermsStay
           /\ \A o \in Orders : /\ CancelKept(o)
                                /\ orders'[o] # NoOrder => orders[o] # NoOrder
                                /\ \A m \in Customers : (Owed(m, o))' = Owed(m, o)
BY DEF OrderKept, TermsStay, SameTerms, CancelKept, Owed

\* The handlers that end, start or go on without touching an offer's escrow.
LEMMA HandlersGoOn ==
    ASSUME IInv, NEW c \in Calls,
           \/ Returns(c)
           \/ \E pc : GoesTo(c, pc) /\ calls[c].op = "release"
           \/ GoesTo(c, "flip") /\ calls[c].op = "closeOffer"
           \/ \E state : /\ Starts(c, state)
                         /\ \/ state.op \in {"openOrder", "cancel"}
                            \/ state.op = "closeOffer" /\ state.pc = "check"
    PROVE  \A d \in Calls : HandlerKept(d) /\ IdKept(d)
<1>1. \A d \in Calls \ {c} : calls'[d] = calls[d]
    BY DEF Returns, GoesTo, Starts, IInv, TypeOK
<1>2. CASE Returns(c)
    <2>1. calls'[c].op = "idle"
        BY <1>2 DEF Returns, Idle, IInv, TypeOK
    <2> QED
        BY <1>1, <2>1 DEF HandlerKept, IdKept, HandlerTrue
<1>3. ASSUME NEW pc, GoesTo(c, pc), calls[c].op = "release"
      PROVE  \A d \in Calls : HandlerKept(d) /\ IdKept(d)
    <2>1. calls'[c] = [calls[c] EXCEPT !.pc = pc]
        BY <1>3 DEF GoesTo, IInv, TypeOK
    <2>2. /\ calls'[c].op = "release" /\ calls'[c].order = calls[c].order
          /\ calls'[c].from = calls[c].from /\ calls'[c].seen = calls[c].seen
        BY <1>3, <2>1, CallFields DEF IInv
    <2> QED
        BY <1>1, <1>3, <2>2 DEF HandlerKept, IdKept
<1>4. ASSUME calls'[c].op = "closeOffer", calls'[c].pc # "unlock"
      PROVE  \A d \in Calls : HandlerKept(d) /\ IdKept(d)
    BY <1>1, <1>4 DEF HandlerKept, IdKept, HandlerTrue, CloseTrue
<1>5. CASE GoesTo(c, "flip") /\ calls[c].op = "closeOffer"
    <2>1. calls'[c] = [calls[c] EXCEPT !.pc = "flip"]
        BY <1>5 DEF GoesTo, IInv, TypeOK
    <2>2. calls'[c].op = "closeOffer" /\ calls'[c].pc = "flip"
        BY <1>5, <2>1, CallFields DEF IInv
    <2> QED
        BY <1>4, <2>2
<1>6. ASSUME NEW state, Starts(c, state),
             \/ state.op \in {"openOrder", "cancel"}
             \/ state.op = "closeOffer" /\ state.pc = "check"
      PROVE  \A d \in Calls : HandlerKept(d) /\ IdKept(d)
    <2>1. calls'[c] = state
        BY <1>6 DEF Starts, IInv, TypeOK
    <2> QED
        BY <1>1, <1>4, <1>6, <2>1 DEF HandlerKept, IdKept, HandlerTrue
<1> QED
    BY <1>2, <1>3, <1>5, <1>6

\* A release starts from statuses that are open, and remembers the one it read.
LEMMA ReleasesStart ==
    ASSUME IInv, NEW c \in Calls, NEW o \in Orders, ReleaseOrder(c, o) \/ AdminRelease(c, o)
    PROVE  \A d \in Calls : HandlerKept(d) /\ IdKept(d)
<1>1. PICK from \in SUBSET {"payment_submitted", "disputed"} : StartRelease(c, o, from)
    BY DEF ReleaseOrder, AdminRelease
<1>2. UNCHANGED orders
    BY DEF ReleaseOrder, AdminRelease
<1>3. \A d \in Calls \ {c} : calls'[d] = calls[d]
    BY <1>1 DEF StartRelease, Starts, IInv, TypeOK
<1>4. calls'[c] = [op |-> "release", pc |-> "claim", order |-> o, from |-> from,
                   seen |-> orders[o].status]
    BY <1>1 DEF StartRelease, Starts, IInv, TypeOK
<1>5. ASSUME NEW s \in CallState, calls'[c] = s PROVE (HandlerTrue(s))'
    <2>1. s.op = "release" /\ s.from = from /\ s.order = o /\ s.seen = orders[o].status
        BY <1>4, <1>5
    <2> QED
        BY <1>2, <2>1 DEF HandlerTrue, ReleaseTrue
<1>6. IdKept(c)
    BY <1>4 DEF IdKept
<1> QED
    BY <1>3, <1>5, <1>6 DEF HandlerKept, IdKept

LEMMA StillKeeps ==
    ASSUME IInv, IInv', EscrowInv, UNCHANGED ledgerVars, UNCHANGED offers,
           \A o \in Orders : OrderKept(o), \A d \in Calls : HandlerKept(d) /\ IdKept(d)
    PROVE  EscrowInv'
<1>1. UNCHANGED journal /\ UNCHANGED balance
    BY DEF ledgerVars
<1>2. \A f \in Offers : OfferKept(f) /\ LockKept(f) /\ UnlockKept(f)
    BY <1>1, UnchangedIsKept
<1>3. HandlersTrue' /\ OneOwner' /\ \A f \in Offers : (BooksTrue(f))'
    BY <1>2, KeptOrdersStay, RowsKeepBooks
<1>4. MerchantsMatch'
    BY <1>2, KeptOrdersStay, SellersStay
<1>5. ASSUME NEW m \in Customers PROVE (Backed(m))'
    <2>1. Raises(HeldBy(m), HeldBy(m)', Offers, 0)
        BY <1>1, OffersRaiseNothing DEF OfferStays
    <2>2. Raises(DueTo(m), DueTo(m)', Orders, 0)
        BY <1>1, KeptOrdersStay, OrdersRaiseNothing DEF OrderStays
    <2>3. balance'[p2pEscrow(m, Asset)] = balance[p2pEscrow(m, Asset)] + 0 + 0
        BY <1>1, AmountsAre DEF AmountsAreInts, AmountsOf
    <2> QED
        BY <2>1, <2>2, <2>3, BalanceStep DEF EscrowInv
<1> QED
    BY <1>3, <1>4, <1>5 DEF EscrowInv

\* A status is written over another, neither of them cancelled.
LEMMA StatusKeepsOrders ==
    ASSUME IInv, NEW o \in Orders, orders[o] \in Order, NEW status, NEW late,
           orders[o].status # "cancelled" /\ status # "cancelled",
           \/ orders' = [orders EXCEPT ![o].status = status]
           \/ orders' = [orders EXCEPT ![o].late = late]
           \/ orders' = [orders EXCEPT ![o].status = status, ![o].late = late]
    PROVE  \A p \in Orders : OrderKept(p)
<1>1. \A p \in Orders \ {o} : orders'[p] = orders[p]
    BY DEF IInv, TypeOK
<1>2. \/ orders'[o] = [orders[o] EXCEPT !.status = status]
      \/ orders'[o] = [orders[o] EXCEPT !.late = late]
      \/ orders'[o] = [[orders[o] EXCEPT !.status = status] EXCEPT !.late = late]
    BY DEF IInv, TypeOK
<1>3. /\ SameTerms(orders[o], orders'[o])
      /\ orders'[o].status \in {orders[o].status, status}
    BY <1>2 DEF SameTerms, Order
<1>4. orders[o] # NoOrder /\ orders'[o] # NoOrder
    <2>1. DOMAIN orders'[o] = DOMAIN orders[o]
        BY <1>2 DEF Order
    <2>2. "offer" \in DOMAIN orders[o] /\ "offer" \notin DOMAIN NoOrder
        BY DEF Order, NoOrder
    <2> QED
        BY <2>1, <2>2
<1> QED
    BY <1>1, <1>3, <1>4 DEF OrderKept, SameTerms

LEMMA StillSteps ==
    ASSUME IInv, IInv', QuoteInv, EscrowInv, NEW c \in Calls,
           \/ \E f \in Offers, o \in Orders, p \in Customers, n \in Sizes :
                 OpenOrder(c, f, o, p, n)
           \/ \E f \in Offers : CloseOffer(c, f)
           \/ \E o \in Orders : \/ ReleaseOrder(c, o) \/ AdminRelease(c, o)
                                \/ CancelOrder(c, o) \/ AdminCancel(c, o)
           \/ CloseOfferCheck(c) \/ CallFails(c)
    PROVE  EscrowInv'
<1>1. UNCHANGED offers /\ UNCHANGED orders /\ UNCHANGED ledgerVars
    BY DEF OpenOrder, CloseOffer, ReleaseOrder, AdminRelease, CancelOrder, AdminCancel,
           CloseOfferCheck, CallFails, ledgerVars
<1>2. \A d \in Calls : HandlerKept(d) /\ IdKept(d)
    <2>1. CASE CloseOfferCheck(c) \/ CallFails(c)
        BY <2>1, HandlersGoOn DEF CloseOfferCheck, CallFails, At
    <2>2. CASE \E f \in Offers : CloseOffer(c, f)
        <3>1. \E state : Starts(c, state) /\ state.op = "closeOffer" /\ state.pc = "check"
            BY <2>2 DEF CloseOffer
        <3> QED
            BY <3>1, HandlersGoOn
    <2>3. ASSUME NEW f \in Offers, NEW o \in Orders, NEW p \in Customers, NEW n \in Sizes,
                 OpenOrder(c, f, o, p, n)
          PROVE  \A d \in Calls : HandlerKept(d) /\ IdKept(d)
        <3>1. \E state : Starts(c, state) /\ state.op = "openOrder"
            BY <2>3 DEF OpenOrder
        <3> QED
            BY <3>1, HandlersGoOn
    <2>4. ASSUME NEW o \in Orders, CancelOrder(c, o) \/ AdminCancel(c, o)
          PROVE  \A d \in Calls : HandlerKept(d) /\ IdKept(d)
        <3>1. \E state : Starts(c, state) /\ state.op = "cancel"
            BY <2>4 DEF CancelOrder, AdminCancel
        <3> QED
            BY <3>1, HandlersGoOn
    <2> QED
        BY <2>1, <2>2, <2>3, <2>4, ReleasesStart
<1> QED
    BY <1>1, <1>2, UnchangedIsKept, StillKeeps

\* The claim takes an open order, and the revert does not write "cancelled" back.
LEMMA ClaimsAndRevertsKeep ==
    ASSUME IInv, IInv', EscrowInv, NEW c \in Calls, ReleaseClaim(c) \/ ReleaseRevert(c)
    PROVE  EscrowInv'
<1>1. calls[c].op = "release" /\ ReleaseTrue(calls[c])
    BY DEF ReleaseClaim, ReleaseRevert, At, EscrowInv, HandlersTrue, HandlerTrue
<1>2. calls[c].order \in Orders /\ orders[calls[c].order] \in Order
    BY <1>1, ReleaseFields
<1>3. UNCHANGED offers /\ UNCHANGED ledgerVars
    BY DEF ReleaseClaim, ReleaseRevert, ledgerVars
<1>4. \A d \in Calls : HandlerKept(d) /\ IdKept(d)
    BY <1>1, HandlersGoOn DEF ReleaseClaim, ReleaseRevert
<1>5. \A o \in Orders : OrderKept(o)
    <2>1. CASE UNCHANGED orders
        BY <2>1, UnchangedIsKept
    <2>2. CASE /\ orders[calls[c].order].status \in calls[c].from
               /\ orders' = [orders EXCEPT ![calls[c].order].status = "released"]
        BY <1>1, <1>2, <2>2, StatusKeepsOrders DEF ReleaseTrue
    <2>3. CASE /\ orders[calls[c].order].status = "released"
               /\ orders' = [orders EXCEPT ![calls[c].order].status = calls[c].seen]
        BY <1>1, <1>2, <2>3, StatusKeepsOrders DEF ReleaseTrue
    <2> QED
        BY <2>1, <2>2, <2>3 DEF ReleaseClaim, ReleaseRevert
<1> QED
    BY <1>3, <1>4, <1>5, StillKeeps

LEMMA StatusStepsKeep ==
    ASSUME IInv, IInv', EscrowInv, NEW o \in Orders,
           SubmitPayment(o) \/ DisputeOrder(o) \/ PayWindowEnds(o)
    PROVE  EscrowInv'
<1>1. /\ UNCHANGED offers /\ UNCHANGED ledgerVars /\ UNCHANGED calls
      /\ orders[o].status \in {"created", "payment_submitted"}
    BY DEF SubmitPayment, DisputeOrder, PayWindowEnds, ledgerVars
<1>2. orders[o] \in Order
    BY <1>1, OrderRows DEF IInv, OrderStatus
<1>3. \A p \in Orders : OrderKept(p)
    <2>1. \/ \E status \in {"payment_submitted", "disputed"} :
                \/ orders' = [orders EXCEPT ![o].status = status]
                \/ orders' = [orders EXCEPT ![o].status = status, ![o].late = FALSE]
          \/ orders' = [orders EXCEPT ![o].late = TRUE]
        BY DEF SubmitPayment, DisputeOrder, PayWindowEnds
    <2> QED
        BY <1>1, <1>2, <2>1, StatusKeepsOrders
<1> QED
    BY <1>1, <1>3, UnchangedIsKept, StillKeeps

LEMMA OtherStepsKeep ==
    ASSUME IInv, IInv', EscrowInv,
           \/ UNCHANGED vars \/ SweepList \/ Crash
           \/ \E bps \in CommissionRates : SetCommissionBps(bps)
    PROVE  EscrowInv'
<1>1. UNCHANGED offers /\ UNCHANGED orders /\ UNCHANGED ledgerVars
    BY DEF vars, SweepList, Crash, SetCommissionBps, ledgerVars
<1>2. \A d \in Calls : HandlerKept(d) /\ IdKept(d)
    <2>1. CASE UNCHANGED calls
        BY <2>1, UnchangedIsKept
    <2>2. CASE \A d \in Calls : calls'[d] = Idle
        BY <2>2 DEF HandlerKept, IdKept, HandlerTrue, Idle
    <2> QED
        BY <2>1, <2>2 DEF vars, SweepList, Crash, SetCommissionBps
<1> QED
    BY <1>1, <1>2, UnchangedIsKept, StillKeeps

(* Reservations: openOrder's insert and the cancels *)

LEMMA OpenKeeps ==
    ASSUME IInv, IInv', QuoteInv, EscrowInv, NEW c \in Calls, OpenOrderInsert(c), Next
    PROVE  EscrowInv'
<1>1. UNCHANGED ledgerVars /\ UNCHANGED journal /\ UNCHANGED balance
    BY DEF OpenOrderInsert, ledgerVars
<1>2. \A d \in Calls : HandlerKept(d) /\ IdKept(d)
    BY HandlersGoOn DEF OpenOrderInsert
<1>3. CASE UNCHANGED storeVars
    BY <1>1, <1>2, <1>3, UnchangedIsKept, StillKeeps DEF storeVars
<1>4. CASE CanReserve(calls[c].offer, calls[c].amount) /\ InsertOrder(c)
    <2> PICK f \in Offers, o \in Orders, n \in Nat :
              f = calls[c].offer /\ o = calls[c].order /\ n = calls[c].amount
        BY CallFields DEF OpenOrderInsert, IInv
    <2>1. /\ offers[f] \in Offer /\ offers[f] # NoOffer
          /\ offers[f].status = "active" /\ offers[f].remaining >= n
        BY <1>4, OfferRows DEF CanReserve, IInv
    <2>2. orders[o] = NoOrder
        BY DEF OpenOrderInsert, QuoteInv, InsertsAreFresh
    <2>3. /\ offers'[f] = [offers[f] EXCEPT !.remaining = offers[f].remaining - n]
          /\ \A g \in Offers \ {f} : offers'[g] = offers[g]
        BY <1>4 DEF InsertOrder, IInv, TypeOK
    <2>4. /\ offers'[f].remaining = offers[f].remaining - n /\ offers'[f].status = "active"
          /\ offers'[f].merchant = offers[f].merchant /\ offers'[f].total = offers[f].total
          /\ offers'[f] # NoOffer
        BY <2>1, <2>3 DEF Offer, NoOffer
    <2>5. /\ orders'[o] # NoOrder /\ orders'[o].status = "created"
          /\ orders'[o].offer = f /\ orders'[o].merchant = offers[f].merchant
          /\ orders'[o].amount = n
        BY <1>4 DEF InsertOrder, IInv, TypeOK, NoOrder
    <2>6. \A p \in Orders \ {o} : orders'[p] = orders[p]
        BY <1>4 DEF InsertOrder, IInv, TypeOK
    <2>7. \A g \in Offers : OfferKept(g) /\ LockKept(g) /\ UnlockKept(g)
        <3>1. OfferKept(f)
            BY <2>1, <2>4 DEF OfferKept
        <3>2. \A g \in Offers \ {f} : offers[g] # NoOffer => offers[g].remaining \in Nat
            BY OfferRows DEF IInv, Offer
        <3>3. \A g \in Offers \ {f} : OfferKept(g)
            BY <2>3, <3>2 DEF OfferKept
        <3> QED
            BY <1>1, <3>1, <3>3, UnchangedIsKept
    <2>8. \A p \in Orders : CancelKept(p)
        BY <2>2, <2>6 DEF CancelKept, NoOrder
    <2>9. HandlersTrue' /\ OneOwner' /\ \A g \in Offers : (BooksTrue(g))'
        BY <1>2, <2>7, <2>8, RowsKeepBooks
    <2>10. MerchantsMatch'
        <3>1. TermsStay
            BY StepsKeepTerms DEF QuoteInv
        <3>2. \A p \in Orders : orders'[p] # NoOrder =>
                  \/ orders[p] # NoOrder
                  \/ orders'[p].merchant = offers'[orders'[p].offer].merchant
            BY <2>4, <2>5, <2>6
        <3> QED
            BY <2>7, <3>1, <3>2, SellersStay
    <2>11. ASSUME NEW m \in Customers PROVE (Backed(m))'
        <3> DEFINE d == IF offers[f].merchant = m THEN n ELSE 0
        <3>1. /\ Held(m, f) \in Int /\ Returned(m, f) \in Int /\ Due(m, o) \in Int
              /\ PaidOut(m, o) \in Int /\ balance[p2pEscrow(m, Asset)] \in Int
            BY AmountsAre DEF AmountsAreInts, AmountsOf
        <3>2. offers[f].remaining \in Nat /\ n \in Nat /\ d \in Int /\ -d \in Int
            BY <2>1 DEF Offer
        <3>3. (Held(m, f))' = Held(m, f) + -d
            <4>1. Held(m, f) = (IF offers[f].merchant = m THEN offers[f].remaining ELSE 0)
                                  - Returned(m, f)
                BY <2>1 DEF Held
            <4>2. (Held(m, f))' =
                      (IF offers[f].merchant = m THEN offers[f].remaining - n ELSE 0)
                          - Returned(m, f)
                BY <2>4, <2>7 DEF Held, UnlockKept
            <4> QED
                BY <3>1, <3>2, <4>1, <4>2
        <3>4. (Due(m, o))' = Due(m, o) + d
            <4>1. Due(m, o) = 0 - PaidOut(m, o)
                BY <2>2 DEF Due, Owed
            <4>2. (Due(m, o))' = d - PaidOut(m, o)
                BY <1>1, <2>5 DEF Due, Owed, PaidOut, ReleaseKey
            <4> HIDE DEF d
            <4> QED
                BY <3>1, <3>2, <4>1, <4>2
        <3>5. \A g \in Offers \ {f} : OfferStays(g)
            BY <1>1, <2>3 DEF OfferStays
        <3>6. \A p \in Orders \ {o} : OrderStays(p)
            BY <1>1, <2>6 DEF OrderStays, Owed
        <3> HIDE DEF d
        <3>7. Raises(HeldBy(m), HeldBy(m)', Offers, -d) /\ Raises(DueTo(m), DueTo(m)', Orders, d)
            BY <3>2, <3>3, <3>4, <3>5, <3>6, OffersRaise, OrdersRaise
        <3>8. balance'[p2pEscrow(m, Asset)] = balance[p2pEscrow(m, Asset)] + -d + d
            BY <1>1, <3>1, <3>2
        <3> QED
            BY <3>2, <3>7, <3>8, BalanceStep DEF EscrowInv
    <2> QED
        BY <2>9, <2>10, <2>11 DEF EscrowInv
<1> QED
    BY <1>3, <1>4 DEF OpenOrderInsert

LEMMA CancelKeeps ==
    ASSUME IInv, IInv', QuoteInv, EscrowInv, NEW o \in Orders,
           storeTryCancel(o) \/ UNCHANGED storeVars, UNCHANGED ledgerVars,
           \A d \in Calls : HandlerKept(d) /\ IdKept(d)
    PROVE  EscrowInv'
<1>1. UNCHANGED journal /\ UNCHANGED balance
    BY DEF ledgerVars
<1>2. CASE UNCHANGED storeVars
    BY <1>1, <1>2, UnchangedIsKept, StillKeeps DEF storeVars
<1>3. CASE storeCancelOrder(o)
    <2>1. orders[o] \in Order /\ orders[o] # NoOrder /\ orders[o].status # "cancelled"
        BY <1>3, OrderRows DEF storeCancelOrder, CANCELLABLE, OrderStatus, IInv
    <2> PICK f \in Offers, n \in Nat : f = orders[o].offer /\ n = orders[o].amount
        BY <2>1 DEF Order
    <2>2. offers[f] \in Offer /\ offers[f] # NoOffer
        BY <2>1, OfferRows DEF IInv, RowsExist
    <2>3. orders[o].merchant = offers[f].merchant
        BY <2>1 DEF EscrowInv, MerchantsMatch
    <2>4. TermsStay
        BY <1>3, CancelKeepsTerms DEF storeTryCancel
    <2>5. /\ orders'[o] = [orders[o] EXCEPT !.status = "cancelled"]
          /\ \A p \in Orders \ {o} : orders'[p] = orders[p]
        BY <1>3 DEF storeCancelOrder, IInv, TypeOK
    <2>6. orders'[o].status = "cancelled"
        BY <2>1, <2>5 DEF Order
    <2>7. /\ offers'[f] = [offers[f] EXCEPT !.remaining = offers[f].remaining + n]
          /\ \A g \in Offers \ {f} : offers'[g] = offers[g]
        BY <1>3 DEF storeCancelOrder, IInv, TypeOK
    <2>8. /\ offers'[f].remaining = offers[f].remaining + n
          /\ offers'[f].status = offers[f].status /\ offers'[f].merchant = offers[f].merchant
          /\ offers'[f].total = offers[f].total /\ offers'[f] # NoOffer
        BY <2>2, <2>7 DEF Offer, NoOffer
    <2>9. \A g \in Offers : OfferKept(g) /\ LockKept(g) /\ UnlockKept(g)
        <3>1. OfferKept(f)
            BY <2>2, <2>8 DEF OfferKept, Offer
        <3>2. \A g \in Offers \ {f} : offers[g] # NoOffer => offers[g].remaining \in Nat
            BY OfferRows DEF IInv, Offer
        <3>3. \A g \in Offers \ {f} : OfferKept(g)
            BY <2>7, <3>2 DEF OfferKept
        <3> QED
            BY <1>1, <3>1, <3>3, UnchangedIsKept
    <2>10. \A p \in Orders : CancelKept(p)
        BY <2>5, <2>6 DEF CancelKept
    <2>11. HandlersTrue' /\ OneOwner' /\ \A g \in Offers : (BooksTrue(g))'
        BY <2>9, <2>10, RowsKeepBooks
    <2>12. MerchantsMatch'
        <3>1. \A p \in Orders : orders'[p] # NoOrder => orders[p] # NoOrder
            BY <2>1, <2>5
        <3> QED
            BY <2>4, <2>9, <3>1, SellersStay
    <2>13. ASSUME NEW m \in Customers PROVE (Backed(m))'
        <3> DEFINE d == IF offers[f].merchant = m THEN n ELSE 0
        <3>1. /\ Held(m, f) \in Int /\ Returned(m, f) \in Int /\ Due(m, o) \in Int
              /\ PaidOut(m, o) \in Int /\ balance[p2pEscrow(m, Asset)] \in Int
            BY AmountsAre DEF AmountsAreInts, AmountsOf
        <3>2. offers[f].remaining \in Nat /\ n \in Nat /\ d \in Int /\ -d \in Int
            BY <2>2 DEF Offer
        <3>3. (Held(m, f))' = Held(m, f) + d
            <4>1. Held(m, f) = (IF offers[f].merchant = m THEN offers[f].remaining ELSE 0)
                                  - Returned(m, f)
                BY <2>2 DEF Held
            <4>2. (Held(m, f))' =
                      (IF offers[f].merchant = m THEN offers[f].remaining + n ELSE 0)
                          - Returned(m, f)
                BY <2>8, <2>9 DEF Held, UnlockKept
            <4> QED
                BY <3>1, <3>2, <4>1, <4>2
        <3>4. (Due(m, o))' = Due(m, o) + -d
            <4>1. Due(m, o) = d - PaidOut(m, o)
                BY <2>1, <2>3 DEF Due, Owed
            <4>2. (Due(m, o))' = 0 - PaidOut(m, o)
                BY <1>1, <2>6 DEF Due, Owed, PaidOut, ReleaseKey
            <4> HIDE DEF d
            <4> QED
                BY <3>1, <3>2, <4>1, <4>2
        <3>5. \A g \in Offers \ {f} : OfferStays(g)
            BY <1>1, <2>7 DEF OfferStays
        <3>6. \A p \in Orders \ {o} : OrderStays(p)
            BY <1>1, <2>5 DEF OrderStays, Owed
        <3> HIDE DEF d
        <3>7. Raises(HeldBy(m), HeldBy(m)', Offers, d) /\ Raises(DueTo(m), DueTo(m)', Orders, -d)
            BY <3>2, <3>3, <3>4, <3>5, <3>6, OffersRaise, OrdersRaise
        <3>8. balance'[p2pEscrow(m, Asset)] = balance[p2pEscrow(m, Asset)] + d + -d
            BY <1>1, <3>1, <3>2
        <3> QED
            BY <3>2, <3>7, <3>8, BalanceStep DEF EscrowInv
    <2> QED
        BY <2>11, <2>12, <2>13 DEF EscrowInv
<1> QED
    BY <1>2, <1>3 DEF storeTryCancel

LEMMA CancelsKeep ==
    ASSUME IInv, IInv', QuoteInv, EscrowInv,
           \/ \E c \in Calls : CancelCommit(c)
           \/ \E o \in Orders : SweepCancel(o)
    PROVE  EscrowInv'
<1>1. ASSUME NEW c \in Calls, CancelCommit(c) PROVE EscrowInv'
    <2>1. calls[c].order \in Orders
        BY <1>1, CallFields DEF CancelCommit, IInv
    <2>2. UNCHANGED ledgerVars /\ \A d \in Calls : HandlerKept(d) /\ IdKept(d)
        BY <1>1, HandlersGoOn DEF CancelCommit, ledgerVars
    <2> QED
        BY <1>1, <2>1, <2>2, CancelKeeps DEF CancelCommit
<1>2. ASSUME NEW o \in Orders, SweepCancel(o) PROVE EscrowInv'
    <2>1. UNCHANGED ledgerVars /\ \A d \in Calls : HandlerKept(d) /\ IdKept(d)
        BY <1>2, UnchangedIsKept DEF SweepCancel, ledgerVars
    <2> QED
        BY <1>2, <2>1, CancelKeeps DEF SweepCancel
<1> QED
    BY <1>1, <1>2

(* Postings: releases, locks and unlocks *)

\* A post() stores its journal and moves each escrow by it, or changes nothing.
LEMMA PostMovesEscrow ==
    ASSUME IInv, NEW k \in Keys, NEW s \in Seq(Posting), Post(k, s)
    PROVE  \/ UNCHANGED ledgerVars
           \/ /\ ~Posted(k) /\ journal'[k] = s
              /\ \A j \in Keys \ {k} : journal'[j] = journal[j]
              /\ \A m \in Customers :
                    balance'[p2pEscrow(m, Asset)]
                        = balance[p2pEscrow(m, Asset)] + Delta(s, p2pEscrow(m, Asset))
<1>1. StoreTypeOK
    BY DEF IInv, TypeOK, StoreTypeOK
<1>2. CASE Posted(k) /\ UNCHANGED ledgerVars
    BY <1>2
<1>3. CASE ~Posted(k) /\ journal'[k] = s /\ balance' = Applied(s)
    <2>1. \A j \in Keys \ {k} : journal'[j] = journal[j]
        BY <1>1, PostAppends
    <2>2. ASSUME NEW m \in Customers
          PROVE  balance'[p2pEscrow(m, Asset)]
                     = balance[p2pEscrow(m, Asset)] + Delta(s, p2pEscrow(m, Asset))
        BY <1>3, AccountsExist, P2PAssumption DEF Applied
    <2> QED
        BY <1>3, <2>1, <2>2
<1> QED
    BY <1>1, <1>2, <1>3, PostStores

LEMMA NoJournalMoves ==
    ASSUME NEW k, ~Posted(k), NEW a
    PROVE  Delta(journal[k], a) = 0
BY DEF Posted, NoJournal, Delta, NetOn, AmountIn

LEMMA PayoutKeeps ==
    ASSUME IInv, IInv', EscrowInv, NEW c \in Calls, ReleasePost(c)
    PROVE  EscrowInv'
<1> PICK o \in Orders : o = calls[c].order
    BY ReleaseFields DEF ReleasePost, At
<1> DEFINE postings == ReleaseOf(orders[o])
<1>1. UNCHANGED offers /\ UNCHANGED orders
    BY DEF ReleasePost
<1>2. \A d \in Calls : HandlerKept(d) /\ IdKept(d)
    BY HandlersGoOn DEF ReleasePost, At
<1>3. CASE UNCHANGED ledgerVars
    BY <1>1, <1>2, <1>3, UnchangedIsKept, StillKeeps
<1>4. ASSUME Post(ReleaseKey(o), postings), ~UNCHANGED ledgerVars PROVE EscrowInv'
    <2>1. orders[o] \in Order /\ ReleaseKey(o) \in Keys
        BY ReleaseFields, KeysExist DEF ReleasePost, At
    <2>2. postings \in Seq(Posting)
        BY <2>1, P2PAssumption, SplitsAreJournals DEF Order, ReleaseOf
    <2> HIDE DEF postings
    <2>3. /\ ~Posted(ReleaseKey(o)) /\ journal'[ReleaseKey(o)] = postings
          /\ \A j \in Keys \ {ReleaseKey(o)} : journal'[j] = journal[j]
          /\ \A m \in Customers :
                balance'[p2pEscrow(m, Asset)]
                    = balance[p2pEscrow(m, Asset)] + Delta(postings, p2pEscrow(m, Asset))
        BY <1>4, <2>1, <2>2, PostMovesEscrow
    <2>4. /\ \A f \in Offers : OfferStays(f)
          /\ \A f \in Offers : OfferKept(f) /\ LockKept(f) /\ UnlockKept(f)
        <3>1. \A f \in Offers : OfferStays(f)
            BY <1>1, <2>3, KeysExist DEF OfferStays
        <3> QED
            BY <1>1, <3>1, UnchangedIsKept DEF OfferStays
    <2>5. \A p \in Orders : OrderKept(p)
        BY <1>1, UnchangedIsKept
    <2>6. HandlersTrue' /\ OneOwner' /\ \A f \in Offers : (BooksTrue(f))'
        BY <1>2, <2>4, <2>5, KeptOrdersStay, RowsKeepBooks
    <2>7. MerchantsMatch'
        BY <2>4, <2>5, KeptOrdersStay, SellersStay
    <2>8. ASSUME NEW m \in Customers PROVE (Backed(m))'
        <3> DEFINE d == Delta(postings, p2pEscrow(m, Asset))
        <3>1. d \in Int /\ Owed(m, o) \in Int /\ balance[p2pEscrow(m, Asset)] \in Int
            BY <2>2, DeltaIsInt, AmountsAre DEF AmountsAreInts, AmountsOf
        <3>2. PaidOut(m, o) = -0
            BY <2>3, NoJournalMoves DEF PaidOut
        <3>3. (PaidOut(m, o))' = -d
            BY <2>3 DEF PaidOut, ReleaseKey
        <3>4. (Owed(m, o))' = Owed(m, o)
            BY <2>5, KeptOrdersStay
        <3> HIDE DEF d
        <3>5. (Due(m, o))' = Due(m, o) + d
            BY <3>1, <3>2, <3>3, <3>4 DEF Due
        <3>6. \A p \in Orders \ {o} : OrderStays(p)
            <4>1. \A p \in Orders \ {o} : ReleaseKey(p) \in Keys \ {ReleaseKey(o)}
                BY KeysExist DEF ReleaseKey
            <4> QED
                BY <2>3, <2>5, <4>1, KeptOrdersStay DEF OrderStays
        <3>7. Raises(HeldBy(m), HeldBy(m)', Offers, 0) /\ Raises(DueTo(m), DueTo(m)', Orders, d)
            BY <2>4, <3>1, <3>5, <3>6, OffersRaiseNothing, OrdersRaise
        <3>8. balance'[p2pEscrow(m, Asset)] = balance[p2pEscrow(m, Asset)] + 0 + d
            BY <2>3, <3>1 DEF d
        <3>9. Backed(m) /\ 0 \in Int
            BY DEF EscrowInv
        <3> QED
            BY <3>1, <3>7, <3>8, <3>9, BalanceStep
    <2> QED
        BY <2>6, <2>7, <2>8 DEF EscrowInv
<1> QED
    BY <1>3, <1>4 DEF ReleasePost, ReleaseOf, CommissionOf

\* A handler on another offer, or a release, is not concerned by a post for f.
LEMMA OthersStayTrue ==
    ASSUME IInv, IInv', EscrowInv, NEW f \in Offers,
           \A g \in Offers : offers[g] # NoOffer => OfferKept(g),
           \A g \in Offers \ {f} : OfferKept(g) /\ LockKept(g) /\ UnlockKept(g),
           \A o \in Orders : CancelKept(o),
           NEW d \in Calls, calls'[d] = calls[d],
           calls[d].op = "createOffer" /\ calls[d].offer = f =>
               calls[d].pc # "insert" /\ OfferKept(f) /\ LockKept(f)
    PROVE  \A s \in CallState : calls'[d] = s => (HandlerTrue(s))'
<1> SUFFICES ASSUME NEW s \in CallState, calls'[d] = s PROVE (HandlerTrue(s))'
    OBVIOUS
<1>1. HandlerTrue(s)
    BY DEF EscrowInv, HandlersTrue
<1>2. s.op = "createOffer" => /\ OfferKept(s.offer) /\ LockKept(s.offer)
                              /\ s.pc = "insert" => UnlockKept(s.offer)
    BY StateFields
<1>3. s.op = "closeOffer" => offers[s.offer] # NoOffer /\ OfferKept(s.offer)
    BY StateFields DEF IInv, RowsExist
<1>4. s.op = "release" => CancelKept(s.order)
    BY StateFields
<1> QED
    BY <1>1, <1>2, <1>3, <1>4, HandlerStays

\* From one handler's truth after the step to that of all.
LEMMA HandlersAreTrue ==
    ASSUME IInv', \A d \in Calls : \A s \in CallState : calls'[d] = s => (HandlerTrue(s))'
    PROVE  HandlersTrue'
<1>1. \A d \in Calls : calls'[d] \in CallState
    BY DEF IInv, TypeOK
<1> QED
    BY <1>1 DEF HandlersTrue, HandlerTrue, CreateTrue, CloseTrue, ReleaseTrue

\* createOffer locks the escrow of an id that had no journal.
LEMMA LockKeeps ==
    ASSUME IInv, IInv', EscrowInv, NEW c \in Calls,
           NEW f \in Offers, NEW p \in Customers, NEW n \in Sizes, CreateOfferLock(c, f, p, n)
    PROVE  EscrowInv'
<1> DEFINE lock == p2pLock(p, Asset, n)
<1>1. n \in Int /\ n > 0
    BY P2PAssumption DEF CreateOfferLock
<1>2. /\ UNCHANGED offers /\ UNCHANGED orders
      /\ offers[f] = NoOffer /\ ~Posted(LockKey(f)) /\ Post(LockKey(f), lock)
    BY DEF CreateOfferLock, FreshOffer
<1>3. LockKey(f) \in Keys /\ lock \in Seq(Posting)
    BY <1>1, KeysExist, P2PAssumption, MovesAreJournals
<1>4. \A m \in Customers : Delta(lock, p2pEscrow(m, Asset)) = IF p = m THEN n ELSE 0
    BY <1>1, EscrowDeltas
<1> HIDE DEF lock
<1>5. CASE UNCHANGED ledgerVars
    <2>1. FALSE
        BY <1>2, <1>3, <1>5, PostAppends DEF Posted, ledgerVars, IInv, TypeOK, StoreTypeOK, LockKey
    <2> QED
        BY <2>1
<1>6. CASE /\ journal'[LockKey(f)] = lock
           /\ \A j \in Keys \ {LockKey(f)} : journal'[j] = journal[j]
           /\ \A m \in Customers :
                 balance'[p2pEscrow(m, Asset)]
                     = balance[p2pEscrow(m, Asset)] + Delta(lock, p2pEscrow(m, Asset))
    <2>1. \A g \in Offers \ {f} : OfferStays(g) /\ OfferKept(g) /\ LockKept(g) /\ UnlockKept(g)
        <3>1. \A g \in Offers \ {f} : LockKey(g) # LockKey(f)
            BY DEF LockKey
        <3>2. \A g \in Offers \ {f} : OfferStays(g)
            BY <1>2, <1>6, <3>1, KeysExist DEF OfferStays
        <3> QED
            BY <1>2, <3>2, UnchangedIsKept DEF OfferStays
    <2>2. OfferKept(f) /\ UnlockKept(f)
        <3>1. journal'[UnlockKey(f)] = journal[UnlockKey(f)]
            BY <1>6, KeysExist
        <3> QED
            BY <1>2, <3>1, UnchangedIsKept
    <2>3. /\ \A o \in Orders : OrderKept(o)
          /\ \A o \in Orders : OrderStays(o)
        <3>1. \A o \in Orders : OrderKept(o)
            BY <1>2, UnchangedIsKept
        <3> QED
            BY <1>6, <3>1, KeysExist, KeptOrdersStay DEF OrderStays
    <2>4. \A m \in Customers :
              /\ Locked(m, f) = 0
              /\ (Locked(m, f))' = IF p = m THEN n ELSE 0
        <3>1. \A m \in Customers : Locked(m, f) = 0
            BY <1>2, NoJournalMoves DEF Locked
        <3>2. \A m \in Customers : (Locked(m, f))' = IF p = m THEN n ELSE 0
            BY <1>4, <1>6 DEF Locked, LockKey
        <3> QED
            BY <3>1, <3>2
    <2>5. \A m \in Customers : Returned(m, f) = 0 /\ (Returned(m, f))' = 0
        <3>1. \A m \in Customers : Returned(m, f) \in Int
            BY AmountsAre DEF AmountsAreInts, AmountsOf
        <3> QED
            BY <1>2, <2>2, <2>4, <3>1 DEF EscrowInv, BooksTrue, UnlockKept
    <2>6. \A d \in Calls : calls[d].op = "createOffer" => calls[d].offer # f
        BY <1>2 DEF IInv, LockedFirst
    <2>7. \A d \in Calls \ {c} : calls'[d] = calls[d]
        BY DEF CreateOfferLock, Starts, IInv, TypeOK
    <2>8. \/ calls'[c] = calls[c]
          \/ calls'[c] = [op |-> "createOffer", pc |-> "insert", offer |-> f,
                          merchant |-> p, amount |-> n]
        BY DEF CreateOfferLock, Starts, IInv, TypeOK
    <2>9. HandlersTrue'
        <3>1. \A g \in Offers : OfferKept(g)
            BY <2>1, <2>2
        <3>2. \A o \in Orders : CancelKept(o)
            BY <2>3, KeptOrdersStay
        <3>3. ASSUME NEW d \in Calls, calls'[d] = calls[d]
              PROVE  \A s \in CallState : calls'[d] = s => (HandlerTrue(s))'
            BY <2>1, <2>6, <3>1, <3>2, <3>3, OthersStayTrue
        <3>4. ASSUME NEW s \in CallState,
                     s = [op |-> "createOffer", pc |-> "insert", offer |-> f,
                          merchant |-> p, amount |-> n]
              PROVE  (HandlerTrue(s))'
            <4>1. /\ s.op = "createOffer" /\ s.pc = "insert" /\ s.offer = f
                  /\ s.merchant = p /\ s.amount = n
                BY <3>4
            <4> QED
                BY <1>1, <1>2, <2>4, <2>5, <4>1 DEF HandlerTrue, CreateTrue
        <3> QED
            BY <2>7, <2>8, <3>3, <3>4, HandlersAreTrue
    <2>10. OneOwner'
        BY <2>6, <2>7, <2>8 DEF EscrowInv, OneOwner
    <2>11. MerchantsMatch'
        BY <2>1, <2>2, <2>3, KeptOrdersStay, SellersStay
    <2>12. ASSUME NEW g \in Offers PROVE (BooksTrue(g))'
        <3>1. CASE g = f
            BY <1>1, <1>2, <2>4, <2>5, <3>1 DEF BooksTrue
        <3>2. CASE g # f
            BY <2>1, <3>2, BooksStay DEF EscrowInv
        <3> QED
            BY <3>1, <3>2
    <2>13. ASSUME NEW m \in Customers PROVE (Backed(m))'
        <3> DEFINE d == IF p = m THEN n ELSE 0
        <3>1. d \in Int /\ balance[p2pEscrow(m, Asset)] \in Int
            BY <1>1, AmountsAre DEF AmountsAreInts, AmountsOf
        <3>2. Held(m, f) = 0 - 0
            BY <1>2, <2>4, <2>5 DEF Held
        <3>3. (Held(m, f))' = d - 0
            BY <1>2, <2>4, <2>5 DEF Held
        <3>4. balance'[p2pEscrow(m, Asset)] = balance[p2pEscrow(m, Asset)] + d
            BY <1>4, <1>6
        <3> HIDE DEF d
        <3>5. Raises(HeldBy(m), HeldBy(m)', Offers, d)
            BY <2>1, <3>1, <3>2, <3>3, OffersRaise
        <3>6. Raises(DueTo(m), DueTo(m)', Orders, 0)
            BY <2>3, OrdersRaiseNothing
        <3>7. balance'[p2pEscrow(m, Asset)] = balance[p2pEscrow(m, Asset)] + d + 0
            BY <3>1, <3>4
        <3>8. Backed(m) /\ 0 \in Int
            BY DEF EscrowInv
        <3> QED
            BY <3>1, <3>5, <3>6, <3>7, <3>8, BalanceStep
    <2> QED
        BY <2>9, <2>10, <2>11, <2>12, <2>13 DEF EscrowInv
<1> QED
    BY <1>2, <1>3, <1>5, <1>6, PostMovesEscrow

\* The insert turns the lock into what the offer lists.
LEMMA InsertKeeps ==
    ASSUME IInv, IInv', EscrowInv, NEW c \in Calls, CreateOfferInsert(c)
    PROVE  EscrowInv'
<1> PICK f \in Offers, p \in Customers, n \in Nat :
          f = calls[c].offer /\ p = calls[c].merchant /\ n = calls[c].amount
    BY CallFields DEF CreateOfferInsert, At, IInv
<1>1. calls[c].op = "createOffer" /\ calls[c].pc = "insert"
    BY DEF CreateOfferInsert, At
<1>2. /\ n > 0 /\ offers[f] = NoOffer
      /\ \A m \in Customers : Locked(m, f) = (IF p = m THEN n ELSE 0) /\ Returned(m, f) = 0
    BY <1>1 DEF EscrowInv, HandlersTrue, HandlerTrue, CreateTrue
<1>3. UNCHANGED orders /\ UNCHANGED ledgerVars /\ UNCHANGED journal /\ UNCHANGED balance
    BY DEF CreateOfferInsert, ledgerVars
<1>4. \A d \in Calls \ {c} : calls'[d] = calls[d]
    BY DEF CreateOfferInsert, Returns, GoesTo, IInv, TypeOK
<1>5. \/ calls'[c] = Idle
      \/ /\ calls'[c].op = "createOffer" /\ calls'[c].pc = "compensate"
         /\ calls'[c].offer = f /\ calls'[c].merchant = p /\ calls'[c].amount = n
    <2>1. calls'[c] = Idle \/ calls'[c] = [calls[c] EXCEPT !.pc = "compensate"]
        BY DEF CreateOfferInsert, Returns, GoesTo, IInv, TypeOK
    <2> QED
        BY <1>1, <2>1, CallFields DEF IInv
<1>6. \A d \in Calls : IdKept(d)
    BY <1>1, <1>4, <1>5 DEF IdKept, Idle
<1>7. CASE UNCHANGED offers
    <2>1. ASSUME NEW s \in CallState, calls'[c] = s PROVE (HandlerTrue(s))'
        <3>1. \/ s = Idle
              \/ /\ s.op = "createOffer" /\ s.pc = "compensate"
                 /\ s.offer = f /\ s.merchant = p /\ s.amount = n
            BY <1>5, <2>1
        <3>2. \A m \in Customers : (Locked(m, f))' = IF p = m THEN n ELSE 0
            BY <1>2, <1>3 DEF Locked, LockKey
        <3> QED
            BY <1>2, <1>7, <3>1, <3>2 DEF HandlerTrue, CreateTrue, Idle
    <2>2. \A d \in Calls : HandlerKept(d)
        BY <1>4, <2>1 DEF HandlerKept
    <2> QED
        BY <1>3, <1>6, <1>7, <2>2, UnchangedIsKept, StillKeeps
<1>8. ASSUME ~UNCHANGED offers PROVE EscrowInv'
    <2>1. /\ offers'[f] # NoOffer /\ offers'[f].status = "active"
          /\ offers'[f].merchant = p /\ offers'[f].total = n /\ offers'[f].remaining = n
          /\ \A g \in Offers \ {f} : offers'[g] = offers[g]
        BY <1>8 DEF CreateOfferInsert, IInv, TypeOK, NoOffer
    <2>2. calls'[c] = Idle \/ Ackless
        BY <1>8 DEF CreateOfferInsert, Returns, IInv, TypeOK
    <2>3. /\ \A g \in Offers : offers[g] # NoOffer => OfferKept(g)
          /\ \A g \in Offers \ {f} : OfferStays(g) /\ OfferKept(g)
          /\ \A g \in Offers : LockKept(g) /\ UnlockKept(g)
        <3>1. \A g \in Offers : offers[g] # NoOffer => offers[g].remaining \in Nat
            BY OfferRows DEF IInv, Offer
        <3>2. \A g \in Offers \ {f} : OfferKept(g)
            BY <2>1, <3>1 DEF OfferKept
        <3> QED
            BY <1>2, <1>3, <2>1, <3>2, UnchangedIsKept DEF OfferStays
    <2>4. \A m \in Customers :
              /\ (Locked(m, f))' = IF p = m THEN n ELSE 0
              /\ (Returned(m, f))' = 0
        BY <1>2, <2>3 DEF LockKept, UnlockKept
    <2>5. HandlersTrue'
        <3>1. \A o \in Orders : CancelKept(o)
            BY <1>3 DEF CancelKept
        <3>2. \A d \in Calls \ {c} : calls[d].op = "createOffer" => calls[d].offer # f
            BY <1>1 DEF EscrowInv, OneOwner
        <3>3. ASSUME NEW d \in Calls \ {c}
              PROVE  \A s \in CallState : calls'[d] = s => (HandlerTrue(s))'
            BY <1>4, <2>3, <3>1, <3>2, <3>3, OthersStayTrue
        <3>4. ASSUME NEW s \in CallState, calls'[c] = s PROVE (HandlerTrue(s))'
            <4>1. \/ s = Idle
                  \/ /\ s.op = "createOffer" /\ s.pc = "compensate" /\ Ackless
                     /\ s.offer = f /\ s.merchant = p /\ s.amount = n
                BY <1>5, <2>2, <3>4
            <4> QED
                BY <1>2, <2>1, <2>4, <4>1 DEF HandlerTrue, CreateTrue, Idle
        <3> QED
            BY <3>3, <3>4, HandlersAreTrue
    <2>6. OneOwner'
        BY <1>6, OwnersStay DEF EscrowInv
    <2>7. MerchantsMatch'
        BY <1>3, <2>3, RowsKeepTerms, SellersStay
    <2>8. ASSUME NEW g \in Offers PROVE (BooksTrue(g))'
        <3>1. CASE g = f
            BY <1>2, <2>1, <2>4, <3>1 DEF BooksTrue
        <3>2. CASE g # f
            BY <2>3, <3>2, BooksStay DEF EscrowInv
        <3> QED
            BY <3>1, <3>2
    <2>9. ASSUME NEW m \in Customers PROVE (Backed(m))'
        <3>1. Held(m, f) \in Int /\ balance[p2pEscrow(m, Asset)] \in Int
            BY AmountsAre DEF AmountsAreInts, AmountsOf
        <3>2. (Held(m, f))' = Held(m, f)
            BY <1>2, <2>1, <2>4 DEF Held
        <3>3. (Held(m, f))' = Held(m, f) + 0 /\ 0 \in Int /\ Backed(m)
            BY <3>1, <3>2 DEF EscrowInv
        <3>4. \A o \in Orders : OrderStays(o)
            BY <1>3, UnchangedIsKept, KeptOrdersStay DEF OrderStays
        <3>5. Raises(HeldBy(m), HeldBy(m)', Offers, 0)
            BY <2>3, <3>3, OffersRaise
        <3>6. Raises(DueTo(m), DueTo(m)', Orders, 0)
            BY <3>4, OrdersRaiseNothing
        <3>7. balance'[p2pEscrow(m, Asset)] = balance[p2pEscrow(m, Asset)] + 0 + 0
            BY <1>3, <3>1
        <3> QED
            BY <3>3, <3>5, <3>6, <3>7, BalanceStep
    <2> QED
        BY <2>5, <2>6, <2>7, <2>8, <2>9 DEF EscrowInv
<1> QED
    BY <1>7, <1>8

\* An unlock gives back the whole lock of an offer that was never inserted, or whose
\* insert was not acknowledged, or no more than a closed offer has left.
LEMMA UnlockKeeps ==
    ASSUME IInv, IInv', EscrowInv, NEW c \in Calls, Returns(c), UNCHANGED storeVars,
           NEW f \in Offers, NEW p \in Customers, NEW n \in Nat,
           \/ Post(UnlockKey(f), p2pUnlock(p, Asset, n))
           \/ UNCHANGED ledgerVars,
           offers[f] = NoOffer => \A m \in Customers : Locked(m, f) = IF p = m THEN n ELSE 0,
           offers[f] # NoOffer =>
               /\ offers[f].merchant = p
               /\ \/ Ackless /\ offers[f].total = n
                  \/ offers[f].status = "closed" /\ n <= offers[f].remaining,
           \A d \in Calls \ {c} :
               calls[d].op = "createOffer" /\ calls[d].offer = f => calls[d].pc # "insert"
    PROVE  EscrowInv'
<1> DEFINE unlock == p2pUnlock(p, Asset, n)
<1>1. UNCHANGED offers /\ UNCHANGED orders
    BY DEF storeVars
<1>2. \A d \in Calls : HandlerKept(d) /\ IdKept(d)
    BY HandlersGoOn
<1>3. CASE UNCHANGED ledgerVars
    BY <1>1, <1>2, <1>3, UnchangedIsKept, StillKeeps
<1>4. ASSUME ~UNCHANGED ledgerVars PROVE EscrowInv'
    <2>1. UnlockKey(f) \in Keys /\ unlock \in Seq(Posting)
        BY KeysExist, P2PAssumption, MovesAreJournals
    <2>2. \A m \in Customers : Delta(unlock, p2pEscrow(m, Asset)) = IF p = m THEN -n ELSE 0
        BY EscrowDeltas
    <2>3. Post(UnlockKey(f), unlock)
        BY <1>4
    <2> HIDE DEF unlock
    <2>4. /\ ~Posted(UnlockKey(f)) /\ journal'[UnlockKey(f)] = unlock
          /\ \A j \in Keys \ {UnlockKey(f)} : journal'[j] = journal[j]
          /\ \A m \in Customers :
                balance'[p2pEscrow(m, Asset)]
                    = balance[p2pEscrow(m, Asset)] + Delta(unlock, p2pEscrow(m, Asset))
        BY <1>4, <2>1, <2>3, PostMovesEscrow
    <2>5. \A g \in Offers \ {f} : OfferStays(g) /\ OfferKept(g) /\ LockKept(g) /\ UnlockKept(g)
        <3>1. \A g \in Offers \ {f} : UnlockKey(g) # UnlockKey(f) /\ LockKey(g) # UnlockKey(f)
            BY KeysExist DEF UnlockKey
        <3>2. \A g \in Offers \ {f} : OfferStays(g)
            BY <1>1, <2>4, <3>1, KeysExist DEF OfferStays
        <3> QED
            BY <1>1, <3>2, UnchangedIsKept DEF OfferStays
    <2>6. OfferKept(f) /\ LockKept(f)
        <3>1. journal'[LockKey(f)] = journal[LockKey(f)]
            BY <2>4, KeysExist
        <3> QED
            BY <1>1, <3>1, UnchangedIsKept
    <2>7. /\ \A o \in Orders : OrderKept(o)
          /\ \A o \in Orders : OrderStays(o)
        <3>1. \A o \in Orders : OrderKept(o)
            BY <1>1, UnchangedIsKept
        <3> QED
            BY <2>4, <3>1, KeysExist, KeptOrdersStay DEF OrderStays
    <2>8. \A m \in Customers :
              /\ Returned(m, f) = 0
              /\ (Returned(m, f))' = IF p = m THEN n ELSE 0
        <3>1. \A m \in Customers : Returned(m, f) = -0
            BY <2>4, NoJournalMoves DEF Returned
        <3>2. \A m \in Customers : (Returned(m, f))' = -(IF p = m THEN -n ELSE 0)
            BY <2>2, <2>4 DEF Returned, UnlockKey
        <3> QED
            BY <3>1, <3>2
    <2>9. HandlersTrue'
        <3>1. \A g \in Offers : OfferKept(g)
            BY <2>5, <2>6
        <3>2. \A o \in Orders : CancelKept(o)
            BY <2>7, KeptOrdersStay
        <3>3. ASSUME NEW d \in Calls \ {c}
              PROVE  \A s \in CallState : calls'[d] = s => (HandlerTrue(s))'
            <4>1. calls'[d] = calls[d]
                BY DEF Returns, IInv, TypeOK
            <4> QED
                BY <2>5, <2>6, <3>1, <3>2, <4>1, OthersStayTrue
        <3>4. ASSUME NEW s \in CallState, calls'[c] = s PROVE (HandlerTrue(s))'
            <4>1. s = Idle
                BY <3>4 DEF Returns, IInv, TypeOK
            <4> QED
                BY <4>1 DEF HandlerTrue, Idle
        <3> QED
            BY <3>3, <3>4, HandlersAreTrue
    <2>10. OneOwner'
        BY <1>2, OwnersStay DEF EscrowInv
    <2>11. MerchantsMatch'
        BY <2>5, <2>6, <2>7, KeptOrdersStay, SellersStay
    <2>12. ASSUME NEW g \in Offers PROVE (BooksTrue(g))'
        <3>1. CASE offers[f] = NoOffer /\ g = f
            BY <1>1, <2>6, <2>8, <3>1 DEF BooksTrue, LockKept
        <3>2. CASE offers[f] # NoOffer /\ g = f
            BY <1>1, <2>8, <3>2 DEF BooksTrue, EscrowInv
        <3>3. CASE g # f
            BY <2>5, <3>3, BooksStay DEF EscrowInv
        <3> QED
            BY <3>1, <3>2, <3>3
    <2>13. ASSUME NEW m \in Customers PROVE (Backed(m))'
        <3> DEFINE d == IF p = m THEN -n ELSE 0
        <3>1. /\ d \in Int /\ Held(m, f) \in Int /\ Locked(m, f) \in Int
              /\ balance[p2pEscrow(m, Asset)] \in Int
            BY AmountsAre DEF AmountsAreInts, AmountsOf
        <3>2. (Held(m, f))' = Held(m, f) + d
            <4>1. offers[f] # NoOffer => offers[f].remaining \in Nat
                BY OfferRows DEF IInv, Offer
            <4> QED
                BY <1>1, <2>6, <2>8, <3>1, <4>1 DEF Held, LockKept
        <3>3. balance'[p2pEscrow(m, Asset)] = balance[p2pEscrow(m, Asset)] + d
            BY <2>2, <2>4
        <3> HIDE DEF d
        <3>4. Raises(HeldBy(m), HeldBy(m)', Offers, d)
            BY <2>5, <3>1, <3>2, OffersRaise
        <3>5. Raises(DueTo(m), DueTo(m)', Orders, 0)
            BY <2>7, OrdersRaiseNothing
        <3>6. balance'[p2pEscrow(m, Asset)] = balance[p2pEscrow(m, Asset)] + d + 0
            BY <3>1, <3>3
        <3>7. Backed(m) /\ 0 \in Int
            BY DEF EscrowInv
        <3> QED
            BY <3>1, <3>4, <3>5, <3>6, <3>7, BalanceStep
    <2> QED
        BY <2>9, <2>10, <2>11, <2>12, <2>13 DEF EscrowInv
<1> QED
    BY <1>3, <1>4


\* createOffer's compensation and closeOffer's unlock are such unlocks.
LEMMA UnlocksKeep ==
    ASSUME IInv, IInv', EscrowInv, NEW c \in Calls,
           CreateOfferCompensate(c) \/ CloseOfferUnlock(c)
    PROVE  EscrowInv'
<1>1. Returns(c) /\ UNCHANGED storeVars
    BY DEF CreateOfferCompensate, CloseOfferUnlock, storeVars
<1>2. HandlerTrue(calls[c])
    BY DEF EscrowInv, HandlersTrue
<1>3. CASE CreateOfferCompensate(c)
    <2>1. calls[c].op = "createOffer" /\ calls[c].pc = "compensate"
        BY <1>3 DEF CreateOfferCompensate, At
    <2> PICK f \in Offers, p \in Customers, n \in Nat :
              f = calls[c].offer /\ p = calls[c].merchant /\ n = calls[c].amount
        BY <2>1, CallFields DEF IInv
    <2>2. Post(UnlockKey(f), p2pUnlock(p, Asset, n)) \/ UNCHANGED ledgerVars
        BY <1>3 DEF CreateOfferCompensate, Refuse
    <2>3. /\ \A m \in Customers : Locked(m, f) = IF p = m THEN n ELSE 0
          /\ offers[f] # NoOffer => Ackless /\ offers[f].merchant = p /\ offers[f].total = n
        BY <1>2, <2>1 DEF HandlerTrue, CreateTrue
    <2>4. \A d \in Calls \ {c} :
              calls[d].op = "createOffer" /\ calls[d].offer = f => calls[d].pc # "insert"
        BY <2>1 DEF EscrowInv, OneOwner
    <2> QED
        BY <1>1, <2>2, <2>3, <2>4, UnlockKeeps
<1>4. CASE CloseOfferUnlock(c)
    <2>1. calls[c].op = "closeOffer" /\ calls[c].pc = "unlock"
        BY <1>4 DEF CloseOfferUnlock, At
    <2> PICK f \in Offers, n \in Nat : f = calls[c].offer /\ n = calls[c].amount
        BY <2>1, CallFields DEF IInv
    <2>2. offers[f] # NoOffer /\ offers[f].status = "closed" /\ n <= offers[f].remaining
        BY <1>2, <2>1 DEF IInv, RowsExist, HandlerTrue, CloseTrue
    <2> PICK p \in Customers : p = offers[f].merchant
        BY <2>2, OfferRows DEF IInv, Offer
    <2>3. Post(UnlockKey(f), p2pUnlock(p, Asset, n)) \/ UNCHANGED ledgerVars
        BY <1>4 DEF CloseOfferUnlock, Refuse
    <2>4. \A d \in Calls \ {c} :
              calls[d].op = "createOffer" /\ calls[d].offer = f => calls[d].pc # "insert"
        BY <2>2 DEF EscrowInv, HandlersTrue, HandlerTrue, CreateTrue
    <2> QED
        BY <1>1, <2>2, <2>3, <2>4, UnlockKeeps
<1> QED
    BY <1>3, <1>4

\* closeOffer's flip: the handler remembers what the offer had left.
LEMMA FlipKeeps ==
    ASSUME IInv, IInv', EscrowInv, NEW c \in Calls, CloseOfferFlip(c)
    PROVE  EscrowInv'
<1>1. calls[c].op = "closeOffer"
    BY DEF CloseOfferFlip, At
<1> PICK f \in Offers : f = calls[c].offer
    BY <1>1, CallFields DEF IInv
<1>2. UNCHANGED orders /\ UNCHANGED ledgerVars /\ UNCHANGED journal /\ UNCHANGED balance
    BY DEF CloseOfferFlip, ledgerVars
<1>3. CASE UNCHANGED offers /\ Returns(c)
    BY <1>2, <1>3, HandlersGoOn, UnchangedIsKept, StillKeeps
<1>4. ASSUME offers[f].status = "active",
             offers' = [offers EXCEPT ![f].status = "closed"],
             \/ Returns(c)
             \/ calls' = [calls EXCEPT ![c].pc = "unlock", ![c].amount = offers[f].remaining]
      PROVE  EscrowInv'
    <2>1. offers[f] \in Offer /\ offers[f] # NoOffer
        BY <1>1, OfferRows DEF IInv, RowsExist
    <2>2. /\ offers'[f] = [offers[f] EXCEPT !.status = "closed"]
          /\ \A g \in Offers \ {f} : offers'[g] = offers[g]
        BY <1>4 DEF IInv, TypeOK
    <2>3. /\ offers'[f].status = "closed" /\ offers'[f].remaining = offers[f].remaining
          /\ offers'[f].merchant = offers[f].merchant /\ offers'[f].total = offers[f].total
          /\ offers'[f] # NoOffer /\ offers[f].remaining \in Nat
        BY <2>1, <2>2 DEF Offer, NoOffer
    <2>4. /\ \A g \in Offers : OfferKept(g) /\ LockKept(g) /\ UnlockKept(g)
          /\ \A g \in Offers \ {f} : OfferStays(g)
        <3>1. OfferKept(f)
            BY <1>4, <2>1, <2>3 DEF OfferKept
        <3>2. \A g \in Offers \ {f} : offers[g] # NoOffer => offers[g].remaining \in Nat
            BY OfferRows DEF IInv, Offer
        <3>3. \A g \in Offers \ {f} : OfferKept(g)
            BY <2>2, <3>2 DEF OfferKept
        <3> QED
            BY <1>2, <2>2, <3>1, <3>3, UnchangedIsKept DEF OfferStays
    <2>5. \A o \in Orders : OrderKept(o)
        BY <1>2, UnchangedIsKept
    <2>6. \A d \in Calls : HandlerKept(d) /\ IdKept(d)
        <3>1. CASE Returns(c)
            BY <3>1, HandlersGoOn
        <3>2. CASE calls' = [calls EXCEPT ![c].pc = "unlock",
                                          ![c].amount = offers[f].remaining]
            <4>1. /\ calls'[c] = [[calls[c] EXCEPT !.pc = "unlock"]
                                      EXCEPT !.amount = offers[f].remaining]
                  /\ \A d \in Calls \ {c} : calls'[d] = calls[d]
                BY <3>2 DEF IInv, TypeOK
            <4>2. calls[c] \in [op : {"closeOffer"}, pc : {"check", "flip", "unlock"},
                                offer : Offers, amount : Nat]
                BY <1>1, CallFields DEF IInv
            <4>3. /\ calls'[c].op = "closeOffer" /\ calls'[c].offer = f
                  /\ calls'[c].amount = offers[f].remaining
                BY <4>1, <4>2
            <4>4. ASSUME NEW s \in CallState, calls'[c] = s PROVE (HandlerTrue(s))'
                <5>1. s.op = "closeOffer" /\ s.offer = f /\ s.amount = offers[f].remaining
                    BY <4>3, <4>4
                <5> QED
                    BY <2>3, <5>1 DEF HandlerTrue, CloseTrue
            <4> QED
                BY <4>1, <4>3, <4>4 DEF HandlerKept, IdKept
        <3> QED
            BY <1>4, <3>1, <3>2
    <2>7. HandlersTrue' /\ OneOwner' /\ \A g \in Offers : (BooksTrue(g))'
        BY <2>4, <2>5, <2>6, KeptOrdersStay, RowsKeepBooks
    <2>8. MerchantsMatch'
        BY <2>4, <2>5, KeptOrdersStay, SellersStay
    <2>9. ASSUME NEW m \in Customers PROVE (Backed(m))'
        <3>1. Held(m, f) \in Int /\ balance[p2pEscrow(m, Asset)] \in Int
            BY AmountsAre DEF AmountsAreInts, AmountsOf
        <3>2. (Held(m, f))' = Held(m, f)
            BY <2>1, <2>3, <2>4 DEF Held, UnlockKept
        <3>3. (Held(m, f))' = Held(m, f) + 0 /\ 0 \in Int /\ Backed(m)
            BY <3>1, <3>2 DEF EscrowInv
        <3>4. \A o \in Orders : OrderStays(o)
            BY <1>2, <2>5, KeptOrdersStay DEF OrderStays
        <3>5. Raises(HeldBy(m), HeldBy(m)', Offers, 0)
            BY <2>4, <3>3, OffersRaise
        <3>6. Raises(DueTo(m), DueTo(m)', Orders, 0)
            BY <3>4, OrdersRaiseNothing
        <3>7. balance'[p2pEscrow(m, Asset)] = balance[p2pEscrow(m, Asset)] + 0 + 0
            BY <1>2, <3>1
        <3> QED
            BY <3>3, <3>5, <3>6, <3>7, BalanceStep
    <2> QED
        BY <2>7, <2>8, <2>9 DEF EscrowInv
<1> QED
    BY <1>3, <1>4 DEF CloseOfferFlip

LEMMA StepsKeepEscrowInv ==
    ASSUME IInv, QuoteInv, EscrowInv, [Next]_vars
    PROVE  EscrowInv'
<1>1. IInv'
    BY NextKeepsIInv
<1>2. ASSUME NEW c \in Calls, CallStarts(c) PROVE EscrowInv'
    <2>1. ASSUME NEW f \in Offers, NEW p \in Customers, NEW n \in Sizes,
                 CreateOfferLock(c, f, p, n)
          PROVE  EscrowInv'
        BY <1>1, <2>1, LockKeeps
    <2>2. ASSUME NEW f \in Offers, NEW o \in Orders, NEW p \in Customers, NEW n \in Sizes,
                 OpenOrder(c, f, o, p, n)
          PROVE  EscrowInv'
        BY <1>1, <2>2, StillSteps
    <2>3. ASSUME NEW f \in Offers, CloseOffer(c, f) PROVE EscrowInv'
        BY <1>1, <2>3, StillSteps
    <2>4. ASSUME NEW o \in Orders,
                 \/ ReleaseOrder(c, o) \/ AdminRelease(c, o)
                 \/ CancelOrder(c, o) \/ AdminCancel(c, o)
          PROVE  EscrowInv'
        BY <1>1, <2>4, StillSteps
    <2> QED
        BY <1>2, <2>1, <2>2, <2>3, <2>4 DEF CallStarts
<1>3. ASSUME NEW c \in Calls, CallProceeds(c), Next PROVE EscrowInv'
    BY <1>1, <1>3, InsertKeeps, UnlocksKeep, FlipKeeps, StillSteps, OpenKeeps,
       ClaimsAndRevertsKeep, PayoutKeeps, CancelsKeep DEF CallProceeds
<1>4. ASSUME NEW c \in Calls, CallFails(c) PROVE EscrowInv'
    BY <1>1, <1>4, StillSteps
<1>5. ASSUME NEW o \in Orders, SubmitPayment(o) \/ DisputeOrder(o) \/ PayWindowEnds(o)
      PROVE  EscrowInv'
    BY <1>1, <1>5, StatusStepsKeep
<1>6. CASE \E o \in Orders : SweepCancel(o)
    BY <1>1, <1>6, CancelsKeep
<1>7. CASE \/ UNCHANGED vars \/ SweepList \/ Crash
           \/ \E bps \in CommissionRates : SetCommissionBps(bps)
    BY <1>1, <1>7, OtherStepsKeep
<1> QED
    BY <1>2, <1>3, <1>4, <1>5, <1>6, <1>7 DEF Next

\* Nothing is kept or due yet, and no escrow is overdrawn.
LEMMA InitIsEscrowInv ==
    ASSUME Init
    PROVE  EscrowInv
<1>1. HandlersTrue /\ OneOwner /\ MerchantsMatch
    BY DEF Init, HandlersTrue, HandlerTrue, OneOwner, MerchantsMatch, Idle
<1>2. \A k \in Keys : ~Posted(k)
    BY DEF Init, Posted
<1>3. \A m \in Customers :
          /\ \A f \in Offers : Locked(m, f) = 0 /\ Returned(m, f) = -0
          /\ \A o \in Orders : PaidOut(m, o) = -0
    BY <1>2, KeysExist, NoJournalMoves DEF Locked, Returned, PaidOut
<1>4. \A f \in Offers : BooksTrue(f)
    BY <1>3 DEF Init, BooksTrue
<1>5. ASSUME NEW m \in Customers PROVE Backed(m)
    <2>1. \A f \in Offers : HeldBy(m)[f] = 0
        BY <1>3 DEF Init, HeldBy, Held
    <2>2. \A o \in Orders : DueTo(m)[o] = 0
        BY <1>3 DEF Init, DueTo, Due, Owed
    <2>3. SumFunctionOnSet(HeldBy(m), Offers) = 0
        BY <2>1, EscrowAssumption, SumZero
    <2>4. SumFunctionOnSet(DueTo(m), Orders) = 0
        BY <2>2, EscrowAssumption, SumZero
    <2>5. SumFunction(HeldBy(m)) = 0 /\ SumFunction(DueTo(m)) = 0
        BY <2>3, <2>4 DEF SumFunction, HeldBy, DueTo
    <2>6. balance[p2pEscrow(m, Asset)] >= 0
        BY EscrowAssumption DEF Init
    <2> QED
        BY <2>5, <2>6 DEF Backed
<1> QED
    BY <1>1, <1>4, <1>5 DEF EscrowInv

(* What the escrow covers *)

\* What an offer lists is what it keeps and what it got back twice.
LEMMA ListedIsHeld ==
    ASSUME IInv, EscrowInv, NEW m \in Customers, NEW f \in Offers
    PROVE  /\ Held(m, f) \in Int /\ ReturnedTwice(m, f) \in Int /\ ListedBy(m, f) \in Int
           /\ ListedBy(m, f) <= Held(m, f) + ReturnedTwice(m, f)
<1>1. Held(m, f) \in Int /\ Returned(m, f) \in Int /\ Locked(m, f) \in Int
    BY AmountsAre DEF AmountsAreInts, AmountsOf
<1>2. BooksTrue(f)
    BY DEF EscrowInv
<1>3. ReturnedTwice(m, f) =
          IF Ackless /\ offers[f] # NoOffer /\ Returned(m, f) = offers[f].total
          THEN Returned(m, f) - (IF offers[f].status = "closed" THEN offers[f].remaining ELSE 0)
          ELSE 0
    BY DEF ReturnedTwice, Returned
<1>4. CASE offers[f] = NoOffer
    BY <1>1, <1>2, <1>3, <1>4 DEF BooksTrue, Held, ListedBy, NoOffer
<1>5. CASE offers[f] # NoOffer
    <2>1. /\ offers[f].remaining \in Nat /\ offers[f].total \in Nat
          /\ offers[f].status \in {"active", "closed"}
        BY <1>5, OfferRows DEF IInv, Offer
    <2> QED
        BY <1>1, <1>2, <1>3, <1>5, <2>1 DEF BooksTrue, Held, ListedBy
<1> QED
    BY <1>4, <1>5

\* What an unpaid order asks for is what it is due and what it got back though paid.
LEMMA UnpaidIsDue ==
    ASSUME IInv, QuoteInv, ~Ackless => ReleaseIsFinal, NEW m \in Customers, NEW o \in Orders
    PROVE  /\ Due(m, o) \in Int /\ PaidAndReturned(m, o) \in Int /\ UnpaidFrom(m, o) \in Int
           /\ UnpaidFrom(m, o) <= Due(m, o) + PaidAndReturned(m, o)
<1>1. Due(m, o) \in Int /\ PaidOut(m, o) \in Int
    BY AmountsAre DEF AmountsAreInts, AmountsOf
<1>2. orders[o] # NoOrder => orders[o] \in Order /\ orders[o].amount \in Nat
    BY OrderRows DEF IInv, Order
<1>3. CASE ~Posted(ReleaseKey(o))
    <2>1. PaidOut(m, o) = -0
        BY <1>3, NoJournalMoves DEF PaidOut
    <2> QED
        BY <1>1, <1>2, <1>3, <2>1 DEF Due, Owed, PaidAndReturned, UnpaidFrom
<1>4. CASE Posted(ReleaseKey(o))
    <2>1. /\ orders[o] # NoOrder
          /\ orders[o].amount > 0 /\ FeeInRange(orders[o].commission, orders[o].amount)
          /\ journal[ReleaseKey(o)] = ReleaseOf(orders[o])
        BY <1>4 DEF QuoteInv, PaidAsQuoted
    <2> PICK p \in Customers, b \in Customers, n \in Int, fee \in Int :
              /\ p = orders[o].merchant /\ b = orders[o].buyer
              /\ n = orders[o].amount /\ fee = orders[o].commission
        BY <1>2, <2>1 DEF Order
    <2>2. Delta(p2pRelease(p, b, Asset, n, fee), p2pEscrow(m, Asset)) = IF p = m THEN -n ELSE 0
        BY <2>1, EscrowDeltas
    <2>3. PaidOut(m, o) = IF p = m THEN n ELSE 0
        <3>1. PaidOut(m, o) = -(IF p = m THEN -n ELSE 0)
            BY <2>1, <2>2 DEF PaidOut, ReleaseOf
        <3> QED
            BY <3>1
    <2>4. ~Ackless => orders[o].status # "cancelled"
        BY <1>4 DEF ReleaseIsFinal
    <2> QED
        BY <1>1, <1>2, <1>4, <2>1, <2>3, <2>4 DEF Due, Owed, PaidAndReturned, UnpaidFrom
<1> QED
    BY <1>3, <1>4

\* A sum that another one covers with an excuse for each row.
LEMMA ExcusedSum ==
    ASSUME NEW S, IsFiniteSet(S), NEW kept, NEW excused, NEW asked,
           \A x \in S : /\ kept[x] \in Int /\ excused[x] \in Int /\ asked[x] \in Int
                        /\ asked[x] <= kept[x] + excused[x]
    PROVE  /\ SumFunctionOnSet(kept, S) \in Int /\ SumFunctionOnSet(excused, S) \in Int
           /\ SumFunctionOnSet(asked, S) \in Int
           /\ SumFunctionOnSet(asked, S)
                  <= SumFunctionOnSet(kept, S) + SumFunctionOnSet(excused, S)
<1> DEFINE both == [x \in S |-> kept[x] + excused[x]]
<1>1. \A x \in S : both[x] \in Int /\ both[x] = kept[x] + excused[x]
    OBVIOUS
<1> HIDE DEF both
<1>2. SumFunctionOnSet(both, S) = SumFunctionOnSet(kept, S) + SumFunctionOnSet(excused, S)
    BY <1>1, SumPlus
<1>3. SumFunctionOnSet(asked, S) <= SumFunctionOnSet(both, S)
    BY <1>1, SumLeq
<1> QED
    BY <1>2, <1>3, SumInt

LEMMA BackedIsEnough ==
    ASSUME IInv, QuoteInv, EscrowInv, ~Ackless => ReleaseIsFinal
    PROVE  EscrowLacksOnlyReturns
<1> SUFFICES ASSUME NEW m \in Customers
             PROVE  balance[p2pEscrow(m, Asset)]
                        + SumFunction([f \in Offers |-> ReturnedTwice(m, f)])
                        + SumFunction([o \in Orders |-> PaidAndReturned(m, o)])
                      >= SumFunction([f \in Offers |-> ListedBy(m, f)])
                        + SumFunction([o \in Orders |-> UnpaidFrom(m, o)])
    BY DEF EscrowLacksOnlyReturns
<1> DEFINE kept == HeldBy(m)
           twice == [f \in Offers |-> ReturnedTwice(m, f)]
           listed == [f \in Offers |-> ListedBy(m, f)]
           due == DueTo(m)
           paid == [o \in Orders |-> PaidAndReturned(m, o)]
           unpaid == [o \in Orders |-> UnpaidFrom(m, o)]
<1>1. \A f \in Offers : /\ kept[f] \in Int /\ twice[f] \in Int /\ listed[f] \in Int
                        /\ listed[f] <= kept[f] + twice[f]
    BY ListedIsHeld DEF HeldBy
<1>2. \A o \in Orders : /\ due[o] \in Int /\ paid[o] \in Int /\ unpaid[o] \in Int
                        /\ unpaid[o] <= due[o] + paid[o]
    BY UnpaidIsDue DEF DueTo
<1>3. /\ SumFunction(kept) = SumFunctionOnSet(kept, Offers)
      /\ SumFunction(twice) = SumFunctionOnSet(twice, Offers)
      /\ SumFunction(listed) = SumFunctionOnSet(listed, Offers)
      /\ SumFunction(due) = SumFunctionOnSet(due, Orders)
      /\ SumFunction(paid) = SumFunctionOnSet(paid, Orders)
      /\ SumFunction(unpaid) = SumFunctionOnSet(unpaid, Orders)
    BY DEF SumFunction, HeldBy, DueTo
<1>4. balance[p2pEscrow(m, Asset)] >= SumFunction(kept) + SumFunction(due)
    BY DEF EscrowInv, Backed
<1>5. balance[p2pEscrow(m, Asset)] \in Int
    BY AmountsAre DEF AmountsAreInts, AmountsOf
<1> HIDE DEF kept, twice, listed, due, paid, unpaid
<1>6. /\ SumFunctionOnSet(kept, Offers) \in Int /\ SumFunctionOnSet(twice, Offers) \in Int
      /\ SumFunctionOnSet(listed, Offers) \in Int
      /\ SumFunctionOnSet(listed, Offers)
             <= SumFunctionOnSet(kept, Offers) + SumFunctionOnSet(twice, Offers)
    BY <1>1, EscrowAssumption, ExcusedSum
<1>7. /\ SumFunctionOnSet(due, Orders) \in Int /\ SumFunctionOnSet(paid, Orders) \in Int
      /\ SumFunctionOnSet(unpaid, Orders) \in Int
      /\ SumFunctionOnSet(unpaid, Orders)
             <= SumFunctionOnSet(due, Orders) + SumFunctionOnSet(paid, Orders)
    BY <1>2, EscrowAssumption, ExcusedSum
<1>8. balance[p2pEscrow(m, Asset)] + SumFunction(twice) + SumFunction(paid)
          >= SumFunction(listed) + SumFunction(unpaid)
    BY <1>3, <1>4, <1>5, <1>6, <1>7
<1> QED
    BY <1>8 DEF twice, listed, paid, unpaid

\* No fault makes a seller's escrow lack more of the listed offers and the unpaid orders
\* than createOffer's compensation gave back of an offer that buyers see, and a cancel of
\* an order that was paid, whatever handlers, sweeps, refusals, restarts and lost
\* acknowledgements interleave.
THEOREM EscrowLacksNothingElse == Spec => []EscrowLacksOnlyReturns
<1>1. Init => QuoteInv /\ EscrowInv
    BY KeysExist, InitIsEscrowInv
       DEF Init, QuoteInv, InsertsAreFresh, PaidAsQuoted, Idle, Posted
<1>2. IInv /\ QuoteInv /\ [Next]_vars => QuoteInv'
    BY StepsKeepQuoteInv
<1>3. IInv /\ QuoteInv /\ EscrowInv /\ [Next]_vars => EscrowInv'
    BY StepsKeepEscrowInv
<1>4. CASE Ackless
    <2>1. IInv /\ QuoteInv /\ EscrowInv => EscrowLacksOnlyReturns
        BY <1>4, BackedIsEnough
    <2> QED
        BY <1>1, <1>2, <1>3, <2>1, RowsExistAndAreLocked, PTL DEF Spec
<1>5. CASE NoLostAck
    <2>1. IInv /\ QuoteInv /\ EscrowInv /\ ReleaseIsFinal => EscrowLacksOnlyReturns
        BY BackedIsEnough
    <2> QED
        BY <1>1, <1>2, <1>3, <1>5, <2>1, RowsExistAndAreLocked, ReleasesAreFinal, PTL DEF Spec
<1> QED
    BY <1>4, <1>5 DEF NoLostAck, Ackless

\* While no acknowledgement is lost, nothing is given back twice.
LEMMA NothingIsExcused ==
    ASSUME IInv, NoLostAck, ReleaseIsFinal, EscrowLacksOnlyReturns
    PROVE  EscrowCoversReservations
<1> SUFFICES ASSUME NEW m \in Customers
             PROVE  balance[p2pEscrow(m, Asset)] >=
                        SumFunction([f \in Offers |-> ListedBy(m, f)])
                        + SumFunction([o \in Orders |-> ReservedFrom(m, o)])
    BY DEF EscrowCoversReservations
<1> DEFINE twice == [f \in Offers |-> ReturnedTwice(m, f)]
           listed == [f \in Offers |-> ListedBy(m, f)]
           paid == [o \in Orders |-> PaidAndReturned(m, o)]
           unpaid == [o \in Orders |-> UnpaidFrom(m, o)]
           reserved == [o \in Orders |-> ReservedFrom(m, o)]
<1>1. ~Ackless
    BY DEF NoLostAck, Ackless
<1>2. /\ \A f \in Offers : twice[f] = 0
      /\ \A o \in Orders : paid[o] = 0
    BY <1>1 DEF ReturnedTwice, PaidAndReturned
<1>3. \A o \in Orders : reserved[o] = unpaid[o]
    <2> SUFFICES ASSUME NEW o \in Orders PROVE ReservedFrom(m, o) = UnpaidFrom(m, o)
        OBVIOUS
    <2>1. orders[o] # NoOrder => orders[o].status \in OrderStatus
        BY OrderRows DEF IInv, Order
    <2>2. Posted(ReleaseKey(o)) => orders[o].status = "released"
        BY DEF ReleaseIsFinal
    <2> QED
        BY <2>1, <2>2 DEF ReservedFrom, Reserved, ACTIVE_ORDER, UnpaidFrom, NoOrder, OrderStatus
<1>4. reserved = unpaid
    BY <1>3
<1>5. SumFunction(twice) = 0 /\ SumFunction(paid) = 0
    <2>1. SumFunctionOnSet(twice, Offers) = 0 /\ SumFunctionOnSet(paid, Orders) = 0
        <3> HIDE DEF twice, paid
        <3> QED
            BY <1>2, EscrowAssumption, SumZero
    <2> QED
        BY <2>1 DEF SumFunction
<1>6. balance[p2pEscrow(m, Asset)] + SumFunction(twice) + SumFunction(paid)
          >= SumFunction(listed) + SumFunction(unpaid)
    BY DEF EscrowLacksOnlyReturns
<1>7. balance[p2pEscrow(m, Asset)] \in Int
    BY AmountsAre DEF AmountsAreInts, AmountsOf
<1> HIDE DEF twice, listed, paid, unpaid, reserved
<1>8. balance[p2pEscrow(m, Asset)] >= SumFunction(listed) + SumFunction(reserved)
    BY <1>4, <1>5, <1>6, <1>7
<1> QED
    BY <1>8 DEF listed, reserved

\* While no acknowledgement is lost, a seller's escrow always holds what the seller's
\* offers list and their orders reserve, whatever handlers, sweeps, refusals and
\* restarts interleave: a release never finds less than its order's amount there.
THEOREM EscrowIsCovered == NoLostAck /\ Spec => []EscrowCoversReservations
<1>1. NoLostAck /\ IInv /\ ReleaseIsFinal /\ EscrowLacksOnlyReturns => EscrowCoversReservations
    BY NothingIsExcused
<1>2. CASE NoLostAck
    BY <1>1, <1>2, RowsExistAndAreLocked, ReleasesAreFinal, EscrowLacksNothingElse, PTL
<1> QED
    BY <1>2
=============================================================================
