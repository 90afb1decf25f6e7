-------------------------- MODULE SendMoneyProofs --------------------------
(***************************************************************************)
(* Theorems about SendMoney, for every registry, table of rates, set of    *)
(* environments and bound.                                                 *)
(*                                                                         *)
(* TypedInv says what the inputs, the requests and the rows are, and that  *)
(* keys are minted without a gap; PressInv what the remembered press and   *)
(* the repeated keys stand for; BookInv what a request that has reached    *)
(* its transfer knows of it; PriceInv that all prices read under one       *)
(* timestamp were read from one row; RoundInv that no pricing pays out more *)
(* than it costs.  What rounding does to an amount is proved of every      *)
(* amount and rate first, from what the powers of ten are.                 *)
(***************************************************************************)
EXTENDS SendMoney, FiniteSetTheorems, TLAPS

-----------------------------------------------------------------------------
(* The inductive invariants *)

\* A press is a record of these fields.
IsPress(p) ==
    p = [pc |-> p.pc, content |-> p.content, key |-> p.key, visit |-> p.visit,
         shown |-> p.shown, priced |-> p.priced]

PressesTyped ==
    /\ \E S : presses \in Seq(S)
    /\ \A i \in DOMAIN presses :
          /\ IsPress(presses[i])
          /\ presses[i].pc \in PressStates /\ presses[i].content \in Form
          /\ presses[i].key \in 1..i /\ presses[i].visit \in 1..visit
    /\ Len(presses) <= MaxPresses

\* The keys that are in use are the first ones; the remembered one is among them.
KeysAreDense ==
    \E n \in 0..Len(presses) :
        {presses[i].key : i \in DOMAIN presses} = 1..n /\ idem.key \in 0..n

IsRow(t) ==
    t = [content |-> t.content, quote |-> t.quote, asOf |-> t.asOf, by |-> t.by,
         status |-> t.status, payout |-> t.payout]

\* A row is what one press with its key asked for.
RowsTyped ==
    /\ transfers = [k \in DOMAIN transfers |-> transfers[k]]
    /\ \A k \in DOMAIN transfers :
          /\ IsRow(transfers[k])
          /\ transfers[k].by \in DOMAIN presses
          /\ presses[transfers[k].by].key = k
          /\ transfers[k].content = presses[transfers[k].by].content

FormTyped ==
    /\ form \in Form /\ idem \in [sig : Form, key : 0..Len(presses)]
    /\ settled \in [amount : env.amounts \cup {NotDecimal},
                    recipient : Recipients \cup {NoRecipient}]
    /\ quotes = [a \in DOMAIN quotes |-> quotes[a]]
    /\ DOMAIN quotes \subseteq env.amounts /\ lookups \subseteq Recipients
    /\ screen \in {"form", "pending", "sent"} /\ visit \in 1..MaxVisits

RatesTyped == rates \in [DOMAIN rates -> RateRecord]

CustomerTyped ==
    /\ customer \in Customer \cup {Unregistered} /\ review \in Reviews
    /\ syncs \in [Syncs -> SyncStates]

TypedInv ==
    /\ env \in Environments
    /\ FormTyped /\ PressesTyped /\ KeysAreDense /\ RowsTyped /\ RatesTyped
    /\ CustomerTyped

-----------------------------------------------------------------------------
(* Sequences and tables *)

LEMMA PressAppended ==
    ASSUME \E S : presses \in Seq(S), NEW p, presses' = Append(presses, p)
    PROVE  /\ \E S : presses' \in Seq(S)
           /\ Len(presses) \in Nat /\ Len(presses') = Len(presses) + 1
           /\ DOMAIN presses = 1..Len(presses) /\ DOMAIN presses' = 1..(Len(presses) + 1)
           /\ \A i \in DOMAIN presses : presses'[i] = presses[i]
           /\ presses'[Len(presses) + 1] = p
<1> PICK S : presses \in Seq(S)
    OBVIOUS
<1>1. presses \in Seq(S \cup {p})
    OBVIOUS
<1>2. presses' \in Seq(S \cup {p})
    BY <1>1
<1> QED
    BY <1>1, <1>2

LEMMA PressReplaced ==
    ASSUME \E S : presses \in Seq(S), NEW i \in DOMAIN presses, NEW p,
           presses' = [presses EXCEPT ![i] = p]
    PROVE  /\ \E S : presses' \in Seq(S)
           /\ Len(presses') = Len(presses) /\ DOMAIN presses' = DOMAIN presses
           /\ presses'[i] = p /\ \A j \in DOMAIN presses \ {i} : presses'[j] = presses[j]
<1> PICK S : presses \in Seq(S)
    OBVIOUS
<1>1. presses \in Seq(S \cup {p})
    OBVIOUS
<1>2. presses' \in Seq(S \cup {p})
    BY <1>1
<1> QED
    BY <1>1, <1>2

LEMMA PressesLength ==
    ASSUME \E S : presses \in Seq(S)
    PROVE  Len(presses) \in Nat /\ DOMAIN presses = 1..Len(presses)
OBVIOUS

-----------------------------------------------------------------------------
(* What a step may do to the presses, to the rows and to the ref *)

\* Everything about the presses but their progress and their price is kept.
PressesKeep ==
    /\ \E S : presses' \in Seq(S)
    /\ Len(presses') = Len(presses) /\ DOMAIN presses' = DOMAIN presses
    /\ \A i \in DOMAIN presses :
          /\ IsPress(presses'[i]) /\ presses'[i].pc \in PressStates
          /\ presses'[i].content = presses[i].content /\ presses'[i].key = presses[i].key
          /\ presses'[i].visit = presses[i].visit /\ presses'[i].shown = presses[i].shown

\* One request moves; its price may be set.
Moves(i, pc, priced) ==
    presses' = [presses EXCEPT ![i] = [pc |-> pc, content |-> presses[i].content,
                                       key |-> presses[i].key, visit |-> presses[i].visit,
                                       shown |-> presses[i].shown, priced |-> priced]]

LEMMA UnchangedKeeps ==
    ASSUME PressesTyped, presses' = presses
    PROVE  PressesKeep
BY DEF PressesTyped, PressesKeep

LEMMA MovesKeeps ==
    ASSUME PressesTyped, NEW i \in DOMAIN presses, NEW pc \in PressStates, NEW priced,
           Moves(i, pc, priced)
    PROVE  /\ PressesKeep
           /\ presses'[i].pc = pc /\ presses'[i].priced = priced
           /\ \A j \in DOMAIN presses \ {i} : presses'[j] = presses[j]
<1> DEFINE p == [pc |-> pc, content |-> presses[i].content,
                 key |-> presses[i].key, visit |-> presses[i].visit,
                 shown |-> presses[i].shown, priced |-> priced]
<1>1. presses' = [presses EXCEPT ![i] = p]
    BY DEF Moves
<1>2. \E S : presses \in Seq(S)
    BY DEF PressesTyped
<1>3. IsPress(p) /\ p.pc = pc /\ p.priced = priced /\ p.content = presses[i].content
      /\ p.key = presses[i].key /\ p.visit = presses[i].visit /\ p.shown = presses[i].shown
    BY DEF IsPress
<1> HIDE DEF p
<1>4. /\ \E S : presses' \in Seq(S)
      /\ Len(presses') = Len(presses) /\ DOMAIN presses' = DOMAIN presses
      /\ presses'[i] = p /\ \A j \in DOMAIN presses \ {i} : presses'[j] = presses[j]
    BY <1>1, <1>2, PressReplaced
<1>5. ASSUME NEW j \in DOMAIN presses
      PROVE  /\ IsPress(presses'[j]) /\ presses'[j].pc \in PressStates
             /\ presses'[j].content = presses[j].content /\ presses'[j].key = presses[j].key
             /\ presses'[j].visit = presses[j].visit /\ presses'[j].shown = presses[j].shown
    <2>1. CASE j = i
        BY <2>1, <1>3, <1>4
    <2>2. CASE j # i
        BY <2>2, <1>4 DEF PressesTyped
    <2> QED
        BY <2>1, <2>2
<1>6. PressesKeep
    BY <1>4, <1>5 DEF PressesKeep
<1> QED
    BY <1>6, <1>4, <1>3

LEMMA PressUpdated ==
    ASSUME NEW p, IsPress(p), NEW pc, NEW priced
    PROVE  [[p EXCEPT !.pc = pc] EXCEPT !.priced = priced]
           = [pc |-> pc, content |-> p.content, key |-> p.key, visit |-> p.visit,
              shown |-> p.shown, priced |-> priced]
<1> DEFINE q == [p EXCEPT !.pc = pc]
<1>1. q = [pc |-> pc, content |-> p.content, key |-> p.key, visit |-> p.visit,
           shown |-> p.shown, priced |-> p.priced]
    BY DEF IsPress
<1>2. /\ q.pc = pc /\ q.content = p.content /\ q.key = p.key /\ q.visit = p.visit
      /\ q.shown = p.shown /\ q.priced = p.priced
    BY <1>1
<1> HIDE DEF q
<1>3. [q EXCEPT !.priced = priced]
      = [pc |-> q.pc, content |-> q.content, key |-> q.key, visit |-> q.visit,
         shown |-> q.shown, priced |-> priced]
    BY <1>1
<1>4. [q EXCEPT !.priced = priced]
      = [pc |-> pc, content |-> p.content, key |-> p.key, visit |-> p.visit,
         shown |-> p.shown, priced |-> priced]
    BY <1>2, <1>3
<1> QED
    BY <1>4 DEF q

\* The price of a request, and the request, that get the quote of their row.
Rebooked(r, quote_, asOf) == [[r EXCEPT !.quote = quote_] EXCEPT !.asOf = asOf]

Repriced(p, pc, quote_, asOf) ==
    [[[p EXCEPT !.pc = pc] EXCEPT !.priced.quote = quote_] EXCEPT !.priced.asOf = asOf]

LEMMA PriceUpdated ==
    ASSUME NEW p, IsPress(p), NEW pc, NEW quote_, NEW asOf
    PROVE  Repriced(p, pc, quote_, asOf)
           = [pc |-> pc, content |-> p.content, key |-> p.key, visit |-> p.visit,
              shown |-> p.shown,
              priced |-> Rebooked(p.priced, quote_, asOf)]
<1> DEFINE q == [p EXCEPT !.pc = pc]
           n == [p.priced EXCEPT !.quote = quote_]
           m == [n EXCEPT !.asOf = asOf]
           r == [q EXCEPT !.priced.quote = quote_]
<1>1. q = [pc |-> pc, content |-> p.content, key |-> p.key, visit |-> p.visit,
           shown |-> p.shown, priced |-> p.priced]
    BY DEF IsPress
<1>2. n = [q.priced EXCEPT !.quote = quote_]
    BY <1>1
<1> HIDE DEF q, n
<1>3. r = [pc |-> pc, content |-> p.content, key |-> p.key, visit |-> p.visit,
           shown |-> p.shown, priced |-> n]
    BY <1>1, <1>2
<1> HIDE DEF r
<1>4. m = [r.priced EXCEPT !.asOf = asOf]
    BY <1>3
<1> HIDE DEF m
<1>5. [r EXCEPT !.priced.asOf = asOf]
      = [pc |-> pc, content |-> p.content, key |-> p.key, visit |-> p.visit,
         shown |-> p.shown, priced |-> m]
    BY <1>3, <1>4
<1> QED
    BY <1>5 DEF q, n, m, r, Repriced, Rebooked

LEMMA PricedUpdated ==
    ASSUME NEW r, r = [quote |-> r.quote, asOf |-> r.asOf], NEW quote_, NEW asOf
    PROVE  Rebooked(r, quote_, asOf) = [quote |-> quote_, asOf |-> asOf]
<1> DEFINE p == [r EXCEPT !.quote = quote_]
<1>1. p = [quote |-> quote_, asOf |-> r.asOf]
    OBVIOUS
<1> HIDE DEF p
<1>2. [p EXCEPT !.asOf = asOf] = [quote |-> quote_, asOf |-> asOf]
    BY <1>1
<1> QED
    BY <1>2 DEF p, Rebooked

\* GoesTo moves a request and leaves its price.
LEMMA GoesToMoves ==
    ASSUME PressesTyped, NEW i \in DOMAIN presses, NEW pc \in PressStates, GoesTo(i, pc)
    PROVE  Moves(i, pc, presses[i].priced)
<1>1. IsPress(presses[i])
    BY DEF PressesTyped
<1>2. [presses[i] EXCEPT !.pc = pc]
      = [pc |-> pc, content |-> presses[i].content,
         key |-> presses[i].key, visit |-> presses[i].visit,
         shown |-> presses[i].shown, priced |-> presses[i].priced]
    BY <1>1 DEF IsPress
<1>3. presses' = [presses EXCEPT ![i] = [presses[i] EXCEPT !.pc = pc]]
    BY DEF GoesTo
<1> QED
    BY <1>2, <1>3 DEF Moves

\* What Price books a request at.
PricedNow(i) ==
    LET p == priceTransfer(rates, env.from, To, sendMinorOf(i))
    IN [quote |-> quoteTransfer(env.from, To, sendMinorOf(i), p.platformFeeMinor, p.rate),
        asOf |-> p.asOf]

\* The checks before the price.
LEMMA ChecksMove ==
    ASSUME PressesTyped, NEW i \in DOMAIN presses,
           RequireCustomer(i) \/ AssertClear(i) \/ AssertWithinLimit(i)
    PROVE  /\ transfers' = transfers
           /\ \E pc \in {"screening", "limit", "price", "refused"} :
                 Moves(i, pc, presses[i].priced)
<1>1. transfers' = transfers
    BY DEF RequireCustomer, AssertClear, AssertWithinLimit
<1>2. \E pc \in {"screening", "limit", "price", "refused"} : GoesTo(i, pc)
    BY DEF RequireCustomer, AssertClear, AssertWithinLimit, Refuses
<1>3. {"screening", "limit", "price", "refused"} \subseteq PressStates
    BY DEF PressStates
<1> QED
    BY <1>1, <1>2, <1>3, GoesToMoves

LEMMA PriceMoves ==
    ASSUME PressesTyped, NEW i \in DOMAIN presses, Price(i)
    PROVE  transfers' = transfers /\ Moves(i, "create", PricedNow(i))
<1>1. IsPress(presses[i])
    BY DEF PressesTyped
<1> DEFINE n == PricedNow(i)
<1>2. presses' = [presses EXCEPT ![i].pc = "create", ![i].priced = n]
    BY DEF Price, PricedNow
<1> HIDE DEF n
<1>7. presses = [j \in DOMAIN presses |-> presses[j]]
    BY DEF PressesTyped
<1>3. presses' = [presses EXCEPT ![i] = [[presses[i] EXCEPT !.pc = "create"] EXCEPT !.priced = n]]
    BY <1>2, <1>7
<1>4. [[presses[i] EXCEPT !.pc = "create"] EXCEPT !.priced = n]
      = [pc |-> "create", content |-> presses[i].content,
         key |-> presses[i].key, visit |-> presses[i].visit,
         shown |-> presses[i].shown, priced |-> n]
    BY <1>1, PressUpdated
<1>5. Moves(i, "create", n)
    BY <1>3, <1>4 DEF Moves
<1>6. transfers' = transfers
    BY DEF Price
<1> QED
    BY <1>5, <1>6 DEF n

LEMMA CreateMoves ==
    ASSUME PressesTyped, NEW i \in DOMAIN presses, CreateTransfer(i)
    PROVE  \/ transfers' = transfers /\ Moves(i, "refused", presses[i].priced)
           \/ /\ transfers' = transfers /\ presses[i].key \in DOMAIN transfers
              /\ Moves(i, "run", presses[i].priced)
           \/ /\ presses[i].key \notin DOMAIN transfers
              /\ transfers' = Put(transfers, presses[i].key,
                         [content |-> presses[i].content, quote |-> presses[i].priced.quote,
                          asOf |-> presses[i].priced.asOf, by |-> i,
                          status |-> "pending", payout |-> <<>>])
              /\ Moves(i, "run", presses[i].priced)
<1>1. {"run", "refused"} \subseteq PressStates
    BY DEF PressStates
<1>2. CASE presses[i].priced.quote.receiveMinor = 0
    BY <1>2, <1>1, GoesToMoves DEF CreateTransfer, Refuses
<1>3. CASE presses[i].priced.quote.receiveMinor # 0
    <2>1. GoesTo(i, "run")
        BY <1>3 DEF CreateTransfer
    <2>2. Moves(i, "run", presses[i].priced)
        BY <2>1, <1>1, GoesToMoves
    <2> QED
        BY <1>3, <2>2 DEF CreateTransfer, correlationId
<1> QED
    BY <1>2, <1>3

LEMMA RunMoves ==
    ASSUME PressesTyped, NEW i \in DOMAIN presses, RunTransfer(i)
    PROVE  \/ /\ Runs(presses[i].key)
              /\ \E priced :
                    /\ presses[i].priced = [quote |-> presses[i].priced.quote,
                                            asOf |-> presses[i].priced.asOf]
                       => priced = [quote |-> transfers[presses[i].key].quote,
                                    asOf |-> transfers[presses[i].key].asOf]
                    /\ Moves(i, "answered", priced)
           \/ transfers' = transfers /\ Moves(i, "refused", presses[i].priced)
<1> DEFINE k == presses[i].key
           t == transfers[presses[i].key]
<1>1. CASE /\ Runs(k)
           /\ presses' = [presses EXCEPT ![i].pc = "answered", ![i].priced.quote = t.quote,
                                         ![i].priced.asOf = t.asOf]
    <2>1. IsPress(presses[i])
        BY DEF PressesTyped
    <2> DEFINE p == presses[i]
               n == Rebooked(p.priced, t.quote, t.asOf)
               moved == Repriced(p, "answered", t.quote, t.asOf)
    <2>6. presses = [j \in DOMAIN presses |-> presses[j]]
        BY DEF PressesTyped
    <2>2. presses' = [presses EXCEPT ![i] = moved]
        BY <1>1, <2>6 DEF Repriced
    <2>3. moved = [pc |-> "answered", content |-> p.content, key |-> p.key,
                   visit |-> p.visit, shown |-> p.shown, priced |-> n]
        BY <2>1, PriceUpdated
    <2> HIDE DEF moved
    <2>4. Moves(i, "answered", n)
        BY <2>2, <2>3 DEF Moves
    <2>5. ASSUME presses[i].priced = [quote |-> presses[i].priced.quote,
                                      asOf |-> presses[i].priced.asOf]
          PROVE  n = [quote |-> t.quote, asOf |-> t.asOf]
        BY <2>5, PricedUpdated
    <2> QED
        BY <1>1, <2>4, <2>5
<1>2. CASE Refuses(i) /\ UNCHANGED transfers
    <2>1. "refused" \in PressStates
        BY DEF PressStates
    <2> QED
        BY <1>2, <2>1, GoesToMoves DEF Refuses
<1> QED
    BY <1>1, <1>2 DEF RunTransfer, correlationId

\* Every handler moves its request.
LEMMA ServerMoves ==
    ASSUME PressesTyped, NEW i \in DOMAIN presses, Server(i)
    PROVE  \E pc \in PressStates : \E priced : Moves(i, pc, priced)
<1>1. {"screening", "limit", "price", "create", "run", "answered", "refused"}
         \subseteq PressStates
    BY DEF PressStates
<1>2. CASE RequireCustomer(i) \/ AssertClear(i) \/ AssertWithinLimit(i)
    BY <1>2, <1>1, ChecksMove
<1>3. CASE Price(i)
    BY <1>3, <1>1, PriceMoves
<1>4. CASE CreateTransfer(i)
    BY <1>4, <1>1, CreateMoves
<1>5. CASE RunTransfer(i)
    BY <1>5, <1>1, RunMoves
<1> QED
    BY <1>2, <1>3, <1>4, <1>5 DEF Server

\* Every row stays, with what it was booked for; a completed one is kept whole.
RowsKeep ==
    /\ transfers' = [k \in DOMAIN transfers |-> transfers'[k]]
    /\ \A k \in DOMAIN transfers :
          /\ IsRow(transfers'[k])
          /\ transfers'[k].content = transfers[k].content
          /\ transfers'[k].quote = transfers[k].quote
          /\ transfers'[k].asOf = transfers[k].asOf /\ transfers'[k].by = transfers[k].by
          /\ transfers[k].status = "completed" => transfers'[k] = transfers[k]

LEMMA UnchangedRows ==
    ASSUME RowsTyped, transfers' = transfers
    PROVE  RowsKeep
BY DEF RowsTyped, RowsKeep

\* A row that is completed, and the payout it gets.
Completed(t, payout) == [[t EXCEPT !.status = "completed"] EXCEPT !.payout = payout]

LEMMA RowUpdated ==
    ASSUME NEW t, IsRow(t), NEW payout
    PROVE  Completed(t, payout)
           = [content |-> t.content, quote |-> t.quote, asOf |-> t.asOf, by |-> t.by,
              status |-> "completed", payout |-> payout]
<1> DEFINE q == [t EXCEPT !.status = "completed"]
<1>1. q = [content |-> t.content, quote |-> t.quote, asOf |-> t.asOf, by |-> t.by,
           status |-> "completed", payout |-> t.payout]
    BY DEF IsRow
<1> HIDE DEF q
<1>2. [q EXCEPT !.payout = payout]
      = [content |-> t.content, quote |-> t.quote, asOf |-> t.asOf, by |-> t.by,
         status |-> "completed", payout |-> payout]
    BY <1>1
<1> QED
    BY <1>2 DEF q, Completed

\* The provider's fee of a payout that is created now.
PayoutNow(k) ==
    [providerFeeMinor |-> resolveProviderFee(rates, env.from, To, transfers[k].quote.receiveMinor),
     asOf |-> quote(rates, env.from, To).asOf]

LEMMA RunsKeeps ==
    ASSUME RowsTyped, NEW k, Runs(k)
    PROVE  /\ RowsKeep
           /\ \A j \in DOMAIN transfers \ {k} : transfers'[j] = transfers[j]
           /\ k \in DOMAIN transfers /\ transfers[k].status # "completed"
                 => transfers'[k].status = "completed" /\ transfers'[k].payout = PayoutNow(k)
           /\ k \in DOMAIN transfers => transfers'[k].status = "completed"
<1>1. CASE transfers' = transfers
    <2>1. k \in DOMAIN transfers => transfers[k].status = "completed"
        <3>1. SUFFICES ASSUME k \in DOMAIN transfers, transfers[k].status # "completed"
                       PROVE  FALSE
            OBVIOUS
        <3> DEFINE t == transfers[k]
        <3>2. IsRow(t) /\ transfers = [j \in DOMAIN transfers |-> transfers[j]]
            BY <3>1 DEF RowsTyped
        <3>3. transfers' = [transfers EXCEPT ![k] = Completed(t, PayoutNow(k))]
            BY <3>1, <3>2 DEF Runs, Completed, PayoutNow
        <3>4. transfers'[k].status = "completed"
            BY <3>1, <3>2, <3>3, RowUpdated
        <3> QED
            BY <1>1, <3>1, <3>4
    <2> QED
        BY <1>1, <2>1, UnchangedRows
<1>2. CASE transfers' # transfers
    <2> DEFINE t == transfers[k]
               c == Completed(t, PayoutNow(k))
    <2>1. transfers = [j \in DOMAIN transfers |-> transfers[j]]
        BY DEF RowsTyped
    <2>2. transfers[k].status # "completed" /\ transfers' = [transfers EXCEPT ![k] = c]
        BY <1>2, <2>1 DEF Runs, Completed, PayoutNow
    <2> HIDE DEF c
    <2>3. k \in DOMAIN transfers
        BY <1>2, <2>1, <2>2
    <2>4. /\ c = [content |-> t.content, quote |-> t.quote, asOf |-> t.asOf, by |-> t.by,
                  status |-> "completed", payout |-> PayoutNow(k)]
        BY <2>3, RowUpdated DEF c, RowsTyped
    <2>5. /\ transfers' = [j \in DOMAIN transfers |-> transfers'[j]]
          /\ transfers'[k] = c
          /\ \A j \in DOMAIN transfers \ {k} : transfers'[j] = transfers[j]
        BY <2>1, <2>2, <2>3
    <2>6. /\ IsRow(c) /\ c.content = t.content /\ c.quote = t.quote /\ c.asOf = t.asOf
          /\ c.by = t.by /\ c.status = "completed" /\ c.payout = PayoutNow(k)
        BY <2>4 DEF IsRow
    <2>7. ASSUME NEW j \in DOMAIN transfers
          PROVE  /\ IsRow(transfers'[j])
                 /\ transfers'[j].content = transfers[j].content
                 /\ transfers'[j].quote = transfers[j].quote
                 /\ transfers'[j].asOf = transfers[j].asOf /\ transfers'[j].by = transfers[j].by
                 /\ transfers[j].status = "completed" => transfers'[j] = transfers[j]
        <3>1. CASE j = k
            BY <3>1, <2>2, <2>5, <2>6
        <3>2. CASE j # k
            BY <3>2, <2>5 DEF RowsTyped
        <3> QED
            BY <3>1, <3>2
    <2>8. RowsKeep
        BY <2>5, <2>7 DEF RowsKeep
    <2> QED
        BY <2>8, <2>5, <2>6
<1> QED
    BY <1>1, <1>2

\* A row is added under a key that has none.
LEMMA RowAdded ==
    ASSUME RowsTyped, NEW k, k \notin DOMAIN transfers, NEW t,
           transfers' = Put(transfers, k, t)
    PROVE  /\ transfers' = [j \in DOMAIN transfers' |-> transfers'[j]]
           /\ DOMAIN transfers' = DOMAIN transfers \cup {k}
           /\ transfers'[k] = t /\ \A j \in DOMAIN transfers : transfers'[j] = transfers[j]
BY DEF RowsTyped, Put

\* What becomes of the rows: they are kept, or a request books one.
Books(i) ==
    /\ i \in DOMAIN presses /\ presses[i].pc = "create"
    /\ presses[i].key \notin DOMAIN transfers
    /\ presses[i].priced.quote.receiveMinor # 0
    /\ transfers' = Put(transfers, presses[i].key,
                        [content |-> presses[i].content, quote |-> presses[i].priced.quote,
                         asOf |-> presses[i].priced.asOf, by |-> i,
                         status |-> "pending", payout |-> <<>>])
    /\ Moves(i, "run", presses[i].priced)

LEMMA CreateBooks ==
    ASSUME TypedInv, NEW i \in DOMAIN presses, CreateTransfer(i)
    PROVE  \/ RowsKeep /\ transfers' = transfers
           \/ Books(i)
<1>1. PressesTyped /\ RowsTyped
    BY DEF TypedInv
<1>2. CASE presses[i].priced.quote.receiveMinor = 0
    BY <1>1, <1>2, UnchangedRows DEF CreateTransfer
<1>3. CASE presses[i].priced.quote.receiveMinor # 0 /\ presses[i].key \in DOMAIN transfers
    BY <1>1, <1>3, UnchangedRows DEF CreateTransfer, correlationId
<1>4. CASE presses[i].priced.quote.receiveMinor # 0 /\ presses[i].key \notin DOMAIN transfers
    <2>1. GoesTo(i, "run") /\ presses[i].pc = "create"
        BY <1>4 DEF CreateTransfer, At
    <2>2. Moves(i, "run", presses[i].priced)
        BY <1>1, <2>1, GoesToMoves DEF PressStates
    <2> QED
        BY <1>4, <2>1, <2>2 DEF CreateTransfer, correlationId, Books
<1> QED
    BY <1>2, <1>3, <1>4

LEMMA ServerRows ==
    ASSUME TypedInv, NEW i \in DOMAIN presses, Server(i)
    PROVE  RowsKeep \/ Books(i)
<1>1. PressesTyped /\ RowsTyped
    BY DEF TypedInv
<1>2. CASE RequireCustomer(i) \/ AssertClear(i) \/ AssertWithinLimit(i)
    BY <1>1, <1>2, ChecksMove, UnchangedRows
<1>3. CASE Price(i)
    BY <1>1, <1>3, PriceMoves, UnchangedRows
<1>4. CASE CreateTransfer(i)
    BY <1>4, CreateBooks
<1>5. CASE RunTransfer(i)
    BY <1>1, <1>5, RunMoves, RunsKeeps, UnchangedRows
<1> QED
    BY <1>2, <1>3, <1>4, <1>5 DEF Server

\* No request moves but those that are lost, and the rows are kept.
Quiet ==
    /\ PressesKeep /\ RowsKeep
    /\ \A i \in DOMAIN presses : presses'[i] = presses[i] \/ presses'[i].pc = "lost"

LEMMA LostKeeps ==
    ASSUME TypedInv, LoseAnswer
    PROVE  Quiet
<1>1. PressesTyped /\ RowsTyped /\ transfers' = transfers
    BY DEF TypedInv, LoseAnswer
<1>2. RowsKeep
    BY <1>1, UnchangedRows
<1>3. CASE presses' = presses
    BY <1>1, <1>2, <1>3, UnchangedKeeps DEF Quiet
<1> DEFINE n == Len(presses)
<1>4. CASE presses' = [presses EXCEPT ![n].pc = "lost"] /\ n \in DOMAIN presses
    <2>1. GoesTo(n, "lost")
        BY <1>4 DEF GoesTo
    <2>2. Moves(n, "lost", presses[n].priced)
        BY <1>1, <1>4, <2>1, GoesToMoves DEF PressStates
    <2> QED
        BY <1>1, <1>2, <1>4, <2>2, MovesKeeps DEF Quiet, PressStates
<1>5. CASE presses' = [presses EXCEPT ![n].pc = "lost"] /\ n \notin DOMAIN presses
    <2>1. presses = [j \in DOMAIN presses |-> presses[j]]
        BY <1>1 DEF PressesTyped
    <2>2. presses' = presses
        BY <2>1, <1>5
    <2> QED
        BY <1>3, <2>2
<1> QED
    BY <1>3, <1>4, <1>5 DEF LoseAnswer

LEMMA RestartKeeps ==
    ASSUME TypedInv, Restart
    PROVE  Quiet
<1>1. PressesTyped /\ RowsTyped /\ transfers' = transfers
    BY DEF TypedInv, Restart
<1>2. RowsKeep
    BY <1>1, UnchangedRows
<1> DEFINE lost(i) == [presses[i] EXCEPT !.pc = "lost"]
<1>3. ASSUME NEW i \in DOMAIN presses
      PROVE  lost(i) = [pc |-> "lost", content |-> presses[i].content,
                        key |-> presses[i].key, visit |-> presses[i].visit,
                        shown |-> presses[i].shown, priced |-> presses[i].priced]
    BY <1>1 DEF PressesTyped, IsPress
<1>4. presses' = [i \in DOMAIN presses |-> IF InFlight(i) THEN lost(i) ELSE presses[i]]
    BY DEF Restart
<1> HIDE DEF lost
<1> PICK S : presses \in Seq(S)
    BY <1>1 DEF PressesTyped
<1>5. Len(presses) \in Nat /\ DOMAIN presses = 1..Len(presses)
    OBVIOUS
<1> DEFINE T == {presses'[i] : i \in DOMAIN presses}
<1>6. presses' \in [1..Len(presses) -> T] /\ DOMAIN presses' = 1..Len(presses)
    BY <1>4, <1>5
<1> HIDE DEF T
<1>7. presses' \in Seq(T) /\ Len(presses') = Len(presses)
    BY <1>5, <1>6
<1>8. ASSUME NEW i \in DOMAIN presses
      PROVE  /\ IsPress(presses'[i]) /\ presses'[i].pc \in PressStates
             /\ presses'[i].content = presses[i].content /\ presses'[i].key = presses[i].key
             /\ presses'[i].visit = presses[i].visit /\ presses'[i].shown = presses[i].shown
             /\ presses'[i] = presses[i] \/ presses'[i].pc = "lost"
    <2>1. CASE InFlight(i)
        <3>1. presses'[i] = lost(i)
            BY <2>1, <1>4
        <3> QED
            BY <3>1, <1>3 DEF IsPress, PressStates
    <2>2. CASE ~InFlight(i)
        BY <2>2, <1>4, <1>1 DEF PressesTyped
    <2> QED
        BY <2>1, <2>2
<1>9. PressesKeep
    BY <1>5, <1>6, <1>7, <1>8 DEF PressesKeep
<1> QED
    BY <1>2, <1>8, <1>9 DEF Quiet

\* A step presses, is a handler's, or is quiet.
LEMMA Steps ==
    ASSUME TypedInv, [Next]_vars
    PROVE  \/ Press
           \/ \E i \in DOMAIN presses : Server(i)
           \/ Quiet
<1>1. PressesTyped /\ RowsTyped
    BY DEF TypedInv
<1>2. CASE presses' = presses /\ transfers' = transfers
    BY <1>1, <1>2, UnchangedKeeps, UnchangedRows DEF Quiet
<1>3. CASE Screen
    <2>1. CASE Edits \/ SettleAmount \/ SettleRecipient \/ Lookup \/ FetchQuote
        BY <2>1, <1>2 DEF Edits, Edit, SettleAmount, SettleRecipient, Lookup, FetchQuote
    <2>2. CASE Reopen \/ Reset
        BY <2>2, <1>2 DEF Reopen, Reset
    <2>3. CASE LoseAnswer
        BY <2>3, LostKeeps
    <2> QED
        BY <1>3, <2>1, <2>2, <2>3 DEF Screen
<1>4. CASE Restart
    BY <1>4, RestartKeeps
<1>5. CASE \E k \in DOMAIN transfers : Recover(k)
    <2>1. PICK k \in DOMAIN transfers : Recover(k)
        BY <1>5
    <2>2. Runs(k) /\ presses' = presses
        BY <2>1 DEF Recover
    <2> QED
        BY <1>1, <2>2, RunsKeeps, UnchangedKeeps DEF Quiet
<1>6. CASE \E change \in RateChanges : SetRate(change[1], change[2])
    BY <1>6, <1>2 DEF SetRate
<1>7. CASE Compliance
    BY <1>7, <1>2 DEF Compliance
<1>8. CASE UNCHANGED vars
    BY <1>8, <1>2 DEF vars
<1> QED
    BY <1>3, <1>4, <1>5, <1>6, <1>7, <1>8 DEF Next

\* The environment is never changed, and only the screen touches its ref.
LEMMA Fixed ==
    ASSUME [Next]_vars
    PROVE  /\ env' = env
           /\ Screen \/ UNCHANGED <<formVars, idem>>
<1>1. CASE Screen
    BY <1>1 DEF Screen, Edits, Edit, SettleAmount, SettleRecipient, Lookup, FetchQuote,
                Reopen, Reset, Press, LoseAnswer
<1>2. CASE \E i \in DOMAIN presses : Server(i)
    BY <1>2 DEF Server, RequireCustomer, AssertClear, AssertWithinLimit, Price, CreateTransfer,
                RunTransfer, serverSame
<1>3. CASE Restart \/ (\E k \in DOMAIN transfers : Recover(k))
    BY <1>3 DEF Restart, Recover, serverSame
<1>4. CASE (\E change \in RateChanges : SetRate(change[1], change[2])) \/ Compliance
    BY <1>4 DEF SetRate, Compliance, serverSame
<1>5. CASE UNCHANGED vars
    BY <1>5 DEF vars
<1> QED
    BY <1>1, <1>2, <1>3, <1>4, <1>5 DEF Next

-----------------------------------------------------------------------------
(* Everything stays what it is *)

\* The press that is added, and its key: the remembered one or a new one.
LEMMA PressAdds ==
    ASSUME TypedInv, Press
    PROVE  /\ \E S : presses' \in Seq(S)
           /\ Len(presses) \in Nat /\ Len(presses') = Len(presses) + 1
           /\ Len(presses') <= MaxPresses
           /\ DOMAIN presses = 1..Len(presses) /\ DOMAIN presses' = 1..(Len(presses) + 1)
           /\ \A i \in DOMAIN presses : presses'[i] = presses[i]
           /\ presses'[Len(presses) + 1]
              = [pc |-> "gate", content |-> form, key |-> idem'.key, visit |-> visit,
                 shown |-> quotes[form.amount], priced |-> <<>>]
           /\ idem' = [sig |-> form, key |-> idem'.key]
           /\ idem'.key = idemKeyFor(form)
<1> DEFINE k == idemKeyFor(form)
           p == [pc |-> "gate", content |-> form, key |-> k, visit |-> visit,
                 shown |-> quotes[form.amount], priced |-> <<>>]
<1>1. \E S : presses \in Seq(S)
    BY DEF TypedInv, PressesTyped
<1>2. idem' = [sig |-> form, key |-> k] /\ Len(presses) < MaxPresses
    BY DEF Press
<1> HIDE DEF k
<1>3. idem'.key = k
    BY <1>2
<1>4. presses' = Append(presses, p)
    BY <1>3 DEF Press
<1> HIDE DEF p
<1>5. /\ \E S : presses' \in Seq(S)
      /\ Len(presses) \in Nat /\ Len(presses') = Len(presses) + 1
      /\ DOMAIN presses = 1..Len(presses) /\ DOMAIN presses' = 1..(Len(presses) + 1)
      /\ \A i \in DOMAIN presses : presses'[i] = presses[i]
      /\ presses'[Len(presses) + 1] = p
    BY <1>1, <1>4, PressAppended
<1>6. Len(presses') <= MaxPresses
    BY <1>2, <1>5, SendMoneyAssumption
<1> QED
    BY <1>2, <1>3, <1>5, <1>6 DEF p, k

\* A new key is the next one.
LEMMA KeysAreNext ==
    ASSUME TypedInv, NEW n \in 0..Len(presses),
           {presses[i].key : i \in DOMAIN presses} = 1..n, idem.key \in 0..n
    PROVE  /\ NewKey = n + 1
           /\ idemKeyFor(form) = n + 1 \/ idemKeyFor(form) \in 1..n
<1>1. Len(presses) \in Nat
    BY PressesLength DEF TypedInv, PressesTyped
<1>2. Cardinality(1..n) = n
    <2>1. 1 \in Int /\ n \in Int /\ n >= 0
        BY <1>1
    <2>2. Cardinality(1..n) = IF 1 > n THEN 0 ELSE n - 1 + 1
        BY <2>1, FS_Interval
    <2> QED
        BY <2>1, <2>2
<1>3. NewKey = n + 1
    BY <1>2 DEF NewKey
<1> QED
    BY <1>1, <1>3 DEF idemKeyFor

LEMMA PressKeepsKeys ==
    ASSUME TypedInv, Press
    PROVE  KeysAreDense' /\ idem'.key \in 1..Len(presses')
<1> DEFINE N == Len(presses)
           keys == {presses[i].key : i \in DOMAIN presses}
           k == idem'.key
<1>1. PICK n \in 0..N : keys = 1..n /\ idem.key \in 0..n
    BY DEF TypedInv, KeysAreDense
<1>2. /\ N \in Nat /\ Len(presses') = N + 1
      /\ DOMAIN presses = 1..N /\ DOMAIN presses' = 1..(N + 1)
      /\ \A i \in DOMAIN presses : presses'[i] = presses[i]
      /\ presses'[N + 1].key = k
      /\ k = idemKeyFor(form)
    BY PressAdds
<1>3. k = n + 1 \/ k \in 1..n
    BY <1>1, <1>2, KeysAreNext
<1>4. {presses'[i].key : i \in DOMAIN presses'} = keys \cup {k}
    <2>1. ASSUME NEW i \in DOMAIN presses'
          PROVE  presses'[i].key \in keys \cup {k}
        BY <1>2
    <2>2. ASSUME NEW i \in DOMAIN presses
          PROVE  i \in DOMAIN presses' /\ presses'[i].key = presses[i].key
        BY <1>2
    <2>3. N + 1 \in DOMAIN presses'
        BY <1>2
    <2> QED
        BY <1>2, <2>1, <2>2, <2>3
<1> HIDE DEF keys
<1>5. CASE k = n + 1
    <2>1. keys \cup {k} = 1..(n + 1) /\ n + 1 \in 0..(N + 1)
        BY <1>1, <1>2, <1>5
    <2> QED
        BY <1>2, <1>4, <1>5, <2>1 DEF KeysAreDense
<1>6. CASE k \in 1..n
    <2>1. keys \cup {k} = 1..n /\ n \in 0..(N + 1)
        BY <1>1, <1>2, <1>6
    <2> QED
        BY <1>2, <1>4, <1>6, <2>1 DEF KeysAreDense
<1> QED
    BY <1>3, <1>5, <1>6

\* Visits are counted, and a new one forgets the ref.
LEMMA VisitsCount ==
    ASSUME TypedInv, [Next]_vars
    PROVE  \/ Press /\ visit' = visit
           \/ visit' = visit /\ idem' = idem
           \/ visit' = visit + 1 /\ idem' = NoIdem /\ presses' = presses
<1>1. CASE Screen
    BY <1>1 DEF Screen, Edits, Edit, SettleAmount, SettleRecipient, Lookup, FetchQuote,
                Reopen, Reset, Press, LoseAnswer, formVars
<1> QED
    BY <1>1, Fixed DEF formVars

LEMMA KeepKeys ==
    ASSUME TypedInv, PressesKeep, idem' = idem \/ idem' = NoIdem
    PROVE  KeysAreDense'
<1>1. PICK n \in 0..Len(presses) :
         {presses[i].key : i \in DOMAIN presses} = 1..n /\ idem.key \in 0..n
    BY DEF TypedInv, KeysAreDense
<1>2. {presses'[i].key : i \in DOMAIN presses'} = {presses[i].key : i \in DOMAIN presses}
    BY DEF PressesKeep
<1>3. Len(presses') = Len(presses) /\ Len(presses) \in Nat
    BY PressesLength DEF PressesKeep, TypedInv, PressesTyped
<1>4. idem'.key \in 0..n
    BY <1>1, <1>3 DEF NoIdem
<1> QED
    BY <1>1, <1>2, <1>3, <1>4 DEF KeysAreDense

LEMMA KeysStayDense ==
    ASSUME TypedInv, [Next]_vars
    PROVE  KeysAreDense'
<1>1. CASE Press
    BY <1>1, PressKeepsKeys
<1>2. CASE ~Press
    <2>1. PressesKeep
        BY <1>2, Steps, ServerMoves, MovesKeeps DEF Quiet, TypedInv
    <2>2. idem' = idem \/ idem' = NoIdem
        BY <1>2, VisitsCount
    <2> QED
        BY <2>1, <2>2, KeepKeys
<1> QED
    BY <1>1, <1>2

LEMMA PressesStayTyped ==
    ASSUME TypedInv, [Next]_vars
    PROVE  PressesTyped'
<1>1. visit \in 1..MaxVisits /\ visit' \in {visit, visit + 1}
    BY VisitsCount DEF TypedInv, FormTyped
<1>2. visit \in Nat /\ visit' \in Nat /\ visit <= visit'
    BY <1>1
<1>3. env' = env /\ Form' = Form
    BY Fixed DEF Form
<1>4. CASE Press
    <2>1. idem'.key \in 1..Len(presses')
        BY <1>4, PressKeepsKeys
    <2> DEFINE N == Len(presses)
               p == presses'[N + 1]
    <2>2. p = [pc |-> "gate", content |-> form, key |-> idem'.key, visit |-> visit,
               shown |-> quotes[form.amount], priced |-> <<>>]
        BY <1>4, PressAdds
    <2>3. /\ IsPress(p) /\ p.pc = "gate" /\ p.content = form /\ p.key = idem'.key
          /\ p.visit = visit
        BY <2>2 DEF IsPress
    <2> HIDE DEF p
    <2>4. /\ \E S : presses' \in Seq(S)
          /\ N \in Nat /\ Len(presses') = N + 1 /\ Len(presses') <= MaxPresses
          /\ DOMAIN presses = 1..N /\ DOMAIN presses' = 1..(N + 1)
          /\ \A i \in DOMAIN presses : presses'[i] = presses[i]
        BY <1>4, PressAdds
    <2>5. ASSUME NEW i \in DOMAIN presses'
          PROVE  /\ IsPress(presses'[i])
                 /\ presses'[i].pc \in PressStates /\ presses'[i].content \in Form'
                 /\ presses'[i].key \in 1..i /\ presses'[i].visit \in 1..visit'
        <3>1. CASE i = N + 1
            <4>1. form \in Form /\ p.pc \in PressStates
                BY <2>3 DEF TypedInv, FormTyped, PressStates
            <4> QED
                BY <3>1, <4>1, <2>1, <2>3, <2>4, <1>1, <1>2, <1>3 DEF p
        <3>2. CASE i \in DOMAIN presses
            <4>1. /\ IsPress(presses[i])
                  /\ presses[i].pc \in PressStates /\ presses[i].content \in Form
                  /\ presses[i].key \in 1..i /\ presses[i].visit \in 1..visit
                BY <3>2 DEF TypedInv, PressesTyped
            <4> QED
                BY <3>2, <4>1, <2>4, <1>2, <1>3
        <3> QED
            BY <3>1, <3>2, <2>4
    <2> QED
        BY <2>4, <2>5 DEF PressesTyped
<1>5. CASE ~Press
    <2>1. PressesKeep
        BY <1>5, Steps, ServerMoves, MovesKeeps DEF Quiet, TypedInv
    <2>2. ASSUME NEW i \in DOMAIN presses
          PROVE  /\ IsPress(presses'[i])
                 /\ presses'[i].pc \in PressStates /\ presses'[i].content \in Form'
                 /\ presses'[i].key \in 1..i /\ presses'[i].visit \in 1..visit'
        <3>1. /\ presses[i].content \in Form
              /\ presses[i].key \in 1..i /\ presses[i].visit \in 1..visit
            BY DEF TypedInv, PressesTyped
        <3> QED
            BY <3>1, <2>1, <1>2, <1>3 DEF PressesKeep
    <2>3. Len(presses) <= MaxPresses
        BY DEF TypedInv, PressesTyped
    <2> QED
        BY <2>1, <2>2, <2>3 DEF PressesTyped, PressesKeep
<1> QED
    BY <1>4, <1>5

\* A press that is there stays, with its content and its key.
LEMMA PressesStay ==
    ASSUME TypedInv, [Next]_vars, NEW i \in DOMAIN presses
    PROVE  /\ i \in DOMAIN presses'
           /\ presses'[i].content = presses[i].content /\ presses'[i].key = presses[i].key
           /\ presses'[i].visit = presses[i].visit /\ presses'[i].shown = presses[i].shown
<1>1. CASE Press
    <2>1. /\ Len(presses) \in Nat /\ DOMAIN presses = 1..Len(presses)
          /\ DOMAIN presses' = 1..(Len(presses) + 1) /\ presses'[i] = presses[i]
        BY <1>1, PressAdds
    <2> QED
        BY <2>1
<1>2. CASE ~Press
    <2>1. PressesKeep
        BY <1>2, Steps, ServerMoves, MovesKeeps DEF Quiet, TypedInv
    <2> QED
        BY <2>1 DEF PressesKeep
<1> QED
    BY <1>1, <1>2

\* What the rows become.
LEMMA RowsStay ==
    ASSUME TypedInv, [Next]_vars
    PROVE  RowsKeep \/ \E i \in DOMAIN presses : Books(i)
<1>1. CASE Press
    <2>1. transfers' = transfers
        BY <1>1 DEF Press
    <2> QED
        BY <2>1, UnchangedRows DEF TypedInv
<1> QED
    BY <1>1, Steps, ServerRows DEF Quiet

\* What a request books.
LEMMA BooksOne ==
    ASSUME TypedInv, NEW i, Books(i)
    PROVE  LET t == transfers'[presses[i].key]
           IN /\ i \in DOMAIN presses /\ presses[i].key \notin DOMAIN transfers
              /\ transfers' = [j \in DOMAIN transfers' |-> transfers'[j]]
              /\ DOMAIN transfers' = DOMAIN transfers \cup {presses[i].key}
              /\ \A j \in DOMAIN transfers : transfers'[j] = transfers[j]
              /\ IsRow(t) /\ t.content = presses[i].content
              /\ t.quote = presses[i].priced.quote /\ t.asOf = presses[i].priced.asOf
              /\ t.by = i /\ t.status = "pending" /\ t.payout = <<>>
<1> DEFINE r == [content |-> presses[i].content, quote |-> presses[i].priced.quote,
                 asOf |-> presses[i].priced.asOf, by |-> i,
                 status |-> "pending", payout |-> <<>>]
<1>1. /\ IsRow(r) /\ r.content = presses[i].content
      /\ r.quote = presses[i].priced.quote /\ r.asOf = presses[i].priced.asOf
      /\ r.by = i /\ r.status = "pending" /\ r.payout = <<>>
    BY DEF IsRow
<1>2. /\ i \in DOMAIN presses /\ presses[i].key \notin DOMAIN transfers
      /\ transfers' = Put(transfers, presses[i].key, r)
    BY DEF Books
<1> HIDE DEF r
<1>3. RowsTyped
    BY DEF TypedInv
<1>4. /\ transfers' = [j \in DOMAIN transfers' |-> transfers'[j]]
      /\ DOMAIN transfers' = DOMAIN transfers \cup {presses[i].key}
      /\ transfers'[presses[i].key] = r
      /\ \A j \in DOMAIN transfers : transfers'[j] = transfers[j]
    BY <1>2, <1>3, RowAdded
<1> QED
    BY <1>1, <1>2, <1>4

LEMMA RowsStayTyped ==
    ASSUME TypedInv, [Next]_vars
    PROVE  RowsTyped'
<1>1. CASE RowsKeep
    <2>1. DOMAIN transfers' = DOMAIN transfers
        BY <1>1 DEF RowsKeep
    <2>2. ASSUME NEW k \in DOMAIN transfers
          PROVE  /\ IsRow(transfers'[k])
                 /\ transfers'[k].by \in DOMAIN presses'
                 /\ presses'[transfers'[k].by].key = k
                 /\ transfers'[k].content = presses'[transfers'[k].by].content
        <3>1. /\ transfers[k].by \in DOMAIN presses
              /\ presses[transfers[k].by].key = k
              /\ transfers[k].content = presses[transfers[k].by].content
            BY DEF TypedInv, RowsTyped
        <3>2. /\ IsRow(transfers'[k]) /\ transfers'[k].by = transfers[k].by
              /\ transfers'[k].content = transfers[k].content
            BY <1>1 DEF RowsKeep
        <3> QED
            BY <3>1, <3>2, PressesStay
    <2> QED
        BY <1>1, <2>1, <2>2 DEF RowsTyped, RowsKeep
<1>2. ASSUME NEW i \in DOMAIN presses, Books(i)
      PROVE  RowsTyped'
    <2> DEFINE key == presses[i].key
    <2>3. /\ DOMAIN transfers' = DOMAIN transfers \cup {key}
          /\ \A j \in DOMAIN transfers : transfers'[j] = transfers[j]
        BY <1>2, BooksOne
    <2>4. /\ IsRow(transfers'[key]) /\ transfers'[key].by = i
          /\ transfers'[key].content = presses[i].content
        BY <1>2, BooksOne
    <2>5. /\ i \in DOMAIN presses' /\ presses'[i].key = key
          /\ presses'[i].content = presses[i].content
        BY <1>2, PressesStay
    <2> HIDE DEF key
    <2>1. ASSUME NEW k \in DOMAIN transfers'
          PROVE  /\ IsRow(transfers'[k])
                 /\ transfers'[k].by \in DOMAIN presses'
                 /\ presses'[transfers'[k].by].key = k
                 /\ transfers'[k].content = presses'[transfers'[k].by].content
        <3>1. CASE k = key
            BY <3>1, <2>4, <2>5
        <3>2. CASE k \in DOMAIN transfers
            <4>1. /\ transfers[k].by \in DOMAIN presses
                  /\ presses[transfers[k].by].key = k /\ IsRow(transfers[k])
                  /\ transfers[k].content = presses[transfers[k].by].content
                BY <3>2 DEF TypedInv, RowsTyped
            <4>2. transfers'[k] = transfers[k]
                BY <2>3, <3>2
            <4> QED
                BY <4>1, <4>2, PressesStay
        <3> QED
            BY <2>3, <3>1, <3>2
    <2>2. transfers' = [j \in DOMAIN transfers' |-> transfers'[j]]
        BY <1>2, BooksOne
    <2> QED
        BY <2>1, <2>2 DEF RowsTyped
<1> QED
    BY <1>1, <1>2, RowsStay

LEMMA BlankIsAForm ==
    Blank \in Form /\ Unsettled \in [amount : env.amounts \cup {NotDecimal},
                                     recipient : Recipients \cup {NoRecipient}]
BY DEF Blank, Unsettled, Form

\* A resolved name is a registered one.
LEMMA AutofillTyped ==
    ASSUME form \in Form, NEW r, NEW found \in SUBSET Recipients, Autofill(r, found)
    PROVE  form' \in Form
<1>1. CASE form' = form
    BY <1>1
<1>2. CASE form' = [form EXCEPT !.name = Registered[r]] /\ r \in found
    <2>1. Registered[r] \in Range(Registered)
        BY <1>2 DEF Range, Recipients
    <2> QED
        BY <1>2, <2>1 DEF Form
<1> QED
    BY <1>1, <1>2 DEF Autofill, resolvedName

FormPart ==
    /\ form' \in Form
    /\ settled' \in [amount : env.amounts \cup {NotDecimal},
                     recipient : Recipients \cup {NoRecipient}]
    /\ quotes' = [a \in DOMAIN quotes' |-> quotes'[a]]
    /\ DOMAIN quotes' \subseteq env.amounts /\ lookups' \subseteq Recipients

LEMMA ScreenKeepsForm ==
    ASSUME TypedInv, Screen
    PROVE  FormPart
<1>1. FormTyped
    BY DEF TypedInv
<1>2. CASE Edits
    <2>1. form' \in Form
        <3>1. CASE \E a \in env.amounts : Edit("amount", a)
            BY <1>1, <3>1 DEF Edit, FormTyped, Form
        <3>2. CASE \E r \in Recipients : Edit("recipient", r)
            BY <1>1, <3>2 DEF Edit, FormTyped, Form
        <3>3. CASE \E n \in env.names : Edit("name", n)
            BY <1>1, <3>3 DEF Edit, FormTyped, Form
        <3>4. CASE \E r \in env.rails : Edit("rail", r)
            BY <1>1, <3>4 DEF Edit, FormTyped, Form
        <3> QED
            BY <1>2, <3>1, <3>2, <3>3, <3>4 DEF Edits
    <2>2. UNCHANGED <<settled, quotes, lookups>>
        BY <1>2 DEF Edits, Edit
    <2> QED
        BY <1>1, <2>1, <2>2 DEF FormPart, FormTyped
<1>3. CASE SettleAmount
    <2>1. settled' = [settled EXCEPT !.amount = form.amount] /\ UNCHANGED <<form, quotes, lookups>>
        BY <1>3 DEF SettleAmount
    <2>2. form.amount \in env.amounts \cup {NotDecimal}
        BY <1>1 DEF FormTyped, Form
    <2> QED
        BY <1>1, <2>1, <2>2 DEF FormPart, FormTyped
<1>4. CASE SettleRecipient
    <2>1. /\ settled' = [settled EXCEPT !.recipient = form.recipient]
          /\ UNCHANGED <<quotes, lookups>> /\ Autofill(form.recipient, lookups)
        BY <1>4 DEF SettleRecipient
    <2>2. form.recipient \in Recipients \cup {NoRecipient}
        BY <1>1 DEF FormTyped, Form
    <2>3. form' \in Form
        BY <1>1, <2>1, AutofillTyped DEF FormTyped
    <2> QED
        BY <1>1, <2>1, <2>2, <2>3 DEF FormPart, FormTyped
<1>5. CASE Lookup
    <2>1. /\ lookups' = lookups \cup {settled.recipient} /\ settled.recipient \in Recipients
          /\ UNCHANGED <<settled, quotes>> /\ Autofill(settled.recipient, lookups')
        BY <1>5 DEF Lookup
    <2>2. lookups' \in SUBSET Recipients
        BY <1>1, <2>1 DEF FormTyped
    <2>3. form' \in Form
        BY <1>1, <2>1, <2>2, AutofillTyped DEF FormTyped
    <2> QED
        BY <1>1, <2>1, <2>2, <2>3 DEF FormPart, FormTyped
<1>6. CASE FetchQuote
    <2> DEFINE p == priceTransfer(rates, env.from, To, toMinor(settled.amount, env.from))
    <2>1. quotes' = Put(quotes, settled.amount, p) /\ settled.amount.digits > 0
          /\ UNCHANGED <<form, settled, lookups>>
        BY <1>6 DEF FetchQuote
    <2> HIDE DEF p
    <2>2. settled.amount # NotDecimal
        BY <2>1 DEF NotDecimal
    <2>3. settled.amount \in env.amounts
        BY <1>1, <2>2 DEF FormTyped
    <2>4. quotes' = [a \in DOMAIN quotes' |-> quotes'[a]]
          /\ DOMAIN quotes' = DOMAIN quotes \cup {settled.amount}
        BY <2>1 DEF Put
    <2> QED
        BY <1>1, <2>1, <2>3, <2>4 DEF FormPart, FormTyped
<1>7. CASE Reopen
    BY <1>1, <1>7, BlankIsAForm DEF Reopen, FormPart, FormTyped
<1>8. CASE Reset
    <2>1. /\ form' = [Blank EXCEPT !.rail = form.rail]
          /\ settled' = [settled EXCEPT !.amount = NotDecimal] /\ UNCHANGED <<quotes, lookups>>
        BY <1>8 DEF Reset
    <2>2. form' \in Form
        BY <1>1, <2>1, BlankIsAForm DEF FormTyped, Form
    <2>3. settled' \in [amount : env.amounts \cup {NotDecimal},
                        recipient : Recipients \cup {NoRecipient}]
        BY <1>1, <2>1 DEF FormTyped
    <2> QED
        BY <1>1, <2>1, <2>2, <2>3 DEF FormPart, FormTyped
<1>9. CASE Press \/ LoseAnswer
    <2>1. UNCHANGED formVars
        BY <1>9 DEF Press, LoseAnswer
    <2> QED
        BY <1>1, <2>1 DEF formVars, FormPart, FormTyped
<1> QED
    BY <1>2, <1>3, <1>4, <1>5, <1>6, <1>7, <1>8, <1>9 DEF Screen

\* The screen and the count of visits.
LEMMA ScreenStays ==
    ASSUME TypedInv, [Next]_vars
    PROVE  screen' \in {"form", "pending", "sent"} /\ visit' \in 1..MaxVisits
<1>1. FormTyped
    BY DEF TypedInv
<1>2. visit' = visit \/ (visit < MaxVisits /\ visit' = visit + 1)
    <2>1. CASE Screen
        BY <2>1 DEF Screen, Edits, Edit, SettleAmount, SettleRecipient, Lookup, FetchQuote,
                    Reopen, Reset, Press, LoseAnswer, formVars
    <2> QED
        BY <2>1, Fixed DEF formVars
<1>3. visit' \in 1..MaxVisits
    BY <1>1, <1>2, SendMoneyAssumption DEF FormTyped
<1>4. screen' = screen \/ screen' \in {"form", "pending", "sent"}
    <2>1. CASE Screen
        BY <2>1 DEF Screen, Edits, Edit, SettleAmount, SettleRecipient, Lookup, FetchQuote,
                    Reopen, Reset, Press, LoseAnswer
    <2>2. CASE \E i \in DOMAIN presses : Server(i)
        BY <2>2 DEF Server, RequireCustomer, AssertClear, AssertWithinLimit, Price, CreateTransfer,
                    RunTransfer, Refuses, Answers
    <2>3. CASE Restart \/ (\E k \in DOMAIN transfers : Recover(k))
        BY <2>3 DEF Restart, Recover
    <2>4. CASE (\E change \in RateChanges : SetRate(change[1], change[2])) \/ Compliance
        BY <2>4 DEF SetRate, Compliance
    <2>5. CASE UNCHANGED vars
        BY <2>5 DEF vars
    <2> QED
        BY <2>1, <2>2, <2>3, <2>4, <2>5 DEF Next
<1> QED
    BY <1>1, <1>3, <1>4 DEF FormTyped

LEMMA FormStaysTyped ==
    ASSUME TypedInv, [Next]_vars
    PROVE  FormTyped'
<1>1. FormTyped
    BY DEF TypedInv
<1>2. FormPart
    <2>1. CASE UNCHANGED formVars
        BY <1>1, <2>1 DEF formVars, FormPart, FormTyped
    <2> QED
        BY <2>1, Fixed, ScreenKeepsForm
<1>3. env' = env /\ Form' = Form
    BY Fixed DEF Form
<1>4. Len(presses) \in Nat /\ Len(presses') \in Nat /\ Len(presses) <= Len(presses')
    <2>1. CASE Press
        BY <2>1, PressAdds
    <2>2. CASE ~Press
        <3>1. PressesKeep
            BY <2>2, Steps, ServerMoves, MovesKeeps DEF Quiet, TypedInv
        <3> QED
            BY <3>1, PressesLength DEF PressesKeep, TypedInv, PressesTyped
    <2> QED
        BY <2>1, <2>2
<1>5. idem' \in [sig : Form, key : 0..Len(presses')]
    <2>1. CASE Press
        <3>1. idem' = [sig |-> form, key |-> idem'.key] /\ idem'.key \in 1..Len(presses')
            BY <2>1, PressAdds, PressKeepsKeys
        <3> QED
            BY <1>1, <1>4, <3>1 DEF FormTyped
    <2>2. CASE idem' = idem
        <3>1. 0..Len(presses) \subseteq 0..Len(presses')
            BY <1>4
        <3> QED
            BY <1>1, <2>2, <3>1 DEF FormTyped
    <2>3. CASE idem' = NoIdem
        BY <1>4, <2>3, BlankIsAForm DEF NoIdem
    <2> QED
        BY <2>1, <2>2, <2>3, VisitsCount
<1> QED
    BY <1>2, <1>3, <1>5, ScreenStays DEF FormPart, FormTyped

LEMMA RatesStayTyped ==
    ASSUME TypedInv, [Next]_vars
    PROVE  RatesTyped'
<1>1. CASE \E change \in RateChanges : SetRate(change[1], change[2])
    <2>1. PICK change \in RateChanges : SetRate(change[1], change[2])
        BY <1>1
    <2> DEFINE c == change[1]
               set == IF c \in DOMAIN rates THEN rates[c].updatedAt ELSE 0
               row == [change[2] EXCEPT !.updatedAt = set + 1]
    <2>2. rates' = Put(rates, c, row)
        BY <2>1 DEF SetRate
    <2>3. set \in Nat
        BY DEF TypedInv, RatesTyped, RateRecord
    <2> HIDE DEF set
    <2>4. row \in RateRecord
        BY <2>3, RatesAssumption DEF RateRecord
    <2> HIDE DEF row, c
    <2> QED
        BY <2>2, <2>4 DEF Put, TypedInv, RatesTyped
<1>2. CASE rates' = rates
    BY <1>2 DEF TypedInv, RatesTyped
<1>3. CASE Screen
    BY <1>2, <1>3 DEF Screen, Edits, Edit, SettleAmount, SettleRecipient, Lookup, FetchQuote,
                Reopen, Reset, Press, LoseAnswer
<1>4. CASE \E i \in DOMAIN presses : Server(i)
    BY <1>2, <1>4 DEF Server, RequireCustomer, AssertClear, AssertWithinLimit, Price, CreateTransfer,
                RunTransfer
<1>5. CASE Restart \/ (\E k \in DOMAIN transfers : Recover(k)) \/ Compliance \/ UNCHANGED vars
    BY <1>2, <1>5 DEF Restart, Recover, Compliance, vars
<1> QED
    BY <1>1, <1>3, <1>4, <1>5 DEF Next

-----------------------------------------------------------------------------
(* The customer's row and the identity checks *)

\* Only the checks and an admin change the row, the review and the syncs.
LEMMA ComplianceOnly ==
    ASSUME [Next]_vars
    PROVE  Compliance \/ UNCHANGED <<customer, review, syncs>>
<1>1. CASE Screen
    BY <1>1 DEF Screen, Edits, Edit, SettleAmount, SettleRecipient, Lookup, FetchQuote,
                Reopen, Reset, Press, LoseAnswer, customerVars
<1>2. CASE \E i \in DOMAIN presses : Server(i)
    BY <1>2 DEF Server, RequireCustomer, AssertClear, AssertWithinLimit, Price, CreateTransfer,
                RunTransfer, customerVars
<1>3. CASE Restart \/ (\E k \in DOMAIN transfers : Recover(k))
    BY <1>3 DEF Restart, Recover, customerVars
<1>4. CASE (\E change \in RateChanges : SetRate(change[1], change[2]))
    BY <1>4 DEF SetRate, customerVars
<1>5. CASE UNCHANGED vars
    BY <1>5 DEF vars, customerVars
<1> QED
    BY <1>1, <1>2, <1>3, <1>4, <1>5 DEF Next

\* What an identity check would write.
LEMMA SyncWrites ==
    ASSUME CustomerTyped, NEW s \in Syncs, syncs[s].pc = "persist"
    PROVE  /\ syncs[s].review \in KycStatus /\ kycLevelOf(syncs[s]) \in 0..2
           /\ syncs[s].review = "rejected" => kycLevelOf(syncs[s]) = 0
<1>1. syncs[s] \in SyncStates
    BY DEF CustomerTyped
<1>2. syncs[s] \in [pc : {"persist"}, review : KycStatus, existing : Customer \cup {Unregistered}]
    BY <1>1 DEF SyncStates, NoSync
<1>3. syncs[s].existing = Unregistered \/ syncs[s].existing.kycLevel \in 0..2
    BY <1>2 DEF Customer
<1> QED
    BY <1>2, <1>3 DEF kycLevelOf

LEMMA CustomerStaysTyped ==
    ASSUME TypedInv, [Next]_vars
    PROVE  CustomerTyped'
<1>1. CustomerTyped
    BY DEF TypedInv
<1>2. CASE UNCHANGED <<customer, review, syncs>>
    BY <1>1, <1>2 DEF CustomerTyped
<1>3. ASSUME NEW status \in {"active", "blocked"}, SetCustomerStatus(status)
      PROVE  CustomerTyped'
    <2>1. customer' \in Customer
        BY <1>1, <1>3 DEF SetCustomerStatus, CustomerTyped, Customer
    <2> QED
        BY <1>1, <1>3, <2>1 DEF SetCustomerStatus, CustomerTyped
<1>4. ASSUME NEW level \in 0..2, SetCustomerKyc(level, "review")
      PROVE  CustomerTyped'
    <2>1. customer' \in Customer
        BY <1>1, <1>4 DEF SetCustomerKyc, setCustomerKyc, CustomerTyped, Customer, KycStatus
    <2> QED
        BY <1>1, <1>4, <2>1 DEF SetCustomerKyc, CustomerTyped
<1>5. ASSUME Review
      PROVE  CustomerTyped'
    <2>1. review.changes + 1 \in 0..MaxReviews
        BY <1>1, <1>5, CustomersAssumption DEF Review, CustomerTyped, Reviews
    <2>2. review' \in Reviews
        BY <1>5, <2>1 DEF Review, Reviews
    <2> QED
        BY <1>1, <1>5, <2>2 DEF Review, CustomerTyped
<1>6. ASSUME NEW s \in Syncs, SyncStarts(s)
      PROVE  CustomerTyped'
    <2>1. normalizeReview \in KycStatus
        BY DEF normalizeReview, KycStatus
    <2>2. [pc |-> "existing", review |-> normalizeReview] \in SyncStates
        BY <2>1 DEF SyncStates
    <2> QED
        BY <1>1, <1>6, <2>2 DEF SyncStarts, CustomerTyped
<1>7. ASSUME NEW s \in Syncs, SyncReadsCustomer(s)
      PROVE  CustomerTyped'
    <2>1. syncs[s] \in SyncStates /\ syncs[s].pc = "existing"
        BY <1>1, <1>7 DEF CustomerTyped, SyncReadsCustomer
    <2>2. syncs[s].review \in KycStatus
        BY <2>1 DEF SyncStates, NoSync
    <2>3. [pc |-> "persist", review |-> syncs[s].review, existing |-> customer] \in SyncStates
        BY <1>1, <2>2 DEF SyncStates, CustomerTyped
    <2> QED
        BY <1>1, <1>7, <2>3 DEF SyncReadsCustomer, CustomerTyped
<1>8. ASSUME NEW s \in Syncs, SyncPersists(s)
      PROVE  CustomerTyped'
    <2> DEFINE level == kycLevelOf(syncs[s])
    <2>1. syncs[s].review \in KycStatus /\ level \in 0..2
        BY <1>1, <1>8, SyncWrites DEF SyncPersists
    <2> HIDE DEF level
    <2>2. customer' \in Customer \cup {Unregistered}
        <3>1. CASE setCustomerKyc(level, syncs[s].review)
            BY <1>1, <2>1, <3>1 DEF setCustomerKyc, CustomerTyped, Customer
        <3>2. CASE createCustomer(level, syncs[s].review)
            BY <2>1, <3>2 DEF createCustomer, Customer
        <3> QED
            BY <1>1, <1>8, <3>1, <3>2 DEF SyncPersists, CustomerTyped, level
    <2>3. syncs' \in [Syncs -> SyncStates]
        BY <1>1, <1>8 DEF SyncPersists, CustomerTyped, SyncStates
    <2> QED
        BY <1>1, <1>8, <2>2, <2>3 DEF SyncPersists, CustomerTyped
<1> QED
    BY <1>2, <1>3, <1>4, <1>5, <1>6, <1>7, <1>8, ComplianceOnly DEF Compliance

\* Unless an admin sets it, the level of a row that is rejected is the lowest.
RejectedIsLowest ==
    ~Doing("admin_kyc") /\ customer # Unregistered /\ customer.kycStatus = "rejected"
        => customer.kycLevel = 0

LEMMA RejectedStaysLowest ==
    ASSUME TypedInv, RejectedIsLowest, [Next]_vars
    PROVE  RejectedIsLowest'
<1>1. CustomerTyped /\ env' = env
    BY Fixed DEF TypedInv
<1>2. CASE UNCHANGED <<customer, review, syncs>>
    BY <1>1, <1>2 DEF RejectedIsLowest, Doing
<1>3. ASSUME NEW status \in {"active", "blocked"}, SetCustomerStatus(status)
      PROVE  RejectedIsLowest'
    BY <1>1, <1>3 DEF SetCustomerStatus, CustomerTyped, Customer, RejectedIsLowest, Doing
<1>4. CASE Doing("admin_kyc")
    BY <1>1, <1>4 DEF RejectedIsLowest, Doing
<1>5. ASSUME NEW s \in Syncs, SyncPersists(s)
      PROVE  RejectedIsLowest'
    <2> DEFINE level == kycLevelOf(syncs[s])
    <2>1. level \in 0..2 /\ (syncs[s].review = "rejected" => level = 0)
        BY <1>1, <1>5, SyncWrites DEF SyncPersists
    <2> HIDE DEF level
    <2>2. CASE setCustomerKyc(level, syncs[s].review)
        BY <1>1, <2>1, <2>2 DEF setCustomerKyc, CustomerTyped, Customer, RejectedIsLowest, Doing
    <2>3. CASE createCustomer(level, syncs[s].review)
        BY <1>1, <2>1, <2>3 DEF createCustomer, RejectedIsLowest, Doing
    <2>4. CASE UNCHANGED customer
        BY <1>1, <2>4 DEF RejectedIsLowest, Doing
    <2> QED
        BY <1>5, <2>2, <2>3, <2>4 DEF SyncPersists, level
<1>6. CASE Review \/ \E s \in Syncs : SyncStarts(s) \/ SyncReadsCustomer(s)
    <2>1. UNCHANGED customer
        BY <1>6 DEF Review, SyncStarts, SyncReadsCustomer
    <2> QED
        BY <1>1, <2>1 DEF RejectedIsLowest, Doing
<1> QED
    BY <1>2, <1>3, <1>4, <1>5, <1>6, ComplianceOnly DEF Compliance

-----------------------------------------------------------------------------
(* Powers of ten *)

\* Every nonempty set of naturals has a least element.
LEMMA LeastNatural ==
    ASSUME NEW T \in SUBSET Nat, T # {}
    PROVE  \E x \in T : \A y \in T : x <= y
<1> DEFINE R == OpToRel(<, Nat)
<1>1. IsWellFoundedOn(R, Nat)
    BY NatLessThanWellFounded
<1>2. \A x, y \in Nat : x < y => <<x, y>> \in R
    BY DEF OpToRel
<1> HIDE DEF R
<1>3. PICK x \in T : \A y \in T : ~ (<<y, x>> \in R)
    BY <1>1, WFMin
<1>4. ASSUME NEW y \in T PROVE x <= y
    <2>1. x \in Nat /\ y \in Nat /\ ~ (<<y, x>> \in R)
        BY <1>3
    <2>2. ~ (y < x)
        BY <1>2, <2>1
    <2> QED
        BY <2>1, <2>2
<1> QED
    BY <1>4

\* Induction over the naturals: G is the set of those with the property.
LEMMA NaturalSteps ==
    ASSUME NEW G, 0 \in G, \A n \in Nat : n \in G => n + 1 \in G
    PROVE  Nat \subseteq G
<1> DEFINE Bad == {n \in Nat : n \notin G}
<1>1. SUFFICES ASSUME Bad # {} PROVE FALSE
    OBVIOUS
<1>2. PICK x \in Bad : \A y \in Bad : x <= y
    BY <1>1, LeastNatural
<1>3. x \in Nat /\ x # 0
    OBVIOUS
<1>4. x - 1 \in Nat /\ x - 1 \notin Bad /\ (x - 1) + 1 = x
    BY <1>2, <1>3
<1> QED
    BY <1>4

\* The recursion of pow10, up to n.
IsPower(f, n) ==
    /\ f \in [0..n -> Nat \ {0}] /\ f[0] = 1
    /\ \A i \in Nat : i < n => f[i + 1] = 10 * f[i]

LEMMA PowerExists == \A n \in Nat : \E f : IsPower(f, n)
<1> DEFINE G == {n \in Nat : \E f : IsPower(f, n)}
<1>1. 0 \in G
    <2> DEFINE f == [i \in 0..0 |-> 1]
    <2>1. IsPower(f, 0)
        BY DEF IsPower
    <2> QED
        BY <2>1
<1>2. ASSUME NEW n \in Nat, n \in G PROVE n + 1 \in G
    <2> PICK f : IsPower(f, n)
        BY <1>2
    <2> DEFINE g == [i \in 0..(n + 1) |-> IF i = n + 1 THEN 10 * f[n] ELSE f[i]]
    <2>1. f \in [0..n -> Nat \ {0}] /\ f[0] = 1 /\ \A i \in Nat : i < n => f[i + 1] = 10 * f[i]
        BY DEF IsPower
    <2>2. f[n] \in Nat \ {0} /\ 10 * f[n] \in Nat \ {0}
        BY <2>1
    <2>3. g \in [0..(n + 1) -> Nat \ {0}]
        BY <2>1, <2>2
    <2>4. \A i \in Nat : i <= n => g[i] = f[i]
        OBVIOUS
    <2>5. g[n + 1] = 10 * f[n]
        OBVIOUS
    <2> HIDE DEF g
    <2>6. g[0] = 1
        BY <2>1, <2>4
    <2>7. ASSUME NEW i \in Nat, i < n + 1 PROVE g[i + 1] = 10 * g[i]
        <3>1. CASE i = n
            BY <2>4, <2>5, <3>1
        <3>2. CASE i < n
            <4>1. i + 1 \in Nat /\ i + 1 <= n /\ i <= n
                BY <3>2
            <4> QED
                BY <2>1, <2>4, <3>2, <4>1
        <3> QED
            BY <2>7, <3>1, <3>2
    <2>8. IsPower(g, n + 1)
        BY <2>3, <2>6, <2>7 DEF IsPower
    <2> QED
        BY <2>8
<1> HIDE DEF G
<1>3. Nat \subseteq G
    BY <1>1, <1>2, NaturalSteps
<1> QED
    BY <1>3 DEF G

LEMMA PowerUnique ==
    ASSUME NEW m \in Nat, NEW n \in Nat, NEW f, NEW g, IsPower(f, m), IsPower(g, n),
           NEW i \in Nat, i <= m, i <= n
    PROVE  f[i] = g[i]
<1> DEFINE G == {k \in Nat : k <= m /\ k <= n => f[k] = g[k]}
<1>1. 0 \in G
    BY DEF IsPower
<1>2. ASSUME NEW k \in Nat, k \in G PROVE k + 1 \in G
    <2>1. SUFFICES ASSUME k + 1 <= m, k + 1 <= n PROVE f[k + 1] = g[k + 1]
        OBVIOUS
    <2>2. f[k] = g[k] /\ k < m /\ k < n
        BY <1>2, <2>1
    <2> QED
        BY <2>2 DEF IsPower
<1> HIDE DEF G
<1>3. i \in G
    BY <1>1, <1>2, NaturalSteps
<1> QED
    BY <1>3 DEF G

LEMMA PowerOfTen ==
    /\ pow10 \in [Nat -> Nat \ {0}] /\ pow10[0] = 1
    /\ \A n \in Nat : pow10[n + 1] = 10 * pow10[n]
<1> DEFINE F(n) == CHOOSE f : IsPower(f, n)
           h == [n \in Nat |-> F(n)[n]]
<1>1. \A n \in Nat : IsPower(F(n), n)
    BY PowerExists
<1> HIDE DEF F
<1>2. \A n \in Nat : h[n] \in Nat \ {0}
    BY <1>1 DEF IsPower
<1>3. h[0] = 1
    BY <1>1 DEF IsPower
<1>4. ASSUME NEW n \in Nat PROVE h[n + 1] = 10 * h[n]
    <2>1. F(n + 1)[n + 1] = 10 * F(n + 1)[n]
        BY <1>1 DEF IsPower
    <2>2. F(n + 1)[n] = F(n)[n]
        BY <1>1, PowerUnique
    <2> QED
        BY <2>1, <2>2
<1>5. h = [n \in Nat |-> h[n]]
    OBVIOUS
<1> HIDE DEF h
<1>6. ASSUME NEW n \in Nat PROVE h[n] = IF n = 0 THEN 1 ELSE 10 * h[n - 1]
    <2>1. CASE n = 0
        BY <1>3, <2>1
    <2>2. CASE n # 0
        <3>1. n - 1 \in Nat /\ (n - 1) + 1 = n
            BY <2>2
        <3> QED
            BY <1>4, <2>2, <3>1
    <2> QED
        BY <2>1, <2>2
<1>7. h = [n \in Nat |-> IF n = 0 THEN 1 ELSE 10 * h[n - 1]]
    BY <1>5, <1>6
<1>8. pow10 = [n \in Nat |-> IF n = 0 THEN 1 ELSE 10 * pow10[n - 1]]
    BY <1>7 DEF pow10
<1>9. /\ \A n \in Nat : pow10[n] = IF n = 0 THEN 1 ELSE 10 * pow10[n - 1]
      /\ DOMAIN pow10 = Nat /\ pow10 = [n \in Nat |-> pow10[n]]
    <2> DEFINE e == [n \in Nat |-> IF n = 0 THEN 1 ELSE 10 * pow10[n - 1]]
    <2>1. \A n \in Nat : e[n] = IF n = 0 THEN 1 ELSE 10 * pow10[n - 1]
        OBVIOUS
    <2>2. DOMAIN e = Nat /\ e = [n \in Nat |-> e[n]]
        OBVIOUS
    <2> HIDE DEF e
    <2>3. pow10 = e
        BY <1>8 DEF e
    <2> QED
        BY <2>1, <2>2, <2>3
<1>10. pow10[0] = 1
    BY <1>9
<1>11. ASSUME NEW n \in Nat PROVE pow10[n + 1] = 10 * pow10[n]
    <2>1. n + 1 \in Nat /\ n + 1 # 0 /\ (n + 1) - 1 = n
        OBVIOUS
    <2> QED
        BY <1>9, <2>1
<1> DEFINE G == {n \in Nat : pow10[n] \in Nat \ {0}}
<1>12. 0 \in G /\ \A n \in Nat : n \in G => n + 1 \in G
    BY <1>10, <1>11
<1> HIDE DEF G
<1>13. Nat \subseteq G
    BY <1>12, NaturalSteps
<1>14. \A n \in Nat : pow10[n] \in Nat \ {0}
    BY <1>13 DEF G
<1> QED
    BY <1>9, <1>10, <1>11, <1>14
LEMMA PowersMultiply == \A a, b \in Nat : pow10[a + b] = pow10[a] * pow10[b]
<1> SUFFICES ASSUME NEW a \in Nat PROVE \A b \in Nat : pow10[a + b] = pow10[a] * pow10[b]
    OBVIOUS
<1> DEFINE G == {b \in Nat : pow10[a + b] = pow10[a] * pow10[b]}
<1>1. 0 \in G
    BY PowerOfTen
<1>2. ASSUME NEW b \in Nat, b \in G PROVE b + 1 \in G
    <2>1. pow10[a + b] = pow10[a] * pow10[b] /\ pow10[b + 1] = 10 * pow10[b]
        BY <1>2, PowerOfTen
    <2>2. a + (b + 1) = (a + b) + 1 /\ a + b \in Nat
        OBVIOUS
    <2>3. pow10[a + (b + 1)] = 10 * pow10[a + b]
        BY <2>2, PowerOfTen
    <2>4. pow10[a] \in Nat /\ pow10[b] \in Nat
        BY PowerOfTen
    <2>5. \A x, y \in Nat : 10 * (x * y) = x * (10 * y)
        OBVIOUS
    <2> QED
        BY <2>1, <2>3, <2>4, <2>5
<1> HIDE DEF G
<1>3. Nat \subseteq G
    BY <1>1, <1>2, NaturalSteps
<1> QED
    BY <1>3 DEF G

LEMMA SmallPowers == pow10[0] = 1 /\ pow10[2] = 100 /\ pow10[4] = 10000
<1>1. pow10[0 + 1] = 10 /\ pow10[1 + 1] = 10 * pow10[1] /\ pow10[2 + 1] = 10 * pow10[2]
      /\ pow10[3 + 1] = 10 * pow10[3] /\ pow10[0] = 1
    BY PowerOfTen
<1> QED
    BY <1>1

-----------------------------------------------------------------------------
(* Rounding *)

LEMMA DividesWithRest ==
    ASSUME NEW n \in Nat, NEW d \in Nat \ {0}
    PROVE  /\ n \div d \in Nat /\ n % d \in Nat /\ n % d < d
           /\ n = d * (n \div d) + (n % d)
OBVIOUS

\* Rounding half up is as close as it can be.
LEMMA RoundsHalfUp ==
    ASSUME NEW n \in Nat, NEW d \in Nat \ {0}
    PROVE  /\ roundHalfUpDiv(n, d) \in Nat
           /\ 2 * n >= d * (2 * roundHalfUpDiv(n, d) - 1)
           /\ 2 * n < d * (2 * roundHalfUpDiv(n, d) + 1)
<1> DEFINE q == n \div d
           r == n % d
           p == roundHalfUpDiv(n, d)
<1>1. q \in Nat /\ r \in Nat /\ r < d /\ n = d * q + r
    BY DividesWithRest
<1>2. p = IF r * 2 >= d THEN q + 1 ELSE q
    BY DEF roundHalfUpDiv
<1> HIDE DEF p, q, r
<1>3. CASE r * 2 >= d
    <2>1. p = q + 1
        BY <1>2, <1>3
    <2>2. 2 * p - 1 = 2 * q + 1 /\ 2 * p + 1 = 2 * q + 3
        BY <1>1, <2>1
    <2>3. d * (2 * q + 1) = 2 * (d * q) + d /\ d * (2 * q + 3) = 2 * (d * q) + 3 * d
        BY <1>1
    <2> QED
        BY <1>1, <1>3, <2>1, <2>2, <2>3 DEF p
<1>4. CASE ~(r * 2 >= d)
    <2>1. p = q
        BY <1>2, <1>4
    <2>2. d * (2 * q - 1) = 2 * (d * q) - d /\ d * (2 * q + 1) = 2 * (d * q) + d
        BY <1>1
    <2> QED
        BY <1>1, <1>4, <2>1, <2>2 DEF p
<1> QED
    BY <1>3, <1>4

\* It keeps the order of fractions.
LEMMA RoundingKeepsOrder ==
    ASSUME NEW a \in Nat, NEW A \in Nat \ {0}, NEW c \in Nat, NEW C \in Nat \ {0},
           a * C <= c * A
    PROVE  roundHalfUpDiv(a, A) <= roundHalfUpDiv(c, C)
<1> DEFINE q == roundHalfUpDiv(a, A)
           p == roundHalfUpDiv(c, C)
<1>1. q \in Nat /\ p \in Nat /\ 2 * a >= A * (2 * q - 1) /\ 2 * c < C * (2 * p + 1)
    BY RoundsHalfUp
<1> HIDE DEF p, q
<1>2. SUFFICES ASSUME q >= p + 1 PROVE FALSE
    BY <1>1 DEF p, q
<1> DEFINE s == 2 * p + 1
<1>3. s \in Nat /\ 2 * q - 1 \in Nat /\ s <= 2 * q - 1
    BY <1>1, <1>2
<1>4. \A x, y, z \in Nat : x <= y => z * x <= z * y
    OBVIOUS
<1>5. \A x, y \in Nat : \A z \in Nat \ {0} : x < y => z * x < z * y
    OBVIOUS
<1> HIDE DEF s
<1>6. A * s <= 2 * a
    <2>1. A * s <= A * (2 * q - 1)
        BY <1>3, <1>4
    <2>2. A * s \in Nat /\ A * (2 * q - 1) \in Nat
        BY <1>3
    <2> QED
        BY <1>1, <2>1, <2>2
<1>7. C * (A * s) <= C * (2 * a)
    <2>1. A * s \in Nat /\ 2 * a \in Nat
        BY <1>3
    <2> QED
        BY <1>4, <1>6, <2>1
<1>8. A * (2 * c) < A * (C * s)
    <2>1. 2 * c \in Nat /\ C * s \in Nat /\ 2 * c < C * s
        BY <1>1, <1>3 DEF s
    <2> QED
        BY <1>5, <2>1
<1>9. /\ C * (A * s) = A * (C * s) /\ C * (2 * a) = 2 * (a * C) /\ A * (2 * c) = 2 * (c * A)
      /\ C * (A * s) \in Nat /\ a * C \in Nat /\ c * A \in Nat
    BY <1>3
<1> QED
    BY <1>7, <1>8, <1>9

LEMMA FeeIsAPart ==
    ASSUME NEW n \in Nat, NEW bps \in Bps
    PROVE  applyBps(n, bps) \in 0..n
<1> DEFINE p == roundHalfUpDiv(n * bps, 10000)
<1>1. n * bps \in Nat /\ n * bps <= n * 10000
    <2>1. bps \in Nat /\ bps <= 10000
        BY DEF Bps
    <2>2. \A x, y, z \in Nat : x <= y => z * x <= z * y
        OBVIOUS
    <2> QED
        BY <2>1, <2>2
<1>2. p \in Nat /\ 2 * (n * bps) >= 10000 * (2 * p - 1)
    BY <1>1, RoundsHalfUp
<1> HIDE DEF p
<1>3. p <= n
    BY <1>1, <1>2
<1> QED
    BY <1>2, <1>3 DEF applyBps, p

\* Whole gourdes are paid, and no more than there are.
LEMMA PayoutIsFloored ==
    ASSUME NEW n \in Nat
    PROVE  /\ floorToPayoutUnit(n, To) \in 0..n
           /\ floorToPayoutUnit(n, To) % payoutMinorStep(To) = 0
<1>1. payoutMinorStep(To) = 100
    BY SmallPowers DEF payoutMinorStep, scaleOf, To
<1>2. floorToPayoutUnit(n, To) = IF n <= 0 THEN n ELSE n - (n % 100)
    BY <1>1 DEF floorToPayoutUnit
<1> QED
    BY <1>1, <1>2

LEMMA MaxIsIn ==
    ASSUME NEW n \in Nat, NEW S \in SUBSET (0..n), S # {}
    PROVE  Max(S) \in S
<1> DEFINE T == {x \in Nat : \A y \in S : y <= x}
<1>1. n \in T
    OBVIOUS
<1>2. PICK x \in T : \A y \in T : x <= y
    BY <1>1, LeastNatural
<1>3. x \in Nat /\ \A y \in S : y <= x
    OBVIOUS
<1>4. x \in S
    <2>1. SUFFICES ASSUME x \notin S PROVE FALSE
        OBVIOUS
    <2>2. PICK z \in S : TRUE
        OBVIOUS
    <2>3. x > 0
        BY <1>3, <2>1, <2>2
    <2>4. ASSUME NEW y \in S PROVE y <= x - 1
        BY <1>3, <2>1
    <2>5. x - 1 \in T
        BY <1>3, <2>3, <2>4
    <2> QED
        BY <1>2, <1>3, <2>5
<1>5. \E e \in S : \A y \in S : e >= y
    BY <1>3, <1>4
<1> QED
    BY <1>5 DEF Max

\* Dropping zeros changes the digits, not the number.
LEMMA RendersExactly ==
    ASSUME NEW value \in Nat, NEW scale \in Nat
    PROVE  \E k \in 0..scale :
               /\ renderScaled(value, scale).scale = scale - k
               /\ renderScaled(value, scale).digits \in Nat
               /\ pow10[k] * renderScaled(value, scale).digits = value
<1> DEFINE S == {k \in 0..scale : value % pow10[k] = 0}
           k == Max(S)
<1>1. 0 \in S
    <2>1. value % 1 = 0
        OBVIOUS
    <2> QED
        BY <2>1, PowerOfTen
<1>2. k \in S
    BY <1>1, MaxIsIn
<1>3. /\ renderScaled(value, scale).digits = value \div pow10[k]
      /\ renderScaled(value, scale).scale = scale - k
    BY DEF renderScaled
<1> HIDE DEF k
<1>4. k \in 0..scale /\ value % pow10[k] = 0 /\ pow10[k] \in Nat \ {0}
    BY <1>2, PowerOfTen
<1>5. value \div pow10[k] \in Nat /\ value = pow10[k] * (value \div pow10[k]) + (value % pow10[k])
    BY <1>4, DividesWithRest
<1>6. pow10[k] * (value \div pow10[k]) \in Nat
    BY <1>4, <1>5
<1>7. pow10[k] * (value \div pow10[k]) = value
    BY <1>4, <1>5, <1>6
<1> QED
    BY <1>3, <1>4, <1>5, <1>7

\* An amount in gourdes is the rounded fraction of the amount in the other currency.
LEMMA ConvertsByRounding ==
    ASSUME NEW m \in Nat, NEW from, NEW digits \in Nat, NEW scale \in Nat,
           NEW rate, rate.digits = digits, rate.scale = scale
    PROVE  /\ scaleOf(from) - scaleOf(To) \in {0, 4}
           /\ convert(m, from, To, rate)
              = roundHalfUpDiv(m * digits, pow10[scale + (scaleOf(from) - scaleOf(To))])
<1> DEFINE up == scaleOf(To) - scaleOf(from)
           down == scaleOf(from) - scaleOf(To)
<1>1. (up = 0 /\ down = 0) \/ (up = -4 /\ down = 4)
    BY DEF scaleOf, To
<1>2. convert(m, from, To, rate) = IF up >= scale THEN (m * digits) * pow10[up - scale]
                                   ELSE roundHalfUpDiv(m * digits, pow10[scale - up])
    BY DEF convert
<1> HIDE DEF up, down
<1>6. SUFFICES convert(m, from, To, rate) = roundHalfUpDiv(m * digits, pow10[scale + down])
    BY <1>1 DEF down
<1>3. CASE up = 0 /\ scale = 0
    <2>1. convert(m, from, To, rate) = (m * digits) * pow10[0]
        BY <1>2, <1>3
    <2>2. m * digits \in Nat /\ pow10[0] = 1
        BY PowerOfTen
    <2>3. roundHalfUpDiv(m * digits, 1) = m * digits
        <3>1. \A n \in Nat : n \div 1 = n /\ n % 1 = 0
            OBVIOUS
        <3> QED
            BY <2>2, <3>1 DEF roundHalfUpDiv
    <2>4. (m * digits) * 1 = m * digits
        BY <2>2
    <2>5. scale + down = 0
        BY <1>1, <1>3
    <2> QED
        BY <2>1, <2>2, <2>3, <2>4, <2>5
<1>4. CASE up = 0 /\ scale # 0
    <2>1. ~(up >= scale) /\ scale - up = scale + down
        BY <1>1, <1>4
    <2> QED
        BY <1>2, <2>1
<1>5. CASE up = -4
    <2>1. ~(up >= scale) /\ scale - up = scale + down
        BY <1>1, <1>5
    <2> QED
        BY <1>2, <2>1
<1> QED
    BY <1>1, <1>3, <1>4, <1>5

LEMMA Cancels ==
    ASSUME NEW x \in Nat, NEW y \in Nat, NEW z \in Nat \ {0}, x * z <= y * z
    PROVE  x <= y
<1> SUFFICES ASSUME x >= y + 1 PROVE FALSE
    OBVIOUS
<1>1. \A a, b, c \in Nat : a <= b => a * c <= b * c
    OBVIOUS
<1>2. (y + 1) * z <= x * z
    BY <1>1
<1>3. (y + 1) * z = y * z + z /\ y * z \in Nat /\ x * z \in Nat
    OBVIOUS
<1> QED
    BY <1>2, <1>3

\* The margin is the customer's loss, whatever is rounded on the way.
LEMMA MarginCosts ==
    ASSUME NEW m \in Nat, NEW from, NEW mid \in Decimal, NEW bps \in Bps
    PROVE  /\ convert(m, from, To, mid) \in Nat
           /\ convert(m, from, To, marginedRate(mid, bps)) \in Nat
           /\ convert(m, from, To, marginedRate(mid, bps)) <= convert(m, from, To, mid)
<1> DEFINE D == mid.digits
           s == mid.scale
           v == D * (10000 - bps)
           rate == marginedRate(mid, bps)
           r == rate.digits
           down == scaleOf(from) - scaleOf(To)
<1>1. D \in Nat /\ s \in Nat
    BY DEF Decimal
<1>2. 10000 - bps \in Nat /\ 10000 - bps <= 10000
    BY DEF Bps
<1>3. v \in Nat /\ v <= D * 10000
    <2>1. \A a, b, c \in Nat : a <= b => c * a <= c * b
        OBVIOUS
    <2> QED
        BY <1>1, <1>2, <2>1
<1> DEFINE e == s + 4
<1>4. rate = renderScaled(v, e) /\ e \in Nat
    BY <1>1 DEF marginedRate
<1> HIDE DEF v, rate, e
<1>5. PICK k \in 0..e : rate.scale = e - k /\ r \in Nat /\ pow10[k] * r = v
    <2>1. \E k \in 0..e : /\ renderScaled(v, e).scale = e - k
                          /\ renderScaled(v, e).digits \in Nat
                          /\ pow10[k] * renderScaled(v, e).digits = v
        <3>1. v \in Nat /\ e \in Nat
            BY <1>3, <1>4
        <3> QED
            BY ONLY <3>1, RendersExactly
    <2> QED
        BY <1>4, <2>1
<1>6. e = s + 4 /\ k \in Nat /\ rate.scale \in Nat
    BY <1>4, <1>5 DEF e
<1>7. /\ down \in {0, 4}
      /\ convert(m, from, To, mid) = roundHalfUpDiv(m * D, pow10[s + down])
    BY <1>1, ConvertsByRounding
<1>8. convert(m, from, To, rate) = roundHalfUpDiv(m * r, pow10[rate.scale + down])
    <2>1. r \in Nat /\ rate.digits = r /\ rate.scale \in Nat
        BY <1>5, <1>6
    <2> HIDE DEF r
    <2> QED
        BY ONLY <2>1, ConvertsByRounding DEF down
<1> DEFINE P == pow10[s + down]
           Q == pow10[rate.scale + down]
           K == pow10[k]
<1> HIDE DEF D, r, down
<1>9. P \in Nat \ {0} /\ Q \in Nat \ {0} /\ K \in Nat \ {0}
    BY <1>1, <1>6, <1>7, PowerOfTen
<1>10. K * Q = P * 10000
    <2>1. k + (rate.scale + down) = (s + down) + 4
        BY <1>1, <1>5, <1>6, <1>7
    <2>2. /\ k \in Nat /\ rate.scale + down \in Nat /\ s + down \in Nat
        BY <1>1, <1>6, <1>7
    <2>3. pow10[k + (rate.scale + down)] = K * Q
        BY <2>2, PowersMultiply
    <2>4. pow10[(s + down) + 4] = P * pow10[4]
        BY <2>2, PowersMultiply
    <2> QED
        BY <2>1, <2>3, <2>4, SmallPowers
<1> HIDE DEF P, Q, K, s
<1>11. m * D \in Nat /\ m * r \in Nat
    BY <1>1, <1>5
<1>12. (m * r) * P <= (m * D) * Q
    <2>1. K * r = v
        BY <1>5 DEF K
    <2>2. m * P \in Nat
        BY <1>9
    <2>3. (m * P) * v <= (m * P) * (D * 10000)
        <3>1. \A a, b, c \in Nat : a <= b => c * a <= c * b
            OBVIOUS
        <3>2. D * 10000 \in Nat
            BY <1>1
        <3> QED
            BY <1>3, <2>2, <3>1, <3>2
    <2>4. ((m * r) * P) * K = (m * P) * v
        <3>1. \A a, b, c, d \in Nat : ((a * b) * c) * d = (a * c) * (d * b)
            OBVIOUS
        <3> QED
            BY <1>5, <1>9, <2>1, <3>1
    <2>5. ((m * D) * Q) * K = (m * P) * (D * 10000)
        <3>1. ((m * D) * Q) * K = (m * D) * (K * Q)
            BY <1>9, <1>11
        <3>2. (m * D) * (P * 10000) = (m * P) * (D * 10000)
            BY <1>1, <1>9
        <3> QED
            BY <1>10, <3>1, <3>2
    <2>6. (m * r) * P \in Nat /\ (m * D) * Q \in Nat
        BY <1>9, <1>11
    <2>7. ((m * r) * P) * K <= ((m * D) * Q) * K
        BY <2>3, <2>4, <2>5
    <2> QED
        BY <1>9, <2>6, <2>7, Cancels
<1>13. roundHalfUpDiv(m * r, Q) <= roundHalfUpDiv(m * D, P)
    BY <1>9, <1>11, <1>12, RoundingKeepsOrder
<1>14. roundHalfUpDiv(m * r, Q) \in Nat /\ roundHalfUpDiv(m * D, P) \in Nat
    BY <1>9, <1>11, RoundsHalfUp
<1> QED
    BY <1>7, <1>8, <1>13, <1>14 DEF P, Q, rate

-----------------------------------------------------------------------------
(* Amounts *)

\* What an amount of the form is in minor units, or that it is none.
LEMMA MinorOrNone ==
    ASSUME NEW amount \in Decimal \cup {NotDecimal}, NEW currency
    PROVE  toMinor(amount, currency) \in Nat \cup {NoAmount}
<1>1. CASE amount = NotDecimal \/ amount.scale > scaleOf(currency)
    BY <1>1 DEF toMinor, NoAmount
<1>2. CASE ~(amount = NotDecimal \/ amount.scale > scaleOf(currency))
    <2> DEFINE s == amount.scale
               d == scaleOf(currency) - s
    <2>1. amount.digits \in Nat /\ s \in Nat
        BY <1>2 DEF Decimal
    <2>2. scaleOf(currency) = 2 \/ scaleOf(currency) = 6
        BY DEF scaleOf
    <2>3. d \in Nat
        BY <1>2, <2>1, <2>2
    <2> HIDE DEF d
    <2>4. pow10[d] \in Nat
        BY <2>3, PowerOfTen
    <2>5. amount.digits * pow10[d] \in Nat
        BY <2>1, <2>4
    <2> QED
        BY <1>2, <2>5 DEF toMinor, d
<1> QED
    BY <1>1, <1>2

LEMMA MinorOfAPress ==
    ASSUME TypedInv, NEW i \in DOMAIN presses
    PROVE  sendMinorOf(i) \in Int
<1>1. presses[i].content.amount \in env.amounts \cup {NotDecimal}
    BY DEF TypedInv, PressesTyped, Form
<1>2. env.amounts \subseteq Decimal
    BY SendMoneyAssumption DEF TypedInv
<1> QED
    BY <1>1, <1>2, MinorOrNone DEF sendMinorOf, NoAmount

-----------------------------------------------------------------------------
(* Type correctness *)

LEMMA InitTyped == Init => TypedInv /\ RejectedIsLowest
<1> SUFFICES ASSUME Init PROVE TypedInv /\ RejectedIsLowest
    OBVIOUS
<1>1. env \in Environments /\ MaxVisits \in Nat \ {0} /\ MaxPresses \in Nat \ {0}
    BY SendMoneyAssumption DEF Init
<1>2. PressesTyped
    <2>1. presses = <<>> /\ presses \in Seq({}) /\ DOMAIN presses = {} /\ Len(presses) = 0
        BY DEF Init
    <2> QED
        BY <2>1, <1>1 DEF PressesTyped
<1>3. KeysAreDense
    <2>1. presses = <<>> /\ Len(presses) = 0 /\ DOMAIN presses = {} /\ idem.key = 0
        BY DEF Init, NoIdem
    <2>2. {presses[i].key : i \in DOMAIN presses} = 1..0 /\ idem.key \in 0..0 /\ 0 \in 0..Len(presses)
        BY <2>1
    <2> QED
        BY <2>2 DEF KeysAreDense
<1>4. RowsTyped
    <2>1. transfers = <<>> /\ DOMAIN transfers = {}
        BY DEF Init
    <2>2. transfers = [k \in DOMAIN transfers |-> transfers[k]]
        BY <2>1
    <2> QED
        BY <2>1, <2>2 DEF RowsTyped
<1>5. FormTyped
    <2>1. quotes = <<>> /\ DOMAIN quotes = {}
        BY DEF Init
    <2>2. quotes = [a \in DOMAIN quotes |-> quotes[a]]
        BY <2>1
    <2>3. idem \in [sig : Form, key : 0..Len(presses)]
        BY BlankIsAForm DEF Init, NoIdem
    <2> QED
        BY <1>1, <2>1, <2>2, <2>3, BlankIsAForm DEF FormTyped, Init
<1>6. RatesTyped
    BY RatesAssumption DEF Init, RatesTyped
<1>7. CustomerTyped
    <2>1. customer \in Customer \cup {Unregistered}
        BY DEF Init, Customer, KycStatus
    <2>2. review \in Reviews
        BY CustomersAssumption DEF Init, Reviews
    <2>3. syncs \in [Syncs -> SyncStates]
        BY DEF Init, SyncStates
    <2> QED
        BY <2>1, <2>2, <2>3 DEF CustomerTyped
<1>8. RejectedIsLowest
    BY DEF Init, RejectedIsLowest
<1> QED
    BY <1>1, <1>2, <1>3, <1>4, <1>5, <1>6, <1>7, <1>8 DEF TypedInv

LEMMA TypedStays ==
    ASSUME TypedInv, [Next]_vars
    PROVE  TypedInv'
<1>1. env' \in Environments
    BY Fixed DEF TypedInv
<1> QED
    BY <1>1, FormStaysTyped, PressesStayTyped, KeysStayDense, RowsStayTyped, RatesStayTyped,
       CustomerStaysTyped DEF TypedInv

LEMMA IsTyped == Spec => [](TypedInv /\ RejectedIsLowest)
<1>1. Init => TypedInv /\ RejectedIsLowest
    BY InitTyped
<1>2. TypedInv /\ RejectedIsLowest /\ [Next]_vars => (TypedInv /\ RejectedIsLowest)'
    BY TypedStays, RejectedStaysLowest
<1> QED
    BY <1>1, <1>2, PTL DEF Spec

\* Type correctness: the inputs, the requests and the rows are what the code stores,
\* keys are minted in order and a row of transfers is some press's.
THEOREM TypeCorrect == Spec => []TypeOK
<1>1. TypedInv => TypeOK
    <2>1. SUFFICES ASSUME TypedInv PROVE TypeOK
        OBVIOUS
    <2>2. idem \in [sig : Form, key : 0..MaxPresses]
        <3>1. Len(presses) \in Nat /\ Len(presses) <= MaxPresses
            BY <2>1, PressesLength DEF TypedInv, PressesTyped
        <3>2. 0..Len(presses) \subseteq 0..MaxPresses
            BY <3>1, SendMoneyAssumption
        <3> QED
            BY <2>1, <3>2 DEF TypedInv, FormTyped
    <2> QED
        BY <2>1, <2>2 DEF TypeOK, TypedInv, FormTyped, PressesTyped, RowsTyped, RatesTyped,
                          CustomerTyped
<1> QED
    BY <1>1, IsTyped, PTL

-----------------------------------------------------------------------------
(* Identity checks *)

\* Whoever is rejected passes the limit with the lowest cap.
LowestPasses ==
    \A i \in DOMAIN presses :
        /\ At(i, "limit") /\ presses'[i].pc = "price"
        /\ customer # Unregistered /\ customer.kycStatus = "rejected"
        => sendMinorOf(i) <= CapByLevel[0]

LEMMA RejectedPassLowest ==
    ASSUME TypedInv, RejectedIsLowest, ~Doing("admin_kyc"), [Next]_vars
    PROVE  LowestPasses
<1> SUFFICES ASSUME NEW i \in DOMAIN presses,
                    presses[i].pc = "limit", presses'[i].pc = "price",
                    customer # Unregistered, customer.kycStatus = "rejected"
             PROVE  sendMinorOf(i) <= CapByLevel[0]
    BY DEF LowestPasses, At
<1>1. customer.kycLevel = 0
    BY DEF RejectedIsLowest
<1>2. presses'[i] # presses[i] /\ PressesTyped
    BY DEF TypedInv
<1>3. CASE Press
    BY <1>2, <1>3, PressAdds
<1>4. CASE Quiet
    BY <1>2, <1>4 DEF Quiet
<1>5. ASSUME NEW j \in DOMAIN presses, Server(j)
      PROVE  sendMinorOf(i) <= CapByLevel[0]
    <2>1. j = i
        BY <1>2, <1>5, ServerMoves, MovesKeeps
    <2>2. AssertWithinLimit(i)
        BY <1>5, <2>1 DEF Server, RequireCustomer, AssertClear, Price, CreateTransfer,
                          RunTransfer, At
    <2>3. ~(sendMinorOf(i) > capForLevel)
        <3>1. SUFFICES ASSUME sendMinorOf(i) > capForLevel PROVE FALSE
            OBVIOUS
        <3>2. GoesTo(i, "refused")
            BY <2>2, <3>1 DEF AssertWithinLimit, Refuses
        <3>3. presses'[i].pc = "refused"
            BY <1>2, <3>2, GoesToMoves, MovesKeeps DEF PressStates
        <3> QED
            BY <3>3
    <2>4. sendMinorOf(i) \in Int /\ CapByLevel[0] \in Int
        BY MinorOfAPress, CustomersAssumption
    <2> QED
        BY <1>1, <2>3, <2>4 DEF capForLevel
<1> QED
    BY <1>3, <1>4, <1>5, Steps

\* A row gains a tier only by a sync that writes, with what that sync has read.
RaisedBySync ==
    tierOf(customer') > tierOf(customer) =>
        \E s \in Syncs : Persists(s) /\ (syncs[s].review = "approved" \/ Overtaken(s))

\* The registry's other writers leave the tier alone, unless the admin sets it.
TierStands == tierOf(customer') = tierOf(customer)

LEMMA TierChanges ==
    ASSUME TypedInv, ~Doing("admin_kyc"), [Next]_vars
    PROVE  \/ TierStands /\ UNCHANGED syncs
           \/ TierStands /\ \E s \in Syncs : SyncStarts(s) \/ SyncReadsCustomer(s)
           \/ \E s \in Syncs : SyncPersists(s)
<1>1. CASE UNCHANGED <<customer, review, syncs>>
    BY <1>1 DEF TierStands
<1>2. ASSUME NEW status \in {"active", "blocked"}, SetCustomerStatus(status)
      PROVE  TierStands /\ UNCHANGED syncs
    <2>1. customer \in Customer /\ customer' = [customer EXCEPT !.status = status]
        BY <1>2 DEF SetCustomerStatus, TypedInv, CustomerTyped
    <2>2. customer'.kycLevel = customer.kycLevel /\ customer' \in Customer
        BY <2>1 DEF Customer
    <2>3. Unregistered \notin Customer
        BY DEF Unregistered, Customer
    <2> QED
        BY <1>2, <2>1, <2>2, <2>3 DEF SetCustomerStatus, TierStands, tierOf
<1>3. CASE Review \/ \E s \in Syncs : SyncStarts(s) \/ SyncReadsCustomer(s)
    BY <1>3 DEF Review, SyncStarts, SyncReadsCustomer, TierStands
<1> QED
    BY <1>1, <1>2, <1>3, ComplianceOnly DEF Compliance

\* What a sync that writes leaves of the tier.
LEMMA SyncSetsTier ==
    ASSUME TypedInv, NEW s \in Syncs, SyncPersists(s)
    PROVE  /\ Persists(s) /\ \A u \in Syncs \ {s} : syncs'[u] = syncs[u]
           /\ tierOf(customer') \in 0..2 /\ tierOf(customer) \in 0..2
           /\ tierOf(syncs[s].existing) \in 0..2
           /\ \/ TierStands
              \/ tierOf(customer') = 0
              \/ syncs[s].review = "approved"
              \/ tierOf(customer') = tierOf(syncs[s].existing)
<1>1. syncs \in [Syncs -> SyncStates] /\ customer \in Customer \cup {Unregistered}
    BY DEF TypedInv, CustomerTyped
<1>2. syncs[s].pc = "persist" /\ syncs' = [syncs EXCEPT ![s] = NoSync]
    BY DEF SyncPersists
<1>3. Persists(s) /\ \A u \in Syncs \ {s} : syncs'[u] = syncs[u]
    BY <1>1, <1>2 DEF Persists
<1>4. syncs[s] \in [pc : {"persist"}, review : KycStatus, existing : Customer \cup {Unregistered}]
    BY <1>1, <1>2 DEF SyncStates, NoSync
<1>5. \A row \in Customer \cup {Unregistered} : tierOf(row) \in 0..2
    BY DEF tierOf, Customer
<1> DEFINE level == kycLevelOf(syncs[s])
<1>6. \/ syncs[s].review = "approved" \/ level = 0
      \/ level = tierOf(syncs[s].existing)
    BY DEF kycLevelOf, tierOf
<1>7. level \in 0..2
    BY <1>2, SyncWrites DEF TypedInv
<1> HIDE DEF level
<1>8. \/ UNCHANGED customer
      \/ tierOf(customer') = level
    <2>1. CASE setCustomerKyc(level, syncs[s].review)
        <3>1. customer' = [customer EXCEPT !.kycLevel = level, !.kycStatus = syncs[s].review]
              /\ customer \in Customer
            BY <1>1, <2>1 DEF setCustomerKyc
        <3>2. customer' \in Customer /\ customer'.kycLevel = level
            BY <1>4, <1>7, <3>1 DEF Customer
        <3> QED
            BY <3>2 DEF tierOf, Customer, Unregistered
    <2>2. CASE createCustomer(level, syncs[s].review)
        <3>1. customer' = [status |-> "active", kycLevel |-> level, kycStatus |-> syncs[s].review]
            BY <2>2 DEF createCustomer
        <3>2. customer' \in Customer /\ customer'.kycLevel = level
            BY <1>4, <1>7, <3>1 DEF Customer
        <3> QED
            BY <3>2 DEF tierOf, Customer, Unregistered
    <2> QED
        BY <2>1, <2>2 DEF SyncPersists, level
<1> QED
    BY <1>1, <1>3, <1>4, <1>5, <1>6, <1>7, <1>8 DEF TierStands

\* A failed identity check takes the tier with it, and no send above the lowest cap
\* passes the limit of a row that says rejected; the tier comes back by an approval, or
\* by a sync under review that another one has overtaken.
THEOREM RejectionTakesTheTier == Spec => RejectionDropsTheTier
<1>1. TypedInv /\ RejectedIsLowest /\ [Next]_vars
          => [~Doing("admin_kyc") => DropsTheTier]_<<presses, customer>>
    <2> SUFFICES ASSUME TypedInv, RejectedIsLowest, [Next]_vars, ~Doing("admin_kyc")
                 PROVE  DropsTheTier
        OBVIOUS
    <2>1. customer' # Unregistered /\ customer'.kycStatus = "rejected" => tierOf(customer') = 0
        <3>1. RejectedIsLowest' /\ env' = env
            BY RejectedStaysLowest, Fixed
        <3> QED
            BY <3>1 DEF RejectedIsLowest, Doing, tierOf
    <2>2. RaisedBySync
        <3> SUFFICES ASSUME tierOf(customer') > tierOf(customer)
                     PROVE  \E s \in Syncs : Persists(s) /\ (syncs[s].review = "approved" \/ Overtaken(s))
            BY DEF RaisedBySync
        <3>1. PICK s \in Syncs : SyncPersists(s) \/ TierStands
            <4>1. CASE TierStands
                <5>1. tierOf(customer) \in 0..2
                    BY DEF TypedInv, CustomerTyped, tierOf, Customer
                <5> QED
                    BY <4>1, <5>1 DEF TierStands
            <4> QED
                BY <4>1, TierChanges
        <3>2. tierOf(customer) \in 0..2
            BY DEF TypedInv, CustomerTyped, tierOf, Customer
        <3>3. SyncPersists(s) /\ ~TierStands
            BY <3>1, <3>2 DEF TierStands
        <3> QED
            BY <3>2, <3>3, SyncSetsTier DEF Overtaken
    <2> QED
        BY <2>1, <2>2, RejectedPassLowest DEF DropsTheTier, RaisedBySync, LowestPasses
<1> QED
    BY <1>1, IsTyped, PTL DEF Spec, RejectionDropsTheTier

\* One identity check of the customer is synced at a time.
OneSync == \A s, u \in Syncs : s # u => syncs[s] = NoSync \/ syncs[u] = NoSync

\* Then what a sync has read of the tier is what the row still says.
ReadsAreCurrent ==
    ~Doing("admin_kyc") =>
        \A s \in Syncs : syncs[s].pc = "persist" => tierOf(syncs[s].existing) = tierOf(customer)

LEMMA ReadsStayCurrent ==
    ASSUME TypedInv, OneSync, ReadsAreCurrent, [Next]_vars
    PROVE  ReadsAreCurrent'
<1>1. env' = env /\ syncs \in [Syncs -> SyncStates]
    BY Fixed DEF TypedInv, CustomerTyped
<1> SUFFICES ASSUME ~Doing("admin_kyc"), NEW u \in Syncs, syncs'[u].pc = "persist"
             PROVE  tierOf(syncs'[u].existing) = tierOf(customer')
    BY <1>1 DEF ReadsAreCurrent, Doing
<1>2. CASE TierStands /\ UNCHANGED syncs
    BY <1>2 DEF ReadsAreCurrent, TierStands
<1>3. ASSUME TierStands, NEW s \in Syncs, SyncStarts(s)
      PROVE  tierOf(syncs'[u].existing) = tierOf(customer')
    <2>1. syncs'[u] = syncs[u]
        BY <1>1, <1>3 DEF SyncStarts
    <2> QED
        BY <1>3, <2>1 DEF ReadsAreCurrent, TierStands
<1>4. ASSUME TierStands, NEW s \in Syncs, SyncReadsCustomer(s)
      PROVE  tierOf(syncs'[u].existing) = tierOf(customer')
    <2>1. CASE u = s
        BY <1>1, <1>4, <2>1 DEF SyncReadsCustomer
    <2>2. CASE u # s
        <3>1. syncs'[u] = syncs[u]
            BY <1>1, <1>4, <2>2 DEF SyncReadsCustomer
        <3> QED
            BY <1>4, <3>1 DEF ReadsAreCurrent, TierStands
    <2> QED
        BY <2>1, <2>2
<1>5. ASSUME NEW s \in Syncs, SyncPersists(s) PROVE FALSE
    <2>1. u # s /\ syncs'[u] = syncs[u] /\ syncs[s].pc = "persist"
        BY <1>5, SyncSetsTier DEF Persists, NoSync
    <2> QED
        BY <2>1 DEF OneSync, NoSync
<1> QED
    BY <1>2, <1>3, <1>4, <1>5, TierChanges

\* The tier is raised by an approval only.
RisesOnApproval ==
    ~Doing("admin_kyc") /\ tierOf(customer') > tierOf(customer) =>
        \E s \in Syncs : Persists(s) /\ syncs[s].review = "approved"

\* While one identity check is synced at a time, a dropped tier comes back by an
\* approval only: a sync under review keeps the tier there is (sync).
THEOREM TierComesBackOnApproval == Spec /\ []OneSync => [][RisesOnApproval]_customer
<1>1. Init => ReadsAreCurrent
    BY DEF Init, ReadsAreCurrent, NoSync
<1>2. TypedInv /\ OneSync /\ ReadsAreCurrent /\ [Next]_vars => ReadsAreCurrent'
    BY ReadsStayCurrent
<1>3. TypedInv /\ ReadsAreCurrent /\ [Next]_vars => [RisesOnApproval]_customer
    <2> SUFFICES ASSUME TypedInv, ReadsAreCurrent, [Next]_vars, ~Doing("admin_kyc"),
                        tierOf(customer') > tierOf(customer)
                 PROVE  \E s \in Syncs : Persists(s) /\ syncs[s].review = "approved"
        BY DEF RisesOnApproval
    <2>1. tierOf(customer) \in 0..2
        BY DEF TypedInv, CustomerTyped, tierOf, Customer
    <2>2. ~TierStands
        BY <2>1 DEF TierStands
    <2>3. PICK s \in Syncs : SyncPersists(s)
        BY <2>2, TierChanges
    <2>4. tierOf(syncs[s].existing) = tierOf(customer)
        BY <2>3 DEF ReadsAreCurrent, SyncPersists
    <2> QED
        BY <2>1, <2>2, <2>3, <2>4, SyncSetsTier DEF TierStands
<1> QED
    BY <1>1, <1>2, <1>3, IsTyped, PTL DEF Spec

-----------------------------------------------------------------------------
(* Pressing again *)

\* The ref is of the last press, in this visit; empty, this visit had no press.
RefIsLast ==
    IF idem.key = 0
    THEN \A i \in DOMAIN presses : presses[i].visit < visit
    ELSE /\ Len(presses) \in DOMAIN presses
         /\ presses[Len(presses)].key = idem.key
         /\ presses[Len(presses)].content = idem.sig
         /\ presses[Len(presses)].visit = visit

OneContentPerKey ==
    \A i, j \in DOMAIN presses :
        presses[i].key = presses[j].key => presses[i].content = presses[j].content

\* RetrySendsOnce, of presses that were booked or not.
KeyIsKept ==
    \A i, j \in DOMAIN presses :
        i < j /\ presses[i].content = presses[j].content /\ presses[i].key # presses[j].key
        => \/ presses[i].visit # presses[j].visit
           \/ \E k \in i..j : presses[k].content # presses[i].content

PressInv == RefIsLast /\ OneContentPerKey /\ KeyIsKept

\* The last press, when it has the key of the ref, is the one before this.
LEMMA PressFollows ==
    ASSUME TypedInv, PressInv, Press
    PROVE  PressInv'
<1> DEFINE N == Len(presses)
           p == presses'[N + 1]
<1>1. p = [pc |-> "gate", content |-> form, key |-> idem'.key, visit |-> visit,
           shown |-> quotes[form.amount], priced |-> <<>>]
    BY PressAdds
<1>2. p.content = form /\ p.key = idem'.key /\ p.visit = visit
    BY <1>1
<1> HIDE DEF p
<1>3. /\ N \in Nat /\ Len(presses') = N + 1 /\ DOMAIN presses = 1..N
      /\ DOMAIN presses' = 1..(N + 1) /\ \A i \in DOMAIN presses : presses'[i] = presses[i]
    BY PressAdds
<1>4. idem' = [sig |-> form, key |-> idem'.key] /\ idem'.key = idemKeyFor(form)
    BY PressAdds
<1>5. idem'.sig = form /\ visit' = visit
    BY <1>4 DEF Press, formVars
<1>6. idem'.key # 0
    BY <1>3, PressKeepsKeys
<1>7. RefIsLast'
    BY <1>2, <1>3, <1>5, <1>6 DEF RefIsLast, p
<1>8. PICK n \in 0..N : {presses[i].key : i \in DOMAIN presses} = 1..n /\ idem.key \in 0..n
    BY DEF TypedInv, KeysAreDense
<1>9. CASE idem.key # 0 /\ idem.sig = form
    <2>1. /\ N \in DOMAIN presses /\ presses[N].key = p.key
          /\ presses[N].content = p.content /\ presses[N].visit = p.visit
        BY <1>2, <1>4, <1>9 DEF idemKeyFor, PressInv, RefIsLast
    <2>2. ASSUME NEW i \in DOMAIN presses', NEW j \in DOMAIN presses',
                 presses'[i].key = presses'[j].key
          PROVE  presses'[i].content = presses'[j].content
        <3> DEFINE a == IF i = N + 1 THEN N ELSE i
                   b == IF j = N + 1 THEN N ELSE j
        <3>1. /\ a \in DOMAIN presses /\ presses[a].key = presses'[i].key
              /\ presses[a].content = presses'[i].content
            BY <1>3, <2>1 DEF p
        <3>2. /\ b \in DOMAIN presses /\ presses[b].key = presses'[j].key
              /\ presses[b].content = presses'[j].content
            BY <1>3, <2>1 DEF p
        <3> HIDE DEF a, b
        <3> QED
            BY <2>2, <3>1, <3>2 DEF PressInv, OneContentPerKey
    <2>3. ASSUME NEW i \in DOMAIN presses, presses[i].content = p.content,
                 presses[i].key # p.key
          PROVE  \/ presses[i].visit # p.visit
                 \/ \E k \in i..N : presses[k].content # presses[i].content
        <3>1. i < N
            BY <1>3, <2>1, <2>3
        <3> QED
            BY <2>1, <2>3, <3>1 DEF PressInv, KeyIsKept
    <2>4. ASSUME NEW i \in DOMAIN presses', NEW j \in DOMAIN presses', i < j,
                 presses'[i].content = presses'[j].content, presses'[i].key # presses'[j].key
          PROVE  \/ presses'[i].visit # presses'[j].visit
                 \/ \E k \in i..j : presses'[k].content # presses'[i].content
        <3>1. i \in DOMAIN presses /\ presses'[i] = presses[i]
            BY <1>3, <2>4
        <3>2. CASE j = N + 1
            <4>1. \/ presses[i].visit # p.visit
                  \/ \E k \in i..N : presses[k].content # presses[i].content
                BY <2>3, <2>4, <3>1, <3>2 DEF p
            <4>2. ASSUME NEW k \in i..N, presses[k].content # presses[i].content
                  PROVE  k \in i..j /\ presses'[k].content # presses'[i].content
                BY <1>3, <3>1, <3>2, <4>2
            <4> QED
                BY <3>1, <3>2, <4>1, <4>2 DEF p
        <3>3. CASE j \in DOMAIN presses
            <4>1. \/ presses[i].visit # presses[j].visit
                  \/ \E k \in i..j : presses[k].content # presses[i].content
                BY <1>3, <2>4, <3>1, <3>3 DEF PressInv, KeyIsKept
            <4>2. ASSUME NEW k \in i..j, presses[k].content # presses[i].content
                  PROVE  presses'[k].content # presses'[i].content
                BY <1>3, <3>1, <3>3, <4>2
            <4> QED
                BY <1>3, <3>1, <3>3, <4>1, <4>2
        <3> QED
            BY <1>3, <3>2, <3>3
    <2> QED
        BY <1>7, <2>2, <2>4 DEF PressInv, OneContentPerKey, KeyIsKept
<1>10. CASE ~(idem.key # 0 /\ idem.sig = form)
    <2>1. p.key = n + 1
        <3>1. NewKey = n + 1
            BY <1>8, KeysAreNext
        <3> QED
            BY <1>2, <1>4, <1>10, <3>1 DEF idemKeyFor
    <2>2. \A i \in DOMAIN presses : presses[i].key # p.key
        <3>1. ASSUME NEW i \in DOMAIN presses PROVE presses[i].key \in 1..n
            BY <1>8
        <3> QED
            BY <1>3, <1>8, <2>1, <3>1
    <2>3. ASSUME NEW i \in DOMAIN presses', NEW j \in DOMAIN presses',
                 presses'[i].key = presses'[j].key
          PROVE  presses'[i].content = presses'[j].content
        <3>1. CASE i \in DOMAIN presses /\ j \in DOMAIN presses
            BY <1>3, <2>3, <3>1 DEF PressInv, OneContentPerKey
        <3>2. CASE i = N + 1 /\ j = N + 1
            BY <3>2
        <3>3. CASE i = N + 1 /\ j \in DOMAIN presses
            BY <1>3, <2>2, <2>3, <3>3 DEF p
        <3>4. CASE j = N + 1 /\ i \in DOMAIN presses
            BY <1>3, <2>2, <2>3, <3>4 DEF p
        <3> QED
            BY <1>3, <3>1, <3>2, <3>3, <3>4
    <2>4. ASSUME NEW i \in DOMAIN presses, presses[i].content = p.content,
                 presses[i].visit = p.visit
          PROVE  \E k \in i..(N + 1) : presses'[k].content # presses[i].content
        <3>1. idem.key # 0
            <4>1. SUFFICES ASSUME idem.key = 0 PROVE FALSE
                OBVIOUS
            <4>2. presses[i].visit < visit
                BY <4>1 DEF PressInv, RefIsLast
            <4>3. visit \in Int
                BY DEF TypedInv, FormTyped
            <4> QED
                BY <1>2, <2>4, <4>2, <4>3
        <3>2. N \in DOMAIN presses /\ presses[N].content # p.content
            BY <1>2, <1>10, <3>1 DEF PressInv, RefIsLast
        <3>3. N \in i..(N + 1) /\ presses'[N].content # presses[i].content
            BY <1>3, <2>4, <3>2
        <3> QED
            BY <3>3
    <2>5. ASSUME NEW i \in DOMAIN presses', NEW j \in DOMAIN presses', i < j,
                 presses'[i].content = presses'[j].content, presses'[i].key # presses'[j].key
          PROVE  \/ presses'[i].visit # presses'[j].visit
                 \/ \E k \in i..j : presses'[k].content # presses'[i].content
        <3>1. i \in DOMAIN presses /\ presses'[i] = presses[i]
            BY <1>3, <2>5
        <3>2. CASE j = N + 1
            BY <2>4, <2>5, <3>1, <3>2 DEF p
        <3>3. CASE j \in DOMAIN presses
            <4>1. \/ presses[i].visit # presses[j].visit
                  \/ \E k \in i..j : presses[k].content # presses[i].content
                BY <1>3, <2>5, <3>1, <3>3 DEF PressInv, KeyIsKept
            <4>2. ASSUME NEW k \in i..j, presses[k].content # presses[i].content
                  PROVE  presses'[k].content # presses'[i].content
                BY <1>3, <3>1, <3>3, <4>2
            <4> QED
                BY <1>3, <3>1, <3>3, <4>1, <4>2
        <3> QED
            BY <1>3, <3>2, <3>3
    <2> QED
        BY <1>7, <2>3, <2>5 DEF PressInv, OneContentPerKey, KeyIsKept
<1> QED
    BY <1>9, <1>10

LEMMA PressesFollow ==
    ASSUME TypedInv, PressInv, [Next]_vars
    PROVE  PressInv'
<1>1. CASE Press
    BY <1>1, PressFollows
<1>2. CASE ~Press
    <2>1. PressesKeep
        BY <1>2, Steps, ServerMoves, MovesKeeps DEF Quiet, TypedInv
    <2>2. /\ DOMAIN presses' = DOMAIN presses /\ Len(presses') = Len(presses)
          /\ \A i \in DOMAIN presses :
                /\ presses'[i].content = presses[i].content /\ presses'[i].key = presses[i].key
                /\ presses'[i].visit = presses[i].visit
        BY <2>1 DEF PressesKeep
    <2>3. OneContentPerKey'
        BY <2>2 DEF PressInv, OneContentPerKey
    <2>4. KeyIsKept'
        <3>1. ASSUME NEW i \in DOMAIN presses, NEW j \in DOMAIN presses, i < j,
                     presses[i].content = presses[j].content, presses[i].key # presses[j].key
              PROVE  \/ presses[i].visit # presses[j].visit
                     \/ \E k \in i..j : presses'[k].content # presses[i].content
            <4>1. \/ presses[i].visit # presses[j].visit
                  \/ \E k \in i..j : presses[k].content # presses[i].content
                BY <3>1 DEF PressInv, KeyIsKept
            <4>2. ASSUME NEW k \in i..j PROVE k \in DOMAIN presses
                BY PressesLength DEF TypedInv, PressesTyped
            <4> QED
                BY <2>2, <4>1, <4>2
        <3> QED
            BY <2>2, <3>1 DEF KeyIsKept
    <2>5. RefIsLast'
        <3>1. CASE visit' = visit /\ idem' = idem
            BY <2>2, <3>1 DEF PressInv, RefIsLast
        <3>2. CASE visit' = visit + 1 /\ idem' = NoIdem /\ presses' = presses
            <4>1. idem'.key = 0
                BY <3>2 DEF NoIdem
            <4>2. ASSUME NEW i \in DOMAIN presses PROVE presses'[i].visit < visit'
                <5>1. presses[i].visit \in 1..visit /\ visit \in 1..MaxVisits
                    BY DEF TypedInv, PressesTyped, FormTyped
                <5> QED
                    BY <3>2, <5>1, SendMoneyAssumption
            <4> QED
                BY <2>2, <4>1, <4>2 DEF RefIsLast
        <3> QED
            BY <1>2, <3>1, <3>2, VisitsCount
    <2> QED
        BY <2>3, <2>4, <2>5 DEF PressInv
<1> QED
    BY <1>1, <1>2

\* A retry after a lost answer never sends twice, and what is booked under a key is
\* what every press with that key asked for.
THEOREM RetriesAreSafe == Spec => []SendsAreAsAsked
<1>1. Init => PressInv
    <2> SUFFICES ASSUME Init PROVE PressInv
        OBVIOUS
    <2>1. DOMAIN presses = {} /\ idem.key = 0
        BY DEF Init, NoIdem
    <2> QED
        BY <2>1 DEF PressInv, RefIsLast, OneContentPerKey, KeyIsKept
<1>2. TypedInv /\ PressInv /\ [Next]_vars => PressInv'
    BY PressesFollow
<1>3. TypedInv /\ PressInv => SendsAreAsAsked
    <2> SUFFICES ASSUME TypedInv, PressInv PROVE SendsAreAsAsked
        OBVIOUS
    <2>1. RetrySendsOnce
        BY DEF RetrySendsOnce, PressInv, KeyIsKept
    <2>2. ASSUME NEW i \in DOMAIN presses, presses[i].key \in DOMAIN transfers
          PROVE  transfers[presses[i].key].content = presses[i].content
        <3> DEFINE t == transfers[presses[i].key]
        <3>1. /\ t.by \in DOMAIN presses /\ presses[t.by].key = presses[i].key
              /\ t.content = presses[t.by].content
            BY <2>2 DEF TypedInv, RowsTyped
        <3> QED
            BY <3>1 DEF PressInv, OneContentPerKey
    <2> QED
        BY <2>1, <2>2 DEF SendsAreAsAsked, BookedIsWhatWasAsked
<1> QED
    BY <1>1, <1>2, <1>3, IsTyped, PTL DEF Spec

-----------------------------------------------------------------------------
(* What a request knows of its transfer *)

\* A request that was priced has a price, one that created its row has it, and one
\* that was answered reports it.
BookOf(i) ==
    /\ presses[i].pc \in {"create", "run"} =>
          presses[i].priced = [quote |-> presses[i].priced.quote,
                               asOf |-> presses[i].priced.asOf]
    /\ presses[i].pc = "run" => presses[i].key \in DOMAIN transfers
    /\ presses[i].pc = "answered" =>
          /\ presses[i].key \in DOMAIN transfers
          /\ transfers[presses[i].key].status = "completed"
          /\ presses[i].priced = [quote |-> transfers[presses[i].key].quote,
                                  asOf |-> transfers[presses[i].key].asOf]

BookInv == \A i \in DOMAIN presses : BookOf(i)

\* The rows that are there stay, whether one is booked or not.
LEMMA RowsRemain ==
    ASSUME TypedInv, [Next]_vars, NEW k \in DOMAIN transfers
    PROVE  /\ k \in DOMAIN transfers'
           /\ transfers'[k].content = transfers[k].content
           /\ transfers'[k].quote = transfers[k].quote
           /\ transfers'[k].asOf = transfers[k].asOf /\ transfers'[k].by = transfers[k].by
           /\ transfers[k].status = "completed" => transfers'[k] = transfers[k]
<1>1. CASE RowsKeep
    <2>1. DOMAIN transfers' = DOMAIN transfers
        BY <1>1 DEF RowsKeep
    <2> QED
        BY <1>1, <2>1 DEF RowsKeep
<1>2. ASSUME NEW i \in DOMAIN presses, Books(i)
      PROVE  k \in DOMAIN transfers' /\ transfers'[k] = transfers[k]
    BY <1>2, BooksOne
<1> QED
    BY <1>1, <1>2, RowsStay

\* A request that does not move keeps what it knows.
LEMMA BookStays ==
    ASSUME TypedInv, BookInv, [Next]_vars, NEW i \in DOMAIN presses,
           presses'[i] = presses[i] \/ presses'[i].pc \notin {"create", "run", "answered"}
    PROVE  BookOf(i)'
<1>1. CASE presses'[i] = presses[i]
    <2> DEFINE k == presses[i].key
    <2>1. BookOf(i)
        BY DEF BookInv
    <2>2. k \in DOMAIN transfers =>
             /\ k \in DOMAIN transfers'
             /\ transfers'[k].quote = transfers[k].quote
             /\ transfers'[k].asOf = transfers[k].asOf
             /\ transfers[k].status = "completed" => transfers'[k] = transfers[k]
        BY RowsRemain
    <2> DEFINE p == presses[i]
               q == presses'[i]
    <2>3. q = p
        BY <1>1
    <2> HIDE DEF p, q
    <2> QED
        BY <2>1, <2>2, <2>3 DEF BookOf, p, q
<1>2. CASE presses'[i].pc \notin {"create", "run", "answered"}
    BY <1>2 DEF BookOf
<1> QED
    BY <1>1, <1>2

LEMMA ServerBooks ==
    ASSUME TypedInv, BookInv, [Next]_vars, NEW i \in DOMAIN presses, Server(i)
    PROVE  BookOf(i)'
<1>1. PressesTyped /\ RowsTyped /\ BookOf(i)
    BY DEF TypedInv, BookInv
<1>2. presses'[i].key = presses[i].key
    BY PressesStay
<1>3. CASE RequireCustomer(i) \/ AssertClear(i) \/ AssertWithinLimit(i)
    <2>1. presses'[i].pc \in {"screening", "limit", "price", "refused"}
        BY <1>1, <1>3, ChecksMove, MovesKeeps DEF PressStates
    <2> QED
        BY <2>1 DEF BookOf
<1>4. CASE Price(i)
    <2>1. presses'[i].pc = "create" /\ presses'[i].priced = PricedNow(i)
        BY <1>1, <1>4, PriceMoves, MovesKeeps DEF PressStates
    <2>2. PricedNow(i) = [quote |-> PricedNow(i).quote, asOf |-> PricedNow(i).asOf]
        BY DEF PricedNow
    <2> QED
        BY <2>1, <2>2 DEF BookOf
<1>5. CASE CreateTransfer(i)
    <2>1. presses[i].pc = "create"
        BY <1>5 DEF CreateTransfer, At
    <2>2. \/ /\ presses'[i].pc = "refused"
          \/ /\ presses'[i].pc = "run" /\ presses'[i].priced = presses[i].priced
             /\ presses[i].key \in DOMAIN transfers'
        <3>1. CASE Moves(i, "refused", presses[i].priced)
            BY <1>1, <3>1, MovesKeeps DEF PressStates
        <3>2. CASE Moves(i, "run", presses[i].priced) /\ presses[i].key \in DOMAIN transfers
                   /\ transfers' = transfers
            BY <1>1, <3>2, MovesKeeps DEF PressStates
        <3>3. CASE Books(i)
            <4>1. Moves(i, "run", presses[i].priced) /\ presses[i].key \in DOMAIN transfers'
                BY <3>3, BooksOne DEF Books
            <4> QED
                BY <1>1, <4>1, MovesKeeps DEF PressStates
        <3>4. CASE transfers' = transfers
            <4> DEFINE row == [content |-> presses[i].content,
                               quote |-> presses[i].priced.quote,
                               asOf |-> presses[i].priced.asOf, by |-> i,
                               status |-> "pending", payout |-> <<>>]
            <4>1. \/ Moves(i, "refused", presses[i].priced)
                  \/ presses[i].key \in DOMAIN transfers /\ Moves(i, "run", presses[i].priced)
                  \/ /\ presses[i].key \notin DOMAIN transfers
                     /\ transfers' = Put(transfers, presses[i].key, row)
                BY <1>1, <1>5, CreateMoves
            <4> HIDE DEF row
            <4>2. ~(/\ presses[i].key \notin DOMAIN transfers
                    /\ transfers' = Put(transfers, presses[i].key, row))
                <5>1. presses[i].key \in DOMAIN Put(transfers, presses[i].key, row)
                    BY DEF Put
                <5> QED
                    BY <3>4, <5>1
            <4> QED
                BY <3>1, <3>2, <3>4, <4>1, <4>2
        <3> QED
            BY <1>5, <3>3, <3>4, CreateBooks
    <2> QED
        BY <1>1, <1>2, <2>1, <2>2 DEF BookOf
<1>6. CASE RunTransfer(i)
    <2> DEFINE k == presses[i].key
    <2>1. presses[i].pc = "run"
        BY <1>6 DEF RunTransfer, At
    <2>2. k \in DOMAIN transfers /\ presses[i].priced = [quote |-> presses[i].priced.quote,
                                                          asOf |-> presses[i].priced.asOf]
        BY <1>1, <2>1 DEF BookOf
    <2>3. CASE Moves(i, "refused", presses[i].priced)
        BY <1>1, <2>3, MovesKeeps DEF PressStates, BookOf
    <2>4. ASSUME Runs(k), NEW priced,
                 priced = [quote |-> transfers[k].quote, asOf |-> transfers[k].asOf],
                 Moves(i, "answered", priced)
          PROVE  BookOf(i)'
        <3>1. presses'[i].pc = "answered" /\ presses'[i].priced = priced
            BY <1>1, <2>4, MovesKeeps DEF PressStates
        <3>2. /\ k \in DOMAIN transfers' /\ transfers'[k].status = "completed"
              /\ transfers'[k].quote = transfers[k].quote
              /\ transfers'[k].asOf = transfers[k].asOf
            BY <1>1, <2>2, <2>4, RunsKeeps, RowsRemain
        <3> HIDE DEF k
        <3>3. k = presses'[i].key
            BY <1>2 DEF k
        <3> QED
            BY <2>4, <3>1, <3>2, <3>3 DEF BookOf
    <2> QED
        BY <1>1, <1>6, <2>2, <2>3, <2>4, RunMoves
<1> QED
    BY <1>3, <1>4, <1>5, <1>6 DEF Server

LEMMA BooksStay ==
    ASSUME TypedInv, BookInv, [Next]_vars
    PROVE  BookInv'
<1>1. CASE Press
    <2> DEFINE N == Len(presses)
    <2>1. /\ N \in Nat /\ DOMAIN presses = 1..N /\ DOMAIN presses' = 1..(N + 1)
          /\ \A i \in DOMAIN presses : presses'[i] = presses[i]
          /\ presses'[N + 1].pc = "gate"
        BY <1>1, PressAdds
    <2>2. ASSUME NEW i \in DOMAIN presses' PROVE BookOf(i)'
        <3>1. CASE i = N + 1
            BY <2>1, <3>1 DEF BookOf
        <3>2. CASE i \in DOMAIN presses
            BY <2>1, <3>2, BookStays
        <3> QED
            BY <2>1, <3>1, <3>2
    <2> QED
        BY <2>2 DEF BookInv
<1>2. CASE Quiet
    <2>1. ASSUME NEW i \in DOMAIN presses PROVE BookOf(i)'
        BY <1>2, BookStays DEF Quiet
    <2>2. DOMAIN presses' = DOMAIN presses
        BY <1>2 DEF Quiet, PressesKeep
    <2> QED
        BY <2>1, <2>2 DEF BookInv
<1>3. ASSUME NEW j \in DOMAIN presses, Server(j)
      PROVE  BookInv'
    <2>1. ASSUME NEW i \in DOMAIN presses PROVE BookOf(i)'
        <3>1. CASE i = j
            BY <1>3, <3>1, ServerBooks
        <3>2. CASE i # j
            <4>1. presses'[i] = presses[i]
                BY <1>3, <3>2, ServerMoves, MovesKeeps DEF TypedInv
            <4> QED
                BY <4>1, BookStays
        <3> QED
            BY <3>1, <3>2
    <2>2. DOMAIN presses' = DOMAIN presses
        BY <1>3, ServerMoves, MovesKeeps DEF TypedInv, PressesKeep
    <2> QED
        BY <2>1, <2>2 DEF BookInv
<1> QED
    BY <1>1, <1>2, <1>3, Steps

LEMMA InitBooks == Init => BookInv
BY DEF Init, BookInv

\* Every answer, to the first request or to a repeated one, reports the transfer as
\* it is booked, even if the rate changed between the two.
THEOREM AnswersAreTheBooking == Spec => []AnswersReportTheBooking
<1>1. TypedInv /\ BookInv /\ [Next]_vars => BookInv'
    BY BooksStay
<1>2. BookInv => AnswersReportTheBooking
    BY DEF BookInv, BookOf, AnswersReportTheBooking, At
<1> QED
    BY <1>1, <1>2, InitBooks, IsTyped, PTL DEF Spec

-----------------------------------------------------------------------------
(* Prices *)

QuoteNow == quote(rates, env.from, To)
AsOf == QuoteNow.asOf

\* What a quote makes of an amount.
FeeOf(q, m) == applyBps(m, q.platformFeeBps)
GrossOf(from, q, m) ==
    floorToPayoutUnit(IF from = To THEN m ELSE convert(m, from, To, q.rate), To)

\* A pricing is of the quote that history h has under its timestamp.
ShownAt(h, last, from, p, m) ==
    /\ p.asOf \in 0..last
    /\ p.rate = h[p.asOf].rate
    /\ p.platformFeeMinor = FeeOf(h[p.asOf], m)
    /\ p.totalDebitMinor = m + FeeOf(h[p.asOf], m)
    /\ p.grossPayoutMinor = GrossOf(from, h[p.asOf], m)
    /\ p.providerFeeMinor = applyBps(GrossOf(from, h[p.asOf], m), h[p.asOf].providerFeeBps)

\* So is what a transfer is booked with, and the fee of its payout.
BookedAt(h, last, from, q, asOf, m) ==
    /\ asOf \in 0..last
    /\ q.rate = h[asOf].rate
    /\ q.feeMinor = FeeOf(h[asOf], m)
    /\ q.totalDebitMinor = m + FeeOf(h[asOf], m)
    /\ q.receiveMinor = GrossOf(from, h[asOf], m)

PaidAt(h, last, payout, receiveMinor) ==
    /\ payout.asOf \in 0..last
    /\ payout.providerFeeMinor = applyBps(receiveMinor, h[payout.asOf].providerFeeBps)

minorOf(amount) == toMinor(amount, env.from)

\* The quotes of the corridor so far, by their timestamps, of which all prices are.
Priced(h) ==
    /\ h[AsOf] = QuoteNow
    /\ \A a \in DOMAIN quotes : ShownAt(h, AsOf, env.from, quotes[a], minorOf(a))
    /\ \A i \in DOMAIN presses :
          /\ ShownAt(h, AsOf, env.from, presses[i].shown, sendMinorOf(i))
          /\ presses[i].pc = "create" =>
                BookedAt(h, AsOf, env.from, presses[i].priced.quote, presses[i].priced.asOf,
                         sendMinorOf(i))
    /\ \A k \in DOMAIN transfers :
          /\ BookedAt(h, AsOf, env.from, transfers[k].quote, transfers[k].asOf,
                      minorOf(transfers[k].content.amount))
          /\ transfers[k].status = "completed" =>
                PaidAt(h, AsOf, transfers[k].payout, transfers[k].quote.receiveMinor)

\* Whatever has a price has a row to be priced by.
PricedByARow ==
    DOMAIN quotes # {} \/ DOMAIN presses # {} => isPriced(rates, env.from, To)

PriceInv == PricedByARow /\ \E h : Priced(h)

\* A rate of one for one converts an amount into itself.
LEMMA IdentityConverts ==
    ASSUME NEW m \in Int, NEW currency
    PROVE  convert(m, currency, currency, Identity) = m
<1>1. scaleOf(currency) - scaleOf(currency) = 0
    BY DEF scaleOf
<1>2. Identity.digits = 1 /\ Identity.scale = 0
    BY DEF Identity
<1> DEFINE up == scaleOf(currency) - scaleOf(currency)
           power == pow10[up - Identity.scale]
<1>3. up >= Identity.scale /\ up - Identity.scale = 0
    BY <1>1, <1>2
<1>4. convert(m, currency, currency, Identity) = m * Identity.digits * power
    BY <1>3 DEF convert
<1>5. pow10[0] = 1
    BY SmallPowers
<1>6. power = 1
    BY <1>3, <1>5
<1> HIDE DEF power
<1> QED
    BY <1>2, <1>4, <1>6

LEMMA QuoteIsDated ==
    ASSUME TypedInv
    PROVE  /\ AsOf \in Nat /\ AsOf \in 0..AsOf
           /\ AsOf = IF <<env.from, To>> \in DOMAIN rates
                     THEN rates[<<env.from, To>>].updatedAt ELSE 0
<1> DEFINE c == <<env.from, To>>
<1>1. AsOf = IF c \in DOMAIN rates THEN rates[c].updatedAt ELSE 0
    BY DEF AsOf, QuoteNow, quote, isConfigured, NoFees
<1>2. c \in DOMAIN rates => rates[c].updatedAt \in Nat
    BY DEF TypedInv, RatesTyped, RateRecord
<1> HIDE DEF c
<1>3. AsOf \in Nat
    BY <1>1, <1>2
<1> QED
    BY <1>1, <1>3 DEF c

\* A row that is set has a new timestamp.
LEMMA QuotesMove ==
    ASSUME TypedInv, [Next]_vars
    PROVE  /\ \/ AsOf' = AsOf /\ QuoteNow' = QuoteNow
              \/ AsOf' = AsOf + 1
           /\ isPriced(rates, env.from, To) => isPriced(rates', env.from, To)
<1>1. env' = env
    BY Fixed
<1>2. CASE rates' = rates
    BY <1>1, <1>2 DEF AsOf, QuoteNow
<1>3. CASE \E change \in RateChanges : SetRate(change[1], change[2])
    <2>1. PICK change \in RateChanges : SetRate(change[1], change[2])
        BY <1>3
    <2> DEFINE c == change[1]
               set == IF c \in DOMAIN rates THEN rates[c].updatedAt ELSE 0
               row == [change[2] EXCEPT !.updatedAt = set + 1]
               d == <<env.from, To>>
    <2>2. rates' = Put(rates, c, row)
        BY <2>1 DEF SetRate
    <2>3. change[2] \in RateRecord
        BY RatesAssumption
    <2>4. row.updatedAt = set + 1
        BY <2>3 DEF RateRecord
    <2>5. /\ DOMAIN rates' = DOMAIN rates \cup {c} /\ rates'[c] = row
          /\ \A e \in DOMAIN rates \ {c} : rates'[e] = rates[e]
        <3> HIDE DEF c, row
        <3> QED
            BY <2>2 DEF Put
    <2>6. AsOf = IF d \in DOMAIN rates THEN rates[d].updatedAt ELSE 0
        BY QuoteIsDated
    <2>7. AsOf' = IF d \in DOMAIN rates' THEN rates'[d].updatedAt ELSE 0
        BY <1>1 DEF AsOf, QuoteNow, quote, isConfigured, NoFees
    <2>8. isPriced(rates, env.from, To) => isPriced(rates', env.from, To)
        BY <2>5 DEF isPriced, isConfigured
    <2>9. CASE c = d
        <3>1. AsOf = set
            BY <2>6, <2>9
        <3> HIDE DEF set, row, c, d
        <3> QED
            BY <2>4, <2>5, <2>7, <2>8, <2>9, <3>1
    <2>10. CASE c # d
        <3>1. (d \in DOMAIN rates' <=> d \in DOMAIN rates)
              /\ (d \in DOMAIN rates => rates'[d] = rates[d])
            <4> HIDE DEF row, c, d
            <4> QED
                BY <2>5, <2>10
        <3>2. QuoteNow' = QuoteNow
            BY <1>1, <3>1 DEF QuoteNow, quote, isConfigured
        <3> QED
            BY <2>8, <3>2 DEF AsOf
    <2> QED
        BY <2>9, <2>10
<1>4. CASE Screen
    BY <1>2, <1>4 DEF Screen, Edits, Edit, SettleAmount, SettleRecipient, Lookup, FetchQuote,
                Reopen, Reset, Press, LoseAnswer
<1>5. CASE \E i \in DOMAIN presses : Server(i)
    BY <1>2, <1>5 DEF Server, RequireCustomer, AssertClear, AssertWithinLimit, Price, CreateTransfer,
                RunTransfer
<1>6. CASE Restart \/ (\E k \in DOMAIN transfers : Recover(k)) \/ Compliance \/ UNCHANGED vars
    BY <1>2, <1>6 DEF Restart, Recover, Compliance, vars
<1> QED
    BY <1>3, <1>4, <1>5, <1>6 DEF Next

\* The quote's price as the app shows it.
LEMMA PriceIsShown ==
    ASSUME TypedInv, NEW m, NEW h, h[AsOf] = QuoteNow
    PROVE  ShownAt(h, AsOf, env.from, priceTransfer(rates, env.from, To, m), m)
<1> DEFINE p == priceTransfer(rates, env.from, To, m)
           q == QuoteNow
<1>1. /\ p.asOf = q.asOf /\ p.rate = q.rate /\ p.platformFeeMinor = FeeOf(q, m)
      /\ p.totalDebitMinor = m + FeeOf(q, m)
      /\ p.grossPayoutMinor = GrossOf(env.from, q, m)
      /\ p.providerFeeMinor = applyBps(GrossOf(env.from, q, m), q.providerFeeBps)
    BY DEF priceTransfer, QuoteNow, FeeOf, GrossOf
<1> HIDE DEF p
<1>2. AsOf \in 0..AsOf
    BY QuoteIsDated
<1>3. q = h[AsOf] /\ p.asOf = AsOf
    BY <1>1 DEF AsOf
<1> QED
    BY <1>1, <1>2, <1>3 DEF ShownAt, p

\* What a transfer is booked with agrees with it.
LEMMA PriceIsBooked ==
    ASSUME TypedInv, NEW m \in Int, NEW h, h[AsOf] = QuoteNow
    PROVE  LET p == priceTransfer(rates, env.from, To, m)
           IN BookedAt(h, AsOf, env.from,
                       quoteTransfer(env.from, To, m, p.platformFeeMinor, p.rate), p.asOf, m)
<1> DEFINE p == priceTransfer(rates, env.from, To, m)
           b == quoteTransfer(env.from, To, m, p.platformFeeMinor, p.rate)
           q == QuoteNow
<1>1. p.asOf = q.asOf /\ p.rate = q.rate /\ p.platformFeeMinor = FeeOf(q, m)
    BY DEF priceTransfer, QuoteNow, FeeOf
<1> HIDE DEF p
<1>2. /\ b.rate = p.rate /\ b.feeMinor = p.platformFeeMinor
      /\ b.totalDebitMinor = m + p.platformFeeMinor
      /\ b.receiveMinor = floorToPayoutUnit(convert(m, env.from, To, p.rate), To)
    BY DEF quoteTransfer
<1> HIDE DEF b
<1>3. convert(m, env.from, To, q.rate) = IF env.from = To THEN m ELSE convert(m, env.from, To, q.rate)
    <2>1. CASE env.from = To
        <3>1. q.rate = Identity
            BY <2>1 DEF QuoteNow, quote
        <3> QED
            BY <2>1, <3>1, IdentityConverts
    <2>2. CASE env.from # To
        BY <2>2
    <2> QED
        BY <2>1, <2>2
<1>4. b.receiveMinor = GrossOf(env.from, q, m)
    BY <1>1, <1>2, <1>3 DEF GrossOf
<1>5. AsOf \in 0..AsOf
    BY QuoteIsDated
<1>6. q = h[AsOf] /\ p.asOf = AsOf
    BY <1>1 DEF AsOf
<1> QED
    BY <1>1, <1>2, <1>4, <1>5, <1>6 DEF BookedAt, b, p

\* A history that goes on has the quotes it had.
LEMMA HistoryGoesOn ==
    ASSUME NEW h, NEW g, NEW last \in Nat, NEW now \in Nat, last <= now,
           \A v \in 0..last : g[v] = h[v], NEW from
    PROVE  /\ \A p, m : ShownAt(h, last, from, p, m) => ShownAt(g, now, from, p, m)
           /\ \A q, asOf, m : BookedAt(h, last, from, q, asOf, m) => BookedAt(g, now, from, q, asOf, m)
           /\ \A payout, m : PaidAt(h, last, payout, m) => PaidAt(g, now, payout, m)
<1>1. 0..last \subseteq 0..now
    OBVIOUS
<1>2. ASSUME NEW p, NEW m, ShownAt(h, last, from, p, m)
      PROVE  ShownAt(g, now, from, p, m)
    <2>1. p.asOf \in 0..now /\ g[p.asOf] = h[p.asOf]
        BY <1>1, <1>2 DEF ShownAt
    <2> QED
        BY <1>2, <2>1 DEF ShownAt
<1>3. ASSUME NEW q, NEW asOf, NEW m, BookedAt(h, last, from, q, asOf, m)
      PROVE  BookedAt(g, now, from, q, asOf, m)
    <2>1. asOf \in 0..now /\ g[asOf] = h[asOf]
        BY <1>1, <1>3 DEF BookedAt
    <2> QED
        BY <1>3, <2>1 DEF BookedAt
<1>4. ASSUME NEW payout, NEW m, PaidAt(h, last, payout, m)
      PROVE  PaidAt(g, now, payout, m)
    <2>1. payout.asOf \in 0..now /\ g[payout.asOf] = h[payout.asOf]
        BY <1>1, <1>4 DEF PaidAt
    <2> QED
        BY <1>4, <2>1 DEF PaidAt
<1> QED
    BY <1>2, <1>3, <1>4

LEMMA QuotesAreFetched ==
    ASSUME [Next]_vars
    PROVE  quotes' = quotes \/ FetchQuote
<1>1. CASE Screen
    BY <1>1 DEF Screen, Edits, Edit, SettleAmount, SettleRecipient, Lookup,
                Reopen, Reset, Press, LoseAnswer, formVars
<1> QED
    BY <1>1, Fixed DEF formVars

\* A row is what it was, or is completed by a payout of this moment.
LEMMA RowsArePaid ==
    ASSUME TypedInv, [Next]_vars, NEW k \in DOMAIN transfers
    PROVE  transfers'[k] = transfers[k] \/ transfers'[k].payout = PayoutNow(k)
<1>1. RowsTyped
    BY DEF TypedInv
<1>2. CASE transfers' = transfers
    BY <1>2
<1>3. ASSUME NEW j, Runs(j)
      PROVE  transfers'[k] = transfers[k] \/ transfers'[k].payout = PayoutNow(k)
    BY <1>1, <1>3, RunsKeeps DEF RowsKeep
<1>4. ASSUME NEW i \in DOMAIN presses, Server(i)
      PROVE  transfers'[k] = transfers[k] \/ transfers'[k].payout = PayoutNow(k)
    <2>1. CASE RequireCustomer(i) \/ AssertClear(i) \/ AssertWithinLimit(i) \/ Price(i)
        BY <1>2, <2>1 DEF RequireCustomer, AssertClear, AssertWithinLimit, Price
    <2>2. CASE CreateTransfer(i)
        BY <2>2, CreateBooks, BooksOne
    <2>3. CASE RunTransfer(i)
        BY <1>2, <1>3, <2>3 DEF RunTransfer
    <2> QED
        BY <1>4, <2>1, <2>2, <2>3 DEF Server
<1>5. CASE Screen
    BY <1>2, <1>5 DEF Screen, Edits, Edit, SettleAmount, SettleRecipient, Lookup, FetchQuote,
                Reopen, Reset, Press, LoseAnswer
<1>6. CASE Restart \/ Compliance \/ UNCHANGED vars
    BY <1>2, <1>6 DEF Restart, Compliance, vars
<1>7. CASE \E change \in RateChanges : SetRate(change[1], change[2])
    BY <1>2, <1>7 DEF SetRate
<1>8. CASE \E j \in DOMAIN transfers : Recover(j)
    BY <1>3, <1>8 DEF Recover
<1> QED
    BY <1>4, <1>5, <1>6, <1>7, <1>8 DEF Next

LEMMA PayoutIsPriced ==
    ASSUME TypedInv, PricedByARow, NEW h, h[AsOf] = QuoteNow, NEW k \in DOMAIN transfers
    PROVE  PaidAt(h, AsOf, PayoutNow(k), transfers[k].quote.receiveMinor)
<1> DEFINE m == transfers[k].quote.receiveMinor
<1>1. DOMAIN presses # {}
    BY DEF TypedInv, RowsTyped
<1>2. resolveProviderFee(rates, env.from, To, m) = applyBps(m, QuoteNow.providerFeeBps)
    BY <1>1 DEF resolveProviderFee, PricedByARow, QuoteNow
<1>3. PayoutNow(k).providerFeeMinor = applyBps(m, h[AsOf].providerFeeBps)
    BY <1>2 DEF PayoutNow
<1>4. PayoutNow(k).asOf = AsOf
    BY DEF PayoutNow, AsOf, QuoteNow
<1>5. AsOf \in 0..AsOf
    BY QuoteIsDated
<1> QED
    BY <1>3, <1>4, <1>5 DEF PaidAt

\* Every price after a step is of the history before it.
LEMMA QuotesArePriced ==
    ASSUME TypedInv, NEW h, Priced(h), [Next]_vars, NEW a \in DOMAIN quotes'
    PROVE  ShownAt(h, AsOf, env.from, quotes'[a], minorOf(a))
<1>1. CASE quotes' = quotes
    BY <1>1 DEF Priced
<1>2. CASE FetchQuote
    <2> DEFINE b == settled.amount
               p == priceTransfer(rates, env.from, To, minorOf(b))
    <2>1. quotes' = Put(quotes, b, p)
        BY <1>2 DEF FetchQuote, minorOf
    <2>2. ShownAt(h, AsOf, env.from, p, minorOf(b))
        BY PriceIsShown DEF Priced
    <2> HIDE DEF p, b
    <2>3. CASE a = b
        BY <2>1, <2>2, <2>3 DEF Put
    <2>4. CASE a # b
        BY <2>1, <2>4 DEF Put, Priced
    <2> QED
        BY <2>3, <2>4
<1> QED
    BY <1>1, <1>2, QuotesAreFetched

\* Only Price brings a request to the booking.
LEMMA PricedByPrice ==
    ASSUME TypedInv, NEW i \in DOMAIN presses, Server(i), presses'[i].pc = "create"
    PROVE  Price(i)
<1>1. PressesTyped
    BY DEF TypedInv
<1>2. CASE RequireCustomer(i) \/ AssertClear(i) \/ AssertWithinLimit(i)
    BY <1>1, <1>2, ChecksMove, MovesKeeps DEF PressStates
<1>3. CASE CreateTransfer(i)
    BY <1>1, <1>3, CreateMoves, MovesKeeps DEF PressStates
<1>4. CASE RunTransfer(i)
    <2>1. \E pc \in {"answered", "refused"} : \E priced : Moves(i, pc, priced)
        BY <1>1, <1>4, RunMoves
    <2> QED
        BY <1>1, <2>1, MovesKeeps DEF PressStates
<1> QED
    BY <1>2, <1>3, <1>4 DEF Server

LEMMA PressesArePriced ==
    ASSUME TypedInv, NEW h, Priced(h), [Next]_vars, NEW i \in DOMAIN presses'
    PROVE  /\ ShownAt(h, AsOf, env.from, presses'[i].shown, sendMinorOf(i)')
           /\ presses'[i].pc = "create" =>
                BookedAt(h, AsOf, env.from, presses'[i].priced.quote, presses'[i].priced.asOf,
                         sendMinorOf(i)')
<1>1. env' = env
    BY Fixed
<1>2. ASSUME i \in DOMAIN presses
      PROVE  /\ ShownAt(h, AsOf, env.from, presses'[i].shown, sendMinorOf(i)')
             /\ sendMinorOf(i)' = sendMinorOf(i)
    <2>1. presses'[i].content = presses[i].content /\ presses'[i].shown = presses[i].shown
        BY <1>2, PressesStay
    <2>2. sendMinorOf(i)' = sendMinorOf(i)
        BY <1>1, <2>1 DEF sendMinorOf
    <2> QED
        BY <1>2, <2>1, <2>2 DEF Priced
<1>3. ASSUME i \in DOMAIN presses, presses'[i] = presses[i]
      PROVE  presses'[i].pc = "create" =>
                BookedAt(h, AsOf, env.from, presses'[i].priced.quote, presses'[i].priced.asOf,
                         sendMinorOf(i)')
    BY <1>2, <1>3 DEF Priced
<1>4. CASE Press
    <2> DEFINE N == Len(presses)
    <2>1. /\ N \in Nat /\ DOMAIN presses = 1..N /\ DOMAIN presses' = 1..(N + 1)
          /\ \A j \in DOMAIN presses : presses'[j] = presses[j]
          /\ presses'[N + 1].pc = "gate" /\ presses'[N + 1].content = form
          /\ presses'[N + 1].shown = quotes[form.amount]
        BY <1>4, PressAdds
    <2>2. CASE i = N + 1
        <3>1. sendMinorOf(i)' = minorOf(form.amount) /\ form.amount \in DOMAIN quotes
            BY <1>1, <1>4, <2>1, <2>2 DEF sendMinorOf, minorOf, Press, canSend
        <3> QED
            BY <2>1, <2>2, <3>1 DEF Priced
    <2>3. CASE i \in DOMAIN presses
        BY <1>2, <1>3, <2>1, <2>3
    <2> QED
        BY <2>1, <2>2, <2>3
<1>5. CASE Quiet
    <2>1. i \in DOMAIN presses
        BY <1>5 DEF Quiet, PressesKeep
    <2> QED
        BY <1>2, <1>3, <1>5, <2>1 DEF Quiet
<1>6. ASSUME NEW j \in DOMAIN presses, Server(j)
      PROVE  /\ ShownAt(h, AsOf, env.from, presses'[i].shown, sendMinorOf(i)')
             /\ presses'[i].pc = "create" =>
                  BookedAt(h, AsOf, env.from, presses'[i].priced.quote, presses'[i].priced.asOf,
                           sendMinorOf(i)')
    <2>0. PressesTyped
        BY DEF TypedInv
    <2>1. i \in DOMAIN presses
        BY <2>0, <1>6, ServerMoves, MovesKeeps DEF PressesKeep
    <2>2. CASE j # i
        <3>1. presses'[i] = presses[i]
            BY <2>0, <1>6, <2>1, <2>2, ServerMoves, MovesKeeps
        <3> QED
            BY <1>2, <1>3, <2>1, <3>1
    <2>3. CASE j = i /\ ~Price(i)
        <3>1. presses'[i].pc # "create"
            BY <1>6, <2>1, <2>3, PricedByPrice
        <3> QED
            BY <1>2, <2>1, <3>1
    <2>4. CASE j = i /\ Price(i)
        <3> DEFINE m == sendMinorOf(i)
                   p == priceTransfer(rates, env.from, To, m)
                   b == quoteTransfer(env.from, To, m, p.platformFeeMinor, p.rate)
        <3>1. presses'[i].priced = [quote |-> b, asOf |-> p.asOf]
            BY <2>0, <2>1, <2>4, PriceMoves, MovesKeeps DEF PressStates, PricedNow
        <3>2. BookedAt(h, AsOf, env.from, b, p.asOf, m)
            BY <2>1, PriceIsBooked, MinorOfAPress DEF Priced
        <3> HIDE DEF b, p, m
        <3>3. BookedAt(h, AsOf, env.from, presses'[i].priced.quote, presses'[i].priced.asOf, m)
            BY <3>1, <3>2
        <3> QED
            BY <1>2, <2>1, <3>3 DEF m
    <2> QED
        BY <2>2, <2>3, <2>4
<1> QED
    BY <1>4, <1>5, <1>6, Steps

LEMMA RowsArePriced ==
    ASSUME TypedInv, NEW h, PricedByARow, Priced(h), [Next]_vars, NEW k \in DOMAIN transfers'
    PROVE  /\ BookedAt(h, AsOf, env.from, transfers'[k].quote, transfers'[k].asOf,
                       minorOf(transfers'[k].content.amount))
           /\ transfers'[k].status = "completed" =>
                PaidAt(h, AsOf, transfers'[k].payout, transfers'[k].quote.receiveMinor)
<1>1. CASE k \in DOMAIN transfers
    <2>1. /\ transfers'[k].content = transfers[k].content
          /\ transfers'[k].quote = transfers[k].quote /\ transfers'[k].asOf = transfers[k].asOf
        BY <1>1, RowsRemain
    <2>2. BookedAt(h, AsOf, env.from, transfers'[k].quote, transfers'[k].asOf,
                   minorOf(transfers'[k].content.amount))
        BY <1>1, <2>1 DEF Priced
    <2>3. CASE transfers'[k] = transfers[k]
        BY <1>1, <2>2, <2>3 DEF Priced
    <2>4. CASE transfers'[k].payout = PayoutNow(k)
        <3>1. PaidAt(h, AsOf, PayoutNow(k), transfers[k].quote.receiveMinor)
            BY <1>1, PayoutIsPriced DEF Priced
        <3> QED
            BY <2>1, <2>2, <2>4, <3>1
    <2> QED
        BY <1>1, <2>3, <2>4, RowsArePaid
<1>2. CASE k \notin DOMAIN transfers
    <2>1. PICK i \in DOMAIN presses : Books(i)
        BY <1>2, RowsStay DEF RowsKeep
    <2> DEFINE key == presses[i].key
    <2>2. /\ DOMAIN transfers' = DOMAIN transfers \cup {key}
          /\ transfers'[key].content = presses[i].content
          /\ transfers'[key].quote = presses[i].priced.quote
          /\ transfers'[key].asOf = presses[i].priced.asOf
          /\ transfers'[key].status = "pending"
        BY <2>1, BooksOne
    <2>3. presses[i].pc = "create"
        BY <2>1 DEF Books
    <2>4. minorOf(transfers'[key].content.amount) = sendMinorOf(i)
        BY <2>2 DEF minorOf, sendMinorOf
    <2>5. BookedAt(h, AsOf, env.from, presses[i].priced.quote, presses[i].priced.asOf,
                   sendMinorOf(i))
        BY <2>3 DEF Priced
    <2> HIDE DEF key
    <2>6. k = key
        BY <1>2, <2>2
    <2> QED
        BY <2>2, <2>4, <2>5, <2>6
<1> QED
    BY <1>1, <1>2

LEMMA RowIsThere ==
    ASSUME TypedInv, PricedByARow, [Next]_vars
    PROVE  PricedByARow'
<1>1. env' = env
    BY Fixed
<1>2. isPriced(rates, env.from, To) => isPriced(rates, env.from, To)'
    BY <1>1, QuotesMove
<1>3. ASSUME DOMAIN quotes' # {}
      PROVE  isPriced(rates, env.from, To)
    <2>1. CASE FetchQuote
        BY <2>1 DEF FetchQuote
    <2>2. CASE quotes' = quotes
        BY <1>3, <2>2 DEF PricedByARow
    <2> QED
        BY <2>1, <2>2, QuotesAreFetched
<1>4. ASSUME DOMAIN presses' # {}
      PROVE  isPriced(rates, env.from, To)
    <2>1. CASE Press
        BY <2>1 DEF Press, canSend, PricedByARow
    <2>2. CASE ~Press
        <3>1. PressesKeep
            BY <2>2, Steps, ServerMoves, MovesKeeps DEF Quiet, TypedInv
        <3> QED
            BY <1>4, <3>1 DEF PressesKeep, PricedByARow
    <2> QED
        BY <2>1, <2>2
<1> QED
    BY <1>2, <1>3, <1>4 DEF PricedByARow

LEMMA PricesStay ==
    ASSUME TypedInv, PriceInv, [Next]_vars
    PROVE  PriceInv'
<1>1. PricedByARow /\ PricedByARow'
    BY RowIsThere DEF PriceInv
<1>2. PICK h : Priced(h)
    BY DEF PriceInv
<1>3. env' = env
    BY Fixed
<1> DEFINE last == AsOf
           now == AsOf'
           q == QuoteNow'
           g == [v \in Nat |-> IF v = now THEN q ELSE h[v]]
<1>4. last \in Nat /\ now \in Nat /\ last <= now
    BY QuoteIsDated, QuotesMove
<1>5. \A v \in 0..last : g[v] = h[v]
    <2>1. CASE AsOf' = AsOf /\ QuoteNow' = QuoteNow
        <3>1. h[now] = q
            BY <1>2, <2>1 DEF Priced
        <3> HIDE DEF last, now, q
        <3> QED
            BY <1>4, <3>1
    <2>2. CASE AsOf' = AsOf + 1
        BY <1>4, <2>2
    <2> QED
        BY <2>1, <2>2, QuotesMove
<1>6. g[now] = q
    BY <1>4
<1> HIDE DEF g
<1> DEFINE from == env.from
<1>7. ASSUME NEW p, NEW m, ShownAt(h, last, from, p, m)
      PROVE  ShownAt(g, now, from, p, m)
    <2> HIDE DEF last, now, q, from
    <2> QED
        BY <1>4, <1>5, <1>7, HistoryGoesOn
<1>8. ASSUME NEW b, NEW asOf, NEW m, BookedAt(h, last, from, b, asOf, m)
      PROVE  BookedAt(g, now, from, b, asOf, m)
    <2> HIDE DEF last, now, q, from
    <2> QED
        BY <1>4, <1>5, <1>8, HistoryGoesOn
<1>9. ASSUME NEW payout, NEW m, PaidAt(h, last, payout, m)
      PROVE  PaidAt(g, now, payout, m)
    <2> HIDE DEF last, now, q, from
    <2> QED
        BY <1>4, <1>5, <1>9, HistoryGoesOn
<1>10. \A a : minorOf(a)' = minorOf(a)
    BY <1>3 DEF minorOf
<1>11. ASSUME NEW a \in DOMAIN quotes'
       PROVE  ShownAt(g, AsOf', env'.from, quotes'[a], minorOf(a)')
    <2>1. ShownAt(h, AsOf, env.from, quotes'[a], minorOf(a))
        BY <1>2, QuotesArePriced
    <2> QED
        BY <1>3, <1>7, <1>10, <2>1
<1>12. ASSUME NEW i \in DOMAIN presses'
       PROVE  /\ ShownAt(g, AsOf', env'.from, presses'[i].shown, sendMinorOf(i)')
              /\ presses'[i].pc = "create" =>
                    BookedAt(g, AsOf', env'.from, presses'[i].priced.quote,
                             presses'[i].priced.asOf, sendMinorOf(i)')
    <2>1. /\ ShownAt(h, AsOf, env.from, presses'[i].shown, sendMinorOf(i)')
          /\ presses'[i].pc = "create" =>
               BookedAt(h, AsOf, env.from, presses'[i].priced.quote, presses'[i].priced.asOf,
                        sendMinorOf(i)')
        BY <1>2, PressesArePriced
    <2> QED
        BY <1>3, <1>7, <1>8, <2>1
<1>13. ASSUME NEW k \in DOMAIN transfers'
       PROVE  /\ BookedAt(g, AsOf', env'.from, transfers'[k].quote, transfers'[k].asOf,
                          toMinor(transfers'[k].content.amount, env'.from))
              /\ transfers'[k].status = "completed" =>
                   PaidAt(g, AsOf', transfers'[k].payout, transfers'[k].quote.receiveMinor)
    <2>1. /\ BookedAt(h, AsOf, env.from, transfers'[k].quote, transfers'[k].asOf,
                      minorOf(transfers'[k].content.amount))
          /\ transfers'[k].status = "completed" =>
               PaidAt(h, AsOf, transfers'[k].payout, transfers'[k].quote.receiveMinor)
        BY <1>1, <1>2, RowsArePriced
    <2> QED
        BY <1>3, <1>8, <1>9, <2>1 DEF minorOf
<1>14. PICK e : e = g
    OBVIOUS
<1>15. Priced(e)'
    <2>1. e[AsOf'] = QuoteNow'
        BY <1>6, <1>14
    <2>2. \A a \in DOMAIN quotes' : ShownAt(e, AsOf', env'.from, quotes'[a], minorOf(a)')
        BY <1>11, <1>14
    <2>3. \A i \in DOMAIN presses' :
              /\ ShownAt(e, AsOf', env'.from, presses'[i].shown, sendMinorOf(i)')
              /\ presses'[i].pc = "create" =>
                    BookedAt(e, AsOf', env'.from, presses'[i].priced.quote,
                             presses'[i].priced.asOf, sendMinorOf(i)')
        BY <1>12, <1>14
    <2>4. \A k \in DOMAIN transfers' :
              /\ BookedAt(e, AsOf', env'.from, transfers'[k].quote, transfers'[k].asOf,
                          toMinor(transfers'[k].content.amount, env'.from))
              /\ transfers'[k].status = "completed" =>
                   PaidAt(e, AsOf', transfers'[k].payout, transfers'[k].quote.receiveMinor)
        BY <1>13, <1>14
    <2> QED
        BY <2>1, <2>2, <2>3, <2>4 DEF Priced, minorOf
<1> QED
    BY <1>1, <1>15 DEF PriceInv

LEMMA InitPriced == Init => PriceInv
<1> SUFFICES ASSUME Init PROVE PriceInv
    OBVIOUS
<1>1. DOMAIN quotes = {} /\ DOMAIN presses = {} /\ DOMAIN transfers = {}
    BY DEF Init
<1> DEFINE last == AsOf
           q == QuoteNow
           h == [v \in {last} |-> q]
<1>2. h[last] = q
    OBVIOUS
<1> HIDE DEF h
<1>3. Priced(h)
    BY <1>1, <1>2 DEF Priced
<1> QED
    BY <1>1, <1>3 DEF PriceInv, PricedByARow

\* Unless the corridor was changed in between, the customer is charged, the recipient is
\* paid and the provider keeps what the screen showed, to the last minor unit, though the
\* preview, the booking and the payout are priced apart.
THEOREM SentAsShown == Spec => []BookedAsShown
<1>1. TypedInv /\ PriceInv /\ [Next]_vars => PriceInv'
    BY PricesStay
<1>2. TypedInv /\ PriceInv => BookedAsShown
    <2> SUFFICES ASSUME TypedInv, PriceInv, NEW k \in DOMAIN transfers
                 PROVE  LET t == transfers[k]
                            shown == presses[t.by].shown
                        IN /\ t.asOf = shown.asOf =>
                                 /\ t.quote.rate = shown.rate
                                 /\ t.quote.feeMinor = shown.platformFeeMinor
                                 /\ t.quote.totalDebitMinor = shown.totalDebitMinor
                                 /\ t.quote.receiveMinor = shown.grossPayoutMinor
                           /\ t.asOf = shown.asOf /\ t.status = "completed"
                              /\ t.payout.asOf = shown.asOf =>
                                 t.payout.providerFeeMinor = shown.providerFeeMinor
        BY DEF BookedAsShown
    <2>1. PICK h : Priced(h)
        BY DEF PriceInv
    <2> DEFINE t == transfers[k]
               i == t.by
               shown == presses[i].shown
               m == sendMinorOf(i)
    <2>2. i \in DOMAIN presses /\ t.content = presses[i].content
        BY DEF TypedInv, RowsTyped
    <2>3. minorOf(t.content.amount) = m
        BY <2>2 DEF minorOf, sendMinorOf
    <2>4. /\ ShownAt(h, AsOf, env.from, shown, m)
          /\ BookedAt(h, AsOf, env.from, t.quote, t.asOf, m)
          /\ t.status = "completed" => PaidAt(h, AsOf, t.payout, t.quote.receiveMinor)
        BY <2>1, <2>2, <2>3 DEF Priced
    <2> HIDE DEF shown, t, m, i
    <2>5. t.asOf = shown.asOf =>
                 /\ t.quote.rate = shown.rate
                 /\ t.quote.feeMinor = shown.platformFeeMinor
                 /\ t.quote.totalDebitMinor = shown.totalDebitMinor
                 /\ t.quote.receiveMinor = shown.grossPayoutMinor
        BY <2>4 DEF ShownAt, BookedAt
    <2>6. t.asOf = shown.asOf /\ t.status = "completed" /\ t.payout.asOf = shown.asOf =>
                 t.payout.providerFeeMinor = shown.providerFeeMinor
        BY <2>4, <2>5 DEF ShownAt, PaidAt
    <2> QED
        BY <2>5, <2>6 DEF shown, t, i
<1> QED
    BY <1>1, <1>2, InitPriced, IsTyped, PTL DEF Spec

-----------------------------------------------------------------------------
(* No rounding mints money *)

\* A pricing costs the customer no less than it pays out.
MintsNothing(from, p) ==
    /\ p.fxMarginMinor >= 0
    /\ from = To => p.grossPayoutMinor <= p.sendMinor
    /\ p.netToRecipientMinor \in 0..p.grossPayoutMinor

\* A payout in whole gourdes.
IsWhole(minor) == minor \in Nat /\ minor % payoutMinorStep(To) = 0

RoundInv ==
    /\ \A a \in DOMAIN quotes : minorOf(a) \in Nat /\ MintsNothing(env.from, quotes[a])
    /\ \A i \in DOMAIN presses :
          /\ sendMinorOf(i) \in Nat
          /\ presses[i].pc = "create" => IsWhole(presses[i].priced.quote.receiveMinor)
    /\ \A k \in DOMAIN transfers :
          IsWhole(transfers[k].quote.receiveMinor) /\ transfers[k].quote.receiveMinor # 0

\* What the quote of this moment is made of.
LEMMA QuoteIsOfARow ==
    ASSUME TypedInv, isPriced(rates, env.from, To)
    PROVE  /\ QuoteNow.providerFeeBps \in Bps
           /\ env.from = To => QuoteNow.rate = Identity
           /\ env.from # To => \E mid \in Decimal, bps \in Bps :
                 QuoteNow.midRate = mid /\ QuoteNow.rate = marginedRate(mid, bps)
<1> DEFINE c == <<env.from, To>>
           row == IF isConfigured(rates, env.from, To) THEN rates[c] ELSE NoFees
<1>1. isConfigured(rates, env.from, To) =>
         /\ row.midRate \in Decimal /\ row.marginBps \in Bps /\ row.providerFeeBps \in Bps
    <2>1. ASSUME c \in DOMAIN rates PROVE rates[c] \in RateRecord
        BY <2>1 DEF TypedInv, RatesTyped
    <2> QED
        BY <2>1 DEF isConfigured, RateRecord
<1>2. ~isConfigured(rates, env.from, To) => env.from = To /\ row.providerFeeBps = 0
    BY DEF isPriced, NoFees
<1>3. /\ QuoteNow.providerFeeBps = row.providerFeeBps
      /\ QuoteNow.rate = IF env.from = To THEN Identity ELSE marginedRate(row.midRate, row.marginBps)
      /\ QuoteNow.midRate = IF env.from = To THEN Identity ELSE row.midRate
    BY DEF QuoteNow, quote
<1> HIDE DEF row
<1>4. 0 \in Bps
    BY DEF Bps
<1> QED
    BY <1>1, <1>2, <1>3, <1>4

\* The amount before it is floored, and that it is worth no more than was sent.
LEMMA PayoutIsCovered ==
    ASSUME TypedInv, isPriced(rates, env.from, To), NEW m \in Nat
    PROVE  /\ convert(m, env.from, To, QuoteNow.rate) \in Nat
           /\ env.from = To => convert(m, env.from, To, QuoteNow.rate) = m
           /\ env.from # To =>
                /\ convert(m, env.from, To, QuoteNow.midRate) \in Nat
                /\ convert(m, env.from, To, QuoteNow.rate)
                   <= convert(m, env.from, To, QuoteNow.midRate)
<1>1. CASE env.from = To
    <2>1. convert(m, env.from, To, QuoteNow.rate) = m
        BY <1>1, QuoteIsOfARow, IdentityConverts
    <2> QED
        BY <1>1, <2>1
<1>2. CASE env.from # To
    <2>1. PICK mid \in Decimal, bps \in Bps :
             QuoteNow.midRate = mid /\ QuoteNow.rate = marginedRate(mid, bps)
        BY <1>2, QuoteIsOfARow
    <2> DEFINE from == env.from
    <2>2. /\ convert(m, from, To, mid) \in Nat
          /\ convert(m, from, To, marginedRate(mid, bps)) \in Nat
          /\ convert(m, from, To, marginedRate(mid, bps)) <= convert(m, from, To, mid)
        BY MarginCosts
    <2> QED
        BY <1>2, <2>1, <2>2
<1> QED
    BY <1>1, <1>2

LEMMA PriceMintsNothing ==
    ASSUME TypedInv, isPriced(rates, env.from, To), NEW m \in Nat
    PROVE  MintsNothing(env.from, priceTransfer(rates, env.from, To, m))
<1> DEFINE p == priceTransfer(rates, env.from, To, m)
           q == QuoteNow
           atHome == env.from = To
           customers == convert(m, env.from, To, q.rate)
           mids == convert(m, env.from, To, q.midRate)
           gross == floorToPayoutUnit(IF atHome THEN m ELSE customers, To)
           fee == applyBps(gross, q.providerFeeBps)
<1>1. /\ p.sendMinor = m /\ p.grossPayoutMinor = gross
      /\ p.netToRecipientMinor = gross - fee
      /\ p.fxMarginMinor = IF atHome THEN 0 ELSE mids - gross
    BY DEF priceTransfer, QuoteNow
<1>2. /\ customers \in Nat
      /\ atHome => customers = m
      /\ ~atHome => mids \in Nat /\ customers <= mids
    BY PayoutIsCovered
<1> HIDE DEF p, customers, mids
<1>3. gross \in 0..customers
    <2>1. gross = floorToPayoutUnit(customers, To)
        BY <1>2
    <2> QED
        BY <1>2, <2>1, PayoutIsFloored
<1> HIDE DEF gross
<1>4. gross \in Nat /\ q.providerFeeBps \in Bps
    BY <1>2, <1>3, QuoteIsOfARow
<1>5. fee \in 0..gross
    BY <1>4, FeeIsAPart
<1> HIDE DEF fee, q
<1>6. gross - fee \in 0..gross
    BY <1>4, <1>5
<1>7. IF atHome THEN gross <= m ELSE mids - gross >= 0
    BY <1>2, <1>3
<1> QED
    BY <1>1, <1>6, <1>7 DEF MintsNothing, p

LEMMA BookingIsWhole ==
    ASSUME TypedInv, isPriced(rates, env.from, To), NEW m \in Nat, NEW fee
    PROVE  IsWhole(quoteTransfer(env.from, To, m, fee, QuoteNow.rate).receiveMinor)
<1> DEFINE n == convert(m, env.from, To, QuoteNow.rate)
<1>1. quoteTransfer(env.from, To, m, fee, QuoteNow.rate).receiveMinor = floorToPayoutUnit(n, To)
    BY DEF quoteTransfer
<1>2. n \in Nat
    BY PayoutIsCovered
<1> HIDE DEF n
<1>3. floorToPayoutUnit(n, To) \in 0..n /\ floorToPayoutUnit(n, To) % payoutMinorStep(To) = 0
    BY <1>2, PayoutIsFloored
<1> QED
    BY <1>1, <1>2, <1>3 DEF IsWhole

\* Whatever the screen shows after a step.
LEMMA QuotesMintNothing ==
    ASSUME TypedInv, RoundInv, [Next]_vars, NEW a \in DOMAIN quotes'
    PROVE  minorOf(a) \in Nat /\ MintsNothing(env.from, quotes'[a])
<1>1. CASE quotes' = quotes
    BY <1>1 DEF RoundInv
<1>2. CASE FetchQuote
    <2> DEFINE b == settled.amount
               p == priceTransfer(rates, env.from, To, minorOf(b))
    <2>1. /\ quotes' = Put(quotes, b, p) /\ minorOf(b) # NoAmount
          /\ b.digits > 0 /\ isPriced(rates, env.from, To)
        BY <1>2 DEF FetchQuote, minorOf
    <2>2. minorOf(b) \in Nat
        <3>1. b \in Decimal \cup {NotDecimal}
            BY SendMoneyAssumption DEF TypedInv, FormTyped
        <3> QED
            BY <2>1, <3>1, MinorOrNone DEF minorOf
    <2>3. MintsNothing(env.from, p)
        BY <2>1, <2>2, PriceMintsNothing
    <2> HIDE DEF p, b
    <2>4. CASE a = b
        BY <2>1, <2>2, <2>3, <2>4 DEF Put
    <2>5. CASE a # b
        BY <2>1, <2>5 DEF Put, RoundInv
    <2> QED
        BY <2>4, <2>5
<1> QED
    BY <1>1, <1>2, QuotesAreFetched

\* A request that changes is added, priced, or not about to be booked.
LEMMA RequestsMove ==
    ASSUME TypedInv, [Next]_vars, NEW i \in DOMAIN presses, presses'[i].pc = "create",
           ~Price(i)
    PROVE  presses'[i] = presses[i]
<1>1. CASE Press
    BY <1>1, PressAdds
<1>2. CASE Quiet
    BY <1>2 DEF Quiet
<1>3. ASSUME NEW j \in DOMAIN presses, Server(j)
      PROVE  presses'[i] = presses[i]
    <2>1. PressesTyped
        BY DEF TypedInv
    <2>2. j # i
        BY <1>3, PricedByPrice
    <2> QED
        BY <1>3, <2>1, <2>2, ServerMoves, MovesKeeps
<1> QED
    BY <1>1, <1>2, <1>3, Steps

LEMMA PressesAreWhole ==
    ASSUME TypedInv, PricedByARow, RoundInv, [Next]_vars, NEW i \in DOMAIN presses'
    PROVE  /\ sendMinorOf(i)' \in Nat
           /\ presses'[i].pc = "create" => IsWhole(presses'[i].priced.quote.receiveMinor)
<1>1. env' = env
    BY Fixed
<1>2. CASE i \in DOMAIN presses
    <2>1. sendMinorOf(i)' \in Nat
        <3>1. presses'[i].content = presses[i].content
            BY <1>2, PressesStay
        <3>2. sendMinorOf(i)' = sendMinorOf(i)
            BY <1>1, <3>1 DEF sendMinorOf
        <3> QED
            BY <1>2, <3>2 DEF RoundInv
    <2>2. CASE Price(i)
        <3> DEFINE m == sendMinorOf(i)
                   p == priceTransfer(rates, env.from, To, m)
                   b == quoteTransfer(env.from, To, m, p.platformFeeMinor, QuoteNow.rate)
        <3>1. presses'[i].priced.quote = b
            <4>1. p.rate = QuoteNow.rate
                BY DEF priceTransfer, QuoteNow
            <4> HIDE DEF m, p
            <4>2. PressesTyped
                BY DEF TypedInv
            <4>3. presses'[i].priced = PricedNow(i)
                BY <1>2, <2>2, <4>2, PriceMoves, MovesKeeps DEF PressStates
            <4>4. PricedNow(i).quote = b
                BY <4>1 DEF PricedNow, p, m
            <4> QED
                BY <4>3, <4>4
        <3>2. m \in Nat /\ isPriced(rates, env.from, To)
            BY <1>2 DEF RoundInv, PricedByARow
        <3>3. IsWhole(b.receiveMinor)
            <4> HIDE DEF m
            <4>1. \A fee :
                     IsWhole(quoteTransfer(env.from, To, m, fee, QuoteNow.rate).receiveMinor)
                BY <3>2, BookingIsWhole
            <4> QED
                BY <4>1
        <3> HIDE DEF b
        <3> QED
            BY <2>1, <3>1, <3>3
    <2>3. CASE presses'[i].pc = "create" /\ ~Price(i)
        BY <1>2, <2>1, <2>3, RequestsMove DEF RoundInv
    <2> QED
        BY <2>1, <2>2, <2>3
<1>3. CASE i \notin DOMAIN presses
    <2>1. Press
        BY <1>3, Steps, ServerMoves, MovesKeeps DEF TypedInv, Quiet, PressesKeep
    <2>2. presses'[i].pc = "gate" /\ presses'[i].content = form
        BY <1>3, <2>1, PressAdds
    <2>3. sendMinorOf(i)' = minorOf(form.amount)
        BY <1>1, <2>2 DEF sendMinorOf, minorOf
    <2> QED
        BY <2>1, <2>2, <2>3 DEF RoundInv, Press, canSend
<1> QED
    BY <1>2, <1>3

LEMMA RowsAreWhole ==
    ASSUME TypedInv, RoundInv, [Next]_vars, NEW k \in DOMAIN transfers'
    PROVE  IsWhole(transfers'[k].quote.receiveMinor) /\ transfers'[k].quote.receiveMinor # 0
<1>1. CASE k \in DOMAIN transfers
    BY <1>1, RowsRemain DEF RoundInv
<1>2. CASE k \notin DOMAIN transfers
    <2>1. PICK i \in DOMAIN presses : Books(i)
        BY <1>2, RowsStay DEF RowsKeep
    <2> DEFINE key == presses[i].key
               q == presses[i].priced.quote
    <2>2. DOMAIN transfers' = DOMAIN transfers \cup {key} /\ transfers'[key].quote = q
        BY <2>1, BooksOne
    <2>3. IsWhole(q.receiveMinor) /\ q.receiveMinor # 0
        BY <2>1 DEF Books, RoundInv
    <2> HIDE DEF key, q
    <2> QED
        BY <1>2, <2>2, <2>3
<1> QED
    BY <1>1, <1>2

LEMMA RoundingStays ==
    ASSUME TypedInv, PricedByARow, RoundInv, [Next]_vars
    PROVE  RoundInv'
<1>1. env' = env
    BY Fixed
<1>2. \A a : minorOf(a)' = minorOf(a)
    BY <1>1 DEF minorOf
<1>3. \A a \in DOMAIN quotes' : minorOf(a)' \in Nat /\ MintsNothing(env'.from, quotes'[a])
    BY <1>1, <1>2, QuotesMintNothing
<1>4. \A i \in DOMAIN presses' :
          /\ sendMinorOf(i)' \in Nat
          /\ presses'[i].pc = "create" => IsWhole(presses'[i].priced.quote.receiveMinor)
    BY PressesAreWhole
<1>5. \A k \in DOMAIN transfers' :
          IsWhole(transfers'[k].quote.receiveMinor) /\ transfers'[k].quote.receiveMinor # 0
    BY RowsAreWhole
<1> QED
    BY <1>3, <1>4, <1>5 DEF RoundInv, minorOf

\* No rounding mints money, and what is booked is what was shown and is reported: whatever
\* the rates, the margins and the fees, the recipient is paid whole gourdes that are worth
\* no more at the mid rate than what was sent, and the provider's fee comes out of them.
THEOREM AmountsAreRight == Spec => []AmountsAgree
<1>1. Init => RoundInv
    BY DEF Init, RoundInv
<1>2. TypedInv /\ PriceInv /\ RoundInv /\ [Next]_vars => RoundInv'
    BY RoundingStays DEF PriceInv
<1>3. TypedInv /\ PriceInv /\ [Next]_vars => PriceInv'
    BY PricesStay
<1>4. RoundInv => RoundingNeverMints
    BY DEF RoundInv, RoundingNeverMints, MintsNothing, IsWhole
<1>5. BookedAsShown /\ AnswersReportTheBooking /\ RoundingNeverMints => AmountsAgree
    BY DEF AmountsAgree
<1> QED
    BY <1>1, <1>2, <1>3, <1>4, <1>5, InitPriced, IsTyped, AnswersAreTheBooking, SentAsShown,
       PTL DEF Spec
=============================================================================
