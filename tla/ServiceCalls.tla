---------------------------- MODULE ServiceCalls ----------------------------
(***************************************************************************)
(* What the wallet services share: handlers in flight, the environment     *)
(* they run in, and the outcomes of an awaited call.                       *)
(*                                                                         *)
(* As in P2P, store methods and ledger posts are atomic and what           *)
(* interleaves is the code between two awaits; a handler in flight is a    *)
(* record in calls, whose pc names the await it is at.  The environment of *)
(* a behaviour, fixed at its start, says which services get requests and   *)
(* what may go wrong, so that one run of TLC covers a family of instances  *)
(* and a promise that needs reliable acknowledgements can say so.          *)
(***************************************************************************)
EXTENDS LedgerStore

Money == INSTANCE Money

CONSTANTS Calls,         \* slots for handlers in flight
          Environments   \* the environments behaviours may start in

\* Services that get requests, and the two changes an admin may make.
Services == {"withdrawal", "cashout", "airtime", "deposit", "referral",
             "margin_change", "bonus_change"}

\* store_error:   a store method rejects and had no effect
\* ledger_error:  a ledger post rejects and had no effect
\* lost_ack:      either rejects although it took effect
\* lost_answer:   a provider acts on a request and the answer is lost
\* crash:         the process restarts; the stores survive
FaultKinds == {"store_error", "ledger_error", "lost_ack", "lost_answer", "crash"}

ASSUME ServiceCallsAssumption ==
    Environments \subseteq [services : SUBSET Services, faults : SUBSET FaultKinds]

VARIABLES calls,   \* handlers in flight
          env      \* the environment, never changed

Idle == [pc |-> "idle"]

At(c, pc) == calls[c].pc = pc
Starts(c, state) == calls' = [calls EXCEPT ![c] = state]
GoesTo(c, pc) == calls' = [calls EXCEPT ![c].pc = pc]
Returns(c) == calls' = [calls EXCEPT ![c] = Idle]

\* A request for a service arrives and finds a slot.
Receives(c, service) == calls[c] = Idle /\ service \in env.services

MayHappen(fault) == fault \in env.faults
AcksReliably == ~MayHappen("lost_ack")

\* An awaited post() resolves, or it throws: with no effect, because the ledger
\* refuses it or is out of reach, or after it took effect.
AwaitsPost(key, postings, resolves, throws) ==
    \/ Post(key, postings) /\ resolves
    \/ MayHappen("lost_ack") /\ Post(key, postings) /\ throws
    \/ Refuse(key, postings) /\ throws
    \/ MayHappen("ledger_error") /\ UNCHANGED ledgerVars /\ throws

\* An awaited write of a store: write changes the store, same leaves it alone.
AwaitsWrite(write, same, resolves, throws) ==
    \/ write /\ resolves
    \/ MayHappen("lost_ack") /\ write /\ throws
    \/ MayHappen("store_error") /\ same /\ throws
=============================================================================
