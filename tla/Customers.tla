----------------------------- MODULE Customers -----------------------------
(***************************************************************************)
(* Who may send: the customer's row in the registry (registry/, in memory  *)
(* and Postgres alike), identity checks (kyc/kyc-service.ts over           *)
(* kyc/sumsub-adapter.ts), the caps they unlock (kyc/limits.ts) and the    *)
(* screening of names against sanctions (screening/).                      *)
(*                                                                         *)
(* Rows do not touch one another, so there is one customer.  A name is the *)
(* set of its tokens (normalize(), matcher.ts).                            *)
(***************************************************************************)
EXTENDS Integers, FiniteSets

CONSTANTS Sanctions,           \* entries, each the set of its names
          ScreeningThreshold,  \* per cent
          CapByLevel,          \* cap of one send, in minor units
          Syncs,               \* slots for /kyc/sync in flight
          MaxReviews           \* bound on the provider's changes of mind

ASSUME CustomersAssumption ==
    /\ ScreeningThreshold \in 1..100
    /\ CapByLevel \in [0..2 -> Nat]
    /\ MaxReviews \in Nat

VARIABLES customer,  \* the row of customers, or Unregistered
          review,    \* the provider's review of the applicant
          syncs,     \* /kyc/sync in flight
          hits       \* sanctions_hits

customerVars == <<customer, review, syncs, hits>>

KycStatus == {"pending", "review", "approved", "rejected"}
Unregistered == [status |-> "none"]
Customer == [status : {"active", "blocked"}, kycLevel : 0..2, kycStatus : KycStatus]
Reviews == [reviewStatus : {"init", "pending", "onhold", "completed"},
            reviewAnswer : {"none", "GREEN", "RED"}, changes : 0..MaxReviews]

NoSync == [pc |-> "idle"]
SyncStates == {NoSync}
              \cup [pc : {"existing"}, review : KycStatus]
              \cup [pc : {"persist"}, review : KycStatus, existing : Customer \cup {Unregistered}]

-----------------------------------------------------------------------------
(* Screening *)

\* nameScore() against the threshold: the same words score 100, the whole of a
\* name of several words among others 95, and otherwise the share in common.
nameMatches(name, candidate) ==
    /\ name # {} /\ candidate # {}
    /\ \/ name = candidate
       \/ candidate \subseteq name /\ Cardinality(candidate) >= 2 /\ ScreeningThreshold <= 95
       \/ 100 * Cardinality(name \cap candidate)
             >= ScreeningThreshold * Cardinality(name \cup candidate)

isHit(name) == \E entry \in Sanctions : \E c \in entry : nameMatches(name, c)

-----------------------------------------------------------------------------
(* The registry and the caps *)

isBlocked == customer # Unregistered /\ customer.status = "blocked"

capForLevel == CapByLevel[IF customer = Unregistered THEN 0 ELSE customer.kycLevel]

createCustomer(kycLevel, kycStatus) ==
    /\ customer = Unregistered
    /\ customer' = [status |-> "active", kycLevel |-> kycLevel, kycStatus |-> kycStatus]

setCustomerKyc(level, status) ==
    /\ customer # Unregistered
    /\ customer' = [customer EXCEPT !.kycLevel = level, !.kycStatus = status]

\* POST /customers/:id/status
SetCustomerStatus(status) ==
    /\ customer # Unregistered
    /\ customer' = [customer EXCEPT !.status = status]
    /\ UNCHANGED <<review, syncs, hits>>

\* POST /customers/:id/kyc
SetCustomerKyc(level, status) ==
    /\ setCustomerKyc(level, status)
    /\ UNCHANGED <<review, syncs, hits>>

-----------------------------------------------------------------------------
(* KYC: the provider reviews; a sync asks it, reads the row, writes the row *)

\* normalizeReview(); an applicant who has not started is pending.
normalizeReview ==
    CASE review.reviewStatus = "completed" /\ review.reviewAnswer = "GREEN" -> "approved"
      [] review.reviewStatus = "completed" /\ review.reviewAnswer = "RED" -> "rejected"
      [] review.reviewStatus \in {"completed", "pending", "onhold"} -> "review"
      [] OTHER -> "pending"

\* The provider (external) takes the applicant up, decides, and may look again.
Review ==
    /\ review.changes < MaxReviews
    /\ review' \in [reviewStatus : {"pending", "onhold"}, reviewAnswer : {"none"},
                    changes : {review.changes + 1}]
                   \cup [reviewStatus : {"completed"}, reviewAnswer : {"GREEN", "RED"},
                         changes : {review.changes + 1}]
    /\ review.reviewStatus # review'.reviewStatus
    /\ UNCHANGED <<customer, syncs, hits>>

\* getStatus(): it answers with what the review is by then.
SyncStarts(s) ==
    /\ syncs[s] = NoSync
    /\ syncs' = [syncs EXCEPT ![s] = [pc |-> "existing", review |-> normalizeReview]]
    /\ UNCHANGED <<customer, review, hits>>

SyncReadsCustomer(s) ==
    /\ syncs[s].pc = "existing"
    /\ syncs' = [syncs EXCEPT ![s] = [pc |-> "persist", review |-> syncs[s].review,
                                      existing |-> customer]]
    /\ UNCHANGED <<customer, review, hits>>

\* Mutant of kycLevelOf: a rejection keeps the tier, like a review does.
kycLevelOfKept(sync) ==
    IF sync.review = "approved" THEN 2
    ELSE IF sync.existing = Unregistered THEN 0 ELSE sync.existing.kycLevel

kycLevelOf(sync) ==
    CASE sync.review = "approved" -> 2
      [] sync.review = "rejected" -> 0
      [] OTHER -> IF sync.existing = Unregistered THEN 0 ELSE sync.existing.kycLevel

\* The row is created or written; a row that was created meanwhile is a conflict.
SyncPersists(s) ==
    /\ syncs[s].pc = "persist"
    /\ syncs' = [syncs EXCEPT ![s] = NoSync]
    /\ IF syncs[s].existing # Unregistered
       THEN setCustomerKyc(kycLevelOf(syncs[s]), syncs[s].review)
       ELSE \/ createCustomer(kycLevelOf(syncs[s]), syncs[s].review)
            \/ customer # Unregistered /\ UNCHANGED customer
    /\ UNCHANGED <<review, hits>>
=============================================================================
