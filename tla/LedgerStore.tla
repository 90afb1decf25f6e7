---------------------------- MODULE LedgerStore ----------------------------
(***************************************************************************)
(* The ledger store: one atomic post() per journal.  The in-memory store   *)
(* (ledger/in-memory-store.ts) calls itself "the executable specification  *)
(* the SQL adapter matches"; this module is that specification.  Services  *)
(* that move money extend it and post through it.                          *)
(***************************************************************************)
EXTENDS LedgerOperations

CONSTANT Keys          \* idempotency keys

VARIABLES balance,     \* balances: account -> cached balance
          journal      \* byIdempotencyKey: key -> the postings stored under it

ledgerVars == <<balance, journal>>

-----------------------------------------------------------------------------

NoJournal == <<>>

Posted(key) == journal[key] # NoJournal

\* Mutant of Overdraws: only wallets are guarded.
OverdrawsWallets(postings) ==
    \E a \in Accounts : a.kind = "wallet" /\ balance[a] + Delta(postings, a) < 0

\* The overdraft guard: a kind that may not go negative would.
Overdraws(postings) ==
    \E a \in Accounts : /\ a.kind \in NonNegativeKinds
                        /\ Delta(postings, a) # 0
                        /\ balance[a] + Delta(postings, a) < 0

\* post() resolves: the journal is well formed, and either it is a replay
\* (the stored journal is returned whatever the new postings say) or nobody
\* is overdrawn.
Accepts(key, postings) ==
    /\ WellFormed(postings)
    /\ Posted(key) \/ ~Overdraws(postings)

\* What the commit writes to the balance cache.
Applied(postings) == [a \in Accounts |-> balance[a] + Delta(postings, a)]

Commit(key, postings) ==
    /\ balance' = Applied(postings)
    /\ journal' = [journal EXCEPT ![key] = postings]

\* Mutant of Post: the idempotency lookup is missing.
PostWithoutLookup(key, postings) ==
    Accepts(key, postings) /\ Commit(key, postings)

\* Mutant of Post: a replay bumps the balance cache again.
PostBumpingReplay(key, postings) ==
    /\ Accepts(key, postings)
    /\ IF Posted(key) THEN balance' = Applied(postings) /\ UNCHANGED journal
                      ELSE Commit(key, postings)

\* A post() that resolves, as a new journal or as a replay.
Post(key, postings) ==
    /\ Accepts(key, postings)
    /\ IF Posted(key) THEN UNCHANGED ledgerVars ELSE Commit(key, postings)

\* A post() that throws LedgerError leaves the store alone.
Refuse(key, postings) == ~Accepts(key, postings) /\ UNCHANGED ledgerVars
=============================================================================
