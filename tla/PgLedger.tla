------------------------------ MODULE PgLedger ------------------------------
(***************************************************************************)
(* PgLedgerStore.post (ledger/pg-store.ts): each post is a SERIALIZABLE    *)
(* transaction of Postgres on a pooled connection, run again when Postgres *)
(* aborts it.  It is shown to implement the atomic post of LedgerStore.    *)
(*                                                                         *)
(* Postgres itself is modelled by what the code relies on: a transaction   *)
(* reads the snapshot of its first statement; writing a row takes its lock *)
(* until the transaction ends, waits for the holder, and fails with 40001  *)
(* when the row was changed after the snapshot; a cycle of waiting         *)
(* transactions is broken by failing one with 40P01.  The upsert of        *)
(* ensureAccount writes the account's row, so it is what serializes posts; *)
(* every later statement finds the row locked by its own transaction.      *)
(***************************************************************************)
EXTENDS LedgerOperations, FiniteSets

CONSTANTS Keys,
          Jobs,          \* the journals callers post, each under its key
          Posts,         \* slots for posts in flight
          PoolSize,      \* config.pgPoolMax
          MaxAttempts,   \* MAX_ATTEMPTS
          Faults         \* what may go wrong: "crash", "lost_ack"

ASSUME PgLedgerAssumption ==
    /\ Jobs \subseteq [key : Keys, postings : Seq(Posting)]
    /\ \A job \in Jobs : /\ WellFormed(job.postings)   \* assertBalanced, before any transaction
                        /\ Len(job.postings) <= MaxPostings
    /\ "_" \notin Posts   \* Nobody
    /\ PoolSize \in Nat \ {0} /\ MaxAttempts \in Nat \ {0}
    /\ Faults \subseteq {"crash", "lost_ack"}

VARIABLES cache,     \* account_balances, committed
          journals,  \* transactions and postings, committed
          holder,    \* accounts -> the post whose transaction wrote the row
          inserted,  \* idempotency_key -> the post whose transaction inserted it
          posts      \* posts in flight

storeVars == <<cache, journals>>
vars == <<cache, journals, holder, inserted, posts>>

NoJournal == <<>>
Nobody == "_"

Waiting == [pc |-> "idle"]

\* next: the posting whose account is ensured next.  seen: the balances of the
\* snapshot.  stale, staleKey: rows of its own that others committed since.
InTransaction ==
    [pc : {"ensure", "guard", "insert", "commit"}, job : Jobs, attempt : 1..MaxAttempts,
     next : 1..(MaxPostings + 1), seen : [Accounts -> Int], stale : SUBSET Accounts,
     staleKey : BOOLEAN]
Post ==
    {Waiting} \cup InTransaction
    \cup [pc : {"connect"}, job : Jobs, attempt : 1..MaxAttempts]
    \cup [pc : {"done"}, job : Jobs,
          result : {"stored", "insufficient", "conflict", "duplicate", "lost"}]

Open(p) == posts[p].pc \in {"ensure", "guard", "insert", "commit"}
At(p, pc) == posts[p].pc = pc
Touched(job) == {job.postings[i].account : i \in 1..Len(job.postings)}
Goes(p, state) == posts' = [posts EXCEPT ![p] = state]
Done(p, result) == [pc |-> "done", job |-> posts[p].job, result |-> result]

\* ROLLBACK or COMMIT: the locks of p are gone.
Unlocked(p) == [a \in Accounts |-> IF holder[a] = p THEN Nobody ELSE holder[a]]
Uninserted(p) == [k \in Keys |-> IF inserted[k] = p THEN Nobody ELSE inserted[k]]
Releases(p) == holder' = Unlocked(p) /\ inserted' = Uninserted(p)

-----------------------------------------------------------------------------
(* post *)

Begin(p) == \E job \in Jobs :
    /\ posts[p] = Waiting
    /\ Goes(p, [pc |-> "connect", job |-> job, attempt |-> 1])
    /\ UNCHANGED <<cache, journals, holder, inserted>>

\* The caller has its answer.
Answered(p) ==
    /\ At(p, "done")
    /\ Goes(p, Waiting)
    /\ UNCHANGED <<cache, journals, holder, inserted>>

\* ROLLBACK, and the loop of post: a serialization failure is run again.
Aborts(p, last) ==
    /\ Releases(p)
    /\ Goes(p, IF posts[p].attempt < MaxAttempts
               THEN [pc |-> "connect", job |-> posts[p].job, attempt |-> posts[p].attempt + 1]
               ELSE Done(p, last))
    /\ UNCHANGED storeVars

\* Mutant of Throws: the error path does not reach ROLLBACK.
ThrowsHolding(p, result) ==
    Goes(p, Done(p, result)) /\ UNCHANGED <<cache, journals, holder, inserted>>

\* Any other error leaves the loop.
Throws(p, result) ==
    Releases(p) /\ Goes(p, Done(p, result)) /\ UNCHANGED storeVars

-----------------------------------------------------------------------------
(* postOnce *)

\* A connection of the pool, BEGIN and the idempotency lookup, which takes the
\* snapshot.  A journal found is answered at once.
FindByIdempotencyKey(p) ==
    /\ At(p, "connect")
    /\ Cardinality({q \in Posts : Open(q)}) < PoolSize
    /\ Goes(p, IF journals[posts[p].job.key] # NoJournal THEN Done(p, "stored")
               ELSE [pc |-> "ensure", job |-> posts[p].job, attempt |-> posts[p].attempt,
                     next |-> 1, seen |-> cache, stale |-> {}, staleKey |-> FALSE])
    /\ UNCHANGED <<cache, journals, holder, inserted>>

NextAccount(p) == posts[p].job.postings[posts[p].next].account

Ensured(p) ==
    [posts[p] EXCEPT !.next = @ + 1,
                     !.pc = IF posts[p].next = Len(posts[p].job.postings) THEN "guard" ELSE "ensure"]

\* Mutant of EnsureAccount: the row is looked up and not written (ON CONFLICT DO NOTHING).
EnsureAccountReading(p) ==
    /\ At(p, "ensure")
    /\ Goes(p, Ensured(p))
    /\ UNCHANGED <<cache, journals, holder, inserted>>

\* ensureAccount, for the postings in the order of the journal.
EnsureAccount(p) ==
    /\ At(p, "ensure")
    /\ holder[NextAccount(p)] \in {p, Nobody}
    /\ IF NextAccount(p) \in posts[p].stale
       THEN Aborts(p, "conflict")
       ELSE /\ holder' = [holder EXCEPT ![NextAccount(p)] = p]
            /\ Goes(p, Ensured(p))
            /\ UNCHANGED <<cache, journals, inserted>>

\* The locked rows are read and the overdraft guard decides.
LockBalances(p) ==
    /\ At(p, "guard")
    /\ LET postings == posts[p].job.postings
       IN IF \E a \in Touched(posts[p].job) :
                a.kind \in NonNegativeKinds /\ posts[p].seen[a] + Delta(postings, a) < 0
          THEN Throws(p, "insufficient")
          ELSE /\ Goes(p, [posts[p] EXCEPT !.pc = "insert"])
               /\ UNCHANGED <<cache, journals, holder, inserted>>

\* The header: its key is unique.  After a lookup of its own in the same transaction
\* Postgres may report the clash as a serialization failure instead.
InsertHeader(p) ==
    LET key == posts[p].job.key
    IN /\ At(p, "insert")
       /\ inserted[key] \in {p, Nobody}
       /\ IF posts[p].staleKey
          THEN Aborts(p, "conflict") \/ Throws(p, "duplicate")
          ELSE /\ inserted' = [inserted EXCEPT ![key] = p]
               /\ Goes(p, [posts[p] EXCEPT !.pc = "commit"])
               /\ UNCHANGED <<cache, journals, holder>>

\* What the other open transactions no longer see as it is.
Overtaken(p, q) ==
    IF q = p \/ ~Open(q) THEN posts[q]
    ELSE [posts[q] EXCEPT !.stale = @ \cup Touched(posts[p].job),
                          !.staleKey = @ \/ posts[q].job.key = posts[p].job.key]

\* Mutant of CommitJournal: the caller is answered although the commit failed.
CommitOrNot(p) ==
    LET job == posts[p].job
    IN /\ At(p, "commit")
       /\ \/ /\ cache' = [a \in Accounts |-> cache[a] + Delta(job.postings, a)]
             /\ journals' = [journals EXCEPT ![job.key] = job.postings]
             /\ posts' = [q \in Posts |-> IF q = p THEN Done(p, "stored") ELSE Overtaken(p, q)]
          \/ /\ posts' = [posts EXCEPT ![p] = Done(p, "stored")]
             /\ UNCHANGED storeVars
       /\ Releases(p)

\* The postings, the balances and COMMIT, all visible at once.  The acknowledgement
\* may be lost, and the caller gets an error for a journal that is stored.
CommitJournal(p) ==
    LET job == posts[p].job
    IN /\ At(p, "commit")
       /\ cache' = [a \in Accounts |-> cache[a] + Delta(job.postings, a)]
       /\ journals' = [journals EXCEPT ![job.key] = job.postings]
       /\ \E result \in {"stored"} \cup IF "lost_ack" \in Faults THEN {"lost"} ELSE {} :
             posts' = [q \in Posts |-> IF q = p THEN Done(p, result) ELSE Overtaken(p, q)]
       /\ Releases(p)

\* COMMIT fails with 40001: a read-write dependency on another transaction.
CommitFails(p) ==
    /\ At(p, "commit")
    /\ \E q \in Posts \ {p} : Open(q) \/ posts[p].stale # {}
    /\ Aborts(p, "conflict")

-----------------------------------------------------------------------------
(* Deadlocks, connections that break, and restarts *)

\* The post whose transaction p waits for.
WaitsFor(p, q) ==
    /\ Open(p) /\ Open(q) /\ p # q
    /\ \/ At(p, "ensure") /\ holder[NextAccount(p)] = q
       \/ At(p, "insert") /\ inserted[posts[p].job.key] = q

Deadlocked(p) == \E S \in SUBSET Posts : p \in S /\ \A q \in S : \E r \in S : WaitsFor(q, r)

\* Postgres fails one transaction of the cycle with 40P01, which is run again.
DeadlockDetected(p) == Deadlocked(p) /\ Aborts(p, "conflict")

\* The process restarts: its connections close and Postgres rolls back.
Crash ==
    /\ "crash" \in Faults
    /\ \E p \in Posts : posts[p] # Waiting
    /\ posts' = [p \in Posts |-> Waiting]
    /\ holder' = [a \in Accounts |-> Nobody]
    /\ inserted' = [k \in Keys |-> Nobody]
    /\ UNCHANGED storeVars

-----------------------------------------------------------------------------

Init ==
    /\ cache = [a \in Accounts |-> 0]
    /\ journals = [k \in Keys |-> NoJournal]
    /\ holder = [a \in Accounts |-> Nobody]
    /\ inserted = [k \in Keys |-> Nobody]
    /\ posts = [p \in Posts |-> Waiting]

Proceeds(p) ==
    \/ FindByIdempotencyKey(p) \/ EnsureAccount(p) \/ LockBalances(p) \/ InsertHeader(p)
    \/ CommitJournal(p) \/ CommitFails(p) \/ DeadlockDetected(p)

Next == Crash \/ \E p \in Posts : Begin(p) \/ Answered(p) \/ Proceeds(p)

Spec == Init /\ [][Next]_vars

\* A statement that can run does, and a free connection goes to each post in turn.
Fairness == \A p \in Posts : SF_vars(Proceeds(p))

FairSpec == Spec /\ Fairness

-----------------------------------------------------------------------------
(* Properties *)

TypeOK ==
    /\ cache \in [Accounts -> Int]
    /\ journals \in [Keys -> Seq(Posting)]
    /\ holder \in [Accounts -> Posts \cup {Nobody}]
    /\ inserted \in [Keys -> Posts \cup {Nobody}]
    /\ posts \in [Posts -> Post]

Store == INSTANCE LedgerStore WITH balance <- cache, journal <- journals

\* What the services rely on: the store starts empty and changes only by whole
\* posts of a caller's journal, under a key that has none, against the balances of
\* that moment.
StoreSpec ==
    /\ cache = [a \in Accounts |-> 0] /\ journals = [k \in Keys |-> NoJournal]
    /\ [][\E job \in Jobs : Store!Post(job.key, job.postings)]_storeVars

\* What post() tells its caller is so.  A post that resolves has its journal stored,
\* by itself or by an earlier call; one refused for insufficient funds would have
\* overdrawn an account at the moment of the refusal: the balance it read was nobody's
\* old one.
AnswersAreTrue ==
    /\ [](\A p \in Posts : At(p, "done") /\ posts[p].result = "stored"
                               => journals[posts[p].job.key] # NoJournal)
    /\ [][\A p \in Posts : At(p, "guard") /\ posts'[p].pc = "done"
                               => Store!Overdraws(posts[p].job.postings)]_posts

\* Every post ends, in spite of deadlocks between journals that touch the same
\* accounts in opposite orders and of posts that wait for a connection.
PostsEnd == \A p \in Posts : At(p, "connect") ~> posts[p].pc \in {"done", "idle"}
=============================================================================
