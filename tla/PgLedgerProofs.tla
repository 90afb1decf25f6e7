--------------------------- MODULE PgLedgerProofs ---------------------------
(***************************************************************************)
(* Theorems about PgLedger, for every set of accounts, keys, journals and  *)
(* posts in flight, every pool and number of attempts, and every fault:    *)
(* the serializable transactions implement the atomic post of LedgerStore. *)
(*                                                                         *)
(* The argument: a transaction holds the rows it ensured, and a row it     *)
(* holds is the one its snapshot saw, because only a transaction that held *)
(* the row could have committed a change of it.  So at COMMIT the overdraft *)
(* guard, taken on the snapshot, is one on the committed balances.         *)
(***************************************************************************)
EXTENDS PgLedger, TLAPS

-----------------------------------------------------------------------------
(* Journals *)

LEMMA PostingsHaveAccounts ==
    ASSUME NEW s \in Seq(Posting), NEW i \in 1..Len(s)
    PROVE  s[i].account \in Accounts
<1>1. s[i] \in Posting
    OBVIOUS
<1> QED
    BY <1>1 DEF Posting

LEMMA JobsAreJournals ==
    ASSUME NEW job \in Jobs
    PROVE  /\ job.key \in Keys /\ job.postings \in Seq(Posting)
           /\ Len(job.postings) \in 2..MaxPostings
           /\ WellFormed(job.postings)
           /\ job.postings # NoJournal
           /\ \A i \in 1..Len(job.postings) : job.postings[i].account \in Accounts
<1>1. job.key \in Keys /\ job.postings \in Seq(Posting)
    BY PgLedgerAssumption
<1>2. WellFormed(job.postings) /\ Len(job.postings) <= MaxPostings
    BY PgLedgerAssumption
<1>3. Len(job.postings) \in 2..MaxPostings
    <2>1. Len(job.postings) >= 2
        BY <1>2 DEF WellFormed, Balanced
    <2>2. Len(job.postings) \in Nat
        BY <1>1
    <2>3. \A n \in Nat : n >= 2 /\ n <= MaxPostings => n \in 2..MaxPostings
        BY DEF MaxPostings
    <2> QED
        BY <1>2, <2>1, <2>2, <2>3
<1>4. job.postings # NoJournal
    BY <1>3 DEF NoJournal, MaxPostings
<1>5. \A i \in 1..Len(job.postings) : job.postings[i].account \in Accounts
    BY <1>1, PostingsHaveAccounts
<1> QED
    BY <1>1, <1>2, <1>3, <1>4, <1>5

LEMMA SignedIsInt ==
    ASSUME NEW posting \in Posting
    PROVE  Signed(posting) \in Int
BY DEF Signed, Posting

LEMMA AmountInIsInt ==
    ASSUME NEW s \in Seq(Posting), NEW i \in Nat, NEW accounts
    PROVE  AmountIn(s, i, accounts) \in Int
<1>1. CASE i \in 1..Len(s) /\ s[i].account \in accounts
    <2>1. s[i] \in Posting
        BY <1>1
    <2>2. AmountIn(s, i, accounts) = Signed(s[i])
        BY <1>1 DEF AmountIn
    <2> QED
        BY <2>1, <2>2, SignedIsInt
<1>2. CASE ~(i \in 1..Len(s) /\ s[i].account \in accounts)
    BY <1>2 DEF AmountIn
<1> QED
    BY <1>1, <1>2

\* What an account gains from a journal is an integer.
LEMMA DeltaIsInt ==
    ASSUME NEW s \in Seq(Posting), NEW a
    PROVE  Delta(s, a) \in Int
<1>1. \A i \in 1..4 : AmountIn(s, i, {a}) \in Int
    BY AmountInIsInt
<1> QED
    BY <1>1 DEF Delta, NetOn

\* A journal changes only the balances it has a posting on.
LEMMA OnlyTouchedMove ==
    ASSUME NEW job \in Jobs, NEW a, a \notin Touched(job)
    PROVE  Delta(job.postings, a) = 0
<1>1. \A i : AmountIn(job.postings, i, {a}) = 0
    BY DEF AmountIn, Touched
<1> QED
    BY <1>1 DEF Delta, NetOn

\* The operators of the abstract store are the ones of this module.
LEMMA SameOperators ==
    /\ Store!Accounts = Accounts
    /\ Store!NonNegativeKinds = NonNegativeKinds
    /\ Store!NoJournal = NoJournal
    /\ \A s, a : Store!Delta(s, a) = Delta(s, a)
    /\ \A s : Store!WellFormed(s) <=> WellFormed(s)
<1>1. /\ Store!Accounts = Accounts
      /\ Store!NonNegativeKinds = NonNegativeKinds
      /\ Store!NoJournal = NoJournal
    BY DEF Store!Accounts, Accounts, Store!NonNegativeKinds, NonNegativeKinds,
           Store!NoJournal, NoJournal, Store!SystemKinds, SystemKinds, Store!NoOwner, NoOwner
<1>2. \A s, A : Store!NetOn(s, A) = NetOn(s, A)
    BY DEF Store!NetOn, NetOn, Store!AmountIn, AmountIn, Store!Signed, Signed
<1>3. \A s, a : Store!Delta(s, a) = Delta(s, a)
    BY <1>2 DEF Store!Delta, Delta
<1>4. \A s : Store!WellFormed(s) <=> WellFormed(s)
    BY <1>1, <1>2 DEF Store!WellFormed, WellFormed, Store!Balanced, Balanced, Store!NetIn, NetIn,
           Store!PositiveMagnitudes, PositiveMagnitudes
<1> QED
    BY <1>1, <1>3, <1>4

-----------------------------------------------------------------------------
(* The inductive invariant *)

\* The rows a transaction has ensured are its own, and as its snapshot saw them.
HoldsItsRows(p) ==
    /\ At(p, "ensure") <=> posts[p].next <= Len(posts[p].job.postings)
    /\ posts[p].next <= Len(posts[p].job.postings) + 1
    /\ \A i \in 1..(posts[p].next - 1) :
          /\ holder[posts[p].job.postings[i].account] = p
          /\ posts[p].job.postings[i].account \notin posts[p].stale

\* What is not stale in a snapshot is what is committed.
SeesTheStore(p) ==
    /\ \A a \in Accounts \ posts[p].stale : posts[p].seen[a] = cache[a]
    /\ ~posts[p].staleKey => journals[posts[p].job.key] = NoJournal

\* Past the guard, the snapshot has the funds.
HasTheFunds(p) ==
    posts[p].pc \in {"insert", "commit"} =>
        \A a \in Touched(posts[p].job) :
            a.kind \in NonNegativeKinds
                => posts[p].seen[a] + Delta(posts[p].job.postings, a) >= 0

\* Nobody else commits a journal under the key of a header that is written.
OwnsItsKey(p) ==
    At(p, "commit") => ~posts[p].staleKey /\ inserted[posts[p].job.key] = p

Sound(p) ==
    Open(p) => HoldsItsRows(p) /\ SeesTheStore(p) /\ HasTheFunds(p) /\ OwnsItsKey(p)

\* No user's account is below zero in the committed balances.
CacheNonNegative ==
    \A a \in Accounts : a.kind \in NonNegativeKinds => cache[a] >= 0

\* A post that resolves has its journal stored.
ResolvedIsStored ==
    \A p \in Posts : At(p, "done") /\ posts[p].result = "stored"
                        => journals[posts[p].job.key] # NoJournal

\* TypeOK is not inductive: a commit keeps it, but StoreSpec rests on what a
\* transaction learnt several statements ago still being so.
IInv ==
    /\ TypeOK
    /\ CacheNonNegative
    /\ \A p \in Posts : Sound(p)
    /\ ResolvedIsStored

-----------------------------------------------------------------------------
(* What a step may do to a post *)

\* An open post is a record of the transaction.
LEMMA OpenPosts ==
    ASSUME TypeOK, NEW p \in Posts, Open(p)
    PROVE  posts[p] \in InTransaction
BY DEF TypeOK, Open, Post, Waiting

LEMMA OpenFields ==
    ASSUME TypeOK, NEW p \in Posts, Open(p)
    PROVE  /\ posts[p].job \in Jobs
           /\ posts[p].attempt \in 1..MaxAttempts
           /\ posts[p].next \in 1..(MaxPostings + 1)
           /\ posts[p].seen \in [Accounts -> Int]
           /\ posts[p].stale \in SUBSET Accounts
           /\ posts[p].staleKey \in BOOLEAN
BY OpenPosts DEF InTransaction

\* The row a post ensures next.
LEMMA NextRow ==
    ASSUME TypeOK, NEW p \in Posts, Sound(p), At(p, "ensure")
    PROVE  /\ posts[p].next \in 1..Len(posts[p].job.postings)
           /\ NextAccount(p) \in Accounts
<1>1. Open(p)
    BY DEF At, Open
<1>2. posts[p].job \in Jobs /\ posts[p].next \in 1..(MaxPostings + 1)
    BY <1>1, OpenFields
<1>3. posts[p].next <= Len(posts[p].job.postings)
    BY <1>1 DEF Sound, HoldsItsRows
<1>4. posts[p].next \in 1..Len(posts[p].job.postings)
    <2>1. Len(posts[p].job.postings) \in Nat
        BY <1>2, JobsAreJournals
    <2> QED
        BY <1>2, <1>3, <2>1
<1> QED
    BY <1>2, <1>4, JobsAreJournals DEF NextAccount

\* Past the last row, a transaction holds all it touches, as it is committed.
LEMMA HoldsAll ==
    ASSUME TypeOK, NEW p \in Posts, Sound(p), Open(p), ~At(p, "ensure")
    PROVE  \A a \in Touched(posts[p].job) :
              /\ a \in Accounts
              /\ holder[a] = p
              /\ a \notin posts[p].stale
              /\ posts[p].seen[a] = cache[a]
<1>1. posts[p].job \in Jobs /\ posts[p].next \in 1..(MaxPostings + 1)
    BY OpenFields
<1>2. Len(posts[p].job.postings) \in Nat
    BY <1>1, JobsAreJournals
<1>3. HoldsItsRows(p) /\ SeesTheStore(p)
    BY DEF Sound
<1>4. posts[p].next = Len(posts[p].job.postings) + 1
    <2>1. ~(posts[p].next <= Len(posts[p].job.postings))
        BY <1>3 DEF HoldsItsRows
    <2>2. posts[p].next <= Len(posts[p].job.postings) + 1
        BY <1>3 DEF HoldsItsRows
    <2>3. \A n, l \in Nat : ~(n <= l) /\ n <= l + 1 => n = l + 1
        OBVIOUS
    <2>4. posts[p].next \in Nat
        BY <1>1
    <2> QED
        BY <1>2, <2>1, <2>2, <2>3, <2>4
<1> SUFFICES ASSUME NEW i \in 1..Len(posts[p].job.postings)
             PROVE  LET a == posts[p].job.postings[i].account
                    IN  /\ a \in Accounts
                        /\ holder[a] = p
                        /\ a \notin posts[p].stale
                        /\ posts[p].seen[a] = cache[a]
    BY DEF Touched
<1>5. i \in 1..(posts[p].next - 1)
    BY <1>2, <1>4
<1>6. posts[p].job.postings[i].account \in Accounts
    BY <1>1, JobsAreJournals
<1> QED
    BY <1>3, <1>5, <1>6 DEF HoldsItsRows, SeesTheStore

\* A step that leaves a post, its locks and the store alone keeps it sound.
LEMMA OthersStaySound ==
    ASSUME NEW q \in Posts, Sound(q), posts'[q] = posts[q], UNCHANGED storeVars,
           TypeOK,
           \A a \in Accounts : holder[a] = q => holder'[a] = q,
           \A k \in Keys : inserted[k] = q => inserted'[k] = q
    PROVE  Sound(q)'
<1> SUFFICES ASSUME Open(q)
             PROVE  HoldsItsRows(q)' /\ SeesTheStore(q)' /\ HasTheFunds(q)' /\ OwnsItsKey(q)'
    BY DEF Sound, Open
<1>1. posts[q].job \in Jobs /\ posts[q].next \in 1..(MaxPostings + 1)
    BY OpenFields
<1>2. HoldsItsRows(q) /\ SeesTheStore(q) /\ HasTheFunds(q) /\ OwnsItsKey(q)
    BY DEF Sound
<1>3. HoldsItsRows(q)'
    <2>1. \A i \in 1..(posts[q].next - 1) : posts[q].job.postings[i].account \in Accounts
        <3>1. Len(posts[q].job.postings) \in Nat
            BY <1>1, JobsAreJournals
        <3>2. 1..(posts[q].next - 1) \subseteq 1..Len(posts[q].job.postings)
            BY <1>1, <1>2, <3>1 DEF HoldsItsRows
        <3> QED
            BY <1>1, <3>2, JobsAreJournals
    <2> QED
        BY <1>2, <2>1 DEF HoldsItsRows, At
<1>4. SeesTheStore(q)'
    BY <1>2 DEF SeesTheStore, storeVars
<1>5. HasTheFunds(q)'
    BY <1>2 DEF HasTheFunds
<1>6. OwnsItsKey(q)'
    BY <1>1, <1>2, JobsAreJournals DEF OwnsItsKey, At
<1> QED
    BY <1>3, <1>4, <1>5, <1>6

\* The end of a transaction frees its own rows and keys only.
LEMMA ReleaseKeepsOthers ==
    ASSUME NEW p \in Posts, NEW q \in Posts \ {p}, TypeOK, Releases(p)
    PROVE  /\ \A a \in Accounts : holder[a] = q => holder'[a] = q
           /\ \A k \in Keys : inserted[k] = q => inserted'[k] = q
BY DEF Releases, Unlocked, Uninserted

LEMMA ReleaseKeepsTypes ==
    ASSUME NEW p \in Posts, TypeOK, Releases(p)
    PROVE  /\ holder' \in [Accounts -> Posts \cup {Nobody}]
           /\ inserted' \in [Keys -> Posts \cup {Nobody}]
BY DEF Releases, Unlocked, Uninserted, TypeOK

\* A step of one post that leaves the store as it was, and that post sound.
LEMMA StepKeepsIInv ==
    ASSUME IInv, NEW p \in Posts, NEW state \in Post,
           Goes(p, state), UNCHANGED storeVars,
           holder' \in [Accounts -> Posts \cup {Nobody}],
           inserted' \in [Keys -> Posts \cup {Nobody}],
           \A q \in Posts \ {p} : /\ \A a \in Accounts : holder[a] = q => holder'[a] = q
                                  /\ \A k \in Keys : inserted[k] = q => inserted'[k] = q,
           Sound(p)',
           state.pc = "done" /\ state.result = "stored"
               => journals[state.job.key] # NoJournal
    PROVE  IInv'
<1>1. posts' = [posts EXCEPT ![p] = state] /\ posts'[p] = state
    BY DEF IInv, TypeOK, Goes
<1>2. \A q \in Posts \ {p} : posts'[q] = posts[q]
    BY DEF IInv, TypeOK, Goes
<1>3. TypeOK'
    <2>1. posts' \in [Posts -> Post]
        BY <1>1 DEF IInv, TypeOK
    <2> QED
        BY <2>1 DEF IInv, TypeOK, storeVars
<1>4. CacheNonNegative'
    BY DEF IInv, CacheNonNegative, storeVars
<1>5. ASSUME NEW q \in Posts PROVE Sound(q)'
    <2>1. CASE q # p
        BY <1>2, <2>1, OthersStaySound DEF IInv
    <2> QED
        BY <2>1
<1>6. ResolvedIsStored'
    <2> SUFFICES ASSUME NEW q \in Posts, At(q, "done")', posts'[q].result = "stored"
                 PROVE  journals'[posts'[q].job.key] # NoJournal
        BY DEF ResolvedIsStored
    <2>1. CASE q = p
        BY <1>1, <2>1 DEF At, storeVars
    <2>2. CASE q # p
        BY <1>2, <2>2 DEF IInv, ResolvedIsStored, At, storeVars
    <2> QED
        BY <2>1, <2>2
<1> QED
    BY <1>3, <1>4, <1>5, <1>6 DEF IInv

\* A step that ends a transaction, or does not open one.
LEMMA ClosingKeepsIInv ==
    ASSUME IInv, NEW p \in Posts, NEW state \in Post,
           state.pc \in {"idle", "connect", "done"},
           state.pc = "done" /\ state.result = "stored"
               => journals[state.job.key] # NoJournal,
           Goes(p, state), UNCHANGED storeVars,
           Releases(p) \/ UNCHANGED <<holder, inserted>>
    PROVE  IInv'
<1>1. Sound(p)'
    BY DEF IInv, TypeOK, Goes, Sound, Open
<1>2. /\ holder' \in [Accounts -> Posts \cup {Nobody}]
      /\ inserted' \in [Keys -> Posts \cup {Nobody}]
    BY ReleaseKeepsTypes DEF IInv, TypeOK
<1>3. \A q \in Posts \ {p} : /\ \A a \in Accounts : holder[a] = q => holder'[a] = q
                             /\ \A k \in Keys : inserted[k] = q => inserted'[k] = q
    BY ReleaseKeepsOthers DEF IInv
<1> QED
    BY <1>1, <1>2, <1>3, StepKeepsIInv

-----------------------------------------------------------------------------
(* The actions *)

LEMMA InitHolds ==
    ASSUME Init
    PROVE  IInv
<1>1. TypeOK
    BY DEF Init, TypeOK, Post, NoJournal
<1>2. CacheNonNegative
    BY DEF Init, CacheNonNegative
<1>3. (\A p \in Posts : Sound(p)) /\ ResolvedIsStored
    BY DEF Init, Sound, Open, Waiting, ResolvedIsStored, At
<1> QED
    BY <1>1, <1>2, <1>3 DEF IInv

\* The attempts of a post.
LEMMA AttemptsAreCounted ==
    /\ 1 \in 1..MaxAttempts
    /\ \A n \in 1..MaxAttempts : n < MaxAttempts => n + 1 \in 1..MaxAttempts
<1>1. MaxAttempts \in Nat \ {0}
    BY PgLedgerAssumption
<1>2. \A m \in Nat \ {0} : /\ 1 \in 1..m
                           /\ \A n \in 1..m : n < m => n + 1 \in 1..m
    OBVIOUS
<1> QED
    BY <1>1, <1>2

LEMMA BeginKeepsIInv ==
    ASSUME IInv, NEW p \in Posts, Begin(p)
    PROVE  IInv'
<1> PICK job \in Jobs : Goes(p, [pc |-> "connect", job |-> job, attempt |-> 1])
    BY DEF Begin
<1> DEFINE state == [pc |-> "connect", job |-> job, attempt |-> 1]
<1>1. state \in Post
    <2>1. state \in [pc : {"connect"}, job : Jobs, attempt : 1..MaxAttempts]
        BY AttemptsAreCounted
    <2> QED
        BY <2>1 DEF Post
<1>2. UNCHANGED storeVars /\ UNCHANGED <<holder, inserted>>
    BY DEF Begin, storeVars
<1>3. state.pc = "connect" /\ Goes(p, state)
    OBVIOUS
<1> HIDE DEF state
<1> QED
    BY <1>1, <1>2, <1>3, ClosingKeepsIInv

LEMMA AnsweredKeepsIInv ==
    ASSUME IInv, NEW p \in Posts, Answered(p)
    PROVE  IInv'
<1>1. Waiting \in Post /\ Waiting.pc = "idle"
    BY DEF Waiting, Post
<1>2. Goes(p, Waiting) /\ UNCHANGED storeVars /\ UNCHANGED <<holder, inserted>>
    BY DEF Answered, storeVars
<1> QED
    BY <1>1, <1>2, ClosingKeepsIInv

\* What a post tells its caller.
LEMMA DoneIsPost ==
    ASSUME TypeOK, NEW p \in Posts, posts[p].job \in Jobs,
           NEW result \in {"stored", "insufficient", "conflict", "duplicate", "lost"}
    PROVE  /\ Done(p, result) \in Post
           /\ Done(p, result).pc = "done"
           /\ Done(p, result).result = result
           /\ Done(p, result).job = posts[p].job
BY DEF Done, Post

LEMMA AbortsKeepsIInv ==
    ASSUME IInv, NEW p \in Posts, Open(p), Aborts(p, "conflict")
    PROVE  IInv'
<1>1. posts[p].job \in Jobs /\ posts[p].attempt \in 1..MaxAttempts
    BY OpenFields DEF IInv
<1>2. Releases(p) /\ UNCHANGED storeVars
    BY DEF Aborts
<1>3. CASE posts[p].attempt < MaxAttempts
    <2> DEFINE state == [pc |-> "connect", job |-> posts[p].job,
                         attempt |-> posts[p].attempt + 1]
    <2>1. posts[p].attempt + 1 \in 1..MaxAttempts
        BY <1>1, <1>3, AttemptsAreCounted
    <2>2. state \in Post
        BY <1>1, <2>1 DEF Post
    <2>3. state.pc = "connect" /\ Goes(p, state)
        BY <1>3 DEF Aborts
    <2> HIDE DEF state
    <2> QED
        BY <1>2, <2>2, <2>3, ClosingKeepsIInv
<1>4. CASE ~(posts[p].attempt < MaxAttempts)
    <2>1. Goes(p, Done(p, "conflict"))
        BY <1>4 DEF Aborts
    <2>2. /\ Done(p, "conflict") \in Post
          /\ Done(p, "conflict").pc = "done" /\ Done(p, "conflict").result = "conflict"
        BY <1>1, DoneIsPost DEF IInv
    <2> QED
        BY <1>2, <2>1, <2>2, ClosingKeepsIInv
<1> QED
    BY <1>3, <1>4

LEMMA ThrowsKeepsIInv ==
    ASSUME IInv, NEW p \in Posts, Open(p),
           NEW result \in {"insufficient", "duplicate"}, Throws(p, result)
    PROVE  IInv'
<1>1. posts[p].job \in Jobs
    BY OpenFields DEF IInv
<1>2. /\ Done(p, result) \in Post
      /\ Done(p, result).pc = "done" /\ Done(p, result).result = result
    BY <1>1, DoneIsPost DEF IInv
<1>3. Releases(p) /\ Goes(p, Done(p, result)) /\ UNCHANGED storeVars
    BY DEF Throws
<1> QED
    BY <1>2, <1>3, ClosingKeepsIInv

\* The snapshot a transaction starts with is the committed store.
LEMMA FindKeepsIInv ==
    ASSUME IInv, NEW p \in Posts, FindByIdempotencyKey(p)
    PROVE  IInv'
<1>1. posts[p] \in [pc : {"connect"}, job : Jobs, attempt : 1..MaxAttempts]
    <2>1. posts[p] \in Post /\ posts[p].pc = "connect"
        BY DEF FindByIdempotencyKey, At, IInv, TypeOK
    <2>2. posts[p] \notin InTransaction
        BY <2>1 DEF InTransaction
    <2> QED
        BY <2>1, <2>2 DEF Post, Waiting
<1>2. posts[p].job \in Jobs /\ posts[p].attempt \in 1..MaxAttempts
    BY <1>1
<1>3. UNCHANGED storeVars /\ UNCHANGED <<holder, inserted>>
    BY DEF FindByIdempotencyKey, storeVars
<1>4. CASE journals[posts[p].job.key] # NoJournal
    <2>1. Goes(p, Done(p, "stored"))
        BY <1>4 DEF FindByIdempotencyKey
    <2>2. /\ Done(p, "stored") \in Post /\ Done(p, "stored").pc = "done"
          /\ Done(p, "stored").job = posts[p].job
        BY <1>2, DoneIsPost DEF IInv
    <2> QED
        BY <1>3, <1>4, <2>1, <2>2, ClosingKeepsIInv
<1>5. CASE journals[posts[p].job.key] = NoJournal
    <2> DEFINE state == [pc |-> "ensure", job |-> posts[p].job, attempt |-> posts[p].attempt,
                         next |-> 1, seen |-> cache, stale |-> {}, staleKey |-> FALSE]
    <2>1. Goes(p, state)
        BY <1>5 DEF FindByIdempotencyKey
    <2>2. state \in Post
        <3>1. 1 \in 1..(MaxPostings + 1)
            BY DEF MaxPostings
        <3> QED
            BY <1>2, <3>1 DEF Post, InTransaction, IInv, TypeOK
    <2>3. posts'[p] = state
        BY <2>1 DEF Goes, IInv, TypeOK
    <2>4. Sound(p)'
        <3>1. Len(posts[p].job.postings) \in Nat /\ 1 <= Len(posts[p].job.postings)
            BY <1>2, JobsAreJournals
        <3>2. HoldsItsRows(p)'
            <4>1. 1..(posts'[p].next - 1) = {}
                BY <2>3
            <4> QED
                BY <2>3, <3>1, <4>1 DEF HoldsItsRows, At
        <3>3. SeesTheStore(p)'
            BY <1>3, <1>5, <2>3 DEF SeesTheStore, storeVars
        <3>4. HasTheFunds(p)' /\ OwnsItsKey(p)'
            BY <2>3 DEF HasTheFunds, OwnsItsKey, At
        <3> QED
            BY <3>2, <3>3, <3>4 DEF Sound
    <2>5. state.pc = "ensure"
        OBVIOUS
    <2>6. /\ holder' \in [Accounts -> Posts \cup {Nobody}]
          /\ inserted' \in [Keys -> Posts \cup {Nobody}]
          /\ \A q \in Posts \ {p} : /\ \A a \in Accounts : holder[a] = q => holder'[a] = q
                                    /\ \A k \in Keys : inserted[k] = q => inserted'[k] = q
        BY <1>3 DEF IInv, TypeOK
    <2> HIDE DEF state
    <2> QED
        BY <1>3, <2>1, <2>2, <2>4, <2>5, <2>6, StepKeepsIInv
<1> QED
    BY <1>4, <1>5

\* A row joins the transaction only if nobody changed it since the snapshot.
LEMMA EnsureKeepsIInv ==
    ASSUME IInv, NEW p \in Posts, EnsureAccount(p)
    PROVE  IInv'
<1>1. At(p, "ensure") /\ Open(p)
    BY DEF EnsureAccount, At, Open
<1>2. Sound(p) /\ TypeOK
    BY DEF IInv
<1>3. posts[p].next \in 1..Len(posts[p].job.postings) /\ NextAccount(p) \in Accounts
    BY <1>1, <1>2, NextRow
<1>4. posts[p] \in InTransaction
    BY <1>1, <1>2, OpenPosts
<1>5. CASE NextAccount(p) \in posts[p].stale
    <2>1. Aborts(p, "conflict")
        BY <1>5 DEF EnsureAccount
    <2> QED
        BY <1>1, <2>1, AbortsKeepsIInv
<1>6. CASE NextAccount(p) \notin posts[p].stale
    <2>1. /\ holder' = [holder EXCEPT ![NextAccount(p)] = p]
          /\ Goes(p, Ensured(p))
          /\ UNCHANGED storeVars /\ inserted' = inserted
          /\ holder[NextAccount(p)] \in {p, Nobody}
        BY <1>6 DEF EnsureAccount, storeVars
    <2>2. Len(posts[p].job.postings) \in 2..MaxPostings /\ posts[p].job \in Jobs
        BY <1>4, JobsAreJournals DEF InTransaction
    <2>3. posts[p].next + 1 \in 1..(MaxPostings + 1)
        <3>1. \A n, l \in Nat : n \in 1..l /\ l \in 2..MaxPostings => n + 1 \in 1..(MaxPostings + 1)
            BY DEF MaxPostings
        <3>2. Len(posts[p].job.postings) \in Nat /\ posts[p].next \in Nat
            BY <1>3, <2>2 DEF MaxPostings
        <3> QED
            BY <1>3, <2>2, <3>1, <3>2
    <2>4. /\ Ensured(p) \in InTransaction
          /\ Ensured(p).next = posts[p].next + 1
          /\ Ensured(p).job = posts[p].job
          /\ Ensured(p).seen = posts[p].seen
          /\ Ensured(p).stale = posts[p].stale
          /\ Ensured(p).staleKey = posts[p].staleKey
          /\ Ensured(p).pc = IF posts[p].next = Len(posts[p].job.postings)
                             THEN "guard" ELSE "ensure"
        BY <1>4, <2>3 DEF Ensured, InTransaction
    <2>5. posts'[p] = Ensured(p)
        BY <1>2, <2>1 DEF Goes, TypeOK
    <2>6. /\ holder' \in [Accounts -> Posts \cup {Nobody}]
          /\ inserted' \in [Keys -> Posts \cup {Nobody}]
          /\ \A q \in Posts \ {p} : /\ \A a \in Accounts : holder[a] = q => holder'[a] = q
                                    /\ \A k \in Keys : inserted[k] = q => inserted'[k] = q
        BY <1>2, <1>3, <2>1, PgLedgerAssumption DEF TypeOK, Nobody
    <2>7. HoldsItsRows(p)'
        <3>1. Len(posts[p].job.postings) \in Nat
            BY <2>2 DEF MaxPostings
        <3>2. /\ At(p, "ensure")' <=> posts'[p].next <= Len(posts'[p].job.postings)
              /\ posts'[p].next <= Len(posts'[p].job.postings) + 1
            <4>1. \A n, l \in Nat : n \in 1..l => /\ n + 1 <= l <=> n # l
                                                  /\ n + 1 <= l + 1
                OBVIOUS
            <4>2. posts[p].next \in Nat
                BY <1>3
            <4> QED
                BY <1>3, <2>4, <2>5, <3>1, <4>1, <4>2 DEF At
        <3>3. ASSUME NEW i \in 1..(posts'[p].next - 1)
              PROVE  /\ holder'[posts'[p].job.postings[i].account] = p
                     /\ posts'[p].job.postings[i].account \notin posts'[p].stale
            <4>1. i \in 1..(posts[p].next - 1) \/ i = posts[p].next
                BY <1>3, <2>4, <2>5
            <4>2. i \in 1..Len(posts[p].job.postings)
                BY <1>3, <3>1, <4>1
            <4>3. posts[p].job.postings[i].account \in Accounts
                BY <2>2, <4>2, JobsAreJournals
            <4>4. CASE i = posts[p].next
                BY <1>2, <1>3, <1>6, <2>1, <2>4, <2>5, <4>4 DEF NextAccount, TypeOK
            <4>5. CASE i \in 1..(posts[p].next - 1)
                <5>1. /\ holder[posts[p].job.postings[i].account] = p
                      /\ posts[p].job.postings[i].account \notin posts[p].stale
                    BY <1>1, <1>2, <4>5 DEF Sound, HoldsItsRows
                <5>2. holder'[posts[p].job.postings[i].account] = p
                    BY <1>2, <2>1, <4>3, <5>1 DEF TypeOK
                <5> QED
                    BY <2>4, <2>5, <5>1, <5>2
            <4> QED
                BY <4>1, <4>4, <4>5
        <3> QED
            BY <3>2, <3>3 DEF HoldsItsRows
    <2>8. SeesTheStore(p)'
        BY <1>1, <1>2, <2>1, <2>4, <2>5 DEF Sound, SeesTheStore, storeVars
    <2>9. HasTheFunds(p)' /\ OwnsItsKey(p)'
        BY <2>4, <2>5 DEF HasTheFunds, OwnsItsKey, At
    <2>10. Sound(p)'
        BY <2>7, <2>8, <2>9 DEF Sound
    <2>11. Ensured(p) \in Post /\ Ensured(p).pc # "done"
        BY <2>4 DEF Post
    <2> QED
        BY <2>1, <2>6, <2>10, <2>11, StepKeepsIInv
<1> QED
    BY <1>5, <1>6

\* The guard of a transaction that refuses is one on the committed balances.
LEMMA RefusesTruly ==
    ASSUME IInv, NEW p \in Posts, At(p, "guard"),
           \E a \in Touched(posts[p].job) :
              a.kind \in NonNegativeKinds
                /\ posts[p].seen[a] + Delta(posts[p].job.postings, a) < 0
    PROVE  Store!Overdraws(posts[p].job.postings)
<1>1. Open(p) /\ ~At(p, "ensure")
    BY DEF At, Open
<1>2. PICK a \in Touched(posts[p].job) :
          a.kind \in NonNegativeKinds
            /\ posts[p].seen[a] + Delta(posts[p].job.postings, a) < 0
    OBVIOUS
<1>3. a \in Accounts /\ posts[p].seen[a] = cache[a]
    BY <1>1, HoldsAll DEF IInv
<1>4. cache[a] \in Int /\ cache[a] >= 0
    BY <1>2, <1>3 DEF IInv, TypeOK, CacheNonNegative
<1>5. Delta(posts[p].job.postings, a) \in Int
    BY <1>1, OpenFields, JobsAreJournals, DeltaIsInt DEF IInv
<1>6. cache[a] + Delta(posts[p].job.postings, a) < 0 /\ Delta(posts[p].job.postings, a) # 0
    <2>1. cache[a] + Delta(posts[p].job.postings, a) < 0
        BY <1>2, <1>3
    <2>2. \A b, d \in Int : b >= 0 /\ b + d < 0 => d # 0
        OBVIOUS
    <2> QED
        BY <1>4, <1>5, <2>1, <2>2
<1> QED
    BY <1>2, <1>3, <1>6, SameOperators DEF Store!Overdraws

LEMMA LockKeepsIInv ==
    ASSUME IInv, NEW p \in Posts, LockBalances(p)
    PROVE  IInv'
<1>1. At(p, "guard") /\ Open(p)
    BY DEF LockBalances, At, Open
<1>2. posts[p] \in InTransaction /\ Sound(p)
    BY <1>1, OpenPosts DEF IInv
<1> DEFINE refused == \E a \in Touched(posts[p].job) :
                          a.kind \in NonNegativeKinds
                            /\ posts[p].seen[a] + Delta(posts[p].job.postings, a) < 0
<1>3. CASE refused
    <2>1. Throws(p, "insufficient")
        BY <1>3 DEF LockBalances
    <2> QED
        BY <1>1, <2>1, ThrowsKeepsIInv
<1>4. CASE ~refused
    <2> DEFINE state == [posts[p] EXCEPT !.pc = "insert"]
    <2>1. /\ Goes(p, state)
          /\ UNCHANGED storeVars /\ UNCHANGED <<holder, inserted>>
        BY <1>4 DEF LockBalances, storeVars
    <2>2. /\ state \in InTransaction /\ state.pc = "insert"
          /\ state.job = posts[p].job /\ state.next = posts[p].next
          /\ state.seen = posts[p].seen /\ state.stale = posts[p].stale
          /\ state.staleKey = posts[p].staleKey
        BY <1>2 DEF InTransaction
    <2>3. posts'[p] = state
        BY <2>1 DEF Goes, IInv, TypeOK
    <2> HIDE DEF state
    <2>4. HoldsItsRows(p)' /\ SeesTheStore(p)' /\ OwnsItsKey(p)'
        BY <1>1, <1>2, <2>1, <2>2, <2>3
           DEF Sound, HoldsItsRows, SeesTheStore, OwnsItsKey, At, storeVars
    <2>5. HasTheFunds(p)'
        <3> SUFFICES ASSUME NEW a \in Touched(posts[p].job), a.kind \in NonNegativeKinds
                     PROVE  posts[p].seen[a] + Delta(posts[p].job.postings, a) >= 0
            BY <2>2, <2>3 DEF HasTheFunds
        <3>1. a \in Accounts
            BY <1>1, HoldsAll DEF At, IInv
        <3>2. posts[p].seen[a] \in Int /\ Delta(posts[p].job.postings, a) \in Int
            BY <1>1, <3>1, OpenFields, JobsAreJournals, DeltaIsInt DEF IInv
        <3>3. ~(posts[p].seen[a] + Delta(posts[p].job.postings, a) < 0)
            BY <1>4
        <3>4. \A b, d \in Int : ~(b + d < 0) => b + d >= 0
            OBVIOUS
        <3> QED
            BY <3>2, <3>3, <3>4
    <2>6. Sound(p)'
        BY <2>4, <2>5 DEF Sound
    <2>7. state \in Post /\ state.pc # "done"
        BY <2>2 DEF Post
    <2>8. /\ holder' \in [Accounts -> Posts \cup {Nobody}]
          /\ inserted' \in [Keys -> Posts \cup {Nobody}]
          /\ \A q \in Posts \ {p} : /\ \A a \in Accounts : holder[a] = q => holder'[a] = q
                                    /\ \A k \in Keys : inserted[k] = q => inserted'[k] = q
        BY <2>1 DEF IInv, TypeOK
    <2> QED
        BY <2>1, <2>6, <2>7, <2>8, StepKeepsIInv
<1> QED
    BY <1>3, <1>4

LEMMA InsertKeepsIInv ==
    ASSUME IInv, NEW p \in Posts, InsertHeader(p)
    PROVE  IInv'
<1>1. At(p, "insert") /\ Open(p)
    BY DEF InsertHeader, At, Open
<1>2. posts[p] \in InTransaction /\ Sound(p) /\ posts[p].job.key \in Keys
    BY <1>1, OpenPosts, OpenFields, JobsAreJournals DEF IInv
<1>3. CASE posts[p].staleKey
    <2>1. Aborts(p, "conflict") \/ Throws(p, "duplicate")
        BY <1>3 DEF InsertHeader
    <2> QED
        BY <1>1, <2>1, AbortsKeepsIInv, ThrowsKeepsIInv
<1>4. CASE ~posts[p].staleKey
    <2> DEFINE state == [posts[p] EXCEPT !.pc = "commit"]
    <2>1. /\ Goes(p, state)
          /\ UNCHANGED storeVars /\ holder' = holder
          /\ inserted' = [inserted EXCEPT ![posts[p].job.key] = p]
          /\ inserted[posts[p].job.key] \in {p, Nobody}
        BY <1>4 DEF InsertHeader, storeVars
    <2>2. /\ state \in InTransaction /\ state.pc = "commit"
          /\ state.job = posts[p].job /\ state.next = posts[p].next
          /\ state.seen = posts[p].seen /\ state.stale = posts[p].stale
          /\ state.staleKey = posts[p].staleKey
        BY <1>2 DEF InTransaction
    <2>3. posts'[p] = state
        BY <2>1 DEF Goes, IInv, TypeOK
    <2> HIDE DEF state
    <2>4. HoldsItsRows(p)' /\ SeesTheStore(p)' /\ HasTheFunds(p)'
        BY <1>1, <1>2, <2>1, <2>2, <2>3
           DEF Sound, HoldsItsRows, SeesTheStore, HasTheFunds, At, storeVars
    <2>5. OwnsItsKey(p)'
        BY <1>2, <1>4, <2>1, <2>2, <2>3 DEF OwnsItsKey, IInv, TypeOK
    <2>6. Sound(p)'
        BY <2>4, <2>5 DEF Sound
    <2>7. state \in Post /\ state.pc # "done"
        BY <2>2 DEF Post
    <2>8. /\ holder' \in [Accounts -> Posts \cup {Nobody}]
          /\ inserted' \in [Keys -> Posts \cup {Nobody}]
          /\ \A q \in Posts \ {p} : /\ \A a \in Accounts : holder[a] = q => holder'[a] = q
                                    /\ \A k \in Keys : inserted[k] = q => inserted'[k] = q
        BY <1>2, <2>1, PgLedgerAssumption DEF IInv, TypeOK, Nobody
    <2> QED
        BY <2>1, <2>6, <2>7, <2>8, StepKeepsIInv
<1> QED
    BY <1>3, <1>4

LEMMA KeyIsFree ==
    ASSUME IInv, NEW p \in Posts, At(p, "commit")
    PROVE  journals[posts[p].job.key] = NoJournal
<1>1. Open(p) /\ Sound(p)
    BY DEF IInv, At, Open
<1> QED
    BY <1>1 DEF Sound, OwnsItsKey, SeesTheStore

\* At COMMIT the committed balances bear the journal, and its key is free.
LEMMA CommitIsPost ==
    ASSUME IInv, NEW p \in Posts, CommitJournal(p)
    PROVE  Store!Post(posts[p].job.key, posts[p].job.postings)
<1>1. At(p, "commit") /\ Open(p) /\ ~At(p, "ensure")
    BY DEF CommitJournal, At, Open
<1>2. Sound(p) /\ posts[p].job \in Jobs
    BY <1>1, OpenFields DEF IInv
<1>3. WellFormed(posts[p].job.postings)
    BY <1>2, JobsAreJournals
<1>4. journals[posts[p].job.key] = NoJournal
    BY <1>1, KeyIsFree
<1>5. ~Store!Overdraws(posts[p].job.postings)
    <2> SUFFICES ASSUME NEW a \in Accounts, a.kind \in NonNegativeKinds,
                        Delta(posts[p].job.postings, a) # 0
                 PROVE  ~(cache[a] + Delta(posts[p].job.postings, a) < 0)
        BY SameOperators DEF Store!Overdraws
    <2>1. a \in Touched(posts[p].job)
        BY <1>2, OnlyTouchedMove
    <2>2. posts[p].seen[a] = cache[a]
        BY <1>1, <1>2, <2>1, HoldsAll DEF IInv
    <2>3. posts[p].seen[a] + Delta(posts[p].job.postings, a) >= 0
        BY <1>1, <1>2, <2>1 DEF Sound, HasTheFunds, At
    <2>4. cache[a] \in Int /\ Delta(posts[p].job.postings, a) \in Int
        BY <1>2, JobsAreJournals, DeltaIsInt DEF IInv, TypeOK
    <2>5. \A b, d \in Int : b + d >= 0 => ~(b + d < 0)
        OBVIOUS
    <2> QED
        BY <2>2, <2>3, <2>4, <2>5
<1>6. cache' = Store!Applied(posts[p].job.postings)
    BY SameOperators DEF CommitJournal, Store!Applied
<1>7. journals' = [journals EXCEPT ![posts[p].job.key] = posts[p].job.postings]
    BY DEF CommitJournal
<1> QED
    BY <1>3, <1>4, <1>5, <1>6, <1>7, SameOperators
       DEF Store!Post, Store!Accepts, Store!Posted, Store!Commit

\* A commit leaves every other transaction its own rows and tells it of the others.
LEMMA CommitKeepsOthers ==
    ASSUME IInv, NEW p \in Posts, CommitJournal(p), NEW q \in Posts, q # p
    PROVE  Sound(q)'
<1> DEFINE job == posts[p].job
<1>1. At(p, "commit") /\ Open(p) /\ ~At(p, "ensure")
    BY DEF CommitJournal, At, Open
<1>2. job \in Jobs /\ Sound(p) /\ Sound(q) /\ TypeOK /\ p # Nobody
    BY <1>1, OpenFields, PgLedgerAssumption DEF IInv, Nobody
<1>3. posts'[q] = Overtaken(p, q)
    BY DEF CommitJournal
<1>4. CASE ~Open(q)
    BY <1>3, <1>4 DEF Overtaken, Sound, Open
<1>5. CASE Open(q)
    <2>1. posts[q] \in InTransaction
        BY <1>2, <1>5, OpenPosts
    <2>2. /\ posts'[q].pc = posts[q].pc /\ posts'[q].job = posts[q].job
          /\ posts'[q].next = posts[q].next /\ posts'[q].seen = posts[q].seen
          /\ posts'[q].stale = posts[q].stale \cup Touched(job)
          /\ posts'[q].staleKey = (posts[q].staleKey \/ posts[q].job.key = job.key)
        BY <1>3, <1>5, <2>1 DEF Overtaken, InTransaction
    <2>3. \A a \in Touched(job) : a \in Accounts /\ holder[a] = p
        BY <1>1, <1>2, HoldsAll
    <2>4. /\ \A a \in Accounts : holder[a] = q => holder'[a] = q
          /\ \A k \in Keys : inserted[k] = q => inserted'[k] = q
        BY <1>2, ReleaseKeepsOthers DEF CommitJournal
    <2>5. HoldsItsRows(q) /\ SeesTheStore(q) /\ HasTheFunds(q) /\ OwnsItsKey(q)
        BY <1>2, <1>5 DEF Sound
    <2>6. posts[q].job \in Jobs /\ posts[q].next \in 1..(MaxPostings + 1)
        BY <2>1 DEF InTransaction
    <2>7. HoldsItsRows(q)'
        <3>1. ASSUME NEW i \in 1..(posts[q].next - 1)
              PROVE  /\ holder'[posts[q].job.postings[i].account] = q
                     /\ posts[q].job.postings[i].account
                           \notin posts[q].stale \cup Touched(job)
            <4>1. posts[q].job.postings[i].account \in Accounts
                <5>1. Len(posts[q].job.postings) \in Nat
                    BY <2>6, JobsAreJournals
                <5>2. 1..(posts[q].next - 1) \subseteq 1..Len(posts[q].job.postings)
                    BY <2>5, <2>6, <5>1 DEF HoldsItsRows
                <5> QED
                    BY <2>6, <5>2, JobsAreJournals
            <4>2. /\ holder[posts[q].job.postings[i].account] = q
                  /\ posts[q].job.postings[i].account \notin posts[q].stale
                BY <2>5 DEF HoldsItsRows
            <4> QED
                BY <2>3, <2>4, <4>1, <4>2
        <3> QED
            BY <2>2, <2>5, <3>1 DEF HoldsItsRows, At
    <2>8. SeesTheStore(q)'
        <3>1. ASSUME NEW a \in Accounts, a \notin posts[q].stale \cup Touched(job)
              PROVE  posts[q].seen[a] = cache'[a]
            <4>1. cache'[a] = cache[a] + Delta(job.postings, a)
                BY DEF CommitJournal
            <4>2. Delta(job.postings, a) = 0 /\ cache[a] \in Int
                BY <1>2, <3>1, OnlyTouchedMove DEF TypeOK
            <4>3. posts[q].seen[a] = cache[a]
                BY <2>5, <3>1 DEF SeesTheStore
            <4> QED
                BY <4>1, <4>2, <4>3
        <3>2. ASSUME ~posts[q].staleKey, posts[q].job.key # job.key
              PROVE  journals'[posts[q].job.key] = NoJournal
            BY <1>2, <2>5, <2>6, <3>2, JobsAreJournals DEF SeesTheStore, CommitJournal, TypeOK
        <3> QED
            BY <2>2, <3>1, <3>2 DEF SeesTheStore
    <2>9. HasTheFunds(q)'
        BY <2>2, <2>5 DEF HasTheFunds
    <2>10. OwnsItsKey(q)'
        <3> SUFFICES ASSUME At(q, "commit")
                     PROVE  ~posts'[q].staleKey /\ inserted'[posts'[q].job.key] = q
            BY <2>2 DEF OwnsItsKey, At
        <3>1. ~posts[q].staleKey /\ inserted[posts[q].job.key] = q
            BY <2>5 DEF OwnsItsKey
        <3>2. inserted[job.key] = p
            BY <1>1, <1>2 DEF Sound, OwnsItsKey
        <3>3. posts[q].job.key \in Keys
            BY <2>6, JobsAreJournals
        <3> QED
            BY <2>2, <2>4, <3>1, <3>2, <3>3
    <2> QED
        BY <2>7, <2>8, <2>9, <2>10 DEF Sound
<1> QED
    BY <1>4, <1>5

LEMMA CommitKeepsIInv ==
    ASSUME IInv, NEW p \in Posts, CommitJournal(p)
    PROVE  IInv'
<1> DEFINE job == posts[p].job
<1>1. At(p, "commit") /\ Open(p)
    BY DEF CommitJournal, At, Open
<1>2. TypeOK /\ job \in Jobs
    BY <1>1, OpenFields DEF IInv
<1>3. job.key \in Keys /\ job.postings \in Seq(Posting) /\ job.postings # NoJournal
    BY <1>2, JobsAreJournals
<1>4. PICK result \in {"stored", "lost"} :
         posts' = [q \in Posts |-> IF q = p THEN Done(p, result) ELSE Overtaken(p, q)]
    BY DEF CommitJournal
<1>5. cache' = [a \in Accounts |-> cache[a] + Delta(job.postings, a)]
    BY DEF CommitJournal
<1>6. journals' = [journals EXCEPT ![job.key] = job.postings]
    BY DEF CommitJournal
<1>7. TypeOK'
    <2>1. cache' \in [Accounts -> Int]
        BY <1>2, <1>3, <1>5, DeltaIsInt DEF TypeOK
    <2>2. journals' \in [Keys -> Seq(Posting)]
        BY <1>2, <1>3, <1>6 DEF TypeOK
    <2>3. /\ holder' \in [Accounts -> Posts \cup {Nobody}]
          /\ inserted' \in [Keys -> Posts \cup {Nobody}]
        BY <1>2, ReleaseKeepsTypes DEF CommitJournal
    <2>4. Done(p, result) \in Post
        BY <1>2, DoneIsPost
    <2>5. ASSUME NEW q \in Posts PROVE Overtaken(p, q) \in Post
        <3>1. CASE q = p \/ ~Open(q)
            BY <1>2, <3>1 DEF Overtaken, TypeOK
        <3>2. CASE q # p /\ Open(q)
            <4>1. posts[q] \in InTransaction
                BY <1>2, <3>2, OpenPosts
            <4>2. Touched(job) \subseteq Accounts
                BY <1>2, JobsAreJournals DEF Touched
            <4>3. Overtaken(p, q) \in InTransaction
                BY <3>2, <4>1, <4>2 DEF Overtaken, InTransaction
            <4> QED
                BY <4>3 DEF Post
        <3> QED
            BY <3>1, <3>2
    <2>6. posts' \in [Posts -> Post]
        BY <1>4, <2>4, <2>5
    <2> QED
        BY <2>1, <2>2, <2>3, <2>6 DEF TypeOK
<1>8. CacheNonNegative'
    <2>1. ~Store!Overdraws(job.postings)
        BY <1>1, <1>3, CommitIsPost, KeyIsFree, SameOperators
           DEF Store!Post, Store!Accepts, Store!Posted
    <2> SUFFICES ASSUME NEW a \in Accounts, a.kind \in NonNegativeKinds
                 PROVE  cache'[a] >= 0
        BY DEF CacheNonNegative
    <2>2. cache[a] \in Int /\ cache[a] >= 0 /\ Delta(job.postings, a) \in Int
        BY <1>2, <1>3, DeltaIsInt DEF TypeOK, IInv, CacheNonNegative
    <2>3. Delta(job.postings, a) = 0 \/ ~(cache[a] + Delta(job.postings, a) < 0)
        BY <2>1, SameOperators DEF Store!Overdraws
    <2>4. \A b, d \in Int : b >= 0 /\ (d = 0 \/ ~(b + d < 0)) => b + d >= 0
        OBVIOUS
    <2> QED
        BY <1>5, <2>2, <2>3, <2>4
<1>9. ASSUME NEW q \in Posts PROVE Sound(q)'
    <2>1. CASE q = p
        <3>1. posts'[p].pc = "done"
            BY <1>2, <1>4, DoneIsPost
        <3> QED
            BY <2>1, <3>1 DEF Sound, Open
    <2> QED
        BY <2>1, CommitKeepsOthers
<1>10. ResolvedIsStored'
    <2> SUFFICES ASSUME NEW q \in Posts, At(q, "done")', posts'[q].result = "stored"
                 PROVE  journals'[posts'[q].job.key] # NoJournal
        BY DEF ResolvedIsStored
    <2>1. CASE q = p
        BY <1>2, <1>3, <1>4, <1>6, <2>1, DoneIsPost DEF TypeOK
    <2>2. CASE q # p
        <3>1. posts'[q] = posts[q]
            <4>1. CASE Open(q)
                BY <1>2, <1>4, <2>2, <4>1, OpenPosts DEF Overtaken, InTransaction, At, Open
            <4> QED
                BY <1>4, <2>2, <4>1 DEF Overtaken
        <3>2. journals[posts[q].job.key] # NoJournal
            BY <3>1 DEF IInv, ResolvedIsStored, At
        <3>3. posts[q].job.key = job.key \/ journals'[posts[q].job.key] = journals[posts[q].job.key]
            BY <1>2, <1>6 DEF TypeOK
        <3> QED
            BY <1>2, <1>3, <1>6, <3>1, <3>2, <3>3 DEF TypeOK
    <2> QED
        BY <2>1, <2>2
<1> QED
    BY <1>7, <1>8, <1>9, <1>10 DEF IInv

\* A post of a cycle waits for a row or a key, so its transaction is open.
LEMMA DeadlockedIsOpen ==
    ASSUME NEW p \in Posts, Deadlocked(p)
    PROVE  Open(p) /\ ~At(p, "guard") /\ ~At(p, "commit")
BY DEF Deadlocked, WaitsFor, At, Open

LEMMA CrashKeepsIInv ==
    ASSUME IInv, Crash
    PROVE  IInv'
<1>1. TypeOK'
    BY DEF Crash, IInv, TypeOK, Post, storeVars
<1>2. CacheNonNegative'
    BY DEF Crash, IInv, CacheNonNegative, storeVars
<1>3. (\A p \in Posts : Sound(p)') /\ ResolvedIsStored'
    BY DEF Crash, Sound, Open, Waiting, ResolvedIsStored, At
<1> QED
    BY <1>1, <1>2, <1>3 DEF IInv

LEMMA NextKeepsIInv ==
    ASSUME IInv, [Next]_vars
    PROVE  IInv'
<1>1. CASE Crash
    BY <1>1, CrashKeepsIInv
<1>2. ASSUME NEW p \in Posts, Begin(p) \/ Answered(p) PROVE IInv'
    BY <1>2, BeginKeepsIInv, AnsweredKeepsIInv
<1>3. ASSUME NEW p \in Posts, Proceeds(p) PROVE IInv'
    <2>1. CASE FindByIdempotencyKey(p)
        BY <2>1, FindKeepsIInv
    <2>2. CASE EnsureAccount(p)
        BY <2>2, EnsureKeepsIInv
    <2>3. CASE LockBalances(p)
        BY <2>3, LockKeepsIInv
    <2>4. CASE InsertHeader(p)
        BY <2>4, InsertKeepsIInv
    <2>5. CASE CommitJournal(p)
        BY <2>5, CommitKeepsIInv
    <2>6. CASE CommitFails(p)
        BY <2>6, AbortsKeepsIInv DEF CommitFails, At, Open
    <2>7. CASE DeadlockDetected(p)
        BY <2>7, AbortsKeepsIInv, DeadlockedIsOpen DEF DeadlockDetected
    <2> QED
        BY <1>3, <2>1, <2>2, <2>3, <2>4, <2>5, <2>6, <2>7 DEF Proceeds
<1>4. CASE UNCHANGED vars
    BY <1>4 DEF vars, IInv, TypeOK, CacheNonNegative, Sound, Open, HoldsItsRows, SeesTheStore,
                HasTheFunds, OwnsItsKey, At, ResolvedIsStored
<1> QED
    BY <1>1, <1>2, <1>3, <1>4 DEF Next

-----------------------------------------------------------------------------
(* Theorems *)

LEMMA Invariance == Spec => []IInv
<1>1. Init => IInv
    BY InitHolds
<1>2. IInv /\ [Next]_vars => IInv'
    BY NextKeepsIInv
<1> QED
    BY <1>1, <1>2, PTL DEF Spec

\* Whatever is posted at once, the tables and the transactions keep their shape.
THEOREM TypeCorrect == Spec => []TypeOK
<1>1. IInv => TypeOK
    BY DEF IInv
<1> QED
    BY <1>1, Invariance, PTL

\* Concurrent posts, retried, deadlocked, cut off or unacknowledged, never take a
\* user's committed balance below zero.
THEOREM NeverOverdrawn == Spec => []CacheNonNegative
<1>1. IInv => CacheNonNegative
    BY DEF IInv
<1> QED
    BY <1>1, Invariance, PTL

\* Only a commit changes the store.
LEMMA StepsArePosts ==
    ASSUME IInv, [Next]_vars
    PROVE  \/ \E job \in Jobs : Store!Post(job.key, job.postings)
           \/ UNCHANGED storeVars
<1>1. CASE Crash
    BY <1>1 DEF Crash
<1>2. ASSUME NEW p \in Posts, Begin(p) \/ Answered(p) PROVE UNCHANGED storeVars
    BY <1>2 DEF Begin, Answered, storeVars
<1>3. ASSUME NEW p \in Posts, Proceeds(p)
      PROVE  CommitJournal(p) \/ UNCHANGED storeVars
    BY <1>3 DEF Proceeds, FindByIdempotencyKey, EnsureAccount, LockBalances, InsertHeader,
                CommitFails, DeadlockDetected, Aborts, Throws, storeVars
<1>4. ASSUME NEW p \in Posts, CommitJournal(p)
      PROVE  \E job \in Jobs : Store!Post(job.key, job.postings)
    <2>1. posts[p].job \in Jobs
        BY <1>4, OpenFields DEF CommitJournal, At, Open, IInv
    <2> QED
        BY <1>4, <2>1, CommitIsPost
<1>5. CASE UNCHANGED vars
    BY <1>5 DEF vars, storeVars
<1> QED
    BY <1>1, <1>2, <1>3, <1>4, <1>5 DEF Next

\* PgLedgerStore does what InMemoryLedgerStore does: its transactions change the
\* tables by whole posts only, each accepted by the balances and keys of its commit.
THEOREM TransactionsImplementPost == Spec => StoreSpec
<1>1. Init => cache = [a \in Accounts |-> 0] /\ journals = [k \in Keys |-> NoJournal]
    BY DEF Init
<1>2. IInv /\ [Next]_vars => [\E job \in Jobs : Store!Post(job.key, job.postings)]_storeVars
    BY StepsArePosts
<1> QED
    BY <1>1, <1>2, Invariance, PTL DEF Spec, StoreSpec

\* A post that leaves its guard for its end was refused by it.
LEMMA RefusalsAreDue ==
    ASSUME IInv, [Next]_vars, NEW p \in Posts, At(p, "guard"), posts'[p].pc = "done"
    PROVE  Store!Overdraws(posts[p].job.postings)
<1>1. ASSUME NEW q \in Posts, q # p,
             Begin(q) \/ Answered(q) \/ Proceeds(q)
      PROVE  FALSE
    <2>1. CASE CommitJournal(q)
        <3>1. posts'[p] = Overtaken(q, p)
            BY <1>1, <2>1 DEF CommitJournal
        <3>2. posts[p] \in InTransaction
            BY OpenPosts DEF At, Open, IInv
        <3> QED
            BY <1>1, <3>1, <3>2 DEF Overtaken, At, InTransaction
    <2>2. CASE ~CommitJournal(q)
        <3>1. \E state : Goes(q, state)
            BY <1>1, <2>2 DEF Begin, Answered, Proceeds, FindByIdempotencyKey, EnsureAccount,
                  LockBalances, InsertHeader, CommitFails, DeadlockDetected, Aborts, Throws
        <3>2. posts'[p] = posts[p]
            BY <1>1, <3>1 DEF Goes, IInv, TypeOK
        <3> QED
            BY <3>2 DEF At
    <2> QED
        BY <2>1, <2>2
<1>2. CASE Begin(p) \/ Answered(p) \/ Proceeds(p)
    <2>1. LockBalances(p)
        <3>1. ~Begin(p) /\ ~Answered(p)
            <4>1. posts[p] # Waiting
                BY DEF At, Waiting
            <4> QED
                BY <4>1 DEF Begin, Answered, At
        <3>2. ~FindByIdempotencyKey(p) /\ ~EnsureAccount(p)
            BY DEF FindByIdempotencyKey, EnsureAccount, At
        <3>3. ~InsertHeader(p) /\ ~CommitJournal(p) /\ ~CommitFails(p)
            BY DEF InsertHeader, CommitJournal, CommitFails, At
        <3>4. ~DeadlockDetected(p)
            BY DeadlockedIsOpen DEF DeadlockDetected
        <3> QED
            BY <1>2, <3>1, <3>2, <3>3, <3>4 DEF Proceeds
    <2>2. CASE \E a \in Touched(posts[p].job) :
                  a.kind \in NonNegativeKinds
                    /\ posts[p].seen[a] + Delta(posts[p].job.postings, a) < 0
        BY <2>2, RefusesTruly
    <2>3. CASE ~\E a \in Touched(posts[p].job) :
                  a.kind \in NonNegativeKinds
                    /\ posts[p].seen[a] + Delta(posts[p].job.postings, a) < 0
        <3>1. Goes(p, [posts[p] EXCEPT !.pc = "insert"])
            BY <2>1, <2>3 DEF LockBalances
        <3>2. posts[p] \in InTransaction
            BY OpenPosts DEF At, Open, IInv
        <3> QED
            BY <3>1, <3>2 DEF Goes, IInv, TypeOK, InTransaction
    <2> QED
        BY <2>2, <2>3
<1>3. CASE Crash
    BY <1>3 DEF Crash, Waiting
<1>4. CASE UNCHANGED vars
    BY <1>4 DEF vars, At
<1> QED
    BY <1>1, <1>2, <1>3, <1>4 DEF Next

\* What post() answers is so: a journal it reports is stored, and a refusal is one
\* that the committed balances of that moment make.
THEOREM AnswersHold == Spec => AnswersAreTrue
<1> DEFINE Due == \A p \in Posts : At(p, "guard") /\ posts'[p].pc = "done"
                                      => Store!Overdraws(posts[p].job.postings)
<1>1. IInv => ResolvedIsStored
    BY DEF IInv
<1>2. IInv /\ [Next]_vars => [Due]_posts
    BY RefusalsAreDue
<1>3. AnswersAreTrue <=> []ResolvedIsStored /\ [][Due]_posts
    BY DEF AnswersAreTrue, ResolvedIsStored
<1> HIDE DEF Due
<1> QED
    BY <1>1, <1>2, <1>3, Invariance, PTL DEF Spec
=============================================================================
