----------------------------- MODULE MCPgLedger -----------------------------
(* A small instance of PgLedger for TLC. *)
EXTENDS PgLedger

CONSTANTS ann, g1, BRL, fund, top, out

\* A deposit and a top-up take the same two rows in opposite orders; the top-up and a
\* cash-out compete for the wallet; any of them may be posted by several callers at once.
MCJobs ==
    {[key |-> fund, postings |-> fundWallet(ann, BRL, 2)],
     [key |-> top, postings |-> airtimeTopup(ann, BRL, 2, 0)],
     [key |-> out, postings |-> cashOut(g1, ann, BRL, 1)]}
=============================================================================
