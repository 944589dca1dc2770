---------------------- MODULE HistoricalTransactions ----------------------
(***************************************************************************)
(* The last transactions of an account over RPC                            *)
(* (wire/rpc/historical_transactions.rs): a command task that spawns one   *)
(* task for every request, each of which looks for a recent signature,     *)
(* pages backwards from it, fetches the transactions and broadcasts them.  *)
(* Signatures are numbered from the oldest.                                *)
(***************************************************************************)
EXTENDS Naturals, Sequences, SequencesExt, FiniteSetsExt

CONSTANTS
    OldSigs,        \* signatures of the account at the start
    NewestSig,      \* bound: the last one it makes
    FailedSigs,     \* the ones whose transaction failed
    IgnoreFailed,   \* ignore_error_transactions
    Wanted,         \* n_transactions
    PageSize,       \* signatures per request (1000)
    RecentRetries,  \* max_initial_signature_retries
    Requests,       \* the first is an initial account, the others are added
    Given           \* recent_signature of a request, 0 for none

ASSUME HistoricalAssumption ==
    /\ OldSigs \in Nat /\ NewestSig \in Nat /\ OldSigs <= NewestSig
    /\ FailedSigs \subseteq 1 .. NewestSig /\ IgnoreFailed \in BOOLEAN
    /\ Wanted \in Nat /\ PageSize \in Nat \ {0} /\ RecentRetries \in Nat
    /\ Requests \in Nat \ {0} /\ Given \in [1 .. Requests -> 0 .. OldSigs]

VARIABLES
    newest,         \* newest signature on chain (external)
    quit,           \* the shared exit_signal
    handled,        \* commands taken by the command task
    jobs            \* the tasks of the requests

historicalVars == <<newest, quit, handled, jobs>>

\* found is the recent signature, 0 for none: one that comes with the request is not
\* looked for.  sigs is what was paged, newest first; failed whether a request of a
\* page failed.
Job(j) == [pc |-> "recent", tries |-> IF Given[j] = 0 THEN 0 ELSE RecentRetries,
           found |-> Given[j], left |-> Wanted, last |-> 0,
           sigs |-> <<>>, failed |-> FALSE, out |-> <<>>]

HistoricalInit ==
    /\ newest = OldSigs
    /\ quit = FALSE
    /\ handled = 1
    /\ jobs = [j \in 1 .. Requests |-> Job(j)]

SetJob(j, r) == jobs' = [jobs EXCEPT ![j] = r]

\* External: the account makes another transaction.
Transact ==
    /\ newest < NewestSig
    /\ newest' = newest + 1
    /\ UNCHANGED <<quit, handled, jobs>>

\* HistoricalTxnCommand::Add spawns a task; Remove is ignored; Quit sets the
\* flag that all tasks share and ends the command task.
AddRequest ==
    /\ ~quit /\ handled < Requests
    /\ handled' = handled + 1
    /\ UNCHANGED <<newest, quit, jobs>>

QuitRequest ==
    /\ ~quit
    /\ quit' = TRUE
    /\ UNCHANGED <<newest, handled, jobs>>

\* The loop over the retries goes on after an answer; the last one counts.
FindRecent(j, ok) ==
    LET r == jobs[j] IN
    /\ j <= handled /\ r.pc = "recent" /\ r.tries < RecentRetries
    /\ SetJob(j, [r EXCEPT !.tries = @ + 1,
                           !.found = IF ok /\ newest > 0 THEN newest ELSE @])
    /\ UNCHANGED <<newest, quit, handled>>

FoundRecent(j) ==
    LET r == jobs[j] IN
    /\ j <= handled /\ r.pc = "recent" /\ r.tries = RecentRetries
    /\ SetJob(j, [r EXCEPT !.pc = IF r.found = 0 THEN "error" ELSE "page", !.last = r.found])
    /\ UNCHANGED <<newest, quit, handled>>

Skipped(s) == IgnoreFailed /\ s \in FailedSigs

Query(r) == Min({r.left, PageSize})

NewestFirst(S) ==
    CHOOSE q \in [1 .. Cardinality(S) -> S] :
        ToSet(q) = S /\ \A i, k \in DOMAIN q : i < k => q[i] > q[k]

Oldest(r) == IF r.last > Query(r) THEN r.last - Query(r) ELSE 1

\* The node's answer: the newest signatures before last, at most as many as
\* asked for, without the ones that are ignored.
Answer(r) == NewestFirst({s \in Oldest(r) .. r.last - 1 : ~Skipped(s)})

Page(j) ==
    LET r == jobs[j]
        results == Answer(r)
    IN
    /\ r.pc = "page" /\ r.left > 0 /\ ~quit
    /\ SetJob(j, [r EXCEPT !.left = @ - Query(r), !.sigs = @ \o results,
                           !.last = IF results = <<>> THEN @ ELSE Last(results)])
    /\ UNCHANGED <<newest, quit, handled>>

\* Mutant: a failed page is passed over.
PageErrorAdvances(j) ==
    LET r == jobs[j] IN
    /\ r.pc = "page" /\ r.left > 0 /\ ~quit
    /\ SetJob(j, [r EXCEPT !.left = @ - Query(r), !.failed = TRUE,
                           !.last = IF Answer(r) = <<>> THEN @ ELSE Last(Answer(r))])
    /\ UNCHANGED <<newest, quit, handled>>

\* A failed request counts as an answer without signatures.
PageError(j) ==
    LET r == jobs[j] IN
    /\ r.pc = "page" /\ r.left > 0 /\ ~quit
    /\ SetJob(j, [r EXCEPT !.left = @ - Query(r), !.failed = TRUE])
    /\ UNCHANGED <<newest, quit, handled>>

\* Fetch what was paged, concurrently but keeping the order (buffered); what
\* cannot be fetched is left out.  By default, that is with order_by_earliest,
\* the order is that of the pages.
Fetch(j, good, byEarliest) ==
    LET r == jobs[j]
        ordered == IF byEarliest THEN r.sigs ELSE Reverse(r.sigs)
    IN
    /\ r.pc = "page" /\ (r.left = 0 \/ quit)
    /\ good \subseteq ToSet(r.sigs)
    /\ SetJob(j, [r EXCEPT !.pc = "done",
                           !.out = SelectSeq(ordered, LAMBDA s : s \in good)])
    /\ UNCHANGED <<newest, quit, handled>>

HistoricalNext ==
    \/ Transact \/ AddRequest \/ QuitRequest
    \/ \E j \in 1 .. Requests :
          \/ \E ok \in BOOLEAN : FindRecent(j, ok)
          \/ FoundRecent(j) \/ Page(j) \/ PageError(j)
          \/ \E good \in SUBSET ToSet(jobs[j].sigs), e \in BOOLEAN : Fetch(j, good, e)

HistoricalSpec == HistoricalInit /\ [][HistoricalNext]_historicalVars

-----------------------------------------------------------------------------
(* Properties.                                                             *)

\* The pages of a request join without a gap and without an overlap, whichever
\* of its page requests failed: from the signature it started at down to the
\* last one paged, every transaction that is not ignored is there once, newest first.  A
\* request that is not cut short by Quit gets as many as it wants or as there are,
\* unless a page failed or failed transactions are left out: these are counted as
\* if they had been delivered.
PagesJoin ==
    \A j \in 1 .. Requests :
        LET r == jobs[j] IN
        /\ \A i, k \in DOMAIN r.sigs : i < k => r.sigs[i] > r.sigs[k]
        /\ r.sigs # <<>> =>
               ToSet(r.sigs) = {s \in Last(r.sigs) .. r.found - 1 : ~Skipped(s)}
        /\ r.pc = "done" /\ r.left = 0 /\ ~r.failed
             /\ ~(\E s \in 1 .. r.found - 1 : Skipped(s)) =>
               Len(r.sigs) = Min({Wanted, r.found - 1})
===========================================================================
