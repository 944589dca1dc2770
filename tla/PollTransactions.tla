-------------------------- MODULE PollTransactions --------------------------
(***************************************************************************)
(* The transaction stream over RPC (wire/rpc/poll_transactions.rs), for    *)
(* one account: the handle's commands, the task that processes them, and   *)
(* the watch tasks it spawns, each of which polls the account's signatures *)
(* and broadcasts the transactions.  Signatures are numbered in the order  *)
(* of the chain.  Accounts share nothing but the broadcast channel.        *)
(***************************************************************************)
EXTENDS Naturals, SequencesExt

CONSTANTS
    InitialSigs,    \* signatures of the account at the start
    MaxSigs,        \* bound: signatures of the account at the end
    ErrSigs,        \* those of transactions that failed on chain
    IgnoreErrors,   \* request.ignore_error_transactions
    InitRetries,    \* max_initial_signature_retries
    MaxAttempts,    \* MAX_RETRY_SIGNATURE_ATTEMPTS
    MaxTasks,       \* bound: watch tasks
    MaxCommands     \* bound: commands sent

ASSUME ConstantsAssumption ==
    /\ InitialSigs \in Nat /\ MaxSigs \in Nat /\ InitialSigs <= MaxSigs
    /\ ErrSigs \subseteq 1 .. MaxSigs /\ IgnoreErrors \in BOOLEAN
    /\ InitRetries \in Nat /\ MaxAttempts \in Nat
    /\ MaxTasks \in Nat /\ MaxCommands \in Nat

VARIABLES
    onChain,    \* signatures of the account (external)
    commands,   \* the commands channel
    sentCount,  \* commands sent
    manager,    \* the task that processes the commands
    current,    \* accounts_map: the account's task, 0 if there is none
    started,    \* watch tasks spawned
    tasks,      \* their state
    sent        \* everything broadcast, in order

vars == <<onChain, commands, sentCount, manager, current, started, tasks, sent>>

Sigs == 1 .. MaxSigs

\* lastSeen is 0 while there is no signature, from its first value; attempts
\* counts the failed fetches of a signature, retrying is what retry_signatures
\* holds; batch is what remains to fetch in this round.
NewTask == [pc |-> "init", tries |-> 0, lastSeen |-> 0, from |-> 0, exit |-> FALSE,
            attempts |-> [s \in Sigs |-> 0], retrying |-> {}, batch |-> <<>>]

Init ==
    /\ onChain = InitialSigs
    /\ commands = <<>> /\ sentCount = 0 /\ manager = "run"
    /\ started \in {0, 1} /\ started <= MaxTasks    \* with an initial account or not
    /\ current = started
    /\ tasks = [g \in 1 .. MaxTasks |-> NewTask]
    /\ sent = <<>>

Update(g, t) == tasks' = [tasks EXCEPT ![g] = t]

-----------------------------------------------------------------------------
(* The chain (external) and the handle.                                    *)

NewSignature ==
    /\ onChain < MaxSigs
    /\ onChain' = onChain + 1
    /\ UNCHANGED <<commands, sentCount, manager, current, started, tasks, sent>>

\* watch_accounts, drop_accounts and notify_shutdown; they fail once the task
\* that receives is gone.
SendCommand(c) ==
    /\ sentCount < MaxCommands /\ manager \in {"run", "joining"}
    /\ sentCount' = sentCount + 1
    /\ commands' = Append(commands, c)
    /\ UNCHANGED <<onChain, manager, current, started, tasks, sent>>

-----------------------------------------------------------------------------
(* process_commands_task.                                                  *)

Receive(c) ==
    /\ manager = "run" /\ commands # <<>> /\ Head(commands) = c
    /\ commands' = Tail(commands)

\* Store the exit signal of the account's task, if it has one.
StopCurrent == [g \in 1 .. MaxTasks |->
    IF g = current THEN [tasks[g] EXCEPT !.exit = TRUE] ELSE tasks[g]]

\* Mutants: the previous task is forgotten without its exit signal; quit without it.
HandleAddForget ==
    /\ Receive("add") /\ started < MaxTasks
    /\ started' = started + 1
    /\ current' = started + 1
    /\ UNCHANGED <<onChain, sentCount, manager, tasks, sent>>

HandleQuitUnsignalled ==
    /\ Receive("quit")
    /\ manager' = "joining"
    /\ UNCHANGED <<onChain, sentCount, current, started, tasks, sent>>

HandleAdd ==
    /\ Receive("add") /\ started < MaxTasks
    /\ started' = started + 1
    /\ current' = started + 1
    /\ tasks' = StopCurrent
    /\ UNCHANGED <<onChain, sentCount, manager, sent>>

HandleRemove ==
    /\ Receive("remove")
    /\ current' = 0
    /\ tasks' = StopCurrent
    /\ UNCHANGED <<onChain, sentCount, manager, started, sent>>

HandleQuit ==
    /\ Receive("quit")
    /\ manager' = "joining"
    /\ tasks' = StopCurrent
    /\ UNCHANGED <<onChain, sentCount, current, started, sent>>

\* Every handle was dropped: the loop ends, and the watch tasks with their exit
\* signals are left to themselves.
HandlesDropped ==
    /\ manager = "run" /\ commands = <<>>
    /\ manager' = "dropped"
    /\ current' = 0
    /\ UNCHANGED <<onChain, commands, sentCount, started, tasks, sent>>

Finished == {"failed", "exited"}

\* join_all over the tasks that were in the map.
Join ==
    /\ manager = "joining"
    /\ current # 0 => tasks[current].pc \in Finished
    /\ manager' = "done"
    /\ current' = 0
    /\ UNCHANGED <<onChain, commands, sentCount, started, tasks, sent>>

-----------------------------------------------------------------------------
(* watch_account_task.                                                     *)

InitialSignature(g, ok) ==
    LET t == tasks[g]
        seen == IF ok /\ onChain > 0 THEN onChain ELSE t.lastSeen
    IN
    /\ g <= started /\ t.pc = "init" /\ t.tries < InitRetries
    /\ Update(g, [t EXCEPT !.tries = @ + 1, !.lastSeen = seen, !.from = seen])
    /\ UNCHANGED <<onChain, commands, sentCount, manager, current, started, sent>>

InitialDone(g) ==
    LET t == tasks[g] IN
    /\ g <= started /\ t.pc = "init" /\ t.tries = InitRetries
    /\ Update(g, [t EXCEPT !.pc = IF t.lastSeen = 0 THEN "failed" ELSE "check"])
    /\ UNCHANGED <<onChain, commands, sentCount, manager, current, started, sent>>

CheckExit(g) ==
    LET t == tasks[g] IN
    /\ t.pc = "check"
    /\ Update(g, [t EXCEPT !.pc = IF t.exit THEN "exited" ELSE "poll"])
    /\ UNCHANGED <<onChain, commands, sentCount, manager, current, started, sent>>

Ignored(s) == IgnoreErrors /\ s \in ErrSigs

NewSigs(t) == {s \in t.lastSeen + 1 .. onChain : ~Ignored(s)}

\* A failed request, or one that brings nothing new, ends the round.
PollNothing(g) ==
    /\ tasks[g].pc = "poll"
    /\ Update(g, [tasks[g] EXCEPT !.pc = "check"])
    /\ UNCHANGED <<onChain, commands, sentCount, manager, current, started, sent>>

\* The signatures from the oldest to the newest, each once.
Chronological(sigs) ==
    {q \in SetToSeqs(sigs) : \A i, j \in DOMAIN q : i < j => q[i] < q[j]}

\* Mutant: last_seen is not advanced.
PollAgain(g) ==
    LET t == tasks[g] IN
    /\ t.pc = "poll" /\ NewSigs(t) # {}
    /\ \E news \in Chronological(NewSigs(t)) :
          Update(g, [t EXCEPT !.pc = "fetch", !.batch = news])
    /\ UNCHANGED <<onChain, commands, sentCount, manager, current, started, sent>>

\* What is to be fetched: the signatures to retry in the order of the hash map,
\* then the new ones from the oldest to the newest.
Poll(g) ==
    LET t == tasks[g]
        kept == {s \in t.retrying : t.attempts[s] <= MaxAttempts}
    IN
    /\ t.pc = "poll" /\ NewSigs(t) # {}
    /\ \E retries \in SetToSeqs(kept), news \in Chronological(NewSigs(t)) :
          Update(g, [t EXCEPT !.pc = "fetch", !.lastSeen = Last(news), !.retrying = kept,
                              !.batch = retries \o news])
    /\ UNCHANGED <<onChain, commands, sentCount, manager, current, started, sent>>

Rest(t) == [t EXCEPT !.batch = Tail(@), !.pc = IF Len(t.batch) = 1 THEN "check" ELSE "fetch"]

\* A signature stays in retry_signatures when its transaction is fetched.
FetchOk(g) ==
    LET t == tasks[g] IN
    /\ t.pc = "fetch"
    /\ sent' = Append(sent, [sig |-> Head(t.batch), task |-> g])
    /\ Update(g, Rest(t))
    /\ UNCHANGED <<onChain, commands, sentCount, manager, current, started>>

\* Mutant: a failed signature is not kept.
FetchErrDrop(g) ==
    /\ tasks[g].pc = "fetch"
    /\ Update(g, Rest(tasks[g]))
    /\ UNCHANGED <<onChain, commands, sentCount, manager, current, started, sent>>

FetchErr(g) ==
    LET t == tasks[g]
        s == Head(t.batch)
    IN
    /\ t.pc = "fetch"
    /\ Update(g, [Rest(t) EXCEPT !.attempts[s] = @ + 1, !.retrying = @ \cup {s}])
    /\ UNCHANGED <<onChain, commands, sentCount, manager, current, started, sent>>

-----------------------------------------------------------------------------

Manager == HandleAdd \/ HandleRemove \/ HandleQuit \/ Join

Watch(g) ==
    \/ \E ok \in BOOLEAN : InitialSignature(g, ok)
    \/ InitialDone(g) \/ CheckExit(g) \/ PollNothing(g) \/ Poll(g)
    \/ FetchOk(g) \/ FetchErr(g)

Next ==
    \/ NewSignature
    \/ \E c \in {"add", "remove", "quit"} : SendCommand(c)
    \/ Manager \/ HandlesDropped
    \/ \E g \in 1 .. MaxTasks : Watch(g)

Spec == Init /\ [][Next]_vars

\* The runtime schedules every task that can run, and every request returns.
FairSpec == Spec /\ WF_vars(Manager) /\ \A g \in 1 .. MaxTasks : WF_vars(Watch(g))

-----------------------------------------------------------------------------
(* Properties.                                                             *)

Broadcast(g, s) == \E i \in DOMAIN sent : sent[i] = [sig |-> s, task |-> g]

\* No gap behind last_seen: every transaction of the account since the task began
\* has been broadcast, is in the round under way, is kept for a retry, or was
\* given up after more than MAX_RETRY_SIGNATURE_ATTEMPTS failures.
NoGap ==
    \A g \in 1 .. started : \A s \in tasks[g].from + 1 .. tasks[g].lastSeen :
        \/ Ignored(s)
        \/ Broadcast(g, s)
        \/ s \in ToSet(tasks[g].batch)
        \/ s \in tasks[g].retrying
        \/ tasks[g].attempts[s] > MaxAttempts

\* A task broadcasts every transaction once and in chronological order, which is
\* what it says of itself, except one whose fetch failed: that one may come again,
\* and after its successors.  Polling again, retrying others and restarting the
\* loop repeat and move nothing.
DisorderOnlyAfterFailure ==
    \A i, j \in DOMAIN sent :
        i < j /\ sent[i].task = sent[j].task /\ sent[i].sig >= sent[j].sig
            => tasks[sent[j].task].attempts[sent[j].sig] > 0

\* As long as a handle is held, a watch task that was not told to exit is the one
\* in the map, so that a later command can still stop it: no sequence of adds and
\* removes orphans one.
NoOrphan ==
    manager # "dropped" => \A g \in 1 .. started : ~tasks[g].exit => g = current \/ tasks[g].pc \in Finished

\* Quit completes: the task that processes commands waits for the watch task and
\* ends, whatever that was doing.
QuitCompletes == manager = "joining" ~> manager = "done"
=============================================================================
