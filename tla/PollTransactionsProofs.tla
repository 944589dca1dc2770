----------------------- MODULE PollTransactionsProofs -----------------------
(***************************************************************************)
(* Proofs about PollTransactions, for any number of signatures, tasks and  *)
(* commands and any retry limits: no transaction is skipped silently, only *)
(* one whose fetch failed is repeated or late, and no watch task is        *)
(* orphaned by the commands.  And about HistoricalTransactions, for any    *)
(* account and page size: the pages of a request join.                     *)
(***************************************************************************)
EXTENDS PollTransactions, HistoricalTransactions, AmountFacts

Groups == 1 .. MaxTasks

TaskType ==
    [pc : {"init", "check", "poll", "fetch", "failed", "exited"}, tries : Nat,
     lastSeen : 0 .. MaxSigs, from : 0 .. MaxSigs, exit : BOOLEAN,
     attempts : [Sigs -> Nat], retrying : SUBSET Sigs, batch : Seq(Sigs)]

Output == Seq([sig : Sigs, task : Groups])

\* The type invariant.
PollTypeOK ==
    /\ onChain \in 0 .. MaxSigs
    /\ commands \in Seq({"add", "remove", "quit"})
    /\ manager \in {"run", "joining", "done", "dropped"}
    /\ started \in 0 .. MaxTasks /\ current \in 0 .. started
    /\ tasks \in [Groups -> TaskType]
    /\ sent \in Output

\* A batch is there exactly while it is being fetched; a task that has not
\* begun has nothing behind it.  (t is the state of task g, out what was
\* broadcast, chain the number of signatures on chain.)
RoundOK(g, t, out) ==
    /\ t.pc = "fetch" <=> t.batch # <<>>
    /\ t.pc = "init" =>
          /\ t.retrying = {} /\ t.from = t.lastSeen
          /\ \A i \in DOMAIN out : out[i].task # g

\* Everything that a task has handled or is handling is behind last_seen.
SeenOK(g, t, out, chain) ==
    /\ t.lastSeen <= chain
    /\ \A s \in t.retrying : s <= t.lastSeen /\ t.attempts[s] > 0
    /\ \A k \in DOMAIN t.batch : t.batch[k] <= t.lastSeen
    /\ \A i \in DOMAIN out : out[i].task = g => out[i].sig <= t.lastSeen

\* A signature still to be fetched that has not failed yet is newer than all
\* that was broadcast, and than all that comes before it in the batch.
AheadOK(g, t, out) ==
    \A k \in DOMAIN t.batch : t.attempts[t.batch[k]] = 0 =>
        /\ \A i \in DOMAIN out : out[i].task = g => out[i].sig < t.batch[k]
        /\ \A l \in DOMAIN t.batch : l < k => t.batch[l] < t.batch[k]

\* NoGap, for one task.
GapOK(g, t, out) ==
    \A s \in t.from + 1 .. t.lastSeen :
        \/ Ignored(s)
        \/ \E i \in DOMAIN out : out[i] = [sig |-> s, task |-> g]
        \/ \E k \in DOMAIN t.batch : t.batch[k] = s
        \/ s \in t.retrying
        \/ t.attempts[s] > MaxAttempts

\* What is repeated or late has failed before, for one task.
OrderOK(g, t, out) ==
    \A i, j \in DOMAIN out :
        i < j /\ out[i].task = g /\ out[j].task = g /\ out[i].sig >= out[j].sig
            => t.attempts[out[j].sig] > 0

TaskOK(g, t, out, chain) ==
    /\ RoundOK(g, t, out) /\ SeenOK(g, t, out, chain) /\ AheadOK(g, t, out)
    /\ GapOK(g, t, out) /\ OrderOK(g, t, out)

TaskInv == \A g \in Groups : TaskOK(g, tasks[g], sent, onChain)

\* The inductive invariant.
PollInv == PollTypeOK /\ TaskInv /\ NoOrphan

-----------------------------------------------------------------------------
(* Sequences.                                                              *)

\* A sequence of the elements of a finite set, each once, has them all.
LEMMA SeqOfSet ==
    ASSUME NEW S, IsFiniteSet(S), NEW q \in SetToSeqs(S)
    PROVE  /\ q \in Seq(S) /\ Len(q) = Cardinality(S) /\ DOMAIN q = 1 .. Len(q)
           /\ \A s \in S : \E i \in DOMAIN q : q[i] = s
<1> DEFINE n == Cardinality(S)
<1>1. n \in Nat
  BY FS_CardinalityType
<1>2. q \in [1 .. n -> S] /\ \A i, j \in 1 .. n : i # j => q[i] # q[j]
  BY DEF SetToSeqs
<1> HIDE DEF n
<1>3. q \in Injection(1 .. n, S)
  BY <1>2 DEF Injection, IsInjective
<1>4. IsFiniteSet(1 .. n) /\ Cardinality(1 .. n) = n
  BY <1>1, FS_Interval
<1>5. q \in Surjection(1 .. n, S)
  BY <1>3, <1>4, FS_Injection DEF n
<1>6. q \in Seq(S) /\ Len(q) = n
  BY <1>1, <1>2
<1> QED
  BY <1>2, <1>5, <1>6 DEF Surjection, n

\* There are finitely many signatures.
LEMMA SigsFinite ==
    ASSUME NEW S \in SUBSET Sigs
    PROVE  IsFiniteSet(S)
<1>1. IsFiniteSet(1 .. MaxSigs)
  BY ConstantsAssumption, FS_Interval
<1> QED
  BY <1>1, FS_Subset DEF Sigs

\* The last of the new signatures in chronological order is the newest.
LEMMA Newest ==
    ASSUME NEW S \in SUBSET Sigs, S # {}, NEW q \in Chronological(S)
    PROVE  /\ q \in Seq(S) /\ DOMAIN q = 1 .. Len(q) /\ Len(q) \in Nat \ {0}
           /\ \A s \in S : \E i \in DOMAIN q : q[i] = s
           /\ \A i, j \in DOMAIN q : i < j => q[i] < q[j]
           /\ Last(q) \in S /\ \A i \in DOMAIN q : q[i] <= Last(q)
<1>1. IsFiniteSet(S)
  BY SigsFinite
<1>2. q \in SetToSeqs(S) /\ \A i, j \in DOMAIN q : i < j => q[i] < q[j]
  BY DEF Chronological
<1>3. /\ q \in Seq(S) /\ DOMAIN q = 1 .. Len(q)
      /\ \A s \in S : \E i \in DOMAIN q : q[i] = s
  BY <1>1, <1>2, SeqOfSet
<1>4. Len(q) \in Nat \ {0}
  BY <1>3
<1>5. Last(q) = q[Len(q)] /\ q[Len(q)] \in S
  BY <1>3, <1>4 DEF Last
<1>6. \A i \in DOMAIN q : q[i] \in S
  BY <1>3
<1>7. \A s \in S : s \in Nat
  BY DEF Sigs
<1>8. \A i \in DOMAIN q : q[i] <= Last(q)
  <2> SUFFICES ASSUME NEW i \in 1 .. Len(q) PROVE q[i] <= q[Len(q)]
    BY <1>3, <1>5
  <2>1. i < Len(q) => q[i] < q[Len(q)]
    BY <1>2, <1>3, <1>4
  <2>2. q[i] \in Nat /\ q[Len(q)] \in Nat
    BY <1>3, <1>5, <1>6, <1>7
  <2> QED
    BY <1>4, <2>1, <2>2
<1> QED
  BY <1>2, <1>3, <1>4, <1>5, <1>8

-----------------------------------------------------------------------------
(* One task.                                                               *)

\* The state of a task outside its counters.
SameTask(t, u) ==
    /\ u.lastSeen = t.lastSeen /\ u.from = t.from /\ u.attempts = t.attempts
    /\ u.retrying = t.retrying /\ u.batch = t.batch

\* A step between rounds, or of the exit signal, keeps what the task has seen.
LEMMA TaskFrame ==
    ASSUME NEW g, NEW t, NEW u, NEW out, NEW chain \in Nat, NEW more \in Nat, chain <= more,
           t.lastSeen \in Nat, TaskOK(g, t, out, chain), SameTask(t, u),
           u.pc = "init" => t.pc = "init", u.pc = "fetch" <=> t.pc = "fetch"
    PROVE  TaskOK(g, u, out, more)
<1>1. RoundOK(g, u, out)
  BY DEF TaskOK, RoundOK, SameTask
<1>2. SeenOK(g, u, out, more)
  BY DEF TaskOK, SeenOK, SameTask
<1>3. AheadOK(g, u, out) /\ GapOK(g, u, out) /\ OrderOK(g, u, out)
  BY DEF TaskOK, AheadOK, GapOK, OrderOK, SameTask
<1> QED
  BY <1>1, <1>2, <1>3 DEF TaskOK

\* What another task broadcasts does not concern this one.
LEMMA OtherBroadcast ==
    ASSUME NEW g, NEW t, NEW out \in Output, NEW chain, NEW e, e.task # g,
           TaskOK(g, t, out, chain)
    PROVE  TaskOK(g, t, Append(out, e), chain)
<1> DEFINE new == Append(out, e)
           n == Len(out)
<1>1. n \in Nat /\ DOMAIN out = 1 .. n /\ DOMAIN new = 1 .. n + 1
        /\ new[n + 1] = e /\ \A i \in 1 .. n : new[i] = out[i]
  BY DEF Output
<1>2. \A i \in DOMAIN new : new[i].task = g => i \in DOMAIN out /\ new[i] = out[i]
  BY <1>1
<1>3. \A i \in DOMAIN out : i \in DOMAIN new /\ new[i] = out[i]
  BY <1>1
<1> HIDE DEF new, n
<1>4. RoundOK(g, t, new)
  BY <1>2 DEF TaskOK, RoundOK
<1>5. SeenOK(g, t, new, chain)
  BY <1>2 DEF TaskOK, SeenOK
<1>6. AheadOK(g, t, new)
  BY <1>2 DEF TaskOK, AheadOK
<1>7. GapOK(g, t, new)
  BY <1>3 DEF TaskOK, GapOK
<1>8. OrderOK(g, t, new)
  BY <1>2 DEF TaskOK, OrderOK
<1> QED
  BY <1>4, <1>5, <1>6, <1>7, <1>8 DEF TaskOK, new

\* What was broadcast are signatures of groups.
LEMMA OutputParts ==
    ASSUME NEW out \in Output
    PROVE  \A i \in DOMAIN out : out[i].sig \in Sigs /\ out[i].sig \in Nat
<1> SUFFICES ASSUME NEW i \in DOMAIN out PROVE out[i].sig \in Sigs /\ out[i].sig \in Nat
  OBVIOUS
<1> DEFINE S == [sig : Sigs, task : Groups]
<1>1. out \in Seq(S)
  BY DEF Output
<1> HIDE DEF S
<1>2. out[i] \in S
  BY <1>1
<1>3. out[i].sig \in Sigs
  BY <1>2 DEF S
<1> QED
  BY <1>3 DEF Sigs

\* An empty sequence is one of length 0.
LEMMA EmptyLen ==
    ASSUME NEW S, NEW q \in Seq(S)
    PROVE  q = <<>> <=> Len(q) = 0
OBVIOUS

\* The state that the code leaves after a signature of the batch is handled.
LEMMA BatchParts ==
    ASSUME NEW t \in TaskType, t.batch # <<>>
    PROVE  LET b == t.batch
               u == Rest(t)
           IN  /\ Len(b) \in Nat \ {0} /\ DOMAIN b = 1 .. Len(b)
               /\ Head(b) = b[1] /\ \A k \in DOMAIN b : b[k] \in Sigs
               /\ DOMAIN u.batch = 1 .. Len(b) - 1
               /\ \A k \in DOMAIN u.batch : k + 1 \in DOMAIN b /\ u.batch[k] = b[k + 1]
               /\ u.pc = IF u.batch = <<>> THEN "check" ELSE "fetch"
               /\ u.lastSeen = t.lastSeen /\ u.from = t.from /\ u.attempts = t.attempts
               /\ u.retrying = t.retrying /\ u.exit = t.exit /\ u \in TaskType
<1> DEFINE b == t.batch
           u == Rest(t)
<1>1. b \in Seq(Sigs) /\ b # <<>>
  BY DEF TaskType
<1>2. Len(b) \in Nat \ {0} /\ DOMAIN b = 1 .. Len(b) /\ Head(b) = b[1]
        /\ \A k \in DOMAIN b : b[k] \in Sigs
  BY <1>1
<1>3. Tail(b) \in Seq(Sigs) /\ Len(Tail(b)) = Len(b) - 1
        /\ \A k \in 1 .. Len(b) - 1 : Tail(b)[k] = b[k + 1]
  BY <1>1
<1>4. /\ DOMAIN Tail(b) = 1 .. Len(b) - 1
      /\ \A k \in DOMAIN Tail(b) : k + 1 \in DOMAIN b /\ Tail(b)[k] = b[k + 1]
  BY <1>2, <1>3
<1>5. Tail(b) = <<>> <=> Len(b) = 1
  <2>1. Tail(b) = <<>> <=> Len(Tail(b)) = 0
    BY <1>3, EmptyLen
  <2> HIDE DEF b
  <2> QED
    BY <1>2, <1>3, <2>1
<1>6. u.batch = Tail(b) /\ u.pc = (IF Len(b) = 1 THEN "check" ELSE "fetch")
        /\ u.lastSeen = t.lastSeen /\ u.from = t.from /\ u.attempts = t.attempts
        /\ u.retrying = t.retrying /\ u.exit = t.exit
  BY DEF Rest, TaskType
<1>7. u \in TaskType
  BY <1>3 DEF Rest, TaskType
<1> HIDE DEF b, u
<1>8. u.pc = IF u.batch = <<>> THEN "check" ELSE "fetch"
  BY <1>5, <1>6
<1> QED
  BY <1>2, <1>3, <1>4, <1>6, <1>7, <1>8 DEF b, u

\* Broadcasting the next transaction of the batch.
LEMMA FetchOkTask ==
    ASSUME NEW g \in Groups, NEW t \in TaskType, NEW out \in Output, NEW chain \in Nat,
           TaskOK(g, t, out, chain), t.pc = "fetch"
    PROVE  TaskOK(g, Rest(t), Append(out, [sig |-> Head(t.batch), task |-> g]), chain)
<1> DEFINE b == t.batch
           m == Len(b)
           u == Rest(t)
           e == [sig |-> Head(b), task |-> g]
           new == Append(out, e)
           n == Len(out)
<1>1. b # <<>>
  BY DEF TaskOK, RoundOK
<1>2. /\ m \in Nat \ {0} /\ DOMAIN b = 1 .. m
      /\ Head(b) = b[1] /\ \A k \in DOMAIN b : b[k] \in Sigs
      /\ DOMAIN u.batch = 1 .. m - 1
      /\ \A k \in DOMAIN u.batch : k + 1 \in DOMAIN b /\ u.batch[k] = b[k + 1]
      /\ u.pc = IF u.batch = <<>> THEN "check" ELSE "fetch"
      /\ u.lastSeen = t.lastSeen /\ u.from = t.from /\ u.attempts = t.attempts
      /\ u.retrying = t.retrying
  BY <1>1, BatchParts
<1>3. n \in Nat /\ DOMAIN out = 1 .. n /\ DOMAIN new = 1 .. n + 1
        /\ new[n + 1] = e /\ \A i \in 1 .. n : new[i] = out[i]
  BY DEF Output
<1>4. e.sig = b[1] /\ e.task = g
  BY <1>2
<1>5. \A i \in DOMAIN out : out[i].sig \in Nat
  BY OutputParts
<1>6. \A k \in 1 .. m : b[k] \in Nat
  BY <1>2 DEF Sigs
<1> HIDE DEF b, m, u, e, new, n
<1>7. RoundOK(g, u, new)
  BY <1>2 DEF RoundOK
<1>8. SeenOK(g, u, new, chain)
  <2>1. /\ t.lastSeen <= chain
        /\ \A q \in t.retrying : q <= t.lastSeen /\ t.attempts[q] > 0
        /\ \A k \in DOMAIN b : b[k] <= t.lastSeen
        /\ \A i \in DOMAIN out : out[i].task = g => out[i].sig <= t.lastSeen
    BY DEF TaskOK, SeenOK, b
  <2>2. 1 \in DOMAIN b
    BY <1>2
  <2>3. \A i \in DOMAIN new : new[i].task = g => new[i].sig <= t.lastSeen
    BY <1>3, <1>4, <2>1, <2>2
  <2>4. \A k \in DOMAIN u.batch : u.batch[k] <= t.lastSeen
    BY <1>2, <2>1
  <2> QED
    BY <1>2, <2>1, <2>3, <2>4 DEF SeenOK
<1>9. AheadOK(g, u, new)
  <2> SUFFICES ASSUME NEW k \in DOMAIN u.batch, t.attempts[b[k + 1]] = 0
               PROVE  /\ \A i \in DOMAIN new : new[i].task = g => new[i].sig < b[k + 1]
                      /\ \A l \in DOMAIN u.batch : l < k => b[l + 1] < b[k + 1]
    BY <1>2 DEF AheadOK
  <2>0. k \in Nat /\ 1 <= k /\ \A l \in DOMAIN u.batch : l \in Nat
    BY <1>2
  <2>1. k + 1 \in DOMAIN b /\ 1 \in DOMAIN b
    BY <1>2
  <2>2. \A l \in DOMAIN b : l < k + 1 => b[l] < b[k + 1]
    BY <2>1 DEF TaskOK, AheadOK, b
  <2>3. \A i \in DOMAIN out : out[i].task = g => out[i].sig < b[k + 1]
    BY <2>1 DEF TaskOK, AheadOK, b
  <2>4. b[1] < b[k + 1]
    BY <2>0, <2>1, <2>2
  <2>5. \A i \in DOMAIN new : new[i].task = g => new[i].sig < b[k + 1]
    BY <1>3, <1>4, <2>3, <2>4
  <2>6. \A l \in DOMAIN u.batch : l < k => b[l + 1] < b[k + 1]
    BY <1>2, <2>0, <2>2
  <2> QED
    BY <2>5, <2>6
<1>10. GapOK(g, u, new)
  <2> SUFFICES ASSUME NEW s \in t.from + 1 .. t.lastSeen
               PROVE  \/ Ignored(s)
                      \/ \E i \in DOMAIN new : new[i] = [sig |-> s, task |-> g]
                      \/ \E k \in DOMAIN u.batch : u.batch[k] = s
                      \/ s \in t.retrying
                      \/ t.attempts[s] > MaxAttempts
    BY <1>2 DEF GapOK
  <2>1. CASE \E i \in DOMAIN out : out[i] = [sig |-> s, task |-> g]
    BY <1>3, <2>1
  <2>2. ASSUME NEW k \in DOMAIN b, b[k] = s
        PROVE  (\E i \in DOMAIN new : new[i] = [sig |-> s, task |-> g])
                  \/ \E l \in DOMAIN u.batch : u.batch[l] = s
    <3>1. CASE k = 1
      <4>1. e = [sig |-> s, task |-> g]
        BY <1>2, <2>2, <3>1 DEF e
      <4> QED
        BY <1>3, <4>1
    <3>2. CASE k # 1
      <4>1. k - 1 \in 1 .. m - 1 /\ u.batch[k - 1] = b[k]
        BY <1>2, <3>2
      <4> QED
        BY <1>2, <2>2, <4>1
    <3> QED
      BY <3>1, <3>2
  <2> QED
    BY <2>1, <2>2 DEF TaskOK, GapOK, b
<1>11. OrderOK(g, u, new)
  <2> SUFFICES ASSUME NEW i \in DOMAIN new, NEW j \in DOMAIN new, i < j, new[i].task = g,
                      new[j].task = g, new[i].sig >= new[j].sig
               PROVE  t.attempts[new[j].sig] > 0
    BY <1>2 DEF OrderOK
  <2>1. CASE j \in 1 .. n
    BY <1>3, <2>1 DEF TaskOK, OrderOK
  <2>2. CASE j = n + 1
    <3>1. i \in 1 .. n /\ new[i] = out[i] /\ new[j] = e
      BY <1>3, <2>2
    <3>2. out[i].sig >= b[1]
      BY <1>4, <3>1
    <3>3. t.attempts[b[1]] # 0
      <4>1. 1 \in DOMAIN b
        BY <1>2
      <4>2. t.attempts[b[1]] = 0 => out[i].sig < b[1]
        BY <1>3, <3>1, <4>1 DEF TaskOK, AheadOK, b
      <4> QED
        BY <1>2, <1>3, <1>5, <1>6, <3>1, <3>2, <4>2
    <3>4. t.attempts[b[1]] \in Nat
      BY <1>2 DEF TaskType
    <3> QED
      BY <1>4, <3>1, <3>3, <3>4
  <2> QED
    BY <1>3, <2>1, <2>2
<1> QED
  BY <1>7, <1>8, <1>9, <1>10, <1>11 DEF TaskOK, u, new, e, b

\* A failed fetch: the signature is counted and kept.
LEMMA FetchErrTask ==
    ASSUME NEW g \in Groups, NEW t \in TaskType, NEW out \in Output, NEW chain \in Nat,
           TaskOK(g, t, out, chain), t.pc = "fetch"
    PROVE  LET s == Head(t.batch)
               u == [Rest(t) EXCEPT !.attempts[s] = @ + 1, !.retrying = @ \cup {s}]
           IN  TaskOK(g, u, out, chain) /\ u \in TaskType /\ u.exit = t.exit
                   /\ u.pc \in {"check", "fetch"}
<1> DEFINE b == t.batch
           m == Len(b)
           s == Head(b)
           v == Rest(t)
           u == [v EXCEPT !.attempts[s] = @ + 1, !.retrying = @ \cup {s}]
<1>1. b # <<>>
  BY DEF TaskOK, RoundOK
<1>2. /\ m \in Nat \ {0} /\ DOMAIN b = 1 .. m
      /\ s = b[1] /\ \A k \in DOMAIN b : b[k] \in Sigs
      /\ DOMAIN v.batch = 1 .. m - 1
      /\ \A k \in DOMAIN v.batch : k + 1 \in DOMAIN b /\ v.batch[k] = b[k + 1]
      /\ v.pc = IF v.batch = <<>> THEN "check" ELSE "fetch"
      /\ v.lastSeen = t.lastSeen /\ v.from = t.from /\ v.attempts = t.attempts
      /\ v.retrying = t.retrying /\ v.exit = t.exit /\ v \in TaskType
  BY <1>1, BatchParts
<1> HIDE DEF b, m, s, v
<1>3. s \in Sigs
  BY <1>2
<1>4. /\ u.pc = v.pc /\ u.batch = v.batch /\ u.lastSeen = t.lastSeen /\ u.from = t.from
      /\ u.exit = t.exit /\ u.retrying = t.retrying \cup {s}
      /\ u.attempts = [t.attempts EXCEPT ![s] = @ + 1]
  BY <1>2 DEF TaskType
<1>5. u \in TaskType
  <2>1. [t.attempts EXCEPT ![s] = @ + 1] \in [Sigs -> Nat] /\ t.retrying \cup {s} \in SUBSET Sigs
    BY <1>3 DEF TaskType
  <2>2. u = [v EXCEPT !.attempts = [t.attempts EXCEPT ![s] = @ + 1],
                      !.retrying = t.retrying \cup {s}]
    BY <1>2 DEF TaskType
  <2> QED
    BY <1>2, <2>1, <2>2 DEF TaskType
<1> HIDE DEF u
<1>6. /\ u.attempts[s] = t.attempts[s] + 1
      /\ \A q \in Sigs : t.attempts[q] \in Nat /\ u.attempts[q] >= t.attempts[q]
      /\ \A q \in Sigs \ {s} : u.attempts[q] = t.attempts[q]
  BY <1>3, <1>4 DEF TaskType
<1>7. RoundOK(g, u, out)
  BY <1>2, <1>4 DEF RoundOK
<1>8. SeenOK(g, u, out, chain)
  <2>1. \A q \in t.retrying : q \in Sigs /\ q <= t.lastSeen /\ t.attempts[q] > 0
    BY DEF TaskType, TaskOK, SeenOK
  <2>2. s <= t.lastSeen
    BY <1>2 DEF TaskOK, SeenOK, b
  <2>3. \A q \in u.retrying : q <= u.lastSeen /\ u.attempts[q] > 0
    BY <1>3, <1>4, <1>6, <2>1, <2>2
  <2>4. \A k \in DOMAIN u.batch : u.batch[k] <= u.lastSeen
    <3>1. \A k \in DOMAIN b : b[k] <= t.lastSeen
      BY DEF TaskOK, SeenOK, b
    <3> QED
      BY <1>2, <1>4, <3>1
  <2> QED
    BY <1>4, <2>3, <2>4 DEF TaskOK, SeenOK
<1>9. AheadOK(g, u, out)
  <2>a. DOMAIN u.batch = DOMAIN v.batch /\ \A k \in DOMAIN v.batch : u.batch[k] = b[k + 1]
    BY <1>2, <1>4
  <2> SUFFICES ASSUME NEW k \in DOMAIN v.batch, u.attempts[b[k + 1]] = 0
               PROVE  /\ \A i \in DOMAIN out : out[i].task = g => out[i].sig < b[k + 1]
                      /\ \A l \in DOMAIN v.batch : l < k => b[l + 1] < b[k + 1]
    BY <2>a, Zenon DEF AheadOK
  <2>0. k \in Nat /\ \A l \in DOMAIN v.batch : l \in Nat
    BY <1>2
  <2>1. k + 1 \in DOMAIN b
    BY <1>2
  <2>2. t.attempts[b[k + 1]] = 0
    <3>1. b[k + 1] \in Sigs
      BY <1>2, <2>1
    <3> QED
      BY <1>6, <3>1
  <2>3. \A l \in DOMAIN b : l < k + 1 => b[l] < b[k + 1]
    BY <2>1, <2>2 DEF TaskOK, AheadOK, b
  <2>4. \A i \in DOMAIN out : out[i].task = g => out[i].sig < b[k + 1]
    BY <2>1, <2>2 DEF TaskOK, AheadOK, b
  <2>5. \A l \in DOMAIN v.batch : l < k => b[l + 1] < b[k + 1]
    BY <1>2, <2>0, <2>3
  <2> QED
    BY <2>4, <2>5
<1>10. GapOK(g, u, out)
  <2> SUFFICES ASSUME NEW q \in t.from + 1 .. t.lastSeen
               PROVE  \/ Ignored(q)
                      \/ \E i \in DOMAIN out : out[i] = [sig |-> q, task |-> g]
                      \/ \E k \in DOMAIN u.batch : u.batch[k] = q
                      \/ q \in u.retrying
                      \/ u.attempts[q] > MaxAttempts
    BY <1>4 DEF GapOK
  <2>1. ASSUME NEW k \in DOMAIN b, b[k] = q
        PROVE  q \in u.retrying \/ \E l \in DOMAIN u.batch : u.batch[l] = q
    <3>1. CASE k = 1
      BY <1>2, <1>4, <2>1, <3>1
    <3>2. CASE k # 1
      <4>1. k - 1 \in 1 .. m - 1 /\ u.batch[k - 1] = b[k]
        BY <1>2, <1>4, <3>2
      <4> QED
        BY <1>2, <1>4, <2>1, <4>1
    <3> QED
      BY <3>1, <3>2
  <2>2. q \in Sigs /\ MaxAttempts \in Nat
    BY ConstantsAssumption DEF TaskType, Sigs
  <2>3. t.attempts[q] > MaxAttempts => u.attempts[q] > MaxAttempts
    BY <1>6, <2>2, <1>5 DEF TaskType
  <2>4. q \in t.retrying => q \in u.retrying
    BY <1>4
  <2> QED
    BY <2>1, <2>3, <2>4 DEF TaskOK, GapOK, b
<1>11. OrderOK(g, u, out)
  <2>1. \A i \in DOMAIN out : out[i].sig \in Sigs
    BY OutputParts
  <2>2. \A q \in Sigs : t.attempts[q] > 0 => u.attempts[q] > 0
    BY <1>5, <1>6 DEF TaskType
  <2> QED
    BY <2>1, <2>2 DEF TaskOK, OrderOK
<1> QED
  BY <1>2, <1>4, <1>5, <1>7, <1>8, <1>9, <1>10, <1>11 DEF TaskOK, u, v, s, b

\* The parts of a concatenation.
LEMMA ConcatParts ==
    ASSUME NEW S, NEW p \in Seq(S), NEW q \in Seq(S)
    PROVE  /\ p \o q \in Seq(S) /\ Len(p) \in Nat /\ Len(q) \in Nat
           /\ DOMAIN (p \o q) = 1 .. Len(p) + Len(q)
           /\ \A k \in 1 .. Len(p) : (p \o q)[k] = p[k]
           /\ \A k \in 1 .. Len(q) : (p \o q)[Len(p) + k] = q[k]
OBVIOUS

\* A round begins: what to retry, then the new signatures.
LEMMA PollTask ==
    ASSUME NEW g \in Groups, NEW t \in TaskType, NEW out \in Output, onChain \in 0 .. MaxSigs,
           TaskOK(g, t, out, onChain), t.pc = "poll", NewSigs(t) # {},
           NEW kept, kept = {s \in t.retrying : t.attempts[s] <= MaxAttempts},
           NEW retries \in SetToSeqs(kept), NEW news \in Chronological(NewSigs(t)),
           NEW u, u = [t EXCEPT !.pc = "fetch", !.lastSeen = Last(news), !.retrying = kept,
                                !.batch = retries \o news]
    PROVE  TaskOK(g, u, out, onChain) /\ u \in TaskType
<1> DEFINE new == NewSigs(t)
           c == retries \o news
           r == Len(retries)
           w == Len(news)
           top == Last(news)
<1>1. /\ t.lastSeen \in Nat /\ t.from \in Nat /\ t.retrying \subseteq Sigs /\ t.batch = <<>>
      /\ t.attempts \in [Sigs -> Nat] /\ onChain \in Nat /\ MaxSigs \in Nat /\ MaxAttempts \in Nat
  BY ConstantsAssumption DEF TaskType, TaskOK, RoundOK
<1>2. new \in SUBSET Sigs
  BY <1>1 DEF NewSigs, Sigs
<1>3. \A s \in new : s \in Nat /\ t.lastSeen < s /\ s <= onChain
  BY <1>1 DEF NewSigs
<1>4. /\ news \in Seq(new) /\ DOMAIN news = 1 .. w /\ w \in Nat \ {0}
      /\ \A s \in new : \E i \in DOMAIN news : news[i] = s
      /\ \A i, j \in DOMAIN news : i < j => news[i] < news[j]
      /\ top \in new /\ \A i \in DOMAIN news : news[i] <= top
  BY <1>2, Newest
<1>5. kept \subseteq Sigs /\ kept \subseteq t.retrying
  BY <1>1
<1>6. IsFiniteSet(kept)
  BY <1>5, SigsFinite
<1>7. retries \in Seq(kept) /\ DOMAIN retries = 1 .. r
  BY <1>6, SeqOfSet
<1>8. \A k \in 1 .. r : retries[k] \in kept
  BY <1>7
<1>9. \A k \in 1 .. w : news[k] \in new
  BY <1>4
<1> HIDE DEF new
<1>10. retries \in Seq(Sigs) /\ news \in Seq(Sigs)
  BY <1>2, <1>4, <1>5, <1>7
<1>11. /\ c \in Seq(Sigs) /\ r \in Nat /\ w \in Nat /\ DOMAIN c = 1 .. r + w
       /\ \A k \in 1 .. r : c[k] = retries[k]
       /\ \A k \in 1 .. w : c[r + k] = news[k]
  BY <1>10, ConcatParts
<1>12. u.pc = "fetch" /\ u.lastSeen = top /\ u.retrying = kept /\ u.batch = c
         /\ u.from = t.from /\ u.attempts = t.attempts
  BY DEF TaskType
<1>13. u \in TaskType
  <2>1. top \in 0 .. MaxSigs /\ kept \in SUBSET Sigs
    BY <1>2, <1>4, <1>5 DEF Sigs
  <2> HIDE DEF c, top
  <2> QED
    BY <1>11, <2>1 DEF TaskType, c, top
<1> HIDE DEF c, r, w, top
<1>14. \A k \in DOMAIN c : \/ k \in 1 .. r /\ c[k] = retries[k] /\ c[k] \in kept
                           \/ k - r \in 1 .. w /\ c[k] = news[k - r] /\ c[k] \in new
  <2> SUFFICES ASSUME NEW k \in 1 .. r + w
               PROVE  \/ k \in 1 .. r /\ c[k] = retries[k] /\ c[k] \in kept
                      \/ k - r \in 1 .. w /\ c[k] = news[k - r] /\ c[k] \in new
    BY <1>11
  <2>1. CASE k \in 1 .. r
    BY <1>8, <1>11, <2>1
  <2>2. CASE k \notin 1 .. r
    <3>1. k - r \in 1 .. w /\ r + (k - r) = k
      BY <1>11, <2>2
    <3> QED
      BY <1>9, <1>11, <3>1
  <2> QED
    BY <2>1, <2>2
<1>15. \A s \in kept : s \in Nat /\ s <= t.lastSeen /\ t.attempts[s] > 0
  BY <1>5 DEF TaskOK, SeenOK, Sigs
<1>16. top \in Nat /\ t.lastSeen < top /\ top <= onChain
  BY <1>3, <1>4
<1>17. \A i \in DOMAIN out : out[i].sig \in Nat /\ (out[i].task = g => out[i].sig <= t.lastSeen)
  BY OutputParts DEF TaskOK, SeenOK
<1>18. RoundOK(g, u, out)
  <2>1. 1 \in DOMAIN c
    BY <1>4, <1>11
  <2>2. c # <<>>
    BY <2>1
  <2> QED
    BY <1>12, <2>2 DEF RoundOK
<1>19. SeenOK(g, u, out, onChain)
  <2>1. \A s \in kept : s <= top /\ t.attempts[s] > 0
    BY <1>1, <1>15, <1>16
  <2>2. \A k \in DOMAIN c : c[k] <= top
    BY <1>1, <1>4, <1>14, <2>1
  <2>3. \A i \in DOMAIN out : out[i].task = g => out[i].sig <= top
    BY <1>1, <1>16, <1>17
  <2> QED
    BY <1>12, <1>16, <2>1, <2>2, <2>3 DEF SeenOK
<1>20. AheadOK(g, u, out)
  <2> SUFFICES ASSUME NEW k \in DOMAIN c, t.attempts[c[k]] = 0
               PROVE  /\ \A i \in DOMAIN out : out[i].task = g => out[i].sig < c[k]
                      /\ \A l \in DOMAIN c : l < k => c[l] < c[k]
    BY <1>12, Zenon DEF AheadOK
  <2>1. k - r \in 1 .. w /\ c[k] = news[k - r] /\ c[k] \in new
    BY <1>14, <1>15
  <2>2. c[k] \in Nat /\ t.lastSeen < c[k]
    BY <1>3, <2>1
  <2>3. \A i \in DOMAIN out : out[i].task = g => out[i].sig < c[k]
    BY <1>1, <1>17, <2>2
  <2>4. ASSUME NEW l \in DOMAIN c, l < k PROVE c[l] < c[k]
    <3>1. CASE c[l] \in kept
      BY <1>1, <1>15, <2>2, <3>1
    <3>2. CASE l - r \in 1 .. w /\ c[l] = news[l - r]
      <4>1. l - r < k - r
        BY <1>11, <2>4
      <4> QED
        BY <1>4, <2>1, <3>2, <4>1
    <3> QED
      BY <1>14, <3>1, <3>2
  <2> QED
    BY <2>3, <2>4
<1>21. GapOK(g, u, out)
  <2> SUFFICES ASSUME NEW s \in t.from + 1 .. top
               PROVE  \/ Ignored(s)
                      \/ \E i \in DOMAIN out : out[i] = [sig |-> s, task |-> g]
                      \/ \E k \in DOMAIN c : c[k] = s
                      \/ s \in kept
                      \/ t.attempts[s] > MaxAttempts
    BY <1>12 DEF GapOK
  <2>1. CASE s <= t.lastSeen
    <3>1. s \in t.from + 1 .. t.lastSeen
      BY <1>1, <2>1
    <3>2. DOMAIN t.batch = {}
      BY <1>1
    <3>3. s \in t.retrying => s \in kept \/ t.attempts[s] > MaxAttempts
      <4>1. s \in t.retrying => t.attempts[s] \in Nat
        BY <1>1
      <4> QED
        BY <1>1, <4>1
    <3> QED
      BY <3>1, <3>2, <3>3 DEF TaskOK, GapOK
  <2>2. CASE t.lastSeen < s
    <3>1. s \in t.lastSeen + 1 .. onChain
      BY <1>1, <1>16, <2>2
    <3>2. Ignored(s) \/ s \in new
      BY <3>1 DEF NewSigs, new
    <3>3. ASSUME s \in new PROVE \E k \in DOMAIN c : c[k] = s
      <4>1. PICK i \in 1 .. w : news[i] = s
        BY <1>4, <3>3
      <4>2. r + i \in DOMAIN c /\ c[r + i] = s
        BY <1>11, <4>1
      <4> QED
        BY <4>2
    <3> QED
      BY <3>2, <3>3
  <2> QED
    BY <1>1, <1>16, <2>1, <2>2
<1>22. OrderOK(g, u, out)
  BY <1>12 DEF TaskOK, OrderOK
<1> QED
  BY <1>13, <1>18, <1>19, <1>20, <1>21, <1>22 DEF TaskOK

-----------------------------------------------------------------------------
(* The steps.                                                              *)

\* Initially no task has begun.
LEMMA InitPollInv == Init => PollInv
<1> SUFFICES ASSUME Init PROVE PollInv
  OBVIOUS
<1>1. \A g \in Groups : tasks[g] = NewTask
  BY DEF Init, Groups
<1>2. NewTask \in TaskType
  BY ConstantsAssumption DEF NewTask, TaskType
<1>3. tasks \in [Groups -> TaskType] /\ sent = <<>>
  BY <1>2 DEF Init, Groups
<1>4. PollTypeOK
  <2>1. onChain \in 0 .. MaxSigs /\ started \in 0 .. MaxTasks /\ current \in 0 .. started
    BY ConstantsAssumption DEF Init
  <2>2. sent \in Output /\ commands \in Seq({"add", "remove", "quit"})
    BY <1>3 DEF Output, Init
  <2> QED
    BY <1>3, <2>1, <2>2 DEF PollTypeOK, Init
<1>5. \A g \in Groups : TaskOK(g, NewTask, sent, onChain)
  BY <1>3, <1>4 DEF TaskOK, RoundOK, SeenOK, AheadOK, GapOK, OrderOK, NewTask, PollTypeOK
<1>6. TaskInv
  BY <1>1, <1>5 DEF TaskInv
<1>7. NoOrphan
  BY DEF Init, NoOrphan
<1> QED
  BY <1>4, <1>6, <1>7 DEF PollInv

\* A step of a task: its new state is in order with what it broadcasts, and its
\* exit signal is left to the manager.
TaskMove(g, u) ==
    /\ u \in TaskType
    /\ tasks' = [tasks EXCEPT ![g] = u]
    /\ u.exit = tasks[g].exit /\ tasks[g].pc \notin Finished
    /\ TaskOK(g, u, sent', onChain)
    /\ \/ sent' = sent
       \/ \E e \in [sig : Sigs, task : Groups] : e.task = g /\ sent' = Append(sent, e)
    /\ UNCHANGED <<onChain, commands, manager, current, started>>

\* Every action of watch_account_task is such a step.
LEMMA WatchMove ==
    ASSUME PollInv, NEW g \in Groups, Watch(g)
    PROVE  \E u : TaskMove(g, u)
<1> DEFINE t == tasks[g]
<1>1. t \in TaskType /\ sent \in Output /\ onChain \in 0 .. MaxSigs /\ onChain \in Nat
  BY ConstantsAssumption DEF PollInv, PollTypeOK
<1>2. TaskOK(g, t, sent, onChain) /\ t.lastSeen \in Nat
  BY <1>1 DEF PollInv, TaskInv, TaskType
<1>3. ASSUME NEW ok \in BOOLEAN, InitialSignature(g, ok) PROVE \E u : TaskMove(g, u)
  <2> DEFINE seen == IF ok /\ onChain > 0 THEN onChain ELSE t.lastSeen
             u == [t EXCEPT !.tries = @ + 1, !.lastSeen = seen, !.from = seen]
  <2>1. t.pc = "init" /\ sent' = sent /\ tasks' = [tasks EXCEPT ![g] = u]
          /\ UNCHANGED <<onChain, commands, manager, current, started>>
    BY <1>3 DEF InitialSignature, Update
  <2>2. seen \in 0 .. MaxSigs /\ seen <= onChain /\ seen \in Nat
    BY <1>1, <1>2 DEF TaskOK, SeenOK, TaskType
  <2> HIDE DEF seen
  <2>3. t.tries + 1 \in Nat
    BY <1>1 DEF TaskType
  <2>4. u \in TaskType /\ u.pc = t.pc /\ u.exit = t.exit /\ u.lastSeen = seen /\ u.from = seen
          /\ u.batch = t.batch /\ u.retrying = t.retrying
    BY <1>1, <2>2, <2>3 DEF TaskType
  <2> HIDE DEF u
  <2>5. u.pc = "init" /\ u.batch = <<>> /\ u.retrying = {}
          /\ \A i \in DOMAIN sent : sent[i].task # g
    BY <1>2, <2>1, <2>4 DEF TaskOK, RoundOK
  <2>6. RoundOK(g, u, sent)
    BY <2>4, <2>5 DEF RoundOK
  <2>7. SeenOK(g, u, sent, onChain) /\ AheadOK(g, u, sent) /\ OrderOK(g, u, sent)
    BY <2>2, <2>4, <2>5 DEF SeenOK, AheadOK, OrderOK
  <2>8. GapOK(g, u, sent)
    <3>1. u.from + 1 .. u.lastSeen = {}
      BY <2>2, <2>4
    <3> QED
      BY <3>1 DEF GapOK
  <2>9. TaskMove(g, u)
    BY <2>1, <2>4, <2>6, <2>7, <2>8 DEF TaskMove, TaskOK, Finished
  <2> QED
    BY <2>9
<1>4. ASSUME NEW pc \in {"check", "poll", "failed", "exited"}, t.pc \in {"init", "check", "poll"},
             Update(g, [t EXCEPT !.pc = pc]),
             UNCHANGED <<onChain, commands, sentCount, manager, current, started, sent>>
      PROVE  \E u : TaskMove(g, u)
  <2> DEFINE u == [t EXCEPT !.pc = pc]
  <2>1. u \in TaskType /\ u.pc = pc /\ u.exit = t.exit /\ SameTask(t, u)
    BY <1>1, <1>4 DEF TaskType, SameTask
  <2>2. tasks' = [tasks EXCEPT ![g] = u]
    BY <1>4 DEF Update
  <2> HIDE DEF u
  <2>3. TaskOK(g, u, sent, onChain)
    BY <1>1, <1>2, <1>4, <2>1, TaskFrame
  <2>4. TaskMove(g, u)
    BY <1>4, <2>1, <2>2, <2>3 DEF TaskMove, Finished
  <2> QED
    BY <2>4
<1>5. CASE InitialDone(g)
  <2>1. t.pc = "init" /\ (IF t.lastSeen = 0 THEN "failed" ELSE "check") \in {"check", "poll", "failed", "exited"}
    BY <1>5 DEF InitialDone
  <2> QED
    BY <1>4, <1>5, <2>1 DEF InitialDone
<1>6. CASE CheckExit(g)
  <2>1. t.pc = "check" /\ (IF t.exit THEN "exited" ELSE "poll") \in {"check", "poll", "failed", "exited"}
    BY <1>6 DEF CheckExit
  <2> QED
    BY <1>4, <1>6, <2>1 DEF CheckExit
<1>7. CASE PollNothing(g)
  BY <1>4, <1>7 DEF PollNothing
<1>8. CASE Poll(g)
  <2> DEFINE kept == {s \in t.retrying : t.attempts[s] <= MaxAttempts}
  <2>1. t.pc = "poll" /\ NewSigs(t) # {} /\ sent' = sent
          /\ UNCHANGED <<onChain, commands, manager, current, started>>
    BY <1>8 DEF Poll
  <2>2. PICK retries \in SetToSeqs(kept), news \in Chronological(NewSigs(t)) :
          Update(g, [t EXCEPT !.pc = "fetch", !.lastSeen = Last(news), !.retrying = kept,
                              !.batch = retries \o news])
    BY <1>8 DEF Poll
  <2> DEFINE u == [t EXCEPT !.pc = "fetch", !.lastSeen = Last(news), !.retrying = kept,
                            !.batch = retries \o news]
  <2>3. u.exit = t.exit
    BY <1>1 DEF TaskType
  <2>4. TaskOK(g, u, sent, onChain) /\ u \in TaskType
    <3> HIDE DEF t
    <3> QED
      BY <1>1, <1>2, <2>1, PollTask
  <2>5. tasks' = [tasks EXCEPT ![g] = u]
    BY <2>2 DEF Update
  <2> HIDE DEF u
  <2>6. TaskMove(g, u)
    BY <2>1, <2>3, <2>4, <2>5 DEF TaskMove, Finished
  <2> QED
    BY <2>6
<1>9. CASE FetchOk(g)
  <2> DEFINE u == Rest(t)
             e == [sig |-> Head(t.batch), task |-> g]
  <2>1. t.pc = "fetch" /\ sent' = Append(sent, e) /\ tasks' = [tasks EXCEPT ![g] = u]
          /\ UNCHANGED <<onChain, commands, manager, current, started>>
    BY <1>9 DEF FetchOk, Update
  <2>2. t.batch # <<>>
    BY <1>2, <2>1 DEF TaskOK, RoundOK
  <2>3. u \in TaskType /\ u.exit = t.exit /\ Head(t.batch) \in Sigs
    <3>1. Head(t.batch) = t.batch[1] /\ 1 \in DOMAIN t.batch
      BY <1>1, <2>2, BatchParts
    <3> QED
      BY <1>1, <2>2, <3>1, BatchParts
  <2>4. e \in [sig : Sigs, task : Groups] /\ e.task = g
    BY <2>3
  <2>5. TaskOK(g, u, sent', onChain)
    BY <1>1, <1>2, <2>1, FetchOkTask
  <2> HIDE DEF u, e
  <2>6. TaskMove(g, u)
    BY <2>1, <2>3, <2>4, <2>5 DEF TaskMove, Finished
  <2> QED
    BY <2>6
<1>10. CASE FetchErr(g)
  <2> DEFINE s == Head(t.batch)
             u == [Rest(t) EXCEPT !.attempts[s] = @ + 1, !.retrying = @ \cup {s}]
  <2>1. t.pc = "fetch" /\ sent' = sent /\ tasks' = [tasks EXCEPT ![g] = u]
          /\ UNCHANGED <<onChain, commands, manager, current, started>>
    BY <1>10 DEF FetchErr, Update
  <2>2. TaskOK(g, u, sent, onChain) /\ u \in TaskType /\ u.exit = t.exit
    BY <1>1, <1>2, <2>1, FetchErrTask
  <2> HIDE DEF u
  <2>3. TaskMove(g, u)
    BY <2>1, <2>2 DEF TaskMove, Finished
  <2> QED
    BY <2>3
<1> QED
  BY <1>3, <1>5, <1>6, <1>7, <1>8, <1>9, <1>10 DEF Watch

\* A step of a task keeps the invariant: the other tasks see nothing of it.
LEMMA WatchStep ==
    ASSUME PollInv, NEW g \in Groups, Watch(g)
    PROVE  PollInv'
<1>1. PICK u : TaskMove(g, u)
  BY WatchMove
<1>2. PollTypeOK /\ TaskInv /\ NoOrphan /\ sent \in Output /\ tasks \in [Groups -> TaskType]
  BY DEF PollInv, PollTypeOK
<1>3. tasks' \in [Groups -> TaskType] /\ tasks'[g] = u
        /\ \A h \in Groups : h # g => tasks'[h] = tasks[h]
  BY <1>1, <1>2 DEF TaskMove
<1>4. sent' \in Output
  <2> DEFINE S == [sig : Sigs, task : Groups]
  <2>1. sent \in Seq(S) /\ (sent' = sent \/ \E e \in S : sent' = Append(sent, e))
    BY <1>1, <1>2 DEF TaskMove, Output
  <2> HIDE DEF S
  <2>2. sent' \in Seq(S)
    BY <2>1
  <2> QED
    BY <2>2 DEF S, Output
<1>5. PollTypeOK'
  BY <1>1, <1>2, <1>3, <1>4 DEF PollTypeOK, TaskMove
<1>6. ASSUME NEW h \in Groups PROVE TaskOK(h, tasks'[h], sent', onChain')
  <2>1. CASE h = g
    BY <1>1, <1>3, <2>1 DEF TaskMove
  <2>2. CASE h # g
    <3>1. TaskOK(h, tasks[h], sent, onChain)
      BY <1>2 DEF TaskInv
    <3>2. tasks'[h] = tasks[h] /\ onChain' = onChain
      BY <1>1, <1>3, <2>2 DEF TaskMove
    <3>3. CASE sent' = sent
      BY <3>1, <3>2, <3>3
    <3>4. CASE sent' # sent
      <4>1. PICK e \in [sig : Sigs, task : Groups] : e.task = g /\ sent' = Append(sent, e)
        BY <1>1, <3>4 DEF TaskMove
      <4>2. e.task # h
        BY <2>2, <4>1
      <4>3. TaskOK(h, tasks[h], Append(sent, e), onChain)
        BY <1>2, <3>1, <4>2, OtherBroadcast
      <4> QED
        BY <3>2, <4>1, <4>3
    <3> QED
      BY <3>3, <3>4
  <2> QED
    BY <2>1, <2>2
<1>7. NoOrphan'
  <2> SUFFICES ASSUME manager' # "dropped", NEW h \in 1 .. started', ~tasks'[h].exit
               PROVE  h = current' \/ tasks'[h].pc \in Finished
    BY DEF NoOrphan
  <2>1. h \in Groups /\ h \in 1 .. started /\ manager # "dropped" /\ current' = current
    BY <1>1, <1>2, ConstantsAssumption DEF TaskMove, PollTypeOK, Groups
  <2>2. ~tasks[h].exit
    BY <1>1, <1>3, <2>1 DEF TaskMove
  <2>3. h = current \/ tasks[h].pc \in Finished
    BY <1>2, <2>1, <2>2 DEF NoOrphan
  <2> QED
    BY <1>1, <1>3, <2>1, <2>3 DEF TaskMove
<1> QED
  BY <1>5, <1>6, <1>7 DEF PollInv, TaskInv

\* A step that changes no more of a task than its exit signal, which it may set,
\* keeps what the tasks have seen.
LEMMA SignalStep ==
    ASSUME PollInv, tasks' \in {tasks, StopCurrent}, sent' = sent,
           onChain' \in Nat, onChain <= onChain'
    PROVE  /\ TaskInv' /\ tasks' \in [Groups -> TaskType]
           /\ \A g \in Groups : tasks'[g].pc = tasks[g].pc
           /\ \A g \in Groups : ~tasks'[g].exit => ~tasks[g].exit
<1>1. /\ tasks \in [Groups -> TaskType] /\ TaskInv /\ onChain \in Nat
  BY ConstantsAssumption DEF PollInv, PollTypeOK
<1>2. \A g \in Groups : tasks'[g] = tasks[g] \/ tasks'[g] = [tasks[g] EXCEPT !.exit = TRUE]
  BY DEF StopCurrent, Groups
<1>3. ASSUME NEW g \in Groups
      PROVE  /\ tasks'[g] \in TaskType /\ tasks'[g].pc = tasks[g].pc
             /\ ~tasks'[g].exit => ~tasks[g].exit
             /\ SameTask(tasks[g], tasks'[g])
  <2>1. tasks[g] \in TaskType
    BY <1>1
  <2>2. CASE tasks'[g] = tasks[g]
    BY <2>1, <2>2 DEF SameTask
  <2>3. CASE tasks'[g] = [tasks[g] EXCEPT !.exit = TRUE]
    BY <2>1, <2>3 DEF SameTask, TaskType
  <2> QED
    BY <1>2, <2>2, <2>3
<1>4. tasks' \in [Groups -> TaskType]
  <2>1. \E f : tasks' = [g \in Groups |-> f[g]]
    <3>1. CASE tasks' = tasks
      <4>1. tasks' = [g \in Groups |-> tasks[g]]
        BY <1>1, <3>1
      <4> QED
        BY <4>1
    <3>2. CASE tasks' = StopCurrent
      <4>1. tasks' = [g \in Groups |-> tasks'[g]]
        BY <3>2 DEF StopCurrent, Groups
      <4> QED
        BY <4>1
    <3> QED
      BY <3>1, <3>2
  <2> QED
    BY <1>3, <2>1
<1>5. ASSUME NEW g \in Groups PROVE TaskOK(g, tasks'[g], sent', onChain')
  <2>1. TaskOK(g, tasks[g], sent, onChain) /\ tasks[g].lastSeen \in Nat
    BY <1>1 DEF TaskInv, TaskType
  <2>2. tasks'[g].pc = tasks[g].pc /\ SameTask(tasks[g], tasks'[g])
    BY <1>3
  <2>3. TaskOK(g, tasks'[g], sent, onChain')
    BY <1>1, <2>1, <2>2, TaskFrame
  <2> QED
    BY <2>3
<1> QED
  BY <1>3, <1>4, <1>5 DEF TaskInv

\* Taking from a sequence and adding to it.
LEMMA ShorterOrLonger ==
    ASSUME NEW S, NEW q \in Seq(S)
    PROVE  (q # <<>> => Tail(q) \in Seq(S)) /\ \A c \in S : Append(q, c) \in Seq(S)
OBVIOUS

\* A command stops the task in the map before it takes it out.
LEMMA CommandStep ==
    ASSUME PollInv, Manager \/ HandlesDropped
    PROVE  PollInv'
<1>1. sent' = sent /\ onChain' = onChain /\ onChain' \in Nat /\ tasks' \in {tasks, StopCurrent}
  BY ConstantsAssumption DEF Manager, HandlesDropped, HandleAdd, HandleRemove, HandleQuit, Join,
                            PollInv, PollTypeOK
<1>2. /\ TaskInv' /\ tasks' \in [Groups -> TaskType]
      /\ \A g \in Groups : tasks'[g].pc = tasks[g].pc
      /\ \A g \in Groups : ~tasks'[g].exit => ~tasks[g].exit
  BY <1>1, SignalStep
<1>3. PollTypeOK /\ NoOrphan /\ MaxTasks \in Nat
  BY ConstantsAssumption DEF PollInv
<1>4. commands' \in Seq({"add", "remove", "quit"})
  <2>1. commands' = commands \/ (commands # <<>> /\ commands' = Tail(commands))
    BY DEF Manager, HandlesDropped, HandleAdd, HandleRemove, HandleQuit, Join, Receive
  <2>2. commands \in Seq({"add", "remove", "quit"})
    BY <1>3 DEF PollTypeOK
  <2> QED
    BY <2>1, <2>2, ShorterOrLonger
<1>5. /\ started' \in 0 .. MaxTasks /\ current' \in 0 .. started'
      /\ manager' \in {"run", "joining", "done", "dropped"}
  BY <1>3 DEF Manager, HandlesDropped, HandleAdd, HandleRemove, HandleQuit, Join, Receive, PollTypeOK
<1>6. NoOrphan'
  <2> SUFFICES ASSUME manager' # "dropped", NEW g \in 1 .. started', ~tasks'[g].exit
               PROVE  g = current' \/ tasks'[g].pc \in Finished
    BY DEF NoOrphan
  <2>1. g \in Groups
    BY <1>3, <1>5 DEF Groups
  <2>2. tasks'[g].pc = tasks[g].pc /\ ~tasks[g].exit
    BY <1>2, <2>1
  <2>3. manager # "dropped" /\ (g <= started => g = current \/ tasks[g].pc \in Finished)
    BY <1>3, <2>1, <2>2 DEF NoOrphan, PollTypeOK, Groups, Manager, HandlesDropped, HandleAdd,
                           HandleRemove, HandleQuit, Join, Receive
  <2>4. tasks' = StopCurrent => g # current
    <3> SUFFICES ASSUME tasks' = StopCurrent, g = current PROVE FALSE
      OBVIOUS
    <3>1. tasks'[g] = [tasks[g] EXCEPT !.exit = TRUE] /\ tasks[g] \in TaskType
      BY <1>3, <2>1 DEF StopCurrent, Groups, PollTypeOK
    <3> QED
      BY <3>1 DEF TaskType
  <2>5. CASE HandleAdd
    BY <1>3, <2>1, <2>2, <2>3, <2>4, <2>5 DEF HandleAdd, PollTypeOK, Groups
  <2>6. CASE HandleRemove
    BY <1>3, <2>1, <2>2, <2>3, <2>4, <2>6 DEF HandleRemove, PollTypeOK, Groups
  <2>7. CASE HandleQuit
    BY <1>3, <2>1, <2>2, <2>3, <2>4, <2>7 DEF HandleQuit, PollTypeOK, Groups
  <2>8. CASE Join
    BY <1>3, <2>1, <2>2, <2>3, <2>8 DEF Join, PollTypeOK, Groups
  <2>9. ~HandlesDropped
    BY DEF HandlesDropped
  <2> QED
    BY <2>5, <2>6, <2>7, <2>8, <2>9 DEF Manager
<1>7. PollTypeOK'
  BY <1>1, <1>2, <1>3, <1>4, <1>5 DEF PollTypeOK
<1> QED
  BY <1>2, <1>6, <1>7 DEF PollInv

\* The chain and the handle leave the tasks alone.
LEMMA OutsideStep ==
    ASSUME PollInv, NewSignature \/ \E c \in {"add", "remove", "quit"} : SendCommand(c)
    PROVE  PollInv'
<1>1. /\ tasks' = tasks /\ sent' = sent /\ manager' = manager /\ current' = current
      /\ started' = started
  BY DEF NewSignature, SendCommand
<1>2. PollTypeOK /\ NoOrphan /\ MaxSigs \in Nat
  BY ConstantsAssumption DEF PollInv
<1>3. onChain' \in 0 .. MaxSigs /\ onChain' \in Nat /\ onChain <= onChain'
  <2>1. onChain' = onChain \/ (onChain < MaxSigs /\ onChain' = onChain + 1)
    BY DEF NewSignature, SendCommand
  <2>2. onChain \in 0 .. MaxSigs
    BY <1>2 DEF PollTypeOK
  <2> QED
    BY <1>2, <2>1, <2>2
<1>4. commands' \in Seq({"add", "remove", "quit"})
  <2>1. commands' = commands \/ \E c \in {"add", "remove", "quit"} : commands' = Append(commands, c)
    BY DEF NewSignature, SendCommand
  <2>2. commands \in Seq({"add", "remove", "quit"})
    BY <1>2 DEF PollTypeOK
  <2> QED
    BY <2>1, <2>2, ShorterOrLonger
<1>5. TaskInv'
  BY <1>1, <1>3, SignalStep
<1>6. NoOrphan' /\ PollTypeOK'
  BY <1>1, <1>2, <1>3, <1>4 DEF NoOrphan, PollTypeOK
<1> QED
  BY <1>5, <1>6 DEF PollInv

-----------------------------------------------------------------------------

\* The invariant holds in every state that the stream can reach.
THEOREM PollInvHolds == Spec => []PollInv
<1>1. Init => PollInv
  BY InitPollInv
<1>2. PollInv /\ [Next]_vars => PollInv'
  <2> SUFFICES ASSUME PollInv, [Next]_vars PROVE PollInv'
    OBVIOUS
  <2>1. CASE UNCHANGED vars
    BY <2>1 DEF vars, PollInv, PollTypeOK, TaskInv, NoOrphan
  <2>2. CASE Next
    BY <2>2, OutsideStep, CommandStep, WatchStep DEF Next, Groups
  <2> QED
    BY <2>1, <2>2
<1> QED
  BY <1>1, <1>2, PTL DEF Spec

\* poll_transactions never skips a transaction: what last_seen has passed was
\* broadcast, is being fetched, is kept for a retry, or has failed too often.
THEOREM NothingSkipped == Spec => []NoGap
<1>1. PollInv => NoGap
  <2> SUFFICES ASSUME PollInv, NEW g \in 1 .. started,
                      NEW s \in tasks[g].from + 1 .. tasks[g].lastSeen
               PROVE  \/ Ignored(s) \/ Broadcast(g, s) \/ s \in ToSet(tasks[g].batch)
                      \/ s \in tasks[g].retrying \/ tasks[g].attempts[s] > MaxAttempts
    BY DEF NoGap
  <2>1. g \in Groups
    BY ConstantsAssumption DEF PollInv, PollTypeOK, Groups
  <2>2. GapOK(g, tasks[g], sent)
    BY <2>1 DEF PollInv, TaskInv, TaskOK
  <2> QED
    BY <2>2, Zenon DEF GapOK, Broadcast, ToSet
<1> QED
  BY <1>1, PollInvHolds, PTL

\* A watch task repeats or delays only a transaction whose fetch has failed.
THEOREM RestInOrder == Spec => []DisorderOnlyAfterFailure
<1>1. PollInv => DisorderOnlyAfterFailure
  <2> SUFFICES ASSUME PollInv, NEW i \in DOMAIN sent, NEW j \in DOMAIN sent, i < j,
                      sent[i].task = sent[j].task, sent[i].sig >= sent[j].sig
               PROVE  tasks[sent[j].task].attempts[sent[j].sig] > 0
    BY DEF DisorderOnlyAfterFailure
  <2>1. sent[j].task \in Groups
    <3> DEFINE S == [sig : Sigs, task : Groups]
    <3>1. sent \in Seq(S)
      BY DEF PollInv, PollTypeOK, Output
    <3> HIDE DEF S
    <3>2. sent[j] \in S
      BY <3>1
    <3> QED
      BY <3>2 DEF S
  <2>2. OrderOK(sent[j].task, tasks[sent[j].task], sent)
    BY <2>1 DEF PollInv, TaskInv, TaskOK
  <2> QED
    BY <2>2 DEF OrderOK
<1> QED
  BY <1>1, PollInvHolds, PTL

\* No sequence of commands leaves a running watch task that nothing can stop.
THEOREM TasksStoppable == Spec => []NoOrphan
<1>1. PollInv => NoOrphan
  BY DEF PollInv
<1> QED
  BY <1>1, PollInvHolds, PTL

-----------------------------------------------------------------------------
(* Historical transactions: the pages of a request.                        *)

\* A job has its fields, whatever they hold.
JobShape(r) ==
    r = [pc |-> r.pc, tries |-> r.tries, found |-> r.found, left |-> r.left, last |-> r.last,
         sigs |-> r.sigs, failed |-> r.failed, out |-> r.out]

JobType(r) ==
    /\ r.pc \in {"recent", "page", "done", "error"}
    /\ r.found \in Nat /\ r.left \in Nat /\ r.left <= Wanted /\ r.last \in Nat
    /\ r.sigs \in Seq(Nat) /\ r.failed \in BOOLEAN

Descending(q) == \A i, k \in 1 .. Len(q) : i < k => q[i] > q[k]

Lists(q, s) == \E i \in 1 .. Len(q) : q[i] = s

\* What was paged lies between last and found, and nothing is missing there.
Joined(q, last, found) ==
    /\ Descending(q)
    /\ last = IF q = <<>> THEN found ELSE q[Len(q)]
    /\ \A s \in Nat : Lists(q, s) <=> last <= s /\ s < found /\ ~Skipped(s)

NoneSkipped(found) == \A s \in 1 .. found - 1 : ~Skipped(s)

\* Without failures, n of the signatures before found are paged when wanted of them
\* have been asked for.
Counted(n, wanted, last, found) ==
    /\ last + n = found
    /\ IF wanted <= found - 1 THEN n = wanted ELSE n = found - 1

JobInv(r) ==
    /\ JobShape(r) /\ JobType(r)
    /\ r.pc \in {"recent", "error"} => r.sigs = <<>> /\ r.left = Wanted /\ ~r.failed
    /\ r.pc \in {"page", "done"} =>
          /\ 1 <= r.last /\ r.last <= r.found /\ Joined(r.sigs, r.last, r.found)
          /\ ~r.failed /\ NoneSkipped(r.found) =>
                Counted(Len(r.sigs), Wanted - r.left, r.last, r.found)

\* The inductive invariant.
HistoricalInv ==
    /\ newest \in Nat
    /\ DOMAIN jobs = 1 .. Requests
    /\ \A j \in 1 .. Requests : JobInv(jobs[j])

\* An order of the signatures in S from the newest to the oldest.
Ordering(S, q) ==
    /\ q \in [1 .. Cardinality(S) -> S] /\ ToSet(q) = S
    /\ \A i, k \in DOMAIN q : i < k => q[i] > q[k]

\* Every finite set of signatures has one.
LEMMA OrderingExists ==
    ASSUME NEW n \in Nat, NEW S \in SUBSET (1 .. n)
    PROVE  \E q : Ordering(S, q)
<1> DEFINE Bad == {T \in SUBSET S : ~ \E q : Ordering(T, q)}
<1> SUFFICES ASSUME Bad # {} PROVE FALSE
  OBVIOUS
<1>1. IsFiniteSet(S)
  <2>1. IsFiniteSet(1 .. n)
    BY FS_Interval
  <2> QED
    BY <2>1, FS_Subset
<1>2. PICK T \in Bad : IsFiniteSet(T) /\ \A x \in T : T \ {x} \notin Bad
  <2>1. Bad \in SUBSET (SUBSET S)
    OBVIOUS
  <2> HIDE DEF Bad
  <2> QED
    BY <1>1, <2>1, MinimalSubset
<1>3. ~ \E q : Ordering(T, q)
  BY <1>2
<1>4. CASE T = {}
  <2>1. Cardinality(T) = 0
    BY <1>4, FS_EmptySet
  <2> DEFINE q == [i \in 1 .. 0 |-> 0]
  <2>2. 1 .. 0 = {}
    OBVIOUS
  <2>3. q \in [1 .. 0 -> {}] /\ ToSet(q) = {} /\ DOMAIN q = {}
    BY <2>2 DEF ToSet
  <2>4. Ordering(T, q)
    BY <1>4, <2>1, <2>3 DEF Ordering
  <2> QED
    BY <1>3, <2>4
<1>5. CASE T # {}
  <2>1. T \in SUBSET Nat
    OBVIOUS
  <2>2. PICK m \in T : \A y \in T : m <= y
    BY <1>5, <2>1, LeastElement
  <2> DEFINE R == T \ {m}
             c == Cardinality(R)
  <2>3. IsFiniteSet(R) /\ c \in Nat /\ Cardinality(T) = c + 1
    <3>1. Cardinality(T) \in Nat
      BY <1>2, FS_CardinalityType
    <3>2. IsFiniteSet(R) /\ c = Cardinality(T) - 1
      BY <1>2, <2>2, FS_RemoveElement
    <3>3. c \in Nat
      BY <3>2, FS_CardinalityType
    <3> HIDE DEF c, R
    <3> QED
      BY <3>1, <3>2, <3>3
  <2>4. PICK p : Ordering(R, p)
    BY <1>2
  <2>5. p \in [1 .. c -> R] /\ ToSet(p) = R /\ DOMAIN p = 1 .. c
    BY <2>4 DEF Ordering
  <2> DEFINE q == [i \in 1 .. c + 1 |-> IF i = c + 1 THEN m ELSE p[i]]
  <2>6. \A i \in 1 .. c + 1 : i # c + 1 => i \in 1 .. c
    BY <2>3
  <2>7. \A i \in 1 .. c : i \in 1 .. c + 1 /\ i # c + 1
    BY <2>3
  <2>8. c + 1 \in 1 .. c + 1
    BY <2>3
  <2>9. \A i \in 1 .. c : q[i] = p[i] /\ p[i] \in R
    BY <2>5, <2>7
  <2>10. q[c + 1] = m
    BY <2>8
  <2>11. q \in [1 .. c + 1 -> T]
    BY <2>5, <2>6
  <2>12. \A y \in R : \E i \in 1 .. c : p[i] = y
    BY <2>5 DEF ToSet
  <2> HIDE DEF q, c
  <2>13. ToSet(q) = T
    <3>1. \A y \in T : \E i \in 1 .. c + 1 : q[i] = y
      <4> SUFFICES ASSUME NEW y \in T PROVE \E i \in 1 .. c + 1 : q[i] = y
        OBVIOUS
      <4>1. CASE y = m
        BY <2>8, <2>10, <4>1
      <4>2. CASE y # m
        <5>1. PICK i \in 1 .. c : p[i] = y
          BY <2>12, <4>2
        <5> QED
          BY <2>7, <2>9, <5>1
      <4> QED
        BY <4>1, <4>2
    <3>2. DOMAIN q = 1 .. c + 1 /\ \A i \in 1 .. c + 1 : q[i] \in T
      BY <2>11
    <3> QED
      BY <3>1, <3>2 DEF ToSet
  <2>14. ASSUME NEW i \in 1 .. c + 1, NEW k \in 1 .. c + 1, i < k PROVE q[i] > q[k]
    <3>1. i \in 1 .. c
      BY <2>3, <2>14
    <3>2. CASE k = c + 1
      <4>1. q[i] = p[i] /\ p[i] \in R /\ q[k] = m
        BY <2>9, <2>10, <3>1, <3>2
      <4>2. q[i] \in Nat /\ m \in Nat /\ m <= q[i] /\ q[i] # m
        BY <2>1, <2>2, <4>1
      <4> QED
        BY <4>1, <4>2
    <3>3. CASE k # c + 1
      <4>1. k \in 1 .. c
        BY <2>6, <3>3
      <4>2. p[i] > p[k]
        BY <2>4, <2>5, <2>14, <3>1, <4>1 DEF Ordering
      <4> QED
        BY <2>9, <3>1, <4>1, <4>2
    <3> QED
      BY <3>2, <3>3
  <2>15. Ordering(T, q)
    <3>1. DOMAIN q = 1 .. c + 1
      BY <2>11
    <3> QED
      BY <2>3, <2>11, <2>13, <2>14, <3>1 DEF Ordering
  <2> QED
    BY <1>3, <2>15
<1> QED
  BY <1>4, <1>5

\* What NewestFirst returns.
LEMMA NewestFirstFacts ==
    ASSUME NEW n \in Nat, NEW S \in SUBSET (1 .. n), NEW q, q = NewestFirst(S)
    PROVE  /\ q \in Seq(Nat) /\ Len(q) = Cardinality(S) /\ Len(q) \in Nat
           /\ Descending(q) /\ \A s : Lists(q, s) <=> s \in S
<1>1. Ordering(S, q)
  <2>1. \E p : Ordering(S, p)
    BY OrderingExists
  <2>2. \E p \in [1 .. Cardinality(S) -> S] :
            ToSet(p) = S /\ \A i, k \in DOMAIN p : i < k => p[i] > p[k]
    BY <2>1 DEF Ordering
  <2> QED
    BY <2>2 DEF NewestFirst, Ordering
<1>2. Cardinality(S) \in Nat
  <2>1. IsFiniteSet(1 .. n)
    BY FS_Interval
  <2> QED
    BY <2>1, FS_Subset, FS_CardinalityType
<1> DEFINE c == Cardinality(S)
<1>3. q \in [1 .. c -> S] /\ ToSet(q) = S /\ DOMAIN q = 1 .. c
  BY <1>1 DEF Ordering
<1>4. S \subseteq Nat
  OBVIOUS
<1> HIDE DEF c
<1>5. c \in Nat
  BY <1>2 DEF c
<1>6. q \in Seq(Nat) /\ Len(q) = c
  <2>1. q \in [1 .. c -> Nat]
    BY <1>3, <1>4
  <2>2. q \in Seq(Nat)
    BY <1>5, <2>1
  <2> QED
    BY <1>3, <1>5, <2>2
<1>7. Descending(q)
  BY <1>1, <1>3, <1>6 DEF Ordering, Descending
<1>8. \A s : Lists(q, s) <=> s \in S
  BY <1>3, <1>6 DEF ToSet, Lists
<1> QED
  BY <1>5, <1>6, <1>7, <1>8 DEF c

\* The smaller of two numbers.
LEMMA MinTwo ==
    ASSUME NEW a \in Nat, NEW b \in Nat
    PROVE  Min({a, b}) = IF a <= b THEN a ELSE b
<1>1. \E x \in {a, b} : \A y \in {a, b} : x =< y
  OBVIOUS
<1>2. Min({a, b}) \in {a, b} /\ \A y \in {a, b} : Min({a, b}) =< y
  BY <1>1 DEF Min
<1> QED
  BY <1>2

\* What two lists hold one after the other.
LEMMA ListsBoth ==
    ASSUME NEW q \in Seq(Nat), NEW a \in Seq(Nat)
    PROVE  /\ q \o a \in Seq(Nat) /\ Len(q \o a) = Len(q) + Len(a)
           /\ Len(q) \in Nat /\ Len(a) \in Nat
           /\ \A s : Lists(q \o a, s) <=> Lists(q, s) \/ Lists(a, s)
<1> DEFINE b == q \o a
           m == Len(q)
           n == Len(a)
<1>1. b \in Seq(Nat) /\ Len(b) = m + n /\ m \in Nat /\ n \in Nat
  OBVIOUS
<1>2. /\ \A i \in 1 .. m : b[i] = q[i] /\ i \in 1 .. m + n
      /\ \A i \in 1 .. n : b[m + i] = a[i] /\ m + i \in 1 .. m + n
  OBVIOUS
<1>3. \A i \in 1 .. m + n : i \in 1 .. m \/ (i - m \in 1 .. n /\ i = m + (i - m))
  BY <1>1
<1> HIDE DEF b, m, n
<1>4. ASSUME NEW s, Lists(b, s) PROVE Lists(q, s) \/ Lists(a, s)
  <2>1. PICK i \in 1 .. m + n : b[i] = s
    BY <1>1, <1>4 DEF Lists
  <2>2. CASE i \in 1 .. m
    BY <1>2, <2>1, <2>2 DEF Lists, m
  <2>3. CASE i - m \in 1 .. n /\ i = m + (i - m)
    <3>1. a[i - m] = s
      BY <1>2, <2>1, <2>3
    <3> QED
      BY <2>3, <3>1 DEF Lists, n
  <2> QED
    BY <1>3, <2>2, <2>3
<1>5. ASSUME NEW s, Lists(q, s) PROVE Lists(b, s)
  <2>1. PICK i \in 1 .. m : q[i] = s
    BY <1>5 DEF Lists, m
  <2> QED
    BY <1>1, <1>2, <2>1 DEF Lists
<1>6. ASSUME NEW s, Lists(a, s) PROVE Lists(b, s)
  <2>1. PICK i \in 1 .. n : a[i] = s
    BY <1>6 DEF Lists, n
  <2> QED
    BY <1>1, <1>2, <2>1 DEF Lists
<1> QED
  BY <1>1, <1>4, <1>5, <1>6 DEF b, m, n

\* A list of newer signatures and one of older ones.
LEMMA DescendingBoth ==
    ASSUME NEW q \in Seq(Nat), NEW a \in Seq(Nat), Descending(q), Descending(a),
           \A i \in 1 .. Len(q), k \in 1 .. Len(a) : q[i] > a[k]
    PROVE  Descending(q \o a)
<1> DEFINE b == q \o a
           m == Len(q)
           n == Len(a)
<1>1. b \in Seq(Nat) /\ Len(b) = m + n /\ m \in Nat /\ n \in Nat
  OBVIOUS
<1>2. /\ \A i \in 1 .. m : b[i] = q[i]
      /\ \A i \in 1 .. n : b[m + i] = a[i]
  OBVIOUS
<1>3. \A i \in 1 .. m + n : i \in 1 .. m \/ (i - m \in 1 .. n /\ i = m + (i - m) /\ i > m)
  BY <1>1
<1>4. \A i, k \in 1 .. m : i < k => q[i] > q[k]
  BY DEF Descending
<1>5. \A i, k \in 1 .. n : i < k => a[i] > a[k]
  BY DEF Descending
<1>6. \A i \in 1 .. m, k \in 1 .. n : q[i] > a[k]
  OBVIOUS
<1> HIDE DEF b, m, n
<1>7. ASSUME NEW i \in 1 .. m + n, NEW k \in 1 .. m + n, i < k PROVE b[i] > b[k]
  <2>1. CASE k \in 1 .. m
    <3>1. i \in 1 .. m
      BY <1>1, <1>7, <2>1
    <3> QED
      BY <1>2, <1>4, <1>7, <2>1, <3>1
  <2>2. CASE k - m \in 1 .. n /\ k = m + (k - m)
    <3>1. b[k] = a[k - m]
      BY <1>2, <2>2
    <3>2. CASE i \in 1 .. m
      BY <1>2, <1>6, <2>2, <3>1, <3>2
    <3>3. CASE i - m \in 1 .. n /\ i = m + (i - m)
      <4>1. b[i] = a[i - m]
        BY <1>2, <3>3
      <4>2. i - m < k - m
        BY <1>1, <1>7
      <4>3. a[i - m] > a[k - m]
        BY <1>5, <2>2, <3>3, <4>2
      <4> QED
        BY <3>1, <4>1, <4>3
    <3> QED
      BY <1>3, <3>2, <3>3
  <2> QED
    BY <1>3, <2>1, <2>2
<1>8. Descending(b)
  BY <1>1, <1>7 DEF Descending
<1> QED
  BY <1>8 DEF b

\* The signatures from old on and before last that are not ignored.
Before(old, last) == {s \in old .. last - 1 : ~Skipped(s)}

\* An answer joins what was paged before it.
LEMMA AnswerJoins ==
    ASSUME NEW q \in Seq(Nat), NEW last \in Nat, NEW found \in Nat, NEW old \in Nat,
           1 <= old, old <= last, last <= found, Joined(q, last, found),
           NEW a, a = NewestFirst(Before(old, last)),
           NEW next, next = IF a = <<>> THEN last ELSE Last(a)
    PROVE  /\ q \o a \in Seq(Nat) /\ next \in Nat /\ 1 <= next /\ next <= found
           /\ Joined(q \o a, next, found)
           /\ NoneSkipped(found) => Len(q \o a) = Len(q) + (last - old) /\ next = old
<1> DEFINE S == {s \in old .. last - 1 : ~Skipped(s)}
<1>1. S \in SUBSET (1 .. last)
  OBVIOUS
<1>2. /\ a \in Seq(Nat) /\ Len(a) = Cardinality(S) /\ Len(a) \in Nat
      /\ Descending(a) /\ \A s : Lists(a, s) <=> s \in S
  <2>1. a = NewestFirst(S)
    BY DEF Before
  <2> HIDE DEF S
  <2> QED
    BY <1>1, <2>1, NewestFirstFacts
<1>3. /\ q \o a \in Seq(Nat) /\ Len(q \o a) = Len(q) + Len(a) /\ Len(q) \in Nat
      /\ \A s : Lists(q \o a, s) <=> Lists(q, s) \/ Lists(a, s)
  <2>1. a \in Seq(Nat)
    BY <1>2
  <2> HIDE DEF S
  <2>2. q \o a \in Seq(Nat) /\ Len(q \o a) = Len(q) + Len(a) /\ Len(q) \in Nat
    BY <2>1
  <2>3. \A s : Lists(q \o a, s) <=> Lists(q, s) \/ Lists(a, s)
    BY <2>1, ListsBoth
  <2> QED
    BY <2>2, <2>3
<1>4. /\ Descending(q) /\ last = IF q = <<>> THEN found ELSE q[Len(q)]
      /\ \A s \in Nat : Lists(q, s) <=> last <= s /\ s < found /\ ~Skipped(s)
  BY DEF Joined
<1>5. ASSUME NEW i \in 1 .. Len(q), NEW k \in 1 .. Len(a) PROVE q[i] > a[k]
  <2>1. q[i] \in Nat /\ Lists(q, q[i])
    BY DEF Lists
  <2>2. last <= q[i]
    BY <1>4, <2>1
  <2>3. Lists(a, a[k])
    BY DEF Lists
  <2>4. a[k] \in Nat /\ a[k] <= last - 1
    BY <1>2, <2>3
  <2> QED
    BY <2>1, <2>2, <2>4
<1>6. Descending(q \o a)
  BY <1>2, <1>4, <1>5, DescendingBoth
<1>7. CASE a = <<>>
  <2>1. next = last /\ q \o a = q
    <3>1. q \o <<>> = q
      OBVIOUS
    <3> QED
      BY <1>7, <3>1
  <2>2. Len(a) = 0
    BY <1>7
  <2>3. NoneSkipped(found) => last = old
    <3> SUFFICES ASSUME NoneSkipped(found), last # old PROVE FALSE
      OBVIOUS
    <3>1. old \in old .. last - 1 /\ old \in 1 .. found - 1
      OBVIOUS
    <3>2. old \in S
      BY <3>1 DEF NoneSkipped
    <3>3. Lists(a, old)
      BY <1>2, <3>2
    <3> HIDE DEF S
    <3> QED
      BY <2>2, <3>3 DEF Lists
  <2> HIDE DEF S
  <2> QED
    BY <1>3, <2>1, <2>2, <2>3
<1>8. CASE a # <<>>
  <2> DEFINE n == Len(a)
  <2>1. n \in Nat /\ n >= 1 /\ n \in 1 .. n
    BY <1>2, <1>8
  <2>2. next = a[n]
    BY <1>8 DEF Last
  <2>3. Lists(a, a[n])
    BY <2>1 DEF Lists
  <2>4. next \in S /\ next \in Nat /\ old <= next /\ next <= last - 1
    BY <1>2, <2>2, <2>3
  <2>5. ASSUME NEW s \in S PROVE next <= s
    <3>1. PICK k \in 1 .. n : a[k] = s
      BY <1>2 DEF Lists
    <3>2. CASE k = n
      BY <2>2, <2>4, <3>1, <3>2
    <3>3. CASE k # n
      <4>1. k < n
        BY <2>1, <3>3
      <4>2. a[k] > a[n]
        BY <1>2, <2>1, <4>1 DEF Descending
      <4>3. s \in Nat
        OBVIOUS
      <4> HIDE DEF n, S
      <4> QED
        BY <2>2, <2>4, <3>1, <4>2, <4>3
    <3> QED
      BY <3>2, <3>3
  <2>6. next = IF q \o a = <<>> THEN found ELSE (q \o a)[Len(q \o a)]
    <3>1. q \o a # <<>>
      BY <1>2, <1>3, <2>1
    <3>2. (q \o a)[Len(q) + n] = a[n]
      BY <1>2, <2>1
    <3> QED
      BY <1>3, <2>2, <3>1, <3>2
  <2>7. ASSUME NEW s \in Nat
        PROVE  Lists(q \o a, s) <=> next <= s /\ s < found /\ ~Skipped(s)
    <3>1. Lists(q \o a, s) <=> Lists(q, s) \/ s \in S
      BY <1>2, <1>3
    <3>2. Lists(q, s) <=> last <= s /\ s < found /\ ~Skipped(s)
      BY <1>4
    <3>3. s \in S => next <= s /\ s < found /\ ~Skipped(s)
      BY <2>5
    <3>4. next <= s /\ s < last /\ ~Skipped(s) => s \in S
      BY <2>4
    <3> HIDE DEF S
    <3> QED
      BY <2>4, <3>1, <3>2, <3>3, <3>4
  <2>8. Joined(q \o a, next, found)
    BY <1>6, <2>6, <2>7 DEF Joined
  <2>9. NoneSkipped(found) => Len(a) = last - old /\ next = old
    <3> SUFFICES ASSUME NoneSkipped(found) PROVE Len(a) = last - old /\ next = old
      OBVIOUS
    <3>1. \A s \in old .. last - 1 : s \in 1 .. found - 1
      OBVIOUS
    <3>2. S = old .. last - 1
      BY <3>1 DEF NoneSkipped
    <3>3. old <= last - 1
      BY <2>4
    <3>4. Cardinality(old .. last - 1) = (last - 1) - old + 1
      BY <3>3, FS_Interval
    <3>5. old \in S
      BY <3>2, <3>3
    <3>6. Len(a) = last - old
      <4>1. Cardinality(S) = (last - 1) - old + 1
        BY <3>2, <3>4, Zenon
      <4> HIDE DEF S
      <4> QED
        BY <1>2, <4>1
    <3>7. next <= old
      BY <2>5, <3>5
    <3> HIDE DEF S
    <3> QED
      BY <2>4, <3>6, <3>7
  <2>10. NoneSkipped(found) => Len(q \o a) = Len(q) + (last - old) /\ next = old
    BY <1>3, <2>9
  <2>11. 1 <= next /\ next <= found
    BY <2>4
  <2> HIDE DEF S, n
  <2> QED
    BY <1>3, <2>4, <2>8, <2>10, <2>11, Zenon
<1> QED
  BY <1>7, <1>8

\* What is asked for in a page, and how far back it reaches.
LEMMA QueryFacts ==
    ASSUME NEW r, JobType(r), r.left > 0, 1 <= r.last
    PROVE  /\ Query(r) \in Nat /\ 1 <= Query(r) /\ Query(r) <= r.left
           /\ Oldest(r) \in Nat /\ 1 <= Oldest(r) /\ Oldest(r) <= r.last
           /\ Oldest(r) = IF r.last > Query(r) THEN r.last - Query(r) ELSE 1
<1>1. r.left \in Nat /\ r.last \in Nat /\ PageSize \in Nat \ {0}
  BY HistoricalAssumption DEF JobType
<1>2. Query(r) = IF r.left <= PageSize THEN r.left ELSE PageSize
  BY <1>1, MinTwo DEF Query
<1>3. Oldest(r) = IF r.last > Query(r) THEN r.last - Query(r) ELSE 1
  BY DEF Oldest
<1> QED
  BY <1>1, <1>2, <1>3

\* The count after another page.
LEMMA CountsOn ==
    ASSUME NEW n \in Nat, NEW wanted \in Nat, NEW last \in Nat, NEW found \in Nat,
           NEW query \in Nat, NEW old \in Nat, 1 <= last, last <= found, 1 <= query,
           old = IF last > query THEN last - query ELSE 1,
           Counted(n, wanted, last, found)
    PROVE  Counted(n + (last - old), wanted + query, old, found)
<1>1. last + n = found /\ (IF wanted <= found - 1 THEN n = wanted ELSE n = found - 1)
  BY DEF Counted
<1>2. old + (n + (last - old)) = found
  BY <1>1
<1>3. IF wanted + query <= found - 1 THEN n + (last - old) = wanted + query
      ELSE n + (last - old) = found - 1
  BY <1>1
<1> QED
  BY <1>2, <1>3 DEF Counted

\* Paging keeps the invariant of a job.
LEMMA PageKeepsJob ==
    ASSUME NEW r, JobInv(r), r.pc = "page", r.left > 0,
           NEW r2, r2 = [r EXCEPT !.left = @ - Query(r), !.sigs = @ \o Answer(r),
                                  !.last = IF Answer(r) = <<>> THEN @ ELSE Last(Answer(r))]
    PROVE  JobInv(r2)
<1>1. JobShape(r) /\ JobType(r) /\ 1 <= r.last /\ r.last <= r.found
      /\ Joined(r.sigs, r.last, r.found)
  BY DEF JobInv
<1>2. PICK a : a = Answer(r)
  OBVIOUS
<1>3. PICK next : next = IF a = <<>> THEN r.last ELSE Last(a)
  OBVIOUS
<1>4. PICK query : query = Query(r)
  OBVIOUS
<1>5. r2 = [r EXCEPT !.left = @ - query, !.sigs = @ \o a, !.last = next]
  BY <1>2, <1>3, <1>4
<1>6. /\ r2.pc = "page" /\ r2.found = r.found /\ r2.left = r.left - query /\ r2.last = next
      /\ r2.sigs = r.sigs \o a /\ r2.failed = r.failed /\ JobShape(r2)
  BY <1>1, <1>5 DEF JobShape
<1>7. /\ r.left \in Nat /\ r.left <= Wanted /\ r.last \in Nat /\ r.found \in Nat
      /\ r.sigs \in Seq(Nat) /\ r.failed \in BOOLEAN /\ Wanted \in Nat
  BY <1>1, HistoricalAssumption DEF JobType
<1>8. PICK old \in Nat : /\ old = Oldest(r) /\ 1 <= old /\ old <= r.last
                         /\ old = IF r.last > query THEN r.last - query ELSE 1
                         /\ query \in Nat /\ 1 <= query /\ query <= r.left
  BY <1>1, <1>4, QueryFacts
<1>9. a = NewestFirst(Before(old, r.last))
  BY <1>2, <1>8 DEF Answer, Before
<1>10. /\ r.sigs \o a \in Seq(Nat) /\ next \in Nat /\ 1 <= next /\ next <= r.found
       /\ Joined(r.sigs \o a, next, r.found)
       /\ NoneSkipped(r.found) => /\ Len(r.sigs \o a) = Len(r.sigs) + (r.last - old)
                                  /\ next = old
  <2>1. PICK q \in Seq(Nat) : q = r.sigs
    BY <1>7
  <2>2. PICK last \in Nat : last = r.last
    BY <1>7
  <2>3. PICK found \in Nat : found = r.found
    BY <1>7
  <2>4. /\ 1 <= old /\ old <= last /\ last <= found /\ Joined(q, last, found)
        /\ next = IF a = <<>> THEN last ELSE Last(a)
    BY <1>1, <1>3, <1>8, <2>1, <2>2, <2>3
  <2>5. a = NewestFirst(Before(old, last))
    BY <1>9, <2>2
  <2>6. /\ q \o a \in Seq(Nat) /\ next \in Nat /\ 1 <= next /\ next <= found
        /\ Joined(q \o a, next, found)
        /\ NoneSkipped(found) => Len(q \o a) = Len(q) + (last - old) /\ next = old
    BY <2>4, <2>5, AnswerJoins
  <2> QED
    BY <2>1, <2>2, <2>3, <2>6
<1>11. JobType(r2)
  <2>1. r.left - query \in Nat /\ r.left - query <= Wanted
    BY <1>7, <1>8
  <2> QED
    BY <1>6, <1>7, <1>10, <2>1 DEF JobType
<1>12. ASSUME ~r.failed, NoneSkipped(r.found)
       PROVE  Counted(Len(r2.sigs), Wanted - r2.left, r2.last, r2.found)
  <2>1. Counted(Len(r.sigs), Wanted - r.left, r.last, r.found)
    BY <1>12 DEF JobInv
  <2>2. Wanted - r.left \in Nat /\ Wanted - r2.left = (Wanted - r.left) + query /\ Len(r.sigs) \in Nat
    BY <1>6, <1>7, <1>8
  <2>3. Counted(Len(r.sigs) + (r.last - old), (Wanted - r.left) + query, old, r.found)
    BY <1>1, <1>7, <1>8, <2>1, <2>2, CountsOn
  <2> QED
    BY <1>6, <1>10, <1>12, <2>2, <2>3
<1> QED
  BY <1>6, <1>10, <1>11, <1>12 DEF JobInv

\* A page that failed counts against what is wanted.
LEMMA PageErrorKeepsJob ==
    ASSUME NEW r, JobInv(r), r.pc = "page", r.left > 0,
           NEW r2, r2 = [r EXCEPT !.left = @ - Query(r), !.failed = TRUE]
    PROVE  JobInv(r2)
<1>1. JobShape(r) /\ JobType(r) /\ 1 <= r.last /\ r.last <= r.found
      /\ Joined(r.sigs, r.last, r.found)
  BY DEF JobInv
<1>2. PICK query : query = Query(r)
  OBVIOUS
<1>3. r2 = [r EXCEPT !.left = @ - query, !.failed = TRUE]
  BY <1>2
<1>4. /\ r2.pc = "page" /\ r2.found = r.found /\ r2.left = r.left - query /\ r2.last = r.last
      /\ r2.sigs = r.sigs /\ r2.failed = TRUE /\ JobShape(r2)
  BY <1>1, <1>3 DEF JobShape
<1>5. query \in Nat /\ 1 <= query /\ query <= r.left
  BY <1>1, <1>2, QueryFacts
<1>6. JobType(r2)
  <2>1. r.left \in Nat /\ r.left <= Wanted /\ Wanted \in Nat
    BY <1>1, HistoricalAssumption DEF JobType
  <2> QED
    BY <1>1, <1>4, <1>5, <2>1 DEF JobType
<1> QED
  BY <1>1, <1>4, <1>6 DEF JobInv

\* Looking for a recent signature.
LEMMA FindKeepsJob ==
    ASSUME NEW r, JobInv(r), r.pc = "recent", NEW f \in Nat,
           NEW r2, r2 = [r EXCEPT !.tries = @ + 1, !.found = f]
    PROVE  JobInv(r2)
<1>1. JobShape(r) /\ JobType(r) /\ r.sigs = <<>> /\ r.left = Wanted /\ ~r.failed
  BY DEF JobInv
<1>2. PICK t : t = r.tries + 1
  OBVIOUS
<1>3. r2 = [r EXCEPT !.tries = t, !.found = f]
  BY <1>2
<1>4. /\ r2.pc = "recent" /\ r2.found = f /\ r2.left = r.left /\ r2.last = r.last
      /\ r2.sigs = r.sigs /\ r2.failed = r.failed /\ JobShape(r2)
  BY <1>1, <1>3 DEF JobShape
<1> QED
  BY <1>1, <1>4 DEF JobInv, JobType

\* Starting to page from the signature that was found.
LEMMA FoundKeepsJob ==
    ASSUME NEW r, JobInv(r), r.pc = "recent",
           NEW r2, r2 = [r EXCEPT !.pc = IF r.found = 0 THEN "error" ELSE "page", !.last = r.found]
    PROVE  JobInv(r2)
<1>1. JobShape(r) /\ JobType(r) /\ r.sigs = <<>> /\ r.left = Wanted /\ ~r.failed
  BY DEF JobInv
<1>2. PICK pc : pc = IF r.found = 0 THEN "error" ELSE "page"
  OBVIOUS
<1>3. r2 = [r EXCEPT !.pc = pc, !.last = r.found]
  BY <1>2
<1>4. /\ r2.pc = pc /\ r2.found = r.found /\ r2.left = r.left /\ r2.last = r.found
      /\ r2.sigs = r.sigs /\ r2.failed = r.failed /\ JobShape(r2)
  BY <1>1, <1>3 DEF JobShape
<1>5. JobType(r2)
  BY <1>1, <1>2, <1>4 DEF JobType
<1>6. CASE r.found = 0
  BY <1>1, <1>2, <1>4, <1>5, <1>6 DEF JobInv
<1>7. CASE r.found # 0
  <2>1. r.found \in Nat /\ 1 <= r.found /\ Wanted \in Nat
    BY <1>1, <1>7, HistoricalAssumption DEF JobType
  <2>2. Len(<<>>) = 0 /\ 1 .. 0 = {}
    OBVIOUS
  <2>3. Joined(<<>>, r.found, r.found)
    <3>1. Descending(<<>>) /\ \A s : ~Lists(<<>>, s)
      BY <2>2 DEF Descending, Lists
    <3>2. \A s \in Nat : ~(r.found <= s /\ s < r.found)
      BY <2>1
    <3> QED
      BY <3>1, <3>2 DEF Joined
  <2>4. Counted(0, 0, r.found, r.found)
    BY <2>1 DEF Counted
  <2>5. Wanted - r2.left = 0 /\ Len(r2.sigs) = 0
    BY <1>1, <1>4, <2>1, <2>2
  <2>6. r2.pc = "page"
    BY <1>2, <1>4, <1>7
  <2>7. r2.last = r.found /\ r2.found = r.found /\ r2.sigs = <<>>
    BY <1>1, <1>4
  <2> QED
    BY <1>4, <1>5, <2>1, <2>3, <2>4, <2>5, <2>6, <2>7 DEF JobInv
<1> QED
  BY <1>6, <1>7

\* Fetching leaves what was paged alone.
LEMMA FetchKeepsJob ==
    ASSUME NEW r, JobInv(r), r.pc = "page", NEW o,
           NEW r2, r2 = [r EXCEPT !.pc = "done", !.out = o]
    PROVE  JobInv(r2)
<1>1. JobShape(r) /\ JobType(r)
  BY DEF JobInv
<1>2. /\ r2.pc = "done" /\ r2.found = r.found /\ r2.left = r.left /\ r2.last = r.last
      /\ r2.sigs = r.sigs /\ r2.failed = r.failed /\ JobShape(r2)
  BY <1>1 DEF JobShape
<1>3. JobType(r2)
  BY <1>1, <1>2 DEF JobType
<1> QED
  BY <1>2, <1>3 DEF JobInv

\* The first states.
LEMMA HistoricalInitial == HistoricalInit => HistoricalInv
<1> SUFFICES ASSUME HistoricalInit PROVE HistoricalInv
  OBVIOUS
<1>1. newest \in Nat /\ jobs = [j \in 1 .. Requests |-> Job(j)] /\ Wanted \in Nat
  BY HistoricalAssumption DEF HistoricalInit
<1>2. ASSUME NEW j \in 1 .. Requests PROVE JobInv(Job(j))
  <2>1. PICK r : r = Job(j)
    OBVIOUS
  <2>2. /\ r.pc = "recent" /\ r.found = Given[j] /\ r.left = Wanted /\ r.last = 0 /\ r.sigs = <<>>
        /\ r.failed = FALSE /\ JobShape(r)
    BY <2>1 DEF Job, JobShape
  <2>3. Given[j] \in Nat
    BY HistoricalAssumption
  <2>4. JobType(r)
    <3>1. <<>> \in Seq(Nat)
      OBVIOUS
    <3>2. r.sigs \in Seq(Nat) /\ r.failed \in BOOLEAN
      <4>1. r.sigs = <<>> /\ r.failed = FALSE
        BY <2>2
      <4> QED
        BY <3>1, <4>1, Zenon
    <3>3. r.pc \in {"recent", "page", "done", "error"}
      BY <2>2
    <3>4. r.found \in Nat /\ r.left \in Nat /\ r.left <= Wanted /\ r.last \in Nat
      BY <1>1, <2>2, <2>3
    <3> QED
      BY <3>2, <3>3, <3>4 DEF JobType
  <2>5. JobInv(r)
    BY <2>2, <2>4 DEF JobInv
  <2> QED
    BY <2>1, <2>5
<1> QED
  BY <1>1, <1>2 DEF HistoricalInv

\* A step of one job, which leaves the others alone.
LEMMA OneJob ==
    ASSUME HistoricalInv, newest' = newest, NEW j \in 1 .. Requests, NEW r,
           SetJob(j, r), JobInv(r)
    PROVE  HistoricalInv'
<1>1. jobs' = [jobs EXCEPT ![j] = r]
  BY DEF SetJob
<1>2. DOMAIN jobs = 1 .. Requests /\ \A i \in 1 .. Requests : JobInv(jobs[i])
  BY DEF HistoricalInv
<1>3. DOMAIN jobs' = 1 .. Requests
  BY <1>1, <1>2
<1>4. \A i \in 1 .. Requests : jobs'[i] = IF i = j THEN r ELSE jobs[i]
  BY <1>1, <1>2
<1>5. \A i \in 1 .. Requests : JobInv(jobs'[i])
  BY <1>2, <1>4
<1>6. newest' \in Nat
  BY DEF HistoricalInv
<1> QED
  BY <1>3, <1>5, <1>6 DEF HistoricalInv

\* Every step keeps the invariant.
LEMMA HistoricalStepKeeps == HistoricalInv /\ [HistoricalNext]_historicalVars => HistoricalInv'
<1> SUFFICES ASSUME HistoricalInv, [HistoricalNext]_historicalVars PROVE HistoricalInv'
  OBVIOUS
<1>1. ASSUME newest' \in Nat, jobs' = jobs PROVE HistoricalInv'
  <2>1. /\ DOMAIN jobs = 1 .. Requests
        /\ \A i \in 1 .. Requests : JobInv(jobs[i])
    BY DEF HistoricalInv
  <2>2. \A i \in 1 .. Requests : JobInv(jobs'[i])
    BY <1>1, <2>1
  <2> QED
    BY <1>1, <2>1, <2>2 DEF HistoricalInv
<1>2. newest \in Nat
  BY DEF HistoricalInv
<1>3. CASE UNCHANGED historicalVars
  BY <1>1, <1>2, <1>3 DEF historicalVars
<1>4. CASE Transact
  BY <1>1, <1>2, <1>4 DEF Transact
<1>5. CASE AddRequest \/ QuitRequest
  BY <1>1, <1>2, <1>5 DEF AddRequest, QuitRequest
<1>6. ASSUME NEW j \in 1 .. Requests,
             \/ \E ok \in BOOLEAN : FindRecent(j, ok)
             \/ FoundRecent(j) \/ Page(j) \/ PageError(j)
             \/ \E good \in SUBSET ToSet(jobs[j].sigs), e \in BOOLEAN : Fetch(j, good, e)
      PROVE  HistoricalInv'
  <2>1. PICK r : r = jobs[j]
    OBVIOUS
  <2>2. JobInv(r)
    BY <2>1 DEF HistoricalInv
  <2>3. ASSUME NEW ok \in BOOLEAN, FindRecent(j, ok) PROVE HistoricalInv'
    <3>1. PICK f : f = IF ok /\ newest > 0 THEN newest ELSE r.found
      OBVIOUS
    <3>2. f \in Nat
      BY <1>2, <2>2, <3>1 DEF JobInv, JobType
    <3>3. PICK r2 : r2 = [r EXCEPT !.tries = @ + 1, !.found = f]
      OBVIOUS
    <3>4. r.pc = "recent" /\ SetJob(j, r2) /\ newest' = newest
      BY <2>1, <2>3, <3>1, <3>3 DEF FindRecent
    <3>5. JobInv(r2)
      BY <2>2, <3>2, <3>3, <3>4, FindKeepsJob
    <3> QED
      BY <3>4, <3>5, OneJob
  <2>4. CASE FoundRecent(j)
    <3>1. PICK r2 : r2 = [r EXCEPT !.pc = IF r.found = 0 THEN "error" ELSE "page",
                                   !.last = r.found]
      OBVIOUS
    <3>2. r.pc = "recent" /\ SetJob(j, r2) /\ newest' = newest
      BY <2>1, <2>4, <3>1 DEF FoundRecent
    <3>3. JobInv(r2)
      BY <2>2, <3>1, <3>2, FoundKeepsJob
    <3> QED
      BY <3>2, <3>3, OneJob
  <2>5. CASE Page(j)
    <3>1. PICK r2 : r2 = [r EXCEPT !.left = @ - Query(r), !.sigs = @ \o Answer(r),
                                   !.last = IF Answer(r) = <<>> THEN @ ELSE Last(Answer(r))]
      OBVIOUS
    <3>2. r.pc = "page" /\ r.left > 0 /\ SetJob(j, r2) /\ newest' = newest
      BY <2>1, <2>5, <3>1 DEF Page
    <3>3. JobInv(r2)
      BY <2>2, <3>1, <3>2, PageKeepsJob
    <3> QED
      BY <3>2, <3>3, OneJob
  <2>6. CASE PageError(j)
    <3>1. PICK r2 : r2 = [r EXCEPT !.left = @ - Query(r), !.failed = TRUE]
      OBVIOUS
    <3>2. r.pc = "page" /\ r.left > 0 /\ SetJob(j, r2) /\ newest' = newest
      BY <2>1, <2>6, <3>1 DEF PageError
    <3>3. JobInv(r2)
      BY <2>2, <3>1, <3>2, PageErrorKeepsJob
    <3> QED
      BY <3>2, <3>3, OneJob
  <2>7. ASSUME NEW good \in SUBSET ToSet(jobs[j].sigs), NEW e \in BOOLEAN, Fetch(j, good, e)
        PROVE  HistoricalInv'
    <3>1. PICK o : r.pc = "page" /\ SetJob(j, [r EXCEPT !.pc = "done", !.out = o])
                   /\ newest' = newest
      BY <2>1, <2>7, Zenon DEF Fetch
    <3>2. PICK r2 : r2 = [r EXCEPT !.pc = "done", !.out = o]
      OBVIOUS
    <3>3. JobInv(r2)
      BY <2>2, <3>1, <3>2, FetchKeepsJob
    <3> QED
      BY <3>1, <3>2, <3>3, OneJob
  <2> QED
    BY <1>6, <2>3, <2>4, <2>5, <2>6, <2>7
<1> QED
  BY <1>3, <1>4, <1>5, <1>6 DEF HistoricalNext

\* The invariant gives the property: what was paged is a stretch of the account's
\* signatures without a gap.
LEMMA JobsJoin == HistoricalInv => PagesJoin
<1> SUFFICES ASSUME HistoricalInv PROVE PagesJoin
  OBVIOUS
<1> SUFFICES ASSUME NEW j \in 1 .. Requests, NEW r, r = jobs[j]
             PROVE  /\ \A i, k \in DOMAIN r.sigs : i < k => r.sigs[i] > r.sigs[k]
                    /\ r.sigs # <<>> =>
                          ToSet(r.sigs) = {s \in Last(r.sigs) .. r.found - 1 : ~Skipped(s)}
                    /\ r.pc = "done" /\ r.left = 0 /\ ~r.failed
                         /\ ~(\E s \in 1 .. r.found - 1 : Skipped(s)) =>
                          Len(r.sigs) = Min({Wanted, r.found - 1})
  BY DEF PagesJoin
<1>1. JobInv(r)
  BY DEF HistoricalInv
<1>2. PICK q \in Seq(Nat) : q = r.sigs
  BY <1>1 DEF JobInv, JobType
<1>3. DOMAIN q = 1 .. Len(q) /\ Len(q) \in Nat
  OBVIOUS
<1>4. r.found \in Nat /\ r.last \in Nat /\ Wanted \in Nat
  BY <1>1, HistoricalAssumption DEF JobInv, JobType
<1>5. CASE r.pc \in {"recent", "error"}
  <2>1. q = <<>> /\ r.pc # "done"
    BY <1>1, <1>2, <1>5 DEF JobInv
  <2>2. \A i, k \in DOMAIN q : i < k => q[i] > q[k]
    BY <1>3, <2>1
  <2> QED
    BY <1>2, <2>1, <2>2
<1>6. CASE r.pc \in {"page", "done"}
  <2>1. Joined(q, r.last, r.found) /\ 1 <= r.last /\ r.last <= r.found
    BY <1>1, <1>2, <1>6 DEF JobInv
  <2>2. \A i, k \in DOMAIN q : i < k => q[i] > q[k]
    BY <1>3, <2>1 DEF Joined, Descending
  <2>3. q # <<>> => ToSet(q) = {s \in Last(q) .. r.found - 1 : ~Skipped(s)}
    <3> SUFFICES ASSUME q # <<>> PROVE ToSet(q) = {s \in Last(q) .. r.found - 1 : ~Skipped(s)}
      OBVIOUS
    <3>1. Last(q) = r.last
      BY <2>1 DEF Last, Joined
    <3>2. \A s \in Nat : s \in ToSet(q) <=> r.last <= s /\ s < r.found /\ ~Skipped(s)
      BY <1>3, <2>1 DEF ToSet, Lists, Joined
    <3>3. ToSet(q) \subseteq Nat
      BY <1>3 DEF ToSet
    <3>4. \A s : s \in r.last .. r.found - 1 <=> s \in Nat /\ r.last <= s /\ s < r.found
      BY <1>4
    <3> QED
      BY <3>1, <3>2, <3>3, <3>4
  <2>4. ASSUME r.pc = "done", r.left = 0, ~r.failed, ~(\E s \in 1 .. r.found - 1 : Skipped(s))
        PROVE  Len(q) = Min({Wanted, r.found - 1})
    <3>1. Counted(Len(q), Wanted - 0, r.last, r.found)
      BY <1>1, <1>2, <2>4 DEF JobInv, NoneSkipped
    <3>2. Wanted - 0 = Wanted /\ r.found - 1 \in Nat
      BY <1>4, <2>1
    <3>3. Min({Wanted, r.found - 1}) = IF Wanted <= r.found - 1 THEN Wanted ELSE r.found - 1
      BY <1>4, <3>2, MinTwo
    <3> QED
      BY <3>1, <3>2, <3>3 DEF Counted
  <2> QED
    BY <1>2, <2>2, <2>3, <2>4
<1> QED
  BY <1>1, <1>5, <1>6 DEF JobInv, JobType

\* The pages of every request join without a gap or an overlap, newest first,
\* whichever page requests fail and whenever Quit comes; and a request that ends
\* undisturbed has as many signatures as it wants or as there are.
THEOREM HistoryJoins == HistoricalSpec => []PagesJoin
BY HistoricalInitial, HistoricalStepKeeps, JobsJoin, PTL DEF HistoricalSpec
=============================================================================
