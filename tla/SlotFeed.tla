----------------------------- MODULE SlotFeed -----------------------------
(***************************************************************************)
(* Slot notifications (wire/rpc/poll_slots.rs): one task polls the node    *)
(* for its slot, the other passes new slots on and counts an estimate      *)
(* forward while none arrives.  The notifications go through a bounded     *)
(* broadcast channel.                                                      *)
(***************************************************************************)
EXTENDS Naturals, Sequences

CONSTANTS
    MaxSlot,        \* bound: the last slot of the chain
    MaxPollErrors,  \* errors in a row before the poller gives up, 10 in the code
    MaxAhead,       \* how far the estimate may run ahead, 32 in the code
    SlotCapacity,       \* of the broadcast channel
    Receivers       \* who holds a receiver of it

ASSUME FeedAssumption ==
    /\ MaxSlot \in Nat /\ MaxPollErrors \in Nat /\ MaxAhead \in Nat
    /\ SlotCapacity \in Nat \ {0}

VARIABLES
    chain,      \* the slot that the node would answer with (external)
    poller,     \* poll_commitment_slots: running, last_slot, errors
    updates,    \* channel from the poller to the notifier
    notifier,   \* the second task: where it stands, current_slot, estimated_slot
    inbox,      \* notifications a receiver has still to see
    lagged,     \* receivers that lost notifications since they last looked
    listening,  \* receivers that have not been dropped
    sent,       \* the last notification
    exit        \* the exit signal

feedVars == <<chain, poller, updates, notifier, inbox, lagged, listening, sent, exit>>

Slots == 0 .. MaxSlot
Note(p, e) == [processed |-> p, estimated |-> e]

FeedInit ==
    /\ chain = 0
    /\ poller = [run |-> TRUE, last |-> 0, errors |-> 0]
    /\ updates = <<>>
    /\ notifier = [pc |-> "start", current |-> 0, estimated |-> 0]
    /\ inbox = [r \in Receivers |-> <<>>]
    /\ lagged = {} /\ listening = Receivers
    /\ sent = Note(0, 0) /\ exit = FALSE

-----------------------------------------------------------------------------

NewSlot ==
    /\ chain < MaxSlot
    /\ chain' = chain + 1
    /\ UNCHANGED <<poller, updates, notifier, inbox, lagged, listening, sent, exit>>

\* A slot is passed on once; an error after the notifier has gone ends the task.
PollSlot ==
    /\ poller.run /\ ~exit
    /\ IF chain > poller.last
       THEN IF notifier.pc = "ended"
            THEN poller' = [poller EXCEPT !.run = FALSE] /\ UNCHANGED updates
            ELSE /\ poller' = [poller EXCEPT !.last = chain, !.errors = 0]
                 /\ updates' = Append(updates, chain)
       ELSE poller' = [poller EXCEPT !.errors = 0] /\ UNCHANGED updates
    /\ UNCHANGED <<chain, notifier, inbox, lagged, listening, sent, exit>>

PollSlotError ==
    /\ poller.run /\ ~exit
    /\ poller' = [poller EXCEPT !.errors = @ + 1, !.run = poller.errors < MaxPollErrors]
    /\ UNCHANGED <<chain, updates, notifier, inbox, lagged, listening, sent, exit>>

StopPoller ==
    /\ poller.run /\ exit
    /\ poller' = [poller EXCEPT !.run = FALSE]
    /\ UNCHANGED <<chain, updates, notifier, inbox, lagged, listening, sent, exit>>

-----------------------------------------------------------------------------

\* The first slot is asked for at the confirmed commitment, behind the chain.
StartNotifier(slot) ==
    /\ notifier.pc = "start"
    /\ slot <= chain
    /\ notifier' = [pc |-> "run", current |-> slot, estimated |-> slot]
    /\ UNCHANGED <<chain, poller, updates, inbox, lagged, listening, sent, exit>>

EndNotifier ==
    /\ \/ notifier.pc = "start"                                 \* request failed
       \/ notifier.pc = "run" /\ (exit \/ (updates = <<>> /\ ~poller.run))
    /\ notifier' = [notifier EXCEPT !.pc = "ended"]
    /\ UNCHANGED <<chain, poller, updates, inbox, lagged, listening, sent, exit>>

\* A full channel forgets the oldest notification of a receiver that is behind;
\* without receivers the send fails and the task ends.
Broadcast(current, estimated) ==
    /\ notifier' = [pc |-> IF listening = {} THEN "ended" ELSE "run",
                    current |-> current, estimated |-> estimated]
    /\ IF listening = {}
       THEN UNCHANGED <<inbox, lagged, sent>>
       ELSE /\ sent' = Note(current, estimated)
            /\ inbox' = [r \in Receivers |->
                   IF r \notin listening THEN <<>>
                   ELSE LET all == Append(inbox[r], Note(current, estimated))
                        IN  IF Len(all) > SlotCapacity THEN Tail(all) ELSE all]
            /\ lagged' = lagged \cup {r \in listening : Len(inbox[r]) = SlotCapacity}

\* Mutant: the estimate is set back to the slot that arrived.
SlotUpdateSetsBack ==
    /\ notifier.pc = "run" /\ ~exit /\ updates # <<>>
    /\ updates' = Tail(updates)
    /\ IF Head(updates) > notifier.current
       THEN Broadcast(Head(updates), Head(updates))
       ELSE UNCHANGED <<notifier, inbox, lagged, sent>>
    /\ UNCHANGED <<chain, poller, listening, exit>>

SlotUpdate ==
    LET slot == Head(updates)
        estimated == IF slot > notifier.estimated THEN slot ELSE notifier.estimated
    IN
    /\ notifier.pc = "run" /\ ~exit /\ updates # <<>>
    /\ updates' = Tail(updates)
    /\ IF slot > notifier.current
       THEN Broadcast(slot, estimated)
       ELSE UNCHANGED <<notifier, inbox, lagged, sent>>
    /\ UNCHANGED <<chain, poller, listening, exit>>

\* No update for the average time of a slot.
SlotTimeout ==
    /\ notifier.pc = "run" /\ ~exit
    /\ notifier.estimated < notifier.current + MaxAhead
    /\ Broadcast(notifier.current, notifier.estimated + 1)
    /\ UNCHANGED <<chain, poller, updates, listening, exit>>

\* notify_shutdown
Shutdown ==
    /\ ~exit
    /\ exit' = TRUE
    /\ UNCHANGED <<chain, poller, updates, notifier, inbox, lagged, listening, sent>>

\* A receiver takes its next notification, or learns that it lagged behind.
Received(r) ==
    /\ r \in listening /\ r \notin lagged /\ inbox[r] # <<>>
    /\ inbox' = [inbox EXCEPT ![r] = Tail(@)]
    /\ UNCHANGED <<chain, poller, updates, notifier, lagged, sent, exit>>

Lagged(r) ==
    /\ r \in listening \cap lagged
    /\ lagged' = lagged \ {r}
    /\ UNCHANGED <<chain, poller, updates, notifier, inbox, sent, exit>>

Closed(r) ==
    /\ r \in listening /\ r \notin lagged
    /\ inbox[r] = <<>> /\ notifier.pc = "ended"
    /\ UNCHANGED <<chain, poller, updates, notifier, inbox, lagged, sent, exit>>

FeedStep ==
    \/ NewSlot \/ PollSlot \/ PollSlotError \/ StopPoller
    \/ (\E slot \in Slots : StartNotifier(slot)) \/ EndNotifier
    \/ SlotUpdate \/ SlotTimeout \/ Shutdown

-----------------------------------------------------------------------------

\* Notifications never go back: neither the processed slot nor the estimate,
\* whichever of timeouts and updates comes first, and the estimate stays within
\* MaxAhead of a slot that the chain has reached.
NotificationsAdvance ==
    [][/\ sent'.processed >= sent.processed /\ sent'.estimated >= sent.estimated
       /\ sent'.processed <= chain
       /\ sent'.estimated \in sent'.processed .. sent'.processed + MaxAhead]_sent
=============================================================================
