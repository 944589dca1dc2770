---------------------------- MODULE SlotLeaders ----------------------------
(***************************************************************************)
(* The leader tracker (wire/rpc/poll_slot_leaders.rs): the slot it is at,  *)
(* which follows the slot notifications, and the leaders of the slots      *)
(* ahead, which a second task asks for from time to time.  The sending     *)
(* task of the transaction service reads both, through get_leaders.  The   *)
(* map of leaders is written and read entry by entry.                      *)
(***************************************************************************)
EXTENDS SlotFeed

CONSTANTS
    LeaderOf,       \* leader schedule of the chain
    Unlisted,       \* leaders that the cluster nodes' list may lack
    Offset,         \* leader_offset times NUM_SLOTS_PER_LEADER; every caller has 0
    NumLeaders,     \* leaders to forward to
    SlotsPerLeader, \* NUM_SLOTS_PER_LEADER, 4 in the code
    Window          \* slots asked for ahead, 1000 in the code

\* A negative offset is left out.
ASSUME LeadersAssumption ==
    /\ "leaders" \in Receivers
    /\ Offset \in Nat /\ NumLeaders \in Nat \ {0} /\ SlotsPerLeader \in Nat \ {0}
    /\ Window \in Nat
    /\ MaxSlot + 2 * Offset + Window \in Nat

VARIABLES
    slotUpdate,     \* slot_update
    leaders,        \* slots in current_leaders
    asking,         \* where get_leaders_for_slot stands
    asked,          \* slot that its request starts from
    mark,           \* slot it enters next, then slot before which it cleans up
    covered,        \* first slot beyond those entered
    lags,           \* times the tracker lagged behind
    look            \* get_leaders: start_slot, next slot, and slots of the leaders found

leaderVars == <<slotUpdate, leaders, asking, asked, mark, covered, lags, look>>

StartSlot(slot) == slot + Offset

HasContact(s) == LeaderOf[s] \notin Unlisted

NoLook == [run |-> FALSE, from |-> 0, at |-> 0, found |-> <<>>, covered |-> 0]

\* bootstrap_leader_tracker_tasks asks once before the tasks start.
LeadersInit ==
    /\ slotUpdate = StartSlot(0)
    /\ leaders = {s \in StartSlot(0) .. StartSlot(0) + Window - 1 : HasContact(s)}
    /\ asking = "idle" /\ asked = StartSlot(0) /\ mark = 0
    /\ covered = StartSlot(0) + Window /\ lags = 0 /\ look = NoLook

-----------------------------------------------------------------------------
(* The task that follows the notifications.                                *)

Advance(slot) == slotUpdate' = IF StartSlot(slot) > slotUpdate THEN StartSlot(slot) ELSE slotUpdate

TrackSlot ==
    /\ Received("leaders")
    /\ Advance(inbox["leaders"][1].processed)
    /\ UNCHANGED <<listening, leaders, asking, asked, mark, covered, lags, look>>

\* After a lag the offset is applied to the slot that has it already.
TrackLag ==
    /\ Lagged("leaders")
    /\ Advance(slotUpdate)
    /\ lags' = lags + 1
    /\ UNCHANGED <<listening, leaders, asking, asked, mark, covered, look>>

TrackClosed ==
    /\ Closed("leaders")
    /\ listening' = listening \ {"leaders"}
    /\ UNCHANGED leaderVars

-----------------------------------------------------------------------------
(* get_leaders_for_slot.                                                   *)

AskLeaders ==
    /\ asking = "idle"
    /\ asking' = "ask" /\ asked' = slotUpdate
    /\ UNCHANGED <<feedVars, slotUpdate, leaders, mark, covered, lags, look>>

AskError ==
    /\ asking = "ask"
    /\ asking' = "idle"
    /\ UNCHANGED <<feedVars, slotUpdate, leaders, asked, mark, covered, lags, look>>

LeadersAnswered ==
    /\ asking = "ask"
    /\ asking' = "store" /\ mark' = asked
    /\ UNCHANGED <<feedVars, slotUpdate, leaders, asked, covered, lags, look>>

\* The answers are entered from the slot that was asked for.
StoreLeader ==
    /\ asking = "store" /\ mark < asked + Window
    /\ leaders' = IF HasContact(mark) THEN leaders \cup {mark} ELSE leaders
    /\ mark' = mark + 1
    /\ covered' = IF mark < covered THEN covered ELSE mark + 1
    /\ UNCHANGED <<feedVars, slotUpdate, asking, asked, lags, look>>

\* clean_up_slot_leaders looks at the slot the tracker has reached meanwhile ...
StartCleanUp ==
    /\ asking = "store" /\ mark = asked + Window
    /\ asking' = "clean" /\ mark' = slotUpdate
    /\ UNCHANGED <<feedVars, slotUpdate, leaders, asked, covered, lags, look>>

\* Mutant: the slot the tracker is at is removed as well.
CleanUpThrough ==
    /\ asking = "clean"
    /\ IF \A s \in leaders : s > mark
       THEN asking' = "idle" /\ mark' = 0 /\ UNCHANGED leaders
       ELSE /\ \E s \in leaders : s <= mark /\ leaders' = leaders \ {s}
            /\ UNCHANGED <<asking, mark>>
    /\ UNCHANGED <<feedVars, slotUpdate, asked, covered, lags, look>>

\* ... and removes the slots before it, in any order.
CleanUp ==
    /\ asking = "clean"
    /\ IF \A s \in leaders : s >= mark
       THEN asking' = "idle" /\ mark' = 0 /\ UNCHANGED leaders
       ELSE /\ \E s \in leaders : s < mark /\ leaders' = leaders \ {s}
            /\ UNCHANGED <<asking, mark>>
    /\ UNCHANGED <<feedVars, slotUpdate, asked, covered, lags, look>>

-----------------------------------------------------------------------------
(* get_leaders, called by the sending task: the next leaders in order.     *)

lookUnchanged == <<feedVars, slotUpdate, leaders, asking, asked, mark, covered, lags>>

StartLook ==
    /\ ~look.run
    /\ look' = [run |-> TRUE, from |-> slotUpdate, at |-> slotUpdate, found |-> <<>>,
                covered |-> covered]
    /\ UNCHANGED lookUnchanged

LookOn == /\ look.at < look.from + NumLeaders * SlotsPerLeader
          /\ Len(look.found) < NumLeaders

Known(leader) == \E i \in 1 .. Len(look.found) : LeaderOf[look.found[i]] = leader

\* A leader that was found already keeps its place.
LookAtSlot ==
    /\ look.run /\ LookOn
    /\ look' = [look EXCEPT !.at = @ + 1,
                            !.found = IF look.at \in leaders /\ ~Known(LeaderOf[look.at])
                                      THEN Append(@, look.at) ELSE @]
    /\ UNCHANGED lookUnchanged

EndLook ==
    /\ look.run /\ ~LookOn
    /\ look' = NoLook
    /\ UNCHANGED lookUnchanged

LeadersStep ==
    \/ TrackSlot \/ TrackLag \/ TrackClosed
    \/ AskLeaders \/ AskError \/ LeadersAnswered \/ StoreLeader \/ StartCleanUp \/ CleanUp
    \/ StartLook \/ LookAtSlot \/ EndLook

-----------------------------------------------------------------------------

\* Of the slots that were entered, none that is still to come is missing, though
\* entries are added and removed one by one while the tracker moves on.  The tracker
\* is never ahead of the chain by more than the configured offset, once for the
\* notifications and once more for each lag.
WindowKept ==
    /\ {s \in leaders : s >= slotUpdate} = {s \in slotUpdate .. covered - 1 : HasContact(s)}
    /\ slotUpdate <= StartSlot(chain) + lags * Offset

\* The window of leaders is right at every moment, and so is what a reader has found
\* of it while the entries change under its hands: the leaders are in the order of
\* their slots, none is there twice, and of the slots it has passed none is missing
\* that was entered when it began and is still to come.
LeaderWindow ==
    /\ WindowKept
    /\ \A i, j \in 1 .. Len(look.found) :
          i < j => /\ look.found[i] < look.found[j]
                   /\ LeaderOf[look.found[i]] # LeaderOf[look.found[j]]
    /\ \A s \in look.from .. look.at - 1 :
          s >= slotUpdate /\ s < look.covered /\ HasContact(s) =>
              \E i \in 1 .. Len(look.found) :
                 look.found[i] <= s /\ LeaderOf[look.found[i]] = LeaderOf[s]
=============================================================================
