---------------------------- MODULE WorldTimeline ----------------------------
(***************************************************************************)
(* What the narrative service promises of one open world: a timeline to    *)
(* which each idempotency key is appended at most once, whose newest turn  *)
(* is projected into memory before the next turn or the next source        *)
(* chapter is admitted.  Nothing is ever taken back.                       *)
(***************************************************************************)
EXTENDS Integers, Sequences

CONSTANTS TurnIds, Checkpoint

VARIABLES
    timeline,  \* keys of the committed turns, in turn order
    settled,   \* keys whose projection has reached a terminal status
    chapter    \* source chapter the world is extended to

Committed == {timeline[i] : i \in 1 .. Len(timeline)}

Init ==
    /\ timeline = <<>>
    /\ settled = {}
    /\ chapter = Checkpoint

Commit(t) ==
    /\ settled = Committed
    /\ t \notin Committed
    /\ timeline' = Append(timeline, t)
    /\ UNCHANGED <<settled, chapter>>

Settle(t) ==
    /\ t \in Committed \ settled
    /\ settled' = settled \cup {t}
    /\ UNCHANGED <<timeline, chapter>>

Extend ==
    /\ settled = Committed
    /\ chapter' = chapter + 1
    /\ UNCHANGED <<timeline, settled>>

Next == (\E t \in TurnIds : Commit(t) \/ Settle(t)) \/ Extend

Spec == Init /\ [][Next]_<<timeline, settled, chapter>>
==============================================================================
