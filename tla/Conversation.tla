----------------------------- MODULE Conversation -----------------------------
(***************************************************************************)
(* What the agent service promises of the chat of one scope: one growing   *)
(* conversation.  A turn is answered once, in view of exactly the turns    *)
(* answered before it; turns under the reader's own identity are numbered  *)
(* in that order without gaps; the client is told nothing but these        *)
(* answers, having reached the chapter they were written for; and a key    *)
(* that is closed is never answered.                                       *)
(***************************************************************************)
EXTENDS Integers, FiniteSets

CONSTANTS TurnIds, Messages, Chapters,
          Answers   \* records whose field saw holds the turns an answer was made in view of

VARIABLES
    content,  \* of every answered key, what was said
    closed,   \* keys that are given up
    told      \* final answers the client was given

Answered == DOMAIN content

Own == {t \in Answered : content[t].self}

Contents == [message : Messages, chapter : Chapters, self : BOOLEAN, sequence : Nat,
             answer : Answers]

Final(t, said, chapter) ==
    [id |-> t, message |-> said.message, chapter |-> chapter, answer |-> said.answer]

Init ==
    /\ content = [t \in {} |-> {}]
    /\ closed = {}
    /\ told = {}

\* Whatever is said in the turn; the acknowledgement may be lost, and then the client
\* is told nothing.
Reply(t) ==
    /\ Answered' = Answered \cup {t}
    /\ content' = [u \in Answered' |-> IF u = t THEN content'[t] ELSE content[u]]
    /\ LET said == content'[t]
       IN  /\ said \in Contents
           /\ said.answer.saw = Answered
           /\ said.sequence = IF said.self THEN Cardinality(Own) + 1 ELSE 0
           /\ told' = told \/ told' = told \cup {Final(t, said, said.chapter)}
    /\ UNCHANGED closed

Repeat(t, chapter) ==
    /\ content[t].chapter <= chapter
    /\ told' = told \cup {Final(t, content[t], chapter)}
    /\ UNCHANGED <<content, closed>>

Close(t) ==
    /\ closed' = closed \cup {t}
    /\ UNCHANGED <<content, told>>

Next ==
    \/ \E t \in TurnIds \ (Answered \cup closed) : Reply(t) \/ Close(t)
    \/ \E t \in Answered, chapter \in Chapters : Repeat(t, chapter)

Spec == Init /\ [][Next]_<<content, closed, told>>
==============================================================================
