------------------------------ MODULE MCChatTurn ------------------------------
(***************************************************************************)
(* Small instances of ChatTurn.                                            *)
(***************************************************************************)
EXTENDS ChatTurn, TLC

CONSTANTS t1, t2, w1, w2, hello, bye

MCTurnIds == {t1, t2}
MCWorkers == {w1, w2}

Symmetric == Permutations(MCTurnIds) \cup Permutations(MCWorkers)

\* What varies between requests: their keys, their messages, the reader's chapter or
\* the world's revision.  Two processes race over one of these at a time; only two
\* keys are followed into the second round of begin_turn's loops, as it is another
\* key that sends a request there.
OneKey ==
    \E t \in TurnIds :
        /\ \A w \in Workers : req[w].id \in {t, NoTurn}
        /\ \A u \in TurnIds \ {t} : rows[u].status = "absent"
OneMessage ==
    /\ \A w \in Workers : req[w].id # NoTurn => req[w].message = hello
    /\ \A t \in TurnIds : rows[t].status # "absent" => rows[t].message = hello
OneChapter ==
    /\ reader.chapter = 1
    /\ \A w \in Workers : req[w].chapter = 1
    /\ \A t \in TurnIds : rows[t].chapter = 1
OneRound == \A w \in Workers : req[w].tries = 0

\* Of the two keys, one is claimed again after its lease expired.
OneReclaimed == \E t \in TurnIds : rows[t].attempt <= 1

OneVariation ==
    \/ revision = 0 /\ OneChapter /\ OneMessage /\ OneReclaimed
    \/ revision = 0 /\ OneChapter /\ OneKey /\ OneRound
    \/ (revision = 0 \/ OneChapter) /\ OneMessage /\ OneKey /\ OneRound
==============================================================================
