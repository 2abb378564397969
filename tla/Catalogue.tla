------------------------------- MODULE Catalogue -------------------------------
(***************************************************************************)
(* What the novel service promises of its imports.  A batch of uploads is  *)
(* accepted as a whole; each of its novels is tried a limited number of    *)
(* times and ends once, in the reader's hands or given up.  Before that    *)
(* its book is made once, chapters with the characters and nodes that were *)
(* found in them, and then its canon model, from that book.  What is made  *)
(* is never made again, however many attempts are still at work.           *)
(***************************************************************************)
EXTENDS Integers, FiniteSets

CONSTANTS Novel, Owner,
          Limit,   \* attempts at one novel
          Batch    \* novels in one upload

VARIABLES
    accepted,  \* novels that were uploaded
    tries,     \* attempts at each
    book,      \* the analysed text, of the novels that have one
    canon,     \* the canon model, of the novels that have one
    ready,     \* novels the reader may open
    lost       \* novels that are given up

vars == <<accepted, tries, book, canon, ready, lost>>

Open == accepted \ (ready \cup lost)

\* A book is analysed, and its model made, from the same chapters.
Whole(b) ==
    /\ b.total = b.chapters.count /\ b.total > 0
    /\ b.characters.of = b.chapters
    /\ b.nodes = b.chapters

ModelOf(b) == [of |-> b.chapters, cast |-> b.characters]

Init ==
    /\ accepted = {} /\ ready = {} /\ lost = {}
    /\ tries = [n \in Novel |-> 0]
    /\ book = [n \in {} |-> {}]
    /\ canon = [n \in {} |-> {}]

Accept(batch) ==
    /\ batch # {} /\ Cardinality(batch) <= Batch
    /\ \A m, n \in batch : Owner[m] = Owner[n]
    /\ batch \cap accepted = {}
    /\ accepted' = accepted \cup batch
    /\ UNCHANGED <<tries, book, canon, ready, lost>>

Try(n) ==
    /\ tries[n] < Limit
    /\ tries' = [tries EXCEPT ![n] = @ + 1]
    /\ UNCHANGED <<accepted, book, canon, ready, lost>>

Analyse(n) ==
    /\ n \notin DOMAIN book
    /\ DOMAIN book' = DOMAIN book \cup {n}
    /\ book' = [m \in DOMAIN book' |-> IF m = n THEN book'[n] ELSE book[m]]
    /\ Whole(book'[n])
    /\ UNCHANGED <<accepted, tries, canon, ready, lost>>

Model(n) ==
    /\ n \in DOMAIN book \ DOMAIN canon
    /\ canon' = [m \in DOMAIN canon \cup {n} |-> IF m = n THEN ModelOf(book[n]) ELSE canon[m]]
    /\ UNCHANGED <<accepted, tries, book, ready, lost>>

Finish(n) ==
    /\ n \in DOMAIN canon
    /\ ready' = ready \cup {n}
    /\ UNCHANGED <<accepted, tries, book, canon, lost>>

GiveUp(n) ==
    /\ tries[n] = Limit
    /\ lost' = lost \cup {n}
    /\ UNCHANGED <<accepted, tries, book, canon, ready>>

Next ==
    \/ \E batch \in SUBSET Novel : Accept(batch)
    \/ \E n \in Open : Try(n) \/ Analyse(n) \/ Model(n) \/ Finish(n) \/ GiveUp(n)

Spec == Init /\ [][Next]_vars
================================================================================
