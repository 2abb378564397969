-------------------------- MODULE BranchChoiceProofs --------------------------
(***************************************************************************)
(* The safety properties of BranchChoice for every number of chapters and  *)
(* requests.  One inductive invariant carries all four: what a submission  *)
(* has read is compared with the world when it commits, and the world says *)
(* enough about the prose.                                                 *)
(***************************************************************************)
EXTENDS BranchChoice, TLAPS

Texts == Requests \cup {Source}
Entries == {"no", "open", "admitted"}
Worlds == [player : Nat, entry : Entries, chosen : [Chapters -> Requests \cup {Nothing}]]
Steps == {"new", "existing", "replay", "prose", "choices", "continue",
          "node", "compose", "draft", "commit", "done"}

Types ==
    /\ world \in Worlds
    /\ choices \subseteq [chapter : Chapters, by : Requests, on : Texts, world : Worlds]
    /\ prose \in [Chapters -> [origin : {"none", "continuation", "choice"}, text : Texts]]
    /\ request \in [Requests -> [pc : Steps, kind : Kinds, chapter : Nat,
                                 text : Texts, world : Worlds]]

Taken(c) == world.chosen[c] # Nothing

(* The choices are what the world state says they are, and so is their prose. *)
Projected ==
    /\ \A c \in Chapters : Taken(c) <=> Chosen(c)
    /\ \A d \in choices : world.chosen[d.chapter] = d.by
    /\ \A c \in Chapters : (prose[c].origin = "choice") <=> Taken(c)
    /\ \A c \in Chapters : Taken(c) => prose[c].text = world.chosen[c]
    /\ \A c \in Chapters : ~Prose(c) => prose[c].text = Source

(* The prose starts at a choice and has no gap. *)
Contiguous ==
    \A c \in Chapters : Prose(c) =>
        /\ \E d \in Chapters : d <= c /\ Taken(d)
        /\ \A d, b \in Chapters : Taken(d) /\ d <= b /\ b <= c => Prose(b)

(* A handler works on a chapter; a submission remembers choices that are   *)
(* still there, and began before the entry.                                *)
Remembers(r) ==
    LET q == request[r] IN
    /\ q.pc \notin {"new", "done"} => q.chapter \in Chapters
    /\ q.pc \notin {"new", "done"} /\ q.kind = "submit" =>
          \A c \in Chapters : q.world.chosen[c] # Nothing => world.chosen[c] = q.world.chosen[c]
    /\ q.pc = "continue" =>
          /\ \E d \in Chapters : d <= q.chapter /\ Taken(d)
          /\ Follows(q.chapter)

(* While the choices a submission has read are all there are, its text is  *)
(* the one its chapter has.                                                *)
Based(r) ==
    LET q == request[r] IN
    q.pc \in {"draft", "commit"} /\ world.chosen = q.world.chosen /\ world.entry = "no" =>
        /\ q.text = prose[q.chapter].text
        /\ ~Prose(q.chapter) => \A d \in Chapters : d <= q.chapter => ~Taken(d)

Drafting(r) == request[r].pc \in {"draft", "commit"} => request[r].kind = "submit"

Timeline ==
    /\ Types
    /\ Projected
    /\ Contiguous
    /\ ChosenOnItsPast
    /\ \A r \in Requests : Remembers(r) /\ Based(r) /\ Drafting(r)

LEMMA TimelineInit == Init => Timeline
  <1> SUFFICES ASSUME Init PROVE Timeline
    OBVIOUS
  <1>1. NoWorld \in Worlds /\ world \in Worlds /\ world.chosen = [c \in Chapters |-> Nothing]
    BY DEF Init, NoWorld, Worlds, Entries, NoPlayer, Chapters
  <1>2. Unserved \in [pc : Steps, kind : Kinds, chapter : Nat, text : Texts, world : Worlds]
    BY <1>1 DEF Unserved, Steps, Kinds, Texts
  <1>3. Types
    BY <1>1, <1>2 DEF Init, Types, NoProse, Texts
  <1>4. \A c \in Chapters : ~Taken(c) /\ ~Chosen(c) /\ ~Prose(c) /\ prose[c] = NoProse
    BY <1>1 DEF Init, Taken, Chosen, Prose, NoProse
  <1>5. Projected /\ Contiguous /\ ChosenOnItsPast
    BY <1>4 DEF Init, Projected, Contiguous, ChosenOnItsPast, NoProse
  <1>6. ASSUME NEW r \in Requests PROVE request[r].pc = "new"
    BY <1>6 DEF Init, Unserved
  <1> QED BY <1>3, <1>5, <1>6 DEF Timeline, Remembers, Based, Drafting

(* Handlers that read: the tables stay, and one request moves on. *)
LEMMA ReadersKeep ==
  ASSUME Timeline, NEW r \in Requests, UNCHANGED <<world, choices, prose>>,
         NEW q \in [pc : Steps, kind : Kinds, chapter : Nat, text : Texts, world : Worlds],
         request' = [request EXCEPT ![r] = q],
         (Remembers(r) /\ Based(r) /\ Drafting(r))'
  PROVE  Timeline'
  <1>1. Types'
    BY DEF Timeline, Types
  <1>2. Projected' /\ Contiguous' /\ ChosenOnItsPast'
    BY DEF Timeline, Projected, Contiguous, ChosenOnItsPast, Taken, Chosen, Prose
  <1>3. ASSUME NEW i \in Requests PROVE (Remembers(i) /\ Based(i) /\ Drafting(i))'
    <2>1. CASE i = r
      BY <2>1
    <2>2. CASE i # r
      <3>1. request'[i] = request[i]
        BY <2>2 DEF Timeline, Types
      <3> QED
        BY <3>1 DEF Timeline, Remembers, Based, Drafting, Taken, Prose, Follows
    <2> QED BY <2>1, <2>2
  <1> QED BY <1>1, <1>2, <1>3 DEF Timeline

Records == [pc : Steps, kind : Kinds, chapter : Nat, text : Texts, world : Worlds]

(* A handler that leaves owes nothing. *)
LEMMA LeavesTyped ==
  ASSUME Types, NEW r \in Requests, Leaves(r)
  PROVE  \E q \in Records : /\ request' = [request EXCEPT ![r] = q] /\ request'[r] = q
                            /\ q.pc = "done"
  <1> DEFINE q == [Unserved EXCEPT !.pc = "done"]
  <1>1. Unserved \in Records
    BY DEF Unserved, Records, NoWorld, Worlds, Entries, NoPlayer, Steps, Kinds, Texts
  <1>2. q \in Records /\ q.pc = "done"
    BY <1>1 DEF Records, Steps
  <1>3. request' = [request EXCEPT ![r] = q]
    BY DEF Leaves
  <1>4. request'[r] = q
    BY <1>3 DEF Types
  <1> HIDE DEF q
  <1> QED BY <1>2, <1>3, <1>4

LEMMA LeaversKeep ==
  ASSUME Timeline, NEW r \in Requests, UNCHANGED <<world, choices, prose>>, Leaves(r)
  PROVE  Timeline'
  <1>1. PICK q \in Records : /\ request' = [request EXCEPT ![r] = q] /\ request'[r] = q
                             /\ q.pc = "done"
    BY LeavesTyped DEF Timeline
  <1>2. (Remembers(r) /\ Based(r) /\ Drafting(r))'
    BY <1>1 DEF Remembers, Based, Drafting
  <1> QED BY <1>1, <1>2, ReadersKeep DEF Records

(* A request that moves on: what must be known at the label it reaches. *)
LEMMA MoversKeep ==
  ASSUME Timeline, NEW r \in Requests, UNCHANGED <<world, choices, prose>>,
         NEW pc \in Steps, NEW text \in Texts,
         request' = [request EXCEPT ![r].text = text, ![r].pc = pc],
         request[r].pc \notin {"new", "done"},
         pc = "continue" => /\ \E d \in Chapters : d <= request[r].chapter /\ Taken(d)
                            /\ Follows(request[r].chapter),
         pc \in {"draft", "commit"} => request[r].kind = "submit",
         pc \in {"draft", "commit"} /\ world.chosen = request[r].world.chosen
           /\ world.entry = "no" =>
            /\ text = prose[request[r].chapter].text
            /\ ~Prose(request[r].chapter) =>
                  \A d \in Chapters : d <= request[r].chapter => ~Taken(d)
  PROVE  Timeline'
  <1> DEFINE q == [request[r] EXCEPT !.text = text, !.pc = pc]
  <1>1. request[r] \in Records
    BY DEF Timeline, Types, Records
  <1>2. /\ q \in Records /\ q.pc = pc /\ q.text = text /\ q.kind = request[r].kind
        /\ q.chapter = request[r].chapter /\ q.world = request[r].world
    BY <1>1 DEF Records
  <1>3. request' = [request EXCEPT ![r] = q]
    BY <1>1 DEF Records
  <1>4. request'[r] = q
    BY <1>3 DEF Timeline, Types
  <1> HIDE DEF q
  <1>5. Remembers(r)
    BY DEF Timeline
  <1>6. Remembers(r)'
    BY <1>2, <1>4, <1>5 DEF Remembers, Taken, Follows, Prose
  <1>7. Based(r)' /\ Drafting(r)'
    BY <1>2, <1>4 DEF Based, Drafting, Taken, Prose
  <1> QED BY <1>2, <1>3, <1>6, <1>7, ReadersKeep DEF Records

LEMMA GotoKeeps ==
  ASSUME Timeline, NEW r \in Requests, UNCHANGED <<world, choices, prose>>,
         NEW pc \in Steps, Goto(r, pc), request[r].pc \notin {"new", "done"},
         pc = "continue" => /\ \E d \in Chapters : d <= request[r].chapter /\ Taken(d)
                            /\ Follows(request[r].chapter),
         pc # "draft", pc = "commit" => request[r].pc = "draft"
  PROVE  Timeline'
  <1>1. request[r] \in Records
    BY DEF Timeline, Types, Records
  <1>2. request[r].text \in Texts
    BY <1>1 DEF Records
  <1>3. request' = [request EXCEPT ![r].text = request[r].text, ![r].pc = pc]
    BY <1>1 DEF Goto, Records
  <1>4. Based(r) /\ Drafting(r)
    BY DEF Timeline
  <1>5. pc \in {"draft", "commit"} => request[r].kind = "submit"
    BY <1>4 DEF Drafting
  <1>6. pc \in {"draft", "commit"} /\ world.chosen = request[r].world.chosen
           /\ world.entry = "no" =>
            /\ request[r].text = prose[request[r].chapter].text
            /\ ~Prose(request[r].chapter) =>
                  \A d \in Chapters : d <= request[r].chapter => ~Taken(d)
    BY <1>4 DEF Based
  <1> QED BY <1>2, <1>3, <1>5, <1>6, MoversKeep

LEMMA Labels ==
  /\ {"replay", "prose", "choices", "continue", "node", "compose", "draft", "commit"} \subseteq Steps
  BY DEF Steps

(* A handler that has found the text of its chapter. *)
LEMMA ResolversKeep ==
  ASSUME Timeline, NEW r \in Requests, UNCHANGED <<world, choices, prose>>,
         NEW text \in Texts, Resolved(r, text), request[r].pc \notin {"new", "done"},
         world.entry = "no" =>
            /\ text = prose[request[r].chapter].text
            /\ ~Prose(request[r].chapter) =>
                  \A d \in Chapters : d <= request[r].chapter => ~Taken(d)
  PROVE  Timeline'
  <1>0. request[r].kind \in Kinds
    BY DEF Timeline, Types
  <1>1. CASE Leaves(r)
    BY <1>1, LeaversKeep
  <1>2. CASE request' = [request EXCEPT ![r].text = text, ![r].pc = "node"]
    <2>1. "node" \in Steps
      BY Labels
    <2> QED BY <1>2, <2>1, MoversKeep
  <1>3. CASE /\ request[r].kind = "submit"
             /\ request' = [request EXCEPT ![r].text = text, ![r].pc = "draft"]
    <2>1. "draft" \in Steps
      BY Labels
    <2> QED BY <1>3, <2>1, MoversKeep
  <1> QED BY <1>0, <1>1, <1>2, <1>3 DEF Resolved, Kinds

LEMMA BeginKeeps ==
  ASSUME Timeline, NEW r \in Requests, Begin(r)
  PROVE  Timeline'
  <1>0. Reads(r)
    BY DEF Begin
  <1>1. PICK kind \in Kinds, c \in Chapters :
          request' = [request EXCEPT ![r] =
             [pc |-> IF kind = "submit" THEN "existing" ELSE "prose",
              kind |-> kind, chapter |-> c, text |-> Source,
              world |-> IF kind = "read" THEN NoWorld ELSE world]]
    BY DEF Begin
  <1> DEFINE q == [pc |-> IF kind = "submit" THEN "existing" ELSE "prose",
                   kind |-> kind, chapter |-> c, text |-> Source,
                   world |-> IF kind = "read" THEN NoWorld ELSE world]
  <1>2. q \in Records
    <2>1. NoWorld \in Worlds
      BY DEF NoWorld, Worlds, Entries, NoPlayer
    <2>2. world \in Worlds /\ c \in Nat /\ Source \in Texts
      BY DEF Timeline, Types, Chapters, Texts
    <2> QED BY <2>1, <2>2 DEF Records, Steps
  <1>3. /\ q.pc \in {"existing", "prose"} /\ q.chapter = c
        /\ q.kind = kind /\ (kind = "submit" => q.world = world)
    OBVIOUS
  <1>4. request' = [request EXCEPT ![r] = q]
    BY <1>1
  <1>5. request'[r] = q
    BY <1>4 DEF Timeline, Types
  <1> HIDE DEF q
  <1>6. (Remembers(r) /\ Based(r) /\ Drafting(r))'
    BY <1>0, <1>3, <1>5 DEF Remembers, Based, Drafting, Reads
  <1> QED BY <1>0, <1>2, <1>4, <1>6, ReadersKeep DEF Records, Reads

LEMMA FindUserChoiceKeeps ==
  ASSUME Timeline, NEW r \in Requests, FindUserChoice(r)
  PROVE  Timeline'
  <1>0. UNCHANGED <<world, choices, prose>> /\ request[r].pc = "existing"
    BY DEF FindUserChoice, Reads, At
  <1>1. request[r].chapter \in Chapters
    BY <1>0 DEF Timeline, Remembers
  <1>2. CASE request' = [request EXCEPT ![r].pc = "replay",
                                        ![r].text = prose[request[r].chapter].text]
    <2> DEFINE text == prose[request[r].chapter].text
    <2>1. request' = [request EXCEPT ![r].text = text, ![r].pc = "replay"]
      BY <1>2 DEF Timeline, Types
    <2>2. text \in Texts
      BY <1>1 DEF Timeline, Types
    <2>3. "replay" \in Steps
      BY Labels
    <2> HIDE DEF text
    <2> QED BY <1>0, <2>1, <2>2, <2>3, MoversKeep
  <1>3. CASE Goto(r, "prose")
    BY <1>0, <1>3, GotoKeeps, Labels
  <1> QED BY <1>2, <1>3 DEF FindUserChoice

LEMMA FindProseKeeps ==
  ASSUME Timeline, NEW r \in Requests, FindProse(r)
  PROVE  Timeline'
  <1>0. UNCHANGED <<world, choices, prose>> /\ request[r].pc = "prose"
    BY DEF FindProse, Reads, At
  <1>1. request[r].chapter \in Chapters
    BY <1>0 DEF Timeline, Remembers
  <1>2. CASE Prose(request[r].chapter) /\ Resolved(r, prose[request[r].chapter].text)
    <2>1. prose[request[r].chapter].text \in Texts
      BY <1>1 DEF Timeline, Types
    <2> QED BY <1>0, <1>2, <2>1, ResolversKeep
  <1>3. CASE Goto(r, "choices")
    BY <1>0, <1>3, GotoKeeps, Labels
  <1> QED BY <1>2, <1>3 DEF FindProse

(* Choices up to a chapter, in either table. *)
LEMMA Diverged ==
  ASSUME Types, Projected, NEW c \in Chapters
  PROVE  (\E d \in choices : d.chapter <= c) <=> (\E d \in Chapters : d <= c /\ Taken(d))
  BY DEF Types, Projected, Chosen

LEMMA FindChoicesKeeps ==
  ASSUME Timeline, NEW r \in Requests, FindChoices(r)
  PROVE  Timeline'
  <1> DEFINE c == request[r].chapter
             diverged == \E d \in choices : d.chapter <= c
  <1>0. UNCHANGED <<world, choices, prose>> /\ request[r].pc = "choices"
    BY DEF FindChoices, Reads, At
  <1>1. c \in Chapters
    BY <1>0 DEF Timeline, Remembers
  <1>2. diverged <=> \E d \in Chapters : d <= c /\ Taken(d)
    BY <1>1, Diverged DEF Timeline
  <1>3. Prose(c) => diverged
    BY <1>1, <1>2 DEF Timeline, Contiguous
  <1>4. \/ (world.entry = "admitted" \/ ~diverged) /\ Resolved(r, Source)
        \/ Chosen(c) /\ Resolved(r, prose[c].text)
        \/ diverged /\ Follows(c) /\ Goto(r, "continue")
    BY DEF FindChoices
  <1> HIDE DEF diverged
  <1>5. CASE (world.entry = "admitted" \/ ~diverged) /\ Resolved(r, Source)
    <2>1. world.entry = "no" =>
            Source = prose[c].text /\ (\A d \in Chapters : d <= c => ~Taken(d))
      BY <1>1, <1>2, <1>3, <1>5 DEF Timeline, Projected
    <2>2. Source \in Texts
      BY DEF Texts
    <2> QED BY <1>0, <1>5, <2>1, <2>2, ResolversKeep
  <1>6. CASE Chosen(c) /\ Resolved(r, prose[c].text)
    <2>1. Prose(c)
      BY <1>1, <1>6 DEF Timeline, Projected, Prose
    <2>2. prose[c].text \in Texts
      BY <1>1 DEF Timeline, Types
    <2> QED BY <1>0, <1>6, <2>1, <2>2, ResolversKeep
  <1>7. CASE diverged /\ Follows(c) /\ Goto(r, "continue")
    BY <1>0, <1>2, <1>7, GotoKeeps, Labels
  <1> QED BY <1>4, <1>5, <1>6, <1>7

LEMMA NodesKeep ==
  ASSUME Timeline, NEW r \in Requests, FindNode(r) \/ SaveNode(r)
  PROVE  Timeline'
  <1>0. UNCHANGED <<world, choices, prose>> /\ request[r].pc \notin {"new", "done"}
    BY DEF FindNode, SaveNode, Reads, At
  <1>1. CASE Leaves(r)
    BY <1>0, <1>1, LeaversKeep
  <1>2. CASE Goto(r, "compose")
    BY <1>0, <1>2, GotoKeeps, Labels
  <1> QED BY <1>1, <1>2 DEF FindNode, SaveNode

LEMMA DraftKeeps ==
  ASSUME Timeline, NEW r \in Requests, Draft(r)
  PROVE  Timeline'
  <1>0. UNCHANGED <<world, choices, prose>> /\ request[r].pc = "draft" /\ Goto(r, "commit")
    BY DEF Draft, Reads, At
  <1> QED BY <1>0, GotoKeeps, Labels

LEMMA LeavingKeeps ==
  ASSUME Timeline, NEW r \in Requests, Ends(r) \/ ReplayChoice(r)
  PROVE  Timeline'
  BY LeaversKeep DEF Ends, ReplayChoice, Reads

(* A handler that has written the text of its chapter itself. *)
LEMMA ResolvedTyped ==
  ASSUME Timeline, NEW r \in Requests, NEW text \in Texts, Resolved(r, text)
  PROVE  \E q \in Records :
            /\ request' = [request EXCEPT ![r] = q] /\ request'[r] = q
            /\ q.pc \in {"done", "node", "draft"}
            /\ q.pc # "done" => /\ q.text = text /\ q.kind = request[r].kind
                                /\ q.chapter = request[r].chapter /\ q.world = request[r].world
            /\ q.pc = "draft" => q.kind = "submit"
  <1>0. Types /\ request[r] \in Records
    BY DEF Timeline, Types, Records
  <1>1. CASE Leaves(r)
    <2>1. PICK q \in Records : /\ request' = [request EXCEPT ![r] = q] /\ request'[r] = q
                               /\ q.pc = "done"
      BY <1>0, <1>1, LeavesTyped
    <2> QED BY <2>1
  <1>2. ASSUME NEW pc \in {"node", "draft"}, pc = "draft" => request[r].kind = "submit",
               request' = [request EXCEPT ![r].text = text, ![r].pc = pc]
        PROVE  \E q \in Records :
            /\ request' = [request EXCEPT ![r] = q] /\ request'[r] = q
            /\ q.pc \in {"done", "node", "draft"}
            /\ q.pc # "done" => /\ q.text = text /\ q.kind = request[r].kind
                                /\ q.chapter = request[r].chapter /\ q.world = request[r].world
            /\ q.pc = "draft" => q.kind = "submit"
    <2> DEFINE q == [request[r] EXCEPT !.text = text, !.pc = pc]
    <2>1. /\ q \in Records /\ q.pc = pc /\ q.text = text /\ q.kind = request[r].kind
          /\ q.chapter = request[r].chapter /\ q.world = request[r].world
      BY <1>0 DEF Records, Steps
    <2>2. request' = [request EXCEPT ![r] = q]
      BY <1>0, <1>2 DEF Records
    <2>3. request'[r] = q
      BY <1>0, <2>2 DEF Types
    <2> HIDE DEF q
    <2> QED BY <1>2, <2>1, <2>2, <2>3
  <1>3. request[r].kind \in Kinds
    BY <1>0 DEF Records
  <1>4. CASE request' = [request EXCEPT ![r].text = text, ![r].pc = "node"]
    BY <1>2, <1>4
  <1>5. CASE request[r].kind = "submit" /\ request' = [request EXCEPT ![r].text = text, ![r].pc = "draft"]
    BY <1>2, <1>5
  <1> QED BY <1>1, <1>3, <1>4, <1>5 DEF Resolved, Kinds

LEMMA GeneratePlayerChapterKeeps ==
  ASSUME Timeline, NEW r \in Requests, GeneratePlayerChapter(r)
  PROVE  Timeline'
  <1>0. Types /\ request[r].pc = "continue" /\ UNCHANGED <<world, choices>>
    BY DEF Timeline, GeneratePlayerChapter, At
  <1>c. PICK c \in Chapters : c = request[r].chapter
    BY <1>0 DEF Timeline, Remembers
  <1>1. /\ \E d \in Chapters : d <= c /\ Taken(d)
        /\ Follows(c)
    BY <1>0, <1>c DEF Timeline, Remembers
  <1>2. CASE Prose(c)
    <2>1. UNCHANGED prose /\ Resolved(r, prose[c].text)
      BY <1>0, <1>c, <1>2 DEF GeneratePlayerChapter, Saved, Prose, Types
    <2>2. prose[c].text \in Texts
      BY <1>0, <1>1 DEF Types
    <2> QED BY <1>0, <1>c, <1>2, <2>1, <2>2, ResolversKeep
  <1>3. CASE ~Prose(c)
    <2> DEFINE own == [origin |-> "continuation", text |-> r]
    <2>1. prose' = [prose EXCEPT ![c] = own] /\ Resolved(r, r)
      BY <1>c, <1>3 DEF GeneratePlayerChapter, Saved, Prose
    <2>2. r \in Texts
      BY DEF Texts
    <2>3. PICK q \in Records :
            /\ request' = [request EXCEPT ![r] = q] /\ request'[r] = q
            /\ q.pc \in {"done", "node", "draft"}
            /\ q.pc # "done" => /\ q.text = r /\ q.kind = request[r].kind
                                /\ q.chapter = request[r].chapter /\ q.world = request[r].world
            /\ q.pc = "draft" => q.kind = "submit"
      BY <2>1, <2>2, ResolvedTyped
    <2>4. Types'
      BY <1>0, <1>1, <2>1, <2>2, <2>3 DEF Types, Records
    <2>5. /\ prose'[c] = own
          /\ \A b \in Chapters : b # c => prose'[b] = prose[b]
          /\ \A b \in Chapters : Prose(b) => Prose(b)'
          /\ Prose(c)'
      BY <1>0, <1>1, <2>1 DEF Types, Prose
    <2>6. ~Taken(c)
      BY <1>1, <1>3 DEF Timeline, Projected, Prose
    <2>7. Projected' /\ ChosenOnItsPast'
      BY <1>0, <1>1, <2>5, <2>6 DEF Timeline, Projected, ChosenOnItsPast, Taken, Chosen, Prose
    <2>8. Contiguous'
      <3> SUFFICES ASSUME NEW b \in Chapters, Prose(b)'
                   PROVE  /\ \E d \in Chapters : d <= b /\ Taken(d)
                          /\ \A d, x \in Chapters : Taken(d) /\ d <= x /\ x <= b => Prose(x)'
        BY <1>0 DEF Contiguous, Taken
      <3>1. CASE b = c
        <4>1. c - 1 \in Chapters /\ Prose(c - 1)
          BY <1>1 DEF Follows
        <4>2. ASSUME NEW d \in Chapters, NEW x \in Chapters, Taken(d), d <= x, x <= c
              PROVE  Prose(x)'
          <5>1. x = c \/ (d <= x /\ x <= c - 1)
            BY <1>1, <4>2 DEF Chapters
          <5>2. x <= c - 1 => Prose(x)
            BY <4>1, <4>2 DEF Timeline, Contiguous
          <5> QED BY <2>5, <5>1, <5>2
        <4> QED BY <1>1, <3>1, <4>2
      <3>2. CASE b # c
        <4>1. Prose(b)
          BY <2>5, <3>2 DEF Prose
        <4> QED BY <2>5, <4>1 DEF Timeline, Contiguous
      <3> QED BY <3>1, <3>2
    <2>9. ASSUME NEW i \in Requests PROVE (Remembers(i) /\ Based(i) /\ Drafting(i))'
      <3>1. CASE i = r
        <4>1. Remembers(r)
          BY DEF Timeline
        <4>2. Remembers(r)'
          BY <1>0, <2>3, <4>1 DEF Remembers
        <4>3. Based(r)' /\ Drafting(r)'
          BY <1>0, <1>c, <2>3, <2>5 DEF Based, Drafting
        <4> QED BY <3>1, <4>2, <4>3
      <3>2. CASE i # r
        <4>1. request'[i] = request[i]
          BY <1>0, <2>3, <3>2 DEF Types
        <4>2. Remembers(i) /\ Based(i) /\ Drafting(i)
          BY DEF Timeline
        <4>3. Remembers(i)' /\ Drafting(i)'
          BY <1>0, <2>5, <4>1, <4>2 DEF Remembers, Drafting, Follows, Taken
        <4>4. Based(i)'
          <5>1. CASE request[i].chapter = c
            BY <1>0, <1>1, <1>3, <4>1, <4>2, <5>1 DEF Based, Taken
          <5>2. CASE request[i].chapter # c
            <6>1. request[i].pc \in {"draft", "commit"} => request[i].chapter \in Chapters
              BY <4>2 DEF Remembers
            <6> QED BY <1>0, <2>5, <4>1, <4>2, <5>2, <6>1 DEF Based, Taken, Prose
          <5> QED BY <5>1, <5>2
        <4> QED BY <4>3, <4>4
      <3> QED BY <3>1, <3>2
    <2> QED BY <2>4, <2>7, <2>8, <2>9 DEF Timeline
  <1> QED BY <1>2, <1>3

(* The one step that adds a choice: what it is, and what it is made on. *)
LEMMA Committed ==
  ASSUME Timeline, NEW r \in Requests, NEW c \in Chapters, c = request[r].chapter,
         CommitChoice(r)
  PROVE  /\ world.entry = "no" /\ world = request[r].world
         /\ \A d \in Chapters : Taken(d) => d < c
         /\ request[r].text = prose[c].text
         /\ ~Prose(c) => \A d \in Chapters : d <= c => ~Taken(d)
  <1>1. /\ request[r].pc = "commit" /\ Eligible(world, c) /\ world = request[r].world
    BY DEF CommitChoice, At, SameFingerprint
  <1>2. world.entry = "no" /\ \A d \in Chapters : Taken(d) => d < c
    BY <1>1 DEF Eligible, Taken
  <1>3. Based(r)
    BY DEF Timeline
  <1> QED BY <1>1, <1>2, <1>3 DEF Based

LEMMA CommitChoiceKeeps ==
  ASSUME Timeline, NEW r \in Requests, CommitChoice(r)
  PROVE  Timeline'
  <1>0. Types /\ Projected /\ request[r].pc = "commit"
    BY DEF Timeline, CommitChoice, At
  <1>1. PICK c \in Chapters : c = request[r].chapter
    BY <1>0 DEF Timeline, Remembers
  <1>2. /\ world.entry = "no" /\ world = request[r].world
        /\ \A d \in Chapters : Taken(d) => d < c
        /\ ~Prose(c) => \A d \in Chapters : d <= c => ~Taken(d)
    BY <1>1, Committed
  <1> DEFINE made == [chapter |-> c, by |-> r, on |-> request[r].text, world |-> request[r].world]
             own == [origin |-> "choice", text |-> r]
  <1>3. /\ choices' = choices \cup {made} /\ ~Chosen(c)
        /\ world' = [world EXCEPT !.chosen[c] = r]
        /\ prose' = [prose EXCEPT ![c] = own]
        /\ Leaves(r)
    BY <1>1 DEF CommitChoice
  <1>4. PICK q \in Records : request' = [request EXCEPT ![r] = q] /\ request'[r] = q /\ q.pc = "done"
    BY <1>0, <1>3, LeavesTyped
  <1>5. r \in Texts /\ r # Nothing /\ request[r].text \in Texts /\ request[r].world \in Worlds
    BY <1>0, ChoiceConstants DEF Texts, Types
  <1>6. /\ world' \in Worlds /\ world'.entry = world.entry
        /\ world'.chosen = [world.chosen EXCEPT ![c] = r]
    BY <1>0, <1>3 DEF Types, Worlds
  <1>7. /\ world'.chosen[c] = r
        /\ \A b \in Chapters : b # c => world'.chosen[b] = world.chosen[b]
    BY <1>0, <1>6 DEF Types, Worlds
  <1>8. Types'
    BY <1>0, <1>3, <1>4, <1>5, <1>6 DEF Types, Records
  <1>9. /\ prose'[c] = own
        /\ \A b \in Chapters : b # c => prose'[b] = prose[b]
        /\ \A b \in Chapters : Prose(b) => Prose(b)'
        /\ Prose(c)'
    BY <1>0, <1>3 DEF Types, Prose
  <1>10. ~Taken(c) /\ world.chosen[c] = Nothing
    BY <1>2 DEF Taken, Chapters
  <1>11. /\ Taken(c)'
         /\ \A b \in Chapters : b # c => (Taken(b)' <=> Taken(b))
    BY <1>5, <1>7 DEF Taken
  <1>12. /\ Chosen(c)'
         /\ \A b \in Chapters : b # c => (Chosen(b)' <=> Chosen(b))
    <2>1. made \in choices' /\ made.chapter = c
      BY <1>3
    <2>2. \A d \in choices : d \in choices'
      BY <1>3
    <2>3. \A d \in choices' : d \in choices \/ d.chapter = c
      BY <1>3, <2>1
    <2> HIDE DEF made
    <2> QED BY <2>1, <2>2, <2>3 DEF Chosen
  <1>13. \A d \in choices : d.chapter \in Chapters /\ d.chapter # c
    BY <1>0, <1>3 DEF Types, Chosen
  <1>14. Projected'
    <2>1. \A b \in Chapters : (Taken(b) <=> Chosen(b))'
      BY <1>0, <1>11, <1>12 DEF Projected
    <2>2. \A d \in choices' : world'.chosen[d.chapter] = d.by
      BY <1>0, <1>3, <1>7, <1>13 DEF Projected
    <2>3. \A b \in Chapters : (prose'[b].origin = "choice") <=> Taken(b)'
      BY <1>0, <1>9, <1>11 DEF Projected
    <2>4. \A b \in Chapters : Taken(b)' => prose'[b].text = world'.chosen[b]
      BY <1>0, <1>7, <1>9, <1>11 DEF Projected
    <2>5. \A b \in Chapters : ~Prose(b)' => prose'[b].text = Source
      BY <1>0, <1>9 DEF Projected
    <2> QED BY <2>1, <2>2, <2>3, <2>4, <2>5 DEF Projected
  <1>15. Contiguous'
    <2> SUFFICES ASSUME NEW b \in Chapters, Prose(b)'
                 PROVE  /\ \E d \in Chapters : d <= b /\ Taken(d)'
                        /\ \A d, x \in Chapters : Taken(d)' /\ d <= x /\ x <= b => Prose(x)'
      BY DEF Contiguous
    <2>1. CASE b = c
      <3>1. ASSUME NEW d \in Chapters, NEW x \in Chapters, Taken(d)', d <= x, x <= c
            PROVE  Prose(x)'
        <4>1. CASE x = c
          BY <1>9, <4>1
        <4>2. CASE x # c
          <5>1. d # c /\ d <= c
            BY <3>1, <4>2 DEF Chapters
          <5>2. Taken(d)
            BY <1>11, <3>1, <5>1
          <5>3. Prose(c)
            BY <1>2, <5>1, <5>2
          <5>4. Prose(x)
            BY <3>1, <5>2, <5>3 DEF Timeline, Contiguous
          <5> QED BY <1>9, <5>4
        <4> QED BY <4>1, <4>2
      <3>2. c <= b /\ Taken(c)'
        BY <1>11, <2>1 DEF Chapters
      <3> QED BY <2>1, <3>1, <3>2
    <2>2. CASE b # c
      <3>1. Prose(b)
        BY <1>9, <2>2 DEF Prose
      <3>2. PICK e \in Chapters : e <= b /\ Taken(e)
        BY <3>1 DEF Timeline, Contiguous
      <3>3. e < c /\ Taken(e)'
        BY <1>2, <1>10, <1>11, <3>2
      <3>4. ASSUME NEW d \in Chapters, NEW x \in Chapters, Taken(d)', d <= x, x <= b
            PROVE  Prose(x)'
        <4>1. CASE d = c
          <5>1. e <= x
            BY <3>3, <3>4, <4>1 DEF Chapters
          <5>2. Prose(x)
            BY <3>1, <3>2, <3>4, <5>1 DEF Timeline, Contiguous
          <5> QED BY <1>9, <5>2
        <4>2. CASE d # c
          <5>1. Taken(d)
            BY <1>11, <3>4, <4>2
          <5>2. Prose(x)
            BY <3>1, <3>4, <5>1 DEF Timeline, Contiguous
          <5> QED BY <1>9, <5>2
        <4> QED BY <4>1, <4>2
      <3> QED BY <3>2, <3>3, <3>4
    <2> QED BY <2>1, <2>2
  <1>16. ChosenOnItsPast'
    <2>1. ASSUME NEW d \in choices, NEW b \in Chapters
          PROVE  /\ d.world.entry = "no"
                 /\ d.world.chosen[b] = IF b < d.chapter THEN world'.chosen[b] ELSE Nothing
      <3>1. d.chapter \in Chapters /\ Taken(d.chapter)
        BY <1>0, <1>13 DEF Projected, Chosen
      <3>2. d.chapter < c
        BY <1>2, <3>1
      <3>3. b < d.chapter => b # c
        BY <3>1, <3>2 DEF Chapters
      <3>4. /\ d.world.entry = "no"
            /\ d.world.chosen[b] = IF b < d.chapter THEN world.chosen[b] ELSE Nothing
        BY DEF Timeline, ChosenOnItsPast
      <3> QED BY <1>7, <3>3, <3>4
    <2>2. ASSUME NEW b \in Chapters
          PROVE  world.chosen[b] = IF b < c THEN world'.chosen[b] ELSE Nothing
      <3>1. CASE b < c
        BY <1>7, <3>1 DEF Chapters
      <3>2. CASE ~(b < c)
        BY <1>2, <3>2 DEF Taken
      <3> QED BY <3>1, <3>2
    <2>3. made.world = world /\ made.chapter = c
      BY <1>2
    <2>4. ASSUME NEW d \in choices' PROVE d \in choices \/ d = made
      BY <1>3
    <2>5. \A d \in choices : d.world.entry = "no"
      BY DEF Timeline, ChosenOnItsPast
    <2> HIDE DEF made
    <2> QED BY <1>2, <2>1, <2>2, <2>3, <2>4, <2>5 DEF ChosenOnItsPast
  <1>17. ASSUME NEW i \in Requests PROVE (Remembers(i) /\ Based(i) /\ Drafting(i))'
    <2>1. CASE i = r
      BY <1>4, <2>1 DEF Remembers, Based, Drafting
    <2>2. CASE i # r
      <3>1. request'[i] = request[i]
        BY <1>0, <1>4, <2>2 DEF Types
      <3>2. Remembers(i) /\ Based(i) /\ Drafting(i)
        BY DEF Timeline
      <3>3. request[i].world.chosen[c] # Nothing => world.chosen[c] # request[i].world.chosen[c]
        BY <1>10
      <3>4. Drafting(i)'
        BY <3>1, <3>2 DEF Drafting
      <3>5. Remembers(i)'
        <4>1. request[i].pc \notin {"new", "done"} => request[i].chapter \in Chapters
          BY <3>2 DEF Remembers
        <4>2. ASSUME request[i].pc \notin {"new", "done"}, request[i].kind = "submit",
                     NEW b \in Chapters, request[i].world.chosen[b] # Nothing
              PROVE  world'.chosen[b] = request[i].world.chosen[b]
          <5>1. world.chosen[b] = request[i].world.chosen[b]
            BY <3>2, <4>2 DEF Remembers
          <5>2. b # c
            BY <1>10, <4>2, <5>1
          <5> QED BY <1>7, <5>1, <5>2
        <4>3. request[i].pc = "continue" =>
                 /\ \E d \in Chapters : d <= request[i].chapter /\ Taken(d)'
                 /\ Follows(request[i].chapter)'
          BY <1>9, <1>11, <3>1, <3>2 DEF Remembers, Follows
        <4> QED BY <3>1, <4>1, <4>2, <4>3 DEF Remembers, Follows
      <3>6. Based(i)'
        <4>1. SUFFICES ASSUME request[i].pc \in {"draft", "commit"},
                              world'.chosen = request[i].world.chosen
                       PROVE  FALSE
          BY <3>1 DEF Based
        <4>2. request[i].world.chosen[c] # Nothing
          BY <1>5, <1>7, <4>1
        <4>3. world.chosen[c] = request[i].world.chosen[c]
          BY <3>2, <4>1, <4>2 DEF Remembers, Drafting
        <4> QED BY <1>10, <4>2, <4>3
      <3> QED BY <3>4, <3>5, <3>6
    <2> QED BY <2>1, <2>2
  <1> QED BY <1>8, <1>14, <1>15, <1>16, <1>17 DEF Timeline

(* The player and the entry: no choice is touched. *)
LEMMA PlayerStepsKeep ==
  ASSUME Timeline, UNCHANGED <<choices, prose, request>>,
         world' \in Worlds, world'.chosen = world.chosen,
         world'.entry = "no" => world.entry = "no"
  PROVE  Timeline'
  <1>1. Types'
    BY DEF Timeline, Types
  <1>2. Projected' /\ Contiguous' /\ ChosenOnItsPast'
    BY DEF Timeline, Projected, Contiguous, ChosenOnItsPast, Taken, Chosen, Prose
  <1>3. ASSUME NEW i \in Requests PROVE (Remembers(i) /\ Based(i) /\ Drafting(i))'
    <2>1. Remembers(i) /\ Based(i) /\ Drafting(i)
      BY DEF Timeline
    <2>2. Remembers(i)' /\ Drafting(i)'
      BY <2>1 DEF Remembers, Drafting, Taken, Prose, Follows
    <2>3. Based(i)'
      BY <2>1 DEF Based, Taken, Prose
    <2> QED BY <2>2, <2>3
  <1> QED BY <1>1, <1>2, <1>3 DEF Timeline

LEMMA TimelineStep == Timeline /\ [Next]_vars => Timeline'
  <1> SUFFICES ASSUME Timeline, [Next]_vars PROVE Timeline'
    OBVIOUS
  <1>0. world \in Worlds
    BY DEF Timeline, Types
  <1>1. ASSUME NEW c \in Chapters, CreatePlayerEntity(c) PROVE Timeline'
    <2>1. world' \in Worlds /\ world'.chosen = world.chosen /\ world'.entry = world.entry
      BY <1>0, <1>1 DEF CreatePlayerEntity, Worlds, Chapters
    <2> QED BY <1>1, <2>1, PlayerStepsKeep DEF CreatePlayerEntity
  <1>2. CASE StartOpenWorld
    <2>1. world' \in Worlds /\ world'.chosen = world.chosen /\ world'.entry = "open"
      BY <1>0, <1>2 DEF StartOpenWorld, Worlds, Entries
    <2> QED BY <1>2, <2>1, PlayerStepsKeep DEF StartOpenWorld
  <1>3. CASE ExtendWorldSource
    <2>1. world' \in Worlds /\ world'.chosen = world.chosen /\ world'.entry = "admitted"
      BY <1>0, <1>3 DEF ExtendWorldSource, Worlds, Entries
    <2> QED BY <1>3, <2>1, PlayerStepsKeep DEF ExtendWorldSource
  <1>4. ASSUME NEW r \in Requests,
               \/ Begin(r) \/ Ends(r)
               \/ FindUserChoice(r) \/ FindProse(r) \/ FindChoices(r)
               \/ GeneratePlayerChapter(r)
               \/ FindNode(r) \/ SaveNode(r)
               \/ Draft(r) \/ CommitChoice(r) \/ ReplayChoice(r)
        PROVE  Timeline'
    BY <1>4, BeginKeeps, LeavingKeeps, FindUserChoiceKeeps, FindProseKeeps, FindChoicesKeeps,
       GeneratePlayerChapterKeeps, NodesKeep, DraftKeeps, CommitChoiceKeeps
  <1>5. CASE UNCHANGED vars
    BY <1>0, <1>5, PlayerStepsKeep DEF vars
  <1> QED BY <1>1, <1>2, <1>3, <1>4, <1>5 DEF Next

LEMMA TimelineHolds == Spec => []Timeline
  BY TimelineInit, TimelineStep, PTL DEF Spec

(* What a choice tells the model is its past stays its past: the world it  *)
(* was drafted from has all choices of earlier chapters and no other, and  *)
(* commit_choice admits none behind it (narrative_node.rs, the fingerprint *)
(* and latest_choice_chapter).                                             *)
THEOREM ChosenOnItsPastHolds == Spec => []ChosenOnItsPast
  <1>1. Timeline => ChosenOnItsPast
    BY DEF Timeline
  <1> QED BY <1>1, TimelineHolds, PTL

(* user_choices, its projection in world_states and player_chapters agree  *)
(* on every chapter, whatever continuation arrives late.                   *)
THEOREM ChoiceStandsHolds == Spec => []ChoiceStands
  <1>1. Timeline => ChoiceStands
    <2> SUFFICES ASSUME Timeline, NEW c \in Chapters
                 PROVE  /\ (prose[c].origin = "choice") <=> Chosen(c)
                        /\ \A d \in choices : d.chapter = c =>
                              world.chosen[c] = d.by /\ prose[c].text = d.by
      BY DEF ChoiceStands
    <2>1. Projected
      BY DEF Timeline
    <2>2. (prose[c].origin = "choice") <=> Chosen(c)
      BY <2>1 DEF Projected
    <2>3. ASSUME NEW d \in choices, d.chapter = c
          PROVE  world.chosen[c] = d.by /\ prose[c].text = d.by
      <3>1. Chosen(c)
        BY <2>3 DEF Chosen
      <3> QED BY <2>1, <2>3, <3>1 DEF Projected
    <2> QED BY <2>2, <2>3
  <1> QED BY <1>1, TimelineHolds, PTL

(* resolve_chapter never leaves a chapter of the reader's text out between *)
(* a choice and a later generated chapter.                                 *)
THEOREM NoGapsHolds == Spec => []NoGaps
  <1>1. Timeline => NoGaps
    <2> SUFFICES ASSUME Timeline, NEW c \in Chapters, Prose(c)
                 PROVE  /\ \E d \in choices : d.chapter <= c
                        /\ \A d \in choices : \A b \in d.chapter .. c : Prose(b)
      BY DEF NoGaps
    <2>1. Types /\ Projected /\ Contiguous
      BY DEF Timeline
    <2>2. \E d \in choices : d.chapter <= c
      BY <2>1, Diverged DEF Contiguous
    <2>3. ASSUME NEW d \in choices, NEW b \in d.chapter .. c PROVE Prose(b)
      <3>1. d.chapter \in Chapters /\ Taken(d.chapter)
        BY <2>1 DEF Types, Projected, Chosen
      <3>2. b \in Chapters /\ d.chapter <= b /\ b <= c
        BY <2>3, <3>1, ChoiceConstants DEF Chapters
      <3> QED BY <2>1, <3>1, <3>2 DEF Contiguous
    <2> QED BY <2>2, <2>3
  <1> QED BY <1>1, TimelineHolds, PTL

(* A submission rewrites from the text it replaces although the prose it   *)
(* read is neither locked nor compared: while the choices are the ones it  *)
(* saw, nothing can have replaced that text.                               *)
THEOREM RewritesWhatItReplacesHolds == Spec => RewritesWhatItReplaces
  <1>1. Timeline /\ [Next]_vars => [\A d \in choices' \ choices : prose[d.chapter].text = d.on]_vars
    <2> SUFFICES ASSUME Timeline, [Next]_vars, NEW d \in choices' \ choices
                 PROVE  prose[d.chapter].text = d.on
      OBVIOUS
    <2>2. CASE UNCHANGED choices
      BY <2>2
    <2>3. ASSUME NEW r \in Requests, CommitChoice(r) PROVE prose[d.chapter].text = d.on
      <3>1. PICK c \in Chapters : c = request[r].chapter
        <4>1. Remembers(r) /\ request[r].pc = "commit"
          BY <2>3 DEF Timeline, CommitChoice, At
        <4> QED BY <4>1 DEF Remembers
      <3>2. request[r].text = prose[c].text
        BY <2>3, <3>1, Committed
      <3>3. d = [chapter |-> c, by |-> r, on |-> request[r].text, world |-> request[r].world]
        BY <2>3, <3>1 DEF CommitChoice
      <3> QED BY <3>2, <3>3
    <2>4. UNCHANGED choices \/ \E r \in Requests : CommitChoice(r)
      BY DEF Next, vars, CreatePlayerEntity, StartOpenWorld, ExtendWorldSource, Begin, Ends,
             FindUserChoice, FindProse, FindChoices, GeneratePlayerChapter, FindNode, SaveNode,
             Draft, ReplayChoice, Reads
    <2> QED BY <2>2, <2>3, <2>4
  <1> QED BY <1>1, TimelineHolds, PTL DEF Spec, RewritesWhatItReplaces
===============================================================================
