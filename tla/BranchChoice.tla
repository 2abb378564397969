----------------------------- MODULE BranchChoice -----------------------------
(***************************************************************************)
(* Branch choices of one reader in one novel (narrative-service), up to    *)
(* the entry into the open world.                                          *)
(*                                                                         *)
(* At a key chapter the reader may replace the rest of the text: options   *)
(* (a node) are generated from the chapter as it reads now, and a choice   *)
(* rewrites it from the node's anchor on.  From the first choice on, every *)
(* later chapter is generated, each from the one before it.                *)
(*                                                                         *)
(* Handlers read the world, the choices and the prose with separate        *)
(* queries and wait for a model in between; one transaction commits a      *)
(* choice, its projection in the world state and its prose, under a lock   *)
(* of the world state alone.  A handler may end at any step: a failed      *)
(* call, a timeout, and what the novel service answers about the reader's  *)
(* progress and identity, which change at any time, are not told apart.    *)
(***************************************************************************)
EXTENDS Naturals, FiniteSets

CONSTANTS
    LastChapter,    \* bound: chapters of the novel
    Requests,       \* requests, each served once; a text is named after its own
    Source,         \* the text of a chapter of the novel
    Nothing         \* no text, no request

ASSUME ChoiceConstants ==
    /\ LastChapter \in Nat
    /\ Source \notin Requests /\ Nothing \notin Requests /\ Source # Nothing

Chapters == 1 .. LastChapter
NoPlayer == 0

VARIABLES
    world,      \* world_states: player's checkpoint, entry, projected choices
    choices,    \* user_choices, with the world and the text each was made on
    nodes,      \* narrative_nodes: the text a chapter's options are anchored in
    prose,      \* player_chapters: the reader's text of a chapter
    request     \* the handlers

vars == <<world, choices, nodes, prose, request>>

Kinds == {"read", "node", "submit"}
NoProse == [origin |-> "none", text |-> Source]
NoWorld == [player |-> NoPlayer, entry |-> "no", chosen |-> [c \in Chapters |-> Nothing]]
Unserved == [pc |-> "new", kind |-> "read", chapter |-> 0,
             world |-> NoWorld, text |-> Source]

(* Before the first choice: a player may have seen options anywhere. *)
Init ==
    /\ \E p \in {NoPlayer} \cup Chapters : world = [NoWorld EXCEPT !.player = p]
    /\ choices = {}
    /\ nodes \in [Chapters -> {Source, Nothing}]
    /\ world.player = NoPlayer => nodes = [c \in Chapters |-> Nothing]
    /\ prose = [c \in Chapters |-> NoProse]
    /\ request = [r \in Requests |-> Unserved]

Chosen(c) == \E d \in choices : d.chapter = c
Prose(c) == prose[c].origin # "none"

At(r, pc) == request[r].pc = pc
Goto(r, pc) == request' = [request EXCEPT ![r].pc = pc]
Leaves(r) == request' = [request EXCEPT ![r] = [Unserved EXCEPT !.pc = "done"]]
Reads(r) == UNCHANGED <<world, choices, nodes, prose>>

--------------------------------------------------------------------------------
(* The player and the open world: each a transaction on the locked row *)

(* create_player_entity; an equal player is found, another is refused *)
CreatePlayerEntity(c) ==
    /\ world.player = NoPlayer
    /\ \A d \in choices : d.chapter <= c
    /\ world' = [world EXCEPT !.player = c]
    /\ UNCHANGED <<choices, nodes, prose, request>>

(* start_open_world *)
StartOpenWorld ==
    /\ world.player # NoPlayer /\ world.entry = "no"
    /\ \A d \in choices : d.chapter <= world.player
    /\ world' = [world EXCEPT !.entry = "open"]
    /\ UNCHANGED <<choices, nodes, prose, request>>

(* extend_world_source: the session gets a source context *)
ExtendWorldSource ==
    /\ world.entry = "open"
    /\ world' = [world EXCEPT !.entry = "admitted"]
    /\ UNCHANGED <<choices, nodes, prose, request>>

(* uncommitted_branch_is_eligible; commit_choice asks the same of a choice *)
Eligible(w, c) ==
    /\ w.entry = "no"
    /\ w.player # NoPlayer => c <= w.player
    /\ \A d \in Chapters : w.chosen[d] # Nothing => d < c

--------------------------------------------------------------------------------
(* Handlers: get_effective_chapter, get_branch_node, submit_choice *)

(* A request that may go on reads the world: options need a player, and a  *)
(* choice is of a node the reader was offered.                             *)
Begin(r) ==
    /\ At(r, "new")
    /\ \E kind \in Kinds, c \in Chapters :
         /\ kind \in {"node", "submit"} => world.player # NoPlayer
         /\ kind = "submit" => nodes[c] # Nothing
         /\ request' = [request EXCEPT ![r] =
                [pc |-> IF kind = "submit" THEN "existing" ELSE "prose",
                 kind |-> kind, chapter |-> c, text |-> Source,
                 world |-> IF kind = "read" THEN NoWorld ELSE world]]
    /\ Reads(r)

(* An error, a timeout, a refusal, a dropped connection *)
Ends(r) ==
    /\ request[r].pc \notin {"new", "done"}
    /\ Leaves(r)
    /\ Reads(r)

(* find_user_choice and require_choice_submission_allowed: a committed     *)
(* choice of the same index is replayed from its prose, without the model; *)
(* one of another index is a conflict.                                     *)
FindUserChoice(r) ==
    LET q == request[r] IN
    /\ At(r, "existing")
    /\ \/ /\ Chosen(q.chapter)
          /\ request' = [request EXCEPT ![r].pc = "replay", ![r].text = prose[q.chapter].text]
       \/ /\ ~Chosen(q.chapter)
          /\ q.world.entry = "no" /\ q.chapter <= q.world.player
          /\ Goto(r, "prose")
    /\ Reads(r)

Resolved(r, text) ==
    CASE request[r].kind = "read" -> Leaves(r)
      [] request[r].kind = "node" -> request' = [request EXCEPT ![r].text = text, ![r].pc = "node"]
      [] request[r].kind = "submit" ->
            request' = [request EXCEPT ![r].text = text, ![r].pc = "draft"]

(* resolve_chapter: what is stored for the chapter *)
FindProse(r) ==
    LET c == request[r].chapter IN
    /\ At(r, "prose")
    /\ IF Prose(c) THEN Resolved(r, prose[c].text) ELSE Goto(r, "choices")
    /\ Reads(r)

(* resolve_chapter: the text of the novel, unless a choice came before; a  *)
(* choice made here meanwhile has its prose by now; otherwise the chapter  *)
(* before must be there to continue from.                                  *)
FollowsAny(c) == TRUE
Follows(c) == c - 1 \in Chapters /\ Prose(c - 1)

FindChoices(r) ==
    LET c == request[r].chapter
        diverged == \E d \in choices : d.chapter <= c
    IN
    /\ At(r, "choices")
    /\ \/ /\ world.entry = "admitted" \/ ~diverged
          /\ Resolved(r, Source)
       \/ /\ world.entry # "admitted" /\ Chosen(c)
          /\ Resolved(r, prose[c].text)
       \/ /\ world.entry # "admitted" /\ diverged /\ ~Chosen(c)
          /\ Follows(c)
          /\ Goto(r, "continue")
    /\ Reads(r)

(* generate_player_chapter, and save_if_absent of what the model wrote: *)
(* the first one is kept and read back.                                 *)
SavesOver(p, own) == own
Saved(p, own) == IF p.origin = "none" THEN own ELSE p

GeneratePlayerChapter(r) ==
    LET c == request[r].chapter
        kept == Saved(prose[c], [origin |-> "continuation", text |-> r])
    IN
    /\ At(r, "continue")
    /\ prose' = [prose EXCEPT ![c] = kept]
    /\ Resolved(r, kept.text)
    /\ UNCHANGED <<world, choices, nodes>>

(* get_branch_node: a chapter that may be chosen at and has no node gets   *)
(* one, generated from its text.  What is returned in the end is decided   *)
(* from the world of that moment, and changes nothing.                     *)
FindNode(r) ==
    LET q == request[r] IN
    /\ At(r, "node")
    /\ ~Chosen(q.chapter) /\ Eligible(q.world, q.chapter)
    /\ nodes[q.chapter] = Nothing
    /\ Goto(r, "compose")
    /\ Reads(r)

(* save: ON CONFLICT DO NOTHING, and the winner is read back *)
SaveNode(r) ==
    LET q == request[r] IN
    /\ At(r, "compose")
    /\ nodes' = [nodes EXCEPT ![q.chapter] = IF @ = Nothing THEN q.text ELSE @]
    /\ Leaves(r)
    /\ UNCHANGED <<world, choices, prose>>

(* submit_choice: the anchor must be found in the text; a continuation may *)
(* have kept it from the text the options were made for.                   *)
MayHold(text, anchored) == text = anchored \/ text \in Requests

Draft(r) ==
    LET q == request[r] IN
    /\ At(r, "draft")
    /\ MayHold(q.text, nodes[q.chapter])
    /\ Goto(r, "commit")
    /\ Reads(r)

(* commit_choice: against the fingerprint of the world it was drafted from *)
AnyWorld(w, drafted) == TRUE
SameFingerprint(w, drafted) == w = drafted

CommitChoice(r) ==
    LET q == request[r]
        c == q.chapter
    IN
    /\ At(r, "commit")
    /\ ~Chosen(c)
    /\ Eligible(world, c) /\ SameFingerprint(world, q.world)
    /\ prose[c].origin # "choice"
    /\ choices' = choices \cup {[chapter |-> c, by |-> r,
                                 on |-> q.text, world |-> q.world]}
    /\ world' = [world EXCEPT !.chosen[c] = r]
    /\ prose' = [prose EXCEPT ![c] = [origin |-> "choice", text |-> r]]
    /\ Leaves(r)
    /\ nodes' = nodes

(* commit_choice of a replay: nothing changes if its prose is the stored one *)
ReplayChoice(r) ==
    LET q == request[r] IN
    /\ At(r, "replay")
    /\ prose[q.chapter] = [origin |-> "choice", text |-> q.text]
    /\ Leaves(r)
    /\ Reads(r)

--------------------------------------------------------------------------------
Next ==
    \/ \E c \in Chapters : CreatePlayerEntity(c)
    \/ StartOpenWorld \/ ExtendWorldSource
    \/ \E r \in Requests :
          \/ Begin(r) \/ Ends(r)
          \/ FindUserChoice(r) \/ FindProse(r) \/ FindChoices(r)
          \/ GeneratePlayerChapter(r)
          \/ FindNode(r) \/ SaveNode(r)
          \/ Draft(r) \/ CommitChoice(r) \/ ReplayChoice(r)

Spec == Init /\ [][Next]_vars

--------------------------------------------------------------------------------
(* Properties *)

(* A consequence is written for the world it is committed to: every choice *)
(* was drafted with exactly the choices of earlier chapters in its prompt, *)
(* and none is inserted behind it later.                                   *)
ChosenOnItsPast ==
    \A d \in choices :
        /\ d.world.entry = "no"
        /\ \A c \in Chapters :
              d.world.chosen[c] = IF c < d.chapter THEN world.chosen[c] ELSE Nothing

(* user_choices and its projection in the world state name the same        *)
(* choices, and the prose of a chosen chapter is and stays that of its     *)
(* choice, however late a continuation of the chapter arrives.             *)
ChoiceStands ==
    \A c \in Chapters :
        /\ (prose[c].origin = "choice") <=> Chosen(c)
        /\ \A d \in choices : d.chapter = c =>
              world.chosen[c] = d.by /\ prose[c].text = d.by

(* From the first choice on, the generated chapters have no gap. *)
NoGaps ==
    \A c \in Chapters : Prose(c) =>
        /\ \E d \in choices : d.chapter <= c
        /\ \A d \in choices : \A b \in d.chapter .. c : Prose(b)

(* A choice replaces the very text it was rewritten from, although only    *)
(* the world state is locked and compared when it commits.                 *)
RewritesWhatItReplaces ==
    [][\A d \in choices' \ choices : prose[d.chapter].text = d.on]_vars
================================================================================
