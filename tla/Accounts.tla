------------------------------- MODULE Accounts -------------------------------
(***************************************************************************)
(* Accounts, and what their erasure must not leave behind.                 *)
(*                                                                         *)
(* user-service keeps the accounts: the first one is set up as the         *)
(* administrator, later ones register, and each may delete itself.         *)
(* Registration takes a lock on the table that others may share, setup and *)
(* deletion take one that excludes all of them.                            *)
(*                                                                         *)
(* agent-service caches the text of committed chat turns in Redis, where   *)
(* no transaction reaches.  Whoever erases an account, or removes a novel  *)
(* from its shelf, first raises a tombstone that refuses later projections *)
(* and deletes what is cached, then changes the database, and lowers the   *)
(* tombstone again if that failed.  Every call may fail, be applied after  *)
(* its caller gave up (the clients wait 5 s), or succeed unacknowledged,   *)
(* and requests of one reader may overlap.                                 *)
(*                                                                         *)
(* An account is an id and is registered at most once; every reader reads  *)
(* one novel.                                                              *)
(***************************************************************************)
EXTENDS Naturals, FiniteSets

CONSTANTS
    Users,          \* account ids
    Requests,       \* requests that erase, remove or attach
    Nobody,         \* the subject of no request
    MaxFaults       \* bound: failed, late and unacknowledged calls

ASSUME AccountConstants ==
    /\ Nobody \notin Users
    /\ MaxFaults \in Nat

(* What a tombstone covers: all of an account, or its novel *)
Scopes == {"account", "novel"}

VARIABLES
    account,    \* users: an id is new, live or gone
    admin,      \* the ids of the role admin
    joining,    \* registrations and setups under way
    shelf,      \* user_novels: the accounts that have the novel
    cached,     \* Redis: the accounts with cached text of the novel
    tomb,       \* Redis: the tombstones that are up
    chat,       \* accounts with a committed turn still to be projected
    request,    \* deletions, removals and attachments under way
    late,       \* privacy calls whose caller gave up, not applied yet
    lowered,    \* history: tombstones lowered although their erasure stands
    faults      \* bound

database == <<account, admin, shelf>>
redis == <<cached, tomb, lowered>>
vars == <<account, admin, joining, shelf, cached, tomb, chat, request, late, lowered, faults>>

Quiet == [pc |-> "idle", of |-> Nobody, scope |-> "account", keys |-> {}]

Init ==
    /\ account = [u \in Users |-> "new"] /\ admin = {}
    /\ joining = [u \in Users |-> "no"]
    /\ shelf = {} /\ cached = {} /\ tomb = {} /\ chat = {}
    /\ request = [r \in Requests |-> Quiet]
    /\ late = {} /\ lowered = {} /\ faults = 0

Fault == faults < MaxFaults /\ faults' = faults + 1

Live == {u \in Users : account[u] = "live"}

--------------------------------------------------------------------------------
(* Registration, setup and their locks on the users table *)

(* ROW EXCLUSIVE, held from the check to the commit of a registration      *)
Sharing == {u \in Users : joining[u] = "checked"}

(* EXCLUSIVE conflicts with every holder of ROW EXCLUSIVE: the transaction *)
(* runs between them                                                       *)
LockFree == TRUE
Excluded == Sharing = {}

Joins(u, step) ==
    /\ joining' = [joining EXCEPT ![u] = step]
    /\ UNCHANGED <<shelf, redis, chat, request, late, faults>>

(* register, up to the hashed password *)
Register(u) ==
    /\ account[u] = "new" /\ joining[u] = "no"
    /\ Live # {}
    /\ Joins(u, "register")
    /\ UNCHANGED <<account, admin>>

(* save: under the lock, an administrator must exist *)
SaveCheck(u) ==
    /\ joining[u] = "register"
    /\ Joins(u, IF admin # {} THEN "checked" ELSE "no")
    /\ UNCHANGED <<account, admin>>

(* save: the insert, which an equal e-mail turns into nothing, and commit *)
SaveInsert(u) ==
    /\ joining[u] = "checked"
    /\ Joins(u, "no")
    /\ account' \in {account, [account EXCEPT ![u] = "live"]}
    /\ admin' = admin

(* setup, up to the hashed password *)
Setup(u) ==
    /\ account[u] = "new" /\ joining[u] = "no"
    /\ Live = {}
    /\ Joins(u, "setup")
    /\ UNCHANGED <<account, admin>>

(* save_initial_setup: nobody else may be there by now *)
SaveInitialSetup(u) ==
    /\ joining[u] = "setup"
    /\ Excluded
    /\ Joins(u, "no")
    /\ \/ /\ Live = {}
          /\ account' = [account EXCEPT ![u] = "live"]
          /\ admin' = admin \cup {u}
       \/ /\ Live # {}
          /\ UNCHANGED <<account, admin>>

--------------------------------------------------------------------------------
(* Chat turns and their projection *)

(* A turn commits: its account and its shelf entry were there. *)
CommitTurn(u) ==
    /\ u \in Live \cap shelf /\ u \notin chat
    /\ chat' = chat \cup {u}
    /\ UNCHANGED <<database, joining, redis, request, late, faults>>

(* push_turn: one script checks both tombstones and pushes *)
PushesUnseen(u) == TRUE
Pushes(u) == \A s \in Scopes : <<u, s>> \notin tomb

PushTurn(u) ==
    /\ u \in chat
    /\ chat' = chat \ {u}
    /\ cached' = IF Pushes(u) THEN cached \cup {u} ELSE cached
    /\ UNCHANGED <<database, joining, tomb, request, late, lowered, faults>>

--------------------------------------------------------------------------------
(* Erasure: delete_account and remove_from_shelf; attach_shared_novel *)

Gone(u, s) == IF s = "account" THEN account[u] = "gone" ELSE u \notin shelf

(* A request of the scope has raised the tombstone and goes on. *)
Underway(u, s) ==
    \E r \in Requests : /\ request[r].of = u /\ request[r].scope = s
                        /\ request[r].pc \in {"scan", "drop", "change"}

At(r, pc) == request[r].pc = pc
Begins(r, pc, u, s) ==
    request' = [request EXCEPT ![r] = [pc |-> pc, of |-> u, scope |-> s, keys |-> {}]]
Goto(r, pc) == request' = [request EXCEPT ![r].pc = pc]
Ends(r) == request' = [request EXCEPT ![r] = Quiet]

(* The reader's token outlives the account: a deletion may be repeated. *)
DeleteAccount(r, u) ==
    /\ At(r, "idle") /\ account[u] # "new"
    /\ Begins(r, "mark", u, "account")
    /\ UNCHANGED <<database, joining, redis, chat, late, faults>>

(* remove_from_shelf: find_for_user *)
RemoveFromShelf(r, u) ==
    /\ At(r, "idle") /\ u \in shelf
    /\ Begins(r, "mark", u, "novel")
    /\ UNCHANGED <<database, joining, redis, chat, late, faults>>

(* attach_shared_novel: attach_to_user, for an account that is there *)
AttachSharedNovel(r, u) ==
    /\ At(r, "idle") /\ u \in Live
    /\ shelf' = shelf \cup {u}
    /\ Begins(r, "allow", u, "novel")
    /\ UNCHANGED <<account, admin, joining, redis, chat, late, faults>>

Raise(u, s) == tomb' = tomb \cup {<<u, s>>}

(* set_tombstone of clear_user or clear_novel: raised, or failed, or       *)
(* applied after the caller gave up                                        *)
Mark(r) ==
    LET q == request[r] IN
    /\ At(r, "mark")
    /\ \/ /\ Raise(q.of, q.scope) /\ Goto(r, "scan")
          /\ UNCHANGED <<late, faults>>
       \/ /\ Fault /\ Goto(r, "allow")
          /\ late' \in {late, late \cup {[to |-> "raise", of |-> q.of, scope |-> q.scope]}}
          /\ tomb' = tomb
    /\ UNCHANGED <<database, joining, cached, chat, lowered>>

(* user_keys: the keys that hold text now *)
Scan(r) ==
    /\ At(r, "scan")
    /\ \/ /\ request' = [request EXCEPT ![r].pc = "drop",
                                        ![r].keys = cached \cap {request[r].of}]
          /\ UNCHANGED faults
       \/ Fault /\ Goto(r, "allow")
    /\ UNCHANGED <<database, joining, redis, chat, late>>

(* delete_keys *)
Drop(r) ==
    LET q == request[r] IN
    /\ At(r, "drop")
    /\ \/ /\ cached' = cached \ q.keys
          /\ lowered' = IF <<q.of, q.scope>> \in tomb /\ q.of \notin cached'
                        THEN lowered \ {<<q.of, q.scope>>} ELSE lowered
          /\ Goto(r, "change")
          /\ UNCHANGED faults
       \/ /\ Fault /\ Goto(r, "allow")
          /\ UNCHANGED <<cached, lowered>>
    /\ UNCHANGED <<database, joining, tomb, chat, late>>

(* delete_account: the only administrator stays while others do *)
LastAdministrator(u) == u \in admin /\ admin = {u} /\ Live # {u}

(* The row goes, and what refers to it: tokens, shelf, text in PostgreSQL *)
Erased(u) ==
    /\ account' = [account EXCEPT ![u] = "gone"]
    /\ admin' = admin \ {u}
    /\ shelf' = shelf \ {u}

EraseAccount(r) ==
    LET u == request[r].of IN
    /\ At(r, "change") /\ request[r].scope = "account"
    /\ Excluded
    /\ \/ /\ account[u] = "gone"
          /\ Ends(r)
          /\ UNCHANGED <<database, faults>>
       \/ /\ u \in Live /\ LastAdministrator(u)
          /\ Goto(r, "allow")
          /\ UNCHANGED <<database, faults>>
       \/ /\ u \in Live /\ ~LastAdministrator(u)
          /\ Erased(u)
          /\ Ends(r)
          /\ UNCHANGED faults
       \/ /\ u \in Live /\ ~LastAdministrator(u)   \* the commit's answer is lost
          /\ Erased(u)
          /\ Fault /\ Goto(r, "allow")
    /\ UNCHANGED <<joining, redis, chat, late>>

(* detach_from_user *)
Detach(r) ==
    LET u == request[r].of IN
    /\ At(r, "change") /\ request[r].scope = "novel"
    /\ shelf' = shelf \ {u}
    /\ \/ Ends(r) /\ UNCHANGED faults
       \/ Fault /\ Goto(r, "allow")                \* its answer is lost
    /\ UNCHANGED <<account, admin, joining, redis, chat, late>>

(* The statement fails and changes nothing. *)
ChangeFails(r) ==
    /\ At(r, "change")
    /\ Fault /\ Goto(r, "allow")
    /\ UNCHANGED <<database, joining, redis, chat, late>>

LowersNovel(u, s) == tomb' = tomb \ {<<u, "novel">>} /\ UNCHANGED lowered
Lower(u, s) ==
    /\ tomb' = tomb \ {<<u, s>>}
    /\ lowered' = IF Gone(u, s) \/ Underway(u, s) THEN lowered \cup {<<u, s>>} ELSE lowered

(* allow_user or allow_novel: lowered, or failed, or applied later *)
Allow(r) ==
    LET q == request[r] IN
    /\ At(r, "allow")
    /\ Ends(r)
    /\ \/ /\ Lower(q.of, q.scope)
          /\ UNCHANGED <<late, faults>>
       \/ /\ Fault
          /\ late' \in {late, late \cup {[to |-> "lower", of |-> q.of, scope |-> q.scope]}}
          /\ UNCHANGED <<tomb, lowered>>
    /\ UNCHANGED <<database, joining, cached, chat>>

Late(c) ==
    /\ c \in late
    /\ late' = late \ {c}
    /\ \/ c.to = "raise" /\ Raise(c.of, c.scope) /\ UNCHANGED lowered
       \/ c.to = "lower" /\ Lower(c.of, c.scope)
    /\ UNCHANGED <<database, joining, cached, chat, request, faults>>

(* A tombstone expires after an hour; no projection, call or request of    *)
(* its account lasts so long.                                              *)
TombstoneExpires(u, s) ==
    /\ <<u, s>> \in tomb /\ u \notin chat
    /\ \A r \in Requests : request[r].of # u
    /\ \A c \in late : c.of # u
    /\ tomb' = tomb \ {<<u, s>>}
    /\ UNCHANGED <<database, joining, cached, chat, request, late, lowered, faults>>

--------------------------------------------------------------------------------
Next ==
    \/ \E u \in Users : \/ Register(u) \/ SaveCheck(u) \/ SaveInsert(u)
                        \/ Setup(u) \/ SaveInitialSetup(u)
                        \/ CommitTurn(u) \/ PushTurn(u)
    \/ \E r \in Requests : \/ \E u \in Users : \/ DeleteAccount(r, u)
                                               \/ RemoveFromShelf(r, u)
                                               \/ AttachSharedNovel(r, u)
                           \/ Mark(r) \/ Scan(r) \/ Drop(r)
                           \/ EraseAccount(r) \/ Detach(r) \/ ChangeFails(r) \/ Allow(r)
    \/ \E c \in late : Late(c)
    \/ \E u \in Users, s \in Scopes : TombstoneExpires(u, s)

Spec == Init /\ [][Next]_vars

--------------------------------------------------------------------------------
(* Properties *)

TypeOK ==
    /\ account \in [Users -> {"new", "live", "gone"}]
    /\ admin \subseteq Users /\ shelf \subseteq Users
    /\ joining \in [Users -> {"no", "register", "checked", "setup"}]
    /\ cached \subseteq Users /\ chat \subseteq Users
    /\ tomb \subseteq Users \X Scopes /\ lowered \subseteq Users \X Scopes
    /\ request \in [Requests -> [pc : {"idle", "mark", "scan", "drop", "change", "allow"},
                                 of : Users \cup {Nobody}, scope : Scopes, keys : SUBSET Users]]
    /\ late \subseteq [to : {"raise", "lower"}, of : Users, scope : Scopes]
    /\ faults \in 0 .. MaxFaults

(* However setups, registrations and deletions interleave, an installation *)
(* with accounts has exactly one administrator: a registration that saw    *)
(* one inserts before a deletion can remove it, and of two setups one wins.*)
OneAdministrator ==
    /\ admin \subseteq Live
    /\ \A u, v \in admin : u = v
    /\ Live # {} => admin # {}

(* Once an account is erased, or a novel is off its shelf, none of its     *)
(* text is or comes into the cache, whatever projections were late: the    *)
(* only way around is a rollback, or an attachment, that lowers the        *)
(* tombstone of an erasure that another request goes through with or that  *)
(* took effect unseen.                                                     *)
ErasedStaysErased ==
    \A u \in cached :
        \/ u \in Live \cap shelf
        \/ \E s \in Scopes : <<u, s>> \in lowered

(* Unless a call failed, a reader who keeps the account and the novel is   *)
(* not left with a tombstone: every refused erasure lowers what it raised. *)
KeptIsProjected ==
    faults = 0 =>
        \A u \in Live, s \in Scopes :
            <<u, s>> \in tomb =>
                \/ s = "novel" /\ u \notin shelf
                \/ \E r \in Requests : request[r].of = u
===============================================================================
