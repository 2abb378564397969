-------------------------- MODULE UserServiceProofs --------------------------
(***************************************************************************)
(* Proofs about user-service.                                              *)
(*                                                                         *)
(* Accounts, for every number of accounts, requests and faults: an         *)
(* installation with accounts has exactly one administrator, what is       *)
(* erased stays erased, and who stays keeps the projection.                *)
(*                                                                         *)
(* Sessions, for every set of tabs and requests and every bound: types are *)
(* inductive by themselves.  Relative to them: who waits for a rotation at *)
(* the server (PostInv), whose the pairs under way are (AuthInv), that a   *)
(* pair nobody has stored yet is live and unknown (FreshInv), and, while   *)
(* no answer was missed, that the stored pair is usable (UsableInv).       *)
(***************************************************************************)
EXTENDS Accounts, Sessions, TLAPS

--------------------------------------------------------------------------------
(* Accounts *)

(* What the locks add to OneAdministrator to make it inductive: between    *)
(* the check and the insert of a registration an administrator exists,     *)
(* because whatever could remove the last one waits for the shared lock.   *)
SharedLockHolds == Sharing # {} => admin # {}

Roster ==
    /\ account \in [Users -> {"new", "live", "gone"}]
    /\ joining \in [Users -> {"no", "register", "checked", "setup"}]
    /\ admin \subseteq Users
    /\ OneAdministrator
    /\ SharedLockHolds

(* The accounts start without any. *)
LEMMA RosterInit == Init => Roster
  BY DEF Init, Roster, OneAdministrator, SharedLockHolds, Live, Sharing

(* A step that moves a registration on, without touching the accounts, to  *)
(* a state that holds the lock only if an administrator exists.            *)
LEMMA Waits ==
  ASSUME NEW u \in Users, NEW step \in {"no", "register", "checked", "setup"},
         Roster, Joins(u, step), UNCHANGED <<account, admin>>,
         step = "checked" => admin # {}
  PROVE  Roster'
  <1>1. Live' = Live
    BY DEF Live
  <1>2. joining' = [joining EXCEPT ![u] = step]
    BY DEF Joins
  <1>3. joining' \in [Users -> {"no", "register", "checked", "setup"}]
    BY <1>2 DEF Roster
  <1>4. SharedLockHolds'
    <2> SUFFICES ASSUME NEW v \in Users, joining'[v] = "checked"
                 PROVE  admin # {}
      BY DEF SharedLockHolds, Sharing
    <2>1. CASE v = u
      BY <1>2, <2>1 DEF Roster
    <2>2. CASE v # u
      BY <1>2, <2>2 DEF Roster, SharedLockHolds, Sharing
    <2> QED BY <2>1, <2>2
  <1> QED BY <1>1, <1>3, <1>4 DEF Roster, OneAdministrator

(* The insert of a registration adds an account that is no administrator. *)
LEMMA Inserts ==
  ASSUME NEW u \in Users, Roster, SaveInsert(u)
  PROVE  Roster'
  <1>0. Joins(u, "no") /\ admin' = admin /\ joining[u] = "checked"
    BY DEF SaveInsert
  <1>1. admin # {}
    BY <1>0 DEF Roster, SharedLockHolds, Sharing
  <1>2. CASE account' = account
    BY <1>0, <1>2, Waits
  <1>3. CASE account' = [account EXCEPT ![u] = "live"]
    <2>1. account' \in [Users -> {"new", "live", "gone"}]
      BY <1>3 DEF Roster
    <2>2. joining' \in [Users -> {"no", "register", "checked", "setup"}]
      BY <1>0 DEF Roster, Joins
    <2>3. Live \subseteq Live'
      BY <1>3 DEF Live, Roster
    <2> QED BY <1>0, <1>1, <2>1, <2>2, <2>3 DEF Roster, OneAdministrator, SharedLockHolds
  <1> QED BY <1>2, <1>3 DEF SaveInsert

(* A setup makes an administrator where there is no account. *)
LEMMA SetsUp ==
  ASSUME NEW u \in Users, Roster, SaveInitialSetup(u)
  PROVE  Roster'
  <1>0. Joins(u, "no")
    BY DEF SaveInitialSetup
  <1>1. CASE Live # {} /\ UNCHANGED <<account, admin>>
    BY <1>0, <1>1, Waits
  <1>2. CASE /\ Live = {}
             /\ account' = [account EXCEPT ![u] = "live"]
             /\ admin' = admin \cup {u}
    <2>1. admin = {} /\ admin' = {u}
      BY <1>2 DEF Roster, OneAdministrator
    <2>2. account' \in [Users -> {"new", "live", "gone"}] /\ Live' = {u}
      BY <1>2 DEF Roster, Live
    <2>3. joining' \in [Users -> {"no", "register", "checked", "setup"}]
      BY <1>0 DEF Roster, Joins
    <2> QED BY <2>1, <2>2, <2>3 DEF Roster, OneAdministrator, SharedLockHolds
  <1> QED BY <1>1, <1>2 DEF SaveInitialSetup

(* A deletion removes the administrator only as the last account, and only *)
(* while no registration holds the lock.                                   *)
LEMMA Erases ==
  ASSUME NEW r \in Requests, Roster, EraseAccount(r)
  PROVE  Roster'
  <1> DEFINE u == request[r].of
  <1>0. Excluded /\ joining' = joining
    BY DEF EraseAccount
  <1>1. CASE UNCHANGED database
    BY <1>0, <1>1 DEF database, Roster, OneAdministrator, SharedLockHolds, Live, Sharing
  <1>2. CASE u \in Live /\ ~LastAdministrator(u) /\ Erased(u)
    <2>1. account' = [account EXCEPT ![u] = "gone"] /\ admin' = admin \ {u}
      BY <1>2 DEF Erased
    <2>2. account' \in [Users -> {"new", "live", "gone"}] /\ Live' = Live \ {u}
      BY <1>2, <2>1 DEF Roster, Live
    <2>3. Live' # {} => admin' # {}
      <3>1. CASE u \in admin
        BY <1>2, <2>1, <2>2, <3>1 DEF LastAdministrator, Roster, OneAdministrator
      <3>2. CASE u \notin admin
        BY <2>1, <2>2, <3>2 DEF Roster, OneAdministrator
      <3> QED BY <3>1, <3>2
    <2>4. Sharing' = {}
      BY <1>0 DEF Excluded, Sharing
    <2> QED BY <1>0, <2>1, <2>2, <2>3, <2>4 DEF Roster, OneAdministrator, SharedLockHolds
  <1> QED BY <1>1, <1>2 DEF EraseAccount, database

(* The other steps leave accounts and registrations alone. *)
LEMMA RosterUnchanged ==
  ASSUME Roster, UNCHANGED <<account, admin, joining>>
  PROVE  Roster'
  BY DEF Roster, OneAdministrator, SharedLockHolds, Live, Sharing

LEMMA RosterStep == Roster /\ [Next]_vars => Roster'
  <1> SUFFICES ASSUME Roster, [Next]_vars PROVE Roster'
    OBVIOUS
  <1>1. ASSUME NEW u \in Users, Register(u) \/ SaveCheck(u) \/ Setup(u)
        PROVE  Roster'
    <2>1. PICK step \in {"no", "register", "checked", "setup"} :
             /\ Joins(u, step) /\ UNCHANGED <<account, admin>>
             /\ step = "checked" => admin # {}
      BY <1>1 DEF Register, SaveCheck, Setup
    <2> QED BY <2>1, Waits
  <1>2. ASSUME NEW u \in Users, SaveInsert(u) PROVE Roster'
    BY <1>2, Inserts
  <1>3. ASSUME NEW u \in Users, SaveInitialSetup(u) PROVE Roster'
    BY <1>3, SetsUp
  <1>4. ASSUME NEW u \in Users, CommitTurn(u) \/ PushTurn(u) PROVE Roster'
    BY <1>4, RosterUnchanged DEF CommitTurn, PushTurn, database
  <1>5. ASSUME NEW r \in Requests, EraseAccount(r) PROVE Roster'
    BY <1>5, Erases
  <1>6. ASSUME NEW r \in Requests, NEW u \in Users,
               DeleteAccount(r, u) \/ RemoveFromShelf(r, u) \/ AttachSharedNovel(r, u)
        PROVE  Roster'
    BY <1>6, RosterUnchanged DEF DeleteAccount, RemoveFromShelf, AttachSharedNovel, database
  <1>7. ASSUME NEW r \in Requests, Mark(r) \/ Scan(r) \/ Drop(r) PROVE Roster'
    BY <1>7, RosterUnchanged DEF Mark, Scan, Drop, database
  <1>8. ASSUME NEW r \in Requests, Detach(r) \/ ChangeFails(r) \/ Allow(r) PROVE Roster'
    BY <1>8, RosterUnchanged DEF Detach, ChangeFails, Allow, database
  <1>9. ASSUME NEW c \in late, Late(c) PROVE Roster'
    BY <1>9, RosterUnchanged DEF Late, database
  <1>10. ASSUME NEW u \in Users, NEW s \in Scopes, TombstoneExpires(u, s) PROVE Roster'
    BY <1>10, RosterUnchanged DEF TombstoneExpires, database
  <1>11. CASE UNCHANGED vars
    BY <1>11, RosterUnchanged DEF vars
  <1> QED
    BY <1>1, <1>2, <1>3, <1>4, <1>5, <1>6, <1>7, <1>8, <1>9, <1>10, <1>11 DEF Next

(* However setups, registrations and deletions interleave, an installation *)
(* with accounts has exactly one administrator.                            *)
THEOREM OneAdministratorHolds == Spec => []OneAdministrator
  <1>1. Roster => OneAdministrator
    BY DEF Roster
  <1> QED BY RosterInit, RosterStep, <1>1, PTL DEF Spec

--------------------------------------------------------------------------------
(* What is erased stays erased.  The text of an account cannot reach the   *)
(* cache through a scope that is fenced: nothing is cached and the         *)
(* tombstone is up, or the history admits that it was lowered.             *)
Fenced(u, s) == (u \notin cached /\ <<u, s>> \in tomb) \/ <<u, s>> \in lowered

(* Nothing is cached and no projection is late. *)
Clean(u) == u \notin cached /\ u \notin chat

(* A request has raised its tombstone before it scans, has fenced its      *)
(* scope unless the scan found the key, and has fenced it in any case when *)
(* it turns to the database.                                               *)
Advanced(r) ==
    LET q == request[r] IN
    /\ q.pc # "idle" => q.of \in Users
    /\ q.pc \in {"scan", "drop"} => <<q.of, q.scope>> \in tomb \cup lowered
    /\ q.pc = "drop" /\ q.of \notin q.keys => Fenced(q.of, q.scope)
    /\ q.pc = "change" => Fenced(q.of, q.scope)

(* What an account without the novel leaves behind. *)
Hidden(u) ==
    \/ Clean(u)
    \/ Fenced(u, "novel")
    \/ account[u] = "gone" /\ Fenced(u, "account")

Past(u) ==
    /\ joining[u] # "no" => account[u] = "new"
    /\ account[u] = "new" => Clean(u)
    /\ u \in shelf => account[u] = "live"
    /\ u \notin shelf => Hidden(u)

Steps == {"idle", "mark", "scan", "drop", "change", "allow"}

Shapes ==
    /\ account \in [Users -> {"new", "live", "gone"}]
    /\ joining \in [Users -> {"no", "register", "checked", "setup"}]
    /\ cached \subseteq Users
    /\ request \in [Requests -> [pc : Steps, of : Users \cup {Nobody},
                                 scope : Scopes, keys : SUBSET Users]]

Forgotten ==
    /\ Shapes
    /\ \A r \in Requests : Advanced(r)
    /\ \A u \in Users : Past(u)

LEMMA ForgottenInit == Init => Forgotten
  BY DEF Init, Forgotten, Shapes, Advanced, Past, Hidden, Clean, Quiet, Steps, Scopes

(* Registrations: an id becomes an account with a clean past. *)
LEMMA JoinsForget ==
  ASSUME Forgotten, NEW u \in Users,
         Register(u) \/ SaveCheck(u) \/ SaveInsert(u) \/ Setup(u) \/ SaveInitialSetup(u)
  PROVE  Forgotten'
  <1>1. /\ UNCHANGED <<shelf, cached, tomb, lowered, chat, request>>
        /\ account' \in {account, [account EXCEPT ![u] = "live"]}
        /\ account' # account => joining[u] # "no" /\ joining' = [joining EXCEPT ![u] = "no"]
        /\ account[u] = "new"
        /\ joining' \in [Users -> {"no", "register", "checked", "setup"}]
        /\ \A v \in Users \ {u} : joining'[v] = joining[v]
    BY DEF Register, SaveCheck, SaveInsert, Setup, SaveInitialSetup, Joins, redis,
           Forgotten, Shapes, Past
  <1>2. Shapes'
    BY <1>1 DEF Forgotten, Shapes
  <1>3. ASSUME NEW r \in Requests PROVE Advanced(r)'
    BY <1>1 DEF Forgotten, Advanced, Fenced
  <1>4. ASSUME NEW v \in Users PROVE Past(v)'
    BY <1>1 DEF Forgotten, Shapes, Past, Hidden, Clean, Fenced
  <1> QED BY <1>2, <1>3, <1>4 DEF Forgotten

(* A turn that commits has its account and its novel; one that is projected*)
(* is refused by whatever fence is up.                                     *)
LEMMA TurnsForget ==
  ASSUME Forgotten, NEW u \in Users, CommitTurn(u) \/ PushTurn(u)
  PROVE  Forgotten'
  <1>1. UNCHANGED <<account, shelf, joining, request, tomb, lowered>>
    BY DEF CommitTurn, PushTurn, database, redis
  <1>2. /\ cached' \in {cached, cached \cup {u}}
        /\ cached' # cached => \A s \in Scopes : <<u, s>> \notin tomb
    BY DEF CommitTurn, PushTurn, Pushes, redis
  <1>3. CASE CommitTurn(u)
    <2>1. cached' = cached /\ chat' = chat \cup {u} /\ u \in shelf
      BY <1>3 DEF CommitTurn, redis
    <2> QED BY <1>1, <2>1 DEF Forgotten, Shapes, Advanced, Past, Hidden, Clean, Fenced
  <1>4. CASE PushTurn(u)
    <2>1. u \in chat /\ chat' = chat \ {u}
      BY <1>4 DEF PushTurn
    <2>2. Shapes'
      BY <1>1, <1>2 DEF Forgotten, Shapes
    <2>3. ASSUME NEW v \in Users, NEW s \in Scopes, Fenced(v, s) PROVE Fenced(v, s)'
      BY <1>1, <1>2, <2>3 DEF Fenced
    <2>4. ASSUME NEW r \in Requests PROVE Advanced(r)'
      BY <1>1, <2>3 DEF Forgotten, Shapes, Advanced, Steps
    <2>5. ASSUME NEW v \in Users PROVE Past(v)'
      BY <1>1, <1>2, <2>1, <2>3 DEF Forgotten, Past, Hidden, Clean, Scopes
    <2> QED BY <2>2, <2>4, <2>5 DEF Forgotten
  <1> QED BY <1>3, <1>4

(* A step of request r that leaves accounts, novels and the cache alone    *)
(* and takes r to a step of which nothing is known.                        *)
LEMMA RequestsForget ==
  ASSUME Forgotten, NEW r \in Requests,
         NEW q \in [pc : Steps, of : Users \cup {Nobody}, scope : Scopes, keys : SUBSET Users],
         request' = [request EXCEPT ![r] = q],
         q.pc \in {"idle", "mark", "allow"}, q.pc # "idle" => q.of \in Users,
         UNCHANGED <<account, joining, shelf, cached, tomb, lowered, chat>>
  PROVE  Forgotten'
  <1>1. Shapes'
    BY DEF Forgotten, Shapes
  <1>2. ASSUME NEW i \in Requests PROVE Advanced(i)'
    <2>1. CASE i = r
      BY <2>1 DEF Forgotten, Shapes, Advanced
    <2>2. CASE i # r
      BY <2>2 DEF Forgotten, Shapes, Advanced, Fenced
    <2> QED BY <2>1, <2>2
  <1>3. ASSUME NEW u \in Users PROVE Past(u)'
    BY DEF Forgotten, Past, Hidden, Clean, Fenced
  <1> QED BY <1>1, <1>2, <1>3 DEF Forgotten

(* What the remaining steps keep: the fence of a scope whose erasure stands*)
(* or is under way, because lowering its tombstone is admitted.            *)
Kept ==
    \A u \in Users, s \in Scopes :
        Gone(u, s) \/ Underway(u, s) =>
            /\ Fenced(u, s) => Fenced(u, s)'
            /\ <<u, s>> \in tomb \cup lowered => <<u, s>> \in (tomb \cup lowered)'

(* A step that only adds tombstones keeps every fence. *)
LEMMA RaisesKeep ==
  ASSUME tomb \subseteq tomb', lowered' = lowered, cached' \subseteq cached
  PROVE  Kept
  BY DEF Kept, Fenced

(* A step that lowers a tombstone admits it where it matters. *)
LEMMA LowersKeep ==
  ASSUME NEW v, NEW t, Lower(v, t), cached' = cached
  PROVE  Kept
  <1> SUFFICES ASSUME NEW u \in Users, NEW s \in Scopes, Gone(u, s) \/ Underway(u, s)
               PROVE  /\ Fenced(u, s) => Fenced(u, s)'
                      /\ <<u, s>> \in tomb \cup lowered => <<u, s>> \in (tomb \cup lowered)'
    BY DEF Kept
  <1>1. lowered \subseteq lowered' /\ tomb' = tomb \ {<<v, t>>}
    BY DEF Lower
  <1>2. CASE u = v /\ s = t
    <2>1. <<u, s>> \in lowered'
      BY <1>2 DEF Lower
    <2> QED BY <2>1 DEF Fenced
  <1>3. CASE ~(u = v /\ s = t)
    <2>1. <<u, s>> # <<v, t>>
      BY <1>3
    <2> QED BY <1>1, <2>1 DEF Fenced
  <1> QED BY <1>2, <1>3

(* A request that does not move keeps what it has achieved. *)
LEMMA OthersAdvance ==
  ASSUME Forgotten, Kept, NEW i \in Requests, request'[i] = request[i]
  PROVE  Advanced(i)'
  <1>1. request[i].scope \in Scopes /\ Advanced(i)
    BY DEF Forgotten, Shapes
  <1>2. ASSUME NEW u \in Users, NEW s \in Scopes,
               request[i].of = u, request[i].scope = s,
               request[i].pc \in {"scan", "drop", "change"}
        PROVE  Advanced(i)'
    <2>1. Underway(u, s)
      BY <1>2 DEF Underway
    <2>2. /\ Fenced(u, s) => Fenced(u, s)'
          /\ <<u, s>> \in tomb \cup lowered => <<u, s>> \in (tomb \cup lowered)'
      BY <2>1 DEF Kept
    <2> QED BY <1>1, <1>2, <2>2 DEF Advanced, Fenced
  <1>3. CASE request[i].pc \notin {"scan", "drop", "change"}
    BY <1>1, <1>3 DEF Advanced
  <1> QED BY <1>1, <1>2, <1>3 DEF Advanced

(* An account whose row and novel do not change keeps its past. *)
LEMMA PastKept ==
  ASSUME Forgotten, Kept, NEW u \in Users,
         account'[u] = account[u], joining'[u] = joining[u],
         u \in shelf' <=> u \in shelf,
         cached' \subseteq cached, chat' = chat
  PROVE  Past(u)'
  <1>1. Past(u)
    BY DEF Forgotten
  <1>2. Clean(u) => Clean(u)'
    BY DEF Clean
  <1>3. u \notin shelf /\ Fenced(u, "novel") => Fenced(u, "novel")'
    BY DEF Kept, Gone, Scopes
  <1>4. account[u] = "gone" /\ Fenced(u, "account") => Fenced(u, "account")'
    BY DEF Kept, Gone, Scopes
  <1> QED BY <1>1, <1>2, <1>3, <1>4 DEF Past, Hidden

(* A step of request r to q that leaves the database alone. *)
LEMMA RequestKeeps ==
  ASSUME Forgotten, Kept, NEW r \in Requests,
         NEW q \in [pc : Steps, of : Users \cup {Nobody}, scope : Scopes, keys : SUBSET Users],
         request' = [request EXCEPT ![r] = q], Advanced(r)',
         UNCHANGED <<database, joining, chat>>, cached' \subseteq cached
  PROVE  Forgotten'
  <1>1. Shapes'
    BY DEF Forgotten, Shapes, database
  <1>2. ASSUME NEW i \in Requests PROVE Advanced(i)'
    <2>1. CASE i = r
      BY <2>1
    <2>2. CASE i # r
      BY <2>2, OthersAdvance DEF Forgotten, Shapes
    <2> QED BY <2>1, <2>2
  <1>3. ASSUME NEW u \in Users PROVE Past(u)'
    BY PastKept DEF database
  <1> QED BY <1>1, <1>2, <1>3 DEF Forgotten

(* Raising the tombstone, or failing to. *)
LEMMA MarkForgets ==
  ASSUME Forgotten, NEW r \in Requests, Mark(r)
  PROVE  Forgotten'
  <1>0. request[r].of \in Users /\ request[r].scope \in Scopes
    BY DEF Forgotten, Shapes, Advanced, Mark, At
  <1>1. PICK pc \in {"scan", "allow"} :
           /\ Goto(r, pc)
           /\ tomb \subseteq tomb'
           /\ pc = "scan" => <<request[r].of, request[r].scope>> \in tomb'
    BY DEF Mark, Raise
  <1>2. UNCHANGED <<database, joining, chat>> /\ cached' = cached /\ lowered' = lowered
    BY DEF Mark
  <1>3. Kept
    BY <1>1, <1>2, RaisesKeep
  <1> DEFINE q == [request[r] EXCEPT !.pc = pc]
  <1>4. request' = [request EXCEPT ![r] = q]
    BY <1>1 DEF Goto
  <1>5. q \in [pc : Steps, of : Users \cup {Nobody}, scope : Scopes, keys : SUBSET Users]
    BY DEF Forgotten, Shapes, Steps
  <1>6. Advanced(r)'
    BY <1>0, <1>1, <1>4 DEF Advanced, Forgotten, Shapes
  <1> QED BY <1>2, <1>3, <1>4, <1>5, <1>6, RequestKeeps

(* A scan that does not find the key leaves the scope fenced. *)
LEMMA ScanForgets ==
  ASSUME Forgotten, NEW r \in Requests, Scan(r)
  PROVE  Forgotten'
  <1>0. UNCHANGED <<database, joining, chat, cached, tomb, lowered>>
    BY DEF Scan, redis
  <1>1. Kept
    BY <1>0, RaisesKeep
  <1>2. request[r].of \in Users /\ request[r].scope \in Scopes
        /\ <<request[r].of, request[r].scope>> \in tomb \cup lowered
    BY DEF Forgotten, Shapes, Advanced, Scan, At
  <1>3. CASE request' = [request EXCEPT ![r].pc = "drop",
                                        ![r].keys = cached \cap {request[r].of}]
    <2> DEFINE q == [request[r] EXCEPT !.pc = "drop", !.keys = cached \cap {request[r].of}]
    <2>1. request' = [request EXCEPT ![r] = q]
      BY <1>3 DEF Forgotten, Shapes
    <2>2. q \in [pc : Steps, of : Users \cup {Nobody}, scope : Scopes, keys : SUBSET Users]
      BY DEF Forgotten, Shapes, Steps
    <2>3. request'[r] = q
      BY <2>1 DEF Forgotten, Shapes
    <2>4. /\ q.of = request[r].of /\ q.scope = request[r].scope
          /\ q.pc = "drop" /\ q.keys = cached \cap {request[r].of}
      BY DEF Forgotten, Shapes
    <2>5. Advanced(r)'
      BY <1>0, <1>2, <2>3, <2>4 DEF Advanced, Fenced
    <2> HIDE DEF q
    <2> QED BY <1>0, <1>1, <2>1, <2>2, <2>5, RequestKeeps
  <1>4. CASE Goto(r, "allow")
    <2> DEFINE q == [request[r] EXCEPT !.pc = "allow"]
    <2>1. request' = [request EXCEPT ![r] = q]
      BY <1>4 DEF Goto
    <2>2. q \in [pc : Steps, of : Users \cup {Nobody}, scope : Scopes, keys : SUBSET Users]
      BY DEF Forgotten, Shapes, Steps
    <2>3. Advanced(r)'
      BY <1>2, <2>1 DEF Advanced, Forgotten, Shapes
    <2> HIDE DEF q
    <2> QED BY <1>0, <1>1, <2>1, <2>2, <2>3, RequestKeeps
  <1> QED BY <1>3, <1>4 DEF Scan

(* Deleting what the scan found fences the scope. *)
LEMMA DropForgets ==
  ASSUME Forgotten, NEW r \in Requests, Drop(r)
  PROVE  Forgotten'
  <1> DEFINE p == <<request[r].of, request[r].scope>>
  <1>0. UNCHANGED <<database, joining, chat, tomb>> /\ cached' \subseteq cached
    BY DEF Drop
  <1>2. request[r].of \in Users /\ request[r].scope \in Scopes
        /\ p \in tomb \cup lowered
        /\ (request[r].of \notin request[r].keys => Fenced(request[r].of, request[r].scope))
    BY DEF Forgotten, Shapes, Advanced, Drop, At
  <1>3. CASE /\ cached' = cached \ request[r].keys
             /\ lowered' = IF p \in tomb /\ request[r].of \notin cached'
                           THEN lowered \ {p} ELSE lowered
             /\ Goto(r, "change")
    <2> DEFINE q == [request[r] EXCEPT !.pc = "change"]
    <2>1. request' = [request EXCEPT ![r] = q]
      BY <1>3 DEF Goto
    <2>2. q \in [pc : Steps, of : Users \cup {Nobody}, scope : Scopes, keys : SUBSET Users]
      BY DEF Forgotten, Shapes, Steps
    <2>3. ASSUME NEW u \in Users, NEW s \in Scopes, Fenced(u, s) PROVE Fenced(u, s)'
      <3>1. CASE <<u, s>> = p
        <4>1. u = request[r].of
          BY <3>1
        <4> QED BY <1>0, <1>3, <2>3, <3>1, <4>1 DEF Fenced
      <3>2. CASE <<u, s>> # p
        BY <1>0, <1>3, <2>3, <3>2 DEF Fenced
      <3> QED BY <3>1, <3>2
    <2>4. tomb \cup lowered \subseteq (tomb \cup lowered)'
      BY <1>0, <1>3
    <2>5. Kept
      BY <2>3, <2>4 DEF Kept
    <2>6. request[r].of \in request[r].keys => request[r].of \notin cached'
      BY <1>3
    <2>7. (p \in tomb' /\ request[r].of \notin cached') \/ p \in lowered'
      BY <1>0, <1>2, <1>3, <2>3, <2>6 DEF Fenced
    <2>8. request'[r] = q /\ q.of = request[r].of /\ q.scope = request[r].scope
          /\ q.pc = "change"
      BY <2>1 DEF Forgotten, Shapes
    <2>9. Advanced(r)'
      BY <1>2, <2>7, <2>8 DEF Advanced, Fenced
    <2> HIDE DEF q
    <2> QED BY <1>0, <2>1, <2>2, <2>5, <2>9, RequestKeeps
  <1>4. CASE Goto(r, "allow") /\ UNCHANGED <<cached, lowered>>
    <2> DEFINE q == [request[r] EXCEPT !.pc = "allow"]
    <2>1. request' = [request EXCEPT ![r] = q]
      BY <1>4 DEF Goto
    <2>2. q \in [pc : Steps, of : Users \cup {Nobody}, scope : Scopes, keys : SUBSET Users]
      BY DEF Forgotten, Shapes, Steps
    <2>3. Advanced(r)'
      BY <1>2, <2>1 DEF Advanced, Forgotten, Shapes
    <2>4. Kept
      BY <1>0, <1>4, RaisesKeep
    <2> HIDE DEF q
    <2> QED BY <1>0, <1>4, <2>1, <2>2, <2>3, <2>4, RequestKeeps
  <1> QED BY <1>3, <1>4 DEF Drop

(* A request that gives up or ends is left with nothing to keep. *)
LEMMA EndsAdvance ==
  ASSUME Forgotten, Kept, NEW r \in Requests, request[r].pc # "idle",
         Goto(r, "allow") \/ Ends(r)
  PROVE  /\ request' \in [Requests -> [pc : Steps, of : Users \cup {Nobody},
                                      scope : Scopes, keys : SUBSET Users]]
         /\ \A i \in Requests : Advanced(i)'
  <1>1. PICK q \in [pc : Steps, of : Users \cup {Nobody}, scope : Scopes, keys : SUBSET Users] :
           /\ request' = [request EXCEPT ![r] = q]
           /\ q.pc \in {"idle", "allow"}
           /\ q.pc # "idle" => q.of \in Users
    <2>1. CASE Goto(r, "allow")
      <3> DEFINE q == [request[r] EXCEPT !.pc = "allow"]
      <3>1. q \in [pc : Steps, of : Users \cup {Nobody}, scope : Scopes, keys : SUBSET Users]
        BY DEF Forgotten, Shapes, Steps
      <3>2. q.pc = "allow" /\ q.of = request[r].of /\ request' = [request EXCEPT ![r] = q]
        BY <2>1 DEF Goto, Forgotten, Shapes
      <3>3. q.of \in Users
        BY <3>2 DEF Forgotten, Advanced
      <3> HIDE DEF q
      <3> QED BY <3>1, <3>2, <3>3
    <2>2. CASE Ends(r)
      <3>1. Quiet \in [pc : Steps, of : Users \cup {Nobody}, scope : Scopes, keys : SUBSET Users]
            /\ Quiet.pc = "idle"
        BY DEF Quiet, Steps, Scopes
      <3> QED BY <2>2, <3>1 DEF Ends
    <2> QED BY <2>1, <2>2
  <1>2. ASSUME NEW i \in Requests PROVE Advanced(i)'
    <2>1. CASE i = r
      BY <1>1, <2>1 DEF Forgotten, Shapes, Advanced
    <2>2. CASE i # r
      BY <1>1, <2>2, OthersAdvance DEF Forgotten, Shapes
    <2> QED BY <2>1, <2>2
  <1> QED BY <1>1, <1>2 DEF Forgotten, Shapes

(* The database forgets an account, or its novel, behind the fence. *)
LEMMA ChangeForgets ==
  ASSUME Forgotten, NEW r \in Requests, EraseAccount(r) \/ Detach(r) \/ ChangeFails(r)
  PROVE  Forgotten'
  <1> DEFINE u == request[r].of
  <1>0. UNCHANGED <<joining, chat, cached, tomb, lowered>>
    BY DEF EraseAccount, Detach, ChangeFails, redis
  <1>1. Kept
    BY <1>0, RaisesKeep
  <1>2. u \in Users /\ request[r].pc = "change" /\ Fenced(u, request[r].scope)
    BY DEF EraseAccount, Detach, ChangeFails, At, Forgotten, Advanced
  <1>3. Goto(r, "allow") \/ Ends(r)
    BY DEF EraseAccount, Detach, ChangeFails
  <1>4. /\ request' \in [Requests -> [pc : Steps, of : Users \cup {Nobody},
                                     scope : Scopes, keys : SUBSET Users]]
        /\ \A i \in Requests : Advanced(i)'
    BY <1>1, <1>2, <1>3, EndsAdvance
  <1>5. CASE UNCHANGED database
    <2>1. ASSUME NEW v \in Users PROVE Past(v)'
      BY <1>0, <1>1, <1>5, PastKept DEF database
    <2> QED BY <1>0, <1>4, <1>5, <2>1 DEF Forgotten, Shapes, database
  <1>6. CASE request[r].scope = "account" /\ u \in Live /\ Erased(u)
    <2>1. account' = [account EXCEPT ![u] = "gone"] /\ shelf' = shelf \ {u}
      BY <1>6 DEF Erased
    <2>2. Shapes'
      BY <1>0, <1>4, <2>1 DEF Forgotten, Shapes
    <2>3. ASSUME NEW v \in Users PROVE Past(v)'
      <3>1. CASE v = u
        <4>1. account'[v] = "gone" /\ v \notin shelf'
          BY <2>1, <3>1 DEF Forgotten, Shapes
        <4>2. joining'[v] = "no"
          BY <1>0, <1>6, <3>1 DEF Forgotten, Shapes, Past, Live
        <4>3. Fenced(v, "account")'
          BY <1>0, <1>2, <1>6, <3>1 DEF Fenced
        <4> QED BY <4>1, <4>2, <4>3 DEF Past, Hidden
      <3>2. CASE v # u
        BY <1>0, <1>1, <2>1, <3>2, PastKept DEF Forgotten, Shapes
      <3> QED BY <3>1, <3>2
    <2> QED BY <1>4, <2>2, <2>3 DEF Forgotten
  <1>7. CASE request[r].scope = "novel" /\ shelf' = shelf \ {u} /\ UNCHANGED account
    <2>1. Shapes'
      BY <1>0, <1>4, <1>7 DEF Forgotten, Shapes
    <2>2. ASSUME NEW v \in Users PROVE Past(v)'
      <3>1. CASE v = u
        <4>1. v \notin shelf' /\ Fenced(v, "novel")'
          BY <1>0, <1>2, <1>7, <3>1 DEF Fenced
        <4>2. account'[v] = account[v] /\ joining'[v] = joining[v] /\ (Clean(v) => Clean(v)')
          BY <1>0, <1>7 DEF Clean
        <4> QED BY <4>1, <4>2 DEF Past, Hidden, Forgotten
      <3>2. CASE v # u
        BY <1>0, <1>1, <1>7, <3>2, PastKept
      <3> QED BY <3>1, <3>2
    <2> QED BY <1>4, <2>1, <2>2 DEF Forgotten
  <1> QED BY <1>5, <1>6, <1>7 DEF EraseAccount, Detach, ChangeFails, database

(* Lowering a tombstone, at once or after its caller gave up. *)
LEMMA AllowForgets ==
  ASSUME Forgotten, NEW r \in Requests, Allow(r)
  PROVE  Forgotten'
  <1>0. UNCHANGED <<database, joining, chat, cached>> /\ Ends(r) /\ request[r].pc # "idle"
    BY DEF Allow, At
  <1>1. Kept
    <2>1. CASE Lower(request[r].of, request[r].scope)
      BY <1>0, <2>1, LowersKeep
    <2>2. CASE UNCHANGED <<tomb, lowered>>
      BY <1>0, <2>2, RaisesKeep
    <2> QED BY <2>1, <2>2 DEF Allow
  <1>2. ASSUME NEW v \in Users PROVE Past(v)'
    BY <1>0, <1>1, PastKept DEF database
  <1> QED BY <1>0, <1>1, <1>2, EndsAdvance DEF Forgotten, Shapes, database

LEMMA LateForgets ==
  ASSUME Forgotten, NEW c \in late, Late(c)
  PROVE  Forgotten'
  <1>0. UNCHANGED <<database, joining, chat, cached, request>>
    BY DEF Late
  <1>1. Kept
    <2>1. CASE Lower(c.of, c.scope)
      BY <1>0, <2>1, LowersKeep
    <2>2. CASE Raise(c.of, c.scope) /\ UNCHANGED lowered
      BY <1>0, <2>2, RaisesKeep DEF Raise
    <2> QED BY <2>1, <2>2 DEF Late
  <1>2. ASSUME NEW v \in Users PROVE Past(v)'
    BY <1>0, <1>1, PastKept DEF database
  <1>3. ASSUME NEW i \in Requests PROVE Advanced(i)'
    BY <1>0, <1>1, OthersAdvance
  <1> QED BY <1>0, <1>2, <1>3 DEF Forgotten, Shapes, database

(* A tombstone outlasts every projection it was raised against. *)
LEMMA ExpiryForgets ==
  ASSUME Forgotten, NEW u \in Users, NEW s \in Scopes, TombstoneExpires(u, s)
  PROVE  Forgotten'
  <1>0. /\ UNCHANGED <<database, joining, cached, chat, request, lowered>>
        /\ u \notin chat /\ tomb' = tomb \ {<<u, s>>}
        /\ \A i \in Requests : request[i].of # u
    BY DEF TombstoneExpires
  <1>1. ASSUME NEW v \in Users, v # u, NEW t \in Scopes
        PROVE  <<v, t>> \in tomb <=> <<v, t>> \in tomb'
    BY <1>0, <1>1
  <1>2. ASSUME NEW i \in Requests PROVE Advanced(i)'
    <2>1. request[i].scope \in Scopes /\ request[i].of # u /\ Advanced(i)
      BY <1>0 DEF Forgotten, Shapes
    <2> QED BY <1>0, <1>1, <2>1 DEF Advanced, Fenced, Steps
  <1>3. ASSUME NEW v \in Users PROVE Past(v)'
    <2>1. CASE v = u
      BY <1>0, <2>1 DEF Forgotten, Past, Hidden, Clean, Fenced, database
    <2>2. CASE v # u
      BY <1>0, <1>1, <2>2 DEF Forgotten, Past, Hidden, Clean, Fenced, database, Scopes
    <2> QED BY <2>1, <2>2
  <1> QED BY <1>0, <1>2, <1>3 DEF Forgotten, Shapes, database

(* Requests that begin; an attachment puts a novel only on a live shelf. *)
LEMMA BeginsForget ==
  ASSUME Forgotten, NEW r \in Requests, NEW u \in Users,
         DeleteAccount(r, u) \/ RemoveFromShelf(r, u) \/ AttachSharedNovel(r, u)
  PROVE  Forgotten'
  <1>0. UNCHANGED <<account, joining, cached, tomb, lowered, chat>>
    BY DEF DeleteAccount, RemoveFromShelf, AttachSharedNovel, database, redis
  <1>1. \E pc \in {"mark", "allow"}, t \in Scopes : Begins(r, pc, u, t)
    BY DEF DeleteAccount, RemoveFromShelf, AttachSharedNovel, Scopes
  <1>2. PICK q \in [pc : Steps, of : Users \cup {Nobody}, scope : Scopes, keys : SUBSET Users] :
           /\ request' = [request EXCEPT ![r] = q]
           /\ q.pc \in {"idle", "mark", "allow"} /\ q.of \in Users
    <2>1. PICK pc \in {"mark", "allow"}, t \in Scopes : Begins(r, pc, u, t)
      BY <1>1
    <2> DEFINE q == [pc |-> pc, of |-> u, scope |-> t, keys |-> {}]
    <2>2. q \in [pc : Steps, of : Users \cup {Nobody}, scope : Scopes, keys : SUBSET Users]
      BY DEF Steps
    <2>3. q.pc \in {"idle", "mark", "allow"} /\ q.of \in Users
      OBVIOUS
    <2>4. request' = [request EXCEPT ![r] = q]
      BY <2>1 DEF Begins
    <2> HIDE DEF q
    <2> QED BY <2>2, <2>3, <2>4
  <1>3. CASE UNCHANGED shelf
    BY <1>0, <1>2, <1>3, RequestsForget
  <1>4. CASE u \in Live /\ shelf' = shelf \cup {u}
    <2>1. Shapes'
      BY <1>0, <1>2 DEF Forgotten, Shapes
    <2>2. ASSUME NEW i \in Requests PROVE Advanced(i)'
      <3>1. CASE i = r
        BY <1>2, <3>1 DEF Forgotten, Shapes, Advanced
      <3>2. CASE i # r
        BY <1>0, <1>2, <3>2 DEF Forgotten, Shapes, Advanced, Fenced
      <3> QED BY <3>1, <3>2
    <2>3. ASSUME NEW v \in Users PROVE Past(v)'
      BY <1>0, <1>4 DEF Forgotten, Past, Hidden, Clean, Fenced, Live
    <2> QED BY <2>1, <2>2, <2>3 DEF Forgotten
  <1> QED BY <1>3, <1>4 DEF DeleteAccount, RemoveFromShelf, AttachSharedNovel, database

LEMMA ForgottenStep == Forgotten /\ [Next]_vars => Forgotten'
  <1> SUFFICES ASSUME Forgotten, [Next]_vars PROVE Forgotten'
    OBVIOUS
  <1>1. ASSUME NEW u \in Users,
               \/ Register(u) \/ SaveCheck(u) \/ SaveInsert(u)
               \/ Setup(u) \/ SaveInitialSetup(u)
        PROVE  Forgotten'
    BY <1>1, JoinsForget
  <1>2. ASSUME NEW u \in Users, CommitTurn(u) \/ PushTurn(u) PROVE Forgotten'
    BY <1>2, TurnsForget
  <1>3. ASSUME NEW r \in Requests, NEW u \in Users,
               DeleteAccount(r, u) \/ RemoveFromShelf(r, u) \/ AttachSharedNovel(r, u)
        PROVE  Forgotten'
    BY <1>3, BeginsForget
  <1>4. ASSUME NEW r \in Requests, Mark(r) PROVE Forgotten'
    BY <1>4, MarkForgets
  <1>5. ASSUME NEW r \in Requests, Scan(r) PROVE Forgotten'
    BY <1>5, ScanForgets
  <1>6. ASSUME NEW r \in Requests, Drop(r) PROVE Forgotten'
    BY <1>6, DropForgets
  <1>7. ASSUME NEW r \in Requests, EraseAccount(r) \/ Detach(r) \/ ChangeFails(r)
        PROVE  Forgotten'
    BY <1>7, ChangeForgets
  <1>8. ASSUME NEW r \in Requests, Allow(r) PROVE Forgotten'
    BY <1>8, AllowForgets
  <1>9. ASSUME NEW c \in late, Late(c) PROVE Forgotten'
    BY <1>9, LateForgets
  <1>10. ASSUME NEW u \in Users, NEW s \in Scopes, TombstoneExpires(u, s) PROVE Forgotten'
    BY <1>10, ExpiryForgets
  <1>11. CASE UNCHANGED vars
    BY <1>11 DEF vars, database, redis, Forgotten, Shapes, Advanced, Past, Hidden, Clean, Fenced
  <1> QED
    BY <1>1, <1>2, <1>3, <1>4, <1>5, <1>6, <1>7, <1>8, <1>9, <1>10, <1>11 DEF Next

(* Once an account is erased, or a novel is off its shelf, none of its     *)
(* text is or comes into the cache, except through a tombstone lowered     *)
(* while the erasure stands.                                               *)
THEOREM ErasedStaysErasedHolds == Spec => []ErasedStaysErased
  <1>1. Forgotten => ErasedStaysErased
    <2> SUFFICES ASSUME Forgotten, NEW u \in cached, u \notin Live \cap shelf
                 PROVE  \E s \in Scopes : <<u, s>> \in lowered
      BY DEF ErasedStaysErased
    <2>1. u \in Users /\ Past(u)
      BY DEF Forgotten, Shapes
    <2>2. u \notin shelf
      BY <2>1 DEF Past, Live
    <2> QED BY <2>1, <2>2 DEF Past, Hidden, Clean, Fenced, Scopes
  <1> QED BY ForgottenInit, ForgottenStep, <1>1, PTL DEF Spec

--------------------------------------------------------------------------------
(* Who keeps the account and the novel keeps the projection.  Until a call *)
(* fails, every tombstone that is up has a reason: its erasure stands, or  *)
(* a request of the scope raised it and will either erase or lower it.  An *)
(* attachment takes the first reason away and brings the second.           *)
Answering(u, s) ==
    \E r \in Requests : /\ request[r].of = u /\ request[r].scope = s
                        /\ request[r].pc \in {"scan", "drop", "change", "allow"}

Reasoned == \A u \in Users, s \in Scopes : <<u, s>> \in tomb => Gone(u, s) \/ Answering(u, s)

Answered ==
    /\ faults \in Nat
    /\ faults = 0 => late = {} /\ Reasoned

LEMMA AnsweredInit == Init => Answered
  BY DEF Init, Answered, Reasoned

(* A fault is counted. *)
LEMMA FaultCounts == ASSUME faults \in Nat, Fault PROVE faults' \in Nat /\ faults' # 0
  BY DEF Fault

(* A step that erases nothing, raises nothing and leaves the requests be   *)
(* keeps the reasons.                                                      *)
LEMMA AsideReasons ==
  ASSUME Reasoned, UNCHANGED <<shelf, request>>, tomb' \subseteq tomb,
         \A u \in Users : account[u] = "gone" => account'[u] = "gone"
  PROVE  Reasoned'
  <1> SUFFICES ASSUME NEW u \in Users, NEW s \in Scopes, <<u, s>> \in tomb'
               PROVE  Gone(u, s)' \/ Answering(u, s)'
    BY DEF Reasoned
  <1>1. Gone(u, s) \/ Answering(u, s)
    BY DEF Reasoned
  <1> QED BY <1>1 DEF Gone, Answering

(* A step of one request keeps the reasons that are not its own. *)
LEMMA OthersReason ==
  ASSUME Forgotten, Reasoned, NEW r \in Requests,
         \A i \in Requests \ {r} : request'[i] = request[i],
         NEW u \in Users, NEW s \in Scopes, <<u, s>> \in tomb,
         Gone(u, s) => Gone(u, s)',
         ~ (request[r].of = u /\ request[r].scope = s /\ request[r].pc \in {"scan", "drop", "change", "allow"})
  PROVE  Gone(u, s)' \/ Answering(u, s)'
  <1>1. CASE Gone(u, s)
    BY <1>1
  <1>2. CASE Answering(u, s)
    BY <1>2 DEF Answering
  <1> QED BY <1>1, <1>2 DEF Reasoned

(* A request that begins: its attachment answers for its scope. *)
LEMMA BeginsReasons ==
  ASSUME Forgotten, Reasoned, NEW r \in Requests, NEW x \in Users,
         DeleteAccount(r, x) \/ RemoveFromShelf(r, x) \/ AttachSharedNovel(r, x)
  PROVE  Reasoned'
  <1> SUFFICES ASSUME NEW u \in Users, NEW s \in Scopes, <<u, s>> \in tomb'
               PROVE  Gone(u, s)' \/ Answering(u, s)'
    BY DEF Reasoned
  <1>0. UNCHANGED <<account, tomb>> /\ request[r].pc = "idle"
    BY DEF DeleteAccount, RemoveFromShelf, AttachSharedNovel, database, redis, At
  <1>1. \A i \in Requests \ {r} : request'[i] = request[i]
    <2>1. \E pc \in Steps, t \in Scopes : Begins(r, pc, x, t)
      BY DEF DeleteAccount, RemoveFromShelf, AttachSharedNovel, Scopes, Steps
    <2> QED BY <2>1 DEF Begins, Forgotten, Shapes
  <1>2. CASE u = x /\ s = "novel" /\ AttachSharedNovel(r, x)
    <2>1. request'[r].of = x /\ request'[r].scope = "novel" /\ request'[r].pc = "allow"
      BY <1>2 DEF AttachSharedNovel, Begins, Forgotten, Shapes
    <2> QED BY <1>2, <2>1 DEF Answering
  <1>3. CASE ~ (u = x /\ s = "novel" /\ AttachSharedNovel(r, x))
    <2>1. Gone(u, s) => Gone(u, s)'
      BY <1>0, <1>3 DEF Gone, Scopes, DeleteAccount, RemoveFromShelf, AttachSharedNovel, database
    <2> QED BY <1>0, <1>1, <2>1, OthersReason
  <1> QED BY <1>2, <1>3

(* A request that goes on without a fault to a step that answers. *)
LEMMA GoesOnReasons ==
  ASSUME Forgotten, Reasoned, NEW r \in Requests, UNCHANGED <<account, shelf>>,
         \A i \in Requests \ {r} : request'[i] = request[i],
         request'[r].of = request[r].of, request'[r].scope = request[r].scope,
         request'[r].pc \in {"scan", "drop", "change", "allow"},
         tomb' \subseteq tomb \cup {<<request[r].of, request[r].scope>>}
  PROVE  Reasoned'
  <1> SUFFICES ASSUME NEW u \in Users, NEW s \in Scopes, <<u, s>> \in tomb'
               PROVE  Gone(u, s)' \/ Answering(u, s)'
    BY DEF Reasoned
  <1>1. CASE request[r].of = u /\ request[r].scope = s
    BY <1>1 DEF Answering
  <1>2. CASE ~ (request[r].of = u /\ request[r].scope = s)
    <2>1. <<u, s>> \in tomb
      BY <1>2
    <2>2. Gone(u, s) => Gone(u, s)'
      BY DEF Gone
    <2> QED BY <1>2, <2>1, <2>2, OthersReason
  <1> QED BY <1>1, <1>2

(* A request that ends: its erasure stands, or its tombstone is down. *)
LEMMA EndsReasons ==
  ASSUME Forgotten, Reasoned, NEW r \in Requests, Ends(r), tomb' \subseteq tomb,
         NEW x, NEW t, request[r].of = x, request[r].scope = t,
         \A u \in Users, s \in Scopes : Gone(u, s) => Gone(u, s)',
         Gone(x, t)' \/ <<x, t>> \notin tomb'
  PROVE  Reasoned'
  <1> SUFFICES ASSUME NEW u \in Users, NEW s \in Scopes, <<u, s>> \in tomb'
               PROVE  Gone(u, s)' \/ Answering(u, s)'
    BY DEF Reasoned
  <1>1. CASE u = x /\ s = t
    BY <1>1
  <1>2. CASE ~ (u = x /\ s = t)
    BY <1>2, OthersReason DEF Ends
  <1> QED BY <1>1, <1>2

(* The change of the database: it erases, or it is refused and the request *)
(* turns to lowering.                                                      *)
LEMMA ChangeReasons ==
  ASSUME Forgotten, Reasoned, NEW r \in Requests, EraseAccount(r) \/ Detach(r), ~Fault
  PROVE  Reasoned'
  <1>0. PICK x \in Users : request[r].of = x
    BY DEF Forgotten, Advanced, EraseAccount, Detach, At
  <1>1. request[r].pc = "change" /\ UNCHANGED tomb
    BY DEF EraseAccount, Detach, At, redis
  <1>2. CASE UNCHANGED database /\ Goto(r, "allow")
    <2>1. /\ \A i \in Requests \ {r} : request'[i] = request[i]
          /\ request'[r].of = x /\ request'[r].scope = request[r].scope /\ request'[r].pc = "allow"
      BY <1>0, <1>2 DEF Goto, Forgotten, Shapes
    <2> QED BY <1>0, <1>1, <1>2, <2>1, GoesOnReasons DEF database
  <1>3. CASE UNCHANGED database /\ Ends(r) /\ account[x] = "gone" /\ request[r].scope = "account"
    <2>1. \A u \in Users, s \in Scopes : Gone(u, s) => Gone(u, s)'
      BY <1>3 DEF Gone, database
    <2>2. Gone(x, "account")'
      BY <1>3 DEF Gone, database
    <2> QED BY <1>0, <1>1, <1>3, <2>1, <2>2, EndsReasons
  <1>4. CASE Erased(x) /\ Ends(r) /\ request[r].scope = "account"
    <2>1. account'[x] = "gone" /\ \A u \in Users : account[u] = "gone" => account'[u] = "gone"
      BY <1>4 DEF Erased, Forgotten, Shapes
    <2>2. \A u \in Users, s \in Scopes : Gone(u, s) => Gone(u, s)'
      BY <1>4, <2>1 DEF Gone, Erased
    <2>3. Gone(x, "account")'
      BY <1>4, <2>1 DEF Gone
    <2> QED BY <1>0, <1>1, <1>4, <2>2, <2>3, EndsReasons
  <1>5. CASE Detach(r) /\ Ends(r)
    <2>1. shelf' = shelf \ {x} /\ account' = account /\ request[r].scope = "novel"
      BY <1>0, <1>5 DEF Detach
    <2>2. \A u \in Users, s \in Scopes : Gone(u, s) => Gone(u, s)'
      BY <2>1 DEF Gone
    <2>3. Gone(x, "novel")'
      BY <2>1 DEF Gone
    <2> QED BY <1>0, <1>1, <1>5, <2>1, <2>2, <2>3, EndsReasons
  <1> QED BY <1>0, <1>2, <1>3, <1>4, <1>5 DEF EraseAccount, Detach

LEMMA AnsweredStep == Forgotten /\ Answered /\ [Next]_vars => Answered'
  <1> SUFFICES ASSUME Forgotten, Answered, [Next]_vars PROVE Answered'
    OBVIOUS
  <1> USE DEF Answered
  <1>f. ASSUME Fault PROVE Answered'
    BY <1>f, FaultCounts
  <1>g. ASSUME faults' = faults, late' = late, faults = 0 => Reasoned' PROVE Answered'
    BY <1>g
  <1>1. ASSUME NEW u \in Users,
               \/ Register(u) \/ SaveCheck(u) \/ SaveInsert(u)
               \/ Setup(u) \/ SaveInitialSetup(u) \/ CommitTurn(u) \/ PushTurn(u)
        PROVE  Answered'
    <2>1. UNCHANGED <<shelf, request, tomb, late, faults>>
      BY <1>1 DEF Register, SaveCheck, SaveInsert, Setup, SaveInitialSetup, CommitTurn, PushTurn,
                  Joins, redis, database
    <2>2. /\ account' \in {account, [account EXCEPT ![u] = "live"]}
          /\ account' # account => joining[u] # "no"
      BY <1>1 DEF Register, SaveCheck, SaveInsert, Setup, SaveInitialSetup, CommitTurn, PushTurn,
                  database
    <2>3. \A v \in Users : account[v] = "gone" => account'[v] = "gone"
      BY <2>2 DEF Forgotten, Shapes, Past
    <2> QED BY <1>g, <2>1, <2>3, AsideReasons
  <1>2. ASSUME NEW r \in Requests, NEW u \in Users,
               DeleteAccount(r, u) \/ RemoveFromShelf(r, u) \/ AttachSharedNovel(r, u)
        PROVE  Answered'
    <2>1. UNCHANGED <<late, faults>>
      BY <1>2 DEF DeleteAccount, RemoveFromShelf, AttachSharedNovel
    <2> QED BY <1>2, <1>g, <2>1, BeginsReasons
  <1>3. ASSUME NEW r \in Requests, Mark(r) \/ Scan(r) \/ Drop(r), ~Fault PROVE Answered'
    <2>1. /\ UNCHANGED <<account, shelf, late, faults>>
          /\ tomb' \subseteq tomb \cup {<<request[r].of, request[r].scope>>}
      BY <1>3 DEF Mark, Scan, Drop, Raise, database, redis
    <2>2. /\ \A i \in Requests \ {r} : request'[i] = request[i]
          /\ request'[r].of = request[r].of /\ request'[r].scope = request[r].scope
          /\ request'[r].pc \in {"scan", "drop", "change"}
      BY <1>3 DEF Mark, Scan, Drop, Goto, Forgotten, Shapes
    <2> QED BY <1>g, <2>1, <2>2, GoesOnReasons
  <1>4. ASSUME NEW r \in Requests, EraseAccount(r) \/ Detach(r), ~Fault PROVE Answered'
    <2>1. UNCHANGED <<late, faults>>
      BY <1>4 DEF EraseAccount, Detach
    <2> QED BY <1>4, <1>g, <2>1, ChangeReasons
  <1>5. ASSUME NEW r \in Requests, Allow(r), ~Fault PROVE Answered'
    <2>1. UNCHANGED <<late, faults, account, shelf>> /\ Ends(r)
      BY <1>5 DEF Allow, database
    <2>2. tomb' = tomb \ {<<request[r].of, request[r].scope>>}
      BY <1>5 DEF Allow, Lower
    <2>3. \A u \in Users, s \in Scopes : Gone(u, s) => Gone(u, s)'
      BY <2>1 DEF Gone
    <2> QED BY <1>g, <2>1, <2>2, <2>3, EndsReasons
  <1>6. ASSUME NEW c \in late, Late(c) PROVE Answered'
    BY <1>6 DEF Late
  <1>7. ASSUME NEW u \in Users, NEW s \in Scopes, TombstoneExpires(u, s) PROVE Answered'
    <2>1. UNCHANGED <<account, shelf, request, late, faults>> /\ tomb' \subseteq tomb
      BY <1>7 DEF TombstoneExpires, database
    <2> QED BY <1>g, <2>1, AsideReasons
  <1>8. CASE UNCHANGED vars
    BY <1>8, <1>g, AsideReasons DEF vars
  <1>9. ASSUME NEW r \in Requests, ChangeFails(r) PROVE Answered'
    BY <1>9, <1>f DEF ChangeFails
  <1> QED BY <1>1, <1>2, <1>3, <1>4, <1>5, <1>6, <1>7, <1>8, <1>9, <1>f DEF Next

(* Unless a call failed, every refused erasure lowers what it raised: a    *)
(* reader who keeps the account and the novel is left with a tombstone     *)
(* only while a request of that reader is under way, however deletions,    *)
(* removals and attachments of one reader overlap.                         *)
THEOREM KeptIsProjectedHolds == Spec => []KeptIsProjected
  <1>1. Answered => KeptIsProjected
    <2> SUFFICES ASSUME Answered, faults = 0, NEW u \in Live, NEW s \in Scopes, <<u, s>> \in tomb
                 PROVE  (s = "novel" /\ u \notin shelf) \/ \E r \in Requests : request[r].of = u
      BY DEF KeptIsProjected
    <2>1. u \in Users /\ account[u] # "gone"
      BY DEF Live
    <2>2. Gone(u, s) \/ Answering(u, s)
      BY <2>1 DEF Answered, Reasoned
    <2>3. CASE Gone(u, s)
      BY <2>1, <2>3 DEF Gone, Scopes
    <2>4. CASE Answering(u, s)
      BY <2>4 DEF Answering
    <2> QED BY <2>2, <2>3, <2>4
  <1>2. Forgotten /\ Answered /\ [Next]_vars => Forgotten' /\ Answered'
    BY ForgottenStep, AnsweredStep
  <1> QED BY ForgottenInit, AnsweredInit, <1>1, <1>2, PTL DEF Spec

--------------------------------------------------------------------------------
(* Sessions *)

Places == Tabs \X Slots
Posts == [pair : Pairs, at : {"sent", "found"}, to : Places \cup {<<>>}]
Calls == [pc : {"idle", "sent", "joined", "posted"}, pair : 0 .. MaxPairs, again : BOOLEAN,
          fresh : BOOLEAN, reply : 0 .. MaxPairs + 1]
Auths == [pair : 0 .. MaxPairs, fresh : BOOLEAN]

\* A refresh row was issued; its sign-in issued an older one, or itself.
ServerTyped ==
    /\ issued \in 0 .. MaxPairs
    /\ rows \subseteq 1 .. issued
    /\ login \in [Pairs -> Nat]
    /\ \A i \in 1 .. issued : login[i] \in 1 .. i
    /\ aged \in Nat /\ lapsed \in Nat /\ misses \in Nat
    /\ ended \subseteq 1 .. issued

PostsTyped ==
    /\ posts \subseteq Posts
    /\ \A p \in posts : p.pair \in 1 .. issued

\* A request under way has a pair, and only one that rotates gets an answer.
Sound(c, n) ==
    /\ c.pair <= n
    /\ c.reply <= n \/ c.reply = Refused
    /\ c.pc # "idle" => c.pair # None
    /\ c.pc # "posted" => c.reply = None

CallsTyped ==
    /\ call \in [Tabs -> [Slots -> Calls]]
    /\ \A t \in Tabs, s \in Slots : Sound(call[t][s], issued)

TabTyped ==
    /\ stored \in 0 .. issued
    /\ last \in [Tabs -> 0 .. MaxPairs]
    /\ stored = None => \A t \in Tabs : last[t] = None
    /\ auth \in [Tabs -> Auths]
    /\ \A t \in Tabs : /\ auth[t].pair <= issued
                       /\ auth[t].fresh => auth[t].pair # None

TypeInv == ServerTyped /\ PostsTyped /\ CallsTyped /\ TabTyped

\* A rotation at the server answers the one call that posted it and waits for it still.
PostInv ==
    /\ \A p \in posts, t \in Tabs, s \in Slots : p.to = <<t, s>> =>
         call[t][s].pc = "posted" /\ call[t][s].pair = p.pair /\ call[t][s].reply = None
    /\ \A p, q \in posts : p.to = q.to /\ p.to # <<>> => p = q

\* Pair i begins a sign-in that nobody logged out of and that is not the stored one.
OwnSignIn(i, of, out, kept) ==
    /\ of[i] = i /\ i \notin out
    /\ kept # None => of[kept] # i

\* A call's answer is a pair of the sign-in it was asked for, and what is stored was not
\* logged out of.  A sign-in under way is neither the stored one nor another tab's, so no
\* logout can end it.
AuthInv ==
    /\ \A t \in Tabs, s \in Slots : call[t][s].reply \in Pairs =>
         login[call[t][s].reply] = login[call[t][s].pair]
    /\ \A t \in Tabs : auth[t].pair # None => OwnSignIn(auth[t].pair, login, ended, stored)
    /\ \A t, u \in Tabs : auth[t].pair # None /\ auth[t].pair = auth[u].pair => t = u
    /\ LoggedOutStaysOut

\* A pair on its way to the browser is live, and nobody else can know it.
Unseen(i, live, kept, asked) ==
    /\ i \in live
    /\ i # kept
    /\ \A p \in asked : p.pair # i

FreshInv ==
    /\ \A t \in Tabs, s \in Slots : call[t][s].reply \in Pairs =>
         Unseen(call[t][s].reply, rows, stored, posts)
    /\ \A t \in Tabs : auth[t].pair # None => Unseen(auth[t].pair, rows, stored, posts)
    /\ \A t, u \in Tabs, s, r \in Slots :
         call[t][s].reply \in Pairs /\ call[t][s].reply = call[u][r].reply => t = u /\ s = r
    /\ \A t, u \in Tabs, s \in Slots :
         call[t][s].reply \in Pairs => call[t][s].reply # auth[u].pair

\* Without a fault nothing lapses, and the stored pair is rotated for a waiting call only.
UsableInv ==
    /\ misses = 0 => lapsed = 0
    /\ misses = 0 => \A p \in posts : p.to = <<>> => p.pair # stored
    /\ StoredIsUsable

SessionInv == TypeInv /\ OneLivePerSignIn /\ RotatesOnce /\ PostInv /\ AuthInv /\ FreshInv /\ UsableInv

--------------------------------------------------------------------------------
(***************************************************************************)
(* What the steps of a tab do to its calls.                                *)
(***************************************************************************)
LEMMA IdleTyped ==
  /\ Idle \in Calls /\ \A n \in Nat : Sound(Idle, n)
  /\ Idle.pc = "idle" /\ Idle.reply = None
  /\ NoAuth \in Auths /\ NoAuth.pair = None /\ NoAuth.fresh = FALSE
  BY SessionConstants DEF Idle, NoAuth, Calls, Auths, Sound, None

LEMMA PairsAre ==
  /\ \A i \in Pairs : i \in 1 .. MaxPairs /\ i # Refused /\ i # None
  /\ Refused \notin Pairs /\ None \notin Pairs /\ Refused # None
  BY SessionConstants DEF Pairs, Refused, None

LEMMA CallTyped ==
  ASSUME TypeInv, NEW t \in Tabs, NEW s \in Slots
  PROVE  call[t][s] \in Calls /\ Sound(call[t][s], issued) /\ issued \in Nat
  BY SessionConstants DEF TypeInv, CallsTyped, ServerTyped

\* A call is as it was to the server, or it waits for no rotation any longer.
Same(t, s) ==
    /\ call'[t][s].pc = call[t][s].pc
    /\ call'[t][s].pair = call[t][s].pair
    /\ call'[t][s].reply = call[t][s].reply

Off(t, s) == call'[t][s].pc # "posted" /\ call'[t][s].reply = None

Becomes(t, s, c) == call' = [call EXCEPT ![t][s] = c]

LEMMA OneCall ==
  ASSUME TypeInv, NEW t \in Tabs, NEW s \in Slots, NEW c \in Calls, Sound(c, issued),
         Becomes(t, s, c), issued' = issued
  PROVE  /\ CallsTyped' /\ call'[t][s] = c
         /\ \A u \in Tabs, r \in Slots : u # t \/ r # s => call'[u][r] = call[u][r] /\ Same(u, r)
<1>1. call'[t][s] = c
  BY DEF TypeInv, CallsTyped, Becomes
<1>2. \A u \in Tabs, r \in Slots : u # t \/ r # s => call'[u][r] = call[u][r]
  BY DEF TypeInv, CallsTyped, Becomes
<1>3. call' \in [Tabs -> [Slots -> Calls]]
  BY DEF TypeInv, CallsTyped, Becomes
<1> QED
  BY <1>1, <1>2, <1>3 DEF TypeInv, CallsTyped, Same

LEMMA CallsOfTab ==
  ASSUME TypeInv, NEW t \in Tabs, NEW f \in [Slots -> Calls],
         \A s \in Slots : Sound(f[s], issued), call' = [call EXCEPT ![t] = f], issued' = issued
  PROVE  /\ CallsTyped' /\ call'[t] = f
         /\ \A u \in Tabs, r \in Slots : u # t => call'[u][r] = call[u][r] /\ Same(u, r)
  BY DEF TypeInv, CallsTyped, Same

LEMMA OutdatedTyped ==
  ASSUME NEW f \in [Slots -> Calls]
  PROVE  /\ Outdated(f) \in [Slots -> Calls]
         /\ \A s \in Slots :
              /\ Outdated(f)[s].pc = f[s].pc /\ Outdated(f)[s].pair = f[s].pair
              /\ Outdated(f)[s].reply = f[s].reply
              /\ \A n : Sound(f[s], n) => Sound(Outdated(f)[s], n)
<1>1. ASSUME NEW s \in Slots
      PROVE  /\ [f[s] EXCEPT !.fresh = FALSE] \in Calls
             /\ [f[s] EXCEPT !.fresh = FALSE].pc = f[s].pc
             /\ [f[s] EXCEPT !.fresh = FALSE].pair = f[s].pair
             /\ [f[s] EXCEPT !.fresh = FALSE].reply = f[s].reply
  BY DEF Calls
<1>2. Outdated(f) \in [Slots -> Calls]
  BY <1>1 DEF Outdated
<1>3. \A s \in Slots : Outdated(f)[s] = [f[s] EXCEPT !.fresh = FALSE]
  BY DEF Outdated
<1> QED
  BY <1>1, <1>2, <1>3 DEF Sound

LEMMA NotFresh ==
  ASSUME TypeInv, NEW t \in Tabs, auth' = [auth EXCEPT ![t].fresh = FALSE], issued' = issued
  PROVE  /\ auth' \in [Tabs -> Auths]
         /\ \A u \in Tabs : /\ auth'[u].pair = auth[u].pair
                            /\ auth'[u].pair <= issued'
                            /\ auth'[u].fresh => auth'[u].pair # None
<1>1. auth \in [Tabs -> Auths] /\ auth[t] \in Auths
  BY DEF TypeInv, TabTyped
<1> DEFINE a == [auth[t] EXCEPT !.fresh = FALSE]
<1>2. a \in Auths /\ a.pair = auth[t].pair /\ a.fresh = FALSE
  BY <1>1 DEF Auths
<1> HIDE DEF a
<1>3. auth'[t] = a
  BY <1>1 DEF a
<1>4. \A u \in Tabs \ {t} : auth'[u] = auth[u]
  BY <1>1
<1>5. auth' \in [Tabs -> Auths]
  BY <1>1, <1>2 DEF a
<1> QED
  BY <1>2, <1>3, <1>4, <1>5 DEF TypeInv, TabTyped

LEMMA StoresNone ==
  ASSUME TypeInv, Store(None, NoRefresh), issued' = issued
  PROVE  /\ stored' = None /\ stored' \in 0 .. issued'
         /\ last' \in [Tabs -> 0 .. MaxPairs] /\ \A u \in Tabs : last'[u] = None
  BY SessionConstants DEF TypeInv, ServerTyped, TabTyped, Store, NoRefresh, None

\* The calls W of a tab end, and the tab perhaps signs out.
LEMMA RejectDoes ==
  ASSUME TypeInv, NEW t \in Tabs, NEW W \in SUBSET Slots, NEW refused, Reject(t, W, refused),
         issued' = issued
  PROVE  /\ CallsTyped' /\ TabTyped'
         /\ stored' \in {stored, None}
         /\ \A u \in Tabs, r \in Slots : Same(u, r) \/ (Off(u, r) /\ u = t /\ r \in W)
         /\ \A u \in Tabs : auth'[u].pair = auth[u].pair
         /\ stored' # stored => call[t]["me"].fresh /\ call'[t]["me"].pc = "idle"
<1> DEFINE done == [s \in Slots |-> IF s \in W THEN Idle ELSE call[t][s]]
<1>1. done \in [Slots -> Calls] /\ \A s \in Slots : Sound(done[s], issued)
  BY IdleTyped, CallTyped
<1>2. ASSUME NEW s \in Slots
      PROVE  IF s \in W THEN done[s].pc = "idle" /\ done[s].reply = None
                        ELSE done[s] = call[t][s]
  BY IdleTyped
<1>3. CASE call' = [call EXCEPT ![t] = done] /\ UNCHANGED <<stored, last, shown, auth>>
  <2> HIDE DEF done
  <2>1. CallsTyped' /\ call'[t] = done
        /\ \A u \in Tabs, r \in Slots : u # t => Same(u, r)
    BY <1>1, <1>3, CallsOfTab
  <2> QED
    BY <1>2, <1>3, <2>1 DEF TypeInv, TabTyped, Same, Off
<1>4. CASE /\ "me" \in W /\ call[t]["me"].fresh
           /\ Store(None, NoRefresh)
           /\ auth' = [auth EXCEPT ![t].fresh = FALSE]
           /\ call' = [call EXCEPT ![t] = Outdated(done)]
  <2> HIDE DEF done
  <2>1. CallsTyped' /\ call'[t] = Outdated(done)
        /\ \A u \in Tabs, r \in Slots : u # t => Same(u, r)
    BY <1>1, <1>4, CallsOfTab, OutdatedTyped
  <2>2. \A r \in Slots : Same(t, r) \/ (Off(t, r) /\ r \in W)
    BY <1>1, <1>2, <2>1, OutdatedTyped DEF Same, Off
  <2>3. call'[t]["me"].pc = "idle"
    BY <1>1, <1>2, <1>4, <2>1, OutdatedTyped DEF Slots
  <2>4. TabTyped'
    BY <1>4, NotFresh, StoresNone DEF TabTyped
  <2> QED
    BY <1>4, <2>1, <2>2, <2>3, <2>4, NotFresh, StoresNone
<1> QED
  BY <1>3, <1>4 DEF Reject

\* A page that loads again has no call and no sign-in.
LEMMA ReloadedDoes ==
  ASSUME TypeInv, NEW t \in Tabs, Reloaded(t), issued' = issued
  PROVE  /\ CallsTyped'
         /\ \A s \in Slots : call'[t][s].pc = "idle" /\ Off(t, s)
         /\ \A u \in Tabs, r \in Slots : u # t => Same(u, r)
         /\ auth' \in [Tabs -> Auths]
         /\ \A u \in Tabs : /\ auth'[u].pair \in {auth[u].pair, None}
                            /\ auth'[u].pair <= issued'
                            /\ auth'[u].fresh => auth'[u].pair # None
         /\ posts' = Detached({t} \X Slots)
<1> DEFINE f == [s \in Slots |-> Idle]
<1>1. f \in [Slots -> Calls] /\ \A s \in Slots : Sound(f[s], issued)
  BY IdleTyped, CallTyped
<1>2. \A s \in Slots : f[s].pc = "idle" /\ f[s].reply = None
  BY IdleTyped
<1>3. call' = [call EXCEPT ![t] = f] /\ auth' = [auth EXCEPT ![t] = NoAuth]
      /\ posts' = Detached({t} \X Slots)
  BY DEF Reloaded
<1> HIDE DEF f
<1>4. CallsTyped' /\ call'[t] = f /\ \A u \in Tabs, r \in Slots : u # t => Same(u, r)
  BY <1>1, <1>3, CallsOfTab
<1>5. auth' \in [Tabs -> Auths] /\ auth'[t] = NoAuth /\ \A u \in Tabs \ {t} : auth'[u] = auth[u]
  BY <1>3, IdleTyped DEF TypeInv, TabTyped
<1>6. NoAuth.pair = None /\ NoAuth.fresh = FALSE /\ None <= issued
  BY SessionConstants, IdleTyped DEF None, TypeInv, ServerTyped
<1> QED
  BY <1>2, <1>3, <1>4, <1>5, <1>6 DEF TypeInv, TabTyped, Off

--------------------------------------------------------------------------------
(***************************************************************************)
(* The steps that neither issue a pair nor store one: calls and sign-ins   *)
(* may end and posts may lose who waits for them.                          *)
(***************************************************************************)
Quits(t, s) == Off(t, s) /\ \A q \in posts' : q.to # <<t, s>>

\* Who loses an answer asked for with the stored pair.
Dropped(t, s) == ~Same(t, s) /\ call[t][s].pc = "posted" /\ call[t][s].pair = stored

Rests ==
    /\ UNCHANGED <<server, ended>>
    /\ stored' \in {stored, None}
    /\ \A q \in posts' : q \in posts \/ \E p \in posts : q = [p EXCEPT !.to = <<>>]
    /\ \A t \in Tabs, s \in Slots : Same(t, s) \/ Quits(t, s)
    /\ \A u \in Tabs : auth'[u].pair \in {auth[u].pair, None}
    /\ aged' \in Nat /\ lapsed' \in Nat
    /\ misses' \in {misses, misses + 1}
    /\ lapsed' = lapsed \/ misses' = misses + 1
    /\ \/ stored' = None \/ misses' = misses + 1
       \/ posts' \subseteq posts /\ \A t \in Tabs, s \in Slots : ~Dropped(t, s)

LEMMA Detaching ==
  ASSUME TypeInv, NEW W, posts' = Detached(W), NEW q \in posts'
  PROVE  \/ q \in posts /\ q.to \notin W
         \/ q.to = <<>> /\ \E p \in posts : p.to \in W /\ q = [p EXCEPT !.to = <<>>]
<1>1. PICK p \in posts : q = IF p.to \in W THEN [p EXCEPT !.to = <<>>] ELSE p
  BY DEF Detached
<1>2. p \in Posts
  BY DEF TypeInv, PostsTyped
<1> QED
  BY <1>1, <1>2 DEF Posts

LEMMA NoPlace == \A t \in Tabs, s \in Slots : <<t, s>> # <<>>
  OBVIOUS

\* One call changes its step, without an answer.
LEMMA CallQuiet ==
  ASSUME TypeInv, PostInv, NEW t \in Tabs, NEW s \in Slots, call[t][s].pc # "posted",
         NEW c \in Calls, Sound(c, issued), c.pc # "posted", Becomes(t, s, c),
         UNCHANGED <<server, clock, posts, stored, last, auth, history>>
  PROVE  Rests /\ CallsTyped' /\ TabTyped'
<1>1. issued' = issued
  BY DEF server
<1>2. /\ CallsTyped' /\ call'[t][s] = c
      /\ \A u \in Tabs, r \in Slots : u # t \/ r # s => Same(u, r)
  BY <1>1, OneCall
<1>3. c.reply = None
  BY DEF Sound
<1>4. Quits(t, s)
  BY <1>2, <1>3 DEF PostInv, Quits, Off
<1>5. TabTyped'
  BY DEF TypeInv, TabTyped, server
<1>6. \A u \in Tabs, r \in Slots : (Same(u, r) \/ Quits(u, r)) /\ ~Dropped(u, r)
  BY <1>2, <1>4 DEF Dropped
<1> QED
  BY <1>2, <1>5, <1>6 DEF Rests, TypeInv, ServerTyped, clock, history

\* Calls that wait for no answer, or not with the stored pair, end.
LEMMA RejectQuiet ==
  ASSUME TypeInv, PostInv, NEW t \in Tabs, NEW W \in SUBSET Slots, NEW refused,
         Reject(t, W, refused),
         \A r \in W : call[t][r].pc = "posted" => call[t][r].reply # None /\ call[t][r].pair # stored,
         UNCHANGED <<server, clock, posts, history>>
  PROVE  Rests /\ CallsTyped' /\ TabTyped'
<1>1. issued' = issued
  BY DEF server
<1>2. /\ CallsTyped' /\ TabTyped'
      /\ stored' \in {stored, None}
      /\ \A u \in Tabs, r \in Slots : Same(u, r) \/ (Off(u, r) /\ u = t /\ r \in W)
      /\ \A u \in Tabs : auth'[u].pair = auth[u].pair
  BY <1>1, RejectDoes
<1>3. \A r \in W : \A q \in posts : q.to # <<t, r>>
  BY DEF PostInv
<1>4. \A u \in Tabs, r \in Slots : (Same(u, r) \/ Quits(u, r)) /\ ~Dropped(u, r)
  BY <1>2, <1>3 DEF Quits, Dropped
<1> QED
  BY <1>2, <1>4 DEF Rests, TypeInv, ServerTyped, server, clock, history

\* A page loads again, without a session or without a rotation it would miss.
LEMMA ReloadQuiet ==
  ASSUME TypeInv, PostInv, NEW t \in Tabs, Reloaded(t),
         UNCHANGED <<server, clock, ended>>,
         \/ Store(None, NoRefresh) /\ UNCHANGED misses
         \/ /\ stored' = stored /\ last' = [last EXCEPT ![t] = None]
            /\ \/ misses' = misses + 1
               \/ UNCHANGED misses /\ \A s \in Slots : call[t][s].pc # "posted"
  PROVE  Rests /\ CallsTyped' /\ TabTyped'
<1>1. issued' = issued
  BY DEF server
<1>2. /\ CallsTyped'
      /\ \A s \in Slots : call'[t][s].pc = "idle" /\ Off(t, s)
      /\ \A u \in Tabs, r \in Slots : u # t => Same(u, r)
      /\ auth' \in [Tabs -> Auths]
      /\ \A u \in Tabs : /\ auth'[u].pair \in {auth[u].pair, None}
                         /\ auth'[u].pair <= issued'
                         /\ auth'[u].fresh => auth'[u].pair # None
      /\ posts' = Detached({t} \X Slots)
  BY <1>1, ReloadedDoes
<1>3. ASSUME NEW q \in posts' PROVE q \in posts \/ \E p \in posts : q = [p EXCEPT !.to = <<>>]
  <2> DEFINE W == {t} \X Slots
  <2>1. posts' = Detached(W)
    BY <1>2
  <2> HIDE DEF W
  <2> QED
    BY <2>1, Detaching
<1>4. ASSUME NEW q \in posts', NEW s \in Slots PROVE q.to # <<t, s>>
  <2> DEFINE W == {t} \X Slots
  <2>1. <<t, s>> \in W
    OBVIOUS
  <2>2. posts' = Detached(W)
    BY <1>2
  <2> HIDE DEF W
  <2>3. q.to \notin W \/ q.to = <<>>
    BY <2>2, Detaching
  <2> QED
    BY <2>1, <2>3, NoPlace
<1>5. \A u \in Tabs, r \in Slots : Same(u, r) \/ Quits(u, r)
  BY <1>2, <1>4 DEF Quits
<1>6. /\ last' \in [Tabs -> 0 .. MaxPairs] /\ stored' \in 0 .. issued'
      /\ stored' = None => \A u \in Tabs : last'[u] = None
  <2>1. CASE Store(None, NoRefresh)
    BY <1>1, <2>1, StoresNone
  <2>2. CASE stored' = stored /\ last' = [last EXCEPT ![t] = None]
    BY <1>1, <2>2, SessionConstants DEF TypeInv, TabTyped, None
  <2> QED
    BY <2>1, <2>2
<1>7. TabTyped'
  BY <1>2, <1>6 DEF TabTyped
<1>8. ASSUME \A s \in Slots : call[t][s].pc # "posted"
      PROVE  posts' \subseteq posts /\ \A u \in Tabs, s \in Slots : ~Dropped(u, s)
  <2>1. \A p \in posts : p.to \notin {t} \X Slots
    <3>1. \A p \in posts, s \in Slots : p.to # <<t, s>>
      BY <1>8 DEF PostInv
    <3>2. \A e \in {t} \X Slots : \E s \in Slots : e = <<t, s>>
      OBVIOUS
    <3> QED
      BY <3>1, <3>2
  <2>2. posts' \subseteq posts
    BY <1>2, <2>1, Detaching
  <2> QED
    BY <1>2, <1>8, <2>2 DEF Dropped
<1>9. stored' \in {stored, None} /\ misses' \in {misses, misses + 1}
      /\ \/ stored' = None \/ misses' = misses + 1
         \/ posts' \subseteq posts /\ \A u \in Tabs, s \in Slots : ~Dropped(u, s)
  BY <1>8 DEF Store
<1> QED
  BY <1>2, <1>3, <1>5, <1>7, <1>9 DEF Rests, TypeInv, ServerTyped, clock

LEMMA LostQuiet ==
  ASSUME TypeInv, PostInv, NEW t \in Tabs, NEW s \in Slots, RefreshLost(t, s)
  PROVE  Rests /\ CallsTyped' /\ TabTyped'
<1> DEFINE W == Waiting(t, s)
           P == {<<t, s>>}
<1>1. /\ W \in SUBSET Slots /\ Reject(t, W, FALSE)
      /\ \A r \in W : r = s \/ call[t][r].pc = "joined"
  BY DEF RefreshLost, Waiting
<1>2. issued' = issued /\ misses' = misses + 1
  BY DEF RefreshLost, server, Miss
<1>3. posts' = Detached(P) \/ posts' = posts \ {p \in posts : p.to = <<t, s>>}
  BY DEF RefreshLost
<1>4. <<t, s>> \in P
  OBVIOUS
<1> HIDE DEF W, P
<1>5. /\ CallsTyped' /\ TabTyped'
      /\ stored' \in {stored, None}
      /\ \A u \in Tabs, r \in Slots : Same(u, r) \/ (Off(u, r) /\ u = t /\ r \in W)
      /\ \A u \in Tabs : auth'[u].pair = auth[u].pair
  BY <1>1, <1>2, RejectDoes
<1>6. ASSUME NEW q \in posts'
      PROVE  /\ q.to # <<t, s>>
             /\ q \in posts \/ (q.to = <<>> /\ \E p \in posts : q = [p EXCEPT !.to = <<>>])
  <2>1. CASE posts' = Detached(P)
    BY <1>4, <2>1, Detaching, NoPlace
  <2>2. CASE posts' = posts \ {p \in posts : p.to = <<t, s>>}
    BY <2>2
  <2> QED
    BY <1>3, <2>1, <2>2
<1>7. ASSUME NEW q \in posts', NEW r \in W PROVE q.to # <<t, r>>
  <2>1. CASE r = s
    BY <1>6, <2>1
  <2>2. CASE call[t][r].pc = "joined"
    BY <1>1, <1>6, <2>2, NoPlace DEF PostInv
  <2> QED
    BY <1>1, <2>1, <2>2
<1>8. \A u \in Tabs, r \in Slots : Same(u, r) \/ Quits(u, r)
  BY <1>5, <1>7 DEF Quits
<1> QED
  BY <1>2, <1>5, <1>6, <1>8 DEF Rests, RefreshLost, TypeInv, ServerTyped, clock

--------------------------------------------------------------------------------
(***************************************************************************)
(* The other steps.                                                        *)
(***************************************************************************)
\* A call posts the stored pair, which this tab rotates nowhere else.
Posted(t, s) == [pair |-> stored, at |-> "sent", to |-> <<t, s>>]
Posting(t, s) ==
    /\ call[t][s].pc = "sent" /\ call[t][s].pair = stored /\ ~InFlight(t)
    /\ Becomes(t, s, [call[t][s] EXCEPT !.pc = "posted"])
    /\ posts' = posts \cup {Posted(t, s)}
    /\ UNCHANGED <<server, clock, stored, last, auth, history>>

Finding(p) ==
    /\ posts' = (posts \ {p}) \cup {[p EXCEPT !.at = "found"]}
    /\ UNCHANGED <<server, clock, stored, tab, history>>

Refusing(p) ==
    /\ rows' = rows \/ (rows' = rows \ {p.pair} /\ p.pair \notin rows \ Lapsed)
    /\ RefuseRefresh(p)

Rotating(p) ==
    /\ p.pair \in rows
    /\ Issue(login[p.pair], {p.pair})
    /\ Answer(p, issued + 1)
    /\ UNCHANGED <<clock, stored, shown, last, auth, history>>

\* The answer to the stored pair is stored.
Taking(t, s) == RefreshAnswered(t, s) /\ Fits(t, s) /\ UNCHANGED auth
                /\ Store(call[t][s].reply, [NoRefresh EXCEPT ![t] = call[t][s].pair])
                /\ call' = [call EXCEPT ![t] = [r \in Slots |->
                              IF r \in Waiting(t, s)
                              THEN [call[t][r] EXCEPT !.pc = "sent", !.pair = call[t][s].reply,
                                                      !.again = TRUE, !.reply = None]
                              ELSE call[t][r]]]

Entering(t) ==
    /\ Issue(issued + 1, {})
    /\ auth' = [auth EXCEPT ![t] = [pair |-> issued + 1, fresh |-> TRUE]]
    /\ call' = [call EXCEPT ![t] = Outdated(call[t])]
    /\ UNCHANGED <<clock, posts, stored, shown, last, history>>

Entered(t) ==
    /\ auth[t].fresh
    /\ auth' = [auth EXCEPT ![t] = NoAuth]
    /\ Store(auth[t].pair, NoRefresh)
    /\ call' = [call EXCEPT ![t] = Outdated(call[t])]
    /\ UNCHANGED <<server, clock, posts, history>>

LEMMA UnauthorizedSteps ==
  ASSUME TypeInv, PostInv, NEW t \in Tabs, NEW s \in Slots, Unauthorized(t, s)
  PROVE  (Rests /\ CallsTyped' /\ TabTyped') \/ Posting(t, s)
<1> DEFINE c == call[t][s]
<1>1. /\ c \in Calls /\ Sound(c, issued) /\ c.pc = "sent" /\ c.pair # None /\ c.reply = None
      /\ stored \in 0 .. issued /\ issued \in 0 .. MaxPairs
      /\ last[t] = c.pair => stored # None
  BY CallTyped DEF Unauthorized, Sound, TypeInv, TabTyped, ServerTyped
<1>2. CASE /\ last[t] = c.pair
           /\ call' = [call EXCEPT ![t][s].pair = stored, ![t][s].again = TRUE]
           /\ UNCHANGED <<posts, stored, last, shown, auth>>
  <2> DEFINE d == [c EXCEPT !.pair = stored, !.again = TRUE]
  <2>0. stored # None /\ stored \in 0 .. MaxPairs /\ stored <= issued
    BY <1>1, <1>2, SessionConstants
  <2>1. d \in Calls /\ Sound(d, issued) /\ d.pc = "sent"
    <3>1. d \in Calls /\ d.pc = "sent" /\ d.pair = stored /\ d.reply = c.reply
      BY <1>1, <2>0 DEF Calls
    <3> QED
      BY <1>1, <2>0, <3>1 DEF Sound
  <2>2. Becomes(t, s, d)
    BY <1>2 DEF Becomes, TypeInv, CallsTyped
  <2> HIDE DEF d
  <2> QED
    BY <1>1, <1>2, <2>1, <2>2, CallQuiet DEF Unauthorized
<1>3. CASE stored # c.pair /\ Reject(t, {s}, FALSE) /\ UNCHANGED posts
  <2>1. \A r \in {s} : call[t][r].pc # "posted"
    BY <1>1
  <2>2. {s} \in SUBSET Slots /\ UNCHANGED <<server, clock, posts, history>>
    BY <1>3 DEF Unauthorized
  <2> QED
    BY <1>3, <2>1, <2>2, RejectQuiet
<1>4. CASE /\ call' = [call EXCEPT ![t][s].pc = "joined"]
           /\ UNCHANGED <<posts, stored, last, shown, auth>>
  <2> DEFINE d == [c EXCEPT !.pc = "joined"]
  <2>1. d \in Calls /\ Sound(d, issued) /\ d.pc = "joined"
    BY <1>1 DEF Calls, Sound
  <2>2. Becomes(t, s, d)
    BY <1>4 DEF Becomes
  <2> HIDE DEF d
  <2> QED
    BY <1>1, <1>4, <2>1, <2>2, CallQuiet DEF Unauthorized
<1>5. CASE /\ stored = c.pair /\ ~InFlight(t)
           /\ call' = [call EXCEPT ![t][s].pc = "posted"]
           /\ posts' = posts \cup {[pair |-> stored, at |-> "sent", to |-> <<t, s>>]}
           /\ UNCHANGED <<stored, last, shown, auth>>
  BY <1>1, <1>5 DEF Posting, Posted, Becomes, Unauthorized
<1> QED
  BY <1>2, <1>3, <1>4, <1>5 DEF Unauthorized

Stays == Rests /\ CallsTyped' /\ TabTyped'

\* Nothing but the clock moves.
LEMMA ClockQuiet ==
  ASSUME TypeInv, UNCHANGED <<server, posts, stored, tab, ended>>,
         aged' \in Nat, lapsed' \in Nat, misses' \in {misses, misses + 1},
         lapsed' = lapsed \/ misses' = misses + 1
  PROVE  Stays
<1>1. CallsTyped' /\ TabTyped'
  BY DEF TypeInv, CallsTyped, TabTyped, server, tab
<1>2. \A t \in Tabs, s \in Slots : Same(t, s)
  BY DEF Same, tab
<1> QED
  BY <1>1, <1>2 DEF Stays, Rests, Dropped, tab

LEMMA ServerSteps ==
  ASSUME TypeInv, PostInv, Server
  PROVE  Stays \/ \E p \in posts : Finding(p) \/ Refusing(p) \/ Rotating(p)
<1>1. ASSUME NEW p \in posts, FindToken(p) PROVE Finding(p) \/ Refusing(p)
  BY <1>1 DEF FindToken, Finding, Refusing
<1>2. ASSUME NEW p \in posts, RotateToken(p) PROVE Rotating(p) \/ Refusing(p)
  BY <1>2 DEF RotateToken, Rotating, Refusing, Consumes
<1>3. CASE AccessExpires
  BY <1>3, ClockQuiet DEF AccessExpires, history, TypeInv, ServerTyped
<1>4. CASE RefreshExpires
  BY <1>4, ClockQuiet DEF RefreshExpires, Miss, TypeInv, ServerTyped
<1> QED
  BY <1>1, <1>2, <1>3, <1>4 DEF Server

LEMMA CallSteps ==
  ASSUME TypeInv, PostInv, NEW t \in Tabs, NEW s \in Slots,
         Send(t, s) \/ Served(t, s) \/ RefusedAgain(t, s) \/ RequestLost(t, s)
  PROVE  Stays
<1>0. call[t][s] \in Calls /\ Sound(call[t][s], issued) /\ stored \in 0 .. issued
      /\ issued \in 0 .. MaxPairs
  BY CallTyped DEF TypeInv, TabTyped, ServerTyped
<1>1. CASE Send(t, s)
  <2> DEFINE d == [Idle EXCEPT !.pc = "sent", !.pair = stored, !.fresh = (s = "me")]
  <2>1. stored # None /\ stored \in 0 .. MaxPairs /\ stored <= issued
    BY <1>0, <1>1, SessionConstants DEF Send
  <2>2. d \in Calls /\ d.pc = "sent" /\ d.pair = stored /\ d.reply = Idle.reply
    BY <2>1, IdleTyped DEF Calls
  <2>3. Sound(d, issued)
    BY <1>0, <2>1, <2>2, IdleTyped DEF Sound, None
  <2>4. Becomes(t, s, d) /\ call[t][s].pc # "posted"
    BY <1>1 DEF Becomes, Send
  <2> HIDE DEF d
  <2> QED
    BY <1>1, <2>2, <2>3, <2>4, CallQuiet DEF Send, Stays
<1>2. CASE Served(t, s)
  <2>1. Idle \in Calls /\ Sound(Idle, issued) /\ Idle.pc # "posted" /\ call[t][s].pc # "posted"
    BY <1>0, <1>2, IdleTyped DEF Served
  <2>2. Becomes(t, s, Idle) /\ UNCHANGED <<server, clock, posts, stored, last, auth, history>>
    BY <1>2 DEF Served, Becomes
  <2> QED
    BY <2>1, <2>2, CallQuiet DEF Stays
<1>3. CASE RefusedAgain(t, s) /\ Invalidate(t)
  BY <1>3, ReloadQuiet DEF RefusedAgain, Invalidate, history, Stays
<1>4. ASSUME NEW refused, Reject(t, {s}, refused), call[t][s].pc = "sent",
             UNCHANGED <<server, clock, posts, history>>
      PROVE  Stays
  <2>1. \A r \in {s} : call[t][r].pc # "posted"
    BY <1>4
  <2>2. {s} \in SUBSET Slots
    OBVIOUS
  <2> QED
    BY <1>4, <2>1, <2>2, RejectQuiet DEF Stays
<1> QED
  BY <1>1, <1>2, <1>3, <1>4 DEF RefusedAgain, RequestLost

LEMMA AnswerSteps ==
  ASSUME TypeInv, PostInv, NEW t \in Tabs, NEW s \in Slots,
         RefreshAnswered(t, s) \/ RefreshRefused(t, s)
  PROVE  Stays \/ Taking(t, s)
<1>1. call[t][s].pc = "posted" /\ call[t][s].reply # None /\ UNCHANGED <<server, clock, history>>
  <2>1. None \notin Pairs /\ Refused # None
    BY SessionConstants DEF Pairs, Refused, None
  <2>2. call[t][s].pc = "posted" /\ (call[t][s].reply \in Pairs \/ call[t][s].reply = Refused)
    BY DEF RefreshAnswered, RefreshRefused
  <2>3. UNCHANGED <<server, clock, history>>
    BY DEF RefreshAnswered, RefreshRefused
  <2> QED
    BY <2>1, <2>2, <2>3
<1>2. CASE Fits(t, s)
  BY <1>1, <1>2, ReloadQuiet DEF RefreshAnswered, RefreshRefused, Invalidate, history, Stays, Taking
<1>3. ASSUME ~Fits(t, s), NEW refused, Reject(t, Waiting(t, s), refused), UNCHANGED posts
      PROVE  Stays
  <2> DEFINE W == Waiting(t, s)
  <2>1. W \in SUBSET Slots /\ \A r \in W : r = s \/ call[t][r].pc = "joined"
    BY DEF Waiting
  <2>2. \A r \in W : call[t][r].pc = "posted" => call[t][r].reply # None /\ call[t][r].pair # stored
    BY <1>1, <1>3, <2>1 DEF Fits
  <2> HIDE DEF W
  <2>3. Reject(t, W, refused)
    BY <1>3 DEF W
  <2> QED
    BY <1>1, <1>3, <2>1, <2>2, <2>3, RejectQuiet DEF Stays
<1> QED
  BY <1>2, <1>3 DEF RefreshAnswered, RefreshRefused

LEMMA TabSteps ==
  ASSUME TypeInv, PostInv, NEW t \in Tabs, Reload(t) \/ SignIn(t) \/ SignedIn(t)
  PROVE  Stays \/ Entering(t) \/ Entered(t)
<1>1. CASE Reload(t)
  BY <1>1, ReloadQuiet DEF Reload, Miss, Stays, history
<1>2. CASE SignIn(t) /\ UNCHANGED <<server, auth>>
  <2>1. call[t] \in [Slots -> Calls] /\ \A s \in Slots : Sound(call[t][s], issued)
    BY CallTyped DEF TypeInv, CallsTyped
  <2>2. call' = [call EXCEPT ![t] = Outdated(call[t])] /\ issued' = issued
    BY <1>2 DEF SignIn, server
  <2> DEFINE f == Outdated(call[t])
  <2>3. /\ f \in [Slots -> Calls] /\ \A s \in Slots : Sound(f[s], issued)
        /\ \A s \in Slots : f[s].pc = call[t][s].pc /\ f[s].pair = call[t][s].pair
                           /\ f[s].reply = call[t][s].reply
        /\ call' = [call EXCEPT ![t] = f]
    BY <2>1, <2>2, OutdatedTyped
  <2> HIDE DEF f
  <2>5. CallsTyped' /\ \A u \in Tabs, r \in Slots : Same(u, r)
    <3>1. CallsTyped' /\ call'[t] = f /\ \A u \in Tabs, r \in Slots : u # t => Same(u, r)
      BY <2>2, <2>3, CallsOfTab
    <3> QED
      BY <2>3, <3>1 DEF Same
  <2>4. TabTyped'
    BY <1>2, <2>2 DEF SignIn, TypeInv, TabTyped
  <2> QED
    BY <1>2, <2>4, <2>5 DEF SignIn, Stays, Rests, Dropped, TypeInv, ServerTyped, clock, history
<1>3. CASE SignedIn(t) /\ auth' = [auth EXCEPT ![t] = NoAuth] /\ UNCHANGED <<stored, last, shown, call>>
  <2>1. CallsTyped' /\ \A u \in Tabs, r \in Slots : Same(u, r)
    BY <1>3 DEF SignedIn, TypeInv, CallsTyped, Same, server
  <2>2. auth' \in [Tabs -> Auths] /\ auth'[t] = NoAuth /\ \A u \in Tabs \ {t} : auth'[u] = auth[u]
    BY <1>3, IdleTyped DEF TypeInv, TabTyped
  <2>3. NoAuth.pair = None /\ NoAuth.fresh = FALSE /\ None <= issued /\ issued' = issued
    BY <1>3, SessionConstants, IdleTyped DEF None, TypeInv, ServerTyped, SignedIn, server
  <2>4. TabTyped'
    BY <1>3, <2>2, <2>3 DEF TypeInv, TabTyped
  <2> QED
    BY <1>3, <2>1, <2>2, <2>3, <2>4
       DEF SignedIn, Stays, Rests, Dropped, TypeInv, ServerTyped, clock, history
<1> QED
  BY <1>1, <1>2, <1>3 DEF SignIn, SignedIn, Entering, Entered

\* What one step may be.
LEMMA SessionMoves ==
  ASSUME TypeInv, PostInv, [SessionNext]_sessionVars
  PROVE  \/ Stays
         \/ \E p \in posts : Finding(p) \/ Refusing(p) \/ Rotating(p)
         \/ \E t \in Tabs, s \in Slots : Posting(t, s) \/ Taking(t, s)
         \/ \E t \in Tabs : Entering(t) \/ Entered(t) \/ Logout(t)
<1>1. CASE UNCHANGED sessionVars
  BY <1>1, ClockQuiet DEF sessionVars, clock, history, TypeInv, ServerTyped
<1>2. CASE Server
  BY <1>2, ServerSteps
<1>3. CASE Browser
  <2>1. PICK t \in Tabs :
          \/ \E s \in Slots : \/ Send(t, s) \/ Served(t, s) \/ Unauthorized(t, s)
                              \/ RefreshAnswered(t, s) \/ RefreshRefused(t, s)
                              \/ RefreshLost(t, s) \/ RefusedAgain(t, s) \/ RequestLost(t, s)
          \/ Reload(t) \/ Logout(t)
          \/ SignIn(t) \/ SignedIn(t)
    BY <1>3 DEF Browser
  <2> QED
    BY <2>1, TabSteps, AnswerSteps, CallSteps, UnauthorizedSteps, LostQuiet DEF Stays
<1> QED
  BY <1>1, <1>2, <1>3 DEF SessionNext

--------------------------------------------------------------------------------
(***************************************************************************)
(* What each of these steps does, and that it keeps the types.             *)
(***************************************************************************)
AllSame == \A t \in Tabs, s \in Slots : Same(t, s)

LEMMA StaysTyped == ASSUME TypeInv, Stays PROVE TypeInv'
<1>1. ServerTyped'
  BY DEF TypeInv, ServerTyped, Stays, Rests, server
<1>2. ASSUME NEW q \in posts' PROVE q \in Posts /\ q.pair \in 1 .. issued
  <2>1. CASE q \in posts
    BY <2>1 DEF TypeInv, PostsTyped
  <2>2. CASE \E p \in posts : q = [p EXCEPT !.to = <<>>]
    BY <2>2 DEF TypeInv, PostsTyped, Posts
  <2> QED
    BY <1>2, <2>1, <2>2 DEF Stays, Rests
<1>3. PostsTyped'
  BY <1>2 DEF PostsTyped, Stays, Rests, server
<1> QED
  BY <1>1, <1>3 DEF Stays, TypeInv

LEMMA PostingDoes ==
  ASSUME TypeInv, NEW t \in Tabs, NEW s \in Slots, Posting(t, s)
  PROVE  /\ TypeInv'
         /\ stored # None
         /\ Posted(t, s).pair = stored /\ Posted(t, s).to = <<t, s>>
         /\ call'[t][s].pc = "posted" /\ call'[t][s].pair = stored
         /\ call[t][s].reply = None /\ call'[t][s].reply = None
         /\ \A u \in Tabs, r \in Slots : u # t \/ r # s => Same(u, r)
<1> DEFINE c == call[t][s]
           d == [c EXCEPT !.pc = "posted"]
<1>1. /\ c \in Calls /\ Sound(c, issued) /\ c.pc = "sent" /\ c.pair = stored
      /\ stored \in 0 .. issued /\ issued \in 0 .. MaxPairs
  BY CallTyped DEF Posting, TypeInv, TabTyped, ServerTyped
<1>2. c.reply = None /\ stored # None
  BY <1>1 DEF Sound
<1>3. d \in Calls /\ d.pc = "posted" /\ d.pair = stored /\ d.reply = None
  BY <1>1, <1>2 DEF Calls
<1>4. Sound(d, issued)
  BY <1>1, <1>2, <1>3 DEF Sound
<1>5. Becomes(t, s, d) /\ issued' = issued
  BY DEF Posting, server
<1> HIDE DEF d
<1>6. /\ CallsTyped' /\ call'[t][s] = d
      /\ \A u \in Tabs, r \in Slots : u # t \/ r # s => Same(u, r)
  BY <1>3, <1>4, <1>5, OneCall
<1>7. stored \in 1 .. issued /\ stored \in Pairs
  BY <1>1, <1>2, SessionConstants DEF None, Pairs
<1>8. Posted(t, s) \in Posts /\ Posted(t, s).pair = stored /\ Posted(t, s).to = <<t, s>>
  <2>1. <<t, s>> \in Places
    BY DEF Places
  <2> QED
    BY <1>7, <2>1 DEF Posted, Posts
<1>9. PostsTyped' /\ ServerTyped' /\ TabTyped'
  BY <1>5, <1>7, <1>8 DEF Posting, TypeInv, PostsTyped, ServerTyped, TabTyped, server, clock, history
<1> QED
  BY <1>2, <1>3, <1>6, <1>8, <1>9 DEF TypeInv

LEMMA FindingDoes ==
  ASSUME TypeInv, NEW p \in posts, Finding(p)
  PROVE  /\ TypeInv' /\ AllSame
         /\ [p EXCEPT !.at = "found"].pair = p.pair /\ [p EXCEPT !.at = "found"].to = p.to
<1>1. p \in Posts /\ p.pair \in 1 .. issued
  BY DEF TypeInv, PostsTyped
<1> DEFINE q == [p EXCEPT !.at = "found"]
<1>2. q \in Posts /\ q.pair = p.pair /\ q.to = p.to
  BY <1>1 DEF Posts
<1>3. posts' = (posts \ {p}) \cup {q}
  BY DEF Finding
<1> HIDE DEF q
<1>4. PostsTyped'
  BY <1>1, <1>2, <1>3 DEF TypeInv, PostsTyped, Finding, server
<1>5. ServerTyped' /\ CallsTyped' /\ TabTyped' /\ AllSame
  BY DEF Finding, TypeInv, ServerTyped, CallsTyped, TabTyped, AllSame, Same, server, clock, tab,
         history
<1> QED
  BY <1>2, <1>4, <1>5 DEF TypeInv, q

LEMMA AnswerDoes ==
  ASSUME TypeInv, PostInv, NEW p \in posts, NEW reply \in 0 .. MaxPairs + 1, Answer(p, reply),
         issued' \in Nat, issued <= issued', reply <= issued' \/ reply = Refused
  PROVE  /\ CallsTyped' /\ PostsTyped' /\ posts' = posts \ {p}
         /\ \A t \in Tabs, s \in Slots :
              /\ call'[t][s].pc = call[t][s].pc /\ call'[t][s].pair = call[t][s].pair
              /\ IF p.to = <<t, s>> THEN call'[t][s].reply = reply ELSE Same(t, s)
<1>1. ASSUME NEW t \in Tabs, NEW s \in Slots
      PROVE  /\ call'[t][s] \in Calls /\ Sound(call'[t][s], issued')
             /\ call'[t][s].pc = call[t][s].pc /\ call'[t][s].pair = call[t][s].pair
             /\ IF p.to = <<t, s>> THEN call'[t][s].reply = reply ELSE call'[t][s] = call[t][s]
  <2> DEFINE c == call[t][s]
             d == [c EXCEPT !.reply = reply]
  <2>1. c \in Calls /\ Sound(c, issued) /\ issued \in Nat
    BY CallTyped
  <2>2. c.pair \in Nat /\ c.reply \in Nat
    BY <2>1, SessionConstants DEF Calls
  <2>3. CASE p.to = <<t, s>>
    <3>1. call'[t][s] = d /\ c.pc = "posted"
      BY <2>3 DEF Answer, PostInv
    <3>2. d \in Calls /\ d.pc = c.pc /\ d.pair = c.pair /\ d.reply = reply
      BY <2>1 DEF Calls
    <3> HIDE DEF d
    <3>3. Sound(d, issued')
      BY <2>1, <2>2, <3>1, <3>2 DEF Sound
    <3> QED
      BY <2>3, <3>1, <3>2, <3>3
  <2>4. CASE p.to # <<t, s>>
    <3>1. call'[t][s] = c
      BY <2>4 DEF Answer
    <3>2. Sound(c, issued')
      BY <2>1, <2>2 DEF Sound
    <3> QED
      BY <2>1, <2>4, <3>1, <3>2
  <2> QED
    BY <2>3, <2>4
<1>2. CallsTyped'
  BY <1>1 DEF CallsTyped, Answer
<1>3. posts' = posts \ {p}
  BY DEF Answer
<1>4. PostsTyped'
  BY <1>3, SessionConstants DEF TypeInv, PostsTyped, ServerTyped
<1> QED
  BY <1>1, <1>2, <1>3, <1>4 DEF Same

LEMMA RefusingDoes ==
  ASSUME TypeInv, PostInv, NEW p \in posts, Refusing(p)
  PROVE  /\ TypeInv' /\ posts' = posts \ {p}
         /\ \A t \in Tabs, s \in Slots :
              /\ call'[t][s].pc = call[t][s].pc /\ call'[t][s].pair = call[t][s].pair
              /\ Same(t, s) \/ (p.to = <<t, s>> /\ call'[t][s].reply \notin Pairs)
<1>1. /\ issued' = issued /\ issued' \in Nat /\ Answer(p, Refused)
      /\ Refused \in 0 .. MaxPairs + 1 /\ Refused \notin Pairs
  BY SessionConstants DEF Refusing, RefuseRefresh, TypeInv, ServerTyped, Refused, Pairs
<1>2. /\ CallsTyped' /\ PostsTyped' /\ posts' = posts \ {p}
      /\ \A t \in Tabs, s \in Slots :
           /\ call'[t][s].pc = call[t][s].pc /\ call'[t][s].pair = call[t][s].pair
           /\ IF p.to = <<t, s>> THEN call'[t][s].reply = Refused ELSE Same(t, s)
  BY <1>1, AnswerDoes
<1>3. ServerTyped' /\ TabTyped'
  BY DEF Refusing, RefuseRefresh, TypeInv, ServerTyped, TabTyped, clock, history
<1> QED
  BY <1>1, <1>2, <1>3 DEF TypeInv

\* A pair is issued for a sign-in, or for a rotation of one of its pairs.
LEMMA IssueDoes ==
  ASSUME TypeInv, NEW l \in 1 .. issued + 1, NEW gone, Issue(l, gone), UNCHANGED <<clock, history>>
  PROVE  /\ ServerTyped'
         /\ issued' = issued + 1 /\ issued' \in Pairs
         /\ rows' = (rows \ gone) \cup {issued'}
         /\ login'[issued'] = l
         /\ \A i \in 1 .. issued : login'[i] = login[i]
<1>1. /\ issued \in 0 .. MaxPairs /\ issued < MaxPairs /\ MaxPairs \in Nat
      /\ issued' = issued + 1
      /\ rows' = (rows \ gone) \cup {issued + 1}
      /\ login' = [login EXCEPT ![issued + 1] = l]
      /\ login \in [Pairs -> Nat]
  BY SessionConstants DEF Issue, TypeInv, ServerTyped
<1>2. issued + 1 \in Pairs
  BY <1>1 DEF Pairs
<1>3. login'[issued + 1] = l /\ login' \in [Pairs -> Nat]
      /\ \A i \in 1 .. issued : login'[i] = login[i]
  BY <1>1, <1>2
<1>4. \A i \in 1 .. issued' : login'[i] \in 1 .. i
  BY <1>1, <1>3 DEF TypeInv, ServerTyped
<1>5. rows' \subseteq 1 .. issued'
  <2>1. rows \subseteq 1 .. issued
    BY DEF TypeInv, ServerTyped
  <2>2. \A i \in rows' : i \in rows \/ i = issued + 1
    BY <1>1
  <2>3. \A i \in 1 .. issued : i \in 1 .. issued'
    BY <1>1
  <2>4. issued + 1 \in 1 .. issued'
    BY <1>1
  <2> QED
    BY <2>1, <2>2, <2>3, <2>4
<1> QED
  BY <1>1, <1>2, <1>3, <1>4, <1>5 DEF TypeInv, ServerTyped, clock, history

LEMMA RotatingDoes ==
  ASSUME TypeInv, PostInv, NEW p \in posts, Rotating(p)
  PROVE  /\ TypeInv'
         /\ issued' = issued + 1 /\ issued' \in Pairs
         /\ rows' = (rows \ {p.pair}) \cup {issued'}
         /\ p.pair \in rows /\ p.pair \in 1 .. issued
         /\ login'[issued'] = login[p.pair]
         /\ \A i \in 1 .. issued : login'[i] = login[i]
         /\ posts' = posts \ {p}
         /\ \A t \in Tabs, s \in Slots :
              /\ call'[t][s].pc = call[t][s].pc /\ call'[t][s].pair = call[t][s].pair
              /\ IF p.to = <<t, s>> THEN call'[t][s].reply = issued' ELSE Same(t, s)
<1>1. /\ p.pair \in rows /\ p.pair \in 1 .. issued
      /\ issued \in 0 .. MaxPairs /\ issued < MaxPairs /\ MaxPairs \in Nat
      /\ Issue(login[p.pair], {p.pair}) /\ Answer(p, issued + 1)
      /\ UNCHANGED <<clock, stored, shown, last, auth, history>>
  BY SessionConstants DEF Rotating, Issue, TypeInv, ServerTyped, PostsTyped
<1>2. login[p.pair] \in 1 .. issued + 1
  <2>1. login[p.pair] \in 1 .. p.pair
    BY <1>1 DEF TypeInv, ServerTyped
  <2> QED
    BY <1>1, <2>1
<1>3. /\ ServerTyped'
      /\ issued' = issued + 1 /\ issued' \in Pairs
      /\ rows' = (rows \ {p.pair}) \cup {issued'}
      /\ login'[issued'] = login[p.pair]
      /\ \A i \in 1 .. issued : login'[i] = login[i]
  BY <1>1, <1>2, IssueDoes
<1>4. issued + 1 \in 0 .. MaxPairs + 1 /\ issued' \in Nat /\ issued <= issued' /\ issued + 1 <= issued'
  BY <1>1, <1>3
<1>5. /\ CallsTyped' /\ PostsTyped' /\ posts' = posts \ {p}
      /\ \A t \in Tabs, s \in Slots :
           /\ call'[t][s].pc = call[t][s].pc /\ call'[t][s].pair = call[t][s].pair
           /\ IF p.to = <<t, s>> THEN call'[t][s].reply = issued + 1 ELSE Same(t, s)
  BY <1>1, <1>4, AnswerDoes
<1>6. TabTyped'
  BY <1>1, <1>3, SessionConstants DEF TypeInv, TabTyped, ServerTyped, Auths
<1> QED
  BY <1>1, <1>3, <1>5, <1>6 DEF TypeInv

LEMMA TakingDoes ==
  ASSUME TypeInv, PostInv, NEW t \in Tabs, NEW s \in Slots, Taking(t, s)
  PROVE  /\ TypeInv'
         /\ call[t][s].pc = "posted" /\ call[t][s].pair = stored /\ stored # None
         /\ call[t][s].reply \in Pairs /\ stored' = call[t][s].reply
         /\ UNCHANGED <<server, clock, posts, auth, history>>
         /\ \A u \in Tabs, r \in Slots : Same(u, r) \/ Quits(u, r)
         /\ Off(t, s)
<1> DEFINE W == Waiting(t, s)
           c == call[t][s]
           f == [r \in Slots |->
                   IF r \in W
                   THEN [call[t][r] EXCEPT !.pc = "sent", !.pair = c.reply,
                                           !.again = TRUE, !.reply = None]
                   ELSE call[t][r]]
<1>1. /\ c.pc = "posted" /\ c.reply \in Pairs /\ c.pair = stored /\ stored' = c.reply
      /\ UNCHANGED <<server, clock, posts, auth, history>>
      /\ last' = [NoRefresh EXCEPT ![t] = c.pair]
      /\ call' = [call EXCEPT ![t] = f]
  BY DEF Taking, RefreshAnswered, Fits, Store
<1>2. c \in Calls /\ Sound(c, issued) /\ issued \in 0 .. MaxPairs
  BY CallTyped DEF TypeInv, ServerTyped
<1>3. c.reply \in 1 .. issued /\ c.pair # None /\ c.reply \in 0 .. MaxPairs /\ c.reply # None
  <2>1. c.reply \in 1 .. MaxPairs /\ c.reply # Refused
    BY <1>1, PairsAre
  <2>2. c.reply <= issued /\ c.pair # None
    BY <1>1, <1>2, <2>1 DEF Sound
  <2> HIDE DEF c
  <2>3. issued \in 0 .. MaxPairs /\ MaxPairs \in Nat
    BY <1>2, SessionConstants
  <2> QED
    BY <2>1, <2>2, <2>3 DEF None
<1>4. ASSUME NEW r \in Slots
      PROVE  /\ f[r] \in Calls /\ Sound(f[r], issued)
             /\ IF r \in W THEN f[r].pc = "sent" /\ f[r].reply = None ELSE f[r] = call[t][r]
  <2> DEFINE e == [call[t][r] EXCEPT !.pc = "sent", !.pair = c.reply, !.again = TRUE, !.reply = None]
  <2>1. call[t][r] \in Calls /\ Sound(call[t][r], issued)
    BY CallTyped
  <2>2. None \in 0 .. MaxPairs + 1 /\ None <= issued
    BY <1>2, SessionConstants DEF None
  <2>3. e \in Calls /\ e.pc = "sent" /\ e.pair = c.reply /\ e.reply = None
    BY <1>3, <2>1, <2>2 DEF Calls
  <2>4. f[r] = IF r \in W THEN e ELSE call[t][r]
    OBVIOUS
  <2> HIDE DEF e, f, W
  <2>5. Sound(e, issued)
    BY <1>2, <1>3, <2>2, <2>3 DEF Sound
  <2> QED
    BY <2>1, <2>3, <2>4, <2>5
<1>5. s \in W /\ \A r \in W : r = s \/ call[t][r].pc = "joined"
  BY DEF Waiting
<1>6. f \in [Slots -> Calls] /\ \A r \in Slots : Sound(f[r], issued)
  BY <1>4
<1>0. W \in SUBSET Slots
  BY DEF Waiting
<1> HIDE DEF f, W
<1>7. CallsTyped' /\ call'[t] = f /\ \A u \in Tabs, r \in Slots : u # t => Same(u, r)
  BY <1>1, <1>6, CallsOfTab DEF server
<1>8. \A r \in W : Off(t, r)
  BY <1>0, <1>4, <1>7 DEF Off
<1>9. ASSUME NEW r \in W, NEW q \in posts' PROVE q.to # <<t, r>>
  <2>1. q \in posts /\ r \in Slots
    BY <1>0, <1>1
  <2>2. CASE r = s
    BY <1>1, <1>3, <2>1, <2>2 DEF PostInv
  <2>3. CASE call[t][r].pc = "joined"
    BY <2>1, <2>3 DEF PostInv
  <2> QED
    BY <1>5, <2>2, <2>3
<1>10. \A u \in Tabs, r \in Slots : Same(u, r) \/ Quits(u, r)
  BY <1>4, <1>7, <1>8, <1>9 DEF Same, Quits
<1>11. last' \in [Tabs -> 0 .. MaxPairs]
  BY <1>1, <1>2, SessionConstants DEF NoRefresh, None, Calls
<1>12. ServerTyped' /\ PostsTyped' /\ TabTyped'
  BY <1>1, <1>3, <1>11 DEF TypeInv, ServerTyped, PostsTyped, TabTyped, server, clock, history
<1> QED
  BY <1>1, <1>3, <1>5, <1>7, <1>8, <1>10, <1>12 DEF TypeInv

LEMMA OutdatedDoes ==
  ASSUME TypeInv, NEW t \in Tabs, call' = [call EXCEPT ![t] = Outdated(call[t])],
         issued' \in Nat, issued <= issued'
  PROVE  CallsTyped' /\ AllSame
<1> DEFINE f == Outdated(call[t])
<1>1. call[t] \in [Slots -> Calls] /\ \A s \in Slots : Sound(call[t][s], issued)
  BY CallTyped DEF TypeInv, CallsTyped
<1>2. /\ f \in [Slots -> Calls] /\ \A s \in Slots : Sound(f[s], issued)
      /\ \A s \in Slots : f[s].pc = call[t][s].pc /\ f[s].pair = call[t][s].pair
                         /\ f[s].reply = call[t][s].reply
  BY <1>1, OutdatedTyped
<1> HIDE DEF f
<1>3. call' \in [Tabs -> [Slots -> Calls]] /\ call'[t] = f
      /\ \A u \in Tabs : u # t => call'[u] = call[u]
  BY <1>2 DEF TypeInv, CallsTyped, f
<1>4. AllSame
  BY <1>2, <1>3 DEF AllSame, Same
<1>5. ASSUME NEW u \in Tabs, NEW s \in Slots PROVE Sound(call'[u][s], issued')
  <2>1. /\ call'[u][s].pc = call[u][s].pc /\ call'[u][s].pair = call[u][s].pair
        /\ call'[u][s].reply = call[u][s].reply
    BY <1>4 DEF AllSame, Same
  <2>2. call[u][s] \in Calls /\ Sound(call[u][s], issued) /\ issued \in Nat
    BY CallTyped
  <2>3. call[u][s].pair \in Nat /\ call[u][s].reply \in Nat
    BY <2>2, SessionConstants DEF Calls
  <2> QED
    BY <2>1, <2>2, <2>3 DEF Sound
<1> QED
  BY <1>3, <1>4, <1>5 DEF CallsTyped

LEMMA EnteringDoes ==
  ASSUME TypeInv, NEW t \in Tabs, Entering(t)
  PROVE  /\ TypeInv' /\ AllSame
         /\ issued' = issued + 1 /\ issued' \in Pairs
         /\ rows' = rows \cup {issued'}
         /\ login'[issued'] = issued'
         /\ \A i \in 1 .. issued : login'[i] = login[i]
         /\ auth'[t].pair = issued'
         /\ \A u \in Tabs : u # t => auth'[u].pair = auth[u].pair
<1>1. /\ issued \in 0 .. MaxPairs /\ MaxPairs \in Nat /\ Issue(issued + 1, {})
      /\ UNCHANGED <<clock, history>>
      /\ call' = [call EXCEPT ![t] = Outdated(call[t])]
  BY SessionConstants DEF Entering, TypeInv, ServerTyped
<1>2. /\ ServerTyped'
      /\ issued' = issued + 1 /\ issued' \in Pairs
      /\ rows' = rows \cup {issued'}
      /\ login'[issued'] = issued'
      /\ \A i \in 1 .. issued : login'[i] = login[i]
  <2>1. issued + 1 \in 1 .. issued + 1
    BY <1>1
  <2> QED
    BY <1>1, <2>1, IssueDoes
<1>3. issued' \in Nat /\ issued <= issued' /\ issued' \in 0 .. MaxPairs
  BY <1>1, <1>2 DEF Pairs
<1>4. CallsTyped' /\ AllSame
  BY <1>1, <1>3, OutdatedDoes
<1>5. PostsTyped'
  BY <1>1, <1>2 DEF TypeInv, PostsTyped, Entering
<1> DEFINE a == [pair |-> issued + 1, fresh |-> TRUE]
<1>6. a \in Auths /\ a.pair = issued' /\ issued' # None
  BY <1>1, <1>2, <1>3 DEF Auths, None, Pairs
<1>7. auth' = [auth EXCEPT ![t] = a] /\ UNCHANGED <<stored, last>>
  BY DEF Entering
<1> HIDE DEF a
<1>8. auth' \in [Tabs -> Auths] /\ auth'[t] = a /\ \A u \in Tabs : u # t => auth'[u] = auth[u]
  BY <1>6, <1>7 DEF TypeInv, TabTyped
<1>9. \A u \in Tabs : /\ auth[u].pair \in 0 .. MaxPairs /\ auth[u].pair <= issued
                      /\ auth[u].fresh => auth[u].pair # None
  BY DEF TypeInv, TabTyped, Auths
<1>10. \A u \in Tabs : /\ auth'[u].pair <= issued'
                       /\ auth'[u].fresh => auth'[u].pair # None
  BY <1>1, <1>2, <1>6, <1>8, <1>9
<1>11. TabTyped'
  BY <1>1, <1>2, <1>7, <1>8, <1>10 DEF TypeInv, TabTyped
<1> QED
  BY <1>2, <1>4, <1>5, <1>6, <1>8, <1>11 DEF TypeInv

LEMMA EnteredDoes ==
  ASSUME TypeInv, NEW t \in Tabs, Entered(t)
  PROVE  /\ TypeInv' /\ AllSame
         /\ auth[t].pair # None /\ stored' = auth[t].pair
         /\ auth'[t].pair = None /\ \A u \in Tabs : u # t => auth'[u].pair = auth[u].pair
<1>1. /\ auth[t].pair # None /\ auth[t].pair \in 0 .. issued /\ issued \in 0 .. MaxPairs
  BY SessionConstants DEF Entered, TypeInv, TabTyped, ServerTyped, Auths
<1>2. /\ auth' \in [Tabs -> Auths] /\ auth'[t] = NoAuth
      /\ \A u \in Tabs : u # t => auth'[u] = auth[u]
  BY IdleTyped DEF Entered, TypeInv, TabTyped
<1>3. NoAuth.pair = None /\ NoAuth.fresh = FALSE /\ None <= issued
  BY <1>1, IdleTyped DEF None
<1>4. stored' = auth[t].pair /\ last' \in [Tabs -> 0 .. MaxPairs]
  BY SessionConstants DEF Entered, Store, NoRefresh, None
<1>5. TabTyped'
  BY <1>1, <1>2, <1>3, <1>4 DEF Entered, TypeInv, TabTyped, server
<1>6. CallsTyped' /\ AllSame
  <2>1. issued' \in Nat /\ issued <= issued'
    BY <1>1, SessionConstants DEF Entered, server
  <2>2. call' = [call EXCEPT ![t] = Outdated(call[t])]
    BY DEF Entered
  <2> QED
    BY <2>1, <2>2, OutdatedDoes
<1>7. ServerTyped' /\ PostsTyped'
  BY DEF Entered, TypeInv, ServerTyped, PostsTyped, server, clock, history
<1> QED
  BY <1>1, <1>2, <1>3, <1>4, <1>5, <1>6, <1>7 DEF TypeInv

LEMMA LogoutDoes ==
  ASSUME TypeInv, NEW t \in Tabs, Logout(t)
  PROVE  /\ TypeInv' /\ AllSame
         /\ stored' = None /\ rows' \subseteq rows /\ rows \ {stored} \subseteq rows'
         /\ UNCHANGED <<issued, login, lapsed, posts, misses>>
         /\ stored = None => ended' = ended
         /\ stored # None => ended' = ended \cup {login[stored]}
         /\ \A u \in Tabs : auth'[u].pair = auth[u].pair
<1>1. /\ Store(None, NoRefresh) /\ auth' = [auth EXCEPT ![t].fresh = FALSE]
      /\ call' = [call EXCEPT ![t] = Outdated(call[t])]
      /\ UNCHANGED <<issued, login, clock, posts, misses>>
      /\ issued \in 0 .. MaxPairs /\ MaxPairs \in Nat /\ stored \in 0 .. issued
  BY SessionConstants DEF Logout, TypeInv, ServerTyped, TabTyped
<1>2. /\ auth' \in [Tabs -> Auths]
      /\ \A u \in Tabs : /\ auth'[u].pair = auth[u].pair
                         /\ auth'[u].pair <= issued'
                         /\ auth'[u].fresh => auth'[u].pair # None
  BY <1>1, NotFresh
<1>3. CallsTyped' /\ AllSame
  <2>1. issued' \in Nat /\ issued <= issued'
    BY <1>1
  <2> QED
    BY <1>1, <2>1, OutdatedDoes
<1>4. /\ stored' = None /\ stored' \in 0 .. issued'
      /\ last' \in [Tabs -> 0 .. MaxPairs] /\ \A u \in Tabs : last'[u] = None
  BY <1>1, StoresNone
<1>5. /\ rows' \subseteq rows /\ rows \ {stored} \subseteq rows'
      /\ stored = None => ended' = ended
      /\ stored # None => ended' = ended \cup {login[stored]}
  BY DEF Logout
<1>6. stored # None => login[stored] \in 1 .. issued
  BY <1>1 DEF TypeInv, ServerTyped, None
<1>7. ServerTyped' /\ PostsTyped'
  BY <1>1, <1>5, <1>6 DEF TypeInv, ServerTyped, PostsTyped, clock
<1> QED
  BY <1>1, <1>2, <1>3, <1>4, <1>5, <1>7 DEF TypeInv, TabTyped, clock

LEMMA TypeStep == TypeInv /\ PostInv /\ [SessionNext]_sessionVars => TypeInv'
  BY SessionMoves, StaysTyped, PostingDoes, FindingDoes, RefusingDoes, RotatingDoes, TakingDoes,
     EnteringDoes, EnteredDoes, LogoutDoes

--------------------------------------------------------------------------------
(***************************************************************************)
(* One sign-in, one live refresh row; one tab, one rotation of a pair; and *)
(* the call a rotation answers waits for it.                               *)
(***************************************************************************)
LEMMA Known ==
  ASSUME TypeInv
  PROVE  /\ \A t \in Tabs, s \in Slots : call[t][s].reply \in Pairs =>
              /\ call[t][s].reply \in 1 .. issued /\ call[t][s].pair \in 1 .. issued
              /\ call[t][s].pc = "posted"
         /\ \A t \in Tabs : auth[t].pair # None => auth[t].pair \in 1 .. issued
         /\ stored # None => stored \in 1 .. issued
         /\ issued \in Nat /\ None \notin 1 .. issued /\ 1 .. issued \subseteq Pairs
<1>1. issued \in 0 .. MaxPairs /\ MaxPairs \in Nat
  BY SessionConstants DEF TypeInv, ServerTyped
<1>2. ASSUME NEW t \in Tabs, NEW s \in Slots, call[t][s].reply \in Pairs
      PROVE  /\ call[t][s].reply \in 1 .. issued /\ call[t][s].pair \in 1 .. issued
             /\ call[t][s].pc = "posted"
  <2>1. /\ call[t][s].reply \in 1 .. MaxPairs /\ call[t][s].reply # Refused
        /\ call[t][s].reply # None
    BY <1>2, PairsAre
  <2>2. call[t][s] \in Calls /\ Sound(call[t][s], issued)
    BY CallTyped
  <2>3. /\ call[t][s].reply <= issued /\ call[t][s].pair <= issued /\ call[t][s].pair # None
        /\ call[t][s].pc = "posted" /\ call[t][s].pair \in 0 .. MaxPairs
    BY <2>1, <2>2 DEF Sound, Calls
  <2> QED
    BY <1>1, <2>1, <2>3 DEF None
<1>3. \A t \in Tabs : auth[t].pair # None => auth[t].pair \in 1 .. issued
  BY <1>1 DEF TypeInv, TabTyped, Auths, None
<1>4. stored # None => stored \in 1 .. issued
  BY <1>1 DEF TypeInv, TabTyped, None
<1>5. None \notin 1 .. issued /\ 1 .. issued \subseteq Pairs
  BY <1>1 DEF None, Pairs
<1> QED
  BY <1>1, <1>2, <1>3, <1>4, <1>5

LEMMA OneLiveStep ==
  ASSUME TypeInv, PostInv, OneLivePerSignIn, [SessionNext]_sessionVars
  PROVE  OneLivePerSignIn'
<1>0. /\ issued \in Nat /\ rows \subseteq 1 .. issued
      /\ \A i \in 1 .. issued : login[i] \in 1 .. i
  BY Known DEF TypeInv, ServerTyped
<1>1. CASE rows' \subseteq rows /\ login' = login
  BY <1>1 DEF OneLivePerSignIn
<1>2. ASSUME NEW p \in posts, Rotating(p) PROVE OneLivePerSignIn'
  <2>1. /\ p.pair \in rows
        /\ rows' = (rows \ {p.pair}) \cup {issued'}
        /\ login'[issued'] = login[p.pair]
        /\ \A i \in rows : login'[i] = login[i]
    BY <1>0, <1>2, RotatingDoes
  <2> QED
    BY <2>1 DEF OneLivePerSignIn
<1>3. ASSUME NEW t \in Tabs, Entering(t) PROVE OneLivePerSignIn'
  <2>1. /\ rows' = rows \cup {issued'}
        /\ login'[issued'] = issued' /\ issued' = issued + 1
        /\ \A i \in rows : login'[i] = login[i]
    BY <1>0, <1>3, EnteringDoes
  <2>2. \A i \in rows : login'[i] # issued'
    BY <1>0, <2>1
  <2> QED
    BY <2>1, <2>2 DEF OneLivePerSignIn
<1>4. ASSUME NEW t \in Tabs, Logout(t) PROVE rows' \subseteq rows /\ login' = login
  BY <1>4, LogoutDoes
<1>5. CASE Stays
  BY <1>1, <1>5 DEF Stays, Rests, server
<1>6. ASSUME NEW p \in posts, Finding(p) \/ Refusing(p) PROVE OneLivePerSignIn'
  BY <1>1, <1>6 DEF Finding, Refusing, RefuseRefresh, server
<1>7. ASSUME NEW t \in Tabs, NEW s \in Slots, Posting(t, s) \/ Taking(t, s) PROVE OneLivePerSignIn'
  BY <1>1, <1>7, TakingDoes DEF Posting, server
<1>8. ASSUME NEW t \in Tabs, Entered(t) PROVE OneLivePerSignIn'
  BY <1>1, <1>8 DEF Entered, server
<1> QED
  BY <1>1, <1>2, <1>3, <1>4, <1>5, <1>6, <1>7, <1>8, SessionMoves

LEMMA RotatesOnceStep ==
  ASSUME TypeInv, PostInv, RotatesOnce, [SessionNext]_sessionVars
  PROVE  RotatesOnce'
<1>1. CASE \A t \in Tabs, s \in Slots :
             \/ call'[t][s].pc # "posted"
             \/ call'[t][s].pc = call[t][s].pc /\ call'[t][s].pair = call[t][s].pair
  BY <1>1 DEF RotatesOnce
<1>2. ASSUME NEW t \in Tabs, NEW s \in Slots, Posting(t, s) PROVE RotatesOnce'
  <2>1. /\ call'[t][s].pair = stored
        /\ \A u \in Tabs, r \in Slots : u # t \/ r # s => Same(u, r)
    BY <1>2, PostingDoes
  <2>2. \A r \in Slots : call[t][r].pc = "posted" => call[t][r].pair # stored
    BY <1>2 DEF Posting, InFlight
  <2> QED
    BY <2>1, <2>2 DEF RotatesOnce, Same
<1>3. CASE AllSame
  BY <1>1, <1>3 DEF AllSame, Same
<1>4. ASSUME NEW t \in Tabs, NEW s \in Slots, Taking(t, s) PROVE RotatesOnce'
  BY <1>1, <1>4, TakingDoes DEF Quits, Off, Same
<1>5. CASE Stays
  BY <1>1, <1>5 DEF Stays, Rests, Quits, Off, Same
<1>6. ASSUME NEW p \in posts, Refusing(p) \/ Rotating(p) PROVE RotatesOnce'
  BY <1>1, <1>6, RefusingDoes, RotatingDoes
<1> QED
  BY <1>2, <1>3, <1>4, <1>5, <1>6, SessionMoves, FindingDoes, EnteringDoes, EnteredDoes, LogoutDoes

LEMMA PostKept ==
  ASSUME PostInv, \A q \in posts' : q \in posts \/ q.to = <<>>,
         \A t \in Tabs, s \in Slots : Same(t, s) \/ \A q \in posts' : q.to # <<t, s>>
  PROVE  PostInv'
<1>1. ASSUME NEW q \in posts', NEW t \in Tabs, NEW s \in Slots, q.to = <<t, s>>
      PROVE  call'[t][s].pc = "posted" /\ call'[t][s].pair = q.pair /\ call'[t][s].reply = None
  BY <1>1, NoPlace DEF PostInv, Same
<1>2. \A p, q \in posts' : p.to = q.to /\ p.to # <<>> => p = q
  BY DEF PostInv
<1> QED
  BY <1>1, <1>2 DEF PostInv

LEMMA PostStep ==
  ASSUME TypeInv, PostInv, [SessionNext]_sessionVars
  PROVE  PostInv'
<1>1. CASE Stays
  <2>1. \A p \in posts : [p EXCEPT !.to = <<>>].to = <<>>
    BY DEF TypeInv, PostsTyped, Posts
  <2> QED
    BY <1>1, <2>1, PostKept DEF Stays, Rests, Quits
<1>2. ASSUME NEW p \in posts, Finding(p) PROVE PostInv'
  <2> DEFINE n == [p EXCEPT !.at = "found"]
  <2>1. n.pair = p.pair /\ n.to = p.to /\ AllSame /\ posts' = (posts \ {p}) \cup {n}
    BY <1>2, FindingDoes DEF Finding
  <2> HIDE DEF n
  <2>2. \A q \in posts' : q = n \/ (q \in posts /\ q # p)
    BY <2>1
  <2>3. \A p1, q \in posts' : p1.to = q.to /\ p1.to # <<>> => p1 = q
    BY <2>1, <2>2 DEF PostInv
  <2>4. ASSUME NEW q \in posts', NEW t \in Tabs, NEW s \in Slots, q.to = <<t, s>>
        PROVE  call'[t][s].pc = "posted" /\ call'[t][s].pair = q.pair /\ call'[t][s].reply = None
    BY <2>1, <2>2, <2>4 DEF PostInv, AllSame, Same
  <2> QED
    BY <2>3, <2>4 DEF PostInv
<1>3. ASSUME NEW p \in posts, Refusing(p) \/ Rotating(p) PROVE PostInv'
  <2>1. /\ posts' = posts \ {p}
        /\ \A t \in Tabs, s \in Slots : p.to = <<t, s>> \/ Same(t, s)
    BY <1>3, RefusingDoes, RotatingDoes
  <2>2. \A t \in Tabs, s \in Slots : p.to = <<t, s>> => \A q \in posts' : q.to # <<t, s>>
    BY <2>1, NoPlace DEF PostInv
  <2> QED
    BY <2>1, <2>2, PostKept
<1>4. ASSUME NEW t \in Tabs, NEW s \in Slots, Posting(t, s) PROVE PostInv'
  <2> DEFINE n == Posted(t, s)
  <2>1. /\ n.pair = stored /\ n.to = <<t, s>> /\ posts' = posts \cup {n}
        /\ call'[t][s].pc = "posted" /\ call'[t][s].pair = stored /\ call'[t][s].reply = None
        /\ \A u \in Tabs, r \in Slots : u # t \/ r # s => Same(u, r)
    BY <1>4, PostingDoes DEF Posting
  <2>2. \A q \in posts : q.to # <<t, s>>
    BY <1>4 DEF Posting, PostInv
  <2> HIDE DEF n
  <2>3. \A p, q \in posts' : p.to = q.to /\ p.to # <<>> => p = q
    BY <2>1, <2>2 DEF PostInv
  <2>4. ASSUME NEW q \in posts', NEW u \in Tabs, NEW r \in Slots, q.to = <<u, r>>
        PROVE  call'[u][r].pc = "posted" /\ call'[u][r].pair = q.pair /\ call'[u][r].reply = None
    <3>1. CASE q = n
      <4>1. u = t /\ r = s
        BY <2>1, <2>4, <3>1
      <4> QED
        BY <2>1, <3>1, <4>1
    <3>2. CASE q # n
      <4>1. q \in posts /\ (u # t \/ r # s)
        BY <2>1, <2>2, <2>4, <3>2
      <4> QED
        BY <2>1, <2>4, <4>1 DEF PostInv, Same
    <3> QED
      BY <3>1, <3>2
  <2> QED
    BY <2>3, <2>4 DEF PostInv
<1>5. ASSUME NEW t \in Tabs, NEW s \in Slots, Taking(t, s) PROVE PostInv'
  BY <1>5, TakingDoes, PostKept DEF Quits
<1>6. CASE AllSame /\ posts' = posts
  BY <1>6, PostKept DEF AllSame
<1>7. ASSUME NEW t \in Tabs, Entering(t) \/ Entered(t) \/ Logout(t) PROVE AllSame /\ posts' = posts
  BY <1>7, EnteringDoes, EnteredDoes, LogoutDoes DEF Entering, Entered
<1> QED
  BY <1>1, <1>2, <1>3, <1>4, <1>5, <1>6, <1>7, SessionMoves

--------------------------------------------------------------------------------
(***************************************************************************)
(* Whose the pairs are that answers and sign-ins bring to the storage.     *)
(***************************************************************************)
\* No pair is stored but the old one, no sign-in begins and no answer arrives.
LEMMA AuthKept ==
  ASSUME TypeInv, AuthInv, UNCHANGED <<issued, login>>, ended' = ended \/ stored' = None,
         \A i \in ended' : i \in ended \/ (stored # None /\ i = login[stored]),
         stored' \in {stored, None},
         \A t \in Tabs, s \in Slots : Same(t, s) \/ call'[t][s].reply \notin Pairs,
         \A t \in Tabs : auth'[t].pair \in {auth[t].pair, None}
  PROVE  AuthInv'
<1>1. \A t \in Tabs, s \in Slots : call'[t][s].reply \in Pairs =>
        login'[call'[t][s].reply] = login'[call'[t][s].pair]
  BY DEF AuthInv, Same
<1>2. \A t \in Tabs : auth'[t].pair # None => OwnSignIn(auth'[t].pair, login', ended', stored')
  BY DEF AuthInv, OwnSignIn
<1>3. \A t, u \in Tabs : auth'[t].pair # None /\ auth'[t].pair = auth'[u].pair => t = u
  BY DEF AuthInv
<1>4. LoggedOutStaysOut'
  BY DEF AuthInv, LoggedOutStaysOut
<1> QED
  BY <1>1, <1>2, <1>3, <1>4 DEF AuthInv

LEMMA AuthStep ==
  ASSUME TypeInv, PostInv, AuthInv, [SessionNext]_sessionVars
  PROVE  AuthInv'
<1>0. /\ issued \in Nat /\ ended \subseteq 1 .. issued
      /\ None \notin Pairs /\ None \notin 1 .. issued
  BY Known, PairsAre DEF TypeInv, ServerTyped
<1>1. CASE Stays
  BY <1>0, <1>1, AuthKept DEF Stays, Rests, Quits, Off, server
<1>2. ASSUME NEW p \in posts, Finding(p) PROVE AuthInv'
  BY <1>2, FindingDoes, AuthKept DEF Finding, server, tab, history, AllSame
<1>3. ASSUME NEW t \in Tabs, NEW s \in Slots, Posting(t, s) PROVE AuthInv'
  <2>1. \A u \in Tabs, r \in Slots : Same(u, r) \/ call'[u][r].reply \notin Pairs
    BY <1>0, <1>3, PostingDoes
  <2> QED
    BY <1>3, <2>1, AuthKept DEF Posting, server, history
<1>4. ASSUME NEW p \in posts, Refusing(p) PROVE AuthInv'
  BY <1>4, RefusingDoes, AuthKept DEF Refusing, RefuseRefresh, history
<1>5. ASSUME NEW p \in posts, Rotating(p) PROVE AuthInv'
  <2>1. /\ issued' = issued + 1 /\ p.pair \in 1 .. issued
        /\ login'[issued'] = login[p.pair]
        /\ \A i \in 1 .. issued : login'[i] = login[i]
        /\ \A t \in Tabs, s \in Slots :
             /\ call'[t][s].pair = call[t][s].pair
             /\ IF p.to = <<t, s>> THEN call'[t][s].reply = issued' ELSE Same(t, s)
        /\ UNCHANGED <<stored, auth, ended>>
    BY <1>5, RotatingDoes DEF Rotating, history
  <2>2. ASSUME NEW t \in Tabs, NEW s \in Slots, call'[t][s].reply \in Pairs
        PROVE  login'[call'[t][s].reply] = login'[call'[t][s].pair]
    <3>1. CASE p.to = <<t, s>>
      <4>1. call[t][s].pair = p.pair
        BY <3>1 DEF PostInv
      <4> QED
        BY <2>1, <3>1, <4>1
    <3>2. CASE p.to # <<t, s>>
      <4>1. call'[t][s].reply = call[t][s].reply /\ call'[t][s].pair = call[t][s].pair
        BY <2>1, <3>2 DEF Same
      <4>2. /\ call[t][s].reply \in 1 .. issued /\ call[t][s].pair \in 1 .. issued
            /\ login[call[t][s].reply] = login[call[t][s].pair]
        BY <2>2, <4>1, Known DEF AuthInv
      <4> QED
        BY <2>1, <4>1, <4>2
    <3> QED
      BY <3>1, <3>2
  <2>3. \A t \in Tabs : auth'[t].pair # None => OwnSignIn(auth'[t].pair, login', ended', stored')
    BY <2>1, Known DEF AuthInv, OwnSignIn
  <2>4. LoggedOutStaysOut'
    BY <2>1, Known DEF AuthInv, LoggedOutStaysOut
  <2>5. \A t, u \in Tabs : auth'[t].pair # None /\ auth'[t].pair = auth'[u].pair => t = u
    BY <2>1 DEF AuthInv
  <2> QED
    BY <2>2, <2>3, <2>4, <2>5 DEF AuthInv
<1>6. ASSUME NEW t \in Tabs, NEW s \in Slots, Taking(t, s) PROVE AuthInv'
  <2>1. /\ call[t][s].pair = stored /\ stored # None
        /\ call[t][s].reply \in Pairs /\ stored' = call[t][s].reply
        /\ UNCHANGED <<login, auth, ended>>
        /\ \A u \in Tabs, r \in Slots : Same(u, r) \/ call'[u][r].reply \notin Pairs
    BY <1>0, <1>6, TakingDoes DEF server, history, Quits, Off
  <2>2. \A u \in Tabs, r \in Slots : call'[u][r].reply \in Pairs =>
          login'[call'[u][r].reply] = login'[call'[u][r].pair]
    BY <2>1 DEF AuthInv, Same
  <2>3. \A u \in Tabs : auth'[u].pair # None => OwnSignIn(auth'[u].pair, login', ended', stored')
    BY <2>1 DEF AuthInv, OwnSignIn
  <2>4. LoggedOutStaysOut'
    BY <2>1 DEF AuthInv, LoggedOutStaysOut
  <2>5. \A u, v \in Tabs : auth'[u].pair # None /\ auth'[u].pair = auth'[v].pair => u = v
    BY <2>1 DEF AuthInv
  <2> QED
    BY <2>2, <2>3, <2>4, <2>5 DEF AuthInv
<1>7. ASSUME NEW t \in Tabs, Entering(t) PROVE AuthInv'
  <2>1. /\ UNCHANGED <<stored, ended>> /\ AllSame
        /\ issued' = issued + 1 /\ login'[issued'] = issued'
        /\ \A i \in 1 .. issued : login'[i] = login[i]
        /\ auth'[t].pair = issued'
        /\ \A u \in Tabs : u # t => auth'[u].pair = auth[u].pair
    BY <1>7, EnteringDoes DEF Entering, history
  <2>2. \A u \in Tabs, r \in Slots : call'[u][r].reply \in Pairs =>
          login'[call'[u][r].reply] = login'[call'[u][r].pair]
    BY <2>1, Known DEF AuthInv, AllSame, Same
  <2>3. /\ issued' \notin ended /\ issued' \notin 1 .. issued
        /\ stored # None => login[stored] \in 1 .. issued
    BY <1>0, <2>1, Known DEF TypeInv, ServerTyped
  <2>4. ASSUME NEW u \in Tabs, auth'[u].pair # None PROVE OwnSignIn(auth'[u].pair, login', ended', stored')
    BY <2>1, <2>3, <2>4, Known DEF AuthInv, OwnSignIn
  <2>5. \A u, v \in Tabs : auth'[u].pair # None /\ auth'[u].pair = auth'[v].pair => u = v
    BY <2>1, <2>3, Known DEF AuthInv
  <2>6. LoggedOutStaysOut'
    BY <2>1, Known DEF AuthInv, LoggedOutStaysOut
  <2> QED
    BY <2>2, <2>4, <2>5, <2>6 DEF AuthInv
<1>8. ASSUME NEW t \in Tabs, Entered(t) PROVE AuthInv'
  <2>1. /\ AllSame /\ auth[t].pair # None /\ stored' = auth[t].pair
        /\ auth'[t].pair = None /\ \A u \in Tabs : u # t => auth'[u].pair = auth[u].pair
        /\ UNCHANGED <<login, ended>>
    BY <1>8, EnteredDoes DEF Entered, server, history
  <2>2. \A u \in Tabs, r \in Slots : call'[u][r].reply \in Pairs =>
          login'[call'[u][r].reply] = login'[call'[u][r].pair]
    BY <2>1 DEF AuthInv, AllSame, Same
  <2>3. \A u \in Tabs : auth'[u].pair # None => OwnSignIn(auth'[u].pair, login', ended', stored')
    BY <2>1 DEF AuthInv, OwnSignIn
  <2>4. LoggedOutStaysOut'
    BY <2>1 DEF AuthInv, OwnSignIn, LoggedOutStaysOut
  <2>5. \A u, v \in Tabs : auth'[u].pair # None /\ auth'[u].pair = auth'[v].pair => u = v
    BY <2>1 DEF AuthInv
  <2> QED
    BY <2>2, <2>3, <2>4, <2>5 DEF AuthInv
<1>9. ASSUME NEW t \in Tabs, Logout(t) PROVE AuthInv'
  <2>1. /\ AllSame /\ stored' = None /\ UNCHANGED <<issued, login>>
        /\ stored = None => ended' = ended
        /\ stored # None => ended' = ended \cup {login[stored]}
        /\ \A u \in Tabs : auth'[u].pair = auth[u].pair
    BY <1>9, LogoutDoes
  <2> QED
    BY <2>1, AuthKept DEF AllSame
<1> QED
  BY <1>1, <1>2, <1>3, <1>4, <1>5, <1>6, <1>7, <1>8, <1>9, SessionMoves

--------------------------------------------------------------------------------
(***************************************************************************)
(* The pairs nobody has stored yet: none appears, and either what is       *)
(* stored stays (FreshKept) or one of them is stored (FreshTaken).         *)
(***************************************************************************)
LEMMA FreshKept ==
  ASSUME TypeInv, TypeInv', FreshInv,
         \A t \in Tabs, s \in Slots : call'[t][s].reply \in Pairs =>
           call'[t][s].reply = call[t][s].reply,
         \A t \in Tabs : auth'[t].pair # None => auth'[t].pair = auth[t].pair,
         \A i \in Pairs : Unseen(i, rows, stored, posts) =>
           i \in rows' /\ i # stored' /\ \A p \in posts' : p.pair # i
  PROVE  FreshInv'
<1>1. \A t \in Tabs : auth[t].pair # None => auth[t].pair \in Pairs
  BY Known
<1>2. \A t \in Tabs, s \in Slots : call'[t][s].reply \in Pairs =>
        Unseen(call'[t][s].reply, rows', stored', posts')
  BY DEF FreshInv, Unseen
<1>3. \A t \in Tabs : auth'[t].pair # None => Unseen(auth'[t].pair, rows', stored', posts')
  BY <1>1 DEF FreshInv, Unseen
<1>4. \A t, u \in Tabs, s, r \in Slots :
        call'[t][s].reply \in Pairs /\ call'[t][s].reply = call'[u][r].reply => t = u /\ s = r
  BY DEF FreshInv
<1>5. \A t, u \in Tabs, s \in Slots :
        call'[t][s].reply \in Pairs => call'[t][s].reply # auth'[u].pair
  BY PairsAre DEF FreshInv
<1> QED
  BY <1>2, <1>3, <1>4, <1>5 DEF FreshInv

LEMMA FreshTaken ==
  ASSUME TypeInv, TypeInv', FreshInv,
         \A t \in Tabs, s \in Slots : call'[t][s].reply \in Pairs =>
           call'[t][s].reply = call[t][s].reply /\ call[t][s].reply # stored',
         \A t \in Tabs : auth'[t].pair # None =>
           auth'[t].pair = auth[t].pair /\ auth[t].pair # stored',
         \A i \in Pairs : Unseen(i, rows, stored, posts) /\ i # stored' =>
           i \in rows' /\ i # stored' /\ \A p \in posts' : p.pair # i
  PROVE  FreshInv'
<1>1. \A t \in Tabs : auth[t].pair # None => auth[t].pair \in Pairs
  BY Known
<1>2. \A t \in Tabs, s \in Slots : call'[t][s].reply \in Pairs =>
        Unseen(call'[t][s].reply, rows', stored', posts')
  BY DEF FreshInv, Unseen
<1>3. \A t \in Tabs : auth'[t].pair # None => Unseen(auth'[t].pair, rows', stored', posts')
  BY <1>1 DEF FreshInv, Unseen
<1>4. \A t, u \in Tabs, s, r \in Slots :
        call'[t][s].reply \in Pairs /\ call'[t][s].reply = call'[u][r].reply => t = u /\ s = r
  BY DEF FreshInv
<1>5. \A t, u \in Tabs, s \in Slots :
        call'[t][s].reply \in Pairs => call'[t][s].reply # auth'[u].pair
  BY PairsAre DEF FreshInv
<1> QED
  BY <1>2, <1>3, <1>4, <1>5 DEF FreshInv

LEMMA FreshStep ==
  ASSUME TypeInv, PostInv, AuthInv, FreshInv, [SessionNext]_sessionVars
  PROVE  FreshInv'
<1>0. /\ TypeInv' /\ issued \in Nat /\ None \notin Pairs /\ None \notin 1 .. issued
      /\ rows \subseteq 1 .. issued
      /\ \A p \in posts : p \in Posts /\ p.pair \in 1 .. issued
      /\ stored # None => stored \in 1 .. issued
      /\ \A t \in Tabs, s \in Slots : call[t][s].reply \in Pairs => call[t][s].reply \in 1 .. issued
      /\ \A t \in Tabs : auth[t].pair # None => auth[t].pair \in 1 .. issued
  BY TypeStep, Known, PairsAre DEF TypeInv, ServerTyped, PostsTyped
<1>1. CASE Stays
  <2>1. \A t \in Tabs, s \in Slots : call'[t][s].reply \in Pairs =>
          call'[t][s].reply = call[t][s].reply
    BY <1>0, <1>1 DEF Stays, Rests, Quits, Off, Same
  <2>2. \A q \in posts' : \E p \in posts : q.pair = p.pair
    BY <1>0, <1>1 DEF Stays, Rests, Posts
  <2>3. \A i \in Pairs : Unseen(i, rows, stored, posts) =>
          i \in rows' /\ i # stored' /\ \A p \in posts' : p.pair # i
    BY <1>0, <1>1, <2>2 DEF Stays, Rests, Unseen, server
  <2>4. \A t \in Tabs : auth'[t].pair # None => auth'[t].pair = auth[t].pair
    BY <1>1 DEF Stays, Rests
  <2> QED
    BY <1>0, <2>1, <2>3, <2>4, FreshKept
<1>2. ASSUME NEW p \in posts, Finding(p) PROVE FreshInv'
  <2>1. AllSame /\ UNCHANGED <<rows, stored, auth>> /\ \A q \in posts' : \E o \in posts : q.pair = o.pair
    BY <1>2, FindingDoes DEF Finding, server, tab
  <2>2. \A t \in Tabs, s \in Slots : call'[t][s].reply = call[t][s].reply
    BY <2>1 DEF AllSame, Same
  <2>3. \A i \in Pairs : Unseen(i, rows, stored, posts) =>
          i \in rows' /\ i # stored' /\ \A q \in posts' : q.pair # i
    BY <2>1 DEF Unseen
  <2>4. \A u \in Tabs : auth'[u].pair # None => auth'[u].pair = auth[u].pair
    BY <2>1
  <2> QED
    BY <1>0, <2>2, <2>3, <2>4, FreshKept
<1>3. ASSUME NEW t \in Tabs, NEW s \in Slots, Posting(t, s) PROVE FreshInv'
  <2>1. /\ UNCHANGED <<rows, stored, auth>> /\ call'[t][s].reply = None
        /\ \A q \in posts' : q \in posts \/ q.pair = stored
        /\ \A u \in Tabs, r \in Slots : u # t \/ r # s => Same(u, r)
    BY <1>3, PostingDoes DEF Posting, server
  <2>2. \A u \in Tabs, r \in Slots : call'[u][r].reply \in Pairs =>
          call'[u][r].reply = call[u][r].reply
    BY <1>0, <2>1 DEF Same
  <2>3. \A i \in Pairs : Unseen(i, rows, stored, posts) =>
          i \in rows' /\ i # stored' /\ \A q \in posts' : q.pair # i
    BY <2>1 DEF Unseen
  <2>4. \A u \in Tabs : auth'[u].pair # None => auth'[u].pair = auth[u].pair
    BY <2>1
  <2> QED
    BY <1>0, <2>2, <2>3, <2>4, FreshKept
<1>4. ASSUME NEW p \in posts, Refusing(p) PROVE FreshInv'
  <2>1. /\ posts' \subseteq posts /\ UNCHANGED <<stored, auth>> /\ rows \ {p.pair} \subseteq rows'
        /\ \A t \in Tabs, s \in Slots : Same(t, s) \/ call'[t][s].reply \notin Pairs
    BY <1>4, RefusingDoes DEF Refusing, RefuseRefresh
  <2>2. \A t \in Tabs, s \in Slots : call'[t][s].reply \in Pairs =>
          call'[t][s].reply = call[t][s].reply
    BY <1>0, <2>1 DEF Same
  <2>3. \A i \in Pairs : Unseen(i, rows, stored, posts) =>
          i \in rows' /\ i # stored' /\ \A q \in posts' : q.pair # i
    BY <2>1 DEF Unseen
  <2>4. \A u \in Tabs : auth'[u].pair # None => auth'[u].pair = auth[u].pair
    BY <2>1
  <2> QED
    BY <1>0, <2>2, <2>3, <2>4, FreshKept
<1>5. ASSUME NEW p \in posts, Rotating(p) PROVE FreshInv'
  <2>1. /\ issued' = issued + 1 /\ rows' = (rows \ {p.pair}) \cup {issued'}
        /\ posts' \subseteq posts /\ UNCHANGED <<stored, auth>>
        /\ \A t \in Tabs, s \in Slots :
             IF p.to = <<t, s>> THEN call'[t][s].reply = issued' ELSE Same(t, s)
    BY <1>5, RotatingDoes DEF Rotating
  <2>2. \A i : Unseen(i, rows, stored, posts) => Unseen(i, rows', stored', posts')
    BY <2>1 DEF Unseen
  <2>3. issued' \notin 1 .. issued /\ issued' # None
    BY <1>0, <2>1 DEF None
  <2>4. issued' \in rows' /\ issued' # stored' /\ \A q \in posts' : q.pair # issued'
    BY <1>0, <2>1, <2>3
  <2>5. ASSUME NEW t \in Tabs, NEW s \in Slots, call'[t][s].reply \in Pairs
        PROVE  /\ Unseen(call'[t][s].reply, rows', stored', posts')
               /\ p.to = <<t, s>> \/ (call'[t][s].reply = call[t][s].reply /\ call'[t][s].reply # issued')
    BY <1>0, <2>1, <2>2, <2>3, <2>4, <2>5 DEF FreshInv, Same, Unseen
  <2>6. \A t, u \in Tabs, s, r \in Slots :
          call'[t][s].reply \in Pairs /\ call'[t][s].reply = call'[u][r].reply => t = u /\ s = r
    BY <2>1, <2>5 DEF FreshInv
  <2>7. \A t, u \in Tabs, s \in Slots :
          call'[t][s].reply \in Pairs => call'[t][s].reply # auth'[u].pair
    BY <1>0, <2>1, <2>3, <2>5 DEF FreshInv
  <2>8. \A t \in Tabs : auth'[t].pair # None => Unseen(auth'[t].pair, rows', stored', posts')
    BY <2>1, <2>2 DEF FreshInv
  <2> QED
    BY <2>5, <2>6, <2>7, <2>8 DEF FreshInv
<1>6. ASSUME NEW t \in Tabs, NEW s \in Slots, Taking(t, s) PROVE FreshInv'
  <2>1. /\ stored # None /\ call[t][s].reply \in Pairs /\ stored' = call[t][s].reply
        /\ UNCHANGED <<rows, posts, auth>>
        /\ \A u \in Tabs, r \in Slots : Same(u, r) \/ call'[u][r].reply \notin Pairs
        /\ call'[t][s].reply \notin Pairs
    BY <1>0, <1>6, TakingDoes DEF server, Quits, Off
  <2>2. \A u \in Tabs, r \in Slots : call'[u][r].reply \in Pairs =>
          call'[u][r].reply = call[u][r].reply /\ call[u][r].reply # stored'
    BY <2>1 DEF FreshInv, Same
  <2>3. \A u \in Tabs : auth'[u].pair # None =>
          auth'[u].pair = auth[u].pair /\ auth[u].pair # stored'
    BY <2>1 DEF FreshInv
  <2>4. \A i \in Pairs : Unseen(i, rows, stored, posts) /\ i # stored' =>
          i \in rows' /\ i # stored' /\ \A q \in posts' : q.pair # i
    BY <2>1 DEF Unseen
  <2> QED
    BY <1>0, <2>2, <2>3, <2>4, FreshTaken
<1>7. ASSUME NEW t \in Tabs, Entering(t) PROVE FreshInv'
  <2>1. /\ issued' = issued + 1 /\ rows' = rows \cup {issued'} /\ AllSame
        /\ UNCHANGED <<stored, posts>> /\ auth'[t].pair = issued'
        /\ \A u \in Tabs : u # t => auth'[u].pair = auth[u].pair
    BY <1>7, EnteringDoes DEF Entering
  <2>2. \A i : Unseen(i, rows, stored, posts) => Unseen(i, rows', stored', posts')
    BY <2>1 DEF Unseen
  <2>3. issued' \notin 1 .. issued /\ issued' # None
    BY <1>0, <2>1 DEF None
  <2>4. issued' \in rows' /\ issued' # stored' /\ \A q \in posts' : q.pair # issued'
    BY <1>0, <2>1, <2>3
  <2>5. \A u \in Tabs : auth'[u].pair # None => Unseen(auth'[u].pair, rows', stored', posts')
    BY <2>1, <2>2, <2>4 DEF FreshInv, Unseen
  <2>6. \A u \in Tabs, r \in Slots : call'[u][r].reply = call[u][r].reply
    BY <2>1 DEF AllSame, Same
  <2>7. \A u, v \in Tabs, r \in Slots :
          call'[u][r].reply \in Pairs => call'[u][r].reply # auth'[v].pair
    BY <1>0, <2>1, <2>3, <2>6 DEF FreshInv
  <2> QED
    BY <2>2, <2>5, <2>6, <2>7 DEF FreshInv
<1>8. ASSUME NEW t \in Tabs, Entered(t) PROVE FreshInv'
  <2>1. /\ AllSame /\ auth[t].pair # None /\ stored' = auth[t].pair
        /\ auth'[t].pair = None /\ \A u \in Tabs : u # t => auth'[u].pair = auth[u].pair
        /\ UNCHANGED <<rows, posts>>
    BY <1>8, EnteredDoes DEF Entered, server
  <2>2. \A u \in Tabs, r \in Slots : call'[u][r].reply \in Pairs =>
          call'[u][r].reply = call[u][r].reply /\ call[u][r].reply # stored'
    BY <2>1 DEF AllSame, Same, FreshInv
  <2>3. \A u \in Tabs : auth'[u].pair # None =>
          auth'[u].pair = auth[u].pair /\ auth[u].pair # stored'
    BY <2>1 DEF AuthInv
  <2>4. \A i \in Pairs : Unseen(i, rows, stored, posts) /\ i # stored' =>
          i \in rows' /\ i # stored' /\ \A q \in posts' : q.pair # i
    BY <2>1 DEF Unseen
  <2> QED
    BY <1>0, <2>2, <2>3, <2>4, FreshTaken
<1>9. ASSUME NEW t \in Tabs, Logout(t) PROVE FreshInv'
  <2>1. /\ AllSame /\ stored' = None /\ rows \ {stored} \subseteq rows' /\ posts' = posts
        /\ \A u \in Tabs : auth'[u].pair = auth[u].pair
    BY <1>9, LogoutDoes
  <2>2. \A u \in Tabs, r \in Slots : call'[u][r].reply \in Pairs =>
          call'[u][r].reply = call[u][r].reply
    BY <1>0, <2>1 DEF AllSame, Same
  <2>3. \A i \in Pairs : Unseen(i, rows, stored, posts) =>
          i \in rows' /\ i # stored' /\ \A q \in posts' : q.pair # i
    BY <1>0, <2>1 DEF Unseen
  <2>4. \A u \in Tabs : auth'[u].pair # None => auth'[u].pair = auth[u].pair
    BY <2>1
  <2> QED
    BY <1>0, <2>2, <2>3, <2>4, FreshKept
<1> QED
  BY <1>1, <1>2, <1>3, <1>4, <1>5, <1>6, <1>7, <1>8, <1>9, SessionMoves

--------------------------------------------------------------------------------
(***************************************************************************)
(* While there is no fault, the stored pair is live or about to be         *)
(* replaced.                                                               *)
(***************************************************************************)
LEMMA UsableStep ==
  ASSUME TypeInv, PostInv, AuthInv, FreshInv, UsableInv, [SessionNext]_sessionVars
  PROVE  UsableInv'
<1>0. /\ None \notin Pairs /\ None \notin 1 .. issued /\ misses \in Nat
      /\ \A p \in posts : p \in Posts /\ p.pair \in 1 .. issued
  BY Known, PairsAre DEF TypeInv, ServerTyped, PostsTyped
<1>1. CASE Stays
  <2>1. /\ misses' = 0 => misses = 0 /\ lapsed' = lapsed /\ misses' # misses + 1
        /\ rows' = rows /\ stored' \in {stored, None}
    BY <1>0, <1>1 DEF Stays, Rests, server
  <2>2. CASE stored' = None
    <3>1. \A q \in posts' : \E p \in posts : q.pair = p.pair
      BY <1>0, <1>1 DEF Stays, Rests, Posts
    <3> QED
      BY <1>0, <2>1, <2>2, <3>1 DEF UsableInv, StoredIsUsable
  <2>3. CASE stored' = stored /\ posts' \subseteq posts /\ \A t \in Tabs, s \in Slots : ~Dropped(t, s)
    BY <2>1, <2>3 DEF UsableInv, StoredIsUsable, Dropped, Same
  <2>4. CASE misses' = misses + 1
    BY <2>1, <2>4 DEF UsableInv, StoredIsUsable
  <2> QED
    BY <1>1, <2>1, <2>2, <2>3, <2>4 DEF Stays, Rests
<1>2. ASSUME NEW p \in posts, Finding(p) PROVE UsableInv'
  <2>1. /\ AllSame /\ UNCHANGED <<rows, stored, lapsed, misses>>
        /\ \A q \in posts' : \E o \in posts : q.pair = o.pair /\ q.to = o.to
    BY <1>2, FindingDoes DEF Finding, server, clock, history
  <2> QED
    BY <2>1 DEF UsableInv, StoredIsUsable, AllSame, Same
<1>3. ASSUME NEW t \in Tabs, NEW s \in Slots, Posting(t, s) PROVE UsableInv'
  <2>1. /\ UNCHANGED <<stored, lapsed, misses>>
        /\ call'[t][s].pc = "posted" /\ call'[t][s].pair = stored
        /\ \A q \in posts' : q \in posts \/ q.to # <<>>
    BY <1>3, PostingDoes, NoPlace DEF Posting, clock, history
  <2> QED
    BY <2>1 DEF UsableInv, StoredIsUsable
<1>4. ASSUME NEW p \in posts, Refusing(p) PROVE UsableInv'
  <2>1. /\ posts' \subseteq posts /\ UNCHANGED <<stored, lapsed, misses>>
        /\ \A t \in Tabs, s \in Slots :
             call'[t][s].pc = call[t][s].pc /\ call'[t][s].pair = call[t][s].pair
        /\ rows' = rows \/ (rows' = rows \ {p.pair} /\ p.pair \notin rows \ Lapsed)
    BY <1>4, RefusingDoes DEF Refusing, RefuseRefresh, clock, history
  <2>2. lapsed = 0 => Lapsed = {}
    BY DEF Lapsed
  <2>3. misses = 0 => rows' = rows
    BY <2>1, <2>2 DEF UsableInv
  <2> QED
    BY <2>1, <2>3 DEF UsableInv, StoredIsUsable
<1>5. ASSUME NEW p \in posts, Rotating(p) PROVE UsableInv'
  <2>1. /\ posts' \subseteq posts /\ UNCHANGED <<stored, lapsed, misses>>
        /\ \A t \in Tabs, s \in Slots :
             call'[t][s].pc = call[t][s].pc /\ call'[t][s].pair = call[t][s].pair
        /\ rows \ {p.pair} \subseteq rows'
    BY <1>5, RotatingDoes DEF Rotating, clock, history
  <2>2. ASSUME misses = 0, stored = p.pair
        PROVE  \E t \in Tabs, s \in Slots : call[t][s].pc = "posted" /\ call[t][s].pair = stored
    <3>1. p.to \in Places
      BY <1>0, <2>2 DEF UsableInv, Posts
    <3>2. PICK t \in Tabs, s \in Slots : p.to = <<t, s>>
      BY <3>1 DEF Places
    <3> QED
      BY <2>2, <3>2 DEF PostInv
  <2> QED
    BY <2>1, <2>2 DEF UsableInv, StoredIsUsable
<1>6. ASSUME NEW t \in Tabs, NEW s \in Slots, Taking(t, s) PROVE UsableInv'
  <2>1. /\ call[t][s].reply \in Pairs /\ stored' = call[t][s].reply
        /\ UNCHANGED <<rows, posts, lapsed, misses>>
    BY <1>6, TakingDoes DEF server, clock, history
  <2>2. stored' \in rows /\ \A p \in posts : p.pair # stored'
    BY <2>1 DEF FreshInv, Unseen
  <2> QED
    BY <2>1, <2>2 DEF UsableInv, StoredIsUsable
<1>7. ASSUME NEW t \in Tabs, Entering(t) PROVE UsableInv'
  <2>1. /\ AllSame /\ rows \subseteq rows'
        /\ UNCHANGED <<stored, posts, lapsed, misses>>
    BY <1>7, EnteringDoes DEF Entering, clock, history
  <2> QED
    BY <2>1 DEF UsableInv, StoredIsUsable, AllSame, Same
<1>8. ASSUME NEW t \in Tabs, Entered(t) PROVE UsableInv'
  <2>1. /\ auth[t].pair # None /\ stored' = auth[t].pair
        /\ UNCHANGED <<rows, posts, lapsed, misses>>
    BY <1>8, EnteredDoes DEF Entered, server, clock, history
  <2>2. stored' \in rows /\ \A p \in posts : p.pair # stored'
    BY <2>1 DEF FreshInv, Unseen
  <2> QED
    BY <2>1, <2>2 DEF UsableInv, StoredIsUsable
<1>9. ASSUME NEW t \in Tabs, Logout(t) PROVE UsableInv'
  <2>1. stored' = None /\ UNCHANGED <<lapsed, posts, misses>>
    BY <1>9, LogoutDoes
  <2> QED
    BY <1>0, <2>1 DEF UsableInv, StoredIsUsable
<1> QED
  BY <1>1, <1>2, <1>3, <1>4, <1>5, <1>6, <1>7, <1>8, <1>9, SessionMoves

--------------------------------------------------------------------------------
(***************************************************************************)
(* The invariant, and what it shows.                                       *)
(***************************************************************************)
LEMMA SessionBegins == SessionInit => SessionInv
<1> SUFFICES ASSUME SessionInit PROVE SessionInv
  OBVIOUS
<1> USE DEF SessionInit
<1>1. ServerTyped
  BY SessionConstants DEF ServerTyped, Pairs, None
<1>2. PostsTyped
  BY DEF PostsTyped
<1>3. \A t \in Tabs, s \in Slots : call[t][s] = Idle
  OBVIOUS
<1>4. CallsTyped
  <2>1. Idle \in Calls /\ Sound(Idle, issued)
    BY IdleTyped
  <2> QED
    BY <1>3, <2>1 DEF CallsTyped
<1>5. \A t \in Tabs : auth[t] = NoAuth
  OBVIOUS
<1>6. TabTyped
  <2>1. auth \in [Tabs -> Auths]
    BY IdleTyped
  <2> QED
    BY <1>5, <2>1, IdleTyped, SessionConstants DEF TabTyped, None
<1>7. \A t \in Tabs, s \in Slots : call[t][s].pc = "idle" /\ call[t][s].reply \notin Pairs
  BY <1>3, IdleTyped, PairsAre
<1>8. \A t \in Tabs : auth[t].pair = None
  BY <1>5, IdleTyped
<1>9. OneLivePerSignIn /\ RotatesOnce
  BY <1>7 DEF OneLivePerSignIn, RotatesOnce
<1>10. PostInv /\ AuthInv /\ FreshInv /\ UsableInv
  BY <1>7, <1>8 DEF PostInv, AuthInv, FreshInv, UsableInv, LoggedOutStaysOut, StoredIsUsable
<1> QED
  BY <1>1, <1>2, <1>4, <1>6, <1>9, <1>10 DEF SessionInv, TypeInv

LEMMA SessionStep == SessionInv /\ [SessionNext]_sessionVars => SessionInv'
  BY TypeStep, OneLiveStep, RotatesOnceStep, PostStep, AuthStep, FreshStep, UsableStep DEF SessionInv

LEMMA SessionInvariant == SessionSpec => []SessionInv
  BY SessionBegins, SessionStep, PTL DEF SessionSpec

(* Every variable keeps its type: refresh rows and stored pairs were       *)
(* issued, and only a call that rotates a pair is answered with one.       *)
THEOREM SessionTypeCorrect == SessionSpec => []TypeInv
<1>1. SessionInv => TypeInv
  BY DEF SessionInv
<1> QED
  BY <1>1, SessionInvariant, PTL

(* However many requests present one refresh token, a sign-in has at most  *)
(* one live refresh row: the rotation deletes the row it read, if it is    *)
(* still there, in the transaction that inserts the next.                  *)
THEOREM OneLiveRow == SessionSpec => []OneLivePerSignIn
<1>1. SessionInv => OneLivePerSignIn
  BY DEF SessionInv
<1> QED
  BY <1>1, SessionInvariant, PTL

(* The requests of a tab that fail together rotate their pair once.        *)
THEOREM TabRotatesOnce == SessionSpec => []RotatesOnce
<1>1. SessionInv => RotatesOnce
  BY DEF SessionInv
<1> QED
  BY <1>1, SessionInvariant, PTL

(* No answer still under way puts a pair of an ended sign-in back into the *)
(* storage: a rotation's answer is stored over the pair it was asked for,  *)
(* which is of the same sign-in.                                           *)
THEOREM LogoutIsFinal == SessionSpec => []LoggedOutStaysOut
<1>1. SessionInv => LoggedOutStaysOut
  BY DEF SessionInv, AuthInv
<1> QED
  BY <1>1, SessionInvariant, PTL

(* Unless a tab missed an answer or a refresh token expired, the stored    *)
(* pair's row is live, or its replacement is on its way to a waiting call. *)
THEOREM StoredStaysUsable == SessionSpec => []StoredIsUsable
<1>1. SessionInv => StoredIsUsable
  BY DEF SessionInv, UsableInv
<1> QED
  BY <1>1, SessionInvariant, PTL

--------------------------------------------------------------------------------
(***************************************************************************)
(* Who removes the stored pair.                                            *)
(***************************************************************************)
ByItsCall == \E t \in Tabs, s \in Slots : Carried(t, s)
ByFetchMe == \E t \in Tabs : call[t]["me"].fresh /\ call'[t]["me"].pc = "idle"

LEMMA RejectRemoves ==
  ASSUME TypeInv, Removed, NEW t \in Tabs, NEW W \in SUBSET Slots, NEW refused,
         Reject(t, W, refused), issued' = issued
  PROVE  ByFetchMe
<1>1. stored' # stored
  BY DEF Removed
<1> QED
  BY <1>1, RejectDoes DEF ByFetchMe

LEMMA InvalidateRemoves ==
  ASSUME TypeInv, NEW t \in Tabs, NEW s \in Slots, Invalidate(t), Fits(t, s),
         call[t][s].pc # "idle", issued' = issued
  PROVE  ByItsCall
<1>1. call'[t][s].pc = "idle"
  BY ReloadedDoes DEF Invalidate
<1> QED
  BY <1>1 DEF ByItsCall, Carried, Fits

LEMMA RemovalStep ==
  ASSUME TypeInv, AuthInv, SessionNext, Removed
  PROVE  ByItsCall \/ ByFetchMe
<1>0. stored' # stored /\ stored' = None /\ None \notin Pairs
  BY PairsAre DEF Removed
<1>1. ASSUME NEW p \in posts, FindToken(p) \/ RotateToken(p) PROVE FALSE
  BY <1>0, <1>1 DEF FindToken, RotateToken, RefuseRefresh
<1>2. CASE AccessExpires \/ RefreshExpires
  BY <1>0, <1>2 DEF AccessExpires, RefreshExpires
<1>3. ASSUME NEW t \in Tabs, Reload(t) \/ SignIn(t) PROVE FALSE
  BY <1>0, <1>3 DEF Reload, SignIn
<1>4. ASSUME NEW t \in Tabs, SignedIn(t) PROVE FALSE
  BY <1>0, <1>4 DEF SignedIn, Store, TypeInv, TabTyped
<1>5. ASSUME NEW t \in Tabs, Logout(t) PROVE FALSE
  BY <1>5 DEF Logout, Removed, AuthInv, LoggedOutStaysOut
<1>6. ASSUME NEW t \in Tabs, NEW s \in Slots, Send(t, s) \/ Served(t, s) PROVE FALSE
  BY <1>0, <1>6 DEF Send, Served
<1>7. ASSUME NEW t \in Tabs, NEW s \in Slots,
             Unauthorized(t, s) \/ RefreshLost(t, s) \/ RequestLost(t, s)
      PROVE  ByFetchMe
  <2>1. issued' = issued
    BY <1>7 DEF Unauthorized, RefreshLost, RequestLost, server
  <2>2. Reject(t, {s}, FALSE) \/ Reject(t, Waiting(t, s), FALSE)
    BY <1>0, <1>7 DEF Unauthorized, RefreshLost, RequestLost
  <2>3. {s} \in SUBSET Slots /\ Waiting(t, s) \in SUBSET Slots
    BY DEF Waiting
  <2> QED
    BY <2>1, <2>2, <2>3, RejectRemoves
<1>8. ASSUME NEW t \in Tabs, NEW s \in Slots,
             RefreshAnswered(t, s) \/ RefreshRefused(t, s) \/ RefusedAgain(t, s)
      PROVE  ByItsCall \/ ByFetchMe
  <2>1. issued' = issued
    BY <1>8 DEF RefreshAnswered, RefreshRefused, RefusedAgain, server
  <2>2. \/ \E refused \in BOOLEAN : \/ Reject(t, {s}, refused)
                                   \/ Reject(t, Waiting(t, s), refused)
        \/ Invalidate(t) /\ Fits(t, s) /\ call[t][s].pc # "idle"
    BY <1>0, <1>8 DEF RefreshAnswered, RefreshRefused, RefusedAgain, Store
  <2>3. {s} \in SUBSET Slots /\ Waiting(t, s) \in SUBSET Slots
    BY DEF Waiting
  <2> QED
    BY <2>1, <2>2, <2>3, RejectRemoves, InvalidateRemoves
<1> QED
  BY <1>1, <1>2, <1>3, <1>4, <1>5, <1>6, <1>7, <1>8 DEF SessionNext, Server, Browser

(* The stored pair goes by a logout, by the failure of a call that carried *)
(* it, or by a failed fetchMe of a tab whose principal is still the same:  *)
(* no other late failure ends the session of a newer principal.            *)
THEOREM RemovalIsExplained == SessionSpec => OnlyFetchMeOversteps
<1>1. SessionInv /\ [SessionNext]_sessionVars =>
        [Removed =>
           \/ \E t \in Tabs, s \in Slots : Carried(t, s)
           \/ \E t \in Tabs : call[t]["me"].fresh /\ call'[t]["me"].pc = "idle"]_sessionVars
  BY RemovalStep DEF SessionInv, ByItsCall, ByFetchMe
<1> QED
  BY <1>1, SessionInvariant, PTL DEF SessionSpec, OnlyFetchMeOversteps
================================================================================
