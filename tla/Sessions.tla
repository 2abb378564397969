------------------------------- MODULE Sessions -------------------------------
(***************************************************************************)
(* Sessions of a browser: the pair of tokens its tabs share in             *)
(* localStorage, the refresh tokens user-service keeps, and the rotation   *)
(* that replaces one by the other.                                         *)
(*                                                                         *)
(* A refresh token is a row; rotating it deletes the row and inserts its   *)
(* replacement in one transaction.  In a tab every protected request bears *)
(* the access token of the pair stored when it left; the first request     *)
(* that is refused rotates the pair, requests refused meanwhile join that  *)
(* rotation, and each is sent once more.  Tabs share nothing but           *)
(* localStorage, so two of them may rotate the same pair.                  *)
(*                                                                         *)
(* The access and the refresh token of a pair are issued, stored and       *)
(* removed together: a pair is the number of its refresh row.              *)
(***************************************************************************)
EXTENDS Naturals, FiniteSets

CONSTANTS
    Tabs,           \* the tabs of the browser
    Makes,          \* tab -> the kinds of protected request it makes
    MaxPairs,       \* bound: pairs ever issued
    MaxSignIns,     \* bound: those of them that begin a sign-in
    MaxMisses       \* bound: rotations whose tab misses their answer, expired refresh tokens

(* A tab's two kinds of protected request: fetchMe, whose failure signs    *)
(* the tab out, and any other request of its pages.                        *)
Slots == {"me", "api"}

ASSUME SessionConstants ==
    /\ Makes \in [Tabs -> SUBSET Slots]
    /\ MaxPairs \in Nat
    /\ MaxSignIns \in Nat
    /\ MaxMisses \in Nat

Pairs == 1 .. MaxPairs
None == 0

VARIABLES
    rows,       \* refresh_tokens: the live rows
    issued,     \* how many pairs were issued
    login,      \* history: pair -> the pair its sign-in issued first
    aged,       \* how many of the first pairs have an expired access token
    lapsed,     \* how many of them have an expired refresh token as well
    posts,      \* POST /auth/refresh at the server: pair, step, who waits
    stored,     \* localStorage: the pair, None when there is none
    shown,      \* the tabs that show a signed-in account
    last,       \* tab -> lastRefresh: the pair this tab rotated into the stored one
    call,       \* tab -> slot -> the request under way
    auth,       \* tab -> the sign-in under way
    ended,      \* history: the sign-ins this browser logged out of
    misses      \* bound

server == <<rows, issued, login>>
clock == <<aged, lapsed>>
tab == <<shown, last, call, auth>>
history == <<ended, misses>>
sessionVars == <<server, clock, posts, stored, tab, history>>

Idle == [pc |-> "idle", pair |-> None, again |-> FALSE, fresh |-> FALSE, reply |-> None]
NoAuth == [pair |-> None, fresh |-> FALSE]
Refused == MaxPairs + 1

SessionInit ==
    /\ rows = {} /\ issued = 0
    /\ login = [i \in Pairs |-> None]
    /\ aged = 0 /\ lapsed = 0
    /\ posts = {}
    /\ stored = None
    /\ shown = {}
    /\ last = [t \in Tabs |-> None]
    /\ call = [t \in Tabs |-> [s \in Slots |-> Idle]]
    /\ auth = [t \in Tabs |-> NoAuth]
    /\ ended = {} /\ misses = 0

(* Tokens of a kind live equally long, so they expire as they were issued. *)
Lapsed == 1 .. lapsed

Miss == misses < MaxMisses /\ misses' = misses + 1

--------------------------------------------------------------------------------
(* user-service *)

(* issue_tokens and the insert of the refresh row, for a sign-in (l is the *)
(* new pair itself) or for a rotation (l is the sign-in rotated on)        *)
Issue(l, gone) ==
    /\ issued < MaxPairs
    /\ issued' = issued + 1
    /\ rows' = (rows \ gone) \cup {issued + 1}
    /\ login' = [login EXCEPT ![issued + 1] = l]

(* The answer reaches the request that waits for it, if one still does.    *)
Answer(p, reply) ==
    /\ posts' = posts \ {p}
    /\ call' = [t \in Tabs |-> [s \in Slots |->
                   IF p.to = <<t, s>> THEN [call[t][s] EXCEPT !.reply = reply]
                   ELSE call[t][s]]]

RefuseRefresh(p) ==
    /\ Answer(p, Refused)
    /\ UNCHANGED <<issued, login, clock, stored, shown, last, auth, history>>

(* refresh, up to the rotation: an unknown row is refused, an expired one  *)
(* is deleted as well                                                      *)
FindToken(p) ==
    /\ p \in posts /\ p.at = "sent"
    /\ \/ /\ p.pair \in rows \ Lapsed
          /\ posts' = (posts \ {p}) \cup {[p EXCEPT !.at = "found"]}
          /\ UNCHANGED <<server, clock, stored, tab, history>>
       \/ /\ p.pair \notin rows \ Lapsed
          /\ rows' = rows \ {p.pair}
          /\ RefuseRefresh(p)

(* rotate_refresh_token: the delete must hit the row, then the replacement *)
(* is inserted, in one transaction                                         *)
ConsumesUnseen(p) == TRUE
Consumes(p) == p.pair \in rows \ Lapsed

RotateToken(p) ==
    /\ p \in posts /\ p.at = "found"
    /\ \/ /\ Consumes(p)
          /\ Issue(login[p.pair], {p.pair})
          /\ Answer(p, issued + 1)
          /\ UNCHANGED <<clock, stored, shown, last, auth, history>>
       \/ /\ ~Consumes(p)
          /\ rows' = rows
          /\ RefuseRefresh(p)

(* An access token outlives the answer that brings it (30 s): it expires   *)
(* in the storage, or after it.                                            *)
AccessExpires ==
    /\ aged < stored
    /\ aged' = aged + 1
    /\ UNCHANGED <<server, lapsed, posts, stored, tab, history>>

RefreshExpires ==
    /\ Miss /\ lapsed < aged
    /\ lapsed' = lapsed + 1
    /\ UNCHANGED <<server, aged, posts, stored, tab, ended>>

--------------------------------------------------------------------------------
(* The tab: what its event handlers do *)

(* A lastRefresh applies while the pair it stored is the stored one: any   *)
(* other pair, stored by any tab, supersedes it for good.                  *)
NoRefresh == [t \in Tabs |-> None]
Store(i, remembered) == stored' = i /\ last' = remembered

(* The calls W wait for the answers of their posts no longer. *)
Detached(W) == {IF p.to \in W THEN [p EXCEPT !.to = <<>>] ELSE p : p \in posts}

(* ++principalRevision: what began under an older revision will be ignored *)
Outdated(cs) == [s \in Slots |-> [cs[s] EXCEPT !.fresh = FALSE]]

(* The page loads again: its promises are gone, its requests are not. *)
Reloaded(t) ==
    /\ shown' = shown \ {t}
    /\ call' = [call EXCEPT ![t] = [s \in Slots |-> Idle]]
    /\ auth' = [auth EXCEPT ![t] = NoAuth]
    /\ posts' = Detached({t} \X Slots)

Reload(t) ==
    /\ \/ \E s \in Slots : call[t][s].pc = "posted" /\ Miss
       \/ (\A s \in Slots : call[t][s].pc # "posted") /\ UNCHANGED misses
    /\ Reloaded(t)
    /\ last' = [last EXCEPT ![t] = None]
    /\ UNCHANGED <<server, clock, stored, ended>>

(* The request interceptor: the bearer of a request is the stored pair.    *)
(* A tab that shows no account makes fetchMe; of the other requests, only  *)
(* those that will be refused are modelled, the served ones change nothing *)
(* here.                                                                   *)
Send(t, s) ==
    /\ s \in Makes[t]
    /\ call[t][s].pc = "idle" /\ stored # None
    /\ IF s = "me" THEN t \notin shown ELSE stored <= aged
    /\ call' = [call EXCEPT ![t][s] =
                   [Idle EXCEPT !.pc = "sent", !.pair = stored, !.fresh = (s = "me")]]
    /\ UNCHANGED <<server, clock, posts, stored, shown, last, auth, history>>

(* A request is served: fetchMe shows the token's account, unless the tab's *)
(* principal changed while it waited.                                      *)
Served(t, s) ==
    LET c == call[t][s] IN
    /\ c.pc = "sent" /\ c.pair > aged
    /\ call' = [call EXCEPT ![t][s] = Idle]
    /\ \/ /\ s = "me" /\ c.fresh
          /\ shown' = shown \cup {t}
       \/ /\ s = "api" \/ ~c.fresh
          /\ shown' = shown
    /\ UNCHANGED <<server, clock, posts, stored, last, auth, history>>

(* The calls of tab t that one rotation answers: its own and those joined. *)
Waiting(t, s) ==
    {s} \cup {r \in Slots : call[t][r].pc = "joined" /\ call[t][r].pair = call[t][s].pair}

(* The calls W of tab t end without an answer.  A current fetchMe signs    *)
(* the tab out if it was refused, or if the pair is gone from the storage. *)
Reject(t, W, refused) ==
    LET done == [s \in Slots |-> IF s \in W THEN Idle ELSE call[t][s]]
        out  == /\ "me" \in W /\ call[t]["me"].fresh
                /\ refused \/ stored = None
    IN \/ /\ out
          /\ Store(None, NoRefresh)
          /\ shown' = shown \ {t}
          /\ auth' = [auth EXCEPT ![t].fresh = FALSE]
          /\ call' = [call EXCEPT ![t] = Outdated(done)]
       \/ /\ ~out
          /\ call' = [call EXCEPT ![t] = done]
          /\ UNCHANGED <<stored, last, shown, auth>>

(* A refused request whose pair is still the stored one: the session is    *)
(* cleared and the page leaves for /login.                                 *)
Invalidate(t) ==
    /\ Store(None, NoRefresh)
    /\ Reloaded(t)

(* refreshFlight: this tab is rotating the stored pair *)
NoFlight(t) == FALSE
InFlight(t) == \E r \in Slots : call[t][r].pc = "posted" /\ call[t][r].pair = stored

(* A 401: refreshSessionForAccessToken, up to its first await *)
Unauthorized(t, s) ==
    LET c == call[t][s]
        Retried == last[t] = c.pair
    IN /\ c.pc = "sent" /\ c.pair <= aged /\ ~c.again
       /\ \/ /\ Retried
             /\ call' = [call EXCEPT ![t][s].pair = stored, ![t][s].again = TRUE]
             /\ UNCHANGED <<posts, stored, last, shown, auth>>
          \/ /\ ~Retried /\ stored # c.pair
             /\ Reject(t, {s}, FALSE)
             /\ UNCHANGED posts
          \/ /\ ~Retried /\ stored = c.pair /\ InFlight(t)
             /\ call' = [call EXCEPT ![t][s].pc = "joined"]
             /\ UNCHANGED <<posts, stored, last, shown, auth>>
          \/ /\ ~Retried /\ stored = c.pair /\ ~InFlight(t)
             /\ call' = [call EXCEPT ![t][s].pc = "posted"]
             /\ posts' = posts \cup {[pair |-> stored, at |-> "sent", to |-> <<t, s>>]}
             /\ UNCHANGED <<stored, last, shown, auth>>
       /\ UNCHANGED <<server, clock, history>>

(* The stored pair is still the one the failing call carried. *)
FitsAlways(t, s) == TRUE
FitsNever(t, s) == FALSE
Fits(t, s) == stored = call[t][s].pair

RefreshAnswered(t, s) ==
    LET c == call[t][s] IN
    /\ c.pc = "posted" /\ c.reply \in Pairs
    /\ \/ /\ Fits(t, s)
          /\ Store(c.reply, [NoRefresh EXCEPT ![t] = c.pair])
          /\ call' = [call EXCEPT ![t] = [r \in Slots |->
                         IF r \in Waiting(t, s)
                         THEN [call[t][r] EXCEPT !.pc = "sent", !.pair = c.reply,
                                                 !.again = TRUE, !.reply = None]
                         ELSE call[t][r]]]
          /\ UNCHANGED <<shown, auth>>
       \/ /\ ~Fits(t, s)
          /\ Reject(t, Waiting(t, s), FALSE)
    /\ UNCHANGED <<server, clock, posts, history>>

RefreshRefused(t, s) ==
    /\ call[t][s].pc = "posted" /\ call[t][s].reply = Refused
    /\ \/ Fits(t, s) /\ Invalidate(t)
       \/ /\ ~Fits(t, s)
          /\ Reject(t, Waiting(t, s), TRUE)
          /\ UNCHANGED posts
    /\ UNCHANGED <<server, clock, history>>

(* No answer: the request or its answer is lost, or the tab stops waiting  *)
(* after 30 s while the server goes on.                                    *)
RefreshLost(t, s) ==
    /\ Miss
    /\ call[t][s].pc = "posted"
    /\ Reject(t, Waiting(t, s), FALSE)
    /\ posts' \in {Detached({<<t, s>>}),
                   posts \ {p \in posts : p.to = <<t, s>>}}
    /\ UNCHANGED <<server, clock, ended>>

(* The request sent once more is refused too. *)
RefusedAgain(t, s) ==
    LET c == call[t][s] IN
    /\ c.pc = "sent" /\ c.again /\ c.pair <= aged
    /\ \/ Fits(t, s) /\ Invalidate(t)
       \/ /\ ~Fits(t, s)
          /\ Reject(t, {s}, TRUE)
          /\ UNCHANGED posts
    /\ UNCHANGED <<server, clock, history>>

RequestLost(t, s) ==
    /\ call[t][s].pc = "sent"
    /\ Reject(t, {s}, FALSE)
    /\ UNCHANGED <<server, clock, posts, history>>

(* The pairs that were issued for a sign-in, counted for the bound         *)
SignIns == {i \in Pairs : i <= issued /\ login[i] = i}

(* register or login, up to its answer: user-service saves the refresh row *)
(* of the account's new pair, or fails.  The sign-in page opens whoever is *)
(* signed in; its button is dead while a sign-in of the tab is under way   *)
(* (loading), but lives again after a logout, which outdates that sign-in. *)
SignIn(t) ==
    /\ ~auth[t].fresh
    /\ call' = [call EXCEPT ![t] = Outdated(call[t])]
    /\ \/ /\ Cardinality(SignIns) < MaxSignIns
          /\ Issue(issued + 1, {})
          /\ auth' = [auth EXCEPT ![t] = [pair |-> issued + 1, fresh |-> TRUE]]
       \/ UNCHANGED <<server, auth>>
    /\ UNCHANGED <<clock, posts, stored, shown, last, history>>

(* Its pair is stored over whatever is there, and the fetchMe of a tab     *)
(* that showed no account when it began is ignored from now on.  An answer *)
(* that is outdated is ignored, one that is lost comes as an error.        *)
SignedIn(t) ==
    LET a == auth[t] IN
    /\ a # NoAuth
    /\ auth' = [auth EXCEPT ![t] = NoAuth]
    /\ \/ /\ a.fresh
          /\ Store(a.pair, NoRefresh)
          /\ shown' = shown \cup {t}
          /\ call' = [call EXCEPT ![t] = Outdated(call[t])]
       \/ UNCHANGED <<stored, last, shown, call>>
    /\ UNCHANGED <<server, clock, posts, history>>

(* logout: the tab forgets the pair at once and posts its revocation,      *)
(* whose failure it ignores; user-service deletes the row if it is there   *)
Logout(t) ==
    /\ t \in shown
    /\ \/ /\ stored # None
          /\ ended' = ended \cup {login[stored]}
          /\ rows' \in {rows, rows \ {stored}}
       \/ /\ stored = None
          /\ UNCHANGED <<ended, rows>>
    /\ Store(None, NoRefresh)
    /\ shown' = shown \ {t}
    /\ auth' = [auth EXCEPT ![t].fresh = FALSE]
    /\ call' = [call EXCEPT ![t] = Outdated(call[t])]
    /\ UNCHANGED <<issued, login, clock, posts, misses>>

--------------------------------------------------------------------------------
Server ==
    \/ \E p \in posts : FindToken(p) \/ RotateToken(p)
    \/ AccessExpires \/ RefreshExpires

Browser ==
    \E t \in Tabs :
        \/ \E s \in Slots : \/ Send(t, s) \/ Served(t, s) \/ Unauthorized(t, s)
                            \/ RefreshAnswered(t, s) \/ RefreshRefused(t, s)
                            \/ RefreshLost(t, s) \/ RefusedAgain(t, s) \/ RequestLost(t, s)
        \/ Reload(t) \/ Logout(t)
        \/ SignIn(t) \/ SignedIn(t)

SessionNext == Server \/ Browser

SessionSpec == SessionInit /\ [][SessionNext]_sessionVars

--------------------------------------------------------------------------------
(* Properties *)

(* However many requests present one refresh token, from several tabs or   *)
(* again after a lost answer, a sign-in never has two live refresh tokens: *)
(* the rotation consumes the token it read only if it is still there.      *)
OneLivePerSignIn == \A i, j \in rows : login[i] = login[j] => i = j

(* A tab rotates one refresh token at most once, even when several of its  *)
(* requests fail together: they join the rotation under way.               *)
RotatesOnce ==
    \A t \in Tabs : \A s, r \in Slots :
        /\ call[t][s].pc = "posted" /\ call[t][r].pc = "posted"
        /\ call[t][s].pair = call[t][r].pair
        => s = r

(* Once a tab logs out, no answer still under way, in that tab or another, *)
(* puts a token of the session it ended back into the storage.             *)
LoggedOutStaysOut == stored # None => login[stored] \notin ended

(* The stored refresh token can still be used: it was consumed only by a   *)
(* rotation whose answer is still awaited, unless it expired, an answer    *)
(* was lost or a page reloaded.                                            *)
StoredIsUsable ==
    stored # None /\ misses = 0 =>
        \/ stored \in rows
        \/ \E t \in Tabs, s \in Slots : call[t][s].pc = "posted" /\ call[t][s].pair = stored

(* A failing call of the tab carried the pair that is stored now.          *)
Carried(t, s) ==
    /\ call[t][s].pc # "idle" /\ call'[t][s].pc = "idle"
    /\ call[t][s].pair = stored

(* The stored pair goes without a logout.                                  *)
Removed == stored # None /\ stored' = None /\ ended' = ended

(* A late failure does not end the session of a newer principal: the       *)
(* stored pair is removed by a logout, by the failure of a call that       *)
(* carried that pair or, as fetchMe clears the storage without comparing   *)
(* pairs, by a refused fetchMe of a tab whose principal is still the same. *)
OnlyFetchMeOversteps ==
    [][Removed =>
          \/ \E t \in Tabs, s \in Slots : Carried(t, s)
          \/ \E t \in Tabs : call[t]["me"].fresh /\ call'[t]["me"].pc = "idle"]_sessionVars
===============================================================================
