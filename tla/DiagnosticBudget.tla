--------------------------- MODULE DiagnosticBudget ---------------------------
(***************************************************************************)
(* The diagnostic budget: one allowance of attempts, tokens and money kept *)
(* by the user service, and the LLM clients of the paying services, which  *)
(* reserve the worst case of every provider attempt before they send it    *)
(* and settle the reported usage afterwards.  Control calls cross the      *)
(* network once: they may be late or lost, and are never repeated.         *)
(***************************************************************************)
EXTENDS Integers, FiniteSets, FiniteSetsExt

CONSTANTS
    AttemptIds,     \* identities a client may draw for an attempt (fresh UUIDs)
    NoAttempt,      \* no attempt yet
    Clients,        \* paying processes; each admits one budgeted call at a time
    Operations,     \* operations of the compiled profile
    Profile,        \* ceilings and prices of each operation
    Limits,         \* registered limits of the budget
    MaxRetries,     \* retries of one logical call (3 in the code)
    Allowances,     \* attempt allowances a request may carry
    JsonOperations  \* operations whose requests may ask for JSON mode

Amounts == [attempts : Nat, tokens : Nat, cost : Nat]

ASSUME Assumptions ==
    /\ IsFiniteSet(AttemptIds)
    /\ NoAttempt \notin AttemptIds
    /\ Operations # {}
    /\ Profile \in [Operations -> [input : Nat, output : Nat, inputPrice : Nat, outputPrice : Nat]]
    /\ Limits \in Amounts
    /\ MaxRetries \in Nat
    /\ Allowances \subseteq Nat
    /\ JsonOperations \subseteq Operations

VARIABLES
    charged,    \* charged totals of the budget
    closed,     \* sealed or past its expiry
    rows,       \* receipts, by attempt
    wire,       \* the control message of each attempt that is under way
    spent,      \* history: what the provider did for each attempt
    returned,   \* history: attempts whose answer was handed to the caller
    pc,         \* where the call of each client is
    call        \* the locals of that call

vars == <<charged, closed, rows, wire, spent, returned, pc, call>>

AnOperation == CHOOSE op \in Operations : TRUE

Nothing == [input |-> 0, output |-> 0]
NoReceipt == [status |-> "absent", op |-> AnOperation, ordinal |-> 0, usage |-> Nothing]
NoMessage == [kind |-> "unused", op |-> AnOperation, usage |-> Nothing]
NotSent == [times |-> 0, usage |-> Nothing]
NoCall == [id |-> NoAttempt, op |-> AnOperation, allowance |-> 0, sent |-> 0, retries |-> 0,
           json |-> FALSE, empty |-> FALSE, usage |-> Nothing]

------------------------------------------------------------------------------
(***************************************************************************)
(* Amounts and the profile's pricing.                                      *)
(***************************************************************************)
Zero == [attempts |-> 0, tokens |-> 0, cost |-> 0]

Plus(a, b) == [attempts |-> a.attempts + b.attempts, tokens |-> a.tokens + b.tokens,
               cost |-> a.cost + b.cost]
Minus(a, b) == [attempts |-> a.attempts - b.attempts, tokens |-> a.tokens - b.tokens,
                cost |-> a.cost - b.cost]
Within(a, limit) ==
    a.attempts <= limit.attempts /\ a.tokens <= limit.tokens /\ a.cost <= limit.cost

Consumption(op, usage) ==
    [attempts |-> 1,
     tokens |-> usage.input + usage.output,
     cost |-> usage.input * Profile[op].inputPrice + usage.output * Profile[op].outputPrice]

\* The worst case: what the operation may read and write at most.
Ceiling(op) == [input |-> Profile[op].input, output |-> Profile[op].output]
Quote(op) == Consumption(op, Ceiling(op))

Usages(op) == [input : 0 .. Profile[op].input, output : 0 .. Profile[op].output]

------------------------------------------------------------------------------
Init ==
    /\ charged = Zero
    /\ closed = FALSE
    /\ rows = [a \in AttemptIds |-> NoReceipt]
    /\ wire = [a \in AttemptIds |-> NoMessage]
    /\ spent = [a \in AttemptIds |-> NotSent]
    /\ returned = {}
    /\ pc = [c \in Clients |-> "idle"]
    /\ call = [c \in Clients |-> NoCall]

Send(a, kind, op, usage) ==
    wire' = [wire EXCEPT ![a] = [kind |-> kind, op |-> op, usage |-> usage]]

Reply(a, kind) == wire' = [wire EXCEPT ![a] = [NoMessage EXCEPT !.kind = kind]]

Leave(c) ==
    /\ pc' = [pc EXCEPT ![c] = "idle"]
    /\ call' = [call EXCEPT ![c] = NoCall]

------------------------------------------------------------------------------
(***************************************************************************)
(* The owner.  Every request is one transaction on the locked budget row.  *)
(***************************************************************************)
\* Fault: the limits are compared before the quote is added.
GrantableEarly(a) ==
    /\ rows[a].status = "absent"
    /\ ~closed
    /\ Within(charged, Limits)

Grantable(a) ==
    /\ rows[a].status = "absent"
    /\ ~closed
    /\ Within(Plus(charged, Quote(wire[a].op)), Limits)

\* The check constraints of the receipt table: no reservation is free.
Storable(quote) == quote.tokens >= 1 /\ quote.cost >= 1

Reserve(a) ==
    /\ wire[a].kind = "reserve"
    /\ LET op == wire[a].op
           total == Plus(charged, Quote(op))
       IN  \/ /\ Grantable(a)
              /\ Storable(Quote(op))
              /\ rows' = [rows EXCEPT ![a] = [status |-> "reserved", op |-> op,
                                              ordinal |-> total.attempts, usage |-> Nothing]]
              /\ charged' = total
              /\ Reply(a, "granted")
           \/ /\ ~Grantable(a) \/ ~Storable(Quote(op))
              /\ Reply(a, "refused")
              /\ UNCHANGED <<rows, charged>>
    /\ UNCHANGED <<closed, spent, returned, pc, call>>

\* Fault: settling gives the attempt back too.
SettledTotalRefunding(op, usage) ==
    Plus(Minus(charged, Quote(op)), [Consumption(op, usage) EXCEPT !.attempts = 0])

SettledTotal(op, usage) == Plus(Minus(charged, Quote(op)), Consumption(op, usage))

Settleable(a) ==
    /\ rows[a].status = "reserved"
    /\ wire[a].usage \in Usages(rows[a].op)
    /\ Within(Quote(rows[a].op), charged)

\* Settling does not ask whether the budget is still open.
Settle(a) ==
    /\ wire[a].kind = "settle"
    /\ IF Settleable(a)
       THEN /\ rows' = [rows EXCEPT ![a] = [@ EXCEPT !.status = "settled", !.usage = wire[a].usage]]
            /\ charged' = SettledTotal(rows[a].op, wire[a].usage)
            /\ Reply(a, "settled")
       ELSE /\ Reply(a, IF rows[a].status = "settled" /\ rows[a].usage = wire[a].usage
                        THEN "settled" ELSE "refused")
            /\ UNCHANGED <<rows, charged>>
    /\ UNCHANGED <<closed, spent, returned, pc, call>>

\* The budget is sealed by the operator, or expires.
Close ==
    /\ ~closed
    /\ closed' = TRUE
    /\ UNCHANGED <<charged, rows, wire, spent, returned, pc, call>>

\* A request or a reply somebody waits for is lost.
Lose(a) ==
    /\ \E c \in Clients : call[c].id = a
    /\ wire[a].kind \in {"reserve", "granted", "refused", "settle", "settled"}
    /\ Reply(a, "lost")
    /\ UNCHANGED <<charged, closed, rows, spent, returned, pc, call>>

------------------------------------------------------------------------------
(***************************************************************************)
(* The client.                                                             *)
(***************************************************************************)
Start(c) ==
    /\ pc[c] = "idle"
    /\ \E op \in Operations, allowance \in Allowances, json \in BOOLEAN :
         /\ json => op \in JsonOperations
         /\ call' = [call EXCEPT ![c] =
                       [NoCall EXCEPT !.op = op, !.allowance = allowance, !.json = json]]
    /\ pc' = [pc EXCEPT ![c] = "attempt"]
    /\ UNCHANGED <<charged, closed, rows, wire, spent, returned>>

\* Fault: the allowance is compared after it has been overdrawn.
AffordableOnceMore(c) == call[c].sent <= call[c].allowance

Affordable(c) == call[c].sent < call[c].allowance

\* Every physical attempt draws a new identity and reserves.
SendReserve(c) ==
    /\ pc[c] = "attempt"
    /\ \/ /\ Affordable(c)
          /\ \E a \in AttemptIds :
               /\ wire[a].kind = "unused"
               /\ Send(a, "reserve", call[c].op, Nothing)
               /\ call' = [call EXCEPT ![c].id = a]
          /\ pc' = [pc EXCEPT ![c] = "reserving"]
       \/ /\ ~Affordable(c)
          /\ Leave(c)
          /\ UNCHANGED wire
    /\ UNCHANGED <<charged, closed, rows, spent, returned>>

\* Fault: no answer is taken for a grant.
AuthorizedAnyway(c) == wire[call[c].id].kind \in {"granted", "lost"}

Authorized(c) == wire[call[c].id].kind = "granted"

GetGrant(c) ==
    /\ pc[c] = "reserving"
    /\ \/ /\ Authorized(c)
          /\ pc' = [pc EXCEPT ![c] = "granted"]
          /\ UNCHANGED call
       \/ /\ wire[call[c].id].kind \in {"refused", "lost"}
          /\ Leave(c)
    /\ UNCHANGED <<charged, closed, rows, wire, spent, returned>>

Answered(c, usage, empty) ==
    [call[c] EXCEPT !.sent = call[c].sent + 1, !.empty = empty, !.usage = usage]
Retrying(c) ==
    [call[c] EXCEPT !.sent = call[c].sent + 1, !.retries = call[c].retries + 1]

\* The attempt is sent, and the provider does some of the work it was asked for,
\* whatever the client gets to see of it.
Dispatch(c) ==
    /\ pc[c] = "granted"
    /\ LET a == call[c].id
       IN  \E usage \in Usages(call[c].op) :
             /\ spent' = [spent EXCEPT ![a] = [times |-> @.times + 1, usage |-> usage]]
             /\ \/ \* a complete answer, or an empty one in JSON mode, with its usage
                   /\ \E empty \in {FALSE, call[c].json} :
                        call' = [call EXCEPT ![c] = Answered(c, usage, empty)]
                   /\ pc' = [pc EXCEPT ![c] = "answered"]
                \/ \* an error worth another attempt
                   /\ call[c].retries < MaxRetries
                   /\ call' = [call EXCEPT ![c] = Retrying(c)]
                   /\ pc' = [pc EXCEPT ![c] = "attempt"]
                \/ \* a final error, or an answer without valid evidence
                   Leave(c)
    /\ UNCHANGED <<charged, closed, rows, wire, returned>>

SendSettle(c) ==
    /\ pc[c] = "answered"
    /\ Send(call[c].id, "settle", call[c].op, call[c].usage)
    /\ pc' = [pc EXCEPT ![c] = "settling"]
    /\ UNCHANGED <<charged, closed, rows, spent, returned, call>>

Acknowledged(c) == wire[call[c].id].kind = "settled"

\* Only a settled answer goes to the caller; an empty one is asked for again, once,
\* without JSON mode.
GetSettled(c) ==
    /\ pc[c] = "settling"
    /\ \/ /\ Acknowledged(c)
          /\ IF call[c].empty
             THEN /\ call' = [call EXCEPT ![c] = [@ EXCEPT !.json = FALSE, !.empty = FALSE,
                                                           !.usage = Nothing]]
                  /\ pc' = [pc EXCEPT ![c] = "attempt"]
                  /\ UNCHANGED returned
             ELSE /\ returned' = returned \cup {call[c].id}
                  /\ Leave(c)
       \/ /\ wire[call[c].id].kind \in {"refused", "lost"}
          /\ Leave(c)
          /\ UNCHANGED returned
    /\ UNCHANGED <<charged, closed, rows, wire, spent>>

\* A control call or the whole call runs out of time, its consumer goes away, or
\* the process dies; what is under way stays under way.
Abandon(c) ==
    /\ pc[c] # "idle"
    /\ Leave(c)
    /\ UNCHANGED <<charged, closed, rows, wire, spent, returned>>

Next ==
    \/ \E a \in AttemptIds : Reserve(a) \/ Settle(a) \/ Lose(a)
    \/ \E c \in Clients : \/ Start(c) \/ SendReserve(c) \/ GetGrant(c) \/ Dispatch(c)
                          \/ SendSettle(c) \/ GetSettled(c) \/ Abandon(c)
    \/ Close

Spec == Init /\ [][Next]_vars

------------------------------------------------------------------------------
(***************************************************************************)
(* Properties.                                                             *)
(***************************************************************************)
Usage == [input : Nat, output : Nat]
Receipts == [status : {"absent", "reserved", "settled"}, op : Operations, ordinal : Nat,
             usage : Usage]
Messages == [kind : {"unused", "reserve", "granted", "refused", "settle", "settled", "lost"},
             op : Operations, usage : Usage]
Calls == [id : AttemptIds \cup {NoAttempt}, op : Operations, allowance : Allowances \cup {0},
          sent : Nat, retries : 0 .. MaxRetries, json : BOOLEAN, empty : BOOLEAN, usage : Usage]

\* Every variable keeps its type; totals never go below zero, and a call that has
\* drawn an identity knows it.
TypeOK ==
    /\ charged \in Amounts
    /\ closed \in BOOLEAN
    /\ rows \in [AttemptIds -> Receipts]
    /\ wire \in [AttemptIds -> Messages]
    /\ spent \in [AttemptIds -> [times : Nat, usage : Usage]]
    /\ returned \subseteq AttemptIds
    /\ pc \in [Clients -> {"idle", "attempt", "reserving", "granted", "answered", "settling"}]
    /\ call \in [Clients -> Calls]
    /\ \A c \in Clients : pc[c] \notin {"idle", "attempt"} => call[c].id \in AttemptIds

\* The registered limits are never exceeded, however many processes reserve at once.
WithinLimits == Within(charged, Limits)

Charge(a) == IF rows[a].status = "absent" THEN Zero
             ELSE IF rows[a].status = "reserved" THEN Quote(rows[a].op)
             ELSE Consumption(rows[a].op, rows[a].usage)

\* The totals are exactly what the receipts say: a reservation counts in full until
\* its usage is known, nothing is refunded for a lost or failed attempt, and the
\* ordinals number the receipts without gaps.
ChargedExactly ==
    LET receipts == {a \in AttemptIds : rows[a].status # "absent"}
    IN  /\ charged = FoldSet(LAMBDA a, sum : Plus(Charge(a), sum), Zero, AttemptIds)
        /\ {rows[a].ordinal : a \in receipts} = 1 .. charged.attempts

\* What the provider has really done is paid for: every attempt is sent at most
\* once, only under its own receipt, and its consumption is covered by the charge,
\* whatever was lost, late, abandoned or settled since.
SpendIsCharged ==
    \A a \in AttemptIds :
        /\ spent[a].times <= 1
        /\ spent[a].times = 1 => /\ rows[a].status # "absent"
                                 /\ Within(Consumption(rows[a].op, spent[a].usage), Charge(a))

\* An answer is handed to the caller only when its usage is on record.
ReturnedIsSettled ==
    \A a \in returned : rows[a].status = "settled" /\ rows[a].usage = spent[a].usage

\* A logical call makes at most one attempt, its retries and one fallback, however
\* retries and the fallback alternate, and never more than its allowance.
AttemptsBounded ==
    \A c \in Clients : call[c].sent <= MaxRetries + 2 /\ call[c].sent <= call[c].allowance

\* Once the budget is closed its charges can only fall, by settlements.
ClosedOnlyFalls == [][closed => closed' /\ Within(charged', charged)]_vars

==============================================================================
