------------------------ MODULE DiagnosticBudgetProofs ------------------------
(***************************************************************************)
(* The budget's safety for every profile, every set of limits and any      *)
(* number of processes and attempts.  TypeOK is inductive by itself;       *)
(* EvidenceInv, which says what a receipt, a message and a client know of  *)
(* one another, and LedgerInv, which says that the totals are the sum of   *)
(* the receipts, are inductive relative to it.                             *)
(***************************************************************************)
EXTENDS DiagnosticBudget, FiniteSetTheorems, WellFoundedInduction, TLAPS

Labels == {"idle", "attempt", "reserving", "granted", "answered", "settling"}

\* The call has drawn the identity of an attempt.
Live(c) == pc[c] \notin {"idle", "attempt"}

LedgerTyped ==
    /\ charged \in Amounts
    /\ closed \in BOOLEAN
    /\ rows \in [AttemptIds -> Receipts]
    /\ wire \in [AttemptIds -> Messages]
    /\ spent \in [AttemptIds -> [times : Nat, usage : Usage]]
    /\ returned \subseteq AttemptIds

CallsTyped ==
    /\ pc \in [Clients -> Labels]
    /\ call \in [Clients -> Calls]
    /\ \A c \in Clients : Live(c) => call[c].id \in AttemptIds

LEMMA TypeSplit == TypeOK <=> LedgerTyped /\ CallsTyped
  BY DEF TypeOK, LedgerTyped, CallsTyped, Labels, Live

LEMMA TypeSplitPrime == TypeOK' <=> LedgerTyped' /\ CallsTyped'
  BY DEF TypeOK, LedgerTyped, CallsTyped, Labels, Live

------------------------------------------------------------------------------
(***************************************************************************)
(* Amounts.                                                                *)
(***************************************************************************)
\* A larger count costs no less.
LEMMA Monotone ==
  ASSUME NEW p \in Nat, NEW x \in Nat, NEW y \in Nat, x <= y
  PROVE  x * p \in Nat /\ x * p <= y * p
<1>1. PICK k \in Nat : y = x + k
  BY y - x \in Nat, y = x + (y - x)
<1>2. y * p = x * p + k * p
  BY <1>1
<1>3. x * p \in Nat /\ k * p \in Nat
  BY <1>1
<1> QED
  BY <1>2, <1>3

LEMMA Profiled ==
  ASSUME NEW op \in Operations
  PROVE  Profile[op] \in [input : Nat, output : Nat, inputPrice : Nat, outputPrice : Nat]
  BY Assumptions

LEMMA ConsumptionTyped ==
  ASSUME NEW op \in Operations, NEW usage \in Usage
  PROVE  Consumption(op, usage) \in Amounts
<1>1. usage.input \in Nat /\ usage.output \in Nat
  BY DEF Usage
<1>2. Profile[op].inputPrice \in Nat /\ Profile[op].outputPrice \in Nat
  BY Profiled
<1>3. /\ usage.input * Profile[op].inputPrice \in Nat
      /\ usage.output * Profile[op].outputPrice \in Nat
  BY <1>1, <1>2, Monotone
<1> QED
  BY <1>1, <1>3 DEF Consumption, Amounts

LEMMA CeilingTyped ==
  ASSUME NEW op \in Operations
  PROVE  Ceiling(op) \in Usage
  BY Profiled DEF Ceiling, Usage

LEMMA QuoteTyped ==
  ASSUME NEW op \in Operations
  PROVE  Quote(op) \in Amounts /\ Quote(op).attempts = 1
  BY CeilingTyped, ConsumptionTyped DEF Quote, Consumption

LEMMA UsagesTyped ==
  ASSUME NEW op \in Operations, NEW usage \in Usages(op)
  PROVE  /\ usage \in Usage
         /\ usage.input <= Profile[op].input
         /\ usage.output <= Profile[op].output
  BY Profiled DEF Usages, Usage

\* No usage the profile admits costs more than the quote.
LEMMA QuoteCovers ==
  ASSUME NEW op \in Operations, NEW usage \in Usages(op)
  PROVE  Within(Consumption(op, usage), Quote(op))
<1> DEFINE p == Profile[op]
<1>1. /\ p.input \in Nat /\ p.output \in Nat
      /\ p.inputPrice \in Nat /\ p.outputPrice \in Nat
  BY Profiled
<1>2. /\ usage.input \in Nat /\ usage.output \in Nat
      /\ usage.input <= p.input /\ usage.output <= p.output
  BY UsagesTyped DEF Usage
<1>3. /\ usage.input * p.inputPrice \in Nat
      /\ usage.input * p.inputPrice <= p.input * p.inputPrice
      /\ p.input * p.inputPrice \in Nat
  BY <1>1, <1>2, Monotone
<1>4. /\ usage.output * p.outputPrice \in Nat
      /\ usage.output * p.outputPrice <= p.output * p.outputPrice
      /\ p.output * p.outputPrice \in Nat
  BY <1>1, <1>2, Monotone
<1>5. usage.input + usage.output <= p.input + p.output
  BY <1>1, <1>2
<1>6. usage.input * p.inputPrice + usage.output * p.outputPrice
        <= p.input * p.inputPrice + p.output * p.outputPrice
  BY <1>3, <1>4
<1> QED
  BY <1>5, <1>6 DEF Within, Quote, Ceiling, Consumption

\* Settling never raises a total, nor takes it below zero.
LEMMA SettlingFalls ==
  ASSUME charged \in Amounts, NEW op \in Operations, NEW usage \in Usages(op),
         Within(Quote(op), charged)
  PROVE  SettledTotal(op, usage) \in Amounts /\ Within(SettledTotal(op, usage), charged)
<1> DEFINE q == Quote(op)
           u == Consumption(op, usage)
<1>1. q \in Amounts /\ u \in Amounts
  BY QuoteTyped, UsagesTyped, ConsumptionTyped
<1>2. Within(u, q) /\ Within(q, charged)
  BY QuoteCovers
<1>3. SettledTotal(op, usage) = [attempts |-> charged.attempts - q.attempts + u.attempts,
                                 tokens |-> charged.tokens - q.tokens + u.tokens,
                                 cost |-> charged.cost - q.cost + u.cost]
  BY DEF SettledTotal, Plus, Minus
<1> HIDE DEF q, u
<1> QED
  BY <1>1, <1>2, <1>3 DEF Amounts, Within

LEMMA Transitive ==
  ASSUME NEW a \in Amounts, NEW b \in Amounts, NEW c \in Amounts, Within(a, b), Within(b, c)
  PROVE  Within(a, c)
  BY DEF Within, Amounts

------------------------------------------------------------------------------
(***************************************************************************)
(* Types.                                                                  *)
(***************************************************************************)
LEMMA Defaults ==
  /\ AnOperation \in Operations
  /\ NoReceipt \in Receipts
  /\ NoMessage \in Messages
  /\ NotSent \in [times : Nat, usage : Usage]
  /\ NoCall \in Calls
  /\ Nothing \in Usage
  /\ Zero \in Amounts
<1>1. AnOperation \in Operations
  BY Assumptions DEF AnOperation
<1>2. Nothing \in Usage
  BY DEF Nothing, Usage
<1>3. NoReceipt \in Receipts /\ NoMessage \in Messages
  BY <1>1, <1>2 DEF NoReceipt, Receipts, NoMessage, Messages
<1>4. NoCall \in Calls
  BY <1>1, <1>2, Assumptions DEF NoCall, Calls
<1> QED
  BY <1>1, <1>2, <1>3, <1>4 DEF NotSent, Zero, Amounts

LEMMA TypeInit == Init => TypeOK
<1> SUFFICES ASSUME Init PROVE TypeOK
  OBVIOUS
<1>1. LedgerTyped
  BY Defaults DEF Init, LedgerTyped
<1>2. CallsTyped
  BY Defaults DEF Init, CallsTyped, Labels, Live
<1> QED
  BY <1>1, <1>2, TypeSplit

LEMMA LeaveTyped ==
  ASSUME CallsTyped, NEW c \in Clients, Leave(c)
  PROVE  CallsTyped'
<1>1. pc' \in [Clients -> Labels] /\ call' \in [Clients -> Calls]
  BY Defaults DEF CallsTyped, Leave, Labels
<1> QED
  BY <1>1 DEF CallsTyped, Leave, Live

\* A call that changes its record and goes to a label, with an identity if it needs one.
LEMMA MoveTyped ==
  ASSUME CallsTyped, NEW c \in Clients, NEW label \in Labels, NEW r \in Calls,
         pc' = [pc EXCEPT ![c] = label], call' = [call EXCEPT ![c] = r],
         label \notin {"idle", "attempt"} => r.id \in AttemptIds
  PROVE  CallsTyped'
<1>1. pc' \in [Clients -> Labels] /\ call' \in [Clients -> Calls]
  BY DEF CallsTyped
<1> QED
  BY <1>1 DEF CallsTyped, Live

LEMMA SameLedger ==
  ASSUME LedgerTyped, UNCHANGED <<charged, closed, rows, wire, spent, returned>>
  PROVE  LedgerTyped'
  BY DEF LedgerTyped

LEMMA SameCalls ==
  ASSUME CallsTyped, UNCHANGED <<pc, call>>
  PROVE  CallsTyped'
  BY DEF CallsTyped, Live

LEMMA ReserveTyped ==
  ASSUME TypeOK, NEW a \in AttemptIds, Reserve(a)
  PROVE  TypeOK' /\ (Within(charged, Limits) => Within(charged', Limits))
                 /\ (closed => charged' = charged)
<1> USE DEF Reserve, LedgerTyped
<1>1. LedgerTyped /\ CallsTyped
  BY TypeSplit
<1>2. CallsTyped'
  BY <1>1, SameCalls
<1>3. CASE UNCHANGED <<rows, charged>>
  <2>1. wire' \in [AttemptIds -> Messages]
    <3>1. \A kind \in {"granted", "refused"} : [NoMessage EXCEPT !.kind = kind] \in Messages
      BY Defaults DEF Messages
    <3> QED
      BY <1>1, <3>1 DEF Reply
  <2> QED
    BY <1>1, <1>2, <1>3, <2>1, TypeSplitPrime
<1>4. CASE Grantable(a) /\ ~UNCHANGED <<rows, charged>>
  <2> DEFINE op == wire[a].op
             total == Plus(charged, Quote(op))
             receipt == [status |-> "reserved", op |-> op, ordinal |-> total.attempts,
                         usage |-> Nothing]
  <2>1. op \in Operations
    BY <1>1 DEF Messages
  <2>2. total \in Amounts
    BY <1>1, <2>1, QuoteTyped DEF Plus, Amounts
  <2>3. receipt \in Receipts
    BY <2>1, <2>2, Defaults DEF Receipts, Amounts
  <2>4. [NoMessage EXCEPT !.kind = "granted"] \in Messages
    BY Defaults DEF Messages
  <2>5. /\ charged' = total
        /\ rows' = [rows EXCEPT ![a] = receipt]
        /\ wire' = [wire EXCEPT ![a] = [NoMessage EXCEPT !.kind = "granted"]]
        /\ UNCHANGED <<closed, spent, returned>>
    BY <1>4 DEF Reply
  <2>6. LedgerTyped'
    <3> HIDE DEF op, total, receipt
    <3> QED
      BY <1>1, <2>2, <2>3, <2>4, <2>5
  <2> QED
    BY <1>2, <1>4, <2>5, <2>6, TypeSplitPrime DEF Grantable
<1> QED
  BY <1>3, <1>4

LEMMA SettleTyped ==
  ASSUME TypeOK, NEW a \in AttemptIds, Settle(a)
  PROVE  TypeOK' /\ Within(charged', charged)
<1> USE DEF Settle, LedgerTyped
<1>1. LedgerTyped /\ CallsTyped
  BY TypeSplit
<1>2. CallsTyped'
  BY <1>1, SameCalls
<1>3. rows[a] \in Receipts /\ rows[a].op \in Operations
  BY <1>1 DEF Receipts
<1>4. wire' \in [AttemptIds -> Messages]
  <2>1. \A kind \in {"settled", "refused"} : [NoMessage EXCEPT !.kind = kind] \in Messages
    BY Defaults DEF Messages
  <2> QED
    BY <1>1, <2>1 DEF Reply
<1>5. CASE Settleable(a)
  <2>1. wire[a].usage \in Usages(rows[a].op) /\ Within(Quote(rows[a].op), charged)
    BY <1>5 DEF Settleable
  <2>2. charged' \in Amounts /\ Within(charged', charged)
    BY <1>1, <1>3, <1>5, <2>1, SettlingFalls
  <2>3. [rows[a] EXCEPT !.status = "settled", !.usage = wire[a].usage] \in Receipts
    BY <1>3, <2>1, UsagesTyped DEF Receipts
  <2>4. rows' \in [AttemptIds -> Receipts]
    BY <1>1, <1>5, <2>3
  <2> QED
    BY <1>1, <1>2, <1>4, <2>2, <2>4, TypeSplitPrime
<1>6. CASE ~Settleable(a)
  BY <1>1, <1>2, <1>4, <1>6, TypeSplitPrime DEF Within, Amounts
<1> QED
  BY <1>5, <1>6

LEMMA LoseTyped ==
  ASSUME TypeOK, NEW a \in AttemptIds, Lose(a)
  PROVE  TypeOK'
<1>1. LedgerTyped /\ CallsTyped
  BY TypeSplit
<1>2. CallsTyped'
  BY <1>1, SameCalls DEF Lose
<1>3. [NoMessage EXCEPT !.kind = "lost"] \in Messages
  BY Defaults DEF Messages
<1>4. LedgerTyped'
  BY <1>1, <1>3 DEF Lose, Reply, LedgerTyped
<1> QED
  BY <1>2, <1>4, TypeSplitPrime

LEMMA NextCallTyped ==
  ASSUME CallsTyped, NEW c \in Clients
  PROVE  /\ call[c].retries < MaxRetries => Retrying(c) \in Calls
         /\ \A usage \in Usage, empty \in {FALSE, call[c].json} :
              Answered(c, usage, empty) \in Calls /\ Answered(c, usage, empty).id = call[c].id
<1>1. /\ call[c] \in Calls /\ call[c].sent + 1 \in Nat
      /\ call[c].json \in BOOLEAN
      /\ call[c].retries < MaxRetries => call[c].retries + 1 \in 0 .. MaxRetries
  BY Assumptions DEF CallsTyped, Calls
<1>2. \A n \in Nat, k \in 0 .. MaxRetries :
         [call[c] EXCEPT !.sent = n, !.retries = k] \in Calls
  BY <1>1 DEF Calls
<1>3. \A n \in Nat, usage \in Usage, empty \in BOOLEAN :
         /\ [call[c] EXCEPT !.sent = n, !.empty = empty, !.usage = usage] \in Calls
         /\ [call[c] EXCEPT !.sent = n, !.empty = empty, !.usage = usage].id = call[c].id
  BY <1>1 DEF Calls
<1>4. call[c].retries < MaxRetries => Retrying(c) \in Calls
  BY <1>1, <1>2 DEF Retrying
<1>5. \A usage \in Usage, empty \in {FALSE, call[c].json} :
         Answered(c, usage, empty) \in Calls /\ Answered(c, usage, empty).id = call[c].id
  BY <1>1, <1>3 DEF Answered
<1> QED
  BY <1>4, <1>5

LEMMA ClientTyped ==
  ASSUME TypeOK, NEW c \in Clients
  PROVE  /\ Start(c) => TypeOK'
         /\ SendReserve(c) => TypeOK'
         /\ GetGrant(c) => TypeOK'
         /\ Dispatch(c) => TypeOK'
         /\ SendSettle(c) => TypeOK'
         /\ GetSettled(c) => TypeOK'
         /\ Abandon(c) => TypeOK'
<1>0. LedgerTyped /\ CallsTyped
  BY TypeSplit
<1>r. call[c] \in Calls /\ pc[c] \in Labels
  BY <1>0 DEF CallsTyped
<1>u. /\ call[c].op \in Operations /\ call[c].sent \in Nat /\ call[c].usage \in Usage
      /\ call[c].id \in AttemptIds \cup {NoAttempt} /\ call[c].retries \in 0 .. MaxRetries
  BY <1>r DEF Calls
<1>1. ASSUME Start(c) PROVE TypeOK'
  <2>1. PICK op \in Operations, allowance \in Allowances, json \in BOOLEAN :
           call' = [call EXCEPT ![c] =
                      [NoCall EXCEPT !.op = op, !.allowance = allowance, !.json = json]]
    BY <1>1 DEF Start
  <2>2. [NoCall EXCEPT !.op = op, !.allowance = allowance, !.json = json] \in Calls
    BY Defaults, Assumptions DEF Calls
  <2>3. CallsTyped'
    BY <1>0, <1>1, <2>1, <2>2, MoveTyped DEF Start, Labels
  <2> QED
    BY <1>0, <1>1, <2>3, SameLedger, TypeSplitPrime DEF Start
<1>2. ASSUME SendReserve(c) PROVE TypeOK'
  <2>1. CASE Leave(c) /\ UNCHANGED wire
    BY <1>0, <1>2, <2>1, LeaveTyped, SameLedger, TypeSplitPrime DEF SendReserve
  <2>2. CASE /\ pc' = [pc EXCEPT ![c] = "reserving"]
             /\ \E a \in AttemptIds : /\ wire[a].kind = "unused"
                                       /\ Send(a, "reserve", call[c].op, Nothing)
                                       /\ call' = [call EXCEPT ![c].id = a]
    <3>1. PICK a \in AttemptIds : /\ Send(a, "reserve", call[c].op, Nothing)
                                  /\ call' = [call EXCEPT ![c] = [call[c] EXCEPT !.id = a]]
      BY <2>2
    <3> DEFINE r == [call[c] EXCEPT !.id = a]
    <3>2. r \in Calls /\ r.id \in AttemptIds
      BY <1>r DEF Calls
    <3>m. /\ pc' = [pc EXCEPT ![c] = "reserving"]
          /\ call' = [call EXCEPT ![c] = r]
      BY <2>2, <3>1
    <3>l. "reserving" \in Labels
      BY DEF Labels
    <3> HIDE DEF r
    <3>3. CallsTyped'
      BY <1>0, <3>2, <3>m, <3>l, MoveTyped
    <3>4. [kind |-> "reserve", op |-> call[c].op, usage |-> Nothing] \in Messages
      BY <1>u, Defaults DEF Messages
    <3>5. LedgerTyped'
      BY <1>0, <1>2, <3>1, <3>4 DEF SendReserve, Send, LedgerTyped
    <3> QED
      BY <3>3, <3>5, TypeSplitPrime
  <2> QED
    BY <1>2, <2>1, <2>2 DEF SendReserve
<1>3. ASSUME GetGrant(c) PROVE TypeOK'
  <2>1. CallsTyped'
    <3>1. CASE Leave(c)
      BY <1>0, <3>1, LeaveTyped
    <3>2. CASE pc' = [pc EXCEPT ![c] = "granted"] /\ call' = call
      <4>1. call[c].id \in AttemptIds
        BY <1>0, <1>3 DEF GetGrant, CallsTyped, Live
      <4>2. call' = [call EXCEPT ![c] = call[c]]
        BY <1>0, <3>2 DEF CallsTyped
      <4> QED
        BY <1>0, <1>r, <3>2, <4>1, <4>2, MoveTyped DEF Labels
    <3> QED
      BY <1>3, <3>1, <3>2 DEF GetGrant
  <2> QED
    BY <1>0, <1>3, <2>1, SameLedger, TypeSplitPrime DEF GetGrant
<1>4. ASSUME Dispatch(c) PROVE TypeOK'
  <2>0. call[c].id \in AttemptIds
    BY <1>0, <1>4 DEF Dispatch, CallsTyped, Live
  <2>1. PICK usage \in Usages(call[c].op) :
           /\ spent' = [spent EXCEPT ![call[c].id] = [times |-> @.times + 1, usage |-> usage]]
           /\ \/ /\ \E empty \in {FALSE, call[c].json} :
                     call' = [call EXCEPT ![c] = Answered(c, usage, empty)]
                 /\ pc' = [pc EXCEPT ![c] = "answered"]
              \/ /\ call[c].retries < MaxRetries
                 /\ call' = [call EXCEPT ![c] = Retrying(c)]
                 /\ pc' = [pc EXCEPT ![c] = "attempt"]
              \/ Leave(c)
    BY <1>4 DEF Dispatch
  <2>2. usage \in Usage
    BY <1>u, UsagesTyped
  <2>3. spent' \in [AttemptIds -> [times : Nat, usage : Usage]]
    BY <1>0, <2>0, <2>1, <2>2 DEF LedgerTyped
  <2>4. LedgerTyped'
    BY <1>0, <1>4, <2>3 DEF LedgerTyped, Dispatch
  <2>5. CASE Leave(c)
    BY <1>0, <2>4, <2>5, LeaveTyped, TypeSplitPrime
  <2>6. CASE /\ call[c].retries < MaxRetries
             /\ call' = [call EXCEPT ![c] = Retrying(c)]
             /\ pc' = [pc EXCEPT ![c] = "attempt"]
    BY <1>0, <2>4, <2>6, NextCallTyped, MoveTyped, TypeSplitPrime DEF Labels
  <2>7. CASE /\ \E empty \in {FALSE, call[c].json} :
                   call' = [call EXCEPT ![c] = Answered(c, usage, empty)]
             /\ pc' = [pc EXCEPT ![c] = "answered"]
    BY <1>0, <2>0, <2>2, <2>4, <2>7, NextCallTyped, MoveTyped, TypeSplitPrime DEF Labels
  <2> QED
    BY <2>1, <2>5, <2>6, <2>7
<1>5. ASSUME SendSettle(c) PROVE TypeOK'
  <2>1. call[c].id \in AttemptIds
    BY <1>0, <1>5 DEF SendSettle, CallsTyped, Live
  <2>2. [kind |-> "settle", op |-> call[c].op, usage |-> call[c].usage] \in Messages
    BY <1>u DEF Messages
  <2>3. LedgerTyped'
    BY <1>0, <1>5, <2>1, <2>2 DEF SendSettle, Send, LedgerTyped
  <2>4. call' = [call EXCEPT ![c] = call[c]]
    BY <1>0, <1>5 DEF CallsTyped, SendSettle
  <2>5. CallsTyped'
    BY <1>0, <1>r, <1>5, <2>1, <2>4, MoveTyped DEF SendSettle, Labels
  <2> QED
    BY <2>3, <2>5, TypeSplitPrime
<1>6. ASSUME GetSettled(c) PROVE TypeOK'
  <2>1. call[c].id \in AttemptIds
    BY <1>0, <1>6 DEF GetSettled, CallsTyped, Live
  <2>2. LedgerTyped'
    BY <1>0, <1>6, <2>1 DEF GetSettled, LedgerTyped
  <2>3. CASE Leave(c)
    BY <1>0, <2>2, <2>3, LeaveTyped, TypeSplitPrime
  <2>4. CASE ~Leave(c)
    <3> DEFINE r == [call[c] EXCEPT !.json = FALSE, !.empty = FALSE, !.usage = Nothing]
    <3>1. r \in Calls
      BY <1>r, <1>u, Defaults DEF Calls
    <3>2. call' = [call EXCEPT ![c] = r] /\ pc' = [pc EXCEPT ![c] = "attempt"]
      BY <1>0, <1>6, <2>4 DEF GetSettled, CallsTyped
    <3> HIDE DEF r
    <3> QED
      BY <1>0, <2>2, <3>1, <3>2, MoveTyped, TypeSplitPrime DEF Labels
  <2> QED
    BY <2>3, <2>4
<1>7. ASSUME Abandon(c) PROVE TypeOK'
  BY <1>0, <1>7, LeaveTyped, SameLedger, TypeSplitPrime DEF Abandon
<1> QED
  BY <1>1, <1>2, <1>3, <1>4, <1>5, <1>6, <1>7

\* What every step keeps of the totals.
TotalsStep ==
    /\ WithinLimits => WithinLimits'
    /\ closed => closed' /\ Within(charged', charged)

LEMMA TypeStep ==
  ASSUME TypeOK, [Next]_vars
  PROVE  TypeOK' /\ TotalsStep
<1> USE DEF WithinLimits, TotalsStep
<1>0. charged \in Amounts /\ Limits \in Amounts /\ Within(charged, charged)
  BY Assumptions DEF TypeOK, Within, Amounts
<1>1. ASSUME NEW a \in AttemptIds, Reserve(a) PROVE TypeOK' /\ TotalsStep
  BY <1>0, <1>1, ReserveTyped DEF Reserve
<1>2. ASSUME NEW a \in AttemptIds, Settle(a) PROVE TypeOK' /\ TotalsStep
  <2>1. TypeOK' /\ Within(charged', charged) /\ closed' = closed
    BY <1>2, SettleTyped DEF Settle
  <2>2. charged' \in Amounts
    BY <2>1 DEF TypeOK
  <2> QED
    BY <1>0, <2>1, <2>2, Transitive
<1>3. ASSUME NEW a \in AttemptIds, Lose(a) PROVE TypeOK' /\ TotalsStep
  BY <1>0, <1>3, LoseTyped DEF Lose
<1>4. ASSUME NEW c \in Clients,
             \/ Start(c) \/ SendReserve(c) \/ GetGrant(c) \/ Dispatch(c)
             \/ SendSettle(c) \/ GetSettled(c) \/ Abandon(c)
      PROVE  TypeOK' /\ TotalsStep
  <2>1. TypeOK'
    BY <1>4, ClientTyped
  <2>2. UNCHANGED <<charged, closed>>
    BY <1>4 DEF Start, SendReserve, GetGrant, Dispatch, SendSettle, GetSettled, Abandon
  <2> QED
    BY <1>0, <2>1, <2>2
<1>5. CASE Close
  BY <1>0, <1>5 DEF Close, TypeOK
<1>6. CASE UNCHANGED vars
  BY <1>0, <1>6 DEF vars, TypeOK
<1> QED
  BY <1>1, <1>2, <1>3, <1>4, <1>5, <1>6 DEF Next

------------------------------------------------------------------------------
(***************************************************************************)
(* Evidence: what receipts, messages, provider work and calls know of one  *)
(* another.                                                                *)
(***************************************************************************)
AttemptInv(a) ==
    /\ wire[a].kind \in {"unused", "reserve"} => rows[a].status = "absent"
    /\ wire[a].kind = "granted" => rows[a].status = "reserved"
    /\ wire[a].kind = "settle" => spent[a].times = 1 /\ wire[a].usage = spent[a].usage
    /\ wire[a].kind = "settled" => rows[a].status = "settled"
    /\ rows[a].status = "absent" => spent[a].times = 0
    /\ rows[a].status = "settled" => spent[a].times = 1 /\ rows[a].usage = spent[a].usage
    /\ spent[a].times \in {0, 1}
    /\ spent[a].times = 1 => spent[a].usage \in Usages(rows[a].op)
    /\ a \in returned => rows[a].status = "settled"

ClientInv(c) ==
    LET a == call[c].id
    IN  /\ Live(c) => wire[a].kind # "unused"
        /\ pc[c] = "reserving" => /\ spent[a].times = 0
                                  /\ wire[a].kind = "reserve" => wire[a].op = call[c].op
                                  /\ wire[a].kind = "granted" => rows[a].op = call[c].op
        /\ pc[c] = "granted" => /\ spent[a].times = 0
                                /\ rows[a].status = "reserved"
                                /\ rows[a].op = call[c].op
        /\ pc[c] = "answered" => spent[a].times = 1 /\ spent[a].usage = call[c].usage

\* No two calls work on one attempt.
OwnAttempts ==
    \A c, d \in Clients : Live(c) /\ Live(d) /\ call[c].id = call[d].id => c = d

EvidenceInv ==
    /\ \A a \in AttemptIds : AttemptInv(a)
    /\ \A c \in Clients : ClientInv(c)
    /\ OwnAttempts

LEMMA EvidenceInit == Init => EvidenceInv
  BY DEF Init, EvidenceInv, AttemptInv, ClientInv, OwnAttempts, Live, NoMessage, NoReceipt,
         NotSent, NoCall

\* The identities of the calls under way, when no call moves.
LEMMA SameOwners ==
  ASSUME OwnAttempts, UNCHANGED <<pc, call>>
  PROVE  OwnAttempts'
  BY DEF OwnAttempts, Live

LEMMA ReplyFacts ==
  ASSUME TypeOK, NEW a \in AttemptIds, NEW kind, Reply(a, kind)
  PROVE  /\ wire'[a].kind = kind
         /\ \A b \in AttemptIds \ {a} : wire'[b] = wire[b]
  BY DEF TypeOK, Reply, NoMessage

LEMMA ReserveEvidence ==
  ASSUME TypeOK, EvidenceInv, NEW a \in AttemptIds, Reserve(a)
  PROVE  EvidenceInv'
<1>0. /\ wire[a].kind = "reserve" /\ rows[a].status = "absent" /\ spent[a].times = 0
      /\ UNCHANGED <<spent, returned, pc, call>>
  BY DEF Reserve, EvidenceInv, AttemptInv
<1>1. \/ /\ wire'[a].kind = "granted" /\ rows'[a].status = "reserved"
         /\ rows'[a].op = wire[a].op
      \/ wire'[a].kind = "refused" /\ rows' = rows
  BY ReplyFacts DEF Reserve, TypeOK
<1>2. \A b \in AttemptIds \ {a} : wire'[b] = wire[b] /\ rows'[b] = rows[b]
  BY ReplyFacts DEF Reserve, TypeOK
<1>3. ASSUME NEW b \in AttemptIds PROVE AttemptInv(b)'
  BY <1>0, <1>1, <1>2 DEF EvidenceInv, AttemptInv
<1>4. ASSUME NEW c \in Clients PROVE ClientInv(c)'
  <2>1. Live(c) => call[c].id \in AttemptIds
    BY DEF TypeOK, Live
  <2>2. ClientInv(c)
    BY DEF EvidenceInv
  <2> QED
    BY <1>0, <1>1, <1>2, <2>1, <2>2 DEF ClientInv, Live
<1> QED
  BY <1>0, <1>3, <1>4, SameOwners DEF EvidenceInv

LEMMA SettleEvidence ==
  ASSUME TypeOK, EvidenceInv, NEW a \in AttemptIds, Settle(a)
  PROVE  EvidenceInv'
<1>0. /\ wire[a].kind = "settle" /\ spent[a].times = 1 /\ wire[a].usage = spent[a].usage
      /\ UNCHANGED <<spent, returned, pc, call>>
  BY DEF Settle, EvidenceInv, AttemptInv
<1>1. \/ /\ wire'[a].kind = "settled" /\ rows'[a].status = "settled"
         /\ rows'[a].op = rows[a].op /\ rows'[a].usage = wire[a].usage
      \/ wire'[a].kind = "settled" /\ rows' = rows /\ rows[a].status = "settled"
      \/ wire'[a].kind = "refused" /\ rows' = rows
  <2>1. CASE Settleable(a)
    <3>1. rows \in [AttemptIds -> Receipts]
      BY DEF TypeOK
    <3>2. rows' = [rows EXCEPT ![a] = [rows[a] EXCEPT !.status = "settled",
                                                     !.usage = wire[a].usage]]
      BY <2>1 DEF Settle
    <3>3. /\ rows'[a].status = "settled" /\ rows'[a].op = rows[a].op
          /\ rows'[a].usage = wire[a].usage
      BY <3>1, <3>2 DEF Receipts
    <3>4. wire'[a].kind = "settled"
      BY <2>1, ReplyFacts DEF Settle
    <3> QED
      BY <3>3, <3>4
  <2>2. CASE ~Settleable(a)
    BY <2>2, ReplyFacts DEF Settle, TypeOK
  <2> QED
    BY <2>1, <2>2
<1>2. \A b \in AttemptIds \ {a} : wire'[b] = wire[b] /\ rows'[b] = rows[b]
  <2>1. CASE Settleable(a)
    BY <2>1, ReplyFacts DEF Settle, TypeOK
  <2>2. CASE ~Settleable(a)
    BY <2>2, ReplyFacts DEF Settle, TypeOK
  <2> QED
    BY <2>1, <2>2
<1>3. ASSUME NEW b \in AttemptIds PROVE AttemptInv(b)'
  BY <1>0, <1>1, <1>2 DEF EvidenceInv, AttemptInv
<1>4. ASSUME NEW c \in Clients PROVE ClientInv(c)'
  <2>1. Live(c) => call[c].id \in AttemptIds
    BY DEF TypeOK, Live
  <2>2. ClientInv(c)
    BY DEF EvidenceInv
  <2> QED
    BY <1>0, <1>1, <1>2, <2>1, <2>2 DEF ClientInv, Live
<1> QED
  BY <1>0, <1>3, <1>4, SameOwners DEF EvidenceInv

LEMMA LoseEvidence ==
  ASSUME TypeOK, EvidenceInv, NEW a \in AttemptIds, Lose(a)
  PROVE  EvidenceInv'
<1>1. /\ wire[a].kind # "unused" /\ wire'[a].kind = "lost"
      /\ \A b \in AttemptIds \ {a} : wire'[b] = wire[b]
      /\ UNCHANGED <<rows, spent, returned, pc, call>>
  BY ReplyFacts DEF Lose
<1>2. ASSUME NEW b \in AttemptIds PROVE AttemptInv(b)'
  BY <1>1 DEF EvidenceInv, AttemptInv
<1>3. ASSUME NEW c \in Clients PROVE ClientInv(c)'
  <2>1. Live(c) => call[c].id \in AttemptIds
    BY DEF TypeOK, Live
  <2> QED
    BY <1>1, <2>1 DEF EvidenceInv, ClientInv, Live
<1> QED
  BY <1>1, <1>2, <1>3, SameOwners DEF EvidenceInv

\* A call that leaves, or goes back to its next attempt, lets go of its identity.
LEMMA RestEvidence ==
  ASSUME TypeOK, EvidenceInv, NEW c \in Clients, UNCHANGED <<rows, wire, spent>>,
         ~Live(c)', \A d \in Clients \ {c} : pc'[d] = pc[d] /\ call'[d] = call[d],
         \A a \in returned' \ returned : rows[a].status = "settled"
  PROVE  EvidenceInv'
<1>1. ASSUME NEW a \in AttemptIds PROVE AttemptInv(a)'
  BY DEF EvidenceInv, AttemptInv
<1>2. ASSUME NEW d \in Clients PROVE ClientInv(d)'
  <2>1. CASE d = c
    BY <2>1 DEF ClientInv, Live
  <2>2. CASE d # c
    BY <2>2 DEF EvidenceInv, ClientInv, Live
  <2> QED
    BY <2>1, <2>2
<1>3. OwnAttempts'
  BY DEF EvidenceInv, OwnAttempts, Live
<1> QED
  BY <1>1, <1>2, <1>3 DEF EvidenceInv

LEMMA LeaveFacts ==
  ASSUME TypeOK, NEW c \in Clients, Leave(c)
  PROVE  ~Live(c)' /\ \A d \in Clients \ {c} : pc'[d] = pc[d] /\ call'[d] = call[d]
  BY DEF TypeOK, Leave, Live

LEMMA OtherAttempt ==
  ASSUME TypeOK, EvidenceInv, NEW c \in Clients, Live(c)
  PROVE  /\ call[c].id \in AttemptIds
         /\ \A d \in Clients \ {c} : Live(d) => call[d].id \in AttemptIds \ {call[c].id}
  BY DEF TypeOK, EvidenceInv, OwnAttempts, Live

LEMMA SendReserveEvidence ==
  ASSUME TypeOK, EvidenceInv, NEW c \in Clients, SendReserve(c)
  PROVE  EvidenceInv'
<1>1. CASE Leave(c) /\ UNCHANGED wire
  BY <1>1, LeaveFacts, RestEvidence DEF SendReserve
<1>2. CASE /\ pc' = [pc EXCEPT ![c] = "reserving"]
           /\ \E a \in AttemptIds : /\ wire[a].kind = "unused"
                                     /\ Send(a, "reserve", call[c].op, Nothing)
                                     /\ call' = [call EXCEPT ![c].id = a]
  <2>1. PICK a \in AttemptIds : /\ wire[a].kind = "unused"
                                /\ Send(a, "reserve", call[c].op, Nothing)
                                /\ call' = [call EXCEPT ![c].id = a]
    BY <1>2
  <2>2. /\ wire'[a].kind = "reserve" /\ wire'[a].op = call[c].op
        /\ \A b \in AttemptIds \ {a} : wire'[b] = wire[b]
        /\ UNCHANGED <<rows, spent, returned>>
    BY <2>1 DEF Send, SendReserve, TypeOK
  <2>3. /\ pc'[c] = "reserving" /\ call'[c].id = a /\ call'[c].op = call[c].op
        /\ \A d \in Clients \ {c} : pc'[d] = pc[d] /\ call'[d] = call[d]
    BY <1>2, <2>1 DEF TypeOK, Calls
  <2>4. rows[a].status = "absent" /\ spent[a].times = 0
    BY <2>1 DEF EvidenceInv, AttemptInv
  <2>5. \A d \in Clients \ {c} : Live(d) => call[d].id \in AttemptIds \ {a}
    BY <2>1 DEF TypeOK, EvidenceInv, ClientInv, Live
  <2>6. ASSUME NEW b \in AttemptIds PROVE AttemptInv(b)'
    BY <2>2, <2>4 DEF EvidenceInv, AttemptInv
  <2>7. ASSUME NEW d \in Clients PROVE ClientInv(d)'
    <3>1. CASE d = c
      BY <2>2, <2>3, <2>4, <3>1 DEF ClientInv, Live
    <3>2. CASE d # c
      BY <2>2, <2>3, <2>5, <3>2 DEF EvidenceInv, ClientInv, Live
    <3> QED
      BY <3>1, <3>2
  <2>8. OwnAttempts'
    BY <2>3, <2>5 DEF EvidenceInv, OwnAttempts, Live
  <2> QED
    BY <2>6, <2>7, <2>8 DEF EvidenceInv
<1> QED
  BY <1>1, <1>2 DEF SendReserve

LEMMA GetGrantEvidence ==
  ASSUME TypeOK, EvidenceInv, NEW c \in Clients, GetGrant(c)
  PROVE  EvidenceInv'
<1>1. CASE Leave(c)
  BY <1>1, LeaveFacts, RestEvidence DEF GetGrant
<1>2. CASE Authorized(c) /\ pc' = [pc EXCEPT ![c] = "granted"] /\ UNCHANGED call
  <2>1. pc[c] = "reserving" /\ UNCHANGED <<rows, wire, spent, returned, call>>
    BY <1>2 DEF GetGrant
  <2>2. pc'[c] = "granted" /\ \A d \in Clients \ {c} : pc'[d] = pc[d]
    BY <1>2 DEF TypeOK
  <2>3. call[c].id \in AttemptIds
    BY <2>1, OtherAttempt DEF Live
  <2>4. AttemptInv(call[c].id) /\ ClientInv(c)
    BY <2>3 DEF EvidenceInv
  <2>5. ClientInv(c)'
    BY <1>2, <2>1, <2>2, <2>4 DEF AttemptInv, ClientInv, Authorized, Live
  <2>6. ASSUME NEW d \in Clients \ {c} PROVE ClientInv(d)'
    BY <2>1, <2>2 DEF EvidenceInv, ClientInv, Live
  <2>7. ASSUME NEW b \in AttemptIds PROVE AttemptInv(b)'
    BY <2>1 DEF EvidenceInv, AttemptInv
  <2>8. OwnAttempts'
    BY <2>1, <2>2 DEF EvidenceInv, OwnAttempts, Live
  <2> QED
    BY <2>5, <2>6, <2>7, <2>8 DEF EvidenceInv
<1> QED
  BY <1>1, <1>2 DEF GetGrant

LEMMA DispatchEvidence ==
  ASSUME TypeOK, EvidenceInv, NEW c \in Clients, Dispatch(c)
  PROVE  EvidenceInv'
<1> DEFINE a == call[c].id
<1>1. pc[c] = "granted" /\ Live(c) /\ UNCHANGED <<rows, wire, returned>>
  BY DEF Dispatch, Live
<1>2. /\ a \in AttemptIds
      /\ \A d \in Clients \ {c} : Live(d) => call[d].id \in AttemptIds \ {a}
  BY <1>1, OtherAttempt
<1>3. /\ spent[a].times = 0 /\ rows[a].status = "reserved" /\ rows[a].op = call[c].op
      /\ wire[a].kind # "unused"
  BY <1>1 DEF EvidenceInv, ClientInv
<1>4. PICK usage \in Usages(call[c].op) :
         /\ spent' = [spent EXCEPT ![a] = [times |-> @.times + 1, usage |-> usage]]
         /\ \/ /\ \E empty \in {FALSE, call[c].json} :
                   call' = [call EXCEPT ![c] = Answered(c, usage, empty)]
               /\ pc' = [pc EXCEPT ![c] = "answered"]
            \/ /\ call[c].retries < MaxRetries
               /\ call' = [call EXCEPT ![c] = Retrying(c)]
               /\ pc' = [pc EXCEPT ![c] = "attempt"]
            \/ Leave(c)
  BY DEF Dispatch
<1>5. /\ spent'[a].times = 1 /\ spent'[a].usage = usage
      /\ \A b \in AttemptIds \ {a} : spent'[b] = spent[b]
  BY <1>2, <1>3, <1>4 DEF TypeOK
<1>6. /\ \A d \in Clients \ {c} : pc'[d] = pc[d] /\ call'[d] = call[d]
      /\ \/ ~Live(c)'
         \/ pc'[c] = "answered" /\ call'[c].id = a /\ call'[c].usage = usage
  <2>1. CASE Leave(c)
    BY <2>1, LeaveFacts
  <2>2. CASE call' = [call EXCEPT ![c] = Retrying(c)] /\ pc' = [pc EXCEPT ![c] = "attempt"]
    BY <2>2 DEF TypeOK, Live
  <2>3. CASE /\ \E empty \in {FALSE, call[c].json} :
                  call' = [call EXCEPT ![c] = Answered(c, usage, empty)]
             /\ pc' = [pc EXCEPT ![c] = "answered"]
    <3>1. PICK empty \in {FALSE, call[c].json} :
             call' = [call EXCEPT ![c] = Answered(c, usage, empty)]
      BY <2>3
    <3>2. call[c] \in Calls
      BY DEF TypeOK
    <3>3. \A n : /\ [call[c] EXCEPT !.sent = n, !.empty = empty, !.usage = usage].id = a
                 /\ [call[c] EXCEPT !.sent = n, !.empty = empty, !.usage = usage].usage = usage
      BY <3>2 DEF Calls
    <3>4. Answered(c, usage, empty).id = a /\ Answered(c, usage, empty).usage = usage
      BY <3>3 DEF Answered
    <3>5. call'[c] = Answered(c, usage, empty)
      BY <3>1 DEF TypeOK
    <3> QED
      BY <2>3, <3>1, <3>4, <3>5 DEF TypeOK
  <2> QED
    BY <1>4, <2>1, <2>2, <2>3
<1> HIDE DEF a
<1>7. ASSUME NEW b \in AttemptIds PROVE AttemptInv(b)'
  <2>1. AttemptInv(b)
    BY DEF EvidenceInv
  <2> QED
    BY <1>1, <1>2, <1>3, <1>4, <1>5, <2>1 DEF AttemptInv
<1>8. ASSUME NEW d \in Clients PROVE ClientInv(d)'
  <2>1. CASE d = c
    BY <1>1, <1>2, <1>3, <1>5, <1>6, <2>1 DEF ClientInv, Live
  <2>2. CASE d # c
    BY <1>1, <1>2, <1>5, <1>6, <2>2 DEF EvidenceInv, ClientInv, Live
  <2> QED
    BY <2>1, <2>2
<1>9. OwnAttempts'
  BY <1>1, <1>2, <1>6 DEF EvidenceInv, OwnAttempts, Live, a
<1> QED
  BY <1>7, <1>8, <1>9 DEF EvidenceInv

LEMMA SendSettleEvidence ==
  ASSUME TypeOK, EvidenceInv, NEW c \in Clients, SendSettle(c)
  PROVE  EvidenceInv'
<1> DEFINE a == call[c].id
<1>1. pc[c] = "answered" /\ Live(c) /\ UNCHANGED <<rows, spent, returned, call>>
  BY DEF SendSettle, Live
<1>2. /\ a \in AttemptIds
      /\ \A d \in Clients \ {c} : Live(d) => call[d].id \in AttemptIds \ {a}
  BY <1>1, OtherAttempt
<1>3. spent[a].times = 1 /\ spent[a].usage = call[c].usage /\ wire[a].kind # "unused"
  BY <1>1 DEF EvidenceInv, ClientInv
<1>4. /\ wire'[a].kind = "settle" /\ wire'[a].usage = call[c].usage
      /\ \A b \in AttemptIds \ {a} : wire'[b] = wire[b]
      /\ pc'[c] = "settling" /\ \A d \in Clients \ {c} : pc'[d] = pc[d]
  BY <1>2 DEF SendSettle, Send, TypeOK
<1> HIDE DEF a
<1>5. ASSUME NEW b \in AttemptIds PROVE AttemptInv(b)'
  BY <1>1, <1>2, <1>3, <1>4 DEF EvidenceInv, AttemptInv
<1>6. ASSUME NEW d \in Clients PROVE ClientInv(d)'
  <2>1. CASE d = c
    BY <1>1, <1>4, <2>1 DEF ClientInv, Live, a
  <2>2. CASE d # c
    BY <1>1, <1>2, <1>4, <2>2 DEF EvidenceInv, ClientInv, Live
  <2> QED
    BY <2>1, <2>2
<1>7. OwnAttempts'
  BY <1>1, <1>4 DEF EvidenceInv, OwnAttempts, Live
<1> QED
  BY <1>5, <1>6, <1>7 DEF EvidenceInv

LEMMA GetSettledEvidence ==
  ASSUME TypeOK, EvidenceInv, NEW c \in Clients, GetSettled(c)
  PROVE  EvidenceInv'
<1>1. call[c].id \in AttemptIds
  BY OtherAttempt DEF GetSettled, Live
<1>2. ~Live(c)' /\ \A d \in Clients \ {c} : pc'[d] = pc[d] /\ call'[d] = call[d]
  <2>1. CASE Leave(c)
    BY <2>1, LeaveFacts
  <2>2. CASE ~Leave(c)
    BY <2>2 DEF GetSettled, TypeOK, Live
  <2> QED
    BY <2>1, <2>2
<1>3. \A a \in returned' \ returned : rows[a].status = "settled"
  BY <1>1 DEF GetSettled, Acknowledged, EvidenceInv, AttemptInv
<1> QED
  BY <1>2, <1>3, RestEvidence DEF GetSettled

LEMMA EvidenceStep ==
  ASSUME TypeOK, EvidenceInv, [Next]_vars
  PROVE  EvidenceInv'
<1>1. ASSUME NEW a \in AttemptIds, Reserve(a) \/ Settle(a) \/ Lose(a) PROVE EvidenceInv'
  BY <1>1, ReserveEvidence, SettleEvidence, LoseEvidence
<1>2. ASSUME NEW c \in Clients, Start(c) PROVE EvidenceInv'
  <2>1. ~Live(c)' /\ \A d \in Clients \ {c} : pc'[d] = pc[d] /\ call'[d] = call[d]
    BY <1>2 DEF Start, TypeOK, Live
  <2> QED
    BY <1>2, <2>1, RestEvidence DEF Start
<1>3. ASSUME NEW c \in Clients,
             SendReserve(c) \/ GetGrant(c) \/ Dispatch(c) \/ SendSettle(c) \/ GetSettled(c)
      PROVE  EvidenceInv'
  BY <1>3, SendReserveEvidence, GetGrantEvidence, DispatchEvidence, SendSettleEvidence,
     GetSettledEvidence
<1>4. ASSUME NEW c \in Clients, Abandon(c) PROVE EvidenceInv'
  BY <1>4, LeaveFacts, RestEvidence DEF Abandon
<1>5. CASE UNCHANGED <<rows, wire, spent, returned, pc, call>>
  BY <1>5 DEF EvidenceInv, AttemptInv, ClientInv, OwnAttempts, Live
<1> QED
  BY <1>1, <1>2, <1>3, <1>4, <1>5 DEF Next, Close, vars

------------------------------------------------------------------------------
(***************************************************************************)
(* Theorems.                                                               *)
(***************************************************************************)
\* The totals, receipts, messages and calls keep their types; in particular no
\* sequence of reservations and settlements takes a total below zero.
THEOREM TypeCorrect == Spec => []TypeOK
<1>1. TypeOK /\ [Next]_vars => TypeOK'
  BY TypeStep
<1> QED
  BY TypeInit, <1>1, PTL DEF Spec

\* reserve and settle keep the charged totals within the registered limits, for any
\* number of processes, whatever is lost or abandoned.
THEOREM LimitsHold == Spec => []WithinLimits
<1>1. Init => WithinLimits
  BY Assumptions DEF Init, WithinLimits, Within, Zero, Amounts
<1>2. TypeOK /\ WithinLimits /\ [Next]_vars => WithinLimits'
  BY TypeStep DEF TotalsStep
<1> QED
  BY TypeCorrect, <1>1, <1>2, PTL DEF Spec

\* After seal or expiry the totals can only fall: reserve refuses, settle returns what
\* the worst case held in excess.
THEOREM ClosedFalls == Spec => ClosedOnlyFalls
<1>1. TypeOK /\ [Next]_vars => [closed => closed' /\ Within(charged', charged)]_vars
  BY TypeStep DEF TotalsStep
<1> QED
  BY TypeCorrect, <1>1, PTL DEF Spec, ClosedOnlyFalls

LEMMA EvidenceCorrect == Spec => []EvidenceInv
<1>1. TypeOK /\ EvidenceInv /\ [Next]_vars => EvidenceInv'
  BY EvidenceStep
<1> QED
  BY EvidenceInit, TypeCorrect, <1>1, PTL DEF Spec

\* The client dispatches each attempt at most once and only under its own receipt, and
\* what the provider did for it is covered by what the budget charges for it.
THEOREM SpendCharged == Spec => []SpendIsCharged
<1>1. TypeOK /\ EvidenceInv => SpendIsCharged
  <2> SUFFICES ASSUME TypeOK, EvidenceInv, NEW a \in AttemptIds
               PROVE  /\ spent[a].times <= 1
                      /\ spent[a].times = 1 =>
                            /\ rows[a].status # "absent"
                            /\ Within(Consumption(rows[a].op, spent[a].usage), Charge(a))
    BY DEF SpendIsCharged
  <2>1. AttemptInv(a) /\ rows[a] \in Receipts /\ rows[a].op \in Operations
    BY DEF EvidenceInv, TypeOK, Receipts
  <2>2. spent[a].times <= 1 /\ (spent[a].times = 1 => rows[a].status # "absent")
    BY <2>1 DEF AttemptInv
  <2>3. ASSUME spent[a].times = 1, rows[a].status = "reserved"
        PROVE  Within(Consumption(rows[a].op, spent[a].usage), Charge(a))
    BY <2>1, <2>3, QuoteCovers DEF AttemptInv, Charge
  <2>4. ASSUME spent[a].times = 1, rows[a].status = "settled"
        PROVE  Within(Consumption(rows[a].op, spent[a].usage), Charge(a))
    <3>1. Charge(a) = Consumption(rows[a].op, spent[a].usage)
      BY <2>1, <2>4 DEF AttemptInv, Charge
    <3>2. Charge(a) \in Amounts
      BY <2>1, <2>4, <3>1, UsagesTyped, ConsumptionTyped DEF AttemptInv
    <3> QED
      BY <3>1, <3>2 DEF Within, Amounts
  <2> QED
    BY <2>1, <2>2, <2>3, <2>4 DEF Receipts
<1> QED
  BY TypeCorrect, EvidenceCorrect, <1>1, PTL

\* The client hands an answer over only when the owner has its usage on record.
THEOREM ReturnedSettled == Spec => []ReturnedIsSettled
<1>1. TypeOK /\ EvidenceInv => ReturnedIsSettled
  BY DEF TypeOK, EvidenceInv, AttemptInv, ReturnedIsSettled
<1> QED
  BY TypeCorrect, EvidenceCorrect, <1>1, PTL

------------------------------------------------------------------------------
(***************************************************************************)
(* The attempts of one call: each is a retry or, once JSON mode has been   *)
(* given up, the fallback; an attempt that was answered is one more.       *)
(***************************************************************************)
Fallbacks(r) == IF r.json THEN 0 ELSE 1

Counted(label, r) ==
    /\ label \in {"answered", "settling"} =>
         /\ r.sent <= r.retries + Fallbacks(r) + 1
         /\ r.empty => r.json
    /\ label \notin {"answered", "settling"} => r.sent <= r.retries + Fallbacks(r)
    /\ label \in {"reserving", "granted"} => r.sent < r.allowance
    /\ r.sent <= r.allowance

CountInv == \A c \in Clients : Counted(pc[c], call[c])

LEMMA CountMove ==
  ASSUME TypeOK, CountInv, NEW c \in Clients, NEW label, NEW r, Counted(label, r),
         pc' = [pc EXCEPT ![c] = label], call' = [call EXCEPT ![c] = r]
  PROVE  CountInv'
<1>1. \A d \in Clients : pc'[d] = (IF d = c THEN label ELSE pc[d])
                       /\ call'[d] = (IF d = c THEN r ELSE call[d])
  BY DEF TypeOK
<1> QED
  BY <1>1 DEF CountInv

LEMMA CountLeave ==
  ASSUME TypeOK, CountInv, NEW c \in Clients, Leave(c)
  PROVE  CountInv'
<1>1. Counted("idle", NoCall)
  BY DEF Counted, NoCall, Fallbacks
<1> QED
  BY <1>1, CountMove DEF Leave

LEMMA CountSame ==
  ASSUME CountInv, UNCHANGED <<pc, call>>
  PROVE  CountInv'
  BY DEF CountInv

LEMMA CountStep ==
  ASSUME TypeOK, CountInv, [Next]_vars
  PROVE  CountInv'
<1>1. ASSUME NEW a \in AttemptIds, Reserve(a) \/ Settle(a) \/ Lose(a) PROVE CountInv'
  BY <1>1, CountSame DEF Reserve, Settle, Lose
<1>c. ASSUME NEW c \in Clients
      PROVE  /\ call[c] \in Calls /\ Counted(pc[c], call[c])
             /\ call = [call EXCEPT ![c] = call[c]]
  BY DEF TypeOK, CountInv
<1>2. ASSUME NEW c \in Clients, Start(c) PROVE CountInv'
  <2>1. PICK op \in Operations, allowance \in Allowances, json \in BOOLEAN :
           call' = [call EXCEPT ![c] =
                      [NoCall EXCEPT !.op = op, !.allowance = allowance, !.json = json]]
    BY <1>2 DEF Start
  <2>2. Counted("attempt", [NoCall EXCEPT !.op = op, !.allowance = allowance, !.json = json])
    BY Assumptions DEF Counted, NoCall, Fallbacks
  <2> QED
    BY <1>2, <2>1, <2>2, CountMove DEF Start
<1>3. ASSUME NEW c \in Clients, SendReserve(c) PROVE CountInv'
  <2>1. CASE Leave(c)
    BY <2>1, CountLeave
  <2>2. CASE ~Leave(c)
    <3>1. PICK a \in AttemptIds : call' = [call EXCEPT ![c] = [call[c] EXCEPT !.id = a]]
      BY <1>3, <2>2 DEF SendReserve
    <3>2. pc[c] = "attempt" /\ Affordable(c) /\ pc' = [pc EXCEPT ![c] = "reserving"]
      BY <1>3, <2>2 DEF SendReserve
    <3>3. Counted("reserving", [call[c] EXCEPT !.id = a])
      BY <1>c, <3>2 DEF Counted, Fallbacks, Affordable, Calls
    <3> QED
      BY <3>1, <3>2, <3>3, CountMove
  <2> QED
    BY <2>1, <2>2
<1>4. ASSUME NEW c \in Clients, GetGrant(c) PROVE CountInv'
  <2>1. CASE Leave(c)
    BY <2>1, CountLeave
  <2>2. CASE ~Leave(c)
    <3>1. pc[c] = "reserving" /\ pc' = [pc EXCEPT ![c] = "granted"] /\ call' = call
      BY <1>4, <2>2 DEF GetGrant
    <3>2. Counted("granted", call[c])
      BY <1>c, <3>1 DEF Counted
    <3> QED
      BY <1>c, <3>1, <3>2, CountMove
  <2> QED
    BY <2>1, <2>2
<1>5. ASSUME NEW c \in Clients, Dispatch(c) PROVE CountInv'
  <2>1. PICK usage \in Usages(call[c].op) :
           \/ /\ \E empty \in {FALSE, call[c].json} :
                   call' = [call EXCEPT ![c] = Answered(c, usage, empty)]
              /\ pc' = [pc EXCEPT ![c] = "answered"]
           \/ /\ call[c].retries < MaxRetries
              /\ call' = [call EXCEPT ![c] = Retrying(c)]
              /\ pc' = [pc EXCEPT ![c] = "attempt"]
           \/ Leave(c)
    BY <1>5 DEF Dispatch
  <2>2. pc[c] = "granted"
    BY <1>5 DEF Dispatch
  <2>3. call[c].sent \in Nat /\ call[c].retries \in Nat /\ call[c].allowance \in Nat
    BY <1>c, Assumptions DEF Calls
  <2>4. /\ call[c].sent <= call[c].retries + Fallbacks(call[c])
        /\ call[c].sent < call[c].allowance
    BY <1>c, <2>2 DEF Counted
  <2>5. Counted("attempt", Retrying(c))
    <3>1. /\ Retrying(c).sent = call[c].sent + 1 /\ Retrying(c).retries = call[c].retries + 1
          /\ Retrying(c).allowance = call[c].allowance /\ Retrying(c).json = call[c].json
      BY <1>c DEF Retrying, Calls
    <3> QED
      BY <2>3, <2>4, <3>1 DEF Counted, Fallbacks
  <2>6. ASSUME NEW empty \in {FALSE, call[c].json}
        PROVE  Counted("answered", Answered(c, usage, empty))
    <3> DEFINE r == Answered(c, usage, empty)
    <3>1. /\ r.sent = call[c].sent + 1 /\ r.retries = call[c].retries
          /\ r.allowance = call[c].allowance /\ r.json = call[c].json /\ r.empty = empty
      BY <1>c DEF Answered, Calls
    <3>2. r.empty => r.json
      BY <3>1, Zenon
    <3>3. r.sent <= r.retries + Fallbacks(r) + 1 /\ r.sent <= r.allowance
      BY <2>3, <2>4, <3>1 DEF Fallbacks
    <3>4. HIDE DEF r
    <3>5. Counted("answered", r)
      BY <3>2, <3>3 DEF Counted
    <3> QED
      BY <3>5 DEF r
  <2> QED
    BY <2>1, <2>5, <2>6, CountLeave, CountMove
<1>6. ASSUME NEW c \in Clients, SendSettle(c) PROVE CountInv'
  <2>1. pc[c] = "answered" /\ pc' = [pc EXCEPT ![c] = "settling"] /\ call' = call
    BY <1>6 DEF SendSettle
  <2>2. Counted("settling", call[c])
    BY <1>c, <2>1 DEF Counted
  <2> QED
    BY <1>c, <2>1, <2>2, CountMove
<1>7. ASSUME NEW c \in Clients, GetSettled(c) PROVE CountInv'
  <2>1. CASE Leave(c)
    BY <2>1, CountLeave
  <2>2. CASE ~Leave(c)
    <3> DEFINE r == [call[c] EXCEPT !.json = FALSE, !.empty = FALSE, !.usage = Nothing]
    <3>1. /\ pc[c] = "settling" /\ call[c].empty /\ call' = [call EXCEPT ![c] = r]
          /\ pc' = [pc EXCEPT ![c] = "attempt"]
      BY <1>7, <2>2 DEF GetSettled
    <3>2. call[c].json
      BY <1>c, <3>1 DEF Counted
    <3>3. call[c].sent <= call[c].retries + 1 /\ call[c].sent <= call[c].allowance
      BY <1>c, <3>1, <3>2 DEF Counted, Fallbacks, Calls
    <3>4. Counted("attempt", r)
      BY <1>c, <3>3 DEF Counted, Fallbacks, Calls
    <3> HIDE DEF r
    <3> QED
      BY <3>1, <3>4, CountMove
  <2> QED
    BY <2>1, <2>2
<1>8. ASSUME NEW c \in Clients, Abandon(c) PROVE CountInv'
  BY <1>8, CountLeave DEF Abandon
<1>9. CASE Close \/ UNCHANGED vars
  BY <1>9, CountSame DEF Close, vars
<1> QED
  BY <1>1, <1>2, <1>3, <1>4, <1>5, <1>6, <1>7, <1>8, <1>9 DEF Next

\* The loop of chat_with_deadline ends: a call makes one attempt, its retries and at
\* most one fallback, in whatever order, and no more than the request allows.
THEOREM CallsAreBounded == Spec => []AttemptsBounded
<1>1. Init => CountInv
  BY DEF Init, CountInv, Counted, NoCall, Fallbacks
<1>2. TypeOK /\ CountInv => AttemptsBounded
  <2> SUFFICES ASSUME TypeOK, CountInv, NEW c \in Clients
               PROVE  call[c].sent <= MaxRetries + 2 /\ call[c].sent <= call[c].allowance
    BY DEF AttemptsBounded
  <2>1. call[c] \in Calls /\ Counted(pc[c], call[c])
    BY DEF TypeOK, CountInv
  <2> QED
    BY <2>1, Assumptions DEF Calls, Counted, Fallbacks
<1>3. TypeOK /\ CountInv /\ [Next]_vars => CountInv'
  BY CountStep
<1> QED
  BY TypeCorrect, <1>1, <1>2, <1>3, PTL DEF Spec

------------------------------------------------------------------------------
(***************************************************************************)
(* Sums over the attempts.  A set of finite sets has a smallest member, so *)
(* a least counterexample refutes itself: the recursion of the fold has a  *)
(* solution, and the sum moves with what any one attempt is charged.       *)
(***************************************************************************)
\* FoldSet adds up the charges in an order it chooses.
Pick(s) == CHOOSE a \in s : TRUE
Entry(f, g, s) == IF s = {} THEN Zero ELSE Plus(f[Pick(s)], g[s \ {Pick(s)}])
\* g is the sum of f over every set of attempts of U.
Sums(f, g, U) == \A s \in SUBSET U : g[s] = Entry(f, g, s)

\* A set of sets of attempts that is not empty has a smallest member.
LEMMA SmallestSet ==
  ASSUME NEW T \in SUBSET (SUBSET AttemptIds), T # {}
  PROVE  \E U \in T : \A V \in T : ~(V \subseteq U /\ V # U)
<1>1. IsWellFoundedOn(StrictSubsetOrdering(AttemptIds), SUBSET AttemptIds)
  <2>1. IsFiniteSet(AttemptIds)
    BY Assumptions
  <2>2. FiniteSubsetsOf(AttemptIds) = SUBSET AttemptIds
    BY <2>1, FS_FiniteSubsetsOfFinite, Zenon
  <2>3. IsWellFoundedOn(StrictSubsetOrdering(AttemptIds), FiniteSubsetsOf(AttemptIds))
    BY FS_StrictSubsetOrderingWellFounded, Zenon
  <2> QED
    BY <2>2, <2>3, Zenon
<1>2. PICK U \in T : \A V \in T : ~(<<V, U>> \in StrictSubsetOrdering(AttemptIds))
  BY <1>1, WFMin, Zenon
<1>3. ASSUME NEW V \in T, V \subseteq U, V # U PROVE FALSE
  <2>1. <<V, U>> \in StrictSubsetOrdering(AttemptIds)
    BY <1>3 DEF StrictSubsetOrdering
  <2> QED
    BY <1>2, <2>1
<1> QED
  BY <1>3

LEMMA Picked == \A s : s # {} => Pick(s) \in s
  BY DEF Pick

LEMMA SumsAgree ==
  ASSUME NEW f, NEW U \in SUBSET AttemptIds, NEW V \in SUBSET AttemptIds, NEW g, NEW h,
         Sums(f, g, U), Sums(f, h, V), NEW W \in (SUBSET U) \cap (SUBSET V)
  PROVE  g[W] = h[W]
<1> DEFINE T == {S \in SUBSET AttemptIds : S \subseteq U /\ S \subseteq V /\ g[S] # h[S]}
<1> SUFFICES ASSUME T # {} PROVE FALSE
  OBVIOUS
<1>0. T \in SUBSET (SUBSET AttemptIds)
  OBVIOUS
<1>1. PICK S \in T : \A R \in T : ~(R \subseteq S /\ R # S)
  <2> HIDE DEF T
  <2> QED
    BY <1>0, SmallestSet
<1> DEFINE R == S \ {Pick(S)}
<1>2. S \subseteq U /\ S \subseteq V /\ g[S] # h[S] /\ S \in SUBSET AttemptIds
  BY <1>1
<1>3. g[S] = Entry(f, g, S) /\ h[S] = Entry(f, h, S)
  BY <1>2 DEF Sums
<1>4. S # {} /\ g[R] # h[R]
  BY <1>2, <1>3 DEF Entry
<1>5. R \subseteq S /\ R # S /\ R \subseteq U /\ R \subseteq V
  BY <1>2, <1>4, Picked
<1>6. R \in T
  BY <1>2, <1>4, <1>5
<1> QED
  BY <1>1, <1>5, <1>6

SumOver(f, U) == (CHOOSE g : Sums(f, g, U))[U]

LEMMA SumsExist ==
  ASSUME NEW f, NEW U \in SUBSET AttemptIds
  PROVE  \E g : Sums(f, g, U)
<1> DEFINE T == {S \in SUBSET AttemptIds : ~\E g : Sums(f, g, S)}
<1> SUFFICES ASSUME T # {} PROVE FALSE
  OBVIOUS
<1>0. T \in SUBSET (SUBSET AttemptIds)
  OBVIOUS
<1>1. PICK S \in T : \A R \in T : ~(R \subseteq S /\ R # S)
  <2> HIDE DEF T
  <2> QED
    BY <1>0, SmallestSet
<1> DEFINE part(R) == CHOOSE g : Sums(f, g, R)
<1>2. ASSUME NEW R \in SUBSET S, R # S PROVE Sums(f, part(R), R)
  <2>1. R \notin T /\ R \in SUBSET AttemptIds
    BY <1>1, <1>2
  <2> QED
    BY <2>1
<1> DEFINE G == [s \in SUBSET S |->
                   IF s = {} THEN Zero ELSE Plus(f[Pick(s)], part(s \ {Pick(s)})[s \ {Pick(s)}])]
<1>3. ASSUME NEW R \in SUBSET S, R # S PROVE G[R] = part(R)[R]
  <2> DEFINE Q == R \ {Pick(R)}
  <2>1. part(R)[R] = Entry(f, part(R), R)
    BY <1>2, <1>3 DEF Sums
  <2>2. CASE R = {}
    BY <2>1, <2>2 DEF Entry
  <2>3. CASE R # {}
    <3>1. Q \in SUBSET R /\ Q # S /\ Q \in SUBSET S
      BY <2>3, Picked
    <3>2. Sums(f, part(Q), Q) /\ Sums(f, part(R), R)
      BY <1>2, <1>3, <3>1
    <3> HIDE DEF part
    <3>4. Q \in SUBSET AttemptIds /\ R \in SUBSET AttemptIds /\ Q \in (SUBSET Q) \cap (SUBSET R)
      BY <1>1, <3>1
    <3>3. part(Q)[Q] = part(R)[Q]
      BY <3>2, <3>4, SumsAgree
    <3>5. G[R] = Plus(f[Pick(R)], part(Q)[Q])
      BY <2>3
    <3> QED
      BY <2>1, <2>3, <3>3, <3>5 DEF Entry
  <2> QED
    BY <2>2, <2>3
<1>4. ASSUME NEW s \in SUBSET S PROVE G[s] = Entry(f, G, s)
  <2>1. CASE s = {}
    BY <2>1 DEF Entry
  <2>2. CASE s # {}
    <3> DEFINE R == s \ {Pick(s)}
    <3>1. R \in SUBSET S /\ R # S
      BY <2>2, Picked
    <3>2. G[R] = part(R)[R]
      BY <1>3, <3>1
    <3>3. G[s] = Plus(f[Pick(s)], part(R)[R])
      BY <2>2
    <3> HIDE DEF G, part
    <3> QED
      BY <2>2, <3>2, <3>3 DEF Entry
  <2> QED
    BY <2>1, <2>2
<1> HIDE DEF G
<1> QED
  BY <1>1, <1>4 DEF Sums

\* One attempt after another, in that order.
LEMMA SumOne ==
  ASSUME NEW f, NEW U \in SUBSET AttemptIds
  PROVE  SumOver(f, U) = IF U = {} THEN Zero
                         ELSE Plus(f[Pick(U)], SumOver(f, U \ {Pick(U)}))
<1> DEFINE part(R) == CHOOSE g : Sums(f, g, R)
           R == U \ {Pick(U)}
<1>1. Sums(f, part(U), U) /\ Sums(f, part(R), R)
  BY SumsExist
<1>2. SumOver(f, U) = part(U)[U] /\ SumOver(f, R) = part(R)[R]
  BY DEF SumOver
<1> HIDE DEF part
<1>3. part(R)[R] = part(U)[R]
  BY <1>1, SumsAgree
<1>4. part(U)[U] = Entry(f, part(U), U)
  BY <1>1 DEF Sums
<1> QED
  BY <1>2, <1>3, <1>4 DEF Entry

\* The fold of the charges is the sum of the function of charges.
Charges == [a \in AttemptIds |-> Charge(a)]

LEMMA FoldIsSum ==
  FoldSet(LAMBDA a, sum : Plus(Charge(a), sum), Zero, AttemptIds) = SumOver(Charges, AttemptIds)
<1> DEFINE Item(g, s) == IF s = {} THEN Zero ELSE Plus(Charge(Pick(s)), g[s \ {Pick(s)}])
           fold == CHOOSE g : g = [s \in SUBSET AttemptIds |-> Item(g, s)]
           part == CHOOSE g : Sums(Charges, g, AttemptIds)
<1>1. FoldSet(LAMBDA a, sum : Plus(Charge(a), sum), Zero, AttemptIds) = fold[AttemptIds]
  BY DEF FoldSet, MapThenFoldSet, Pick
<1>2. ASSUME NEW g, NEW s \in SUBSET AttemptIds PROVE Item(g, s) = Entry(Charges, g, s)
  BY Picked DEF Entry, Charges
<1>3. Sums(Charges, part, AttemptIds) /\ SumOver(Charges, AttemptIds) = part[AttemptIds]
  BY SumsExist DEF SumOver
<1> HIDE DEF part
<1>4. fold = [s \in SUBSET AttemptIds |-> Item(fold, s)]
  <2> DEFINE k == [s \in SUBSET AttemptIds |-> part[s]]
  <2>1. ASSUME NEW s \in SUBSET AttemptIds PROVE k[s] = Item(k, s)
    <3>1. part[s] = Entry(Charges, part, s)
      BY <1>3 DEF Sums
    <3>2. Entry(Charges, part, s) = Entry(Charges, k, s)
      BY DEF Entry
    <3> QED
      BY <1>2, <3>1, <3>2
  <2>2. k = [s \in SUBSET AttemptIds |-> Item(k, s)]
    <3> HIDE DEF Item
    <3> QED
      BY <2>1
  <2> HIDE DEF k, Item
  <2> QED
    BY <2>2
<1> HIDE DEF fold, Item
<1>5. Sums(Charges, fold, AttemptIds)
  BY <1>2, <1>4 DEF Sums
<1>6. fold[AttemptIds] = part[AttemptIds]
  BY <1>3, <1>5, SumsAgree
<1> QED
  BY <1>1, <1>3, <1>6

LEMMA PlusTyped == \A a, b \in Amounts : Plus(a, b) \in Amounts
  BY DEF Plus, Amounts

LEMMA SumTyped ==
  ASSUME NEW f \in [AttemptIds -> Amounts], NEW U \in SUBSET AttemptIds
  PROVE  SumOver(f, U) \in Amounts
<1> DEFINE T == {S \in SUBSET AttemptIds : SumOver(f, S) \notin Amounts}
<1> SUFFICES ASSUME T # {} PROVE FALSE
  OBVIOUS
<1>0. T \in SUBSET (SUBSET AttemptIds)
  OBVIOUS
<1>1. PICK S \in T : \A R \in T : ~(R \subseteq S /\ R # S)
  <2> HIDE DEF T
  <2> QED
    BY <1>0, SmallestSet
<1> DEFINE R == S \ {Pick(S)}
<1>2. S \in SUBSET AttemptIds /\ SumOver(f, S) \notin Amounts
  OBVIOUS
<1>3. CASE S = {}
  BY <1>2, <1>3, SumOne DEF Zero, Amounts
<1>4. CASE S # {}
  <2>1. R \subseteq S /\ R # S /\ Pick(S) \in AttemptIds
    BY <1>2, <1>4, Picked
  <2>2. SumOver(f, R) \in Amounts
    BY <1>1, <1>2, <2>1
  <2>3. SumOver(f, S) = Plus(f[Pick(S)], SumOver(f, R))
    BY <1>2, <1>4, SumOne
  <2> QED
    BY <1>2, <2>1, <2>2, <2>3, PlusTyped
<1> QED
  BY <1>3, <1>4

\* The two sums differ by what one attempt is charged.
Moved(x, y, old, new) ==
    /\ y.attempts + old.attempts = x.attempts + new.attempts
    /\ y.tokens + old.tokens = x.tokens + new.tokens
    /\ y.cost + old.cost = x.cost + new.cost

LEMMA MovedPlus ==
  ASSUME NEW x \in Amounts, NEW y \in Amounts, NEW old \in Amounts, NEW new \in Amounts,
         NEW e \in Amounts
  PROVE  /\ Moved(x, y, old, new) => Moved(Plus(e, x), Plus(e, y), old, new)
         /\ Moved(Plus(old, x), Plus(new, x), old, new)
  BY DEF Moved, Plus, Amounts

LEMMA SumMoves ==
  ASSUME NEW f \in [AttemptIds -> Amounts], NEW h \in [AttemptIds -> Amounts], NEW a \in AttemptIds,
         \A b \in AttemptIds \ {a} : h[b] = f[b]
  PROVE  Moved(SumOver(f, AttemptIds), SumOver(h, AttemptIds), f[a], h[a])
<1> DEFINE Good(U) == IF a \in U THEN Moved(SumOver(f, U), SumOver(h, U), f[a], h[a])
                      ELSE SumOver(h, U) = SumOver(f, U)
           T == {S \in SUBSET AttemptIds : ~Good(S)}
<1> SUFFICES ASSUME T # {} PROVE FALSE
  OBVIOUS
<1>0. T \in SUBSET (SUBSET AttemptIds)
  OBVIOUS
<1>1. PICK S \in T : \A R \in T : ~(R \subseteq S /\ R # S)
  <2> HIDE DEF T
  <2> QED
    BY <1>0, SmallestSet
<1> DEFINE x == Pick(S)
           R == S \ {x}
<1>2. S \in SUBSET AttemptIds /\ ~Good(S)
  OBVIOUS
<1>3. S # {}
  <2> SUFFICES ASSUME S = {} PROVE FALSE
    OBVIOUS
  <2> QED
    BY <1>2, SumOne
<1>4. R \in SUBSET AttemptIds /\ R \subseteq S /\ R # S /\ x \in S /\ x \in AttemptIds /\ x \notin R
  BY <1>2, <1>3, Picked
<1>5. Good(R)
  BY <1>1, <1>4
<1>6. /\ SumOver(f, S) = Plus(f[x], SumOver(f, R))
      /\ SumOver(h, S) = Plus(h[x], SumOver(h, R))
  BY <1>2, <1>3, SumOne
<1>7. /\ SumOver(f, R) \in Amounts /\ SumOver(h, R) \in Amounts
      /\ f[x] \in Amounts /\ h[x] \in Amounts /\ f[a] \in Amounts /\ h[a] \in Amounts
  BY <1>4, SumTyped
<1>8. CASE x = a
  <2>1. SumOver(h, R) = SumOver(f, R) /\ a \in S
    BY <1>4, <1>5, <1>8
  <2>2. Moved(SumOver(f, S), SumOver(h, S), f[a], h[a])
    BY <1>6, <1>7, <1>8, <2>1, MovedPlus
  <2> QED
    BY <1>2, <2>1, <2>2
<1>9. CASE x # a
  <2>1. h[x] = f[x] /\ (a \in R <=> a \in S)
    BY <1>4, <1>9
  <2>2. CASE a \in R
    <3>1. Moved(SumOver(f, R), SumOver(h, R), f[a], h[a])
      BY <1>5, <2>2
    <3>2. Moved(SumOver(f, S), SumOver(h, S), f[a], h[a])
      BY <1>6, <1>7, <2>1, <3>1, MovedPlus
    <3> QED
      BY <1>2, <2>1, <2>2, <3>2
  <2>3. CASE a \notin R
    <3>1. SumOver(h, S) = SumOver(f, S)
      BY <1>5, <1>6, <2>1, <2>3
    <3> QED
      BY <1>2, <2>1, <2>3, <3>1
  <2> QED
    BY <2>2, <2>3
<1> QED
  BY <1>8, <1>9

LEMMA SumOfNothing ==
  ASSUME NEW f, \A a \in AttemptIds : f[a] = Zero
  PROVE  SumOver(f, AttemptIds) = Zero
<1> DEFINE T == {S \in SUBSET AttemptIds : SumOver(f, S) # Zero}
<1> SUFFICES ASSUME T # {} PROVE FALSE
  OBVIOUS
<1>0. T \in SUBSET (SUBSET AttemptIds)
  OBVIOUS
<1>1. PICK S \in T : \A R \in T : ~(R \subseteq S /\ R # S)
  <2> HIDE DEF T
  <2> QED
    BY <1>0, SmallestSet
<1> DEFINE R == S \ {Pick(S)}
<1>2. S \in SUBSET AttemptIds /\ SumOver(f, S) # Zero
  OBVIOUS
<1>3. S # {} /\ SumOver(f, S) = Plus(f[Pick(S)], SumOver(f, R))
  BY <1>2, SumOne
<1>4. R \subseteq S /\ R # S /\ Pick(S) \in AttemptIds
  BY <1>2, <1>3, Picked
<1>5. SumOver(f, R) = Zero /\ f[Pick(S)] = Zero
  BY <1>1, <1>2, <1>4
<1>6. Plus(Zero, Zero) = Zero
  BY DEF Plus, Zero
<1> QED
  BY <1>2, <1>3, <1>5, <1>6

------------------------------------------------------------------------------
(***************************************************************************)
(* The ledger: what the totals and the ordinals say of the receipts.       *)
(***************************************************************************)
Issued == {a \in AttemptIds : rows[a].status # "absent"}

\* The totals are the sum of the charges, and the ordinals number the receipts.
LedgerInv ==
    /\ charged = SumOver(Charges, AttemptIds)
    /\ {rows[a].ordinal : a \in Issued} = 1 .. charged.attempts

LEMMA LedgerIsExact == LedgerInv => ChargedExactly
  BY FoldIsSum DEF LedgerInv, ChargedExactly, Issued

LEMMA LedgerInit == Init => LedgerInv
<1> SUFFICES ASSUME Init PROVE LedgerInv
  OBVIOUS
<1>1. \A a \in AttemptIds : rows[a].status = "absent"
  BY DEF Init, NoReceipt
<1>2. SumOver(Charges, AttemptIds) = Zero
  <2>1. \A a \in AttemptIds : Charges[a] = Zero
    BY <1>1 DEF Charges, Charge
  <2> HIDE DEF Charges
  <2> QED
    BY <2>1, SumOfNothing
<1>3. {rows[a].ordinal : a \in Issued} = 1 .. 0
  BY <1>1 DEF Issued
<1> QED
  BY <1>2, <1>3 DEF Init, LedgerInv, Zero

LEMMA ChargesTyped == TypeOK => Charges \in [AttemptIds -> Amounts]
<1> SUFFICES ASSUME TypeOK, NEW a \in AttemptIds PROVE Charge(a) \in Amounts
  BY DEF Charges
<1>1. rows[a].op \in Operations /\ rows[a].usage \in Usage
  BY DEF TypeOK, Receipts
<1> QED
  BY <1>1, Defaults, QuoteTyped, ConsumptionTyped DEF Charge

LEMMA ChargesTypedPrime == TypeOK' => Charges' \in [AttemptIds -> Amounts]
<1> SUFFICES ASSUME TypeOK', NEW a \in AttemptIds PROVE Charge(a)' \in Amounts
  BY DEF Charges
<1>1. rows'[a].op \in Operations /\ rows'[a].usage \in Usage
  BY DEF TypeOK, Receipts
<1> QED
  BY <1>1, Defaults, QuoteTyped, ConsumptionTyped DEF Charge

\* The sum follows one receipt.
LEMMA ChargedMoves ==
  ASSUME TypeOK, TypeOK', NEW a \in AttemptIds, \A b \in AttemptIds \ {a} : rows'[b] = rows[b]
  PROVE  Moved(SumOver(Charges, AttemptIds), SumOver(Charges', AttemptIds), Charge(a), Charge(a)')
<1>1. Charges \in [AttemptIds -> Amounts] /\ Charges' \in [AttemptIds -> Amounts]
  BY ChargesTyped, ChargesTypedPrime
<1>2. \A b \in AttemptIds \ {a} : Charges'[b] = Charges[b]
  BY DEF Charges, Charge
<1>3. Charges[a] = Charge(a) /\ Charges'[a] = Charge(a)'
  BY DEF Charges
<1> HIDE DEF Charges
<1> QED
  BY <1>1, <1>2, <1>3, SumMoves

LEMMA SameReceipts ==
  ASSUME LedgerInv, UNCHANGED <<charged, rows>>
  PROVE  LedgerInv'
<1>1. Charges' = Charges
  BY DEF Charges, Charge
<1>2. SumOver(Charges', AttemptIds) = SumOver(Charges, AttemptIds)
  BY <1>1
<1> QED
  BY <1>2 DEF LedgerInv, Issued

LEMMA ReserveLedger ==
  ASSUME TypeOK, TypeOK', LedgerInv, NEW a \in AttemptIds, Reserve(a)
  PROVE  LedgerInv'
<1>1. CASE UNCHANGED <<rows, charged>>
  BY <1>1, SameReceipts
<1>2. CASE ~UNCHANGED <<rows, charged>>
  <2> DEFINE op == wire[a].op
             total == Plus(charged, Quote(op))
             receipt == [status |-> "reserved", op |-> op, ordinal |-> total.attempts,
                         usage |-> Nothing]
  <2>1. /\ rows[a].status = "absent" /\ charged' = total
        /\ rows' = [rows EXCEPT ![a] = receipt]
        /\ op \in Operations /\ rows \in [AttemptIds -> Receipts]
        /\ charged \in Amounts /\ Quote(op) \in Amounts /\ Quote(op).attempts = 1
    <3>1. op \in Operations /\ rows \in [AttemptIds -> Receipts] /\ charged \in Amounts
      BY DEF TypeOK, Messages
    <3> QED
      BY <1>2, <3>1, QuoteTyped DEF Reserve, Grantable
  <2>2. /\ receipt.status = "reserved" /\ receipt.op = op /\ receipt.ordinal = charged.attempts + 1
        /\ total.attempts = charged.attempts + 1
    BY <2>1 DEF Plus
  <2> HIDE DEF receipt, total
  <2>3. /\ rows'[a] = receipt /\ \A b \in AttemptIds \ {a} : rows'[b] = rows[b]
    BY <2>1
  <2>4. Charge(a) = Zero /\ Charge(a)' = Quote(op)
    BY <2>1, <2>2, <2>3 DEF Charge
  <2>5. charged' = SumOver(Charges', AttemptIds)
    <3>1. Moved(charged, SumOver(Charges', AttemptIds), Zero, Quote(op))
      BY <2>3, <2>4, ChargedMoves DEF LedgerInv
    <3>2. SumOver(Charges', AttemptIds) \in Amounts
      BY ChargesTypedPrime, SumTyped
    <3> QED
      BY <2>1, <3>1, <3>2 DEF Moved, Zero, Plus, Amounts, total
  <2>6. {rows'[b].ordinal : b \in Issued'} = 1 .. charged'.attempts
    <3>1. Issued' = Issued \cup {a}
      BY <2>2, <2>3 DEF Issued
    <3>2. \A b \in Issued : rows'[b] = rows[b]
      BY <2>1, <2>3 DEF Issued
    <3>3. {rows'[b].ordinal : b \in Issued'} = {rows[b].ordinal : b \in Issued} \cup {receipt.ordinal}
      BY <2>3, <3>1, <3>2
    <3>4. (1 .. charged.attempts) \cup {charged.attempts + 1} = 1 .. charged.attempts + 1
      BY <2>1 DEF Amounts
    <3> QED
      BY <2>1, <2>2, <3>3, <3>4 DEF LedgerInv
  <2> QED
    BY <2>5, <2>6 DEF LedgerInv
<1> QED
  BY <1>1, <1>2

LEMMA SettleLedger ==
  ASSUME TypeOK, TypeOK', LedgerInv, NEW a \in AttemptIds, Settle(a)
  PROVE  LedgerInv'
<1>1. CASE ~Settleable(a)
  BY <1>1, SameReceipts DEF Settle
<1>2. CASE Settleable(a)
  <2> DEFINE op == rows[a].op
             q == Quote(op)
             u == Consumption(op, wire[a].usage)
             receipt == [rows[a] EXCEPT !.status = "settled", !.usage = wire[a].usage]
  <2>1. /\ rows[a].status = "reserved" /\ wire[a].usage \in Usages(op)
        /\ charged' = Plus(Minus(charged, q), u)
        /\ rows' = [rows EXCEPT ![a] = receipt]
    BY <1>2 DEF Settle, Settleable, SettledTotal
  <2>2. /\ op \in Operations /\ rows \in [AttemptIds -> Receipts] /\ rows[a] \in Receipts
        /\ charged \in Amounts
    BY DEF TypeOK, Receipts
  <2>3. q \in Amounts /\ u \in Amounts /\ q.attempts = 1 /\ u.attempts = 1
    <3>1. wire[a].usage \in Usage
      BY <2>1, <2>2, UsagesTyped
    <3> QED
      BY <2>2, <3>1, QuoteTyped, ConsumptionTyped DEF Consumption
  <2>4. /\ receipt.status = "settled" /\ receipt.op = op /\ receipt.usage = wire[a].usage
        /\ receipt.ordinal = rows[a].ordinal
    BY <2>2 DEF Receipts
  <2> HIDE DEF receipt
  <2>5. rows'[a] = receipt /\ \A b \in AttemptIds \ {a} : rows'[b] = rows[b]
    BY <2>1, <2>2
  <2>6. Charge(a) = q /\ Charge(a)' = u
    BY <2>1, <2>4, <2>5 DEF Charge
  <2> HIDE DEF q, u
  <2>7. charged' = SumOver(Charges', AttemptIds)
    <3>1. Moved(charged, SumOver(Charges', AttemptIds), q, u)
      BY <2>5, <2>6, ChargedMoves DEF LedgerInv
    <3>2. SumOver(Charges', AttemptIds) \in Amounts
      BY ChargesTypedPrime, SumTyped
    <3> QED
      BY <2>1, <2>2, <2>3, <3>1, <3>2 DEF Moved, Plus, Minus, Amounts
  <2>8. charged'.attempts = charged.attempts
    BY <2>1, <2>2, <2>3 DEF Plus, Minus, Amounts
  <2>9. {rows'[b].ordinal : b \in Issued'} = {rows[b].ordinal : b \in Issued}
    <3>1. Issued' = Issued
      BY <2>1, <2>4, <2>5 DEF Issued
    <3>2. \A b \in AttemptIds : rows'[b].ordinal = rows[b].ordinal
      BY <2>4, <2>5
    <3> QED
      BY <3>1, <3>2 DEF Issued
  <2> QED
    BY <2>7, <2>8, <2>9 DEF LedgerInv
<1> QED
  BY <1>1, <1>2

LEMMA LedgerStep == TypeOK /\ LedgerInv /\ [Next]_vars => LedgerInv'
<1> SUFFICES ASSUME TypeOK, LedgerInv, [Next]_vars PROVE LedgerInv'
  OBVIOUS
<1>0. TypeOK'
  BY TypeStep
<1>1. ASSUME NEW a \in AttemptIds, Reserve(a) \/ Settle(a) PROVE LedgerInv'
  BY <1>0, <1>1, ReserveLedger, SettleLedger
<1>2. CASE UNCHANGED <<charged, rows>>
  BY <1>2, SameReceipts
<1> QED
  BY <1>1, <1>2 DEF Next, Lose, Start, SendReserve, GetGrant, Dispatch, SendSettle, GetSettled,
     Abandon, Close, vars

(* The totals are exactly what the receipts say, and the ordinals number   *)
(* them without gaps, whatever was lost, late or abandoned: reserve and    *)
(* settle write the totals and the receipt in one transaction.             *)
THEOREM TotalsAreExact == Spec => []ChargedExactly
<1>1. Spec => []LedgerInv
  BY LedgerInit, LedgerStep, TypeCorrect, PTL DEF Spec
<1> QED
  BY <1>1, LedgerIsExact, PTL
==============================================================================
