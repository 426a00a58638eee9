-------------------------- MODULE RateLimiterProofs --------------------------
(***************************************************************************)
(* What RateLimiter guarantees for any number of addresses and of requests *)
(* in flight, and any burst.                                               *)
(***************************************************************************)
EXTENDS RateLimiter, Integers, TLAPS

\* What the operands of the steps are.
LEMMA Operands ==
    /\ Full \in Nat /\ Token \in Nat /\ Token > 0
    /\ Idle \in Request /\ Idle.pc = "idle" /\ Idle.addr = None
<1>1. Full \in Nat
  BY RateAssumption DEF Full
<1>2. Idle \in Request /\ Idle.pc = "idle" /\ Idle.addr = None
  BY DEF Idle, Request
<1>. QED BY RateAssumption, <1>1, <1>2

\* What a reply leaves of the requests in flight.
LEMMA Replied ==
    ASSUME TypeOK, NEW r \in Req, Reply(r)
    PROVE  /\ req' \in [Req -> Request]
           /\ req'[r] = Idle
           /\ \A q \in Req : q # r => req'[q] = req[q]
BY Operands DEF Reply, TypeOK

LEMMA InitTypeOK == Init => TypeOK
<1>. SUFFICES ASSUME Init PROVE TypeOK
  OBVIOUS
<1>. QED BY Operands DEF Init, TypeOK

LEMMA StepTypeOK == TypeOK /\ [Next]_vars => TypeOK'
<1>. SUFFICES ASSUME TypeOK, [Next]_vars PROVE TypeOK'
  OBVIOUS
<1>. USE Operands
<1>1. ASSUME NEW r \in Req, NEW a \in Addr, Lookup(r, a) PROVE TypeOK'
  <2>. DEFINE q == [pc |-> IF a \in clients THEN "allow" ELSE "insert", addr |-> a]
  <2>1. q \in Request /\ q.addr = a /\ (q.pc = "allow" => a \in clients)
    BY DEF Request
  <2>2. req' = [req EXCEPT ![r] = q] /\ UNCHANGED <<clients, tokens, admitted, now>>
    BY <1>1 DEF Lookup
  <2>. HIDE DEF q
  <2>. QED BY <2>1, <2>2 DEF TypeOK
<1>2. ASSUME NEW r \in Req, Allow(r) PROVE TypeOK'
  <2>. PICK a \in Addr : a = req[r].addr
    BY <1>2 DEF Allow, TypeOK
  <2>1. UNCHANGED <<clients, now>> /\ Reply(r)
    BY <1>2 DEF Allow
  <2>2. tokens' \in [Addr -> 0..Full] /\ admitted' \in [Addr -> Nat]
    <3>1. CASE /\ SpareToken(tokens[a]) /\ Admit(a)
               /\ tokens' = [tokens EXCEPT ![a] = @ - Token]
      <4>1. tokens[a] - Token \in 0..Full
        BY <3>1 DEF SpareToken, TypeOK
      <4>. QED BY <3>1, <4>1 DEF Admit, TypeOK
    <3>2. CASE UNCHANGED <<tokens, admitted>>
      BY <3>2 DEF TypeOK
    <3>. QED BY <1>2, <3>1, <3>2 DEF Allow
  <2>. QED BY <2>1, <2>2, Replied DEF TypeOK
<1>3. ASSUME NEW r \in Req, Insert(r) PROVE TypeOK'
  <2>. PICK a \in Addr : a = req[r].addr
    BY <1>3 DEF Insert, TypeOK
  <2>1. /\ UNCHANGED now /\ Reply(r) /\ Admit(a)
        /\ clients' = clients \cup {a}
        /\ tokens' = [tokens EXCEPT ![a] = Full]
    BY <1>3 DEF Insert
  <2>2. tokens' \in [Addr -> 0..Full] /\ admitted' \in [Addr -> Nat]
    BY <2>1 DEF Admit, TypeOK
  <2>. QED BY <2>1, <2>2, Replied DEF TypeOK
<1>4. CASE Tick
  <2>1. tokens' \in [Addr -> 0..Full]
    BY <1>4 DEF Tick, TypeOK
  <2>. QED BY <1>4, <2>1 DEF Tick, TypeOK
<1>5. CASE UNCHANGED vars
  BY <1>5 DEF vars, TypeOK
<1>. QED BY <1>1, <1>2, <1>3, <1>4, <1>5 DEF Next

\* RateLimiter keeps its types: buckets stay within their burst (Allow takes a
\* token only when it has one, a refill stops at the burst).
THEOREM TypeCorrect == Spec => []TypeOK
BY InitTypeOK, StepTypeOK, PTL DEF Spec

-----------------------------------------------------------------------------
\* Requests in flight are of different addresses.
OneAtATime ==
    \A q, r \in Req : q # r /\ req[q].pc # "idle" => req[q].addr # req[r].addr

\* A request about to insert finds its address still without a limiter.
InsertsOnce ==
    \A r \in Req : req[r].pc = "insert" => req[r].addr \notin clients

\* An address without a limiter was never let through; one with a limiter was
\* let through for what its bucket has lost, and once more.
Spent ==
    \A a \in Addr :
        /\ a \notin clients => admitted[a] = 0
        /\ a \in clients => Token * admitted[a] + tokens[a] <= Token + Full + now

IInv == TypeOK /\ OneAtATime /\ InsertsOnce /\ Spent

\* One more admitted request is one more token.
LEMMA OneMore == \A n \in Nat : Token * (n + 1) = Token * n + Token
BY Operands

LEMMA InitIInv == Init => IInv
<1>. SUFFICES ASSUME Init PROVE IInv
  OBVIOUS
<1>. QED BY InitTypeOK, Operands DEF Init, IInv, OneAtATime, InsertsOnce, Spent

LEMMA LookupIInv ==
    ASSUME IInv, NEW r \in Req, NEW a \in Addr, Lookup(r, a)
    PROVE  OneAtATime' /\ InsertsOnce' /\ Spent'
<1>. DEFINE new == [pc |-> IF a \in clients THEN "allow" ELSE "insert", addr |-> a]
<1>1. /\ req' = [req EXCEPT ![r] = new] /\ UNCHANGED <<clients, tokens, admitted, now>>
      /\ \A q \in Req : req[q].addr # a
  BY DEF Lookup
<1>2. new.addr = a /\ (new.pc = "insert" => a \notin clients)
  OBVIOUS
<1>3. req'[r] = new /\ \A q \in Req : q # r => req'[q] = req[q]
  BY <1>1 DEF IInv, TypeOK
<1>. HIDE DEF new
<1>4. OneAtATime'
  BY <1>1, <1>2, <1>3 DEF IInv, OneAtATime
<1>5. InsertsOnce'
  BY <1>1, <1>2, <1>3 DEF IInv, InsertsOnce
<1>6. Spent'
  BY <1>1 DEF IInv, Spent
<1>. QED BY <1>4, <1>5, <1>6

LEMMA AllowIInv ==
    ASSUME IInv, NEW r \in Req, Allow(r)
    PROVE  OneAtATime' /\ InsertsOnce' /\ Spent'
<1>. PICK a \in Addr : a = req[r].addr
  BY DEF Allow, IInv, TypeOK
<1>1. UNCHANGED <<clients, now>> /\ Reply(r)
  BY DEF Allow
<1>2. /\ req'[r] = Idle /\ Idle.pc = "idle" /\ Idle.addr = None
      /\ \A q \in Req : q # r => req'[q] = req[q]
  BY <1>1, Replied, Operands DEF IInv
<1>3. a \in clients
  BY DEF Allow, IInv, TypeOK
<1>4. OneAtATime' /\ InsertsOnce'
  BY <1>1, <1>2, RateAssumption DEF IInv, OneAtATime, InsertsOnce, TypeOK
<1>5. Spent'
  <2>1. CASE /\ SpareToken(tokens[a]) /\ Admit(a)
             /\ tokens' = [tokens EXCEPT ![a] = @ - Token]
    <3>1. /\ admitted'[a] = admitted[a] + 1 /\ tokens'[a] = tokens[a] - Token
          /\ \A b \in Addr : b # a => admitted'[b] = admitted[b] /\ tokens'[b] = tokens[b]
      BY <2>1 DEF Admit, IInv, TypeOK
    <3>2. /\ Token * admitted[a] + tokens[a] <= Token + Full + now
          /\ admitted[a] \in Nat /\ tokens[a] \in Nat /\ now \in Nat
          /\ Token * admitted[a] \in Nat
      BY <1>3, Operands DEF IInv, Spent, TypeOK
    <3>3. Token * admitted'[a] = Token * admitted[a] + Token
      BY <3>1, <3>2, OneMore
    <3>4. Token * admitted'[a] + tokens'[a] <= Token + Full + now
      BY <3>1, <3>2, <3>3, Operands
    <3>. QED BY <1>1, <1>3, <3>1, <3>4 DEF IInv, Spent
  <2>2. CASE UNCHANGED <<tokens, admitted>>
    BY <1>1, <2>2 DEF IInv, Spent
  <2>. QED BY <2>1, <2>2 DEF Allow
<1>. QED BY <1>4, <1>5

LEMMA InsertIInv ==
    ASSUME IInv, NEW r \in Req, Insert(r)
    PROVE  OneAtATime' /\ InsertsOnce' /\ Spent'
<1>. PICK a \in Addr : a = req[r].addr
  BY DEF Insert, IInv, TypeOK
<1>1. /\ UNCHANGED now /\ Reply(r) /\ Admit(a)
      /\ clients' = clients \cup {a}
      /\ tokens' = [tokens EXCEPT ![a] = Full]
      /\ req[r].pc = "insert"
  BY DEF Insert
<1>2. /\ req'[r] = Idle /\ Idle.pc = "idle" /\ Idle.addr = None
      /\ \A q \in Req : q # r => req'[q] = req[q]
  BY <1>1, Replied, Operands DEF IInv
<1>3. OneAtATime'
  BY <1>2, RateAssumption DEF IInv, OneAtATime, TypeOK
<1>4. InsertsOnce'
  <2>. SUFFICES ASSUME NEW q \in Req, req'[q].pc = "insert" PROVE req'[q].addr \notin clients'
    BY DEF InsertsOnce
  <2>1. q # r /\ req'[q] = req[q]
    BY <1>2
  <2>2. req[q].addr # a /\ req[q].addr \notin clients
    BY <1>1, <2>1 DEF IInv, OneAtATime, InsertsOnce
  <2>. QED BY <1>1, <2>1, <2>2
<1>5. Spent'
  <2>1. a \notin clients /\ admitted[a] = 0
    BY <1>1 DEF IInv, InsertsOnce, Spent
  <2>2. /\ admitted'[a] = 1 /\ tokens'[a] = Full
        /\ \A b \in Addr : b # a => admitted'[b] = admitted[b] /\ tokens'[b] = tokens[b]
    BY <1>1, <2>1 DEF Admit, IInv, TypeOK
  <2>3. Token * admitted'[a] + tokens'[a] <= Token + Full + now
    BY <2>2, Operands DEF IInv, TypeOK
  <2>. QED BY <1>1, <2>2, <2>3 DEF IInv, Spent
<1>. QED BY <1>3, <1>4, <1>5

LEMMA TickIInv ==
    ASSUME IInv, Tick
    PROVE  OneAtATime' /\ InsertsOnce' /\ Spent'
<1>1. UNCHANGED <<clients, req, admitted>> /\ now' = now + 1
  BY DEF Tick
<1>2. OneAtATime' /\ InsertsOnce'
  BY <1>1 DEF IInv, OneAtATime, InsertsOnce
<1>3. \A a \in Addr : tokens'[a] \in Nat /\ tokens'[a] <= tokens[a] + 1
  BY Operands DEF Tick, IInv, TypeOK
<1>4. ASSUME NEW a \in clients PROVE Token * admitted[a] + tokens'[a] <= Token + Full + now'
  <2>1. /\ Token * admitted[a] + tokens[a] <= Token + Full + now
        /\ Token * admitted[a] \in Nat /\ tokens[a] \in Nat /\ now \in Nat
        /\ tokens'[a] \in Nat /\ tokens'[a] <= tokens[a] + 1
    BY <1>3, Operands DEF IInv, Spent, TypeOK
  <2>. QED BY <1>1, <2>1, Operands
<1>. QED BY <1>1, <1>2, <1>4 DEF IInv, Spent

LEMMA StepIInv == IInv /\ [Next]_vars => IInv'
<1>. SUFFICES ASSUME IInv, [Next]_vars PROVE IInv'
  OBVIOUS
<1>1. TypeOK'
  BY StepTypeOK DEF IInv
<1>2. CASE UNCHANGED vars
  BY <1>1, <1>2 DEF vars, IInv, OneAtATime, InsertsOnce, Spent
<1>. QED BY <1>1, <1>2, LookupIInv, AllowIInv, InsertIInv, TickIInv DEF Next, IInv

LEMMA SpentSuffices == IInv => AdmittedWithinBudget
<1>. SUFFICES ASSUME IInv, NEW a \in Addr
              PROVE  Token * admitted[a] <= Token * (1 + Burst) + now
  BY DEF AdmittedWithinBudget
<1>1. /\ Token * (1 + Burst) = Token + Full
      /\ Token * admitted[a] \in Nat /\ tokens[a] \in Nat /\ now \in Nat
  BY RateAssumption, Operands DEF IInv, TypeOK, Full
<1>2. CASE a \in clients
  BY <1>1, <1>2, Operands DEF IInv, Spent
<1>3. CASE a \notin clients
  <2>1. Token * admitted[a] = 0
    BY <1>3, Operands DEF IInv, Spent
  <2>. QED BY <1>1, <2>1, Operands
<1>. QED BY <1>2, <1>3

\* No client gets more than BURST + 1 requests and the tokens of the time passed,
\* whatever the clients at other addresses do between its lookup and its insert
\* (GetClientRateLimit lets the lock go in between).
THEOREM BudgetKept == Spec => []AdmittedWithinBudget
BY InitIInv, StepIInv, SpentSuffices, PTL DEF Spec
=============================================================================
