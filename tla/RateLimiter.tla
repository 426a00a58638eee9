----------------------------- MODULE RateLimiter -----------------------------
(***************************************************************************)
(* LimitMiddleware (handlers/handlers.go) over GetClientRateLimit          *)
(* (internal/ratelimit/ratelimit.go): a map from remote address to token   *)
(* bucket, read and written by one goroutine per request.                  *)
(*                                                                         *)
(* The map is read under RLock and written under Lock, but the lock is     *)
(* released between the lookup and what follows it, so a request is two    *)
(* steps: Lookup, then Allow on the limiter found or Insert of a new one.  *)
(* The key is RemoteAddr, port included, which is one connection, and the  *)
(* server speaks plain HTTP/1 (ListenAndServe, handlers.go:486): it serves *)
(* the requests of one connection one after another and those of different *)
(* ones at once.  Nothing removes an entry.                                *)
(***************************************************************************)
EXTENDS Naturals

CONSTANTS
    Req,        \* slots for requests in flight
    Addr,       \* values of RemoteAddr
    None,
    Burst,      \* BURST, the tokens of a full bucket
    Token,      \* ticks of the clock in which a limiter gains one token
    MaxTime     \* bound of the model on the clock

ASSUME RateAssumption ==
    /\ Burst \in Nat /\ Token \in Nat \ {0} /\ MaxTime \in Nat
    /\ None \notin Addr

VARIABLES
    clients,    \* the addresses that have an entry in the map
    tokens,     \* what their limiters hold, in parts of which Token make a token
    req,        \* requests in flight
    admitted,   \* requests let through to the handler, per address
    now         \* ticks passed

vars == <<clients, tokens, req, admitted, now>>

Full == Token * Burst
Idle == [pc |-> "idle", addr |-> None]
Request == [pc : {"idle", "allow", "insert"}, addr : Addr \cup {None}]

\* Buckets never overflow nor go negative, and a request that goes to a limiter
\* has the address of one.
TypeOK ==
    /\ clients \subseteq Addr
    /\ tokens \in [Addr -> 0..Full]
    /\ req \in [Req -> Request]
    /\ \A r \in Req : req[r].pc # "idle" => req[r].addr \in Addr
    /\ \A r \in Req : req[r].pc = "allow" => req[r].addr \in clients
    /\ admitted \in [Addr -> Nat] /\ now \in Nat

Init ==
    /\ clients = {}
    /\ tokens = [a \in Addr |-> 0]
    /\ req = [r \in Req |-> Idle]
    /\ admitted = [a \in Addr |-> 0]
    /\ now = 0

-----------------------------------------------------------------------------
Reply(r) == req' = [req EXCEPT ![r] = Idle]
Admit(a) == admitted' = [admitted EXCEPT ![a] = @ + 1]

\* RLock, read the map, RUnlock.
Lookup(r, a) ==
    /\ req[r].pc = "idle"
    /\ \A q \in Req : req[q].addr # a       \* the connection's last request is over
    /\ req' = [req EXCEPT ![r] =
                  [pc |-> IF a \in clients THEN "allow" ELSE "insert", addr |-> a]]
    /\ UNCHANGED <<clients, tokens, admitted, now>>

\* rate.Limiter.Allow takes a whole token if there is one.
SpareTokenOffByOne(held) == held + 1 >= Token        \* Mutant
SpareToken(held) == held >= Token

\* Mutant: the comment at the end of ratelimit.go, carried out on the spot:
\* "remove map keys bucket is empty"
AllowAndRemove(r) ==
    LET a == req[r].addr
    IN  /\ req[r].pc = "allow"
        /\ SpareToken(tokens[a])
        /\ tokens' = [tokens EXCEPT ![a] = @ - Token]
        /\ clients' = IF tokens[a] < 2 * Token THEN clients \ {a} ELSE clients
        /\ Admit(a)
        /\ Reply(r)
        /\ UNCHANGED now

\* Allow on the limiter found.
Allow(r) ==
    LET a == req[r].addr
    IN  /\ req[r].pc = "allow"
        /\ \/ /\ SpareToken(tokens[a])
              /\ tokens' = [tokens EXCEPT ![a] = @ - Token]
              /\ Admit(a)
           \/ /\ ~SpareToken(tokens[a])     \* 429 Too Many Requests
              /\ UNCHANGED <<tokens, admitted>>
        /\ Reply(r)
        /\ UNCHANGED <<clients, now>>

\* Lock, put a new, full limiter in the map, Unlock; the request that makes a
\* limiter is let through without a token.
Insert(r) ==
    LET a == req[r].addr
    IN  /\ req[r].pc = "insert"
        /\ clients' = clients \cup {a}
        /\ tokens' = [tokens EXCEPT ![a] = Full]
        /\ Admit(a)
        /\ Reply(r)
        /\ UNCHANGED now

\* Time passes: every limiter gains REQNUM tokens a second, up to its burst.
Tick ==
    /\ now < MaxTime
    /\ now' = now + 1
    /\ tokens' = [a \in Addr |->
          IF a \in clients /\ tokens[a] < Full THEN tokens[a] + 1 ELSE tokens[a]]
    /\ UNCHANGED <<clients, req, admitted>>

Next ==
    \/ \E r \in Req, a \in Addr : Lookup(r, a)
    \/ \E r \in Req : Allow(r) \/ Insert(r)
    \/ Tick

Spec == Init /\ [][Next]_vars

-----------------------------------------------------------------------------
\* What TestRateLimit expects of one client, for every address and any order of
\* requests and time: BURST + 1 pass, the one that makes the limiter included,
\* and then no more than what the time since gives back, whatever the clients at
\* other addresses do between the lookup and what follows it.
AdmittedWithinBudget ==
    \A a \in Addr : Token * admitted[a] <= Token * (1 + Burst) + now
=============================================================================
