--------------------------- MODULE AccountsProofs ---------------------------
(***************************************************************************)
(* What Accounts does for any number of requests, browsers, addresses and  *)
(* passwords, any bounds, any interleaving and any failures.               *)
(***************************************************************************)
EXTENDS Accounts, TLAPS

\* Identifiers are handed out once: those in use are at most the last one, and
\* no two addresses share one.
IdsUnique ==
    /\ \A e \in Email : users[e].id \in 0..opened
    /\ \A e \in Email : users[e].id # 0 => users[e].hash \in Password
    /\ \A e, f \in Email : users[e].id = users[f].id /\ users[e].id # 0 => e = f

\* What a request remembers of an account is still true of it, if it stands:
\* a login the password it checked, a deletion the address it read.
LoginKnows(q) ==
    /\ q.browser \in Browser /\ q.pw \in Password /\ q.uid \in 1..opened
    /\ \A e \in Email : users[e].id = q.uid => users[e].hash = q.pw

DeleteKnows(q) ==
    /\ q.browser \in Browser /\ q.email \in Email /\ q.uid \in 1..opened
    /\ \A e \in Email : users[e].id = q.uid => e = q.email

RequestOK(q) ==
    /\ q.pc \in {"signupPending", "signupInsert", "signupSend", "verifyExpired",
                 "verifyCreate", "verifyUsed"} => q.email \in Email
    /\ q.pc = "verifyCreate" => q.pw \in Password
    /\ q.pc \in {"loginRevoke", "loginInsert"} => LoginKnows(q)
    /\ q.pc = "logout" => q.browser \in Browser
    /\ q.pc = "delete" => DeleteKnows(q)

\* Tokens in the table are among those handed out, for real accounts.
TokensOK ==
    /\ issued <= MaxTokens
    /\ \A t \in refresh : t.token \in 1..issued /\ t.user # 0

IInv ==
    /\ TypeOK
    /\ IdsUnique
    /\ \A r \in Req : RequestOK(req[r])
    /\ TokensOK
    /\ SessionProvesPassword

-----------------------------------------------------------------------------
(* The invariant is inductive *)

LEMMA InitInvariant == Init => IInv
<1>. SUFFICES ASSUME Init PROVE IInv
  OBVIOUS
<1>. USE ConstantsAssumption DEF Init
<1>1. TypeOK
  BY DEF TypeOK, NoUser, NoCookies, Idle, User, Cookies, Request, Step
<1>2. IdsUnique
  BY DEF IdsUnique, NoUser
<1>3. \A r \in Req : RequestOK(req[r])
  BY DEF RequestOK, Idle
<1>4. TokensOK
  BY DEF TokensOK
<1>5. SessionProvesPassword
  BY DEF SessionProvesPassword
<1>. QED BY <1>1, <1>2, <1>3, <1>4, <1>5 DEF IInv

\* A request moves on, and nothing it or the others remember has changed.
LEMMA RequestMoves ==
    ASSUME IInv, NEW r \in Req, NEW q \in Request,
           UNCHANGED <<users, opened>>,
           Begin(r, q), RequestOK(q)
    PROVE  /\ req' \in [Req -> Request]
           /\ IdsUnique'
           /\ \A s \in Req : RequestOK(req[s])'
<1>1. req' \in [Req -> Request]
  BY DEF Begin, IInv, TypeOK
<1>2. IdsUnique'
  BY DEF IInv, IdsUnique
<1>3. ASSUME NEW s \in Req PROVE RequestOK(req[s])'
  <2>1. req'[s] = IF s = r THEN q ELSE req[s]
    BY DEF Begin, IInv, TypeOK
  <2>2. RequestOK(req[s]) /\ RequestOK(q)
    BY DEF IInv
  <2>. QED BY <2>1, <2>2 DEF RequestOK, LoginKnows, DeleteKnows
<1>. QED BY <1>1, <1>2, <1>3

\* The fields of a request, and the three ways it moves on.
LEMMA RequestFields ==
    ASSUME IInv, NEW r \in Req
    PROVE  /\ req[r] \in Request /\ RequestOK(req[r])
           /\ Idle \in Request /\ RequestOK(Idle)
           /\ Reply(r) => Begin(r, Idle)
           /\ \A pc \in Step :
                 /\ [req[r] EXCEPT !.pc = pc] \in Request
                 /\ Goto(r, pc) => Begin(r, [req[r] EXCEPT !.pc = pc])
<1>1. req[r] \in Request /\ RequestOK(req[r])
  BY DEF IInv, TypeOK
<1>2. Idle \in Request /\ RequestOK(Idle)
  BY DEF Idle, Request, Step, RequestOK
<1>3. Reply(r) => Begin(r, Idle)
  BY DEF Reply, Begin
<1>4. ASSUME NEW pc \in Step
      PROVE  /\ [req[r] EXCEPT !.pc = pc] \in Request
             /\ Goto(r, pc) => Begin(r, [req[r] EXCEPT !.pc = pc])
  <2>1. [req[r] EXCEPT !.pc = pc] \in Request
    BY <1>1 DEF Request
  <2>2. Goto(r, pc) => Begin(r, [req[r] EXCEPT !.pc = pc])
    BY DEF Goto, Begin
  <2>. QED BY <2>1, <2>2
<1>. QED BY <1>1, <1>2, <1>3, <1>4

LEMMA SessionsStay ==
    ASSUME IInv, UNCHANGED <<users, refresh, issued>>
    PROVE  TokensOK' /\ SessionProvesPassword'
BY DEF IInv, TokensOK, SessionProvesPassword

\* The signup steps touch verify_tokens and the mail, nothing else.
LEMMA SignupSteps ==
    ASSUME IInv, NEW r \in Req,
           \/ \E e \in Email, p \in FormPassword : SignupLookupUser(r, e, p)
           \/ Signup(r)
    PROVE  IInv'
<1>. USE DEF tables, counters, At, Ok, Fault
<1>1. UNCHANGED <<users, refresh, opened, issued, jar, now>>
  BY DEF Signup, SignupLookupUser, SignupLookupPending, SignupInsert, SignupSend
<1>2. \E q \in Request : Begin(r, q) /\ RequestOK(q)
  <2>1. ASSUME NEW e \in Email, NEW p \in FormPassword, SignupLookupUser(r, e, p)
        PROVE  \E q \in Request : Begin(r, q) /\ RequestOK(q)
    <3>. DEFINE q == [Idle EXCEPT !.pc = "signupPending", !.email = e, !.pw = p]
    <3>1. q \in Request /\ RequestOK(q)
      BY <2>1 DEF Idle, Request, Step, RequestOK
    <3>. QED BY <2>1, <3>1 DEF SignupLookupUser
  <2>2. CASE Reply(r)
    BY <2>2, RequestFields
  <2>3. ASSUME NEW pc \in {"signupInsert", "signupSend"}, Goto(r, pc),
               At(r, "signupPending") \/ At(r, "signupInsert")
        PROVE  \E q \in Request : Begin(r, q) /\ RequestOK(q)
    <3>. DEFINE q == [req[r] EXCEPT !.pc = pc]
    <3>1. pc \in Step
      BY DEF Step
    <3>2. q \in Request /\ Begin(r, q) /\ RequestOK(req[r]) /\ req[r] \in Request
      BY <2>3, <3>1, RequestFields
    <3>3. q.pc = pc /\ q.email = req[r].email
      BY <3>2 DEF Request
    <3>4. RequestOK(q)
      BY <2>3, <3>2, <3>3 DEF RequestOK
    <3>. QED BY <3>2, <3>4
  <2>. QED
    BY <2>1, <2>2, <2>3
       DEF Signup, SignupLookupPending, SignupInsert, SignupSend
<1>3. /\ req' \in [Req -> Request] /\ IdsUnique'
      /\ \A s \in Req : RequestOK(req[s])'
  BY <1>1, <1>2, RequestMoves
<1>4. pending' \in [Email -> Nat] /\ signups' \in Nat /\ faults' \in Nat
  <2>1. /\ faults \in Nat /\ signups \in Nat /\ now + Expiry \in Nat
        /\ pending \in [Email -> Nat]
    BY ConstantsAssumption DEF IInv, TypeOK
  <2>2. faults' \in {faults, faults + 1}
    BY DEF Signup, SignupLookupUser, SignupLookupPending, SignupInsert, SignupSend
  <2>3. CASE SignupInsert(r)
    BY <2>1, <2>2, <2>3 DEF SignupInsert
  <2>4. CASE ~SignupInsert(r)
    <3>1. UNCHANGED <<pending, signups>>
      BY <2>4 DEF Signup, SignupLookupUser, SignupLookupPending, SignupSend
    <3>. QED BY <2>1, <2>2, <3>1
  <2>. QED BY <2>3, <2>4
<1>5. mail' \subseteq Link
  <2>1. mail \subseteq Link
    BY DEF IInv, TypeOK
  <2>2. CASE SignupSend(r)
    <3>1. req[r].email \in Email
      BY <2>2, RequestFields DEF SignupSend, RequestOK
    <3>. QED BY <2>1, <2>2, <3>1 DEF SignupSend, Link
  <2>3. CASE ~SignupSend(r)
    BY <2>1, <2>3
       DEF Signup, SignupLookupUser, SignupLookupPending, SignupInsert
  <2>. QED BY <2>2, <2>3
<1>6. TypeOK'
  BY <1>1, <1>3, <1>4, <1>5 DEF IInv, TypeOK
<1>. QED BY <1>1, <1>3, <1>6, SessionsStay DEF IInv

\* HandlerVerify but for CreateUser: verify_tokens only.
LEMMA VerifySteps ==
    ASSUME IInv, NEW r \in Req,
           \/ \E link \in mail : VerifyLookup(r, link)
           \/ VerifyDropExpired(r) \/ VerifyDropUsed(r)
    PROVE  IInv'
<1>. USE DEF tables, counters, At, Ok, Fault
<1>1. UNCHANGED <<users, refresh, mail, jar, now, counters>>
  BY DEF VerifyLookup, VerifyDropExpired, VerifyDropUsed
<1>2. \E q \in Request : Begin(r, q) /\ RequestOK(q)
  <2>1. ASSUME NEW link \in mail, VerifyLookup(r, link)
        PROVE  \E q \in Request : Begin(r, q) /\ RequestOK(q)
    <3>. DEFINE e == QueryEmail[link.email]
    <3>1. PICK pc \in {"verifyExpired", "verifyCreate"} :
             Begin(r, [Idle EXCEPT !.pc = pc, !.email = e, !.pw = link.pw])
      BY <2>1 DEF VerifyLookup
    <3>. DEFINE q == [Idle EXCEPT !.pc = pc, !.email = e, !.pw = link.pw]
    <3>2. e \in Email /\ link.pw \in Password
      BY <2>1, ConstantsAssumption DEF VerifyLookup, IInv, TypeOK, Link
    <3>3. q \in Request /\ RequestOK(q)
      BY <3>2 DEF Idle, Request, Step, RequestOK, FormPassword
    <3>. QED BY <3>1, <3>3
  <2>2. CASE Reply(r)
    BY <2>2, RequestFields
  <2>. QED BY <2>1, <2>2 DEF VerifyDropExpired, VerifyDropUsed
<1>3. /\ req' \in [Req -> Request] /\ IdsUnique'
      /\ \A s \in Req : RequestOK(req[s])'
  BY <1>1, <1>2, RequestMoves
<1>4. pending' \in [Email -> Nat] /\ faults' \in Nat
  <2>1. pending \in [Email -> Nat] /\ faults \in Nat
    BY DEF IInv, TypeOK
  <2>2. pending' \in {pending, [pending EXCEPT ![req[r].email] = 0]}
    BY DEF VerifyLookup, VerifyDropExpired, VerifyDropUsed
  <2>3. faults' \in {faults, faults + 1}
    BY DEF VerifyLookup, VerifyDropExpired, VerifyDropUsed
  <2>. QED BY <2>1, <2>2, <2>3
<1>5. TypeOK'
  BY <1>1, <1>3, <1>4 DEF IInv, TypeOK
<1>. QED BY <1>1, <1>3, <1>5, SessionsStay DEF IInv

\* CreateUser hands out the next identifier, to a row whose address had none.
LEMMA VerifyCreateUserStep ==
    ASSUME IInv, NEW r \in Req, VerifyCreateUser(r)
    PROVE  IInv'
<1>. USE DEF At, Ok, Fault
<1>. DEFINE e == req[r].email
            Inserts == /\ users[e].id = 0
                       /\ users' = [users EXCEPT ![e] = [id |-> opened + 1,
                                                         hash |-> req[r].pw]]
                       /\ opened' = opened + 1
<1>1. UNCHANGED <<pending, refresh, mail, jar, now, signups, issued>>
  BY DEF VerifyCreateUser
<1>2. Inserts \/ UNCHANGED <<users, opened>>
  BY DEF VerifyCreateUser
<1>3. /\ req[r] \in Request /\ req[r].pc = "verifyCreate"
      /\ e \in Email /\ req[r].pw \in Password
  BY RequestFields DEF VerifyCreateUser, RequestOK
<1>4. /\ users' \in [Email -> User] /\ opened' \in Nat /\ opened <= opened'
      /\ faults' \in Nat
  <2>1. faults \in Nat /\ faults' \in {faults, faults + 1}
    BY DEF IInv, TypeOK, VerifyCreateUser
  <2>2. users \in [Email -> User] /\ opened \in Nat
    BY DEF IInv, TypeOK
  <2>. QED BY <1>2, <1>3, <2>1, <2>2 DEF User
<1>5. IdsUnique'
  <2>1. IdsUnique /\ users \in [Email -> User] /\ opened \in Nat
    BY DEF IInv, TypeOK
  <2>2. CASE Inserts
    BY <1>3, <2>1, <2>2 DEF IdsUnique, User
  <2>3. CASE UNCHANGED <<users, opened>>
    BY <2>1, <2>3 DEF IdsUnique
  <2>. QED BY <1>2, <2>2, <2>3
<1>6. /\ req' \in [Req -> Request]
      /\ \A s \in Req :
            \/ req'[s] \in {req[s], Idle}
            \/ req'[s].pc = "verifyUsed" /\ req'[s].email = e
  <2>1. req \in [Req -> Request]
    BY DEF IInv, TypeOK
  <2>2. CASE Reply(r)
    <3>1. Idle \in Request
      BY RequestFields
    <3>2. req' = [req EXCEPT ![r] = Idle]
      BY <2>2 DEF Reply
    <3>3. req' \in [Req -> Request] /\ \A s \in Req : req'[s] \in {req[s], Idle}
      BY <2>1, <3>1, <3>2
    <3>. QED BY <3>3
  <2>3. CASE Goto(r, "verifyUsed")
    <3>1. [req[r] EXCEPT !.pc = "verifyUsed"] \in Request
      BY <1>3 DEF Request, Step
    <3>2. PICK q \in Request : /\ req' = [req EXCEPT ![r] = q]
                              /\ q.pc = "verifyUsed" /\ q.email = e
      BY <1>3, <2>3, <3>1 DEF Goto, Request
    <3>3. req' \in [Req -> Request] /\ \A s \in Req : req'[s] \in {req[s], q}
      BY <2>1, <3>2
    <3>. QED BY <3>2, <3>3
  <2>. QED BY <2>2, <2>3 DEF VerifyCreateUser
<1>7. ASSUME NEW s \in Req PROVE RequestOK(req[s])'
  <2>1. RequestOK(req[s])
    BY DEF IInv
  <2>2. CASE req'[s] = req[s]
    <3>1. req[s].pc \in {"loginRevoke", "loginInsert"} => LoginKnows(req[s])'
      <4>. SUFFICES ASSUME LoginKnows(req[s]) PROVE LoginKnows(req[s])'
        BY <2>1 DEF RequestOK
      <4>1. req[s].uid \in 1..opened /\ opened \in Nat /\ users \in [Email -> User]
        BY DEF LoginKnows, IInv, TypeOK
      <4>. QED BY <1>2, <1>3, <1>4, <2>2, <4>1 DEF LoginKnows, User
    <3>2. req[s].pc = "delete" => DeleteKnows(req[s])'
      <4>. SUFFICES ASSUME DeleteKnows(req[s]) PROVE DeleteKnows(req[s])'
        BY <2>1 DEF RequestOK
      <4>1. req[s].uid \in 1..opened /\ opened \in Nat /\ users \in [Email -> User]
        BY DEF DeleteKnows, IInv, TypeOK
      <4>. QED BY <1>2, <1>3, <1>4, <2>2, <4>1 DEF DeleteKnows, User
    <3>. QED BY <2>1, <2>2, <3>1, <3>2 DEF RequestOK
  <2>3. CASE req'[s] = Idle
    BY <2>3 DEF Idle, RequestOK
  <2>4. CASE req'[s].pc = "verifyUsed" /\ req'[s].email = e
    BY <1>3, <2>4 DEF RequestOK
  <2>. QED BY <1>6, <2>2, <2>3, <2>4
<1>8. TokensOK' /\ TypeOK'
  BY <1>1, <1>4, <1>6 DEF IInv, TypeOK, TokensOK
<1>9. SessionProvesPassword'
  <2>1. /\ SessionProvesPassword /\ users \in [Email -> User]
        /\ \A t \in refresh : t.user # 0
    BY DEF IInv, TypeOK, TokensOK
  <2>. QED BY <1>1, <1>2, <1>3, <2>1 DEF SessionProvesPassword, User
<1>. QED BY <1>5, <1>7, <1>8, <1>9 DEF IInv

\* The requests of a browser, as they arrive: no table changes.
LEMMA SessionArrivals ==
    ASSUME IInv, NEW r \in Req, NEW b \in Browser,
           \/ \E e \in Email : LoginLookup(r, b, e) \/ DeleteLookup(r, b, e)
           \/ LogoutSend(r, b)
    PROVE  IInv'
<1>. USE DEF tables, counters
<1>1. UNCHANGED <<tables, mail, jar, now, counters, faults>>
  BY DEF LoginLookup, LogoutSend, DeleteLookup
<1>2. /\ jar[b] \in Cookies /\ users \in [Email -> User] /\ opened \in Nat
      /\ IdsUnique
  BY DEF IInv, TypeOK
<1>3. \E q \in Request : Begin(r, q) /\ RequestOK(q)
  <2>1. ASSUME NEW e \in Email, LoginLookup(r, b, e)
        PROVE  \E q \in Request : Begin(r, q) /\ RequestOK(q)
    <3>. DEFINE q == [pc |-> IF jar[b].refresh = 0 THEN "loginInsert" ELSE "loginRevoke",
                      browser |-> b, email |-> e, pw |-> users[e].hash,
                      uid |-> users[e].id, token |-> jar[b].refresh]
    <3>1. users[e].id # 0 /\ Begin(r, q)
      BY <2>1 DEF LoginLookup
    <3>2. users[e].id \in 1..opened /\ users[e].hash \in Password
      BY <1>2, <3>1 DEF IdsUnique
    <3>3. q \in Request
      BY <1>2, <3>2 DEF Request, Step, FormPassword, Cookies
    <3>4. LoginKnows(q)
      BY <1>2, <3>2 DEF LoginKnows, IdsUnique
    <3>5. RequestOK(q)
      BY <3>4 DEF RequestOK
    <3>. QED BY <3>1, <3>3, <3>5
  <2>2. ASSUME NEW e \in Email, DeleteLookup(r, b, e)
        PROVE  \E q \in Request : Begin(r, q) /\ RequestOK(q)
    <3>. DEFINE q == [pc |-> "delete", browser |-> b, email |-> e, pw |-> None,
                      uid |-> jar[b].uid, token |-> 0]
    <3>1. users[e].id = jar[b].uid /\ jar[b].uid # 0 /\ Begin(r, q)
      BY <2>2 DEF DeleteLookup, GetUserFromId
    <3>2. jar[b].uid \in 1..opened
      BY <1>2, <3>1 DEF IdsUnique
    <3>3. q \in Request
      BY <1>2, <3>1, <3>2 DEF Request, Step
    <3>4. DeleteKnows(q)
      BY <1>2, <3>1, <3>2 DEF DeleteKnows, IdsUnique
    <3>5. RequestOK(q)
      BY <3>4 DEF RequestOK
    <3>. QED BY <3>1, <3>3, <3>5
  <2>3. CASE LogoutSend(r, b)
    <3>. DEFINE q == [Idle EXCEPT !.pc = "logout", !.browser = b,
                                  !.token = jar[b].refresh]
    <3>1. q \in Request /\ RequestOK(q)
      BY <1>2 DEF Idle, Request, Step, Cookies, RequestOK
    <3>. QED BY <2>3, <3>1 DEF LogoutSend
  <2>. QED BY <2>1, <2>2, <2>3
<1>4. /\ req' \in [Req -> Request] /\ IdsUnique'
      /\ \A s \in Req : RequestOK(req[s])'
  BY <1>1, <1>3, RequestMoves
<1>. QED BY <1>1, <1>4, SessionsStay DEF IInv, TypeOK

\* Revoking a token keeps every row's token, user and password.
LEMMA RevokedRows ==
    ASSUME IInv, NEW token, refresh' \in {refresh, Revoked(token)},
           UNCHANGED <<users, issued>>
    PROVE  refresh' \subseteq RefreshToken /\ TokensOK' /\ SessionProvesPassword'
<1>1. refresh \subseteq RefreshToken /\ TokensOK /\ SessionProvesPassword
  BY DEF IInv, TypeOK
<1>2. ASSUME NEW t \in refresh'
      PROVE  /\ t \in RefreshToken
             /\ \E s \in refresh :
                    t.token = s.token /\ t.user = s.user /\ t.pw = s.pw
  <2>1. PICK s \in refresh : t = s \/ t = [s EXCEPT !.revoked = TRUE]
    BY DEF Revoked
  <2>. QED BY <1>1, <2>1 DEF RefreshToken
<1>. QED BY <1>1, <1>2 DEF TokensOK, SessionProvesPassword

LEMMA LoginRevokeStep ==
    ASSUME IInv, NEW r \in Req, LoginRevoke(r)
    PROVE  IInv'
<1>. DEFINE q == [req[r] EXCEPT !.pc = "loginInsert"]
<1>1. /\ UNCHANGED <<users, pending, mail, jar, now, counters>>
      /\ refresh' \in {refresh, Revoked(req[r].token)}
      /\ faults \in Nat /\ faults' \in {faults, faults + 1}
      /\ req[r].pc = "loginRevoke"
  BY DEF LoginRevoke, IInv, TypeOK, Ok, Fault, At
<1>2. req[r] \in Request /\ LoginKnows(req[r])
  BY <1>1, RequestFields DEF RequestOK
<1>3. q \in Request /\ Begin(r, q)
  BY <1>2, RequestFields DEF LoginRevoke, Step
<1>4. RequestOK(q)
  <2>1. /\ q.pc = "loginInsert" /\ q.browser = req[r].browser
        /\ q.pw = req[r].pw /\ q.uid = req[r].uid
    BY <1>2 DEF Request
  <2>. HIDE DEF q
  <2>. QED BY <1>2, <2>1 DEF RequestOK, LoginKnows
<1>5. /\ req' \in [Req -> Request] /\ IdsUnique'
      /\ \A s \in Req : RequestOK(req[s])'
  BY <1>1, <1>3, <1>4, RequestMoves DEF counters
<1>6. refresh' \subseteq RefreshToken /\ TokensOK' /\ SessionProvesPassword'
  BY <1>1, RevokedRows DEF counters
<1>7. TypeOK'
  BY <1>1, <1>5, <1>6 DEF IInv, TypeOK, counters
<1>. QED BY <1>5, <1>6, <1>7 DEF IInv

\* The password was checked against the account with this very identifier, so
\* a row is only made while that account stands.
LEMMA LoginInsertStep ==
    ASSUME IInv, NEW r \in Req, LoginInsert(r)
    PROVE  IInv'
<1>1. /\ UNCHANGED <<users, pending, mail, now, signups, opened>>
      /\ req[r].pc = "loginInsert" /\ Reply(r)
      /\ issued' = issued + 1 /\ issued < MaxTokens
      /\ faults \in Nat /\ faults' \in {faults, faults + 1}
      /\ refresh' \in {refresh, refresh \cup {NewRow(r)}}
      /\ refresh' # refresh => Exists(NewRow(r).user)
      /\ jar' \in {jar, [jar EXCEPT ![req[r].browser] =
                            [refresh |-> NewRow(r).token, uid |-> NewRow(r).user,
                             exp |-> now + Expiry]]}
  BY DEF LoginInsert, IInv, TypeOK, Ok, Fault, At
<1>2. LoginKnows(req[r]) /\ issued \in Nat /\ opened \in Nat
  BY <1>1, RequestFields DEF RequestOK, IInv, TypeOK
<1>3. MaxTokens \in Nat /\ now + Expiry \in Nat
  BY ConstantsAssumption DEF IInv, TypeOK
<1>4. /\ NewRow(r) \in RefreshToken /\ NewRow(r).user = req[r].uid
      /\ NewRow(r).pw = req[r].pw /\ NewRow(r).token = issued + 1
  BY <1>2 DEF NewRow, LoginKnows, RefreshToken
<1>5. jar' \in [Browser -> Cookies]
  <2>. DEFINE c == [refresh |-> NewRow(r).token, uid |-> NewRow(r).user,
                    exp |-> now + Expiry]
  <2>1. c \in Cookies
    BY <1>2, <1>3, <1>4 DEF Cookies, LoginKnows
  <2>. HIDE DEF c
  <2>. QED BY <1>1, <1>2, <2>1 DEF IInv, TypeOK, c
<1>6. /\ req' \in [Req -> Request] /\ IdsUnique'
      /\ \A s \in Req : RequestOK(req[s])'
  BY <1>1, RequestFields, RequestMoves
<1>7. TypeOK'
  BY <1>1, <1>2, <1>4, <1>5, <1>6 DEF IInv, TypeOK
<1>8. TokensOK'
  BY <1>1, <1>2, <1>3, <1>4 DEF IInv, TypeOK, TokensOK, RefreshToken, LoginKnows
<1>9. SessionProvesPassword'
  BY <1>1, <1>2, <1>4 DEF IInv, SessionProvesPassword, Exists, LoginKnows
<1>. QED BY <1>6, <1>7, <1>8, <1>9 DEF IInv

\* Whatever a response does to the cookies, it leaves a cookie jar.
LEMMA UnsetJar ==
    ASSUME IInv, NEW b \in Browser, jar' = jar \/ UnsetTokens(b)
    PROVE  jar' \in [Browser -> Cookies]
BY DEF IInv, TypeOK, UnsetTokens, NoCookies, Cookies

LEMMA LogoutRevokeStep ==
    ASSUME IInv, NEW r \in Req, LogoutRevoke(r)
    PROVE  IInv'
<1>1. /\ UNCHANGED <<users, pending, mail, now, signups, opened, issued>>
      /\ refresh' \in {refresh, Revoked(req[r].token)}
      /\ jar' = jar \/ UnsetTokens(req[r].browser)
      /\ faults \in Nat /\ faults' \in {faults, faults + 1}
      /\ req[r].pc = "logout" /\ Reply(r)
  BY DEF LogoutRevoke, IInv, TypeOK, Ok, Fault, At, counters
<1>2. /\ req' \in [Req -> Request] /\ IdsUnique'
      /\ \A s \in Req : RequestOK(req[s])'
  BY <1>1, RequestFields, RequestMoves
<1>3. refresh' \subseteq RefreshToken /\ TokensOK' /\ SessionProvesPassword'
  BY <1>1, RevokedRows
<1>4. jar' \in [Browser -> Cookies]
  BY <1>1, RequestFields, UnsetJar DEF RequestOK
<1>5. TypeOK'
  BY <1>1, <1>2, <1>3, <1>4 DEF IInv, TypeOK
<1>. QED BY <1>2, <1>3, <1>5 DEF IInv

\* Deleting a row deletes the sessions of the identifier it had, so those left
\* belong to the rows left.
LEMMA DeleteUserStep ==
    ASSUME IInv, NEW r \in Req, DeleteUser(r)
    PROVE  IInv'
<1>. DEFINE e == req[r].email
            Deletes == /\ users' = [users EXCEPT ![e] = NoUser]
                       /\ refresh' = {t \in refresh : t.user # users[e].id}
<1>1. /\ UNCHANGED <<pending, mail, now, signups, opened, issued>>
      /\ Deletes \/ UNCHANGED <<users, refresh>>
      /\ jar' = jar \/ UnsetTokens(req[r].browser)
      /\ faults \in Nat /\ faults' \in {faults, faults + 1}
      /\ req[r].pc = "delete" /\ Reply(r)
  BY DEF DeleteUser, IInv, TypeOK, Ok, Fault, At, counters
<1>2. e \in Email /\ req[r].browser \in Browser
  BY <1>1, RequestFields DEF RequestOK, DeleteKnows
<1>3. /\ users \in [Email -> User] /\ users' \in [Email -> User]
      /\ \A f \in Email : users'[f] \in {users[f], NoUser}
      /\ refresh' \subseteq refresh
  BY <1>1, <1>2 DEF IInv, TypeOK, User, NoUser
<1>4. IdsUnique'
  BY <1>1, <1>3 DEF IInv, TypeOK, IdsUnique, NoUser
<1>5. req' \in [Req -> Request] /\ \A s \in Req : req'[s] \in {req[s], Idle}
  BY <1>1, RequestFields DEF IInv, TypeOK, Reply
<1>6. ASSUME NEW s \in Req PROVE RequestOK(req[s])'
  <2>1. RequestOK(req[s]) /\ RequestOK(Idle)
    BY RequestFields DEF IInv
  <2>2. \A f \in Email : users'[f].id # 0 => users'[f] = users[f]
    BY <1>3 DEF NoUser
  <2>3. CASE req'[s] = Idle
    BY <2>3 DEF RequestOK, Idle
  <2>4. CASE req'[s] = req[s]
    <3>1. LoginKnows(req[s]) => LoginKnows(req[s])'
      BY <1>1, <2>2, <2>4 DEF LoginKnows
    <3>2. DeleteKnows(req[s]) => DeleteKnows(req[s])'
      BY <1>1, <2>2, <2>4 DEF DeleteKnows
    <3>. QED BY <2>1, <2>4, <3>1, <3>2 DEF RequestOK
  <2>. QED BY <1>5, <2>3, <2>4
<1>7. jar' \in [Browser -> Cookies]
  BY <1>1, <1>2, UnsetJar
<1>8. TypeOK' /\ TokensOK'
  BY <1>1, <1>3, <1>5, <1>7 DEF IInv, TypeOK, TokensOK
<1>9. SessionProvesPassword'
  BY <1>1, <1>2, <1>3 DEF IInv, SessionProvesPassword
<1>. QED BY <1>4, <1>6, <1>8, <1>9 DEF IInv

LEMMA TickStep == IInv /\ Tick => IInv'
<1>. SUFFICES ASSUME IInv, Tick PROVE IInv'
  OBVIOUS
<1>1. /\ UNCHANGED <<users, pending, refresh, mail, jar, req, signups, opened,
                     issued, faults>>
      /\ now' = now + 1
  BY DEF Tick, tables, counters
<1>. QED
  BY <1>1 DEF IInv, TypeOK, IdsUnique, RequestOK, LoginKnows, DeleteKnows,
              TokensOK, SessionProvesPassword

\* A restart forgets the requests in flight and empties two tables.
LEMMA RestartStep == IInv /\ Restart => IInv'
<1>. SUFFICES ASSUME IInv, Restart PROVE IInv'
  OBVIOUS
<1>1. /\ UNCHANGED <<users, mail, jar, now, signups, opened, issued, faults>>
      /\ req' = [r \in Req |-> Idle]
      /\ pending' = [e \in Email |-> 0] /\ refresh' = {}
  BY DEF Restart, counters
<1>2. TypeOK'
  BY <1>1 DEF IInv, TypeOK, Idle, Request, Step
<1>3. IdsUnique' /\ TokensOK' /\ SessionProvesPassword'
  BY <1>1 DEF IInv, IdsUnique, TokensOK, SessionProvesPassword
<1>4. \A r \in Req : RequestOK(req[r])'
  BY <1>1 DEF RequestOK, Idle
<1>. QED BY <1>2, <1>3, <1>4 DEF IInv

LEMMA StepInvariant == IInv /\ [Next]_vars => IInv'
<1>. SUFFICES ASSUME IInv, [Next]_vars PROVE IInv'
  OBVIOUS
<1>1. ASSUME NEW r \in Req, Arrive(r) PROVE IInv'
  BY <1>1, SignupSteps, VerifySteps, SessionArrivals DEF Arrive
<1>2. ASSUME NEW r \in Req, Handle(r) PROVE IInv'
  BY <1>2, SignupSteps, VerifySteps, VerifyCreateUserStep, LoginRevokeStep,
     LoginInsertStep, LogoutRevokeStep, DeleteUserStep
     DEF Handle, Verify, Session
<1>3. CASE Tick
  BY <1>3, TickStep
<1>4. CASE Restart
  BY <1>4, RestartStep
<1>5. CASE UNCHANGED vars
  BY <1>5 DEF vars, IInv, TypeOK, IdsUnique, RequestOK, LoginKnows, DeleteKnows,
              TokensOK, SessionProvesPassword
<1>. QED BY <1>1, <1>2, <1>3, <1>4, <1>5 DEF Next

LEMMA Invariance == Spec => []IInv
BY InitInvariant, StepInvariant, PTL DEF Spec

-----------------------------------------------------------------------------
\* Tables, cookies and requests keep their types, and no mail carries the hash
\* of a password bcrypt refused.
THEOREM TypeCorrect == Spec => []TypeOK
<1>1. IInv => TypeOK
  BY DEF IInv
<1>. QED BY <1>1, Invariance, PTL

\* Every refresh token belongs to a standing account whose password the login
\* that made it presented, however deletions and signups interleave with it.
THEOREM SessionsProvePasswords == Spec => []SessionProvesPassword
<1>1. IInv => SessionProvesPassword
  BY DEF IInv
<1>. QED BY <1>1, Invariance, PTL

\* The accounts that stand change in one action and in two steps only.
LEMMA UsersChange ==
    ASSUME IInv, [Next]_vars, users' # users
    PROVE  \E r \in Req : VerifyCreateUser(r) \/ DeleteUser(r)
<1>. USE DEF tables, counters
<1>1. ASSUME NEW r \in Req, Arrive(r) PROVE FALSE
  BY <1>1 DEF Arrive, SignupLookupUser, VerifyLookup, LoginLookup, LogoutSend,
              DeleteLookup
<1>2. ASSUME NEW r \in Req, Handle(r) PROVE VerifyCreateUser(r) \/ DeleteUser(r)
  BY <1>2 DEF Handle, Signup, SignupLookupPending, SignupInsert, SignupSend,
              Verify, VerifyDropExpired, VerifyDropUsed, Session, LoginRevoke,
              LoginInsert, LogoutRevoke
<1>3. ~Tick /\ ~Restart /\ ~UNCHANGED vars
  BY DEF Tick, Restart, vars
<1>. QED BY <1>1, <1>2, <1>3 DEF Next

\* A /deleteAccount request closes the account its JWT names, or one opened
\* under the same address after the named one had gone: never a stranger's.
THEOREM DeletesNoStranger == Spec => NoStrangerDeleted
<1>1. IInv /\ [Next]_vars => DeletesOwn
  <2>. SUFFICES ASSUME IInv, [Next]_vars, NEW e \in Email,
                       users[e].id # 0, users'[e].id # users[e].id
                PROVE  \E r \in Req :
                          /\ At(r, "delete") /\ req[r].email = e
                          /\ req[r].uid = users[e].id \/ ~Exists(req[r].uid)
    BY DEF DeletesOwn
  <2>1. users \in [Email -> User]
    BY DEF IInv, TypeOK
  <2>2. ASSUME NEW r \in Req, VerifyCreateUser(r) PROVE FALSE
    BY <2>1, <2>2 DEF VerifyCreateUser
  <2>3. PICK r \in Req : DeleteUser(r)
    BY <2>2, UsersChange
  <2>4. At(r, "delete") /\ users' = [users EXCEPT ![req[r].email] = NoUser]
    BY <2>3 DEF DeleteUser
  <2>5. req[r].email = e
    BY <2>1, <2>4
  <2>6. DeleteKnows(req[r])
    BY <2>4, RequestFields DEF RequestOK, At
  <2>. QED BY <2>4, <2>5, <2>6 DEF DeleteKnows, Exists
<1>. QED BY <1>1, Invariance, PTL DEF Spec, NoStrangerDeleted

-----------------------------------------------------------------------------
(* Accounts implements AccountStore *)

\* The live sessions, as AccountStore sees them.
Live == {[token |-> t.token, user |-> t.user] : t \in {s \in refresh : ~s.revoked}}
Owner == [e \in Email |-> users[e].id]

\* Nothing AccountStore looks at has changed.
LEMMA Stutter ==
    ASSUME UNCHANGED <<users, refresh, opened>>
    PROVE  UNCHANGED Store!vars
BY DEF Store!vars

\* RevokeRefreshToken ends the session the token names, if there is one.
LEMMA RevokeImplements ==
    ASSUME IInv, NEW token, refresh' \in {refresh, Revoked(token)},
           UNCHANGED <<users, opened>>
    PROVE  [Store!Next]_Store!vars
<1>1. CASE refresh' = refresh
  BY <1>1, Stutter
<1>2. CASE refresh' = Revoked(token)
  <2>1. /\ refresh \subseteq RefreshToken /\ issued <= MaxTokens /\ issued \in Nat
        /\ MaxTokens \in Nat /\ \A t \in refresh : t.token \in 1..issued
    BY ConstantsAssumption DEF IInv, TypeOK, TokensOK
  <2>2. Live' = {s \in Live : s.token # token}
    BY <1>2, <2>1 DEF Live, Revoked, RefreshToken
  <2>3. CASE token \in 1..MaxTokens
    <3>1. Store!Revoke(token)
      BY <1>2, <2>2 DEF Store!Revoke, Live
    <3>. QED BY <2>3, <3>1 DEF Store!Next
  <2>4. CASE token \notin 1..MaxTokens
    <3>1. Live' = Live
      BY <2>1, <2>2, <2>4 DEF Live
    <3>. QED BY <3>1 DEF Store!vars, Live
  <2>. QED BY <2>3, <2>4
<1>. QED BY <1>1, <1>2

\* CreateUser opens an account, or is refused.
LEMMA CreateImplements ==
    ASSUME IInv, NEW r \in Req, VerifyCreateUser(r)
    PROVE  [Store!Next]_Store!vars
<1>1. UNCHANGED refresh /\ users \in [Email -> User] /\ req[r].email \in Email
  BY RequestFields DEF VerifyCreateUser, RequestOK, IInv, TypeOK, At
<1>. PICK e \in Email : e = req[r].email
  BY <1>1
<1>2. CASE UNCHANGED <<users, opened>>
  BY <1>1, <1>2, Stutter
<1>3. CASE /\ users[e].id = 0 /\ opened' = opened + 1
           /\ users' = [users EXCEPT ![e] = [id |-> opened + 1, hash |-> req[r].pw]]
  <2>1. Owner' = [Owner EXCEPT ![e] = opened + 1]
    BY <1>1, <1>3 DEF Owner
  <2>2. Store!Open(e)
    BY <1>1, <1>3, <2>1 DEF Store!Open, Owner
  <2>. QED BY <1>1, <2>2 DEF Store!Next
<1>. QED BY <1>2, <1>3 DEF VerifyCreateUser

\* CreateRefreshToken grants a session of an open account, or does nothing.
LEMMA LoginImplements ==
    ASSUME IInv, NEW r \in Req, LoginInsert(r)
    PROVE  [Store!Next]_Store!vars
<1>1. /\ UNCHANGED <<users, opened>> /\ issued < MaxTokens
      /\ \/ refresh' = refresh
         \/ refresh' = refresh \cup {NewRow(r)} /\ Exists(NewRow(r).user)
  BY DEF LoginInsert
<1>2. CASE refresh' = refresh
  BY <1>1, <1>2, Stutter
<1>3. CASE refresh' = refresh \cup {NewRow(r)} /\ Exists(NewRow(r).user)
  <2>. PICK row : row = NewRow(r)
    OBVIOUS
  <2>1. PICK e \in Email : users[e].id = req[r].uid
    BY <1>3 DEF Exists, NewRow
  <2>2. /\ req[r].uid # 0 /\ issued + 1 \in 1..MaxTokens
        /\ \A t \in refresh : t.token # issued + 1
    <3>1. LoginKnows(req[r]) /\ issued \in Nat /\ MaxTokens \in Nat /\ TokensOK
      BY RequestFields, ConstantsAssumption
         DEF LoginInsert, RequestOK, IInv, TypeOK, At
    <3>. QED BY <1>1, <3>1 DEF LoginKnows, TokensOK
  <2>3. PICK t \in 1..MaxTokens : t = issued + 1
    BY <2>2
  <2>4. row.token = t /\ row.user = users[e].id /\ ~row.revoked
    BY <2>1, <2>3 DEF NewRow
  <2>5. Live' = Live \cup {[token |-> t, user |-> users[e].id]}
    BY <1>3, <2>4 DEF Live
  <2>6. \A s \in Live : s.token # t
    BY <2>2, <2>3 DEF Live
  <2>7. Store!Grant(e, t)
    BY <1>1, <2>1, <2>2, <2>5, <2>6 DEF Store!Grant, Live
  <2>. QED BY <2>7 DEF Store!Next
<1>. QED BY <1>1, <1>2, <1>3

\* DeleteUser closes the account open under its address, if one is.
LEMMA DeleteImplements ==
    ASSUME IInv, NEW r \in Req, DeleteUser(r)
    PROVE  [Store!Next]_Store!vars
<1>1. /\ UNCHANGED opened /\ users \in [Email -> User] /\ req[r].email \in Email
      /\ \A t \in refresh : t.user # 0
  BY RequestFields
     DEF DeleteUser, RequestOK, DeleteKnows, IInv, TypeOK, TokensOK, At, counters
<1>. PICK e \in Email : e = req[r].email
  BY <1>1
<1>2. CASE UNCHANGED <<users, refresh>>
  BY <1>1, <1>2, Stutter
<1>3. CASE /\ users' = [users EXCEPT ![e] = NoUser]
           /\ refresh' = {t \in refresh : t.user # users[e].id}
  <2>1. Owner' = [Owner EXCEPT ![e] = 0]
    BY <1>1, <1>3 DEF Owner, NoUser
  <2>2. Live' = {s \in Live : s.user # users[e].id}
    BY <1>3 DEF Live
  <2>3. CASE users[e].id = 0
    <3>1. Owner' = Owner /\ Live' = Live
      BY <1>1, <1>3, <2>1, <2>2, <2>3 DEF Owner, Live
    <3>. QED BY <1>1, <3>1 DEF Store!vars, Owner, Live
  <2>4. CASE users[e].id # 0
    <3>1. Store!Close(e)
      BY <1>1, <2>1, <2>2, <2>4 DEF Store!Close, Owner, Live
    <3>. QED BY <1>1, <3>1 DEF Store!Next
  <2>. QED BY <2>3, <2>4
<1>. QED BY <1>2, <1>3 DEF DeleteUser

LEMMA RestartImplements ==
    ASSUME Restart
    PROVE  [Store!Next]_Store!vars
<1>1. UNCHANGED <<users, opened>> /\ refresh' = {}
  BY DEF Restart, counters
<1>2. Store!EndAll
  BY <1>1 DEF Store!EndAll
<1>. QED BY <1>2 DEF Store!Next

\* Every other step leaves what AccountStore sees as it is.
LEMMA OtherSteps ==
    ASSUME [Next]_vars, ~Restart,
           \A r \in Req : /\ ~VerifyCreateUser(r) /\ ~LoginInsert(r)
                          /\ ~LoginRevoke(r) /\ ~LogoutRevoke(r) /\ ~DeleteUser(r)
    PROVE  UNCHANGED <<users, refresh, opened>>
<1>. USE DEF tables, counters
<1>1. ASSUME NEW r \in Req, Arrive(r) PROVE UNCHANGED <<users, refresh, opened>>
  BY <1>1 DEF Arrive, SignupLookupUser, VerifyLookup, LoginLookup, LogoutSend,
              DeleteLookup
<1>2. ASSUME NEW r \in Req, Handle(r) PROVE UNCHANGED <<users, refresh, opened>>
  BY <1>2 DEF Handle, Signup, SignupLookupPending, SignupInsert, SignupSend,
              Verify, VerifyDropExpired, VerifyDropUsed, Session
<1>. QED BY <1>1, <1>2 DEF Next, Tick, vars

\* The handlers, statement by statement and whatever interleaves with them,
\* implement the atomic store: one account per address, identifiers used once,
\* fresh tokens, and live sessions only of accounts that are open.
THEOREM Implementation == Spec => ImplementsStore
<1>1. Init => Store!Init
  BY DEF Init, Store!Init, NoUser
<1>2. IInv /\ [Next]_vars => [Store!Next]_Store!vars
  <2>. SUFFICES ASSUME IInv, [Next]_vars PROVE [Store!Next]_Store!vars
    OBVIOUS
  <2>1. ASSUME NEW r \in Req, VerifyCreateUser(r) PROVE [Store!Next]_Store!vars
    BY <2>1, CreateImplements
  <2>2. ASSUME NEW r \in Req, LoginInsert(r) PROVE [Store!Next]_Store!vars
    BY <2>2, LoginImplements
  <2>3. ASSUME NEW r \in Req, LoginRevoke(r) \/ LogoutRevoke(r)
        PROVE  [Store!Next]_Store!vars
    <3>1. /\ UNCHANGED <<users, opened>>
          /\ refresh' \in {refresh, Revoked(req[r].token)}
      BY <2>3 DEF LoginRevoke, LogoutRevoke, counters
    <3>. QED BY <3>1, RevokeImplements
  <2>4. ASSUME NEW r \in Req, DeleteUser(r) PROVE [Store!Next]_Store!vars
    BY <2>4, DeleteImplements
  <2>5. CASE Restart
    BY <2>5, RestartImplements
  <2>. QED BY <2>1, <2>2, <2>3, <2>4, <2>5, OtherSteps, Stutter
<1>. QED BY <1>1, <1>2, Invariance, PTL DEF Spec, Store!Spec, ImplementsStore
=============================================================================
