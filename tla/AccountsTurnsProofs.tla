------------------------- MODULE AccountsTurnsProofs -------------------------
(***************************************************************************)
(* What Accounts does when people act one request at a time and no         *)
(* statement, mail or response fails: no address is both registered and    *)
(* pending, no more accounts are opened than signups were accepted, and no *)
(* live session is left without a browser that holds it.                   *)
(***************************************************************************)
EXTENDS AccountsProofs, FiniteSetTheorems

\* The condition of the run accounts_turns.
InTurns == ~Overlap /\ MaxFaults = 0

\* No two requests in flight are of one address or from one browser.
Alone ==
    \A q, r \in Req : q # r =>
        /\ req[q].email # None => req[q].email # req[r].email
        /\ req[q].browser # None => req[q].browser # req[r].browser

TurnsOK == IInv /\ faults = 0 /\ Alone

-----------------------------------------------------------------------------
(* One request at a time *)

\* A request that replaces another one in its slot is of the same address and
\* browser, or of ones nobody else has.
Fits(r, q) ==
    /\ \/ q.email \in {None, req[r].email}
       \/ \A s \in Req : req[s].email # q.email
    /\ \/ q.browser \in {None, req[r].browser}
       \/ \A s \in Req : req[s].browser # q.browser

LEMMA NoFault ==
    ASSUME InTurns, IInv, faults = 0
    PROVE  ~Fault
BY DEF InTurns, Fault

LEMMA ReplyFits ==
    ASSUME IInv, NEW r \in Req, Reply(r)
    PROVE  Begin(r, Idle) /\ Fits(r, Idle) /\ Idle \in Request
BY RequestFields DEF Fits, Idle

LEMMA GotoFits ==
    ASSUME IInv, NEW r \in Req, NEW pc \in Step, Goto(r, pc)
    PROVE  \E q \in Request :
              /\ Begin(r, q) /\ Fits(r, q)
              /\ q.pc = pc /\ q.email = req[r].email /\ q.browser = req[r].browser
              /\ q.pw = req[r].pw /\ q.uid = req[r].uid /\ q.token = req[r].token
<1>. DEFINE q == [req[r] EXCEPT !.pc = pc]
<1>1. q \in Request /\ Begin(r, q) /\ req[r] \in Request
  BY RequestFields
<1>2. /\ q.pc = pc /\ q.email = req[r].email /\ q.browser = req[r].browser
      /\ q.pw = req[r].pw /\ q.uid = req[r].uid /\ q.token = req[r].token
  BY <1>1 DEF Request
<1>. QED BY <1>1, <1>2 DEF Fits

LEMMA BeginAlone ==
    ASSUME TurnsOK, NEW r \in Req, NEW q \in Request, Begin(r, q), Fits(r, q)
    PROVE  /\ Alone'
           /\ req' \in [Req -> Request]
           /\ req'[r] = q /\ \A s \in Req \ {r} : req'[s] = req[s]
<1>1. req \in [Req -> Request] /\ req' = [req EXCEPT ![r] = q] /\ Alone
  BY DEF TurnsOK, IInv, TypeOK, Begin
<1>2. /\ req' \in [Req -> Request]
      /\ req'[r] = q /\ \A s \in Req \ {r} : req'[s] = req[s]
  BY <1>1
<1>3. ASSUME NEW s \in Req, NEW t \in Req, s # t
      PROVE  /\ req'[s].email # None => req'[s].email # req'[t].email
             /\ req'[s].browser # None => req'[s].browser # req'[t].browser
  <2>1. CASE s # r /\ t # r
    BY <1>1, <1>2, <1>3, <2>1 DEF Alone
  <2>2. CASE s = r
    BY <1>1, <1>2, <1>3, <2>2 DEF Alone, Fits
  <2>3. CASE t = r
    BY <1>1, <1>2, <1>3, <2>3 DEF Alone, Fits
  <2>. QED BY <2>1, <2>2, <2>3
<1>. QED BY <1>2, <1>3 DEF Alone

-----------------------------------------------------------------------------
(* What each action begins *)

LEMMA SignupBegins ==
    ASSUME InTurns, TurnsOK, NEW r \in Req, NEW e \in Email, NEW p \in FormPassword,
           SignupLookupUser(r, e, p)
    PROVE  \E q \in Request :
              /\ Begin(r, q) /\ Fits(r, q)
              /\ q.pc = "signupPending" /\ q.email = e /\ users[e].id = 0
              /\ UNCHANGED <<tables, mail, jar, now, counters, faults>>
<1>. DEFINE q == [Idle EXCEPT !.pc = "signupPending", !.email = e, !.pw = p]
<1>1. /\ q \in Request /\ q.pc = "signupPending" /\ q.email = e
      /\ q.browser = None
  BY DEF Idle, Request, Step
<1>2. Begin(r, q) /\ QuietEmail(e) /\ UNCHANGED <<tables, mail, jar, now, counters>>
  BY DEF SignupLookupUser
<1>3. users[e].id = 0 /\ UNCHANGED faults
  BY NoFault DEF SignupLookupUser, TurnsOK, Ok
<1>4. Fits(r, q)
  BY <1>1, <1>2 DEF Fits, QuietEmail, InTurns
<1>. QED BY <1>1, <1>2, <1>3, <1>4

LEMMA VerifyBegins ==
    ASSUME InTurns, TurnsOK, NEW r \in Req, NEW link \in mail,
           VerifyLookup(r, link)
    PROVE  \E q \in Request :
              /\ Begin(r, q) /\ Fits(r, q)
              /\ q.pc \in {"verifyExpired", "verifyCreate"}
              /\ pending[q.email] # 0
              /\ UNCHANGED <<tables, mail, jar, now, counters, faults>>
<1>. DEFINE e == QueryEmail[link.email]
<1>1. PICK pc \in {"verifyExpired", "verifyCreate"} :
         Begin(r, [Idle EXCEPT !.pc = pc, !.email = e, !.pw = link.pw])
  BY DEF VerifyLookup
<1>. DEFINE q == [Idle EXCEPT !.pc = pc, !.email = e, !.pw = link.pw]
<1>2. e \in Email /\ link.pw \in Password
  BY ConstantsAssumption DEF VerifyLookup, TurnsOK, IInv, TypeOK, Link
<1>3. /\ q \in Request /\ q.pc = pc /\ q.email = e /\ q.browser = None
  BY <1>2 DEF Idle, Request, Step, FormPassword
<1>4. /\ QuietEmail(e) /\ pending[e] # 0
      /\ UNCHANGED <<tables, mail, jar, now, counters, faults>>
  BY DEF VerifyLookup
<1>5. Fits(r, q)
  BY <1>3, <1>4 DEF Fits, QuietEmail, InTurns
<1>. QED BY <1>1, <1>3, <1>4, <1>5

LEMMA LoginBegins ==
    ASSUME InTurns, TurnsOK, NEW r \in Req, NEW b \in Browser, NEW e \in Email,
           LoginLookup(r, b, e)
    PROVE  \E q \in Request :
              /\ Begin(r, q) /\ Fits(r, q)
              /\ q.pc = IF jar[b].refresh = 0 THEN "loginInsert" ELSE "loginRevoke"
              /\ q.browser = b /\ q.token = jar[b].refresh
              /\ UNCHANGED <<tables, mail, jar, now, counters, faults>>
<1>. DEFINE q == [pc |-> IF jar[b].refresh = 0 THEN "loginInsert" ELSE "loginRevoke",
                  browser |-> b, email |-> e, pw |-> users[e].hash,
                  uid |-> users[e].id, token |-> jar[b].refresh]
<1>1. /\ Begin(r, q) /\ QuietEmail(e) /\ QuietBrowser(b) /\ users[e].id # 0
      /\ UNCHANGED <<tables, mail, jar, now, counters, faults>>
  BY DEF LoginLookup
<1>2. /\ users[e].id \in Nat /\ users[e].hash \in Password
      /\ jar[b] \in Cookies /\ jar[b].refresh \in Nat
  BY <1>1 DEF TurnsOK, IInv, TypeOK, IdsUnique, User, Cookies
<1>3. q \in Request
  BY <1>2 DEF Request, Step, FormPassword
<1>4. Fits(r, q)
  BY <1>1 DEF Fits, QuietEmail, QuietBrowser, InTurns
<1>. QED BY <1>1, <1>3, <1>4

LEMMA DeleteBegins ==
    ASSUME InTurns, TurnsOK, NEW r \in Req, NEW b \in Browser, NEW e \in Email,
           DeleteLookup(r, b, e)
    PROVE  \E q \in Request :
              /\ Begin(r, q) /\ Fits(r, q)
              /\ q.pc = "delete" /\ q.browser = b /\ q.email = e
              /\ q.uid = jar[b].uid /\ q.uid # 0 /\ users[e].id = q.uid
              /\ UNCHANGED <<tables, mail, jar, now, counters, faults>>
<1>. DEFINE q == [pc |-> "delete", browser |-> b, email |-> e, pw |-> None,
                  uid |-> jar[b].uid, token |-> 0]
<1>1. /\ Begin(r, q) /\ QuietEmail(e) /\ QuietBrowser(b)
      /\ jar[b].uid # 0 /\ users[e].id = jar[b].uid
      /\ UNCHANGED <<tables, mail, jar, now, counters, faults>>
  BY DEF DeleteLookup, GetUserFromId
<1>2. jar[b] \in Cookies /\ jar[b].uid \in Nat
  BY DEF TurnsOK, IInv, TypeOK, Cookies
<1>3. q \in Request
  BY <1>2 DEF Request, Step
<1>4. Fits(r, q)
  BY <1>1 DEF Fits, QuietEmail, QuietBrowser, InTurns
<1>. QED BY <1>1, <1>3, <1>4

LEMMA LogoutBegins ==
    ASSUME InTurns, TurnsOK, NEW r \in Req, NEW b \in Browser, LogoutSend(r, b)
    PROVE  \E q \in Request :
              /\ Begin(r, q) /\ Fits(r, q)
              /\ q.pc = "logout" /\ q.browser = b /\ q.token = jar[b].refresh
              /\ UNCHANGED <<tables, mail, jar, now, counters, faults>>
<1>. DEFINE q == [Idle EXCEPT !.pc = "logout", !.browser = b,
                              !.token = jar[b].refresh]
<1>1. /\ Begin(r, q) /\ QuietBrowser(b)
      /\ UNCHANGED <<tables, mail, jar, now, counters, faults>>
  BY DEF LogoutSend
<1>2. jar[b] \in Cookies /\ jar[b].refresh \in Nat
  BY DEF TurnsOK, IInv, TypeOK, Cookies
<1>3. /\ q \in Request /\ q.pc = "logout" /\ q.browser = b
      /\ q.token = jar[b].refresh /\ q.email = None
  BY <1>2 DEF Request, Step, Idle
<1>4. Fits(r, q)
  BY <1>1, <1>3 DEF Fits, QuietBrowser, InTurns
<1>. QED BY <1>1, <1>3, <1>4

-----------------------------------------------------------------------------
(* The condition is kept *)

\* A request ends or moves on in its slot, and none of its statements fails.
LEMMA HandleBegins ==
    ASSUME InTurns, TurnsOK, NEW r \in Req, Handle(r)
    PROVE  UNCHANGED faults /\ \E q \in Request : Begin(r, q) /\ Fits(r, q)
<1>1. IInv /\ faults = 0 /\ ~Fault
  BY NoFault DEF TurnsOK
<1>2. {"signupInsert", "signupSend", "verifyUsed", "loginInsert"} \subseteq Step
  BY DEF Step
<1>3. UNCHANGED faults
  BY <1>1 DEF Handle, Signup, SignupLookupPending, SignupInsert, SignupSend,
              Verify, VerifyDropExpired, VerifyCreateUser, VerifyDropUsed,
              Session, LoginRevoke, LoginInsert, LogoutRevoke, DeleteUser, Ok
<1>4. Reply(r) \/ \E pc \in Step : Goto(r, pc)
  BY <1>1, <1>2 DEF Handle, Signup, SignupLookupPending, SignupInsert, SignupSend,
              Verify, VerifyDropExpired, VerifyCreateUser, VerifyDropUsed,
              Session, LoginRevoke, LoginInsert, LogoutRevoke, DeleteUser
<1>. QED BY <1>1, <1>3, <1>4, ReplyFits, GotoFits

LEMMA ArriveBegins ==
    ASSUME InTurns, TurnsOK, NEW r \in Req, Arrive(r)
    PROVE  UNCHANGED faults /\ \E q \in Request : Begin(r, q) /\ Fits(r, q)
<1>1. ASSUME NEW e \in Email, NEW p \in FormPassword, SignupLookupUser(r, e, p)
      PROVE  UNCHANGED faults /\ \E q \in Request : Begin(r, q) /\ Fits(r, q)
  BY <1>1, SignupBegins
<1>2. ASSUME NEW link \in mail, VerifyLookup(r, link)
      PROVE  UNCHANGED faults /\ \E q \in Request : Begin(r, q) /\ Fits(r, q)
  BY <1>2, VerifyBegins
<1>3. ASSUME NEW b \in Browser, NEW e \in Email, LoginLookup(r, b, e)
      PROVE  UNCHANGED faults /\ \E q \in Request : Begin(r, q) /\ Fits(r, q)
  BY <1>3, LoginBegins
<1>4. ASSUME NEW b \in Browser, NEW e \in Email, DeleteLookup(r, b, e)
      PROVE  UNCHANGED faults /\ \E q \in Request : Begin(r, q) /\ Fits(r, q)
  BY <1>4, DeleteBegins
<1>5. ASSUME NEW b \in Browser, LogoutSend(r, b)
      PROVE  UNCHANGED faults /\ \E q \in Request : Begin(r, q) /\ Fits(r, q)
  BY <1>5, LogoutBegins
<1>. QED BY <1>1, <1>2, <1>3, <1>4, <1>5 DEF Arrive

LEMMA TurnsInductive ==
    ASSUME InTurns, TurnsOK, [Next]_vars
    PROVE  TurnsOK'
<1>1. IInv'
  BY StepInvariant DEF TurnsOK
<1>2. CASE \E r \in Req : Arrive(r) \/ Handle(r)
  <2>1. PICK r \in Req : Arrive(r) \/ Handle(r)
    BY <1>2
  <2>2. UNCHANGED faults /\ \E q \in Request : Begin(r, q) /\ Fits(r, q)
    BY <2>1, ArriveBegins, HandleBegins
  <2>3. Alone'
    BY <2>2, BeginAlone
  <2>. QED BY <1>1, <2>2, <2>3 DEF TurnsOK
<1>3. CASE Tick \/ UNCHANGED vars
  <2>1. UNCHANGED <<req, faults>>
    BY <1>3 DEF Tick, vars
  <2>. QED BY <1>1, <2>1 DEF TurnsOK, Alone
<1>4. CASE Restart
  <2>1. UNCHANGED faults /\ \A q \in Req : req'[q].email = None /\ req'[q].browser = None
    BY <1>4 DEF Restart, Idle
  <2>. QED BY <1>1, <2>1 DEF TurnsOK, Alone
<1>. QED BY <1>2, <1>3, <1>4 DEF Next

-----------------------------------------------------------------------------
(* Addresses *)

Signing == {"signupPending", "signupInsert", "signupSend"}
Verifying == {"verifyExpired", "verifyCreate"}

\* Addresses whose pending row no account has been opened from.
Open == {e \in Email : /\ pending[e] # 0
                       /\ \A r \in Req : At(r, "verifyUsed") => req[r].email # e}

AddressesOK ==
    /\ TurnsOK
    /\ \A r \in Req : req[r].pc \in Signing => users[req[r].email].id = 0
    /\ \A r \in Req : req[r].pc \in Verifying => pending[req[r].email] # 0
    /\ NoPendingBesideAccount
    /\ IsFiniteSet(Open) /\ opened + Cardinality(Open) <= signups

\* Fewer pending rows to open accounts from, and as many signups.
LEMMA OpenShrinks ==
    ASSUME AddressesOK, Open' \subseteq Open, UNCHANGED <<opened, signups>>,
           opened \in Nat, signups \in Nat
    PROVE  IsFiniteSet(Open') /\ opened' + Cardinality(Open') <= signups'
<1>1. IsFiniteSet(Open) /\ opened + Cardinality(Open) <= signups
  BY DEF AddressesOK
<1>2. /\ IsFiniteSet(Open') /\ Cardinality(Open') <= Cardinality(Open)
      /\ Cardinality(Open) \in Nat
  BY <1>1, FS_Subset, FS_CardinalityType
<1>3. Cardinality(Open') \in Nat
  BY <1>2, FS_CardinalityType
<1>. QED BY <1>1, <1>2, <1>3

\* A request of which no row of verify_tokens and no new account comes.
LEMMA AddressesStay ==
    ASSUME AddressesOK, TurnsOK', NEW r \in Req, NEW q \in Request,
           Begin(r, q), Fits(r, q),
           ~At(r, "verifyUsed"), q.pc # "verifyUsed",
           q.pc \in Signing => users[q.email].id = 0,
           q.pc \in Verifying => pending[q.email] # 0,
           UNCHANGED <<pending, opened, signups>>,
           \A e \in Email : users'[e].id \in {0, users[e].id}
    PROVE  AddressesOK'
<1>1. /\ TurnsOK /\ req'[r] = q /\ \A s \in Req \ {r} : req'[s] = req[s]
      /\ \A s \in Req : RequestOK(req[s])' /\ opened \in Nat /\ signups \in Nat
  BY BeginAlone DEF AddressesOK, TurnsOK, IInv, TypeOK
<1>2. ASSUME NEW s \in Req, req'[s].pc \in Signing
      PROVE  users'[req'[s].email].id = 0
  <2>1. users[req'[s].email].id = 0
    BY <1>1, <1>2 DEF AddressesOK
  <2>2. req'[s].email \in Email
    BY <1>1, <1>2 DEF RequestOK, Signing
  <2>. QED BY <2>1, <2>2
<1>3. ASSUME NEW s \in Req, req'[s].pc \in Verifying
      PROVE  pending'[req'[s].email] # 0
  BY <1>1, <1>3 DEF AddressesOK
<1>4. \A s \in Req : /\ req'[s].pc = "verifyUsed" <=> req[s].pc = "verifyUsed"
                     /\ req[s].pc = "verifyUsed" => req'[s] = req[s]
  BY <1>1 DEF At
<1>5. NoPendingBesideAccount'
  BY <1>4 DEF AddressesOK, NoPendingBesideAccount, At
<1>6. Open' \subseteq Open
  BY <1>4 DEF Open, At
<1>7. IsFiniteSet(Open') /\ opened' + Cardinality(Open') <= signups'
  BY <1>1, <1>6, OpenShrinks
<1>. QED BY <1>2, <1>3, <1>5, <1>7 DEF AddressesOK

\* CreateVerifyToken: one more signup, one more row.
LEMMA SignupInsertAddresses ==
    ASSUME InTurns, AddressesOK, TurnsOK', NEW r \in Req, SignupInsert(r)
    PROVE  AddressesOK'
<1>. DEFINE e == req[r].email
<1>1. /\ TurnsOK /\ IInv /\ req[r] \in Request /\ e \in Email /\ req[r].pc = "signupInsert"
      /\ users[e].id = 0 /\ UNCHANGED <<users, opened>>
      /\ pending \in [Email -> Nat] /\ opened \in Nat /\ signups \in Nat
      /\ now + Expiry \in Nat /\ now + Expiry # 0
  BY ConstantsAssumption, RequestFields
     DEF AddressesOK, TurnsOK, IInv, TypeOK, SignupInsert, At, RequestOK, Signing
<1>2. CASE Reply(r) /\ UNCHANGED <<pending, signups>>
  <2>1. Begin(r, Idle) /\ Fits(r, Idle) /\ Idle \in Request /\ Idle.pc = "idle"
    BY <1>1, <1>2, ReplyFits DEF Idle
  <2>. QED BY <1>1, <1>2, <2>1, AddressesStay DEF At, Signing, Verifying
<1>3. CASE /\ pending[e] = 0 /\ pending' = [pending EXCEPT ![e] = now + Expiry]
           /\ signups' = signups + 1 /\ Goto(r, "signupSend")
  <2>1. "signupSend" \in Step
    BY DEF Step
  <2>2. PICK q \in Request : /\ Begin(r, q) /\ Fits(r, q)
                             /\ q.pc = "signupSend" /\ q.email = e
    BY <1>1, <1>3, <2>1, GotoFits
  <2>3. req'[r] = q /\ \A s \in Req \ {r} : req'[s] = req[s]
    BY <1>1, <2>2, BeginAlone
  <2>4. /\ \A f \in Email \ {e} : pending'[f] = pending[f]
        /\ pending'[e] # 0
    BY <1>1, <1>3
  <2>5. ASSUME NEW s \in Req, req'[s].pc \in Signing
        PROVE  users'[req'[s].email].id = 0
    BY <1>1, <2>2, <2>3, <2>5 DEF AddressesOK
  <2>6. ASSUME NEW s \in Req, req'[s].pc \in Verifying
        PROVE  pending'[req'[s].email] # 0
    <3>1. s # r /\ req'[s] = req[s]
      BY <2>2, <2>3, <2>6 DEF Verifying
    <3>2. req[s].email \in Email /\ pending[req[s].email] # 0
      BY <1>1, <2>6, <3>1 DEF AddressesOK, Verifying, IInv, RequestOK
    <3>. QED BY <2>4, <3>1, <3>2
  <2>7. \A s \in Req : /\ req'[s].pc = "verifyUsed" <=> req[s].pc = "verifyUsed"
                       /\ req[s].pc = "verifyUsed" => req'[s] = req[s]
    BY <1>1, <2>2, <2>3
  <2>8. NoPendingBesideAccount'
    BY <1>1, <2>4, <2>7 DEF AddressesOK, NoPendingBesideAccount, At
  <2>9. Open' \subseteq Open \cup {e}
    BY <2>4, <2>7 DEF Open, At
  <2>10. IsFiniteSet(Open) /\ opened + Cardinality(Open) <= signups
    BY DEF AddressesOK
  <2>11. /\ IsFiniteSet(Open \cup {e})
         /\ Cardinality(Open \cup {e}) <= Cardinality(Open) + 1
         /\ Cardinality(Open) \in Nat
    <3>1. Cardinality(Open) \in Nat
      BY <2>10, FS_CardinalityType
    <3>2. CASE e \in Open
      <4>1. Open \cup {e} = Open
        BY <3>2
      <4>2. IsFiniteSet(Open \cup {e}) /\ Cardinality(Open \cup {e}) = Cardinality(Open)
        BY <2>10, <4>1
      <4>. QED BY <3>1, <4>2
    <3>3. CASE e \notin Open
      <4>1. IsFiniteSet(Open \cup {e}) /\ Cardinality(Open \cup {e}) = Cardinality(Open) + 1
        BY <2>10, <3>3, FS_AddElement
      <4>. QED BY <3>1, <4>1
    <3>. QED BY <3>2, <3>3
  <2>12. IsFiniteSet(Open') /\ Cardinality(Open') <= Cardinality(Open \cup {e})
    BY <2>9, <2>11, FS_Subset
  <2>13. Cardinality(Open') \in Nat /\ Cardinality(Open \cup {e}) \in Nat
    BY <2>11, <2>12, FS_CardinalityType
  <2>14. opened' + Cardinality(Open') <= signups'
    BY <1>1, <1>3, <2>10, <2>11, <2>12, <2>13
  <2>. QED BY <2>5, <2>6, <2>8, <2>12, <2>14 DEF AddressesOK
<1>. QED BY <1>1, <1>2, <1>3, NoFault DEF SignupInsert, TurnsOK

\* CreateUser: one more account, and a row fewer to open one from.
LEMMA VerifyCreateUserAddresses ==
    ASSUME InTurns, AddressesOK, TurnsOK', NEW r \in Req, VerifyCreateUser(r)
    PROVE  AddressesOK'
<1>. DEFINE e == req[r].email
<1>1. /\ TurnsOK /\ IInv /\ req[r] \in Request /\ e \in Email /\ e # None
      /\ req[r].pc = "verifyCreate"
      /\ pending[e] # 0 /\ UNCHANGED <<pending, signups>>
      /\ users \in [Email -> User] /\ opened \in Nat /\ signups \in Nat /\ Alone
  BY ConstantsAssumption, RequestFields
     DEF AddressesOK, TurnsOK, IInv, TypeOK, VerifyCreateUser, At, RequestOK, Verifying
<1>2. CASE Reply(r) /\ UNCHANGED <<users, opened>>
  <2>1. Begin(r, Idle) /\ Fits(r, Idle) /\ Idle \in Request /\ Idle.pc = "idle"
    BY <1>1, <1>2, ReplyFits DEF Idle
  <2>. QED BY <1>1, <1>2, <2>1, AddressesStay DEF At, Signing, Verifying
<1>3. CASE /\ users' = [users EXCEPT ![e] = [id |-> opened + 1, hash |-> req[r].pw]]
           /\ opened' = opened + 1 /\ Goto(r, "verifyUsed")
  <2>1. "verifyUsed" \in Step
    BY DEF Step
  <2>2. PICK q \in Request : /\ Begin(r, q) /\ Fits(r, q)
                             /\ q.pc = "verifyUsed" /\ q.email = e
    BY <1>1, <1>3, <2>1, GotoFits
  <2>3. req'[r] = q /\ \A s \in Req \ {r} : req'[s] = req[s]
    BY <1>1, <2>2, BeginAlone
  <2>4. \A f \in Email \ {e} : users'[f] = users[f]
    BY <1>1, <1>3
  <2>5. ASSUME NEW s \in Req, req'[s].pc \in Signing
        PROVE  users'[req'[s].email].id = 0
    <3>1. s # r /\ req'[s] = req[s]
      BY <2>2, <2>3, <2>5 DEF Signing
    <3>2. /\ users[req[s].email].id = 0 /\ req[s].email \in Email
          /\ req[s].email # e
      BY <1>1, <2>5, <3>1 DEF AddressesOK, Signing, IInv, RequestOK, Alone
    <3>. QED BY <2>4, <3>1, <3>2
  <2>6. ASSUME NEW s \in Req, req'[s].pc \in Verifying
        PROVE  pending'[req'[s].email] # 0
    BY <1>1, <2>2, <2>3, <2>6 DEF AddressesOK, Verifying
  <2>7. NoPendingBesideAccount'
    <3>. SUFFICES ASSUME NEW f \in Email, users'[f].id # 0, pending'[f] # 0
                  PROVE  \E s \in Req : req'[s].pc = "verifyUsed" /\ req'[s].email = f
      BY DEF NoPendingBesideAccount, At
    <3>1. CASE f = e
      BY <2>2, <2>3, <3>1
    <3>2. CASE f # e
      <4>1. PICK s \in Req : req[s].pc = "verifyUsed" /\ req[s].email = f
        BY <1>1, <2>4, <3>2 DEF AddressesOK, NoPendingBesideAccount, At
      <4>. QED BY <1>1, <2>3, <4>1
    <3>. QED BY <3>1, <3>2
  <2>8. Open' \subseteq Open \ {e} /\ e \in Open
    <3>1. e \in Open
      BY <1>1 DEF Open, Alone, At
    <3>2. e \notin Open'
      BY <2>2, <2>3 DEF Open, At
    <3>3. Open' \subseteq Open
      BY <1>1, <2>2, <2>3 DEF Open, At
    <3>. QED BY <3>1, <3>2, <3>3
  <2>9. IsFiniteSet(Open) /\ opened + Cardinality(Open) <= signups
    BY DEF AddressesOK
  <2>10. /\ IsFiniteSet(Open \ {e})
         /\ Cardinality(Open \ {e}) = Cardinality(Open) - 1
         /\ Cardinality(Open) \in Nat
    BY <2>8, <2>9, FS_RemoveElement, FS_CardinalityType
  <2>11. IsFiniteSet(Open') /\ Cardinality(Open') <= Cardinality(Open \ {e})
    BY <2>8, <2>10, FS_Subset
  <2>12. Cardinality(Open') \in Nat
    BY <2>11, FS_CardinalityType
  <2>13. opened' + Cardinality(Open') <= signups'
    BY <1>1, <1>3, <2>9, <2>10, <2>11, <2>12
  <2>. QED BY <2>5, <2>6, <2>7, <2>11, <2>13 DEF AddressesOK
<1>. QED BY <1>1, <1>2, <1>3, NoFault DEF VerifyCreateUser, TurnsOK

\* DeleteVerifyTokenFromEmail: the row goes, and no other request is after it.
LEMMA VerifyDropAddresses ==
    ASSUME InTurns, AddressesOK, TurnsOK', NEW r \in Req,
           VerifyDropExpired(r) \/ VerifyDropUsed(r)
    PROVE  AddressesOK'
<1>. DEFINE e == req[r].email
<1>1. /\ TurnsOK /\ IInv /\ Alone /\ req[r] \in Request /\ e \in Email /\ e # None
      /\ pending \in [Email -> Nat] /\ opened \in Nat /\ signups \in Nat
      /\ UNCHANGED <<users, opened, signups>> /\ Reply(r) /\ ~Fault
  BY ConstantsAssumption, RequestFields, NoFault
     DEF AddressesOK, TurnsOK, IInv, TypeOK, VerifyDropExpired, VerifyDropUsed,
         At, RequestOK, counters
<1>2. pending' = [pending EXCEPT ![e] = 0]
  BY <1>1 DEF VerifyDropExpired, VerifyDropUsed
<1>3. /\ req'[r].pc = "idle" /\ \A s \in Req \ {r} : req'[s] = req[s]
      /\ \A s \in Req \ {r} : req[s].email # e
  BY <1>1 DEF Reply, Idle, IInv, TypeOK, Alone
<1>4. /\ pending'[e] = 0 /\ \A f \in Email \ {e} : pending'[f] = pending[f]
  BY <1>1, <1>2
<1>5. ASSUME NEW s \in Req, req'[s].pc \in Signing
      PROVE  users'[req'[s].email].id = 0
  BY <1>1, <1>3, <1>5 DEF AddressesOK, Signing
<1>6. ASSUME NEW s \in Req, req'[s].pc \in Verifying
      PROVE  pending'[req'[s].email] # 0
  <2>1. s # r /\ req'[s] = req[s] /\ req[s].email # e
    BY <1>3, <1>6 DEF Verifying
  <2>2. req[s].email \in Email /\ pending[req[s].email] # 0
    BY <1>1, <1>6, <2>1 DEF AddressesOK, Verifying, IInv, RequestOK
  <2>. QED BY <1>4, <2>1, <2>2
<1>7. NoPendingBesideAccount'
  <2>. SUFFICES ASSUME NEW f \in Email, users'[f].id # 0, pending'[f] # 0
                PROVE  \E s \in Req : req'[s].pc = "verifyUsed" /\ req'[s].email = f
    BY DEF NoPendingBesideAccount, At
  <2>1. f # e /\ pending[f] # 0 /\ users[f].id # 0
    BY <1>1, <1>4
  <2>2. PICK s \in Req : req[s].pc = "verifyUsed" /\ req[s].email = f
    BY <2>1 DEF AddressesOK, NoPendingBesideAccount, At
  <2>. QED BY <1>3, <2>1, <2>2
<1>8. Open' \subseteq Open
  <2>. SUFFICES ASSUME NEW f \in Open' PROVE f \in Open
    OBVIOUS
  <2>1. /\ f \in Email /\ pending'[f] # 0
        /\ \A s \in Req : req'[s].pc = "verifyUsed" => req'[s].email # f
    BY DEF Open, At
  <2>2. f # e /\ pending[f] # 0
    BY <1>4, <2>1
  <2>3. \A s \in Req : req[s].pc = "verifyUsed" => req[s].email # f
    BY <1>3, <2>1, <2>2
  <2>. QED BY <2>1, <2>2, <2>3 DEF Open, At
<1>9. IsFiniteSet(Open') /\ opened' + Cardinality(Open') <= signups'
  BY <1>1, <1>8, OpenShrinks
<1>. QED BY <1>5, <1>6, <1>7, <1>9 DEF AddressesOK

\* The other statements open no account and put no row in verify_tokens.
LEMMA OtherStatementsAddresses ==
    ASSUME InTurns, AddressesOK, TurnsOK', NEW r \in Req,
           SignupLookupPending(r) \/ SignupSend(r) \/ Session(r)
    PROVE  AddressesOK'
<1>1. /\ TurnsOK /\ IInv /\ ~Fault /\ req[r] \in Request
      /\ users \in [Email -> User]
      /\ {"signupInsert", "loginInsert"} \subseteq Step
  BY RequestFields, NoFault DEF AddressesOK, TurnsOK, IInv, TypeOK, Step
<1>. USE DEF tables, counters
<1>2. CASE /\ At(r, "signupPending") /\ Goto(r, "signupInsert")
           /\ UNCHANGED <<users, pending, opened, signups>>
  <2>1. PICK q \in Request : /\ Begin(r, q) /\ Fits(r, q)
                             /\ q.pc = "signupInsert" /\ q.email = req[r].email
    BY <1>1, <1>2, GotoFits
  <2>2. users[q.email].id = 0 /\ ~At(r, "verifyUsed") /\ q.pc \notin Verifying
    BY <1>2, <2>1 DEF AddressesOK, Signing, Verifying, At
  <2>. QED BY <1>2, <2>1, <2>2, AddressesStay
<1>3. CASE /\ At(r, "loginRevoke") /\ Goto(r, "loginInsert")
           /\ UNCHANGED <<users, pending, opened, signups>>
  <2>1. PICK q \in Request : Begin(r, q) /\ Fits(r, q) /\ q.pc = "loginInsert"
    BY <1>1, <1>3, GotoFits
  <2>2. ~At(r, "verifyUsed") /\ q.pc \notin Verifying /\ q.pc \notin Signing
    BY <1>3, <2>1 DEF Signing, Verifying, At
  <2>. QED BY <1>3, <2>1, <2>2, AddressesStay
<1>4. CASE /\ ~At(r, "verifyUsed") /\ Reply(r)
           /\ UNCHANGED <<pending, opened, signups>>
           /\ \A e \in Email : users'[e].id \in {0, users[e].id}
  <2>1. Begin(r, Idle) /\ Fits(r, Idle) /\ Idle \in Request /\ Idle.pc = "idle"
    BY <1>1, <1>4, ReplyFits DEF Idle
  <2>2. Idle.pc \notin Verifying /\ Idle.pc \notin Signing /\ Idle.pc # "verifyUsed"
    BY <2>1 DEF Signing, Verifying
  <2>. QED BY <1>4, <2>1, <2>2, AddressesStay
<1>5. CASE SignupLookupPending(r)
  BY <1>1, <1>2, <1>4, <1>5 DEF SignupLookupPending, At
<1>6. CASE SignupSend(r)
  BY <1>4, <1>6 DEF SignupSend, At
<1>7. CASE LoginRevoke(r)
  BY <1>3, <1>7 DEF LoginRevoke
<1>8. CASE LoginInsert(r) \/ LogoutRevoke(r)
  BY <1>4, <1>8 DEF LoginInsert, LogoutRevoke, At
<1>9. CASE DeleteUser(r)
  <2>1. \A e \in Email : users'[e].id \in {0, users[e].id}
    BY <1>1, <1>9 DEF DeleteUser, NoUser
  <2>. QED BY <1>4, <1>9, <2>1 DEF DeleteUser, At
<1>. QED BY <1>5, <1>6, <1>7, <1>8, <1>9 DEF Session

LEMMA ArriveAddresses ==
    ASSUME InTurns, AddressesOK, TurnsOK', NEW r \in Req, Arrive(r)
    PROVE  AddressesOK'
<1>1. TurnsOK /\ ~At(r, "verifyUsed")
  BY DEF AddressesOK, Arrive, SignupLookupUser, VerifyLookup, LoginLookup,
         DeleteLookup, LogoutSend, At
<1>2. ASSUME NEW q \in Request, Begin(r, q), Fits(r, q), q.pc # "verifyUsed",
             q.pc \in Signing => users[q.email].id = 0,
             q.pc \in Verifying => pending[q.email] # 0,
             UNCHANGED <<tables, counters>>
      PROVE  AddressesOK'
  <2>1. UNCHANGED <<users, pending, opened, signups>>
    BY <1>2 DEF tables, counters
  <2>. QED BY <1>1, <1>2, <2>1, AddressesStay
<1>. USE DEF Signing, Verifying
<1>3. ASSUME NEW e \in Email, NEW p \in FormPassword, SignupLookupUser(r, e, p)
      PROVE  AddressesOK'
  BY <1>1, <1>2, <1>3, SignupBegins
<1>4. ASSUME NEW link \in mail, VerifyLookup(r, link) PROVE AddressesOK'
  BY <1>1, <1>2, <1>4, VerifyBegins
<1>5. ASSUME NEW b \in Browser, NEW e \in Email, LoginLookup(r, b, e)
      PROVE  AddressesOK'
  <2>1. PICK q \in Request :
           /\ Begin(r, q) /\ Fits(r, q) /\ q.pc \in {"loginInsert", "loginRevoke"}
           /\ UNCHANGED <<tables, counters>>
    BY <1>1, <1>5, LoginBegins
  <2>. QED BY <1>2, <2>1
<1>6. ASSUME NEW b \in Browser, NEW e \in Email, DeleteLookup(r, b, e)
      PROVE  AddressesOK'
  BY <1>1, <1>2, <1>6, DeleteBegins
<1>7. ASSUME NEW b \in Browser, LogoutSend(r, b) PROVE AddressesOK'
  BY <1>1, <1>2, <1>7, LogoutBegins
<1>. QED BY <1>3, <1>4, <1>5, <1>6, <1>7 DEF Arrive

LEMMA AddressesInductive ==
    ASSUME InTurns, AddressesOK, [Next]_vars
    PROVE  AddressesOK'
<1>1. TurnsOK /\ TurnsOK'
  BY TurnsInductive DEF AddressesOK
<1>2. ASSUME NEW r \in Req, Arrive(r) \/ Handle(r) PROVE AddressesOK'
  BY <1>1, <1>2, ArriveAddresses, SignupInsertAddresses, VerifyDropAddresses,
     VerifyCreateUserAddresses, OtherStatementsAddresses
     DEF Handle, Signup, Verify
<1>3. CASE Tick \/ UNCHANGED vars
  <2>1. UNCHANGED <<users, pending, req, opened, signups>>
    BY <1>3 DEF Tick, vars, tables, counters
  <2>2. Open' = Open
    BY <2>1 DEF Open, At
  <2>3. NoPendingBesideAccount'
    BY <2>1 DEF AddressesOK, NoPendingBesideAccount, At
  <2>. QED BY <1>1, <2>1, <2>2, <2>3 DEF AddressesOK
<1>4. CASE Restart
  <2>1. /\ \A e \in Email : pending'[e] = 0
        /\ \A s \in Req : req'[s].pc = "idle"
        /\ UNCHANGED <<opened, signups>> /\ opened \in Nat /\ signups \in Nat
    BY <1>1, <1>4 DEF Restart, Idle, counters, TurnsOK, IInv, TypeOK
  <2>2. Open' = {}
    BY <2>1 DEF Open
  <2>3. IsFiniteSet(Open') /\ opened' + Cardinality(Open') <= signups'
    BY <2>1, <2>2, OpenShrinks
  <2>. QED BY <1>1, <2>1, <2>3
           DEF AddressesOK, NoPendingBesideAccount, Signing, Verifying
<1>. QED BY <1>2, <1>3, <1>4 DEF Next

LEMMA AddressesInit == ASSUME InTurns, Init PROVE AddressesOK
<1>1. IInv
  BY InitInvariant
<1>2. TurnsOK
  BY <1>1 DEF TurnsOK, Init, Alone, Idle
<1>3. Open = {}
  BY DEF Open, Init
<1>4. IsFiniteSet(Open) /\ opened + Cardinality(Open) <= signups
  BY <1>3, FS_EmptySet DEF Init
<1>. QED BY <1>2, <1>4
         DEF AddressesOK, NoPendingBesideAccount, Signing, Verifying, Init, Idle

\* One request at a time and no failure: no address is both registered and
\* pending, but while HandlerVerify is about to remove the row it has used.
THEOREM NonePendingBesideAccount ==
    ASSUME InTurns
    PROVE  Spec => []NoPendingBesideAccount
<1>1. Init => AddressesOK
  BY AddressesInit
<1>2. AddressesOK /\ [Next]_vars => AddressesOK'
  BY AddressesInductive
<1>3. AddressesOK => NoPendingBesideAccount
  BY DEF AddressesOK
<1>. QED BY <1>1, <1>2, <1>3, PTL DEF Spec

\* One request at a time and no failure: every account HandlerVerify opens uses
\* up the row of an accepted signup, whichever link it was asked with and whatever
\* is deleted and signed up in between, so that no more accounts are ever opened
\* than signups were accepted.
THEOREM SignupsCoverAccounts ==
    ASSUME InTurns
    PROVE  Spec => []OpenedBySignup
<1>1. Init => AddressesOK
  BY AddressesInit
<1>2. AddressesOK /\ [Next]_vars => AddressesOK'
  BY AddressesInductive
<1>3. AddressesOK => OpenedBySignup
  <2>. SUFFICES ASSUME AddressesOK PROVE OpenedBySignup
    OBVIOUS
  <2>1. /\ IsFiniteSet(Open) /\ opened + Cardinality(Open) <= signups
        /\ opened \in Nat /\ signups \in Nat
    BY DEF AddressesOK, TurnsOK, IInv, TypeOK
  <2>2. Cardinality(Open) \in Nat
    BY <2>1, FS_CardinalityType
  <2>. QED BY <2>1, <2>2 DEF OpenedBySignup
<1>. QED BY <1>1, <1>2, <1>3, PTL DEF Spec

-----------------------------------------------------------------------------
(* Sessions *)

\* What a request of a session knows of its browser's cookies.
SessionKnown(q) ==
    /\ q.pc \in {"loginRevoke", "logout"} => q.token = jar[q.browser].refresh
    /\ q.pc = "loginInsert" =>
          \A t \in refresh : t.token = jar[q.browser].refresh => t.revoked
    /\ q.pc = "delete" => q.uid = jar[q.browser].uid /\ users[q.email].id = q.uid

\* The two cookies of a browser are of one session.
JarOK ==
    \A b \in Browser :
        /\ jar[b].refresh <= issued
        /\ \A t \in refresh : t.token = jar[b].refresh => t.user = jar[b].uid

SessionsOK ==
    /\ TurnsOK
    /\ \A r \in Req : SessionKnown(req[r])
    /\ JarOK
    /\ LiveSessionHeld

\* Rows of refresh_tokens from before a step, some of them revoked by it.
OldRow(t) ==
    \E u \in refresh : /\ u.token = t.token /\ u.user = t.user
                       /\ u.revoked => t.revoked

\* A step of one request leaves what the others know of their sessions.
LEMMA OthersKnow ==
    ASSUME SessionsOK, NEW r \in Req, NEW q \in Request, Begin(r, q), Fits(r, q),
           \A b \in Browser : b # req[r].browser => jar'[b] = jar[b],
           \A e \in Email : e # req[r].email => users'[e] = users[e],
           \A t \in refresh' : t.token = issued + 1 \/ OldRow(t)
    PROVE  \A s \in Req : s # r => SessionKnown(req[s])'
<1>. SUFFICES ASSUME NEW s \in Req, s # r PROVE SessionKnown(req[s])'
  OBVIOUS
<1>1. /\ TurnsOK /\ IInv /\ Alone /\ req'[s] = req[s] /\ RequestOK(req[s])
      /\ SessionKnown(req[s]) /\ JarOK
      /\ None \notin Browser /\ None \notin Email
      /\ jar \in [Browser -> Cookies] /\ issued \in Nat
  BY ConstantsAssumption, BeginAlone, RequestFields DEF SessionsOK, TurnsOK, IInv, TypeOK
<1>2. CASE req[s].pc \in {"loginRevoke", "logout", "loginInsert", "delete"}
  <2>1. req[s].browser \in Browser
    BY <1>1, <1>2 DEF RequestOK, LoginKnows, DeleteKnows
  <2>2. /\ jar'[req[s].browser] = jar[req[s].browser]
        /\ jar[req[s].browser].refresh \in Nat
        /\ jar[req[s].browser].refresh <= issued
    BY <1>1, <2>1 DEF Alone, JarOK, Cookies
  <2>3. CASE req[s].pc \in {"loginRevoke", "logout"}
    BY <1>1, <2>2, <2>3 DEF SessionKnown
  <2>4. CASE req[s].pc = "loginInsert"
    <3>1. \A t \in refresh : t.token = jar[req[s].browser].refresh => t.revoked
      BY <1>1, <2>4 DEF SessionKnown
    <3>2. \A t \in refresh' : t.token = jar[req[s].browser].refresh => t.revoked
      BY <1>1, <2>2, <3>1 DEF OldRow
    <3>. QED BY <1>1, <2>2, <2>4, <3>2 DEF SessionKnown
  <2>5. CASE req[s].pc = "delete"
    <3>1. req[s].email \in Email
      BY <1>1, <2>5 DEF RequestOK, DeleteKnows
    <3>2. users'[req[s].email] = users[req[s].email]
      BY <1>1, <3>1 DEF Alone
    <3>. QED BY <1>1, <2>2, <2>5, <3>2 DEF SessionKnown
  <2>. QED BY <1>2, <2>3, <2>4, <2>5
<1>3. CASE req[s].pc \notin {"loginRevoke", "logout", "loginInsert", "delete"}
  BY <1>1, <1>3 DEF SessionKnown
<1>. QED BY <1>2, <1>3

\* A step that touches neither cookies nor refresh_tokens.
LEMMA CookiesStay ==
    ASSUME SessionsOK, TurnsOK', NEW r \in Req, NEW q \in Request,
           Begin(r, q), Fits(r, q), SessionKnown(q),
           UNCHANGED <<refresh, jar, issued>>,
           q.pc # "delete" \/ UNCHANGED users,
           \A e \in Email : e # req[r].email => users'[e] = users[e]
    PROVE  SessionsOK'
<1>1. \A t \in refresh' : OldRow(t)
  BY DEF OldRow
<1>2. \A s \in Req : s # r => SessionKnown(req[s])'
  BY <1>1, OthersKnow
<1>3. req'[r] = q
  BY BeginAlone DEF SessionsOK
<1>4. SessionKnown(req[r])'
  BY <1>3 DEF SessionKnown
<1>5. JarOK' /\ LiveSessionHeld'
  BY DEF SessionsOK, JarOK, LiveSessionHeld
<1>. QED BY <1>2, <1>4, <1>5 DEF SessionsOK

\* A row of Revoked comes from one of refresh, and is revoked if named.
LEMMA RevokedNamed ==
    ASSUME refresh \subseteq RefreshToken, NEW token, refresh' = Revoked(token)
    PROVE  \A t \in refresh' : OldRow(t) /\ (t.token = token => t.revoked)
<1>. SUFFICES ASSUME NEW t \in refresh'
              PROVE  OldRow(t) /\ (t.token = token => t.revoked)
  OBVIOUS
<1>1. PICK u \in refresh :
         t = IF u.token = token THEN [u EXCEPT !.revoked = TRUE] ELSE u
  BY DEF Revoked
<1>2. u \in RefreshToken
  OBVIOUS
<1>3. t.token = u.token /\ t.user = u.user
  BY <1>1, <1>2 DEF RefreshToken
<1>4. (u.revoked => t.revoked) /\ (u.token = token => t.revoked)
  <2>1. CASE u.token = token
    <3>1. t = [u EXCEPT !.revoked = TRUE]
      BY <1>1, <2>1
    <3>2. t.revoked = TRUE
      BY <1>2, <3>1 DEF RefreshToken
    <3>. QED BY <3>2
  <2>2. CASE u.token # token
    BY <1>1, <2>2
  <2>. QED BY <2>1, <2>2
<1>. QED BY <1>3, <1>4 DEF OldRow

\* Rows that were there before are still rows of the session of their cookies.
LEMMA OldRowsOwned ==
    ASSUME JarOK, NEW b \in Browser, NEW t, OldRow(t), t.token = jar[b].refresh
    PROVE  t.user = jar[b].uid
BY DEF JarOK, OldRow

LEMMA LoginRevokeSessions ==
    ASSUME InTurns, SessionsOK, TurnsOK', NEW r \in Req, LoginRevoke(r)
    PROVE  SessionsOK'
<1>1. /\ TurnsOK /\ IInv /\ ~Fault /\ SessionKnown(req[r]) /\ JarOK
      /\ LiveSessionHeld /\ refresh \subseteq RefreshToken
      /\ "loginInsert" \in Step /\ At(r, "loginRevoke")
      /\ UNCHANGED <<users, jar, issued>>
  BY NoFault DEF SessionsOK, TurnsOK, IInv, TypeOK, Step, LoginRevoke, counters
<1>2. refresh' = Revoked(req[r].token) /\ Goto(r, "loginInsert")
  BY <1>1 DEF LoginRevoke
<1>3. PICK q \in Request :
         /\ Begin(r, q) /\ Fits(r, q)
         /\ q.pc = "loginInsert" /\ q.browser = req[r].browser
  BY <1>1, <1>2, GotoFits
<1>4. \A t \in refresh' : OldRow(t) /\ (t.token = req[r].token => t.revoked)
  BY <1>1, <1>2, RevokedNamed
<1>5. \A s \in Req : s # r => SessionKnown(req[s])'
  BY <1>1, <1>3, <1>4, OthersKnow
<1>6. req'[r] = q /\ jar' = jar
  BY <1>1, <1>3, BeginAlone
<1>7. req[r].token = jar[req[r].browser].refresh
  BY <1>1 DEF SessionKnown, At
<1>8. SessionKnown(req[r])'
  BY <1>3, <1>4, <1>6, <1>7 DEF SessionKnown
<1>9. JarOK'
  BY <1>1, <1>4, OldRowsOwned DEF JarOK
<1>10. LiveSessionHeld'
  BY <1>1, <1>4 DEF LiveSessionHeld, OldRow
<1>. QED BY <1>5, <1>8, <1>9, <1>10 DEF SessionsOK

LEMMA LoginInsertSessions ==
    ASSUME InTurns, SessionsOK, TurnsOK', NEW r \in Req, LoginInsert(r)
    PROVE  SessionsOK'
<1>. DEFINE b == req[r].browser
            row == NewRow(r)
<1>1. /\ TurnsOK /\ IInv /\ ~Fault /\ SessionKnown(req[r]) /\ JarOK
      /\ LiveSessionHeld /\ At(r, "loginInsert") /\ b \in Browser
      /\ jar \in [Browser -> Cookies] /\ issued \in Nat /\ issued' = issued + 1
      /\ \A t \in refresh : t.token \in 1..issued
      /\ UNCHANGED users
  BY NoFault, RequestFields
     DEF SessionsOK, TurnsOK, IInv, TypeOK, TokensOK, RequestOK, LoginKnows,
         LoginInsert, At
<1>2. /\ row.token = issued + 1 /\ row.user = req[r].uid
  BY DEF NewRow
<1>3. /\ refresh' \in {refresh, refresh \cup {row}}
      /\ jar' = [jar EXCEPT ![b] = [refresh |-> row.token, uid |-> row.user,
                                   exp |-> now + Expiry]]
  BY <1>1 DEF LoginInsert
<1>4. /\ jar'[b].refresh = issued + 1 /\ jar'[b].uid = row.user
      /\ \A c \in Browser : c # b => jar'[c] = jar[c]
  BY <1>1, <1>2, <1>3
<1>5. \A t \in refresh' : t = row \/ t \in refresh
  BY <1>3
<1>6. \A t \in refresh' : t.token = issued + 1 \/ OldRow(t)
  BY <1>2, <1>5 DEF OldRow
<1>7. /\ Begin(r, Idle) /\ Fits(r, Idle) /\ Idle \in Request /\ Reply(r)
  BY <1>1, ReplyFits DEF LoginInsert
<1>8. \A s \in Req : s # r => SessionKnown(req[s])'
  BY <1>1, <1>4, <1>6, <1>7, OthersKnow
<1>9. SessionKnown(req[r])'
  <2>1. req'[r] = Idle
    BY <1>1, <1>7, BeginAlone
  <2>. QED BY <2>1 DEF SessionKnown, Idle
<1>10. JarOK'
  <2>. SUFFICES ASSUME NEW c \in Browser
                PROVE  /\ jar'[c].refresh <= issued + 1
                       /\ \A t \in refresh' :
                            t.token = jar'[c].refresh => t.user = jar'[c].uid
    BY <1>1 DEF JarOK
  <2>1. CASE c = b
    BY <1>1, <1>2, <1>4, <1>5, <2>1
  <2>2. CASE c # b
    <3>1. jar'[c] = jar[c] /\ jar[c].refresh \in Nat /\ jar[c].refresh <= issued
      BY <1>1, <1>4, <2>2 DEF JarOK, Cookies
    <3>2. \A t \in refresh' : t.token = jar[c].refresh => t.user = jar[c].uid
      BY <1>1, <1>2, <1>5, <3>1 DEF JarOK
    <3>. QED BY <1>1, <3>1, <3>2
  <2>. QED BY <2>1, <2>2
<1>11. LiveSessionHeld'
  <2>. SUFFICES ASSUME NEW t \in refresh', ~t.revoked
                PROVE  \E c \in Browser : jar'[c].refresh = t.token
    BY DEF LiveSessionHeld
  <2>1. CASE t = row
    BY <1>1, <1>2, <1>4, <2>1
  <2>2. CASE t \in refresh
    <3>1. PICK c \in Browser : jar[c].refresh = t.token
      BY <1>1, <2>2 DEF LiveSessionHeld
    <3>2. c # b
      BY <1>1, <2>2, <3>1 DEF SessionKnown, At
    <3>. QED BY <1>4, <3>1, <3>2
  <2>. QED BY <1>5, <2>1, <2>2
<1>. QED BY <1>8, <1>9, <1>10, <1>11 DEF SessionsOK

\* A browser loses its cookies when every row of its session is gone or revoked.
LEMMA UnsetSessions ==
    ASSUME SessionsOK, TurnsOK', NEW r \in Req, Reply(r),
           req[r].browser \in Browser, UnsetTokens(req[r].browser),
           \A e \in Email : e # req[r].email => users'[e] = users[e],
           UNCHANGED issued,
           \A t \in refresh' : OldRow(t),
           \A t \in refresh' : t.token = jar[req[r].browser].refresh => t.revoked
    PROVE  SessionsOK'
<1>. DEFINE b == req[r].browser
<1>1. /\ TurnsOK /\ IInv /\ JarOK /\ LiveSessionHeld /\ b \in Browser
      /\ jar \in [Browser -> Cookies] /\ issued \in Nat
      /\ \A t \in refresh : t.token \in 1..issued
  BY DEF SessionsOK, TurnsOK, IInv, TypeOK, TokensOK
<1>2. /\ jar'[b] = NoCookies /\ \A c \in Browser : c # b => jar'[c] = jar[c]
  BY <1>1 DEF UnsetTokens
<1>3. /\ Begin(r, Idle) /\ Fits(r, Idle) /\ Idle \in Request
  BY <1>1, ReplyFits
<1>4. \A s \in Req : s # r => SessionKnown(req[s])'
  BY <1>1, <1>2, <1>3, OthersKnow
<1>5. SessionKnown(req[r])'
  <2>1. req'[r] = Idle
    BY <1>1, <1>3, BeginAlone
  <2>. QED BY <2>1 DEF SessionKnown, Idle
<1>6. JarOK'
  <2>. SUFFICES ASSUME NEW c \in Browser
                PROVE  /\ jar'[c].refresh <= issued
                       /\ \A t \in refresh' :
                            t.token = jar'[c].refresh => t.user = jar'[c].uid
    BY DEF JarOK
  <2>1. CASE c = b
    <3>1. jar'[c].refresh = 0
      BY <1>2, <2>1 DEF NoCookies
    <3>2. \A t \in refresh' : t.token # 0
      BY <1>1 DEF OldRow
    <3>. QED BY <1>1, <3>1, <3>2
  <2>2. CASE c # b
    BY <1>1, <1>2, <2>2, OldRowsOwned DEF JarOK
  <2>. QED BY <2>1, <2>2
<1>7. LiveSessionHeld'
  <2>. SUFFICES ASSUME NEW t \in refresh', ~t.revoked
                PROVE  \E c \in Browser : jar'[c].refresh = t.token
    BY DEF LiveSessionHeld
  <2>1. PICK c \in Browser : jar[c].refresh = t.token
    BY <1>1 DEF LiveSessionHeld, OldRow
  <2>2. c # b
    BY <2>1
  <2>. QED BY <1>2, <2>1, <2>2
<1>. QED BY <1>4, <1>5, <1>6, <1>7 DEF SessionsOK

LEMMA LogoutSessions ==
    ASSUME InTurns, SessionsOK, TurnsOK', NEW r \in Req, LogoutRevoke(r)
    PROVE  SessionsOK'
<1>1. /\ TurnsOK /\ IInv /\ ~Fault /\ SessionKnown(req[r]) /\ At(r, "logout")
      /\ req[r].browser \in Browser /\ refresh \subseteq RefreshToken
      /\ Reply(r) /\ UNCHANGED <<users, issued>>
  BY NoFault, RequestFields
     DEF SessionsOK, TurnsOK, IInv, TypeOK, RequestOK, LogoutRevoke, At, counters
<1>2. refresh' = Revoked(req[r].token) /\ UnsetTokens(req[r].browser)
  BY <1>1 DEF LogoutRevoke
<1>3. req[r].token = jar[req[r].browser].refresh
  BY <1>1 DEF SessionKnown, At
<1>4. \A t \in refresh' : OldRow(t) /\ (t.token = req[r].token => t.revoked)
  BY <1>1, <1>2, RevokedNamed
<1>. QED BY <1>1, <1>2, <1>3, <1>4, UnsetSessions

\* The foreign key takes along the rows of the deleting browser's session.
LEMMA DeleteSessions ==
    ASSUME InTurns, SessionsOK, TurnsOK', NEW r \in Req, DeleteUser(r)
    PROVE  SessionsOK'
<1>1. /\ TurnsOK /\ IInv /\ ~Fault /\ SessionKnown(req[r]) /\ JarOK
      /\ At(r, "delete") /\ req[r].browser \in Browser
      /\ users \in [Email -> User] /\ Reply(r) /\ UNCHANGED issued
  BY NoFault, RequestFields
     DEF SessionsOK, TurnsOK, IInv, TypeOK, RequestOK, DeleteKnows, DeleteUser,
         At, counters
<1>2. /\ UnsetTokens(req[r].browser)
      /\ users' = [users EXCEPT ![req[r].email] = NoUser]
      /\ refresh' = {t \in refresh : t.user # users[req[r].email].id}
  BY <1>1 DEF DeleteUser
<1>3. users[req[r].email].id = jar[req[r].browser].uid
  BY <1>1 DEF SessionKnown, At
<1>4. \A t \in refresh' : OldRow(t) /\ t.token # jar[req[r].browser].refresh
  BY <1>1, <1>2, <1>3 DEF OldRow, JarOK
<1>5. \A e \in Email : e # req[r].email => users'[e] = users[e]
  BY <1>1, <1>2
<1>. QED BY <1>1, <1>2, <1>4, <1>5, UnsetSessions

\* Signups, verifications and arriving requests touch no session.
LEMMA OtherSessions ==
    ASSUME InTurns, SessionsOK, TurnsOK', NEW r \in Req, Signup(r) \/ Verify(r)
    PROVE  SessionsOK'
<1>1. TurnsOK /\ IInv /\ Handle(r) /\ users \in [Email -> User]
  BY DEF SessionsOK, TurnsOK, IInv, TypeOK, Handle
<1>2. {"signupInsert", "signupSend", "verifyUsed"} \subseteq Step
  BY DEF Step
<1>3. /\ UNCHANGED <<refresh, jar, issued>>
      /\ \A e \in Email : e # req[r].email => users'[e] = users[e]
  BY <1>1 DEF Signup, Verify, SignupLookupPending, SignupInsert, SignupSend,
              VerifyDropExpired, VerifyCreateUser, VerifyDropUsed, tables, counters
<1>4. CASE Reply(r)
  <2>1. Begin(r, Idle) /\ Fits(r, Idle) /\ Idle \in Request /\ Idle.pc = "idle"
    BY <1>1, <1>4, ReplyFits DEF Idle
  <2>. QED BY <1>3, <2>1, CookiesStay DEF SessionKnown
<1>5. ASSUME NEW pc \in {"signupInsert", "signupSend", "verifyUsed"}, Goto(r, pc)
      PROVE  SessionsOK'
  <2>1. PICK q \in Request : Begin(r, q) /\ Fits(r, q) /\ q.pc = pc
    BY <1>1, <1>2, <1>5, GotoFits
  <2>. QED BY <1>3, <2>1, CookiesStay DEF SessionKnown
<1>6. Reply(r) \/ \E pc \in {"signupInsert", "signupSend", "verifyUsed"} : Goto(r, pc)
  BY DEF Signup, Verify, SignupLookupPending, SignupInsert, SignupSend,
         VerifyDropExpired, VerifyCreateUser, VerifyDropUsed
<1>. QED BY <1>4, <1>5, <1>6

LEMMA ArriveSessions ==
    ASSUME InTurns, SessionsOK, TurnsOK', NEW r \in Req, Arrive(r)
    PROVE  SessionsOK'
<1>1. /\ TurnsOK /\ jar \in [Browser -> Cookies] /\ issued \in Nat
      /\ \A t \in refresh : t.token \in 1..issued
  BY DEF SessionsOK, TurnsOK, IInv, TypeOK, TokensOK
<1>2. ASSUME NEW q \in Request, Begin(r, q), Fits(r, q), SessionKnown(q),
             UNCHANGED <<tables, jar, counters>>
      PROVE  SessionsOK'
  <2>1. UNCHANGED <<users, refresh, jar, issued>>
    BY <1>2 DEF tables, counters
  <2>. QED BY <1>2, <2>1, CookiesStay
<1>3. ASSUME NEW e \in Email, NEW p \in FormPassword, SignupLookupUser(r, e, p)
      PROVE  SessionsOK'
  BY <1>1, <1>2, <1>3, SignupBegins DEF SessionKnown
<1>4. ASSUME NEW link \in mail, VerifyLookup(r, link) PROVE SessionsOK'
  BY <1>1, <1>2, <1>4, VerifyBegins DEF SessionKnown
<1>5. ASSUME NEW b \in Browser, NEW e \in Email, LoginLookup(r, b, e)
      PROVE  SessionsOK'
  <2>1. PICK q \in Request :
           /\ Begin(r, q) /\ Fits(r, q)
           /\ q.pc = IF jar[b].refresh = 0 THEN "loginInsert" ELSE "loginRevoke"
           /\ q.browser = b /\ q.token = jar[b].refresh
           /\ UNCHANGED <<tables, jar, counters>>
    BY <1>1, <1>5, LoginBegins
  <2>2. SessionKnown(q)
    BY <1>1, <2>1 DEF SessionKnown
  <2>. QED BY <1>2, <2>1, <2>2
<1>6. ASSUME NEW b \in Browser, NEW e \in Email, DeleteLookup(r, b, e)
      PROVE  SessionsOK'
  BY <1>1, <1>2, <1>6, DeleteBegins DEF SessionKnown
<1>7. ASSUME NEW b \in Browser, LogoutSend(r, b) PROVE SessionsOK'
  BY <1>1, <1>2, <1>7, LogoutBegins DEF SessionKnown
<1>. QED BY <1>3, <1>4, <1>5, <1>6, <1>7 DEF Arrive

LEMMA SessionsInductive ==
    ASSUME InTurns, SessionsOK, [Next]_vars
    PROVE  SessionsOK'
<1>1. TurnsOK /\ TurnsOK'
  BY TurnsInductive DEF SessionsOK
<1>2. ASSUME NEW r \in Req, Arrive(r) \/ Handle(r) PROVE SessionsOK'
  BY <1>1, <1>2, ArriveSessions, OtherSessions, LoginRevokeSessions,
     LoginInsertSessions, LogoutSessions, DeleteSessions DEF Handle, Session
<1>3. CASE Tick \/ UNCHANGED vars
  <2>1. UNCHANGED <<users, refresh, jar, req, issued>>
    BY <1>3 DEF Tick, vars, tables, counters
  <2>. QED BY <1>1, <2>1 DEF SessionsOK, SessionKnown, JarOK, LiveSessionHeld
<1>4. CASE Restart
  <2>1. /\ refresh' = {} /\ UNCHANGED <<jar, issued>>
        /\ \A r \in Req : req'[r].pc = "idle"
    BY <1>4 DEF Restart, Idle, counters
  <2>. QED BY <1>1, <2>1 DEF SessionsOK, SessionKnown, JarOK, LiveSessionHeld
<1>. QED BY <1>2, <1>3, <1>4 DEF Next

LEMMA SessionsInit == ASSUME InTurns, Init PROVE SessionsOK
<1>1. AddressesOK
  BY AddressesInit
<1>2. \A b \in Browser : jar[b].refresh <= issued
  BY DEF Init, NoCookies
<1>. QED BY <1>1, <1>2
         DEF AddressesOK, SessionsOK, SessionKnown, JarOK, LiveSessionHeld, Init, Idle

\* One request at a time and no failure: every session the server would honour
\* is in the cookie jar of some browser.
THEOREM LiveSessionsHeld ==
    ASSUME InTurns
    PROVE  Spec => []LiveSessionHeld
<1>1. Init => SessionsOK
  BY SessionsInit
<1>2. SessionsOK /\ [Next]_vars => SessionsOK'
  BY SessionsInductive
<1>3. SessionsOK => LiveSessionHeld
  BY DEF SessionsOK
<1>. QED BY <1>1, <1>2, <1>3, PTL DEF Spec
=============================================================================
