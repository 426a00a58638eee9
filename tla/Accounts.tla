------------------------------ MODULE Accounts ------------------------------
(***************************************************************************)
(* The account service of handlers/login.go and handlers/tokens.go over    *)
(* the tables of sql/schema 001 to 003.                                    *)
(*                                                                         *)
(* net/http runs every request in a goroutine of its own; a handler shares *)
(* nothing with the others but the database, and uses no transaction.  So  *)
(* a request is a sequence of steps, one per database statement (or mail), *)
(* each taking with it the local code up to the next one, and the steps of *)
(* different requests interleave freely.  A slot r \in Req is one request  *)
(* in flight.                                                              *)
(*                                                                         *)
(* Tables.  email is UNIQUE in users and in verify_tokens, so both are     *)
(* functions of the address.  A password stands for the bcrypt hashes that *)
(* match it.  /verify checks that a vercode parameter is present and looks *)
(* the pending row up by address, never comparing the code: links and rows *)
(* carry none here, and a link mailed for an earlier signup of an address  *)
(* serves a later one, with the password it carries.  /verify is reached   *)
(* by mailed links; addresses of it put together by hand are left out.     *)
(***************************************************************************)
EXTENDS Naturals, FiniteSets

CONSTANTS
    Req,            \* slots for requests in flight
    Browser,        \* cookie jars
    Email,          \* addresses typed into the forms
    QueryEmail,     \* the email parameter HandlerVerify reads from the link
                    \* mailed to each address, which the link quotes unescaped
    Password,       \* passwords bcrypt accepts
    EmptyPassword,  \* the form field left empty
    LongPassword,   \* a password over 72 bytes: bcrypt returns an error
    None,
    Expiry,         \* DEFAULTJWTEXPIRY, in ticks
    Overlap,        \* may one address or one browser have two requests
                    \* in flight?
    MaxSignups,     \* bounds of the model: rows ever put in verify_tokens,
    MaxUsers,       \* accounts ever opened,
    MaxTokens,      \* refresh tokens ever issued,
    MaxTime,        \* ticks of the clock,
    MaxFaults       \* statements, mails and responses that fail

ASSUME ConstantsAssumption ==
    /\ Expiry \in Nat \ {0}
    /\ {MaxSignups, MaxUsers, MaxTokens, MaxTime, MaxFaults} \subseteq Nat
    /\ Overlap \in BOOLEAN
    /\ QueryEmail \in [Email -> Email \cup {None}]
    /\ None \notin Browser \cup Email \cup Password
                      \cup {EmptyPassword, LongPassword}
    /\ {EmptyPassword, LongPassword} \cap Password = {}
    /\ EmptyPassword # LongPassword

VARIABLES
    users,     \* table users: users[e].id = 0 when no row has address e
    pending,   \* table verify_tokens: expires_at of e's row, 0 when none
    refresh,   \* table refresh_tokens
    mail,      \* verification links delivered so far
    jar,       \* cookies of each browser
    req,       \* requests in flight
    now,       \* time.Now(), in ticks
    signups,   \* rows ever inserted into verify_tokens
    opened,    \* rows ever inserted into users; the last uuid handed out
    issued,    \* the last refresh token handed out
    faults     \* failures so far

vars == <<users, pending, refresh, mail, jar, req, now,
          signups, opened, issued, faults>>
tables == <<users, pending, refresh>>
counters == <<signups, opened, issued>>

-----------------------------------------------------------------------------
NoUser == [id |-> 0, hash |-> None]
NoCookies == [refresh |-> 0, uid |-> 0, exp |-> 0]
Idle == [pc |-> "idle", browser |-> None, email |-> None, pw |-> None,
         uid |-> 0, token |-> 0]

FormPassword == Password \cup {EmptyPassword, LongPassword}
User == [id : Nat, hash : Password \cup {None}]
Link == [email : Email, pw : Password]
\* pw is not a column: it remembers the password the login presented.
RefreshToken == [token : Nat, user : Nat, pw : Password, revoked : BOOLEAN]
Cookies == [refresh : Nat, uid : Nat, exp : Nat]
Step == {"idle", "signupPending", "signupInsert", "signupSend",
         "verifyExpired", "verifyCreate", "verifyUsed",
         "loginRevoke", "loginInsert", "logout", "delete"}
Request == [pc : Step, browser : Browser \cup {None},
            email : Email \cup {None}, pw : FormPassword \cup {None},
            uid : Nat, token : Nat]

\* Every table, cookie and request in flight has the shape its code gives it;
\* a link is only ever mailed with the hash of a password bcrypt accepts.
TypeOK ==
    /\ users \in [Email -> User]
    /\ pending \in [Email -> Nat]
    /\ refresh \subseteq RefreshToken
    /\ mail \subseteq Link
    /\ jar \in [Browser -> Cookies]
    /\ req \in [Req -> Request]
    /\ now \in Nat /\ signups \in Nat /\ opened \in Nat
    /\ issued \in Nat /\ faults \in Nat

Init ==
    /\ users = [e \in Email |-> NoUser]
    /\ pending = [e \in Email |-> 0]
    /\ refresh = {}
    /\ mail = {}
    /\ jar = [b \in Browser |-> NoCookies]
    /\ req = [r \in Req |-> Idle]
    /\ now = 0 /\ signups = 0 /\ opened = 0 /\ issued = 0 /\ faults = 0

-----------------------------------------------------------------------------
(* Requests and failures *)

At(r, pc) == req[r].pc = pc
InFlight(pcs) == Cardinality({r \in Req : req[r].pc \in pcs})

\* With Overlap = FALSE people act one request at a time: no second request
\* starts for an address, or from a browser, that has one in flight.
QuietEmail(e) == Overlap \/ \A q \in Req : req[q].email # e
QuietBrowser(b) == Overlap \/ \A q \in Req : req[q].browser # b

Begin(r, request) == req' = [req EXCEPT ![r] = request]
Goto(r, pc) == req' = [req EXCEPT ![r].pc = pc]
Reply(r) == req' = [req EXCEPT ![r] = Idle]

Fault == faults < MaxFaults /\ faults' = faults + 1
Ok == UNCHANGED faults

\* What the foreign key of refresh_tokens asks of the user it names.
ExistsUnasked(id) == TRUE     \* Mutant: the column without REFERENCES
Exists(id) == \E e \in Email : users[e].id = id

\* RevokeRefreshToken: UPDATE refresh_tokens ... WHERE token = $1.
RevokedByJwt(token) == refresh   \* Mutant: the JWT cookie, read as the token
Revoked(token) ==
    {IF t.token = token THEN [t EXCEPT !.revoked = TRUE] ELSE t : t \in refresh}

-----------------------------------------------------------------------------
(* POST /signup: HandlerSignup *)

\* GetUserFromEmail.  Any error, a failed query included, reads as "no such
\* user" and lets the signup go on.
SignupLookupUser(r, e, p) ==
    /\ At(r, "idle") /\ QuietEmail(e)
    /\ signups + InFlight({"signupPending", "signupInsert"}) < MaxSignups
    /\ \/ users[e].id = 0 /\ Ok
       \/ users[e].id # 0 /\ Fault
    /\ Begin(r, [Idle EXCEPT !.pc = "signupPending", !.email = e, !.pw = p])
    /\ UNCHANGED <<tables, mail, jar, now, counters>>

\* GetVerifyTokenFromId, then the check that a password was given.  A pending
\* row, expired or not, ends the request with "already registered".
SignupLookupPending(r) ==
    /\ At(r, "signupPending")
    /\ LET free == pending[req[r].email] = 0
           given == req[r].pw # EmptyPassword
       IN  \/ free /\ given /\ Ok /\ Goto(r, "signupInsert")
           \/ free /\ ~given /\ Ok /\ Reply(r)
           \/ ~free /\ Ok /\ Reply(r)
           \/ ~free /\ given /\ Fault /\ Goto(r, "signupInsert")
    /\ UNCHANGED <<tables, mail, jar, now, counters>>

\* CreateVerifyToken, which the UNIQUE address refuses when a row is there.
\* A failed statement may have been executed all the same.
SignupInsert(r) ==
    /\ At(r, "signupInsert")
    /\ LET e == req[r].email
           Insert == /\ pending[e] = 0
                     /\ pending' = [pending EXCEPT ![e] = now + Expiry]
                     /\ signups' = signups + 1
       IN  \/ Insert /\ Ok /\ Goto(r, "signupSend")
           \/ pending[e] # 0 /\ Ok /\ Reply(r) /\ UNCHANGED <<pending, signups>>
           \/ Insert /\ Fault /\ Reply(r)
           \/ Fault /\ Reply(r) /\ UNCHANGED <<pending, signups>>
    /\ UNCHANGED <<users, refresh, mail, jar, now, opened, issued>>

\* Mutant: the result of HashPassword is not looked at
SignupSendAnyHash(r) ==
    /\ At(r, "signupSend")
    /\ mail' = mail \cup {[email |-> req[r].email, pw |-> req[r].pw]}
    /\ Reply(r)
    /\ UNCHANGED <<tables, jar, now, counters, faults>>

\* HashPassword and sendVerifyEmail.  Whatever fails here leaves the pending
\* row behind, with no link in the mail.
SignupSend(r) ==
    /\ At(r, "signupSend")
    /\ \/ /\ req[r].pw \in Password /\ Ok
          /\ mail' = mail \cup {[email |-> req[r].email, pw |-> req[r].pw]}
       \/ req[r].pw = LongPassword /\ Ok /\ UNCHANGED mail
       \/ req[r].pw \in Password /\ Fault /\ UNCHANGED mail
    /\ Reply(r)
    /\ UNCHANGED <<tables, jar, now, counters>>

-----------------------------------------------------------------------------
(* GET /verify: HandlerVerify, reached from a mailed link *)

\* The three parameters, then GetVerifyTokenFromId.  sendVerifyEmail puts the
\* address into the link as it is: URL.Query reads a + as a blank, cuts the
\* address at an &, and finds no vercode behind a #.  A parameter missing (None)
\* or no row for the address read ends the request without a change.
VerifyLookup(r, link) ==
    LET e == QueryEmail[link.email]
    IN  /\ e # None
        /\ At(r, "idle") /\ QuietEmail(e)
        /\ opened + InFlight({"verifyCreate"}) < MaxUsers
        /\ pending[e] # 0
        /\ Begin(r, [Idle EXCEPT
                        !.pc = IF pending[e] < now
                               THEN "verifyExpired" ELSE "verifyCreate",
                        !.email = e, !.pw = link.pw])
        /\ UNCHANGED <<tables, mail, jar, now, counters, faults>>

\* Mutant: an expired row is reported and left there
VerifyKeepExpired(r) ==
    /\ At(r, "verifyExpired")
    /\ Reply(r)
    /\ UNCHANGED <<tables, mail, jar, now, counters, faults>>

\* DeleteVerifyTokenFromEmail on an expired row; its error is ignored.
VerifyDropExpired(r) ==
    /\ At(r, "verifyExpired")
    /\ \/ pending' = [pending EXCEPT ![req[r].email] = 0] /\ Ok
       \/ UNCHANGED pending /\ Fault
    /\ Reply(r)
    /\ UNCHANGED <<users, refresh, mail, jar, now, counters>>

\* CreateUser with a new uuid; the UNIQUE address refuses a second account.
VerifyCreateUser(r) ==
    /\ At(r, "verifyCreate")
    /\ LET e == req[r].email
           Insert == /\ users[e].id = 0
                     /\ users' = [users EXCEPT ![e] = [id |-> opened + 1,
                                                       hash |-> req[r].pw]]
                     /\ opened' = opened + 1
       IN  \/ Insert /\ Ok /\ Goto(r, "verifyUsed")
           \/ users[e].id # 0 /\ Ok /\ Reply(r) /\ UNCHANGED <<users, opened>>
           \/ Insert /\ Fault /\ Reply(r)
           \/ Fault /\ Reply(r) /\ UNCHANGED <<users, opened>>
    /\ UNCHANGED <<pending, refresh, mail, jar, now, signups, issued>>

\* Mutant: the row is marked used (UseVerifyToken), which HandlerVerify does not
\* look at
VerifyKeepUsed(r) ==
    /\ At(r, "verifyUsed")
    /\ Reply(r)
    /\ UNCHANGED <<tables, mail, jar, now, counters, faults>>

\* DeleteVerifyTokenFromEmail on the row just used.
VerifyDropUsed(r) ==
    /\ At(r, "verifyUsed")
    /\ \/ pending' = [pending EXCEPT ![req[r].email] = 0] /\ Ok
       \/ UNCHANGED pending /\ Fault
    /\ Reply(r)
    /\ UNCHANGED <<users, refresh, mail, jar, now, counters>>

-----------------------------------------------------------------------------
(* POST /login, /logout, /deleteAccount *)

\* HandlerLogin up to CheckPasswordHash: the account found by address is
\* remembered by its id, with the refresh cookie the browser sent.
LoginLookup(r, b, e) ==
    /\ At(r, "idle") /\ QuietEmail(e) /\ QuietBrowser(b)
    /\ issued + InFlight({"loginRevoke", "loginInsert"}) < MaxTokens
    /\ users[e].id # 0
    /\ Begin(r, [pc |-> IF jar[b].refresh = 0 THEN "loginInsert" ELSE "loginRevoke",
                 browser |-> b, email |-> e, pw |-> users[e].hash,
                 uid |-> users[e].id, token |-> jar[b].refresh])
    /\ UNCHANGED <<tables, mail, jar, now, counters, faults>>

\* RevokeRefreshToken for the session being replaced; its error is ignored.
LoginRevoke(r) ==
    /\ At(r, "loginRevoke")
    /\ \/ refresh' = Revoked(req[r].token) /\ Ok
       \/ UNCHANGED refresh /\ Fault
    /\ Goto(r, "loginInsert")
    /\ UNCHANGED <<users, pending, mail, jar, now, counters>>

\* The row CreateRefreshToken inserts: the user is the one found by address
\* when the password was checked.
NewRowByEmail(r) ==       \* Mutant: the account that has the address by now
    [token |-> issued + 1, user |-> users[req[r].email].id,
     pw |-> req[r].pw, revoked |-> FALSE]
NewRow(r) ==
    [token |-> issued + 1, user |-> req[r].uid, pw |-> req[r].pw, revoked |-> FALSE]

\* SetTokens: CreateRefreshToken, whose error is ignored (the foreign key
\* refuses a user deleted meanwhile), then both cookies in the response,
\* which may not arrive.
LoginInsert(r) ==
    /\ At(r, "loginInsert")
    /\ issued < MaxTokens        \* LoginLookup kept a token for this request
    /\ issued' = issued + 1
    /\ LET row == NewRow(r)
           Insert == refresh' = IF Exists(row.user) THEN refresh \cup {row}
                                                    ELSE refresh
           SetCookies == jar' = [jar EXCEPT ![req[r].browser] =
                                    [refresh |-> row.token, uid |-> row.user,
                                     exp |-> now + Expiry]]
       IN  \/ Insert /\ SetCookies /\ Ok
           \/ UNCHANGED refresh /\ SetCookies /\ Fault
           \/ Insert /\ UNCHANGED jar /\ Fault
    /\ Reply(r)
    /\ UNCHANGED <<users, pending, mail, now, signups, opened>>

\* HandlerLogout reads the refresh cookie; without one it changes nothing.
LogoutSend(r, b) ==
    /\ At(r, "idle") /\ QuietBrowser(b)
    /\ jar[b].refresh # 0
    /\ Begin(r, [Idle EXCEPT !.pc = "logout", !.browser = b,
                             !.token = jar[b].refresh])
    /\ UNCHANGED <<tables, mail, jar, now, counters, faults>>

\* UnsetTokens: the response that makes the browser drop both cookies.
UnsetTokens(b) == jar' = [jar EXCEPT ![b] = NoCookies]

\* RevokeRefreshToken, its error ignored, and UnsetTokens in a response that
\* may not arrive.
LogoutRevoke(r) ==
    /\ At(r, "logout")
    /\ LET b == req[r].browser
           Revoke == refresh' = Revoked(req[r].token)
       IN  \/ Revoke /\ UnsetTokens(b) /\ Ok
           \/ UNCHANGED refresh /\ UnsetTokens(b) /\ Fault
           \/ Revoke /\ UNCHANGED jar /\ Fault
    /\ Reply(r)
    /\ UNCHANGED <<users, pending, mail, now, counters>>

\* GetUserFromId: is e's row the one with this id?
GetUserFromAny(e, id) == users[e].id # 0      \* Mutant: any row will do
GetUserFromId(e, id) == users[e].id = id

\* HandlerDeleteUser: CheckJwtToken, then GetUserFromId.  The row's address is
\* what the next statement will delete by.
DeleteLookup(r, b, e) ==
    /\ At(r, "idle") /\ QuietBrowser(b) /\ QuietEmail(e)
    /\ jar[b].uid # 0 /\ now < jar[b].exp
    /\ GetUserFromId(e, jar[b].uid)
    /\ Begin(r, [pc |-> "delete", browser |-> b, email |-> e, pw |-> None,
                 uid |-> jar[b].uid, token |-> 0])
    /\ UNCHANGED <<tables, mail, jar, now, counters, faults>>

\* DeleteUser by address, its error never looked at, and UnsetTokens.  The
\* foreign key takes the refresh tokens of the deleted row along.
DeleteUser(r) ==
    /\ At(r, "delete")
    /\ LET e == req[r].email
           b == req[r].browser
           Delete == /\ users' = [users EXCEPT ![e] = NoUser]
                     /\ refresh' = {t \in refresh : t.user # users[e].id}
       IN  \/ Delete /\ UnsetTokens(b) /\ Ok
           \/ UNCHANGED <<users, refresh>> /\ UnsetTokens(b) /\ Fault
           \/ Delete /\ UNCHANGED jar /\ Fault
    /\ Reply(r)
    /\ UNCHANGED <<pending, mail, now, counters>>

-----------------------------------------------------------------------------
Tick ==
    /\ now < MaxTime
    /\ now' = now + 1
    /\ UNCHANGED <<tables, mail, jar, req, counters, faults>>

\* The process dies with every request in flight and starts again: main
\* empties refresh_tokens and verify_tokens before it listens.
Restart ==
    /\ req' = [r \in Req |-> Idle]
    /\ pending' = [e \in Email |-> 0]
    /\ refresh' = {}
    /\ UNCHANGED <<users, mail, jar, now, counters, faults>>

Signup(r) ==
    SignupLookupPending(r) \/ SignupInsert(r) \/ SignupSend(r)
Verify(r) ==
    VerifyDropExpired(r) \/ VerifyCreateUser(r) \/ VerifyDropUsed(r)
Session(r) ==
    LoginRevoke(r) \/ LoginInsert(r) \/ LogoutRevoke(r) \/ DeleteUser(r)

\* The next statement of a request already in flight.
Handle(r) == Signup(r) \/ Verify(r) \/ Session(r)

\* A new request arrives.
Arrive(r) ==
    \/ \E e \in Email, p \in FormPassword : SignupLookupUser(r, e, p)
    \/ \E link \in mail : VerifyLookup(r, link)
    \/ \E b \in Browser, e \in Email : LoginLookup(r, b, e) \/ DeleteLookup(r, b, e)
    \/ \E b \in Browser : LogoutSend(r, b)

Next == (\E r \in Req : Arrive(r) \/ Handle(r)) \/ Tick \/ Restart

Spec == Init /\ [][Next]_vars

\* A goroutine in the middle of a handler is always scheduled again, and a
\* person who was sent a link opens it sooner or later.
FollowLink(link) ==
    link \in mail /\ \E r \in Req : VerifyLookup(r, link)

Fairness ==
    /\ \A r \in Req : WF_vars(Handle(r))
    /\ \A link \in Link : SF_vars(FollowLink(link))

LiveSpec == Spec /\ Fairness

-----------------------------------------------------------------------------
(* Correctness, whatever overlaps and whatever fails *)

\* Every row of refresh_tokens belongs to an account that exists and whose
\* password the login that made the row presented.  HandlerLogin checks the
\* password one statement before it stores the token; in between the account
\* may be deleted, and its address opened again with another password.
SessionProvesPassword ==
    \A t \in refresh :
        \E e \in Email : users[e].id = t.user /\ users[e].hash = t.pw

\* An account goes away only through a /deleteAccount request whose JWT names
\* that account, or an account that no longer exists.  HandlerDeleteUser looks
\* the row up by id and deletes by address: of an account that still stands it
\* may never hit another one.
DeletesOwn ==
    \A e \in Email :
        users[e].id # 0 /\ users'[e].id # users[e].id =>
            \E r \in Req :
                /\ At(r, "delete") /\ req[r].email = e
                /\ req[r].uid = users[e].id \/ ~Exists(req[r].uid)

NoStrangerDeleted == [][DeletesOwn]_vars

\* The handlers implement AccountStore: one account per address, identifiers
\* never reused, live sessions only of open accounts, under fresh tokens.
Store == INSTANCE AccountStore WITH
    Token <- 1..MaxTokens,
    owner <- [e \in Email |-> users[e].id],
    sessions <- {[token |-> t.token, user |-> t.user] :
                    t \in {s \in refresh : ~s.revoked}}

ImplementsStore == Store!Spec

(* Correctness when requests for an address or a browser do not overlap and *)
(* no statement, mail or response fails                                     *)

\* A session the server would honour is in some browser's cookie jar: a new
\* login revokes the token it replaces, a logout the one it drops, and a
\* deleted account takes along those of every browser.
LiveSessionHeld ==
    \A t \in refresh : t.revoked \/ \E b \in Browser : jar[b].refresh = t.token

\* An address with an account has no pending verification, but while
\* HandlerVerify is about to remove the one it has just used.
NoPendingBesideAccount ==
    \A e \in Email :
        users[e].id # 0 /\ pending[e] # 0 =>
            \E r \in Req : At(r, "verifyUsed") /\ req[r].email = e

\* Every account opened has used up a signup, so that links opened again after
\* their account was deleted bring it back at most as often as its address was
\* signed up: there are never more accounts opened than signups accepted.  Which
\* signup's link opens the account is left open, for HandlerVerify does not
\* compare codes.
OpenedBySignup == opened <= signups

\* When the link was mailed and leads back to its own address, a pending
\* verification does not block the address for ever: following the link removes
\* it, whether it expired or not.  Nothing is said of a signup whose mail
\* failed, nor of an address that HandlerVerify reads otherwise than it was
\* mailed (QueryEmail): these stay pending until a restart.
MailedSignupResolves ==
    \A e \in Email :
        (QueryEmail[e] = e /\ pending[e] # 0 /\ \E link \in mail : link.email = e)
            ~> (pending[e] = 0)

-----------------------------------------------------------------------------
(* What the program says about itself, and does not do *)


\* The page HandlerDeleteUser redirects to says "Your Account Has Been
\* Deleted..": a browser whose cookies it took away had its account deleted.
DeletedPageMeansDeleted ==
    [][\A r \in Req :
          LET b == req[r].browser
          IN  At(r, "delete") /\ jar[b] # NoCookies /\ jar'[b] = NoCookies
                  => \A e \in Email : users'[e].id # req[r].uid]_vars
=============================================================================
