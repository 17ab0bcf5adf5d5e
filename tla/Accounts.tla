------------------------------ MODULE Accounts ------------------------------
(***************************************************************************)
(* Accounts, sign-in and sessions: blueprints/account.py and               *)
(* admin_auth.py, the guards of authz.py, the lockout of models/base.py,   *)
(* the revoked tokens of models/token.py and jwt_callbacks.py, the         *)
(* activation of customers (admin_customers.py) and the commands           *)
(* create-admin and prune-security-tables (cli.py).                        *)
(*                                                                         *)
(* Admins and customers are two tables with the same range of keys.  A     *)
(* request reads rows without locks, in one SELECT per step, and writes    *)
(* the columns it changed, to absolute values, in one flush and commit.    *)
(***************************************************************************)
EXTENDS Clock, Sequences

CONSTANTS
    Ids,          \* the keys of both tables
    Opened,       \* the accounts there are at the start
    Orders,       \* guest orders, each with its confirmation token
    MaxFailed,    \* MAX_FAILED_LOGINS
    Lockout,      \* LOGIN_LOCKOUT_MINUTES
    AccessLife,   \* JWT_ACCESS_TOKEN_EXPIRES
    RefreshLife,  \* JWT_REFRESH_TOKEN_EXPIRES
    MaxTokens,    \* a bound: no session starts whose tokens would be more than these
    MaxWrong,     \* a bound on the wrong passwords in a row
    Serial        \* the kinds of request that are made one at a time

Actors == {"admin", "customer"}
People == Actors \X Ids

\* The kinds of request; "admin" creates an admin account, "guess" is a login
\* with a wrong password.
AccountKinds ==
    {"register", "admin", "login", "guess", "refresh", "logout", "claim", "activation",
     "prune"}

ASSUME AccountAssumption ==
    /\ Opened \subseteq People
    /\ MaxFailed \in Nat \ {0} /\ Lockout \in Nat
    /\ AccessLife \in Nat /\ RefreshLife \in Nat
    /\ MaxTokens \in Nat /\ MaxWrong \in Nat
    /\ Serial \subseteq AccountKinds

VARIABLES
    account,    \* admins and customers: the rows
    issued,     \* the tokens minted; a token's jti is its place
    blocklist,  \* token_blocklist: the jtis of its rows
    owner,      \* orders.customer_id
    revoked,    \* history: every token that was ever logged out
    guesses,    \* history: each account's wrong passwords since its last success
    session     \* the request each thread is serving

accountVars == <<account, issued, blocklist, owner, revoked, guesses, session>>

AccountRow == [active : BOOLEAN, failed : Nat, locked_until : Nat \cup {None}]
NewAccount == [active |-> TRUE, failed |-> 0, locked_until |-> None]

\* A signed token: who it names, what it is, when it expires; and, of history,
\* whose password began its session and when.
Token == [person : People, type : {"access", "refresh"}, exp : Nat,
          holder : People, began : Nat]

ASSUME AccountNoneAssumption ==
    None \notin AccountRow \cup People \cup Ids \cup Orders \cup BOOLEAN

Jtis == 1..Len(issued)

\* A request: who it is made for, the token it carries, what it wants, and the
\* row it has read.
Session == [pc : {"idle", "registering", "password", "decoded", "verified",
                  "allowed", "claiming", "activating"},
            kind : AccountKinds \cup {None}, person : People \cup {None},
            token : Nat, right : BOOLEAN, order : Orders \cup {None},
            about : People \cup {None}, seen : AccountRow \cup {None},
            linked : Ids \cup {None}]

NoSession == [pc |-> "idle", kind |-> None, person |-> None, token |-> 0,
              right |-> FALSE, order |-> None, about |-> None, seen |-> None,
              linked |-> None]

AccountInit ==
    /\ account = [p \in People |-> IF p \in Opened THEN NewAccount ELSE None]
    /\ issued = <<>>
    /\ blocklist = {}
    /\ owner = [o \in Orders |-> None]
    /\ revoked = {}
    /\ guesses = [p \in People |-> [wrong |-> 0, last |-> 0]]
    /\ session = [t \in Threads |-> NoSession]

\* A request of the kind reaches an idle thread.
Reaches(t, kind) ==
    /\ kind \in load /\ session[t].pc = "idle"
    /\ kind \in Serial => \A x \in Threads : session[x].kind # kind

EndRequest(t) == session' = [session EXCEPT ![t] = NoSession]

\* A token minted for a session.
Mint(person, type, holder, began) ==
    [person |-> person, type |-> type, holder |-> holder, began |-> began,
     exp |-> now + (IF type = "access" THEN AccessLife ELSE RefreshLife)]

\* _tokens: the pair a sign-in is answered with.
Pair(p) == <<Mint(p, "access", p, now), Mint(p, "refresh", p, now)>>

-----------------------------------------------------------------------------
(* Registration.                                                            *)

\* register: the email is looked up without a lock.
RegisterStart(t, p) ==
    /\ Reaches(t, "register") /\ Len(issued) + 2 <= MaxTokens
    /\ p[1] = "customer" /\ account[p] = None
    /\ session' = [session EXCEPT ![t] = [NoSession EXCEPT !.pc = "registering",
                                             !.kind = "register", !.person = p]]
    /\ UNCHANGED <<now, load, account, issued, blocklist, owner, revoked, guesses>>

\* The INSERT; the unique email refuses a second one.
RegisterCommit(t) ==
    LET p == session[t].person
        free == account[p] = None
    IN  /\ session[t].pc = "registering"
        /\ account' = IF free THEN [account EXCEPT ![p] = NewAccount] ELSE account
        /\ issued' = IF free THEN issued \o Pair(p) ELSE issued
        /\ EndRequest(t)
        /\ UNCHANGED <<now, load, blocklist, owner, revoked, guesses>>

\* create-admin: the same, from the command line.
CreateAdmin(p) ==
    /\ "admin" \in load /\ p[1] = "admin" /\ account[p] = None
    /\ account' = [account EXCEPT ![p] = NewAccount]
    /\ UNCHANGED <<now, load, issued, blocklist, owner, revoked, guesses, session>>

-----------------------------------------------------------------------------
(* Signing in.                                                              *)

is_locked(row) == row.locked_until # None /\ row.locked_until > now

\* Mutant: the failures alone decide, not the time they lock for.
LoginStartUnlocked(t, p, right) ==
    /\ Reaches(t, "login")
    /\ IF right THEN Len(issued) + 2 <= MaxTokens
       ELSE "guess" \in load /\ guesses[p].wrong < MaxWrong
    /\ account[p] # None
    /\ p[1] = "customer" => account[p].active
    /\ session' = [session EXCEPT ![t] =
          [NoSession EXCEPT !.pc = "password", !.kind = "login", !.person = p,
                            !.right = right, !.seen = account[p]]]
    /\ UNCHANGED <<now, load, account, issued, blocklist, owner, revoked, guesses>>

\* login: the row is read.  A locked account is refused before the password is
\* looked at, and so is an inactive customer; an inactive admin only after.
LoginStart(t, p, right) ==
    /\ Reaches(t, "login")
    /\ IF right THEN Len(issued) + 2 <= MaxTokens
       ELSE "guess" \in load /\ guesses[p].wrong < MaxWrong
    /\ account[p] # None /\ ~is_locked(account[p])
    /\ p[1] = "customer" => account[p].active
    /\ session' = [session EXCEPT ![t] =
          [NoSession EXCEPT !.pc = "password", !.kind = "login", !.person = p,
                            !.right = right, !.seen = account[p]]]
    /\ UNCHANGED <<now, load, account, issued, blocklist, owner, revoked, guesses>>

\* register_failed_login: one more than the count that was read.
LoginWrong(t) ==
    LET p == session[t].person
        failed == session[t].seen.failed + 1
    IN  /\ session[t].pc = "password" /\ ~session[t].right
        /\ account' = [account EXCEPT
               ![p].failed = failed,
               ![p].locked_until = IF failed >= MaxFailed THEN now + Lockout ELSE @]
        /\ guesses' = [guesses EXCEPT ![p] = [wrong |-> @.wrong + 1, last |-> now]]
        /\ EndRequest(t)
        /\ UNCHANGED <<now, load, issued, blocklist, owner, revoked>>

\* The password is right, but the admin was deactivated.
LoginInactive(t) ==
    /\ session[t].pc = "password" /\ session[t].right /\ ~session[t].seen.active
    /\ EndRequest(t)
    /\ UNCHANGED <<now, load, account, issued, blocklist, owner, revoked, guesses>>

\* register_successful_login: the UPDATE sets the columns whose values differ
\* from those read, and the answer carries a pair of tokens.
LoginDone(t) ==
    LET p == session[t].person
        seen == session[t].seen
    IN  /\ session[t].pc = "password" /\ session[t].right /\ seen.active
        /\ account' = [account EXCEPT
               ![p].failed = IF seen.failed # 0 THEN 0 ELSE @,
               ![p].locked_until = IF seen.locked_until # None THEN None ELSE @]
        /\ issued' = issued \o Pair(p)
        /\ guesses' = [guesses EXCEPT ![p].wrong = 0]
        /\ EndRequest(t)
        /\ UNCHANGED <<now, load, blocklist, owner, revoked>>

-----------------------------------------------------------------------------
(* Requests that carry a token.                                             *)

\* The token types a route accepts: logging out accepts either.
Accepts(kind) ==
    CASE kind = "refresh" -> {"refresh"}
      [] kind = "logout" -> {"access", "refresh"}
      [] OTHER -> {"access"}

\* jwt_required: the signature, the expiry and the type of the token.  The
\* route belongs to an actor, whose table the identity is looked up in.
Decode(t, kind, actor, j) ==
    /\ Reaches(t, kind)
    /\ now < issued[j].exp
    /\ issued[j].type \in Accepts(kind)
    /\ session' = [session EXCEPT ![t] =
          [NoSession EXCEPT !.pc = "decoded", !.kind = kind, !.token = j,
                            !.person = <<actor, issued[j].person[2]>>]]
    /\ UNCHANGED <<now, load, account, issued, blocklist, owner, revoked, guesses>>

\* is_revoked: the blocklist is consulted.
is_revoked(j) == j \in blocklist

\* Mutant: any token signed with the key will do.
require_actor_any(t) == TRUE

\* require_actor: the token says that it is for the route's actor.
require_actor(t) == issued[session[t].token].person[1] = session[t].person[1]

Verify(t) ==
    /\ session[t].pc = "decoded"
    /\ ~is_revoked(session[t].token) /\ require_actor(t)
    /\ session' = [session EXCEPT ![t].pc = "verified"]
    /\ UNCHANGED <<now, load, account, issued, blocklist, owner, revoked, guesses>>

\* TOKEN_REVOKED, or another actor's token.
Refuse(t) ==
    /\ session[t].pc = "decoded"
    /\ is_revoked(session[t].token) \/ ~require_actor(t)
    /\ EndRequest(t)
    /\ UNCHANGED <<now, load, account, issued, blocklist, owner, revoked, guesses>>

\* admin_required, customer_required, current_customer, refresh: the account
\* still exists and is active.  Logging out does not ask.
Active(p) == account[p] # None /\ account[p].active

LoadAccount(t) ==
    /\ session[t].pc = "verified" /\ session[t].kind # "logout"
    /\ IF Active(session[t].person)
       THEN session' = [session EXCEPT ![t].pc = "allowed"]
       ELSE EndRequest(t)
    /\ UNCHANGED <<now, load, account, issued, blocklist, owner, revoked, guesses>>

\* Mutant: a refresh also renews the refresh token.
RefreshRotating(t) ==
    LET token == issued[session[t].token]
        p == session[t].person
    IN  /\ session[t].pc = "allowed" /\ session[t].kind = "refresh"
        /\ issued' = issued \o <<Mint(p, "access", token.holder, token.began),
                                 Mint(p, "refresh", token.holder, token.began)>>
        /\ EndRequest(t)
        /\ UNCHANGED <<now, load, account, blocklist, owner, revoked, guesses>>

\* refresh: a new access token for the account of the route's actor.
Refresh(t) ==
    LET token == issued[session[t].token] IN
    /\ session[t].pc = "allowed" /\ session[t].kind = "refresh"
    /\ issued' = Append(issued, Mint(session[t].person, "access",
                                     token.holder, token.began))
    /\ EndRequest(t)
    /\ UNCHANGED <<now, load, account, blocklist, owner, revoked, guesses>>

\* logout: the presented token's jti is inserted; if it is already there, the
\* unique index fails the request.
Logout(t) ==
    LET j == session[t].token IN
    /\ session[t].pc = "verified" /\ session[t].kind = "logout"
    /\ blocklist' = blocklist \cup {j}
    /\ revoked' = revoked \cup {j}
    /\ EndRequest(t)
    /\ UNCHANGED <<now, load, account, issued, owner, guesses>>

\* Mutant: the job deletes the rows a tick early.
PruneTokensEarly ==
    /\ "prune" \in load /\ blocklist # {}
    /\ "prune" \in Serial => \A t \in Threads : session[t].pc = "idle"
    /\ blocklist' = {j \in blocklist : issued[j].exp > now + 1}
    /\ UNCHANGED <<now, load, account, issued, owner, revoked, guesses, session>>

\* prune-security-tables: DELETE WHERE expires_at < now.
PruneTokens ==
    /\ "prune" \in load /\ blocklist # {}
    /\ "prune" \in Serial => \A t \in Threads : session[t].pc = "idle"
    /\ blocklist' = {j \in blocklist : issued[j].exp >= now}
    /\ UNCHANGED <<now, load, account, issued, owner, revoked, guesses, session>>

-----------------------------------------------------------------------------
(* What signed-in people do to the rows of this module.                     *)

\* Mutant: an order someone has claimed can be claimed again.
ClaimReadAgain(t, o) ==
    /\ session[t].pc = "allowed" /\ session[t].kind = "claim"
    /\ session' = [session EXCEPT ![t].pc = "claiming", ![t].order = o,
                                  ![t].linked = owner[o]]
    /\ UNCHANGED <<now, load, account, issued, blocklist, owner, revoked, guesses>>

\* claim_order: the order of a confirmation token is read without a lock, and
\* refused if it is linked to another account.
ClaimRead(t, o) ==
    /\ session[t].pc = "allowed" /\ session[t].kind = "claim"
    /\ IF owner[o] \in {None, session[t].person[2]}
       THEN session' = [session EXCEPT ![t].pc = "claiming", ![t].order = o,
                                       ![t].linked = owner[o]]
       ELSE EndRequest(t)
    /\ UNCHANGED <<now, load, account, issued, blocklist, owner, revoked, guesses>>

ClaimCommit(t) ==
    LET o == session[t].order
        id == session[t].person[2]
    IN  /\ session[t].pc = "claiming"
        /\ owner' = [owner EXCEPT ![o] = IF session[t].linked # id THEN id ELSE @]
        /\ EndRequest(t)
        /\ UNCHANGED <<now, load, account, issued, blocklist, revoked, guesses>>

\* update_customer: an admin reads the customer and asks for the other state.
ActivationRead(t, c) ==
    /\ session[t].pc = "allowed" /\ session[t].kind = "activation"
    /\ c[1] = "customer" /\ account[c] # None
    /\ session' = [session EXCEPT ![t].pc = "activating", ![t].about = c,
                                  ![t].seen = account[c]]
    /\ UNCHANGED <<now, load, account, issued, blocklist, owner, revoked, guesses>>

ActivationCommit(t) ==
    /\ session[t].pc = "activating"
    /\ account' = [account EXCEPT ![session[t].about].active = ~session[t].seen.active]
    /\ EndRequest(t)
    /\ UNCHANGED <<now, load, issued, blocklist, owner, revoked, guesses>>

\* The thread dies, or the database fails, before the commit.
SessionCrash(t) ==
    /\ session[t].pc # "idle"
    /\ EndRequest(t)
    /\ UNCHANGED <<now, load, account, issued, blocklist, owner, revoked, guesses>>

\* The routes that carry a token, with the actor each is for.
Routes == {<<k, a>> : k \in {"refresh", "logout"}, a \in Actors}
          \cup {<<"claim", "customer">>, <<"activation", "admin">>}

AccountNext ==
    \/ \E t \in Threads :
          \/ \E p \in People : RegisterStart(t, p)
          \/ RegisterCommit(t)
          \/ \E p \in People, right \in BOOLEAN : LoginStart(t, p, right)
          \/ LoginWrong(t) \/ LoginInactive(t) \/ LoginDone(t)
          \/ \E r \in Routes, j \in Jtis :
                (r[1] = "refresh" => Len(issued) < MaxTokens) /\ Decode(t, r[1], r[2], j)
          \/ Verify(t) \/ Refuse(t) \/ LoadAccount(t)
          \/ Refresh(t) \/ Logout(t)
          \/ \E o \in Orders : ClaimRead(t, o)
          \/ ClaimCommit(t)
          \/ \E c \in People : ActivationRead(t, c)
          \/ ActivationCommit(t) \/ SessionCrash(t)
    \/ \E p \in People : CreateAdmin(p)
    \/ PruneTokens

AccountSpec ==
    /\ ClockInit /\ AccountInit
    /\ [][AccountNext \/ (Tick /\ UNCHANGED accountVars)]_<<clockVars, accountVars>>

-----------------------------------------------------------------------------

AccountTypeOK ==
    /\ account \in [People -> AccountRow \cup {None}]
    /\ issued \in Seq(Token)
    /\ blocklist \subseteq Jtis /\ revoked \subseteq Jtis
    /\ owner \in [Orders -> Ids \cup {None}]
    /\ guesses \in [People -> [wrong : Nat, last : Nat]]
    /\ session \in [Threads -> Session]

\* A token that was logged out is never accepted again: its blocklist row goes
\* only when the expiry keeps it out ("a revoked token past its expiry is
\* rejected for being expired anyway", cli.py).
RevokedStaysOut ==
    [][\A t \in Threads :
          session[t].pc = "decoded" /\ session'[t].pc = "verified" =>
              session[t].token \notin revoked]_<<clockVars, accountVars>>

\* Whoever a token names, it was that person's password that began its session,
\* however often it was refreshed: an admin and a customer with one id never
\* trade places (authz.py, admin_auth.refresh).
SessionsAreEarned == \A j \in Jtis : issued[j].person = issued[j].holder

\* A session ends by itself: what renews it never outlives a refresh token's life
\* after the password was given, however often it is refreshed.
SessionsEnd ==
    \A j \in Jtis : issued[j].type = "refresh" =>
        issued[j].exp <= issued[j].began + RefreshLife

\* After MaxFailed wrong passwords in a row an account's password is tried again
\* only a whole lockout later, once each time (models/base.py); its sign-ins
\* being made one at a time.
GuessesAreSlow ==
    [][\A p \in People :
          /\ guesses'[p].wrong > guesses[p].wrong
          /\ guesses[p].wrong >= MaxFailed
          => now >= guesses[p].last + Lockout]_<<clockVars, accountVars>>

\* A claimed order stays with who claimed it: "refusing rather than reassigning"
\* (claim_order); the claims being made one at a time.
ClaimsStick ==
    [][\A o \in Orders : owner[o] # None => owner'[o] = owner[o]]_<<clockVars, accountVars>>
=============================================================================
