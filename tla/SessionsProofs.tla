--------------------------- MODULE SessionsProofs ---------------------------
(***************************************************************************)
(* Theorems about module Accounts that need some kind of request to be     *)
(* made one at a time: the claims of orders, the sign-ins, or the pruning  *)
(* of the blocklist while nothing is served.                               *)
(***************************************************************************)
EXTENDS AccountsProofs

Claiming(s) == s.pc # "idle" /\ s.kind = "claim"

\* A claim about to be committed was read of the order as it still is.
ClaimOK(s, owners) ==
    s.pc = "claiming" =>
        s.kind = "claim" /\ s.linked = owners[s.order] /\ s.linked \in {None, s.person[2]}

ClaimInv ==
    /\ AccountInv
    /\ \A t, x \in Threads : Claiming(session[t]) /\ Claiming(session[x]) => t = x
    /\ \A t \in Threads : ClaimOK(session[t], owner)

\* What every request does to the sessions: one thread's changes.
Moves(t, s) == session' = [session EXCEPT ![t] = s]

-----------------------------------------------------------------------------

LEMMA IdleSession == NoSession.pc = "idle"
BY DEF NoSession

\* A request that starts, goes on or ends, without touching an owner.
LEMMA ClaimKept ==
    ASSUME ClaimInv, AccountInv', NEW t \in Threads, NEW s, Moves(t, s),
           owner' = owner, s.pc # "claiming",
           Claiming(s) => \A x \in Threads \ {t} : ~Claiming(session[x])
    PROVE  ClaimInv'
<1> USE DEF Moves
<1>1. session \in [Threads -> Session] BY DEF ClaimInv, AccountInv, AccountTypeOK
<1>2. session'[t] = s /\ \A x \in Threads \ {t} : session'[x] = session[x] BY <1>1
<1>3. \A x \in Threads : ClaimOK(session'[x], owner')
    BY <1>2 DEF ClaimInv, ClaimOK
<1>4. \A u, x \in Threads : Claiming(session'[u]) /\ Claiming(session'[x]) => u = x
    BY <1>2 DEF ClaimInv
<1>5. (\A x \in Threads : ClaimOK(session[x], owner))' BY <1>3
<1>6. (\A u, x \in Threads : Claiming(session[u]) /\ Claiming(session[x]) => u = x)'
    BY <1>4
<1> QED BY <1>5, <1>6 DEF ClaimInv

LEMMA ClaimThread ==
    ASSUME ClaimInv, AccountInv', "claim" \in Serial, NEW t \in Threads,
           \/ \E p \in People : RegisterStart(t, p)
           \/ RegisterCommit(t)
           \/ \E p \in People, right \in BOOLEAN : LoginStart(t, p, right)
           \/ LoginWrong(t) \/ LoginInactive(t) \/ LoginDone(t)
           \/ \E r \in Routes, j \in Jtis : Decode(t, r[1], r[2], j)
           \/ Verify(t) \/ Refuse(t) \/ LoadAccount(t)
           \/ Refresh(t) \/ Logout(t)
           \/ \E o \in Orders : ClaimRead(t, o)
           \/ ClaimCommit(t)
           \/ \E c \in People : ActivationRead(t, c)
           \/ ActivationCommit(t) \/ SessionCrash(t)
    PROVE  ClaimInv'
<1>0. session[t] \in Session /\ session \in [Threads -> Session]
    BY DEF ClaimInv, AccountInv, AccountTypeOK
<1>1. ASSUME NEW p \in People, RegisterStart(t, p) PROVE ClaimInv'
    <2> DEFINE s == [NoSession EXCEPT !.pc = "registering", !.kind = "register",
                                      !.person = p]
    <2>1. Moves(t, s) BY <1>1 DEF RegisterStart, Moves
    <2>2. s.pc = "registering" /\ ~Claiming(s) BY DEF NoSession, Claiming
    <2> QED BY <1>1, <2>1, <2>2, ClaimKept DEF RegisterStart
<1>2. ASSUME NEW p \in People, NEW right \in BOOLEAN, LoginStart(t, p, right)
      PROVE  ClaimInv'
    <2> DEFINE s == [NoSession EXCEPT !.pc = "password", !.kind = "login", !.person = p,
                                      !.right = right, !.seen = account[p]]
    <2>1. Moves(t, s) BY <1>2 DEF LoginStart, Moves
    <2>2. s.pc = "password" /\ ~Claiming(s) BY DEF NoSession, Claiming
    <2> QED BY <1>2, <2>1, <2>2, ClaimKept DEF LoginStart
<1>3. ASSUME NEW r \in Routes, NEW j \in Jtis, Decode(t, r[1], r[2], j) PROVE ClaimInv'
    <2> DEFINE s == [NoSession EXCEPT !.pc = "decoded", !.kind = r[1], !.token = j,
                                      !.person = <<r[2], issued[j].person[2]>>]
    <2>1. Moves(t, s) BY <1>3 DEF Decode, Moves
    <2>2. s.pc = "decoded" /\ s.kind = r[1] BY DEF NoSession
    <2> HIDE DEF s
    <2>3. Claiming(s) => \A x \in Threads \ {t} : ~Claiming(session[x])
        BY <1>3, <2>2 DEF Claiming, Decode, Reaches
    <2> QED BY <1>3, <2>1, <2>2, <2>3, ClaimKept DEF Decode
<1>4. ASSUME Verify(t) PROVE ClaimInv'
    <2> DEFINE s == [session[t] EXCEPT !.pc = "verified"]
    <2>1. Moves(t, s) BY <1>4 DEF Verify, Moves
    <2>2. s.pc = "verified" /\ s.kind = session[t].kind BY <1>0 DEF Session
    <2>3. Claiming(s) => \A x \in Threads \ {t} : ~Claiming(session[x])
        BY <1>4, <2>2 DEF Claiming, Verify, ClaimInv
    <2> QED BY <1>4, <2>1, <2>2, <2>3, ClaimKept DEF Verify
<1>5. ASSUME LoadAccount(t), Active(session[t].person) PROVE ClaimInv'
    <2> DEFINE s == [session[t] EXCEPT !.pc = "allowed"]
    <2>1. Moves(t, s) BY <1>5 DEF LoadAccount, Moves
    <2>2. s.pc = "allowed" /\ s.kind = session[t].kind BY <1>0 DEF Session
    <2>3. Claiming(s) => \A x \in Threads \ {t} : ~Claiming(session[x])
        BY <1>5, <2>2 DEF Claiming, LoadAccount, ClaimInv
    <2> QED BY <1>5, <2>1, <2>2, <2>3, ClaimKept DEF LoadAccount
<1>6. ASSUME NEW c \in People, ActivationRead(t, c) PROVE ClaimInv'
    <2> DEFINE s == [session[t] EXCEPT !.pc = "activating", !.about = c, !.seen = account[c]]
    <2>1. Moves(t, s) BY <1>6 DEF ActivationRead, Moves
    <2>2. s.pc = "activating" /\ s.kind = session[t].kind BY <1>0 DEF Session
    <2>3. ~Claiming(s) BY <1>6, <2>2 DEF Claiming, ActivationRead
    <2> QED BY <1>6, <2>1, <2>2, <2>3, ClaimKept DEF ActivationRead
<1>7. ASSUME EndRequest(t), owner' = owner PROVE ClaimInv'
    <2>1. Moves(t, NoSession) BY <1>7 DEF EndRequest, Moves
    <2> QED BY <1>7, <2>1, IdleSession, ClaimKept DEF Claiming
<1>8. ASSUME NEW o \in Orders, ClaimRead(t, o), owner[o] \in {None, session[t].person[2]}
      PROVE  ClaimInv'
    <2> DEFINE s == [session[t] EXCEPT !.pc = "claiming", !.order = o, !.linked = owner[o]]
    <2>1. session' = [session EXCEPT ![t] = s] /\ owner' = owner BY <1>8 DEF ClaimRead
    <2>2. /\ s.pc = "claiming" /\ s.kind = session[t].kind /\ s.order = o
          /\ s.linked = owner[o] /\ s.person = session[t].person
        BY <1>0 DEF Session
    <2>3. session[t].pc = "allowed" /\ session[t].kind = "claim" BY <1>8 DEF ClaimRead
    <2> HIDE DEF s
    <2>4. session'[t] = s /\ \A x \in Threads \ {t} : session'[x] = session[x]
        BY <1>0, <2>1
    <2>5. ClaimOK(s, owner) BY <1>8, <2>2, <2>3 DEF ClaimOK
    <2>6. \A x \in Threads : ClaimOK(session'[x], owner')
        BY <2>1, <2>4, <2>5 DEF ClaimInv
    <2>7. \A x \in Threads : Claiming(session'[x]) <=> Claiming(session[x])
        BY <2>2, <2>3, <2>4 DEF Claiming
    <2>8. (\A x \in Threads : ClaimOK(session[x], owner))' BY <2>6
    <2>9. (\A u, x \in Threads : Claiming(session[u]) /\ Claiming(session[x]) => u = x)'
        BY <2>7 DEF ClaimInv
    <2> QED BY <2>8, <2>9 DEF ClaimInv
<1>9. ASSUME ClaimCommit(t) PROVE ClaimInv'
    <2>1. session'[t] = NoSession /\ \A x \in Threads \ {t} : session'[x] = session[x]
        BY <1>0, <1>9 DEF ClaimCommit, EndRequest
    <2>2. Claiming(session[t])
        BY <1>9 DEF ClaimCommit, Claiming, ClaimInv, ClaimOK
    <2>3. \A x \in Threads : ~Claiming(session'[x])
        BY <2>1, <2>2, IdleSession DEF ClaimInv, Claiming
    <2>4. \A x \in Threads \ {t} : session[x].pc # "claiming"
        BY <2>2 DEF ClaimInv, ClaimOK, Claiming
    <2>5. \A x \in Threads : ClaimOK(session'[x], owner')
        BY <2>1, <2>4, IdleSession DEF ClaimOK
    <2>6. (\A x \in Threads : ClaimOK(session[x], owner))' BY <2>5
    <2>7. (\A u, x \in Threads : Claiming(session[u]) /\ Claiming(session[x]) => u = x)'
        BY <2>3
    <2> QED BY <2>6, <2>7 DEF ClaimInv
<1>10. ASSUME RegisterCommit(t) \/ LoginWrong(t) \/ LoginInactive(t) \/ LoginDone(t)
              \/ Refuse(t) \/ Refresh(t) \/ Logout(t) \/ ActivationCommit(t)
              \/ SessionCrash(t)
       PROVE  ClaimInv'
    BY <1>7, <1>10 DEF RegisterCommit, LoginWrong, LoginInactive, LoginDone, Refuse,
       Refresh, Logout, ActivationCommit, SessionCrash
<1>11. ASSUME LoadAccount(t), ~Active(session[t].person) PROVE ClaimInv'
    BY <1>7, <1>11 DEF LoadAccount
<1>12. ASSUME NEW o \in Orders, ClaimRead(t, o), owner[o] \notin {None, session[t].person[2]}
       PROVE  ClaimInv'
    BY <1>7, <1>12 DEF ClaimRead
<1> QED BY <1>1, <1>2, <1>3, <1>4, <1>5, <1>6, <1>8, <1>9, <1>10, <1>11, <1>12

LEMMA NextClaimInv ==
    ASSUME ClaimInv, "claim" \in Serial, [NextAccount]_<<clockVars, accountVars>>
    PROVE  ClaimInv'
<1>0. AccountInv' BY NextAccountInv DEF ClaimInv
<1>1. ASSUME AccountNext, session' = session, owner' = owner PROVE ClaimInv'
    BY <1>0, <1>1 DEF ClaimInv
<1>2. CASE UNCHANGED accountVars
    BY <1>0, <1>2 DEF accountVars, ClaimInv
<1>3. CASE AccountNext
    <2>1. ASSUME NEW p \in People, CreateAdmin(p) PROVE ClaimInv'
        BY <1>1, <1>3, <2>1 DEF CreateAdmin
    <2>2. CASE PruneTokens BY <1>1, <1>3, <2>2 DEF PruneTokens
    <2>3. CASE ~(\E p \in People : CreateAdmin(p)) /\ ~PruneTokens
        BY <1>0, <1>3, <2>3, ClaimThread DEF AccountNext
    <2> QED BY <2>1, <2>2, <2>3
<1> QED BY <1>2, <1>3 DEF NextAccount

LEMMA InitClaimInv == ClockInit /\ AccountInit => ClaimInv
BY InitAccountInv, IdleSession DEF AccountInit, ClaimInv, Claiming, ClaimOK

\* Once its owner is set, only a claim's commit could change it, and it will not.
LEMMA ClaimStays ==
    ASSUME ClaimInv, [NextAccount]_<<clockVars, accountVars>>, NEW o \in Orders,
           owner[o] # None
    PROVE  owner'[o] = owner[o]
<1>1. ASSUME NEW t \in Threads, ClaimCommit(t) PROVE owner'[o] = owner[o]
    <2>1. owner \in [Orders -> Ids \cup {None}]
        BY DEF ClaimInv, AccountInv, AccountTypeOK
    <2>2. ClaimOK(session[t], owner) /\ session[t].pc = "claiming"
        BY <1>1 DEF ClaimInv, ClaimCommit
    <2>3. CASE o = session[t].order
        BY <1>1, <2>1, <2>2, <2>3 DEF ClaimOK, ClaimCommit
    <2>4. CASE o # session[t].order BY <1>1, <2>1, <2>4 DEF ClaimCommit
    <2> QED BY <2>3, <2>4
<1>2. ASSUME AccountNext, ~\E t \in Threads : ClaimCommit(t) PROVE owner' = owner
    BY ZenonT(40), <1>2 DEF AccountNext, RegisterStart, RegisterCommit, LoginStart, LoginWrong,
       LoginInactive, LoginDone, Decode, Verify, Refuse, LoadAccount, Refresh, Logout,
       ClaimRead, ActivationRead, ActivationCommit, SessionCrash, CreateAdmin, PruneTokens
<1>3. CASE UNCHANGED accountVars BY <1>3 DEF accountVars
<1> QED BY <1>1, <1>2, <1>3 DEF NextAccount

\* While claims are made one at a time, an order stays with who claimed it
\* (claim_order: "refusing rather than reassigning").
THEOREM ClaimsKept ==
    ASSUME "claim" \in Serial
    PROVE  AccountSpec => ClaimsStick
<1>1. ClockInit /\ AccountInit => ClaimInv BY InitClaimInv
<1>2. ClaimInv /\ [NextAccount]_<<clockVars, accountVars>> => ClaimInv'
    BY NextClaimInv
<1>3. ClaimInv /\ [NextAccount]_<<clockVars, accountVars>>
      => [\A o \in Orders : owner[o] # None => owner'[o] = owner[o]]_<<clockVars, accountVars>>
    BY ClaimStays
<1> QED BY <1>1, <1>2, <1>3, PTL DEF AccountSpec, NextAccount, ClaimsStick

-----------------------------------------------------------------------------

\* A revoked token that the blocklist has lost is expired, and no request that is
\* about to ask the blocklist carries it.
Banned(j) ==
    \/ j \in blocklist
    \/ /\ issued[j].exp < now
       /\ \A t \in Threads : session[t].pc = "decoded" => session[t].token # j

RevokedInv == AccountInv /\ \A j \in revoked : Banned(j)

LEMMA TokensAreTokens ==
    ASSUME AccountInv, NEW j \in Jtis
    PROVE  issued[j].exp \in Nat
<1>1. issued \in Seq(Token) BY DEF AccountInv, AccountTypeOK
<1>2. issued[j] \in Token BY <1>1, ElementOfSeq DEF Jtis
<1> QED BY <1>2 DEF Token

\* No step changes a token there is.
LEMMA TokensStay ==
    ASSUME AccountInv, NextAccount, NEW j \in Jtis
    PROVE  issued'[j] = issued[j]
<1>0. issued \in Seq(Token) /\ session \in [Threads -> Session]
    BY DEF AccountInv, AccountTypeOK
<1>1. ASSUME NEW more \in Seq(Token), issued' = issued \o more
      PROVE  issued'[j] = issued[j]
    BY <1>0, <1>1, TokensAdded DEF Jtis
<1>2. ASSUME NEW t \in Threads, RegisterCommit(t), account[session[t].person] = None
      PROVE  issued'[j] = issued[j]
    <2>1. session[t].person \in People
        BY <1>2 DEF RegisterCommit, AccountInv, RequestOK
    <2>2. Pair(session[t].person) \in Seq(Token) BY <2>1, PairOK
    <2> QED BY <1>1, <1>2, <2>2 DEF RegisterCommit
<1>3. ASSUME NEW t \in Threads, LoginDone(t) PROVE issued'[j] = issued[j]
    <2>1. session[t].person \in People BY <1>3 DEF LoginDone, AccountInv, RequestOK
    <2>2. Pair(session[t].person) \in Seq(Token) BY <2>1, PairOK
    <2> QED BY <1>1, <1>3, <2>2 DEF LoginDone
<1>4. ASSUME NEW t \in Threads, Refresh(t) PROVE issued'[j] = issued[j]
    <2>1. PICK new : issued' = Append(issued, new) BY <1>4 DEF Refresh
    <2> QED BY <1>0, <2>1 DEF Jtis
<1>5. ASSUME NEW t \in Threads, RegisterCommit(t), account[session[t].person] # None
      PROVE  issued' = issued
    BY <1>5 DEF RegisterCommit
<1>6. CASE UNCHANGED issued BY <1>6
<1>7. CASE AccountNext
    BY ZenonT(40), <1>2, <1>3, <1>4, <1>5, <1>6, <1>7 DEF AccountNext, RegisterStart, LoginStart,
       LoginWrong, LoginInactive, Decode, Verify, Refuse, LoadAccount, Logout, ClaimRead,
       ClaimCommit, ActivationRead, ActivationCommit, SessionCrash, CreateAdmin, PruneTokens
<1> QED BY <1>6, <1>7 DEF NextAccount, accountVars

\* A step by which no more requests come to be about to ask the blocklist.
LEMMA BannedKept ==
    ASSUME RevokedInv, AccountInv', NextAccount, now <= now',
           \A x \in Threads : session'[x].pc = "decoded" => session'[x] = session[x],
           blocklist \subseteq blocklist', revoked' = revoked
    PROVE  RevokedInv'
<1>1. revoked \subseteq Jtis BY DEF RevokedInv, AccountInv, AccountTypeOK
<1>2. ASSUME NEW j \in revoked PROVE Banned(j)'
    <2>1. issued'[j] = issued[j] BY <1>1, TokensStay DEF RevokedInv
    <2>2. issued[j].exp \in Nat BY <1>1, TokensAreTokens DEF RevokedInv
    <2>3. now \in Int /\ now' \in Int BY DEF RevokedInv, AccountInv
    <2>4. CASE j \in blocklist BY <2>4 DEF Banned
    <2>5. CASE issued[j].exp < now
               /\ \A t \in Threads : session[t].pc = "decoded" => session[t].token # j
        BY <2>1, <2>2, <2>3, <2>5 DEF Banned
    <2> QED BY <2>4, <2>5 DEF RevokedInv, Banned
<1> QED BY <1>2 DEF RevokedInv

LEMMA NextRevokedInv ==
    ASSUME RevokedInv, "prune" \in Serial, [NextAccount]_<<clockVars, accountVars>>
    PROVE  RevokedInv'
<1>0. /\ AccountInv /\ AccountInv'
      /\ session \in [Threads -> Session] /\ now \in Int
      /\ issued \in Seq(Token) /\ revoked \subseteq Jtis
    BY NextAccountInv, ClockAssumption DEF RevokedInv, AccountInv, AccountTypeOK
<1>1. ASSUME NEW t \in Threads, session'[t].pc # "decoded", NextAccount,
             \A x \in Threads \ {t} : session'[x] = session[x],
             now' = now, blocklist' = blocklist, revoked' = revoked
      PROVE  RevokedInv'
    BY <1>0, <1>1, BannedKept
<1>2. ASSUME NEW t \in Threads, EndRequest(t), NextAccount,
             now' = now, blocklist' = blocklist, revoked' = revoked
      PROVE  RevokedInv'
    BY <1>0, <1>1, <1>2, IdleSession DEF EndRequest
<1>3. ASSUME NEW t \in Threads, NextAccount,
             \/ (\E p \in People : RegisterStart(t, p))
             \/ \E p \in People, right \in BOOLEAN : LoginStart(t, p, right)
      PROVE  RevokedInv'
    <2>1. /\ session'[t].pc \in {"registering", "password"}
          /\ \A x \in Threads \ {t} : session'[x] = session[x]
        <3>1. CASE \E p \in People : RegisterStart(t, p)
            BY <1>0, <3>1 DEF RegisterStart, NoSession
        <3>2. CASE \E p \in People, right \in BOOLEAN : LoginStart(t, p, right)
            <4> PICK p \in People, right \in BOOLEAN : LoginStart(t, p, right)
                BY <3>2
            <4>1. session' = [session EXCEPT ![t] =
                     [NoSession EXCEPT !.pc = "password", !.kind = "login",
                                       !.person = p, !.right = right,
                                       !.seen = account[p]]]
                BY DEF LoginStart
            <4> QED BY <1>0, <4>1 DEF NoSession
        <3> QED BY <1>3, <3>1, <3>2
    <2> QED BY <1>1, <1>3, <2>1 DEF RegisterStart, LoginStart
<1>4. ASSUME NEW t \in Threads, NextAccount,
             \/ Verify(t)
             \/ LoadAccount(t) /\ Active(session[t].person)
             \/ \E o \in Orders : ClaimRead(t, o) /\ owner[o] \in {None, session[t].person[2]}
             \/ \E c \in People : ActivationRead(t, c)
      PROVE  RevokedInv'
    <2>1. session[t] \in Session BY <1>0
    <2>2. /\ session'[t].pc \in {"verified", "allowed", "claiming", "activating"}
          /\ \A x \in Threads \ {t} : session'[x] = session[x]
        <3>1. CASE Verify(t) BY <1>0, <2>1, <3>1 DEF Verify, Session
        <3>2. CASE LoadAccount(t) /\ Active(session[t].person)
            BY <1>0, <2>1, <3>2 DEF LoadAccount, Session
        <3>3. ASSUME NEW o \in Orders, ClaimRead(t, o), owner[o] \in {None, session[t].person[2]}
              PROVE  /\ session'[t].pc = "claiming"
                     /\ \A x \in Threads \ {t} : session'[x] = session[x]
            BY <1>0, <2>1, <3>3 DEF ClaimRead, Session
        <3>4. ASSUME NEW c \in People, ActivationRead(t, c)
              PROVE  /\ session'[t].pc = "activating"
                     /\ \A x \in Threads \ {t} : session'[x] = session[x]
            BY <1>0, <2>1, <3>4 DEF ActivationRead, Session
        <3> QED BY <1>4, <3>1, <3>2, <3>3, <3>4
    <2> QED BY <1>1, <1>4, <2>2 DEF Verify, LoadAccount, ClaimRead, ActivationRead
<1>5. ASSUME NEW t \in Threads, NextAccount,
             \/ RegisterCommit(t) \/ LoginWrong(t) \/ LoginInactive(t) \/ LoginDone(t)
             \/ Refuse(t) \/ Refresh(t) \/ ClaimCommit(t) \/ ActivationCommit(t)
             \/ SessionCrash(t)
             \/ LoadAccount(t) /\ ~Active(session[t].person)
             \/ \E o \in Orders : ClaimRead(t, o) /\ owner[o] \notin {None, session[t].person[2]}
      PROVE  RevokedInv'
    BY <1>2, <1>5 DEF RegisterCommit, LoginWrong, LoginInactive, LoginDone, Refuse,
       Refresh, ClaimCommit, ActivationCommit, SessionCrash, LoadAccount, ClaimRead
<1>6. ASSUME NEW t \in Threads, NEW r \in Routes, NEW j \in Jtis,
             Decode(t, r[1], r[2], j), NextAccount
      PROVE  RevokedInv'
    <2>1. /\ session'[t].token = j
          /\ \A x \in Threads \ {t} : session'[x] = session[x]
        BY <1>0, <1>6 DEF Decode, NoSession
    <2>2. issued[j].exp \in Nat BY <1>0, TokensAreTokens
    <2>3. ASSUME NEW k \in revoked PROVE Banned(k)'
        <3>1. CASE k \in blocklist BY <1>6, <3>1 DEF Banned, Decode
        <3>2. CASE issued[k].exp < now
                   /\ \A x \in Threads : session[x].pc = "decoded" => session[x].token # k
            <4>1. k # j BY <1>0, <1>6, <2>2, <3>2 DEF Decode
            <4> QED BY <1>6, <2>1, <3>2, <4>1 DEF Banned, Decode
        <3> QED BY <3>1, <3>2 DEF RevokedInv, Banned
    <2> QED BY <1>0, <1>6, <2>3 DEF RevokedInv, Decode
<1>7. ASSUME NEW t \in Threads, Logout(t), NextAccount PROVE RevokedInv'
    <2>1. \A x \in Threads : session'[x].pc = "decoded" => session'[x] = session[x]
        BY <1>0, <1>7, IdleSession DEF Logout, EndRequest
    <2>2. ASSUME NEW k \in revoked' PROVE Banned(k)'
        <3>1. CASE k \in blocklist' BY <3>1 DEF Banned
        <3>2. CASE k \notin blocklist'
            <4>1. k \in revoked /\ k \notin blocklist BY <1>7, <2>2, <3>2 DEF Logout
            <4>2. issued[k].exp < now
                  /\ \A x \in Threads : session[x].pc = "decoded" => session[x].token # k
                BY <4>1 DEF RevokedInv, Banned
            <4> QED BY <1>7, <2>1, <4>2 DEF Banned, Logout
        <3> QED BY <3>1, <3>2
    <2> QED BY <1>0, <2>2 DEF RevokedInv
<1>8. ASSUME PruneTokens PROVE RevokedInv'
    <2>1. \A x \in Threads : session[x].pc = "idle" BY <1>8 DEF PruneTokens
    <2>2. ASSUME NEW k \in revoked PROVE Banned(k)'
        <3>1. issued[k].exp \in Nat BY <1>0, TokensAreTokens
        <3> QED BY <1>0, <1>8, <2>1, <3>1 DEF PruneTokens, RevokedInv, Banned
    <2> QED BY <1>0, <1>8, <2>2 DEF RevokedInv, PruneTokens
<1>9. ASSUME NEW p \in People, CreateAdmin(p), NextAccount PROVE RevokedInv'
    BY <1>0, <1>9, BannedKept DEF CreateAdmin
<1>10. CASE Tick /\ UNCHANGED accountVars
    BY <1>0, <1>10, BannedKept DEF Tick, accountVars, NextAccount
<1>11. CASE UNCHANGED <<clockVars, accountVars>>
    BY <1>0, <1>11 DEF clockVars, accountVars, RevokedInv, Banned
<1>12. CASE AccountNext
    <2>1. NextAccount BY <1>12 DEF NextAccount
    <2> QED BY <1>3, <1>4, <1>5, <1>6, <1>7, <1>8, <1>9, <1>12, <2>1 DEF AccountNext
<1> QED BY <1>10, <1>11, <1>12 DEF NextAccount

LEMMA InitRevokedInv == ClockInit /\ AccountInit => RevokedInv
BY InitAccountInv DEF AccountInit, RevokedInv

\* Only the check of the blocklist leads out of "decoded" to "verified".
LEMMA RevokedRefused ==
    ASSUME RevokedInv, [NextAccount]_<<clockVars, accountVars>>, NEW t \in Threads,
           session[t].pc = "decoded", session'[t].pc = "verified"
    PROVE  session[t].token \notin revoked
<1>0. session \in [Threads -> Session]
    BY DEF RevokedInv, AccountInv, AccountTypeOK
<1>1. ASSUME NEW x \in Threads,
             \/ \E p \in People : RegisterStart(x, p)
             \/ \E p \in People, right \in BOOLEAN : LoginStart(x, p, right)
             \/ \E r \in Routes, j \in Jtis : Decode(x, r[1], r[2], j)
      PROVE  FALSE
    <2>1. /\ session'[x].pc # "verified"
          /\ \A y \in Threads \ {x} : session'[y] = session[y]
        BY ZenonT(40), <1>0, <1>1 DEF RegisterStart, LoginStart, Decode, NoSession
    <2> QED BY <2>1
<1>2. ASSUME NEW x \in Threads, EndRequest(x) PROVE FALSE
    BY <1>0, <1>2, IdleSession DEF EndRequest
<1>3. ASSUME NEW x \in Threads,
             \/ LoadAccount(x) /\ Active(session[x].person)
             \/ \E o \in Orders : ClaimRead(x, o) /\ owner[o] \in {None, session[x].person[2]}
             \/ \E c \in People : ActivationRead(x, c)
      PROVE  FALSE
    <2>1. session[x] \in Session BY <1>0
    <2>2. /\ session'[x].pc # "verified"
          /\ \A y \in Threads \ {x} : session'[y] = session[y]
        BY <1>0, <1>3, <2>1 DEF LoadAccount, ClaimRead, ActivationRead, Session
    <2> QED BY <2>2
<1>4. ASSUME NEW x \in Threads,
             \/ RegisterCommit(x) \/ LoginWrong(x) \/ LoginInactive(x) \/ LoginDone(x)
             \/ Refuse(x) \/ Refresh(x) \/ Logout(x) \/ ClaimCommit(x)
             \/ ActivationCommit(x) \/ SessionCrash(x)
             \/ LoadAccount(x) /\ ~Active(session[x].person)
             \/ \E o \in Orders : ClaimRead(x, o) /\ owner[o] \notin {None, session[x].person[2]}
      PROVE  FALSE
    BY <1>2, <1>4 DEF RegisterCommit, LoginWrong, LoginInactive, LoginDone, Refuse,
       Refresh, Logout, ClaimCommit, ActivationCommit, SessionCrash, LoadAccount, ClaimRead
<1>5. session' # session OBVIOUS
<1>6. PICK x \in Threads : Verify(x)
    BY <1>1, <1>3, <1>4, <1>5
    DEF NextAccount, AccountNext, accountVars, CreateAdmin, PruneTokens
<1>7. x = t BY <1>0, <1>6 DEF Verify
<1>8. session[t].token \notin blocklist BY <1>6, <1>7 DEF Verify, is_revoked
<1> QED BY <1>8 DEF RevokedInv, Banned

\* While the blocklist is pruned only when no request is served, a token that was
\* logged out is never accepted again (prune-security-tables, is_revoked).
THEOREM RevokedIsRefused ==
    ASSUME "prune" \in Serial
    PROVE  AccountSpec => RevokedStaysOut
<1>1. ClockInit /\ AccountInit => RevokedInv BY InitRevokedInv
<1>2. RevokedInv /\ [NextAccount]_<<clockVars, accountVars>> => RevokedInv'
    BY NextRevokedInv
<1>3. RevokedInv /\ [NextAccount]_<<clockVars, accountVars>>
      => [\A t \in Threads :
            session[t].pc = "decoded" /\ session'[t].pc = "verified" =>
                session[t].token \notin revoked]_<<clockVars, accountVars>>
    BY RevokedRefused
<1> QED BY <1>1, <1>2, <1>3, PTL DEF AccountSpec, NextAccount, RevokedStaysOut

-----------------------------------------------------------------------------

\* The failure count of an account is the number of wrong passwords in a row, and
\* from MaxFailed on the account is locked from the last of them.
CountOK(row, guess) ==
    IF row = None THEN guess.wrong = 0
    ELSE /\ row.failed = guess.wrong
         /\ row.failed >= MaxFailed => row.locked_until = guess.last + Lockout

\* A sign-in holds the account's count as it still is, and was not locked out.
TryOK(s, rows) ==
    /\ s.kind = "login" /\ rows[s.person] # None
    /\ s.seen.failed = rows[s.person].failed
    /\ s.seen.locked_until = rows[s.person].locked_until
    /\ s.seen.locked_until # None => s.seen.locked_until <= now

Trying(t) == session[t].pc = "password"

GuessInv ==
    /\ AccountInv
    /\ \A p \in People : CountOK(account[p], guesses[p])
    /\ \A t \in Threads : Trying(t) => TryOK(session[t], account)
    /\ \A t, x \in Threads : Trying(t) /\ Trying(x) => t = x

\* A step that leaves alone the counts that others are trying against.
LEMMA GuessKept ==
    ASSUME GuessInv, AccountInv', now <= now', NEW t \in Threads,
           \A x \in Threads \ {t} : session'[x] = session[x],
           session'[t].pc # "password",
           \A p \in People : CountOK(account'[p], guesses'[p]),
           \A x \in Threads \ {t} : Trying(x) =>
               LET p == session[x].person IN
               /\ account'[p] # None
               /\ account'[p].failed = account[p].failed
               /\ account'[p].locked_until = account[p].locked_until
    PROVE  GuessInv'
<1>1. ASSUME NEW x \in Threads, Trying(x)' PROVE TryOK(session[x], account)'
    <2>1. x # t /\ session'[x] = session[x] /\ Trying(x) BY <1>1 DEF Trying
    <2>2. TryOK(session[x], account) BY <2>1 DEF GuessInv
    <2>3. session[x].seen \in AccountRow /\ now \in Int /\ now' \in Int
        BY <2>1 DEF GuessInv, AccountInv, RequestOK, Trying
    <2>4. session[x].seen.locked_until # None => session[x].seen.locked_until \in Nat
        BY <2>3 DEF AccountRow
    <2>5. session[x].seen.locked_until # None => session[x].seen.locked_until <= now'
        BY <2>2, <2>3, <2>4 DEF TryOK
    <2> QED BY <2>1, <2>2, <2>5 DEF TryOK
<1>2. \A x, y \in Threads : Trying(x)' /\ Trying(y)' => x = y
    BY DEF Trying, GuessInv
<1>3. (\A p \in People : CountOK(account[p], guesses[p]))' OBVIOUS
<1> QED BY <1>1, <1>2, <1>3 DEF GuessInv

\* A step that changes neither accounts nor guesses.
LEMMA GuessRead ==
    ASSUME GuessInv, AccountInv', now' = now, NEW t \in Threads,
           \A x \in Threads \ {t} : session'[x] = session[x],
           session'[t].pc # "password",
           account' = account, guesses' = guesses
    PROVE  GuessInv'
<1>1. \A x \in Threads : Trying(x) => account[session[x].person] # None
    BY DEF GuessInv, TryOK
<1>2. now <= now' BY DEF GuessInv, AccountInv
<1> QED BY <1>1, <1>2, GuessKept DEF GuessInv

LEMMA GuessStarts ==
    ASSUME GuessInv, AccountInv', "login" \in Serial, NEW t \in Threads,
           NEW p \in People, NEW right \in BOOLEAN, LoginStart(t, p, right)
    PROVE  GuessInv'
<1>0. session \in [Threads -> Session] /\ now \in Int
    BY DEF GuessInv, AccountInv, AccountTypeOK
<1>1. /\ session'[t].pc = "password" /\ session'[t].kind = "login"
      /\ session'[t].person = p /\ session'[t].seen = account[p]
      /\ \A x \in Threads \ {t} : session'[x] = session[x]
    BY <1>0 DEF LoginStart, NoSession
<1>2. \A x \in Threads : ~Trying(x)
    BY DEF LoginStart, Reaches, GuessInv, TryOK
<1>3. account[p] \in AccountRow
    BY DEF LoginStart, GuessInv, AccountInv, AccountTypeOK
<1>4. account[p].locked_until # None => account[p].locked_until <= now
    <2>1. account[p].locked_until # None => account[p].locked_until \in Nat
        BY <1>3 DEF AccountRow
    <2> QED BY <1>0, <2>1 DEF LoginStart, is_locked
<1>5. TryOK(session[t], account)'
    BY <1>1, <1>4 DEF TryOK, LoginStart
<1>6. \A x \in Threads : Trying(x)' => x = t BY <1>1, <1>2 DEF Trying
<1>7. (\A x \in Threads : Trying(x) => TryOK(session[x], account))'
    BY <1>5, <1>6
<1>8. (\A q \in People : CountOK(account[q], guesses[q]))'
    BY DEF GuessInv, LoginStart, CountOK
<1> QED BY <1>6, <1>7, <1>8 DEF GuessInv

\* The one sign-in there is ends, right or wrong.
LEMMA GuessEnds ==
    ASSUME GuessInv, AccountInv', NEW t \in Threads, LoginWrong(t) \/ LoginDone(t)
    PROVE  GuessInv'
<1> DEFINE p == session[t].person
           seen == session[t].seen
<1>0. /\ session \in [Threads -> Session] /\ now \in Int
      /\ account \in [People -> AccountRow \cup {None}]
      /\ guesses \in [People -> [wrong : Nat, last : Nat]]
    BY DEF GuessInv, AccountInv, AccountTypeOK
<1>1. Trying(t) BY DEF LoginWrong, LoginDone, Trying
<1>2. p \in People /\ account[p] \in AccountRow /\ seen \in AccountRow
    BY <1>1 DEF Trying, GuessInv, AccountInv, RequestOK
<1>3. TryOK(session[t], account) BY <1>1 DEF GuessInv
<1>4. /\ session'[t].pc = "idle"
      /\ \A x \in Threads \ {t} : session'[x] = session[x] /\ ~Trying(x)
    BY <1>0, <1>1, IdleSession DEF LoginWrong, LoginDone, EndRequest, GuessInv
<1>5. None \notin AccountRow /\ CountOK(account[p], guesses[p])
    BY <1>2, AccountNoneAssumption DEF GuessInv
<1>6. account[p].failed = guesses[p].wrong /\ seen.failed = account[p].failed
    BY <1>2, <1>3, <1>5 DEF CountOK, TryOK
<1>7. CASE LoginWrong(t)
    <2> DEFINE failed == seen.failed + 1
               until == IF failed >= MaxFailed THEN now + Lockout
                        ELSE account[p].locked_until
    <2>1. /\ account' = [account EXCEPT ![p] =
                            [account[p] EXCEPT !.failed = failed, !.locked_until = until]]
          /\ guesses' = [guesses EXCEPT ![p] =
                            [wrong |-> guesses[p].wrong + 1, last |-> now]]
        BY <1>0, <1>2, <1>7 DEF LoginWrong
    <2> HIDE DEF p, seen
    <2>2. /\ account'[p].failed = failed /\ account'[p].locked_until = until
          /\ guesses'[p].wrong = guesses[p].wrong + 1 /\ guesses'[p].last = now
          /\ account'[p] # None
          /\ \A q \in People \ {p} : account'[q] = account[q] /\ guesses'[q] = guesses[q]
        <3>1. account[p].locked_until \in Nat \cup {None} /\ seen.failed \in Nat
            BY <1>2 DEF AccountRow
        <3>2. now + Lockout \in Nat
            BY <1>0, AccountAssumption DEF GuessInv, AccountInv
        <3>3. failed \in Nat /\ until \in Nat \cup {None} BY <3>1, <3>2
        <3> HIDE DEF failed, until
        <3> DEFINE row == [account[p] EXCEPT !.failed = failed, !.locked_until = until]
        <3>4. row.failed = failed /\ row.locked_until = until
            BY <1>2 DEF AccountRow
        <3>5. account' = [account EXCEPT ![p] = row] BY <2>1
        <3>6. row \in AccountRow BY <1>2, <3>3 DEF AccountRow
        <3> HIDE DEF row
        <3> QED BY <1>0, <1>2, <1>5, <2>1, <3>4, <3>5, <3>6
    <2>3. CountOK(account'[p], guesses'[p])
        BY <1>6, <2>2 DEF CountOK
    <2>4. \A q \in People : CountOK(account'[q], guesses'[q])
        BY <2>2, <2>3 DEF GuessInv
    <2>5. now <= now' BY <1>0, <1>7 DEF LoginWrong
    <2> QED BY <1>4, <2>4, <2>5, GuessKept
<1>8. CASE LoginDone(t)
    <2> DEFINE row == [account[p] EXCEPT
                          !.failed = IF seen.failed # 0 THEN 0 ELSE @,
                          !.locked_until = IF seen.locked_until # None THEN None ELSE @]
    <2>1. account' = [account EXCEPT ![p] = row] /\ guesses' = [guesses EXCEPT ![p].wrong = 0]
        BY <1>0, <1>2, <1>8 DEF LoginDone
    <2>2. row.failed = 0 /\ row \in AccountRow
        BY <1>2, <1>6 DEF AccountRow
    <2> HIDE DEF row, p, seen
    <2>3. CountOK(account'[p], guesses'[p])
        BY <1>0, <1>2, <1>5, <2>1, <2>2, AccountAssumption DEF CountOK
    <2>4. \A q \in People \ {p} : account'[q] = account[q] /\ guesses'[q] = guesses[q]
        BY <1>0, <2>1
    <2>5. \A q \in People : CountOK(account'[q], guesses'[q])
        BY <2>3, <2>4 DEF GuessInv
    <2>6. now <= now' BY <1>0, <1>8 DEF LoginDone
    <2> QED BY <1>4, <2>5, <2>6, GuessKept
<1> QED BY <1>7, <1>8

\* An account that comes into being, or changes its activity, between the sign-ins.
LEMMA GuessRows ==
    ASSUME GuessInv, AccountInv', NEW t \in Threads,
           RegisterCommit(t) \/ ActivationCommit(t)
    PROVE  GuessInv'
<1>0. /\ session \in [Threads -> Session]
      /\ account \in [People -> AccountRow \cup {None}]
      /\ now <= now' /\ now' = now
    BY DEF GuessInv, AccountInv, AccountTypeOK, RegisterCommit, ActivationCommit
<1>1. /\ session'[t].pc = "idle" /\ guesses' = guesses
      /\ \A x \in Threads \ {t} : session'[x] = session[x]
    BY <1>0, IdleSession DEF RegisterCommit, ActivationCommit, EndRequest
<1>2. \A x \in Threads : Trying(x) =>
          session[x].person \in People /\ account[session[x].person] # None
    BY DEF GuessInv, AccountInv, RequestOK, TryOK, Trying
<1>3. CASE RegisterCommit(t) /\ account[session[t].person] = None
    <2> DEFINE p == session[t].person
    <2>1. p \in People BY <1>3 DEF RegisterCommit, GuessInv, AccountInv, RequestOK
    <2>2. account' = [account EXCEPT ![p] = NewAccount] BY <1>3 DEF RegisterCommit
    <2> HIDE DEF p
    <2>3. account'[p] = NewAccount /\ \A q \in People \ {p} : account'[q] = account[q]
        BY <1>0, <2>1, <2>2
    <2>4. guesses[p].wrong = 0 BY <1>3, <2>1 DEF GuessInv, CountOK, p
    <2>5. CountOK(account'[p], guesses'[p])
        BY <1>1, <2>3, <2>4, AccountAssumption DEF CountOK, NewAccount
    <2>6. \A q \in People : CountOK(account'[q], guesses'[q])
        BY <1>1, <2>3, <2>5 DEF GuessInv
    <2>7. \A x \in Threads : Trying(x) => account'[session[x].person] = account[session[x].person]
        BY <1>2, <1>3, <2>3 DEF p
    <2> QED BY <1>0, <1>1, <1>2, <2>6, <2>7, GuessKept
<1>4. CASE RegisterCommit(t) /\ account[session[t].person] # None
    BY <1>0, <1>1, <1>4, GuessRead DEF RegisterCommit
<1>5. CASE ActivationCommit(t)
    <2> DEFINE c == session[t].about
               row == [account[c] EXCEPT !.active = ~session[t].seen.active]
    <2>1. c \in People /\ account[c] \in AccountRow
        BY <1>5 DEF ActivationCommit, GuessInv, AccountInv, RequestOK
    <2>2. account' = [account EXCEPT ![c] = row] BY <1>5 DEF ActivationCommit
    <2>3. row.failed = account[c].failed /\ row.locked_until = account[c].locked_until
        BY <2>1 DEF AccountRow
    <2>4. session[t].seen \in AccountRow
        BY <1>5 DEF ActivationCommit, GuessInv, AccountInv, RequestOK
    <2>5. row \in AccountRow BY <2>1, <2>4 DEF AccountRow
    <2>6. None \notin AccountRow BY AccountNoneAssumption
    <2> HIDE DEF row, c
    <2>7. \A q \in People :
              /\ account'[q] = None <=> account[q] = None
              /\ account[q] # None => /\ account'[q].failed = account[q].failed
                                      /\ account'[q].locked_until = account[q].locked_until
        BY <1>0, <2>1, <2>2, <2>3, <2>5, <2>6
    <2>8. \A q \in People : CountOK(account'[q], guesses'[q])
        BY <1>1, <2>7 DEF GuessInv, CountOK
    <2> QED BY <1>0, <1>1, <1>2, <2>7, <2>8, GuessKept
<1> QED BY <1>3, <1>4, <1>5

\* A step that only lets time pass, or changes what no sign-in reads.
LEMMA GuessIdle ==
    ASSUME GuessInv, AccountInv', now <= now', session' = session, guesses' = guesses,
           \A p \in People : account[p] # None => account'[p] = account[p],
           \A p \in People : CountOK(account'[p], guesses'[p])
    PROVE  GuessInv'
<1>1. ASSUME NEW x \in Threads, Trying(x) PROVE TryOK(session[x], account)'
    <2>1. TryOK(session[x], account) BY <1>1 DEF GuessInv
    <2>2. /\ session[x].seen \in AccountRow /\ now \in Int /\ now' \in Int
          /\ session[x].person \in People
        BY <1>1 DEF GuessInv, AccountInv, RequestOK, Trying
    <2>3. session[x].seen.locked_until # None => session[x].seen.locked_until \in Nat
        BY <2>2 DEF AccountRow
    <2>4. session[x].seen.locked_until # None => session[x].seen.locked_until <= now'
        BY <2>1, <2>2, <2>3 DEF TryOK
    <2>5. account'[session[x].person] = account[session[x].person]
        BY <2>1, <2>2 DEF TryOK
    <2> QED BY <2>1, <2>4, <2>5 DEF TryOK
<1>2. (\A x \in Threads : Trying(x) => TryOK(session[x], account))'
    BY <1>1 DEF Trying
<1>3. (\A x, y \in Threads : Trying(x) /\ Trying(y) => x = y)'
    BY DEF Trying, GuessInv
<1>4. (\A p \in People : CountOK(account[p], guesses[p]))' OBVIOUS
<1> QED BY <1>2, <1>3, <1>4 DEF GuessInv

LEMMA NextGuessInv ==
    ASSUME GuessInv, "login" \in Serial, [NextAccount]_<<clockVars, accountVars>>
    PROVE  GuessInv'
<1>0. /\ AccountInv /\ AccountInv'
      /\ session \in [Threads -> Session] /\ now \in Int
      /\ account \in [People -> AccountRow \cup {None}]
      /\ \A p \in People : CountOK(account[p], guesses[p])
    BY NextAccountInv DEF GuessInv, AccountInv, AccountTypeOK
<1>1. ASSUME NEW t \in Threads, EndRequest(t), now' = now, account' = account,
             guesses' = guesses
      PROVE  GuessInv'
    BY <1>0, <1>1, IdleSession, GuessRead DEF EndRequest
<1>2. ASSUME NEW t \in Threads,
             \/ \E p \in People : RegisterStart(t, p)
             \/ \E r \in Routes, j \in Jtis : Decode(t, r[1], r[2], j)
      PROVE  GuessInv'
    <2>1. /\ session'[t].pc # "password"
          /\ \A x \in Threads \ {t} : session'[x] = session[x]
        BY ZenonT(40), <1>0, <1>2 DEF RegisterStart, Decode, NoSession
    <2> QED BY <1>0, <1>2, <2>1, GuessRead DEF RegisterStart, Decode
<1>3. ASSUME NEW t \in Threads, Verify(t) \/ (LoadAccount(t) /\ Active(session[t].person))
      PROVE  GuessInv'
    <2>1. session[t] \in Session BY <1>0
    <2>2. /\ session'[t].pc # "password"
          /\ \A x \in Threads \ {t} : session'[x] = session[x]
        <3>1. CASE Verify(t) BY <1>0, <2>1, <3>1 DEF Verify, Session
        <3>2. CASE LoadAccount(t) /\ Active(session[t].person)
            BY <1>0, <2>1, <3>2 DEF LoadAccount, Session
        <3> QED BY <1>3, <3>1, <3>2
    <2> QED BY <1>0, <1>3, <2>2, GuessRead DEF Verify, LoadAccount
<1>4. ASSUME NEW t \in Threads, NEW o \in Orders, ClaimRead(t, o),
             owner[o] \in {None, session[t].person[2]}
      PROVE  GuessInv'
    <2>1. session[t] \in Session BY <1>0
    <2>2. /\ session'[t].pc # "password"
          /\ \A x \in Threads \ {t} : session'[x] = session[x]
        BY <1>0, <1>4, <2>1 DEF ClaimRead, Session
    <2> QED BY <1>0, <1>4, <2>2, GuessRead DEF ClaimRead
<1>5. ASSUME NEW t \in Threads, NEW c \in People, ActivationRead(t, c) PROVE GuessInv'
    <2>1. session[t] \in Session BY <1>0
    <2>2. /\ session'[t].pc # "password"
          /\ \A x \in Threads \ {t} : session'[x] = session[x]
        BY <1>0, <1>5, <2>1 DEF ActivationRead, Session
    <2> QED BY <1>0, <1>5, <2>2, GuessRead DEF ActivationRead
<1>6. ASSUME NEW t \in Threads,
             \/ LoginInactive(t) \/ Refuse(t) \/ Refresh(t) \/ Logout(t) \/ ClaimCommit(t)
             \/ SessionCrash(t)
             \/ LoadAccount(t) /\ ~Active(session[t].person)
             \/ \E o \in Orders : ClaimRead(t, o) /\ owner[o] \notin {None, session[t].person[2]}
      PROVE  GuessInv'
    BY <1>1, <1>6 DEF LoginInactive, Refuse, Refresh, Logout, ClaimCommit, SessionCrash,
       LoadAccount, ClaimRead
<1>7. ASSUME NEW p \in People, CreateAdmin(p) PROVE GuessInv'
    <2>1. /\ account'[p] = NewAccount /\ account[p] = None
          /\ \A q \in People \ {p} : account'[q] = account[q]
          /\ session' = session /\ guesses' = guesses /\ now <= now'
        BY <1>0, <1>7 DEF CreateAdmin
    <2>2. guesses[p].wrong = 0 BY <1>0, <2>1 DEF CountOK
    <2>3. CountOK(account'[p], guesses'[p])
        BY <2>1, <2>2, AccountAssumption DEF CountOK, NewAccount
    <2>4. \A q \in People : CountOK(account'[q], guesses'[q]) BY <1>0, <2>1, <2>3
    <2> QED BY <1>0, <2>1, <2>4, GuessIdle
<1>8. ASSUME now <= now', session' = session, guesses' = guesses, account' = account
      PROVE  GuessInv'
    BY <1>0, <1>8, GuessIdle
<1>9. CASE PruneTokens BY <1>0, <1>8, <1>9 DEF PruneTokens
<1>10. CASE Tick /\ UNCHANGED accountVars BY <1>0, <1>8, <1>10 DEF Tick, accountVars
<1>11. CASE UNCHANGED <<clockVars, accountVars>>
    BY <1>0, <1>8, <1>11 DEF clockVars, accountVars
<1>12. CASE AccountNext
    BY <1>0, <1>2, <1>3, <1>4, <1>5, <1>6, <1>7, <1>9, <1>12, GuessStarts, GuessEnds,
       GuessRows DEF AccountNext
<1> QED BY <1>10, <1>11, <1>12 DEF NextAccount

LEMMA InitGuessInv == ClockInit /\ AccountInit => GuessInv
<1> SUFFICES ASSUME ClockInit, AccountInit PROVE GuessInv OBVIOUS
<1>1. \A p \in People : account[p] \in {None, NewAccount} /\ guesses[p].wrong = 0
    BY DEF AccountInit
<1>2. \A p \in People : CountOK(account[p], guesses[p])
    BY <1>1, AccountAssumption DEF CountOK, NewAccount
<1>3. \A t \in Threads : ~Trying(t) BY IdleSession DEF AccountInit, Trying
<1>4. AccountInv BY InitAccountInv
<1> QED BY <1>2, <1>3, <1>4 DEF GuessInv

\* Only a wrong password adds to the guesses, and it was let in by the lock.
LEMMA GuessLetIn ==
    ASSUME GuessInv, [NextAccount]_<<clockVars, accountVars>>, NEW p \in People,
           guesses'[p].wrong > guesses[p].wrong, guesses[p].wrong >= MaxFailed
    PROVE  now >= guesses[p].last + Lockout
<1>0. guesses \in [People -> [wrong : Nat, last : Nat]]
    BY DEF GuessInv, AccountInv, AccountTypeOK
<1>1. guesses' # guesses BY <1>0
<1>2. ASSUME NEW t \in Threads, LoginDone(t) PROVE FALSE
    <2>1. guesses' = [guesses EXCEPT ![session[t].person].wrong = 0]
        BY <1>2 DEF LoginDone
    <2>2. guesses'[p].wrong <= guesses[p].wrong BY <1>0, <2>1
    <2>3. guesses'[p].wrong \in Nat BY <1>0, <2>1
    <2> QED BY <1>0, <2>2, <2>3
<1>3. PICK t \in Threads : LoginWrong(t)
    BY ZenonT(40), <1>1, <1>2 DEF NextAccount, AccountNext, accountVars, RegisterStart, RegisterCommit,
       LoginStart, LoginInactive, Decode, Verify, Refuse, LoadAccount, Refresh, Logout,
       ClaimRead, ClaimCommit, ActivationRead, ActivationCommit, SessionCrash, CreateAdmin,
       PruneTokens
<1>4. session[t].person = p
    BY <1>0, <1>1, <1>3 DEF LoginWrong
<1>5. TryOK(session[t], account) /\ CountOK(account[p], guesses[p])
    BY <1>3 DEF LoginWrong, GuessInv, Trying
<1>6. /\ account[p] # None /\ account[p].failed = guesses[p].wrong
      /\ session[t].seen.locked_until = guesses[p].last + Lockout
    BY <1>4, <1>5 DEF TryOK, CountOK
<1>7. guesses[p].last + Lockout # None
    BY <1>0, AccountAssumption, ClockAssumption
<1> QED BY <1>5, <1>6, <1>7 DEF TryOK, GuessInv, AccountInv

\* While sign-ins are made one at a time, after MaxFailed wrong passwords in a row
\* the next one of that account is looked at a whole lockout later
\* (register_failed_login, is_locked).
THEOREM GuessingIsSlow ==
    ASSUME "login" \in Serial
    PROVE  AccountSpec => GuessesAreSlow
<1>1. ClockInit /\ AccountInit => GuessInv BY InitGuessInv
<1>2. GuessInv /\ [NextAccount]_<<clockVars, accountVars>> => GuessInv'
    BY NextGuessInv
<1>3. GuessInv /\ [NextAccount]_<<clockVars, accountVars>>
      => [\A p \in People :
            /\ guesses'[p].wrong > guesses[p].wrong
            /\ guesses[p].wrong >= MaxFailed
            => now >= guesses[p].last + Lockout]_<<clockVars, accountVars>>
    BY GuessLetIn
<1> QED BY <1>1, <1>2, <1>3, PTL DEF AccountSpec, NextAccount, GuessesAreSlow
=============================================================================
