--------------------------- MODULE AccountsProofs ---------------------------
(***************************************************************************)
(* Theorems about module Accounts, for every number of threads, accounts   *)
(* and orders, and every lifetime, limit and lockout.                      *)
(***************************************************************************)
EXTENDS Accounts, SequenceTheorems, TLAPS

\* A token names who earned it, and does not outlive what it may renew.
TokenOK(k) ==
    /\ k.person = k.holder
    /\ k.type = "refresh" => k.exp <= k.began + RefreshLife

\* What each stage of a request relies on, of the tokens and of the accounts.
RequestOK(s, tokens, rows) ==
    /\ s.pc # "idle" => s.person \in People
    /\ s.pc \in {"decoded", "verified", "allowed"} => s.token \in 1..Len(tokens)
    /\ s.pc = "decoded" => tokens[s.token].person[2] = s.person[2]
    /\ s.pc \in {"verified", "allowed"} => tokens[s.token].person = s.person
    /\ s.pc = "password" => s.seen \in AccountRow /\ rows[s.person] \in AccountRow
    /\ s.pc = "claiming" => s.order \in Orders
    /\ s.pc = "activating" =>
          s.about \in People /\ s.seen \in AccountRow /\ rows[s.about] \in AccountRow

AccountInv ==
    /\ now \in 0..MaxTime /\ AccountTypeOK
    /\ \A j \in Jtis : TokenOK(issued[j])
    /\ \A t \in Threads : RequestOK(session[t], issued, account)

NextAccount == AccountNext \/ (Tick /\ UNCHANGED accountVars)

-----------------------------------------------------------------------------

\* Tokens are only ever added.
LEMMA TokensAdded ==
    ASSUME NEW old \in Seq(Token), NEW more \in Seq(Token)
    PROVE  /\ old \o more \in Seq(Token)
           /\ Len(old) \in Nat /\ Len(old \o more) \in Nat
           /\ Len(old) <= Len(old \o more)
           /\ \A j \in 1..Len(old) : (old \o more)[j] = old[j]
           /\ \A j \in 1..Len(old \o more) :
                 j \in 1..Len(old) \/ \E k \in 1..Len(more) : (old \o more)[j] = more[k]
<1>1. /\ old \o more \in Seq(Token)
      /\ Len(old \o more) = Len(old) + Len(more)
      /\ \A i \in 1 .. Len(old) + Len(more) :
            (old \o more)[i] = IF i <= Len(old) THEN old[i] ELSE more[i - Len(old)]
    BY ConcatProperties
<1>2. Len(old) \in Nat /\ Len(more) \in Nat BY LenProperties
<1>3. ASSUME NEW j \in 1..Len(old \o more), j \notin 1..Len(old)
      PROVE  \E k \in 1..Len(more) : (old \o more)[j] = more[k]
    <2>1. j - Len(old) \in 1..Len(more) BY <1>1, <1>2, <1>3
    <2>2. (old \o more)[j] = more[j - Len(old)] BY <1>1, <1>2, <1>3
    <2> QED BY <2>1, <2>2
<1> QED BY <1>1, <1>2, <1>3

\* A request that only waits keeps what it relies on, when tokens are added and
\* accounts stay.
LEMMA RequestKept ==
    ASSUME NEW s \in Session, NEW old \in Seq(Token), NEW more \in Seq(Token),
           NEW rows, NEW rows2, \A p \in People : rows[p] \in AccountRow => rows2[p] \in AccountRow,
           RequestOK(s, old, rows)
    PROVE  RequestOK(s, old \o more, rows2)
BY TokensAdded DEF RequestOK

\* A step of one request, which may add tokens and change rows.
LEMMA RequestStep ==
    ASSUME AccountInv, NEW t \in Threads, NEW s \in Session, NEW more \in Seq(Token),
           session' = [session EXCEPT ![t] = s], now' = now,
           issued' = issued \o more, \A k \in 1..Len(more) : TokenOK(more[k]),
           account' \in [People -> AccountRow \cup {None}],
           \A p \in People : account[p] \in AccountRow => account'[p] \in AccountRow,
           blocklist' \subseteq blocklist \cup Jtis,
           revoked' \subseteq revoked \cup Jtis,
           owner' \in [Orders -> Ids \cup {None}],
           guesses' \in [People -> [wrong : Nat, last : Nat]],
           RequestOK(s, issued', account')
    PROVE  AccountInv'
<1> USE DEF AccountInv, AccountTypeOK
<1>1. /\ issued' \in Seq(Token) /\ Jtis \subseteq Jtis'
      /\ \A j \in Jtis' : \/ j \in Jtis /\ issued'[j] = issued[j]
                          \/ \E k \in 1..Len(more) : issued'[j] = more[k]
    BY TokensAdded DEF Jtis
<1>2. \A j \in Jtis' : TokenOK(issued'[j])
    BY <1>1
<1>3. session' \in [Threads -> Session] OBVIOUS
<1>4. ASSUME NEW x \in Threads PROVE RequestOK(session'[x], issued', account')
    <2>1. CASE x = t BY <2>1
    <2>2. CASE x # t
        <3>1. session'[x] = session[x] /\ session[x] \in Session BY <2>2
        <3> QED BY <3>1, RequestKept
    <2> QED BY <2>1, <2>2
<1>5. (\A j \in Jtis : TokenOK(issued[j]))'
    BY <1>2 DEF TokenOK
<1>6. (\A x \in Threads : RequestOK(session[x], issued, account))'
    BY <1>4
<1> QED BY <1>1, <1>3, <1>5, <1>6

\* A step that changes nothing but one request.
LEMMA NoneAdded ==
    ASSUME NEW tokens \in Seq(Token)
    PROVE  \E more \in Seq(Token) :
              tokens = tokens \o more /\ \A k \in 1..Len(more) : TokenOK(more[k])
<1>1. <<>> \in Seq(Token) /\ tokens \o <<>> = tokens /\ Len(<<>>) = 0
    BY ConcatEmptySeq, EmptySeq
<1>2. \A k \in 1..Len(<<>>) : TokenOK(<<>>[k]) BY <1>1
<1> QED BY <1>1, <1>2

LEMMA OnlyRequest ==
    ASSUME AccountInv, NEW t \in Threads, NEW s \in Session,
           session' = [session EXCEPT ![t] = s],
           UNCHANGED <<now, load, account, issued, blocklist, owner, revoked, guesses>>,
           RequestOK(s, issued, account)
    PROVE  AccountInv'
<1>1. issued \in Seq(Token) BY DEF AccountInv, AccountTypeOK
<1>2. PICK more \in Seq(Token) :
          issued = issued \o more /\ \A k \in 1..Len(more) : TokenOK(more[k])
    BY <1>1, NoneAdded
<1>3. /\ blocklist \subseteq blocklist \cup Jtis /\ revoked \subseteq revoked \cup Jtis
      /\ account \in [People -> AccountRow \cup {None}]
      /\ owner \in [Orders -> Ids \cup {None}]
      /\ guesses \in [People -> [wrong : Nat, last : Nat]]
    BY DEF AccountInv, AccountTypeOK
<1>4. issued' = issued \o more BY <1>2
<1>5. RequestOK(s, issued', account') OBVIOUS
<1> QED BY <1>2, <1>3, <1>4, <1>5, RequestStep

LEMMA NoSessionOK ==
    /\ NoSession \in Session
    /\ \A tokens, rows : RequestOK(NoSession, tokens, rows)
<1>1. NoSession \in Session BY DEF NoSession, Session
<1>2. NoSession.pc = "idle" BY DEF NoSession
<1>3. \A tokens, rows : RequestOK(NoSession, tokens, rows) BY <1>2 DEF RequestOK
<1> QED BY <1>1, <1>3

\* A step that ends its request and leaves the tokens alone.
LEMMA Ended ==
    ASSUME AccountInv, NEW t \in Threads, EndRequest(t), now' = now, issued' = issued,
           account' \in [People -> AccountRow \cup {None}],
           \A p \in People : account[p] \in AccountRow => account'[p] \in AccountRow,
           blocklist' \subseteq blocklist \cup Jtis,
           revoked' \subseteq revoked \cup Jtis,
           owner' \in [Orders -> Ids \cup {None}],
           guesses' \in [People -> [wrong : Nat, last : Nat]]
    PROVE  AccountInv'
<1>1. issued \in Seq(Token) BY DEF AccountInv, AccountTypeOK
<1>2. PICK more \in Seq(Token) :
          issued = issued \o more /\ \A k \in 1..Len(more) : TokenOK(more[k])
    BY <1>1, NoneAdded
<1>3. issued' = issued \o more BY <1>2
<1> QED BY <1>2, <1>3, NoSessionOK, RequestStep DEF EndRequest

\* The tokens of a sign-in.
LEMMA PairOK ==
    ASSUME AccountInv, NEW p \in People
    PROVE  /\ Pair(p) \in Seq(Token)
           /\ \A k \in 1..Len(Pair(p)) : TokenOK(Pair(p)[k])
<1>1. now \in Nat /\ AccessLife \in Nat /\ RefreshLife \in Nat
    BY AccountAssumption, ClockAssumption DEF AccountInv
<1>2. /\ Mint(p, "access", p, now) \in Token /\ TokenOK(Mint(p, "access", p, now))
      /\ Mint(p, "refresh", p, now) \in Token /\ TokenOK(Mint(p, "refresh", p, now))
    BY <1>1 DEF Mint, Token, TokenOK
<1> DEFINE a == Mint(p, "access", p, now)
           b == Mint(p, "refresh", p, now)
<1> HIDE DEF a, b
<1>3. <<a, b>> \in Seq(Token) /\ Len(<<a, b>>) = 2 BY <1>2 DEF a, b
<1>4. \A k \in 1..2 : TokenOK(<<a, b>>[k]) BY <1>2 DEF a, b
<1>5. Pair(p) = <<a, b>> BY DEF Pair, a, b
<1> QED BY <1>3, <1>4, <1>5

-----------------------------------------------------------------------------

\* Steps that only read.
LEMMA ReadSteps ==
    ASSUME AccountInv, NEW t \in Threads,
           \/ \E p \in People : RegisterStart(t, p)
           \/ \E p \in People, right \in BOOLEAN : LoginStart(t, p, right)
           \/ \E r \in Routes, j \in Jtis : Decode(t, r[1], r[2], j)
           \/ Verify(t) \/ LoadAccount(t)
           \/ \E o \in Orders : ClaimRead(t, o)
           \/ \E c \in People : ActivationRead(t, c)
           \/ LoginInactive(t) \/ Refuse(t) \/ SessionCrash(t)
    PROVE  AccountInv'
<1>0. /\ session[t] \in Session /\ RequestOK(session[t], issued, account)
      /\ issued \in Seq(Token) /\ account \in [People -> AccountRow \cup {None}]
      /\ owner \in [Orders -> Ids \cup {None}]
      /\ NoSession \in Session
    BY NoSessionOK DEF AccountInv, AccountTypeOK
<1>1. ASSUME NEW p \in People, RegisterStart(t, p) PROVE AccountInv'
    <2> DEFINE s == [NoSession EXCEPT !.pc = "registering", !.kind = "register",
                                      !.person = p]
    <2>1. s \in Session /\ s.pc = "registering" /\ s.person = p
        BY <1>0 DEF Session, AccountKinds
    <2>2. session' = [session EXCEPT ![t] = s] BY <1>1 DEF RegisterStart
    <2> HIDE DEF s
    <2>3. RequestOK(s, issued, account) BY <2>1 DEF RequestOK
    <2> QED BY <1>1, <2>1, <2>2, <2>3, OnlyRequest DEF RegisterStart
<1>2. ASSUME NEW p \in People, NEW right \in BOOLEAN, LoginStart(t, p, right)
      PROVE  AccountInv'
    <2> DEFINE s == [NoSession EXCEPT !.pc = "password", !.kind = "login", !.person = p,
                                      !.right = right, !.seen = account[p]]
    <2>1. account[p] \in AccountRow BY <1>0, <1>2 DEF LoginStart
    <2>2. s \in Session /\ s.pc = "password" /\ s.person = p /\ s.seen = account[p]
        BY ZenonT(40), <1>0, <2>1 DEF Session, AccountKinds
    <2>3. session' = [session EXCEPT ![t] = s] BY <1>2 DEF LoginStart
    <2> HIDE DEF s
    <2>4. RequestOK(s, issued, account) BY <2>1, <2>2 DEF RequestOK
    <2> QED BY <1>2, <2>2, <2>3, <2>4, OnlyRequest DEF LoginStart
<1>3. ASSUME NEW r \in Routes, NEW j \in Jtis, Decode(t, r[1], r[2], j) PROVE AccountInv'
    <2> DEFINE s == [NoSession EXCEPT !.pc = "decoded", !.kind = r[1], !.token = j,
                                      !.person = <<r[2], issued[j].person[2]>>]
    <2>1. r[1] \in AccountKinds /\ r[2] \in Actors
        BY DEF Routes, AccountKinds, Actors
    <2>2. issued[j] \in Token /\ j \in Nat /\ j \in 1..Len(issued)
        BY <1>0, ElementOfSeq, LenProperties DEF Jtis
    <2>3. <<r[2], issued[j].person[2]>> \in People
        BY <2>1, <2>2 DEF Token, People
    <2>4. /\ s \in Session /\ s.pc = "decoded" /\ s.token = j
          /\ s.person = <<r[2], issued[j].person[2]>>
        BY <1>0, <2>1, <2>2, <2>3 DEF Session
    <2>5. session' = [session EXCEPT ![t] = s] BY <1>3 DEF Decode
    <2> HIDE DEF s
    <2>6. RequestOK(s, issued, account) BY <2>2, <2>3, <2>4 DEF RequestOK
    <2> QED BY <1>3, <2>4, <2>5, <2>6, OnlyRequest DEF Decode
<1>4. ASSUME Verify(t) PROVE AccountInv'
    <2> DEFINE s == [session[t] EXCEPT !.pc = "verified"]
               j == session[t].token
    <2>1. /\ s \in Session /\ s.pc = "verified" /\ s.token = j
          /\ s.person = session[t].person
        BY <1>0 DEF Session
    <2>2. session' = [session EXCEPT ![t] = s] BY <1>4 DEF Verify
    <2>3. /\ session[t].person \in People /\ j \in 1..Len(issued)
          /\ issued[j].person[2] = session[t].person[2]
          /\ issued[j].person[1] = session[t].person[1]
        BY <1>0, <1>4 DEF Verify, RequestOK, require_actor
    <2> HIDE DEF s, j
    <2>4. issued[j] \in Token BY <1>0, <2>3, ElementOfSeq
    <2>5. issued[j].person = session[t].person BY <2>3, <2>4 DEF Token, People
    <2>6. RequestOK(s, issued, account) BY <2>1, <2>3, <2>5 DEF RequestOK
    <2> QED BY <1>4, <2>1, <2>2, <2>6, OnlyRequest DEF Verify
<1>5. ASSUME LoadAccount(t) PROVE AccountInv'
    <2>1. CASE Active(session[t].person)
        <3> DEFINE s == [session[t] EXCEPT !.pc = "allowed"]
        <3>1. /\ s \in Session /\ s.pc = "allowed" /\ s.token = session[t].token
              /\ s.person = session[t].person
            BY <1>0 DEF Session
        <3>2. session' = [session EXCEPT ![t] = s] BY <1>5, <2>1 DEF LoadAccount
        <3> HIDE DEF s
        <3>3. RequestOK(s, issued, account)
            BY <1>0, <1>5, <3>1 DEF RequestOK, LoadAccount
        <3> QED BY <1>5, <3>1, <3>2, <3>3, OnlyRequest DEF LoadAccount
    <2>2. CASE ~Active(session[t].person)
        BY <1>5, <2>2, NoSessionOK, OnlyRequest DEF LoadAccount, EndRequest
    <2> QED BY <2>1, <2>2
<1>6. ASSUME NEW o \in Orders, ClaimRead(t, o) PROVE AccountInv'
    <2>1. CASE owner[o] \in {None, session[t].person[2]}
        <3> DEFINE s == [session[t] EXCEPT !.pc = "claiming", !.order = o,
                                           !.linked = owner[o]]
        <3>1. s \in Session /\ s.pc = "claiming" /\ s.order = o /\ s.person = session[t].person
            BY <1>0 DEF Session
        <3>2. session' = [session EXCEPT ![t] = s] BY <1>6, <2>1 DEF ClaimRead
        <3> HIDE DEF s
        <3>3. RequestOK(s, issued, account) BY <1>0, <1>6, <3>1 DEF RequestOK, ClaimRead
        <3> QED BY <1>6, <3>1, <3>2, <3>3, OnlyRequest DEF ClaimRead
    <2>2. CASE owner[o] \notin {None, session[t].person[2]}
        BY <1>6, <2>2, NoSessionOK, OnlyRequest DEF ClaimRead, EndRequest
    <2> QED BY <2>1, <2>2
<1>7. ASSUME NEW c \in People, ActivationRead(t, c) PROVE AccountInv'
    <2> DEFINE s == [session[t] EXCEPT !.pc = "activating", !.about = c, !.seen = account[c]]
    <2>1. account[c] \in AccountRow BY <1>0, <1>7 DEF ActivationRead
    <2>2. /\ s \in Session /\ s.pc = "activating" /\ s.about = c /\ s.seen = account[c]
          /\ s.person = session[t].person
        BY <1>0, <2>1 DEF Session
    <2>3. session' = [session EXCEPT ![t] = s] BY <1>7 DEF ActivationRead
    <2> HIDE DEF s
    <2>4. RequestOK(s, issued, account)
        BY <1>0, <1>7, <2>1, <2>2 DEF RequestOK, ActivationRead
    <2> QED BY <1>7, <2>2, <2>3, <2>4, OnlyRequest DEF ActivationRead
<1>8. ASSUME LoginInactive(t) \/ Refuse(t) \/ SessionCrash(t) PROVE AccountInv'
    BY <1>8, NoSessionOK, OnlyRequest DEF LoginInactive, Refuse, SessionCrash, EndRequest
<1> QED BY <1>1, <1>2, <1>3, <1>4, <1>5, <1>6, <1>7, <1>8

\* Steps that write accounts, orders or the blocklist, and no token.
LEMMA WriteSteps ==
    ASSUME AccountInv, NEW t \in Threads,
           LoginWrong(t) \/ Logout(t) \/ ClaimCommit(t) \/ ActivationCommit(t)
    PROVE  AccountInv'
<1>0. /\ session[t] \in Session /\ RequestOK(session[t], issued, account)
      /\ issued \in Seq(Token) /\ account \in [People -> AccountRow \cup {None}]
      /\ owner \in [Orders -> Ids \cup {None}]
      /\ guesses \in [People -> [wrong : Nat, last : Nat]]
      /\ now \in Nat /\ blocklist \subseteq Jtis /\ revoked \subseteq Jtis
    BY ClockAssumption DEF AccountInv, AccountTypeOK
<1>1. ASSUME LoginWrong(t) PROVE AccountInv'
    <2> DEFINE p == session[t].person
               failed == session[t].seen.failed + 1
               row == [account[p] EXCEPT !.failed = failed,
                          !.locked_until = IF failed >= MaxFailed THEN now + Lockout ELSE @]
               guess == [wrong |-> guesses[p].wrong + 1, last |-> now]
    <2>1. /\ p \in People /\ session[t].seen \in AccountRow /\ account[p] \in AccountRow
        BY <1>0, <1>1 DEF LoginWrong, RequestOK
    <2>2. row \in AccountRow
        <3>1. failed \in Nat /\ now + Lockout \in Nat
            BY <1>0, <2>1, AccountAssumption DEF AccountRow
        <3>2. account[p].locked_until \in Nat \cup {None} BY <2>1 DEF AccountRow
        <3> DEFINE until == IF failed >= MaxFailed THEN now + Lockout
                            ELSE account[p].locked_until
        <3>3. until \in Nat \cup {None} BY <3>1, <3>2
        <3> HIDE DEF until, failed, p
        <3>4. [account[p] EXCEPT !.failed = failed, !.locked_until = until] \in AccountRow
            BY <2>1, <3>1, <3>3 DEF AccountRow
        <3> QED BY <3>4 DEF until
    <2>3. account' = [account EXCEPT ![p] = row] BY <1>0, <1>1, <2>1 DEF LoginWrong
    <2>4. guess \in [wrong : Nat, last : Nat] BY <1>0, <2>1
    <2>5. guesses' = [guesses EXCEPT ![p] = guess] BY <1>1 DEF LoginWrong
    <2> HIDE DEF row, guess, p
    <2>6. /\ account' \in [People -> AccountRow \cup {None}]
          /\ \A x \in People : account[x] \in AccountRow => account'[x] \in AccountRow
        BY <1>0, <2>1, <2>2, <2>3
    <2>7. guesses' \in [People -> [wrong : Nat, last : Nat]] BY <1>0, <2>4, <2>5
    <2> QED BY <1>0, <1>1, <2>6, <2>7, Ended DEF LoginWrong
<1>2. ASSUME Logout(t) PROVE AccountInv'
    <2>1. session[t].token \in Jtis BY <1>0, <1>2 DEF Logout, RequestOK, Jtis
    <2> QED BY <1>0, <1>2, <2>1, Ended DEF Logout
<1>3. ASSUME ClaimCommit(t) PROVE AccountInv'
    <2>1. session[t].order \in Orders /\ session[t].person[2] \in Ids
        BY <1>0, <1>3 DEF ClaimCommit, RequestOK, People
    <2>2. owner' \in [Orders -> Ids \cup {None}] BY <1>0, <1>3, <2>1 DEF ClaimCommit
    <2> QED BY <1>0, <1>3, <2>2, Ended DEF ClaimCommit
<1>4. ASSUME ActivationCommit(t) PROVE AccountInv'
    <2> DEFINE c == session[t].about
               row == [account[c] EXCEPT !.active = ~session[t].seen.active]
    <2>1. c \in People /\ session[t].seen \in AccountRow /\ account[c] \in AccountRow
        BY <1>0, <1>4 DEF ActivationCommit, RequestOK
    <2>2. row \in AccountRow BY <2>1 DEF AccountRow
    <2>3. account' = [account EXCEPT ![c] = row] BY <1>4 DEF ActivationCommit
    <2> HIDE DEF row, c
    <2>4. /\ account' \in [People -> AccountRow \cup {None}]
          /\ \A x \in People : account[x] \in AccountRow => account'[x] \in AccountRow
        BY <1>0, <2>1, <2>2, <2>3
    <2> QED BY <1>0, <1>4, <2>4, Ended DEF ActivationCommit
<1> QED BY <1>1, <1>2, <1>3, <1>4

\* Steps that mint tokens.
LEMMA TokenSteps ==
    ASSUME AccountInv, NEW t \in Threads,
           RegisterCommit(t) \/ LoginDone(t) \/ Refresh(t)
    PROVE  AccountInv'
<1>0. /\ session[t] \in Session /\ RequestOK(session[t], issued, account)
      /\ issued \in Seq(Token) /\ account \in [People -> AccountRow \cup {None}]
      /\ owner \in [Orders -> Ids \cup {None}]
      /\ guesses \in [People -> [wrong : Nat, last : Nat]]
      /\ now \in Nat /\ blocklist \subseteq Jtis /\ revoked \subseteq Jtis
      /\ \A j \in Jtis : TokenOK(issued[j])
      /\ NoSession \in Session /\ RequestOK(NoSession, issued', account')
    BY NoSessionOK, ClockAssumption DEF AccountInv, AccountTypeOK
<1>1. ASSUME RegisterCommit(t) PROVE AccountInv'
    <2> DEFINE p == session[t].person
    <2>1. p \in People BY <1>0, <1>1 DEF RegisterCommit, RequestOK
    <2>2. CASE account[p] = None
        <3>1. NewAccount \in AccountRow BY DEF NewAccount, AccountRow
        <3>2. account' = [account EXCEPT ![p] = NewAccount] /\ issued' = issued \o Pair(p)
            BY <1>1, <2>2 DEF RegisterCommit
        <3> HIDE DEF p
        <3>3. /\ account' \in [People -> AccountRow \cup {None}]
              /\ \A x \in People : account[x] \in AccountRow => account'[x] \in AccountRow
            BY <1>0, <2>1, <3>1, <3>2
        <3>4. Pair(p) \in Seq(Token) /\ \A k \in 1..Len(Pair(p)) : TokenOK(Pair(p)[k])
            BY <2>1, PairOK
        <3> QED BY <1>0, <1>1, <3>2, <3>3, <3>4, RequestStep DEF RegisterCommit, EndRequest
    <2>3. CASE account[p] # None
        BY <1>0, <1>1, <2>3, Ended DEF RegisterCommit
    <2> QED BY <2>2, <2>3
<1>2. ASSUME LoginDone(t) PROVE AccountInv'
    <2> DEFINE p == session[t].person
               row == [account[p] EXCEPT
                         !.failed = IF session[t].seen.failed # 0 THEN 0 ELSE @,
                         !.locked_until =
                            IF session[t].seen.locked_until # None THEN None ELSE @]
    <2>1. p \in People /\ account[p] \in AccountRow
        BY <1>0, <1>2 DEF LoginDone, RequestOK
    <2>2. row \in AccountRow BY <2>1 DEF AccountRow
    <2>3. account' = [account EXCEPT ![p] = row] BY <1>0, <1>2, <2>1 DEF LoginDone
    <2>4. issued' = issued \o Pair(p) BY <1>2 DEF LoginDone
    <2>5. guesses' = [guesses EXCEPT ![p].wrong = 0] BY <1>2 DEF LoginDone
    <2> HIDE DEF row, p
    <2>6. /\ account' \in [People -> AccountRow \cup {None}]
          /\ \A x \in People : account[x] \in AccountRow => account'[x] \in AccountRow
        BY <1>0, <2>1, <2>2, <2>3
    <2>7. guesses' \in [People -> [wrong : Nat, last : Nat]] BY <1>0, <2>1, <2>5
    <2>8. Pair(p) \in Seq(Token) /\ \A k \in 1..Len(Pair(p)) : TokenOK(Pair(p)[k])
        BY <2>1, PairOK
    <2> QED BY <1>0, <1>2, <2>4, <2>6, <2>7, <2>8, RequestStep DEF LoginDone, EndRequest
<1>3. ASSUME Refresh(t) PROVE AccountInv'
    <2> DEFINE old == issued[session[t].token]
               new == Mint(session[t].person, "access", old.holder, old.began)
    <2>1. session[t].person \in People /\ session[t].token \in Jtis
        BY <1>0, <1>3 DEF Refresh, RequestOK, Jtis
    <2>2. old \in Token /\ TokenOK(old) BY <1>0, <2>1, ElementOfSeq DEF Jtis
    <2>3. old.person = session[t].person BY <1>0, <1>3 DEF Refresh, RequestOK
    <2> HIDE DEF old
    <2>4. new \in Token /\ TokenOK(new)
        BY <1>0, <2>1, <2>2, <2>3, AccountAssumption DEF Mint, Token, TokenOK
    <2>5. issued' = Append(issued, new) BY <1>3 DEF Refresh, old
    <2> HIDE DEF new
    <2>6. issued' = issued \o <<new>> BY <1>0, <2>4, <2>5, AppendIsConcat
    <2>7. <<new>> \in Seq(Token) /\ \A k \in 1..Len(<<new>>) : TokenOK(<<new>>[k])
        BY <2>4
    <2> QED BY <1>0, <1>3, <2>6, <2>7, RequestStep DEF Refresh, EndRequest
<1> QED BY <1>1, <1>2, <1>3

LEMMA OtherSteps ==
    ASSUME AccountInv,
           (\E p \in People : CreateAdmin(p)) \/ PruneTokens \/ (Tick /\ UNCHANGED accountVars)
    PROVE  AccountInv'
<1> USE DEF AccountInv, AccountTypeOK
<1>1. ASSUME NEW p \in People, CreateAdmin(p) PROVE AccountInv'
    <2>1. NewAccount \in AccountRow BY DEF NewAccount, AccountRow
    <2>2. /\ account' \in [People -> AccountRow \cup {None}]
          /\ \A x \in People : account[x] \in AccountRow => account'[x] \in AccountRow
        BY <1>1, <2>1 DEF CreateAdmin
    <2>3. \A x \in Threads : RequestOK(session[x], issued, account')
        BY <2>2 DEF RequestOK
    <2> QED BY <1>1, <2>2, <2>3 DEF CreateAdmin, Jtis
<1>2. ASSUME PruneTokens PROVE AccountInv'
    BY <1>2 DEF PruneTokens, Jtis
<1>3. ASSUME Tick, UNCHANGED accountVars PROVE AccountInv'
    BY <1>3, ClockAssumption DEF Tick, accountVars, Jtis
<1> QED BY <1>1, <1>2, <1>3

LEMMA InitAccountInv == ClockInit /\ AccountInit => AccountInv
<1> SUFFICES ASSUME ClockInit, AccountInit PROVE AccountInv OBVIOUS
<1>1. NewAccount \in AccountRow BY DEF NewAccount, AccountRow
<1>2. issued = <<>> /\ issued \in Seq(Token) /\ Jtis = {}
    BY EmptySeq DEF AccountInit, Jtis
<1>3. now \in 0..MaxTime BY ClockAssumption DEF ClockInit
<1>4. account \in [People -> AccountRow \cup {None}]
    BY <1>1 DEF AccountInit
<1>5. \A t \in Threads : session[t] \in Session /\ RequestOK(session[t], issued, account)
    BY NoSessionOK DEF AccountInit
<1>6. AccountTypeOK
    BY <1>2, <1>4, <1>5 DEF AccountInit, AccountTypeOK
<1> QED BY <1>2, <1>3, <1>5, <1>6 DEF AccountInv

LEMMA NextAccountInv ==
    ASSUME AccountInv, [NextAccount]_<<clockVars, accountVars>>
    PROVE  AccountInv'
<1>1. ASSUME AccountNext PROVE AccountInv'
    BY <1>1, ReadSteps, WriteSteps, TokenSteps, OtherSteps DEF AccountNext
<1>2. ASSUME UNCHANGED <<clockVars, accountVars>> PROVE AccountInv'
    BY <1>2 DEF clockVars, accountVars, AccountInv, AccountTypeOK, Jtis
<1> QED BY <1>1, <1>2, OtherSteps DEF NextAccount

LEMMA AccountInvariant == AccountSpec => []AccountInv
<1>1. ClockInit /\ AccountInit => AccountInv BY InitAccountInv
<1>2. AccountInv /\ [NextAccount]_<<clockVars, accountVars>> => AccountInv'
    BY NextAccountInv
<1> QED BY <1>1, <1>2, PTL DEF AccountSpec, NextAccount

\* The rows, tokens and requests keep their types: every token a request carries
\* exists, every row it has read is one (account.py, admin_auth.py, authz.py).
THEOREM AccountTypeCorrect == AccountSpec => []AccountTypeOK
<1>1. AccountInv => AccountTypeOK BY DEF AccountInv
<1> QED BY <1>1, AccountInvariant, PTL

\* Whoever a token names earned its session with that person's password, through
\* every refresh, whichever actor's routes the tokens were shown to.
THEOREM SessionsEarned == AccountSpec => []SessionsAreEarned
<1>1. AccountInv => SessionsAreEarned
    BY DEF AccountInv, TokenOK, SessionsAreEarned
<1> QED BY <1>1, AccountInvariant, PTL

\* Nothing that renews a session outlives a refresh token's life after the password.
THEOREM SessionsExpire == AccountSpec => []SessionsEnd
<1>1. AccountInv => SessionsEnd
    BY DEF AccountInv, TokenOK, SessionsEnd
<1> QED BY <1>1, AccountInvariant, PTL
=============================================================================
