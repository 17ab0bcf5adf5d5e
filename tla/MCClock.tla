------------------------------ MODULE MCClock ------------------------------
(***************************************************************************)
(* The parts that depend on the clock, side by side: the rate limiter, the *)
(* two caches of a process, and accounts with their sessions.  They share  *)
(* the clock, the threads and the job prune-security-tables; a behaviour   *)
(* has one load, and the loads of MCClock exercise one part each.          *)
(***************************************************************************)
EXTENDS RateLimiter, FacetCache, TokenCache, Accounts, TLC

\* An admin and a customer with the same id, and a second customer.
MCOpened == {<<"admin", 1>>, <<"customer", 1>>}

MCLoads == {
    {"limited", "prune"},
    {"listing"},
    {"push"},
    {"login", "guess"},
    {"login", "refresh", "logout", "prune"},
    {"login", "activation", "refresh"},
    {"register", "admin", "login", "claim"}}

\* Threads are interchangeable, and so are the scopes of listings.
MCSymmetry == Permutations(Threads) \cup Permutations(Scopes)

allVars == <<clockVars, limiterVars, facetVars, tokenVars, accountVars>>

ClockworkInit == ClockInit /\ LimiterInit /\ FacetInit /\ TokenInit /\ AccountInit

\* Every request has been served.
Quiet ==
    /\ \A t \in Threads :
          /\ call[t].pc = "idle" /\ listing[t].pc \in {"idle", "answered"}
          /\ pushing[t].pc = "idle" /\ session[t].pc = "idle"
    /\ UNCHANGED allVars

ClockworkNext ==
    \/ Tick /\ UNCHANGED <<limiterVars, facetVars, tokenVars, accountVars>>
    \/ LimiterNext /\ UNCHANGED <<facetVars, tokenVars, accountVars>>
    \/ FacetNext /\ UNCHANGED <<limiterVars, tokenVars, accountVars>>
    \/ TokenNext /\ UNCHANGED <<limiterVars, facetVars, accountVars>>
    \/ AccountNext /\ UNCHANGED <<limiterVars, facetVars, tokenVars>>
    \/ Quiet

Clockwork == ClockworkInit /\ [][ClockworkNext]_allVars

\* The tables, the caches and the requests of every part keep their shape.
TypeOK == LimiterTypeOK /\ FacetTypeOK /\ TokenTypeOK /\ AccountTypeOK
=============================================================================
