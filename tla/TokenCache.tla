----------------------------- MODULE TokenCache -----------------------------
(***************************************************************************)
(* services/mpesa.py, access_token: Safaricom's bearer token, kept per     *)
(* process.  A push reads the clock, looks the token up under the lock,    *)
(* and fetches a missing or lapsing one outside the lock; the fetched      *)
(* token is kept until a safety margin before it lapses, counted from the  *)
(* reading, but for at least a floor of 30 seconds.                        *)
(***************************************************************************)
EXTENDS Clock

CONSTANTS
    Lifetimes,  \* how long the tokens Safaricom issues may live
    Margin,     \* _TOKEN_MARGIN_SECONDS
    Floor       \* the shortest time a token is kept

ASSUME TokenAssumption ==
    Lifetimes \subseteq Nat /\ Margin \in Nat /\ Floor \in Nat

VARIABLES
    kept,      \* _token_cache: a token and until when it is used, or None
    pushing    \* the push each thread is preparing

tokenVars == <<kept, pushing>>

\* A token Safaricom issued: its lifetime, and when it lapses.
Bearer == [lifetime : Lifetimes, lapses : Nat]
Kept == [token : Bearer, until : Nat]

Pushing == [pc : {"idle", "lookup", "fetch", "keep", "holding"}, stamp : 0..MaxTime,
            token : Bearer \cup {None}, reused : BOOLEAN]

NotPushing == [pc |-> "idle", stamp |-> 0, token |-> None, reused |-> FALSE]

TokenInit ==
    /\ kept = None
    /\ pushing = [t \in Threads |-> NotPushing]

\* stk_push asks for a token: the clock is read.
TokenStart(t) ==
    /\ "push" \in load /\ pushing[t].pc = "idle"
    /\ pushing' = [pushing EXCEPT ![t] = [NotPushing EXCEPT !.pc = "lookup",
                                                             !.stamp = now]]
    /\ UNCHANGED <<now, load, kept>>

Usable(t) == kept # None /\ kept.until > pushing[t].stamp

TokenReuse(t) ==
    /\ pushing[t].pc = "lookup" /\ Usable(t)
    /\ pushing' = [pushing EXCEPT ![t].pc = "holding", ![t].token = kept.token,
                                  ![t].reused = TRUE]
    /\ UNCHANGED <<now, load, kept>>

TokenMiss(t) ==
    /\ pushing[t].pc = "lookup" /\ ~Usable(t)
    /\ pushing' = [pushing EXCEPT ![t].pc = "fetch"]
    /\ UNCHANGED <<now, load, kept>>

\* Safaricom issues a token and says how long it lives (expires_in).
TokenIssued(t, lifetime) ==
    /\ pushing[t].pc = "fetch"
    /\ pushing' = [pushing EXCEPT ![t].pc = "keep",
                     ![t].token = [lifetime |-> lifetime, lapses |-> now + lifetime]]
    /\ UNCHANGED <<now, load, kept>>

\* MpesaError: refused, unreachable, or no token in the answer.
TokenFailed(t) ==
    /\ pushing[t].pc = "fetch"
    /\ pushing' = [pushing EXCEPT ![t] = NotPushing]
    /\ UNCHANGED <<now, load, kept>>

\* Mutant: a token is kept for its whole lifetime.
KeepForWhole(lifetime) == lifetime

\* Mutant: the margin is taken off, and nothing bounds what is left.
KeepForBare(lifetime) == lifetime - Margin

\* max(lifetime - _TOKEN_MARGIN_SECONDS, 30)
KeepFor(lifetime) ==
    IF lifetime - Margin >= Floor THEN lifetime - Margin ELSE Floor

\* The later of two threads that fetched at once overwrites the other's token.
TokenKeep(t) ==
    /\ pushing[t].pc = "keep"
    /\ kept' = [token |-> pushing[t].token,
                until |-> pushing[t].stamp + KeepFor(pushing[t].token.lifetime)]
    /\ pushing' = [pushing EXCEPT ![t].pc = "holding"]
    /\ UNCHANGED <<now, load>>

\* The push is sent with the token.
TokenUsed(t) ==
    /\ pushing[t].pc = "holding"
    /\ pushing' = [pushing EXCEPT ![t] = NotPushing]
    /\ UNCHANGED <<now, load, kept>>

TokenNext ==
    \E t \in Threads :
        \/ TokenStart(t) \/ TokenReuse(t) \/ TokenMiss(t)
        \/ \E lifetime \in Lifetimes : TokenIssued(t, lifetime)
        \/ TokenFailed(t) \/ TokenKeep(t) \/ TokenUsed(t)

TokenSpec ==
    /\ ClockInit /\ TokenInit
    /\ [][TokenNext \/ (Tick /\ UNCHANGED tokenVars)]_<<clockVars, tokenVars>>

-----------------------------------------------------------------------------

TokenTypeOK ==
    /\ kept \in Kept \cup {None}
    /\ pushing \in [Threads -> Pushing]

\* A reused token has more than the safety margin left when the push read the
\* clock, however slow its fetch was and whichever thread stored last; if its
\* lifetime is too short for margin and floor together it has at least not
\* lapsed, unless it lives shorter than the floor, for which the code keeps it.
ReusedTokenHasMargin ==
    \A t \in Threads :
        pushing[t].pc = "holding" /\ pushing[t].reused =>
            LET token == pushing[t].token
                left == token.lapses - pushing[t].stamp
            IN  /\ token.lifetime >= Margin + Floor => left > Margin
                /\ token.lifetime >= Floor => left > 0
=============================================================================
