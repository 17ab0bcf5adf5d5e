----------------------------- MODULE ClockProofs -----------------------------
(***************************************************************************)
(* Theorems about the parts that depend on the clock: the rate limiter and *)
(* the two caches of a process, for every number of threads, buckets and   *)
(* scopes, and every length of a window, a time to live or a lifetime; and *)
(* about all of them side by side, accounts included, as MCClock composes  *)
(* them.                                                                   *)
(***************************************************************************)
EXTENDS MCClock, SessionsProofs, FiniteSetTheorems

(***************************************************************************)
(* Safaricom's token (services/mpesa.py, access_token).                    *)
(***************************************************************************)

\* A token with the time until which it may be used: it lapses a margin later,
\* or, if it is short-lived, not before.
WellKept(token, until) ==
    /\ token.lifetime >= Margin + Floor => token.lapses >= until + Margin
    /\ token.lifetime >= Floor => token.lapses >= until

KeptInv == kept # None => WellKept(kept.token, kept.until)

\* What each stage of access_token relies on.
PushInv ==
    \A t \in Threads :
        LET push == pushing[t] IN
        /\ push.stamp <= now
        /\ push.pc \in {"lookup", "fetch", "keep"} => ~push.reused
        /\ push.pc = "keep" =>
              /\ push.token \in Bearer
              /\ push.token.lapses >= push.stamp + push.token.lifetime
        /\ push.pc = "holding" /\ push.reused => push.token \in Bearer

TokenInv ==
    /\ now \in 0..MaxTime /\ TokenTypeOK
    /\ KeptInv /\ PushInv /\ ReusedTokenHasMargin

-----------------------------------------------------------------------------

\* max(lifetime - margin, floor) is a time, at most the lifetime less the margin
\* for a long-lived token, and at most the lifetime for one as long as the floor.
LEMMA KeepForBounds ==
    ASSUME NEW lifetime \in Lifetimes
    PROVE  /\ KeepFor(lifetime) \in Nat
           /\ lifetime >= Margin + Floor => KeepFor(lifetime) <= lifetime - Margin
           /\ lifetime >= Floor => KeepFor(lifetime) <= lifetime
BY TokenAssumption DEF KeepFor

\* A token kept from the reading of the clock before its issue is well kept.
LEMMA FreshlyKept ==
    ASSUME NEW token \in Bearer, NEW stamp \in Nat,
           token.lapses >= stamp + token.lifetime
    PROVE  /\ stamp + KeepFor(token.lifetime) \in Nat
           /\ WellKept(token, stamp + KeepFor(token.lifetime))
<1>1. token.lifetime \in Lifetimes /\ token.lifetime \in Nat /\ token.lapses \in Nat
    BY TokenAssumption DEF Bearer
<1> QED BY <1>1, KeepForBounds, TokenAssumption DEF WellKept

LEMMA InitTokenInv == ClockInit /\ TokenInit => TokenInv
BY ClockAssumption DEF ClockInit, TokenInit, TokenInv, TokenTypeOK, KeptInv, PushInv,
   ReusedTokenHasMargin, Pushing, NotPushing

\* Every step keeps the invariant.
LEMMA NextTokenInv ==
    TokenInv /\ [TokenNext \/ (Tick /\ UNCHANGED tokenVars)]_<<clockVars, tokenVars>>
    => TokenInv'
<1> SUFFICES ASSUME TokenInv,
                    [TokenNext \/ (Tick /\ UNCHANGED tokenVars)]_<<clockVars, tokenVars>>
             PROVE  TokenInv'
    OBVIOUS
<1> USE ClockAssumption, TokenAssumption DEF TokenInv, TokenTypeOK
<1>1. ASSUME NEW t \in Threads, TokenStart(t) PROVE TokenInv'
    <2> USE <1>1 DEF TokenStart
    <2>1. pushing' \in [Threads -> Pushing] BY DEF Pushing, NotPushing
    <2>2. PushInv' BY DEF PushInv, Pushing, NotPushing
    <2>3. ReusedTokenHasMargin' BY DEF ReusedTokenHasMargin, Pushing, NotPushing
    <2> QED BY <2>1, <2>2, <2>3 DEF KeptInv
<1>2. ASSUME NEW t \in Threads, TokenReuse(t) PROVE TokenInv'
    <2> USE <1>2 DEF TokenReuse
    <2>1. kept \in Kept /\ kept.token \in Bearer /\ kept.until \in Nat
        BY DEF Usable, Kept
    <2>2. pushing' \in [Threads -> Pushing]
        <3> DEFINE push == [pushing[t] EXCEPT !.pc = "holding", !.token = kept.token,
                                               !.reused = TRUE]
        <3>1. push \in Pushing BY <2>1 DEF Pushing
        <3>2. pushing' = [pushing EXCEPT ![t] = push] OBVIOUS
        <3> HIDE DEF push
        <3> QED BY <3>1, <3>2
    <2>3. kept.token.lifetime \in Nat /\ kept.token.lapses \in Nat
        BY <2>1 DEF Bearer
    <2>4. PushInv' BY <2>1 DEF PushInv, Pushing
    <2>5. ReusedTokenHasMargin'
        BY <2>1, <2>3 DEF ReusedTokenHasMargin, Usable, KeptInv, WellKept, Pushing
    <2> QED BY <2>2, <2>4, <2>5 DEF KeptInv
<1>3. ASSUME NEW t \in Threads, TokenMiss(t) PROVE TokenInv'
    BY <1>3 DEF TokenMiss, KeptInv, PushInv, ReusedTokenHasMargin, Pushing
<1>4. ASSUME NEW t \in Threads, NEW lifetime \in Lifetimes, TokenIssued(t, lifetime)
      PROVE  TokenInv'
    <2> USE <1>4 DEF TokenIssued
    <2> DEFINE token == [lifetime |-> lifetime, lapses |-> now + lifetime]
    <2>1. token \in Bearer BY DEF Bearer
    <2>2. pushing' \in [Threads -> Pushing] BY ZenonT(40), <2>1 DEF Pushing
    <2>3. PushInv' BY <2>1 DEF PushInv, Pushing
    <2>4. ReusedTokenHasMargin' BY DEF ReusedTokenHasMargin, Pushing
    <2> QED BY <2>2, <2>3, <2>4 DEF KeptInv
<1>5. ASSUME NEW t \in Threads, TokenFailed(t) PROVE TokenInv'
    BY <1>5 DEF TokenFailed, KeptInv, PushInv, ReusedTokenHasMargin, Pushing, NotPushing
<1>6. ASSUME NEW t \in Threads, TokenKeep(t) PROVE TokenInv'
    <2> USE <1>6 DEF TokenKeep
    <2>1. /\ pushing[t].token \in Bearer /\ pushing[t].stamp \in Nat
          /\ pushing[t].token.lapses >= pushing[t].stamp + pushing[t].token.lifetime
        BY DEF PushInv, Pushing
    <2>2. kept' \in Kept /\ KeptInv'
        BY <2>1, FreshlyKept DEF Kept, KeptInv
    <2>3. pushing' \in [Threads -> Pushing] BY DEF Pushing
    <2>4. PushInv' BY DEF PushInv, Pushing
    <2>5. ReusedTokenHasMargin' BY DEF ReusedTokenHasMargin, PushInv, Pushing
    <2> QED BY <2>2, <2>3, <2>4, <2>5
<1>7. ASSUME NEW t \in Threads, TokenUsed(t) PROVE TokenInv'
    BY <1>7 DEF TokenUsed, KeptInv, PushInv, ReusedTokenHasMargin, Pushing, NotPushing
<1>8. ASSUME Tick, UNCHANGED tokenVars PROVE TokenInv'
    BY <1>8 DEF Tick, tokenVars, KeptInv, PushInv, ReusedTokenHasMargin, Pushing
<1>9. CASE UNCHANGED <<clockVars, tokenVars>>
    BY <1>9 DEF clockVars, tokenVars, KeptInv, PushInv, ReusedTokenHasMargin, Usable
<1> QED BY <1>1, <1>2, <1>3, <1>4, <1>5, <1>6, <1>7, <1>8, <1>9 DEF TokenNext

\* The cache and the pushes keep their shape (_token_cache, access_token).
THEOREM TokenTypeCorrect == TokenSpec => []TokenTypeOK
<1>1. TokenInv => TokenTypeOK BY DEF TokenInv
<1> QED BY <1>1, InitTokenInv, NextTokenInv, PTL DEF TokenSpec

\* Whatever was fetched when and stored by whom, a token taken from the cache has the
\* safety margin left (access_token).
THEOREM ReuseIsSafe == TokenSpec => []ReusedTokenHasMargin
<1>1. TokenInv => ReusedTokenHasMargin BY DEF TokenInv
<1> QED BY <1>1, InitTokenInv, NextTokenInv, PTL DEF TokenSpec

(***************************************************************************)
(* The facets of a listing (blueprints/catalog.py, _facets).               *)
(***************************************************************************)

\* Facets computed from a reading of the clock on have seen every earlier change.
SawBefore(seen, stamp) == \A v \in 1..Version : changed[v] < stamp => seen >= v

\* A computed part is as new as the time that dates it, in the cache and on the way
\* there.
DatedInv ==
    /\ \A s \in Scopes : Cached(s) =>
          /\ facets[s].stamp <= now
          /\ SawBefore(facets[s].computed.options, facets[s].stamp)
          /\ SawBefore(facets[s].computed.prices, facets[s].stamp)
    /\ \A t \in Threads :
          LET l == listing[t] IN
          /\ l.stamp <= now
          /\ l.pc \notin {"idle", "answered"} => l.scope \in Scopes
          /\ l.pc \in {"prices", "store"} => SawBefore(l.computed.options, l.stamp)
          /\ l.pc = "store" => SawBefore(l.computed.prices, l.stamp)

FacetInv ==
    /\ now \in 0..MaxTime /\ FacetTypeOK
    /\ DatedInv /\ ChangeWithinTheMinute /\ CacheBounded

-----------------------------------------------------------------------------

\* Trimming leaves entries as they were, and no more of them than the maximum.
LEMMA TrimmedIsBounded ==
    ASSUME NEW full \in [Scopes -> Entry \cup {None}], NEW after \in Trimmed(full)
    PROVE  /\ after \in [Scopes -> Entry \cup {None}]
           /\ \A s \in Scopes : after[s] # None => after[s] = full[s]
           /\ Cardinality({s \in Scopes : after[s] # None}) <= MaxEntries
<1>1. \A s \in Scopes : after[s] # None => after[s] = full[s]
    BY DEF Trimmed
<1>2. after \in [Scopes -> Entry \cup {None}]
    <2>1. after \in [Scopes -> {None} \cup {full[s] : s \in Scopes}] BY DEF Trimmed
    <2> QED BY <2>1
<1>3. Cardinality({s \in Scopes : after[s] # None}) <= MaxEntries
    <2> DEFINE present == Cardinality({s \in Scopes : full[s] # None})
    <2>1. Cardinality({s \in Scopes : after[s] # None}) =
              IF present <= MaxEntries THEN present ELSE MaxEntries
        BY DEF Trimmed
    <2> HIDE DEF present
    <2> QED BY <2>1, FacetAssumption
<1> QED BY <1>1, <1>2, <1>3

LEMMA InitFacetInv == ClockInit /\ FacetInit => FacetInv
<1> SUFFICES ASSUME ClockInit, FacetInit PROVE FacetInv
    OBVIOUS
<1> USE ClockAssumption, FacetAssumption DEF ClockInit, FacetInit
<1>1. Version = 0 BY FS_EmptySet DEF Version
<1>2. FacetTypeOK
    BY <1>1 DEF FacetTypeOK, Versions, Listing, NoListing, NoneComputed, Computed, Entry
<1>3. DatedInv /\ ChangeWithinTheMinute
    <2>1. \A s \in Scopes : ~Cached(s) BY DEF Cached
    <2>2. \A t \in Threads : listing[t].pc = "idle" /\ listing[t].stamp = 0
        BY DEF NoListing
    <2> QED BY <2>1, <2>2 DEF DatedInv, ChangeWithinTheMinute
<1>4. CacheBounded
    <2>1. {s \in Scopes : Cached(s)} = {} BY DEF Cached
    <2>2. Cardinality({s \in Scopes : Cached(s)}) = 0 BY <2>1, FS_EmptySet
    <2> HIDE DEF ClockInit, FacetInit
    <2> QED BY <2>2 DEF CacheBounded
<1> QED BY <1>2, <1>3, <1>4 DEF FacetInv

\* A step that changes one thread's listing, and leaves the cache and the catalog.
LEMMA ListingStep ==
    ASSUME FacetInv, NEW t \in Threads, NEW l \in Listing,
           listing' = [listing EXCEPT ![t] = l],
           UNCHANGED <<now, load, changed, facets>>,
           l.stamp <= now,
           l.pc \notin {"idle", "answered"} => l.scope \in Scopes,
           l.pc \in {"prices", "store"} => SawBefore(l.computed.options, l.stamp),
           l.pc = "store" => SawBefore(l.computed.prices, l.stamp),
           l.pc = "answered" =>
               \A v \in 1..Version : changed[v] + Ttl <= l.stamp =>
                   l.computed.options >= v /\ l.computed.prices >= v
    PROVE  FacetInv'
<1>1. Version' = Version /\ \A seen, stamp : SawBefore(seen, stamp)' <=> SawBefore(seen, stamp)
    BY DEF Version, SawBefore
<1>2. FacetTypeOK' BY <1>1 DEF FacetInv, FacetTypeOK
<1>3. DatedInv'
    BY DEF FacetInv, DatedInv, Cached, SawBefore, Version, FacetTypeOK
<1>4. ChangeWithinTheMinute'
    BY <1>1 DEF FacetInv, ChangeWithinTheMinute, FacetTypeOK
<1>5. CacheBounded' BY DEF FacetInv, CacheBounded, Cached
<1> QED BY <1>2, <1>3, <1>4, <1>5 DEF FacetInv
\* Every step keeps the invariant.
LEMMA NextFacetInv ==
    FacetInv /\ [FacetNext \/ (Tick /\ UNCHANGED facetVars)]_<<clockVars, facetVars>>
    => FacetInv'
<1> SUFFICES ASSUME FacetInv,
                    [FacetNext \/ (Tick /\ UNCHANGED facetVars)]_<<clockVars, facetVars>>
             PROVE  FacetInv'
    OBVIOUS
<1> USE ClockAssumption, FacetAssumption
<1>0. /\ now \in 0..MaxTime /\ Version \in Versions /\ Version \in Nat
      /\ DOMAIN changed = 1..Version
      /\ \A v \in 1..Version : changed[v] \in 0..now
      /\ listing \in [Threads -> Listing] /\ facets \in [Scopes -> Entry \cup {None}]
    BY DEF FacetInv, FacetTypeOK, Versions
<1>a. ASSUME NEW s \in Scopes, Cached(s)
      PROVE  facets[s] \in Entry /\ facets[s].computed \in Computed
    BY <1>a, <1>0 DEF Cached, Entry
<1>1. ASSUME CatalogChange PROVE FacetInv'
    <2> USE <1>1 DEF CatalogChange
    <2>1. Version' = Version + 1
        <3>1. DOMAIN changed' = 1..(Version + 1) OBVIOUS
        <3> QED BY <3>1, <1>0, FS_Interval DEF Version
    <2>2. /\ \A v \in 1..Version : changed'[v] = changed[v]
          /\ changed'[Version + 1] = now
        BY <1>0
    <2>3. FacetTypeOK'
        BY <2>1, <2>2, <1>0 DEF FacetTypeOK, Versions
    <2>4. \A seen, stamp : stamp \in 0..now /\ SawBefore(seen, stamp)
                             => SawBefore(seen, stamp)'
        BY <2>1, <2>2, <1>0 DEF SawBefore
    <2>5. DatedInv'
        BY <2>4, <1>0, <1>a DEF FacetInv, DatedInv, Cached, Entry, Listing
    <2>6. ChangeWithinTheMinute'
        <3> SUFFICES ASSUME NEW t \in Threads, NEW v \in 1..Version',
                            listing[t].pc = "answered",
                            changed'[v] + Ttl <= listing[t].stamp
                     PROVE  /\ listing[t].computed.options >= v
                            /\ listing[t].computed.prices >= v
            BY DEF ChangeWithinTheMinute
        <3>1. listing[t].stamp <= now BY DEF FacetInv, DatedInv
        <3>2. listing[t].stamp \in Nat BY <1>0 DEF Listing
        <3>3. v # Version + 1 BY <3>1, <3>2, <2>2, <1>0
        <3>4. v \in 1..Version BY <3>3, <2>1, <1>0
        <3> QED BY <3>4, <2>2 DEF FacetInv, ChangeWithinTheMinute
    <2>7. CacheBounded' BY DEF FacetInv, CacheBounded, Cached
    <2> QED BY <2>3, <2>5, <2>6, <2>7, <1>0 DEF FacetInv
<1>2. ASSUME NEW t \in Threads, NEW s \in Scopes, FacetsStart(t, s) PROVE FacetInv'
    <2> DEFINE l == [NoListing EXCEPT !.pc = "lookup", !.scope = s, !.stamp = now]
    <2>1. NoListing \in Listing
        BY DEF NoListing, Listing, Computed, NoneComputed, Versions
    <2>2. l \in Listing /\ l.pc = "lookup" /\ l.stamp = now /\ l.scope = s
        BY <1>0, <2>1 DEF Listing
    <2>3. listing' = [listing EXCEPT ![t] = l] BY <1>2 DEF FacetsStart
    <2> HIDE DEF l
    <2>4. l.stamp <= now BY <2>2, <1>0
    <2> QED BY <1>2, <2>2, <2>3, <2>4, ListingStep DEF FacetsStart
<1>3. ASSUME NEW t \in Threads, FacetsHit(t) PROVE FacetInv'
    <2> USE <1>3 DEF FacetsHit
    <2> DEFINE s == listing[t].scope
               l == [listing[t] EXCEPT !.pc = "answered", !.computed = facets[s].computed]
    <2>1. s \in Scopes /\ Cached(s) /\ listing[t].stamp - facets[s].stamp < Ttl
        BY DEF Fresh, FacetInv, DatedInv
    <2>2. /\ l \in Listing /\ l.pc = "answered" /\ l.stamp = listing[t].stamp
          /\ l.computed = facets[s].computed
        BY <2>1, <1>0, <1>a DEF Listing
    <2>3. listing' = [listing EXCEPT ![t] = l] OBVIOUS
    <2>4. listing[t].stamp <= now BY DEF FacetInv, DatedInv
    <2>5. ASSUME NEW v \in 1..Version, changed[v] + Ttl <= l.stamp
          PROVE  l.computed.options >= v /\ l.computed.prices >= v
        <3>1. facets[s].stamp \in Nat /\ listing[t].stamp \in Nat /\ changed[v] \in Nat
            BY <2>1, <1>0, <1>a DEF Entry, Listing
        <3>2. changed[v] < facets[s].stamp BY <3>1, <2>1, <2>2, <2>5
        <3> QED BY <3>2, <2>1, <2>2 DEF FacetInv, DatedInv, SawBefore
    <2> HIDE DEF l, s
    <2> QED BY <2>2, <2>3, <2>4, <2>5, ListingStep
<1>4. ASSUME NEW t \in Threads, FacetsMiss(t) PROVE FacetInv'
    <2> DEFINE l == [listing[t] EXCEPT !.pc = "options"]
    <2>1. /\ l \in Listing /\ l.pc = "options" /\ l.stamp = listing[t].stamp
          /\ l.scope = listing[t].scope
        BY <1>0 DEF Listing
    <2>2. listing' = [listing EXCEPT ![t] = l] /\ listing[t].pc = "lookup"
        BY <1>4 DEF FacetsMiss
    <2>3. l.stamp <= now /\ l.scope \in Scopes
        BY <2>1, <2>2 DEF FacetInv, DatedInv
    <2> HIDE DEF l
    <2> QED BY <1>4, <2>1, <2>2, <2>3, ListingStep DEF FacetsMiss
<1>b. ASSUME NEW stamp \in 0..MaxTime PROVE SawBefore(Version, stamp)
    BY <1>0 DEF SawBefore
<1>5. ASSUME NEW t \in Threads, ComputeOptions(t) PROVE FacetInv'
    <2> DEFINE l == [listing[t] EXCEPT !.pc = "prices", !.computed.options = Version]
    <2>1. /\ l \in Listing /\ l.pc = "prices" /\ l.stamp = listing[t].stamp
          /\ l.scope = listing[t].scope /\ l.computed.options = Version
          /\ l.stamp \in 0..MaxTime
        BY ZenonT(40), <1>0 DEF Listing, Computed
    <2>2. listing' = [listing EXCEPT ![t] = l] /\ listing[t].pc = "options"
        BY <1>5 DEF ComputeOptions
    <2>3. l.stamp <= now /\ l.scope \in Scopes
        BY <2>1, <2>2 DEF FacetInv, DatedInv
    <2> HIDE DEF l
    <2> QED BY <1>5, <1>b, <2>1, <2>2, <2>3, ListingStep DEF ComputeOptions
<1>6. ASSUME NEW t \in Threads, ComputePrices(t) PROVE FacetInv'
    <2> DEFINE l == [listing[t] EXCEPT !.pc = "store", !.computed.prices = Version]
    <2>1. /\ l \in Listing /\ l.pc = "store" /\ l.stamp = listing[t].stamp
          /\ l.scope = listing[t].scope /\ l.computed.prices = Version
          /\ l.computed.options = listing[t].computed.options
          /\ l.stamp \in 0..MaxTime
        BY ZenonT(40), <1>0 DEF Listing, Computed
    <2>2. listing' = [listing EXCEPT ![t] = l] /\ listing[t].pc = "prices"
        BY <1>6 DEF ComputePrices
    <2>3. /\ l.stamp <= now /\ l.scope \in Scopes
          /\ SawBefore(l.computed.options, l.stamp)
        BY <2>1, <2>2 DEF FacetInv, DatedInv
    <2> HIDE DEF l
    <2> QED BY <1>6, <1>b, <2>1, <2>2, <2>3, ListingStep DEF ComputePrices
<1>7. ASSUME NEW t \in Threads, FacetsStore(t) PROVE FacetInv'
    <2> USE <1>7 DEF FacetsStore
    <2> DEFINE s == listing[t].scope
               e == [stamp |-> listing[t].stamp, computed |-> listing[t].computed]
               full == [facets EXCEPT ![s] = e]
    <2>1. listing[t].pc = "store" /\ s \in Scopes /\ e \in Entry
        BY <1>0 DEF FacetInv, DatedInv, Entry, Listing
    <2>2. full \in [Scopes -> Entry \cup {None}] BY <2>1, <1>0
    <2>3. /\ facets' \in [Scopes -> Entry \cup {None}]
          /\ \A r \in Scopes : facets'[r] # None => facets'[r] = full[r]
          /\ Cardinality({r \in Scopes : facets'[r] # None}) <= MaxEntries
        <3>1. PICK after \in Trimmed(full) : facets' = after OBVIOUS
        <3> HIDE <1>7 DEF full, FacetsStore
        <3> QED BY <3>1, <2>2, TrimmedIsBounded
    <2>4. CacheBounded' BY <2>3 DEF CacheBounded, Cached
    <2>5. listing' \in [Threads -> Listing] BY <1>0 DEF Listing
    <2>6. Version' = Version /\ \A n, m : SawBefore(n, m)' <=> SawBefore(n, m)
        BY DEF Version, SawBefore
    <2>7. FacetTypeOK' BY <2>3, <2>5, <2>6, <1>0 DEF FacetTypeOK
    <2>8. /\ listing[t].stamp <= now
          /\ SawBefore(listing[t].computed.options, listing[t].stamp)
          /\ SawBefore(listing[t].computed.prices, listing[t].stamp)
        BY <2>1 DEF FacetInv, DatedInv
    <2>9. DatedInv'
        <3>1. ASSUME NEW r \in Scopes, facets'[r] # None
              PROVE  /\ facets'[r].stamp <= now
                     /\ SawBefore(facets'[r].computed.options, facets'[r].stamp)
                     /\ SawBefore(facets'[r].computed.prices, facets'[r].stamp)
            <4>1. facets'[r] = full[r] BY <3>1, <2>3
            <4>2. CASE r = s BY <4>1, <4>2, <2>1, <2>8, <1>0
            <4>3. CASE r # s
                BY <4>1, <4>3, <3>1, <1>0 DEF FacetInv, DatedInv, Cached
            <4> QED BY <4>2, <4>3
        <3>2. ASSUME NEW x \in Threads
              PROVE  LET l == listing'[x] IN
                     /\ l.stamp <= now
                     /\ l.pc \notin {"idle", "answered"} => l.scope \in Scopes
                     /\ l.pc \in {"prices", "store"} => SawBefore(l.computed.options, l.stamp)
                     /\ l.pc = "store" => SawBefore(l.computed.prices, l.stamp)
            BY <1>0 DEF FacetInv, DatedInv, Listing
        <3> QED BY <3>1, <3>2, <2>6 DEF DatedInv, Cached
    <2>10. ChangeWithinTheMinute'
        <3> SUFFICES ASSUME NEW x \in Threads, NEW v \in 1..Version,
                            listing'[x].pc = "answered",
                            changed[v] + Ttl <= listing'[x].stamp
                     PROVE  /\ listing'[x].computed.options >= v
                            /\ listing'[x].computed.prices >= v
            BY <2>6 DEF ChangeWithinTheMinute
        <3>1. CASE x # t
            BY <3>1, <1>0 DEF FacetInv, ChangeWithinTheMinute
        <3>2. CASE x = t
            <4>1. /\ listing'[x].computed = listing[t].computed
                  /\ listing'[x].stamp = listing[t].stamp
                BY <3>2, <1>0 DEF Listing
            <4>2. changed[v] < listing[t].stamp
                BY <4>1, <1>0 DEF Listing
            <4> QED BY <4>1, <4>2, <2>8 DEF SawBefore
        <3> QED BY <3>1, <3>2
    <2> QED BY <2>4, <2>7, <2>9, <2>10, <1>0 DEF FacetInv
<1>8. ASSUME NEW t \in Threads, FacetsError(t) PROVE FacetInv'
    <2>1. NoListing \in Listing /\ NoListing.pc = "idle" /\ NoListing.stamp <= now
        BY <1>0 DEF NoListing, Listing, Computed, NoneComputed, Versions
    <2> QED BY <1>8, <2>1, ListingStep DEF FacetsError
<1>9. ASSUME Tick, UNCHANGED facetVars PROVE FacetInv'
    <2>1. now' \in 0..MaxTime /\ now' = now + 1 BY <1>9, <1>0 DEF Tick
    <2>2. Version' = Version /\ \A n, m : SawBefore(n, m)' <=> SawBefore(n, m)
        BY <1>9 DEF facetVars, Version, SawBefore
    <2>3. FacetTypeOK'
        BY <1>9, <2>1, <2>2, <1>0 DEF facetVars, FacetTypeOK
    <2>4. DatedInv'
        BY <1>9, <2>1, <2>2, <1>0, <1>a
        DEF facetVars, FacetInv, DatedInv, Cached, Entry, Listing
    <2> QED BY <1>9, <2>1, <2>2, <2>3, <2>4
            DEF facetVars, FacetInv, ChangeWithinTheMinute, CacheBounded, Cached
<1>10. CASE UNCHANGED <<clockVars, facetVars>>
    BY <1>10 DEF clockVars, facetVars, FacetInv, FacetTypeOK, DatedInv, Cached, SawBefore,
       Version, ChangeWithinTheMinute, CacheBounded
<1> QED BY <1>1, <1>2, <1>3, <1>4, <1>5, <1>6, <1>7, <1>8, <1>9, <1>10 DEF FacetNext

\* A change to the catalog reaches every request that starts a time to live later,
\* whatever other requests computed and stored meanwhile (_facets).
THEOREM ChangesReach == FacetSpec => []ChangeWithinTheMinute
<1>1. FacetInv => ChangeWithinTheMinute BY DEF FacetInv
<1> QED BY <1>1, InitFacetInv, NextFacetInv, PTL DEF FacetSpec

\* The cache never holds more than FACET_CACHE_MAX_ENTRIES entries (_facets).
THEOREM CacheStaysBounded == FacetSpec => []CacheBounded
<1>1. FacetInv => CacheBounded BY DEF FacetInv
<1> QED BY <1>1, InitFacetInv, NextFacetInv, PTL DEF FacetSpec

(***************************************************************************)
(* The rate limiter (services/rate_limit.py, hit).                         *)
(***************************************************************************)

\* What a call of hit knows: a reading of the clock that is not in the future, and
\* once it has counted, that the row is its own until it ends and holds one less.
CountingInv ==
    \A t \in Threads :
        /\ call[t].pc # "idle" => call[t].bucket \in Buckets /\ call[t].stamp <= now
        /\ call[t].pc = "counted" =>
              /\ rowLock[call[t].bucket][WindowOf(t)] = t
              /\ call[t].hits = counter[call[t].bucket][WindowOf(t)] + 1

\* The row of an open window has counted every request that was let through.
OpenInv ==
    \A b \in Buckets, x \in Windows :
        now < x + WindowSeconds =>
            passed[b][x] <= counter[b][x] /\ passed[b][x] <= Allowance

\* The calls that read the clock while a window was open and have not ended.
Late(b, x) ==
    {t \in Threads : call[t].pc # "idle" /\ call[t].bucket = b /\ WindowOf(t) = x}

\* Each of them may still be let through after the window closed and its row went.
ClosedInv ==
    \A b \in Buckets, x \in Windows :
        now >= x + WindowSeconds =>
            passed[b][x] + Cardinality(Late(b, x)) <= Allowance + Cardinality(Threads)

LimiterInv ==
    /\ now \in 0..MaxTime /\ LimiterTypeOK
    /\ CountingInv /\ OpenInv /\ ClosedInv

-----------------------------------------------------------------------------

\* A time is floored to a window it lies in.
LEMMA WindowFacts ==
    ASSUME NEW t \in 0..MaxTime
    PROVE  /\ window_start(t) \in Windows /\ window_start(t) \in Nat
           /\ window_start(t) <= t /\ t < window_start(t) + WindowSeconds
<1>1. t \in Nat /\ WindowSeconds \in Nat \ {0} BY ClockAssumption, LimiterAssumption
<1>2. t % WindowSeconds \in 0..(WindowSeconds - 1) /\ t % WindowSeconds <= t BY <1>1
<1>3. window_start(t) \in Windows BY DEF Windows
<1> QED BY <1>1, <1>2, <1>3 DEF window_start

LEMMA WindowsAreTimes == Windows \subseteq Nat
BY WindowFacts DEF Windows

\* Multiples of a number are at least that number apart.
LEMMA Multiples ==
    ASSUME NEW w \in Nat \ {0}, NEW p \in Nat, NEW q \in Nat, w * p < w * q
    PROVE  w * p + w <= w * q
<1>1. p < q OBVIOUS
<1>2. PICK d \in Nat : q = p + 1 + d
    <2>1. q - p - 1 \in Nat BY <1>1
    <2>2. q = p + 1 + (q - p - 1) OBVIOUS
    <2> QED BY <2>1, <2>2
<1>3. w * q = w * p + w + w * d BY <1>2
<1>4. w * d >= 0 OBVIOUS
<1>5. w * p \in Nat /\ w * d \in Nat /\ w * q \in Nat OBVIOUS
<1> QED BY <1>3, <1>4, <1>5

\* The windows follow one another without overlap.
LEMMA WindowsApart ==
    ASSUME NEW x \in Windows, NEW y \in Windows, y < x
    PROVE  y + WindowSeconds <= x
<1> DEFINE W == WindowSeconds
<1>1. W \in Nat \ {0} BY LimiterAssumption
<1>2. \A z \in Windows : \E n \in Nat : z = W * n
    <2> SUFFICES ASSUME NEW t \in 0..MaxTime
                 PROVE  \E n \in Nat : window_start(t) = W * n
        BY DEF Windows
    <2>1. t \in Nat BY ClockAssumption
    <2>2. t = (W * (t \div W)) + (t % W) /\ t \div W \in Nat BY <1>1, <2>1
    <2>3. W * (t \div W) \in Nat /\ t % W \in Nat BY <1>1, <2>1, <2>2
    <2>4. window_start(t) = W * (t \div W) BY <2>1, <2>2, <2>3 DEF window_start
    <2> QED BY <2>2, <2>4
<1>3. PICK p \in Nat : y = W * p BY <1>2
<1>4. PICK q \in Nat : x = W * q BY <1>2
<1> HIDE DEF W
<1>5. y + W <= x BY <1>1, <1>3, <1>4, Multiples
<1> QED BY <1>5 DEF W

LEMMA LateIsFinite ==
    ASSUME NEW b \in Buckets, NEW x \in Windows
    PROVE  /\ IsFiniteSet(Late(b, x)) /\ Cardinality(Late(b, x)) \in Nat
           /\ Cardinality(Late(b, x)) <= Cardinality(Threads)
           /\ Cardinality(Threads) \in Nat
<1>1. Late(b, x) \subseteq Threads BY DEF Late
<1> QED BY <1>1, ClockAssumption, FS_Subset, FS_CardinalityType


LEMMA InitLimiterInv == ClockInit /\ LimiterInit => LimiterInv
<1> SUFFICES ASSUME ClockInit, LimiterInit PROVE LimiterInv
    OBVIOUS
<1> USE ClockAssumption, LimiterAssumption DEF ClockInit, LimiterInit
<1>1. now \in 0..MaxTime /\ LimiterTypeOK BY DEF LimiterTypeOK, Call, NoCall
<1>2. CountingInv BY DEF CountingInv, NoCall
<1>3. OpenInv BY DEF OpenInv
<1>4. ClosedInv
    <2> SUFFICES ASSUME NEW b \in Buckets, NEW x \in Windows
                 PROVE  passed[b][x] + Cardinality(Late(b, x)) <=
                            Allowance + Cardinality(Threads)
        BY DEF ClosedInv
    <2>1. passed[b][x] = 0 OBVIOUS
    <2> HIDE DEF ClockInit, LimiterInit
    <2> QED BY <2>1, LateIsFinite
<1> QED BY <1>1, <1>2, <1>3, <1>4 DEF LimiterInv

\* The end of a call: it is late for no window any more, and its row is free.
LEMMA CallEnds ==
    ASSUME LimiterInv, NEW t \in Threads, EndCall(t)
    PROVE  /\ call' \in [Threads -> Call]
           /\ rowLock' \in [Buckets -> [Windows -> Threads \cup {None}]]
           /\ call'[t].pc = "idle"
           /\ \A s \in Threads \ {t} : call'[s] = call[s] /\ WindowOf(s)' = WindowOf(s)
           /\ \A b \in Buckets, x \in Windows :
                 /\ rowLock[b][x] # t => rowLock'[b][x] = rowLock[b][x]
                 /\ Late(b, x)' = Late(b, x) \ {t}
<1> USE ClockAssumption DEF LimiterInv, LimiterTypeOK, EndCall
<1>1. NoCall \in Call /\ NoCall.pc = "idle" BY DEF Call, NoCall
<1>2. /\ call' \in [Threads -> Call] /\ call'[t].pc = "idle"
      /\ \A s \in Threads \ {t} : call'[s] = call[s]
    BY <1>1
<1>3. /\ rowLock' \in [Buckets -> [Windows -> Threads \cup {None}]]
      /\ \A b \in Buckets, x \in Windows :
            rowLock[b][x] # t => rowLock'[b][x] = rowLock[b][x]
    OBVIOUS
<1>4. \A s \in Threads \ {t} : WindowOf(s)' = WindowOf(s)
    BY <1>2 DEF WindowOf, window_start
<1> HIDE DEF LimiterInv, LimiterTypeOK, EndCall
<1>5. \A b \in Buckets, x \in Windows : Late(b, x)' = Late(b, x) \ {t}
    BY <1>2, <1>4 DEF Late
<1> QED BY <1>2, <1>3, <1>4, <1>5

\* A step that leaves the clock and the passed requests and makes no call late for
\* a window that was closed.
LEMMA ClosedKept ==
    ASSUME LimiterInv, UNCHANGED <<now, passed>>,
           \A b \in Buckets, x \in Windows :
               now >= x + WindowSeconds => Late(b, x)' \subseteq Late(b, x)
    PROVE  ClosedInv'
<1> SUFFICES ASSUME NEW b \in Buckets, NEW x \in Windows, now >= x + WindowSeconds
             PROVE  passed[b][x] + Cardinality(Late(b, x)') <=
                        Allowance + Cardinality(Threads)
    BY DEF ClosedInv
<1>1. /\ passed[b][x] \in Nat /\ Allowance \in Nat
      /\ passed[b][x] + Cardinality(Late(b, x)) <= Allowance + Cardinality(Threads)
    BY LimiterAssumption DEF LimiterInv, LimiterTypeOK, ClosedInv
<1>2. /\ Cardinality(Late(b, x)') \in Nat
      /\ Cardinality(Late(b, x)') <= Cardinality(Late(b, x))
    BY LateIsFinite, FS_Subset, FS_CardinalityType
<1> QED BY <1>1, <1>2, LateIsFinite


\* HitStart dates the call: its window is open.
LEMMA StartKept ==
    ASSUME LimiterInv, NEW t \in Threads, NEW b \in Buckets, HitStart(t, b)
    PROVE  LimiterInv'
<1> DEFINE new == [NoCall EXCEPT !.pc = "stamped", !.bucket = b, !.stamp = now]
<1>1. /\ call[t].pc = "idle" /\ call' = [call EXCEPT ![t] = new]
      /\ UNCHANGED <<now, counter, rowLock, passed>>
    BY DEF HitStart
<1>2. /\ new \in Call /\ new.pc = "stamped" /\ new.bucket = b /\ new.stamp = now
    BY DEF LimiterInv, NoCall, Call
<1> HIDE DEF new
<1>3. /\ now \in 0..MaxTime /\ now \in Nat /\ WindowSeconds \in Nat
      /\ call \in [Threads -> Call]
    BY ClockAssumption, LimiterAssumption DEF LimiterInv, LimiterTypeOK
<1>4. call'[t] = new /\ \A s \in Threads \ {t} : call'[s] = call[s]
    BY <1>1, <1>3
<1>5. /\ WindowOf(t)' = window_start(now)
      /\ \A s \in Threads \ {t} : WindowOf(s)' = WindowOf(s)
    BY <1>2, <1>4 DEF WindowOf, window_start
<1>6. LimiterTypeOK' BY <1>1, <1>2 DEF LimiterInv, LimiterTypeOK
<1>7. CountingInv'
    BY <1>1, <1>2, <1>3, <1>4, <1>5 DEF LimiterInv, CountingInv
<1>8. OpenInv' BY <1>1 DEF LimiterInv, OpenInv
<1>9. ASSUME NEW c \in Buckets, NEW x \in Windows, now >= x + WindowSeconds
      PROVE  Late(c, x)' \subseteq Late(c, x)
    <2>1. window_start(now) # x
        BY <1>3, <1>9, WindowFacts, WindowsAreTimes
    <2> QED BY <2>1, <1>4, <1>5 DEF Late
<1>10. ClosedInv' BY <1>1, <1>9, ClosedKept
<1> QED BY <1>1, <1>3, <1>6, <1>7, <1>8, <1>10 DEF LimiterInv

\* Upsert takes the row's lock, so no other call has counted in that window.
LEMMA UpsertKept ==
    ASSUME LimiterInv, NEW t \in Threads, Upsert(t)
    PROVE  LimiterInv'
<1> PICK b, x : b = call[t].bucket /\ x = WindowOf(t) OBVIOUS
<1>1. /\ call[t].pc = "stamped" /\ rowLock[b][x] = None
      /\ rowLock' = [rowLock EXCEPT ![b][x] = t]
      /\ call' = [call EXCEPT ![t].pc = "counted", ![t].hits = counter[b][x] + 1]
      /\ UNCHANGED <<now, counter, passed>>
    BY DEF Upsert
<1>2. /\ now \in 0..MaxTime /\ b \in Buckets /\ call[t].stamp <= now
      /\ call \in [Threads -> Call] /\ call[t].stamp \in 0..MaxTime
      /\ call[t] \in Call
    BY <1>1 DEF LimiterInv, LimiterTypeOK, CountingInv, Call
<1>3. x \in Windows BY <1>2, WindowFacts DEF WindowOf
<1>4. counter[b][x] \in Nat /\ rowLock \in [Buckets -> [Windows -> Threads \cup {None}]]
    BY <1>2, <1>3 DEF LimiterInv, LimiterTypeOK
<1>5. /\ call'[t] = [call[t] EXCEPT !.pc = "counted", !.hits = counter[b][x] + 1]
      /\ \A s \in Threads \ {t} : call'[s] = call[s]
    BY <1>1, <1>2
<1>6. /\ call'[t].pc = "counted" /\ call'[t].hits = counter[b][x] + 1
      /\ call'[t].bucket = b /\ call'[t].stamp = call[t].stamp
      /\ call'[t] \in Call
    <2>1. /\ DOMAIN call[t] = {"pc", "bucket", "stamp", "hits"}
          /\ call[t] = [pc |-> call[t].pc, bucket |-> b, stamp |-> call[t].stamp,
                         hits |-> call[t].hits]
        BY <1>2 DEF Call
    <2>2. call'[t] = [pc |-> "counted", bucket |-> b, stamp |-> call[t].stamp,
                      hits |-> counter[b][x] + 1]
        BY <2>1, <1>5
    <2> QED BY <2>2, <1>2, <1>4 DEF Call
<1>7. \A s \in Threads : WindowOf(s)' = WindowOf(s) /\ call'[s].bucket = call[s].bucket
    BY <1>5, <1>6 DEF WindowOf, window_start
<1>8. /\ rowLock'[b][x] = t
      /\ \A c \in Buckets, y \in Windows :
            c # b \/ y # x => rowLock'[c][y] = rowLock[c][y]
      /\ rowLock' \in [Buckets -> [Windows -> Threads \cup {None}]]
    BY <1>1, <1>2, <1>3, <1>4
<1>9. LimiterTypeOK'
    <2>1. call' \in [Threads -> Call] BY <1>1, <1>2, <1>5, <1>6
    <2> QED BY <2>1, <1>1, <1>8 DEF LimiterInv, LimiterTypeOK
<1>10. CountingInv'
    <2> SUFFICES ASSUME NEW s \in Threads
                 PROVE  /\ call'[s].pc # "idle" =>
                              call'[s].bucket \in Buckets /\ call'[s].stamp <= now'
                        /\ call'[s].pc = "counted" =>
                              /\ rowLock'[call'[s].bucket][WindowOf(s)'] = s
                              /\ call'[s].hits = counter'[call'[s].bucket][WindowOf(s)'] + 1
        BY DEF CountingInv
    <2>1. CASE s = t BY <2>1, <1>1, <1>2, <1>6, <1>7, <1>8
    <2>2. CASE s # t
        <3>1. call'[s] = call[s] /\ WindowOf(s)' = WindowOf(s) BY <2>2, <1>5, <1>7
        <3>2. call[s].pc # "idle" => call[s].bucket \in Buckets /\ call[s].stamp <= now
            BY DEF LimiterInv, CountingInv
        <3>3. ASSUME call[s].pc = "counted"
              PROVE  /\ rowLock'[call[s].bucket][WindowOf(s)] = s
                     /\ call[s].hits = counter[call[s].bucket][WindowOf(s)] + 1
            <4>1. /\ rowLock[call[s].bucket][WindowOf(s)] = s
                  /\ call[s].hits = counter[call[s].bucket][WindowOf(s)] + 1
                BY <3>3 DEF LimiterInv, CountingInv
            <4>2. s # None BY ClockAssumption
            <4>3. WindowOf(s) \in Windows
                BY <1>2, WindowFacts DEF WindowOf, Call
            <4> QED BY <4>1, <4>2, <4>3, <3>2, <3>3, <1>1, <1>8
        <3> QED BY <3>1, <3>2, <3>3, <1>1
    <2> QED BY <2>1, <2>2
<1>11. OpenInv' BY <1>1 DEF LimiterInv, OpenInv
<1>12. \A c \in Buckets, y \in Windows : Late(c, y)' \subseteq Late(c, y)
    BY <1>1, <1>5, <1>6, <1>7 DEF Late
<1>13. ClosedInv' BY <1>1, <1>12, ClosedKept
<1> QED BY <1>1, <1>2, <1>9, <1>10, <1>11, <1>13 DEF LimiterInv


\* HitCommit counts in a row that is its own, and deletes rows of closed windows
\* only, none of them another call's.
LEMMA CommitKept ==
    ASSUME LimiterInv, NEW t \in Threads, HitCommit(t)
    PROVE  LimiterInv'
<1> PICK b, x : b = call[t].bucket /\ x = WindowOf(t) OBVIOUS
<1> DEFINE deleted == Closed(b, x)
<1>1. /\ call[t].pc = "counted"
      /\ \A y \in deleted : rowLock[b][y] = None
      /\ counter' = [counter EXCEPT ![b] =
             [y \in Windows |-> IF y = x THEN call[t].hits
                                ELSE IF y \in deleted THEN 0 ELSE @[y]]]
      /\ passed' = [passed EXCEPT ![b][x] = IF Spent(t) THEN @ ELSE @ + 1]
      /\ EndCall(t) /\ UNCHANGED <<now, load>>
    BY DEF HitCommit
<1>2. /\ now \in 0..MaxTime /\ now \in Nat /\ b \in Buckets /\ call[t].stamp <= now
      /\ call \in [Threads -> Call] /\ call[t].stamp \in 0..MaxTime
      /\ call[t].hits \in Nat /\ Allowance \in Nat /\ WindowSeconds \in Nat
    BY <1>1, ClockAssumption, LimiterAssumption
    DEF LimiterInv, LimiterTypeOK, CountingInv, Call
<1>3. x \in Windows /\ x \in Nat /\ x <= now
    BY <1>2, WindowFacts, ClockAssumption DEF WindowOf
<1>4. rowLock[b][x] = t /\ call[t].hits = counter[b][x] + 1
    BY <1>1 DEF LimiterInv, CountingInv
<1>5. /\ counter \in [Buckets -> [Windows -> Nat]]
      /\ passed \in [Buckets -> [Windows -> Nat]]
    BY DEF LimiterInv, LimiterTypeOK
\* Only closed windows lose their row.
<1>6. \A y \in deleted : y \in Windows /\ y + WindowSeconds <= now
    <2> SUFFICES ASSUME NEW y \in deleted
                 PROVE  y \in Windows /\ y + WindowSeconds <= now
        OBVIOUS
    <2>1. y \in Windows /\ y < x BY DEF Closed
    <2>2. y + WindowSeconds <= x BY <2>1, <1>3, WindowsApart
    <2> QED BY <2>1, <2>2, <1>2, <1>3, WindowsAreTimes
<1> HIDE DEF deleted
<1>7. /\ counter' \in [Buckets -> [Windows -> Nat]]
      /\ counter'[b][x] = counter[b][x] + 1
      /\ \A c \in Buckets, y \in Windows :
            c # b \/ (y # x /\ y \notin deleted) => counter'[c][y] = counter[c][y]
    BY <1>1, <1>2, <1>3, <1>4, <1>5
<1>8. /\ passed' \in [Buckets -> [Windows -> Nat]]
      /\ passed'[b][x] = IF Spent(t) THEN passed[b][x] ELSE passed[b][x] + 1
      /\ \A c \in Buckets, y \in Windows :
            c # b \/ y # x => passed'[c][y] = passed[c][y]
    BY <1>1, <1>2, <1>3, <1>5
<1>9. LimiterTypeOK' BY <1>1, <1>7, <1>8, CallEnds DEF LimiterTypeOK
<1>10. CountingInv'
    <2> SUFFICES ASSUME NEW s \in Threads, call'[s].pc # "idle"
                 PROVE  /\ call'[s].bucket \in Buckets /\ call'[s].stamp <= now'
                        /\ call'[s].pc = "counted" =>
                              /\ rowLock'[call'[s].bucket][WindowOf(s)'] = s
                              /\ call'[s].hits = counter'[call'[s].bucket][WindowOf(s)'] + 1
        BY DEF CountingInv
    <2>1. s # t /\ call'[s] = call[s] /\ WindowOf(s)' = WindowOf(s)
        BY <1>1, CallEnds
    <2>2. call[s].bucket \in Buckets /\ call[s].stamp <= now
        BY <2>1 DEF LimiterInv, CountingInv
    <2>3. ASSUME call[s].pc = "counted"
          PROVE  /\ rowLock'[call[s].bucket][WindowOf(s)] = s
                 /\ call[s].hits = counter'[call[s].bucket][WindowOf(s)] + 1
        <3> PICK c, y : c = call[s].bucket /\ y = WindowOf(s) OBVIOUS
        <3>1. rowLock[c][y] = s /\ call[s].hits = counter[c][y] + 1
            BY <2>3 DEF LimiterInv, CountingInv
        <3>2. s # None BY ClockAssumption
        <3>3. c \in Buckets /\ y \in Windows
            BY <2>2, <1>2, WindowFacts DEF WindowOf, Call
        <3>4. c # b \/ (y # x /\ y \notin deleted)
            BY <3>1, <3>2, <2>1, <1>1, <1>4
        <3>5. rowLock'[c][y] = s BY <3>1, <3>3, <2>1, <1>1, CallEnds
        <3> QED BY <3>1, <3>3, <3>4, <3>5, <1>7
    <2> QED BY <2>1, <2>2, <2>3, <1>1
<1>11. OpenInv'
    <2> SUFFICES ASSUME NEW c \in Buckets, NEW y \in Windows, now < y + WindowSeconds
                 PROVE  passed'[c][y] <= counter'[c][y] /\ passed'[c][y] <= Allowance
        BY <1>1 DEF OpenInv
    <2>1. /\ passed[c][y] <= counter[c][y] /\ passed[c][y] <= Allowance
          /\ passed[c][y] \in Nat /\ counter[c][y] \in Nat
        BY <1>5 DEF LimiterInv, OpenInv
    <2>2. y \notin deleted BY <1>2, <1>6, WindowsAreTimes
    <2>3. CASE c = b /\ y = x
        BY <2>1, <2>3, <1>2, <1>4, <1>7, <1>8 DEF Spent
    <2>4. CASE ~(c = b /\ y = x)
        BY <2>1, <2>2, <2>4, <1>7, <1>8
    <2> QED BY <2>3, <2>4
\* The request let through was late for its window, and is so no more.
<1>12. ClosedInv'
    <2> SUFFICES ASSUME NEW c \in Buckets, NEW y \in Windows, now >= y + WindowSeconds
                 PROVE  passed'[c][y] + Cardinality(Late(c, y)') <=
                            Allowance + Cardinality(Threads)
        BY <1>1 DEF ClosedInv
    <2>1. /\ passed[c][y] + Cardinality(Late(c, y)) <= Allowance + Cardinality(Threads)
          /\ passed[c][y] \in Nat
        BY <1>5 DEF LimiterInv, ClosedInv
    <2>2. /\ IsFiniteSet(Late(c, y)) /\ Cardinality(Late(c, y)) \in Nat
          /\ Cardinality(Threads) \in Nat
        BY LateIsFinite
    <2>3. Late(c, y)' = Late(c, y) \ {t} BY <1>1, CallEnds
    <2>4. CASE c = b /\ y = x
        <3>1. t \in Late(c, y) BY <2>4, <1>1 DEF Late
        <3>2. Cardinality(Late(c, y)') = Cardinality(Late(c, y)) - 1
            BY <3>1, <2>2, <2>3, FS_RemoveElement
        <3>3. passed'[c][y] \in Nat /\ passed'[c][y] <= passed[c][y] + 1
            BY <2>1, <2>4, <1>8
        <3> QED BY <3>2, <3>3, <2>1, <2>2, <1>2
    <2>5. CASE ~(c = b /\ y = x)
        <3>1. passed'[c][y] = passed[c][y] BY <2>5, <1>8
        <3>2. /\ Cardinality(Late(c, y)') \in Nat
              /\ Cardinality(Late(c, y)') <= Cardinality(Late(c, y))
            BY <2>2, <2>3, FS_Subset, FS_CardinalityType
        <3> QED BY <3>1, <3>2, <2>1, <2>2, <1>2
    <2> QED BY <2>4, <2>5
<1> QED BY <1>1, <1>2, <1>9, <1>10, <1>11, <1>12 DEF LimiterInv

\* HitError gives the row back as it was.
LEMMA ErrorKept ==
    ASSUME LimiterInv, NEW t \in Threads, HitError(t)
    PROVE  LimiterInv'
<1>1. EndCall(t) /\ UNCHANGED <<now, load, counter, passed>> BY DEF HitError
<1>2. LimiterTypeOK' BY <1>1, CallEnds DEF LimiterInv, LimiterTypeOK
<1>3. CountingInv'
    <2> SUFFICES ASSUME NEW s \in Threads, call'[s].pc # "idle"
                 PROVE  /\ call'[s].bucket \in Buckets /\ call'[s].stamp <= now'
                        /\ call'[s].pc = "counted" =>
                              /\ rowLock'[call'[s].bucket][WindowOf(s)'] = s
                              /\ call'[s].hits = counter'[call'[s].bucket][WindowOf(s)'] + 1
        BY DEF CountingInv
    <2>1. s # t /\ call'[s] = call[s] /\ WindowOf(s)' = WindowOf(s)
        BY <1>1, CallEnds
    <2>2. call[s].bucket \in Buckets /\ call[s].stamp <= now /\ call[s] \in Call
        BY <2>1 DEF LimiterInv, CountingInv, LimiterTypeOK
    <2>3. WindowOf(s) \in Windows BY <2>2, WindowFacts DEF WindowOf, Call
    <2> QED BY <2>1, <2>2, <2>3, <1>1, CallEnds DEF LimiterInv, CountingInv
<1>4. OpenInv' BY <1>1 DEF LimiterInv, OpenInv
<1>5. ClosedInv' BY <1>1, CallEnds, ClosedKept
<1> QED BY <1>1, <1>2, <1>3, <1>4, <1>5 DEF LimiterInv

\* PruneCounters deletes rows of closed windows, none of them a call's.
LEMMA PruneKept ==
    ASSUME LimiterInv, PruneCounters
    PROVE  LimiterInv'
<1> DEFINE old == {r \in Buckets \X Windows :
                      counter[r[1]][r[2]] > 0 /\ r[2] < now - WindowSeconds}
<1>1. /\ \A r \in old : rowLock[r[1]][r[2]] = None
      /\ counter' = [b \in Buckets |-> [x \in Windows |->
                       IF <<b, x>> \in old THEN 0 ELSE counter[b][x]]]
      /\ UNCHANGED <<now, load, rowLock, call, passed>>
    BY DEF PruneCounters
<1>2. \A b \in Buckets, x \in Windows :
          <<b, x>> \in old => x < now - WindowSeconds /\ rowLock[b][x] = None
    BY <1>1
<1> HIDE DEF old
<1>3. counter \in [Buckets -> [Windows -> Nat]] /\ now \in Nat /\ WindowSeconds \in Nat
    BY ClockAssumption, LimiterAssumption DEF LimiterInv, LimiterTypeOK
<1>4. LimiterTypeOK' BY <1>1, <1>3 DEF LimiterInv, LimiterTypeOK
<1>5. \A s \in Threads : WindowOf(s)' = WindowOf(s) BY <1>1 DEF WindowOf, window_start
<1>6. CountingInv'
    <2> SUFFICES ASSUME NEW s \in Threads, call[s].pc = "counted"
                 PROVE  call[s].hits = counter'[call[s].bucket][WindowOf(s)] + 1
        BY <1>1, <1>5 DEF LimiterInv, CountingInv
    <2> PICK c, y : c = call[s].bucket /\ y = WindowOf(s) OBVIOUS
    <2>1. /\ c \in Buckets /\ rowLock[c][y] = s /\ call[s].hits = counter[c][y] + 1
          /\ call[s] \in Call
        BY DEF LimiterInv, CountingInv, LimiterTypeOK
    <2>2. y \in Windows BY <2>1, WindowFacts DEF WindowOf, Call
    <2>3. <<c, y>> \notin old BY <2>1, <2>2, <1>2, ClockAssumption
    <2> QED BY <2>1, <2>2, <2>3, <1>1
<1>7. OpenInv'
    <2> SUFFICES ASSUME NEW b \in Buckets, NEW x \in Windows, now < x + WindowSeconds
                 PROVE  counter'[b][x] = counter[b][x]
        BY <1>1 DEF LimiterInv, OpenInv
    <2>1. <<b, x>> \notin old BY <1>2, <1>3, WindowsAreTimes
    <2> QED BY <2>1, <1>1
<1>8. \A b \in Buckets, x \in Windows : Late(b, x)' \subseteq Late(b, x)
    BY <1>1, <1>5 DEF Late
<1>9. ClosedInv' BY <1>1, <1>8, ClosedKept
<1> QED BY <1>1, <1>4, <1>6, <1>7, <1>9 DEF LimiterInv

\* A tick closes a window with at most one late call per thread.
LEMMA TickKept ==
    ASSUME LimiterInv, Tick, UNCHANGED limiterVars
    PROVE  LimiterInv'
<1>1. now' = now + 1 /\ now' \in 0..MaxTime /\ now \in Nat /\ WindowSeconds \in Nat
    BY ClockAssumption, LimiterAssumption DEF LimiterInv, Tick
<1>2. LimiterTypeOK' BY DEF LimiterInv, LimiterTypeOK, limiterVars
<1>3. \A s \in Threads : WindowOf(s)' = WindowOf(s)
    BY DEF WindowOf, window_start, limiterVars
<1>4. CountingInv'
    <2>1. \A s \in Threads : call[s].stamp \in Nat
        BY ClockAssumption DEF LimiterInv, LimiterTypeOK, Call
    <2> QED BY <2>1, <1>1, <1>3 DEF LimiterInv, CountingInv, limiterVars
<1>5. OpenInv' BY <1>1, WindowsAreTimes DEF LimiterInv, OpenInv, limiterVars
<1>6. ClosedInv'
    <2> SUFFICES ASSUME NEW b \in Buckets, NEW x \in Windows, now + 1 >= x + WindowSeconds
                 PROVE  passed[b][x] + Cardinality(Late(b, x)) <=
                            Allowance + Cardinality(Threads)
        <3>1. \A b \in Buckets, x \in Windows : Late(b, x)' = Late(b, x)
            BY <1>3 DEF Late, limiterVars
        <3> QED BY <1>1, <3>1 DEF ClosedInv, limiterVars
    <2>1. CASE now >= x + WindowSeconds BY <2>1 DEF LimiterInv, ClosedInv
    <2>2. CASE ~(now >= x + WindowSeconds)
        <3>1. passed[b][x] <= Allowance /\ passed[b][x] \in Nat /\ Allowance \in Nat
            BY <2>2, <1>1, WindowsAreTimes, LimiterAssumption
            DEF LimiterInv, OpenInv, LimiterTypeOK
        <3> QED BY <3>1, LateIsFinite
    <2> QED BY <2>1, <2>2
<1> QED BY <1>1, <1>2, <1>4, <1>5, <1>6 DEF LimiterInv


\* Every step keeps the invariant.
LEMMA NextLimiterInv ==
    LimiterInv /\ [LimiterNext \/ (Tick /\ UNCHANGED limiterVars)]_<<clockVars, limiterVars>>
    => LimiterInv'
<1> SUFFICES ASSUME LimiterInv,
                    [LimiterNext \/ (Tick /\ UNCHANGED limiterVars)]_<<clockVars, limiterVars>>
             PROVE  LimiterInv'
    OBVIOUS
<1>1. ASSUME NEW t \in Threads, NEW b \in Buckets, HitStart(t, b) PROVE LimiterInv'
    BY <1>1, StartKept
<1>2. ASSUME NEW t \in Threads, Upsert(t) PROVE LimiterInv'
    BY <1>2, UpsertKept
<1>3. ASSUME NEW t \in Threads, HitCommit(t) PROVE LimiterInv'
    BY <1>3, CommitKept
<1>4. ASSUME NEW t \in Threads, HitError(t) PROVE LimiterInv'
    BY <1>4, ErrorKept
<1>5. ASSUME PruneCounters PROVE LimiterInv'
    BY <1>5, PruneKept
<1>6. ASSUME Tick, UNCHANGED limiterVars PROVE LimiterInv'
    BY <1>6, TickKept
<1>7. CASE UNCHANGED <<clockVars, limiterVars>>
    <2>1. UNCHANGED <<now, counter, rowLock, call, passed>>
        BY <1>7 DEF clockVars, limiterVars
    <2> QED BY <2>1 DEF LimiterInv, LimiterTypeOK, CountingInv, OpenInv, ClosedInv, Late,
                        WindowOf, window_start
<1> QED BY <1>1, <1>2, <1>3, <1>4, <1>5, <1>6, <1>7 DEF LimiterNext

\* The counters, their locks and the calls of hit keep their shape.
THEOREM LimiterTypeCorrect == LimiterSpec => []LimiterTypeOK
<1>1. LimiterInv => LimiterTypeOK BY DEF LimiterInv
<1> QED BY <1>1, InitLimiterInv, NextLimiterInv, PTL DEF LimiterSpec

\* The two halves of the invariant bound what a window lets through.
LEMMA AllowanceFollows == LimiterInv => AllowanceKept
<1> SUFFICES ASSUME LimiterInv, NEW b \in Buckets, NEW x \in Windows
             PROVE  passed[b][x] <= Allowance +
                        (IF now < x + WindowSeconds THEN 0 ELSE Cardinality(Threads))
    BY DEF AllowanceKept
<1>1. /\ passed[b][x] \in Nat /\ Allowance \in Nat /\ now \in Nat /\ x \in Nat
      /\ WindowSeconds \in Nat
    BY ClockAssumption, LimiterAssumption, WindowsAreTimes DEF LimiterInv, LimiterTypeOK
<1>2. CASE now < x + WindowSeconds
    BY <1>1, <1>2 DEF LimiterInv, OpenInv
<1>3. CASE ~(now < x + WindowSeconds)
    BY <1>1, <1>3, LateIsFinite DEF LimiterInv, ClosedInv
<1> QED BY <1>2, <1>3

\* However many threads count at once, and whenever the rows of closed windows are
\* deleted, hit lets no more requests through in an open window than its limit, and
\* at most one more per thread after it closed.
THEOREM AllowanceIsKept == LimiterSpec => []AllowanceKept
BY AllowanceFollows, InitLimiterInv, NextLimiterInv, PTL DEF LimiterSpec

(***************************************************************************)
(* The parts side by side: each of them behaves as if it were alone.       *)
(***************************************************************************)

LEMMA FacetTypeCorrect == FacetSpec => []FacetTypeOK
<1>1. FacetInv => FacetTypeOK BY DEF FacetInv
<1> QED BY <1>1, InitFacetInv, NextFacetInv, PTL DEF FacetSpec

\* No part moves the clock.
LEMMA ClockUnmoved ==
    LimiterNext \/ FacetNext \/ TokenNext \/ AccountNext => UNCHANGED clockVars
<1>1. LimiterNext => UNCHANGED clockVars
    BY DEF LimiterNext, HitStart, Upsert, HitCommit, HitError, PruneCounters, clockVars
<1>2. FacetNext => UNCHANGED clockVars
    BY DEF FacetNext, CatalogChange, FacetsStart, FacetsHit, FacetsMiss, ComputeOptions,
              ComputePrices, FacetsStore, FacetsError, clockVars
<1>3. TokenNext => UNCHANGED clockVars
    BY DEF TokenNext, TokenStart, TokenReuse, TokenMiss, TokenIssued, TokenFailed,
              TokenKeep, TokenUsed, clockVars
<1>4. AccountNext => UNCHANGED clockVars
    BY ZenonT(40) DEF AccountNext, RegisterStart, RegisterCommit, LoginStart, LoginWrong,
              LoginInactive, LoginDone, Decode, Verify, Refuse, LoadAccount, Refresh,
              Logout, ClaimRead, ClaimCommit, ActivationRead, ActivationCommit,
              SessionCrash, CreateAdmin, PruneTokens, clockVars
<1> QED BY <1>1, <1>2, <1>3, <1>4

LEMMA PartsOfAStep ==
    ASSUME [ClockworkNext]_allVars
    PROVE  /\ [LimiterNext \/ (Tick /\ UNCHANGED limiterVars)]_<<clockVars, limiterVars>>
           /\ [FacetNext \/ (Tick /\ UNCHANGED facetVars)]_<<clockVars, facetVars>>
           /\ [TokenNext \/ (Tick /\ UNCHANGED tokenVars)]_<<clockVars, tokenVars>>
           /\ [NextAccount]_<<clockVars, accountVars>>
<1>1. CASE UNCHANGED allVars
    BY <1>1 DEF allVars
<1>2. CASE ClockworkNext
    BY <1>2, ClockUnmoved DEF ClockworkNext, Quiet, allVars, NextAccount
<1> QED BY <1>1, <1>2

\* The composition implements every part's own specification: nothing a part
\* promises depends on the other parts' being idle (blueprints and services share
\* only the clock and the threads).
THEOREM PartsApart ==
    Clockwork => LimiterSpec /\ FacetSpec /\ TokenSpec /\ AccountSpec
<1>1. ClockworkInit =>
          ClockInit /\ LimiterInit /\ FacetInit /\ TokenInit /\ AccountInit
    BY DEF ClockworkInit
<1> QED BY <1>1, PartsOfAStep, PTL
        DEF Clockwork, LimiterSpec, FacetSpec, TokenSpec, AccountSpec, NextAccount

\* Every table, cache and request of every part keeps its shape while they all run.
THEOREM ClockworkTypeCorrect == Clockwork => []TypeOK
<1>1. LimiterTypeOK /\ FacetTypeOK /\ TokenTypeOK /\ AccountTypeOK => TypeOK
    BY DEF TypeOK
<1> QED BY <1>1, PartsApart, LimiterTypeCorrect, FacetTypeCorrect, TokenTypeCorrect,
           AccountTypeCorrect, PTL
=============================================================================
