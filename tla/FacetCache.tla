----------------------------- MODULE FacetCache -----------------------------
(***************************************************************************)
(* blueprints/catalog.py: the filter options (facets) of a listing, kept   *)
(* per process for FACET_CACHE_SECONDS.  A request reads the clock, looks  *)
(* its scope up under the lock, computes a missing or expired entry        *)
(* outside the lock with two SELECTs, and stores it under the lock with    *)
(* the time it read first, dropping the oldest entries beyond the maximum. *)
(***************************************************************************)
EXTENDS Clock

CONSTANTS
    Scopes,      \* the category and search term of a listing
    Ttl,         \* FACET_CACHE_SECONDS, not zero: zero would switch the cache off
    MaxEntries,  \* FACET_CACHE_MAX_ENTRIES
    MaxChanges   \* a bound on the catalog changes

ASSUME FacetAssumption ==
    Ttl \in Nat \ {0} /\ MaxEntries \in Nat \ {0} /\ MaxChanges \in Nat

VARIABLES
    changed,   \* the catalog changes so far: the time of each
    facets,    \* _facet_cache: the entry of each scope
    listing    \* the listing each thread is serving

facetVars == <<changed, facets, listing>>

Versions == 0..MaxChanges

\* What was computed: how many changes each of the two SELECTs saw.
Computed == [options : Versions, prices : Versions]
Entry == [stamp : 0..MaxTime, computed : Computed]

NoneComputed == [options |-> 0, prices |-> 0]

Listing == [pc : {"idle", "lookup", "options", "prices", "store", "answered"},
            scope : Scopes \cup {None}, stamp : 0..MaxTime, computed : Computed]

NoListing == [pc |-> "idle", scope |-> None, stamp |-> 0, computed |-> NoneComputed]

Cached(s) == facets[s] # None

FacetInit ==
    /\ changed = [v \in {} |-> 0]
    /\ facets = [s \in Scopes |-> None]
    /\ listing = [t \in Threads |-> NoListing]

Version == Cardinality(DOMAIN changed)

\* An admin's change to the catalog is committed.
CatalogChange ==
    /\ "listing" \in load /\ Version < MaxChanges
    /\ changed' = [v \in 1..(Version + 1) |-> IF v <= Version THEN changed[v] ELSE now]
    /\ UNCHANGED <<now, load, facets, listing>>

\* list_products reaches _facets, which reads the clock.
FacetsStart(t, s) ==
    /\ "listing" \in load /\ listing[t].pc \in {"idle", "answered"}
    /\ listing' = [listing EXCEPT ![t] = [NoListing EXCEPT !.pc = "lookup",
                                             !.scope = s, !.stamp = now]]
    /\ UNCHANGED <<now, load, changed, facets>>

\* An entry younger than the time to live answers the request.
Fresh(t) ==
    LET s == listing[t].scope
    IN  Cached(s) /\ listing[t].stamp - facets[s].stamp < Ttl

FacetsHit(t) ==
    /\ listing[t].pc = "lookup" /\ Fresh(t)
    /\ listing' = [listing EXCEPT ![t].pc = "answered",
                                  ![t].computed = facets[listing[t].scope].computed]
    /\ UNCHANGED <<now, load, changed, facets>>

FacetsMiss(t) ==
    /\ listing[t].pc = "lookup" /\ ~Fresh(t)
    /\ listing' = [listing EXCEPT ![t].pc = "options"]
    /\ UNCHANGED <<now, load, changed, facets>>

\* _compute_facets: the sizes and colours, then the price range; each SELECT
\* sees what is committed when it runs.
ComputeOptions(t) ==
    /\ listing[t].pc = "options"
    /\ listing' = [listing EXCEPT ![t].pc = "prices", ![t].computed.options = Version]
    /\ UNCHANGED <<now, load, changed, facets>>

ComputePrices(t) ==
    /\ listing[t].pc = "prices"
    /\ listing' = [listing EXCEPT ![t].pc = "store", ![t].computed.prices = Version]
    /\ UNCHANGED <<now, load, changed, facets>>

\* The oldest entries are dropped until the cache fits its maximum.
Trimmed(full) ==
    {kept \in [Scopes -> {None} \cup {full[s] : s \in Scopes}] :
        LET present == {s \in Scopes : full[s] # None}
            left == {s \in Scopes : kept[s] # None}
        IN  /\ \A s \in left : kept[s] = full[s]
            /\ Cardinality(left) =
                  IF Cardinality(present) <= MaxEntries
                  THEN Cardinality(present) ELSE MaxEntries
            /\ \A s \in left, r \in present \ left : full[r].stamp <= full[s].stamp}

\* Mutant: the entry is dated by when it is stored.
FacetsStoreLate(t) ==
    /\ listing[t].pc = "store"
    /\ \E kept \in Trimmed([facets EXCEPT ![listing[t].scope] =
                              [stamp |-> now, computed |-> listing[t].computed]]) :
          facets' = kept
    /\ listing' = [listing EXCEPT ![t].pc = "answered"]
    /\ UNCHANGED <<now, load, changed>>

\* Mutant: nothing is dropped.
FacetsStoreAll(t) ==
    /\ listing[t].pc = "store"
    /\ facets' = [facets EXCEPT ![listing[t].scope] =
                     [stamp |-> listing[t].stamp, computed |-> listing[t].computed]]
    /\ listing' = [listing EXCEPT ![t].pc = "answered"]
    /\ UNCHANGED <<now, load, changed>>

\* The entry carries the time the request read before it computed.
FacetsStore(t) ==
    /\ listing[t].pc = "store"
    /\ \E kept \in Trimmed([facets EXCEPT ![listing[t].scope] =
                              [stamp |-> listing[t].stamp,
                               computed |-> listing[t].computed]]) :
          facets' = kept
    /\ listing' = [listing EXCEPT ![t].pc = "answered"]
    /\ UNCHANGED <<now, load, changed>>

\* A SELECT fails: the request fails, and nothing is stored.
FacetsError(t) ==
    /\ listing[t].pc \in {"options", "prices"}
    /\ listing' = [listing EXCEPT ![t] = NoListing]
    /\ UNCHANGED <<now, load, changed, facets>>

FacetNext ==
    \/ CatalogChange
    \/ \E t \in Threads :
          \/ \E s \in Scopes : FacetsStart(t, s)
          \/ FacetsHit(t) \/ FacetsMiss(t)
          \/ ComputeOptions(t) \/ ComputePrices(t)
          \/ FacetsStore(t) \/ FacetsError(t)

FacetSpec ==
    /\ ClockInit /\ FacetInit
    /\ [][FacetNext \/ (Tick /\ UNCHANGED facetVars)]_<<clockVars, facetVars>>

-----------------------------------------------------------------------------

FacetTypeOK ==
    /\ DOMAIN changed = 1..Version /\ Version \in Versions
    /\ \A v \in 1..Version : changed[v] \in 0..now
    /\ facets \in [Scopes -> Entry \cup {None}]
    /\ listing \in [Threads -> Listing]

\* "An admin's newly added size still reaches the filter panel within the minute"
\* (config.py, FACET_CACHE_SECONDS): a request that read the clock a time to live
\* or more after a change gets facets whose every part has seen the change,
\* however slowly other requests computed and stored theirs.
ChangeWithinTheMinute ==
    \A t \in Threads, v \in 1..Version :
        listing[t].pc = "answered" /\ changed[v] + Ttl <= listing[t].stamp =>
            /\ listing[t].computed.options >= v
            /\ listing[t].computed.prices >= v

\* The cache never keeps more than its maximum of entries: its keys are whatever
\* callers search for.
CacheBounded == Cardinality({s \in Scopes : Cached(s)}) <= MaxEntries
=============================================================================
