----------------------------- MODULE RateLimiter -----------------------------
(***************************************************************************)
(* services/rate_limit.py: fixed-window counting of the requests of a      *)
(* bucket (the limit's name and the client's address).  `hit` reads the    *)
(* clock, then counts in a transaction of its own, on a connection of its  *)
(* own: one UPSERT, which takes the row's lock and holds it to the commit, *)
(* and a DELETE of the bucket's older windows, which waits for the locks   *)
(* of the rows it sees.  If the transaction fails the request is let       *)
(* through uncounted.                                                      *)
(***************************************************************************)
EXTENDS Clock

CONSTANTS
    Buckets,
    Allowance,      \* how many requests a window allows
    WindowSeconds,  \* the length of a window
    MaxHits         \* a bound: no more requests arrive in a window that has this many

ASSUME LimiterAssumption ==
    /\ Allowance \in Nat /\ WindowSeconds \in Nat \ {0} /\ MaxHits \in Nat

VARIABLES
    counter,   \* rate_limit_counters: the hits of a window, 0 for no row
    rowLock,   \* the transaction that holds a row
    call,      \* the call of hit each thread is in
    passed     \* history: the requests hit let through, by their window

limiterVars == <<counter, rowLock, call, passed>>

\* _window_start: the time, floored to the start of its window.
window_start(t) == t - (t % WindowSeconds)

\* The windows of a run, named by their start.
Windows == {window_start(t) : t \in 0..MaxTime}

Call == [pc : {"idle", "stamped", "counted"}, bucket : Buckets \cup {None},
         stamp : 0..MaxTime, hits : Nat]

NoCall == [pc |-> "idle", bucket |-> None, stamp |-> 0, hits |-> 0]

WindowOf(t) == window_start(call[t].stamp)

LimiterInit ==
    /\ counter = [b \in Buckets |-> [x \in Windows |-> 0]]
    /\ rowLock = [b \in Buckets |-> [x \in Windows |-> None]]
    /\ call = [t \in Threads |-> NoCall]
    /\ passed = [b \in Buckets |-> [x \in Windows |-> 0]]

\* The end of the transaction: its locks are dropped, the call is over.
EndCall(t) ==
    /\ rowLock' = [b \in Buckets |-> [x \in Windows |->
                     IF rowLock[b][x] = t THEN None ELSE rowLock[b][x]]]
    /\ call' = [call EXCEPT ![t] = NoCall]

\* limit's wrapper: a request for a limited endpoint reads the clock.
HitStart(t, b) ==
    /\ "limited" \in load /\ call[t].pc = "idle"
    /\ counter[b][window_start(now)] < MaxHits
    /\ call' = [call EXCEPT ![t] = [NoCall EXCEPT !.pc = "stamped",
                                       !.bucket = b, !.stamp = now]]
    /\ UNCHANGED <<now, load, counter, rowLock, passed>>

\* Mutant: the count is read and written back, and the row not locked.
UpsertPlain(t) ==
    /\ call[t].pc = "stamped"
    /\ call' = [call EXCEPT ![t].pc = "counted",
                  ![t].hits = counter[call[t].bucket][WindowOf(t)] + 1]
    /\ UNCHANGED <<now, load, counter, rowLock, passed>>

\* INSERT ... ON CONFLICT DO UPDATE SET hits = hits + 1 RETURNING hits.
Upsert(t) ==
    LET b == call[t].bucket
        x == WindowOf(t)
    IN  /\ call[t].pc = "stamped"
        /\ rowLock[b][x] = None
        /\ rowLock' = [rowLock EXCEPT ![b][x] = t]
        /\ call' = [call EXCEPT ![t].pc = "counted", ![t].hits = counter[b][x] + 1]
        /\ UNCHANGED <<now, load, counter, passed>>

\* The committed rows of older windows, which the DELETE removes.
Closed(b, x) == {y \in Windows : y < x /\ counter[b][y] > 0}

\* hit's answer is a wait, possibly of zero seconds, and not None: the request
\* is refused.
Spent(t) == call[t].hits > Allowance

\* The DELETE of the closed windows, and the commit; the answer follows.
HitCommit(t) ==
    LET b == call[t].bucket
        x == WindowOf(t)
    IN  /\ call[t].pc = "counted"
        /\ \A y \in Closed(b, x) : rowLock[b][y] = None
        /\ counter' = [counter EXCEPT ![b] =
               [y \in Windows |-> IF y = x THEN call[t].hits
                                  ELSE IF y \in Closed(b, x) THEN 0 ELSE @[y]]]
        /\ passed' = [passed EXCEPT ![b][x] = IF Spent(t) THEN @ ELSE @ + 1]
        /\ EndCall(t)
        /\ UNCHANGED <<now, load>>

\* SQLAlchemyError, or the thread dies: the transaction is rolled back, and
\* the request is either let through uncounted or lost.
HitError(t) ==
    /\ call[t].pc # "idle"
    /\ EndCall(t)
    /\ UNCHANGED <<now, load, counter, passed>>

\* prune-security-tables: DELETE WHERE window_start < now - longest.
PruneCounters ==
    /\ "prune" \in load
    /\ LET old == {r \in Buckets \X Windows :
                      counter[r[1]][r[2]] > 0 /\ r[2] < now - WindowSeconds}
       IN  /\ old # {}
           /\ \A r \in old : rowLock[r[1]][r[2]] = None
           /\ counter' = [b \in Buckets |-> [x \in Windows |->
                            IF <<b, x>> \in old THEN 0 ELSE counter[b][x]]]
    /\ UNCHANGED <<now, load, rowLock, call, passed>>

LimiterNext ==
    \/ \E t \in Threads :
          \/ \E b \in Buckets : HitStart(t, b)
          \/ Upsert(t) \/ HitCommit(t) \/ HitError(t)
    \/ PruneCounters

LimiterSpec ==
    /\ ClockInit /\ LimiterInit
    /\ [][LimiterNext \/ (Tick /\ UNCHANGED limiterVars)]_<<clockVars, limiterVars>>

-----------------------------------------------------------------------------

LimiterTypeOK ==
    /\ counter \in [Buckets -> [Windows -> Nat]]
    /\ rowLock \in [Buckets -> [Windows -> Threads \cup {None}]]
    /\ call \in [Threads -> Call]
    /\ passed \in [Buckets -> [Windows -> Nat]]

\* While a window is open no more requests are let through than it allows, with
\* any number of threads and processes counting at once.  Once it has closed its
\* row may be deleted, and the requests that read the clock before it closed and
\* have not counted yet start again from one: at most one more per thread.
AllowanceKept ==
    \A b \in Buckets, x \in Windows :
        passed[b][x] <= Allowance +
            (IF now < x + WindowSeconds THEN 0 ELSE Cardinality(Threads))
=============================================================================
