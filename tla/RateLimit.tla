----------------------------- MODULE RateLimit ------------------------------
(***************************************************************************)
(* PlatformStore.rate() of platform/store.py: one row of the rates table,  *)
(* counted by the threads and processes that serve requests under one key  *)
(* ("api:<user>", "submit:<user>", "login:<client>").                      *)
(*                                                                         *)
(* rate() computes the bucket from the clock and opens its transaction     *)
(* afterwards: BEGIN IMMEDIATE may wait for other writers, and the next    *)
(* bucket may begin meanwhile.  Time is counted in buckets.                *)
(***************************************************************************)
EXTENDS Naturals

CONSTANTS
    Threads,       \* callers
    Limit,
    MaxBucket      \* bound on the clock

ASSUME LimitAssumption  == Limit \in Nat \ {0}
ASSUME BucketAssumption == MaxBucket \in Nat

VARIABLES
    now,           \* the bucket of the clock
    row,           \* the row: its bucket and count; the count 0 is no row
    read,          \* the bucket a thread computed
    waiting,       \* the threads that wait for their transaction
    admitted,      \* history: calls admitted, by the bucket they computed,
    refused,       \* buckets in which one was refused,
    straddled      \* and those a call was counted too late for, or too late in

rateVars == <<now, row, read, waiting, admitted, refused, straddled>>

Buckets == 0 .. MaxBucket

\* The row, the callers and the history are well typed.
RateTypeOK ==
    /\ now \in Buckets
    /\ row \in [bucket: Buckets, count: 0 .. Limit + 1]
    /\ read \in [Threads -> Buckets]
    /\ waiting \subseteq Threads
    /\ admitted \in [Buckets -> Nat]
    /\ refused \subseteq Buckets /\ straddled \subseteq Buckets

RateInit ==
    /\ now = 0
    /\ row = [bucket |-> 0, count |-> 0]
    /\ read = [t \in Threads |-> 0]
    /\ waiting = {}
    /\ admitted = [b \in Buckets |-> 0]
    /\ refused = {} /\ straddled = {}

\* The clock is taken to be monotonic.
Tick ==
    /\ now < MaxBucket
    /\ now' = now + 1
    /\ UNCHANGED <<row, read, waiting, admitted, refused, straddled>>

ReadClock(t) ==
    /\ t \notin waiting
    /\ waiting' = waiting \cup {t}
    /\ read' = [read EXCEPT ![t] = now]
    /\ UNCHANGED <<now, row, admitted, refused, straddled>>

\* The DELETE of the transaction, which clears old rows of any key.
Removed(b) == row.bucket + 2 < b

\* A count above the limit stands for all of them: nothing tells them apart.
OneMore == IF row.count > Limit THEN row.count ELSE row.count + 1

CountRestartsFull(b) == IF row.bucket = b /\ row.count < Limit              \* mutant
                        THEN row.count + 1 ELSE 1

\* A row of another bucket, be it older or younger, starts again.
Count(b) == IF row.bucket = b /\ ~Removed(b) THEN OneMore ELSE 1

\* The transaction writes the count and then admits by it.
Call(t) ==
    LET b == read[t]
    IN /\ t \in waiting
       /\ waiting' = waiting \ {t}
       /\ row' = [bucket |-> b, count |-> Count(b)]
       /\ IF Count(b) <= Limit
          THEN admitted' = [admitted EXCEPT ![b] = @ + 1] /\ UNCHANGED refused
          ELSE refused' = refused \cup {b} /\ UNCHANGED admitted
       /\ straddled' = IF b = now THEN straddled ELSE straddled \cup {b, now}
       /\ UNCHANGED <<now, read>>

RateNext == Tick \/ \E t \in Threads : ReadClock(t) \/ Call(t)

RateSpec == RateInit /\ [][RateNext]_rateVars

-----------------------------------------------------------------------------
\* However calls interleave, no more than the limit are admitted in one bucket,
\* unless a call straddles two: it takes the row back to its own bucket, and the
\* next call of the younger one starts to count again ("Rate limits cover login,
\* submissions and authenticated requests", docs/platform.md:32).
LimitHolds == \A b \in Buckets : admitted[b] > Limit => b \in straddled

\* A call is refused only in a bucket that has admitted its limit: what happened
\* in other buckets is never held against it, whoever straddles them.
RefusedMeansFull == \A b \in refused : admitted[b] >= Limit
=============================================================================
