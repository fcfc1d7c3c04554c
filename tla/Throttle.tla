------------------------------- MODULE Throttle -------------------------------
(***************************************************************************)
(* The in-memory limiter of attempts at a private event's passkey          *)
(* (internal/lib/ratelimit/ratelimit.go): a token bucket per key, made on  *)
(* the key's first attempt and dropped by a sweeper once it is idle.       *)
(*                                                                         *)
(* Tokens are counted in grains: a bucket gains one grain each instant and *)
(* an attempt takes Token of them, so that a fraction of a token is kept.  *)
(***************************************************************************)
EXTENDS Integers

CONSTANTS
    Callers,     \* keys: an address and an event
    Burst,       \* grains of a full bucket: ten tokens in the code
    Token,       \* grains of a token: six seconds' worth in the code
    IdleFor,     \* the sweeper's patience: fifteen minutes in the code
    ThrottleEnd, \* bound: the clock
    NoBucket

\* A bucket is full again long before it counts as idle.
ASSUME ThrottleAssumption ==
    /\ Burst \in Nat /\ Token \in Nat \ {0} /\ ThrottleEnd \in Nat
    /\ IdleFor \in Nat /\ IdleFor >= Burst
    /\ NoBucket \notin [tokens: Nat, last: Nat, seen: Nat]

VARIABLES
    buckets,  \* each caller's bucket: its tokens at `last`, and when it was seen
    granted,  \* grains each caller was granted so far
    instant   \* the clock

thVars == <<buckets, granted, instant>>

ThrottleTypeOK ==
    /\ instant \in Nat
    /\ granted \in [Callers -> Nat]
    /\ buckets \in [Callers -> [tokens: 0..Burst, last: 0..instant, seen: 0..instant] \cup {NoBucket}]

ThrottleInit ==
    /\ buckets = [k \in Callers |-> NoBucket]
    /\ granted = [k \in Callers |-> 0]
    /\ instant = 0

Capped(n) == IF n > Burst THEN Burst ELSE n

\* NewLimiter makes a full bucket.
Bucket(k) == IF buckets[k] = NoBucket THEN [tokens |-> Burst, last |-> instant, seen |-> instant]
             ELSE buckets[k]

\* What the bucket would hold now; a refused attempt does not write it.
Level(k) == Capped(Bucket(k).tokens + instant - Bucket(k).last)

Allow(k) ==
    /\ Level(k) >= Token
    /\ buckets' = [buckets EXCEPT ![k] = [tokens |-> Level(k) - Token, last |-> instant, seen |-> instant]]
    /\ granted' = [granted EXCEPT ![k] = @ + Token]
    /\ UNCHANGED instant

Refuse(k) ==
    /\ Level(k) < Token
    /\ buckets' = [buckets EXCEPT ![k] = [Bucket(k) EXCEPT !.seen = instant]]
    /\ UNCHANGED <<granted, instant>>

\* Fault: a bucket is idle whenever nobody is asking.
DormantAtOnce(k) == buckets[k].seen < instant
Dormant(k)       == instant - buckets[k].seen > IdleFor

\* cleanupLoop, at any time: its ticker and its pass over the map are free.
Sweep(k) ==
    /\ buckets[k] # NoBucket /\ Dormant(k)
    /\ buckets' = [buckets EXCEPT ![k] = NoBucket]
    /\ UNCHANGED <<granted, instant>>

Elapse ==
    /\ instant < ThrottleEnd
    /\ instant' = instant + 1
    /\ UNCHANGED <<buckets, granted>>

ThrottleNext ==
    \/ \E k \in Callers : Allow(k) \/ Refuse(k) \/ Sweep(k)
    \/ Elapse

ThrottleSpec == ThrottleInit /\ [][ThrottleNext]_thVars

------------------------------------------------------------------------------
(* Properties.                                                             *)

\* However often a caller's bucket is dropped and made anew, it was granted no
\* more than one full bucket and what has trickled in since the start, less what
\* it still holds: forgetting a caller never hands out a token.
GrantsBounded == \A k \in Callers : granted[k] + Level(k) <= Burst + instant

==============================================================================
