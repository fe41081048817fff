--------------------------- MODULE LoginRateLimit ---------------------------
(***************************************************************************)
(* The login's sliding window: each key ("<client ip>:<email>") has a       *)
(* bucket of its own, in memory, with the times of its attempts.  An        *)
(* attempt is let through, and put into the bucket, unless the bucket holds *)
(* MaxAttempts items of the last Window; a refused one leaves no item.      *)
(*                                                                          *)
(* pyrate-limiter also drops items that have left the window, which changes *)
(* no answer and is left out: a bucket holds all attempts since start-up.   *)
(***************************************************************************)
EXTENDS Integers, Sequences, FiniteSets
CONSTANTS Keys,
          MaxAttempts, Window,  \* MAX_ATTEMPTS, WINDOW_SECONDS
          MaxTime               \* bounds the clock

ASSUME RateAssumption == /\ MaxAttempts \in Nat \ {0}
                         /\ Window \in Nat /\ MaxTime \in Nat

VARIABLES
    clock,   \* time.time()
    bucket   \* the times in each key's InMemoryBucket, oldest first

limiter == <<clock, bucket>>

Empty == [k \in Keys |-> <<>>]

LimiterInit == clock = 0 /\ bucket = Empty

-----------------------------------------------------------------------------
\* Mutant: an item of the window's first instant no longer counts.
RecentStrict(key) ==
    {i \in DOMAIN bucket[key] : bucket[key][i] + Window > clock}

(* The items put() counts: those from `now - interval` on.                  *)
Recent(key) == {i \in DOMAIN bucket[key] : bucket[key][i] + Window >= clock}

Allowed(key) == Cardinality(Recent(key)) < MaxAttempts

(* is_allowed() of an attempt that is let through.                          *)
Acquire(key) ==
    /\ Allowed(key)
    /\ bucket' = [bucket EXCEPT ![key] = Append(@, clock)]
    /\ UNCHANGED clock

(* is_allowed() of one that is not.                                         *)
Deny(key) == ~Allowed(key) /\ UNCHANGED limiter

(* The process ends, and its buckets with it.                               *)
Forget == bucket' = Empty /\ UNCHANGED clock

Pass == /\ clock < MaxTime
        /\ clock' = clock + 1
        /\ UNCHANGED bucket

LimiterNext ==
    \/ Forget \/ Pass
    \/ \E key \in Keys : Acquire(key) \/ Deny(key)

LimiterSpec == LimiterInit /\ [][LimiterNext]_limiter

-----------------------------------------------------------------------------
LimiterTypeOK == clock \in Nat /\ bucket \in [Keys -> Seq(Nat)]

(* Whatever the pattern of attempts, and at the very edge of the window:    *)
(* any MaxAttempts + 1 attempts let through for one key by one process are  *)
(* more than a Window apart, so no Window ever holds more of them.          *)
AttemptsAreSpaced ==
    \A key \in Keys : \A i \in DOMAIN bucket[key] :
        i + MaxAttempts \in DOMAIN bucket[key] =>
            bucket[key][i + MaxAttempts] - bucket[key][i] > Window
=============================================================================
