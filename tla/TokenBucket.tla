------------------------------ MODULE TokenBucket ------------------------------
(***************************************************************************)
(* The token bucket that limits the rate of a read.  Time is in the units  *)
(* the code counts in (milliseconds, Den of them to the second), and every *)
(* unsigned value wraps at Modulus, which stands for 2^64; durations are   *)
(* signed values of the same width.                                        *)
(***************************************************************************)
EXTENDS Integers, FiniteSetsExt

CONSTANTS
    TokenModulus,   \* of size_t and uint64_t
    Den,       \* std::milli::den
    Rates,     \* tokens per second, one of which is used
    Timeouts,  \* of consume_tokens
    MaxTime    \* bound of the clock

ASSUME BucketAssumption ==
    /\ {TokenModulus, Den, MaxTime} \union Rates \subseteq Nat \ {0}
    /\ Timeouts \subseteq Nat
    /\ \E longest \in Timeouts : \A t \in Timeouts : t <= longest
    /\ TokenModulus = 2 * (TokenModulus \div 2)
    /\ \A r \in Rates : (r * (MaxTime + Den) < TokenModulus \div 2) /\ (Den * r < TokenModulus \div 2)

VARIABLES
    rate, tokens, timestamp,
    now,
    wake,      \* when the call that was made returns
    owed,      \* what that call will have taken then
    taken,     \* what all calls have taken
    success    \* when the last successful call returned

bucket_vars == <<rate, tokens, timestamp, now, wake, owed, taken, success>>

capacity == rate
Unsigned(x) == x % TokenModulus
Signed(x) == IF x < TokenModulus \div 2 THEN x ELSE x - TokenModulus

(* What has been earned by a time, the time of the last success being      *)
(* timestamp.                                                              *)
TokensAt(time) ==
    Min({capacity, Unsigned(tokens + Unsigned(rate * Unsigned(time - timestamp)) \div Den)})

(* The wait for what is missing: it is subtracted the wrong way round, so  *)
(* the difference wraps.                                                   *)
Missing(required) == Signed(Unsigned(Den * Unsigned(tokens - required)) \div rate)

(* A plausible bug: a success found while waiting is not charged.          *)
consume_tokens_free(required, timeout) ==
    LET final == now + Min({Missing(required), timeout})
    IN  CASE required > capacity ->
               [ok |-> FALSE, tokens |-> tokens, timestamp |-> timestamp, wake |-> now]
          [] required <= capacity /\ TokensAt(now) >= required ->
               [ok |-> TRUE, tokens |-> TokensAt(now) - required, timestamp |-> now, wake |-> now]
          [] required <= capacity /\ TokensAt(now) < required /\ TokensAt(final) >= required ->
               [ok |-> TRUE, tokens |-> TokensAt(final), timestamp |-> final, wake |-> final]
          [] OTHER ->
               [ok |-> FALSE, tokens |-> tokens, timestamp |-> timestamp, wake |-> final]

consume_tokens(required, timeout) ==
    LET final == now + Min({Missing(required), timeout})
    IN  CASE required > capacity ->
               [ok |-> FALSE, tokens |-> tokens, timestamp |-> timestamp, wake |-> now]
          [] required <= capacity /\ TokensAt(now) >= required ->
               [ok |-> TRUE, tokens |-> TokensAt(now) - required, timestamp |-> now, wake |-> now]
          [] required <= capacity /\ TokensAt(now) < required /\ TokensAt(final) >= required ->
               [ok |-> TRUE, tokens |-> TokensAt(final) - required, timestamp |-> final, wake |-> final]
          [] OTHER ->
               [ok |-> FALSE, tokens |-> tokens, timestamp |-> timestamp, wake |-> final]

BucketInit ==
    /\ rate \in Rates
    /\ tokens = capacity
    /\ timestamp = 0
    /\ now = 0
    /\ wake = 0
    /\ owed = 0
    /\ taken = 0
    /\ success = 0

(* A call returns when the clock has reached wake; what it took counts     *)
(* from then on.                                                           *)
Consume(required, timeout) ==
    /\ now >= wake
    /\ LET r == consume_tokens(required, timeout)
       IN  /\ tokens' = r.tokens
           /\ timestamp' = r.timestamp
           /\ wake' = r.wake
           /\ owed' = IF r.ok /\ r.wake > now THEN required ELSE 0
           /\ taken' = taken + owed + (IF r.ok /\ r.wake <= now THEN required ELSE 0)
           /\ success' = IF r.ok THEN r.wake ELSE success
    /\ UNCHANGED <<rate, now>>

Tick ==
    /\ now < MaxTime
    /\ now' = now + 1
    /\ UNCHANGED <<rate, tokens, timestamp, wake, owed, taken, success>>

BucketNext ==
    \/ \E required \in 1 .. capacity + 1, timeout \in Timeouts : Consume(required, timeout)
    \/ Tick

BucketSpec == BucketInit /\ [][BucketNext]_bucket_vars

--------------------------------------------------------------------------------
BucketTypeOK ==
    /\ rate \in Rates
    /\ tokens \in 0 .. capacity
    /\ {timestamp, now, wake} \subseteq 0 .. MaxTime + Max(Timeouts)
    /\ {owed, taken, success} \subseteq Nat

(* However requests of all sizes, waits and failures follow each other, no *)
(* more is taken than the full bucket at the start and the rate since      *)
(* (TokenBucket::consume_tokens).                                          *)
RateKept == (taken - capacity) * Den <= rate * now

(* A request succeeds without a wait once its tokens were earned since the *)
(* last success, however often smaller and larger ones were tried and      *)
(* failed in between (TokenBucket::consume_tokens).                        *)
TriesDoNotStarve ==
    \A required \in 1 .. capacity :
        (now >= wake /\ rate * (now - success) >= Den * required) => consume_tokens(required, 0).ok

(* The rate is kept, and nobody who has waited long enough is refused.     *)
BucketInv == BucketTypeOK /\ RateKept /\ TriesDoNotStarve
================================================================================
