----------------------------- MODULE RateLimit ------------------------------
(***************************************************************************)
(* The token bucket of the file server (rate_limit.c).  A second is        *)
(* PerSecond ticks; tokens are counted in units of byte/PerSecond, so a    *)
(* tick adds refill_rate units, the bucket holds rate * PerSecond of them  *)
(* and a byte costs PerSecond.  elapsed is the time since last_refill; what *)
(* exceeds a second fills the bucket anyway.  Rates are positive, as       *)
(* rate_limiter_create demands.                                            *)
(***************************************************************************)
EXTENDS Integers, Sequences, FiniteSetsExt

CONSTANTS
    Callers,
    Rates,       \* bytes per second
    Bytes,       \* sizes asked for
    PerSecond,
    MaxCalls,    \* bound on the calls of one caller
    MaxSets,     \* bound on set_rate
    Window       \* ticks remembered by the history

VARIABLES
    tokens, rate, elapsed,   \* rate stands for refill_rate and max_tokens
    want,     \* bytes each caller waits for, 0 if it is not in consume
    sleep,    \* ticks it still sleeps
    calls, sets,
    granted   \* history: units granted in each of the last Window ticks

bucket == <<tokens, rate, elapsed>>
vars == <<bucket, want, sleep, calls, sets, granted>>

TopRate == Max(Rates)
Size == rate * PerSecond

Init ==
    /\ rate \in Rates
    /\ tokens = rate * PerSecond
    /\ elapsed = 0
    /\ want = [c \in Callers |-> 0]
    /\ sleep = [c \in Callers |-> 0]
    /\ calls = [c \in Callers |-> 0] /\ sets = 0
    /\ granted = [i \in 1 .. Window |-> 0]

\* Mutant: the bucket is not bounded.
RefilledUnbounded == tokens + elapsed * rate
\* refill_tokens; last_refill becomes now.
Refilled == Min({tokens + elapsed * rate, Size})

Grant(b) ==
    /\ tokens' = Refilled - b * PerSecond
    /\ granted' = [granted EXCEPT ![Window] = @ + b * PerSecond]

\* One turn of the loop in rate_limiter_consume, under the lock.
Check(c, b) ==
    /\ elapsed' = 0
    /\ IF Refilled >= b * PerSecond
       THEN Grant(b) /\ want' = [want EXCEPT ![c] = 0] /\ UNCHANGED sleep
       ELSE /\ tokens' = Refilled
            /\ want' = [want EXCEPT ![c] = b]
            /\ sleep' = [sleep EXCEPT ![c] = (b * PerSecond - Refilled) \div rate]
            /\ UNCHANGED granted

Consume(c) ==
    /\ want[c] = 0 /\ calls[c] < MaxCalls
    /\ calls' = [calls EXCEPT ![c] = @ + 1]
    /\ \E b \in Bytes : Check(c, b)
    /\ UNCHANGED <<rate, sets>>

Awake(c) ==
    /\ want[c] # 0 /\ sleep[c] = 0
    /\ Check(c, want[c])
    /\ UNCHANGED <<rate, calls, sets>>

\* rate_limiter_try_consume
TryConsume(c) ==
    /\ want[c] = 0 /\ calls[c] < MaxCalls
    /\ calls' = [calls EXCEPT ![c] = @ + 1]
    /\ elapsed' = 0
    /\ \E b \in Bytes :
           IF Refilled >= b * PerSecond THEN Grant(b) ELSE tokens' = Refilled /\ UNCHANGED granted
    /\ UNCHANGED <<rate, want, sleep, sets>>

\* rate_limiter_set_rate: the time since last_refill is not settled first.
SetRate(r) ==
    /\ sets < MaxSets /\ sets' = sets + 1
    /\ rate' = r
    /\ tokens' = Min({tokens, r * PerSecond})
    /\ UNCHANGED <<elapsed, want, sleep, calls, granted>>

Tick ==
    /\ elapsed' = Min({elapsed + 1, PerSecond})
    /\ sleep' = [c \in Callers |-> Max({sleep[c] - 1, 0})]
    /\ granted' = Append(Tail(granted), 0)
    /\ UNCHANGED <<tokens, rate, want, calls, sets>>

Next ==
    \/ \E c \in Callers : Consume(c) \/ Awake(c) \/ TryConsume(c)
    \/ \E r \in Rates : SetRate(r)
    \/ Tick

Spec == Init /\ [][Next]_vars
Fairness == WF_vars(Tick) /\ \A c \in Callers : WF_vars(Awake(c))

-----------------------------------------------------------------------------
SumLast(n) == MapThenSumSet(LAMBDA i : granted[i], (Window - n + 1) .. Window)

\* In every stretch of time, whoever asked and however the rate was changed, no
\* more is granted than a full bucket and what flows in at the highest rate.
NeverAboveRate ==
    \A n \in 1 .. Window : SumLast(n) <= TopRate * PerSecond + TopRate * (n - 1)
=============================================================================
