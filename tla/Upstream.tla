-------------------------------- MODULE Upstream --------------------------------
(* One request of a Google client (gmail, calendar, contacts, drive: the same   *)
(* wrapper four times): the daily budget of the project, the token bucket of    *)
(* the account, then up to MaxRetries + 1 attempts with backoff, a forced token *)
(* refresh on 401 and one more round of attempts.                               *)
(*                                                                              *)
(* Buckets and sleeps use the monotonic clock `clock`, in ticks; the daily      *)
(* counter uses the wall clock, which an operator or NTP may set back.          *)
EXTENDS Integers, FiniteSets, Sequences

CONSTANTS Calls,          \* requests made by the clients
          Account,        \* call -> account alias
          Capacity,       \* GMAIL_CAPACITY, units
          RefillPerSec,   \* GMAIL_REFILL_PER_SEC
          Micro,          \* micro-units in a unit, microseconds in a second
          TicksPerMicro,  \* ticks of the clock in a microsecond
          ProjectDaily,   \* per_project_daily_units
          DayTicks,       \* ticks in a UTC day
          MaxRetries,     \* RetryPolicy: max_retries
          BaseDelay,      \*   and base_delay, in ticks
          RetryAfters,    \* Retry-After headers seen, in seconds
          MaxClock, MaxFaults

VARIABLES clock, skew,    \* monotonic time; wall clock minus monotonic time
          flaky,          \* calls whose answers may be bad or lost
          wired,          \* clients whose builder got a project quota registry
          bucket, project,
          rq,             \* call -> the request it is making
          granted,        \* service, account -> units granted since `booted`
          spent,          \* UTC day -> units granted of the project since `booted`
          booted,
          faults

upstreamVars == <<clock, skew, flaky, wired, bucket, project, rq, granted, spent, booted, faults>>

ASSUME UpstreamAssumption ==
    /\ {Capacity, ProjectDaily, MaxRetries, MaxClock, MaxFaults} \subseteq Nat
    /\ {RefillPerSec, Micro, TicksPerMicro, DayTicks, BaseDelay} \subseteq Nat \ {0}
    /\ RetryAfters \subseteq Nat

Accounts == {Account[c] : c \in Calls}
Services == {"gmail", "calendar", "contacts", "drive"}
TicksPerSec == Micro * TicksPerMicro
Wall == clock + skew

Least(a, b) == IF a < b THEN a ELSE b
Most(a, b) == IF a > b THEN a ELSE b

Cost(method) ==
    CASE method = "messages.send" -> 100 [] method = "batchModify" -> 50
      [] method = "threads.get" -> 40 [] method \in {"messages.get", "threads.trash"} -> 20
      [] method \in {"threads.list", "threads.modify"} -> 10 [] method = "attachments.get" -> 5
      [] method = "history.list" -> 2 [] method \in {"getProfile", "labels.list"} -> 1

--------------------------------------------------------------------------------
(* The token bucket of an account *)

FullBucket == [tokens |-> Capacity * Micro, last |-> clock]

(* Mutant: a microsecond that has begun counts as a whole one.                  *)
RefilledCeil(b, now) ==
    IF now = b.last THEN b
    ELSE LET micros == (now - b.last + TicksPerMicro - 1) \div TicksPerMicro
             added == (RefillPerSec * Micro * micros) \div Micro IN
         [tokens |-> Least(b.tokens + added, Capacity * Micro), last |-> now]

(* What the elapsed whole microseconds add, up to the capacity. *)
Refilled(b, now) ==
    IF now = b.last THEN b
    ELSE LET added == (RefillPerSec * Micro * ((now - b.last) \div TicksPerMicro)) \div Micro IN
         [tokens |-> Least(b.tokens + added, Capacity * Micro), last |-> now]

Affords(b, cost) == b.tokens >= cost * Micro

(* Mutant: the seconds to wait are rounded down.                                *)
RetryAfterFloor(b, cost) ==
    Most(1, (cost * Micro - b.tokens) \div (RefillPerSec * Micro))

(* Seconds until the deficit is refilled, rounded up. *)
RetryAfter(b, cost) ==
    LET perSec == RefillPerSec * Micro IN
    Most(1, (cost * Micro - b.tokens + perSec - 1) \div perSec)

--------------------------------------------------------------------------------
(* The daily counter of a project *)

Today == Wall \div DayTicks

Renewed(p) == IF Today > p.day THEN [used |-> 0, day |-> Today] ELSE p

DailyRoom(p, cost) == Renewed(p).used + cost <= ProjectDaily
Charged(p, cost) == [Renewed(p) EXCEPT !.used = @ + cost]

\* `spent` with what was granted today.
SpentToday(cost) ==
    [d \in DOMAIN spent \cup {Today} |->
        (IF d \in DOMAIN spent THEN spent[d] ELSE 0) + (IF d = Today THEN cost ELSE 0)]

SecondsToMidnight == Most(1, ((Today + 1) * DayTicks - Wall) \div TicksPerSec)

--------------------------------------------------------------------------------
(* The request *)

NoRequest == [at |-> "idle", service |-> "gmail", cost |-> 0, attempt |-> 0,
              forced |-> FALSE, wake |-> 0]

Asking(service, cost) == [at |-> "quota", service |-> service, cost |-> cost, attempt |-> 0,
                          forced |-> FALSE, wake |-> 0]

InFlight(c) == rq[c].at \notin {"idle", "ok", "limited", "auth", "error"}

(* quota_check: the project first, then the account; the first is not given     *)
(* back when the second refuses. The code reads the clock before it takes each  *)
(* lock; since no charge turns the day back, one that waits for the lock over   *)
(* midnight counts as if it had come before or after it, as it does in one step.*)
QuotaCheck(c) ==
    LET s == rq[c].service
        a == Account[c]
        b == Refilled(bucket[s][a], clock)
        counts == s \in wired
        room == counts => DailyRoom(project, rq[c].cost)
    IN
    /\ rq[c].at = "quota"
    /\ project' = IF ~counts THEN project
                  ELSE IF room THEN Charged(project, rq[c].cost) ELSE Renewed(project)
    /\ IF room /\ Affords(b, rq[c].cost)
       THEN /\ bucket' = [bucket EXCEPT ![s][a] = [b EXCEPT !.tokens = @ - rq[c].cost * Micro]]
            /\ granted' = [granted EXCEPT ![s][a] = @ + rq[c].cost]
            /\ spent' = IF counts THEN SpentToday(rq[c].cost) ELSE spent
            /\ rq' = [rq EXCEPT ![c].at = "send"]
       ELSE /\ bucket' = IF room THEN [bucket EXCEPT ![s][a] = b] ELSE bucket
            /\ UNCHANGED <<granted, spent>>
            /\ rq' = [rq EXCEPT ![c].at = "limited",
                                ![c].wake = clock + TicksPerSec *
                                   (IF room THEN RetryAfter(b, rq[c].cost) ELSE SecondsToMidnight)]
    /\ UNCHANGED <<clock, skew, flaky, wired, booted, faults>>

Retryable(answer) == answer \in {"429", "5xx", "network"}

(* backoff_with_jitter and Retry-After: the delays an answer may lead to. *)
Delays(answer, attempt) ==
    LET base == BaseDelay * 2 ^ Least(attempt, 10) IN
    (base .. base + BaseDelay - 1)
    \cup (IF answer = "429" THEN {s * TicksPerSec : s \in RetryAfters} ELSE {})

(* Mutant: a lost answer is retried at once and not counted.                    *)
AfterUncounted(c, answer, delay) ==
    CASE answer = "ok" -> [rq[c] EXCEPT !.at = "ok"]
      [] answer = "noauth" \/ (answer = "401" /\ rq[c].forced) -> [rq[c] EXCEPT !.at = "auth"]
      [] answer = "401" /\ ~rq[c].forced -> [rq[c] EXCEPT !.forced = TRUE, !.attempt = 0]
      [] Retryable(answer) /\ rq[c].attempt < MaxRetries ->
            IF answer = "network" THEN [rq[c] EXCEPT !.at = "sleep", !.wake = clock]
            ELSE [rq[c] EXCEPT !.at = "sleep", !.wake = clock + delay, !.attempt = @ + 1]
      [] OTHER -> [rq[c] EXCEPT !.at = "error"]

(* execute_with_retry and send_with_401_fallback after an answer. *)
After(c, answer, delay) ==
    CASE answer = "ok" -> [rq[c] EXCEPT !.at = "ok"]
      [] answer = "noauth" \/ (answer = "401" /\ rq[c].forced) -> [rq[c] EXCEPT !.at = "auth"]
      [] answer = "401" /\ ~rq[c].forced -> [rq[c] EXCEPT !.forced = TRUE, !.attempt = 0]
      [] Retryable(answer) /\ rq[c].attempt < MaxRetries ->
            [rq[c] EXCEPT !.at = "sleep", !.wake = clock + delay, !.attempt = @ + 1]
      [] OTHER -> [rq[c] EXCEPT !.at = "error"]

(* One attempt; before the first of a round comes access_token or force_refresh, *)
(* which may fail. Google may have done what was asked of it (`took`) although the *)
(* answer is a 5xx, is lost (timeout, reset) or does not parse.                 *)
Exchange(c, answer, took) ==
    /\ rq[c].at = "send"
    /\ answer = "ok" => took
    /\ answer \in {"noauth", "401", "429", "4xx"} => ~took
    /\ answer = "noauth" => rq[c].attempt = 0
    /\ \E delay \in Delays(answer, rq[c].attempt) :
          rq' = [rq EXCEPT ![c] = After(c, answer, delay)]
    /\ c \notin flaky => answer = "ok"
    /\ UNCHANGED <<clock, skew, flaky, wired, bucket, project, granted, spent, booted, faults>>

Answers == {"ok", "garbled", "noauth", "401", "429", "4xx", "5xx", "network"}

Wake(c) ==
    /\ rq[c].at = "sleep" /\ clock >= rq[c].wake
    /\ rq' = [rq EXCEPT ![c].at = "send"]
    /\ UNCHANGED <<clock, skew, flaky, wired, bucket, project, granted, spent, booted, faults>>

(* Time passes; MaxClock bounds it once every sleep is over. *)
Tick ==
    /\ clock < MaxClock \/ \E c \in Calls : rq[c].at = "sleep" /\ clock < rq[c].wake
    /\ clock' = clock + 1
    /\ UNCHANGED <<skew, flaky, wired, bucket, project, rq, granted, spent, booted, faults>>

(* The wall clock is set back by a tick. *)
StepBack ==
    /\ faults < MaxFaults /\ Wall > 0
    /\ skew' = skew - 1
    /\ faults' = faults + 1
    /\ UNCHANGED <<clock, flaky, wired, bucket, project, rq, granted, spent, booted>>

UpstreamInit ==
    /\ clock = 0 /\ skew = 0 /\ booted = 0
    /\ faults \in 0 .. MaxFaults
    /\ flaky \subseteq Calls /\ wired \subseteq Services
    /\ bucket = [s \in Services |-> [a \in Accounts |-> FullBucket]]
    /\ project = [used |-> 0, day |-> Today]
    /\ rq = [c \in Calls |-> NoRequest]
    /\ granted = [s \in Services |-> [a \in Accounts |-> 0]]
    /\ spent = <<>>

(* A new process: every budget is full again. *)
UpstreamRestart ==
    /\ faults < MaxFaults
    /\ faults' = faults + 1
    /\ bucket' = [s \in Services |-> [a \in Accounts |-> FullBucket]]
    /\ project' = [used |-> 0, day |-> Today]
    /\ rq' = [c \in Calls |-> NoRequest]
    /\ granted' = [s \in Services |-> [a \in Accounts |-> 0]]
    /\ spent' = <<>>
    /\ booted' = clock
    /\ UNCHANGED <<clock, skew, flaky, wired>>
================================================================================
