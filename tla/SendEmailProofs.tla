---------------------------- MODULE SendEmailProofs ----------------------------
(* What the budgets and the deduplication window of SendEmail give, proved for  *)
(* every capacity, rate, clock, number of callers and plan.                     *)
EXTENDS SendEmail, TLAPS

--------------------------------------------------------------------------------
(* Integer division *)

LEMMA Quotient ==
    ASSUME NEW x \in Int, NEW k \in Nat \ {0}
    PROVE  /\ x \div k \in Int
           /\ k * (x \div k) <= x
           /\ x < k * (x \div k) + k
  OBVIOUS

(* The quotient is the greatest number whose product is not too large.          *)
LEMMA QuotientAbove ==
    ASSUME NEW x \in Int, NEW k \in Nat \ {0}, NEW q \in Int, k * q <= x
    PROVE  q <= x \div k
  <1> DEFINE d == x \div k
  <1>1. d \in Int /\ x < k * d + k
    BY Quotient
  <1>2. k * q < k * (d + 1)
    BY <1>1
  <1> HIDE DEF d
  <1>3. q < d + 1
    BY <1>1, <1>2
  <1> QED  BY <1>1, <1>3 DEF d

LEMMA QuotientOfMultiple ==
    ASSUME NEW x \in Int, NEW k \in Nat \ {0}
    PROVE  (k * x) \div k = x /\ (x * k) \div k = x
  <1> DEFINE d == (k * x) \div k
  <1>1. d \in Int /\ k * d <= k * x /\ k * x < k * d + k
    BY Quotient
  <1> HIDE DEF d
  <1>2. x <= d /\ d <= x
    BY <1>1
  <1>3. k * x = x * k
    OBVIOUS
  <1> QED  BY <1>1, <1>2, <1>3 DEF d

LEMMA QuotientMonotone ==
    ASSUME NEW x \in Int, NEW y \in Int, NEW k \in Nat \ {0}, x <= y
    PROVE  x \div k <= y \div k
  <1>1. x \div k \in Int /\ k * (x \div k) <= x
    BY Quotient
  <1> QED  BY <1>1, QuotientAbove

--------------------------------------------------------------------------------
(* The token bucket *)

Bucket == [tokens : 0 .. Capacity * Micro, last : Nat]

(* Micro-units that `n` ticks add.                                              *)
Added(n) == RefillPerSec * (n \div TicksPerMicro)

(* No rate is so low or elapsed time so short that the integers of refill would *)
(* add more than the time that passed, or take something away.                  *)
LEMMA RefillsAdd ==
    ASSUME NEW n \in Nat
    PROVE  /\ Added(n) \in Nat
           /\ (RefillPerSec * Micro * (n \div TicksPerMicro)) \div Micro = Added(n)
           /\ TicksPerMicro * Added(n) <= RefillPerSec * n
  <1> DEFINE q == n \div TicksPerMicro
  <1>0. RefillPerSec \in Nat \ {0} /\ Micro \in Nat \ {0} /\ TicksPerMicro \in Nat \ {0}
    BY UpstreamAssumption
  <1>1. q \in Int /\ TicksPerMicro * q <= n /\ n < TicksPerMicro * q + TicksPerMicro
    BY <1>0, Quotient
  <1> HIDE DEF q
  <1>2. q \in Nat
    <2>1. q < 0 => q + 1 <= 0
      BY <1>1
    <2>2. q + 1 <= 0 => TicksPerMicro * (q + 1) <= 0
      BY <1>0, <1>1
    <2> QED  BY <1>0, <1>1, <2>1, <2>2
  <1> DEFINE a == RefillPerSec * q
  <1>3. a \in Nat
    BY <1>0, <1>2
  <1>4. RefillPerSec * Micro * q = a * Micro
    BY <1>0, <1>2
  <1>5. TicksPerMicro * a <= RefillPerSec * n
    <2>1. TicksPerMicro * a = RefillPerSec * (TicksPerMicro * q)
      BY <1>0, <1>2
    <2>2. \A x, y \in Int : x <= y => RefillPerSec * x <= RefillPerSec * y
      BY <1>0
    <2>3. TicksPerMicro * q \in Int
      BY <1>0, <1>2
    <2> QED  BY <1>1, <2>1, <2>2, <2>3
  <1>6. Added(n) = a
    BY DEF Added, q
  <1> HIDE DEF a
  <1>7. (a * Micro) \div Micro = a
    BY <1>0, <1>3, QuotientOfMultiple
  <1> QED  BY <1>3, <1>4, <1>5, <1>6, <1>7 DEF q

(* What refill leaves: a bucket of this instant, within the capacity, with what  *)
(* the elapsed time added.                                                      *)
LEMMA RefilledBucket ==
    ASSUME NEW b \in Bucket, NEW now \in Nat, b.last <= now
    PROVE  /\ Refilled(b, now) \in Bucket /\ Refilled(b, now).last = now
           /\ Refilled(b, now).tokens = Least(b.tokens + Added(now - b.last), Capacity * Micro)
  <1> DEFINE n == now - b.last
             full == Capacity * Micro
  <1>0. Capacity \in Nat /\ Micro \in Nat \ {0}
    BY UpstreamAssumption
  <1>1. full \in Nat /\ b.tokens \in 0 .. full /\ b.last \in Nat /\ n \in Nat
    BY <1>0 DEF Bucket
  <1>2. Added(n) \in Nat /\ (RefillPerSec * Micro * (n \div TicksPerMicro)) \div Micro = Added(n)
    BY <1>1, RefillsAdd
  <1>3. b = [tokens |-> b.tokens, last |-> b.last]
    BY DEF Bucket
  <1>4. CASE now = b.last
    <2>1. Added(n) = 0
      <3>1. TicksPerMicro \in Nat \ {0} /\ RefillPerSec \in Nat
        BY UpstreamAssumption
      <3>2. (0 * TicksPerMicro) \div TicksPerMicro = 0
        BY <3>1, QuotientOfMultiple
      <3>3. 0 * TicksPerMicro = 0 /\ n = 0
        BY <1>4, <1>1, <3>1
      <3>4. n \div TicksPerMicro = 0
        BY <3>2, <3>3
      <3> QED  BY <3>1, <3>4 DEF Added
    <2>2. Least(b.tokens + 0, full) = b.tokens
      BY <1>1 DEF Least
    <2>3. Refilled(b, now) = b
      BY <1>4 DEF Refilled
    <2> QED  BY <1>4, <2>1, <2>2, <2>3
  <1>5. CASE now # b.last
    <2>1. Refilled(b, now) = [tokens |-> Least(b.tokens + Added(n), full), last |-> now]
      BY <1>2, <1>5 DEF Refilled
    <2>2. Least(b.tokens + Added(n), full) \in 0 .. full
      BY <1>1, <1>2 DEF Least
    <2> HIDE DEF n, full
    <2>3. Refilled(b, now) \in [tokens : 0 .. full, last : Nat]
      BY <2>1, <2>2
    <2> QED  BY <2>1, <2>3 DEF Bucket, full, n
  <1> QED  BY <1>4, <1>5

(* After `n` whole seconds exactly n times the rate has come in.                 *)
LEMMA AffordsLater ==
    ASSUME NEW b \in Bucket, NEW n \in Nat, NEW cost \in 0 .. Capacity
    PROVE  Affords(Refilled(b, b.last + n * TicksPerSec), cost)
              <=> b.tokens + RefillPerSec * Micro * n >= cost * Micro
  <1> DEFINE later == b.last + n * TicksPerSec
             full == Capacity * Micro
             per == RefillPerSec * Micro * n
  <1>0. /\ Capacity \in Nat /\ RefillPerSec \in Nat \ {0} /\ Micro \in Nat \ {0}
        /\ TicksPerMicro \in Nat \ {0}
    BY UpstreamAssumption
  <1>1. b.tokens \in Nat /\ b.tokens <= full /\ b.last \in Nat
    BY <1>0 DEF Bucket
  <1>2. n * TicksPerSec = (n * Micro) * TicksPerMicro /\ n * Micro \in Nat
    BY <1>0 DEF TicksPerSec
  <1>3. n * TicksPerSec \in Nat /\ later \in Nat /\ b.last <= later
        /\ later - b.last = n * TicksPerSec
    BY <1>0, <1>1, <1>2
  <1>4. (n * TicksPerSec) \div TicksPerMicro = n * Micro
    BY <1>0, <1>2, QuotientOfMultiple
  <1>5. Added(n * TicksPerSec) = per /\ per \in Nat
    BY <1>0, <1>4 DEF Added
  <1>6. Refilled(b, later).tokens = Least(b.tokens + per, full)
    <2> HIDE DEF later, per, full
    <2>1. Refilled(b, later).tokens = Least(b.tokens + Added(later - b.last), Capacity * Micro)
      BY <1>3, RefilledBucket
    <2> QED  BY <2>1, <1>3, <1>5 DEF full
  <1>7. cost * Micro <= full /\ cost * Micro \in Nat /\ full \in Nat
    BY <1>0
  <1> HIDE DEF later, per, full
  <1>8. Affords(Refilled(b, later), cost) <=> Least(b.tokens + per, full) >= cost * Micro
    BY <1>6 DEF Affords
  <1>9. Least(b.tokens + per, full) >= cost * Micro <=> b.tokens + per >= cost * Micro
    BY <1>1, <1>5, <1>7 DEF Least
  <1> QED  BY <1>8, <1>9 DEF later, per

(* The hint of a refusal is the least number of seconds that is enough.          *)
LEMMA HintIsLeast ==
    ASSUME NEW b \in Bucket, NEW cost \in 0 .. Capacity, ~Affords(b, cost)
    PROVE  LET secs == RetryAfter(b, cost)
               then(n) == Affords(Refilled(b, b.last + n * TicksPerSec), cost)
           IN  then(secs) /\ (secs = 1 \/ ~then(secs - 1))
  <1> DEFINE per == RefillPerSec * Micro
             want == cost * Micro - b.tokens
             q == (want + per - 1) \div per
  <1>0. Capacity \in Nat /\ RefillPerSec \in Nat \ {0} /\ Micro \in Nat \ {0}
    BY UpstreamAssumption
  <1>1. per \in Nat \ {0} /\ b.tokens \in Nat /\ cost * Micro \in Nat
    BY <1>0 DEF Bucket
  <1>2. want \in Nat \ {0}
    BY <1>1 DEF Affords
  <1>3. q \in Int /\ per * q <= want + per - 1 /\ want + per - 1 < per * q + per
    <2> HIDE DEF per, want
    <2> QED  BY <1>1, <1>2, Quotient
  <1>4. 1 <= q
    <2> HIDE DEF per, want
    <2>1. per * 1 <= want + per - 1 /\ want + per - 1 \in Int
      BY <1>1, <1>2
    <2> QED  BY <1>1, <2>1, QuotientAbove
  <1>5. RetryAfter(b, cost) = q
    <2>1. RetryAfter(b, cost) = Most(1, q)
      BY DEF RetryAfter
    <2> HIDE DEF q
    <2> QED  BY <2>1, <1>3, <1>4 DEF Most
  <1>6. want <= per * q
    <2> HIDE DEF per, want, q
    <2>0. per * q \in Int
      BY <1>1, <1>3
    <2> QED  BY <1>1, <1>2, <1>3, <2>0
  <1>7. per * (q - 1) < want
    <2> HIDE DEF per, want, q
    <2>1. per * (q - 1) = per * q - per /\ per * q \in Int
      BY <1>1, <1>3
    <2> QED  BY <1>1, <1>2, <1>3, <2>1
  <1>8. b.tokens + per * q >= cost * Micro /\ b.tokens + per * (q - 1) < cost * Micro
    <2>1. per * q \in Int /\ per * (q - 1) \in Int
      <3> HIDE DEF q
      <3> QED  BY <1>1, <1>3
    <2> HIDE DEF per, q
    <2> QED  BY <1>1, <1>6, <1>7, <2>1
  <1>9. q \in Nat /\ q - 1 \in Nat
    <2> HIDE DEF q
    <2> QED  BY <1>3, <1>4
  <1> HIDE DEF q
  <1>10. Affords(Refilled(b, b.last + q * TicksPerSec), cost)
    BY <1>8, <1>9, AffordsLater
  <1>11. ~Affords(Refilled(b, b.last + (q - 1) * TicksPerSec), cost)
    <2>1. \A x \in Int : x < cost * Micro => ~(x >= cost * Micro)
      BY <1>1
    <2>2. per * (q - 1) \in Int
      BY <1>1, <1>9
    <2> QED  BY <1>1, <1>8, <1>9, <2>1, <2>2, AffordsLater
  <1> QED  BY <1>5, <1>10, <1>11

--------------------------------------------------------------------------------
(* The account of a bucket: what was granted since the process began and what is *)
(* left are the capacity and what came in at most, in micro-units and ticks.     *)

Balanced(b, g) ==
    /\ booted <= b.last /\ b.last <= clock
    /\ TicksPerSec * g + TicksPerMicro * b.tokens
          <= TicksPerSec * Capacity + RefillPerSec * (b.last - booted)

Clocks == clock \in Nat /\ booted \in Nat /\ booted <= clock /\ skew \in Int /\ skew <= 0

LEMMA Rates ==
    /\ TicksPerSec \in Nat \ {0} /\ TicksPerSec = Micro * TicksPerMicro
    /\ Capacity \in Nat /\ ProjectDaily \in Nat /\ RefillPerSec \in Nat \ {0}
    /\ Micro \in Nat \ {0} /\ TicksPerMicro \in Nat \ {0} /\ DayTicks \in Nat \ {0}
  BY UpstreamAssumption DEF TicksPerSec

LEMMA FullIsWithin ==
    ASSUME NEW now \in Int
    PROVE  TicksPerSec * 0 + TicksPerMicro * (Capacity * Micro)
              <= TicksPerSec * Capacity + RefillPerSec * (now - now)
  <1>1. TicksPerMicro * (Capacity * Micro) = TicksPerSec * Capacity /\ TicksPerSec * Capacity \in Nat
    BY Rates
  <1>2. TicksPerSec * 0 = 0 /\ RefillPerSec * 0 = 0 /\ now - now = 0
    BY Rates
  <1> QED  BY <1>1, <1>2

LEMMA FullIsBalanced ==
    ASSUME Clocks
    PROVE  /\ FullBucket \in Bucket
           /\ booted = clock => Balanced(FullBucket, 0)
  <1>1. Capacity * Micro \in Nat
    BY Rates
  <1>2. FullBucket \in Bucket
    BY <1>1 DEF FullBucket, Bucket, Clocks
  <1>3. booted = clock => Balanced(FullBucket, 0)
    BY FullIsWithin DEF Balanced, FullBucket, Clocks
  <1> QED  BY <1>2, <1>3

LEMMA RefillsBalance ==
    ASSUME Clocks, NEW b \in Bucket, NEW g \in Nat, Balanced(b, g)
    PROVE  /\ Refilled(b, clock) \in Bucket
           /\ Refilled(b, clock).last = clock
           /\ Balanced(Refilled(b, clock), g)
  <1> DEFINE n == clock - b.last
             r == Refilled(b, clock)
  <1>1. b.tokens \in Nat /\ b.last \in Nat /\ n \in Nat /\ b.last <= clock
    BY Rates DEF Bucket, Balanced, Clocks
  <1>2. r \in Bucket /\ r.last = clock /\ r.tokens = Least(b.tokens + Added(n), Capacity * Micro)
    BY <1>1, RefilledBucket DEF Clocks
  <1>3. Added(n) \in Nat /\ TicksPerMicro * Added(n) <= RefillPerSec * n
    BY <1>1, RefillsAdd
  <1> DEFINE a == Added(n)
  <1>4. r.tokens \in Nat /\ r.tokens <= b.tokens + a
    <2> HIDE DEF n
    <2> QED  BY <1>1, <1>2, <1>3, Rates DEF Bucket, Least
  <1>5. TicksPerMicro * r.tokens <= TicksPerMicro * b.tokens + TicksPerMicro * a
    <2> HIDE DEF a, r
    <2>1. \A x, y \in Nat : x <= y => TicksPerMicro * x <= TicksPerMicro * y
      BY Rates
    <2>2. TicksPerMicro * (b.tokens + a) = TicksPerMicro * b.tokens + TicksPerMicro * a
      BY <1>1, <1>3, Rates DEF a
    <2> QED  BY <1>1, <1>3, <1>4, <2>1, <2>2 DEF a
  <1>6. RefillPerSec * (clock - booted) = RefillPerSec * (b.last - booted) + RefillPerSec * n
    BY <1>1, Rates DEF Clocks
  <1>7. TicksPerSec * g + TicksPerMicro * r.tokens <= TicksPerSec * Capacity + RefillPerSec * (clock - booted)
    <2> HIDE DEF a, r, n
    <2>1. /\ TicksPerSec * g \in Nat /\ TicksPerMicro * r.tokens \in Nat /\ TicksPerMicro * b.tokens \in Nat
          /\ TicksPerMicro * a \in Nat /\ TicksPerSec * Capacity \in Nat /\ RefillPerSec * n \in Nat
      BY <1>1, <1>3, <1>4, Rates DEF a
    <2>2. RefillPerSec * (b.last - booted) \in Int
      BY <1>1, Rates DEF Clocks
    <2>3. TicksPerSec * g + TicksPerMicro * b.tokens <= TicksPerSec * Capacity + RefillPerSec * (b.last - booted)
      BY DEF Balanced
    <2>4. TicksPerMicro * a <= RefillPerSec * n
      BY <1>3 DEF a
    <2> QED  BY <1>5, <1>6, <2>1, <2>2, <2>3, <2>4
  <1>8. booted <= r.last /\ r.last <= clock
    BY <1>2 DEF Clocks
  <1>9. r.last - booted = clock - booted
    BY <1>2
  <1> HIDE DEF r
  <1>10. Balanced(r, g)
    BY <1>7, <1>8, <1>9 DEF Balanced
  <1> QED  BY <1>2, <1>10 DEF r

(* A grant moves units from what is left to what was granted.                    *)
LEMMA GrantsBalance ==
    ASSUME Clocks, NEW b \in Bucket, NEW g \in Nat, NEW cost \in Nat,
           Balanced(b, g), Affords(b, cost)
    PROVE  /\ [b EXCEPT !.tokens = @ - cost * Micro] \in Bucket
           /\ Balanced([b EXCEPT !.tokens = @ - cost * Micro], g + cost)
  <1> DEFINE r == [b EXCEPT !.tokens = @ - cost * Micro]
  <1>1. b = [tokens |-> b.tokens, last |-> b.last] /\ b.tokens \in 0 .. Capacity * Micro /\ b.last \in Nat
    BY DEF Bucket
  <1>2. cost * Micro \in Nat /\ cost * Micro <= b.tokens /\ Capacity * Micro \in Nat
    BY <1>1, Rates DEF Affords
  <1>3. r = [tokens |-> b.tokens - cost * Micro, last |-> b.last]
    BY <1>1
  <1>4. b.tokens - cost * Micro \in 0 .. Capacity * Micro
    BY <1>1, <1>2
  <1> HIDE DEF r
  <1>5. r \in Bucket /\ r.tokens = b.tokens - cost * Micro /\ r.last = b.last
    BY <1>1, <1>3, <1>4 DEF Bucket
  <1>6. TicksPerMicro * (b.tokens - cost * Micro) = TicksPerMicro * b.tokens - TicksPerSec * cost
    <2>1. TicksPerMicro * (b.tokens - cost * Micro) = TicksPerMicro * b.tokens - TicksPerMicro * (cost * Micro)
      BY <1>1, <1>2, Rates
    <2>2. TicksPerMicro * (cost * Micro) = TicksPerSec * cost
      BY Rates
    <2> QED  BY <2>1, <2>2
  <1>7. TicksPerSec * (g + cost) = TicksPerSec * g + TicksPerSec * cost
    BY Rates
  <1>8. TicksPerSec * g \in Nat /\ TicksPerSec * cost \in Nat /\ TicksPerMicro * b.tokens \in Nat
    BY <1>1, <1>2, Rates
  <1>9. TicksPerSec * (g + cost) + TicksPerMicro * r.tokens = TicksPerSec * g + TicksPerMicro * b.tokens
    <2>1. TicksPerMicro * r.tokens = TicksPerMicro * b.tokens - TicksPerSec * cost
      BY <1>5, <1>6
    <2> QED  BY <1>7, <1>8, <2>1
  <1>10. Balanced(r, g + cost)
    BY <1>5, <1>9 DEF Balanced
  <1> QED  BY <1>5, <1>10 DEF r

(* A balanced bucket has granted its capacity and whole seconds' worth at most. *)
LEMMA BalancedIsWithin ==
    ASSUME Clocks, NEW b \in Bucket, NEW g \in Nat, Balanced(b, g)
    PROVE  g <= Capacity + (RefillPerSec * (clock - booted)) \div TicksPerSec
  <1> DEFINE in == RefillPerSec * (clock - booted)
  <1>1. b.tokens \in Nat /\ b.last \in Nat /\ b.last <= clock
    BY Rates DEF Bucket, Balanced
  <1>2. RefillPerSec * (b.last - booted) <= in /\ in \in Int /\ RefillPerSec * (b.last - booted) \in Int
    <2>1. \A x, y \in Int : x <= y => RefillPerSec * x <= RefillPerSec * y
      BY Rates
    <2> QED  BY <1>1, <2>1, Rates DEF Clocks
  <1>3. TicksPerMicro * b.tokens \in Nat /\ TicksPerSec * g \in Nat /\ TicksPerSec * Capacity \in Nat
    BY <1>1, Rates
  <1>4. TicksPerSec * (g - Capacity) = TicksPerSec * g - TicksPerSec * Capacity
    BY Rates
  <1> DEFINE over == g - Capacity
  <1>5. TicksPerSec * over <= in /\ over \in Int
    <2> HIDE DEF in
    <2> QED  BY <1>2, <1>3, <1>4, Rates DEF Balanced, in
  <1> HIDE DEF in, over
  <1>6. over <= in \div TicksPerSec
    BY <1>2, <1>5, Rates, QuotientAbove
  <1>7. in \div TicksPerSec \in Int
    BY <1>2, Rates, Quotient
  <1>8. g <= Capacity + in \div TicksPerSec
    BY <1>6, <1>7, Rates DEF over
  <1> QED  BY <1>8 DEF in

--------------------------------------------------------------------------------
(* The inductive invariant of the budgets: `Budgets`, of four parts.             *)

IsRequest(r) ==
    /\ r = [at |-> r.at, service |-> r.service, cost |-> r.cost, attempt |-> r.attempt,
            forced |-> r.forced, wake |-> r.wake]
    /\ r.service \in Services /\ r.cost \in Nat

Requests == rq = [c \in Calls |-> rq[c]] /\ \A c \in Calls : IsRequest(rq[c])

Buckets ==
    /\ bucket \in [Services -> [Accounts -> Bucket]]
    /\ granted \in [Services -> [Accounts -> Nat]]
    /\ \A s \in Services, a \in Accounts : Balanced(bucket[s][a], granted[s][a])

IsCounter(p) == p = [used |-> p.used, day |-> p.day] /\ p.used \in Nat /\ p.day \in Int

(* Until the clock is set back, the counter is not ahead of today, and it holds  *)
(* all that was granted on its day, the latest one.                              *)
Holds(p) ==
    /\ p.day <= Today /\ p.used <= ProjectDaily
    /\ \A d \in DOMAIN spent : d <= p.day /\ spent[d] <= ProjectDaily
    /\ p.day \in DOMAIN spent => spent[p.day] <= p.used

Counted ==
    /\ IsCounter(project)
    /\ \A d \in DOMAIN spent : d \in Int /\ spent[d] \in Nat
    /\ skew = 0 => Holds(project)

Budgets == Clocks /\ Requests /\ Buckets /\ Counted

LEMMA TodayIsADay ==
    ASSUME Clocks
    PROVE  Wall \in Int /\ Today \in Int
  <1>1. Wall \in Int
    BY DEF Wall, Clocks
  <1>2. Today \in Int
    BY <1>1, Rates, Quotient DEF Today
  <1> QED  BY <1>1, <1>2

LEMMA Askings ==
    ASSUME NEW service \in Services, NEW cost \in Nat
    PROVE  IsRequest(Asking(service, cost)) /\ Asking(service, cost).at = "quota"
  BY DEF IsRequest, Asking

LEMMA NoRequests ==
    IsRequest(NoRequest) /\ NoRequest.at = "idle"
  BY DEF IsRequest, NoRequest, Services

(* A step of a call that only puts a request, or none, in its place.             *)
LEMMA RequestsReplaced ==
    ASSUME Requests, NEW c \in Calls, NEW r, IsRequest(r), rq' = [rq EXCEPT ![c] = r]
    PROVE  Requests' /\ rq'[c] = r /\ \A d \in Calls \ {c} : rq'[d] = rq[d]
  <1>1. rq'[c] = r /\ \A d \in Calls \ {c} : rq'[d] = rq[d]
    BY DEF Requests
  <1>2. rq' = [d \in Calls |-> rq'[d]]
    BY DEF Requests
  <1>3. \A d \in Calls : IsRequest(rq'[d])
    BY <1>1 DEF Requests
  <1> QED  BY <1>1, <1>2, <1>3 DEF Requests, IsRequest

LEMMA Freshly ==
    ASSUME Clocks, booted = clock,
           bucket = [s \in Services |-> [a \in Accounts |-> FullBucket]],
           granted = [s \in Services |-> [a \in Accounts |-> 0]],
           project = [used |-> 0, day |-> Today], spent = <<>>
    PROVE  Buckets /\ Counted
  <1>1. FullBucket \in Bucket /\ Balanced(FullBucket, 0)
    BY FullIsBalanced
  <1>2. Buckets
    BY <1>1 DEF Buckets
  <1>3. DOMAIN spent = {}
    OBVIOUS
  <1>4. Today \in Int /\ ProjectDaily \in Nat
    BY TodayIsADay, Rates
  <1>5. Counted
    BY <1>3, <1>4 DEF Counted, IsCounter, Holds
  <1> QED  BY <1>2, <1>5

LEMMA BudgetsBegin == UpstreamInit => Budgets
  <1> SUFFICES ASSUME UpstreamInit PROVE Budgets
    OBVIOUS
  <1>1. Clocks
    BY DEF UpstreamInit, Clocks
  <1>2. Requests
    BY NoRequests DEF UpstreamInit, Requests
  <1>3. Buckets /\ Counted
    BY <1>1, Freshly DEF UpstreamInit
  <1> QED  BY <1>1, <1>2, <1>3 DEF Budgets

LEMMA BudgetsUntouched ==
    ASSUME Budgets, Requests', UNCHANGED <<clock, skew, bucket, project, granted, spent, booted>>
    PROVE  Budgets'
  <1>1. Clocks'
    BY DEF Budgets, Clocks
  <1>2. Buckets'
    BY DEF Budgets, Buckets, Balanced
  <1>3. Counted'
    BY DEF Budgets, Counted, Holds, IsCounter, Today, Wall
  <1> QED  BY <1>1, <1>2, <1>3 DEF Budgets

LEMMA TicksKeepBudgets == Budgets /\ Tick => Budgets'
  <1> SUFFICES ASSUME Budgets, Tick PROVE Budgets'
    OBVIOUS
  <1>1. clock' = clock + 1 /\ skew' = skew /\ booted' = booted
    BY DEF Tick
  <1>2. Clocks'
    BY <1>1 DEF Budgets, Clocks
  <1>3. Requests'
    BY DEF Budgets, Requests, Tick
  <1>4. Buckets'
    BY <1>1 DEF Budgets, Buckets, Balanced, Clocks, Bucket, Tick
  <1>5. Today <= Today' /\ Today \in Int /\ Today' \in Int
    <2>1. Wall \in Int /\ Wall' \in Int /\ Wall <= Wall'
      BY <1>1 DEF Budgets, Clocks, Wall
    <2>2. Wall \div DayTicks <= Wall' \div DayTicks
      BY <2>1, Rates, QuotientMonotone
    <2>3. Wall \div DayTicks \in Int /\ Wall' \div DayTicks \in Int
      BY <2>1, Rates, Quotient
    <2> QED  BY <2>2, <2>3 DEF Today
  <1>6. Counted'
    BY <1>1, <1>5 DEF Budgets, Counted, Holds, IsCounter, Tick
  <1> QED  BY <1>2, <1>3, <1>4, <1>6 DEF Budgets

LEMMA StepsBackKeepBudgets == Budgets /\ StepBack => Budgets'
  <1> SUFFICES ASSUME Budgets, StepBack PROVE Budgets'
    OBVIOUS
  <1>1. skew' = skew - 1 /\ clock' = clock /\ booted' = booted
    BY DEF StepBack
  <1>2. Clocks' /\ skew' # 0
    BY <1>1 DEF Budgets, Clocks
  <1>3. Requests'
    BY DEF Budgets, Requests, StepBack
  <1>4. Buckets'
    BY DEF Budgets, Buckets, Balanced, StepBack
  <1>5. Counted'
    BY <1>2 DEF Budgets, Counted, IsCounter, StepBack
  <1> QED  BY <1>2, <1>3, <1>4, <1>5 DEF Budgets

LEMMA RestartsKeepBudgets == Budgets /\ UpstreamRestart => Budgets'
  <1> SUFFICES ASSUME Budgets, UpstreamRestart PROVE Budgets'
    OBVIOUS
  <1>1. Clocks' /\ booted' = clock'
    BY DEF Budgets, Clocks, UpstreamRestart
  <1>2. Requests'
    BY NoRequests DEF UpstreamRestart, Requests
  <1>3. FullBucket' = FullBucket /\ Today' = Today /\ Clocks
    BY DEF UpstreamRestart, FullBucket, Today, Wall, Budgets
  <1>4. Buckets'
    <2>1. FullBucket \in Bucket
      BY <1>3, FullIsBalanced
    <2>2. bucket' \in [Services -> [Accounts -> Bucket]] /\ granted' \in [Services -> [Accounts -> Nat]]
      BY <2>1 DEF UpstreamRestart
    <2>3. \A s \in Services, a \in Accounts : bucket'[s][a] = FullBucket' /\ granted'[s][a] = 0
      BY <1>3 DEF UpstreamRestart
    <2>4. Balanced(FullBucket, 0)'
      BY <1>1, FullIsWithin DEF Balanced, FullBucket, Clocks
    <2> QED  BY <2>2, <2>3, <2>4 DEF Buckets, Balanced
  <1>5. Counted'
    <2>1. Today \in Int /\ ProjectDaily \in Nat
      BY <1>3, TodayIsADay, Rates
    <2>2. project' = [used |-> 0, day |-> Today'] /\ DOMAIN spent' = {}
      BY <1>3 DEF UpstreamRestart
    <2> QED  BY <1>3, <2>1, <2>2 DEF Counted, IsCounter, Holds
  <1> QED  BY <1>1, <1>2, <1>4, <1>5 DEF Budgets

--------------------------------------------------------------------------------
(* The request: one lemma for each part of quota_check, one for the attempts.    *)

LEMMA BucketReplaced ==
    ASSUME Buckets, NEW s \in Services, NEW a \in Accounts, NEW b \in Bucket, NEW g \in Nat,
           Balanced(b, g), bucket' = [bucket EXCEPT ![s][a] = b],
           granted' = [granted EXCEPT ![s][a] = g], UNCHANGED <<clock, booted>>
    PROVE  Buckets'
  <1>1. bucket' \in [Services -> [Accounts -> Bucket]]
    BY DEF Buckets
  <1>2. granted' \in [Services -> [Accounts -> Nat]]
    BY DEF Buckets
  <1>3. ASSUME NEW s1 \in Services, NEW a1 \in Accounts PROVE Balanced(bucket[s1][a1], granted[s1][a1])'
    <2>1. CASE s1 = s /\ a1 = a
      <3>1. bucket'[s1][a1] = b /\ granted'[s1][a1] = g
        BY <2>1 DEF Buckets
      <3> QED  BY <3>1 DEF Balanced
    <2>2. CASE ~(s1 = s /\ a1 = a)
      <3>1. bucket'[s1][a1] = bucket[s1][a1] /\ granted'[s1][a1] = granted[s1][a1]
        BY <2>2 DEF Buckets
      <3> QED  BY <3>1 DEF Buckets, Balanced
    <2> QED  BY <2>1, <2>2
  <1> QED  BY <1>1, <1>2, <1>3 DEF Buckets

(* The project is charged once the day has room, and renewed on a new day.       *)
LEMMA RenewedHolds ==
    ASSUME Clocks, Counted
    PROVE  /\ IsCounter(Renewed(project))
           /\ skew = 0 => Holds(Renewed(project)) /\ Renewed(project).day = Today
  <1>1. Today \in Int /\ ProjectDaily \in Nat
    BY TodayIsADay, Rates
  <1>2. CASE Today > project.day
    <2>1. Renewed(project) = [used |-> 0, day |-> Today]
      BY <1>2 DEF Renewed
    <2>2. IsCounter(Renewed(project))
      BY <1>1, <2>1 DEF IsCounter
    <2>3. ASSUME skew = 0 PROVE Holds(Renewed(project))
      <3>1. Today \notin DOMAIN spent
        BY <1>1, <1>2, <2>3 DEF Counted, Holds, IsCounter
      <3> QED  BY <1>1, <1>2, <2>1, <2>3, <3>1 DEF Counted, Holds, IsCounter
    <2> QED  BY <2>1, <2>2, <2>3
  <1>3. CASE ~(Today > project.day)
    <2>1. Renewed(project) = project
      BY <1>3 DEF Renewed
    <2>2. skew = 0 => project.day = Today
      BY <1>1, <1>3 DEF Counted, Holds, IsCounter
    <2> QED  BY <2>1, <2>2 DEF Counted
  <1> QED  BY <1>2, <1>3

LEMMA ChargesHold ==
    ASSUME Clocks, Counted, NEW cost \in Nat, DailyRoom(project, cost)
    PROVE  /\ IsCounter(Charged(project, cost))
           /\ skew = 0 =>
                 /\ Charged(project, cost).day = Today
                 /\ Charged(project, cost).used = Renewed(project).used + cost
                 /\ Charged(project, cost).used <= ProjectDaily
  <1> DEFINE p == Renewed(project)
  <1>1. IsCounter(p) /\ (skew = 0 => p.day = Today) /\ p.used + cost <= ProjectDaily
    BY RenewedHolds DEF DailyRoom
  <1>2. Charged(project, cost) = [p EXCEPT !.used = @ + cost]
    BY DEF Charged
  <1> HIDE DEF p
  <1>3. Charged(project, cost) = [used |-> p.used + cost, day |-> p.day]
    BY <1>1, <1>2 DEF IsCounter
  <1> QED  BY <1>1, <1>3 DEF IsCounter, p

LEMMA GrantsCount ==
    ASSUME Clocks, Counted, NEW cost \in Nat, DailyRoom(project, cost),
           project' = Charged(project, cost), spent' = SpentToday(cost) \/ spent' = spent,
           UNCHANGED <<clock, skew>>
    PROVE  Counted'
  <1>1. Today \in Int /\ ProjectDaily \in Nat /\ Today' = Today
    BY TodayIsADay, Rates DEF Today, Wall
  <1>2. IsCounter(project') /\ IsCounter(Renewed(project))
    BY ChargesHold, RenewedHolds
  <1>3. \A d \in DOMAIN spent' : d \in Int /\ spent'[d] \in Nat
    BY <1>1 DEF SpentToday, Counted
  <1>4. ASSUME skew = 0 PROVE Holds(project)'
    <2>1. /\ project'.day = Today /\ project'.used = Renewed(project).used + cost
          /\ project'.used <= ProjectDaily
      BY <1>4, ChargesHold
    <2>2. Holds(Renewed(project)) /\ Renewed(project).day = Today
      BY <1>4, RenewedHolds
    <2>3. ASSUME NEW d \in DOMAIN spent' PROVE d <= Today /\ spent'[d] <= ProjectDaily
      <3>1. CASE spent' = spent
        BY <2>2, <2>3, <3>1 DEF Holds
      <3>2. CASE spent' = SpentToday(cost) /\ d # Today
        <4>1. d \in DOMAIN spent /\ spent'[d] = spent[d] + 0 /\ spent[d] \in Nat
          BY <2>3, <3>2 DEF SpentToday, Counted
        <4> QED  BY <2>2, <4>1 DEF Holds
      <3>3. CASE spent' = SpentToday(cost) /\ d = Today
        <4>1. CASE Today \in DOMAIN spent
          <5>1. spent'[d] = spent[Today] + cost /\ spent[Today] \in Nat
            BY <2>3, <3>3, <4>1 DEF SpentToday, Counted
          <5>2. spent[Today] <= Renewed(project).used
            BY <2>2, <4>1 DEF Holds
          <5> QED  BY <1>1, <1>2, <2>1, <3>3, <5>1, <5>2 DEF IsCounter
        <4>2. CASE Today \notin DOMAIN spent
          <5>1. spent'[d] = 0 + cost
            BY <2>3, <3>3, <4>2 DEF SpentToday
          <5> QED  BY <1>1, <1>2, <2>1, <3>3, <5>1 DEF IsCounter
        <4> QED  BY <4>1, <4>2
      <3> QED  BY <3>1, <3>2, <3>3
    <2>4. Today \in DOMAIN spent' => spent'[Today] <= project'.used
      <3>1. CASE Today \in DOMAIN spent
        <4>1. spent'[Today] \in {spent[Today], spent[Today] + cost} /\ spent[Today] \in Nat
          BY <3>1 DEF SpentToday, Counted
        <4>2. spent[Today] <= Renewed(project).used
          BY <2>2, <3>1 DEF Holds
        <4> QED  BY <1>2, <2>1, <4>1, <4>2 DEF IsCounter
      <3>2. CASE Today \notin DOMAIN spent
        <4>1. Today \in DOMAIN spent' => spent'[Today] = 0 + cost
          BY <3>2 DEF SpentToday
        <4> QED  BY <1>2, <2>1, <4>1 DEF IsCounter
      <3> QED  BY <3>1, <3>2
    <2> QED  BY <1>1, <2>1, <2>3, <2>4 DEF Holds
  <1> QED  BY <1>2, <1>3, <1>4 DEF Counted

LEMMA SetAt ==
    ASSUME NEW r, IsRequest(r), NEW at
    PROVE  /\ IsRequest([r EXCEPT !.at = at]) /\ [r EXCEPT !.at = at].at = at
           /\ \A wake : LET q == [[r EXCEPT !.at = at] EXCEPT !.wake = wake]
                        IN  IsRequest(q) /\ q.at = at
  <1>1. [r EXCEPT !.at = at] = [at |-> at, service |-> r.service, cost |-> r.cost,
                                attempt |-> r.attempt, forced |-> r.forced, wake |-> r.wake]
    BY DEF IsRequest
  <1> DEFINE r1 == [r EXCEPT !.at = at]
  <1>2. IsRequest(r1) /\ r1.at = at
    <2> HIDE DEF r1
    <2> QED  BY <1>1 DEF IsRequest, r1
  <1>3. ASSUME NEW wake PROVE IsRequest([r1 EXCEPT !.wake = wake]) /\ [r1 EXCEPT !.wake = wake].at = at
    <2> DEFINE q == [r1 EXCEPT !.wake = wake]
    <2>1. q = [at |-> r1.at, service |-> r1.service, cost |-> r1.cost,
               attempt |-> r1.attempt, forced |-> r1.forced, wake |-> wake]
      <3> HIDE DEF r1
      <3> QED  BY <1>2 DEF IsRequest
    <2> HIDE DEF r1, q
    <2>2. IsRequest(q) /\ q.at = at
      BY <1>2, <2>1 DEF IsRequest
    <2> QED  BY <2>2 DEF q
  <1> QED  BY <1>2, <1>3

LEMMA QuotaChecksKeepBudgets ==
    ASSUME Budgets, NEW c \in Calls, QuotaCheck(c)
    PROVE  Budgets' /\ rq'[c].at \in {"send", "limited"} /\ \A d \in Calls \ {c} : rq'[d] = rq[d]
  <1> DEFINE s == rq[c].service
             a == Account[c]
             b == Refilled(bucket[s][a], clock)
             cost == rq[c].cost
             counts == s \in wired
             room == counts => DailyRoom(project, cost)
             taken == [b EXCEPT !.tokens = @ - cost * Micro]
  <1>1. s \in Services /\ a \in Accounts /\ cost \in Nat /\ IsRequest(rq[c])
    BY DEF Budgets, Requests, IsRequest, Accounts
  <1>2. bucket[s][a] \in Bucket /\ granted[s][a] \in Nat /\ Balanced(bucket[s][a], granted[s][a])
    BY <1>1 DEF Budgets, Buckets
  <1>3. b \in Bucket /\ Balanced(b, granted[s][a])
    BY <1>2, RefillsBalance DEF Budgets
  <1>4. UNCHANGED <<clock, skew, booted>>
    BY DEF QuotaCheck
  <1>5. Clocks'
    BY <1>4 DEF Budgets, Clocks
  <1>6. project' = IF ~counts THEN project ELSE IF room THEN Charged(project, cost) ELSE Renewed(project)
    BY DEF QuotaCheck
  <1>7. \/ /\ room /\ Affords(b, cost)
           /\ bucket' = [bucket EXCEPT ![s][a] = taken]
           /\ granted' = [granted EXCEPT ![s][a] = @ + cost]
           /\ spent' = IF counts THEN SpentToday(cost) ELSE spent
           /\ rq' = [rq EXCEPT ![c].at = "send"]
        \/ /\ ~(room /\ Affords(b, cost))
           /\ bucket' = IF room THEN [bucket EXCEPT ![s][a] = b] ELSE bucket
           /\ granted' = granted /\ spent' = spent
           /\ rq' = [rq EXCEPT ![c].at = "limited",
                               ![c].wake = clock + TicksPerSec *
                                  (IF room THEN RetryAfter(b, cost) ELSE SecondsToMidnight)]
    BY DEF QuotaCheck
  <1> HIDE DEF s, a, b, cost, counts, room, taken
  <1>8. Counted'
    <2>1. CASE ~counts
      <3>1. project' = project /\ spent' = spent
        BY <1>6, <1>7, <2>1
      <3> QED  BY <1>4, <3>1 DEF Budgets, Counted, Holds, IsCounter, Today, Wall
    <2>2. CASE counts /\ room
      <3>1. DailyRoom(project, cost) /\ project' = Charged(project, cost)
        BY <1>6, <2>2 DEF room
      <3>2. spent' = SpentToday(cost) \/ spent' = spent
        BY <1>7
      <3> QED  BY <1>1, <1>4, <3>1, <3>2, GrantsCount DEF Budgets
    <2>3. CASE counts /\ ~room
      <3>1. project' = Renewed(project) /\ spent' = spent
        BY <1>6, <1>7, <2>3
      <3>2. IsCounter(Renewed(project)) /\ (skew = 0 => Holds(Renewed(project)))
        BY RenewedHolds DEF Budgets
      <3>3. IsCounter(project')
        BY <3>1, <3>2
      <3> QED  BY <1>4, <3>1, <3>2, <3>3 DEF Budgets, Counted, Holds, Today, Wall
    <2> QED  BY <2>1, <2>2, <2>3
  <1>9. Buckets' /\ Requests' /\ rq'[c].at \in {"send", "limited"} /\ \A d \in Calls \ {c} : rq'[d] = rq[d]
    <2>1. CASE room /\ Affords(b, cost)
      <3>1. taken \in Bucket /\ Balanced(taken, granted[s][a] + cost)
        BY <1>1, <1>2, <1>3, <2>1, GrantsBalance DEF Budgets, taken
      <3>2. granted' = [granted EXCEPT ![s][a] = granted[s][a] + cost] /\ granted[s][a] + cost \in Nat
        BY <1>1, <1>2, <1>7, <2>1
      <3>3. Buckets'
        BY <1>1, <1>4, <1>7, <2>1, <3>1, <3>2, BucketReplaced DEF Budgets
      <3> DEFINE at == "send"
                 r == [rq[c] EXCEPT !.at = at]
      <3>4. rq' = [rq EXCEPT ![c] = r]
        BY <1>7, <2>1
      <3> HIDE DEF at
      <3>5. IsRequest(r) /\ r.at = at
        BY <1>1, SetAt
      <3> HIDE DEF r
      <3>6. Requests' /\ rq'[c] = r /\ \A d \in Calls \ {c} : rq'[d] = rq[d]
        BY <3>4, <3>5, RequestsReplaced DEF Budgets
      <3> QED  BY <3>3, <3>5, <3>6 DEF at
    <2>2. CASE ~(room /\ Affords(b, cost))
      <3>1. Buckets'
        <4>1. CASE room
          <5>1. granted' = [granted EXCEPT ![s][a] = granted[s][a]] /\ bucket' = [bucket EXCEPT ![s][a] = b]
            BY <1>1, <1>7, <2>2, <4>1 DEF Budgets, Buckets
          <5> QED  BY <1>1, <1>2, <1>3, <1>4, <5>1, BucketReplaced DEF Budgets
        <4>2. CASE ~room
          BY <1>4, <1>7, <2>2, <4>2 DEF Budgets, Buckets, Balanced
        <4> QED  BY <4>1, <4>2
      <3> DEFINE at == "limited"
                 wake == clock + TicksPerSec * (IF room THEN RetryAfter(b, cost) ELSE SecondsToMidnight)
                 r == [[rq[c] EXCEPT !.at = at] EXCEPT !.wake = wake]
      <3>2. rq' = [rq EXCEPT ![c] = r]
        <4>1. rq' = [rq EXCEPT ![c].at = at, ![c].wake = wake]
          BY <1>7, <2>2
        <4> HIDE DEF at, wake
        <4>2. rq' = [[rq EXCEPT ![c].at = at] EXCEPT ![c].wake = wake]
          BY <4>1
        <4> QED  BY <4>2, <1>1 DEF Budgets, Requests
      <3> HIDE DEF at, wake
      <3>3. IsRequest(r) /\ r.at = at
        BY <1>1, SetAt
      <3> HIDE DEF r
      <3>4. Requests' /\ rq'[c] = r /\ \A d \in Calls \ {c} : rq'[d] = rq[d]
        BY <3>2, <3>3, RequestsReplaced DEF Budgets
      <3> QED  BY <3>1, <3>3, <3>4 DEF at
    <2> QED  BY <2>1, <2>2
  <1> QED  BY <1>5, <1>8, <1>9 DEF Budgets

LEMMA SetRound ==
    ASSUME NEW r, IsRequest(r), NEW forced, NEW attempt
    PROVE  LET q == [[r EXCEPT !.forced = forced] EXCEPT !.attempt = attempt]
           IN  IsRequest(q) /\ q.at = r.at
  <1> DEFINE r1 == [r EXCEPT !.forced = forced]
             q == [r1 EXCEPT !.attempt = attempt]
  <1>1. r1 = [at |-> r.at, service |-> r.service, cost |-> r.cost, attempt |-> r.attempt,
              forced |-> forced, wake |-> r.wake]
    BY DEF IsRequest
  <1> HIDE DEF r1
  <1>2. q = [at |-> r.at, service |-> r.service, cost |-> r.cost, attempt |-> attempt,
             forced |-> forced, wake |-> r.wake]
    BY <1>1
  <1> HIDE DEF q
  <1>3. IsRequest(q) /\ q.at = r.at
    BY <1>2 DEF IsRequest
  <1> QED  BY <1>3 DEF q, r1

LEMMA SetSleep ==
    ASSUME NEW r, IsRequest(r), NEW at, NEW wake
    PROVE  LET q == [[[r EXCEPT !.at = at] EXCEPT !.wake = wake] EXCEPT !.attempt = @ + 1]
           IN  IsRequest(q) /\ q.at = at
  <1> DEFINE r1 == [r EXCEPT !.at = at]
             r2 == [r1 EXCEPT !.wake = wake]
             q == [r2 EXCEPT !.attempt = @ + 1]
  <1>1. r1 = [at |-> at, service |-> r.service, cost |-> r.cost, attempt |-> r.attempt,
              forced |-> r.forced, wake |-> r.wake]
    BY DEF IsRequest
  <1> HIDE DEF r1
  <1>2. r2 = [at |-> at, service |-> r.service, cost |-> r.cost, attempt |-> r.attempt,
              forced |-> r.forced, wake |-> wake]
    BY <1>1
  <1> HIDE DEF r2
  <1>3. q = [at |-> at, service |-> r.service, cost |-> r.cost, attempt |-> r.attempt + 1,
             forced |-> r.forced, wake |-> wake]
    BY <1>2
  <1> HIDE DEF q
  <1>4. IsRequest(q) /\ q.at = at
    BY <1>3 DEF IsRequest
  <1> QED  BY <1>4 DEF q, r2, r1

(* Whatever the answer, what follows is a request of the same kind, and it is    *)
(* over with "ok" only when the answer was.                                      *)
LEMMA AnswersLeadToRequests ==
    ASSUME NEW c \in Calls, IsRequest(rq[c]), rq[c].at = "send", NEW answer, NEW delay
    PROVE  /\ IsRequest(After(c, answer, delay))
           /\ After(c, answer, delay).at = "ok" => answer = "ok"
           /\ After(c, answer, delay).at # "quota"
  <1> DEFINE r == After(c, answer, delay)
  <1>1. CASE answer = "ok"
    <2>1. r = [rq[c] EXCEPT !.at = "ok"]
      BY <1>1 DEF After, Retryable
    <2> DEFINE at == "ok"
    <2> HIDE DEF at
    <2>2. IsRequest([rq[c] EXCEPT !.at = at]) /\ [rq[c] EXCEPT !.at = at].at = at
      BY SetAt
    <2> QED  BY <1>1, <2>1, <2>2 DEF at
  <1>2. CASE answer = "noauth" \/ (answer = "401" /\ rq[c].forced)
    <2>1. r = [rq[c] EXCEPT !.at = "auth"]
      BY <1>2 DEF After, Retryable
    <2> DEFINE at == "auth"
    <2> HIDE DEF at
    <2>2. IsRequest([rq[c] EXCEPT !.at = at]) /\ [rq[c] EXCEPT !.at = at].at = at
      BY SetAt
    <2> QED  BY <2>1, <2>2 DEF at
  <1>3. CASE answer = "401" /\ ~rq[c].forced
    <2> DEFINE t == TRUE
               z == 0
               q == [[rq[c] EXCEPT !.forced = t] EXCEPT !.attempt = z]
    <2>1. r = [rq[c] EXCEPT !.forced = t, !.attempt = z]
      BY <1>3 DEF After, Retryable
    <2> HIDE DEF t, z
    <2>2. r = q
      BY <2>1
    <2>3. IsRequest(q) /\ q.at = rq[c].at
      BY SetRound
    <2> QED  BY <2>2, <2>3
  <1>4. CASE answer \notin {"ok", "noauth", "401"}
    <2>1. CASE Retryable(answer) /\ rq[c].attempt < MaxRetries
      <3> DEFINE at == "sleep"
                 wake == clock + delay
                 q == [[[rq[c] EXCEPT !.at = at] EXCEPT !.wake = wake] EXCEPT !.attempt = @ + 1]
      <3>1. r = [rq[c] EXCEPT !.at = at, !.wake = wake, !.attempt = @ + 1]
        BY <1>4, <2>1 DEF After
      <3> HIDE DEF at, wake
      <3>2. r = q
        BY <3>1
      <3>3. IsRequest(q) /\ q.at = at
        BY SetSleep
      <3> QED  BY <3>2, <3>3 DEF at
    <2>2. CASE ~(Retryable(answer) /\ rq[c].attempt < MaxRetries)
      <3>1. r = [rq[c] EXCEPT !.at = "error"]
        BY <1>4, <2>2 DEF After
      <3> DEFINE at == "error"
      <3> HIDE DEF at
      <3>2. IsRequest([rq[c] EXCEPT !.at = at]) /\ [rq[c] EXCEPT !.at = at].at = at
        BY SetAt
      <3> QED  BY <3>1, <3>2 DEF at
    <2> QED  BY <2>1, <2>2
  <1> QED  BY <1>1, <1>2, <1>3, <1>4

LEMMA ExchangesKeepBudgets ==
    ASSUME Budgets, NEW c \in Calls, NEW answer, NEW took, Exchange(c, answer, took)
    PROVE  /\ Budgets'
           /\ rq'[c].at = "ok" => answer = "ok"
           /\ rq'[c].at # "quota"
           /\ \A d \in Calls \ {c} : rq'[d] = rq[d]
  <1>1. PICK delay : rq' = [rq EXCEPT ![c] = After(c, answer, delay)]
    BY DEF Exchange
  <1>2. IsRequest(rq[c]) /\ rq[c].at = "send"
    BY DEF Budgets, Requests, Exchange
  <1> DEFINE r == After(c, answer, delay)
  <1>3. IsRequest(r) /\ (r.at = "ok" => answer = "ok") /\ r.at # "quota"
    BY <1>2, AnswersLeadToRequests
  <1> HIDE DEF r
  <1>4. Requests' /\ rq'[c] = r /\ \A d \in Calls \ {c} : rq'[d] = rq[d]
    BY <1>1, <1>3, RequestsReplaced DEF Budgets, r
  <1>5. Budgets'
    BY <1>4, BudgetsUntouched DEF Exchange
  <1> QED  BY <1>3, <1>4, <1>5

LEMMA WakingKeepsBudgets ==
    ASSUME Budgets, NEW c \in Calls, Wake(c)
    PROVE  Budgets' /\ rq'[c].at = "send" /\ \A d \in Calls \ {c} : rq'[d] = rq[d]
  <1> DEFINE at == "send"
             r == [rq[c] EXCEPT !.at = at]
  <1>1. rq' = [rq EXCEPT ![c] = r]
    BY DEF Wake
  <1> HIDE DEF at
  <1>2. IsRequest(r) /\ r.at = at
    BY SetAt DEF Budgets, Requests
  <1> HIDE DEF r
  <1>3. Requests' /\ rq'[c] = r /\ \A d \in Calls \ {c} : rq'[d] = rq[d]
    BY <1>1, <1>2, RequestsReplaced DEF Budgets
  <1>4. Budgets'
    BY <1>3, BudgetsUntouched DEF Wake
  <1> QED  BY <1>2, <1>3, <1>4 DEF at

--------------------------------------------------------------------------------
(* Every step keeps the budgets.                                                 *)

LEMMA Costs == Cost("messages.send") \in Nat /\ Cost("threads.get") \in Nat
  BY DEF Cost

(* The variables of the budgets that only a quota check and a restart change.    *)
Tills == <<clock, skew, bucket, project, granted, spent, booted>>

LEMMA PutKeepsBudgets ==
    ASSUME Budgets, NEW c \in Calls, NEW r, IsRequest(r), rq' = [rq EXCEPT ![c] = r],
           UNCHANGED Tills
    PROVE  Budgets' /\ rq'[c] = r /\ \A d \in Calls \ {c} : rq'[d] = rq[d]
  <1>1. Requests' /\ rq'[c] = r /\ \A d \in Calls \ {c} : rq'[d] = rq[d]
    BY RequestsReplaced DEF Budgets
  <1>2. Budgets'
    BY <1>1, BudgetsUntouched DEF Tills
  <1> QED  BY <1>1, <1>2

LEMMA SameRequestsKeepBudgets ==
    ASSUME Budgets, rq' = rq, UNCHANGED Tills
    PROVE  Budgets'
  <1>1. Requests'
    BY DEF Budgets, Requests
  <1> QED  BY <1>1, BudgetsUntouched DEF Tills

LEMMA ReadsKeepBudgets ==
    ASSUME Budgets, NEW c \in Calls, NEW service \in Services, NEW cost \in Nat,
           Read(c, service, cost)
    PROVE  Budgets'
  BY Askings, PutKeepsBudgets DEF Read, Tills

LEMMA SendsKeepBudgets ==
    ASSUME Budgets, NEW c \in Calls,
           Ask(c) \/ Check(c) \/ Prefetched(c) \/ Posted(c) \/ Record(c) \/ SendFails(c) \/ Drop(c)
    PROVE  Budgets'
  <1>0. "gmail" \in Services
    BY DEF Services
  <1>1. CASE Ask(c)
    BY <1>1, SameRequestsKeepBudgets DEF Ask, upstreamVars, Tills
  <1>2. CASE Check(c)
    <2>1. UNCHANGED Tills
      BY <1>2 DEF Check, Tills
    <2>2. \/ rq' = rq
          \/ rq' = [rq EXCEPT ![c] = Asking("gmail", Cost("messages.send"))]
          \/ rq' = [rq EXCEPT ![c] = Asking("gmail", Cost("threads.get"))]
      BY <1>2 DEF Check
    <2> QED  BY <1>0, <2>1, <2>2, Costs, Askings, PutKeepsBudgets, SameRequestsKeepBudgets
  <1>3. CASE Prefetched(c)
    <2>1. UNCHANGED Tills /\ rq' = [rq EXCEPT ![c] = Asking("gmail", Cost("messages.send"))]
      BY <1>3 DEF Prefetched, Tills
    <2> QED  BY <1>0, <2>1, Costs, Askings, PutKeepsBudgets
  <1>4. CASE Posted(c) \/ Record(c) \/ SendFails(c)
    BY <1>4, SameRequestsKeepBudgets DEF Posted, Record, SendFails, upstreamVars, Tills
  <1>5. CASE Drop(c)
    <2>1. UNCHANGED Tills /\ rq' = [rq EXCEPT ![c] = NoRequest]
      BY <1>5 DEF Drop, Tills
    <2> QED  BY <2>1, NoRequests, PutKeepsBudgets
  <1> QED  BY <1>1, <1>2, <1>3, <1>4, <1>5

LEMMA BudgetsKept == Budgets /\ [Next]_vars => Budgets'
  <1> SUFFICES ASSUME Budgets, [Next]_vars PROVE Budgets'
    OBVIOUS
  <1>1. CASE UNCHANGED vars
    BY <1>1, SameRequestsKeepBudgets DEF vars, upstreamVars, Tills
  <1>2. ASSUME NEW c \in Calls, CallStep(c) PROVE Budgets'
    <2>1. CASE Check(c) \/ Prefetched(c) \/ Posted(c) \/ Record(c) \/ SendFails(c)
      BY <2>1, SendsKeepBudgets
    <2>2. CASE Attempt(c)
      BY <2>2, ExchangesKeepBudgets DEF Attempt
    <2>3. CASE QuotaCheck(c)
      BY <2>3, QuotaChecksKeepBudgets
    <2>4. CASE Wake(c)
      BY <2>4, WakingKeepsBudgets
    <2> QED  BY <1>2, <2>1, <2>2, <2>3, <2>4 DEF CallStep
  <1>3. ASSUME NEW c \in Calls, Ask(c) \/ Drop(c) PROVE Budgets'
    BY <1>3, SendsKeepBudgets
  <1>4. ASSUME NEW c \in Calls, ReadGmail(c) \/ ReadCalendar(c) \/ ReadContacts(c) \/ ReadDrive(c)
        PROVE  Budgets'
    <2>1. {"gmail", "calendar", "contacts", "drive"} \subseteq Services /\ 1 \in Nat
      BY DEF Services
    <2> QED  BY <1>4, <2>1, Costs, ReadsKeepBudgets DEF ReadGmail, ReadCalendar, ReadContacts, ReadDrive
  <1>5. CASE Tick
    BY <1>5, TicksKeepBudgets
  <1>6. CASE StepBack
    BY <1>6, StepsBackKeepBudgets
  <1>7. CASE Restart
    BY <1>7, RestartsKeepBudgets DEF Restart
  <1> QED  BY <1>1, <1>2, <1>3, <1>4, <1>5, <1>6, <1>7 DEF Next

LEMMA BudgetsAlways == Spec => []Budgets
  <1>1. Init => Budgets
    BY BudgetsBegin DEF Init
  <1> QED  BY <1>1, BudgetsKept, PTL DEF Spec

LEMMA BudgetsAreWithin == Budgets => WithinQuota
  <1> SUFFICES ASSUME Budgets PROVE WithinQuota
    OBVIOUS
  <1>1. ASSUME NEW s \in Services, NEW a \in Accounts
        PROVE  granted[s][a] <= Capacity + (RefillPerSec * (clock - booted)) \div TicksPerSec
    <2>1. bucket[s][a] \in Bucket /\ granted[s][a] \in Nat /\ Balanced(bucket[s][a], granted[s][a])
      BY DEF Budgets, Buckets
    <2> QED  BY <2>1, BalancedIsWithin DEF Budgets
  <1>2. skew = 0 => \A d \in DOMAIN spent : spent[d] <= ProjectDaily
    BY DEF Budgets, Counted, Holds
  <1> QED  BY <1>1, <1>2 DEF WithinQuota

LEMMA BudgetsHintTightly == Budgets => HintIsTight
  <1> SUFFICES ASSUME Budgets, NEW s \in {"gmail", "calendar"}, NEW a \in Accounts,
                      NEW cost \in {Cost("threads.get"), Cost("messages.send")},
                      ~Affords(Refilled(bucket[s][a], clock), cost), cost <= Capacity
               PROVE  LET b == Refilled(bucket[s][a], clock)
                          secs == RetryAfter(b, cost)
                          then(n) == Affords(Refilled(b, clock + n * TicksPerSec), cost)
                      IN  then(secs) /\ (secs = 1 \/ ~then(secs - 1))
    BY DEF HintIsTight
  <1> DEFINE b == Refilled(bucket[s][a], clock)
  <1>1. s \in Services /\ cost \in 0 .. Capacity
    BY Costs, Rates DEF Services
  <1>2. bucket[s][a] \in Bucket /\ granted[s][a] \in Nat /\ Balanced(bucket[s][a], granted[s][a])
    BY <1>1 DEF Budgets, Buckets
  <1>3. b \in Bucket /\ b.last = clock
    BY <1>2, RefillsBalance DEF Budgets
  <1> HIDE DEF b
  <1>4. LET secs == RetryAfter(b, cost)
            then(n) == Affords(Refilled(b, b.last + n * TicksPerSec), cost)
        IN  then(secs) /\ (secs = 1 \/ ~then(secs - 1))
    BY <1>1, <1>3, HintIsLeast DEF b
  <1> QED  BY <1>3, <1>4 DEF b

(* However calls, refills, refusals and restarts interleave, no process grants an *)
(* account more than its capacity and what the elapsed time refills, and until   *)
(* the clock is set back no project more than its daily units on a UTC day       *)
(* (try_consume, refill, DailyCounter::try_consume, quota_check).                *)
THEOREM BudgetsAreKept == Spec => []WithinQuota
  BY BudgetsAlways, BudgetsAreWithin, PTL

(* The seconds a refusal names are enough and one less is not, for every         *)
(* capacity, refill rate and resolution of the clock (try_consume).              *)
THEOREM HintsAreTight == Spec => []HintIsTight
  BY BudgetsAlways, BudgetsHintTightly, PTL

--------------------------------------------------------------------------------
(* The deduplication window. What a call may rely on, by itself (`Good`), what    *)
(* the memo keeps of the calls that were told "sent" (`Kept`), and where its      *)
(* records come from (`Recorded`).                                               *)

IsMail(m) ==
    /\ m = [at |-> m.at, asked |-> m.asked, told |-> m.told, id |-> m.id, knew |-> m.knew,
            late |-> m.late]
    /\ m.asked \in Int /\ m.told \in Int

Mails ==
    /\ mail = [c \in Calls |-> mail[c]] /\ \A c \in Calls : IsMail(mail[c])
    /\ delivered \in Seq(Calls)

\* `i` names a copy of the message whose hash is `hash`.
Names(i, hash) == i \in DOMAIN delivered /\ Hash(ask[delivered[i]]) = hash

\* The caller `c` is covered by what `d` was told.
Covers(d, c) ==
    /\ d \in mail[c].knew /\ Hash(ask[c]) = Hash(ask[d])
    /\ IsWithin(mail[d].told, mail[c].asked)
    /\ ~mail[c].late /\ Hash(ask[c]) \notin undone

Good(c) ==
    /\ mail[c].at # "idle" => c \in Senders
    /\ mail[c].at \in {"idle", "check"} => ~mail[c].late /\ c \notin ToSet(delivered)
    /\ mail[c].at = "idle" => mail[c].knew = {}
    /\ \A d \in mail[c].knew :
          /\ d \in Senders /\ mail[d].at \in {"sent", "gone"}
          /\ mail[c].at = "check" => mail[d].at = "sent"
          /\ Covers(d, c) /\ mail[c].at # "check"
                => c \notin ToSet(delivered) /\ mail[c].at \notin {"prefetch", "post"}
    /\ (mail[c].at = "post" /\ rq[c].at = "ok") \/ mail[c].at = "record"
          => Names(mail[c].id, Hash(ask[c]))
    /\ mail[c].at = "deduped" => Names(mail[c].id, Hash(ask[c]))

(* A record outlives every later one of its window, unless it was undone.        *)
Kept ==
    \A d \in Sent :
       /\ Hash(ask[d]) \notin undone
       /\ \A e \in Sent : mail[e].told - mail[d].told < Window
       => Hash(ask[d]) \in DOMAIN memo /\ memo[Hash(ask[d])].at >= mail[d].told

Recorded ==
    \A h \in DOMAIN memo :
       /\ \E f \in Sent : Hash(ask[f]) = h /\ memo[h].at = mail[f].told
       /\ Names(memo[h].id, h)

Sends == Mails /\ Kept /\ Recorded /\ \A c \in Calls : Good(c)

(* Two requests have one hash exactly if they are the same message.              *)
LEMMA HashOfSameMail ==
    ASSUME NEW m1, NEW m2
    PROVE  SameMail(m1, m2) <=> Hash(m1) = Hash(m2)
  BY DEF SameMail, Hash

LEMMA SendsBegin == Init => Sends
  <1> SUFFICES ASSUME Init PROVE Sends
    OBVIOUS
  <1>1. mail = [c \in Calls |-> Idle] /\ delivered = <<>> /\ memo = <<>> /\ undone = {}
    BY DEF Init
  <1>2. Idle.at = "idle" /\ ~Idle.late /\ Idle.knew = {} /\ IsMail(Idle)
    BY DEF Idle, IsMail
  <1>3. Mails
    BY <1>1, <1>2 DEF Mails
  <1>4. ToSet(delivered) = {} /\ DOMAIN memo = {} /\ Sent = {}
    BY <1>1, <1>2 DEF ToSet, Sent, Senders
  <1>5. Kept /\ Recorded
    BY <1>4 DEF Kept, Recorded
  <1>6. \A c \in Calls : Good(c)
    BY <1>1, <1>2, <1>4 DEF Good
  <1> QED  BY <1>3, <1>5, <1>6 DEF Sends

LEMMA Delivering ==
    ASSUME Mails, NEW c \in Calls, delivered' = delivered \/ delivered' = Append(delivered, c)
    PROVE  /\ delivered' \in Seq(Calls)
           /\ \A e \in Calls \ {c} : e \notin ToSet(delivered) => e \notin ToSet(delivered')
           /\ \A i \in DOMAIN delivered : i \in DOMAIN delivered' /\ delivered'[i] = delivered[i]
           /\ delivered' = Append(delivered, c)
                => Len(delivered') \in DOMAIN delivered' /\ delivered'[Len(delivered')] = c
  <1>1. delivered \in Seq(Calls)
    BY DEF Mails
  <1>2. CASE delivered' = delivered /\ delivered' # Append(delivered, c)
    BY <1>1, <1>2
  <1>3. CASE delivered' = Append(delivered, c)
    <2>1. /\ delivered' \in Seq(Calls) /\ Len(delivered') = Len(delivered) + 1
          /\ \A i \in 1 .. Len(delivered) : delivered'[i] = delivered[i]
          /\ delivered'[Len(delivered) + 1] = c
          /\ Len(delivered) \in Nat
      BY <1>1, <1>3
    <2>2. DOMAIN delivered' = 1 .. Len(delivered) + 1 /\ DOMAIN delivered = 1 .. Len(delivered)
      BY <1>1, <2>1
    <2>3. \A i \in DOMAIN delivered' : delivered'[i] = c \/ (i \in DOMAIN delivered /\ delivered'[i] = delivered[i])
      BY <2>1, <2>2
    <2>4. \A e \in Calls \ {c} : e \notin ToSet(delivered) => e \notin ToSet(delivered')
      BY <2>3 DEF ToSet
    <2> QED  BY <2>1, <2>2, <2>4
  <1> QED  BY <1>2, <1>3

(* A call moves on, and has something delivered perhaps: the others stay good.    *)
LEMMA OthersStayGood ==
    ASSUME Sends, NEW c \in Calls, NEW m,
           mail' = [mail EXCEPT ![c] = m],
           mail[c].at \notin {"sent", "gone"},
           delivered' = delivered \/ delivered' = Append(delivered, c),
           \A e \in Calls \ {c} : rq'[e] = rq[e],
           ask' = ask, undone \subseteq undone',
           NEW e \in Calls \ {c}
    PROVE  Good(e)'
  <1>1. \A d \in Calls \ {c} : mail'[d] = mail[d]
    BY DEF Sends, Mails
  <1>2. /\ e \notin ToSet(delivered) => e \notin ToSet(delivered')
        /\ \A i \in DOMAIN delivered : i \in DOMAIN delivered' /\ delivered'[i] = delivered[i]
    BY Delivering DEF Sends
  <1>3. Senders' = Senders /\ Senders \subseteq Calls
    BY DEF Senders
  <1>4. Good(e) /\ mail'[e] = mail[e] /\ rq'[e] = rq[e]
    BY <1>1 DEF Sends
  <1>5. ASSUME NEW d \in mail[e].knew PROVE mail'[d] = mail[d] /\ d \in Senders
    BY <1>1, <1>3, <1>4 DEF Good
  <1>6. \A d \in mail[e].knew : Covers(d, e)' => Covers(d, e)
    BY <1>4, <1>5 DEF Covers, Hash, IsWithin
  <1>7. \A i : Names(i, Hash(ask[e])) => Names(i, Hash(ask[e]))'
    BY <1>2 DEF Names, Hash
  <1>8. mail'[e].at # "idle" => e \in Senders'
    BY <1>3, <1>4 DEF Good
  <1>9. mail'[e].at \in {"idle", "check"} => ~mail'[e].late /\ e \notin ToSet(delivered')
    BY <1>2, <1>4 DEF Good
  <1>10. mail'[e].at = "idle" => mail'[e].knew = {}
    BY <1>4 DEF Good
  <1>11. \A d \in mail'[e].knew :
            /\ d \in Senders' /\ mail'[d].at \in {"sent", "gone"}
            /\ mail'[e].at = "check" => mail'[d].at = "sent"
            /\ Covers(d, e)' /\ mail'[e].at # "check"
                  => e \notin ToSet(delivered') /\ mail'[e].at \notin {"prefetch", "post"}
    BY <1>2, <1>3, <1>4, <1>5, <1>6 DEF Good
  <1>12. (mail'[e].at = "post" /\ rq'[e].at = "ok") \/ mail'[e].at = "record"
            => Names(mail[e].id, Hash(ask[e]))'
    BY <1>4, <1>7 DEF Good
  <1>13. mail'[e].at = "deduped" => Names(mail[e].id, Hash(ask[e]))'
    BY <1>4, <1>7 DEF Good
  <1> QED  BY <1>8, <1>9, <1>10, <1>11, <1>12, <1>13 DEF Good, Names, Hash

(* A call moves on without being told "sent", and may have something delivered. *)
LEMMA CallMoves ==
    ASSUME Sends, NEW c \in Calls, NEW m, IsMail(m),
           mail' = [mail EXCEPT ![c] = m],
           mail[c].at \notin {"sent", "gone"}, m.at # "sent",
           delivered' = delivered \/ delivered' = Append(delivered, c),
           \A e \in Calls \ {c} : rq'[e] = rq[e],
           UNCHANGED <<ask, memo, undone>>,
           Good(c)'
    PROVE  Sends'
  <1>1. mail'[c] = m /\ \A e \in Calls \ {c} : mail'[e] = mail[e]
    BY DEF Sends, Mails
  <1>2. /\ delivered' \in Seq(Calls)
        /\ \A e \in Calls \ {c} : e \notin ToSet(delivered) => e \notin ToSet(delivered')
        /\ \A i \in DOMAIN delivered : i \in DOMAIN delivered' /\ delivered'[i] = delivered[i]
    BY Delivering DEF Sends
  <1>3. Senders' = Senders /\ Senders \subseteq Calls
    BY DEF Senders
  <1>4. Mails'
    <2>1. mail' = [e \in Calls |-> mail'[e]]
      BY DEF Sends, Mails
    <2>2. \A e \in Calls : IsMail(mail'[e])
      BY <1>1 DEF Sends, Mails
    <2> QED  BY <1>2, <2>1, <2>2 DEF Mails, IsMail
  <1>5. Sent' = Sent /\ \A e \in Sent : mail'[e] = mail[e] /\ e \in Calls
    BY <1>1, <1>3 DEF Sent
  <1>6. Kept'
    BY <1>5 DEF Sends, Kept, Hash
  <1>7. \A i, h : Names(i, h) => Names(i, h)'
    BY <1>2 DEF Names, Hash
  <1>8. Recorded'
    <2> SUFFICES ASSUME NEW h \in DOMAIN memo'
                 PROVE  /\ \E f \in Sent' : Hash(ask'[f]) = h /\ memo'[h].at = mail'[f].told
                        /\ Names(memo[h].id, h)'
      BY DEF Recorded, Hash
    <2>1. PICK f \in Sent : Hash(ask[f]) = h /\ memo[h].at = mail[f].told
      BY DEF Sends, Recorded
    <2>2. Names(memo[h].id, h)
      BY DEF Sends, Recorded
    <2> QED  BY <1>5, <1>7, <2>1, <2>2
  <1>9. ASSUME NEW e \in Calls \ {c} PROVE Good(e)'
    BY OthersStayGood
  <1> QED  BY <1>4, <1>6, <1>8, <1>9 DEF Sends

(* A request moves on, and no send is answered by it.                            *)
LEMMA RequestMoves ==
    ASSUME Sends, NEW c \in Calls,
           mail[c].at = "post" => rq'[c].at # "ok",
           \A e \in Calls \ {c} : rq'[e] = rq[e],
           UNCHANGED <<ask, mail, memo, undone, delivered>>
    PROVE  Sends'
  <1>1. Mails' /\ Kept' /\ Recorded'
    BY DEF Sends, Mails, IsMail, Kept, Recorded, Names, Sent, Senders, Hash
  <1>2. ASSUME NEW e \in Calls PROVE Good(e)'
    <2>1. Good(e) /\ (mail[e].at = "post" /\ rq'[e].at = "ok" => rq[e].at = "ok")
      BY DEF Sends
    <2> QED  BY <2>1 DEF Good, Covers, Names, Senders, Hash, IsWithin
  <1> QED  BY <1>1, <1>2 DEF Sends

LEMMA NothingMoves ==
    ASSUME Sends, UNCHANGED <<rq, ask, mail, memo, undone, delivered>>
    PROVE  Sends'
  <1>1. Mails' /\ Kept' /\ Recorded'
    BY DEF Sends, Mails, IsMail, Kept, Recorded, Names, Sent, Senders, Hash
  <1>2. \A e \in Calls : Good(e)'
    BY DEF Sends, Good, Covers, Names, Senders, Hash, IsWithin
  <1> QED  BY <1>1, <1>2 DEF Sends

(* What the assignments of a call leave of its record. *)

WithAt(m, at) == [m EXCEPT !.at = at]
WithId(m, id) == [m EXCEPT !.id = id]
WithTold(m, at, told) == [[m EXCEPT !.at = at] EXCEPT !.told = told]
WithAsked(m, at, asked, knew) == [[[m EXCEPT !.at = at] EXCEPT !.asked = asked] EXCEPT !.knew = knew]
WithChecked(m, at, id, late) == [[[m EXCEPT !.at = at] EXCEPT !.id = id] EXCEPT !.late = late]

LEMMA SetMailAt ==
    ASSUME NEW m, IsMail(m), NEW at
    PROVE  LET q == WithAt(m, at)
           IN  /\ IsMail(q)
               /\ q.at = at /\ q.asked = m.asked /\ q.told = m.told
               /\ q.id = m.id /\ q.knew = m.knew /\ q.late = m.late
  <1> DEFINE q == [m EXCEPT !.at = at]
  <1>0. WithAt(m, at) = q
    BY DEF WithAt
  <1>1. q = [at |-> at, asked |-> m.asked, told |-> m.told, id |-> m.id, knew |-> m.knew, late |-> m.late]
    BY DEF IsMail
  <1> HIDE DEF q
  <1>2. /\ IsMail(q)
        /\ q.at = at /\ q.asked = m.asked /\ q.told = m.told
        /\ q.id = m.id /\ q.knew = m.knew /\ q.late = m.late
    BY <1>1 DEF IsMail
  <1> QED  BY <1>0, <1>2

LEMMA SetMailId ==
    ASSUME NEW m, IsMail(m), NEW id
    PROVE  LET q == WithId(m, id)
           IN  /\ IsMail(q)
               /\ q.at = m.at /\ q.asked = m.asked /\ q.told = m.told
               /\ q.id = id /\ q.knew = m.knew /\ q.late = m.late
  <1> DEFINE q == [m EXCEPT !.id = id]
  <1>0. WithId(m, id) = q
    BY DEF WithId
  <1>1. q = [at |-> m.at, asked |-> m.asked, told |-> m.told, id |-> id, knew |-> m.knew, late |-> m.late]
    BY DEF IsMail
  <1> HIDE DEF q
  <1>2. /\ IsMail(q)
        /\ q.at = m.at /\ q.asked = m.asked /\ q.told = m.told
        /\ q.id = id /\ q.knew = m.knew /\ q.late = m.late
    BY <1>1 DEF IsMail
  <1> QED  BY <1>0, <1>2

LEMMA SetMailTold ==
    ASSUME NEW m, IsMail(m), NEW at, NEW told \in Int
    PROVE  LET q == WithTold(m, at, told)
           IN  /\ IsMail(q)
               /\ q.at = at /\ q.asked = m.asked /\ q.told = told
               /\ q.id = m.id /\ q.knew = m.knew /\ q.late = m.late
  <1> DEFINE m1 == [m EXCEPT !.at = at]
             q == [m1 EXCEPT !.told = told]
  <1>0. WithTold(m, at, told) = q
    BY DEF WithTold
  <1>1. m1 = [at |-> at, asked |-> m.asked, told |-> m.told, id |-> m.id, knew |-> m.knew, late |-> m.late]
    BY DEF IsMail
  <1> HIDE DEF m1
  <1>2. q = [at |-> at, asked |-> m.asked, told |-> told, id |-> m.id, knew |-> m.knew, late |-> m.late]
    BY <1>1
  <1> HIDE DEF q
  <1>3. /\ IsMail(q)
        /\ q.at = at /\ q.asked = m.asked /\ q.told = told
        /\ q.id = m.id /\ q.knew = m.knew /\ q.late = m.late
    BY <1>2 DEF IsMail
  <1> QED  BY <1>0, <1>3

LEMMA SetMailAsked ==
    ASSUME NEW m, IsMail(m), NEW at, NEW asked \in Int, NEW knew
    PROVE  LET q == WithAsked(m, at, asked, knew)
           IN  /\ IsMail(q)
               /\ q.at = at /\ q.asked = asked /\ q.told = m.told
               /\ q.id = m.id /\ q.knew = knew /\ q.late = m.late
  <1> DEFINE m1 == [m EXCEPT !.at = at]
             m2 == [m1 EXCEPT !.asked = asked]
             q == [m2 EXCEPT !.knew = knew]
  <1>0. WithAsked(m, at, asked, knew) = q
    BY DEF WithAsked
  <1>1. m1 = [at |-> at, asked |-> m.asked, told |-> m.told, id |-> m.id, knew |-> m.knew, late |-> m.late]
    BY DEF IsMail
  <1> HIDE DEF m1
  <1>2. m2 = [at |-> at, asked |-> asked, told |-> m.told, id |-> m.id, knew |-> m.knew, late |-> m.late]
    BY <1>1
  <1> HIDE DEF m2
  <1>3. q = [at |-> at, asked |-> asked, told |-> m.told, id |-> m.id, knew |-> knew, late |-> m.late]
    BY <1>2
  <1> HIDE DEF q
  <1>4. /\ IsMail(q)
        /\ q.at = at /\ q.asked = asked /\ q.told = m.told
        /\ q.id = m.id /\ q.knew = knew /\ q.late = m.late
    BY <1>3 DEF IsMail
  <1> QED  BY <1>0, <1>4

LEMMA SetMailChecked ==
    ASSUME NEW m, IsMail(m), NEW at, NEW id, NEW late
    PROVE  LET q == WithChecked(m, at, id, late)
           IN  /\ IsMail(q)
               /\ q.at = at /\ q.asked = m.asked /\ q.told = m.told
               /\ q.id = id /\ q.knew = m.knew /\ q.late = late
  <1> DEFINE m1 == [m EXCEPT !.at = at]
             m2 == [m1 EXCEPT !.id = id]
             q == [m2 EXCEPT !.late = late]
  <1>0. WithChecked(m, at, id, late) = q
    BY DEF WithChecked
  <1>1. m1 = [at |-> at, asked |-> m.asked, told |-> m.told, id |-> m.id, knew |-> m.knew, late |-> m.late]
    BY DEF IsMail
  <1> HIDE DEF m1
  <1>2. m2 = [at |-> at, asked |-> m.asked, told |-> m.told, id |-> id, knew |-> m.knew, late |-> m.late]
    BY <1>1
  <1> HIDE DEF m2
  <1>3. q = [at |-> at, asked |-> m.asked, told |-> m.told, id |-> id, knew |-> m.knew, late |-> late]
    BY <1>2
  <1> HIDE DEF q
  <1>4. /\ IsMail(q)
        /\ q.at = at /\ q.asked = m.asked /\ q.told = m.told
        /\ q.id = id /\ q.knew = m.knew /\ q.late = late
    BY <1>3 DEF IsMail
  <1> QED  BY <1>0, <1>4

LEMMA AsksKeepSends ==
    ASSUME Budgets, Sends, NEW c \in Calls, Ask(c)
    PROVE  Sends'
  <1>1. PICK at \in {"invalid", "would_send", "check"} :
           mail' = [mail EXCEPT ![c] = [mail[c] EXCEPT !.at = at, !.asked = Wall, !.knew = Sent]]
    BY DEF Ask
  <1> DEFINE wall == Wall
             knew == Sent
             m == WithAsked(mail[c], at, wall, knew)
  <1>2. IsMail(mail[c]) /\ wall \in Int
    BY TodayIsADay DEF Sends, Mails, Budgets
  <1>3. mail' = [mail EXCEPT ![c] = m]
    <2> DEFINE n == [mail[c] EXCEPT !.at = at, !.asked = wall, !.knew = knew]
    <2>1. mail' = [mail EXCEPT ![c] = n]
      BY <1>1
    <2> HIDE DEF wall, knew
    <2>2. n = m
      BY DEF WithAsked
    <2> HIDE DEF n, m
    <2> QED  BY <2>1, <2>2
  <1> HIDE DEF wall, knew
  <1>4. IsMail(m) /\ m.at = at /\ m.asked = wall /\ m.knew = knew /\ m.late = mail[c].late
    BY <1>2, SetMailAsked
  <1> HIDE DEF m
  <1>5. /\ c \in Senders /\ mail[c].at = "idle" /\ c \notin ToSet(delivered) /\ ~mail[c].late
        /\ UNCHANGED <<rq, ask, memo, undone, delivered>>
    BY DEF Ask, Sends, Good, upstreamVars
  <1>6. mail'[c] = m /\ \A e \in Calls \ {c} : mail'[e] = mail[e]
    BY <1>3 DEF Sends, Mails
  <1>7. \A d \in knew : d \in Senders /\ mail'[d].at = "sent"
    BY <1>5, <1>6 DEF knew, Sent, Senders
  <1>8. Good(c)'
    BY <1>1, <1>4, <1>5, <1>6, <1>7 DEF Good, Senders
  <1>9. m.at # "sent"
    BY <1>1, <1>4
  <1> QED  BY <1>3, <1>4, <1>5, <1>8, <1>9, CallMoves

\* The memo has a record that the check of `c` accepts.
Known(c) == Hash(ask[c]) \in DOMAIN memo /\ IsWithin(memo[Hash(ask[c])].at, mail[c].asked)

\* A record of a later time is there already.
Behind(c) == \E d \in Sent : mail[d].told > mail[c].asked

(* A call that is covered finds the record, and does not send.                   *)
LEMMA CoveredAreKnown ==
    ASSUME Sends, NEW c \in Calls, mail[c].at = "check",
           ~Behind(c), NEW d \in mail[c].knew, Covers(d, c)
    PROVE  Known(c)
  <1> DEFINE h == Hash(ask[c])
  <1>1. d \in Sent /\ Hash(ask[d]) = h /\ h \notin undone
    BY DEF Sends, Good, Covers, Sent
  <1>2. \A e \in Sent : mail[e].told \in Int /\ mail[e].told <= mail[c].asked
    BY DEF Behind, Sends, Mails, IsMail, Sent, Senders
  <1>3. mail[c].asked \in Int /\ mail[d].told \in Int /\ Window \in Nat
    BY <1>1, <1>2, SendAssumption DEF Sends, Mails, IsMail
  <1>4. 0 <= mail[c].asked - mail[d].told /\ mail[c].asked - mail[d].told < Window
    BY <1>3 DEF Covers, IsWithin
  <1>5. \A e \in Sent : mail[e].told - mail[d].told < Window
    BY <1>2, <1>3, <1>4
  <1>6. h \in DOMAIN memo /\ memo[h].at >= mail[d].told
    BY <1>1, <1>5 DEF Sends, Kept
  <1>7. PICK f \in Sent : memo[h].at = mail[f].told
    BY <1>6 DEF Sends, Recorded
  <1>8. memo[h].at \in Int /\ memo[h].at <= mail[c].asked
    BY <1>2, <1>7
  <1>9. mail[c].asked - memo[h].at \in 0 .. Window - 1
    BY <1>3, <1>4, <1>6, <1>8
  <1> QED  BY <1>6, <1>9 DEF IsWithin, Known

LEMMA CheckedMoves ==
    ASSUME Sends, NEW c \in Calls, NEW at \in {"deduped", "post", "prefetch"}, NEW id, NEW late,
           mail[c].at = "check",
           Behind(c) => late,
           mail' = [mail EXCEPT ![c] = WithChecked(mail[c], at, id, late)],
           at = "deduped" => Names(id, Hash(ask[c])),
           at # "deduped" => ~Known(c),
           at = "post" => rq'[c].at # "ok",
           \A e \in Calls \ {c} : rq'[e] = rq[e],
           UNCHANGED <<ask, memo, undone, delivered>>
    PROVE  Sends'
  <1> DEFINE m == WithChecked(mail[c], at, id, late)
  <1>1. /\ IsMail(m) /\ m.at = at /\ m.asked = mail[c].asked /\ m.id = id /\ m.knew = mail[c].knew
        /\ m.late = late
    BY SetMailChecked DEF Sends, Mails
  <1>2. mail' = [mail EXCEPT ![c] = m]
    OBVIOUS
  <1> HIDE DEF m
  <1>3. mail'[c] = m /\ \A e \in Calls \ {c} : mail'[e] = mail[e]
    BY <1>2 DEF Sends, Mails
  <1>4. c \in Senders /\ c \notin ToSet(delivered)
    BY DEF Sends, Good
  <1>5. ASSUME NEW d \in mail[c].knew
        PROVE  /\ d \in Senders /\ mail'[d] = mail[d] /\ mail[d].at = "sent"
               /\ Covers(d, c)' => at = "deduped"
    <2>1. d \in Senders /\ mail[d].at = "sent"
      BY DEF Sends, Good
    <2>2. mail'[d] = mail[d]
      BY <1>3, <2>1 DEF Senders
    <2>3. ASSUME Covers(d, c)' PROVE at = "deduped"
      <3>1. ~late /\ Hash(ask[c]) = Hash(ask[d]) /\ IsWithin(mail[d].told, mail[c].asked)
            /\ Hash(ask[c]) \notin undone
        BY <1>1, <1>3, <2>2, <2>3 DEF Covers, Hash, IsWithin
      <3>2. Covers(d, c)
        BY <3>1 DEF Covers, Sends, Good
      <3> QED  BY <3>1, <3>2, CoveredAreKnown
    <2> QED  BY <2>1, <2>2, <2>3
  <1>6. Names(id, Hash(ask[c])) => Names(id, Hash(ask[c]))'
    BY DEF Names, Hash
  <1>7. Good(c)'
    BY <1>1, <1>3, <1>4, <1>5, <1>6 DEF Good, Senders
  <1> QED  BY <1>1, <1>2, <1>7, CallMoves

LEMMA AskedRequest ==
    ASSUME Budgets, NEW c \in Calls, NEW service, NEW cost, rq' = [rq EXCEPT ![c] = Asking(service, cost)]
    PROVE  rq'[c].at = "quota" /\ \A e \in Calls \ {c} : rq'[e] = rq[e]
  <1> DEFINE r == Asking(service, cost)
  <1>1. r.at = "quota"
    BY DEF Asking
  <1> HIDE DEF r
  <1>2. rq' = [rq EXCEPT ![c] = r]
    BY DEF r
  <1> QED  BY <1>1, <1>2 DEF Budgets, Requests

LEMMA ChecksKeepSends ==
    ASSUME Budgets, Sends, NEW c \in Calls, Check(c)
    PROVE  Sends'
  <1> DEFINE hash == Hash(ask[c])
             known == hash \in DOMAIN memo /\ IsWithin(memo[hash].at, mail[c].asked)
             late == \E d \in Sent : mail[d].told > mail[c].asked
             to(at, id) == [mail[c] EXCEPT !.at = at, !.id = id, !.late = late]
  <1>0. Behind(c) => late
    BY DEF Behind
  <1>1. mail[c].at = "check" /\ UNCHANGED <<ask, memo, undone, delivered>>
    BY DEF Check
  <1>2. ASSUME NEW at, NEW id PROVE to(at, id) = WithChecked(mail[c], at, id, late)
    <2> HIDE DEF late
    <2> QED  BY DEF WithChecked
  <1>3. CASE known /\ mail' = [mail EXCEPT ![c] = to("deduped", memo[hash].id)] /\ rq' = rq
    <2> DEFINE at == "deduped"
               id == memo[hash].id
    <2>1. mail' = [mail EXCEPT ![c] = to(at, id)]
      BY <1>3
    <2>2. Names(id, hash)
      BY <1>3 DEF Sends, Recorded
    <2>3. at \in {"deduped", "post", "prefetch"} /\ at # "post" /\ at = "deduped"
      OBVIOUS
    <2> HIDE DEF at, id, to
    <2>4. mail' = [mail EXCEPT ![c] = WithChecked(mail[c], at, id, late)]
      BY <1>2, <2>1
    <2> HIDE DEF late
    <2> QED  BY <1>0, <1>1, <1>3, <2>2, <2>3, <2>4, CheckedMoves
  <1>4. CASE ~known /\ mail' = [mail EXCEPT ![c] = to("post", 0)]
             /\ rq' = [rq EXCEPT ![c] = Asking("gmail", Cost("messages.send"))]
    <2> DEFINE at == "post"
               id == 0
    <2>1. mail' = [mail EXCEPT ![c] = to(at, id)]
      BY <1>4
    <2>2. rq'[c].at = "quota" /\ \A e \in Calls \ {c} : rq'[e] = rq[e]
      BY <1>4, AskedRequest
    <2>3. at \in {"deduped", "post", "prefetch"} /\ at # "deduped"
      OBVIOUS
    <2> HIDE DEF at, id, to
    <2>4. mail' = [mail EXCEPT ![c] = WithChecked(mail[c], at, id, late)]
      BY <1>2, <2>1
    <2>5. rq'[c].at # "ok"
      BY <2>2
    <2>6. ~Known(c)
      BY <1>4 DEF Known
    <2> HIDE DEF late, known, hash
    <2> QED  BY <1>1, <2>5, <2>2, <2>3, <2>4, <2>6, <1>0, CheckedMoves
  <1>5. CASE ~known /\ mail' = [mail EXCEPT ![c] = to("prefetch", 0)]
             /\ rq' = [rq EXCEPT ![c] = Asking("gmail", Cost("threads.get"))]
    <2> DEFINE at == "prefetch"
               id == 0
    <2>1. mail' = [mail EXCEPT ![c] = to(at, id)]
      BY <1>5
    <2>2. \A e \in Calls \ {c} : rq'[e] = rq[e]
      BY <1>5, AskedRequest
    <2>3. at \in {"deduped", "post", "prefetch"} /\ at # "deduped" /\ at # "post"
      OBVIOUS
    <2> HIDE DEF at, id, to
    <2>4. mail' = [mail EXCEPT ![c] = WithChecked(mail[c], at, id, late)]
      BY <1>2, <2>1
    <2>6. ~Known(c)
      BY <1>5 DEF Known
    <2> HIDE DEF late, known, hash
    <2> QED  BY <1>1, <2>2, <2>3, <2>4, <2>6, <1>0, CheckedMoves
  <1> QED  BY <1>3, <1>4, <1>5 DEF Check

(* A call whose times and knowledge stay, and which is neither checked nor about *)
(* to send because of a message it is covered by, stays good.                    *)
LEMMA StaysGood ==
    ASSUME Sends, NEW c \in Senders, NEW m, IsMail(m), mail' = [mail EXCEPT ![c] = m],
           mail[c].at \notin {"idle", "check", "sent", "gone"},
           m.at \notin {"idle", "check", "deduped"},
           m.asked = mail[c].asked /\ m.knew = mail[c].knew /\ m.late = mail[c].late,
           delivered' = delivered \/ (delivered' = Append(delivered, c) /\ mail[c].at = "post"),
           m.at = "prefetch" => mail[c].at = "prefetch",
           m.at = "post" => mail[c].at \in {"prefetch", "post"},
           (m.at = "post" /\ rq'[c].at = "ok") \/ m.at = "record"
              => m.id \in DOMAIN delivered' /\ Hash(ask[delivered'[m.id]]) = Hash(ask[c]),
           ask' = ask, undone \subseteq undone'
    PROVE  Good(c)'
  <1>1. c \in Calls /\ Good(c)
    BY DEF Sends, Senders
  <1>2. mail'[c] = m /\ \A e \in Calls \ {c} : mail'[e] = mail[e]
    BY <1>1 DEF Sends, Mails
  <1>3. ASSUME NEW d \in mail[c].knew
        PROVE  /\ d \in Senders /\ mail'[d].at \in {"sent", "gone"}
               /\ Covers(d, c)' => c \notin ToSet(delivered') /\ m.at \notin {"prefetch", "post"}
    <2>1. d \in Senders /\ mail[d].at \in {"sent", "gone"}
      BY <1>1 DEF Good
    <2>2. mail'[d] = mail[d]
      BY <1>2, <2>1 DEF Senders
    <2>3. ASSUME Covers(d, c)' PROVE c \notin ToSet(delivered') /\ m.at \notin {"prefetch", "post"}
      <3>1. Covers(d, c)
        BY <1>2, <2>2, <2>3 DEF Covers, Hash, IsWithin
      <3>2. c \notin ToSet(delivered) /\ mail[c].at \notin {"prefetch", "post"}
        BY <1>1, <3>1 DEF Good
      <3> QED  BY <3>2
    <2> QED  BY <2>1, <2>2, <2>3
  <1>4. c \in Senders'
    BY DEF Senders
  <1>5. Senders' = Senders /\ mail'[c].knew = mail[c].knew
    BY <1>2 DEF Senders
  <1> QED  BY <1>2, <1>3, <1>4, <1>5 DEF Good, Names, Hash

LEMMA PrefetchedKeepsSends ==
    ASSUME Budgets, Sends, NEW c \in Calls, Prefetched(c)
    PROVE  Sends'
  <1> DEFINE at == "post"
             m == WithAt(mail[c], at)
  <1>1. mail' = [mail EXCEPT ![c] = m]
    BY DEF Prefetched, WithAt
  <1>2. /\ mail[c].at = "prefetch" /\ UNCHANGED <<ask, memo, undone, delivered>>
        /\ c \in Senders
    BY DEF Prefetched, Sends, Good
  <1>3. rq'[c].at = "quota" /\ \A e \in Calls \ {c} : rq'[e] = rq[e]
    BY AskedRequest DEF Prefetched
  <1>4. at = "post"
    OBVIOUS
  <1> HIDE DEF at
  <1>5. /\ IsMail(m) /\ m.at = at /\ m.asked = mail[c].asked /\ m.knew = mail[c].knew
        /\ m.late = mail[c].late
    BY SetMailAt DEF Sends, Mails
  <1> HIDE DEF m
  <1>6. Good(c)'
    BY <1>1, <1>2, <1>3, <1>4, <1>5, StaysGood
  <1> QED  BY <1>1, <1>2, <1>3, <1>4, <1>5, <1>6, CallMoves

LEMMA PostedKeepsSends ==
    ASSUME Budgets, Sends, NEW c \in Calls, Posted(c)
    PROVE  Sends'
  <1> DEFINE at == "record"
             wall == Wall
             m == WithTold(mail[c], at, wall)
  <1>1. mail' = [mail EXCEPT ![c] = m]
    <2> DEFINE n == [mail[c] EXCEPT !.at = at, !.told = wall]
    <2>1. mail' = [mail EXCEPT ![c] = n]
      BY DEF Posted
    <2> HIDE DEF at, wall
    <2>2. n = m
      BY DEF WithTold
    <2> HIDE DEF n, m
    <2> QED  BY <2>1, <2>2
  <1>2. /\ mail[c].at = "post" /\ UNCHANGED <<rq, ask, memo, undone, delivered>>
        /\ c \in Senders /\ Names(mail[c].id, Hash(ask[c]))
    BY DEF Posted, Sends, Good, upstreamVars
  <1>3. at = "record" /\ wall \in Int
    BY TodayIsADay DEF Budgets
  <1> HIDE DEF at, wall
  <1>4. /\ IsMail(m) /\ m.at = at /\ m.asked = mail[c].asked /\ m.knew = mail[c].knew
        /\ m.late = mail[c].late /\ m.id = mail[c].id
    BY <1>3, SetMailTold DEF Sends, Mails
  <1> HIDE DEF m
  <1>5. m.id \in DOMAIN delivered' /\ Hash(ask[delivered'[m.id]]) = Hash(ask[c])
    BY <1>2, <1>4 DEF Names
  <1>6. Good(c)'
    BY <1>1, <1>2, <1>3, <1>4, <1>5, StaysGood
  <1> QED  BY <1>1, <1>2, <1>3, <1>4, <1>6, CallMoves

LEMMA SendFailsKeepsSends ==
    ASSUME Sends, NEW c \in Calls, SendFails(c)
    PROVE  Sends'
  <1> DEFINE at == "failed"
             m == WithAt(mail[c], at)
  <1>1. mail' = [mail EXCEPT ![c] = m]
    BY DEF SendFails, WithAt
  <1>2. /\ mail[c].at \in {"prefetch", "post"} /\ UNCHANGED <<rq, ask, memo, undone, delivered>>
        /\ c \in Senders
    BY DEF SendFails, Sends, Good, upstreamVars
  <1>3. at = "failed"
    OBVIOUS
  <1> HIDE DEF at
  <1>4. /\ IsMail(m) /\ m.at = at /\ m.asked = mail[c].asked /\ m.knew = mail[c].knew
        /\ m.late = mail[c].late
    BY SetMailAt DEF Sends, Mails
  <1> HIDE DEF m
  <1>5. Good(c)'
    BY <1>1, <1>2, <1>3, <1>4, StaysGood
  <1> QED  BY <1>1, <1>2, <1>3, <1>4, <1>5, CallMoves

LEMMA DropKeepsSends ==
    ASSUME Budgets, Sends, NEW c \in Calls, Drop(c)
    PROVE  Sends'
  <1> DEFINE at == "dropped"
             m == WithAt(mail[c], at)
             r == NoRequest
  <1>1. mail' = [mail EXCEPT ![c] = m]
    BY DEF Drop, WithAt
  <1>2. rq' = [rq EXCEPT ![c] = r]
    BY DEF Drop
  <1> HIDE DEF r
  <1>3. \A e \in Calls \ {c} : rq'[e] = rq[e]
    BY <1>2 DEF Budgets, Requests
  <1>4. /\ mail[c].at \in {"check", "prefetch", "post", "record"} /\ UNCHANGED <<ask, memo, undone>>
        /\ c \in Senders
        /\ delivered' = delivered \/ (delivered' = Append(delivered, c) /\ mail[c].at = "post")
    BY DEF Drop, Pending, Sends, Good
  <1>5. at = "dropped"
    OBVIOUS
  <1> HIDE DEF at
  <1>6. /\ IsMail(m) /\ m.at = at /\ m.asked = mail[c].asked /\ m.knew = mail[c].knew
        /\ m.late = mail[c].late
    BY SetMailAt DEF Sends, Mails
  <1> HIDE DEF m
  <1>7. Good(c)'
    <2>1. CASE mail[c].at = "check"
      <3>1. Good(c) /\ c \notin ToSet(delivered') /\ mail'[c] = m
        BY <1>1, <1>4, <2>1 DEF Sends, Good, Mails
      <3>2. Senders' = Senders
        BY <1>4 DEF Senders
      <3>3. \A d \in mail[c].knew : d \in Senders /\ mail[d].at = "sent" /\ mail'[d] = mail[d]
        BY <1>1, <2>1, <3>1 DEF Good, Sends, Mails, Senders
      <3> QED  BY <1>4, <1>5, <1>6, <3>1, <3>2, <3>3 DEF Good
    <2>2. CASE mail[c].at # "check"
      BY <1>1, <1>4, <1>5, <1>6, <2>2, StaysGood
    <2> QED  BY <2>1, <2>2
  <1> QED  BY <1>1, <1>3, <1>4, <1>5, <1>6, <1>7, CallMoves

(* Gmail names the message of the attempt it took.                               *)
LEMMA AttemptsKeepSends ==
    ASSUME Budgets, Sends, NEW c \in Calls, Attempt(c)
    PROVE  Sends'
  <1>1. PICK answer \in Answers, took \in BOOLEAN :
           /\ Exchange(c, answer, took)
           /\ IF took /\ c \in Senders /\ mail[c].at = "post"
              THEN /\ delivered' = Append(delivered, c)
                   /\ mail' = IF answer = "ok" THEN [mail EXCEPT ![c].id = Len(delivered')] ELSE mail
              ELSE UNCHANGED <<delivered, mail>>
           /\ UNCHANGED <<ask, memo, undone>>
    BY DEF Attempt
  <1>2. /\ rq'[c].at = "ok" => answer = "ok"
        /\ \A e \in Calls \ {c} : rq'[e] = rq[e]
    BY <1>1, ExchangesKeepBudgets
  <1>3. answer = "ok" => took
    BY <1>1 DEF Exchange
  <1>4. Good(c) /\ IsMail(mail[c]) /\ mail = [mail EXCEPT ![c] = mail[c]]
    BY DEF Sends, Mails
  <1>5. CASE took /\ c \in Senders /\ mail[c].at = "post" /\ answer = "ok"
    <2> DEFINE id == Len(delivered')
               m == WithId(mail[c], id)
    <2>1. mail' = [mail EXCEPT ![c] = m] /\ delivered' = Append(delivered, c)
      BY <1>1, <1>5 DEF WithId
    <2>2. id \in DOMAIN delivered' /\ delivered'[id] = c
      BY <2>1, Delivering DEF Sends
    <2> HIDE DEF id
    <2>3. /\ IsMail(m) /\ m.at = mail[c].at /\ m.asked = mail[c].asked /\ m.knew = mail[c].knew
          /\ m.late = mail[c].late /\ m.id = id
      BY <1>4, SetMailId
    <2> HIDE DEF m
    <2>4. Good(c)'
      BY <1>1, <1>5, <2>1, <2>2, <2>3, StaysGood
    <2> QED  BY <1>1, <1>2, <1>5, <2>1, <2>3, <2>4, CallMoves
  <1>6. CASE took /\ c \in Senders /\ mail[c].at = "post" /\ answer # "ok"
    <2> DEFINE m == mail[c]
    <2>1. mail' = [mail EXCEPT ![c] = m] /\ delivered' = Append(delivered, c)
      BY <1>1, <1>4, <1>6
    <2>2. IsMail(m) /\ m.at = "post" /\ m = mail[c]
      BY <1>4, <1>6
    <2> HIDE DEF m
    <2>4. Good(c)'
      BY <1>1, <1>2, <1>6, <2>1, <2>2, StaysGood
    <2> QED  BY <1>1, <1>2, <1>6, <2>1, <2>2, <2>4, CallMoves
  <1>7. CASE ~(took /\ c \in Senders /\ mail[c].at = "post")
    <2>1. UNCHANGED <<ask, mail, memo, undone, delivered>>
      BY <1>1, <1>7
    <2>2. mail[c].at = "post" => rq'[c].at # "ok"
      BY <1>2, <1>3, <1>4, <1>7 DEF Good
    <2> QED  BY <1>2, <2>1, <2>2, RequestMoves
  <1> QED  BY <1>5, <1>6, <1>7

(* The record is made under the lock: what it does not undo, it keeps.           *)
LEMMA RecordsKeepSends ==
    ASSUME Budgets, Sends, NEW c \in Calls, Record(c)
    PROVE  Sends'
  <1> DEFINE at == "sent"
             m == WithAt(mail[c], at)
             h0 == Hash(ask[c])
             now == mail[c].told
             id == mail[c].id
             r0 == [id |-> id, at |-> now]
  <1>1. mail' = [mail EXCEPT ![c] = m]
    BY DEF Record, WithAt
  <1>2. /\ mail[c].at = "record" /\ UNCHANGED <<rq, ask, delivered>>
        /\ c \in Senders /\ Names(id, h0)
    BY DEF Record, Sends, Good, upstreamVars
  <1>3. memo' = [h \in {h0} \cup {k \in DOMAIN memo : IsWithin(memo[k].at, now)} |->
                    IF h = h0 THEN r0 ELSE memo[h]]
    BY DEF Record, RecordSend
  <1>4. undone' = undone \cup {h \in DOMAIN memo : memo[h].at > now}
    BY DEF Record
  <1>5. r0.at = now /\ r0.id = id
    OBVIOUS
  <1>6. at = "sent"
    OBVIOUS
  <1> HIDE DEF at, r0
  <1>7. /\ IsMail(m) /\ m.at = at /\ m.asked = mail[c].asked /\ m.knew = mail[c].knew
        /\ m.late = mail[c].late /\ m.told = now
    BY SetMailAt DEF Sends, Mails
  <1> HIDE DEF m
  <1>8. mail'[c] = m /\ \A e \in Calls \ {c} : mail'[e] = mail[e]
    BY <1>1 DEF Sends, Mails
  <1>9. Senders' = Senders /\ Senders \subseteq Calls
    BY <1>2 DEF Senders
  <1>10. Sent' = Sent \cup {c} /\ c \notin Sent
    BY <1>2, <1>6, <1>7, <1>8, <1>9 DEF Sent
  <1>11. /\ \A e \in Sent : e \in Calls /\ mail'[e] = mail[e] /\ mail[e].told \in Int
         /\ now \in Int /\ Window \in Nat
    BY <1>8, <1>9, <1>10, SendAssumption DEF Sends, Mails, IsMail, Sent
  <1>12. Mails'
    <2>1. mail' = [e \in Calls |-> mail'[e]] /\ delivered' \in Seq(Calls)
      BY <1>1, <1>2 DEF Sends, Mails
    <2>2. \A e \in Calls : IsMail(mail'[e])
      BY <1>7, <1>8 DEF Sends, Mails
    <2> QED  BY <2>1, <2>2 DEF Mails, IsMail
  <1>13. ASSUME NEW d \in Sent', Hash(ask[d]) \notin undone',
                \A e \in Sent' : mail'[e].told - mail'[d].told < Window
         PROVE  Hash(ask[d]) \in DOMAIN memo' /\ memo'[Hash(ask[d])].at >= mail'[d].told
    <2>1. CASE Hash(ask[d]) = h0 /\ d = c
      <3>1. h0 \in DOMAIN memo' /\ memo'[h0] = r0
        BY <1>3
      <3> QED  BY <1>5, <1>7, <1>8, <1>11, <2>1, <3>1
    <2>2. CASE d # c
      <3> DEFINE h == Hash(ask[d])
      <3>1. d \in Sent /\ h \notin undone /\ mail'[d] = mail[d]
        BY <1>4, <1>10, <1>11, <1>13, <2>2
      <3>2. \A e \in Sent : mail[e].told - mail[d].told < Window
        BY <1>10, <1>11, <1>13, <3>1
      <3>3. h \in DOMAIN memo /\ memo[h].at >= mail[d].told
        BY <3>1, <3>2 DEF Sends, Kept
      <3>4. PICK f \in Sent : memo[h].at = mail[f].told
        BY <3>3 DEF Sends, Recorded
      <3>5. memo[h].at \in Int /\ memo[h].at <= now
        BY <1>4, <1>11, <1>13, <3>3, <3>4
      <3>6. now - mail[d].told < Window
        BY <1>7, <1>8, <1>10, <1>13, <3>1
      <3>7. now - memo[h].at \in 0 .. Window - 1
        BY <1>11, <3>1, <3>3, <3>5, <3>6
      <3>8. h \in DOMAIN memo' /\ memo'[h] = IF h = h0 THEN r0 ELSE memo[h]
        BY <1>3, <3>3, <3>7 DEF IsWithin
      <3>9. memo'[h].at >= mail[d].told
        BY <1>5, <1>11, <3>1, <3>3, <3>5, <3>8
      <3> QED  BY <3>1, <3>8, <3>9
    <2> QED  BY <2>1, <2>2
  <1>14. Kept'
    BY <1>2, <1>13 DEF Kept, Hash
  <1>15. Recorded'
    <2> SUFFICES ASSUME NEW h \in DOMAIN memo'
                 PROVE  /\ \E f \in Sent' : Hash(ask[f]) = h /\ memo'[h].at = mail'[f].told
                        /\ memo'[h].id \in DOMAIN delivered
                        /\ Hash(ask[delivered[memo'[h].id]]) = h
      BY <1>2 DEF Recorded, Names, Hash
    <2>1. CASE h = h0
      <3>1. memo'[h] = r0
        BY <1>3, <2>1
      <3> QED  BY <1>2, <1>5, <1>7, <1>8, <1>10, <2>1, <3>1 DEF Names
    <2>2. CASE h # h0
      <3>1. h \in DOMAIN memo /\ memo'[h] = memo[h]
        BY <1>3, <2>2
      <3>2. PICK f \in Sent : Hash(ask[f]) = h /\ memo[h].at = mail[f].told
        BY <3>1 DEF Sends, Recorded
      <3>3. Names(memo[h].id, h)
        BY <3>1 DEF Sends, Recorded
      <3> QED  BY <1>10, <1>11, <3>1, <3>2, <3>3 DEF Names
    <2> QED  BY <2>1, <2>2
  <1>16. Good(c)'
    BY <1>1, <1>2, <1>4, <1>6, <1>7, StaysGood
  <1>17. \A e \in Calls \ {c} : Good(e)'
    BY <1>1, <1>2, <1>4, OthersStayGood
  <1> QED  BY <1>12, <1>14, <1>15, <1>16, <1>17 DEF Sends

LEMMA RestartsKeepSends ==
    ASSUME Sends, Restart
    PROVE  Sends'
  <1> DEFINE at == "gone"
             m(e) == IF mail[e].at = "idle" THEN mail[e] ELSE WithAt(mail[e], at)
  <1>1. mail' = [e \in Calls |-> m(e)]
    BY DEF Restart, WithAt
  <1>2. /\ memo' = <<>> /\ UNCHANGED <<ask, undone, delivered>>
    BY DEF Restart
  <1>3. at = "gone"
    OBVIOUS
  <1> HIDE DEF at
  <1>4. ASSUME NEW e \in Calls
        PROVE  /\ IsMail(mail'[e])
               /\ mail'[e].asked = mail[e].asked /\ mail'[e].told = mail[e].told
               /\ mail'[e].knew = mail[e].knew /\ mail'[e].late = mail[e].late
               /\ mail'[e].at = IF mail[e].at = "idle" THEN "idle" ELSE "gone"
    <2>1. CASE mail[e].at = "idle"
      BY <1>1, <2>1 DEF Sends, Mails
    <2>2. CASE mail[e].at # "idle"
      <3> DEFINE q == WithAt(mail[e], at)
      <3>1. mail'[e] = q
        BY <1>1, <2>2
      <3>2. /\ IsMail(q) /\ q.at = at /\ q.asked = mail[e].asked /\ q.told = mail[e].told
            /\ q.knew = mail[e].knew /\ q.late = mail[e].late
        BY SetMailAt DEF Sends, Mails
      <3> HIDE DEF q
      <3> QED  BY <1>3, <2>2, <3>1, <3>2
    <2> QED  BY <2>1, <2>2
  <1>5. Mails'
    BY <1>1, <1>2, <1>4 DEF Sends, Mails, IsMail
  <1>6. Senders' = Senders /\ Senders \subseteq Calls
    BY <1>2 DEF Senders
  <1>7. Sent' = {} /\ DOMAIN memo' = {}
    BY <1>2, <1>4, <1>6 DEF Sent
  <1>8. Kept' /\ Recorded'
    BY <1>7 DEF Kept, Recorded
  <1>9. ASSUME NEW e \in Calls PROVE Good(e)'
    <2>1. Good(e)
      BY DEF Sends
    <2>2. ASSUME NEW d \in mail[e].knew
          PROVE  /\ d \in Senders /\ mail'[d].at = "gone"
                 /\ Covers(d, e)' => Covers(d, e)
                 /\ Covers(d, e) => e \notin ToSet(delivered)
      <3>1. d \in Calls /\ d \in Senders /\ mail[d].at # "idle"
        BY <2>1, <1>6 DEF Good
      <3>2. mail'[d].at = "gone" /\ mail'[d].told = mail[d].told
        BY <1>4, <3>1
      <3>3. Covers(d, e)' => Covers(d, e)
        BY <1>2, <1>4, <3>2 DEF Covers, Hash, IsWithin
      <3>4. Covers(d, e) => e \notin ToSet(delivered)
        BY <2>1 DEF Good
      <3> QED  BY <3>1, <3>2, <3>3, <3>4
    <2>3. mail'[e].knew = mail[e].knew /\ mail'[e].late = mail[e].late
      BY <1>4
    <2>4. mail'[e].at = IF mail[e].at = "idle" THEN "idle" ELSE "gone"
      BY <1>4
    <2> QED  BY <1>2, <1>6, <2>1, <2>2, <2>3, <2>4 DEF Good
  <1> QED  BY <1>5, <1>8, <1>9 DEF Sends

LEMMA SendsKept == Budgets /\ Sends /\ [Next]_vars => Sends'
  <1> SUFFICES ASSUME Budgets, Sends, [Next]_vars PROVE Sends'
    OBVIOUS
  <1>1. CASE UNCHANGED vars
    BY <1>1, NothingMoves DEF vars, upstreamVars
  <1>2. ASSUME NEW c \in Calls, CallStep(c) PROVE Sends'
    <2>1. CASE Check(c) \/ Prefetched(c) \/ Posted(c) \/ Record(c) \/ SendFails(c)
      BY <2>1, ChecksKeepSends, PrefetchedKeepsSends, PostedKeepsSends, RecordsKeepSends,
         SendFailsKeepsSends
    <2>2. CASE Attempt(c)
      BY <2>2, AttemptsKeepSends
    <2>3. CASE QuotaCheck(c) /\ Quiet
      BY <2>3, QuotaChecksKeepBudgets, RequestMoves DEF Quiet
    <2>4. CASE Wake(c) /\ Quiet
      <3>1. rq'[c].at = "send" /\ \A d \in Calls \ {c} : rq'[d] = rq[d]
        BY <2>4, WakingKeepsBudgets
      <3> QED  BY <2>4, <3>1, RequestMoves DEF Quiet
    <2> QED  BY <1>2, <2>1, <2>2, <2>3, <2>4 DEF CallStep
  <1>3. ASSUME NEW c \in Calls, Ask(c) \/ Drop(c) PROVE Sends'
    BY <1>3, AsksKeepSends, DropKeepsSends
  <1>4. ASSUME NEW c \in Calls, ReadGmail(c) \/ ReadCalendar(c) \/ ReadContacts(c) \/ ReadDrive(c)
        PROVE  Sends'
    <2>1. ASSUME NEW service, NEW cost, Read(c, service, cost) PROVE Sends'
      <3>1. rq'[c].at = "quota" /\ \A e \in Calls \ {c} : rq'[e] = rq[e]
        BY <2>1, AskedRequest DEF Read
      <3>2. UNCHANGED <<ask, mail, memo, undone, delivered>>
        BY <2>1 DEF Read
      <3> QED  BY <3>1, <3>2, RequestMoves
    <2> QED  BY <1>4, <2>1 DEF ReadGmail, ReadCalendar, ReadContacts, ReadDrive
  <1>5. CASE (Tick \/ StepBack) /\ Quiet
    BY <1>5, NothingMoves DEF Tick, StepBack, Quiet
  <1>6. CASE Restart
    BY <1>6, RestartsKeepSends
  <1> QED  BY <1>1, <1>2, <1>3, <1>4, <1>5, <1>6 DEF Next

LEMMA SendsAlways == Spec => []Sends
  <1>1. Init => Sends
    BY SendsBegin
  <1> QED  BY <1>1, SendsKept, BudgetsAlways, PTL DEF Spec

LEMMA SendsAreOnce == Sends => SentOnceWithinWindow
  <1> SUFFICES ASSUME Sends PROVE SentOnceWithinWindow
    OBVIOUS
  <1>1. ASSUME NEW c \in Senders, NEW d \in Senders, d \in mail[c].knew, SameMail(ask[c], ask[d]),
               IsWithin(mail[d].told, mail[c].asked), ~mail[c].late, Hash(ask[c]) \notin undone
        PROVE  c \notin ToSet(delivered)
    <2>1. Good(c)
      BY DEF Sends, Senders
    <2>2. Hash(ask[c]) = Hash(ask[d])
      BY <1>1, HashOfSameMail
    <2>3. Covers(d, c)
      BY <1>1, <2>2 DEF Covers
    <2> QED  BY <1>1, <2>1, <2>3 DEF Good
  <1>2. ASSUME NEW c \in Senders, mail[c].at = "deduped"
        PROVE  mail[c].id \in DOMAIN delivered /\ SameMail(ask[delivered[mail[c].id]], ask[c])
    <2>1. Names(mail[c].id, Hash(ask[c]))
      BY <1>2 DEF Sends, Good, Senders
    <2> QED  BY <2>1, HashOfSameMail DEF Names
  <1> QED  BY <1>1, <1>2 DEF SentOnceWithinWindow, DedupedNamesASend

(* Whatever else is sent, refused, dropped, retried or restarted in between, a    *)
(* caller that asks after the same message was answered "sent" gets no second    *)
(* copy sent within the window, and "deduped" names a message that Gmail sent    *)
(* (should_send, record_send, dedup_hash); the exceptions are those of the        *)
(* property: a record of a later time came before the check or the record.       *)
THEOREM NobodyIsSentTwice == Spec => []SentOnceWithinWindow
  BY SendsAlways, SendsAreOnce, PTL

================================================================================
