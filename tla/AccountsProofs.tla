----------------------------- MODULE AccountsProofs -----------------------------
(* Proofs about Accounts, for any number of processes, aliases and commands.      *)
EXTENDS Accounts, Induction, FiniteSetTheorems, SequenceTheorems

--------------------------------------------------------------------------------
(* Others, which is defined by recursion over a registry.                         *)

KeptUpTo(r, a, g, n) ==
  g = [i \in 0 .. n |-> IF i = 0 THEN <<>> ELSE IF r[i].alias # a THEN Append(g[i - 1], r[i]) ELSE g[i - 1]]

LEMMA KeptExists == ASSUME NEW r, NEW a, NEW m \in Nat PROVE \E g : KeptUpTo(r, a, g, m)
<1> DEFINE T == {n \in Nat : \E g : KeptUpTo(r, a, g, n)}
<1>1. 0 \in T
  <2>1. KeptUpTo(r, a, [i \in 0 .. 0 |-> <<>>], 0) BY DEF KeptUpTo
  <2> QED BY <2>1
<1>2. ASSUME NEW n \in Nat, n \in T PROVE n + 1 \in T
  <2>1. PICK g : KeptUpTo(r, a, g, n) BY <1>2
  <2> DEFINE last == IF r[n + 1].alias # a THEN Append(g[n], r[n + 1]) ELSE g[n]
             h == [i \in 0 .. n + 1 |-> IF i = n + 1 THEN last ELSE g[i]]
  <2>2. \A i \in 0 .. n + 1 : i - 1 \in 0 .. n \/ i = 0 OBVIOUS
  <2>3. ASSUME NEW i \in 0 .. n + 1
        PROVE  h[i] = IF i = 0 THEN <<>> ELSE IF r[i].alias # a THEN Append(h[i - 1], r[i]) ELSE h[i - 1]
    <3>1. CASE i = n + 1
      <4>1. h[i] = last /\ h[i - 1] = g[n] BY <3>1
      <4> QED BY <3>1, <4>1
    <3>2. CASE i \in 0 .. n
      <4>1. h[i] = g[i] /\ (i # 0 => h[i - 1] = g[i - 1]) BY <3>2
      <4>2. g[i] = IF i = 0 THEN <<>> ELSE IF r[i].alias # a THEN Append(g[i - 1], r[i]) ELSE g[i - 1]
        BY <2>1, <3>2 DEF KeptUpTo
      <4> QED BY <4>1, <4>2
    <3> QED BY <3>1, <3>2
  <2>4. DOMAIN h = 0 .. n + 1 /\ h = [i \in 0 .. n + 1 |-> h[i]] OBVIOUS
  <2> HIDE DEF h, last
  <2>5. KeptUpTo(r, a, h, n + 1) BY <2>3, <2>4 DEF KeptUpTo
  <2> QED BY <2>5
<1> HIDE DEF T
<1>3. Nat \subseteq T BY <1>1, <1>2, SetInduction
<1> QED BY <1>3 DEF T

LEMMA OthersByPrefix ==
  ASSUME NEW r, NEW a, Len(r) \in Nat
  PROVE  \E g : KeptUpTo(r, a, g, Len(r)) /\ Others(r, a) = g[Len(r)]
<1> DEFINE k == CHOOSE g : KeptUpTo(r, a, g, Len(r))
<1>1. KeptUpTo(r, a, k, Len(r)) BY KeptExists
<1>2. Others(r, a) = k[Len(r)] BY DEF Others, KeptUpTo
<1> QED BY <1>1, <1>2

(* h says where each entry that is left stood: order and entries are kept, and    *)
(* every entry of another alias is there.                                         *)
Picks(left, r, a, n, h) ==
  /\ h \in [1 .. Len(left) -> 1 .. n]
  /\ \A i, j \in 1 .. Len(left) : i < j => h[i] < h[j]
  /\ \A i \in 1 .. Len(left) : left[i] = r[h[i]] /\ r[h[i]].alias # a
  /\ \A j \in 1 .. n : r[j].alias # a => \E i \in 1 .. Len(left) : h[i] = j

LEMMA PickNone ==
  ASSUME NEW r, NEW a, NEW left, Len(left) \in Nat, NEW n \in Nat, NEW h, Picks(left, r, a, n, h), r[n + 1].alias = a
  PROVE  Picks(left, r, a, n + 1, h)
<1>1. h \in [1 .. Len(left) -> 1 .. n + 1] BY DEF Picks
<1>2. \A j \in 1 .. n + 1 : r[j].alias # a => \E i \in 1 .. Len(left) : h[i] = j BY DEF Picks
<1> QED BY <1>1, <1>2 DEF Picks

LEMMA PickOne ==
  ASSUME NEW S, NEW r, NEW a, NEW left \in Seq(S), NEW n \in Nat, NEW h, Picks(left, r, a, n, h),
         r[n + 1] \in S, r[n + 1].alias # a
  PROVE  \E k : Picks(Append(left, r[n + 1]), r, a, n + 1, k)
<1> DEFINE more == Append(left, r[n + 1])
           k == [i \in 1 .. Len(left) + 1 |-> IF i = Len(left) + 1 THEN n + 1 ELSE h[i]]
<1>1. /\ Len(left) \in Nat /\ Len(more) = Len(left) + 1
      /\ more[Len(left) + 1] = r[n + 1]
      /\ \A i \in 1 .. Len(left) : more[i] = left[i]
  OBVIOUS
<1>2. h \in [1 .. Len(left) -> 1 .. n] BY DEF Picks
<1>3. /\ k[Len(left) + 1] = n + 1
      /\ \A i \in 1 .. Len(left) : k[i] = h[i] /\ k[i] \in 1 .. n
  BY <1>1, <1>2
<1>4. k \in [1 .. Len(more) -> 1 .. n + 1] BY <1>1, <1>2
<1> HIDE DEF k, more
<1>5. ASSUME NEW i \in 1 .. Len(more), NEW j \in 1 .. Len(more), i < j PROVE k[i] < k[j]
  <2>1. i \in 1 .. Len(left) BY <1>1, <1>5
  <2>2. CASE j = Len(left) + 1 BY <1>3, <2>1, <2>2
  <2>3. CASE j \in 1 .. Len(left) BY <1>3, <1>5, <2>1, <2>3 DEF Picks
  <2> QED BY <1>1, <2>2, <2>3
<1>6. ASSUME NEW i \in 1 .. Len(more) PROVE more[i] = r[k[i]] /\ r[k[i]].alias # a
  <2>1. CASE i = Len(left) + 1 BY <1>1, <1>3, <2>1
  <2>2. CASE i \in 1 .. Len(left) BY <1>1, <1>3, <2>2 DEF Picks
  <2> QED BY <1>1, <2>1, <2>2
<1>7. ASSUME NEW j \in 1 .. n + 1, r[j].alias # a PROVE \E i \in 1 .. Len(more) : k[i] = j
  <2>1. CASE j = n + 1 BY <1>1, <1>3, <2>1
  <2>2. CASE j \in 1 .. n
    <3>1. PICK i \in 1 .. Len(left) : h[i] = j BY <1>7, <2>2 DEF Picks
    <3> QED BY <1>1, <1>3, <3>1
  <2> QED BY <2>1, <2>2
<1>8. Picks(more, r, a, n + 1, k) BY <1>4, <1>5, <1>6, <1>7 DEF Picks
<1> QED BY <1>8 DEF more

LEMMA OthersAreLeft ==
  ASSUME NEW S, NEW r \in Seq(S), NEW a
  PROVE  Others(r, a) \in Seq(S) /\ \E h : Picks(Others(r, a), r, a, Len(r), h)
<1>1. Len(r) \in Nat /\ \A i \in 1 .. Len(r) : r[i] \in S OBVIOUS
<1>2. PICK g : KeptUpTo(r, a, g, Len(r)) /\ Others(r, a) = g[Len(r)] BY <1>1, OthersByPrefix
<1> DEFINE T == {n \in 0 .. Len(r) : g[n] \in Seq(S) /\ \E h : Picks(g[n], r, a, n, h)}
<1>3. g[0] = <<>> BY <1>1, <1>2 DEF KeptUpTo
<1>4. \A n \in 0 .. Len(r) - 1 : g[n + 1] = IF r[n + 1].alias # a THEN Append(g[n], r[n + 1]) ELSE g[n]
  <2> SUFFICES ASSUME NEW n \in 0 .. Len(r) - 1
               PROVE  g[n + 1] = IF r[n + 1].alias # a THEN Append(g[n], r[n + 1]) ELSE g[n]
    OBVIOUS
  <2>1. n + 1 \in 0 .. Len(r) /\ n + 1 # 0 /\ (n + 1) - 1 = n BY <1>1
  <2> QED BY <2>1, <1>2 DEF KeptUpTo
<1>5. 0 \in T
  <2>1. Picks(<<>>, r, a, 0, <<>>) BY DEF Picks
  <2>2. <<>> \in Seq(S) OBVIOUS
  <2>3. g[0] \in Seq(S) /\ \E h : Picks(g[0], r, a, 0, h) BY <1>3, <2>1, <2>2
  <2>4. 0 \in 0 .. Len(r) BY <1>1
  <2> QED BY <2>3, <2>4
<1>6. ASSUME NEW n \in 0 .. Len(r) - 1, n \in T PROVE n + 1 \in T
  <2>1. PICK h : Picks(g[n], r, a, n, h) BY <1>6
  <2>2. g[n] \in Seq(S) /\ Len(g[n]) \in Nat /\ n \in Nat /\ n + 1 \in 0 .. Len(r) BY <1>1, <1>6
  <2>3. r[n + 1] \in S BY <1>1
  <2>4. CASE r[n + 1].alias = a
    <3>1. Picks(g[n], r, a, n + 1, h) BY <2>1, <2>2, <2>4, PickNone
    <3> QED BY <1>4, <2>2, <2>4, <3>1
  <2>5. CASE r[n + 1].alias # a
    <3>1. PICK k : Picks(Append(g[n], r[n + 1]), r, a, n + 1, k) BY <2>1, <2>2, <2>3, <2>5, PickOne
    <3>2. Append(g[n], r[n + 1]) \in Seq(S) BY <2>2, <2>3
    <3> QED BY <1>4, <2>2, <2>5, <3>1, <3>2
  <2> QED BY <2>4, <2>5
<1> HIDE DEF T
<1>7. 0 .. Len(r) \subseteq T BY <1>1, <1>5, <1>6, BoundedInduction
<1>8. Len(r) \in T BY <1>1, <1>7
<1> QED BY <1>2, <1>8 DEF T

--------------------------------------------------------------------------------
(* Registries that accounts.toml may hold. *)

Distinct(r) == \A i, j \in DOMAIN r : r[i].alias = r[j].alias => i = j

OneDefault(r) == \E i \in DOMAIN r : r[i].default /\ \A j \in DOMAIN r : r[j].default => j = i

Good(r) == r \in Seq(Entries) /\ Distinct(r) /\ (r = <<>> \/ OneDefault(r))

LEMMA ValidMeans ==
  ASSUME NEW r \in Seq(Entries) PROVE Valid(r) <=> (r = <<>> \/ OneDefault(r))
<1> DEFINE D == {i \in DOMAIN r : r[i].default}
<1>1. DOMAIN r = 1 .. Len(r) /\ Len(r) \in Nat OBVIOUS
<1>2. IsFiniteSet(1 .. Len(r)) BY <1>1, FS_Interval
<1>3. IsFiniteSet(D) BY <1>1, <1>2, FS_Subset
<1>4. Cardinality(D) = 1 <=> \E i : D = {i} BY <1>3, FS_Singleton
<1>5. (\E i : D = {i}) <=> OneDefault(r)
  <2>1. ASSUME NEW i, D = {i} PROVE OneDefault(r)
    <3>1. i \in DOMAIN r /\ r[i].default BY <2>1
    <3>2. \A j \in DOMAIN r : r[j].default => j \in D OBVIOUS
    <3> QED BY <2>1, <3>1, <3>2 DEF OneDefault
  <2>2. ASSUME OneDefault(r) PROVE \E i : D = {i}
    <3>1. PICK i \in DOMAIN r : r[i].default /\ \A j \in DOMAIN r : r[j].default => j = i BY <2>2 DEF OneDefault
    <3>2. D = {i} BY <3>1
    <3> QED BY <3>2
  <2> QED BY <2>1, <2>2
<1>6. CASE r = <<>>
  <2>1. D = {} BY <1>6
  <2>2. Cardinality(D) = 0 BY <2>1, FS_EmptySet
  <2> QED BY <1>6, <2>2 DEF Valid
<1>7. CASE r # <<>> BY <1>4, <1>5, <1>7 DEF Valid
<1> QED BY <1>6, <1>7

LEMMA GoodIsValid == ASSUME NEW r, Good(r) PROVE Valid(r)
BY ValidMeans DEF Good

LEMMA GoodUpsert == ASSUME NEW r, Good(r), NEW a \in Aliases PROVE Good(Upsert(r, a)) /\ Has(Upsert(r, a), a)
<1>1. CASE Has(r, a) BY <1>1 DEF Upsert
<1>2. CASE ~Has(r, a)
  <2> DEFINE e == [alias |-> a, default |-> r = <<>>]
             s == Append(r, e)
  <2>1. e \in Entries /\ e.alias = a /\ (e.default <=> r = <<>>) BY DEF Entries
  <2>2. r \in Seq(Entries) /\ Len(r) \in Nat /\ DOMAIN r = 1 .. Len(r) BY DEF Good
  <2> HIDE DEF e
  <2>3. /\ s \in Seq(Entries) /\ DOMAIN s = 1 .. Len(r) + 1 /\ s[Len(r) + 1] = e
        /\ \A i \in 1 .. Len(r) : s[i] = r[i]
    BY <2>1, <2>2
  <2> HIDE DEF s
  <2>4. Distinct(s)
    <3> SUFFICES ASSUME NEW i \in DOMAIN s, NEW j \in DOMAIN s, s[i].alias = s[j].alias PROVE i = j
      BY DEF Distinct
    <3>1. \A k \in 1 .. Len(r) : r[k].alias # a BY <1>2, <2>2 DEF Has
    <3>2. CASE i = Len(r) + 1 BY <2>1, <2>2, <2>3, <3>1, <3>2
    <3>3. CASE j = Len(r) + 1 BY <2>1, <2>2, <2>3, <3>1, <3>3
    <3>4. CASE i \in 1 .. Len(r) /\ j \in 1 .. Len(r) BY <2>2, <2>3, <3>4 DEF Good, Distinct
    <3> QED BY <2>2, <2>3, <3>2, <3>3, <3>4
  <2>5. OneDefault(s)
    <3>1. CASE r = <<>> BY <2>1, <2>2, <2>3, <3>1 DEF OneDefault
    <3>2. CASE r # <<>>
      <4>1. PICK i \in DOMAIN r : r[i].default /\ \A j \in DOMAIN r : r[j].default => j = i
        BY <3>2 DEF Good, OneDefault
      <4>2. i \in DOMAIN s /\ s[i].default BY <4>1, <2>2, <2>3
      <4>3. ASSUME NEW j \in DOMAIN s PROVE s[j].default => j = i
        <5>1. CASE j = Len(r) + 1
          <6>1. ~s[j].default BY <2>1, <2>3, <3>2, <5>1
          <6> QED BY <6>1
        <5>2. CASE j \in 1 .. Len(r) BY <2>2, <2>3, <4>1, <5>2
        <5> QED BY <2>2, <2>3, <5>1, <5>2
      <4> QED BY <4>2, <4>3 DEF OneDefault
    <3> QED BY <3>1, <3>2
  <2>6. Has(s, a)
    <3>1. Len(r) + 1 \in DOMAIN s /\ s[Len(r) + 1].alias = a BY <2>1, <2>2, <2>3
    <3> QED BY <3>1 DEF Has
  <2>7. Upsert(r, a) = s BY <1>2 DEF Upsert, s, e
  <2> QED BY <2>3, <2>4, <2>5, <2>6, <2>7 DEF Good
<1> QED BY <1>1, <1>2

(* Who has an entry before has one after. *)
LEMMA UpsertKeeps ==
  ASSUME NEW r, Good(r), NEW a, NEW b, Has(Upsert(r, a), b) PROVE b = a \/ Has(r, b)
<1>1. CASE Has(r, a) BY <1>1 DEF Upsert
<1>2. CASE ~Has(r, a)
  <2>1. r \in Seq(Entries) /\ Len(r) \in Nat /\ DOMAIN r = 1 .. Len(r) BY DEF Good
  <2> DEFINE e == [alias |-> a, default |-> r = <<>>]
             s == Append(r, e)
  <2>2. e.alias = a OBVIOUS
  <2> HIDE DEF e
  <2>3. /\ DOMAIN s = 1 .. Len(r) + 1 /\ s[Len(r) + 1] = e
        /\ \A i \in 1 .. Len(r) : s[i] = r[i]
    BY <2>1
  <2>4. Upsert(r, a) = s BY <1>2 DEF Upsert, e
  <2> HIDE DEF s
  <2>5. PICK i \in DOMAIN s : s[i].alias = b BY <2>4 DEF Has
  <2>6. CASE i = Len(r) + 1 BY <2>2, <2>3, <2>5, <2>6
  <2>7. CASE i \in 1 .. Len(r) BY <2>1, <2>3, <2>5, <2>7 DEF Has
  <2> QED BY <2>1, <2>3, <2>6, <2>7
<1> QED BY <1>1, <1>2

LEMMA GoodMadeDefault == ASSUME NEW r, Good(r), NEW a, Has(r, a) PROVE Good(MadeDefault(r, a))
<1> DEFINE s == MadeDefault(r, a)
<1>1. r \in Seq(Entries) /\ Len(r) \in Nat /\ DOMAIN r = 1 .. Len(r) BY DEF Good
<1>2. \A i \in DOMAIN r : r[i] \in Entries BY <1>1
<1>3. ASSUME NEW i \in DOMAIN r
      PROVE  [r[i] EXCEPT !.default = r[i].alias = a] = [alias |-> r[i].alias, default |-> r[i].alias = a]
  BY <1>2 DEF Entries
<1>4. \A i \in DOMAIN r : s[i] = [alias |-> r[i].alias, default |-> r[i].alias = a]
  BY <1>3 DEF MadeDefault
<1>5. s = [i \in 1 .. Len(r) |-> s[i]] /\ DOMAIN s = DOMAIN r BY <1>1 DEF MadeDefault
<1> HIDE DEF s
<1>6. \A i \in 1 .. Len(r) : s[i] \in Entries /\ s[i].alias = r[i].alias /\ (s[i].default <=> r[i].alias = a)
  <2> SUFFICES ASSUME NEW i \in DOMAIN r
               PROVE  s[i] \in Entries /\ s[i].alias = r[i].alias /\ (s[i].default <=> r[i].alias = a)
    BY <1>1
  <2>1. r[i].alias \in Aliases BY <1>2 DEF Entries
  <2>2. s[i] = [alias |-> r[i].alias, default |-> r[i].alias = a] BY <1>4
  <2>3. s[i].alias = r[i].alias /\ s[i].default = (r[i].alias = a) BY <2>2
  <2> QED BY <2>1, <2>2, <2>3 DEF Entries
<1>7. s \in Seq(Entries) BY <1>1, <1>5, <1>6
<1>8. Distinct(s) BY <1>1, <1>5, <1>6 DEF Distinct, Good
<1>9. PICK i \in DOMAIN r : r[i].alias = a BY DEF Has
<1>10. s[i].default /\ \A j \in DOMAIN r : s[j].default => j = i BY <1>1, <1>6, <1>9 DEF Good, Distinct
<1>11. OneDefault(s) BY <1>5, <1>9, <1>10 DEF OneDefault
<1> QED BY <1>7, <1>8, <1>11 DEF Good, s

LEMMA GoodOthers ==
  ASSUME NEW r, Good(r), NEW a
  PROVE  LET left == Others(r, a) IN
         /\ left \in Seq(Entries) /\ Distinct(left)
         /\ \A i, j \in DOMAIN left : left[i].default /\ left[j].default => i = j
         /\ \A b : Has(left, b) <=> b # a /\ Has(r, b)
<1> DEFINE left == Others(r, a)
<1>1. r \in Seq(Entries) /\ Len(r) \in Nat /\ DOMAIN r = 1 .. Len(r) BY DEF Good
<1>2. left \in Seq(Entries) /\ \E h : Picks(left, r, a, Len(r), h) BY <1>1, OthersAreLeft
<1> HIDE DEF left
<1>3. PICK h : Picks(left, r, a, Len(r), h) BY <1>2
<1>4. Len(left) \in Nat /\ DOMAIN left = 1 .. Len(left) BY <1>2
<1>5. \A i \in DOMAIN left : h[i] \in DOMAIN r /\ left[i] = r[h[i]] /\ r[h[i]].alias # a
  BY <1>1, <1>3, <1>4 DEF Picks
<1>6. ASSUME NEW i \in DOMAIN left, NEW j \in DOMAIN left, h[i] = h[j] PROVE i = j
  <2>1. i < j => h[i] < h[j] BY <1>3, <1>4 DEF Picks
  <2>2. j < i => h[j] < h[i] BY <1>3, <1>4 DEF Picks
  <2>3. i \in Nat /\ j \in Nat /\ h[i] \in Nat /\ h[j] \in Nat BY <1>1, <1>4, <1>5
  <2> QED BY <2>1, <2>2, <2>3, <1>6
<1>7. Distinct(left) BY <1>5, <1>6 DEF Distinct, Good
<1>8. ASSUME NEW i \in DOMAIN left, NEW j \in DOMAIN left, left[i].default, left[j].default PROVE i = j
  <2>1. r[h[i]].default /\ r[h[j]].default BY <1>5, <1>8
  <2>2. r # <<>> BY <1>1, <1>5
  <2>3. OneDefault(r) BY <2>2 DEF Good
  <2>4. h[i] = h[j] BY <1>5, <2>1, <2>3 DEF OneDefault
  <2> QED BY <1>6, <2>4
<1>9. ASSUME NEW b PROVE Has(left, b) <=> b # a /\ Has(r, b)
  <2>1. ASSUME Has(left, b) PROVE b # a /\ Has(r, b) BY <1>5, <2>1 DEF Has
  <2>2. ASSUME b # a, Has(r, b) PROVE Has(left, b)
    <3>1. PICK j \in DOMAIN r : r[j].alias = b BY <2>2 DEF Has
    <3>2. PICK i \in DOMAIN left : h[i] = j BY <1>1, <1>3, <1>4, <2>2, <3>1 DEF Picks
    <3> QED BY <1>5, <3>1, <3>2 DEF Has
  <2> QED BY <2>1, <2>2
<1> QED BY <1>2, <1>7, <1>8, <1>9 DEF left

(* remove and purge_account leave a registry that loads, without the alias and    *)
(* with all the others.                                                           *)
LEMMA GoodWithout ==
  ASSUME NEW r, Good(r), NEW a
  PROVE  Good(Without(r, a)) /\ \A b : Has(Without(r, a), b) <=> b # a /\ Has(r, b)
<1> DEFINE left == Others(r, a)
<1>1. /\ left \in Seq(Entries) /\ Distinct(left)
      /\ \A i, j \in DOMAIN left : left[i].default /\ left[j].default => i = j
      /\ \A b : Has(left, b) <=> b # a /\ Has(r, b)
  BY GoodOthers
<1>2. CASE left = <<>> \/ Valid(left)
  <2>1. Without(r, a) = left BY <1>2 DEF Without
  <2>2. left = <<>> \/ OneDefault(left) BY <1>1, <1>2, ValidMeans
  <2> QED BY <1>1, <2>1, <2>2 DEF Good
<1>3. CASE left # <<>> /\ ~Valid(left)
  <2> DEFINE s == [left EXCEPT ![1].default = TRUE]
  <2>1. Without(r, a) = s BY <1>3 DEF Without
  <2>2. ~OneDefault(left) BY <1>1, <1>3, ValidMeans
  <2> HIDE DEF left
  <2>3. Len(left) \in Nat /\ DOMAIN left = 1 .. Len(left) /\ 1 \in DOMAIN left BY <1>1, <1>3
  <2>4. \A i \in DOMAIN left : left[i] \in Entries BY <1>1
  <2>5. left[1].alias \in Aliases /\ left[1] = [alias |-> left[1].alias, default |-> left[1].default]
    BY <2>3, <2>4 DEF Entries
  <2> DEFINE e == [alias |-> left[1].alias, default |-> TRUE]
  <2>6. [left[1] EXCEPT !.default = TRUE] = e
    <3>1. ASSUME NEW x \in Entries, NEW v \in BOOLEAN
          PROVE  [x EXCEPT !.default = v] = [alias |-> x.alias, default |-> v]
      BY DEF Entries
    <3> QED BY <2>3, <2>4, <3>1
  <2>7. e \in Entries /\ e.alias = left[1].alias /\ e.default BY <2>5 DEF Entries
  <2>8. s = [left EXCEPT ![1] = e]
    <3>1. s = [left EXCEPT ![1] = [left[1] EXCEPT !.default = TRUE]] OBVIOUS
    <3> QED BY <3>1, <2>6
  <2> HIDE DEF e, s
  <2>9. /\ s \in Seq(Entries) /\ DOMAIN s = DOMAIN left /\ s[1] = e
        /\ \A i \in DOMAIN left \ {1} : s[i] = left[i]
    BY <1>1, <2>3, <2>7, <2>8
  <2>10. \A i \in DOMAIN left : ~left[i].default BY <1>1, <2>2 DEF OneDefault
  <2>11. OneDefault(s)
    <3>1. 1 \in DOMAIN s /\ s[1].default BY <2>3, <2>7, <2>9
    <3>2. \A j \in DOMAIN s : s[j].default => j = 1 BY <2>9, <2>10
    <3> QED BY <3>1, <3>2 DEF OneDefault
  <2>12. \A i \in DOMAIN s : s[i].alias = left[i].alias BY <2>7, <2>9
  <2>13. Distinct(s) BY <1>1, <2>9, <2>12 DEF Distinct
  <2>14. \A b : Has(s, b) <=> Has(left, b) BY <2>9, <2>12 DEF Has
  <2> QED BY <1>1, <2>1, <2>9, <2>11, <2>13, <2>14 DEF Good
<1> QED BY <1>2, <1>3

(* Two writers at once may leave a file that does not parse; what parses is a      *)
(* list of entries, and so is what an edit makes of one.                          *)
Typed(r) == r \in Seq(Entries) \/ r = Garbled

LEMMA GarbledIsRefused == ~Valid(Garbled) /\ Garbled # <<>> /\ Len(Garbled) = 1
<1> DEFINE e == [alias |-> "", default |-> FALSE]
           D == {i \in DOMAIN Garbled : Garbled[i].default}
<1>1. e.default = FALSE /\ Garbled = <<e>> BY DEF Garbled
<1> HIDE DEF e
<1>2. Len(<<e>>) = 1 /\ <<e>>[1] = e /\ <<e>> # <<>> /\ DOMAIN <<e>> = {1} OBVIOUS
<1>3. D = {} BY <1>1, <1>2
<1>4. Cardinality(D) = 0 BY <1>3, FS_EmptySet
<1> QED BY <1>1, <1>2, <1>4 DEF Valid

LEMMA ParsesIfValid == ASSUME NEW r, Typed(r), Valid(r) PROVE r \in Seq(Entries)
BY GarbledIsRefused DEF Typed

LEMMA UpsertType == ASSUME NEW r \in Seq(Entries), NEW a \in Aliases PROVE Upsert(r, a) \in Seq(Entries)
<1> DEFINE e == [alias |-> a, default |-> r = <<>>]
<1>1. e \in Entries BY DEF Entries
<1>2. Append(r, e) \in Seq(Entries) BY <1>1
<1> QED BY <1>2 DEF Upsert

LEMMA MadeDefaultType == ASSUME NEW r \in Seq(Entries), NEW a PROVE MadeDefault(r, a) \in Seq(Entries)
<1> DEFINE s == MadeDefault(r, a)
<1>1. Len(r) \in Nat /\ DOMAIN r = 1 .. Len(r) /\ \A i \in 1 .. Len(r) : r[i] \in Entries OBVIOUS
<1>2. ASSUME NEW x \in Entries PROVE [x EXCEPT !.default = x.alias = a] \in Entries
  <2>1. [x EXCEPT !.default = x.alias = a] = [alias |-> x.alias, default |-> x.alias = a] BY DEF Entries
  <2>2. x.alias \in Aliases BY DEF Entries
  <2> QED BY <2>1, <2>2 DEF Entries
<1>3. s = [i \in 1 .. Len(r) |-> [r[i] EXCEPT !.default = r[i].alias = a]] BY <1>1 DEF MadeDefault
<1>4. \A i \in 1 .. Len(r) : [r[i] EXCEPT !.default = r[i].alias = a] \in Entries BY <1>1, <1>2
<1> HIDE DEF s
<1>5. s \in [1 .. Len(r) -> Entries] BY <1>3, <1>4
<1> QED BY <1>1, <1>5 DEF s

LEMMA WithoutType == ASSUME NEW r \in Seq(Entries), NEW a PROVE Without(r, a) \in Seq(Entries)
<1> DEFINE left == Others(r, a)
           s == [left EXCEPT ![1].default = TRUE]
<1>1. left \in Seq(Entries) BY OthersAreLeft
<1> HIDE DEF left
<1>2. ASSUME left # <<>> PROVE s \in Seq(Entries)
  <2>1. Len(left) \in Nat /\ DOMAIN left = 1 .. Len(left) /\ 1 \in DOMAIN left /\ left[1] \in Entries BY <1>1, <1>2
  <2>2. [left[1] EXCEPT !.default = TRUE] \in Entries
    <3>1. ASSUME NEW x \in Entries, NEW v \in BOOLEAN PROVE [x EXCEPT !.default = v] \in Entries
      <4>1. [x EXCEPT !.default = v] = [alias |-> x.alias, default |-> v] BY DEF Entries
      <4>2. x.alias \in Aliases BY DEF Entries
      <4> QED BY <4>1, <4>2 DEF Entries
    <3> QED BY <2>1, <3>1
  <2> DEFINE e == [left[1] EXCEPT !.default = TRUE]
  <2>3. s = [left EXCEPT ![1] = e] OBVIOUS
  <2> HIDE DEF e, s
  <2> QED BY <1>1, <2>1, <2>2, <2>3 DEF e
<1>3. Without(r, a) = IF left # <<>> /\ ~Valid(left) THEN s ELSE left BY DEF Without, left
<1> QED BY <1>1, <1>2, <1>3

--------------------------------------------------------------------------------
(* The commands *)

CliStages == {"idle", "load", "read", "bind", "browser", "post", "userinfo", "mkdir", "write", "confirm",
              "revoke", "unlink", "save", "set", "place", "refused"}

Edits(c) == c.at \in {"confirm", "revoke", "unlink", "save"}

(* What a command knows at each of its steps; a grant only ever widens what was   *)
(* read, and a refresh keeps it.                                                  *)
CommandOk(c) ==
    /\ c = [at |-> c.at, op |-> c.op, alias |-> c.alias, extra |-> c.extra, base |-> c.base,
            read |-> c.read, new |-> c.new]
    /\ c.at \in CliStages
    /\ c.at # "idle" => c.op \in Operations /\ (c.op \notin {"list", "set_default"} => c.alias \in Aliases)
    /\ c.at \notin {"idle", "load", "refused"} => c.op # "list"
    /\ c.at \in {"bind", "browser", "userinfo"} => c.op \in {"add", "grant"}
    /\ c.at = "mkdir" => c.op = "add"
    /\ c.at \in {"read", "post", "write", "set"} => c.op \in {"add", "grant", "refresh"}
    /\ c.at \in {"confirm", "revoke", "unlink"} => Removes(c.op)
    /\ c.at \in {"load", "save", "place"} => c.op # "refresh"
    /\ c.op \in {"grant", "refresh"} /\ c.at \in {"userinfo", "write", "set"} => c.read.scopes \subseteq c.new.scopes
    /\ c.op = "grant" /\ c.at \in {"userinfo", "write", "set", "load", "save", "place"} => c.extra \subseteq c.new.scopes

CommandsInv ==
    /\ todo \in [Procs -> Seq(Commands)]
    /\ cli = [p \in Procs |-> cli[p]]
    /\ \A p \in Procs : CommandOk(cli[p])

(* Who writes what: the text of every writer of accounts.toml is one that parses;  *)
(* and while one writer has a temporary file alone, that holds nothing, or its     *)
(* text.                                                                          *)
PenOk(w) ==
    /\ pen[w] = [file |-> pen[w].file, on |-> pen[w].on, text |-> pen[w].text]
    /\ pen[w].on # "closed" => pen[w].file \in Files
    /\ pen[w].file = Registry => pen[w].text \in Seq(Entries) /\ (Registry \notin clashed => Good(pen[w].text))

Alone(w, f) ==
    /\ \A v \in Writers : pen[v].file = f => v = w
    /\ draft[f].there
    /\ \/ pen[w].on = "draft" /\ draft[f].text = Empty(f)
       \/ pen[w].on = "closed" /\ draft[f].text = pen[w].text

PensInv ==
    /\ draft = [f \in Files |-> draft[f]] /\ Typed(draft[Registry].text)
    /\ \A f \in Files : draft[f] = [there |-> draft[f].there, text |-> draft[f].text]
    /\ pen = [w \in Writers |-> pen[w]] /\ \A w \in Writers : PenOk(w)
    /\ \A f \in Files \ clashed, w \in Writers : pen[w].file = f => Alone(w, f)

(* What a writer writes is what its command or purge has made.                    *)
TextInv ==
    /\ \A p \in Procs : cli[p].at = "set" => pen[p].text = cli[p].new
    /\ purge.at = "place" => ~Has(pen[Registry].text, purge.alias) \/ Registry \in clashed

(* As long as no two wrote accounts.toml at once: it is good, every edit is one of *)
(* a good registry that, but for add and grant, lists the alias, and none fails.   *)
EditOk(c) ==
    /\ c.at # "refused"
    /\ Edits(c) => Good(c.base) /\ (c.op \notin {"add", "grant"} => Has(c.base, c.alias))

RegistryInv ==
    /\ Typed(registry)
    /\ \A p \in Procs : Edits(cli[p]) => cli[p].base \in Seq(Entries)
    /\ purge.at = "save" => purge.base \in Seq(Entries)
    /\ Registry \notin clashed =>
          /\ Good(registry) /\ \A p \in Procs : EditOk(cli[p])
          /\ purge.at = "save" => Good(purge.base)
          /\ purge.at # "failed" /\ daemon.why # "accounts"

(* What is promised is there. *)
PromisesInv ==
    /\ token = [a \in Aliases |-> token[a]]
    /\ promised = [a \in Aliases |-> promised[a]]
    /\ \A a \in Aliases : promised[a] # {} =>
          /\ Has(registry, a) /\ promised[a] \subseteq token[a].scopes
          /\ a \notin clashed /\ Registry \notin clashed

--------------------------------------------------------------------------------
(* The daemon *)

Booted == {"dir", "dirmode", "files", "dbmode", "migrate", "listen", "serving"}

Waiting(a) == \E i \in DOMAIN daemon.opening : daemon.opening[i] = a

DaemonInv ==
    /\ daemon = [at |-> daemon.at, why |-> daemon.why, known |-> daemon.known, mem |-> daemon.mem,
                 opening |-> daemon.opening, owed |-> daemon.owed]
    /\ daemon.at \in Booted \cup {"down", "tokens", "refused"}
    /\ daemon.why # "broken"
    /\ daemon.why = "permissions" => env.umask # "private"
    /\ daemon.why # "" => daemon.at = "refused"
    /\ daemon.at \in Booted \cup {"tokens"} =>
          /\ daemon.known \in Seq(Entries)
          /\ \A a \in Aliases : daemon.owed[a] # {} => Has(daemon.known, a)
    /\ daemon.at \in Booted /\ cfg.backend = "file" =>
          \A a \in Aliases : daemon.owed[a] \subseteq daemon.mem[a].scopes

(* Directories and cache files; what has been opened is private, and stays so     *)
(* until it is purged.                                                            *)
FilesInv ==
    /\ env.umask \in {"private", "wide"}
    /\ dirs \in [config : Modes, tokens : Modes, cache : Modes]
    /\ db \in [Aliases -> Dbs]
    /\ \A a \in Aliases : db[a].tables = db[a].version
    /\ env.umask = "private" =>
          /\ PermissionsHold /\ dirs.cache # "wide"
          /\ \A a \in Aliases : db[a].main # "wide"

OpeningInv ==
    /\ daemon.at = "listen" => ~cfg.cache
    /\ daemon.at \in {"dir", "dirmode", "files", "dbmode", "migrate"} =>
          /\ cfg.cache /\ daemon.opening \in Seq(Aliases)
          /\ \A a \in Aliases : Has(daemon.known, a) => Waiting(a) \/ db[a].main \in {"private", "none"}
    /\ daemon.at \in {"files", "dbmode", "migrate"} => dirs.cache = "private"
    /\ daemon.at \in {"dbmode", "migrate"} => daemon.opening # <<>>
    /\ daemon.at = "migrate" => db[Current].main = "private"
    /\ daemon.at = "serving" /\ cfg.cache =>
          /\ dirs.cache = "private"
          /\ \A a \in Aliases : Has(daemon.known, a) => db[a].main \in {"private", "none"}

--------------------------------------------------------------------------------
(* purge_account *)

(* Each of the three things to remove was not there when the purge looked, is     *)
(* still to be removed, or is gone; or somebody wrote it again since.             *)
PurgeInv ==
    LET a == purge.alias IN
    /\ purge = [at |-> purge.at, alias |-> purge.alias, db |-> purge.db, token |-> purge.token,
                entry |-> purge.entry, base |-> purge.base]
    /\ purge.at \in {"idle", "cache", "sidecars", "token", "entry", "save", "place", "failed", "done"}
    /\ purge.at # "idle" =>
          /\ daemon.at = "serving" /\ a \in Aliases
          /\ purge.at = "done" \/ ~purge.entry => (Has(registry, a) => "entry" \in touched \/ Registry \in clashed)
          /\ purge.at \in {"entry", "save", "place", "failed", "done"} \/ ~purge.token => (token[a] # NoToken => "token" \in touched)
          /\ purge.at # "cache" \/ ~purge.db => db[a].main = "none"
          /\ purge.at \notin {"cache", "sidecars"} => (purge.db => ~db[a].sidecars)
    /\ purge.at = "sidecars" => purge.db

AccountsInv == CommandsInv /\ PensInv /\ TextInv /\ RegistryInv /\ PromisesInv /\ DaemonInv /\ FilesInv /\ OpeningInv /\ PurgeInv

--------------------------------------------------------------------------------
(* The registry and the commands *)

LEMMA RestingIdle == Resting.at = "idle"
BY DEF Resting

LEMMA RestingOk == CommandOk(Resting) /\ Resting.at = "idle"
BY DEF CommandOk, Resting, CliStages, Edits, NoToken, Removes

(* One command moves, or none. *)
LEMMA CommandMoves ==
  ASSUME CommandsInv, NEW p \in Procs, NEW w, cli' = [cli EXCEPT ![p] = w], CommandOk(w),
         todo' \in [Procs -> Seq(Commands)]
  PROVE  CommandsInv'
<1>1. cli'[p] = w /\ cli' = [q \in Procs |-> cli'[q]] BY DEF CommandsInv
<1>2. \A q \in Procs : q # p => cli'[q] = cli[q] BY DEF CommandsInv
<1>3. \A q \in Procs : CommandOk(cli'[q]) BY <1>1, <1>2 DEF CommandsInv
<1> QED BY <1>1, <1>3 DEF CommandsInv

LEMMA CommandLeaves ==
  ASSUME CommandsInv, NEW p \in Procs, cli' = Left(p), UNCHANGED todo
  PROVE  CommandsInv'
<1>1. todo' \in [Procs -> Seq(Commands)] BY DEF CommandsInv
<1> QED BY <1>1, RestingOk, CommandMoves DEF Left

LEMMA Moved ==
  ASSUME NEW c, CommandOk(c), NEW at
  PROVE  [c EXCEPT !.at = at] = [at |-> at, op |-> c.op, alias |-> c.alias, extra |-> c.extra,
                                 base |-> c.base, read |-> c.read, new |-> c.new]
<1>1. c = [at |-> c.at, op |-> c.op, alias |-> c.alias, extra |-> c.extra, base |-> c.base,
           read |-> c.read, new |-> c.new]
  BY DEF CommandOk
<1> QED BY <1>1

LEMMA CommandBecomes ==
  ASSUME CommandsInv, NEW p \in Procs, NEW at, Become(p, at), UNCHANGED todo,
         CommandOk([at |-> at, op |-> cli[p].op, alias |-> cli[p].alias, extra |-> cli[p].extra,
                    base |-> cli[p].base, read |-> cli[p].read, new |-> cli[p].new])
  PROVE  CommandsInv'
<1>1. CommandOk(cli[p]) BY DEF CommandsInv
<1>2. [cli[p] EXCEPT !.at = at] = [at |-> at, op |-> cli[p].op, alias |-> cli[p].alias, extra |-> cli[p].extra,
                    base |-> cli[p].base, read |-> cli[p].read, new |-> cli[p].new]
  BY <1>1, Moved
<1>3. cli' = [cli EXCEPT ![p] = [cli[p] EXCEPT !.at = at]] BY DEF Become
<1>4. todo' \in [Procs -> Seq(Commands)] BY DEF CommandsInv
<1> QED BY <1>2, <1>3, <1>4, CommandMoves

(* What a step leaves in the command. *)
LEMMA Became ==
  ASSUME CommandsInv, NEW p \in Procs, NEW at, Become(p, at)
  PROVE  /\ cli'[p].at = at /\ cli'[p].op = cli[p].op /\ cli'[p].alias = cli[p].alias
         /\ cli'[p].base = cli[p].base /\ cli'[p].new = cli[p].new
         /\ \A q \in Procs : q # p => cli'[q] = cli[q]
<1> DEFINE w == [cli[p] EXCEPT !.at = at]
<1>1. CommandOk(cli[p]) BY DEF CommandsInv
<1>2. w = [at |-> at, op |-> cli[p].op, alias |-> cli[p].alias, extra |-> cli[p].extra,
           base |-> cli[p].base, read |-> cli[p].read, new |-> cli[p].new]
  BY <1>1, Moved
<1>3. cli' = [cli EXCEPT ![p] = w] BY DEF Become
<1> HIDE DEF w
<1>4. cli'[p] = w /\ \A q \in Procs : q # p => cli'[q] = cli[q] BY <1>3 DEF CommandsInv
<1> QED BY <1>2, <1>4

LEMMA Rested ==
  ASSUME CommandsInv, NEW p \in Procs, cli' = Left(p)
  PROVE  cli'[p].at = "idle" /\ \A q \in Procs : q # p => cli'[q] = cli[q]
BY RestingIdle DEF CommandsInv, Left

LEMMA StartInv == ASSUME CommandsInv, NEW p \in Procs, Start(p) PROVE CommandsInv'
<1> DEFINE c == Head(todo[p])
           first == IF c.op \in {"list", "set_default"} THEN "load"
                    ELSE IF c.alias \notin Aliases THEN "idle"
                    ELSE CASE c.op = "add" -> IF CanAuthorise(cfg) THEN "bind" ELSE "idle"
                           [] c.op \in {"grant", "refresh"} -> "read"
                           [] Removes(c.op) -> "load"
           w == [Resting EXCEPT !.at = first, !.op = c.op, !.alias = c.alias, !.extra = c.extra]
<1>2. todo[p] \in Seq(Commands) /\ todo[p] # <<>> BY DEF CommandsInv, Start
<1>3. c.op \in Operations
  <2>1. c \in Commands BY <1>2
  <2> QED BY <2>1 DEF Commands
<1>4. todo' \in [Procs -> Seq(Commands)]
  <2>1. Tail(todo[p]) \in Seq(Commands) BY <1>2
  <2>2. todo' = [todo EXCEPT ![p] = Tail(todo[p])] BY DEF Start
  <2> QED BY <2>1, <2>2 DEF CommandsInv
<1>5. /\ first \in {"idle", "load", "bind", "read"}
      /\ first # "idle" => (c.op \notin {"list", "set_default"} => c.alias \in Aliases)
      /\ first \notin {"idle", "load"} => c.op # "list"
      /\ first = "bind" => c.op = "add"
      /\ first = "read" => c.op \in {"grant", "refresh"}
      /\ first = "load" => c.op # "refresh" /\ c.op # "grant"
  <2>1. CASE c.op \in {"list", "set_default"} BY <2>1
  <2>2. CASE c.op \notin {"list", "set_default"} /\ c.alias \notin Aliases BY <2>2
  <2>3. CASE c.op = "add" /\ c.alias \in Aliases BY <2>3 DEF Removes
  <2>4. CASE c.op \in {"grant", "refresh"} /\ c.alias \in Aliases BY <2>4 DEF Removes
  <2>5. CASE c.op \in {"remove", "remove --revoke"} /\ c.alias \in Aliases BY <2>5 DEF Removes
  <2> QED BY <1>3, <2>1, <2>2, <2>3, <2>4, <2>5 DEF Operations
<1> HIDE DEF c, first, w
<1>6. w = [at |-> first, op |-> c.op, alias |-> c.alias, extra |-> c.extra, base |-> <<>>,
           read |-> NoToken, new |-> NoToken]
  <2>1. w = [[[[Resting EXCEPT !.at = first] EXCEPT !.op = c.op] EXCEPT !.alias = c.alias] EXCEPT !.extra = c.extra]
    BY DEF w
  <2> QED BY <2>1 DEF Resting
<1>7. CommandOk(w) BY <1>3, <1>5, <1>6 DEF CommandOk, CliStages, Edits, Removes
<1>8. cli' = Left(p) \/ cli' = [cli EXCEPT ![p] = w] BY DEF Start, Quit, c, first, w
<1>9. CASE cli' = Left(p) BY <1>4, <1>9, RestingOk, CommandMoves DEF Left
<1>10. CASE cli' = [cli EXCEPT ![p] = w] BY <1>4, <1>7, <1>10, CommandMoves
<1> QED BY <1>8, <1>9, <1>10

(* The steps that only move on. *)
Follows(c, at) ==
    \/ c.at = "bind" /\ at = "browser"
    \/ c.at = "browser" /\ at = "post"
    \/ c.at = "userinfo" /\ at = IF c.op = "add" THEN "mkdir" ELSE "write"
    \/ c.at = "mkdir" /\ at = "write"
    \/ c.at = "write" /\ at = "set"
    \/ c.at = "set" /\ c.op # "refresh" /\ at = "load"
    \/ c.at = "save" /\ at \in {"place", "refused"}
    \/ c.at = "load" /\ at = "refused"
    \/ c.at = "confirm" /\ at \in {"revoke", "unlink"}
    \/ c.at = "revoke" /\ at = "unlink"
    \/ c.at = "unlink" /\ at = "save"

LEMMA FollowsOk ==
  ASSUME NEW c, CommandOk(c), NEW at, Follows(c, at)
  PROVE  CommandOk([at |-> at, op |-> c.op, alias |-> c.alias, extra |-> c.extra, base |-> c.base,
                    read |-> c.read, new |-> c.new])
<1> DEFINE w == [at |-> at, op |-> c.op, alias |-> c.alias, extra |-> c.extra, base |-> c.base,
                 read |-> c.read, new |-> c.new]
<1>1. /\ w.at = at /\ w.op = c.op /\ w.alias = c.alias /\ w.extra = c.extra /\ w.base = c.base
      /\ w.read = c.read /\ w.new = c.new
      /\ w = [at |-> w.at, op |-> w.op, alias |-> w.alias, extra |-> w.extra, base |-> w.base,
              read |-> w.read, new |-> w.new]
  OBVIOUS
<1> HIDE DEF w
<1>2. CASE c.at = "bind" /\ at = "browser" BY <1>1, <1>2 DEF CommandOk, CliStages, Edits
<1>3. CASE c.at = "browser" /\ at = "post" BY <1>1, <1>3 DEF CommandOk, CliStages, Edits
<1>4. CASE c.at = "userinfo" /\ at = IF c.op = "add" THEN "mkdir" ELSE "write"
  BY <1>1, <1>4 DEF CommandOk, CliStages, Edits
<1>5. CASE c.at = "mkdir" /\ at = "write" BY <1>1, <1>5 DEF CommandOk, CliStages, Edits
<1>6. CASE \/ c.at = "write" /\ at = "set"
           \/ c.at = "set" /\ c.op # "refresh" /\ at = "load"
           \/ c.at \in {"save", "load"} /\ at = "refused"
  BY <1>1, <1>6 DEF CommandOk, CliStages
<1>9. CASE c.at = "save" /\ at = "place" BY <1>1, <1>9 DEF CommandOk, CliStages
<1>7. CASE c.at \in {"confirm", "revoke", "unlink"} /\ at \in {"revoke", "unlink", "save"}
  BY <1>1, <1>7 DEF CommandOk, CliStages, Edits, Removes
<1>8. \/ c.at = "bind" /\ at = "browser"
      \/ c.at = "browser" /\ at = "post"
      \/ c.at = "userinfo" /\ at = IF c.op = "add" THEN "mkdir" ELSE "write"
      \/ c.at = "mkdir" /\ at = "write"
      \/ c.at = "write" /\ at = "set"
      \/ c.at = "set" /\ c.op # "refresh" /\ at = "load"
      \/ c.at \in {"save", "load"} /\ at = "refused"
      \/ c.at = "save" /\ at = "place"
      \/ c.at \in {"confirm", "revoke", "unlink"} /\ at \in {"revoke", "unlink", "save"}
  BY Zenon DEF Follows
<1> QED BY <1>2, <1>3, <1>4, <1>5, <1>6, <1>7, <1>8, <1>9 DEF w

LEMMA CommandFollows ==
  ASSUME CommandsInv, NEW p \in Procs, UNCHANGED todo,
         cli' = Left(p) \/ \E at : Become(p, at) /\ Follows(cli[p], at)
  PROVE  CommandsInv'
<1>1. CASE cli' = Left(p) BY <1>1, CommandLeaves
<1>2. ASSUME NEW at, Become(p, at), Follows(cli[p], at) PROVE CommandsInv'
  <2>1. CommandOk(cli[p]) BY DEF CommandsInv
  <2> QED BY <1>2, <2>1, FollowsOk, CommandBecomes
<1> QED BY <1>1, <1>2

LEMMA PlainInv ==
  ASSUME CommandsInv, NEW p \in Procs,
         \/ BindListener(p) \/ Consent(p) \/ GiveUp(p) \/ UserInfo(p) \/ MakeDir(p) \/ WriteToken(p) \/ SetToken(p)
         \/ Confirm(p) \/ Revoke(p) \/ Unlink(p) \/ Save(p) \/ Place(p) \/ Interrupt(p)
  PROVE  CommandsInv'
<1>1. CASE BindListener(p) BY <1>1, CommandFollows DEF BindListener, Quit, Follows
<1>2. CASE Consent(p) BY <1>2, CommandFollows DEF Consent, Follows
<1>3. CASE GiveUp(p) BY <1>3, CommandFollows DEF GiveUp, Quit
<1>4. CASE UserInfo(p) BY <1>4, CommandFollows DEF UserInfo, Quit, Follows
<1>5. CASE MakeDir(p) BY <1>5, CommandFollows DEF MakeDir, Follows
<1>6. CASE WriteToken(p)
  <2>1. cli' = Left(p) \/ Become(p, "set") BY <1>6 DEF WriteToken, Quit
  <2>2. UNCHANGED todo /\ cli[p].at = "write" BY <1>6 DEF WriteToken
  <2> QED BY <2>1, <2>2, CommandFollows DEF Follows
<1>7. CASE SetToken(p)
  <2>1. cli' = Left(p) \/ (cli[p].op # "refresh" /\ Become(p, "load")) BY <1>7 DEF SetToken, Quit
  <2>2. UNCHANGED todo /\ cli[p].at = "set" BY <1>7 DEF SetToken
  <2> QED BY <2>1, <2>2, CommandFollows DEF Follows
<1>8. CASE Confirm(p) BY <1>8, CommandFollows DEF Confirm, Quit, Follows
<1>9. CASE Revoke(p) BY <1>9, CommandFollows DEF Revoke, Follows
<1>10. CASE Unlink(p) BY <1>10, CommandFollows DEF Unlink, Follows
<1>11. CASE Save(p)
  <2>1. \E at \in {"place", "refused"} : Become(p, at) BY <1>11 DEF Save
  <2>2. UNCHANGED todo /\ cli[p].at = "save" BY <1>11 DEF Save
  <2> QED BY <2>1, <2>2, CommandFollows DEF Follows
<1>12. CASE Place(p) BY <1>12, CommandFollows DEF Place, Quit
<1>13. CASE Interrupt(p) BY <1>13, CommandFollows DEF Interrupt, Quit
<1> QED BY <1>1, <1>2, <1>3, <1>4, <1>5, <1>6, <1>7, <1>8, <1>9, <1>10, <1>11, <1>12, <1>13

(* The steps that carry something along. *)
LEMMA ReadTokenInv == ASSUME CommandsInv, NEW p \in Procs, ReadToken(p) PROVE CommandsInv'
<1> DEFINE found == token[cli[p].alias]
           at == IF cli[p].op = "grant" THEN "bind" ELSE "post"
           w == [cli[p] EXCEPT !.read = found, !.at = at]
<1>1. todo' = todo /\ todo \in [Procs -> Seq(Commands)] /\ CommandOk(cli[p]) /\ cli[p].at = "read"
  BY DEF ReadToken, CommandsInv
<1>2. CASE Quit(p) BY <1>1, <1>2, CommandLeaves DEF Quit
<1>3. CASE cli' = [cli EXCEPT ![p] = w]
  <2> HIDE DEF found, at, w
  <2>1. w = [[cli[p] EXCEPT !.read = found] EXCEPT !.at = at] BY DEF w
  <2>2. w = [at |-> at, op |-> cli[p].op, alias |-> cli[p].alias, extra |-> cli[p].extra, base |-> cli[p].base,
             read |-> found, new |-> cli[p].new]
    <3>1. cli[p] = [at |-> cli[p].at, op |-> cli[p].op, alias |-> cli[p].alias, extra |-> cli[p].extra,
                    base |-> cli[p].base, read |-> cli[p].read, new |-> cli[p].new]
      BY <1>1 DEF CommandOk
    <3> QED BY <2>1, <3>1
  <2>3. CommandOk(w) BY <1>1, <2>2 DEF CommandOk, CliStages, Edits, at, Removes
  <2> QED BY <1>1, <1>3, <2>3, CommandMoves
<1>4. Quit(p) \/ cli' = [cli EXCEPT ![p] = w] BY DEF ReadToken
<1> QED BY <1>2, <1>3, <1>4

LEMMA ExchangeInv == ASSUME CommandsInv, NEW p \in Procs, Exchange(p) PROVE CommandsInv'
<1> DEFINE new == [grant |-> issued', scopes |-> Asked(cli[p])]
           w == [cli[p] EXCEPT !.new = new, !.at = "userinfo"]
<1>1. /\ todo' = todo /\ todo \in [Procs -> Seq(Commands)] /\ CommandOk(cli[p])
      /\ cli[p].at = "post" /\ cli[p].op # "refresh"
  BY DEF Exchange, CommandsInv
<1>2. CASE Quit(p) BY <1>1, <1>2, CommandLeaves DEF Quit
<1>3. CASE cli' = [cli EXCEPT ![p] = w]
  <2>1. cli[p].read.scopes \subseteq new.scopes /\ cli[p].extra \subseteq new.scopes BY DEF Asked
  <2> HIDE DEF new, w
  <2>2. w = [[cli[p] EXCEPT !.new = new] EXCEPT !.at = "userinfo"] BY DEF w
  <2>3. w = [at |-> "userinfo", op |-> cli[p].op, alias |-> cli[p].alias, extra |-> cli[p].extra, base |-> cli[p].base,
             read |-> cli[p].read, new |-> new]
    <3>1. cli[p] = [at |-> cli[p].at, op |-> cli[p].op, alias |-> cli[p].alias, extra |-> cli[p].extra,
                    base |-> cli[p].base, read |-> cli[p].read, new |-> cli[p].new]
      BY <1>1 DEF CommandOk
    <3> QED BY <2>2, <3>1
  <2>4. CommandOk(w) BY <1>1, <2>1, <2>3 DEF CommandOk, CliStages, Edits
  <2> QED BY <1>1, <1>3, <2>4, CommandMoves
<1>4. Quit(p) \/ cli' = [cli EXCEPT ![p] = w] BY DEF Exchange
<1> QED BY <1>2, <1>3, <1>4

LEMMA ForceRefreshInv == ASSUME CommandsInv, NEW p \in Procs, ForceRefresh(p) PROVE CommandsInv'
<1> DEFINE new(grant) == [grant |-> grant, scopes |-> cli[p].read.scopes]
           w(grant) == [cli[p] EXCEPT !.new = new(grant), !.at = "write"]
<1>1. /\ todo' = todo /\ todo \in [Procs -> Seq(Commands)] /\ CommandOk(cli[p])
      /\ cli[p].at = "post" /\ cli[p].op = "refresh"
  BY DEF ForceRefresh, CommandsInv
<1>2. CASE Quit(p) BY <1>1, <1>2, CommandLeaves DEF Quit
<1>3. ASSUME NEW grant, cli' = [cli EXCEPT ![p] = w(grant)] PROVE CommandsInv'
  <2>1. cli[p].read.scopes \subseteq new(grant).scopes OBVIOUS
  <2>2. w(grant) = [[cli[p] EXCEPT !.new = new(grant)] EXCEPT !.at = "write"] OBVIOUS
  <2> HIDE DEF new, w
  <2>3. w(grant) = [at |-> "write", op |-> cli[p].op, alias |-> cli[p].alias, extra |-> cli[p].extra, base |-> cli[p].base,
                    read |-> cli[p].read, new |-> new(grant)]
    <3>1. cli[p] = [at |-> cli[p].at, op |-> cli[p].op, alias |-> cli[p].alias, extra |-> cli[p].extra,
                    base |-> cli[p].base, read |-> cli[p].read, new |-> cli[p].new]
      BY <1>1 DEF CommandOk
    <3> QED BY <2>2, <3>1
  <2>4. CommandOk(w(grant)) BY <1>1, <2>1, <2>3 DEF CommandOk, CliStages
  <2> QED BY <1>1, <1>3, <2>4, CommandMoves
<1>4. Quit(p) \/ \E grant : cli' = [cli EXCEPT ![p] = w(grant)] BY DEF ForceRefresh
<1> QED BY <1>2, <1>3, <1>4

LEMMA LoadMoves ==
  ASSUME NEW p \in Procs, CommandOk(cli[p]),
         cli' = [cli EXCEPT ![p].base = registry, ![p].at = IF Removes(cli[p].op) THEN "confirm" ELSE "save"]
  PROVE  cli' = [cli EXCEPT ![p] =
            [at |-> IF Removes(cli[p].op) THEN "confirm" ELSE "save", op |-> cli[p].op, alias |-> cli[p].alias,
             extra |-> cli[p].extra, base |-> registry, read |-> cli[p].read, new |-> cli[p].new]]
<1> DEFINE at == IF Removes(cli[p].op) THEN "confirm" ELSE "save"
           w == [cli[p] EXCEPT !.base = registry, !.at = at]
<1>1. cli' = [cli EXCEPT ![p] = w] OBVIOUS
<1>2. w = [[cli[p] EXCEPT !.base = registry] EXCEPT !.at = at] OBVIOUS
<1> HIDE DEF at, w
<1>3. cli[p] = [at |-> cli[p].at, op |-> cli[p].op, alias |-> cli[p].alias, extra |-> cli[p].extra,
                base |-> cli[p].base, read |-> cli[p].read, new |-> cli[p].new]
  BY DEF CommandOk
<1>4. w = [at |-> at, op |-> cli[p].op, alias |-> cli[p].alias, extra |-> cli[p].extra, base |-> registry,
           read |-> cli[p].read, new |-> cli[p].new]
  BY <1>2, <1>3
<1> QED BY <1>1, <1>4 DEF at

LEMMA LoadInv == ASSUME CommandsInv, NEW p \in Procs, Load(p) PROVE CommandsInv'
<1> DEFINE at == IF Removes(cli[p].op) THEN "confirm" ELSE "save"
           w == [at |-> at, op |-> cli[p].op, alias |-> cli[p].alias, extra |-> cli[p].extra, base |-> registry,
                 read |-> cli[p].read, new |-> cli[p].new]
<1>1. /\ todo' = todo /\ todo \in [Procs -> Seq(Commands)] /\ CommandOk(cli[p]) /\ cli[p].at = "load"
  BY DEF Load, CommandsInv
<1>2. CASE Quit(p) BY <1>1, <1>2, CommandLeaves DEF Quit
<1>3. CASE Become(p, "refused") BY <1>1, <1>3, CommandFollows DEF Follows
<1>4. CASE cli' = [cli EXCEPT ![p] = w] /\ cli[p].op # "list"
  <2>1. CommandOk(w) BY <1>1, <1>4 DEF CommandOk, CliStages, Removes
  <2> HIDE DEF w
  <2> QED BY <1>1, <1>4, <2>1, CommandMoves
<1>5. Quit(p) \/ Become(p, "refused") \/ (cli' = [cli EXCEPT ![p] = w] /\ cli[p].op # "list")
  <2>1. \/ Quit(p) \/ Become(p, "refused")
        \/ cli[p].op # "list" /\ cli' = [cli EXCEPT ![p].base = registry, ![p].at = at]
    BY DEF Load
  <2> QED BY <1>1, <2>1, LoadMoves
<1> QED BY <1>2, <1>3, <1>4, <1>5

(* Every edit of a registry that loads gives one that loads. *)
LEMMA EditedGood ==
  ASSUME NEW c, CommandOk(c), c.at = "save", c.base \in Seq(Entries)
  PROVE  /\ Edited(c) \in Seq(Entries)
         /\ EditOk(c) => Good(Edited(c)) /\ Valid(Edited(c))
<1>1. c.op \in Operations \ {"list", "refresh"} BY DEF CommandOk
<1>2. EditOk(c) => Good(c.base) /\ (c.op \notin {"add", "grant"} => Has(c.base, c.alias)) BY DEF EditOk, Edits
<1>3. CASE c.op \in {"add", "grant"}
  <2>1. c.op # "set_default" /\ ~Removes(c.op) /\ c.alias \in Aliases BY <1>3 DEF Removes, CommandOk
  <2>2. Edited(c) = Upsert(c.base, c.alias) BY <1>3, <2>1 DEF Edited
  <2> QED BY <1>2, <2>1, <2>2, UpsertType, GoodUpsert, GoodIsValid
<1>4. CASE c.op = "set_default"
  <2>1. c.op \notin {"add", "grant"} /\ ~Removes(c.op) BY <1>4 DEF Removes
  <2>2. Edited(c) = MadeDefault(c.base, c.alias) BY <1>4, <2>1 DEF Edited
  <2> QED BY <1>2, <2>1, <2>2, MadeDefaultType, GoodMadeDefault, GoodIsValid
<1>5. CASE Removes(c.op)
  <2>1. c.op \notin {"add", "grant", "set_default"} BY <1>5 DEF Removes
  <2>2. Edited(c) = Without(c.base, c.alias) BY <1>5, <2>1 DEF Edited
  <2> QED BY <1>2, <2>2, WithoutType, GoodWithout, GoodIsValid
<1> QED BY <1>1, <1>3, <1>4, <1>5 DEF Operations, Removes

LEMMA CommandsLeft == ASSUME CommandsInv, UNCHANGED cliVars PROVE CommandsInv'
BY DEF CommandsInv, cliVars

LEMMA CommandStep ==
  ASSUME CommandsInv, NEW p \in Procs, Command(p) \/ Consent(p) \/ Confirm(p) \/ Interrupt(p)
  PROVE  CommandsInv'
<1>1. CASE Start(p) BY <1>1, StartInv
<1>2. CASE ReadToken(p) BY <1>2, ReadTokenInv
<1>3. CASE Exchange(p) BY <1>3, ExchangeInv
<1>4. CASE ForceRefresh(p) BY <1>4, ForceRefreshInv
<1>5. CASE Load(p) BY <1>5, LoadInv
<1>6. CASE Fill(p) BY <1>6, CommandsLeft DEF Fill
<1>7. CASE \/ BindListener(p) \/ Consent(p) \/ GiveUp(p) \/ UserInfo(p) \/ MakeDir(p) \/ WriteToken(p) \/ SetToken(p)
           \/ Confirm(p) \/ Revoke(p) \/ Unlink(p) \/ Save(p) \/ Place(p) \/ Interrupt(p)
  BY <1>7, PlainInv
<1> QED BY <1>1, <1>2, <1>3, <1>4, <1>5, <1>6, <1>7 DEF Command, Flow

LEMMA CommandsStep == ASSUME CommandsInv, [Next]_accountVars PROVE CommandsInv'
<1>1. CASE \E p \in Procs : Command(p) \/ Consent(p) \/ Confirm(p) \/ Interrupt(p) BY <1>1, CommandStep
<1>2. CASE Boot
  BY <1>2, CommandsLeft
  DEF Boot, Check, LoadTokens, EnsureCacheDir, SetDirMode, OpenDb, SetDbMode, Migrate, Listen
<1>3. CASE Crash BY <1>3, CommandsLeft DEF Crash
<1>4. CASE Purge
  BY <1>4, CommandsLeft DEF Purge, Probe, PurgeCache, PurgeToken, PurgeEntry, PurgeSave, PurgePlace, PurgeEnds
<1>5. CASE \E a \in Aliases : Refresh(a) \/ Refreshed(a) BY <1>5, CommandsLeft DEF Refresh, Refreshed
<1>6. CASE \E f \in Files : Fill(f) BY <1>6, CommandsLeft DEF Fill
<1>7. CASE UNCHANGED accountVars BY <1>7, CommandsLeft DEF accountVars
<1> QED BY <1>1, <1>2, <1>3, <1>4, <1>5, <1>6, <1>7 DEF Next

--------------------------------------------------------------------------------
(* The writing of a file *)

(* What is left of it is the text of somebody who wrote it, or does not parse. *)
LEMMA OverlaidType ==
  ASSUME NEW new \in Seq(Entries), NEW old, Typed(old), NEW t \in Overlaid(Registry, new, old)
  PROVE  Typed(t)
<1>1. CASE old = Garbled \/ old = <<>>
  <2>1. 2 .. Len(Garbled) = {} BY GarbledIsRefused
  <2>2. t \in {new, Garbled} BY <1>1, <2>1 DEF Overlaid, Empty
  <2> QED BY <2>2 DEF Typed
<1>2. CASE old \in Seq(Entries)
  <2>1. \A k \in 2 .. Len(old) : SubSeq(old, k, Len(old)) \in Seq(Entries) BY <1>2
  <2>2. t \in {new, Garbled} \/ \E k \in 2 .. Len(old) : t = new \o SubSeq(old, k, Len(old)) BY DEF Overlaid
  <2>3. \A s \in Seq(Entries) : new \o s \in Seq(Entries) OBVIOUS
  <2> QED BY <2>1, <2>2, <2>3 DEF Typed
<1> QED BY <1>1, <1>2 DEF Typed

LEMMA WritersAre ==
  /\ Registry \in Files /\ Aliases \subseteq Files /\ Files \subseteq Writers /\ Procs \subseteq Writers
  /\ \A p \in Procs : p \notin Files
BY NamesAssumption DEF Files, Writers

LEMMA NoPenIs ==
  /\ NoPen.file \notin Files /\ NoPen.on = "closed"
  /\ NoPen = [file |-> NoPen.file, on |-> NoPen.on, text |-> NoPen.text]
BY NamesAssumption DEF NoPen, Files

(* A writer opens the temporary file of f. *)
LEMMA OpensPens ==
  ASSUME PensInv, NEW w \in Writers, NEW f \in Files, NEW text, Opens(w, f, text),
         f = Registry => text \in Seq(Entries) /\ (Registry \notin clashed' => Good(text))
  PROVE  /\ PensInv' /\ pen'[w].text = text /\ \A v \in Writers : v # w => pen'[v] = pen[v]
         /\ Registry \in clashed => Registry \in clashed'
<1>1. /\ pen' = [v \in Writers |-> pen'[v]] /\ pen'[w] = [file |-> f, on |-> "draft", text |-> text]
      /\ \A v \in Writers : v # w => pen'[v] = pen[v]
  BY DEF PensInv, Opens
<1>2. pen'[w].file = f /\ pen'[w].on = "draft" /\ pen'[w].text = text BY <1>1
<1>3. /\ draft' = [g \in Files |-> draft'[g]] /\ draft'[f] = [there |-> TRUE, text |-> Empty(f)]
      /\ \A g \in Files : g # f => draft'[g] = draft[g]
  BY DEF PensInv, Opens
<1>4. draft'[f].there /\ draft'[f].text = Empty(f) BY <1>3
<1>5. /\ Registry \in clashed => Registry \in clashed'
      /\ \A g \in Files : g \notin clashed' /\ g # f => g \notin clashed
      /\ f \notin clashed' => \A v \in Writers : v # w => pen[v].file # f
  BY DEF Opens
<1>6. Typed(draft'[Registry].text)
  <2>1. CASE f = Registry
    <3>1. draft'[Registry].text = <<>> BY <1>4, <2>1 DEF Empty
    <3> QED BY <3>1 DEF Typed
  <2>2. CASE f # Registry BY <1>3, <2>2, WritersAre DEF PensInv
  <2> QED BY <2>1, <2>2
<1>7. ASSUME NEW v \in Writers PROVE PenOk(v)'
  <2>1. CASE v = w BY <1>1, <1>2, <2>1 DEF PenOk
  <2>2. CASE v # w
    <3>1. PenOk(v) /\ pen'[v] = pen[v] BY <1>1, <2>2 DEF PensInv
    <3> QED BY <1>5, <3>1 DEF PenOk
  <2> QED BY <2>1, <2>2
<1>8. ASSUME NEW g \in Files \ clashed', NEW v \in Writers, pen'[v].file = g PROVE Alone(v, g)'
  <2>1. CASE g = f
    <3>1. \A u \in Writers : pen'[u].file = g => u = w BY <1>1, <1>5, <1>8, <2>1
    <3>2. v = w BY <1>8, <3>1
    <3>3. (draft[g].text = Empty(g))' <=> draft'[g].text = Empty(g) BY DEF Empty
    <3> QED BY <1>2, <1>4, <2>1, <3>1, <3>2, <3>3 DEF Alone
  <2>2. CASE g # f
    <3>1. v # w /\ pen[v].file = g BY <1>1, <1>2, <1>8, <2>2
    <3>2. g \notin clashed BY <1>5, <2>2
    <3>3. Alone(v, g) BY <3>1, <3>2 DEF PensInv
    <3>4. \A u \in Writers : pen'[u].file = g => u = v BY <1>1, <1>2, <2>2, <3>3 DEF Alone
    <3>5. draft'[g] = draft[g] /\ pen'[v] = pen[v] BY <1>1, <1>3, <2>2, <3>1
    <3> QED BY <3>3, <3>4, <3>5 DEF Alone, Empty
  <2> QED BY <2>1, <2>2
<1>9. \A g \in Files : draft'[g] = [there |-> draft'[g].there, text |-> draft'[g].text]
  <2> SUFFICES ASSUME NEW g \in Files PROVE draft'[g] = [there |-> draft'[g].there, text |-> draft'[g].text] OBVIOUS
  <2>1. CASE g = f BY <1>3, <2>1
  <2>2. CASE g # f BY <1>3, <2>2 DEF PensInv
  <2> QED BY <2>1, <2>2
<1>10. PensInv' BY <1>1, <1>3, <1>6, <1>7, <1>8, <1>9 DEF PensInv
<1> QED BY <1>1, <1>2, <1>5, <1>10

(* A writer writes its text, into the temporary file, the file itself or nothing. *)
LEMMA FillPens ==
  ASSUME PensInv, token = [a \in Aliases |-> token[a]], NEW w \in Writers, Fill(w)
  PROVE  /\ PensInv' /\ UNCHANGED clashed
         /\ \A v \in Writers : pen'[v].text = pen[v].text
         /\ Typed(registry) => Typed(registry')
         /\ Registry \notin clashed => UNCHANGED registry
         /\ token' = [a \in Aliases |-> token'[a]]
         /\ \A a \in Aliases : token'[a] # token[a] => a \in clashed /\ touched' = Touch(a, "token")
         /\ touched \subseteq touched'
<1> DEFINE f == pen[w].file
           new == pen[w].text
<1>1. /\ pen[w].on # "closed" /\ PenOk(w) /\ f \in Files /\ UNCHANGED clashed
      /\ pen[w] = [file |-> f, on |-> pen[w].on, text |-> new]
  BY DEF Fill, PensInv, PenOk
<1>2. /\ pen' = [v \in Writers |-> pen'[v]] /\ pen'[w] = [file |-> f, on |-> "closed", text |-> new]
      /\ \A v \in Writers : v # w => pen'[v] = pen[v]
  <2> DEFINE filled == [pen[w] EXCEPT !.on = "closed"]
  <2>1. pen' = [pen EXCEPT ![w] = filled] BY DEF Fill
  <2>2. filled = [file |-> f, on |-> "closed", text |-> new] BY <1>1
  <2> HIDE DEF filled
  <2> QED BY <2>1, <2>2 DEF PensInv
<1>3. pen'[w].file = f /\ pen'[w].on = "closed" /\ pen'[w].text = new BY <1>2
<1>4. \A v \in Writers : pen'[v].file = pen[v].file /\ pen'[v].text = pen[v].text BY <1>2, <1>3
<1>5. ASSUME NEW v \in Writers PROVE PenOk(v)'
  <2>1. PenOk(v) BY DEF PensInv
  <2>2. CASE v = w BY <1>1, <1>2, <1>3, <2>1, <2>2 DEF PenOk
  <2>3. CASE v # w
    <3>1. pen'[v] = pen[v] BY <1>2, <2>3
    <3> QED BY <1>1, <2>1, <3>1 DEF PenOk
  <2> QED BY <2>2, <2>3
<1>6. f \notin clashed => Alone(w, f) /\ pen[w].on = "draft" /\ draft[f].text = Empty(f)
  BY <1>1 DEF PensInv, Alone
<1>7. \/ /\ pen[w].on = "draft" /\ \E t \in Overlaid(f, new, draft[f].text) : draft' = [draft EXCEPT ![f].text = t]
         /\ UNCHANGED <<registry, token, touched>>
      \/ /\ pen[w].on = "file" /\ f = Registry /\ registry' \in Overlaid(f, new, registry)
         /\ UNCHANGED <<token, draft, touched>>
      \/ /\ pen[w].on = "file" /\ f # Registry /\ \E t : token' = [token EXCEPT ![f] = t]
         /\ touched' = Touch(f, "token") /\ UNCHANGED <<registry, draft>>
      \/ pen[w].on = "gone" /\ UNCHANGED <<registry, token, draft, touched>>
  BY DEF Fill
<1>8. f = Registry => new \in Seq(Entries) BY <1>1 DEF PenOk
<1> HIDE DEF f, new
<1>9. Typed(registry) => Typed(registry')
  <2>1. CASE f = Registry /\ registry' \in Overlaid(f, new, registry) BY <1>8, <2>1, OverlaidType
  <2>2. CASE UNCHANGED registry BY <2>2
  <2> QED BY <1>7, <2>1, <2>2
<1>10. Registry \notin clashed => UNCHANGED registry BY <1>6, <1>7
<1>11. /\ token' = [a \in Aliases |-> token'[a]]
       /\ \A a \in Aliases : token'[a] # token[a] => a \in clashed /\ touched' = Touch(a, "token")
       /\ touched \subseteq touched'
  <2>1. touched \subseteq Touch(f, "token") BY DEF Touch
  <2>2. CASE UNCHANGED <<token, touched>> BY <2>2
  <2>3. CASE pen[w].on = "file" /\ touched' = Touch(f, "token") /\ \E t : token' = [token EXCEPT ![f] = t]
    <3>1. PICK t : token' = [token EXCEPT ![f] = t] BY <2>3
    <3>2. token' = [a \in Aliases |-> token'[a]] /\ \A a \in Aliases : a # f => token'[a] = token[a] BY <3>1
    <3> QED BY <1>6, <2>1, <2>3, <3>2
  <2> QED BY <1>7, <2>2, <2>3
<1>12. /\ draft' = [g \in Files |-> draft'[g]] /\ \A g \in Files : g # f => draft'[g] = draft[g]
       /\ draft'[f] = [there |-> draft[f].there, text |-> draft'[f].text]
       /\ f \notin clashed => draft'[f].text = new
       /\ f = Registry => Typed(draft'[f].text)
  <2>1. draft[f] = [there |-> draft[f].there, text |-> draft[f].text] BY <1>1 DEF PensInv
  <2>2. CASE pen[w].on = "draft"
    <3>1. PICK t \in Overlaid(f, new, draft[f].text) : draft' = [draft EXCEPT ![f].text = t] BY <1>7, <2>2
    <3> DEFINE d == [draft[f] EXCEPT !.text = t]
    <3>2. draft' = [draft EXCEPT ![f] = d] BY <3>1
    <3>3. d = [there |-> draft[f].there, text |-> t] BY <2>1
    <3> HIDE DEF d
    <3>4. /\ draft' = [g \in Files |-> draft'[g]] /\ \A g \in Files : g # f => draft'[g] = draft[g]
          /\ draft'[f] = d
      BY <1>1, <3>2 DEF PensInv
    <3>5. draft'[f].text = t BY <3>3, <3>4
    <3>6. f \notin clashed => t = new BY <1>6, <3>1 DEF Overlaid
    <3>7. f = Registry => Typed(t) BY <1>8, <3>1, OverlaidType DEF PensInv
    <3> QED BY <3>3, <3>4, <3>5, <3>6, <3>7
  <2>3. CASE pen[w].on # "draft"
    <3>1. UNCHANGED draft /\ f \in clashed BY <1>6, <1>7, <2>3
    <3> QED BY <2>1, <3>1 DEF PensInv
  <2> QED BY <2>2, <2>3
<1>13. ASSUME NEW g \in Files \ clashed', NEW v \in Writers, pen'[v].file = g PROVE Alone(v, g)'
  <2>1. g \notin clashed /\ pen[v].file = g BY <1>1, <1>4, <1>13
  <2>2. Alone(v, g) BY <2>1 DEF PensInv
  <2>3. \A u \in Writers : pen'[u].file = g => u = v BY <1>4, <2>2 DEF Alone
  <2>4. CASE g = f
    <3>1. v = w BY <2>2, <2>4 DEF Alone, f
    <3>2. draft'[g].there /\ draft'[g].text = pen'[v].text /\ pen'[v].on = "closed"
      BY <1>3, <1>12, <2>1, <2>2, <2>4, <3>1 DEF Alone
    <3> QED BY <2>3, <3>2 DEF Alone
  <2>5. CASE g # f
    <3>1. v # w BY <2>1, <2>5 DEF f
    <3>2. draft'[g] = draft[g] /\ pen'[v] = pen[v] BY <1>2, <1>12, <2>5, <3>1
    <3> QED BY <2>2, <2>3, <3>2 DEF Alone, Empty
  <2> QED BY <2>4, <2>5
<1>14. /\ Typed(draft'[Registry].text)
       /\ \A g \in Files : draft'[g] = [there |-> draft'[g].there, text |-> draft'[g].text]
  <2>1. draft'[f].there = draft[f].there BY <1>12
  <2>2. CASE f = Registry BY <1>12, <2>1, <2>2 DEF PensInv
  <2>3. CASE f # Registry BY <1>12, <2>1, <2>3, WritersAre DEF PensInv
  <2> QED BY <2>2, <2>3
<1>15. PensInv' BY <1>2, <1>5, <1>12, <1>13, <1>14 DEF PensInv
<1> QED BY <1>1, <1>4, <1>9, <1>10, <1>11, <1>15

(* A writer renames its temporary file. *)
LEMMA RenamesPens ==
  ASSUME PensInv, NEW w \in Writers, NEW f \in Files, Written(w, f), Renames(w, f), UNCHANGED clashed
  PROVE  PensInv' /\ \A v \in Writers : v # w => pen'[v].text = pen[v].text
<1>1. pen' = [v \in Writers |-> pen'[v]] /\ pen'[w] = NoPen BY DEF Renames
<1>2. ASSUME NEW v \in Writers, v # w
      PROVE  /\ pen'[v] = [file |-> pen[v].file, on |-> pen'[v].on, text |-> pen[v].text]
             /\ pen'[v].file = pen[v].file /\ pen'[v].text = pen[v].text
             /\ pen'[v].on # "closed" => pen[v].on # "closed"
             /\ pen[v].file # f => pen'[v] = pen[v]
  <2>1. pen[v] = [file |-> pen[v].file, on |-> pen[v].on, text |-> pen[v].text] BY DEF PensInv, PenOk
  <2>2. CASE pen[v].file # f
    <3>1. pen'[v] = pen[v] BY <1>2, <2>2 DEF Renames
    <3> QED BY <2>1, <2>2, <3>1
  <2>3. CASE pen[v].file = f
    <3> DEFINE on == CASE pen[v].on = "draft" -> "file" [] pen[v].on = "file" -> "gone" [] OTHER -> pen[v].on
    <3>1. pen'[v] = [pen[v] EXCEPT !.on = on] BY <1>2, <2>3 DEF Renames
    <3>2. on # "closed" => pen[v].on # "closed" OBVIOUS
    <3> HIDE DEF on
    <3>3. pen'[v] = [file |-> pen[v].file, on |-> on, text |-> pen[v].text] BY <2>1, <3>1
    <3>4. pen'[v].file = pen[v].file /\ pen'[v].on = on /\ pen'[v].text = pen[v].text BY <3>3
    <3> QED BY <2>3, <3>2, <3>3, <3>4
  <2> QED BY <2>2, <2>3
<1>3. /\ draft' = [g \in Files |-> draft'[g]] /\ draft'[f] = [there |-> FALSE, text |-> Empty(f)]
      /\ \A g \in Files : g # f => draft'[g] = draft[g]
  BY DEF PensInv, Renames, NoDraft
<1>4. ASSUME NEW v \in Writers PROVE PenOk(v)'
  <2>1. PenOk(v) BY DEF PensInv
  <2>2. CASE v = w BY <1>1, <2>2, NoPenIs, WritersAre DEF PenOk
  <2>3. CASE v # w BY <1>2, <2>1, <2>3 DEF PenOk
  <2> QED BY <2>2, <2>3
<1>5. ASSUME NEW g \in Files \ clashed', NEW v \in Writers, pen'[v].file = g PROVE Alone(v, g)'
  <2>1. g \notin clashed /\ v # w BY <1>1, <1>5, NoPenIs
  <2>2. pen[v].file = g BY <1>2, <1>5, <2>1
  <2>3. Alone(v, g) BY <2>1, <2>2 DEF PensInv
  <2>4. g # f BY <2>1, <2>3 DEF Alone, Written
  <2>5. pen'[v] = pen[v] /\ draft'[g] = draft[g] BY <1>2, <1>3, <2>1, <2>2, <2>4
  <2>6. \A u \in Writers : pen'[u].file = g => u = v BY <1>1, <1>2, <2>3, NoPenIs DEF Alone
  <2> QED BY <2>3, <2>5, <2>6 DEF Alone, Empty
<1>6. /\ Typed(draft'[Registry].text)
      /\ \A g \in Files : draft'[g] = [there |-> draft'[g].there, text |-> draft'[g].text]
  <2>1. draft'[f].there = FALSE /\ draft'[f].text = Empty(f) BY <1>3
  <2>2. \A g \in Files : draft'[g] = [there |-> draft'[g].there, text |-> draft'[g].text]
    BY <1>3, <2>1 DEF PensInv
  <2>3. CASE f = Registry
    <3>1. draft'[Registry].text = <<>> BY <2>1, <2>3 DEF Empty
    <3> QED BY <2>2, <3>1 DEF Typed
  <2>4. CASE f # Registry BY <1>3, <2>2, <2>4, WritersAre DEF PensInv
  <2> QED BY <2>3, <2>4
<1>7. PensInv' BY <1>1, <1>3, <1>4, <1>5, <1>6 DEF PensInv
<1> QED BY <1>2, <1>7

(* Descriptors are closed, or lead nowhere any more. *)
LEMMA DropsPens ==
  ASSUME PensInv, UNCHANGED <<draft, clashed>>,
         (\E W : pen' = Closed(W)) \/ (\E f \in Files : Unlinks(f)) \/ UNCHANGED pen
  PROVE  /\ PensInv'
         /\ \A v \in Writers : pen'[v].text = pen[v].text \/ \E W : v \in W /\ pen' = Closed(W)
<1>1. /\ pen' = [v \in Writers |-> pen'[v]]
      /\ \A v \in Writers :
            \/ pen'[v] = NoPen /\ \E W : v \in W /\ pen' = Closed(W)
            \/ pen'[v] = pen[v]
            \/ pen[v].on = "file" /\ pen'[v] = [pen[v] EXCEPT !.on = "gone"]
  BY DEF PensInv, Closed, Unlinks
<1>2. ASSUME NEW v \in Writers, pen'[v] # NoPen
      PROVE  /\ pen'[v] = [file |-> pen[v].file, on |-> pen'[v].on, text |-> pen[v].text]
             /\ pen'[v].file = pen[v].file /\ pen'[v].text = pen[v].text
             /\ pen'[v].on # "closed" => pen[v].on # "closed"
             /\ pen[v].on # "file" => pen'[v] = pen[v]
  <2>1. pen[v] = [file |-> pen[v].file, on |-> pen[v].on, text |-> pen[v].text] BY DEF PensInv, PenOk
  <2>2. CASE pen'[v] = pen[v] BY <2>1, <2>2
  <2>3. CASE pen[v].on = "file" /\ pen'[v] = [pen[v] EXCEPT !.on = "gone"]
    <3>1. pen'[v] = [file |-> pen[v].file, on |-> "gone", text |-> pen[v].text] BY <2>1, <2>3
    <3>2. pen'[v].file = pen[v].file /\ pen'[v].on = "gone" /\ pen'[v].text = pen[v].text BY <3>1
    <3> QED BY <2>3, <3>1, <3>2
  <2> QED BY <1>1, <1>2, <2>2, <2>3
<1>3. ASSUME NEW v \in Writers PROVE PenOk(v)'
  <2>1. PenOk(v) BY DEF PensInv
  <2>2. CASE pen'[v] = NoPen BY <2>2, NoPenIs, WritersAre DEF PenOk
  <2>3. CASE pen'[v] # NoPen BY <1>2, <2>1, <2>3 DEF PenOk
  <2> QED BY <2>2, <2>3
<1>4. ASSUME NEW g \in Files \ clashed', NEW v \in Writers, pen'[v].file = g PROVE Alone(v, g)'
  <2>1. g \notin clashed /\ pen'[v] # NoPen BY <1>4, NoPenIs
  <2>2. pen[v].file = g BY <1>2, <1>4, <2>1
  <2>3. Alone(v, g) BY <2>1, <2>2 DEF PensInv
  <2>4. pen'[v] = pen[v] BY <1>2, <2>1, <2>3 DEF Alone
  <2>5. \A u \in Writers : pen'[u].file = g => u = v BY <1>2, <2>3, NoPenIs DEF Alone
  <2> QED BY <2>3, <2>4, <2>5 DEF Alone, Empty
<1>5. PensInv' BY <1>1, <1>3, <1>4 DEF PensInv
<1>6. ASSUME NEW v \in Writers PROVE pen'[v].text = pen[v].text \/ \E W : v \in W /\ pen' = Closed(W)
  <2>1. CASE pen'[v] # NoPen BY <1>2, <2>1
  <2>2. CASE pen'[v] = pen[v] BY <2>2
  <2>3. CASE \E W : v \in W /\ pen' = Closed(W) BY <2>3
  <2>4. CASE pen'[v] = NoPen /\ pen[v].on = "file" /\ pen'[v] = [pen[v] EXCEPT !.on = "gone"]
    <3>1. pen[v] = [file |-> pen[v].file, on |-> pen[v].on, text |-> pen[v].text] BY DEF PensInv, PenOk
    <3>2. pen'[v] = [file |-> pen[v].file, on |-> "gone", text |-> pen[v].text] BY <2>4, <3>1
    <3>3. pen'[v].text = pen[v].text BY <3>2
    <3> QED BY <3>3
  <2> QED BY <1>1, <2>1, <2>2, <2>3, <2>4
<1> QED BY <1>5, <1>6

(* Who writes nothing. *)
LEMMA PensStay == ASSUME PensInv, UNCHANGED writeVars PROVE PensInv'
BY DEF PensInv, PenOk, Alone, writeVars, Empty

LEMMA WriteTokenPens ==
  ASSUME CommandsInv, PensInv, NEW p \in Procs, WriteToken(p)
  PROVE  /\ PensInv' /\ \A v \in Writers : v # p => pen'[v] = pen[v]
         /\ Become(p, "set") => pen'[p].text = cli[p].new
         /\ Registry \in clashed => Registry \in clashed'
<1>1. CASE UNCHANGED writeVars /\ Quit(p)
  <2>1. ~Become(p, "set")
    <3>1. cli'[p].at = "idle" BY <1>1, Rested DEF Quit
    <3>2. Become(p, "set") => cli'[p].at = "set" BY Became
    <3> QED BY <3>1, <3>2
  <2> QED BY <1>1, <2>1, PensStay DEF writeVars
<1>2. CASE Opens(p, cli[p].alias, cli[p].new)
  <2>1. CommandOk(cli[p]) /\ cli[p].at = "write" BY DEF WriteToken, CommandsInv
  <2>2. cli[p].alias \in Aliases BY <2>1 DEF CommandOk
  <2>3. cli[p].alias # Registry BY <2>2, NamesAssumption
  <2> QED BY <1>2, <2>2, <2>3, OpensPens, WritersAre
<1> QED BY <1>1, <1>2 DEF WriteToken

LEMMA SavePens ==
  ASSUME CommandsInv, PensInv, RegistryInv, NEW p \in Procs, Save(p)
  PROVE  /\ PensInv' /\ \A v \in Writers : v # p => pen'[v] = pen[v]
         /\ Registry \in clashed => Registry \in clashed'
<1>1. CASE UNCHANGED writeVars BY <1>1, PensStay DEF writeVars
<1>2. CASE Opens(p, Registry, Edited(cli[p]))
  <2>1. CommandOk(cli[p]) /\ cli[p].at = "save" BY DEF Save, CommandsInv
  <2>2. cli[p].base \in Seq(Entries) BY <2>1 DEF RegistryInv, Edits
  <2>3. Registry \notin clashed' => Registry \notin clashed BY <1>2 DEF Opens
  <2>4. Registry \notin clashed => EditOk(cli[p]) BY DEF RegistryInv
  <2>5. Edited(cli[p]) \in Seq(Entries) /\ (Registry \notin clashed' => Good(Edited(cli[p])))
    BY <2>1, <2>2, <2>3, <2>4, EditedGood
  <2> QED BY <1>2, <2>5, OpensPens, WritersAre
<1> QED BY <1>1, <1>2 DEF Save

LEMMA PurgeSavePens ==
  ASSUME PensInv, RegistryInv, PurgeSave
  PROVE  /\ PensInv' /\ \A v \in Writers : v # Registry => pen'[v] = pen[v]
         /\ purge'.at = "place" => pen'[Registry].text = Without(purge.base, purge.alias)
         /\ Registry \in clashed => Registry \in clashed'
<1> DEFINE edit == Without(purge.base, purge.alias)
<1>1. purge.at = "save" /\ purge.base \in Seq(Entries) BY DEF PurgeSave, RegistryInv
<1>2. CASE UNCHANGED writeVars /\ purge' = [purge EXCEPT !.at = "failed"]
  <2>1. purge'.at # "place" BY <1>1, <1>2
  <2> QED BY <1>2, <2>1, PensStay DEF writeVars
<1>3. CASE Opens(Registry, Registry, edit)
  <2>1. Registry \notin clashed' => Registry \notin clashed BY <1>3 DEF Opens
  <2>2. Registry \notin clashed => Good(purge.base) BY <1>1 DEF RegistryInv
  <2>3. edit \in Seq(Entries) /\ (Registry \notin clashed' => Good(edit))
    BY <1>1, <2>1, <2>2, WithoutType, GoodWithout
  <2> HIDE DEF edit
  <2>4. /\ PensInv' /\ pen'[Registry].text = edit /\ \A v \in Writers : v # Registry => pen'[v] = pen[v]
        /\ Registry \in clashed => Registry \in clashed'
    BY <1>3, <2>3, OpensPens, WritersAre
  <2> QED BY <2>4 DEF edit
<1> QED BY <1>2, <1>3 DEF PurgeSave

LEMMA RefreshPens ==
  ASSUME PensInv, NEW a \in Aliases, Refresh(a)
  PROVE  /\ PensInv' /\ \A v \in Writers : v # a => pen'[v] = pen[v]
         /\ Registry \in clashed => Registry \in clashed'
<1>1. Opens(a, a, daemon.mem[a]) /\ a # Registry BY NamesAssumption DEF Refresh
<1> QED BY <1>1, OpensPens, WritersAre

(* A rename, or nothing to rename any more. *)
LEMMA PlacesPens ==
  ASSUME PensInv, NEW w \in Writers, NEW f \in Files, Written(w, f), UNCHANGED clashed,
         Renames(w, f) \/ (UNCHANGED draft /\ pen' = Closed({w}))
  PROVE  PensInv' /\ \A v \in Writers : v # w => pen'[v].text = pen[v].text
<1>1. CASE Renames(w, f) BY <1>1, RenamesPens
<1>2. CASE UNCHANGED draft /\ pen' = Closed({w})
  <2>1. PensInv' BY <1>2, DropsPens
  <2>2. \A v \in Writers : v # w => pen'[v] = pen[v] BY <1>2 DEF Closed
  <2> QED BY <2>1, <2>2
<1> QED BY <1>1, <1>2

(* The commands that write no file. *)
Acts(p) ==
  \/ Start(p) \/ ReadToken(p) \/ BindListener(p) \/ GiveUp(p) \/ Exchange(p) \/ UserInfo(p) \/ ForceRefresh(p)
  \/ MakeDir(p) \/ Load(p) \/ Revoke(p) \/ Consent(p) \/ Confirm(p)

LEMMA ActsLeave ==
  ASSUME NEW p \in Procs, Acts(p)
  PROVE  UNCHANGED <<cfg, env, registry, token, writeVars, daemonVars, ghostVars>>
BY DEF Acts, Start, ReadToken, BindListener, GiveUp, Exchange, UserInfo, ForceRefresh, MakeDir, Load, Revoke, Consent,
       Confirm, diskVars

LEMMA CommandIs ==
  ASSUME NEW p \in Procs, Command(p) \/ Consent(p) \/ Confirm(p) \/ Interrupt(p)
  PROVE  \/ Acts(p) \/ Fill(p) \/ WriteToken(p) \/ SetToken(p) \/ Save(p) \/ Place(p) \/ Unlink(p) \/ Interrupt(p)
BY DEF Command, Flow, Acts

(* The steps of the daemon that write no file. *)
LEMMA BootLeaves ==
  ASSUME Boot PROVE UNCHANGED <<env, registry, token, writeVars, cliVars, purges, purge, ghostVars>> /\ UNCHANGED cfg
BY DEF Boot, Check, LoadTokens, EnsureCacheDir, SetDirMode, OpenDb, SetDbMode, Migrate, Listen, diskVars

LEMMA PensStep ==
  ASSUME CommandsInv, PensInv, RegistryInv, PromisesInv, [Next]_accountVars PROVE PensInv'
<1>1. ASSUME NEW p \in Procs, Command(p) \/ Consent(p) \/ Confirm(p) \/ Interrupt(p) PROVE PensInv'
  <2>1. CASE Acts(p) BY <2>1, ActsLeave, PensStay
  <2>2. CASE Fill(p) BY <2>2, FillPens, WritersAre DEF PromisesInv
  <2>3. CASE WriteToken(p) BY <2>3, WriteTokenPens
  <2>4. CASE SetToken(p)
    <3>1. cli[p].alias \in Files BY <2>4, WritersAre DEF SetToken, CommandsInv, CommandOk
    <3>2. UNCHANGED clashed /\ Written(p, cli[p].alias) BY <2>4 DEF SetToken
    <3>3. Renames(p, cli[p].alias) \/ (UNCHANGED draft /\ pen' = Closed({p})) BY <2>4 DEF SetToken
    <3> QED BY <3>1, <3>2, <3>3, PlacesPens, WritersAre
  <2>5. CASE Save(p) BY <2>5, SavePens
  <2>6. CASE Place(p)
    <3>1. UNCHANGED clashed /\ Written(p, Registry) BY <2>6 DEF Place
    <3>2. Renames(p, Registry) \/ (UNCHANGED draft /\ pen' = Closed({p})) BY <2>6 DEF Place
    <3> QED BY <3>1, <3>2, PlacesPens, WritersAre
  <2>7. CASE Unlink(p)
    <3>1. cli[p].alias \in Files BY <2>7, WritersAre DEF Unlink, CommandsInv, CommandOk, Removes
    <3> QED BY <2>7, <3>1, DropsPens DEF Unlink
  <2>8. CASE Interrupt(p) BY <2>8, DropsPens DEF Interrupt
  <2> QED BY <1>1, <2>1, <2>2, <2>3, <2>4, <2>5, <2>6, <2>7, <2>8, CommandIs
<1>2. CASE Boot BY <1>2, BootLeaves, PensStay
<1>3. CASE Crash BY <1>3, DropsPens DEF Crash
<1>4. CASE PurgeSave BY <1>4, PurgeSavePens
<1>5. CASE PurgePlace
  <2>1. UNCHANGED clashed /\ Written(Registry, Registry) BY <1>5 DEF PurgePlace
  <2>2. Renames(Registry, Registry) \/ (UNCHANGED draft /\ pen' = Closed({Registry})) BY <1>5 DEF PurgePlace
  <2> QED BY <2>1, <2>2, PlacesPens, WritersAre
<1>6. CASE PurgeToken
  <2>1. UNCHANGED <<draft, clashed>> /\ (UNCHANGED pen \/ Unlinks(purge.alias)) BY <1>6 DEF PurgeToken
  <2>2. Unlinks(purge.alias) => (\E f \in Files : Unlinks(f)) \/ UNCHANGED pen
    <3>1. CASE purge.alias \in Files BY <3>1
    <3>2. CASE purge.alias \notin Files
      <4>1. \A v \in Writers : pen[v].on = "file" => pen[v].file # purge.alias BY <3>2 DEF PensInv, PenOk
      <4> QED BY <4>1 DEF Unlinks, PensInv
    <3> QED BY <3>1, <3>2
  <2> QED BY <2>1, <2>2, DropsPens
<1>7. CASE Probe \/ PurgeCache \/ PurgeEntry
  BY <1>7, PensStay DEF Probe, PurgeCache, PurgeEntry, diskVars
<1>8. CASE PurgeEnds BY <1>8, DropsPens DEF PurgeEnds
<1>9. ASSUME NEW a \in Aliases, Refresh(a) PROVE PensInv' BY <1>9, RefreshPens
<1>10. ASSUME NEW a \in Aliases, Refreshed(a) PROVE PensInv'
  <2>1. UNCHANGED clashed /\ Written(a, a) BY <1>10 DEF Refreshed
  <2>2. Renames(a, a) \/ (UNCHANGED draft /\ pen' = Closed({a})) BY <1>10 DEF Refreshed
  <2> QED BY <2>1, <2>2, PlacesPens, WritersAre
<1>11. ASSUME NEW f \in Files, Fill(f) PROVE PensInv' BY <1>11, FillPens, WritersAre DEF PromisesInv
<1>12. CASE UNCHANGED accountVars BY <1>12, PensStay DEF accountVars, diskVars
<1> QED BY <1>1, <1>2, <1>3, <1>4, <1>5, <1>6, <1>7, <1>8, <1>9, <1>10, <1>11, <1>12 DEF Next, Purge

--------------------------------------------------------------------------------
(* What is promised *)

(* A token file changes, and what is promised of it with it. *)
LEMMA TokenChanges ==
  ASSUME PromisesInv, NEW a \in Aliases, NEW new, token' = [token EXCEPT ![a] = new], UNCHANGED <<registry, clashed>>,
         \/ promised' = [promised EXCEPT ![a] = {}]
         \/ promised' = promised /\ promised[a] \subseteq new.scopes
  PROVE  PromisesInv'
<1>1. /\ token' = [b \in Aliases |-> token'[b]] /\ token'[a] = new
      /\ \A b \in Aliases : b # a => token'[b] = token[b]
  BY DEF PromisesInv
<1>2. CASE promised' = [promised EXCEPT ![a] = {}]
  <2>1. /\ promised' = [b \in Aliases |-> promised'[b]] /\ promised'[a] = {}
        /\ \A b \in Aliases : b # a => promised'[b] = promised[b]
    BY <1>2 DEF PromisesInv
  <2> QED BY <1>1, <2>1 DEF PromisesInv
<1>3. CASE promised' = promised /\ promised[a] \subseteq new.scopes BY <1>1, <1>3 DEF PromisesInv
<1> QED BY <1>2, <1>3

LEMMA PromisesLeft == ASSUME PromisesInv, UNCHANGED <<registry, token, promised, clashed>> PROVE PromisesInv'
BY DEF PromisesInv

(* Who finds another one at the same temporary file takes back what is promised of *)
(* that file.                                                                     *)
LEMMA OpensKeeps ==
  ASSUME PromisesInv, NEW w, NEW f, NEW text, Opens(w, f, text), UNCHANGED <<registry, token>>
  PROVE  PromisesInv'
<1> DEFINE clash == \E v \in Writers \ {w} : pen[v].file = f
<1>1. /\ promised' = [a \in Aliases |-> IF clash /\ f \in {a, Registry} THEN {} ELSE promised[a]]
      /\ clashed' = IF clash THEN clashed \cup {f} ELSE clashed \ ({f} \ {Registry})
  BY DEF Opens
<1> HIDE DEF clash
<1>2. promised' = [a \in Aliases |-> promised'[a]] BY <1>1
<1>3. ASSUME NEW a \in Aliases, promised'[a] # {}
      PROVE  promised'[a] = promised[a] /\ a \notin clashed' /\ Registry \notin clashed'
  <2>1. promised'[a] = promised[a] /\ ~(clash /\ f \in {a, Registry}) BY <1>1, <1>3
  <2>2. a \notin clashed /\ Registry \notin clashed BY <1>3, <2>1 DEF PromisesInv
  <2> QED BY <1>1, <2>1, <2>2
<1> QED BY <1>2, <1>3 DEF PromisesInv

(* A writer that has the temporary file alone renames the text it wrote. *)
LEMMA PlacesItsText ==
  ASSUME PensInv, NEW w \in Writers, NEW f \in Files \ clashed, Written(w, f)
  PROVE  draft[f].there /\ draft[f].text = pen[w].text
BY DEF PensInv, Alone, Written

LEMMA SetTokenKeeps ==
  ASSUME CommandsInv, PensInv, TextInv, PromisesInv, NEW p \in Procs, SetToken(p) PROVE PromisesInv'
<1> DEFINE c == cli[p]
           text == draft[c.alias].text
<1>1. CommandOk(c) /\ c.at = "set" /\ Written(p, c.alias) /\ UNCHANGED <<registry, clashed>> BY DEF CommandsInv, SetToken
<1>2. pen[p].text = c.new BY <1>1 DEF TextInv
<1>3. \/ UNCHANGED <<token, promised>>
      \/ /\ token' = [token EXCEPT ![c.alias] = text]
         /\ promised' = IF c.op = "add" \/ token[c.alias] # c.read THEN [promised EXCEPT ![c.alias] = {}] ELSE promised
  BY DEF SetToken
<1> HIDE DEF c, text
<1>4. c.op \in {"add", "grant", "refresh"} /\ c.alias \in Aliases BY <1>1 DEF CommandOk
<1>5. c.alias \notin clashed => text = c.new BY <1>1, <1>2, <1>4, PlacesItsText, WritersAre DEF text
<1>6. CASE UNCHANGED <<token, promised>> BY <1>1, <1>6, PromisesLeft
<1>7. CASE token' = [token EXCEPT ![c.alias] = text] /\ promised' = [promised EXCEPT ![c.alias] = {}]
  BY <1>1, <1>4, <1>7, TokenChanges
<1>8. CASE /\ token' = [token EXCEPT ![c.alias] = text] /\ promised' = promised
           /\ c.op # "add" /\ token[c.alias] = c.read
  <2>1. promised[c.alias] \subseteq text.scopes
    <3>1. CASE promised[c.alias] = {} BY <3>1
    <3>2. CASE promised[c.alias] # {}
      <4>1. promised[c.alias] \subseteq c.read.scopes /\ text = c.new BY <1>4, <1>5, <1>8, <3>2 DEF PromisesInv
      <4>2. c.read.scopes \subseteq c.new.scopes BY <1>1, <1>4, <1>8 DEF CommandOk
      <4> QED BY <4>1, <4>2
    <3> QED BY <3>1, <3>2
  <2> QED BY <1>1, <1>4, <1>8, <2>1, TokenChanges
<1> QED BY <1>3, <1>6, <1>7, <1>8

(* A new accounts.toml keeps the promises of those it lists. *)
LEMMA ListedKeeps ==
  ASSUME PromisesInv, UNCHANGED <<token, clashed>>, promised' = Listed(promised) PROVE PromisesInv'
BY DEF PromisesInv, Listed

LEMMA PlaceKeeps == ASSUME CommandsInv, PromisesInv, NEW p \in Procs, Place(p) PROVE PromisesInv'
<1> DEFINE c == cli[p]
           told == IF c.op = "add" THEN c.new.scopes
                   ELSE IF promised[c.alias] # {} THEN promised[c.alias] \cup c.extra ELSE {}
           tells == c.op \in {"add", "grant"} /\ token[c.alias] = c.new /\ clashed \cap {Registry, c.alias} = {}
<1>1. CommandOk(c) /\ c.at = "place" /\ UNCHANGED <<token, clashed>> BY DEF CommandsInv, Place
<1>2. \/ UNCHANGED <<registry, promised>>
      \/ promised' = Listed(IF tells THEN [promised EXCEPT ![c.alias] = told] ELSE promised)
  BY DEF Place
<1>3. c.op \in {"add", "grant"} => c.alias \in Aliases BY <1>1 DEF CommandOk
<1>4. c.op = "grant" => c.extra \subseteq c.new.scopes BY <1>1 DEF CommandOk
<1> HIDE DEF c
<1>5. tells => told \subseteq token[c.alias].scopes
  <2> SUFFICES ASSUME tells PROVE told \subseteq token[c.alias].scopes OBVIOUS
  <2>1. CASE c.op = "add" BY <2>1
  <2>2. CASE c.op # "add" /\ promised[c.alias] = {} BY <2>2
  <2>3. CASE c.op = "grant" /\ promised[c.alias] # {}
    <3>1. promised[c.alias] \subseteq token[c.alias].scopes BY <1>3, <2>3 DEF PromisesInv
    <3>2. c.extra \subseteq token[c.alias].scopes BY <1>4, <2>3
    <3>3. told = promised[c.alias] \cup c.extra BY <2>3
    <3> QED BY <3>1, <3>2, <3>3
  <2> QED BY <2>1, <2>2, <2>3
<1>6. tells => c.alias \in Aliases /\ c.alias \notin clashed /\ Registry \notin clashed BY <1>3
<1> HIDE DEF told, tells
<1>7. CASE UNCHANGED <<registry, promised>> BY <1>1, <1>7, PromisesLeft
<1>8. CASE promised' = Listed(promised) BY <1>1, <1>8, ListedKeeps
<1>9. CASE tells /\ promised' = Listed([promised EXCEPT ![c.alias] = told])
  <2> DEFINE kept == [promised EXCEPT ![c.alias] = told]
  <2>1. kept[c.alias] = told /\ \A a \in Aliases : a # c.alias => kept[a] = promised[a]
    BY <1>6, <1>9 DEF PromisesInv
  <2> HIDE DEF kept
  <2>2. /\ promised' = [a \in Aliases |-> promised'[a]]
        /\ \A a \in Aliases : promised'[a] # {} => Has(registry', a) /\ promised'[a] = kept[a]
    BY <1>9 DEF Listed, kept
  <2>3. ASSUME NEW a \in Aliases, promised'[a] # {}
        PROVE  promised'[a] \subseteq token[a].scopes /\ a \notin clashed /\ Registry \notin clashed
    <3>1. CASE a = c.alias BY <1>5, <1>6, <1>9, <2>1, <2>2, <3>1
    <3>2. CASE a # c.alias BY <2>1, <2>2, <2>3, <3>2 DEF PromisesInv
    <3> QED BY <3>1, <3>2
  <2> QED BY <1>1, <2>2, <2>3 DEF PromisesInv
<1> QED BY <1>2, <1>7, <1>8, <1>9

LEMMA FillKeeps == ASSUME PensInv, PromisesInv, NEW w \in Writers, Fill(w) PROVE PromisesInv'
<1>1. UNCHANGED <<promised, clashed>> /\ token' = [a \in Aliases |-> token'[a]] BY FillPens DEF Fill, PromisesInv
<1>2. /\ Registry \notin clashed => UNCHANGED registry
      /\ \A a \in Aliases : token'[a] # token[a] => a \in clashed
  BY FillPens DEF PromisesInv
<1>3. ASSUME NEW a \in Aliases, promised[a] # {} PROVE token'[a] = token[a] /\ UNCHANGED registry
  BY <1>2, <1>3 DEF PromisesInv
<1> QED BY <1>1, <1>3 DEF PromisesInv

LEMMA PromisesStep ==
  ASSUME CommandsInv, PensInv, TextInv, PromisesInv, PurgeInv, [Next]_accountVars PROVE PromisesInv'
<1>1. ASSUME NEW p \in Procs, Command(p) \/ Consent(p) \/ Confirm(p) \/ Interrupt(p) PROVE PromisesInv'
  <2>1. CASE Acts(p) BY <2>1, ActsLeave, PromisesLeft DEF writeVars, ghostVars
  <2>2. CASE Fill(p) BY <2>2, FillKeeps, WritersAre
  <2>3. CASE WriteToken(p)
    <3>1. UNCHANGED <<registry, token>> /\ (Opens(p, cli[p].alias, cli[p].new) \/ UNCHANGED <<promised, clashed>>)
      BY <2>3 DEF WriteToken, writeVars
    <3> QED BY <3>1, OpensKeeps, PromisesLeft
  <2>4. CASE SetToken(p) BY <2>4, SetTokenKeeps
  <2>5. CASE Save(p)
    <3>1. UNCHANGED <<registry, token>> /\ (Opens(p, Registry, Edited(cli[p])) \/ UNCHANGED <<promised, clashed>>)
      BY <2>5 DEF Save, writeVars
    <3> QED BY <3>1, OpensKeeps, PromisesLeft
  <2>6. CASE Place(p) BY <2>6, PlaceKeeps
  <2>7. CASE Unlink(p)
    <3>1. cli[p].alias \in Aliases BY <2>7 DEF Unlink, CommandsInv, CommandOk, Removes
    <3> QED BY <2>7, <3>1, TokenChanges DEF Unlink
  <2>8. CASE Interrupt(p) BY <2>8, PromisesLeft DEF Interrupt, ghostVars
  <2> QED BY <1>1, <2>1, <2>2, <2>3, <2>4, <2>5, <2>6, <2>7, <2>8, CommandIs
<1>2. CASE Boot BY <1>2, BootLeaves, PromisesLeft DEF writeVars, ghostVars
<1>3. CASE Crash BY <1>3, PromisesLeft DEF Crash
<1>4. CASE PurgeSave
  <2>1. /\ UNCHANGED <<registry, token>>
        /\ \/ Opens(Registry, Registry, Without(purge.base, purge.alias))
           \/ UNCHANGED <<promised, clashed>>
    BY <1>4 DEF PurgeSave, writeVars
  <2> QED BY <2>1, OpensKeeps, PromisesLeft
<1>5. CASE PurgePlace
  <2>1. UNCHANGED <<token, clashed>> /\ (promised' = Listed(promised) \/ UNCHANGED <<registry, promised>>)
    BY <1>5 DEF PurgePlace
  <2> QED BY <2>1, ListedKeeps, PromisesLeft
<1>6. CASE PurgeToken
  <2>1. purge.alias \in Aliases BY <1>6 DEF PurgeToken, PurgeInv
  <2> QED BY <1>6, <2>1, TokenChanges, PromisesLeft DEF PurgeToken
<1>7. CASE Probe \/ PurgeCache \/ PurgeEntry \/ PurgeEnds
  BY <1>7, PromisesLeft DEF Probe, PurgeCache, PurgeEntry, PurgeEnds, diskVars, writeVars, ghostVars
<1>8. ASSUME NEW a \in Aliases, Refresh(a) PROVE PromisesInv' BY <1>8, OpensKeeps DEF Refresh
<1>9. ASSUME NEW a \in Aliases, Refreshed(a) PROVE PromisesInv'
  <2>1. CASE UNCHANGED <<token, promised>> BY <1>9, <2>1, PromisesLeft DEF Refreshed
  <2>2. CASE token' = [token EXCEPT ![a] = draft[a].text] /\ draft[a].text = token[a] /\ promised' = promised
    <3>1. promised[a] = {} \/ promised[a] \subseteq draft[a].text.scopes BY <2>2 DEF PromisesInv
    <3> QED BY <1>9, <2>2, <3>1, TokenChanges DEF Refreshed
  <2>3. CASE token' = [token EXCEPT ![a] = draft[a].text] /\ promised' = [promised EXCEPT ![a] = {}]
    BY <1>9, <2>3, TokenChanges DEF Refreshed
  <2> QED BY <1>9, <2>1, <2>2, <2>3 DEF Refreshed
<1>10. ASSUME NEW f \in Files, Fill(f) PROVE PromisesInv' BY <1>10, FillKeeps, WritersAre
<1>11. CASE UNCHANGED accountVars BY <1>11, PromisesLeft DEF accountVars, diskVars, writeVars, ghostVars
<1> QED BY <1>1, <1>2, <1>3, <1>4, <1>5, <1>6, <1>7, <1>8, <1>9, <1>10, <1>11 DEF Next, Purge

--------------------------------------------------------------------------------
(* The start of the daemon *)

LEMMA DaemonAt ==
  ASSUME DaemonInv, NEW at, Goto(at)
  PROVE  daemon' = [at |-> at, why |-> daemon.why, known |-> daemon.known, mem |-> daemon.mem,
                    opening |-> daemon.opening, owed |-> daemon.owed]
BY DEF DaemonInv, Goto

LEMMA DaemonRefused ==
  ASSUME DaemonInv, NEW why, Refuse(why)
  PROVE  daemon' = [at |-> "refused", why |-> why, known |-> daemon.known, mem |-> daemon.mem,
                    opening |-> daemon.opening, owed |-> daemon.owed]
<1>1. daemon = [at |-> daemon.at, why |-> daemon.why, known |-> daemon.known, mem |-> daemon.mem,
                opening |-> daemon.opening, owed |-> daemon.owed]
  BY DEF DaemonInv
<1>2. daemon' = [[daemon EXCEPT !.at = "refused"] EXCEPT !.why = why] BY DEF Refuse
<1> QED BY <1>1, <1>2

LEMMA DaemonOpened ==
  ASSUME DaemonInv, daemon' = [daemon EXCEPT !.at = "files", !.opening = Tail(@)]
  PROVE  daemon' = [at |-> "files", why |-> daemon.why, known |-> daemon.known, mem |-> daemon.mem,
                    opening |-> Tail(daemon.opening), owed |-> daemon.owed]
<1>1. daemon = [at |-> daemon.at, why |-> daemon.why, known |-> daemon.known, mem |-> daemon.mem,
                opening |-> daemon.opening, owed |-> daemon.owed]
  BY DEF DaemonInv
<1>2. daemon' = [[daemon EXCEPT !.at = "files"] EXCEPT !.opening = Tail(daemon.opening)] OBVIOUS
<1> QED BY <1>1, <1>2

LEMMA DaemonGoesOn ==
  ASSUME DaemonInv, UNCHANGED <<cfg, env>>, daemon.at \in Booted,
         \/ \E at \in Booted : Goto(at)
         \/ daemon' = [daemon EXCEPT !.at = "files", !.opening = Tail(@)]
  PROVE  DaemonInv'
<1>1. daemon.why = "" BY DEF DaemonInv, Booted
<1>2. ASSUME NEW at \in Booted, NEW opening,
             daemon' = [at |-> at, why |-> daemon.why, known |-> daemon.known, mem |-> daemon.mem,
                        opening |-> opening, owed |-> daemon.owed]
      PROVE  DaemonInv'
  <2>1. /\ daemon'.at = at /\ daemon'.why = daemon.why /\ daemon'.known = daemon.known
        /\ daemon'.mem = daemon.mem /\ daemon'.owed = daemon.owed
        /\ daemon' = [at |-> daemon'.at, why |-> daemon'.why, known |-> daemon'.known, mem |-> daemon'.mem,
                      opening |-> daemon'.opening, owed |-> daemon'.owed]
    BY <1>2
  <2>2. /\ daemon.known \in Seq(Entries)
        /\ \A a \in Aliases : daemon.owed[a] # {} => Has(daemon.known, a)
        /\ cfg.backend = "file" => \A a \in Aliases : daemon.owed[a] \subseteq daemon.mem[a].scopes
    BY DEF DaemonInv
  <2> QED BY <1>1, <2>1, <2>2 DEF DaemonInv
<1>3. CASE \E at \in Booted : Goto(at) BY <1>2, <1>3, DaemonAt
<1>4. CASE daemon' = [daemon EXCEPT !.at = "files", !.opening = Tail(@)]
  BY <1>2, <1>4, DaemonOpened DEF Booted
<1> QED BY <1>3, <1>4

LEMMA DaemonStops ==
  ASSUME DaemonInv, UNCHANGED <<cfg, env>>, NEW why, Refuse(why), why # "broken",
         why = "permissions" => env.umask # "private"
  PROVE  DaemonInv'
<1>1. /\ daemon'.at = "refused" /\ daemon'.why = why
      /\ daemon' = [at |-> daemon'.at, why |-> daemon'.why, known |-> daemon'.known, mem |-> daemon'.mem,
                    opening |-> daemon'.opening, owed |-> daemon'.owed]
  BY DaemonRefused
<1> QED BY <1>1 DEF DaemonInv, Booted

LEMMA CheckGives ==
  ASSUME env.umask = "private" => PermissionsHold, Check
  PROVE  /\ daemon' = [at |-> daemon'.at, why |-> daemon'.why, known |-> daemon'.known, mem |-> daemon'.mem,
                       opening |-> daemon'.opening, owed |-> daemon'.owed]
         /\ daemon'.known = registry /\ daemon'.owed = promised
         /\ \/ daemon'.at = "tokens" /\ daemon'.why = "" /\ Valid(registry)
            \/ daemon'.at = "refused" /\ daemon'.why = "config"
            \/ daemon'.at = "refused" /\ daemon'.why = "accounts" /\ ~Valid(registry)
            \/ daemon'.at = "refused" /\ daemon'.why = "permissions" /\ env.umask # "private"
<1> DEFINE start == [Down EXCEPT !.owed = promised, !.known = registry, !.at = "tokens"]
           stop(why) == [start EXCEPT !.at = "refused", !.why = why]
           go(at, why) == [at |-> at, why |-> why, known |-> registry, mem |-> NoTokens, opening |-> <<>>, owed |-> promised]
<1>1. \/ daemon' = start /\ Valid(registry)
      \/ daemon' = stop("config")
      \/ daemon' = stop("accounts") /\ ~Valid(registry)
      \/ daemon' = stop("permissions") /\ env.umask # "private"
  BY DEF Check
<1>2. start = [[[Down EXCEPT !.owed = promised] EXCEPT !.known = registry] EXCEPT !.at = "tokens"] OBVIOUS
<1>3. \A why : stop(why) = [[start EXCEPT !.at = "refused"] EXCEPT !.why = why] OBVIOUS
<1> HIDE DEF start, stop
<1>4. start = go("tokens", "") BY <1>2 DEF Down
<1>5. \A why : stop(why) = go("refused", why) BY <1>3, <1>4
<1>6. \/ daemon' = go("tokens", "") /\ Valid(registry)
      \/ daemon' = go("refused", "config")
      \/ daemon' = go("refused", "accounts") /\ ~Valid(registry)
      \/ daemon' = go("refused", "permissions") /\ env.umask # "private"
  BY <1>1, <1>4, <1>5
<1>7. ASSUME NEW at, NEW why, daemon' = go(at, why)
      PROVE  /\ daemon'.at = at /\ daemon'.why = why /\ daemon'.known = registry /\ daemon'.owed = promised
             /\ daemon' = [at |-> daemon'.at, why |-> daemon'.why, known |-> daemon'.known, mem |-> daemon'.mem,
                           opening |-> daemon'.opening, owed |-> daemon'.owed]
  BY <1>7
<1> HIDE DEF go
<1> QED BY <1>6, <1>7

LEMMA CheckKeeps == ASSUME RegistryInv, PromisesInv, FilesInv, Check PROVE DaemonInv'
<1>1. Valid(registry) => registry \in Seq(Entries) BY ParsesIfValid DEF RegistryInv
<1>2. env.umask = "private" => PermissionsHold BY DEF FilesInv
<1>3. UNCHANGED <<cfg, env>> BY DEF Check
<1>4. \A a \in Aliases : promised[a] # {} => Has(registry, a) BY DEF PromisesInv
<1>5. /\ daemon' = [at |-> daemon'.at, why |-> daemon'.why, known |-> daemon'.known, mem |-> daemon'.mem,
                    opening |-> daemon'.opening, owed |-> daemon'.owed]
      /\ daemon'.known = registry /\ daemon'.owed = promised
      /\ \/ daemon'.at = "tokens" /\ daemon'.why = "" /\ Valid(registry)
         \/ daemon'.at = "refused" /\ daemon'.why \in {"config", "accounts"}
         \/ daemon'.at = "refused" /\ daemon'.why = "permissions" /\ env.umask # "private"
  BY <1>2, CheckGives
<1> QED BY <1>1, <1>3, <1>4, <1>5 DEF DaemonInv, Booted

LEMMA LoadTokensDoes ==
  ASSUME DaemonInv, LoadTokens
  PROVE  /\ daemon' = [at |-> daemon'.at, why |-> daemon'.why, known |-> daemon'.known, mem |-> daemon'.mem,
                       opening |-> daemon'.opening, owed |-> daemon'.owed]
         /\ daemon'.at = (IF cfg.cache THEN "dir" ELSE "listen")
         /\ daemon'.why = daemon.why /\ daemon'.known = daemon.known
         /\ daemon'.mem = [a \in Aliases |-> IF Has(daemon.known, a) THEN Stored(a) ELSE NoToken]
         /\ daemon'.owed = [a \in Aliases |-> IF daemon.owed[a] = {} THEN {} ELSE promised[a]]
         /\ daemon'.opening = [i \in DOMAIN daemon.known |-> daemon.known[i].alias]
<1> DEFINE mem == [a \in Aliases |-> IF Has(daemon.known, a) THEN Stored(a) ELSE NoToken]
           owed == [a \in Aliases |-> IF daemon.owed[a] = {} THEN {} ELSE promised[a]]
           opening == [i \in DOMAIN daemon.known |-> daemon.known[i].alias]
           at == IF cfg.cache THEN "dir" ELSE "listen"
<1>1. daemon' = [daemon EXCEPT !.mem = mem, !.owed = owed, !.opening = opening, !.at = at] BY DEF LoadTokens
<1>2. daemon = [at |-> daemon.at, why |-> daemon.why, known |-> daemon.known, mem |-> daemon.mem,
                opening |-> daemon.opening, owed |-> daemon.owed]
  BY DEF DaemonInv
<1> HIDE DEF mem, owed, opening, at
<1>3. daemon' = [[[[daemon EXCEPT !.mem = mem] EXCEPT !.owed = owed] EXCEPT !.opening = opening] EXCEPT !.at = at]
  BY <1>1
<1>4. daemon' = [at |-> at, why |-> daemon.why, known |-> daemon.known, mem |-> mem, opening |-> opening, owed |-> owed]
  BY <1>2, <1>3
<1>5. /\ daemon'.at = at /\ daemon'.why = daemon.why /\ daemon'.known = daemon.known
      /\ daemon'.mem = mem /\ daemon'.opening = opening /\ daemon'.owed = owed
      /\ daemon' = [at |-> daemon'.at, why |-> daemon'.why, known |-> daemon'.known, mem |-> daemon'.mem,
                    opening |-> daemon'.opening, owed |-> daemon'.owed]
  BY <1>4
<1> QED BY <1>5 DEF mem, owed, opening, at

LEMMA LoadTokensKeeps == ASSUME PromisesInv, DaemonInv, LoadTokens PROVE DaemonInv'
<1>1. daemon.at = "tokens" /\ UNCHANGED <<cfg, env>> BY DEF LoadTokens
<1>2. daemon.why = "" BY <1>1 DEF DaemonInv
<1>3. daemon.known \in Seq(Entries) /\ \A a \in Aliases : daemon.owed[a] # {} => Has(daemon.known, a) BY <1>1 DEF DaemonInv
<1>4. daemon'.at \in {"dir", "listen"} BY LoadTokensDoes
<1>5. ASSUME NEW a \in Aliases
      PROVE  /\ daemon'.owed[a] # {} => Has(daemon'.known, a)
             /\ cfg.backend = "file" => daemon'.owed[a] \subseteq daemon'.mem[a].scopes
  <2>1. daemon'.owed[a] = IF daemon.owed[a] = {} THEN {} ELSE promised[a] BY LoadTokensDoes
  <2>2. daemon'.mem[a] = IF Has(daemon.known, a) THEN Stored(a) ELSE NoToken BY LoadTokensDoes
  <2>3. daemon'.known = daemon.known BY LoadTokensDoes
  <2>4. CASE daemon.owed[a] = {} BY <2>1, <2>4
  <2>5. CASE daemon.owed[a] # {}
    <3>1. Has(daemon.known, a) BY <1>3, <2>5
    <3>2. cfg.backend = "file" => daemon'.mem[a].scopes = token[a].scopes
      BY <2>2, <3>1 DEF Stored, Readable, NoToken, Torn, Blank
    <3>3. promised[a] \subseteq token[a].scopes \/ promised[a] = {} BY DEF PromisesInv
    <3> QED BY <2>1, <2>3, <2>5, <3>1, <3>2, <3>3
  <2> QED BY <2>4, <2>5
<1>6. /\ daemon' = [at |-> daemon'.at, why |-> daemon'.why, known |-> daemon'.known, mem |-> daemon'.mem,
                    opening |-> daemon'.opening, owed |-> daemon'.owed]
      /\ daemon'.why = daemon.why /\ daemon'.known = daemon.known
  BY LoadTokensDoes
<1> QED BY <1>1, <1>2, <1>3, <1>4, <1>5, <1>6 DEF DaemonInv, Booted

LEMMA DownIs ==
  /\ Down.at = "down" /\ Down.why = ""
  /\ Down = [at |-> Down.at, why |-> Down.why, known |-> Down.known, mem |-> Down.mem, opening |-> Down.opening,
             owed |-> Down.owed]
BY DEF Down

(* The daemon is where it was after what everybody else does. *)
LEMMA CommandsLeaveDaemon ==
  ASSUME NEW p \in Procs, Command(p) \/ Consent(p) \/ Confirm(p) \/ Interrupt(p)
  PROVE  UNCHANGED <<cfg, env, daemonVars>>
<1>1. CASE Acts(p) BY <1>1, ActsLeave
<1>2. CASE ~Acts(p)
  BY <1>2, CommandIs DEF Fill, WriteToken, SetToken, Save, Place, Unlink, Interrupt
<1> QED BY <1>1, <1>2

LEMMA DaemonStep ==
  ASSUME RegistryInv, PromisesInv, DaemonInv, FilesInv, OpeningInv, [Next]_accountVars
  PROVE  DaemonInv'
<1>1. ASSUME NEW p \in Procs, Command(p) \/ Consent(p) \/ Confirm(p) \/ Interrupt(p) PROVE UNCHANGED <<cfg, env, daemon>>
  BY <1>1, CommandsLeaveDaemon DEF daemonVars
<1>2. CASE UNCHANGED <<cfg, env, daemon>> BY <1>2 DEF DaemonInv
<1>3. CASE Check BY <1>3, CheckKeeps
<1>4. CASE LoadTokens BY <1>4, LoadTokensKeeps
<1>5. CASE EnsureCacheDir
  <2>1. UNCHANGED <<cfg, env>> /\ daemon.at \in Booted BY <1>5 DEF EnsureCacheDir, Booted
  <2>2. CASE Goto("files") \/ Goto("dirmode") BY <2>1, <2>2, DaemonGoesOn DEF Booted
  <2>3. CASE Refuse("permissions") /\ dirs.cache = "wide" BY <2>1, <2>3, DaemonStops DEF FilesInv
  <2>4. dirs.cache \in Modes BY DEF FilesInv
  <2> QED BY <1>5, <2>2, <2>3, <2>4 DEF EnsureCacheDir, Modes
<1>6. CASE SetDirMode BY <1>6, DaemonGoesOn DEF SetDirMode, Booted
<1>7. CASE OpenDb
  <2>1. UNCHANGED <<cfg, env>> /\ daemon.at \in Booted BY <1>7 DEF OpenDb, Booted
  <2>2. CASE Goto("migrate") \/ Goto("dbmode") BY <2>1, <2>2, DaemonGoesOn DEF Booted
  <2>3. Current \in Aliases BY <1>7 DEF OpenDb, OpeningInv, Current
  <2>4. CASE Refuse("permissions") /\ db[Current].main = "wide" BY <2>1, <2>3, <2>4, DaemonStops DEF FilesInv
  <2>5. db[Current].main \in {"none", "private", "wide"} BY <2>3 DEF FilesInv, Dbs
  <2> QED BY <1>7, <2>2, <2>4, <2>5 DEF OpenDb
<1>8. CASE SetDbMode BY <1>8, DaemonGoesOn DEF SetDbMode, Booted
<1>9. CASE Migrate
  <2>1. UNCHANGED <<cfg, env>> /\ daemon.at \in Booted BY <1>9 DEF Migrate, Booted
  <2>2. Current \in Aliases BY <1>9 DEF Migrate, OpeningInv, Current
  <2>3. db[Current].tables = db[Current].version BY <2>2 DEF FilesInv
  <2>4. CASE Refuse("newer") BY <2>1, <2>4, DaemonStops
  <2>5. CASE daemon' = [daemon EXCEPT !.at = "files", !.opening = Tail(@)] BY <2>1, <2>5, DaemonGoesOn
  <2> QED BY <1>2, <1>9, <2>1, <2>3, <2>4, <2>5 DEF Migrate
<1>10. CASE Listen
  <2>1. UNCHANGED <<cfg, env>> /\ daemon.at \in Booted BY <1>10 DEF Listen, Booted
  <2>2. CASE Goto("serving") BY <2>1, <2>2, DaemonGoesOn DEF Booted
  <2>3. CASE Refuse("address") BY <2>1, <2>3, DaemonStops
  <2> QED BY <1>10, <2>2, <2>3 DEF Listen
<1>11. CASE Crash
  <2>1. daemon' = Down BY <1>11 DEF Crash
  <2> QED BY <2>1, DownIs DEF DaemonInv, Booted
<1>12. CASE Purge
  BY <1>2, <1>12 DEF Purge, Probe, PurgeCache, PurgeToken, PurgeEntry, PurgeSave, PurgePlace, PurgeEnds
<1>13. ASSUME NEW a \in Aliases, Refresh(a) \/ Refreshed(a) PROVE DaemonInv'
  BY <1>2, <1>13 DEF Refresh, Refreshed, daemonVars
<1>14. ASSUME NEW f \in Files, Fill(f) PROVE DaemonInv' BY <1>2, <1>14 DEF Fill, daemonVars
<1>15. CASE UNCHANGED accountVars BY <1>2, <1>15 DEF accountVars, daemonVars
<1> QED BY <1>1, <1>2, <1>3, <1>4, <1>5, <1>6, <1>7, <1>8, <1>9, <1>10, <1>11, <1>12, <1>13, <1>14, <1>15 DEF Next, Boot

--------------------------------------------------------------------------------
(* accounts.toml *)

LEMMA BootWhy ==
  ASSUME DaemonInv, FilesInv, OpeningInv, Boot
  PROVE  daemon'.why # "accounts" \/ daemon'.why = daemon.why \/ ~Valid(registry)
<1>1. CASE Check
  <2>1. env.umask = "private" => PermissionsHold BY DEF FilesInv
  <2> QED BY <1>1, <2>1, CheckGives
<1>2. CASE LoadTokens BY <1>2, LoadTokensDoes
<1>3. ASSUME NEW at, Goto(at) PROVE daemon'.why = daemon.why BY <1>3, DaemonAt
<1>4. ASSUME NEW why, Refuse(why) PROVE daemon'.why = why BY <1>4, DaemonRefused
<1>5. CASE EnsureCacheDir \/ SetDirMode
  <2>1. dirs.cache \in Modes BY DEF FilesInv
  <2>2. Refuse("permissions") \/ Goto("files") \/ Goto("dirmode")
    BY <1>5, <2>1 DEF EnsureCacheDir, SetDirMode, Modes
  <2> QED BY <1>3, <1>4, <2>2
<1>6. CASE OpenDb
  <2>1. Current \in Aliases BY <1>6 DEF OpenDb, OpeningInv, Current
  <2>2. db[Current].main \in {"none", "private", "wide"} BY <2>1 DEF FilesInv, Dbs
  <2>3. Refuse("permissions") \/ Goto("migrate") \/ Goto("dbmode") BY <1>6, <2>2 DEF OpenDb
  <2> QED BY <1>3, <1>4, <2>3
<1>7. CASE SetDbMode BY <1>3, <1>7 DEF SetDbMode
<1>8. CASE Migrate
  <2>1. \/ Refuse("newer") \/ Refuse("broken") \/ UNCHANGED daemon
        \/ daemon' = [daemon EXCEPT !.at = "files", !.opening = Tail(@)]
    BY <1>8 DEF Migrate
  <2> QED BY <1>4, <2>1, DaemonOpened
<1>9. CASE Listen
  <2>1. Refuse("address") \/ Goto("serving") BY <1>9 DEF Listen
  <2> QED BY <1>3, <1>4, <2>1
<1> QED BY <1>1, <1>2, <1>5, <1>6, <1>7, <1>8, <1>9 DEF Boot

(* What one command carries into its next step. *)
Carried(c, d) ==
  \/ c = d
  \/ /\ Edits(d) => \/ Edits(c) /\ d.base = c.base /\ d.op = c.op /\ d.alias = c.alias
                    \/ /\ d.base = registry /\ Valid(registry)
                       /\ d.op \notin {"add", "grant"} => Has(registry, d.alias)
     /\ d.at = "refused" => ~Valid(registry) \/ (c.at = "save" /\ ~Valid(Edited(c)))

(* What keeps accounts.toml good, as long as nobody writes it beside another. *)
LEMMA RegistryKept ==
  ASSUME RegistryInv, CommandsInv,
         Registry \in clashed => Registry \in clashed',
         UNCHANGED registry \/ (Typed(registry') /\ (Registry \notin clashed' => Good(registry'))),
         \A p \in Procs : Carried(cli[p], cli'[p]),
         \/ UNCHANGED purge
         \/ /\ purge'.at = "save" => purge'.base = registry /\ Valid(registry)
            /\ purge'.at = "failed" => Registry \in clashed',
         daemon'.why = daemon.why \/ daemon'.why # "accounts" \/ ~Valid(registry)
  PROVE  RegistryInv'
<1>1. Valid(registry) => registry \in Seq(Entries) BY ParsesIfValid DEF RegistryInv
<1>2. Registry \notin clashed => Good(registry) /\ Valid(registry) BY GoodIsValid DEF RegistryInv
<1>3. ASSUME NEW p \in Procs
      PROVE  /\ Edits(cli'[p]) => cli'[p].base \in Seq(Entries)
             /\ Registry \notin clashed' => EditOk(cli'[p])
  <2> DEFINE c == cli[p]
             d == cli'[p]
  <2>1. CommandOk(c) BY DEF CommandsInv
  <2>2. /\ Edits(c) => c.base \in Seq(Entries)
        /\ Registry \notin clashed' => EditOk(c) /\ Good(registry) /\ Valid(registry)
    BY <1>2 DEF RegistryInv
  <2>3. Carried(c, d) OBVIOUS
  <2> SUFFICES /\ Edits(d) => d.base \in Seq(Entries)
               /\ Registry \notin clashed' => EditOk(d)
    OBVIOUS
  <2> HIDE DEF c, d
  <2>4. CASE c = d BY <2>2, <2>4
  <2>5. CASE c # d
    <3>1. Edits(d) => d.base \in Seq(Entries) BY <1>1, <2>2, <2>3, <2>5 DEF Carried
    <3>2. ASSUME Registry \notin clashed' PROVE EditOk(d)
      <4>1. c.at = "save" => Valid(Edited(c)) BY <2>1, <2>2, <3>2, EditedGood DEF Edits
      <4>2. d.at # "refused" BY <2>2, <2>3, <2>5, <3>2, <4>1 DEF Carried
      <4> QED BY <2>2, <2>3, <2>5, <3>2, <4>2 DEF Carried, EditOk
    <3> QED BY <3>1, <3>2
  <2> QED BY <2>4, <2>5
<1>4. Typed(registry') /\ (Registry \notin clashed' => Good(registry')) BY <1>2 DEF RegistryInv
<1>5. /\ purge'.at = "save" => purge'.base \in Seq(Entries)
      /\ Registry \notin clashed' => (purge'.at = "save" => Good(purge'.base)) /\ purge'.at # "failed"
  BY <1>1, <1>2 DEF RegistryInv
<1>6. Registry \notin clashed' => daemon'.why # "accounts" BY <1>2 DEF RegistryInv
<1> QED BY <1>3, <1>4, <1>5, <1>6 DEF RegistryInv

(* The commands that write no file. *)
LEMMA CarriedAt ==
  ASSUME NEW c, CommandOk(c), NEW at, NEW v
  PROVE  [c EXCEPT !.new = v, !.at = at].at = at /\ [c EXCEPT !.read = v, !.at = at].at = at
<1>1. c = [at |-> c.at, op |-> c.op, alias |-> c.alias, extra |-> c.extra, base |-> c.base,
           read |-> c.read, new |-> c.new]
  BY DEF CommandOk
<1>2. [[c EXCEPT !.new = v] EXCEPT !.at = at].at = at BY <1>1
<1>3. [[c EXCEPT !.read = v] EXCEPT !.at = at].at = at BY <1>1
<1> QED BY <1>2, <1>3

LEMMA StartGoes ==
  ASSUME CommandsInv, NEW p \in Procs, Start(p) PROVE cli'[p].at \in {"idle", "load", "bind", "read"}
<1> DEFINE c == Head(todo[p])
           first == IF c.op \in {"list", "set_default"} THEN "load"
                    ELSE IF c.alias \notin Aliases THEN "idle"
                    ELSE CASE c.op = "add" -> IF CanAuthorise(cfg) THEN "bind" ELSE "idle"
                           [] c.op \in {"grant", "refresh"} -> "read"
                           [] Removes(c.op) -> "load"
           w == [Resting EXCEPT !.at = first, !.op = c.op, !.alias = c.alias, !.extra = c.extra]
<1>1. todo[p] \in Seq(Commands) /\ todo[p] # <<>> BY DEF CommandsInv, Start
<1>2. c.op \in Operations
  <2>1. c \in Commands BY <1>1
  <2> QED BY <2>1 DEF Commands
<1>3. cli' = Left(p) \/ cli' = [cli EXCEPT ![p] = w] BY DEF Start, Quit
<1>4. first \in {"idle", "load", "bind", "read"} BY <1>2 DEF Removes, Operations
<1> HIDE DEF c, first
<1>5. w = [[[[Resting EXCEPT !.at = first] EXCEPT !.op = c.op] EXCEPT !.alias = c.alias] EXCEPT !.extra = c.extra] OBVIOUS
<1>6. w.at = first BY <1>5 DEF Resting
<1> HIDE DEF w
<1>7. CASE cli' = Left(p) BY <1>7, Rested
<1>8. CASE cli' = [cli EXCEPT ![p] = w] BY <1>4, <1>6, <1>8 DEF CommandsInv
<1> QED BY <1>3, <1>7, <1>8

LEMMA ActsMove ==
  ASSUME CommandsInv, NEW p \in Procs, Acts(p)
  PROVE  cli'[p].at # "set" /\ \A q \in Procs : (q # p => cli'[q] = cli[q]) /\ Carried(cli[q], cli'[q])
<1> DEFINE c == cli[p]
           d == cli'[p]
<1>1. CommandOk(c) BY DEF CommandsInv
<1>2. CASE cli' = Left(p)
  <2>1. d.at = "idle" /\ \A q \in Procs : q # p => cli'[q] = cli[q] BY <1>2, Rested
  <2> QED BY <2>1 DEF Carried, Edits
<1>3. CASE Start(p)
  <2>1. d.at \in {"idle", "load", "bind", "read"} BY <1>3, StartGoes
  <2>2. \A q \in Procs : q # p => cli'[q] = cli[q] BY <1>3 DEF Start, Quit, Left, CommandsInv
  <2> QED BY <2>1, <2>2 DEF Carried, Edits
<1>4. CASE \/ \E v : \E at \in {"bind", "post"} : cli' = [cli EXCEPT ![p] = [c EXCEPT !.read = v, !.at = at]]
           \/ \E v : \E at \in {"userinfo", "write"} : cli' = [cli EXCEPT ![p] = [c EXCEPT !.new = v, !.at = at]]
  <2>1. d.at \in {"bind", "post", "userinfo", "write"} /\ \A q \in Procs : q # p => cli'[q] = cli[q]
    <3>1. ASSUME NEW at \in {"bind", "post"}, NEW v, cli' = [cli EXCEPT ![p] = [c EXCEPT !.read = v, !.at = at]]
          PROVE  d.at \in {"bind", "post", "userinfo", "write"} /\ \A q \in Procs : q # p => cli'[q] = cli[q]
      <4> DEFINE w == [c EXCEPT !.read = v, !.at = at]
      <4>1. w.at = at BY <1>1, CarriedAt
      <4>2. cli' = [cli EXCEPT ![p] = w] BY <3>1
      <4> HIDE DEF w
      <4>3. cli'[p] = w /\ \A q \in Procs : q # p => cli'[q] = cli[q] BY <4>2 DEF CommandsInv
      <4> QED BY <4>1, <4>3
    <3>2. ASSUME NEW at \in {"userinfo", "write"}, NEW v, cli' = [cli EXCEPT ![p] = [c EXCEPT !.new = v, !.at = at]]
          PROVE  d.at \in {"bind", "post", "userinfo", "write"} /\ \A q \in Procs : q # p => cli'[q] = cli[q]
      <4> DEFINE w == [c EXCEPT !.new = v, !.at = at]
      <4>1. w.at = at BY <1>1, CarriedAt
      <4>2. cli' = [cli EXCEPT ![p] = w] BY <3>2
      <4> HIDE DEF w
      <4>3. cli'[p] = w /\ \A q \in Procs : q # p => cli'[q] = cli[q] BY <4>2 DEF CommandsInv
      <4> QED BY <4>1, <4>3
    <3> QED BY <1>4, <3>1, <3>2
  <2> QED BY <2>1 DEF Carried, Edits
<1>5. CASE ReadToken(p)
  <2>1. \/ cli' = Left(p)
        \/ cli' = [cli EXCEPT ![p].read = token[c.alias], ![p].at = IF c.op = "grant" THEN "bind" ELSE "post"]
    BY <1>5 DEF ReadToken, Quit
  <2> QED BY <1>2, <1>4, <2>1
<1>6. CASE Exchange(p)
  <2>1. cli' = Left(p) \/ cli' = [cli EXCEPT ![p].new = [grant |-> issued', scopes |-> Asked(c)], ![p].at = "userinfo"]
    BY <1>6 DEF Exchange, Quit
  <2> QED BY <1>2, <1>4, <2>1
<1>7. CASE ForceRefresh(p)
  <2>1. \/ cli' = Left(p)
        \/ \E grant : cli' = [cli EXCEPT ![p].new = [grant |-> grant, scopes |-> c.read.scopes], ![p].at = "write"]
    BY <1>7 DEF ForceRefresh, Quit
  <2> QED BY <1>2, <1>4, <2>1
<1>8. CASE Load(p)
  <2>1. \/ Become(p, "refused") /\ ~Valid(registry)
        \/ cli' = Left(p)
        \/ /\ Valid(registry) /\ (c.op \notin {"add", "grant"} => Has(registry, c.alias))
           /\ cli' = [cli EXCEPT ![p].base = registry, ![p].at = IF Removes(c.op) THEN "confirm" ELSE "save"]
    BY <1>8 DEF Load, Quit
  <2>2. CASE Become(p, "refused") /\ ~Valid(registry)
    <3>1. d.at = "refused" /\ \A q \in Procs : q # p => cli'[q] = cli[q] BY <2>2, Became
    <3> QED BY <2>2, <3>1 DEF Carried, Edits
  <2>3. CASE /\ Valid(registry) /\ (c.op \notin {"add", "grant"} => Has(registry, c.alias))
             /\ cli' = [cli EXCEPT ![p].base = registry, ![p].at = IF Removes(c.op) THEN "confirm" ELSE "save"]
    <3> DEFINE w == [at |-> IF Removes(c.op) THEN "confirm" ELSE "save", op |-> c.op, alias |-> c.alias,
                     extra |-> c.extra, base |-> registry, read |-> c.read, new |-> c.new]
    <3>1. cli' = [cli EXCEPT ![p] = w] BY <1>1, <2>3, LoadMoves
    <3>2. w.base = registry /\ w.op = c.op /\ w.alias = c.alias /\ w.at \in {"confirm", "save"} OBVIOUS
    <3> HIDE DEF w
    <3>3. d = w /\ \A q \in Procs : q # p => cli'[q] = cli[q] BY <3>1 DEF CommandsInv
    <3> QED BY <2>3, <3>2, <3>3 DEF Carried
  <2> QED BY <1>2, <2>1, <2>2, <2>3
<1>9. CASE Confirm(p)
  <2>1. c.at = "confirm" /\ (cli' = Left(p) \/ \E at \in {"revoke", "unlink"} : Become(p, at))
    BY <1>9 DEF Confirm, Quit
  <2>2. CASE \E at \in {"revoke", "unlink"} : Become(p, at)
    <3>1. /\ d.at \in {"revoke", "unlink"} /\ d.base = c.base /\ d.op = c.op /\ d.alias = c.alias
          /\ \A q \in Procs : q # p => cli'[q] = cli[q]
      BY <2>2, Became
    <3> QED BY <2>1, <3>1 DEF Carried, Edits
  <2> QED BY <1>2, <2>1, <2>2
<1>10. CASE Revoke(p)
  <2>1. c.at = "revoke" /\ Become(p, "unlink") BY <1>10 DEF Revoke
  <2>2. /\ d.at = "unlink" /\ d.base = c.base /\ d.op = c.op /\ d.alias = c.alias
        /\ \A q \in Procs : q # p => cli'[q] = cli[q]
    BY <2>1, Became
  <2> QED BY <2>1, <2>2 DEF Carried, Edits
<1>11. CASE BindListener(p) \/ Consent(p) \/ GiveUp(p) \/ UserInfo(p) \/ MakeDir(p)
  <2>1. cli' = Left(p) \/ \E at \in {"browser", "post", "mkdir", "write"} : Become(p, at)
    BY <1>11 DEF BindListener, Consent, GiveUp, UserInfo, MakeDir, Quit
  <2>2. CASE \E at \in {"browser", "post", "mkdir", "write"} : Become(p, at)
    <3>1. d.at \in {"browser", "post", "mkdir", "write"} /\ \A q \in Procs : q # p => cli'[q] = cli[q]
      BY <2>2, Became
    <3> QED BY <3>1 DEF Carried, Edits
  <2> QED BY <1>2, <2>1, <2>2
<1> QED BY <1>3, <1>5, <1>6, <1>7, <1>8, <1>9, <1>10, <1>11 DEF Acts

(* A command that moves on with its edit, or without one. *)
LEMMA Moves ==
  ASSUME CommandsInv, NEW p \in Procs,
         \/ cli' = Left(p)
         \/ Become(p, "set") \/ Become(p, "load") \/ Become(p, "place")
         \/ cli[p].at = "unlink" /\ Become(p, "save")
         \/ cli[p].at = "save" /\ ~Valid(Edited(cli[p])) /\ Become(p, "refused")
  PROVE  \A q \in Procs : Carried(cli[q], cli'[q])
<1>1. CASE cli' = Left(p)
  <2>1. cli'[p].at = "idle" /\ \A q \in Procs : q # p => cli'[q] = cli[q] BY <1>1, Rested
  <2> QED BY <2>1 DEF Carried, Edits
<1>2. CASE Become(p, "set") \/ Become(p, "load") \/ Become(p, "place")
  <2>1. cli'[p].at \in {"set", "load", "place"} /\ \A q \in Procs : q # p => cli'[q] = cli[q] BY <1>2, Became
  <2> QED BY <2>1 DEF Carried, Edits
<1>3. CASE cli[p].at = "unlink" /\ Become(p, "save")
  <2>1. /\ cli'[p].at = "save" /\ cli'[p].base = cli[p].base /\ cli'[p].op = cli[p].op /\ cli'[p].alias = cli[p].alias
        /\ \A q \in Procs : q # p => cli'[q] = cli[q]
    BY <1>3, Became
  <2> QED BY <1>3, <2>1 DEF Carried, Edits
<1>4. CASE cli[p].at = "save" /\ ~Valid(Edited(cli[p])) /\ Become(p, "refused")
  <2>1. cli'[p].at = "refused" /\ \A q \in Procs : q # p => cli'[q] = cli[q] BY <1>4, Became
  <2> QED BY <1>4, <2>1 DEF Carried, Edits
<1> QED BY <1>1, <1>2, <1>3, <1>4

LEMMA CliStays == ASSUME UNCHANGED cli PROVE \A p \in Procs : Carried(cli[p], cli'[p])
BY DEF Carried

(* What a writer that has accounts.toml.tmp alone puts in place is good. *)
LEMMA PlacedGood ==
  ASSUME PensInv, NEW w \in Writers, Written(w, Registry)
  PROVE  /\ Typed(draft[Registry].text)
         /\ Registry \notin clashed => Good(draft[Registry].text) /\ draft[Registry].there
<1>1. ASSUME Registry \notin clashed PROVE Good(draft[Registry].text) /\ draft[Registry].there
  <2>1. draft[Registry].there /\ draft[Registry].text = pen[w].text BY <1>1, PlacesItsText, WritersAre
  <2>2. Good(pen[w].text) BY <1>1 DEF PensInv, PenOk, Written
  <2> QED BY <2>1, <2>2
<1> QED BY <1>1 DEF PensInv

LEMMA CommandRegistry ==
  ASSUME CommandsInv, PensInv, RegistryInv, PromisesInv,
         NEW p \in Procs, Command(p) \/ Consent(p) \/ Confirm(p) \/ Interrupt(p)
  PROVE  RegistryInv'
<1>1. UNCHANGED <<daemon, purge>> BY CommandsLeaveDaemon DEF daemonVars
<1>2. CASE Acts(p) BY <1>1, <1>2, ActsLeave, ActsMove, RegistryKept DEF writeVars
<1>3. CASE Fill(p)
  <2>1. UNCHANGED cli BY <1>3 DEF Fill, cliVars
  <2>2. UNCHANGED clashed /\ (UNCHANGED registry \/ (Typed(registry') /\ Registry \in clashed))
    BY <1>3, FillPens, WritersAre DEF RegistryInv, PromisesInv
  <2> QED BY <1>1, <2>1, <2>2, CliStays, RegistryKept
<1>4. CASE WriteToken(p)
  <2>1. UNCHANGED registry /\ (cli' = Left(p) \/ Become(p, "set")) BY <1>4 DEF WriteToken, Quit
  <2>2. Registry \in clashed => Registry \in clashed' BY <1>4, WriteTokenPens
  <2> QED BY <1>1, <2>1, <2>2, Moves, RegistryKept
<1>5. CASE SetToken(p)
  <2>1. UNCHANGED <<registry, clashed>> /\ (cli' = Left(p) \/ Become(p, "load")) BY <1>5 DEF SetToken, Quit
  <2> QED BY <1>1, <2>1, Moves, RegistryKept
<1>6. CASE Save(p)
  <2>1. /\ UNCHANGED registry /\ cli[p].at = "save"
        /\ Become(p, "place") \/ (~Valid(Edited(cli[p])) /\ Become(p, "refused"))
    BY <1>6 DEF Save
  <2>2. Registry \in clashed => Registry \in clashed' BY <1>6, SavePens
  <2> QED BY <1>1, <2>1, <2>2, Moves, RegistryKept
<1>7. CASE Place(p)
  <2>1. /\ UNCHANGED clashed /\ cli' = Left(p) /\ Written(p, Registry)
        /\ UNCHANGED registry \/ registry' = draft[Registry].text
    BY <1>7 DEF Place, Quit
  <2> QED BY <1>1, <2>1, PlacedGood, WritersAre, Moves, RegistryKept
<1>8. CASE Unlink(p) BY <1>1, <1>8, Moves, RegistryKept DEF Unlink
<1>9. CASE Interrupt(p) BY <1>1, <1>9, Moves, RegistryKept DEF Interrupt, Quit
<1> QED BY <1>2, <1>3, <1>4, <1>5, <1>6, <1>7, <1>8, <1>9, CommandIs

--------------------------------------------------------------------------------
(* Directories and cache files *)

LEMMA DbBecomes ==
  ASSUME FilesInv, UNCHANGED <<env, dirs>>, NEW a \in Aliases, NEW d \in Dbs, db' = [db EXCEPT ![a] = d],
         d.tables = d.version, env.umask = "private" => d.main # "wide"
  PROVE  FilesInv' /\ db'[a] = d /\ \A b \in Aliases : b # a => db'[b] = db[b]
<1>1. /\ db' \in [Aliases -> Dbs] /\ db'[a] = d
      /\ \A b \in Aliases : b # a => db'[b] = db[b]
  BY DEF FilesInv
<1>2. PermissionsHold => PermissionsHold' BY DEF PermissionsHold
<1> QED BY <1>1, <1>2 DEF FilesInv

LEMMA DirsBecome ==
  ASSUME FilesInv, UNCHANGED <<env, db>>, NEW mode \in {"private", env.umask},
         dirs' = [dirs EXCEPT !.tokens = mode] \/ dirs' = [dirs EXCEPT !.cache = mode]
  PROVE  /\ FilesInv'
         /\ dirs' = [dirs EXCEPT !.tokens = mode] => dirs'.cache = dirs.cache
         /\ dirs' = [dirs EXCEPT !.cache = mode] => dirs'.cache = mode
<1>1. dirs \in [config : Modes, tokens : Modes, cache : Modes] /\ mode \in Modes BY DEF FilesInv, Modes
<1>2. CASE dirs' = [dirs EXCEPT !.tokens = mode]
  <2>1. /\ dirs' \in [config : Modes, tokens : Modes, cache : Modes]
        /\ dirs'.tokens = mode /\ dirs'.config = dirs.config /\ dirs'.cache = dirs.cache
    BY <1>1, <1>2
  <2>2. env.umask = "private" => PermissionsHold' BY <2>1 DEF FilesInv, PermissionsHold
  <2>3. FilesInv' BY <2>1, <2>2 DEF FilesInv
  <2>4. dirs' = [dirs EXCEPT !.cache = mode] => dirs'.cache = mode BY <1>1
  <2> QED BY <2>1, <2>3, <2>4
<1>3. CASE dirs' = [dirs EXCEPT !.cache = mode]
  <2>1. /\ dirs' \in [config : Modes, tokens : Modes, cache : Modes]
        /\ dirs'.tokens = dirs.tokens /\ dirs'.config = dirs.config /\ dirs'.cache = mode
    BY <1>1, <1>3
  <2>2. env.umask = "private" => PermissionsHold' BY <2>1 DEF FilesInv, PermissionsHold
  <2>3. FilesInv' BY <2>1, <2>2 DEF FilesInv
  <2>4. dirs' = [dirs EXCEPT !.tokens = mode] => dirs'.cache = dirs.cache BY <1>1
  <2> QED BY <2>1, <2>3, <2>4
<1> QED BY <1>2, <1>3

(* What the steps make of one cache file. *)
Db(main, version, sidecars) == [main |-> main, version |-> version, tables |-> version, sidecars |-> sidecars]

LEMMA DbIs ==
  ASSUME FilesInv, NEW a \in Aliases
  PROVE  /\ db[a] = Db(db[a].main, db[a].version, db[a].sidecars)
         /\ db[a].main \in {"none", "private", "wide"} /\ (env.umask = "private" => db[a].main # "wide")
         /\ db[a].version \in Nat /\ db[a].sidecars \in BOOLEAN
BY DEF FilesInv, Dbs, Db

LEMMA DbFields ==
  ASSUME NEW main \in {"none", "private", "wide"}, NEW version \in Nat, NEW sidecars \in BOOLEAN
  PROVE  LET d == Db(main, version, sidecars) IN
         d \in Dbs /\ d.main = main /\ d.version = version /\ d.tables = version /\ d.sidecars = sidecars
BY DEF Db, Dbs

WithSidecars(d, v) == [d EXCEPT !.sidecars = v]
WithMain(d, v) == [d EXCEPT !.main = v]
AtVersion(d, k) == [[d EXCEPT !.tables = k] EXCEPT !.version = k]

LEMMA DbEdits ==
  ASSUME NEW m, NEW n, NEW s, NEW v
  PROVE  /\ WithSidecars(Db(m, n, s), v) = Db(m, n, v)
         /\ WithMain(Db(m, n, s), v) = Db(v, n, s)
         /\ AtVersion(Db(m, n, s), v) = Db(m, v, s)
<1>1. WithSidecars(Db(m, n, s), v) = Db(m, n, v) BY DEF WithSidecars, Db
<1>2. WithMain(Db(m, n, s), v) = Db(v, n, s) BY DEF WithMain, Db
<1>3. AtVersion(Db(m, n, s), v) = Db(m, v, s)
  <2> DEFINE d == [main |-> m, version |-> n, tables |-> v, sidecars |-> s]
  <2>1. [Db(m, n, s) EXCEPT !.tables = v] = d BY DEF Db
  <2>2. [d EXCEPT !.version = v] = Db(m, v, s) BY DEF Db
  <2> HIDE DEF d
  <2> QED BY <2>1, <2>2 DEF AtVersion
<1> QED BY <1>1, <1>2, <1>3

LEMMA NoDbIs == NoDb = Db("none", 0, NoDb.sidecars) /\ NoDb.sidecars \in BOOLEAN
BY DEF NoDb, Db

LEMMA FileCreated ==
  ASSUME FilesInv, UNCHANGED <<env, dirs>>, NEW a \in Aliases, db' = [db EXCEPT ![a] = [NoDb EXCEPT !.main = NewFile]]
  PROVE  FilesInv' /\ \A b \in Aliases : b # a => db'[b] = db[b]
<1> DEFINE m == NewFile
           v == NoDb.sidecars
<1>1. m \in {"none", "private", "wide"} /\ (env.umask = "private" => m # "wide") BY DEF NewFile, FilesInv
<1>2. db' = [db EXCEPT ![a] = WithMain(NoDb, m)] BY DEF WithMain
<1>3. NoDb = Db("none", 0, v) /\ v \in BOOLEAN BY NoDbIs
<1> HIDE DEF m, v
<1>4. db' = [db EXCEPT ![a] = Db(m, 0, v)]
  <2>1. WithMain(Db("none", 0, v), m) = Db(m, 0, v) BY DEF WithMain, Db
  <2> QED BY <1>2, <1>3, <2>1
<1>5. /\ Db(m, 0, v) \in Dbs /\ Db(m, 0, v).main = m
      /\ Db(m, 0, v).tables = Db(m, 0, v).version
  BY <1>1, <1>3 DEF Db, Dbs
<1> QED BY <1>1, <1>4, <1>5, DbBecomes

LEMMA FileOpened ==
  ASSUME FilesInv, UNCHANGED <<env, dirs>>, NEW a \in Aliases, NEW m, NEW v \in BOOLEAN,
         \/ m = db[a].main /\ db' = [db EXCEPT ![a].sidecars = v]
         \/ m = "private" /\ db' = [db EXCEPT ![a].main = m, ![a].sidecars = v]
  PROVE  /\ FilesInv' /\ db'[a].main = m /\ db'[a].sidecars = v
         /\ \A b \in Aliases : b # a => db'[b] = db[b]
<1> DEFINE d == db[a]
           n == db[a].version
<1>1. /\ d = Db(d.main, n, d.sidecars) /\ n \in Nat
      /\ m \in {"none", "private", "wide"} /\ (env.umask = "private" => m # "wide")
  BY DbIs
<1>2. \/ m = d.main /\ db' = [db EXCEPT ![a] = WithSidecars(d, v)]
      \/ db' = [db EXCEPT ![a] = WithSidecars(WithMain(d, m), v)]
  BY DEF WithSidecars, WithMain
<1> HIDE DEF d, n
<1>3. WithSidecars(WithMain(d, m), v) = Db(m, n, v) BY <1>1, DbEdits
<1>4. m = d.main => WithSidecars(d, v) = Db(m, n, v) BY <1>1, DbEdits
<1>5. db' = [db EXCEPT ![a] = Db(m, n, v)] BY <1>2, <1>3, <1>4
<1>6. /\ Db(m, n, v) \in Dbs /\ Db(m, n, v).main = m /\ Db(m, n, v).sidecars = v
      /\ Db(m, n, v).tables = Db(m, n, v).version
  BY <1>1, DbFields
<1>7. FilesInv' /\ db'[a] = Db(m, n, v) /\ \A b \in Aliases : b # a => db'[b] = db[b]
  BY <1>1, <1>5, <1>6, DbBecomes
<1> QED BY <1>6, <1>7

LEMMA FileMigrated ==
  ASSUME FilesInv, UNCHANGED <<env, dirs>>, NEW a \in Aliases,
         db' = [db EXCEPT ![a].tables = @ + 1, ![a].version = @ + 1]
  PROVE  FilesInv' /\ db'[a].main = db[a].main /\ \A b \in Aliases : b # a => db'[b] = db[b]
<1> DEFINE d == db[a]
           m == db[a].main
           n == db[a].version
           s == db[a].sidecars
           k == n + 1
<1>1. /\ d = Db(m, n, s) /\ n \in Nat /\ s \in BOOLEAN
      /\ m \in {"none", "private", "wide"} /\ (env.umask = "private" => m # "wide")
  BY DbIs
<1>2. d.tables = n BY DEF FilesInv
<1>3. db' = [db EXCEPT ![a] = AtVersion(d, k)] BY <1>2 DEF AtVersion
<1>4. k \in Nat BY <1>1
<1> HIDE DEF d, m, n, s, k
<1>5. db' = [db EXCEPT ![a] = Db(m, k, s)]
  <2>1. AtVersion(Db(m, n, s), k) = Db(m, k, s) BY DbEdits
  <2> QED BY <1>1, <1>3, <2>1
<1>6. /\ Db(m, k, s) \in Dbs /\ Db(m, k, s).main = m
      /\ Db(m, k, s).tables = Db(m, k, s).version
  BY <1>1, <1>4 DEF Db, Dbs
<1>7. FilesInv' /\ db'[a] = Db(m, k, s) /\ \A b \in Aliases : b # a => db'[b] = db[b]
  BY <1>1, <1>5, <1>6, DbBecomes
<1> QED BY <1>6, <1>7 DEF m

LEMMA FileRemoved ==
  ASSUME FilesInv, UNCHANGED <<env, dirs>>, NEW a \in Aliases,
         db' = [db EXCEPT ![a] = [NoDb EXCEPT !.sidecars = db[a].sidecars]]
  PROVE  FilesInv' /\ db'[a].main = "none" /\ \A b \in Aliases : b # a => db'[b] = db[b]
<1> DEFINE s == db[a].sidecars
           v == NoDb.sidecars
<1>1. s \in BOOLEAN BY DbIs
<1>2. db' = [db EXCEPT ![a] = WithSidecars(NoDb, s)] BY DEF WithSidecars
<1>3. NoDb = Db("none", 0, v) BY NoDbIs
<1> HIDE DEF s, v
<1>4. db' = [db EXCEPT ![a] = Db("none", 0, s)]
  <2>1. WithSidecars(Db("none", 0, v), s) = Db("none", 0, s) BY DEF WithSidecars, Db
  <2> QED BY <1>2, <1>3, <2>1
<1>5. /\ Db("none", 0, s) \in Dbs /\ Db("none", 0, s).main = "none"
      /\ Db("none", 0, s).tables = Db("none", 0, s).version
  BY <1>1 DEF Db, Dbs
<1>6. FilesInv' /\ db'[a] = Db("none", 0, s) /\ \A b \in Aliases : b # a => db'[b] = db[b]
  BY <1>4, <1>5, DbBecomes
<1> QED BY <1>5, <1>6

LEMMA CurrentIs == ASSUME OpeningInv, daemon.at \in {"files", "dbmode", "migrate"}, daemon.opening # <<>>
                   PROVE  Current \in Aliases /\ daemon.opening \in Seq(Aliases)
BY DEF OpeningInv, Current

LEMMA BootFiles == ASSUME FilesInv, OpeningInv, Boot PROVE FilesInv'
<1>1. CASE UNCHANGED <<env, dirs, db>> BY <1>1 DEF FilesInv, PermissionsHold
<1>2. CASE Check \/ LoadTokens \/ Listen BY <1>1, <1>2 DEF Check, LoadTokens, Listen, diskVars
<1>3. CASE EnsureCacheDir
  <2>1. UNCHANGED <<env, db>> BY <1>3 DEF EnsureCacheDir
  <2>2. dirs.cache \in Modes BY DEF FilesInv
  <2>3. UNCHANGED dirs \/ dirs' = [dirs EXCEPT !.cache = env.umask]
    BY <1>3, <2>2 DEF EnsureCacheDir, Modes, NewFile
  <2> QED BY <1>1, <2>1, <2>3, DirsBecome
<1>4. CASE SetDirMode BY <1>4, DirsBecome DEF SetDirMode
<1>5. CASE OpenDb
  <2>1. UNCHANGED <<env, dirs>> BY <1>5 DEF OpenDb
  <2>2. Current \in Aliases BY <1>5, CurrentIs DEF OpenDb
  <2>3. db[Current].main \in {"none", "private", "wide"} BY <2>2, DbIs
  <2>4. \/ UNCHANGED db
        \/ db' = [db EXCEPT ![Current].sidecars = TRUE]
        \/ db' = [db EXCEPT ![Current] = [NoDb EXCEPT !.main = NewFile]]
    BY <1>5, <2>3 DEF OpenDb
  <2> QED BY <1>1, <2>1, <2>2, <2>4, FileOpened, FileCreated
<1>6. CASE SetDbMode
  <2>1. UNCHANGED <<env, dirs>> /\ db' = [db EXCEPT ![Current].main = "private", ![Current].sidecars = TRUE]
    BY <1>6 DEF SetDbMode
  <2>2. Current \in Aliases BY <1>6, CurrentIs DEF SetDbMode, OpeningInv
  <2> QED BY <2>1, <2>2, FileOpened
<1>7. CASE Migrate
  <2>1. UNCHANGED <<env, dirs>> BY <1>7 DEF Migrate
  <2>2. Current \in Aliases BY <1>7, CurrentIs DEF Migrate, OpeningInv
  <2>3. UNCHANGED db \/ db' = [db EXCEPT ![Current].tables = @ + 1, ![Current].version = @ + 1]
    BY <1>7 DEF Migrate
  <2> QED BY <1>1, <2>1, <2>2, <2>3, FileMigrated
<1> QED BY <1>2, <1>3, <1>4, <1>5, <1>6, <1>7 DEF Boot

LEMMA PurgeCacheDoes ==
  ASSUME FilesInv, PurgeInv, PurgeCache
  PROVE  /\ FilesInv'
         /\ \A b \in Aliases : b # purge.alias => db'[b] = db[b]
         /\ db'[purge.alias].main \in {db[purge.alias].main, "none"}
         /\ ~purge.db => UNCHANGED db /\ purge' = [purge EXCEPT !.at = "token"]
         /\ purge.db /\ purge.at = "cache" =>
               db'[purge.alias].main = "none" /\ purge' = [purge EXCEPT !.at = "sidecars"]
         /\ purge.db /\ purge.at = "sidecars" =>
               /\ ~db'[purge.alias].sidecars /\ db'[purge.alias].main = db[purge.alias].main
               /\ purge' = [purge EXCEPT !.at = "token"]
<1> DEFINE a == purge.alias
<1>1. purge.at \in {"cache", "sidecars"} /\ a \in Aliases BY DEF PurgeCache, PurgeInv
<1>2. UNCHANGED <<env, dirs>> BY DEF PurgeCache
<1>3. CASE ~purge.db
  <2>1. UNCHANGED db /\ purge' = [purge EXCEPT !.at = "token"] BY <1>3 DEF PurgeCache
  <2>2. FilesInv' BY <1>2, <2>1 DEF FilesInv, PermissionsHold
  <2> QED BY <1>3, <2>1, <2>2
<1>4. CASE purge.db /\ purge.at = "cache"
  <2>1. db' = [db EXCEPT ![a] = [NoDb EXCEPT !.sidecars = db[a].sidecars]] /\ purge' = [purge EXCEPT !.at = "sidecars"]
    BY <1>4 DEF PurgeCache
  <2>2. FilesInv' /\ db'[a].main = "none" /\ \A b \in Aliases : b # a => db'[b] = db[b]
    BY <1>1, <1>2, <2>1, FileRemoved
  <2> QED BY <1>4, <2>1, <2>2
<1>5. CASE purge.db /\ purge.at = "sidecars"
  <2>1. db' = [db EXCEPT ![a].sidecars = FALSE] /\ purge' = [purge EXCEPT !.at = "token"]
    BY <1>5 DEF PurgeCache
  <2> DEFINE m == db[a].main
             v == FALSE
  <2>2. v \in BOOLEAN /\ db' = [db EXCEPT ![a].sidecars = v] BY <2>1
  <2>3. ~v OBVIOUS
  <2> HIDE DEF v
  <2>4. FilesInv' /\ db'[a].main = m /\ db'[a].sidecars = v /\ \A b \in Aliases : b # a => db'[b] = db[b]
    BY <1>1, <1>2, <2>2, FileOpened
  <2>5. ~db'[a].sidecars BY <2>3, <2>4
  <2> QED BY <1>5, <2>1, <2>4, <2>5
<1> QED BY <1>1, <1>3, <1>4, <1>5

LEMMA FilesStep == ASSUME FilesInv, OpeningInv, PurgeInv, [Next]_accountVars PROVE FilesInv'
<1>1. CASE UNCHANGED <<env, dirs, db>> BY <1>1 DEF FilesInv, PermissionsHold
<1>2. ASSUME NEW p \in Procs, Command(p) \/ Consent(p) \/ Confirm(p) \/ Interrupt(p) PROVE FilesInv'
  <2>1. CASE MakeDir(p) BY <1>1, <2>1, DirsBecome DEF MakeDir, NewFile
  <2>2. CASE ~MakeDir(p)
    <3>1. UNCHANGED <<env, dirs, db>>
      BY <1>2, <2>2
      DEF Command, Start, ReadToken, Flow, BindListener, GiveUp, Exchange, UserInfo, ForceRefresh, WriteToken, Fill,
          SetToken, Load, Revoke, Unlink, Save, Place, Consent, Confirm, Interrupt, diskVars
    <3> QED BY <1>1, <3>1
  <2> QED BY <2>1, <2>2
<1>3. CASE Boot BY <1>3, BootFiles
<1>4. CASE PurgeCache BY <1>4, PurgeCacheDoes
<1>5. CASE Crash \/ Probe \/ PurgeToken \/ PurgeEntry \/ PurgeSave \/ PurgePlace \/ PurgeEnds
  BY <1>1, <1>5 DEF Crash, Probe, PurgeToken, PurgeEntry, PurgeSave, PurgePlace, PurgeEnds, diskVars
<1>6. ASSUME NEW a \in Aliases, Refresh(a) \/ Refreshed(a) PROVE FilesInv' BY <1>1, <1>6 DEF Refresh, Refreshed
<1>7. ASSUME NEW f \in Files, Fill(f) PROVE FilesInv' BY <1>1, <1>7 DEF Fill
<1>8. CASE UNCHANGED accountVars BY <1>1, <1>8 DEF accountVars, diskVars
<1> QED BY <1>2, <1>3, <1>4, <1>5, <1>6, <1>7, <1>8 DEF Next, Purge

--------------------------------------------------------------------------------
(* Opening the cache *)

LEMMA WaitingLater ==
  ASSUME NEW s \in Seq(Aliases), s # <<>>, NEW a, \E i \in DOMAIN s : s[i] = a
  PROVE  a = Head(s) \/ \E i \in DOMAIN Tail(s) : Tail(s)[i] = a
<1>1. PICK i \in DOMAIN s : s[i] = a OBVIOUS
<1>2. CASE i = 1 BY <1>1, <1>2
<1>3. CASE i # 1
  <2>1. i - 1 \in DOMAIN Tail(s) /\ Tail(s)[i - 1] = s[i] BY <1>1, <1>3
  <2> QED BY <1>1, <2>1
<1> QED BY <1>2, <1>3

(* Nothing is opened, or made wide, by anything but the start of the daemon. *)
LEMMA OpeningLeft ==
  ASSUME OpeningInv, UNCHANGED <<cfg, daemon>>, dirs'.cache = dirs.cache,
         \A a \in Aliases : db'[a].main = db[a].main \/ (daemon.at = "serving" /\ db'[a].main = "none")
  PROVE  OpeningInv'
<1>1. daemon.at = "migrate" => Current' = Current /\ Current \in Aliases BY CurrentIs DEF Current, OpeningInv
<1>2. \A a \in Aliases : Waiting(a) => Waiting(a)' BY DEF Waiting
<1>3. daemon.at = "migrate" => db'[Current'].main = "private" BY <1>1 DEF OpeningInv
<1> QED BY <1>2, <1>3 DEF OpeningInv

LEMMA NotOpening == ASSUME daemon'.at \in {"down", "refused", "tokens"} PROVE OpeningInv'
BY DEF OpeningInv

LEMMA LoadTokensOpens == ASSUME DaemonInv, LoadTokens PROVE OpeningInv'
<1>1. /\ daemon'.at = (IF cfg.cache THEN "dir" ELSE "listen") /\ daemon'.known = daemon.known
      /\ daemon'.opening = [i \in DOMAIN daemon.known |-> daemon.known[i].alias]
  BY LoadTokensDoes
<1>2. daemon.known \in Seq(Entries) BY DEF LoadTokens, DaemonInv
<1>3. daemon'.opening \in Seq(Aliases)
  <2>1. Len(daemon.known) \in Nat /\ DOMAIN daemon.known = 1 .. Len(daemon.known)
        /\ \A i \in 1 .. Len(daemon.known) : daemon.known[i] \in Entries
    BY <1>2
  <2>2. \A e \in Entries : e.alias \in Aliases BY DEF Entries
  <2> QED BY <1>1, <2>1, <2>2
<1>4. \A a \in Aliases : Has(daemon'.known, a) => Waiting(a)'
  <2> SUFFICES ASSUME NEW a \in Aliases, Has(daemon.known, a) PROVE Waiting(a)' BY <1>1
  <2>1. PICK i \in DOMAIN daemon.known : daemon.known[i].alias = a BY DEF Has
  <2>2. i \in DOMAIN daemon'.opening /\ daemon'.opening[i] = a BY <1>1, <2>1
  <2> QED BY <2>2 DEF Waiting
<1>5. UNCHANGED cfg BY DEF LoadTokens
<1>6. CASE cfg.cache
  <2>1. daemon'.at = "dir" BY <1>1, <1>6
  <2> QED BY <1>3, <1>4, <1>5, <1>6, <2>1 DEF OpeningInv
<1>7. CASE ~cfg.cache
  <2>1. daemon'.at = "listen" BY <1>1, <1>7
  <2> QED BY <1>5, <1>7, <2>1 DEF OpeningInv
<1> QED BY <1>6, <1>7

(* From one step of the opening to the next. *)
LEMMA OpeningGoesOn ==
  ASSUME DaemonInv, OpeningInv, UNCHANGED cfg, NEW at, Goto(at),
         daemon.at \in {"dir", "dirmode", "files", "dbmode", "migrate"},
         at \in {"dirmode", "files", "dbmode", "migrate"},
         at = "dirmode" \/ dirs'.cache = "private",
         at \in {"dbmode", "migrate"} => daemon.opening # <<>>,
         at = "migrate" => db'[Current].main = "private",
         \A a \in Aliases : db'[a].main = db[a].main \/ Waiting(a)
  PROVE  OpeningInv'
<1>1. daemon'.at = at /\ daemon'.known = daemon.known /\ daemon'.opening = daemon.opening BY DaemonAt
<1>2. /\ cfg.cache /\ daemon.opening \in Seq(Aliases)
      /\ \A a \in Aliases : Has(daemon.known, a) => Waiting(a) \/ db'[a].main \in {"private", "none"}
  BY DEF OpeningInv
<1>3. \A a \in Aliases : Waiting(a) => Waiting(a)' BY <1>1 DEF Waiting
<1>4. Current' = Current BY <1>1 DEF Current
<1> QED BY <1>1, <1>2, <1>3, <1>4 DEF OpeningInv

LEMMA RefusedInv == ASSUME DaemonInv, NEW why, Refuse(why) PROVE OpeningInv'
BY DaemonRefused, NotOpening

LEMMA OpenDbOpens == ASSUME DaemonInv, FilesInv, OpeningInv, OpenDb PROVE OpeningInv'
<1>1. /\ daemon.at = "files" /\ daemon.opening # <<>> /\ dirs.cache = "private"
      /\ UNCHANGED <<cfg, env, dirs>>
  BY DEF OpenDb, OpeningInv
<1>2. Current \in Aliases /\ daemon.opening \in Seq(Aliases) BY <1>1, CurrentIs
<1>3. Waiting(Current) BY <1>1, <1>2 DEF Waiting, Current
<1>4. db[Current].main \in {"none", "private", "wide"} BY <1>2, DbIs
<1>5. CASE db[Current].main = "wide" BY <1>5, RefusedInv DEF OpenDb
<1>6. CASE db[Current].main = "private"
  <2>1. Goto("migrate") /\ db' = [db EXCEPT ![Current].sidecars = TRUE] BY <1>6 DEF OpenDb
  <2>2. db'[Current].main = db[Current].main /\ \A b \in Aliases : b # Current => db'[b] = db[b]
    BY <1>1, <1>2, <2>1, FileOpened
  <2> QED BY <1>1, <1>3, <1>6, <2>1, <2>2, OpeningGoesOn
<1>7. CASE db[Current].main = "none"
  <2>1. Goto("dbmode") /\ db' = [db EXCEPT ![Current] = [NoDb EXCEPT !.main = NewFile]] BY <1>7 DEF OpenDb
  <2>2. \A b \in Aliases : b # Current => db'[b] = db[b] BY <1>1, <1>2, <2>1, FileCreated
  <2> QED BY <1>1, <1>3, <2>1, <2>2, OpeningGoesOn
<1> QED BY <1>4, <1>5, <1>6, <1>7

LEMMA SetDbModeOpens == ASSUME DaemonInv, FilesInv, OpeningInv, SetDbMode PROVE OpeningInv'
<1>1. /\ daemon.at = "dbmode" /\ daemon.opening # <<>> /\ dirs.cache = "private"
      /\ UNCHANGED <<cfg, env, dirs>> /\ Goto("migrate")
      /\ db' = [db EXCEPT ![Current].main = "private", ![Current].sidecars = TRUE]
  BY DEF SetDbMode, OpeningInv
<1>2. Current \in Aliases /\ daemon.opening \in Seq(Aliases) BY <1>1, CurrentIs
<1>3. Waiting(Current) BY <1>1, <1>2 DEF Waiting, Current
<1>4. db'[Current].main = "private" /\ \A b \in Aliases : b # Current => db'[b] = db[b]
  BY <1>1, <1>2, FileOpened
<1> QED BY <1>1, <1>3, <1>4, OpeningGoesOn

LEMMA MigrateOpens == ASSUME DaemonInv, FilesInv, OpeningInv, Migrate PROVE OpeningInv'
<1>1. /\ daemon.at = "migrate" /\ daemon.opening # <<>> /\ dirs.cache = "private" /\ cfg.cache
      /\ db[Current].main = "private" /\ UNCHANGED <<cfg, env, dirs>>
  BY DEF Migrate, OpeningInv
<1>2. Current \in Aliases /\ daemon.opening \in Seq(Aliases) BY <1>1, CurrentIs
<1>3. \/ \E why : Refuse(why)
      \/ UNCHANGED db /\ daemon' = [daemon EXCEPT !.at = "files", !.opening = Tail(@)]
      \/ UNCHANGED daemon /\ db' = [db EXCEPT ![Current].tables = @ + 1, ![Current].version = @ + 1]
  BY DEF Migrate
<1>4. CASE \E why : Refuse(why) BY <1>4, RefusedInv
<1>5. CASE UNCHANGED db /\ daemon' = [daemon EXCEPT !.at = "files", !.opening = Tail(@)]
  <2>1. daemon'.at = "files" /\ daemon'.known = daemon.known /\ daemon'.opening = Tail(daemon.opening)
    BY <1>5, DaemonOpened
  <2>2. daemon'.opening \in Seq(Aliases) BY <1>1, <1>2, <2>1
  <2>3. ASSUME NEW a \in Aliases, Has(daemon'.known, a) PROVE Waiting(a)' \/ db'[a].main \in {"private", "none"}
    <3>1. Waiting(a) \/ db[a].main \in {"private", "none"} BY <1>1, <2>1, <2>3 DEF OpeningInv
    <3>2. ASSUME Waiting(a) PROVE a = Current \/ Waiting(a)'
      <4> DEFINE s == daemon.opening
      <4>1. \E i \in DOMAIN s : s[i] = a BY <3>2 DEF Waiting
      <4>2. s \in Seq(Aliases) /\ s # <<>> /\ Current = Head(s) /\ daemon'.opening = Tail(s)
        BY <1>1, <1>2, <2>1 DEF Current
      <4> HIDE DEF s
      <4>3. a = Head(s) \/ \E i \in DOMAIN Tail(s) : Tail(s)[i] = a BY <4>1, <4>2, WaitingLater
      <4> QED BY <4>2, <4>3 DEF Waiting
    <3> QED BY <1>1, <1>5, <3>1, <3>2
  <2> QED BY <1>1, <2>1, <2>2, <2>3 DEF OpeningInv
<1>6. CASE UNCHANGED daemon /\ db' = [db EXCEPT ![Current].tables = @ + 1, ![Current].version = @ + 1]
  <2>1. \A a \in Aliases : db'[a].main = db[a].main BY <1>1, <1>2, <1>6, FileMigrated
  <2> QED BY <1>1, <1>6, <2>1, OpeningLeft
<1> QED BY <1>3, <1>4, <1>5, <1>6

LEMMA ListenOpens == ASSUME DaemonInv, OpeningInv, Listen PROVE OpeningInv'
<1>1. UNCHANGED <<cfg, dirs, db>> BY DEF Listen, diskVars
<1>2. CASE Refuse("address") BY <1>2, RefusedInv
<1>3. CASE Goto("serving")
  <2>1. daemon'.at = "serving" /\ daemon'.known = daemon.known BY <1>3, DaemonAt
  <2>2. CASE daemon.at = "listen" BY <1>1, <2>1, <2>2 DEF OpeningInv
  <2>3. CASE daemon.at = "files" /\ daemon.opening = <<>>
    <3>1. \A a \in Aliases : ~Waiting(a) BY <2>3 DEF Waiting
    <3> QED BY <1>1, <2>1, <2>3, <3>1 DEF OpeningInv
  <2> QED BY <2>2, <2>3 DEF Listen
<1> QED BY <1>2, <1>3 DEF Listen

LEMMA BootOpens == ASSUME DaemonInv, FilesInv, OpeningInv, Boot PROVE OpeningInv'
<1>1. CASE Check
  <2>1. env.umask = "private" => PermissionsHold BY DEF FilesInv
  <2> QED BY <1>1, <2>1, CheckGives, NotOpening
<1>2. CASE LoadTokens BY <1>2, LoadTokensOpens
<1>3. CASE EnsureCacheDir
  <2>1. daemon.at = "dir" /\ UNCHANGED <<cfg, db>> /\ dirs.cache \in Modes BY <1>3 DEF EnsureCacheDir, FilesInv
  <2>2. CASE dirs.cache = "wide" BY <1>3, <2>2, RefusedInv DEF EnsureCacheDir
  <2>3. CASE dirs.cache = "private"
    <3>1. Goto("files") /\ UNCHANGED dirs BY <1>3, <2>3 DEF EnsureCacheDir
    <3> QED BY <2>1, <2>3, <3>1, OpeningGoesOn
  <2>4. CASE dirs.cache = "absent"
    <3>1. Goto("dirmode") BY <1>3, <2>4 DEF EnsureCacheDir
    <3> QED BY <2>1, <3>1, OpeningGoesOn
  <2> QED BY <2>1, <2>2, <2>3, <2>4 DEF Modes
<1>4. CASE SetDirMode
  <2>1. daemon.at = "dirmode" /\ UNCHANGED <<cfg, db>> /\ Goto("files") BY <1>4 DEF SetDirMode
  <2>2. dirs'.cache = "private" BY <1>4 DEF SetDirMode, FilesInv
  <2> QED BY <2>1, <2>2, OpeningGoesOn
<1>5. CASE OpenDb BY <1>5, OpenDbOpens
<1>6. CASE SetDbMode BY <1>6, SetDbModeOpens
<1>7. CASE Migrate BY <1>7, MigrateOpens
<1>8. CASE Listen BY <1>8, ListenOpens
<1> QED BY <1>1, <1>2, <1>3, <1>4, <1>5, <1>6, <1>7, <1>8 DEF Boot

LEMMA OpeningStep ==
  ASSUME DaemonInv, FilesInv, OpeningInv, PurgeInv, [Next]_accountVars PROVE OpeningInv'
<1>1. CASE UNCHANGED <<cfg, daemon, dirs, db>> BY <1>1, OpeningLeft
<1>2. ASSUME NEW p \in Procs, Command(p) \/ Consent(p) \/ Confirm(p) \/ Interrupt(p) PROVE OpeningInv'
  <2>1. CASE MakeDir(p)
    <3>1. UNCHANGED <<cfg, daemon, db>> BY <2>1 DEF MakeDir, daemonVars
    <3>2. dirs'.cache = dirs.cache BY <2>1 DEF MakeDir, FilesInv
    <3> QED BY <3>1, <3>2, OpeningLeft
  <2>2. CASE ~MakeDir(p)
    <3>1. UNCHANGED <<cfg, daemon, dirs, db>>
      BY <1>2, <2>2
      DEF Command, Start, ReadToken, Flow, BindListener, GiveUp, Exchange, UserInfo, ForceRefresh, WriteToken, Fill,
          SetToken, Load, Revoke, Unlink, Save, Place, Consent, Confirm, Interrupt, diskVars, daemonVars
    <3> QED BY <1>1, <3>1
  <2> QED BY <2>1, <2>2
<1>3. CASE Boot BY <1>3, BootOpens
<1>4. CASE Crash
  <2>1. daemon'.at = "down" BY <1>4, DownIs DEF Crash
  <2> QED BY <2>1, NotOpening
<1>5. CASE PurgeCache
  <2>1. UNCHANGED <<cfg, daemon, dirs>> /\ daemon.at = "serving" BY <1>5 DEF PurgeCache, PurgeInv
  <2>2. \A a \in Aliases : db'[a].main = db[a].main \/ db'[a].main = "none" BY <1>5, PurgeCacheDoes
  <2> QED BY <2>1, <2>2, OpeningLeft
<1>6. CASE Probe \/ PurgeToken \/ PurgeEntry \/ PurgeSave \/ PurgePlace \/ PurgeEnds
  BY <1>1, <1>6 DEF Probe, PurgeToken, PurgeEntry, PurgeSave, PurgePlace, PurgeEnds, diskVars
<1>7. ASSUME NEW a \in Aliases, Refresh(a) \/ Refreshed(a) PROVE OpeningInv'
  BY <1>1, <1>7 DEF Refresh, Refreshed, daemonVars
<1>8. ASSUME NEW f \in Files, Fill(f) PROVE OpeningInv' BY <1>1, <1>8 DEF Fill, daemonVars
<1>9. CASE UNCHANGED accountVars BY <1>1, <1>9 DEF accountVars, diskVars, daemonVars
<1> QED BY <1>2, <1>3, <1>4, <1>5, <1>6, <1>7, <1>8, <1>9 DEF Next, Purge

--------------------------------------------------------------------------------
(* The purge *)

LEMMA NoPurgeInv == ASSUME purge' = NoPurge \/ (PurgeInv /\ purge.at = "idle" /\ UNCHANGED purge) PROVE PurgeInv'
<1>1. CASE purge' = NoPurge
  <2>1. /\ NoPurge.at = "idle"
        /\ NoPurge = [at |-> NoPurge.at, alias |-> NoPurge.alias, db |-> NoPurge.db, token |-> NoPurge.token,
                      entry |-> NoPurge.entry, base |-> NoPurge.base]
    BY DEF NoPurge
  <2> QED BY <1>1, <2>1 DEF PurgeInv
<1>2. CASE PurgeInv /\ purge.at = "idle" /\ UNCHANGED purge BY <1>2 DEF PurgeInv
<1> QED BY <1>1, <1>2

(* What the others do while a purge runs: whoever writes the account, says so, or  *)
(* was one of several that wrote accounts.toml.tmp.                               *)
LEMMA PurgeLeft ==
  ASSUME PurgeInv, UNCHANGED <<purge, daemon>>, Registry \in clashed => Registry \in clashed',
         purge.at # "idle" =>
           /\ touched \subseteq touched' /\ db'[purge.alias] = db[purge.alias]
           /\ Has(registry', purge.alias) => Has(registry, purge.alias) \/ "entry" \in touched' \/ Registry \in clashed'
           /\ token'[purge.alias] # NoToken => token[purge.alias] # NoToken \/ "token" \in touched'
  PROVE  PurgeInv'
<1>1. CASE purge.at = "idle" BY <1>1, NoPurgeInv
<1>2. CASE purge.at # "idle" BY <1>2 DEF PurgeInv
<1> QED BY <1>1, <1>2

LEMMA Touches ==
  ASSUME NEW a, NEW what
  PROVE  touched \subseteq Touch(a, what) /\ (purge.at # "idle" /\ purge.alias = a => what \in Touch(a, what))
BY DEF Touch

LEMMA PurgeMoves ==
  ASSUME PurgeInv, NEW at, purge' = [purge EXCEPT !.at = at]
  PROVE  /\ purge'.at = at /\ purge'.alias = purge.alias /\ purge'.db = purge.db /\ purge'.token = purge.token
         /\ purge'.entry = purge.entry /\ purge'.base = purge.base
         /\ purge' = [at |-> purge'.at, alias |-> purge'.alias, db |-> purge'.db, token |-> purge'.token,
                      entry |-> purge'.entry, base |-> purge'.base]
<1>1. purge = [at |-> purge.at, alias |-> purge.alias, db |-> purge.db, token |-> purge.token,
               entry |-> purge.entry, base |-> purge.base]
  BY DEF PurgeInv
<1>2. purge' = [at |-> at, alias |-> purge.alias, db |-> purge.db, token |-> purge.token,
                entry |-> purge.entry, base |-> purge.base]
  BY <1>1
<1> QED BY <1>2

(* Whoever writes a token file, says so. *)
LEMMA TokenTouched ==
  ASSUME PromisesInv, PurgeInv, NEW a, NEW new, touched' = Touch(a, "token"),
         token' = [token EXCEPT ![a] = new], UNCHANGED <<purge, daemon, registry, db, clashed>>
  PROVE  PurgeInv'
<1>1. CASE purge.alias = a BY <1>1, Touches, PurgeLeft
<1>2. CASE purge.alias # a
  <2>1. purge.at # "idle" => token'[purge.alias] = token[purge.alias] BY <1>2 DEF PromisesInv, PurgeInv
  <2> QED BY <2>1, Touches, PurgeLeft
<1> QED BY <1>1, <1>2

LEMMA FillPurges ==
  ASSUME PensInv, PromisesInv, PurgeInv, NEW w \in Writers, Fill(w) PROVE PurgeInv'
<1>1. UNCHANGED <<purge, daemon, db, clashed>> BY DEF Fill, daemonVars
<1>2. /\ Registry \notin clashed => UNCHANGED registry
      /\ \A a \in Aliases : token'[a] # token[a] => touched' = Touch(a, "token")
      /\ touched \subseteq touched'
  BY FillPens DEF PromisesInv
<1>3. ASSUME purge.at # "idle", token'[purge.alias] # token[purge.alias] PROVE "token" \in touched'
  <2>1. touched' = Touch(purge.alias, "token") BY <1>2, <1>3 DEF PurgeInv
  <2> QED BY <1>3, <2>1, Touches
<1> QED BY <1>1, <1>2, <1>3, PurgeLeft

LEMMA CommandPurges ==
  ASSUME CommandsInv, PensInv, RegistryInv, PromisesInv, PurgeInv,
         NEW p \in Procs, Command(p) \/ Consent(p) \/ Confirm(p) \/ Interrupt(p)
  PROVE  PurgeInv'
<1>1. CASE Acts(p)
  <2>1. UNCHANGED db
    BY <1>1 DEF Acts, Start, ReadToken, BindListener, GiveUp, Exchange, UserInfo, ForceRefresh, MakeDir, Load, Revoke,
                Consent, Confirm, diskVars
  <2> QED BY <1>1, <2>1, ActsLeave, PurgeLeft DEF writeVars, daemonVars, ghostVars
<1>2. CASE Fill(p) BY <1>2, FillPurges, WritersAre
<1>3. CASE WriteToken(p) BY <1>3, WriteTokenPens, PurgeLeft DEF WriteToken, daemonVars
<1>4. CASE SetToken(p)
  <2>1. UNCHANGED <<purge, daemon, registry, db, clashed>> BY <1>4 DEF SetToken, daemonVars
  <2>2. \/ UNCHANGED <<token, touched>>
        \/ /\ token' = [token EXCEPT ![cli[p].alias] = draft[cli[p].alias].text]
           /\ touched' = Touch(cli[p].alias, "token")
    BY <1>4 DEF SetToken
  <2> QED BY <2>1, <2>2, TokenTouched, PurgeLeft
<1>5. CASE Save(p) BY <1>5, SavePens, PurgeLeft DEF Save, daemonVars
<1>6. CASE Place(p)
  <2>1. UNCHANGED <<purge, daemon, token, db, clashed>> BY <1>6 DEF Place, daemonVars
  <2>2. \/ UNCHANGED <<registry, touched>>
        \/ touched' = IF Has(registry', purge.alias) THEN Touch(purge.alias, "entry") ELSE touched
    BY <1>6 DEF Place
  <2>3. /\ touched \subseteq touched'
        /\ purge.at # "idle" /\ Has(registry', purge.alias) => Has(registry, purge.alias) \/ "entry" \in touched'
    BY <2>2, Touches
  <2> QED BY <2>1, <2>3, PurgeLeft
<1>7. CASE Unlink(p)
  <2>1. /\ UNCHANGED <<purge, daemon, registry, db, touched, clashed>>
        /\ token' = [token EXCEPT ![cli[p].alias] = NoToken]
    BY <1>7 DEF Unlink, daemonVars
  <2>2. purge.at # "idle" => token'[purge.alias] \in {token[purge.alias], NoToken}
    BY <2>1 DEF PromisesInv, PurgeInv
  <2> QED BY <2>1, <2>2, PurgeLeft
<1>8. CASE Interrupt(p) BY <1>8, PurgeLeft DEF Interrupt, daemonVars, ghostVars
<1> QED BY <1>1, <1>2, <1>3, <1>4, <1>5, <1>6, <1>7, <1>8, CommandIs

LEMMA ProbeInv == ASSUME PurgeInv, Probe PROVE PurgeInv'
<1> DEFINE call == Head(purges)
           a == call.alias
           w == [at |-> "cache", alias |-> a, db |-> db[a].main # "none", token |-> token[a] # NoToken,
                 entry |-> Has(registry, a), base |-> <<>>]
<1>1. daemon.at = "serving" /\ purge.at = "idle" /\ UNCHANGED <<daemon, registry, token, db>>
  BY DEF Probe, diskVars
<1>2. UNCHANGED purge \/ (PurgeAllowed(call) /\ purge' = w) BY DEF Probe
<1>3. CASE UNCHANGED purge BY <1>1, <1>3, NoPurgeInv
<1>4. CASE PurgeAllowed(call) /\ purge' = w
  <2>1. a \in Aliases BY <1>4 DEF PurgeAllowed
  <2> HIDE DEF a, call
  <2>2. /\ purge'.at = "cache" /\ purge'.alias = a
        /\ purge' = [at |-> purge'.at, alias |-> purge'.alias, db |-> purge'.db, token |-> purge'.token,
                     entry |-> purge'.entry, base |-> purge'.base]
    BY <1>4
  <2>3. /\ ~purge'.db => db[a].main = "none"
        /\ ~purge'.token => token[a] = NoToken
        /\ ~purge'.entry => ~Has(registry, a)
    <3>1. /\ purge'.db = (db[a].main # "none")
          /\ purge'.token = (token[a] # NoToken)
          /\ purge'.entry = Has(registry, a)
      BY <1>4
    <3> QED BY <3>1
  <2>4. ~Has(registry, a) => ~Has(registry', a) BY <1>1 DEF Has
  <2> HIDE DEF w
  <2> QED BY <1>1, <2>1, <2>2, <2>3, <2>4 DEF PurgeInv
<1> QED BY <1>2, <1>3, <1>4

LEMMA PurgeTokenInv == ASSUME PromisesInv, PurgeInv, PurgeToken PROVE PurgeInv'
<1>1. /\ purge.at = "token" /\ UNCHANGED <<daemon, registry, db, touched, clashed>>
      /\ purge' = [purge EXCEPT !.at = "entry"]
      /\ IF purge.token THEN token' = [token EXCEPT ![purge.alias] = NoToken] ELSE UNCHANGED token
  BY DEF PurgeToken
<1>2. purge.alias \in Aliases /\ daemon.at = "serving" BY <1>1 DEF PurgeInv
<1>3. purge.token => token'[purge.alias] = NoToken BY <1>1, <1>2 DEF PromisesInv
<1>4. /\ purge'.at = "entry" /\ purge'.alias = purge.alias /\ purge'.db = purge.db /\ purge'.token = purge.token
      /\ purge'.entry = purge.entry /\ purge'.base = purge.base
      /\ purge' = [at |-> purge'.at, alias |-> purge'.alias, db |-> purge'.db, token |-> purge'.token,
                   entry |-> purge'.entry, base |-> purge'.base]
  BY <1>1, PurgeMoves
<1> QED BY <1>1, <1>2, <1>3, <1>4 DEF PurgeInv

LEMMA PurgeLoads ==
  ASSUME PurgeInv, NEW r, purge' = [purge EXCEPT !.at = "save", !.base = r]
  PROVE  /\ purge'.at = "save" /\ purge'.alias = purge.alias /\ purge'.db = purge.db /\ purge'.token = purge.token
         /\ purge'.entry = purge.entry /\ purge'.base = r
         /\ purge' = [at |-> purge'.at, alias |-> purge'.alias, db |-> purge'.db, token |-> purge'.token,
                      entry |-> purge'.entry, base |-> purge'.base]
<1>1. purge = [at |-> purge.at, alias |-> purge.alias, db |-> purge.db, token |-> purge.token,
               entry |-> purge.entry, base |-> purge.base]
  BY DEF PurgeInv
<1>2. purge' = [[purge EXCEPT !.at = "save"] EXCEPT !.base = r] OBVIOUS
<1>3. purge' = [at |-> "save", alias |-> purge.alias, db |-> purge.db, token |-> purge.token,
                entry |-> purge.entry, base |-> r]
  BY <1>1, <1>2
<1> QED BY <1>3

LEMMA PurgeEntryInv == ASSUME PurgeInv, PurgeEntry PROVE PurgeInv'
<1>1. purge.at = "entry" /\ UNCHANGED <<daemon, registry, token, db, touched, clashed>>
  BY DEF PurgeEntry, diskVars, ghostVars, writeVars
<1>2. CASE ~purge.entry /\ purge' = [purge EXCEPT !.at = "done"] BY <1>1, <1>2, PurgeMoves DEF PurgeInv
<1>3. CASE purge.entry /\ purge' = [purge EXCEPT !.at = "failed"] BY <1>1, <1>3, PurgeMoves DEF PurgeInv
<1>4. CASE purge.entry /\ purge' = [purge EXCEPT !.at = "save", !.base = registry]
  BY <1>1, <1>4, PurgeLoads DEF PurgeInv
<1> QED BY <1>2, <1>3, <1>4 DEF PurgeEntry

LEMMA PurgeSaveInv == ASSUME PensInv, RegistryInv, PurgeInv, PurgeSave PROVE PurgeInv'
<1>1. purge.at = "save" /\ UNCHANGED <<daemon, registry, token, db, touched>> BY DEF PurgeSave
<1>2. Registry \in clashed => Registry \in clashed' BY PurgeSavePens
<1>3. PICK at \in {"failed", "place"} : purge' = [purge EXCEPT !.at = at] BY DEF PurgeSave
<1> QED BY <1>1, <1>2, <1>3, PurgeMoves DEF PurgeInv

(* The accounts.toml that the purge puts in place does not list the alias. *)
LEMMA PurgePlaceInv == ASSUME PensInv, TextInv, PurgeInv, PurgePlace PROVE PurgeInv'
<1>1. purge.at = "place" /\ Written(Registry, Registry) /\ UNCHANGED <<daemon, token, db, touched, clashed>>
  BY DEF PurgePlace
<1>2. CASE UNCHANGED registry /\ purge' = [purge EXCEPT !.at = "failed"] BY <1>1, <1>2, PurgeMoves DEF PurgeInv
<1>3. CASE registry' = draft[Registry].text /\ purge' = [purge EXCEPT !.at = "done"]
  <2>1. ASSUME Registry \notin clashed PROVE ~Has(registry', purge.alias)
    <3>1. draft[Registry].text = pen[Registry].text BY <1>1, <2>1, PlacesItsText, WritersAre
    <3>2. ~Has(pen[Registry].text, purge.alias) BY <1>1, <2>1 DEF TextInv
    <3> QED BY <1>3, <3>1, <3>2
  <2>2. purge.at # "idle" BY <1>1
  <2> QED BY <1>1, <1>3, <2>1, <2>2, PurgeMoves DEF PurgeInv
<1> QED BY <1>2, <1>3 DEF PurgePlace

LEMMA PurgeCacheInv == ASSUME FilesInv, PurgeInv, PurgeCache PROVE PurgeInv'
<1>1. purge.at \in {"cache", "sidecars"} /\ UNCHANGED <<daemon, registry, token, touched, clashed>>
  BY DEF PurgeCache, ghostVars, writeVars
<1>2. PICK at \in {"sidecars", "token"} : purge' = [purge EXCEPT !.at = at] BY <1>1, PurgeCacheDoes
<1>3. /\ purge'.at = at /\ purge'.alias = purge.alias /\ purge'.db = purge.db /\ purge'.token = purge.token
      /\ purge'.entry = purge.entry /\ purge'.base = purge.base
      /\ purge' = [at |-> purge'.at, alias |-> purge'.alias, db |-> purge'.db, token |-> purge'.token,
                   entry |-> purge'.entry, base |-> purge'.base]
  BY <1>2, PurgeMoves
<1>4. db'[purge.alias].main = "none"
  BY <1>1, PurgeCacheDoes DEF PurgeInv
<1>5. at = "token" => (purge.db => ~db'[purge.alias].sidecars)
  <2>1. at = "token" /\ purge.db => purge.at = "sidecars" BY <1>1, <1>3, PurgeCacheDoes, PurgeMoves
  <2> QED BY <2>1, PurgeCacheDoes
<1>6. at = "sidecars" => purge.db BY <1>1, <1>3, PurgeCacheDoes, PurgeMoves
<1> QED BY <1>1, <1>3, <1>4, <1>5, <1>6 DEF PurgeInv

LEMMA PurgeStep ==
  ASSUME CommandsInv, PensInv, TextInv, RegistryInv, PromisesInv, FilesInv, PurgeInv, [Next]_accountVars
  PROVE  PurgeInv'
<1>1. CASE \E p \in Procs : Command(p) \/ Consent(p) \/ Confirm(p) \/ Interrupt(p) BY <1>1, CommandPurges
<1>2. CASE Boot
  <2>1. UNCHANGED purge BY <1>2, BootLeaves
  <2>2. daemon.at # "serving"
    BY <1>2 DEF Boot, Check, LoadTokens, EnsureCacheDir, SetDirMode, OpenDb, SetDbMode, Migrate, Listen
  <2>3. purge.at = "idle" BY <2>2 DEF PurgeInv
  <2> QED BY <2>1, <2>3, NoPurgeInv
<1>3. CASE Crash \/ PurgeEnds BY <1>3, NoPurgeInv DEF Crash, PurgeEnds
<1>4. CASE Probe BY <1>4, ProbeInv
<1>5. CASE PurgeCache BY <1>5, PurgeCacheInv
<1>6. CASE PurgeToken BY <1>6, PurgeTokenInv
<1>7. CASE PurgeEntry BY <1>7, PurgeEntryInv
<1>8. CASE PurgeSave BY <1>8, PurgeSaveInv
<1>9. CASE PurgePlace BY <1>9, PurgePlaceInv
<1>10. ASSUME NEW a \in Aliases, Refresh(a) PROVE PurgeInv' BY <1>10, RefreshPens, PurgeLeft DEF Refresh, daemonVars
<1>11. ASSUME NEW a \in Aliases, Refreshed(a) PROVE PurgeInv'
  <2>1. UNCHANGED <<purge, daemon, registry, db, clashed>> BY <1>11 DEF Refreshed, daemonVars
  <2>2. \/ UNCHANGED <<token, touched>>
        \/ token' = [token EXCEPT ![a] = draft[a].text] /\ touched' = Touch(a, "token")
    BY <1>11 DEF Refreshed
  <2> QED BY <2>1, <2>2, TokenTouched, PurgeLeft
<1>12. ASSUME NEW f \in Files, Fill(f) PROVE PurgeInv' BY <1>12, FillPurges, WritersAre
<1>13. CASE UNCHANGED accountVars
  BY <1>13, PurgeLeft DEF accountVars, diskVars, daemonVars, ghostVars, writeVars
<1> QED BY <1>1, <1>2, <1>3, <1>4, <1>5, <1>6, <1>7, <1>8, <1>9, <1>10, <1>11, <1>12, <1>13 DEF Next, Purge

--------------------------------------------------------------------------------
(* accounts.toml and the texts, whoever writes them *)

LEMMA RegistryStep ==
  ASSUME CommandsInv, PensInv, RegistryInv, PromisesInv, DaemonInv, FilesInv, OpeningInv, PurgeInv,
         [Next]_accountVars
  PROVE  RegistryInv'
<1>1. ASSUME NEW p \in Procs, Command(p) \/ Consent(p) \/ Confirm(p) \/ Interrupt(p) PROVE RegistryInv'
  BY <1>1, CommandRegistry
<1>2. CASE Boot BY <1>2, BootLeaves, BootWhy, CliStays, RegistryKept DEF cliVars, writeVars
<1>3. CASE Crash
  <2>1. UNCHANGED <<registry, clashed, cli>> /\ daemon'.why # "accounts" /\ purge'.at = "idle"
    BY <1>3, DownIs DEF Crash, cliVars, NoPurge
  <2> QED BY <2>1, CliStays, RegistryKept
<1>4. CASE Probe
  <2>1. UNCHANGED <<registry, clashed, cli, daemon>> BY <1>4 DEF Probe, diskVars, writeVars, cliVars
  <2>2. UNCHANGED purge \/ purge'.at = "cache" BY <1>4 DEF Probe
  <2> QED BY <2>1, <2>2, CliStays, RegistryKept
<1>5. CASE PurgeCache
  <2>1. UNCHANGED <<registry, clashed, cli, daemon>> BY <1>5 DEF PurgeCache, writeVars, cliVars
  <2>2. purge'.at \in {"sidecars", "token"} BY <1>5, PurgeCacheDoes, PurgeMoves DEF PurgeCache
  <2> QED BY <2>1, <2>2, CliStays, RegistryKept
<1>6. CASE PurgeToken
  <2>1. UNCHANGED <<registry, clashed, cli, daemon>> /\ purge'.at = "entry" BY <1>6, PurgeMoves DEF PurgeToken, cliVars
  <2> QED BY <2>1, CliStays, RegistryKept
<1>7. CASE PurgeEntry
  <2>1. UNCHANGED <<registry, clashed, cli, daemon>> BY <1>7 DEF PurgeEntry, diskVars, writeVars, cliVars
  <2>2. Registry \notin clashed => Valid(registry) BY GoodIsValid DEF RegistryInv
  <2>3. \/ purge'.at = "done"
        \/ ~Valid(registry) /\ purge'.at = "failed"
        \/ Valid(registry) /\ purge'.at = "save" /\ purge'.base = registry
    BY <1>7, PurgeMoves, PurgeLoads DEF PurgeEntry
  <2> QED BY <2>1, <2>2, <2>3, CliStays, RegistryKept
<1>8. CASE PurgeSave
  <2>1. UNCHANGED <<registry, cli, daemon>> BY <1>8 DEF PurgeSave, cliVars
  <2>2. Registry \in clashed => Registry \in clashed' BY <1>8, PurgeSavePens
  <2>3. Registry \notin clashed => Valid(Without(purge.base, purge.alias))
    BY <1>8, GoodWithout, GoodIsValid DEF PurgeSave, RegistryInv
  <2>4. purge'.at = "place" \/ (purge'.at = "failed" /\ ~Valid(Without(purge.base, purge.alias)))
    BY <1>8, PurgeMoves DEF PurgeSave
  <2> QED BY <2>1, <2>2, <2>3, <2>4, CliStays, RegistryKept
<1>9. CASE PurgePlace
  <2>1. UNCHANGED <<clashed, cli, daemon>> /\ Written(Registry, Registry) BY <1>9 DEF PurgePlace, cliVars
  <2>2. \/ UNCHANGED registry /\ ~draft[Registry].there /\ purge'.at = "failed"
        \/ registry' = draft[Registry].text /\ purge'.at = "done"
    BY <1>9, PurgeMoves DEF PurgePlace
  <2> QED BY <2>1, <2>2, PlacedGood, WritersAre, CliStays, RegistryKept
<1>10. CASE PurgeEnds
  <2>1. UNCHANGED <<registry, clashed, cli, daemon>> /\ purge'.at = "idle" BY <1>10 DEF PurgeEnds, cliVars, NoPurge
  <2> QED BY <2>1, CliStays, RegistryKept
<1>11. ASSUME NEW a \in Aliases, Refresh(a) \/ Refreshed(a) PROVE RegistryInv'
  <2>1. UNCHANGED <<registry, cli, daemon, purge>> BY <1>11 DEF Refresh, Refreshed, cliVars, daemonVars
  <2>2. Registry \in clashed => Registry \in clashed' BY <1>11, RefreshPens DEF Refreshed
  <2> QED BY <2>1, <2>2, CliStays, RegistryKept
<1>12. ASSUME NEW f \in Files, Fill(f) PROVE RegistryInv'
  <2>1. UNCHANGED <<cli, daemon, purge>> BY <1>12 DEF Fill, cliVars, daemonVars
  <2>2. UNCHANGED clashed /\ (UNCHANGED registry \/ (Typed(registry') /\ Registry \in clashed))
    BY <1>12, FillPens, WritersAre DEF RegistryInv, PromisesInv
  <2> QED BY <2>1, <2>2, CliStays, RegistryKept
<1>13. CASE UNCHANGED accountVars
  BY <1>13, CliStays, RegistryKept DEF accountVars, diskVars, writeVars, cliVars, daemonVars
<1> QED BY <1>1, <1>2, <1>3, <1>4, <1>5, <1>6, <1>7, <1>8, <1>9, <1>10, <1>11, <1>12, <1>13 DEF Next, Purge

(* A command keeps its text until it has opened the next file; so does the purge. *)
LEMMA TextKept ==
  ASSUME TextInv, Registry \in clashed => Registry \in clashed',
         \A p \in Procs : \/ cli'[p] = cli[p] /\ pen'[p].text = pen[p].text
                          \/ cli'[p].at = "set" => pen'[p].text = cli'[p].new,
         \/ UNCHANGED purge /\ pen'[Registry].text = pen[Registry].text
         \/ purge'.at = "place" => ~Has(pen'[Registry].text, purge'.alias) \/ Registry \in clashed'
  PROVE  TextInv'
BY DEF TextInv

LEMMA UnlinksText ==
  ASSUME PensInv, NEW f, Unlinks(f), NEW w \in Writers PROVE pen'[w].text = pen[w].text
<1>1. pen[w] = [file |-> pen[w].file, on |-> pen[w].on, text |-> pen[w].text] BY DEF PensInv, PenOk
<1>2. pen'[w] = pen[w] \/ pen'[w] = [pen[w] EXCEPT !.on = "gone"] BY DEF Unlinks
<1>3. CASE pen'[w] = [pen[w] EXCEPT !.on = "gone"]
  <2>1. pen'[w] = [file |-> pen[w].file, on |-> "gone", text |-> pen[w].text] BY <1>1, <1>3
  <2> QED BY <2>1
<1> QED BY <1>2, <1>3

(* One command moves on without a text for a token file. *)
LEMMA CommandText ==
  ASSUME TextInv, UNCHANGED purge, Registry \in clashed => Registry \in clashed', NEW p \in Procs,
         \A q \in Procs : q # p => cli'[q] = cli[q],
         \A v \in Writers : v # p => pen'[v].text = pen[v].text,
         cli'[p].at = "set" => pen'[p].text = cli'[p].new
  PROVE  TextInv'
<1>1. Registry \in Writers /\ Registry # p /\ Procs \subseteq Writers BY WritersAre
<1> QED BY <1>1, TextKept

LEMMA TextStep ==
  ASSUME CommandsInv, PensInv, TextInv, RegistryInv, PromisesInv, PurgeInv, [Next]_accountVars PROVE TextInv'
<1> USE WritersAre
<1>1. ASSUME NEW p \in Procs, Command(p) \/ Consent(p) \/ Confirm(p) \/ Interrupt(p) PROVE TextInv'
  <2>1. UNCHANGED purge BY <1>1, CommandsLeaveDaemon DEF daemonVars
  <2>2. CASE Acts(p) BY <2>1, <2>2, ActsLeave, ActsMove, CommandText DEF writeVars
  <2>3. CASE Fill(p) BY <2>1, <2>3, FillPens, TextKept DEF Fill, cliVars, PromisesInv
  <2>4. CASE WriteToken(p)
    <3>1. cli' = Left(p) \/ Become(p, "set") BY <2>4 DEF WriteToken, Quit
    <3>2. \A q \in Procs : q # p => cli'[q] = cli[q] BY <3>1, Rested, Became
    <3>3. cli'[p].at = "set" => pen'[p].text = cli'[p].new
      <4>1. CASE cli' = Left(p) BY <4>1, Rested
      <4>2. CASE Become(p, "set") BY <2>4, <4>2, WriteTokenPens, Became
      <4> QED BY <3>1, <4>1, <4>2
    <3> QED BY <2>1, <2>4, <3>2, <3>3, WriteTokenPens, CommandText
  <2>5. CASE SetToken(p)
    <3>1. cli[p].alias \in Files BY <2>5 DEF SetToken, CommandsInv, CommandOk
    <3>2. UNCHANGED clashed /\ Written(p, cli[p].alias) BY <2>5 DEF SetToken
    <3>3. Renames(p, cli[p].alias) \/ (UNCHANGED draft /\ pen' = Closed({p})) BY <2>5 DEF SetToken
    <3>4. \A v \in Writers : v # p => pen'[v].text = pen[v].text BY <3>1, <3>2, <3>3, PlacesPens
    <3>5. cli' = Left(p) \/ Become(p, "load") BY <2>5 DEF SetToken, Quit
    <3>6. cli'[p].at # "set" /\ \A q \in Procs : q # p => cli'[q] = cli[q] BY <3>5, Rested, Became
    <3> QED BY <2>1, <3>2, <3>4, <3>6, CommandText
  <2>6. CASE Save(p)
    <3>1. Become(p, "refused") \/ Become(p, "place") BY <2>6 DEF Save
    <3>2. cli'[p].at # "set" /\ \A q \in Procs : q # p => cli'[q] = cli[q] BY <3>1, Became
    <3> QED BY <2>1, <2>6, <3>2, SavePens, CommandText
  <2>7. CASE Place(p)
    <3>1. UNCHANGED clashed /\ Written(p, Registry) /\ cli' = Left(p) BY <2>7 DEF Place, Quit
    <3>2. Renames(p, Registry) \/ (UNCHANGED draft /\ pen' = Closed({p})) BY <2>7 DEF Place
    <3>3. \A v \in Writers : v # p => pen'[v].text = pen[v].text BY <3>1, <3>2, PlacesPens
    <3> QED BY <2>1, <3>1, <3>3, Rested, CommandText
  <2>8. CASE Unlink(p)
    <3>1. UNCHANGED clashed /\ Become(p, "save") /\ Unlinks(cli[p].alias) BY <2>8 DEF Unlink
    <3> QED BY <2>1, <3>1, UnlinksText, Became, CommandText
  <2>9. CASE Interrupt(p)
    <3>1. UNCHANGED clashed /\ cli' = Left(p) /\ pen' = Closed({p}) BY <2>9 DEF Interrupt, Quit
    <3>2. \A v \in Writers : v # p => pen'[v].text = pen[v].text BY <3>1 DEF Closed
    <3> QED BY <2>1, <3>1, <3>2, Rested, CommandText
  <2> QED BY <1>1, <2>2, <2>3, <2>4, <2>5, <2>6, <2>7, <2>8, <2>9, CommandIs
<1>2. ASSUME NEW W \in SUBSET Files, pen' = Closed(W), UNCHANGED <<cli, clashed>>, purge' = NoPurge PROVE TextInv'
  <2>1. \A p \in Procs : pen'[p] = pen[p] BY <1>2 DEF Closed
  <2>2. purge'.at # "place" BY <1>2 DEF NoPurge
  <2> QED BY <1>2, <2>1, <2>2, TextKept
<1>3. CASE Crash \/ PurgeEnds BY <1>2, <1>3 DEF Crash, PurgeEnds, cliVars
<1>4. CASE Boot BY <1>4, BootLeaves, TextKept DEF cliVars, writeVars
<1>5. CASE Probe \/ PurgeCache \/ PurgeToken \/ PurgeEntry
  <2>1. UNCHANGED <<cli, clashed>> BY <1>5 DEF Probe, PurgeCache, PurgeToken, PurgeEntry, diskVars, writeVars, cliVars
  <2>2. \A v \in Writers : pen'[v].text = pen[v].text
    <3>1. UNCHANGED pen \/ Unlinks(purge.alias) BY <1>5 DEF Probe, PurgeCache, PurgeToken, PurgeEntry, diskVars, writeVars
    <3> QED BY <3>1, UnlinksText
  <2>3. UNCHANGED purge \/ purge'.at # "place"
    <3>1. CASE Probe BY <3>1 DEF Probe
    <3>2. CASE PurgeCache \/ PurgeToken
      <4>1. purge' = [purge EXCEPT !.at = "sidecars"] \/ purge' = [purge EXCEPT !.at = "token"]
            \/ purge' = [purge EXCEPT !.at = "entry"]
        BY <3>2 DEF PurgeCache, PurgeToken
      <4> QED BY <4>1, PurgeMoves
    <3>3. CASE PurgeEntry
      <4>1. \/ purge' = [purge EXCEPT !.at = "done"] \/ purge' = [purge EXCEPT !.at = "failed"]
            \/ purge' = [purge EXCEPT !.at = "save", !.base = registry]
        BY <3>3 DEF PurgeEntry
      <4>2. CASE purge' = [purge EXCEPT !.at = "save", !.base = registry]
        <5>1. purge'.at = "save" BY <4>2, PurgeLoads
        <5> QED BY <5>1
      <4> QED BY <4>1, <4>2, PurgeMoves
    <3> QED BY <1>5, <3>1, <3>2, <3>3
  <2> QED BY <2>1, <2>2, <2>3, TextKept
<1>6. CASE PurgeSave
  <2>1. UNCHANGED cli /\ purge.at = "save" BY <1>6 DEF PurgeSave, cliVars
  <2>2. purge'.alias = purge.alias BY <1>6, PurgeMoves DEF PurgeSave
  <2>3. Registry \notin clashed => ~Has(Without(purge.base, purge.alias), purge.alias)
    BY <2>1, GoodWithout DEF RegistryInv
  <2>4. \A p \in Procs : pen'[p] = pen[p] BY <1>6, PurgeSavePens
  <2> QED BY <1>6, <2>1, <2>2, <2>3, <2>4, PurgeSavePens, TextKept
<1>7. CASE PurgePlace
  <2>1. UNCHANGED <<cli, clashed>> /\ Written(Registry, Registry) BY <1>7 DEF PurgePlace, cliVars
  <2>2. Renames(Registry, Registry) \/ (UNCHANGED draft /\ pen' = Closed({Registry})) BY <1>7 DEF PurgePlace
  <2>3. \A p \in Procs : pen'[p].text = pen[p].text BY <2>1, <2>2, PlacesPens
  <2>4. purge'.at # "place" BY <1>7, PurgeMoves DEF PurgePlace
  <2> QED BY <2>1, <2>3, <2>4, TextKept
<1>8. ASSUME NEW a \in Aliases, Refresh(a) \/ Refreshed(a) PROVE TextInv'
  <2>1. UNCHANGED <<cli, purge>> BY <1>8 DEF Refresh, Refreshed, cliVars, daemonVars
  <2>2. Registry # a /\ a \notin Procs BY NamesAssumption DEF Files
  <2>3. CASE Refresh(a)
    <3>1. pen'[Registry] = pen[Registry] /\ \A p \in Procs : pen'[p] = pen[p] BY <2>2, <2>3, RefreshPens
    <3> QED BY <2>1, <2>3, <3>1, RefreshPens, TextKept
  <2>4. CASE Refreshed(a)
    <3>1. UNCHANGED clashed /\ Written(a, a) BY <2>4 DEF Refreshed
    <3>2. Renames(a, a) \/ (UNCHANGED draft /\ pen' = Closed({a})) BY <2>4 DEF Refreshed
    <3>3. \A v \in Writers : v # a => pen'[v].text = pen[v].text BY <3>1, <3>2, PlacesPens
    <3> QED BY <2>1, <2>2, <3>1, <3>3, TextKept
  <2> QED BY <1>8, <2>3, <2>4
<1>9. ASSUME NEW f \in Files, Fill(f) PROVE TextInv'
  BY <1>9, FillPens, TextKept DEF Fill, cliVars, daemonVars, PromisesInv
<1>10. CASE UNCHANGED accountVars
  BY <1>10, TextKept DEF accountVars, diskVars, writeVars, cliVars, daemonVars
<1> QED BY <1>1, <1>3, <1>4, <1>5, <1>6, <1>7, <1>8, <1>9, <1>10 DEF Next, Purge

--------------------------------------------------------------------------------
LEMMA InitInv == Init => AccountsInv
<1> SUFFICES ASSUME Init PROVE AccountsInv OBVIOUS
<1>1. PICK s \in Plans :
         /\ cfg = s.cfg /\ env = s.env /\ registry = s.registry /\ token = s.token /\ dirs = s.dirs /\ db = s.db
         /\ todo = s.todo
         /\ promised = [a \in Aliases |-> IF Has(s.registry, a) THEN s.token[a].scopes ELSE {}]
  BY DEF Init
<1>2. cli = [p \in Procs |-> Resting] /\ daemon = Down /\ purge = NoPurge BY DEF Init
<1>3. CommandsInv
  <2>1. todo \in [Procs -> Seq(Commands)] BY <1>1, PlansAssumption
  <2>2. cli = [p \in Procs |-> cli[p]] /\ \A p \in Procs : CommandOk(cli[p]) BY <1>2, RestingOk
  <2> QED BY <2>1, <2>2 DEF CommandsInv
<1>4. PromisesInv
  <2>1. token = [a \in Aliases |-> token[a]] BY <1>1, PlansAssumption
  <2>2. promised = [a \in Aliases |-> promised[a]] BY <1>1
  <2>3. \A a \in Aliases : promised[a] = IF Has(registry, a) THEN token[a].scopes ELSE {} BY <1>1
  <2>4. clashed = {} BY DEF Init
  <2> QED BY <2>1, <2>2, <2>3, <2>4 DEF PromisesInv
<1>9. PensInv
  <2>1. draft = [f \in Files |-> NoDraft(f)] /\ pen = [w \in Writers |-> NoPen] /\ clashed = {} BY DEF Init
  <2>2. draft[Registry].text = <<>> BY <2>1, WritersAre DEF NoDraft, Empty
  <2>3. Typed(draft[Registry].text) BY <2>2 DEF Typed
  <2>4. \A f \in Files : draft[f] = [there |-> draft[f].there, text |-> draft[f].text] BY <2>1 DEF NoDraft
  <2>5. \A w \in Writers : PenOk(w) /\ pen[w].file \notin Files BY <2>1, NoPenIs, WritersAre DEF PenOk
  <2> QED BY <2>1, <2>3, <2>4, <2>5 DEF PensInv
<1>10. TextInv BY <1>2, RestingIdle DEF TextInv, NoPurge
<1>11. RegistryInv
  <2>1. registry \in Seq(Entries) /\ Valid(registry) /\ Distinct(registry) BY <1>1, PlansAssumption DEF Distinct
  <2>2. Good(registry) /\ Typed(registry) BY <2>1, ValidMeans DEF Good, Typed
  <2>3. \A p \in Procs : cli[p].at = "idle" BY <1>2, RestingIdle
  <2>4. purge.at = "idle" /\ daemon.why # "accounts" BY <1>2, DownIs DEF NoPurge
  <2> QED BY <2>2, <2>3, <2>4 DEF RegistryInv, EditOk, Edits
<1>5. DaemonInv BY <1>2, DownIs DEF DaemonInv, Booted
<1>6. FilesInv
  <2>1. /\ s.dirs \in [config : Modes, tokens : Modes, cache : Modes]
        /\ s.db \in [Aliases -> Dbs] /\ \A a \in Aliases : s.db[a].tables = s.db[a].version
        /\ s.env.umask \in {"private", "wide"}
        /\ s.env.umask = "private" =>
              /\ s.env.skip \/ "wide" \notin {s.dirs.config, s.dirs.tokens}
              /\ s.dirs.cache # "wide" /\ \A a \in Aliases : s.db[a].main # "wide"
    BY PlansAssumption
  <2> QED BY <1>1, <2>1 DEF FilesInv, PermissionsHold
<1>7. OpeningInv BY <1>2, DownIs DEF OpeningInv
<1>8. PurgeInv
  <2>1. /\ NoPurge.at = "idle"
        /\ NoPurge = [at |-> NoPurge.at, alias |-> NoPurge.alias, db |-> NoPurge.db, token |-> NoPurge.token,
                      entry |-> NoPurge.entry, base |-> NoPurge.base]
    BY DEF NoPurge
  <2> QED BY <1>2, <2>1 DEF PurgeInv
<1> QED BY <1>3, <1>4, <1>5, <1>6, <1>7, <1>8, <1>9, <1>10, <1>11 DEF AccountsInv

LEMMA StepInv == AccountsInv /\ [Next]_accountVars => AccountsInv'
BY CommandsStep, PensStep, TextStep, RegistryStep, PromisesStep, DaemonStep, FilesStep, OpeningStep, PurgeStep
   DEF AccountsInv

LEMMA Invariance == Spec => []AccountsInv
BY InitInv, StepInv, PTL DEF Spec

(* Whatever commands and purges run, from any number of processes, and wherever    *)
(* they are interrupted, between any two of the steps in which they write a file:  *)
(* as long as no two of them had accounts.toml.tmp open together, accounts.toml     *)
(* holds a registry that loads, with one entry to an alias, and no command, purge  *)
(* or start of the daemon is refused by it.                                        *)
THEOREM EditsMakeGoodFiles == Spec => []EditsStayValid
<1>1. AccountsInv => EditsStayValid
  <2> SUFFICES ASSUME AccountsInv, Registry \notin clashed PROVE EditsStayValid BY DEF EditsStayValid
  <2>1. /\ Good(registry) /\ \A p \in Procs : EditOk(cli[p])
        /\ daemon.why # "accounts" /\ purge.at # "failed"
    BY DEF AccountsInv, RegistryInv
  <2>2. Valid(registry) BY <2>1, GoodIsValid
  <2> QED BY <2>1, <2>2 DEF EditsStayValid, Good, Distinct, EditOk
<1> QED BY <1>1, Invariance, PTL

(* What add and grant told the operator is there at the next start, whichever      *)
(* processes write the token files in between, one after the other or at once.     *)
THEOREM WhatWasAddedIsServed == Spec => []AddedIsServed
<1>1. AccountsInv => AddedIsServed
  <2> SUFFICES ASSUME AccountsInv PROVE AddedIsServed OBVIOUS
  <2>1. daemon.why = "permissions" => env.umask # "private" BY DEF AccountsInv, DaemonInv
  <2>2. ASSUME daemon.at = "serving", cfg.backend = "file", NEW a \in Aliases, daemon.owed[a] # {}
        PROVE  Healthy /\ daemon.mem[a] # NoToken /\ daemon.owed[a] \subseteq daemon.mem[a].scopes
    <3>1. /\ daemon.owed[a] \subseteq daemon.mem[a].scopes
          /\ Has(daemon.known, a) /\ daemon.known \in Seq(Entries)
      BY <2>2 DEF AccountsInv, DaemonInv, Booted, Good
    <3>2. daemon.mem[a] # NoToken BY <2>2, <3>1 DEF NoToken
    <3>3. Len(daemon.known) > 0 BY <3>1 DEF Has
    <3> QED BY <3>1, <3>2, <3>3 DEF Healthy, ActiveAccounts
  <2> QED BY <2>1, <2>2 DEF AddedIsServed
<1> QED BY <1>1, Invariance, PTL

(* No daemon serves from a cache directory or file that others can read, whatever  *)
(* the umask and wherever an earlier start stopped between create and chmod.       *)
THEOREM WhatIsServedIsPrivate == Spec => []ServesPrivate
<1>1. AccountsInv => ServesPrivate BY DEF AccountsInv, OpeningInv, ServesPrivate
<1> QED BY <1>1, Invariance, PTL

(* A purge that ends well has left nothing behind, however often it was cut short  *)
(* before and whatever runs beside it, but for an entry where two had              *)
(* accounts.toml.tmp open together.                                                *)
THEOREM PurgesForget == Spec => []PurgeForgets
<1>1. AccountsInv => PurgeForgets
  <2> SUFFICES ASSUME AccountsInv, purge.at = "done"
               PROVE  /\ Has(registry, purge.alias) => "entry" \in touched \/ Registry \in clashed
                      /\ token[purge.alias] # NoToken => "token" \in touched
                      /\ db[purge.alias].main = "none" /\ (purge.db => ~db[purge.alias].sidecars)
    BY DEF PurgeForgets
  <2> QED BY DEF AccountsInv, PurgeInv
<1> QED BY <1>1, Invariance, PTL

(* No crash keeps the daemon from starting again. *)
THEOREM DaemonStartsAgain == Spec => []StartsAgain
<1>1. AccountsInv => StartsAgain BY DEF AccountsInv, DaemonInv, StartsAgain
<1> QED BY <1>1, Invariance, PTL
================================================================================
