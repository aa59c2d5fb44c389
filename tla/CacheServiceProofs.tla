-------------------------- MODULE CacheServiceProofs --------------------------
(* Theorems about CacheService for every number of messages, threads,        *)
(* labels, queries and readers, every page size and page cap, both settings  *)
(* of sync_on_read and of the background task, and all upkeep.               *)
EXTENDS CacheService, TLAPS

(* The type invariant is inductive only together with the bounds on what a   *)
(* pass holds: applying a record reads log[done + 1].                        *)
Typed == TypeOK /\ WatermarkBehindMailbox

USE DEF mailboxVars, storeVars, syncVars, ghostVars

-----------------------------------------------------------------------------
(* The layers below the service.                                             *)

(* A step of the mailbox keeps the history well formed and never shortens it. *)
LEMMA MailboxGrows ==
  ASSUME MailboxTypeOK, MailboxChange \/ ForgetHistory
  PROVE  MailboxTypeOK' /\ Len(log) <= Len(log')
<1>1. ASSUME MailboxChange PROVE MailboxTypeOK' /\ Len(log) <= Len(log')
  <2>1. PICK e \in Event : Record(e)
    BY <1>1 DEF MailboxChange, Deliver, Expunge, AddLabel, RemoveLabel, Change, Event
  <2>2. QED BY <2>1 DEF Record, MailboxTypeOK
<1>2. ASSUME ForgetHistory PROVE MailboxTypeOK' /\ Len(log) <= Len(log')
  BY <1>2 DEF ForgetHistory, MailboxTypeOK
<1>3. QED BY <1>1, <1>2

(* Writing a history record keeps every row a row.                           *)
LEMMA AppliedType ==
  ASSUME NEW e \in Event, NEW r \in Row
  PROVE  Applied(e, r) \in Row
<1>1. OrStub(r) \in Row BY DEF OrStub, Row, Stub, NoRow
<1>2. CASE e.kind = "messagesAdded" BY <1>1, <1>2 DEF Applied
<1>3. CASE e.kind = "messagesDeleted" BY <1>3 DEF Applied, Row
<1>4. CASE e.kind = "labelsAdded" BY <1>1, <1>4 DEF Applied, Row, Event
<1>5. CASE e.kind = "labelsRemoved" BY <1>5 DEF Applied, Row, Event
<1>6. QED BY <1>2, <1>3, <1>4, <1>5 DEF Event

(* Every transaction of queries.rs keeps the tables well formed.             *)
LEMMA StoreTyping ==
  ASSUME StoreTypeOK
  PROVE  /\ \A t \in Threads, k \in Nat : InsertThread(t, k) => StoreTypeOK'
         /\ \A t \in Threads, k \in Nat : InsertSummary(t, k) => StoreTypeOK'
         /\ \A q \in Queries, s \in Nat, k \in Nat : InsertQuery(q, s, k) => StoreTypeOK'
         /\ \A id \in Nat : SetWatermark(id) => StoreTypeOK'
         /\ \A id \in Nat : ReseedAccount(id) => StoreTypeOK'
         /\ \A e \in Event : ApplyHistoryRecord(e) => StoreTypeOK'
         /\ InvalidateAllQueries => StoreTypeOK'
<1>1. NoRow \in Row /\ NoMemo \in Memo BY DEF NoRow, Row, NoMemo, Memo
<1>2. ASSUME NEW t \in Threads, NEW k \in Nat, InsertThread(t, k) PROVE StoreTypeOK'
  <2>1. \A m \in Messages :
          [body |-> "full", dead |-> FALSE, labels |-> LabelsAt(m, k)] \in Row
    BY DEF Row, LabelsAt
  <2>2. QED BY <1>1, <1>2, <2>1 DEF InsertThread, StoreTypeOK
<1>3. ASSUME NEW t \in Threads, NEW k \in Nat, InsertSummary(t, k) PROVE StoreTypeOK'
  BY <1>1, <1>3 DEF InsertSummary, StoreTypeOK
<1>4. ASSUME NEW q \in Queries, NEW s \in Nat, NEW k \in Nat, InsertQuery(q, s, k)
      PROVE  StoreTypeOK'
  <2>1. [held |-> TRUE, snapshot |-> s, content |-> k] \in Memo BY DEF Memo
  <2>2. QED BY <1>4, <2>1 DEF InsertQuery, StoreTypeOK
<1>5. ASSUME NEW id \in Nat, SetWatermark(id) PROVE StoreTypeOK'
  BY <1>5 DEF SetWatermark, StoreTypeOK
<1>6. ASSUME NEW id \in Nat, ReseedAccount(id) PROVE StoreTypeOK'
  BY <1>1, <1>6 DEF ReseedAccount, StoreTypeOK
<1>7. ASSUME NEW e \in Event, ApplyHistoryRecord(e) PROVE StoreTypeOK'
  <2>1. e.msg \in Messages BY DEF Event
  <2>2. Applied(e, row[e.msg]) \in Row BY <2>1, AppliedType DEF StoreTypeOK
  <2>3. QED BY <1>7, <2>1, <2>2 DEF ApplyHistoryRecord, StoreTypeOK
<1>8. ASSUME InvalidateAllQueries PROVE StoreTypeOK'
  BY <1>1, <1>8 DEF InvalidateAllQueries, StoreTypeOK
<1>9. QED BY <1>2, <1>3, <1>4, <1>5, <1>6, <1>7, <1>8

(* Eviction, purges and cache_invalidate keep the tables well formed and     *)
(* leave the watermark alone.                                                *)
LEMMA UpkeepTyping ==
  ASSUME StoreTypeOK, Maintain
  PROVE  StoreTypeOK' /\ UNCHANGED watermark
<1>1. NoRow \in Row /\ NoMemo \in Memo BY DEF NoRow, Row, NoMemo, Memo
<1>2. ASSUME NEW old \in SUBSET Messages, PurgeOldBodies(old)
      PROVE  StoreTypeOK' /\ UNCHANGED watermark
  <2>1. \A m \in Messages : [row[m] EXCEPT !.body = "headers"] \in Row
    BY DEF StoreTypeOK, Row
  <2>2. QED BY <1>2, <2>1 DEF PurgeOldBodies, StoreTypeOK
<1>3. ASSUME NEW qs \in SUBSET Queries, EvictQueries(qs)
      PROVE  StoreTypeOK' /\ UNCHANGED watermark
  BY <1>1, <1>3 DEF EvictQueries, StoreTypeOK
<1>4. ASSUME NEW batch \in SUBSET Messages, EvictRows(batch)
      PROVE  StoreTypeOK' /\ UNCHANGED watermark
  BY <1>1, <1>4 DEF EvictRows, StoreTypeOK
<1>5. ASSUME NEW q \in Queries, ExpireQuery(q)
      PROVE  StoreTypeOK' /\ UNCHANGED watermark
  BY <1>1, <1>5 DEF ExpireQuery, StoreTypeOK
<1>6. ASSUME InvalidateAllQueries PROVE StoreTypeOK' /\ UNCHANGED watermark
  BY <1>1, <1>6 DEF InvalidateAllQueries, StoreTypeOK
<1>7. ASSUME InvalidateAllLabels PROVE StoreTypeOK' /\ UNCHANGED watermark
  <2>1. \A m \in Messages : [row[m] EXCEPT !.labels = {}] \in Row
    BY DEF StoreTypeOK, Row
  <2>2. QED BY <1>7, <2>1 DEF InvalidateAllLabels, StoreTypeOK
<1>8. QED BY <1>2, <1>3, <1>4, <1>5, <1>6, <1>7 DEF Maintain
-----------------------------------------------------------------------------
(* Sync passes.                                                              *)

(* Where a pass may go next is always a well-formed pass.                    *)
LEMMA PassTyping ==
  /\ Resting \in Pass
  /\ [Resting EXCEPT !.pc = "start"] \in Pass
  /\ [Resting EXCEPT !.pc = "profile"] \in Pass
  /\ \A id \in Nat : [Resting EXCEPT !.pc = "list", !.start = id, !.done = id, !.latest = id]
                       \in Pass
  /\ \A id \in Nat, pc \in {"seed", "reseed"} :
       [Resting EXCEPT !.latest = id, !.pc = pc] \in Pass
  /\ \A s \in Pass, pc \in {"list", "apply", "invalidate", "advance", "reprofile"} :
       [s EXCEPT !.pc = pc] \in Pass
  /\ \A s \in Pass : AfterPage(s) \in Pass
BY DEF Pass, Resting, AfterPage

(* What a pass holds never exceeds a mailbox of n changes.                   *)
Bounded(s, n) ==
  /\ s.latest <= n /\ s.done <= n /\ s.upto <= n
  /\ s.pc = "apply" => s.done < s.upto

(* An idle pass has nothing in flight.                                       *)
LEMMA RestingBounded ==
  ASSUME NEW n \in Nat
  PROVE  /\ Bounded(Resting, n)
         /\ Bounded([Resting EXCEPT !.pc = "start"], n)
         /\ Bounded([Resting EXCEPT !.pc = "profile"], n)
BY DEF Bounded, Resting

(* Leaving a page keeps the bounds: it never leads back to applying records. *)
LEMMA AfterPageBounded ==
  ASSUME NEW n \in Nat, NEW s \in Pass, s.latest <= n, s.done <= n, s.upto <= n
  PROVE  Bounded(AfterPage(s), n)
BY DEF Bounded, Pass, Resting, AfterPage

(* A step in which one pass moves to s keeps the invariant if the rest of    *)
(* the state does.                                                           *)
LEMMA PassMoves ==
  ASSUME Typed, NEW p \in Tasks, NEW s \in Pass, Goto(p, s), Bounded(s, Len(log)),
         UNCHANGED <<log, horizon>>, StoreTypeOK', watermark' <= Len(log),
         faults' \in Nat, fetchedAt' \in [Threads -> Nat], missed' \in SUBSET Threads,
         reached' \in Nat, ServiceTypeOK'
  PROVE  Typed'
BY DEF Goto, Typed, TypeOK, MailboxTypeOK, SyncTypeOK, WatermarkBehindMailbox, Bounded

(* Every await of sync_account keeps the state well typed and bounded by the  *)
(* mailbox: one step per operation of HistorySync.                           *)
LEMMA SyncStepTyping ==
  ASSUME Typed, NEW p \in Tasks, PassStep(p)
  PROVE  Typed'
<1> USE DEF PassStep
<1>0. /\ sync[p] \in Pass /\ Len(log) \in Nat /\ Bounded(sync[p], Len(log))
      /\ watermark \in Nat \cup {NoId} /\ watermark <= Len(log)
      /\ sync[p].latest \in Nat
      /\ StoreTypeOK /\ MailboxTypeOK /\ ServiceTypeOK
      /\ faults \in Nat /\ fetchedAt \in [Threads -> Nat] /\ missed \in SUBSET Threads
      /\ reached \in Nat
  BY DEF Typed, TypeOK, SyncTypeOK, StoreTypeOK, MailboxTypeOK, WatermarkBehindMailbox,
         Bounded, Pass
<1>1. ServiceTypeOK' BY <1>0 DEF ServiceTypeOK
<1>2. UNCHANGED storeVars => StoreTypeOK' /\ watermark' <= Len(log)
  BY <1>0 DEF StoreTypeOK
<1>3. ASSUME ReadWatermark(p) PROVE Typed'
  <2>1. CASE watermark = NoId
    BY <1>0, <1>1, <1>2, <1>3, <2>1, PassTyping, RestingBounded, PassMoves DEF ReadWatermark
  <2>2. CASE watermark # NoId
    <3> DEFINE s == [Resting EXCEPT !.pc = "list", !.start = watermark,
                                    !.done = watermark, !.latest = watermark]
    <3>1. watermark \in Nat BY <1>0, <2>2
    <3>2. s \in Pass /\ Bounded(s, Len(log))
      <4>1. s \in Pass BY <3>1, PassTyping
      <4>2. s.latest = watermark /\ s.done = watermark /\ s.upto = 0 /\ s.pc = "list"
        BY DEF Resting
      <4>3. QED BY <1>0, <3>1, <4>1, <4>2 DEF Bounded
    <3>3. Goto(p, s) BY <1>3, <2>2 DEF ReadWatermark
    <3> HIDE DEF s
    <3>4. QED BY <1>0, <1>1, <1>2, <1>3, <3>2, <3>3, PassMoves DEF ReadWatermark
  <2>3. QED BY <2>1, <2>2
<1>4. ASSUME GetProfile(p) PROVE Typed'
  <2> DEFINE s == [Resting EXCEPT !.latest = Len(log),
                      !.pc = IF sync[p].pc = "profile" THEN "seed" ELSE "reseed"]
  <2>1. s \in Pass /\ Bounded(s, Len(log))
    <3>1. s \in Pass BY <1>0, PassTyping
    <3>2. s.latest = Len(log) /\ s.done = 0 /\ s.upto = 0 /\ s.pc # "apply" BY DEF Resting
    <3>3. QED BY <1>0, <3>1, <3>2 DEF Bounded
  <2>2. Goto(p, s) BY <1>4 DEF GetProfile
  <2> HIDE DEF s
  <2>3. QED BY <1>0, <1>1, <1>2, <1>4, <2>1, <2>2, PassMoves DEF GetProfile
<1>5. ASSUME SeedWatermark(p) PROVE Typed'
  <2>1. StoreTypeOK' /\ watermark' <= Len(log)
    BY <1>0, <1>5, StoreTyping DEF SeedWatermark, SetWatermark, Bounded
  <2>2. reached' \in Nat /\ missed' \in SUBSET Threads
    BY <1>0, <1>5 DEF SeedWatermark, Reach
  <2>3. Goto(p, Resting) BY <1>5 DEF SeedWatermark, Finish
  <2>4. QED
    BY <1>0, <1>1, <1>5, <2>1, <2>2, <2>3, PassTyping, RestingBounded, PassMoves
    DEF SeedWatermark
<1>6. ASSUME ListHistory(p) PROVE Typed'
  <2> DEFINE s == sync[p]
             upto == IF s.done + PageSize < Len(log) THEN s.done + PageSize ELSE Len(log)
             page == [s EXCEPT !.upto = upto, !.latest = Len(log), !.pages = @ + 1,
                               !.more = (upto < Len(log)), !.mutated = @ \/ upto > s.done]
             to == IF s.start < horizon THEN [s EXCEPT !.pc = "reprofile"]
                   ELSE IF upto > s.done THEN [page EXCEPT !.pc = "apply"]
                   ELSE AfterPage(page)
  <2>1. s.done \in Nat /\ s.pc = "list" BY <1>0, <1>6 DEF Pass, ListHistory
  <2>2. upto \in Nat /\ upto <= Len(log) BY <1>0, <2>1, SyncAssumption
  <2>3. page \in Pass
    <3>1. (upto < Len(log)) \in BOOLEAN /\ (s.mutated \/ upto > s.done) \in BOOLEAN OBVIOUS
    <3>2. s.pages + 1 \in Nat BY <1>0 DEF Pass
    <3> HIDE DEF upto
    <3>3. QED BY <1>0, <2>2, <3>1, <3>2 DEF Pass
  <2>4. page.latest = Len(log) /\ page.done <= Len(log) /\ page.upto = upto /\ page.done = s.done
    BY <1>0, <2>1, <2>2 DEF Bounded, Pass
  <2>5. Goto(p, to) BY <1>6 DEF ListHistory, Listed
  <2> HIDE DEF page, upto
  <2>6. to \in Pass BY <1>0, <2>3, PassTyping
  <2>7. Bounded(to, Len(log))
    <3>1. CASE s.start < horizon BY <1>0, <3>1 DEF Bounded, Pass
    <3>2. CASE ~(s.start < horizon) /\ upto > s.done
      BY <1>0, <2>2, <2>3, <2>4, <3>2 DEF Bounded, Pass
    <3>3. CASE ~(s.start < horizon) /\ ~(upto > s.done)
      BY <1>0, <2>2, <2>3, <2>4, <3>3, AfterPageBounded
    <3>4. QED BY <3>1, <3>2, <3>3
  <2> HIDE DEF to
  <2>8. QED BY <1>0, <1>1, <1>2, <1>6, <2>5, <2>6, <2>7, PassMoves DEF ListHistory
<1>7. ASSUME ApplyRecord(p) PROVE Typed'
  <2> DEFINE s == [sync[p] EXCEPT !.done = @ + 1]
             to == IF s.done < s.upto THEN s ELSE AfterPage(s)
  <2>1. sync[p].pc = "apply" BY <1>7 DEF ApplyRecord
  <2>2. s \in Pass /\ s.done <= Len(log) /\ s.upto <= Len(log) /\ s.latest <= Len(log)
        /\ s.done \in 1..Len(log)
    BY <1>0, <2>1 DEF Pass, Bounded
  <2>3. Goto(p, to) /\ ApplyHistoryRecord(log[s.done]) BY <1>7 DEF ApplyRecord
  <2> HIDE DEF s
  <2>4. log[s.done] \in Event BY <1>0, <2>2 DEF MailboxTypeOK
  <2>5. StoreTypeOK' /\ watermark' <= Len(log)
    BY <1>0, <2>3, <2>4, StoreTyping DEF ApplyHistoryRecord
  <2>6. to \in Pass BY <2>2, PassTyping
  <2>7. Bounded(to, Len(log))
    <3>1. CASE s.done < s.upto BY <2>2, <3>1 DEF Bounded
    <3>2. CASE ~(s.done < s.upto) BY <1>0, <2>2, <3>2, AfterPageBounded
    <3>3. QED BY <3>1, <3>2
  <2> HIDE DEF to
  <2>8. QED BY <1>0, <1>1, <1>7, <2>3, <2>5, <2>6, <2>7, PassMoves DEF ApplyRecord
<1>8. ASSUME InvalidateQueries(p) PROVE Typed'
  <2> DEFINE to == IF sync[p].latest # sync[p].start THEN [sync[p] EXCEPT !.pc = "advance"]
                   ELSE Resting
  <2>1. Goto(p, to) BY <1>8 DEF InvalidateQueries
  <2>2. to \in Pass BY <1>0, PassTyping
  <2>3. Bounded(to, Len(log)) BY <1>0, RestingBounded DEF Bounded, Pass
  <2>4. StoreTypeOK' /\ watermark' <= Len(log)
    BY <1>0, <1>8, StoreTyping DEF InvalidateQueries, InvalidateAllQueries
  <2> HIDE DEF to
  <2>5. QED BY <1>0, <1>1, <1>8, <2>1, <2>2, <2>3, <2>4, PassMoves DEF InvalidateQueries
<1>9. ASSUME AdvanceWatermark(p) PROVE Typed'
  <2>1. StoreTypeOK' /\ watermark' <= Len(log)
    BY <1>0, <1>9, StoreTyping DEF AdvanceWatermark, SetWatermark, Bounded
  <2>2. reached' \in Nat /\ missed' \in SUBSET Threads
    BY <1>0, <1>9 DEF AdvanceWatermark, Reach
  <2>3. Goto(p, Resting) BY <1>9 DEF AdvanceWatermark, Finish
  <2>4. QED
    BY <1>0, <1>1, <1>9, <2>1, <2>2, <2>3, PassTyping, RestingBounded, PassMoves
    DEF AdvanceWatermark
<1>10. ASSUME Reseed(p) PROVE Typed'
  <2>1. StoreTypeOK' /\ watermark' <= Len(log)
    BY <1>0, <1>10, StoreTyping DEF Reseed, ReseedAccount, Bounded
  <2>2. reached' \in Nat /\ missed' \in SUBSET Threads
    BY <1>0, <1>10 DEF Reseed, Reach
  <2>3. Goto(p, Resting) BY <1>10 DEF Reseed, Finish
  <2>4. QED
    BY <1>0, <1>1, <1>10, <2>1, <2>2, <2>3, PassTyping, RestingBounded, PassMoves DEF Reseed
<1>11. QED
  BY <1>3, <1>4, <1>5, <1>6, <1>7, <1>8, <1>9, <1>10 DEF SyncStep
-----------------------------------------------------------------------------
(* Reads.                                                                    *)

(* What a tool call may turn into is always a well-formed call.              *)
LEMMA CallTyping ==
  /\ \A op \in {"thread", "summary", "query"}, t \in Threads, q \in Queries :
       Fresh(op, t, q) \in Call
  /\ \A c \in Call : Quiet(c) \in Call
  /\ \A c \in Call, pc \in {"fetch", "snapshot", "labels", "served"} : [c EXCEPT !.pc = pc] \in Call
  /\ \A c \in Call : /\ c.op \in {"thread", "summary", "query"}
                     /\ c.thread \in Threads /\ c.query \in Queries
                     /\ c.snapshot \in Nat /\ c.content \in Nat
BY DEF Call, Fresh, Quiet

(* A call that becomes a well-formed call leaves all calls well formed.      *)
LEMMA BecomeType ==
  ASSUME ServiceTypeOK, NEW r \in Readers, NEW c \in Call, Become(r, c)
  PROVE  ServiceTypeOK'
BY DEF ServiceTypeOK, Become

(* The watermark a lookup compares against, NULL read as 0, is a history id. *)
LEMMA FloorType ==
  ASSUME StoreTypeOK
  PROVE  Floor \in Nat
BY DEF StoreTypeOK, Floor, NoId

(* A step of one read that leaves the passes, the watermark and the mailbox  *)
(* alone keeps the invariant.                                                *)
LEMMA ReadMoves ==
  ASSUME Typed, NEW r \in Readers, NEW c \in Call, Become(r, c), StoreTypeOK',
         UNCHANGED <<log, horizon, watermark, sync, faults, reached>>,
         fetchedAt' \in [Threads -> Nat], missed' \in SUBSET Threads
  PROVE  Typed'
<1>1. ServiceTypeOK' BY BecomeType DEF Typed, TypeOK
<1>2. QED BY <1>1 DEF Typed, TypeOK, MailboxTypeOK, SyncTypeOK, WatermarkBehindMailbox

(* Every await of get_thread, get_thread_metadata and list_threads keeps the *)
(* invariant.                                                                *)
LEMMA ReadStepTyping ==
  ASSUME Typed, NEW r \in Readers, ReadStep(r)
  PROVE  Typed'
<1>0. /\ read[r] \in Call /\ StoreTypeOK /\ Floor \in Nat /\ Len(log) \in Nat
      /\ fetchedAt \in [Threads -> Nat] /\ missed \in SUBSET Threads
  BY FloorType DEF Typed, TypeOK, ServiceTypeOK, SyncTypeOK, MailboxTypeOK
<1>1. UNCHANGED storeVars => StoreTypeOK' BY <1>0 DEF StoreTypeOK
<1>2. \A ids \in SUBSET Messages : Hit(r, ids) \in Call
  BY <1>0 DEF Hit, Call
<1>3. ASSUME NEW t \in Threads PROVE Live(t) \in SUBSET Messages
  BY DEF Live, Cached, InThread
<1>4. Miss(r) \in Call BY <1>0, CallTyping DEF Miss
<1>5. ASSUME LookupThread(r) PROVE Typed'
  <2>1. PICK c \in Call : Become(r, c)
    BY <1>0, <1>2, <1>3, <1>4, <1>5, CallTyping DEF LookupThread
  <2>2. QED BY <1>0, <1>1, <1>5, <2>1, ReadMoves DEF LookupThread
<1>6. ASSUME LookupSummary(r) PROVE Typed'
  <2>1. PICK c \in Call : Become(r, c)
    BY <1>0, <1>2, <1>3, <1>4, <1>6, CallTyping DEF LookupSummary
  <2>2. QED BY <1>0, <1>1, <1>6, <2>1, ReadMoves DEF LookupSummary
<1>7. ASSUME ReadLabels(r) PROVE Typed'
  <2>1. PICK m \in read[r].todo :
          Become(r, [read[r] EXCEPT !.pc = IF read[r].todo = {m} THEN "served" ELSE "labels",
                                    !.todo = @ \ {m}, !.labels[m] = row[m].labels,
                                    !.clean = StillClean(r, m)])
    BY <1>7 DEF ReadLabels
  <2>2. m \in Messages BY <1>0, <2>1 DEF Call
  <2>3. row[m].labels \in SUBSET Labels BY <1>0, <2>2 DEF StoreTypeOK, Row
  <2>4. StillClean(r, m) \in BOOLEAN BY DEF StillClean
  <2>5. PICK c \in Call : Become(r, c) BY <1>0, <2>1, <2>2, <2>3, <2>4 DEF Call
  <2>6. QED BY <1>0, <1>1, <1>7, <2>5, ReadMoves DEF ReadLabels
<1>8. ASSUME LookupQuery(r) PROVE Typed'
  <2>1. memo[read[r].query].content \in Nat BY <1>0, CallTyping DEF StoreTypeOK, Memo
  <2>2. [read[r] EXCEPT !.pc = "served", !.content = memo[read[r].query].content,
                        !.floor = Floor] \in Call
    BY <1>0, <2>1 DEF Call
  <2>3. PICK c \in Call : Become(r, c) BY <1>0, <1>8, <2>2, CallTyping DEF LookupQuery
  <2>4. QED BY <1>0, <1>1, <1>8, <2>3, ReadMoves DEF LookupQuery
<1>9. ASSUME Snapshot(r) PROVE Typed'
  <2>1. [read[r] EXCEPT !.pc = "fetch", !.snapshot = Floor] \in Call BY <1>0 DEF Call
  <2>2. QED BY <1>0, <1>1, <1>9, <2>1, ReadMoves DEF Snapshot
<1>10. ASSUME Fetch(r) PROVE Typed'
  <2>1. [read[r] EXCEPT !.pc = "insert", !.content = Len(log)] \in Call BY <1>0 DEF Call
  <2>2. PICK c \in Call : Become(r, c) BY <1>0, <1>10, <2>1, CallTyping DEF Fetch
  <2>3. QED BY <1>0, <1>1, <1>10, <2>2, ReadMoves DEF Fetch
<1>11. ASSUME WriteThread(r) PROVE Typed'
  <2>1. /\ InsertThread(read[r].thread, read[r].content)
        /\ fetchedAt' \in [Threads -> Nat] /\ missed' \in SUBSET Threads
    BY <1>0, <1>11, CallTyping DEF WriteThread
  <2>2. StoreTypeOK' /\ UNCHANGED watermark
    BY <1>0, <2>1, CallTyping, StoreTyping DEF InsertThread
  <2>3. Quiet(read[r]) \in Call /\ Become(r, Quiet(read[r]))
    BY <1>0, <1>11, CallTyping DEF WriteThread, Return
  <2>4. QED BY <1>11, <2>1, <2>2, <2>3, ReadMoves DEF WriteThread
<1>12. ASSUME WriteSummary(r) PROVE Typed'
  <2>1. StoreTypeOK' /\ UNCHANGED watermark
    BY <1>0, <1>12, CallTyping, StoreTyping DEF WriteSummary, InsertSummary
  <2>2. Quiet(read[r]) \in Call /\ Become(r, Quiet(read[r]))
    BY <1>0, <1>12, CallTyping DEF WriteSummary, Return
  <2>3. QED BY <1>0, <1>12, <2>1, <2>2, ReadMoves DEF WriteSummary
<1>13. ASSUME WriteQuery(r) PROVE Typed'
  <2>1. StoreTypeOK' /\ UNCHANGED watermark
    BY <1>0, <1>13, CallTyping, StoreTyping DEF WriteQuery, InsertQuery
  <2>2. Quiet(read[r]) \in Call /\ Become(r, Quiet(read[r]))
    BY <1>0, <1>13, CallTyping DEF WriteQuery, Return
  <2>3. QED BY <1>0, <1>13, <2>1, <2>2, ReadMoves DEF WriteQuery
<1>14. QED
  BY <1>5, <1>6, <1>7, <1>8, <1>9, <1>10, <1>11, <1>12, <1>13, ReadStep(r) DEF ReadStep

-----------------------------------------------------------------------------
(* The whole service.                                                        *)

(* A freshly migrated cache in front of a mailbox of one message.            *)
LEMMA InitTyping == Init => Typed
<1>1. SUFFICES ASSUME Init PROVE Typed OBVIOUS
<1>2. PICK m \in Messages : log = <<Change("messagesAdded", m, {})>>
  BY <1>1 DEF Init, MailboxInit
<1>3. Change("messagesAdded", m, {}) \in Event BY DEF Change, Event
<1>4. MailboxTypeOK /\ Len(log) = 1 BY <1>1, <1>2, <1>3 DEF Init, MailboxInit, MailboxTypeOK
<1>5. StoreTypeOK BY <1>1 DEF Init, StoreInit, StoreTypeOK, NoRow, Row, NoMemo, Memo
<1>6. SyncTypeOK BY <1>1, PassTyping DEF Init, SyncInit, SyncTypeOK
<1>7. ServiceTypeOK
  <2>1. PICK t \in Threads, q \in Queries :
          read = [r \in Readers |-> Quiet(Fresh("thread", t, q))]
    BY <1>1 DEF Init, NoCalls
  <2>2. QED BY <2>1, CallTyping DEF ServiceTypeOK
<1>8. WatermarkBehindMailbox
  <2>1. \A p \in Tasks : Bounded(sync[p], Len(log))
    BY <1>1, <1>4, RestingBounded DEF Init, SyncInit
  <2>2. QED
    BY <1>1, <1>4, <2>1 DEF Init, StoreInit, NoId, WatermarkBehindMailbox, Bounded
<1>9. QED BY <1>4, <1>5, <1>6, <1>7, <1>8 DEF Typed, TypeOK

(* The inductive step: one case per disjunct of Next.                        *)
LEMMA StepTyping == Typed /\ [Next]_vars => Typed'
<1>1. SUFFICES ASSUME Typed, [Next]_vars PROVE Typed' OBVIOUS
<1>0. /\ MailboxTypeOK /\ StoreTypeOK /\ SyncTypeOK /\ ServiceTypeOK /\ Len(log) \in Nat
      /\ watermark <= Len(log)
  BY <1>1 DEF Typed, TypeOK, MailboxTypeOK, WatermarkBehindMailbox
<1>2. CASE Upstream
  <2>1. MailboxTypeOK' /\ Len(log) <= Len(log') BY <1>0, <1>2, MailboxGrows DEF Upstream
  <2>2. Len(log') \in Nat BY <2>1 DEF MailboxTypeOK
  <2>3. StoreTypeOK' /\ SyncTypeOK' /\ ServiceTypeOK'
    BY <1>0, <1>2 DEF Upstream, StoreTypeOK, SyncTypeOK, ServiceTypeOK
  <2>4. WatermarkBehindMailbox'
    <3>1. watermark \in Int /\ \A p \in Tasks :
            sync[p].latest \in Nat /\ sync[p].done \in Nat /\ sync[p].upto \in Nat
      BY <1>0 DEF StoreTypeOK, SyncTypeOK, Pass, NoId
    <3>2. QED BY <1>0, <1>1, <1>2, <2>1, <2>2, <3>1 DEF Upstream, Typed, WatermarkBehindMailbox
  <2>5. QED BY <2>1, <2>3, <2>4 DEF Typed, TypeOK
<1>3. CASE BackgroundTick
  <2>1. Goto(Background, [Resting EXCEPT !.pc = "start"])
    BY <1>3 DEF BackgroundTick, StartPass
  <2>2. StoreTypeOK' /\ ServiceTypeOK' BY <1>0, <1>3 DEF BackgroundTick, StoreTypeOK, ServiceTypeOK
  <2>3. QED
    BY <1>0, <1>1, <1>3, <2>1, <2>2, ServiceAssumption, PassTyping, RestingBounded, PassMoves
    DEF BackgroundTick, SyncTypeOK
<1>4. CASE Restart
  <2>1. StoreTypeOK' /\ MailboxTypeOK' /\ SyncTypeOK'
    <3>1. StoreTypeOK' BY <1>0, <1>4 DEF Restart, StoreTypeOK
    <3>2. MailboxTypeOK' BY <1>0, <1>4 DEF Restart, MailboxTypeOK
    <3>3. sync' \in [Tasks -> Pass] BY <1>4, PassTyping DEF Restart
    <3>4. faults' \in Nat BY <1>0, <1>4 DEF Restart, SyncTypeOK
    <3>5. SyncTypeOK' BY <1>0, <1>4, <3>3, <3>4 DEF Restart, SyncTypeOK
    <3>6. QED BY <3>1, <3>2, <3>5
  <2>2. ServiceTypeOK' BY <1>0, <1>4, CallTyping DEF Restart, ServiceTypeOK
  <2>3. \A p \in Tasks : Bounded(sync'[p], Len(log)) BY <1>0, <1>4, RestingBounded DEF Restart
  <2>4. QED BY <1>0, <1>4, <2>1, <2>2, <2>3 DEF Restart, Typed, TypeOK, WatermarkBehindMailbox, Bounded
<1>5. CASE Maintain
  <2>1. StoreTypeOK' /\ UNCHANGED watermark BY <1>0, <1>5, UpkeepTyping
  <2>2. QED
    BY <1>1, <1>5, <2>1
    DEF Maintain, Typed, TypeOK, MailboxTypeOK, SyncTypeOK, ServiceTypeOK, WatermarkBehindMailbox
<1>6. ASSUME NEW p \in Tasks, PassStep(p) PROVE Typed'
  BY <1>1, <1>6, SyncStepTyping
<1>7. ASSUME NEW p \in Tasks, AbandonPass(p), UNCHANGED read PROVE Typed'
  <2>1. Goto(p, Resting) /\ faults' \in Nat BY <1>0, <1>7 DEF AbandonPass, Finish, SyncTypeOK
  <2>2. StoreTypeOK' /\ ServiceTypeOK' BY <1>0, <1>7 DEF AbandonPass, StoreTypeOK, ServiceTypeOK
  <2>3. QED
    BY <1>0, <1>1, <1>7, <2>1, <2>2, PassTyping, RestingBounded, PassMoves
    DEF AbandonPass, SyncTypeOK
<1>8. ASSUME NEW r \in Readers, BeginRead(r) PROVE Typed'
  <2>1. PICK op \in Reads, t \in Threads, q \in Queries : Become(r, Fresh(op, t, q))
    BY <1>8 DEF BeginRead
  <2>2. Fresh(op, t, q) \in Call BY CallTyping, ServiceAssumption
  <2>3. CASE SyncOnRead
    <3>1. Goto(r, [Resting EXCEPT !.pc = "start"]) BY <1>8, <2>3 DEF BeginRead, StartPass
    <3>2. StoreTypeOK' /\ ServiceTypeOK'
      BY <1>0, <1>8, <2>1, <2>2, BecomeType DEF BeginRead, StoreTypeOK
    <3>3. QED
      BY <1>0, <1>1, <1>8, <3>1, <3>2, ServiceAssumption, PassTyping, RestingBounded, PassMoves
      DEF BeginRead, SyncTypeOK
  <2>4. CASE ~SyncOnRead
    <3>1. StoreTypeOK' BY <1>0, <1>8 DEF BeginRead, StoreTypeOK
    <3>2. QED BY <1>0, <1>1, <1>8, <2>1, <2>2, <2>4, <3>1, ReadMoves DEF BeginRead, SyncTypeOK
  <2>5. QED BY <2>3, <2>4
<1>9. ASSUME NEW r \in Readers, ReadStep(r) PROVE Typed'
  BY <1>1, <1>9, ReadStepTyping
<1>10. ASSUME NEW r \in Readers, DropCall(r) PROVE Typed'
  <2>1. Goto(r, Resting) /\ faults' \in Nat BY <1>0, <1>10 DEF DropCall, Finish, SyncTypeOK
  <2>2. Quiet(read[r]) \in Call /\ Become(r, Quiet(read[r]))
    BY <1>0, <1>10, CallTyping DEF DropCall, Return, ServiceTypeOK
  <2>3. StoreTypeOK' /\ ServiceTypeOK' BY <1>0, <1>10, <2>2, BecomeType DEF DropCall, StoreTypeOK
  <2>4. QED
    BY <1>0, <1>1, <1>10, <2>1, <2>3, ServiceAssumption, PassTyping, RestingBounded, PassMoves
    DEF DropCall, SyncTypeOK
<1>11. CASE UNCHANGED vars
  BY <1>1, <1>11
  DEF vars, Typed, TypeOK, MailboxTypeOK, StoreTypeOK, SyncTypeOK, ServiceTypeOK, WatermarkBehindMailbox
<1>12. QED BY <1>1, <1>2, <1>3, <1>4, <1>5, <1>6, <1>7, <1>8, <1>9, <1>10, <1>11 DEF Next

(* Tables, passes and calls stay well formed, and neither the watermark nor  *)
(* anything a pass in flight is about to write runs ahead of the mailbox:    *)
(* history.list from the watermark covers every change the cache has not     *)
(* seen, whatever overlaps, fails, is evicted or restarts.                   *)
THEOREM Typing == Spec => [](TypeOK /\ WatermarkBehindMailbox)
<1>1. Spec => []Typed BY InitTyping, StepTyping, PTL DEF Spec
<1>2. QED BY <1>1 DEF Typed
-----------------------------------------------------------------------------
(* Memoised queries.                                                         *)

(* QueryHitFresh is not inductive: a row is as recent as its content, but    *)
(* what admits it is its snapshot.  The snapshot was read before the fetch,  *)
(* so it is at most the fetched content at every point of a list_threads     *)
(* call, and therefore of the row.                                           *)
QueryInv ==
  /\ \A q \in Queries : memo[q].held => memo[q].snapshot <= memo[q].content
  /\ \A r \in Readers :
       /\ At(r, "fetch", "query") => read[r].snapshot <= Len(log)
       /\ At(r, "insert", "query") => read[r].snapshot <= read[r].content
       /\ At(r, "served", "query") => read[r].floor <= read[r].content
       /\ ~At(r, "labels", "query")

(* QueryInv gives what list_threads promises.                                *)
LEMMA QueryInvIsFresh == Typed /\ QueryInv => QueryHitFresh
<1>1. SUFFICES ASSUME Typed, QueryInv PROVE QueryHitFresh OBVIOUS
<1>2. Floor \in Nat /\ \A q \in Queries : memo[q] \in Memo
  BY <1>1, FloorType DEF Typed, TypeOK, StoreTypeOK
<1>3. ASSUME NEW q \in Queries, QueryHit(q) PROVE memo[q].content >= Floor
  BY <1>1, <1>2, <1>3 DEF QueryInv, QueryHit, Memo
<1>4. ASSUME NEW r \in Readers, At(r, "served", "query") PROVE read[r].content >= read[r].floor
  <2>1. read[r].content \in Nat /\ read[r].floor \in Nat
    BY <1>1 DEF Typed, TypeOK, ServiceTypeOK, Call
  <2>2. QED BY <1>1, <1>4, <2>1 DEF QueryInv
<1>5. QED BY <1>3, <1>4 DEF QueryHitFresh

(* Memoised rows only ever disappear, except when list_threads writes one.   *)
MemoShrinks == \A q \in Queries : memo'[q] = memo[q] \/ ~memo'[q].held

(* A tool call that moves elsewhere keeps QueryInv if where it moves does.   *)
LEMMA QueryInvStep ==
  ASSUME Typed, QueryInv, MemoShrinks, Len(log) <= Len(log'), Len(log') \in Nat,
         \A r \in Readers :
           \/ read'[r] = read[r]
           \/ read'[r].pc \notin {"fetch", "insert", "served", "labels"}
           \/ read'[r].op # "query"
  PROVE  QueryInv'
<1>1. \A q \in Queries : memo'[q].held => memo'[q].snapshot <= memo'[q].content
  BY DEF QueryInv, MemoShrinks
<1>2. ASSUME NEW r \in Readers
      PROVE  /\ At(r, "fetch", "query")' => read'[r].snapshot <= Len(log')
             /\ At(r, "insert", "query")' => read'[r].snapshot <= read'[r].content
             /\ At(r, "served", "query")' => read'[r].floor <= read'[r].content
             /\ ~At(r, "labels", "query")'
  <2>1. read[r].snapshot \in Nat /\ Len(log) \in Nat
    BY DEF Typed, TypeOK, ServiceTypeOK, Call, MailboxTypeOK
  <2>2. QED BY <2>1 DEF QueryInv, At
<1>3. QED BY <1>1, <1>2 DEF QueryInv

(* Only the call that steps changes.                                         *)
LEMMA OtherCallsStay ==
  ASSUME Typed, NEW r \in Readers, NEW c, Become(r, c)
  PROVE  read'[r] = c /\ \A u \in Readers \ {r} : read'[u] = read[u]
BY DEF Typed, TypeOK, ServiceTypeOK, Become

(* Every await of a read keeps QueryInv; list_threads' four are the ones     *)
(* that could break it.                                                      *)
LEMMA QueryReadSteps ==
  ASSUME Typed, QueryInv, NEW r \in Readers, ReadStep(r)
  PROVE  QueryInv'
<1>0. /\ read[r] \in Call /\ Floor \in Nat /\ Len(log) \in Nat /\ watermark <= Len(log)
      /\ \A q \in Queries : memo[q] \in Memo
      /\ memo \in [Queries -> Memo]
      /\ watermark \in Nat \cup {NoId}
  BY FloorType DEF Typed, TypeOK, ServiceTypeOK, StoreTypeOK, MailboxTypeOK, WatermarkBehindMailbox
<1>1. UNCHANGED <<log, memo>> => MemoShrinks /\ Len(log) <= Len(log') /\ Len(log') \in Nat
  BY <1>0 DEF MemoShrinks
<1>2. ASSUME LookupThread(r) PROVE QueryInv'
  <2> DEFINE t == read[r].thread
             c == IF ThreadHit(t) THEN Hit(r, Live(t)) ELSE Miss(r)
  <2>1. Become(r, c) /\ read[r].op = "thread" BY <1>2 DEF LookupThread, At
  <2>2. c.op = read[r].op BY <1>0 DEF Hit, Miss, Call
  <2> HIDE DEF c
  <2>3. QED BY <1>1, <1>2, <2>1, <2>2, OtherCallsStay, QueryInvStep DEF LookupThread
<1>3. ASSUME LookupSummary(r) PROVE QueryInv'
  <2> DEFINE t == read[r].thread
             c == IF SummaryHit(t) THEN Hit(r, Live(t)) ELSE Miss(r)
  <2>1. Become(r, c) /\ read[r].op = "summary" BY <1>3 DEF LookupSummary, At
  <2>2. c.op = read[r].op BY <1>0 DEF Hit, Miss, Call
  <2> HIDE DEF c
  <2>3. QED BY <1>1, <1>3, <2>1, <2>2, OtherCallsStay, QueryInvStep DEF LookupSummary
<1>4. ASSUME ReadLabels(r) PROVE QueryInv'
  <2>1. PICK m \in read[r].todo :
          Become(r, [read[r] EXCEPT !.pc = IF read[r].todo = {m} THEN "served" ELSE "labels",
                                    !.todo = @ \ {m}, !.labels[m] = row[m].labels,
                                    !.clean = StillClean(r, m)])
    BY <1>4 DEF ReadLabels
  <2> DEFINE c == [read[r] EXCEPT !.pc = IF read[r].todo = {m} THEN "served" ELSE "labels",
                                  !.todo = @ \ {m}, !.labels[m] = row[m].labels,
                                  !.clean = StillClean(r, m)]
  <2>4. Become(r, c) /\ c.op = read[r].op BY <1>0, <2>1 DEF Call
  <2> HIDE DEF c
  <2>2. read[r].op # "query" BY <1>4 DEF ReadLabels, QueryInv, At
  <2>3. QED BY <1>1, <1>4, <2>2, <2>4, OtherCallsStay, QueryInvStep DEF ReadLabels
<1>5. ASSUME LookupQuery(r) PROVE QueryInv'
  <2> DEFINE q == read[r].query
             hit == [read[r] EXCEPT !.pc = "served", !.content = memo[q].content, !.floor = Floor]
             miss == [read[r] EXCEPT !.pc = "snapshot"]
  <2>1. UNCHANGED <<log, memo>> BY <1>5 DEF LookupQuery
  <2>2. CASE QueryHit(q)
    <3>1. Become(r, hit) BY <1>5, <2>2 DEF LookupQuery
    <3>2. q \in Queries BY <1>0, CallTyping
    <3>3. hit.pc = "served" /\ hit.floor = Floor /\ hit.content = memo[q].content
      BY <1>0 DEF Call
    <3>4. Floor <= memo[q].content BY <1>0, <2>2, <3>2 DEF QueryInv, QueryHit, Memo
    <3> HIDE DEF hit
    <3>5. read'[r] = hit /\ \A u \in Readers \ {r} : read'[u] = read[u] BY <3>1, OtherCallsStay
    <3>6. QED BY <2>1, <3>3, <3>4, <3>5 DEF QueryInv, At
  <2>3. CASE ~QueryHit(q)
    <3>1. Become(r, miss) BY <1>5, <2>3 DEF LookupQuery
    <3>2. miss.pc = "snapshot" BY <1>0 DEF Call
    <3>3. QED BY <1>1, <2>1, <3>1, <3>2, OtherCallsStay, QueryInvStep
  <2>4. QED BY <2>2, <2>3
<1>6. ASSUME Snapshot(r) PROVE QueryInv'
  <2> DEFINE c == [read[r] EXCEPT !.pc = "fetch", !.snapshot = Floor]
  <2>1. UNCHANGED <<log, memo>> /\ Become(r, c) BY <1>6 DEF Snapshot
  <2>2. c.pc = "fetch" /\ c.snapshot = Floor BY <1>0 DEF Call
  <2>3. Floor <= Len(log) BY <1>0 DEF Floor
  <2> HIDE DEF c
  <2>4. read'[r] = c /\ \A u \in Readers \ {r} : read'[u] = read[u] BY <2>1, OtherCallsStay
  <2>5. QED BY <2>1, <2>2, <2>3, <2>4 DEF QueryInv, At
<1>7. ASSUME Fetch(r) PROVE QueryInv'
  <2> DEFINE c == [read[r] EXCEPT !.pc = "insert", !.content = Len(log)]
  <2>1. UNCHANGED <<log, memo>> /\ read[r].pc = "fetch" BY <1>7 DEF Fetch
  <2>2. CASE Become(r, Quiet(read[r]))
    <3>1. Quiet(read[r]).pc = "idle" BY DEF Quiet, Fresh
    <3>2. QED BY <1>1, <2>1, <2>2, <3>1, OtherCallsStay, QueryInvStep
  <2>3. CASE Become(r, c)
    <3>1. c.pc = "insert" /\ c.op = read[r].op /\ c.snapshot = read[r].snapshot
          /\ c.content = Len(log)
      BY <1>0 DEF Call
    <3> HIDE DEF c
    <3>2. read'[r] = c /\ \A u \in Readers \ {r} : read'[u] = read[u] BY <2>3, OtherCallsStay
    <3>3. QED BY <2>1, <3>1, <3>2 DEF QueryInv, At
  <2>4. QED BY <1>7, <2>2, <2>3 DEF Fetch
<1>8. Quiet(read[r]).pc = "idle" BY DEF Quiet, Fresh
<1>9. ASSUME WriteThread(r) PROVE QueryInv'
  BY <1>1, <1>8, <1>9, OtherCallsStay, QueryInvStep DEF WriteThread, Return, InsertThread
<1>10. ASSUME WriteSummary(r) PROVE QueryInv'
  BY <1>1, <1>8, <1>10, OtherCallsStay, QueryInvStep DEF WriteSummary, Return, InsertSummary
<1>11. ASSUME WriteQuery(r) PROVE QueryInv'
  <2>1. /\ InsertQuery(read[r].query, read[r].snapshot, read[r].content)
        /\ Become(r, Quiet(read[r])) /\ UNCHANGED log
        /\ read[r].snapshot <= read[r].content
    BY <1>11 DEF WriteQuery, Return, QueryInv
  <2>2. \A q \in Queries : memo'[q].held => memo'[q].snapshot <= memo'[q].content
    BY <1>0, <2>1, CallTyping DEF InsertQuery, QueryInv
  <2>3. read'[r] = Quiet(read[r]) /\ \A u \in Readers \ {r} : read'[u] = read[u]
    BY <2>1, OtherCallsStay
  <2>4. QED BY <1>8, <2>1, <2>2, <2>3 DEF QueryInv, At
<1>12. QED
  BY <1>2, <1>3, <1>4, <1>5, <1>6, <1>7, <1>9, <1>10, <1>11 DEF ReadStep

(* No query is memoised and no call is running at the start.                 *)
LEMMA QueryInvInit == Init => QueryInv
<1>1. SUFFICES ASSUME Init PROVE QueryInv OBVIOUS
<1>2. PICK t \in Threads, q \in Queries : read = [r \in Readers |-> Quiet(Fresh("thread", t, q))]
  BY <1>1 DEF Init, NoCalls
<1>3. \A r \in Readers : read[r].pc = "idle" BY <1>2 DEF Quiet, Fresh
<1>4. \A q2 \in Queries : ~memo[q2].held BY <1>1 DEF Init, StoreInit, NoMemo
<1>5. QED BY <1>3, <1>4 DEF QueryInv, At

(* The inductive step of QueryInv: nothing but list_threads writes a memo,   *)
(* and the mailbox history only grows.                                       *)
LEMMA QueryInvNext == Typed /\ QueryInv /\ [Next]_vars => QueryInv'
<1>1. SUFFICES ASSUME Typed, QueryInv, [Next]_vars PROVE QueryInv' OBVIOUS
<1>0. MailboxTypeOK /\ Len(log) \in Nat /\ ServiceTypeOK /\ memo \in [Queries -> Memo]
  BY <1>1 DEF Typed, TypeOK, MailboxTypeOK, StoreTypeOK
<1>2. CASE Upstream
  <2>1. Len(log) <= Len(log') /\ Len(log') \in Nat
    BY <1>0, <1>2, MailboxGrows DEF Upstream, MailboxTypeOK
  <2>2. MemoShrinks /\ UNCHANGED read BY <1>2 DEF Upstream, MemoShrinks
  <2>3. QED BY <1>1, <2>1, <2>2, QueryInvStep
<1>3. CASE BackgroundTick BY <1>0, <1>1, <1>3, QueryInvStep DEF BackgroundTick, MemoShrinks
<1>4. CASE Restart
  <2>1. \A r \in Readers : read'[r].pc = "idle" BY <1>4 DEF Restart, Quiet, Fresh
  <2>2. QED BY <1>0, <1>1, <1>4, <2>1, QueryInvStep DEF Restart, MemoShrinks
<1>5. CASE Maintain
  <2>1. ~NoMemo.held BY DEF NoMemo
  <2>2. MemoShrinks
    BY <1>0, <1>5, <2>1
    DEF Maintain, MemoShrinks, PurgeOldBodies, EvictQueries, EvictRows, ExpireQuery,
        InvalidateAllQueries, InvalidateAllLabels
  <2>3. QED BY <1>0, <1>1, <1>5, <2>2, QueryInvStep DEF Maintain
<1>6. ASSUME NEW p \in Tasks, PassStep(p) PROVE QueryInv'
  <2>1. ~NoMemo.held BY DEF NoMemo
  <2>2. MemoShrinks /\ UNCHANGED <<log, read>>
    BY <1>6, <2>1
    DEF PassStep, SyncStep, ReadWatermark, GetProfile, SeedWatermark, ListHistory, ApplyRecord,
        InvalidateQueries, AdvanceWatermark, Reseed, SetWatermark, ReseedAccount,
        ApplyHistoryRecord, InvalidateAllQueries, MemoShrinks
  <2>3. QED BY <1>0, <1>1, <2>2, QueryInvStep
<1>7. ASSUME NEW p \in Tasks, AbandonPass(p), UNCHANGED read PROVE QueryInv'
  BY <1>0, <1>1, <1>7, QueryInvStep DEF AbandonPass, MemoShrinks
<1>8. ASSUME NEW r \in Readers, BeginRead(r) PROVE QueryInv'
  <2>1. PICK c : Become(r, c) /\ c.pc = "lookup" BY <1>8 DEF BeginRead, Fresh
  <2>2. QED BY <1>0, <1>1, <1>8, <2>1, OtherCallsStay, QueryInvStep DEF BeginRead, MemoShrinks
<1>9. ASSUME NEW r \in Readers, ReadStep(r) PROVE QueryInv'
  BY <1>1, <1>9, QueryReadSteps
<1>10. ASSUME NEW r \in Readers, DropCall(r) PROVE QueryInv'
  <2>1. PICK c : Become(r, c) /\ c.pc = "idle" BY <1>10 DEF DropCall, Return, Quiet, Fresh
  <2>2. QED BY <1>0, <1>1, <1>10, <2>1, OtherCallsStay, QueryInvStep DEF DropCall, MemoShrinks
<1>11. CASE UNCHANGED vars BY <1>1, <1>11 DEF vars, QueryInv, At
<1>12. QED BY <1>1, <1>2, <1>3, <1>4, <1>5, <1>6, <1>7, <1>8, <1>9, <1>10, <1>11 DEF Next

(* ADR-0009 "Race-prevention": whatever passes, reads and upkeep overlap, a  *)
(* memoised threads.list answer is served only if it is no older than the    *)
(* watermark it is served under.                                             *)
THEOREM QueryFreshness == Spec => []QueryHitFresh
<1>1. Typed /\ QueryInv /\ [Next]_vars => (Typed /\ QueryInv)' BY StepTyping, QueryInvNext
<1>2. Spec => [](Typed /\ QueryInv) BY <1>1, InitTyping, QueryInvInit, PTL DEF Spec
<1>3. QED BY <1>2, QueryInvIsFresh, PTL
-----------------------------------------------------------------------------
(* Pages of history.                                                         *)

(* n * PageSize records at least lie behind a pass that reads page n + 1,    *)
(* and a pass that leaves the loop has applied everything it listed: all     *)
(* there was, unless it stopped at the page cap.                             *)
Paged(s) ==
  /\ s.pc = "list" => s.pages * PageSize <= s.done
  /\ s.pc \in {"apply", "invalidate", "advance"} =>
       IF s.more THEN s.upto < s.latest /\ s.pages * PageSize <= s.upto ELSE s.latest <= s.upto
  /\ s.pc \in {"invalidate", "advance"} => s.done = s.upto /\ (s.more => s.pages >= MaxPages)

PageInv == \A p \in Tasks : Paged(sync[p])

(* Leaving a page: to the next one if there is one and the cap allows it.    *)
LEMMA AfterPagePaged ==
  ASSUME NEW s \in Pass, s.done = s.upto,
         IF s.more THEN s.upto < s.latest /\ s.pages * PageSize <= s.upto ELSE s.latest <= s.upto
  PROVE  Paged(AfterPage(s))
<1> DEFINE n == s.pages * PageSize
<1>1. CASE s.more /\ s.pages < MaxPages
  <2>1. AfterPage(s) = [s EXCEPT !.pc = "list"] BY <1>1 DEF AfterPage
  <2>2. /\ AfterPage(s).pc = "list" /\ AfterPage(s).pages = s.pages /\ AfterPage(s).done = s.upto
    BY <2>1 DEF Pass
  <2> QED BY <1>1, <2>2 DEF Paged
<1>2. ASSUME ~(s.more /\ s.pages < MaxPages), NEW pc \in {"invalidate", "advance"}
      PROVE  Paged([s EXCEPT !.pc = pc])
  <2> DEFINE r == [s EXCEPT !.pc = pc]
  <2>1. /\ r.pc = pc /\ r.more = s.more /\ r.upto = s.upto /\ r.latest = s.latest
        /\ r.done = s.done /\ r.pages = s.pages
    BY DEF Pass
  <2>2. s.more => s.pages >= MaxPages BY <1>2, SyncAssumption DEF Pass
  <2> HIDE DEF r
  <2> QED BY <1>2, <2>1, <2>2 DEF Paged
<1>3. Paged(Resting) BY DEF Paged, Resting
<1> QED BY <1>1, <1>2, <1>3 DEF AfterPage

(* One page more: PageSize records further on, or the last one.              *)
LEMMA ListedPaged ==
  ASSUME Typed, NEW p \in Tasks, sync[p].pc = "list", Paged(sync[p])
  PROVE  Paged(Listed(sync[p]))
<1> DEFINE s == sync[p]
           upto == IF s.done + PageSize < Len(log) THEN s.done + PageSize ELSE Len(log)
           page == [s EXCEPT !.upto = upto, !.latest = Len(log), !.pages = @ + 1,
                             !.more = (upto < Len(log)), !.mutated = @ \/ upto > s.done]
<1>0. /\ s \in Pass /\ Len(log) \in Nat /\ s.done <= Len(log) /\ s.done \in Nat /\ s.pages \in Nat
      /\ PageSize \in Nat \ {0}
  BY SyncAssumption DEF Typed, TypeOK, SyncTypeOK, MailboxTypeOK, WatermarkBehindMailbox, Pass
<1>1. upto \in Nat /\ upto <= Len(log) /\ (upto < Len(log) => upto = s.done + PageSize)
      /\ (~(upto > s.done) => upto = s.done)
  BY <1>0
<1>2. page \in Pass
  <2>1. (upto < Len(log)) \in BOOLEAN /\ (s.mutated \/ upto > s.done) \in BOOLEAN OBVIOUS
  <2>2. s.pages + 1 \in Nat BY <1>0
  <2> HIDE DEF upto
  <2> QED BY <1>0, <1>1, <2>1, <2>2 DEF Pass
<1>3. /\ page.latest = Len(log) /\ page.upto = upto /\ page.done = s.done
      /\ page.pages = s.pages + 1 /\ page.more = (upto < Len(log))
  <2> HIDE DEF upto
  <2> QED BY <1>0 DEF Pass
<1>4. IF page.more THEN page.upto < page.latest /\ page.pages * PageSize <= page.upto
      ELSE page.latest <= page.upto
  <2>1. CASE upto < Len(log)
    <3>1. s.pages * PageSize <= s.done BY DEF Paged
    <3>2. (s.pages + 1) * PageSize = s.pages * PageSize + PageSize BY <1>0
    <3>3. s.pages * PageSize \in Nat BY <1>0
    <3>4. page.pages * PageSize <= upto
      <4> HIDE DEF page, upto
      <4> QED BY <1>0, <1>1, <1>3, <2>1, <3>1, <3>2, <3>3
    <3> HIDE DEF page, upto
    <3> QED BY <1>3, <2>1, <3>4
  <2>2. CASE ~(upto < Len(log))
    <3> HIDE DEF page, upto
    <3>1. ~page.more /\ page.latest = Len(log) /\ page.upto = upto BY <1>3, <2>2
    <3>2. Len(log) <= upto BY <1>0, <1>1, <2>2
    <3> QED BY <3>1, <3>2
  <2> QED BY <2>1, <2>2
<1>5. Listed(s) = IF upto > s.done THEN [page EXCEPT !.pc = "apply"] ELSE AfterPage(page)
  BY DEF Listed
<1> HIDE DEF page, upto
<1>6. CASE upto > s.done
  <2> DEFINE r == [page EXCEPT !.pc = "apply"]
  <2>1. r.pc = "apply" /\ r.more = page.more /\ r.upto = page.upto /\ r.latest = page.latest
        /\ r.pages = page.pages
    BY <1>2 DEF Pass
  <2>2. Listed(s) = r BY <1>5, <1>6
  <2> HIDE DEF r
  <2> QED BY <1>4, <2>1, <2>2 DEF Paged
<1>7. CASE ~(upto > s.done)
  <2>1. page.done = page.upto BY <1>1, <1>3, <1>7
  <2> QED BY <1>2, <1>4, <1>5, <1>7, <2>1, AfterPagePaged
<1> QED BY <1>6, <1>7

(* Only one pass moves, and to where it moves is well paged.                 *)
LEMMA PageInvStep ==
  ASSUME Typed, PageInv, NEW p \in Tasks, NEW s, Goto(p, s), Paged(s)
  PROVE  PageInv'
<1>1. ASSUME NEW d \in Tasks PROVE Paged(sync'[d])
  <2>1. CASE d = p BY <2>1 DEF Goto, Typed, TypeOK, SyncTypeOK
  <2>2. CASE d # p
    <3>1. sync'[d] = sync[d] BY <2>2 DEF Goto, Typed, TypeOK, SyncTypeOK
    <3> QED BY <3>1 DEF PageInv
  <2> QED BY <2>1, <2>2
<1> QED BY <1>1 DEF PageInv

LEMMA StartsPaged ==
  /\ Paged(Resting) /\ Paged([Resting EXCEPT !.pc = "start"]) /\ Paged([Resting EXCEPT !.pc = "profile"])
BY DEF Paged, Resting

(* Every await of sync_account keeps the account of pages.                   *)
LEMMA SyncStepPaged ==
  ASSUME Typed, PageInv, NEW p \in Tasks, SyncStep(p)
  PROVE  PageInv'
<1>0. sync[p] \in Pass /\ Paged(sync[p]) /\ Len(log) \in Nat
      /\ watermark \in Nat \cup {NoId} /\ PageSize \in Nat \ {0}
  BY SyncAssumption DEF Typed, TypeOK, SyncTypeOK, StoreTypeOK, MailboxTypeOK, PageInv
<1>1. CASE ReadWatermark(p)
  <2>1. CASE watermark = NoId BY <1>1, <2>1, StartsPaged, PageInvStep DEF ReadWatermark
  <2>2. CASE watermark # NoId
    <3> DEFINE s == [Resting EXCEPT !.pc = "list", !.start = watermark,
                                    !.done = watermark, !.latest = watermark]
    <3>1. s.pc = "list" /\ s.pages = 0 /\ s.done = watermark BY DEF Resting
    <3>2. Goto(p, s) BY <1>1, <2>2 DEF ReadWatermark
    <3> HIDE DEF s
    <3>3. 0 * PageSize = 0 /\ watermark \in Nat BY <1>0, <2>2
    <3>4. Paged(s) BY <3>1, <3>3 DEF Paged
    <3> QED BY <3>2, <3>4, PageInvStep
  <2> QED BY <2>1, <2>2
<1>2. CASE GetProfile(p)
  <2> DEFINE s == [Resting EXCEPT !.latest = Len(log),
                      !.pc = IF sync[p].pc = "profile" THEN "seed" ELSE "reseed"]
  <2>1. s.pc \in {"seed", "reseed"} BY DEF Resting
  <2>2. Goto(p, s) BY <1>2 DEF GetProfile
  <2> HIDE DEF s
  <2> QED BY <2>1, <2>2, PageInvStep DEF Paged
<1>3. CASE ListHistory(p)
  <2>1. CASE sync[p].start < horizon
    <3> DEFINE s == [sync[p] EXCEPT !.pc = "reprofile"]
    <3>1. s.pc = "reprofile" BY <1>0 DEF Pass
    <3>2. Goto(p, s) BY <1>3, <2>1 DEF ListHistory
    <3> HIDE DEF s
    <3> QED BY <3>1, <3>2, PageInvStep DEF Paged
  <2>2. CASE ~(sync[p].start < horizon)
    <3>1. Goto(p, Listed(sync[p])) /\ sync[p].pc = "list" BY <1>3, <2>2 DEF ListHistory
    <3> QED BY <1>0, <3>1, ListedPaged, PageInvStep
  <2> QED BY <2>1, <2>2
<1>4. CASE ApplyRecord(p)
  <2> DEFINE s == [sync[p] EXCEPT !.done = @ + 1]
             to == IF s.done < s.upto THEN s ELSE AfterPage(s)
  <2>1. sync[p].pc = "apply" /\ Goto(p, to) BY <1>4 DEF ApplyRecord
  <2>2. sync[p].done < sync[p].upto
    BY <2>1 DEF Typed, WatermarkBehindMailbox
  <2>3. /\ s \in Pass /\ s.pc = "apply" /\ s.done = sync[p].done + 1 /\ s.upto = sync[p].upto
        /\ s.latest = sync[p].latest /\ s.more = sync[p].more /\ s.pages = sync[p].pages
    BY <1>0, <2>1 DEF Pass
  <2> HIDE DEF s
  <2>4. IF s.more THEN s.upto < s.latest /\ s.pages * PageSize <= s.upto ELSE s.latest <= s.upto
    BY <1>0, <2>1, <2>3 DEF Paged
  <2>5. CASE s.done < s.upto BY <2>1, <2>3, <2>4, <2>5, PageInvStep DEF Paged
  <2>6. CASE ~(s.done < s.upto)
    <3>1. s.done = s.upto
      <4>1. sync[p].done \in Nat /\ sync[p].upto \in Nat BY <1>0 DEF Pass
      <4> QED BY <2>2, <2>3, <2>6, <4>1
    <3>2. Paged(AfterPage(s)) BY <2>3, <2>4, <3>1, AfterPagePaged
    <3> QED BY <2>1, <2>6, <3>2, PageInvStep
  <2> QED BY <2>5, <2>6
<1>5. CASE InvalidateQueries(p)
  <2> DEFINE s == [sync[p] EXCEPT !.pc = "advance"]
  <2>1. /\ s.pc = "advance" /\ s.done = sync[p].done /\ s.upto = sync[p].upto
        /\ s.latest = sync[p].latest /\ s.more = sync[p].more /\ s.pages = sync[p].pages
    BY <1>0 DEF Pass
  <2>2. Goto(p, s) \/ Goto(p, Resting) BY <1>5 DEF InvalidateQueries
  <2> HIDE DEF s
  <2>3. Paged(s) BY <1>0, <1>5, <2>1 DEF Paged, InvalidateQueries
  <2> QED BY <2>2, <2>3, StartsPaged, PageInvStep
<1>6. CASE SeedWatermark(p) \/ AdvanceWatermark(p) \/ Reseed(p)
  BY <1>6, StartsPaged, PageInvStep DEF SeedWatermark, AdvanceWatermark, Reseed, Finish
<1> QED BY <1>1, <1>2, <1>3, <1>4, <1>5, <1>6 DEF SyncStep

(* What else happens to a pass: it begins, it is dropped, or all of them are. *)
LEMMA PassesBeginAndEnd ==
  ASSUME Typed, [Next]_vars, ~(\E p \in Tasks : SyncStep(p))
  PROVE  \/ UNCHANGED sync
         \/ sync' = [p \in Tasks |-> Resting]
         \/ \E p \in Tasks : Goto(p, Resting)
         \/ \E p \in Tasks : /\ Goto(p, [Resting EXCEPT !.pc = "start"])
                             /\ p = Background \/ SyncOnRead
<1>1. CASE Upstream \/ Maintain \/ UNCHANGED vars BY <1>1 DEF Upstream, Maintain, vars
<1>2. CASE BackgroundTick BY <1>2, ServiceAssumption DEF BackgroundTick, StartPass
<1>3. CASE Restart BY <1>3 DEF Restart
<1>4. ASSUME NEW p \in Tasks, AbandonPass(p) PROVE Goto(p, Resting) BY <1>4 DEF AbandonPass, Finish
<1>5. ASSUME NEW r \in Readers, ReadStep(r) PROVE UNCHANGED sync
  BY <1>5 DEF ReadStep, LookupThread, LookupSummary, ReadLabels, LookupQuery, Snapshot, Fetch,
     WriteThread, WriteSummary, WriteQuery
<1>6. ASSUME NEW r \in Readers, BeginRead(r)
      PROVE  UNCHANGED sync \/ (SyncOnRead /\ Goto(r, [Resting EXCEPT !.pc = "start"]))
  BY <1>6 DEF BeginRead, StartPass
<1>7. ASSUME NEW r \in Readers, DropCall(r) PROVE Goto(r, Resting) BY <1>7 DEF DropCall, Finish
<1> QED
  BY <1>1, <1>2, <1>3, <1>4, <1>5, <1>6, <1>7, ServiceAssumption DEF Next, PassStep

LEMMA PageInvNext == Typed /\ PageInv /\ [Next]_vars => PageInv'
<1> SUFFICES ASSUME Typed, PageInv, [Next]_vars PROVE PageInv' OBVIOUS
<1>1. CASE \E p \in Tasks : SyncStep(p) BY <1>1, SyncStepPaged
<1>2. CASE UNCHANGED sync BY <1>2 DEF PageInv, Paged
<1>3. CASE sync' = [p \in Tasks |-> Resting]
  <2>1. \A p \in Tasks : Paged(sync'[p]) BY <1>3, StartsPaged
  <2> QED BY <2>1 DEF PageInv
<1>4. CASE \E p \in Tasks : Goto(p, Resting) \/ Goto(p, [Resting EXCEPT !.pc = "start"])
  BY <1>4, StartsPaged, PageInvStep
<1> QED BY <1>1, <1>2, <1>3, <1>4, PassesBeginAndEnd

LEMMA PageInvInit == Init => PageInv
BY StartsPaged DEF Init, SyncInit, PageInv

(* A pass whose advance goes through has applied every record up to the new  *)
(* watermark, or it stopped at MAX_HISTORY_PAGES_PER_CALL.                   *)
LEMMA AdvancesHaveApplied ==
  ASSUME Typed, PageInv, [Next]_vars, NEW p \in Tasks,
         sync[p].pc = "advance", watermark' # watermark, sync'[p] # sync[p]
  PROVE  /\ watermark' = sync[p].latest
         /\ watermark' <= sync[p].done
            \/ (/\ sync[p].more /\ sync[p].pages >= MaxPages
                /\ sync[p].pages * PageSize < sync[p].latest)
<1>1. sync[p] \in Pass /\ Paged(sync[p]) /\ sync \in [Tasks -> Pass] /\ PageSize \in Nat
  BY SyncAssumption DEF Typed, TypeOK, SyncTypeOK, PageInv
<1>2. PICK d \in Tasks : SyncStep(d)
  <2>1. SUFFICES ASSUME ~(\E d \in Tasks : SyncStep(d)) PROVE FALSE OBVIOUS
  <2>2. CASE Maintain BY <2>2, UpkeepTyping DEF Typed, TypeOK
  <2>3. ASSUME NEW r \in Readers, ReadStep(r) PROVE UNCHANGED watermark
    BY <2>3 DEF ReadStep, LookupThread, LookupSummary, ReadLabels, LookupQuery, Snapshot, Fetch,
       WriteThread, WriteSummary, WriteQuery, InsertThread, InsertSummary, InsertQuery
  <2> QED
    BY <2>1, <2>2, <2>3 DEF Next, vars, Upstream, BackgroundTick, Restart, PassStep, AbandonPass,
       BeginRead, DropCall
<1>3. d = p
  <2>1. \E s : Goto(d, s)
    BY <1>2 DEF SyncStep, ReadWatermark, GetProfile, SeedWatermark, ListHistory, ApplyRecord,
       InvalidateQueries, AdvanceWatermark, Reseed, Finish
  <2> QED BY <1>1, <2>1 DEF Goto
<1>4. AdvanceWatermark(p)
  BY <1>2, <1>3 DEF SyncStep, ReadWatermark, GetProfile, SeedWatermark, ListHistory, ApplyRecord,
     InvalidateQueries, Reseed
<1>5. watermark' = sync[p].latest BY <1>4 DEF AdvanceWatermark, SetWatermark
<1>6. sync[p].pages * PageSize \in Nat BY <1>1 DEF Pass
<1> QED BY <1>1, <1>5, <1>6 DEF Paged, Pass

LEMMA PagesAlways == Spec => [](Typed /\ PageInv)
<1>1. Typed /\ PageInv /\ [Next]_vars => (Typed /\ PageInv)' BY StepTyping, PageInvNext
<1> QED BY <1>1, InitTyping, PageInvInit, PTL DEF Spec

(* The pass of p is one that AdvanceWatermark ends before its last page.     *)
StopsAtTheCap(p) == sync[p].more /\ sync[p].pages >= MaxPages

(* However passes overlap, fail and restart: where sync_account moves the    *)
(* watermark, it has applied every record before it - or it read             *)
(* MAX_HISTORY_PAGES_PER_CALL pages and more were to come.                   *)
THEOREM OnlyTheCapSkips ==
  Spec => [][\A p \in Tasks :
               sync[p].pc = "advance" /\ watermark' # watermark /\ sync'[p] # sync[p]
                 => watermark' <= sync[p].done \/ StopsAtTheCap(p)]_vars
<1>1. Typed /\ PageInv /\ [Next]_vars =>
        [\A p \in Tasks :
           sync[p].pc = "advance" /\ watermark' # watermark /\ sync'[p] # sync[p]
             => watermark' <= sync[p].done \/ StopsAtTheCap(p)]_vars
  BY AdvancesHaveApplied DEF StopsAtTheCap
<1> QED BY <1>1, PagesAlways, PTL DEF Spec

LEMMA HistoryIsBounded == Spec => [](Len(log) <= MaxEvents)
<1>1. Init => Len(log) <= MaxEvents BY MailboxAssumption DEF Init, MailboxInit
<1>2. Typed /\ Len(log) <= MaxEvents /\ [Next]_vars => (Len(log) <= MaxEvents)'
  <2> SUFFICES ASSUME Typed, Len(log) <= MaxEvents, [Next]_vars PROVE Len(log') <= MaxEvents
    OBVIOUS
  <2>1. CASE MailboxChange
    <3>1. PICK e : Record(e)
      BY <2>1 DEF MailboxChange, Deliver, Expunge, AddLabel, RemoveLabel
    <3> QED BY <3>1, MailboxAssumption DEF Record, Typed, TypeOK, MailboxTypeOK
  <2>2. CASE UNCHANGED log BY <2>2
  <2> QED
    BY <2>1, <2>2 DEF Next, vars, Upstream, ForgetHistory, BackgroundTick, Restart, Maintain, PassStep,
       SyncStep, ReadWatermark, GetProfile, SeedWatermark, ListHistory, ApplyRecord,
       InvalidateQueries, AdvanceWatermark, Reseed, AbandonPass, BeginRead, ReadStep, LookupThread,
       LookupSummary, ReadLabels, LookupQuery, Snapshot, Fetch, WriteThread, WriteSummary,
       WriteQuery, DropCall
<1>3. Spec => []Typed BY InitTyping, StepTyping, PTL DEF Spec
<1> QED BY <1>1, <1>2, <1>3, PTL DEF Spec

(* So nothing is skipped in a mailbox whose whole history fits into the      *)
(* pages of one call.                                                        *)
THEOREM NothingIsSkippedBelowTheCap ==
  MaxEvents <= MaxPages * PageSize /\ Spec => NoRecordSkipped
<1> SUFFICES ASSUME MaxEvents <= MaxPages * PageSize PROVE Spec => NoRecordSkipped OBVIOUS
<1>1. ASSUME Typed, PageInv, Len(log) <= MaxEvents, [Next]_vars,
             NEW p \in Tasks,
             sync[p].pc = "advance", watermark' # watermark, sync'[p] # sync[p]
      PROVE  watermark' <= sync[p].done
  <2>1. SUFFICES ASSUME sync[p].pages >= MaxPages, sync[p].pages * PageSize < sync[p].latest
                 PROVE  FALSE
    BY <1>1, AdvancesHaveApplied
  <2>2. /\ sync[p].pages \in Nat /\ sync[p].latest \in Nat /\ Len(log) \in Nat
        /\ sync[p].latest <= Len(log) /\ MaxPages \in Nat /\ PageSize \in Nat /\ MaxEvents \in Nat
    BY <1>1, SyncAssumption, MailboxAssumption
       DEF Typed, TypeOK, SyncTypeOK, MailboxTypeOK, WatermarkBehindMailbox, Pass
  <2>3. MaxPages * PageSize <= sync[p].pages * PageSize
    <3> DEFINE n == sync[p].pages
    <3>1. \A i, j, k \in Nat : i <= j => i * k <= j * k OBVIOUS
    <3> QED BY <2>1, <2>2, <3>1
  <2>4. MaxPages * PageSize \in Nat /\ sync[p].pages * PageSize \in Nat BY <2>2
  <2> QED BY <1>1, <2>1, <2>2, <2>3, <2>4
<1>2. Typed /\ PageInv /\ Len(log) <= MaxEvents /\ [Next]_vars
        => [\A p \in Tasks :
              sync[p].pc = "advance" /\ watermark' # watermark /\ sync'[p] # sync[p]
                => watermark' <= sync[p].done]_vars
  BY <1>1
<1> QED BY <1>2, PagesAlways, HistoryIsBounded, PTL DEF Spec, NoRecordSkipped
-----------------------------------------------------------------------------
(* One pass at a time: without sync_on_read only the background task syncs.  *)

(* Whatever that pass is about to install is no older than what is there,    *)
(* so the watermark has never been higher than it is.                        *)
OnePass ==
  /\ \A p \in Tasks \ {Background} : sync[p].pc = "idle"
  /\ sync[Background].pc \in {"seed", "list", "apply", "invalidate", "advance", "reseed"}
       => watermark <= sync[Background].latest
  /\ reached = Floor

LEMMA OnePassInit == Init => OnePass
BY ServiceAssumption DEF Init, SyncInit, StoreInit, OnePass, Resting, Floor, NoId

(* Once the watermark is set, history ids only grow.                         *)
LEMMA SettingReaches ==
  ASSUME Typed, OnePass, NEW id \in Nat, watermark <= id, watermark' = id, Reach(id)
  PROVE  reached' = Floor' /\ watermark' >= watermark
<1>1. watermark \in Nat \cup {NoId} /\ Floor <= id /\ Floor \in Nat
  BY FloorType DEF Typed, TypeOK, StoreTypeOK, Floor, NoId
<1>2. Floor' = id /\ id # NoId BY DEF Floor, NoId
<1> QED BY <1>1, <1>2 DEF OnePass, Reach, NoId

LEMMA SyncStepKeepsOnePass ==
  ASSUME Typed, OnePass, NEW p \in Tasks, SyncStep(p)
  PROVE  OnePass' /\ watermark' >= watermark
<1>0. /\ sync \in [Tasks -> Pass] /\ Len(log) \in Nat /\ watermark <= Len(log) /\ sync[p].latest \in Nat
      /\ watermark \in Nat \cup {NoId} /\ watermark >= watermark
  BY DEF Typed, TypeOK, SyncTypeOK, StoreTypeOK, MailboxTypeOK, WatermarkBehindMailbox, Pass, NoId
<1>1. p = Background
  BY DEF OnePass, SyncStep, ReadWatermark, GetProfile, SeedWatermark, ListHistory, ApplyRecord,
     InvalidateQueries, AdvanceWatermark, Reseed
<1>2. ASSUME NEW s, Goto(p, s), UNCHANGED <<watermark, reached>>,
             s.pc \in {"seed", "list", "apply", "invalidate", "advance", "reseed"}
               => watermark <= s.latest
      PROVE  OnePass' /\ watermark' >= watermark
  <2>1. sync'[Background] = s BY <1>0, <1>1, <1>2 DEF Goto
  <2>2. \A d \in Tasks \ {Background} : sync'[d] = sync[d] BY <1>0, <1>1, <1>2 DEF Goto
  <2> QED BY <1>0, <1>2, <2>1, <2>2 DEF OnePass, Floor
<1>3. Resting.pc = "idle" /\ [Resting EXCEPT !.pc = "profile"].pc = "profile" BY DEF Resting
<1>4. ASSUME NEW s \in Pass, watermark <= s.latest PROVE watermark <= AfterPage(s).latest \/ AfterPage(s).pc = "idle"
  <2>1. ASSUME NEW pc PROVE [s EXCEPT !.pc = pc].latest = s.latest BY DEF Pass
  <2> QED BY <1>3, <1>4, <2>1 DEF AfterPage
<1>5. CASE ReadWatermark(p)
  <2> DEFINE s == [Resting EXCEPT !.pc = "list", !.start = watermark,
                                  !.done = watermark, !.latest = watermark]
  <2>1. s.latest = watermark BY DEF Resting
  <2>2. Goto(p, s) \/ Goto(p, [Resting EXCEPT !.pc = "profile"]) BY <1>5 DEF ReadWatermark
  <2> HIDE DEF s
  <2> QED BY <1>0, <1>2, <1>3, <1>5, <2>1, <2>2 DEF ReadWatermark
<1>6. CASE GetProfile(p)
  <2> DEFINE s == [Resting EXCEPT !.latest = Len(log),
                      !.pc = IF sync[p].pc = "profile" THEN "seed" ELSE "reseed"]
  <2>1. s.latest = Len(log) BY DEF Resting
  <2>2. Goto(p, s) BY <1>6 DEF GetProfile
  <2> HIDE DEF s
  <2> QED BY <1>0, <1>2, <1>6, <2>1, <2>2 DEF GetProfile
<1>7. CASE ListHistory(p)
  <2>1. UNCHANGED <<watermark, reached>> /\ sync[p] \in Pass BY <1>0, <1>7 DEF ListHistory
  <2>2. CASE sync[p].start < horizon
    <3> DEFINE s == [sync[p] EXCEPT !.pc = "reprofile"]
    <3>1. s.pc = "reprofile" /\ Goto(p, s) BY <1>7, <2>1, <2>2 DEF ListHistory, Pass
    <3> HIDE DEF s
    <3> QED BY <1>2, <2>1, <3>1
  <2>3. CASE ~(sync[p].start < horizon)
    <3> DEFINE s == sync[p]
               upto == IF s.done + PageSize < Len(log) THEN s.done + PageSize ELSE Len(log)
               page == [s EXCEPT !.upto = upto, !.latest = Len(log), !.pages = @ + 1,
                                 !.more = (upto < Len(log)), !.mutated = @ \/ upto > s.done]
    <3>1. upto \in Nat BY <1>0, <2>1, SyncAssumption DEF Pass
    <3>2. page \in Pass /\ page.latest = Len(log) /\ [page EXCEPT !.pc = "apply"].latest = Len(log)
      <4>1. (upto < Len(log)) \in BOOLEAN /\ (s.mutated \/ upto > s.done) \in BOOLEAN OBVIOUS
      <4>2. s.pages + 1 \in Nat BY <2>1 DEF Pass
      <4> HIDE DEF upto
      <4> QED BY <1>0, <2>1, <3>1, <4>1, <4>2 DEF Pass
    <3>3. Goto(p, IF upto > s.done THEN [page EXCEPT !.pc = "apply"] ELSE AfterPage(page))
      BY <1>7, <2>3 DEF ListHistory, Listed
    <3> HIDE DEF page, upto, s
    <3>4. CASE Goto(p, [page EXCEPT !.pc = "apply"]) BY <1>0, <1>2, <2>1, <3>2, <3>4
    <3>5. CASE Goto(p, AfterPage(page))
      <4>1. watermark <= AfterPage(page).latest \/ AfterPage(page).pc = "idle" BY <1>0, <1>4, <3>2
      <4> QED BY <1>2, <2>1, <3>5, <4>1
    <3> QED BY <3>3, <3>4, <3>5
  <2> QED BY <2>2, <2>3
<1>8. CASE ApplyRecord(p)
  <2> DEFINE s == [sync[p] EXCEPT !.done = @ + 1]
  <2>0. sync[p] \in Pass /\ watermark <= sync[p].latest
    BY <1>0, <1>1, <1>8 DEF ApplyRecord, OnePass
  <2>1. s \in Pass /\ s.latest = sync[p].latest /\ watermark <= sync[p].latest
    BY <2>0 DEF Pass
  <2>2. Goto(p, s) \/ Goto(p, AfterPage(s)) BY <1>8 DEF ApplyRecord
  <2> HIDE DEF s
  <2>3. watermark <= AfterPage(s).latest \/ AfterPage(s).pc = "idle" BY <1>4, <2>1
  <2> QED BY <1>2, <1>8, <2>1, <2>2, <2>3 DEF ApplyRecord, ApplyHistoryRecord
<1>9. CASE InvalidateQueries(p)
  <2> DEFINE s == [sync[p] EXCEPT !.pc = "advance"]
  <2>1. s.latest = sync[p].latest /\ watermark <= sync[p].latest
    BY <1>0, <1>1, <1>9 DEF Pass, InvalidateQueries, OnePass
  <2>2. Goto(p, s) \/ Goto(p, Resting) BY <1>9 DEF InvalidateQueries
  <2> HIDE DEF s
  <2> QED BY <1>2, <1>3, <1>9, <2>1, <2>2 DEF InvalidateQueries, InvalidateAllQueries
<1>10. CASE SeedWatermark(p) \/ AdvanceWatermark(p) \/ Reseed(p)
  <2>1. /\ watermark <= sync[p].latest /\ watermark' = sync[p].latest /\ Reach(sync[p].latest)
        /\ Goto(p, Resting)
    BY <1>1, <1>10 DEF OnePass, SeedWatermark, AdvanceWatermark, Reseed, SetWatermark,
       ReseedAccount, Finish
  <2>2. reached' = Floor' /\ watermark' >= watermark BY <1>0, <2>1, SettingReaches
  <2>3. sync'[Background] = Resting /\ \A d \in Tasks \ {Background} : sync'[d] = sync[d]
    BY <1>0, <1>1, <2>1 DEF Goto
  <2> QED BY <1>3, <2>2, <2>3 DEF OnePass
<1> QED BY <1>5, <1>6, <1>7, <1>8, <1>9, <1>10 DEF SyncStep

LEMMA OnePassNext ==
  ~SyncOnRead /\ Typed /\ OnePass /\ [Next]_vars => OnePass' /\ watermark' >= watermark
<1> SUFFICES ASSUME ~SyncOnRead, Typed, OnePass, [Next]_vars
             PROVE  OnePass' /\ watermark' >= watermark
  OBVIOUS
<1>0. sync \in [Tasks -> Pass] /\ watermark >= watermark
  BY DEF Typed, TypeOK, SyncTypeOK, StoreTypeOK, NoId
<1>1. CASE \E p \in Tasks : SyncStep(p) BY <1>1, SyncStepKeepsOnePass
<1>2. CASE ~(\E p \in Tasks : SyncStep(p))
  <2>1. UNCHANGED <<watermark, reached>>
    <3>1. CASE Maintain BY <3>1, UpkeepTyping DEF Typed, TypeOK, Maintain
    <3>2. ASSUME NEW r \in Readers, ReadStep(r) PROVE UNCHANGED <<watermark, reached>>
      BY <3>2 DEF ReadStep, LookupThread, LookupSummary, ReadLabels, LookupQuery, Snapshot, Fetch,
         WriteThread, WriteSummary, WriteQuery, InsertThread, InsertSummary, InsertQuery
    <3> QED
      BY <1>2, <3>1, <3>2 DEF Next, vars, Upstream, BackgroundTick, Restart, PassStep, AbandonPass,
         BeginRead, DropCall
  <2>2. Resting.pc = "idle" /\ [Resting EXCEPT !.pc = "start"].pc = "start" BY DEF Resting
  <2>3. ASSUME NEW p \in Tasks PROVE
          \/ sync'[p] = sync[p] \/ sync'[p].pc = "idle"
          \/ p = Background /\ sync'[p].pc = "start"
    BY <1>0, <1>2, <2>2, PassesBeginAndEnd DEF Goto
  <2>4. Background \in Tasks BY ServiceAssumption
  <2> QED BY <1>0, <2>1, <2>3, <2>4 DEF OnePass, Floor
<1> QED BY <1>1, <1>2

LEMMA OnePassAlways == ~SyncOnRead => (Spec => [](Typed /\ OnePass))
<1> SUFFICES ASSUME ~SyncOnRead PROVE Spec => [](Typed /\ OnePass) OBVIOUS
<1>1. Typed /\ OnePass /\ [Next]_vars => (Typed /\ OnePass)' BY StepTyping, OnePassNext
<1> QED BY <1>1, InitTyping, OnePassInit, PTL DEF Spec

(* set_last_history_id and reseed_account install an id unconditionally, yet *)
(* as long as only the background task syncs, last_history_id never moves    *)
(* backwards, whatever fails, restarts or is forgotten upstream.             *)
THEOREM WatermarkNeverMovesBack == ~SyncOnRead => (Spec => WatermarkMonotone)
<1> SUFFICES ASSUME ~SyncOnRead PROVE Spec => WatermarkMonotone OBVIOUS
<1>1. Typed /\ OnePass /\ [Next]_vars => [watermark' >= watermark]_vars BY OnePassNext
<1> QED BY <1>1, OnePassAlways, PTL DEF Spec, WatermarkMonotone

(* And then lookup_query never serves a memoised answer older than anything  *)
(* the cache had already advanced to: no staleness window opens after the    *)
(* watermark condition has closed it.                                        *)
THEOREM MemosNeverGoSilentlyStale == ~SyncOnRead => (Spec => []QueryHitNeverSilentlyStale)
<1> SUFFICES ASSUME ~SyncOnRead PROVE Spec => []QueryHitNeverSilentlyStale OBVIOUS
<1>1. OnePass /\ QueryHitFresh => QueryHitNeverSilentlyStale
  BY DEF OnePass, QueryHitFresh, QueryHitNeverSilentlyStale
<1> QED BY <1>1, OnePassAlways, QueryFreshness, PTL
-----------------------------------------------------------------------------
(* Contents of the mailbox.                                                  *)

(* Gmail's history is in order: a message arrives once, and only a message   *)
(* that is there is labelled.                                                *)
InOrder ==
  \A i \in 1..Len(log) :
    /\ log[i].kind = "messagesAdded" => ~Arrived(log[i].msg, i - 1)
    /\ log[i].kind \in {"labelsAdded", "labelsRemoved"} => Exists(log[i].msg, i - 1)

\* The history of log' begins with that of log.
LogExtends ==
  /\ log \in Seq(Event) /\ log' \in Seq(Event) /\ Len(log) <= Len(log')
  /\ \A i \in 1..Len(log) : log'[i] = log[i]

(* What the mailbox held does not change any more.                           *)
LEMMA PastIsFixed ==
  ASSUME LogExtends, NEW m, NEW k \in 0..Len(log)
  PROVE  /\ Arrived(m, k)' = Arrived(m, k)
         /\ Exists(m, k)' = Exists(m, k)
         /\ \A l : Tagged(m, l, k)' = Tagged(m, l, k)
<1>1. \A i \in 1..k : i \in 1..Len(log) /\ log'[i] = log[i] BY DEF LogExtends
<1>2. Arrived(m, k)' = Arrived(m, k) BY <1>1 DEF Arrived
<1>3. Expunged(m, k)' = Expunged(m, k) BY <1>1 DEF Expunged
<1>4. Exists(m, k)' = Exists(m, k) BY <1>2, <1>3 DEF Exists
<1>5. ASSUME NEW l PROVE Tagged(m, l, k)' = Tagged(m, l, k)
  <2> DEFINE Given(i) == Gives(log[i], m, l) /\ \A j \in (i + 1)..k : ~Takes(log[j], m, l)
             GivenNow(i) == Gives(log'[i], m, l) /\ \A j \in (i + 1)..k : ~Takes(log'[j], m, l)
  <2>1. ASSUME NEW i \in 1..k PROVE GivenNow(i) <=> Given(i)
    <3>1. \A j \in (i + 1)..k : j \in 1..k OBVIOUS
    <3> QED BY <1>1, <3>1
  <2>2. Tagged(m, l, k) <=> Exists(m, k) /\ \E i \in 1..k : Given(i) BY DEF Tagged
  <2>3. Tagged(m, l, k)' <=> Exists(m, k)' /\ \E i \in 1..k : GivenNow(i) BY DEF Tagged, Gives, Takes
  <2> HIDE DEF Given, GivenNow
  <2>4. Tagged(m, l, k)' <=> Tagged(m, l, k) BY <1>4, <2>1, <2>2, <2>3
  <2> QED BY <2>4 DEF Tagged
<1> QED BY <1>2, <1>4, <1>5

(* One change of the mailbox: who is there, and what it is labelled.         *)
LEMMA OneChange ==
  ASSUME log \in Seq(Event), InOrder, NEW n \in 1..Len(log), NEW m
  PROVE  /\ Arrived(m, n - 1) => Arrived(m, n)
         /\ Exists(m, n) /\ ~Exists(m, n - 1) => log[n].msg = m /\ log[n].kind = "messagesAdded"
         /\ Exists(m, n - 1) => Exists(m, n) \/ (log[n].msg = m /\ log[n].kind = "messagesDeleted")
         /\ log[n].msg = m /\ log[n].kind = "messagesDeleted" => Expunged(m, n)
         /\ log[n].msg = m /\ log[n].kind \in {"labelsAdded", "labelsRemoved"} => Exists(m, n)
         /\ log[n].msg = m /\ log[n].kind \in {"messagesAdded"} => ~Arrived(m, n - 1)
<1>1. n \in Nat /\ n - 1 \in Nat /\ (1..n) = (1..(n - 1)) \cup {n} OBVIOUS
<1>2. Arrived(m, n) <=> Arrived(m, n - 1) \/ (log[n].msg = m /\ log[n].kind = "messagesAdded")
  BY <1>1 DEF Arrived
<1>3. Expunged(m, n) <=> Expunged(m, n - 1) \/ (log[n].msg = m /\ log[n].kind = "messagesDeleted")
  BY <1>1 DEF Expunged
<1>4. /\ log[n].kind = "messagesAdded" => ~Arrived(log[n].msg, n - 1)
      /\ log[n].kind \in {"labelsAdded", "labelsRemoved"} => Exists(log[n].msg, n - 1)
  BY DEF InOrder
<1> QED BY <1>2, <1>3, <1>4 DEF Exists

(* A change that is not about this label of this message leaves it alone.    *)
LEMMA LabelStays ==
  ASSUME log \in Seq(Event), InOrder, NEW n \in 1..Len(log), NEW m, NEW l, Arrived(m, n - 1),
         ~(log[n].msg = m /\ log[n].kind = "messagesDeleted"),
         ~(log[n].msg = m /\ l \in log[n].labels /\ log[n].kind \in {"labelsAdded", "labelsRemoved"})
  PROVE  Tagged(m, l, n) <=> Tagged(m, l, n - 1)
<1>1. n \in Nat /\ n - 1 \in Nat /\ (1..n) = (1..(n - 1)) \cup {n} OBVIOUS
<1>2. ~Gives(log[n], m, l) /\ ~Takes(log[n], m, l) BY OneChange DEF Gives, Takes
<1>3. Exists(m, n) <=> Exists(m, n - 1) BY OneChange
<1>4. ASSUME NEW i \in 1..(n - 1)
      PROVE  (\A j \in (i + 1)..n : ~Takes(log[j], m, l)) <=> (\A j \in (i + 1)..(n - 1) : ~Takes(log[j], m, l))
  <2>1. ((i + 1)..n) = ((i + 1)..(n - 1)) \cup {n} OBVIOUS
  <2> QED BY <1>2, <2>1
<1> QED BY <1>1, <1>2, <1>3, <1>4 DEF Tagged

(* A label that was just added is on the message, one that was removed is    *)
(* not.                                                                      *)
LEMMA LabelIsSet ==
  ASSUME log \in Seq(Event), InOrder, NEW n \in 1..Len(log), NEW m, NEW l,
         log[n].msg = m, l \in log[n].labels
  PROVE  /\ log[n].kind = "labelsAdded" => Tagged(m, l, n)
         /\ log[n].kind = "labelsRemoved" => ~Tagged(m, l, n)
<1>1. n \in Nat /\ n \in 1..n /\ ((n + 1)..n) = {} OBVIOUS
<1>2. log[n].kind = "labelsAdded" => Tagged(m, l, n)
  BY <1>1, OneChange DEF Tagged, Gives
<1>3. log[n].kind = "labelsRemoved" => ~Tagged(m, l, n)
  <2> SUFFICES ASSUME log[n].kind = "labelsRemoved", NEW i \in 1..n, Gives(log[i], m, l),
                      \A j \in (i + 1)..n : ~Takes(log[j], m, l)
               PROVE  FALSE
    BY DEF Tagged
  <2>1. i # n BY DEF Gives
  <2>2. n \in (i + 1)..n BY <2>1
  <2> QED BY <2>2 DEF Takes
<1> QED BY <1>2, <1>3
-----------------------------------------------------------------------------
(* Rows of a thread, while one task syncs.                                   *)

Applying == {"list", "apply", "invalidate", "advance"}

\* The history id up to which records have been written to the rows.
Past == IF sync[Background].pc \in Applying THEN sync[Background].done ELSE Floor

Full(t) == \E m \in InThread(t) : row[m].body = "full"

\* Each of these labels was as shown at some id since w.
Saw(m, w, labels) ==
  \A l \in Labels : \E k \in w..Len(log) : (l \in labels) <=> Tagged(m, l, k)

\* And m was already there: what was there at an id tells of the next.
Shows(m, w, labels) ==
  \A l \in Labels : \E k \in w..Len(log) : Arrived(m, k) /\ ((l \in labels) <=> Tagged(m, l, k))

(* The complete rows of t tell of the mailbox at w or later, and beside a    *)
(* complete row no message that was always there has none.                   *)
KeptFrom(t, w) ==
  /\ \A m \in InThread(t) :
       row[m].body = "full" /\ ~row[m].dead
         => (\E k \in w..Len(log) : Exists(m, k)) /\ Shows(m, w, row[m].labels)
  /\ Full(t) => \A m \in InThread(t) : (\A k \in w..Len(log) : Exists(m, k)) => row[m].body # "none"

(* What tells of w tells of anything before it.                              *)
LEMMA KeptFromEarlier ==
  ASSUME log \in Seq(Event), NEW t, NEW v \in Nat, NEW w \in Nat, v <= w, KeptFrom(t, w)
  PROVE  KeptFrom(t, v)
<1>1. \A k \in w..Len(log) : k \in v..Len(log) OBVIOUS
<1> QED BY <1>1 DEF KeptFrom, Shows

(* A mailbox that grows leaves what the rows tell true.                      *)
LEMMA KeptFromGrows ==
  ASSUME LogExtends, UNCHANGED row, NEW t, NEW w \in Nat, KeptFrom(t, w)
  PROVE  KeptFrom(t, w)'
<1>1. \A k \in w..Len(log) : k \in w..Len(log') /\ k \in 0..Len(log)
  BY DEF LogExtends
<1>2. ASSUME NEW m, NEW k \in w..Len(log)
      PROVE  /\ Arrived(m, k)' = Arrived(m, k) /\ Exists(m, k)' = Exists(m, k)
             /\ \A l : Tagged(m, l, k)' = Tagged(m, l, k)
  BY <1>1, PastIsFixed
<1>3. ASSUME NEW m, NEW labels, Shows(m, w, labels) PROVE Shows(m, w, labels)'
  BY <1>1, <1>2, <1>3 DEF Shows
<1>4. ASSUME NEW m \in InThread(t), row[m].body = "full", ~row[m].dead
      PROVE  (\E k \in w..Len(log') : Exists(m, k)') /\ Shows(m, w, row[m].labels)'
  BY <1>1, <1>2, <1>3, <1>4 DEF KeptFrom
<1>5. ASSUME Full(t), NEW m \in InThread(t), \A k \in w..Len(log') : Exists(m, k)'
      PROVE  row[m].body # "none"
  BY <1>1, <1>2, <1>5 DEF KeptFrom
<1> QED BY <1>4, <1>5 DEF KeptFrom, Full, InThread, Shows

(* Writing the next history record to its row.                               *)
LEMMA RecordKept ==
  ASSUME log \in Seq(Event), InOrder, row \in [Messages -> Row], NEW n \in 1..Len(log),
         ApplyHistoryRecord(log[n]), UNCHANGED log, NEW t, KeptFrom(t, n - 1)
  PROVE  KeptFrom(t, n)'
<1> DEFINE e == log[n]
<1>0. /\ n \in Nat /\ n - 1 \in Nat /\ n \in n..Len(log) /\ e \in Event
      /\ \A k \in (n - 1)..Len(log) : k = n - 1 \/ k \in n..Len(log)
      /\ \A k \in n..Len(log) : k \in (n - 1)..Len(log)
  OBVIOUS
<1>1. \A m \in Messages : row'[m] = IF m = e.msg THEN Applied(e, row[m]) ELSE row[m]
  BY DEF ApplyHistoryRecord
<1>2. ASSUME NEW m \in Messages
      PROVE  /\ row'[m].body = "full" => row[m].body = "full"
             /\ row'[m].body = "none" => row[m].body = "none"
             /\ m = e.msg /\ e.kind = "messagesAdded" => row'[m].body # "none"
             /\ m = e.msg /\ e.kind = "messagesDeleted" /\ row'[m].body = "full" => row'[m].dead
             /\ row'[m].body = "full" /\ ~row'[m].dead => ~row[m].dead
  <2>1. row[m] \in Row BY <1>0
  <2>2. OrStub(row[m]).body # "none" /\ OrStub(row[m]).body = "full" => OrStub(row[m]) = row[m]
    BY <2>1 DEF OrStub, Stub, NoRow, Row
  <2> QED BY <1>0, <1>1, <2>1 DEF Applied, OrStub, Stub, NoRow, Row, Event
<1>3. ASSUME NEW m \in Messages, row'[m].body = "full"
      PROVE  /\ m = e.msg /\ e.kind = "labelsAdded" => row'[m].labels = row[m].labels \cup e.labels
             /\ m = e.msg /\ e.kind = "labelsRemoved" => row'[m].labels = row[m].labels \ e.labels
             /\ m # e.msg \/ e.kind \notin {"labelsAdded", "labelsRemoved"}
                  => row'[m].labels = row[m].labels
  <2>1. row[m] \in Row /\ row[m].body = "full" BY <1>0, <1>2, <1>3
  <2>2. OrStub(row[m]) = row[m] BY <2>1 DEF OrStub
  <2>3. CASE m # e.msg BY <1>1, <2>3
  <2>4. CASE m = e.msg
    <3>1. row'[m] = Applied(e, row[m]) BY <1>1, <2>4
    <3>2. CASE e.kind = "messagesAdded" BY <2>2, <3>1, <3>2 DEF Applied
    <3>3. CASE e.kind = "messagesDeleted" BY <2>1, <3>1, <3>3 DEF Applied, Row
    <3>4. ASSUME NEW ls PROVE [row[m] EXCEPT !.labels = ls].labels = ls BY <2>1 DEF Row
    <3>5. CASE e.kind = "labelsAdded"
      <4>1. row'[m] = [row[m] EXCEPT !.labels = row[m].labels \cup e.labels]
        BY <2>2, <3>1, <3>5 DEF Applied
      <4> QED BY <2>4, <3>4, <3>5, <4>1
    <3>6. CASE e.kind = "labelsRemoved"
      <4>1. row'[m] = [row[m] EXCEPT !.labels = row[m].labels \ e.labels]
        BY <3>1, <3>6 DEF Applied
      <4> QED BY <2>4, <3>4, <3>6, <4>1
    <3> QED BY <1>0, <3>2, <3>3, <3>5, <3>6 DEF Event
  <2> QED BY <2>3, <2>4
<1>4. ASSUME NEW m
      PROVE  /\ Arrived(m, n - 1) => Arrived(m, n)
             /\ Exists(m, n) /\ ~Exists(m, n - 1) => m = e.msg /\ e.kind = "messagesAdded"
             /\ Exists(m, n - 1) => Exists(m, n) \/ (m = e.msg /\ e.kind = "messagesDeleted")
             /\ m = e.msg /\ e.kind \in {"labelsAdded", "labelsRemoved"} => Exists(m, n)
             /\ m = e.msg /\ e.kind = "messagesAdded" => ~Arrived(m, n - 1)
  BY OneChange
<1>5. ASSUME NEW m \in InThread(t), row'[m].body = "full", ~row'[m].dead
      PROVE  \E k \in n..Len(log) : Exists(m, k)
  <2>1. m \in Messages /\ ~(m = e.msg /\ e.kind = "messagesDeleted") BY <1>2, <1>5 DEF InThread
  <2>2. PICK k \in (n - 1)..Len(log) : Exists(m, k) BY <1>2, <1>5, <2>1 DEF KeptFrom
  <2> QED BY <1>0, <1>4, <2>1, <2>2
<1>6. ASSUME NEW m \in InThread(t), row'[m].body = "full", ~row'[m].dead, NEW l \in Labels
      PROVE  \E k \in n..Len(log) : Arrived(m, k) /\ ((l \in row'[m].labels) <=> Tagged(m, l, k))
  <2>1. m \in Messages /\ ~(m = e.msg /\ e.kind = "messagesDeleted") BY <1>2, <1>6 DEF InThread
  <2>2. CASE m = e.msg /\ l \in e.labels /\ e.kind \in {"labelsAdded", "labelsRemoved"}
    <3>1. Arrived(m, n) BY <1>4, <2>2 DEF Exists
    <3>2. (l \in row'[m].labels) <=> Tagged(m, l, n) BY <1>3, <1>6, <2>1, <2>2, LabelIsSet
    <3> QED BY <1>0, <3>1, <3>2
  <2>3. CASE ~(m = e.msg /\ l \in e.labels /\ e.kind \in {"labelsAdded", "labelsRemoved"})
    <3>1. (l \in row'[m].labels) <=> (l \in row[m].labels) BY <1>3, <1>6, <2>1, <2>3
    <3>2. PICK k \in (n - 1)..Len(log) : Arrived(m, k) /\ ((l \in row[m].labels) <=> Tagged(m, l, k))
      BY <1>2, <1>6, <2>1 DEF KeptFrom, Shows
    <3>3. CASE k \in n..Len(log) BY <3>1, <3>2, <3>3
    <3>4. CASE k = n - 1
      <4>1. Arrived(m, n) BY <1>4, <3>2, <3>4
      <4>2. Tagged(m, l, n) <=> Tagged(m, l, n - 1) BY <2>1, <2>3, <3>2, <3>4, LabelStays
      <4> QED BY <1>0, <3>1, <3>2, <3>4, <4>1, <4>2
    <3> QED BY <1>0, <3>3, <3>4
  <2> QED BY <2>2, <2>3
<1>7. ASSUME Full(t)', NEW m \in InThread(t), \A k \in n..Len(log) : Exists(m, k)
      PROVE  row'[m].body # "none"
  <2>1. Full(t) /\ m \in Messages BY <1>2, <1>7 DEF Full, InThread
  <2>2. CASE Exists(m, n - 1)
    <3>1. \A k \in (n - 1)..Len(log) : Exists(m, k) BY <1>0, <1>7, <2>2
    <3> QED BY <1>2, <2>1, <3>1 DEF KeptFrom
  <2>3. CASE ~Exists(m, n - 1) BY <1>0, <1>2, <1>4, <1>7, <2>1, <2>3
  <2> QED BY <2>2, <2>3
<1>8. ASSUME NEW m, NEW k
      PROVE  /\ Arrived(m, k)' = Arrived(m, k) /\ Exists(m, k)' = Exists(m, k)
             /\ \A l : Tagged(m, l, k)' = Tagged(m, l, k)
  BY DEF Exists, Arrived, Expunged, Tagged, Gives, Takes
<1>9. InThread(t)' = InThread(t) /\ Len(log)' = Len(log) BY DEF InThread
<1>10. \A m \in InThread(t) :
         row'[m].body = "full" /\ ~row'[m].dead
           => (\E k \in n..Len(log) : Exists(m, k)') /\ Shows(m, n, row[m].labels)'
  BY <1>5, <1>6, <1>8, <1>9 DEF Shows
<1>11. Full(t)' => \A m \in InThread(t) :
         (\A k \in n..Len(log) : Exists(m, k)') => row'[m].body # "none"
  BY <1>7, <1>8
<1> QED BY <1>9, <1>10, <1>11 DEF KeptFrom

LEMMA SameMailbox ==
  ASSUME UNCHANGED log
  PROVE  \A m, k : /\ Arrived(m, k)' = Arrived(m, k) /\ Exists(m, k)' = Exists(m, k)
                   /\ Expunged(m, k)' = Expunged(m, k)
                   /\ \A l : Tagged(m, l, k)' = Tagged(m, l, k)
<1> SUFFICES ASSUME NEW m, NEW k
             PROVE  /\ Arrived(m, k)' = Arrived(m, k) /\ Exists(m, k)' = Exists(m, k)
                    /\ Expunged(m, k)' = Expunged(m, k)
                    /\ \A l : Tagged(m, l, k)' = Tagged(m, l, k)
  OBVIOUS
<1> QED BY DEF Exists, Arrived, Expunged, Tagged, Gives, Takes

(* Rows that stay, lose their body or go with the whole thread.              *)
LEMMA RowsFade ==
  ASSUME UNCHANGED log, NEW t, NEW w, KeptFrom(t, w),
         \A m \in InThread(t) : row'[m].body = "full" => row'[m] = row[m],
         Full(t)' => \A m \in InThread(t) : row'[m].body = "none" => row[m].body = "none"
  PROVE  KeptFrom(t, w)'
<1>1. InThread(t)' = InThread(t) BY DEF InThread
<1>2. \A m \in InThread(t) :
        row'[m].body = "full" /\ ~row'[m].dead
          => (\E k \in w..Len(log) : Exists(m, k)') /\ Shows(m, w, row[m].labels)'
  BY SameMailbox DEF KeptFrom, Shows
<1>3. Full(t)' => Full(t) BY <1>1 DEF Full
<1>4. Full(t)' => \A m \in InThread(t) :
        (\A k \in w..Len(log) : Exists(m, k)') => row'[m].body # "none"
  BY <1>3, SameMailbox DEF KeptFrom
<1> QED BY <1>1, <1>2, <1>4 DEF KeptFrom

(* What threads.get answered at k.                                           *)
LEMMA FetchKept ==
  ASSUME log \in Seq(Event), UNCHANGED log, NEW t, NEW k \in Nat, k <= Len(log), InsertThread(t, k),
         NEW w \in Nat, w <= k
  PROVE  KeptFrom(t, w)'
<1>1. InThread(t)' = InThread(t) /\ k \in w..Len(log) BY DEF InThread
<1>2. ASSUME NEW m \in InThread(t)
      PROVE  row'[m] = IF Exists(m, k) THEN [body |-> "full", dead |-> FALSE, labels |-> LabelsAt(m, k)]
                       ELSE NoRow
  BY DEF InsertThread, InThread
<1>3. ASSUME NEW m \in InThread(t)
      PROVE  /\ row'[m].body = "full" => Exists(m, k) /\ row'[m].labels = LabelsAt(m, k)
             /\ Exists(m, k) => row'[m].body # "none"
  <2>1. CASE Exists(m, k)
    <3>1. row'[m] = [body |-> "full", dead |-> FALSE, labels |-> LabelsAt(m, k)] BY <1>2, <2>1
    <3> QED BY <2>1, <3>1
  <2>2. CASE ~Exists(m, k)
    <3>1. row'[m] = NoRow BY <1>2, <2>2
    <3> QED BY <2>2, <3>1 DEF NoRow
  <2> QED BY <2>1, <2>2
<1>4. ASSUME NEW m \in InThread(t), row'[m].body = "full", NEW l \in Labels
      PROVE  Arrived(m, k) /\ ((l \in row'[m].labels) <=> Tagged(m, l, k))
  BY <1>3, <1>4 DEF LabelsAt, Exists
<1>5. \A m \in InThread(t) :
        row'[m].body = "full" /\ ~row'[m].dead
          => (\E j \in w..Len(log) : Exists(m, j)') /\ Shows(m, w, row[m].labels)'
  BY <1>1, <1>3, <1>4, SameMailbox DEF Shows
<1>6. \A m \in InThread(t) : (\A j \in w..Len(log) : Exists(m, j)') => row'[m].body # "none"
  BY <1>1, <1>3, SameMailbox
<1> QED BY <1>1, <1>5, <1>6 DEF KeptFrom

-----------------------------------------------------------------------------
(* What a step may do to the rows and to what is said of them.               *)

(* cache_invalidate leaves the labels alone and the file stays under its     *)
(* limit: these two take rows and labels out from under a thread that still  *)
(* counts as a hit.                                                          *)
RowsLast == Upkeep \cap {"evict", "drop_labels"} = {}

LEMMA HistoryGoesOn ==
  ASSUME Typed, InOrder, [Next]_vars
  PROVE  LogExtends /\ InOrder'
<1>0. log \in Seq(Event) /\ log' \in Seq(Event) BY StepTyping DEF Typed, TypeOK, MailboxTypeOK
<1>1. CASE UNCHANGED log
  <2>1. LogExtends BY <1>0, <1>1 DEF LogExtends
  <2> QED BY <1>1, <2>1, SameMailbox DEF InOrder
<1>2. CASE MailboxChange
  <2> DEFINE Fits(e) == /\ Record(e)
                        /\ e.kind = "messagesAdded" => ~Arrived(e.msg, Len(log))
                        /\ e.kind \in {"labelsAdded", "labelsRemoved"} => Exists(e.msg, Len(log))
  <2>1. PICK e \in Event : Fits(e)
    <3>1. PICK m \in Messages : \/ \E ls \in SUBSET Labels : Deliver(m, ls)
                                \/ Expunge(m)
                                \/ \E l \in Labels : AddLabel(m, l) \/ RemoveLabel(m, l)
      BY <1>2 DEF MailboxChange
    <3>2. ASSUME NEW kind \in {"messagesAdded", "messagesDeleted", "labelsAdded", "labelsRemoved"},
                 NEW ls \in SUBSET Labels
          PROVE  /\ Change(kind, m, ls) \in Event /\ Change(kind, m, ls).kind = kind
                 /\ Change(kind, m, ls).msg = m
      BY DEF Change, Event
    <3>3. ASSUME NEW ls \in SUBSET Labels, Deliver(m, ls) PROVE Fits(Change("messagesAdded", m, ls))
      BY <3>2, <3>3 DEF Deliver
    <3>4. ASSUME Expunge(m) PROVE Fits(Change("messagesDeleted", m, {}))
      BY <3>2, <3>4 DEF Expunge
    <3>5. ASSUME NEW l \in Labels, AddLabel(m, l) PROVE Fits(Change("labelsAdded", m, {l}))
      <4>1. {l} \in SUBSET Labels OBVIOUS
      <4> QED BY <3>2, <3>5, <4>1 DEF AddLabel
    <3>6. ASSUME NEW l \in Labels, RemoveLabel(m, l) PROVE Fits(Change("labelsRemoved", m, {l}))
      <4>1. {l} \in SUBSET Labels OBVIOUS
      <4> QED BY <3>2, <3>6, <4>1 DEF RemoveLabel, Tagged
    <3> HIDE DEF Fits
    <3>7. \A l \in Labels : {l} \in SUBSET Labels OBVIOUS
    <3>8. {} \in SUBSET Labels OBVIOUS
    <3> QED BY <3>1, <3>2, <3>3, <3>4, <3>5, <3>6, <3>7, <3>8
  <2>2. log' = Append(log, e) BY <2>1 DEF Record
  <2>3. LogExtends /\ Len(log') = Len(log) + 1 /\ log'[Len(log) + 1] = e
    BY <1>0, <2>2 DEF LogExtends
  <2>4. ASSUME NEW n, NEW k \in 0..Len(log)
        PROVE  Arrived(n, k)' = Arrived(n, k) /\ Exists(n, k)' = Exists(n, k)
    BY <2>3, PastIsFixed
  <2>5. ASSUME NEW i \in 1..Len(log'), NEW n, n = log'[i].msg
        PROVE  /\ log'[i].kind = "messagesAdded" => ~Arrived(n, i - 1)'
               /\ log'[i].kind \in {"labelsAdded", "labelsRemoved"} => Exists(n, i - 1)'
    <3>1. CASE i \in 1..Len(log)
      <4>1. i - 1 \in 0..Len(log) /\ log'[i] = log[i] BY <1>0, <2>3, <3>1 DEF LogExtends
      <4> QED BY <2>4, <2>5, <3>1, <4>1 DEF InOrder
    <3>2. CASE i = Len(log) + 1
      <4>1. i - 1 = Len(log) /\ Len(log) \in 0..Len(log) BY <1>0, <3>2
      <4> QED BY <2>1, <2>3, <2>4, <2>5, <3>2, <4>1
    <3> QED BY <1>0, <2>3, <3>1, <3>2
  <2>6. InOrder' BY <2>5 DEF InOrder, Arrived, Exists, Expunged
  <2> QED BY <2>3, <2>6
<1>3. UNCHANGED log \/ MailboxChange
  BY DEF Next, vars, Upstream, ForgetHistory, BackgroundTick, Restart, Maintain, PassStep,
     SyncStep, ReadWatermark, GetProfile, SeedWatermark, ListHistory, ApplyRecord,
     InvalidateQueries, AdvanceWatermark, Reseed, AbandonPass, BeginRead, ReadStep, LookupThread,
     LookupSummary, ReadLabels, LookupQuery, Snapshot, Fetch, WriteThread, WriteSummary,
     WriteQuery, DropCall
<1> QED BY <1>1, <1>2, <1>3

(* A pass goes on, ends or begins, without touching a row or the watermark.   *)
PassGoes(p) ==
  \/ sync'[p] = sync[p]
  \/ sync'[p].pc \notin Applying \cup {"profile", "seed"}
  \/ /\ sync'[p].pc \in {"profile", "seed"}
     /\ watermark = NoId \/ sync[p].pc = "profile"
  \/ /\ sync'[p].pc \in Applying /\ sync[p].pc \in Applying
     /\ sync'[p].done = sync[p].done
  \/ /\ sync'[p].pc \in Applying /\ watermark # NoId
     /\ sync'[p].done = watermark

Untouched == UNCHANGED <<log, watermark, row, fetchedAt, missed>>

LEMMA PassKinds ==
  ASSUME Typed, NEW p \in Tasks, SyncStep(p)
  PROVE  \/ Untouched /\ PassGoes(p)
         \/ SeedWatermark(p) \/ ApplyRecord(p) \/ AdvanceWatermark(p) \/ Reseed(p)
<1>0. /\ sync \in [Tasks -> Pass] /\ sync[p] \in Pass /\ Len(log) \in Nat
      /\ watermark \in Nat \cup {NoId} /\ PageSize \in Nat
  BY SyncAssumption DEF Typed, TypeOK, SyncTypeOK, StoreTypeOK, MailboxTypeOK
<1>1. ASSUME NEW s, Goto(p, s) PROVE sync'[p] = s BY <1>0, <1>1 DEF Goto
<1>2. Resting.pc = "idle" /\ [Resting EXCEPT !.pc = "profile"].pc = "profile" BY DEF Resting
<1>3. ASSUME NEW s \in Pass
      PROVE  AfterPage(s).pc = "idle" \/ (AfterPage(s).pc \in Applying /\ AfterPage(s).done = s.done)
  <2>1. ASSUME NEW pc PROVE [s EXCEPT !.pc = pc].pc = pc /\ [s EXCEPT !.pc = pc].done = s.done
    BY DEF Pass
  <2> QED BY <1>2, <2>1 DEF AfterPage, Applying
<1>4. CASE ReadWatermark(p)
  <2>1. Untouched BY <1>4 DEF ReadWatermark, Untouched
  <2>2. CASE watermark = NoId BY <1>1, <1>2, <1>4, <2>1, <2>2 DEF ReadWatermark, PassGoes
  <2>3. CASE watermark # NoId
    <3> DEFINE s == [Resting EXCEPT !.pc = "list", !.start = watermark,
                                    !.done = watermark, !.latest = watermark]
    <3>1. s.pc = "list" /\ s.done = watermark BY DEF Resting
    <3>2. Goto(p, s) BY <1>4, <2>3 DEF ReadWatermark
    <3> HIDE DEF s
    <3> QED BY <1>1, <2>1, <2>3, <3>1, <3>2 DEF PassGoes, Applying
  <2> QED BY <2>2, <2>3
<1>5. CASE GetProfile(p)
  <2> DEFINE s == [Resting EXCEPT !.latest = Len(log),
                      !.pc = IF sync[p].pc = "profile" THEN "seed" ELSE "reseed"]
  <2>1. s.pc = IF sync[p].pc = "profile" THEN "seed" ELSE "reseed" BY DEF Resting
  <2>2. Goto(p, s) /\ Untouched BY <1>5 DEF GetProfile, Untouched
  <2> HIDE DEF s
  <2> QED BY <1>1, <2>1, <2>2 DEF PassGoes, Applying
<1>6. CASE ListHistory(p)
  <2>1. Untouched /\ sync[p].pc = "list" BY <1>6 DEF ListHistory, Untouched
  <2>2. CASE sync[p].start < horizon
    <3>1. [sync[p] EXCEPT !.pc = "reprofile"].pc = "reprofile" BY <1>0 DEF Pass
    <3>2. sync'[p].pc = "reprofile" BY <1>1, <1>6, <2>2, <3>1 DEF ListHistory
    <3> QED BY <2>1, <3>2 DEF PassGoes, Applying
  <2>3. CASE ~(sync[p].start < horizon)
    <3> DEFINE s == sync[p]
               upto == IF s.done + PageSize < Len(log) THEN s.done + PageSize ELSE Len(log)
               page == [s EXCEPT !.upto = upto, !.latest = Len(log), !.pages = @ + 1,
                                 !.more = (upto < Len(log)), !.mutated = @ \/ upto > s.done]
    <3>1. upto \in Nat BY <1>0, SyncAssumption DEF Pass
    <3>2. page \in Pass /\ page.done = s.done
          /\ [page EXCEPT !.pc = "apply"].pc = "apply" /\ [page EXCEPT !.pc = "apply"].done = s.done
      <4>1. (upto < Len(log)) \in BOOLEAN /\ (s.mutated \/ upto > s.done) \in BOOLEAN OBVIOUS
      <4>2. s.pages + 1 \in Nat BY <1>0 DEF Pass
      <4> HIDE DEF upto
      <4> QED BY <1>0, <3>1, <4>1, <4>2 DEF Pass
    <3>3. Goto(p, IF upto > s.done THEN [page EXCEPT !.pc = "apply"] ELSE AfterPage(page))
      BY <1>6, <2>3 DEF ListHistory, Listed
    <3>4. sync[p].done = s.done OBVIOUS
    <3> HIDE DEF page, upto, s
    <3>5. sync'[p].pc = "idle"
          \/ (sync'[p].pc \in Applying /\ sync'[p].done = sync[p].done)
      BY <1>1, <1>3, <3>2, <3>3, <3>4 DEF Applying
    <3> QED BY <2>1, <3>5 DEF PassGoes, Applying
  <2> QED BY <2>2, <2>3
<1>7. CASE InvalidateQueries(p)
  <2>1. Untouched /\ sync[p].pc = "invalidate"
    BY <1>7 DEF InvalidateQueries, InvalidateAllQueries, Untouched
  <2>2. [sync[p] EXCEPT !.pc = "advance"].pc = "advance"
        /\ [sync[p] EXCEPT !.pc = "advance"].done = sync[p].done
    BY <1>0 DEF Pass
  <2> QED BY <1>1, <1>2, <1>7, <2>1, <2>2 DEF InvalidateQueries, PassGoes, Applying
<1> QED BY <1>4, <1>5, <1>6, <1>7 DEF SyncStep

(* Nothing is evicted: the file stays under its limit.                       *)
Unevicted == "evict" \notin Upkeep

(* Every step, by what it does to the rows and the watermark, while any      *)
(* number of passes overlap.                                                 *)
LEMMA OverlapKinds ==
  ASSUME Typed, Unevicted, [Next]_vars
  PROVE  \/ UNCHANGED <<watermark, row, fetchedAt, missed, sync>>
         \/ Untouched /\ \A q \in Tasks : PassGoes(q)
         \/ \E p \in Tasks : /\ \A q \in Tasks \ {p} : sync'[q] = sync[q]
                             /\ SeedWatermark(p) \/ ApplyRecord(p) \/ AdvanceWatermark(p) \/ Reseed(p)
         \/ \E r \in Readers : WriteThread(r) \/ WriteSummary(r)
         \/ /\ UNCHANGED <<log, watermark, fetchedAt, missed, sync>>
            /\ (\E old \in SUBSET Messages : PurgeOldBodies(old)) \/ InvalidateAllLabels
<1>0. sync \in [Tasks -> Pass] BY DEF Typed, TypeOK, SyncTypeOK
<1>1. CASE Upstream \/ UNCHANGED vars BY <1>1 DEF Upstream, vars
<1>2. CASE Maintain
  BY <1>2 DEF Maintain, EvictQueries, ExpireQuery, InvalidateAllQueries, InvalidateAllLabels,
     PurgeOldBodies, Unevicted
<1>3. ASSUME NEW p \in Tasks, PassStep(p)
      PROVE  \/ Untouched /\ \A q \in Tasks : PassGoes(q)
             \/ /\ \A q \in Tasks \ {p} : sync'[q] = sync[q]
                /\ SeedWatermark(p) \/ ApplyRecord(p) \/ AdvanceWatermark(p) \/ Reseed(p)
  <2>1. \E s : Goto(p, s)
    BY <1>3 DEF PassStep, SyncStep, ReadWatermark, GetProfile, SeedWatermark, ListHistory,
       ApplyRecord, InvalidateQueries, AdvanceWatermark, Reseed, Finish
  <2>2. \A q \in Tasks \ {p} : sync'[q] = sync[q] BY <1>0, <2>1 DEF Goto
  <2>3. \A q \in Tasks \ {p} : PassGoes(q) BY <2>2 DEF PassGoes
  <2> QED BY <1>3, <2>2, <2>3, PassKinds DEF PassStep
<1>4. ASSUME NEW r \in Readers, ReadStep(r), ~WriteThread(r), ~WriteSummary(r)
      PROVE  UNCHANGED <<watermark, row, fetchedAt, missed, sync>>
  <2>1. CASE LookupThread(r) BY <2>1 DEF LookupThread
  <2>2. CASE LookupSummary(r) BY <2>2 DEF LookupSummary
  <2>3. CASE ReadLabels(r) BY <2>3 DEF ReadLabels
  <2>4. CASE LookupQuery(r) \/ Snapshot(r) \/ Fetch(r) BY <2>4 DEF LookupQuery, Snapshot, Fetch
  <2>5. CASE WriteQuery(r) BY <2>5 DEF WriteQuery, InsertQuery
  <2> QED BY <1>4, <2>1, <2>2, <2>3, <2>4, <2>5 DEF ReadStep
<1>5. ASSUME \/ BackgroundTick \/ Restart \/ \E p \in Tasks : AbandonPass(p) /\ UNCHANGED read
             \/ \E r \in Readers : BeginRead(r) \/ DropCall(r)
      PROVE  Untouched /\ \A q \in Tasks : PassGoes(q)
  <2>1. Untouched
    BY <1>5 DEF BackgroundTick, Restart, AbandonPass, BeginRead, DropCall, Untouched
  <2>2. Resting.pc = "idle" /\ [Resting EXCEPT !.pc = "start"].pc = "start" BY DEF Resting
  <2>3. \/ UNCHANGED sync \/ sync' = [p \in Tasks |-> Resting]
        \/ \E p \in Tasks : Goto(p, Resting) \/ Goto(p, [Resting EXCEPT !.pc = "start"])
    BY <1>5, ServiceAssumption
    DEF BackgroundTick, Restart, AbandonPass, BeginRead, DropCall, StartPass, Finish
  <2>4. ASSUME NEW q \in Tasks PROVE sync'[q] = sync[q] \/ sync'[q].pc \in {"idle", "start"}
    BY <1>0, <2>2, <2>3 DEF Goto
  <2>5. \A q \in Tasks : PassGoes(q) BY <2>4 DEF PassGoes, Applying
  <2> QED BY <2>1, <2>5
<1> QED BY <1>1, <1>2, <1>3, <1>4, <1>5 DEF Next

(* Every step, by what it does to the rows and the watermark.                *)
LEMMA StepKinds ==
  ASSUME Typed, OnePass, ~SyncOnRead, RowsLast, [Next]_vars
  PROVE  \/ UNCHANGED <<watermark, row, fetchedAt, missed, sync, read>>
         \/ Untouched /\ PassGoes(Background)
         \/ /\ UNCHANGED read
            /\ \/ SeedWatermark(Background) \/ ApplyRecord(Background)
               \/ AdvanceWatermark(Background) \/ Reseed(Background)
         \/ \E r \in Readers : WriteThread(r) \/ WriteSummary(r)
         \/ /\ UNCHANGED <<log, fetchedAt, missed, sync, read>>
            /\ \E old \in SUBSET Messages : PurgeOldBodies(old)
<1>0. /\ sync \in [Tasks -> Pass] /\ Background \in Tasks /\ Background \notin Readers
  BY ServiceAssumption DEF Typed, TypeOK, SyncTypeOK
<1>1. CASE Upstream \/ UNCHANGED vars BY <1>1 DEF Upstream, vars
<1>2. CASE Maintain
  <2>1. ~("evict" \in Upkeep) /\ ~("drop_labels" \in Upkeep) BY DEF RowsLast
  <2> QED
    BY <1>2, <2>1 DEF Maintain, EvictQueries, ExpireQuery, InvalidateAllQueries
<1>3. ASSUME NEW p \in Tasks, PassStep(p)
      PROVE  \/ Untouched /\ PassGoes(Background)
             \/ /\ UNCHANGED read
                /\ \/ SeedWatermark(Background) \/ ApplyRecord(Background)
                   \/ AdvanceWatermark(Background) \/ Reseed(Background)
  <2>1. p = Background
    BY <1>3 DEF OnePass, PassStep, SyncStep, ReadWatermark, GetProfile, SeedWatermark, ListHistory,
       ApplyRecord, InvalidateQueries, AdvanceWatermark, Reseed
  <2> QED BY <1>3, <2>1, PassKinds DEF PassStep
<1>4. ASSUME NEW r \in Readers, ReadStep(r), ~WriteThread(r), ~WriteSummary(r)
      PROVE  Untouched /\ PassGoes(Background)
  <2>1. UNCHANGED <<log, watermark, row, fetchedAt, missed, sync>>
    <3>1. CASE LookupThread(r) BY <3>1 DEF LookupThread
    <3>2. CASE LookupSummary(r) BY <3>2 DEF LookupSummary
    <3>3. CASE ReadLabels(r) BY <3>3 DEF ReadLabels
    <3>4. CASE LookupQuery(r) \/ Snapshot(r) \/ Fetch(r) BY <3>4 DEF LookupQuery, Snapshot, Fetch
    <3>5. CASE WriteQuery(r) BY <3>5 DEF WriteQuery, InsertQuery
    <3> QED BY <1>4, <3>1, <3>2, <3>3, <3>4, <3>5 DEF ReadStep
  <2> QED BY <2>1 DEF Untouched, PassGoes
<1>5. ASSUME \/ BackgroundTick \/ Restart \/ \E p \in Tasks : AbandonPass(p) /\ UNCHANGED read
             \/ \E r \in Readers : BeginRead(r) \/ DropCall(r)
      PROVE  Untouched /\ PassGoes(Background)
  <2>1. Untouched
    BY <1>5 DEF BackgroundTick, Restart, AbandonPass, BeginRead, DropCall, Untouched
  <2>2. Resting.pc = "idle" /\ [Resting EXCEPT !.pc = "start"].pc = "start" BY DEF Resting
  <2>3. \/ UNCHANGED sync \/ sync' = [p \in Tasks |-> Resting]
        \/ \E p \in Tasks : Goto(p, Resting) \/ Goto(p, [Resting EXCEPT !.pc = "start"])
    BY <1>5, ServiceAssumption
    DEF BackgroundTick, Restart, AbandonPass, BeginRead, DropCall, StartPass, Finish
  <2>4. \/ sync'[Background] = sync[Background]
        \/ sync'[Background].pc \in {"idle", "start"}
    BY <1>0, <2>2, <2>3 DEF Goto
  <2> QED BY <2>1, <2>4 DEF PassGoes, Applying
<1> QED BY <1>1, <1>2, <1>3, <1>4, <1>5 DEF Next

\* The call of r once it has read the labels of m.
Labelled(r, m) ==
  [read[r] EXCEPT !.pc = IF read[r].todo = {m} THEN "served" ELSE "labels",
                  !.todo = @ \ {m}, !.labels[m] = row[m].labels, !.clean = StillClean(r, m)]

LEMMA LabelsAreRead ==
  ASSUME NEW r \in Readers, ReadLabels(r)
  PROVE  \E m \in read[r].todo : Become(r, Labelled(r, m))
BY DEF ReadLabels, Labelled

(* What a step may make of a tool call, as far as hits on threads and what   *)
(* is about to be written go.                                                *)
LEMMA ReadKinds ==
  ASSUME Typed, [Next]_vars, NEW u \in Readers
  PROVE  \/ read'[u] = read[u]
         \/ /\ read'[u].op = "thread" => read'[u].pc \notin {"labels", "served"}
            /\ read'[u].pc = "insert" => read'[u].content = Len(log)
         \/ LookupThread(u) \/ ReadLabels(u)
<1>0. read \in [Readers -> Call] BY DEF Typed, TypeOK, ServiceTypeOK
<1>1. ASSUME NEW r \in Readers, NEW c, Become(r, c)
      PROVE  read'[r] = c /\ (u # r => read'[u] = read[u])
  BY <1>0, <1>1 DEF Become
<1>2. \A c : Quiet(c).pc = "idle" BY DEF Quiet, Fresh
<1>3. ASSUME NEW c \in Call, NEW pc PROVE [c EXCEPT !.pc = pc].pc = pc /\ [c EXCEPT !.pc = pc].op = c.op
  BY DEF Call
<1>4. CASE Upstream \/ Maintain \/ BackgroundTick \/ UNCHANGED vars \/ \E p \in Tasks : UNCHANGED read
  BY <1>4 DEF Upstream, Maintain, BackgroundTick, vars
<1>5. CASE Restart BY <1>2, <1>5 DEF Restart
<1>6. ASSUME NEW r \in Readers, Become(r, Quiet(read[r]))
      PROVE  read'[u] = read[u] \/ read'[u].pc = "idle"
  BY <1>1, <1>2, <1>6
<1>7. ASSUME NEW r \in Readers, BeginRead(r) PROVE read'[u] = read[u] \/ read'[u].pc = "lookup"
  <2>1. PICK op \in Reads, t \in Threads, q \in Queries : Become(r, Fresh(op, t, q))
    BY <1>7 DEF BeginRead
  <2>2. Fresh(op, t, q).pc = "lookup" BY DEF Fresh
  <2> QED BY <1>1, <2>1, <2>2
<1>8. ASSUME NEW r \in Readers, LookupSummary(r) \/ LookupQuery(r) \/ Snapshot(r)
      PROVE  read'[u] = read[u] \/ (read'[u].op # "thread" /\ read'[u].pc # "insert")
  <2>1. PICK c : Become(r, c) /\ c.op # "thread" /\ c.pc # "insert"
    <3>1. read[r] \in Call BY <1>0
    <3>2. CASE LookupSummary(r)
      <4>1. read[r].op = "summary" BY <3>2 DEF LookupSummary, At
      <4>2. ASSUME NEW ids PROVE Hit(r, ids).op = "summary" /\ Hit(r, ids).pc # "insert"
        BY <3>1, <4>1 DEF Hit, Call
      <4>3. Miss(r).op = "summary" /\ Miss(r).pc = "fetch" BY <1>3, <3>1, <4>1 DEF Miss
      <4>4. Become(r, Hit(r, Live(read[r].thread))) \/ Become(r, Miss(r)) BY <3>2 DEF LookupSummary
      <4> QED BY <4>2, <4>3, <4>4
    <3>3. CASE LookupQuery(r) \/ Snapshot(r)
      <4>1. read[r].op = "query" BY <3>3 DEF LookupQuery, Snapshot, At
      <4>2. CASE LookupQuery(r) /\ QueryHit(read[r].query)
        <5> DEFINE c == [read[r] EXCEPT !.pc = "served", !.content = memo[read[r].query].content,
                                        !.floor = Floor]
        <5>1. Become(r, c) BY <4>2 DEF LookupQuery
        <5>2. c.op = "query" /\ c.pc = "served" BY <3>1, <4>1 DEF Call
        <5> HIDE DEF c
        <5> QED BY <5>1, <5>2
      <4>3. CASE LookupQuery(r) /\ ~QueryHit(read[r].query)
        <5>1. Become(r, [read[r] EXCEPT !.pc = "snapshot"]) BY <4>3 DEF LookupQuery
        <5> QED BY <1>3, <3>1, <4>1, <5>1
      <4>4. CASE Snapshot(r)
        <5> DEFINE c == [read[r] EXCEPT !.pc = "fetch", !.snapshot = Floor]
        <5>1. Become(r, c) BY <4>4 DEF Snapshot
        <5>2. c.op = "query" /\ c.pc = "fetch" BY <3>1, <4>1 DEF Call
        <5> HIDE DEF c
        <5> QED BY <5>1, <5>2
      <4> QED BY <3>3, <4>2, <4>3, <4>4
    <3> QED BY <1>8, <3>2, <3>3
  <2> QED BY <1>1, <2>1
<1>9. ASSUME NEW r \in Readers, Fetch(r)
      PROVE  \/ read'[u] = read[u] \/ read'[u].pc = "idle"
             \/ read'[u].pc = "insert" /\ read'[u].content = Len(log)
  <2>1. read[r] \in Call BY <1>0
  <2>2. /\ [read[r] EXCEPT !.pc = "insert", !.content = Len(log)].pc = "insert"
        /\ [read[r] EXCEPT !.pc = "insert", !.content = Len(log)].content = Len(log)
    BY <2>1 DEF Call
  <2>3. Become(r, Quiet(read[r])) \/ Become(r, [read[r] EXCEPT !.pc = "insert", !.content = Len(log)])
    BY <1>9 DEF Fetch
  <2> DEFINE c == [read[r] EXCEPT !.pc = "insert", !.content = Len(log)]
  <2> HIDE DEF c
  <2>4. CASE Become(r, Quiet(read[r])) BY <1>1, <1>2, <2>4
  <2>5. CASE Become(r, c) BY <1>1, <2>2, <2>5 DEF c
  <2> QED BY <2>3, <2>4, <2>5 DEF c
<1>10. ASSUME NEW r \in Readers, LookupThread(r) \/ ReadLabels(r)
       PROVE  read'[u] = read[u] \/ LookupThread(u) \/ ReadLabels(u)
  <2>1. PICK c : Become(r, c)
    <3>1. CASE LookupThread(r) BY <3>1 DEF LookupThread
    <3>2. CASE ReadLabels(r)
      <4>1. PICK m \in read[r].todo : Become(r, Labelled(r, m)) BY <3>2, LabelsAreRead
      <4> QED BY <4>1
    <3> QED BY <1>10, <3>1, <3>2
  <2> QED BY <1>1, <1>10, <2>1
<1> QED
  BY <1>4, <1>5, <1>6, <1>7, <1>8, <1>9, <1>10
  DEF Next, PassStep, ReadStep, WriteThread, WriteSummary, WriteQuery, DropCall, Return

-----------------------------------------------------------------------------
(* What the promise about hits rests on.                                     *)

(* Records are applied from the watermark on, and first_touch only happens   *)
(* to a cache that has none.                                                 *)
PassInv ==
  /\ sync[Background].pc \in Applying => watermark # NoId /\ watermark <= sync[Background].done
  /\ sync[Background].pc \in {"profile", "seed"} => watermark = NoId

FetchInv == \A r \in Readers : read[r].pc = "insert" => read[r].content <= Len(log)

DeadAreExpunged == \A m \in Messages : row[m].dead => Expunged(m, Len(log))

RowsKept == \A t \in Threads \ missed, w \in Nat : w = Past => KeptFrom(t, w)

\* The rows of t are what threads.get answered at k.
AsFetched(t, k) ==
  /\ k <= Len(log)
  /\ \A m \in InThread(t) :
       /\ Exists(m, k) => row[m].body # "none"
       /\ row[m].body = "full" => Exists(m, k) /\ row[m].labels = LabelsAt(m, k)

(* Until the first pass, no record changes what was fetched.                 *)
FirstRows ==
  watermark = NoId =>
    \A t \in Threads, k \in Nat : k = fetchedAt[t] /\ Full(t) => AsFetched(t, k)

RowsInv == InOrder /\ PassInv /\ FetchInv /\ DeadAreExpunged /\ RowsKept /\ FirstRows

(* One record more, or the page or the pass is over.                         *)
LEMMA OneMoreApplied ==
  ASSUME Typed, NEW p \in Tasks, ApplyRecord(p)
  PROVE  /\ sync[p].pc = "apply" /\ sync[p].done + 1 \in 1..Len(log)
         /\ ApplyHistoryRecord(log[sync[p].done + 1])
         /\ UNCHANGED <<log, fetchedAt, missed>>
         /\ \/ sync'[p].pc = "idle"
            \/ /\ sync'[p].pc \in Applying
               /\ sync'[p].done = sync[p].done + 1
<1> DEFINE s == [sync[p] EXCEPT !.done = @ + 1]
<1>0. /\ sync \in [Tasks -> Pass] /\ p \in Tasks /\ sync[p] \in Pass /\ Len(log) \in Nat
  BY DEF Typed, TypeOK, SyncTypeOK, MailboxTypeOK
<1>1. sync[p].pc = "apply" /\ sync[p].done < sync[p].upto /\ sync[p].upto <= Len(log)
  BY <1>0 DEF ApplyRecord, Typed, WatermarkBehindMailbox
<1>2. s \in Pass /\ s.pc = "apply" /\ s.done = sync[p].done + 1
  <2>1. sync[p].done + 1 \in Nat BY <1>0 DEF Pass
  <2> QED BY <1>0, <1>1, <2>1 DEF Pass
<1>3. /\ ApplyHistoryRecord(log[s.done]) /\ UNCHANGED <<log, fetchedAt, missed>>
      /\ Goto(p, IF s.done < s.upto THEN s ELSE AfterPage(s))
  BY DEF ApplyRecord
<1>4. sync[p].done + 1 \in 1..Len(log) BY <1>0, <1>1 DEF Pass
<1> HIDE DEF s
<1>5. AfterPage(s).pc = "idle" \/ (AfterPage(s).pc \in Applying /\ AfterPage(s).done = s.done)
  <2>1. ASSUME NEW pc PROVE [s EXCEPT !.pc = pc].pc = pc /\ [s EXCEPT !.pc = pc].done = s.done
    BY <1>2 DEF Pass
  <2>2. Resting.pc = "idle" BY DEF Resting
  <2> QED BY <2>1, <2>2 DEF AfterPage, Applying
<1>6. sync'[p] = s \/ sync'[p] = AfterPage(s) BY <1>0, <1>3 DEF Goto
<1> QED BY <1>1, <1>2, <1>3, <1>4, <1>5, <1>6 DEF Applying

LEMMA ApplyMoves ==
  ASSUME Typed, ApplyRecord(Background)
  PROVE  /\ sync[Background].pc = "apply" /\ sync[Background].done + 1 \in 1..Len(log)
         /\ ApplyHistoryRecord(log[sync[Background].done + 1])
         /\ UNCHANGED <<log, fetchedAt, missed>>
         /\ \/ sync'[Background].pc = "idle"
            \/ /\ sync'[Background].pc \in Applying
               /\ sync'[Background].done = sync[Background].done + 1
BY OneMoreApplied, ServiceAssumption

(* The steps that set the watermark end the pass.                            *)
LEMMA SettingEnds ==
  ASSUME Typed, SeedWatermark(Background) \/ AdvanceWatermark(Background) \/ Reseed(Background)
  PROVE  /\ sync'[Background].pc = "idle" /\ UNCHANGED <<log, fetchedAt>>
         /\ sync[Background].latest \in Nat /\ watermark' = sync[Background].latest
         /\ Past' = sync[Background].latest
<1>1. sync'[Background] = Resting /\ sync[Background].latest \in Nat
  BY ServiceAssumption
  DEF SeedWatermark, AdvanceWatermark, Reseed, Finish, Goto, Typed, TypeOK, SyncTypeOK, Pass
<1>2. watermark' = sync[Background].latest /\ UNCHANGED <<log, fetchedAt>>
  BY DEF SeedWatermark, AdvanceWatermark, Reseed, SetWatermark, ReseedAccount
<1>3. Resting.pc = "idle" /\ "idle" \notin Applying BY DEF Resting, Applying
<1>4. Past' = Floor' BY <1>1, <1>3 DEF Past, Applying
<1> QED BY <1>1, <1>2, <1>3, <1>4 DEF Floor, NoId

LEMMA PastType ==
  ASSUME Typed
  PROVE  Past \in Nat /\ Past <= Len(log) /\ Floor \in Nat /\ Floor <= Len(log)
<1>1. /\ sync[Background] \in Pass /\ sync[Background].done <= Len(log) /\ Len(log) \in Nat
      /\ watermark <= Len(log) /\ Floor \in Nat
  BY ServiceAssumption, FloorType
  DEF Typed, TypeOK, SyncTypeOK, StoreTypeOK, MailboxTypeOK, WatermarkBehindMailbox
<1> QED BY <1>1 DEF Past, Floor, Pass

LEMMA PassInvNext ==
  ASSUME Typed, OnePass, ~SyncOnRead, RowsLast, [Next]_vars, PassInv
  PROVE  PassInv'
<1>0. /\ watermark \in Nat \cup {NoId} /\ sync[Background].done \in Nat
  BY ServiceAssumption DEF Typed, TypeOK, StoreTypeOK, SyncTypeOK, Pass
<1>1. CASE UNCHANGED <<watermark, sync>> BY <1>1 DEF PassInv
<1>2. CASE Untouched /\ PassGoes(Background)
  BY <1>0, <1>2 DEF Untouched, PassGoes, PassInv, Applying, NoId
<1>3. CASE ApplyRecord(Background)
  <2>1. UNCHANGED watermark /\ watermark # NoId /\ watermark <= sync[Background].done + 1
    BY <1>0, <1>3, ApplyMoves DEF ApplyHistoryRecord, PassInv, Applying, NoId
  <2> QED BY <1>3, <2>1, ApplyMoves DEF PassInv, Applying
<1>4. CASE SeedWatermark(Background) \/ AdvanceWatermark(Background) \/ Reseed(Background)
  BY <1>4, SettingEnds DEF PassInv, Applying
<1>5. ASSUME NEW r \in Readers, WriteThread(r) \/ WriteSummary(r) PROVE UNCHANGED <<watermark, sync>>
  BY <1>5 DEF WriteThread, WriteSummary, InsertThread, InsertSummary
<1>6. ASSUME NEW old \in SUBSET Messages, PurgeOldBodies(old) PROVE UNCHANGED watermark
  BY <1>6 DEF PurgeOldBodies
<1> QED BY <1>1, <1>2, <1>3, <1>4, <1>5, <1>6, StepKinds

LEMMA FetchInvNext ==
  ASSUME Typed, InOrder, [Next]_vars, FetchInv
  PROVE  FetchInv'
<1>0. /\ Len(log) \in Nat /\ Len(log') \in Nat /\ Len(log) <= Len(log')
      /\ \A r \in Readers : read[r] \in Call /\ read[r].content \in Nat
  BY HistoryGoesOn DEF LogExtends, Typed, TypeOK, ServiceTypeOK, MailboxTypeOK, Call
<1>1. ASSUME NEW u \in Readers, read'[u].pc = "insert" PROVE read'[u].content <= Len(log')
  <2>1. CASE read'[u] = read[u] BY <1>0, <1>1, <2>1 DEF FetchInv
  <2>2. CASE read'[u].content = Len(log) BY <1>0, <2>2
  <2>3. CASE LookupThread(u)
    <3>1. \A ids : Hit(u, ids).pc # "insert" BY <1>0 DEF Hit, Call
    <3>2. Miss(u).pc # "insert" BY <1>0 DEF Miss, Call
    <3>3. Become(u, Hit(u, Live(read[u].thread))) \/ Become(u, Miss(u)) BY <2>3 DEF LookupThread
    <3> QED BY <1>1, <3>1, <3>2, <3>3, OtherCallsStay
  <2>4. CASE ReadLabels(u)
    <3>1. \A m : Labelled(u, m).pc # "insert" BY <1>0 DEF Labelled, Call
    <3> QED BY <1>1, <2>4, <3>1, LabelsAreRead, OtherCallsStay
  <2> QED BY <1>1, <2>1, <2>2, <2>3, <2>4, ReadKinds
<1> QED BY <1>1 DEF FetchInv

LEMMA DeadAreExpungedNext ==
  ASSUME Typed, Unevicted, [Next]_vars, InOrder, DeadAreExpunged
  PROVE  DeadAreExpunged'
<1>0. /\ LogExtends /\ log \in Seq(Event) /\ Len(log) \in Nat /\ row \in [Messages -> Row]
  BY HistoryGoesOn DEF Typed, TypeOK, MailboxTypeOK, StoreTypeOK
<1>1. \A m : Expunged(m, Len(log)) => Expunged(m, Len(log))'
  BY <1>0 DEF Expunged, LogExtends
<1>2. ASSUME \A m \in Messages : row'[m].dead => row[m].dead PROVE DeadAreExpunged'
  BY <1>1, <1>2 DEF DeadAreExpunged
<1>3. NoRow.dead = FALSE BY DEF NoRow
<1>4. CASE UNCHANGED row BY <1>2, <1>4
<1>5. ASSUME NEW p \in Tasks, ApplyRecord(p) PROVE DeadAreExpunged'
  <2> DEFINE n == sync[p].done + 1
             e == log[n]
  <2>1. n \in 1..Len(log) /\ ApplyHistoryRecord(e) BY <1>5, OneMoreApplied
  <2>2. e \in Event /\ e.msg \in Messages
    <3>1. e \in Event BY <1>0, <2>1
    <3> QED BY <3>1 DEF Event
  <2>3. \A m \in Messages : row'[m] = IF m = e.msg THEN Applied(e, row[m]) ELSE row[m]
    BY <1>0, <2>1 DEF ApplyHistoryRecord
  <2>4. e.kind = "messagesDeleted" => Expunged(e.msg, Len(log)) BY <2>1 DEF Expunged
  <2> HIDE DEF e, n
  <2>5. e.kind # "messagesDeleted" => (Applied(e, row[e.msg]).dead => row[e.msg].dead)
    <3>1. row[e.msg] \in Row /\ OrStub(row[e.msg]) \in Row
          /\ (OrStub(row[e.msg]).dead => row[e.msg].dead)
      BY <1>0, <2>2 DEF OrStub, Stub, NoRow, Row
    <3>2. ASSUME NEW x \in Row, NEW ls PROVE [x EXCEPT !.labels = ls].dead = x.dead BY DEF Row
    <3> QED BY <2>2, <3>1, <3>2 DEF Applied, Event
  <2> QED BY <1>1, <2>2, <2>3, <2>4, <2>5 DEF DeadAreExpunged
<1>6. ASSUME NEW p \in Tasks, Reseed(p) PROVE DeadAreExpunged'
  BY <1>2, <1>3, <1>6 DEF Reseed, ReseedAccount
<1>7. ASSUME NEW r \in Readers, WriteThread(r) PROVE DeadAreExpunged'
  BY <1>2, <1>3, <1>7 DEF WriteThread, InsertThread
<1>8. ASSUME NEW r \in Readers, WriteSummary(r) PROVE DeadAreExpunged'
  BY <1>2, <1>3, <1>8 DEF WriteSummary, InsertSummary
<1>9. ASSUME NEW old \in SUBSET Messages, PurgeOldBodies(old) PROVE DeadAreExpunged'
  <2>1. \A m \in Messages : [row[m] EXCEPT !.body = "headers"].dead = row[m].dead
    BY <1>0 DEF Row
  <2> QED BY <1>2, <1>9, <2>1 DEF PurgeOldBodies
<1>10. ASSUME NEW p \in Tasks, SeedWatermark(p) \/ AdvanceWatermark(p) PROVE DeadAreExpunged'
  BY <1>4, <1>10 DEF SeedWatermark, AdvanceWatermark, SetWatermark
<1>11. CASE InvalidateAllLabels
  <2>1. \A m \in Messages : [row[m] EXCEPT !.labels = {}].dead = row[m].dead
    BY <1>0 DEF Row
  <2> QED BY <1>2, <1>11, <2>1 DEF InvalidateAllLabels
<1> QED BY <1>4, <1>5, <1>6, <1>7, <1>8, <1>9, <1>10, <1>11, OverlapKinds DEF Untouched

(* The same of the rows after a step.                                        *)
LEMMA KeptFromEarlierThen ==
  ASSUME log' \in Seq(Event), NEW t, NEW v \in Nat, NEW w \in Nat, v <= w, KeptFrom(t, w)'
  PROVE  KeptFrom(t, v)'
<1>1. \A k \in w..Len(log') : k \in v..Len(log') OBVIOUS
<1> QED BY <1>1 DEF KeptFrom, Shows

LEMMA NoneFull ==
  ASSUME NEW t, NEW w, \A m \in InThread(t) : row'[m].body # "full"
  PROVE  KeptFrom(t, w)'
BY DEF KeptFrom, Full, InThread

(* Rows that are what was fetched at k tell of k.                            *)
LEMMA FirstRowsKept ==
  ASSUME UNCHANGED <<log, row>>, log \in Seq(Event), NEW t, NEW k \in Nat, AsFetched(t, k),
         NEW w \in Nat, w <= k
  PROVE  KeptFrom(t, w)'
<1>1. InThread(t)' = InThread(t) /\ k \in w..Len(log) BY DEF InThread, AsFetched
<1>2. ASSUME NEW m \in InThread(t), row[m].body = "full", NEW l \in Labels
      PROVE  Arrived(m, k) /\ ((l \in row[m].labels) <=> Tagged(m, l, k))
  BY <1>2 DEF AsFetched, LabelsAt, Exists
<1>3. \A m \in InThread(t) :
        row'[m].body = "full" /\ ~row'[m].dead
          => (\E j \in w..Len(log) : Exists(m, j)') /\ Shows(m, w, row[m].labels)'
  BY <1>1, <1>2, SameMailbox DEF Shows, AsFetched
<1>4. \A m \in InThread(t) : (\A j \in w..Len(log) : Exists(m, j)') => row'[m].body # "none"
  BY <1>1, SameMailbox DEF AsFetched
<1> QED BY <1>1, <1>3, <1>4 DEF KeptFrom

LEMMA AsFetchedStays ==
  ASSUME LogExtends, NEW t, NEW k \in Nat, AsFetched(t, k),
         \A m \in InThread(t) : row'[m].body = "full" => row'[m] = row[m],
         \A m \in InThread(t) : row'[m].body = "none" => row[m].body = "none"
  PROVE  AsFetched(t, k)'
<1>1. k \in 0..Len(log) /\ k <= Len(log') BY DEF AsFetched, LogExtends
<1>2. ASSUME NEW m PROVE Exists(m, k)' = Exists(m, k) /\ LabelsAt(m, k)' = LabelsAt(m, k)
  BY <1>1, PastIsFixed DEF LabelsAt
<1> QED BY <1>1, <1>2 DEF AsFetched, InThread

(* Between two steps of a pass, and when it ends, less is promised.          *)
LEMMA PastFalls ==
  ASSUME Typed, PassInv, Untouched, PassGoes(Background)
  PROVE  Past' <= Past
<1>1. /\ watermark \in Nat \cup {NoId} /\ sync[Background].done \in Nat /\ Floor \in Nat
      /\ Floor' = Floor
  BY ServiceAssumption, FloorType
  DEF Typed, TypeOK, StoreTypeOK, SyncTypeOK, Pass, Untouched, Floor
<1>2. Floor <= Past BY <1>1 DEF Past, PassInv, Floor, NoId
<1>3. CASE sync'[Background] = sync[Background] BY <1>1, <1>3 DEF Past
<1>4. CASE sync'[Background].pc \notin Applying
  <2>1. Past' = Floor BY <1>1, <1>4 DEF Past, Applying
  <2> QED BY <1>2, <2>1
<1>5. CASE /\ sync'[Background].pc \in Applying /\ sync[Background].pc \in Applying
           /\ sync'[Background].done = sync[Background].done
  <2>1. Past' = Past BY <1>5 DEF Past, Applying
  <2> QED BY <1>1, <2>1 DEF Past
<1>6. CASE sync'[Background].pc \in Applying /\ watermark # NoId /\ sync'[Background].done = watermark
  <2>1. Past' = Floor BY <1>6 DEF Past, Applying, Floor
  <2> QED BY <1>2, <2>1
<1> QED BY <1>3, <1>4, <1>5, <1>6 DEF PassGoes, Applying

(* What an upkeep or a metadata write leaves of a thread.                    *)
LEMMA PurgeFades ==
  ASSUME row \in [Messages -> Row], NEW old \in SUBSET Messages, PurgeOldBodies(old),
         NEW m \in Messages
  PROVE  /\ row'[m].body = "full" => row'[m] = row[m]
         /\ row'[m].body = "none" => row[m].body = "none"
         /\ row'[m].labels = row[m].labels
         /\ row'[m].body \in {"full", "headers"} => row[m].body \in {"full", "headers"}
<1>1. /\ [row[m] EXCEPT !.body = "headers"].body = "headers"
      /\ [row[m] EXCEPT !.body = "headers"].labels = row[m].labels
  BY DEF Row
<1> QED BY <1>1 DEF PurgeOldBodies

LEMMA SummaryFades ==
  ASSUME NEW u, NEW k, InsertSummary(u, k), NEW t
  PROVE  \/ \A m \in InThread(t) : row'[m] = row[m]
         \/ t = u /\ \A m \in InThread(t) : row'[m] = NoRow
BY DEF InsertSummary, InThread

LEMMA RowsKeptNext ==
  ASSUME Typed, PageInv, OnePass, ~SyncOnRead, RowsLast, [Next]_vars, RowsInv
  PROVE  RowsKept'
<1> SUFFICES ASSUME NEW t \in Threads, t \notin missed', NEW w \in Nat, w = Past'
             PROVE  KeptFrom(t, w)'
  BY DEF RowsKept
<1>0. /\ LogExtends /\ log \in Seq(Event) /\ log' \in Seq(Event) /\ row \in [Messages -> Row]
      /\ Past \in Nat /\ Past <= Len(log) /\ sync[Background] \in Pass /\ watermark \in Nat \cup {NoId}
      /\ t \notin missed => KeptFrom(t, Past)
  BY HistoryGoesOn, PastType, ServiceAssumption
  DEF LogExtends, Typed, TypeOK, MailboxTypeOK, StoreTypeOK, SyncTypeOK, RowsInv, RowsKept
<1>1. ASSUME NEW v \in Nat, w <= v, KeptFrom(t, v), UNCHANGED <<log, row>> PROVE KeptFrom(t, w)'
  <2>1. KeptFrom(t, w) BY <1>0, <1>1, KeptFromEarlier
  <2> QED BY <1>1, <2>1, RowsFade
<1>2. CASE UNCHANGED <<watermark, row, fetchedAt, missed, sync, read>>
  <2>1. Past' = Past /\ t \notin missed BY <1>2 DEF Past, Floor
  <2> QED BY <1>0, <1>2, <2>1, KeptFromGrows
<1>3. CASE Untouched /\ PassGoes(Background)
  <2>1. w <= Past /\ t \notin missed /\ UNCHANGED <<log, row>>
    BY <1>3, PastFalls DEF RowsInv, Untouched
  <2> QED BY <1>0, <1>1, <2>1
<1>4. CASE ApplyRecord(Background)
  <2> DEFINE n == sync[Background].done + 1
  <2>1. /\ n \in 1..Len(log) /\ ApplyHistoryRecord(log[n]) /\ UNCHANGED <<log, missed>>
        /\ Past = n - 1 /\ Floor <= n - 1
    BY <1>0, <1>4, ApplyMoves DEF Past, Applying, RowsInv, PassInv, Floor, Pass
  <2>2. w <= n /\ n \in Nat
    <3>1. Floor' = Floor BY <2>1 DEF ApplyHistoryRecord, Floor
    <3>2. Past' = Floor \/ Past' = n BY <1>4, <3>1, ApplyMoves DEF Past, Applying
    <3>3. Floor \in Nat /\ n \in Nat BY <1>0, <2>1, PastType
    <3> HIDE DEF n
    <3> QED BY <2>1, <3>2, <3>3
  <2>3. KeptFrom(t, n - 1)
    <3>1. KeptFrom(t, Past) BY <1>0, <2>1
    <3> QED BY <2>1, <3>1
  <2>4. SUFFICES ASSUME NEW i \in Nat, i = n PROVE KeptFrom(t, w)' BY <2>2
  <2>5. KeptFrom(t, i)'
    <3>1. /\ i \in 1..Len(log) /\ ApplyHistoryRecord(log[i]) /\ UNCHANGED log
          /\ KeptFrom(t, i - 1) /\ InOrder
      BY <2>1, <2>3, <2>4 DEF RowsInv
    <3> QED BY <1>0, <3>1, RecordKept
  <2>6. w <= i BY <2>2, <2>4
  <2> QED BY <1>0, <2>5, <2>6, KeptFromEarlierThen
<1>5. CASE SeedWatermark(Background)
  <2> DEFINE k == fetchedAt[t]
  <2>1. /\ UNCHANGED <<log, row>> /\ w = sync[Background].latest /\ watermark = NoId
        /\ missed' = missed \cup {u \in Threads : Cached(u) # {} /\ fetchedAt[u] < sync[Background].latest}
    BY <1>5, SettingEnds DEF SeedWatermark, SetWatermark, RowsInv, PassInv
  <2>2. k \in Nat BY DEF Typed, TypeOK, SyncTypeOK
  <2>3. CASE Full(t)
    <3>1. Cached(t) # {} BY <2>3 DEF Full, Cached
    <3>2. w <= k BY <2>1, <2>2, <3>1
    <3>3. AsFetched(t, k) BY <2>1, <2>2, <2>3 DEF RowsInv, FirstRows
    <3> HIDE DEF k
    <3> QED BY <1>0, <2>1, <2>2, <3>2, <3>3, FirstRowsKept
  <2>4. CASE ~Full(t) BY <2>1, <2>4, NoneFull DEF Full
  <2> QED BY <2>3, <2>4
<1>6. CASE AdvanceWatermark(Background)
  <2>1. /\ UNCHANGED <<log, row>> /\ w = sync[Background].latest /\ sync[Background].pc = "advance"
        /\ missed' = IF sync[Background].more
                     THEN missed \cup {u \in Threads : Cached(u) # {}} ELSE missed
    BY <1>6, SettingEnds DEF AdvanceWatermark, SetWatermark
  <2>2. CASE sync[Background].more
    <3>1. Cached(t) = {} BY <2>1, <2>2
    <3> QED BY <2>1, <3>1, NoneFull DEF Cached
  <2>3. CASE ~sync[Background].more
    <3>1. Paged(sync[Background]) BY ServiceAssumption DEF PageInv
    <3>2. w <= Past /\ t \notin missed BY <2>1, <2>3, <3>1 DEF Paged, Past, Applying
    <3> QED BY <1>0, <1>1, <2>1, <3>2
  <2> QED BY <2>2, <2>3
<1>7. CASE Reseed(Background)
  <2>1. \A m \in InThread(t) : row'[m] = NoRow BY <1>7 DEF Reseed, ReseedAccount, InThread
  <2> QED BY <2>1, NoneFull DEF NoRow
<1>8. ASSUME NEW r \in Readers, WriteThread(r) PROVE KeptFrom(t, w)'
  <2> DEFINE u == read[r].thread
             k == read[r].content
  <2>1. /\ InsertThread(u, k) /\ UNCHANGED <<log, sync, watermark>>
        /\ missed' = IF AppliedPast(k) THEN missed \cup {u} ELSE missed \ {u}
        /\ read[r].pc = "insert"
    BY <1>8 DEF WriteThread, InsertThread, At
  <2>2. k \in Nat /\ k <= Len(log)
    BY <2>1 DEF RowsInv, FetchInv, Typed, TypeOK, ServiceTypeOK, Call
  <2>3. w = Past BY <2>1 DEF Past, Floor
  <2> HIDE DEF k, u
  <2>4. CASE t = u
    <3>1. ~(watermark > k) /\ ~(sync[Background].done > k)
      BY <2>1, <2>4, ServiceAssumption DEF AppliedPast
    <3>2. w <= k BY <1>0, <2>2, <2>3, <3>1 DEF Past, Floor, Pass, NoId
    <3> QED BY <1>0, <2>1, <2>2, <2>4, <3>2, FetchKept
  <2>5. CASE t # u
    <3>1. \A m \in InThread(t) : row'[m] = row[m] BY <2>1, <2>5 DEF InsertThread, InThread
    <3>2. t \notin missed BY <2>1, <2>5
    <3> QED BY <1>0, <2>1, <2>3, <3>1, <3>2, RowsFade
  <2> QED BY <2>4, <2>5
<1>9. ASSUME NEW r \in Readers, WriteSummary(r) PROVE KeptFrom(t, w)'
  <2> DEFINE u == read[r].thread
             k == read[r].content
  <2>1. InsertSummary(u, k) /\ UNCHANGED <<log, sync, watermark, missed>>
    BY <1>9 DEF WriteSummary, InsertSummary
  <2>2. w = Past BY <2>1 DEF Past, Floor
  <2> HIDE DEF k, u
  <2>3. CASE \A m \in InThread(t) : row'[m] = row[m] BY <1>0, <2>1, <2>2, <2>3, RowsFade
  <2>4. CASE \A m \in InThread(t) : row'[m] = NoRow BY <2>4, NoneFull DEF NoRow
  <2> QED BY <2>1, <2>3, <2>4, SummaryFades
<1>10. ASSUME UNCHANGED <<log, fetchedAt, missed, sync, read>>,
              NEW old \in SUBSET Messages, PurgeOldBodies(old)
       PROVE  KeptFrom(t, w)'
  <2>1. w = Past BY <1>10 DEF PurgeOldBodies, Past, Floor
  <2>2. \A m \in InThread(t) : m \in Messages BY DEF InThread
  <2> QED BY <1>0, <1>10, <2>1, <2>2, PurgeFades, RowsFade
<1> QED BY <1>2, <1>3, <1>4, <1>5, <1>6, <1>7, <1>8, <1>9, <1>10, StepKinds

LEMMA FirstRowsNext ==
  ASSUME Typed, OnePass, ~SyncOnRead, RowsLast, [Next]_vars, RowsInv
  PROVE  FirstRows'
<1> SUFFICES ASSUME watermark' = NoId, NEW t \in Threads, NEW k \in Nat, k = fetchedAt'[t], Full(t)'
             PROVE  AsFetched(t, k)'
  BY DEF FirstRows
<1>0. /\ LogExtends /\ log \in Seq(Event) /\ row \in [Messages -> Row] /\ Len(log) \in Nat
      /\ fetchedAt \in [Threads -> Nat] /\ NoId \notin Nat
  BY HistoryGoesOn
  DEF LogExtends, Typed, TypeOK, MailboxTypeOK, StoreTypeOK, SyncTypeOK, NoId, RowsInv
<1>1. ASSUME watermark = NoId, k = fetchedAt[t], \A m \in InThread(t) : row'[m].body = "full" => row'[m] = row[m],
             \A m \in InThread(t) : row'[m].body = "none" => row[m].body = "none"
      PROVE  AsFetched(t, k)'
  <2>1. Full(t) BY <1>1 DEF Full, InThread
  <2>2. AsFetched(t, k) BY <1>1, <2>1 DEF RowsInv, FirstRows
  <2> QED BY <1>0, <1>1, <2>2, AsFetchedStays
<1>2. CASE UNCHANGED <<watermark, row, fetchedAt>> BY <1>1, <1>2
<1>3. CASE ApplyRecord(Background)
  BY <1>3, ApplyMoves DEF ApplyHistoryRecord, RowsInv, PassInv, Applying
<1>4. CASE SeedWatermark(Background) \/ AdvanceWatermark(Background) \/ Reseed(Background)
  BY <1>0, <1>4, SettingEnds
<1>5. ASSUME NEW r \in Readers, WriteThread(r) PROVE AsFetched(t, k)'
  <2> DEFINE u == read[r].thread
             j == read[r].content
  <2>1. /\ InsertThread(u, j) /\ UNCHANGED <<log, watermark>> /\ read[r].pc = "insert"
        /\ fetchedAt' = [fetchedAt EXCEPT ![u] = j]
    BY <1>5 DEF WriteThread, InsertThread, At
  <2>2. j \in Nat /\ j <= Len(log)
    BY <2>1 DEF RowsInv, FetchInv, Typed, TypeOK, ServiceTypeOK, Call
  <2> HIDE DEF j, u
  <2>3. CASE t = u
    <3>1. k = j BY <1>0, <2>1, <2>3
    <3>2. ASSUME NEW m \in InThread(t)
          PROVE  /\ Exists(m, k) => row'[m].body # "none"
                 /\ row'[m].body = "full" => Exists(m, k) /\ row'[m].labels = LabelsAt(m, k)
      <4>1. row'[m] = IF Exists(m, k) THEN [body |-> "full", dead |-> FALSE, labels |-> LabelsAt(m, k)]
                      ELSE NoRow
        BY <2>1, <2>3, <3>1 DEF InsertThread, InThread
      <4>2. CASE Exists(m, k)
        <5>1. row'[m] = [body |-> "full", dead |-> FALSE, labels |-> LabelsAt(m, k)] BY <4>1, <4>2
        <5> QED BY <4>2, <5>1
      <4>3. CASE ~Exists(m, k)
        <5>1. row'[m] = NoRow BY <4>1, <4>3
        <5> QED BY <4>3, <5>1 DEF NoRow
      <4> QED BY <4>2, <4>3
    <3>3. \A m : Exists(m, k)' = Exists(m, k) /\ LabelsAt(m, k)' = LabelsAt(m, k)
      BY <2>1, SameMailbox DEF LabelsAt
    <3> QED BY <2>1, <2>2, <3>1, <3>2, <3>3 DEF AsFetched, InThread
  <2>4. CASE t # u
    <3>1. \A m \in InThread(t) : row'[m] = row[m] BY <2>1, <2>4 DEF InsertThread, InThread
    <3>2. fetchedAt'[t] = fetchedAt[t] BY <1>0, <2>1, <2>4
    <3> QED BY <1>1, <2>1, <3>1, <3>2
  <2> QED BY <2>3, <2>4
<1>6. ASSUME NEW r \in Readers, WriteSummary(r) PROVE AsFetched(t, k)'
  <2> DEFINE u == read[r].thread
             j == read[r].content
  <2>1. InsertSummary(u, j) /\ UNCHANGED <<watermark, fetchedAt>>
    BY <1>6 DEF WriteSummary, InsertSummary
  <2> HIDE DEF j, u
  <2>2. CASE \A m \in InThread(t) : row'[m] = row[m] BY <1>1, <2>1, <2>2
  <2>3. CASE \A m \in InThread(t) : row'[m] = NoRow BY <2>3 DEF Full, InThread, NoRow
  <2> QED BY <2>1, <2>2, <2>3, SummaryFades
<1>7. ASSUME UNCHANGED <<log, fetchedAt, missed, sync, read>>,
             NEW old \in SUBSET Messages, PurgeOldBodies(old)
      PROVE  AsFetched(t, k)'
  <2>1. UNCHANGED watermark BY <1>7 DEF PurgeOldBodies
  <2>2. \A m \in InThread(t) : m \in Messages BY DEF InThread
  <2> QED BY <1>0, <1>1, <1>7, <2>1, <2>2, PurgeFades
<1> QED BY <1>2, <1>3, <1>4, <1>5, <1>6, <1>7, StepKinds DEF Untouched

LEMMA RowsInvNext ==
  ASSUME Typed, PageInv, OnePass, ~SyncOnRead, RowsLast, [Next]_vars, RowsInv
  PROVE  RowsInv'
<1>1. InOrder /\ PassInv /\ FetchInv /\ DeadAreExpunged BY DEF RowsInv
<1>2. InOrder' BY <1>1, HistoryGoesOn
<1>3. PassInv' BY <1>1, PassInvNext
<1>4. FetchInv' BY <1>1, FetchInvNext
<1>5. DeadAreExpunged' BY <1>1, DeadAreExpungedNext DEF RowsLast, Unevicted
<1>6. RowsKept' BY RowsKeptNext
<1>7. FirstRows' BY FirstRowsNext
<1> QED BY <1>2, <1>3, <1>4, <1>5, <1>6, <1>7 DEF RowsInv

LEMMA RowsInvInit == Init => RowsInv
<1> SUFFICES ASSUME Init PROVE RowsInv OBVIOUS
<1>0. Resting.pc = "idle" /\ NoRow.dead = FALSE /\ NoRow.body = "none" BY DEF Resting, NoRow
<1>1. InOrder
  <2>1. PICK m \in Messages : log = <<Change("messagesAdded", m, {})>> BY DEF Init, MailboxInit
  <2>2. Len(log) = 1 /\ log[1].kind = "messagesAdded" /\ (1..(1 - 1)) = {} BY <2>1 DEF Change
  <2>3. \A i \in 1..Len(log) : i = 1 BY <2>2
  <2> QED BY <2>2, <2>3 DEF InOrder, Arrived
<1>2. PassInv BY <1>0, ServiceAssumption DEF Init, SyncInit, PassInv, Applying
<1>3. FetchInv
  <2>1. \A c : Quiet(c).pc = "idle" BY DEF Quiet, Fresh
  <2> QED BY <2>1 DEF Init, NoCalls, FetchInv
<1>4. DeadAreExpunged BY <1>0 DEF Init, StoreInit, DeadAreExpunged
<1>5. \A t : ~Full(t) BY <1>0 DEF Init, StoreInit, Full, InThread
<1>6. RowsKept /\ FirstRows BY <1>5 DEF RowsKept, FirstRows, KeptFrom, Full
<1> QED BY <1>1, <1>2, <1>3, <1>4, <1>6 DEF RowsInv

(* A thread that counts as a hit is what RowsKept says of its rows, at the   *)
(* watermark: whoever is gone is marked so, whoever is there has a row.      *)
LEMMA HitIsCoherent ==
  ASSUME Typed, RowsInv, NEW t \in Threads, t \notin missed, ThreadHit(t)
  PROVE  NoOlderThan(Floor, t, Live(t), RowLabels)
<1>1. /\ Past \in Nat /\ Floor \in Nat /\ Floor <= Past /\ log \in Seq(Event)
      /\ Floor <= Len(log) /\ Len(log) \in Nat
  <2>1. watermark \in Nat \cup {NoId} BY DEF Typed, TypeOK, StoreTypeOK
  <2>2. Floor <= Past BY <2>1, PastType DEF Past, RowsInv, PassInv, Floor, NoId
  <2> QED BY <2>2, PastType DEF Typed, TypeOK, MailboxTypeOK
<1>2. KeptFrom(t, Past) BY <1>1 DEF RowsInv, RowsKept
<1>3. KeptFrom(t, Floor) BY <1>1, <1>2, KeptFromEarlier
<1>4. Live(t) # {} /\ \A m \in Live(t) : row[m].body = "full" BY DEF ThreadHit
<1>5. Full(t) BY <1>4 DEF Full, Live, Cached
<1>6. ASSUME NEW m \in InThread(t), m \in Live(t)
      PROVE  /\ \E k \in Floor..Len(log) : Exists(m, k)
             /\ Shows(m, Floor, row[m].labels) /\ m \in Messages
  BY <1>3, <1>4, <1>6 DEF KeptFrom, Live, Cached, InThread
<1>7. ASSUME NEW m \in InThread(t), \A k \in Floor..Len(log) : Exists(m, k)
      PROVE  m \in Live(t)
  <2>1. row[m].body # "none" BY <1>3, <1>5, <1>7 DEF KeptFrom
  <2>2. Len(log) \in Floor..Len(log) BY <1>1
  <2>3. ~row[m].dead BY <1>7, <2>2 DEF RowsInv, DeadAreExpunged, Exists, InThread
  <2> QED BY <2>1, <2>3 DEF Live, Cached
<1>8. ASSUME NEW m \in InThread(t), m \in Live(t), NEW l \in Labels
      PROVE  \E k \in Floor..Len(log) : (l \in RowLabels[m]) <=> Tagged(m, l, k)
  <2>1. RowLabels[m] = row[m].labels BY <1>6, <1>8 DEF RowLabels
  <2> QED BY <1>6, <1>8, <2>1 DEF Shows
<1> QED BY <1>6, <1>7, <1>8 DEF NoOlderThan, ShownSince

LEMMA RowsAlways ==
  ~SyncOnRead /\ RowsLast => (Spec => [](Typed /\ PageInv /\ OnePass /\ RowsInv))
<1> SUFFICES ASSUME ~SyncOnRead, RowsLast
             PROVE  Spec => [](Typed /\ PageInv /\ OnePass /\ RowsInv)
  OBVIOUS
<1> DEFINE Inv == Typed /\ PageInv /\ OnePass /\ RowsInv
<1>1. Inv /\ [Next]_vars => Inv' BY StepTyping, PageInvNext, OnePassNext, RowsInvNext
<1>2. Init => Inv BY InitTyping, PageInvInit, OnePassInit, RowsInvInit
<1> QED BY <1>1, <1>2, PTL DEF Spec

(* As long as only the background task syncs, and neither eviction nor       *)
(* cache_invalidate takes rows or labels out from under a thread: whatever   *)
(* get_thread would serve from the cache is no older than last_history_id,   *)
(* in the middle of a pass, after a failed one and after its replay, for a   *)
(* cache of any size and a history of any length.                            *)
THEOREM HitsAreCoherent == ~SyncOnRead /\ RowsLast => (Spec => []ThreadHitCoherent)
<1> SUFFICES ASSUME ~SyncOnRead, RowsLast PROVE Spec => []ThreadHitCoherent OBVIOUS
<1>1. Typed /\ RowsInv => ThreadHitCoherent BY HitIsCoherent DEF ThreadHitCoherent
<1> QED BY <1>1, RowsAlways, PTL

-----------------------------------------------------------------------------
(* What get_thread returns of a hit.                                         *)

(* A hit that is still being read, or was: who was there, the labels read so *)
(* far, and those still to read unless the rows have gone or been missed.    *)
ReadOk(c) ==
  c.op = "thread" /\ c.pc \in {"labels", "served"} /\ c.clean =>
    /\ c.floor <= Floor
    /\ c.pc = "served" => c.todo = {}
    /\ \A m \in InThread(c.thread) :
         /\ m \in c.ids => \E k \in c.floor..Len(log) : Exists(m, k)
         /\ (\A k \in c.floor..Len(log) : Exists(m, k)) => m \in c.ids
         /\ m \in c.ids \ c.todo => Saw(m, c.floor, c.labels[m])
         /\ m \in c.todo /\ c.thread \notin missed /\ row[m].body \in {"full", "headers"}
              => Saw(m, c.floor, row[m].labels)

ReadsOk == \A r \in Readers, c \in Call : c = read[r] => ReadOk(c)

(* What was seen stays seen.                                                 *)
LEMMA SawStays ==
  ASSUME LogExtends, NEW m, NEW w \in Nat, NEW labels, Saw(m, w, labels)
  PROVE  Saw(m, w, labels)'
<1>1. \A k \in w..Len(log) : k \in w..Len(log') /\ k \in 0..Len(log) BY DEF LogExtends
<1>2. \A k \in w..Len(log), l \in Labels : Tagged(m, l, k)' = Tagged(m, l, k) BY <1>1, PastIsFixed
<1> QED BY <1>1, <1>2 DEF Saw

(* A call that does not move keeps its promise if the rows it has still to   *)
(* read keep theirs.                                                         *)
LEMMA ReadStays ==
  ASSUME LogExtends, NEW c \in Call, ReadOk(c), Floor \in Nat, Floor' \in Nat, Floor <= Floor',
         \A m \in InThread(c.thread) :
           /\ c.thread \notin missed' /\ row'[m].body \in {"full", "headers"}
           /\ c.floor <= Floor
           /\ c.thread \notin missed /\ row[m].body \in {"full", "headers"}
                => Saw(m, c.floor, row[m].labels)
           => Saw(m, c.floor, row[m].labels)'
  PROVE  ReadOk(c)'
<1> SUFFICES ASSUME c.op = "thread", c.pc \in {"labels", "served"}, c.clean
             PROVE  ReadOk(c)'
  BY DEF ReadOk
<1>0. c.floor \in Nat /\ c.floor <= Floor BY DEF Call, ReadOk
<1>1. /\ \A k \in c.floor..Len(log) : k \in c.floor..Len(log') /\ k \in 0..Len(log)
      /\ InThread(c.thread)' = InThread(c.thread)
  BY <1>0 DEF LogExtends, InThread
<1>2. ASSUME NEW m, NEW k \in c.floor..Len(log) PROVE Exists(m, k)' = Exists(m, k)
  BY <1>1, PastIsFixed
<1>3. c.floor <= Floor' /\ (c.pc = "served" => c.todo = {}) BY <1>0 DEF ReadOk
<1>4. ASSUME NEW m \in InThread(c.thread)
      PROVE  /\ m \in c.ids => \E k \in c.floor..Len(log') : Exists(m, k)'
             /\ (\A k \in c.floor..Len(log') : Exists(m, k)') => m \in c.ids
  BY <1>1, <1>2 DEF ReadOk
<1>5. ASSUME NEW m \in InThread(c.thread), m \in c.ids \ c.todo PROVE Saw(m, c.floor, c.labels[m])'
  <2>1. Saw(m, c.floor, c.labels[m]) BY <1>5 DEF ReadOk
  <2> QED BY <1>0, <2>1, SawStays
<1>6. ASSUME NEW m \in InThread(c.thread), m \in c.todo, c.thread \notin missed',
             row'[m].body \in {"full", "headers"}
      PROVE  Saw(m, c.floor, row[m].labels)'
  BY <1>0, <1>6 DEF ReadOk
<1> QED BY <1>1, <1>3, <1>4, <1>5, <1>6 DEF ReadOk

(* A history record leaves the labels of a row no older than a floor it is   *)
(* past.                                                                     *)
LEMMA RecordSeen ==
  ASSUME log \in Seq(Event), InOrder, row \in [Messages -> Row], NEW n \in 1..Len(log),
         ApplyHistoryRecord(log[n]), UNCHANGED log, NEW m \in Messages, NEW w \in Nat, w <= n,
         row'[m].body \in {"full", "headers"},
         row[m].body \in {"full", "headers"} => Saw(m, w, row[m].labels)
  PROVE  Saw(m, w, row[m].labels)'
<1> DEFINE e == log[n]
<1>0. n \in Nat /\ n \in w..Len(log) /\ e \in Event OBVIOUS
<1>1. row'[m] = IF m = e.msg THEN Applied(e, row[m]) ELSE row[m] BY DEF ApplyHistoryRecord
<1> HIDE DEF e
<1>2. ASSUME NEW ls, NEW x \in Row
      PROVE  [x EXCEPT !.labels = ls].labels = ls /\ [x EXCEPT !.labels = ls].body = x.body
  BY DEF Row
<1>3. row[m] \in Row /\ OrStub(row[m]) \in Row /\ (OrStub(row[m]).body \in {"full", "headers"} => OrStub(row[m]) = row[m])
  BY DEF OrStub, Stub, NoRow, Row
<1>4. /\ row[m].body \in {"full", "headers"}
      /\ \/ row'[m].labels = row[m].labels
         \/ m = e.msg /\ e.kind = "labelsAdded" /\ row'[m].labels = row[m].labels \cup e.labels
         \/ m = e.msg /\ e.kind = "labelsRemoved" /\ row'[m].labels = row[m].labels \ e.labels
  <2>1. CASE m # e.msg BY <1>1, <2>1
  <2>2. CASE m = e.msg
    <3>1. row'[m] = Applied(e, row[m]) BY <1>1, <2>2
    <3>2. CASE e.kind = "messagesAdded" BY <1>3, <3>1, <3>2 DEF Applied
    <3>3. CASE e.kind = "messagesDeleted" BY <1>3, <3>1, <3>3 DEF Applied, Row
    <3>4. CASE e.kind = "labelsAdded"
      <4> DEFINE x == OrStub(row[m])
      <4>1. row'[m] = [x EXCEPT !.labels = x.labels \cup e.labels] BY <3>1, <3>4 DEF Applied
      <4>2. x \in Row /\ (x.body \in {"full", "headers"} => x = row[m]) BY <1>3
      <4> HIDE DEF x
      <4>3. row'[m].body = x.body /\ row'[m].labels = x.labels \cup e.labels BY <1>2, <4>1, <4>2
      <4> QED BY <2>2, <3>4, <4>2, <4>3
    <3>5. CASE e.kind = "labelsRemoved"
      <4>1. row'[m] = [row[m] EXCEPT !.labels = row[m].labels \ e.labels] BY <3>1, <3>5 DEF Applied
      <4> QED BY <1>2, <1>3, <2>2, <3>5, <4>1
    <3> QED BY <1>0, <3>2, <3>3, <3>4, <3>5 DEF Event
  <2> QED BY <2>1, <2>2
<1>5. ASSUME NEW l \in Labels
      PROVE  \E k \in w..Len(log) : (l \in row'[m].labels) <=> Tagged(m, l, k)
  <2>1. CASE (l \in row'[m].labels) <=> (l \in row[m].labels) BY <1>4, <2>1 DEF Saw
  <2>2. CASE ~((l \in row'[m].labels) <=> (l \in row[m].labels))
    <3>1. m = e.msg /\ l \in e.labels /\ e.kind \in {"labelsAdded", "labelsRemoved"} BY <1>4, <2>2
    <3>2. (l \in row'[m].labels) <=> e.kind = "labelsAdded" BY <1>4, <2>2, <3>1
    <3>3. (l \in row'[m].labels) <=> Tagged(m, l, n) BY <3>1, <3>2, LabelIsSet DEF e
    <3> QED BY <1>0, <3>3
  <2> QED BY <2>1, <2>2
<1> QED BY <1>5, SameMailbox DEF Saw

(* So does every other step, for a row still to be read.                     *)
LEMMA RowsSeen ==
  ASSUME Typed, OnePass, ~SyncOnRead, RowsLast, [Next]_vars, RowsInv,
         NEW t \in Threads, t \notin missed', NEW w \in Nat, w <= Floor, NEW m \in InThread(t),
         row'[m].body \in {"full", "headers"},
         t \notin missed /\ row[m].body \in {"full", "headers"} => Saw(m, w, row[m].labels)
  PROVE  Saw(m, w, row[m].labels)'
<1>0. /\ LogExtends /\ log \in Seq(Event) /\ row \in [Messages -> Row] /\ m \in Messages
      /\ sync[Background] \in Pass /\ watermark \in Nat \cup {NoId} /\ Floor \in Nat
      /\ NoRow.body = "none"
  BY HistoryGoesOn, FloorType, ServiceAssumption
  DEF LogExtends, Typed, TypeOK, MailboxTypeOK, StoreTypeOK, SyncTypeOK, RowsInv, InThread, NoRow
<1>1. ASSUME t \notin missed, row'[m].labels = row[m].labels, row[m].body \in {"full", "headers"}
      PROVE  Saw(m, w, row[m].labels)'
  <2>1. SUFFICES ASSUME NEW ls, ls = row[m].labels PROVE Saw(m, w, ls)'
    BY <1>1 DEF Saw
  <2>2. Saw(m, w, ls) BY <1>1, <2>1
  <2> QED BY <1>0, <2>2, SawStays
<1>2. CASE UNCHANGED <<watermark, row, fetchedAt, missed, sync, read>> BY <1>1, <1>2
<1>3. CASE Untouched BY <1>1, <1>3 DEF Untouched
<1>4. CASE SeedWatermark(Background) \/ AdvanceWatermark(Background)
  BY <1>1, <1>4 DEF SeedWatermark, AdvanceWatermark, SetWatermark
<1>5. CASE Reseed(Background) BY <1>0, <1>5 DEF Reseed, ReseedAccount
<1>6. CASE ApplyRecord(Background)
  <2>1. SUFFICES ASSUME NEW n \in Nat, n = sync[Background].done + 1
                 PROVE  Saw(m, w, row[m].labels)'
    BY <1>0 DEF Pass
  <2>2. /\ n \in 1..Len(log) /\ ApplyHistoryRecord(log[n]) /\ UNCHANGED <<log, missed>>
        /\ Floor <= n /\ InOrder
    BY <1>0, <1>6, <2>1, ApplyMoves DEF Applying, RowsInv, PassInv, Floor, Pass
  <2>3. w <= n BY <1>0, <2>2
  <2> QED BY <1>0, <2>2, <2>3, RecordSeen
<1>7. ASSUME NEW r \in Readers, WriteThread(r) PROVE Saw(m, w, row[m].labels)'
  <2> DEFINE u == read[r].thread
             k == read[r].content
  <2>1. /\ InsertThread(u, k) /\ UNCHANGED <<log, watermark>>
        /\ missed' = IF AppliedPast(k) THEN missed \cup {u} ELSE missed \ {u}
        /\ read[r].pc = "insert"
    BY <1>7 DEF WriteThread, InsertThread, At
  <2>2. k \in Nat /\ k <= Len(log)
    BY <2>1 DEF RowsInv, FetchInv, Typed, TypeOK, ServiceTypeOK, Call
  <2> HIDE DEF k, u
  <2>3. CASE t = u
    <3>1. ~(watermark > k) BY <2>1, <2>3 DEF AppliedPast
    <3>2. k \in w..Len(log) BY <1>0, <2>2, <3>1 DEF Floor, NoId
    <3>3. row'[m] = IF Exists(m, k) THEN [body |-> "full", dead |-> FALSE, labels |-> LabelsAt(m, k)]
                    ELSE NoRow
      BY <1>0, <2>1, <2>3 DEF InsertThread, InThread
    <3>4. Exists(m, k) BY <1>0, <3>3
    <3>5. row'[m].labels = LabelsAt(m, k) BY <3>3, <3>4
    <3>6. \A l \in Labels : (l \in row'[m].labels) <=> Tagged(m, l, k) BY <3>5 DEF LabelsAt
    <3> QED BY <2>1, <3>2, <3>6, SameMailbox DEF Saw
  <2>4. CASE t # u
    <3>1. row'[m] = row[m] BY <2>1, <2>4 DEF InsertThread, InThread
    <3> QED BY <1>1, <2>1, <2>4, <3>1
  <2> QED BY <2>3, <2>4
<1>8. ASSUME NEW r \in Readers, WriteSummary(r) PROVE Saw(m, w, row[m].labels)'
  <2> DEFINE u == read[r].thread
             k == read[r].content
  <2>1. InsertSummary(u, k) /\ UNCHANGED missed BY <1>8 DEF WriteSummary, InsertSummary
  <2> HIDE DEF k, u
  <2>2. row'[m] = row[m] \/ row'[m] = NoRow BY <2>1, SummaryFades
  <2> QED BY <1>0, <1>1, <2>1, <2>2
<1>9. ASSUME UNCHANGED <<log, fetchedAt, missed, sync, read>>,
             NEW old \in SUBSET Messages, PurgeOldBodies(old)
      PROVE  Saw(m, w, row[m].labels)'
  BY <1>0, <1>1, <1>9, PurgeFades
<1> QED BY <1>2, <1>3, <1>4, <1>5, <1>6, <1>7, <1>8, <1>9, StepKinds

LEMMA ReadsOkNext ==
  ASSUME Typed, OnePass, ~SyncOnRead, RowsLast, [Next]_vars, RowsInv, ReadsOk
  PROVE  ReadsOk'
<1> SUFFICES ASSUME NEW u \in Readers, NEW c \in Call, c = read'[u] PROVE ReadOk(c)'
  BY DEF ReadsOk
<1>0. /\ LogExtends /\ Floor \in Nat /\ Floor' \in Nat /\ Floor <= Floor'
      /\ read[u] \in Call /\ read \in [Readers -> Call] /\ row \in [Messages -> Row]
  <2>1. watermark \in Nat \cup {NoId} /\ watermark' \in Nat \cup {NoId} /\ watermark' >= watermark
    BY StepTyping, OnePassNext DEF Typed, TypeOK, StoreTypeOK
  <2>2. Floor \in Nat /\ Floor' \in Nat /\ Floor <= Floor' BY <2>1 DEF Floor, NoId
  <2> QED BY <2>2, HistoryGoesOn DEF Typed, TypeOK, StoreTypeOK, ServiceTypeOK, RowsInv
<1>1. ASSUME ReadOk(c) PROVE ReadOk(c)'
  <2>1. c.thread \in Threads /\ c.floor \in Nat BY DEF Call
  <2>2. \A m \in InThread(c.thread) :
          /\ c.thread \notin missed' /\ row'[m].body \in {"full", "headers"}
          /\ c.floor <= Floor
          /\ c.thread \notin missed /\ row[m].body \in {"full", "headers"}
               => Saw(m, c.floor, row[m].labels)
          => Saw(m, c.floor, row[m].labels)'
    <3>1. SUFFICES ASSUME NEW t, t = c.thread, NEW w, w = c.floor, NEW m \in InThread(t),
                          t \notin missed', row'[m].body \in {"full", "headers"}, w <= Floor,
                          t \notin missed /\ row[m].body \in {"full", "headers"}
                            => Saw(m, w, row[m].labels)
                   PROVE  Saw(m, w, row[m].labels)'
      OBVIOUS
    <3> QED BY <2>1, <3>1, RowsSeen
  <2> QED BY <1>0, <1>1, <2>2, ReadStays
<1>2. CASE read'[u] = read[u]
  <2>1. ReadOk(c) BY <1>0, <1>2 DEF ReadsOk
  <2> QED BY <1>1, <2>1
<1>3. CASE read'[u].op = "thread" => read'[u].pc \notin {"labels", "served"} BY <1>3 DEF ReadOk
<1>4. CASE LookupThread(u)
  <2> DEFINE t == read[u].thread
  <2>1. t \in Threads BY <1>0 DEF Call
  <2>2. CASE ~ThreadHit(t)
    <3>1. Become(u, Miss(u)) BY <1>4, <2>2 DEF LookupThread
    <3>2. Miss(u).pc = "fetch" BY <1>0 DEF Miss, Call
    <3>3. read'[u] = Miss(u) BY <3>1, OtherCallsStay
    <3> QED BY <1>3, <3>2, <3>3
  <2>3. CASE ThreadHit(t)
    <3> DEFINE ids == Live(t)
    <3>1. Become(u, Hit(u, ids)) BY <1>4, <2>3 DEF LookupThread
    <3>2. c = Hit(u, ids) BY <3>1, OtherCallsStay
    <3>3. /\ c.thread = t /\ c.floor = Floor /\ c.ids = ids /\ c.todo = ids
          /\ c.pc = "served" => ids = {}
          /\ c.clean => t \notin missed
      BY <1>0, <3>2 DEF Hit, Call
    <3>4. ASSUME c.clean
          PROVE  \A m \in InThread(t) :
                   /\ m \in ids => \E k \in Floor..Len(log) : Exists(m, k)
                   /\ (\A k \in Floor..Len(log) : Exists(m, k)) => m \in ids
                   /\ m \in ids => Saw(m, Floor, row[m].labels)
      <4>1. NoOlderThan(Floor, t, ids, RowLabels) BY <2>1, <2>3, <3>3, <3>4, HitIsCoherent
      <4>2. \A m \in InThread(t) : RowLabels[m] = row[m].labels BY DEF RowLabels, InThread
      <4> HIDE DEF ids, t
      <4> QED BY <4>1, <4>2 DEF NoOlderThan, ShownSince, Saw
    <3> HIDE DEF ids, t
    <3>5. ReadOk(c) BY <1>0, <3>3, <3>4 DEF ReadOk
    <3> QED BY <1>1, <3>5
  <2> QED BY <2>2, <2>3
<1>5. CASE ReadLabels(u)
  <2> DEFINE d == read[u]
  <2>1. PICK m \in d.todo : Become(u, Labelled(u, m)) BY <1>5, LabelsAreRead
  <2>2. c = Labelled(u, m) BY <2>1, OtherCallsStay
  <2>3. d.pc = "labels" /\ ReadOk(d) BY <1>0, <1>5 DEF ReadLabels, ReadsOk
  <2>4. /\ c.op = d.op /\ c.thread = d.thread /\ c.floor = d.floor /\ c.ids = d.ids
        /\ c.todo = d.todo \ {m} /\ c.clean = StillClean(u, m)
        /\ c.labels = [d.labels EXCEPT ![m] = row[m].labels]
        /\ c.pc = IF d.todo = {m} THEN "served" ELSE "labels"
        /\ d.labels \in [Messages -> SUBSET Labels] /\ d.todo \in SUBSET Messages
    BY <1>0, <2>2 DEF Labelled, Call
  <2>5. c.clean => d.clean /\ d.thread \notin missed /\ row[m].body \in {"full", "headers"}
    BY <2>4 DEF StillClean
  <2> HIDE DEF d
  <2>6. ASSUME c.op = "thread", c.clean PROVE ReadOk(c)
    <3>1. ASSUME NEW x \in InThread(c.thread), x \in c.ids \ c.todo
          PROVE  Saw(x, c.floor, c.labels[x])
      <4>1. CASE x = m
        <5>1. c.labels[x] = row[m].labels BY <2>1, <2>4, <4>1
        <5> QED BY <2>1, <2>3, <2>4, <2>5, <2>6, <3>1, <4>1, <5>1 DEF ReadOk
      <4>2. CASE x # m
        <5>1. c.labels[x] = d.labels[x] BY <2>4, <4>2
        <5> QED BY <2>3, <2>4, <2>5, <2>6, <3>1, <4>2, <5>1 DEF ReadOk
      <4> QED BY <4>1, <4>2
    <3>2. c.pc = "served" => c.todo = {} BY <2>4
    <3> QED BY <2>3, <2>4, <2>5, <2>6, <3>1, <3>2 DEF ReadOk
  <2>7. ReadOk(c) BY <2>6 DEF ReadOk
  <2> QED BY <1>1, <2>7
<1> QED BY <1>2, <1>3, <1>4, <1>5, ReadKinds

LEMMA ReadsOkInit == Init => ReadsOk
<1>1. \A c : Quiet(c).pc = "idle" BY DEF Quiet, Fresh
<1>2. Init => \A r \in Readers : read[r].pc = "idle" BY <1>1 DEF Init, NoCalls
<1> QED BY <1>2 DEF ReadsOk, ReadOk

(* And what get_thread has returned of a hit is no older than the watermark  *)
(* it looked up under, however many records, passes, failures, restarts and  *)
(* other calls came between the lookup and each read of labels: as long as   *)
(* the rows it hit stayed, and no pass went past a record of the thread.     *)
THEOREM ServedHitsAreCoherent == ~SyncOnRead /\ RowsLast => (Spec => []ServedThreadCoherent)
<1> SUFFICES ASSUME ~SyncOnRead, RowsLast PROVE Spec => []ServedThreadCoherent OBVIOUS
<1> DEFINE Inv == Typed /\ OnePass /\ RowsInv
<1>1. Spec => []Inv BY RowsAlways, PTL
<1>2. Inv /\ ReadsOk /\ [Next]_vars => ReadsOk' BY ReadsOkNext
<1>3. Typed /\ ReadsOk => ServedThreadCoherent
  <2> SUFFICES ASSUME Typed, ReadsOk, NEW r \in Readers, At(r, "served", "thread"), read[r].clean
               PROVE  NoOlderThan(read[r].floor, read[r].thread, read[r].ids, read[r].labels)
    BY DEF ServedThreadCoherent
  <2>1. read[r] \in Call BY DEF Typed, TypeOK, ServiceTypeOK
  <2>2. ReadOk(read[r]) BY <2>1 DEF ReadsOk
  <2> QED BY <2>2 DEF ReadOk, At, NoOlderThan, ShownSince, Saw
<1> QED BY <1>1, <1>2, <1>3, ReadsOkInit, PTL DEF Spec

-----------------------------------------------------------------------------
(* Hits while passes overlap.                                                *)

(* KeptFrom without the labels: the complete rows of t are of messages that  *)
(* were there at w or later, and beside a complete row no message that was   *)
(* always there has none.                                                    *)
HeldFrom(t, w) ==
  /\ \A m \in InThread(t) :
       row[m].body = "full" /\ ~row[m].dead => \E k \in w..Len(log) : Exists(m, k)
  /\ Full(t) => \A m \in InThread(t) : (\A k \in w..Len(log) : Exists(m, k)) => row[m].body # "none"

(* The rows tell of the watermark, and of the point each pass under way has  *)
(* come to: a watermark that the slower of two passes moves back is a point  *)
(* that pass has come to.                                                    *)
RowsHeld ==
  \A t \in Threads \ missed :
    /\ \A w \in Nat : w = Floor => HeldFrom(t, w)
    /\ \A p \in Tasks, w \in Nat : sync[p].pc \in Applying /\ w = sync[p].done => HeldFrom(t, w)

\* Who is there in t is who threads.get answered at k.
HeldAt(t, k) ==
  /\ k <= Len(log)
  /\ \A m \in InThread(t) :
       /\ Exists(m, k) => row[m].body # "none"
       /\ row[m].body = "full" => Exists(m, k)

(* A first touch does not look at the rows: it takes them for what was       *)
(* fetched.                                                                  *)
FetchHeld == \A t \in Threads, k \in Nat : k = fetchedAt[t] /\ Full(t) => HeldAt(t, k)

HeldInv == InOrder /\ FetchInv /\ DeadAreExpunged /\ RowsHeld /\ FetchHeld

LEMMA HeldEarlier ==
  ASSUME log \in Seq(Event), NEW t, NEW v \in Nat, NEW w \in Nat, v <= w, HeldFrom(t, w)
  PROVE  HeldFrom(t, v)
<1>1. \A k \in w..Len(log) : k \in v..Len(log) OBVIOUS
<1> QED BY <1>1 DEF HeldFrom

LEMMA HeldGrows ==
  ASSUME LogExtends, UNCHANGED row, NEW t, NEW w \in Nat, HeldFrom(t, w)
  PROVE  HeldFrom(t, w)'
<1>1. \A k \in w..Len(log) : k \in w..Len(log') /\ k \in 0..Len(log)
  BY DEF LogExtends
<1>2. \A m, k : k \in w..Len(log) => Exists(m, k)' = Exists(m, k)
  BY <1>1, PastIsFixed
<1>3. ASSUME NEW m \in InThread(t), row[m].body = "full", ~row[m].dead
      PROVE  \E k \in w..Len(log') : Exists(m, k)'
  BY <1>1, <1>2, <1>3 DEF HeldFrom
<1>4. ASSUME Full(t), NEW m \in InThread(t), \A k \in w..Len(log') : Exists(m, k)'
      PROVE  row[m].body # "none"
  BY <1>1, <1>2, <1>4 DEF HeldFrom
<1> QED BY <1>3, <1>4 DEF HeldFrom, Full, InThread

(* Rows that stay as they are, are marked dead, lose their body or labels,   *)
(* appear as stubs, or go with the whole thread.                             *)
Fades(t) ==
  /\ \A m \in InThread(t) :
       row'[m].body = "full" => row[m].body = "full" /\ (row[m].dead => row'[m].dead)
  /\ Full(t)' => \A m \in InThread(t) : row'[m].body = "none" => row[m].body = "none"

LEMMA HeldFades ==
  ASSUME UNCHANGED log, NEW t, NEW w, HeldFrom(t, w), Fades(t)
  PROVE  HeldFrom(t, w)'
<1>1. InThread(t)' = InThread(t) BY DEF InThread
<1>2. Full(t)' => Full(t) BY <1>1 DEF Full, Fades
<1>3. \A m \in InThread(t) :
        row'[m].body = "full" /\ ~row'[m].dead => \E k \in w..Len(log) : Exists(m, k)'
  BY SameMailbox DEF HeldFrom, Fades
<1>4. Full(t)' => \A m \in InThread(t) :
        (\A k \in w..Len(log) : Exists(m, k)') => row'[m].body # "none"
  BY <1>2, SameMailbox DEF HeldFrom, Fades
<1> QED BY <1>1, <1>3, <1>4 DEF HeldFrom

LEMMA HeldAtFades ==
  ASSUME LogExtends, NEW t, NEW k \in Nat, Full(t) => HeldAt(t, k), Full(t)', Fades(t)
  PROVE  HeldAt(t, k)'
<1>1. InThread(t)' = InThread(t) BY DEF InThread
<1>2. Full(t) BY <1>1 DEF Full, Fades
<1>3. k \in 0..Len(log) /\ k <= Len(log') BY <1>2 DEF HeldAt, LogExtends
<1>4. \A m : Exists(m, k)' = Exists(m, k) BY <1>3, PastIsFixed
<1> QED BY <1>1, <1>2, <1>3, <1>4 DEF HeldAt, Fades

(* A history record of any pass, old or new, only adds a stub or marks a row *)
(* dead; and the next one, applied, makes the rows tell of the next id.      *)
LEMMA RecordFades ==
  ASSUME log \in Seq(Event), row \in [Messages -> Row], NEW n \in 1..Len(log),
         ApplyHistoryRecord(log[n]), NEW t
  PROVE  /\ Fades(t)
         /\ \A m \in InThread(t) : log[n].msg = m /\ log[n].kind = "messagesAdded" => row'[m].body # "none"
         /\ \A m \in InThread(t) : log[n].msg = m /\ log[n].kind = "messagesDeleted"
                                     => row'[m].dead \/ row'[m].body = "none"
<1> DEFINE e == log[n]
<1>1. e \in Event /\ e.msg \in Messages
  <2>1. e \in Event OBVIOUS
  <2> QED BY <2>1 DEF Event
<1>2. \A m \in Messages : row'[m] = IF m = e.msg THEN Applied(e, row[m]) ELSE row[m]
  BY DEF ApplyHistoryRecord
<1>3. row[e.msg] \in Row BY <1>1
<1> HIDE DEF e
<1>4. ASSUME NEW x \in Row
      PROVE  /\ Applied(e, x).body = "full" => x.body = "full" /\ (x.dead => Applied(e, x).dead)
             /\ Applied(e, x).body = "none" => x.body = "none"
             /\ e.kind = "messagesAdded" => Applied(e, x).body # "none"
             /\ e.kind = "messagesDeleted" => Applied(e, x).dead \/ Applied(e, x).body = "none"
  <2>1. /\ OrStub(x) \in Row /\ OrStub(x).body # "none"
        /\ OrStub(x).body = "full" => OrStub(x) = x
    BY DEF OrStub, Stub, NoRow, Row
  <2>2. ASSUME NEW y \in Row, NEW ls
        PROVE [y EXCEPT !.labels = ls].dead = y.dead /\ [y EXCEPT !.labels = ls].body = y.body
    BY DEF Row
  <2>3. CASE e.kind = "messagesAdded" BY <2>1, <2>3 DEF Applied
  <2>4. CASE e.kind = "messagesDeleted"
    <3>1. Applied(e, x) = [x EXCEPT !.dead = (x.body # "none")] BY <2>4 DEF Applied
    <3>2. Applied(e, x).body = x.body /\ Applied(e, x).dead = (x.body # "none") BY <3>1 DEF Row
    <3> QED BY <2>4, <3>2
  <2>5. CASE e.kind = "labelsAdded"
    <3>1. Applied(e, x) = [OrStub(x) EXCEPT !.labels = @ \cup e.labels] BY <2>5 DEF Applied
    <3>2. Applied(e, x).body = OrStub(x).body /\ Applied(e, x).dead = OrStub(x).dead
      BY <2>1, <2>2, <3>1
    <3> QED BY <2>1, <2>5, <3>2
  <2>6. CASE e.kind = "labelsRemoved"
    <3>1. Applied(e, x) = [x EXCEPT !.labels = @ \ e.labels] BY <2>6 DEF Applied
    <3>2. Applied(e, x).body = x.body /\ Applied(e, x).dead = x.dead BY <2>2, <3>1
    <3> QED BY <2>6, <3>2
  <2> QED BY <1>1, <2>3, <2>4, <2>5, <2>6 DEF Event
<1>5. \A m \in InThread(t) : m \in Messages /\ row[m] \in Row BY DEF InThread
<1>6. \A m \in InThread(t) :
        /\ row'[m].body = "full" => row[m].body = "full" /\ (row[m].dead => row'[m].dead)
        /\ row'[m].body = "none" => row[m].body = "none"
        /\ e.msg = m /\ e.kind = "messagesAdded" => row'[m].body # "none"
        /\ e.msg = m /\ e.kind = "messagesDeleted" => row'[m].dead \/ row'[m].body = "none"
  BY <1>2, <1>4, <1>5
<1> QED BY <1>6 DEF Fades, e

LEMMA RecordHeld ==
  ASSUME log \in Seq(Event), InOrder, row \in [Messages -> Row], NEW n \in 1..Len(log),
         ApplyHistoryRecord(log[n]), UNCHANGED log, NEW t, HeldFrom(t, n - 1)
  PROVE  HeldFrom(t, n)'
<1>0. /\ n \in Nat /\ n - 1 \in Nat
      /\ \A k \in (n - 1)..Len(log) : k = n - 1 \/ k \in n..Len(log)
      /\ n \in n..Len(log) /\ InThread(t)' = InThread(t)
  BY DEF InThread
<1>1. HeldFrom(t, n - 1)' BY <1>0, RecordFades, HeldFades
<1>2. ASSUME NEW m \in InThread(t), row'[m].body = "full", ~row'[m].dead
      PROVE  \E k \in n..Len(log) : Exists(m, k)
  <2>1. PICK k \in (n - 1)..Len(log) : Exists(m, k)
    BY <1>0, <1>1, <1>2, SameMailbox DEF HeldFrom
  <2>2. ~(log[n].msg = m /\ log[n].kind = "messagesDeleted") BY <1>2, RecordFades
  <2>3. Exists(m, n - 1) => Exists(m, n) BY <2>2, OneChange
  <2> QED BY <1>0, <2>1, <2>3
<1>3. ASSUME Full(t)', NEW m \in InThread(t), \A k \in n..Len(log) : Exists(m, k)
      PROVE  row'[m].body # "none"
  <2>1. CASE Exists(m, n - 1)
    <3>1. \A k \in (n - 1)..Len(log) : Exists(m, k) BY <1>0, <1>3, <2>1
    <3> QED BY <1>0, <1>1, <1>3, <3>1, SameMailbox DEF HeldFrom
  <2>2. CASE ~Exists(m, n - 1)
    <3>1. log[n].msg = m /\ log[n].kind = "messagesAdded" BY <1>0, <1>3, <2>2, OneChange
    <3> QED BY <3>1, RecordFades
  <2> QED BY <2>1, <2>2
<1>4. \A m, k : Exists(m, k)' = Exists(m, k) BY SameMailbox
<1> QED BY <1>0, <1>2, <1>3, <1>4 DEF HeldFrom

(* What threads.get answered at k.                                           *)
LEMMA FetchIsHeld ==
  ASSUME log \in Seq(Event), UNCHANGED log, NEW t, NEW k \in Nat, k <= Len(log), InsertThread(t, k)
  PROVE  /\ HeldAt(t, k)'
         /\ \A w \in Nat : w <= k => HeldFrom(t, w)'
<1>1. \A w \in Nat : w <= k => KeptFrom(t, w)' BY FetchKept
<1>2. \A w \in Nat : w <= k => HeldFrom(t, w)' BY <1>1 DEF KeptFrom, HeldFrom
<1>3. ASSUME NEW m \in InThread(t)
      PROVE  /\ row'[m].body = "full" => Exists(m, k)
             /\ Exists(m, k) => row'[m].body # "none"
  <2>1. row'[m] = IF Exists(m, k) THEN [body |-> "full", dead |-> FALSE, labels |-> LabelsAt(m, k)]
                  ELSE NoRow
    BY DEF InsertThread, InThread
  <2>2. CASE Exists(m, k)
    <3>1. row'[m] = [body |-> "full", dead |-> FALSE, labels |-> LabelsAt(m, k)] BY <2>1, <2>2
    <3> QED BY <2>2, <3>1
  <2>3. CASE ~Exists(m, k)
    <3>1. row'[m] = NoRow BY <2>1, <2>3
    <3> QED BY <2>3, <3>1 DEF NoRow
  <2> QED BY <2>2, <2>3
<1>4. InThread(t)' = InThread(t) BY DEF InThread
<1>5. \A m : Exists(m, k)' = Exists(m, k) BY SameMailbox
<1> QED BY <1>2, <1>3, <1>4, <1>5 DEF HeldAt

(* What a step does to the rows of a thread: they fade, or a fetch replaces  *)
(* them.                                                                     *)
LEMMA RowsFadeOrAreFetched ==
  ASSUME Typed, Unevicted, [Next]_vars, NEW t \in Threads
  PROVE  \/ Fades(t) /\ UNCHANGED fetchedAt
         \/ Fades(t) /\ \E r \in Readers : WriteThread(r) /\ read[r].thread # t
         \/ \E r \in Readers : WriteThread(r) /\ read[r].thread = t
<1>0. /\ log \in Seq(Event) /\ row \in [Messages -> Row]
      /\ \A m \in InThread(t) : m \in Messages /\ row[m] \in Row
  BY DEF Typed, TypeOK, MailboxTypeOK, StoreTypeOK, InThread
<1>1. ASSUME \A m \in InThread(t) : row'[m] = row[m] PROVE Fades(t)
  BY <1>1 DEF Fades
<1>2. ASSUME \A m \in InThread(t) : row'[m] = NoRow PROVE Fades(t)
  BY <1>2 DEF Fades, NoRow, Full, InThread
<1>3. ASSUME UNCHANGED row PROVE Fades(t) BY <1>1, <1>3
<1>4. ASSUME NEW p \in Tasks, ApplyRecord(p) PROVE Fades(t) /\ UNCHANGED fetchedAt
  BY <1>0, <1>4, OneMoreApplied, RecordFades
<1>5. ASSUME NEW p \in Tasks, SeedWatermark(p) \/ AdvanceWatermark(p)
      PROVE  Fades(t) /\ UNCHANGED fetchedAt
  BY <1>3, <1>5 DEF SeedWatermark, AdvanceWatermark, SetWatermark
<1>6. ASSUME NEW p \in Tasks, Reseed(p) PROVE Fades(t) /\ UNCHANGED fetchedAt
  BY <1>0, <1>2, <1>6 DEF Reseed, ReseedAccount
<1>7. ASSUME NEW r \in Readers, WriteThread(r), read[r].thread # t PROVE Fades(t)
  BY <1>0, <1>1, <1>7 DEF WriteThread, InsertThread, InThread
<1>8. ASSUME NEW r \in Readers, WriteSummary(r) PROVE Fades(t) /\ UNCHANGED fetchedAt
  <2>1. InsertSummary(read[r].thread, read[r].content) /\ UNCHANGED fetchedAt BY <1>8 DEF WriteSummary
  <2> QED BY <1>1, <1>2, <2>1, SummaryFades
<1>9. ASSUME NEW old \in SUBSET Messages, PurgeOldBodies(old) PROVE Fades(t)
  <2>1. \A m \in InThread(t) :
          /\ [row[m] EXCEPT !.body = "headers"].body = "headers"
          /\ row'[m] = row[m] \/ row'[m] = [row[m] EXCEPT !.body = "headers"]
          /\ row'[m] # row[m] => m \in old /\ row[m].body = "full"
    BY <1>0, <1>9 DEF PurgeOldBodies, Row
  <2> QED BY <2>1 DEF Fades
<1>10. ASSUME InvalidateAllLabels PROVE Fades(t)
  <2>1. \A m \in InThread(t) : row'[m] = [row[m] EXCEPT !.labels = {}]
    BY <1>0, <1>10 DEF InvalidateAllLabels
  <2>2. \A m \in InThread(t) : row'[m].body = row[m].body /\ row'[m].dead = row[m].dead
    BY <1>0, <2>1 DEF Row
  <2> QED BY <2>2 DEF Fades
<1> QED BY <1>3, <1>4, <1>5, <1>6, <1>7, <1>8, <1>9, <1>10, OverlapKinds DEF Untouched

LEMMA FetchHeldNext ==
  ASSUME Typed, Unevicted, [Next]_vars, HeldInv
  PROVE  FetchHeld'
<1> SUFFICES ASSUME NEW t \in Threads, NEW k \in Nat, k = fetchedAt'[t], Full(t)' PROVE HeldAt(t, k)'
  BY DEF FetchHeld
<1>0. /\ LogExtends /\ log \in Seq(Event) /\ Len(log) \in Nat /\ fetchedAt \in [Threads -> Nat]
  BY HistoryGoesOn DEF Typed, TypeOK, MailboxTypeOK, SyncTypeOK, HeldInv
<1>1. ASSUME Fades(t), fetchedAt'[t] = fetchedAt[t] PROVE HeldAt(t, k)'
  <2>1. Full(t) => HeldAt(t, k) BY <1>1 DEF HeldInv, FetchHeld
  <2> QED BY <1>0, <1>1, <2>1, HeldAtFades
<1>2. ASSUME NEW r \in Readers, WriteThread(r)
      PROVE  /\ UNCHANGED log /\ InsertThread(read[r].thread, read[r].content)
             /\ fetchedAt' = [fetchedAt EXCEPT ![read[r].thread] = read[r].content]
             /\ read[r].content \in Nat /\ read[r].content <= Len(log)
  BY <1>2 DEF WriteThread, At, HeldInv, FetchInv, Typed, TypeOK, ServiceTypeOK, Call
<1>3. ASSUME NEW r \in Readers, WriteThread(r), read[r].thread # t PROVE fetchedAt'[t] = fetchedAt[t]
  BY <1>0, <1>2, <1>3
<1>4. ASSUME NEW r \in Readers, WriteThread(r), read[r].thread = t PROVE HeldAt(t, k)'
  <2>1. k = read[r].content BY <1>0, <1>2, <1>4
  <2> QED BY <1>0, <1>2, <1>4, <2>1, FetchIsHeld
<1> QED BY <1>1, <1>3, <1>4, RowsFadeOrAreFetched

(* A point that was told of, or one before it, is told of after rows fade.   *)
LEMMA PointsStay ==
  ASSUME Typed, HeldInv, UNCHANGED log, NEW t \in Threads, t \notin missed, Fades(t),
         NEW w \in Nat,
         \/ w <= Floor
         \/ \E p \in Tasks : sync[p].pc \in Applying /\ w <= sync[p].done
  PROVE  HeldFrom(t, w)'
<1>0. log \in Seq(Event) /\ Floor \in Nat /\ \A p \in Tasks : sync[p].done \in Nat
  BY PastType DEF Typed, TypeOK, MailboxTypeOK, SyncTypeOK, Pass
<1>1. PICK v \in Nat : w <= v /\ HeldFrom(t, v)
  <2>1. CASE w <= Floor
    <3>1. HeldFrom(t, Floor) BY <1>0 DEF HeldInv, RowsHeld
    <3> QED BY <1>0, <2>1, <3>1
  <2>2. ASSUME NEW p \in Tasks, sync[p].pc \in Applying, w <= sync[p].done
        PROVE  \E v \in Nat : w <= v /\ HeldFrom(t, v)
    <3>1. HeldFrom(t, sync[p].done) BY <1>0, <2>2 DEF HeldInv, RowsHeld
    <3> QED BY <1>0, <2>2, <3>1
  <2> QED BY <2>1, <2>2
<1>2. HeldFrom(t, w) BY <1>0, <1>1, HeldEarlier
<1> QED BY <1>2, HeldFades

\* The points the rows are to tell of.
Point(w) == w = Floor \/ \E p \in Tasks : sync[p].pc \in Applying /\ w = sync[p].done

LEMMA PointsInRowsHeld ==
  RowsHeld <=> \A t \in Threads \ missed, w \in Nat : Point(w) => HeldFrom(t, w)
BY DEF RowsHeld, Point

LEMMA RowsHeldNext ==
  ASSUME Typed, PageInv, Unevicted, [Next]_vars, HeldInv
  PROVE  RowsHeld'
<1>1. SUFFICES ASSUME NEW t \in Threads, t \notin missed', NEW w \in Nat, Point(w)'
               PROVE  HeldFrom(t, w)'
  BY DEF RowsHeld, Point
<1>0. /\ LogExtends /\ log \in Seq(Event) /\ log' \in Seq(Event) /\ row \in [Messages -> Row]
      /\ Floor \in Nat /\ watermark \in Nat \cup {NoId} /\ Len(log) \in Nat
      /\ sync \in [Tasks -> Pass] /\ \A p \in Tasks : sync[p] \in Pass /\ sync[p].done \in Nat
  <2>1. log \in Seq(Event) /\ row \in [Messages -> Row] /\ watermark \in Nat \cup {NoId}
        /\ sync \in [Tasks -> Pass]
    BY DEF Typed, TypeOK, MailboxTypeOK, StoreTypeOK, SyncTypeOK
  <2>2. \A p \in Tasks : sync[p] \in Pass /\ sync[p].done \in Nat BY <2>1 DEF Pass
  <2>3. LogExtends BY HistoryGoesOn DEF HeldInv
  <2>4. log' \in Seq(Event) /\ Len(log) \in Nat BY <2>1, <2>3 DEF LogExtends
  <2> QED BY <2>1, <2>2, <2>3, <2>4, PastType
<1>2. CASE UNCHANGED <<watermark, row, fetchedAt, missed, sync>>
  <2>1. Point(w) BY <1>1, <1>2 DEF Point, Floor
  <2>2. HeldFrom(t, w) BY <1>1, <1>2, <2>1, PointsInRowsHeld DEF HeldInv
  <2> QED BY <1>0, <1>2, <2>2, HeldGrows
<1>3. CASE Untouched /\ \A q \in Tasks : PassGoes(q)
  <2>1. Fades(t) /\ t \notin missed /\ Floor' = Floor /\ UNCHANGED log
    BY <1>1, <1>3 DEF Untouched, Fades, Floor
  <2>2. ASSUME NEW q \in Tasks, sync'[q].pc \in Applying
        PROVE  sync'[q].done = Floor \/ (sync[q].pc \in Applying /\ sync'[q].done = sync[q].done)
    BY <1>3, <2>2 DEF PassGoes, Floor, Applying
  <2>3. \/ w <= Floor
        \/ \E p \in Tasks : sync[p].pc \in Applying /\ w <= sync[p].done
    BY <1>1, <2>1, <2>2 DEF Point
  <2> QED BY <2>1, <2>3, PointsStay
<1>4. ASSUME NEW p \in Tasks, \A q \in Tasks \ {p} : sync'[q] = sync[q], ApplyRecord(p)
      PROVE  HeldFrom(t, w)'
  <2> DEFINE n == sync[p].done + 1
  <2>1. /\ n \in 1..Len(log) /\ ApplyHistoryRecord(log[n]) /\ UNCHANGED <<log, missed>>
        /\ sync[p].pc \in Applying /\ n \in Nat
        /\ sync'[p].pc \in Applying => sync'[p].done = n
    BY <1>0, <1>4, OneMoreApplied DEF Applying
  <2>2. Fades(t) /\ t \notin missed /\ Floor' = Floor
    BY <1>0, <1>1, <2>1, RecordFades DEF ApplyHistoryRecord, Floor
  <2>3. CASE w = n
    <3>1. n - 1 \in Nat /\ n - 1 = sync[p].done BY <1>0
    <3>2. HeldFrom(t, sync[p].done) BY <1>0, <2>1, <2>2 DEF HeldInv, RowsHeld
    <3> HIDE DEF n
    <3>3. HeldFrom(t, w - 1) BY <2>3, <3>1, <3>2
    <3> QED BY <1>0, <2>1, <2>3, <3>3, RecordHeld DEF HeldInv
  <2>4. CASE w # n
    <3> HIDE DEF n
    <3>1. \/ w <= Floor
          \/ \E q \in Tasks : sync[q].pc \in Applying /\ w <= sync[q].done
      BY <1>0, <1>1, <1>4, <2>1, <2>2, <2>4 DEF Point
    <3> QED BY <2>1, <2>2, <3>1, PointsStay
  <2> QED BY <2>3, <2>4
<1>5. ASSUME NEW p \in Tasks, \A q \in Tasks \ {p} : sync'[q] = sync[q],
             SeedWatermark(p) \/ AdvanceWatermark(p)
      PROVE  HeldFrom(t, w)'
  <2>1. /\ UNCHANGED <<log, row, fetchedAt>> /\ missed \subseteq missed'
        /\ watermark' = sync[p].latest /\ sync[p].latest \in Nat /\ sync'[p] = Resting
    BY <1>0, <1>5 DEF SeedWatermark, AdvanceWatermark, SetWatermark, Finish, Goto, Pass
  <2>2. Fades(t) /\ t \notin missed BY <1>1, <2>1 DEF Fades
  <2>3. Floor' = sync[p].latest BY <2>1 DEF Floor, NoId
  <2>4. Resting.pc \notin Applying BY DEF Resting, Applying
  <2>5. CASE w # sync[p].latest
    <3>1. \E q \in Tasks : sync[q].pc \in Applying /\ w = sync[q].done
      BY <1>1, <1>5, <2>1, <2>3, <2>4, <2>5 DEF Point
    <3>2. \E q \in Tasks : sync[q].pc \in Applying /\ w <= sync[q].done BY <3>1
    <3> QED BY <2>1, <2>2, <3>2, PointsStay
  <2>6. ASSUME ~Full(t) PROVE HeldFrom(t, w)'
    <3>1. KeptFrom(t, w)' BY <2>1, <2>6, NoneFull DEF Full
    <3> QED BY <3>1 DEF KeptFrom, HeldFrom
  <2>7. CASE w = sync[p].latest /\ SeedWatermark(p) /\ Full(t)
    <3> DEFINE k == fetchedAt[t]
    <3>1. missed' = missed \cup {u \in Threads : Cached(u) # {} /\ fetchedAt[u] < sync[p].latest}
      BY <2>7 DEF SeedWatermark
    <3>2. Cached(t) # {} /\ k \in Nat BY <2>7 DEF Full, Cached, Typed, TypeOK, SyncTypeOK
    <3>3. w <= k BY <1>1, <2>7, <3>1, <3>2
    <3>4. HeldAt(t, k) BY <2>7, <3>2 DEF HeldInv, FetchHeld
    <3> HIDE DEF k
    <3>5. k \in w..Len(log) BY <1>0, <3>2, <3>3, <3>4 DEF HeldAt
    <3>6. HeldFrom(t, w) BY <3>4, <3>5 DEF HeldAt, HeldFrom
    <3> QED BY <2>1, <2>2, <3>6, HeldFades
  <2>8. CASE w = sync[p].latest /\ AdvanceWatermark(p) /\ Full(t)
    <3>1. sync[p].pc = "advance"
          /\ missed' = IF sync[p].more THEN missed \cup {u \in Threads : Cached(u) # {}} ELSE missed
      BY <2>8 DEF AdvanceWatermark
    <3>2. Cached(t) # {} BY <2>8 DEF Full, Cached
    <3>3. ~sync[p].more BY <1>1, <3>1, <3>2
    <3>4. Paged(sync[p]) BY DEF PageInv
    <3>5. w <= sync[p].done BY <2>8, <3>1, <3>3, <3>4 DEF Paged
    <3>6. sync[p].pc \in Applying BY <3>1 DEF Applying
    <3> QED BY <2>1, <2>2, <3>5, <3>6, PointsStay
  <2> QED BY <1>5, <2>5, <2>6, <2>7, <2>8
<1>6. ASSUME NEW p \in Tasks, Reseed(p) PROVE HeldFrom(t, w)'
  <2>1. \A m \in InThread(t) : row'[m] = NoRow BY <1>6 DEF Reseed, ReseedAccount, InThread
  <2>2. KeptFrom(t, w)' BY <2>1, NoneFull DEF NoRow
  <2> QED BY <2>2 DEF KeptFrom, HeldFrom
<1>7. ASSUME NEW r \in Readers, WriteThread(r) PROVE HeldFrom(t, w)'
  <2> DEFINE u == read[r].thread
             k == read[r].content
  <2>1. /\ InsertThread(u, k) /\ UNCHANGED <<log, sync, watermark>>
        /\ missed' = IF AppliedPast(k) THEN missed \cup {u} ELSE missed \ {u}
        /\ read[r].pc = "insert"
    BY <1>7 DEF WriteThread, InsertThread, At
  <2>2. k \in Nat /\ k <= Len(log)
    BY <2>1 DEF HeldInv, FetchInv, Typed, TypeOK, ServiceTypeOK, Call
  <2>3. Point(w) BY <1>1, <2>1 DEF Point, Floor
  <2> HIDE DEF k, u
  <2>4. CASE t = u
    <3>1. ~(watermark > k) /\ \A p \in Tasks : ~(sync[p].done > k)
      BY <1>1, <2>1, <2>4 DEF AppliedPast
    <3>2. w <= k BY <1>0, <2>2, <2>3, <3>1 DEF Point, Floor, NoId
    <3> QED BY <1>0, <2>1, <2>2, <2>4, <3>2, FetchIsHeld
  <2>5. CASE t # u
    <3>1. Fades(t) BY <2>1, <2>5 DEF InsertThread, InThread, Fades
    <3>2. t \notin missed BY <1>1, <2>1, <2>5
    <3>3. \/ w <= Floor
          \/ \E p \in Tasks : sync[p].pc \in Applying /\ w <= sync[p].done
      BY <2>3 DEF Point
    <3> QED BY <2>1, <3>1, <3>2, <3>3, PointsStay
  <2> QED BY <2>4, <2>5
<1>8. ASSUME UNCHANGED <<log, watermark, missed, sync>>, Fades(t) PROVE HeldFrom(t, w)'
  <2>1. \/ w <= Floor
        \/ \E p \in Tasks : sync[p].pc \in Applying /\ w <= sync[p].done
    BY <1>1, <1>8 DEF Point, Floor
  <2>2. UNCHANGED log /\ t \notin missed BY <1>1, <1>8
  <2> QED BY <1>8, <2>1, <2>2, PointsStay
<1>9. ASSUME NEW r \in Readers, WriteSummary(r), ~WriteThread(r) PROVE HeldFrom(t, w)'
  <2>1. InsertSummary(read[r].thread, read[r].content) /\ UNCHANGED <<log, watermark, missed, sync>>
    BY <1>9 DEF WriteSummary, InsertSummary
  <2>2. CASE \A m \in InThread(t) : row'[m] = row[m]
    <3>1. Fades(t) BY <2>2 DEF Fades
    <3> QED BY <1>8, <2>1, <3>1
  <2>3. CASE \A m \in InThread(t) : row'[m] = NoRow
    <3>1. KeptFrom(t, w)' BY <2>3, NoneFull DEF NoRow
    <3> QED BY <3>1 DEF KeptFrom, HeldFrom
  <2> QED BY <2>1, <2>2, <2>3, SummaryFades
<1>10. ASSUME UNCHANGED <<log, watermark, fetchedAt, missed, sync>>,
              (\E old \in SUBSET Messages : PurgeOldBodies(old)) \/ InvalidateAllLabels
       PROVE  HeldFrom(t, w)'
  <2>1. CASE Fades(t) BY <1>8, <1>10, <2>1
  <2>2. ASSUME NEW r \in Readers, WriteThread(r) PROVE HeldFrom(t, w)' BY <1>7, <2>2
  <2> QED BY <2>1, <2>2, RowsFadeOrAreFetched
<1> QED BY <1>2, <1>3, <1>4, <1>5, <1>6, <1>7, <1>9, <1>10, OverlapKinds

LEMMA HeldInvNext ==
  ASSUME Typed, PageInv, Unevicted, [Next]_vars, HeldInv
  PROVE  HeldInv'
<1>1. InOrder /\ FetchInv /\ DeadAreExpunged BY DEF HeldInv
<1>2. InOrder' BY <1>1, HistoryGoesOn
<1>3. FetchInv' BY <1>1, FetchInvNext
<1>4. DeadAreExpunged' BY <1>1, DeadAreExpungedNext
<1> QED BY <1>2, <1>3, <1>4, RowsHeldNext, FetchHeldNext DEF HeldInv

LEMMA HeldInvInit == Init => HeldInv
<1> SUFFICES ASSUME Init PROVE HeldInv OBVIOUS
<1>1. InOrder /\ FetchInv /\ DeadAreExpunged BY RowsInvInit DEF RowsInv
<1>2. NoRow.body = "none" BY DEF NoRow
<1>3. \A t : ~Full(t) BY <1>2 DEF Init, StoreInit, Full, InThread
<1>4. \A m \in Messages : row[m].body = "none" BY <1>2 DEF Init, StoreInit
<1>5. RowsHeld BY <1>3, <1>4 DEF RowsHeld, HeldFrom, InThread
<1> QED BY <1>1, <1>3, <1>5 DEF HeldInv, FetchHeld

(* A hit shows who is there, at the watermark.                               *)
LEMMA HitIsHeld ==
  ASSUME Typed, HeldInv, NEW t \in Threads, t \notin missed, ThreadHit(t)
  PROVE  ShownSince(Floor, t, Live(t))
<1>1. Floor \in Nat /\ Floor <= Len(log) /\ Len(log) \in Nat
  BY PastType DEF Typed, TypeOK, MailboxTypeOK
<1>2. HeldFrom(t, Floor) BY <1>1 DEF HeldInv, RowsHeld
<1>3. Live(t) # {} /\ \A m \in Live(t) : row[m].body = "full" BY DEF ThreadHit
<1>4. Full(t) BY <1>3 DEF Full, Live, Cached
<1>5. ASSUME NEW m \in InThread(t), m \in Live(t) PROVE \E k \in Floor..Len(log) : Exists(m, k)
  BY <1>2, <1>3, <1>5 DEF HeldFrom, Live, Cached
<1>6. ASSUME NEW m \in InThread(t), \A k \in Floor..Len(log) : Exists(m, k)
      PROVE  m \in Live(t)
  <2>1. row[m].body # "none" BY <1>2, <1>4, <1>6 DEF HeldFrom
  <2>2. Len(log) \in Floor..Len(log) BY <1>1
  <2>3. ~row[m].dead BY <1>6, <2>2 DEF HeldInv, DeadAreExpunged, Exists, InThread
  <2> QED BY <2>1, <2>3 DEF Live, Cached
<1> QED BY <1>5, <1>6 DEF ShownSince

(* What was shown of a hit stays as good while the mailbox goes on.          *)
ReplyHeld(c) ==
  c.op = "thread" /\ c.pc \in {"labels", "served"} /\ c.clean => ShownSince(c.floor, c.thread, c.ids)

RepliesHeld == \A r \in Readers, c \in Call : c = read[r] => ReplyHeld(c)

LEMMA ShownStays ==
  ASSUME LogExtends, NEW w \in Nat, NEW t, NEW ids, ShownSince(w, t, ids)
  PROVE  ShownSince(w, t, ids)'
<1>1. \A k \in w..Len(log) : k \in w..Len(log') /\ k \in 0..Len(log) BY DEF LogExtends
<1>2. \A m, k : k \in w..Len(log) => Exists(m, k)' = Exists(m, k) BY <1>1, PastIsFixed
<1>3. InThread(t)' = InThread(t) BY DEF InThread
<1>4. ASSUME NEW m \in InThread(t)
      PROVE  /\ m \in ids => \E k \in w..Len(log') : Exists(m, k)'
             /\ (\A k \in w..Len(log') : Exists(m, k)') => m \in ids
  BY <1>1, <1>2 DEF ShownSince
<1> QED BY <1>3, <1>4 DEF ShownSince

LEMMA RepliesHeldNext ==
  ASSUME Typed, [Next]_vars, HeldInv, RepliesHeld
  PROVE  RepliesHeld'
<1> SUFFICES ASSUME NEW u \in Readers, NEW c \in Call, c = read'[u] PROVE ReplyHeld(c)'
  BY DEF RepliesHeld
<1>0. LogExtends /\ read[u] \in Call /\ Floor \in Nat /\ c.floor \in Nat
  BY HistoryGoesOn, PastType DEF HeldInv, Typed, TypeOK, ServiceTypeOK, Call
<1>1. ASSUME ReplyHeld(c) PROVE ReplyHeld(c)' BY <1>0, <1>1, ShownStays DEF ReplyHeld
<1>2. CASE read'[u] = read[u]
  <2>1. ReplyHeld(c) BY <1>0, <1>2 DEF RepliesHeld
  <2> QED BY <1>1, <2>1
<1>3. CASE read'[u].op = "thread" => read'[u].pc \notin {"labels", "served"} BY <1>3 DEF ReplyHeld
<1>4. CASE LookupThread(u)
  <2> DEFINE t == read[u].thread
  <2>1. t \in Threads BY <1>0 DEF Call
  <2>2. CASE ~ThreadHit(t)
    <3>1. Become(u, Miss(u)) BY <1>4, <2>2 DEF LookupThread
    <3>2. Miss(u).pc = "fetch" BY <1>0 DEF Miss, Call
    <3>3. read'[u] = Miss(u) BY <3>1, OtherCallsStay
    <3> QED BY <1>3, <3>2, <3>3
  <2>3. CASE ThreadHit(t)
    <3> DEFINE ids == Live(t)
    <3>1. Become(u, Hit(u, ids)) BY <1>4, <2>3 DEF LookupThread
    <3>2. c = Hit(u, ids) BY <3>1, OtherCallsStay
    <3>3. c.thread = t /\ c.floor = Floor /\ c.ids = ids /\ (c.clean => t \notin missed)
      BY <1>0, <3>2 DEF Hit, Call
    <3>4. c.clean => ShownSince(Floor, t, ids) BY <2>1, <2>3, <3>3, HitIsHeld
    <3> HIDE DEF ids, t
    <3>5. ReplyHeld(c) BY <3>3, <3>4 DEF ReplyHeld
    <3> QED BY <1>1, <3>5
  <2> QED BY <2>2, <2>3
<1>5. CASE ReadLabels(u)
  <2> DEFINE d == read[u]
  <2>1. PICK m \in d.todo : Become(u, Labelled(u, m)) BY <1>5, LabelsAreRead
  <2>2. c = Labelled(u, m) BY <2>1, OtherCallsStay
  <2>3. d.pc = "labels" /\ ReplyHeld(d) BY <1>0, <1>5 DEF ReadLabels, RepliesHeld
  <2>4. /\ c.op = d.op /\ c.thread = d.thread /\ c.floor = d.floor /\ c.ids = d.ids
        /\ c.clean = StillClean(u, m)
    BY <1>0, <2>2 DEF Labelled, Call
  <2>5. c.clean => d.clean BY <2>4 DEF StillClean
  <2> HIDE DEF d
  <2>6. ReplyHeld(c) BY <2>3, <2>4, <2>5 DEF ReplyHeld
  <2> QED BY <1>1, <2>6
<1> QED BY <1>2, <1>3, <1>4, <1>5, ReadKinds

LEMMA RepliesHeldInit == Init => RepliesHeld
<1>1. \A c : Quiet(c).pc = "idle" BY DEF Quiet, Fresh
<1>2. Init => \A r \in Readers : read[r].pc = "idle" BY <1>1 DEF Init, NoCalls
<1> QED BY <1>2 DEF RepliesHeld, ReplyHeld

(* With any number of overlapping passes, failures, restarts and replays,    *)
(* and whatever cache_invalidate does: a thread that counts as a hit, and    *)
(* the reply get_thread makes of it, leave out no message that was there     *)
(* all along since last_history_id, and show none that was gone before it -  *)
(* although the slower pass writes its older records over the rows and may   *)
(* move last_history_id back.  Only eviction takes messages out of a thread  *)
(* that still counts as a hit.                                               *)
THEOREM HitsShowTheirMessages == Unevicted => (Spec => []HitShowsItsMessages)
<1> SUFFICES ASSUME Unevicted PROVE Spec => []HitShowsItsMessages OBVIOUS
<1> DEFINE Inv == Typed /\ PageInv /\ HeldInv /\ RepliesHeld
<1>1. Init => Inv BY InitTyping, PageInvInit, HeldInvInit, RepliesHeldInit
<1>2. Inv /\ [Next]_vars => Inv' BY StepTyping, PageInvNext, HeldInvNext, RepliesHeldNext
<1>3. Inv => HitShowsItsMessages
  <2> SUFFICES ASSUME Inv PROVE HitShowsItsMessages OBVIOUS
  <2>1. \A t \in Threads : ThreadHit(t) /\ t \notin missed => ShownSince(Floor, t, Live(t))
    BY HitIsHeld
  <2>2. ASSUME NEW r \in Readers, At(r, "served", "thread"), read[r].clean
        PROVE  ShownSince(read[r].floor, read[r].thread, read[r].ids)
    <3>1. read[r] \in Call BY DEF Typed, TypeOK, ServiceTypeOK
    <3>2. ReplyHeld(read[r]) BY <3>1 DEF RepliesHeld
    <3> QED BY <2>2, <3>2 DEF ReplyHeld, At
  <2> QED BY <2>1, <2>2 DEF HitShowsItsMessages
<1> QED BY <1>1, <1>2, <1>3, PTL DEF Spec

=============================================================================
