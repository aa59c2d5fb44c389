----------------------------- MODULE CacheService -----------------------------
(* GmailService with a cache (src/src/gmail/service.rs): the cache-aware     *)
(* reads, over the background sync task, the operator's cache_invalidate,    *)
(* eviction and body purge, and restarts.  A read is a sequence of awaits -  *)
(* best-effort sync, lookup, upstream fetch, write-back - and any other read *)
(* or task may run between two of them.                                      *)
EXTENDS HistorySync

CONSTANTS Readers,         \* concurrent tool calls
          Background,      \* the per-account sync task
          SyncOnRead,      \* config: cache.sync_on_read
          BackgroundSync,  \* config: background_sync_interval_seconds > 0
          Reads,           \* which of the reads below the readers make
          Upkeep           \* which of the upkeep actions below happen

ASSUME ServiceAssumption ==
  /\ Background \notin Readers /\ Tasks = Readers \cup {Background}
  /\ SyncOnRead \in BOOLEAN /\ BackgroundSync \in BOOLEAN
  /\ Reads \subseteq {"thread", "summary", "query"}
  /\ Upkeep \subseteq {"forget", "purge", "evict", "expire", "drop_queries", "drop_labels"}

VARIABLE read              \* control state and locals of each tool call

vars == <<log, horizon, watermark, row, summary, memo, sync, faults, fetchedAt, missed,
          reached, read>>

(* floor: the watermark at the lookup.  ids, labels: the messages of a hit   *)
(* and the labels read for them so far; todo: those still to read.  clean    *)
(* (read by properties only): at each of those points the thread had not     *)
(* been missed by a sync and its row was there, with the headers it had been *)
(* fetched with.                                                             *)
Call == [pc : {"idle", "lookup", "labels", "snapshot", "fetch", "insert", "served"},
         op : {"thread", "summary", "query"}, thread : Threads, query : Queries,
         snapshot : Nat, content : Nat, floor : Nat, ids : SUBSET Messages,
         todo : SUBSET Messages, labels : [Messages -> SUBSET Labels], clean : BOOLEAN]

Fresh(op, t, q) ==
  [pc |-> "lookup", op |-> op, thread |-> t, query |-> q, snapshot |-> 0, content |-> 0,
   floor |-> 0, ids |-> {}, todo |-> {}, labels |-> [m \in Messages |-> {}], clean |-> FALSE]

Quiet(c) == [Fresh(c.op, c.thread, c.query) EXCEPT !.pc = "idle"]

ServiceTypeOK == read \in [Readers -> Call]

TypeOK == MailboxTypeOK /\ StoreTypeOK /\ SyncTypeOK /\ ServiceTypeOK

NoCalls ==
  \E t \in Threads, q \in Queries :
    read = [r \in Readers |-> Quiet(Fresh("thread", t, q))]

Init == MailboxInit /\ StoreInit /\ SyncInit /\ NoCalls

Become(r, c) == read' = [read EXCEPT ![r] = c]
At(r, pc, op) == read[r].pc = pc /\ read[r].op = op

-----------------------------------------------------------------------------
(* Reads.                                                                    *)

(* A tool call arrives and, with sync_on_read, starts a pass of its own.     *)
BeginRead(r) ==
  /\ read[r].pc \in {"idle", "served"}
  /\ \E op \in Reads, t \in Threads, q \in Queries : Become(r, Fresh(op, t, q))
  /\ IF SyncOnRead THEN StartPass(r) ELSE UNCHANGED sync
  /\ UNCHANGED <<mailboxVars, storeVars, faults, ghostVars>>

(* maybe_sync has returned, whatever became of the pass.                     *)
Synced(r) == sync[r].pc = "idle"

Miss(r) == [read[r] EXCEPT !.pc = "fetch"]
Hit(r, ids) ==
  LET t == read[r].thread
  IN [read[r] EXCEPT !.pc = IF ids = {} THEN "served" ELSE "labels",
                     !.ids = ids, !.todo = ids, !.floor = Floor, !.clean = t \notin missed]

LookupThread(r) ==
  /\ At(r, "lookup", "thread") /\ Synced(r)
  /\ LET t == read[r].thread IN Become(r, IF ThreadHit(t) THEN Hit(r, Live(t)) ELSE Miss(r))
  /\ UNCHANGED <<mailboxVars, storeVars, syncVars, ghostVars>>

LookupSummary(r) ==
  /\ At(r, "lookup", "summary") /\ Synced(r)
  /\ LET t == read[r].thread IN Become(r, IF SummaryHit(t) THEN Hit(r, Live(t)) ELSE Miss(r))
  /\ UNCHANGED <<mailboxVars, storeVars, syncVars, ghostVars>>

StillClean(r, m) ==
  read[r].clean /\ read[r].thread \notin missed /\ row[m].body \in {"full", "headers"}

(* Mutant: labels are read for one message of the hit only.                  *)
ReadFirstLabels(r) ==
  /\ read[r].pc = "labels"
  /\ \E m \in read[r].todo :
       Become(r, [read[r] EXCEPT !.pc = "served", !.todo = {}, !.labels[m] = row[m].labels,
                                 !.clean = StillClean(r, m)])
  /\ UNCHANGED <<mailboxVars, storeVars, syncVars, ghostVars>>

(* fetch_labels runs once per message, each a call of its own.               *)
ReadLabels(r) ==
  /\ read[r].pc = "labels"
  /\ LET c == read[r] IN
     \E m \in c.todo :
       Become(r, [c EXCEPT !.pc = IF c.todo = {m} THEN "served" ELSE "labels",
                           !.todo = @ \ {m}, !.labels[m] = row[m].labels,
                           !.clean = StillClean(r, m)])
  /\ UNCHANGED <<mailboxVars, storeVars, syncVars, ghostVars>>

LookupQuery(r) ==
  /\ At(r, "lookup", "query") /\ Synced(r)
  /\ LET q == read[r].query IN
     Become(r, IF QueryHit(q)
               THEN [read[r] EXCEPT !.pc = "served", !.content = memo[q].content, !.floor = Floor]
               ELSE [read[r] EXCEPT !.pc = "snapshot"])
  /\ UNCHANGED <<mailboxVars, storeVars, syncVars, ghostVars>>

(* list_threads reads the watermark before it asks upstream.                 *)
Snapshot(r) ==
  /\ At(r, "snapshot", "query")
  /\ Become(r, [read[r] EXCEPT !.pc = "fetch", !.snapshot = Floor])
  /\ UNCHANGED <<mailboxVars, storeVars, syncVars, ghostVars>>

(* The upstream answer; a thread with no message left is a 404 error.        *)
Fetch(r) ==
  /\ read[r].pc = "fetch"
  /\ LET gone == read[r].op # "query" /\ MembersAt(read[r].thread, Len(log)) = {}
     IN Become(r, IF gone THEN Quiet(read[r])
                  ELSE [read[r] EXCEPT !.pc = "insert", !.content = Len(log)])
  /\ UNCHANGED <<mailboxVars, storeVars, syncVars, ghostVars>>

Return(r) == Become(r, Quiet(read[r]))

(* get_thread writes back whatever it fetched, without looking at the        *)
(* watermark again.                                                          *)
WriteThread(r) ==
  /\ At(r, "insert", "thread")
  /\ LET t == read[r].thread
         k == read[r].content
     IN /\ InsertThread(t, k)
        /\ fetchedAt' = [fetchedAt EXCEPT ![t] = k]
        /\ missed' = IF AppliedPast(k) THEN missed \cup {t} ELSE missed \ {t}
  /\ Return(r)
  /\ UNCHANGED <<mailboxVars, syncVars, reached>>

WriteSummary(r) ==
  /\ At(r, "insert", "summary")
  /\ InsertSummary(read[r].thread, read[r].content)
  /\ Return(r)
  /\ UNCHANGED <<mailboxVars, syncVars, ghostVars>>

(* Mutant: the memo is stamped with the watermark at the write.              *)
WriteQueryRestamped(r) ==
  /\ At(r, "insert", "query")
  /\ InsertQuery(read[r].query, Floor, read[r].content)
  /\ Return(r)
  /\ UNCHANGED <<mailboxVars, syncVars, ghostVars>>

WriteQuery(r) ==
  /\ At(r, "insert", "query")
  /\ InsertQuery(read[r].query, read[r].snapshot, read[r].content)
  /\ Return(r)
  /\ UNCHANGED <<mailboxVars, syncVars, ghostVars>>

(* The call fails (upstream or SQL error) or its future is dropped by a      *)
(* fan-out timeout; the pass it was driving, if any, goes with it.           *)
DropCall(r) ==
  /\ read[r].pc \notin {"idle", "served"} /\ faults < MaxFaults
  /\ Return(r)
  /\ Finish(r)
  /\ faults' = faults + 1
  /\ UNCHANGED <<mailboxVars, storeVars, ghostVars>>

-----------------------------------------------------------------------------
(* Everything else that runs.                                                *)

BackgroundTick ==
  /\ BackgroundSync
  /\ StartPass(Background)
  /\ UNCHANGED <<mailboxVars, storeVars, faults, ghostVars, read>>

(* The process dies and starts again; the database file survives.            *)
Restart ==
  /\ faults < MaxFaults
  /\ faults' = faults + 1
  /\ sync' = [p \in Tasks |-> Resting]
  /\ read' = [r \in Readers |-> Quiet(read[r])]
  /\ UNCHANGED <<mailboxVars, storeVars, ghostVars>>

Maintain ==
  /\ \/ "purge" \in Upkeep /\ \E old \in SUBSET Messages : PurgeOldBodies(old)
     \/ "evict" \in Upkeep /\ \E qs \in SUBSET Queries : EvictQueries(qs)
     \/ "evict" \in Upkeep /\ \E batch \in SUBSET Messages : EvictRows(batch)
     \/ "expire" \in Upkeep /\ \E q \in Queries : ExpireQuery(q)
     \/ "drop_queries" \in Upkeep /\ InvalidateAllQueries
     \/ "drop_labels" \in Upkeep /\ InvalidateAllLabels
  /\ UNCHANGED <<mailboxVars, syncVars, ghostVars, read>>

Upstream ==
  /\ MailboxChange \/ ("forget" \in Upkeep /\ ForgetHistory)
  /\ UNCHANGED <<storeVars, syncVars, ghostVars, read>>

ReadStep(r) ==
  \/ LookupThread(r) \/ LookupSummary(r) \/ ReadLabels(r) \/ LookupQuery(r)
  \/ Snapshot(r) \/ Fetch(r) \/ WriteThread(r) \/ WriteSummary(r) \/ WriteQuery(r)

PassStep(p) == SyncStep(p) /\ UNCHANGED read

Next ==
  \/ Upstream \/ BackgroundTick \/ Restart \/ Maintain
  \/ \E p \in Tasks : PassStep(p) \/ (AbandonPass(p) /\ UNCHANGED read)
  \/ \E r \in Readers : BeginRead(r) \/ ReadStep(r) \/ DropCall(r)

Spec == Init /\ [][Next]_vars

(* The ticker fires again and again, and a started pass or read goes on: its *)
(* awaits are local SQL calls and HTTP requests that time out.  Nothing is   *)
(* assumed of upstream changes, faults or upkeep.                            *)
Fairness ==
  /\ WF_vars(BackgroundTick)
  /\ \A p \in Tasks : WF_vars(PassStep(p))
  /\ \A r \in Readers : WF_vars(ReadStep(r))

FairSpec == Spec /\ Fairness
-----------------------------------------------------------------------------
(* Properties.                                                               *)

(* Messages of thread t, as a cache or a reply shows them, agree with the     *)
(* mailbox no further back than history id w: every message shown existed at *)
(* w or later, and every message that existed ever since w is shown.         *)
ShownSince(w, t, ids) ==
  \A m \in InThread(t) :
    /\ m \in ids => \E k \in w..Len(log) : Exists(m, k)
    /\ (\A k \in w..Len(log) : Exists(m, k)) => m \in ids

(* So do its labels: each label of a message shown is as it was at some id   *)
(* since w.                                                                  *)
NoOlderThan(w, t, ids, labels) ==
  /\ ShownSince(w, t, ids)
  /\ \A m \in InThread(t) \cap ids : \A l \in Labels :
       \E k \in w..Len(log) : (l \in labels[m]) <=> Tagged(m, l, k)

RowLabels == [m \in Messages |-> row[m].labels]

(* A thread get_thread would serve from the cache is never older than the    *)
(* watermark, in the middle of a pass, after a failed one and after a replay *)
(* alike - for threads whose rows no pass has gone past (missed).  Holds     *)
(* when passes do not overlap; sync.rs:8 says "idempotent".                  *)
ThreadHitCoherent ==
  \A t \in Threads :
    ThreadHit(t) /\ t \notin missed => NoOlderThan(Floor, t, Live(t), RowLabels)

(* Whatever passes overlap, a thread hit and the reply made of it show the    *)
(* messages they should, although the slower pass replays its records over   *)
(* the rows of the faster one and may move the watermark back.  Only labels  *)
(* may be older then (sync.rs:8 "idempotent").                               *)
HitShowsItsMessages ==
  /\ \A t \in Threads : ThreadHit(t) /\ t \notin missed => ShownSince(Floor, t, Live(t))
  /\ \A r \in Readers :
       At(r, "served", "thread") /\ read[r].clean
         => ShownSince(read[r].floor, read[r].thread, read[r].ids)

(* What get_thread returned is no older than the watermark it looked up      *)
(* under, although rows and labels are read by separate calls - unless the   *)
(* rows went away in between, which a reseed can do, and came back as stubs  *)
(* if at all (not clean).                                                    *)
ServedThreadCoherent ==
  \A r \in Readers :
    At(r, "served", "thread") /\ read[r].clean
      => NoOlderThan(read[r].floor, read[r].thread, read[r].ids, read[r].labels)

(* list_threads never serves an answer computed before the watermark, with   *)
(* any number of overlapping passes and reads (ADR-0009 "Race-prevention").  *)
QueryHitFresh ==
  /\ \A q \in Queries : QueryHit(q) => memo[q].content >= Floor
  /\ \A r \in Readers : At(r, "served", "query") => read[r].content >= read[r].floor

(* Nor one older than anything the cache had already advanced to, while      *)
(* passes do not overlap: the check "eliminates the silent staleness window" *)
(* (ADR-0009) because the watermark does not come back down.                 *)
QueryHitNeverSilentlyStale == \A q \in Queries : QueryHit(q) => memo[q].content >= reached

(* The watermark never runs ahead of the mailbox, so history.list always     *)
(* covers everything the cache has not seen.                                 *)
WatermarkBehindMailbox ==
  /\ watermark <= Len(log)
  /\ \A p \in Tasks :
       /\ sync[p].latest <= Len(log) /\ sync[p].done <= Len(log) /\ sync[p].upto <= Len(log)
       /\ sync[p].pc = "apply" => sync[p].done < sync[p].upto

(* set_last_history_id is unconditional, yet while passes do not overlap the *)
(* watermark never moves backwards, whatever fails or restarts.              *)
WatermarkMonotone == [][watermark' >= watermark]_vars

(* Records are never skipped: a pass that moves the watermark has applied    *)
(* every record up to where it moves it.  sync.rs says of the page cap that  *)
(* "remaining events [are] deferred to next tick".                           *)
NoRecordSkipped ==
  [][\A p \in Tasks :
       sync[p].pc = "advance" /\ watermark' # watermark /\ sync'[p] # sync[p]
         => watermark' <= sync[p].done]_vars

(* Once the mailbox falls silent and faults stop, the background task brings *)
(* the watermark to the mailbox for good, whatever passes it overlaps with.  *)
CaughtUp == watermark = Len(log)

EventuallyCaughtUp == <>[]CaughtUp

(* Every tool call comes to an end: no read waits for ever on its sync.      *)
ReadsEnd == \A r \in Readers : read[r].pc = "lookup" ~> read[r].pc \in {"idle", "served"}

=============================================================================
