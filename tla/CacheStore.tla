------------------------------ MODULE CacheStore ------------------------------
(* The SQLite cache of one account (src/src/cache/queries.rs).  One          *)
(* connection serialises its calls, and each write is one transaction, so    *)
(* every conn.call of the code is one action here.  Message bodies and       *)
(* headers are immutable upstream and are kept only as "how much of the row  *)
(* is filled in"; labels, liveness and the watermark are kept exactly.       *)
EXTENDS Mailbox

CONSTANT Queries      \* (query, max_results, page_token) keys of query_cache

NoId == -1            \* account_state.last_history_id IS NULL

VARIABLES watermark,  \* account_state.last_history_id
          row,        \* messages + message_labels, by real message id
          summary,    \* rows written by insert_thread_metadata
          memo        \* query_cache

storeVars == <<watermark, row, summary, memo>>

(* body: no row / stub from a history event ('{}' headers, NULL body) /      *)
(* headers kept and body purged / complete.                                  *)
Row == [body : {"none", "stub", "headers", "full"}, dead : BOOLEAN, labels : SUBSET Labels]
NoRow == [body |-> "none", dead |-> FALSE, labels |-> {}]
Stub == [NoRow EXCEPT !.body = "stub"]

(* insert_thread_metadata keys its rows "tid::idx", which no history event   *)
(* ever names, so the row for a message is fixed by the mailbox id it was    *)
(* fetched at (0: no such row) until the thread's row set is replaced.       *)
Memo == [held : BOOLEAN, snapshot : Nat, content : Nat]
NoMemo == [held |-> FALSE, snapshot |-> 0, content |-> 0]

StoreTypeOK ==
  /\ watermark \in Nat \cup {NoId}
  /\ row \in [Messages -> Row]
  /\ summary \in [Messages -> Nat]
  /\ memo \in [Queries -> Memo]

StoreInit ==
  /\ watermark = NoId
  /\ row = [m \in Messages |-> NoRow]
  /\ summary = [m \in Messages |-> 0]
  /\ memo = [q \in Queries |-> NoMemo]

-----------------------------------------------------------------------------
(* Lookups.                                                                  *)

InThread(t) == {m \in Messages : ThreadOf[m] = t}
Cached(t) == {m \in InThread(t) : row[m].body # "none"}
Live(t) == {m \in Cached(t) : ~row[m].dead}
Summarised(t) == {m \in InThread(t) : summary[m] # 0}

(* lookup_thread: some live row, and every live row has its body.            *)
ThreadHit(t) ==
  Live(t) # {} /\ Summarised(t) = {} /\ \A m \in Live(t) : row[m].body = "full"

(* lookup_thread_metadata: any live row at all.                              *)
SummaryHit(t) == Live(t) \cup Summarised(t) # {}

Floor == IF watermark = NoId THEN 0 ELSE watermark

(* Mutant: lookup_query without its watermark condition.                     *)
QueryHitAtAnyAge(q) == memo[q].held

(* lookup_query: a row at least as recent as the watermark.                  *)
QueryHit(q) == memo[q].held /\ memo[q].snapshot >= Floor

-----------------------------------------------------------------------------
(* Writes.                                                                   *)

(* insert_thread: the thread's rows become exactly the fetched messages.     *)
InsertThread(t, k) ==
  /\ row' = [m \in Messages |->
               IF ThreadOf[m] # t THEN row[m]
               ELSE IF Exists(m, k)
                    THEN [body |-> "full", dead |-> FALSE, labels |-> LabelsAt(m, k)]
                    ELSE NoRow]
  /\ summary' = [m \in Messages |-> IF ThreadOf[m] = t THEN 0 ELSE summary[m]]
  /\ UNCHANGED <<watermark, memo>>

(* insert_thread_metadata: left alone if any row of the thread has a body,   *)
(* soft-deleted rows included; otherwise replaces the row set.               *)
InsertSummary(t, k) ==
  IF \E m \in InThread(t) : row[m].body = "full"
  THEN UNCHANGED storeVars
  ELSE /\ row' = [m \in Messages |-> IF ThreadOf[m] = t THEN NoRow ELSE row[m]]
       /\ summary' = [m \in Messages |->
                        IF ThreadOf[m] # t THEN summary[m]
                        ELSE IF Exists(m, k) THEN k ELSE 0]
       /\ UNCHANGED <<watermark, memo>>

(* insert_query: discarded when the watermark passed the snapshot.           *)
InsertQuery(q, snapshot, k) ==
  /\ memo' = IF watermark > snapshot THEN memo
             ELSE [memo EXCEPT ![q] = [held |-> TRUE, snapshot |-> snapshot, content |-> k]]
  /\ UNCHANGED <<watermark, row, summary>>

SetWatermark(id) == watermark' = id /\ UNCHANGED <<row, summary, memo>>

(* Mutant: a row that is there already comes back to life.                   *)
OrStubRevived(r) == IF r.body = "none" THEN Stub ELSE [r EXCEPT !.dead = FALSE]

(* ON CONFLICT DO NOTHING: a row that is there stays as it is, dead or not.  *)
OrStub(r) == IF r.body = "none" THEN Stub ELSE r

(* Mutant: messagesAdded writes no stub.                                     *)
AppliedWithoutStub(e, r) ==
  CASE e.kind = "messagesAdded" -> r
    [] e.kind = "messagesDeleted" -> [r EXCEPT !.dead = (r.body # "none")]
    [] e.kind = "labelsAdded" -> [OrStub(r) EXCEPT !.labels = @ \cup e.labels]
    [] e.kind = "labelsRemoved" -> [r EXCEPT !.labels = @ \ e.labels]

(* What one history record does to the row it names.                         *)
Applied(e, r) ==
  CASE e.kind = "messagesAdded" -> OrStub(r)
    [] e.kind = "messagesDeleted" -> [r EXCEPT !.dead = (r.body # "none")]
    [] e.kind = "labelsAdded" -> [OrStub(r) EXCEPT !.labels = @ \cup e.labels]
    [] e.kind = "labelsRemoved" -> [r EXCEPT !.labels = @ \ e.labels]

(* apply_history_record.                                                     *)
ApplyHistoryRecord(e) ==
  /\ row' = [row EXCEPT ![e.msg] = Applied(e, @)]
  /\ UNCHANGED <<watermark, summary, memo>>

InvalidateAllQueries ==
  /\ memo' = [q \in Queries |-> NoMemo]
  /\ UNCHANGED <<watermark, row, summary>>

InvalidateAllLabels ==
  /\ row' = [m \in Messages |-> [row[m] EXCEPT !.labels = {}]]
  /\ UNCHANGED <<watermark, summary, memo>>

(* Mutant: a reseed that clears account_state along with the rows.           *)
ReseedToNull(id) ==
  /\ watermark' = NoId
  /\ row' = [m \in Messages |-> NoRow]
  /\ summary' = [m \in Messages |-> 0]
  /\ memo' = [q \in Queries |-> NoMemo]

(* reseed_account.                                                           *)
ReseedAccount(id) ==
  /\ watermark' = id
  /\ row' = [m \in Messages |-> NoRow]
  /\ summary' = [m \in Messages |-> 0]
  /\ memo' = [q \in Queries |-> NoMemo]

(* purge_old_bodies: the rows in old are past the age cutoff, or             *)
(* soft-deleted past the grace window.                                       *)
PurgeOldBodies(old) ==
  /\ old # {} /\ \A m \in old : row[m].body = "full"
  /\ row' = [m \in Messages |->
               IF m \in old THEN [row[m] EXCEPT !.body = "headers"] ELSE row[m]]
  /\ UNCHANGED <<watermark, summary, memo>>

(* expires_at of a memoised query has passed: no lookup returns it again.    *)
ExpireQuery(q) ==
  /\ memo[q].held
  /\ memo' = [memo EXCEPT ![q] = NoMemo]
  /\ UNCHANGED <<watermark, row, summary>>

(* run_eviction_cycle when the file is over its limit: memoised queries go   *)
(* first, oldest first, and only when none is left do rows go: soft-deleted  *)
(* ones, then batches of the oldest.  It stops as soon as enough pages are   *)
(* free; sizes are not modelled, so it may stop after any batch, and rows of *)
(* one thread share a fetched_at, so a batch limit may cut between them.     *)
EvictQueries(qs) ==
  /\ \E q \in qs : memo[q].held
  /\ memo' = [q \in Queries |-> IF q \in qs THEN NoMemo ELSE memo[q]]
  /\ UNCHANGED <<watermark, row, summary>>

EvictRows(batch) ==
  /\ batch # {} /\ \A m \in batch : row[m].body # "none" \/ summary[m] # 0
  /\ memo' = [q \in Queries |-> NoMemo]
  /\ row' = [m \in Messages |-> IF m \in batch \/ row[m].dead THEN NoRow ELSE row[m]]
  /\ summary' = [m \in Messages |-> IF m \in batch THEN 0 ELSE summary[m]]
  /\ UNCHANGED watermark
=============================================================================
