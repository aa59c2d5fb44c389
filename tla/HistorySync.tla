----------------------------- MODULE HistorySync -----------------------------
(* HistorySync::sync_account (src/src/cache/sync.rs): catch the cache up     *)
(* with users.history.list.  Every await is a step boundary, so passes of    *)
(* the background task and of sync_on_read reads interleave step by step;    *)
(* nothing in the code serialises them.                                      *)
EXTENDS CacheStore

CONSTANTS Tasks,      \* whoever may run a sync pass
          PageSize,   \* HISTORY_MAX_RESULTS
          MaxPages,   \* MAX_HISTORY_PAGES_PER_CALL
          MaxFaults   \* bound: failures, cancellations and crashes explored

ASSUME SyncAssumption == PageSize \in Nat \ {0} /\ MaxPages \in Nat \ {0} /\ MaxFaults \in Nat

VARIABLES sync,       \* control state and locals of each task's pass
          faults      \* failures so far

(* History variables, read by properties only.                               *)
VARIABLES fetchedAt,  \* mailbox id a thread's full rows were fetched at
          missed,     \* threads whose rows some mailbox change went past
          reached     \* the highest watermark so far

syncVars == <<sync, faults>>
ghostVars == <<fetchedAt, missed, reached>>

(* done: records applied by this pass lie in (start, done]; upto: last       *)
(* record of the page in hand; more: a nextPageToken came with it.           *)
Pass == [pc : {"idle", "start", "profile", "seed", "list", "apply", "invalidate",
               "advance", "reprofile", "reseed"},
         start : Nat, done : Nat, upto : Nat, latest : Nat, pages : Nat,
         more : BOOLEAN, mutated : BOOLEAN]

Resting == [pc |-> "idle", start |-> 0, done |-> 0, upto |-> 0, latest |-> 0,
            pages |-> 0, more |-> FALSE, mutated |-> FALSE]

SyncTypeOK ==
  /\ sync \in [Tasks -> Pass]
  /\ faults \in Nat
  /\ fetchedAt \in [Threads -> Nat]
  /\ missed \in SUBSET Threads
  /\ reached \in Nat

SyncInit ==
  /\ sync = [p \in Tasks |-> Resting]
  /\ faults = 0
  /\ fetchedAt = [t \in Threads |-> 0]
  /\ missed = {}
  /\ reached = 0

Goto(p, pass) == sync' = [sync EXCEPT ![p] = pass]
Finish(p) == Goto(p, Resting)
Reach(id) == reached' = IF id > reached THEN id ELSE reached

-----------------------------------------------------------------------------
(* A pass begins: the background ticker, or maybe_sync of a read.            *)
StartPass(p) == sync[p].pc = "idle" /\ Goto(p, [Resting EXCEPT !.pc = "start"])

(* sync_account reads the watermark and picks first_touch or incremental.    *)
ReadWatermark(p) ==
  /\ sync[p].pc = "start"
  /\ Goto(p, IF watermark = NoId
             THEN [Resting EXCEPT !.pc = "profile"]
             ELSE [Resting EXCEPT !.pc = "list", !.start = watermark,
                                  !.done = watermark, !.latest = watermark])
  /\ UNCHANGED <<mailboxVars, storeVars, faults, ghostVars>>

(* users.getProfile, on first touch and on reseed.                           *)
GetProfile(p) ==
  /\ sync[p].pc \in {"profile", "reprofile"}
  /\ Goto(p, [Resting EXCEPT !.latest = Len(log),
                             !.pc = IF sync[p].pc = "profile" THEN "seed" ELSE "reseed"])
  /\ UNCHANGED <<mailboxVars, storeVars, faults, ghostVars>>

(* first_touch installs the watermark and keeps whatever rows are there.     *)
SeedWatermark(p) ==
  /\ sync[p].pc = "seed"
  /\ SetWatermark(sync[p].latest)
  /\ Reach(sync[p].latest)
  /\ Finish(p)
  /\ missed' = missed \cup {t \in Threads : Cached(t) # {} /\ fetchedAt[t] < sync[p].latest}
  /\ UNCHANGED <<mailboxVars, faults, fetchedAt>>

(* Mutant: nextPageToken is dropped.                                         *)
AfterFirstPage(s) ==
  IF s.mutated THEN [s EXCEPT !.pc = "invalidate"]
  ELSE IF s.latest # s.start THEN [s EXCEPT !.pc = "advance"]
  ELSE Resting

(* Where the loop goes once a page's records are applied: the next page, or  *)
(* out of it, on the last page or on the page cap alike.                     *)
AfterPage(s) ==
  IF s.more /\ s.pages < MaxPages THEN [s EXCEPT !.pc = "list"]
  ELSE IF s.mutated THEN [s EXCEPT !.pc = "invalidate"]
  ELSE IF s.latest # s.start THEN [s EXCEPT !.pc = "advance"]
  ELSE Resting

(* One answer of history.list: up to PageSize records after the last one,    *)
(* with the current mailbox id.                                              *)
Listed(s) ==
  LET upto == IF s.done + PageSize < Len(log) THEN s.done + PageSize ELSE Len(log)
      page == [s EXCEPT !.upto = upto, !.latest = Len(log), !.pages = @ + 1,
                        !.more = (upto < Len(log)), !.mutated = @ \/ upto > s.done]
  IN IF upto > s.done THEN [page EXCEPT !.pc = "apply"] ELSE AfterPage(page)

(* Mutants: a 404 that ends the pass like any other error, and one that is   *)
(* asked again.                                                              *)
ListHistoryOr404Ends(p) ==
  /\ sync[p].pc = "list"
  /\ Goto(p, IF sync[p].start < horizon THEN Resting ELSE Listed(sync[p]))
  /\ UNCHANGED <<mailboxVars, storeVars, faults, ghostVars>>

ListHistoryOr404Retries(p) ==
  /\ sync[p].pc = "list"
  /\ Goto(p, IF sync[p].start < horizon THEN sync[p] ELSE Listed(sync[p]))
  /\ UNCHANGED <<mailboxVars, storeVars, faults, ghostVars>>

(* 404 when the history after start is forgotten: reseed.                    *)
ListHistory(p) ==
  /\ sync[p].pc = "list"
  /\ Goto(p, IF sync[p].start < horizon THEN [sync[p] EXCEPT !.pc = "reprofile"]
             ELSE Listed(sync[p]))
  /\ UNCHANGED <<mailboxVars, storeVars, faults, ghostVars>>

ApplyRecord(p) ==
  /\ sync[p].pc = "apply"
  /\ LET s == [sync[p] EXCEPT !.done = @ + 1]
     IN /\ ApplyHistoryRecord(log[s.done])
        /\ Goto(p, IF s.done < s.upto THEN s ELSE AfterPage(s))
  /\ UNCHANGED <<mailboxVars, faults, ghostVars>>

InvalidateQueries(p) ==
  /\ sync[p].pc = "invalidate"
  /\ InvalidateAllQueries
  /\ Goto(p, IF sync[p].latest # sync[p].start THEN [sync[p] EXCEPT !.pc = "advance"]
             ELSE Resting)
  /\ UNCHANGED <<mailboxVars, faults, ghostVars>>

(* The watermark moves to the mailbox id of the last page, even when the     *)
(* page cap left records between done and latest unread.                     *)
AdvanceWatermark(p) ==
  /\ sync[p].pc = "advance"
  /\ SetWatermark(sync[p].latest)
  /\ Reach(sync[p].latest)
  /\ Finish(p)
  /\ missed' = IF sync[p].more THEN missed \cup {t \in Threads : Cached(t) # {}} ELSE missed
  /\ UNCHANGED <<mailboxVars, faults, fetchedAt>>

Reseed(p) ==
  /\ sync[p].pc = "reseed"
  /\ ReseedAccount(sync[p].latest)
  /\ Reach(sync[p].latest)
  /\ Finish(p)
  /\ missed' = {}
  /\ UNCHANGED <<mailboxVars, faults, fetchedAt>>

(* Any await of a pass can end it: an upstream error other than 404, an SQL  *)
(* error, or the drop of the future that runs it.  Nothing is rolled back:   *)
(* records already applied stay, the watermark does not move.                *)
AbandonPass(p) ==
  /\ sync[p].pc # "idle" /\ faults < MaxFaults
  /\ Finish(p)
  /\ faults' = faults + 1
  /\ UNCHANGED <<mailboxVars, storeVars, ghostVars>>

SyncStep(p) ==
  \/ ReadWatermark(p) \/ GetProfile(p) \/ SeedWatermark(p) \/ ListHistory(p)
  \/ ApplyRecord(p) \/ InvalidateQueries(p) \/ AdvanceWatermark(p) \/ Reseed(p)

(* The furthest mailbox id the cache has been brought to, finished or not.   *)
AppliedPast(k) == watermark > k \/ \E p \in Tasks : sync[p].done > k
=============================================================================
