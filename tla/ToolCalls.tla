------------------------------- MODULE ToolCalls -------------------------------
(* A tool call from request to reply: argument checks, the durable intent row,  *)
(* the tool's body, the outcome row, the reply (server/dispatch.rs), with the   *)
(* batch tools (tools/batch.rs) and the cross-account fan-out (tools/fanout.rs),*)
(* over the audit log. Calls run concurrently; power may fail at any step.      *)
EXTENDS ServiceTools, AuditLog

CONSTANTS Plans,       \* sets of concurrent requests: call -> [tool, args, ids]
          Env,         \* [services, known, cache, verbose]: what was built at startup
          Accounts,    \* the registered aliases
          MaxBatch,    \* MAX_BATCH_SIZE
          Slots,       \* FanoutConfig: max_concurrent_accounts,
          PerAccount,  \*   per_account_timeout
          TotalTime    \*   and total_timeout, in ticks

(* A request names some number of ids; the total timeout is a duration. *)
ASSUME ToolCallsAssumption ==
    /\ \A requests \in Plans : \A c \in Calls : requests[c].ids \in Nat
    /\ TotalTime \in Nat

VARIABLES pc, req, born, item, changed, reply, fan, timer

callVars == <<pc, req, born, item, changed, reply, fan, timer>>
vars == <<auditVars, callVars>>

NoRequest == [tool |-> "none", args |-> <<>>, ids |-> 0]

Arg(c, name) == Given(req[c].args, name)
DryRun(c) == "dry_run" \in ArgsRead(req[c].tool) /\ BoolArg(Arg(c, "dry_run"))

--------------------------------------------------------------------------------
(* Tables of the dispatcher *)

BatchTools == {"batch_archive", "batch_trash", "batch_modify_thread_labels"}

(* The tools whose arm writes an intent row unless it is a dry run. *)
IntentTools ==
    {"cache_invalidate", "purge_account", "archive_thread", "batch_archive", "trash_thread",
     "batch_trash", "modify_thread_labels", "batch_modify_thread_labels"}

(* The tools whose arm writes an outcome row. *)
OutcomeTools == IntentTools \cup {"download_attachment"}

FanoutTools == {"list_labels", "search_threads"}
MembershipTool == "modify_contact_group_membership"
MutatingTools == WriteTools \cup DestructiveTools

(* What a tool body does before any upstream call: "invalid" refuses the input, *)
(* "ok" is done without a call, "todo" goes upstream (or to the disk).          *)
ShouldApply(c) == IF DryRun(c) THEN "ok" ELSE "todo"
Blank(c, name) == Arg(c, name) = "blank"
ValidBatch(c) == ~Blank(c, "account") /\ req[c].ids \in 1 .. MaxBatch
SomeLabels(c) == \E name \in {"add_label_ids", "remove_label_ids"} : StringArrayArg(Arg(c, name))

ArchiveThread(c) ==
    IF Blank(c, "account") \/ Blank(c, "thread_id") THEN "invalid" ELSE ShouldApply(c)
BatchArchive(c) == IF ValidBatch(c) THEN ShouldApply(c) ELSE "invalid"
TrashThread(c) ==
    IF Blank(c, "account") \/ Blank(c, "thread_id") THEN "invalid" ELSE ShouldApply(c)
BatchTrash(c) == IF ValidBatch(c) THEN ShouldApply(c) ELSE "invalid"
ModifyThreadLabels(c) ==
    IF Blank(c, "account") \/ Blank(c, "thread_id") \/ ~SomeLabels(c) THEN "invalid" ELSE ShouldApply(c)
BatchModifyThreadLabels(c) ==
    IF ValidBatch(c) /\ SomeLabels(c) THEN ShouldApply(c) ELSE "invalid"

(* Without a cache there is nothing to drop. *)
CacheInvalidate(c) ==
    IF Blank(c, "account") THEN "invalid" ELSE IF Env.cache THEN "todo" ELSE "ok"

PurgeAccount(c) == IF Arg(c, "confirm") # "text" THEN "invalid" ELSE ShouldApply(c)

Body(c) ==
    LET tool == req[c].tool IN
    CASE tool = "archive_thread" -> ArchiveThread(c)
      [] tool = "batch_archive" -> BatchArchive(c)
      [] tool = "trash_thread" -> TrashThread(c)
      [] tool = "batch_trash" -> BatchTrash(c)
      [] tool = "modify_thread_labels" -> ModifyThreadLabels(c)
      [] tool = "batch_modify_thread_labels" -> BatchModifyThreadLabels(c)
      [] tool = "cache_invalidate" -> CacheInvalidate(c)
      [] tool = "purge_account" -> PurgeAccount(c)
      [] OTHER -> IF ServiceTakes(tool, req[c].args) THEN "todo" ELSE "invalid"

(* What an audit row keeps of the arguments; thread ids are numbered. *)
RedactThreadIds(ids) ==
    IF Env.verbose THEN [thread_ids |-> 1 .. ids]
    ELSE [thread_ids_count |-> ids, named |-> {1, ids} \cap 1 .. ids]

ParamsSummary(c) ==
    CASE req[c].tool \in BatchTools -> RedactThreadIds(req[c].ids)
      [] req[c].tool = "purge_account" -> [dry_run |-> DryRun(c)]
      [] req[c].tool = "cache_invalidate" -> [scope |-> Arg(c, "scope")]
      [] OTHER -> [thread_id |-> 1, dry_run |-> DryRun(c)]

(* Audit rows *)
Row(c, action, result) ==
    [call |-> c, tool |-> req[c].tool, account |-> Arg(c, "account"), params |-> ParamsSummary(c),
     action |-> action, result |-> result, day |-> today]

IntentRow(c) == Row(c, "intent", "pending")
OutcomeRow(c, ok) ==
    Row(c, IF DryRun(c) THEN "dry_run" ELSE "applied", IF ok THEN "ok" ELSE "error")

NoReply == [code |-> "none"]
Refused(code) == [code |-> code]

--------------------------------------------------------------------------------
(* Dispatch *)

(* A request arrives: refused by extraction, or let into its arm. *)
Arrive(c) ==
    /\ pc[c] = "idle"
    /\ req[c] # NoRequest
    /\ IF ~Accepted(req[c].tool, req[c].args, Env)
       THEN /\ pc' = [pc EXCEPT ![c] = "done"]
            /\ reply' = [reply EXCEPT ![c] = Refused("invalid_params")]
       ELSE /\ pc' = [pc EXCEPT ![c] =
                       IF req[c].tool \in FanoutTools /\ Arg(c, "account") = "star" THEN "fanout" ELSE "arm"]
            /\ reply' = reply
    /\ UNCHANGED <<req, born, item, changed, fan, timer, auditVars>>

(* write_destructive_intent, or straight to the body. *)
Start(c) ==
    /\ pc[c] = "arm"
    /\ IF req[c].tool \in IntentTools /\ ~DryRun(c)
       THEN /\ pc' = [pc EXCEPT ![c] = "intent"]
            /\ OpenWrite(c, IntentRow(c), TRUE)
            /\ born' = [born EXCEPT ![c] = today]
       ELSE /\ pc' = [pc EXCEPT ![c] = "body"]
            /\ UNCHANGED <<writer, born>>
    /\ UNCHANGED <<req, item, changed, reply, fan, timer, files, rotate, today, faults>>

(* The write_synced result: an error refuses the operation. *)
IntentWritten(c) ==
    /\ pc[c] = "intent"
    /\ \/ /\ writer[c].at = "written"
          /\ pc' = [pc EXCEPT ![c] = "body"]
          /\ reply' = reply
       \/ /\ writer[c].at = "failed"
          /\ pc' = [pc EXCEPT ![c] = "done"]
          /\ reply' = [reply EXCEPT ![c] = Refused(ToMcpError("Internal"))]
    /\ writer' = [writer EXCEPT ![c] = NoWrite]
    /\ UNCHANGED <<req, born, item, changed, fan, timer, files, rotate, today, faults>>

(* The body begins: every id of a batch becomes a task of its own. *)
Begin(c) ==
    /\ pc[c] = "body"
    /\ item[c] = <<>>
    /\ item' = [item EXCEPT ![c] = [i \in 1 .. req[c].ids |-> Body(c)]]
    /\ UNCHANGED <<pc, req, born, changed, reply, fan, timer, auditVars>>

(* One upstream call: it takes effect or not, and its answer is lost or not. *)
Takes(c, i) ==
    /\ pc[c] = "body" /\ item[c][i] = "todo"
    /\ req[c].tool # MembershipTool
    /\ changed' = IF req[c].tool \in MutatingTools THEN changed \cup {<<c, i>>} ELSE changed
    /\ \E answer \in {"ok", "error"} : item' = [item EXCEPT ![c][i] = answer]
    /\ UNCHANGED <<pc, req, born, reply, fan, timer, auditVars>>

Fails(c, i) ==
    /\ pc[c] = "body" /\ item[c][i] = "todo"
    /\ req[c].tool # MembershipTool
    /\ item' = [item EXCEPT ![c][i] = "error"]
    /\ UNCHANGED <<pc, req, born, changed, reply, fan, timer, auditVars>>

(* The one call for all the members of a group: Google skips some of them. *)
ModifyMembers(c) ==
    /\ pc[c] = "body" /\ req[c].tool = MembershipTool
    /\ \E i \in DOMAIN item[c] : item[c][i] = "todo"
    /\ \E skipped \in SUBSET DOMAIN item[c] :
          /\ changed' = changed \cup {<<c, i>> : i \in DOMAIN item[c] \ skipped}
          /\ \/ item' = [item EXCEPT ![c] = [i \in DOMAIN @ |-> IF i \in skipped THEN "skipped" ELSE "ok"]]
             \/ item' = [item EXCEPT ![c] = [i \in DOMAIN @ |-> "error"]]
    /\ UNCHANGED <<pc, req, born, reply, fan, timer, auditVars>>

(* from_items: what a batch reply counts. *)
Count(c, outcome) == Cardinality({i \in DOMAIN item[c] : item[c][i] = outcome})
(* Mutant: succeeded_count is the number of tasks that were joined.             *)
FromItemsAll(c) == [code |-> "ok", succeeded |-> Len(item[c]), failed |-> Count(c, "error")]

FromItems(c) == [code |-> "ok", succeeded |-> Count(c, "ok"), failed |-> Count(c, "error")]

(* The members the reply of a group change lists are those that were skipped. *)
SkippedMembers(c) == [code |-> "ok", succeeded |-> Count(c, "ok"), failed |-> Count(c, "skipped")]

BodyOk(c) ==
    /\ \A i \in DOMAIN item[c] : item[c][i] # "invalid"
    /\ req[c].tool \in BatchTools \/ \A i \in DOMAIN item[c] : item[c][i] # "error"

Answer(c) ==
    IF BodyOk(c) THEN (IF req[c].tool = MembershipTool THEN SkippedMembers(c) ELSE FromItems(c))
    ELSE Refused(IF \E i \in DOMAIN item[c] : item[c][i] = "invalid"
                 THEN ToMcpError("InvalidArgument") ELSE ToMcpError("Upstream"))

(* All tasks joined: the outcome row, or the reply when the arm writes none. *)
Finish(c) ==
    /\ pc[c] = "body" /\ item[c] # <<>>
    /\ \A i \in DOMAIN item[c] : item[c][i] # "todo"
    /\ IF req[c].tool \in OutcomeTools
       THEN /\ OpenWrite(c, OutcomeRow(c, BodyOk(c)), FALSE)
            /\ pc' = [pc EXCEPT ![c] = "outcome"]
            /\ reply' = reply
       ELSE /\ pc' = [pc EXCEPT ![c] = "done"]
            /\ reply' = [reply EXCEPT ![c] = Answer(c)]
            /\ writer' = writer
    /\ UNCHANGED <<req, born, item, changed, fan, timer, files, rotate, today, faults>>

(* The outcome row is best effort: the reply goes out either way. *)
OutcomeWritten(c) ==
    /\ pc[c] = "outcome"
    /\ writer[c].at \in {"written", "failed"}
    /\ pc' = [pc EXCEPT ![c] = "done"]
    /\ reply' = [reply EXCEPT ![c] = Answer(c)]
    /\ writer' = [writer EXCEPT ![c] = NoWrite]
    /\ UNCHANGED <<req, born, item, changed, fan, timer, files, rotate, today, faults>>

--------------------------------------------------------------------------------
(* Fan-out: one task per account, a semaphore, two timers *)

Running(c) == {a \in Accounts : fan[c][a].at = "running"}
Settled(c) == {a \in Accounts : fan[c][a].at \in {"ok", "error", "timeout", "panic"}}

Settle(c, a, how) ==
    /\ fan' = [fan EXCEPT ![c][a] = [at |-> how, since |-> 0]]
    /\ UNCHANGED <<pc, req, born, item, changed, reply, timer, auditVars>>

FanAcquire(c, a) ==
    /\ pc[c] = "fanout" /\ fan[c][a].at = "queued"
    /\ Cardinality(Running(c)) < Slots
    /\ fan' = [fan EXCEPT ![c][a] = [at |-> "running", since |-> timer[c]]]
    /\ UNCHANGED <<pc, req, born, item, changed, reply, timer, auditVars>>

FanAnswer(c, a) ==
    /\ pc[c] = "fanout" /\ fan[c][a].at = "running"
    /\ \E how \in {"ok", "error", "panic"} : Settle(c, a, how)

FanTimeout(c, a) ==
    /\ pc[c] = "fanout" /\ fan[c][a].at = "running"
    /\ timer[c] - fan[c][a].since >= PerAccount
    /\ Settle(c, a, "timeout")

(* Mutant: an account that ran out of time gets no entry.                       *)
EnvelopeOfAnswers(c) ==
    [code |-> "ok",
     entries |-> {a \in Settled(c) : fan[c][a].at \in {"ok", "error"}},
     total |-> Cardinality(Settled(c)),
     succeeded |-> Cardinality({a \in Accounts : fan[c][a].at = "ok"})]

(* The envelope: an entry per joined task; a panicked one has lost its alias. *)
Envelope(c) ==
    [code |-> "ok",
     entries |-> {a \in Settled(c) : fan[c][a].at # "panic"},
     total |-> Cardinality(Settled(c)),
     succeeded |-> Cardinality({a \in Accounts : fan[c][a].at = "ok"})]

(* Mutant: no total timeout.                                                    *)
FanReplyWhenJoined(c) ==
    /\ pc[c] = "fanout"
    /\ Settled(c) = Accounts
    /\ pc' = [pc EXCEPT ![c] = "done"]
    /\ reply' = [reply EXCEPT ![c] = Envelope(c)]
    /\ UNCHANGED <<req, born, item, changed, fan, timer, auditVars>>

(* Every task joined, or the total timeout cut the collection short. *)
FanReply(c) ==
    /\ pc[c] = "fanout"
    /\ Settled(c) = Accounts \/ timer[c] >= TotalTime
    /\ pc' = [pc EXCEPT ![c] = "done"]
    /\ reply' = [reply EXCEPT ![c] = Envelope(c)]
    /\ UNCHANGED <<req, born, item, changed, fan, timer, auditVars>>

FanTick(c) ==
    /\ pc[c] = "fanout" /\ timer[c] < TotalTime
    /\ timer' = [timer EXCEPT ![c] = @ + 1]
    /\ UNCHANGED <<pc, req, born, item, changed, reply, fan, auditVars>>

--------------------------------------------------------------------------------

PowerLoss ==
    /\ LosesPower
    /\ pc' = [c \in Calls |-> IF pc[c] \in {"idle", "done"} THEN pc[c] ELSE "lost"]
    /\ UNCHANGED <<req, born, item, changed, reply, fan, timer>>

Quiet == UNCHANGED callVars

Init ==
    /\ AuditInit
    /\ pc = [c \in Calls |-> "idle"]
    /\ req \in Plans
    /\ born = [c \in Calls |-> 0]
    /\ item = [c \in Calls |-> <<>>]
    /\ changed = {}
    /\ reply = [c \in Calls |-> NoReply]
    /\ fan = [c \in Calls |-> [a \in Accounts |-> [at |-> "queued", since |-> 0]]]
    /\ timer = [c \in Calls |-> 0]

CallStep(c) ==
    \/ Arrive(c) \/ Start(c) \/ IntentWritten(c) \/ Begin(c) \/ Finish(c) \/ OutcomeWritten(c)
    \/ \E i \in DOMAIN item[c] : Takes(c, i) \/ Fails(c, i)
    \/ ModifyMembers(c)

FanStep(c) ==
    \/ \E a \in Accounts : FanAcquire(c, a) \/ FanAnswer(c, a) \/ FanTimeout(c, a)
    \/ FanReply(c) \/ FanTick(c)

Next ==
    \/ \E c \in Calls : CallStep(c) \/ FanStep(c) \/ (WriteStep(c) /\ Quiet)
    \/ SweepOnce /\ Quiet
    \/ NextDay /\ Quiet
    \/ PowerLoss

Spec == Init /\ [][Next]_vars

(* Timers fire and a collection that is over is noticed; no upstream answer and *)
(* no per-account timer is promised.                                            *)
FairSpec == Spec /\ \A c \in Calls : WF_vars(FanTick(c)) /\ WF_vars(FanReply(c))

--------------------------------------------------------------------------------
(* Properties *)

OnDisk(row) ==
    \E f \in DOMAIN files : \E i \in 1 .. files[f].safe : files[f].text[i] = row

(* A change made by an audited tool has its intent row on durable storage, after *)
(* rotation, failed writes of other calls and power loss, until the retention    *)
(* period of the row is over (ADR-0011: fsync'd before the tool's API call).     *)
IntentOutlivesChange ==
    \A x \in changed :
       LET c == x[1] IN
       req[c].tool \in IntentTools =>
          \/ OnDisk([IntentRow(c) EXCEPT !.day = born[c]])
          \/ (DeleteAfter > 0 /\ today >= born[c] + DeleteAfter)

(* Only a request for one account, not a dry run, of a mutating tool changes     *)
(* anything; for cache_invalidate, whose arm accepts "*", only the audit log's   *)
(* alias check stands in the way.                                                *)
OnlyAskedFor ==
    \A x \in changed :
       LET c == x[1] IN
       /\ req[c].tool \in MutatingTools
       /\ ~DryRun(c)
       /\ Arg(c, "account") = "text"

(* A reply of a mutating tool claims no change that did not happen, and a batch  *)
(* reply accounts for every id it was given (run_thread_batch, from_items).      *)
ReplyTruth ==
    \A c \in Calls :
       pc[c] = "done" /\ req[c].tool \in MutatingTools /\ reply[c].code = "ok" =>
          /\ reply[c].succeeded + reply[c].failed = req[c].ids
          /\ Body(c) = "ok" \/ reply[c].succeeded <= Cardinality({i \in DOMAIN item[c] : <<c, i>> \in changed})

(* A fan-out reply that came before the total timeout has an entry for every     *)
(* account whose task did not panic, and its summary counts them all.            *)
FanoutComplete ==
    \A c \in Calls :
       pc[c] = "done" /\ "entries" \in DOMAIN reply[c] /\ timer[c] < TotalTime =>
          /\ reply[c].total = Cardinality(Accounts)
          /\ \A a \in Accounts : a \in reply[c].entries \/ fan[c][a].at = "panic"

(* No sweep removes a durable row before it is DeleteAfter days old.             *)
SweepSparesYoungRows ==
    [][\A f \in DOMAIN files : \A i \in 1 .. files[f].safe :
          files[f].text[i] \in {Newline, Torn}
          \/ today - files[f].text[i].day >= DeleteAfter
          \/ (f \in DOMAIN files' /\ i <= files'[f].safe /\ files'[f].text[i] = files[f].text[i])]_vars

(* A fan-out call ends although no account ever answers (the total timeout).     *)
FanoutEnds ==
    \A c \in Calls : pc[c] = "fanout" ~> pc[c] \in {"done", "lost"}

================================================================================
