------------------------------- MODULE AuditLog -------------------------------
(* The audit log (audit.rs) and its retention sweep (audit_retention.rs).       *)
(*                                                                              *)
(* A file is the sequence of what was written to it: rows, newlines and the     *)
(* fragment a failed write leaves. Its first `safe` tokens are on durable       *)
(* storage; the rest is in the page cache. An append is two system calls, the   *)
(* row and then its newline, so appends of two calls may interleave.            *)
EXTENDS Naturals, Sequences, FiniteSets, TLC

CONSTANTS Calls,        \* tool calls; each writes at most an intent and an outcome row
          RotateModes,  \* the values of [audit] rotate; a behaviour keeps one
          DeleteAfter,  \* [audit] delete_after_days; 0 never deletes
          MaxDay,       \* last day of a behaviour
          MaxFaults     \* failed writes and power losses together

ASSUME AuditAssumption ==
    /\ RotateModes \subseteq [kind : {"daily", "weekly"}, limit : {0}]
                             \cup [kind : {"size"}, limit : Nat \ {0}]
    /\ DeleteAfter \in Nat /\ MaxDay \in Nat /\ MaxFaults \in Nat

VARIABLES files,     \* file name -> [text, safe]
          rotate,    \* the rotation mode of the running daemon
          today,     \* the date, in days
          writer,    \* the write a call is in the middle of
          faults     \* failed writes and power losses so far

auditVars == <<files, rotate, today, writer, faults>>

Newline == [mark |-> "newline"]
Torn == [mark |-> "torn"]
NoWrite == [at |-> "none"]

--------------------------------------------------------------------------------
(* Rotation. A period is `PeriodDays` long; months behave as weeks do. *)

PeriodDays(kind) == IF kind = "daily" THEN 1 ELSE 2

(* AuditWriter::filename_at, also audit_retention's current_filename. *)
FilenameAt(now) == <<rotate.kind, now \div PeriodDays(rotate.kind)>>

SizeSeqs == {f[2] : f \in {g \in DOMAIN files : g[1] = "size"}}

(* AuditWriter::size_path: the highest number, or the next one once it is full. *)
SizePath ==
    IF SizeSeqs = {} THEN <<"size", 1>>
    ELSE LET n == CHOOSE k \in SizeSeqs : \A j \in SizeSeqs : j <= k IN
         IF Len(files[<<"size", n>>].text) < rotate.limit THEN <<"size", n>> ELSE <<"size", n + 1>>

(* Mutant: the file opened first is kept open.                                  *)
TargetCached(now) ==
    IF rotate.kind = "size" THEN SizePath ELSE <<rotate.kind, 0>>

Target(now) == IF rotate.kind = "size" THEN SizePath ELSE FilenameAt(now)

(* The last day of a file's period; a size-rotated file has none. *)
HasPeriod(f) == f[1] # "size"
PeriodEnd(f) == (f[2] + 1) * PeriodDays(f[1]) - 1

--------------------------------------------------------------------------------
(* Writing *)

(* Mutant: only the empty alias is refused.                                     *)
AliasNotEmpty(account) == account # "blank"

SafeAlias(account) == account \notin {"blank", "star", "odd"}

(* Entry of try_write: an unsafe alias is refused, else the file is chosen. *)
OpenWrite(c, row, sync) ==
    writer' = [writer EXCEPT ![c] =
        IF ~SafeAlias(row.account) THEN [at |-> "failed"]
        ELSE [at |-> "text", file |-> Target(today), row |-> row, sync |-> sync]]

(* The file is created by the first write to it. *)
Opened(f) == IF f \in DOMAIN files THEN files[f] ELSE [text |-> <<>>, safe |-> 0]

Appended(f, token) ==
    [g \in DOMAIN files \cup {f} |->
        IF g = f THEN [Opened(f) EXCEPT !.text = Append(@, token)] ELSE files[g]]

WriteText(c) ==
    /\ writer[c].at = "text"
    /\ files' = Appended(writer[c].file, writer[c].row)
    /\ writer' = [writer EXCEPT ![c].at = "newline"]
    /\ UNCHANGED <<rotate, today, faults>>

(* Mutant: an intent row is not synced.                                         *)
WriteNewlineUnsynced(c) ==
    /\ writer[c].at = "newline"
    /\ files' = IF writer[c].file \in DOMAIN files THEN Appended(writer[c].file, Newline) ELSE files
    /\ writer' = [writer EXCEPT ![c] = [at |-> "written"]]
    /\ UNCHANGED <<rotate, today, faults>>

WriteNewline(c) ==
    /\ writer[c].at = "newline"
    /\ files' = IF writer[c].file \in DOMAIN files THEN Appended(writer[c].file, Newline) ELSE files
    /\ writer' = [writer EXCEPT ![c] = IF @.sync THEN [@ EXCEPT !.at = "sync"] ELSE [at |-> "written"]]
    /\ UNCHANGED <<rotate, today, faults>>

(* sync_data makes all of the file durable, other calls' rows included. *)
SyncData(c) ==
    /\ writer[c].at = "sync"
    /\ files' = IF writer[c].file \in DOMAIN files
                THEN [files EXCEPT ![writer[c].file].safe = Len(files[writer[c].file].text)]
                ELSE files
    /\ writer' = [writer EXCEPT ![c] = [at |-> "written"]]
    /\ UNCHANGED <<rotate, today, faults>>

(* Any of the system calls fails; a failed write may leave part of the row. *)
WriteFails(c) ==
    /\ writer[c].at \in {"text", "newline", "sync"}
    /\ faults < MaxFaults
    /\ faults' = faults + 1
    /\ \/ files' = files
       \/ writer[c].at = "text" /\ files' = Appended(writer[c].file, Torn)
    /\ writer' = [writer EXCEPT ![c] = [at |-> "failed"]]
    /\ UNCHANGED <<rotate, today>>

WriteStep(c) == WriteText(c) \/ WriteNewline(c) \/ SyncData(c) \/ WriteFails(c)

--------------------------------------------------------------------------------
(* Retention *)

Expired(f) ==
    /\ DeleteAfter > 0
    /\ HasPeriod(f)
    /\ rotate.kind # "size" => f # FilenameAt(today)
    /\ PeriodEnd(f) <= today
    /\ today - PeriodEnd(f) >= DeleteAfter

(* One sweep; a file that cannot be removed is skipped. *)
SweepOnce ==
    /\ \E gone \in SUBSET {f \in DOMAIN files : Expired(f)} :
          /\ gone # {}
          /\ files' = [f \in DOMAIN files \ gone |-> files[f]]
    /\ UNCHANGED <<rotate, today, writer, faults>>

NextDay ==
    /\ today < MaxDay
    /\ today' = today + 1
    /\ UNCHANGED <<files, rotate, writer, faults>>

(* The machine stops: each file keeps a prefix that holds what was synced. A    *)
(* file's name is assumed durable with its first synced data, as common file    *)
(* systems have it: the code syncs the file only, and POSIX would have it sync  *)
(* the directory too.                                                           *)
LosesPower ==
    /\ faults < MaxFaults
    /\ faults' = faults + 1
    /\ \E kept \in [DOMAIN files -> UNION {0 .. Len(files[f].text) : f \in DOMAIN files}] :
          /\ \A f \in DOMAIN files : kept[f] \in files[f].safe .. Len(files[f].text)
          /\ files' = [f \in DOMAIN files |->
                         [text |-> SubSeq(files[f].text, 1, kept[f]), safe |-> kept[f]]]
    /\ writer' = [c \in Calls |-> NoWrite]
    /\ UNCHANGED <<rotate, today>>

AuditInit ==
    /\ files = <<>>
    /\ rotate \in RotateModes
    /\ today = 0
    /\ writer = [c \in Calls |-> NoWrite]
    /\ faults = 0
================================================================================
