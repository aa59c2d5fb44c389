------------------------------- MODULE SendEmail -------------------------------
(* send_email (gmail/send_email.rs, tools/destructive.rs): validation, the      *)
(* deduplication window, the prefetch of a reply's headers, messages.send with  *)
(* the retries of the request wrapper, and the record of what was sent. Nothing *)
(* is held between the check and the record, each reads the clock before it has *)
(* the lock, and the record is in memory only. Other calls of the clients spend *)
(* from the same budgets.                                                       *)
EXTENDS Upstream, SequencesExt

CONSTANTS Plans,         \* [ask, wired, flaky, faults]: what each call asks for (a
                         \* message, a read, nothing), the clients with a project
                         \* quota, the calls answered badly, how many faults happen
          Window         \* the deduplication window, in ticks

ASSUME SendAssumption == Window \in Nat

VARIABLES ask,           \* call -> the message it sends, or the service it reads
          mail,          \* call -> [at, asked, told, id, knew, late]
          memo,          \* DestructiveContext: hash -> record of a send
          undone,        \* hashes whose record one of an earlier time dropped or replaced
          delivered      \* what Gmail sent: sequence of senders

vars == <<upstreamVars, ask, mail, memo, undone, delivered>>

Senders == {c \in Calls : ask[c].kind = "send"}

\* at: control state. asked, told: the wall time read for the check and the record;
\* knew: the senders this process had told "sent" by then; late: a record of a
\* later time was made before the check. (knew, late and undone: properties only.)
Idle == [at |-> "idle", asked |-> 0, told |-> 0, id |-> 0, knew |-> {}, late |-> FALSE]

Sent == {d \in Senders : mail[d].at = "sent"}

Addresses(m) == m.to \o m.cc
Valid(m) == Addresses(m) # <<>> /\ "crlf" \notin ToSet(Addresses(m))

(* dedup_hash: lists are sorted, so a list counts as a bag; no thread is "";    *)
(* `from` is not in it.                                                         *)
Hash(m) ==
    [account |-> m.account, to |-> ToBag(m.to), cc |-> ToBag(m.cc),
     text |-> m.text, thread |-> m.thread]

IsWithin(sentAt, now) == now - sentAt \in 0 .. Window - 1

(* Mutant: what is still within the window is dropped as well.                  *)
RecordSendPrunes(hash, id, now) ==
    [h \in {hash} |-> [id |-> id, at |-> now]]

(* record_send: drop what is out of the window - what is of a later time than   *)
(* `now` too, its age being negative - then insert.                             *)
RecordSend(hash, id, now) ==
    [h \in {hash} \cup {k \in DOMAIN memo : IsWithin(memo[k].at, now)} |->
        IF h = hash THEN [id |-> id, at |-> now] ELSE memo[h]]

--------------------------------------------------------------------------------

(* A request is validated; should_send reads the clock and asks for the lock.   *)
Ask(c) ==
    LET m == ask[c]
        to(at) == [mail[c] EXCEPT !.at = at, !.asked = Wall, !.knew = Sent]
    IN
    /\ c \in Senders /\ mail[c].at = "idle"
    /\ \/ ~Valid(m) /\ mail' = [mail EXCEPT ![c] = to("invalid")]
       \/ Valid(m) /\ m.dry /\ mail' = [mail EXCEPT ![c] = to("would_send")]
       \/ Valid(m) /\ ~m.dry /\ mail' = [mail EXCEPT ![c] = to("check")]
    /\ UNCHANGED <<upstreamVars, ask, memo, undone, delivered>>

(* should_send under the read lock. *)
Check(c) ==
    LET hash == Hash(ask[c])
        known == hash \in DOMAIN memo /\ IsWithin(memo[hash].at, mail[c].asked)
        behind == \E d \in Sent : mail[d].told > mail[c].asked
        to(at, id) == [mail[c] EXCEPT !.at = at, !.id = id, !.late = behind]
    IN
    /\ mail[c].at = "check"
    /\ \/ known /\ mail' = [mail EXCEPT ![c] = to("deduped", memo[hash].id)] /\ rq' = rq
       \/ ~known /\ ask[c].thread = "" /\ mail' = [mail EXCEPT ![c] = to("post", 0)]
            /\ rq' = [rq EXCEPT ![c] = Asking("gmail", Cost("messages.send"))]
       \/ ~known /\ ask[c].thread # "" /\ mail' = [mail EXCEPT ![c] = to("prefetch", 0)]
            /\ rq' = [rq EXCEPT ![c] = Asking("gmail", Cost("threads.get"))]
    /\ UNCHANGED <<clock, skew, flaky, wired, bucket, project, granted, spent, booted, faults, ask, memo, undone, delivered>>

(* prefetch_reply_headers has answered: compose and send. *)
Prefetched(c) ==
    /\ mail[c].at = "prefetch" /\ rq[c].at = "ok"
    /\ mail' = [mail EXCEPT ![c].at = "post"]
    /\ rq' = [rq EXCEPT ![c] = Asking("gmail", Cost("messages.send"))]
    /\ UNCHANGED <<clock, skew, flaky, wired, bucket, project, granted, spent, booted, faults, ask, memo, undone, delivered>>

(* messages.send has answered with an id: record_send reads the clock and asks   *)
(* for the lock.                                                                 *)
Posted(c) ==
    /\ mail[c].at = "post" /\ rq[c].at = "ok"
    /\ mail' = [mail EXCEPT ![c].at = "record", ![c].told = Wall]
    /\ UNCHANGED <<upstreamVars, ask, memo, undone, delivered>>

(* record_send under the write lock, then the reply. *)
Record(c) ==
    /\ mail[c].at = "record"
    /\ memo' = RecordSend(Hash(ask[c]), mail[c].id, mail[c].told)
    /\ undone' = undone \cup {h \in DOMAIN memo : memo[h].at > mail[c].told}
    /\ mail' = [mail EXCEPT ![c].at = "sent"]
    /\ UNCHANGED <<upstreamVars, ask, delivered>>

(* Either request ended in an error. *)
SendFails(c) ==
    /\ mail[c].at \in {"prefetch", "post"} /\ rq[c].at \in {"limited", "auth", "error"}
    /\ mail' = [mail EXCEPT ![c].at = "failed"]
    /\ UNCHANGED <<upstreamVars, ask, memo, undone, delivered>>

Pending == {"check", "prefetch", "post", "record"}

(* The caller goes away: the future is dropped at whichever await it is in, and *)
(* a request under way may still reach Gmail.                                   *)
Drop(c) ==
    /\ mail[c].at \in Pending
    /\ faults < MaxFaults /\ faults' = faults + 1
    /\ mail' = [mail EXCEPT ![c].at = "dropped"]
    /\ rq' = [rq EXCEPT ![c] = NoRequest]
    /\ \/ delivered' = delivered
       \/ /\ mail[c].at = "post" /\ rq[c].at = "send"
          /\ delivered' = Append(delivered, c)
    /\ UNCHANGED <<clock, skew, flaky, wired, bucket, project, granted, spent, booted, ask, memo, undone>>

(* An attempt of any call; Gmail sends what it takes, and names it. *)
Attempt(c) ==
    \E answer \in Answers, took \in BOOLEAN :
       /\ Exchange(c, answer, took)
       /\ IF took /\ c \in Senders /\ mail[c].at = "post"
          THEN /\ delivered' = Append(delivered, c)
               /\ mail' = IF answer = "ok" THEN [mail EXCEPT ![c].id = Len(delivered')] ELSE mail
          ELSE UNCHANGED <<delivered, mail>>
       /\ UNCHANGED <<ask, memo, undone>>

(* The other calls: one request each, by the client of a service. Outside Gmail  *)
(* every method costs one unit; each client has buckets of its own.             *)
Read(c, service, cost) ==
    /\ ask[c].kind = "read" /\ ask[c].service = service /\ rq[c].at = "idle"
    /\ rq' = [rq EXCEPT ![c] = Asking(service, cost)]
    /\ UNCHANGED <<clock, skew, flaky, wired, bucket, project, granted, spent, booted, faults, ask, mail, memo, undone, delivered>>

ReadGmail(c) == Read(c, "gmail", Cost("threads.get"))
ReadCalendar(c) == Read(c, "calendar", 1)
ReadContacts(c) == Read(c, "contacts", 1)
ReadDrive(c) == Read(c, "drive", 1)

(* A new process knows nothing of what was sent. *)
Restart ==
    /\ UpstreamRestart
    /\ memo' = <<>>
    /\ mail' = [c \in Calls |-> IF mail[c].at = "idle" THEN mail[c] ELSE [mail[c] EXCEPT !.at = "gone"]]
    /\ UNCHANGED <<ask, undone, delivered>>

--------------------------------------------------------------------------------

Init ==
    /\ \E p \in Plans : ask = p.ask /\ wired = p.wired /\ flaky = p.flaky /\ faults = MaxFaults - p.faults
    /\ UpstreamInit
    /\ mail = [c \in Calls |-> Idle]
    /\ memo = <<>> /\ undone = {}
    /\ delivered = <<>>

Quiet == UNCHANGED <<ask, mail, memo, undone, delivered>>

CallStep(c) ==
    \/ Check(c) \/ Prefetched(c) \/ Posted(c) \/ Record(c) \/ SendFails(c)
    \/ Attempt(c)
    \/ (QuotaCheck(c) \/ Wake(c)) /\ Quiet

Next ==
    \/ \E c \in Calls : CallStep(c) \/ Ask(c) \/ Drop(c)
    \/ \E c \in Calls : ReadGmail(c) \/ ReadCalendar(c) \/ ReadContacts(c) \/ ReadDrive(c)
    \/ (Tick \/ StepBack) /\ Quiet
    \/ Restart

Spec == Init /\ [][Next]_vars

(* The HTTP client has a timeout of 30 s, so an attempt ends; sleeps end.       *)
FairSpec == Spec /\ WF_vars(Tick /\ Quiet) /\ \A c \in Calls : WF_vars(CallStep(c))

--------------------------------------------------------------------------------
(* Properties *)

(* The same message, whatever the order of its recipients. *)
SameMail(m1, m2) ==
    /\ m1.account = m2.account /\ m1.text = m2.text /\ m1.thread = m2.thread
    /\ ToBag(m1.to) = ToBag(m2.to) /\ ToBag(m1.cc) = ToBag(m2.cc)

(* "deduped" names a message that Gmail did send, of the same account, text and  *)
(* recipients.                                                                   *)
DedupedNamesASend ==
    \A c \in Senders :
       mail[c].at = "deduped" =>
          mail[c].id \in DOMAIN delivered /\ SameMail(ask[delivered[mail[c].id]], ask[c])

(* A caller that asks after it, or another, was told "sent" and within the       *)
(* window gets no second copy sent, however many other sends were recorded in    *)
(* between; and one that is told "deduped" is told so of a message that was sent *)
(* (should_send, record_send, dedup_hash). That is, unless the order of the lock *)
(* was not that of the clocks - since it was set back, or since a call waited    *)
(* between reading it and the lock: a record of a later time came before the     *)
(* check, or before another record, which then dropped or replaced it.           *)
SentOnceWithinWindow ==
    /\ \A c, d \in Senders :
          /\ d \in mail[c].knew
          /\ SameMail(ask[c], ask[d])
          /\ IsWithin(mail[d].told, mail[c].asked)
          /\ ~mail[c].late /\ Hash(ask[c]) \notin undone
          => c \notin ToSet(delivered)
    /\ DedupedNamesASend

(* No process grants an account more than its capacity and what elapsed time     *)
(* refills (try_consume, refill), nor, while the clock only goes forward, a      *)
(* project more than its daily units on any UTC day (DailyCounter::try_consume). *)
WithinQuota ==
    /\ \A s \in Services, a \in Accounts :
          granted[s][a] <= Capacity + (RefillPerSec * (clock - booted)) \div TicksPerSec
    /\ skew = 0 => \A d \in DOMAIN spent : spent[d] <= ProjectDaily

(* Waiting the seconds a refusal names is enough when nobody else asks, and one  *)
(* second less is not (the rounding of try_consume).                             *)
HintIsTight ==
    \A s \in {"gmail", "calendar"}, a \in Accounts, cost \in {Cost("threads.get"), Cost("messages.send")} :
       LET b == Refilled(bucket[s][a], clock)
           secs == RetryAfter(b, cost)
           then(n) == Affords(Refilled(b, clock + n * TicksPerSec), cost)
       IN  ~Affords(b, cost) /\ cost <= Capacity => then(secs) /\ (secs = 1 \/ ~then(secs - 1))

(* A send that was asked for ends: with its reply, or because its caller or the  *)
(* process is gone (execute_with_retry counts every attempt).                    *)
SendsEnd ==
    \A c \in Calls : mail[c].at \in Pending ~> mail[c].at \notin Pending

================================================================================
