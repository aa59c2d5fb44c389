------------------------------- MODULE Mailbox -------------------------------
(* The Gmail mailbox of one account, as the server sees it through           *)
(* users.getProfile, users.history.list, threads.get and threads.list.       *)
(* External: the code under src/ only calls it.  The mailbox is its history: *)
(* event i of log is the change that moved the mailbox from historyId i - 1  *)
(* to i, so the current historyId is Len(log) and the contents at any id are *)
(* a function of a prefix of log.                                            *)
EXTENDS Integers, Sequences, FiniteSets

CONSTANTS Messages,   \* message ids
          Threads,    \* thread ids
          Labels,     \* label ids
          ThreadOf,   \* the thread each message belongs to
          MaxEvents   \* bound: number of mailbox changes explored

ASSUME MailboxAssumption ==
  /\ ThreadOf \in [Messages -> Threads]
  /\ MaxEvents \in Nat \ {0}

VARIABLES log,        \* every change so far
          horizon     \* history.list refuses a startHistoryId below this

mailboxVars == <<log, horizon>>

Event == [kind : {"messagesAdded", "messagesDeleted", "labelsAdded", "labelsRemoved"},
          msg : Messages, labels : SUBSET Labels]

Change(k, m, ls) == [kind |-> k, msg |-> m, labels |-> ls]

-----------------------------------------------------------------------------
(* Contents of the mailbox at history id k.                                  *)

Arrived(m, k) == \E i \in 1..k : log[i].msg = m /\ log[i].kind = "messagesAdded"
Expunged(m, k) == \E i \in 1..k : log[i].msg = m /\ log[i].kind = "messagesDeleted"
Exists(m, k) == Arrived(m, k) /\ ~Expunged(m, k)

Gives(e, m, l) == e.msg = m /\ l \in e.labels /\ e.kind \in {"messagesAdded", "labelsAdded"}
Takes(e, m, l) == e.msg = m /\ l \in e.labels /\ e.kind = "labelsRemoved"

Tagged(m, l, k) ==
  /\ Exists(m, k)
  /\ \E i \in 1..k : Gives(log[i], m, l) /\ \A j \in (i + 1)..k : ~Takes(log[j], m, l)

LabelsAt(m, k) == {l \in Labels : Tagged(m, l, k)}
MembersAt(t, k) == {m \in Messages : ThreadOf[m] = t /\ Exists(m, k)}

-----------------------------------------------------------------------------
MailboxTypeOK == log \in Seq(Event) /\ horizon \in Nat

(* The account has already received its first message.                       *)
MailboxInit ==
  /\ \E m \in Messages : log = <<Change("messagesAdded", m, {})>>
  /\ horizon = 0

Record(e) ==
  /\ Len(log) < MaxEvents
  /\ log' = Append(log, e)
  /\ UNCHANGED horizon

Deliver(m, ls) == ~Arrived(m, Len(log)) /\ Record(Change("messagesAdded", m, ls))

Expunge(m) == Exists(m, Len(log)) /\ Record(Change("messagesDeleted", m, {}))

AddLabel(m, l) ==
  /\ Exists(m, Len(log)) /\ ~Tagged(m, l, Len(log))
  /\ Record(Change("labelsAdded", m, {l}))

RemoveLabel(m, l) ==
  Tagged(m, l, Len(log)) /\ Record(Change("labelsRemoved", m, {l}))

(* Gmail forgets history: a startHistoryId older than this answers 404.      *)
ForgetHistory ==
  /\ horizon < Len(log)
  /\ horizon' = Len(log)
  /\ UNCHANGED log

MailboxChange ==
  \E m \in Messages :
    \/ \E ls \in SUBSET Labels : Deliver(m, ls)
    \/ Expunge(m)
    \/ \E l \in Labels : AddLabel(m, l) \/ RemoveLabel(m, l)
=============================================================================
