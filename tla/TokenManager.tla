----------------------------- MODULE TokenManager -----------------------------
(* TokenManager (src/src/auth/tokens/) for one account, and the request      *)
(* wrapper that drives it (GmailClient::send_with_401_fallback).  Tool calls *)
(* read the token under the read lock, refresh it under the write lock, and  *)
(* write the token file with tokio::fs, whose operations run in a blocking   *)
(* pool: a call whose future is dropped leaves the operation it had already  *)
(* handed over to run on its own.                                            *)
EXTENDS Integers, FiniteSets

CONSTANTS Calls,      \* concurrent tool calls on the account
          Nobody,     \* write lock not held
          Buffer,     \* EXPIRY_BUFFER_SECS
          Lifetimes,  \* values of expires_in Google may answer
          CoolMax,    \* COOLDOWN_MAX_SECS
          Cancels,    \* futures of calls may be dropped
          MaxTime,    \* bound: clock
          MaxGrants,  \* bound: access tokens Google issues
          MaxFaults   \* bound: failures, cancellations, revocations, restarts

ASSUME TokenAssumption ==
  /\ Nobody \notin Calls
  /\ Buffer \in Nat /\ Lifetimes \subseteq Nat /\ CoolMax \in Nat \ {0}
  /\ Cancels \in BOOLEAN
  /\ MaxTime \in Nat /\ MaxGrants \in Nat \ {0} /\ MaxFaults \in Nat

VARIABLES now,
          google,   \* the refresh token it accepts, access tokens issued, and which work
          mem,      \* TokenState; loaded is FALSE when the account has none
          lock,     \* holder of the write half of the RwLock
          call,     \* control state and locals of each call
          tmp,      \* .<account>.json.tmp
          disk,     \* <account>.json
          orphans,  \* file operations left behind by dropped futures
          faults,
          asked     \* history: requests to Google since the token was last about to expire

stateVars == <<now, google, mem, lock, call, tmp, disk, orphans, faults>>
vars == <<stateVars, asked>>
fileVars == <<tmp, disk, orphans>>

(* Tokens are numbered in the order Google issued them.                      *)
Token == [at : Nat, rt : Nat, expires : Nat]
File == [exists : BOOLEAN, whole : BOOLEAN, token : Token]
State == [loaded : BOOLEAN, token : Token, until : Nat, failures : Nat]

Start == [at |-> 1, rt |-> 1, expires |-> Buffer + 1]
NoToken == [at |-> 0, rt |-> 0, expires |-> 0]
Absent == [exists |-> FALSE, whole |-> FALSE, token |-> NoToken]
Whole(t) == [exists |-> TRUE, whole |-> TRUE, token |-> t]
Torn == [exists |-> TRUE, whole |-> FALSE, token |-> NoToken]

(* to: the path under which the file being filled is found by now.           *)
Paths == {"tmp", "disk", "gone"}
Persisting == {"open", "fill", "chmod", "rename", "install"}
Refreshing == {"post", "reply"} \cup Persisting

Call == [pc : {"idle", "fast", "lock", "send", "resend"} \cup Refreshing,
         force : BOOLEAN, token : Nat, refused : Nat,
         reply : {"none", "granted", "invalid_grant", "failed"},
         next : Token, to : Paths]

Idle == [pc |-> "idle", force |-> FALSE, token |-> 0, refused |-> 0, reply |-> "none",
         next |-> NoToken, to |-> "tmp"]

Orphan == [op : {"open", "fill", "rename"}, token : Token, to : Paths]

TypeOK ==
  /\ now \in Nat /\ faults \in Nat /\ asked \in Nat
  /\ google \in [rt : Nat, issued : Nat, good : SUBSET Nat]
  /\ mem \in State /\ lock \in Calls \cup {Nobody}
  /\ call \in [Calls -> Call]
  /\ tmp \in File /\ disk \in File /\ orphans \subseteq Orphan

Loaded(t) == [loaded |-> TRUE, token |-> t, until |-> 0, failures |-> 0]
NotLoaded == [Loaded(NoToken) EXCEPT !.loaded = FALSE]

Init ==
  /\ now = 0 /\ faults = 0 /\ asked = 0
  /\ google = [rt |-> 1, issued |-> 1, good |-> {1}]
  /\ mem = Loaded(Start) /\ lock = Nobody
  /\ call = [c \in Calls |-> Idle]
  /\ tmp = Absent /\ disk = Whole(Start) /\ orphans = {}

Become(c, r) == call' = [call EXCEPT ![c] = r]
Goto(c, pc) == Become(c, [call[c] EXCEPT !.pc = pc])
Fault == faults < MaxFaults /\ faults' = faults + 1

-----------------------------------------------------------------------------
(* refresh.rs.                                                               *)

IsNearExpiry == now + Buffer >= mem.token.expires

CooldownSecs(failures) ==
  LET doubled[k \in 0 .. failures - 1] == IF k = 0 THEN 1 ELSE 2 * doubled[k - 1]
  IN IF doubled[failures - 1] < CoolMax THEN doubled[failures - 1] ELSE CoolMax

-----------------------------------------------------------------------------
(* access_token and refresh_locked, up to the request.                       *)

Begin(c) ==
  /\ call[c].pc = "idle"
  /\ Become(c, [Idle EXCEPT !.pc = "fast"])
  /\ UNCHANGED <<now, google, mem, lock, fileVars, faults>>

UseToken(c) ==
  Become(c, [call[c] EXCEPT !.pc = IF call[c].force THEN "resend" ELSE "send",
                            !.token = mem.token.at])

(* An account without a token is not in the registry at all.                 *)
FastPath(c) ==
  /\ call[c].pc = "fast" /\ (lock = Nobody \/ ~mem.loaded)
  /\ IF ~mem.loaded THEN Become(c, Idle)
     ELSE IF IsNearExpiry THEN Goto(c, "lock")
     ELSE UseToken(c)
  /\ UNCHANGED <<now, google, mem, lock, fileVars, faults>>

(* Mutants: no double-check, a double-check for forced refreshes as well,    *)
(* and a lock let go before the request.                                     *)
AcquireWithoutCheck(c) ==
  /\ call[c].pc = "lock" /\ lock = Nobody
  /\ IF now < mem.until THEN Become(c, Idle) /\ UNCHANGED lock ELSE Goto(c, "post") /\ lock' = c
  /\ UNCHANGED <<now, google, mem, fileVars, faults>>

AcquireCheckingAlways(c) ==
  /\ call[c].pc = "lock" /\ lock = Nobody
  /\ IF ~IsNearExpiry THEN UseToken(c) /\ UNCHANGED lock
     ELSE IF now < mem.until THEN Become(c, Idle) /\ UNCHANGED lock
     ELSE Goto(c, "post") /\ lock' = c
  /\ UNCHANGED <<now, google, mem, fileVars, faults>>

AcquireAndRelease(c) ==
  /\ call[c].pc = "lock" /\ lock = Nobody
  /\ IF ~call[c].force /\ ~IsNearExpiry THEN UseToken(c)
     ELSE IF now < mem.until THEN Become(c, Idle)
     ELSE Goto(c, "post")
  /\ UNCHANGED <<now, google, mem, lock, fileVars, faults>>

(* The write lock is granted: double-check, cooldown, and only then the      *)
(* request, with no await in between.                                        *)
AcquireLock(c) ==
  /\ call[c].pc = "lock" /\ lock = Nobody
  /\ IF ~call[c].force /\ ~IsNearExpiry THEN UseToken(c) /\ UNCHANGED lock
     ELSE IF now < mem.until THEN Become(c, Idle) /\ UNCHANGED lock
     ELSE Goto(c, "post") /\ lock' = c
  /\ UNCHANGED <<now, google, mem, fileVars, faults>>

-----------------------------------------------------------------------------
(* Google's token endpoint (external): grants, with or without a new refresh *)
(* token replacing the old one, or refuses a refresh token it replaced; the  *)
(* request or the answer may be lost, or fail with a 5xx.                    *)
Grant(c, rt, life) ==
  LET at == google.issued + 1
  IN /\ google.issued < MaxGrants
     /\ google' = [rt |-> rt, issued |-> at, good |-> google.good \cup {at}]
     /\ Become(c, [call[c] EXCEPT !.pc = "reply", !.reply = "granted",
                                  !.next = [at |-> at, rt |-> rt, expires |-> life]])

TokenEndpoint(c) ==
  /\ call[c].pc = "post"
  /\ \/ /\ mem.token.rt = google.rt /\ UNCHANGED faults
        /\ \E rt \in {google.rt, google.rt + 1}, life \in Lifetimes : Grant(c, rt, life)
     \/ /\ mem.token.rt # google.rt /\ UNCHANGED <<faults, google>>
        /\ Become(c, [call[c] EXCEPT !.pc = "reply", !.reply = "invalid_grant"])
     \/ /\ Fault \/ (google.issued = MaxGrants /\ UNCHANGED faults)
        /\ UNCHANGED google
        /\ Become(c, [call[c] EXCEPT !.pc = "reply", !.reply = "failed"])
  /\ UNCHANGED <<now, mem, lock, fileVars>>

LoseReply(c) ==
  /\ call[c].pc = "reply" /\ call[c].reply = "granted"
  /\ Fault
  /\ Become(c, [call[c] EXCEPT !.reply = "failed"])
  /\ UNCHANGED <<now, google, mem, lock, fileVars>>

-----------------------------------------------------------------------------
(* The rest of refresh_locked.                                               *)

(* Mutant: an error leaves the lock held.                                    *)
FailHoldingLock(c) == Become(c, Idle) /\ UNCHANGED lock

Fail(c) == Become(c, Idle) /\ lock' = Nobody

(* Mutant: the state is installed before it is on disk.                      *)
HandleReplyInstalling(c) ==
  /\ call[c].pc = "reply"
  /\ IF call[c].reply # "granted" THEN UNCHANGED mem /\ Fail(c)
     ELSE /\ mem' = Loaded([call[c].next EXCEPT !.expires = now + @])
          /\ Become(c, [call[c] EXCEPT !.pc = "open", !.next.expires = now + @])
          /\ UNCHANGED lock
  /\ UNCHANGED <<now, google, fileVars, faults>>

(* apply_refresh_response: a grant goes on to persist_atomic, anything else  *)
(* ends the call.  expires_in counts from the moment the answer is read.     *)
HandleReply(c) ==
  /\ call[c].pc = "reply"
  /\ CASE call[c].reply = "granted" ->
            /\ Become(c, [call[c] EXCEPT !.pc = "open", !.next.expires = now + @])
            /\ UNCHANGED <<mem, lock>>
       [] call[c].reply = "invalid_grant" ->
            mem' = [mem EXCEPT !.failures = 0, !.until = 0] /\ Fail(c)
       [] call[c].reply = "failed" ->
            /\ mem' = [mem EXCEPT !.failures = @ + 1,
                                  !.until = now + CooldownSecs(mem.failures + 1)]
            /\ Fail(c)
  /\ UNCHANGED <<now, google, fileVars, faults>>

(* persist_atomic: write (truncate, then fill), set the mode, rename.  Any   *)
(* of them may fail, which ends the call before the new state is installed.  *)
Truncated == tmp' = Torn /\ UNCHANGED disk

(* A file somebody else filled since it was opened may end up a mixture.     *)
Over(f, t) == {Whole(t)} \cup (IF f.whole THEN {Torn} ELSE {})
Filled(to, t) ==
  /\ IF to = "tmp" THEN tmp' \in Over(tmp, t) ELSE UNCHANGED tmp
  /\ IF to = "disk" THEN disk' \in Over(disk, t) ELSE UNCHANGED disk

(* A rename takes the file along with whoever is still filling it.           *)
Renamed == disk' = tmp /\ tmp' = Absent
Moved(to) == IF to = "tmp" THEN "disk" ELSE "gone"
Carried(os) == {IF o.op = "fill" THEN [o EXCEPT !.to = Moved(@)] ELSE o : o \in os}

OpenFile(c) ==
  /\ call[c].pc = "open"
  /\ Truncated
  /\ Become(c, [call[c] EXCEPT !.pc = "fill", !.to = "tmp"])
  /\ UNCHANGED <<now, google, mem, lock, orphans, faults>>

FillFile(c) ==
  /\ call[c].pc = "fill"
  /\ Filled(call[c].to, call[c].next)
  /\ Goto(c, "chmod")
  /\ UNCHANGED <<now, google, mem, lock, orphans, faults>>

SetMode(c) ==
  /\ call[c].pc = "chmod"
  /\ IF tmp.exists THEN Goto(c, "rename") /\ UNCHANGED lock ELSE Fail(c)
  /\ UNCHANGED <<now, google, mem, fileVars, faults>>

RenameFile(c) ==
  /\ call[c].pc = "rename"
  /\ IF tmp.exists
     THEN Renamed /\ orphans' = Carried(orphans) /\ Goto(c, "install") /\ UNCHANGED lock
     ELSE Fail(c) /\ UNCHANGED fileVars
  /\ UNCHANGED <<now, google, mem, faults>>

IoError(c) ==
  /\ call[c].pc \in {"open", "fill", "chmod", "rename"}
  /\ Fault /\ Fail(c)
  /\ UNCHANGED <<now, google, mem, fileVars>>

(* Mutant: a rotated refresh token is not picked up.                         *)
InstallKeepingRefreshToken(c) ==
  /\ call[c].pc = "install"
  /\ mem' = Loaded([call[c].next EXCEPT !.rt = mem.token.rt]) /\ lock' = Nobody
  /\ Become(c, [call[c] EXCEPT !.pc = IF call[c].force THEN "resend" ELSE "send",
                               !.token = call[c].next.at])
  /\ UNCHANGED <<now, google, fileVars, faults>>

(* The new state replaces the old once the file is in place.                 *)
Install(c) ==
  /\ call[c].pc = "install"
  /\ mem' = Loaded(call[c].next) /\ lock' = Nobody
  /\ Become(c, [call[c] EXCEPT !.pc = IF call[c].force THEN "resend" ELSE "send",
                               !.token = call[c].next.at])
  /\ UNCHANGED <<now, google, fileVars, faults>>

-----------------------------------------------------------------------------
(* GmailClient::send_with_401_fallback.                                      *)

Send(c) ==
  /\ call[c].pc = "send"
  /\ Become(c, IF call[c].token \in google.good THEN Idle
               ELSE [call[c] EXCEPT !.pc = "lock", !.force = TRUE, !.refused = call[c].token])
  /\ UNCHANGED <<now, google, mem, lock, fileVars, faults>>

(* The answer to the second attempt is final, 401 included.                  *)
Resend(c) ==
  /\ call[c].pc = "resend"
  /\ Become(c, Idle)
  /\ UNCHANGED <<now, google, mem, lock, fileVars, faults>>

-----------------------------------------------------------------------------
(* What else happens.                                                        *)

(* A fan-out timeout or a gone client drops the future at any await.  A file *)
(* operation it had handed over still runs; one it had not yet does not.     *)
Cancel(c) ==
  /\ Cancels /\ call[c].pc # "idle"
  /\ Fault
  /\ Become(c, Idle)
  /\ lock' = IF lock = c THEN Nobody ELSE lock
  /\ LET left == {[op |-> o, token |-> call[c].next, to |-> call[c].to] :
                    o \in {call[c].pc} \cap {"open", "fill", "rename"}}
     IN orphans' = orphans \cup left \/ (call[c].pc # "fill" /\ UNCHANGED orphans)
  /\ UNCHANGED <<now, google, mem, tmp, disk>>

RunOrphan(o) ==
  \/ /\ o.op = "open"
     /\ Truncated /\ UNCHANGED call
     /\ orphans' = (orphans \ {o}) \cup {[o EXCEPT !.op = "fill", !.to = "tmp"]}
  \/ /\ o.op = "fill"
     /\ Filled(o.to, o.token) /\ UNCHANGED call
     /\ orphans' = orphans \ {o}
  \/ /\ o.op = "rename" /\ tmp.exists
     /\ Renamed /\ orphans' = Carried(orphans \ {o})
     /\ call' = [c \in Calls |-> IF call[c].pc = "fill" THEN [call[c] EXCEPT !.to = Moved(@)]
                                 ELSE call[c]]
  \/ /\ o.op = "rename" /\ ~tmp.exists
     /\ orphans' = orphans \ {o} /\ UNCHANGED <<tmp, disk, call>>

BackgroundIo ==
  /\ \E o \in orphans : RunOrphan(o)
  /\ UNCHANGED <<now, google, mem, lock, faults>>

(* The process dies and starts again: load_token_states reads the file.  A   *)
(* file that does not parse leaves the account out of the registry.          *)
Restart ==
  /\ Fault
  /\ call' = [c \in Calls |-> Idle] /\ lock' = Nobody /\ orphans' = {}
  /\ mem' = IF disk.whole THEN Loaded(disk.token) ELSE NotLoaded
  /\ UNCHANGED <<now, google, tmp, disk>>

(* Google stops accepting an access token.                                   *)
Revoke ==
  /\ Fault
  /\ \E at \in google.good : google' = [google EXCEPT !.good = @ \ {at}]
  /\ UNCHANGED <<now, mem, lock, call, fileVars>>

Tick ==
  /\ now < MaxTime /\ now' = now + 1
  /\ UNCHANGED <<google, mem, lock, call, fileVars, faults>>

Refresh(c) ==
  \/ TokenEndpoint(c) \/ LoseReply(c) \/ HandleReply(c)
  \/ OpenFile(c) \/ FillFile(c) \/ SetMode(c) \/ RenameFile(c) \/ IoError(c) \/ Install(c)

Step(c) == FastPath(c) \/ AcquireLock(c) \/ Refresh(c) \/ Send(c) \/ Resend(c)

Moves ==
  \/ \E c \in Calls : Begin(c) \/ Step(c) \/ Cancel(c)
  \/ BackgroundIo \/ Restart \/ Revoke \/ Tick

(* asked counts what a step shows of the calls that refresh a token about to *)
(* expire: one asks Google, or comes to nothing.  It starts anew when the    *)
(* token in memory comes close to its expiry or is replaced by one that is.  *)
Lapses == IsNearExpiry' /\ (~IsNearExpiry \/ mem'.token.at # mem.token.at)
Renewing(c) == call[c].pc \in Refreshing /\ ~call[c].force
Asks == \E c \in Calls : call[c].pc = "lock" /\ Renewing(c)'
GivesUp == \E c \in Calls : Renewing(c) /\ call'[c].pc = "idle"

Counted ==
  asked' = CASE Lapses -> 0
             [] ~Lapses /\ Asks -> asked + 1
             [] ~Lapses /\ ~Asks /\ GivesUp -> asked - 1
             [] OTHER -> asked

Next == Moves /\ Counted

Spec == Init /\ [][Next]_vars

(* Requests time out and file operations return; the RwLock is fair, so a    *)
(* call that waits for it gets it.  Nothing makes the clock move or a call   *)
(* begin.                                                                    *)
Fairness ==
  \A c \in Calls :
    WF_stateVars(Step(c)) /\ SF_stateVars(FastPath(c)) /\ SF_stateVars(AcquireLock(c))

FairSpec == Spec /\ Fairness

-----------------------------------------------------------------------------
(* Properties.                                                               *)

(* One refresh at a time.                                                    *)
OneRefresher == \A c \in Calls : call[c].pc \in Refreshing => lock = c

(* A crash at any moment loses nothing the process has used: the file is     *)
(* whole and at least as new as the state in memory (ADR-0004 "Atomic        *)
(* persistence").                                                            *)
DiskNotBehind ==
  mem.loaded => /\ disk.whole
                /\ disk.token.at >= mem.token.at /\ disk.token.rt >= mem.token.rt

(* Google's rotation of the refresh token never locks the account out: as    *)
(* long as nothing fails, however calls race, no refresh is refused.         *)
NeverLockedOut == \A c \in Calls : call[c].reply = "invalid_grant" => faults > 0

(* After a 401, the second attempt carries a token Google issued after the   *)
(* one it refused, whoever else refreshed in the meantime.                   *)
RetryWithNewerToken == \A c \in Calls : call[c].pc = "resend" => call[c].token > call[c].refused

(* However many calls find the token about to expire and queue for the lock, *)
(* one of them asks Google: the others use what it fetched, until that token *)
(* is about to expire in its turn (the double-check of refresh_locked).      *)
(* Another one asks only after a request that came to nothing.               *)
OneRenewal == asked <= 1

(* Every call comes to an end: each way out of a refresh releases the lock.  *)
CallsEnd == \A c \in Calls : call[c].pc # "idle" ~> call[c].pc = "idle"

-----------------------------------------------------------------------------
(* The abstract specification.  A restart with a torn file would leave mem   *)
(* without a token; without cancelled futures there is none.                 *)

Cell == INSTANCE CredentialCell WITH First <- Start, used <- mem.token, durable <- disk.token

(* Through every race, failure, lost answer and restart, no token is used    *)
(* before the file holds it, and no second one is written before it is used. *)
CellSpec == Cell!Spec
=============================================================================
