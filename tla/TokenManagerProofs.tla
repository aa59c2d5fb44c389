-------------------------- MODULE TokenManagerProofs --------------------------
(* Theorems about TokenManager for every number of calls, every expiry       *)
(* buffer and lifetime, with and without cancelled futures.                  *)
EXTENDS TokenManager, Induction

(* A record with the fields of State; only TypeOK needs the arithmetic of    *)
(* the cooldown.                                                             *)
IsState(s) ==
  s = [loaded |-> s.loaded, token |-> s.token, until |-> s.until, failures |-> s.failures]

(* What a call's locals promise when n access tokens have been issued.       *)
Granted(r) == r.pc \in Persisting \/ (r.pc = "reply" /\ r.reply = "granted")

Good(r, n) ==
  /\ r.token <= n /\ r.refused <= n /\ r.next.at <= n
  /\ Granted(r) => r.next.at > r.refused
  /\ r.pc = "resend" => r.token > r.refused
  /\ r.pc = "fast" => ~r.force
  /\ r.pc = "reply" => r.reply # "none"

Known(f, n) == f \in File /\ f.token.at <= n

Files(n) ==
  /\ Known(tmp, n) /\ Known(disk, n)
  /\ \A o \in orphans : o \in Orphan /\ o.token.at <= n

(* Nothing in memory or in a file is newer than what Google issued.          *)
World ==
  /\ now \in Nat
  /\ google \in [rt : Nat, issued : Nat, good : SUBSET Nat]
  /\ IsState(mem) /\ mem.token \in Token /\ mem.token.at <= google.issued
  /\ lock \in Calls \cup {Nobody}
  /\ Files(google.issued)

(* Nor is anything in flight, and whoever is refreshing holds the lock.      *)
InFlight ==
  /\ call \in [Calls -> Call]
  /\ \A c \in Calls : Good(call[c], google.issued)
  /\ OneRefresher

Inv == World /\ InFlight

(* The count of renewals only watches: what the others do is Moves.          *)
LEMMA Underneath == [Next]_vars => [Moves]_stateVars
BY DEF Next, vars, stateVars

-----------------------------------------------------------------------------
(* Calls.                                                                    *)

(* An idle call holds nothing.                                               *)
LEMMA IdleIsGood == \A n \in Nat : Idle \in Call /\ Good(Idle, n)
BY DEF Idle, Call, Refreshing, Persisting, Paths, NoToken, Token, Good, Granted

(* A step of one call keeps what Inv says of the calls if its new locals are *)
(* good and it holds the lock while it refreshes.                            *)
LEMMA CallMoves ==
  ASSUME Inv, NEW c \in Calls, NEW r \in Call, Become(c, r),
         google'.issued \in Nat, google'.issued >= google.issued, Good(r, google'.issued),
         r.pc \in Refreshing => lock' = c,
         lock' = lock \/ lock = Nobody \/ lock = c
  PROVE  InFlight'
<1>1. call' \in [Calls -> Call] BY DEF Inv, World, InFlight, Become
<1>2. ASSUME NEW d \in Calls PROVE Good(call'[d], google'.issued)
  <2>1. CASE d = c BY <2>1 DEF Inv, World, InFlight, Become
  <2>2. CASE d # c
    <3>1. call'[d] = call[d] /\ call[d] \in Call /\ Good(call[d], google.issued)
      BY <2>2 DEF Inv, World, InFlight, Become
    <3> QED BY <3>1 DEF Inv, World, InFlight, Good, Call, Token
  <2> QED BY <2>1, <2>2
<1>3. OneRefresher' BY TokenAssumption DEF Inv, World, InFlight, Become, OneRefresher
<1> QED BY <1>1, <1>2, <1>3 DEF InFlight

(* A step that leaves Google alone: the usual case of CallMoves.             *)
LEMMA QuietMove ==
  ASSUME Inv, NEW c \in Calls, NEW r \in Call, Become(c, r), UNCHANGED google,
         Good(r, google.issued), r.pc \in Refreshing => lock' = c,
         lock' = lock \/ lock' = Nobody \/ lock' = c, lock # lock' => lock \in {Nobody, c}
  PROVE  InFlight'
<1>1. google'.issued \in Nat /\ google'.issued >= google.issued BY DEF Inv, World
<1>2. lock' = lock \/ lock = Nobody \/ lock = c OBVIOUS
<1> QED BY <1>1, <1>2, CallMoves

-----------------------------------------------------------------------------
(* Files.                                                                    *)

LEMMA FilesAreKnown ==
  ASSUME NEW n \in Nat, NEW t \in Token, t.at <= n
  PROVE  Known(Absent, n) /\ Known(Torn, n) /\ Known(Whole(t), n)
BY DEF Known, Absent, Torn, Whole, File, NoToken, Token

(* Filling a file leaves known files.                                        *)
LEMMA FillingIsKnown ==
  ASSUME NEW n \in Nat, NEW t \in Token, t.at <= n, NEW to, Filled(to, t),
         Known(tmp, n), Known(disk, n)
  PROVE  Known(tmp', n) /\ Known(disk', n)
<1>1. Known(Torn, n) /\ Known(Whole(t), n) BY FilesAreKnown
<1> QED BY <1>1 DEF Filled, Over

(* A rename leaves known operations behind.                                  *)
LEMMA CarriedAreKnown ==
  ASSUME NEW n \in Nat, NEW os, \A o \in os : o \in Orphan /\ o.token.at <= n
  PROVE  \A o \in Carried(os) : o \in Orphan /\ o.token.at <= n
<1>1. ASSUME NEW o \in os
      PROVE  LET p == [o EXCEPT !.to = Moved(@)] IN p \in Orphan /\ p.token.at <= n
  BY <1>1 DEF Orphan, Moved, Paths
<1> QED BY <1>1 DEF Carried

(* What happens to the world when only calls, the lock or the cooldown move. *)
LEMMA WorldStays ==
  ASSUME Inv, UNCHANGED <<google, fileVars, mem>>, now' \in Nat, lock' \in Calls \cup {Nobody}
  PROVE  World'
BY DEF Inv, World, Files, Known, fileVars, IsState

-----------------------------------------------------------------------------
(* The inductive step, one lemma for each stage of a call.                   *)

(* access_token: begin, the fast path, the wait for the lock.                *)
LEMMA AskingKeepsInv ==
  ASSUME Inv, NEW c \in Calls, Begin(c) \/ FastPath(c) \/ AcquireLock(c)
  PROVE  Inv'
<1>0. call[c] \in Call /\ Good(call[c], google.issued) /\ google.issued \in Nat
  BY DEF Inv, World, InFlight
<1>1. World'
  <2>1. UNCHANGED <<google, fileVars, mem>> /\ now' \in Nat /\ lock' \in Calls \cup {Nobody}
    BY DEF Inv, World, Begin, FastPath, AcquireLock
  <2> QED BY <2>1, WorldStays
<1>2. \E r \in Call :
        /\ Become(c, r) /\ UNCHANGED google /\ Good(r, google.issued)
        /\ \/ r.pc \notin Refreshing /\ UNCHANGED lock
           \/ lock = Nobody /\ lock' = c
  <2>1. CASE Begin(c)
    <3> DEFINE r == [Idle EXCEPT !.pc = "fast"]
    <3>1. r \in Call /\ Good(r, google.issued) /\ r.pc \notin Refreshing
      <4>1. Idle \in Call /\ Good(Idle, google.issued) BY <1>0, IdleIsGood
      <4>2. Idle.force = FALSE BY DEF Idle
      <4> QED BY <4>1, <4>2 DEF Call, Refreshing, Persisting, Good, Granted
    <3>2. Become(c, r) /\ UNCHANGED <<google, lock>> BY <2>1 DEF Begin
    <3> HIDE DEF r
    <3> QED BY <3>1, <3>2
  <2>2. CASE (FastPath(c) \/ AcquireLock(c)) /\ Become(c, Idle) /\ UNCHANGED <<google, lock>>
    <3>1. Idle \in Call /\ Good(Idle, google.issued) /\ Idle.pc \notin Refreshing
      BY <1>0, IdleIsGood DEF Idle, Refreshing, Persisting
    <3> QED BY <2>2, <3>1
  <2>3. CASE FastPath(c) /\ Goto(c, "lock")
    <3> DEFINE r == [call[c] EXCEPT !.pc = "lock"]
    <3>1. r \in Call /\ Good(r, google.issued) /\ r.pc \notin Refreshing
      BY <1>0 DEF Call, Refreshing, Persisting, Good, Granted
    <3>2. Become(c, r) /\ UNCHANGED <<google, lock>> BY <2>3 DEF FastPath, Goto
    <3> HIDE DEF r
    <3> QED BY <3>1, <3>2
  <2>4. CASE (FastPath(c) \/ AcquireLock(c)) /\ UseToken(c) /\ ~call[c].force
             /\ UNCHANGED <<google, lock>>
    <3> DEFINE r == [call[c] EXCEPT !.pc = IF call[c].force THEN "resend" ELSE "send",
                                    !.token = mem.token.at]
    <3>1. r \in Call /\ Good(r, google.issued) /\ r.pc \notin Refreshing
      BY <1>0, <2>4 DEF Call, Refreshing, Persisting, Good, Granted, Inv, World, Token
    <3>2. Become(c, r) /\ UNCHANGED <<google, lock>> BY <2>4 DEF UseToken
    <3> HIDE DEF r
    <3> QED BY <3>1, <3>2
  <2>5. CASE AcquireLock(c) /\ Goto(c, "post") /\ lock = Nobody /\ lock' = c /\ UNCHANGED google
    <3> DEFINE r == [call[c] EXCEPT !.pc = "post"]
    <3>1. r \in Call /\ Good(r, google.issued)
      BY <1>0 DEF Call, Refreshing, Persisting, Good, Granted
    <3>2. Become(c, r) BY <2>5 DEF Goto
    <3> HIDE DEF r
    <3> QED BY <2>5, <3>1, <3>2
  <2>6. FastPath(c) => <2>2!1 \/ <2>3!1 \/ <2>4!1
    BY <1>0 DEF FastPath, Good
  <2>7. AcquireLock(c) => <2>2!1 \/ <2>4!1 \/ <2>5!1
    BY DEF AcquireLock
  <2> QED BY <2>1, <2>2, <2>3, <2>4, <2>5, <2>6, <2>7
<1>3. InFlight' BY <1>2, QuietMove
<1> QED BY <1>1, <1>3 DEF Inv

(* Google's answer: a grant is newer than anything else around.              *)
LEMMA AnsweringKeepsInv ==
  ASSUME Inv, NEW c \in Calls, TokenEndpoint(c) \/ LoseReply(c)
  PROVE  Inv'
<1>0. /\ call[c] \in Call /\ Good(call[c], google.issued) /\ google.issued \in Nat
      /\ google.rt \in Nat /\ google.good \subseteq Nat /\ lock = c
  BY DEF Inv, World, InFlight, OneRefresher, Refreshing, TokenEndpoint, LoseReply
<1>1. ASSUME NEW rt \in {google.rt, google.rt + 1}, NEW life \in Lifetimes, Grant(c, rt, life),
             UNCHANGED <<now, mem, lock, fileVars>>
      PROVE  Inv'
  <2> DEFINE t == [at |-> google.issued + 1, rt |-> rt, expires |-> life]
  <2> DEFINE r == [call[c] EXCEPT !.pc = "reply", !.reply = "granted", !.next = t]
  <2>1. /\ google' = [rt |-> rt, issued |-> google.issued + 1,
                      good |-> google.good \cup {google.issued + 1}]
        /\ Become(c, r)
    BY <1>1 DEF Grant
  <2>2. /\ google' \in [rt : Nat, issued : Nat, good : SUBSET Nat]
        /\ google'.issued = google.issued + 1
    BY <1>0, <2>1
  <2>3. r \in Call /\ Good(r, google.issued + 1) /\ r.pc = "reply"
    <3>1. t \in Token /\ t.at = google.issued + 1
      BY <1>0, TokenAssumption DEF Token
    <3> HIDE DEF t
    <3>2. r \in Call BY <1>0, <3>1 DEF Call, Refreshing
    <3>3. /\ r.pc = "reply" /\ r.reply = "granted" /\ r.next = t
          /\ r.token = call[c].token /\ r.refused = call[c].refused
      BY <1>0 DEF Call
    <3>4. call[c].token \in Nat /\ call[c].refused \in Nat BY <1>0 DEF Call
    <3> QED BY <1>0, <3>1, <3>2, <3>3, <3>4 DEF Good
  <2> HIDE DEF r
  <2>4. InFlight' BY <1>0, <1>1, <2>1, <2>2, <2>3, CallMoves
  <2>5. World'
    BY <1>0, <1>1, <2>2 DEF Inv, World, Files, Known, fileVars, IsState, File, Orphan, Token
  <2> QED BY <2>4, <2>5 DEF Inv
<1>2. ASSUME NEW reply \in {"invalid_grant", "failed"},
             Become(c, [call[c] EXCEPT !.pc = "reply", !.reply = reply]),
             UNCHANGED <<now, mem, lock, fileVars, google>>
      PROVE  Inv'
  <2> DEFINE r == [call[c] EXCEPT !.pc = "reply", !.reply = reply]
  <2>1. r \in Call /\ Good(r, google.issued) /\ r.pc = "reply"
    BY <1>0 DEF Call, Refreshing, Persisting, Good, Granted
  <2> HIDE DEF r
  <2>2. InFlight' BY <1>0, <1>2, <2>1, QuietMove DEF r
  <2>3. now \in Nat /\ lock \in Calls \cup {Nobody} BY DEF Inv, World
  <2>4. World' BY <1>2, <2>3, WorldStays
  <2> QED BY <2>2, <2>4 DEF Inv
<1>3. CASE TokenEndpoint(c) BY <1>1, <1>2, <1>3 DEF TokenEndpoint
<1>4. CASE LoseReply(c)
  <2>1. Become(c, [call[c] EXCEPT !.pc = "reply", !.reply = "failed"])
    BY <1>0, <1>4 DEF LoseReply, Become, Call
  <2> QED BY <1>2, <1>4, <2>1 DEF LoseReply
<1> QED BY <1>3, <1>4

(* Leaving a refresh: the call is idle and the lock free.                    *)
LEMMA FailingKeepsInv ==
  ASSUME Inv, NEW c \in Calls, Become(c, Idle), lock' = lock \/ lock' = Nobody,
         UNCHANGED google, lock # lock' => lock = c
  PROVE  InFlight'
<1>1. Idle \in Call /\ Good(Idle, google.issued) /\ Idle.pc \notin Refreshing
  BY IdleIsGood DEF Inv, World, Idle, Refreshing, Persisting
<1> QED BY <1>1, QuietMove

(* The answer is read.                                                       *)
LEMMA ReadingKeepsInv ==
  ASSUME Inv, NEW c \in Calls, HandleReply(c)
  PROVE  Inv'
<1>0. /\ call[c] \in Call /\ Good(call[c], google.issued) /\ call[c].pc = "reply" /\ lock = c
      /\ now \in Nat /\ UNCHANGED <<now, google, fileVars>> /\ google.issued \in Nat
  BY DEF Inv, World, InFlight, OneRefresher, Refreshing, HandleReply
<1>1. CASE call[c].reply = "granted"
  <2> DEFINE t == [call[c].next EXCEPT !.expires = now + @]
  <2> DEFINE r == [call[c] EXCEPT !.pc = "open", !.next = t]
  <2>1. Become(c, r) /\ UNCHANGED <<mem, lock>>
    BY <1>0, <1>1 DEF HandleReply, Become, Call
  <2>2. r \in Call /\ Good(r, google.issued)
    <3>1. t \in Token /\ t.at = call[c].next.at
      BY <1>0 DEF Token, Call
    <3> HIDE DEF t
    <3> QED BY <1>0, <1>1, <3>1 DEF Call, Refreshing, Persisting, Good, Granted
  <2> HIDE DEF r
  <2>3. InFlight' BY <1>0, <2>1, <2>2, QuietMove
  <2>4. World' BY <1>0, <2>1, WorldStays DEF Inv, World
  <2> QED BY <2>3, <2>4 DEF Inv
<1>2. CASE call[c].reply # "granted"
  <2>1. /\ Become(c, Idle) /\ lock' = Nobody
        /\ \E f, u : mem' = [mem EXCEPT !.failures = f, !.until = u]
    <3>1. CASE call[c].reply = "invalid_grant" BY <1>0, <3>1 DEF HandleReply, Fail
    <3>2. CASE call[c].reply = "failed" BY <1>0, <3>2 DEF HandleReply, Fail
    <3>3. call[c].reply \in {"invalid_grant", "failed"} BY <1>0, <1>2 DEF Call, Good
    <3> QED BY <3>1, <3>2, <3>3
  <2>2. IsState(mem') /\ mem'.token = mem.token
    BY <2>1 DEF Inv, World, IsState
  <2>3. InFlight' BY <1>0, <2>1, FailingKeepsInv
  <2>4. World' BY <1>0, <2>1, <2>2 DEF Inv, World, Files, Known, fileVars
  <2> QED BY <2>3, <2>4 DEF Inv
<1> QED BY <1>1, <1>2

(* The next point of a refresh that has its grant.                           *)
LEMMA GotoIsGood ==
  ASSUME NEW n \in Nat, NEW q \in Call, Good(q, n), q.pc \in Persisting,
         NEW pc \in Persisting, NEW to \in Paths
  PROVE  LET r == [q EXCEPT !.pc = pc, !.to = to] IN r \in Call /\ Good(r, n) /\ r.pc = pc
BY DEF Call, Refreshing, Persisting, Good, Granted

(* persist_atomic: open, fill, set the mode, rename, or an error.            *)
LEMMA PersistingKeepsInv ==
  ASSUME Inv, NEW c \in Calls,
         OpenFile(c) \/ FillFile(c) \/ SetMode(c) \/ RenameFile(c) \/ IoError(c)
  PROVE  Inv'
<1>0. /\ call[c] \in Call /\ Good(call[c], google.issued) /\ call[c].pc \in Persisting /\ lock = c
      /\ call[c].next \in Token /\ call[c].next.at <= google.issued
      /\ google.issued \in Nat /\ UNCHANGED <<now, google, mem>>
      /\ Known(tmp, google.issued) /\ Known(disk, google.issued)
      /\ \A o \in orphans : o \in Orphan /\ o.token.at <= google.issued
  BY DEF Inv, World, Files, InFlight, OneRefresher, Refreshing, Persisting, Good, Call,
         OpenFile, FillFile, SetMode, RenameFile, IoError
<1>1. InFlight' /\ lock' \in {c, Nobody}
  <2>1. CASE \E pc \in Persisting, to \in Paths :
               Become(c, [call[c] EXCEPT !.pc = pc, !.to = to]) /\ lock' = c
    <3>1. PICK pc \in Persisting, to \in Paths :
            Become(c, [call[c] EXCEPT !.pc = pc, !.to = to]) /\ lock' = c
      BY <2>1
    <3> DEFINE r == [call[c] EXCEPT !.pc = pc, !.to = to]
    <3>2. r \in Call /\ Good(r, google.issued) BY <1>0, GotoIsGood
    <3>3. Become(c, r) BY <3>1
    <3> HIDE DEF r
    <3> QED BY <1>0, <3>1, <3>2, <3>3, QuietMove
  <2>2. CASE Fail(c) BY <1>0, <2>2, FailingKeepsInv DEF Fail
  <2>3. ASSUME NEW pc \in Persisting, Goto(c, pc), UNCHANGED lock PROVE <2>1!1
    <3>1. Become(c, [call[c] EXCEPT !.pc = pc, !.to = call[c].to])
      BY <1>0, <2>3 DEF Goto, Become, Call
    <3> QED BY <1>0, <2>3, <3>1 DEF Call
  <2>4. OpenFile(c) => <2>1!1 BY <1>0 DEF OpenFile, Persisting, Paths
  <2>5. FillFile(c) => Goto(c, "chmod") /\ UNCHANGED lock BY DEF FillFile
  <2>6. SetMode(c) => (Goto(c, "rename") /\ UNCHANGED lock) \/ Fail(c) BY DEF SetMode
  <2>7. RenameFile(c) => (Goto(c, "install") /\ UNCHANGED lock) \/ Fail(c) BY DEF RenameFile
  <2>8. IoError(c) => Fail(c) BY DEF IoError
  <2> QED BY <2>1, <2>2, <2>3, <2>4, <2>5, <2>6, <2>7, <2>8 DEF Persisting
<1>2. Files(google.issued)'
  <2>1. CASE UNCHANGED fileVars
    BY <1>0, <2>1 DEF Files, Known, fileVars
  <2>2. CASE Truncated /\ UNCHANGED orphans
    BY <1>0, <2>2, FilesAreKnown DEF Files, Truncated, Known
  <2>3. CASE Filled(call[c].to, call[c].next) /\ UNCHANGED orphans
    BY <1>0, <2>3, FillingIsKnown DEF Files, Known
  <2>4. CASE Renamed /\ orphans' = Carried(orphans)
    <3>1. \A o \in Carried(orphans) : o \in Orphan /\ o.token.at <= google.issued
      BY <1>0, CarriedAreKnown
    <3>2. Known(Absent, google.issued)
      BY <1>0, FilesAreKnown
    <3> QED BY <1>0, <2>4, <3>1, <3>2 DEF Files, Renamed, Known
  <2> QED BY <2>1, <2>2, <2>3, <2>4 DEF OpenFile, FillFile, SetMode, RenameFile, IoError, fileVars
<1>3. World' BY <1>0, <1>1, <1>2 DEF Inv, World, IsState
<1> QED BY <1>1, <1>3 DEF Inv

(* The new state is installed; a forced refresh retries with its token.      *)
LEMMA InstallingKeepsInv ==
  ASSUME Inv, NEW c \in Calls, Install(c)
  PROVE  Inv'
<1> DEFINE r == [call[c] EXCEPT !.pc = IF call[c].force THEN "resend" ELSE "send",
                                !.token = call[c].next.at]
<1>0. /\ call[c] \in Call /\ Good(call[c], google.issued) /\ call[c].pc = "install" /\ lock = c
      /\ call[c].next \in Token /\ call[c].next.at <= google.issued
      /\ Become(c, r) /\ lock' = Nobody /\ mem' = Loaded(call[c].next)
      /\ UNCHANGED <<now, google, fileVars>>
  BY DEF Inv, World, InFlight, OneRefresher, Refreshing, Persisting, Good, Call, Install
<1>1. r \in Call /\ Good(r, google.issued) /\ r.pc \notin Refreshing
  BY <1>0 DEF Call, Refreshing, Persisting, Good, Granted, Token
<1> HIDE DEF r
<1>2. InFlight' BY <1>0, <1>1, QuietMove
<1>3. IsState(mem') /\ mem'.token = call[c].next BY <1>0 DEF Loaded, IsState
<1>4. World' BY <1>0, <1>3 DEF Inv, World, Files, Known, fileVars
<1> QED BY <1>2, <1>4 DEF Inv

(* The request itself.                                                       *)
LEMMA SendingKeepsInv ==
  ASSUME Inv, NEW c \in Calls, Send(c) \/ Resend(c)
  PROVE  Inv'
<1>0. /\ call[c] \in Call /\ Good(call[c], google.issued) /\ call[c].pc \in {"send", "resend"}
      /\ UNCHANGED <<now, google, mem, lock, fileVars>>
  BY DEF Inv, World, InFlight, Send, Resend
<1>1. InFlight'
  <2>1. CASE Become(c, Idle) BY <1>0, <2>1, FailingKeepsInv
  <2> DEFINE r == [call[c] EXCEPT !.pc = "lock", !.force = TRUE, !.refused = call[c].token]
  <2>2. CASE Become(c, r)
    <3>1. r \in Call /\ Good(r, google.issued) /\ r.pc \notin Refreshing
      BY <1>0 DEF Call, Refreshing, Persisting, Good, Granted
    <3> HIDE DEF r
    <3> QED BY <1>0, <2>2, <3>1, QuietMove
  <2> QED BY <2>1, <2>2 DEF Send, Resend
<1>2. World' BY <1>0, WorldStays DEF Inv, World
<1> QED BY <1>1, <1>2 DEF Inv

(* A dropped future leaves the lock and at most one file operation.          *)
LEMMA CancellingKeepsInv ==
  ASSUME Inv, NEW c \in Calls, Cancel(c)
  PROVE  Inv'
<1>1. InFlight'
  <2>1. /\ Become(c, Idle) /\ UNCHANGED google
        /\ lock' \in {lock, Nobody}
        /\ (lock # lock' => lock = c)
    BY DEF Cancel
  <2> QED BY <2>1, FailingKeepsInv
<1>2. World'
  <2>1. \A o \in orphans' :
          \/ o \in orphans
          \/ \E op \in {"open", "fill", "rename"} :
               o = [op |-> op, token |-> call[c].next, to |-> call[c].to]
    BY DEF Cancel
  <2>2. /\ call[c].next \in Token /\ call[c].next.at <= google.issued /\ call[c].to \in Paths
    BY DEF Inv, InFlight, Good, Call
  <2>3. \A o \in orphans' : o \in Orphan /\ o.token.at <= google.issued
    BY <2>1, <2>2 DEF Inv, World, Files, Orphan
  <2>4. UNCHANGED <<now, google, mem, tmp, disk>> /\ lock' \in {lock, Nobody}
    BY DEF Cancel
  <2> QED BY <2>3, <2>4 DEF Inv, World, Files, Known, IsState
<1> QED BY <1>1, <1>2 DEF Inv

(* What runs without a call to wait for it.                                  *)
LEMMA BackgroundKeepsInv ==
  ASSUME Inv, BackgroundIo
  PROVE  Inv'
<1>1. PICK o \in orphans : RunOrphan(o) BY DEF BackgroundIo
<1> DEFINE n == google.issued
<1>2. /\ n \in Nat /\ Known(tmp, n) /\ Known(disk, n)
      /\ \A p \in orphans : p \in Orphan /\ p.token.at <= n
      /\ call \in [Calls -> Call] /\ \A c \in Calls : Good(call[c], n)
      /\ UNCHANGED <<now, google, mem, lock>>
  BY DEF Inv, World, Files, InFlight, BackgroundIo
<1>3. o \in Orphan /\ o.token \in Token /\ o.token.at <= n BY <1>2 DEF Orphan
<1>4. Known(Absent, n) /\ Known(Torn, n) BY <1>2, <1>3, FilesAreKnown
<1>5. Files(n)' /\ (UNCHANGED call \/ call' = [c \in Calls |->
        IF call[c].pc = "fill" THEN [call[c] EXCEPT !.to = Moved(@)] ELSE call[c]])
  <2>1. CASE o.op = "open"
    <3>1. [o EXCEPT !.op = "fill", !.to = "tmp"] \in Orphan BY <1>3 DEF Orphan, Paths
    <3>2. [o EXCEPT !.op = "fill", !.to = "tmp"].token = o.token BY <1>3 DEF Orphan
    <3>3. /\ Truncated /\ UNCHANGED call
          /\ orphans' = (orphans \ {o}) \cup {[o EXCEPT !.op = "fill", !.to = "tmp"]}
      BY <1>1, <2>1 DEF RunOrphan
    <3> QED BY <1>2, <1>3, <1>4, <3>1, <3>2, <3>3 DEF Truncated, Files, Known
  <2>2. CASE o.op = "fill"
    <3>1. Filled(o.to, o.token) /\ UNCHANGED call /\ orphans' = orphans \ {o}
      BY <1>1, <2>2 DEF RunOrphan
    <3>2. Known(tmp', n) /\ Known(disk', n) BY <1>2, <1>3, <3>1, FillingIsKnown
    <3> QED BY <1>2, <3>1, <3>2 DEF Files, Known
  <2>3. CASE o.op = "rename" /\ tmp.exists
    <3>1. Renamed /\ orphans' = Carried(orphans \ {o}) /\ <1>5!2
      BY <1>1, <2>3 DEF RunOrphan
    <3>2. \A p \in Carried(orphans \ {o}) : p \in Orphan /\ p.token.at <= n
      BY <1>2, CarriedAreKnown
    <3> QED BY <1>2, <1>4, <3>1, <3>2 DEF Renamed, Files, Known
  <2>4. CASE o.op = "rename" /\ ~tmp.exists
    <3>1. orphans' = orphans \ {o} /\ UNCHANGED <<tmp, disk, call>>
      BY <1>1, <2>4 DEF RunOrphan
    <3> QED BY <1>2, <3>1 DEF Files, Known
  <2> QED BY <1>3, <2>1, <2>2, <2>3, <2>4 DEF Orphan
<1>6. InFlight'
  <2>1. CASE UNCHANGED call BY <1>2, <2>1 DEF Inv, InFlight, OneRefresher
  <2>2. CASE call' = [c \in Calls |->
          IF call[c].pc = "fill" THEN [call[c] EXCEPT !.to = Moved(@)] ELSE call[c]]
    <3>1. ASSUME NEW c \in Calls
          PROVE  /\ call'[c] \in Call /\ Good(call'[c], n) /\ call'[c].pc = call[c].pc
      <4>1. CASE call[c].pc = "fill"
        <5> DEFINE to == Moved(call[c].to)
        <5>1. to \in Paths BY DEF Moved, Paths
        <5>2. call'[c] = [call[c] EXCEPT !.pc = "fill", !.to = to]
          BY <1>2, <2>2, <4>1 DEF Call
        <5>3. call[c] \in Call /\ Good(call[c], n) /\ call[c].pc \in Persisting
          BY <1>2, <4>1 DEF Persisting
        <5> HIDE DEF to, n
        <5> DEFINE r == [call[c] EXCEPT !.pc = "fill", !.to = to]
        <5>4. n \in Nat BY <1>2
        <5>5. r \in Call /\ Good(r, n) /\ r.pc = "fill"
          BY <4>1, <5>1, <5>3, <5>4 DEF Call, Refreshing, Persisting, Good, Granted
        <5> QED BY <4>1, <5>2, <5>5
      <4>2. CASE call[c].pc # "fill" BY <1>2, <2>2, <4>2
      <4> QED BY <4>1, <4>2
    <3> QED BY <1>2, <2>2, <3>1 DEF Inv, InFlight, OneRefresher
  <2> QED BY <1>5, <2>1, <2>2
<1>7. World' BY <1>2, <1>5 DEF Inv, World, IsState
<1> QED BY <1>6, <1>7 DEF Inv

LEMMA SurroundingsKeepInv ==
  ASSUME Inv, Restart \/ Revoke \/ Tick
  PROVE  Inv'
<1>1. CASE Restart
  <2>1. /\ \A c \in Calls : Idle \in Call /\ Good(Idle, google.issued)
        /\ Idle.pc \notin Refreshing
    BY IdleIsGood DEF Inv, World, Idle, Refreshing, Persisting
  <2>2. InFlight' BY <1>1, <2>1 DEF Inv, World, InFlight, OneRefresher, Restart
  <2>3. IsState(mem') /\ mem'.token \in {disk.token, NoToken}
    BY <1>1 DEF Restart, Loaded, NotLoaded, IsState
  <2>4. mem'.token \in Token /\ mem'.token.at <= google.issued
    BY <2>3 DEF Inv, World, Files, Known, File, NoToken, Token
  <2>5. World' BY <1>1, <2>3, <2>4 DEF Restart, Inv, World, Files, Known
  <2> QED BY <2>2, <2>5 DEF Inv
<1>2. CASE Revoke
  <2>1. PICK at \in google.good : google' = [google EXCEPT !.good = @ \ {at}]
    BY <1>2 DEF Revoke
  <2>2. /\ google' \in [rt : Nat, issued : Nat, good : SUBSET Nat]
        /\ google'.issued = google.issued
    BY <2>1 DEF Inv, World
  <2>3. World' BY <1>2, <2>2 DEF Revoke, Inv, World, Files, Known, fileVars, IsState
  <2>4. InFlight' BY <1>2, <2>2 DEF Revoke, Inv, InFlight, OneRefresher
  <2> QED BY <2>3, <2>4 DEF Inv
<1>3. CASE Tick
  BY <1>3 DEF Tick, Inv, World, Files, Known, fileVars, IsState, InFlight, OneRefresher
<1> QED BY <1>1, <1>2, <1>3

-----------------------------------------------------------------------------
(* The theorem.                                                              *)

LEMMA InvInitially == Init => Inv
<1> SUFFICES ASSUME Init PROVE Inv OBVIOUS
<1>1. Start \in Token /\ Start.at = 1 BY TokenAssumption DEF Start, Token
<1>2. Known(Absent, 1) /\ Known(Whole(Start), 1) BY <1>1, FilesAreKnown
<1>3. World
  BY <1>1, <1>2 DEF Init, World, Files, Loaded, IsState
<1>4. Idle.pc \notin Refreshing BY DEF Idle, Refreshing, Persisting
<1>5. InFlight BY <1>4, IdleIsGood DEF Init, InFlight, OneRefresher
<1> QED BY <1>3, <1>5 DEF Inv

LEMMA InvIsInductive == Inv /\ [Moves]_stateVars => Inv'
<1> SUFFICES ASSUME Inv, [Moves]_stateVars PROVE Inv' OBVIOUS
<1>1. ASSUME NEW c \in Calls, Begin(c) \/ Step(c) \/ Cancel(c) PROVE Inv'
  BY <1>1, AskingKeepsInv, AnsweringKeepsInv, ReadingKeepsInv, PersistingKeepsInv,
     InstallingKeepsInv, SendingKeepsInv, CancellingKeepsInv DEF Step, Refresh
<1>2. CASE BackgroundIo \/ Restart \/ Revoke \/ Tick
  BY <1>2, BackgroundKeepsInv, SurroundingsKeepInv
<1>3. CASE UNCHANGED stateVars
  BY <1>3 DEF stateVars, Inv, World, Files, Known, fileVars, IsState, InFlight, OneRefresher
<1> QED BY <1>1, <1>2, <1>3 DEF Moves

LEMMA InvAlways == Spec => []Inv
BY InvInitially, InvIsInductive, Underneath, PTL DEF Spec

(* However calls race, and whatever is dropped, lost or restarted on the way *)
(* through refresh_locked, only the holder of the write lock is refreshing.  *)
THEOREM RefreshesAreSerial == Spec => []OneRefresher
<1>1. Inv => OneRefresher BY DEF Inv, InFlight
<1> QED BY <1>1, InvAlways, PTL

(* The second attempt of send_with_401_fallback never repeats the token that *)
(* was refused, nor an older one.                                            *)
THEOREM RetriesAreNewer == Spec => []RetryWithNewerToken
<1>1. Inv => RetryWithNewerToken BY DEF Inv, InFlight, Good, RetryWithNewerToken
<1> QED BY <1>1, InvAlways, PTL

-----------------------------------------------------------------------------
(* Durability, for a process whose futures run to their end.                 *)

NotOlder(s, t) == s.at >= t.at /\ s.rt >= t.rt

(* What persist_atomic has achieved by each point of a call, when m is the   *)
(* token in memory.                                                          *)
Ready(r, m, t, d) ==
  /\ Granted(r) => NotOlder(r.next, m)
  /\ r.pc = "fill" => r.to = "tmp" /\ t = Torn
  /\ r.pc \in {"chmod", "rename"} => t = Whole(r.next)
  /\ r.pc = "install" => d = Whole(r.next)

Durable ==
  /\ ~Cancels /\ orphans = {}
  /\ disk.whole /\ NotOlder(disk.token, mem.token)
  /\ \A c \in Calls : Ready(call[c], mem.token, tmp, disk)

(* A step that moves neither the files nor the token in memory.              *)
LEMMA MovingKeepsDurable ==
  ASSUME Inv, Durable, NEW c \in Calls, NEW r, Become(c, r),
         Ready(r, mem.token, tmp, disk), mem'.token = mem.token, UNCHANGED fileVars
  PROVE  Durable'
BY DEF Inv, World, InFlight, Durable, Become, fileVars

(* A step of the one that holds the lock: the others have no file in hand.   *)
LEMMA HoldingKeepsDurable ==
  ASSUME Inv, Durable, NEW c \in Calls, lock = c, NEW r, Become(c, r),
         Ready(r, mem'.token, tmp', disk'),
         orphans' = {}, disk'.whole, NotOlder(disk'.token, mem'.token)
  PROVE  Durable'
<1>1. ASSUME NEW d \in Calls PROVE Ready(call'[d], mem'.token, tmp', disk')
  <2>1. CASE d = c BY <2>1 DEF Inv, InFlight, Become
  <2>2. CASE d # c
    <3>1. call'[d].pc \notin Refreshing
      BY <2>2 DEF Inv, InFlight, Become, OneRefresher
    <3> QED BY <3>1 DEF Ready, Granted, Refreshing, Persisting
  <2> QED BY <2>1, <2>2
<1> QED BY <1>1 DEF Durable

(* A call outside the stages of a refresh has nothing to show.               *)
LEMMA OutsideIsReady ==
  ASSUME NEW r, r.pc \notin Persisting \cup {"reply"}, NEW m, NEW t, NEW d
  PROVE  Ready(r, m, t, d)
BY DEF Ready, Granted, Persisting

LEMMA AskingKeepsDurable ==
  ASSUME Inv, Durable, NEW c \in Calls,
         Begin(c) \/ FastPath(c) \/ AcquireLock(c) \/ Send(c) \/ Resend(c)
  PROVE  Durable'
<1>1. call[c] \in Call BY DEF Inv, InFlight
<1>2. \E r : Become(c, r) /\ r.pc \in {"idle", "fast", "lock", "post", "send", "resend"}
  <2>1. [Idle EXCEPT !.pc = "fast"].pc = "fast" /\ Idle.pc = "idle" BY DEF Idle
  <2>2. \A pc : [call[c] EXCEPT !.pc = pc].pc = pc BY <1>1 DEF Call
  <2>3. [call[c] EXCEPT !.pc = IF call[c].force THEN "resend" ELSE "send",
                        !.token = mem.token.at].pc \in {"send", "resend"}
    BY <1>1 DEF Call
  <2>4. [call[c] EXCEPT !.pc = "lock", !.force = TRUE, !.refused = call[c].token].pc = "lock"
    BY <1>1 DEF Call
  <2> QED BY <2>1, <2>2, <2>3, <2>4
          DEF Begin, FastPath, AcquireLock, Send, Resend, Goto, UseToken
<1>3. PICK r : Become(c, r) /\ r.pc \in {"idle", "fast", "lock", "post", "send", "resend"}
  BY <1>2
<1>4. Ready(r, mem.token, tmp, disk) BY <1>3, OutsideIsReady DEF Persisting
<1>5. UNCHANGED <<mem, fileVars>> BY DEF Begin, FastPath, AcquireLock, Send, Resend
<1> QED BY <1>3, <1>4, <1>5, MovingKeepsDurable

(* Only the holder of the newest refresh token gets a grant, so what it gets *)
(* is not older than what it holds.                                          *)
LEMMA AnsweringKeepsDurable ==
  ASSUME Inv, Durable, NEW c \in Calls, TokenEndpoint(c) \/ LoseReply(c)
  PROVE  Durable'
<1>0. /\ call[c] \in Call /\ google.issued \in Nat /\ google.rt \in Nat
      /\ mem.token \in Token /\ mem.token.at <= google.issued /\ UNCHANGED <<mem, fileVars>>
  BY DEF Inv, World, InFlight, TokenEndpoint, LoseReply
<1>1. ASSUME NEW rt \in {google.rt, google.rt + 1}, NEW life \in Lifetimes, Grant(c, rt, life),
             mem.token.rt = google.rt
      PROVE  Durable'
  <2> DEFINE t == [at |-> google.issued + 1, rt |-> rt, expires |-> life]
  <2> DEFINE r == [call[c] EXCEPT !.pc = "reply", !.reply = "granted", !.next = t]
  <2>1. Become(c, r) BY <1>1 DEF Grant
  <2>2. r.pc = "reply" /\ r.next = t BY <1>0 DEF Call
  <2>3. NotOlder(t, mem.token) BY <1>0, <1>1 DEF NotOlder, Token
  <2>4. Ready(r, mem.token, tmp, disk) BY <2>2, <2>3 DEF Ready, Granted
  <2> HIDE DEF r
  <2> QED BY <1>0, <2>1, <2>4, MovingKeepsDurable
<1>2. ASSUME NEW reply \in {"invalid_grant", "failed"},
             Become(c, [call[c] EXCEPT !.pc = "reply", !.reply = reply])
      PROVE  Durable'
  <2> DEFINE r == [call[c] EXCEPT !.pc = "reply", !.reply = reply]
  <2>1. r.pc = "reply" /\ r.reply # "granted" BY <1>0 DEF Call
  <2>2. Ready(r, mem.token, tmp, disk) BY <2>1 DEF Ready, Granted, Persisting
  <2>3. Become(c, r) BY <1>2
  <2> HIDE DEF r
  <2> QED BY <1>0, <2>2, <2>3, MovingKeepsDurable
<1>3. CASE TokenEndpoint(c) BY <1>1, <1>2, <1>3 DEF TokenEndpoint
<1>4. CASE LoseReply(c)
  <2>1. Become(c, [call[c] EXCEPT !.pc = "reply", !.reply = "failed"])
    BY <1>0, <1>4 DEF LoseReply, Become, Call
  <2> QED BY <1>2, <2>1
<1> QED BY <1>3, <1>4

LEMMA ReadingKeepsDurable ==
  ASSUME Inv, Durable, NEW c \in Calls, HandleReply(c)
  PROVE  Durable'
<1>0. /\ call[c] \in Call /\ call[c].pc = "reply" /\ UNCHANGED fileVars
      /\ Ready(call[c], mem.token, tmp, disk) /\ call[c].reply # "none"
  BY DEF Inv, InFlight, Durable, HandleReply, Good
<1>1. CASE call[c].reply = "granted"
  <2> DEFINE r == [call[c] EXCEPT !.pc = "open", !.next.expires = now + @]
  <2>1. Become(c, r) /\ UNCHANGED mem BY <1>1 DEF HandleReply
  <2>2. r.pc = "open" /\ r.next.at = call[c].next.at /\ r.next.rt = call[c].next.rt
    BY <1>0 DEF Call, Token
  <2>3. NotOlder(call[c].next, mem.token) BY <1>0, <1>1 DEF Ready, Granted
  <2>4. Ready(r, mem.token, tmp, disk) BY <2>2, <2>3 DEF Ready, Granted, NotOlder
  <2> HIDE DEF r
  <2> QED BY <1>0, <2>1, <2>4, MovingKeepsDurable
<1>2. CASE call[c].reply # "granted"
  <2>1. /\ Become(c, Idle)
        /\ \E f, u : mem' = [mem EXCEPT !.failures = f, !.until = u]
    <3>1. CASE call[c].reply = "invalid_grant" BY <1>0, <3>1 DEF HandleReply, Fail
    <3>2. CASE call[c].reply = "failed" BY <1>0, <3>2 DEF HandleReply, Fail
    <3>3. call[c].reply \in {"invalid_grant", "failed"} BY <1>0, <1>2 DEF Call
    <3> QED BY <3>1, <3>2, <3>3
  <2>2. mem'.token = mem.token BY <2>1 DEF Inv, World, IsState
  <2>3. Ready(Idle, mem.token, tmp, disk) BY OutsideIsReady DEF Idle, Persisting
  <2> QED BY <1>0, <2>1, <2>2, <2>3, MovingKeepsDurable
<1> QED BY <1>1, <1>2

(* The temporary file holds the whole new state before it gets its name.     *)
LEMMA PersistingKeepsDurable ==
  ASSUME Inv, Durable, NEW c \in Calls,
         OpenFile(c) \/ FillFile(c) \/ SetMode(c) \/ RenameFile(c) \/ IoError(c) \/ Install(c)
  PROVE  Durable'
<1>0. /\ call[c] \in Call /\ call[c].pc \in Persisting /\ lock = c
      /\ Ready(call[c], mem.token, tmp, disk) /\ NotOlder(call[c].next, mem.token)
      /\ call[c].next \in Token
      /\ orphans = {} /\ disk.whole /\ NotOlder(disk.token, mem.token)
  BY DEF Inv, InFlight, OneRefresher, Refreshing, Persisting, Durable, Ready, Granted, Call,
         OpenFile, FillFile, SetMode, RenameFile, IoError, Install
<1> DEFINE At(pc) == [call[c] EXCEPT !.pc = pc]
<1>1. ASSUME NEW pc PROVE At(pc).pc = pc /\ At(pc).next = call[c].next
  BY <1>0 DEF Call
<1>2. CASE OpenFile(c)
  <2> DEFINE r == [call[c] EXCEPT !.pc = "fill", !.to = "tmp"]
  <2>1. Become(c, r) /\ tmp' = Torn /\ UNCHANGED <<disk, mem, orphans>>
    BY <1>2 DEF OpenFile, Truncated
  <2>2. r.pc = "fill" /\ r.to = "tmp" /\ r.next = call[c].next BY <1>0 DEF Call
  <2>3. Ready(r, mem'.token, tmp', disk') BY <1>0, <2>1, <2>2 DEF Ready, Granted
  <2> HIDE DEF r
  <2> QED BY <1>0, <2>1, <2>3, HoldingKeepsDurable
<1>3. CASE FillFile(c)
  <2>1. call[c].to = "tmp" /\ tmp = Torn BY <1>0, <1>3 DEF FillFile, Ready
  <2>2. tmp' = Whole(call[c].next) /\ UNCHANGED <<disk, mem, orphans>> /\ Become(c, At("chmod"))
    BY <1>3, <2>1 DEF FillFile, Filled, Over, Torn, Goto
  <2>3. Ready(At("chmod"), mem'.token, tmp', disk') BY <1>0, <1>1, <2>2 DEF Ready, Granted
  <2> HIDE DEF At
  <2> QED BY <1>0, <2>2, <2>3, HoldingKeepsDurable
<1>4. CASE Fail(c) /\ UNCHANGED <<mem, fileVars>>
  <2>1. Ready(Idle, mem.token, tmp, disk) BY OutsideIsReady DEF Idle, Persisting
  <2> QED BY <1>4, <2>1, MovingKeepsDurable DEF Fail
<1>5. CASE call[c].pc = "chmod" /\ Goto(c, "rename") /\ UNCHANGED <<mem, fileVars>>
  <2>1. Ready(At("rename"), mem.token, tmp, disk)
    BY <1>0, <1>1, <1>5 DEF Ready, Granted
  <2>2. Become(c, At("rename")) BY <1>5 DEF Goto
  <2> HIDE DEF At
  <2> QED BY <1>5, <2>1, <2>2, MovingKeepsDurable
<1>6. CASE call[c].pc = "rename" /\ Renamed /\ orphans' = Carried(orphans)
           /\ Goto(c, "install") /\ UNCHANGED mem
  <2>1. tmp = Whole(call[c].next) BY <1>0, <1>6 DEF Ready
  <2>2. disk' = Whole(call[c].next) /\ orphans' = {} /\ UNCHANGED mem
    BY <1>0, <1>6, <2>1 DEF Renamed, Carried
  <2>3. disk'.whole /\ disk'.token = call[c].next BY <2>2 DEF Whole
  <2>4. Ready(At("install"), mem'.token, tmp', disk') BY <1>0, <1>1, <2>2 DEF Ready, Granted
  <2>5. Become(c, At("install")) BY <1>6 DEF Goto
  <2> HIDE DEF At
  <2> QED BY <1>0, <2>2, <2>3, <2>4, <2>5, HoldingKeepsDurable
<1>7. CASE Install(c)
  <2> DEFINE r == [call[c] EXCEPT !.pc = IF call[c].force THEN "resend" ELSE "send",
                                  !.token = call[c].next.at]
  <2>1. Become(c, r) /\ mem' = Loaded(call[c].next) /\ UNCHANGED fileVars
    BY <1>7 DEF Install
  <2>2. disk = Whole(call[c].next) BY <1>0, <1>7 DEF Install, Ready
  <2>3. r.pc \notin Persisting \cup {"reply"} BY <1>0 DEF Call, Persisting
  <2>4. Ready(r, mem'.token, tmp', disk')
    <3> HIDE DEF r
    <3> QED BY <2>3, OutsideIsReady
  <2>5. NotOlder(disk'.token, mem'.token)
    BY <1>0, <2>1, <2>2 DEF NotOlder, Whole, Loaded, fileVars, Token
  <2> HIDE DEF r
  <2> QED BY <1>0, <2>1, <2>4, <2>5, HoldingKeepsDurable DEF fileVars
<1>8. SetMode(c) => <1>4!1 \/ <1>5!1 BY DEF SetMode
<1>9. RenameFile(c) => <1>4!1 \/ <1>6!1 BY DEF RenameFile
<1>10. IoError(c) => <1>4!1 BY DEF IoError
<1> QED BY <1>2, <1>3, <1>4, <1>5, <1>6, <1>7, <1>8, <1>9, <1>10

LEMMA DurableIsInductive == Inv /\ Durable /\ [Moves]_stateVars => Durable'
<1> SUFFICES ASSUME Inv, Durable, [Moves]_stateVars PROVE Durable' OBVIOUS
<1>1. ASSUME NEW c \in Calls, Begin(c) \/ Step(c) PROVE Durable'
  BY <1>1, AskingKeepsDurable, AnsweringKeepsDurable, ReadingKeepsDurable,
     PersistingKeepsDurable DEF Step, Refresh
<1>2. ~(\E c \in Calls : Cancel(c)) /\ ~BackgroundIo
  BY DEF Durable, Cancel, BackgroundIo
<1>3. CASE Restart
  <2>1. mem'.token = disk.token /\ UNCHANGED <<tmp, disk>> /\ orphans' = {}
    BY <1>3 DEF Restart, Durable, Loaded
  <2>2. \A c \in Calls : call'[c].pc = "idle" BY <1>3 DEF Restart, Idle
  <2>3. \A c \in Calls : Ready(call'[c], mem'.token, tmp', disk')
    BY <2>2 DEF Ready, Granted, Persisting
  <2>4. NotOlder(disk.token, disk.token)
    BY DEF Inv, World, Files, Known, File, Token, NotOlder
  <2> QED BY <2>1, <2>3, <2>4 DEF Durable
<1>4. CASE Revoke \/ Tick BY <1>4 DEF Revoke, Tick, Durable, fileVars
<1>5. CASE UNCHANGED stateVars BY <1>5 DEF stateVars, Durable, fileVars
<1> QED BY <1>1, <1>2, <1>3, <1>4, <1>5 DEF Moves

LEMMA DurableInitially == ~Cancels /\ Init => Durable
<1> SUFFICES ASSUME ~Cancels, Init PROVE Durable OBVIOUS
<1>1. NotOlder(Start, Start) BY TokenAssumption DEF NotOlder, Start
<1>2. \A c \in Calls : Ready(call[c], mem.token, tmp, disk)
  BY OutsideIsReady DEF Init, Idle, Persisting
<1> QED BY <1>1, <1>2 DEF Init, Durable, Whole, Loaded

(* As long as no future is dropped, a crash at any point loses nothing: the  *)
(* file is whole and holds a token pair at least as new as the one in use.   *)
THEOREM UsedTokensAreDurable == ~Cancels /\ Spec => []DiskNotBehind
<1>1. Durable => DiskNotBehind BY DEF Durable, DiskNotBehind, NotOlder
<1> QED BY <1>1, DurableInitially, DurableIsInductive, InvAlways, Underneath, PTL DEF Spec

-----------------------------------------------------------------------------
(* The refinement: TokenManager implements CredentialCell.                   *)

(* Between the rename and Install the file is ahead; otherwise memory and    *)
(* file hold the same token.                                                 *)
Settled == (\A c \in Calls : call[c].pc # "install") => disk.token = mem.token

CellStep == [Cell!Next]_<<mem.token, disk.token>>

(* A step of a call that has nothing to install stutters in the cell.        *)
LEMMA StutteringKeepsSettled ==
  ASSUME Inv, Settled, NEW c \in Calls, NEW r, Become(c, r), call[c].pc # "install",
         mem'.token = mem.token, UNCHANGED disk
  PROVE  Settled' /\ CellStep
<1>1. ASSUME \A d \in Calls : call'[d].pc # "install"
      PROVE  \A d \in Calls : call[d].pc # "install"
  BY <1>1 DEF Inv, InFlight, Become
<1> QED BY <1>1 DEF Settled, CellStep

(* The stages of a call before its file is in place, and after its end.      *)
LEMMA StutteringSteps ==
  ASSUME Inv, Durable, NEW c \in Calls,
         Begin(c) \/ FastPath(c) \/ AcquireLock(c) \/ TokenEndpoint(c) \/ LoseReply(c)
           \/ HandleReply(c) \/ OpenFile(c) \/ FillFile(c) \/ SetMode(c) \/ IoError(c)
           \/ Send(c) \/ Resend(c)
  PROVE  /\ \E r : Become(c, r)
         /\ call[c].pc # "install" /\ mem'.token = mem.token /\ UNCHANGED disk
<1>1. CASE HandleReply(c)
  <2>1. mem' = mem \/ \E f, u : mem' = [mem EXCEPT !.failures = f, !.until = u]
    <3>1. call[c].reply \in {"granted", "invalid_grant", "failed"}
      BY <1>1 DEF Inv, InFlight, Call, Good, HandleReply
    <3> QED BY <1>1, <3>1 DEF HandleReply
  <2>2. mem'.token = mem.token BY <2>1 DEF Inv, World, IsState
  <2>3. call[c].pc # "install" /\ UNCHANGED disk BY <1>1 DEF HandleReply, fileVars
  <2>4. \E r : Become(c, r)
    <3>1. call[c].reply \in {"granted", "invalid_grant", "failed"}
      BY <1>1 DEF Inv, InFlight, Call, Good, HandleReply
    <3> QED BY <1>1, <3>1 DEF HandleReply, Fail
  <2> QED BY <2>2, <2>3, <2>4
<1>2. CASE FillFile(c)
  <2>1. call[c].to = "tmp" BY <1>2 DEF Durable, Ready, FillFile
  <2> QED BY <1>2, <2>1 DEF FillFile, Filled, Goto
<1>3. CASE TokenEndpoint(c) BY <1>3 DEF TokenEndpoint, Grant, fileVars
<1>4. CASE Begin(c) \/ FastPath(c) \/ AcquireLock(c) \/ LoseReply(c) \/ Send(c) \/ Resend(c)
  BY <1>4 DEF Begin, FastPath, AcquireLock, LoseReply, Send, Resend, Goto, UseToken, fileVars
<1>5. CASE OpenFile(c) \/ SetMode(c) \/ IoError(c)
  BY <1>5 DEF OpenFile, Truncated, SetMode, IoError, Fail, Goto, fileVars
<1> QED BY <1>1, <1>2, <1>3, <1>4, <1>5

(* The rename replaces the durable token: its holder has the lock, so nobody *)
(* else is between a rename and Install.                                     *)
LEMMA RenamingReplaces ==
  ASSUME Inv, Durable, Settled, NEW c \in Calls, RenameFile(c)
  PROVE  Settled' /\ CellStep
<1>0. /\ call[c] \in Call /\ call[c].pc = "rename" /\ lock = c /\ UNCHANGED mem
      /\ Ready(call[c], mem.token, tmp, disk)
  BY DEF Inv, InFlight, OneRefresher, Refreshing, Persisting, Durable, RenameFile
<1>1. tmp = Whole(call[c].next) /\ NotOlder(call[c].next, mem.token)
  BY <1>0 DEF Ready, Granted, Persisting
<1>2. disk' = Whole(call[c].next) /\ Goto(c, "install")
  BY <1>1 DEF RenameFile, Renamed, Whole
<1>3. \A d \in Calls : call[d].pc # "install"
  BY <1>0 DEF Inv, InFlight, OneRefresher, Refreshing, Persisting
<1>4. disk.token = mem.token BY <1>3 DEF Settled
<1>5. disk'.token = call[c].next BY <1>2 DEF Whole
<1>6. Cell!Replace BY <1>0, <1>1, <1>4, <1>5 DEF Cell!Replace, Cell!NotOlder, NotOlder
<1>7. call'[c].pc = "install" BY <1>0, <1>2 DEF Goto, Become, Inv, InFlight, Call
<1> QED BY <1>6, <1>7 DEF Settled, CellStep, Cell!Next

LEMMA CellSteps == Inv /\ Durable /\ Settled /\ [Moves]_stateVars => Settled' /\ CellStep
<1> SUFFICES ASSUME Inv, Durable, Settled, [Moves]_stateVars PROVE Settled' /\ CellStep OBVIOUS
<1>1. ASSUME NEW c \in Calls, Begin(c) \/ Step(c) PROVE Settled' /\ CellStep
  <2>1. CASE RenameFile(c) BY <2>1, RenamingReplaces
  <2>2. CASE Install(c)
    <3>1. disk = Whole(call[c].next) /\ mem' = Loaded(call[c].next) /\ UNCHANGED disk
      BY <2>2 DEF Install, Durable, Ready, fileVars
    <3>2. mem'.token = disk.token BY <3>1 DEF Whole, Loaded
    <3> QED BY <3>1, <3>2 DEF Settled, CellStep, Cell!Next, Cell!Adopt
  <2>3. CASE ~RenameFile(c) /\ ~Install(c)
    BY <1>1, <2>3, StutteringSteps, StutteringKeepsSettled DEF Step, Refresh
  <2> QED BY <2>1, <2>2, <2>3
<1>2. ~(\E c \in Calls : Cancel(c)) /\ ~BackgroundIo
  BY DEF Durable, Cancel, BackgroundIo
<1>3. CASE Restart
  <2>1. mem'.token = disk.token /\ UNCHANGED disk BY <1>3 DEF Restart, Durable, Loaded
  <2> QED BY <2>1 DEF Settled, CellStep, Cell!Next, Cell!Adopt
<1>4. CASE UNCHANGED <<call, mem, disk>> BY <1>4 DEF Settled, CellStep
<1>5. Revoke \/ Tick \/ UNCHANGED stateVars => UNCHANGED <<call, mem, disk>>
  BY DEF Revoke, Tick, stateVars, fileVars
<1> QED BY <1>1, <1>2, <1>3, <1>4, <1>5 DEF Moves

(* What ADR-0004 promises of persist_atomic and load_token_states, for every *)
(* number of calls: a fetched token is durable before anybody uses it, no    *)
(* second one becomes durable in between, and neither a failed write, a lost *)
(* answer nor a restart brings an older one back.                            *)
THEOREM TokenManagerIsACell == ~Cancels /\ Spec => CellSpec
<1>1. ~Cancels /\ Init => Cell!Init /\ Settled /\ Durable
  <2> SUFFICES ASSUME ~Cancels, Init PROVE Cell!Init /\ Settled /\ Durable OBVIOUS
  <2>1. mem.token = Start /\ disk.token = Start BY DEF Init, Loaded, Whole
  <2>2. Durable BY DurableInitially
  <2> QED BY <2>1, <2>2 DEF Cell!Init, Settled
<1>2. CellStep => [Cell!Next]_<<mem.token, disk.token>> BY DEF CellStep
<1> QED BY <1>1, <1>2, CellSteps, DurableIsInductive, InvAlways, Underneath, PTL
       DEF Spec, CellSpec, Cell!Spec

-----------------------------------------------------------------------------
(* Rotation, as long as nothing fails.                                       *)

(* A call that has a grant holds Google's refresh token, its file is there   *)
(* for the rename, and nobody was refused.  e: the temporary file exists;    *)
(* rt: the refresh token Google accepts.                                     *)
Sound(r, e, rt) ==
  /\ r.reply # "invalid_grant"
  /\ r.pc \in {"fill", "chmod", "rename"} => e
  /\ r.pc = "fill" => r.to = "tmp"
  /\ Granted(r) => r.next.rt = rt

(* Google's refresh token is in memory or on its way there.                  *)
Trusted == (\E c \in Calls : Granted(call[c])) \/ mem.token.rt = google.rt

Unharmed ==
  /\ faults \in Nat
  /\ faults = 0 => /\ orphans = {} /\ Trusted
                   /\ \A c \in Calls : Sound(call[c], tmp.exists, google.rt)

(* A step of one call; only the holder of the lock touches the temporary     *)
(* file, Google's refresh token or the one in memory.                        *)
LEMMA MovingKeepsUnharmed ==
  ASSUME Inv, Unharmed, faults = 0, UNCHANGED <<faults, orphans>>,
         NEW c \in Calls, NEW r, Become(c, r),
         Sound(r, tmp'.exists, google'.rt),
         \/ Granted(r) \/ mem'.token.rt = google'.rt
         \/ ~Granted(call[c]) /\ mem'.token = mem.token /\ google'.rt = google.rt,
         (tmp'.exists = tmp.exists /\ google'.rt = google.rt) \/ lock = c
  PROVE  Unharmed'
<1>1. call \in [Calls -> Call] /\ call' = [call EXCEPT ![c] = r] BY DEF Inv, InFlight, Become
<1>2. ASSUME NEW d \in Calls PROVE Sound(call'[d], tmp'.exists, google'.rt)
  <2>1. CASE d = c BY <1>1, <2>1
  <2>2. CASE d # c
    <3>1. call'[d] = call[d] /\ Sound(call[d], tmp.exists, google.rt) BY <1>1, <2>2 DEF Unharmed
    <3>2. lock = c => call[d].pc \notin Refreshing
      BY <2>2 DEF Inv, InFlight, OneRefresher
    <3> QED BY <3>1, <3>2 DEF Sound, Granted, Refreshing, Persisting
  <2> QED BY <2>1, <2>2
<1>3. (\A d \in Calls : Sound(call[d], tmp.exists, google.rt))' BY <1>2
<1>4. Trusted'
  <2>1. CASE Granted(r) BY <1>1, <2>1 DEF Trusted
  <2>2. CASE mem'.token.rt = google'.rt BY <2>2 DEF Trusted
  <2>3. CASE ~Granted(call[c]) /\ mem'.token = mem.token /\ google'.rt = google.rt
    <3>1. CASE mem.token.rt = google.rt BY <2>3, <3>1 DEF Trusted
    <3>2. CASE \E d \in Calls : Granted(call[d])
      <4>1. PICK d \in Calls : Granted(call[d]) BY <3>2
      <4>2. call'[d] = call[d] BY <1>1, <2>3, <4>1
      <4> QED BY <4>1, <4>2 DEF Trusted
    <3> QED BY <3>1, <3>2 DEF Unharmed, Trusted
  <2> QED BY <2>1, <2>2, <2>3
<1> QED BY <1>3, <1>4 DEF Unharmed

(* A call outside a refresh has no reply left over that was a refusal.       *)
LEMMA AskingKeepsUnharmed ==
  ASSUME Inv, Unharmed, faults = 0, NEW c \in Calls,
         Begin(c) \/ FastPath(c) \/ AcquireLock(c) \/ Send(c) \/ Resend(c)
  PROVE  Unharmed'
<1>0. /\ call[c] \in Call /\ call[c].pc \in {"idle", "fast", "lock", "send", "resend"}
      /\ Sound(call[c], tmp.exists, google.rt)
      /\ UNCHANGED <<google, mem, fileVars, faults>>
  BY DEF Inv, InFlight, Unharmed, Begin, FastPath, AcquireLock, Send, Resend
<1>1. \E r : Become(c, r) /\ r.reply \in {call[c].reply, "none"}
             /\ r.pc \in {"idle", "fast", "lock", "post", "send", "resend"}
  <2>1. PICK r : /\ Become(c, r)
                 /\ \/ r = Idle
                    \/ r = [Idle EXCEPT !.pc = "fast"]
                    \/ \E pc \in {"lock", "post"} : r = [call[c] EXCEPT !.pc = pc]
                    \/ \E pc \in {"send", "resend"} :
                         r = [call[c] EXCEPT !.pc = pc, !.token = mem.token.at]
                    \/ r = [call[c] EXCEPT !.pc = "lock", !.force = TRUE, !.refused = call[c].token]
    BY DEF Begin, FastPath, AcquireLock, Send, Resend, Goto, UseToken
  <2> DEFINE Outside ==
        r.reply \in {call[c].reply, "none"} /\ r.pc \in {"idle", "fast", "lock", "post", "send", "resend"}
  <2>2. ASSUME r = Idle \/ r = [Idle EXCEPT !.pc = "fast"] PROVE Outside BY <2>2 DEF Idle
  <2>3. ASSUME NEW pc \in {"lock", "post"}, r = [call[c] EXCEPT !.pc = pc] PROVE Outside
    BY <1>0, <2>3 DEF Call
  <2>4. ASSUME NEW pc \in {"send", "resend"}, r = [call[c] EXCEPT !.pc = pc, !.token = mem.token.at]
        PROVE  Outside
    BY <1>0, <2>4 DEF Call
  <2>5. ASSUME r = [call[c] EXCEPT !.pc = "lock", !.force = TRUE, !.refused = call[c].token]
        PROVE  Outside
    BY <1>0, <2>5 DEF Call
  <2>6. Outside
    <3> HIDE DEF Outside
    <3> QED BY <2>1, <2>2, <2>3, <2>4, <2>5
  <2> QED BY <2>1, <2>6
<1>2. PICK r : Become(c, r) /\ r.reply \in {call[c].reply, "none"}
             /\ r.pc \in {"idle", "fast", "lock", "post", "send", "resend"}
  BY <1>1
<1>3. Sound(r, tmp.exists, google.rt) /\ ~Granted(call[c])
  BY <1>0, <1>2 DEF Sound, Granted, Persisting
<1> QED BY <1>0, <1>2, <1>3, MovingKeepsUnharmed DEF fileVars

(* Google refuses nobody: who asks holds the lock, so nobody else has a      *)
(* grant, and what is in memory is the refresh token Google accepts.         *)
LEMMA AnsweringKeepsUnharmed ==
  ASSUME Inv, Unharmed, faults = 0, faults' = 0, NEW c \in Calls, TokenEndpoint(c) \/ LoseReply(c)
  PROVE  Unharmed'
<1>0. TokenEndpoint(c) BY DEF LoseReply, Fault
<1>1. /\ call[c] \in Call /\ call[c].pc = "post" /\ lock = c
      /\ Sound(call[c], tmp.exists, google.rt) /\ UNCHANGED <<mem, fileVars>>
  BY <1>0 DEF Inv, InFlight, OneRefresher, Refreshing, Unharmed, TokenEndpoint
<1>2. \A d \in Calls : ~Granted(call[d])
  BY <1>1 DEF Inv, InFlight, OneRefresher, Refreshing, Granted, Persisting
<1>3. mem.token.rt = google.rt BY <1>2 DEF Unharmed, Trusted
<1>4. ASSUME NEW rt \in {google.rt, google.rt + 1}, NEW life \in Lifetimes, Grant(c, rt, life)
      PROVE  Unharmed'
  <2> DEFINE t == [at |-> google.issued + 1, rt |-> rt, expires |-> life]
  <2> DEFINE r == [call[c] EXCEPT !.pc = "reply", !.reply = "granted", !.next = t]
  <2>1. Become(c, r) /\ google'.rt = rt BY <1>4 DEF Grant
  <2>2. r.pc = "reply" /\ r.reply = "granted" /\ r.next.rt = rt BY <1>1 DEF Call
  <2>3. Sound(r, tmp'.exists, google'.rt) /\ Granted(r) BY <2>1, <2>2 DEF Sound, Granted
  <2> HIDE DEF r
  <2> QED BY <1>1, <2>1, <2>3, MovingKeepsUnharmed DEF fileVars
<1>5. CASE Become(c, [call[c] EXCEPT !.pc = "reply", !.reply = "failed"]) /\ UNCHANGED google
  <2> DEFINE r == [call[c] EXCEPT !.pc = "reply", !.reply = "failed"]
  <2>1. r.pc = "reply" /\ r.reply = "failed" BY <1>1 DEF Call
  <2>2. Sound(r, tmp'.exists, google'.rt) BY <2>1 DEF Sound, Granted, Persisting
  <2>3. Become(c, r) BY <1>5
  <2> HIDE DEF r
  <2> QED BY <1>1, <1>3, <1>5, <2>2, <2>3, MovingKeepsUnharmed DEF fileVars
<1> QED BY <1>0, <1>3, <1>4, <1>5 DEF TokenEndpoint

LEMMA ReadingKeepsUnharmed ==
  ASSUME Inv, Unharmed, faults = 0, NEW c \in Calls, HandleReply(c)
  PROVE  Unharmed'
<1>0. /\ call[c] \in Call /\ call[c].pc = "reply" /\ UNCHANGED <<google, fileVars, faults>>
      /\ Sound(call[c], tmp.exists, google.rt) /\ call[c].reply # "none"
  BY DEF Inv, InFlight, Unharmed, HandleReply, Good
<1>1. CASE call[c].reply = "granted"
  <2> DEFINE r == [call[c] EXCEPT !.pc = "open", !.next.expires = now + @]
  <2>1. Become(c, r) /\ UNCHANGED mem BY <1>1 DEF HandleReply
  <2>2. r.pc = "open" /\ r.next.rt = call[c].next.rt /\ r.reply = "granted"
    BY <1>0, <1>1 DEF Call, Token
  <2>3. Granted(call[c]) BY <1>0, <1>1 DEF Granted
  <2>4. Sound(r, tmp.exists, google.rt) /\ Granted(r)
    BY <1>0, <2>2, <2>3 DEF Sound, Granted, Persisting
  <2> HIDE DEF r
  <2> QED BY <1>0, <2>1, <2>4, MovingKeepsUnharmed DEF fileVars
<1>2. CASE call[c].reply = "failed"
  <2>1. /\ Become(c, Idle)
        /\ \E f, u : mem' = [mem EXCEPT !.failures = f, !.until = u]
    BY <1>2 DEF HandleReply, Fail
  <2>2. mem'.token = mem.token BY <2>1 DEF Inv, World, IsState
  <2>3. Sound(Idle, tmp.exists, google.rt) BY DEF Sound, Idle, Granted, Persisting
  <2>4. ~Granted(call[c]) BY <1>0, <1>2 DEF Granted, Persisting
  <2> QED BY <1>0, <2>1, <2>2, <2>3, <2>4, MovingKeepsUnharmed DEF fileVars
<1>3. call[c].reply \in {"granted", "failed"} BY <1>0 DEF Call, Sound
<1> QED BY <1>1, <1>2, <1>3

(* The file is there when its mode is set and when it gets its name, so the  *)
(* grant reaches memory.                                                     *)
LEMMA PersistingKeepsUnharmed ==
  ASSUME Inv, Unharmed, faults = 0, faults' = 0, NEW c \in Calls,
         OpenFile(c) \/ FillFile(c) \/ SetMode(c) \/ RenameFile(c) \/ IoError(c) \/ Install(c)
  PROVE  Unharmed'
<1>0. /\ call[c] \in Call /\ call[c].pc \in Persisting /\ lock = c
      /\ Sound(call[c], tmp.exists, google.rt) /\ Granted(call[c])
      /\ orphans = {} /\ UNCHANGED <<google, faults>> /\ ~IoError(c)
  BY DEF Inv, InFlight, OneRefresher, Refreshing, Persisting, Unharmed, Granted, Fault,
         OpenFile, FillFile, SetMode, RenameFile, IoError, Install
<1>1. ASSUME NEW pc \in Persisting, NEW to, Become(c, [call[c] EXCEPT !.pc = pc, !.to = to]),
             pc \in {"fill", "chmod", "rename"} => tmp'.exists, pc = "fill" => to = "tmp",
             orphans' = {}
      PROVE  Unharmed'
  <2> DEFINE r == [call[c] EXCEPT !.pc = pc, !.to = to]
  <2>1. r.pc = pc /\ r.to = to /\ r.next = call[c].next /\ r.reply = call[c].reply BY <1>0 DEF Call
  <2>2. Sound(r, tmp'.exists, google'.rt) /\ Granted(r) BY <1>0, <1>1, <2>1 DEF Sound, Granted
  <2>3. Become(c, r) BY <1>1
  <2> HIDE DEF r
  <2> QED BY <1>0, <1>1, <2>2, <2>3, MovingKeepsUnharmed
<1>2. ASSUME NEW pc \in Persisting \ {"fill"}, Goto(c, pc),
             pc \in {"chmod", "rename"} => tmp'.exists, orphans' = {}
      PROVE  Unharmed'
  <2>1. Become(c, [call[c] EXCEPT !.pc = pc, !.to = call[c].to])
    BY <1>0, <1>2 DEF Goto, Become, Call
  <2> QED BY <1>1, <1>2, <2>1
<1>3. CASE OpenFile(c)
  BY <1>0, <1>1, <1>3 DEF OpenFile, Truncated, Torn, Persisting
<1>4. CASE FillFile(c)
  <2>1. tmp'.exists
    <3>1. call[c].to = "tmp" BY <1>0, <1>4 DEF FillFile, Sound
    <3> QED BY <1>4, <3>1 DEF FillFile, Filled, Over, Whole, Torn
  <2> QED BY <1>0, <1>2, <1>4, <2>1 DEF FillFile, Persisting
<1>5. CASE SetMode(c)
  <2>1. tmp.exists BY <1>0, <1>5 DEF SetMode, Sound
  <2> QED BY <1>0, <1>2, <1>5, <2>1 DEF SetMode, Persisting, fileVars
<1>6. CASE RenameFile(c)
  <2>1. tmp.exists BY <1>0, <1>6 DEF RenameFile, Sound
  <2>2. orphans' = {} /\ Goto(c, "install") BY <1>0, <1>6, <2>1 DEF RenameFile, Carried
  <2> QED BY <1>2, <2>2 DEF Persisting
<1>7. CASE Install(c)
  <2> DEFINE r == [call[c] EXCEPT !.pc = IF call[c].force THEN "resend" ELSE "send",
                                  !.token = call[c].next.at]
  <2>1. Become(c, r) /\ mem' = Loaded(call[c].next) /\ UNCHANGED fileVars
    BY <1>7 DEF Install
  <2>2. r.pc \in {"send", "resend"} /\ r.reply = call[c].reply BY <1>0 DEF Call
  <2>3. Sound(r, tmp.exists, google.rt) BY <1>0, <2>2 DEF Sound, Granted, Persisting
  <2>4. mem'.token.rt = google.rt BY <1>0, <2>1 DEF Loaded, Sound
  <2> HIDE DEF r
  <2> QED BY <1>0, <2>1, <2>3, <2>4, MovingKeepsUnharmed DEF fileVars
<1> QED BY <1>0, <1>3, <1>4, <1>5, <1>6, <1>7

LEMMA UnharmedIsInductive == Inv /\ Unharmed /\ [Moves]_stateVars => Unharmed'
<1> SUFFICES ASSUME Inv, Unharmed, [Moves]_stateVars PROVE Unharmed' OBVIOUS
<1>1. faults' \in Nat /\ (faults' = 0 => faults = 0) /\ (Fault => faults' # 0)
  <2>1. faults' = faults \/ Fault
    BY DEF Moves, stateVars, Begin, Step, Refresh, FastPath, AcquireLock, TokenEndpoint, LoseReply,
       HandleReply, OpenFile, FillFile, SetMode, RenameFile, IoError, Install, Send, Resend,
       Cancel, BackgroundIo, Restart, Revoke, Tick
  <2>2. Fault => faults' = faults + 1 BY DEF Fault
  <2>3. faults \in Nat BY DEF Unharmed
  <2> QED BY <2>1, <2>2, <2>3
<1>2. CASE faults' # 0 BY <1>1, <1>2 DEF Unharmed
<1>3. CASE faults' = 0
  <2>0. faults = 0 /\ ~Fault /\ orphans = {} BY <1>1, <1>3 DEF Unharmed
  <2>1. ASSUME NEW c \in Calls, Begin(c) \/ Step(c) PROVE Unharmed'
    BY <1>3, <2>0, <2>1, AskingKeepsUnharmed, AnsweringKeepsUnharmed, ReadingKeepsUnharmed,
       PersistingKeepsUnharmed DEF Step, Refresh
  <2>2. CASE Tick BY <2>2 DEF Tick, Unharmed, Trusted, fileVars
  <2>3. CASE UNCHANGED stateVars BY <2>3 DEF stateVars, Unharmed, Trusted, fileVars
  <2>4. ~Restart /\ ~Revoke /\ ~BackgroundIo /\ \A c \in Calls : ~Cancel(c)
    BY <2>0 DEF Restart, Revoke, BackgroundIo, Cancel
  <2> QED BY <2>1, <2>2, <2>3, <2>4 DEF Moves
<1> QED BY <1>2, <1>3

LEMMA UnharmedInitially == Init => Unharmed
<1> SUFFICES ASSUME Init PROVE Unharmed OBVIOUS
<1>1. Sound(Idle, FALSE, 1) BY DEF Sound, Idle, Granted, Persisting
<1> QED BY <1>1 DEF Init, Unharmed, Trusted, Absent, Loaded, Start

(* However many calls race through refresh_locked, with however many         *)
(* rotations of the refresh token: while nothing fails, no refresh is ever   *)
(* answered with invalid_grant, because a grant always reaches memory before *)
(* the write lock is free for the next one.                                  *)
THEOREM RotationsLockNobodyOut == Spec => []NeverLockedOut
<1>1. Unharmed => NeverLockedOut
  <2> SUFFICES ASSUME Unharmed, NEW c \in Calls, call[c].reply = "invalid_grant" PROVE faults > 0
    BY DEF NeverLockedOut
  <2> QED BY DEF Unharmed, Sound
<1> QED BY <1>1, UnharmedInitially, UnharmedIsInductive, InvAlways, Underneath, PTL DEF Spec

-----------------------------------------------------------------------------
(* The queue for the lock.                                                   *)

(* What a call that finds the token about to expire and the count of them    *)
(* have to do with each other: the one that was counted is still at it, or   *)
(* the token it fetched is good.                                             *)
Counting ==
  /\ asked \in {0, 1}
  /\ \A c \in Calls : Renewing(c) => asked = 1 /\ IsNearExpiry
  /\ asked = 1 /\ (\A c \in Calls : ~Renewing(c)) => ~IsNearExpiry
  /\ \A c \in Calls : Granted(call[c]) => call[c].next.at > mem.token.at

(* The steps of a call by what they mean for its refresh.                    *)
Starts(c, r) ==
  /\ call[c].pc = "lock" /\ lock = Nobody /\ r.pc = "post" /\ r.force = call[c].force
  /\ mem' = mem /\ (r.force \/ IsNearExpiry)
GoesOn(c, r) ==
  /\ call[c].pc \in Refreshing /\ r.pc \in Refreshing /\ r.force = call[c].force
  /\ mem' = mem
  /\ Granted(r) => \/ r.next.at = google.issued + 1
                   \/ Granted(call[c]) /\ r.next.at = call[c].next.at
Elsewhere(c, r) == call[c].pc \notin Refreshing /\ r.pc \notin Refreshing /\ mem' = mem
Abandons(c, r) == call[c].pc \in Refreshing /\ r.pc = "idle" /\ mem'.token = mem.token
Finishes(c, r) ==
  /\ Granted(call[c]) /\ call[c].pc \in Refreshing /\ r.pc \in {"send", "resend"}
  /\ mem'.token = call[c].next

RefreshStep(c, r) ==
  Starts(c, r) \/ GoesOn(c, r) \/ Elsewhere(c, r) \/ Abandons(c, r) \/ Finishes(c, r)

LEMMA RefreshSteps ==
  ASSUME Inv, NEW c \in Calls, Begin(c) \/ Step(c) \/ Cancel(c)
  PROVE  now' = now /\ \E r : Become(c, r) /\ RefreshStep(c, r)
<1> USE DEF RefreshStep, Refreshing, Persisting
<1>0. /\ call \in [Calls -> Call] /\ call[c] \in Call /\ IsState(mem)
      /\ Idle.pc = "idle" /\ (call[c].pc = "reply" => call[c].reply # "none")
  BY DEF Inv, World, InFlight, Idle, Good
<1>1. ASSUME UNCHANGED mem, now' = now, Become(c, Idle) PROVE \E r : Become(c, r) /\ RefreshStep(c, r)
  BY <1>0, <1>1 DEF Elsewhere, Abandons
<1>2. ASSUME UNCHANGED mem, NEW r, Become(c, r), call[c].pc \notin Refreshing, r.pc \notin Refreshing
      PROVE  \E q : Become(c, q) /\ RefreshStep(c, q)
  BY <1>2 DEF Elsewhere
<1>3. ASSUME UseToken(c), UNCHANGED mem, call[c].pc \notin Refreshing
      PROVE  \E r : Become(c, r) /\ RefreshStep(c, r)
  <2> DEFINE r == [call[c] EXCEPT !.pc = IF call[c].force THEN "resend" ELSE "send",
                                  !.token = mem.token.at]
  <2>1. r.pc \in {"send", "resend"} BY <1>0 DEF Call
  <2> QED BY <1>2, <1>3, <2>1 DEF UseToken
<1>4. CASE Begin(c) \/ FastPath(c) \/ Send(c) \/ Resend(c)
  <2>1. CASE Begin(c) BY <1>0, <1>2, <2>1 DEF Begin, Idle
  <2>2. CASE FastPath(c)
    <3>1. CASE Goto(c, "lock") BY <1>0, <1>2, <2>2, <3>1 DEF FastPath, Goto, Call
    <3> QED BY <1>1, <1>3, <2>2, <3>1 DEF FastPath
  <2>3. CASE Send(c)
    <3>1. CASE Become(c, Idle) BY <1>1, <2>3, <3>1 DEF Send
    <3>2. CASE Become(c, [call[c] EXCEPT !.pc = "lock", !.force = TRUE, !.refused = call[c].token])
      BY <1>0, <1>2, <2>3, <3>2 DEF Send, Call
    <3> QED BY <2>3, <3>1, <3>2 DEF Send
  <2>4. CASE Resend(c) BY <1>1, <2>4 DEF Resend
  <2> QED BY <1>4, <2>1, <2>2, <2>3, <2>4 DEF Begin, FastPath, Send, Resend
<1>5. CASE AcquireLock(c)
  <2>1. CASE Goto(c, "post") /\ (call[c].force \/ IsNearExpiry)
    BY <1>0, <1>5, <2>1 DEF AcquireLock, Goto, Call, Starts
  <2> QED BY <1>1, <1>3, <1>5, <2>1 DEF AcquireLock
<1>6. CASE TokenEndpoint(c)
  <2>1. UNCHANGED <<now, mem>> /\ call[c].pc = "post" BY <1>6 DEF TokenEndpoint
  <2>2. ASSUME NEW rt, NEW life, Grant(c, rt, life)
        PROVE  \E r : Become(c, r) /\ GoesOn(c, r)
    <3> DEFINE t == [at |-> google.issued + 1, rt |-> rt, expires |-> life]
               r == [call[c] EXCEPT !.pc = "reply", !.reply = "granted", !.next = t]
    <3>1. r.pc = "reply" /\ r.force = call[c].force /\ r.next = t BY <1>0 DEF Call
    <3>2. GoesOn(c, r) BY <2>1, <3>1 DEF GoesOn
    <3> QED BY <2>2, <3>2 DEF Grant
  <2>3. ASSUME NEW a \in {"invalid_grant", "failed"},
               Become(c, [call[c] EXCEPT !.pc = "reply", !.reply = a])
        PROVE  \E r : Become(c, r) /\ GoesOn(c, r)
    <3> DEFINE r == [call[c] EXCEPT !.pc = "reply", !.reply = a]
    <3>1. r.pc = "reply" /\ r.force = call[c].force /\ r.reply = a BY <1>0 DEF Call
    <3>2. GoesOn(c, r) BY <2>1, <3>1 DEF GoesOn, Granted
    <3> QED BY <2>3, <3>2
  <2> QED BY <1>6, <2>1, <2>2, <2>3 DEF TokenEndpoint
<1>7. CASE LoseReply(c)
  BY <1>0, <1>7 DEF LoseReply, GoesOn, Granted, Call
<1>8. CASE HandleReply(c)
  <2>1. call[c].reply \in {"granted", "invalid_grant", "failed"} /\ call[c].pc = "reply" /\ now' = now
    BY <1>0, <1>8 DEF HandleReply, Call
  <2>2. CASE call[c].reply = "granted"
    <3> DEFINE r == [call[c] EXCEPT !.pc = "open", !.next.expires = now + @]
    <3>1. r.pc = "open" /\ r.force = call[c].force /\ r.next.at = call[c].next.at
      BY <1>0 DEF Call, Token
    <3>2. GoesOn(c, r) BY <1>8, <2>1, <2>2, <3>1 DEF HandleReply, GoesOn, Granted
    <3> QED BY <1>8, <2>2, <3>2 DEF HandleReply
  <2>3. CASE call[c].reply # "granted"
    <3>1. Become(c, Idle) BY <1>8, <2>1, <2>3 DEF HandleReply, Fail
    <3>2. mem'.token = mem.token BY <1>0, <1>8, <2>1, <2>3 DEF HandleReply, IsState
    <3> QED BY <1>0, <2>1, <3>1, <3>2 DEF Abandons
  <2> QED BY <2>2, <2>3, <2>1
<1>9. CASE OpenFile(c) \/ FillFile(c) \/ SetMode(c) \/ RenameFile(c) \/ IoError(c)
  <2>1. UNCHANGED <<now, mem>> BY <1>9 DEF OpenFile, FillFile, SetMode, RenameFile, IoError
  <2>2. ASSUME NEW pc \in {"chmod", "rename", "install"}, Goto(c, pc),
               call[c].pc \in Persisting
        PROVE  \E r : Become(c, r) /\ GoesOn(c, r)
    BY <1>0, <2>1, <2>2 DEF Goto, GoesOn, Granted, Call
  <2>3. CASE OpenFile(c)
    <3> DEFINE r == [call[c] EXCEPT !.pc = "fill", !.to = "tmp"]
    <3>1. r.pc = "fill" /\ r.force = call[c].force /\ r.next = call[c].next BY <1>0 DEF Call
    <3>2. GoesOn(c, r) BY <2>1, <2>3, <3>1 DEF OpenFile, GoesOn, Granted
    <3> QED BY <2>3, <3>2 DEF OpenFile
  <2>4. CASE Become(c, Idle) BY <1>1, <2>1, <2>4
  <2> QED BY <1>9, <2>1, <2>2, <2>3, <2>4 DEF FillFile, SetMode, RenameFile, IoError, Fail
<1>10. CASE Install(c)
  <2> DEFINE r == [call[c] EXCEPT !.pc = IF call[c].force THEN "resend" ELSE "send",
                                  !.token = call[c].next.at]
  <2>1. r.pc \in {"send", "resend"} BY <1>0 DEF Call
  <2>2. mem'.token = call[c].next BY <1>10 DEF Install, Loaded
  <2> QED BY <1>10, <2>1, <2>2 DEF Install, Finishes, Granted
<1>11. CASE Cancel(c) BY <1>1, <1>11 DEF Cancel
<1> QED BY <1>4, <1>5, <1>6, <1>7, <1>8, <1>9, <1>10, <1>11 DEF Step, Refresh

LEMMA CallsKeepCounting ==
  ASSUME Inv, Counting, Counted, NEW c \in Calls, Begin(c) \/ Step(c) \/ Cancel(c)
  PROVE  Counting'
<1>1. PICK r : Become(c, r) /\ RefreshStep(c, r) BY RefreshSteps
<1>2. now' = now BY RefreshSteps
<1>3. /\ call \in [Calls -> Call] /\ call'[c] = r
      /\ \A d \in Calls : d # c => call'[d] = call[d]
  BY <1>1 DEF Inv, InFlight, Become
<1>4. \A d \in Calls : Renewing(d) \/ Granted(call[d]) => lock = d
  BY DEF Inv, InFlight, OneRefresher, Renewing, Granted, Refreshing
<1>5. \A d \in Calls : d # c => (Renewing(d)' <=> Renewing(d)) BY <1>3 DEF Renewing
<1>6. /\ google.issued \in Nat /\ mem.token.at \in Nat /\ mem.token.at <= google.issued
      /\ Nobody \notin Calls
  BY TokenAssumption DEF Inv, World, Token
<1>7. CASE Starts(c, r)
  <2>1. \A d \in Calls : ~Renewing(d) /\ ~Granted(call[d]) BY <1>4, <1>6, <1>7 DEF Starts
  <2>2. ~Lapses BY <1>2, <1>7 DEF Starts, Lapses, IsNearExpiry
  <2>3. IsNearExpiry' <=> IsNearExpiry BY <1>2, <1>7 DEF Starts, IsNearExpiry
  <2>4. ~Granted(call'[c]) BY <1>3, <1>7 DEF Starts, Granted, Persisting
  <2>5. ~GivesUp BY <2>1 DEF GivesUp
  <2>6. Asks <=> ~r.force
    BY <1>3, <1>5, <1>7, <2>1 DEF Asks, Renewing, Starts, Refreshing
  <2>7. CASE r.force
    <3>1. asked' = asked BY <2>2, <2>5, <2>6, <2>7 DEF Counted
    <3>2. \A d \in Calls : ~Renewing(d)' BY <1>3, <1>5, <2>1, <2>7 DEF Renewing
    <3>3. \A d \in Calls : ~Granted(call'[d]) BY <1>3, <2>1, <2>4
    <3> QED BY <2>1, <2>3, <3>1, <3>2, <3>3 DEF Counting
  <2>8. CASE ~r.force
    <3>1. IsNearExpiry /\ asked = 0 BY <1>7, <2>1, <2>8 DEF Starts, Counting
    <3>2. asked' = 1 BY <2>2, <2>6, <2>8, <3>1 DEF Counted
    <3>3. Renewing(c)' BY <1>3, <1>7, <2>8 DEF Renewing, Starts, Refreshing
    <3>4. \A d \in Calls : ~Granted(call'[d]) BY <1>3, <2>1, <2>4
    <3> QED BY <2>3, <3>1, <3>2, <3>3, <3>4 DEF Counting
  <2> QED BY <2>7, <2>8
<1>8. ~Starts(c, r) => ~Asks
  <2> SUFFICES ASSUME ~Starts(c, r), NEW d \in Calls, call[d].pc = "lock", Renewing(d)' PROVE FALSE
    BY DEF Asks
  <2>1. d = c BY <1>5 DEF Renewing, Refreshing, Persisting
  <2> QED BY <1>1, <1>3, <2>1 DEF RefreshStep, GoesOn, Elsewhere, Abandons, Finishes, Granted,
       Renewing, Refreshing, Persisting
<1>9. CASE GoesOn(c, r)
  <2>1. Renewing(c)' <=> Renewing(c) BY <1>3, <1>9 DEF GoesOn, Renewing
  <2>2. \A d \in Calls : Renewing(d)' <=> Renewing(d) BY <1>5, <2>1
  <2>3. ~GivesUp
    BY <1>3, <1>9, <2>2 DEF GivesUp, Renewing, GoesOn, Refreshing, Persisting
  <2>4. ~Lapses /\ (IsNearExpiry' <=> IsNearExpiry)
    BY <1>2, <1>9 DEF GoesOn, Lapses, IsNearExpiry
  <2>5. ~Asks BY <1>8, <1>9 DEF GoesOn, Starts, Refreshing, Persisting
  <2>6. asked' = asked BY <2>3, <2>4, <2>5 DEF Counted
  <2>7. \A d \in Calls : Granted(call'[d]) => call'[d].next.at > mem'.token.at
    BY <1>3, <1>6, <1>9 DEF GoesOn, Counting
  <2> QED BY <2>2, <2>4, <2>6, <2>7 DEF Counting
<1>10. CASE Elsewhere(c, r)
  <2>1. \A d \in Calls : Renewing(d)' <=> Renewing(d)
    BY <1>3, <1>5, <1>10 DEF Elsewhere, Renewing
  <2>2. ~GivesUp
    BY <1>3, <1>10, <2>1 DEF GivesUp, Renewing, Elsewhere, Refreshing, Persisting
  <2>3. ~Lapses /\ (IsNearExpiry' <=> IsNearExpiry)
    BY <1>2, <1>10 DEF Elsewhere, Lapses, IsNearExpiry
  <2>4. ~Asks BY <1>8, <1>10 DEF Elsewhere, Starts, Refreshing, Persisting
  <2>5. asked' = asked BY <2>2, <2>3, <2>4 DEF Counted
  <2>6. \A d \in Calls : Granted(call'[d]) => call'[d].next.at > mem'.token.at
    BY <1>3, <1>10 DEF Elsewhere, Counting, Granted, Refreshing
  <2> QED BY <2>1, <2>3, <2>5, <2>6 DEF Counting
<1>11. CASE Abandons(c, r)
  <2>1. ~Renewing(c)' /\ ~Granted(call'[c])
    BY <1>3, <1>11 DEF Abandons, Renewing, Granted, Refreshing, Persisting
  <2>2. ~Lapses /\ (IsNearExpiry' <=> IsNearExpiry)
    BY <1>2, <1>11 DEF Abandons, Lapses, IsNearExpiry
  <2>3. ~Asks
    BY <1>8, <1>11 DEF Abandons, Starts, Refreshing, Persisting
  <2>4. \A d \in Calls : d # c => ~Renewing(d)
    BY <1>11 DEF Abandons, Inv, InFlight, OneRefresher, Renewing
  <2>5. \A d \in Calls : Granted(call'[d]) => call'[d].next.at > mem'.token.at
    BY <1>3, <1>11, <2>1 DEF Abandons, Counting
  <2>6. CASE Renewing(c)
    <3>1. GivesUp BY <1>3, <1>11, <2>6 DEF Abandons, GivesUp
    <3>2. asked = 1 /\ asked' = asked - 1 BY <2>2, <2>3, <2>6, <3>1 DEF Counted, Counting
    <3> QED BY <1>5, <2>1, <2>4, <2>5, <3>2 DEF Counting
  <2>7. CASE ~Renewing(c)
    <3>1. ~GivesUp BY <2>4, <2>7 DEF GivesUp
    <3>2. asked' = asked BY <2>2, <2>3, <3>1 DEF Counted
    <3> QED BY <1>5, <2>1, <2>2, <2>4, <2>5, <2>7, <3>2 DEF Counting
  <2> QED BY <2>6, <2>7
<1>12. CASE Finishes(c, r)
  <2>1. ~Renewing(c)' /\ ~Granted(call'[c])
    BY <1>3, <1>12 DEF Finishes, Renewing, Granted, Refreshing, Persisting
  <2>2. ~Asks
    BY <1>8, <1>12 DEF Finishes, Starts, Granted, Refreshing, Persisting
  <2>3. \A d \in Calls : d # c => ~Renewing(d) /\ ~Granted(call[d])
    BY <1>4, <1>12 DEF Finishes
  <2>4. \A d \in Calls : ~Renewing(d)' /\ ~Granted(call'[d]) BY <1>3, <1>5, <2>1, <2>3
  <2>5. ~GivesUp
    BY <1>3, <1>12, <2>3 DEF GivesUp, Finishes
  <2>6. mem'.token.at # mem.token.at
    <3>1. call[c].next.at > mem.token.at BY <1>12 DEF Finishes, Counting
    <3>2. call[c].next.at \in Nat BY <1>3 DEF Call, Token
    <3> QED BY <1>6, <1>12, <3>1, <3>2 DEF Finishes
  <2>7. asked' = IF IsNearExpiry' THEN 0 ELSE asked BY <2>2, <2>5, <2>6 DEF Counted, Lapses
  <2> QED BY <2>4, <2>7 DEF Counting
<1> QED BY <1>1, <1>7, <1>9, <1>10, <1>11, <1>12 DEF RefreshStep

LEMMA CountingIsInductive == Inv /\ Counting /\ [Next]_vars => Counting'
<1> SUFFICES ASSUME Inv, Counting, [Next]_vars PROVE Counting' OBVIOUS
<1>0. call \in [Calls -> Call] BY DEF Inv, InFlight
<1>1. CASE UNCHANGED vars
  BY <1>1 DEF vars, stateVars, Counting, Renewing, IsNearExpiry, Granted
<1>2. CASE Counted /\ (BackgroundIo \/ Revoke)
  <2>1. /\ UNCHANGED <<now, mem>>
        /\ \A c \in Calls : /\ call'[c].pc = call[c].pc /\ call'[c].force = call[c].force
                            /\ call'[c].reply = call[c].reply /\ call'[c].next = call[c].next
    <3>1. CASE UNCHANGED call BY <1>2, <3>1 DEF BackgroundIo, Revoke
    <3>2. CASE call' = [d \in Calls |-> IF call[d].pc = "fill"
                          THEN [call[d] EXCEPT !.to = Moved(@)] ELSE call[d]]
      BY <1>0, <1>2, <3>2 DEF BackgroundIo, Revoke, Call
    <3> QED BY <1>2, <3>1, <3>2 DEF BackgroundIo, RunOrphan, Revoke
  <2>2. \A c \in Calls : Renewing(c)' <=> Renewing(c) BY <2>1 DEF Renewing
  <2>3. ~Lapses /\ (IsNearExpiry' <=> IsNearExpiry) BY <2>1 DEF Lapses, IsNearExpiry
  <2>4. ~Asks /\ ~GivesUp
    BY <2>1, <2>2 DEF Asks, GivesUp, Renewing, Refreshing, Persisting
  <2>5. asked' = asked BY <1>2, <2>3, <2>4 DEF Counted
  <2>6. \A c \in Calls : Granted(call'[c]) <=> Granted(call[c]) BY <2>1 DEF Granted
  <2> QED BY <2>1, <2>2, <2>3, <2>5, <2>6 DEF Counting
<1>3. CASE Counted /\ Tick
  <2>1. UNCHANGED <<mem, call>> BY <1>3 DEF Tick
  <2>2. now \in Nat /\ now' = now + 1 BY <1>3 DEF Tick, Inv, World
  <2>3. IsNearExpiry => IsNearExpiry'
    BY <2>1, <2>2, TokenAssumption DEF IsNearExpiry, Inv, World, Token
  <2>4. \A c \in Calls : Renewing(c)' <=> Renewing(c) BY <2>1 DEF Renewing
  <2>5. ~Asks /\ ~GivesUp
    BY <2>1, <2>4 DEF Asks, GivesUp, Renewing, Refreshing, Persisting
  <2>6. CASE Lapses
    <3>1. ~IsNearExpiry BY <2>1, <2>6 DEF Lapses
    <3>2. asked' = 0 BY <1>3, <2>6 DEF Counted
    <3> QED BY <2>1, <2>4, <3>1, <3>2 DEF Counting
  <2>7. CASE ~Lapses
    <3>1. asked' = asked BY <1>3, <2>5, <2>7 DEF Counted
    <3>2. IsNearExpiry' <=> IsNearExpiry BY <2>3, <2>7 DEF Lapses
    <3> QED BY <2>1, <2>4, <3>1, <3>2 DEF Counting
  <2> QED BY <2>6, <2>7
<1>4. CASE Counted /\ Restart
  <2>1. call' = [c \in Calls |-> Idle] BY <1>4 DEF Restart
  <2>2. \A c \in Calls : ~Renewing(c)' /\ ~Granted(call'[c])
    BY <2>1 DEF Renewing, Granted, Idle, Refreshing, Persisting
  <2>3. ~Asks BY <2>2 DEF Asks
  <2>4. \A c \in Calls : call'[c].pc = "idle" BY <2>1 DEF Idle
  <2>5. GivesUp <=> \E c \in Calls : Renewing(c) BY <2>4 DEF GivesUp
  <2>6. CASE Lapses
    <3>1. asked' = 0 BY <1>4, <2>6 DEF Counted
    <3> QED BY <2>2, <3>1 DEF Counting
  <2>7. CASE ~Lapses /\ GivesUp
    <3>1. asked = 1 BY <2>5, <2>7 DEF Counting
    <3>2. asked' = 0 BY <1>4, <2>3, <2>7, <3>1 DEF Counted
    <3> QED BY <2>2, <3>2 DEF Counting
  <2>8. CASE ~Lapses /\ ~GivesUp
    <3>1. asked' = asked BY <1>4, <2>3, <2>8 DEF Counted
    <3>2. asked = 1 => ~IsNearExpiry BY <2>5, <2>8 DEF Counting
    <3>3. asked = 1 => ~IsNearExpiry' BY <2>8, <3>2 DEF Lapses
    <3> QED BY <2>2, <3>1, <3>3 DEF Counting
  <2> QED BY <2>6, <2>7, <2>8
<1>5. ASSUME Counted, NEW c \in Calls, Begin(c) \/ Step(c) \/ Cancel(c) PROVE Counting'
  BY <1>5, CallsKeepCounting
<1> QED BY <1>1, <1>2, <1>3, <1>4, <1>5 DEF Next, Moves

LEMMA CountingInitially == Init => Counting
<1> SUFFICES ASSUME Init PROVE Counting OBVIOUS
<1>1. \A c \in Calls : ~Renewing(c) /\ ~Granted(call[c])
  BY DEF Init, Renewing, Granted, Idle, Refreshing, Persisting
<1> QED BY <1>1 DEF Init, Counting

LEMMA CountingAlways == Spec => []Counting
BY CountingInitially, CountingIsInductive, InvAlways, PTL DEF Spec

(* Of all the calls that queue for the lock with the token about to expire,  *)
(* one asks Google: the double-check of refresh_locked sends the others to   *)
(* the token it fetched until that is about to expire, and only a request    *)
(* that came to nothing is asked again.                                      *)
THEOREM OneRenewalAtATime == Spec => []OneRenewal
<1>1. Counting => OneRenewal BY DEF Counting, OneRenewal
<1> QED BY <1>1, CountingAlways, PTL

-----------------------------------------------------------------------------
(* Types.                                                                    *)

(* CooldownSecs doubles once for every failure after the first.              *)
DoublesUpTo(g, n) == g = [k \in 0 .. n |-> IF k = 0 THEN 1 ELSE 2 * g[k - 1]]

LEMMA DoublingsExist ==
  ASSUME NEW m \in Nat
  PROVE  \E g : DoublesUpTo(g, m) /\ g[m] \in Nat \ {0}
<1> DEFINE T == {n \in Nat : \E g : DoublesUpTo(g, n) /\ g[n] \in Nat \ {0}}
<1>1. 0 \in T
  <2>1. DoublesUpTo([k \in 0 .. 0 |-> 1], 0) BY DEF DoublesUpTo
  <2> QED BY <2>1
<1>2. ASSUME NEW n \in Nat, n \in T PROVE n + 1 \in T
  <2>1. PICK g : DoublesUpTo(g, n) /\ g[n] \in Nat \ {0} BY <1>2
  <2> DEFINE h == [k \in 0 .. n + 1 |-> IF k = n + 1 THEN 2 * g[n] ELSE g[k]]
  <2>2. ASSUME NEW k \in 0 .. n + 1 PROVE h[k] = IF k = 0 THEN 1 ELSE 2 * h[k - 1]
    <3>1. CASE k = n + 1
      <4>1. h[k] = 2 * g[n] /\ h[k - 1] = g[n] BY <3>1
      <4> QED BY <3>1, <4>1
    <3>2. CASE k \in 0 .. n
      <4>1. h[k] = g[k] /\ (k # 0 => h[k - 1] = g[k - 1]) BY <3>2
      <4>2. g[k] = IF k = 0 THEN 1 ELSE 2 * g[k - 1] BY <2>1, <3>2 DEF DoublesUpTo
      <4> QED BY <4>1, <4>2
    <3> QED BY <3>1, <3>2
  <2>3. h = [k \in 0 .. n + 1 |-> h[k]] /\ h[n + 1] = 2 * g[n] OBVIOUS
  <2> HIDE DEF h
  <2>4. DoublesUpTo(h, n + 1) BY <2>2, <2>3 DEF DoublesUpTo
  <2>5. h[n + 1] \in Nat \ {0} BY <2>1, <2>3
  <2> QED BY <2>4, <2>5
<1> HIDE DEF T
<1>3. Nat \subseteq T BY <1>1, <1>2, SetInduction
<1> QED BY <1>3 DEF T

LEMMA DoublingsAgree ==
  ASSUME NEW m \in Nat, NEW g, NEW h, DoublesUpTo(g, m), DoublesUpTo(h, m)
  PROVE  g[m] = h[m]
<1> DEFINE T == {k \in 0 .. m : g[k] = h[k]}
<1>1. \A k \in 0 .. m : /\ g[k] = IF k = 0 THEN 1 ELSE 2 * g[k - 1]
                        /\ h[k] = IF k = 0 THEN 1 ELSE 2 * h[k - 1]
  BY DEF DoublesUpTo
<1>2. 0 \in T BY <1>1
<1>3. ASSUME NEW k \in 0 .. m - 1, k \in T PROVE k + 1 \in T
  <2>1. k + 1 \in 0 .. m /\ k + 1 # 0 /\ (k + 1) - 1 = k OBVIOUS
  <2>2. g[k + 1] = 2 * g[k] /\ h[k + 1] = 2 * h[k] BY <1>1, <2>1
  <2> QED BY <1>3, <2>1, <2>2
<1> HIDE DEF T
<1>4. 0 .. m \subseteq T BY <1>2, <1>3, BoundedInduction
<1> QED BY <1>4 DEF T

(* However many failures there were, a cooldown lasts a second at least and  *)
(* COOLDOWN_MAX_SECS at most.                                                *)
LEMMA CooldownsAreBounded == \A n \in Nat : CooldownSecs(n + 1) \in 1 .. CoolMax
<1> SUFFICES ASSUME NEW n \in Nat PROVE CooldownSecs(n + 1) \in 1 .. CoolMax OBVIOUS
<1> DEFINE d == CHOOSE g : DoublesUpTo(g, n)
<1>1. PICK g : DoublesUpTo(g, n) /\ g[n] \in Nat \ {0} BY DoublingsExist
<1>2. DoublesUpTo(d, n) BY <1>1
<1>3. d[n] \in Nat \ {0} BY <1>1, <1>2, DoublingsAgree
<1>4. (n + 1) - 1 = n OBVIOUS
<1>5. CooldownSecs(n + 1) = IF d[n] < CoolMax THEN d[n] ELSE CoolMax
  BY <1>4 DEF CooldownSecs, DoublesUpTo
<1> HIDE DEF d
<1>6. CoolMax \in Nat \ {0} BY TokenAssumption
<1> QED BY <1>3, <1>5, <1>6

(* What Inv does not say of the types.  A cooldown ends within CoolMax.      *)
Cooling ==
  /\ faults \in Nat
  /\ mem.loaded \in BOOLEAN /\ mem.failures \in Nat /\ mem.until \in Nat
  /\ mem.until <= now + CoolMax

LEMMA MemorySteps ==
  ASSUME Inv, [Moves]_stateVars
  PROVE  \/ UNCHANGED mem
         \/ mem' = NotLoaded \/ \E t : mem' = Loaded(t)
         \/ UNCHANGED now /\ mem' = [mem EXCEPT !.failures = 0, !.until = 0]
         \/ UNCHANGED now /\ mem' = [mem EXCEPT !.failures = @ + 1,
                                                !.until = now + CooldownSecs(mem.failures + 1)]
<1>1. ASSUME NEW c \in Calls, HandleReply(c) PROVE
         \/ UNCHANGED mem
         \/ UNCHANGED now /\ mem' = [mem EXCEPT !.failures = 0, !.until = 0]
         \/ UNCHANGED now /\ mem' = [mem EXCEPT !.failures = @ + 1,
                                                !.until = now + CooldownSecs(mem.failures + 1)]
  <2>1. call[c].reply \in {"granted", "invalid_grant", "failed"}
    BY <1>1 DEF Inv, InFlight, Call, Good, HandleReply
  <2> QED BY <1>1, <2>1 DEF HandleReply
<1>2. ASSUME NEW c \in Calls, Begin(c) \/ Cancel(c) \/ FastPath(c) \/ AcquireLock(c) \/ Send(c) \/ Resend(c)
      PROVE  UNCHANGED mem
  BY <1>2 DEF Begin, Cancel, FastPath, AcquireLock, Send, Resend
<1>3. ASSUME NEW c \in Calls, TokenEndpoint(c) \/ LoseReply(c) \/ OpenFile(c) \/ FillFile(c)
                              \/ SetMode(c) \/ RenameFile(c) \/ IoError(c)
      PROVE  UNCHANGED mem
  BY <1>3 DEF TokenEndpoint, LoseReply, OpenFile, FillFile, SetMode, RenameFile, IoError
<1>4. ASSUME NEW c \in Calls, Install(c) PROVE \E t : mem' = Loaded(t) BY <1>4 DEF Install
<1>5. CASE BackgroundIo \/ Revoke \/ Tick \/ UNCHANGED stateVars
  BY <1>5 DEF BackgroundIo, Revoke, Tick, stateVars
<1>6. CASE Restart BY <1>6 DEF Restart
<1> QED BY <1>1, <1>2, <1>3, <1>4, <1>5, <1>6 DEF Moves, Step, Refresh

LEMMA FaultsAreCounted == ASSUME faults \in Nat, [Moves]_stateVars PROVE faults' \in Nat
<1>1. Fault => faults' \in Nat BY DEF Fault
<1>2. ASSUME NEW c \in Calls, Begin(c) \/ Cancel(c) \/ FastPath(c) \/ AcquireLock(c) \/ Send(c) \/ Resend(c)
      PROVE  faults' \in Nat
  BY <1>1, <1>2 DEF Begin, Cancel, FastPath, AcquireLock, Send, Resend
<1>3. ASSUME NEW c \in Calls, TokenEndpoint(c) \/ LoseReply(c) \/ HandleReply(c) \/ OpenFile(c)
                              \/ FillFile(c) \/ SetMode(c) \/ RenameFile(c) \/ IoError(c) \/ Install(c)
      PROVE  faults' \in Nat
  BY <1>1, <1>3 DEF TokenEndpoint, Grant, LoseReply, HandleReply, OpenFile, FillFile, SetMode,
     RenameFile, IoError, Install
<1>4. CASE BackgroundIo \/ Restart \/ Revoke \/ Tick \/ UNCHANGED stateVars
  BY <1>1, <1>4 DEF BackgroundIo, RunOrphan, Restart, Revoke, Tick, stateVars
<1> QED BY <1>2, <1>3, <1>4 DEF Moves, Step, Refresh

LEMMA ClockAdvances == ASSUME now \in Nat, [Moves]_stateVars PROVE now' \in Nat /\ now' >= now
<1>1. ASSUME NEW c \in Calls, Begin(c) \/ Cancel(c) \/ FastPath(c) \/ AcquireLock(c) \/ Send(c) \/ Resend(c)
      PROVE  UNCHANGED now
  BY <1>1 DEF Begin, Cancel, FastPath, AcquireLock, Send, Resend
<1>2. ASSUME NEW c \in Calls, TokenEndpoint(c) \/ LoseReply(c) \/ HandleReply(c) \/ OpenFile(c)
                              \/ FillFile(c) \/ SetMode(c) \/ RenameFile(c) \/ IoError(c) \/ Install(c)
      PROVE  UNCHANGED now
  BY <1>2 DEF TokenEndpoint, LoseReply, HandleReply, OpenFile, FillFile, SetMode,
     RenameFile, IoError, Install
<1>3. CASE BackgroundIo \/ Restart \/ Revoke \/ Tick \/ UNCHANGED stateVars
  BY <1>3 DEF BackgroundIo, Restart, Revoke, Tick, stateVars
<1> QED BY <1>1, <1>2, <1>3 DEF Moves, Step, Refresh

LEMMA CoolingIsInductive == Inv /\ Cooling /\ [Moves]_stateVars => Cooling'
<1> SUFFICES ASSUME Inv, Cooling, [Moves]_stateVars PROVE Cooling' OBVIOUS
<1>0. now \in Nat /\ CoolMax \in Nat /\ IsState(mem) BY TokenAssumption DEF Inv, World
<1>1. now' \in Nat /\ now' >= now BY <1>0, ClockAdvances
<1>2. faults' \in Nat BY FaultsAreCounted DEF Cooling
<1>2a. 0 <= now' + CoolMax
  <2> SUFFICES ASSUME NEW n \in Nat, NEW m \in Nat PROVE 0 <= n + m BY <1>0, <1>1
  <2> QED OBVIOUS
<1>3. CASE UNCHANGED mem BY <1>0, <1>1, <1>2, <1>3 DEF Cooling
<1>4. CASE mem' = NotLoaded \/ \E t : mem' = Loaded(t)
  <2>1. mem'.loaded \in BOOLEAN /\ mem'.failures = 0 /\ mem'.until = 0
    <3>1. CASE mem' = NotLoaded BY <3>1 DEF NotLoaded, Loaded
    <3>2. CASE \E t : mem' = Loaded(t) BY <3>2 DEF Loaded
    <3> QED BY <1>4, <3>1, <3>2
  <2> QED BY <1>2, <1>2a, <2>1 DEF Cooling
<1>5. CASE UNCHANGED now /\ mem' = [mem EXCEPT !.failures = 0, !.until = 0]
  <2>1. mem'.loaded = mem.loaded /\ mem'.failures = 0 /\ mem'.until = 0
    BY <1>0, <1>5 DEF IsState
  <2>2. mem'.loaded \in BOOLEAN BY <2>1 DEF Cooling
  <2> QED BY <1>2, <1>2a, <2>1, <2>2 DEF Cooling
<1>6. CASE UNCHANGED now /\ mem' = [mem EXCEPT !.failures = @ + 1,
                                               !.until = now + CooldownSecs(mem.failures + 1)]
  <2>1. CooldownSecs(mem.failures + 1) \in 1 .. CoolMax BY CooldownsAreBounded DEF Cooling
  <2>2. /\ mem'.loaded = mem.loaded /\ mem'.failures = mem.failures + 1
        /\ mem'.until = now + CooldownSecs(mem.failures + 1)
    BY <1>0, <1>6 DEF IsState
  <2> QED BY <1>0, <1>2, <1>6, <2>1, <2>2 DEF Cooling
<1> QED BY <1>3, <1>4, <1>5, <1>6, MemorySteps

(* Whatever fails, and however often, a cooldown is a moment at most CoolMax *)
(* ahead, and every record keeps its shape.                                  *)
THEOREM TypesAreKept == Spec => [](TypeOK /\ mem.until <= now + CoolMax)
<1>1. Init => Cooling BY TokenAssumption DEF Init, Cooling, Loaded
<1>2. Inv /\ Cooling /\ Counting => TypeOK /\ mem.until <= now + CoolMax
  <2> SUFFICES ASSUME Inv, Cooling, Counting PROVE TypeOK /\ mem.until <= now + CoolMax OBVIOUS
  <2>1. mem \in State BY DEF Inv, World, Cooling, IsState, State
  <2>2. tmp \in File /\ disk \in File /\ orphans \subseteq Orphan
    BY DEF Inv, World, Files, Known
  <2>3. asked \in Nat BY DEF Counting
  <2> QED BY <2>1, <2>2, <2>3 DEF Inv, World, InFlight, Cooling, TypeOK
<1> QED BY <1>1, <1>2, CoolingIsInductive, CountingAlways, InvAlways, Underneath, PTL DEF Spec
=============================================================================
