------------------------------- MODULE HttpServer -------------------------------
(* The transports of the daemon: standard input, or HTTP on a loopback address,  *)
(* or HTTP on an open address behind the bearer-token middleware, with its        *)
(* failed-attempt throttle per source address and the SIGHUP reload of            *)
(* http_auth.toml. The session store of the HTTP transport, which nothing mounts  *)
(* yet, is driven as its tests drive it.                                          *)
(*                                                                                *)
(* A token file is [kind, tokens]: kind is "ok", or why it cannot be read         *)
(* ("missing", "exposed" for a symlink, a directory or a mode wider than 0600,    *)
(* "broken" for TOML that does not parse).                                        *)
EXTENDS Integers, FiniteSets, Sequences

CONSTANTS Conns,         \* client connections, each sends one request at a time
          Source,        \* connection -> source address
          Plans,         \* what a run does: see Init
          Burst, Rate,   \* ThrottleConfig: burst, rate_per_sec (a tick is a second)
          Window,        \*   and window_secs
          IdleTimeout    \* idle_timeout of the session store, in ticks

VARIABLES bind,      \* "stdio", "loopback" or "open"
          phase,     \* of the process
          file,      \* http_auth.toml
          edits,     \* files the operator still writes
          installed, \* the SIGHUP handler is installed
          hup,       \* a SIGHUP the handler has not received yet
          told,      \* the operator sent one after the last edit
          loading,   \* the file a reload has read and not yet put in force
          active,    \* tokens in force
          current,   \* tokens of the last usable file that was put in force
          bucket,    \* source -> its failure bucket, or NoBucket
          conn,      \* connection -> its request
          tries,     \* connection -> tokens it still presents ("" is no header)
          guesses,   \* source -> times of its wrong guesses
          sessions,  \* session id -> [created, active], or NoSession
          sweeping,  \* cutoff of a session sweep that waits for the lock
          clock, horizon  \* the time, in ticks, and where a plan stops it

processVars == <<bind, phase>>
fileVars == <<file, edits>>
signalVars == <<installed, hup, told, loading>>
tokenVars == <<active, current>>
requestVars == <<bucket, conn, tries, guesses>>
sessionVars == <<sessions, sweeping>>
timeVars == <<clock, horizon>>
httpVars == <<processVars, fileVars, signalVars, tokenVars, requestVars, sessionVars, timeVars>>

(* http_auth.toml as the process finds it: readable or not, and its tokens.      *)
AuthFile == [kind : {"ok", "missing", "exposed", "broken"}, tokens : Seq(STRING)]

ASSUME HttpAssumption ==
    /\ Burst \in Nat \ {0} /\ {Rate, Window, IdleTimeout} \subseteq Nat
    /\ IsFiniteSet(Conns)
    /\ \A p \in Plans : p.file \in AuthFile /\ p.edits \in Seq(AuthFile)

Sources == {Source[c] : c \in Conns}
Sids == {"s1", "s2"}
NoBucket == [tokens |-> 0, refilled |-> 0, touched |-> -1]
NoSession == [created |-> -1, active |-> -1]
NoFile == [kind |-> "none", tokens |-> <<>>]
NoRequest == [at |-> "idle", token |-> "", known |-> {}, seen |-> {}]
Served == "served"
TokensOf(f) == {f.tokens[i] : i \in 1 .. Len(f.tokens)}

--------------------------------------------------------------------------------
(* http_auth.toml *)

(* from_file and validate: readable, private, and at least one token, none of   *)
(* them empty or listed twice.                                                  *)
Usable(f) ==
    /\ f.kind = "ok" /\ f.tokens # <<>>
    /\ "" \notin TokensOf(f) /\ Cardinality(TokensOf(f)) = Len(f.tokens)

(* build_http_validator, then the listener is bound. *)
Boot ==
    /\ phase = "down"
    /\ \/ /\ bind # "open" \/ Usable(file)
          /\ phase' = "serving"
          /\ active' = IF bind = "open" THEN TokensOf(file) ELSE {}
          /\ current' = active'
       \/ /\ bind = "open" /\ ~Usable(file)
          /\ phase' = "refused" /\ UNCHANGED <<active, current>>
       \/ bind # "stdio" /\ phase' = "refused" /\ UNCHANGED <<active, current>>  \* the address is taken
    /\ UNCHANGED <<bind, fileVars, signalVars, requestVars, sessionVars, timeVars>>

(* The reload task, which only an open bind spawns. *)
InstallHandler ==
    /\ phase = "serving" /\ bind = "open" /\ ~installed /\ installed' = TRUE
    /\ UNCHANGED <<processVars, fileVars, hup, told, loading, tokenVars, requestVars, sessionVars, timeVars>>

(* The operator edits the file. *)
Edit ==
    /\ edits # <<>>
    /\ file' = Head(edits) /\ edits' = Tail(edits) /\ told' = FALSE
    /\ UNCHANGED <<processVars, installed, hup, loading, tokenVars, requestVars, sessionVars, timeVars>>

(* SIGHUP: kept for the handler, one at a time; without a handler it ends the   *)
(* process, which drops every request.                                          *)
Hangup ==
    /\ phase = "serving" /\ ~told
    /\ IF installed THEN hup' = TRUE /\ told' = TRUE /\ UNCHANGED <<phase, conn>>
       ELSE /\ phase' = "killed" /\ conn' = [c \in Conns |-> NoRequest]
            /\ UNCHANGED <<hup, told>>
    /\ UNCHANGED <<bind, fileVars, installed, loading, tokenVars, bucket, tries, guesses, sessionVars, timeVars>>

(* recv, then reload up to from_file. *)
ReadFile ==
    /\ phase = "serving" /\ installed /\ hup /\ loading = NoFile
    /\ hup' = FALSE /\ loading' = file
    /\ UNCHANGED <<processVars, fileVars, installed, told, tokenVars, requestVars, sessionVars, timeVars>>

(* Mutant: a signal that arrived since the file was read is dropped.            *)
SwapForgets ==
    /\ loading # NoFile /\ loading' = NoFile /\ hup' = FALSE
    /\ active' = IF Usable(loading) THEN TokensOf(loading) ELSE active
    /\ current' = IF Usable(loading) THEN TokensOf(loading) ELSE current
    /\ conn' = [c \in Conns |-> IF conn[c].at = "idle" THEN conn[c]
                                ELSE [conn[c] EXCEPT !.seen = @ \cup current']]
    /\ UNCHANGED <<processVars, fileVars, installed, told, bucket, tries, guesses, sessionVars, timeVars>>

(* Mutant: a reload adds the tokens of the file to those in force.              *)
SwapAdds ==
    /\ loading # NoFile /\ loading' = NoFile
    /\ active' = IF Usable(loading) THEN active \cup TokensOf(loading) ELSE active
    /\ current' = IF Usable(loading) THEN TokensOf(loading) ELSE current
    /\ conn' = [c \in Conns |-> IF conn[c].at = "idle" THEN conn[c]
                                ELSE [conn[c] EXCEPT !.seen = @ \cup current']]
    /\ UNCHANGED <<processVars, fileVars, installed, hup, told, bucket, tries, guesses, sessionVars, timeVars>>

(* The write lock: a usable file replaces the tokens in force, any other one    *)
(* leaves them. Requests under way see either set (`seen` keeps them all).      *)
Swap ==
    /\ loading # NoFile /\ loading' = NoFile
    /\ active' = IF Usable(loading) THEN TokensOf(loading) ELSE active
    /\ current' = IF Usable(loading) THEN TokensOf(loading) ELSE current
    /\ conn' = [c \in Conns |-> IF conn[c].at = "idle" THEN conn[c]
                                ELSE [conn[c] EXCEPT !.seen = @ \cup current']]
    /\ UNCHANGED <<processVars, fileVars, installed, hup, told, bucket, tries, guesses, sessionVars, timeVars>>

--------------------------------------------------------------------------------
(* The throttle *)

RefillFull(b) ==
    LET full == b.tokens + Rate * (clock - b.refilled) IN
    [b EXCEPT !.tokens = IF full > Burst THEN Burst ELSE full, !.refilled = clock]

Probed(s) ==
    IF bucket[s] = NoBucket THEN [tokens |-> Burst, refilled |-> clock, touched |-> clock]
    ELSE RefillFull(bucket[s])

Consumed(b) == [b EXCEPT !.tokens = IF @ > 0 THEN @ - 1 ELSE 0, !.touched = clock]

(* Mutant: a bucket is dropped as soon as it was not touched in this tick.      *)
SweepEager ==
    /\ phase = "serving" /\ Window > 0
    /\ bucket' = [s \in Sources |-> IF clock - bucket[s].touched > 0 THEN NoBucket ELSE bucket[s]]
    /\ bucket' # bucket
    /\ UNCHANGED <<processVars, fileVars, signalVars, tokenVars, conn, tries, guesses, sessionVars, timeVars>>

(* sweep_idle, every window_secs. *)
SweepIdle ==
    /\ phase = "serving" /\ Window > 0
    /\ bucket' = [s \in Sources |-> IF clock - bucket[s].touched >= 2 * Window THEN NoBucket
                                    ELSE bucket[s]]
    /\ bucket' # bucket
    /\ UNCHANGED <<processVars, fileVars, signalVars, tokenVars, conn, tries, guesses, sessionVars, timeVars>>

--------------------------------------------------------------------------------
(* bearer_middleware *)

(* The request arrives: throttle.check when the middleware is mounted. *)
Arrive(c) ==
    /\ phase = "serving" /\ bind # "stdio" /\ conn[c].at = "idle" /\ tries[c] # <<>>
    /\ tries' = [tries EXCEPT ![c] = Tail(@)]
    /\ LET request == [at |-> "checked", token |-> Head(tries[c]), known |-> {}, seen |-> current]
           b == Probed(Source[c]) IN
       IF bind = "loopback" THEN
           conn' = [conn EXCEPT ![c] = [request EXCEPT !.at = Served]] /\ UNCHANGED bucket
       ELSE /\ bucket' = [bucket EXCEPT ![Source[c]] = b]
            /\ conn' = [conn EXCEPT ![c] = [request EXCEPT !.at = IF b.tokens >= 1 THEN @ ELSE "429"]]
    /\ UNCHANGED <<processVars, fileVars, signalVars, tokenVars, guesses, sessionVars, timeVars>>

(* The read lock of validate: a snapshot of the tokens in force. *)
Snapshot(c) ==
    /\ conn[c].at = "checked"
    /\ conn' = [conn EXCEPT ![c].at = "known", ![c].known = active]
    /\ UNCHANGED <<processVars, fileVars, signalVars, tokenVars, bucket, tries, guesses, sessionVars, timeVars>>

(* validate compares the whole of every token; no header is no match. *)
Matches(presented, known) == presented # "" /\ presented \in known

Judge(c) ==
    /\ conn[c].at = "known"
    /\ IF Matches(conn[c].token, conn[c].known)
       THEN conn' = [conn EXCEPT ![c].at = Served] /\ UNCHANGED guesses
       ELSE /\ conn' = [conn EXCEPT ![c].at = "wrong"]
            /\ guesses' = [guesses EXCEPT ![Source[c]] = Append(@, clock)]
    /\ UNCHANGED <<processVars, fileVars, signalVars, tokenVars, bucket, tries, sessionVars, timeVars>>

(* record_failure, then 401. *)
RecordFailure(c) ==
    /\ conn[c].at = "wrong"
    /\ bucket' = [bucket EXCEPT ![Source[c]] = Consumed(Probed(Source[c]))]
    /\ conn' = [conn EXCEPT ![c].at = "401"]
    /\ UNCHANGED <<processVars, fileVars, signalVars, tokenVars, tries, guesses, sessionVars, timeVars>>

Answered(c) ==
    /\ conn[c].at \in {Served, "401", "429"}
    /\ conn' = [conn EXCEPT ![c] = NoRequest]
    /\ UNCHANGED <<processVars, fileVars, signalVars, tokenVars, bucket, tries, guesses, sessionVars, timeVars>>

--------------------------------------------------------------------------------
(* SessionStore *)

Create(s) ==
    /\ sessions[s] = NoSession
    /\ sessions' = [sessions EXCEPT ![s] = [created |-> clock, active |-> clock]]

Touch(s) ==
    /\ sessions[s] \notin {NoSession, [sessions[s] EXCEPT !.active = clock]}
    /\ sessions' = [sessions EXCEPT ![s].active = clock]

Remove(s) == sessions[s] # NoSession /\ sessions' = [sessions EXCEPT ![s] = NoSession]

SessionCall ==
    /\ phase = "serving" /\ bind = "loopback"
    /\ \E s \in Sids : Create(s) \/ Touch(s) \/ Remove(s)
    /\ UNCHANGED <<processVars, fileVars, signalVars, tokenVars, requestVars, sweeping, timeVars>>

(* sweep_once: the cutoff is read before the lock is taken; skipped while the    *)
(* clock is younger than the timeout.                                            *)
ReadCutoff ==
    /\ phase = "serving" /\ bind = "loopback" /\ sweeping = -1 /\ clock >= IdleTimeout
    /\ \E s \in Sids : sessions[s] # NoSession
    /\ sweeping' = clock - IdleTimeout
    /\ UNCHANGED <<processVars, fileVars, signalVars, tokenVars, requestVars, sessions, timeVars>>

SweepOnce ==
    /\ sweeping # -1 /\ sweeping' = -1
    /\ sessions' = [s \in Sids |-> IF sessions[s].active > sweeping THEN sessions[s] ELSE NoSession]
    /\ UNCHANGED <<processVars, fileVars, signalVars, tokenVars, requestVars, timeVars>>

Tick ==
    /\ clock < horizon /\ phase = "serving" /\ clock' = clock + 1
    /\ UNCHANGED <<processVars, fileVars, signalVars, tokenVars, requestVars, sessionVars, horizon>>

--------------------------------------------------------------------------------
Init ==
    /\ \E p \in Plans : bind = p.bind /\ file = p.file /\ edits = p.edits /\ tries = p.tries /\ horizon = p.ticks
    /\ phase = "down" /\ active = {} /\ current = {} /\ clock = 0
    /\ installed = FALSE /\ hup = FALSE /\ told = TRUE /\ loading = NoFile
    /\ bucket = [s \in Sources |-> NoBucket] /\ guesses = [s \in Sources |-> <<>>]
    /\ conn = [c \in Conns |-> NoRequest]
    /\ sessions = [s \in Sids |-> NoSession] /\ sweeping = -1

Reload == InstallHandler \/ ReadFile \/ Swap
Handle(c) == Snapshot(c) \/ Judge(c) \/ RecordFailure(c) \/ Answered(c)

Next ==
    \/ Boot \/ Reload \/ Edit \/ Hangup \/ SweepIdle \/ Tick
    \/ \E c \in Conns : Arrive(c) \/ Handle(c)
    \/ SessionCall \/ ReadCutoff \/ SweepOnce

Spec == Init /\ [][Next]_httpVars

(* The runtime polls the reload task; a swap never waits for a reader.          *)
FairSpec == Spec /\ WF_httpVars(Reload)

--------------------------------------------------------------------------------
(* On an open address a request is served only for a token that was in force at *)
(* some moment of that request: a token a reload removed is not honoured by any *)
(* request that arrives afterwards. And some token is in force whatever is      *)
(* reloaded: no bad file opens the address or locks every client out.            *)
ServedOnCurrentToken ==
    bind = "open" =>
        /\ \A c \in Conns : conn[c].at = Served => conn[c].token \in conn[c].seen \ {""}
        /\ phase = "serving" => active # {} /\ "" \notin active

(* In any interval a source gets the burst and what was refilled, and no more    *)
(* beyond the requests it had under way together: the check and the charge are   *)
(* separate steps, so that each token it has can be spent by all of them.        *)
GuessesBounded ==
    \A s \in Sources :
        LET together == Cardinality({c \in Conns : Source[c] = s}) IN
        \A i, j \in 1 .. Len(guesses[s]) : i =< j =>
            LET refilled == Rate * (guesses[s][j] - guesses[s][i]) IN
            j - i + 1 =< Burst + refilled + (together - 1) * (refilled + 1)

(* A signal sent after the last edit is not lost, not even one that arrives while *)
(* an earlier reload is under way: a usable file comes into force.                *)
RotationLands ==
    (hup /\ told) ~> (~told \/ phase # "serving" \/ (Usable(file) => active = TokensOf(file)))
================================================================================
