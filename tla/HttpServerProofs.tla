--------------------------- MODULE HttpServerProofs ---------------------------
(* Theorems about HttpServer for every number of connections, every burst,   *)
(* rate and window of the throttle, and every sequence of edits of           *)
(* http_auth.toml.                                                           *)
EXTENDS HttpServer, FiniteSetTheorems, TLAPS

-----------------------------------------------------------------------------
(* Files of tokens.                                                          *)

(* A usable file has tokens, and the empty one is not among them.            *)
LEMMA UsableFileOpensNothing ==
  ASSUME NEW f \in AuthFile, Usable(f)
  PROVE  TokensOf(f) # {} /\ "" \notin TokensOf(f)
<1>1. f.tokens \in Seq(STRING) /\ f.tokens # <<>> BY DEF AuthFile, Usable
<1>2. 1 \in 1 .. Len(f.tokens) BY <1>1
<1> QED BY <1>2 DEF Usable, TokensOf

-----------------------------------------------------------------------------
(* The inductive invariant.                                                  *)

(* Whatever is read from http_auth.toml is a file, and a reload that is      *)
(* under way holds one.                                                      *)
FilesAreFiles ==
  /\ file \in AuthFile /\ edits \in Seq(AuthFile)
  /\ loading # NoFile => loading \in AuthFile

(* An open address serves under the tokens of the last usable file.          *)
TokensInForce ==
  /\ active = current
  /\ phase = "serving" => active # {} /\ "" \notin active
  /\ phase = "down" => loading = NoFile

(* What a request has seen: every set of tokens in force since it arrived,   *)
(* among them the snapshot it is judged by.                                  *)
HasSeen(r) ==
  /\ r = [at |-> r.at, token |-> r.token, known |-> r.known, seen |-> r.seen]
  /\ r.at # "idle" => current \subseteq r.seen
  /\ r.at = "known" => r.known \subseteq r.seen
  /\ r.at = Served => r.token \in r.seen \ {""}

RequestsHaveSeen ==
  /\ DOMAIN conn = Conns
  /\ \A c \in Conns : HasSeen(conn[c])
  /\ phase = "down" => \A c \in Conns : conn[c] = NoRequest

Inv == FilesAreFiles /\ (bind = "open" => TokensInForce /\ RequestsHaveSeen)

LEMMA InvInitially == Init => Inv
<1> SUFFICES ASSUME Init PROVE Inv OBVIOUS
<1>1. PICK p \in Plans : file = p.file /\ edits = p.edits BY DEF Init
<1>2. FilesAreFiles BY <1>1, HttpAssumption DEF Init, FilesAreFiles
<1>3. TokensInForce BY DEF Init, TokensInForce
<1>4. RequestsHaveSeen BY DEF Init, RequestsHaveSeen, HasSeen, NoRequest, Served
<1> QED BY <1>2, <1>3, <1>4 DEF Inv

-----------------------------------------------------------------------------
(* The inductive step, for an open address.                                  *)

LEMMA FilesStayFiles == Inv /\ [Next]_httpVars => FilesAreFiles'
<1> SUFFICES ASSUME Inv, [Next]_httpVars PROVE FilesAreFiles' OBVIOUS
<1> USE DEF Inv, FilesAreFiles
<1>1. CASE Edit BY <1>1 DEF Edit, signalVars
<1>2. CASE ReadFile BY <1>2 DEF ReadFile, fileVars
<1>3. CASE Swap BY <1>3 DEF Swap, fileVars
<1>4. CASE UNCHANGED <<file, edits, loading>> BY <1>4
<1> QED
  BY <1>1, <1>2, <1>3, <1>4 DEF Next, httpVars, fileVars, signalVars, Reload, Boot, InstallHandler,
     Hangup, SweepIdle, Tick, Arrive, Handle, Snapshot, Judge, RecordFailure, Answered, SessionCall,
     ReadCutoff, SweepOnce

(* One request moves: what the others have seen stays seen.                  *)
LEMMA RequestMoves ==
  ASSUME Inv, bind = "open", UNCHANGED <<phase, active, current, loading>>, phase # "down",
         NEW c \in Conns, NEW r, conn' = [conn EXCEPT ![c] = r], HasSeen(r)
  PROVE  TokensInForce' /\ RequestsHaveSeen'
<1>1. TokensInForce' BY DEF Inv, TokensInForce
<1>2. \A d \in Conns : HasSeen(conn'[d])
  <2>1. ASSUME NEW d \in Conns PROVE HasSeen(conn'[d])
    <3>1. CASE d = c BY <3>1 DEF Inv, RequestsHaveSeen
    <3>2. CASE d # c BY <3>2 DEF Inv, RequestsHaveSeen
    <3> QED BY <3>1, <3>2
  <2> QED BY <2>1
<1>3. (\A d \in Conns : HasSeen(conn[d]))' BY <1>2 DEF HasSeen
<1> QED BY <1>1, <1>3 DEF Inv, RequestsHaveSeen

(* Nothing that the invariant is about moves.                                *)
LEMMA Elsewhere ==
  ASSUME Inv, bind = "open", UNCHANGED <<phase, active, current, loading, conn>>
  PROVE  TokensInForce' /\ RequestsHaveSeen'
BY DEF Inv, TokensInForce, RequestsHaveSeen, HasSeen

LEMMA BootKeepsInv ==
  ASSUME Inv, bind = "open", Boot
  PROVE  TokensInForce' /\ RequestsHaveSeen'
<1>1. TokensInForce'
  <2>1. CASE Usable(file) /\ active' = TokensOf(file) /\ current' = active'
    BY <2>1, UsableFileOpensNothing DEF Boot, Inv, FilesAreFiles, TokensInForce
  <2>2. CASE phase' = "refused" /\ UNCHANGED <<active, current>>
    BY <2>2 DEF Inv, TokensInForce
  <2> QED BY <2>1, <2>2 DEF Boot
<1>2. \A c \in Conns : conn'[c] = NoRequest BY DEF Boot, Inv, RequestsHaveSeen, requestVars
<1>3. DOMAIN conn' = Conns BY DEF Boot, Inv, RequestsHaveSeen, requestVars
<1>4. (\A c \in Conns : HasSeen(conn[c]))'
  <2>1. ASSUME NEW c \in Conns PROVE HasSeen(conn[c])'
    <3>1. NoRequest.at = "idle" BY DEF NoRequest
    <3>2. NoRequest = [at |-> NoRequest.at, token |-> NoRequest.token, known |-> NoRequest.known,
                       seen |-> NoRequest.seen]
      BY DEF NoRequest
    <3> QED BY <1>2, <3>1, <3>2 DEF HasSeen, Served
  <2> QED BY <2>1
<1>5. phase' # "down" BY DEF Boot
<1> QED BY <1>1, <1>3, <1>4, <1>5 DEF RequestsHaveSeen

LEMMA HangupKeepsInv ==
  ASSUME Inv, bind = "open", Hangup
  PROVE  TokensInForce' /\ RequestsHaveSeen'
<1>1. CASE UNCHANGED <<phase, conn>> BY <1>1, Elsewhere DEF Hangup, tokenVars
<1>2. CASE phase' = "killed" /\ conn' = [c \in Conns |-> NoRequest]
  <2>1. TokensInForce' BY <1>2 DEF Hangup, tokenVars, Inv, TokensInForce
  <2>2. RequestsHaveSeen' BY <1>2 DEF RequestsHaveSeen, HasSeen, NoRequest, Served
  <2> QED BY <2>1, <2>2
<1> QED BY <1>1, <1>2 DEF Hangup

(* A reload: requests under way have seen the tokens it puts in force.       *)
LEMMA SwapKeepsInv ==
  ASSUME Inv, bind = "open", Swap
  PROVE  TokensInForce' /\ RequestsHaveSeen'
<1>1. TokensInForce'
  <2>1. active' = current' BY DEF Swap, Inv, TokensInForce
  <2>2. CASE Usable(loading) /\ active' = TokensOf(loading)
    BY <2>1, <2>2, UsableFileOpensNothing DEF Swap, Inv, FilesAreFiles, TokensInForce
  <2>3. CASE active' = active BY <2>1, <2>3 DEF Swap, Inv, TokensInForce, processVars
  <2> QED BY <2>2, <2>3 DEF Swap
<1>2. (\A c \in Conns : HasSeen(conn[c]))'
  <2>1. ASSUME NEW c \in Conns PROVE HasSeen(conn[c])'
    <3>1. HasSeen(conn[c]) BY DEF Inv, RequestsHaveSeen
    <3>2. CASE conn[c].at = "idle" BY <3>1, <3>2 DEF Swap, HasSeen, Served
    <3>3. CASE conn[c].at # "idle"
      <4>1. conn'[c] = [at |-> conn[c].at, token |-> conn[c].token, known |-> conn[c].known,
                        seen |-> conn[c].seen \cup current']
        BY <3>1, <3>3 DEF Swap, HasSeen
      <4>2. /\ conn'[c].at = conn[c].at /\ conn'[c].token = conn[c].token
            /\ conn'[c].known = conn[c].known /\ conn'[c].seen = conn[c].seen \cup current'
        BY <4>1
      <4> QED BY <3>1, <4>1, <4>2 DEF HasSeen
    <3> QED BY <3>2, <3>3
  <2> QED BY <2>1
<1>3. DOMAIN conn' = Conns /\ phase' # "down" BY DEF Swap, Inv, TokensInForce, processVars
<1> QED BY <1>1, <1>2, <1>3 DEF RequestsHaveSeen

(* A request arrives and passes the throttle or does not; reads the tokens   *)
(* in force; is judged by that snapshot; is charged; is answered.            *)
LEMMA HandlingKeepsInv ==
  ASSUME Inv, bind = "open", NEW c \in Conns, Arrive(c) \/ Handle(c)
  PROVE  TokensInForce' /\ RequestsHaveSeen'
<1> DEFINE r == conn'[c]
<1>0. HasSeen(conn[c]) /\ DOMAIN conn = Conns /\ active = current
  BY DEF Inv, RequestsHaveSeen, TokensInForce
<1>1. UNCHANGED <<phase, active, current, loading>>
  BY DEF Arrive, Handle, Snapshot, Judge, RecordFailure, Answered, processVars, tokenVars, signalVars
<1>2. conn' = [conn EXCEPT ![c] = r]
  BY <1>0 DEF Arrive, Handle, Snapshot, Judge, RecordFailure, Answered
<1>3. phase # "down"
  <2>1. CASE Arrive(c) BY <2>1 DEF Arrive
  <2>2. CASE conn[c] # NoRequest BY <2>2 DEF Inv, RequestsHaveSeen
  <2>3. CASE Handle(c)
    <3>1. conn[c].at # "idle" BY <2>3 DEF Handle, Snapshot, Judge, RecordFailure, Answered, Served
    <3>2. NoRequest.at = "idle" BY DEF NoRequest
    <3> QED BY <2>2, <3>1, <3>2
  <2> QED BY <2>1, <2>3
<1>4. HasSeen(r)
  <2>1. CASE Arrive(c)
    <3>1. PICK at \in {"checked", "429"} :
            r = [at |-> at, token |-> Head(tries[c]), known |-> {}, seen |-> current]
      BY <1>0, <2>1 DEF Arrive
    <3>2. r.at = at /\ r.seen = current BY <3>1
    <3> QED BY <3>1, <3>2 DEF HasSeen, Served
  <2>2. CASE Snapshot(c)
    <3>1. r = [at |-> "known", token |-> conn[c].token, known |-> active, seen |-> conn[c].seen]
      BY <1>0, <2>2 DEF Snapshot, HasSeen
    <3> QED BY <1>0, <2>2, <3>1 DEF Snapshot, HasSeen, Served
  <2>3. CASE Judge(c)
    <3>1. \E at \in {Served, "wrong"} :
            /\ r = [at |-> at, token |-> conn[c].token, known |-> conn[c].known, seen |-> conn[c].seen]
            /\ at = Served => Matches(conn[c].token, conn[c].known)
      BY <1>0, <2>3 DEF Judge, HasSeen, Served
    <3> QED BY <1>0, <2>3, <3>1 DEF Judge, HasSeen, Served, Matches
  <2>4. CASE RecordFailure(c)
    <3>1. r = [at |-> "401", token |-> conn[c].token, known |-> conn[c].known, seen |-> conn[c].seen]
      BY <1>0, <2>4 DEF RecordFailure, HasSeen
    <3> QED BY <1>0, <2>4, <3>1 DEF RecordFailure, HasSeen, Served
  <2>5. CASE Answered(c) BY <1>0, <2>5 DEF Answered, HasSeen, NoRequest, Served
  <2> QED BY <2>1, <2>2, <2>3, <2>4, <2>5 DEF Handle
<1> HIDE DEF r
<1> QED BY <1>1, <1>2, <1>3, <1>4, RequestMoves

LEMMA InvIsInductive == Inv /\ [Next]_httpVars => Inv'
<1> SUFFICES ASSUME Inv, [Next]_httpVars PROVE Inv' OBVIOUS
<1>1. FilesAreFiles' BY FilesStayFiles
<1>2. bind' = bind
  BY DEF Next, httpVars, processVars, Reload, Boot, InstallHandler, ReadFile, Swap, Edit, Hangup,
     SweepIdle, Tick, Arrive, Handle, Snapshot, Judge, RecordFailure, Answered, SessionCall,
     ReadCutoff, SweepOnce
<1>3. ASSUME bind = "open" PROVE TokensInForce' /\ RequestsHaveSeen'
  <2>1. CASE Boot BY <1>3, <2>1, BootKeepsInv
  <2>2. CASE Swap BY <1>3, <2>2, SwapKeepsInv
  <2>3. CASE Hangup BY <1>3, <2>3, HangupKeepsInv
  <2>4. CASE \E c \in Conns : Arrive(c) \/ Handle(c) BY <1>3, <2>4, HandlingKeepsInv
  <2>5. CASE ReadFile
    <3>1. phase # "down" /\ UNCHANGED <<phase, active, current, conn>>
      BY <2>5 DEF ReadFile, processVars, tokenVars, requestVars
    <3> QED BY <1>3, <3>1 DEF Inv, TokensInForce, RequestsHaveSeen, HasSeen
  <2>6. CASE UNCHANGED <<phase, active, current, loading, conn>> BY <1>3, <2>6, Elsewhere
  <2> QED
    BY <2>1, <2>2, <2>3, <2>4, <2>5, <2>6 DEF Next, httpVars, processVars, tokenVars, signalVars,
       requestVars, Reload, InstallHandler, Edit, SweepIdle, Tick, SessionCall, ReadCutoff, SweepOnce
<1> QED BY <1>1, <1>2, <1>3 DEF Inv

(* On an open address the bearer middleware serves a request only for a      *)
(* token that was in force while the request was under way, whenever the     *)
(* SIGHUP task swaps the tokens; and no reload leaves the address without a  *)
(* token or with the empty one.                                              *)
THEOREM TokensAreHonouredWhileInForce == Spec => []ServedOnCurrentToken
<1>1. Inv => ServedOnCurrentToken
  BY DEF Inv, TokensInForce, RequestsHaveSeen, HasSeen, ServedOnCurrentToken
<1> QED BY <1>1, InvInitially, InvIsInductive, PTL DEF Spec

-----------------------------------------------------------------------------
(* The throttle: what a source may still guess before anything is refilled.  *)

(* sweep_idle only forgets buckets that would be full by then; with the      *)
(* defaults 10 tokens are refilled in 10 of 120 seconds.                     *)
Unhurried == Window = 0 \/ Burst <= Rate * (2 * Window)

(* A bucket holds at least what was refilled since it was charged.           *)
IsBucket(b) ==
  /\ b = [tokens |-> b.tokens, refilled |-> b.refilled, touched |-> b.touched]
  /\ b.tokens \in 0 .. Burst
  /\ b.refilled \in Nat /\ b.touched \in Nat
  /\ b.touched <= b.refilled /\ b.refilled <= clock
  /\ b.tokens = Burst \/ b.tokens >= Rate * (b.refilled - b.touched)

IsRequest(r) == r = [at |-> r.at, token |-> r.token, known |-> r.known, seen |-> r.seen]

Local(s) == {c \in Conns : Source[c] = s}
Underway(s) == {c \in Local(s) : conn[c].at \in {"checked", "known"}}
Wrong(s) == {c \in Local(s) : conn[c].at = "wrong"}
Left(s) == Probed(s).tokens

(* While there is a token every connection but one can guess beside those    *)
(* that spend the tokens; without one only the requests already checked can. *)
Risk(s) ==
  IF Left(s) >= 1 THEN Left(s) - Cardinality(Wrong(s)) + Cardinality(Local(s)) - 1
  ELSE Cardinality(Underway(s))

\* What a source can have guessed from a time on until now.
Allowance(s, t) ==
  Burst + Cardinality(Local(s)) - 1 + Cardinality(Local(s)) * (Rate * (clock - t))

Paced(s) ==
  \A i \in 1 .. Len(guesses[s]) :
     Len(guesses[s]) - i + 1 + Risk(s) <= Allowance(s, guesses[s][i])

Throttled ==
  /\ clock \in Nat
  /\ bucket = [s \in Sources |-> bucket[s]]
  /\ \A s \in Sources : bucket[s] = NoBucket \/ IsBucket(bucket[s])
  /\ conn = [c \in Conns |-> conn[c]] /\ \A c \in Conns : IsRequest(conn[c])
  /\ guesses \in [Sources -> Seq(Nat)]
  /\ \A s \in Sources : \A i \in 1 .. Len(guesses[s]) : guesses[s][i] <= clock
  /\ phase # "serving" => \A c \in Conns : conn[c].at = "idle"
  /\ phase = "down" => \A s \in Sources : guesses[s] = <<>>
  /\ phase = "serving" => \A s \in Sources : Paced(s)
  /\ GuessesBounded

-----------------------------------------------------------------------------
(* Counting requests.                                                        *)

LEMMA Counts ==
  ASSUME NEW s \in Sources
  PROVE  /\ IsFiniteSet(Local(s)) /\ IsFiniteSet(Underway(s)) /\ IsFiniteSet(Wrong(s))
         /\ Cardinality(Local(s)) \in Nat \ {0}
         /\ Cardinality(Underway(s)) \in Nat /\ Cardinality(Wrong(s)) \in Nat
         /\ Cardinality(Underway(s)) + Cardinality(Wrong(s)) <= Cardinality(Local(s))
<1>1. IsFiniteSet(Local(s)) BY HttpAssumption, FS_Subset DEF Local
<1>2. Underway(s) \subseteq Local(s) /\ Wrong(s) \subseteq Local(s) /\ Underway(s) \cap Wrong(s) = {}
  BY DEF Underway, Wrong
<1>3. IsFiniteSet(Underway(s)) /\ IsFiniteSet(Wrong(s)) BY <1>1, <1>2, FS_Subset
<1>4. /\ Cardinality(Local(s)) \in Nat /\ Cardinality(Underway(s)) \in Nat
      /\ Cardinality(Wrong(s)) \in Nat
  BY <1>1, <1>3, FS_CardinalityType
<1>5. Local(s) # {} BY DEF Sources, Local
<1>6. Cardinality(Local(s)) # 0 BY <1>1, <1>5, FS_EmptySet
<1>7. Cardinality(Underway(s) \cup Wrong(s)) = Cardinality(Underway(s)) + Cardinality(Wrong(s))
  <2>1. Cardinality({}) = 0 BY FS_EmptySet
  <2>2. Cardinality(Underway(s) \cup Wrong(s))
          = Cardinality(Underway(s)) + Cardinality(Wrong(s)) - Cardinality(Underway(s) \cap Wrong(s))
    BY <1>3, FS_Union
  <2> QED BY <1>2, <1>4, <2>1, <2>2
<1>8. Cardinality(Underway(s) \cup Wrong(s)) <= Cardinality(Local(s)) BY <1>1, <1>2, FS_Subset
<1> QED BY <1>1, <1>3, <1>4, <1>6, <1>7, <1>8

(* A request moves: it alone is counted differently.                         *)
LEMMA Recounted ==
  ASSUME conn = [d \in Conns |-> conn[d]], NEW c \in Conns, NEW r, conn' = [conn EXCEPT ![c] = r],
         NEW s \in Sources
  PROVE  /\ Local(s)' = Local(s)
         /\ Underway(s)' = IF Source[c] = s /\ r.at \in {"checked", "known"}
                           THEN Underway(s) \cup {c} ELSE Underway(s) \ {c}
         /\ Wrong(s)' = IF Source[c] = s /\ r.at = "wrong" THEN Wrong(s) \cup {c} ELSE Wrong(s) \ {c}
<1>1. conn'[c] = r /\ \A d \in Conns \ {c} : conn'[d] = conn[d] OBVIOUS
<1>2. Local(s)' = Local(s) BY DEF Local
<1> QED BY <1>1, <1>2 DEF Underway, Wrong, Local

(* What is left of a bucket.                                                 *)
LEMMA Remainder ==
  ASSUME Throttled, NEW s \in Sources
  PROVE  /\ Left(s) \in 0 .. Burst
         /\ IsBucket(Probed(s)) /\ Probed(s).refilled = clock
         /\ Left(s) = IF bucket[s] = NoBucket THEN Burst
                      ELSE IF bucket[s].tokens + Rate * (clock - bucket[s].refilled) > Burst THEN Burst
                           ELSE bucket[s].tokens + Rate * (clock - bucket[s].refilled)
<1>1. Burst \in Nat \ {0} /\ Rate \in Nat /\ clock \in Nat BY HttpAssumption DEF Throttled
<1>2. CASE bucket[s] = NoBucket
  <2> DEFINE b == [tokens |-> Burst, refilled |-> clock, touched |-> clock]
  <2>1. Probed(s) = b BY <1>2 DEF Probed
  <2>2. b.tokens = Burst /\ b.refilled = clock /\ b.touched = clock OBVIOUS
  <2>3. b = [tokens |-> b.tokens, refilled |-> b.refilled, touched |-> b.touched] OBVIOUS
  <2> HIDE DEF b
  <2>4. IsBucket(b) BY <1>1, <2>2, <2>3 DEF IsBucket
  <2> QED BY <1>1, <1>2, <2>1, <2>2, <2>4 DEF Left
<1>3. CASE bucket[s] # NoBucket
  <2> DEFINE a == bucket[s]
             full == a.tokens + Rate * (clock - a.refilled)
             tokens == IF full > Burst THEN Burst ELSE full
             b == [tokens |-> tokens, refilled |-> clock, touched |-> a.touched]
  <2>1. IsBucket(a) BY <1>3 DEF Throttled
  <2>2. Probed(s) = b
    <3> DEFINE a1 == [a EXCEPT !.tokens = tokens]
               a2 == [a1 EXCEPT !.refilled = clock]
    <3>1. Probed(s) = [a EXCEPT !.tokens = tokens, !.refilled = clock] BY <1>3 DEF Probed, RefillFull
    <3>2. a = [tokens |-> a.tokens, refilled |-> a.refilled, touched |-> a.touched]
      BY <2>1 DEF IsBucket
    <3> HIDE DEF a, tokens
    <3>3. [a EXCEPT !.tokens = tokens, !.refilled = clock] = a2 OBVIOUS
    <3>4. a1 = [tokens |-> tokens, refilled |-> a.refilled, touched |-> a.touched] BY <3>2
    <3> HIDE DEF a1
    <3>5. a2 = b BY <3>4
    <3> QED BY <3>1, <3>3, <3>5
  <2>3. b.tokens = tokens /\ b.refilled = clock /\ b.touched = a.touched OBVIOUS
  <2>4. b = [tokens |-> b.tokens, refilled |-> b.refilled, touched |-> b.touched] OBVIOUS
  <2> HIDE DEF b
  <2>5. /\ a.tokens \in 0 .. Burst /\ a.refilled \in Nat /\ a.touched \in Nat
        /\ a.touched <= a.refilled /\ a.refilled <= clock
        /\ a.tokens = Burst \/ a.tokens >= Rate * (a.refilled - a.touched)
    BY <2>1 DEF IsBucket
  <2> HIDE DEF a
  <2>6. Rate * (clock - a.refilled) \in Nat
    <3>1. clock - a.refilled \in Nat BY <1>1, <2>5
    <3> QED BY <1>1, <3>1
  <2>7. Rate * (clock - a.touched) = Rate * (clock - a.refilled) + Rate * (a.refilled - a.touched)
    BY <1>1, <2>5
  <2>8. tokens \in 0 .. Burst /\ (tokens = Burst \/ tokens >= Rate * (clock - a.touched))
    BY <1>1, <2>5, <2>6, <2>7
  <2>9. IsBucket(b) BY <1>1, <2>3, <2>4, <2>5, <2>8 DEF IsBucket
  <2> QED BY <1>3, <2>2, <2>3, <2>8, <2>9 DEF Left, a
<1> QED BY <1>2, <1>3

-----------------------------------------------------------------------------
(* The risk.                                                                 *)

LEMMA RiskIsNatural ==
  ASSUME Throttled, NEW s \in Sources
  PROVE  Risk(s) \in Nat
<1>1. Left(s) \in Nat BY Remainder, HttpAssumption
<1> QED BY <1>1, Counts DEF Risk

LEMMA AllowanceIsNumber ==
  ASSUME Throttled, NEW s \in Sources, NEW t \in Nat
  PROVE  /\ Allowance(s, t) \in Int
         /\ t = clock => Allowance(s, t) = Burst + Cardinality(Local(s)) - 1
<1> DEFINE n == Cardinality(Local(s))
           d == clock - t
<1>1. n \in Nat /\ Burst \in Nat /\ Rate \in Nat /\ d \in Int BY Counts, HttpAssumption DEF Throttled
<1>2. Allowance(s, t) = Burst + n - 1 + n * (Rate * d) BY DEF Allowance
<1>3. t = clock => d = 0 BY DEF Throttled
<1> HIDE DEF n, d
<1>4. Rate * d \in Int BY <1>1
<1>5. n * (Rate * d) \in Int BY <1>1, <1>4
<1>6. d = 0 => n * (Rate * d) = 0 BY <1>1
<1> QED BY <1>1, <1>2, <1>3, <1>5, <1>6 DEF n

(* Nothing was guessed and nothing is risked more: the pace is kept.         *)
LEMMA PaceKept ==
  ASSUME Throttled, NEW s \in Sources, Paced(s),
         Risk(s)' <= Risk(s), Risk(s)' \in Int, guesses'[s] = guesses[s], clock' = clock
  PROVE  Paced(s)'
<1>1. Local(s)' = Local(s) BY DEF Local
<1>2. guesses[s] \in Seq(Nat) BY DEF Throttled
<1>3. ASSUME NEW i \in 1 .. Len(guesses[s])
      PROVE  Len(guesses[s]) - i + 1 + Risk(s)' <= Allowance(s, guesses[s][i])
  <2> DEFINE t == guesses[s][i]
             all == Allowance(s, t)
             now == Risk(s)
             later == Risk(s)'
             m == Len(guesses[s]) - i + 1
  <2>1. m + now <= all BY DEF Paced
  <2>2. t \in Nat /\ m \in Nat BY <1>2
  <2>3. now \in Nat BY RiskIsNatural
  <2>4. later \in Int /\ later <= now OBVIOUS
  <2> HIDE DEF t, now, later, m
  <2>5. all \in Int BY <2>2, AllowanceIsNumber
  <2> HIDE DEF all
  <2>6. m + later <= all BY <2>1, <2>2, <2>3, <2>4, <2>5
  <2> QED BY <2>6 DEF m, later, all, t
<1>4. \A t : Allowance(s, t)' = Allowance(s, t) BY <1>1 DEF Allowance
<1> QED BY <1>3, <1>4 DEF Paced

(* Time passes: each token it brings can be spent by every connection.       *)
LEMMA PaceTicks ==
  ASSUME Throttled, NEW s \in Sources, Paced(s), Tick
  PROVE  Paced(s)'
<1> DEFINE n == Cardinality(Local(s))
           u == Cardinality(Underway(s))
           w == Cardinality(Wrong(s))
           left == Left(s)
           later == Left(s)'
<1>1. /\ n \in Nat \ {0} /\ u \in Nat /\ w \in Nat /\ u + w <= n /\ left \in 0 .. Burst
      /\ Burst \in Nat \ {0} /\ Rate \in Nat /\ clock \in Nat
  BY Counts, Remainder, HttpAssumption DEF Throttled
<1>2. /\ clock' = clock + 1 /\ bucket' = bucket /\ conn' = conn /\ guesses' = guesses
  BY DEF Tick, requestVars
<1>3. Local(s)' = Local(s) /\ Underway(s)' = Underway(s) /\ Wrong(s)' = Wrong(s)
  BY <1>2 DEF Local, Underway, Wrong
<1>4. later \in 0 .. Burst /\ later <= left + Rate
  <2>1. CASE bucket[s] = NoBucket
    <3>1. Probed(s)' = [tokens |-> Burst, refilled |-> clock', touched |-> clock']
      BY <1>2, <2>1 DEF Probed, NoBucket
    <3>2. later = Burst BY <3>1 DEF Left
    <3>3. left = Burst BY <2>1, Remainder
    <3> HIDE DEF later, left
    <3> QED BY <1>1, <3>2, <3>3
  <2>2. CASE bucket[s] # NoBucket
    <3> DEFINE a == bucket[s]
               full == a.tokens + Rate * (clock - a.refilled)
               more == a.tokens + Rate * (clock' - a.refilled)
    <3>1. IsBucket(a) BY <2>2 DEF Throttled
    <3>2. Probed(s)' = [a EXCEPT !.tokens = IF more > Burst THEN Burst ELSE more, !.refilled = clock']
      BY <1>2, <2>2 DEF Probed, RefillFull, NoBucket
    <3>3. later = IF more > Burst THEN Burst ELSE more
      <4>1. a = [tokens |-> a.tokens, refilled |-> a.refilled, touched |-> a.touched]
        BY <3>1 DEF IsBucket
      <4> DEFINE tokens == IF more > Burst THEN Burst ELSE more
                 now == clock'
                 a1 == [a EXCEPT !.tokens = tokens]
                 a2 == [a1 EXCEPT !.refilled = now]
      <4>2. Probed(s)' = [a EXCEPT !.tokens = tokens, !.refilled = now] BY <3>2
      <4> HIDE DEF a, tokens, now
      <4>3. [a EXCEPT !.tokens = tokens, !.refilled = now] = a2 OBVIOUS
      <4>4. a1 = [tokens |-> tokens, refilled |-> a.refilled, touched |-> a.touched] BY <4>1
      <4> HIDE DEF a1
      <4>5. a2.tokens = tokens BY <4>4
      <4> HIDE DEF a2
      <4>6. Probed(s)'.tokens = tokens BY <4>2, <4>3, <4>5
      <4> QED BY <4>6 DEF Left, tokens
    <3>4. left = IF full > Burst THEN Burst ELSE full BY <2>2, Remainder
    <3>5. a.tokens \in 0 .. Burst /\ a.refilled \in Nat /\ a.refilled <= clock BY <3>1 DEF IsBucket
    <3> HIDE DEF a, later, left
    <3>6. /\ Rate * (clock' - a.refilled) = Rate * (clock - a.refilled) + Rate
          /\ Rate * (clock - a.refilled) \in Nat
      <4> DEFINE d == clock - a.refilled
      <4>1. d \in Nat /\ clock' - a.refilled = d + 1 BY <1>1, <1>2, <3>5
      <4> HIDE DEF d
      <4>2. Rate * (d + 1) = Rate * d + Rate /\ Rate * d \in Nat BY <1>1, <4>1
      <4> QED BY <4>1, <4>2 DEF d
    <3> QED BY <1>1, <3>3, <3>4, <3>5, <3>6
  <2> QED BY <2>1, <2>2
<1>5. Risk(s) = IF left >= 1 THEN left - w + n - 1 ELSE u BY DEF Risk
<1>6. Risk(s)' = IF later >= 1 THEN later - w + n - 1 ELSE u BY <1>3 DEF Risk
<1>7. Risk(s)' <= Risk(s) + n * Rate
  <2> HIDE DEF n, u, w, left, later
  <2>1. n * Rate \in Nat /\ n * Rate >= Rate BY <1>1
  <2>2. Rate >= 1 => n * Rate >= Rate + n - 1
    <3> SUFFICES ASSUME Rate >= 1 PROVE n * Rate >= Rate + n - 1 OBVIOUS
    <3>1. n - 1 \in Nat /\ Rate - 1 \in Nat BY <1>1
    <3>2. (n - 1) * (Rate - 1) >= 0 BY <3>1
    <3>3. (n - 1) * (Rate - 1) = n * Rate - n - Rate + 1 BY <1>1
    <3> QED BY <1>1, <2>1, <3>2, <3>3
  <2>3. CASE left >= 1 BY <1>1, <1>4, <1>5, <1>6, <2>1, <2>3
  <2>4. CASE left = 0 /\ later >= 1 BY <1>1, <1>4, <1>5, <1>6, <2>1, <2>2, <2>4
  <2>5. CASE left = 0 /\ later = 0 BY <1>1, <1>4, <1>5, <1>6, <2>1, <2>5
  <2> QED BY <1>1, <1>4, <2>3, <2>4, <2>5
<1>8. guesses[s] \in Seq(Nat) BY DEF Throttled
<1>9. ASSUME NEW i \in 1 .. Len(guesses[s])
      PROVE  Len(guesses[s]) - i + 1 + Risk(s)' <= Allowance(s, guesses[s][i])'
  <2> DEFINE t == guesses[s][i]
             x == Rate * (clock - t)
             y == Rate * (clock' - t)
             m == Len(guesses[s]) - i + 1
  <2>1. t \in Nat /\ m \in Nat BY <1>8
  <2>2. m + Risk(s) <= Burst + n - 1 + n * x BY DEF Paced, Allowance
  <2>3. Allowance(s, guesses[s][i])' = Burst + n - 1 + n * y BY <1>2, <1>3 DEF Allowance
  <2>4. Risk(s) \in Nat /\ Risk(s)' \in Int
    <3>1. Risk(s) \in Nat BY RiskIsNatural
    <3> HIDE DEF n, u, w, left, later
    <3> QED BY <1>1, <1>4, <1>6, <3>1
  <2> HIDE DEF n, u, w, left, later, t, m
  <2>5. x \in Int /\ y = x + Rate BY <1>1, <1>2, <2>1
  <2> HIDE DEF x, y
  <2>6. n * y = n * x + n * Rate /\ n * x \in Int /\ n * Rate \in Int BY <1>1, <2>5
  <2>7. m + Risk(s)' <= Burst + n - 1 + n * y BY <1>1, <1>7, <2>1, <2>2, <2>4, <2>6
  <2> QED BY <2>3, <2>7 DEF m
<1> QED BY <1>2, <1>9 DEF Paced

(* A bucket that was refilled in this tick.                                  *)
LEMMA Refilled ==
  ASSUME Throttled, NEW s \in Sources, NEW b, IsBucket(b), b.refilled = clock,
         bucket'[s] = b, clock' = clock
  PROVE  Left(s)' = b.tokens
<1> DEFINE now == clock
           full == b.tokens + Rate * (now - b.refilled)
           tokens == IF full > Burst THEN Burst ELSE full
           b1 == [b EXCEPT !.tokens = tokens]
           b2 == [b1 EXCEPT !.refilled = now]
<1>1. b # NoBucket BY DEF IsBucket, NoBucket
<1>2. Probed(s)' = [b EXCEPT !.tokens = tokens, !.refilled = now]
  BY <1>1 DEF Probed, RefillFull, NoBucket
<1>3. b = [tokens |-> b.tokens, refilled |-> b.refilled, touched |-> b.touched] BY DEF IsBucket
<1>4. tokens = b.tokens
  <2>1. b.tokens \in 0 .. Burst /\ Rate \in Nat /\ Burst \in Nat BY HttpAssumption DEF IsBucket
  <2>2. now - b.refilled = 0 BY DEF Throttled
  <2>3. Rate * (now - b.refilled) = 0 BY <2>1, <2>2
  <2> QED BY <2>1, <2>3
<1> HIDE DEF tokens, now
<1>5. [b EXCEPT !.tokens = tokens, !.refilled = now] = b2 OBVIOUS
<1>6. b1 = [tokens |-> tokens, refilled |-> b.refilled, touched |-> b.touched] BY <1>3
<1> HIDE DEF b1
<1>7. b2.tokens = tokens BY <1>6
<1> QED BY <1>2, <1>4, <1>5, <1>7 DEF Left

LEMMA Untouched ==
  ASSUME NEW s \in Sources, bucket'[s] = bucket[s], clock' = clock
  PROVE  Left(s)' = Left(s)
<1>1. Probed(s)' = Probed(s) BY DEF Probed, RefillFull, NoBucket
<1> QED BY <1>1 DEF Left

(* A charge.                                                                 *)
LEMMA Charged ==
  ASSUME Throttled, NEW s \in Sources
  PROVE  /\ IsBucket(Consumed(Probed(s))) /\ Consumed(Probed(s)).refilled = clock
         /\ Consumed(Probed(s)).tokens = IF Left(s) > 0 THEN Left(s) - 1 ELSE 0
<1> DEFINE a == Probed(s)
           now == clock
           tokens == IF a.tokens > 0 THEN a.tokens - 1 ELSE 0
           a1 == [a EXCEPT !.tokens = tokens]
           a2 == [a1 EXCEPT !.touched = now]
           b == [tokens |-> tokens, refilled |-> now, touched |-> now]
<1>1. IsBucket(a) /\ a.refilled = now BY Remainder
<1>2. Consumed(a) = [a EXCEPT !.tokens = tokens, !.touched = now] BY DEF Consumed
<1>3. a = [tokens |-> a.tokens, refilled |-> now, touched |-> a.touched] BY <1>1 DEF IsBucket
<1>4. Left(s) = a.tokens BY DEF Left
<1>5. a.tokens \in 0 .. Burst /\ Burst \in Nat /\ Rate \in Nat /\ now \in Nat
  BY <1>1, HttpAssumption DEF IsBucket, Throttled
<1> HIDE DEF a
<1>6. tokens \in 0 .. Burst BY <1>5
<1> HIDE DEF tokens, now
<1>7. [a EXCEPT !.tokens = tokens, !.touched = now] = a2 OBVIOUS
<1>8. a1 = [tokens |-> tokens, refilled |-> now, touched |-> a.touched] BY <1>3
<1> HIDE DEF a1
<1>9. a2 = b BY <1>8
<1>10. b.tokens = tokens /\ b.refilled = now /\ b.touched = now OBVIOUS
<1>11. b = [tokens |-> b.tokens, refilled |-> b.refilled, touched |-> b.touched] OBVIOUS
<1> HIDE DEF a2, b
<1>12. Rate * (b.refilled - b.touched) = 0
  <2>1. b.refilled - b.touched = 0 BY <1>5, <1>10
  <2> QED BY <1>5, <2>1
<1>13. b.touched <= b.refilled /\ b.refilled <= clock BY <1>5, <1>10 DEF now
<1>14. IsBucket(b) BY <1>5, <1>6, <1>10, <1>11, <1>12, <1>13 DEF IsBucket
<1>15. Consumed(Probed(s)) = b BY <1>2, <1>7, <1>9 DEF a
<1> QED BY <1>4, <1>10, <1>14, <1>15 DEF tokens, now

(* What is swept would have been full.                                       *)
LEMMA SweptAreFull ==
  ASSUME Unhurried, Throttled, NEW s \in Sources, SweepIdle
  PROVE  /\ bucket'[s] \in {NoBucket, bucket[s]}
         /\ Left(s)' = Left(s)
<1>1. bucket'[s] = IF clock - bucket[s].touched >= 2 * Window THEN NoBucket ELSE bucket[s]
  BY DEF SweepIdle
<1>2. clock' = clock /\ Window > 0 BY DEF SweepIdle, timeVars
<1>3. CASE bucket'[s] = bucket[s] BY <1>2, <1>3, Untouched
<1>4. CASE bucket'[s] # bucket[s]
  <2> DEFINE a == bucket[s]
  <2>1. bucket'[s] = NoBucket /\ a # NoBucket /\ clock - a.touched >= 2 * Window BY <1>1, <1>4
  <2>2. Left(s)' = Burst
    <3>1. Probed(s)' = [tokens |-> Burst, refilled |-> clock', touched |-> clock']
      BY <2>1 DEF Probed, NoBucket
    <3> QED BY <3>1 DEF Left
  <2>3. Left(s) = IF a.tokens + Rate * (clock - a.refilled) > Burst THEN Burst
                  ELSE a.tokens + Rate * (clock - a.refilled)
    BY <2>1, Remainder
  <2>4. IsBucket(a) BY <2>1 DEF Throttled
  <2>5. /\ Burst \in Nat /\ Rate \in Nat /\ Window \in Nat /\ clock \in Nat
        /\ Burst <= Rate * (2 * Window)
    BY <1>2, HttpAssumption DEF Throttled, Unhurried
  <2>6. /\ a.tokens \in 0 .. Burst /\ a.refilled \in Nat /\ a.touched \in Nat
        /\ a.touched <= a.refilled /\ a.refilled <= clock
        /\ a.tokens = Burst \/ a.tokens >= Rate * (a.refilled - a.touched)
    BY <2>4 DEF IsBucket
  <2> HIDE DEF a
  <2> DEFINE x == Rate * (clock - a.refilled)
             y == Rate * (a.refilled - a.touched)
             z == Rate * (2 * Window)
             idle == clock - a.touched
             spare == idle - 2 * Window
  <2>7. x \in Nat /\ y \in Nat
    <3>1. clock - a.refilled \in Nat /\ a.refilled - a.touched \in Nat BY <2>5, <2>6
    <3> QED BY <2>5, <3>1
  <2>8. Rate * idle = x + y BY <2>5, <2>6
  <2>9. x + y >= z
    <3>1. spare \in Nat /\ idle = 2 * Window + spare BY <2>1, <2>5, <2>6 DEF a
    <3> HIDE DEF spare, idle
    <3>2. Rate * idle = z + Rate * spare /\ Rate * spare \in Nat /\ z \in Nat BY <2>5, <3>1
    <3> HIDE DEF x, y, z
    <3> QED BY <2>7, <2>8, <3>2
  <2>10. z \in Nat BY <2>5
  <2> HIDE DEF y, z
  <2>11. a.tokens + x >= Burst BY <2>5, <2>6, <2>7, <2>9, <2>10 DEF y, z
  <2> QED BY <2>1, <2>2, <2>3, <2>5, <2>6, <2>7, <2>11
<1> QED BY <1>1, <1>3, <1>4

-----------------------------------------------------------------------------
(* The inductive step of the throttle, for one request.                      *)

LEMMA OneRequestMoves ==
  ASSUME Throttled, NEW c \in Conns, NEW r, IsRequest(r), conn' = [conn EXCEPT ![c] = r],
         phase = "serving", phase' = phase, clock' = clock, guesses' = guesses,
         bucket' = [s \in Sources |-> bucket'[s]],
         \A s \in Sources : bucket'[s] = NoBucket \/ IsBucket(bucket'[s]),
         \A s \in Sources : Risk(s)' \in Int /\ Risk(s)' <= Risk(s)
  PROVE  Throttled'
<1>1. \A s \in Sources : Paced(s)'
  <2> SUFFICES ASSUME NEW s \in Sources PROVE Paced(s)' OBVIOUS
  <2>1. Paced(s) BY DEF Throttled
  <2> QED BY <2>1, PaceKept
<1>2. \A s \in Sources : (bucket[s] = NoBucket \/ IsBucket(bucket[s]))' BY DEF IsBucket, NoBucket
<1>3. conn' = [d \in Conns |-> conn'[d]] /\ \A d \in Conns : IsRequest(conn'[d])
  BY DEF Throttled
<1>4. (\A d \in Conns : IsRequest(conn[d]))' BY <1>3 DEF IsRequest
<1>5. GuessesBounded' BY DEF Throttled, GuessesBounded
<1> QED BY <1>1, <1>2, <1>3, <1>4, <1>5 DEF Throttled

(* A request risks nothing for the sources it does not come from.            *)
LEMMA OthersRiskTheSame ==
  ASSUME Throttled, NEW c \in Conns, NEW r, conn' = [conn EXCEPT ![c] = r],
         NEW s \in Sources, Source[c] # s, bucket'[s] = bucket[s], clock' = clock
  PROVE  Risk(s)' \in Int /\ Risk(s)' <= Risk(s)
<1>1. conn = [d \in Conns |-> conn[d]] BY DEF Throttled
<1>2. c \notin Underway(s) /\ c \notin Wrong(s) BY DEF Underway, Wrong, Local
<1>3. Local(s)' = Local(s) /\ Underway(s)' = Underway(s) /\ Wrong(s)' = Wrong(s)
  <2>1. /\ Local(s)' = Local(s)
        /\ Underway(s)' = Underway(s) \ {c} /\ Wrong(s)' = Wrong(s) \ {c}
    BY <1>1, Recounted
  <2> QED BY <1>2, <2>1
<1>4. Left(s)' = Left(s) BY Untouched
<1>5. Risk(s)' = Risk(s) BY <1>3, <1>4 DEF Risk
<1>6. Risk(s) \in Nat BY RiskIsNatural
<1> QED BY <1>5, <1>6

(* It risks no more for its own when it is not charged and starts to be      *)
(* judged with a token to spend.                                             *)
LEMMA NotChargedNotRisked ==
  ASSUME Throttled, NEW c \in Conns, NEW r, conn' = [conn EXCEPT ![c] = r],
         conn[c].at # "wrong", r.at # "wrong",
         NEW s \in Sources, Source[c] = s, Left(s)' = Left(s),
         r.at \in {"checked", "known"} => c \in Underway(s) \/ Left(s) >= 1
  PROVE  Risk(s)' \in Int /\ Risk(s)' <= Risk(s)
<1> DEFINE n == Cardinality(Local(s))
           u == Cardinality(Underway(s))
           v == Cardinality(Underway(s)')
           w == Cardinality(Wrong(s))
           left == Left(s)
           before == Risk(s)
           after == Risk(s)'
<1>1. conn = [d \in Conns |-> conn[d]] BY DEF Throttled
<1>2. c \notin Wrong(s) BY DEF Wrong
<1>3. /\ Local(s)' = Local(s) /\ Wrong(s)' = Wrong(s)
      /\ Underway(s)' = IF r.at \in {"checked", "known"} THEN Underway(s) \cup {c}
                        ELSE Underway(s) \ {c}
  <2>1. /\ Local(s)' = Local(s) /\ Wrong(s)' = Wrong(s) \ {c}
        /\ Underway(s)' = IF r.at \in {"checked", "known"} THEN Underway(s) \cup {c}
                          ELSE Underway(s) \ {c}
    BY <1>1, Recounted
  <2> QED BY <1>2, <2>1
<1>4. n \in Nat /\ u \in Nat /\ w \in Nat /\ left \in Nat
  BY Counts, Remainder, HttpAssumption
<1>5. left < 1 => Underway(s)' \subseteq Underway(s)
  <2> SUFFICES ASSUME left < 1 PROVE Underway(s)' \subseteq Underway(s) OBVIOUS
  <2>1. ~(left >= 1) BY <1>4
  <2> QED BY <1>3, <2>1
<1>6. IsFiniteSet(Underway(s)) BY Counts
<1>7. left < 1 => v \in Nat /\ v <= u BY <1>5, <1>6, FS_Subset, FS_CardinalityType
<1>8. before = IF left >= 1 THEN left - w + n - 1 ELSE u BY DEF Risk
<1>9. after = IF left >= 1 THEN left - w + n - 1 ELSE v BY <1>3 DEF Risk
<1> HIDE DEF n, u, v, w, left, before, after
<1>10. after \in Int /\ after <= before BY <1>4, <1>7, <1>8, <1>9
<1> QED BY <1>10 DEF before, after

LEMMA ThrottleAtArrive == ASSUME Throttled, NEW c \in Conns, Arrive(c) PROVE Throttled'
<1> DEFINE s == Source[c]
           b == Probed(s)
           q == [at |-> "checked", token |-> Head(tries[c]), known |-> {}, seen |-> current]
           q1 == [q EXCEPT !.at = Served]
           q2 == [q EXCEPT !.at = IF b.tokens >= 1 THEN @ ELSE "429"]
           r == IF bind = "loopback" THEN q1 ELSE q2
<1>1. /\ phase = "serving" /\ phase' = phase /\ clock' = clock /\ guesses' = guesses
      /\ conn[c].at = "idle" /\ s \in Sources
  BY DEF Arrive, processVars, timeVars, Sources
<1>2. conn' = [conn EXCEPT ![c] = r]
      /\ bucket' = IF bind = "loopback" THEN bucket ELSE [bucket EXCEPT ![s] = b]
  BY DEF Arrive
<1>3. /\ IsRequest(r) /\ r.at \in {"checked", "429", Served}
      /\ r.at = "checked" => b.tokens >= 1
  BY DEF IsRequest, Served
<1>4. IsBucket(b) /\ b.refilled = clock BY <1>1, Remainder
<1> HIDE DEF b, r
<1>5. /\ bucket = [x \in Sources |-> bucket[x]]
      /\ \A x \in Sources : bucket[x] = NoBucket \/ IsBucket(bucket[x])
  BY DEF Throttled
<1>6. /\ bucket' = [x \in Sources |-> bucket'[x]]
      /\ \A x \in Sources : bucket'[x] = NoBucket \/ IsBucket(bucket'[x])
      /\ \A x \in Sources \ {s} : bucket'[x] = bucket[x]
      /\ bucket'[s] \in {bucket[s], b}
  BY <1>1, <1>2, <1>4, <1>5
<1>7. b.tokens = Left(s) BY DEF Left, b
<1>8. \A x \in Sources : x = s => Left(x)' = Left(x)
  <2> SUFFICES ASSUME NEW x \in Sources, x = s PROVE Left(x)' = Left(x) OBVIOUS
  <2>1. CASE bucket'[x] = bucket[x] BY <1>1, <2>1, Untouched
  <2>2. CASE bucket'[x] = b
    <3>1. Left(x)' = b.tokens BY <1>1, <1>4, <2>2, Refilled
    <3>2. Left(x) = b.tokens BY DEF Left, b
    <3> QED BY <3>1, <3>2
  <2> QED BY <1>6, <2>1, <2>2
<1>9. \A x \in Sources : Risk(x)' \in Int /\ Risk(x)' <= Risk(x)
  <2> SUFFICES ASSUME NEW x \in Sources PROVE Risk(x)' \in Int /\ Risk(x)' <= Risk(x) OBVIOUS
  <2>1. CASE x # s BY <1>1, <1>2, <1>6, <2>1, OthersRiskTheSame
  <2>2. CASE x = s
    <3>1. r.at \in {"checked", "known"} => Left(x) >= 1 BY <1>3, <1>7, <2>2 DEF Served
    <3>2. conn[c].at # "wrong" /\ r.at # "wrong" BY <1>1, <1>3 DEF Served
    <3>3. Left(x)' = Left(x) BY <1>8, <2>2
    <3> QED BY <1>2, <2>2, <3>1, <3>2, <3>3, NotChargedNotRisked
  <2> QED BY <2>1, <2>2
<1> QED BY <1>1, <1>2, <1>3, <1>6, <1>9, OneRequestMoves

(* A request that is judged, found right or answered.                        *)
LEMMA ThrottleAtMoves ==
  ASSUME Throttled, NEW c \in Conns, NEW r, IsRequest(r), conn' = [conn EXCEPT ![c] = r],
         conn[c].at \notin {"idle", "wrong"}, r.at # "wrong",
         r.at \in {"checked", "known"} => conn[c].at \in {"checked", "known"},
         phase' = phase, clock' = clock, guesses' = guesses, bucket' = bucket
  PROVE  Throttled'
<1>1. phase = "serving" BY DEF Throttled
<1>2. /\ bucket' = [x \in Sources |-> bucket'[x]]
      /\ \A x \in Sources : bucket'[x] = NoBucket \/ IsBucket(bucket'[x])
  BY DEF Throttled
<1>3. \A x \in Sources : Risk(x)' \in Int /\ Risk(x)' <= Risk(x)
  <2> SUFFICES ASSUME NEW x \in Sources PROVE Risk(x)' \in Int /\ Risk(x)' <= Risk(x) OBVIOUS
  <2>1. CASE x # Source[c] BY <2>1, OthersRiskTheSame
  <2>2. CASE x = Source[c]
    <3>1. Left(x)' = Left(x) BY Untouched
    <3>2. r.at \in {"checked", "known"} => c \in Underway(x) BY <2>2 DEF Underway, Local
    <3> QED BY <2>2, <3>1, <3>2, NotChargedNotRisked
  <2> QED BY <2>1, <2>2
<1> QED BY <1>1, <1>2, <1>3, OneRequestMoves

LEMMA ThrottleAtSnapshot == ASSUME Throttled, NEW c \in Conns, Snapshot(c) PROVE Throttled'
<1> DEFINE a == conn[c]
           tokens == active
           a1 == [a EXCEPT !.at = "known"]
           r == [a1 EXCEPT !.known = tokens]
<1>1. /\ conn' = [conn EXCEPT ![c].at = "known", ![c].known = tokens] /\ a.at = "checked"
      /\ phase' = phase /\ clock' = clock /\ guesses' = guesses /\ bucket' = bucket
  BY DEF Snapshot, processVars, timeVars
<1>2. IsRequest(a) /\ conn = [d \in Conns |-> conn[d]] BY DEF Throttled
<1> HIDE DEF tokens
<1>3. conn' = [conn EXCEPT ![c] = r] BY <1>1, <1>2
<1> HIDE DEF a
<1>4. a = [at |-> a.at, token |-> a.token, known |-> a.known, seen |-> a.seen] BY <1>2 DEF IsRequest
<1>5. a1 = [at |-> "known", token |-> a.token, known |-> a.known, seen |-> a.seen] BY <1>4
<1> HIDE DEF a1
<1>6. r = [at |-> "known", token |-> a.token, known |-> tokens, seen |-> a.seen] BY <1>5
<1> HIDE DEF r
<1>7. IsRequest(r) /\ r.at = "known" BY <1>6 DEF IsRequest
<1> QED BY <1>1, <1>3, <1>7, ThrottleAtMoves DEF a

LEMMA ThrottleAtAnswered == ASSUME Throttled, NEW c \in Conns, Answered(c) PROVE Throttled'
<1>1. /\ conn' = [conn EXCEPT ![c] = NoRequest] /\ conn[c].at \in {Served, "401", "429"}
      /\ phase' = phase /\ clock' = clock /\ guesses' = guesses /\ bucket' = bucket
  BY DEF Answered, processVars, timeVars
<1> DEFINE r == NoRequest
<1>2. IsRequest(r) /\ r.at = "idle" BY DEF IsRequest, NoRequest
<1> HIDE DEF r
<1>3. conn' = [conn EXCEPT ![c] = r] BY <1>1 DEF r
<1> QED BY <1>1, <1>2, <1>3, ThrottleAtMoves DEF Served

(* A charge takes the token that the request was counted for.                *)
LEMMA ThrottleAtRecordFailure == ASSUME Throttled, NEW c \in Conns, RecordFailure(c) PROVE Throttled'
<1> DEFINE s == Source[c]
           b == Consumed(Probed(s))
           a == conn[c]
           r == [a EXCEPT !.at = "401"]
<1>1. /\ a.at = "wrong" /\ s \in Sources
      /\ phase' = phase /\ clock' = clock /\ guesses' = guesses
      /\ bucket' = [bucket EXCEPT ![s] = b] /\ conn' = [conn EXCEPT ![c].at = "401"]
  BY DEF RecordFailure, processVars, timeVars, Sources
<1>2. phase = "serving" /\ IsRequest(a) /\ conn = [d \in Conns |-> conn[d]]
  BY <1>1 DEF Throttled
<1>3. conn' = [conn EXCEPT ![c] = r] BY <1>1, <1>2
<1>4. IsRequest(r) /\ r.at = "401"
  <2> HIDE DEF a
  <2>1. a = [at |-> a.at, token |-> a.token, known |-> a.known, seen |-> a.seen]
    BY <1>2 DEF IsRequest
  <2>2. r = [at |-> "401", token |-> a.token, known |-> a.known, seen |-> a.seen] BY <2>1
  <2> HIDE DEF r
  <2> QED BY <2>2 DEF IsRequest
<1> HIDE DEF r
<1>5. IsBucket(b) /\ b.refilled = clock /\ b.tokens = IF Left(s) > 0 THEN Left(s) - 1 ELSE 0
  BY <1>1, Charged
<1> HIDE DEF b
<1>6. /\ bucket' = [x \in Sources |-> bucket'[x]]
      /\ \A x \in Sources : bucket'[x] = NoBucket \/ IsBucket(bucket'[x])
      /\ \A x \in Sources \ {s} : bucket'[x] = bucket[x]
      /\ bucket'[s] = b
  BY <1>1, <1>5 DEF Throttled
<1>7. \A x \in Sources : Risk(x)' \in Int /\ Risk(x)' <= Risk(x)
  <2> SUFFICES ASSUME NEW x \in Sources PROVE Risk(x)' \in Int /\ Risk(x)' <= Risk(x) OBVIOUS
  <2>1. CASE x # s BY <1>1, <1>2, <1>3, <1>6, <2>1, OthersRiskTheSame
  <2>2. CASE x = s
    <3> DEFINE n == Cardinality(Local(x))
               u == Cardinality(Underway(x))
               w == Cardinality(Wrong(x))
               left == Left(x)
               later == Left(x)'
               before == Risk(x)
               after == Risk(x)'
    <3>1. c \in Wrong(x) /\ c \notin Underway(x) BY <1>1, <2>2 DEF Wrong, Underway, Local
    <3>2. /\ Local(x)' = Local(x)
          /\ Underway(x)' = Underway(x) \ {c} /\ Wrong(x)' = Wrong(x) \ {c}
      BY <1>2, <1>3, <1>4, Recounted
    <3>3. Underway(x)' = Underway(x) BY <3>1, <3>2
    <3>4. Cardinality(Wrong(x)') = w - 1
      <4>1. IsFiniteSet(Wrong(x)) BY Counts
      <4> QED BY <3>1, <3>2, <4>1, FS_RemoveElement
    <3>5. /\ n \in Nat /\ u \in Nat /\ w \in Nat /\ u + w <= n /\ left \in Nat
      BY Counts, Remainder, HttpAssumption
    <3>6. later = IF left > 0 THEN left - 1 ELSE 0
      <4>1. later = b.tokens BY <1>1, <1>5, <1>6, <2>2, Refilled
      <4> QED BY <1>5, <2>2, <4>1
    <3>7. before = IF left >= 1 THEN left - w + n - 1 ELSE u BY DEF Risk
    <3>8. after = IF later >= 1 THEN later - (w - 1) + n - 1 ELSE u BY <3>2, <3>3, <3>4 DEF Risk
    <3> HIDE DEF n, u, w, left, later, before, after
    <3>9. CASE left >= 2 BY <3>5, <3>6, <3>7, <3>8, <3>9 DEF before, after
    <3>10. CASE left = 1 BY <3>5, <3>6, <3>7, <3>8, <3>10 DEF before, after
    <3>11. CASE left = 0 BY <3>5, <3>6, <3>7, <3>8, <3>11 DEF before, after
    <3> QED BY <3>5, <3>9, <3>10, <3>11
  <2> QED BY <2>1, <2>2
<1> QED BY <1>1, <1>2, <1>3, <1>4, <1>6, <1>7, OneRequestMoves

(* The bound, for one source.                                                *)
Bounded(s) ==
  \A i, j \in 1 .. Len(guesses[s]) : i =< j =>
     j - i + 1 =< Burst + Rate * (guesses[s][j] - guesses[s][i])
                    + (Cardinality(Local(s)) - 1) * (Rate * (guesses[s][j] - guesses[s][i]) + 1)

(* A wrong guess takes one from what the source still risks.                 *)
LEMMA GuessTakesOne ==
  ASSUME Throttled, NEW c \in Conns, NEW r, conn' = [conn EXCEPT ![c] = r],
         conn[c].at = "known", r.at = "wrong",
         NEW s \in Sources, Source[c] = s, bucket'[s] = bucket[s], clock' = clock
  PROVE  /\ Risk(s)' \in Nat /\ Risk(s)' = Risk(s) - 1
         /\ 1 + Risk(s)' <= Burst + Cardinality(Local(s)) - 1
<1> DEFINE n == Cardinality(Local(s))
           u == Cardinality(Underway(s))
           w == Cardinality(Wrong(s))
           left == Left(s)
           before == Risk(s)
           after == Risk(s)'
<1>1. c \in Underway(s) /\ c \notin Wrong(s) BY DEF Wrong, Underway, Local
<1>2. conn = [d \in Conns |-> conn[d]] BY DEF Throttled
<1>3. /\ Local(s)' = Local(s)
      /\ Underway(s)' = Underway(s) \ {c} /\ Wrong(s)' = Wrong(s) \cup {c}
  BY <1>2, Recounted
<1>4. IsFiniteSet(Wrong(s)) /\ IsFiniteSet(Underway(s)) BY Counts
<1>5. Cardinality(Underway(s)') = u - 1 BY <1>1, <1>3, <1>4, FS_RemoveElement
<1>6. Cardinality(Wrong(s)') = w + 1
  <2>1. Cardinality(Wrong(s) \cup {c}) = w + 1 BY <1>1, <1>4, FS_AddElement
  <2> QED BY <1>3, <2>1
<1>7. /\ n \in Nat \ {0} /\ u \in Nat /\ w \in Nat /\ u + w <= n /\ left \in 0 .. Burst
      /\ Burst \in Nat \ {0}
  BY Counts, Remainder, HttpAssumption
<1>8. u # 0 BY <1>1, <1>4, FS_EmptySet
<1>9. Left(s)' = left BY Untouched
<1>10. before = IF left >= 1 THEN left - w + n - 1 ELSE u BY DEF Risk
<1>11. after = IF left >= 1 THEN left - (w + 1) + n - 1 ELSE u - 1
  BY <1>3, <1>5, <1>6, <1>9 DEF Risk
<1> HIDE DEF n, u, w, left, before, after
<1>12. after \in Nat /\ after = before - 1 /\ 1 + after <= Burst + n - 1
  <2>1. CASE left >= 1 BY <1>7, <1>8, <1>10, <1>11, <2>1
  <2>2. CASE left = 0 BY <1>7, <1>8, <1>10, <1>11, <2>2
  <2> QED BY <1>7, <2>1, <2>2
<1> QED BY <1>12 DEF n, before, after

LEMMA GuessTimes ==
  ASSUME Throttled, NEW s \in Sources, NEW i \in 1 .. Len(guesses[s])
  PROVE  guesses[s][i] \in Nat
<1> DEFINE g == guesses[s]
<1>1. g \in Seq(Nat) /\ i \in 1 .. Len(g) BY DEF Throttled
<1> HIDE DEF g
<1>2. g[i] \in Nat BY <1>1
<1> QED BY <1>2 DEF g

LEMMA PacedAtGuess ==
  ASSUME Throttled, NEW s \in Sources, Paced(s), Bounded(s),
         Risk(s)' \in Nat, Risk(s)' = Risk(s) - 1,
         1 + Risk(s)' <= Burst + Cardinality(Local(s)) - 1,
         guesses'[s] = Append(guesses[s], clock), clock' = clock
  PROVE  Paced(s)' /\ Bounded(s)'
<1> DEFINE g == guesses[s]
           h == guesses'[s]
           len == Len(g)
           n == Cardinality(Local(s))
           before == Risk(s)
           after == Risk(s)'
<1>1. g \in Seq(Nat) /\ clock \in Nat /\ \A i \in 1 .. Len(g) : g[i] <= clock BY DEF Throttled
<1>2. /\ h \in Seq(Nat) /\ len \in Nat /\ Len(h) = len + 1 /\ h[len + 1] = clock
      /\ \A i \in 1 .. len : h[i] = g[i]
  BY <1>1
<1>3. Local(s)' = Local(s) BY DEF Local
<1>4. n \in Nat \ {0} /\ Burst \in Nat \ {0} /\ Rate \in Nat BY Counts, HttpAssumption
<1>5. before \in Nat /\ after \in Nat /\ after = before - 1 /\ 1 + after <= Burst + n - 1
  BY RiskIsNatural
<1> HIDE DEF h, len, n, before, after
<1>6. \A i \in 1 .. len + 1 : i \in Nat /\ h[i] \in Nat /\ (i = len + 1 \/ i \in 1 .. len)
  <2> SUFFICES ASSUME NEW i \in 1 .. len + 1
               PROVE  i \in Nat /\ h[i] \in Nat /\ (i = len + 1 \/ i \in 1 .. len)
    OBVIOUS
  <2>1. len \in Nat BY <1>2
  <2>2. i \in Nat /\ (i = len + 1 \/ i \in 1 .. len) BY <2>1
  <2>3. CASE i = len + 1 BY <1>1, <1>2, <2>2, <2>3
  <2>4. CASE i \in 1 .. len
    <3>1. g[i] \in Nat BY <2>4, GuessTimes DEF len
    <3> QED BY <1>2, <2>2, <2>4, <3>1
  <2> QED BY <2>2, <2>3, <2>4
<1>7. ASSUME NEW i \in 1 .. len + 1
      PROVE  len + 1 - i + 1 + after <= Allowance(s, h[i])
  <2> DEFINE t == h[i]
             all == Allowance(s, t)
  <2>1. t \in Nat BY <1>6
  <2>2. all \in Int /\ (t = clock => all = Burst + n - 1) BY <2>1, AllowanceIsNumber DEF n
  <2>3. CASE i = len + 1
    <3>1. t = clock BY <1>2, <2>3
    <3> HIDE DEF t, all
    <3> QED BY <1>2, <1>5, <2>2, <2>3, <3>1 DEF t, all
  <2>4. CASE i \in 1 .. len
    <3>1. len - i + 1 + before <= Allowance(s, g[i]) BY <2>4 DEF Paced, len, before
    <3>2. t = g[i] BY <1>2, <2>4
    <3>3. len - i + 1 + before <= all BY <3>1, <3>2
    <3> HIDE DEF t, all
    <3> QED BY <1>2, <1>5, <2>2, <2>4, <3>3 DEF t, all
  <2> QED BY <1>6, <2>3, <2>4
<1>8. Paced(s)'
  <2>1. \A t : Allowance(s, t)' = Allowance(s, t) BY <1>3 DEF Allowance
  <2> QED BY <1>2, <1>7, <2>1 DEF Paced, h, after
<1>9. ASSUME NEW i \in 1 .. len + 1, NEW j \in 1 .. len + 1, i <= j
      PROVE  j - i + 1 <= Burst + Rate * (h[j] - h[i]) + (n - 1) * (Rate * (h[j] - h[i]) + 1)
  <2>1. CASE j = len + 1
    <3> DEFINE t == h[i]
               d == clock - t
               x == Rate * d
    <3>1. h[j] = clock /\ t \in Nat /\ i \in Nat BY <1>2, <1>6, <2>1
    <3>2. len + 1 - i + 1 + after <= Burst + n - 1 + n * x BY <1>7 DEF Allowance, n
    <3> HIDE DEF t
    <3>3. d \in Int BY <1>1, <3>1
    <3> HIDE DEF d
    <3>4. x \in Int BY <1>4, <3>3
    <3> HIDE DEF x
    <3>5. n * x \in Int /\ (n - 1) * (x + 1) = n * x - x + n - 1 BY <1>4, <3>4
    <3>6. j - i + 1 <= Burst + x + (n - 1) * (x + 1)
      BY <1>2, <1>4, <1>5, <2>1, <3>1, <3>2, <3>4, <3>5
    <3> QED BY <3>1, <3>6 DEF x, d, t
  <2>2. CASE j \in 1 .. len
    <3>1. i \in 1 .. len
      <4>1. len \in Nat BY <1>2
      <4> QED BY <1>9, <2>2, <4>1
    <3>2. h[i] = g[i] /\ h[j] = g[j] BY <1>2, <2>2, <3>1
    <3>3. j - i + 1 <= Burst + Rate * (g[j] - g[i]) + (n - 1) * (Rate * (g[j] - g[i]) + 1)
      BY <1>9, <2>2, <3>1 DEF Bounded, len, n
    <3> DEFINE y == h[j] - h[i]
               z == g[j] - g[i]
    <3>4. y = z BY <3>2
    <3>5. j - i + 1 <= Burst + Rate * z + (n - 1) * (Rate * z + 1) BY <3>3
    <3> HIDE DEF y, z
    <3>6. j - i + 1 <= Burst + Rate * y + (n - 1) * (Rate * y + 1) BY <3>4, <3>5
    <3> QED BY <3>6 DEF y
  <2> QED BY <1>6, <2>1, <2>2
<1>10. Bounded(s)' BY <1>2, <1>3, <1>9 DEF Bounded, h, n
<1> QED BY <1>8, <1>10

LEMMA ThrottleAtJudge == ASSUME Throttled, NEW c \in Conns, Judge(c) PROVE Throttled'
<1> DEFINE s == Source[c]
           a == conn[c]
           right == [a EXCEPT !.at = Served]
           wrong == [a EXCEPT !.at = "wrong"]
<1>1. /\ a.at = "known" /\ s \in Sources
      /\ phase' = phase /\ clock' = clock /\ bucket' = bucket
  BY DEF Judge, processVars, timeVars, Sources
<1>2. phase = "serving" /\ IsRequest(a) /\ conn = [d \in Conns |-> conn[d]]
  BY <1>1 DEF Throttled
<1>3. \/ conn' = [conn EXCEPT ![c] = right] /\ guesses' = guesses
      \/ /\ conn' = [conn EXCEPT ![c] = wrong]
         /\ guesses' = [guesses EXCEPT ![s] = Append(@, clock)]
  BY <1>2 DEF Judge
<1>4. IsRequest(right) /\ right.at = Served /\ IsRequest(wrong) /\ wrong.at = "wrong"
  <2> HIDE DEF a
  <2>1. a = [at |-> a.at, token |-> a.token, known |-> a.known, seen |-> a.seen]
    BY <1>2 DEF IsRequest
  <2>2. /\ right = [at |-> Served, token |-> a.token, known |-> a.known, seen |-> a.seen]
        /\ wrong = [at |-> "wrong", token |-> a.token, known |-> a.known, seen |-> a.seen]
    BY <2>1
  <2> HIDE DEF right, wrong
  <2> QED BY <2>2 DEF IsRequest
<1> HIDE DEF right, wrong
<1>5. CASE conn' = [conn EXCEPT ![c] = right] /\ guesses' = guesses
  <2>1. right.at \notin {"wrong", "checked", "known"} BY <1>4 DEF Served
  <2> QED BY <1>1, <1>4, <1>5, <2>1, ThrottleAtMoves
<1>6. CASE /\ conn' = [conn EXCEPT ![c] = wrong]
           /\ guesses' = [guesses EXCEPT ![s] = Append(@, clock)]
  <2>1. guesses \in [Sources -> Seq(Nat)] /\ clock \in Nat BY DEF Throttled
  <2>2. /\ guesses' \in [Sources -> Seq(Nat)]
        /\ guesses'[s] = Append(guesses[s], clock)
        /\ \A x \in Sources \ {s} : guesses'[x] = guesses[x]
    <3>1. guesses[s] \in Seq(Nat) BY <1>1, <2>1
    <3>2. Append(guesses[s], clock) \in Seq(Nat) BY <2>1, <3>1
    <3> QED BY <1>1, <1>6, <2>1, <3>2
  <2>3. \A x \in Sources : Bounded(x) /\ Paced(x)
    BY <1>2 DEF Throttled, GuessesBounded, Bounded, Local
  <2>4. \A x \in Sources : Bounded(x)' /\ Paced(x)'
    <3> SUFFICES ASSUME NEW x \in Sources PROVE Bounded(x)' /\ Paced(x)' OBVIOUS
    <3>1. CASE x # s
      <4>1. guesses'[x] = guesses[x] BY <2>2, <3>1
      <4>2. Bounded(x)'
        <5>1. Local(x)' = Local(x) BY DEF Local
        <5>2. Bounded(x) BY <2>3
        <5> QED BY <4>1, <5>1, <5>2 DEF Bounded
      <4>3. Risk(x)' \in Int /\ Risk(x)' <= Risk(x) BY <1>1, <1>6, <3>1, OthersRiskTheSame
      <4>4. Paced(x)' BY <1>1, <2>3, <4>1, <4>3, PaceKept
      <4> QED BY <4>2, <4>4
    <3>2. CASE x = s
      <4>1. /\ Risk(x)' \in Nat /\ Risk(x)' = Risk(x) - 1
            /\ 1 + Risk(x)' <= Burst + Cardinality(Local(x)) - 1
        BY <1>1, <1>4, <1>6, <3>2, GuessTakesOne
      <4>2. guesses'[x] = Append(guesses[x], clock) BY <2>2, <3>2
      <4> QED BY <1>1, <2>3, <4>1, <4>2, PacedAtGuess
    <3> QED BY <3>1, <3>2
  <2>5. GuessesBounded' BY <2>4 DEF GuessesBounded, Bounded, Local
  <2>6. \A x \in Sources : \A k \in 1 .. Len(guesses'[x]) : guesses'[x][k] <= clock
    <3> SUFFICES ASSUME NEW x \in Sources, NEW k \in 1 .. Len(guesses'[x])
                 PROVE  guesses'[x][k] <= clock
      OBVIOUS
    <3>1. \A j \in 1 .. Len(guesses[x]) : guesses[x][j] <= clock BY DEF Throttled
    <3>2. CASE x # s BY <2>2, <3>1, <3>2
    <3>3. CASE x = s
      <4> DEFINE g == guesses[x]
                 h == guesses'[x]
      <4>1. g \in Seq(Nat) /\ h = Append(g, clock) BY <2>1, <2>2, <3>3
      <4> HIDE DEF g, h
      <4>2. Len(h) = Len(g) + 1 /\ h[Len(g) + 1] = clock /\ \A j \in 1 .. Len(g) : h[j] = g[j]
        BY <2>1, <4>1
      <4>3. Len(g) \in Nat BY <4>1
      <4>4. k = Len(g) + 1 \/ k \in 1 .. Len(g)
        <5>1. k \in 1 .. Len(g) + 1 BY <4>2 DEF h
        <5> QED BY <4>3, <5>1
      <4>5. CASE k = Len(g) + 1 BY <2>1, <4>2, <4>5 DEF h
      <4>6. CASE k \in 1 .. Len(g) BY <3>1, <4>2, <4>6 DEF g, h
      <4> QED BY <4>4, <4>5, <4>6
    <3> QED BY <3>2, <3>3
  <2>7. /\ bucket' = [x \in Sources |-> bucket'[x]]
        /\ \A x \in Sources : (bucket[x] = NoBucket \/ IsBucket(bucket[x]))'
    BY <1>1 DEF Throttled, IsBucket, NoBucket
  <2>8. /\ conn' = [d \in Conns |-> conn'[d]]
        /\ \A d \in Conns : IsRequest(conn'[d])
    BY <1>2, <1>4, <1>6 DEF Throttled
  <2>9. (\A d \in Conns : IsRequest(conn[d]))' BY <2>8 DEF IsRequest
  <2> QED BY <1>1, <1>2, <2>1, <2>2, <2>4, <2>5, <2>6, <2>7, <2>8, <2>9 DEF Throttled
<1> QED BY <1>3, <1>5, <1>6

-----------------------------------------------------------------------------
(* The inductive step of the throttle, for everything else.                  *)

LEMMA ThrottleAtSweep == ASSUME Unhurried, Throttled, SweepIdle PROVE Throttled'
<1>1. /\ phase = "serving" /\ phase' = phase /\ clock' = clock /\ guesses' = guesses
      /\ conn' = conn /\ bucket' = [s \in Sources |-> bucket'[s]]
  BY DEF SweepIdle, processVars, timeVars
<1>2. \A s \in Sources : bucket'[s] \in {NoBucket, bucket[s]} /\ Left(s)' = Left(s)
  BY SweptAreFull
<1>3. \A s \in Sources : Paced(s)'
  <2> SUFFICES ASSUME NEW s \in Sources PROVE Paced(s)' OBVIOUS
  <2>1. Local(s)' = Local(s) /\ Underway(s)' = Underway(s) /\ Wrong(s)' = Wrong(s)
    BY <1>1 DEF Local, Underway, Wrong
  <2>2. Risk(s)' = Risk(s) BY <1>2, <2>1 DEF Risk
  <2>3. Risk(s) \in Nat BY RiskIsNatural
  <2>4. Risk(s)' \in Int /\ Risk(s)' <= Risk(s) BY <2>2, <2>3
  <2>5. Paced(s) BY <1>1 DEF Throttled
  <2> QED BY <1>1, <2>4, <2>5, PaceKept
<1>4. \A s \in Sources : (bucket[s] = NoBucket \/ IsBucket(bucket[s]))'
  <2> SUFFICES ASSUME NEW s \in Sources PROVE (bucket[s] = NoBucket \/ IsBucket(bucket[s]))' OBVIOUS
  <2>1. bucket[s] = NoBucket \/ IsBucket(bucket[s]) BY DEF Throttled
  <2> QED BY <1>1, <1>2, <2>1 DEF IsBucket, NoBucket
<1>5. GuessesBounded' BY <1>1 DEF Throttled, GuessesBounded
<1> QED BY <1>1, <1>3, <1>4, <1>5 DEF Throttled, IsRequest

LEMMA ThrottleAtTick == ASSUME Throttled, Tick PROVE Throttled'
<1>1. /\ phase = "serving" /\ phase' = phase /\ clock' = clock + 1 /\ guesses' = guesses
      /\ conn' = conn /\ bucket' = bucket
  BY DEF Tick, processVars, requestVars
<1>2. \A s \in Sources : Paced(s)'
  <2> SUFFICES ASSUME NEW s \in Sources PROVE Paced(s)' OBVIOUS
  <2>1. Paced(s) BY <1>1 DEF Throttled
  <2> QED BY <2>1, PaceTicks
<1>3. clock \in Nat /\ clock' \in Nat BY <1>1 DEF Throttled
<1>4. \A s \in Sources : (bucket[s] = NoBucket \/ IsBucket(bucket[s]))'
  <2> SUFFICES ASSUME NEW s \in Sources, bucket[s] # NoBucket PROVE IsBucket(bucket[s])'
    BY <1>1 DEF NoBucket
  <2> DEFINE b == bucket[s]
  <2>1. IsBucket(b) BY DEF Throttled
  <2>2. b' = b BY <1>1
  <2>3. b.refilled <= clock' BY <1>1, <1>3, <2>1 DEF IsBucket
  <2> QED BY <2>1, <2>2, <2>3 DEF IsBucket
<1>5. GuessesBounded' BY <1>1 DEF Throttled, GuessesBounded
<1>6. \A s \in Sources : \A k \in 1 .. Len(guesses[s]) : guesses[s][k] <= clock'
  <2> SUFFICES ASSUME NEW s \in Sources, NEW k \in 1 .. Len(guesses[s])
               PROVE  guesses[s][k] <= clock'
    OBVIOUS
  <2> DEFINE t == guesses[s][k]
  <2>1. t \in Nat BY GuessTimes
  <2>2. t <= clock BY DEF Throttled
  <2> HIDE DEF t
  <2>3. t <= clock' BY <1>1, <1>3, <2>1, <2>2
  <2> QED BY <2>3 DEF t
<1> QED BY <1>1, <1>2, <1>3, <1>4, <1>5, <1>6 DEF Throttled, IsRequest

(* Nothing the throttle looks at changes, but for the phase and what the     *)
(* requests have seen.                                                       *)
LEMMA ThrottleElsewhere ==
  ASSUME Throttled, bucket' = bucket, guesses' = guesses, clock' = clock,
         conn' = [c \in Conns |-> conn'[c]], \A c \in Conns : IsRequest(conn'[c]),
         \/ phase' = phase /\ \A c \in Conns : conn'[c].at = conn[c].at
         \/ phase' # "down" /\ (\A s \in Sources : guesses[s] = <<>>) /\ conn' = conn /\ phase = "down"
         \/ phase' \notin {"down", "serving"} /\ \A c \in Conns : conn'[c].at = "idle"
  PROVE  Throttled'
<1>1. GuessesBounded' BY DEF Throttled, GuessesBounded
<1>2. (\A c \in Conns : IsRequest(conn[c]))' BY DEF IsRequest
<1>3. \A s \in Sources : (bucket[s] = NoBucket \/ IsBucket(bucket[s]))'
  BY DEF Throttled, IsBucket, NoBucket
<1>4. /\ phase' # "serving" => \A c \in Conns : conn'[c].at = "idle"
      /\ phase' = "down" => \A s \in Sources : guesses[s] = <<>>
  BY DEF Throttled
<1>5. phase' = "serving" => \A s \in Sources : Paced(s)'
  <2> SUFFICES ASSUME phase' = "serving", NEW s \in Sources PROVE Paced(s)' OBVIOUS
  <2>1. CASE guesses[s] = <<>> BY <2>1 DEF Paced
  <2>2. CASE guesses[s] # <<>>
    <3>1. phase = "serving" /\ \A c \in Conns : conn'[c].at = conn[c].at BY <2>2
    <3>2. Local(s)' = Local(s) /\ Underway(s)' = Underway(s) /\ Wrong(s)' = Wrong(s)
      BY <3>1 DEF Local, Underway, Wrong
    <3>3. Left(s)' = Left(s) BY Untouched
    <3>4. Risk(s)' = Risk(s) BY <3>2, <3>3 DEF Risk
    <3>5. Risk(s) \in Nat BY RiskIsNatural
    <3>6. Risk(s)' \in Int /\ Risk(s)' <= Risk(s) BY <3>4, <3>5
    <3>7. Paced(s) BY <3>1 DEF Throttled
    <3> QED BY <3>6, <3>7, PaceKept
  <2> QED BY <2>1, <2>2
<1> QED BY <1>1, <1>2, <1>3, <1>4, <1>5 DEF Throttled

LEMMA ThrottleAtSwap == ASSUME Throttled, Swap PROVE Throttled'
<1> DEFINE new == current'
           Sees(r) == IF r.at = "idle" THEN r ELSE [r EXCEPT !.seen = @ \cup new]
<1>1. /\ phase' = phase /\ clock' = clock /\ guesses' = guesses /\ bucket' = bucket
      /\ conn' = [c \in Conns |-> Sees(conn[c])]
  BY DEF Swap, processVars, timeVars
<1> HIDE DEF new
<1>2. \A c \in Conns : IsRequest(conn'[c]) /\ conn'[c].at = conn[c].at
  <2> SUFFICES ASSUME NEW c \in Conns PROVE IsRequest(conn'[c]) /\ conn'[c].at = conn[c].at
    OBVIOUS
  <2> DEFINE a == conn[c]
             r == [a EXCEPT !.seen = @ \cup new]
  <2>1. IsRequest(a) BY DEF Throttled
  <2>2. conn'[c] = a \/ conn'[c] = r BY <1>1
  <2> HIDE DEF a
  <2>3. a = [at |-> a.at, token |-> a.token, known |-> a.known, seen |-> a.seen]
    BY <2>1 DEF IsRequest
  <2>4. r = [at |-> a.at, token |-> a.token, known |-> a.known, seen |-> a.seen \cup new] BY <2>3
  <2> HIDE DEF r
  <2>5. IsRequest(r) /\ r.at = a.at BY <2>4 DEF IsRequest
  <2> QED BY <2>1, <2>2, <2>5 DEF a
<1>3. conn' = [c \in Conns |-> conn'[c]] BY <1>1
<1> QED BY <1>1, <1>2, <1>3, ThrottleElsewhere

LEMMA NoRequestIsIdle == IsRequest(NoRequest) /\ NoRequest.at = "idle"
BY DEF IsRequest, NoRequest

LEMMA ThrottleAtOthers ==
  ASSUME Throttled,
         \/ Boot \/ InstallHandler \/ ReadFile \/ Edit \/ Hangup
         \/ SessionCall \/ ReadCutoff \/ SweepOnce \/ UNCHANGED httpVars
  PROVE  Throttled'
<1>1. /\ conn = [c \in Conns |-> conn[c]] /\ \A c \in Conns : IsRequest(conn[c])
      /\ phase = "down" => \A s \in Sources : guesses[s] = <<>>
  BY DEF Throttled
<1>2. CASE Boot
  <2>1. /\ phase = "down" /\ phase' \in {"serving", "refused"}
        /\ bucket' = bucket /\ guesses' = guesses /\ clock' = clock /\ conn' = conn
    BY <1>2 DEF Boot, requestVars, timeVars
  <2> QED BY <1>1, <2>1, ThrottleElsewhere
<1>3. CASE Hangup
  <2>1. /\ phase = "serving" /\ bucket' = bucket /\ guesses' = guesses /\ clock' = clock
        /\ \/ phase' = phase /\ conn' = conn
           \/ phase' = "killed" /\ conn' = [c \in Conns |-> NoRequest]
    BY <1>3 DEF Hangup, timeVars
  <2>2. CASE phase' = phase /\ conn' = conn BY <1>1, <2>1, <2>2, ThrottleElsewhere
  <2>3. CASE phase' = "killed" /\ conn' = [c \in Conns |-> NoRequest]
    <3>1. /\ conn' = [c \in Conns |-> conn'[c]]
          /\ \A c \in Conns : IsRequest(conn'[c])
          /\ \A c \in Conns : conn'[c].at = "idle"
      BY <2>3, NoRequestIsIdle
    <3>2. phase' \notin {"down", "serving"} BY <2>3
    <3> QED BY <2>1, <3>1, <3>2, ThrottleElsewhere
  <2> QED BY <2>1, <2>2, <2>3
<1>4. CASE InstallHandler \/ ReadFile \/ Edit \/ SessionCall \/ ReadCutoff \/ SweepOnce \/ UNCHANGED httpVars
  <2>1. /\ phase' = phase /\ bucket' = bucket /\ guesses' = guesses /\ clock' = clock
        /\ conn' = conn
    BY <1>4 DEF InstallHandler, ReadFile, Edit, SessionCall, ReadCutoff, SweepOnce, httpVars,
       processVars, requestVars, timeVars
  <2> QED BY <1>1, <2>1, ThrottleElsewhere
<1> QED BY <1>2, <1>3, <1>4

LEMMA ThrottledInitially == Init => Throttled
<1> SUFFICES ASSUME Init PROVE Throttled OBVIOUS
<1>1. /\ clock = 0 /\ phase = "down" /\ bucket = [s \in Sources |-> NoBucket]
      /\ guesses = [s \in Sources |-> <<>>] /\ conn = [c \in Conns |-> NoRequest]
  BY DEF Init
<1>2. \A s \in Sources : guesses[s] = <<>> /\ bucket[s] = NoBucket BY <1>1
<1>3. guesses \in [Sources -> Seq(Nat)] BY <1>1
<1>4. \A s \in Sources : 1 .. Len(guesses[s]) = {}
  <2> SUFFICES ASSUME NEW s \in Sources PROVE 1 .. Len(guesses[s]) = {} OBVIOUS
  <2>1. Len(guesses[s]) = 0 BY <1>2
  <2> QED BY <2>1
<1>5. GuessesBounded BY <1>4 DEF GuessesBounded
<1>6. \A c \in Conns : IsRequest(conn[c]) /\ conn[c].at = "idle" BY <1>1, NoRequestIsIdle
<1>7. bucket = [s \in Sources |-> bucket[s]] /\ conn = [c \in Conns |-> conn[c]] BY <1>1
<1> QED BY <1>1, <1>2, <1>3, <1>4, <1>5, <1>6, <1>7 DEF Throttled

LEMMA ThrottleKept == ASSUME Unhurried, Throttled, [Next]_httpVars PROVE Throttled'
<1>1. CASE Boot \/ InstallHandler \/ ReadFile \/ Edit \/ Hangup
           \/ SessionCall \/ ReadCutoff \/ SweepOnce \/ UNCHANGED httpVars
  BY <1>1, ThrottleAtOthers
<1>2. CASE Swap BY <1>2, ThrottleAtSwap
<1>3. CASE SweepIdle BY <1>3, ThrottleAtSweep
<1>4. CASE Tick BY <1>4, ThrottleAtTick
<1>5. CASE \E c \in Conns : Arrive(c) \/ Handle(c)
  <2> SUFFICES ASSUME NEW c \in Conns, Arrive(c) \/ Handle(c) PROVE Throttled' BY <1>5
  <2>1. CASE Arrive(c) BY <2>1, ThrottleAtArrive
  <2>2. CASE Snapshot(c) BY <2>2, ThrottleAtSnapshot
  <2>3. CASE Judge(c) BY <2>3, ThrottleAtJudge
  <2>4. CASE RecordFailure(c) BY <2>4, ThrottleAtRecordFailure
  <2>5. CASE Answered(c) BY <2>5, ThrottleAtAnswered
  <2> QED BY <2>1, <2>2, <2>3, <2>4, <2>5 DEF Handle
<1> QED BY <1>1, <1>2, <1>3, <1>4, <1>5 DEF Next, Reload

(* A source guesses no more in any interval than the burst, what the rate    *)
(* refilled, and one more per token for each further request it had under    *)
(* way: for any number of connections and sources, any burst and rate, and   *)
(* any window after which a bucket would be full again, as it is with the    *)
(* defaults. A shorter window forgets failures that still count              *)
(* (Throttle::check, record_failure, sweep_idle).                            *)
THEOREM GuessesArePaced == Unhurried => (Spec => []GuessesBounded)
<1> SUFFICES ASSUME Unhurried PROVE Spec => []GuessesBounded OBVIOUS
<1>1. Init => Throttled BY ThrottledInitially
<1>2. Throttled /\ [Next]_httpVars => Throttled' BY ThrottleKept
<1>3. Throttled => GuessesBounded BY DEF Throttled
<1> QED BY <1>1, <1>2, <1>3, PTL DEF Spec

=============================================================================
