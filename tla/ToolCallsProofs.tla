---------------------------- MODULE ToolCallsProofs ----------------------------
(* Proofs about ToolCalls: what the audit log keeps, for any number of calls,   *)
(* requests, days, failed writes and power losses.                              *)
EXTENDS ToolCalls, SequenceTheorems, FiniteSetTheorems, TLAPS

--------------------------------------------------------------------------------
(* The log *)

(* A row of call c that was written on day d. *)
RowOf(c, action, result, d) ==
    [call |-> c, tool |-> req[c].tool, account |-> Arg(c, "account"), params |-> ParamsSummary(c),
     action |-> action, result |-> result, day |-> d]

Tokens ==
    {Newline, Torn}
    \cup {RowOf(c, action, result, d) :
            c \in Calls, action \in {"intent", "dry_run", "applied"},
            result \in {"pending", "ok", "error"}, d \in Nat}

(* A row is no younger than the period of its file. *)
FitsIn(d, f) == HasPeriod(f) => PeriodEnd(f) \in Int /\ d <= PeriodEnd(f)
Dated(token, f) == token \in {Newline, Torn} \/ (token.day \in Nat /\ FitsIn(token.day, f))

LogWhole ==
    \A f \in DOMAIN files :
        /\ files[f] = [text |-> files[f].text, safe |-> files[f].safe]
        /\ files[f].text \in Seq(Tokens)
        /\ files[f].safe \in 0 .. Len(files[f].text)
        /\ \A i \in 1 .. Len(files[f].text) : Dated(files[f].text[i], f)

(* The write a call is in the middle of carries a row for the file of its day. *)
WriterOk(c) ==
    \/ writer[c] \in [at : {"none", "failed", "written"}]
    \/ /\ writer[c] = [at |-> writer[c].at, file |-> writer[c].file,
                       row |-> writer[c].row, sync |-> writer[c].sync]
       /\ writer[c].at \in {"text", "newline", "sync"}
       /\ writer[c].sync \in BOOLEAN
       /\ writer[c].row \in Tokens \ {Newline, Torn}
       /\ Dated(writer[c].row, writer[c].file)

LogInv ==
    /\ today \in Nat
    /\ rotate \in RotateModes
    /\ DOMAIN writer = Calls
    /\ LogWhole
    /\ \A c \in Calls : WriterOk(c)

--------------------------------------------------------------------------------

LEMMA Params == req' = req => \A c : ParamsSummary(c)' = ParamsSummary(c)
  BY DEF ParamsSummary, RedactThreadIds, DryRun, Arg

LEMMA SameRows ==
    ASSUME req' = req PROVE \A c, action, result, d : RowOf(c, action, result, d)' = RowOf(c, action, result, d)
  BY Params DEF RowOf, Arg

LEMMA SameTokens == ASSUME req' = req PROVE Tokens' = Tokens
  BY SameRows DEF Tokens

LEMMA RowsAreTokens ==
    ASSUME NEW c \in Calls, NEW action \in {"intent", "dry_run", "applied"},
           NEW result \in {"pending", "ok", "error"}, NEW d \in Nat
    PROVE  /\ RowOf(c, action, result, d) \in Tokens \ {Newline, Torn}
           /\ RowOf(c, action, result, d).day = d
  <1> DEFINE r == RowOf(c, action, result, d)
  <1>1. r \in Tokens
    BY DEF Tokens
  <1>2. "day" \in DOMAIN r /\ r.day = d
    BY DEF RowOf
  <1>3. "day" \notin DOMAIN Newline /\ "day" \notin DOMAIN Torn
    BY DEF Newline, Torn
  <1> QED
    BY <1>1, <1>2, <1>3

(* The file a row is written to ends its period today or later. *)
LEMMA TargetFits ==
    ASSUME today \in Nat, rotate \in RotateModes
    PROVE  FitsIn(today, Target(today))
  <1>1. CASE rotate.kind = "size"
    <2>1. Target(today)[1] = "size"
      BY <1>1 DEF Target, SizePath
    <2> QED
      BY <2>1 DEF FitsIn, HasPeriod
  <1>2. CASE rotate.kind # "size"
    <2>1. rotate.kind \in {"daily", "weekly"}
      BY <1>2, AuditAssumption
    <2> DEFINE P == PeriodDays(rotate.kind)
    <2>2. P \in {1, 2}
      BY DEF PeriodDays
    <2>3. Target(today) = <<rotate.kind, today \div P>>
      BY <1>2 DEF Target, FilenameAt
    <2>4. PeriodEnd(Target(today)) = ((today \div P) + 1) * P - 1
      BY <2>3 DEF PeriodEnd
    <2>5. ((today \div P) + 1) * P - 1 \in Int /\ today <= ((today \div P) + 1) * P - 1
      <3>1. CASE P = 1
        BY <3>1
      <3>2. CASE P = 2
        BY <3>2
      <3> QED
        BY <2>2, <3>1, <3>2
    <2> QED
      BY <2>4, <2>5 DEF FitsIn
  <1> QED
    BY <1>1, <1>2

--------------------------------------------------------------------------------
(* What one step does to the files *)

Has(f, row) == f \in DOMAIN files /\ \E i \in 1 .. Len(files[f].text) : files[f].text[i] = row

(* Nothing that was written goes away. *)
Grown ==
    \A f \in DOMAIN files :
        /\ f \in DOMAIN files'
        /\ files'[f].safe \in Nat /\ files'[f].safe >= files[f].safe
        /\ \A i \in 1 .. Len(files[f].text) :
              i \in 1 .. Len(files'[f].text) /\ files'[f].text[i] = files[f].text[i]

(* What a step may take of the rows that are durable, and of all that are written. *)
Spared ==
    \A f \in DOMAIN files : \A i \in 1 .. files[f].safe :
          files[f].text[i] \in {Newline, Torn}
          \/ (DeleteAfter > 0 /\ today - files[f].text[i].day >= DeleteAfter)
          \/ (f \in DOMAIN files' /\ i <= files'[f].safe /\ files'[f].text[i] = files[f].text[i])

SparedText ==
    \A f \in DOMAIN files : \A i \in 1 .. Len(files[f].text) :
          files[f].text[i] \in {Newline, Torn}
          \/ (DeleteAfter > 0 /\ today - files[f].text[i].day >= DeleteAfter)
          \/ (f \in DOMAIN files' /\ i <= Len(files'[f].text) /\ files'[f].text[i] = files[f].text[i])

LEMMA GrownSpares ==
    ASSUME LogWhole, Grown
    PROVE  Spared /\ SparedText
  <1>1. Spared
    <2> SUFFICES ASSUME NEW f \in DOMAIN files, NEW i \in 1 .. files[f].safe
                 PROVE  f \in DOMAIN files' /\ i <= files'[f].safe /\ files'[f].text[i] = files[f].text[i]
      BY DEF Spared
    <2>1. files[f].safe \in 0 .. Len(files[f].text) /\ files[f].text \in Seq(Tokens)
      BY DEF LogWhole
    <2>2. i \in 1 .. Len(files[f].text)
      BY <2>1
    <2>3. f \in DOMAIN files' /\ files'[f].safe \in Nat /\ files'[f].safe >= files[f].safe
          /\ files'[f].text[i] = files[f].text[i]
      BY <2>2 DEF Grown
    <2> QED
      BY <2>1, <2>3
  <1>2. SparedText
    BY DEF SparedText, Grown, LogWhole
  <1> QED
    BY <1>1, <1>2

LEMMA AppendKeeps ==
    ASSUME LogWhole, Tokens' = Tokens, NEW f, NEW token \in Tokens, Dated(token, f),
           files' = Appended(f, token)
    PROVE  /\ LogWhole'
           /\ Grown
           /\ Has(f, token)'
  <1> DEFINE old == Opened(f)
             new == [text |-> Append(old.text, token), safe |-> old.safe]
  <1>1. /\ old = [text |-> old.text, safe |-> old.safe]
        /\ old.text \in Seq(Tokens)
        /\ old.safe \in 0 .. Len(old.text)
        /\ \A i \in 1 .. Len(old.text) : Dated(old.text[i], f)
    <2>1. CASE f \in DOMAIN files
      BY <2>1 DEF LogWhole, Opened
    <2>2. CASE f \notin DOMAIN files
      BY <2>2 DEF Opened
    <2> QED
      BY <2>1, <2>2
  <1>2. /\ DOMAIN files' = DOMAIN files \cup {f}
        /\ \A g \in DOMAIN files : g # f => files'[g] = files[g]
    BY DEF Appended
  <1>3. files'[f] = [old EXCEPT !.text = Append(@, token)]
    BY DEF Appended
  <1> HIDE DEF old
  <1>4. files'[f] = new
    BY <1>1, <1>3
  <1>5. /\ new.text \in Seq(Tokens)
        /\ Len(new.text) = Len(old.text) + 1
        /\ Len(old.text) \in Nat
        /\ \A i \in 1 .. Len(old.text) : new.text[i] = old.text[i]
        /\ new.text[Len(old.text) + 1] = token
    BY <1>1
  <1>6. /\ files'[f] = [text |-> files'[f].text, safe |-> files'[f].safe]
        /\ files'[f].text \in Seq(Tokens)
        /\ files'[f].safe \in 0 .. Len(files'[f].text)
        /\ \A i \in 1 .. Len(files'[f].text) : Dated(files'[f].text[i], f)
    BY <1>1, <1>4, <1>5
  <1>7. LogWhole'
    <2> SUFFICES ASSUME NEW g \in DOMAIN files'
                 PROVE  /\ files'[g] = [text |-> files'[g].text, safe |-> files'[g].safe]
                        /\ files'[g].text \in Seq(Tokens)
                        /\ files'[g].safe \in 0 .. Len(files'[g].text)
                        /\ \A i \in 1 .. Len(files'[g].text) : Dated(files'[g].text[i], g)
      BY DEF LogWhole, Dated, FitsIn, HasPeriod, PeriodEnd
    <2>1. CASE g = f
      BY <1>6, <2>1
    <2>2. CASE g # f
      BY <1>2, <2>2 DEF LogWhole
    <2> QED
      BY <2>1, <2>2
  <1>8. Grown
    <2> SUFFICES ASSUME NEW g \in DOMAIN files
                 PROVE  /\ g \in DOMAIN files'
                        /\ files'[g].safe \in Nat /\ files'[g].safe >= files[g].safe
                        /\ \A i \in 1 .. Len(files[g].text) :
                              i \in 1 .. Len(files'[g].text) /\ files'[g].text[i] = files[g].text[i]
      BY DEF Grown
    <2>1. CASE g = f
      <3>1. old = files[f]
        BY <2>1 DEF old, Opened
      <3> QED
        BY <1>1, <1>2, <1>4, <1>5, <2>1, <3>1
    <2>2. CASE g # f
      BY <1>2, <2>2 DEF LogWhole
    <2> QED
      BY <2>1, <2>2
  <1>9. Has(f, token)'
    BY <1>2, <1>4, <1>5 DEF Has
  <1> QED
    BY <1>7, <1>8, <1>9

(* fsync keeps the file and makes all of it durable. *)
LEMMA SyncKeeps ==
    ASSUME LogWhole, Tokens' = Tokens, NEW f \in DOMAIN files,
           files' = [files EXCEPT ![f].safe = Len(files[f].text)]
    PROVE  /\ LogWhole'
           /\ Grown
           /\ \A row : Has(f, row) => OnDisk(row)'
  <1> DEFINE new == [text |-> files[f].text, safe |-> Len(files[f].text)]
  <1>1. /\ files[f] = [text |-> files[f].text, safe |-> files[f].safe]
        /\ files[f].text \in Seq(Tokens)
        /\ files[f].safe \in 0 .. Len(files[f].text)
        /\ \A i \in 1 .. Len(files[f].text) : Dated(files[f].text[i], f)
    BY DEF LogWhole
  <1>2. /\ DOMAIN files' = DOMAIN files
        /\ \A g \in DOMAIN files : g # f => files'[g] = files[g]
    OBVIOUS
  <1>3. files'[f] = new
    BY <1>1
  <1>4. Len(files[f].text) \in Nat
    BY <1>1
  <1>5. LogWhole'
    <2> SUFFICES ASSUME NEW g \in DOMAIN files'
                 PROVE  /\ files'[g] = [text |-> files'[g].text, safe |-> files'[g].safe]
                        /\ files'[g].text \in Seq(Tokens)
                        /\ files'[g].safe \in 0 .. Len(files'[g].text)
                        /\ \A i \in 1 .. Len(files'[g].text) : Dated(files'[g].text[i], g)
      BY DEF LogWhole, Dated, FitsIn, HasPeriod, PeriodEnd
    <2>1. CASE g = f
      BY <1>1, <1>3, <1>4, <2>1
    <2>2. CASE g # f
      BY <1>2, <2>2 DEF LogWhole
    <2> QED
      BY <2>1, <2>2
  <1>6. Grown
    <2> SUFFICES ASSUME NEW g \in DOMAIN files
                 PROVE  /\ g \in DOMAIN files'
                        /\ files'[g].safe \in Nat /\ files'[g].safe >= files[g].safe
                        /\ \A i \in 1 .. Len(files[g].text) :
                              i \in 1 .. Len(files'[g].text) /\ files'[g].text[i] = files[g].text[i]
      BY DEF Grown
    <2>1. CASE g = f
      BY <1>1, <1>2, <1>3, <1>4, <2>1
    <2>2. CASE g # f
      BY <1>2, <2>2 DEF LogWhole
    <2> QED
      BY <2>1, <2>2
  <1>7. \A row : Has(f, row) => OnDisk(row)'
    BY <1>1, <1>2, <1>3, <1>4 DEF Has, OnDisk
  <1> QED
    BY <1>5, <1>6, <1>7

(* A sweep takes whole files, and only such as are over for DeleteAfter days. *)
LEMMA SweepSpares ==
    ASSUME LogInv, Tokens' = Tokens, SweepOnce
    PROVE  LogWhole' /\ Spared /\ SparedText
  <1>1. PICK gone \in SUBSET {f \in DOMAIN files : Expired(f)} :
           files' = [f \in DOMAIN files \ gone |-> files[f]]
    BY DEF SweepOnce
  <1>2. LogWhole'
    <2> SUFFICES ASSUME NEW g \in DOMAIN files'
                 PROVE  /\ files'[g] = [text |-> files'[g].text, safe |-> files'[g].safe]
                        /\ files'[g].text \in Seq(Tokens)
                        /\ files'[g].safe \in 0 .. Len(files'[g].text)
                        /\ \A i \in 1 .. Len(files'[g].text) : Dated(files'[g].text[i], g)
      BY DEF LogWhole, Dated, FitsIn, HasPeriod, PeriodEnd
    <2>1. g \in DOMAIN files /\ files'[g] = files[g]
      BY <1>1
    <2> QED
      BY <2>1 DEF LogInv, LogWhole
  <1>3. ASSUME NEW f \in DOMAIN files, NEW i \in 1 .. Len(files[f].text)
        PROVE  \/ files[f].text[i] \in {Newline, Torn}
               \/ DeleteAfter > 0 /\ today - files[f].text[i].day >= DeleteAfter
               \/ f \in DOMAIN files' /\ files'[f] = files[f]
    <2>1. CASE f \in gone
      <3>1. /\ DeleteAfter > 0
            /\ HasPeriod(f)
            /\ today - PeriodEnd(f) >= DeleteAfter
        BY <1>1, <2>1 DEF Expired
      <3>2. Dated(files[f].text[i], f)
        BY DEF LogInv, LogWhole
      <3>3. CASE files[f].text[i] \in {Newline, Torn}
        BY <3>3
      <3>4. CASE files[f].text[i] \notin {Newline, Torn}
        <4>1. /\ files[f].text[i].day \in Nat
              /\ PeriodEnd(f) \in Int
              /\ files[f].text[i].day <= PeriodEnd(f)
          BY <3>1, <3>2, <3>4 DEF Dated, FitsIn
        <4>2. today \in Nat /\ DeleteAfter \in Nat
          BY AuditAssumption DEF LogInv
        <4> QED
          BY <3>1, <4>1, <4>2
      <3> QED
        BY <3>3, <3>4
    <2>2. CASE f \notin gone
      BY <1>1, <2>2
    <2> QED
      BY <2>1, <2>2
  <1>4. \A f \in DOMAIN files : files[f].safe \in 0 .. Len(files[f].text) /\ Len(files[f].text) \in Nat
    BY DEF LogInv, LogWhole
  <1> QED
    BY <1>2, <1>3, <1>4 DEF Spared, SparedText

(* Power loss keeps a prefix of every file that holds what was synced. *)
LEMMA PowerSpares ==
    ASSUME LogWhole, Tokens' = Tokens, LosesPower
    PROVE  LogWhole' /\ Spared
  <1>1. PICK kept \in [DOMAIN files -> UNION {0 .. Len(files[f].text) : f \in DOMAIN files}] :
          /\ \A f \in DOMAIN files : kept[f] \in files[f].safe .. Len(files[f].text)
          /\ files' = [f \in DOMAIN files |->
                         [text |-> SubSeq(files[f].text, 1, kept[f]), safe |-> kept[f]]]
    BY DEF LosesPower
  <1>2. ASSUME NEW f \in DOMAIN files
        PROVE  /\ files'[f] = [text |-> SubSeq(files[f].text, 1, kept[f]), safe |-> kept[f]]
               /\ SubSeq(files[f].text, 1, kept[f]) \in Seq(Tokens)
               /\ Len(SubSeq(files[f].text, 1, kept[f])) = kept[f]
               /\ kept[f] \in files[f].safe .. Len(files[f].text)
               /\ \A i \in 1 .. kept[f] : /\ i \in 1 .. Len(files[f].text)
                                         /\ SubSeq(files[f].text, 1, kept[f])[i] = files[f].text[i]
               /\ files[f].safe \in Nat /\ kept[f] \in Nat /\ Len(files[f].text) \in Nat
    <2>1. files[f].text \in Seq(Tokens) /\ files[f].safe \in 0 .. Len(files[f].text)
      BY DEF LogWhole
    <2>2. kept[f] \in files[f].safe .. Len(files[f].text) /\ kept[f] \in Nat
      BY <1>1, <2>1
    <2>3. \A i \in 1 .. kept[f] : files[f].text[i] \in Tokens
      BY <2>1, <2>2
    <2>4. /\ SubSeq(files[f].text, 1, kept[f]) \in Seq(Tokens)
          /\ Len(SubSeq(files[f].text, 1, kept[f])) = kept[f]
          /\ \A i \in 1 .. kept[f] : SubSeq(files[f].text, 1, kept[f])[i] = files[f].text[i]
      BY <2>1, <2>2, <2>3, SubSeqProperties
    <2>5. \A i \in 1 .. kept[f] : i \in 1 .. Len(files[f].text)
      BY <2>1, <2>2
    <2>6. files[f].safe \in Nat /\ Len(files[f].text) \in Nat
      BY <2>1
    <2>7. files'[f] = [text |-> SubSeq(files[f].text, 1, kept[f]), safe |-> kept[f]]
      BY <1>1
    <2> QED
      BY <2>2, <2>4, <2>5, <2>6, <2>7
  <1>3. DOMAIN files' = DOMAIN files
    BY <1>1
  <1>4. LogWhole'
    <2> SUFFICES ASSUME NEW g \in DOMAIN files'
                 PROVE  /\ files'[g] = [text |-> files'[g].text, safe |-> files'[g].safe]
                        /\ files'[g].text \in Seq(Tokens)
                        /\ files'[g].safe \in 0 .. Len(files'[g].text)
                        /\ \A i \in 1 .. Len(files'[g].text) : Dated(files'[g].text[i], g)
      BY DEF LogWhole, Dated, FitsIn, HasPeriod, PeriodEnd
    <2>1. g \in DOMAIN files
      BY <1>3
    <2>2. \A i \in 1 .. Len(files[g].text) : Dated(files[g].text[i], g)
      BY <2>1 DEF LogWhole
    <2> DEFINE text == SubSeq(files[g].text, 1, kept[g])
    <2>3. /\ files'[g] = [text |-> text, safe |-> kept[g]]
          /\ text \in Seq(Tokens)
          /\ Len(text) = kept[g]
          /\ kept[g] \in Nat
          /\ \A i \in 1 .. kept[g] : i \in 1 .. Len(files[g].text) /\ text[i] = files[g].text[i]
      BY <1>2, <2>1
    <2> HIDE DEF text
    <2>4. \A i \in 1 .. Len(text) : Dated(text[i], g)
      <3> SUFFICES ASSUME NEW i \in 1 .. Len(text)
                   PROVE  Dated(text[i], g)
        OBVIOUS
      <3>1. i \in 1 .. Len(files[g].text)
        BY <2>3
      <3>2. text[i] = files[g].text[i]
        BY <2>3
      <3>3. Dated(files[g].text[i], g)
        BY <2>2, <3>1
      <3> QED
        BY <3>2, <3>3
    <2> QED
      BY <2>3, <2>4
  <1>5. Spared
    <2> SUFFICES ASSUME NEW f \in DOMAIN files, NEW i \in 1 .. files[f].safe
                 PROVE  f \in DOMAIN files' /\ i <= files'[f].safe /\ files'[f].text[i] = files[f].text[i]
      BY DEF Spared
    <2> DEFINE text == SubSeq(files[f].text, 1, kept[f])
    <2>1. /\ files'[f] = [text |-> text, safe |-> kept[f]]
          /\ files[f].safe \in Nat /\ kept[f] \in Nat /\ files[f].safe <= kept[f]
          /\ \A j \in 1 .. kept[f] : text[j] = files[f].text[j]
      BY <1>2
    <2> HIDE DEF text
    <2> QED
      BY <1>3, <2>1
  <1> QED
    BY <1>4, <1>5

--------------------------------------------------------------------------------
(* Calls *)

(* The intent row of call c, once written. *)
Intent(c) == RowOf(c, "intent", "pending", born[c])
Aged(c) == DeleteAfter > 0 /\ today >= born[c] + DeleteAfter
Kept(c) == OnDisk(Intent(c)) \/ Aged(c)

Touched(c) == \E x \in changed : x[1] = c
Audited(c) == req[c].tool \in IntentTools /\ ~DryRun(c)
Let(c) == Accepted(req[c].tool, req[c].args, Env)

(* The write of an intent row, stage by stage. *)
Progress(c) ==
    /\ writer[c].at = "text" => writer[c].row = Intent(c) /\ writer[c].sync
    /\ writer[c].at = "newline" => writer[c].sync
    /\ writer[c].at \in {"newline", "sync"} => Has(writer[c].file, Intent(c)) \/ Aged(c)
    /\ writer[c].at = "written" => Kept(c)
    /\ writer[c].at # "failed" => SafeAlias(Arg(c, "account"))

CallOk(c) ==
    /\ pc[c] \in {"idle", "arm", "intent", "fanout"} => ~Touched(c)
    /\ pc[c] \in {"arm", "intent", "body", "outcome"} \/ Touched(c) => Let(c)
    /\ \A i \in DOMAIN item[c] : item[c][i] = "todo" => Body(c) = "todo"
    /\ Touched(c) => Body(c) = "todo" /\ req[c].tool \in MutatingTools
    /\ Audited(c) =>
          /\ pc[c] = "intent" => Progress(c)
          /\ pc[c] \in {"body", "outcome"} \/ Touched(c) => Kept(c) /\ SafeAlias(Arg(c, "account"))

CallTypes ==
    /\ pc \in [Calls -> {"idle", "arm", "intent", "body", "outcome", "fanout", "done", "lost"}]
    /\ born \in [Calls -> Nat]
    /\ DOMAIN item = Calls
    /\ \A x \in changed : x[1] \in Calls

CallsInv == CallTypes /\ LogInv /\ \A c \in Calls : CallOk(c)

--------------------------------------------------------------------------------

LEMMA SameRequest ==
    ASSUME req' = req
    PROVE  \A c : /\ Body(c)' = Body(c)
                  /\ Let(c)' = Let(c)
                  /\ Audited(c)' = Audited(c)
                  /\ Arg(c, "account")' = Arg(c, "account")
                  /\ req'[c].tool = req[c].tool
  <1>1. \A c : DryRun(c)' = DryRun(c)
    BY DEF DryRun, Arg
  <1>2. \A c, name : Arg(c, name)' = Arg(c, name) /\ Blank(c, name)' = Blank(c, name)
    BY DEF Arg, Blank
  <1>3. \A c : ShouldApply(c)' = ShouldApply(c)
    BY <1>1 DEF ShouldApply
  <1>4. \A c : ValidBatch(c)' = ValidBatch(c)
    BY <1>2 DEF ValidBatch
  <1>5. \A c : SomeLabels(c)' = SomeLabels(c)
    BY <1>2 DEF SomeLabels
  <1>6. \A c : /\ ArchiveThread(c)' = ArchiveThread(c)
               /\ TrashThread(c)' = TrashThread(c)
               /\ BatchArchive(c)' = BatchArchive(c)
               /\ BatchTrash(c)' = BatchTrash(c)
    BY <1>2, <1>3, <1>4 DEF ArchiveThread, TrashThread, BatchArchive, BatchTrash
  <1>7. \A c : /\ ModifyThreadLabels(c)' = ModifyThreadLabels(c)
               /\ BatchModifyThreadLabels(c)' = BatchModifyThreadLabels(c)
               /\ CacheInvalidate(c)' = CacheInvalidate(c)
               /\ PurgeAccount(c)' = PurgeAccount(c)
    BY <1>2, <1>3, <1>4, <1>5
       DEF ModifyThreadLabels, BatchModifyThreadLabels, CacheInvalidate, PurgeAccount
  <1>8. \A c : Body(c)' = Body(c)
    BY <1>6, <1>7 DEF Body
  <1> QED
    BY <1>1, <1>2, <1>8 DEF Let, Audited

LEMMA IntentStays ==
    ASSUME NEW c \in Calls, CallTypes, LogInv, req' = req, born'[c] = born[c],
           today' \in Nat, today' >= today
    PROVE  /\ Intent(c)' = Intent(c)
           /\ Intent(c) \notin {Newline, Torn}
           /\ Intent(c).day = born[c]
           /\ Aged(c) => Aged(c)'
           /\ DeleteAfter > 0 /\ today - born[c] >= DeleteAfter => Aged(c)'
  <1>1. Intent(c)' = Intent(c)
    BY SameRows DEF Intent
  <1>2. born[c] \in Nat /\ today \in Nat /\ DeleteAfter \in Nat
    BY AuditAssumption DEF CallTypes, LogInv
  <1>3. Intent(c) \notin {Newline, Torn} /\ Intent(c).day = born[c]
    BY <1>2, RowsAreTokens DEF Intent
  <1>4. Aged(c) => Aged(c)'
    BY <1>2 DEF Aged
  <1>5. DeleteAfter > 0 /\ today - born[c] >= DeleteAfter => Aged(c)'
    BY <1>2 DEF Aged
  <1> QED
    BY <1>1, <1>3, <1>4, <1>5

(* A durable intent row stays until it is old enough to be swept. *)
LEMMA KeptStays ==
    ASSUME NEW c \in Calls, CallTypes, LogInv, req' = req, born'[c] = born[c],
           today' \in Nat, today' >= today, Spared, Kept(c)
    PROVE  Kept(c)'
  <1>1. CASE Aged(c)
    BY <1>1, IntentStays DEF Kept
  <1>2. CASE OnDisk(Intent(c))
    <2>0. PICK f \in DOMAIN files : \E i \in 1 .. files[f].safe : files[f].text[i] = Intent(c)
      BY <1>2 DEF OnDisk
    <2>1. PICK i \in 1 .. files[f].safe : files[f].text[i] = Intent(c)
      BY <2>0
    <2>2. \/ DeleteAfter > 0 /\ today - born[c] >= DeleteAfter
          \/ f \in DOMAIN files' /\ i <= files'[f].safe /\ files'[f].text[i] = Intent(c)
      BY <2>1, IntentStays DEF Spared
    <2>3. CASE DeleteAfter > 0 /\ today - born[c] >= DeleteAfter
      BY <2>3, IntentStays DEF Kept
    <2>4. CASE f \in DOMAIN files' /\ i <= files'[f].safe /\ files'[f].text[i] = Intent(c)
      <3>1. OnDisk(Intent(c))'
        BY <2>4, IntentStays DEF OnDisk
      <3> QED
        BY <3>1 DEF Kept
    <2> QED
      BY <2>2, <2>3, <2>4
  <1> QED
    BY <1>1, <1>2 DEF Kept

LEMMA WrittenStays ==
    ASSUME NEW c \in Calls, NEW f, CallTypes, LogInv, req' = req, born'[c] = born[c],
           today' \in Nat, today' >= today, SparedText, Has(f, Intent(c)) \/ Aged(c)
    PROVE  Has(f, Intent(c))' \/ Aged(c)'
  <1>1. CASE Aged(c)
    BY <1>1, IntentStays
  <1>2. CASE Has(f, Intent(c))
    <2>1. PICK i \in 1 .. Len(files[f].text) : files[f].text[i] = Intent(c)
      BY <1>2 DEF Has
    <2>2. \/ DeleteAfter > 0 /\ today - born[c] >= DeleteAfter
          \/ f \in DOMAIN files' /\ i <= Len(files'[f].text) /\ files'[f].text[i] = Intent(c)
      BY <1>2, <2>1, IntentStays DEF SparedText, Has
    <2>3. CASE DeleteAfter > 0 /\ today - born[c] >= DeleteAfter
      BY <2>3, IntentStays
    <2>4. CASE f \in DOMAIN files' /\ i <= Len(files'[f].text) /\ files'[f].text[i] = Intent(c)
      BY <2>4, IntentStays DEF Has
    <2> QED
      BY <2>2, <2>3, <2>4
  <1> QED
    BY <1>1, <1>2

--------------------------------------------------------------------------------
(* The steps of a write *)

LEMMA UnchangedFilesGrow == ASSUME LogWhole, files' = files PROVE Grown
  BY DEF Grown, LogWhole

LEMMA WholeStays == ASSUME LogWhole, files' = files, Tokens' = Tokens PROVE LogWhole'
  BY DEF LogWhole, Dated, FitsIn, HasPeriod, PeriodEnd

(* The invariant of the log after a step that moves one call's write. *)
LEMMA OneWriter ==
    ASSUME NEW c \in Calls, NEW w, LogInv, req' = req, LogWhole',
           writer' = [writer EXCEPT ![c] = w], UNCHANGED <<rotate, today>>,
           WriterOk(c)'
    PROVE  LogInv'
  <1>1. Tokens' = Tokens
    BY SameTokens
  <1>2. ASSUME NEW d \in Calls, d # c PROVE WriterOk(d)'
    <2>1. writer'[d] = writer[d]
      BY <1>2 DEF LogInv
    <2>2. WriterOk(d)
      BY DEF LogInv
    <2> QED
      BY <1>1, <2>1, <2>2 DEF WriterOk, Dated, FitsIn, HasPeriod, PeriodEnd
  <1>3. DOMAIN writer' = Calls
    BY DEF LogInv
  <1> QED
    BY <1>2, <1>3 DEF LogInv

LEMMA WritingRow ==
    ASSUME NEW c \in Calls, LogInv, writer[c].at \in {"text", "newline", "sync"}
    PROVE  /\ writer[c] = [at |-> writer[c].at, file |-> writer[c].file,
                           row |-> writer[c].row, sync |-> writer[c].sync]
           /\ writer[c].sync \in BOOLEAN
           /\ writer[c].row \in Tokens \ {Newline, Torn}
           /\ Dated(writer[c].row, writer[c].file)
  <1>1. WriterOk(c)
    BY DEF LogInv
  <1>2. ~(writer[c] \in [at : {"none", "failed", "written"}])
    OBVIOUS
  <1> QED
    BY <1>1, <1>2 DEF WriterOk

LEMMA WriteTextKeeps ==
    ASSUME NEW c \in Calls, LogInv, req' = req, WriteText(c)
    PROVE  /\ LogInv' /\ Grown
           /\ \A d \in Calls : d # c => writer'[d] = writer[d]
           /\ writer'[c] = [at |-> "newline", file |-> writer[c].file,
                            row |-> writer[c].row, sync |-> writer[c].sync]
           /\ \A f, row : f = writer[c].file /\ row = writer[c].row => Has(f, row)'
  <1> DEFINE w == [at |-> "newline", file |-> writer[c].file,
                   row |-> writer[c].row, sync |-> writer[c].sync]
  <1>1. Tokens' = Tokens
    BY SameTokens
  <1>2. LogWhole
    BY DEF LogInv
  <1>3. /\ writer[c] = [at |-> writer[c].at, file |-> writer[c].file,
                        row |-> writer[c].row, sync |-> writer[c].sync]
        /\ writer[c].sync \in BOOLEAN
        /\ writer[c].row \in Tokens \ {Newline, Torn}
        /\ Dated(writer[c].row, writer[c].file)
    BY WritingRow DEF WriteText
  <1>4. files' = Appended(writer[c].file, writer[c].row)
    BY DEF WriteText
  <1>5. /\ LogWhole' /\ Grown
        /\ \A f, row : f = writer[c].file /\ row = writer[c].row => Has(f, row)'
    BY <1>1, <1>2, <1>3, <1>4, AppendKeeps
  <1>6. writer' = [writer EXCEPT ![c] = w]
    <2>1. [writer[c] EXCEPT !.at = "newline"] = w
      BY <1>3
    <2>2. writer' = [writer EXCEPT ![c] = [writer[c] EXCEPT !.at = "newline"]]
      BY DEF WriteText
    <2> QED
      BY <2>1, <2>2
  <1>7. DOMAIN writer = Calls /\ writer'[c] = w
    BY <1>6 DEF LogInv
  <1>8. WriterOk(c)'
    BY <1>1, <1>3, <1>7 DEF WriterOk, Dated, FitsIn, HasPeriod, PeriodEnd
  <1>9. LogInv'
    BY <1>5, <1>6, <1>8, OneWriter DEF WriteText
  <1> QED
    BY <1>5, <1>6, <1>7, <1>9

LEMMA WriteNewlineKeeps ==
    ASSUME NEW c \in Calls, LogInv, req' = req, WriteNewline(c)
    PROVE  /\ LogInv' /\ Grown
           /\ \A d \in Calls : d # c => writer'[d] = writer[d]
           /\ writer'[c] = IF writer[c].sync
                           THEN [at |-> "sync", file |-> writer[c].file,
                                 row |-> writer[c].row, sync |-> writer[c].sync]
                           ELSE [at |-> "written"]
  <1> DEFINE w == IF writer[c].sync
                  THEN [at |-> "sync", file |-> writer[c].file,
                        row |-> writer[c].row, sync |-> writer[c].sync]
                  ELSE [at |-> "written"]
  <1>1. Tokens' = Tokens
    BY SameTokens
  <1>2. LogWhole
    BY DEF LogInv
  <1>3. /\ writer[c] = [at |-> writer[c].at, file |-> writer[c].file,
                        row |-> writer[c].row, sync |-> writer[c].sync]
        /\ writer[c].sync \in BOOLEAN
        /\ writer[c].row \in Tokens \ {Newline, Torn}
        /\ Dated(writer[c].row, writer[c].file)
    BY WritingRow DEF WriteNewline
  <1>4. LogWhole' /\ Grown
    <2>1. CASE files' = files
      BY <1>1, <1>2, <2>1, UnchangedFilesGrow, WholeStays
    <2>2. CASE files' = Appended(writer[c].file, Newline)
      <3>1. Newline \in Tokens /\ Dated(Newline, writer[c].file)
        BY DEF Tokens, Dated
      <3> QED
        BY <1>1, <1>2, <2>2, <3>1, AppendKeeps
    <2> QED
      BY <2>1, <2>2 DEF WriteNewline
  <1>5. writer' = [writer EXCEPT ![c] = w]
    <2>1. (IF writer[c].sync THEN [writer[c] EXCEPT !.at = "sync"] ELSE [at |-> "written"]) = w
      BY <1>3
    <2>2. writer' = [writer EXCEPT ![c] = IF writer[c].sync THEN [writer[c] EXCEPT !.at = "sync"]
                                          ELSE [at |-> "written"]]
      BY DEF WriteNewline
    <2> QED
      BY <2>1, <2>2
  <1>6. DOMAIN writer = Calls /\ writer'[c] = w
    BY <1>5 DEF LogInv
  <1>7. WriterOk(c)'
    BY <1>1, <1>3, <1>6 DEF WriterOk, Dated, FitsIn, HasPeriod, PeriodEnd
  <1>8. LogInv'
    BY <1>4, <1>5, <1>7, OneWriter DEF WriteNewline
  <1> QED
    BY <1>4, <1>5, <1>6, <1>8

LEMMA SyncDataKeeps ==
    ASSUME NEW c \in Calls, LogInv, req' = req, SyncData(c)
    PROVE  /\ LogInv' /\ Grown
           /\ \A d \in Calls : d # c => writer'[d] = writer[d]
           /\ writer'[c] = [at |-> "written"]
           /\ \A row : Has(writer[c].file, row) => OnDisk(row)'
  <1>1. Tokens' = Tokens
    BY SameTokens
  <1>2. LogWhole
    BY DEF LogInv
  <1>3. LogWhole' /\ Grown /\ \A row : Has(writer[c].file, row) => OnDisk(row)'
    <2>1. CASE writer[c].file \in DOMAIN files
      BY <1>1, <1>2, <2>1, SyncKeeps DEF SyncData
    <2>2. CASE writer[c].file \notin DOMAIN files
      <3>1. files' = files
        BY <2>2 DEF SyncData
      <3> QED
        BY <1>1, <1>2, <2>2, <3>1, UnchangedFilesGrow, WholeStays DEF Has
    <2> QED
      BY <2>1, <2>2
  <1>4. writer' = [writer EXCEPT ![c] = [at |-> "written"]]
    BY DEF SyncData
  <1>5. DOMAIN writer = Calls /\ writer'[c] = [at |-> "written"]
    BY <1>4 DEF LogInv
  <1>6. WriterOk(c)'
    BY <1>5 DEF WriterOk
  <1>7. LogInv'
    BY <1>3, <1>4, <1>6, OneWriter DEF SyncData
  <1> QED
    BY <1>3, <1>4, <1>5, <1>7

LEMMA WriteFailsKeeps ==
    ASSUME NEW c \in Calls, LogInv, req' = req, WriteFails(c)
    PROVE  /\ LogInv' /\ Grown
           /\ \A d \in Calls : d # c => writer'[d] = writer[d]
           /\ writer'[c] = [at |-> "failed"]
  <1>1. Tokens' = Tokens
    BY SameTokens
  <1>2. LogWhole
    BY DEF LogInv
  <1>3. LogWhole' /\ Grown
    <2>1. CASE files' = files
      BY <1>1, <1>2, <2>1, UnchangedFilesGrow, WholeStays
    <2>2. CASE files' = Appended(writer[c].file, Torn)
      <3>1. Torn \in Tokens /\ Dated(Torn, writer[c].file)
        BY DEF Tokens, Dated
      <3> QED
        BY <1>1, <1>2, <2>2, <3>1, AppendKeeps
    <2> QED
      BY <2>1, <2>2 DEF WriteFails
  <1>4. writer' = [writer EXCEPT ![c] = [at |-> "failed"]]
    BY DEF WriteFails
  <1>5. DOMAIN writer = Calls /\ writer'[c] = [at |-> "failed"]
    BY <1>4 DEF LogInv
  <1>6. WriterOk(c)'
    BY <1>5 DEF WriterOk
  <1>7. LogInv'
    BY <1>3, <1>4, <1>6, OneWriter DEF WriteFails
  <1> QED
    BY <1>3, <1>4, <1>5, <1>7

(* The start of a write leaves the log as it is. *)
LEMMA OpenWriteKeeps ==
    ASSUME NEW c \in Calls, NEW action \in {"intent", "dry_run", "applied"},
           NEW result \in {"pending", "ok", "error"}, NEW sync \in BOOLEAN,
           LogInv, req' = req, UNCHANGED <<files, rotate, today>>,
           OpenWrite(c, Row(c, action, result), sync)
    PROVE  /\ LogInv' /\ Grown
           /\ \A d \in Calls : d # c => writer'[d] = writer[d]
           /\ writer'[c] = IF SafeAlias(Arg(c, "account"))
                           THEN [at |-> "text", file |-> Target(today),
                                 row |-> RowOf(c, action, result, today), sync |-> sync]
                           ELSE [at |-> "failed"]
  <1> DEFINE row == RowOf(c, action, result, today)
             w == IF SafeAlias(Arg(c, "account"))
                  THEN [at |-> "text", file |-> Target(today), row |-> row, sync |-> sync]
                  ELSE [at |-> "failed"]
  <1>1. Row(c, action, result) = row
    BY DEF Row, RowOf
  <1>2. row.account = Arg(c, "account")
    BY DEF RowOf
  <1>3. writer' = [writer EXCEPT ![c] = w]
    BY <1>1, <1>2 DEF OpenWrite
  <1>4. today \in Nat /\ rotate \in RotateModes
    BY DEF LogInv
  <1>5. /\ row \in Tokens \ {Newline, Torn}
        /\ row.day = today
    BY <1>4, RowsAreTokens
  <1>6. FitsIn(today, Target(today))
    BY <1>4, TargetFits
  <1>7. Tokens' = Tokens
    BY SameTokens
  <1>8. Dated(row, Target(today))
    BY <1>4, <1>5, <1>6 DEF Dated
  <1> HIDE DEF row
  <1>9. DOMAIN writer = Calls /\ writer'[c] = w
    BY <1>3 DEF LogInv
  <1>10. WriterOk(c)'
    BY <1>5, <1>7, <1>8, <1>9 DEF WriterOk, Dated, FitsIn, HasPeriod, PeriodEnd
  <1>11. LogWhole' /\ Grown
    BY <1>7, UnchangedFilesGrow, WholeStays DEF LogInv
  <1>12. LogInv'
    BY <1>3, <1>10, <1>11, OneWriter
  <1> QED
    BY <1>3, <1>9, <1>11, <1>12 DEF row

--------------------------------------------------------------------------------
(* The steps of a call *)

LEMMA CallStays ==
    ASSUME NEW d \in Calls, CallTypes, LogInv, CallOk(d), req' = req, today' \in Nat, today' >= today,
           Spared, SparedText, born'[d] = born[d], pc'[d] = pc[d], item'[d] = item[d],
           writer'[d] = writer[d], Touched(d)' = Touched(d)
    PROVE  CallOk(d)'
  <1>1. Intent(d)' = Intent(d)
    BY IntentStays
  <1>2. Kept(d) => Kept(d)'
    BY KeptStays
  <1>3. \A f : Has(f, Intent(d)) \/ Aged(d) => Has(f, Intent(d))' \/ Aged(d)'
    BY WrittenStays
  <1>4. Progress(d) => Progress(d)'
    BY <1>1, <1>2, <1>3, SameRequest DEF Progress
  <1>5. /\ Body(d)' = Body(d)
        /\ Let(d)' = Let(d)
        /\ Audited(d)' = Audited(d)
        /\ Arg(d, "account")' = Arg(d, "account")
        /\ req'[d].tool = req[d].tool
    BY SameRequest
  <1> QED
    BY <1>2, <1>4, <1>5 DEF CallOk

LEMMA OneCall ==
    ASSUME NEW c \in Calls, CallsInv, req' = req, LogInv', today' >= today, Spared, SparedText,
           CallTypes', CallOk(c)',
           \A d \in Calls : d # c =>
              /\ born'[d] = born[d] /\ pc'[d] = pc[d] /\ item'[d] = item[d]
              /\ writer'[d] = writer[d] /\ Touched(d)' = Touched(d)
    PROVE  CallsInv'
  <1>1. today' \in Nat
    BY DEF LogInv
  <1>2. \A d \in Calls : CallOk(d)'
    BY <1>1, CallStays DEF CallsInv
  <1> QED
    BY <1>2 DEF CallsInv

LEMMA QuietLog ==
    ASSUME LogInv, req' = req, UNCHANGED <<files, rotate, today>>,
           \/ writer' = writer
           \/ \E c \in Calls : writer' = [writer EXCEPT ![c] = NoWrite]
    PROVE  LogInv' /\ Spared /\ SparedText /\ today' >= today
  <1>1. Tokens' = Tokens
    BY SameTokens
  <1>2. LogWhole'
    BY <1>1, WholeStays DEF LogInv
  <1>3. LogInv'
    <2>1. CASE writer' = writer
      BY <1>1, <1>2, <2>1 DEF LogInv, WriterOk, Dated, FitsIn, HasPeriod, PeriodEnd
    <2>2. ASSUME NEW c \in Calls, writer' = [writer EXCEPT ![c] = NoWrite] PROVE LogInv'
      <3>1. WriterOk(c)'
        BY <2>2 DEF WriterOk, NoWrite, LogInv
      <3> QED
        BY <1>2, <2>2, <3>1, OneWriter
    <2> QED
      BY <2>1, <2>2
  <1> QED
    BY <1>3, UnchangedFilesGrow, GrownSpares DEF LogInv

(* Steps that leave the log alone and touch nothing. *)
LEMMA ArriveKeeps ==
    ASSUME NEW c \in Calls, CallsInv, Arrive(c)
    PROVE  CallsInv'
  <1>1. /\ UNCHANGED <<req, born, item, changed, files, rotate, today, writer, faults>>
        /\ pc[c] = "idle"
    BY DEF Arrive, auditVars
  <1>2. PICK p \in {"done", "fanout", "arm"} :
           pc' = [pc EXCEPT ![c] = p] /\ (p = "arm" => Let(c))
    BY DEF Arrive, Let
  <1>3. LogInv' /\ Spared /\ SparedText /\ today' >= today
    BY <1>1, QuietLog DEF CallsInv
  <1>4. CallTypes'
    BY <1>1, <1>2 DEF CallsInv, CallTypes
  <1>5. ~Touched(c) /\ Touched(c)' = Touched(c)
    BY <1>1 DEF CallsInv, CallOk, Touched
  <1>6. pc'[c] = p /\ item'[c] = item[c]
    BY <1>1, <1>2 DEF CallsInv, CallTypes
  <1>7. CallOk(c)'
    BY <1>1, <1>2, <1>5, <1>6, SameRequest DEF CallsInv, CallOk
  <1>8. \A d \in Calls : d # c =>
           /\ born'[d] = born[d] /\ pc'[d] = pc[d] /\ item'[d] = item[d]
           /\ writer'[d] = writer[d] /\ Touched(d)' = Touched(d)
    BY <1>1, <1>2 DEF CallsInv, CallTypes, Touched
  <1> QED
    BY <1>1, <1>3, <1>4, <1>7, <1>8, OneCall

LEMMA StartKeeps ==
    ASSUME NEW c \in Calls, CallsInv, Start(c)
    PROVE  CallsInv'
  <1>1. UNCHANGED <<req, item, changed, files, rotate, today, faults>> /\ pc[c] = "arm"
    BY DEF Start
  <1>2. /\ ~Touched(c) /\ Touched(c)' = Touched(c) /\ Let(c)
        /\ \A i \in DOMAIN item[c] : item[c][i] = "todo" => Body(c) = "todo"
    BY <1>1 DEF CallsInv, CallOk, Touched
  <1>3. CASE Audited(c)
    <2>1. /\ pc' = [pc EXCEPT ![c] = "intent"]
          /\ OpenWrite(c, Row(c, "intent", "pending"), TRUE)
          /\ born' = [born EXCEPT ![c] = today]
      BY <1>3 DEF Start, Audited, IntentRow
    <2>2. /\ LogInv' /\ Grown
          /\ \A d \in Calls : d # c => writer'[d] = writer[d]
          /\ writer'[c] = IF SafeAlias(Arg(c, "account"))
                          THEN [at |-> "text", file |-> Target(today),
                                row |-> RowOf(c, "intent", "pending", today), sync |-> TRUE]
                          ELSE [at |-> "failed"]
      BY <1>1, <2>1, OpenWriteKeeps DEF CallsInv
    <2>3. Spared /\ SparedText
      BY <2>2, GrownSpares DEF CallsInv, LogInv
    <2>4. today \in Nat /\ today' = today
      BY <1>1 DEF CallsInv, LogInv
    <2>5. CallTypes'
      BY <1>1, <2>1, <2>4 DEF CallsInv, CallTypes
    <2>6. pc'[c] = "intent" /\ item'[c] = item[c] /\ born'[c] = today
      BY <1>1, <2>1 DEF CallsInv, CallTypes
    <2>7. Intent(c)' = RowOf(c, "intent", "pending", today)
      BY <1>1, <2>6, SameRows DEF Intent
    <2>8. Progress(c)'
      <3>1. CASE SafeAlias(Arg(c, "account"))
        <4>1. /\ writer'[c].at = "text" /\ writer'[c].sync
              /\ writer'[c].row = RowOf(c, "intent", "pending", today)
          BY <2>2, <3>1
        <4> QED
          BY <1>1, <2>7, <3>1, <4>1, SameRequest DEF Progress
      <3>2. CASE ~SafeAlias(Arg(c, "account"))
        <4>1. writer'[c].at = "failed"
          BY <2>2, <3>2
        <4> QED
          BY <4>1 DEF Progress
      <3> QED
        BY <3>1, <3>2
    <2>9. CallOk(c)'
      BY <1>1, <1>2, <2>6, <2>8, SameRequest DEF CallOk
    <2>10. \A d \in Calls : d # c =>
              /\ born'[d] = born[d] /\ pc'[d] = pc[d] /\ item'[d] = item[d]
              /\ writer'[d] = writer[d] /\ Touched(d)' = Touched(d)
      BY <1>1, <2>1, <2>2 DEF CallsInv, CallTypes, Touched
    <2> QED
      BY <1>1, <2>2, <2>3, <2>4, <2>5, <2>9, <2>10, OneCall
  <1>4. CASE ~Audited(c)
    <2>1. pc' = [pc EXCEPT ![c] = "body"] /\ UNCHANGED <<writer, born>>
      BY <1>4 DEF Start, Audited
    <2>2. LogInv' /\ Spared /\ SparedText /\ today' >= today
      BY <1>1, <2>1, QuietLog DEF CallsInv
    <2>3. CallTypes'
      BY <1>1, <2>1 DEF CallsInv, CallTypes
    <2>4. pc'[c] = "body" /\ item'[c] = item[c]
      BY <1>1, <2>1 DEF CallsInv, CallTypes
    <2>5. CallOk(c)'
      BY <1>1, <1>2, <1>4, <2>4, SameRequest DEF CallOk
    <2>6. \A d \in Calls : d # c =>
             /\ born'[d] = born[d] /\ pc'[d] = pc[d] /\ item'[d] = item[d]
             /\ writer'[d] = writer[d] /\ Touched(d)' = Touched(d)
      BY <1>1, <2>1 DEF CallsInv, CallTypes, Touched
    <2> QED
      BY <1>1, <2>2, <2>3, <2>5, <2>6, OneCall
  <1> QED
    BY <1>3, <1>4

LEMMA IntentWrittenKeeps ==
    ASSUME NEW c \in Calls, CallsInv, IntentWritten(c)
    PROVE  CallsInv'
  <1>1. /\ UNCHANGED <<req, born, item, changed, files, rotate, today, faults>>
        /\ pc[c] = "intent"
        /\ writer' = [writer EXCEPT ![c] = NoWrite]
    BY DEF IntentWritten
  <1>2. PICK p \in {"done", "body"} :
           pc' = [pc EXCEPT ![c] = p] /\ (p = "body" => writer[c].at = "written")
    BY DEF IntentWritten
  <1>3. LogInv' /\ Spared /\ SparedText /\ today' >= today
    BY <1>1, QuietLog DEF CallsInv
  <1>4. CallTypes'
    BY <1>1, <1>2 DEF CallsInv, CallTypes
  <1>5. /\ ~Touched(c) /\ Touched(c)' = Touched(c) /\ Let(c)
        /\ \A i \in DOMAIN item[c] : item[c][i] = "todo" => Body(c) = "todo"
        /\ Audited(c) => Progress(c)
    BY <1>1 DEF CallsInv, CallOk, Touched
  <1>6. pc'[c] = p /\ item'[c] = item[c] /\ born'[c] = born[c]
    BY <1>1, <1>2 DEF CallsInv, CallTypes
  <1>7. p = "body" /\ Audited(c) => Kept(c)' /\ SafeAlias(Arg(c, "account"))
    <2>1. today' \in Nat
      BY <1>3 DEF LogInv
    <2>2. Kept(c) => Kept(c)'
      BY <1>1, <1>3, <2>1, KeptStays DEF CallsInv
    <2> QED
      BY <1>2, <1>5, <2>2 DEF Progress
  <1>8. CallOk(c)'
    BY <1>1, <1>5, <1>6, <1>7, SameRequest DEF CallOk
  <1>9. \A d \in Calls : d # c =>
           /\ born'[d] = born[d] /\ pc'[d] = pc[d] /\ item'[d] = item[d]
           /\ writer'[d] = writer[d] /\ Touched(d)' = Touched(d)
    BY <1>1, <1>2 DEF CallsInv, CallTypes, LogInv, Touched
  <1> QED
    BY <1>1, <1>3, <1>4, <1>8, <1>9, OneCall

(* The body of a call: its items move on, and changes are its own. *)
LEMMA BodyKeeps ==
    ASSUME NEW c \in Calls, NEW new, NEW more, CallsInv,
           UNCHANGED <<pc, req, born, auditVars>>, pc[c] = "body",
           item' = [item EXCEPT ![c] = new],
           changed' = changed \cup more,
           \A x \in more : x[1] = c /\ Body(c) = "todo" /\ req[c].tool \in MutatingTools,
           \A i \in DOMAIN new : new[i] = "todo" => Body(c) = "todo"
    PROVE  CallsInv'
  <1>1. UNCHANGED <<files, rotate, today, writer, faults>>
    BY DEF auditVars
  <1>2. LogInv' /\ Spared /\ SparedText /\ today' >= today
    BY <1>1, QuietLog DEF CallsInv
  <1>3. CallTypes'
    BY DEF CallsInv, CallTypes
  <1>4. CallOk(c) /\ item'[c] = new
    BY DEF CallsInv, CallTypes
  <1>5. Touched(c)' => Body(c) = "todo" /\ req[c].tool \in MutatingTools
    BY <1>4 DEF Touched, CallOk
  <1>6. Kept(c) => Kept(c)'
    <2>1. today' \in Nat
      BY <1>2 DEF LogInv
    <2> QED
      BY <1>2, <2>1, KeptStays DEF CallsInv
  <1>7. CallOk(c)'
    BY <1>4, <1>5, <1>6, SameRequest DEF CallOk
  <1>8. \A d \in Calls : d # c =>
           /\ born'[d] = born[d] /\ pc'[d] = pc[d] /\ item'[d] = item[d]
           /\ writer'[d] = writer[d] /\ Touched(d)' = Touched(d)
    BY <1>1 DEF CallsInv, CallTypes, Touched
  <1> QED
    BY <1>2, <1>3, <1>7, <1>8, OneCall

LEMMA ItemsKeep ==
    ASSUME NEW c \in Calls, CallsInv,
           Begin(c) \/ (\E i \in DOMAIN item[c] : Takes(c, i) \/ Fails(c, i)) \/ ModifyMembers(c)
    PROVE  CallsInv'
  <1>0. /\ UNCHANGED <<pc, req, born, auditVars>>
        /\ pc[c] = "body"
    BY DEF Begin, Takes, Fails, ModifyMembers
  <1>1. \A i \in DOMAIN item[c] : item[c][i] = "todo" => Body(c) = "todo"
    BY DEF CallsInv, CallOk
  <1>2. CASE Begin(c)
    <2> DEFINE new == [i \in 1 .. req[c].ids |-> Body(c)]
               none == {}
    <2>1. item' = [item EXCEPT ![c] = new] /\ changed' = changed \cup none
      BY <1>2 DEF Begin
    <2>2. \A i \in DOMAIN new : new[i] = "todo" => Body(c) = "todo"
      OBVIOUS
    <2>3. \A x \in none : x[1] = c /\ Body(c) = "todo" /\ req[c].tool \in MutatingTools
      OBVIOUS
    <2> HIDE DEF new, none
    <2> QED
      BY <1>0, <2>1, <2>2, <2>3, BodyKeeps
  <1>3. ASSUME NEW i \in DOMAIN item[c], Takes(c, i) PROVE CallsInv'
    <2>1. Body(c) = "todo"
      BY <1>1, <1>3 DEF Takes
    <2>2. PICK answer \in {"ok", "error"} : item' = [item EXCEPT ![c][i] = answer]
      BY <1>3 DEF Takes
    <2> DEFINE new == [item[c] EXCEPT ![i] = answer]
               more == IF req[c].tool \in MutatingTools THEN {<<c, i>>} ELSE {}
    <2>3. item' = [item EXCEPT ![c] = new] /\ changed' = changed \cup more
      BY <1>3, <2>2 DEF Takes
    <2>4. \A j \in DOMAIN new : new[j] = "todo" => Body(c) = "todo"
      BY <2>1
    <2>5. \A x \in more : x[1] = c /\ Body(c) = "todo" /\ req[c].tool \in MutatingTools
      BY <2>1
    <2> HIDE DEF new, more
    <2> QED
      BY <1>0, <2>3, <2>4, <2>5, BodyKeeps
  <1>4. ASSUME NEW i \in DOMAIN item[c], Fails(c, i) PROVE CallsInv'
    <2>1. Body(c) = "todo"
      BY <1>1, <1>4 DEF Fails
    <2> DEFINE new == [item[c] EXCEPT ![i] = "error"]
               none == {}
    <2>2. item' = [item EXCEPT ![c] = new] /\ changed' = changed \cup none
      BY <1>4 DEF Fails
    <2>3. \A j \in DOMAIN new : new[j] = "todo" => Body(c) = "todo"
      BY <2>1
    <2>4. \A x \in none : x[1] = c /\ Body(c) = "todo" /\ req[c].tool \in MutatingTools
      OBVIOUS
    <2> HIDE DEF new, none
    <2> QED
      BY <1>0, <2>2, <2>3, <2>4, BodyKeeps
  <1>5. CASE ModifyMembers(c)
    <2>1. Body(c) = "todo" /\ req[c].tool \in MutatingTools
      BY <1>1, <1>5 DEF ModifyMembers, MutatingTools, WriteTools, MembershipTool
    <2>2. PICK skipped \in SUBSET DOMAIN item[c] :
             /\ changed' = changed \cup {<<c, i>> : i \in DOMAIN item[c] \ skipped}
             /\ \/ item' = [item EXCEPT ![c] = [i \in DOMAIN @ |-> IF i \in skipped THEN "skipped" ELSE "ok"]]
                \/ item' = [item EXCEPT ![c] = [i \in DOMAIN @ |-> "error"]]
      BY <1>5 DEF ModifyMembers
    <2>3. PICK new : item' = [item EXCEPT ![c] = new]
      BY <2>2
    <2>4. \A i \in DOMAIN new : new[i] = "todo" => Body(c) = "todo"
      BY <2>1
    <2> DEFINE more == {<<c, i>> : i \in DOMAIN item[c] \ skipped}
    <2>5. changed' = changed \cup more
      BY <2>2
    <2>6. \A x \in more : x[1] = c /\ Body(c) = "todo" /\ req[c].tool \in MutatingTools
      BY <2>1
    <2> HIDE DEF more
    <2> QED
      BY <1>0, <2>3, <2>4, <2>5, <2>6, BodyKeeps
  <1> QED
    BY <1>2, <1>3, <1>4, <1>5

LEMMA FinishKeeps ==
    ASSUME NEW c \in Calls, CallsInv, Finish(c)
    PROVE  CallsInv'
  <1>1. UNCHANGED <<req, born, item, changed, files, rotate, today, faults>> /\ pc[c] = "body"
    BY DEF Finish
  <1>2. PICK p \in {"outcome", "done"} : pc' = [pc EXCEPT ![c] = p]
    BY DEF Finish
  <1>3. /\ LogInv' /\ Spared /\ SparedText
        /\ \A d \in Calls : d # c => writer'[d] = writer[d]
    <2>1. CASE writer' = writer
      BY <1>1, <2>1, QuietLog DEF CallsInv
    <2>2. CASE OpenWrite(c, OutcomeRow(c, BodyOk(c)), FALSE)
      <3>1. PICK action \in {"dry_run", "applied"}, result \in {"ok", "error"} :
               OutcomeRow(c, BodyOk(c)) = Row(c, action, result)
        BY DEF OutcomeRow
      <3>2. OpenWrite(c, Row(c, action, result), FALSE)
        BY <2>2, <3>1
      <3>3. LogInv' /\ Grown /\ \A d \in Calls : d # c => writer'[d] = writer[d]
        BY <1>1, <3>2, OpenWriteKeeps DEF CallsInv
      <3> QED
        BY <3>3, GrownSpares DEF CallsInv, LogInv
    <2> QED
      BY <2>1, <2>2 DEF Finish
  <1>4. today' >= today /\ today' \in Nat
    BY <1>1 DEF CallsInv, LogInv
  <1>5. CallTypes'
    BY <1>1, <1>2 DEF CallsInv, CallTypes
  <1>6. CallOk(c) /\ Touched(c)' = Touched(c)
    BY <1>1 DEF CallsInv, Touched
  <1>7. pc'[c] = p /\ item'[c] = item[c]
    BY <1>1, <1>2 DEF CallsInv, CallTypes
  <1>8. Kept(c) => Kept(c)'
    BY <1>1, <1>3, <1>4, KeptStays DEF CallsInv
  <1>9. CallOk(c)'
    BY <1>1, <1>6, <1>7, <1>8, SameRequest DEF CallOk
  <1>10. \A d \in Calls : d # c =>
            /\ born'[d] = born[d] /\ pc'[d] = pc[d] /\ item'[d] = item[d]
            /\ writer'[d] = writer[d] /\ Touched(d)' = Touched(d)
    BY <1>1, <1>2, <1>3 DEF CallsInv, CallTypes, Touched
  <1> QED
    BY <1>1, <1>3, <1>4, <1>5, <1>9, <1>10, OneCall

(* Steps that end a call, and those of a fan-out. *)
LEMMA EndKeeps ==
    ASSUME NEW c \in Calls, CallsInv,
           UNCHANGED <<req, born, item, changed, files, rotate, today>>,
           pc' = pc \/ pc' = [pc EXCEPT ![c] = "done"],
           writer' = writer \/ (writer' = [writer EXCEPT ![c] = NoWrite] /\ pc[c] = "outcome"),
           pc[c] \in {"outcome", "fanout"}
    PROVE  CallsInv'
  <1>1. LogInv' /\ Spared /\ SparedText /\ today' >= today
    BY QuietLog DEF CallsInv
  <1>2. CallTypes'
    BY DEF CallsInv, CallTypes
  <1>3. CallOk(c) /\ Touched(c)' = Touched(c)
    BY DEF CallsInv, Touched
  <1>4. pc'[c] \in {pc[c], "done"} /\ item'[c] = item[c]
    BY DEF CallsInv, CallTypes
  <1>5. Kept(c) => Kept(c)'
    <2>1. today' \in Nat
      BY <1>1 DEF LogInv
    <2> QED
      BY <1>1, <2>1, KeptStays DEF CallsInv
  <1>6. CallOk(c)'
    BY <1>3, <1>4, <1>5, SameRequest DEF CallOk
  <1>7. \A d \in Calls : d # c =>
           /\ born'[d] = born[d] /\ pc'[d] = pc[d] /\ item'[d] = item[d]
           /\ writer'[d] = writer[d] /\ Touched(d)' = Touched(d)
    BY DEF CallsInv, CallTypes, LogInv, Touched
  <1> QED
    BY <1>1, <1>2, <1>6, <1>7, OneCall

LEMMA FanKeeps ==
    ASSUME NEW c \in Calls, CallsInv, OutcomeWritten(c) \/ FanStep(c)
    PROVE  CallsInv'
  <1>1. UNCHANGED <<req, born, item, changed, files, rotate, today>>
    BY DEF OutcomeWritten, FanStep, FanAcquire, FanAnswer, FanTimeout, Settle, FanReply, FanTick, auditVars
  <1>2. pc' = pc \/ pc' = [pc EXCEPT ![c] = "done"]
    BY DEF OutcomeWritten, FanStep, FanAcquire, FanAnswer, FanTimeout, Settle, FanReply, FanTick
  <1>3. writer' = writer \/ (writer' = [writer EXCEPT ![c] = NoWrite] /\ pc[c] = "outcome")
    BY DEF OutcomeWritten, FanStep, FanAcquire, FanAnswer, FanTimeout, Settle, FanReply, FanTick, auditVars
  <1>4. pc[c] \in {"outcome", "fanout"}
    BY DEF OutcomeWritten, FanStep, FanAcquire, FanAnswer, FanTimeout, FanReply, FanTick
  <1> QED
    BY <1>1, <1>2, <1>3, <1>4, EndKeeps

(* A step of a write, under whichever call it serves. *)
LEMMA WriteKeeps ==
    ASSUME NEW c \in Calls, CallsInv, WriteStep(c), Quiet
    PROVE  CallsInv'
  <1>1. /\ UNCHANGED <<pc, req, born, item, changed>>
        /\ today' = today /\ writer[c].at \in {"text", "newline", "sync"}
    BY DEF Quiet, callVars, WriteStep, WriteText, WriteNewline, SyncData, WriteFails
  <1>2. LogInv' /\ Grown /\ \A d \in Calls : d # c => writer'[d] = writer[d]
    BY <1>1, WriteTextKeeps, WriteNewlineKeeps, SyncDataKeeps, WriteFailsKeeps DEF CallsInv, WriteStep
  <1>3. Spared /\ SparedText
    BY <1>2, GrownSpares DEF CallsInv, LogInv
  <1>4. today \in Nat /\ today' >= today
    BY <1>1 DEF CallsInv, LogInv
  <1>5. CallTypes' /\ CallOk(c)
    BY <1>1 DEF CallsInv, CallTypes
  <1>6. Kept(c) => Kept(c)'
    BY <1>1, <1>3, <1>4, KeptStays DEF CallsInv
  <1>7. \A f : Has(f, Intent(c)) \/ Aged(c) => Has(f, Intent(c))' \/ Aged(c)'
    BY <1>1, <1>3, <1>4, WrittenStays DEF CallsInv
  <1>8. Intent(c)' = Intent(c) /\ (Aged(c) => Aged(c)')
    BY <1>1, <1>4, IntentStays DEF CallsInv
  <1>9. Progress(c) => Progress(c)'
    <2> SUFFICES ASSUME Progress(c) PROVE Progress(c)'
      OBVIOUS
    <2>1. SafeAlias(Arg(c, "account")) /\ Arg(c, "account")' = Arg(c, "account")
      BY <1>1, SameRequest DEF Progress
    <2>2. CASE WriteText(c)
      <3>1. /\ writer[c].row = Intent(c) /\ writer[c].sync
            /\ writer'[c] = [at |-> "newline", file |-> writer[c].file,
                             row |-> writer[c].row, sync |-> writer[c].sync]
            /\ \A f, row : f = writer[c].file /\ row = writer[c].row => Has(f, row)'
        BY <1>1, <2>2, WriteTextKeeps DEF CallsInv, Progress, WriteText
      <3>2. /\ writer'[c].at = "newline" /\ writer'[c].sync
            /\ writer'[c].file = writer[c].file
        BY <3>1
      <3>3. \A f : f = writer[c].file => Has(f, Intent(c))'
        BY <1>8, <3>1 DEF Has
      <3>4. Has(writer[c].file, Intent(c))'
        BY <3>2, <3>3 DEF Has
      <3> QED
        BY <2>1, <3>2, <3>4 DEF Progress
    <2>3. CASE WriteNewline(c)
      <3>1. writer[c].sync /\ (Has(writer[c].file, Intent(c)) \/ Aged(c))
        BY <2>3 DEF Progress, WriteNewline
      <3>2. writer'[c] = [at |-> "sync", file |-> writer[c].file,
                          row |-> writer[c].row, sync |-> writer[c].sync]
        BY <1>1, <2>3, <3>1, WriteNewlineKeeps DEF CallsInv
      <3>3. writer'[c].at = "sync" /\ writer'[c].file = writer[c].file
        BY <3>2
      <3>4. \A f : f = writer[c].file => Has(f, Intent(c))' \/ Aged(c)'
        BY <1>7, <3>1
      <3>5. Has(writer[c].file, Intent(c))' \/ Aged(c)'
        BY <3>3, <3>4 DEF Has
      <3> QED
        BY <2>1, <3>3, <3>5 DEF Progress
    <2>4. CASE SyncData(c)
      <3>1. Has(writer[c].file, Intent(c)) \/ Aged(c)
        BY <2>4 DEF Progress, SyncData
      <3>2. /\ writer'[c] = [at |-> "written"]
            /\ \A row : Has(writer[c].file, row) => OnDisk(row)'
        BY <1>1, <2>4, SyncDataKeeps DEF CallsInv
      <3>3. \A row : row = Intent(c) => OnDisk(row)' \/ Aged(c)'
        BY <1>8, <3>1, <3>2
      <3>4. Kept(c)'
        BY <1>8, <3>3 DEF Kept, OnDisk
      <3>5. writer'[c].at = "written"
        BY <3>2
      <3> QED
        BY <2>1, <3>4, <3>5 DEF Progress
    <2>5. CASE WriteFails(c)
      <3>1. writer'[c] = [at |-> "failed"]
        BY <1>1, <2>5, WriteFailsKeeps DEF CallsInv
      <3>2. writer'[c].at = "failed"
        BY <3>1
      <3> QED
        BY <3>2 DEF Progress
    <2> QED
      BY <2>2, <2>3, <2>4, <2>5 DEF WriteStep
  <1>10. Touched(c)' = Touched(c)
    BY <1>1 DEF Touched
  <1>11. CallOk(c)'
    BY <1>1, <1>5, <1>6, <1>9, <1>10, SameRequest DEF CallOk
  <1>12. \A d \in Calls : d # c =>
            /\ born'[d] = born[d] /\ pc'[d] = pc[d] /\ item'[d] = item[d]
            /\ writer'[d] = writer[d] /\ Touched(d)' = Touched(d)
    BY <1>1, <1>2 DEF Touched
  <1> QED
    BY <1>1, <1>2, <1>3, <1>4, <1>5, <1>11, <1>12, OneCall

(* The sweep, the change of the date and a power loss reach every call. *)
LEMMA SweepKeeps ==
    ASSUME CallsInv, (SweepOnce \/ NextDay) /\ Quiet
    PROVE  CallsInv' /\ Spared
  <1>1. UNCHANGED <<pc, req, born, item, changed, writer, rotate>>
    BY DEF Quiet, callVars, SweepOnce, NextDay
  <1>2. today \in Nat /\ today' \in Nat /\ today' >= today
    BY DEF CallsInv, LogInv, SweepOnce, NextDay
  <1>3. Tokens' = Tokens
    BY <1>1, SameTokens
  <1>4. LogWhole' /\ Spared /\ SparedText
    <2>1. CASE SweepOnce
      BY <1>3, <2>1, SweepSpares DEF CallsInv
    <2>2. CASE NextDay
      <3>1. files' = files
        BY <2>2 DEF NextDay
      <3> QED
        BY <1>3, <3>1, UnchangedFilesGrow, WholeStays, GrownSpares DEF CallsInv, LogInv
    <2> QED
      BY <2>1, <2>2
  <1>5. LogInv'
    BY <1>1, <1>2, <1>3, <1>4 DEF CallsInv, LogInv, WriterOk, Dated, FitsIn, HasPeriod, PeriodEnd
  <1>6. CallTypes'
    BY <1>1 DEF CallsInv, CallTypes
  <1>7. \A d \in Calls : CallOk(d)'
    BY <1>1, <1>2, <1>4, CallStays DEF CallsInv, Touched
  <1> QED
    BY <1>4, <1>5, <1>6, <1>7 DEF CallsInv

LEMMA PowerKeeps ==
    ASSUME CallsInv, PowerLoss
    PROVE  CallsInv' /\ Spared
  <1>1. /\ UNCHANGED <<req, born, item, changed, rotate, today>>
        /\ writer' = [c \in Calls |-> NoWrite]
        /\ pc' = [c \in Calls |-> IF pc[c] \in {"idle", "done"} THEN pc[c] ELSE "lost"]
        /\ LosesPower
    BY DEF PowerLoss, LosesPower
  <1>2. LogWhole' /\ Spared
    BY <1>1, SameTokens, PowerSpares DEF CallsInv, LogInv
  <1>3. LogInv'
    BY <1>1, <1>2 DEF CallsInv, LogInv, WriterOk, NoWrite
  <1>4. today \in Nat /\ today' >= today
    BY <1>1 DEF CallsInv, LogInv
  <1>5. CallTypes'
    BY <1>1 DEF CallsInv, CallTypes
  <1>6. ASSUME NEW d \in Calls PROVE CallOk(d)'
    <2>1. Kept(d) => Kept(d)'
      BY <1>1, <1>2, <1>4, KeptStays DEF CallsInv
    <2>2. CallOk(d) /\ Touched(d)' = Touched(d) /\ item'[d] = item[d]
      BY <1>1 DEF CallsInv, Touched
    <2>3. (pc'[d] \in {"idle", "done"} /\ pc'[d] = pc[d]) \/ pc'[d] = "lost"
      BY <1>1
    <2> QED
      BY <1>1, <2>1, <2>2, <2>3, SameRequest DEF CallOk
  <1> QED
    BY <1>2, <1>3, <1>5, <1>6 DEF CallsInv

--------------------------------------------------------------------------------

LEMMA CallsInit == Init => CallsInv
  <1> SUFFICES ASSUME Init PROVE CallsInv
    OBVIOUS
  <1>1. /\ DOMAIN files = {}
        /\ writer = [c \in Calls |-> NoWrite]
        /\ rotate \in RotateModes /\ today = 0
    BY DEF Init, AuditInit
  <1>2. LogInv
    BY <1>1 DEF LogInv, LogWhole, WriterOk, NoWrite
  <1>3. /\ pc = [c \in Calls |-> "idle"] /\ born = [c \in Calls |-> 0]
        /\ item = [c \in Calls |-> <<>>] /\ changed = {}
    BY DEF Init
  <1>4. CallTypes
    BY <1>3 DEF CallTypes
  <1>5. ASSUME NEW c \in Calls PROVE CallOk(c)
    <2>1. pc[c] = "idle" /\ item[c] = <<>> /\ ~Touched(c)
      BY <1>3 DEF Touched
    <2> QED
      BY <2>1 DEF CallOk
  <1> QED
    BY <1>2, <1>4, <1>5 DEF CallsInv

(* Every step keeps the invariant and spares the rows that are young. *)
LEMMA CallsStep == CallsInv /\ [Next]_vars => CallsInv' /\ Spared
  <1> SUFFICES ASSUME CallsInv, [Next]_vars PROVE CallsInv' /\ Spared
    OBVIOUS
  <1>1. ASSUME NEW c \in Calls, CallStep(c) \/ FanStep(c) PROVE CallsInv' /\ Spared
    <2>1. CallsInv'
      BY <1>1, ArriveKeeps, StartKeeps, IntentWrittenKeeps, ItemsKeep, FinishKeeps, FanKeeps
         DEF CallStep
    <2>2. files' = files
      BY <1>1 DEF CallStep, Arrive, Start, IntentWritten, Begin, Finish, OutcomeWritten, Takes, Fails,
                  ModifyMembers, FanStep, FanAcquire, FanAnswer, FanTimeout, Settle, FanReply, FanTick,
                  auditVars
    <2> QED
      BY <2>1, <2>2, UnchangedFilesGrow, GrownSpares DEF CallsInv, LogInv
  <1>2. ASSUME NEW c \in Calls, WriteStep(c) /\ Quiet PROVE CallsInv' /\ Spared
    <2>1. CallsInv'
      BY <1>2, WriteKeeps
    <2>2. Grown
      <3>1. req' = req
        BY <1>2 DEF Quiet, callVars
      <3> QED
        BY <1>2, <3>1, WriteTextKeeps, WriteNewlineKeeps, SyncDataKeeps, WriteFailsKeeps
           DEF CallsInv, WriteStep
    <2> QED
      BY <2>1, <2>2, GrownSpares DEF CallsInv, LogInv
  <1>3. CASE (SweepOnce \/ NextDay) /\ Quiet
    BY <1>3, SweepKeeps
  <1>4. CASE PowerLoss
    BY <1>4, PowerKeeps
  <1>5. CASE UNCHANGED vars
    <2>1. UNCHANGED <<pc, req, born, item, changed, files, rotate, today, writer>>
      BY <1>5 DEF vars, callVars, auditVars
    <2>2. LogInv' /\ Spared /\ SparedText /\ today' >= today /\ today' \in Nat
      BY <2>1, QuietLog DEF CallsInv, LogInv
    <2>3. CallTypes'
      BY <2>1 DEF CallsInv, CallTypes
    <2>4. \A d \in Calls : CallOk(d)'
      BY <2>1, <2>2, CallStays DEF CallsInv, Touched
    <2> QED
      BY <2>2, <2>3, <2>4 DEF CallsInv
  <1> QED
    BY <1>1, <1>2, <1>3, <1>4, <1>5 DEF Next

LEMMA CallsAlways == Spec => []CallsInv
  BY CallsInit, CallsStep, PTL DEF Spec

--------------------------------------------------------------------------------
(* What the arms of the mutating tools read *)

LEMMA ArmOf ==
    ASSUME NEW tool, NEW arms \in ArmTables, tool \in DOMAIN arms,
           \A other \in ArmTables : tool \in DOMAIN other => other = arms
    PROVE  tool \in DOMAIN Arm /\ Arm[tool] = arms[tool]
  <1>1. (CHOOSE other \in ArmTables : tool \in DOMAIN other) = arms
    OBVIOUS
  <1>2. tool \in UNION {DOMAIN other : other \in ArmTables}
    OBVIOUS
  <1> QED
    BY <1>1, <1>2 DEF Arm

LEMMA ArchiveArm ==
    ASSUME NEW tool \in {"archive_thread", "batch_archive"}
    PROVE  Arm[tool] = ArchiveArms[tool]
  <1>1. \A other \in ArmTables : tool \in DOMAIN other => other = ArchiveArms
    BY DEF ArmTables, StatusArms, ThreadArms, MessageArms, AttachmentArms, PurgeArms, ArchiveArms,
           TrashArms, LabelArms, CalendarArms, ContactArms, GroupArms
  <1>2. tool \in DOMAIN ArchiveArms
    BY DEF ArchiveArms
  <1>3. ArchiveArms \in ArmTables
    BY DEF ArmTables
  <1> QED
    BY <1>1, <1>2, <1>3, ArmOf

LEMMA TrashArm ==
    ASSUME NEW tool \in {"trash_thread", "batch_trash"}
    PROVE  Arm[tool] = TrashArms[tool]
  <1>1. \A other \in ArmTables : tool \in DOMAIN other => other = TrashArms
    BY DEF ArmTables, StatusArms, ThreadArms, MessageArms, AttachmentArms, PurgeArms, ArchiveArms,
           TrashArms, LabelArms, CalendarArms, ContactArms, GroupArms
  <1>2. tool \in DOMAIN TrashArms
    BY DEF TrashArms
  <1>3. TrashArms \in ArmTables
    BY DEF ArmTables
  <1> QED
    BY <1>1, <1>2, <1>3, ArmOf

LEMMA LabelArm ==
    ASSUME NEW tool \in {"modify_thread_labels", "batch_modify_thread_labels"}
    PROVE  Arm[tool] = LabelArms[tool]
  <1>1. \A other \in ArmTables : tool \in DOMAIN other => other = LabelArms
    BY DEF ArmTables, StatusArms, ThreadArms, MessageArms, AttachmentArms, PurgeArms, ArchiveArms,
           TrashArms, LabelArms, CalendarArms, ContactArms, GroupArms
  <1>2. tool \in DOMAIN LabelArms
    BY DEF LabelArms
  <1>3. LabelArms \in ArmTables
    BY DEF ArmTables
  <1> QED
    BY <1>1, <1>2, <1>3, ArmOf

LEMMA PurgeArm ==
    ASSUME NEW tool \in {"cache_invalidate", "purge_account"}
    PROVE  Arm[tool] = PurgeArms[tool]
  <1>1. \A other \in ArmTables : tool \in DOMAIN other => other = PurgeArms
    BY DEF ArmTables, StatusArms, ThreadArms, MessageArms, AttachmentArms, PurgeArms, ArchiveArms,
           TrashArms, LabelArms, CalendarArms, ContactArms, GroupArms
  <1>2. tool \in DOMAIN PurgeArms
    BY DEF PurgeArms
  <1>3. PurgeArms \in ArmTables
    BY DEF ArmTables
  <1> QED
    BY <1>1, <1>2, <1>3, ArmOf

LEMMA GroupArm == Arm[MembershipTool] = GroupArms[MembershipTool]
  <1>1. \A other \in ArmTables : MembershipTool \in DOMAIN other => other = GroupArms
    BY DEF ArmTables, StatusArms, ThreadArms, MessageArms, AttachmentArms, PurgeArms, ArchiveArms,
           TrashArms, LabelArms, CalendarArms, ContactArms, GroupArms, MembershipTool
  <1>2. MembershipTool \in DOMAIN GroupArms
    BY DEF GroupArms, MembershipTool
  <1>3. GroupArms \in ArmTables
    BY DEF ArmTables
  <1> QED
    BY <1>1, <1>2, <1>3, ArmOf

(* send_email has no arm. *)
LEMMA NoSendArm == "send_email" \notin DOMAIN Arm
  <1>1. \A arms \in ArmTables : "send_email" \notin DOMAIN arms
    BY DEF ArmTables, StatusArms, ThreadArms, MessageArms, AttachmentArms, PurgeArms, ArchiveArms,
           TrashArms, LabelArms, CalendarArms, ContactArms, GroupArms
  <1> QED
    BY <1>1 DEF Arm

(* A mutating tool that lets a request in was given a string for its account,   *)
(* and one that is not cache_invalidate refused the fan-out marker.             *)
LEMMA AccountRead ==
    ASSUME NEW tool \in MutatingTools, NEW args, NEW env, Accepted(tool, args, env)
    PROVE  /\ tool \in IntentTools \cup {MembershipTool}
           /\ IsString(Given(args, "account"))
           /\ Given(args, "account") = "star" => tool = "cache_invalidate"
  <1> DEFINE account == Given(args, "account")
  <1>1. tool \in IntentTools \cup {MembershipTool}
    BY NoSendArm DEF Accepted, MutatingTools, WriteTools, DestructiveTools, IntentTools, MembershipTool
  <1>2. ~FanoutEligible(tool)
    BY DEF FanoutEligible, ReadTools, MutatingTools, WriteTools, DestructiveTools
  <1>3. Passes(tool, Account, args, env) => IsString(account) /\ account # "star"
    BY <1>2 DEF Passes, Account, AccountArg, Given
  <1>4. Passes(tool, Text("account"), args, env) => IsString(account)
    BY DEF Passes, Text, StringArg, Given
  <1>5. Passes(tool, Single, args, env) => account # "star"
    BY DEF Passes, Single, Given
  <1>6. CASE tool \in {"archive_thread", "batch_archive"}
    <2>1. 1 \in DOMAIN Arm[tool] /\ Arm[tool][1] = Account
      BY <1>6, ArchiveArm DEF ArchiveArms
    <2> QED
      BY <1>1, <1>3, <2>1 DEF Accepted
  <1>7. CASE tool \in {"trash_thread", "batch_trash"}
    <2>1. 1 \in DOMAIN Arm[tool] /\ Arm[tool][1] = Account
      BY <1>7, TrashArm DEF TrashArms
    <2> QED
      BY <1>1, <1>3, <2>1 DEF Accepted
  <1>8. CASE tool \in {"modify_thread_labels", "batch_modify_thread_labels"}
    <2>1. 1 \in DOMAIN Arm[tool] /\ Arm[tool][1] = Account
      BY <1>8, LabelArm DEF LabelArms
    <2> QED
      BY <1>1, <1>3, <2>1 DEF Accepted
  <1>9. CASE tool = "purge_account"
    <2>1. /\ 1 \in DOMAIN Arm[tool] /\ Arm[tool][1] = Text("account")
          /\ 2 \in DOMAIN Arm[tool] /\ Arm[tool][2] = Single
      BY <1>9, PurgeArm DEF PurgeArms
    <2> QED
      BY <1>1, <1>4, <1>5, <2>1 DEF Accepted
  <1>10. CASE tool = "cache_invalidate"
    <2>1. 1 \in DOMAIN Arm[tool] /\ Arm[tool][1] = Text("account")
      BY <1>10, PurgeArm DEF PurgeArms
    <2> QED
      BY <1>1, <1>4, <1>10, <2>1 DEF Accepted
  <1>11. CASE tool = MembershipTool
    <2>1. 1 \in DOMAIN Arm[tool] /\ Arm[tool][1] = Account
      BY <1>11, GroupArm DEF GroupArms, MembershipTool
    <2> QED
      BY <1>1, <1>3, <2>1 DEF Accepted
  <1> QED
    BY <1>1, <1>6, <1>7, <1>8, <1>9, <1>10, <1>11 DEF IntentTools

(* Two mutating tools have no dry run: their arms do not read the argument.     *)
LEMMA NoDryRun ==
    "dry_run" \notin ArgsRead("cache_invalidate") /\ "dry_run" \notin ArgsRead(MembershipTool)
  <1>1. "dry_run" \notin ArgsRead("cache_invalidate")
    <2>1. Arm["cache_invalidate"] = <<Text("account"), Text("scope"), <<"enum", "scope">>>>
      BY PurgeArm DEF PurgeArms
    <2>2. \A i \in {1, 2, 3} : Arm["cache_invalidate"][i][2] # "dry_run"
      BY <2>1 DEF Text
    <2>3. DOMAIN Arm["cache_invalidate"] = {1, 2, 3}
      BY <2>1
    <2> QED
      BY <2>2, <2>3 DEF ArgsRead
  <1>2. "dry_run" \notin ArgsRead(MembershipTool)
    <2>1. Arm[MembershipTool] =
            <<Account, Contacts, Text("contact_group_resource_name"), May("resource_names_to_add"),
              May("resource_names_to_remove")>>
      BY GroupArm DEF GroupArms, MembershipTool
    <2>2. \A i \in {1, 2, 3, 4, 5} : Arm[MembershipTool][i][2] # "dry_run"
      BY <2>1 DEF Text, Account, Contacts, May
    <2>3. DOMAIN Arm[MembershipTool] = {1, 2, 3, 4, 5}
      BY <2>1
    <2> QED
      BY <2>2, <2>3 DEF ArgsRead
  <1> QED
    BY <1>1, <1>2

(* No mutating tool goes upstream on a dry run.                                 *)
LEMMA TodoIsReal ==
    ASSUME NEW c, req[c].tool \in IntentTools \cup {MembershipTool}, Body(c) = "todo"
    PROVE  ~DryRun(c)
  <1>1. CASE req[c].tool \in {"cache_invalidate", MembershipTool}
    BY <1>1, NoDryRun DEF DryRun
  <1>2. CASE req[c].tool \notin {"cache_invalidate", MembershipTool}
    <2>1. Body(c) \in {"invalid", ShouldApply(c)}
      BY <1>2 DEF Body, IntentTools, ArchiveThread, BatchArchive, TrashThread, BatchTrash,
                  ModifyThreadLabels, BatchModifyThreadLabels, PurgeAccount
    <2> QED
      BY <2>1 DEF ShouldApply
  <1> QED
    BY <1>1, <1>2

(* What a call that has changed something was asked for.                        *)
LEMMA TouchedIsAsked ==
    ASSUME CallsInv, NEW c \in Calls, Touched(c)
    PROVE  /\ req[c].tool \in MutatingTools
           /\ ~DryRun(c)
           /\ req[c].tool \in IntentTools => Kept(c)
           /\ Arg(c, "account") = "text"
  <1>1. /\ Let(c) /\ Body(c) = "todo" /\ req[c].tool \in MutatingTools
        /\ Audited(c) => Kept(c) /\ SafeAlias(Arg(c, "account"))
    BY DEF CallsInv, CallOk
  <1>2. /\ req[c].tool \in IntentTools \cup {MembershipTool}
        /\ IsString(Arg(c, "account"))
        /\ Arg(c, "account") = "star" => req[c].tool = "cache_invalidate"
    BY <1>1, AccountRead DEF Let, Arg
  <1>3. ~DryRun(c)
    BY <1>1, <1>2, TodoIsReal
  <1>4. CASE req[c].tool \in IntentTools
    <2>1. Kept(c) /\ SafeAlias(Arg(c, "account"))
      BY <1>1, <1>3, <1>4 DEF Audited
    <2> QED
      BY <1>1, <1>2, <1>3, <2>1 DEF SafeAlias, IsString
  <1>5. CASE req[c].tool \notin IntentTools
    <2>1. req[c].tool = MembershipTool
      BY <1>2, <1>5
    <2>2. Body(c) = IF ServiceTakes(MembershipTool, req[c].args) THEN "todo" ELSE "invalid"
      BY <2>1 DEF Body, MembershipTool
    <2>3. ServiceTakes(MembershipTool, req[c].args)
      BY <1>1, <2>2
    <2>4. ModifyContactGroupMembership(req[c].args)
      BY <2>3 DEF ServiceTakes, MembershipTool
    <2>5. Arg(c, "account") \notin {"blank", "odd"}
      BY <2>4 DEF ModifyContactGroupMembership, HasAccount, Arg
    <2>6. Arg(c, "account") # "star"
      BY <1>2, <2>1 DEF MembershipTool
    <2> QED
      BY <1>1, <1>2, <1>3, <1>5, <2>5, <2>6 DEF IsString
  <1> QED
    BY <1>4, <1>5

--------------------------------------------------------------------------------

(* Whatever the daemon goes through (rotation, writes of other calls that fail, *)
(* the sweep, a loss of power), a change made by an audited tool has its intent *)
(* row on durable storage until the retention period of the row is over.        *)
THEOREM ChangesAreOnRecord == Spec => []IntentOutlivesChange
  <1>1. CallsInv => IntentOutlivesChange
    <2> SUFFICES ASSUME CallsInv, NEW x \in changed, req[x[1]].tool \in IntentTools
                 PROVE  \/ OnDisk([IntentRow(x[1]) EXCEPT !.day = born[x[1]]])
                        \/ DeleteAfter > 0 /\ today >= born[x[1]] + DeleteAfter
      BY DEF IntentOutlivesChange
    <2> DEFINE c == x[1]
    <2>1. c \in Calls /\ Touched(c)
      BY DEF CallsInv, CallTypes, Touched
    <2>2. Kept(c)
      BY <2>1, TouchedIsAsked
    <2>3. [IntentRow(c) EXCEPT !.day = born[c]] = Intent(c)
      BY DEF IntentRow, Row, Intent, RowOf
    <2> QED
      BY <2>2, <2>3 DEF Kept, Aged
  <1> QED
    BY <1>1, CallsAlways, PTL

(* Nothing changes unless a request for one account that is not a dry run asked *)
(* a mutating tool for it: the arms refuse the fan-out marker, or the audit log *)
(* refuses its alias; two of the arms know no dry run.                          *)
THEOREM OnlyWhatWasAsked == Spec => []OnlyAskedFor
  <1>1. CallsInv => OnlyAskedFor
    <2> SUFFICES ASSUME CallsInv, NEW x \in changed
                 PROVE  /\ req[x[1]].tool \in MutatingTools
                        /\ ~DryRun(x[1])
                        /\ Arg(x[1], "account") = "text"
      BY DEF OnlyAskedFor
    <2>1. x[1] \in Calls /\ Touched(x[1])
      BY DEF CallsInv, CallTypes, Touched
    <2> QED
      BY <2>1, TouchedIsAsked
  <1> QED
    BY <1>1, CallsAlways, PTL

(* No sweep, and nothing else that happens to the log, takes a durable row that *)
(* is not DeleteAfter days old.                                                 *)
THEOREM YoungRowsAreSpared == Spec => SweepSparesYoungRows
  <1>1. CallsInv /\ [Next]_vars =>
          [\A f \in DOMAIN files : \A i \in 1 .. files[f].safe :
             files[f].text[i] \in {Newline, Torn}
             \/ today - files[f].text[i].day >= DeleteAfter
             \/ (f \in DOMAIN files' /\ i <= files'[f].safe /\ files'[f].text[i] = files[f].text[i])]_vars
    BY CallsStep DEF Spared
  <1> QED
    BY <1>1, CallsAlways, PTL DEF Spec, SweepSparesYoungRows

--------------------------------------------------------------------------------
(* Replies *)

Changing(c) == req[c].tool \in MutatingTools
Joined(c) == item[c] # <<>> /\ \A i \in DOMAIN item[c] : item[c][i] # "todo"

ItemsOk(c) ==
    /\ item[c] = <<>> \/ DOMAIN item[c] = 1 .. req[c].ids
    /\ \A i \in DOMAIN item[c] :
          /\ item[c][i] \in {"invalid", "ok", "todo", "error", "skipped"}
          /\ item[c][i] = "skipped" => req[c].tool = MembershipTool
          /\ item[c][i] = "ok" /\ Changing(c) => Body(c) = "ok" \/ <<c, i>> \in changed

ReplyOk(c) ==
    /\ pc[c] = "fanout" => ~Changing(c)
    /\ ItemsOk(c)
    /\ pc[c] = "outcome" => Joined(c)
    /\ pc[c] = "done" /\ Changing(c) /\ reply[c].code = "ok" =>
          Joined(c) /\ BodyOk(c) /\ reply[c] = Answer(c)
    /\ pc[c] = "done" /\ "entries" \in DOMAIN reply[c] /\ timer[c] < TotalTime =>
          Settled(c) = Accounts /\ reply[c] = Envelope(c)

ReplyTypes ==
    /\ \A c \in Calls : req[c].ids \in Nat
    /\ DOMAIN reply = Calls
    /\ DOMAIN fan = Calls
    /\ timer \in [Calls -> Nat]

RepliesInv == CallTypes /\ ReplyTypes /\ \A c \in Calls : ReplyOk(c)

(* A call keeps its part of the invariant while nothing it reads changes.       *)
LEMMA ReplyStays ==
    ASSUME NEW d \in Calls, ReplyOk(d), req' = req, pc'[d] \in {pc[d], "lost"}, item'[d] = item[d],
           reply'[d] = reply[d], fan'[d] = fan[d], timer'[d] = timer[d],
           changed \subseteq changed'
    PROVE  ReplyOk(d)'
  <1>1. /\ Body(d)' = Body(d) /\ Changing(d)' = Changing(d)
        /\ req'[d] = req[d]
    BY SameRequest DEF Changing
  <1>2. ItemsOk(d)'
    BY <1>1 DEF ReplyOk, ItemsOk
  <1>3. Joined(d)' = Joined(d)
    BY DEF Joined
  <1>4. BodyOk(d)' = BodyOk(d)
    BY DEF BodyOk
  <1>5. \A outcome : Count(d, outcome)' = Count(d, outcome)
    BY DEF Count
  <1>6. Answer(d)' = Answer(d)
    BY <1>4, <1>5 DEF Answer, SkippedMembers, FromItems
  <1>7. Settled(d)' = Settled(d)
    BY DEF Settled
  <1>8. Envelope(d)' = Envelope(d)
    BY <1>7 DEF Envelope
  <1> QED
    BY <1>1, <1>2, <1>3, <1>4, <1>6, <1>7, <1>8 DEF ReplyOk

LEMMA OneReply ==
    ASSUME NEW c \in Calls, RepliesInv, CallTypes', ReplyTypes', ReplyOk(c)', req' = req,
           changed \subseteq changed',
           \A d \in Calls : d # c =>
              /\ pc'[d] = pc[d] /\ item'[d] = item[d] /\ reply'[d] = reply[d]
              /\ fan'[d] = fan[d] /\ timer'[d] = timer[d]
    PROVE  RepliesInv'
  <1>1. ASSUME NEW d \in Calls, d # c PROVE ReplyOk(d)'
    BY <1>1, ReplyStays DEF RepliesInv
  <1> QED
    BY <1>1 DEF RepliesInv

(* Neither a refusal nor the answer of a tool looks like an envelope. *)
LEMMA Codes ==
    /\ \A code : "entries" \notin DOMAIN Refused(code) /\ Refused(code).code = code
    /\ ToMcpError("Internal") # "ok" /\ ToMcpError("InvalidArgument") # "ok" /\ ToMcpError("Upstream") # "ok"
  BY DEF Refused, ToMcpError

LEMMA AnswerIsNoEnvelope ==
    ASSUME NEW c
    PROVE  "entries" \notin DOMAIN Answer(c) /\ (Answer(c).code = "ok" => BodyOk(c))
  <1>1. CASE BodyOk(c)
    BY <1>1 DEF Answer, SkippedMembers, FromItems
  <1>2. CASE ~BodyOk(c)
    <2>1. PICK code \in {ToMcpError("InvalidArgument"), ToMcpError("Upstream")} : Answer(c) = Refused(code)
      BY <1>2 DEF Answer
    <2> QED
      BY <2>1, Codes
  <1> QED
    BY <1>1, <1>2

LEMMA RequestReplies ==
    ASSUME NEW c \in Calls, RepliesInv, CallTypes', Arrive(c) \/ Start(c) \/ IntentWritten(c)
    PROVE  RepliesInv'
  <1>1. UNCHANGED <<req, item, changed, fan, timer>>
    BY DEF Arrive, Start, IntentWritten
  <1>2. PICK p \in {"done", "fanout", "arm", "intent", "body"} : pc' = [pc EXCEPT ![c] = p]
    BY DEF Arrive, Start, IntentWritten
  <1>3. \/ reply' = reply /\ p # "done"
        \/ reply' = [reply EXCEPT ![c] = Refused("invalid_params")]
        \/ reply' = [reply EXCEPT ![c] = Refused(ToMcpError("Internal"))]
    BY <1>2 DEF Arrive, Start, IntentWritten, RepliesInv, CallTypes
  <1>4. p = "fanout" => ~Changing(c)
    <2>1. p = "fanout" => req[c].tool \in FanoutTools
      BY <1>2 DEF Arrive, Start, IntentWritten, RepliesInv, CallTypes
    <2> QED
      BY <2>1 DEF FanoutTools, Changing, MutatingTools, WriteTools, DestructiveTools
  <1>5. ReplyTypes'
    BY <1>1, <1>3 DEF RepliesInv, ReplyTypes
  <1>6. pc'[c] = p /\ (p = "done" => \E code : code # "ok" /\ reply'[c] = Refused(code))
    BY <1>2, <1>3, Codes DEF RepliesInv, CallTypes, ReplyTypes
  <1>7. ItemsOk(c)'
    BY <1>1, SameRequest DEF RepliesInv, ReplyOk, ItemsOk, Changing
  <1>8. Changing(c)' = Changing(c)
    BY <1>1 DEF Changing
  <1>9. p = "done" => reply'[c].code # "ok" /\ "entries" \notin DOMAIN reply'[c]
    BY <1>6, Codes
  <1>10. ReplyOk(c)'
    BY <1>4, <1>6, <1>7, <1>8, <1>9 DEF ReplyOk
  <1>11. \A d \in Calls : d # c =>
            /\ pc'[d] = pc[d] /\ item'[d] = item[d] /\ reply'[d] = reply[d]
            /\ fan'[d] = fan[d] /\ timer'[d] = timer[d]
    BY <1>1, <1>2, <1>3 DEF RepliesInv, CallTypes, ReplyTypes
  <1> QED
    BY <1>1, <1>5, <1>10, <1>11, OneReply

(* The items of a call in its body.                                             *)
LEMMA ItemsReply ==
    ASSUME NEW c \in Calls, NEW new, RepliesInv, CallTypes',
           UNCHANGED <<pc, req, reply, fan, timer>>, pc[c] = "body", changed \subseteq changed',
           item' = [item EXCEPT ![c] = new],
           new = <<>> \/ DOMAIN new = 1 .. req[c].ids,
           \A i \in DOMAIN new :
              /\ new[i] \in {"invalid", "ok", "todo", "error", "skipped"}
              /\ new[i] = "skipped" => req[c].tool = MembershipTool
              /\ new[i] = "ok" /\ Changing(c) => Body(c) = "ok" \/ <<c, i>> \in changed'
    PROVE  RepliesInv'
  <1>1. item'[c] = new /\ pc'[c] = "body"
    BY DEF RepliesInv, CallTypes
  <1>2. ReplyTypes'
    BY DEF RepliesInv, ReplyTypes
  <1>3. ItemsOk(c)'
    BY <1>1, SameRequest DEF ItemsOk, Changing
  <1>4. ReplyOk(c)'
    BY <1>1, <1>3 DEF ReplyOk
  <1>5. \A d \in Calls : d # c =>
           /\ pc'[d] = pc[d] /\ item'[d] = item[d] /\ reply'[d] = reply[d]
           /\ fan'[d] = fan[d] /\ timer'[d] = timer[d]
    BY DEF RepliesInv, CallTypes
  <1> QED
    BY <1>2, <1>4, <1>5, OneReply

LEMMA BodyIs == \A c : Body(c) \in {"invalid", "ok", "todo"}
  BY DEF Body, ShouldApply, ArchiveThread, BatchArchive, TrashThread, BatchTrash, ModifyThreadLabels,
         BatchModifyThreadLabels, CacheInvalidate, PurgeAccount

LEMMA BodyReplies ==
    ASSUME NEW c \in Calls, RepliesInv, CallTypes',
           Begin(c) \/ (\E i \in DOMAIN item[c] : Takes(c, i) \/ Fails(c, i)) \/ ModifyMembers(c)
    PROVE  RepliesInv'
  <1>1. /\ UNCHANGED <<pc, req, reply, fan, timer>>
        /\ pc[c] = "body"
        /\ changed \subseteq changed'
    BY DEF Begin, Takes, Fails, ModifyMembers
  <1>2. ItemsOk(c)
    BY DEF RepliesInv, ReplyOk
  <1>3. CASE Begin(c)
    <2> DEFINE new == [i \in 1 .. req[c].ids |-> Body(c)]
    <2>1. item' = [item EXCEPT ![c] = new]
      BY <1>3 DEF Begin
    <2>2. DOMAIN new = 1 .. req[c].ids
      OBVIOUS
    <2>3. \A i \in DOMAIN new :
             /\ new[i] \in {"invalid", "ok", "todo", "error", "skipped"}
             /\ new[i] = "skipped" => req[c].tool = MembershipTool
             /\ new[i] = "ok" /\ Changing(c) => Body(c) = "ok" \/ <<c, i>> \in changed'
      BY BodyIs
    <2> HIDE DEF new
    <2> QED
      BY <1>1, <2>1, <2>2, <2>3, ItemsReply
  <1>4. ASSUME NEW i \in DOMAIN item[c], Takes(c, i) PROVE RepliesInv'
    <2>1. PICK answer \in {"ok", "error"} : item' = [item EXCEPT ![c][i] = answer]
      BY <1>4 DEF Takes
    <2>2. Changing(c) => <<c, i>> \in changed'
      BY <1>4 DEF Takes, Changing
    <2> DEFINE new == [item[c] EXCEPT ![i] = answer]
    <2>3. item' = [item EXCEPT ![c] = new]
      BY <2>1
    <2>4. DOMAIN new = 1 .. req[c].ids
      BY <1>2 DEF ItemsOk
    <2>5. ASSUME NEW j \in DOMAIN new
          PROVE  /\ new[j] \in {"invalid", "ok", "todo", "error", "skipped"}
                 /\ new[j] = "skipped" => req[c].tool = MembershipTool
                 /\ new[j] = "ok" /\ Changing(c) => Body(c) = "ok" \/ <<c, j>> \in changed'
      <3>1. CASE j = i
        BY <2>2, <3>1
      <3>2. CASE j # i
        BY <1>1, <1>2, <3>2 DEF ItemsOk
      <3> QED
        BY <3>1, <3>2
    <2> HIDE DEF new
    <2> QED
      BY <1>1, <2>3, <2>4, <2>5, ItemsReply
  <1>5. ASSUME NEW i \in DOMAIN item[c], Fails(c, i) PROVE RepliesInv'
    <2> DEFINE new == [item[c] EXCEPT ![i] = "error"]
    <2>1. item' = [item EXCEPT ![c] = new]
      BY <1>5 DEF Fails
    <2>2. DOMAIN new = 1 .. req[c].ids
      BY <1>2 DEF ItemsOk
    <2>3. ASSUME NEW j \in DOMAIN new
          PROVE  /\ new[j] \in {"invalid", "ok", "todo", "error", "skipped"}
                 /\ new[j] = "skipped" => req[c].tool = MembershipTool
                 /\ new[j] = "ok" /\ Changing(c) => Body(c) = "ok" \/ <<c, j>> \in changed'
      <3>1. CASE j = i
        BY <3>1
      <3>2. CASE j # i
        BY <1>1, <1>2, <3>2 DEF ItemsOk
      <3> QED
        BY <3>1, <3>2
    <2> HIDE DEF new
    <2> QED
      BY <1>1, <2>1, <2>2, <2>3, ItemsReply
  <1>6. CASE ModifyMembers(c)
    <2>1. PICK skipped \in SUBSET DOMAIN item[c] :
             /\ changed' = changed \cup {<<c, i>> : i \in DOMAIN item[c] \ skipped}
             /\ \/ item' = [item EXCEPT ![c] = [i \in DOMAIN @ |-> IF i \in skipped THEN "skipped" ELSE "ok"]]
                \/ item' = [item EXCEPT ![c] = [i \in DOMAIN @ |-> "error"]]
      BY <1>6 DEF ModifyMembers
    <2>2. DOMAIN item[c] = 1 .. req[c].ids /\ req[c].tool = MembershipTool
      BY <1>2, <1>6 DEF ItemsOk, ModifyMembers
    <2>3. CASE item' = [item EXCEPT ![c] = [i \in DOMAIN @ |-> IF i \in skipped THEN "skipped" ELSE "ok"]]
      <3> DEFINE new == [i \in DOMAIN item[c] |-> IF i \in skipped THEN "skipped" ELSE "ok"]
      <3>1. item' = [item EXCEPT ![c] = new]
        BY <2>3
      <3>2. \A i \in DOMAIN new :
              /\ new[i] \in {"invalid", "ok", "todo", "error", "skipped"}
              /\ new[i] = "skipped" => req[c].tool = MembershipTool
              /\ new[i] = "ok" /\ Changing(c) => Body(c) = "ok" \/ <<c, i>> \in changed'
        BY <2>1, <2>2
      <3>3. DOMAIN new = 1 .. req[c].ids
        BY <2>2
      <3> HIDE DEF new
      <3> QED
        BY <1>1, <3>1, <3>2, <3>3, ItemsReply
    <2>4. CASE item' = [item EXCEPT ![c] = [i \in DOMAIN @ |-> "error"]]
      <3> DEFINE new == [i \in DOMAIN item[c] |-> "error"]
      <3>1. item' = [item EXCEPT ![c] = new]
        BY <2>4
      <3>2. \A i \in DOMAIN new :
              /\ new[i] \in {"invalid", "ok", "todo", "error", "skipped"}
              /\ new[i] = "skipped" => req[c].tool = MembershipTool
              /\ new[i] = "ok" /\ Changing(c) => Body(c) = "ok" \/ <<c, i>> \in changed'
        OBVIOUS
      <3>3. DOMAIN new = 1 .. req[c].ids
        BY <2>2
      <3> HIDE DEF new
      <3> QED
        BY <1>1, <3>1, <3>2, <3>3, ItemsReply
    <2> QED
      BY <2>1, <2>3, <2>4
  <1> QED
    BY <1>3, <1>4, <1>5, <1>6

LEMMA AnswerReplies ==
    ASSUME NEW c \in Calls, RepliesInv, CallTypes', Finish(c) \/ OutcomeWritten(c)
    PROVE  RepliesInv'
  <1>1. UNCHANGED <<req, item, changed, fan, timer>> /\ pc[c] \in {"body", "outcome"}
    BY DEF Finish, OutcomeWritten
  <1>2. Joined(c)
    BY DEF Finish, OutcomeWritten, Joined, RepliesInv, ReplyOk
  <1>3. \/ pc' = [pc EXCEPT ![c] = "outcome"] /\ reply' = reply
        \/ pc' = [pc EXCEPT ![c] = "done"] /\ reply' = [reply EXCEPT ![c] = Answer(c)]
    BY DEF Finish, OutcomeWritten
  <1>4. ReplyTypes'
    BY <1>1, <1>3 DEF RepliesInv, ReplyTypes
  <1>5. \/ pc'[c] = "outcome"
        \/ pc'[c] = "done" /\ reply'[c] = Answer(c)
    BY <1>3 DEF RepliesInv, ReplyTypes, CallTypes
  <1>6. /\ Joined(c)' = Joined(c) /\ BodyOk(c)' = BodyOk(c)
        /\ \A outcome : Count(c, outcome)' = Count(c, outcome)
    BY <1>1 DEF Joined, BodyOk, Count
  <1>7. Answer(c)' = Answer(c)
    BY <1>1, <1>6 DEF Answer, SkippedMembers, FromItems
  <1>8. ItemsOk(c)'
    BY <1>1, SameRequest DEF RepliesInv, ReplyOk, ItemsOk, Changing
  <1>9. ReplyOk(c)'
    BY <1>2, <1>5, <1>6, <1>7, <1>8, AnswerIsNoEnvelope DEF ReplyOk
  <1>10. \A d \in Calls : d # c =>
            /\ pc'[d] = pc[d] /\ item'[d] = item[d] /\ reply'[d] = reply[d]
            /\ fan'[d] = fan[d] /\ timer'[d] = timer[d]
    BY <1>1, <1>3 DEF RepliesInv, CallTypes, ReplyTypes
  <1> QED
    BY <1>1, <1>4, <1>9, <1>10, OneReply

LEMMA FanReplies ==
    ASSUME NEW c \in Calls, RepliesInv, CallTypes', FanStep(c)
    PROVE  RepliesInv'
  <1>1. UNCHANGED <<req, item, changed>> /\ pc[c] = "fanout"
    BY DEF FanStep, FanAcquire, FanAnswer, FanTimeout, Settle, FanReply, FanTick
  <1>2. ~Changing(c) /\ ItemsOk(c)
    BY <1>1 DEF RepliesInv, ReplyOk
  <1>3. ItemsOk(c)' /\ Changing(c)' = Changing(c)
    BY <1>1, <1>2, SameRequest DEF ItemsOk, Changing
  <1>4. CASE FanReply(c)
    <2>1. /\ pc' = [pc EXCEPT ![c] = "done"] /\ reply' = [reply EXCEPT ![c] = Envelope(c)]
          /\ UNCHANGED <<fan, timer>>
          /\ Settled(c) = Accounts \/ timer[c] >= TotalTime
      BY <1>4 DEF FanReply
    <2>2. ReplyTypes'
      BY <1>1, <2>1 DEF RepliesInv, ReplyTypes
    <2>3. pc'[c] = "done" /\ reply'[c] = Envelope(c)
      BY <2>1 DEF RepliesInv, CallTypes, ReplyTypes
    <2>4. Settled(c)' = Settled(c)
      BY <2>1 DEF Settled
    <2>5. Envelope(c)' = Envelope(c)
      BY <2>1, <2>4 DEF Envelope
    <2>6. timer'[c] < TotalTime => Settled(c)' = Accounts
      <3>1. timer[c] \in Nat /\ TotalTime \in Nat
        BY ToolCallsAssumption DEF RepliesInv, ReplyTypes
      <3> QED
        BY <2>1, <2>4, <3>1
    <2>7. ReplyOk(c)'
      BY <1>2, <1>3, <2>3, <2>5, <2>6 DEF ReplyOk
    <2>8. \A d \in Calls : d # c =>
             /\ pc'[d] = pc[d] /\ item'[d] = item[d] /\ reply'[d] = reply[d]
             /\ fan'[d] = fan[d] /\ timer'[d] = timer[d]
      BY <1>1, <2>1 DEF RepliesInv, CallTypes, ReplyTypes
    <2> QED
      BY <1>1, <2>2, <2>7, <2>8, OneReply
  <1>5. CASE ~FanReply(c)
    <2>1. /\ UNCHANGED <<pc, reply>>
          /\ fan' = fan \/ \E row : fan' = [fan EXCEPT ![c] = row]
          /\ timer' = timer \/ timer' = [timer EXCEPT ![c] = @ + 1]
      <3>1. CASE FanTick(c)
        BY <3>1 DEF FanTick
      <3>2. ASSUME NEW a \in Accounts, NEW entry, fan' = [fan EXCEPT ![c][a] = entry]
            PROVE  \E row : fan' = [fan EXCEPT ![c] = row]
        BY <3>2
      <3>3. ASSUME NEW a \in Accounts, FanAcquire(c, a) \/ FanAnswer(c, a) \/ FanTimeout(c, a)
            PROVE  UNCHANGED <<pc, reply, timer>> /\ \E entry : fan' = [fan EXCEPT ![c][a] = entry]
        BY <3>3 DEF FanAcquire, FanAnswer, FanTimeout, Settle
      <3> QED
        BY <1>5, <3>1, <3>2, <3>3 DEF FanStep
    <2>2. ReplyTypes'
      BY <1>1, <2>1 DEF RepliesInv, ReplyTypes
    <2>3. pc'[c] = "fanout"
      BY <1>1, <2>1
    <2>4. ReplyOk(c)'
      BY <1>2, <1>3, <2>3 DEF ReplyOk
    <2>5. \A d \in Calls : d # c =>
             /\ pc'[d] = pc[d] /\ item'[d] = item[d] /\ reply'[d] = reply[d]
             /\ fan'[d] = fan[d] /\ timer'[d] = timer[d]
      BY <1>1, <2>1 DEF RepliesInv, ReplyTypes
    <2> QED
      BY <1>1, <2>2, <2>4, <2>5, OneReply
  <1> QED
    BY <1>4, <1>5

LEMMA RepliesInit == Init => RepliesInv
  <1> SUFFICES ASSUME Init PROVE RepliesInv
    OBVIOUS
  <1>1. CallTypes
    BY CallsInit DEF CallsInv
  <1>2. /\ pc = [c \in Calls |-> "idle"] /\ item = [c \in Calls |-> <<>>]
        /\ reply = [c \in Calls |-> NoReply] /\ timer = [c \in Calls |-> 0]
        /\ DOMAIN fan = Calls /\ req \in Plans
    BY DEF Init
  <1>3. ReplyTypes
    BY <1>2, ToolCallsAssumption DEF ReplyTypes
  <1>4. \A c \in Calls : pc[c] = "idle" /\ item[c] = <<>>
    BY <1>2
  <1>5. \A c \in Calls : ItemsOk(c)
    BY <1>4 DEF ItemsOk
  <1> QED
    BY <1>1, <1>3, <1>4, <1>5 DEF RepliesInv, ReplyOk

LEMMA RepliesStep == RepliesInv /\ CallsInv' /\ [Next]_vars => RepliesInv'
  <1> SUFFICES ASSUME RepliesInv, CallTypes', [Next]_vars PROVE RepliesInv'
    BY DEF CallsInv
  <1>1. ASSUME NEW c \in Calls, CallStep(c) \/ FanStep(c) PROVE RepliesInv'
    BY <1>1, RequestReplies, BodyReplies, AnswerReplies, FanReplies DEF CallStep
  <1>2. ASSUME UNCHANGED <<req, item, changed, reply, fan, timer>>,
               \A d \in Calls : pc'[d] \in {pc[d], "lost"}
        PROVE  RepliesInv'
    <2>1. ReplyTypes'
      BY <1>2 DEF RepliesInv, ReplyTypes
    <2>2. \A d \in Calls : ReplyOk(d)'
      BY <1>2, ReplyStays DEF RepliesInv
    <2> QED
      BY <2>1, <2>2 DEF RepliesInv
  <1>3. CASE (\E c \in Calls : WriteStep(c) /\ Quiet) \/ (SweepOnce /\ Quiet) \/ (NextDay /\ Quiet)
    BY <1>2, <1>3 DEF Quiet, callVars
  <1>4. CASE PowerLoss
    <2>1. /\ UNCHANGED <<req, item, changed, reply, fan, timer>>
          /\ pc' = [c \in Calls |-> IF pc[c] \in {"idle", "done"} THEN pc[c] ELSE "lost"]
      BY <1>4 DEF PowerLoss
    <2> QED
      BY <1>2, <2>1
  <1>5. CASE UNCHANGED vars
    BY <1>2, <1>5 DEF vars, callVars
  <1> QED
    BY <1>1, <1>3, <1>4, <1>5 DEF Next

LEMMA RepliesAlways == Spec => []RepliesInv
  BY RepliesInit, RepliesStep, CallsAlways, PTL DEF Spec

(* A fan-out reply that beat the total timeout counts every account and names   *)
(* each of those whose task did not panic, however the tasks, their timers and  *)
(* the semaphore interleave.                                                    *)
THEOREM FanoutsAreComplete == Spec => []FanoutComplete
  <1>1. RepliesInv => FanoutComplete
    <2> SUFFICES ASSUME RepliesInv, NEW c \in Calls,
                        pc[c] = "done", "entries" \in DOMAIN reply[c], timer[c] < TotalTime
                 PROVE  /\ reply[c].total = Cardinality(Accounts)
                        /\ \A a \in Accounts : a \in reply[c].entries \/ fan[c][a].at = "panic"
      BY DEF FanoutComplete
    <2>1. Settled(c) = Accounts /\ reply[c] = Envelope(c)
      BY DEF RepliesInv, ReplyOk
    <2> QED
      BY <2>1 DEF Envelope
  <1> QED
    BY <1>1, RepliesAlways, PTL

(* Two disjoint sets of outcomes that cover the items of a call count them all. *)
LEMMA Counted ==
    ASSUME NEW c, NEW n \in Nat, NEW one, NEW other, one # other, DOMAIN item[c] = 1 .. n,
           \A i \in DOMAIN item[c] : item[c][i] \in {one, other}
    PROVE  Count(c, one) + Count(c, other) = n
  <1> DEFINE A == {i \in DOMAIN item[c] : item[c][i] = one}
             B == {i \in DOMAIN item[c] : item[c][i] = other}
  <1>1. IsFiniteSet(1 .. n) /\ Cardinality(1 .. n) = n
    BY FS_Interval
  <1>2. A \in SUBSET (1 .. n) /\ B \in SUBSET (1 .. n)
    OBVIOUS
  <1>3. IsFiniteSet(A) /\ IsFiniteSet(B)
    BY <1>1, <1>2, FS_Subset
  <1>4. A \cup B = 1 .. n /\ A \cap B = {}
    OBVIOUS
  <1>5. Cardinality(A \cap B) = 0
    BY <1>4, FS_EmptySet
  <1>6. Cardinality(A) \in Nat /\ Cardinality(B) \in Nat
    BY <1>3, FS_CardinalityType
  <1>7. Cardinality(A \cup B) = Cardinality(A) + Cardinality(B) - Cardinality(A \cap B)
    BY <1>3, FS_Union
  <1>8. Count(c, one) = Cardinality(A) /\ Count(c, other) = Cardinality(B)
    BY DEF Count
  <1>9. Cardinality(A \cup B) = n
    BY <1>1, <1>4
  <1> HIDE DEF A, B
  <1> QED
    BY <1>5, <1>6, <1>7, <1>8, <1>9

(* The reply of a mutating tool accounts for every id of the request and claims *)
(* no change that did not reach Google, whatever was lost on the way.           *)
THEOREM RepliesAreTrue == Spec => []ReplyTruth
  <1>1. RepliesInv => ReplyTruth
    <2> SUFFICES ASSUME RepliesInv, NEW c \in Calls,
                        pc[c] = "done", Changing(c), reply[c].code = "ok"
                 PROVE  /\ reply[c].succeeded + reply[c].failed = req[c].ids
                        /\ Body(c) = "ok"
                           \/ reply[c].succeeded <= Cardinality({i \in DOMAIN item[c] : <<c, i>> \in changed})
      BY DEF ReplyTruth, Changing
    <2>1. Joined(c) /\ BodyOk(c) /\ reply[c] = Answer(c) /\ ItemsOk(c) /\ req[c].ids \in Nat
      BY DEF RepliesInv, ReplyOk, ReplyTypes
    <2>2. DOMAIN item[c] = 1 .. req[c].ids
      BY <2>1 DEF Joined, ItemsOk
    <2> DEFINE missed == IF req[c].tool = MembershipTool THEN "skipped" ELSE "error"
    <2>3. \A i \in DOMAIN item[c] : item[c][i] \in {"ok", missed}
      BY <2>1 DEF Joined, BodyOk, ItemsOk, BatchTools, MembershipTool
    <2>4. reply[c] = [code |-> "ok", succeeded |-> Count(c, "ok"), failed |-> Count(c, missed)]
      BY <2>1 DEF Answer, SkippedMembers, FromItems
    <2>5. Count(c, "ok") + Count(c, missed) = req[c].ids
      <3>1. "ok" # missed /\ req[c].ids \in Nat
        BY <2>1
      <3> HIDE DEF missed
      <3>2. PICK n \in Nat : n = req[c].ids
        BY <3>1
      <3>3. Count(c, "ok") + Count(c, missed) = n
        BY <3>1, <3>2, <2>2, <2>3, Counted
      <3> QED
        BY <3>2, <3>3
    <2>6. CASE Body(c) # "ok"
      <3> DEFINE A == {i \in DOMAIN item[c] : item[c][i] = "ok"}
                 B == {i \in DOMAIN item[c] : <<c, i>> \in changed}
      <3>1. A \subseteq B
        BY <2>1, <2>6 DEF ItemsOk
      <3>2. IsFiniteSet(B)
        <4>1. IsFiniteSet(1 .. req[c].ids)
          BY <2>1, FS_Interval
        <4>2. B \in SUBSET (1 .. req[c].ids)
          BY <2>2
        <4> QED
          BY <4>1, <4>2, FS_Subset
      <3>3. Cardinality(A) <= Cardinality(B)
        BY <3>1, <3>2, FS_Subset
      <3> QED
        BY <2>4, <2>5, <3>3 DEF Count
    <2>7. CASE Body(c) = "ok"
      BY <2>4, <2>5, <2>7
    <2> QED
      BY <2>6, <2>7
  <1> QED
    BY <1>1, RepliesAlways, PTL

================================================================================
