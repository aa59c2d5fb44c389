--------------------------------- MODULE Parts ---------------------------------
(* What the two parsers make of a message: gmail/threads.rs walks the tree of     *)
(* parts the API answers with, gmail/mime.rs the raw bytes of a forwarded one.    *)
(*                                                                                *)
(* A message is the sequence of its parts in the order both walk them. A part is  *)
(*   mime    "multipart", "plain", "html", "rfc822" or "other"                    *)
(*   name    where a file name stands: "attachment" (in the disposition), "type"  *)
(*           (on the content type), "inline" (in an inline disposition), "bare"   *)
(*           (an attachment without a name) or "none"                             *)
(*   data    what the API answers with: base64url as threads.rs decodes it        *)
(*           ("text"), with padding, which it refuses ("padded"), "empty",        *)
(*           "broken", or an attachment id in place of the content ("apart")      *)
(*   raw     the same content as bytes, as mailparse decodes them: "text",        *)
(*           "empty" or "broken" (of an attached message: or does not parse)      *)
(*   within  the part that encloses it, 0 for the root                            *)
(* A text read from part i is <<how it was rendered, i>>; part 0 is no part.      *)
EXTENDS Naturals, Sequences, FiniteSets, FiniteSetsExt

Mimes == {"multipart", "plain", "html", "rfc822", "other"}
Names == {"none", "attachment", "type", "inline", "bare"}
Answers == {"text", "padded", "empty", "broken", "apart"}
Contents == {"text", "empty", "broken"}

(* The parts around part i, at any distance. *)
Enclosing(msg) ==
    LET around[i \in 0 .. Len(msg)] ==
          IF i = 0 THEN {} ELSE around[msg[i].within] \cup ({msg[i].within} \ {0})
    IN around

(* What both walks make of an answer or of raw bytes: a part is of a known kind,  *)
(* stands in the part before it or in one around that, only a multipart or an     *)
(* attached message holds parts, and what is empty is empty in both.              *)
IsMessage(msg) ==
    /\ msg \in Seq([mime : Mimes, name : Names, data : Answers, raw : Contents, within : Nat])
    /\ \A i \in DOMAIN msg :
         LET w == msg[i].within IN
         /\ w < i
         /\ msg[i].raw = "empty" => msg[i].data = "empty"
         /\ w # 0 => /\ w = i - 1 \/ w \in Enclosing(msg)[i - 1]
                     /\ msg[w].mime \in {"multipart", "rfc822"}

FirstOf(parts) == IF parts = {} THEN 0 ELSE Min(parts)

--------------------------------------------------------------------------------
(* gmail/threads.rs *)

HasFilename(p) == p.name \in {"attachment", "type"}

(* decode_body_data: URL_SAFE_NO_PAD, and an empty text is none. *)
Decodes(p) == p.data = "text"

(* The walk does not descend into a part that has a file name. *)
Reached(msg) == {i \in DOMAIN msg : \A j \in Enclosing(msg)[i] : ~HasFilename(msg[j])}

(* Mutant: the last text leaf wins. *)
LastTextLeaf(msg, mime) ==
    LET leaves == {i \in Reached(msg) : /\ ~HasFilename(msg[i])
                                        /\ msg[i].mime = mime /\ Decodes(msg[i])}
    IN IF leaves = {} THEN 0 ELSE Max(leaves)

TextLeaf(msg, mime) ==
    FirstOf({i \in Reached(msg) : ~HasFilename(msg[i]) /\ msg[i].mime = mime /\ Decodes(msg[i])})

ExtractBodyParts(msg) == [text |-> TextLeaf(msg, "plain"), html |-> TextLeaf(msg, "html")]

(* One body out of two representations; part 0 gives the empty text. *)
Rendered(text, html) == IF text # 0 \/ html = 0 THEN <<"as is", text>> ELSE <<"rendered", html>>

BodyText(msg) == LET b == ExtractBodyParts(msg) IN Rendered(b.text, b.html)

(* The id a summary carries; 0 when the API gave the content itself. *)
AttachmentId(msg, i) == IF msg[i].data = "apart" THEN i ELSE 0

Listed(msg) ==
    {[part |-> i, id |-> AttachmentId(msg, i), mime |-> msg[i].mime] :
       i \in {j \in Reached(msg) : HasFilename(msg[j])}}

ParseMessage(msg) == [body |-> BodyText(msg), attachments |-> Listed(msg)]

(* metadata and minimal answers come without content. *)
ParseFormat(msg, format) ==
    IF format = "full" THEN ParseMessage(msg) ELSE [body |-> <<"as is", 0>>, attachments |-> {}]

(* find_attachment_mime_type searches the whole tree, names or not. *)
FindAttachmentMimeType(msg, id) ==
    IF \E i \in DOMAIN msg : AttachmentId(msg, i) = id THEN msg[id].mime ELSE "absent"

--------------------------------------------------------------------------------
(* gmail/mime.rs. `top` is the part whose content is being parsed: an rfc822      *)
(* part, or 0 for all of the message. Its parser stops at rfc822 parts.           *)

Level(msg, top) ==
    {i \in DOMAIN msg :
       /\ top # 0 => top \in Enclosing(msg)[i]
       /\ \A j \in Enclosing(msg)[i] \ {top} :
             msg[j].mime = "rfc822" => top # 0 /\ j \in Enclosing(msg)[top]}

AttachmentLike(p) == p.mime # "multipart" /\ p.name # "none"

(* get_body, get_body_raw and parse_mail, on what the part holds. *)
Readable(p) == p.raw # "broken"

(* An empty leaf counts here, and hides a later one. *)
LevelLeaf(msg, top, mime) ==
    FirstOf({i \in Level(msg, top) : ~AttachmentLike(msg[i]) /\ msg[i].mime = mime
                                     /\ Readable(msg[i])})

LevelBody(msg, top) == Rendered(LevelLeaf(msg, top, "plain"), LevelLeaf(msg, top, "html"))

(* Summaries carry the position of the part, which no download accepts. *)
LevelAttachments(msg, top) == {i \in Level(msg, top) : AttachmentLike(msg[i])}

(* collect_direct_rfc822, without what does not parse. *)
DirectRfc822(msg, top) ==
    {i \in Level(msg, top) : msg[i].mime = "rfc822" /\ Readable(msg[i])}

(* Mutant: the floor is one level too deep. *)
ForwardedTooDeep(msg, top, maxDepth) ==
    LET level[k \in 1 .. maxDepth + 1] ==
          IF k = 1 THEN {top} ELSE UNION {DirectRfc822(msg, i) : i \in level[k - 1]}
    IN UNION {{[depth |-> k, part |-> i, body |-> LevelBody(msg, i),
                attachments |-> LevelAttachments(msg, i)] : i \in level[k]} : k \in 1 .. maxDepth + 1}

(* build_forwarded: the levels of the tree, at most maxDepth of them. *)
Forwarded(msg, top, maxDepth) ==
    LET level[k \in 1 .. maxDepth] ==
          IF k = 1 THEN {top} ELSE UNION {DirectRfc822(msg, i) : i \in level[k - 1]}
    IN UNION {{[depth |-> k, part |-> i, body |-> LevelBody(msg, i),
                attachments |-> LevelAttachments(msg, i)] : i \in level[k]} : k \in 1 .. maxDepth}

(* resolve_max_depth; 0 stands for an argument left out (a 0 asked for counts as  *)
(* 1 does).                                                                       *)
DefaultMaxDepth == 5
ResolveMaxDepth(requested, ceiling) ==
    LET most == Max({ceiling, 1}) IN Min({most, IF requested = 0 THEN DefaultMaxDepth ELSE requested})
================================================================================
