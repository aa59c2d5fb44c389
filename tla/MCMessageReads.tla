----------------------------- MODULE MCMessageReads -----------------------------
(* Message contents and requests for the runs of MessageReads.                    *)
EXTENDS MessageReads

CONSTANTS m1, m2, c1, c2, p1

Part(mime, name, data, raw, within) == [mime |-> mime, name |-> name, data |-> data, raw |-> raw, within |-> within]
Box(within) == Part("multipart", "none", "empty", "empty", within)
Leaf(mime, within) == Part(mime, "none", "text", "text", within)
Text(within) == Leaf("plain", within)
Html(within) == Leaf("html", within)
File(within) == Part("other", "attachment", "apart", "text", within)
Mail822(within) == Part("rfc822", "attachment", "apart", "text", within)

(* First leaves of a forward: what each decoder makes of them, and named ones. *)
Decodings == {<<"text", "text">>, <<"padded", "text">>, <<"broken", "text">>, <<"text", "broken">>,
              <<"broken", "broken">>, <<"empty", "empty">>}
Firsts == {Part(x, "none", d[1], d[2], 4) : x \in {"plain", "html"}, d \in Decodings}
          \cup {Part(x, n, "text", "text", 4) : x \in {"plain", "html"}, n \in {"attachment", "type"}}
Seconds == {Text(4), Html(4), Part("plain", "type", "text", "text", 4)}

(* A text, a file and a forward of two leaves, of every kind. *)
Forwards == {<<Box(0), Text(1), Mail822(1), Box(3), x, y>> : x \in Firsts, y \in Seconds}

Chosen == {<<Text(0)>>, <<Html(0)>>, <<Leaf("other", 0)>>,
           <<Box(0), Text(1), Html(1)>>,
           <<Box(0), Part("plain", "none", "padded", "text", 1), Html(1), File(1)>>,
           <<Box(0), Part("plain", "inline", "text", "text", 1), Mail822(1), Part("plain", "bare", "text", "text", 3)>>,
           <<Box(0), File(1), Part("rfc822", "none", "apart", "text", 1), Text(3)>>,
           <<Box(0), Mail822(1), Box(2), Html(3), Mail822(3), Box(5), Text(6), Mail822(6), Text(8)>>,
           <<Box(0), Mail822(1), Box(2), Part("rfc822", "type", "apart", "broken", 3), Mail822(3), File(5)>>,
           <<Box(0), Text(1), Part("rfc822", "attachment", "apart", "broken", 1)>>}

OneMail == {(m1 :> s @@ m2 :> <<Text(0)>>) : s \in Forwards \cup Chosen}
FewMail == {(m1 :> s @@ m2 :> <<Text(0)>>) : s \in Chosen}

Read(tool) == [tool |-> tool, msg |-> m1]
Reads == {Read("get_thread"), Read("list_attachments"), Read("get_thread_metadata")}
Others == {Read("get_thread_minimal"), Read("list_labels")}
Bodied == {Read("get_full_body") @@ [want |-> w] : w \in {"both", "text", "html"}}
Plain == {Read("get_message") @@ [format |-> f] : f \in {"full", "metadata"}}
Unfold(depths) == {Read("parse_forwarded_attachment") @@ [part |-> i, depth |-> d[1], ceiling |-> d[2]] :
                     i \in 2 .. 3, d \in depths}
SaveAs(paths) == {Read("download_attachment") @@ [part |-> i, path |-> p] : i \in 2 .. 3, p \in paths}
Search == {Read("search_threads")}

TwoCalls == c1 :> Reads \cup Others \cup Bodied \cup Plain \cup Search \cup Unfold({<<0, 10>>, <<2, 10>>, <<3, 2>>, <<9, 0>>})
                  \cup SaveAs({p1, "none"})
         @@ c2 :> Reads \cup SaveAs({p1})
BodyCalls == c1 :> Bodied @@ c2 :> Reads
=================================================================================
