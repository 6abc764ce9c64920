---------------------------- MODULE MessageParts ----------------------------
(***************************************************************************)
(* One message, three readers: IMAP's BODYSTRUCTURE and BODY[n.m]          *)
(* (crates/imappop3: mime.rs, imap/fetch.rs), and the webmail's detail     *)
(* page with its part downloads (crates/webmail: mime_view.rs,             *)
(* maildir_service.rs).  They number the parts of a message independently  *)
(* and a user moves between them.  A message is a sequence of lines: a     *)
(* header, the blank line, a delimiter of some boundary, or text; a part   *)
(* is the range of lines it occupies.  A line is a record: [k |-> "type",  *)
(* t, b] is a Content-Type header of type t with boundary b (0: none), k   *)
(* may also be "blank", "mark" or "close" (a delimiter of boundary b),     *)
(* "text", or another header.                                              *)
(*                                                                         *)
(* What FETCH items mean is asked of the parser and the renderer alone.    *)
(* FETCH of headers alone reads only the beginning of the file; that       *)
(* question is about bytes, so there a message is a sequence of "h" (a     *)
(* letter), "r" and "n" (the line end).                                    *)
(***************************************************************************)
EXTENDS Integers, Sequences, FiniteSets, SequencesExt

CONSTANTS
    MaxDepth,           \* mime::MAX_DEPTH and mime_view::MAX_PARSE_DEPTH
    MaxParts,           \* mime::MAX_PARTS
    MaxLeaves,          \* the webmail's MAX_PARTS
    MaxDetail,          \* MAX_DETAIL_BYTES, in lines
    MaxHeaderBytes,     \* MAX_HEADER_BYTES
    MaxBytes,           \* bound: bytes of a message asked for its headers
    MaxContent          \* bound: words and signs in a section

VARIABLES
    job,                \* "parts", "head" or "ask"
    msg,                \* the message, or the FETCH that is asked
    described,          \* BODYSTRUCTURE, as the client reads it
    fetched,            \* the last BODY[path], or the answer to the FETCH
    view,               \* the webmail's detail page
    got,                \* the last part it downloaded
    heads               \* header lines answered from the beginning of the file

partsVars == <<job, msg, described, fetched, view, got, heads>>

Nothing == [kind |-> "nothing"]

Shortened(s, n) == SubSeq(s, 1, IF Len(s) < n THEN Len(s) ELSE n)

-----------------------------------------------------------------------------
(* mime.rs: headers, content type and the parts of a multipart.            *)

Blanks(m, p) == {i \in p[1]..p[2] : m[i].k = "blank"}
SmallestOf(S) == CHOOSE x \in S : \A y \in S : x <= y

\* split_headers_body: without a blank line everything is header.
HeaderOf(m, p) == <<p[1], IF Blanks(m, p) = {} THEN p[2] ELSE SmallestOf(Blanks(m, p)) - 1>>
BodyOf(m, p) == <<IF Blanks(m, p) = {} THEN p[2] + 1 ELSE SmallestOf(Blanks(m, p)) + 1, p[2]>>

\* Headers::get: the first header of that name.
Lines(m, p, k) == {i \in HeaderOf(m, p)[1]..HeaderOf(m, p)[2] : m[i].k = k}

\* content_type: text/plain when there is no such header.
ContentType(m, p) ==
    IF Lines(m, p, "type") = {} THEN [k |-> "type", t |-> "plain", b |-> 0]
    ELSE m[SmallestOf(Lines(m, p, "type"))]

\* Delimiter lines of boundary b in a body, up to the closing one.
Delims(m, p, b) ==
    LET all == {i \in p[1]..p[2] : m[i].k \in {"mark", "close"} /\ m[i].b = b}
        live == {i \in all : \A j \in all : m[j].k = "close" => i <= j}
    IN SetToSortSeq(live, <)

\* multipart_parts: the ranges between delimiters; past the limit the rest is one part,
\* and a body that is not closed ends with its last part.
Limited(m, d) ==
    IF Len(d) > MaxParts /\ m[d[MaxParts + 1]].k = "mark" THEN SubSeq(d, 1, MaxParts + 1) ELSE d
Between(m, p, d) ==
    LET n == IF d # <<>> /\ m[Last(d)].k = "mark" THEN Len(d) ELSE Len(d) - 1
    IN [i \in 1..n |-> <<d[i] + 1, IF i < Len(d) THEN d[i + 1] - 1 ELSE p[2]>>]
MultipartParts(m, p, b) == Between(m, p, Limited(m, Delims(m, p, b)))

PartsOf(m, p) ==
    LET c == ContentType(m, p)
    IN IF c.t = "multipart" /\ c.b # 0 THEN MultipartParts(m, BodyOf(m, p), c.b) ELSE <<>>

Whole(m) == <<1, Len(m)>>

-----------------------------------------------------------------------------
(* The webmail's leaves.                                                   *)

Has(m, p, k) == Lines(m, p, k) # {}

\* push_leaf, LeafPart::is_attachment, is_inline, is_body_text
Leaf(m, p, path) ==
    LET attached == Has(m, p, "attachment") \/ Has(m, p, "name")
    IN [id |-> IF path = <<>> THEN <<1>> ELSE path, part |-> p, type |-> ContentType(m, p).t,
        attached |-> attached, inline |-> Has(m, p, "cid") /\ ~attached]
IsBodyText(leaf) == leaf.type \in {"plain", "html"}

\* walk_parts without its limit on the number of leaves.
RECURSIVE WalkParts(_, _, _, _)
WalkParts(m, p, path, depth) ==
    LET parts == IF depth < MaxDepth THEN PartsOf(m, p) ELSE <<>>
    IN IF parts = <<>> THEN <<Leaf(m, p, path)>>
       ELSE FlattenSeq([i \in DOMAIN parts |-> WalkParts(m, parts[i], Append(path, i), depth + 1)])

\* collect_parts
Capped(all) == [leaves |-> Shortened(all, MaxLeaves), truncated |-> Len(all) > MaxLeaves]
CollectParts(m) == Capped(WalkParts(m, Whole(m), <<>>, 0))

\* The first leaf of a type that is not an attachment, 0 when there is none.
FirstBody(leaves, type) == SelectInSeq(leaves, LAMBDA l : ~l.attached /\ l.type = type)

\* Attachments are those that say so.
ListedDeclared(leaves) == SelectSeq(leaves, LAMBDA l : l.attached)

\* parse_message: what is not a body is listed as an attachment.
Listed(leaves) == SelectSeq(leaves, LAMBDA l : l.attached \/ ~IsBodyText(l))

-----------------------------------------------------------------------------
(* IMAP.                                                                   *)

\* part_structure, with the number a client gives to each part it describes; inside an
\* attached message the numbering goes on.
RECURSIVE Structure(_, _, _, _, _)
Structure(m, p, path, depth, inside) ==
    LET parts == IF depth < MaxDepth THEN Shortened(PartsOf(m, p), MaxParts) ELSE <<>>
        own == IF path = <<>> THEN <<1>> ELSE path
    IN IF parts # <<>>
       THEN UNION {Structure(m, parts[i], Append(path, i), depth + 1, inside) : i \in DOMAIN parts}
       ELSE {[path |-> own, part |-> p, inside |-> inside]}
            \cup IF ContentType(m, p).t = "message" /\ depth < MaxDepth
                 THEN Structure(m, BodyOf(m, p), Append(own, 1), depth + 1, TRUE) ELSE {}

BodyStructure ==
    /\ job = "parts" /\ described = {}
    /\ described' = Structure(msg, Whole(msg), <<>>, 0, FALSE)
    /\ UNCHANGED <<job, msg, fetched, view, got, heads>>

\* resolve_part with the part numbers counted from zero.
RECURSIVE ResolveFromZero(_, _, _, _)
ResolveFromZero(m, p, path, depth) ==
    IF path = <<>> THEN p
    ELSE IF ContentType(m, p).t = "multipart"
    THEN IF Head(path) + 1 \in DOMAIN PartsOf(m, p)
         THEN ResolveFromZero(m, PartsOf(m, p)[Head(path) + 1], Tail(path), depth + 1) ELSE <<0, 0>>
    ELSE IF depth = 0 /\ Head(path) = 1 THEN p ELSE <<0, 0>>

\* resolve_part: a number below a part that is not multipart is unknown, except the
\* message's own 1.
RECURSIVE Resolved(_, _, _, _)
Resolved(m, p, path, depth) ==
    IF path = <<>> THEN p
    ELSE IF ContentType(m, p).t = "multipart"
    THEN IF Head(path) \in DOMAIN PartsOf(m, p)
         THEN Resolved(m, PartsOf(m, p)[Head(path)], Tail(path), depth + 1) ELSE <<0, 0>>
    ELSE IF depth = 0 /\ Head(path) = 1 THEN p ELSE <<0, 0>>

ResolvePartOff(m, path) == ResolveFromZero(m, Whole(m), path, 0)
ResolvePart(m, path) == Resolved(m, Whole(m), path, 0)

\* BODY[path]: the part's body, or NIL.
FetchPart(path) ==
    /\ job = "parts"
    /\ LET p == ResolvePart(msg, path)
       IN fetched' = [kind |-> "part", path |-> path, part |-> p,
                      body |-> IF p = <<0, 0>> THEN <<0, 0>> ELSE BodyOf(msg, p)]
    /\ UNCHANGED <<job, msg, described, view, got, heads>>

-----------------------------------------------------------------------------
(* The webmail.                                                            *)

\* message_detail: a large message is read in part, and says so.
DetailOf(c) ==
    [kind |-> "detail", leaves |-> c.leaves,
     text |-> FirstBody(c.leaves, "plain"), html |-> FirstBody(c.leaves, "html"),
     attachments |-> Listed(c.leaves), truncated |-> c.truncated \/ Len(msg) > MaxDetail]
MessageDetail ==
    /\ job = "parts" /\ view = Nothing
    /\ view' = DetailOf(CollectParts(Shortened(msg, MaxDetail)))
    /\ UNCHANGED <<job, msg, described, fetched, got, heads>>

\* part: the leaf of that number; refused for a message that is too large.
Download(leaves, asked) ==
    LET n == SelectInSeq(leaves, LAMBDA l : l.id = asked.id)
    IN IF n = 0 THEN [kind |-> "not_found"] ELSE [kind |-> "part", asked |-> asked, leaf |-> leaves[n]]
Part(i) ==
    /\ job = "parts" /\ view # Nothing /\ i \in DOMAIN view.attachments
    /\ got' = IF Len(msg) > MaxDetail THEN [kind |-> "too_large"]
              ELSE Download(CollectParts(msg).leaves, view.attachments[i])
    /\ UNCHANGED <<job, msg, described, fetched, view, heads>>

-----------------------------------------------------------------------------
(* FETCH of headers.                                                       *)

FirstAt(m, pat) ==
    LET at == {i \in 1..(Len(m) - Len(pat) + 1) : SubSeq(m, i, i + Len(pat) - 1) = pat}
    IN IF at = {} THEN 0 ELSE SmallestOf(at)

\* split_headers_body, in bytes.
HeaderBytes(m) ==
    LET crlf == FirstAt(m, <<"r", "n", "r", "n">>)
        lf == FirstAt(m, <<"n", "n">>)
    IN IF crlf # 0 THEN SubSeq(m, 1, crlf + 1) ELSE IF lf # 0 THEN SubSeq(m, 1, lf) ELSE m

\* Lines with their ends.
RECURSIVE LinesOf(_)
LinesOf(m) ==
    IF m = <<>> THEN <<>>
    ELSE LET n == FirstAt(m, <<"n">>)
             e == IF n = 0 THEN Len(m) ELSE n
         IN <<SubSeq(m, 1, e)>> \o LinesOf(SubSeq(m, e + 1, Len(m)))

\* parse_headers: up to the limit, and up to the first line with nothing on it.
IsEmptyLine(l) == l \in {<<"n">>, <<"r", "n">>, <<"r">>}
ParseHeaders(m) ==
    LET all == LinesOf(Shortened(HeaderBytes(m), MaxHeaderBytes))
        n == SelectInSeq(all, LAMBDA l : IsEmptyLine(l))
    IN IF n = 0 THEN all ELSE SubSeq(all, 1, n - 1)

\* Only as much as fits the answer is read.
ReadHeadersShort(m) == Shortened(m, MaxHeaderBytes - 1)

\* handle_fetch: read_prefix when no item needs the whole message.
ReadHeaders(m) == Shortened(m, MaxHeaderBytes + 2)

FetchHeaders ==
    /\ job = "head" /\ heads = Nothing
    /\ heads' = [kind |-> "heads", lines |-> ParseHeaders(ReadHeaders(msg))]
    /\ UNCHANGED <<job, msg, described, fetched, view, got>>

-----------------------------------------------------------------------------
(* What a FETCH asks for.  The item list is a sequence of words, blanks,   *)
(* brackets and dots; numbers are written "0", "1" or "2".                 *)

NumberOf == ("0" :> 0) @@ ("1" :> 1) @@ ("2" :> 2)

\* The pieces of a text between the signs in S.
RECURSIVE SplitAt(_, _)
SplitAt(text, S) ==
    LET n == SelectInSeq(text, LAMBDA c : c \in S)
    IN IF n = 0 THEN <<text>> ELSE <<SubSeq(text, 1, n - 1)>> \o SplitAt(SubSeq(text, n + 1, Len(text)), S)
WordsIn(text, S) == SelectSeq(SplitAt(text, S), LAMBDA w : w # <<>>)

Section(k, path, names) == [k |-> k, path |-> path, names |-> names]
BadSection == Section("bad", <<>>, <<>>)

\* A section that begins with a number: a path, up to a suffix that ends it.
\* HEADER.FIELDS below a part is read as HEADER.
SectionSuffix == ("HEADER" :> "headerpart") @@ ("HEADER.FIELDS" :> "headerpart")
                 @@ ("TEXT" :> "textpart") @@ ("MIME" :> "mime")
PartSection(word) ==
    LET segments == SplitAt(word, {"."})
        at == SelectInSeq(segments, LAMBDA s : s \in {<<w>> : w \in DOMAIN SectionSuffix})
        numbers == IF at = 0 THEN segments ELSE SubSeq(segments, 1, at - 1)
        valid == /\ numbers # <<>>
                 /\ \A i \in DOMAIN numbers : numbers[i] \in {<<n>> : n \in {"1", "2"}}
        path == [i \in DOMAIN numbers |-> NumberOf[numbers[i][1]]]
    IN IF ~valid THEN BadSection
       ELSE Section(IF at = 0 THEN "part" ELSE SectionSuffix[segments[at][1]], path, <<>>)

\* parse_section: parentheses are blanks, and after a path the other words are ignored.
ParseSection(content) ==
    LET words == WordsIn(content, {"(", ")", " "})
        first == words[1]
        names == Tail(words)
    IN CASE words = <<>> -> Section("full", <<>>, <<>>)
         [] first = <<"HEADER">> /\ names = <<>> -> Section("header", <<>>, <<>>)
         [] first = <<"TEXT">> /\ names = <<>> -> Section("text", <<>>, <<>>)
         [] first = <<"MIME">> /\ names = <<>> -> Section("mime", <<>>, <<>>)
         [] first \in {<<"HEADER.FIELDS">>, <<"HEADER.FIELDS.NOT">>} ->
              IF names = <<>> THEN BadSection
              ELSE Section(IF first = <<"HEADER.FIELDS">> THEN "fields" ELSE "notfields", <<>>, names)
         [] OTHER -> PartSection(first)

\* read_section's <start.count>: a count of zero is refused.
NoPartial == <<>>
PartialRead(text) == Len(text) = 3 /\ text[2] = "." /\ {text[1], text[3]} \subseteq DOMAIN NumberOf
                     /\ text[3] # "0"

Bad == [k |-> "bad"]
Plain(k) == [k |-> k]
Macro == [FAST |-> <<Plain("FLAGS"), Plain("DATE"), Plain("SIZE")>>,
          ALL |-> <<Plain("FLAGS"), Plain("DATE"), Plain("SIZE"), Plain("ENVELOPE")>>]

\* binary_path: BINARY speaks of parts only.
BodyItem(name, section, partial) ==
    IF section = BadSection \/ (name = "BINARY" /\ section.k \notin {"full", "part"}) THEN <<Bad>>
    ELSE <<[k |-> IF name = "BINARY" THEN "binary" ELSE "body", section |-> section,
            peek |-> name = "BODY.PEEK", partial |-> partial]>>

\* One turn of parse_items' loop: the items read, and where it goes on.
ReadItem(text, i) ==
    LET name == text[i]
        sectioned == i < Len(text) /\ text[i + 1] = "["
        close == SelectInSubSeq(text, i, Len(text), LAMBDA c : c = "]")
        content == SubSeq(text, i + 2, close - 1)
        partial == close < Len(text) /\ text[close + 1] = "<"
        shut == SelectInSubSeq(text, close + 1, Len(text), LAMBDA c : c = ">")
        range == SubSeq(text, close + 2, shut - 1)
    IN CASE name \in {"FLAGS", "UID"} -> [items |-> <<Plain(name)>>, next |-> i + 1]
         [] name \in DOMAIN Macro -> [items |-> Macro[name], next |-> i + 1]
         [] name \in {"BODY", "BODY.PEEK", "BINARY"} /\ sectioned ->
              IF close = 0 \/ (partial /\ (shut = 0 \/ ~PartialRead(range)))
              THEN [items |-> <<Bad>>, next |-> Len(text) + 1]
              ELSE [items |-> BodyItem(name, ParseSection(content),
                                       IF partial THEN <<NumberOf[range[1]], NumberOf[range[3]]>> ELSE NoPartial),
                    next |-> IF partial THEN shut + 1 ELSE close + 1]
         [] name = "BODY" -> [items |-> <<Plain("STRUCTURE")>>, next |-> i + 1]
         [] OTHER -> [items |-> <<Bad>>, next |-> Len(text) + 1]

RECURSIVE ItemsFrom(_, _)
ItemsFrom(text, i) ==
    IF i > Len(text) THEN <<>>
    ELSE IF text[i] = " " THEN ItemsFrom(text, i + 1)
    ELSE LET r == ReadItem(text, i) IN r.items \o ItemsFrom(text, r.next)

\* strip_outer_parentheses: the pair must enclose the whole list.
DepthAt(text, n) == Cardinality({i \in 1..n : text[i] = "("}) - Cardinality({i \in 1..n : text[i] = ")"})
Stripped(text) ==
    IF text = <<>> \/ text[1] # "(" THEN text
    ELSE IF text[Len(text)] # ")" \/ \E n \in 1..(Len(text) - 1) : text[n] = ")" /\ DepthAt(text, n) = 0
    THEN <<"unbalanced">> ELSE SubSeq(text, 2, Len(text) - 1)

WellFormed(items) == IF items = <<>> \/ Bad \in Range(items) THEN <<Bad>> ELSE items
ParseItems(text) == WellFormed(ItemsFrom(Stripped(text), 1))

\* split_changedsince: only a last group that says so is a modifier.
SplitChangedSince(text) ==
    LET open == SelectLastInSeq(text, LAMBDA c : c = "(")
        group == SubSeq(text, open + 1, Len(text) - 1)
    IN IF text # <<>> /\ text[Len(text)] = ")" /\ open # 0 /\ group # <<>> /\ group[1] = "CHANGEDSINCE"
       THEN IF Len(group) = 3 /\ group[3] \in DOMAIN NumberOf
            THEN [items |-> IF open > 1 /\ text[open - 1] = " " THEN SubSeq(text, 1, open - 2) ELSE SubSeq(text, 1, open - 1),
                  since |-> <<NumberOf[group[3]]>>, ok |-> TRUE]
            ELSE [items |-> <<>>, since |-> <<>>, ok |-> FALSE]
       ELSE [items |-> text, since |-> <<>>, ok |-> TRUE]

\* Section::label, as the answer names what it carries.
Dotted(path) == FlattenSeq([i \in DOMAIN path |->
                  (IF i > 1 THEN <<".">> ELSE <<>>) \o <<CHOOSE c \in DOMAIN NumberOf : NumberOf[c] = path[i]>>])
SuffixPath(path, word) == IF path = <<>> THEN <<word>> ELSE Dotted(path) \o <<".", word>>
Label(s) ==
    CASE s.k = "full" -> <<>>
      [] s.k = "header" -> <<"HEADER">>
      [] s.k = "text" -> <<"TEXT">>
      [] s.k \in {"fields", "notfields"} ->
           <<IF s.k = "fields" THEN "HEADER.FIELDS" ELSE "HEADER.FIELDS.NOT", " ", "(">>
             \o FlattenSeq([i \in DOMAIN s.names |-> (IF i > 1 THEN <<" ">> ELSE <<>>) \o s.names[i]]) \o <<")">>
      [] s.k = "part" -> Dotted(s.path)
      [] s.k = "mime" -> SuffixPath(s.path, "MIME")
      [] s.k = "headerpart" -> SuffixPath(s.path, "HEADER")
      [] s.k = "textpart" -> SuffixPath(s.path, "TEXT")

\* push_body, push_binary: from start, at most count bytes, nothing past the end.
SliceUnbounded(data, partial) ==
    IF partial = NoPartial THEN data ELSE SubSeq(data, partial[1] + 1, partial[2])
Slice(data, partial) ==
    IF partial = NoPartial THEN data
    ELSE IF partial[1] >= Len(data) THEN <<>>
    ELSE SubSeq(data, partial[1] + 1, IF partial[1] + partial[2] <= Len(data) THEN partial[1] + partial[2] ELSE Len(data))

\* render: labels in the order asked, and whether \Seen is due.
Shown(items) ==
    IF msg.uid /\ ~\E i \in DOMAIN items : items[i] = Plain("UID") THEN <<Plain("UID")>> \o items ELSE items
Carries(item) == item.k \in {"body", "binary"}
Rendered(item, data) ==
    IF ~Carries(item) THEN item
    ELSE [k |-> item.k, label |-> Label(item.section),
          from |-> IF item.partial = NoPartial THEN <<>> ELSE <<item.partial[1]>>,
          data |-> Slice(data, item.partial)]
RenderAll(shown, data) == [i \in DOMAIN shown |-> Rendered(shown[i], data)]
Answer(items, since, data) ==
    IF items = <<Bad>> THEN [kind |-> "bad"]
    ELSE [kind |-> "answer", since |-> since, items |-> RenderAll(Shown(items), data),
          seen |-> \E i \in DOMAIN items : Carries(items[i]) /\ ~items[i].peek]
FetchItems(data) ==
    /\ job = "ask" /\ fetched = Nothing
    /\ \E split \in {SplitChangedSince(msg.text)} :
         fetched' = IF split.ok THEN Answer(ParseItems(split.items), split.since, data) ELSE [kind |-> "bad"]
    /\ UNCHANGED <<job, msg, described, view, got, heads>>

-----------------------------------------------------------------------------
(* Messages, as senders write them: closed or not, with or without a       *)
(* boundary, nested, and with a boundary used twice.                       *)

H(t, b) == [k |-> "type", t |-> t, b |-> b]
Flat(k) == [k |-> k]
Single == {<<Flat("blank"), Flat("text")>>, <<H("html", 0), Flat("blank"), Flat("text")>>,
           <<H("plain", 0), Flat("attachment"), Flat("blank"), Flat("text")>>,
           <<H("binary", 0), Flat("cid"), Flat("blank")>>, <<H("plain", 0)>>}
Delim(k, b) == [k |-> k, b |-> b]
Multi(children, b, c, ending) ==
    <<H("multipart", c), Flat("blank")>>
        \o FlattenSeq([i \in DOMAIN children |-> <<Delim("mark", b)>> \o children[i]]) \o ending
Endings(b) == {<<Delim("close", b)>>, <<>>, <<Delim("close", b), Delim("mark", b), Flat("text")>>}
Lists(S) == {<<a>> : a \in S} \cup {<<a, b>> : a \in S, b \in S}
Multis(S, b, cs) == {Multi(l, b, c, e) : l \in Lists(S), c \in cs, e \in Endings(b)}
Inner == Multis({<<Flat("blank"), Flat("text")>>, <<H("binary", 0), Flat("name"), Flat("blank")>>}, 2, {2})
Attached == {<<H("message", 0), Flat("blank")>> \o s : s \in Single}
Messages ==
    Single \cup Multis(Single, 1, {0, 1})
           \cup {Multi(<<s, i>>, 1, 1, e) : s \in Single, i \in Inner \cup Attached, e \in Endings(1)}
           \cup {Multi(<<Multi(<<i>>, 3, 3, <<Delim("close", 3)>>), s>>, 1, 1, <<Delim("close", 1)>>) : s \in Single, i \in Inner}
           \cup {Multi(<<a, a, a>>, 1, 1, e) : a \in Single, e \in Endings(1)}
           \cup {Multi(<<i, s>>, 1, 1, <<Delim("close", 1)>>) : s \in Single, i \in Multis({<<Flat("blank"), Flat("text")>>}, 1, {1})}

\* A FETCH as a client writes it around one BODY item.
Signs == {".", "(", ")", " "}
SectionTexts == {c \in UNION {[1..n -> Signs \cup {"HEADER", "MIME", "HEADER.FIELDS", "1", "2", "To"}] : n \in 0..MaxContent} :
                   \A i \in 1..(Len(c) - 1) : c[i] \in Signs \/ c[i + 1] \in Signs}
Requests == [content : SectionTexts, name : {"BODY", "BODY.PEEK", "BINARY"},
             partial : {NoPartial, <<"0", "2">>, <<"2", "2">>, <<"1", "0">>},
             listed : BOOLEAN, before : {<<>>, <<"FLAGS", " ">>}, modifier : {"none", "since", "vanished"}]
Asks == {r \in Requests : r.modifier # "none" => r.partial = NoPartial}
AskText(a) ==
    LET item == <<a.name, "[">> \o a.content \o <<"]">>
                \o (IF a.partial = NoPartial THEN <<>> ELSE <<"<", a.partial[1], ".", a.partial[2], ">">>)
        list == IF a.listed THEN <<"(">> \o a.before \o item \o <<")">> ELSE a.before \o item
    IN list \o (CASE a.modifier = "none" -> <<>>
                  [] a.modifier = "since" -> <<" ", "(", "CHANGEDSINCE", " ", "1", ")">>
                  [] OTHER -> <<" ", "(", "CHANGEDSINCE", " ", "1", " ", "VANISHED", ")">>)

Letter == <<1, 2, 3>>

PartsInit ==
    /\ described = {} /\ fetched = Nothing /\ view = Nothing /\ got = Nothing /\ heads = Nothing
    /\ \/ job = "parts" /\ msg \in Messages
       \/ job = "head" /\ msg \in UNION {[1..n -> {"h", "r", "n"}] : n \in 0..MaxBytes}
       \/ job = "ask" /\ \E a \in Asks : msg = [ask |-> a, uid |-> a.listed, text |-> AskText(a)]

PartsNext ==
    \/ BodyStructure
    \/ \E d \in described : FetchPart(d.path)
    \/ view # Nothing /\ \E i \in DOMAIN view.leaves : FetchPart(view.leaves[i].id)
    \/ MessageDetail
    \/ \E i \in 1..MaxLeaves : Part(i)
    \/ FetchHeaders
    \/ FetchItems(Letter)

Spec == PartsInit /\ [][PartsNext]_partsVars

-----------------------------------------------------------------------------
\* A multipart that could not be split is described as a leaf, and IMAP answers NIL.
Agrees(part, answer) == answer = part \/ (answer = <<0, 0>> /\ ContentType(msg, part).t = "multipart")

\* The three ways of numbering agree: BODY[n] answers with the part BODYSTRUCTURE
\* described under that number (outside attached messages), every number the webmail
\* shows names the same part in IMAP, and a download is the attachment that was listed.
NumbersAgree ==
    /\ fetched # Nothing /\ job = "parts" =>
        /\ \A d \in described : ~d.inside /\ d.path = fetched.path => Agrees(d.part, fetched.part)
        /\ view # Nothing /\ Len(msg) <= MaxDetail =>
             \A i \in DOMAIN view.leaves : view.leaves[i].id = fetched.path => Agrees(view.leaves[i].part, fetched.part)
    /\ got # Nothing /\ got.kind # "too_large" => got.kind = "part" /\ got.leaf = got.asked

\* Nothing of a message is hidden from the webmail's user: every leaf is shown as a
\* body or listed as an attachment, unless it is text after the first of its type or
\* the page says that it was cut.
NothingHidden ==
    view # Nothing =>
        \A d \in described : ~d.inside =>
            \/ view.truncated
            \/ \E i \in {view.text, view.html} : i # 0 /\ view.leaves[i].part = d.part
            \/ \E i \in DOMAIN view.attachments : view.attachments[i].part = d.part
            \/ \E i \in DOMAIN view.leaves :
                 /\ view.leaves[i].part = d.part /\ IsBodyText(view.leaves[i])
                 /\ i > FirstBody(view.leaves, view.leaves[i].type)

\* Answering from the beginning of the file gives the header lines the whole message
\* would give, whatever its line ends and wherever the limit falls.
HeadEnough == heads # Nothing => heads.lines = ParseHeaders(msg)

\* A FETCH is answered as it was asked: every item in its place, a body under a label
\* that reads back as the section that was asked for and with the bytes that were asked
\* for, \Seen set unless every body was only peeked at; and it is refused only for what
\* cannot be read.
AskedIsAnswered ==
    job = "ask" /\ fetched # Nothing =>
        LET a == msg.ask
            section == ParseSection(a.content)
            at == Len(fetched.items)
            plain == SubSeq(fetched.items, 1, at - 1)
            wanted == (IF msg.uid THEN <<Plain("UID")>> ELSE <<>>) \o (IF a.before = <<>> THEN <<>> ELSE <<Plain("FLAGS")>>)
            start == IF a.partial = NoPartial THEN 0 ELSE NumberOf[a.partial[1]]
            end == IF a.partial = NoPartial THEN Len(Letter) ELSE start + NumberOf[a.partial[2]]
        IN IF fetched.kind = "answer"
           THEN /\ plain = wanted
                /\ ParseSection(fetched.items[at].label) = section
                /\ fetched.items[at].data = SelectSeq(Letter, LAMBDA b : b > start /\ b <= end)
                /\ (fetched.items[at].from = <<>>) <=> (a.partial = NoPartial)
                /\ fetched.seen <=> a.name # "BODY.PEEK"
                /\ (fetched.since = <<>>) <=> (a.modifier = "none")
           ELSE \/ section = BadSection \/ a.partial = <<"1", "0">> \/ a.modifier = "vanished"
                \/ a.name = "BINARY" /\ section.k \notin {"full", "part"}
                \/ \E n \in DOMAIN a.content : DepthAt(a.content, n) < 0
=============================================================================
