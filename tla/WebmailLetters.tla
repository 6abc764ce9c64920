--------------------------- MODULE WebmailLetters ---------------------------
(***************************************************************************)
(* Messages in the webmail, written and shown.                             *)
(*                                                                         *)
(* A message is built by build_message (crates/webmail/src/compose.rs) and *)
(* read again by the same webmail (mime_view.rs, and mime.rs of            *)
(* crates/imappop3): a draft that is opened, the copy in Sent, or a local  *)
(* recipient's copy.  Texts are sequences of characters: "a" an ASCII      *)
(* letter, "w" a character of three bytes, and those the encoders treat    *)
(* specially: " " space, "q" double quote, "s" backslash, "c" comma, "k"   *)
(* colon, "p" apostrophe, "/" slash, "ctl" a control character.  A header  *)
(* value is a sequence of items [k, v]: a character, an encoded word with  *)
(* its bytes, a fold, or an address.  Bodies and attachments are sequences *)
(* of symbols.                                                             *)
(*                                                                         *)
(* The HTML of a message is rewritten from an allow list before it is      *)
(* shown: sanitize_html (sanitize.rs), at the end of this module.  Its     *)
(* input is a sequence of tokens: text, tags, comments and "<" that begin  *)
(* none.  Tags stand for their class: "p" and "b" are kept, "img" and "br" *)
(* are kept and have no end tag, "script" is dropped with its content,     *)
(* "meta" is dropped and has none, "x" is unknown.  A tag may carry the    *)
(* address of an image: remote, of a part of the message, or of an unknown *)
(* scheme.                                                                 *)
(***************************************************************************)
EXTENDS Integers, Sequences, FiniteSets, SequencesExt

CONSTANTS
    MaxDepth, MaxParts, MaxLeaves,  \* of the readers, see MessageParts
    ChunkBytes,         \* bytes per encoded word: 45 in encode_rfc2047
    LineUnits,          \* symbols per base64 line
    MaxRecipients,      \* MAX_RECIPIENTS
    MaxFiles,           \* MAX_ATTACHMENTS
    MaxTotal,           \* MAX_ATTACHMENT_TOTAL_BYTES
    SubjectChars,       \* the characters of subjects
    MaxSubject,         \* bound on their length
    MaxInput,           \* bound on the number of tokens of an HTML text
    MaxOutput,          \* MAX_SANITIZE_OUTPUT_BYTES, in tokens
    Margin              \* the room a start tag must find: 64 bytes

VARIABLES
    request,            \* the ComposeRequest with the account's display name
    purpose,            \* "send" or "draft"
    built,              \* the BuiltMessage, or what became of the request
    page,               \* the message as the webmail shows it
    input, remote,      \* the HTML tokens; allow_remote_images
    index, out,         \* the next token; tokens written
    open, skip,         \* names of the open elements; <<name, depth>> of the one being dropped, or <<>>
    blocked, done       \* remote_images_blocked

composeVars == <<request, purpose, built, page>>

Nil == [kind |-> "nil"]

\* The webmail as a reader of the message that was built.
Reader == INSTANCE MessageParts WITH
    job <- "parts", msg <- built, described <- {}, fetched <- Nil, view <- page, got <- Nil, heads <- {},
    MaxDetail <- 0, MaxHeaderBytes <- 0, MaxBytes <- 0, MaxContent <- 0

Absent == <<"absent">>          \* a body that was not given

-----------------------------------------------------------------------------
(* Encoding: RFC 2047 words, display names, file names.                    *)

Ch(c) == [k |-> "ch", v |-> c]
Chars(s) == [i \in DOMAIN s |-> Ch(s[i])]
IsAscii(s) == \A i \in DOMAIN s : s[i] # "w"

RECURSIVE Trim(_)
Trim(s) == IF s # <<>> /\ Head(s) = " " THEN Trim(Tail(s))
           ELSE IF s # <<>> /\ Last(s) = " " THEN Trim(Front(s)) ELSE s

BytesOf(s) == FlattenSeq([i \in DOMAIN s |-> IF s[i] = "w" THEN <<"w1", "w2", "w3">> ELSE <<s[i]>>])

RECURSIVE Chunks(_, _)
Chunks(b, n) == IF b = <<>> THEN <<>> ELSE <<Reader!Shortened(b, n)>> \o Chunks(SubSeq(b, n + 1, Len(b)), n)

\* encode_rfc2047: the bytes in words of fixed size, folded.
EncodeRfc2047(s) ==
    LET words == Chunks(BytesOf(s), ChunkBytes)
    IN FlattenSeq([i \in DOMAIN words |->
         (IF i > 1 THEN <<[k |-> "fold", v |-> " "]>> ELSE <<>>) \o <<[k |-> "word", v |-> words[i]]>>])

\* encode_header_value
EncodeHeader(s) == IF IsAscii(s) THEN Chars(s) ELSE EncodeRfc2047(s)

Mail(a) == [k |-> "mail", v |-> a]
InAngles(a) == <<Ch(" "), Ch("<"), Mail(a), Ch(">")>>
Escaped(s) == FlattenSeq([i \in DOMAIN s |-> IF s[i] \in {"q", "s"} THEN <<Ch("s"), Ch(s[i])>> ELSE <<Ch(s[i])>>])

\* encode_from: quoted when it holds a character with a meaning.
EncodeFrom(name, a) ==
    IF name = <<>> THEN <<Mail(a)>>
    ELSE IF ~IsAscii(name) THEN EncodeRfc2047(name) \o InAngles(a)
    ELSE IF Range(name) \cap {"q", "s", "c", "k"} # {} THEN <<Ch("q")>> \o Escaped(name) \o <<Ch("q")>> \o InAngles(a)
    ELSE Chars(name) \o InAngles(a)

Joined(as) == FlattenSeq([i \in DOMAIN as |-> (IF i > 1 THEN <<Ch("c"), Ch(" ")>> ELSE <<>>) \o <<Mail(as[i])>>])

\* sanitize_filename, ascii_filename_fallback
SanitizeFilename(s) ==
    LET t == Trim(SelectSeq(s, LAMBDA c : c \notin {"/", "s", "q", "k", "ctl"}))
    IN IF t = <<>> THEN <<"default">> ELSE t
AsciiFallback(s) == [i \in DOMAIN s |-> IF s[i] = "w" THEN "_" ELSE s[i]]

-----------------------------------------------------------------------------
(* build_message.                                                          *)

Lower(a) == IF a = "ANN" THEN "ann" ELSE a

\* The first occurrence of every address counts.
RECURSIVE Distinct(_, _)
Distinct(as, seen) ==
    IF as = <<>> THEN <<>>
    ELSE IF Lower(Head(as)) \in seen THEN Distinct(Tail(as), seen)
    ELSE <<Head(as)>> \o Distinct(Tail(as), seen \cup {Lower(Head(as))})

Recipients(r) == Distinct(r.to \o r.cc \o r.bcc, {})

RECURSIVE Total(_)
Total(files) == IF files = <<>> THEN 0 ELSE Len(Head(files).data) + Total(Tail(files))

\* validate_compose
Refusal(r, p) ==
    IF p = "send" /\ Recipients(r) = <<>> THEN "NO_RECIPIENTS"
    ELSE IF Len(Recipients(r)) > MaxRecipients THEN "TOO_MANY_RECIPIENTS"
    ELSE IF "ctl" \in Range(r.subject) THEN "HEADER_INJECTION"
    ELSE IF Len(r.files) > MaxFiles THEN "TOO_MANY_ATTACHMENTS"
    ELSE IF Total(r.files) > MaxTotal THEN "TOO_LARGE" ELSE "none"

Blank == [k |-> "blank"]
Header(t, b) == [k |-> "type", t |-> t, b |-> b]
Base64 == [k |-> "base64"]

\* base64_lines, and the line end that follows it; with no data that is an empty line.
DataLines(data) ==
    IF data = <<>> THEN <<Blank>>
    ELSE LET c == Chunks(data, LineUnits) IN [i \in DOMAIN c |-> [k |-> "text", v |-> c[i]]]

\* text_part
TextPart(t, data) == <<Header(t, 0), Base64, Blank>> \o DataLines(data)
\* attachment_part
AttachmentPart(f) ==
    <<Header(f.type, 0), Base64, [k |-> "attachment"],
      [k |-> "name", v |-> AsciiFallback(SanitizeFilename(f.name))], Blank>> \o DataLines(f.data)

Alt == 1
Mix == 2
Mark(b) == [k |-> "mark", b |-> b]
Closing(b) == [k |-> "close", b |-> b]

\* multipart/alternative, when there are both bodies.
AltLines(r) ==
    <<Header("multipart", Alt), Blank, Mark(Alt)>> \o TextPart("plain", r.text)
        \o <<Mark(Alt)>> \o TextPart("html", r.html) \o <<Closing(Alt), Blank>>

BodyPart(r) ==
    IF r.text # Absent /\ r.html # Absent THEN AltLines(r)
    ELSE IF r.html # Absent THEN TextPart("html", r.html)
    ELSE TextPart("plain", IF r.text = Absent THEN <<>> ELSE r.text)

\* build_body
BuildBody(r) ==
    IF r.files = <<>> THEN BodyPart(r)
    ELSE <<Header("multipart", Mix), Blank, Mark(Mix)>> \o BodyPart(r)
           \o FlattenSeq([i \in DOMAIN r.files |-> <<Mark(Mix)>> \o AttachmentPart(r.files[i])])
           \o <<Closing(Mix)>>

\* Blind copies are written like the others.
BccHeaderAlways(r, p) == Joined(r.bcc)

\* Only a draft keeps them.
BccHeader(r, p) == IF p = "draft" THEN Joined(r.bcc) ELSE <<>>

Build ==
    /\ built = Nil
    /\ built' = IF Refusal(request, purpose) # "none" THEN [kind |-> "refused", why |-> Refusal(request, purpose)]
                ELSE [kind |-> "message", recipients |-> Recipients(request),
                      from |-> EncodeFrom(Trim(request.name), "ann"), to |-> Joined(request.to),
                      cc |-> Joined(request.cc), bcc |-> BccHeader(request, purpose),
                      subject |-> EncodeHeader(Trim(request.subject)), lines |-> BuildBody(request)]
    /\ UNCHANGED <<request, purpose, page>>

-----------------------------------------------------------------------------
(* Reading it.                                                             *)

\* parse_headers joins folded lines with a space.
Unfold(items) == [i \in DOMAIN items |-> IF items[i].k = "fold" THEN Ch(" ") ELSE items[i]]

\* decode_charset of one word: a character cut in two is lost.
RECURSIVE DecodeUtf8(_)
DecodeUtf8(b) ==
    IF b = <<>> THEN <<>>
    ELSE IF Len(b) >= 3 /\ SubSeq(b, 1, 3) = <<"w1", "w2", "w3">> THEN <<"w">> \o DecodeUtf8(SubSeq(b, 4, Len(b)))
    ELSE <<IF Head(b) \in {"w1", "w2", "w3"} THEN "bad" ELSE Head(b)>> \o DecodeUtf8(Tail(b))

\* Space between encoded words is shown.
RECURSIVE DecodeSpaced(_)
DecodeSpaced(items) ==
    IF items = <<>> THEN <<>>
    ELSE (IF Head(items).k = "word" THEN DecodeUtf8(Head(items).v) ELSE <<Head(items).v>>) \o DecodeSpaced(Tail(items))

RECURSIVE Decoded(_, _)
Decoded(items, afterWord) ==
    IF items = <<>> THEN <<>>
    ELSE LET x == Head(items)
             next == SelectInSeq(items, LAMBDA y : y # Ch(" "))
         IN IF x.k = "word" THEN DecodeUtf8(x.v) \o Decoded(Tail(items), TRUE)
            ELSE IF afterWord /\ x = Ch(" ") /\ next # 0 /\ items[next].k = "word"
            THEN Decoded(SubSeq(items, next, Len(items)), TRUE)
            ELSE <<x.v>> \o Decoded(Tail(items), FALSE)

\* decode_rfc2047
DecodeRfc2047(items) == Decoded(items, FALSE)

RECURSIVE TrimItems(_)
TrimItems(s) == IF s # <<>> /\ Head(s) = Ch(" ") THEN TrimItems(Tail(s))
                ELSE IF s # <<>> /\ Last(s) = Ch(" ") THEN TrimItems(Front(s)) ELSE s

\* unquote
RECURSIVE Unescaped(_)
Unescaped(s) == IF s = <<>> THEN <<>>
                ELSE IF Head(s) = Ch("s") THEN (IF Len(s) = 1 THEN <<>> ELSE <<s[2]>> \o Unescaped(SubSeq(s, 3, Len(s))))
                ELSE <<Head(s)>> \o Unescaped(Tail(s))
Unquote(s) == IF Len(s) >= 2 /\ Head(s) = Ch("q") /\ Last(s) = Ch("q") THEN Unescaped(SubSeq(s, 2, Len(s) - 1)) ELSE s

\* push_address: a colon with no address before it ends the name of a group.
WithoutGroup(t) ==
    LET colon == SelectInSeq(t, LAMBDA x : x = Ch("k"))
        grouped == colon # 0 /\ \A i \in 1..(colon - 1) : t[i].k # "mail" /\ t[i] # Ch("<")
    IN IF grouped THEN TrimItems(SubSeq(t, colon + 1, Len(t))) ELSE t
OneAddress(list, u) ==
    LET left == SelectLastInSeq(u, LAMBDA x : x = Ch("<"))
        close == SelectLastInSeq(u, LAMBDA x : x = Ch(">"))
        angled == left # 0 /\ close > left
    IN IF u = <<>> THEN list
       ELSE Append(list, [name |-> IF angled THEN DecodeRfc2047(Unquote(TrimItems(SubSeq(u, 1, left - 1)))) ELSE <<>>,
                         mail |-> IF angled THEN SubSeq(u, left + 1, close - 1) ELSE u])
PushAddress(list, raw) == OneAddress(list, WithoutGroup(TrimItems(raw)))

\* One character of parse_addresses.
AddressStep(w, x) ==
    LET kept == [w EXCEPT !.cur = Append(@, x)]
    IN IF w.escaped THEN [kept EXCEPT !.escaped = FALSE]
       ELSE IF x = Ch("s") /\ w.quoted THEN [kept EXCEPT !.escaped = TRUE]
       ELSE IF x = Ch("q") THEN [kept EXCEPT !.quoted = ~@]
       ELSE IF x = Ch("<") /\ ~w.quoted THEN [kept EXCEPT !.angle = @ + 1]
       ELSE IF x = Ch(">") /\ ~w.quoted THEN [kept EXCEPT !.angle = IF @ = 0 THEN 0 ELSE @ - 1]
       ELSE IF x = Ch("c") /\ ~w.quoted /\ w.angle = 0 THEN [w EXCEPT !.out = PushAddress(w.out, w.cur), !.cur = <<>>]
       ELSE kept

\* parse_addresses, address_views
ParseAddresses(items) ==
    LET start == [out |-> <<>>, cur |-> <<>>, quoted |-> FALSE, escaped |-> FALSE, angle |-> 0]
        end == FoldLeft(AddressStep, start, items)
    IN PushAddress(end.out, end.cur)

\* decode_parameter_value: two apostrophes enclose a language.
DecodeParameter(s) ==
    LET ticks == SetToSortSeq({i \in DOMAIN s : s[i] = "p"}, <)
    IN IF Len(ticks) >= 2 THEN SubSeq(s, ticks[2] + 1, Len(s)) ELSE s

DataOf(m, p) ==
    LET lines == SelectSeq(SubSeq(m, Reader!BodyOf(m, p)[1], Reader!BodyOf(m, p)[2]), LAMBDA l : l.k = "text")
    IN FlattenSeq([i \in DOMAIN lines |-> lines[i].v])
NameOf(m, p) == IF Reader!Has(m, p, "name") THEN DecodeParameter(m[Reader!SmallestOf(Reader!Lines(m, p, "name"))].v) ELSE <<>>

\* headers_view, parse_message
ShownBody(m, leaves, i) == IF i = 0 THEN Absent ELSE DataOf(m, leaves[i].part)
ShownFiles(m, files) ==
    [i \in DOMAIN files |-> [name |-> NameOf(m, files[i].part), data |-> DataOf(m, files[i].part)]]
PageOf(leaves) ==
    [kind |-> "page",
     from |-> ParseAddresses(Unfold(built.from)), to |-> ParseAddresses(built.to),
     cc |-> ParseAddresses(built.cc), bcc |-> ParseAddresses(built.bcc),
     subject |-> DecodeRfc2047(Unfold(built.subject)),
     text |-> ShownBody(built.lines, leaves, Reader!FirstBody(leaves, "plain")),
     html |-> ShownBody(built.lines, leaves, Reader!FirstBody(leaves, "html")),
     files |-> ShownFiles(built.lines, Reader!Listed(leaves))]
Read ==
    /\ page = Nil /\ built.kind = "message"
    /\ page' = PageOf(Reader!CollectParts(built.lines).leaves)
    /\ UNCHANGED <<request, purpose, built>>

-----------------------------------------------------------------------------
Texts(S, n) == UNION {[1..l -> S] : l \in 0..n}
Plainly == [to |-> <<"bob">>, cc |-> <<>>, bcc |-> <<>>, subject |-> <<"a">>, name |-> <<"a">>,
            text |-> <<"x">>, html |-> Absent, files |-> <<>>]
Addressees == Texts({"ann", "ANN", "bob"}, 2)
File(n, d, t) == [name |-> n, data |-> d, type |-> t]
Files == {File(<<"a">>, <<"x", "y", "z">>, "binary"), File(<<"/", "a", "q">>, <<>>, "plain"),
          File(<<"w", "a">>, <<"u">>, "html"), File(<<"a", "p", "a", "p", "a">>, <<"v", "v">>, "binary")}
Bodies == {Absent, <<>>, <<"x", "y", "x">>}
Requests ==
    {[Plainly EXCEPT !.subject = s] : s \in Texts(SubjectChars \cup {" "}, MaxSubject) \cup {<<"a", "ctl">>}}
    \cup {[Plainly EXCEPT !.name = n] : n \in Texts({"a", "w", " ", "q", "s", "c", "k"}, 3)}
    \cup {[Plainly EXCEPT !.to = a, !.cc = b, !.bcc = c] : a \in Addressees, b \in Addressees, c \in Addressees}
    \cup {[Plainly EXCEPT !.text = t, !.html = h, !.files = fs] :
            t \in Bodies, h \in Bodies, fs \in Texts(Files, MaxFiles) \cup {[i \in 1..(MaxFiles + 1) |-> File(<<"a">>, <<"x">>, "plain")]}}

ComposeInit == request \in Requests /\ purpose \in {"send", "draft"} /\ built = Nil /\ page = Nil

ComposeNext == Build \/ Read

ComposeSpec == ComposeInit /\ [][ComposeNext]_composeVars

-----------------------------------------------------------------------------
\* A character is cut in two by the end of an encoded word.
Straddles(s) ==
    ~IsAscii(s) /\ \E i \in DOMAIN s : s[i] = "w"
        /\ LET before == Len(BytesOf(SubSeq(s, 1, i - 1))) IN before \div ChunkBytes # (before + 2) \div ChunkBytes

ShownAddresses(as) == [i \in DOMAIN as |-> [name |-> <<>>, mail |-> <<Mail(as[i])>>]]

\* What was written is what the webmail shows: addresses, display name, subject, both
\* bodies and every attachment's data, through quoting, encoded words, folding, base64
\* and nested boundaries, unless an encoded word ends inside a character or the display
\* name has a colon; file names arrive with letters other than ASCII replaced.
WrittenIsShown ==
    page # Nil =>
        /\ page.to = ShownAddresses(request.to) /\ page.cc = ShownAddresses(request.cc)
        /\ "k" \notin Range(request.name) /\ ~Straddles(Trim(request.name)) =>
             page.from = <<[name |-> Trim(request.name), mail |-> <<Mail("ann")>>]>>
        /\ ~Straddles(Trim(request.subject)) => page.subject = Trim(request.subject)
        /\ page.text = IF request.text = Absent /\ request.html = Absent THEN <<>> ELSE request.text
        /\ page.html = request.html
        /\ Len(page.files) = Len(request.files)
        /\ \A i \in DOMAIN page.files :
             /\ page.files[i].data = request.files[i].data
             /\ "p" \notin Range(request.files[i].name) =>
                  page.files[i].name = AsciiFallback(SanitizeFilename(request.files[i].name))

\* A blind copy goes to its recipient and is not told to anyone, and a draft that is
\* opened again still has it.
BlindCopies ==
    page # Nil =>
        /\ \A a \in Range(request.bcc) : Lower(a) \in {Lower(x) : x \in Range(built.recipients)}
        /\ page.bcc = IF purpose = "draft" THEN ShownAddresses(request.bcc) ELSE <<>>

\* The test non_ascii_subject_and_display_name_are_rfc2047_encoded: what encodes a
\* subject and what decodes it are inverse to each other.
SubjectKept == page # Nil => page.subject = Trim(request.subject)

-----------------------------------------------------------------------------
(* sanitize_html *)

sanitizeVars == <<input, remote, index, out, open, skip, blocked, done>>

AllowedTags == {"p", "b", "img", "br"}
DropWithContentTags == {"script", "meta"}
VoidTags == {"img", "br"}
VoidElements == {"img", "br", "meta"}

Text == [t |-> "text"]
Open(n, src) == [t |-> "open", n |-> n, src |-> src]
Close(n) == [t |-> "close", n |-> n]
Stray == {[t |-> "comment"], [t |-> "unended"], [t |-> "lt"]}
Tokens == {Text, Open("p", "none"), Open("b", "none"), Open("img", "remote"), Open("img", "cid"), Open("img", "odd"),
           Open("script", "none"), Open("meta", "none"), Open("x", "none"),
           Close("p"), Close("b"), Close("script")} \cup Stray

-----------------------------------------------------------------------------
Tok == input[index]
Turn == ~done /\ index <= Len(input) /\ Len(out) < MaxOutput
Advance == index' = index + 1

\* Dropping ends at the first end tag of the name.
SkipAfterFirstEnd(tok) ==
    IF tok.t = "close" /\ tok.n = skip[1] THEN <<>> ELSE skip

\* Elements of the same name nest while one is dropped.
SkipAfter(tok) ==
    IF tok.t = "close" /\ tok.n = skip[1] THEN (IF skip[2] = 1 THEN <<>> ELSE <<skip[1], skip[2] - 1>>)
    ELSE IF tok.t = "open" /\ tok.n = skip[1] THEN <<skip[1], skip[2] + 1>> ELSE skip

\* In a dropped element: text is passed over, a "<" that begins no tag ends the loop.
Skipping ==
    /\ Turn /\ skip # <<>>
    /\ IF Tok \in Stray THEN done' = TRUE /\ UNCHANGED <<index, skip>>
       ELSE Advance /\ skip' = SkipAfter(Tok) /\ UNCHANGED done
    /\ UNCHANGED <<input, remote, out, open, blocked>>

\* Text is escaped and kept; so is a "<" that begins no tag.
PushText ==
    /\ Turn /\ skip = <<>> /\ Tok.t \in {"text", "lt"}
    /\ Advance /\ out' = Append(out, [t |-> "text", at |-> index])
    /\ UNCHANGED <<input, remote, open, skip, blocked, done>>

\* A comment is left out; one that does not end takes the rest with it.
Comment ==
    /\ Turn /\ skip = <<>> /\ Tok.t \in {"comment", "unended"}
    /\ IF Tok.t = "comment" THEN Advance /\ UNCHANGED done ELSE done' = TRUE /\ UNCHANGED index
    /\ UNCHANGED <<input, remote, out, open, skip, blocked>>

\* The end tags of the open elements from position i, innermost first.
EndTags(i) == Reverse([k \in 1..(Len(open) - i + 1) |-> Close(open[i + k - 1])])

\* An end tag closes its element alone.
EndTagAlone ==
    /\ Turn /\ skip = <<>> /\ Tok.t = "close"
    /\ Advance
    /\ LET i == SelectLastInSeq(open, LAMBDA n : n = Tok.n)
       IN IF i = 0 THEN UNCHANGED <<out, open>>
          ELSE out' = Append(out, Close(Tok.n)) /\ open' = SubSeq(open, 1, i - 1) \o SubSeq(open, i + 1, Len(open))
    /\ UNCHANGED <<input, remote, skip, blocked, done>>

\* An end tag closes what was opened since as well; one that matches nothing is dropped.
EndTag ==
    /\ Turn /\ skip = <<>> /\ Tok.t = "close"
    /\ Advance
    /\ LET i == SelectLastInSeq(open, LAMBDA n : n = Tok.n)
       IN IF i = 0 THEN UNCHANGED <<out, open>>
          ELSE out' = out \o EndTags(i) /\ open' = SubSeq(open, 1, i - 1)
    /\ UNCHANGED <<input, remote, skip, blocked, done>>

\* A start tag that is not kept; a dropped element with content begins.
DropTag ==
    /\ Turn /\ skip = <<>> /\ Tok.t = "open" /\ Tok.n \notin AllowedTags
    /\ Advance
    /\ skip' = IF Tok.n \in DropWithContentTags \ VoidElements THEN <<Tok.n, 1>> ELSE <<>>
    /\ UNCHANGED <<input, remote, out, open, blocked, done>>

\* classify_image_url: what becomes of an image's address.
Classified(src) ==
    IF src = "cid" THEN "kept" ELSE IF src = "remote" THEN (IF remote THEN "kept" ELSE "blocked") ELSE "none"

\* A start tag that is kept; it is written only while there is room, and counted anyway.
KeepTag ==
    /\ Turn /\ skip = <<>> /\ Tok.t = "open" /\ Tok.n \in AllowedTags
    /\ Advance
    /\ IF Len(out) + Margin < MaxOutput
       THEN /\ out' = Append(out, Open(Tok.n, Classified(Tok.src)) @@ [from |-> Tok.src])
            /\ blocked' = IF Classified(Tok.src) = "blocked" THEN blocked + 1 ELSE blocked
       ELSE UNCHANGED <<out, blocked>>
    /\ open' = IF Tok.n \in VoidTags THEN open ELSE Append(open, Tok.n)
    /\ UNCHANGED <<input, remote, skip, done>>

\* At the end every open element is closed while there is room.
Finish ==
    /\ ~done \/ open # <<>>
    /\ done \/ index > Len(input) \/ Len(out) >= MaxOutput
    /\ done' = TRUE
    /\ IF open = <<>> THEN UNCHANGED <<out, open>>
       ELSE /\ out' = IF Len(out) + 1 < MaxOutput THEN Append(out, Close(Last(open))) ELSE out
            /\ open' = Front(open)
    /\ UNCHANGED <<input, remote, index, skip, blocked>>

SanitizeInit ==
    /\ input \in UNION {[1..n -> Tokens] : n \in 0..MaxInput} /\ remote \in BOOLEAN
    /\ index = 1 /\ out = <<>> /\ open = <<>> /\ skip = <<>> /\ blocked = 0 /\ done = FALSE

SanitizeNext == Skipping \/ PushText \/ Comment \/ EndTag \/ DropTag \/ KeepTag \/ Finish

SanitizeSpec == SanitizeInit /\ [][SanitizeNext]_sanitizeVars

-----------------------------------------------------------------------------
Finished == done /\ open = <<>>

Count(S) == Cardinality(S)

\* Token i lies in a dropped element.
RECURSIVE Dropped(_)
Dropped(i) ==
    \E j \in 1..(i - 1) :
        /\ input[j].t = "open" /\ input[j].n \in DropWithContentTags \ VoidElements /\ ~Dropped(j)
        /\ \A k \in j..(i - 1) :
             Count({m \in j..k : input[m].t = "open" /\ input[m].n = input[j].n})
               > Count({m \in j..k : input[m] = Close(input[j].n)})

\* Where reading stops early: a comment without an end, or a "<" that begins no tag
\* inside a dropped element.
Stops(i) == input[i].t = "unended" \/ (input[i] \in Stray /\ Dropped(i))

RECURSIVE Nests(_, _)
Nests(s, stack) ==
    IF s = <<>> THEN stack = <<>>
    ELSE LET x == Head(s)
         IN IF x.t = "open" /\ x.n \notin VoidTags THEN Nests(Tail(s), Append(stack, x.n))
            ELSE IF x.t = "close" THEN stack # <<>> /\ Last(stack) = x.n /\ Nests(Tail(s), Front(stack))
            ELSE Nests(Tail(s), stack)

Roomy == Len(out) + Margin < MaxOutput

\* The page shows all text up to where reading stops except that of dropped elements
\* and nothing of those, its elements nest, and remote images load only when allowed
\* and are counted otherwise, however the input nests its tags.
ShownExactly ==
    Finished /\ Roomy =>
        /\ {out[k].at : k \in {k \in DOMAIN out : out[k].t = "text"}}
             = {i \in DOMAIN input : /\ input[i].t \in {"text", "lt"} /\ ~Dropped(i)
                                     /\ \A j \in 1..i : ~Stops(j)}
        /\ Nests(out, <<>>)
        /\ blocked = Count({k \in DOMAIN out : out[k].t = "open" /\ out[k].src = "blocked"})
        /\ \A k \in DOMAIN out : out[k].t = "open" /\ out[k].from = "remote" /\ ~remote => out[k].src = "blocked"

\* docs/WEBMAIL.md:124: script, style and their like are dropped together with their
\* content, the rest is kept.
RestKept ==
    Finished /\ Roomy =>
        \A i \in DOMAIN input :
            input[i].t = "text" /\ ~Dropped(i) /\ (\A j \in 1..i : input[j].t # "unended") =>
                \E k \in DOMAIN out : out[k].t = "text" /\ out[k].at = i
=============================================================================
